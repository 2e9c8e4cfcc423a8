------------------------------- MODULE TcpNet -------------------------------
(***************************************************************************)
(* The network side of the TCP servers of this repository: clients, the    *)
(* kernel's accept queue and the two byte streams of each connection.      *)
(* None of it is under src/; it is modelled as far as the servers can see  *)
(* it through accept, recv, send and close.                                *)
(*                                                                         *)
(* A byte stream is a sequence of symbols.  A client sends its n-th        *)
(* request as a payload symbol followed by the separator "X", each on its  *)
(* own, so a request may arrive in two pieces or run into the next one.    *)
(* The payload is n if it can be deserialized and -n if it cannot.         *)
(***************************************************************************)
EXTENDS Integers, Sequences

CONSTANTS Clients,      \* one TCP connection each
          MaxRequests,  \* bound: the requests each client sends
          SndBuf,       \* replies the kernel buffers for a slow reader
          MayReset      \* the clients that may reset their connection

ASSUME TcpNetAssumption ==
  /\ MaxRequests \in [Clients -> Nat]
  /\ SndBuf \in Nat \ {0}
  /\ MayReset \subseteq Clients

VARIABLES
  cl,       \* "new", "queued" (for accept), "open", "closed" by the server
  ctl,      \* what the client did to its side: "ok", "fin", "rst"
  backlog,  \* connections that wait to be accepted
  sent,     \* every symbol the client has sent
  rx,       \* symbols that the server has not received yet
  tx,       \* replies that the client has not read yet
  got       \* replies the client has read

netVars == <<cl, ctl, backlog, sent, rx, tx, got>>

SEP == 0

NetTypeOK ==
  /\ cl \in [Clients -> {"new", "queued", "open", "closed"}]
  /\ ctl \in [Clients -> {"ok", "fin", "rst"}]
  /\ backlog \in Seq(Clients)
  /\ sent \in [Clients -> Seq(Int)]
  /\ rx \in [Clients -> Seq(Int)]
  /\ tx \in [Clients -> Seq(Int)] /\ \A k \in Clients : Len(tx[k]) <= SndBuf
  /\ got \in [Clients -> Seq(Int)]

NetInit ==
  /\ cl = [k \in Clients |-> "new"]
  /\ ctl = [k \in Clients |-> "ok"]
  /\ backlog = <<>>
  /\ sent = [k \in Clients |-> <<>>]
  /\ rx = [k \in Clients |-> <<>>]
  /\ tx = [k \in Clients |-> <<>>]
  /\ got = [k \in Clients |-> <<>>]

NetConnect(k) ==
  /\ cl[k] = "new"
  /\ cl' = [cl EXCEPT ![k] = "queued"]
  /\ backlog' = Append(backlog, k)
  /\ UNCHANGED <<ctl, sent, rx, tx, got>>

Established(k) == cl[k] \in {"queued", "open"}

(* The next symbol of client k's stream: a separator after a payload.      *)
NextSymbols(k) ==
  LET n == Len(sent[k]) \div 2 + 1
  IN  IF Len(sent[k]) % 2 = 1 THEN {SEP} ELSE {n, -n}

NetSend(k) ==
  /\ Established(k) /\ ctl[k] = "ok"
  /\ Len(sent[k]) < 2 * MaxRequests[k]
  /\ \E s \in NextSymbols(k) :
       /\ sent' = [sent EXCEPT ![k] = Append(@, s)]
       /\ rx' = [rx EXCEPT ![k] = Append(@, s)]
  /\ UNCHANGED <<cl, ctl, backlog, tx, got>>

(* The client sends no more, as shutdown() or a close() does.              *)
NetFin(k) ==
  /\ Established(k) /\ ctl[k] = "ok"
  /\ ctl' = [ctl EXCEPT ![k] = "fin"]
  /\ UNCHANGED <<cl, backlog, sent, rx, tx, got>>

(* The connection is reset.  What had arrived can still be received.       *)
NetReset(k) ==
  /\ Established(k) /\ ctl[k] # "rst" /\ k \in MayReset
  /\ ctl' = [ctl EXCEPT ![k] = "rst"]
  /\ UNCHANGED <<cl, backlog, sent, rx, tx, got>>

(* The client reads the replies one by one.                                *)
NetRead(k) ==
  /\ tx[k] # <<>> /\ ctl[k] # "rst"
  /\ got' = [got EXCEPT ![k] = Append(@, Head(tx[k]))]
  /\ tx' = [tx EXCEPT ![k] = Tail(@)]
  /\ UNCHANGED <<cl, ctl, backlog, sent, rx>>

(* What poll, select and epoll report of an accepted connection.           *)
Readable(k) == rx[k] # <<>> \/ ctl[k] # "ok"
Writable(k) == Len(tx[k]) < SndBuf \/ ctl[k] = "rst"

(* The replies a calculator server owes for a piece of a client's stream.  *)
Replies(stream) ==
  LET upTo[n \in 0..Len(stream)] ==
        IF n = 0 THEN <<>>
        ELSE IF stream[n] > 0 THEN Append(upTo[n - 1], stream[n]) ELSE upTo[n - 1]
  IN  upTo[Len(stream)]
=============================================================================
