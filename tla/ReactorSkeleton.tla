-------------------------- MODULE ReactorSkeleton --------------------------
(* The first version of the reactor, 11-7: an edge-triggered epoll server   *)
(* that accepts connections and dispatches events, whose Recver, Sender and *)
(* Excepter are still empty.  Nothing is read and nothing closed, so every  *)
(* connection costs a descriptor for good.                                  *)
EXTENDS Naturals, FiniteSets

CONSTANTS Guests,     \* the clients, one connection each
          ListenSock,
          Descriptors,  \* how many connections the server can hold
          MaxEvents   \* gnum, the events that one epoll_wait reports

SkeletonAssumption == /\ ListenSock \notin Guests
                      /\ Descriptors \in Nat
                      /\ MaxEvents \in Nat \ {0}

VARIABLES skMain,   \* where the server is
          backlog,  \* the connections that wait for accept()
          guest,    \* where each client is
          conns,    \* the keys of _connections
          watched,  \* the sockets that EPOLL_CTL_ADD took
          ready,    \* the sockets with an edge that was not yet reported
          revs      \* the reported events that are still to be handled

skVars == <<skMain, backlog, guest, conns, watched, ready, revs>>

Socks == Guests \cup {ListenSock}

\* The type invariant.
SkTypeOK == /\ skMain \in {"setup", "add", "wait", "sweep", "accept", "exit"}
            /\ backlog \subseteq Guests
            /\ guest \in [Guests -> {"out", "silent", "spoke"}]
            /\ conns \subseteq Socks /\ watched \subseteq conns
            /\ ready \subseteq watched /\ revs \subseteq watched
            /\ Cardinality(conns \ {ListenSock}) <= Descriptors

SkInit == /\ skMain = "setup"
          /\ backlog = {}
          /\ guest = [g \in Guests |-> "out"]
          /\ conns = {} /\ watched = {}
          /\ ready = {} /\ revs = {}

----------------------------------------------------------------------------

\* Socket, Bind, Listen and CreateEpoll; each exits if it fails.
SkListen == /\ skMain = "setup"
            /\ skMain' \in {"add", "exit"}
            /\ UNCHANGED <<backlog, guest, conns, watched, ready, revs>>

\* A socket that is readable when it is added is reported, so it does not
\* matter what arrived before.  A failure goes unnoticed.
AddConnection(s, readable) ==
  /\ conns' = conns \cup {s}
  /\ \/ /\ watched' = watched \cup {s}
        /\ ready' = IF readable THEN ready \cup {s} ELSE ready
     \/ UNCHANGED <<watched, ready>>

AddListen == /\ skMain = "add"
             /\ AddConnection(ListenSock, backlog # {})
             /\ skMain' = "wait"
             /\ UNCHANGED <<backlog, guest, revs>>

\* epoll_wait; the ready list gives up what it reports.
LoopOnce == /\ skMain = "wait"
            /\ \E some \in SUBSET ready :
                 /\ some # {} /\ Cardinality(some) <= MaxEvents
                 /\ \A s \in {r \in ready : Cardinality(ready) <= MaxEvents} : s \in some
                 /\ revs' = some
                 /\ ready' = ready \ some
            /\ skMain' = "sweep"
            /\ UNCHANGED <<backlog, guest, conns, watched>>

\* EPOLLIN on s, if it is in the map: Accepter, or Recver, which does nothing.
Dispatch(s) == /\ skMain = "sweep" /\ s \in revs
               /\ revs' = revs \ {s}
               /\ skMain' = IF s = ListenSock /\ s \in conns THEN "accept" ELSE "sweep"
               /\ UNCHANGED <<backlog, guest, conns, watched, ready>>

LoopEnd == /\ skMain = "sweep" /\ revs = {}
           /\ skMain' = "wait"
           /\ UNCHANGED <<backlog, guest, conns, watched, ready, revs>>

Full == Cardinality(conns \ {ListenSock}) = Descriptors

\* One turn of Accepter's loop.
Accepter(g) == /\ skMain = "accept" /\ g \in backlog /\ ~Full
               /\ backlog' = backlog \ {g}
               /\ AddConnection(g, guest[g] = "spoke")
               /\ UNCHANGED <<skMain, guest, revs>>

\* accept() fails: nobody waits, or no descriptor is left.
AccepterEnd == /\ skMain = "accept"
               /\ backlog = {} \/ Full
               /\ skMain' = "sweep"
               /\ UNCHANGED <<backlog, guest, conns, watched, ready, revs>>

----------------------------------------------------------------------------
(* Clients and kernel *)

Edge(s) == ready' = IF s \in watched THEN ready \cup {s} ELSE ready

GuestConnect(g) == /\ guest[g] = "out"
                   /\ skMain \notin {"setup", "exit"}
                   /\ guest' = [guest EXCEPT ![g] = "silent"]
                   /\ backlog' = backlog \cup {g}
                   /\ Edge(ListenSock)
                   /\ UNCHANGED <<skMain, conns, watched, revs>>

\* Data, or the end of the stream.
GuestSend(g) == /\ guest[g] # "out"
                /\ guest' = [guest EXCEPT ![g] = "spoke"]
                /\ Edge(g)
                /\ UNCHANGED <<skMain, backlog, conns, watched, revs>>

----------------------------------------------------------------------------

SkServerStep == \/ SkListen \/ AddListen \/ LoopOnce \/ LoopEnd \/ AccepterEnd
                \/ \E s \in Socks : Dispatch(s)
                \/ \E g \in Guests : Accepter(g)

SkNext == SkServerStep \/ \E g \in Guests : GuestConnect(g) \/ GuestSend(g)

SkSpec == SkInit /\ [][SkNext]_skVars /\ WF_skVars(SkServerStep)

----------------------------------------------------------------------------

\* Every connection is accepted, unless the descriptors run out or the
\* listening socket could not be added.
GuestsAccepted ==
  \A g \in Guests : []<>(\/ guest[g] = "out" \/ g \in conns
                         \/ Full \/ ListenSock \notin watched)
=============================================================================
