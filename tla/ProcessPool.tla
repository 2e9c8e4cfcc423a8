---------------------------- MODULE ProcessPool ----------------------------
(* The process pool of 10-1/processpool: a parent forks N children, each    *)
(* with a pipe of its own, hands them commands in turn and, when the user   *)
(* quits, closes the pipes one by one and waits for each child.             *)
(*                                                                          *)
(* A child inherits every descriptor its parent holds at the fork, the      *)
(* write ends of the earlier children's pipes among them.  read() on a pipe *)
(* reports end of file only when NO process holds its write end, so who     *)
(* holds which write end is the state that matters; the read ends are left  *)
(* out: a child holds its own from the fork to its exit, and exits only at  *)
(* end of file, so a write never meets a pipe without a reader.  Commands   *)
(* are four bytes, written and read whole; what they print is left out, and *)
(* a pipe is the number of commands in it.                                  *)
EXTENDS Naturals

CONSTANTS N,        \* gnum, the number of children
          Capacity  \* commands a pipe holds before write() blocks

ASSUME NAssumption == N \in Nat \ {0}
ASSUME CapacityAssumption == Capacity \in Nat \ {0}

VARIABLES ppc,   \* where the parent is
          next,  \* end_points.size() while creating; end while waiting
          cnt,   \* the endpoint whose turn it is
          cin,   \* FALSE once std::cin failed: it then yields 0 for ever
          cpc,   \* where each child is
          fds,   \* inherited write ends a child has still to close
          wr,    \* the pipes whose write end each process holds
          pipe   \* the commands in each pipe

vars == <<ppc, next, cnt, cin, cpc, fds, wr, pipe>>

Parent == 0
Children == 1..N
Procs == {Parent} \cup Children
Gone == {"none", "zombie", "reaped"}

\* The type invariant.
TypeOK == /\ ppc \in {"pipe", "fork", "board", "write", "close", "wait",
                      "done", "aborted"}
          /\ next \in 1..N + 1
          /\ cnt \in Children
          /\ cin \in BOOLEAN
          /\ cpc \in [Children -> {"close", "read", "run"} \cup Gone]
          /\ fds \in [Children -> SUBSET Children]
          /\ wr \in [Procs -> SUBSET Children]
          /\ pipe \in [Children -> 0..Capacity]

Init == /\ ppc = "pipe"
        /\ next = 1
        /\ cnt = 1
        /\ cin = TRUE
        /\ cpc = [k \in Children |-> "none"]
        /\ fds = [k \in Children |-> {}]
        /\ wr = [p \in Procs |-> {}]
        /\ pipe = [k \in Children |-> 0]

----------------------------------------------------------------------------
(* createProcesses *)

Pipe == /\ ppc = "pipe"
        /\ ppc' = "fork"
        /\ wr' = [wr EXCEPT ![Parent] = @ \cup {next}]
        /\ UNCHANGED <<next, cnt, cin, cpc, fds, pipe>>

\* Mutant of Fork: the write end is not pushed to fds.
ForkNoFds == /\ ppc = "fork"
             /\ ppc' = IF next = N THEN "board" ELSE "pipe"
             /\ next' = IF next = N THEN 1 ELSE next + 1
             /\ cpc' = [cpc EXCEPT ![next] = "close"]
             /\ wr' = [wr EXCEPT ![next] = wr[Parent]]
             /\ UNCHANGED <<cnt, cin, fds, pipe>>

\* The child gets a copy of the parent's descriptors and of the vector fds,
\* the write ends of the children before it.
Fork == /\ ppc = "fork"
        /\ ppc' = IF next = N THEN "board" ELSE "pipe"
        /\ next' = IF next = N THEN 1 ELSE next + 1
        /\ cpc' = [cpc EXCEPT ![next] = "close"]
        /\ fds' = [fds EXCEPT ![next] = 1..next - 1]
        /\ wr' = [wr EXCEPT ![next] = wr[Parent]]
        /\ UNCHANGED <<cnt, cin, pipe>>

\* assert(n == 0) or assert(id != -1): pipe() or fork() failed, the parent
\* aborts and its descriptors are closed.
Abort == /\ ppc \in {"pipe", "fork"}
         /\ ppc' = "aborted"
         /\ wr' = [wr EXCEPT ![Parent] = {}]
         /\ UNCHANGED <<next, cnt, cin, cpc, fds, pipe>>

----------------------------------------------------------------------------
(* ctrlProcess *)

\* The user types 0, 1 or 2; a token that is no number, or the end of the
\* input, leaves 0 in command and makes every later extraction fail as well.
Choose == /\ ppc = "board"
          /\ ppc' = "write"
          /\ cin' \in {c \in BOOLEAN : c => cin}
          /\ UNCHANGED <<next, cnt, cpc, fds, wr, pipe>>

\* Any other number shows the board again, and 3 leaves the loop.
Quit == /\ ppc = "board"
        /\ cin
        /\ ppc' = "close"
        /\ UNCHANGED <<next, cnt, cin, cpc, fds, wr, pipe>>

\* Mutant of Dispatch: cnt %= size is missing.
DispatchNoWrap == /\ ppc = "write"
                  /\ pipe[cnt] < Capacity
                  /\ pipe' = [pipe EXCEPT ![cnt] = @ + 1]
                  /\ cnt' = cnt + 1
                  /\ ppc' = "board"
                  /\ UNCHANGED <<next, cin, cpc, fds, wr>>

\* index = cnt++; cnt %= size; write(): blocks while the pipe is full.
Dispatch == /\ ppc = "write"
            /\ pipe[cnt] < Capacity
            /\ pipe' = [pipe EXCEPT ![cnt] = @ + 1]
            /\ cnt' = (cnt % N) + 1
            /\ ppc' = "board"
            /\ UNCHANGED <<next, cin, cpc, fds, wr>>

----------------------------------------------------------------------------
(* waitProcess *)

Close == /\ ppc = "close"
         /\ wr' = [wr EXCEPT ![Parent] = @ \ {next}]
         /\ ppc' = "wait"
         /\ UNCHANGED <<next, cnt, cin, cpc, fds, pipe>>

Wait == /\ ppc = "wait"
        /\ cpc[next] = "zombie"
        /\ cpc' = [cpc EXCEPT ![next] = "reaped"]
        /\ next' = next + 1
        /\ ppc' = IF next = N THEN "done" ELSE "close"
        /\ UNCHANGED <<cnt, cin, fds, wr, pipe>>

----------------------------------------------------------------------------
(* The child: close the inherited ends, its own write end, then WaitCommand *)

CloseInherited(k) == /\ cpc[k] = "close"
                     /\ \E fd \in fds[k] :
                          /\ fds' = [fds EXCEPT ![k] = @ \ {fd}]
                          /\ wr' = [wr EXCEPT ![k] = @ \ {fd}]
                     /\ UNCHANGED <<ppc, next, cnt, cin, cpc, pipe>>

\* Mutant of CloseOwn: close(pipefd[1]) is forgotten in the child.
CloseOwnNone(k) == /\ cpc[k] = "close"
                   /\ fds[k] = {}
                   /\ cpc' = [cpc EXCEPT ![k] = "read"]
                   /\ UNCHANGED <<ppc, next, cnt, cin, fds, wr, pipe>>

CloseOwn(k) == /\ cpc[k] = "close"
               /\ fds[k] = {}
               /\ wr' = [wr EXCEPT ![k] = @ \ {k}]
               /\ cpc' = [cpc EXCEPT ![k] = "read"]
               /\ UNCHANGED <<ppc, next, cnt, cin, fds, pipe>>

ReadCommand(k) == /\ cpc[k] = "read"
                  /\ pipe[k] > 0
                  /\ pipe' = [pipe EXCEPT ![k] = @ - 1]
                  /\ cpc' = [cpc EXCEPT ![k] = "run"]
                  /\ UNCHANGED <<ppc, next, cnt, cin, fds, wr>>

Execute(k) == /\ cpc[k] = "run"
              /\ cpc' = [cpc EXCEPT ![k] = "read"]
              /\ UNCHANGED <<ppc, next, cnt, cin, fds, wr, pipe>>

\* read() returned 0: the pipe is empty and no process holds its write end.
\* The child exits, which closes whatever it still holds.
EndOfFile(k) == /\ cpc[k] = "read"
                /\ pipe[k] = 0
                /\ \A p \in Procs : k \notin wr[p]
                /\ cpc' = [cpc EXCEPT ![k] = "zombie"]
                /\ wr' = [wr EXCEPT ![k] = {}]
                /\ UNCHANGED <<ppc, next, cnt, cin, fds, pipe>>

----------------------------------------------------------------------------

ChildStep(k) == \/ CloseInherited(k)
                \/ CloseOwn(k)
                \/ ReadCommand(k)
                \/ Execute(k)
                \/ EndOfFile(k)

ParentStep == Pipe \/ Fork \/ Dispatch \/ Close \/ Wait

Next == \/ ParentStep
        \/ Abort
        \/ Choose
        \/ Quit
        \/ \E k \in Children : ChildStep(k)

Spec == Init /\ [][Next]_vars

\* The kernel runs every process that can run.  Nothing says that the user
\* ever types anything, nor that a system call ever fails.
FairSpec == /\ Spec
            /\ WF_vars(ParentStep)
            /\ \A k \in Children : WF_vars(ChildStep(k))

----------------------------------------------------------------------------

\* A child that serves commands holds no write end at all, so that once the
\* parent closes a pipe nobody keeps its child from seeing the end of file
\* (the two close() of createProcesses, lines 83-84 and 95).
NoStrayWriter == \A k \in Children : cpc[k] \in {"read", "run"} => wr[k] = {}

\* No command that was written is abandoned: a child that has exited has read
\* its pipe to the end, although the parent closes the pipe right after its
\* last write and never waits for an answer.
NothingAbandoned == \A k \in Children :
                      cpc[k] \in {"zombie", "reaped"} => pipe[k] = 0

\* Nobody waits for ever.  A full pipe is emptied by its child, so the
\* parent's write() ends; after the user's 3 the loop of waitProcess reaps
\* all children; and if the parent aborts half way through createProcesses
\* the children it did create exit by themselves.
NobodyHangs == /\ (ppc = "write") ~> (ppc = "board")
               /\ (ppc = "close") ~> (ppc = "done")
               /\ (ppc = "aborted") ~> (\A k \in Children : cpc[k] \in Gone)
=============================================================================
