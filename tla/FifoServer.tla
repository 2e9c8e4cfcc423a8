----------------------------- MODULE FifoServer -----------------------------
(* The server of 10-2/fifo, which forks three children that read lines from *)
(* one FIFO until its end, and its client, which writes what the user types *)
(* until it is killed.                                                      *)
(*                                                                          *)
(* A read takes what is there, so a line may come in parts and two lines    *)
(* together; which child gets what is up to the kernel.  The FIFO is the    *)
(* number of parts in it.  The parent holds the read end too.               *)
EXTENDS Naturals, FiniteSets

CONSTANTS Nums,     \* nums, the number of children
          PipeSize  \* parts that the FIFO holds before write() blocks

FifoAssumption == Nums \in Nat \ {0} /\ PipeSize \in Nat \ {0}

VARIABLES fifoParent,  \* where the parent is
          fifoLoop,    \* i, in either of its loops
          fifoChild,   \* where each child is
          fifoExists,  \* whether the path names a FIFO
          fifoData,    \* the parts in it
          writer,      \* where the client is
          unread       \* when the client wrote last, no child was reading

fifoVars == <<fifoParent, fifoLoop, fifoChild, fifoExists, fifoData, writer,
              unread>>

Readers == 1..Nums

\* The type invariant.
FifoTypeOK ==
  /\ fifoParent \in {"mkfifo", "open", "fork", "wait", "close", "unlink", "exit"}
  /\ fifoLoop \in 0..Nums
  /\ fifoChild \in [Readers -> {"none", "read", "zombie", "reaped"}]
  /\ fifoExists \in BOOLEAN
  /\ fifoData \in 0..PipeSize
  /\ writer \in {"off", "opening", "type"}
  /\ unread \in BOOLEAN

FifoInit == /\ fifoParent = "mkfifo" /\ fifoLoop = 0
            /\ fifoChild = [r \in Readers |-> "none"]
            /\ fifoExists = FALSE /\ fifoData = 0
            /\ writer = "off" /\ unread = FALSE

HoldsReadEnd == fifoParent \in {"fork", "wait", "close"}
Reading == {r \in Readers : fifoChild[r] = "read"}

----------------------------------------------------------------------------
(* The server *)

Mkfifo == /\ fifoParent = "mkfifo"
          /\ fifoParent' = "open" /\ fifoExists' = TRUE
          /\ UNCHANGED <<fifoLoop, fifoChild, fifoData, writer, unread>>

\* open() waits for a writer.
FifoOpen == /\ fifoParent = "open" /\ writer = "opening"
            /\ fifoParent' = "fork"
            /\ UNCHANGED <<fifoLoop, fifoChild, fifoExists, fifoData, writer, unread>>

\* fork(), whose failure goes unnoticed.
FifoFork == /\ fifoParent = "fork"
            /\ fifoChild' \in {fifoChild, [fifoChild EXCEPT ![fifoLoop + 1] = "read"]}
            /\ fifoLoop' = IF fifoLoop + 1 = Nums THEN 0 ELSE fifoLoop + 1
            /\ fifoParent' = IF fifoLoop + 1 = Nums THEN "wait" ELSE "fork"
            /\ UNCHANGED <<fifoExists, fifoData, writer, unread>>

\* waitpid(-1) in turn: any child that has ended, or an error if none is left.
FifoWait == /\ fifoParent = "wait"
            /\ \/ \E r \in Readers : /\ fifoChild[r] = "zombie"
                                     /\ fifoChild' = [fifoChild EXCEPT ![r] = "reaped"]
               \/ /\ \A r \in Readers : fifoChild[r] \in {"none", "reaped"}
                  /\ UNCHANGED fifoChild
            /\ fifoLoop' = IF fifoLoop + 1 = Nums THEN 0 ELSE fifoLoop + 1
            /\ fifoParent' = IF fifoLoop + 1 = Nums THEN "close" ELSE "wait"
            /\ UNCHANGED <<fifoExists, fifoData, writer, unread>>

\* close() of the last read end: what is in the FIFO is gone.
FifoClose == /\ fifoParent = "close"
             /\ fifoParent' = "unlink"
             /\ fifoData' = 0
             /\ UNCHANGED <<fifoLoop, fifoChild, fifoExists, writer, unread>>

FifoUnlink == /\ fifoParent = "unlink"
              /\ fifoParent' = "exit" /\ fifoExists' = FALSE
              /\ UNCHANGED <<fifoLoop, fifoChild, fifoData, writer, unread>>

----------------------------------------------------------------------------
(* getMessage, in a child *)

GetMessage(r) == /\ fifoChild[r] = "read" /\ fifoData > 0
                 /\ fifoData' \in 0..fifoData - 1
                 /\ UNCHANGED <<fifoParent, fifoLoop, fifoChild, fifoExists,
                                writer, unread>>

\* read() returns 0: the FIFO is empty and has no writer.
MessageEnd(r) == /\ fifoChild[r] = "read" /\ fifoData = 0 /\ writer = "off"
                 /\ fifoChild' = [fifoChild EXCEPT ![r] = "zombie"]
                 /\ UNCHANGED <<fifoParent, fifoLoop, fifoExists, fifoData,
                                writer, unread>>

----------------------------------------------------------------------------
(* The client *)

\* open() fails if there is no FIFO, and the client exits; else it waits for a
\* reader.
WriterOpen == /\ writer = "off" /\ fifoExists
              /\ writer' = "opening"
              /\ UNCHANGED <<fifoParent, fifoLoop, fifoChild, fifoExists,
                             fifoData, unread>>

WriterOpened == /\ writer = "opening" /\ HoldsReadEnd
                /\ writer' = "type"
                /\ UNCHANGED <<fifoParent, fifoLoop, fifoChild, fifoExists,
                               fifoData, unread>>

\* write() of a line, in one part or two.  Without any reader it raises
\* SIGPIPE; with only the parent's, which never reads, it succeeds.
WriteLine == /\ writer = "type"
             /\ \/ /\ HoldsReadEnd
                   /\ fifoData' \in (fifoData + 1 .. fifoData + 2) \cap (0..PipeSize)
                   /\ unread' = (Reading = {})
                   /\ UNCHANGED writer
                \/ /\ ~HoldsReadEnd
                   /\ writer' = "off"
                   /\ UNCHANGED <<fifoData, unread>>
             /\ UNCHANGED <<fifoParent, fifoLoop, fifoChild, fifoExists>>

\* The user kills the client.
WriterEnd == /\ writer # "off"
             /\ writer' = "off"
             /\ UNCHANGED <<fifoParent, fifoLoop, fifoChild, fifoExists,
                            fifoData, unread>>

----------------------------------------------------------------------------

FifoParentStep == Mkfifo \/ FifoOpen \/ FifoFork \/ FifoWait \/ FifoClose \/ FifoUnlink
FifoChildStep(r) == GetMessage(r) \/ MessageEnd(r)

FifoNext == \/ FifoParentStep
            \/ \E r \in Readers : FifoChildStep(r)
            \/ WriterOpen \/ WriterOpened \/ WriteLine \/ WriterEnd

FifoSpec == /\ FifoInit /\ [][FifoNext]_fifoVars
            /\ WF_fifoVars(FifoParentStep)
            /\ \A r \in Readers : WF_fifoVars(FifoChildStep(r))

----------------------------------------------------------------------------

\* A line is lost only if it was written when no child was reading, though the
\* children end one by one and another client may come between.
LinesRead == fifoParent = "close" /\ fifoData > 0 => unread

\* No line is lost in another way; and once there is no client the server ends
\* and removes the FIFO.
FifoServed ==
  /\ []LinesRead
  /\ (fifoParent = "wait" /\ writer = "off") ~> (fifoParent = "exit" \/ writer # "off")
=============================================================================
