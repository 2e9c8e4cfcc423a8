----------------------------- MODULE SharedPage -----------------------------
(* The server and the client of 10-3/shm: the client reads lines into a     *)
(* page of shared memory and writes a token to a FIFO for each; the server  *)
(* prints the page for each token, and "quit" ends both.                    *)
(*                                                                          *)
(* The page and the FIFO have names that outlive processes.  Servers are    *)
(* numbered; a page or a FIFO has the number of the server that made it,    *)
(* and a name refers to one of them or, 0, to none.  The file behind the    *)
(* key exists.                                                              *)
EXTENDS Naturals

CONSTANTS MaxServers,  \* bound on how often the server is started
          MaxTokens    \* tokens the FIFO holds before write() blocks

PageAssumption == MaxServers \in Nat /\ MaxTokens \in Nat \ {0}

VARIABLES shmServer,  \* where the server is
          shmRun,     \* its number
          shmKey,     \* the page that the key refers to
          fifoName,   \* the FIFO that the path refers to
          pages,      \* the text in each page
          tokens,     \* the tokens in each FIFO
          shmClient,  \* where the client is; "off" if none runs
          cPage,      \* the page it attached
          cFifo,      \* the FIFO it opened
          cutOff,     \* the servers whose client was killed, or quit while it
                      \* was attached to the page of an earlier one
          aborted     \* the servers whose assertion in Wait failed

pageVars == <<shmServer, shmRun, shmKey, fifoName, pages, tokens, shmClient,
              cPage, cFifo, cutOff, aborted>>

pageClientVars == <<shmClient, cPage, cFifo, cutOff>>
Servers == 1..MaxServers

\* The type invariant.
PageTypeOK ==
  /\ shmServer \in {"off", "shmget", "open", "wait", "print", "rmid", "close",
                    "unlink"}
  /\ shmRun \in 0..MaxServers /\ shmKey \in 0..shmRun /\ fifoName \in 0..shmRun
  /\ pages \in [Servers -> {"empty", "line", "quit", "torn"}]
  /\ tokens \in [Servers -> 0..MaxTokens]
  /\ shmClient \in {"off", "open", "opening", "type", "end", "signal", "check"}
  /\ cPage \in 0..shmRun /\ cFifo \in 0..shmRun
  /\ cutOff \subseteq Servers /\ aborted \subseteq Servers

PageInit == /\ shmServer = "off" /\ shmRun = 0
            /\ shmKey = 0 /\ fifoName = 0
            /\ pages = [r \in Servers |-> "empty"]
            /\ tokens = [r \in Servers |-> 0]
            /\ shmClient = "off" /\ cPage = 0 /\ cFifo = 0
            /\ cutOff = {} /\ aborted = {}

----------------------------------------------------------------------------
(* The server *)

\* The constructor of init: mkfifo() fails if the name exists, and so does the
\* assertion after it.
StartServer == /\ shmServer = "off" /\ shmRun < MaxServers
               /\ shmRun' = shmRun + 1
               /\ IF fifoName = 0
                  THEN fifoName' = shmRun' /\ shmServer' = "shmget"
                  ELSE UNCHANGED <<fifoName, shmServer>>
               /\ UNCHANGED <<shmKey, pages, tokens, aborted, pageClientVars>>

\* shmget(IPC_EXCL), or exit(1), which runs the destructor of init.
Shmget == /\ shmServer = "shmget"
          /\ IF shmKey = 0
             THEN shmKey' = shmRun /\ shmServer' = "open" /\ UNCHANGED fifoName
             ELSE UNCHANGED shmKey /\ shmServer' = "off" /\ fifoName' = 0
          /\ UNCHANGED <<shmRun, pages, tokens, aborted, pageClientVars>>

Writing == {"opening", "type", "end", "signal", "check"}
WriterOf(r) == cFifo = r /\ shmClient \in Writing

\* OpenFIFO(READ), with a writer there already; else it waits for one.
OpenRead == /\ shmServer = "open"
            /\ WriterOf(shmRun)
            /\ shmServer' = "wait"
            /\ UNCHANGED <<shmRun, shmKey, fifoName, pages, tokens, aborted,
                           pageClientVars>>

\* Wait: a token, or the end of file, at which the assertion fails and abort()
\* leaves the names behind.
Wait == /\ shmServer = "wait"
        /\ \/ /\ tokens[shmRun] > 0
              /\ tokens' = [tokens EXCEPT ![shmRun] = @ - 1]
              /\ shmServer' = "print"
              /\ UNCHANGED aborted
           \/ /\ tokens[shmRun] = 0 /\ ~WriterOf(shmRun)
              /\ shmServer' = "off"
              /\ aborted' = aborted \cup {shmRun}
              /\ UNCHANGED tokens
        /\ UNCHANGED <<shmRun, shmKey, fifoName, pages, pageClientVars>>

\* Mutant of PrintPage: the server does not look for "quit".
PrintPageOn == /\ shmServer = "print"
               /\ shmServer' = "wait"
               /\ UNCHANGED <<shmRun, shmKey, fifoName, pages, tokens, aborted,
                              pageClientVars>>

\* The page as it is now: it may hold a later line already, or part of it.
PrintPage == /\ shmServer = "print"
             /\ shmServer' = IF pages[shmRun] = "quit" THEN "rmid" ELSE "wait"
             /\ UNCHANGED <<shmRun, shmKey, fifoName, pages, tokens, aborted,
                            pageClientVars>>

\* shmdt() and shmctl(IPC_RMID).
RemovePage == /\ shmServer = "rmid"
              /\ shmKey' = 0
              /\ shmServer' = "close"
              /\ UNCHANGED <<shmRun, fifoName, pages, tokens, aborted,
                             pageClientVars>>

CloseFifo == /\ shmServer = "close"
             /\ shmServer' = "unlink"
             /\ UNCHANGED <<shmRun, shmKey, fifoName, pages, tokens, aborted,
                            pageClientVars>>

\* The destructor of init.
UnlinkFifo == /\ shmServer = "unlink"
              /\ fifoName' = 0
              /\ shmServer' = "off"
              /\ UNCHANGED <<shmRun, shmKey, pages, tokens, aborted,
                             pageClientVars>>

----------------------------------------------------------------------------
(* The client *)

pageServerVars == <<shmServer, shmRun, shmKey, fifoName, aborted>>
ReaderOf(r) == r = shmRun /\ shmServer \in {"open", "wait", "print", "rmid", "close"}

\* shmget() and shmat(); without a page the client exits.
StartClient == /\ shmClient = "off" /\ shmKey # 0
               /\ cPage' = shmKey
               /\ shmClient' = "open"
               /\ UNCHANGED <<pageServerVars, pages, tokens, cFifo, cutOff>>

\* OpenFIFO(WRITE): its assertion fails if the name is gone.  A server that
\* waits in its own open() goes on, even if this client is killed at once.
OpenWrite == /\ shmClient = "open"
             /\ cFifo' = fifoName
             /\ shmClient' = IF fifoName = 0 THEN "off" ELSE "opening"
             /\ shmServer' = IF shmServer = "open" /\ fifoName = shmRun
                             THEN "wait" ELSE shmServer
             /\ UNCHANGED <<shmRun, shmKey, fifoName, aborted, pages, tokens,
                            cPage, cutOff>>

\* open() waits for a reader.
Opened == /\ shmClient = "opening"
          /\ ReaderOf(cFifo)
          /\ shmClient' = "type"
          /\ UNCHANGED <<pageServerVars, pages, tokens, cPage, cFifo, cutOff>>

\* read(0, shmaddr): the line overwrites the page, and has no end yet.
ReadLine == /\ shmClient = "type"
            /\ pages' = [pages EXCEPT ![cPage] = "torn"]
            /\ shmClient' = "end"
            /\ UNCHANGED <<pageServerVars, tokens, cPage, cFifo, cutOff>>

\* shmaddr[s-1] = 0.
EndLine == /\ shmClient = "end"
           /\ \E text \in {"line", "quit"} : pages' = [pages EXCEPT ![cPage] = text]
           /\ shmClient' = "signal"
           /\ UNCHANGED <<pageServerVars, tokens, cPage, cFifo, cutOff>>

\* Signal: a token, or SIGPIPE if the server has closed the FIFO.
Signal == /\ shmClient = "signal"
          /\ \/ /\ ReaderOf(cFifo) /\ tokens[cFifo] < MaxTokens
                /\ tokens' = [tokens EXCEPT ![cFifo] = @ + 1]
                /\ shmClient' = "check"
             \/ /\ ~ReaderOf(cFifo)
                /\ shmClient' = "off"
                /\ UNCHANGED tokens
          /\ UNCHANGED <<pageServerVars, pages, cPage, cFifo, cutOff>>

\* if (strcmp(shmaddr, "quit") == 0) break, and the client ends.
CheckQuit ==
  /\ shmClient = "check"
  /\ IF pages[cPage] = "quit"
     THEN /\ shmClient' = "off"
          /\ cutOff' = IF cPage = cFifo THEN cutOff ELSE cutOff \cup {cFifo}
     ELSE shmClient' = "type" /\ UNCHANGED cutOff
  /\ UNCHANGED <<pageServerVars, pages, tokens, cPage, cFifo>>

\* The user kills the client.
KillClient == /\ shmClient # "off"
              /\ cutOff' = IF shmClient = "open" THEN cutOff ELSE cutOff \cup {cFifo}
              /\ shmClient' = "off"
              /\ UNCHANGED <<pageServerVars, pages, tokens, cPage, cFifo>>

----------------------------------------------------------------------------

PageServerStep == \/ Shmget \/ OpenRead \/ Wait \/ PrintPage \/ RemovePage
                  \/ CloseFifo \/ UnlinkFifo
PageClientStep == OpenWrite \/ Opened \/ EndLine \/ Signal \/ CheckQuit

PageNext == \/ PageServerStep \/ PageClientStep
            \/ StartServer \/ StartClient \/ ReadLine \/ KillClient

\* Both run when they can; nobody has to start them or to type.
PageSpec == /\ PageInit /\ [][PageNext]_pageVars
            /\ WF_pageVars(PageServerStep) /\ WF_pageVars(PageClientStep)

----------------------------------------------------------------------------

\* The assertion in Wait fails, and leaves a page and a FIFO behind that stop
\* every later server, only if the client was killed or had attached the page
\* of an earlier server: quitting leaves nothing behind, although the server
\* may see the "quit" of a line before it gets that line's token.
AbortsOnlyIfCutOff ==
  /\ aborted \subseteq cutOff
  /\ shmServer = "off" /\ (shmKey # 0 \/ fifoName # 0) => aborted # {}

\* A client that quits takes its server with it, unless another client came
\* and wrote over the page.
QuitEndsServer ==
  (shmClient = "check" /\ cPage = shmRun /\ cFifo = shmRun /\ pages[cPage] = "quit")
    ~> (shmServer = "off" \/ shmClient \in Writing \ {"check"})
=============================================================================
