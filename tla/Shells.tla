-------------------------------- MODULE Shells --------------------------------
(* The three shells: `program' is "minshell" (minshell), "myshell" (shell,   *)
(* with export) or "redirshell" (9-19/shell, with redirection too).          *)
(*                                                                           *)
(* A line is a sequence of pieces: a word, " ", "<" or ">".  What a shell    *)
(* prints, the options it adds to ls, and what a command does are left out;  *)
(* lines fit the buffers, and what follows export is one piece.              *)
EXTENDS Naturals, Sequences, FiniteSetsExt

CONSTANTS Lines,      \* the lines a user may type
          Inherited,  \* the environment the shell starts with, a sequence
          NameOf      \* the name in a text NAME=VALUE, Empty in any other

VARIABLES program,     \* which shell it is, or another program
          shellAt,     \* where the shell is
          cmdLine,     \* the line as it was typed
          gArgv,       \* its words, each a sequence of pieces
          redirStatus, \* redir_status
          sep,         \* <<>> for NULL, else <<what follows the operator>>
          gMyval,      \* the text in g_myval
          environ,     \* each entry a text or the pointer "g_myval"
          lastExport,  \* the text that was exported last, Empty if none was
          exported,    \* the names that were exported
          shellChild   \* what became of the child, with its files

envVars == <<gMyval, environ, lastExport, exported>>
shellVars == <<shellAt, cmdLine, gArgv, redirStatus, sep, envVars, shellChild>>

NoChild == [state |-> "none"]
Empty == "empty"  \* a text of length 0
Names == {NameOf[text] : text \in DOMAIN NameOf} \ {Empty}

\* The name that putenv() sets, or removes if the text has no "=".
Subject(text) == IF NameOf[text] = Empty THEN text ELSE NameOf[text]

\* The type invariant.
ShellTypeOK ==
  /\ shellAt \in {"prompt", "read", "parse", "builtin", "wait", "crashed"}
  /\ cmdLine \in Lines \cup {<<>>}
  /\ redirStatus \in {"NONE", "INPUT", "OUTPUT", "APPEND"}
  /\ Len(sep) <= 1
  /\ gMyval \in DOMAIN NameOf /\ lastExport \in DOMAIN NameOf
  /\ exported \subseteq Names \cup DOMAIN NameOf
  /\ \A i \in 1..Len(environ) : environ[i] \in DOMAIN NameOf \cup {"g_myval"}
  /\ shellChild.state \in {"none", "forked", "running", "zombie"}

ShellInit == /\ shellAt = "prompt" /\ cmdLine = <<>> /\ gArgv = <<>>
             /\ redirStatus = "NONE" /\ sep = <<>>
             /\ gMyval = Empty /\ environ = Inherited
             /\ lastExport = Empty /\ exported = {}
             /\ shellChild = NoChild

----------------------------------------------------------------------------
(* Parsing *)

OperatorsOf(line) == {i \in 1..Len(line) : line[i] \in {"<", ">"}}
Doubled(line, i) == i > 1 /\ line[i] = ">" /\ line[i - 1] = ">"

\* CheckRedir: cuts the line at its last operator.
CheckRedir(line) ==
  IF OperatorsOf(line) = {} THEN [status |-> "NONE", end |-> <<>>, rest |-> line]
  ELSE LET i == Max(OperatorsOf(line))
       IN  [status |-> IF line[i] = "<" THEN "INPUT"
                       ELSE IF Doubled(line, i) THEN "APPEND" ELSE "OUTPUT",
            end    |-> <<SubSeq(line, i + 1, Len(line))>>,
            rest   |-> SubSeq(line, 1, i - (IF Doubled(line, i) THEN 2 ELSE 1))]

\* The k-th of a set of positions.
Nth(S, k) == CHOOSE i \in S : Cardinality({j \in S : j <= i}) = k

\* strtok: the words between the blanks.
WordStarts(line) ==
  {i \in 1..Len(line) : line[i] # " " /\ (i = 1 \/ line[i - 1] = " ")}
WordFrom(line, i) ==
  SubSeq(line, i,
         Min({j \in i..Len(line) : j = Len(line) \/ line[j + 1] = " "}))
Words(line) ==
  [k \in 1..Cardinality(WordStarts(line)) |->
     WordFrom(line, Nth(WordStarts(line), k))]

\* What follows export is one text, not empty; no text is the pointer's tag.
ShellsAssumption ==
  /\ Lines \subseteq Seq(STRING)
  /\ Inherited \in Seq(DOMAIN NameOf)
  /\ Empty \in DOMAIN NameOf /\ NameOf[Empty] = Empty
  /\ "g_myval" \notin DOMAIN NameOf
  /\ \A line \in Lines : \A rest \in {line, CheckRedir(line).rest} :
       Len(Words(rest)) > 1 /\ Words(rest)[1] = <<"export">> =>
         Words(rest)[2] \in {<<text>> : text \in DOMAIN NameOf \ {Empty}}

Prompt == /\ shellAt = "prompt"
          /\ shellAt' = "read"
          /\ UNCHANGED <<cmdLine, gArgv, redirStatus, sep, envVars, shellChild>>

ReadCommand == /\ shellAt = "read"
               /\ cmdLine' \in Lines
               /\ shellAt' = "parse"
               /\ UNCHANGED <<gArgv, redirStatus, sep, envVars, shellChild>>

\* fgets() fails, at the end of the input for one: the shell never leaves.
ReadNothing == /\ shellAt = "read"
               /\ shellAt' = "prompt" /\ cmdLine' = <<>>
               /\ UNCHANGED <<gArgv, redirStatus, sep, envVars, shellChild>>

\* A line without a word crashes the shell in strcmp.
Parse ==
  /\ shellAt = "parse"
  /\ LET redir == IF program = "redirshell" THEN CheckRedir(cmdLine)
                  ELSE [status |-> "NONE", end |-> <<>>, rest |-> cmdLine]
     IN  /\ redirStatus' = IF redir.end = <<>> THEN redirStatus
                           ELSE redir.status
         /\ sep' = redir.end
         /\ gArgv' = Words(redir.rest)
  /\ shellAt' = IF gArgv' = <<>> THEN "crashed" ELSE "builtin"
  /\ UNCHANGED <<cmdLine, envVars, shellChild>>

----------------------------------------------------------------------------
(* Built-in commands *)

IsExport == program # "minshell" /\ gArgv[1] = <<"export">> /\ Len(gArgv) > 1
IsCd == gArgv[1] = <<"cd">>

Text(entry) == IF entry = "g_myval" THEN gMyval ELSE entry

\* Mutant of Strcpy: g_myval is filled only once.
StrcpyOnce(text) == IF gMyval = Empty THEN text ELSE gMyval

\* strcpy(g_myval, ...), which changes the text of all entries that point there.
Strcpy(text) == text

\* putenv(g_myval): what the entry says once the buffer holds the text.
NameWith(text, entry) == NameOf[IF entry = "g_myval" THEN text ELSE entry]

\* A text with "=" replaces the first entry of its name, or adds one.
Setenv(entries, text) ==
  LET same == {i \in 1..Len(entries) :
                 NameWith(text, entries[i]) = NameOf[text]}
  IN  IF same = {} THEN Append(entries, "g_myval")
      ELSE [entries EXCEPT ![Min(same)] = "g_myval"]

\* A text without removes all entries of the name it is.
Unsetenv(entries, name) ==
  LET kept == {i \in 1..Len(entries) : NameWith(name, entries[i]) # name}
  IN  [k \in 1..Cardinality(kept) |-> entries[Nth(kept, k)]]

Putenv(entries, text) ==
  IF NameOf[text] = Empty THEN Unsetenv(entries, text) ELSE Setenv(entries, text)

Export ==
  /\ shellAt = "builtin" /\ IsExport
  /\ LET text == Head(gArgv[2])
     IN  /\ gMyval' = Strcpy(text)
         /\ environ' = Putenv(environ, gMyval')
         /\ lastExport' = text /\ exported' = exported \cup {Subject(text)}
  /\ shellAt' = "prompt"
  /\ UNCHANGED <<cmdLine, gArgv, redirStatus, sep, shellChild>>

\* cd: the directory is not in the model.
Cd == /\ shellAt = "builtin" /\ IsCd
      /\ shellAt' = "prompt"
      /\ UNCHANGED <<cmdLine, gArgv, redirStatus, sep, envVars, shellChild>>

----------------------------------------------------------------------------
(* Commands *)

\* If fork() fails, waitpid(-1) finds no child.
Fork == /\ shellAt = "builtin" /\ ~IsExport /\ ~IsCd
        /\ \/ /\ shellChild' = [state |-> "forked"]
              /\ shellAt' = "wait"
           \/ /\ shellAt' = "prompt"
              /\ UNCHANGED shellChild
        /\ UNCHANGED <<cmdLine, gArgv, redirStatus, sep, envVars>>

\* Mutant of Redirected: dup2() is forgotten.
RedirectedNot(stream, opened) == "terminal"

\* What dup2() makes of a stream; where open() failed, dup2() fails too.
Redirected(stream, opened) ==
  IF opened /\ redirStatus \in IF stream = 0 THEN {"INPUT"} ELSE {"OUTPUT", "APPEND"}
  THEN redirStatus ELSE "terminal"

\* open(), if there was an operator, which may fail, dup2() and execvp().
ChildExec ==
  /\ shellChild.state = "forked"
  /\ \E opened \in IF sep = <<>> THEN {FALSE} ELSE BOOLEAN :
       shellChild' = [state |-> "running", opened |-> opened, file |-> sep,
                      in |-> Redirected(0, opened), out |-> Redirected(1, opened),
                      environ |-> [i \in 1..Len(environ) |-> Text(environ[i])]]
  /\ UNCHANGED <<shellAt, cmdLine, gArgv, redirStatus, sep, envVars>>

\* The command ends, at once if execvp() failed.
ChildExit == /\ shellChild.state = "running"
             /\ shellChild' = [state |-> "zombie"]
             /\ UNCHANGED <<shellAt, cmdLine, gArgv, redirStatus, sep, envVars>>

WaitCommand == /\ shellAt = "wait" /\ shellChild.state = "zombie"
               /\ shellAt' = "prompt" /\ shellChild' = NoChild
               /\ UNCHANGED <<cmdLine, gArgv, redirStatus, sep, envVars>>

----------------------------------------------------------------------------

ShellStep == Prompt \/ Parse \/ Export \/ Cd \/ Fork \/ WaitCommand
ShellChildStep == ChildExec \/ ChildExit

ShellNext == ShellStep \/ ReadCommand \/ ReadNothing \/ ShellChildStep

\* The shell and its commands go on; nobody has to type.
ShellSpec == /\ ShellInit /\ program \in {"minshell", "myshell", "redirshell"}
             /\ [][ShellNext /\ UNCHANGED program]_<<program, shellVars>>
             /\ WF_shellVars(ShellStep) /\ WF_shellVars(ShellChildStep)

----------------------------------------------------------------------------

\* The text that an environment gives for a name: its first entry.
Getenv(env, name) ==
  LET named == {i \in 1..Len(env) : NameOf[env[i]] = name}
  IN  IF named = {} THEN Empty ELSE env[Min(named)]

\* The environment is what it should be for the last export and for the names
\* that never were exported, although one buffer holds every text that was
\* exported and the entries only point to it.  An export without a value takes
\* the name away.  (A name exported before the last may be gone, with what was
\* inherited for it.)
ExportSeen(env) ==
  /\ lastExport # Empty =>
       Getenv(env, Subject(lastExport)) =
         IF NameOf[lastExport] = Empty THEN Empty ELSE lastExport
  /\ \A name \in Names \ exported : Getenv(env, name) = Getenv(Inherited, name)

\* Exactly one stream is redirected if the line has an operator: to the text
\* after the last one, with its blanks, and the way that one says, whatever the
\* global redir_status was left at by earlier lines.  The stream stays where it
\* was only if open() failed.  Earlier operators, and the names after them, are
\* pieces of the command's words like any other.
RedirectedAsTyped(c) ==
  LET ops == IF program = "redirshell" THEN OperatorsOf(cmdLine) ELSE {}
      last == Max(ops)
      says == IF cmdLine[last] = "<" THEN "INPUT"
              ELSE IF Doubled(cmdLine, last) THEN "APPEND" ELSE "OUTPUT"
      before == SubSeq(cmdLine, 1, last - (IF says = "APPEND" THEN 2 ELSE 1))
  IN  IF ops = {}
      THEN c.in = "terminal" /\ c.out = "terminal" /\ gArgv = Words(cmdLine)
      ELSE /\ c.file = <<SubSeq(cmdLine, last + 1, Len(cmdLine))>>
           /\ c.in = IF c.opened /\ says = "INPUT" THEN says ELSE "terminal"
           /\ c.out = IF c.opened /\ says # "INPUT" THEN says ELSE "terminal"
           /\ gArgv = Words(before)

\* A line that is no crash brings the prompt back, also if fork() failed.
PromptsAgain == []<>(shellAt \notin {"parse", "builtin", "wait"})

\* What a command runs with: the environment of the latest export, and the
\* redirection of the last operator of its own line.
RunsWithLatest == shellChild.state = "running" =>
                    ExportSeen(shellChild.environ) /\ RedirectedAsTyped(shellChild)
=============================================================================
