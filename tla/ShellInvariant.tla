--------------------------- MODULE ShellInvariant ---------------------------
(***************************************************************************)
(* The inductive invariant of the shell: what the command table holds,     *)
(* which descriptors the shell has open, and which ends of a pipe it and   *)
(* the processes it forked hold.                                           *)
(***************************************************************************)
EXTENDS Shell

\* Nothing the user redirects output to is refused.  Where it is, the last
\* command of a pipeline writes to the pipe it reads from.
OutputsOpen == \A l \in Lines : l.out_file \notin Unopenable

\* Types of everything the shell's steps look at.
Kinds == {"ends", "filter", "builtin", "exit"}
Names == (UNION {{l.in_file, l.out_file, l.err_file} : l \in Lines}) \cup {NONE}
TableType ==
  [commands : Seq(Kinds), in_file : Names, out_file : Names, err_file : Names,
   is_background : BOOLEAN]
Pipes == Nat \ {0}
Files ==
  {CLOSED, TERMINAL} \cup {File(name) : name \in Names}
    \cup {ReadEnd(n) : n \in Pipes} \cup {WriteEnd(n) : n \in Pipes}
ProcessType ==
  [program : {"ends", "filter"}, state : {"running", "zombie", "reaped"},
   fd : [Descriptors -> Files], leaked : SUBSET Files, line : Nat, place : Nat]
Types ==
  /\ table \in TableType
  /\ is_cleared \in BOOLEAN /\ sigchld \in BOOLEAN
  /\ disturbed \in BOOLEAN /\ early \in BOOLEAN
  /\ line \in Lines \cup {NONE} /\ (line \in Lines => inserted \in 0 .. Len(line.commands))
  /\ pc \in {"read", "expand", "output", "insert", "mark", "modify", "begin", "setup",
              "start", "restore", "wait", "exited"}
  /\ fd \in [Descriptors -> Files] /\ leaked \in SUBSET Files
  /\ procs \in Seq(ProcessType) /\ Len(procs) <= MaxProcesses
  /\ pipes \in Nat /\ i \in Nat /\ ret \in Nat /\ lines_read \in Nat
  /\ handler \in {"none", "wait", "poll"}

Parsing == pc \in {"expand", "output", "insert", "mark", "modify", "begin"}
Wiring == pc \in {"setup", "start", "restore"}

\* From the mark of its first command on, the table is not for ctrl_c to clear.
Marked == Executing \/ pc = "modify" => ~is_cleared

\* Where the parser and command_execute are in the line.
Placed ==
  /\ Parsing \/ Executing => line \in Lines
  /\ pc \in {"expand", "output"} => inserted = 0
  /\ pc = "insert" => inserted < Len(line.commands)
  /\ pc = "mark" => inserted > 0
  /\ pc \in {"modify", "begin"} => inserted = Len(line.commands)
  /\ pc \in {"setup", "start"} => i \in DOMAIN Commands
  /\ pc = "start" => Current # "exit"
  /\ pc \in {"restore", "wait"} => ret \in Pids

\* As long as nothing disturbs it, the table holds what was parsed so far.
TableParsed ==
  ~disturbed =>
    /\ pc \in {"read", "expand", "output"} => table = EmptyTable
    /\ pc \in {"insert", "mark", "modify"} =>
         table = [EmptyTable EXCEPT !.commands = SubSeq(line.commands, 1, inserted)]
    /\ LineExecuted

\* While the shell wires up a pipeline it keeps the terminal in tmpin, tmpout
\* and tmperr, and after the last command fdin is closed.
Wired ==
  ~early =>
    /\ \A file \in leaked : file[1] = "read"
    /\ Parsing \/ pc \in {"read", "wait"} => fd = Defaults
    /\ Wiring => \A d \in {"tmpin", "tmpout", "tmperr"} : fd[d] = TERMINAL
    /\ pc = "restore" \/ (pc = "start" /\ IsLast) => fd["fdin"] = CLOSED

-----------------------------------------------------------------------------
Holds(file) == file \in Range(fd) \cup leaked
Has(c, file) == file \in Range(procs[c].fd) \cup procs[c].leaked
Out(c) == procs[c].fd["out"]
In(c) == procs[c].fd["in"]

\* There is always an output, and none that was refused.
Output ==
  /\ pc # "exited" => fd["out"] # CLOSED
  /\ Wiring => fd["tmpout"] # CLOSED
  /\ table.out_file = NONE \/ table.out_file \notin Unopenable

\* Nobody has an end of a pipe that is still to be created.
Fresh ==
  \A n \in Pipes : n > pipes =>
    \A file \in {ReadEnd(n), WriteEnd(n)} :
      ~Holds(file) /\ \A c \in Pids : ~Has(c, file)

\* The processes that may write to a pipe that the shell will give to the next
\* process are those whose output it is; the shell itself may have its write end
\* until it sets that process up, as its own output.
Passes(n) == \E d \in {"in", "fdin", "tmpin"} : fd[d] = ReadEnd(n)
OnlyOutput(n) ==
  /\ pc = "setup" \/ (pc = "start" /\ ~IsLast)
  /\ fd["in"] # ReadEnd(n) /\ fd["tmpin"] # ReadEnd(n)
  /\ WriteEnd(n) \notin leaked
  /\ \A d \in Descriptors : fd[d] = WriteEnd(n) => d = "out"
EndsApart ==
  \A n \in Pipes : Passes(n) =>
    /\ \A c \in Pids : Running(c) /\ Has(c, WriteEnd(n)) => Out(c) = WriteEnd(n)
    /\ Holds(WriteEnd(n)) => OnlyOutput(n)

\* Processes are numbered in the order of their lines and of their places in the
\* line; the subshell, which has place 0, ends before the line is complete.
Numbered ==
  /\ \A c \in Pids : procs[c].line <= lines_read
  /\ \A c \in Pids : procs[c].line = lines_read =>
       /\ pc # "expand"
       /\ Parsing => procs[c].place = 0
       /\ pc = "output" /\ Running(c) => Out(c) = WriteEnd(pipes)
       /\ pc \in {"insert", "mark", "modify", "begin", "setup", "start"} =>
            ~(Running(c) /\ procs[c].place = 0)
       /\ pc \in {"setup", "start"} => procs[c].place < i

\* Processes next to each other are joined by a pipe that the shell does not
\* give to any other.
Adjacent(a, b) ==
  /\ Running(a) /\ Running(b)
  /\ procs[a].line = procs[b].line /\ procs[b].place = procs[a].place + 1
Kept(n) ==
  /\ fd["fdin"] # ReadEnd(n) /\ fd["tmpin"] # ReadEnd(n)
  /\ fd["in"] = ReadEnd(n) => pc = "restore" \/ (pc = "setup" /\ i > 1)
Joined ==
  \A a, b \in Pids : Adjacent(a, b) =>
    \E n \in 1 .. pipes :
      /\ Out(a) = WriteEnd(n) /\ In(b) = ReadEnd(n)
      /\ \A c \in Pids : Running(c) =>
           (Out(c) = WriteEnd(n) => c = a) /\ (In(c) = ReadEnd(n) => c = b)
      /\ Kept(n)

\* The pipe of the process forked last, for the next one.
Following ==
  pc \in {"setup", "start"} /\ i > 1 =>
    /\ pc = "setup" => \E n \in 1 .. pipes : fd["fdin"] = ReadEnd(n)
    /\ \A a \in Pids :
         Running(a) /\ procs[a].line = lines_read /\ procs[a].place = i - 1 =>
           \E n \in 1 .. pipes :
             /\ Out(a) = WriteEnd(n) /\ fd[IF pc = "setup" THEN "fdin" ELSE "in"] = ReadEnd(n)
             /\ \A c \in Pids : Running(c) =>
                  (Out(c) = WriteEnd(n) => c = a) /\ In(c) # ReadEnd(n)
             /\ fd[IF pc = "setup" THEN "in" ELSE "fdin"] # ReadEnd(n)
             /\ fd["tmpin"] # ReadEnd(n)

\* The pipe of the process about to be forked.
NewPipe ==
  pc = "start" /\ ~IsLast =>
    \E n \in 1 .. pipes :
      /\ fd["out"] = WriteEnd(n) /\ fd["fdin"] = ReadEnd(n)
      /\ fd["in"] # ReadEnd(n) /\ fd["tmpin"] # ReadEnd(n)
      /\ \A c \in Pids : Running(c) => Out(c) # WriteEnd(n) /\ In(c) # ReadEnd(n)

\* What holds whatever files open() refuses, and the whole invariant.
Base == Types /\ Marked /\ Placed /\ TableParsed /\ Wired /\ Fresh /\ Numbered
Inv ==
  /\ Base
  /\ Output /\ EndsApart /\ WriteEndsClosed /\ Joined /\ Following /\ NewPipe
=============================================================================
