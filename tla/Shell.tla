------------------------------- MODULE Shell -------------------------------
(***************************************************************************)
(* The shell of lab3-src: the parser fills the command table, and          *)
(* command_execute forks one process per simple command, with pipes        *)
(* between them, while the handlers of SIGCHLD and SIGINT run when they    *)
(* please.                                                                 *)
(*                                                                         *)
(* A command is one of: "ends", a program that exits when it pleases;      *)
(* "filter", one that exits at the end of its input; "builtin", which is   *)
(* cd, setenv or unsetenv; and "exit".  A descriptor holds an open file:   *)
(* the terminal, a named file, or an end of a pipe.  A line may have one   *)
(* word in backquotes, among those of its first command: the lexer runs it *)
(* in a subshell before the command is complete.                           *)
(*                                                                         *)
(* An operator called Bug... is a plausible mistake in the one after it;   *)
(* the specification never uses it.                                        *)
(***************************************************************************)
EXTENDS Integers, Sequences, FiniteSets, Functions

CONSTANTS
  Lines,         \* the command lines the user types
  Unopenable,    \* the names open() refuses
  NONE,          \* no name: no redirection
  MaxLines,      \* bound: lines read
  MaxInterrupts, \* bound: times the user types control-C
  MaxProcesses   \* bound: processes forked

VARIABLES
  table,       \* current_command: its simple commands and files
  is_cleared,  \* current_command->is_cleared
  line,        \* the line the parser is in
  inserted,    \* how many of its simple commands are in the table
  pc,          \* where the shell is, outside its handlers
  i,           \* the simple command command_execute is at
  fd,          \* the shell's descriptors
  leaked,      \* open files of descriptors nothing will close
  procs,       \* the processes forked so far, in order
  pipes,       \* how many pipes were created
  ret,         \* the last process forked for this command
  sigchld,     \* SIGCHLD is pending
  handler,     \* where the handler of SIGCHLD is, or "none"
  lines_read, interrupts,  \* counted for the bounds
  disturbed,   \* history: the table may not hold just the line
  early        \* history: command_execute has returned early

parser == <<line, inserted, lines_read>>
descriptors == <<fd, leaked>>
children == <<procs, sigchld, handler>>
loop == <<i, pipes, ret>>
vars == <<table, is_cleared, parser, pc, loop, descriptors, children,
          interrupts, disturbed, early>>

\* What the parser can be given: a line has a command, and may be broken after
\* any number of commands and redirections.  (A line that is broken before its
\* first command changes nothing.)
ASSUME LinesAssumption ==
  \A l \in Lines :
    /\ l.commands \in Seq({"ends", "filter", "builtin", "exit"}) \ {<<>>}
    /\ {l.is_background, l.ok, l.subshell} \subseteq BOOLEAN

ASSUME BoundsAssumption == {MaxLines, MaxInterrupts, MaxProcesses} \subseteq Nat

(***************************************************************************)
(* The command table                                                       *)
(***************************************************************************)

EmptyTable == [commands |-> <<>>, in_file |-> NONE, out_file |-> NONE,
               err_file |-> NONE, is_background |-> FALSE]

BugKeepsInput(t) == [EmptyTable EXCEPT !.in_file = t.in_file]

\* command_clear
Cleared(t) == EmptyTable

Clear ==
  /\ table' = Cleared(table)
  /\ is_cleared' = TRUE
  /\ disturbed' = FALSE

\* A later redirection overwrites an earlier one.
Overwrite(old, new) == IF new = NONE THEN old ELSE new

(***************************************************************************)
(* Open files                                                              *)
(***************************************************************************)

CLOSED == <<"closed", 0>>
TERMINAL == <<"terminal", 0>>
File(name) == <<"file", name>>
ReadEnd(p) == <<"read", p>>
WriteEnd(p) == <<"write", p>>

Descriptors == {"in", "out", "err", "tmpin", "tmpout", "tmperr", "fdin"}

\* The descriptors at the first prompt.
Defaults == [d \in Descriptors |->
               IF d \in {"in", "out", "err"} THEN TERMINAL ELSE CLOSED]

AllClosed == [d \in Descriptors |-> CLOSED]

\* open() of a name, or a duplicate of another descriptor without one; CLOSED
\* stands for the -1 of a failure.
OpenOr(name, default) ==
  IF name = NONE THEN default
  ELSE IF name \in Unopenable THEN CLOSED ELSE File(name)

\* dup2(file, d); close(file): nothing happens if there is no file.
Redirect(f, d, file) == IF file = CLOSED THEN f ELSE [f EXCEPT ![d] = file]

Running(p) == procs[p].state = "running"
Pids == DOMAIN procs

\* The processes that hold an open file; the shell is process 0.
Holders(file) ==
  {p \in Pids : Running(p) /\ file \in Range(procs[p].fd) \cup procs[p].leaked}
    \cup (IF file \in Range(fd) \cup leaked THEN {0} ELSE {})

Init ==
  /\ table = EmptyTable
  /\ is_cleared = TRUE
  /\ line = NONE
  /\ inserted = 0
  /\ pc = "read"
  /\ i = 0
  /\ fd = Defaults
  /\ leaked = {}
  /\ procs = <<>>
  /\ pipes = 0
  /\ ret = 0
  /\ sigchld = FALSE
  /\ handler = "none"
  /\ lines_read = 0
  /\ interrupts = 0
  /\ disturbed = FALSE
  /\ early = FALSE

(***************************************************************************)
(* The parser                                                              *)
(***************************************************************************)

\* The shell's own code runs while no handler does.
Goes(from, to) ==
  /\ pc = from
  /\ handler = "none"
  /\ pc' = to
  /\ UNCHANGED <<children, interrupts>>

\* The shell goes to its exit.
Exits(from) ==
  /\ Goes(from, "exited")
  /\ fd' = AllClosed
  /\ leaked' = {}
  /\ UNCHANGED <<parser, loop, early>>

ReadLine(l) ==
  /\ lines_read < MaxLines
  /\ Goes("read", IF l.subshell THEN "expand" ELSE "insert")
  /\ lines_read' = lines_read + 1
  /\ line' = l
  /\ inserted' = 0
  /\ UNCHANGED <<table, is_cleared, loop, descriptors, disturbed, early>>

\* simple_command: NEWLINE
BlankLine ==
  /\ lines_read < MaxLines
  /\ Goes("read", "read")
  /\ lines_read' = lines_read + 1
  /\ Clear
  /\ UNCHANGED <<line, inserted, loop, descriptors, early>>

\* yyparse returns at the end of the input.
EndOfInput ==
  /\ Exits("read")
  /\ UNCHANGED <<table, is_cleared, disturbed>>

\* Of the pipes of a subshell the read end of its output is never closed.
StillOpenAfter(p) == leaked \cup {ReadEnd(p)}

\* A word in backquotes: another shell reads it from one pipe, whose write end
\* is closed by then, and writes to a second one.  It inherits the copies of
\* descriptors 0 and 1 and the read end of its own output.
Subshell ==
  LET in == pipes + 1
      out == pipes + 2
  IN  /\ pc = "expand"
      /\ handler = "none"
      /\ Len(procs) < MaxProcesses
      /\ pipes' = out
      /\ procs' = Append(procs,
           [program |-> "ends", state |-> "running",
            fd |-> [fd EXCEPT !["in"] = ReadEnd(in), !["out"] = WriteEnd(out)],
            leaked |-> leaked \cup {fd["in"], fd["out"], ReadEnd(out)},
            line |-> lines_read, place |-> 0])
      /\ leaked' = StillOpenAfter(out)
      /\ pc' = "output"
      /\ UNCHANGED <<table, is_cleared, parser, i, ret, fd, sigchld, handler,
                     interrupts, disturbed, early>>

\* fork() fails: the shell exits.
SubshellFails ==
  /\ Exits("expand")
  /\ UNCHANGED <<table, is_cleared, disturbed>>

\* The shell reads what the subshell writes, up to the end: nobody waits for the
\* subshell but the handler.
SubshellOutput ==
  /\ Goes("output", "insert")
  /\ Holders(WriteEnd(pipes)) = {}
  /\ UNCHANGED <<table, is_cleared, parser, loop, descriptors, disturbed, early>>

\* command_insert_simple_command
InsertCommand ==
  /\ Goes("insert", "mark")
  /\ table' = [table EXCEPT
                 !.commands = Append(@, line.commands[inserted + 1])]
  /\ inserted' = inserted + 1
  /\ UNCHANGED <<is_cleared, line, lines_read, loop, descriptors, disturbed, early>>

\* current_command->is_cleared = 0, the statement after it.
MarkCommand ==
  /\ Goes("mark",
          IF inserted < Len(line.commands) THEN "insert" ELSE "modify")
  /\ is_cleared' = FALSE
  /\ UNCHANGED <<table, parser, loop, descriptors, disturbed, early>>

\* The redirections and the ampersand.
Modified ==
  [table EXCEPT
     !.in_file = Overwrite(@, line.in_file),
     !.out_file = Overwrite(@, line.out_file),
     !.err_file = Overwrite(@, line.err_file),
     !.is_background = @ \/ line.is_background]

ParseLine ==
  /\ Goes("modify", "begin")
  /\ line.ok
  /\ table' = Modified
  /\ UNCHANGED <<is_cleared, parser, loop, descriptors, disturbed, early>>

\* error NEWLINE: the rest of the line is skipped, the table stays as it is.
ParseError ==
  /\ Goes("modify", "read")
  /\ ~line.ok
  /\ table' = Modified
  /\ disturbed' = TRUE
  /\ UNCHANGED <<is_cleared, parser, loop, descriptors, early>>

(***************************************************************************)
(* command_execute                                                         *)
(***************************************************************************)

Commands == table.commands
Current == Commands[i]
BugStopsEarly == i = Len(Commands) - 1
IsLast == i = Len(Commands)

\* Without simple commands: return, and leave the table as it is.
NothingToDo ==
  /\ Goes("begin", "read")
  /\ Commands = <<>>
  /\ UNCHANGED <<table, is_cleared, parser, loop, descriptors, disturbed, early>>

\* exit, as the first command or a later one.
Exit ==
  /\ Clear
  /\ \/ /\ Exits("begin")
        /\ Commands # <<>>
        /\ Commands[1] = "exit"
     \/ /\ Exits("setup")
        /\ Current = "exit"

\* Save the descriptors 0, 1 and 2, and open the first input.
Begin ==
  /\ Goes("begin", "setup")
  /\ Commands # <<>>
  /\ Commands[1] # "exit"
  /\ i' = 1
  /\ fd' = [fd EXCEPT !["tmpin"] = fd["in"],
                      !["tmpout"] = fd["out"],
                      !["tmperr"] = fd["err"],
                      !["fdin"] = OpenOr(table.in_file, fd["in"])]
  /\ UNCHANGED <<table, is_cleared, parser, pipes, ret, leaked, disturbed, early>>

BugSkipsInput == [fd EXCEPT !["fdin"] = CLOSED]

\* dup2(fdin, 0); close(fdin)
Input == [Redirect(fd, "in", fd["fdin"]) EXCEPT !["fdin"] = CLOSED]

\* The last command writes to the files of the line, or to the saved output.
SetupLast ==
  /\ Goes("setup", "start")
  /\ IsLast
  /\ Current # "exit"
  /\ fd' = Redirect(Redirect(Input,
                             "err", OpenOr(table.err_file, fd["tmperr"])),
                    "out", OpenOr(table.out_file, fd["tmpout"]))
  /\ UNCHANGED <<table, is_cleared, parser, loop, leaked, disturbed, early>>

\* Descriptors f with a new pipe: its write end becomes the output and its read
\* end the next input.
Piped(f, p) == [f EXCEPT !["out"] = WriteEnd(p), !["fdin"] = ReadEnd(p)]

BugKeepsWriteEnd(p) == leaked \cup {WriteEnd(p)}

\* What stays open for good: close(fdout) leaves one copy of the write end.
StillOpen(p) == leaked

\* Any other command writes to a pipe.
SetupPipe ==
  /\ Goes("setup", "start")
  /\ ~IsLast
  /\ Current # "exit"
  /\ pipes' = pipes + 1
  /\ fd' = Piped(Input, pipes + 1)
  /\ leaked' = StillOpen(pipes + 1)
  /\ UNCHANGED <<table, is_cleared, parser, i, ret, disturbed, early>>

\* pipe() fails: the shell exits.
PipeFails ==
  /\ Exits("setup")
  /\ ~IsLast
  /\ Current # "exit"
  /\ UNCHANGED <<table, is_cleared, disturbed>>

\* command_execute returns before it restores the descriptors: those it saved,
\* and the pipe it was about to read from, stay open.
ReturnsEarly ==
  LET own == {"tmpin", "tmpout", "tmperr", "fdin"}
  IN  /\ Goes("start", "read")
      /\ leaked' = leaked \cup ({fd[d] : d \in own} \ {CLOSED})
      /\ fd' = [d \in Descriptors |-> IF d \in own THEN CLOSED ELSE fd[d]]
      /\ early' = TRUE
      /\ UNCHANGED <<parser, loop>>

Builtin ==
  /\ ReturnsEarly
  /\ Current = "builtin"
  /\ Clear

\* The line stays in the table.
ForkFails ==
  /\ ReturnsEarly
  /\ Current # "builtin"
  /\ disturbed' = TRUE
  /\ UNCHANGED <<table, is_cleared>>

\* The new process, with the shell's descriptors.
NewProcess ==
  [program |-> Current, state |-> "running", fd |-> fd, leaked |-> leaked,
   line |-> lines_read, place |-> i]

Fork ==
  /\ pc = "start"
  /\ Current # "builtin"
  /\ handler = "none"
  /\ Len(procs) < MaxProcesses
  /\ procs' = Append(procs, NewProcess)
  /\ ret' = Len(procs) + 1
  /\ i' = i + 1
  /\ pc' = IF IsLast THEN "restore" ELSE "setup"
  /\ UNCHANGED <<table, is_cleared, parser, pipes, descriptors, sigchld,
                 handler, interrupts, disturbed, early>>

BugForgetsOutput(f) == [f EXCEPT !["in"] = f["tmpin"], !["err"] = f["tmperr"]]

\* Descriptors f with 0, 1 and 2 as they were saved.
SavedBack(f) ==
  [f EXCEPT !["in"] = f["tmpin"], !["out"] = f["tmpout"], !["err"] = f["tmperr"]]

Restored ==
  [d \in Descriptors |->
     IF d \in {"tmpin", "tmpout", "tmperr"} THEN CLOSED ELSE SavedBack(fd)[d]]

RestoreForeground ==
  /\ Goes("restore", "wait")
  /\ ~table.is_background
  /\ fd' = Restored
  /\ UNCHANGED <<table, is_cleared, parser, loop, leaked, disturbed, early>>

RestoreBackground ==
  /\ Goes("restore", "read")
  /\ table.is_background
  /\ fd' = Restored
  /\ Clear
  /\ UNCHANGED <<parser, loop, leaked, early>>

\* Process p is reaped.
Reap(p) == procs' = [procs EXCEPT ![p].state = "reaped"]

BugWaitsAgain == procs[ret].state = "zombie"

\* Nothing keeps waitpid waiting.
WaitOver == ~Running(ret)

\* waitpid returns, with the process or, if the handler has reaped it, with an
\* error nobody looks at.
WaitReturns ==
  /\ pc = "wait"
  /\ handler = "none"
  /\ WaitOver
  /\ Reap(ret)
  /\ pc' = "read"
  /\ Clear
  /\ UNCHANGED <<parser, loop, descriptors, sigchld, handler, interrupts, early>>

(***************************************************************************)
(* The handlers                                                            *)
(***************************************************************************)

Zombies == {p \in Pids : procs[p].state = "zombie"}
Unreaped == {p \in Pids : procs[p].state # "reaped"}

Handles(from, to) ==
  /\ pc # "exited"
  /\ handler = from
  /\ handler' = to
  /\ UNCHANGED <<table, is_cleared, parser, pc, loop, descriptors,
                 interrupts, disturbed, early>>

\* zombie() is called.
ChildSignal ==
  /\ sigchld
  /\ Handles("none", "wait")
  /\ sigchld' = FALSE
  /\ UNCHANGED procs

BugReapsOne == "none"

\* Where the handler goes on once it has reaped a process.
AfterFirst == "poll"

\* wait3(0, 0, NULL) returns a process; it waits for one to exit.
ReapFirst ==
  \E p \in Zombies :
    /\ Handles("wait", AfterFirst)
    /\ Reap(p)
    /\ UNCHANGED sigchld

\* It returns -1 if there is no process to wait for.
NoChild ==
  /\ Unreaped = {}
  /\ Handles("wait", "none")
  /\ UNCHANGED <<procs, sigchld>>

\* wait3(&status, WNOHANG, NULL) in a loop.
ReapNext ==
  \E p \in Zombies :
    /\ Handles("poll", "poll")
    /\ Reap(p)
    /\ UNCHANGED sigchld

NoneLeft ==
  /\ Zombies = {}
  /\ Handles("poll", "none")
  /\ UNCHANGED <<procs, sigchld>>

BugClearsAnything == TRUE

\* ctrl_c leaves a table alone that the parser has marked.
MayClear == is_cleared

\* ctrl_c
ControlC ==
  /\ pc # "exited"
  /\ interrupts < MaxInterrupts
  /\ interrupts' = interrupts + 1
  /\ table' = IF MayClear THEN Cleared(table) ELSE table
  /\ disturbed' = (disturbed \/ pc \notin {"read", "expand", "output"})
  /\ UNCHANGED <<is_cleared, parser, pc, loop, descriptors, children, early>>

(***************************************************************************)
(* The processes                                                           *)
(***************************************************************************)

\* The end of its input: nobody can write to the pipe it reads from.  A file
\* ends, and so does what is typed at a terminal.
AtEnd(p) ==
  \A q \in 1 .. pipes : procs[p].fd["in"] = ReadEnd(q) => Holders(WriteEnd(q)) = {}

\* Process p exits, and the shell is told.
Terminate(p) ==
  /\ Running(p)
  /\ procs[p].program = "filter" => AtEnd(p)
  /\ procs' = [procs EXCEPT ![p].state = "zombie", ![p].fd = AllClosed,
                            ![p].leaked = {}]
  /\ sigchld' = (pc # "exited")
  /\ UNCHANGED <<table, is_cleared, parser, pc, loop, descriptors, handler,
                 interrupts, disturbed, early>>

(***************************************************************************)
(* The specification                                                       *)
(***************************************************************************)

Parser ==
  \/ Subshell
  \/ SubshellFails
  \/ SubshellOutput
  \/ InsertCommand
  \/ MarkCommand
  \/ ParseLine
  \/ ParseError

CommandExecute ==
  \/ NothingToDo
  \/ Exit
  \/ Begin
  \/ SetupLast
  \/ SetupPipe
  \/ PipeFails
  \/ Builtin
  \/ Fork
  \/ ForkFails
  \/ RestoreForeground
  \/ RestoreBackground
  \/ WaitReturns

Handler ==
  \/ ChildSignal
  \/ ReapFirst
  \/ NoChild
  \/ ReapNext
  \/ NoneLeft

\* What the shell does once it has been given a line.
ShellGoesOn == Parser \/ CommandExecute \/ Handler

User ==
  \/ \E l \in Lines : ReadLine(l)
  \/ BlankLine
  \/ EndOfInput
  \/ ControlC

Ended == pc = "exited" /\ UNCHANGED vars

Next ==
  \/ ShellGoesOn
  \/ User
  \/ \E p \in Pids : Terminate(p)
  \/ Ended

\* The shell is scheduled; nothing is said of the programs it runs.
ShellSpec == Init /\ [][Next]_vars /\ WF_vars(ShellGoesOn)

\* Every program that can exit does in the end.
ProgramsEnd == WF_vars(\E p \in Pids : Terminate(p))

Spec == ShellSpec /\ ProgramsEnd

(***************************************************************************)
(* Properties                                                              *)
(***************************************************************************)

\* Type correctness.
TypeOK ==
  /\ table.commands \in Seq({"ends", "filter", "builtin", "exit"})
  /\ {table.is_background, is_cleared, sigchld, disturbed, early} \subseteq BOOLEAN
  /\ line = NONE \/ (line \in Lines /\ inserted \in 0 .. Len(line.commands))
  /\ pc \in {"read", "expand", "output", "insert", "mark", "modify", "begin", "setup", "start",
             "restore", "wait", "exited"}
  /\ pc \in {"setup", "start"} => i \in DOMAIN Commands
  /\ pc \in {"restore", "wait"} => ret \in Pids
  /\ DOMAIN fd = Descriptors
  /\ \A p \in Pids :
       /\ procs[p].program \in {"ends", "filter"}
       /\ procs[p].state \in {"running", "zombie", "reaped"}
       /\ DOMAIN procs[p].fd = Descriptors
  /\ handler \in {"none", "wait", "poll"}
  /\ Len(procs) <= MaxProcesses

\* A line executes as it was typed: nothing is left in the table of the lines
\* before it, unless one was broken off or could not be executed, or the user
\* typed control-C meanwhile; and then only until the table is cleared.
LineExecuted ==
  pc = "begin" /\ ~disturbed =>
    table = [commands |-> line.commands, in_file |-> line.in_file,
             out_file |-> line.out_file, err_file |-> line.err_file,
             is_background |-> line.is_background]

\* command_execute has the table.
Executing == pc \in {"begin", "setup", "start", "restore", "wait"}

\* Control-C does not pull the table from under command_execute: between its
\* first and its last look at the table only command_clear changes it.
TableKept ==
  [][Executing => table' = table \/ pc' \in {"read", "exited"}]_vars

\* At the prompt the shell reads from and writes to the terminal again and has
\* nothing else open but read ends of its subshells' pipes, until command_execute
\* has returned early once.
DefaultsRestored ==
  pc = "read" /\ ~early =>
    fd = Defaults /\ \A file \in leaked : file[1] = "read"

\* Processes next to each other in a line are joined by a pipe: what one writes
\* the next one reads, and no other process reads or writes it.
PipelineJoined ==
  \A a, b \in Pids :
    /\ Running(a) /\ Running(b)
    /\ procs[a].line = procs[b].line
    /\ procs[b].place = procs[a].place + 1
    => \E p \in 1 .. pipes :
         /\ procs[a].fd["out"] = WriteEnd(p)
         /\ procs[b].fd["in"] = ReadEnd(p)
         /\ \A c \in Pids : Running(c) =>
              /\ procs[c].fd["out"] = WriteEnd(p) => c = a
              /\ procs[c].fd["in"] = ReadEnd(p) => c = b

\* A process that reads from a pipe will see its end: of the write end there is
\* no copy but the output of the process before it, neither in the shell nor in
\* a process forked since.
WriteEndsClosed ==
  \A b \in Pids, p \in 1 .. pipes :
    Running(b) /\ procs[b].fd["in"] = ReadEnd(p) =>
      \A a \in Holders(WriteEnd(p)) :
        a # 0 /\ a < b /\ procs[a].fd["out"] = WriteEnd(p)

\* README:9, "Kill Zombie": every process that has exited is reaped, though
\* signals that come while the handler runs, or together, are not counted.
ZombiesReaped ==
  \A p \in 1 .. MaxProcesses : p \in Zombies ~> p \notin Zombies \/ pc = "exited"

\* When all programs end the shell comes back to the prompt: no process waits
\* for the end of a pipe that does not come, and neither waitpid nor the handler
\* waits for a process that is no longer there.
PromptReturns == []<>(pc \in {"read", "exited"} /\ handler = "none")

=============================================================================
