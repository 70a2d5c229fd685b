----------------------------- MODULE ShellProofs -----------------------------
(***************************************************************************)
(* Theorems about the shell: a line executes as it was typed, control-C    *)
(* leaves the table of an executing line alone, command_execute gives the  *)
(* shell its descriptors back, and the processes of a pipeline are joined  *)
(* by pipes whose ends nobody else holds.                                  *)
(***************************************************************************)
EXTENDS ShellInvariant, TLAPS

USE LinesAssumption, BoundsAssumption

(***************************************************************************)
(* Types                                                                   *)
(***************************************************************************)

\* What is known of a line the parser is given.
LEMMA LineFields ==
  ASSUME NEW l \in Lines
  PROVE  /\ l.commands \in Seq(Kinds) /\ l.commands # <<>> /\ Len(l.commands) \in Nat \ {0}
         /\ l.is_background \in BOOLEAN /\ l.ok \in BOOLEAN /\ l.subshell \in BOOLEAN
         /\ l.in_file \in Names /\ l.out_file \in Names /\ l.err_file \in Names
<1>1. l.commands \in Seq(Kinds) /\ l.commands # <<>>
  BY DEF Kinds
<1>2. Len(l.commands) \in Nat \ {0}
  BY <1>1
<1> QED
  BY <1>1, <1>2 DEF Names

\* The types hold initially.
LEMMA InitTypes == Init => Types
<1> SUFFICES ASSUME Init PROVE Types
  OBVIOUS
<1>1. table \in TableType
  BY DEF Init, EmptyTable, TableType, Names, Kinds
<1>2. fd \in [Descriptors -> Files] /\ leaked \in SUBSET Files
  BY DEF Init, Defaults, Files
<1>3. procs \in Seq(ProcessType) /\ Len(procs) <= MaxProcesses
  BY DEF Init
<1>4. line \in Lines => inserted \in 0 .. Len(line.commands)
  BY LineFields DEF Init
<1>5. /\ pipes \in Nat /\ i \in Nat /\ ret \in Nat /\ lines_read \in Nat
      /\ line \in Lines \cup {NONE}
  BY DEF Init
<1> QED
  BY <1>1, <1>2, <1>3, <1>4, <1>5 DEF Init, Types

\* The fields of the command table.
LEMMA TableFields ==
  ASSUME Types
  PROVE  /\ Commands \in Seq(Kinds) /\ Len(Commands) \in Nat /\ DOMAIN Commands = 1 .. Len(Commands)
         /\ table.in_file \in Names /\ table.out_file \in Names /\ table.err_file \in Names
         /\ table.is_background \in BOOLEAN
<1>1. table \in TableType
  BY DEF Types
<1>2. Commands \in Seq(Kinds)
  BY <1>1 DEF TableType, Commands
<1> QED
  BY <1>1, <1>2 DEF TableType

\* A cleared table is a table.
LEMMA ClearType == EmptyTable \in TableType
BY DEF EmptyTable, TableType, Names, Kinds

\* A simple command more in the table.
LEMMA InsertType ==
  ASSUME Types, NEW kind \in Kinds
  PROVE  [table EXCEPT !.commands = Append(@, kind)] \in TableType
<1>1. table \in TableType
  BY DEF Types
<1>2. Append(table.commands, kind) \in Seq(Kinds)
  BY <1>1 DEF TableType
<1> QED
  BY <1>1, <1>2 DEF TableType

\* The redirections and the ampersand of a line.
LEMMA ModifiedType ==
  ASSUME Types, line \in Lines
  PROVE  Modified \in TableType
<1>1. table \in TableType
  BY DEF Types
<1>2. \A old, new \in Names : Overwrite(old, new) \in Names
  BY DEF Overwrite
<1>3. /\ Overwrite(table.in_file, line.in_file) \in Names
      /\ Overwrite(table.out_file, line.out_file) \in Names
      /\ Overwrite(table.err_file, line.err_file) \in Names
  BY <1>2, TableFields, LineFields
<1>4. (table.is_background \/ line.is_background) \in BOOLEAN
  OBVIOUS
<1> QED
  BY <1>1, <1>3, <1>4 DEF TableType, Modified

\* The parser, the user and the steps of command_execute that leave descriptors
\* and processes alone.
LEMMA TypesParser ==
  ASSUME Types, Placed,
         SubshellOutput \/ InsertCommand \/ MarkCommand \/ ParseLine \/ ParseError
  PROVE  Types'
<1>1. line \in Lines
  BY DEF Placed, Parsing, SubshellOutput, InsertCommand, MarkCommand, ParseLine,
         ParseError, Goes
<1>2. CASE SubshellOutput
  BY <1>2 DEF SubshellOutput, Goes, Types, parser, loop, descriptors, children
<1>3. CASE InsertCommand
  <2>1. pc = "insert" /\ inserted \in Nat /\ inserted < Len(line.commands)
    BY <1>1, <1>3, LineFields DEF InsertCommand, Goes, Types, Placed, Parsing
  <2>2. line.commands[inserted + 1] \in Kinds
    <3>1. line.commands \in Seq(Kinds)
      BY <1>1, LineFields
    <3> QED
      BY <2>1, <3>1
  <2>3. table' \in TableType
    BY <1>3, <2>2, InsertType DEF InsertCommand
  <2>4. inserted' \in 0 .. Len(line.commands)
    BY <1>1, <1>3, <2>1, LineFields DEF InsertCommand
  <2> QED
    BY <1>1, <1>3, <2>3, <2>4 DEF InsertCommand, Goes, Types, loop, descriptors, children
<1>4. CASE MarkCommand
  BY <1>4 DEF MarkCommand, Goes, Types, parser, loop, descriptors, children
<1>5. CASE ParseLine \/ ParseError
  <2>1. table' \in TableType
    BY <1>1, <1>5, ModifiedType DEF ParseLine, ParseError
  <2> QED
    BY <1>5, <2>1 DEF ParseLine, ParseError, Goes, Types, parser, loop, descriptors, children
<1> QED
  BY <1>2, <1>3, <1>4, <1>5

\* What the user does keeps the types.
LEMMA TypesUser ==
  ASSUME Types, User
  PROVE  Types'
<1>1. CASE \E l \in Lines : ReadLine(l)
  <2>1. PICK l \in Lines : ReadLine(l)
    BY <1>1
  <2>2. 0 \in 0 .. Len(l.commands)
    BY LineFields
  <2> QED
    BY <2>1, <2>2 DEF ReadLine, Goes, Types, loop, descriptors, children
<1>2. CASE BlankLine
  <2>1. table' \in TableType /\ is_cleared' \in BOOLEAN /\ disturbed' \in BOOLEAN
    BY <1>2, ClearType DEF BlankLine, Clear, Cleared
  <2> QED
    BY <1>2, <2>1 DEF BlankLine, Goes, Types, loop, descriptors, children
<1>3. CASE EndOfInput
  BY <1>3 DEF EndOfInput, Exits, Goes, Types, parser, loop, children, AllClosed, Files
<1>4. CASE ControlC
  <2>1. table' \in TableType
    BY <1>4, ClearType DEF ControlC, Cleared, Types
  <2>2. disturbed' \in BOOLEAN
    BY <1>4 DEF ControlC
  <2> QED
    BY <1>4, <2>1, <2>2 DEF ControlC, Types, parser, loop, descriptors, children
<1> QED
  BY <1>1, <1>2, <1>3, <1>4 DEF User

\* The fields of a process.
LEMMA ProcessFields ==
  ASSUME Types, NEW c \in Pids
  PROVE  /\ procs[c] \in ProcessType /\ c \in Nat \ {0}
         /\ procs[c].program \in {"ends", "filter"}
         /\ procs[c].state \in {"running", "zombie", "reaped"}
         /\ procs[c].fd \in [Descriptors -> Files] /\ procs[c].leaked \in SUBSET Files
         /\ procs[c].line \in Nat /\ procs[c].place \in Nat
<1>1. procs \in Seq(ProcessType)
  BY DEF Types
<1>2. procs[c] \in ProcessType /\ c \in Nat \ {0}
  BY <1>1 DEF Pids
<1> QED
  BY <1>2 DEF ProcessType

\* One process changes: it ends, or it is reaped.
LEMMA ProcessChange ==
  ASSUME Types, NEW c \in Pids, NEW p \in ProcessType, procs' = [procs EXCEPT ![c] = p]
  PROVE  procs' \in Seq(ProcessType) /\ Len(procs') = Len(procs) /\ DOMAIN procs' = DOMAIN procs
<1>1. procs \in Seq(ProcessType)
  BY DEF Types
<1> QED
  BY <1>1 DEF Pids

\* A process is appended.
LEMMA NewProcessType ==
  ASSUME Types, NEW p \in ProcessType, procs' = Append(procs, p), Len(procs) < MaxProcesses
  PROVE  /\ procs' \in Seq(ProcessType) /\ Len(procs') = Len(procs) + 1
         /\ Len(procs') <= MaxProcesses
         /\ Pids' = Pids \cup {Len(procs) + 1} /\ Len(procs) + 1 \notin Pids
         /\ \A c \in Pids : procs'[c] = procs[c]
         /\ procs'[Len(procs) + 1] = p
<1>1. procs \in Seq(ProcessType) /\ Len(procs) \in Nat
  BY DEF Types
<1> QED
  BY <1>1 DEF Pids

\* The handlers and the processes keep the types.
LEMMA TypesProcesses ==
  ASSUME Types, Handler \/ (\E p \in Pids : Terminate(p))
  PROVE  Types'
<1>1. CASE ChildSignal \/ NoChild \/ NoneLeft
  BY <1>1 DEF ChildSignal, NoChild, NoneLeft, Handles, Types, parser, loop, descriptors
<1>2. ASSUME NEW p \in Zombies, Reap(p), UNCHANGED sigchld,
             NEW to \in {"none", "wait", "poll"}, NEW from, Handles(from, to)
      PROVE  Types'
  <2>1. p \in Pids
    BY DEF Zombies
  <2>2. [procs[p] EXCEPT !.state = "reaped"] \in ProcessType
    BY <2>1, ProcessFields DEF ProcessType
  <2>3. procs' \in Seq(ProcessType) /\ Len(procs') = Len(procs)
    BY <1>2, <2>1, <2>2, ProcessChange DEF Reap
  <2> QED
    BY <1>2, <2>3 DEF Handles, Types, parser, loop, descriptors
<1>3. CASE ReapFirst \/ ReapNext
  BY <1>2, <1>3 DEF ReapFirst, ReapNext, AfterFirst
<1>4. CASE \E p \in Pids : Terminate(p)
  <2>1. PICK p \in Pids : Terminate(p)
    BY <1>4
  <2> DEFINE ended == [procs[p] EXCEPT !.state = "zombie", !.fd = AllClosed, !.leaked = {}]
  <2>2. AllClosed \in [Descriptors -> Files]
    BY DEF AllClosed, Files
  <2>3. ended \in ProcessType
    <3>1. \A q \in ProcessType, f \in [Descriptors -> Files] :
            [q EXCEPT !.state = "zombie", !.fd = f, !.leaked = {}] \in ProcessType
      BY DEF ProcessType
    <3> QED
      BY <2>2, <3>1, ProcessFields
  <2>4. procs' = [procs EXCEPT ![p] = ended]
    BY <2>1 DEF Terminate
  <2> HIDE DEF ended
  <2>5. procs' \in Seq(ProcessType) /\ Len(procs') = Len(procs)
    BY <2>3, <2>4, ProcessChange
  <2> QED
    BY <2>1, <2>5 DEF Terminate, Types, parser, loop, descriptors
<1> QED
  BY <1>1, <1>3, <1>4 DEF Handler

\* open() gives a file or none.
LEMMA OpenType ==
  ASSUME NEW name \in Names, NEW file \in Files
  PROVE  OpenOr(name, file) \in Files
BY DEF OpenOr, Files

\* dup2 gives descriptors again.
LEMMA RedirectType ==
  ASSUME NEW f \in [Descriptors -> Files], NEW d \in Descriptors, NEW file \in Files
  PROVE  Redirect(f, d, file) \in [Descriptors -> Files]
BY DEF Redirect

\* The descriptors once the input of a command is set up.
LEMMA InputType ==
  ASSUME Types
  PROVE  /\ Input \in [Descriptors -> Files]
         /\ Input["in"] = IF fd["fdin"] = CLOSED THEN fd["in"] ELSE fd["fdin"]
         /\ Input["fdin"] = CLOSED
         /\ \A d \in Descriptors \ {"in", "fdin"} : Input[d] = fd[d]
<1> DEFINE f == Redirect(fd, "in", fd["fdin"])
<1>1. /\ fd \in [Descriptors -> Files] /\ {"in", "fdin"} \subseteq Descriptors
      /\ CLOSED \in Files
  BY DEF Types, Descriptors, Files
<1>2. f \in [Descriptors -> Files]
  BY <1>1, RedirectType
<1>3. f["in"] = IF fd["fdin"] = CLOSED THEN fd["in"] ELSE fd["fdin"]
  BY <1>1 DEF Redirect
<1>4. \A d \in Descriptors \ {"in"} : f[d] = fd[d]
  BY <1>1 DEF Redirect
<1>5. Input = [f EXCEPT !["fdin"] = CLOSED]
  BY DEF Input
<1> HIDE DEF f
<1> QED
  BY <1>1, <1>2, <1>3, <1>4, <1>5

\* The output of the last command, and its errors.
LastOutput == OpenOr(table.out_file, fd["tmpout"])
LastErrors == OpenOr(table.err_file, fd["tmperr"])

\* The descriptors once the last command is set up.
LEMMA LastTypes ==
  ASSUME Types, SetupLast
  PROVE  /\ fd' \in [Descriptors -> Files]
         /\ fd'["out"] = IF LastOutput = CLOSED THEN fd["out"] ELSE LastOutput
         /\ fd'["err"] = IF LastErrors = CLOSED THEN fd["err"] ELSE LastErrors
         /\ fd'["in"] = Input["in"] /\ fd'["fdin"] = CLOSED
         /\ \A d \in {"tmpin", "tmpout", "tmperr"} : fd'[d] = fd[d]
<1> DEFINE f == Redirect(Input, "err", LastErrors)
<1>1. /\ fd \in [Descriptors -> Files]
      /\ {"in", "out", "err", "tmpin", "tmpout", "tmperr", "fdin"} \subseteq Descriptors
  BY DEF Types, Descriptors
<1>2. LastOutput \in Files /\ LastErrors \in Files
  BY <1>1, OpenType, TableFields DEF LastOutput, LastErrors
<1>3. f \in [Descriptors -> Files]
  BY <1>1, <1>2, RedirectType, InputType
<1>4. /\ f["err"] = IF LastErrors = CLOSED THEN fd["err"] ELSE LastErrors
      /\ \A d \in Descriptors \ {"err"} : f[d] = Input[d]
  BY <1>1, InputType DEF Redirect
<1>5. fd' = Redirect(f, "out", LastOutput)
  BY DEF SetupLast, LastOutput, LastErrors
<1> HIDE DEF f
<1>6. fd' \in [Descriptors -> Files]
  BY <1>1, <1>2, <1>3, <1>5, RedirectType
<1>7. /\ fd'["out"] = IF LastOutput = CLOSED THEN f["out"] ELSE LastOutput
      /\ \A d \in Descriptors \ {"out"} : fd'[d] = f[d]
  BY <1>1, <1>3, <1>5 DEF Redirect
<1>8. Input["out"] = fd["out"] /\ Input["err"] = fd["err"]
      /\ \A d \in {"tmpin", "tmpout", "tmperr"} : Input[d] = fd[d]
  BY InputType DEF Descriptors
<1>9. \A d \in {"in", "err", "fdin", "tmpin", "tmpout", "tmperr"} : d \in Descriptors \ {"out"}
  BY <1>1
<1>10. \A d \in {"in", "out", "fdin", "tmpin", "tmpout", "tmperr"} : d \in Descriptors \ {"err"}
  BY <1>1
<1> QED
  BY <1>4, <1>6, <1>7, <1>8, <1>9, <1>10, InputType

\* The descriptors once a command before a pipe is set up.
LEMMA PipeTypes ==
  ASSUME Types, SetupPipe
  PROVE  /\ fd' \in [Descriptors -> Files]
         /\ fd'["out"] = WriteEnd(pipes + 1) /\ fd'["fdin"] = ReadEnd(pipes + 1)
         /\ fd'["in"] = Input["in"]
         /\ \A d \in {"err", "tmpin", "tmpout", "tmperr"} : fd'[d] = fd[d]
         /\ pipes' = pipes + 1 /\ leaked' = leaked /\ pipes + 1 \in Pipes /\ pipes \in Nat
<1>1. /\ pipes + 1 \in Pipes /\ pipes \in Nat
      /\ {"in", "out", "err", "tmpin", "tmpout", "tmperr", "fdin"} \subseteq Descriptors
  BY DEF Types, Descriptors, Pipes
<1>2. ReadEnd(pipes + 1) \in Files /\ WriteEnd(pipes + 1) \in Files
  BY <1>1 DEF Files
<1>3. fd' = [Input EXCEPT !["out"] = WriteEnd(pipes + 1), !["fdin"] = ReadEnd(pipes + 1)]
      /\ pipes' = pipes + 1 /\ leaked' = leaked
  BY DEF SetupPipe, Piped, StillOpen
<1> HIDE DEF ReadEnd, WriteEnd
<1> QED
  BY <1>1, <1>2, <1>3, InputType

\* The descriptors command_execute gives back.
LEMMA RestoredTypes ==
  ASSUME Types
  PROVE  /\ Restored \in [Descriptors -> Files]
         /\ Restored["in"] = fd["tmpin"] /\ Restored["out"] = fd["tmpout"]
         /\ Restored["err"] = fd["tmperr"] /\ Restored["fdin"] = fd["fdin"]
         /\ \A d \in {"tmpin", "tmpout", "tmperr"} : Restored[d] = CLOSED
<1>1. /\ fd \in [Descriptors -> Files] /\ CLOSED \in Files
      /\ Descriptors = {"in", "out", "err", "tmpin", "tmpout", "tmperr", "fdin"}
  BY DEF Types, Descriptors, Files
<1> HIDE DEF CLOSED
<1>2. /\ SavedBack(fd) \in [Descriptors -> Files]
      /\ SavedBack(fd)["in"] = fd["tmpin"] /\ SavedBack(fd)["out"] = fd["tmpout"]
      /\ SavedBack(fd)["err"] = fd["tmperr"] /\ SavedBack(fd)["fdin"] = fd["fdin"]
  BY <1>1 DEF SavedBack
<1> QED
  BY <1>1, <1>2 DEF Restored

\* The descriptors command_execute leaves when it returns early.
LEMMA EarlyTypes ==
  ASSUME Types, ReturnsEarly
  PROVE  /\ fd' \in [Descriptors -> Files] /\ leaked' \in SUBSET Files
         /\ \A d \in {"in", "out", "err"} : fd'[d] = fd[d]
         /\ \A d \in {"tmpin", "tmpout", "tmperr", "fdin"} : fd'[d] = CLOSED
         /\ leaked' = leaked \cup
              ({fd[d] : d \in {"tmpin", "tmpout", "tmperr", "fdin"}} \ {CLOSED})
<1>1. /\ fd \in [Descriptors -> Files] /\ CLOSED \in Files /\ leaked \in SUBSET Files
      /\ Descriptors = {"in", "out", "err", "tmpin", "tmpout", "tmperr", "fdin"}
  BY DEF Types, Descriptors, Files
<1>2. /\ fd' = [d \in Descriptors |->
                  IF d \in {"tmpin", "tmpout", "tmperr", "fdin"} THEN CLOSED ELSE fd[d]]
      /\ leaked' = leaked \cup
              ({fd[d] : d \in {"tmpin", "tmpout", "tmperr", "fdin"}} \ {CLOSED})
  BY DEF ReturnsEarly
<1> HIDE DEF CLOSED
<1> QED
  BY <1>1, <1>2

\* The descriptors command_execute begins with.
LEMMA BeginTypes ==
  ASSUME Types, Begin
  PROVE  /\ fd' \in [Descriptors -> Files]
         /\ \A d \in {"in", "out", "err"} : fd'[d] = fd[d]
         /\ fd'["tmpin"] = fd["in"] /\ fd'["tmpout"] = fd["out"] /\ fd'["tmperr"] = fd["err"]
         /\ fd'["fdin"] = OpenOr(table.in_file, fd["in"])
<1>1. /\ fd \in [Descriptors -> Files]
      /\ Descriptors = {"in", "out", "err", "tmpin", "tmpout", "tmperr", "fdin"}
  BY DEF Types, Descriptors
<1>2. OpenOr(table.in_file, fd["in"]) \in Files
  BY <1>1, OpenType, TableFields
<1>3. fd' = [fd EXCEPT !["tmpin"] = fd["in"], !["tmpout"] = fd["out"],
                       !["tmperr"] = fd["err"], !["fdin"] = OpenOr(table.in_file, fd["in"])]
  BY DEF Begin
<1> QED
  BY <1>1, <1>2, <1>3

\* The subshell of a line.
SubshellProcess ==
  [program |-> "ends", state |-> "running",
   fd |-> [fd EXCEPT !["in"] = ReadEnd(pipes + 1), !["out"] = WriteEnd(pipes + 2)],
   leaked |-> leaked \cup {fd["in"], fd["out"], ReadEnd(pipes + 2)},
   line |-> lines_read, place |-> 0]

\* A subshell is forked.
LEMMA SubshellTypes ==
  ASSUME Types, Subshell
  PROVE  /\ SubshellProcess \in ProcessType /\ procs' = Append(procs, SubshellProcess)
         /\ pipes' = pipes + 2 /\ leaked' = leaked \cup {ReadEnd(pipes + 2)}
         /\ leaked' \in SUBSET Files /\ Len(procs) < MaxProcesses
         /\ pc = "expand" /\ pc' = "output"
         /\ UNCHANGED <<table, is_cleared, parser, i, ret, fd, sigchld, handler,
                        disturbed, early>>
<1>1. /\ fd \in [Descriptors -> Files] /\ leaked \in SUBSET Files /\ lines_read \in Nat
      /\ {"in", "out"} \subseteq Descriptors /\ pipes \in Nat
      /\ pipes + 1 \in Pipes /\ pipes + 2 \in Pipes
  BY DEF Types, Descriptors, Pipes
<1>2. {ReadEnd(pipes + 1), ReadEnd(pipes + 2), WriteEnd(pipes + 2)} \subseteq Files
  BY <1>1 DEF Files
<1>3. /\ procs' = Append(procs, SubshellProcess) /\ Len(procs) < MaxProcesses
      /\ pipes' = pipes + 2 /\ leaked' = leaked \cup {ReadEnd(pipes + 2)}
      /\ pc = "expand" /\ pc' = "output"
      /\ UNCHANGED <<table, is_cleared, parser, i, ret, fd, sigchld, handler,
                     disturbed, early>>
  BY DEF Subshell, SubshellProcess, StillOpenAfter
<1> HIDE DEF ReadEnd, WriteEnd
<1>4. [fd EXCEPT !["in"] = ReadEnd(pipes + 1), !["out"] = WriteEnd(pipes + 2)]
        \in [Descriptors -> Files]
  BY <1>1, <1>2
<1>5. leaked \cup {fd["in"], fd["out"], ReadEnd(pipes + 2)} \in SUBSET Files
  BY <1>1, <1>2
<1>6. SubshellProcess \in ProcessType
  BY <1>1, <1>4, <1>5 DEF SubshellProcess, ProcessType
<1> QED
  BY <1>1, <1>2, <1>3, <1>6

\* The process of a simple command is a process.
LEMMA ForkTypes ==
  ASSUME Types, Placed, Fork
  PROVE  /\ NewProcess \in ProcessType /\ procs' = Append(procs, NewProcess)
         /\ Len(procs) < MaxProcesses
<1>1. i \in DOMAIN Commands /\ Current # "exit" /\ Current # "builtin"
  BY DEF Placed, Fork
<1>2. Current \in {"ends", "filter"}
  BY <1>1, TableFields DEF Current, Kinds
<1>3. NewProcess \in ProcessType
  BY <1>2 DEF NewProcess, ProcessType, Types
<1> QED
  BY <1>3 DEF Fork

\* command_execute keeps the types.
LEMMA TypesExecute ==
  ASSUME Types, Placed, CommandExecute
  PROVE  Types'
<1>1. CASE NothingToDo
  BY <1>1 DEF NothingToDo, Goes, Types, parser, loop, descriptors, children
<1>2. CASE Exit \/ PipeFails
  <2>1. fd' \in [Descriptors -> Files] /\ leaked' \in SUBSET Files
    BY <1>2 DEF Exit, PipeFails, Exits, AllClosed, Files
  <2>2. table' \in TableType /\ is_cleared' \in BOOLEAN /\ disturbed' \in BOOLEAN
    BY <1>2, ClearType DEF Exit, PipeFails, Clear, Cleared, Types
  <2> QED
    BY <1>2, <2>1, <2>2 DEF Exit, PipeFails, Exits, Goes, Types, parser, loop, children
<1>3. CASE Begin
  <2>1. fd' \in [Descriptors -> Files]
    BY <1>3, BeginTypes
  <2> QED
    BY <1>3, <2>1 DEF Begin, Goes, Types, parser, children
<1>4. CASE SetupLast
  <2>1. fd' \in [Descriptors -> Files]
    BY <1>4, LastTypes
  <2> QED
    BY <1>4, <2>1 DEF SetupLast, Goes, Types, parser, loop, children
<1>5. CASE SetupPipe
  <2>1. fd' \in [Descriptors -> Files] /\ leaked' = leaked /\ pipes' \in Nat
    BY <1>5, PipeTypes
  <2> QED
    BY <1>5, <2>1 DEF SetupPipe, Goes, Types, parser, children
<1>6. CASE Builtin \/ ForkFails
  <2>1. fd' \in [Descriptors -> Files] /\ leaked' \in SUBSET Files
    BY <1>6, EarlyTypes DEF Builtin, ForkFails
  <2>2. table' \in TableType /\ is_cleared' \in BOOLEAN /\ disturbed' \in BOOLEAN
    BY <1>6, ClearType DEF Builtin, ForkFails, Clear, Cleared, Types
  <2> QED
    BY <1>6, <2>1, <2>2 DEF Builtin, ForkFails, ReturnsEarly, Goes, Types, parser, loop, children
<1>7. CASE Fork
  <2>1. procs' \in Seq(ProcessType) /\ Len(procs') <= MaxProcesses /\ Len(procs) \in Nat
    BY <1>7, ForkTypes, NewProcessType DEF Types
  <2> QED
    BY <1>7, <2>1 DEF Fork, Types, parser, descriptors
<1>8. CASE RestoreForeground \/ RestoreBackground
  <2>1. fd' \in [Descriptors -> Files]
    BY <1>8, RestoredTypes DEF RestoreForeground, RestoreBackground
  <2>2. table' \in TableType /\ is_cleared' \in BOOLEAN /\ disturbed' \in BOOLEAN
    BY <1>8, ClearType DEF RestoreForeground, RestoreBackground, Clear, Cleared, Types
  <2> QED
    BY <1>8, <2>1, <2>2 DEF RestoreForeground, RestoreBackground, Goes, Types, parser, loop, children
<1>9. CASE WaitReturns
  <2>1. ret \in Pids
    BY <1>9 DEF WaitReturns, Placed
  <2>2. [procs[ret] EXCEPT !.state = "reaped"] \in ProcessType
    BY <2>1, ProcessFields DEF ProcessType
  <2>3. procs' \in Seq(ProcessType) /\ Len(procs') = Len(procs)
    BY <1>9, <2>1, <2>2, ProcessChange DEF WaitReturns, Reap
  <2>4. table' \in TableType /\ is_cleared' \in BOOLEAN /\ disturbed' \in BOOLEAN
    BY <1>9, ClearType DEF WaitReturns, Clear, Cleared
  <2> QED
    BY <1>9, <2>3, <2>4 DEF WaitReturns, Types, parser, loop, descriptors
<1> QED
  BY <1>1, <1>2, <1>3, <1>4, <1>5, <1>6, <1>7, <1>8, <1>9 DEF CommandExecute

\* Every step keeps the types.
LEMMA TypesStep ==
  ASSUME Types, Placed, [Next]_vars
  PROVE  Types'
<1>1. CASE Subshell
  <2>1. procs' \in Seq(ProcessType) /\ Len(procs') <= MaxProcesses
    BY <1>1, SubshellTypes, NewProcessType
  <2> QED
    BY <1>1, <2>1, SubshellTypes DEF Types, parser
<1>2. CASE SubshellFails
  <2>1. fd' \in [Descriptors -> Files] /\ leaked' \in SUBSET Files
    BY <1>2 DEF SubshellFails, Exits, AllClosed, Files
  <2> QED
    BY <1>2, <2>1 DEF SubshellFails, Exits, Goes, Types, parser, loop, children
<1>3. CASE Ended \/ UNCHANGED vars
  BY <1>3 DEF Ended, vars, parser, loop, descriptors, children, Types
<1> QED
  BY <1>1, <1>2, <1>3, TypesParser, TypesUser, TypesExecute, TypesProcesses
     DEF Next, ShellGoesOn, Parser

(***************************************************************************)
(* The steps by what they do to the processes                              *)
(***************************************************************************)

\* The parser marks the table before anything looks at it, and every clear comes
\* after the last look.
LEMMA MarkedStep == Marked /\ [Next]_vars => Marked'
<1> SUFFICES ASSUME Marked, [Next]_vars PROVE Marked'
  OBVIOUS
<1>1. CASE Parser
  BY <1>1 DEF Parser, Subshell, SubshellFails, SubshellOutput, Exits,
     InsertCommand, MarkCommand, ParseLine, ParseError, Goes, Marked, Executing
<1>2. CASE CommandExecute
  BY <1>2 DEF CommandExecute, NothingToDo, Exit, Begin, SetupLast, SetupPipe,
     PipeFails, Builtin, Fork, ForkFails, RestoreForeground, RestoreBackground,
     WaitReturns, ReturnsEarly, Exits, Goes, Marked, Executing
<1>3. CASE Handler \/ (\E p \in Pids : Terminate(p))
  BY <1>3 DEF Handler, ChildSignal, ReapFirst, NoChild, ReapNext, NoneLeft,
     Handles, Terminate, Marked, Executing
<1>4. CASE User
  BY <1>4 DEF User, ReadLine, BlankLine, EndOfInput, ControlC, Exits, Goes,
     Marked, Executing
<1>5. CASE Ended \/ UNCHANGED vars
  BY <1>5 DEF Ended, vars, Marked, Executing
<1> QED
  BY <1>1, <1>2, <1>3, <1>4, <1>5 DEF Next, ShellGoesOn

\* Processes only end: those that run afterwards ran before, just as they are.
Fewer ==
  /\ Pids' = Pids
  /\ \A c \in Pids :
       /\ procs'[c].line = procs[c].line /\ procs'[c].place = procs[c].place
       /\ procs'[c].state = "running" => procs'[c] = procs[c]
       /\ \A file : file # CLOSED
            /\ file \in Range(procs'[c].fd) \cup procs'[c].leaked => Has(c, file)

\* Reaping a process.
LEMMA ReapedFewer ==
  ASSUME Types, NEW p \in Pids, Reap(p)
  PROVE  Fewer
<1>1. procs' = [procs EXCEPT ![p].state = "reaped"] /\ procs \in Seq(ProcessType)
  BY DEF Reap, Types
<1>2. DOMAIN procs' = DOMAIN procs
  BY <1>1
<1>3. \A c \in Pids : c # p => procs'[c] = procs[c]
  BY <1>1 DEF Pids
<1>4. procs'[p] = [procs[p] EXCEPT !.state = "reaped"]
  BY <1>1 DEF Pids
<1>5. procs[p] \in ProcessType
  BY ProcessFields
<1>6. /\ procs'[p].line = procs[p].line /\ procs'[p].place = procs[p].place
      /\ procs'[p].state = "reaped"
      /\ procs'[p].fd = procs[p].fd /\ procs'[p].leaked = procs[p].leaked
  BY <1>4, <1>5 DEF ProcessType
<1> QED
  BY <1>2, <1>3, <1>6 DEF Fewer, Pids, Has

\* The end of a process.
LEMMA TerminatedFewer ==
  ASSUME Types, NEW p \in Pids, Terminate(p)
  PROVE  Fewer
<1>1. procs' = [procs EXCEPT ![p].state = "zombie", ![p].fd = AllClosed, ![p].leaked = {}]
      /\ procs \in Seq(ProcessType)
  BY DEF Terminate, Types
<1>2. DOMAIN procs' = DOMAIN procs
  BY <1>1
<1>3. \A c \in Pids : c # p => procs'[c] = procs[c]
  BY <1>1 DEF Pids
<1>4. procs'[p] = [procs[p] EXCEPT !.state = "zombie", !.fd = AllClosed, !.leaked = {}]
  BY <1>1 DEF Pids
<1>5. procs[p] \in ProcessType
  BY ProcessFields
<1>6. /\ procs'[p].line = procs[p].line /\ procs'[p].place = procs[p].place
      /\ procs'[p].state = "zombie"
      /\ procs'[p].fd = AllClosed /\ procs'[p].leaked = {}
  BY <1>4, <1>5 DEF ProcessType
<1>7. \A file \in Range(AllClosed) : file = CLOSED
  BY DEF Range, AllClosed
<1> QED
  BY <1>2, <1>3, <1>6, <1>7 DEF Fewer, Pids, Has

\* Nothing happens to the processes.
LEMMA SameFewer == UNCHANGED procs => Fewer
BY DEF Fewer, Pids, Has

\* The steps of the handlers and of the processes: the shell itself stays where
\* it is.
Resting ==
  /\ UNCHANGED <<table, is_cleared, line, inserted, lines_read, pc, i, ret, fd, leaked,
                 pipes, disturbed, early>>
  /\ Fewer

\* What the handlers and the processes do.
LEMMA HandlerRests ==
  ASSUME Types, Handler \/ (\E p \in Pids : Terminate(p))
  PROVE  Resting
<1>1. CASE ChildSignal \/ NoChild \/ NoneLeft
  BY <1>1, SameFewer DEF ChildSignal, NoChild, NoneLeft, Handles, parser, loop,
     descriptors, Resting
<1>2. CASE ReapFirst \/ ReapNext
  <2>1. PICK p \in Zombies : Reap(p) /\ \E from, to : Handles(from, to)
    BY <1>2 DEF ReapFirst, ReapNext
  <2>2. Fewer
    BY <2>1, ReapedFewer DEF Zombies
  <2> QED
    BY <2>1, <2>2 DEF Handles, parser, loop, descriptors, Resting
<1>3. CASE \E p \in Pids : Terminate(p)
  <2>1. PICK p \in Pids : Terminate(p)
    BY <1>3
  <2>2. Fewer
    BY <2>1, TerminatedFewer
  <2> QED
    BY <2>1, <2>2 DEF Terminate, parser, loop, descriptors, Resting
<1> QED
  BY <1>1, <1>2, <1>3 DEF Handler

\* A stuttering step.
LEMMA StillRests == ASSUME Ended \/ UNCHANGED vars PROVE Resting
BY SameFewer DEF Ended, vars, parser, loop, descriptors, children, Resting

\* Only a fork makes processes.
LEMMA ProcessesStep ==
  ASSUME Types, Placed, [Next]_vars
  PROVE  Subshell \/ Fork \/ Fewer
<1>1. CASE Parser
  <2>1. Subshell \/ UNCHANGED procs
    BY <1>1 DEF Parser, SubshellFails, SubshellOutput, Exits, InsertCommand,
       MarkCommand, ParseLine, ParseError, Goes, children
  <2> QED
    BY <2>1, SameFewer
<1>2. CASE CommandExecute
  <2>1. Fork \/ WaitReturns \/ UNCHANGED procs
    BY <1>2 DEF CommandExecute, NothingToDo, Exit, Begin, SetupLast, SetupPipe,
       PipeFails, Builtin, ForkFails, RestoreForeground, RestoreBackground,
       ReturnsEarly, Exits, Goes, children
  <2>2. CASE WaitReturns
    <3>1. ret \in Pids /\ Reap(ret)
      BY <2>2 DEF WaitReturns, Placed
    <3> QED
      BY <3>1, ReapedFewer
  <2> QED
    BY <2>1, <2>2, SameFewer
<1>3. CASE User
  <2>1. UNCHANGED procs
    BY <1>3 DEF User, ReadLine, BlankLine, EndOfInput, ControlC, Exits, Goes, children
  <2> QED
    BY <2>1, SameFewer
<1> QED
  BY <1>1, <1>2, <1>3, HandlerRests, StillRests DEF Next, ShellGoesOn, Resting

\* No process is forgotten.
LEMMA PidsGrow ==
  ASSUME Types, Placed, [Next]_vars
  PROVE  Pids \subseteq Pids'
<1>1. CASE Subshell
  BY <1>1, SubshellTypes, NewProcessType
<1>2. CASE Fork
  BY <1>2, ForkTypes, NewProcessType
<1> QED
  BY <1>1, <1>2, ProcessesStep DEF Fewer

(***************************************************************************)
(* The command table, and the places in it                                 *)
(***************************************************************************)

\* What the table and the descriptors are initially.
LEMMA InitRest ==
  ASSUME Init
  PROVE  Marked /\ Placed /\ TableParsed /\ Wired
<1>1. Marked /\ Placed
  BY DEF Init, Marked, Placed, Parsing, Executing
<1>2. TableParsed
  BY DEF Init, TableParsed, LineExecuted
<1>3. Wired
  BY DEF Init, Wired, Wiring, Parsing
<1> QED
  BY <1>1, <1>2, <1>3

\* The parser knows where in the line it is.
LEMMA PlacedParser ==
  ASSUME Types, Placed, Parser
  PROVE  Placed'
<1>1. CASE Subshell
  BY <1>1, SubshellTypes DEF Placed, Parsing, Executing, parser
<1>2. CASE SubshellFails
  BY <1>2 DEF SubshellFails, Exits, Goes, Placed, Parsing, Executing
<1>3. CASE SubshellOutput
  <2>1. line \in Lines /\ inserted = 0 /\ pc' = "insert" /\ UNCHANGED <<line, inserted>>
    BY <1>3 DEF SubshellOutput, Goes, Placed, Parsing, parser
  <2> QED
    BY <2>1, LineFields DEF Placed, Parsing, Executing
<1>4. CASE InsertCommand
  <2>1. line \in Lines /\ inserted < Len(line.commands) /\ inserted \in Nat /\ pc' = "mark"
        /\ line' = line /\ inserted' = inserted + 1
    BY <1>4, LineFields DEF InsertCommand, Goes, Placed, Parsing, Types
  <2> QED
    BY <2>1 DEF Placed, Parsing, Executing
<1>5. CASE MarkCommand
  <2>1. /\ line \in Lines /\ inserted \in 0 .. Len(line.commands) /\ UNCHANGED <<line, inserted>>
        /\ pc' = IF inserted < Len(line.commands) THEN "insert" ELSE "modify"
    BY <1>5, LineFields DEF MarkCommand, Goes, Placed, Parsing, Types, parser
  <2>2. pc' = "modify" => inserted = Len(line.commands)
    BY <2>1, LineFields
  <2> QED
    BY <2>1, <2>2 DEF Placed, Parsing, Executing
<1>6. CASE ParseLine \/ ParseError
  BY <1>6 DEF ParseLine, ParseError, Goes, Placed, Parsing, Executing, parser
<1> QED
  BY <1>1, <1>2, <1>3, <1>4, <1>5, <1>6 DEF Parser

\* Control-C leaves the places alone, as the table is marked where they count.
LEMMA PlacedUser ==
  ASSUME Types, Marked, Placed, User
  PROVE  Placed'
<1>1. CASE \E l \in Lines : ReadLine(l)
  <2>1. PICK l \in Lines : ReadLine(l)
    BY <1>1
  <2>2. line' = l /\ inserted' = 0 /\ pc' \in {"expand", "insert"}
    BY <2>1 DEF ReadLine, Goes
  <2> QED
    BY <2>2, LineFields DEF Placed, Parsing, Executing
<1>2. CASE BlankLine \/ EndOfInput
  BY <1>2 DEF BlankLine, EndOfInput, Exits, Goes, Placed, Parsing, Executing
<1>3. CASE ControlC
  <2>1. /\ UNCHANGED <<pc, line, inserted, i, ret, procs>>
        /\ pc \in {"setup", "start"} => table' = table
    BY <1>3 DEF ControlC, MayClear, Marked, Executing, loop, parser, children
  <2> QED
    BY <2>1 DEF Placed, Parsing, Executing, Current, Commands, Pids
<1> QED
  BY <1>1, <1>2, <1>3 DEF User

\* command_execute stays within the simple commands of the table.
LEMMA PlacedExecute ==
  ASSUME Types, Placed, CommandExecute
  PROVE  Placed'
<1>1. CASE NothingToDo \/ Exit \/ PipeFails \/ Builtin \/ ForkFails \/ RestoreBackground
           \/ WaitReturns
  <2>1. pc' \in {"read", "exited"}
    BY <1>1 DEF NothingToDo, Exit, PipeFails, Builtin, ForkFails, RestoreBackground,
       WaitReturns, ReturnsEarly, Exits, Goes
  <2> QED
    BY <2>1 DEF Placed, Parsing, Executing
<1>2. CASE Begin
  <2>1. pc' = "setup" /\ i' = 1 /\ line' = line /\ line \in Lines /\ Commands # <<>>
        /\ table' = table
    BY <1>2 DEF Begin, Goes, parser, Placed, Parsing
  <2>2. 1 \in DOMAIN Commands
    BY <2>1, TableFields
  <2> QED
    BY <2>1, <2>2 DEF Placed, Parsing, Executing, Commands
<1>3. CASE SetupLast \/ SetupPipe
  BY <1>3 DEF SetupLast, SetupPipe, Goes, parser, loop, Placed, Parsing, Executing,
     Current, Commands
<1>4. CASE RestoreForeground
  BY <1>4 DEF RestoreForeground, Goes, parser, loop, children, Placed, Parsing,
     Executing, Pids
<1>5. CASE Fork
  <2>1. /\ line \in Lines /\ i \in DOMAIN Commands /\ UNCHANGED <<line, table>>
        /\ pc' = IF i = Len(Commands) THEN "restore" ELSE "setup"
        /\ i' = i + 1 /\ ret' = Len(procs) + 1
    BY <1>5 DEF Fork, Placed, Executing, IsLast, parser
  <2>2. Len(procs) + 1 \in Pids'
    BY <1>5, ForkTypes, NewProcessType
  <2>3. i # Len(Commands) => i + 1 \in DOMAIN Commands
    BY <2>1, TableFields
  <2> QED
    BY <2>1, <2>2, <2>3 DEF Placed, Parsing, Executing, Commands
<1> QED
  BY <1>1, <1>2, <1>3, <1>4, <1>5 DEF CommandExecute

\* Every step keeps the places.
LEMMA PlacedStep ==
  ASSUME Types, Marked, Placed, [Next]_vars
  PROVE  Placed'
<1>1. CASE Resting
  BY <1>1 DEF Resting, Fewer, Placed, Parsing, Executing, Current, Commands
<1> QED
  BY <1>1, HandlerRests, StillRests, PlacedParser, PlacedUser, PlacedExecute
     DEF Next, ShellGoesOn

\* An empty list of simple commands makes no difference.
LEMMA NoCommands == [EmptyTable EXCEPT !.commands = <<>>] = EmptyTable
<1>1. \A t \in TableType : t.commands = <<>> => [t EXCEPT !.commands = <<>>] = t
  BY DEF TableType
<1>2. EmptyTable.commands = <<>>
  BY DEF EmptyTable
<1> QED
  BY <1>1, <1>2, ClearType

\* The parser fills the table with the line, command by command.
LEMMA ParsedParser ==
  ASSUME Types, Placed, TableParsed, Parser
  PROVE  TableParsed'
<1>1. CASE Subshell
  BY <1>1, SubshellTypes DEF TableParsed, LineExecuted, parser
<1>2. CASE SubshellFails
  BY <1>2 DEF SubshellFails, Exits, Goes, TableParsed, LineExecuted
<1>3. CASE SubshellOutput
  <2>1. /\ line \in Lines /\ inserted = 0 /\ pc = "output" /\ pc' = "insert"
        /\ UNCHANGED <<line, inserted, table, disturbed>>
    BY <1>3 DEF SubshellOutput, Goes, Placed, Parsing, parser
  <2>2. SubSeq(line.commands, 1, 0) = <<>>
    BY <2>1, LineFields
  <2>3. [EmptyTable EXCEPT !.commands = <<>>] = EmptyTable
    BY NoCommands
  <2> QED
    BY <2>1, <2>2, <2>3 DEF TableParsed, LineExecuted
<1>4. CASE InsertCommand
  <2>1. /\ line \in Lines /\ inserted \in Nat /\ inserted < Len(line.commands)
        /\ pc = "insert" /\ pc' = "mark" /\ inserted' = inserted + 1
        /\ UNCHANGED <<line, disturbed>>
        /\ table' = [table EXCEPT !.commands = Append(@, line.commands[inserted + 1])]
    BY <1>4, LineFields DEF InsertCommand, Goes, Placed, Parsing, Types
  <2>2. Append(SubSeq(line.commands, 1, inserted), line.commands[inserted + 1])
          = SubSeq(line.commands, 1, inserted + 1)
    <3>1. line.commands \in Seq(Kinds)
      BY <2>1, LineFields
    <3> QED
      BY <2>1, <3>1
  <2>3. ASSUME ~disturbed
        PROVE  table' = [EmptyTable EXCEPT !.commands = SubSeq(line.commands, 1, inserted + 1)]
    <3>1. table = [EmptyTable EXCEPT !.commands = SubSeq(line.commands, 1, inserted)]
      BY <2>1, <2>3 DEF TableParsed
    <3> QED
      BY <2>1, <2>2, <3>1 DEF EmptyTable
  <2> QED
    BY <2>1, <2>3 DEF TableParsed, LineExecuted
<1>5. CASE MarkCommand
  BY <1>5 DEF MarkCommand, Goes, TableParsed, LineExecuted, parser
<1>6. CASE ParseLine
  <2>1. /\ line \in Lines /\ inserted = Len(line.commands)
        /\ pc = "modify" /\ pc' = "begin"
        /\ UNCHANGED <<line, disturbed>> /\ table' = Modified
    BY <1>6 DEF ParseLine, Goes, Placed, Parsing, parser
  <2>2. SubSeq(line.commands, 1, Len(line.commands)) = line.commands
    <3>1. line.commands \in Seq(Kinds)
      BY <2>1, LineFields
    <3> QED
      BY <3>1
  <2>3. ASSUME ~disturbed
        PROVE  table' = [commands |-> line.commands, in_file |-> line.in_file,
                         out_file |-> line.out_file, err_file |-> line.err_file,
                         is_background |-> line.is_background]
    <3>1. table = [EmptyTable EXCEPT !.commands = line.commands]
      BY <2>1, <2>2, <2>3 DEF TableParsed
    <3>2. /\ table.in_file = NONE /\ table.out_file = NONE /\ table.err_file = NONE
          /\ table.is_background = FALSE
          /\ table = [commands |-> line.commands, in_file |-> NONE, out_file |-> NONE,
                      err_file |-> NONE, is_background |-> FALSE]
      BY <3>1 DEF EmptyTable
    <3>3. \A name : Overwrite(NONE, name) = name
      BY DEF Overwrite
    <3>4. (FALSE \/ line.is_background) = line.is_background
      BY <2>1, LineFields
    <3> QED
      BY <2>1, <3>2, <3>3, <3>4 DEF Modified
  <2> QED
    BY <2>1, <2>3 DEF TableParsed, LineExecuted
<1>7. CASE ParseError
  BY <1>7 DEF ParseError, TableParsed
<1> QED
  BY <1>1, <1>2, <1>3, <1>4, <1>5, <1>6, <1>7 DEF Parser

\* What the user types leaves the table as it was parsed, or counts as a
\* disturbance.
LEMMA ParsedUser ==
  ASSUME Types, Placed, TableParsed, User
  PROVE  TableParsed'
<1>1. CASE \E l \in Lines : ReadLine(l)
  <2>1. PICK l \in Lines : ReadLine(l)
    BY <1>1
  <2>2. /\ line' = l /\ inserted' = 0 /\ pc' \in {"expand", "insert"} /\ pc = "read"
        /\ UNCHANGED <<table, disturbed>>
    BY <2>1 DEF ReadLine, Goes
  <2>3. SubSeq(l.commands, 1, 0) = <<>>
    BY LineFields
  <2>4. [EmptyTable EXCEPT !.commands = <<>>] = EmptyTable
    BY NoCommands
  <2> QED
    BY <2>2, <2>3, <2>4 DEF TableParsed, LineExecuted
<1>2. CASE BlankLine
  BY <1>2 DEF BlankLine, Goes, Clear, Cleared, TableParsed, LineExecuted
<1>3. CASE EndOfInput
  BY <1>3 DEF EndOfInput, Exits, Goes, TableParsed, LineExecuted
<1>4. CASE ControlC
  BY <1>4 DEF ControlC, Cleared, TableParsed, LineExecuted, parser
<1> QED
  BY <1>1, <1>2, <1>3, <1>4 DEF User

\* command_execute leaves an empty table, or counts as a disturbance.
LEMMA ParsedExecute ==
  ASSUME Types, Placed, TableParsed, CommandExecute
  PROVE  TableParsed'
<1>1. CASE NothingToDo
  <2>1. pc = "begin" /\ line \in Lines /\ Commands = <<>> /\ pc' = "read"
        /\ UNCHANGED <<table, disturbed>>
    BY <1>1 DEF NothingToDo, Goes, Placed, Parsing
  <2>2. disturbed
    BY <2>1, LineFields DEF TableParsed, LineExecuted, Commands
  <2> QED
    BY <2>1, <2>2 DEF TableParsed
<1>2. CASE Exit \/ PipeFails \/ Begin \/ SetupLast \/ SetupPipe \/ Fork \/ RestoreForeground
  <2>1. pc' \in {"exited", "setup", "start", "restore", "wait"}
    BY <1>2 DEF Exit, PipeFails, Begin, SetupLast, SetupPipe, Fork, RestoreForeground,
       Exits, Goes
  <2> QED
    BY <2>1 DEF TableParsed, LineExecuted
<1>3. CASE Builtin \/ RestoreBackground \/ WaitReturns
  BY <1>3 DEF Builtin, RestoreBackground, WaitReturns, ReturnsEarly, Goes, Clear,
     Cleared, TableParsed, LineExecuted
<1>4. CASE ForkFails
  BY <1>4 DEF ForkFails, TableParsed
<1> QED
  BY <1>1, <1>2, <1>3, <1>4 DEF CommandExecute

\* Every step keeps what was parsed.
LEMMA ParsedStep ==
  ASSUME Types, Placed, TableParsed, [Next]_vars
  PROVE  TableParsed'
<1>1. CASE Resting
  BY <1>1 DEF Resting, TableParsed, LineExecuted
<1> QED
  BY <1>1, HandlerRests, StillRests, ParsedParser, ParsedUser, ParsedExecute
     DEF Next, ShellGoesOn

\* command_execute keeps the terminal while it wires up a pipeline.
LEMMA WiredExecute ==
  ASSUME Types, Wired, CommandExecute
  PROVE  Wired'
<1>1. CASE NothingToDo
  BY <1>1 DEF NothingToDo, Goes, descriptors, Wired, Wiring, Parsing
<1>2. CASE Exit \/ PipeFails
  BY <1>2 DEF Exit, PipeFails, Exits, Goes, Wired, Wiring, Parsing
<1>3. CASE Begin
  <2>1. pc = "begin" /\ pc' = "setup" /\ UNCHANGED <<leaked, early>>
    BY <1>3 DEF Begin, Goes
  <2>2. ~early => fd["in"] = TERMINAL /\ fd["out"] = TERMINAL /\ fd["err"] = TERMINAL
    BY <2>1 DEF Wired, Parsing, Defaults, Descriptors
  <2> QED
    BY <1>3, <2>1, <2>2, BeginTypes DEF Wired, Wiring, Parsing
<1>4. CASE SetupLast
  <2>1. pc = "setup" /\ pc' = "start" /\ UNCHANGED <<leaked, early>>
    BY <1>4 DEF SetupLast, Goes
  <2> QED
    BY <1>4, <2>1, LastTypes DEF Wired, Wiring, Parsing
<1>5. CASE SetupPipe
  <2>1. pc = "setup" /\ pc' = "start" /\ UNCHANGED <<leaked, early>> /\ ~IsLast /\ ~IsLast'
    BY <1>5 DEF SetupPipe, Goes, StillOpen, IsLast, Commands
  <2> QED
    BY <1>5, <2>1, PipeTypes DEF Wired, Wiring, Parsing
<1>6. CASE Builtin \/ ForkFails
  BY <1>6 DEF Builtin, ForkFails, ReturnsEarly, Wired
<1>7. CASE Fork
  <2>1. pc = "start" /\ UNCHANGED <<fd, leaked, early>>
        /\ ((pc' = "restore" /\ IsLast) \/ pc' = "setup")
    BY <1>7 DEF Fork, descriptors
  <2> QED
    BY <2>1 DEF Wired, Wiring, Parsing
<1>8. CASE RestoreForeground \/ RestoreBackground
  <2>1. pc = "restore" /\ pc' \in {"wait", "read"} /\ fd' = Restored
        /\ UNCHANGED <<leaked, early>>
    BY <1>8 DEF RestoreForeground, RestoreBackground, Goes
  <2>2. ~early => Restored = Defaults
    <3>1. \A d \in Descriptors :
            d \in {"in", "out", "err", "tmpin", "tmpout", "tmperr", "fdin"}
      BY DEF Descriptors
    <3> QED
      BY <2>1, <3>1, RestoredTypes DEF Wired, Wiring, Defaults
  <2> QED
    BY <2>1, <2>2 DEF Wired, Wiring, Parsing
<1>9. CASE WaitReturns
  BY <1>9 DEF WaitReturns, descriptors, Wired, Wiring, Parsing
<1> QED
  BY <1>1, <1>2, <1>3, <1>4, <1>5, <1>6, <1>7, <1>8, <1>9 DEF CommandExecute

\* Every step keeps the terminal.
LEMMA WiredStep ==
  ASSUME Types, Marked, Wired, [Next]_vars
  PROVE  Wired'
<1>1. CASE Subshell
  BY <1>1, SubshellTypes DEF Wired, Wiring, Parsing, ReadEnd
<1>2. CASE SubshellFails \/ EndOfInput
  BY <1>2 DEF SubshellFails, EndOfInput, Exits, Goes, Wired, Wiring, Parsing
<1>3. CASE SubshellOutput \/ InsertCommand \/ MarkCommand \/ ParseLine \/ ParseError
  BY <1>3 DEF SubshellOutput, InsertCommand, MarkCommand, ParseLine, ParseError,
     Goes, descriptors, Wired, Wiring, Parsing
<1>4. CASE ControlC
  <2>1. UNCHANGED <<pc, i, fd, leaked, early>> /\ (pc = "start" => table' = table)
    BY <1>4 DEF ControlC, MayClear, Marked, Executing, loop, descriptors
  <2> QED
    BY <2>1 DEF Wired, Wiring, Parsing, IsLast, Commands
<1>5. CASE (\E l \in Lines : ReadLine(l)) \/ BlankLine
  BY <1>5 DEF ReadLine, BlankLine, Goes, descriptors, Wired, Wiring, Parsing
<1>6. CASE Resting
  BY <1>6 DEF Resting, Wired, Wiring, Parsing, IsLast, Commands
<1> QED
  BY <1>1, <1>2, <1>3, <1>4, <1>5, <1>6, WiredExecute, HandlerRests, StillRests
     DEF Next, ShellGoesOn, Parser, User

(***************************************************************************)
(* The ends of the pipes, and the steps by what they do to them            *)
(***************************************************************************)

\* The ends of the pipes.
LEMMA Ends ==
  ASSUME NEW n \in Pipes
  PROVE  /\ ReadEnd(n) # CLOSED /\ WriteEnd(n) # CLOSED
         /\ \A m : ReadEnd(m) # WriteEnd(n)
         /\ \A m : ReadEnd(m) = ReadEnd(n) => m = n
         /\ \A m : WriteEnd(m) = WriteEnd(n) => m = n
         /\ \A name : File(name) # ReadEnd(n) /\ File(name) # WriteEnd(n)
         /\ TERMINAL # ReadEnd(n) /\ TERMINAL # WriteEnd(n)
BY DEF ReadEnd, WriteEnd, CLOSED, TERMINAL, File, Pipes

\* What the shell holds.
LEMMA HoldsWhere ==
  ASSUME Types, NEW file
  PROVE  Holds(file) <=> file \in leaked \/ \E d \in Descriptors : fd[d] = file
<1>1. DOMAIN fd = Descriptors
  BY DEF Types
<1> QED
  BY <1>1 DEF Holds, Range

\* What a process holds.
LEMMA HeldBy ==
  ASSUME Types, NEW c \in Pids, NEW file
  PROVE  /\ Has(c, file) <=>
              file \in procs[c].leaked \/ \E d \in Descriptors : procs[c].fd[d] = file
         /\ Has(c, Out(c)) /\ Has(c, In(c))
<1>1. DOMAIN procs[c].fd = Descriptors /\ {"in", "out"} \subseteq Descriptors
  BY ProcessFields DEF Descriptors
<1> QED
  BY <1>1 DEF Has, Range, In, Out

\* The steps after which the shell has no other ends of pipes than before.
Narrows ==
  /\ Fewer /\ pipes' = pipes
  /\ \A n \in Pipes : \A file \in {ReadEnd(n), WriteEnd(n)} :
       file \in Range(fd') \cup leaked' => Holds(file)

\* The steps that leave its descriptors alone.
Calm ==
  /\ Fewer /\ UNCHANGED <<fd, leaked, pipes>>
  /\ pc' = "exited" <=> pc = "exited"
  /\ Wiring => UNCHANGED <<pc, i, table, lines_read>>
  /\ pc' \in {"setup", "start", "restore"} => pc' = pc

Shuts ==
  /\ Fewer /\ pipes' = pipes /\ fd' = AllClosed /\ leaked' = {} /\ pc' = "exited"

Restores == RestoreForeground \/ RestoreBackground

\* The handlers and the processes leave the shell's descriptors alone.
LEMMA RestingCalm == Resting => Calm
BY DEF Resting, Calm

\* What the user does leaves the descriptors alone or ends the shell.
LEMMA UserForms ==
  ASSUME Types, Marked, User
  PROVE  Calm \/ Shuts
<1>1. CASE (\E l \in Lines : ReadLine(l)) \/ BlankLine
  BY <1>1, SameFewer DEF ReadLine, BlankLine, Goes, children, loop, descriptors, Calm, Wiring
<1>2. CASE EndOfInput
  BY <1>2, SameFewer DEF EndOfInput, Exits, Goes, children, loop, Shuts
<1>3. CASE ControlC
  <2>1. UNCHANGED <<pc, i, fd, leaked, pipes, procs, lines_read>> /\ (Wiring => table' = table)
    BY <1>3 DEF ControlC, MayClear, Marked, Executing, Wiring, loop, descriptors, children, parser
  <2> QED
    BY <2>1, SameFewer DEF Calm
<1> QED
  BY <1>1, <1>2, <1>3 DEF User

\* So does the parser, but for the subshell.
LEMMA ParserForms ==
  ASSUME Types, Parser
  PROVE  Calm \/ Shuts \/ Subshell
<1>1. CASE SubshellFails
  BY <1>1, SameFewer DEF SubshellFails, Exits, Goes, children, loop, Shuts
<1>2. CASE SubshellOutput \/ InsertCommand \/ MarkCommand \/ ParseLine \/ ParseError
  <2>1. /\ UNCHANGED <<fd, leaked, pipes, procs>> /\ ~Wiring /\ pc # "exited"
        /\ pc' \in {"insert", "mark", "modify", "begin", "read"}
    BY <1>2 DEF SubshellOutput, InsertCommand, MarkCommand, ParseLine, ParseError, Goes,
       children, loop, descriptors, Wiring
  <2> QED
    BY <2>1, SameFewer DEF Calm
<1> QED
  BY <1>1, <1>2 DEF Parser

\* The steps of command_execute by what they do to the descriptors.
LEMMA ExecuteForms ==
  ASSUME Types, Placed, CommandExecute
  PROVE  Calm \/ Shuts \/ Begin \/ SetupLast \/ SetupPipe \/ ReturnsEarly \/ Fork \/ Restores
<1>1. CASE NothingToDo
  BY <1>1, SameFewer DEF NothingToDo, Goes, children, loop, descriptors, Calm, Wiring
<1>2. CASE Exit \/ PipeFails
  BY <1>2, SameFewer DEF Exit, PipeFails, Exits, Goes, children, loop, Shuts
<1>3. CASE WaitReturns
  <2>1. ret \in Pids /\ Reap(ret)
    BY <1>3 DEF WaitReturns, Placed
  <2>2. Fewer
    BY <2>1, ReapedFewer
  <2> QED
    BY <1>3, <2>2 DEF WaitReturns, loop, descriptors, Calm, Wiring
<1> QED
  BY <1>1, <1>2, <1>3 DEF CommandExecute, Builtin, ForkFails, Restores

\* Every step is of one of these forms.
LEMMA Forms ==
  ASSUME Types, Marked, Placed, [Next]_vars
  PROVE  \/ Calm \/ Shuts \/ Subshell \/ Begin \/ SetupLast \/ SetupPipe
         \/ ReturnsEarly \/ Fork \/ Restores
BY UserForms, ParserForms, ExecuteForms, HandlerRests, StillRests, RestingCalm
   DEF Next, ShellGoesOn

\* But for a new pipe and a new process nothing adds a holder of a pipe.
LEMMA NarrowForms ==
  ASSUME Types,
         Calm \/ Shuts \/ Begin \/ SetupLast \/ ReturnsEarly \/ Restores
  PROVE  Narrows
<1> SUFFICES ASSUME NEW n \in Pipes, NEW file \in {ReadEnd(n), WriteEnd(n)},
                    file \in Range(fd') \cup leaked'
             PROVE  Fewer /\ pipes' = pipes /\ Holds(file)
  <2>1. Fewer /\ pipes' = pipes
    BY SameFewer DEF Calm, Shuts, Begin, SetupLast, ReturnsEarly, Restores,
       RestoreForeground, RestoreBackground, Goes, loop, children
  <2> QED
    BY <2>1 DEF Narrows
<1>1. Fewer /\ pipes' = pipes
  BY SameFewer DEF Calm, Shuts, Begin, SetupLast, ReturnsEarly, Restores,
     RestoreForeground, RestoreBackground, Goes, loop, children
<1>2. /\ file # CLOSED /\ file # TERMINAL /\ \A name : file # File(name)
  BY Ends
<1>3. Descriptors = {"in", "out", "err", "tmpin", "tmpout", "tmperr", "fdin"}
  BY DEF Descriptors
<1>4. \A name, default : OpenOr(name, default) = file => default = file
  BY <1>2 DEF OpenOr
<1>5. CASE Calm
  BY <1>1, <1>5 DEF Calm, Holds
<1>6. CASE Shuts
  BY <1>2, <1>6 DEF Shuts, AllClosed, Range
<1>7. CASE Begin \/ SetupLast \/ Restores
  <2>1. leaked' = leaked
    BY <1>7 DEF Begin, SetupLast, Restores, RestoreForeground, RestoreBackground
  <2>2. CASE file \in leaked
    BY <1>1, <2>2, HoldsWhere
  <2>3. fd' \in [Descriptors -> Files]
    BY <1>7, BeginTypes, LastTypes, RestoredTypes DEF Restores, RestoreForeground, RestoreBackground
  <2>4. CASE file \notin leaked
    <3>1. PICK d \in Descriptors : fd'[d] = file
      BY <2>1, <2>3, <2>4 DEF Range
    <3>2. CASE Begin
      <4>1. d \in {"in", "out", "err", "tmpin", "tmpout", "tmperr", "fdin"}
        BY <1>3
      <4>2. \/ \E e \in Descriptors : fd'[d] = fd[e]
            \/ fd'[d] = OpenOr(table.in_file, fd["in"])
        BY <1>3, <3>2, <4>1, BeginTypes
      <4> QED
        BY <1>1, <1>3, <1>4, <3>1, <4>2, HoldsWhere
    <3>3. CASE SetupLast
      <4>1. /\ fd'["in"] \in {fd["in"], fd["fdin"]} /\ fd'["fdin"] = CLOSED
            /\ fd'["out"] \in {fd["out"], LastOutput}
            /\ fd'["err"] \in {fd["err"], LastErrors}
            /\ \A e \in {"tmpin", "tmpout", "tmperr"} : fd'[e] = fd[e]
        BY <3>3, LastTypes, InputType
      <4>2. /\ LastOutput = file => fd["tmpout"] = file
            /\ LastErrors = file => fd["tmperr"] = file
        BY <1>4 DEF LastOutput, LastErrors
      <4>3. \E e \in Descriptors : fd[e] = file
        BY <1>2, <1>3, <3>1, <4>1, <4>2
      <4> QED
        BY <1>1, <4>3, HoldsWhere
    <3>4. CASE Restores
      <4>1. fd' = Restored
        BY <3>4 DEF Restores, RestoreForeground, RestoreBackground
      <4>2. \E e \in Descriptors : fd[e] = file
        BY <1>2, <1>3, <3>1, <4>1, RestoredTypes
      <4> QED
        BY <1>1, <4>2, HoldsWhere
    <3> QED
      BY <1>7, <3>2, <3>3, <3>4
  <2> QED
    BY <1>1, <2>2, <2>4
<1>8. CASE ReturnsEarly
  <2>1. /\ DOMAIN fd' = Descriptors
        /\ \A d \in {"in", "out", "err"} : fd'[d] = fd[d]
        /\ \A d \in {"tmpin", "tmpout", "tmperr", "fdin"} : fd'[d] = CLOSED
        /\ leaked' = leaked \cup
             ({fd[d] : d \in {"tmpin", "tmpout", "tmperr", "fdin"}} \ {CLOSED})
    BY <1>8, EarlyTypes
  <2>2. file \in leaked \/ \E e \in Descriptors : fd[e] = file
    <3>1. CASE file \in leaked'
      BY <1>3, <2>1, <3>1
    <3>2. CASE file \in Range(fd')
      <4>1. PICK d \in Descriptors : fd'[d] = file
        BY <2>1, <3>2 DEF Range
      <4> QED
        BY <1>2, <1>3, <2>1, <4>1
    <3> QED
      BY <3>1, <3>2
  <2> QED
    BY <1>1, <2>2, HoldsWhere
<1> QED
  BY <1>1, <1>5, <1>6, <1>7, <1>8

\* What a new process is given.
Born(p) ==
  /\ procs' = Append(procs, p) /\ p \in ProcessType
  /\ Pids' = Pids \cup {Len(procs) + 1} /\ Len(procs) + 1 \notin Pids
  /\ \A c \in Pids : procs'[c] = procs[c] /\ c < Len(procs) + 1
  /\ procs'[Len(procs) + 1] = p

\* The process of a simple command is new.
LEMMA ForkBorn ==
  ASSUME Types, Placed, Fork
  PROVE  Born(NewProcess)
<1>1. \A c \in Pids : c < Len(procs) + 1
  BY DEF Pids, Types
<1> QED
  BY <1>1, ForkTypes, NewProcessType DEF Born

\* So is the subshell.
LEMMA SubshellBorn ==
  ASSUME Types, Subshell
  PROVE  Born(SubshellProcess)
<1>1. \A c \in Pids : c < Len(procs) + 1
  BY DEF Pids, Types
<1> QED
  BY <1>1, SubshellTypes, NewProcessType DEF Born

(***************************************************************************)
(* The pipes to come, and the order of the processes                       *)
(***************************************************************************)

\* There are no pipes and no processes initially.
LEMMA InitPipes ==
  ASSUME Init
  PROVE  Fresh /\ EndsApart /\ WriteEndsClosed /\ Numbered /\ Joined /\ Following /\ NewPipe
<1>1. Pids = {}
  BY DEF Init, Pids
<1>2. ASSUME NEW n \in Pipes, NEW file \in {ReadEnd(n), WriteEnd(n)}
      PROVE  ~Holds(file)
  BY <1>2, Ends DEF Init, Holds, Range, Defaults
<1>3. ASSUME NEW n \in Pipes PROVE ~Passes(n)
  BY <1>3, Ends DEF Init, Passes, Defaults, Descriptors
<1>4. Fresh
  BY <1>1, <1>2 DEF Fresh
<1>5. EndsApart
  BY <1>3 DEF EndsApart
<1>6. WriteEndsClosed /\ Numbered /\ Joined
  BY <1>1 DEF WriteEndsClosed, Numbered, Joined
<1>7. Following /\ NewPipe
  BY DEF Init, Following, NewPipe
<1> QED
  BY <1>4, <1>5, <1>6, <1>7

\* Nobody has an end of a pipe to come.
LEMMA FreshFile ==
  ASSUME Types, Fresh, NEW n \in Pipes, n > pipes, NEW file \in {ReadEnd(n), WriteEnd(n)}
  PROVE  /\ file \notin leaked /\ \A d \in Descriptors : fd[d] # file
         /\ \A c \in Pids :
              ~Has(c, file) /\ Out(c) # file /\ In(c) # file
<1>1. ~Holds(file) /\ \A c \in Pids : ~Has(c, file)
  BY DEF Fresh
<1> QED
  BY <1>1, HoldsWhere, HeldBy

\* What there is to show after a step, in terms of the next state.
LEMMA FreshPiece ==
  ASSUME \A n \in Pipes : n > pipes' =>
           \A file \in {ReadEnd(n), WriteEnd(n)} :
             /\ file \notin Range(fd') \cup leaked'
             /\ \A c \in Pids' : file \notin Range(procs'[c].fd) \cup procs'[c].leaked
  PROVE  Fresh'
BY DEF Fresh, Holds, Has

\* A step that adds no holder keeps the pipes to come.
LEMMA FreshNarrows ==
  ASSUME Types, Fresh, Narrows
  PROVE  Fresh'
<1> SUFFICES ASSUME NEW n \in Pipes, n > pipes', NEW file \in {ReadEnd(n), WriteEnd(n)}
             PROVE  /\ file \notin Range(fd') \cup leaked'
                    /\ \A c \in Pids' : file \notin Range(procs'[c].fd) \cup procs'[c].leaked
  BY FreshPiece
<1>1. n > pipes /\ file # CLOSED
  BY Ends DEF Narrows
<1>2. ~Holds(file) /\ \A c \in Pids : ~Has(c, file)
  BY <1>1 DEF Fresh
<1> QED
  BY <1>1, <1>2 DEF Narrows, Fewer

\* The shell has both ends of a new pipe, and of no later one.
LEMMA FreshSetup ==
  ASSUME Types, Fresh, SetupPipe
  PROVE  Fresh'
<1>1. Fewer /\ pipes' = pipes + 1 /\ pipes \in Nat /\ leaked' = leaked
  BY PipeTypes, SameFewer DEF SetupPipe, Goes, children
<1> SUFFICES ASSUME NEW n \in Pipes, n > pipes', NEW file \in {ReadEnd(n), WriteEnd(n)}
             PROVE  /\ file \notin Range(fd') \cup leaked'
                    /\ \A c \in Pids' : file \notin Range(procs'[c].fd) \cup procs'[c].leaked
  BY FreshPiece
<1>2. n > pipes /\ n # pipes + 1 /\ file # CLOSED
  BY <1>1, Ends DEF Pipes
<1>3. file \notin leaked /\ (\A d \in Descriptors : fd[d] # file) /\ \A c \in Pids : ~Has(c, file)
  BY <1>2, FreshFile
<1>4. file # ReadEnd(pipes + 1) /\ file # WriteEnd(pipes + 1)
  BY <1>2, PipeTypes, Ends
<1>5. file \notin Range(fd')
  <2>1. Descriptors = {"in", "out", "err", "tmpin", "tmpout", "tmperr", "fdin"}
    BY DEF Descriptors
  <2>2. Input["in"] \in {fd["in"], fd["fdin"]}
    BY InputType
  <2>3. \A d \in Descriptors : fd'[d] # file
    BY <1>3, <1>4, <2>1, <2>2, PipeTypes
  <2>4. DOMAIN fd' = Descriptors
    BY PipeTypes
  <2> QED
    BY <2>3, <2>4 DEF Range
<1> QED
  BY <1>1, <1>2, <1>3, <1>5 DEF Fewer

\* A new process has what the shell has.
LEMMA FreshFork ==
  ASSUME Types, Placed, Fresh, Fork
  PROVE  Fresh'
<1>1. UNCHANGED <<fd, leaked, pipes>>
  BY DEF Fork, descriptors
<1> SUFFICES ASSUME NEW n \in Pipes, n > pipes', NEW file \in {ReadEnd(n), WriteEnd(n)}
             PROVE  /\ file \notin Range(fd') \cup leaked'
                    /\ \A c \in Pids' : file \notin Range(procs'[c].fd) \cup procs'[c].leaked
  BY FreshPiece
<1>2. ~Holds(file) /\ \A c \in Pids : ~Has(c, file)
  BY <1>1 DEF Fresh
<1>3. NewProcess.fd = fd /\ NewProcess.leaked = leaked
  BY DEF NewProcess
<1> QED
  BY <1>1, <1>2, <1>3, ForkBorn DEF Born, Holds, Has

\* What the subshell holds, but for what it takes over from the shell.
LEMMA SubshellHas ==
  ASSUME Types, Subshell, NEW file
  PROVE  /\ SubshellProcess.fd["in"] = ReadEnd(pipes + 1)
         /\ SubshellProcess.fd["out"] = WriteEnd(pipes + 2)
         /\ file \in Range(SubshellProcess.fd) \cup SubshellProcess.leaked =>
              Holds(file) \/ file \in {ReadEnd(pipes + 1), ReadEnd(pipes + 2), WriteEnd(pipes + 2)}
<1>1. fd \in [Descriptors -> Files] /\ {"in", "out"} \subseteq Descriptors
  BY DEF Types, Descriptors
<1> DEFINE r == ReadEnd(pipes + 1)
           w == WriteEnd(pipes + 2)
           s == ReadEnd(pipes + 2)
<1>2. /\ SubshellProcess.fd = [fd EXCEPT !["in"] = r, !["out"] = w]
      /\ SubshellProcess.leaked = leaked \cup {fd["in"], fd["out"], s}
  BY DEF SubshellProcess
<1> HIDE DEF r, w, s
<1>3. /\ SubshellProcess.fd["in"] = r /\ SubshellProcess.fd["out"] = w
      /\ \A d \in Descriptors : SubshellProcess.fd[d] \in {fd[d], r, w}
      /\ DOMAIN SubshellProcess.fd = Descriptors
  BY <1>1, <1>2
<1>4. file \in Range(SubshellProcess.fd) => Holds(file) \/ file \in {r, w}
  BY <1>3, HoldsWhere DEF Range
<1>5. file \in SubshellProcess.leaked => Holds(file) \/ file = s
  BY <1>1, <1>2, HoldsWhere
<1> QED
  BY <1>3, <1>4, <1>5 DEF r, w, s

\* A subshell has the ends of the two pipes made for it, and of no later one.
LEMMA FreshSubshell ==
  ASSUME Types, Fresh, Subshell
  PROVE  Fresh'
<1>1. fd' = fd /\ leaked' = leaked \cup {ReadEnd(pipes + 2)} /\ pipes' = pipes + 2
      /\ pipes \in Nat
  BY SubshellTypes DEF Types
<1> SUFFICES ASSUME NEW n \in Pipes, n > pipes', NEW file \in {ReadEnd(n), WriteEnd(n)}
             PROVE  /\ file \notin Range(fd') \cup leaked'
                    /\ \A c \in Pids' : file \notin Range(procs'[c].fd) \cup procs'[c].leaked
  BY FreshPiece
<1>2. n > pipes /\ n # pipes + 1 /\ n # pipes + 2 /\ pipes + 1 \in Pipes /\ pipes + 2 \in Pipes
  BY <1>1 DEF Pipes
<1>3. file \notin {ReadEnd(pipes + 1), ReadEnd(pipes + 2), WriteEnd(pipes + 2)}
  BY <1>2, Ends
<1>4. ~Holds(file) /\ \A c \in Pids : ~Has(c, file)
  BY <1>2 DEF Fresh
<1>5. file \notin Range(SubshellProcess.fd) \cup SubshellProcess.leaked
  BY <1>3, <1>4, SubshellHas
<1> QED
  BY <1>1, <1>3, <1>4, <1>5, SubshellBorn DEF Born, Holds, Has

\* Every step keeps the pipes to come.
LEMMA FreshStep ==
  ASSUME Types, Marked, Placed, Fresh, [Next]_vars
  PROVE  Fresh'
BY Forms, NarrowForms, FreshNarrows, FreshSetup, FreshFork, FreshSubshell

\* What there is to show after a step, in terms of the next state.
LEMMA NumberedPiece ==
  ASSUME \A c \in Pids' :
           /\ procs'[c].line <= lines_read'
           /\ procs'[c].line = lines_read' =>
                /\ pc' # "expand"
                /\ Parsing' => procs'[c].place = 0
                /\ pc' = "output" /\ procs'[c].state = "running" =>
                     procs'[c].fd["out"] = WriteEnd(pipes')
                /\ pc' \in {"insert", "mark", "modify", "begin", "setup", "start"} =>
                     ~(procs'[c].state = "running" /\ procs'[c].place = 0)
                /\ pc' \in {"setup", "start"} => procs'[c].place < i'
  PROVE  Numbered'
BY DEF Numbered, Running, Out

\* A new line is read: no process of it exists.
LEMMA NumberedLine ==
  ASSUME Types, Numbered, UNCHANGED procs, lines_read' = lines_read + 1
  PROVE  Numbered'
<1>1. \A c \in Pids' : /\ procs'[c].line <= lines_read'
                       /\ procs'[c].line # lines_read'
  BY ProcessFields DEF Numbered, Types, Pids
<1> QED
  BY <1>1, NumberedPiece

\* The shell goes on in its line.
LEMMA NumberedOn ==
  ASSUME Types, Numbered, Fewer, lines_read' = lines_read,
         pc' \in {"expand", "output"} => pc' = pc /\ pipes' = pipes,
         Parsing' => Parsing,
         pc' \in {"insert", "mark", "modify", "begin", "setup", "start"} =>
           \/ pc \in {"insert", "mark", "modify", "begin", "setup", "start"}
           \/ \A c \in Pids : procs[c].line = lines_read => ~Running(c),
         pc' \in {"setup", "start"} =>
           (pc \in {"setup", "start"} /\ i' = i) \/ (Parsing /\ i' = 1)
  PROVE  Numbered'
<1> SUFFICES ASSUME NEW c \in Pids'
             PROVE
           /\ procs'[c].line <= lines_read'
           /\ procs'[c].line = lines_read' =>
                /\ pc' # "expand"
                /\ Parsing' => procs'[c].place = 0
                /\ pc' = "output" /\ procs'[c].state = "running" =>
                     procs'[c].fd["out"] = WriteEnd(pipes')
                /\ pc' \in {"insert", "mark", "modify", "begin", "setup", "start"} =>
                     ~(procs'[c].state = "running" /\ procs'[c].place = 0)
                /\ pc' \in {"setup", "start"} => procs'[c].place < i'
  BY NumberedPiece
<1>1. /\ c \in Pids
      /\ procs'[c].line = procs[c].line /\ procs'[c].place = procs[c].place
      /\ procs'[c].state = "running" => procs'[c] = procs[c]
  BY DEF Fewer
<1>2. procs'[c].line <= lines_read'
  BY <1>1 DEF Numbered
<1> SUFFICES ASSUME procs[c].line = lines_read
             PROVE
                /\ pc' # "expand"
                /\ Parsing' => procs'[c].place = 0
                /\ pc' = "output" /\ procs'[c].state = "running" =>
                     procs'[c].fd["out"] = WriteEnd(pipes')
                /\ pc' \in {"insert", "mark", "modify", "begin", "setup", "start"} =>
                     ~(procs'[c].state = "running" /\ procs'[c].place = 0)
                /\ pc' \in {"setup", "start"} => procs'[c].place < i'
  BY <1>1, <1>2
<1>3. /\ pc # "expand"
      /\ Parsing => procs[c].place = 0
      /\ pc = "output" /\ procs[c].state = "running" => procs[c].fd["out"] = WriteEnd(pipes)
      /\ pc \in {"insert", "mark", "modify", "begin", "setup", "start"} =>
           ~(procs[c].state = "running" /\ procs[c].place = 0)
      /\ pc \in {"setup", "start"} => procs[c].place < i
  BY <1>1 DEF Numbered, Running, Out
<1>4. pc' # "expand" /\ (Parsing' => procs'[c].place = 0)
  BY <1>1, <1>3
<1>5. pc' = "output" /\ procs'[c].state = "running" => procs'[c].fd["out"] = WriteEnd(pipes')
  BY <1>1, <1>3
<1>6. pc' \in {"insert", "mark", "modify", "begin", "setup", "start"} =>
        ~(procs'[c].state = "running" /\ procs'[c].place = 0)
  BY <1>1, <1>3 DEF Running
<1>7. pc' \in {"setup", "start"} => procs'[c].place < i'
  BY <1>1, <1>3
<1> QED
  BY <1>4, <1>5, <1>6, <1>7

\* The process of a simple command is the last one of its line.
LEMMA NumberedFork ==
  ASSUME Types, Placed, Numbered, Fork
  PROVE  Numbered'
<1>1. /\ pc = "start" /\ pc' \in {"restore", "setup"} /\ i' = i + 1 /\ lines_read' = lines_read
      /\ i \in Nat /\ lines_read \in Nat
  BY DEF Fork, parser, Types
<1>2. i > 0
  BY <1>1, TableFields DEF Placed
<1>3. NewProcess.line = lines_read /\ NewProcess.place = i
  BY DEF NewProcess
<1> SUFFICES ASSUME NEW c \in Pids'
             PROVE
           /\ procs'[c].line <= lines_read
           /\ procs'[c].line = lines_read =>
                  ~(procs'[c].state = "running" /\ procs'[c].place = 0) /\ procs'[c].place < i + 1
  BY <1>1, NumberedPiece DEF Parsing
<1>4. CASE c = Len(procs) + 1
  BY <1>1, <1>2, <1>3, <1>4, ForkBorn DEF Born
<1>5. CASE c # Len(procs) + 1
  <2>1. c \in Pids /\ procs'[c] = procs[c]
    BY <1>5, ForkBorn DEF Born
  <2>2. procs[c].place \in Nat /\ procs[c].line <= lines_read
    BY <2>1, ProcessFields DEF Numbered
  <2>3. procs[c].line = lines_read => procs[c].place < i /\ ~(Running(c) /\ procs[c].place = 0)
    BY <1>1, <2>1 DEF Numbered
  <2> QED
    BY <1>1, <2>1, <2>2, <2>3 DEF Running
<1> QED
  BY <1>4, <1>5

\* The subshell is the first process of its line.
LEMMA NumberedSubshell ==
  ASSUME Types, Numbered, Subshell
  PROVE  Numbered'
<1>1. /\ pc = "expand" /\ pc' = "output" /\ lines_read' = lines_read /\ lines_read \in Nat
      /\ pipes' = pipes + 2
  BY SubshellTypes DEF parser, Types
<1>2. /\ SubshellProcess.line = lines_read /\ SubshellProcess.place = 0
      /\ SubshellProcess.fd["out"] = WriteEnd(pipes + 2)
  BY SubshellHas DEF SubshellProcess
<1> SUFFICES ASSUME NEW c \in Pids'
             PROVE
           /\ procs'[c].line <= lines_read
           /\ procs'[c].line = lines_read =>
                /\ procs'[c].place = 0 /\ procs'[c].fd["out"] = WriteEnd(pipes + 2)
  BY <1>1, NumberedPiece
<1>3. CASE c = Len(procs) + 1
  BY <1>1, <1>2, <1>3, SubshellBorn DEF Born
<1>4. CASE c # Len(procs) + 1
  <2>1. c \in Pids /\ procs'[c] = procs[c]
    BY <1>4, SubshellBorn DEF Born
  <2>2. procs[c].line <= lines_read /\ procs[c].line # lines_read
    BY <1>1, <2>1 DEF Numbered
  <2> QED
    BY <2>1, <2>2
<1> QED
  BY <1>3, <1>4

\* The end of a subshell's output comes when the subshell has ended.
LEMMA NumberedOutput ==
  ASSUME Types, Numbered, SubshellOutput
  PROVE  \A c \in Pids : procs[c].line = lines_read => ~Running(c)
<1> SUFFICES ASSUME NEW c \in Pids, procs[c].line = lines_read, Running(c) PROVE FALSE
  OBVIOUS
<1>1. Out(c) = WriteEnd(pipes) /\ Holders(WriteEnd(pipes)) = {}
  BY DEF Numbered, SubshellOutput, Goes
<1>2. WriteEnd(pipes) \in Range(procs[c].fd)
  <2>1. DOMAIN procs[c].fd = Descriptors /\ "out" \in Descriptors
    BY ProcessFields DEF Descriptors
  <2> QED
    BY <1>1, <2>1 DEF Out, Range
<1> QED
  BY <1>1, <1>2 DEF Holders

\* Every step keeps the order of the processes.
LEMMA NumberedStep ==
  ASSUME Types, Marked, Placed, Numbered, [Next]_vars
  PROVE  Numbered'
<1>1. CASE (\E l \in Lines : ReadLine(l)) \/ BlankLine
  BY <1>1, NumberedLine DEF ReadLine, BlankLine, Goes, children
<1>2. CASE Resting
  BY <1>2, NumberedOn DEF Resting, Parsing
<1>3. CASE ControlC
  BY <1>3, NumberedOn, SameFewer DEF ControlC, parser, loop, descriptors, children, Parsing
<1>4. CASE EndOfInput \/ SubshellFails \/ Exit \/ PipeFails
  <2>1. pc' = "exited" /\ lines_read' = lines_read /\ UNCHANGED procs
    BY <1>4 DEF EndOfInput, SubshellFails, Exit, PipeFails, Exits, Goes, parser, children
  <2> QED
    BY <2>1, NumberedOn, SameFewer DEF Parsing
<1>5. CASE SubshellOutput
  <2>1. pc' = "insert" /\ pc = "output" /\ lines_read' = lines_read /\ UNCHANGED procs
    BY <1>5 DEF SubshellOutput, Goes, parser, children
  <2> QED
    BY <1>5, <2>1, NumberedOn, NumberedOutput, SameFewer DEF Parsing
<1>6. CASE InsertCommand \/ MarkCommand \/ ParseLine \/ ParseError \/ NothingToDo
  <2>1. /\ pc \in {"insert", "mark", "modify", "begin"} /\ lines_read' = lines_read
        /\ pc' \in {"insert", "mark", "modify", "begin", "read"} /\ UNCHANGED procs
    BY <1>6 DEF InsertCommand, MarkCommand, ParseLine, ParseError, NothingToDo, Goes,
       parser, children
  <2> QED
    BY <2>1, NumberedOn, SameFewer DEF Parsing
<1>7. CASE Begin
  <2>1. pc = "begin" /\ pc' = "setup" /\ i' = 1 /\ lines_read' = lines_read /\ UNCHANGED procs
    BY <1>7 DEF Begin, Goes, parser, children
  <2> QED
    BY <2>1, NumberedOn, SameFewer DEF Parsing
<1>8. CASE SetupLast \/ SetupPipe
  <2>1. pc = "setup" /\ pc' = "start" /\ i' = i /\ lines_read' = lines_read /\ UNCHANGED procs
    BY <1>8 DEF SetupLast, SetupPipe, Goes, parser, loop, children
  <2> QED
    BY <2>1, NumberedOn, SameFewer DEF Parsing
<1>9. CASE ReturnsEarly \/ Restores
  <2>1. pc' \in {"read", "wait"} /\ lines_read' = lines_read /\ UNCHANGED procs
    BY <1>9 DEF ReturnsEarly, Restores, RestoreForeground, RestoreBackground, Goes,
       parser, children
  <2> QED
    BY <2>1, NumberedOn, SameFewer DEF Parsing
<1>10. CASE WaitReturns
  <2>1. pc' = "read" /\ lines_read' = lines_read /\ ret \in Pids /\ Reap(ret)
    BY <1>10 DEF WaitReturns, parser, Placed
  <2> QED
    BY <2>1, NumberedOn, ReapedFewer DEF Parsing
<1> QED
  BY <1>1, <1>2, <1>3, <1>4, <1>5, <1>6, <1>7, <1>8, <1>9, <1>10, NumberedFork,
     NumberedSubshell, HandlerRests, StillRests
     DEF Next, ShellGoesOn, Parser, CommandExecute, User, Builtin, ForkFails, Restores

OutFileOpen == table.out_file = NONE \/ table.out_file \notin Unopenable

(***************************************************************************)
(* An output, and the write ends                                           *)
(***************************************************************************)

\* The table never names an output that is refused.
LEMMA OutFileStep ==
  ASSUME OutputsOpen, Types, Placed, OutFileOpen, [Next]_vars
  PROVE  OutFileOpen'
<1>1. CASE table' = EmptyTable
  BY <1>1 DEF OutFileOpen, EmptyTable
<1>2. CASE table' = table
  BY <1>2 DEF OutFileOpen
<1>3. CASE InsertCommand
  <2>1. table' = [table EXCEPT !.commands = Append(@, line.commands[inserted + 1])]
        /\ table \in TableType
    BY <1>3 DEF InsertCommand, Types
  <2>2. table'.out_file = table.out_file
    BY <2>1 DEF TableType
  <2> QED
    BY <2>2 DEF OutFileOpen
<1>4. CASE ParseLine \/ ParseError
  <2>1. table' = Modified /\ table \in TableType /\ line \in Lines
    BY <1>4 DEF ParseLine, ParseError, Types, Goes, Placed, Parsing
  <2>2. table'.out_file = Overwrite(table.out_file, line.out_file)
    BY <2>1 DEF TableType, Modified
  <2>3. line.out_file \notin Unopenable
    BY <2>1 DEF OutputsOpen
  <2> QED
    BY <2>2, <2>3 DEF OutFileOpen, Overwrite
<1>5. table' \in {table, EmptyTable} \/ InsertCommand \/ ParseLine \/ ParseError
  <2>1. CASE Parser
    BY <2>1 DEF Parser, Subshell, SubshellFails, SubshellOutput, MarkCommand
  <2>2. CASE CommandExecute
    BY <2>2 DEF CommandExecute, NothingToDo, Exit, Begin, SetupLast, SetupPipe, PipeFails,
       Builtin, Fork, ForkFails, RestoreForeground, RestoreBackground, WaitReturns,
       Clear, Cleared
  <2>3. CASE User
    BY <2>3 DEF User, ReadLine, BlankLine, EndOfInput, ControlC, Clear, Cleared
  <2> QED
    BY <2>1, <2>2, <2>3, HandlerRests, StillRests DEF Next, ShellGoesOn, Resting
<1> QED
  BY <1>1, <1>2, <1>3, <1>4, <1>5

\* The last command of a line has an output of its own.
LEMMA LastIsOpen ==
  ASSUME Types, Output, SetupLast
  PROVE  /\ LastOutput # CLOSED /\ fd'["out"] = LastOutput
         /\ LastOutput = fd["tmpout"] \/ \E name : LastOutput = File(name)
<1>1. pc = "setup"
  BY DEF SetupLast, Goes
<1>2. fd["tmpout"] # CLOSED /\ (table.out_file = NONE \/ table.out_file \notin Unopenable)
  BY <1>1 DEF Output, Wiring
<1>3. LastOutput = fd["tmpout"] \/ (table.out_file # NONE /\ LastOutput = File(table.out_file))
  BY <1>2 DEF LastOutput, OpenOr
<1>4. LastOutput # CLOSED
  BY <1>2 DEF LastOutput, OpenOr, File, CLOSED
<1> QED
  BY <1>3, <1>4, LastTypes

\* Every step keeps an output.
LEMMA OutputStep ==
  ASSUME OutputsOpen, Types, Marked, Placed, Output, [Next]_vars
  PROVE  Output'
<1>1. OutFileOpen' /\ OutFileOpen
  BY OutFileStep DEF Output, OutFileOpen
<1> SUFFICES /\ pc' # "exited" => fd'["out"] # CLOSED
             /\ pc' \in {"setup", "start", "restore"} => fd'["tmpout"] # CLOSED
  BY <1>1 DEF Output, OutFileOpen, Wiring
<1>2. /\ pc # "exited" => fd["out"] # CLOSED
      /\ pc \in {"setup", "start", "restore"} => fd["tmpout"] # CLOSED
  BY DEF Output, Wiring
<1>3. CASE Calm
  BY <1>2, <1>3 DEF Calm
<1>4. CASE Shuts
  BY <1>4 DEF Shuts
<1>5. CASE Subshell
  BY <1>2, <1>5, SubshellTypes
<1>6. CASE Begin
  BY <1>2, <1>6, BeginTypes DEF Begin, Goes
<1>7. CASE SetupLast
  BY <1>2, <1>7, LastIsOpen, LastTypes DEF SetupLast, Goes
<1>8. CASE SetupPipe
  BY <1>2, <1>8, PipeTypes, Ends DEF SetupPipe, Goes
<1>9. CASE ReturnsEarly
  BY <1>2, <1>9, EarlyTypes DEF ReturnsEarly, Goes
<1>10. CASE Fork
  BY <1>2, <1>10 DEF Fork, descriptors
<1>11. CASE Restores
  BY <1>2, <1>11, RestoredTypes DEF Restores, RestoreForeground, RestoreBackground, Goes
<1> QED
  BY <1>3, <1>4, <1>5, <1>6, <1>7, <1>8, <1>9, <1>10, <1>11, Forms

\* Who holds the write end of a pipe that a process reads.
ReadersApart ==
  \A b \in Pids, n \in 1 .. pipes :
    Running(b) /\ In(b) = ReadEnd(n) =>
      /\ ~Holds(WriteEnd(n))
      /\ \A a \in Pids : Running(a) /\ Has(a, WriteEnd(n)) => a < b /\ Out(a) = WriteEnd(n)

\* The two ways to say it agree.
LEMMA ReadersWriters == Types => (ReadersApart <=> WriteEndsClosed)
<1> SUFFICES ASSUME Types PROVE ReadersApart <=> WriteEndsClosed
  OBVIOUS
<1>1. ASSUME NEW file
      PROVE  \A a : a \in Holders(file) <=>
               (a \in Pids /\ Running(a) /\ Has(a, file)) \/ (a = 0 /\ Holds(file))
  BY DEF Holders, Has, Holds
<1>2. 0 \notin Pids
  BY ProcessFields
<1>3. ReadersApart => WriteEndsClosed
  BY <1>1, <1>2 DEF ReadersApart, WriteEndsClosed, In, Out
<1>4. WriteEndsClosed => ReadersApart
  BY <1>1, <1>2 DEF ReadersApart, WriteEndsClosed, In, Out
<1> QED
  BY <1>3, <1>4

\* What there is to show after a step, in terms of the next state.
LEMMA ReadersPiece ==
  ASSUME \A b \in Pids', n \in 1 .. pipes' :
           procs'[b].state = "running" /\ procs'[b].fd["in"] = ReadEnd(n) =>
             /\ WriteEnd(n) \notin Range(fd') \cup leaked'
             /\ \A a \in Pids' :
                  /\ procs'[a].state = "running"
                  /\ WriteEnd(n) \in Range(procs'[a].fd) \cup procs'[a].leaked
                  => a < b /\ procs'[a].fd["out"] = WriteEnd(n)
  PROVE  ReadersApart'
BY DEF ReadersApart, Running, Holds, Has, In, Out

\* A pipe somebody reads exists.
LEMMA ReadExists ==
  ASSUME Types, Fresh, NEW n \in Pipes, NEW b \in Pids, In(b) = ReadEnd(n)
  PROVE  n \in 1 .. pipes
<1>1. ~(n > pipes)
  BY FreshFile
<1> QED
  BY <1>1 DEF Pipes, Types

\* A step that adds no holder keeps the write ends closed.
LEMMA ReadersNarrow ==
  ASSUME Types, ReadersApart, Narrows
  PROVE  ReadersApart'
<1> SUFFICES ASSUME NEW b \in Pids', NEW n \in 1 .. pipes',
                    procs'[b].state = "running", procs'[b].fd["in"] = ReadEnd(n)
             PROVE
             /\ WriteEnd(n) \notin Range(fd') \cup leaked'
             /\ \A a \in Pids' :
                  /\ procs'[a].state = "running"
                  /\ WriteEnd(n) \in Range(procs'[a].fd) \cup procs'[a].leaked
                  => a < b /\ procs'[a].fd["out"] = WriteEnd(n)
  BY ReadersPiece
<1>1. n \in Pipes /\ n \in 1 .. pipes
  BY DEF Types, Narrows, Pipes
<1>2. b \in Pids /\ Running(b) /\ In(b) = ReadEnd(n)
  BY DEF Narrows, Fewer, Running, In
<1>3. /\ ~Holds(WriteEnd(n))
      /\ \A a \in Pids : Running(a) /\ Has(a, WriteEnd(n)) => a < b /\ Out(a) = WriteEnd(n)
  BY <1>1, <1>2 DEF ReadersApart
<1>4. WriteEnd(n) \notin Range(fd') \cup leaked'
  BY <1>1, <1>3 DEF Narrows
<1>5. ASSUME NEW a \in Pids', procs'[a].state = "running",
             WriteEnd(n) \in Range(procs'[a].fd) \cup procs'[a].leaked
      PROVE  a < b /\ procs'[a].fd["out"] = WriteEnd(n)
  <2>1. a \in Pids /\ procs'[a] = procs[a]
    BY <1>5 DEF Narrows, Fewer
  <2>2. Running(a) /\ Has(a, WriteEnd(n))
    BY <1>5, <2>1 DEF Running, Has
  <2> QED
    BY <1>3, <2>1, <2>2 DEF Out
<1> QED
  BY <1>4, <1>5

\* Nobody reads a new pipe yet.
LEMMA ReadersSetup ==
  ASSUME Types, Fresh, ReadersApart, SetupPipe
  PROVE  ReadersApart'
<1> SUFFICES ASSUME NEW b \in Pids', NEW n \in 1 .. pipes',
                    procs'[b].state = "running", procs'[b].fd["in"] = ReadEnd(n)
             PROVE
             /\ WriteEnd(n) \notin Range(fd') \cup leaked'
             /\ \A a \in Pids' :
                  /\ procs'[a].state = "running"
                  /\ WriteEnd(n) \in Range(procs'[a].fd) \cup procs'[a].leaked
                  => a < b /\ procs'[a].fd["out"] = WriteEnd(n)
  BY ReadersPiece
<1>1. n \in Pipes /\ UNCHANGED procs /\ b \in Pids
  BY PipeTypes DEF Pipes, Pids, SetupPipe, Goes, children
<1>2. Running(b) /\ In(b) = ReadEnd(n)
  BY <1>1 DEF Running, In
<1>3. n \in 1 .. pipes
  BY <1>1, <1>2, ReadExists
<1>4. /\ ~Holds(WriteEnd(n))
      /\ \A a \in Pids : Running(a) /\ Has(a, WriteEnd(n)) => a < b /\ Out(a) = WriteEnd(n)
  BY <1>2, <1>1, <1>3 DEF ReadersApart
<1>5. WriteEnd(n) \notin Range(fd') \cup leaked'
  <2>1. WriteEnd(n) \notin leaked /\ \A d \in Descriptors : fd[d] # WriteEnd(n)
    BY <1>4, HoldsWhere
  <2>2. Descriptors = {"in", "out", "err", "tmpin", "tmpout", "tmperr", "fdin"}
    BY DEF Descriptors
  <2>3. n # pipes + 1
    BY <1>3, PipeTypes
  <2>4. WriteEnd(n) # WriteEnd(pipes + 1) /\ WriteEnd(n) # ReadEnd(pipes + 1)
    BY <1>1, <2>3, Ends, PipeTypes
  <2>5. Input["in"] \in {fd["in"], fd["fdin"]}
    BY InputType
  <2>6. \A d \in Descriptors : fd'[d] # WriteEnd(n)
    BY <2>1, <2>2, <2>4, <2>5, PipeTypes
  <2> QED
    BY <2>1, <2>6, PipeTypes DEF Range
<1>6. \A a \in Pids' :
                  /\ procs'[a].state = "running"
                  /\ WriteEnd(n) \in Range(procs'[a].fd) \cup procs'[a].leaked
                  => a < b /\ procs'[a].fd["out"] = WriteEnd(n)
  BY <1>1, <1>4 DEF Running, Has, Out, Pids
<1> QED
  BY <1>5, <1>6

\* A subshell reads a pipe of its own and has no other write end of a pipe than
\* that of its output.
LEMMA ReadersSubshell ==
  ASSUME Types, Fresh, ReadersApart, Subshell
  PROVE  ReadersApart'
<1> SUFFICES ASSUME NEW b \in Pids', NEW n \in 1 .. pipes',
                    procs'[b].state = "running", procs'[b].fd["in"] = ReadEnd(n)
             PROVE
             /\ WriteEnd(n) \notin Range(fd') \cup leaked'
             /\ \A a \in Pids' :
                  /\ procs'[a].state = "running"
                  /\ WriteEnd(n) \in Range(procs'[a].fd) \cup procs'[a].leaked
                  => a < b /\ procs'[a].fd["out"] = WriteEnd(n)
  BY ReadersPiece
<1>1. /\ fd' = fd /\ leaked' = leaked \cup {ReadEnd(pipes + 2)} /\ pipes \in Nat
      /\ n \in Pipes /\ pipes + 1 \in Pipes /\ pipes + 2 \in Pipes
  BY SubshellTypes DEF Types, Pipes
<1>2. WriteEnd(n) # ReadEnd(pipes + 1) /\ WriteEnd(n) # ReadEnd(pipes + 2)
  BY <1>1, Ends
<1>3. CASE b = Len(procs) + 1
  <2>1. n = pipes + 1
    BY <1>1, <1>3, SubshellHas, SubshellBorn, Ends DEF Born
  <2>2. ~Holds(WriteEnd(n)) /\ \A a \in Pids : ~Has(a, WriteEnd(n))
    BY <1>1, <2>1 DEF Fresh
  <2>3. WriteEnd(n) # WriteEnd(pipes + 2)
    BY <1>1, <2>1, Ends
  <2>4. WriteEnd(n) \notin Range(SubshellProcess.fd) \cup SubshellProcess.leaked
    BY <1>2, <2>2, <2>3, SubshellHas
  <2> QED
    BY <1>1, <1>2, <2>2, <2>4, SubshellBorn DEF Born, Holds, Has
<1>4. CASE b # Len(procs) + 1
  <2>1. b \in Pids /\ procs'[b] = procs[b] /\ Running(b) /\ In(b) = ReadEnd(n)
    BY <1>4, SubshellBorn DEF Born, Running, In
  <2>2. n \in 1 .. pipes
    BY <1>1, <2>1, ReadExists
  <2>3. /\ ~Holds(WriteEnd(n))
        /\ \A a \in Pids : Running(a) /\ Has(a, WriteEnd(n)) => a < b /\ Out(a) = WriteEnd(n)
    BY <2>1, <2>2 DEF ReadersApart
  <2>4. WriteEnd(n) # WriteEnd(pipes + 2)
    BY <1>1, <2>2, Ends
  <2>5. WriteEnd(n) \notin Range(SubshellProcess.fd) \cup SubshellProcess.leaked
    BY <1>2, <2>3, <2>4, SubshellHas
  <2> QED
    BY <1>1, <1>2, <2>1, <2>3, <2>5, SubshellBorn DEF Born, Holds, Has, Running, Out
<1> QED
  BY <1>3, <1>4

\* The reader of a pipe is forked after the shell closed the write end, and after
\* the process that writes to it.
LEMMA ReadersFork ==
  ASSUME Types, Placed, Fresh, EndsApart, ReadersApart, Fork
  PROVE  ReadersApart'
<1> SUFFICES ASSUME NEW b \in Pids', NEW n \in 1 .. pipes',
                    procs'[b].state = "running", procs'[b].fd["in"] = ReadEnd(n)
             PROVE
             /\ WriteEnd(n) \notin Range(fd') \cup leaked'
             /\ \A a \in Pids' :
                  /\ procs'[a].state = "running"
                  /\ WriteEnd(n) \in Range(procs'[a].fd) \cup procs'[a].leaked
                  => a < b /\ procs'[a].fd["out"] = WriteEnd(n)
  BY ReadersPiece
<1>1. /\ fd' = fd /\ leaked' = leaked /\ pipes' = pipes /\ n \in Pipes /\ n \in 1 .. pipes
  BY DEF Fork, descriptors, Pipes, Types
<1>2. NewProcess.fd = fd /\ NewProcess.leaked = leaked
  BY DEF NewProcess
<1>3. CASE b = Len(procs) + 1
  <2>1. fd["in"] = ReadEnd(n)
    BY <1>2, <1>3, ForkBorn DEF Born
  <2>2. /\ \A a \in Pids : Running(a) /\ Has(a, WriteEnd(n)) => Out(a) = WriteEnd(n)
        /\ ~Holds(WriteEnd(n))
    BY <1>1, <2>1 DEF EndsApart, Passes, OnlyOutput
  <2> QED
    BY <1>1, <1>2, <1>3, <2>2, ForkBorn DEF Born, Holds, Has, Running, Out
<1>4. CASE b # Len(procs) + 1
  <2>1. b \in Pids /\ procs'[b] = procs[b] /\ Running(b) /\ In(b) = ReadEnd(n)
    BY <1>4, ForkBorn DEF Born, Running, In
  <2>2. /\ ~Holds(WriteEnd(n))
        /\ \A a \in Pids : Running(a) /\ Has(a, WriteEnd(n)) => a < b /\ Out(a) = WriteEnd(n)
    BY <1>1, <2>1 DEF ReadersApart
  <2> QED
    BY <1>1, <1>2, <2>1, <2>2, ForkBorn DEF Born, Holds, Has, Running, Out
<1> QED
  BY <1>3, <1>4

\* Every step keeps the write ends closed.
LEMMA WritersStep ==
  ASSUME Types, Types', Marked, Placed, Fresh, EndsApart, WriteEndsClosed, [Next]_vars
  PROVE  WriteEndsClosed'
<1>1. ReadersApart
  BY ReadersWriters
<1>2. ReadersApart'
  BY <1>1, Forms, NarrowForms, ReadersNarrow, ReadersSetup, ReadersSubshell, ReadersFork
<1>3. (ReadersApart <=> WriteEndsClosed)'
  BY ReadersWriters, PTL
<1> QED
  BY <1>2, <1>3

(***************************************************************************)
(* The ends the shell passes on                                            *)
(***************************************************************************)

\* What there is to show after a step, in terms of the next state.
LEMMA ApartPiece ==
  ASSUME \A n \in Pipes :
           (\E d \in {"in", "fdin", "tmpin"} : fd'[d] = ReadEnd(n)) =>
             /\ \A c \in Pids' :
                  /\ procs'[c].state = "running"
                  /\ WriteEnd(n) \in Range(procs'[c].fd) \cup procs'[c].leaked
                  => procs'[c].fd["out"] = WriteEnd(n)
             /\ WriteEnd(n) \in Range(fd') \cup leaked' => OnlyOutput(n)'
  PROVE  EndsApart'
BY DEF EndsApart, Passes, Running, Has, Holds, Out

\* The processes of before are as far apart from pipe n as they were.
LEMMA ApartFewer ==
  ASSUME Fewer, NEW n \in Pipes,
         \A c \in Pids : Running(c) /\ Has(c, WriteEnd(n)) => Out(c) = WriteEnd(n)
  PROVE  \A c \in Pids' :
           /\ procs'[c].state = "running"
           /\ WriteEnd(n) \in Range(procs'[c].fd) \cup procs'[c].leaked
           => procs'[c].fd["out"] = WriteEnd(n)
<1> SUFFICES ASSUME NEW c \in Pids', procs'[c].state = "running",
                    WriteEnd(n) \in Range(procs'[c].fd) \cup procs'[c].leaked
             PROVE  procs'[c].fd["out"] = WriteEnd(n)
  OBVIOUS
<1>1. c \in Pids /\ procs'[c] = procs[c]
  BY DEF Fewer
<1> QED
  BY <1>1 DEF Running, Has, Out

\* Without a change of descriptors the ends stay apart.
LEMMA ApartCalm ==
  ASSUME Types, EndsApart, Calm
  PROVE  EndsApart'
<1> SUFFICES ASSUME NEW n \in Pipes, \E d \in {"in", "fdin", "tmpin"} : fd'[d] = ReadEnd(n)
             PROVE
             /\ \A c \in Pids' :
                  /\ procs'[c].state = "running"
                  /\ WriteEnd(n) \in Range(procs'[c].fd) \cup procs'[c].leaked
                  => procs'[c].fd["out"] = WriteEnd(n)
             /\ WriteEnd(n) \in Range(fd') \cup leaked' => OnlyOutput(n)'
  BY ApartPiece
<1>1. Fewer /\ UNCHANGED <<fd, leaked>> /\ (Wiring => UNCHANGED <<pc, i, table>>)
  BY DEF Calm
<1>2. Passes(n)
  BY <1>1 DEF Passes
<1>3. /\ \A c \in Pids : Running(c) /\ Has(c, WriteEnd(n)) => Out(c) = WriteEnd(n)
      /\ Holds(WriteEnd(n)) => OnlyOutput(n)
  BY <1>2 DEF EndsApart
<1>4. OnlyOutput(n) => OnlyOutput(n)'
  BY <1>1 DEF OnlyOutput, Wiring, IsLast, Commands
<1> QED
  BY <1>1, <1>3, <1>4, ApartFewer DEF Holds

\* The steps after which the shell has no write end of a pipe it passes on.
LEMMA ApartNarrow ==
  ASSUME Types, EndsApart, Narrows,
         \A n \in Pipes : (\E d \in {"in", "fdin", "tmpin"} : fd'[d] = ReadEnd(n)) =>
           Passes(n) /\ WriteEnd(n) \notin Range(fd') \cup leaked'
  PROVE  EndsApart'
BY ApartPiece, ApartFewer DEF EndsApart, Narrows

\* command_execute begins without a write end of what it reads.
LEMMA ApartBegin ==
  ASSUME Types, EndsApart, Narrows, Begin
  PROVE  EndsApart'
<1> SUFFICES ASSUME NEW n \in Pipes, \E d \in {"in", "fdin", "tmpin"} : fd'[d] = ReadEnd(n)
             PROVE  Passes(n) /\ WriteEnd(n) \notin Range(fd') \cup leaked'
  BY ApartNarrow
<1>1. fd["in"] = ReadEnd(n)
  <2>1. OpenOr(table.in_file, fd["in"]) = ReadEnd(n) => fd["in"] = ReadEnd(n)
    BY Ends DEF OpenOr
  <2>2. fd'["in"] = fd["in"] /\ fd'["tmpin"] = fd["in"]
        /\ fd'["fdin"] = OpenOr(table.in_file, fd["in"])
    BY BeginTypes
  <2> QED
    BY <2>1, <2>2
<1>2. Passes(n)
  BY <1>1 DEF Passes
<1>3. ~Holds(WriteEnd(n))
  BY <1>2 DEF EndsApart, OnlyOutput, Begin, Goes
<1> QED
  BY <1>2, <1>3 DEF Narrows

\* After an early return the shell reads what it read before.
LEMMA ApartReturns ==
  ASSUME Types, EndsApart, Narrows, ReturnsEarly
  PROVE  EndsApart'
<1> SUFFICES ASSUME NEW n \in Pipes, \E d \in {"in", "fdin", "tmpin"} : fd'[d] = ReadEnd(n)
             PROVE  Passes(n) /\ WriteEnd(n) \notin Range(fd') \cup leaked'
  BY ApartNarrow
<1>1. fd["in"] = ReadEnd(n)
  BY EarlyTypes, Ends
<1>2. Passes(n)
  BY <1>1 DEF Passes
<1>3. ~Holds(WriteEnd(n))
  BY <1>1, <1>2 DEF EndsApart, OnlyOutput
<1> QED
  BY <1>2, <1>3 DEF Narrows

\* The descriptors are restored without a write end of what the shell reads.
LEMMA ApartRestores ==
  ASSUME Types, EndsApart, Narrows, Restores
  PROVE  EndsApart'
<1> SUFFICES ASSUME NEW n \in Pipes, \E d \in {"in", "fdin", "tmpin"} : fd'[d] = ReadEnd(n)
             PROVE  Passes(n) /\ WriteEnd(n) \notin Range(fd') \cup leaked'
  BY ApartNarrow
<1>1. fd' = Restored /\ pc = "restore"
  BY DEF Restores, RestoreForeground, RestoreBackground, Goes
<1>2. fd["tmpin"] = ReadEnd(n) \/ fd["fdin"] = ReadEnd(n)
  BY <1>1, RestoredTypes, Ends
<1>3. Passes(n)
  BY <1>2 DEF Passes
<1>4. ~Holds(WriteEnd(n))
  BY <1>1, <1>3 DEF EndsApart, OnlyOutput
<1> QED
  BY <1>3, <1>4 DEF Narrows

\* The last command has an output of its own, so the write end of the last pipe
\* is closed with the shell's old output.
LEMMA ApartLast ==
  ASSUME Types, Output, EndsApart, Narrows, SetupLast
  PROVE  EndsApart'
<1> SUFFICES ASSUME NEW n \in Pipes, \E d \in {"in", "fdin", "tmpin"} : fd'[d] = ReadEnd(n)
             PROVE  Passes(n) /\ WriteEnd(n) \notin Range(fd') \cup leaked'
  BY ApartNarrow
<1>1. Passes(n)
  <2>1. fd'["in"] \in {fd["in"], fd["fdin"]} /\ fd'["fdin"] = CLOSED
        /\ fd'["tmpin"] = fd["tmpin"]
    BY LastTypes, InputType
  <2> QED
    BY <2>1, Ends DEF Passes
<1>2. Holds(WriteEnd(n)) => OnlyOutput(n)
  BY <1>1 DEF EndsApart
<1>3. WriteEnd(n) \notin leaked /\ \A d \in Descriptors : fd[d] = WriteEnd(n) => d = "out"
  BY <1>2, HoldsWhere DEF OnlyOutput
<1>4. {"in", "out", "err", "tmpin", "tmpout", "tmperr", "fdin"} = Descriptors
  BY DEF Descriptors
<1>5. fd'["out"] # WriteEnd(n)
  BY <1>3, <1>4, LastIsOpen, Ends
<1>6. fd'["err"] # WriteEnd(n)
  <2>1. fd'["err"] = fd["err"] \/ (fd'["err"] = LastErrors /\ LastErrors # CLOSED)
    BY LastTypes
  <2>2. LastErrors # WriteEnd(n)
    BY <1>3, <1>4, Ends DEF LastErrors, OpenOr
  <2> QED
    BY <1>3, <1>4, <2>1, <2>2
<1>7. fd'["in"] # WriteEnd(n)
  BY <1>3, <1>4, LastTypes, InputType
<1>8. \A d \in Descriptors : fd'[d] # WriteEnd(n)
  BY <1>3, <1>4, <1>5, <1>6, <1>7, LastTypes, Ends
<1>9. leaked' = leaked
  BY DEF SetupLast
<1> QED
  BY <1>1, <1>3, <1>8, <1>9, LastTypes DEF Range

\* Of the pipe before, the write end is closed when the output becomes the next
\* pipe; of the new pipe it is the output.
LEMMA ApartSetup ==
  ASSUME Types, Fresh, EndsApart, SetupPipe
  PROVE  EndsApart'
<1> DEFINE p == pipes + 1
<1>1. /\ fd' \in [Descriptors -> Files]
      /\ fd'["out"] = WriteEnd(p) /\ fd'["fdin"] = ReadEnd(p)
      /\ fd'["in"] \in {fd["in"], fd["fdin"]}
      /\ \A d \in {"err", "tmpin", "tmpout", "tmperr"} : fd'[d] = fd[d]
      /\ leaked' = leaked /\ p \in Pipes /\ p > pipes
  BY PipeTypes, InputType
<1>2. UNCHANGED <<procs, table, i>> /\ pc' = "start" /\ ~IsLast
  BY DEF SetupPipe, Goes, children
<1>3. /\ \A c \in Pids : ~Has(c, WriteEnd(p))
      /\ WriteEnd(p) \notin leaked
      /\ \A d \in Descriptors : fd[d] # WriteEnd(p) /\ fd[d] # ReadEnd(p)
  BY <1>1, FreshFile
<1> HIDE DEF p
<1>4. {"in", "out", "err", "tmpin", "tmpout", "tmperr", "fdin"} = Descriptors
  BY DEF Descriptors
<1>5. Fewer
  BY <1>2, SameFewer
<1> SUFFICES ASSUME NEW n \in Pipes, \E d \in {"in", "fdin", "tmpin"} : fd'[d] = ReadEnd(n)
             PROVE
             /\ \A c \in Pids' :
                  /\ procs'[c].state = "running"
                  /\ WriteEnd(n) \in Range(procs'[c].fd) \cup procs'[c].leaked
                  => procs'[c].fd["out"] = WriteEnd(n)
             /\ WriteEnd(n) \in Range(fd') \cup leaked' => OnlyOutput(n)'
  BY ApartPiece
<1>6. CASE n = p
  <2>1. fd'["in"] # ReadEnd(n) /\ fd'["tmpin"] # ReadEnd(n)
    BY <1>1, <1>3, <1>4, <1>6
  <2>2. \A d \in Descriptors : fd'[d] = WriteEnd(n) => d = "out"
    BY <1>1, <1>3, <1>4, <1>6, Ends
  <2>3. WriteEnd(n) \notin leaked' /\ pc' = "start" /\ ~IsLast'
    BY <1>1, <1>2, <1>3, <1>6 DEF IsLast, Commands
  <2>4. OnlyOutput(n)'
    BY <2>1, <2>2, <2>3 DEF OnlyOutput
  <2> QED
    BY <1>2, <1>3, <1>6, <2>4 DEF Has, Pids
<1>7. CASE n # p
  <2>1. Passes(n)
    BY <1>1, <1>7, Ends DEF Passes
  <2>2. /\ \A c \in Pids : Running(c) /\ Has(c, WriteEnd(n)) => Out(c) = WriteEnd(n)
        /\ Holds(WriteEnd(n)) => OnlyOutput(n)
    BY <2>1 DEF EndsApart
  <2>3. WriteEnd(n) \notin leaked /\ \A d \in Descriptors : fd[d] = WriteEnd(n) => d = "out"
    BY <2>2, HoldsWhere DEF OnlyOutput
  <2>4. WriteEnd(n) # WriteEnd(p) /\ WriteEnd(n) # ReadEnd(p)
    BY <1>7, <1>1, Ends
  <2>5. \A d \in Descriptors : fd'[d] # WriteEnd(n)
    BY <1>1, <1>4, <2>3, <2>4
  <2>6. WriteEnd(n) \notin Range(fd') \cup leaked'
    BY <1>1, <2>3, <2>5 DEF Range
  <2> QED
    BY <1>5, <2>2, <2>6, ApartFewer
<1> QED
  BY <1>6, <1>7

\* A subshell gets no write end of what the shell reads.
LEMMA ApartSubshell ==
  ASSUME Types, Fresh, EndsApart, Subshell
  PROVE  EndsApart'
<1>1. /\ fd' = fd /\ leaked' = leaked \cup {ReadEnd(pipes + 2)} /\ pipes \in Nat
      /\ pc = "expand" /\ pipes + 1 \in Pipes /\ pipes + 2 \in Pipes
  BY SubshellTypes DEF Types, Pipes
<1> SUFFICES ASSUME NEW n \in Pipes, \E d \in {"in", "fdin", "tmpin"} : fd'[d] = ReadEnd(n)
             PROVE
             /\ \A c \in Pids' :
                  /\ procs'[c].state = "running"
                  /\ WriteEnd(n) \in Range(procs'[c].fd) \cup procs'[c].leaked
                  => procs'[c].fd["out"] = WriteEnd(n)
             /\ WriteEnd(n) \in Range(fd') \cup leaked' => OnlyOutput(n)'
  BY ApartPiece
<1>2. Passes(n)
  BY <1>1 DEF Passes
<1>3. /\ \A c \in Pids : Running(c) /\ Has(c, WriteEnd(n)) => Out(c) = WriteEnd(n)
      /\ ~Holds(WriteEnd(n))
  BY <1>1, <1>2 DEF EndsApart, OnlyOutput
<1>4. ~(n > pipes)
  <2>1. {"in", "fdin", "tmpin"} \subseteq Descriptors
    BY DEF Descriptors
  <2> QED
    BY <1>2, <2>1, FreshFile DEF Passes
<1>5. n # pipes + 2
  BY <1>1, <1>4
<1>6. WriteEnd(n) # WriteEnd(pipes + 2) /\ \A m : WriteEnd(n) # ReadEnd(m)
  BY <1>1, <1>5, Ends
<1>7. WriteEnd(n) \notin Range(SubshellProcess.fd) \cup SubshellProcess.leaked
  BY <1>3, <1>6, SubshellHas
<1>8. WriteEnd(n) \notin Range(fd') \cup leaked'
  BY <1>1, <1>3, <1>6 DEF Holds
<1> QED
  BY <1>3, <1>7, <1>8, SubshellBorn DEF Born, Running, Has, Out

\* A new process has the write end of the next pipe as its output only.
LEMMA ApartFork ==
  ASSUME Types, Placed, EndsApart, Fork
  PROVE  EndsApart'
<1>1. UNCHANGED <<fd, leaked, table>> /\ pc = "start" /\ (~IsLast => pc' = "setup")
  BY DEF Fork, descriptors
<1>2. NewProcess.fd = fd /\ NewProcess.leaked = leaked
  BY DEF NewProcess
<1> SUFFICES ASSUME NEW n \in Pipes, \E d \in {"in", "fdin", "tmpin"} : fd'[d] = ReadEnd(n)
             PROVE
             /\ \A c \in Pids' :
                  /\ procs'[c].state = "running"
                  /\ WriteEnd(n) \in Range(procs'[c].fd) \cup procs'[c].leaked
                  => procs'[c].fd["out"] = WriteEnd(n)
             /\ WriteEnd(n) \in Range(fd') \cup leaked' => OnlyOutput(n)'
  BY ApartPiece
<1>3. Passes(n)
  BY <1>1 DEF Passes
<1>4. /\ \A c \in Pids : Running(c) /\ Has(c, WriteEnd(n)) => Out(c) = WriteEnd(n)
      /\ Holds(WriteEnd(n)) => OnlyOutput(n)
  BY <1>3 DEF EndsApart
<1>5. Holds(WriteEnd(n)) => fd["out"] = WriteEnd(n)
  BY <1>4, HoldsWhere DEF OnlyOutput
<1>6. OnlyOutput(n) => OnlyOutput(n)'
  BY <1>1 DEF OnlyOutput
<1> QED
  BY <1>1, <1>2, <1>4, <1>5, <1>6, ForkBorn DEF Born, Holds, Has, Running, Out

\* Every step keeps the ends apart.
LEMMA ApartStep ==
  ASSUME Types, Marked, Placed, Output, Fresh, EndsApart, [Next]_vars
  PROVE  EndsApart'
<1>1. CASE Shuts
  <2>1. \A d \in {"in", "fdin", "tmpin"} : fd'[d] = CLOSED
    BY <1>1 DEF Shuts, AllClosed, Descriptors
  <2> QED
    BY <2>1, Ends, ApartPiece
<1> QED
  BY <1>1, Forms, NarrowForms, ApartCalm, ApartBegin, ApartReturns, ApartRestores,
     ApartLast, ApartSetup, ApartSubshell, ApartFork

(***************************************************************************)
(* Neighbours in a line                                                    *)
(***************************************************************************)

\* What there is to show after a step, in terms of the next state.
LEMMA JoinedPiece ==
  ASSUME \A a, b \in Pids' :
           /\ procs'[a].state = "running" /\ procs'[b].state = "running"
           /\ procs'[a].line = procs'[b].line /\ procs'[b].place = procs'[a].place + 1
           => \E n \in 1 .. pipes' :
                /\ procs'[a].fd["out"] = WriteEnd(n) /\ procs'[b].fd["in"] = ReadEnd(n)
                /\ \A c \in Pids' : procs'[c].state = "running" =>
                     /\ procs'[c].fd["out"] = WriteEnd(n) => c = a
                     /\ procs'[c].fd["in"] = ReadEnd(n) => c = b
                /\ Kept(n)'
  PROVE  Joined'
BY DEF Joined, Adjacent, Running, Out, In

\* The steps that make no process.
LEMMA JoinedFewer ==
  ASSUME Types, Joined, Fewer, pipes' \in Nat, pipes' >= pipes,
         \A n \in 1 .. pipes : Kept(n) => Kept(n)'
  PROVE  Joined'
<1> SUFFICES ASSUME NEW a \in Pids', NEW b \in Pids',
                    procs'[a].state = "running", procs'[b].state = "running",
                    procs'[a].line = procs'[b].line, procs'[b].place = procs'[a].place + 1
             PROVE
              \E n \in 1 .. pipes' :
                /\ procs'[a].fd["out"] = WriteEnd(n) /\ procs'[b].fd["in"] = ReadEnd(n)
                /\ \A c \in Pids' : procs'[c].state = "running" =>
                     /\ procs'[c].fd["out"] = WriteEnd(n) => c = a
                     /\ procs'[c].fd["in"] = ReadEnd(n) => c = b
                /\ Kept(n)'
  BY JoinedPiece
<1>1. Pids' = Pids /\ \A c \in Pids : procs'[c].state = "running" => procs'[c] = procs[c]
  BY DEF Fewer
<1>2. Adjacent(a, b)
  BY <1>1 DEF Adjacent, Running
<1>3. PICK n \in 1 .. pipes :
        /\ Out(a) = WriteEnd(n) /\ In(b) = ReadEnd(n)
        /\ \A c \in Pids : Running(c) =>
             (Out(c) = WriteEnd(n) => c = a) /\ (In(c) = ReadEnd(n) => c = b)
        /\ Kept(n)
  BY <1>1, <1>2 DEF Joined
<1>4. n \in 1 .. pipes'
  BY DEF Types
<1>5. Kept(n)'
  BY <1>3
<1>6. procs'[a].fd["out"] = WriteEnd(n) /\ procs'[b].fd["in"] = ReadEnd(n)
  BY <1>1, <1>3 DEF Out, In
<1>7. \A c \in Pids' : procs'[c].state = "running" =>
        /\ procs'[c].fd["out"] = WriteEnd(n) => c = a
        /\ procs'[c].fd["in"] = ReadEnd(n) => c = b
  BY <1>1, <1>3 DEF Out, In, Running
<1> QED
  BY <1>4, <1>5, <1>6, <1>7

\* The same for the pipe of two processes that are joined.
LEMMA KeptPiece ==
  ASSUME NEW n,
         fd'["fdin"] # ReadEnd(n), fd'["tmpin"] # ReadEnd(n),
         fd'["in"] = ReadEnd(n) => pc' = "restore" \/ (pc' = "setup" /\ i' > 1)
  PROVE  Kept(n)'
BY DEF Kept

\* The input of the next process is the read end of the pipe the last one
\* writes to, if there was one.
LEMMA NextInput ==
  ASSUME Types, Following, pc = "setup"
  PROVE  /\ i > 1 => Input["in"] = fd["fdin"] /\ \E n \in 1 .. pipes : fd["fdin"] = ReadEnd(n)
         /\ Input["in"] = fd["fdin"] \/ (Input["in"] = fd["in"] /\ ~(i > 1))
<1>1. i > 1 => \E n \in 1 .. pipes : fd["fdin"] = ReadEnd(n)
  BY DEF Following
<1>2. \A n \in 1 .. pipes : ReadEnd(n) # CLOSED
  BY Ends DEF Pipes, Types
<1> QED
  BY <1>1, <1>2, InputType

\* The shell does not take up a pipe again that it has given to a process.
LEMMA KeptStep ==
  ASSUME Types, Following, NEW n \in 1 .. pipes, Kept(n),
         Calm \/ Shuts \/ Begin \/ SetupLast \/ SetupPipe \/ ReturnsEarly \/ Restores
  PROVE  Kept(n)'
<1>1. n \in Pipes /\ n # pipes + 1 /\ pipes + 1 \in Pipes
  BY DEF Pipes, Types
<1>2. ReadEnd(n) # CLOSED /\ ReadEnd(n) # ReadEnd(pipes + 1)
  BY <1>1, Ends
<1>3. /\ fd["fdin"] # ReadEnd(n) /\ fd["tmpin"] # ReadEnd(n)
      /\ fd["in"] = ReadEnd(n) => pc = "restore" \/ (pc = "setup" /\ i > 1)
  BY DEF Kept
<1>4. CASE Calm
  BY <1>3, <1>4, KeptPiece DEF Calm, Wiring
<1>5. CASE Shuts
  BY <1>2, <1>5, KeptPiece DEF Shuts, AllClosed, Descriptors
<1>6. CASE Begin
  <2>1. pc = "begin"
    BY <1>6 DEF Begin, Goes
  <2>2. OpenOr(table.in_file, fd["in"]) = ReadEnd(n) => fd["in"] = ReadEnd(n)
    BY <1>1, <1>2, Ends DEF OpenOr
  <2> QED
    BY <1>3, <1>6, <2>1, <2>2, BeginTypes, KeptPiece
<1>7. CASE SetupLast \/ SetupPipe
  <2>1. pc = "setup"
    BY <1>7 DEF SetupLast, SetupPipe, Goes
  <2>2. Input["in"] # ReadEnd(n)
    BY <1>3, <2>1, NextInput
  <2>3. fd'["in"] = Input["in"] /\ fd'["tmpin"] = fd["tmpin"]
        /\ fd'["fdin"] \in {CLOSED, ReadEnd(pipes + 1)}
    BY <1>7, LastTypes, PipeTypes
  <2> QED
    BY <1>2, <1>3, <2>2, <2>3, KeptPiece
<1>8. CASE ReturnsEarly
  <2>1. pc = "start"
    BY <1>8 DEF ReturnsEarly, Goes
  <2> QED
    BY <1>2, <1>3, <1>8, <2>1, EarlyTypes, KeptPiece
<1>9. CASE Restores
  <2>1. fd' = Restored
    BY <1>9 DEF Restores, RestoreForeground, RestoreBackground
  <2> QED
    BY <1>2, <1>3, <2>1, RestoredTypes, KeptPiece
<1> QED
  BY <1>4, <1>5, <1>6, <1>7, <1>8, <1>9

\* A subshell is next to no process, and its pipes are its own.
LEMMA JoinedSubshell ==
  ASSUME Types, Numbered, Joined, Subshell
  PROVE  Joined'
<1>1. /\ pc = "expand" /\ pc' = "output" /\ lines_read' = lines_read /\ pipes' = pipes + 2
      /\ pipes \in Nat /\ fd' = fd /\ pipes + 1 \in Pipes /\ pipes + 2 \in Pipes
  BY SubshellTypes DEF parser, Types, Pipes
<1>2. /\ SubshellProcess.line = lines_read /\ SubshellProcess.place = 0
      /\ SubshellProcess.fd["out"] = WriteEnd(pipes + 2)
      /\ SubshellProcess.fd["in"] = ReadEnd(pipes + 1)
  BY SubshellHas DEF SubshellProcess
<1>3. \A c \in Pids' : \/ c = Len(procs) + 1 /\ procs'[c] = SubshellProcess
                       \/ c \in Pids /\ procs'[c] = procs[c] /\ procs[c].line # lines_read
                          /\ procs[c].place \in Nat
  BY <1>1, SubshellBorn, ProcessFields DEF Born, Numbered
<1> SUFFICES ASSUME NEW a \in Pids', NEW b \in Pids',
                    procs'[a].state = "running", procs'[b].state = "running",
                    procs'[a].line = procs'[b].line, procs'[b].place = procs'[a].place + 1
             PROVE
              \E n \in 1 .. pipes' :
                /\ procs'[a].fd["out"] = WriteEnd(n) /\ procs'[b].fd["in"] = ReadEnd(n)
                /\ \A c \in Pids' : procs'[c].state = "running" =>
                     /\ procs'[c].fd["out"] = WriteEnd(n) => c = a
                     /\ procs'[c].fd["in"] = ReadEnd(n) => c = b
                /\ Kept(n)'
  BY JoinedPiece
<1>4. a \in Pids /\ b \in Pids /\ procs'[a] = procs[a] /\ procs'[b] = procs[b]
  BY <1>2, <1>3
<1>5. Adjacent(a, b)
  BY <1>4 DEF Adjacent, Running
<1>6. PICK n \in 1 .. pipes :
        /\ Out(a) = WriteEnd(n) /\ In(b) = ReadEnd(n)
        /\ \A c \in Pids : Running(c) =>
             (Out(c) = WriteEnd(n) => c = a) /\ (In(c) = ReadEnd(n) => c = b)
        /\ Kept(n)
  BY <1>4, <1>5 DEF Joined
<1>7. n \in 1 .. pipes' /\ n # pipes + 1 /\ n # pipes + 2 /\ n \in Pipes
  BY <1>1 DEF Pipes
<1>8. WriteEnd(n) # WriteEnd(pipes + 2) /\ ReadEnd(n) # ReadEnd(pipes + 1)
  BY <1>1, <1>7, Ends
<1>9. Kept(n)'
  BY <1>1, <1>6 DEF Kept
<1>10. procs'[a].fd["out"] = WriteEnd(n) /\ procs'[b].fd["in"] = ReadEnd(n)
  BY <1>4, <1>6 DEF Out, In
<1>11. \A c \in Pids' : procs'[c].state = "running" =>
         /\ procs'[c].fd["out"] = WriteEnd(n) => c = a
         /\ procs'[c].fd["in"] = ReadEnd(n) => c = b
  BY <1>2, <1>3, <1>6, <1>8 DEF Out, In, Running
<1> QED
  BY <1>7, <1>9, <1>10, <1>11

\* A new process reads the pipe that the one before it writes to.
LEMMA JoinedFork ==
  ASSUME Types, Placed, Numbered, EndsApart, WriteEndsClosed, Joined, Following, Fork
  PROVE  Joined'
<1>1. /\ pc = "start" /\ pc' \in {"restore", "setup"} /\ i' = i + 1 /\ lines_read' = lines_read
      /\ i \in Nat /\ fd' = fd /\ leaked' = leaked /\ pipes' = pipes
  BY DEF Fork, parser, descriptors, Types
<1>2. i > 0
  BY <1>1, TableFields DEF Placed
<1>3. /\ NewProcess.line = lines_read /\ NewProcess.place = i
      /\ NewProcess.fd = fd
  BY DEF NewProcess
<1> DEFINE new == Len(procs) + 1
<1>4. /\ procs'[new] = NewProcess /\ new \notin Pids /\ new \in Pids'
      /\ \A c \in Pids' : c = new \/ (c \in Pids /\ procs'[c] = procs[c])
      /\ \A c \in Pids : procs[c].place \in Nat
  BY ForkBorn, ProcessFields DEF Born
<1>5. \A c \in Pids : procs[c].line = lines_read =>
        procs[c].place < i /\ ~(Running(c) /\ procs[c].place = 0)
  BY <1>1 DEF Numbered
<1> HIDE DEF new
<1> SUFFICES ASSUME NEW a \in Pids', NEW b \in Pids',
                    procs'[a].state = "running", procs'[b].state = "running",
                    procs'[a].line = procs'[b].line, procs'[b].place = procs'[a].place + 1
             PROVE
              \E n \in 1 .. pipes' :
                /\ procs'[a].fd["out"] = WriteEnd(n) /\ procs'[b].fd["in"] = ReadEnd(n)
                /\ \A c \in Pids' : procs'[c].state = "running" =>
                     /\ procs'[c].fd["out"] = WriteEnd(n) => c = a
                     /\ procs'[c].fd["in"] = ReadEnd(n) => c = b
                /\ Kept(n)'
  BY JoinedPiece
<1>6. a \in Pids /\ procs'[a] = procs[a]
  <2>1. CASE a = new /\ b = new
    BY <1>1, <1>3, <1>4, <2>1
  <2>2. CASE a = new /\ b # new
    <3>1. procs[b].line = lines_read /\ procs[b].place = i + 1 /\ b \in Pids
      BY <1>3, <1>4, <2>2
    <3> QED
      BY <1>1, <1>5, <3>1
  <2> QED
    BY <1>4, <2>1, <2>2
<1>7. CASE b = new
  <2>1. procs[a].line = lines_read /\ procs[a].place = i - 1 /\ Running(a)
    BY <1>1, <1>3, <1>4, <1>6, <1>7 DEF Running
  <2>2. i > 1
    BY <1>1, <1>2, <1>5, <1>6, <2>1
  <2>3. PICK n \in 1 .. pipes :
          /\ Out(a) = WriteEnd(n) /\ fd["in"] = ReadEnd(n)
          /\ \A c \in Pids : Running(c) =>
               (Out(c) = WriteEnd(n) => c = a) /\ In(c) # ReadEnd(n)
          /\ fd["fdin"] # ReadEnd(n)
          /\ fd["tmpin"] # ReadEnd(n)
    BY <1>1, <1>6, <2>1, <2>2 DEF Following
  <2>4. n \in Pipes
    BY DEF Pipes, Types
  <2>5. ~Holds(WriteEnd(n))
    BY <2>3, <2>4 DEF EndsApart, Passes, OnlyOutput
  <2>6. fd["out"] # WriteEnd(n)
    <3>1. "out" \in Descriptors
      BY DEF Descriptors
    <3> QED
      BY <2>5, <3>1, HoldsWhere
  <2>7. Kept(n)'
    BY <1>1, <2>2, <2>3 DEF Kept
  <2>8. procs'[a].fd["out"] = WriteEnd(n) /\ procs'[b].fd["in"] = ReadEnd(n)
    BY <1>3, <1>4, <1>6, <1>7, <2>3 DEF Out
  <2>9. \A c \in Pids' : procs'[c].state = "running" =>
          /\ procs'[c].fd["out"] = WriteEnd(n) => c = a
          /\ procs'[c].fd["in"] = ReadEnd(n) => c = b
    BY <1>3, <1>4, <1>7, <2>3, <2>6 DEF Out, In, Running
  <2> QED
    BY <1>1, <2>7, <2>8, <2>9
<1>8. CASE b # new
  <2>1. b \in Pids /\ procs'[b] = procs[b]
    BY <1>4, <1>8
  <2>2. Adjacent(a, b)
    BY <1>6, <2>1 DEF Adjacent, Running
  <2>3. PICK n \in 1 .. pipes :
        /\ Out(a) = WriteEnd(n) /\ In(b) = ReadEnd(n)
        /\ \A c \in Pids : Running(c) =>
             (Out(c) = WriteEnd(n) => c = a) /\ (In(c) = ReadEnd(n) => c = b)
        /\ Kept(n)
    BY <1>6, <2>1, <2>2 DEF Joined
  <2>4. fd["in"] # ReadEnd(n) /\ fd["fdin"] # ReadEnd(n) /\ fd["tmpin"] # ReadEnd(n)
    BY <1>1, <2>3 DEF Kept
  <2>5. ~Holds(WriteEnd(n))
    <3>1. ReadersApart
      BY ReadersWriters
    <3> QED
      BY <2>1, <2>2, <2>3, <3>1 DEF ReadersApart, Adjacent
  <2>6. fd["out"] # WriteEnd(n)
    <3>1. "out" \in Descriptors
      BY DEF Descriptors
    <3> QED
      BY <2>5, <3>1, HoldsWhere
  <2>7. Kept(n)'
    BY <1>1, <2>4, KeptPiece
  <2>8. procs'[a].fd["out"] = WriteEnd(n) /\ procs'[b].fd["in"] = ReadEnd(n)
    BY <1>6, <2>1, <2>3 DEF Out, In
  <2>9. \A c \in Pids' : procs'[c].state = "running" =>
          /\ procs'[c].fd["out"] = WriteEnd(n) => c = a
          /\ procs'[c].fd["in"] = ReadEnd(n) => c = b
    BY <1>3, <1>4, <2>3, <2>4, <2>6 DEF Out, In, Running
  <2> QED
    BY <1>1, <2>7, <2>8, <2>9
<1> QED
  BY <1>7, <1>8

\* Every step keeps the processes joined.
LEMMA JoinedStep ==
  ASSUME Types, Marked, Placed, Numbered, EndsApart, WriteEndsClosed, Joined, Following,
         [Next]_vars
  PROVE  Joined'
<1>1. CASE Calm \/ Shuts \/ Begin \/ SetupLast \/ SetupPipe \/ ReturnsEarly \/ Restores
  <2>1. Fewer /\ pipes' \in Nat /\ pipes' >= pipes
    <3>1. CASE SetupPipe
      BY <3>1, PipeTypes, SameFewer DEF SetupPipe, Goes, children
    <3>2. pipes \in Nat
      BY DEF Types
    <3> QED
      BY <1>1, <3>1, <3>2, NarrowForms DEF Narrows
  <2> QED
    BY <1>1, <2>1, KeptStep, JoinedFewer
<1> QED
  BY <1>1, Forms, JoinedSubshell, JoinedFork

\* The new pipe of a command is nobody else's until the process is forked.
LEMMA NewPipeStep ==
  ASSUME Types, Marked, Placed, Fresh, NewPipe, [Next]_vars
  PROVE  NewPipe'
<1> SUFFICES ASSUME pc' = "start", ~IsLast'
             PROVE  \E n \in 1 .. pipes' :
                      /\ fd'["out"] = WriteEnd(n) /\ fd'["fdin"] = ReadEnd(n)
                      /\ fd'["in"] # ReadEnd(n) /\ fd'["tmpin"] # ReadEnd(n)
                      /\ \A c \in Pids' : procs'[c].state = "running" =>
                           procs'[c].fd["out"] # WriteEnd(n) /\ procs'[c].fd["in"] # ReadEnd(n)
  BY DEF NewPipe, Running, Out, In
<1>1. CASE Calm
  <2>1. UNCHANGED <<pc, i, table, fd, pipes>> /\ Fewer
    BY <1>1 DEF Calm, Wiring
  <2>2. PICK n \in 1 .. pipes :
          /\ fd["out"] = WriteEnd(n) /\ fd["fdin"] = ReadEnd(n)
          /\ fd["in"] # ReadEnd(n) /\ fd["tmpin"] # ReadEnd(n)
          /\ \A c \in Pids : Running(c) => Out(c) # WriteEnd(n) /\ In(c) # ReadEnd(n)
    BY <2>1 DEF NewPipe, IsLast, Commands
  <2>3. \A c \in Pids' : procs'[c].state = "running" =>
          procs'[c].fd["out"] # WriteEnd(n) /\ procs'[c].fd["in"] # ReadEnd(n)
    BY <2>1, <2>2 DEF Fewer, Running, Out, In
  <2> QED
    BY <2>1, <2>2, <2>3
<1>2. CASE SetupPipe
  <2> DEFINE p == pipes + 1
  <2>1. /\ fd'["out"] = WriteEnd(p) /\ fd'["fdin"] = ReadEnd(p)
        /\ fd'["in"] \in {fd["in"], fd["fdin"]} /\ fd'["tmpin"] = fd["tmpin"]
        /\ pipes' = p /\ p \in Pipes /\ p > pipes /\ p \in 1 .. pipes'
    BY <1>2, PipeTypes, InputType DEF Pipes
  <2>2. UNCHANGED procs
    BY <1>2 DEF SetupPipe, Goes, children
  <2>3. /\ \A c \in Pids : Out(c) # WriteEnd(p) /\ In(c) # ReadEnd(p)
        /\ \A d \in Descriptors : fd[d] # ReadEnd(p)
    BY <2>1, FreshFile
  <2>4. {"in", "fdin", "tmpin"} \subseteq Descriptors
    BY DEF Descriptors
  <2> HIDE DEF p
  <2> QED
    BY <2>1, <2>2, <2>3, <2>4 DEF Out, In, Pids
<1>3. CASE SetupLast
  BY <1>3 DEF SetupLast, IsLast, Commands, loop
<1>4. CASE Shuts \/ Subshell \/ Begin \/ ReturnsEarly \/ Fork \/ Restores
  BY <1>4 DEF Shuts, Subshell, Begin, ReturnsEarly, Fork, Restores, RestoreForeground,
     RestoreBackground, Goes
<1> QED
  BY <1>1, <1>2, <1>3, <1>4, Forms

\* The pipe of the last process becomes the input of the next one.
LEMMA FollowingStart ==
  ASSUME Types, Following, SetupLast \/ SetupPipe
  PROVE  Following'
<1>1. pc = "setup" /\ pc' = "start" /\ UNCHANGED <<i, procs, lines_read>>
      /\ pipes \in Nat /\ pipes' \in Nat /\ pipes' >= pipes
  BY PipeTypes DEF SetupLast, SetupPipe, Goes, children, loop, parser, Types
<1> SUFFICES ASSUME i > 1, NEW a \in Pids, Running(a), procs[a].line = lines_read,
                    procs[a].place = i - 1
             PROVE  \E n \in 1 .. pipes' :
                      /\ Out(a) = WriteEnd(n) /\ fd'["in"] = ReadEnd(n)
                      /\ \A c \in Pids : Running(c) =>
                           (Out(c) = WriteEnd(n) => c = a) /\ In(c) # ReadEnd(n)
                      /\ fd'["fdin"] # ReadEnd(n)
                      /\ fd'["tmpin"] # ReadEnd(n)
  BY <1>1 DEF Following, Running, Out, In, Pids
<1>2. PICK n \in 1 .. pipes :
        /\ Out(a) = WriteEnd(n) /\ fd["fdin"] = ReadEnd(n)
        /\ \A c \in Pids : Running(c) =>
             (Out(c) = WriteEnd(n) => c = a) /\ In(c) # ReadEnd(n)
        /\ fd["in"] # ReadEnd(n)
        /\ fd["tmpin"] # ReadEnd(n)
  BY <1>1 DEF Following
<1>3. n \in 1 .. pipes' /\ n \in Pipes /\ n # pipes + 1 /\ pipes + 1 \in Pipes
  BY <1>1 DEF Pipes
<1>4. fd'["in"] = fd["fdin"] /\ fd'["tmpin"] = fd["tmpin"]
      /\ fd'["fdin"] \in {CLOSED, ReadEnd(pipes + 1)}
  BY <1>1, LastTypes, PipeTypes, NextInput
<1>5. fd'["fdin"] # ReadEnd(n)
  BY <1>3, <1>4, Ends
<1> QED
  BY <1>2, <1>3, <1>4, <1>5

\* The new process is the one the next input belongs to.
LEMMA FollowingFork ==
  ASSUME Types, Placed, Numbered, NewPipe, Following, Fork
  PROVE  Following'
<1>1. /\ pc = "start" /\ pc' = (IF IsLast THEN "restore" ELSE "setup") /\ i' = i + 1
      /\ i \in Nat /\ fd' = fd /\ pipes' = pipes /\ lines_read' = lines_read
  BY DEF Fork, parser, descriptors, Types
<1>2. NewProcess.fd = fd
  BY DEF NewProcess
<1> DEFINE new == Len(procs) + 1
<1>3. /\ procs'[new] = NewProcess /\ new \in Pids'
      /\ \A c \in Pids' : c = new \/ (c \in Pids /\ procs'[c] = procs[c])
  BY ForkBorn DEF Born
<1> HIDE DEF new
<1>4. CASE IsLast
  BY <1>1, <1>4 DEF Following
<1>5. CASE ~IsLast
  <2>1. PICK n \in 1 .. pipes :
          /\ fd["out"] = WriteEnd(n) /\ fd["fdin"] = ReadEnd(n)
          /\ fd["in"] # ReadEnd(n) /\ fd["tmpin"] # ReadEnd(n)
          /\ \A c \in Pids : Running(c) => Out(c) # WriteEnd(n) /\ In(c) # ReadEnd(n)
    BY <1>1, <1>5 DEF NewPipe
  <2>2. ASSUME NEW a \in Pids', procs'[a].line = lines_read', procs'[a].place = i' - 1
        PROVE  a = new
    <3>1. ASSUME a \in Pids, procs'[a] = procs[a] PROVE FALSE
      <4>1. procs[a].place < i
        BY <1>1, <2>2, <3>1 DEF Numbered
      <4> QED
        BY <1>1, <2>2, <3>1, <4>1
    <3> QED
      BY <1>3, <3>1
  <2>3. /\ procs'[new].fd["out"] = WriteEnd(n)
        /\ \A c \in Pids' : procs'[c].state = "running" =>
             /\ procs'[c].fd["out"] = WriteEnd(n) => c = new
             /\ procs'[c].fd["in"] # ReadEnd(n)
    BY <1>2, <1>3, <2>1 DEF Running, Out, In
  <2> QED
    BY <1>1, <1>5, <2>1, <2>2, <2>3 DEF Following, Running, Out, In
<1> QED
  BY <1>4, <1>5

\* Every step keeps the pipe for the next process.
LEMMA FollowingStep ==
  ASSUME Types, Marked, Placed, Numbered, NewPipe, Following, [Next]_vars
  PROVE  Following'
<1>1. CASE Calm
  <2>1. CASE pc' \in {"setup", "start"}
    <3>1. UNCHANGED <<pc, i, lines_read, fd, pipes>> /\ Fewer
      BY <1>1, <2>1 DEF Calm, Wiring
    <3>2. Pids' = Pids /\ \A c \in Pids : procs'[c].state = "running" => procs'[c] = procs[c]
      BY <3>1 DEF Fewer
    <3> QED
      BY <3>1, <3>2 DEF Following, Running, Out, In
  <2> QED
    BY <2>1 DEF Following
<1>2. CASE Begin
  BY <1>2 DEF Begin, Following
<1>3. CASE Shuts \/ Subshell \/ ReturnsEarly \/ Restores
  BY <1>3 DEF Shuts, Subshell, ReturnsEarly, Restores, RestoreForeground,
     RestoreBackground, Goes, Following
<1> QED
  BY <1>1, <1>2, <1>3, Forms, FollowingStart, FollowingFork

(***************************************************************************)
(* The theorems                                                            *)
(***************************************************************************)

\* What does not depend on the names open() refuses holds initially.
LEMMA BaseInit == Init => Base
BY InitTypes, InitRest, InitPipes DEF Base

\* It is kept by every step.
LEMMA BaseStep == Base /\ [Next]_vars => Base'
BY TypesStep, MarkedStep, PlacedStep, ParsedStep, WiredStep, FreshStep, NumberedStep DEF Base

\* The terminal is the first output.
LEMMA OutputInit == Init => Output
BY DEF Init, Output, Wiring, EmptyTable, Defaults, Descriptors, TERMINAL, CLOSED

\* The invariant holds initially.
LEMMA InvInit == Init => Inv
BY BaseInit, OutputInit, InitPipes DEF Inv

\* It is kept by every step if no output is refused.
LEMMA InvStep == OutputsOpen => (Inv /\ [Next]_vars => Inv')
<1> SUFFICES ASSUME OutputsOpen, Inv, [Next]_vars PROVE Inv'
  OBVIOUS
<1>1. /\ Types /\ Marked /\ Placed /\ Fresh /\ Numbered
      /\ Output /\ EndsApart /\ WriteEndsClosed /\ Joined /\ Following /\ NewPipe
  BY DEF Inv, Base
<1>2. Base'
  BY BaseStep DEF Inv
<1>3. Types'
  BY <1>2 DEF Base
<1>4. Output' /\ EndsApart'
  BY <1>1, OutputStep, ApartStep
<1>5. WriteEndsClosed'
  BY <1>1, <1>3, WritersStep
<1>6. Joined' /\ Following' /\ NewPipe'
  BY <1>1, JoinedStep, FollowingStep, NewPipeStep
<1> QED
  BY <1>2, <1>4, <1>5, <1>6 DEF Inv

\* Types, the places in the line, the command table, the terminal's descriptors
\* and the order of the processes (command.c:132-459, shell.y:63-172).
THEOREM BaseInvariant == Spec => []Base
BY BaseInit, BaseStep, PTL DEF Spec, ShellSpec

\* If open() refuses no output, also who holds which end of which pipe
\* (command.c:236-403).
THEOREM WholeInvariant == OutputsOpen => (Spec => []Inv)
<1> SUFFICES ASSUME OutputsOpen PROVE Spec => []Inv
  OBVIOUS
<1>1. Inv /\ [Next]_vars => Inv'
  BY InvStep
<1> QED
  BY <1>1, InvInit, PTL DEF Spec, ShellSpec

\* Every variable keeps its type, command_execute stays within the table and
\* waits for a process it forked (command.c:236-403).
THEOREM TypeCorrect == Spec => []TypeOK
<1>1. Base => TypeOK
  <2> SUFFICES ASSUME Base PROVE TypeOK
    OBVIOUS
  <2>1. Types /\ Placed
    BY DEF Base
  <2>2. table.commands \in Seq({"ends", "filter", "builtin", "exit"})
    BY <2>1, TableFields DEF Commands, Kinds
  <2>3. {table.is_background, is_cleared, sigchld, disturbed, early} \subseteq BOOLEAN
    BY <2>1, TableFields DEF Types
  <2>4. \A p \in Pids :
          /\ procs[p].program \in {"ends", "filter"}
          /\ procs[p].state \in {"running", "zombie", "reaped"}
          /\ DOMAIN procs[p].fd = Descriptors
    BY <2>1, ProcessFields
  <2>5. /\ line = NONE \/ (line \in Lines /\ inserted \in 0 .. Len(line.commands))
        /\ pc \in {"read", "expand", "output", "insert", "mark", "modify", "begin", "setup",
                   "start", "restore", "wait", "exited"}
        /\ DOMAIN fd = Descriptors
        /\ handler \in {"none", "wait", "poll"}
        /\ Len(procs) <= MaxProcesses
    BY <2>1 DEF Types
  <2>6. /\ pc \in {"setup", "start"} => i \in DOMAIN Commands
        /\ pc \in {"restore", "wait"} => ret \in Pids
    BY <2>1 DEF Placed
  <2> QED
    BY <2>2, <2>3, <2>4, <2>5, <2>6 DEF TypeOK
<1> QED
  BY <1>1, BaseInvariant, PTL

\* A line executes as it was typed, with nothing left of the lines before it
\* (command.c:132-156, shell.y:63-172).
THEOREM LinesExecute == Spec => []LineExecuted
<1>1. Base => LineExecuted
  BY DEF Base, TableParsed, LineExecuted
<1> QED
  BY <1>1, BaseInvariant, PTL

\* While command_execute runs only command_clear changes the command table,
\* whenever control-C is typed (command.c:435-442).
THEOREM TableIsKept == Spec => TableKept
<1>1. ASSUME Base, Next, Executing
      PROVE  table' = table \/ pc' \in {"read", "exited"}
  <2>1. CASE Parser
    BY <1>1, <2>1 DEF Parser, Subshell, SubshellFails, SubshellOutput, Exits,
       InsertCommand, MarkCommand, ParseLine, ParseError, Goes, Executing
  <2>2. CASE CommandExecute
    BY <1>1, <2>2 DEF CommandExecute, NothingToDo, Exit, Begin, SetupLast,
       SetupPipe, PipeFails, Builtin, Fork, ForkFails, RestoreForeground,
       RestoreBackground, WaitReturns, ReturnsEarly, Exits, Goes
  <2>3. CASE Handler \/ (\E p \in Pids : Terminate(p)) \/ Ended
    BY <1>1, <2>3, HandlerRests, StillRests DEF Resting, Base
  <2>4. CASE User
    BY <1>1, <2>4 DEF User, ReadLine, BlankLine, EndOfInput, ControlC, MayClear,
       Exits, Goes, Base, Marked, Executing
  <2> QED
    BY <1>1, <2>1, <2>2, <2>3, <2>4 DEF Next, ShellGoesOn
<1>2. Base /\ [Next]_vars =>
        [Executing => table' = table \/ pc' \in {"read", "exited"}]_vars
  BY <1>1
<1> QED
  BY <1>2, BaseInit, BaseStep, PTL DEF Spec, ShellSpec, TableKept

\* At every prompt the shell has the terminal and nothing else open but read ends
\* of its subshells' pipes, as long as command_execute has not returned early
\* (command.c:236-403).
THEOREM DescriptorsRestored == Spec => []DefaultsRestored
<1>1. Base => DefaultsRestored
  BY DEF Base, Wired, DefaultsRestored
<1> QED
  BY <1>1, BaseInvariant, PTL

\* Of a pipe that a process reads nobody has the write end but the process before
\* it, so its end comes (command.c:283-353).
THEOREM PipesEnd == OutputsOpen => (Spec => []WriteEndsClosed)
<1>1. Inv => WriteEndsClosed
  BY DEF Inv
<1> QED
  BY <1>1, WholeInvariant, PTL

\* Processes next to each other in a line are joined by a pipe of their own, for
\* as long as they run (command.c:283-353).
THEOREM PipelinesAreJoined == OutputsOpen => (Spec => []PipelineJoined)
<1>1. Inv => PipelineJoined
  <2> SUFFICES ASSUME Joined PROVE PipelineJoined
    BY DEF Inv
  <2> SUFFICES ASSUME NEW a \in Pids, NEW b \in Pids, Adjacent(a, b)
               PROVE  \E p \in 1 .. pipes :
                        /\ procs[a].fd["out"] = WriteEnd(p)
                        /\ procs[b].fd["in"] = ReadEnd(p)
                        /\ \A c \in Pids : Running(c) =>
                             /\ procs[c].fd["out"] = WriteEnd(p) => c = a
                             /\ procs[c].fd["in"] = ReadEnd(p) => c = b
    BY DEF PipelineJoined, Adjacent
  <2> QED
    BY DEF Joined, Out, In
<1> QED
  BY <1>1, WholeInvariant, PTL

=============================================================================
