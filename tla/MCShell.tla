------------------------------ MODULE MCShell ------------------------------
(***************************************************************************)
(* Shell with a handful of lines, one of each kind.                        *)
(***************************************************************************)
EXTENDS Shell

Line(commands, in_file, out_file, is_background, ok) ==
  [commands |-> commands, in_file |-> in_file, out_file |-> out_file,
   err_file |-> out_file, is_background |-> is_background, ok |-> ok,
   subshell |-> FALSE]

TypedLines ==
  {Line(<<"ends">>, NONE, NONE, FALSE, TRUE),
   Line(<<"ends", "filter">>, "missing", "log", FALSE, TRUE),
   Line(<<"filter", "filter">>, "data", NONE, TRUE, TRUE),
   Line(<<"ends", "builtin">>, NONE, "log", FALSE, TRUE),
   Line(<<"filter", "exit">>, NONE, NONE, FALSE, TRUE),
   Line(<<"exit">>, NONE, NONE, FALSE, TRUE),
   Line(<<"ends">>, "data", NONE, FALSE, FALSE),
   [Line(<<"ends">>, NONE, NONE, FALSE, TRUE) EXCEPT !.subshell = TRUE]}

\* A process of the line that is executing runs, and the line is not one to run
\* in the background.
ForegroundRuns ==
  /\ pc # "read"
  /\ ~table.is_background
  /\ \E p \in Pids : Running(p) /\ procs[p].line = lines_read

\* README:7, "Background": a command in the background does not hold up the
\* shell.  Whatever it does, the shell comes back to the prompt when nothing of
\* the line in the foreground runs any more.
PromptDespiteBackground ==
  []<>(ForegroundRuns \/ (pc \in {"read", "exited"} /\ handler = "none"))

=============================================================================
