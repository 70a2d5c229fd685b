------------------------------ MODULE ReadLine ------------------------------
(***************************************************************************)
(* The line editor of src/lab3-src/read-line.c: a line is kept in a buffer *)
(* of fixed size and shown on a terminal in raw mode, and each key changes *)
(* both.  The buffer is not cleared between lines.  A character that read  *)
(* fails to deliver is a repetition of an earlier one.                     *)
(*                                                                         *)
(* An operator called Bug... is a plausible mistake in the one after it;   *)
(* the specification never uses it.                                        *)
(*                                                                         *)
(* Backspace on an empty line makes line_length negative, and what follows *)
(* is written before the buffer: the model keeps such writes out of the    *)
(* buffer, and what it says is for the time before.                        *)
(***************************************************************************)
EXTENDS Integers, Sequences

CONSTANTS Chars,          \* printable characters
          NEWLINE, NUL,   \* the two characters that end a line
          MaxBufferLine,  \* MAX_BUFFER_LINE (2048)
          History,        \* history: a sequence of lines
          Prompt,         \* PROMPT, as shown
          MaxBelow        \* how far line_length may go below 0 (a bound of the model)

ASSUME ReadLineAssumption ==
    /\ MaxBufferLine \in Nat /\ MaxBufferLine >= 3 /\ MaxBelow \in Nat
    /\ NEWLINE \notin Chars /\ NUL \notin Chars \cup {NEWLINE}
    /\ History \in Seq(Seq(Chars)) /\ History # <<>>
    /\ \A i \in DOMAIN History : Len(History[i]) <= MaxBufferLine - 2
    /\ Prompt \in Seq(Chars)

VARIABLES line_length, line_buffer, history_index,
          place,      \* "prompt" in main, "editing" in read_line
          screen,     \* the terminal's line, the cursor at its end
          below,      \* backspace was typed on an empty line
          result      \* the line read last: how it ended, what was shown, what is returned

vars == <<line_length, line_buffer, history_index, place, screen, below, result>>

Cells == 0..(MaxBufferLine - 1)
Texts == Seq(Chars \cup {NEWLINE})

\* Type correctness.  As long as backspace was never typed on an empty line, the
\* newline and the NUL of the line being edited have their places in the buffer,
\* and so has everything written to it.
TypeOK ==
    /\ line_length \in Int /\ line_length <= MaxBufferLine - 1
    /\ place = "editing" => line_length <= MaxBufferLine - 2
    /\ ~below => line_length >= 0
    /\ line_buffer \in [Cells -> Chars \cup {NEWLINE, NUL}]
    /\ history_index \in 0..(Len(History) - 1)
    /\ place \in {"prompt", "editing"}
    /\ screen \in Seq(Chars)
    /\ below \in BOOLEAN
    /\ result.end \in {"none", "enter", "full", "usage"}

Init ==
    /\ line_length = 0 /\ line_buffer = [i \in Cells |-> NUL] /\ history_index = 0
    /\ place = "prompt" /\ screen = <<>> /\ below = FALSE
    /\ result = [end |-> "none", shown |-> <<>>, line |-> <<>>]

-----------------------------------------------------------------------------
Store(buffer, i, ch) == IF i \in Cells THEN [buffer EXCEPT ![i] = ch] ELSE buffer

\* A C string: the buffer up to its first NUL.
String(buffer) ==
    LET n == CHOOSE i \in Cells :
                buffer[i] = NUL /\ \A j \in Cells : j < i => buffer[j] # NUL
    IN  [k \in 1..n |-> buffer[k - 1]]

BugErased(n) == SubSeq(screen, 1, IF n >= Len(screen) THEN 0 ELSE Len(screen) - n - 1)

\* "\b \b": the last character leaves the screen, be it one of the prompt's; at
\* the margin nothing does.
Erased(n) == SubSeq(screen, 1, IF n > Len(screen) THEN 0 ELSE Len(screen) - n)

BugFull == line_length = MaxBufferLine - 1
Full == line_length = MaxBufferLine - 2

\* main() shows the prompt, read_line() starts an empty line.
StartLine ==
    /\ place = "prompt"
    /\ place' = "editing" /\ screen' = Prompt /\ line_length' = 0
    /\ UNCHANGED <<line_buffer, history_index, below, result>>

\* After the loop: newline and NUL are added, and main() prints the line.
Returns(end, buffer, shown) ==
    /\ line_buffer' = Store(Store(buffer, line_length, NEWLINE), line_length + 1, NUL)
    /\ line_length' = line_length + 1
    /\ place' = "prompt" /\ screen' = <<>>
    /\ result' = [end |-> end, shown |-> shown, line |-> String(line_buffer')]
    /\ UNCHANGED <<history_index, below>>

\* A printable character: it is echoed, and then kept or, when the buffer is
\* full, the end of the line.
Type(ch) ==
    /\ place = "editing"
    /\ IF Full
       THEN Returns("full", line_buffer, Append(screen, ch))
       ELSE /\ screen' = Append(screen, ch)
            /\ line_buffer' = Store(line_buffer, line_length, ch)
            /\ line_length' = line_length + 1
            /\ UNCHANGED <<history_index, place, below, result>>

Enter ==
    /\ place = "editing"
    /\ Returns("enter", line_buffer, screen)

\* ctrl-?: the usage is shown and the line ends, its beginning overwritten.
Usage ==
    /\ place = "editing"
    /\ Returns("usage", Store(line_buffer, 0, NUL), screen)

Backspace ==
    /\ place = "editing" /\ line_length > -MaxBelow
    /\ screen' = Erased(1)
    /\ line_length' = line_length - 1
    /\ below' = (below \/ line_length <= 0)
    /\ UNCHANGED <<line_buffer, history_index, place, result>>

\* The up arrow: the line is erased, the next line of the history copied over it
\* with its NUL, and shown.  Any other escape sequence changes nothing.
UpArrow ==
    /\ place = "editing"
    /\ LET line == History[history_index + 1]
       IN  /\ line_buffer' = [i \in Cells |-> IF i < Len(line) THEN line[i + 1]
                                              ELSE IF i = Len(line) THEN NUL ELSE line_buffer[i]]
           /\ line_length' = Len(line)
           /\ screen' = Erased(IF line_length < 0 THEN 0 ELSE line_length) \o line
    /\ history_index' = (history_index + 1) % Len(History)
    /\ UNCHANGED <<place, below, result>>

Next ==
    \/ StartLine \/ Enter \/ Usage \/ Backspace \/ UpArrow
    \/ \E ch \in Chars : Type(ch)

Spec == Init /\ [][Next]_vars

-----------------------------------------------------------------------------
(* Properties                                                              *)

\* As long as backspace was never typed on an empty line, the screen shows the
\* prompt and then exactly what is in the buffer; a line ended with Enter is
\* returned as it was shown, one that did not fit without the character that
\* was shown last, and one ended by the usage is returned empty.
LineOnScreen ==
    ~below =>
        /\ place = "editing" =>
               screen = Prompt \o [i \in 1..line_length |-> line_buffer[i - 1]]
        /\ result.end = "enter" =>
               Prompt \o result.line = Append(result.shown, NEWLINE)
        /\ result.end = "full" =>
               Prompt \o result.line = [result.shown EXCEPT ![Len(result.shown)] = NEWLINE]
        /\ result.end = "usage" => result.line \in {<<>>, <<NEWLINE>>}

=============================================================================
