----------------------------- MODULE Wildcards -----------------------------
(***************************************************************************)
(* How src/lab3-src/shell.y turns the words of a simple command into its   *)
(* arguments: tilde, environment and wildcard expansion, and the array of  *)
(* arguments of command.c.  The matches of a wildcard are collected in the *)
(* global dir_array, which is sorted, inserted and freed when it holds     *)
(* more than one, and otherwise stays as it is for the next wildcard.      *)
(*                                                                         *)
(* A path is a sequence of names, a name a number that orders it like      *)
(* strcmp() does; a component of a pattern is given by the names its       *)
(* regular expression matches.  A component before a '/' is copied without *)
(* its end, so it is read with whatever the buffer on the stack held: any  *)
(* of Stale that goes on as it begins.  Left out: such bytes that have a   *)
(* '/' or fill the buffer, components typed that are no valid regular      *)
(* expression, a '$' that starts no ${name}, and the name '_'.             *)
(*                                                                         *)
(* An operator called Bug... is a plausible mistake in the one after it;   *)
(* the specification never uses it.                                        *)
(***************************************************************************)
EXTENDS Integers, Sequences, FiniteSets, SequencesExt

CONSTANTS Dirs,              \* path of a directory -> the names in it
          Hidden,            \* the names that begin with a dot
          Stale,             \* what a component without its end may be read as
          Environment,       \* variable -> its value, a sequence of atoms
          Words,             \* words that may be typed
          Lines,             \* lines to parse: sequences of simple commands
          InitialEntries,    \* max_entries at the start (20)
          InitialArguments   \* INITIAL_ARUMENT_ARR_SIZE (5)

ASSUME WildcardsAssumption ==
    /\ InitialEntries \in Nat \ {0} /\ InitialArguments \in Nat \ {0, 1}

Paths == Seq(Int)
Components == [wild : BOOLEAN, names : SUBSET Int, dotted : BOOLEAN]
Patterns == Seq(Components)

\* Names are numbers, paths and patterns are sequences, and so are commands.
ASSUME NamesAssumption ==
    /\ DOMAIN Dirs \subseteq Paths /\ \A d \in DOMAIN Dirs : Dirs[d] \subseteq Int
    /\ Stale \subseteq Components
    /\ \A w \in Words : w.root \in Paths /\ w.components \in Patterns
    /\ Lines \subseteq Seq(Seq(Words))

VARIABLES todo,          \* simple commands, each a sequence of words, still to parse
          arguments,     \* current_simple_command->arguments
          available,     \* num_available_arguments
          place,         \* "word", "expand", "insert" or "crashed"
          word,          \* arg, the word being expanded
          stack,         \* the calls of expand_wildcards in progress
          dir_array, max_entries,
          room,          \* how many entries dir_array has space for; 0 for NULL
          before         \* what dir_array and arguments were when the word came

vars == <<todo, arguments, available, place, word, stack, dir_array, max_entries, room, before>>

-----------------------------------------------------------------------------
\* Words: one with wildcards has components, any other a list of parts.
IsWild(w) == w.components # <<>>
Wild(names, dotted) == [wild |-> TRUE, names |-> names, dotted |-> dotted]
Plain(name) == [wild |-> FALSE, names |-> {name}, dotted |-> FALSE]

NoWord == [kind |-> "plain", parts |-> <<>>, components |-> <<>>, root |-> <<>>]
Path(p) == [is |-> "path", value |-> p]
Raw(w)  == [is |-> "raw", value |-> w]
Text(v) == [is |-> "text", value |-> v]

\* The comparison of compare_file.
Before(p, q) ==
    \/ IsStrictPrefix(p, q)
    \/ \E i \in DOMAIN p \cap DOMAIN q :
          p[i] < q[i] /\ \A j \in 1..(i - 1) : p[j] = q[j]

\* Type correctness: calls are in progress only while a word is expanded, and
\* the insertion is never past the last entry.
TypeOK ==
    /\ place \in {"word", "expand", "insert", "crashed"}
    /\ available \in Nat /\ max_entries \in Nat /\ room \in Nat
    /\ place # "expand" => stack = <<>>
    /\ \A i \in DOMAIN stack : stack[i].at \in {"call", "read"}
    /\ place = "insert" => Len(arguments) - before.count \in 0..(Len(dir_array) - 1)

Init ==
    /\ todo \in Lines
    /\ arguments = <<>> /\ available = InitialArguments
    /\ place = "word" /\ word = NoWord /\ stack = <<>>
    /\ dir_array = <<>> /\ max_entries = InitialEntries /\ room = 0
    /\ before = [entries |-> <<>>, count |-> 0]

BugNoPlaceForNull == available = Len(arguments)
MustGrow == available = Len(arguments) + 1

\* simple_command_insert_argument: the array is doubled when the NULL after the
\* last argument has no place left.
Insert(argument) ==
    /\ available' = IF MustGrow THEN 2 * available ELSE available
    /\ arguments' = Append(arguments, argument)

\* tilde_expansion: "~" is the home of the user, "~name" is /homes/name; either
\* is copied over the word, into memory made for the word.
TildeExpansion(w) == IF w.parts = <<>> THEN <<"home">> ELSE <<"/homes/">> \o w.parts

\* environment_expansion: literal parts are copied, ${name} is replaced by its
\* value.  The pid and the status kept in current_command are cleared with every
\* command, and so are 0 whenever a word is expanded.
Value(name) ==
    CASE name \in {"SHELL", "SH"} -> <<"cwd", "/shell">>
      [] name \in {"!", "?"} -> <<"0">>
      [] name = "$" -> <<"pid">>
      [] OTHER -> Environment[name]
EnvironmentExpansion(w) ==
    FlattenSeq([i \in DOMAIN w.parts |->
        IF w.parts[i].variable THEN Value(w.parts[i].name) ELSE <<w.parts[i].name>>])
Unset(w) ==
    \E i \in DOMAIN w.parts :
        w.parts[i].variable /\ w.parts[i].name \notin DOMAIN Environment \cup {"SHELL", "SH", "!", "?", "$"}

-----------------------------------------------------------------------------
\* command_word: a new simple command; its first word is taken as it is.
NewCommand ==
    /\ place = "word" /\ todo # <<>> /\ Len(todo[1]) > 0 /\ arguments = <<>>
    /\ Insert(Raw(Head(todo[1])))
    /\ todo' = [todo EXCEPT ![1] = Tail(@)]
    /\ UNCHANGED <<place, word, stack, dir_array, max_entries, room, before>>

\* simple_command_create for the next one.
EndCommand ==
    /\ place = "word" /\ todo # <<>> /\ todo[1] = <<>>
    /\ todo' = Tail(todo) /\ arguments' = <<>> /\ available' = InitialArguments
    /\ word' = NoWord
    /\ UNCHANGED <<place, stack, dir_array, max_entries, room, before>>

NextWord ==
    /\ place = "word" /\ todo # <<>> /\ Len(todo[1]) > 0 /\ arguments # <<>>
    /\ todo' = [todo EXCEPT ![1] = Tail(@)]
    /\ word' = Head(todo[1])
    /\ before' = [entries |-> dir_array, count |-> Len(arguments)]

\* insert_arguments with a word that has no wildcard.  An unset variable is a
\* NULL that is copied; a path longer than the word may not fit over it.
InsertWord ==
    /\ NextWord /\ ~IsWild(word')
    /\ \/ /\ word'.kind = "plain" /\ Insert(Raw(word')) /\ UNCHANGED place
       \/ /\ word'.kind = "tilde" /\ Insert(Text(TildeExpansion(word'))) /\ UNCHANGED place
       \/ /\ word'.kind = "variable" /\ ~Unset(word')
          /\ Insert(Text(EnvironmentExpansion(word'))) /\ UNCHANGED place
       \/ /\ word'.kind = "tilde" \/ (word'.kind = "variable" /\ Unset(word'))
          /\ place' = "crashed" /\ UNCHANGED <<arguments, available>>
    /\ UNCHANGED <<stack, dir_array, max_entries, room>>

\* expand_wildcards("", arg): an absolute pattern goes on below the root at once.
Unread == [wild |-> FALSE, names |-> {}, dotted |-> FALSE]
Call(prefix, suffix) ==
    [prefix |-> prefix, suffix |-> suffix, component |-> Unread, at |-> "call", left |-> {}]
ExpandWord ==
    /\ NextWord /\ IsWild(word')
    /\ place' = "expand"
    /\ stack' = <<Call(word'.root, word'.components)>>
    /\ UNCHANGED <<arguments, available, dir_array, max_entries, room>>

-----------------------------------------------------------------------------
(* expand_wildcards                                                        *)

Top == stack[Len(stack)]
Component == Head(Top.suffix)
Suffix == Tail(Top.suffix)
Return == stack' = Front(stack)
Becomes(frame) == stack' = [stack EXCEPT ![Len(stack)] = frame]

\* strncpy copies no NUL: what follows in the buffer is read too.  It can add
\* wildcards and change what is matched, but neither take wildcards away nor
\* change the first character of a pattern.
AsRead(component) ==
    {component} \cup {x \in Stale : component.wild => x.wild /\ x.dotted = component.dotted}
Copied == IF Suffix = <<>> THEN {Component} ELSE AsRead(Component)

\* The beginning of a call.  An empty suffix adds nothing, whatever the prefix
\* is; a component without wildcards joins the prefix; one with them needs a
\* directory that opens, and a regular expression that compiles, which only a
\* component read too far may not be.
Enter ==
    /\ place = "expand" /\ stack # <<>> /\ Top.at = "call"
    /\ \/ Top.suffix = <<>> /\ Return /\ UNCHANGED room
       \/ Top.suffix # <<>> /\ Suffix # <<>> /\ Return /\ UNCHANGED room
       \/ /\ Top.suffix # <<>> /\ UNCHANGED room
          /\ \E component \in Copied : \E name \in component.names :
                ~component.wild /\ Becomes(Call(Append(Top.prefix, name), Suffix))
       \/ /\ Top.suffix # <<>> /\ Top.prefix \notin DOMAIN Dirs
          /\ \E component \in Copied : component.wild
          /\ Return /\ UNCHANGED room
       \/ /\ Top.suffix # <<>> /\ Top.prefix \in DOMAIN Dirs
          /\ \E component \in Copied :
                /\ component.wild
                /\ Becomes([Top EXCEPT !.at = "read", !.left = Dirs[Top.prefix],
                                       !.component = component])
          /\ room' = IF room = 0 THEN max_entries ELSE room
    /\ UNCHANGED <<todo, arguments, available, place, word, dir_array, max_entries, before>>

BugShowsHidden(name) == name \in Top.component.names

\* A component that begins with a dot is needed to match a name that does.
Visible(name) == name \in Top.component.names /\ (name \notin Hidden \/ Top.component.dotted)

\* One entry, in any order: a name that matches, and does not begin with a dot
\* unless the component does, is expanded further or is an entry itself.
Read(name) ==
    /\ place = "expand" /\ stack # <<>> /\ Top.at = "read" /\ name \in Top.left
    /\ LET taken == name \in Top.component.names
           kept  == Visible(name)
           rest  == [Top EXCEPT !.left = @ \ {name}]
           path  == Append(Top.prefix, name)
       IN  /\ IF taken /\ Len(dir_array) = max_entries
              THEN max_entries' = 2 * max_entries /\ room' = 2 * max_entries
              ELSE UNCHANGED <<max_entries, room>>
           /\ IF kept /\ Suffix = <<>> THEN dir_array' = Append(dir_array, path)
              ELSE UNCHANGED dir_array
           /\ IF kept /\ Suffix # <<>>
              THEN stack' = Append(Front(stack), rest) \o <<Call(path, Suffix)>>
              ELSE Becomes(rest)
    /\ UNCHANGED <<todo, arguments, available, place, word, before>>

CloseDir ==
    /\ place = "expand" /\ stack # <<>> /\ Top.at = "read" /\ Top.left = {} /\ Return
    /\ UNCHANGED <<todo, arguments, available, place, word, dir_array, max_entries, room, before>>

\* qsort by compare_file: an entry comes after those before it, and after the
\* earlier of those equal to it.
InOrder(entries) ==
    LET earlier(i) == {j \in DOMAIN entries :
                          \/ Before(entries[j], entries[i])
                          \/ entries[j] = entries[i] /\ j < i}
    IN  [k \in 1..Len(entries) |->
            entries[CHOOSE i \in DOMAIN entries : Cardinality(earlier(i)) = k - 1]]

\* Back in insert_arguments: more than one entry is sorted to be inserted; with
\* fewer the word goes in as it is and the array stays.
Expanded ==
    /\ place = "expand" /\ stack = <<>>
    /\ IF Len(dir_array) > 1
       THEN /\ place' = "insert" /\ dir_array' = InOrder(dir_array)
            /\ UNCHANGED <<arguments, available>>
       ELSE /\ place' = "word" /\ Insert(Raw(word))
            /\ UNCHANGED dir_array
    /\ UNCHANGED <<todo, word, stack, max_entries, room, before>>

BugInsertsOneMore(i) == i = Len(dir_array) + 1
LastEntry(i) == i = Len(dir_array)

\* The entries one after the other, then free(dir_array).
InsertEntry ==
    /\ place = "insert"
    /\ LET i == Len(arguments) - before.count + 1
       IN  /\ Insert(Path(dir_array[i]))
           /\ IF LastEntry(i)
              THEN place' = "word" /\ dir_array' = <<>> /\ room' = 0
              ELSE UNCHANGED <<place, dir_array, room>>
    /\ UNCHANGED <<todo, word, stack, max_entries, before>>

Next ==
    \/ NewCommand \/ EndCommand \/ InsertWord \/ ExpandWord
    \/ Enter \/ CloseDir \/ Expanded \/ InsertEntry
    \/ \E name \in UNION {Dirs[d] : d \in DOMAIN Dirs} : Read(name)

Spec == Init /\ [][Next]_vars

-----------------------------------------------------------------------------
(* Properties                                                              *)

\* Neither array is ever written past its end: there is room for every entry,
\* and for the NULL after the last argument.
ArraysFit ==
    /\ Len(dir_array) <= room
    /\ Len(arguments) < available

\* What a pattern shows of a directory.
Shown(component, dir) ==
    {name \in Dirs[dir] : name \in component.names /\ (name \in Hidden => component.dotted)}

\* What a wildcard word stands for as far as its last component says: below a
\* directory as deep as the others lead from the root, the names it matches.
\* Which directory the others lead to depends on how they are read.
Matches(w) ==
    LET n == Len(w.components)
        last == w.components[n]
        dirs == {d \in DOMAIN Dirs : /\ Len(d) = Len(w.root) + n - 1
                                     /\ \A i \in 1..Len(w.root) : d[i] = w.root[i]}
    IN  IF last.wild THEN {Append(p[1], p[2]) : p \in
                              {q \in dirs \X last.names : q[2] \in Shown(last, q[1])}}
                     ELSE {}

Added == SubSeq(arguments, before.count + 1, Len(arguments))
Copies(x, s) == Cardinality({i \in DOMAIN s : s[i] = x})

\* What a wildcard word inserts is itself or, in ascending order, names its last
\* component matches in directories that are there, and what an earlier word left
\* in the array.  With one component, which has its end, these are exactly the
\* matches below the root, each once; with more, names are in it once at most.
\* What was left stays as it was.
WordsExpanded ==
    place = "word" /\ IsWild(word) =>
        LET matches == Matches(word)
            left == before.entries
            single == Len(word.components) = 1
        IN  \/ /\ Added = <<Raw(word)>>
               /\ single => Len(left) + Cardinality(matches) <= 1
            \/ /\ Len(Added) > 1
               /\ \A i, j \in DOMAIN Added : i < j => ~Before(Added[j].value, Added[i].value)
               /\ \A i \in DOMAIN Added : Added[i] \in {Path(p) : p \in matches \cup ToSet(left)}
               /\ \A p \in matches \cup ToSet(left) :
                     Copies(Path(p), Added) - Copies(p, left)
                        \in IF p \notin matches THEN {0} ELSE IF single THEN {1} ELSE {0, 1}
=============================================================================
