------------------------- MODULE WildcardsInvariant -------------------------
(***************************************************************************)
(* The inductive invariant of the expansion of words: the space of the     *)
(* arrays, and how far the calls of expand_wildcards have come.            *)
(*                                                                         *)
(* What is said of calls and entries is said of a word w, a stack s, an    *)
(* array d of entries and the entries b that were in it when w came, so    *)
(* that it can be said of them before and after a step.                    *)
(***************************************************************************)
EXTENDS Wildcards

(***************************************************************************)
(* Space                                                                   *)
(***************************************************************************)

IsSeq(s) == Len(s) \in Nat /\ s = [i \in 1..Len(s) |-> s[i]]
IsFrame(f) ==
  /\ f = [prefix |-> f.prefix, suffix |-> f.suffix, component |-> f.component,
          at |-> f.at, left |-> f.left]
  /\ f.at \in {"call", "read"}

\* dir_array has the space max_entries says, or none at all; a call reads a
\* directory only when the array is there; until the entries are inserted the
\* arguments are as many as when the word came.
Inv ==
  /\ place \in {"word", "expand", "insert", "crashed"}
  /\ IsSeq(dir_array) /\ IsSeq(arguments) /\ IsSeq(stack)
  /\ available \in Nat /\ max_entries \in Nat \ {0} /\ before.count \in Nat
  /\ room \in {0, max_entries}
  /\ Len(dir_array) <= room
  /\ Len(arguments) < available
  /\ \A i \in DOMAIN stack : IsFrame(stack[i]) /\ (stack[i].at = "read" => room # 0)
  /\ place # "expand" => stack = <<>>
  /\ place = "expand" => Len(arguments) = before.count
  /\ place = "insert" => Len(arguments) - before.count \in 0..(Len(dir_array) - 1)

(***************************************************************************)
(* What a wildcard inserts                                                 *)
(***************************************************************************)

Types ==
  /\ todo \in Seq(Seq(Words)) /\ word \in Words \cup {NoWord}
  /\ dir_array \in Seq(Paths) /\ before.entries \in Seq(Paths)

\* Below a directory, and by a name of it that has been read.
Under(path, dir) == Len(path) > Len(dir) /\ \A i \in 1..Len(dir) : path[i] = dir[i]
Passed(path, f) == f.at = "read" /\ path[Len(f.prefix) + 1] \notin f.left

\* A call has come from the word's root to its prefix along as many components
\* as it has not got in its suffix, however they were read.  The last component
\* is read as it is.
Depth(w, f) == Len(f.prefix) - Len(w.root)
OnTheWay(w, f) ==
  /\ f.prefix \in Paths /\ Depth(w, f) \in 0..Len(w.components)
  /\ \A i \in 1..Len(w.root) : f.prefix[i] = w.root[i]
  /\ f.suffix = SubSeq(w.components, Depth(w, f) + 1, Len(w.components))
  /\ f.at = "read" =>
       /\ Depth(w, f) < Len(w.components) /\ f.component.wild
       /\ Depth(w, f) + 1 = Len(w.components) =>
            f.component = w.components[Len(w.components)]
       /\ f.prefix \in DOMAIN Dirs /\ f.left \subseteq Dirs[f.prefix]

\* Each call was made for a name that the one below has read.
Nested(s) ==
  \A i, j \in DOMAIN s : i < j => Under(s[j].prefix, s[i].prefix) /\ Passed(s[j].prefix, s[i])

\* The entries are those that were there before and then matches, each once.
Entered(d, b) == (Len(b) + 1)..Len(d)
Collected(w, d, b) ==
  /\ Len(b) <= Len(d) /\ \A i \in 1..Len(b) : d[i] = b[i]
  /\ \A j \in Entered(d, b) : d[j] \in Matches(w)
  /\ \A i, j \in Entered(d, b) : d[i] = d[j] => i = j

\* An entry below the prefix of a call is by a name the call has read.
Fresh(s, d, b) ==
  \A i \in DOMAIN s : \A j \in Entered(d, b) : Under(d[j], s[i].prefix) => Passed(d[j], s[i])

\* A match of a pattern of one component has been entered or is still to be read.
ToRead(w, s, m) ==
  /\ Len(s) = 1 /\ s[1].prefix = w.root
  /\ s[1].at = "call" \/ m[Len(w.root) + 1] \in s[1].left
Complete(w, s, d, b) ==
  Len(w.components) = 1 =>
    \A m \in Matches(w) : (\E j \in Entered(d, b) : d[j] = m) \/ ToRead(w, s, m)

Stage(w, s, d, b) ==
  /\ \A i \in DOMAIN s : OnTheWay(w, s[i])
  /\ Nested(s) /\ Collected(w, d, b) /\ Fresh(s, d, b) /\ Complete(w, s, d, b)

\* The matches and what was left, as WordsExpanded says, in order.
Ascending(s) == \A i, j \in DOMAIN s : i < j => ~Before(s[j], s[i])
Result(w, d, b) ==
  /\ \A i \in DOMAIN d : d[i] \in Matches(w) \cup ToSet(b)
  /\ \A p \in Matches(w) \cup ToSet(b) :
       Copies(p, d) - Copies(p, b)
         \in IF p \notin Matches(w) THEN {0}
             ELSE IF Len(w.components) = 1 THEN {1} ELSE {0, 1}

\* A word is being expanded.
Expanding ==
  /\ Inv /\ Types /\ place = "expand" /\ IsWild(word)
  /\ Stage(word, stack, dir_array, before.entries)

\* The sorted entries are being inserted.
Inserting ==
  /\ Inv /\ Types /\ place = "insert" /\ IsWild(word) /\ Len(dir_array) > 1
  /\ Result(word, dir_array, before.entries) /\ Ascending(dir_array)
  /\ \A i \in 1..(Len(arguments) - before.count) :
       arguments[before.count + i] = Path(dir_array[i])

\* The invariant: what is known at each place.
Whole ==
  /\ Inv /\ Types
  /\ place = "expand" => Expanding
  /\ place = "insert" => Inserting
  /\ place = "word" /\ IsWild(word) => arguments # <<>> /\ WordsExpanded

=============================================================================
