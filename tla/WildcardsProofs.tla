-------------------------- MODULE WildcardsProofs --------------------------
(***************************************************************************)
(* Theorems about the expansion of words, for any directories, lines and   *)
(* initial sizes of the arrays, whatever the words are and in whatever     *)
(* order directories are read.                                             *)
(***************************************************************************)
EXTENDS WildcardsInvariant, FiniteSetTheorems, SequenceTheorems, WellFoundedInduction, TLAPS

LEMMA InvImplies == Inv => TypeOK /\ ArraysFit
  BY DEF Inv, TypeOK, ArraysFit, IsFrame

(***************************************************************************)
(* Sequences of anything                                                   *)
(***************************************************************************)

LEMMA SeqParts ==
  ASSUME NEW S, NEW s \in Seq(S)
  PROVE  IsSeq(s) /\ Len(s) \in Nat /\ DOMAIN s = 1..Len(s)
<1>1. Len(s) \in Nat
  OBVIOUS
<1>2. DOMAIN s = 1..Len(s)
  OBVIOUS
<1>3. s = [i \in 1..Len(s) |-> s[i]]
  OBVIOUS
<1>4. IsSeq(s)
  BY <1>1, <1>3 DEF IsSeq
<1> QED
  BY <1>1, <1>2, <1>4

LEMMA SeqFacts ==
  ASSUME NEW s, IsSeq(s)
  PROVE  /\ Len(s) \in Nat /\ DOMAIN s = 1..Len(s)
         /\ s \in Seq({s[i] : i \in DOMAIN s})
<1> DEFINE S == {s[i] : i \in DOMAIN s}
<1>1. Len(s) \in Nat /\ DOMAIN s = 1..Len(s)
  BY DEF IsSeq
<1>2. \A i \in 1..Len(s) : s[i] \in S
  BY <1>1
<1> HIDE DEF S
<1>3. s \in [1..Len(s) -> S]
  BY <1>2 DEF IsSeq
<1>4. s \in Seq(S)
  BY <1>1, <1>3
<1> QED
  BY <1>1, <1>4 DEF S

LEMMA Larger ==
  ASSUME NEW S, NEW s \in Seq(S), NEW x
  PROVE  s \in Seq(S \cup {x})
OBVIOUS

LEMMA Appended ==
  ASSUME NEW s, IsSeq(s), NEW x
  PROVE  /\ IsSeq(Append(s, x)) /\ Len(Append(s, x)) = Len(s) + 1
         /\ DOMAIN Append(s, x) = 1..(Len(s) + 1)
         /\ Append(s, x)[Len(s) + 1] = x
         /\ \A i \in 1..Len(s) : Append(s, x)[i] = s[i]
<1> DEFINE S == {s[i] : i \in DOMAIN s} \cup {x}
<1>1. s \in Seq(S) /\ x \in S
  BY SeqFacts, Larger
<1> HIDE DEF S
<1>2. /\ Append(s, x) \in Seq(S) /\ Len(Append(s, x)) = Len(s) + 1
      /\ Append(s, x)[Len(s) + 1] = x
      /\ \A i \in 1..Len(s) : Append(s, x)[i] = s[i]
  BY <1>1
<1>3. IsSeq(Append(s, x)) /\ DOMAIN Append(s, x) = 1..(Len(s) + 1)
  BY <1>2, SeqParts
<1> QED
  BY <1>2, <1>3

\* The stack without its top, and with another top.
LEMMA Popped ==
  ASSUME NEW s, IsSeq(s), s # <<>>
  PROVE  /\ Len(s) \in DOMAIN s /\ Len(s) > 0
         /\ IsSeq(Front(s)) /\ DOMAIN Front(s) = 1..(Len(s) - 1)
         /\ Len(Front(s)) = Len(s) - 1
         /\ \A i \in 1..(Len(s) - 1) : Front(s)[i] = s[i]
<1> DEFINE S == {s[i] : i \in DOMAIN s}
<1>1. s \in Seq(S)
  BY SeqFacts
<1> HIDE DEF S
<1>2. Len(s) \in Nat \ {0} /\ DOMAIN s = 1..Len(s)
  BY <1>1
<1>3. Front(s) \in Seq(S) /\ Len(Front(s)) = Len(s) - 1
      /\ \A i \in 1..(Len(s) - 1) : Front(s)[i] = s[i]
  BY <1>1, <1>2 DEF Front
<1> QED
  BY <1>2, <1>3, SeqParts

LEMMA Retopped ==
  ASSUME NEW s, IsSeq(s), s # <<>>, NEW x
  PROVE  LET t == [s EXCEPT ![Len(s)] = x]
         IN  /\ IsSeq(t) /\ Len(t) = Len(s) /\ DOMAIN t = DOMAIN s /\ t[Len(s)] = x
             /\ \A i \in DOMAIN s : i # Len(s) => t[i] = s[i]
<1> DEFINE S == {s[i] : i \in DOMAIN s} \cup {x}
           t == [s EXCEPT ![Len(s)] = x]
<1>1. s \in Seq(S) /\ x \in S
  BY SeqFacts, Larger
<1>2. Len(s) \in DOMAIN s
  BY Popped
<1> HIDE DEF S
<1>3. t \in Seq(S) /\ Len(t) = Len(s)
  BY <1>1
<1>4. DOMAIN t = DOMAIN s /\ t[Len(s)] = x /\ \A i \in DOMAIN s : i # Len(s) => t[i] = s[i]
  BY <1>1, <1>2
<1>5. IsSeq(t)
  BY <1>3, SeqParts
<1> QED
  BY <1>3, <1>4, <1>5

(***************************************************************************)
(* Arguments                                                               *)
(***************************************************************************)

\* The array of arguments has room for one more, and for the NULL after it.
LEMMA InsertStep ==
  ASSUME Inv, NEW argument, Insert(argument)
  PROVE  /\ IsSeq(arguments') /\ Len(arguments') = Len(arguments) + 1
         /\ available' \in Nat /\ Len(arguments') < available'
<1>1. /\ IsSeq(arguments) /\ available \in Nat /\ Len(arguments) < available
      /\ Len(arguments) \in Nat
  BY SeqFacts DEF Inv
<1>2. IsSeq(arguments') /\ Len(arguments') = Len(arguments) + 1
  BY <1>1, Appended DEF Insert
<1> QED
  BY <1>1, <1>2 DEF Insert, MustGrow

(***************************************************************************)
(* Steps                                                                   *)
(***************************************************************************)

LEMMA InvInit == Init => Inv
<1> SUFFICES ASSUME Init
             PROVE  Inv
  OBVIOUS
<1>1. IsSeq(<<>>) /\ Len(<<>>) = 0
  BY DEF IsSeq
<1> QED
  BY <1>1, WildcardsAssumption DEF Init, Inv

\* A step that changes only the words to come, the arguments and the place.
LEMMA ArgumentsStep ==
  ASSUME Inv, UNCHANGED <<stack, dir_array, max_entries, room>>,
         IsSeq(arguments'), available' \in Nat, Len(arguments') < available',
         before'.count \in Nat, place \in {"word", "expand"}, stack = <<>>,
         place' \in {"word", "crashed"}
  PROVE  Inv'
BY DEF Inv

\* The calls below the top, and the top itself.
LEMMA TopFrame ==
  ASSUME Inv, stack # <<>>
  PROVE  /\ IsSeq(stack) /\ IsFrame(Top) /\ (Top.at = "read" => room # 0)
BY Popped DEF Inv, Top

\* A step of expand_wildcards: the stack changes at its top, the arrays may grow.
LEMMA StackStep ==
  ASSUME Inv, place = "expand", place' = "expand",
         UNCHANGED <<arguments, available, before>>,
         IsSeq(dir_array'), Len(dir_array') <= room',
         max_entries' \in Nat \ {0}, room' \in {0, max_entries'}, room # 0 => room' # 0,
         IsSeq(stack'),
         \A i \in DOMAIN stack' :
           IsFrame(stack'[i]) /\ (stack'[i].at = "read" => room' # 0)
  PROVE  Inv'
BY DEF Inv

\* A call returns.
LEMMA ReturnFrames ==
  ASSUME Inv, stack # <<>>, Return, room # 0 => room' # 0
  PROVE  /\ IsSeq(stack')
         /\ \A i \in DOMAIN stack' :
              IsFrame(stack'[i]) /\ (stack'[i].at = "read" => room' # 0)
<1>1. IsSeq(stack) /\ DOMAIN stack = 1..Len(stack) /\ Len(stack) \in Nat
  BY SeqFacts DEF Inv
<1>2. /\ IsSeq(stack') /\ DOMAIN stack' = 1..(Len(stack) - 1)
      /\ \A i \in 1..(Len(stack) - 1) : stack'[i] = stack[i]
  BY <1>1, Popped DEF Return
<1> QED
  BY <1>1, <1>2 DEF Inv

\* The call on top goes on.
LEMMA BecomesFrames ==
  ASSUME Inv, stack # <<>>, NEW frame, Becomes(frame), IsFrame(frame), room # 0 => room' # 0,
         frame.at = "read" => room' # 0
  PROVE  /\ IsSeq(stack')
         /\ \A i \in DOMAIN stack' :
              IsFrame(stack'[i]) /\ (stack'[i].at = "read" => room' # 0)
<1>1. IsSeq(stack)
  BY DEF Inv
<1>2. /\ IsSeq(stack') /\ DOMAIN stack' = DOMAIN stack
      /\ stack'[Len(stack)] = frame
      /\ \A i \in DOMAIN stack : i # Len(stack) => stack'[i] = stack[i]
  BY <1>1, Retopped DEF Becomes
<1> QED
  BY <1>2 DEF Inv

\* The stack with another top, and a call on top of that.
LEMMA PushShape ==
  ASSUME IsSeq(stack), stack # <<>>, NEW f, NEW g,
         stack' = Append(Front(stack), f) \o <<g>>
  PROVE  /\ IsSeq(stack') /\ Len(stack') = Len(stack) + 1
         /\ DOMAIN stack' = 1..(Len(stack) + 1)
         /\ stack'[Len(stack) + 1] = g /\ stack'[Len(stack)] = f
         /\ \A i \in 1..(Len(stack) - 1) : stack'[i] = stack[i]
<1> DEFINE s == Front(stack)
           u == Append(s, f)
           n == Len(stack) - 1
<1>1. IsSeq(stack) /\ DOMAIN stack = 1..Len(stack) /\ Len(stack) \in Nat
  BY SeqFacts
<1>a. Len(stack) > 0 /\ IsSeq(s) /\ Len(s) = n /\ \A i \in 1..n : s[i] = stack[i]
  BY <1>1, Popped
<1>2. n \in Nat /\ Len(stack) = n + 1
  BY <1>1, <1>a
<1> HIDE DEF s, n
<1>3. /\ IsSeq(u) /\ Len(u) = n + 1 /\ u[n + 1] = f
      /\ \A i \in 1..n : u[i] = s[i]
  BY <1>2, <1>a, Appended
<1>4. stack' = Append(u, g)
  <2>1. stack' = u \o <<g>>
    BY DEF s
  <2> DEFINE S == {u[i] : i \in DOMAIN u} \cup {g}
  <2>2. u \in Seq(S) /\ g \in S
    BY <1>3, SeqFacts, Larger
  <2> HIDE DEF u, S
  <2>3. u \o <<g>> = Append(u, g)
    BY <2>2
  <2> QED
    BY <2>1, <2>3
<1> HIDE DEF u
<1>5. /\ IsSeq(stack') /\ DOMAIN stack' = 1..(n + 2) /\ stack'[n + 2] = g
      /\ \A i \in 1..(n + 1) : stack'[i] = u[i]
  <2> DEFINE v == Append(u, g)
  <2>a. /\ IsSeq(v) /\ DOMAIN v = 1..(Len(u) + 1) /\ v[Len(u) + 1] = g
        /\ \A i \in 1..Len(u) : v[i] = u[i]
    BY <1>3, Appended
  <2> HIDE DEF v
  <2>1. /\ IsSeq(stack') /\ DOMAIN stack' = 1..(Len(u) + 1) /\ stack'[Len(u) + 1] = g
        /\ \A i \in 1..Len(u) : stack'[i] = u[i]
    BY <1>4, <2>a DEF v
  <2>2. Len(u) + 1 = n + 2 /\ Len(u) = n + 1
    BY <1>2, <1>3
  <2> QED
    BY <2>1, <2>2
<1>6. Len(stack') = n + 2
  BY <1>2, <1>5, SeqFacts
<1>7. stack'[n + 1] = f /\ \A i \in 1..n : stack'[i] = stack[i]
  BY <1>2, <1>3, <1>5, <1>a
<1> QED
  BY <1>2, <1>5, <1>6, <1>7

\* The call on top goes on, with a call on top of it.
LEMMA PushFrames ==
  ASSUME Inv, stack # <<>>, NEW f, NEW g, IsFrame(f), IsFrame(g), room # 0 => room' # 0,
         f.at = "read" => room' # 0, g.at = "read" => room' # 0,
         stack' = Append(Front(stack), f) \o <<g>>
  PROVE  /\ IsSeq(stack')
         /\ \A i \in DOMAIN stack' :
              IsFrame(stack'[i]) /\ (stack'[i].at = "read" => room' # 0)
<1>1. IsSeq(stack) /\ DOMAIN stack = 1..Len(stack) /\ Len(stack) \in Nat /\ Len(stack) > 0
  BY SeqFacts, Popped DEF Inv
<1>2. /\ IsSeq(stack') /\ DOMAIN stack' = 1..(Len(stack) + 1)
      /\ stack'[Len(stack) + 1] = g /\ stack'[Len(stack)] = f
      /\ \A i \in 1..(Len(stack) - 1) : stack'[i] = stack[i]
  BY <1>1, PushShape
<1>3. \A i \in 1..(Len(stack) + 1) :
        stack'[i] \in {f, g} \/ (i \in DOMAIN stack /\ stack'[i] = stack[i])
  <2> DEFINE n == Len(stack)
  <2>1. n \in Nat /\ n > 0 /\ DOMAIN stack = 1..n
        /\ stack'[n + 1] = g /\ stack'[n] = f /\ \A i \in 1..(n - 1) : stack'[i] = stack[i]
    BY <1>1, <1>2
  <2> HIDE DEF n
  <2>2. \A i \in 1..(n + 1) : i = n + 1 \/ i = n \/ i \in 1..(n - 1)
    BY <2>1
  <2>3. ASSUME NEW i \in 1..(n + 1)
        PROVE  stack'[i] \in {f, g} \/ (i \in DOMAIN stack /\ stack'[i] = stack[i])
    <3>1. CASE i = n + 1
      BY <2>1, <3>1
    <3>2. CASE i = n
      BY <2>1, <3>2
    <3>3. CASE i \in 1..(n - 1)
      <4>1. i \in 1..n
        BY <2>1, <3>3
      <4> QED
        BY <2>1, <3>3, <4>1
    <3> QED
      BY <2>2, <3>1, <3>2, <3>3
  <2> QED
    BY <2>3 DEF n
<1> QED
  BY <1>2, <1>3 DEF Inv

\* The call on top begins or goes on to read its directory.
Opened(f, left, component) ==
  [f EXCEPT !.at = "read", !.left = left, !.component = component]
LEMMA ReadFrame ==
  ASSUME NEW f, IsFrame(f), NEW left, NEW component
  PROVE  LET g == Opened(f, left, component)
         IN  /\ IsFrame(g) /\ g.prefix = f.prefix /\ g.suffix = f.suffix /\ g.at = "read"
             /\ g.left = left /\ g.component = component
<1> DEFINE g == Opened(f, left, component)
<1>1. PICK p, q, c, a, l :
        f = [prefix |-> p, suffix |-> q, component |-> c, at |-> a, left |-> l]
  BY DEF IsFrame
<1>2. g = [prefix |-> p, suffix |-> q, component |-> component, at |-> "read", left |-> left]
  <2> DEFINE h == [f EXCEPT !.at = "read"]
             k == [h EXCEPT !.left = left]
  <2>1. h = [prefix |-> p, suffix |-> q, component |-> c, at |-> "read", left |-> l]
    BY <1>1
  <2>2. k = [prefix |-> p, suffix |-> q, component |-> c, at |-> "read", left |-> left]
    <3> HIDE DEF h
    <3> QED
      BY <2>1
  <2>3. g = [k EXCEPT !.component = component]
    BY <1>1 DEF Opened
  <2> HIDE DEF h, k, g
  <2> QED
    BY <2>2, <2>3
<1> HIDE DEF g
<1>3. /\ g.prefix = p /\ g.suffix = q /\ g.at = "read" /\ g.left = left
      /\ g.component = component /\ f.prefix = p /\ f.suffix = q
  BY <1>1, <1>2
<1>4. g = [prefix |-> g.prefix, suffix |-> g.suffix, component |-> g.component,
           at |-> g.at, left |-> g.left]
  BY <1>2, <1>3
<1>5. IsFrame(g)
  BY <1>3, <1>4 DEF IsFrame
<1> QED
  BY <1>3, <1>5 DEF g

LEMMA KeptFrame ==
  ASSUME NEW f, IsFrame(f), NEW left
  PROVE  LET g == [f EXCEPT !.left = left]
         IN  /\ IsFrame(g) /\ g.prefix = f.prefix /\ g.suffix = f.suffix /\ g.at = f.at
             /\ g.left = left /\ g.component = f.component
<1> DEFINE g == [f EXCEPT !.left = left]
<1>1. PICK p, q, c, a, l :
        f = [prefix |-> p, suffix |-> q, component |-> c, at |-> a, left |-> l]
  BY DEF IsFrame
<1>2. g = [prefix |-> p, suffix |-> q, component |-> c, at |-> a, left |-> left]
  BY <1>1
<1> HIDE DEF g
<1>3. /\ g.prefix = p /\ g.suffix = q /\ g.at = a /\ g.left = left /\ g.component = c
      /\ f.at = a /\ f.prefix = p /\ f.suffix = q /\ f.component = c
  BY <1>1, <1>2
<1>4. g = [prefix |-> g.prefix, suffix |-> g.suffix, component |-> g.component,
           at |-> g.at, left |-> g.left]
  BY <1>2, <1>3
<1>5. g.at \in {"call", "read"}
  BY <1>3 DEF IsFrame
<1>6. IsFrame(g)
  BY <1>3, <1>4, <1>5 DEF IsFrame
<1> QED
  BY <1>3, <1>6 DEF g

LEMMA EnterStep == Inv /\ Enter => Inv'
<1> SUFFICES ASSUME Inv, Enter
             PROVE  Inv'
  OBVIOUS
<1>1. /\ place = "expand" /\ stack # <<>>
      /\ UNCHANGED <<arguments, available, place, dir_array, max_entries, before>>
  BY DEF Enter
<1>2. /\ IsSeq(dir_array) /\ Len(dir_array) <= room /\ Len(dir_array) \in Nat
      /\ max_entries \in Nat \ {0} /\ room \in {0, max_entries}
      /\ IsFrame(Top)
  BY <1>1, SeqFacts, TopFrame DEF Inv
<1>3. CASE Return /\ UNCHANGED room
  BY <1>1, <1>2, <1>3, ReturnFrames, StackStep
<1>4. ASSUME NEW name, Becomes(Call(Append(Top.prefix, name), Suffix)), UNCHANGED room
      PROVE  Inv'
  <2> DEFINE frame == Call(Append(Top.prefix, name), Suffix)
  <2>1. IsFrame(frame) /\ frame.at = "call"
    BY DEF Call, IsFrame
  <2> HIDE DEF frame
  <2>2. Becomes(frame)
    BY <1>4 DEF frame
  <2> QED
    BY <1>1, <1>2, <1>4, <2>1, <2>2, BecomesFrames, StackStep
<1>5. ASSUME NEW component,
             Becomes([Top EXCEPT !.at = "read", !.left = Dirs[Top.prefix],
                                 !.component = component]),
             room' = IF room = 0 THEN max_entries ELSE room
      PROVE  Inv'
  <2> DEFINE frame == [Top EXCEPT !.at = "read", !.left = Dirs[Top.prefix],
                                  !.component = component]
  <2>0. frame = Opened(Top, Dirs[Top.prefix], component)
    BY DEF Opened
  <2>1. IsFrame(frame)
    <3> HIDE DEF frame
    <3> QED
      BY <1>2, <2>0, ReadFrame
  <2> HIDE DEF frame
  <2>2. Becomes(frame) /\ room' # 0 /\ room' = max_entries'
    BY <1>1, <1>2, <1>5 DEF frame
  <2>3. Len(dir_array') <= room'
    BY <1>1, <1>2, <2>2
  <2> QED
    BY <1>1, <1>2, <2>1, <2>2, <2>3, BecomesFrames, StackStep
<1>6. \/ Return /\ UNCHANGED room
      \/ \E name : Becomes(Call(Append(Top.prefix, name), Suffix)) /\ UNCHANGED room
      \/ \E component :
           /\ Becomes([Top EXCEPT !.at = "read", !.left = Dirs[Top.prefix],
                                  !.component = component])
           /\ room' = IF room = 0 THEN max_entries ELSE room
  BY DEF Enter
<1> QED
  BY <1>3, <1>4, <1>5, <1>6

LEMMA ReadStep == ASSUME Inv, NEW name, Read(name) PROVE Inv'
<1> DEFINE taken == name \in Top.component.names
           rest == [Top EXCEPT !.left = @ \ {name}]
           path == Append(Top.prefix, name)
           grows == taken /\ Len(dir_array) = max_entries
<1>1. /\ place = "expand" /\ stack # <<>> /\ Top.at = "read"
      /\ UNCHANGED <<arguments, available, place, before>>
      /\ IF grows
         THEN max_entries' = 2 * max_entries /\ room' = 2 * max_entries
         ELSE UNCHANGED <<max_entries, room>>
      /\ IF Visible(name) /\ Suffix = <<>> THEN dir_array' = Append(dir_array, path)
         ELSE UNCHANGED dir_array
      /\ IF Visible(name) /\ Suffix # <<>>
         THEN stack' = Append(Front(stack), rest) \o <<Call(path, Suffix)>>
         ELSE Becomes(rest)
  BY DEF Read
<1>2. /\ IsSeq(dir_array) /\ Len(dir_array) <= room /\ Len(dir_array) \in Nat
      /\ max_entries \in Nat \ {0} /\ room = max_entries
      /\ IsFrame(Top)
  BY <1>1, SeqFacts, TopFrame DEF Inv
<1>3. IsFrame(rest) /\ rest.at = "read"
  BY <1>1, <1>2, KeptFrame
<1>4. IsFrame(Call(path, Suffix))
  BY DEF Call, IsFrame
<1>5. Visible(name) => taken
  BY DEF Visible
<1> HIDE DEF taken, rest, path
<1>6. /\ max_entries' \in Nat \ {0} /\ room' = max_entries' /\ room' # 0
      /\ Len(dir_array) <= room' /\ (taken => Len(dir_array) + 1 <= room')
  BY <1>1, <1>2
<1>7. IsSeq(dir_array') /\ Len(dir_array') <= room'
  <2>1. IsSeq(Append(dir_array, path)) /\ Len(Append(dir_array, path)) = Len(dir_array) + 1
    BY <1>2, Appended
  <2>2. CASE Visible(name) /\ Suffix = <<>>
    BY <1>1, <1>5, <1>6, <2>1, <2>2
  <2>3. CASE ~(Visible(name) /\ Suffix = <<>>)
    BY <1>1, <1>2, <1>6, <2>3
  <2> QED
    BY <2>2, <2>3
<1>8. /\ IsSeq(stack')
      /\ \A i \in DOMAIN stack' :
           IsFrame(stack'[i]) /\ (stack'[i].at = "read" => room' # 0)
  <2>1. CASE Visible(name) /\ Suffix # <<>>
    BY <1>1, <1>3, <1>4, <1>6, <2>1, PushFrames
  <2>2. CASE ~(Visible(name) /\ Suffix # <<>>)
    BY <1>1, <1>3, <1>6, <2>2, BecomesFrames
  <2> QED
    BY <2>1, <2>2
<1> QED
  BY <1>1, <1>6, <1>7, <1>8, StackStep

\* Whatever order the entries are sorted into, they are as many.
LEMMA Sorted ==
  ASSUME NEW s, IsSeq(s)
  PROVE  IsSeq(InOrder(s)) /\ Len(InOrder(s)) = Len(s)
<1> DEFINE t == InOrder(s)
<1>1. Len(s) \in Nat
  BY DEF IsSeq
<1>2. DOMAIN t = 1..Len(s) /\ t = [i \in DOMAIN t |-> t[i]]
  BY DEF InOrder
<1> HIDE DEF t
<1> DEFINE S == {t[i] : i \in 1..Len(s)}
<1>3. \A i \in 1..Len(s) : t[i] \in S
  OBVIOUS
<1> HIDE DEF S
<1>4. t \in [1..Len(s) -> S]
  BY <1>2, <1>3
<1>5. t \in Seq(S)
  BY <1>1, <1>4
<1>6. Len(t) = Len(s)
  BY <1>1, <1>4, <1>5
<1> QED
  BY <1>5, <1>6, SeqParts DEF t

LEMMA ExpandedStep == Inv /\ Expanded => Inv'
<1> SUFFICES ASSUME Inv, Expanded
             PROVE  Inv'
  OBVIOUS
<1>1. /\ place = "expand" /\ stack = <<>> /\ UNCHANGED <<stack, max_entries, room, before>>
      /\ IsSeq(dir_array) /\ Len(dir_array) \in Nat /\ IsSeq(arguments) /\ Len(arguments) \in Nat
      /\ Len(arguments) = before.count /\ before.count \in Nat
  BY SeqFacts DEF Expanded, Inv
<1>2. CASE Len(dir_array) > 1
  <2>1. /\ place' = "insert" /\ dir_array' = InOrder(dir_array)
        /\ UNCHANGED <<arguments, available>>
    BY <1>2 DEF Expanded
  <2>2. IsSeq(dir_array') /\ Len(dir_array') = Len(dir_array)
    BY <1>1, <2>1, Sorted
  <2>3. Len(arguments') - before'.count \in 0..(Len(dir_array') - 1)
    BY <1>1, <1>2, <2>1, <2>2
  <2>4. /\ place' \in {"word", "expand", "insert", "crashed"}
        /\ stack' = stack /\ arguments' = arguments /\ place' # "expand"
    BY <1>1, <2>1
  <2> QED
    BY <1>1, <2>1, <2>2, <2>3, <2>4 DEF Inv
<1>3. CASE ~(Len(dir_array) > 1)
  <2>1. place' = "word" /\ Insert(Raw(word)) /\ UNCHANGED dir_array
    BY <1>3 DEF Expanded
  <2> QED
    BY <1>1, <2>1, InsertStep, ArgumentsStep
<1> QED
  BY <1>2, <1>3

LEMMA InsertEntryStep == Inv /\ InsertEntry => Inv'
<1> SUFFICES ASSUME Inv, InsertEntry
             PROVE  Inv'
  OBVIOUS
<1> DEFINE i == Len(arguments) - before.count + 1
<1>1. /\ place = "insert" /\ Insert(Path(dir_array[i]))
      /\ IF i = Len(dir_array)
         THEN place' = "word" /\ dir_array' = <<>> /\ room' = 0
         ELSE UNCHANGED <<place, dir_array, room>>
      /\ UNCHANGED <<stack, max_entries, before>>
  BY DEF InsertEntry, LastEntry
<1>2. /\ stack = <<>> /\ Len(dir_array) \in Nat /\ Len(arguments) \in Nat
      /\ before.count \in Nat /\ i \in 1..Len(dir_array)
  BY <1>1, SeqFacts DEF Inv
<1>3. /\ IsSeq(arguments') /\ Len(arguments') = Len(arguments) + 1
      /\ available' \in Nat /\ Len(arguments') < available'
  BY <1>1, InsertStep
<1>4. CASE i = Len(dir_array)
  <2>1. IsSeq(<<>>) /\ Len(<<>>) = 0
    BY DEF IsSeq
  <2> QED
    BY <1>1, <1>2, <1>3, <1>4, <2>1 DEF Inv
<1>5. CASE i # Len(dir_array)
  <2>1. Len(arguments') - before'.count \in 0..(Len(dir_array') - 1)
    BY <1>1, <1>2, <1>3, <1>5
  <2> QED
    BY <1>1, <1>2, <1>3, <1>5, <2>1 DEF Inv
<1> QED
  BY <1>4, <1>5

LEMMA InvStep == Inv /\ [Next]_vars => Inv'
<1> SUFFICES ASSUME Inv, [Next]_vars
             PROVE  Inv'
  OBVIOUS
<1>1. CASE NewCommand
  <2>1. /\ place = "word" /\ Insert(Raw(Head(todo[1])))
        /\ UNCHANGED <<place, stack, dir_array, max_entries, room, before>>
    BY <1>1 DEF NewCommand
  <2>2. stack = <<>> /\ before.count \in Nat
    BY <2>1 DEF Inv
  <2> QED
    BY <2>1, <2>2, InsertStep, ArgumentsStep
<1>2. CASE EndCommand
  <2>1. /\ place = "word" /\ arguments' = <<>> /\ available' = InitialArguments
        /\ UNCHANGED <<place, stack, dir_array, max_entries, room, before>>
    BY <1>2 DEF EndCommand
  <2>2. stack = <<>> /\ before.count \in Nat
    BY <2>1 DEF Inv
  <2>3. IsSeq(<<>>) /\ Len(<<>>) = 0
    BY DEF IsSeq
  <2> QED
    BY <2>1, <2>2, <2>3, WildcardsAssumption, ArgumentsStep
<1>3. CASE NextWord /\ (InsertWord \/ ExpandWord)
  <2>1. /\ place = "word" /\ before' = [entries |-> dir_array, count |-> Len(arguments)]
        /\ IsSeq(arguments) /\ Len(arguments) \in Nat /\ stack = <<>>
        /\ available \in Nat /\ Len(arguments) < available
    BY <1>3, SeqFacts DEF NextWord, Inv
  <2>2. before'.count = Len(arguments)
    BY <2>1
  <2>3. CASE InsertWord
    <3>1. UNCHANGED <<stack, dir_array, max_entries, room>>
      BY <2>3 DEF InsertWord
    <3>2. CASE place' = "crashed" /\ UNCHANGED <<arguments, available>>
      BY <2>1, <2>2, <3>1, <3>2, ArgumentsStep
    <3>3. ASSUME NEW argument, Insert(argument), UNCHANGED place
          PROVE  Inv'
      BY <2>1, <2>2, <3>1, <3>3, InsertStep, ArgumentsStep
    <3> QED
      BY <2>3, <3>2, <3>3 DEF InsertWord
  <2>4. CASE ExpandWord
    <3> DEFINE frame == Call(word'.root, word'.components)
    <3>1. /\ place' = "expand" /\ stack' = <<frame>>
          /\ UNCHANGED <<arguments, available, dir_array, max_entries, room>>
      BY <2>4 DEF ExpandWord
    <3>2. IsFrame(frame) /\ frame.at = "call"
      BY DEF Call, IsFrame
    <3> HIDE DEF frame
    <3>3. /\ IsSeq(<<frame>>) /\ DOMAIN <<frame>> = {1} /\ <<frame>>[1] = frame
      <4> DEFINE s == <<frame>>
      <4>1. s \in Seq({frame}) /\ Len(s) = 1 /\ s[1] = frame
        OBVIOUS
      <4> HIDE DEF s
      <4>2. IsSeq(s) /\ DOMAIN s = 1..Len(s)
        BY <4>1, SeqParts
      <4> QED
        BY <4>1, <4>2 DEF s
    <3>4. /\ IsSeq(stack')
          /\ \A i \in DOMAIN stack' :
               IsFrame(stack'[i]) /\ (stack'[i].at = "read" => room' # 0)
      BY <3>1, <3>2, <3>3
    <3> QED
      BY <2>1, <2>2, <3>1, <3>4 DEF Inv
  <2> QED
    BY <1>3, <2>3, <2>4
<1>4. CASE Enter
  BY <1>4, EnterStep
<1>5. CASE CloseDir
  <2>1. /\ place = "expand" /\ stack # <<>> /\ Return
        /\ UNCHANGED <<arguments, available, place, dir_array, max_entries, room, before>>
    BY <1>5 DEF CloseDir
  <2>2. /\ IsSeq(dir_array) /\ Len(dir_array) <= room
        /\ max_entries \in Nat \ {0} /\ room \in {0, max_entries}
    BY DEF Inv
  <2> QED
    BY <2>1, <2>2, ReturnFrames, StackStep
<1>6. CASE Expanded
  BY <1>6, ExpandedStep
<1>7. CASE InsertEntry
  BY <1>7, InsertEntryStep
<1>8. CASE \E name \in UNION {Dirs[d] : d \in DOMAIN Dirs} : Read(name)
  BY <1>8, ReadStep
<1>9. CASE UNCHANGED vars
  BY <1>9 DEF vars, Inv
<1>10. InsertWord \/ ExpandWord => NextWord
  BY DEF InsertWord, ExpandWord
<1> QED
  BY <1>1, <1>2, <1>3, <1>4, <1>5, <1>6, <1>7, <1>8, <1>9, <1>10 DEF Next

LEMMA AlwaysInv == Spec => []Inv
  BY InvInit, InvStep, PTL DEF Spec

\* A directory is read only while a word is expanded, and the insertion of the
\* matches never runs past the last of them (shell.y, insert_arguments).
THEOREM TypeCorrect == Spec => []TypeOK
  BY AlwaysInv, InvImplies, PTL

\* However many names match, however deep the pattern, and with whatever an
\* earlier word left: neither the array of matches nor that of the arguments is
\* written past its end.
THEOREM ArraysAlwaysFit == Spec => []ArraysFit
  BY AlwaysInv, InvImplies, PTL

\* Every set of numbers that is not empty has a least one.
LEMMA Least ==
  ASSUME NEW T \in SUBSET Nat, T # {}
  PROVE  \E x \in T : \A y \in T : x <= y
<1>1. IsWellFoundedOn(OpToRel(<, Nat), Nat)
  BY NatLessThanWellFounded
<1>2. \E x \in T : \A y \in T : ~(<<y, x>> \in OpToRel(<, Nat))
  BY <1>1, WFMin
<1>3. \A x, y \in Nat : y < x => <<y, x>> \in OpToRel(<, Nat)
  BY DEF OpToRel
<1>4. PICK x \in T : \A y \in T : ~(<<y, x>> \in OpToRel(<, Nat))
  BY <1>2
<1>5. \A y \in T : ~(y < x)
  BY <1>3, <1>4
<1>6. \A y \in T : x <= y
  BY <1>5
<1> QED
  BY <1>6

(***************************************************************************)
(* The order of the entries                                                *)
(***************************************************************************)

\* Paths that agree in front of n, where one has a smaller name or none.
First(p, q, n) ==
  /\ n \in Nat /\ n >= 1 /\ n <= Len(q) /\ n <= Len(p) + 1
  /\ \A k \in 1..(n - 1) : p[k] = q[k]
  /\ n <= Len(p) => p[n] < q[n]

LEMMA BeforeIs ==
  ASSUME NEW p \in Paths, NEW q \in Paths
  PROVE  Before(p, q) <=> \E n \in Nat : First(p, q, n)
<1> USE DEF Paths
<1>1. Len(p) \in Nat /\ Len(q) \in Nat /\ DOMAIN p = 1..Len(p) /\ DOMAIN q = 1..Len(q)
  OBVIOUS
<1>2. ASSUME IsStrictPrefix(p, q)
      PROVE  First(p, q, Len(p) + 1)
  <2>1. Len(p) <= Len(q) /\ SubSeq(p, 1, Len(p)) = SubSeq(q, 1, Len(p)) /\ p # q
    BY <1>2 DEF IsStrictPrefix, IsPrefix
  <2>2. \A k \in 1..Len(p) : p[k] = q[k]
    <3>1. \A k \in 1..Len(p) : SubSeq(p, 1, Len(p))[k] = p[k] /\ SubSeq(q, 1, Len(p))[k] = q[k]
      BY <1>1, <2>1
    <3> QED
      BY <2>1, <3>1
  <2>3. Len(p) # Len(q)
    BY <1>1, <2>1, <2>2, SeqEqual
  <2>4. /\ Len(p) + 1 \in Nat /\ Len(p) + 1 >= 1 /\ Len(p) + 1 <= Len(q)
        /\ (Len(p) + 1) - 1 = Len(p) /\ ~(Len(p) + 1 <= Len(p))
    <3> DEFINE m == Len(p)
               n == Len(q)
    <3>1. m \in Nat /\ n \in Nat /\ m <= n /\ m # n
      BY <1>1, <2>1, <2>3
    <3> HIDE DEF m, n
    <3>2. m + 1 \in Nat /\ m + 1 >= 1 /\ m + 1 <= n /\ (m + 1) - 1 = m /\ ~(m + 1 <= m)
      BY <3>1
    <3> QED
      BY <3>2 DEF m, n
  <2> QED
    BY <2>2, <2>4 DEF First
<1>3. ASSUME NEW i \in DOMAIN p \cap DOMAIN q, p[i] < q[i], \A j \in 1..(i - 1) : p[j] = q[j]
      PROVE  First(p, q, i)
  BY <1>1, <1>3 DEF First
<1>4. ASSUME NEW n \in Nat, First(p, q, n)
      PROVE  Before(p, q)
  <2>1. CASE n <= Len(p)
    <3>1. n \in DOMAIN p \cap DOMAIN q
      BY <1>1, <1>4, <2>1 DEF First
    <3> QED
      BY <1>4, <2>1, <3>1 DEF First, Before
  <2>2. CASE ~(n <= Len(p))
    <3>1. n = Len(p) + 1 /\ Len(p) < Len(q) /\ \A k \in 1..Len(p) : p[k] = q[k]
      BY <1>1, <1>4, <2>2 DEF First
    <3>2. SubSeq(p, 1, Len(p)) \in Seq(Int) /\ SubSeq(q, 1, Len(p)) \in Seq(Int)
          /\ Len(SubSeq(p, 1, Len(p))) = Len(p) /\ Len(SubSeq(q, 1, Len(p))) = Len(p)
          /\ \A k \in 1..Len(p) : SubSeq(p, 1, Len(p))[k] = SubSeq(q, 1, Len(p))[k]
      BY <1>1, <3>1
    <3>3. SubSeq(p, 1, Len(p)) = SubSeq(q, 1, Len(p))
      BY <3>2, SeqEqual
    <3> QED
      BY <3>1, <3>3 DEF Before, IsStrictPrefix, IsPrefix
  <2> QED
    BY <2>1, <2>2
<1> QED
  BY <1>2, <1>3, <1>4, <1>1 DEF Before

LEMMA BeforeTransitive ==
  ASSUME NEW p \in Paths, NEW q \in Paths, NEW r \in Paths, Before(p, q), Before(q, r)
  PROVE  Before(p, r)
<1>1. PICK m \in Nat : First(p, q, m)
  BY BeforeIs
<1>2. PICK n \in Nat : First(q, r, n)
  BY BeforeIs
<1>3. /\ Len(p) \in Nat /\ Len(q) \in Nat /\ Len(r) \in Nat
      /\ \A k \in 1..Len(p) : p[k] \in Int
      /\ \A k \in 1..Len(q) : q[k] \in Int
      /\ \A k \in 1..Len(r) : r[k] \in Int
  BY DEF Paths
<1>4. CASE m <= n
  <2>1. First(p, r, m)
    BY <1>1, <1>2, <1>3, <1>4 DEF First
  <2> QED
    BY <2>1, BeforeIs
<1>5. CASE n < m
  <2>1. First(p, r, n)
    BY <1>1, <1>2, <1>3, <1>5 DEF First
  <2> QED
    BY <2>1, BeforeIs
<1> QED
  BY <1>4, <1>5

LEMMA BeforeIrreflexive ==
  ASSUME NEW p \in Paths
  PROVE  ~Before(p, p)
<1>1. Len(p) \in Nat /\ \A k \in 1..Len(p) : p[k] \in Int
  BY DEF Paths
<1> QED
  BY <1>1, BeforeIs DEF First

LEMMA BeforeTotal ==
  ASSUME NEW p \in Paths, NEW q \in Paths, p # q
  PROVE  Before(p, q) \/ Before(q, p)
<1> DEFINE T == {n \in Nat : n >= 1 /\ ~(n <= Len(p) /\ n <= Len(q) /\ p[n] = q[n])}
<1>1. /\ Len(p) \in Nat /\ Len(q) \in Nat
      /\ \A k \in 1..Len(p) : p[k] \in Int
      /\ \A k \in 1..Len(q) : q[k] \in Int
  BY DEF Paths
<1>2. Len(p) + 1 \in T
  BY <1>1
<1>3. PICK n \in T : \A k \in T : n <= k
  BY <1>2, Least
<1>4. \A k \in 1..(n - 1) : k <= Len(p) /\ k <= Len(q) /\ p[k] = q[k]
  BY <1>3
<1>5. n \in Nat /\ n >= 1 /\ n <= Len(p) + 1 /\ n <= Len(q) + 1
  BY <1>1, <1>2, <1>3, <1>4
<1>6. CASE n <= Len(p) /\ n <= Len(q)
  <2>1. p[n] \in Int /\ q[n] \in Int /\ p[n] # q[n]
    BY <1>1, <1>3, <1>5, <1>6
  <2>2. First(p, q, n) \/ First(q, p, n)
    BY <1>1, <1>4, <1>5, <1>6, <2>1 DEF First
  <2> QED
    BY <2>2, BeforeIs
<1>7. CASE n = Len(p) + 1 /\ n <= Len(q)
  <2>1. First(p, q, n)
    BY <1>1, <1>4, <1>5, <1>7 DEF First
  <2> QED
    BY <2>1, BeforeIs
<1>8. CASE n <= Len(p) /\ n = Len(q) + 1
  <2>1. First(q, p, n)
    BY <1>1, <1>4, <1>5, <1>8 DEF First
  <2> QED
    BY <2>1, BeforeIs
<1>9. CASE n = Len(p) + 1 /\ n = Len(q) + 1
  <2>1. Len(p) = Len(q) /\ \A k \in 1..Len(p) : p[k] = q[k]
    BY <1>1, <1>4, <1>9
  <2> QED
    BY <2>1, SeqEqual DEF Paths
<1> QED
  BY <1>1, <1>5, <1>6, <1>7, <1>8, <1>9

(***************************************************************************)
(* Sorting                                                                 *)
(***************************************************************************)

\* How InOrder compares two places.
Precedes(s, j, i) == Before(s[j], s[i]) \/ (s[j] = s[i] /\ j < i)
Earlier(s, i) == {j \in DOMAIN s : Precedes(s, j, i)}
Rank(s) == [i \in 1..Len(s) |-> Cardinality(Earlier(s, i)) + 1]

LEMMA PrecedesFacts ==
  ASSUME NEW s \in Seq(Paths)
  PROVE  /\ \A i \in 1..Len(s) : ~Precedes(s, i, i)
         /\ \A i, j \in 1..Len(s) : i # j => Precedes(s, i, j) \/ Precedes(s, j, i)
         /\ \A i, j, k \in 1..Len(s) :
              Precedes(s, i, j) /\ Precedes(s, j, k) => Precedes(s, i, k)
<1>1. Len(s) \in Nat /\ \A i \in 1..Len(s) : s[i] \in Paths
  OBVIOUS
<1>2. \A i \in 1..Len(s) : ~Precedes(s, i, i)
  BY <1>1, BeforeIrreflexive DEF Precedes
<1>3. ASSUME NEW i \in 1..Len(s), NEW j \in 1..Len(s), i # j
      PROVE  Precedes(s, i, j) \/ Precedes(s, j, i)
  <2>1. CASE s[i] = s[j]
    <3>1. i < j \/ j < i
      BY <1>1, <1>3
    <3> QED
      BY <2>1, <3>1 DEF Precedes
  <2>2. CASE s[i] # s[j]
    BY <1>1, <2>2, BeforeTotal DEF Precedes
  <2> QED
    BY <2>1, <2>2
<1>4. ASSUME NEW i \in 1..Len(s), NEW j \in 1..Len(s), NEW k \in 1..Len(s),
             Precedes(s, i, j), Precedes(s, j, k)
      PROVE  Precedes(s, i, k)
  <2>1. CASE Before(s[i], s[j]) /\ Before(s[j], s[k])
    BY <1>1, <2>1, BeforeTransitive DEF Precedes
  <2>2. CASE s[i] = s[j] /\ i < j /\ s[j] = s[k] /\ j < k
    <3>1. i < k
      BY <1>1, <2>2
    <3> QED
      BY <2>2, <3>1 DEF Precedes
  <2>3. CASE s[i] = s[j] \/ s[j] = s[k]
    BY <1>4, <2>2, <2>3 DEF Precedes
  <2> QED
    BY <1>4, <2>1, <2>3 DEF Precedes
<1> QED
  BY <1>2, <1>3, <1>4

LEMMA RankFacts ==
  ASSUME NEW s \in Seq(Paths)
  PROVE  /\ Rank(s) \in Injection(1..Len(s), 1..Len(s))
         /\ \A i, j \in 1..Len(s) : Precedes(s, j, i) => Rank(s)[j] < Rank(s)[i]
<1> DEFINE n == Len(s)
<1>1. n \in Nat /\ DOMAIN s = 1..n /\ IsFiniteSet(1..n) /\ Cardinality(1..n) = n
  <2>1. n \in Nat /\ DOMAIN s = 1..n
    OBVIOUS
  <2> HIDE DEF n
  <2>2. IsFiniteSet(1..n) /\ Cardinality(1..n) = IF 1 > n THEN 0 ELSE n - 1 + 1
    BY <2>1, FS_Interval
  <2> QED
    BY <2>1, <2>2
<1> HIDE DEF n
<1>2. ASSUME NEW i \in 1..n
      PROVE  /\ IsFiniteSet(Earlier(s, i)) /\ Cardinality(Earlier(s, i)) \in 0..(n - 1)
             /\ i \notin Earlier(s, i)
  <2>1. Earlier(s, i) \subseteq 1..n /\ i \notin Earlier(s, i)
    BY <1>1, PrecedesFacts DEF Earlier, n
  <2>2. /\ IsFiniteSet(Earlier(s, i)) /\ Cardinality(Earlier(s, i)) <= n
        /\ (n = Cardinality(Earlier(s, i)) => 1..n = Earlier(s, i))
    BY <1>1, <2>1, FS_Subset
  <2>3. Cardinality(Earlier(s, i)) \in Nat
    BY <2>2, FS_CardinalityType
  <2> QED
    BY <1>1, <2>1, <2>2, <2>3
<1>3. ASSUME NEW i \in 1..n, NEW j \in 1..n, Precedes(s, j, i)
      PROVE  Rank(s)[j] < Rank(s)[i]
  <2>1. j \in Earlier(s, i) /\ j \notin Earlier(s, j) /\ Earlier(s, j) \subseteq Earlier(s, i)
    BY <1>1, <1>3, PrecedesFacts DEF Earlier, n
  <2>2. /\ Cardinality(Earlier(s, j)) <= Cardinality(Earlier(s, i))
        /\ Cardinality(Earlier(s, i)) # Cardinality(Earlier(s, j))
    BY <1>2, <2>1, FS_Subset
  <2>3. Cardinality(Earlier(s, i)) \in Nat /\ Cardinality(Earlier(s, j)) \in Nat
    BY <1>2
  <2>4. /\ Rank(s)[i] = Cardinality(Earlier(s, i)) + 1
        /\ Rank(s)[j] = Cardinality(Earlier(s, j)) + 1
    BY DEF Rank, n
  <2> QED
    BY <2>2, <2>3, <2>4
<1>4. Rank(s) \in [1..n -> 1..n]
  <2>1. \A i \in 1..n : Cardinality(Earlier(s, i)) + 1 \in 1..n
    BY <1>1, <1>2
  <2> QED
    BY <2>1 DEF Rank, n
<1>5. ASSUME NEW i \in 1..n, NEW j \in 1..n, Rank(s)[i] = Rank(s)[j]
      PROVE  i = j
  <2>1. Rank(s)[i] \in Nat /\ Rank(s)[j] \in Nat
    BY <1>1, <1>4
  <2> QED
    BY <1>3, <1>5, <2>1, PrecedesFacts DEF n
<1> QED
  BY <1>3, <1>4, <1>5 DEF n, Injection, IsInjective

\* The place in s of each entry of InOrder(s).
Sorting(s) == [k \in 1..Len(s) |-> CHOOSE i \in 1..Len(s) : Rank(s)[i] = k]

LEMMA SortingFacts ==
  ASSUME NEW s \in Seq(Paths)
  PROVE  /\ Sorting(s) \in Bijection(1..Len(s), 1..Len(s))
         /\ InOrder(s) = [k \in 1..Len(s) |-> s[Sorting(s)[k]]]
         /\ \A k, l \in 1..Len(s) : k < l => Precedes(s, Sorting(s)[k], Sorting(s)[l])
<1> DEFINE n == Len(s)
<1>1. n \in Nat /\ DOMAIN s = 1..n /\ IsFiniteSet(1..n)
  BY FS_Interval
<1>2. Rank(s) \in Injection(1..n, 1..n)
  BY RankFacts
<1>3. Rank(s) \in Surjection(1..n, 1..n)
  BY <1>1, <1>2, FS_Injection
<1> HIDE DEF n
<1>4. \A k \in 1..n : Sorting(s)[k] \in 1..n /\ Rank(s)[Sorting(s)[k]] = k
  <2> SUFFICES ASSUME NEW k \in 1..n
               PROVE  Sorting(s)[k] \in 1..n /\ Rank(s)[Sorting(s)[k]] = k
    OBVIOUS
  <2>1. \E i \in 1..n : Rank(s)[i] = k
    BY <1>3 DEF Surjection
  <2>2. Sorting(s)[k] = CHOOSE i \in 1..n : Rank(s)[i] = k
    BY DEF Sorting, n
  <2> QED
    BY <2>1, <2>2
<1>5. Sorting(s) \in Bijection(1..n, 1..n)
  <2>1. Sorting(s) \in [1..n -> 1..n]
    BY <1>4 DEF Sorting, n
  <2>2. \A k, l \in 1..n : Sorting(s)[k] = Sorting(s)[l] => k = l
    BY <1>4
  <2>3. \A i \in 1..n : Rank(s)[i] \in 1..n /\ Sorting(s)[Rank(s)[i]] = i
    BY <1>2, <1>4 DEF Injection, IsInjective
  <2>4. Sorting(s) \in Injection(1..n, 1..n)
    BY <2>1, <2>2 DEF Injection, IsInjective
  <2>5. Sorting(s) \in Surjection(1..n, 1..n)
    BY <2>1, <2>3 DEF Surjection
  <2> QED
    BY <2>4, <2>5 DEF Bijection
<1>6. InOrder(s) = [k \in 1..n |-> s[Sorting(s)[k]]]
  <2> DEFINE at(k) == CHOOSE i \in 1..n : Cardinality(Earlier(s, i)) = k - 1
  <2>1. InOrder(s) = [k \in 1..n |-> s[at(k)]]
    BY <1>1 DEF InOrder, Earlier, Precedes, n
  <2>2. ASSUME NEW k \in 1..n
        PROVE  at(k) = Sorting(s)[k]
    <3> DEFINE t == Sorting(s)[k]
    <3>1. \A i \in 1..n : Rank(s)[i] = Cardinality(Earlier(s, i)) + 1
      BY DEF Rank, n
    <3>2. \A i \in 1..n : Rank(s)[i] \in 1..n
      BY <1>2 DEF Injection
    <3>3. t \in 1..n /\ Rank(s)[t] = k
      BY <1>4
    <3> HIDE DEF t
    <3>4. \A i \in 1..n : Rank(s)[i] = k <=> i = t
      BY <1>2, <3>3 DEF Injection, IsInjective
    <3>5. \A i \in 1..n : IsFiniteSet(Earlier(s, i))
      <4>1. \A i \in 1..n : Earlier(s, i) \subseteq 1..n
        BY <1>1 DEF Earlier
      <4> QED
        BY <1>1, <4>1, FS_Subset
    <3>6. \A i \in 1..n : Cardinality(Earlier(s, i)) \in Nat
      BY <3>5, FS_CardinalityType
    <3>7. \A i \in 1..n : Cardinality(Earlier(s, i)) = k - 1 <=> i = t
      BY <1>1, <3>1, <3>4, <3>6
    <3>8. at(k) = t
      BY <3>3, <3>7
    <3> QED
      BY <3>8 DEF t
  <2> HIDE DEF at
  <2> QED
    BY <2>1, <2>2
<1>7. ASSUME NEW k \in 1..n, NEW l \in 1..n, k < l
      PROVE  Precedes(s, Sorting(s)[k], Sorting(s)[l])
  <2> DEFINE x == Sorting(s)[k]
             y == Sorting(s)[l]
  <2>1. x \in 1..n /\ y \in 1..n /\ Rank(s)[x] = k /\ Rank(s)[y] = l
    BY <1>4
  <2> HIDE DEF x, y
  <2>2. k \in Nat /\ l \in Nat /\ k # l /\ ~(l < k)
    BY <1>1, <1>7
  <2>3. ~Precedes(s, y, x) /\ x # y
    BY <2>1, <2>2, RankFacts DEF n
  <2>4. Precedes(s, x, y)
    BY <2>1, <2>3, PrecedesFacts DEF n
  <2> QED
    BY <2>4 DEF x, y
<1> QED
  BY <1>5, <1>6, <1>7 DEF n

\* Sorted entries ascend, and are the same ones, as often.
LEMMA InOrderFacts ==
  ASSUME NEW s \in Seq(Paths)
  PROVE  /\ InOrder(s) \in Seq(Paths) /\ Len(InOrder(s)) = Len(s)
         /\ \A i, j \in 1..Len(s) : i < j => ~Before(InOrder(s)[j], InOrder(s)[i])
         /\ \A k \in 1..Len(s) : \E i \in 1..Len(s) : InOrder(s)[k] = s[i]
         /\ \A x : Copies(x, InOrder(s)) = Copies(x, s)
<1> DEFINE n == Len(s)
           f == Sorting(s)
           t == InOrder(s)
<1>1. n \in Nat /\ DOMAIN s = 1..n /\ IsFiniteSet(1..n) /\ \A i \in 1..n : s[i] \in Paths
  BY FS_Interval
<1>2. /\ f \in Bijection(1..n, 1..n) /\ t = [k \in 1..n |-> s[f[k]]]
      /\ \A k, l \in 1..n : k < l => Precedes(s, f[k], f[l])
  BY SortingFacts
<1> HIDE DEF n, f, t
<1>3. \A k \in 1..n : f[k] \in 1..n
  BY <1>2 DEF Bijection, Injection
<1>4. t \in Seq(Paths) /\ Len(t) = n /\ DOMAIN t = 1..n
  <2>1. t \in [1..n -> Paths]
    BY <1>1, <1>2, <1>3
  <2> QED
    BY <1>1, <2>1
<1>5. ASSUME NEW i \in 1..n, NEW j \in 1..n, i < j
      PROVE  ~Before(t[j], t[i])
  <2>1. Precedes(s, f[i], f[j]) /\ t[i] = s[f[i]] /\ t[j] = s[f[j]]
    BY <1>2, <1>5
  <2>2. t[i] \in Paths /\ t[j] \in Paths
    BY <1>1, <1>3, <2>1
  <2> QED
    BY <2>1, <2>2, BeforeTransitive, BeforeIrreflexive DEF Precedes
<1>6. ASSUME NEW x
      PROVE  Copies(x, t) = Copies(x, s)
  <2> DEFINE S == {k \in 1..n : t[k] = x}
             T == {i \in 1..n : s[i] = x}
             g == [k \in S |-> f[k]]
  <2>1. IsFiniteSet(S)
    BY <1>1, FS_Subset
  <2>2. g \in Bijection(S, T)
    <3>1. g \in [S -> T]
      BY <1>2, <1>3
    <3>2. \A k, l \in S : g[k] = g[l] => k = l
      BY <1>2 DEF Bijection, Injection, IsInjective
    <3>3. \A i \in T : \E k \in S : g[k] = i
      BY <1>2 DEF Bijection, Surjection
    <3> HIDE DEF S, T, g
    <3>4. g \in Injection(S, T)
      BY <3>1, <3>2 DEF Injection, IsInjective
    <3>5. g \in Surjection(S, T)
      BY <3>1, <3>3 DEF Surjection
    <3> QED
      BY <3>4, <3>5 DEF Bijection
  <2> HIDE DEF S, T, g
  <2>3. Cardinality(T) = Cardinality(S)
    BY <2>1, <2>2, FS_Bijection DEF ExistsBijection
  <2> QED
    BY <1>1, <1>4, <2>3 DEF Copies, S, T
<1>7. \A k \in 1..n : \E i \in 1..n : t[k] = s[i]
  BY <1>2, <1>3
<1> QED
  BY <1>4, <1>5, <1>6, <1>7 DEF n, t

(***************************************************************************)
(* Paths and patterns                                                      *)
(***************************************************************************)

LEMMA NoWordFacts == NoWord.root \in Paths /\ NoWord.components \in Patterns /\ ~IsWild(NoWord)
BY DEF NoWord, Paths, Patterns, IsWild

LEMMA WordFacts ==
  ASSUME NEW w \in Words \cup {NoWord}
  PROVE  /\ w.root \in Paths /\ w.components \in Patterns
         /\ Len(w.root) \in Nat /\ Len(w.components) \in Nat
         /\ DOMAIN w.components = 1..Len(w.components)
         /\ IsWild(w) => Len(w.components) > 0
         /\ \A i \in 1..Len(w.components) :
              w.components[i].wild \in BOOLEAN /\ w.components[i].names \in SUBSET Int
<1>1. w.root \in Paths /\ w.components \in Patterns
  BY NoWordFacts, NamesAssumption
<1> DEFINE c == w.components
<1> DEFINE R == Components
<1>a. c \in Seq(R) /\ w.root \in Seq(Int)
  BY <1>1 DEF Paths, Patterns
<1> HIDE DEF R, c
<1>2. /\ Len(w.root) \in Nat /\ Len(c) \in Nat /\ DOMAIN c = 1..Len(c)
      /\ (c # <<>> => Len(c) > 0) /\ \A i \in 1..Len(c) : c[i] \in R
  BY <1>a
<1>3. \A i \in 1..Len(c) : c[i].wild \in BOOLEAN /\ c[i].names \in SUBSET Int
  BY <1>2 DEF R, Components
<1> QED
  BY <1>1, <1>2, <1>3 DEF c, IsWild

LEMMA PathFacts ==
  ASSUME NEW p \in Paths
  PROVE  Len(p) \in Nat /\ DOMAIN p = 1..Len(p) /\ \A i \in 1..Len(p) : p[i] \in Int
BY DEF Paths

LEMMA CutAppend ==
  ASSUME NEW p \in Paths, NEW name \in Int
  PROVE  LET path == Append(p, name)
         IN  /\ path \in Paths /\ Len(path) = Len(p) + 1 /\ path[Len(p) + 1] = name
             /\ \A i \in 1..Len(p) : path[i] = p[i]
             /\ \A n \in 0..Len(p) : SubSeq(path, 1, n) = SubSeq(p, 1, n)
             /\ SubSeq(path, 1, Len(p)) = p
<1> DEFINE path == Append(p, name)
<1> USE DEF Paths
<1>1. /\ path \in Seq(Int) /\ Len(path) = Len(p) + 1 /\ path[Len(p) + 1] = name
      /\ \A i \in 1..Len(p) : path[i] = p[i]
      /\ Len(p) \in Nat
  OBVIOUS
<1> HIDE DEF path
<1>2. ASSUME NEW n \in 0..Len(p)
      PROVE  SubSeq(path, 1, n) = SubSeq(p, 1, n)
  <2>1. /\ SubSeq(path, 1, n) \in Seq(Int) /\ Len(SubSeq(path, 1, n)) = n
        /\ \A i \in 1..n : SubSeq(path, 1, n)[i] = path[i]
    BY <1>1
  <2>2. /\ SubSeq(p, 1, n) \in Seq(Int) /\ Len(SubSeq(p, 1, n)) = n
        /\ \A i \in 1..n : SubSeq(p, 1, n)[i] = p[i]
    OBVIOUS
  <2> QED
    BY <1>1, <2>1, <2>2, SeqEqual
<1>3. SubSeq(p, 1, Len(p)) = p
  BY SubSeqFull
<1>4. SubSeq(path, 1, Len(p)) = p
  BY <1>1, <1>2, <1>3
<1> QED
  BY <1>1, <1>2, <1>4 DEF path

\* What the paths are that a word stands for.
LEMMA MatchFacts ==
  ASSUME NEW w \in Words \cup {NoWord}, NEW p
  PROVE  LET n == Len(w.components)
         IN  p \in Matches(w) <=>
               \E d \in DOMAIN Dirs : \E x :
                 /\ p = Append(d, x) /\ Len(d) = Len(w.root) + n - 1
                 /\ \A i \in 1..Len(w.root) : d[i] = w.root[i]
                 /\ w.components[n].wild /\ x \in Shown(w.components[n], d)
<1> DEFINE n == Len(w.components)
           last == w.components[n]
           dirs == {d \in DOMAIN Dirs : /\ Len(d) = Len(w.root) + n - 1
                                        /\ \A i \in 1..Len(w.root) : d[i] = w.root[i]}
<1>1. Matches(w) = IF last.wild THEN {Append(q[1], q[2]) : q \in
                                        {q \in dirs \X last.names : q[2] \in Shown(last, q[1])}}
                                ELSE {}
  BY DEF Matches
<1>2. \A d : d \in dirs <=> /\ d \in DOMAIN Dirs /\ Len(d) = Len(w.root) + n - 1
                            /\ \A i \in 1..Len(w.root) : d[i] = w.root[i]
  OBVIOUS
<1>3. \A d, x : x \in Shown(last, d) => x \in last.names
  BY DEF Shown
<1> HIDE DEF dirs, n, last
<1>4. p \in Matches(w) <=>
        \E d \in dirs : \E x : p = Append(d, x) /\ last.wild /\ x \in Shown(last, d)
  <2>1. ASSUME p \in Matches(w)
        PROVE  \E d \in dirs : \E x : p = Append(d, x) /\ last.wild /\ x \in Shown(last, d)
    <3>1. PICK q \in dirs \X last.names : q[2] \in Shown(last, q[1]) /\ p = Append(q[1], q[2])
      BY <1>1, <2>1
    <3>2. q[1] \in dirs /\ last.wild
      BY <1>1, <2>1, <3>1
    <3> QED
      BY <3>1, <3>2
  <2>2. ASSUME NEW d \in dirs, NEW x, p = Append(d, x), last.wild, x \in Shown(last, d)
        PROVE  p \in Matches(w)
    <3> DEFINE q == <<d, x>>
    <3>1. q \in dirs \X last.names /\ q[1] = d /\ q[2] = x
      BY <1>3, <2>2
    <3> HIDE DEF q
    <3>2. q[2] \in Shown(last, q[1]) /\ p = Append(q[1], q[2])
      BY <2>2, <3>1
    <3> QED
      BY <1>1, <2>2, <3>1, <3>2
  <2> QED
    BY <2>1, <2>2
<1> QED
  BY <1>2, <1>4 DEF n, last

(***************************************************************************)
(* The calls in progress                                                   *)
(***************************************************************************)

\* What is known of a call that has something left to expand.
LEMMA CallFacts ==
  ASSUME NEW w \in Words \cup {NoWord}, NEW f, OnTheWay(w, f), f.suffix # <<>>
  PROVE  LET k == Depth(w, f)
             n == Len(w.components)
         IN  /\ k \in Nat /\ k < n /\ Len(f.prefix) = Len(w.root) + k
             /\ f.prefix \in Paths
             /\ Head(f.suffix) = w.components[k + 1]
             /\ Tail(f.suffix) = SubSeq(w.components, k + 2, n)
             /\ Tail(f.suffix) = <<>> <=> k + 1 = n
<1> DEFINE k == Depth(w, f)
           n == Len(w.components)
           c == w.components
           r == Len(w.root)
           R == Components
<1>1. /\ n \in Nat /\ c \in Seq(R) /\ f.prefix \in Paths /\ k \in 0..n
      /\ f.suffix = SubSeq(c, k + 1, n) /\ r \in Nat
  BY WordFacts DEF OnTheWay, Patterns
<1>2. Len(f.prefix) \in Nat
  BY <1>1, PathFacts
<1>3. k = Len(f.prefix) - r
  BY DEF Depth
<1>4. n = Len(c)
  OBVIOUS
<1> HIDE DEF k, n, c, r, R
<1>5. k < n
  <2>1. CASE k = n
    <3>1. SubSeq(c, k + 1, n) = <<>>
      BY <1>1, <2>1, SubSeqEmpty
    <3> QED
      BY <1>1, <3>1
  <2> QED
    BY <1>1, <2>1
<1>6. k + 1 \in 1..Len(c) /\ n \in (k + 1)..Len(c)
  BY <1>1, <1>4, <1>5
<1>7. Head(f.suffix) = c[k + 1] /\ Tail(f.suffix) = SubSeq(c, (k + 1) + 1, n)
  BY <1>1, <1>6, HeadTailOfSubSeq
<1>8. (k + 1) + 1 = k + 2 /\ Len(f.prefix) = r + k
  BY <1>1, <1>2, <1>3
<1>9. SubSeq(c, k + 2, n) = <<>> <=> k + 1 = n
  <2>1. CASE k + 1 = n
    <3>1. n < k + 2
      BY <1>1, <2>1
    <3> QED
      BY <1>1, <2>1, <3>1, SubSeqEmpty
  <2>2. CASE k + 1 # n
    <3>1. k + 2 <= n /\ \A i \in (k + 2)..n : i \in 1..Len(c)
      BY <1>1, <1>4, <1>5, <2>2
    <3>2. Len(SubSeq(c, k + 2, n)) = n - (k + 2) + 1
      BY <1>1, <3>1, SubSeqProperties
    <3>3. n - (k + 2) + 1 # 0
      BY <1>1, <3>1
    <3> QED
      BY <2>2, <3>2, <3>3
  <2> QED
    BY <2>1, <2>2
<1>10. k \in Nat /\ k < n
  BY <1>1, <1>5
<1>11. Head(f.suffix) = c[k + 1] /\ Tail(f.suffix) = SubSeq(c, k + 2, n)
  BY <1>7, <1>8
<1>12. Tail(f.suffix) = <<>> <=> k + 1 = n
  BY <1>9, <1>11
<1>13. f.prefix \in Paths /\ Len(f.prefix) = r + k
  BY <1>1, <1>8
<1> QED
  BY <1>10, <1>11, <1>12, <1>13 DEF k, n, c, r

\* A call for one more name.
LEMMA OneFurther ==
  ASSUME NEW w \in Words \cup {NoWord}, NEW f, OnTheWay(w, f), f.suffix # <<>>, NEW name \in Int
  PROVE  OnTheWay(w, Call(Append(f.prefix, name), Tail(f.suffix)))
<1> DEFINE k == Depth(w, f)
           n == Len(w.components)
           r == Len(w.root)
           path == Append(f.prefix, name)
           g == Call(path, Tail(f.suffix))
<1>1. /\ k \in Nat /\ k < n /\ Len(f.prefix) = r + k /\ f.prefix \in Paths
      /\ Head(f.suffix) = w.components[k + 1]
      /\ Tail(f.suffix) = SubSeq(w.components, k + 2, n)
  BY CallFacts
<1>2. r \in Nat /\ n \in Nat
  BY WordFacts
<1>3. path \in Paths /\ Len(path) = Len(f.prefix) + 1
      /\ \A i \in 1..Len(f.prefix) : path[i] = f.prefix[i]
  BY <1>1, CutAppend
<1>5. \A i \in 1..r : f.prefix[i] = w.root[i]
  BY DEF OnTheWay
<1>6. g.prefix = path /\ g.suffix = Tail(f.suffix) /\ g.at = "call"
  BY DEF Call
<1> HIDE DEF k, path, g
<1>7. Depth(w, g) = k + 1
  <2>1. Depth(w, g) = Len(path) - r
    BY <1>6 DEF Depth
  <2> HIDE DEF r
  <2> QED
    BY <1>1, <1>2, <1>3, <2>1
<1>8. \A i \in 1..r : path[i] = w.root[i]
  <2> HIDE DEF r
  <2>1. \A i \in 1..r : i \in 1..Len(f.prefix)
    BY <1>1, <1>2
  <2> QED
    BY <1>3, <1>5, <2>1
<1>9. k + 1 \in 0..n /\ (k + 1) + 1 = k + 2
  <2> HIDE DEF n
  <2> QED
    BY <1>1, <1>2
<1>10. g.suffix = SubSeq(w.components, (k + 1) + 1, n)
  BY <1>1, <1>6, <1>9
<1>11. OnTheWay(w, g)
  BY <1>3, <1>6, <1>7, <1>8, <1>9, <1>10 DEF OnTheWay
<1> QED
  BY <1>11 DEF g, path

\* An entry: nothing of the pattern is left.
LEMMA EntryMatches ==
  ASSUME NEW w \in Words \cup {NoWord}, NEW f, OnTheWay(w, f), f.suffix # <<>>, f.at = "read",
         NEW name \in Shown(f.component, f.prefix), Tail(f.suffix) = <<>>
  PROVE  Append(f.prefix, name) \in Matches(w)
<1> DEFINE k == Depth(w, f)
           n == Len(w.components)
           r == Len(w.root)
<1>1. k \in Nat /\ Len(f.prefix) = r + k /\ k + 1 = n
  BY CallFacts
<1>2. r \in Nat
  BY WordFacts
<1>3. /\ \A i \in 1..r : f.prefix[i] = w.root[i]
      /\ f.component = w.components[n] /\ f.component.wild /\ f.prefix \in DOMAIN Dirs
  BY <1>1 DEF OnTheWay
<1> HIDE DEF k, n, r
<1>4. Len(f.prefix) = r + n - 1
  BY <1>1, <1>2
<1> QED
  BY <1>3, <1>4, MatchFacts DEF n, r

\* A path below another, with one more name and below one more.
LEMMA UnderFacts ==
  ASSUME NEW p \in Paths, NEW q \in Paths, NEW name \in Int
  PROVE  /\ Under(Append(p, name), p) /\ Append(p, name)[Len(p) + 1] = name
         /\ Under(q, Append(p, name)) => Under(q, p) /\ q[Len(p) + 1] = name
<1> DEFINE path == Append(p, name)
           n == Len(p)
           m == Len(q)
<1>1. n \in Nat /\ m \in Nat
  BY PathFacts
<1>2. Len(path) = n + 1 /\ path[n + 1] = name /\ \A i \in 1..n : path[i] = p[i]
  BY CutAppend
<1> HIDE DEF path, n, m
<1>3. Len(path) > n /\ \A i \in 1..n : i \in 1..(n + 1)
  BY <1>1, <1>2
<1>4. Under(path, p)
  BY <1>2, <1>3 DEF Under, n
<1>6. ASSUME Under(q, path)
      PROVE  Under(q, p) /\ q[n + 1] = name
  <2>1. m > n + 1 /\ \A i \in 1..(n + 1) : q[i] = path[i]
    BY <1>2, <1>6 DEF Under, m
  <2>2. m > n /\ n + 1 \in 1..(n + 1)
    BY <1>1, <2>1
  <2>3. \A i \in 1..n : q[i] = p[i]
    BY <1>2, <1>3, <2>1
  <2>4. q[n + 1] = path[n + 1]
    BY <2>1, <2>2
  <2> QED
    BY <1>2, <2>2, <2>3, <2>4 DEF Under, n, m
<1> QED
  BY <1>2, <1>4, <1>6 DEF path, n, m

\* What a call has read, it has read of what is further below.
LEMMA FurtherBelow ==
  ASSUME NEW p \in Paths, NEW f, f.prefix \in Paths, NEW name \in Int,
         Under(p, f.prefix), Passed(p, f)
  PROVE  Under(Append(p, name), f.prefix) /\ Passed(Append(p, name), f)
<1> DEFINE q == f.prefix
           path == Append(p, name)
<1>1. q \in Paths /\ Under(p, q)
  OBVIOUS
<1>2. Under(path, q) /\ path[Len(q) + 1] = p[Len(q) + 1]
  <2> DEFINE n == Len(p)
             m == Len(q)
  <2>1. n \in Nat /\ m \in Nat
    BY <1>1, PathFacts
  <2>2. Len(path) = n + 1 /\ \A i \in 1..n : path[i] = p[i]
    BY CutAppend
  <2>3. n > m /\ \A i \in 1..m : p[i] = q[i]
    BY <1>1 DEF Under
  <2> HIDE DEF path, n, m, q
  <2>4. m + 1 \in 1..n /\ Len(path) > m /\ \A i \in 1..m : i \in 1..n
    BY <2>1, <2>2, <2>3
  <2>5. path[m + 1] = p[m + 1] /\ \A i \in 1..m : path[i] = q[i]
    BY <2>2, <2>3, <2>4
  <2> QED
    BY <2>4, <2>5 DEF Under, m
<1> HIDE DEF path
<1>3. Passed(path, f)
  BY <1>2 DEF Passed
<1> QED
  BY <1>2, <1>3 DEF path

\* What a pattern of one component matches is below the root itself.
LEMMA SingleMatch ==
  ASSUME NEW w \in Words \cup {NoWord}, Len(w.components) = 1, NEW m \in Matches(w)
  PROVE  /\ m = Append(w.root, m[Len(w.root) + 1]) /\ w.root \in DOMAIN Dirs
         /\ m[Len(w.root) + 1] \in Shown(w.components[1], w.root) /\ w.components[1].wild
<1> DEFINE r == Len(w.root)
           n == Len(w.components)
<1>0. PICK d \in DOMAIN Dirs : \E x :
        /\ m = Append(d, x) /\ Len(d) = r + n - 1 /\ \A i \in 1..r : d[i] = w.root[i]
        /\ w.components[n].wild /\ x \in Shown(w.components[n], d)
  BY MatchFacts
<1>1. PICK x :
        /\ m = Append(d, x) /\ Len(d) = r + n - 1 /\ \A i \in 1..r : d[i] = w.root[i]
        /\ w.components[n].wild /\ x \in Shown(w.components[n], d)
  BY <1>0
<1>2. w.root \in Paths /\ r \in Nat /\ d \in Paths /\ Dirs[d] \subseteq Int /\ n = 1
  BY WordFacts, NamesAssumption
<1>3. x \in Int
  BY <1>1, <1>2 DEF Shown
<1>4. d = w.root
  <2>1. Len(d) = r
    <3> HIDE DEF r, n
    <3> QED
      BY <1>1, <1>2
  <2> QED
    BY <1>1, <1>2, <2>1, SeqEqual DEF Paths
<1> DEFINE path == Append(w.root, x)
<1>5. path[r + 1] = x
  BY <1>2, <1>3, CutAppend
<1>6. m = path
  BY <1>1, <1>4
<1> HIDE DEF path
<1>7. m[r + 1] = x
  BY <1>5, <1>6
<1> QED
  BY <1>1, <1>2, <1>4, <1>7

(***************************************************************************)
(* Steps of expand_wildcards                                               *)
(***************************************************************************)

\* A call returns that has nothing more to read.
LEMMA StageReturn ==
  ASSUME NEW w, NEW s, NEW t, NEW d, NEW b, Stage(w, s, d, b),
         DOMAIN t \subseteq DOMAIN s, \A i \in DOMAIN t : t[i] = s[i],
         Len(w.components) = 1 => \A m \in Matches(w) : ~ToRead(w, s, m)
  PROVE  Stage(w, t, d, b)
<1>1. \A i \in DOMAIN t : OnTheWay(w, t[i])
  BY DEF Stage
<1>2. Nested(t)
  BY DEF Stage, Nested
<1>3. Fresh(t, d, b)
  BY DEF Stage, Fresh
<1>4. Complete(w, t, d, b)
  BY DEF Stage, Complete
<1> QED
  BY <1>1, <1>2, <1>3, <1>4 DEF Stage

\* The call on top goes on.
LEMMA StageBecomes ==
  ASSUME NEW w, NEW s, NEW t, NEW d, NEW b, Stage(w, s, d, b),
         NEW n \in Nat, DOMAIN s = 1..n, DOMAIN t = 1..n, Len(s) = n, Len(t) = n, n > 0,
         \A i \in 1..n : i # n => t[i] = s[i],
         OnTheWay(w, t[n]),
         \A i \in 1..n : i # n => Under(t[n].prefix, s[i].prefix) /\ Passed(t[n].prefix, s[i]),
         \A j \in Entered(d, b) : Under(d[j], t[n].prefix) => Passed(d[j], t[n]),
         n = 1 /\ Len(w.components) = 1 => \A m \in Matches(w) : ToRead(w, s, m) => ToRead(w, t, m)
  PROVE  Stage(w, t, d, b)
<1>1. \A i \in DOMAIN t : OnTheWay(w, t[i])
  BY DEF Stage
<1>2. Nested(t)
  <2> SUFFICES ASSUME NEW i \in 1..n, NEW j \in 1..n, i < j
               PROVE  Under(t[j].prefix, t[i].prefix) /\ Passed(t[j].prefix, t[i])
    BY DEF Nested
  <2>1. i # n /\ t[i] = s[i]
    OBVIOUS
  <2>2. CASE j = n
    BY <2>1, <2>2
  <2>3. CASE j # n
    BY <2>1, <2>3 DEF Stage, Nested
  <2> QED
    BY <2>2, <2>3
<1>3. Fresh(t, d, b)
  <2> SUFFICES ASSUME NEW i \in 1..n, NEW j \in Entered(d, b), Under(d[j], t[i].prefix)
               PROVE  Passed(d[j], t[i])
    BY DEF Fresh
  <2>1. CASE i = n
    BY <2>1
  <2>2. CASE i # n
    BY <2>2 DEF Stage, Fresh
  <2> QED
    BY <2>1, <2>2
<1>4. Complete(w, t, d, b)
  BY DEF Stage, Complete, ToRead
<1> QED
  BY <1>1, <1>2, <1>3, <1>4 DEF Stage

\* The call on top, those below it, and the entries.
LEMMA TopFacts ==
  ASSUME Expanding, stack # <<>>
  PROVE  /\ word \in Words \cup {NoWord}
         /\ Len(stack) \in Nat /\ Len(stack) > 0 /\ DOMAIN stack = 1..Len(stack)
         /\ IsFrame(Top) /\ OnTheWay(word, Top) /\ Top.prefix \in Paths
         /\ \A i \in 1..Len(stack) : stack[i].prefix \in Paths
         /\ \A i \in 1..Len(stack) : i # Len(stack) =>
              Under(Top.prefix, stack[i].prefix) /\ Passed(Top.prefix, stack[i])
         /\ Len(dir_array) \in Nat /\ Len(before.entries) \in Nat
         /\ \A j \in Entered(dir_array, before.entries) :
              /\ dir_array[j] \in Paths /\ j \in 1..Len(dir_array)
              /\ Under(dir_array[j], Top.prefix) => Passed(dir_array[j], Top)
<1> DEFINE n == Len(stack)
           k == Len(dir_array)
           l == Len(before.entries)
<1>1. IsSeq(stack) /\ DOMAIN stack = 1..n /\ n \in Nat /\ n > 0 /\ IsFrame(Top)
  BY SeqFacts, Popped, TopFrame DEF Expanding, Inv
<1>2. word \in Words \cup {NoWord} /\ dir_array \in Seq(Paths) /\ before.entries \in Seq(Paths)
  BY DEF Expanding, Types
<1>3. k \in Nat /\ l \in Nat /\ \A j \in 1..k : dir_array[j] \in Paths
  BY <1>2
<1> HIDE DEF n, k, l
<1>4. \A j \in (l + 1)..k : j \in 1..k
  BY <1>3
<1>5. n \in 1..n /\ \A i \in 1..n : i # n => i < n
  BY <1>1
<1>6. Top = stack[n]
  BY DEF Top, n
<1>7. /\ \A i \in 1..n : OnTheWay(word, stack[i])
      /\ \A i \in 1..n : i # n => Under(Top.prefix, stack[i].prefix) /\ Passed(Top.prefix, stack[i])
      /\ \A j \in Entered(dir_array, before.entries) :
           Under(dir_array[j], Top.prefix) => Passed(dir_array[j], Top)
  BY <1>1, <1>5, <1>6 DEF Expanding, Stage, Nested, Fresh
<1>8. \A i \in 1..n : stack[i].prefix \in Paths
  BY <1>7 DEF OnTheWay
<1>9. \A j \in Entered(dir_array, before.entries) :
        dir_array[j] \in Paths /\ j \in 1..Len(dir_array)
  BY <1>3, <1>4 DEF Entered, k, l
<1>10. OnTheWay(word, Top) /\ Top.prefix \in Paths
  BY <1>5, <1>6, <1>7, <1>8
<1>11. /\ Len(stack) \in Nat /\ Len(stack) > 0 /\ DOMAIN stack = 1..Len(stack)
       /\ Len(dir_array) \in Nat /\ Len(before.entries) \in Nat
  BY <1>1, <1>3 DEF n, k, l
<1> QED
  BY <1>1, <1>2, <1>7, <1>8, <1>9, <1>10, <1>11 DEF n

\* A call for a word of one component has it to expand, below the root.
LEMMA SingleCall ==
  ASSUME Expanding, stack # <<>>, Len(word.components) = 1, NEW m \in Matches(word),
         ToRead(word, stack, m)
  PROVE  /\ Len(stack) = 1 /\ Top.prefix = word.root /\ Top.suffix # <<>>
         /\ Component = word.components[1] /\ Suffix = <<>>
         /\ Component.wild /\ Top.prefix \in DOMAIN Dirs
         /\ m = Append(Top.prefix, m[Len(word.root) + 1])
         /\ m[Len(word.root) + 1] \in Dirs[Top.prefix]
         /\ Top.at = "read" =>
              m[Len(word.root) + 1] \in Top.left /\ Visible(m[Len(word.root) + 1])
<1> DEFINE r == Len(word.root)
           x == m[r + 1]
           n == Len(word.components)
<1>1. /\ word \in Words \cup {NoWord} /\ OnTheWay(word, Top) /\ Top.prefix \in Paths
      /\ n = 1 /\ r \in Nat
  BY TopFacts, WordFacts
<1>2. Len(stack) = 1 /\ Top = stack[1] /\ Top.prefix = word.root
      /\ (Top.at = "call" \/ x \in Top.left)
  BY DEF ToRead, Top
<1>3. /\ m = Append(word.root, x) /\ word.root \in DOMAIN Dirs
      /\ x \in Shown(word.components[1], word.root) /\ word.components[1].wild
  BY <1>1, SingleMatch
<1>4. Depth(word, Top) = 0
  <2>1. Depth(word, Top) = r - r
    BY <1>2 DEF Depth
  <2> HIDE DEF r
  <2> QED
    BY <1>1, <2>1
<1>5. Top.suffix # <<>>
  <2>1. Top.suffix = SubSeq(word.components, 0 + 1, 1)
    BY <1>1, <1>4 DEF OnTheWay
  <2> DEFINE c == word.components
             R == Components
  <2>2. c \in Seq(R) /\ Len(c) = 1
    BY <1>1, WordFacts DEF Patterns
  <2> HIDE DEF c, R
  <2>3. \A i \in 1..1 : i \in 1..Len(c)
    BY <2>2
  <2>4. Len(SubSeq(c, 1, 1)) = 1 - 1 + 1
    BY <2>2, <2>3, SubSeqProperties
  <2>5. Top.suffix = SubSeq(c, 1, 1)
    BY <2>1 DEF c
  <2>6. Len(<<>>) = 0 /\ Len(Top.suffix) = 1
    BY <2>4, <2>5
  <2> QED
    BY <2>6
<1>6. Head(Top.suffix) = word.components[0 + 1] /\ (Tail(Top.suffix) = <<>> <=> 0 + 1 = 1)
  BY <1>1, <1>4, <1>5, CallFacts
<1>7. Component = word.components[1] /\ Suffix = <<>>
  BY <1>6 DEF Component, Suffix
<1>8. Top.prefix \in DOMAIN Dirs /\ x \in Dirs[Top.prefix]
  BY <1>2, <1>3 DEF Shown
<1>9. ASSUME Top.at = "read"
      PROVE  x \in Top.left /\ Visible(x)
  <2>1. Top.component = word.components[1]
    BY <1>1, <1>4, <1>9 DEF OnTheWay
  <2> QED
    BY <1>2, <1>3, <1>9, <2>1 DEF Shown, Visible
<1> QED
  BY <1>2, <1>3, <1>5, <1>7, <1>8, <1>9

\* A component matches names.
LEMMA ComponentNames ==
  ASSUME word \in Words \cup {NoWord}, OnTheWay(word, Top), Top.suffix # <<>>
  PROVE  Component.names \in SUBSET Int
<1>1. Len(word.components) \in Nat
      /\ \A i \in 1..Len(word.components) : word.components[i].names \in SUBSET Int
  BY WordFacts
<1>2. PICK k \in Nat : k < Len(word.components) /\ Head(Top.suffix) = word.components[k + 1]
  BY CallFacts
<1> DEFINE l == Len(word.components)
<1>3. l \in Nat /\ k < l
  BY <1>1, <1>2
<1> HIDE DEF l
<1>4. k + 1 \in 1..l
  BY <1>2, <1>3
<1> QED
  BY <1>1, <1>2, <1>4 DEF Component, l

\* The beginning of a call keeps to the way.
LEMMA EnterStage ==
  ASSUME Expanding, Enter
  PROVE  Stage(word, stack', dir_array, before.entries)
<1> DEFINE n == Len(stack)
           d == dir_array
           b == before.entries
<1>0. stack # <<>> /\ Top.at = "call" /\ IsSeq(stack) /\ Stage(word, stack, d, b)
  BY DEF Enter, Expanding, Inv
<1>1. /\ word \in Words \cup {NoWord} /\ n \in Nat /\ n > 0 /\ DOMAIN stack = 1..n
      /\ IsFrame(Top) /\ OnTheWay(word, Top) /\ Top.prefix \in Paths
      /\ \A i \in 1..n : stack[i].prefix \in Paths
      /\ \A i \in 1..n : i # n =>
           Under(Top.prefix, stack[i].prefix) /\ Passed(Top.prefix, stack[i])
      /\ \A j \in Entered(d, b) :
           d[j] \in Paths /\ (Under(d[j], Top.prefix) => Passed(d[j], Top))
  BY <1>0, TopFacts
<1>a. \A j \in Entered(d, b) : ~Under(d[j], Top.prefix)
  BY <1>0, <1>1 DEF Passed
<1>b. \A m \in Matches(word) : Len(word.components) = 1 /\ ToRead(word, stack, m) =>
        /\ Top.suffix # <<>> /\ Suffix = <<>> /\ Component.wild /\ Top.prefix \in DOMAIN Dirs
        /\ n = 1 /\ Top.prefix = word.root /\ m[Len(word.root) + 1] \in Dirs[Top.prefix]
  BY <1>0, SingleCall
<1>c. Suffix = <<>> => Copied = {Component}
  BY DEF Copied
<1>r. ASSUME Return, \/ Top.suffix = <<>>
                     \/ Suffix # <<>>
                     \/ Top.prefix \notin DOMAIN Dirs
      PROVE  Stage(word, stack', d, b)
  <2>1. DOMAIN stack' = 1..(n - 1) /\ \A i \in 1..(n - 1) : stack'[i] = stack[i]
    BY <1>0, <1>r, Popped DEF Return
  <2>2. \A i \in 1..(n - 1) : i \in 1..n
    <3>1. n \in Nat
      BY <1>1
    <3> HIDE DEF n
    <3> QED
      BY <3>1
  <2>3. Len(word.components) = 1 => \A m \in Matches(word) : ~ToRead(word, stack, m)
    BY <1>b, <1>r
  <2> QED
    BY <1>0, <1>1, <2>1, <2>2, <2>3, StageReturn
<1>s. ASSUME NEW g, Becomes(g)
      PROVE  /\ DOMAIN stack' = 1..n /\ Len(stack') = n /\ stack'[n] = g
             /\ \A i \in 1..n : i # n => stack'[i] = stack[i]
  BY <1>0, <1>1, <1>s, Retopped DEF Becomes
<1>p. ASSUME Top.suffix # <<>>, NEW component \in Copied, ~component.wild,
             NEW name \in component.names, Becomes(Call(Append(Top.prefix, name), Suffix))
      PROVE  Stage(word, stack', d, b)
  <2> DEFINE path == Append(Top.prefix, name)
             g == Call(path, Suffix)
  <2>1. g.prefix = path
    BY DEF Call
  <2>2. name \in Int
    <3>1. Component.names \in SUBSET Int
      BY <1>1, <1>p, ComponentNames
    <3>2. component = Component \/ component \in Stale
      BY <1>p DEF Copied, AsRead
    <3>3. component.names \in SUBSET Int
      BY <3>1, <3>2, NamesAssumption DEF Components
    <3> QED
      BY <1>p, <3>3
  <2>4. OnTheWay(word, g)
    BY <1>1, <1>p, <2>2, OneFurther DEF Suffix
  <2> HIDE DEF path
  <2>5. ASSUME NEW i \in 1..n, i # n
        PROVE  Under(path, stack[i].prefix) /\ Passed(path, stack[i])
    <3> DEFINE f == stack[i]
    <3>1. Under(Top.prefix, f.prefix) /\ Passed(Top.prefix, f) /\ f.prefix \in Paths
      BY <1>1, <2>5
    <3> HIDE DEF f
    <3>2. Under(path, f.prefix) /\ Passed(path, f)
      BY <1>1, <2>2, <3>1, FurtherBelow DEF path
    <3> QED
      BY <3>2 DEF f
  <2>6. \A j \in Entered(d, b) : ~Under(d[j], path)
    BY <1>1, <1>a, <2>2, UnderFacts DEF path
  <2>7. Becomes(g)
    BY <1>p DEF path
  <2> HIDE DEF g
  <2>8. Len(word.components) = 1 => \A m \in Matches(word) : ~ToRead(word, stack, m)
    <3>1. Suffix = <<>> => ~Component.wild
      BY <1>c, <1>p
    <3> QED
      BY <1>b, <3>1
  <2>9. /\ DOMAIN stack' = 1..n /\ Len(stack') = n /\ stack'[n] = g
        /\ \A i \in 1..n : i # n => stack'[i] = stack[i]
    BY <1>s, <2>7
  <2> HIDE DEF d, b
  <2> QED
    BY <1>0, <1>1, <2>1, <2>4, <2>5, <2>6, <2>8, <2>9, StageBecomes DEF n
<1>w. ASSUME Top.suffix # <<>>, NEW component \in Copied, component.wild,
             Top.prefix \in DOMAIN Dirs,
             Becomes([Top EXCEPT !.at = "read", !.left = Dirs[Top.prefix],
                                 !.component = component])
      PROVE  Stage(word, stack', d, b)
  <2> DEFINE g == [Top EXCEPT !.at = "read", !.left = Dirs[Top.prefix],
                              !.component = component]
  <2>1. g.prefix = Top.prefix /\ g.suffix = Top.suffix /\ g.at = "read"
        /\ g.left = Dirs[Top.prefix] /\ g.component = component
    <3>1. IsFrame(Top)
      BY <1>1
    <3>2. g = Opened(Top, Dirs[Top.prefix], component)
      BY DEF Opened
    <3> HIDE DEF g
    <3> QED
      BY <3>1, <3>2, ReadFrame
  <2>2. Becomes(g)
    BY <1>w
  <2> HIDE DEF g
  <2>3. OnTheWay(word, g)
    <3>1. /\ Depth(word, Top) < Len(word.components)
          /\ Depth(word, Top) + 1 = Len(word.components) =>
               /\ Suffix = <<>> /\ Component = word.components[Len(word.components)]
      BY <1>1, <1>w, CallFacts DEF Component, Suffix
    <3>2. Depth(word, g) = Depth(word, Top)
      BY <2>1 DEF Depth
    <3>3. Depth(word, Top) + 1 = Len(word.components) =>
            component = word.components[Len(word.components)]
      BY <1>c, <1>w, <3>1
    <3> QED
      BY <1>1, <1>w, <2>1, <3>1, <3>2, <3>3 DEF OnTheWay
  <2>4. /\ DOMAIN stack' = 1..n /\ Len(stack') = n /\ stack'[n] = g
        /\ \A i \in 1..n : i # n => stack'[i] = stack[i]
    BY <1>s, <2>2
  <2>5. n = 1 /\ Len(word.components) = 1 =>
          \A m \in Matches(word) : ToRead(word, stack, m) => ToRead(word, stack', m)
    BY <1>b, <2>1, <2>4 DEF ToRead
  <2> HIDE DEF d, b
  <2> QED
    BY <1>0, <1>1, <1>a, <2>1, <2>3, <2>4, <2>5, StageBecomes DEF n
<1>2. \/ Top.suffix = <<>> /\ Return
      \/ Suffix # <<>> /\ Return
      \/ /\ Top.suffix # <<>>
         /\ \E component \in Copied : \E name \in component.names :
              ~component.wild /\ Becomes(Call(Append(Top.prefix, name), Suffix))
      \/ Top.prefix \notin DOMAIN Dirs /\ Return
      \/ /\ Top.suffix # <<>> /\ Top.prefix \in DOMAIN Dirs
         /\ \E component \in Copied :
              /\ component.wild
              /\ Becomes([Top EXCEPT !.at = "read", !.left = Dirs[Top.prefix],
                                     !.component = component])
  BY DEF Enter
<1> QED
  BY <1>2, <1>r, <1>p, <1>w

\* A directory has been read.
LEMMA CloseStage ==
  ASSUME Expanding, CloseDir
  PROVE  Stage(word, stack', dir_array, before.entries)
<1> DEFINE n == Len(stack)
<1>1. /\ stack # <<>> /\ Top.at = "read" /\ Top.left = {} /\ Return /\ IsSeq(stack)
      /\ Stage(word, stack, dir_array, before.entries)
  BY DEF CloseDir, Expanding, Inv
<1>2. DOMAIN stack = 1..n /\ n \in Nat
  BY <1>1, TopFacts
<1>3. DOMAIN stack' = 1..(n - 1) /\ \A i \in 1..(n - 1) : stack'[i] = stack[i]
  BY <1>1, Popped DEF Return
<1>4. \A i \in 1..(n - 1) : i \in 1..n
  BY <1>2
<1>5. Len(word.components) = 1 => \A m \in Matches(word) : ~ToRead(word, stack, m)
  BY <1>1, SingleCall
<1> QED
  BY <1>1, <1>2, <1>3, <1>4, <1>5, StageReturn

\* The call that has read one more name.
LEMMA RestFacts ==
  ASSUME Expanding, NEW name, Read(name), NEW g, g = [Top EXCEPT !.left = @ \ {name}]
  PROVE  /\ g.prefix = Top.prefix /\ g.suffix = Top.suffix /\ g.at = "read"
         /\ g.left = Top.left \ {name} /\ OnTheWay(word, g)
         /\ \A p : Passed(p, Top) => Passed(p, g)
         /\ \A p : p[Len(Top.prefix) + 1] = name => Passed(p, g)
<1>1. stack # <<>> /\ Top.at = "read" /\ name \in Top.left
  BY DEF Read
<1>2. IsFrame(Top) /\ OnTheWay(word, Top)
  BY <1>1, TopFacts
<1>3. g.prefix = Top.prefix /\ g.suffix = Top.suffix /\ g.at = "read" /\ g.left = Top.left \ {name}
      /\ g.component = Top.component
  BY <1>1, <1>2, KeptFrame
<1>4. Depth(word, g) = Depth(word, Top)
  BY <1>3 DEF Depth
<1>5. OnTheWay(word, g)
  BY <1>1, <1>2, <1>3, <1>4 DEF OnTheWay
<1>6. \A p : Passed(p, Top) => Passed(p, g)
  BY <1>1, <1>3 DEF Passed
<1>7. \A p : p[Len(Top.prefix) + 1] = name => Passed(p, g)
  BY <1>3 DEF Passed
<1> QED
  BY <1>3, <1>5, <1>6, <1>7

\* What a name is that is kept: a number, and a step of the way.
LEMMA KeptFacts ==
  ASSUME Expanding, NEW name, Read(name)
  PROVE  /\ name \in Int
         /\ Top.suffix # <<>>
         /\ Visible(name) => name \in Shown(Top.component, Top.prefix)
<1>1. stack # <<>> /\ Top.at = "read" /\ name \in Top.left
  BY DEF Read
<1>2. OnTheWay(word, Top) /\ word \in Words \cup {NoWord}
  BY <1>1, TopFacts
<1>3. /\ Depth(word, Top) < Len(word.components) /\ Depth(word, Top) \in 0..Len(word.components)
      /\ Top.prefix \in DOMAIN Dirs /\ name \in Dirs[Top.prefix]
      /\ Top.suffix = SubSeq(word.components, Depth(word, Top) + 1, Len(word.components))
  BY <1>1, <1>2 DEF OnTheWay
<1>4. name \in Int
  BY <1>3, NamesAssumption
<1>5. Top.suffix # <<>>
  <2> DEFINE c == word.components
             l == Len(c)
             k == Depth(word, Top)
             R == Components
  <2>1. c \in Seq(R) /\ l \in Nat
    BY <1>2, WordFacts DEF Patterns
  <2>2. k < l /\ k \in 0..l /\ Top.suffix = SubSeq(c, k + 1, l)
    BY <1>3
  <2>a. l = Len(c)
    OBVIOUS
  <2> HIDE DEF c, k, R, l
  <2>3. k + 1 <= l /\ \A i \in (k + 1)..l : i \in 1..Len(c)
    BY <2>1, <2>2, <2>a
  <2>4. Len(SubSeq(c, k + 1, l)) = l - (k + 1) + 1
    BY <2>1, <2>2, <2>3, SubSeqProperties
  <2>5. l - (k + 1) + 1 # 0
    BY <2>1, <2>2
  <2>6. Len(Top.suffix) # 0 /\ Len(<<>>) = 0
    BY <2>2, <2>4, <2>5
  <2> QED
    BY <2>6
<1>6. Visible(name) => name \in Shown(Top.component, Top.prefix)
  BY <1>3 DEF Visible, Shown
<1> QED
  BY <1>4, <1>5, <1>6

\* A name is read that is not kept.
LEMMA SkipStage ==
  ASSUME Expanding, NEW name, Read(name), ~Visible(name)
  PROVE  Stage(word, stack', dir_array', before.entries)
<1> DEFINE n == Len(stack)
           d == dir_array
           b == before.entries
           g == [Top EXCEPT !.left = @ \ {name}]
<1>1. /\ stack # <<>> /\ Top.at = "read" /\ Becomes(g) /\ dir_array' = d
      /\ IsSeq(stack) /\ Stage(word, stack, d, b)
  BY DEF Read, Expanding, Inv
<1>2. /\ n \in Nat /\ n > 0 /\ DOMAIN stack = 1..n
      /\ \A i \in 1..n : i # n =>
           Under(Top.prefix, stack[i].prefix) /\ Passed(Top.prefix, stack[i])
      /\ \A j \in Entered(d, b) : Under(d[j], Top.prefix) => Passed(d[j], Top)
  BY <1>1, TopFacts
<1>3. /\ g.prefix = Top.prefix /\ g.at = "read" /\ g.left = Top.left \ {name}
      /\ OnTheWay(word, g) /\ \A p : Passed(p, Top) => Passed(p, g)
  BY RestFacts
<1> HIDE DEF g
<1>4. /\ DOMAIN stack' = 1..n /\ Len(stack') = n /\ stack'[n] = g
      /\ \A i \in 1..n : i # n => stack'[i] = stack[i]
  BY <1>1, <1>2, Retopped DEF Becomes
<1>5. ASSUME n = 1, Len(word.components) = 1, NEW m \in Matches(word), ToRead(word, stack, m)
      PROVE  ToRead(word, stack', m)
  <2>1. /\ Top.prefix = word.root /\ Visible(m[Len(word.root) + 1])
        /\ m[Len(word.root) + 1] \in Top.left
    BY <1>1, <1>5, SingleCall
  <2>2. m[Len(word.root) + 1] \in g.left
    BY <1>3, <2>1
  <2>3. Len(stack') = 1 /\ stack'[1] = g
    BY <1>4, <1>5
  <2> QED
    BY <1>3, <2>1, <2>2, <2>3 DEF ToRead
<1> HIDE DEF d, b
<1>6. Stage(word, stack', d, b)
  BY <1>1, <1>2, <1>3, <1>4, <1>5, StageBecomes DEF n
<1> QED
  BY <1>1, <1>6 DEF d, b

\* A name is read that is kept, and nothing of the pattern is left: an entry.
LEMMA EntryStage ==
  ASSUME Expanding, NEW name, Read(name), Visible(name), Suffix = <<>>
  PROVE  Stage(word, stack', dir_array', before.entries)
<1> DEFINE n == Len(stack)
           d == dir_array
           b == before.entries
           k == Len(d)
           l == Len(b)
           e == dir_array'
           t == stack'
           path == Append(Top.prefix, name)
           g == [Top EXCEPT !.left = @ \ {name}]
<1>1. /\ stack # <<>> /\ Top.at = "read" /\ name \in Top.left
      /\ Becomes(g) /\ e = Append(d, path)
      /\ IsSeq(stack) /\ IsSeq(d) /\ Stage(word, stack, d, b)
  BY DEF Read, Expanding, Inv
<1>2. /\ word \in Words \cup {NoWord} /\ OnTheWay(word, Top) /\ Top.prefix \in Paths
      /\ n \in Nat /\ n > 0 /\ DOMAIN stack = 1..n /\ k \in Nat /\ l \in Nat
      /\ \A i \in 1..n : stack[i].prefix \in Paths
      /\ \A i \in 1..n : i # n =>
           Under(Top.prefix, stack[i].prefix) /\ Passed(Top.prefix, stack[i])
      /\ \A j \in Entered(d, b) : Under(d[j], Top.prefix) => Passed(d[j], Top)
  BY <1>1, TopFacts
<1>3. /\ g.prefix = Top.prefix /\ g.at = "read" /\ g.left = Top.left \ {name}
      /\ OnTheWay(word, g) /\ \A p : Passed(p, Top) => Passed(p, g)
      /\ \A p : p[Len(Top.prefix) + 1] = name => Passed(p, g)
  BY RestFacts
<1> HIDE DEF g
<1>4. name \in Int /\ Top.suffix # <<>> /\ name \in Shown(Top.component, Top.prefix)
  BY KeptFacts
<1>5. path \in Matches(word)
  BY <1>1, <1>2, <1>4, EntryMatches DEF Suffix
<1>6. Under(path, Top.prefix) /\ path[Len(Top.prefix) + 1] = name
  BY <1>2, <1>4, UnderFacts
<1>7. ~Passed(path, Top)
  BY <1>1, <1>6 DEF Passed
<1> HIDE DEF path
<1>8. /\ DOMAIN t = 1..n /\ Len(t) = n /\ t[n] = g
      /\ \A i \in 1..n : i # n => t[i] = stack[i]
  BY <1>1, <1>2, Retopped DEF Becomes
<1> HIDE DEF t
<1>9. Len(e) = k + 1 /\ e[k + 1] = path /\ \A j \in 1..k : e[j] = d[j]
  BY <1>1, Appended
<1> HIDE DEF e
<1>10. /\ l <= k /\ \A i \in 1..l : d[i] = b[i]
       /\ \A j \in Entered(d, b) : d[j] \in Matches(word)
       /\ \A i, j \in Entered(d, b) : d[i] = d[j] => i = j
  BY <1>1 DEF Stage, Collected
<1>11. Entered(d, b) = (l + 1)..k /\ Entered(e, b) = (l + 1)..(k + 1)
  BY <1>9 DEF Entered
<1> HIDE DEF k, l, n
<1>12. /\ Entered(e, b) = Entered(d, b) \cup {k + 1} /\ k + 1 \notin Entered(d, b)
       /\ \A j \in Entered(d, b) : e[j] = d[j]
  BY <1>2, <1>9, <1>10, <1>11
<1>13. \A j \in Entered(d, b) : d[j] # path
  BY <1>2, <1>6, <1>7
<1>14. Collected(word, e, b)
  <2>1. \A j \in Entered(e, b) : e[j] \in Matches(word)
    BY <1>5, <1>9, <1>10, <1>12
  <2>2. \A i, j \in Entered(e, b) : e[i] = e[j] => i = j
    BY <1>9, <1>10, <1>12, <1>13
  <2>3. l <= k + 1 /\ \A i \in 1..l : e[i] = b[i]
    BY <1>2, <1>9, <1>10
  <2> QED
    BY <1>9, <2>1, <2>2, <2>3 DEF Collected, l
<1>15. Fresh(t, e, b)
  <2> SUFFICES ASSUME NEW i \in 1..n, NEW j \in Entered(e, b), Under(e[j], t[i].prefix)
               PROVE  Passed(e[j], t[i])
    BY <1>8 DEF Fresh
  <2>1. CASE i = n /\ j = k + 1
    BY <1>3, <1>6, <1>8, <1>9, <2>1
  <2>2. CASE i = n /\ j \in Entered(d, b)
    BY <1>2, <1>3, <1>8, <1>12, <2>2
  <2>3. CASE i # n /\ j = k + 1
    <3> DEFINE f == stack[i]
    <3>1. Under(Top.prefix, f.prefix) /\ Passed(Top.prefix, f) /\ f.prefix \in Paths
      BY <1>2, <2>3
    <3>2. t[i] = f /\ e[j] = path
      BY <1>8, <1>9, <2>3
    <3> HIDE DEF f
    <3>3. Passed(path, f)
      BY <1>2, <1>4, <3>1, FurtherBelow DEF path
    <3> QED
      BY <3>2, <3>3
  <2>4. CASE i # n /\ j \in Entered(d, b)
    <3>1. t[i] = stack[i] /\ e[j] = d[j] /\ Fresh(stack, d, b) /\ i \in DOMAIN stack
      BY <1>1, <1>2, <1>8, <1>12, <2>4 DEF Stage
    <3> QED
      BY <2>4, <3>1 DEF Fresh
  <2> QED
    BY <1>12, <2>1, <2>2, <2>3, <2>4
<1>16. Complete(word, t, e, b)
  <2> SUFFICES ASSUME Len(word.components) = 1, NEW m \in Matches(word),
                      ~(\E j \in Entered(e, b) : e[j] = m)
               PROVE  ToRead(word, t, m)
    BY DEF Complete
  <2>1. m # path /\ ~(\E j \in Entered(d, b) : d[j] = m)
    BY <1>9, <1>12
  <2>2. ToRead(word, stack, m)
    BY <1>1, <2>1 DEF Stage, Complete
  <2> DEFINE x == m[Len(word.root) + 1]
  <2>3. n = 1 /\ Top.prefix = word.root /\ m = Append(Top.prefix, x) /\ x \in Top.left
    BY <1>1, <2>2, SingleCall DEF n
  <2> HIDE DEF x
  <2>4. x # name
    BY <2>1, <2>3 DEF path
  <2>5. x \in g.left /\ g.prefix = word.root
    BY <1>3, <2>3, <2>4
  <2> QED
    BY <1>8, <2>3, <2>5 DEF ToRead, x
<1>17. Nested(t)
  <2> SUFFICES ASSUME NEW i \in 1..n, NEW j \in 1..n, i < j
               PROVE  Under(t[j].prefix, t[i].prefix) /\ Passed(t[j].prefix, t[i])
    BY <1>8 DEF Nested
  <2>1. i # n /\ t[i] = stack[i]
    BY <1>2, <1>8
  <2>2. CASE j = n
    BY <1>2, <1>3, <1>8, <2>1, <2>2
  <2>3. CASE j # n
    BY <1>1, <1>2, <1>8, <2>1, <2>3 DEF Stage, Nested
  <2> QED
    BY <2>2, <2>3
<1>18. \A i \in DOMAIN t : OnTheWay(word, t[i])
  BY <1>1, <1>2, <1>3, <1>8 DEF Stage
<1>19. Stage(word, t, e, b)
  BY <1>14, <1>15, <1>16, <1>17, <1>18 DEF Stage
<1> QED
  BY <1>19 DEF t, e, b

\* A name is read that is kept, and something of the pattern is left: a call.
LEMMA PushStage ==
  ASSUME Expanding, NEW name, Read(name), Visible(name), Suffix # <<>>
  PROVE  Stage(word, stack', dir_array', before.entries)
<1> DEFINE n == Len(stack)
           d == dir_array
           b == before.entries
           t == stack'
           path == Append(Top.prefix, name)
           c == Call(path, Suffix)
           g == [Top EXCEPT !.left = @ \ {name}]
<1>1. /\ stack # <<>> /\ Top.at = "read" /\ name \in Top.left
      /\ stack' = Append(Front(stack), g) \o <<c>> /\ dir_array' = d
      /\ IsSeq(stack) /\ Stage(word, stack, d, b)
  BY DEF Read, Expanding, Inv
<1>2. /\ word \in Words \cup {NoWord} /\ OnTheWay(word, Top) /\ Top.prefix \in Paths
      /\ n \in Nat /\ n > 0 /\ DOMAIN stack = 1..n
      /\ \A i \in 1..n : stack[i].prefix \in Paths
      /\ \A i \in 1..n : i # n =>
           Under(Top.prefix, stack[i].prefix) /\ Passed(Top.prefix, stack[i])
      /\ \A j \in Entered(d, b) :
           d[j] \in Paths /\ (Under(d[j], Top.prefix) => Passed(d[j], Top))
  BY <1>1, TopFacts
<1>3. /\ g.prefix = Top.prefix /\ g.at = "read" /\ g.left = Top.left \ {name}
      /\ OnTheWay(word, g) /\ \A p : Passed(p, Top) => Passed(p, g)
      /\ \A p : p[Len(Top.prefix) + 1] = name => Passed(p, g)
  BY RestFacts
<1> HIDE DEF g
<1>4. name \in Int /\ Top.suffix # <<>> /\ name \in Shown(Top.component, Top.prefix)
  BY KeptFacts
<1>5. OnTheWay(word, c)
  BY <1>2, <1>4, OneFurther DEF Suffix
<1>6. Under(path, Top.prefix) /\ path[Len(Top.prefix) + 1] = name
  BY <1>2, <1>4, UnderFacts
<1>7. \A j \in Entered(d, b) : ~Under(d[j], path)
  <2> SUFFICES ASSUME NEW j \in Entered(d, b), Under(d[j], path)
               PROVE  FALSE
    OBVIOUS
  <2> DEFINE q == d[j]
             p == Top.prefix
  <2>a. q \in Paths /\ p \in Paths /\ name \in Int /\ Under(q, Append(p, name))
    BY <1>2, <1>4
  <2> HIDE DEF q, p
  <2>b. Under(q, p) /\ q[Len(p) + 1] = name
    BY <2>a, UnderFacts
  <2>1. Under(d[j], Top.prefix) /\ d[j][Len(Top.prefix) + 1] = name
    BY <2>b DEF q, p
  <2> QED
    BY <1>1, <1>2, <2>1 DEF Passed
<1>8. c.prefix = path /\ c.at = "call"
  BY DEF Call
<1> HIDE DEF path, c
<1>9. /\ DOMAIN t = 1..(n + 1) /\ Len(t) = n + 1 /\ t[n + 1] = c /\ t[n] = g
      /\ \A i \in 1..(n - 1) : t[i] = stack[i]
  BY <1>1, PushShape
<1> HIDE DEF t, n
<1>a. \A i \in 1..(n + 1) : i = n + 1 \/ i = n \/ (i \in 1..(n - 1) /\ i \in 1..n /\ i # n)
  BY <1>2
<1>10. \A i \in DOMAIN t : OnTheWay(word, t[i])
  BY <1>1, <1>2, <1>3, <1>5, <1>9, <1>a DEF Stage
<1>11. ASSUME NEW i \in 1..(n - 1)
       PROVE  Under(path, t[i].prefix) /\ Passed(path, t[i])
  <2> DEFINE f == stack[i]
  <2>1. i \in 1..n /\ i # n /\ t[i] = f
    BY <1>2, <1>9
  <2>2. Under(Top.prefix, f.prefix) /\ Passed(Top.prefix, f) /\ f.prefix \in Paths
    BY <1>2, <2>1
  <2> HIDE DEF f
  <2>3. Under(path, f.prefix) /\ Passed(path, f)
    BY <1>2, <1>4, <2>2, FurtherBelow DEF path
  <2> QED
    BY <2>1, <2>3
<1>12. Nested(t)
  <2> SUFFICES ASSUME NEW i \in 1..(n + 1), NEW j \in 1..(n + 1), i < j
               PROVE  Under(t[j].prefix, t[i].prefix) /\ Passed(t[j].prefix, t[i])
    BY <1>9 DEF Nested
  <2>1. CASE j = n + 1 /\ i = n
    BY <1>3, <1>6, <1>8, <1>9, <2>1
  <2>2. CASE j = n + 1 /\ i \in 1..(n - 1)
    BY <1>8, <1>9, <1>11, <2>2
  <2>3. CASE j = n /\ i \in 1..(n - 1)
    <3>1. i \in 1..n /\ i # n /\ t[i] = stack[i] /\ t[j] = g
      BY <1>2, <1>9, <2>3
    <3> QED
      BY <1>2, <1>3, <3>1
  <2>4. CASE j \in 1..(n - 1) /\ i \in 1..(n - 1)
    <3>1. i \in DOMAIN stack /\ j \in DOMAIN stack /\ t[i] = stack[i] /\ t[j] = stack[j]
      BY <1>2, <1>9, <2>4
    <3> QED
      BY <1>1, <3>1 DEF Stage, Nested
  <2>5. \/ j = n + 1 /\ i = n
        \/ j = n + 1 /\ i \in 1..(n - 1)
        \/ j = n /\ i \in 1..(n - 1)
        \/ j \in 1..(n - 1) /\ i \in 1..(n - 1)
    BY <1>2
  <2> QED
    BY <2>1, <2>2, <2>3, <2>4, <2>5
<1>13. Fresh(t, d, b)
  <2> SUFFICES ASSUME NEW i \in 1..(n + 1), NEW j \in Entered(d, b), Under(d[j], t[i].prefix)
               PROVE  Passed(d[j], t[i])
    BY <1>9 DEF Fresh
  <2>1. CASE i = n + 1
    BY <1>7, <1>8, <1>9, <2>1
  <2>2. CASE i = n
    BY <1>2, <1>3, <1>9, <2>2
  <2>3. CASE i \in 1..(n - 1) /\ i \in 1..n
    <3>1. t[i] = stack[i] /\ i \in DOMAIN stack
      BY <1>2, <1>9, <2>3
    <3> QED
      BY <1>1, <3>1 DEF Stage, Fresh
  <2> QED
    BY <1>a, <2>1, <2>2, <2>3
<1>14. Complete(word, t, d, b)
  <2> SUFFICES ASSUME Len(word.components) = 1, NEW m \in Matches(word)
               PROVE  \E j \in Entered(d, b) : d[j] = m
    BY DEF Complete
  <2>1. ~ToRead(word, stack, m)
    BY <1>1, SingleCall
  <2> QED
    BY <1>1, <2>1 DEF Stage, Complete
<1>15. Collected(word, d, b)
  BY <1>1 DEF Stage
<1>16. Stage(word, t, d, b)
  BY <1>10, <1>12, <1>13, <1>14, <1>15 DEF Stage
<1> QED
  BY <1>1, <1>16 DEF t, d, b

LEMMA ReadStage ==
  ASSUME Expanding, NEW name, Read(name)
  PROVE  Stage(word, stack', dir_array', before.entries)
BY SkipStage, EntryStage, PushStage

\* A wildcard word comes: its call is at the root and nothing is entered yet.
LEMMA StartStage ==
  ASSUME NEW w \in Words \cup {NoWord}, NEW d \in Seq(Paths), NEW s,
         s = <<Call(w.root, w.components)>>
  PROVE  Stage(w, s, d, d)
<1> DEFINE f == Call(w.root, w.components)
           c == w.components
           r == Len(w.root)
           l == Len(d)
<1>1. DOMAIN s = {1} /\ Len(s) = 1 /\ s[1] = f
  OBVIOUS
<1>2. f.prefix = w.root /\ f.suffix = c /\ f.at = "call"
  BY DEF Call
<1>3. w.root \in Paths /\ r \in Nat /\ Len(c) \in Nat /\ l \in Nat
  BY WordFacts
<1>4. c = SubSeq(c, 0 + 1, Len(c))
  <2> DEFINE R == Components
  <2>1. c \in Seq(R)
    BY WordFacts DEF Patterns
  <2> HIDE DEF c, R
  <2>2. SubSeq(c, 1, Len(c)) = c
    BY <2>1, SubSeqFull
  <2> QED
    BY <2>2
<1> HIDE DEF f
<1>5. Depth(w, f) = 0
  <2>1. Depth(w, f) = r - r
    BY <1>2 DEF Depth
  <2> HIDE DEF r
  <2> QED
    BY <1>3, <2>1
<1>7. 0 \in 0..Len(c)
  <2> HIDE DEF c
  <2> QED
    BY <1>3
<1>8. OnTheWay(w, f)
  BY <1>2, <1>3, <1>4, <1>5, <1>7 DEF OnTheWay
<1>9. Entered(d, d) = {}
  <2>1. Entered(d, d) = (l + 1)..l
    BY DEF Entered
  <2> HIDE DEF l
  <2> QED
    BY <1>3, <2>1
<1>10. Collected(w, d, d)
  <2>1. Len(d) <= Len(d)
    BY <1>3
  <2> QED
    BY <1>9, <2>1 DEF Collected
<1>11. Complete(w, s, d, d)
  BY <1>1, <1>2 DEF Complete, ToRead
<1>12. Nested(s) /\ Fresh(s, d, d) /\ \A i \in DOMAIN s : OnTheWay(w, s[i])
  BY <1>1, <1>8, <1>9 DEF Nested, Fresh
<1> QED
  BY <1>10, <1>11, <1>12 DEF Stage

(***************************************************************************)
(* What has been collected when the calls are done                         *)
(***************************************************************************)

\* What is collected is there as often as it was, and once more if it is entered.
LEMMA CopiesCollected ==
  ASSUME NEW w, NEW d \in Seq(Paths), NEW b \in Seq(Paths), Collected(w, d, b), NEW p
  PROVE  /\ Copies(p, d) \in Nat /\ Copies(p, b) \in Nat
         /\ Copies(p, d) = Copies(p, b) \/ Copies(p, d) = Copies(p, b) + 1
         /\ Copies(p, d) = Copies(p, b) + 1 <=> \E j \in Entered(d, b) : d[j] = p
<1> DEFINE k == Len(d)
           l == Len(b)
           D == {i \in 1..k : d[i] = p}
           B == {i \in 1..l : b[i] = p}
<1>1. k \in Nat /\ l \in Nat /\ DOMAIN d = 1..k /\ DOMAIN b = 1..l
  OBVIOUS
<1>2. /\ l <= k /\ \A i \in 1..l : d[i] = b[i]
      /\ \A i, j \in (l + 1)..k : d[i] = d[j] => i = j
  BY DEF Collected, Entered
<1>3. Copies(p, d) = Cardinality(D) /\ Copies(p, b) = Cardinality(B)
  BY <1>1 DEF Copies
<1> HIDE DEF k, l
<1>4. IsFiniteSet(1..l) /\ B \subseteq 1..l
  BY <1>1, FS_Interval
<1>5. IsFiniteSet(B)
  BY <1>4, FS_Subset
<1>6. CASE \A j \in (l + 1)..k : d[j] # p
  <2>1. D = B
    BY <1>1, <1>2, <1>6
  <2>2. Cardinality(B) \in Nat
    BY <1>5, FS_CardinalityType
  <2>3. Cardinality(B) # Cardinality(B) + 1
    BY <2>2
  <2> QED
    BY <1>3, <1>6, <2>1, <2>2, <2>3 DEF Entered, k, l
<1>7. ASSUME NEW j \in (l + 1)..k, d[j] = p
      PROVE  Copies(p, d) = Copies(p, b) + 1 /\ Copies(p, b) \in Nat /\ Copies(p, d) \in Nat
  <2>1. D = B \cup {j} /\ j \notin B
    BY <1>1, <1>2, <1>7
  <2> HIDE DEF B, D
  <2>2. Cardinality(B \cup {j}) = Cardinality(B) + 1
    BY <1>5, <2>1, FS_AddElement
  <2>3. Cardinality(B) \in Nat
    BY <1>5, FS_CardinalityType
  <2> QED
    BY <1>3, <2>1, <2>2, <2>3
<1>8. (\E j \in Entered(d, b) : d[j] = p) <=> \E j \in (l + 1)..k : d[j] = p
  BY DEF Entered, k, l
<1> QED
  BY <1>6, <1>7, <1>8

LEMMA DoneResult ==
  ASSUME NEW w, NEW d \in Seq(Paths), NEW b \in Seq(Paths), Stage(w, <<>>, d, b)
  PROVE  Result(w, d, b)
<1> DEFINE k == Len(d)
           l == Len(b)
<1>1. Collected(w, d, b) /\ Complete(w, <<>>, d, b)
  BY DEF Stage
<1>2. k \in Nat /\ l \in Nat /\ DOMAIN d = 1..k /\ DOMAIN b = 1..l
  OBVIOUS
<1>3. /\ Entered(d, b) = (l + 1)..k /\ l <= k /\ \A i \in 1..l : d[i] = b[i]
      /\ \A j \in Entered(d, b) : d[j] \in Matches(w)
  BY <1>1 DEF Collected, Entered
<1> HIDE DEF k, l
<1>4. \A i \in DOMAIN d : d[i] \in Matches(w) \cup ToSet(b)
  <2>1. \A i \in 1..k : i \in 1..l \/ i \in (l + 1)..k
    BY <1>2
  <2> QED
    BY <1>2, <1>3, <2>1 DEF ToSet
<1>5. ASSUME NEW p
      PROVE  Copies(p, d) - Copies(p, b)
               \in IF p \notin Matches(w) THEN {0}
                   ELSE IF Len(w.components) = 1 THEN {1} ELSE {0, 1}
  <2>1. /\ Copies(p, d) \in Nat /\ Copies(p, b) \in Nat
        /\ Copies(p, d) = Copies(p, b) \/ Copies(p, d) = Copies(p, b) + 1
        /\ Copies(p, d) = Copies(p, b) + 1 <=> \E j \in Entered(d, b) : d[j] = p
    BY <1>1, CopiesCollected
  <2>2. CASE p \notin Matches(w)
    <3>1. Copies(p, d) = Copies(p, b)
      BY <1>3, <2>1, <2>2
    <3>2. Copies(p, d) - Copies(p, b) = 0
      BY <2>1, <3>1
    <3> QED
      BY <2>2, <3>2
  <2>3. CASE p \in Matches(w) /\ Len(w.components) = 1
    <3>1. ~ToRead(w, <<>>, p)
      BY DEF ToRead
    <3>2. Copies(p, d) = Copies(p, b) + 1
      BY <1>1, <2>1, <2>3, <3>1 DEF Complete
    <3>3. Copies(p, d) - Copies(p, b) = 1
      BY <2>1, <3>2
    <3> QED
      BY <2>3, <3>3
  <2>4. CASE p \in Matches(w) /\ Len(w.components) # 1
    <3>1. Copies(p, d) - Copies(p, b) \in {0, 1}
      BY <2>1
    <3> QED
      BY <2>4, <3>1
  <2> QED
    BY <2>2, <2>3, <2>4
<1> QED
  BY <1>4, <1>5 DEF Result

\* A pattern of one component has as many matches as it enters.
LEMMA DoneCount ==
  ASSUME NEW w, NEW d \in Seq(Paths), NEW b \in Seq(Paths), Stage(w, <<>>, d, b),
         Len(w.components) = 1
  PROVE  Len(b) + Cardinality(Matches(w)) = Len(d)
<1> DEFINE k == Len(d)
           l == Len(b)
           J == (l + 1)..k
           f == [j \in J |-> d[j]]
<1>1. k \in Nat /\ l \in Nat
  OBVIOUS
<1>2. /\ Entered(d, b) = J /\ l <= k
      /\ \A j \in J : d[j] \in Matches(w)
      /\ \A i, j \in J : d[i] = d[j] => i = j
  BY DEF Stage, Collected, Entered
<1>3. \A m \in Matches(w) : \E j \in J : d[j] = m
  <2>1. \A m \in Matches(w) : ~ToRead(w, <<>>, m)
    BY DEF ToRead
  <2> QED
    BY <1>2, <2>1 DEF Stage, Complete
<1> HIDE DEF k, l
<1>4. IsFiniteSet(J) /\ Cardinality(J) = k - l
  <2>1. IsFiniteSet(J) /\ Cardinality(J) = IF l + 1 > k THEN 0 ELSE k - (l + 1) + 1
    BY <1>1, FS_Interval
  <2> HIDE DEF J
  <2> QED
    BY <1>1, <1>2, <2>1
<1> HIDE DEF J
<1>5. f \in Bijection(J, Matches(w))
  <2>1. f \in [J -> Matches(w)] /\ \A i, j \in J : f[i] = f[j] => i = j
    BY <1>2
  <2>2. \A m \in Matches(w) : \E j \in J : f[j] = m
    BY <1>3
  <2> HIDE DEF f
  <2>3. f \in Injection(J, Matches(w))
    BY <2>1 DEF Injection, IsInjective
  <2>4. f \in Surjection(J, Matches(w))
    BY <2>1, <2>2 DEF Surjection
  <2> QED
    BY <2>3, <2>4 DEF Bijection
<1>6. Cardinality(Matches(w)) = k - l
  BY <1>4, <1>5, FS_Bijection DEF ExistsBijection
<1> QED
  BY <1>1, <1>6 DEF k, l

\* Sorting changes neither what is there nor how often.
LEMMA SortedResult ==
  ASSUME NEW w, NEW d \in Seq(Paths), NEW b \in Seq(Paths), Result(w, d, b)
  PROVE  Result(w, InOrder(d), b) /\ Ascending(InOrder(d))
<1> DEFINE t == InOrder(d)
           k == Len(d)
<1>1. /\ t \in Seq(Paths) /\ Len(t) = k
      /\ \A i, j \in 1..k : i < j => ~Before(t[j], t[i])
      /\ \A i \in 1..k : \E j \in 1..k : t[i] = d[j]
      /\ \A x : Copies(x, t) = Copies(x, d)
  BY InOrderFacts
<1> HIDE DEF t
<1>2. DOMAIN t = 1..k /\ DOMAIN d = 1..k
  BY <1>1
<1> HIDE DEF k
<1>3. Ascending(t)
  BY <1>1, <1>2 DEF Ascending
<1>4. Result(w, t, b)
  BY <1>1, <1>2 DEF Result
<1> QED
  BY <1>3, <1>4 DEF t

(***************************************************************************)
(* What is inserted                                                        *)
(***************************************************************************)

\* The end of a sequence.
LEMMA EndOf ==
  ASSUME NEW s, IsSeq(s), NEW m \in Nat, NEW n \in Nat, Len(s) = m + n
  PROVE  LET t == SubSeq(s, m + 1, Len(s))
         IN  /\ Len(t) = n /\ DOMAIN t = 1..n /\ \A i \in 1..n : t[i] = s[m + i]
             /\ \E S : t \in Seq(S)
<1> DEFINE S == {s[i] : i \in DOMAIN s}
           l == Len(s)
           t == SubSeq(s, m + 1, l)
<1>1. s \in Seq(S) /\ DOMAIN s = 1..l /\ l = m + n
  BY SeqFacts
<1> HIDE DEF S, l
<1>2. \A i \in (m + 1)..l : s[i] \in S
  BY <1>1
<1>3. /\ t \in Seq(S) /\ Len(t) = (IF m + 1 <= l THEN l - (m + 1) + 1 ELSE 0)
      /\ \A i \in 1..(l - (m + 1) + 1) : t[i] = s[(m + 1) + i - 1]
  BY <1>1, <1>2, SubSeqProperties
<1> HIDE DEF t
<1>4. /\ (IF m + 1 <= l THEN l - (m + 1) + 1 ELSE 0) = n /\ l - (m + 1) + 1 = n
      /\ \A i \in 1..n : (m + 1) + i - 1 = m + i
  BY <1>1
<1>5. Len(t) = n /\ \A i \in 1..n : t[i] = s[m + i]
  BY <1>3, <1>4
<1>6. DOMAIN t = 1..n
  BY <1>3, <1>5
<1> QED
  BY <1>3, <1>5, <1>6 DEF t, l

\* The word itself goes in.
LEMMA RawAnswer ==
  ASSUME Expanding, Expanded, Len(dir_array) <= 1
  PROVE  WordsExpanded' /\ arguments' # <<>> /\ place' = "word"
<1> DEFINE l == Len(before.entries)
           x == Raw(word)
           n == before.count
<1>1. /\ stack = <<>> /\ place' = "word" /\ Insert(x)
      /\ UNCHANGED <<word, before, dir_array>>
      /\ IsSeq(arguments) /\ Len(arguments) = n /\ n \in Nat
      /\ word \in Words \cup {NoWord} /\ dir_array \in Seq(Paths) /\ before.entries \in Seq(Paths)
      /\ Stage(word, <<>>, dir_array, before.entries)
  <2>1. Len(dir_array) \in Nat
    BY SeqFacts DEF Expanding, Inv
  <2>2. ~(Len(dir_array) > 1)
    BY <2>1
  <2> QED
    BY <2>2 DEF Expanding, Expanded, Inv, Types
<1>2. arguments' = Append(arguments, x)
  BY <1>1 DEF Insert
<1> HIDE DEF x, n
<1>3. /\ IsSeq(arguments') /\ Len(arguments') = n + 1 /\ arguments'[n + 1] = x
  BY <1>1, <1>2, Appended
<1>4. arguments' # <<>>
  <2>1. Len(<<>>) = 0 /\ Len(arguments') # 0
    BY <1>1, <1>3
  <2> QED
    BY <2>1
<1>5. Added' = <<x>>
  <2> DEFINE t == SubSeq(arguments', n + 1, Len(arguments'))
  <2>1. Added' = t
    BY <1>1 DEF Added, n
  <2> DEFINE one == 1
             s == arguments'
  <2>a. IsSeq(s) /\ n \in Nat /\ one \in Nat /\ Len(s) = n + one
    BY <1>1, <1>3
  <2>b. t = SubSeq(s, n + 1, Len(s))
    OBVIOUS
  <2> HIDE DEF one, s, t
  <2>c. Len(t) = one /\ (\A i \in 1..one : t[i] = s[n + i]) /\ \E S : t \in Seq(S)
    BY <2>a, <2>b, EndOf
  <2>2. Len(t) = 1 /\ t[1] = x /\ \E S : t \in Seq(S)
    BY <1>3, <2>c DEF one, s
  <2>3. t = <<x>>
    BY <2>2
  <2> QED
    BY <2>1, <2>3
<1>6. Len(word.components) = 1 => l + Cardinality(Matches(word)) <= 1
  BY <1>1, DoneCount
<1>7. WordsExpanded'
  BY <1>1, <1>5, <1>6 DEF WordsExpanded, x
<1> QED
  BY <1>1, <1>4, <1>7

\* More than one entry is sorted, to be inserted.
LEMMA SortedAnswer ==
  ASSUME Expanding, Expanded, Len(dir_array) > 1
  PROVE  /\ place' = "insert" /\ IsWild(word') /\ Len(dir_array') > 1
         /\ dir_array' \in Seq(Paths)
         /\ Result(word', dir_array', before'.entries) /\ Ascending(dir_array')
         /\ Len(arguments') - before'.count = 0
<1>1. /\ stack = <<>> /\ place' = "insert" /\ dir_array' = InOrder(dir_array)
      /\ UNCHANGED <<word, before, arguments>> /\ IsWild(word)
      /\ dir_array \in Seq(Paths) /\ before.entries \in Seq(Paths)
      /\ Stage(word, <<>>, dir_array, before.entries)
      /\ Len(arguments) = before.count /\ before.count \in Nat
  BY DEF Expanding, Expanded, Inv, Types
<1>2. Result(word, dir_array, before.entries)
  BY <1>1, DoneResult
<1>3. /\ Result(word, InOrder(dir_array), before.entries) /\ Ascending(InOrder(dir_array))
      /\ InOrder(dir_array) \in Seq(Paths) /\ Len(InOrder(dir_array)) = Len(dir_array)
  BY <1>1, <1>2, SortedResult, InOrderFacts
<1>4. Len(arguments) - before.count = 0
  BY <1>1
<1> QED
  BY <1>1, <1>3, <1>4

\* One more entry has been inserted.
LEMMA OneMoreInserted ==
  ASSUME Inserting, InsertEntry
  PROVE  LET n == before.count
             i == Len(arguments) - before.count + 1
         IN  /\ n \in Nat /\ i \in 1..Len(dir_array) /\ Len(arguments') = n + i
             /\ IsSeq(arguments')
             /\ \A j \in 1..i : arguments'[n + j] = Path(dir_array[j])
<1> DEFINE n == before.count
           a == Len(arguments)
           k == Len(dir_array)
           i == a - n + 1
           x == Path(dir_array[i])
<1>1. /\ IsSeq(arguments) /\ a \in Nat /\ n \in Nat /\ k \in Nat /\ a - n \in 0..(k - 1)
      /\ arguments' = Append(arguments, x)
      /\ \A j \in 1..(a - n) : arguments[n + j] = Path(dir_array[j])
  BY SeqFacts DEF Inserting, InsertEntry, Inv, Insert
<1> HIDE DEF x
<1>2. /\ IsSeq(arguments') /\ Len(arguments') = a + 1 /\ arguments'[a + 1] = x
      /\ \A j \in 1..a : arguments'[j] = arguments[j]
  BY <1>1, Appended
<1> HIDE DEF a, k, n
<1>3. i \in 1..k /\ a + 1 = n + i
  BY <1>1
<1>4. ASSUME NEW j \in 1..i
      PROVE  arguments'[n + j] = Path(dir_array[j])
  <2>1. CASE j = i
    BY <1>2, <1>3, <2>1 DEF x
  <2>2. CASE j # i
    <3>1. j \in 1..(a - n) /\ n + j \in 1..a
      BY <1>1, <1>3, <2>2
    <3> QED
      BY <1>1, <1>2, <3>1
  <2> QED
    BY <2>1, <2>2
<1>5. Len(arguments') = n + i
  BY <1>2, <1>3
<1> QED
  BY <1>1, <1>2, <1>3, <1>4, <1>5 DEF n, a, k

\* The last entry goes in.
LEMMA LastAnswer ==
  ASSUME Inserting, InsertEntry, LastEntry(Len(arguments) - before.count + 1)
  PROVE  WordsExpanded' /\ arguments' # <<>> /\ place' = "word" /\ dir_array' = <<>>
<1> DEFINE d == dir_array
           b == before.entries
           n == before.count
           k == Len(d)
           t == SubSeq(arguments', n + 1, Len(arguments'))
<1>1. /\ place' = "word" /\ dir_array' = <<>> /\ UNCHANGED <<word, before>>
      /\ Result(word, d, b) /\ Ascending(d) /\ d \in Seq(Paths) /\ k > 1
  BY DEF InsertEntry, Inserting, Types
<1>2. /\ n \in Nat /\ k \in Nat /\ Len(arguments') = n + k /\ IsSeq(arguments')
      /\ \A j \in 1..k : arguments'[n + j] = Path(d[j])
      /\ DOMAIN d = 1..k
  BY <1>1, OneMoreInserted DEF LastEntry
<1> HIDE DEF d, k, n
<1>3. Len(t) = k /\ DOMAIN t = 1..k /\ \A i \in 1..k : t[i] = Path(d[i])
  BY <1>2, EndOf
<1>4. arguments' # <<>>
  <2>1. Len(<<>>) = 0 /\ Len(arguments') # 0
    BY <1>1, <1>2
  <2> QED
    BY <2>1
<1>5. Added' = t
  BY <1>1 DEF Added, n
<1> HIDE DEF t
<1>6. \A i \in 1..k : t[i].value = d[i]
  BY <1>3 DEF Path
<1>7. \A i, j \in DOMAIN t : i < j => ~Before(t[j].value, t[i].value)
  BY <1>1, <1>2, <1>3, <1>6 DEF Ascending
<1>8. \A i \in DOMAIN t : t[i] \in {Path(p) : p \in Matches(word) \cup ToSet(b)}
  <2>1. \A i \in 1..k : d[i] \in Matches(word) \cup ToSet(b)
    BY <1>1, <1>2 DEF Result
  <2> QED
    BY <1>3, <2>1
<1>9. ASSUME NEW p
      PROVE  Copies(Path(p), t) = Copies(p, d)
  <2>1. \A i \in 1..k : t[i] = Path(p) <=> d[i] = p
    BY <1>3, <1>6 DEF Path
  <2>2. {i \in 1..k : t[i] = Path(p)} = {i \in 1..k : d[i] = p}
    BY <2>1
  <2> QED
    BY <1>2, <1>3, <2>2 DEF Copies
<1>10. \A p \in Matches(word) \cup ToSet(b) :
         Copies(Path(p), t) - Copies(p, b)
           \in IF p \notin Matches(word) THEN {0}
               ELSE IF Len(word.components) = 1 THEN {1} ELSE {0, 1}
  BY <1>1, <1>9 DEF Result
<1>11. Len(t) > 1
  BY <1>1, <1>3
<1>12. WordsExpanded'
  BY <1>1, <1>5, <1>7, <1>8, <1>10, <1>11 DEF WordsExpanded, b
<1> QED
  BY <1>1, <1>4, <1>12

(***************************************************************************)
(* Every word                                                              *)
(***************************************************************************)

\* The words to come.
LEMMA Coming ==
  ASSUME Types, todo # <<>>
  PROVE  /\ todo[1] \in Seq(Words) /\ Tail(todo) \in Seq(Seq(Words))
         /\ Len(todo[1]) > 0 =>
              Head(todo[1]) \in Words /\ [todo EXCEPT ![1] = Tail(@)] \in Seq(Seq(Words))
<1> DEFINE S == Seq(Words)
           c == todo[1]
<1>1. todo \in Seq(S)
  BY DEF Types
<1>2. c \in S /\ Tail(todo) \in Seq(S)
  <2> HIDE DEF S
  <2> QED
    BY <1>1
<1>3. ASSUME Len(c) > 0
      PROVE  Head(c) \in Words /\ Tail(c) \in S
  <2> HIDE DEF c
  <2> QED
    BY <1>2, <1>3
<1>4. ASSUME NEW x \in S
      PROVE  [todo EXCEPT ![1] = x] \in Seq(S)
  <2> HIDE DEF S
  <2> QED
    BY <1>1
<1>5. [todo EXCEPT ![1] = Tail(@)] = [todo EXCEPT ![1] = Tail(c)]
  OBVIOUS
<1> QED
  BY <1>2, <1>3, <1>4, <1>5

LEMMA WholeInit == Init => Whole
<1> SUFFICES ASSUME Init
             PROVE  Whole
  OBVIOUS
<1>1. Inv
  BY InvInit
<1>2. Types
  BY NamesAssumption DEF Init, Types
<1> QED
  BY <1>1, <1>2, NoWordFacts DEF Init, Whole

LEMMA WholeStep == Whole /\ [Next]_vars => Whole'
<1> SUFFICES ASSUME Whole, [Next]_vars
             PROVE  Whole'
  OBVIOUS
<1>1. Inv /\ Types /\ Inv'
  BY InvStep DEF Whole
<1>2. CASE NewCommand
  <2>1. place = "word" /\ ~IsWild(word) /\ UNCHANGED <<place, word, dir_array, before>>
    BY <1>2 DEF NewCommand, Whole
  <2>2. Types'
    BY <1>1, <1>2, <2>1, Coming DEF NewCommand, Types
  <2> QED
    BY <1>1, <2>1, <2>2 DEF Whole
<1>3. CASE EndCommand
  <2>1. place' = "word" /\ ~IsWild(word') /\ word' = NoWord /\ UNCHANGED <<dir_array, before>>
    BY <1>3, NoWordFacts DEF EndCommand
  <2>2. Types'
    BY <1>1, <1>3, <2>1, Coming DEF EndCommand, Types
  <2> QED
    BY <1>1, <2>1, <2>2 DEF Whole
<1>4. CASE InsertWord
  <2>1. /\ place' \in {"word", "crashed"} /\ ~IsWild(word') /\ dir_array' = dir_array
        /\ before'.entries = dir_array
    BY <1>4 DEF InsertWord, NextWord
  <2>2. Types'
    BY <1>1, <1>4, <2>1, Coming DEF InsertWord, NextWord, Types
  <2> QED
    BY <1>1, <2>1, <2>2 DEF Whole
<1>5. CASE ExpandWord
  <2>1. /\ place' = "expand" /\ IsWild(word') /\ dir_array' = dir_array
        /\ before'.entries = dir_array /\ stack' = <<Call(word'.root, word'.components)>>
    BY <1>5 DEF ExpandWord, NextWord
  <2>2. Types'
    BY <1>1, <1>5, <2>1, Coming DEF ExpandWord, NextWord, Types
  <2>3. Stage(word', stack', dir_array', before'.entries)
    BY <2>1, <2>2, StartStage DEF Types
  <2> QED
    BY <1>1, <2>1, <2>2, <2>3 DEF Whole, Expanding
<1>6. CASE Enter \/ CloseDir
  <2>1. /\ place = "expand" /\ place' = "expand" /\ UNCHANGED <<todo, word, dir_array, before>>
        /\ Expanding
    BY <1>6 DEF Enter, CloseDir, Whole
  <2>2. Types' /\ IsWild(word')
    BY <1>1, <2>1 DEF Types, Expanding
  <2>3. Stage(word, stack', dir_array, before.entries)
    BY <1>6, <2>1, EnterStage, CloseStage
  <2> QED
    BY <1>1, <2>1, <2>2, <2>3 DEF Whole, Expanding
<1>7. ASSUME NEW name, Read(name)
      PROVE  Whole'
  <2>1. /\ place = "expand" /\ place' = "expand" /\ UNCHANGED <<todo, word, before>>
        /\ Expanding /\ stack # <<>>
    BY <1>7 DEF Read, Whole
  <2>2. dir_array' \in Seq(Paths)
    <3>1. Top.prefix \in Paths /\ name \in Int /\ dir_array \in Seq(Paths)
      BY <1>1, <1>7, <2>1, TopFacts, KeptFacts DEF Types
    <3> DEFINE path == Append(Top.prefix, name)
    <3>2. path \in Paths
      BY <3>1, CutAppend
    <3>3. dir_array' = dir_array \/ dir_array' = Append(dir_array, path)
      BY <1>7 DEF Read
    <3> HIDE DEF path
    <3> QED
      BY <3>1, <3>2, <3>3
  <2>3. Types' /\ IsWild(word')
    BY <1>1, <2>1, <2>2 DEF Types, Expanding
  <2>4. Stage(word, stack', dir_array', before.entries)
    BY <1>7, <2>1, ReadStage
  <2> QED
    BY <1>1, <2>1, <2>3, <2>4 DEF Whole, Expanding
<1>8. CASE Expanded
  <2>1. Expanding /\ UNCHANGED <<todo, word, before>> /\ Len(dir_array) \in Nat
    BY <1>1, <1>8, SeqFacts DEF Expanded, Whole, Inv
  <2>2. CASE Len(dir_array) > 1
    <3>1. /\ place' = "insert" /\ IsWild(word') /\ Len(dir_array') > 1
          /\ dir_array' \in Seq(Paths)
          /\ Result(word', dir_array', before'.entries) /\ Ascending(dir_array')
          /\ Len(arguments') - before'.count = 0
      BY <1>8, <2>1, <2>2, SortedAnswer
    <3>2. Types'
      BY <1>1, <2>1, <3>1 DEF Types
    <3>3. 1..(Len(arguments') - before'.count) = {}
      BY <3>1
    <3> QED
      BY <1>1, <3>1, <3>2, <3>3 DEF Whole, Inserting
  <2>3. CASE Len(dir_array) <= 1
    <3>1. WordsExpanded' /\ arguments' # <<>> /\ place' = "word"
      BY <1>8, <2>1, <2>3, RawAnswer
    <3>2. dir_array' = dir_array
      BY <1>8, <2>1, <2>3 DEF Expanded
    <3>3. Types'
      BY <1>1, <2>1, <3>2 DEF Types
    <3> QED
      BY <1>1, <3>1, <3>3 DEF Whole
  <2> QED
    BY <2>1, <2>2, <2>3
<1>9. CASE InsertEntry
  <2>1. Inserting /\ UNCHANGED <<todo, word, before>>
    BY <1>9 DEF InsertEntry, Whole
  <2>2. CASE LastEntry(Len(arguments) - before.count + 1)
    <3>1. WordsExpanded' /\ arguments' # <<>> /\ place' = "word" /\ dir_array' = <<>>
      BY <1>9, <2>1, <2>2, LastAnswer
    <3>2. Types'
      BY <1>1, <2>1, <3>1 DEF Types
    <3> QED
      BY <1>1, <3>1, <3>2 DEF Whole
  <2>3. CASE ~LastEntry(Len(arguments) - before.count + 1)
    <3>1. UNCHANGED <<place, dir_array>>
      BY <1>9, <2>3 DEF InsertEntry
    <3>2. Types'
      BY <1>1, <2>1, <3>1 DEF Types
    <3> DEFINE n == before.count
               i == Len(arguments) - before.count + 1
    <3>3. /\ n \in Nat /\ i \in 1..Len(dir_array) /\ Len(arguments') = n + i
          /\ \A j \in 1..i : arguments'[n + j] = Path(dir_array[j])
      BY <1>9, <2>1, OneMoreInserted
    <3> HIDE DEF n, i
    <3>4. Len(arguments') - n = i
      BY <3>3
    <3>5. \A j \in 1..(Len(arguments') - before'.count) :
            arguments'[before'.count + j] = Path(dir_array'[j])
      BY <2>1, <3>1, <3>3, <3>4 DEF n
    <3>6. Inserting'
      BY <1>1, <2>1, <3>1, <3>2, <3>5 DEF Inserting
    <3>7. place' = "insert"
      BY <2>1, <3>1 DEF Inserting
    <3> QED
      BY <1>1, <3>2, <3>6, <3>7 DEF Whole
  <2> QED
    BY <2>2, <2>3
<1>10. CASE UNCHANGED vars
  <2>1. UNCHANGED <<todo, arguments, place, word, stack, dir_array, before>>
    BY <1>10 DEF vars
  <2>2. Types'
    BY <1>1, <2>1 DEF Types
  <2>3. Expanding => Expanding'
    BY <1>1, <2>1, <2>2 DEF Expanding
  <2>4. Inserting => Inserting'
    BY <1>1, <2>1, <2>2 DEF Inserting
  <2>5. WordsExpanded => WordsExpanded'
    <3>1. Added' = Added
      BY <2>1 DEF Added
    <3> QED
      BY <2>1, <3>1 DEF WordsExpanded
  <2> QED
    BY <1>1, <2>1, <2>2, <2>3, <2>4, <2>5 DEF Whole
<1> QED
  BY <1>2, <1>3, <1>4, <1>5, <1>6, <1>7, <1>8, <1>9, <1>10 DEF Next

LEMMA WholeAnswers == Whole => WordsExpanded
BY DEF Whole, WordsExpanded

\* A wildcard word is replaced by itself or, in ascending order, by what it
\* matches and what the word before left in dir_array: every match once when the
\* pattern has one component, and nothing that is neither.
THEOREM WordsAreExpanded == Spec => []WordsExpanded
<1>1. Spec => []Whole
  BY WholeInit, WholeStep, PTL DEF Spec
<1> QED
  BY <1>1, WholeAnswers, PTL
=============================================================================
