--------------------------- MODULE ReadLineProofs ---------------------------
(***************************************************************************)
(* Theorems about the line editor: for a buffer of any size, any prompt    *)
(* and any history that fits, whatever is typed, and as long as backspace  *)
(* was never typed on an empty line, the buffer holds the line, its        *)
(* newline and its NUL, the screen shows it, and it is returned as shown.  *)
(*                                                                         *)
(* TypeOK is inductive, and LineOnScreen is with it: what an action does   *)
(* to the buffer and to the screen is the same change of a sequence.       *)
(***************************************************************************)
EXTENDS ReadLine, TLAPS

\* What the assumption says of one line of the history.
LEMMA HistoryLine ==
  ASSUME NEW n \in 0 .. (Len(History) - 1)
  PROVE  /\ History[n + 1] \in Seq(Chars)
         /\ Len(History[n + 1]) \in 0 .. (MaxBufferLine - 2)
         /\ (n + 1) % Len(History) \in 0 .. (Len(History) - 1)
<1>1. Len(History) \in Nat \ {0} /\ n + 1 \in 1 .. Len(History)
  BY ReadLineAssumption
<1>2. n + 1 \in DOMAIN History
  BY <1>1, ReadLineAssumption
<1>3. History[n + 1] \in Seq(Chars) /\ Len(History[n + 1]) <= MaxBufferLine - 2
  BY <1>2, ReadLineAssumption
<1>4. (n + 1) % Len(History) \in 0 .. (Len(History) - 1)
  BY <1>1
<1> QED
  BY <1>3, <1>4, ReadLineAssumption

LEMMA StoreType ==
  ASSUME NEW buffer \in [Cells -> Chars \cup {NEWLINE, NUL}], NEW n \in Int,
         NEW ch \in Chars \cup {NEWLINE, NUL}
  PROVE  Store(buffer, n, ch) \in [Cells -> Chars \cup {NEWLINE, NUL}]
BY DEF Store

LEMMA ErasedType ==
  ASSUME screen \in Seq(Chars), NEW n \in Nat
  PROVE  Erased(n) \in Seq(Chars)
<1>1. Len(screen) \in Nat
  OBVIOUS
<1>2. CASE n > Len(screen)
  BY <1>1, <1>2 DEF Erased
<1>3. CASE ~(n > Len(screen))
  <2>1. Erased(n) = SubSeq(screen, 1, Len(screen) - n)
    BY <1>3 DEF Erased
  <2>2. Len(screen) - n \in 0 .. Len(screen)
    BY <1>1, <1>3
  <2> QED
    BY <2>1, <2>2
<1> QED
  BY <1>2, <1>3

LEMMA TypeInit == Init => TypeOK
<1> SUFFICES ASSUME Init PROVE TypeOK
  OBVIOUS
<1>1. Len(History) \in Nat \ {0}
  BY ReadLineAssumption
<1>2. line_buffer \in [Cells -> Chars \cup {NEWLINE, NUL}]
  BY DEF Init
<1>3. screen \in Seq(Chars) /\ result.end = "none"
  BY DEF Init
<1>4. line_length = 0 /\ history_index = 0 /\ place = "prompt" /\ below = FALSE
  BY DEF Init
<1>5. MaxBufferLine \in Nat /\ MaxBufferLine >= 3
  BY ReadLineAssumption
<1> QED
  <2>1. below \in BOOLEAN /\ place \in {"prompt", "editing"}
    BY <1>4
  <2>2. history_index \in 0 .. (Len(History) - 1)
    BY <1>1, <1>4
  <2>3. /\ line_length \in Int /\ line_length <= MaxBufferLine - 1
        /\ line_length <= MaxBufferLine - 2 /\ line_length >= 0
    BY <1>4, <1>5
  <2> QED
    BY <1>2, <1>3, <2>1, <2>2, <2>3 DEF TypeOK

\* The end of a line: newline and NUL have their places.
LEMMA ReturnsType ==
  ASSUME TypeOK, place = "editing",
         NEW end \in {"enter", "full", "usage"},
         NEW buffer \in [Cells -> Chars \cup {NEWLINE, NUL}],
         NEW shown, Returns(end, buffer, shown)
  PROVE  TypeOK'
<1>1. line_length \in Int /\ line_length <= MaxBufferLine - 2
  BY DEF TypeOK
<1>2. line_buffer' \in [Cells -> Chars \cup {NEWLINE, NUL}]
  BY <1>1, StoreType DEF Returns
<1>3. /\ line_length' = line_length + 1 /\ place' = "prompt" /\ screen' = <<>>
      /\ UNCHANGED <<history_index, below>> /\ result'.end = end
  BY DEF Returns
<1> QED
  BY <1>1, <1>2, <1>3, ReadLineAssumption DEF TypeOK

LEMMA TypeStep == TypeOK /\ [Next]_vars => TypeOK'
<1> SUFFICES ASSUME TypeOK, [Next]_vars PROVE TypeOK'
  OBVIOUS
<1> USE ReadLineAssumption
<1>1. CASE StartLine
  BY <1>1 DEF StartLine, TypeOK
<1>2. CASE Enter
  BY <1>2, ReturnsType DEF Enter, TypeOK
<1>3. CASE Usage
  <2>1. Store(line_buffer, 0, NUL) \in [Cells -> Chars \cup {NEWLINE, NUL}]
    <3>1. 0 \in Int /\ NUL \in Chars \cup {NEWLINE, NUL}
      OBVIOUS
    <3>2. line_buffer \in [Cells -> Chars \cup {NEWLINE, NUL}]
      BY DEF TypeOK
    <3> QED
      BY <3>1, <3>2, StoreType
  <2> QED
    BY <1>3, <2>1, ReturnsType DEF Usage
<1>4. CASE Backspace
  <2>1. screen' \in Seq(Chars)
    BY <1>4, ErasedType DEF Backspace, TypeOK
  <2>2. /\ line_length' = line_length - 1
        /\ below' <=> below \/ line_length <= 0
        /\ UNCHANGED <<line_buffer, history_index, place, result>>
    BY <1>4 DEF Backspace
  <2>3. below' \in BOOLEAN
    BY <1>4 DEF Backspace
  <2> QED
    BY <2>1, <2>2, <2>3 DEF TypeOK
<1>5. CASE UpArrow
  <2> DEFINE new == History[history_index + 1]
  <2>1. /\ new \in Seq(Chars) /\ Len(new) \in 0 .. (MaxBufferLine - 2)
        /\ (history_index + 1) % Len(History) \in 0 .. (Len(History) - 1)
    BY HistoryLine DEF TypeOK
  <2>2. line_buffer' \in [Cells -> Chars \cup {NEWLINE, NUL}]
    <3>1. line_buffer' = [n \in Cells |-> IF n < Len(new) THEN new[n + 1]
                            ELSE IF n = Len(new) THEN NUL ELSE line_buffer[n]]
      BY <1>5 DEF UpArrow
    <3>2. ASSUME NEW n \in Cells, n < Len(new) PROVE new[n + 1] \in Chars
      BY <2>1, <3>2 DEF Cells
    <3> QED
      BY <3>1, <3>2 DEF TypeOK
  <2>3. screen' \in Seq(Chars)
    <3> DEFINE k == IF line_length < 0 THEN 0 ELSE line_length
    <3>1. k \in Nat
      BY DEF TypeOK
    <3>2. Erased(k) \in Seq(Chars)
      BY <3>1, ErasedType DEF TypeOK
    <3>3. screen' = Erased(k) \o new
      BY <1>5 DEF UpArrow
    <3> HIDE DEF k, new
    <3> QED
      BY <2>1, <3>2, <3>3
  <2>4. /\ line_length' = Len(new) /\ UNCHANGED <<place, below, result>>
        /\ history_index' = (history_index + 1) % Len(History)
    BY <1>5 DEF UpArrow
  <2> HIDE DEF new
  <2> QED
    BY <2>1, <2>2, <2>3, <2>4 DEF TypeOK
<1>6. CASE \E ch \in Chars : Type(ch)
  <2>1. PICK ch \in Chars : Type(ch)
    BY <1>6
  <2>2. CASE Full
    BY <2>1, <2>2, ReturnsType DEF Type, TypeOK
  <2>3. CASE ~Full
    <3>1. /\ place = "editing" /\ screen' = Append(screen, ch)
          /\ line_buffer' = Store(line_buffer, line_length, ch)
          /\ line_length' = line_length + 1
          /\ UNCHANGED <<history_index, place, below, result>>
      BY <2>1, <2>3 DEF Type
    <3>2. line_buffer' \in [Cells -> Chars \cup {NEWLINE, NUL}]
      BY <3>1, StoreType DEF TypeOK
    <3>3. line_length < MaxBufferLine - 2
      BY <2>3, <3>1 DEF Full, TypeOK
    <3> QED
      BY <3>1, <3>2, <3>3 DEF TypeOK
  <2> QED
    BY <2>2, <2>3
<1>7. CASE UNCHANGED vars
  BY <1>7 DEF vars, TypeOK
<1> QED
  BY <1>1, <1>2, <1>3, <1>4, <1>5, <1>6, <1>7 DEF Next

\* Whatever is typed, in any order and over any contents of the buffer, no line
\* outgrows it, until backspace is typed on an empty line (read-line.c:99, 148).
THEOREM TypeCorrect == Spec => []TypeOK
BY TypeInit, TypeStep, PTL DEF Spec

(***************************************************************************)
(* The screen                                                              *)
(***************************************************************************)

\* The first n characters of a buffer.
Shown(n, buffer) == [i \in 1..n |-> buffer[i - 1]]

\* What LineOnScreen says, without the definition of the buffer's string.
LEMMA ScreenParts ==
  LineOnScreen <=>
    (~below =>
       /\ place = "editing" => screen = Prompt \o Shown(line_length, line_buffer)
       /\ result.end = "enter" => Prompt \o result.line = Append(result.shown, NEWLINE)
       /\ result.end = "full" =>
            Prompt \o result.line = [result.shown EXCEPT ![Len(result.shown)] = NEWLINE]
       /\ result.end = "usage" => result.line \in {<<>>, <<NEWLINE>>})
BY DEF LineOnScreen, Shown

LEMMA PromptFacts == Prompt \in Seq(Chars) /\ Len(Prompt) \in Nat
BY ReadLineAssumption

LEMMA ConcatFacts ==
  ASSUME NEW S, NEW s \in Seq(S), NEW t \in Seq(S)
  PROVE  /\ s \o t \in Seq(S) /\ Len(s \o t) = Len(s) + Len(t)
         /\ Len(s) \in Nat /\ Len(t) \in Nat
         /\ \A i \in 1..(Len(s) + Len(t)) :
              (s \o t)[i] = IF i <= Len(s) THEN s[i] ELSE t[i - Len(s)]
OBVIOUS

LEMMA AppendFacts ==
  ASSUME NEW S, NEW s \in Seq(S), NEW x \in S
  PROVE  /\ Append(s, x) \in Seq(S) /\ Len(Append(s, x)) = Len(s) + 1
         /\ Len(s) \in Nat /\ DOMAIN Append(s, x) = 1..(Len(s) + 1)
         /\ Append(s, x)[Len(s) + 1] = x
         /\ \A i \in 1..Len(s) : Append(s, x)[i] = s[i]
OBVIOUS

\* A line that is shown after the prompt has no NUL in it.
LEMMA NoNulShown ==
  ASSUME NEW n \in Nat, NEW buffer, screen \in Seq(Chars),
         screen = Prompt \o Shown(n, buffer)
  PROVE  /\ \A i \in 0..(n - 1) : buffer[i] \in Chars
         /\ Shown(n, buffer) \in Seq(Chars) /\ Len(Shown(n, buffer)) = n
         /\ Len(screen) = Len(Prompt) + n
<1> DEFINE S == {buffer[i] : i \in 0..(n - 1)}
           T == Chars \cup S
           line == Shown(n, buffer)
<1>1. line \in [1..n -> T]
  <2>1. \A i \in 1..n : buffer[i - 1] \in T
    OBVIOUS
  <2> HIDE DEF T
  <2> QED
    BY <2>1 DEF Shown
<1>2. Prompt \in Seq(T) /\ Len(Prompt) \in Nat
  BY PromptFacts
<1> HIDE DEF T
<1>3. line \in Seq(T) /\ Len(line) = n
  BY <1>1
<1>a. \A i \in 1..n : line[i] = buffer[i - 1]
  BY DEF Shown
<1> HIDE DEF line
<1>4. /\ Len(screen) = Len(Prompt) + n
      /\ \A i \in 1..n : screen[Len(Prompt) + i] = line[i]
  <2>1. screen = Prompt \o line
    BY DEF line
  <2>2. /\ Len(Prompt \o line) = Len(Prompt) + n
        /\ \A i \in 1..(Len(Prompt) + n) :
             (Prompt \o line)[i] = IF i <= Len(Prompt) THEN Prompt[i] ELSE line[i - Len(Prompt)]
    BY <1>2, <1>3, ConcatFacts
  <2>3. ASSUME NEW i \in 1..n
        PROVE  screen[Len(Prompt) + i] = line[i]
    <3> DEFINE k == Len(Prompt) + i
    <3>1. k \in 1..(Len(Prompt) + n) /\ ~(k <= Len(Prompt)) /\ k - Len(Prompt) = i
      BY <1>2
    <3> HIDE DEF k
    <3>2. screen[k] = line[i]
      BY <2>1, <2>2, <3>1
    <3> QED
      BY <3>2 DEF k
  <2> QED
    BY <2>1, <2>2, <2>3
<1>5. \A i \in 1..n : line[i] \in Chars
  <2>1. \A k \in 1..Len(screen) : screen[k] \in Chars
    OBVIOUS
  <2>2. \A i \in 1..n : Len(Prompt) + i \in 1..Len(screen)
    BY <1>2, <1>4
  <2> QED
    BY <1>4, <2>1, <2>2
<1>6. line \in Seq(Chars)
  BY <1>1, <1>3, <1>5
<1>7. \A i \in 0..(n - 1) : buffer[i] \in Chars
  <2> SUFFICES ASSUME NEW i \in 0..(n - 1)
               PROVE  buffer[i] \in Chars
    OBVIOUS
  <2>1. i + 1 \in 1..n /\ (i + 1) - 1 = i
    OBVIOUS
  <2> QED
    BY <1>5, <1>a, <2>1
<1> QED
  BY <1>3, <1>4, <1>6, <1>7 DEF line

\* The string that ends with the only newline, before the first NUL.
LEMMA StringIs ==
  ASSUME NEW n \in Nat, n \in Cells, NEW buffer, buffer[n] = NUL,
         \A i \in 0..(n - 1) : buffer[i] # NUL
  PROVE  String(buffer) = Shown(n, buffer)
<1> DEFINE P(i) == buffer[i] = NUL /\ \A j \in Cells : j < i => buffer[j] # NUL
           m == CHOOSE i \in Cells : P(i)
<1>1. Cells \subseteq Nat
  BY DEF Cells
<1>2. P(n)
  BY <1>1
<1>3. m \in Cells /\ P(m)
  BY <1>2
<1> HIDE DEF m
<1>4. m = n
  BY <1>1, <1>3
<1>5. String(buffer) = [k \in 1..m |-> buffer[k - 1]]
  BY DEF String, m
<1> QED
  BY <1>4, <1>5 DEF Shown

(***************************************************************************)
(* Sequences                                                               *)
(***************************************************************************)

LEMMA ConcatAppend ==
  ASSUME NEW S, NEW s \in Seq(S), NEW t \in Seq(S), NEW x \in S
  PROVE  s \o Append(t, x) = Append(s \o t, x)
OBVIOUS

LEMMA ConcatEmpty ==
  ASSUME NEW S, NEW s \in Seq(S)
  PROVE  s \o <<>> = s
OBVIOUS

LEMMA LastReplaced ==
  ASSUME NEW S, NEW s \in Seq(S), NEW x \in S, NEW y \in S
  PROVE  [Append(s, x) EXCEPT ![Len(Append(s, x))] = y] = Append(s, y)
<1> DEFINE t == Append(s, x)
           u == Append(s, y)
           v == [t EXCEPT ![Len(t)] = y]
<1>1. /\ t \in Seq(S) /\ u \in Seq(S) /\ Len(t) = Len(s) + 1 /\ Len(u) = Len(s) + 1
      /\ Len(s) \in Nat /\ u[Len(s) + 1] = y
      /\ \A i \in 1..Len(s) : t[i] = s[i] /\ u[i] = s[i]
  OBVIOUS
<1> HIDE DEF t, u
<1>2. v \in Seq(S) /\ Len(v) = Len(t) /\ v[Len(t)] = y
      /\ \A i \in 1..Len(t) : i # Len(t) => v[i] = t[i]
  BY <1>1
<1> HIDE DEF v
<1>3. ASSUME NEW i \in 1..(Len(s) + 1)
      PROVE  v[i] = u[i]
  <2>1. CASE i = Len(s) + 1
    BY <1>1, <1>2, <2>1
  <2>2. CASE i # Len(s) + 1
    <3>1. i \in 1..Len(s) /\ i \in 1..Len(t) /\ i # Len(t)
      BY <1>1, <2>2
    <3> QED
      BY <1>1, <1>2, <3>1
  <2> QED
    BY <2>1, <2>2
<1>4. v = u
  BY <1>1, <1>2, <1>3
<1> QED
  BY <1>4 DEF t, u, v

\* What is left of two sequences when the end of the second is cut off.
LEMMA CutConcat ==
  ASSUME NEW S, NEW s \in Seq(S), NEW t \in Seq(S), NEW k \in 0..Len(t)
  PROVE  SubSeq(s \o t, 1, Len(s) + k) = s \o SubSeq(t, 1, k)
<1> DEFINE u == s \o t
           c == SubSeq(t, 1, k)
           v == SubSeq(u, 1, Len(s) + k)
           w == s \o c
<1>1. /\ Len(s) \in Nat /\ Len(t) \in Nat /\ k \in Nat
      /\ u \in Seq(S) /\ Len(u) = Len(s) + Len(t)
      /\ c \in Seq(S) /\ Len(c) = k /\ \A i \in 1..k : c[i] = t[i]
  OBVIOUS
<1>2. \A i \in 1..(Len(s) + Len(t)) : u[i] = IF i <= Len(s) THEN s[i] ELSE t[i - Len(s)]
  OBVIOUS
<1> HIDE DEF u, c
<1>3. /\ v \in Seq(S) /\ Len(v) = Len(s) + k
      /\ \A i \in 1..(Len(s) + k) : v[i] = u[i]
  BY <1>1
<1>4. /\ w \in Seq(S) /\ Len(w) = Len(s) + k
      /\ \A i \in 1..(Len(s) + k) : w[i] = IF i <= Len(s) THEN s[i] ELSE c[i - Len(s)]
  <2>1. /\ w \in Seq(S) /\ Len(w) = Len(s) + Len(c)
        /\ \A i \in 1..(Len(s) + Len(c)) : w[i] = IF i <= Len(s) THEN s[i] ELSE c[i - Len(s)]
    <3>1. c \in Seq(S) /\ s \in Seq(S)
      BY <1>1
    <3> QED
      BY <3>1, ConcatFacts
  <2> HIDE DEF w
  <2> QED
    BY <1>1, <2>1
<1> HIDE DEF v, w
<1>5. ASSUME NEW i \in 1..(Len(s) + k)
      PROVE  v[i] = w[i]
  <2>1. i \in 1..(Len(s) + Len(t)) /\ (~(i <= Len(s)) => i - Len(s) \in 1..k)
    BY <1>1
  <2>2. v[i] = IF i <= Len(s) THEN s[i] ELSE t[i - Len(s)]
    BY <1>2, <1>3, <2>1
  <2>3. w[i] = IF i <= Len(s) THEN s[i] ELSE c[i - Len(s)]
    BY <1>4
  <2>4. ~(i <= Len(s)) => c[i - Len(s)] = t[i - Len(s)]
    BY <1>1, <2>1
  <2> QED
    BY <2>2, <2>3, <2>4
<1>6. v = w
  BY <1>1, <1>3, <1>4, <1>5
<1> QED
  BY <1>6 DEF u, c, v, w

\* One more character, and fewer of them.
LEMMA ShownAppend ==
  ASSUME NEW S, NEW n \in Nat, NEW buffer, NEW other, NEW ch \in S,
         Shown(n, buffer) \in Seq(S),
         \A i \in 0..(n - 1) : other[i] = buffer[i], other[n] = ch
  PROVE  Shown(n + 1, other) = Append(Shown(n, buffer), ch)
<1> DEFINE s == Shown(n, buffer)
           u == Append(s, ch)
           v == Shown(n + 1, other)
<1>1. /\ DOMAIN s = 1..n /\ \A i \in 1..n : s[i] = buffer[i - 1]
      /\ v = [i \in 1..(n + 1) |-> other[i - 1]]
  BY DEF Shown
<1>2. Len(s) = n
  BY <1>1
<1> HIDE DEF s, v
<1>3. s \in Seq(S)
  BY DEF s
<1>4. /\ u = [i \in 1..(n + 1) |-> u[i]] /\ u[n + 1] = ch
      /\ \A i \in 1..n : u[i] = s[i]
  <2>1. /\ u \in Seq(S) /\ Len(u) = n + 1 /\ DOMAIN u = 1..(n + 1) /\ u[n + 1] = ch
        /\ \A i \in 1..n : u[i] = s[i]
    BY <1>2, <1>3, AppendFacts
  <2> HIDE DEF u
  <2>2. u = [i \in 1..(n + 1) |-> u[i]]
    BY <2>1
  <2> QED
    BY <2>1, <2>2
<1> HIDE DEF u
<1>5. ASSUME NEW i \in 1..(n + 1)
      PROVE  other[i - 1] = u[i]
  <2>1. CASE i = n + 1
    BY <1>4, <2>1
  <2>2. CASE i # n + 1
    <3>1. i \in 1..n /\ i - 1 \in 0..(n - 1)
      BY <2>2
    <3> QED
      BY <1>1, <1>4, <3>1
  <2> QED
    BY <2>1, <2>2
<1>6. v = u
  BY <1>1, <1>4, <1>5
<1> QED
  BY <1>6 DEF s, u, v

LEMMA ShownCut ==
  ASSUME NEW S, NEW n \in Nat, NEW buffer, Shown(n, buffer) \in Seq(S), NEW k \in 0..n
  PROVE  SubSeq(Shown(n, buffer), 1, k) = Shown(k, buffer)
<1> DEFINE s == Shown(n, buffer)
           u == SubSeq(s, 1, k)
<1>1. DOMAIN s = 1..n /\ \A i \in 1..n : s[i] = buffer[i - 1]
  BY DEF Shown
<1>2. Len(s) = n
  BY <1>1
<1>3. s \in Seq(S)
  OBVIOUS
<1> HIDE DEF s
<1>4. u = [i \in 1..k |-> u[i]] /\ \A i \in 1..k : u[i] = s[i]
  BY <1>2, <1>3
<1> HIDE DEF u
<1>5. \A i \in 1..k : u[i] = buffer[i - 1]
  BY <1>1, <1>4
<1>6. u = Shown(k, buffer)
  BY <1>4, <1>5 DEF Shown
<1> QED
  BY <1>6 DEF s, u

(***************************************************************************)
(* Lines that end                                                          *)
(***************************************************************************)

\* What is in the buffer when newline and NUL have been added.
LEMMA ReturnedBuffer ==
  ASSUME NEW n \in 0..(MaxBufferLine - 2),
         NEW buffer \in [Cells -> Chars \cup {NEWLINE, NUL}]
  PROVE  LET other == Store(Store(buffer, n, NEWLINE), n + 1, NUL)
         IN  /\ n \in Nat /\ n + 1 \in Cells /\ n \in Cells
             /\ other[n] = NEWLINE /\ other[n + 1] = NUL
             /\ \A i \in 0..(n - 1) : other[i] = buffer[i]
<1>1. /\ n \in Nat /\ n \in Cells /\ n + 1 \in Cells /\ n + 1 # n
      /\ 0..(n - 1) \subseteq Cells
      /\ \A i \in 0..(n - 1) : i # n /\ i # n + 1
  BY ReadLineAssumption DEF Cells
<1>2. Store(Store(buffer, n, NEWLINE), n + 1, NUL)
        = [[buffer EXCEPT ![n] = NEWLINE] EXCEPT ![n + 1] = NUL]
  BY <1>1 DEF Store
<1> QED
  BY <1>1, <1>2

\* A line of characters is returned with its newline.
LEMMA ReturnedLine ==
  ASSUME NEW n \in 0..(MaxBufferLine - 2),
         NEW buffer \in [Cells -> Chars \cup {NEWLINE, NUL}],
         \A i \in 0..(n - 1) : buffer[i] \in Chars, Shown(n, buffer) \in Seq(Chars)
  PROVE  String(Store(Store(buffer, n, NEWLINE), n + 1, NUL))
           = Append(Shown(n, buffer), NEWLINE)
<1> DEFINE other == Store(Store(buffer, n, NEWLINE), n + 1, NUL)
<1>1. /\ n \in Nat /\ n + 1 \in Cells /\ other[n] = NEWLINE /\ other[n + 1] = NUL
      /\ \A i \in 0..(n - 1) : other[i] = buffer[i]
  BY ReturnedBuffer
<1> HIDE DEF other
<1>2. NUL \notin Chars /\ NEWLINE # NUL
  BY ReadLineAssumption
<1>3. \A i \in 0..((n + 1) - 1) : other[i] # NUL
  <2> SUFFICES ASSUME NEW i \in 0..((n + 1) - 1)
               PROVE  other[i] # NUL
    OBVIOUS
  <2>1. CASE i = n
    BY <1>1, <1>2, <2>1
  <2>2. CASE i # n
    <3>1. i \in 0..(n - 1)
      BY <1>1, <2>2
    <3> QED
      BY <1>1, <1>2, <3>1
  <2> QED
    BY <2>1, <2>2
<1>4. n + 1 \in Nat
  BY <1>1
<1>5. String(other) = Shown(n + 1, other)
  BY <1>1, <1>3, <1>4, StringIs
<1>6. Shown(n + 1, other) = Append(Shown(n, buffer), NEWLINE)
  <2>1. Shown(n, buffer) \in Seq(Chars \cup {NEWLINE})
    OBVIOUS
  <2> QED
    BY <1>1, <2>1, ShownAppend
<1> QED
  BY <1>5, <1>6 DEF other

\* A line whose first character became a NUL.
LEMMA ReturnedUsage ==
  ASSUME NEW n \in 0..(MaxBufferLine - 2),
         NEW buffer \in [Cells -> Chars \cup {NEWLINE, NUL}], buffer[0] = NUL
  PROVE  String(Store(Store(buffer, n, NEWLINE), n + 1, NUL)) \in {<<>>, <<NEWLINE>>}
<1> DEFINE other == Store(Store(buffer, n, NEWLINE), n + 1, NUL)
<1>1. /\ n \in Nat /\ n + 1 \in Cells /\ other[n] = NEWLINE /\ other[n + 1] = NUL
      /\ \A i \in 0..(n - 1) : other[i] = buffer[i]
  BY ReturnedBuffer
<1> HIDE DEF other
<1>2. CASE n = 0
  <2>1. 1 \in Cells /\ 1 \in Nat /\ other[1] = NUL /\ other[0] = NEWLINE
    BY <1>1, <1>2
  <2>2. \A i \in 0..(1 - 1) : other[i] # NUL
    BY <2>1, ReadLineAssumption
  <2>3. String(other) = Shown(1, other)
    BY <2>1, <2>2, StringIs
  <2>4. Shown(1, other) = <<NEWLINE>>
    BY <2>1 DEF Shown
  <2> QED
    BY <2>3, <2>4 DEF other
<1>3. CASE n # 0
  <2>1. 0 \in 0..(n - 1)
    BY <1>1, <1>3
  <2>2. other[0] = NUL /\ 0 \in Cells /\ 0 \in Nat
    BY <1>1, <2>1, ReadLineAssumption DEF Cells
  <2>3. \A i \in 0..(0 - 1) : other[i] # NUL
    OBVIOUS
  <2>4. String(other) = Shown(0, other)
    BY <2>2, <2>3, StringIs
  <2>5. Shown(0, other) = <<>>
    BY DEF Shown
  <2> QED
    BY <2>4, <2>5 DEF other
<1> QED
  BY <1>2, <1>3

(***************************************************************************)
(* Steps                                                                   *)
(***************************************************************************)

\* What TypeOK and LineOnScreen say while a line is edited.
LEMMA Editing ==
  ASSUME TypeOK, LineOnScreen, place = "editing", ~below
  PROVE  /\ line_length \in 0..(MaxBufferLine - 2)
         /\ line_buffer \in [Cells -> Chars \cup {NEWLINE, NUL}]
         /\ screen \in Seq(Chars)
         /\ screen = Prompt \o Shown(line_length, line_buffer)
         /\ \A i \in 0..(line_length - 1) : line_buffer[i] \in Chars
         /\ Shown(line_length, line_buffer) \in Seq(Chars)
         /\ Len(Shown(line_length, line_buffer)) = line_length
         /\ Len(screen) = Len(Prompt) + line_length
<1>1. /\ line_length \in 0..(MaxBufferLine - 2) /\ line_length \in Nat
      /\ line_buffer \in [Cells -> Chars \cup {NEWLINE, NUL}] /\ screen \in Seq(Chars)
  BY ReadLineAssumption DEF TypeOK
<1>2. screen = Prompt \o Shown(line_length, line_buffer)
  BY ScreenParts
<1> QED
  BY <1>1, <1>2, NoNulShown

\* What the next state has to show.
LEMMA ScreenNext ==
  (~below' =>
     /\ place' = "editing" => screen' = Prompt \o Shown(line_length', line_buffer')
     /\ result'.end = "enter" => Prompt \o result'.line = Append(result'.shown, NEWLINE)
     /\ result'.end = "full" =>
          Prompt \o result'.line = [result'.shown EXCEPT ![Len(result'.shown)] = NEWLINE]
     /\ result'.end = "usage" => result'.line \in {<<>>, <<NEWLINE>>})
  => LineOnScreen'
BY DEF LineOnScreen, Shown

\* A step that edits: the last line read is still right.
LEMMA EditStep ==
  ASSUME LineOnScreen, UNCHANGED result, ~below' => ~below,
         ~below' /\ place' = "editing" => screen' = Prompt \o Shown(line_length', line_buffer')
  PROVE  LineOnScreen'
BY ScreenParts, ScreenNext

LEMMA LineStarts ==
  ASSUME TypeOK, LineOnScreen, StartLine
  PROVE  LineOnScreen'
<1>1. UNCHANGED <<below, result>> /\ screen' = Prompt /\ line_length' = 0
  BY DEF StartLine
<1>2. Shown(line_length', line_buffer') = <<>>
  BY <1>1 DEF Shown
<1>3. screen' = Prompt \o Shown(line_length', line_buffer')
  BY <1>1, <1>2, PromptFacts, ConcatEmpty
<1> QED
  BY <1>1, <1>3, EditStep

\* A line of characters that ends: it is returned with a newline, and the prompt
\* and the line are what was on the screen.
LEMMA LineReturned ==
  ASSUME TypeOK, LineOnScreen, place = "editing", ~below
  PROVE  Prompt \o String(Store(Store(line_buffer, line_length, NEWLINE), line_length + 1, NUL))
           = Append(screen, NEWLINE)
<1> DEFINE line == Shown(line_length, line_buffer)
           T == Chars \cup {NEWLINE}
<1>1. String(Store(Store(line_buffer, line_length, NEWLINE), line_length + 1, NUL))
        = Append(line, NEWLINE)
  BY Editing, ReturnedLine
<1>2. screen = Prompt \o line /\ line \in Seq(T) /\ Prompt \in Seq(T) /\ NEWLINE \in T
  BY Editing, PromptFacts
<1> HIDE DEF line, T
<1>3. Prompt \o Append(line, NEWLINE) = Append(Prompt \o line, NEWLINE)
  BY <1>2, ConcatAppend
<1> QED
  BY <1>1, <1>2, <1>3

LEMMA LineEntered ==
  ASSUME TypeOK, LineOnScreen, Enter
  PROVE  LineOnScreen'
<1>1. /\ place = "editing" /\ place' = "prompt" /\ below' = below
      /\ result' = [end |-> "enter", shown |-> screen,
                    line |-> String(Store(Store(line_buffer, line_length, NEWLINE),
                                          line_length + 1, NUL))]
  BY DEF Enter, Returns
<1>2. /\ result'.end = "enter" /\ result'.shown = screen
      /\ result'.line = String(Store(Store(line_buffer, line_length, NEWLINE),
                                     line_length + 1, NUL))
  BY <1>1
<1>3. ~below => Prompt \o result'.line = Append(result'.shown, NEWLINE)
  BY <1>1, <1>2, LineReturned
<1> QED
  BY <1>1, <1>2, <1>3, ScreenNext

LEMMA UsageShown ==
  ASSUME TypeOK, LineOnScreen, Usage
  PROVE  LineOnScreen'
<1> DEFINE buffer == Store(line_buffer, 0, NUL)
<1>1. /\ place = "editing" /\ place' = "prompt" /\ below' = below
      /\ result'.end = "usage"
      /\ result'.line = String(Store(Store(buffer, line_length, NEWLINE), line_length + 1, NUL))
  BY DEF Usage, Returns
<1>2. 0 \in Cells /\ buffer = [line_buffer EXCEPT ![0] = NUL]
  BY ReadLineAssumption DEF Cells, Store
<1>3. /\ buffer \in [Cells -> Chars \cup {NEWLINE, NUL}] /\ buffer[0] = NUL
  BY <1>2 DEF TypeOK
<1> HIDE DEF buffer
<1>4. ~below => result'.line \in {<<>>, <<NEWLINE>>}
  BY <1>1, <1>3, Editing, ReturnedUsage
<1> QED
  BY <1>1, <1>4, ScreenNext

LEMMA CharErased ==
  ASSUME TypeOK, LineOnScreen, Backspace
  PROVE  LineOnScreen'
<1>1. /\ place = "editing" /\ UNCHANGED <<line_buffer, place, result>>
      /\ screen' = Erased(1) /\ line_length' = line_length - 1
      /\ below' <=> below \/ line_length <= 0
  BY DEF Backspace
<1>2. ASSUME ~below'
      PROVE  screen' = Prompt \o Shown(line_length', line_buffer')
  <2> DEFINE line == Shown(line_length, line_buffer)
  <2>1. ~below /\ line_length \in Nat /\ line_length >= 1
    BY <1>1, <1>2, Editing
  <2>2. /\ line \in Seq(Chars) /\ Len(line) = line_length /\ screen = Prompt \o line
        /\ Len(screen) = Len(Prompt) + line_length
    BY <1>1, <2>1, Editing
  <2>3. SubSeq(line, 1, line_length - 1) = Shown(line_length - 1, line_buffer)
    <3>1. line_length - 1 \in 0..line_length
      BY <2>1
    <3> QED
      BY <2>1, <2>2, <3>1, ShownCut
  <2> HIDE DEF line
  <2>4. Erased(1) = SubSeq(screen, 1, Len(Prompt) + (line_length - 1))
    BY <2>1, <2>2, PromptFacts DEF Erased
  <2>5. SubSeq(Prompt \o line, 1, Len(Prompt) + (line_length - 1))
          = Prompt \o SubSeq(line, 1, line_length - 1)
    <3>1. line_length - 1 \in 0..Len(line)
      BY <2>1, <2>2
    <3> QED
      BY <2>2, <3>1, PromptFacts, CutConcat
  <2> QED
    BY <1>1, <2>2, <2>3, <2>4, <2>5
<1> QED
  BY <1>1, <1>2, EditStep

LEMMA HistoryShown ==
  ASSUME TypeOK, LineOnScreen, UpArrow
  PROVE  LineOnScreen'
<1> DEFINE new == History[history_index + 1]
<1>1. /\ place = "editing" /\ UNCHANGED <<place, below, result>>
      /\ line_buffer' = [i \in Cells |-> IF i < Len(new) THEN new[i + 1]
                                         ELSE IF i = Len(new) THEN NUL ELSE line_buffer[i]]
      /\ line_length' = Len(new)
      /\ screen' = Erased(IF line_length < 0 THEN 0 ELSE line_length) \o new
  BY DEF UpArrow
<1>2. new \in Seq(Chars) /\ Len(new) \in 0..(MaxBufferLine - 2)
  BY HistoryLine DEF TypeOK
<1> HIDE DEF new
<1>3. Shown(line_length', line_buffer') = new
  <2>1. \A i \in 1..Len(new) : i - 1 \in Cells /\ i - 1 < Len(new) /\ (i - 1) + 1 = i
    BY <1>2, ReadLineAssumption DEF Cells
  <2>2. \A i \in 1..Len(new) : line_buffer'[i - 1] = new[i]
    BY <1>1, <2>1
  <2>3. new = [i \in 1..Len(new) |-> new[i]]
    BY <1>2
  <2>4. Shown(line_length', line_buffer') = [i \in 1..Len(new) |-> line_buffer'[i - 1]]
    BY <1>1 DEF Shown
  <2> QED
    BY <2>2, <2>3, <2>4
<1>4. ASSUME ~below'
      PROVE  screen' = Prompt \o Shown(line_length', line_buffer')
  <2> DEFINE line == Shown(line_length, line_buffer)
  <2>1. /\ ~below /\ line_length \in Nat
        /\ line \in Seq(Chars) /\ Len(line) = line_length /\ screen = Prompt \o line
        /\ Len(screen) = Len(Prompt) + line_length
    BY <1>1, <1>4, Editing
  <2> HIDE DEF line
  <2>2. Erased(line_length) = SubSeq(screen, 1, Len(Prompt) + 0)
    BY <2>1, PromptFacts DEF Erased
  <2>3. SubSeq(Prompt \o line, 1, Len(Prompt) + 0) = Prompt \o SubSeq(line, 1, 0)
    <3>1. 0 \in 0..Len(line)
      BY <2>1
    <3> QED
      BY <2>1, <3>1, PromptFacts, CutConcat
  <2>4. SubSeq(line, 1, 0) = <<>>
    BY <2>1
  <2>5. Prompt \o <<>> = Prompt
    BY PromptFacts, ConcatEmpty
  <2>6. (IF line_length < 0 THEN 0 ELSE line_length) = line_length
    BY <2>1
  <2>7. screen' = Erased(line_length) \o new
    BY <1>1, <2>6
  <2> QED
    BY <1>3, <2>1, <2>2, <2>3, <2>4, <2>5, <2>7
<1> QED
  BY <1>1, <1>4, EditStep

LEMMA CharTyped ==
  ASSUME TypeOK, LineOnScreen, NEW ch \in Chars, Type(ch)
  PROVE  LineOnScreen'
<1> DEFINE line == Shown(line_length, line_buffer)
<1>1. CASE Full
  <2> DEFINE returned == String(Store(Store(line_buffer, line_length, NEWLINE),
                                      line_length + 1, NUL))
  <2>1. /\ place = "editing" /\ place' = "prompt" /\ below' = below
        /\ result'.end = "full" /\ result'.shown = Append(screen, ch)
        /\ result'.line = returned
    BY <1>1 DEF Type, Returns
  <2>2. ~below => Prompt \o returned = Append(screen, NEWLINE)
    BY <2>1, LineReturned
  <2> HIDE DEF returned
  <2>3. [Append(screen, ch) EXCEPT ![Len(Append(screen, ch))] = NEWLINE]
          = Append(screen, NEWLINE)
    <3>1. /\ screen \in Seq(Chars \cup {NEWLINE}) /\ ch \in Chars \cup {NEWLINE}
          /\ NEWLINE \in Chars \cup {NEWLINE}
      BY DEF TypeOK
    <3> QED
      BY <3>1, LastReplaced
  <2> QED
    BY <2>1, <2>2, <2>3, ScreenNext
<1>2. CASE ~Full
  <2>1. /\ place = "editing" /\ UNCHANGED <<place, below, result>>
        /\ screen' = Append(screen, ch) /\ line_length' = line_length + 1
        /\ line_buffer' = Store(line_buffer, line_length, ch)
    BY <1>2 DEF Type
  <2>2. ASSUME ~below'
        PROVE  screen' = Prompt \o Shown(line_length', line_buffer')
    <3>1. /\ ~below /\ line_length \in Nat /\ line_length <= MaxBufferLine - 2
          /\ line \in Seq(Chars) /\ screen = Prompt \o line
          /\ line_buffer \in [Cells -> Chars \cup {NEWLINE, NUL}]
      BY <2>1, <2>2, Editing
    <3>2. /\ line_length \in Cells
          /\ \A i \in 0..(line_length - 1) : i \in Cells /\ i # line_length
      BY <3>1, ReadLineAssumption DEF Cells
    <3>3. line_buffer' = [line_buffer EXCEPT ![line_length] = ch]
      BY <2>1, <3>2 DEF Store
    <3>4. /\ line_buffer'[line_length] = ch
          /\ \A i \in 0..(line_length - 1) : line_buffer'[i] = line_buffer[i]
      BY <3>1, <3>2, <3>3
    <3>5. Shown(line_length + 1, line_buffer') = Append(line, ch)
      BY <3>1, <3>4, ShownAppend
    <3> HIDE DEF line
    <3>6. Prompt \o Append(line, ch) = Append(Prompt \o line, ch)
      BY <3>1, PromptFacts, ConcatAppend
    <3> QED
      BY <2>1, <3>1, <3>5, <3>6
  <2> QED
    BY <2>1, <2>2, EditStep
<1> QED
  BY <1>1, <1>2

LEMMA ScreenInit == Init => LineOnScreen
BY DEF Init, LineOnScreen

LEMMA ScreenStep == TypeOK /\ LineOnScreen /\ [Next]_vars => LineOnScreen'
<1> SUFFICES ASSUME TypeOK, LineOnScreen, [Next]_vars
             PROVE  LineOnScreen'
  OBVIOUS
<1>1. CASE Next
  BY <1>1, LineStarts, LineEntered, UsageShown, CharErased, HistoryShown, CharTyped DEF Next
<1>2. CASE UNCHANGED vars
  BY <1>2, EditStep, ScreenParts DEF vars
<1> QED
  BY <1>1, <1>2

\* Whatever is typed, in any order, for a buffer of any size, any prompt and any
\* history that fits: until backspace is typed on an empty line (read-line.c:148)
\* the screen shows the prompt and exactly what the buffer holds, and each line
\* is returned as it was shown, the one that did not fit without its last
\* character (read-line.c:99), the one ended by the usage empty (read-line.c:124).
THEOREM ScreenIsRight == Spec => []LineOnScreen
BY TypeInit, TypeStep, ScreenInit, ScreenStep, PTL DEF Spec

=============================================================================
