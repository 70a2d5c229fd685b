--------------------------- MODULE MyMallocProofs ---------------------------
(***************************************************************************)
(* Proofs about MyMalloc, for any sizes, addresses, requests and number of *)
(* objects that satisfy the assumptions: the invariant of                  *)
(* MyMallocInvariant is inductive, the safety properties follow from it,   *)
(* and the allocator implements Allocator.  The last part says what a step *)
(* does to the blocks of the program, for those who call the allocator.    *)
(*                                                                         *)
(* What an assignment to tags does to the shape of the heap or to the free *)
(* list is said once, of any tags: Splits, Merges, Flips and Grows for the *)
(* shape, Inserts, Removes and Replaces for the list.  The lemma of an     *)
(* action then shows which of them it is.                                  *)
(***************************************************************************)
EXTENDS MyMallocInvariant, FiniteSetTheorems, TLAPS

(***************************************************************************)
(* Arithmetic                                                              *)
(***************************************************************************)

\* What % and \div are for integers.
LEMMA DivMod ==
  ASSUME NEW a \in Int, NEW p \in Nat \ {0}
  PROVE (a % p) \in 0 .. (p-1) /\ a = (p * (a \div p)) + (a % p) /\ a \div p \in Int
OBVIOUS

\* A multiple of p leaves no remainder.
LEMMA MultipleMod ==
  ASSUME NEW k \in Int, NEW p \in Nat \ {0}, NEW a \in Int, a = p * k
  PROVE a % p = 0
<1> DEFINE q == a \div p  r == a % p
<1>1. r \in 0 .. (p-1) /\ a = (p * q) + r /\ q \in Int
  BY DivMod
<1> HIDE DEF q, r
<1>2. r = p * (k - q)
  BY <1>1
<1>3. k - q < 1
  BY <1>1, <1>2
<1>4. k - q > -1
  BY <1>1, <1>2
<1>5. r = 0 BY <1>1, <1>2, <1>3, <1>4
<1> QED BY <1>5 DEF r

\* A number without remainder is a multiple of p.
LEMMA Quotient ==
  ASSUME NEW a \in Int, NEW p \in Nat \ {0}, a % p = 0
  PROVE \E k \in Int : a = p * k
<1>1. a = (p * (a \div p)) + 0 /\ a \div p \in Int
  BY DivMod
<1>2. a = p * (a \div p)
  BY <1>1
<1> QED BY <1>1, <1>2

\* Sums and differences of multiples of p are multiples of p.
LEMMA ModPlus ==
  ASSUME NEW a \in Int, NEW b \in Int, NEW p \in Nat \ {0}, a % p = 0, b % p = 0
  PROVE (a + b) % p = 0 /\ (a - b) % p = 0
<1>1. PICK k \in Int : a = p * k
  BY Quotient
<1>2. PICK m \in Int : b = p * m
  BY Quotient
<1>3. a + b = p * (k + m) /\ a - b = p * (k - m)
  BY <1>1, <1>2
<1> QED BY <1>3, MultipleMod

\* Rounding down to a multiple of p takes less than p away.
LEMMA Rounding ==
  ASSUME NEW a \in Int, NEW p \in Nat \ {0}
  PROVE /\ (a - (a % p)) % p = 0
        /\ a - (a % p) <= a
        /\ a - (a % p) > a - p
<1>1. (a % p) \in 0 .. (p-1) /\ a = (p * (a \div p)) + (a % p) /\ a \div p \in Int
  BY DivMod
<1>2. a - (a % p) = p * (a \div p)
  BY <1>1
<1>3. (a - (a % p)) % p = 0
  BY <1>1, <1>2, MultipleMod
<1> QED BY <1>1, <1>3

\* A multiple of p below b + p is at most b, when b is one too.
LEMMA LeastMultiple ==
  ASSUME NEW a \in Int, NEW b \in Int, NEW p \in Nat \ {0}, a % p = 0, b % p = 0, a < b + p
  PROVE a <= b
<1>1. PICK k \in Int : a = p * k
  BY Quotient
<1>2. PICK m \in Int : b = p * m
  BY Quotient
<1>3. k < m + 1
  <2>1. p * k < p * (m + 1)
    BY <1>1, <1>2
  <2> QED BY <2>1
<1>4. p * k <= p * m
  BY <1>3
<1> QED BY <1>1, <1>2, <1>4

(***************************************************************************)
(* Sizes, addresses and tags                                               *)
(***************************************************************************)

\* The sizes and addresses as integers, and how they are ordered.
LEMMA Constants ==
  /\ HEADER_SIZE \in Nat \ {0} /\ FOOTER_SIZE \in Nat \ {0} /\ ARENA_SIZE \in Nat \ {0}
  /\ MINIMUM_SIZE \in Nat \ {0} /\ SIZE_PRECISION \in Nat \ {0}
  /\ MinSize \in Nat /\ MinSize = MINIMUM_SIZE + HEADER_SIZE + FOOTER_SIZE
  /\ RealSize \in Nat /\ RealSize = ARENA_SIZE + HEADER_SIZE + FOOTER_SIZE
  /\ OsBlock \in Nat /\ OsBlock = RealSize + HEADER_SIZE + FOOTER_SIZE
  /\ MinSize <= RealSize
  /\ HeapStart \in Nat /\ HeapLimit \in Nat /\ free_list_sentinel \in Nat
  /\ free_list_sentinel < HeapStart /\ HeapStart + OsBlock <= HeapLimit
  /\ NULL \notin Nat
BY SizesAssumption, AddressesAssumption, SentinelBelowHeap DEF MinSize, RealSize, OsBlock

\* Store changes a function at one place.
LEMMA StoreFacts ==
  ASSUME NEW f, NEW a, NEW v
  PROVE  /\ DOMAIN Store(f, a, v) = DOMAIN f \cup {a}
         /\ Store(f, a, v)[a] = v
         /\ \A x \in DOMAIN f \ {a} : Store(f, a, v)[x] = f[x]
BY DEF Store

\* Where the end fencepost of a chunk is.
LEMMA Fence ==
  ASSUME NEW c
  PROVE EndFencepost(c) = c + FOOTER_SIZE + RealSize
BY DEF EndFencepost

(***************************************************************************)
(* The shape of the heap, and what keeps it                                *)
(***************************************************************************)

\* No object reaches over a fencepost, of its own chunk or of another one.
LEMMA FenceOutside ==
  ASSUME NEW hd, NEW ft, NEW ch, NEW brk, Shape(hd, ft, ch, brk),
         NEW o \in ObjectsOf(hd, ch), NEW c \in ch
  PROVE  /\ c + FOOTER_SIZE <= o \/ EndOf(hd, o) <= c
         /\ EndOf(hd, o) <= EndFencepost(c) \/ o > EndFencepost(c) 
         /\ c \in Int /\ o \in Int /\ Size(hd, o) \in Int /\ EndOf(hd, o) \in Int /\ EndFencepost(c) \in Int
         /\ EndOf(hd, o) = o + Size(hd, o) /\ Size(hd, o) >= MinSize
<1>1. PICK d \in ch : d + FOOTER_SIZE <= o /\ EndOf(hd, o) <= EndFencepost(d)
  BY DEF Shape, Placed
<1>2. /\ o \in Int /\ Size(hd, o) \in Int /\ Size(hd, o) >= MinSize
      /\ EndOf(hd, o) = o + Size(hd, o)
  BY DEF Shape, Placed, EndOf, Size
<1>3. c \in Int /\ d \in Int /\ (c < d => c + OsBlock <= d) /\ (d < c => d + OsBlock <= c)
  BY DEF Shape, ChunksApart
<1> QED BY <1>1, <1>2, <1>3, Constants, Fence

\* HeaderTags hd2 and ft2 are hd and ft with object o split: front bytes with status s1,
\* the others with status s2.
Splits(hd, ft, o, front, s1, s2, hd2, ft2) ==
  /\ DOMAIN hd2 = DOMAIN hd \cup {o + front}
  /\ Size(hd2, o) = front /\ Status(hd2, o) = s1
  /\ Size(hd2, o + front) = Size(hd, o) - front /\ Status(hd2, o + front) = s2
  /\ \A x \in DOMAIN hd \ {o} :
       Size(hd2, x) = Size(hd, x) /\ Status(hd2, x) = Status(hd, x)
  /\ DOMAIN ft2 = DOMAIN ft \cup {o + front - FOOTER_SIZE}
  /\ ft2[o + front - FOOTER_SIZE] = FooterTag(front, s1)
  /\ ft2[EndOf(hd, o) - FOOTER_SIZE] = FooterTag(Size(hd, o) - front, s2)
  /\ \A f \in DOMAIN ft \ {o + front - FOOTER_SIZE, EndOf(hd, o) - FOOTER_SIZE} :
       ft2[f] = ft[f]

\* Splitting an object in two that are both large enough keeps the shape of the
\* heap (allocate_object, MyMalloc.c).
LEMMA SplitShape ==
  ASSUME NEW hd, NEW ft, NEW ch, NEW brk, Shape(hd, ft, ch, brk),
         NEW o \in ObjectsOf(hd, ch), NEW front \in Int,
         front % SIZE_PRECISION = 0, front >= MinSize, Size(hd, o) - front >= MinSize,
         NEW s1 \in {UNALLOCATED, ALLOCATED}, NEW s2 \in {UNALLOCATED, ALLOCATED},
         NEW hd2, NEW ft2, Splits(hd, ft, o, front, s1, s2, hd2, ft2)
  PROVE  /\ Shape(hd2, ft2, ch, brk)
         /\ ObjectsOf(hd2, ch) = ObjectsOf(hd, ch) \cup {o + front}
         /\ o + front \notin DOMAIN hd
<1> USE DEF Splits
<1> DEFINE n == o + front
           O == ObjectsOf(hd, ch)
           f1 == o + front - FOOTER_SIZE
           f2 == EndOf(hd, o) - FOOTER_SIZE
<1>a. /\ DOMAIN hd2 = DOMAIN hd \cup {n}
      /\ Size(hd2, o) = front /\ Status(hd2, o) = s1
      /\ Size(hd2, n) = Size(hd, o) - front /\ Status(hd2, n) = s2
  OBVIOUS
<1>b. /\ DOMAIN ft2 = DOMAIN ft \cup {f1}
      /\ ft2[f1] = FooterTag(front, s1)
      /\ ft2[f2] = FooterTag(Size(hd, o) - front, s2)
      /\ \A f \in DOMAIN ft \ {f1, f2} : ft2[f] = ft[f]
  OBVIOUS
<1>c. n = o + front /\ n \in Int /\ f1 = n - FOOTER_SIZE /\ f2 = EndOf(hd, o) - FOOTER_SIZE
      /\ f1 \in Int /\ f2 \in Int
  BY Constants DEF Shape, Placed, EndOf, Size
<1> HIDE DEF n, f1, f2
<1>1. /\ o \in Int /\ Size(hd, o) \in Int /\ EndOf(hd, o) = o + Size(hd, o)
      /\ Size(hd, o) >= MinSize /\ Size(hd, o) % SIZE_PRECISION = 0
      /\ n \in Int /\ o < n /\ n < EndOf(hd, o)
  BY <1>c, Constants DEF Shape, Placed, EndOf, Size
<1>2. n \notin DOMAIN hd
  <2>1. \A x \in DOMAIN hd : x <= o \/ EndOf(hd, o) <= x
    BY DEF Shape, Tiled
  <2> QED BY <1>1, <2>1
<1>3. n \notin Fences(ch) \cup {free_list_sentinel}
  <2>1. Fences(ch) \subseteq DOMAIN hd
    BY DEF Shape, Fenced, Fences
  <2>2. PICK c \in ch : c + FOOTER_SIZE <= o
    BY DEF Shape, Placed
  <2>3. c \in Int /\ HeapStart <= c
    BY DEF Shape, ChunksApart
  <2> QED BY <1>1, <1>2, <2>1, <2>2, <2>3, Constants
<1>4. ObjectsOf(hd2, ch) = O \cup {n}
  BY <1>a, <1>3 DEF ObjectsOf
<1>5. ChunksApart(ch, brk)
  BY DEF Shape
<1>6. \A x \in DOMAIN hd \ {o} : Size(hd2, x) = Size(hd, x) /\ Status(hd2, x) = Status(hd, x) /\ EndOf(hd2, x) = EndOf(hd, x)
  BY DEF EndOf, Size
<1>7. EndOf(hd2, o) = n /\ EndOf(hd2, n) = EndOf(hd, o)
  BY <1>1, <1>a, <1>c DEF EndOf, Size
<1>8. o \notin Fences(ch)
  BY DEF ObjectsOf
<1>9. Fenced(hd2, ft2, ch)
  <2> SUFFICES ASSUME NEW c \in ch
        PROVE /\ c \in DOMAIN ft2
              /\ ft2[c] = FooterTag(0, ALLOCATED)
              /\ EndFencepost(c) \in DOMAIN hd2
              /\ Size(hd2, EndFencepost(c)) = 0
              /\ Status(hd2, EndFencepost(c)) = ALLOCATED
              /\ c + FOOTER_SIZE \in ObjectsOf(hd2, ch)
    BY DEF Fenced
  <2>1. /\ c \in DOMAIN ft
        /\ ft[c] = FooterTag(0, ALLOCATED)
        /\ EndFencepost(c) \in DOMAIN hd
        /\ Size(hd, EndFencepost(c)) = 0
        /\ Status(hd, EndFencepost(c)) = ALLOCATED
        /\ c + FOOTER_SIZE \in ObjectsOf(hd, ch)
    BY DEF Shape, Fenced
  <2>2. EndFencepost(c) \in Fences(ch)
    BY DEF Fences
  <2>3. c # f1 /\ c # f2
    BY <1>1, <1>c, FenceOutside, Constants
  <2>4. c \in DOMAIN ft2 /\ ft2[c] = FooterTag(0, ALLOCATED)
    BY <1>b, <2>1, <2>3
  <2>5. EndFencepost(c) \in DOMAIN hd \ {o}
    BY <1>8, <2>1, <2>2
  <2> QED BY <1>4, <1>6, <1>a, <2>1, <2>4, <2>5
<1>10. Placed(hd2, ch)
  <2> SUFFICES ASSUME NEW x \in O \cup {n}
        PROVE /\ x \in Int
              /\ Size(hd2, x) \in Int /\ Size(hd2, x) >= MinSize
              /\ Size(hd2, x) % SIZE_PRECISION = 0
              /\ Status(hd2, x) \in {UNALLOCATED, ALLOCATED}
              /\ \E c \in ch : c + FOOTER_SIZE <= x /\ EndOf(hd2, x) <= EndFencepost(c)
    BY <1>4 DEF Placed
  <2>1. PICK c \in ch : c + FOOTER_SIZE <= o /\ EndOf(hd, o) <= EndFencepost(c)
    BY DEF Shape, Placed
  <2>2. c \in Int /\ EndFencepost(c) \in Int
    BY Constants, Fence DEF Shape, ChunksApart
  <2>3. CASE x = o
    BY <1>a,  <1>1, <1>7, <2>1, <2>2, <2>3, Constants
  <2>4. CASE x = n
    <3>1. (Size(hd, o) - front) % SIZE_PRECISION = 0
      BY <1>1, ModPlus, Constants
    <3> QED BY <1>1, <1>7, <1>a, <1>c, <2>1, <2>2, <2>4, <3>1, Constants
  <2>5. CASE x \in O \ {o}
    <3>1. x \in DOMAIN hd
      BY <2>5 DEF ObjectsOf
    <3> QED BY <2>5, <3>1, <1>6 DEF Shape, Placed
  <2> QED BY <2>3, <2>4, <2>5
<1>11. Tiled(hd2, ch)
  <2> SUFFICES ASSUME NEW x \in O \cup {n}
        PROVE /\ EndOf(hd2, x) \in DOMAIN hd2
              /\ \A y \in DOMAIN hd2 : y <= x \/ EndOf(hd2, x) <= y
    BY <1>4 DEF Tiled
  <2>1. EndOf(hd, o) \in DOMAIN hd /\ \A y \in DOMAIN hd : y <= o \/ EndOf(hd, o) <= y
    BY DEF Shape, Tiled
  <2>2. CASE x = o
    BY <1>a, <1>c, <1>1, <1>7, <2>1, <2>2 DEF Shape
  <2>6. CASE x = n
    BY <1>a, <1>1, <1>7, <2>1, <2>6 DEF Shape
  <2>3. CASE x \in O \ {o}
    <3>1. x \in DOMAIN hd /\ o \in DOMAIN hd /\ x \in Int /\ EndOf(hd, x) \in Int
      BY <2>3 DEF ObjectsOf, Shape, Placed, EndOf, Size
    <3>2. EndOf(hd, x) \in DOMAIN hd /\ \A y \in DOMAIN hd : y <= x \/ EndOf(hd, x) <= y
      BY <2>3 DEF Shape, Tiled
    <3>3. x <= o \/ EndOf(hd, o) <= x
      BY <2>1, <3>1
    <3>4. o <= x \/ EndOf(hd, x) <= o
      BY <3>2, <3>1
    <3>5. n <= x \/ EndOf(hd, x) <= n
      BY <1>1, <2>3, <3>1, <3>3, <3>4
    <3> QED BY <1>6, <1>a, <2>3, <3>1, <3>2, <3>5
  <2> QED BY <2>2, <2>3, <2>6
<1>12. Tagged(hd2, ft2, ch)
  <2> SUFFICES ASSUME NEW x \in O \cup {n}
        PROVE /\ x - FOOTER_SIZE \in DOMAIN ft2
              /\ EndOf(hd2, x) - FOOTER_SIZE \in DOMAIN ft2
              /\ ft2[EndOf(hd2, x) - FOOTER_SIZE] = FooterTag(Size(hd2, x), Status(hd2, x))
    BY <1>4 DEF Tagged
  <2>1. /\ o - FOOTER_SIZE \in DOMAIN ft
        /\ f2 \in DOMAIN ft
    BY <1>c DEF Shape, Tagged
  <2>2. CASE x = o
    BY <1>a, <1>b, <1>c,  <1>7, <2>1, <2>2
  <2>6. CASE x = n
    <3>1. f1 \in DOMAIN ft2
      BY <1>b
    <3> QED BY <1>a, <1>b, <1>c, <1>7, <2>1, <2>6, <3>1
  <2>3. CASE x \in O \ {o}
    <3>1. x \in DOMAIN hd /\ o \in DOMAIN hd /\ x \in Int /\ EndOf(hd, x) \in Int
      BY <2>3 DEF ObjectsOf, Shape, Placed, EndOf, Size
    <3>2. \A y \in DOMAIN hd : y <= x \/ EndOf(hd, x) <= y
      BY <2>3 DEF Shape, Tiled
    <3>3. \A y \in DOMAIN hd : y <= o \/ EndOf(hd, o) <= y
      BY DEF Shape, Tiled
    <3>4. EndOf(hd, x) - FOOTER_SIZE \notin {f1, f2}
      <4>1. Size(hd, x) > 0 /\ EndOf(hd, x) = x + Size(hd, x) /\ Size(hd, x) \in Int
        BY <2>3, Constants DEF Shape, Placed, EndOf, Size
      <4>2. EndOf(hd, x) <= o \/ x >= EndOf(hd, o)
        BY <2>3, <3>1, <3>2, <3>3, <1>1
      <4> QED BY <1>1, <1>c, <3>1, <4>1, <4>2, Constants
    <3>5. /\ x - FOOTER_SIZE \in DOMAIN ft
          /\ EndOf(hd, x) - FOOTER_SIZE \in DOMAIN ft
          /\ ft[EndOf(hd, x) - FOOTER_SIZE] = FooterTag(Size(hd, x), Status(hd, x))
      BY <2>3 DEF Shape, Tagged
    <3>6. EndOf(hd2, x) = EndOf(hd, x) /\ Size(hd2, x) = Size(hd, x) /\ Status(hd2, x) = Status(hd, x)
      BY <1>6, <2>3, <3>1
    <3>7. ft2[EndOf(hd, x) - FOOTER_SIZE] = ft[EndOf(hd, x) - FOOTER_SIZE]
      BY <1>b, <3>4, <3>5
    <3> QED BY <1>b, <3>5, <3>6, <3>7
  <2> QED BY <2>2, <2>3, <2>6
<1>13. NoStrays(hd2, ft2, ch)
  <2> SUFFICES ASSUME NEW f \in DOMAIN ft2, f \notin ch
        PROVE  \E x \in O \cup {n} : f = EndOf(hd2, x) - FOOTER_SIZE
    BY <1>4 DEF NoStrays
  <2>1. CASE f = f1
    BY <1>c, <1>7, <2>1
  <2>2. CASE f \in DOMAIN ft
    <3>1. PICK x \in O : f = EndOf(hd, x) - FOOTER_SIZE
      BY <2>2 DEF Shape, NoStrays
    <3>2. x \in DOMAIN hd
      BY DEF ObjectsOf
    <3>3. CASE x = o
      BY <1>7, <3>1, <3>3
    <3>4. CASE x # o
      <4>1. EndOf(hd2, x) = EndOf(hd, x)
        BY <1>6, <3>2, <3>4
      <4> QED BY <3>1, <4>1
    <3> QED BY <3>3, <3>4
  <2> QED BY <1>b, <2>1, <2>2
<1>14. DOMAIN hd2 \subseteq Int /\ DOMAIN ft2 \subseteq Int
  BY <1>a, <1>b, <1>c DEF Shape
<1> QED BY <1>c, <1>2, <1>4, <1>5, <1>14, <1>9, <1>10, <1>11, <1>12, <1>13 DEF Shape

\* No header lies inside an object.
LEMMA Apart ==
  ASSUME NEW hd, NEW ft, NEW ch, NEW brk, Shape(hd, ft, ch, brk),
         NEW o \in ObjectsOf(hd, ch), NEW x \in DOMAIN hd, x # o
  PROVE  x < o \/ EndOf(hd, o) <= x
BY DEF Shape, Tiled, Placed

\* HeaderTags hd2 and ft2 are hd and ft with l and its right neighbour r one object of
\* status s.
Merges(hd, ft, l, r, s, hd2, ft2) ==
  /\ DOMAIN hd2 = DOMAIN hd \ {r}
  /\ Size(hd2, l) = Size(hd, l) + Size(hd, r) /\ Status(hd2, l) = s
  /\ \A x \in DOMAIN hd \ {l, r} :
       Size(hd2, x) = Size(hd, x) /\ Status(hd2, x) = Status(hd, x)
  /\ DOMAIN ft2 = DOMAIN ft \ {r - FOOTER_SIZE}
  /\ ft2[EndOf(hd, r) - FOOTER_SIZE] = FooterTag(Size(hd, l) + Size(hd, r), s)
  /\ \A f \in DOMAIN ft \ {r - FOOTER_SIZE, EndOf(hd, r) - FOOTER_SIZE} : ft2[f] = ft[f]

\* Making an object and its right neighbour one keeps the shape of the heap
\* (free_object).
LEMMA MergeShape ==
  ASSUME NEW hd, NEW ft, NEW ch, NEW brk, Shape(hd, ft, ch, brk),
         NEW l \in ObjectsOf(hd, ch), NEW r \in ObjectsOf(hd, ch), EndOf(hd, l) = r,
         NEW s \in {UNALLOCATED, ALLOCATED},
         NEW hd2, NEW ft2, Merges(hd, ft, l, r, s, hd2, ft2)
  PROVE  /\ Shape(hd2, ft2, ch, brk)
         /\ ObjectsOf(hd2, ch) = ObjectsOf(hd, ch) \ {r}
         /\ EndOf(hd2, l) = EndOf(hd, r)
<1> USE DEF Merges
<1> DEFINE O == ObjectsOf(hd, ch)
           f1 == r - FOOTER_SIZE
           f2 == EndOf(hd, r) - FOOTER_SIZE
<1>b. /\ DOMAIN ft2 = DOMAIN ft \ {f1}
      /\ ft2[f2] = FooterTag(Size(hd, l) + Size(hd, r), s)
      /\ \A f \in DOMAIN ft \ {f1, f2} : ft2[f] = ft[f]
  OBVIOUS
<1>c. f1 = r - FOOTER_SIZE /\ f2 = EndOf(hd, r) - FOOTER_SIZE
      /\ f1 \in Int /\ f2 \in Int
  BY Constants DEF Shape, Placed, EndOf, Size
<1> HIDE DEF f1, f2
<1>1. /\ l \in Int /\ Size(hd, l) \in Int /\ EndOf(hd, l) = l + Size(hd, l)
      /\ Size(hd, l) >= MinSize /\ Size(hd, l) % SIZE_PRECISION = 0
      /\ r \in Int /\ Size(hd, r) \in Int /\ EndOf(hd, r) = r + Size(hd, r)
      /\ Size(hd, r) >= MinSize /\ Size(hd, r) % SIZE_PRECISION = 0
      /\ l < r /\ r < EndOf(hd, r) /\ EndOf(hd, r) \in Int
      /\ r = l + Size(hd, l)
  BY Constants DEF Shape, Placed, EndOf, Size
<1>2. l \in DOMAIN hd /\ r \in DOMAIN hd /\ l # r
      /\ r \notin Fences(ch) /\ l \notin Fences(ch)
  BY <1>1 DEF ObjectsOf
<1>4. ObjectsOf(hd2, ch) = O \ {r}
  BY DEF ObjectsOf
<1>5. ChunksApart(ch, brk)
  BY DEF Shape
<1>6. \A x \in DOMAIN hd \ {l, r} : Size(hd2, x) = Size(hd, x) /\ Status(hd2, x) = Status(hd, x) /\ EndOf(hd2, x) = EndOf(hd, x)
  BY DEF EndOf, Size
<1>7. EndOf(hd2, l) = EndOf(hd, r)
  BY <1>1 DEF EndOf, Size
<1>9. Fenced(hd2, ft2, ch)
  <2> SUFFICES ASSUME NEW c \in ch
        PROVE /\ c \in DOMAIN ft2
              /\ ft2[c] = FooterTag(0, ALLOCATED)
              /\ EndFencepost(c) \in DOMAIN hd2
              /\ Size(hd2, EndFencepost(c)) = 0
              /\ Status(hd2, EndFencepost(c)) = ALLOCATED
              /\ c + FOOTER_SIZE \in ObjectsOf(hd2, ch)
    BY DEF Fenced
  <2>1. /\ c \in DOMAIN ft
        /\ ft[c] = FooterTag(0, ALLOCATED)
        /\ EndFencepost(c) \in DOMAIN hd
        /\ Size(hd, EndFencepost(c)) = 0
        /\ Status(hd, EndFencepost(c)) = ALLOCATED
        /\ c + FOOTER_SIZE \in ObjectsOf(hd, ch)
    BY DEF Shape, Fenced
  <2>2. EndFencepost(c) \in Fences(ch)
    BY DEF Fences
  <2>6. EndOf(hd, l) <= c \/ c + FOOTER_SIZE <= l
    BY FenceOutside
  <2>7. EndOf(hd, r) <= c \/ c + FOOTER_SIZE <= r
    BY FenceOutside
  <2>3. c # f1 /\ c # f2 /\ c + FOOTER_SIZE # r
    <3>1. c \in Int
      BY DEF Shape, ChunksApart
    <3> QED BY <1>1, <1>c, <2>6, <2>7, <3>1, Constants
  <2>4. c \in DOMAIN ft2 /\ ft2[c] = FooterTag(0, ALLOCATED)
    BY <1>b, <2>1, <2>3
  <2>5. EndFencepost(c) \in DOMAIN hd \ {l, r}
    BY <1>2, <2>1, <2>2
  <2> QED BY <1>4, <1>6, <2>1, <2>3, <2>4, <2>5
<1>10. Placed(hd2, ch)
  <2> SUFFICES ASSUME NEW x \in O \ {r}
        PROVE /\ x \in Int
              /\ Size(hd2, x) \in Int /\ Size(hd2, x) >= MinSize
              /\ Size(hd2, x) % SIZE_PRECISION = 0
              /\ Status(hd2, x) \in {UNALLOCATED, ALLOCATED}
              /\ \E c \in ch : c + FOOTER_SIZE <= x /\ EndOf(hd2, x) <= EndFencepost(c)
    BY <1>4 DEF Placed
  <2>3. CASE x = l
    <3>1. PICK c \in ch : c + FOOTER_SIZE <= l /\ EndOf(hd, l) <= EndFencepost(c)
      BY DEF Shape, Placed
    <3>2. c \in Int /\ EndFencepost(c) \in Int
      BY Constants, Fence DEF Shape, ChunksApart
    <3>3. EndOf(hd, r) <= EndFencepost(c) \/ r > EndFencepost(c)
      BY FenceOutside
    <3>4. EndOf(hd, r) <= EndFencepost(c)
      BY <3>1, <3>2, <3>3, <1>1
    <3>5. (Size(hd, l) + Size(hd, r)) % SIZE_PRECISION = 0
      BY <1>1, ModPlus, Constants
    <3> QED BY <1>1, <1>7, <2>3, <3>1, <3>4, <3>5, Constants
  <2>5. CASE x # l
    <3>1. x \in DOMAIN hd \ {l, r}
      BY <2>5 DEF ObjectsOf
    <3> QED BY <2>5, <3>1, <1>6 DEF Shape, Placed
  <2> QED BY <2>3, <2>5
<1>11. Tiled(hd2, ch)
  <2> SUFFICES ASSUME NEW x \in O \ {r}
        PROVE /\ EndOf(hd2, x) \in DOMAIN hd2
              /\ \A y \in DOMAIN hd2 : y <= x \/ EndOf(hd2, x) <= y
    BY <1>4 DEF Tiled
  <2>1. CASE x = l
    <3>1. EndOf(hd, r) \in DOMAIN hd /\ (\A y \in DOMAIN hd : y <= r \/ EndOf(hd, r) <= y)
          /\ (\A y \in DOMAIN hd : y <= l \/ r <= y)
      BY DEF Shape, Tiled
    <3> QED BY <2>1, <3>1, <1>1, <1>7 DEF Shape
  <2>3. CASE x # l
    <3>1. x \in DOMAIN hd \ {l, r} /\ x \in Int /\ EndOf(hd, x) \in Int
          /\ x < EndOf(hd, x)
      BY <2>3, Constants DEF ObjectsOf, Shape, Placed, EndOf, Size
    <3>2. EndOf(hd, x) \in DOMAIN hd /\ \A y \in DOMAIN hd : y <= x \/ EndOf(hd, x) <= y
      BY <2>3 DEF Shape, Tiled
    <3>3. x < l \/ EndOf(hd, l) <= x
      BY <3>1, Apart
    <3>4. l < x \/ EndOf(hd, x) <= l
      BY <3>1, <3>2, <1>2, <1>1
    <3>5. EndOf(hd, x) # r
      BY <1>1, <2>3, <3>1, <3>3, <3>4
    <3> QED BY <1>6, <2>3, <3>1, <3>2, <3>5
  <2> QED BY <2>1, <2>3
<1>12. Tagged(hd2, ft2, ch)
  <2> SUFFICES ASSUME NEW x \in O \ {r}
        PROVE /\ x - FOOTER_SIZE \in DOMAIN ft2
              /\ EndOf(hd2, x) - FOOTER_SIZE \in DOMAIN ft2
              /\ ft2[EndOf(hd2, x) - FOOTER_SIZE] = FooterTag(Size(hd2, x), Status(hd2, x))
    BY <1>4 DEF Tagged
  <2>1. /\ x - FOOTER_SIZE \in DOMAIN ft
        /\ EndOf(hd, x) - FOOTER_SIZE \in DOMAIN ft
        /\ ft[EndOf(hd, x) - FOOTER_SIZE] = FooterTag(Size(hd, x), Status(hd, x))
        /\ f2 \in DOMAIN ft
    BY <1>c DEF Shape, Tagged
  <2>2. x \in Int /\ x - FOOTER_SIZE # f1
    BY <1>1, <1>c, Constants DEF Shape, Placed
  <2>3. CASE x = l
    BY <2>1, <2>2, <2>3, <1>b, <1>c, <1>1, <1>7, Constants
  <2>4. CASE x # l
    <3>1. x \in DOMAIN hd \ {l, r} /\ x \in Int /\ EndOf(hd, x) \in Int
          /\ x < EndOf(hd, x)
      BY <2>4, Constants DEF ObjectsOf, Shape, Placed, EndOf, Size
    <3>2. x < l \/ EndOf(hd, l) <= x
      BY <3>1, Apart
    <3>3. x < r \/ EndOf(hd, r) <= x
      BY <3>1, Apart
    <3>4. l < x \/ EndOf(hd, x) <= l
      BY <3>1, <1>2, Apart
    <3>5. r < x \/ EndOf(hd, x) <= r
      BY <3>1, <1>2, Apart
    <3>6. EndOf(hd, x) - FOOTER_SIZE \notin {f1, f2}
      BY <1>1, <1>c, <3>1, <3>2, <3>3, <3>4, <3>5, Constants
    <3>7. EndOf(hd2, x) = EndOf(hd, x) /\ Size(hd2, x) = Size(hd, x) /\ Status(hd2, x) = Status(hd, x)
      BY <1>6, <3>1
    <3> QED BY <1>b, <2>1, <2>2, <3>6, <3>7
  <2> QED BY <2>3, <2>4
<1>13. NoStrays(hd2, ft2, ch)
  <2> SUFFICES ASSUME NEW f \in DOMAIN ft2, f \notin ch
        PROVE  \E x \in O \ {r} : f = EndOf(hd2, x) - FOOTER_SIZE
    BY <1>4 DEF NoStrays
  <2>1. f \in DOMAIN ft /\ f # f1
    BY <1>b
  <2>2. PICK x \in O : f = EndOf(hd, x) - FOOTER_SIZE
    BY <2>1 DEF Shape, NoStrays
  <2>3. x \in DOMAIN hd
    BY DEF ObjectsOf
  <2>4. CASE x = r
    BY <2>2, <2>4, <1>2, <1>7
  <2>5. CASE x \notin {l, r}
    BY <2>2, <2>3, <2>5, <1>6
  <2>6. x # l
    BY <2>1, <2>2, <1>c
  <2> QED BY <2>4, <2>5, <2>6
<1>14. DOMAIN hd2 \subseteq Int /\ DOMAIN ft2 \subseteq Int
  BY <1>b DEF Shape
<1> QED BY <1>4, <1>5, <1>7, <1>9, <1>10, <1>11, <1>12, <1>13, <1>14 DEF Shape

\* HeaderTags hd2 and ft2 are hd and ft with status s of object o.
Flips(hd, ft, o, s, hd2, ft2) ==
  /\ DOMAIN hd2 = DOMAIN hd
  /\ \A x \in DOMAIN hd : Size(hd2, x) = Size(hd, x)
  /\ Status(hd2, o) = s
  /\ \A x \in DOMAIN hd \ {o} : Status(hd2, x) = Status(hd, x)
  /\ DOMAIN ft2 = DOMAIN ft
  /\ ft2[EndOf(hd, o) - FOOTER_SIZE] = FooterTag(Size(hd, o), s)
  /\ \A f \in DOMAIN ft \ {EndOf(hd, o) - FOOTER_SIZE} : ft2[f] = ft[f]

\* Changing the status of an object in both its tags keeps the shape of the heap.
LEMMA FlipShape ==
  ASSUME NEW hd, NEW ft, NEW ch, NEW brk, Shape(hd, ft, ch, brk),
         NEW o \in ObjectsOf(hd, ch), NEW s \in {UNALLOCATED, ALLOCATED},
         NEW hd2, NEW ft2, Flips(hd, ft, o, s, hd2, ft2)
  PROVE  /\ Shape(hd2, ft2, ch, brk)
         /\ ObjectsOf(hd2, ch) = ObjectsOf(hd, ch)
<1> USE DEF Flips
<1> DEFINE O == ObjectsOf(hd, ch)
           f1 == EndOf(hd, o) - FOOTER_SIZE
<1>a. f1 = EndOf(hd, o) - FOOTER_SIZE /\ f1 \in Int
  BY Constants DEF Shape, Placed, EndOf, Size
<1>b. ft2[f1] = FooterTag(Size(hd, o), s) /\ \A f \in DOMAIN ft \ {f1} : ft2[f] = ft[f]
  OBVIOUS
<1> HIDE DEF f1
<1>1. ObjectsOf(hd2, ch) = O
  BY DEF ObjectsOf
<1>2. \A x \in DOMAIN hd : EndOf(hd2, x) = EndOf(hd, x)
  BY DEF EndOf, Size
<1>3. O \subseteq DOMAIN hd
  BY DEF ObjectsOf
<1>4. Fenced(hd2, ft2, ch)
  <2> SUFFICES ASSUME NEW c \in ch
        PROVE /\ c \in DOMAIN ft2
              /\ ft2[c] = FooterTag(0, ALLOCATED)
              /\ EndFencepost(c) \in DOMAIN hd2
              /\ Size(hd2, EndFencepost(c)) = 0
              /\ Status(hd2, EndFencepost(c)) = ALLOCATED
              /\ c + FOOTER_SIZE \in ObjectsOf(hd2, ch)
    BY DEF Fenced
  <2>1. /\ c \in DOMAIN ft
        /\ ft[c] = FooterTag(0, ALLOCATED)
        /\ EndFencepost(c) \in DOMAIN hd
        /\ Size(hd, EndFencepost(c)) = 0
        /\ Status(hd, EndFencepost(c)) = ALLOCATED
        /\ c + FOOTER_SIZE \in O
    BY DEF Shape, Fenced
  <2>2. EndFencepost(c) # o
    BY DEF Fences, ObjectsOf
  <2>3. c # f1
    BY <1>a, FenceOutside, Constants
  <2> QED BY <1>1, <1>b, <2>1, <2>2, <2>3
<1>5. Placed(hd2, ch)
  <2> SUFFICES ASSUME NEW x \in O
        PROVE /\ x \in Int
              /\ Size(hd2, x) \in Int /\ Size(hd2, x) >= MinSize
              /\ Size(hd2, x) % SIZE_PRECISION = 0
              /\ Status(hd2, x) \in {UNALLOCATED, ALLOCATED}
              /\ \E c \in ch : c + FOOTER_SIZE <= x /\ EndOf(hd2, x) <= EndFencepost(c)
    BY <1>1 DEF Placed
  <2>1. x \in DOMAIN hd /\ Status(hd2, x) \in {UNALLOCATED, ALLOCATED}
    BY <1>3 DEF Shape, Placed
  <2> QED BY <1>2, <2>1 DEF Shape, Placed
<1>6. Tiled(hd2, ch)
  BY <1>1, <1>2, <1>3 DEF Shape, Tiled
<1>7. Tagged(hd2, ft2, ch)
  <2> SUFFICES ASSUME NEW x \in O
        PROVE /\ x - FOOTER_SIZE \in DOMAIN ft2
              /\ EndOf(hd2, x) - FOOTER_SIZE \in DOMAIN ft2
              /\ ft2[EndOf(hd2, x) - FOOTER_SIZE] = FooterTag(Size(hd2, x), Status(hd2, x))
    BY <1>1 DEF Tagged
  <2>1. /\ x - FOOTER_SIZE \in DOMAIN ft
        /\ EndOf(hd, x) - FOOTER_SIZE \in DOMAIN ft
        /\ ft[EndOf(hd, x) - FOOTER_SIZE] = FooterTag(Size(hd, x), Status(hd, x))
    BY DEF Shape, Tagged
  <2>2. CASE x = o
    BY <2>1, <2>2, <1>2, <1>3, <1>a, <1>b
  <2>3. CASE x # o
    <3>1. EndOf(hd, x) # EndOf(hd, o)
      <4>1. /\ x \in Int /\ o \in Int /\ EndOf(hd, x) \in Int /\ EndOf(hd, o) \in Int
            /\ x < EndOf(hd, x) /\ o < EndOf(hd, o)
        BY Constants DEF Shape, Placed, EndOf, Size
      <4>2. x < o \/ EndOf(hd, o) <= x
        BY <1>3, <2>3, Apart
      <4>3. o < x \/ EndOf(hd, x) <= o
        BY <1>3, <2>3, Apart
      <4> QED BY <4>1, <4>2, <4>3
    <3>2. EndOf(hd, x) - FOOTER_SIZE # f1
      <4>1. EndOf(hd, x) \in Int /\ EndOf(hd, o) \in Int
        BY DEF Shape, Placed, EndOf, Size
      <4> QED BY <3>1, <4>1, <1>a, Constants
    <3> QED BY <1>2, <1>3, <1>b, <2>1, <2>3, <3>2
  <2> QED BY <2>2, <2>3
<1>8. NoStrays(hd2, ft2, ch)
  BY <1>1, <1>2, <1>3 DEF Shape, NoStrays
<1> QED BY <1>1, <1>4, <1>5, <1>6, <1>7, <1>8 DEF Shape

\* Everything in the heap lies below the break.
LEMMA Below ==
  ASSUME NEW hd, NEW ft, NEW ch, NEW brk \in Int, Shape(hd, ft, ch, brk), HeapStart <= brk
  PROVE  /\ \A c \in ch : c \in Int /\ c < brk /\ EndFencepost(c) < brk /\ EndFencepost(c) \in Int
         /\ \A o \in ObjectsOf(hd, ch) :
              o \in Int /\ o < brk /\ EndOf(hd, o) \in Int /\ EndOf(hd, o) < brk
         /\ \A x \in DOMAIN hd : x \in Int /\ x < brk
         /\ \A f \in DOMAIN ft : f \in Int /\ f < brk
<1>1. \A c \in ch : c \in Int /\ c < brk /\ EndFencepost(c) < brk /\ EndFencepost(c) \in Int
  BY Constants, Fence DEF Shape, ChunksApart
<1>2. ASSUME NEW o \in ObjectsOf(hd, ch)
      PROVE  o \in Int /\ o < brk /\ EndOf(hd, o) \in Int /\ EndOf(hd, o) < brk
  <2>1. PICK c \in ch : c + FOOTER_SIZE <= o /\ EndOf(hd, o) <= EndFencepost(c)
    BY DEF Shape, Placed
  <2> QED BY <1>1, <2>1, Constants DEF Shape, Placed, EndOf, Size
<1>3. ASSUME NEW x \in DOMAIN hd
      PROVE  x \in Int /\ x < brk
  <2>1. CASE x = free_list_sentinel
    BY <2>1, Constants
  <2>2. CASE x \in Fences(ch)
    BY <2>2, <1>1 DEF Fences
  <2>3. CASE x \in ObjectsOf(hd, ch)
    BY <2>3, <1>2
  <2> QED BY <2>1, <2>2, <2>3 DEF ObjectsOf
<1>4. ASSUME NEW f \in DOMAIN ft
      PROVE  f \in Int /\ f < brk
  <2>1. f \in ch \/ \E o \in ObjectsOf(hd, ch) : f = EndOf(hd, o) - FOOTER_SIZE
    BY DEF Shape, NoStrays
  <2> QED BY <1>1, <1>2, <2>1, Constants
<1> QED BY <1>1, <1>2, <1>3, <1>4

\* The object of a fresh chunk has a size that is a multiple of SIZE_PRECISION.
LEMMA WholeSizes == RealSize % SIZE_PRECISION = 0
<1>1. /\ ARENA_SIZE % SIZE_PRECISION = 0 /\ HEADER_SIZE % SIZE_PRECISION = 0
      /\ FOOTER_SIZE % SIZE_PRECISION = 0
      /\ ARENA_SIZE \in Int /\ HEADER_SIZE \in Int /\ FOOTER_SIZE \in Int
      /\ SIZE_PRECISION \in Nat \ {0}
  BY SizesAssumption
<1>2. (ARENA_SIZE + HEADER_SIZE) % SIZE_PRECISION = 0
  BY <1>1, ModPlus
<1>3. ((ARENA_SIZE + HEADER_SIZE) + FOOTER_SIZE) % SIZE_PRECISION = 0
  <2>1. ARENA_SIZE + HEADER_SIZE \in Int
    BY <1>1
  <2> QED BY <1>1, <1>2, <2>1, ModPlus
<1> QED BY <1>3 DEF RealSize

\* HeaderTags hd2 and ft2 are hd and ft with a chunk at brk, of one object with status s.
Grows(hd, ft, brk, s, hd2, ft2) ==
  LET o == brk + FOOTER_SIZE
  IN  /\ DOMAIN hd2 = DOMAIN hd \cup {o, o + RealSize}
      /\ Size(hd2, o) = RealSize /\ Status(hd2, o) = s
      /\ Size(hd2, o + RealSize) = 0 /\ Status(hd2, o + RealSize) = ALLOCATED
      /\ \A x \in DOMAIN hd :
           Size(hd2, x) = Size(hd, x) /\ Status(hd2, x) = Status(hd, x)
      /\ DOMAIN ft2 = DOMAIN ft \cup {brk, o + RealSize - FOOTER_SIZE}
      /\ ft2[brk] = FooterTag(0, ALLOCATED)
      /\ ft2[o + RealSize - FOOTER_SIZE] = FooterTag(RealSize, s)
      /\ \A f \in DOMAIN ft : ft2[f] = ft[f]

\* A chunk at the break with one object keeps the shape of the heap
\* (get_memory_from_os and the fenceposts).
LEMMA NewChunkShape ==
  ASSUME NEW hd, NEW ft, NEW ch, NEW brk \in Int, Shape(hd, ft, ch, brk),
         HeapStart <= brk,
         NEW o, o = brk + FOOTER_SIZE, NEW s \in {UNALLOCATED, ALLOCATED},
         NEW hd2, NEW ft2, Grows(hd, ft, brk, s, hd2, ft2)
  PROVE  /\ Shape(hd2, ft2, ch \cup {brk}, brk + OsBlock)
         /\ ObjectsOf(hd2, ch \cup {brk}) = ObjectsOf(hd, ch) \cup {o}
         /\ o \notin DOMAIN hd
<1>g. /\ DOMAIN hd2 = DOMAIN hd \cup {o, o + RealSize}
      /\ Size(hd2, o) = RealSize /\ Status(hd2, o) = s
      /\ Size(hd2, o + RealSize) = 0 /\ Status(hd2, o + RealSize) = ALLOCATED
      /\ \A x \in DOMAIN hd :
           Size(hd2, x) = Size(hd, x) /\ Status(hd2, x) = Status(hd, x)
      /\ DOMAIN ft2 = DOMAIN ft \cup {brk, o + RealSize - FOOTER_SIZE}
      /\ ft2[brk] = FooterTag(0, ALLOCATED)
      /\ ft2[o + RealSize - FOOTER_SIZE] = FooterTag(RealSize, s)
      /\ \A f \in DOMAIN ft : ft2[f] = ft[f]
  BY DEF Grows
<1> USE <1>g
<1> DEFINE O == ObjectsOf(hd, ch)
           ch2 == ch \cup {brk}
           e == o + RealSize
           f2 == o + RealSize - FOOTER_SIZE
<1>a. /\ DOMAIN hd2 = DOMAIN hd \cup {o, e}
      /\ Size(hd2, e) = 0 /\ Status(hd2, e) = ALLOCATED
      /\ DOMAIN ft2 = DOMAIN ft \cup {brk, f2}
      /\ ft2[f2] = FooterTag(RealSize, s)
      /\ e = o + RealSize /\ f2 = e - FOOTER_SIZE /\ o = brk + FOOTER_SIZE
      /\ o \in Int /\ e \in Int /\ f2 \in Int /\ brk < o /\ o < f2 /\ f2 < e
      /\ e < brk + OsBlock
      /\ EndFencepost(brk) = e
  BY Constants, Fence
<1> HIDE DEF e, f2
<1>1. /\ \A c \in ch : c \in Int /\ c < brk /\ EndFencepost(c) < brk /\ EndFencepost(c) \in Int
      /\ \A x \in O :
           x \in Int /\ x < brk /\ EndOf(hd, x) \in Int /\ EndOf(hd, x) < brk
      /\ \A x \in DOMAIN hd : x \in Int /\ x < brk
      /\ \A f \in DOMAIN ft : f \in Int /\ f < brk
  BY Below
<1>2. o \notin DOMAIN hd /\ e \notin DOMAIN hd
  BY <1>1, <1>a
<1>3. Fences(ch2) = Fences(ch) \cup {e}
  BY <1>a DEF Fences
<1>4. ObjectsOf(hd2, ch2) = O \cup {o}
  <2>1. o # e /\ o \notin Fences(ch) /\ o # free_list_sentinel
    BY <1>1, <1>a, Constants DEF Fences
  <2>2. e \notin O
    BY <1>1, <1>a
  <2> QED BY <1>a, <1>2, <1>3, <2>1, <2>2 DEF ObjectsOf
<1>5. ChunksApart(ch2, brk + OsBlock)
  <2>1. \A c \in ch : c \in Int /\ HeapStart <= c /\ c + OsBlock <= brk
    BY DEF Shape, ChunksApart
  <2>2. \A c, d \in ch : c < d => c + OsBlock <= d
    BY DEF Shape, ChunksApart
  <2>3. OsBlock \in Nat
    BY Constants
  <2>4. \A c \in ch2 : c \in Int /\ HeapStart <= c /\ c + OsBlock <= brk + OsBlock
    BY <2>1, <2>3, Constants
  <2>5. \A c, d \in ch2 : c < d => c + OsBlock <= d
    BY <2>1, <2>2, <1>1, <2>3
  <2> QED BY <2>4, <2>5 DEF ChunksApart
<1>6. \A x \in DOMAIN hd : Size(hd2, x) = Size(hd, x) /\ Status(hd2, x) = Status(hd, x) /\ EndOf(hd2, x) = EndOf(hd, x)
  BY DEF EndOf, Size
<1>7. EndOf(hd2, o) = e
  BY <1>a DEF EndOf, Size
<1>8. O \subseteq DOMAIN hd
  BY DEF ObjectsOf
<1>9. Fenced(hd2, ft2, ch2)
  <2> SUFFICES ASSUME NEW c \in ch2
        PROVE /\ c \in DOMAIN ft2
              /\ ft2[c] = FooterTag(0, ALLOCATED)
              /\ EndFencepost(c) \in DOMAIN hd2
              /\ Size(hd2, EndFencepost(c)) = 0
              /\ Status(hd2, EndFencepost(c)) = ALLOCATED
              /\ c + FOOTER_SIZE \in ObjectsOf(hd2, ch2)
    BY DEF Fenced
  <2>1. CASE c = brk
    BY <2>1, <1>a, <1>4
  <2>2. CASE c \in ch
    <3>1. /\ c \in DOMAIN ft
          /\ ft[c] = FooterTag(0, ALLOCATED)
          /\ EndFencepost(c) \in DOMAIN hd
          /\ Size(hd, EndFencepost(c)) = 0
          /\ Status(hd, EndFencepost(c)) = ALLOCATED
          /\ c + FOOTER_SIZE \in O
      BY <2>2 DEF Shape, Fenced
    <3> QED BY <3>1, <1>4, <1>6, <1>a
  <2> QED BY <2>1, <2>2
<1>10. Placed(hd2, ch2)
  <2> SUFFICES ASSUME NEW x \in O \cup {o}
        PROVE /\ x \in Int
              /\ Size(hd2, x) \in Int /\ Size(hd2, x) >= MinSize
              /\ Size(hd2, x) % SIZE_PRECISION = 0
              /\ Status(hd2, x) \in {UNALLOCATED, ALLOCATED}
              /\ \E c \in ch2 : c + FOOTER_SIZE <= x /\ EndOf(hd2, x) <= EndFencepost(c)
    BY <1>4 DEF Placed
  <2>1. CASE x = o
    <3>1. brk + FOOTER_SIZE <= x /\ EndOf(hd2, x) <= EndFencepost(brk)
      BY <1>7, <1>a, <2>1
    <3> QED BY <2>1, <3>1, <1>a, Constants, WholeSizes
  <2>2. CASE x \in O
    BY <2>2, <1>6, <1>8 DEF Shape, Placed
  <2> QED BY <2>1, <2>2
<1>11. Tiled(hd2, ch2)
  <2> SUFFICES ASSUME NEW x \in O \cup {o}
        PROVE /\ EndOf(hd2, x) \in DOMAIN hd2
              /\ \A y \in DOMAIN hd2 : y <= x \/ EndOf(hd2, x) <= y
    BY <1>4 DEF Tiled
  <2>1. CASE x = o
    BY <1>1, <1>7, <1>a, <2>1
  <2>2. CASE x \in O
    BY <1>1, <1>6, <1>8, <1>a, <2>2 DEF Shape, Tiled
  <2> QED BY <2>1, <2>2
<1>12. Tagged(hd2, ft2, ch2)
  <2> SUFFICES ASSUME NEW x \in O \cup {o}
        PROVE /\ x - FOOTER_SIZE \in DOMAIN ft2
              /\ EndOf(hd2, x) - FOOTER_SIZE \in DOMAIN ft2
              /\ ft2[EndOf(hd2, x) - FOOTER_SIZE] = FooterTag(Size(hd2, x), Status(hd2, x))
    BY <1>4 DEF Tagged
  <2>1. CASE x = o
    <3>1. o - FOOTER_SIZE = brk
      BY <1>a, Constants
    <3> QED BY <1>7, <1>a, <2>1, <3>1
  <2>2. CASE x \in O
    BY <1>6, <1>8, <1>a, <2>2 DEF Shape, Tagged
  <2> QED BY <2>1, <2>2
<1>13. NoStrays(hd2, ft2, ch2)
  <2> SUFFICES ASSUME NEW f \in DOMAIN ft2, f \notin ch2
        PROVE  \E x \in O \cup {o} : f = EndOf(hd2, x) - FOOTER_SIZE
    BY <1>4 DEF NoStrays
  <2>1. CASE f = f2
    BY <2>1, <1>7, <1>a
  <2>2. CASE f \in DOMAIN ft
    BY <2>2, <1>6, <1>8 DEF Shape, NoStrays
  <2> QED BY <1>a, <2>1, <2>2
<1>14. DOMAIN hd2 \subseteq Int /\ DOMAIN ft2 \subseteq Int
  BY <1>a DEF Shape
<1> QED BY <1>2, <1>4, <1>5, <1>9, <1>10, <1>11, <1>12, <1>13, <1>14 DEF Shape

\* Right of an object is an object or an end fencepost; left of it is the footer
\* of an object or the fencepost at the start of its chunk: what free_object reads.
LEMMA Neighbours ==
  ASSUME NEW hd, NEW ft, NEW ch, NEW brk \in Int, Shape(hd, ft, ch, brk), HeapStart <= brk,
         free_list_sentinel \in DOMAIN hd,
         NEW o \in ObjectsOf(hd, ch)
  PROVE  /\ EndOf(hd, o) \in ObjectsOf(hd, ch) \/ EndOf(hd, o) \in Fences(ch)
         /\ \/ /\ o - FOOTER_SIZE \in ch
               /\ ft[o - FOOTER_SIZE] = FooterTag(0, ALLOCATED)
            \/ \E l \in ObjectsOf(hd, ch) :
                 /\ EndOf(hd, l) = o
                 /\ l \in Int /\ l = o - Size(hd, l)
                 /\ ft[o - FOOTER_SIZE] = FooterTag(Size(hd, l), Status(hd, l))
<1>1. EndOf(hd, o) \in ObjectsOf(hd, ch) \/ EndOf(hd, o) \in Fences(ch)
  <2>1. EndOf(hd, o) \in DOMAIN hd
    BY DEF Shape, Tiled
  <2>2. PICK c \in ch : c + FOOTER_SIZE <= o
    BY DEF Shape, Placed
  <2>3. EndOf(hd, o) # free_list_sentinel
    BY <2>2, Constants DEF Shape, Placed, ChunksApart, EndOf, Size
  <2> QED BY <2>1, <2>3 DEF ObjectsOf
<1>2. o - FOOTER_SIZE \in DOMAIN ft
  BY DEF Shape, Tagged
<1>3. CASE o - FOOTER_SIZE \in ch
  BY <1>1, <1>3 DEF Shape, Fenced
<1>4. CASE o - FOOTER_SIZE \notin ch
  <2>1. PICK l \in ObjectsOf(hd, ch) : o - FOOTER_SIZE = EndOf(hd, l) - FOOTER_SIZE
    BY <1>2, <1>4 DEF Shape, NoStrays
  <2>2. /\ l \in Int /\ o \in Int /\ EndOf(hd, l) = l + Size(hd, l) /\ Size(hd, l) \in Int
        /\ EndOf(hd, l) \in Int
    BY DEF Shape, Placed, EndOf, Size
  <2>3. EndOf(hd, l) = o /\ l = o - Size(hd, l)
    BY <2>1, <2>2, Constants
  <2>4. ft[EndOf(hd, l) - FOOTER_SIZE] = FooterTag(Size(hd, l), Status(hd, l))
    BY DEF Shape, Tagged
  <2> QED BY <1>1, <2>2, <2>3, <2>4
<1> QED BY <1>3, <1>4

(***************************************************************************)
(* The free list, and what keeps it                                        *)
(***************************************************************************)

\* The list depends on the pointers of its members only.
LEMMA ListStays ==
  ASSUME NEW hd, NEW L, List(hd, L), NEW hd2, Members(L) \subseteq DOMAIN hd2,
         \A m \in Members(L) : hd2[m].next = hd[m].next /\ hd2[m].prev = hd[m].prev,
         \A x \in DOMAIN hd2 \ Members(L) : hd2[x].next = NULL /\ hd2[x].prev = NULL
  PROVE  List(hd2, L)
BY DEF List

\* The members of the list are headers above the sentinel.
LEMMA ListMembers ==
  ASSUME NEW hd, NEW L, List(hd, L)
  PROVE  /\ free_list_sentinel \in Int /\ free_list_sentinel \notin L
         /\ L \subseteq Int /\ Members(L) \subseteq Int /\ Members(L) \subseteq DOMAIN hd
         /\ \A m \in L : m > free_list_sentinel
         /\ \A m \in Members(L) : m \in L \/ m = free_list_sentinel
         /\ L \subseteq Members(L) /\ free_list_sentinel \in Members(L)
<1>1. free_list_sentinel \in Int
  BY Constants
<1>2. L \subseteq Int /\ Members(L) \subseteq DOMAIN hd /\ \A m \in L : m > free_list_sentinel
  BY DEF List
<1>3. free_list_sentinel \notin L
  BY <1>1, <1>2
<1> QED BY <1>1, <1>2, <1>3 DEF Members

\* What the pointers of a member say about the order of the list.
LEMMA ListOrder ==
  ASSUME NEW hd, NEW L, List(hd, L), NEW m \in Members(L)
  PROVE  /\ m \in Int /\ m >= free_list_sentinel
         /\ hd[m].next \in Members(L) /\ hd[hd[m].next].prev = m /\ hd[m].next \in Int
         /\ hd[m].prev \in Members(L) /\ hd[hd[m].prev].next = m /\ hd[m].prev \in Int
         /\ hd[m].next # free_list_sentinel => hd[m].next > m
         /\ m # free_list_sentinel => hd[m].prev < m /\ hd[m].next # m
         /\ \A x \in L : x \in Int /\ (x > m => hd[m].next # free_list_sentinel /\ hd[m].next <= x)
<1>1. free_list_sentinel \in Int
  BY Constants
<1>2. /\ hd[m].next \in Members(L) /\ hd[hd[m].next].prev = m
      /\ hd[m].prev \in Members(L) /\ hd[hd[m].prev].next = m
      /\ hd[m].next # free_list_sentinel => hd[m].next > m
      /\ \A x \in L : x > m => hd[m].next # free_list_sentinel /\ hd[m].next <= x
  BY DEF List
<1>5. L \subseteq Int /\ Members(L) \subseteq Int
  BY ListMembers
<1>3. \A x \in Members(L) : x >= free_list_sentinel
  BY ListMembers
<1>6. hd[hd[m].prev].next # free_list_sentinel => hd[hd[m].prev].next > hd[m].prev
  BY <1>2 DEF List
<1>4. m # free_list_sentinel => hd[m].prev < m
  BY <1>2, <1>5, <1>6
<1> QED BY <1>1, <1>2, <1>3, <1>4, <1>5

\* Headers hd2 link o in between p and n, neighbours in the list L of hd.
Inserts(hd, L, p, n, o, hd2) ==
  /\ Members(L) \cup {o} \subseteq DOMAIN hd2
  /\ hd2[o].next = n /\ hd2[o].prev = p /\ hd2[p].next = o /\ hd2[n].prev = o
  /\ \A m \in Members(L) \ {p} : hd2[m].next = hd[m].next
  /\ \A m \in Members(L) \ {n} : hd2[m].prev = hd[m].prev
  /\ \A x \in DOMAIN hd2 \ (Members(L) \cup {o}) : hd2[x].next = NULL /\ hd2[x].prev = NULL

\* Linking an object in at its place keeps the list (InsertLink, GrowSplit).
LEMMA ListInsert ==
  ASSUME NEW hd, NEW L, List(hd, L), NEW o \in Int, o \notin Members(L), o > free_list_sentinel,
         NEW p \in Members(L), p < o,
         NEW n, n = hd[p].next, n = free_list_sentinel \/ o < n,
         NEW hd2, Inserts(hd, L, p, n, o, hd2)
  PROVE  List(hd2, L \cup {o})
<1> USE DEF Inserts
<1> DEFINE L2 == L \cup {o}
           s == free_list_sentinel
<1>1. s \in Int /\ p \in Int /\ n \in Members(L) /\ n \in Int
  BY Constants, ListOrder
<1>2. Members(L2) = Members(L) \cup {o} /\ L2 \subseteq Int /\ Members(L2) \subseteq DOMAIN hd2
      /\ \A m \in L2 : m > s
  BY DEF Members, List
<1>3. ASSUME NEW m \in Members(L2)
      PROVE /\ hd2[m].next \in Members(L2) /\ hd2[hd2[m].next].prev = m
            /\ hd2[m].prev \in Members(L2) /\ hd2[hd2[m].prev].next = m
            /\ hd2[m].next # s => hd2[m].next > m
            /\ \A x \in L2 : x > m => hd2[m].next # s /\ hd2[m].next <= x
  <2>1. CASE m = o
    <3>1. \A x \in L : x \in Int /\ (x > p => n # s /\ n <= x)
      BY ListOrder
    <3>2. \A x \in L2 : x > o => n # s /\ n <= x
      BY <1>1, <3>1
    <3>3. n # o /\ p # o
      BY <1>1
    <3> QED BY <1>1, <1>2, <2>1, <3>2, <3>3
  <2>2. CASE m \in Members(L)
    <3>1. /\ m \in Int /\ m >= s
          /\ hd[m].next \in Members(L) /\ hd[hd[m].next].prev = m /\ hd[m].next \in Int
          /\ hd[m].prev \in Members(L) /\ hd[hd[m].prev].next = m /\ hd[m].prev \in Int
          /\ hd[m].next # s => hd[m].next > m
          /\ \A x \in L : x \in Int /\ (x > m => hd[m].next # s /\ hd[m].next <= x)
      BY <2>2, ListOrder
    <3>2. hd[n].prev = p
      BY ListOrder
    <3>3. hd2[m].prev \in Members(L2) /\ hd2[hd2[m].prev].next = m
      BY <1>1, <1>2, <2>2, <3>1, <3>2
    <3>4. CASE m = p
      <4>1. \A x \in L : x > m => o <= x
        BY <1>1, <3>1, <3>4
      <4>2. o # s
        BY <1>1
      <4>3. \A x \in L2 : x > m => o <= x
        BY <4>1, <1>1
      <4> QED BY <1>1, <1>2, <3>1, <3>3, <3>4, <4>2, <4>3
    <3>5. CASE m # p
      <4>1. hd2[m].next = hd[m].next /\ hd[m].next # n
        BY <2>2, <3>1, <3>2, <3>5
      <4>2. hd2[hd2[m].next].prev = m
        BY <3>1, <4>1
      <4>3. o > m => hd[m].next # s /\ hd[m].next <= o
        <5>1. CASE m < p
          <6>1. p \in L
            BY <3>1, <5>1, <1>1 DEF Members
          <6> QED BY <6>1, <5>1, <3>1, <1>1
        <5>2. CASE m > p
          <6>1. m \in L
            BY <2>2, <5>2, <1>1, ListOrder DEF Members
          <6>2. n # s /\ n <= m
            BY <6>1, <5>2, ListOrder
          <6> QED BY <6>2, <1>1, <3>1
        <5> QED BY <5>1, <5>2, <1>1, <3>1, <3>5
      <4> QED BY <1>2, <3>1, <3>3, <4>1, <4>2, <4>3
    <3> QED BY <3>4, <3>5
  <2> QED BY <1>2, <2>1, <2>2
<1>4. \A x \in DOMAIN hd2 \ Members(L2) : hd2[x].next = NULL /\ hd2[x].prev = NULL
  BY <1>2
<1> QED BY <1>2, <1>3, <1>4 DEF List

\* Headers hd2 take o out from between p and n, its neighbours in the list L of hd.
Removes(hd, L, p, n, o, hd2) ==
  /\ Members(L) \ {o} \subseteq DOMAIN hd2
  /\ hd2[p].next = n /\ hd2[n].prev = p
  /\ \A m \in Members(L) \ {o, p} : hd2[m].next = hd[m].next
  /\ \A m \in Members(L) \ {o, n} : hd2[m].prev = hd[m].prev
  /\ \A x \in DOMAIN hd2 \ (Members(L) \ {o}) : hd2[x].next = NULL /\ hd2[x].prev = NULL

\* Linking the neighbours of a member with each other takes it off the list.
LEMMA ListRemove ==
  ASSUME NEW hd, NEW L, List(hd, L), NEW o \in L,
         NEW p, NEW n, p = hd[o].prev, n = hd[o].next,
         NEW hd2, Removes(hd, L, p, n, o, hd2)
  PROVE  List(hd2, L \ {o})
<1> USE DEF Removes
<1> DEFINE L2 == L \ {o}
           s == free_list_sentinel
<1>1. o \in Members(L) /\ s \in Int /\ o \in Int /\ o > s
  BY ListMembers
<1>5. /\ p \in Members(L) /\ n \in Members(L) /\ p \in Int /\ n \in Int
      /\ p < o /\ p # o /\ n # o /\ (n # s => o < n)
      /\ \A x \in L : x \in Int /\ (x > o => n # s /\ n <= x)
      /\ hd[p].next = o /\ hd[n].prev = o
  BY <1>1, ListOrder
<1>6. Members(L2) = Members(L) \ {o}
  BY <1>1 DEF Members
<1>2. Members(L2) = Members(L) \ {o} /\ L2 \subseteq Int /\ Members(L2) \subseteq DOMAIN hd2
      /\ \A m \in L2 : m > s
  BY <1>6, ListMembers
<1>3. ASSUME NEW m \in Members(L2)
      PROVE /\ hd2[m].next \in Members(L2) /\ hd2[hd2[m].next].prev = m
            /\ hd2[m].prev \in Members(L2) /\ hd2[hd2[m].prev].next = m
            /\ hd2[m].next # s => hd2[m].next > m
            /\ \A x \in L2 : x > m => hd2[m].next # s /\ hd2[m].next <= x
  <2>1. /\ m \in Int /\ m >= s /\ m # o
        /\ hd[m].next \in Members(L) /\ hd[hd[m].next].prev = m /\ hd[m].next \in Int
        /\ hd[m].prev \in Members(L) /\ hd[hd[m].prev].next = m /\ hd[m].prev \in Int
        /\ hd[m].next # s => hd[m].next > m
        /\ \A x \in L : x \in Int /\ (x > m => hd[m].next # s /\ hd[m].next <= x)
    <3>1. m \in Members(L) /\ m # o
      BY <1>2
    <3> QED BY <3>1, ListOrder
  <2>2. hd2[m].prev \in Members(L2) /\ hd2[hd2[m].prev].next = m
    <3>1. CASE m = n
      BY <1>2, <1>5, <3>1
    <3>2. CASE m # n
      <4>1. hd2[m].prev = hd[m].prev
        BY <1>2, <3>2
      <4>2. hd[m].prev # o /\ hd[m].prev # p
        BY <1>5, <2>1, <3>2
      <4> QED BY <1>2, <2>1, <4>1, <4>2
    <3> QED BY <3>1, <3>2
  <2>3. hd2[m].next \in Members(L2) /\ hd2[hd2[m].next].prev = m
    BY <1>2, <1>5, <2>1
  <2>4. CASE m = p
    BY <1>1, <1>5, <2>1, <2>2, <2>3, <2>4
  <2>5. CASE m # p
    <3>1. hd2[m].next = hd[m].next
      BY <1>2, <2>1, <2>5
    <3> QED BY <2>1, <2>2, <2>3, <3>1
  <2> QED BY <2>4, <2>5
<1>4. \A x \in DOMAIN hd2 \ Members(L2) : hd2[x].next = NULL /\ hd2[x].prev = NULL
  BY <1>2
<1> QED BY <1>2, <1>3, <1>4 DEF List

\* Headers hd2 have q between p and n, where the list L of hd has o.
Replaces(hd, L, p, n, o, q, hd2) ==
  /\ (Members(L) \ {o}) \cup {q} \subseteq DOMAIN hd2
  /\ hd2[p].next = q /\ hd2[n].prev = q /\ hd2[q].next = n /\ hd2[q].prev = p
  /\ \A m \in Members(L) \ {o, p} : hd2[m].next = hd[m].next
  /\ \A m \in Members(L) \ {o, n} : hd2[m].prev = hd[m].prev
  /\ \A x \in DOMAIN hd2 \ ((Members(L) \ {o}) \cup {q}) :
       hd2[x].next = NULL /\ hd2[x].prev = NULL

\* An object that lies where a member lay can take its place in the list.
LEMMA ListReplace ==
  ASSUME NEW hd, NEW L, List(hd, L), NEW o \in L,
         NEW p, NEW n, p = hd[o].prev, n = hd[o].next,
         NEW q \in Int, q \notin L, q > free_list_sentinel, p < q, n = free_list_sentinel \/ q < n,
         NEW hd2, Replaces(hd, L, p, n, o, q, hd2)
  PROVE  List(hd2, (L \ {o}) \cup {q})
<1> USE DEF Replaces
<1> DEFINE L2 == (L \ {o}) \cup {q}
           s == free_list_sentinel
<1>1. o \in Members(L) /\ s \in Int /\ o \in Int /\ o > s
  BY ListMembers
<1>5. /\ p \in Members(L) /\ n \in Members(L) /\ p \in Int /\ n \in Int
      /\ p < o /\ p # o /\ n # o /\ (n # s => o < n)
      /\ \A x \in L : x \in Int /\ (x > o => n # s /\ n <= x)
      /\ \A x \in L : x > p => o <= x
      /\ hd[p].next = o /\ hd[n].prev = o
  BY <1>1, ListOrder
<1>7. Members(L2) = (Members(L) \ {o}) \cup {q}
  BY <1>1 DEF Members
<1>2. Members(L2) = (Members(L) \ {o}) \cup {q} /\ L2 \subseteq Int /\ Members(L2) \subseteq DOMAIN hd2
      /\ \A m \in L2 : m > s
  BY <1>7, ListMembers
<1>6. \A x \in L : x < o \/ x = o \/ (n <= x /\ n # s)
  BY <1>1, <1>5
<1>3. ASSUME NEW m \in Members(L2)
      PROVE /\ hd2[m].next \in Members(L2) /\ hd2[hd2[m].next].prev = m
            /\ hd2[m].prev \in Members(L2) /\ hd2[hd2[m].prev].next = m
            /\ hd2[m].next # s => hd2[m].next > m
            /\ \A x \in L2 : x > m => hd2[m].next # s /\ hd2[m].next <= x
  <2>1. CASE m = q
    <3>1. \A x \in L2 : x > q => n # s /\ n <= x
      BY <1>1, <1>5
    <3> QED BY <1>1, <1>2, <1>5, <2>1, <3>1
  <2>2. CASE m # q
    <3>1. /\ m \in Int /\ m >= s /\ m # o /\ m \in Members(L)
          /\ hd[m].next \in Members(L) /\ hd[hd[m].next].prev = m /\ hd[m].next \in Int
          /\ hd[m].prev \in Members(L) /\ hd[hd[m].prev].next = m /\ hd[m].prev \in Int
          /\ hd[m].next # s => hd[m].next > m
          /\ \A x \in L : x \in Int /\ (x > m => hd[m].next # s /\ hd[m].next <= x)
      <4>1. m \in Members(L) /\ m # o
        BY <1>2, <2>2
      <4> QED BY <4>1, ListOrder
    <3>2. hd2[m].prev \in Members(L2) /\ hd2[hd2[m].prev].next = m
      <4>1. CASE m = n
        BY <1>2, <3>1, <4>1
      <4>2. CASE m # n
        <5>1. hd2[m].prev = hd[m].prev
          BY <3>1, <4>2
        <5>2. hd[m].prev # o /\ hd[m].prev # p
          BY <1>5, <3>1, <4>2
        <5> QED BY <1>2, <3>1, <5>1, <5>2
      <4> QED BY <4>1, <4>2
    <3>3. hd2[m].next \in Members(L2) /\ hd2[hd2[m].next].prev = m
      <4>1. CASE m = p
        BY <1>2, <3>1, <4>1
      <4>2. CASE m # p
        <5>1. hd2[m].next = hd[m].next
          BY <3>1, <4>2
        <5>2. hd[m].next # o /\ hd[m].next # n
          BY <1>5, <3>1, <4>2
        <5> QED BY <1>2, <3>1, <5>1, <5>2
      <4> QED BY <4>1, <4>2
    <3>4. CASE m = p
      <4>1. \A x \in L2 : x > p => q <= x
        <5>1. \A x \in L : x \in Int /\ (x # o /\ x > p => n <= x /\ n # s)
          BY <1>1, <1>5, <1>6
        <5> HIDE DEF Replaces
        <5> QED BY <1>5, <5>1
      <4> QED BY <1>1, <1>5, <3>1, <3>2, <3>3, <3>4, <4>1
    <3>5. CASE m # p
      <4>1. hd2[m].next = hd[m].next /\ hd[m].next # o
        BY <1>5, <3>1, <3>5
      <4>2. q > m => hd[m].next # s /\ hd[m].next <= q
        <5>1. CASE m < p
          <6>1. p \in L
            BY <3>1, <5>1, <1>1, <1>5 DEF Members
          <6> QED BY <6>1, <5>1, <3>1, <1>5
        <5>2. CASE m > p
          <6>1. m \in L
            BY <3>1, <5>2, <1>1, <1>5, ListOrder DEF Members
          <6> QED BY <6>1, <5>2, <1>1, <1>5, <1>6, <3>1
        <5> QED BY <5>1, <5>2, <1>5, <3>1, <3>5
      <4> QED BY <1>2, <3>1, <3>2, <3>3, <4>1, <4>2
    <3> QED BY <3>4, <3>5
  <2> QED BY <2>1, <2>2
<1>4. \A x \in DOMAIN hd2 \ Members(L2) : hd2[x].next = NULL /\ hd2[x].prev = NULL
  BY <1>2
<1> QED BY <1>2, <1>3, <1>4 DEF List

\* A number below p is its own remainder.
LEMMA SmallMod ==
  ASSUME NEW a \in Int, NEW p \in Nat \ {0}, 0 <= a, a < p
  PROVE a % p = a
<1> DEFINE q == a \div p  r == a % p
<1>1. r \in 0 .. (p-1) /\ a = (p * q) + r /\ q \in Int
  BY DivMod
<1> HIDE DEF q, r
<1>2. q < 1
  BY <1>1
<1>3. q > -1
  BY <1>1
<1>4. q = 0
  BY <1>1, <1>2, <1>3
<1> QED BY <1>1, <1>4 DEF r

\* rounded_size: large enough for the request and its tags, a multiple of
\* SIZE_PRECISION, and what is left of a fresh chunk is nothing or an object.
LEMMA RoundedFacts ==
  ASSUME NEW size \in Requests
  PROVE  /\ RoundedSize(size) \in Int /\ RoundedSize(size) % SIZE_PRECISION = 0
         /\ RoundedSize(size) >= MinSize
         /\ size \in Nat /\ size <= RoundedSize(size) - HEADER_SIZE - FOOTER_SIZE
         /\ ~TooLarge(size) =>
              /\ RoundedSize(size) <= RealSize
              /\ RoundedSize(size) = RealSize \/ RealSize - RoundedSize(size) >= MinSize
         /\ TooLarge(size) => size > ARENA_SIZE
<1> DEFINE asked == IF size < MINIMUM_SIZE THEN MINIMUM_SIZE ELSE size
           sum == asked + HEADER_SIZE + FOOTER_SIZE + (SIZE_PRECISION - 1)
           r == sum - (sum % SIZE_PRECISION)
<1>0. /\ HEADER_SIZE \in Nat \ {0} /\ FOOTER_SIZE \in Nat \ {0} /\ ARENA_SIZE \in Nat \ {0}
      /\ MINIMUM_SIZE \in Nat \ {0} /\ SIZE_PRECISION \in Nat \ {0} /\ SIZE_MODULUS \in Nat \ {0}
      /\ RealSize \in Nat /\ RealSize = ARENA_SIZE + HEADER_SIZE + FOOTER_SIZE
      /\ MinSize \in Nat /\ MinSize = MINIMUM_SIZE + HEADER_SIZE + FOOTER_SIZE
      /\ MINIMUM_SIZE <= ARENA_SIZE
  BY Constants, SizesAssumption
<1>1. size \in Nat /\ asked \in Nat /\ size <= asked /\ MINIMUM_SIZE <= asked
  BY <1>0, ProgramAssumption
<1>2. asked + HEADER_SIZE + FOOTER_SIZE + SIZE_PRECISION <= SIZE_MODULUS
  BY <1>1, NoSizeWrap
<1>6. asked > ARENA_SIZE => size > ARENA_SIZE
  BY <1>0, <1>1
<1>7. RoundedSize(size) = (sum % SIZE_MODULUS) - ((sum % SIZE_MODULUS) % SIZE_PRECISION)
  BY DEF RoundedSize
<1> HIDE DEF asked
<1>3. sum \in Int /\ 0 <= sum /\ sum < SIZE_MODULUS
  BY <1>0, <1>1, <1>2
<1>8. sum = asked + HEADER_SIZE + FOOTER_SIZE + (SIZE_PRECISION - 1)
  OBVIOUS
<1> HIDE DEF sum
<1>4. sum % SIZE_MODULUS = sum
  BY <1>0, <1>3, SmallMod
<1>5. RoundedSize(size) = r
  BY <1>4, <1>7
<1>9. r \in Int /\ r % SIZE_PRECISION = 0 /\ r <= sum /\ r > sum - SIZE_PRECISION
  <2>1. r % SIZE_PRECISION = 0 /\ r <= sum /\ r > sum - SIZE_PRECISION
    BY <1>0, <1>3, Rounding
  <2>2. sum % SIZE_PRECISION \in Int
    BY <1>0, <1>3, DivMod
  <2> QED BY <2>1, <2>2, <1>3
<1> HIDE DEF r
<1>10. r >= asked + HEADER_SIZE + FOOTER_SIZE
  BY <1>0, <1>1, <1>8, <1>9
<1>11. asked <= ARENA_SIZE => r <= RealSize
  <2> SUFFICES ASSUME asked <= ARENA_SIZE PROVE r <= RealSize
    OBVIOUS
  <2>1. r < RealSize + SIZE_PRECISION
    BY <1>0, <1>1, <1>8, <1>9
  <2>2. RealSize % SIZE_PRECISION = 0
    BY WholeSizes
  <2>3. RealSize \in Int
    BY <1>0
  <2> HIDE DEF RealSize
  <2> QED BY <1>0, <1>9, <2>1, <2>2, <2>3, LeastMultiple
<1>12. RealSize - r <= 0 \/ RealSize - r >= MinSize
  BY <1>5, CleanSplits
<1>13. TooLarge(size) <=> r > RealSize
  BY <1>5 DEF TooLarge
<1>14. r <= RealSize => r = RealSize \/ RealSize - r >= MinSize
  BY <1>0, <1>9, <1>12
<1>15. r >= MinSize /\ size <= r - HEADER_SIZE - FOOTER_SIZE
  BY <1>0, <1>1, <1>9, <1>10
<1>16. ~(r > RealSize) => r <= RealSize
  BY <1>0, <1>9
<1>17. r > RealSize => size > ARENA_SIZE
  BY <1>0, <1>1, <1>6, <1>9, <1>11
<1> QED BY <1>1, <1>5, <1>9, <1>13, <1>14, <1>15, <1>16, <1>17

(***************************************************************************)
(* Assignments to fields of tags                                           *)
(***************************************************************************)

\* An assignment to the next pointer of one header.
LEMMA SetNext ==
  ASSUME NEW D, NEW f \in [D -> HeaderTags], NEW a \in D, NEW v \in Addresses
  PROVE  LET g == [f EXCEPT ![a].next = v]
         IN  /\ g \in [D -> HeaderTags] /\ g[a].next = v
             /\ \A x \in D \ {a} : g[x].next = f[x].next
             /\ \A x \in D : /\ g[x].prev = f[x].prev
                             /\ g[x].object_size = f[x].object_size
                             /\ g[x].status = f[x].status
BY DEF HeaderTags

\* An assignment to the prev pointer of one header.
LEMMA SetPrev ==
  ASSUME NEW D, NEW f \in [D -> HeaderTags], NEW a \in D, NEW v \in Addresses
  PROVE  LET g == [f EXCEPT ![a].prev = v]
         IN  /\ g \in [D -> HeaderTags] /\ g[a].prev = v
             /\ \A x \in D \ {a} : g[x].prev = f[x].prev
             /\ \A x \in D : /\ g[x].next = f[x].next
                             /\ g[x].object_size = f[x].object_size
                             /\ g[x].status = f[x].status
BY DEF HeaderTags

\* An assignment to the status of one header.
LEMMA SetStatus ==
  ASSUME NEW D, NEW f \in [D -> HeaderTags], NEW a \in D, NEW v \in {ALLOCATED, UNALLOCATED}
  PROVE  LET g == [f EXCEPT ![a].status = v]
         IN  /\ g \in [D -> HeaderTags] /\ g[a].status = v
             /\ \A x \in D \ {a} : g[x].status = f[x].status
             /\ \A x \in D : /\ g[x].next = f[x].next /\ g[x].prev = f[x].prev
                             /\ g[x].object_size = f[x].object_size
BY DEF HeaderTags

\* Linked sets one next pointer and one prev pointer.
LEMMA LinkedFacts ==
  ASSUME NEW D, NEW f \in [D -> HeaderTags], NEW p \in D, NEW n \in D, NEW o \in Addresses
  PROVE  LET g == Linked(f, p, n, o)
         IN  /\ g \in [D -> HeaderTags] /\ g[p].next = o /\ g[n].prev = o
             /\ \A x \in D \ {p} : g[x].next = f[x].next
             /\ \A x \in D \ {n} : g[x].prev = f[x].prev
             /\ \A x \in D : g[x].object_size = f[x].object_size /\ g[x].status = f[x].status
<1> DEFINE g1 == [f EXCEPT ![p].next = o]
           g == Linked(f, p, n, o)
<1>1. g = [g1 EXCEPT ![n].prev = o]
  BY DEF Linked
<1>2. /\ g1 \in [D -> HeaderTags] /\ g1[p].next = o
      /\ \A x \in D \ {p} : g1[x].next = f[x].next
      /\ \A x \in D : /\ g1[x].prev = f[x].prev /\ g1[x].object_size = f[x].object_size
                      /\ g1[x].status = f[x].status
  BY SetNext
<1> HIDE DEF g1
<1>3. /\ [g1 EXCEPT ![n].prev = o] \in [D -> HeaderTags] /\ [g1 EXCEPT ![n].prev = o][n].prev = o
      /\ \A x \in D \ {n} : [g1 EXCEPT ![n].prev = o][x].prev = g1[x].prev
      /\ \A x \in D : /\ [g1 EXCEPT ![n].prev = o][x].next = g1[x].next
                      /\ [g1 EXCEPT ![n].prev = o][x].object_size = g1[x].object_size
                      /\ [g1 EXCEPT ![n].prev = o][x].status = g1[x].status
  BY <1>2, SetPrev
<1> HIDE DEF g
<1> QED BY <1>1, <1>2, <1>3 DEF g

\* Unlinked joins the neighbours of a member and clears its own pointers.
LEMMA UnlinkedFacts ==
  ASSUME NEW D, NEW f \in [D -> HeaderTags], NEW o \in D,
         f[o].prev \in D \ {o}, f[o].next \in D \ {o}
  PROVE  LET g == Unlinked(f, o)
             p == f[o].prev
             n == f[o].next
         IN  /\ g \in [D -> HeaderTags] /\ g[p].next = n /\ g[n].prev = p
             /\ g[o].next = NULL /\ g[o].prev = NULL
             /\ \A x \in D \ {p, o} : g[x].next = f[x].next
             /\ \A x \in D \ {n, o} : g[x].prev = f[x].prev
             /\ \A x \in D : g[x].object_size = f[x].object_size /\ g[x].status = f[x].status
<1> DEFINE p == f[o].prev
           n == f[o].next
           g1 == [f EXCEPT ![p].next = n]
           g2 == [g1 EXCEPT ![n].prev = p]
           g3 == [g2 EXCEPT ![o].next = NULL]
           g4 == [g3 EXCEPT ![o].prev = NULL]
<1>1. Unlinked(f, o) = g4
  BY DEF Unlinked
<1>2. p \in D \ {o} /\ n \in D \ {o} /\ p \in Addresses /\ n \in Addresses /\ NULL \in Addresses
  BY DEF HeaderTags, Addresses
<1>7. p = f[o].prev /\ n = f[o].next
  OBVIOUS
<1> HIDE DEF p, n
<1>3. /\ g1 \in [D -> HeaderTags] /\ g1[p].next = n
      /\ \A x \in D \ {p} : g1[x].next = f[x].next
      /\ \A x \in D : /\ g1[x].prev = f[x].prev /\ g1[x].object_size = f[x].object_size
                      /\ g1[x].status = f[x].status
  BY <1>2, SetNext
<1> HIDE DEF g1
<1>4. /\ g2 \in [D -> HeaderTags] /\ g2[n].prev = p
      /\ \A x \in D \ {n} : g2[x].prev = g1[x].prev
      /\ \A x \in D : /\ g2[x].next = g1[x].next /\ g2[x].object_size = g1[x].object_size
                      /\ g2[x].status = g1[x].status
  BY <1>2, <1>3, SetPrev
<1> HIDE DEF g2
<1>5. /\ g3 \in [D -> HeaderTags] /\ g3[o].next = NULL
      /\ \A x \in D \ {o} : g3[x].next = g2[x].next
      /\ \A x \in D : /\ g3[x].prev = g2[x].prev /\ g3[x].object_size = g2[x].object_size
                      /\ g3[x].status = g2[x].status
  BY <1>2, <1>4, SetNext
<1> HIDE DEF g3
<1>6. /\ g4 \in [D -> HeaderTags] /\ g4[o].prev = NULL
      /\ \A x \in D \ {o} : g4[x].prev = g3[x].prev
      /\ \A x \in D : /\ g4[x].next = g3[x].next /\ g4[x].object_size = g3[x].object_size
                      /\ g4[x].status = g3[x].status
  BY <1>2, <1>5, SetPrev
<1> HIDE DEF g4
<1>8. /\ g4[p].next = n /\ g4[n].prev = p /\ g4[o].next = NULL /\ g4[o].prev = NULL
      /\ \A x \in D \ {p, o} : g4[x].next = f[x].next
      /\ \A x \in D \ {n, o} : g4[x].prev = f[x].prev
      /\ \A x \in D : g4[x].object_size = f[x].object_size /\ g4[x].status = f[x].status
  BY <1>2, <1>3, <1>4, <1>5, <1>6
<1>9. g4 \in [D -> HeaderTags]
  BY <1>6
<1> QED BY <1>1, <1>8, <1>9 DEF p, n

(***************************************************************************)
(* The program's objects                                                   *)
(***************************************************************************)

\* The sets of MyMallocProperties in the terms of the invariant.
LEMMA HeapNames ==
  /\ Objects = ObjectsOf(header, chunks) /\ Free = FreeOf(header, chunks)
  /\ op.kind # "insert" => Listed = FreeOf(header, chunks)
BY DEF Objects, ObjectsOf, Fences, Free, FreeOf, Status, Listed

\* Handing out one more object with room for the request.
LEMMA HandsOut ==
  ASSUME NEW hd, NEW ch, NEW lv, lv \in [DOMAIN lv -> Requests], Holds(hd, ch, lv),
         \A x \in ObjectsOf(hd, ch) : x \in Int,
         NEW hd2, NEW ch2, NEW o \in Int, NEW size \in Requests,
         ObjectsOf(hd2, ch2) \ FreeOf(hd2, ch2) = (ObjectsOf(hd, ch) \ FreeOf(hd, ch)) \cup {o},
         \A x \in (ObjectsOf(hd, ch) \ FreeOf(hd, ch)) \ {o} : Size(hd2, x) = Size(hd, x),
         size <= Size(hd2, o) - HEADER_SIZE - FOOTER_SIZE
  PROVE  /\ Holds(hd2, ch2, Store(lv, o + HEADER_SIZE, size))
         /\ Store(lv, o + HEADER_SIZE, size) \in [DOMAIN Store(lv, o + HEADER_SIZE, size) -> Requests]
<1> DEFINE lv2 == Store(lv, o + HEADER_SIZE, size)
           A == ObjectsOf(hd, ch) \ FreeOf(hd, ch)
<1>1. /\ DOMAIN lv2 = DOMAIN lv \cup {o + HEADER_SIZE} /\ lv2[o + HEADER_SIZE] = size
      /\ \A x \in DOMAIN lv \ {o + HEADER_SIZE} : lv2[x] = lv[x]
      /\ lv2 \in [DOMAIN lv2 -> Requests]
  BY DEF Store
<1> HIDE DEF lv2
<1>2. DOMAIN lv = {x + HEADER_SIZE : x \in A}
      /\ \A x \in A : lv[x + HEADER_SIZE] <= Size(hd, x) - HEADER_SIZE - FOOTER_SIZE
  BY DEF Holds
<1>3. \A x \in A : x \in Int
  OBVIOUS
<1>5. ObjectsOf(hd2, ch2) \ FreeOf(hd2, ch2) = A \cup {o}
  OBVIOUS
<1>6. \A x \in A \ {o} : Size(hd2, x) = Size(hd, x)
  OBVIOUS
<1> HIDE DEF A
<1>4. DOMAIN lv2 = {x + HEADER_SIZE : x \in A \cup {o}}
  BY <1>1, <1>2
<1>7. \A x \in A \cup {o} : lv2[x + HEADER_SIZE] <= Size(hd2, x) - HEADER_SIZE - FOOTER_SIZE
  <2> SUFFICES ASSUME NEW x \in A, x # o
        PROVE lv2[x + HEADER_SIZE] <= Size(hd2, x) - HEADER_SIZE - FOOTER_SIZE
    BY <1>1
  <2>1. x + HEADER_SIZE # o + HEADER_SIZE
    BY <1>3, Constants
  <2> QED BY <1>1, <1>2, <1>6, <2>1
<1> QED BY <1>1, <1>4, <1>5, <1>7 DEF Holds, lv2

\* Taking one object back.
LEMMA TakesBack ==
  ASSUME NEW hd, NEW ch, NEW lv, lv \in [DOMAIN lv -> Requests], Holds(hd, ch, lv),
         \A x \in ObjectsOf(hd, ch) : x \in Int,
         NEW hd2, NEW ch2, NEW o \in ObjectsOf(hd, ch) \ FreeOf(hd, ch),
         ObjectsOf(hd2, ch2) \ FreeOf(hd2, ch2) = (ObjectsOf(hd, ch) \ FreeOf(hd, ch)) \ {o},
         \A x \in (ObjectsOf(hd, ch) \ FreeOf(hd, ch)) \ {o} : Size(hd2, x) = Size(hd, x)
  PROVE  /\ Holds(hd2, ch2, Without(lv, {o + HEADER_SIZE}))
         /\ Without(lv, {o + HEADER_SIZE}) \in [DOMAIN Without(lv, {o + HEADER_SIZE}) -> Requests]
<1> DEFINE lv2 == Without(lv, {o + HEADER_SIZE})
           A == ObjectsOf(hd, ch) \ FreeOf(hd, ch)
<1>1. /\ DOMAIN lv2 = DOMAIN lv \ {o + HEADER_SIZE}
      /\ \A x \in DOMAIN lv \ {o + HEADER_SIZE} : lv2[x] = lv[x]
      /\ lv2 \in [DOMAIN lv2 -> Requests]
  BY DEF Without, Restrict
<1> HIDE DEF lv2
<1>2. DOMAIN lv = {x + HEADER_SIZE : x \in A}
      /\ \A x \in A : lv[x + HEADER_SIZE] <= Size(hd, x) - HEADER_SIZE - FOOTER_SIZE
  BY DEF Holds
<1>3. \A x \in A : x \in Int /\ x + HEADER_SIZE \in DOMAIN lv
  BY <1>2
<1>5. ObjectsOf(hd2, ch2) \ FreeOf(hd2, ch2) = A \ {o} /\ o \in A
  OBVIOUS
<1>6. \A x \in A \ {o} : Size(hd2, x) = Size(hd, x)
  OBVIOUS
<1> HIDE DEF A
<1>8. \A x \in A \ {o} : x + HEADER_SIZE # o + HEADER_SIZE
  BY <1>3, <1>5, Constants
<1>4. DOMAIN lv2 = {x + HEADER_SIZE : x \in A \ {o}}
  BY <1>1, <1>2, <1>8
<1>7. \A x \in A \ {o} : lv2[x + HEADER_SIZE] <= Size(hd2, x) - HEADER_SIZE - FOOTER_SIZE
  BY <1>1, <1>2, <1>3, <1>6, <1>8
<1> QED BY <1>1, <1>4, <1>5, <1>7 DEF Holds, lv2

(***************************************************************************)
(* Each action keeps the invariant: allocate_object                        *)
(***************************************************************************)

\* The state of a search that looks at an object.
LEMMA SearchFacts ==
  ASSUME Inv, AtObject
  PROVE  /\ op.kind = "search" /\ request \in Requests /\ ~TooLarge(request)
         /\ op.rounded = RoundedSize(request) /\ op.rounded \in Int
         /\ op.rounded >= MinSize /\ op.rounded % SIZE_PRECISION = 0
         /\ request <= op.rounded - HEADER_SIZE - FOOTER_SIZE
         /\ Listed = FreeOf(header, chunks) /\ op.cursor \in FreeOf(header, chunks)
         /\ op.cursor \in ObjectsOf(header, chunks) /\ op.cursor \in DOMAIN header
         /\ op.cursor \in Int
<1>1. op.kind = "search" /\ op.cursor # free_list_sentinel
  BY DEF AtObject
<1>2. /\ request \in Requests /\ ~TooLarge(request)
      /\ op = [kind |-> "search", rounded |-> RoundedSize(request), cursor |-> op.cursor]
      /\ op.cursor \in Members(Listed)
  BY <1>1 DEF Inv, OpInv, NoCall, Fault, Inserting
<1>3. op.rounded = RoundedSize(request)
  BY <1>2
<1>4. op.rounded \in Int /\ op.rounded >= MinSize /\ op.rounded % SIZE_PRECISION = 0
      /\ request <= op.rounded - HEADER_SIZE - FOOTER_SIZE
  BY <1>2, <1>3, RoundedFacts
<1>5. Listed = FreeOf(header, chunks)
  BY <1>1, HeapNames
<1>6. op.cursor \in FreeOf(header, chunks)
  BY <1>1, <1>2, <1>5 DEF Members
<1>7. op.cursor \in ObjectsOf(header, chunks) /\ op.cursor \in DOMAIN header
  BY <1>6 DEF FreeOf, ObjectsOf
<1>8. op.cursor \in Int
  BY <1>7 DEF Inv, HeapInv, Shape
<1> QED BY <1>1, <1>2, <1>3, <1>4, <1>5, <1>6, <1>7, <1>8

\* An assignment to the status of one footer.
LEMMA FooterStatus ==
  ASSUME NEW f, f \in [DOMAIN f -> FooterTags],
         NEW a \in DOMAIN f, NEW v \in {UNALLOCATED, ALLOCATED}
  PROVE  LET g == [f EXCEPT ![a].status = v]
         IN  /\ DOMAIN g = DOMAIN f /\ g[a] = FooterTag(f[a].object_size, v)
             /\ \A x \in DOMAIN f \ {a} : g[x] = f[x]
             /\ g \in [DOMAIN g -> FooterTags]
BY DEF FooterTag, FooterTags

\* The neighbours of a member of the list.
LEMMA Ascending ==
  ASSUME NEW hd, NEW L, List(hd, L), NEW o \in L
  PROVE  /\ hd[o].prev \in DOMAIN hd \ {o} /\ hd[o].next \in DOMAIN hd \ {o}
         /\ hd[o].prev \in Members(L) \ {o} /\ hd[o].next \in Members(L) \ {o}
         /\ hd[o].prev < o /\ hd[o].prev \in Int /\ hd[o].next \in Int /\ o \in Int
         /\ hd[o].next = free_list_sentinel \/ o < hd[o].next
         /\ free_list_sentinel < o
<1>1. o \in Members(L) /\ o # free_list_sentinel /\ o \in Int /\ free_list_sentinel < o
  BY ListMembers
<1> QED BY <1>1, ListMembers, ListOrder

\* An object and its payload begin at addresses of the heap.
LEMMA PayloadInHeap ==
  ASSUME NEW hd, NEW ft, NEW ch, NEW brk \in Int, Shape(hd, ft, ch, brk), HeapStart <= brk,
         brk <= HeapLimit, NEW o \in ObjectsOf(hd, ch)
  PROVE  o + HEADER_SIZE \in HeapAddresses /\ o \in HeapAddresses
<1>1. PICK c \in ch : c + FOOTER_SIZE <= o
  BY DEF Shape, Placed
<1>2. HeapStart <= c /\ c \in Int
  BY DEF Shape, ChunksApart
<1>3. o \in Int /\ EndOf(hd, o) \in Int /\ EndOf(hd, o) < brk
  BY Below
<1>4. EndOf(hd, o) >= o + MinSize
  BY Constants DEF Shape, Placed, EndOf, Size
<1> QED BY <1>1, <1>2, <1>3, <1>4, Constants DEF HeapAddresses

\* allocate_object hands out an object as it is.
LEMMA TakeWholeStep == Inv /\ TakeWhole => Inv'
<1> SUFFICES ASSUME Inv, TakeWhole PROVE Inv'
  OBVIOUS
<1> DEFINE o == op.cursor
           O == ObjectsOf(header, chunks)
           F == FreeOf(header, chunks)
           un == Unlinked(header, o)
           p == header[o].prev
           n == header[o].next
<1>1. /\ AtObject /\ Remainder >= 0
      /\ header' = [un EXCEPT ![o].status = ALLOCATED]
      /\ footer' = AllocatedFooter(o)
      /\ result' = o + HEADER_SIZE
      /\ live' = Store(live, o + HEADER_SIZE, request)
      /\ op' = NoCall /\ request' = request
      /\ program_break' = program_break /\ chunks' = chunks
  BY DEF TakeWhole, Return, Unaffected
<1>2. /\ op.kind = "search" /\ request \in Requests
      /\ op.rounded \in Int
      /\ request <= op.rounded - HEADER_SIZE - FOOTER_SIZE
      /\ Listed = F /\ o \in F /\ o \in O /\ o \in DOMAIN header /\ o \in Int
  BY <1>1, SearchFacts
<1>3. /\ header \in [DOMAIN header -> HeaderTags] /\ Shape(header, footer, chunks, program_break)
      /\ Merged(header, chunks) /\ List(header, F)
      /\ program_break \in Int /\ HeapStart <= program_break /\ program_break <= HeapLimit
      /\ footer \in [DOMAIN footer -> FooterTags]
      /\ free_list_sentinel \in DOMAIN header
      /\ header[free_list_sentinel].object_size = 0
      /\ header[free_list_sentinel].status = SENTINEL
  BY <1>2 DEF Inv, HeapInv
<1>4. p \in DOMAIN header \ {o} /\ n \in DOMAIN header \ {o} /\ p \in Members(F) /\ n \in Members(F) /\ o # free_list_sentinel
  BY <1>2, <1>3, Ascending, ListMembers
<1> HIDE DEF o
<1>5. /\ un \in [DOMAIN header -> HeaderTags] /\ un[p].next = n /\ un[n].prev = p
      /\ un[o].next = NULL /\ un[o].prev = NULL
      /\ \A x \in DOMAIN header \ {p, o} : un[x].next = header[x].next
      /\ \A x \in DOMAIN header \ {n, o} : un[x].prev = header[x].prev
      /\ \A x \in DOMAIN header : un[x].object_size = header[x].object_size /\ un[x].status = header[x].status
  BY <1>2, <1>3, <1>4, UnlinkedFacts
<1> HIDE DEF un
<1>6. /\ header' \in [DOMAIN header -> HeaderTags] /\ header'[o].status = ALLOCATED
      /\ \A x \in DOMAIN header \ {o} : header'[x].status = header[x].status
      /\ \A x \in DOMAIN header : /\ header'[x].next = un[x].next /\ header'[x].prev = un[x].prev
                                  /\ header'[x].object_size = header[x].object_size
  <2> DEFINE g == [un EXCEPT ![o].status = ALLOCATED]
  <2>1. /\ g \in [DOMAIN header -> HeaderTags] /\ g[o].status = ALLOCATED
        /\ \A x \in DOMAIN header \ {o} : g[x].status = un[x].status
        /\ \A x \in DOMAIN header : /\ g[x].next = un[x].next /\ g[x].prev = un[x].prev
                                    /\ g[x].object_size = un[x].object_size
    <3>1. un \in [DOMAIN header -> HeaderTags] /\ o \in DOMAIN header
      BY <1>2, <1>5
    <3> QED BY <3>1, SetStatus
  <2>2. header' = g
    BY <1>1
  <2> HIDE DEF g
  <2> QED BY <1>5, <2>1, <2>2
<1>7. DOMAIN header' = DOMAIN header /\ header' \in [DOMAIN header' -> HeaderTags]
  BY <1>6
<1>8. /\ FooterOf(o) = EndOf(header, o) - FOOTER_SIZE /\ FooterOf(o) \in DOMAIN footer
      /\ footer[FooterOf(o)] = FooterTag(Size(header, o), Status(header, o))
  <2>1. FooterOf(o) = EndOf(header, o) - FOOTER_SIZE
    <3>1. Size(header, o) \in Int
      BY <1>2, <1>3 DEF Shape, Placed
    <3> QED BY <1>2, <3>1, Constants DEF FooterOf, FooterAt, EndOf, Size
  <2>2. /\ EndOf(header, o) - FOOTER_SIZE \in DOMAIN footer
        /\ footer[EndOf(header, o) - FOOTER_SIZE] = FooterTag(Size(header, o), Status(header, o))
    BY <1>2, <1>3 DEF Shape, Tagged
  <2> QED BY <2>1, <2>2
<1>9. /\ DOMAIN footer' = DOMAIN footer
      /\ footer'[EndOf(header, o) - FOOTER_SIZE] = FooterTag(Size(header, o), ALLOCATED)
      /\ \A x \in DOMAIN footer \ {EndOf(header, o) - FOOTER_SIZE} : footer'[x] = footer[x]
      /\ footer' \in [DOMAIN footer' -> FooterTags]
  <2>1. footer' = [footer EXCEPT ![FooterOf(o)].status = ALLOCATED]
    BY <1>1 DEF AllocatedFooter
  <2>2. footer[FooterOf(o)].object_size = Size(header, o)
    BY <1>8 DEF FooterTag
  <2> DEFINE a == FooterOf(o)
  <2>3. a \in DOMAIN footer /\ a = EndOf(header, o) - FOOTER_SIZE /\ footer[a].object_size = Size(header, o)
        /\ footer' = [footer EXCEPT ![a].status = ALLOCATED]
    BY <1>8, <2>1, <2>2
  <2> HIDE DEF a
  <2>4. /\ DOMAIN footer' = DOMAIN footer /\ footer'[a] = FooterTag(footer[a].object_size, ALLOCATED)
        /\ \A x \in DOMAIN footer \ {a} : footer'[x] = footer[x]
        /\ footer' \in [DOMAIN footer' -> FooterTags]
    BY <1>3, <2>3, FooterStatus
  <2> QED BY <2>3, <2>4
<1>10. /\ Shape(header', footer', chunks, program_break)
       /\ ObjectsOf(header', chunks) = O
  <2>1. \A x \in DOMAIN header : Size(header', x) = Size(header, x)
    BY <1>6 DEF Size
  <2>2. Status(header', o) = ALLOCATED
        /\ \A x \in DOMAIN header \ {o} : Status(header', x) = Status(header, x)
    BY <1>6 DEF Status
  <2>3. Flips(header, footer, o, ALLOCATED, header', footer')
    BY <1>7, <1>9, <2>1, <2>2 DEF Flips
  <2> QED BY <1>2, <1>3, <2>3, FlipShape
<1>11. O \subseteq DOMAIN header
  BY DEF ObjectsOf
<1>12. FreeOf(header', chunks) = F \ {o}
  BY <1>2, <1>6, <1>10, <1>11 DEF FreeOf, Status, ALLOCATED, UNALLOCATED
<1>13. Merged(header', chunks)
  BY <1>3, <1>6, <1>11, <1>12 DEF Merged, EndOf, FreeOf
<1>14. List(header', F \ {o})
  <2>1. header'[p].next = n /\ header'[n].prev = p
    BY <1>4, <1>5, <1>6
  <2>2. /\ \A m \in Members(F) \ {o, p} : header'[m].next = header[m].next
        /\ \A m \in Members(F) \ {o, n} : header'[m].prev = header[m].prev
    BY <1>3, <1>5, <1>6, ListMembers
  <2>3. \A x \in DOMAIN header' \ (Members(F) \ {o}) : header'[x].next = NULL /\ header'[x].prev = NULL
    <3>1. \A x \in DOMAIN header \ Members(F) : header[x].next = NULL /\ header[x].prev = NULL
      BY <1>3 DEF List
    <3> QED BY <1>4, <1>5, <1>6, <1>7, <3>1
  <2>4. Members(F) \ {o} \subseteq DOMAIN header'
    BY <1>3, <1>7, ListMembers
  <2>5. Removes(header, F, p, n, o, header')
    BY <2>1, <2>2, <2>3, <2>4 DEF Removes
  <2> QED BY <1>2, <1>3, <2>5, ListRemove
<1>15. HeapInv'
  <2>1. Listed' = F \ {o}
    BY <1>1, <1>12, HeapNames DEF Listed, Free, Objects, FreeOf, ObjectsOf, Fences, Status, NoCall
  <2>2. header'[free_list_sentinel].object_size = 0 /\ header'[free_list_sentinel].status = SENTINEL
    BY <1>3, <1>4, <1>6
  <2> QED BY <1>1, <1>3, <1>7, <1>9, <1>10, <1>13, <1>14, <2>1, <2>2 DEF HeapInv
<1>16. ProgramInv'
  <2>1. \A x \in O : x \in Int
    BY <1>3 DEF Shape, Placed
  <2>2. O \ (F \ {o}) = (O \ F) \cup {o}
    BY <1>2
  <2>3. \A x \in (O \ F) \ {o} : Size(header', x) = Size(header, x)
    BY <1>6, <1>11 DEF Size
  <2>4. request <= Size(header', o) - HEADER_SIZE - FOOTER_SIZE
    <3>1. Size(header, o) - op.rounded >= 0 /\ Size(header, o) \in Int
      BY <1>1, <1>2, <1>3 DEF Remainder, o, Shape, Placed, Size
    <3>2. Size(header', o) = Size(header, o)
      BY <1>2, <1>6 DEF Size
    <3> QED BY <1>2, <3>1, <3>2, Constants, ProgramAssumption
  <2>5. result' \in HeapAddresses
    BY <1>1, <1>2, <1>3, PayloadInHeap
  <2>6. live \in [DOMAIN live -> Requests] /\ Holds(header, chunks, live)
    BY DEF Inv, ProgramInv
  <2>7. ObjectsOf(header', chunks) \ FreeOf(header', chunks) = (O \ F) \cup {o}
    BY <1>10, <1>12, <2>2
  <2>8. /\ Holds(header', chunks, live')
        /\ live' \in [DOMAIN live' -> Requests]
    BY <1>1, <1>2, <2>1, <2>3, <2>4, <2>6, <2>7, HandsOut
  <2> QED BY <1>1, <1>2, <2>5, <2>8 DEF ProgramInv
<1>17. OpInv'
  BY <1>1 DEF OpInv
<1> QED BY <1>15, <1>16, <1>17 DEF Inv

\* What the invariant says of the heap and of the program.
LEMMA HeapFacts ==
  ASSUME Inv
  PROVE  /\ header \in [DOMAIN header -> HeaderTags]
         /\ footer \in [DOMAIN footer -> FooterTags]
         /\ free_list_sentinel \in DOMAIN header
         /\ header[free_list_sentinel].object_size = 0
         /\ header[free_list_sentinel].status = SENTINEL
         /\ program_break \in Int /\ HeapStart <= program_break /\ program_break <= HeapLimit
         /\ Shape(header, footer, chunks, program_break)
         /\ Merged(header, chunks) /\ List(header, Listed)
         /\ ObjectsOf(header, chunks) \subseteq DOMAIN header
         /\ FreeOf(header, chunks) \subseteq ObjectsOf(header, chunks)
         /\ free_list_sentinel \notin ObjectsOf(header, chunks)
         /\ DOMAIN header \subseteq Int
         /\ live \in [DOMAIN live -> Requests] /\ Holds(header, chunks, live)
         /\ request \in Requests \cup {NULL} /\ result \in HeapAddresses \cup {NULL}
BY DEF Inv, HeapInv, ProgramInv, FooterTags, Shape, ObjectsOf, FreeOf

\* What the shape of the heap says of one object.
LEMMA ObjectFacts ==
  ASSUME NEW hd, NEW ft, NEW ch, NEW brk, Shape(hd, ft, ch, brk), NEW o \in ObjectsOf(hd, ch)
  PROVE  /\ o \in Int /\ o \in DOMAIN hd
         /\ Size(hd, o) \in Int /\ Size(hd, o) >= MinSize /\ Size(hd, o) = hd[o].object_size
         /\ EndOf(hd, o) = o + Size(hd, o) /\ EndOf(hd, o) \in Int /\ EndOf(hd, o) > o
         /\ Status(hd, o) \in {UNALLOCATED, ALLOCATED} /\ Status(hd, o) = hd[o].status
         /\ EndOf(hd, o) - FOOTER_SIZE \in DOMAIN ft /\ EndOf(hd, o) - FOOTER_SIZE \in Int
         /\ ft[EndOf(hd, o) - FOOTER_SIZE] = FooterTag(Size(hd, o), Status(hd, o))
         /\ EndOf(hd, o) \in DOMAIN hd
         /\ FooterAt(o, Size(hd, o)) = EndOf(hd, o) - FOOTER_SIZE
<1>1. o \in Int /\ o \in DOMAIN hd
  BY DEF Shape, Placed, ObjectsOf
<1>2. /\ Size(hd, o) \in Int /\ Size(hd, o) >= MinSize /\ Size(hd, o) = hd[o].object_size
      /\ Status(hd, o) \in {UNALLOCATED, ALLOCATED} /\ Status(hd, o) = hd[o].status
      /\ EndOf(hd, o) = o + Size(hd, o)
  BY DEF Shape, Placed, Size, Status, EndOf
<1>3. EndOf(hd, o) \in Int /\ EndOf(hd, o) > o /\ EndOf(hd, o) - FOOTER_SIZE \in Int
      /\ FooterAt(o, Size(hd, o)) = EndOf(hd, o) - FOOTER_SIZE
  BY <1>1, <1>2, Constants DEF FooterAt
<1>4. /\ EndOf(hd, o) - FOOTER_SIZE \in DOMAIN ft
      /\ ft[EndOf(hd, o) - FOOTER_SIZE] = FooterTag(Size(hd, o), Status(hd, o))
      /\ EndOf(hd, o) \in DOMAIN hd
  BY DEF Shape, Tagged, Tiled
<1> QED BY <1>1, <1>2, <1>3, <1>4

\* allocate_object splits an object.
LEMMA SplitStep == Inv /\ Split => Inv'
<1> SUFFICES ASSUME Inv, Split PROVE Inv'
  OBVIOUS
<1> DEFINE o == op.cursor
           new == o + op.rounded
           O == ObjectsOf(header, chunks)
           F == FreeOf(header, chunks)
           p == header[o].prev
           n == header[o].next
           lk == Linked(header, p, n, new)
           t1 == HeaderTag(op.rounded, ALLOCATED, NULL, NULL)
           t2 == HeaderTag(Size(header, o) - op.rounded, UNALLOCATED, n, p)
<1>1. /\ AtObject /\ Remainder >= MinSize /\ Remainder = Size(header, o) - op.rounded
      /\ header' = Store([lk EXCEPT ![o] = t1], new, t2)
      /\ footer' = SplitFooters(footer, o, Size(header, o), op.rounded)
      /\ result' = o + HEADER_SIZE
      /\ live' = Store(live, o + HEADER_SIZE, request)
      /\ op' = NoCall /\ request' = request
      /\ program_break' = program_break /\ chunks' = chunks
  BY DEF Split, Return, Unaffected, Remainder, Size
<1>2. /\ op.kind = "search" /\ request \in Requests
      /\ op.rounded \in Int /\ op.rounded >= MinSize /\ op.rounded % SIZE_PRECISION = 0
      /\ request <= op.rounded - HEADER_SIZE - FOOTER_SIZE
      /\ Listed = F /\ o \in F /\ o \in O /\ o \in DOMAIN header /\ o \in Int
  BY <1>1, SearchFacts
<1>3. /\ header \in [DOMAIN header -> HeaderTags] /\ Shape(header, footer, chunks, program_break)
      /\ Merged(header, chunks) /\ List(header, F)
      /\ program_break \in Int /\ HeapStart <= program_break /\ program_break <= HeapLimit
      /\ footer \in [DOMAIN footer -> FooterTags]
      /\ free_list_sentinel \in DOMAIN header
      /\ header[free_list_sentinel].object_size = 0
      /\ header[free_list_sentinel].status = SENTINEL
      /\ O \subseteq DOMAIN header /\ F \subseteq O /\ free_list_sentinel \notin O
      /\ DOMAIN header \subseteq Int
      /\ live \in [DOMAIN live -> Requests] /\ Holds(header, chunks, live)
  BY <1>2, HeapFacts
<1>4. /\ p \in DOMAIN header \ {o} /\ n \in DOMAIN header \ {o}
      /\ p \in Members(F) \ {o} /\ n \in Members(F) \ {o}
      /\ p < o /\ p \in Int /\ n \in Int /\ o # free_list_sentinel
      /\ n = free_list_sentinel \/ o < n
      /\ free_list_sentinel < o
  BY <1>2, <1>3, Ascending
<1>5. /\ Size(header, o) \in Int /\ Size(header, o) - op.rounded >= MinSize
      /\ Size(header, o) - op.rounded \in Int
      /\ EndOf(header, o) = o + Size(header, o) /\ EndOf(header, o) \in Int
      /\ EndOf(header, o) \in DOMAIN header
      /\ FooterAt(o, Size(header, o)) \in DOMAIN footer
  BY <1>1, <1>2, <1>3, ObjectFacts
<1>6. o < new /\ new < EndOf(header, o) /\ new \in Int
  BY <1>1, <1>2, <1>5, Constants
<1>7. new \notin DOMAIN header
  <2>1. \A y \in DOMAIN header : y <= o \/ EndOf(header, o) <= y
    BY <1>2, <1>3 DEF Shape, Tiled
  <2> QED BY <1>2, <1>3, <1>5, <1>6, <2>1
<1>8. new = o + op.rounded /\ p = header[o].prev /\ n = header[o].next
  OBVIOUS
<1>9. t1 \in HeaderTags /\ t2 \in HeaderTags
  BY <1>2, <1>4, <1>5 DEF HeaderTags, Addresses, HeaderTag
<1>10. lk = Linked(header, p, n, new) /\ new \in Addresses
  BY <1>6 DEF Addresses
<1> HIDE DEF o, new, p, n, lk
<1>11. /\ lk \in [DOMAIN header -> HeaderTags] /\ lk[p].next = new /\ lk[n].prev = new
       /\ \A x \in DOMAIN header \ {p} : lk[x].next = header[x].next
       /\ \A x \in DOMAIN header \ {n} : lk[x].prev = header[x].prev
       /\ \A x \in DOMAIN header : lk[x].object_size = header[x].object_size /\ lk[x].status = header[x].status
  <2>1. p \in DOMAIN header /\ n \in DOMAIN header
    BY <1>4
  <2> QED BY <1>3, <1>10, <2>1, LinkedFacts
<1>12. /\ header' \in [DOMAIN header \cup {new} -> HeaderTags]
       /\ header'[o] = t1 /\ header'[new] = t2
       /\ \A x \in DOMAIN header \ {o} : header'[x] = lk[x]
  <2>1. [lk EXCEPT ![o] = t1] \in [DOMAIN header -> HeaderTags]
        /\ [lk EXCEPT ![o] = t1][o] = t1
        /\ \A x \in DOMAIN header \ {o} : [lk EXCEPT ![o] = t1][x] = lk[x]
    BY <1>2, <1>9, <1>11
  <2> DEFINE g == [lk EXCEPT ![o] = t1]
  <2>2. header' = Store(g, new, t2) /\ g \in [DOMAIN header -> HeaderTags]
    BY <1>1, <2>1
  <2> HIDE DEF g, t1, t2
  <2>3. /\ header' \in [DOMAIN header \cup {new} -> HeaderTags] /\ header'[new] = t2
        /\ \A x \in DOMAIN header \ {new} : header'[x] = g[x]
    <3>1. header' = Store(g, new, t2) /\ g \in [DOMAIN header -> HeaderTags] /\ t2 \in HeaderTags
      BY <1>9, <2>2
    <3> QED BY <3>1 DEF Store
  <2> QED BY <1>2, <1>7, <2>1, <2>3 DEF g
<1>13. DOMAIN header' = DOMAIN header \cup {new} /\ header' \in [DOMAIN header' -> HeaderTags]
  BY <1>12
<1>14. /\ header'[o].object_size = op.rounded /\ header'[o].status = ALLOCATED
       /\ header'[o].next = NULL /\ header'[o].prev = NULL
       /\ header'[new].object_size = Size(header, o) - op.rounded
       /\ header'[new].status = UNALLOCATED
       /\ header'[new].next = n /\ header'[new].prev = p
  BY <1>12 DEF HeaderTag
<1>15. \A x \in DOMAIN header \ {o} :
         header'[x].object_size = header[x].object_size /\ header'[x].status = header[x].status
  BY <1>11, <1>12
<1>16. /\ DOMAIN footer' = DOMAIN footer \cup {new - FOOTER_SIZE}
       /\ footer'[new - FOOTER_SIZE] = FooterTag(op.rounded, ALLOCATED)
       /\ footer'[EndOf(header, o) - FOOTER_SIZE] =
            FooterTag(Size(header, o) - op.rounded, UNALLOCATED)
       /\ \A f \in DOMAIN footer \ {new - FOOTER_SIZE, EndOf(header, o) - FOOTER_SIZE} :
            footer'[f] = footer[f]
       /\ footer' \in [DOMAIN footer' -> FooterTags]
  <2>1. op.rounded # Size(header, o) /\ o + Size(header, o) - FOOTER_SIZE \in DOMAIN footer
    BY <1>2, <1>5, Constants DEF FooterAt
  <2> DEFINE t3 == FooterTag(op.rounded, ALLOCATED)
             t4 == FooterTag(Size(header, o) - op.rounded, UNALLOCATED)
             a == new - FOOTER_SIZE
             b == EndOf(header, o) - FOOTER_SIZE
  <2>2. FooterAt(o, op.rounded) = a /\ FooterAt(o, Size(header, o)) = b /\ a # b
        /\ b \in DOMAIN footer
    BY <1>2, <1>5, <1>6, <1>8, Constants DEF FooterAt
  <2>3. footer' = Store(Store(footer, b, t4), a, t3)
    BY <1>1, <2>2 DEF SplitFooters
  <2>4. t3 \in FooterTags /\ t4 \in FooterTags
    BY <1>2, <1>5 DEF FooterTags, FooterTag
  <2> HIDE DEF a, b, t3, t4
  <2>5. /\ footer' \in [DOMAIN footer \cup {a} -> FooterTags]
        /\ footer'[a] = t3 /\ footer'[b] = t4
        /\ \A x \in DOMAIN footer \ {a, b} : footer'[x] = footer[x]
    BY <1>3, <2>2, <2>3, <2>4 DEF Store
  <2> QED BY <2>5 DEF a, b, t3, t4
<1>17. /\ Shape(header', footer', chunks, program_break)
       /\ ObjectsOf(header', chunks) = O \cup {new}
  <2>1. Size(header', o) = op.rounded /\ Status(header', o) = ALLOCATED
        /\ Size(header', new) = Size(header, o) - op.rounded /\ Status(header', new) = UNALLOCATED
    BY <1>14 DEF Size, Status
  <2>2. \A x \in DOMAIN header \ {o} : Size(header', x) = Size(header, x) /\ Status(header', x) = Status(header, x)
    BY <1>15 DEF Size, Status
  <2>3. /\ DOMAIN header' = DOMAIN header \cup {o + op.rounded}
        /\ Size(header', o + op.rounded) = Size(header, o) - op.rounded
        /\ Status(header', o + op.rounded) = UNALLOCATED
        /\ DOMAIN footer' = DOMAIN footer \cup {o + op.rounded - FOOTER_SIZE}
        /\ footer'[o + op.rounded - FOOTER_SIZE] = FooterTag(op.rounded, ALLOCATED)
        /\ \A f \in DOMAIN footer \ {o + op.rounded - FOOTER_SIZE, EndOf(header, o) - FOOTER_SIZE} :
              footer'[f] = footer[f]
    <3>1. o + op.rounded - FOOTER_SIZE = new - FOOTER_SIZE
      BY <1>2, <1>8, Constants
    <3> QED BY <1>8, <1>13, <1>16, <2>1, <3>1
  <2>4. ObjectsOf(header', chunks) = O \cup {o + op.rounded} /\ Shape(header', footer', chunks, program_break)
    <3>1. /\ Shape(header, footer, chunks, program_break) /\ o \in O
          /\ op.rounded \in Int /\ op.rounded % SIZE_PRECISION = 0 /\ op.rounded >= MinSize
          /\ Size(header, o) - op.rounded >= MinSize
          /\ ALLOCATED \in {UNALLOCATED, ALLOCATED} /\ UNALLOCATED \in {UNALLOCATED, ALLOCATED}
      BY <1>2, <1>3, <1>5
    <3>2. Splits(header, footer, o, op.rounded, ALLOCATED, UNALLOCATED, header', footer')
      BY <1>16, <2>1, <2>2, <2>3 DEF Splits
    <3> QED BY <3>1, <3>2, SplitShape
  <2> QED BY <1>8, <2>4
<1>18. FreeOf(header', chunks) = (F \ {o}) \cup {new}
  BY <1>2, <1>3, <1>7, <1>14, <1>15, <1>17 DEF FreeOf, Status, ALLOCATED, UNALLOCATED
<1>19. \A x \in DOMAIN header \ {o} : EndOf(header', x) = EndOf(header, x)
  BY <1>15 DEF EndOf
<1>20. EndOf(header', new) = EndOf(header, o)
  BY <1>2, <1>5, <1>6, <1>8, <1>14 DEF EndOf
<1>21. Merged(header', chunks)
  <2> SUFFICES ASSUME NEW x \in (F \ {o}) \cup {new}
        PROVE EndOf(header', x) \notin (F \ {o}) \cup {new}
    BY <1>18 DEF Merged
  <2>1. CASE x = new
    BY <1>2, <1>3, <1>6, <1>20, <2>1 DEF Merged
  <2>2. CASE x # new
    <3>1. x \in F /\ x \in O /\ x \in DOMAIN header \ {o}
      BY <1>3, <2>2
    <3>2. EndOf(header, x) \notin F /\ EndOf(header, x) \in DOMAIN header
      BY <1>3, <3>1 DEF Merged, Shape, Tiled
    <3> QED BY <1>7, <1>19, <3>1, <3>2
  <2> QED BY <2>1, <2>2
<1>22. List(header', (F \ {o}) \cup {new})
  <2>1. header'[p].next = new /\ header'[n].prev = new
    BY <1>4, <1>11, <1>12
  <2>5. F \subseteq DOMAIN header /\ Members(F) \subseteq DOMAIN header
    BY <1>3, ListMembers
  <2>2. /\ \A m \in Members(F) \ {o, p} : header'[m].next = header[m].next
        /\ \A m \in Members(F) \ {o, n} : header'[m].prev = header[m].prev
    BY <1>11, <1>12, <2>5
  <2>3. \A x \in DOMAIN header' \ ((Members(F) \ {o}) \cup {new}) : header'[x].next = NULL /\ header'[x].prev = NULL
    <3>1. \A x \in DOMAIN header \ Members(F) : header[x].next = NULL /\ header[x].prev = NULL
      BY <1>3 DEF List
    <3> QED BY <1>4, <1>11, <1>12, <1>13, <1>14, <3>1
  <2>4. (Members(F) \ {o}) \cup {new} \subseteq DOMAIN header'
    BY <1>13, <2>5
  <2>6. n = free_list_sentinel \/ new < n
    <3>1. n \in Int /\ (n < o \/ EndOf(header, o) <= n)
      BY <1>2, <1>3, <1>4, Apart
    <3> QED BY <1>2, <1>4, <1>5, <1>6, <3>1
  <2>7. new \notin F /\ p < new /\ new > free_list_sentinel
    BY <1>2, <1>4, <1>6, <1>7, <2>5, Constants
  <2>8. Replaces(header, F, p, n, o, new, header')
    BY <1>14, <2>1, <2>2, <2>3, <2>4 DEF Replaces
  <2> QED BY <1>2, <1>3, <1>6, <1>8, <2>6, <2>7, <2>8, ListReplace
<1>23. HeapInv'
  <2>1. Listed' = (F \ {o}) \cup {new}
    BY <1>1, <1>18, HeapNames DEF Listed, Free, Objects, FreeOf, ObjectsOf, Fences, Status, NoCall
  <2>2. header'[free_list_sentinel].object_size = 0 /\ header'[free_list_sentinel].status = SENTINEL
    BY <1>3, <1>4, <1>15
  <2> QED BY <1>1, <1>3, <1>13, <1>16, <1>17, <1>21, <1>22, <2>1, <2>2 DEF HeapInv, FooterTags
<1>24. ProgramInv'
  <2>1. \A x \in O : x \in Int
    BY <1>3
  <2>2. (O \cup {new}) \ ((F \ {o}) \cup {new}) = (O \ F) \cup {o}
    BY <1>2, <1>3, <1>7
  <2>3. \A x \in (O \ F) \ {o} : Size(header', x) = Size(header, x)
    BY <1>3, <1>15 DEF Size
  <2>4. request <= Size(header', o) - HEADER_SIZE - FOOTER_SIZE
    BY <1>2, <1>14 DEF Size
  <2>5. result' \in HeapAddresses
    BY <1>1, <1>2, <1>3, PayloadInHeap DEF o
  <2>7. ObjectsOf(header', chunks) \ FreeOf(header', chunks) = (O \ F) \cup {o}
    BY <1>17, <1>18, <2>2
  <2>8. /\ Holds(header', chunks, live')
        /\ live' \in [DOMAIN live' -> Requests]
    <3>1. /\ live \in [DOMAIN live -> Requests] /\ Holds(header, chunks, live)
          /\ o \in Int /\ request \in Requests /\ live' = Store(live, o + HEADER_SIZE, request)
      BY <1>1, <1>2, <1>3
    <3> QED BY <2>1, <2>3, <2>4, <2>7, <3>1, HandsOut
  <2> QED BY <1>1, <1>2, <2>5, <2>8 DEF ProgramInv
<1>25. OpInv'
  BY <1>1 DEF OpInv
<1> QED BY <1>23, <1>24, <1>25 DEF Inv

\* Steps that change no tag keep the invariant of the heap.
LEMMA HeapStays ==
  ASSUME HeapInv, UNCHANGED <<header, footer, program_break, chunks>>,
         Listed' = Listed
  PROVE  HeapInv'
BY DEF HeapInv

\* Between calls every free object is on the list.
LEMMA IdleOp ==
  ASSUME Inv, Idle
  PROVE  op = NoCall /\ Listed = FreeOf(header, chunks)
<1>1. op.kind = "idle"
  BY DEF Idle
<1>2. op = NoCall
  BY <1>1 DEF Inv, OpInv, Fault, Inserting
<1> QED BY <1>1, <1>2, HeapNames

\* allocate_object refuses a request.
LEMMA AllocateTooLargeStep ==
  ASSUME Inv, Idle, NEW size \in Requests, AllocateTooLarge(size) PROVE Inv'
<1>1. /\ UNCHANGED <<header, footer, program_break, chunks, live, op>>
      /\ request' = size /\ result' = NULL
  BY DEF AllocateTooLarge, Unaffected
<1>2. op = NoCall
  BY IdleOp
<1>3. Listed' = Listed
  BY <1>1 DEF Listed, Free, Objects
<1>4. HeapInv'
  BY <1>1, <1>3, HeapStays DEF Inv
<1>5. ProgramInv'
  BY <1>1 DEF Inv, ProgramInv, HeapAddresses
<1>6. OpInv'
  BY <1>1, <1>2 DEF OpInv
<1> QED BY <1>4, <1>5, <1>6 DEF Inv

\* allocate_object begins its search.
LEMMA AllocateStartStep ==
  ASSUME Inv, Idle, NEW size \in Requests, AllocateStart(size) PROVE Inv'
<1>1. /\ UNCHANGED <<header, footer, program_break, chunks, live, result>>
      /\ request' = size /\ ~TooLarge(size) /\ op' = Searching(size, FirstListed)
  BY DEF AllocateStart, Unaffected
<1>2. Listed = FreeOf(header, chunks) /\ op = NoCall
  BY IdleOp
<1>6. op'.kind = "search" /\ op'.cursor = header[free_list_sentinel].next
      /\ op'.rounded = RoundedSize(size)
      /\ op' = [kind |-> "search", rounded |-> RoundedSize(size), cursor |-> op'.cursor]
  BY <1>1 DEF Searching, FirstListed
<1>3. Listed' = Listed
  BY <1>1, <1>2, <1>6 DEF Listed, Free, Objects, NoCall
<1>4. HeapInv'
  BY <1>1, <1>3, HeapStays DEF Inv
<1>5. ProgramInv'
  BY <1>1 DEF Inv, ProgramInv, HeapAddresses
<1>7. OpInv'
  <2>1. List(header, Listed)
    BY DEF Inv, HeapInv
  <2>2. /\ header[free_list_sentinel].next \in Members(Listed)
        /\ header[free_list_sentinel].next \in Int
        /\ \A m \in Listed : m \in Int /\ header[free_list_sentinel].next # free_list_sentinel
                             /\ header[free_list_sentinel].next <= m
    BY <2>1, ListOrder, ListMembers
  <2>3. \A m \in Listed : ~(m < op'.cursor \/ op'.cursor = free_list_sentinel)
    BY <1>6, <2>2
  <2>4. op'.cursor \in Members(Listed')
    BY <1>3, <1>6, <2>2
  <2>5. request' \in Requests /\ ~TooLarge(request')
    BY <1>1
  <2>6. TooLarge(request)' <=> TooLarge(request')
    BY DEF TooLarge, RoundedSize
  <2>7. RoundedSize(request)' = RoundedSize(request')
    BY DEF RoundedSize
  <2> QED BY <1>1, <1>3, <1>6, <2>3, <2>4, <2>5, <2>6, <2>7 DEF OpInv
<1> QED BY <1>4, <1>5, <1>7 DEF Inv

\* An iteration of the search.
LEMMA SearchNextStep == Inv /\ SearchNext => Inv'
<1> SUFFICES ASSUME Inv, SearchNext PROVE Inv'
  OBVIOUS
<1>1. /\ AtObject /\ Remainder < 0
      /\ op' = [op EXCEPT !.cursor = header[op.cursor].next]
      /\ UNCHANGED <<header, footer, program_break, chunks, live, request, result>>
  BY DEF SearchNext, Unaffected
<1>2. op.kind = "search" /\ op.cursor # free_list_sentinel
  BY <1>1 DEF AtObject
<1>3. /\ request \in Requests /\ ~TooLarge(request)
      /\ op = [kind |-> "search", rounded |-> RoundedSize(request), cursor |-> op.cursor]
      /\ op.cursor \in Members(Listed)
      /\ \A m \in Listed : m < op.cursor \/ op.cursor = free_list_sentinel => Size(header, m) < op.rounded
  BY <1>2 DEF Inv, OpInv, NoCall, Fault, Inserting
<1>4. /\ op' = [kind |-> "search", rounded |-> RoundedSize(request), cursor |-> op'.cursor]
      /\ op'.kind = "search" /\ op'.rounded = op.rounded /\ op'.cursor = header[op.cursor].next
  BY <1>1, <1>3
<1>5. Listed' = Listed
  BY <1>1, <1>2, <1>4 DEF Listed, Free, Objects
<1>6. HeapInv'
  BY <1>1, <1>5, HeapStays DEF Inv
<1>7. ProgramInv'
  BY <1>1 DEF Inv, ProgramInv, HeapAddresses
<1>8. OpInv'
  <2>1. List(header, Listed)
    BY DEF Inv, HeapInv
  <2>2. /\ op'.cursor \in Members(Listed) /\ op.cursor \in Int /\ op'.cursor \in Int
        /\ \A x \in Listed : x \in Int /\ (x > op.cursor => op'.cursor # free_list_sentinel /\ op'.cursor <= x)
    BY <1>3, <1>4, <2>1, ListOrder
  <2>3. Size(header, op.cursor) < op.rounded
    <3>1. Size(header, op.cursor) \in Int /\ op.rounded \in Int
      BY <1>1, SearchFacts, HeapFacts, ObjectFacts
    <3> QED BY <1>1, <3>1 DEF Remainder, Size
  <2>4. \A m \in Listed : m < op'.cursor \/ op'.cursor = free_list_sentinel => Size(header, m) < op'.rounded
    BY <1>2, <1>3, <1>4, <2>2, <2>3
  <2>5. \A m \in Listed' : m < op'.cursor \/ op'.cursor = free_list_sentinel => Size(header', m) < op'.rounded
    BY <1>1, <1>5, <2>4
  <2>6. op'.cursor \in Members(Listed') /\ request' = request
    BY <1>1, <1>5, <2>2
  <2> QED BY <1>3, <1>4, <2>5, <2>6 DEF OpInv, TooLarge, RoundedSize
<1> QED BY <1>6, <1>7, <1>8 DEF Inv

\* sbrk fails.
LEMMA GrowRefusedStep == Inv /\ GrowRefused => Inv'
<1> SUFFICES ASSUME Inv, GrowRefused PROVE Inv'
  OBVIOUS
<1>1. /\ op.kind = "search" /\ op' = Fault
      /\ UNCHANGED <<header, footer, program_break, chunks, live, request, result>>
  BY DEF GrowRefused, Unaffected, AtEnd
<1>2. Listed' = Listed
  BY <1>1 DEF Listed, Free, Objects, Fault
<1>3. HeapInv'
  BY <1>1, <1>2, HeapStays DEF Inv
<1>4. ProgramInv'
  BY <1>1 DEF Inv, ProgramInv, HeapAddresses
<1>5. OpInv'
  BY <1>1 DEF OpInv
<1> QED BY <1>3, <1>4, <1>5 DEF Inv

\* The state of free_object while it looks for the place of an object.
LEMMA InsertFacts ==
  ASSUME Inv, op.kind = "insert"
  PROVE  /\ op = Inserting(op.object, op.cursor)
         /\ op.object \in FreeOf(header, chunks)
         /\ op.cursor \in Members(Listed) /\ op.cursor < op.object
         /\ Listed = FreeOf(header, chunks) \ {op.object}
<1>1. /\ op = Inserting(op.object, op.cursor)
      /\ op.object \in Free
      /\ op.cursor \in Members(Listed)
      /\ op.cursor < op.object
  BY DEF Inv, OpInv, NoCall, Fault
<1> QED BY <1>1, HeapNames DEF Listed

\* An iteration of the loop of free_object.
LEMMA InsertNextStep == Inv /\ InsertNext => Inv'
<1> SUFFICES ASSUME Inv, InsertNext PROVE Inv'
  OBVIOUS
<1>1. /\ op.kind = "insert" /\ ~PlaceFound
      /\ op' = [op EXCEPT !.cursor = header[op.cursor].next]
      /\ UNCHANGED <<header, footer, program_break, chunks, live, request, result>>
  BY DEF InsertNext, Unaffected
<1>2. /\ op = Inserting(op.object, op.cursor)
      /\ op.object \in FreeOf(header, chunks)
      /\ op.cursor \in Members(Listed) /\ op.cursor < op.object
      /\ Listed = FreeOf(header, chunks) \ {op.object}
  BY <1>1, InsertFacts
<1>3. /\ op' = Inserting(op'.object, op'.cursor) /\ op'.kind = "insert"
      /\ op'.object = op.object /\ op'.cursor = header[op.cursor].next
  BY <1>1, <1>2 DEF Inserting
<1>4. Listed' = Listed
  BY <1>1, <1>3 DEF Listed, Free, Objects
<1>5. HeapInv'
  BY <1>1, <1>4, HeapStays DEF Inv
<1>6. ProgramInv'
  BY <1>1 DEF Inv, ProgramInv, HeapAddresses
<1>7. op'.cursor \in Members(Listed) /\ op'.cursor < op'.object
  <2>1. List(header, Listed)
    BY HeapFacts
  <2>2. op'.cursor \in Members(Listed) /\ op'.cursor \in Int /\ op.object \in Int
        /\ op.object \notin Members(Listed)
    BY <1>2, <1>3, <2>1, ListOrder, HeapFacts DEF Members
  <2>3. op'.cursor # free_list_sentinel /\ ~(op.object < op'.cursor)
    BY <1>1, <1>2, <1>3 DEF PlaceFound
  <2> QED BY <1>3, <2>2, <2>3
<1>8. op'.object \in Free'
  BY <1>1, <1>2, <1>3, HeapNames DEF Free, Objects
<1>9. OpInv'
  BY <1>3, <1>4, <1>7, <1>8 DEF OpInv
<1> QED BY <1>5, <1>6, <1>9 DEF Inv

\* free_object links the object in.
LEMMA InsertLinkStep == Inv /\ InsertLink => Inv'
<1> SUFFICES ASSUME Inv, InsertLink PROVE Inv'
  OBVIOUS
<1> DEFINE o == op.object
           p == op.cursor
           n == header[p].next
           O == ObjectsOf(header, chunks)
           F == FreeOf(header, chunks)
           L == Listed
           lk == Linked(header, p, n, o)
           g == [lk EXCEPT ![o].next = n]
<1>1. /\ op.kind = "insert" /\ PlaceFound
      /\ header' = [g EXCEPT ![o].prev = p]
      /\ op' = NoCall
      /\ UNCHANGED <<footer, program_break, chunks, live, request, result>>
  BY DEF InsertLink, Unaffected
<1>2. /\ o \in F /\ p \in Members(L) /\ p < o /\ L = F \ {o}
  BY <1>1, InsertFacts
<1>3. /\ header \in [DOMAIN header -> HeaderTags] /\ Shape(header, footer, chunks, program_break)
      /\ Merged(header, chunks) /\ List(header, L)
      /\ program_break \in Int /\ HeapStart <= program_break /\ program_break <= HeapLimit
      /\ footer \in [DOMAIN footer -> FooterTags]
      /\ free_list_sentinel \in DOMAIN header
      /\ header[free_list_sentinel].object_size = 0
      /\ header[free_list_sentinel].status = SENTINEL
      /\ O \subseteq DOMAIN header /\ F \subseteq O /\ free_list_sentinel \notin O
      /\ DOMAIN header \subseteq Int
  BY HeapFacts
<1>4. /\ p \in DOMAIN header /\ n \in Members(L) /\ n \in DOMAIN header /\ o \in DOMAIN header
      /\ o \in Int /\ o \notin Members(L) /\ p \in Int /\ n \in Int
      /\ n = free_list_sentinel \/ o < n
      /\ free_list_sentinel < o /\ o # p /\ o # n
  <2>1. p \in DOMAIN header /\ n \in Members(L) /\ n \in DOMAIN header /\ p \in Int /\ n \in Int
        /\ p >= free_list_sentinel
    BY <1>2, <1>3, ListMembers, ListOrder
  <2>2. o \in DOMAIN header /\ o \in Int /\ o \notin Members(L)
    BY <1>2, <1>3 DEF Members
  <2>3. n = free_list_sentinel \/ o < n
    BY <1>1 DEF PlaceFound
  <2> QED BY <1>2, <2>1, <2>2, <2>3, Constants
<1>5. lk = Linked(header, p, n, o) /\ n = header[p].next
  OBVIOUS
<1> HIDE DEF o, p, n, lk, L
<1>6. /\ lk \in [DOMAIN header -> HeaderTags] /\ lk[p].next = o /\ lk[n].prev = o
      /\ \A x \in DOMAIN header \ {p} : lk[x].next = header[x].next
      /\ \A x \in DOMAIN header \ {n} : lk[x].prev = header[x].prev
      /\ \A x \in DOMAIN header : lk[x].object_size = header[x].object_size /\ lk[x].status = header[x].status
  <2>1. p \in DOMAIN header /\ n \in DOMAIN header /\ o \in Addresses /\ header \in [DOMAIN header -> HeaderTags]
    BY <1>3, <1>4 DEF Addresses
  <2> QED BY <1>5, <2>1, LinkedFacts
<1>7. /\ g \in [DOMAIN header -> HeaderTags] /\ g[o].next = n
      /\ \A x \in DOMAIN header \ {o} : g[x].next = lk[x].next
      /\ \A x \in DOMAIN header : /\ g[x].prev = lk[x].prev /\ g[x].object_size = lk[x].object_size
                                  /\ g[x].status = lk[x].status
  <2>1. o \in DOMAIN header /\ n \in Addresses /\ lk \in [DOMAIN header -> HeaderTags]
    BY <1>4, <1>6 DEF Addresses
  <2> QED BY <2>1, SetNext
<1> HIDE DEF g
<1>8. /\ header' \in [DOMAIN header -> HeaderTags] /\ header'[o].prev = p
      /\ \A x \in DOMAIN header \ {o} : header'[x].prev = g[x].prev
      /\ \A x \in DOMAIN header : /\ header'[x].next = g[x].next /\ header'[x].object_size = g[x].object_size
                                  /\ header'[x].status = g[x].status
  <2>1. o \in DOMAIN header /\ p \in Addresses /\ g \in [DOMAIN header -> HeaderTags]
    BY <1>4, <1>7 DEF Addresses
  <2> DEFINE h == [g EXCEPT ![o].prev = p]
  <2>2. /\ h \in [DOMAIN header -> HeaderTags] /\ h[o].prev = p
        /\ \A x \in DOMAIN header \ {o} : h[x].prev = g[x].prev
        /\ \A x \in DOMAIN header : /\ h[x].next = g[x].next /\ h[x].object_size = g[x].object_size
                                    /\ h[x].status = g[x].status
    BY <2>1, SetPrev
  <2>3. header' = h
    BY <1>1
  <2> HIDE DEF h
  <2> QED BY <2>2, <2>3
<1>9. DOMAIN header' = DOMAIN header /\ header' \in [DOMAIN header' -> HeaderTags]
  BY <1>8
<1>10. \A x \in DOMAIN header : /\ header'[x].object_size = header[x].object_size
                                /\ header'[x].status = header[x].status
  BY <1>6, <1>7, <1>8
<1>11. /\ Shape(header', footer, chunks, program_break)
       /\ ObjectsOf(header', chunks) = O
  <2>1. \A x \in DOMAIN header : Size(header', x) = Size(header, x) /\ Status(header', x) = Status(header, x)
    BY <1>10 DEF Size, Status
  <2>2. o \in O /\ Status(header, o) = UNALLOCATED /\ o \in DOMAIN header
    BY <1>2, <1>3 DEF FreeOf
  <2>3. footer[EndOf(header, o) - FOOTER_SIZE] = FooterTag(Size(header, o), UNALLOCATED)
    BY <1>3, <2>2, ObjectFacts
  <2>4. Flips(header, footer, o, UNALLOCATED, header', footer)
    BY <1>9, <2>1, <2>2, <2>3 DEF Flips
  <2> QED BY <1>3, <2>2, <2>4, FlipShape
<1>12. FreeOf(header', chunks) = F
  BY <1>3, <1>10, <1>11 DEF FreeOf, Status
<1>13. Merged(header', chunks)
  BY <1>3, <1>10, <1>12 DEF Merged, EndOf
<1>14. List(header', F)
  <2>1. Members(L) \subseteq DOMAIN header
    BY <1>3, ListMembers
  <2>2. header'[o].next = n /\ header'[o].prev = p /\ header'[p].next = o /\ header'[n].prev = o
    BY <1>4, <1>6, <1>7, <1>8
  <2>3. /\ \A m \in Members(L) \ {p} : header'[m].next = header[m].next
        /\ \A m \in Members(L) \ {n} : header'[m].prev = header[m].prev
    BY <1>4, <1>6, <1>7, <1>8, <2>1
  <2>4. \A x \in DOMAIN header \ Members(L) : header[x].next = NULL /\ header[x].prev = NULL
    BY <1>3 DEF List
  <2>5. \A x \in DOMAIN header' \ (Members(L) \cup {o}) : header'[x].next = NULL /\ header'[x].prev = NULL
    <3> SUFFICES ASSUME NEW x \in DOMAIN header, x \notin Members(L), x # o
          PROVE header'[x].next = NULL /\ header'[x].prev = NULL
      BY <1>9
    <3>1. x # p /\ x # n
      BY <1>2, <1>4
    <3>2. header'[x].next = header[x].next /\ header'[x].prev = header[x].prev
      BY <1>6, <1>7, <1>8, <3>1
    <3> QED BY <2>4, <3>2
  <2>6. Inserts(header, L, p, n, o, header')
    BY <1>4, <1>9, <2>1, <2>2, <2>3, <2>5 DEF Inserts
  <2>7. List(header', L \cup {o})
    BY <1>2, <1>3, <1>4, <1>5, <2>6, ListInsert
  <2>8. L \cup {o} = F
    BY <1>2
  <2> QED BY <2>7, <2>8
<1>15. HeapInv'
  <2>1. Listed' = F
    BY <1>1, <1>12, HeapNames DEF Listed, Free, Objects, FreeOf, ObjectsOf, Fences, Status, NoCall
  <2>2. header'[free_list_sentinel].object_size = 0 /\ header'[free_list_sentinel].status = SENTINEL
    BY <1>3, <1>10
  <2> QED BY <1>1, <1>3, <1>9, <1>11, <1>13, <1>14, <2>1, <2>2 DEF HeapInv, FooterTags
<1>16. ProgramInv'
  <2>1. Holds(header', chunks, live)
    <3>1. Holds(header, chunks, live)
      BY HeapFacts
    <3> QED BY <1>3, <1>10, <1>11, <1>12, <3>1 DEF Holds, Size
  <2> QED BY <1>1, <2>1, HeapFacts DEF ProgramInv, HeapAddresses
<1>17. OpInv'
  BY <1>1 DEF OpInv
<1> QED BY <1>15, <1>16, <1>17 DEF Inv

\* The program moves the break.
LEMMA ProgramSbrkStep ==
  ASSUME Inv, Idle, NEW amount \in OtherSbrk, ProgramSbrk(amount) PROVE Inv'
<1>1. /\ program_break + amount + OsBlock <= HeapLimit
      /\ program_break' = program_break + amount
      /\ UNCHANGED <<header, footer, chunks, live, request, result, op>>
  BY DEF ProgramSbrk
<1>2. amount \in Nat
  BY ProgramAssumption
<1>3. Listed' = Listed
  BY <1>1 DEF Listed, Free, Objects
<1>4. program_break' \in Int /\ HeapStart <= program_break' /\ program_break' <= HeapLimit
  BY <1>1, <1>2, HeapFacts, Constants
<1>5. Shape(header', footer', chunks', program_break')
  <2>1. ChunksApart(chunks, program_break) /\ program_break \in Int
    BY HeapFacts DEF Shape
  <2>2. ChunksApart(chunks, program_break')
    BY <1>1, <1>2, <2>1, Constants DEF ChunksApart
  <2> QED BY <1>1, <2>2, HeapFacts DEF Shape
<1>6. HeapInv'
  BY <1>1, <1>3, <1>4, <1>5 DEF Inv, HeapInv
<1>7. ProgramInv'
  BY <1>1 DEF Inv, ProgramInv, HeapAddresses
<1>8. OpInv'
  BY <1>1, IdleOp DEF OpInv
<1> QED BY <1>6, <1>7, <1>8 DEF Inv

\* Nothing happens.
LEMMA StutterStep == Inv /\ UNCHANGED vars => Inv'
<1> SUFFICES ASSUME Inv, UNCHANGED vars PROVE Inv'
  OBVIOUS
<1>1. Listed' = Listed /\ Free' = Free
  BY DEF Listed, Free, Objects, vars
<1>2. HeapInv'
  BY <1>1, HeapStays DEF Inv, vars
<1>3. ProgramInv'
  BY DEF Inv, ProgramInv, HeapAddresses, vars
<1>4. OpInv'
  BY <1>1 DEF Inv, OpInv, vars, TooLarge, RoundedSize, Size
<1> QED BY <1>2, <1>3, <1>4 DEF Inv

\* The state of a search.
LEMMA SearchBasics ==
  ASSUME Inv, op.kind = "search"
  PROVE  /\ request \in Requests /\ ~TooLarge(request)
         /\ op.rounded = RoundedSize(request) /\ op.rounded \in Int
         /\ op.rounded >= MinSize /\ op.rounded % SIZE_PRECISION = 0
         /\ request <= op.rounded - HEADER_SIZE - FOOTER_SIZE
         /\ op.rounded = RealSize \/ RealSize - op.rounded >= MinSize
         /\ Listed = FreeOf(header, chunks) /\ op.cursor \in Members(FreeOf(header, chunks))
<1>1. Listed = FreeOf(header, chunks)
  BY HeapNames
<1>2. /\ request \in Requests /\ ~TooLarge(request)
      /\ op = [kind |-> "search", rounded |-> RoundedSize(request), cursor |-> op.cursor]
      /\ op.cursor \in Members(Listed)
  BY DEF Inv, OpInv, NoCall, Fault, Inserting
<1>3. op.rounded = RoundedSize(request)
  BY <1>2
<1> QED BY <1>1, <1>2, <1>3, RoundedFacts

\* A header stored where there was none.
LEMMA StoreFresh ==
  ASSUME NEW f, NEW a, NEW v, f \in [DOMAIN f -> HeaderTags], a \notin DOMAIN f, v \in HeaderTags
  PROVE  /\ Store(f, a, v) \in [DOMAIN Store(f, a, v) -> HeaderTags]
         /\ a \in DOMAIN Store(f, a, v) /\ Store(f, a, v)[a] = v
         /\ \A x \in DOMAIN f : x \in DOMAIN Store(f, a, v) /\ Store(f, a, v)[x] = f[x]
         /\ \A x \in DOMAIN Store(f, a, v) : x = a \/ x \in DOMAIN f
BY DEF Store

\* A fresh chunk is handed out as one object.
LEMMA GrowWholeStep == Inv /\ GrowWhole => Inv'
<1> SUFFICES ASSUME Inv, GrowWhole PROVE Inv'
  OBVIOUS
<1> DEFINE b == program_break
           o == b + FOOTER_SIZE
           e == o + RealSize
           O == ObjectsOf(header, chunks)
           F == FreeOf(header, chunks)
           ch == chunks \cup {b}
           t0 == HeaderTag(0, ALLOCATED, NULL, NULL)
           t1 == HeaderTag(RealSize, ALLOCATED, NULL, NULL)
           f0 == FooterTag(0, ALLOCATED)
           f1 == FooterTag(RealSize, ALLOCATED)
<1>1. /\ op.kind = "search" /\ op.rounded = RealSize
      /\ b + OsBlock <= HeapLimit
      /\ program_break' = b + OsBlock /\ chunks' = ch
      /\ header' = Store(Store(header, e, t0), o, t1)
      /\ footer' = Store(Store(footer, b, f0), FooterAt(o, RealSize), f1)
      /\ result' = o + HEADER_SIZE
      /\ live' = Store(live, o + HEADER_SIZE, request)
      /\ op' = NoCall /\ request' = request
  BY DEF GrowWhole, AtEnd, SbrkSucceeds, FencedHeader, FencedFooter, Return
<1>2. /\ request \in Requests
      /\ request <= op.rounded - HEADER_SIZE - FOOTER_SIZE
      /\ Listed = F
  BY <1>1, SearchBasics
<1>3. /\ header \in [DOMAIN header -> HeaderTags] /\ Shape(header, footer, chunks, b)
      /\ Merged(header, chunks) /\ List(header, F)
      /\ b \in Int /\ HeapStart <= b /\ b <= HeapLimit
      /\ footer \in [DOMAIN footer -> FooterTags]
      /\ free_list_sentinel \in DOMAIN header
      /\ header[free_list_sentinel].object_size = 0
      /\ header[free_list_sentinel].status = SENTINEL
      /\ O \subseteq DOMAIN header /\ F \subseteq O /\ free_list_sentinel \notin O
      /\ DOMAIN header \subseteq Int
      /\ live \in [DOMAIN live -> Requests] /\ Holds(header, chunks, live)
  BY <1>2, HeapFacts
<1>4. /\ o \in Int /\ e \in Int /\ b < o /\ o < e /\ FooterAt(o, RealSize) = e - FOOTER_SIZE
      /\ o < e - FOOTER_SIZE /\ e < b + OsBlock /\ e - FOOTER_SIZE \in Int
      /\ e = o + RealSize /\ o = b + FOOTER_SIZE
  BY <1>3, Constants DEF FooterAt
<1>5. /\ t0 \in HeaderTags /\ t1 \in HeaderTags /\ f0 \in FooterTags /\ f1 \in FooterTags
  BY Constants DEF HeaderTag, FooterTag, HeaderTags, FooterTags, Addresses
<1>6. /\ \A x \in DOMAIN header : x \in Int /\ x < b
      /\ \A x \in DOMAIN footer : x \in Int /\ x < b
      /\ \A x \in O : x \in Int /\ EndOf(header, x) \in Int /\ EndOf(header, x) < b
  BY <1>3, Below
<1>7. /\ t0.object_size = 0 /\ t0.status = ALLOCATED /\ t0.next = NULL /\ t0.prev = NULL
      /\ t1.object_size = RealSize /\ t1.status = ALLOCATED /\ t1.next = NULL /\ t1.prev = NULL
  BY DEF HeaderTag
<1> HIDE DEF e, t0, t1, f0, f1
<1>8. /\ header' \in [DOMAIN header \cup {o, e} -> HeaderTags]
      /\ header'[o] = t1 /\ header'[e] = t0
      /\ \A x \in DOMAIN header : header'[x] = header[x]
  BY <1>1, <1>3, <1>4, <1>5, <1>6 DEF Store
<1>9. /\ footer' \in [DOMAIN footer \cup {b, e - FOOTER_SIZE} -> FooterTags]
      /\ footer'[b] = f0 /\ footer'[e - FOOTER_SIZE] = f1
      /\ \A x \in DOMAIN footer : footer'[x] = footer[x]
  BY <1>1, <1>3, <1>4, <1>5, <1>6 DEF Store
<1>10. /\ Shape(header', footer', ch, b + OsBlock)
       /\ ObjectsOf(header', ch) = O \cup {o}
       /\ o \notin DOMAIN header
  <2>1. /\ DOMAIN header' = DOMAIN header \cup {o, e}
        /\ Size(header', o) = RealSize /\ Status(header', o) = ALLOCATED
        /\ Size(header', e) = 0 /\ Status(header', e) = ALLOCATED
        /\ \A x \in DOMAIN header : Size(header', x) = Size(header, x) /\ Status(header', x) = Status(header, x)
    BY <1>7, <1>8 DEF Size, Status
  <2>2. /\ DOMAIN footer' = DOMAIN footer \cup {b, o + RealSize - FOOTER_SIZE}
        /\ footer'[b] = FooterTag(0, ALLOCATED)
        /\ footer'[o + RealSize - FOOTER_SIZE] = FooterTag(RealSize, ALLOCATED)
        /\ \A x \in DOMAIN footer : footer'[x] = footer[x]
    <3>1. o + RealSize - FOOTER_SIZE = e - FOOTER_SIZE
      BY <1>4, Constants
    <3> QED BY <1>9, <3>1 DEF f0, f1
  <2>3. Grows(header, footer, b, ALLOCATED, header', footer')
    BY <1>4, <2>1, <2>2 DEF Grows
  <2> QED BY <1>3, <1>4, <2>3, NewChunkShape
<1>11. FreeOf(header', ch) = F
  <2>1. Status(header', o) # UNALLOCATED
    BY <1>7, <1>8 DEF Status, ALLOCATED, UNALLOCATED
  <2> QED BY <1>3, <1>8, <1>10, <2>1 DEF FreeOf, Status
<1>12. Merged(header', ch)
  BY <1>3, <1>8, <1>11 DEF Merged, EndOf
<1>13. List(header', F)
  <2>1. Members(F) \subseteq DOMAIN header
    BY <1>3, ListMembers
  <2>2. \A x \in DOMAIN header \ Members(F) : header[x].next = NULL /\ header[x].prev = NULL
    BY <1>3 DEF List
  <2>3. Members(F) \subseteq DOMAIN header'
        /\ \A m \in Members(F) : header'[m].next = header[m].next /\ header'[m].prev = header[m].prev
    BY <1>8, <2>1
  <2>4. \A x \in DOMAIN header' \ Members(F) : header'[x].next = NULL /\ header'[x].prev = NULL
    BY <1>7, <1>8, <2>2
  <2> QED BY <1>3, <2>3, <2>4, ListStays
<1>14. HeapInv'
  <2>1. Listed' = F
    BY <1>1, <1>11, HeapNames DEF Listed, Free, Objects, FreeOf, ObjectsOf, Fences, Status, NoCall
  <2>2. header'[free_list_sentinel].object_size = 0 /\ header'[free_list_sentinel].status = SENTINEL
        /\ free_list_sentinel \in DOMAIN header'
    BY <1>3, <1>8
  <2>3. header' \in [DOMAIN header' -> HeaderTags] /\ footer' \in [DOMAIN footer' -> FooterTags]
    BY <1>8, <1>9
  <2>4. program_break' \in Int /\ HeapStart <= program_break' /\ program_break' <= HeapLimit
    BY <1>1, <1>3, Constants
  <2> QED BY <1>1, <1>10, <1>12, <1>13, <2>1, <2>2, <2>3, <2>4 DEF HeapInv, FooterTags
<1>15. ProgramInv'
  <2>1. \A x \in O : x \in Int
    BY <1>6
  <2>3. \A x \in (O \ F) \ {o} : Size(header', x) = Size(header, x)
    BY <1>3, <1>8 DEF Size
  <2>4. request <= Size(header', o) - HEADER_SIZE - FOOTER_SIZE
    BY <1>1, <1>2, <1>7, <1>8 DEF Size
  <2>5. result' \in HeapAddresses
    <3>1. o + HEADER_SIZE \in Int /\ HeapStart <= o + HEADER_SIZE /\ o + HEADER_SIZE <= HeapLimit
      BY <1>1, <1>3, <1>4, Constants
    <3> QED BY <1>1, <3>1 DEF HeapAddresses
  <2>6. /\ Holds(header', ch, live')
        /\ live' \in [DOMAIN live' -> Requests]
    <3>1. /\ live \in [DOMAIN live -> Requests] /\ Holds(header, chunks, live)
          /\ o \in Int /\ request \in Requests /\ live' = Store(live, o + HEADER_SIZE, request)
      BY <1>1, <1>2, <1>3, <1>4
    <3>2. ObjectsOf(header', ch) \ FreeOf(header', ch) = (O \ F) \cup {o}
      BY <1>3, <1>10, <1>11
    <3> HIDE DEF o
    <3> QED BY <2>1, <2>3, <2>4, <3>1, <3>2, HandsOut
  <2> QED BY <1>1, <1>2, <2>5, <2>6 DEF ProgramInv
<1>16. OpInv'
  BY <1>1 DEF OpInv
<1> QED BY <1>14, <1>15, <1>16 DEF Inv

\* A fresh chunk is split.
LEMMA GrowSplitStep == Inv /\ GrowSplit => Inv'
<1> SUFFICES ASSUME Inv, GrowSplit PROVE Inv'
  OBVIOUS
<1> DEFINE b == program_break
           o == b + FOOTER_SIZE
           e == o + RealSize
           r == o + op.rounded
           rest == RealSize - op.rounded
           p == header[free_list_sentinel].prev
           lk == Linked(header, p, free_list_sentinel, r)
           O == ObjectsOf(header, chunks)
           F == FreeOf(header, chunks)
           ch == chunks \cup {b}
           t0 == HeaderTag(0, ALLOCATED, NULL, NULL)
           t1 == HeaderTag(op.rounded, ALLOCATED, NULL, NULL)
           t2 == HeaderTag(rest, UNALLOCATED, free_list_sentinel, p)
           t3 == HeaderTag(RealSize, UNALLOCATED, NULL, NULL)
           f0 == FooterTag(0, ALLOCATED)
           f1 == FooterTag(op.rounded, ALLOCATED)
           f2 == FooterTag(rest, UNALLOCATED)
           f3 == FooterTag(RealSize, UNALLOCATED)
           m == r - FOOTER_SIZE
           l == e - FOOTER_SIZE
           hd1 == Store(Store(header, e, t0), o, t3)
           ft1 == Store(Store(footer, b, f0), l, f3)
<1>1. /\ op.kind = "search" /\ op.rounded < RealSize
      /\ b + OsBlock <= HeapLimit
      /\ program_break' = b + OsBlock /\ chunks' = ch
      /\ header' = Store(Store(Store(lk, e, t0), r, t2), o, t1)
      /\ footer' = Store(Store(Store(footer, b, f0), FooterAt(o, RealSize), f2), FooterAt(o, op.rounded), f1)
      /\ result' = o + HEADER_SIZE
      /\ live' = Store(live, o + HEADER_SIZE, request)
      /\ op' = NoCall /\ request' = request
  BY DEF GrowSplit, AtEnd, SbrkSucceeds, FencedHeader, FencedFooter, Return, SplitFooters
<1>2. /\ request \in Requests
      /\ request <= op.rounded - HEADER_SIZE - FOOTER_SIZE
      /\ Listed = F
      /\ op.rounded \in Int /\ op.rounded >= MinSize /\ op.rounded % SIZE_PRECISION = 0
      /\ rest >= MinSize /\ rest \in Int
  <2>1. op.rounded = RealSize \/ rest >= MinSize
    BY <1>1, SearchBasics
  <2>2. op.rounded \in Int
    BY <1>1, SearchBasics
  <2> QED BY <1>1, <2>1, <2>2, SearchBasics, Constants
<1>3. /\ header \in [DOMAIN header -> HeaderTags] /\ Shape(header, footer, chunks, b)
      /\ Merged(header, chunks) /\ List(header, F)
      /\ b \in Int /\ HeapStart <= b /\ b <= HeapLimit
      /\ footer \in [DOMAIN footer -> FooterTags]
      /\ free_list_sentinel \in DOMAIN header
      /\ header[free_list_sentinel].object_size = 0
      /\ header[free_list_sentinel].status = SENTINEL
      /\ O \subseteq DOMAIN header /\ F \subseteq O /\ free_list_sentinel \notin O
      /\ DOMAIN header \subseteq Int
      /\ live \in [DOMAIN live -> Requests] /\ Holds(header, chunks, live)
  BY <1>2, HeapFacts
<1>4. /\ o \in Int /\ e \in Int /\ b < o /\ o < e /\ FooterAt(o, RealSize) = l
      /\ l \in Int /\ m \in Int /\ r \in Int /\ o < r /\ r < e /\ FooterAt(o, op.rounded) = m
      /\ o < m /\ m < r /\ r < l
      /\ e < b + OsBlock
      /\ e = o + RealSize /\ o = b + FOOTER_SIZE /\ r = o + op.rounded /\ rest = RealSize - op.rounded
      /\ m = r - FOOTER_SIZE /\ l = e - FOOTER_SIZE
  BY <1>2, <1>3, Constants DEF FooterAt
<1>5. p \in Members(F) /\ p \in DOMAIN header /\ header[p].next = free_list_sentinel /\ p \in Int
  BY <1>3, ListOrder, ListMembers
<1>6. /\ \A x \in DOMAIN header : x \in Int /\ x < b
      /\ \A x \in DOMAIN footer : x \in Int /\ x < b
      /\ \A x \in O : x \in Int /\ EndOf(header, x) \in Int /\ EndOf(header, x) < b
  BY <1>3, Below
<1>7. t0 \in HeaderTags /\ t1 \in HeaderTags /\ t2 \in HeaderTags /\ t3 \in HeaderTags
  <2>1. p \in Addresses /\ free_list_sentinel \in Addresses /\ NULL \in Addresses
    BY <1>5, Constants DEF Addresses
  <2> QED BY <1>2, <2>1, Constants DEF HeaderTag, HeaderTags
<1>8. f0 \in FooterTags /\ f1 \in FooterTags /\ f2 \in FooterTags /\ f3 \in FooterTags
  BY <1>2, Constants DEF FooterTag, FooterTags
<1>9. /\ t0.object_size = 0 /\ t0.status = ALLOCATED /\ t0.next = NULL /\ t0.prev = NULL
      /\ t1.object_size = op.rounded /\ t1.status = ALLOCATED /\ t1.next = NULL /\ t1.prev = NULL
      /\ t2.object_size = rest /\ t2.status = UNALLOCATED /\ t2.next = free_list_sentinel /\ t2.prev = p
      /\ t3.object_size = RealSize /\ t3.status = UNALLOCATED
  BY DEF HeaderTag
<1>10. /\ lk \in [DOMAIN header -> HeaderTags] /\ lk[p].next = r /\ lk[free_list_sentinel].prev = r
       /\ \A x \in DOMAIN header \ {p} : lk[x].next = header[x].next
       /\ \A x \in DOMAIN header \ {free_list_sentinel} : lk[x].prev = header[x].prev
       /\ \A x \in DOMAIN header : lk[x].object_size = header[x].object_size /\ lk[x].status = header[x].status
  <2>1. p \in DOMAIN header /\ free_list_sentinel \in DOMAIN header /\ r \in Addresses /\ header \in [DOMAIN header -> HeaderTags]
    BY <1>3, <1>4, <1>5 DEF Addresses
  <2> HIDE DEF p, r
  <2> QED BY <2>1, LinkedFacts
<1>11. p = header[free_list_sentinel].prev
  OBVIOUS
<1> HIDE DEF e, r, rest, p, lk, t0, t1, t2, t3, f0, f1, f2, f3, m, l
<1>12. /\ header' \in [DOMAIN header \cup {o, r, e} -> HeaderTags]
       /\ header'[o] = t1 /\ header'[r] = t2 /\ header'[e] = t0
       /\ \A x \in DOMAIN header : header'[x] = lk[x]
  <2> DEFINE g1 == Store(lk, e, t0)
             g2 == Store(g1, r, t2)
             D == DOMAIN header
  <2>1. /\ e \notin D /\ r \notin D /\ o \notin D /\ e # r /\ o # e /\ o # r
        /\ DOMAIN lk = D /\ lk \in [DOMAIN lk -> HeaderTags]
    BY <1>3, <1>4, <1>6, <1>10
  <2>2. header' = Store(g2, o, t1)
    BY <1>1
  <2> HIDE DEF D, o
  <2>3. /\ DOMAIN g1 = D \cup {e} /\ g1 \in [DOMAIN g1 -> HeaderTags]
        /\ g1[e] = t0 /\ \A x \in D : g1[x] = lk[x]
    BY <1>7, <2>1, StoreFresh
  <2> HIDE DEF g1
  <2>4. /\ DOMAIN g2 = D \cup {e, r} /\ g2 \in [DOMAIN g2 -> HeaderTags] /\ g2[r] = t2
        /\ \A x \in D \cup {e} : g2[x] = g1[x]
    BY <1>7, <2>1, <2>3, StoreFresh
  <2> HIDE DEF g2
  <2>5. /\ DOMAIN header' = D \cup {o, r, e} /\ header' \in [DOMAIN header' -> HeaderTags]
        /\ header'[o] = t1
        /\ \A x \in D \cup {e, r} : header'[x] = g2[x]
    BY <1>7, <2>1, <2>2, <2>4, StoreFresh
  <2> QED BY <2>3, <2>4, <2>5 DEF D, o
<1>13. /\ footer' \in [DOMAIN footer \cup {b, m, l} -> FooterTags]
       /\ footer'[b] = f0 /\ footer'[m] = f1 /\ footer'[l] = f2
       /\ \A x \in DOMAIN footer : footer'[x] = footer[x]
  BY <1>1, <1>3, <1>4, <1>6, <1>8 DEF Store
<1>14. /\ DOMAIN hd1 = DOMAIN header \cup {o, e}
       /\ hd1[o] = t3 /\ hd1[e] = t0
       /\ \A x \in DOMAIN header : hd1[x] = header[x]
  <2>1. o \notin DOMAIN header /\ e \notin DOMAIN header /\ o # e
    BY <1>3, <1>4, <1>6
  <2> DEFINE g1 == Store(header, e, t0)
  <2>2. DOMAIN g1 = DOMAIN header \cup {e} /\ g1[e] = t0 /\ \A x \in DOMAIN header : g1[x] = header[x]
    BY <2>1 DEF Store
  <2> HIDE DEF g1, o
  <2> QED BY <2>1, <2>2 DEF Store, g1
<1>15. /\ DOMAIN ft1 = DOMAIN footer \cup {b, l}
       /\ ft1[b] = f0 /\ ft1[l] = f3
       /\ \A x \in DOMAIN footer : ft1[x] = footer[x]
  <2>1. b \notin DOMAIN footer /\ l \notin DOMAIN footer /\ b # l
    BY <1>3, <1>4, <1>6
  <2> DEFINE g1 == Store(footer, b, f0)
  <2>2. DOMAIN g1 = DOMAIN footer \cup {b} /\ g1[b] = f0 /\ \A x \in DOMAIN footer : g1[x] = footer[x]
    BY <2>1 DEF Store
  <2> HIDE DEF g1, o
  <2> QED BY <2>1, <2>2 DEF Store, g1
<1> HIDE DEF hd1, ft1
<1>16. /\ Shape(hd1, ft1, ch, b + OsBlock)
       /\ ObjectsOf(hd1, ch) = O \cup {o}
       /\ o \notin DOMAIN header
  <2>1. /\ DOMAIN hd1 = DOMAIN header \cup {o, e}
        /\ Size(hd1, o) = RealSize /\ Status(hd1, o) = UNALLOCATED
        /\ Size(hd1, e) = 0 /\ Status(hd1, e) = ALLOCATED
        /\ \A x \in DOMAIN header : Size(hd1, x) = Size(header, x) /\ Status(hd1, x) = Status(header, x)
    BY <1>9, <1>14 DEF Size, Status
  <2>2. /\ DOMAIN ft1 = DOMAIN footer \cup {b, o + RealSize - FOOTER_SIZE}
        /\ ft1[b] = FooterTag(0, ALLOCATED)
        /\ ft1[o + RealSize - FOOTER_SIZE] = FooterTag(RealSize, UNALLOCATED)
        /\ \A x \in DOMAIN footer : ft1[x] = footer[x]
    <3>1. o + RealSize - FOOTER_SIZE = l
      BY <1>4, Constants
    <3> QED BY <1>15, <3>1 DEF f0, f3
  <2>3. Grows(header, footer, b, UNALLOCATED, hd1, ft1)
    BY <1>4, <2>1, <2>2 DEF Grows
  <2> QED BY <1>3, <1>4, <2>3, NewChunkShape
<1>17. /\ Shape(header', footer', ch, b + OsBlock)
       /\ ObjectsOf(header', ch) = (O \cup {o}) \cup {r}
  <2>1. Size(hd1, o) = RealSize /\ EndOf(hd1, o) = e /\ e - FOOTER_SIZE = l
    BY <1>4, <1>9, <1>14 DEF Size, EndOf
  <2>2. /\ DOMAIN header' = DOMAIN hd1 \cup {r}
        /\ Size(header', o) = op.rounded /\ Status(header', o) = ALLOCATED
        /\ Size(header', r) = Size(hd1, o) - op.rounded /\ Status(header', r) = UNALLOCATED
        /\ \A x \in DOMAIN hd1 \ {o} : Size(header', x) = Size(hd1, x) /\ Status(header', x) = Status(hd1, x)
    BY <1>4, <1>9, <1>10, <1>12, <1>14, <2>1 DEF Size, Status
  <2>3. m \notin {b, l} /\ m \notin DOMAIN footer /\ l \notin DOMAIN footer /\ b # l
    BY <1>3, <1>4, <1>6
  <2>4. /\ DOMAIN footer' = DOMAIN ft1 \cup {m}
        /\ footer'[m] = FooterTag(op.rounded, ALLOCATED)
        /\ footer'[l] = FooterTag(Size(hd1, o) - op.rounded, UNALLOCATED)
        /\ \A x \in DOMAIN ft1 \ {m, l} : footer'[x] = ft1[x]
    <3>1. /\ footer'[m] = FooterTag(op.rounded, ALLOCATED)
          /\ footer'[l] = FooterTag(Size(hd1, o) - op.rounded, UNALLOCATED)
      BY <1>4, <1>13, <2>1 DEF f1, f2
    <3> QED BY <1>13, <1>15, <2>3, <3>1
  <2>5. o + op.rounded = r /\ o + op.rounded - FOOTER_SIZE = m
    BY <1>2, <1>4, Constants
  <2>6. Splits(hd1, ft1, o, op.rounded, ALLOCATED, UNALLOCATED, header', footer')
    BY <2>1, <2>2, <2>4, <2>5 DEF Splits
  <2>7. Size(hd1, o) - op.rounded >= MinSize /\ o \in ObjectsOf(hd1, ch)
    BY <1>2, <1>4, <1>16, <2>1
  <2>8. /\ Shape(header', footer', ch, b + OsBlock)
        /\ ObjectsOf(header', ch) = ObjectsOf(hd1, ch) \cup {o + op.rounded}
    <3> HIDE DEF o, b, ch
    <3> QED BY <1>2, <1>16, <2>6, <2>7, SplitShape
  <2> QED BY <1>16, <2>5, <2>8
<1>18. FreeOf(header', ch) = F \cup {r}
  <2>1. Status(header', o) # UNALLOCATED /\ Status(header', r) = UNALLOCATED
    BY <1>9, <1>12 DEF Status, ALLOCATED, UNALLOCATED
  <2>2. \A x \in O : Status(header', x) = Status(header, x)
    BY <1>3, <1>10, <1>12 DEF Status
  <2> QED BY <1>3, <1>17, <2>1, <2>2 DEF FreeOf
<1>19. Merged(header', ch)
  <2> SUFFICES ASSUME NEW x \in F \cup {r}
        PROVE EndOf(header', x) \notin F \cup {r}
    BY <1>18 DEF Merged
  <2>1. CASE x = r
    <3>1. EndOf(header', r) = e
      BY <1>2, <1>4, <1>9, <1>12, Constants DEF EndOf
    <3>2. e \notin F /\ e # r
      BY <1>3, <1>4, <1>6
    <3> QED BY <2>1, <3>1, <3>2
  <2>2. CASE x \in F
    <3>1. EndOf(header', x) = EndOf(header, x)
      BY <1>3, <1>10, <1>12, <2>2 DEF EndOf
    <3>2. EndOf(header, x) \notin F /\ EndOf(header, x) # r
      BY <1>3, <1>4, <1>6, <2>2 DEF Merged
    <3> QED BY <3>1, <3>2
  <2> QED BY <2>1, <2>2
<1>20. List(header', F \cup {r})
  <2>1. Members(F) \subseteq DOMAIN header /\ free_list_sentinel \in Members(F)
    BY <1>3, ListMembers
  <2>2. \A x \in DOMAIN header \ Members(F) : header[x].next = NULL /\ header[x].prev = NULL
    BY <1>3 DEF List
  <2>3. /\ header'[r].next = free_list_sentinel /\ header'[r].prev = p
        /\ header'[p].next = r /\ header'[free_list_sentinel].prev = r
    BY <1>3, <1>5, <1>9, <1>10, <1>12
  <2>4. /\ \A x \in Members(F) \ {p} : header'[x].next = header[x].next
        /\ \A x \in Members(F) \ {free_list_sentinel} : header'[x].prev = header[x].prev
        /\ Members(F) \cup {r} \subseteq DOMAIN header'
    BY <1>10, <1>12, <2>1
  <2>5. \A x \in DOMAIN header' \ (Members(F) \cup {r}) : header'[x].next = NULL /\ header'[x].prev = NULL
    <3> SUFFICES ASSUME NEW x \in DOMAIN header', x \notin Members(F), x # r
          PROVE header'[x].next = NULL /\ header'[x].prev = NULL
      OBVIOUS
    <3>1. CASE x \in {o, e}
      BY <1>9, <1>12, <3>1
    <3>2. CASE x \in DOMAIN header
      <4>1. x # p /\ x # free_list_sentinel
        BY <1>5, <2>1
      <4> QED BY <1>10, <1>12, <2>2, <3>2, <4>1
    <3> QED BY <1>12, <3>1, <3>2
  <2>6. Inserts(header, F, p, free_list_sentinel, r, header')
    BY <2>3, <2>4, <2>5 DEF Inserts
  <2>7. r \notin Members(F) /\ r > free_list_sentinel /\ p < r
    BY <1>3, <1>4, <1>5, <1>6, <2>1, Constants
  <2> QED BY <1>3, <1>4, <1>5, <2>6, <2>7, ListInsert
<1>21. HeapInv'
  <2>1. Listed' = F \cup {r}
    BY <1>1, <1>18, HeapNames DEF Listed, Free, Objects, FreeOf, ObjectsOf, Fences, Status, NoCall
  <2>2. header'[free_list_sentinel].object_size = 0 /\ header'[free_list_sentinel].status = SENTINEL
        /\ free_list_sentinel \in DOMAIN header'
    BY <1>3, <1>10, <1>12
  <2>3. header' \in [DOMAIN header' -> HeaderTags] /\ footer' \in [DOMAIN footer' -> FooterTags]
    BY <1>12, <1>13
  <2>4. program_break' \in Int /\ HeapStart <= program_break' /\ program_break' <= HeapLimit
    BY <1>1, <1>3, Constants
  <2> QED BY <1>1, <1>17, <1>19, <1>20, <2>1, <2>2, <2>3, <2>4 DEF HeapInv, FooterTags
<1>22. ProgramInv'
  <2>1. \A x \in O : x \in Int
    BY <1>6
  <2>3. \A x \in (O \ F) \ {o} : Size(header', x) = Size(header, x)
    BY <1>3, <1>10, <1>12 DEF Size
  <2>4. request <= Size(header', o) - HEADER_SIZE - FOOTER_SIZE
    BY <1>2, <1>9, <1>12 DEF Size
  <2>5. result' \in HeapAddresses
    <3>1. o + HEADER_SIZE \in Int /\ HeapStart <= o + HEADER_SIZE /\ o + HEADER_SIZE <= HeapLimit
      BY <1>1, <1>3, <1>4, Constants
    <3> QED BY <1>1, <3>1 DEF HeapAddresses
  <2>6. /\ Holds(header', ch, live')
        /\ live' \in [DOMAIN live' -> Requests]
    <3>1. /\ live \in [DOMAIN live -> Requests] /\ Holds(header, chunks, live)
          /\ o \in Int /\ request \in Requests /\ live' = Store(live, o + HEADER_SIZE, request)
      BY <1>1, <1>2, <1>3, <1>4
    <3>2. ObjectsOf(header', ch) \ FreeOf(header', ch) = (O \ F) \cup {o}
      <4>1. r \notin O /\ o # r /\ o \notin F
        BY <1>3, <1>4, <1>6
      <4> QED BY <1>3, <1>17, <1>18, <4>1
    <3> HIDE DEF o
    <3> QED BY <2>1, <2>3, <2>4, <3>1, <3>2, HandsOut
  <2> QED BY <1>1, <1>2, <2>5, <2>6 DEF ProgramInv
<1>23. OpInv'
  BY <1>1 DEF OpInv
<1> QED BY <1>21, <1>22, <1>23 DEF Inv

(***************************************************************************)
(* Each action keeps the invariant: free_object                            *)
(***************************************************************************)

\* What free_object finds at the object of a pointer and on both sides of it.
LEMMA FreeFacts ==
  ASSUME Inv, Idle, NEW ptr \in DOMAIN live, NEW o, o = HeaderOf(ptr)
  PROVE  /\ o \in ObjectsOf(header, chunks) /\ o \notin FreeOf(header, chunks)
         /\ o \in Int /\ ptr = o + HEADER_SIZE /\ Status(header, o) = ALLOCATED
         /\ RightHeader(o) = EndOf(header, o) /\ FooterOf(o) = EndOf(header, o) - FOOTER_SIZE
         /\ LeftFooter(o) = o - FOOTER_SIZE
         /\ Listed = FreeOf(header, chunks)
         /\ LeftIs(o, UNALLOCATED) \/ LeftIs(o, ALLOCATED)
         /\ ~(LeftIs(o, UNALLOCATED) /\ LeftIs(o, ALLOCATED))
         /\ RightIs(o, UNALLOCATED) \/ RightIs(o, ALLOCATED)
         /\ ~(RightIs(o, UNALLOCATED) /\ RightIs(o, ALLOCATED))
         /\ RightIs(o, UNALLOCATED) <=> EndOf(header, o) \in FreeOf(header, chunks)
         /\ LeftIs(o, ALLOCATED) => \A x \in FreeOf(header, chunks) : EndOf(header, x) # o
         /\ LeftIs(o, UNALLOCATED) =>
              /\ LeftHeader(o) \in FreeOf(header, chunks)
              /\ EndOf(header, LeftHeader(o)) = o
              /\ footer[LeftFooter(o)].object_size = Size(header, LeftHeader(o))
<1> DEFINE O == ObjectsOf(header, chunks)
           F == FreeOf(header, chunks)
<1>1. /\ Shape(header, footer, chunks, program_break) /\ program_break \in Int
      /\ HeapStart <= program_break /\ free_list_sentinel \in DOMAIN header
      /\ Holds(header, chunks, live) /\ F \subseteq O
  BY HeapFacts
<1>2. o \in O /\ o \notin F /\ ptr = o + HEADER_SIZE
  <2>1. PICK x \in O \ F : ptr = x + HEADER_SIZE
    BY <1>1 DEF Holds
  <2>2. x \in Int /\ o = x
    BY <1>1, <2>1, ObjectFacts, Constants DEF HeaderOf
  <2> QED BY <2>1, <2>2
<1>3. /\ o \in Int /\ Status(header, o) \in {UNALLOCATED, ALLOCATED}
      /\ EndOf(header, o) = o + Size(header, o) /\ Size(header, o) = header[o].object_size
      /\ Size(header, o) \in Int /\ EndOf(header, o) \in DOMAIN header
      /\ FooterAt(o, Size(header, o)) = EndOf(header, o) - FOOTER_SIZE
  BY <1>1, <1>2, ObjectFacts
<1>4. Status(header, o) = ALLOCATED
  BY <1>2, <1>3 DEF FreeOf
<1>5. /\ RightHeader(o) = EndOf(header, o) /\ FooterOf(o) = EndOf(header, o) - FOOTER_SIZE
      /\ LeftFooter(o) = o - FOOTER_SIZE
  BY <1>3 DEF RightHeader, FooterOf, LeftFooter
<1>6. /\ EndOf(header, o) \in O \/ EndOf(header, o) \in Fences(chunks)
      /\ \/ footer[o - FOOTER_SIZE] = FooterTag(0, ALLOCATED) /\ o - FOOTER_SIZE \in chunks
         \/ \E l \in O : /\ EndOf(header, l) = o /\ l \in Int /\ l = o - Size(header, l)
                         /\ footer[o - FOOTER_SIZE] = FooterTag(Size(header, l), Status(header, l))
  BY <1>1, <1>2, Neighbours
<1>7. /\ RightIs(o, UNALLOCATED) \/ RightIs(o, ALLOCATED)
      /\ ~(RightIs(o, UNALLOCATED) /\ RightIs(o, ALLOCATED))
      /\ RightIs(o, UNALLOCATED) <=> EndOf(header, o) \in F
  <2>1. \A s : RightIs(o, s) <=> Status(header, EndOf(header, o)) = s
    BY <1>5 DEF RightIs, Status
  <2>2. CASE EndOf(header, o) \in O
    BY <1>1, <2>1, <2>2, ObjectFacts DEF FreeOf, ALLOCATED, UNALLOCATED
  <2>3. CASE EndOf(header, o) \in Fences(chunks)
    <3>1. Status(header, EndOf(header, o)) = ALLOCATED
      BY <1>1, <2>3 DEF Shape, Fenced, Fences
    <3>2. EndOf(header, o) \notin F
      BY <2>3 DEF FreeOf, ObjectsOf
    <3> QED BY <2>1, <3>1, <3>2 DEF ALLOCATED, UNALLOCATED
  <2> QED BY <1>6, <2>2, <2>3
<1>8. LeftIs(o, ALLOCATED) => \A x \in F : EndOf(header, x) # o
  <2> SUFFICES ASSUME LeftIs(o, ALLOCATED), NEW x \in F, EndOf(header, x) = o
               PROVE FALSE
    OBVIOUS
  <2>1. footer[o - FOOTER_SIZE] = FooterTag(Size(header, x), Status(header, x))
    BY <1>1, ObjectFacts
  <2>2. Status(header, x) = UNALLOCATED
    BY DEF FreeOf
  <2>3. footer[o - FOOTER_SIZE].status = ALLOCATED
    BY <1>5 DEF LeftIs
  <2> QED BY <2>1, <2>2, <2>3 DEF FooterTag, ALLOCATED, UNALLOCATED
<1>9. CASE footer[o - FOOTER_SIZE] = FooterTag(0, ALLOCATED)
  <2>1. LeftIs(o, ALLOCATED) /\ ~LeftIs(o, UNALLOCATED)
    BY <1>5, <1>9 DEF LeftIs, FooterTag, ALLOCATED, UNALLOCATED
  <2> QED BY <1>2, <1>3, <1>4, <1>5, <1>7, <1>8, <2>1, IdleOp
<1>10. ASSUME NEW l \in O, EndOf(header, l) = o, l \in Int, l = o - Size(header, l),
              footer[o - FOOTER_SIZE] = FooterTag(Size(header, l), Status(header, l))
       PROVE  /\ LeftIs(o, UNALLOCATED) \/ LeftIs(o, ALLOCATED)
              /\ ~(LeftIs(o, UNALLOCATED) /\ LeftIs(o, ALLOCATED))
              /\ LeftIs(o, UNALLOCATED) => l \in F
              /\ LeftHeader(o) = l
              /\ footer[LeftFooter(o)].object_size = Size(header, l)
  <2>1. \A s : LeftIs(o, s) <=> Status(header, l) = s
    BY <1>5, <1>10 DEF LeftIs, FooterTag
  <2>2. Status(header, l) \in {UNALLOCATED, ALLOCATED} /\ Size(header, l) \in Int
    BY <1>1, <1>10, ObjectFacts
  <2>3. footer[LeftFooter(o)].object_size = Size(header, l)
    BY <1>5, <1>10 DEF FooterTag
  <2>4. LeftHeader(o) = l
    <3>1. LeftHeader(o) = (o - FOOTER_SIZE) - Size(header, l) + FOOTER_SIZE
      BY <1>5, <2>3 DEF LeftHeader
    <3> QED BY <1>3, <1>10, <2>2, <3>1, Constants
  <2> QED BY <2>1, <2>2, <2>3, <2>4 DEF FreeOf, ALLOCATED, UNALLOCATED
<1> QED BY <1>2, <1>3, <1>4, <1>5, <1>6, <1>7, <1>8, <1>9, <1>10, IdleOp

\* free_object, case 1.
LEMMA FreeAloneStep ==
  ASSUME Inv, Idle, NEW ptr \in DOMAIN live, FreeAlone(ptr) PROVE Inv'
<1> DEFINE o == HeaderOf(ptr)
           O == ObjectsOf(header, chunks)
           F == FreeOf(header, chunks)
           a == FooterOf(o)
<1>1. /\ live' = Without(live, {ptr})
      /\ ~LeftIs(o, UNALLOCATED) /\ ~RightIs(o, UNALLOCATED)
      /\ header' = [header EXCEPT ![o].status = UNALLOCATED]
      /\ footer' = [footer EXCEPT ![a].status = UNALLOCATED]
      /\ op' = Inserting(o, free_list_sentinel)
      /\ UNCHANGED <<program_break, chunks, request, result>>
  BY DEF FreeAlone, Release, Unaffected
<1> HIDE DEF o, a
<1>2. /\ o \in O /\ o \notin F /\ o \in Int /\ ptr = o + HEADER_SIZE
      /\ a = EndOf(header, o) - FOOTER_SIZE /\ Listed = F
      /\ EndOf(header, o) \notin F
      /\ \A x \in F : EndOf(header, x) # o
  BY <1>1, FreeFacts DEF o, a
<1>3. /\ header \in [DOMAIN header -> HeaderTags] /\ Shape(header, footer, chunks, program_break)
      /\ Merged(header, chunks) /\ List(header, F)
      /\ program_break \in Int /\ HeapStart <= program_break /\ program_break <= HeapLimit
      /\ footer \in [DOMAIN footer -> FooterTags]
      /\ free_list_sentinel \in DOMAIN header
      /\ header[free_list_sentinel].object_size = 0
      /\ header[free_list_sentinel].status = SENTINEL
      /\ O \subseteq DOMAIN header /\ F \subseteq O /\ free_list_sentinel \notin O
      /\ DOMAIN header \subseteq Int
      /\ live \in [DOMAIN live -> Requests] /\ Holds(header, chunks, live)
  BY <1>2, HeapFacts
<1>4. /\ a \in DOMAIN footer /\ footer[a] = FooterTag(Size(header, o), Status(header, o))
      /\ Size(header, o) \in Int /\ EndOf(header, o) # o
  BY <1>2, <1>3, ObjectFacts
<1>5. /\ header' \in [DOMAIN header' -> HeaderTags] /\ DOMAIN header' = DOMAIN header
      /\ header'[o].status = UNALLOCATED
      /\ \A x \in DOMAIN header \ {o} : header'[x].status = header[x].status
      /\ \A x \in DOMAIN header : /\ header'[x].next = header[x].next /\ header'[x].prev = header[x].prev
                                  /\ header'[x].object_size = header[x].object_size
  BY <1>1, <1>2, <1>3 DEF HeaderTags
<1>6. /\ footer' \in [DOMAIN footer' -> FooterTags] /\ DOMAIN footer' = DOMAIN footer
      /\ footer'[a] = FooterTag(Size(header, o), UNALLOCATED)
      /\ \A x \in DOMAIN footer \ {a} : footer'[x] = footer[x]
  BY <1>1, <1>3, <1>4 DEF FooterTags, FooterTag
<1>7. /\ Shape(header', footer', chunks, program_break)
      /\ ObjectsOf(header', chunks) = O
  <2>1. Flips(header, footer, o, UNALLOCATED, header', footer')
    BY <1>2, <1>5, <1>6 DEF Flips, Size, Status
  <2> QED BY <1>2, <1>3, <2>1, FlipShape
<1>8. FreeOf(header', chunks) = F \cup {o}
  BY <1>2, <1>3, <1>5, <1>7 DEF FreeOf, Status
<1>9. Merged(header', chunks)
  <2> SUFFICES ASSUME NEW x \in F \cup {o} PROVE EndOf(header', x) \notin F \cup {o}
    BY <1>8 DEF Merged
  <2>1. EndOf(header', x) = EndOf(header, x)
    BY <1>2, <1>3, <1>5 DEF EndOf
  <2> QED BY <1>2, <1>3, <1>4, <2>1 DEF Merged
<1>10. List(header', F)
  <2>1. Members(F) \subseteq DOMAIN header
    BY <1>3, ListMembers
  <2>2. \A x \in DOMAIN header \ Members(F) : header[x].next = NULL /\ header[x].prev = NULL
    BY <1>3 DEF List
  <2>3. Members(F) \subseteq DOMAIN header'
        /\ \A m \in Members(F) : header'[m].next = header[m].next /\ header'[m].prev = header[m].prev
    BY <1>5, <2>1
  <2>4. \A x \in DOMAIN header' \ Members(F) : header'[x].next = NULL /\ header'[x].prev = NULL
    BY <1>5, <2>2
  <2> QED BY <1>3, <2>3, <2>4, ListStays
<1>11. op'.kind = "insert" /\ op'.object = o /\ op'.cursor = free_list_sentinel
       /\ op' = Inserting(op'.object, op'.cursor)
  BY <1>1 DEF Inserting
<1>12. Listed' = F /\ Free' = F \cup {o}
  <2>1. Free' = F \cup {o}
    BY <1>1, <1>8, HeapNames DEF Free, Objects, FreeOf, ObjectsOf, Fences, Status
  <2> QED BY <1>2, <1>11, <2>1 DEF Listed
<1>13. HeapInv'
  <2>1. header'[free_list_sentinel].object_size = 0 /\ header'[free_list_sentinel].status = SENTINEL
    BY <1>2, <1>3, <1>5
  <2> QED BY <1>1, <1>3, <1>5, <1>6, <1>7, <1>9, <1>10, <1>12, <2>1 DEF HeapInv, FooterTags
<1>14. ProgramInv'
  <2>1. \A x \in O : x \in Int
    BY <1>3
  <2>2. ObjectsOf(header', chunks) \ FreeOf(header', chunks) = (O \ F) \ {o}
    BY <1>7, <1>8
  <2>3. \A x \in (O \ F) \ {o} : Size(header', x) = Size(header, x)
    BY <1>3, <1>5 DEF Size
  <2>4. Holds(header', chunks, live') /\ live' \in [DOMAIN live' -> Requests]
    BY <1>1, <1>2, <1>3, <2>1, <2>2, <2>3, TakesBack
  <2> QED BY <1>1, <2>4, HeapFacts DEF ProgramInv, HeapAddresses
<1>15. OpInv'
  <2>1. free_list_sentinel < o
    BY <1>2, <1>3, Constants DEF Shape, Placed, ChunksApart
  <2> QED BY <1>11, <1>12, <2>1 DEF OpInv, Members
<1> QED BY <1>13, <1>14, <1>15 DEF Inv

\* free_object, case 2: the left neighbour grows.
LEMMA FreeMergeLeftStep ==
  ASSUME Inv, Idle, NEW ptr \in DOMAIN live, FreeMergeLeft(ptr) PROVE Inv'
<1> DEFINE o == HeaderOf(ptr)
           l == LeftHeader(o)
           size == header[l].object_size + header[o].object_size
           O == ObjectsOf(header, chunks)
           F == FreeOf(header, chunks)
           a == LeftFooter(o)
           b == FooterOf(o)
           hd1 == Without(header, {o})
<1>1. /\ live' = Without(live, {ptr})
      /\ LeftIs(o, UNALLOCATED) /\ RightIs(o, ALLOCATED)
      /\ header' = [hd1 EXCEPT ![l].object_size = size]
      /\ footer' = [Without(footer, {a}) EXCEPT ![b] = FooterTag(size, UNALLOCATED)]
      /\ UNCHANGED <<program_break, chunks, request, result, op>>
  BY DEF FreeMergeLeft, Release, Unaffected
<1> HIDE DEF o, a, b, l
<1>2. /\ o \in O /\ o \notin F /\ o \in Int /\ ptr = o + HEADER_SIZE
      /\ a = o - FOOTER_SIZE /\ b = EndOf(header, o) - FOOTER_SIZE /\ Listed = F
      /\ EndOf(header, o) \notin F
      /\ l \in F /\ EndOf(header, l) = o
  BY <1>1, FreeFacts DEF o, a, b, l
<1>3. /\ header \in [DOMAIN header -> HeaderTags] /\ Shape(header, footer, chunks, program_break)
      /\ Merged(header, chunks) /\ List(header, F)
      /\ program_break \in Int /\ HeapStart <= program_break /\ program_break <= HeapLimit
      /\ footer \in [DOMAIN footer -> FooterTags]
      /\ free_list_sentinel \in DOMAIN header
      /\ header[free_list_sentinel].object_size = 0
      /\ header[free_list_sentinel].status = SENTINEL
      /\ O \subseteq DOMAIN header /\ F \subseteq O /\ free_list_sentinel \notin O
      /\ DOMAIN header \subseteq Int
      /\ live \in [DOMAIN live -> Requests] /\ Holds(header, chunks, live)
  BY <1>2, HeapFacts
<1>4. /\ b \in DOMAIN footer /\ Size(header, o) \in Int /\ EndOf(header, o) \in Int
      /\ o < EndOf(header, o) /\ Size(header, o) = header[o].object_size
  BY <1>2, <1>3, ObjectFacts
<1>5. /\ l \in O /\ l \in Int /\ Size(header, l) \in Int /\ l < o /\ a \in DOMAIN footer
      /\ Size(header, l) = header[l].object_size
  BY <1>2, <1>3, ObjectFacts
<1>6. size \in Int /\ size = Size(header, l) + Size(header, o) /\ a # b
  BY <1>2, <1>4, <1>5, Constants
<1> HIDE DEF size
<1>7. /\ hd1 \in [DOMAIN hd1 -> HeaderTags] /\ DOMAIN hd1 = DOMAIN header \ {o}
      /\ \A x \in DOMAIN header \ {o} : hd1[x] = header[x]
  BY <1>3 DEF Without, Restrict
<1> HIDE DEF hd1
<1>8. /\ header' \in [DOMAIN header' -> HeaderTags] /\ DOMAIN header' = DOMAIN header \ {o}
      /\ header'[l].object_size = size
      /\ \A x \in DOMAIN header \ {o, l} : header'[x].object_size = header[x].object_size
      /\ \A x \in DOMAIN header \ {o} : /\ header'[x].next = header[x].next /\ header'[x].prev = header[x].prev
                                        /\ header'[x].status = header[x].status
  <2>1. l \in DOMAIN hd1
    BY <1>3, <1>5, <1>7
  <2>2. /\ header' \in [DOMAIN hd1 -> HeaderTags]
        /\ header'[l].object_size = size
        /\ \A x \in DOMAIN hd1 \ {l} : header'[x].object_size = hd1[x].object_size
        /\ \A x \in DOMAIN hd1 : /\ header'[x].next = hd1[x].next /\ header'[x].prev = hd1[x].prev
                                 /\ header'[x].status = hd1[x].status
    BY <1>1, <1>6, <1>7, <2>1 DEF HeaderTags
  <2> QED BY <1>7, <2>2
<1>9. /\ footer' \in [DOMAIN footer' -> FooterTags] /\ DOMAIN footer' = DOMAIN footer \ {a}
      /\ footer'[b] = FooterTag(size, UNALLOCATED)
      /\ \A x \in DOMAIN footer \ {a, b} : footer'[x] = footer[x]
  <2>1. FooterTag(size, UNALLOCATED) \in FooterTags
    BY <1>6 DEF FooterTags, FooterTag
  <2> QED BY <1>1, <1>3, <1>4, <1>6, <2>1 DEF Without, Restrict
<1>10. /\ Shape(header', footer', chunks, program_break)
       /\ ObjectsOf(header', chunks) = O \ {o}
       /\ EndOf(header', l) = EndOf(header, o)
  <2>1. Merges(header, footer, l, o, UNALLOCATED, header', footer')
    <3>1. Status(header', l) = UNALLOCATED
      BY <1>2, <1>3, <1>5, <1>8 DEF Status, FreeOf
    <3> QED BY <1>2, <1>6, <1>8, <1>9, <3>1 DEF Merges, Size, Status
  <2> QED BY <1>2, <1>3, <1>5, <2>1, MergeShape
<1>11. FreeOf(header', chunks) = F
  BY <1>2, <1>3, <1>8, <1>10 DEF FreeOf, Status
<1>12. Merged(header', chunks)
  <2> SUFFICES ASSUME NEW x \in F PROVE EndOf(header', x) \notin F
    BY <1>11 DEF Merged
  <2>1. CASE x = l
    BY <1>2, <1>10, <2>1
  <2>2. CASE x # l
    <3>1. EndOf(header', x) = EndOf(header, x)
      BY <1>2, <1>3, <1>8, <2>2 DEF EndOf
    <3> QED BY <1>3, <3>1 DEF Merged
  <2> QED BY <2>1, <2>2
<1>13. List(header', F)
  <2>1. Members(F) \subseteq DOMAIN header /\ o \notin Members(F)
    BY <1>2, <1>3, ListMembers
  <2>2. \A x \in DOMAIN header \ Members(F) : header[x].next = NULL /\ header[x].prev = NULL
    BY <1>3 DEF List
  <2>3. Members(F) \subseteq DOMAIN header'
        /\ \A m \in Members(F) : header'[m].next = header[m].next /\ header'[m].prev = header[m].prev
    BY <1>8, <2>1
  <2>4. \A x \in DOMAIN header' \ Members(F) : header'[x].next = NULL /\ header'[x].prev = NULL
    BY <1>8, <2>2
  <2> QED BY <1>3, <2>3, <2>4, ListStays
<1>14. op = NoCall
  BY IdleOp
<1>15. Listed' = F
  BY <1>1, <1>11, <1>14, HeapNames DEF Listed, Free, Objects, FreeOf, ObjectsOf, Fences, Status, NoCall
<1>16. HeapInv'
  <2>1. header'[free_list_sentinel].object_size = 0 /\ header'[free_list_sentinel].status = SENTINEL
        /\ free_list_sentinel \in DOMAIN header'
    BY <1>2, <1>3, <1>5, <1>8
  <2> QED BY <1>1, <1>3, <1>8, <1>9, <1>10, <1>12, <1>13, <1>15, <2>1 DEF HeapInv, FooterTags
<1>17. ProgramInv'
  <2>1. \A x \in O : x \in Int
    BY <1>3
  <2>2. ObjectsOf(header', chunks) \ FreeOf(header', chunks) = (O \ F) \ {o}
    BY <1>10, <1>11
  <2>3. \A x \in (O \ F) \ {o} : Size(header', x) = Size(header, x)
    BY <1>2, <1>3, <1>8 DEF Size
  <2>4. Holds(header', chunks, live') /\ live' \in [DOMAIN live' -> Requests]
    BY <1>1, <1>2, <1>3, <2>1, <2>2, <2>3, TakesBack
  <2> QED BY <1>1, <2>4, HeapFacts DEF ProgramInv, HeapAddresses
<1>18. OpInv'
  BY <1>1, <1>14 DEF OpInv
<1> QED BY <1>16, <1>17, <1>18 DEF Inv

\* free_object, case 3: the object takes the place of its right neighbour.
LEMMA FreeMergeRightStep ==
  ASSUME Inv, Idle, NEW ptr \in DOMAIN live, FreeMergeRight(ptr) PROVE Inv'
<1> DEFINE o == HeaderOf(ptr)
           r == RightHeader(o)
           size == header[o].object_size + header[r].object_size
           n == header[r].next
           p == header[r].prev
           O == ObjectsOf(header, chunks)
           F == FreeOf(header, chunks)
           a == FooterOf(o)
           b == FooterOf(r)
           hd1 == Without(header, {r})
           lk == Linked(hd1, p, n, o)
           t == HeaderTag(size, UNALLOCATED, n, p)
           ft1 == Without(footer, {a})
<1>1. /\ live' = Without(live, {ptr})
      /\ RightIs(o, UNALLOCATED) /\ LeftIs(o, ALLOCATED)
      /\ header' = [lk EXCEPT ![o] = t]
      /\ footer' = [ft1 EXCEPT ![b].object_size = size]
      /\ UNCHANGED <<program_break, chunks, request, result, op>>
  BY DEF FreeMergeRight, Release, Unaffected
<1>p. p = header[r].prev /\ n = header[r].next
  OBVIOUS
<1> HIDE DEF o, a, r, p, n, lk
<1>2. /\ o \in O /\ o \notin F /\ o \in Int /\ ptr = o + HEADER_SIZE
      /\ a = EndOf(header, o) - FOOTER_SIZE /\ Listed = F
      /\ r \in F /\ EndOf(header, o) = r
      /\ \A x \in F : EndOf(header, x) # o
  BY <1>1, FreeFacts DEF o, a, r
<1>3. /\ header \in [DOMAIN header -> HeaderTags] /\ Shape(header, footer, chunks, program_break)
      /\ Merged(header, chunks) /\ List(header, F)
      /\ program_break \in Int /\ HeapStart <= program_break /\ program_break <= HeapLimit
      /\ footer \in [DOMAIN footer -> FooterTags]
      /\ free_list_sentinel \in DOMAIN header
      /\ header[free_list_sentinel].object_size = 0
      /\ header[free_list_sentinel].status = SENTINEL
      /\ O \subseteq DOMAIN header /\ F \subseteq O /\ free_list_sentinel \notin O
      /\ DOMAIN header \subseteq Int
      /\ live \in [DOMAIN live -> Requests] /\ Holds(header, chunks, live)
  BY <1>2, HeapFacts
<1>4. /\ a \in DOMAIN footer /\ Size(header, o) \in Int /\ o < r
      /\ Size(header, o) = header[o].object_size
      /\ r \in O /\ r \in Int /\ Size(header, r) \in Int /\ EndOf(header, r) \in Int
      /\ r < EndOf(header, r) /\ EndOf(header, r) - FOOTER_SIZE \in DOMAIN footer
      /\ Size(header, r) = header[r].object_size
      /\ footer[EndOf(header, r) - FOOTER_SIZE] = FooterTag(Size(header, r), Status(header, r))
      /\ FooterAt(r, Size(header, r)) = EndOf(header, r) - FOOTER_SIZE
  BY <1>2, <1>3, ObjectFacts
<1>5. b = EndOf(header, r) - FOOTER_SIZE
  BY <1>4 DEF FooterOf
<1> HIDE DEF b
<1>6. /\ size \in Int /\ size = Size(header, o) + Size(header, r) /\ a # b
      /\ footer[b] = FooterTag(Size(header, r), UNALLOCATED)
  BY <1>2, <1>4, <1>5, Constants DEF FreeOf
<1> HIDE DEF size
<1>7. /\ p \in Members(F) \ {r} /\ n \in Members(F) \ {r} /\ p \in Int /\ n \in Int
      /\ p < r /\ (n = free_list_sentinel \/ r < n)
  BY <1>2, <1>3, <1>p, Ascending
<1>8. /\ Members(F) \subseteq DOMAIN header /\ o \notin Members(F)
      /\ o # free_list_sentinel /\ free_list_sentinel < o
  <2>1. free_list_sentinel < o
    BY <1>2, <1>3, Constants DEF Shape, Placed, ChunksApart
  <2> QED BY <1>2, <1>3, <2>1, ListMembers
<1>9. p < o
  <2>1. CASE p = free_list_sentinel
    BY <1>8, <2>1
  <2>2. CASE p # free_list_sentinel
    <3>1. p \in DOMAIN header /\ p # o
      BY <1>7, <1>8
    <3>2. p < o \/ EndOf(header, o) <= p
      BY <1>2, <1>3, <3>1, Apart
    <3> QED BY <1>2, <1>4, <1>7, <3>2
  <2> QED BY <2>1, <2>2
<1>10. /\ hd1 \in [DOMAIN hd1 -> HeaderTags] /\ DOMAIN hd1 = DOMAIN header \ {r}
       /\ \A x \in DOMAIN header \ {r} : hd1[x] = header[x]
  BY <1>3 DEF Without, Restrict
<1>11. lk = Linked(hd1, p, n, o) /\ p \in DOMAIN hd1 /\ n \in DOMAIN hd1 /\ o \in Addresses
       /\ o \in DOMAIN hd1
  BY <1>2, <1>3, <1>4, <1>7, <1>8, <1>10 DEF lk, Addresses
<1> HIDE DEF hd1
<1>12. /\ lk \in [DOMAIN hd1 -> HeaderTags] /\ lk[p].next = o /\ lk[n].prev = o
       /\ \A x \in DOMAIN hd1 \ {p} : lk[x].next = hd1[x].next
       /\ \A x \in DOMAIN hd1 \ {n} : lk[x].prev = hd1[x].prev
       /\ \A x \in DOMAIN hd1 : lk[x].object_size = hd1[x].object_size /\ lk[x].status = hd1[x].status
  <2>1. hd1 \in [DOMAIN hd1 -> HeaderTags] /\ lk = Linked(hd1, p, n, o)
    BY <1>10, <1>11
  <2>2. p \in DOMAIN hd1 /\ n \in DOMAIN hd1 /\ o \in Addresses
    BY <1>11
  <2> DEFINE D == DOMAIN hd1
  <2>3. hd1 \in [D -> HeaderTags] /\ p \in D /\ n \in D
    BY <2>1, <2>2
  <2> HIDE DEF D
  <2>4. /\ lk \in [D -> HeaderTags] /\ lk[p].next = o /\ lk[n].prev = o
        /\ \A x \in D \ {p} : lk[x].next = hd1[x].next
        /\ \A x \in D \ {n} : lk[x].prev = hd1[x].prev
        /\ \A x \in D : lk[x].object_size = hd1[x].object_size /\ lk[x].status = hd1[x].status
    BY <2>1, <2>2, <2>3, LinkedFacts
  <2> QED BY <2>4 DEF D
<1>13. /\ t \in HeaderTags /\ t.object_size = size /\ t.status = UNALLOCATED /\ t.next = n /\ t.prev = p
  BY <1>6, <1>7 DEF HeaderTag, HeaderTags, Addresses
<1> HIDE DEF t
<1>14. /\ header' \in [DOMAIN header' -> HeaderTags] /\ DOMAIN header' = DOMAIN hd1
       /\ header'[o] = t
       /\ \A x \in DOMAIN hd1 \ {o} : header'[x] = lk[x]
  BY <1>1, <1>11, <1>12, <1>13
<1>15. /\ DOMAIN header' = DOMAIN header \ {r}
       /\ header'[o].object_size = size /\ header'[o].status = UNALLOCATED
       /\ header'[o].next = n /\ header'[o].prev = p
       /\ \A x \in DOMAIN header \ {o, r} : /\ header'[x].object_size = header[x].object_size
                                            /\ header'[x].status = header[x].status
       /\ \A x \in DOMAIN header \ {o, r, p} : header'[x].next = header[x].next
       /\ \A x \in DOMAIN header \ {o, r, n} : header'[x].prev = header[x].prev
       /\ header'[p].next = o /\ header'[n].prev = o
  <2>1. p # o /\ n # o
    BY <1>7, <1>8
  <2> QED BY <1>10, <1>11, <1>12, <1>13, <1>14, <2>1
<1>16. /\ footer' \in [DOMAIN footer' -> FooterTags] /\ DOMAIN footer' = DOMAIN footer \ {a}
       /\ footer'[b] = FooterTag(size, UNALLOCATED)
       /\ \A x \in DOMAIN footer \ {a, b} : footer'[x] = footer[x]
  <2>1. /\ ft1 \in [DOMAIN ft1 -> FooterTags] /\ DOMAIN ft1 = DOMAIN footer \ {a}
        /\ \A x \in DOMAIN footer \ {a} : ft1[x] = footer[x]
    BY <1>3 DEF Without, Restrict
  <2> HIDE DEF ft1
  <2>2. b \in DOMAIN ft1 /\ ft1[b] = FooterTag(Size(header, r), UNALLOCATED)
    BY <1>4, <1>5, <1>6, <2>1
  <2>3. /\ footer' \in [DOMAIN ft1 -> FooterTags]
        /\ footer'[b] = FooterTag(size, UNALLOCATED)
        /\ \A x \in DOMAIN ft1 \ {b} : footer'[x] = ft1[x]
    BY <1>1, <1>6, <2>1, <2>2 DEF FooterTags, FooterTag
  <2> QED BY <2>1, <2>3
<1>17. /\ Shape(header', footer', chunks, program_break)
       /\ ObjectsOf(header', chunks) = O \ {r}
       /\ EndOf(header', o) = EndOf(header, r)
  <2>1. Merges(header, footer, o, r, UNALLOCATED, header', footer')
    <3>1. r - FOOTER_SIZE = a
      BY <1>2
    <3> QED BY <1>5, <1>6, <1>15, <1>16, <3>1 DEF Merges, Size, Status
  <2> QED BY <1>2, <1>3, <1>4, <2>1, MergeShape
<1>18. FreeOf(header', chunks) = (F \ {r}) \cup {o}
  <2>1. Status(header', o) = UNALLOCATED /\ o \in O \ {r}
    BY <1>2, <1>4, <1>15 DEF Status
  <2>2. \A x \in O \ {o, r} : Status(header', x) = Status(header, x)
    BY <1>3, <1>15 DEF Status
  <2> QED BY <1>3, <1>17, <2>1, <2>2 DEF FreeOf
<1>19. Merged(header', chunks)
  <2> SUFFICES ASSUME NEW x \in (F \ {r}) \cup {o}
               PROVE EndOf(header', x) \notin (F \ {r}) \cup {o}
    BY <1>18 DEF Merged
  <2>1. CASE x = o
    <3>1. EndOf(header, r) \notin F /\ EndOf(header, r) # o
      BY <1>2, <1>3, <1>4 DEF Merged
    <3> QED BY <1>17, <2>1, <3>1
  <2>2. CASE x # o
    <3>1. EndOf(header', x) = EndOf(header, x)
      BY <1>2, <1>3, <1>15, <2>2 DEF EndOf
    <3> QED BY <1>2, <1>3, <2>2, <3>1 DEF Merged
  <2> QED BY <2>1, <2>2
<1>20. List(header', (F \ {r}) \cup {o})
  <2>1. \A x \in DOMAIN header \ Members(F) : header[x].next = NULL /\ header[x].prev = NULL
    BY <1>3 DEF List
  <2>2. /\ (Members(F) \ {r}) \cup {o} \subseteq DOMAIN header'
        /\ \A m \in Members(F) \ {r, p} : header'[m].next = header[m].next
        /\ \A m \in Members(F) \ {r, n} : header'[m].prev = header[m].prev
    BY <1>8, <1>11, <1>14, <1>15
  <2>3. \A x \in DOMAIN header' \ ((Members(F) \ {r}) \cup {o}) : header'[x].next = NULL /\ header'[x].prev = NULL
    <3> SUFFICES ASSUME NEW x \in DOMAIN header, x # r, x # o, x \notin Members(F)
                 PROVE header'[x].next = NULL /\ header'[x].prev = NULL
      BY <1>15
    <3> QED BY <1>7, <1>15, <2>1
  <2>4. Replaces(header, F, p, n, r, o, header')
    BY <1>15, <2>2, <2>3 DEF Replaces
  <2>5. n = free_list_sentinel \/ o < n
    BY <1>2, <1>4, <1>7
  <2> QED BY <1>2, <1>3, <1>p, <1>8, <1>9, <2>4, <2>5, ListReplace
<1>21. op = NoCall
  BY IdleOp
<1>22. Listed' = (F \ {r}) \cup {o}
  BY <1>1, <1>18, <1>21, HeapNames DEF Listed, Free, Objects, FreeOf, ObjectsOf, Fences, Status, NoCall
<1>23. HeapInv'
  <2>1. header'[free_list_sentinel].object_size = 0 /\ header'[free_list_sentinel].status = SENTINEL
        /\ free_list_sentinel \in DOMAIN header'
    BY <1>3, <1>4, <1>8, <1>15
  <2> QED BY <1>1, <1>3, <1>14, <1>16, <1>17, <1>19, <1>20, <1>22, <2>1 DEF HeapInv, FooterTags
<1>24. ProgramInv'
  <2>1. \A x \in O : x \in Int
    BY <1>3
  <2>2. ObjectsOf(header', chunks) \ FreeOf(header', chunks) = (O \ F) \ {o}
    BY <1>2, <1>17, <1>18
  <2>3. \A x \in (O \ F) \ {o} : Size(header', x) = Size(header, x)
    BY <1>2, <1>3, <1>15 DEF Size
  <2>4. Holds(header', chunks, live') /\ live' \in [DOMAIN live' -> Requests]
    BY <1>1, <1>2, <1>3, <2>1, <2>2, <2>3, TakesBack
  <2> QED BY <1>1, <2>4, HeapFacts DEF ProgramInv, HeapAddresses
<1>25. OpInv'
  BY <1>1, <1>21 DEF OpInv
<1> QED BY <1>23, <1>24, <1>25 DEF Inv

\* free_object, case 4.  The step is seen as two merges, of the object with its
\* right neighbour and of the left neighbour with both.
LEMMA FreeMergeBothStep ==
  ASSUME Inv, Idle, NEW ptr \in DOMAIN live, FreeMergeBoth(ptr) PROVE Inv'
<1> DEFINE o == HeaderOf(ptr)
           l == LeftHeader(o)
           r == RightHeader(o)
           size == footer[LeftFooter(o)].object_size + header[o].object_size + header[r].object_size
           both == header[o].object_size + header[r].object_size
           n == header[r].next
           O == ObjectsOf(header, chunks)
           F == FreeOf(header, chunks)
           a == LeftFooter(o)
           b == FooterOf(o)
           c == FooterOf(r)
           hd1 == Without(header, {o, r})
           hd2 == [hd1 EXCEPT ![l].object_size = size]
           hd3 == [hd2 EXCEPT ![l].next = n]
           ft1 == Without(footer, {a, b})
           \* on the way: the object has grown over its right neighbour
           mid == [Without(header, {r}) EXCEPT ![o].object_size = both]
           mft == [Without(footer, {b}) EXCEPT ![c] = FooterTag(both, ALLOCATED)]
<1>1. /\ live' = Without(live, {ptr})
      /\ LeftIs(o, UNALLOCATED) \/ RightIs(o, UNALLOCATED)
      /\ ~(LeftIs(o, UNALLOCATED) /\ RightIs(o, ALLOCATED))
      /\ ~(RightIs(o, UNALLOCATED) /\ LeftIs(o, ALLOCATED))
      /\ header' = [hd3 EXCEPT ![n].prev = l]
      /\ footer' = [ft1 EXCEPT ![c].object_size = size]
      /\ UNCHANGED <<program_break, chunks, request, result, op>>
  BY DEF FreeMergeBoth, Release, Unaffected
<1>n. n = header[r].next
  OBVIOUS
<1> HIDE DEF o, l, r, n, a, b
<1>2. /\ o \in O /\ o \notin F /\ o \in Int /\ ptr = o + HEADER_SIZE
      /\ a = o - FOOTER_SIZE /\ b = EndOf(header, o) - FOOTER_SIZE /\ Listed = F
      /\ r \in F /\ EndOf(header, o) = r
      /\ l \in F /\ EndOf(header, l) = o
      /\ footer[LeftFooter(o)].object_size = Size(header, l)
  BY <1>1, FreeFacts DEF o, a, b, l, r
<1>3. /\ header \in [DOMAIN header -> HeaderTags] /\ Shape(header, footer, chunks, program_break)
      /\ Merged(header, chunks) /\ List(header, F)
      /\ program_break \in Int /\ HeapStart <= program_break /\ program_break <= HeapLimit
      /\ footer \in [DOMAIN footer -> FooterTags]
      /\ free_list_sentinel \in DOMAIN header
      /\ header[free_list_sentinel].object_size = 0
      /\ header[free_list_sentinel].status = SENTINEL
      /\ O \subseteq DOMAIN header /\ F \subseteq O /\ free_list_sentinel \notin O
      /\ DOMAIN header \subseteq Int
      /\ live \in [DOMAIN live -> Requests] /\ Holds(header, chunks, live)
  BY <1>2, HeapFacts
<1>4. /\ b \in DOMAIN footer /\ Size(header, o) \in Int /\ o < r
      /\ Size(header, o) = header[o].object_size /\ Status(header, o) \in {UNALLOCATED, ALLOCATED}
      /\ r \in O /\ r \in Int /\ Size(header, r) \in Int /\ EndOf(header, r) \in Int
      /\ r < EndOf(header, r) /\ EndOf(header, r) - FOOTER_SIZE \in DOMAIN footer
      /\ Size(header, r) = header[r].object_size
      /\ footer[EndOf(header, r) - FOOTER_SIZE] = FooterTag(Size(header, r), Status(header, r))
      /\ FooterAt(r, Size(header, r)) = EndOf(header, r) - FOOTER_SIZE
  BY <1>2, <1>3, ObjectFacts
<1>5. /\ l \in O /\ l \in Int /\ Size(header, l) \in Int /\ l < o /\ a \in DOMAIN footer
      /\ Size(header, l) = header[l].object_size /\ l \in DOMAIN header
  BY <1>2, <1>3, ObjectFacts
<1>6. c = EndOf(header, r) - FOOTER_SIZE
  BY <1>4 DEF FooterOf
<1> HIDE DEF c
<1>7. /\ size \in Int /\ both \in Int /\ size = Size(header, l) + both
      /\ both = Size(header, o) + Size(header, r)
      /\ a # b /\ a # c /\ b # c
      /\ c \in DOMAIN footer /\ footer[c] = FooterTag(Size(header, r), UNALLOCATED)
      /\ Status(header, o) = ALLOCATED
  <2>1. Status(header, r) = UNALLOCATED
    BY <1>2 DEF FreeOf
  <2>2. Status(header, o) # UNALLOCATED
    BY <1>2 DEF FreeOf
  <2> QED BY <1>2, <1>4, <1>5, <1>6, <2>1, <2>2, Constants
<1> HIDE DEF size, both
<1>8. /\ n \in Members(F) \ {r} /\ n \in Int
      /\ n = free_list_sentinel \/ r < n
      /\ Members(F) \subseteq DOMAIN header /\ o \notin Members(F)
      /\ l # free_list_sentinel /\ o # free_list_sentinel /\ r # free_list_sentinel
      /\ r \in Members(F) /\ l \in Members(F)
  BY <1>2, <1>3, <1>n, Ascending, ListMembers
<1>9. n # o /\ n # l /\ n # r /\ n \in DOMAIN header
  <2>1. n # o /\ n # r /\ n \in DOMAIN header
    BY <1>8
  <2>2. CASE n = free_list_sentinel
    BY <1>8, <2>1, <2>2
  <2>3. CASE r < n
    <3>1. l < n
      BY <1>4, <1>5, <1>8, <1>2, <2>3
    <3> QED BY <1>5, <1>8, <2>1, <3>1
  <2> QED BY <1>8, <2>1, <2>2, <2>3
<1>10. header[l].next = r /\ header[r].prev = l
  <2>1. /\ header[l].next # free_list_sentinel /\ header[l].next <= r
        /\ header[l].next > l /\ header[l].next \in Members(F) /\ header[l].next \in Int
        /\ header[header[l].next].prev = l
    BY <1>2, <1>3, <1>4, <1>5, <1>8, ListOrder
  <2> DEFINE x == header[l].next
  <2>2. x \in DOMAIN header /\ x # o /\ x # l /\ x \in Int /\ x > l /\ x <= r
    BY <1>5, <1>8, <2>1
  <2> HIDE DEF x
  <2>3. x < l \/ EndOf(header, l) <= x
    BY <1>3, <1>5, <2>2, Apart
  <2>4. x < o \/ EndOf(header, o) <= x
    BY <1>2, <1>3, <2>2, Apart
  <2>5. x = r
    BY <1>2, <1>4, <1>5, <2>2, <2>3, <2>4
  <2> QED BY <2>1, <2>5 DEF x
<1>11. /\ hd1 \in [DOMAIN hd1 -> HeaderTags] /\ DOMAIN hd1 = DOMAIN header \ {o, r}
       /\ \A x \in DOMAIN header \ {o, r} : hd1[x] = header[x]
  BY <1>3 DEF Without, Restrict
<1> HIDE DEF hd1
<1>12. l \in DOMAIN hd1 /\ n \in DOMAIN hd1
  <2>1. l # o /\ l # r
    BY <1>2, <1>4, <1>5
  <2> QED BY <1>5, <1>9, <1>11, <2>1
<1>13. /\ hd2 \in [DOMAIN hd1 -> HeaderTags] /\ hd2[l].object_size = size
       /\ \A x \in DOMAIN hd1 \ {l} : hd2[x].object_size = hd1[x].object_size
       /\ \A x \in DOMAIN hd1 : /\ hd2[x].next = hd1[x].next /\ hd2[x].prev = hd1[x].prev
                                /\ hd2[x].status = hd1[x].status
  BY <1>7, <1>11, <1>12 DEF HeaderTags
<1> HIDE DEF hd2
<1>14. /\ hd3 \in [DOMAIN hd1 -> HeaderTags] /\ hd3[l].next = n
       /\ \A x \in DOMAIN hd1 \ {l} : hd3[x].next = hd2[x].next
       /\ \A x \in DOMAIN hd1 : /\ hd3[x].object_size = hd2[x].object_size /\ hd3[x].prev = hd2[x].prev
                                /\ hd3[x].status = hd2[x].status
  BY <1>8, <1>12, <1>13 DEF HeaderTags, Addresses
<1> HIDE DEF hd3
<1>15. /\ header' \in [DOMAIN hd1 -> HeaderTags] /\ header'[n].prev = l
       /\ \A x \in DOMAIN hd1 \ {n} : header'[x].prev = hd3[x].prev
       /\ \A x \in DOMAIN hd1 : /\ header'[x].object_size = hd3[x].object_size /\ header'[x].next = hd3[x].next
                                /\ header'[x].status = hd3[x].status
  BY <1>1, <1>5, <1>12, <1>14 DEF HeaderTags, Addresses
<1>16. /\ DOMAIN header' = DOMAIN header \ {o, r} /\ header' \in [DOMAIN header' -> HeaderTags]
       /\ header'[l].object_size = size /\ header'[l].next = n /\ header'[n].prev = l
       /\ \A x \in DOMAIN header \ {o, r, l} : /\ header'[x].object_size = header[x].object_size
                                               /\ header'[x].next = header[x].next
       /\ \A x \in DOMAIN header \ {o, r, n} : header'[x].prev = header[x].prev
       /\ \A x \in DOMAIN header \ {o, r} : header'[x].status = header[x].status
  BY <1>11, <1>12, <1>13, <1>14, <1>15
<1>17. /\ footer' \in [DOMAIN footer' -> FooterTags] /\ DOMAIN footer' = DOMAIN footer \ {a, b}
       /\ footer'[c] = FooterTag(size, UNALLOCATED)
       /\ \A x \in DOMAIN footer \ {a, b, c} : footer'[x] = footer[x]
  <2>1. /\ ft1 \in [DOMAIN ft1 -> FooterTags] /\ DOMAIN ft1 = DOMAIN footer \ {a, b}
        /\ \A x \in DOMAIN footer \ {a, b} : ft1[x] = footer[x]
    BY <1>3 DEF Without, Restrict
  <2> HIDE DEF ft1
  <2>2. c \in DOMAIN ft1 /\ ft1[c] = FooterTag(Size(header, r), UNALLOCATED)
    BY <1>7, <2>1
  <2>3. /\ footer' \in [DOMAIN ft1 -> FooterTags]
        /\ footer'[c] = FooterTag(size, UNALLOCATED)
        /\ \A x \in DOMAIN ft1 \ {c} : footer'[x] = ft1[x]
    BY <1>1, <1>7, <2>1, <2>2 DEF FooterTags, FooterTag
  <2> QED BY <2>1, <2>3
<1>18. /\ DOMAIN mid = DOMAIN header \ {r}
       /\ Size(mid, o) = both /\ Status(mid, o) = ALLOCATED
       /\ \A x \in DOMAIN header \ {o, r} : mid[x] = header[x]
  <2> DEFINE g == Without(header, {r})
  <2>1. /\ g \in [DOMAIN g -> HeaderTags] /\ DOMAIN g = DOMAIN header \ {r}
        /\ \A x \in DOMAIN header \ {r} : g[x] = header[x]
    BY <1>3 DEF Without, Restrict
  <2> HIDE DEF g
  <2>2. o \in DOMAIN g
    BY <1>2, <1>3, <1>4, <2>1
  <2>3. /\ DOMAIN mid = DOMAIN g /\ mid[o].object_size = both /\ mid[o].status = g[o].status
        /\ \A x \in DOMAIN g \ {o} : mid[x] = g[x]
    BY <2>1, <2>2 DEF HeaderTags, g
  <2> QED BY <1>2, <1>7, <2>1, <2>2, <2>3 DEF Size, Status
<1>19. /\ DOMAIN mft = DOMAIN footer \ {b}
       /\ mft[c] = FooterTag(both, ALLOCATED)
       /\ \A x \in DOMAIN footer \ {b, c} : mft[x] = footer[x]
  BY <1>7 DEF Without, Restrict
<1> HIDE DEF mid, mft
<1>20. /\ Shape(mid, mft, chunks, program_break)
       /\ ObjectsOf(mid, chunks) = O \ {r}
       /\ EndOf(mid, o) = EndOf(header, r)
  <2>1. Merges(header, footer, o, r, ALLOCATED, mid, mft)
    <3>1. r - FOOTER_SIZE = b
      BY <1>2
    <3> QED BY <1>6, <1>7, <1>18, <1>19, <3>1 DEF Merges, Size, Status
  <2> QED BY <1>2, <1>3, <1>4, <2>1, MergeShape
<1>21. /\ Shape(header', footer', chunks, program_break)
       /\ ObjectsOf(header', chunks) = (O \ {r}) \ {o}
       /\ EndOf(header', l) = EndOf(header, r)
  <2>1. l # r /\ Size(mid, l) = Size(header, l) /\ EndOf(mid, l) = o
    BY <1>2, <1>4, <1>5, <1>18 DEF Size, EndOf
  <2>2. /\ DOMAIN header' = DOMAIN mid \ {o}
        /\ Size(header', l) = Size(mid, l) + Size(mid, o) /\ Status(header', l) = UNALLOCATED
        /\ \A x \in DOMAIN mid \ {l, o} : Size(header', x) = Size(mid, x) /\ Status(header', x) = Status(mid, x)
    <3>1. Status(header', l) = UNALLOCATED
      BY <1>2, <1>4, <1>5, <1>16 DEF Status, FreeOf
    <3>2. \A x \in DOMAIN mid \ {l, o} : Size(header', x) = Size(mid, x) /\ Status(header', x) = Status(mid, x)
      BY <1>16, <1>18 DEF Size, Status
    <3> QED BY <1>7, <1>16, <1>18, <2>1, <3>1, <3>2 DEF Size
  <2>3. /\ DOMAIN footer' = DOMAIN mft \ {a}
        /\ footer'[c] = FooterTag(Size(mid, l) + Size(mid, o), UNALLOCATED)
        /\ \A x \in DOMAIN mft \ {a, c} : footer'[x] = mft[x]
    BY <1>7, <1>17, <1>18, <1>19, <2>1
  <2>4. Merges(mid, mft, l, o, UNALLOCATED, header', footer')
    BY <1>2, <1>6, <1>20, <2>2, <2>3 DEF Merges
  <2>5. l \in ObjectsOf(mid, chunks) /\ o \in ObjectsOf(mid, chunks)
    BY <1>2, <1>4, <1>5, <1>20, <2>1
  <2> QED BY <1>20, <2>1, <2>4, <2>5, MergeShape
<1>22. FreeOf(header', chunks) = F \ {r}
  <2>1. \A x \in (O \ {r}) \ {o} : Status(header', x) = Status(header, x)
    BY <1>3, <1>16 DEF Status
  <2> QED BY <1>2, <1>3, <1>21, <2>1 DEF FreeOf
<1>23. Merged(header', chunks)
  <2> SUFFICES ASSUME NEW x \in F \ {r} PROVE EndOf(header', x) \notin F
    BY <1>22 DEF Merged
  <2>1. CASE x = l
    BY <1>2, <1>3, <1>21, <2>1 DEF Merged
  <2>2. CASE x # l
    <3>1. EndOf(header', x) = EndOf(header, x)
      BY <1>2, <1>3, <1>16, <2>2 DEF EndOf
    <3> QED BY <1>3, <3>1 DEF Merged
  <2> QED BY <2>1, <2>2
<1>24. List(header', F \ {r})
  <2>1. \A x \in DOMAIN header \ Members(F) : header[x].next = NULL /\ header[x].prev = NULL
    BY <1>3 DEF List
  <2>2. /\ Members(F) \ {r} \subseteq DOMAIN header'
        /\ \A m \in Members(F) \ {r, l} : header'[m].next = header[m].next
        /\ \A m \in Members(F) \ {r, n} : header'[m].prev = header[m].prev
    BY <1>8, <1>16
  <2>3. \A x \in DOMAIN header' \ (Members(F) \ {r}) : header'[x].next = NULL /\ header'[x].prev = NULL
    <3> SUFFICES ASSUME NEW x \in DOMAIN header, x # r, x # o, x \notin Members(F)
                 PROVE header'[x].next = NULL /\ header'[x].prev = NULL
      BY <1>16
    <3>1. x # l /\ x # n
      BY <1>8
    <3> QED BY <1>16, <2>1, <3>1
  <2>4. Removes(header, F, l, n, r, header')
    BY <1>16, <2>2, <2>3 DEF Removes
  <2> QED BY <1>2, <1>3, <1>10, <1>n, <2>4, ListRemove
<1>25. op = NoCall
  BY IdleOp
<1>26. Listed' = F \ {r}
  BY <1>1, <1>22, <1>25, HeapNames DEF Listed, Free, Objects, FreeOf, ObjectsOf, Fences, Status, NoCall
<1>27. HeapInv'
  <2>1. header'[free_list_sentinel].object_size = 0 /\ header'[free_list_sentinel].status = SENTINEL
        /\ free_list_sentinel \in DOMAIN header'
    BY <1>3, <1>8, <1>16
  <2> QED BY <1>1, <1>3, <1>16, <1>17, <1>21, <1>23, <1>24, <1>26, <2>1 DEF HeapInv, FooterTags
<1>28. ProgramInv'
  <2>1. \A x \in O : x \in Int
    BY <1>3
  <2>2. ObjectsOf(header', chunks) \ FreeOf(header', chunks) = (O \ F) \ {o}
    BY <1>2, <1>21, <1>22
  <2>3. \A x \in (O \ F) \ {o} : Size(header', x) = Size(header, x)
    BY <1>2, <1>3, <1>16 DEF Size
  <2>4. Holds(header', chunks, live') /\ live' \in [DOMAIN live' -> Requests]
    BY <1>1, <1>2, <1>3, <2>1, <2>2, <2>3, TakesBack
  <2> QED BY <1>1, <2>4, HeapFacts DEF ProgramInv, HeapAddresses
<1>29. OpInv'
  BY <1>1, <1>25 DEF OpInv
<1> QED BY <1>27, <1>28, <1>29 DEF Inv

(***************************************************************************)
(* The invariant holds                                                     *)
(***************************************************************************)

\* initialize() establishes the invariant: it is a heap without chunks, grown once.
LEMMA InitInv == Init => Inv
<1> SUFFICES ASSUME Init PROVE Inv
  OBVIOUS
<1> DEFINE s == free_list_sentinel
           b == HeapStart
           o == b + FOOTER_SIZE
           e == o + RealSize
           hd0 == [x \in {s} |-> HeaderTag(0, SENTINEL, s, s)]
           ft0 == [x \in {} |-> FooterTag(0, ALLOCATED)]
<1>1. /\ header = [a \in {s, o, e} |->
           IF a = s THEN HeaderTag(0, SENTINEL, o, o)
           ELSE IF a = e THEN HeaderTag(0, ALLOCATED, NULL, NULL)
           ELSE HeaderTag(RealSize, UNALLOCATED, s, s)]
      /\ footer = [a \in {b, FooterAt(o, RealSize)} |->
           IF a = b THEN FooterTag(0, ALLOCATED) ELSE FooterTag(RealSize, UNALLOCATED)]
      /\ program_break = b + OsBlock
      /\ chunks = {b}
      /\ live = [ptr \in {} |-> 0] /\ request = NULL /\ result = NULL /\ op = NoCall
  BY DEF Init
<1>2. /\ b \in Int /\ o \in Int /\ e \in Int /\ s \in Int /\ s < b /\ b < o /\ o < e
      /\ FooterAt(o, RealSize) = e - FOOTER_SIZE /\ o < e - FOOTER_SIZE /\ e - FOOTER_SIZE \in Int
      /\ e = o + RealSize /\ o = b + FOOTER_SIZE /\ o + RealSize - FOOTER_SIZE = e - FOOTER_SIZE
  BY Constants DEF FooterAt
<1> HIDE DEF s, b, o, e
<1>3. /\ DOMAIN header = {s, o, e}
      /\ header[s] = HeaderTag(0, SENTINEL, o, o)
      /\ header[o] = HeaderTag(RealSize, UNALLOCATED, s, s)
      /\ header[e] = HeaderTag(0, ALLOCATED, NULL, NULL)
  BY <1>1, <1>2
<1>4. /\ DOMAIN footer = {b, e - FOOTER_SIZE}
      /\ footer[b] = FooterTag(0, ALLOCATED)
      /\ footer[e - FOOTER_SIZE] = FooterTag(RealSize, UNALLOCATED)
  BY <1>1, <1>2
<1>5. Shape(hd0, ft0, {}, b)
  BY <1>2 DEF Shape, ChunksApart, Fenced, Placed, Tiled, Tagged, NoStrays, ObjectsOf, Fences, s
<1>6. ObjectsOf(hd0, {}) = {}
  BY DEF ObjectsOf, s
<1>7. Grows(hd0, ft0, b, UNALLOCATED, header, footer)
  <2>1. DOMAIN hd0 = {s} /\ hd0[s].object_size = 0 /\ hd0[s].status = SENTINEL /\ DOMAIN ft0 = {}
    BY DEF HeaderTag
  <2>2. /\ DOMAIN header = DOMAIN hd0 \cup {o, o + RealSize}
        /\ Size(header, o) = RealSize /\ Status(header, o) = UNALLOCATED
        /\ Size(header, o + RealSize) = 0 /\ Status(header, o + RealSize) = ALLOCATED
        /\ \A x \in DOMAIN hd0 : Size(header, x) = Size(hd0, x) /\ Status(header, x) = Status(hd0, x)
    BY <1>2, <1>3, <2>1 DEF Size, Status, HeaderTag
  <2> HIDE DEF hd0, ft0
  <2>3. /\ DOMAIN footer = DOMAIN ft0 \cup {b, o + RealSize - FOOTER_SIZE}
        /\ footer[b] = FooterTag(0, ALLOCATED)
        /\ footer[o + RealSize - FOOTER_SIZE] = FooterTag(RealSize, UNALLOCATED)
        /\ \A f \in DOMAIN ft0 : footer[f] = ft0[f]
    BY <1>2, <1>4, <2>1
  <2> QED BY <1>2, <2>2, <2>3 DEF Grows
<1>8. Shape(header, footer, chunks, program_break) /\ ObjectsOf(header, chunks) = {o}
  <2>1. HeapStart <= b
    BY <1>2 DEF b
  <2> HIDE DEF hd0, ft0
  <2>2. /\ Shape(header, footer, {} \cup {b}, b + OsBlock)
        /\ ObjectsOf(header, {} \cup {b}) = ObjectsOf(hd0, {}) \cup {o}
    <3> DEFINE none == {}
    <3>1. Shape(hd0, ft0, none, b) /\ b \in Int /\ o = b + FOOTER_SIZE
      BY <1>2, <1>5
    <3> HIDE DEF none
    <3>2. /\ Shape(header, footer, none \cup {b}, b + OsBlock)
          /\ ObjectsOf(header, none \cup {b}) = ObjectsOf(hd0, none) \cup {o}
      BY <1>7, <2>1, <3>1, NewChunkShape
    <3> QED BY <3>2 DEF none
  <2>3. {} \cup {b} = {b} /\ {} \cup {o} = {o}
    OBVIOUS
  <2> QED BY <1>1, <1>6, <2>2, <2>3
<1>9. FreeOf(header, chunks) = {o}
  BY <1>3, <1>8 DEF FreeOf, Status, HeaderTag
<1>10. Merged(header, chunks)
  <2>1. EndOf(header, o) = e
    BY <1>2, <1>3 DEF EndOf, HeaderTag
  <2> QED BY <1>2, <1>9, <2>1 DEF Merged
<1>11. List(header, {o})
  BY <1>2, <1>3 DEF List, Members, HeaderTag, s
<1>12. HeapInv
  <2>1. header \in [DOMAIN header -> HeaderTags]
    <3>1. /\ HeaderTag(0, SENTINEL, o, o) \in HeaderTags
          /\ HeaderTag(RealSize, UNALLOCATED, s, s) \in HeaderTags
          /\ HeaderTag(0, ALLOCATED, NULL, NULL) \in HeaderTags
      BY <1>2, Constants DEF HeaderTag, HeaderTags, Addresses
    <3> QED BY <1>1, <1>3, <3>1
  <2>2. footer \in [DOMAIN footer -> FooterTags]
    <3>1. FooterTag(0, ALLOCATED) \in FooterTags /\ FooterTag(RealSize, UNALLOCATED) \in FooterTags
      BY Constants DEF FooterTag, FooterTags
    <3> QED BY <1>1, <1>4, <3>1
  <2>3. Listed = {o}
    BY <1>1, <1>9, HeapNames DEF NoCall
  <2>4. program_break \in Int /\ HeapStart <= program_break /\ program_break <= HeapLimit
    BY <1>1, Constants DEF b
  <2>5. s \in DOMAIN header /\ header[s].object_size = 0 /\ header[s].status = SENTINEL
    BY <1>3 DEF HeaderTag
  <2> QED BY <1>8, <1>10, <1>11, <2>1, <2>2, <2>3, <2>4, <2>5 DEF HeapInv, FooterTags, s
<1>13. ProgramInv
  <2>1. Holds(header, chunks, live)
    BY <1>1, <1>8, <1>9 DEF Holds
  <2> QED BY <1>1, <2>1 DEF ProgramInv
<1>14. OpInv
  BY <1>1 DEF OpInv
<1> QED BY <1>12, <1>13, <1>14 DEF Inv

\* Every step keeps the invariant.
LEMMA InvStep == Inv /\ [Next]_vars => Inv'
<1> SUFFICES ASSUME Inv, [Next]_vars PROVE Inv'
  OBVIOUS
<1>1. CASE UNCHANGED vars
  BY <1>1, StutterStep
<1>2. ASSUME NEW size \in Requests, Idle, AllocateObject(size)
      PROVE  Inv'
  BY <1>2, AllocateTooLargeStep, AllocateStartStep DEF AllocateObject
<1>3. ASSUME NEW ptr \in DOMAIN live, Idle, FreeObject(ptr)
      PROVE  Inv'
  BY <1>3, FreeAloneStep, FreeMergeLeftStep, FreeMergeRightStep,
     FreeMergeBothStep DEF FreeObject
<1>4. ASSUME NEW amount \in OtherSbrk, Idle, ProgramSbrk(amount)
      PROVE  Inv'
  BY <1>4, ProgramSbrkStep
<1>5. CASE Continue
  BY <1>5, SearchNextStep, TakeWholeStep, SplitStep, GrowSplitStep,
     GrowWholeStep, GrowRefusedStep, InsertNextStep, InsertLinkStep
     DEF Continue
<1> QED
  BY <1>1, <1>2, <1>3, <1>4, <1>5 DEF Next, Program

\* The heap, the program and the call in progress fit together in every state.
THEOREM HeapInvariant == Spec => []Inv
  BY InitInv, InvStep, PTL DEF Spec

(***************************************************************************)
(* What follows from it                                                    *)
(***************************************************************************)

\* HeapTiled follows from the shape of the heap.
LEMMA InvImpliesTiled == Inv => HeapTiled
<1> SUFFICES ASSUME Inv, NEW object \in Objects
    PROVE /\ header[object].object_size >= MINIMUM_SIZE + HEADER_SIZE + FOOTER_SIZE
          /\ header[object].object_size % SIZE_PRECISION = 0
          /\ RightHeader(object) \in DOMAIN header
          /\ LeftFooter(object) \in DOMAIN footer
          /\ \A other \in DOMAIN header :
               other <= object \/ other >= RightHeader(object)
          /\ \E c \in chunks : StartFencepost(c) < object /\ object < EndFencepost(c)
  BY DEF HeapTiled
<1>1. Shape(header, footer, chunks, program_break) /\ object \in ObjectsOf(header, chunks)
  BY HeapFacts, HeapNames
<1>2. /\ object \in Int /\ Size(header, object) \in Int /\ Size(header, object) >= MinSize
      /\ Size(header, object) = header[object].object_size
      /\ EndOf(header, object) = object + Size(header, object)
      /\ EndOf(header, object) \in DOMAIN header
      /\ EndOf(header, object) \in Int
  BY <1>1, ObjectFacts
<1>3. header[object].object_size % SIZE_PRECISION = 0
  BY <1>1 DEF Shape, Placed, Size
<1>4. RightHeader(object) = EndOf(header, object)
  BY DEF RightHeader, EndOf
<1>5. LeftFooter(object) \in DOMAIN footer
  BY <1>1 DEF Shape, Tagged, LeftFooter
<1>6. \A other \in DOMAIN header :
        other <= object \/ other >= RightHeader(object)
  BY <1>1, <1>2, <1>4, HeapFacts DEF Shape, Tiled
<1>7. \E c \in chunks : StartFencepost(c) < object /\ object < EndFencepost(c)
  <2>1. PICK c \in chunks : c + FOOTER_SIZE <= object /\ EndOf(header, object) <= EndFencepost(c)
    BY <1>1 DEF Shape, Placed
  <2>2. c \in Int /\ EndFencepost(c) \in Int
    BY <1>1, Constants, Fence DEF Shape, ChunksApart
  <2> QED BY <1>2, <2>1, <2>2, Constants DEF StartFencepost
<1>8. header[object].object_size >= MINIMUM_SIZE + HEADER_SIZE + FOOTER_SIZE
  BY <1>2, Constants
<1> QED BY <1>2, <1>3, <1>4, <1>5, <1>6, <1>7, <1>8

\* BoundaryTagsAgree follows from the shape of the heap.
LEMMA InvImpliesTags == Inv => BoundaryTagsAgree
<1> SUFFICES ASSUME Inv PROVE BoundaryTagsAgree
  OBVIOUS
<1>1. Shape(header, footer, chunks, program_break) /\ Objects = ObjectsOf(header, chunks)
  BY HeapFacts, HeapNames
<1>2. \A object \in Objects :
       /\ FooterOf(object) = EndOf(header, object) - FOOTER_SIZE
       /\ FooterOf(object) \in DOMAIN footer
       /\ footer[FooterOf(object)] =
            FooterTag(header[object].object_size, header[object].status)
  <2> SUFFICES ASSUME NEW object \in ObjectsOf(header, chunks)
      PROVE /\ FooterOf(object) = EndOf(header, object) - FOOTER_SIZE
            /\ FooterOf(object) \in DOMAIN footer
            /\ footer[FooterOf(object)] =
                  FooterTag(header[object].object_size, header[object].status)
    BY <1>1
  <2> QED BY <1>1, ObjectFacts DEF FooterOf
<1>3. \A f \in DOMAIN footer \ chunks : \E object \in Objects : FooterOf(object) = f
  BY <1>1, <1>2 DEF Shape, NoStrays
<1>4. ASSUME NEW c \in chunks
      PROVE  /\ {StartFencepost(c)} \subseteq DOMAIN footer
             /\ footer[StartFencepost(c)] = FooterTag(0, ALLOCATED)
             /\ EndFencepost(c) \in DOMAIN header
             /\ header[EndFencepost(c)] = HeaderTag(0, ALLOCATED, NULL, NULL)
  <2>1. /\ c \in DOMAIN footer
        /\ footer[c] = FooterTag(0, ALLOCATED)
        /\ EndFencepost(c) \in DOMAIN header
        /\ header[EndFencepost(c)].object_size = 0
        /\ header[EndFencepost(c)].status = ALLOCATED
    BY <1>1 DEF Shape, Fenced, Size, Status
  <2>2. EndFencepost(c) \notin Members(Listed)
    <3>1. EndFencepost(c) \notin Objects
      BY <1>1 DEF ObjectsOf, Fences
    <3>2. Listed \subseteq Objects
      BY DEF Listed, Free
    <3>3. header[free_list_sentinel].status = SENTINEL
      BY HeapFacts
    <3> QED BY <2>1, <3>1, <3>2, <3>3 DEF Members, ALLOCATED, SENTINEL
  <2>3. header[EndFencepost(c)].next = NULL /\ header[EndFencepost(c)].prev = NULL
    BY <2>1, <2>2, HeapFacts DEF List
  <2>4. header[EndFencepost(c)] \in HeaderTags
    BY <2>1, HeapFacts
  <2> QED BY <2>1, <2>3, <2>4 DEF StartFencepost, HeaderTags, HeaderTag
<1> QED BY <1>2, <1>3, <1>4 DEF BoundaryTagsAgree

\* FreeListAscending follows from the list.
LEMMA InvImpliesList == Inv => FreeListAscending
<1> SUFFICES ASSUME Inv PROVE FreeListAscending
  OBVIOUS
<1>1. List(header, Listed)
  BY HeapFacts
<1> QED BY <1>1 DEF List, Members, FreeListAscending

\* Coalesced is a part of the invariant.
LEMMA InvImpliesCoalesced == Inv => Coalesced
BY HeapFacts, HeapNames DEF Coalesced, Merged, EndOf, RightHeader

\* AllocatedIsLive follows from what the program holds and from the shape.
LEMMA InvImpliesLive == Inv => AllocatedIsLive
<1> SUFFICES ASSUME Inv PROVE AllocatedIsLive
  OBVIOUS
<1> DEFINE O == ObjectsOf(header, chunks)
           F == FreeOf(header, chunks)
<1>1. /\ Shape(header, footer, chunks, program_break) /\ Objects = O /\ Free = F
      /\ Holds(header, chunks, live) /\ live \in [DOMAIN live -> Requests]
  BY HeapFacts, HeapNames
<1>2. \A o \in O : o \in Int
  BY <1>1 DEF Shape, Placed
<1>3. \A ptr \in DOMAIN live : /\ HeaderOf(ptr) \in O \ F /\ ptr = HeaderOf(ptr) + HEADER_SIZE
                               /\ HeaderOf(ptr) \in Int
  BY <1>1, <1>2, Constants DEF Holds, HeaderOf
<1>4. \A o \in O \ F : o + HEADER_SIZE \in DOMAIN live /\ HeaderOf(o + HEADER_SIZE) = o
  BY <1>1, <1>2, Constants DEF Holds, HeaderOf
<1>5. {HeaderOf(ptr) : ptr \in DOMAIN live} = Objects \ Free
  BY <1>1, <1>3, <1>4
<1>6. ASSUME NEW ptr \in DOMAIN live
      PROVE  LET last == ptr + live[ptr] - 1
             IN /\ live[ptr] <= header[HeaderOf(ptr)].object_size - HEADER_SIZE - FOOTER_SIZE
                /\ \A h \in DOMAIN header : h + HEADER_SIZE <= ptr \/ h > last
                /\ \A f \in DOMAIN footer : f + FOOTER_SIZE <= ptr \/ f > last
  <2> DEFINE o == HeaderOf(ptr)
  <2>1. o \in O \ F /\ ptr = o + HEADER_SIZE /\ o \in Int /\ live[ptr] \in Nat
    BY <1>1, <1>3, ProgramAssumption
  <2> HIDE DEF o
  <2>2. /\ Size(header, o) \in Int /\ Size(header, o) = header[o].object_size
        /\ EndOf(header, o) = o + Size(header, o) /\ EndOf(header, o) \in Int
    BY <1>1, <2>1, ObjectFacts
  <2>3. live[ptr] <= Size(header, o) - HEADER_SIZE - FOOTER_SIZE
    BY <1>1, <2>1 DEF Holds
  <2>4. ptr + live[ptr] - 1 < EndOf(header, o) - FOOTER_SIZE
    BY <2>1, <2>2, <2>3, Constants
  <2>5. ASSUME NEW h \in DOMAIN header
        PROVE h + HEADER_SIZE <= ptr \/ h > ptr + live[ptr] - 1
    <3>1. h \in Int
      BY HeapFacts
    <3>2. h <= o \/ EndOf(header, o) <= h
      BY <1>1, <2>1 DEF Shape, Tiled
    <3> QED BY <2>1, <2>2, <2>4, <3>1, <3>2, Constants
  <2>6. ASSUME NEW f \in DOMAIN footer
        PROVE f + FOOTER_SIZE <= ptr \/ f > ptr + live[ptr] - 1
    <3>1. CASE f \in chunks
      <4>1. (f + FOOTER_SIZE <= o \/ EndOf(header, o) <= f) /\ f \in Int
        BY <1>1, <2>1, <3>1, FenceOutside
      <4> QED BY <2>1, <2>2, <2>4, <4>1, Constants
    <3>2. CASE f \notin chunks
      <4>1. PICK x \in O : f = EndOf(header, x) - FOOTER_SIZE
        BY <1>1, <3>2 DEF Shape, NoStrays
      <4>2. /\ x \in Int /\ x \in DOMAIN header /\ EndOf(header, x) \in Int
            /\ EndOf(header, x) \in DOMAIN header
        BY <1>1, ObjectFacts
      <4>3. EndOf(header, x) <= o \/ EndOf(header, o) <= EndOf(header, x)
        BY <1>1, <2>1, <4>2 DEF Shape, Tiled
      <4> QED BY <2>1, <2>2, <2>4, <4>1, <4>2, <4>3, Constants
    <3> QED BY <3>1, <3>2
  <2> QED BY <2>1, <2>2, <2>3, <2>5, <2>6 DEF o
<1> QED BY <1>5, <1>6 DEF AllocatedIsLive

\* The two tags of every object agree, and no footer is left behind, whatever the
\* program allocates and frees.
THEOREM BoundaryTags == Spec => []BoundaryTagsAgree
  BY HeapInvariant, InvImpliesTags, PTL

\* The objects always tile their chunks.
THEOREM Tiles == Spec => []HeapTiled
  BY HeapInvariant, InvImpliesTiled, PTL

\* The free list holds every free object once, in address order; the search for a
\* place and the first fit rest on it.
THEOREM FreeListSorted == Spec => []FreeListAscending
  BY HeapInvariant, InvImpliesList, PTL

\* Two free objects are never neighbours.
THEOREM AlwaysCoalesced == Spec => []Coalesced
  BY HeapInvariant, InvImpliesCoalesced, PTL

\* Every allocated object is held by the program, with room for what it asked for
\* and without a tag in it.
THEOREM NothingLost == Spec => []AllocatedIsLive
  BY HeapInvariant, InvImpliesLive, PTL

\* TypeOK follows from the shape of the heap and from the list.
LEMMA InvImpliesType == Inv => TypeOK
<1> SUFFICES ASSUME Inv PROVE TypeOK
  OBVIOUS
<1> DEFINE O == ObjectsOf(header, chunks)
<1>1. /\ Shape(header, footer, chunks, program_break) /\ Objects = O
      /\ header \in [DOMAIN header -> HeaderTags] /\ footer \in [DOMAIN footer -> FooterTags]
      /\ program_break \in Int /\ HeapStart <= program_break /\ program_break <= HeapLimit
      /\ List(header, Listed) /\ Members(Listed) \subseteq DOMAIN header
      /\ header[free_list_sentinel].object_size = 0
  BY HeapFacts, HeapNames DEF List
<1>2. \A c \in chunks : /\ c \in HeapAddresses /\ c \in Int
                        /\ EndFencepost(c) \in HeapAddresses
                        /\ header[EndFencepost(c)].object_size = 0
  <2> SUFFICES ASSUME NEW c \in chunks
      PROVE /\ c \in HeapAddresses /\ c \in Int
            /\ EndFencepost(c) \in HeapAddresses
            /\ header[EndFencepost(c)].object_size = 0
    OBVIOUS
  <2>1. c \in Int /\ HeapStart <= c /\ c + OsBlock <= program_break
    BY <1>1 DEF Shape, ChunksApart
  <2>2. header[EndFencepost(c)].object_size = 0
    BY <1>1 DEF Shape, Fenced, Size
  <2> QED BY <1>1, <2>1, <2>2, Fence, Constants DEF HeapAddresses
<1>3. \A o \in O : /\ o \in HeapAddresses /\ header[o].object_size \in 0 .. RealSize
                   /\ EndOf(header, o) - FOOTER_SIZE \in HeapAddresses
  <2> SUFFICES ASSUME NEW o \in O
      PROVE /\ o \in HeapAddresses /\ header[o].object_size \in 0 .. RealSize
            /\ EndOf(header, o) - FOOTER_SIZE \in HeapAddresses
    OBVIOUS
  <2>1. /\ o \in Int /\ Size(header, o) \in Int /\ Size(header, o) >= MinSize
        /\ Size(header, o) = header[o].object_size
        /\ EndOf(header, o) = o + Size(header, o) /\ EndOf(header, o) \in Int
    BY <1>1, ObjectFacts
  <2>2. o \in HeapAddresses
    BY <1>1, PayloadInHeap
  <2>3. PICK c \in chunks : c + FOOTER_SIZE <= o /\ EndOf(header, o) <= EndFencepost(c)
    BY <1>1 DEF Shape, Placed
  <2>4. c \in Int /\ EndFencepost(c) \in HeapAddresses
    BY <1>2
  <2> QED BY <2>1, <2>2, <2>3, <2>4, Fence, Constants DEF HeapAddresses
<1>4. \A a \in DOMAIN header : a \in O \/ a = free_list_sentinel \/ \E c \in chunks : a = EndFencepost(c)
  BY DEF ObjectsOf, Fences
<1>5. DOMAIN header \subseteq HeapAddresses \cup {free_list_sentinel}
  BY <1>2, <1>3, <1>4
<1>6. \A a \in DOMAIN header :
        /\ header[a].object_size \in 0 .. RealSize
        /\ header[a].next \in DOMAIN header \cup {NULL}
        /\ header[a].prev \in DOMAIN header \cup {NULL}
  <2> SUFFICES ASSUME NEW a \in DOMAIN header
      PROVE /\ header[a].object_size \in 0 .. RealSize
            /\ header[a].next \in DOMAIN header \cup {NULL}
            /\ header[a].prev \in DOMAIN header \cup {NULL}
    OBVIOUS
  <2>1. header[a].object_size \in 0 .. RealSize
    BY <1>1, <1>2, <1>3, <1>4, Constants
  <2>2. CASE a \in Members(Listed)
    BY <1>1, <2>1, <2>2 DEF List
  <2>3. CASE a \notin Members(Listed)
    BY <1>1, <2>1, <2>3 DEF List
  <2> QED BY <2>2, <2>3
<1>7. header \in [DOMAIN header ->
       [object_size : 0 .. RealSize,
        status : {UNALLOCATED, ALLOCATED, SENTINEL},
        next : DOMAIN header \cup {NULL},
        prev : DOMAIN header \cup {NULL}]]
  <2> SUFFICES ASSUME NEW a \in DOMAIN header
      PROVE header[a] \in
       [object_size : 0 .. RealSize,
        status : {UNALLOCATED, ALLOCATED, SENTINEL},
        next : DOMAIN header \cup {NULL},
        prev : DOMAIN header \cup {NULL}]
    BY <1>1
  <2>1. header[a] \in HeaderTags
    BY <1>1
  <2> QED BY <1>6, <2>1 DEF HeaderTags
<1>8. \A f \in DOMAIN footer : f \in HeapAddresses /\ footer[f].object_size \in 0 .. RealSize
  <2> SUFFICES ASSUME NEW f \in DOMAIN footer
      PROVE f \in HeapAddresses /\ footer[f].object_size \in 0 .. RealSize
    OBVIOUS
  <2>1. CASE f \in chunks
    <3>1. footer[f] = FooterTag(0, ALLOCATED)
      BY <1>1, <2>1 DEF Shape, Fenced
    <3> QED BY <1>2, <2>1, <3>1, Constants DEF FooterTag
  <2>2. CASE f \notin chunks
    <3>1. PICK o \in O : f = EndOf(header, o) - FOOTER_SIZE
      BY <1>1, <2>2 DEF Shape, NoStrays
    <3>2. footer[f] = FooterTag(header[o].object_size, header[o].status)
      BY <1>1, <3>1, ObjectFacts
    <3> QED BY <1>3, <3>1, <3>2 DEF FooterTag
  <2> QED BY <2>1, <2>2
<1>9. footer \in [DOMAIN footer ->
       [object_size : 0 .. RealSize, status : {UNALLOCATED, ALLOCATED}]]
  BY <1>1, <1>8 DEF FooterTags
<1>10. program_break \in HeapAddresses /\ chunks \subseteq HeapAddresses /\ DOMAIN footer \subseteq HeapAddresses
  BY <1>1, <1>2, <1>8, Constants DEF HeapAddresses
<1>11. /\ live \in [DOMAIN live -> Requests]
       /\ request \in Requests \cup {NULL}
       /\ result \in HeapAddresses \cup {NULL}
  BY DEF Inv, ProgramInv
<1>12. \/ op = NoCall
       \/ op = Fault
       \/ /\ op.kind = "search"
          /\ op = [Searching(request, op.cursor) EXCEPT !.rounded = op.rounded]
          /\ op.rounded \in 0 .. RealSize
          /\ op.cursor \in DOMAIN header
       \/ /\ op.kind = "insert"
          /\ op = Inserting(op.object, op.cursor)
          /\ {op.object, op.cursor} \subseteq DOMAIN header
  <2>1. ASSUME request \in Requests, ~TooLarge(request),
               op = [kind |-> "search", rounded |-> RoundedSize(request), cursor |-> op.cursor],
               op.cursor \in Members(Listed)
        PROVE /\ op.kind = "search"
              /\ op = [Searching(request, op.cursor) EXCEPT !.rounded = op.rounded]
              /\ op.rounded \in 0 .. RealSize
              /\ op.cursor \in DOMAIN header
    <3>1. op.kind = "search" /\ op.rounded = RoundedSize(request)
      BY <2>1
    <3>2. RoundedSize(request) \in 0 .. RealSize
      BY <2>1, RoundedFacts, Constants DEF TooLarge
    <3>3. op = [Searching(request, op.cursor) EXCEPT !.rounded = op.rounded]
      BY <2>1 DEF Searching
    <3> QED BY <1>1, <2>1, <3>1, <3>2, <3>3
  <2>2. ASSUME op = Inserting(op.object, op.cursor), op.object \in Free, op.cursor \in Members(Listed)
        PROVE /\ op.kind = "insert"
              /\ op = Inserting(op.object, op.cursor)
              /\ {op.object, op.cursor} \subseteq DOMAIN header
    <3>1. op.kind = "insert"
      BY <2>2 DEF Inserting
    <3>2. Free \subseteq DOMAIN header
      BY DEF Free, Objects
    <3> QED BY <1>1, <2>2, <3>1, <3>2
  <2> QED BY <2>1, <2>2 DEF Inv, OpInv
<1> QED BY <1>5, <1>7, <1>9, <1>10, <1>11, <1>12 DEF TypeOK

\* Every tag and every pointer has a value of its type.
THEOREM TypeCorrect == Spec => []TypeOK
  BY HeapInvariant, InvImpliesType, PTL

\* An object in use in the chunk c, if the first object of c or its right
\* neighbour is in use.
UsedIn(c) ==
  LET first == c + FOOTER_SIZE
  IN  IF first \in FreeOf(header, chunks) THEN EndOf(header, first) ELSE first

\* When the search has come to the end of the list, no chunk is one free object:
\* it would have been taken.
LEMMA EveryChunkUsed ==
  ASSUME Inv, AtEnd, NEW c \in chunks
  PROVE  /\ UsedIn(c) \in ObjectsOf(header, chunks) \ FreeOf(header, chunks)
         /\ UsedIn(c) \in Int /\ c \in Int /\ c < UsedIn(c) /\ UsedIn(c) < c + OsBlock
<1> DEFINE O == ObjectsOf(header, chunks)
           F == FreeOf(header, chunks)
           first == c + FOOTER_SIZE
<1>1. /\ Shape(header, footer, chunks, program_break) /\ Merged(header, chunks)
      /\ F \subseteq O
  BY HeapFacts
<1>2. c \in Int /\ first \in O /\ EndFencepost(c) = c + FOOTER_SIZE + RealSize
      /\ first \in Int
  BY <1>1, Fence, Constants DEF Shape, ChunksApart, Fenced
<1>f. first = c + FOOTER_SIZE
  OBVIOUS
<1> HIDE DEF first
<1>3. /\ Size(header, first) \in Int /\ Size(header, first) >= MinSize
      /\ EndOf(header, first) = first + Size(header, first) /\ EndOf(header, first) \in Int
      /\ EndOf(header, first) \in DOMAIN header
  BY <1>1, <1>2, ObjectFacts
<1>4. CASE first \notin F
  <2>1. UsedIn(c) = first
    BY <1>f, <1>4 DEF UsedIn
  <2> QED BY <1>2, <1>4, <1>f, <2>1, Constants
<1>5. CASE first \in F
  <2>1. UsedIn(c) = EndOf(header, first)
    BY <1>f, <1>5 DEF UsedIn
  <2>2. op.kind = "search" /\ op.cursor = free_list_sentinel
    BY DEF AtEnd
  <2>3. Size(header, first) < op.rounded
    BY <1>5, <2>2, HeapNames DEF Inv, OpInv, NoCall, Fault, Inserting
  <2>4. op.rounded \in Int /\ op.rounded <= RealSize
    BY <2>2, SearchBasics, RoundedFacts, Constants
  <2>5. c < EndOf(header, first) /\ EndOf(header, first) < c + FOOTER_SIZE + RealSize
    BY <1>2, <1>3, <1>f, <2>3, <2>4, Constants
  <2>6. EndOf(header, first) \notin F
    BY <1>1, <1>5 DEF Merged
  <2>7. EndOf(header, first) \notin Fences(chunks)
    <3> SUFFICES ASSUME NEW d \in chunks, EndOf(header, first) = EndFencepost(d) PROVE FALSE
      BY DEF Fences
    <3>1. d \in Int /\ (c < d => c + OsBlock <= d) /\ (d < c => d + OsBlock <= c)
          /\ EndFencepost(d) = d + FOOTER_SIZE + RealSize
      BY <1>1, Fence DEF Shape, ChunksApart
    <3>2. d < c \/ c = d \/ c < d
      BY <1>2, <3>1
    <3>3. EndOf(header, first) = d + FOOTER_SIZE + RealSize
      BY <3>1
    <3> QED BY <1>2, <1>3, <2>5, <3>1, <3>2, <3>3, Constants
  <2>8. EndOf(header, first) # free_list_sentinel
    <3>1. HeapStart <= c
      BY <1>1 DEF Shape, ChunksApart
    <3> QED BY <1>2, <1>3, <2>5, <3>1, Constants
  <2>9. EndOf(header, first) \in O
    BY <1>3, <2>7, <2>8 DEF ObjectsOf
  <2> QED BY <1>2, <1>3, <2>1, <2>5, <2>6, <2>9, Constants
<1> QED BY <1>4, <1>5

\* So there are at most as many chunks as pointers.
LEMMA FewChunks ==
  ASSUME Inv, AtEnd, IsFiniteSet(DOMAIN live)
  PROVE  Cardinality(chunks) <= Cardinality(DOMAIN live)
<1> DEFINE f == [c \in chunks |-> UsedIn(c) + HEADER_SIZE]
<1>1. \A c \in chunks : UsedIn(c) + HEADER_SIZE \in DOMAIN live
  BY EveryChunkUsed, HeapFacts DEF Holds
<1>2. ASSUME NEW c \in chunks, NEW d \in chunks, UsedIn(c) + HEADER_SIZE = UsedIn(d) + HEADER_SIZE
      PROVE  c = d
  <2>1. /\ UsedIn(c) \in Int /\ c \in Int /\ c < UsedIn(c) /\ UsedIn(c) < c + OsBlock
        /\ UsedIn(d) \in Int /\ d \in Int /\ d < UsedIn(d) /\ UsedIn(d) < d + OsBlock
    BY EveryChunkUsed
  <2>2. (c < d => c + OsBlock <= d) /\ (d < c => d + OsBlock <= c)
    BY HeapFacts DEF Shape, ChunksApart
  <2> QED BY <1>2, <2>1, <2>2, Constants
<1>3. f \in Injection(chunks, DOMAIN live)
  BY <1>1, <1>2 DEF Injection, IsInjective
<1> QED BY <1>3, FS_Injection

\* At first there is one chunk.
LEMMA BoundedInit == Init => Bounded
<1> SUFFICES ASSUME Init PROVE Bounded
  OBVIOUS
<1>1. DOMAIN live = {} /\ chunks = {HeapStart} /\ op.kind = "idle"
  BY DEF Init, NoCall
<1>2. Cardinality(chunks) = 1 /\ IsFiniteSet(chunks) /\ IsFiniteSet(DOMAIN live)
  BY <1>1, FS_Singleton, FS_EmptySet
<1> QED BY <1>1, <1>2, ProgramAssumption DEF Bounded, HeapBoundedByUse

\* A step that takes no chunk keeps the bound.
LEMMA SameChunks ==
  ASSUME Bounded, chunks' = chunks, IsFiniteSet(DOMAIN live'),
         op'.kind = "search" => Cardinality(DOMAIN live') < MaxLive
  PROVE  Bounded'
BY DEF Bounded, HeapBoundedByUse

\* One more pointer leaves finitely many.
LEMMA StoreFinite ==
  ASSUME NEW f, NEW a, NEW v, IsFiniteSet(DOMAIN f)
  PROVE  IsFiniteSet(DOMAIN Store(f, a, v))
<1>1. DOMAIN Store(f, a, v) = DOMAIN f \cup {a}
  BY StoreFacts
<1>2. IsFiniteSet(DOMAIN f \cup {a})
  BY FS_AddElement
<1> QED BY <1>1, <1>2

\* A step that takes a chunk keeps the bound.
LEMMA GrowBounded ==
  ASSUME Inv, Bounded, AtEnd, SbrkSucceeds, NEW object, Return(object)
  PROVE  Bounded'
<1>1. /\ chunks' = chunks \cup {program_break} /\ op' = NoCall
      /\ live' = Store(live, object + HEADER_SIZE, request)
  BY DEF SbrkSucceeds, Return
<1>2. IsFiniteSet(DOMAIN live) /\ IsFiniteSet(chunks) /\ Cardinality(DOMAIN live) < MaxLive
  BY DEF Bounded, AtEnd
<1>3. Cardinality(chunks) <= Cardinality(DOMAIN live)
  BY <1>2, FewChunks
<1>4. Cardinality(chunks) \in Nat /\ Cardinality(DOMAIN live) \in Nat
  BY <1>2, FS_CardinalityType
<1>5. IsFiniteSet(chunks') /\ Cardinality(chunks') <= Cardinality(chunks) + 1
  <2>1. /\ IsFiniteSet(chunks \cup {program_break})
        /\ Cardinality(chunks \cup {program_break}) =
             IF program_break \in chunks THEN Cardinality(chunks) ELSE Cardinality(chunks) + 1
    BY <1>2, FS_AddElement
  <2> QED BY <1>1, <1>4, <2>1
<1>6. Cardinality(chunks') \in Nat
  BY <1>5, FS_CardinalityType
<1>7. Cardinality(chunks') <= MaxLive
  BY <1>2, <1>3, <1>4, <1>5, <1>6, ProgramAssumption
<1>8. IsFiniteSet(DOMAIN live')
  BY <1>1, <1>2, StoreFinite
<1> QED BY <1>1, <1>5, <1>7, <1>8 DEF Bounded, HeapBoundedByUse, NoCall

\* Every step keeps the bound.
LEMMA BoundedStep == Inv /\ Bounded /\ [Next]_vars => Bounded'
<1> SUFFICES ASSUME Inv, Bounded, [Next]_vars PROVE Bounded'
  OBVIOUS
<1>b. IsFiniteSet(DOMAIN live) /\ (op.kind = "search" => Cardinality(DOMAIN live) < MaxLive)
  BY DEF Bounded
<1>1. CASE UNCHANGED vars
  BY <1>1, <1>b, SameChunks DEF vars
<1>2. ASSUME NEW size \in Requests, Cardinality(DOMAIN live) < MaxLive, AllocateObject(size)
      PROVE  Bounded'
  <2>1. chunks' = chunks /\ live' = live
    BY <1>2 DEF AllocateObject, AllocateTooLarge, AllocateStart, Unaffected
  <2> QED BY <1>2, <1>b, <2>1, SameChunks
<1>3. ASSUME NEW ptr \in DOMAIN live, Idle, FreeObject(ptr)
      PROVE  Bounded'
  <2>1. Release(ptr) /\ op'.kind # "search"
    <3>1. op.kind = "idle"
      BY <1>3 DEF Idle
    <3> QED BY <1>3, <3>1 DEF FreeObject, FreeAlone, FreeMergeLeft, FreeMergeRight, FreeMergeBoth, Inserting
  <2>2. chunks' = chunks /\ DOMAIN live' = DOMAIN live \ {ptr}
    BY <2>1 DEF Release, Unaffected, Without, Restrict
  <2>3. IsFiniteSet(DOMAIN live')
    BY <1>b, <2>2, FS_RemoveElement
  <2> QED BY <2>1, <2>2, <2>3, SameChunks
<1>4. ASSUME NEW amount \in OtherSbrk, ProgramSbrk(amount)
      PROVE  Bounded'
  BY <1>4, <1>b, SameChunks DEF ProgramSbrk
<1>5. CASE SearchNext
  <2>1. op.kind = "search" /\ live' = live /\ chunks' = chunks
    BY <1>5 DEF SearchNext, AtObject, Unaffected
  <2> QED BY <1>b, <2>1, SameChunks
<1>6. ASSUME NEW object, Return(object), Unaffected
      PROVE Bounded'
  <2>1. live' = Store(live, object + HEADER_SIZE, request) /\ op' = NoCall /\ chunks' = chunks
    BY <1>6 DEF Return, Unaffected
  <2>2. IsFiniteSet(DOMAIN live') /\ op'.kind # "search"
    BY <1>b, <2>1, StoreFinite DEF NoCall
  <2> QED BY <2>1, <2>2, SameChunks
<1>7. CASE TakeWhole \/ Split
  BY <1>6, <1>7 DEF TakeWhole, Split
<1>8. CASE GrowSplit
  BY <1>8, GrowBounded DEF GrowSplit
<1>9. CASE GrowWhole
  BY <1>9, GrowBounded DEF GrowWhole
<1>10. CASE GrowRefused
  <2>1. op'.kind # "search" /\ live' = live /\ chunks' = chunks
    BY <1>10 DEF GrowRefused, Fault, Unaffected
  <2> QED BY <1>b, <2>1, SameChunks
<1>11. CASE InsertNext
  <2>1. op'.kind # "search" /\ live' = live /\ chunks' = chunks
    <3>1. op = Inserting(op.object, op.cursor)
      BY <1>11 DEF InsertNext, Inv, OpInv, NoCall, Fault
    <3> QED BY <1>11, <3>1 DEF InsertNext, Inserting, Unaffected
  <2> QED BY <1>b, <2>1, SameChunks
<1>12. CASE InsertLink
  <2>1. op'.kind # "search" /\ live' = live /\ chunks' = chunks
    BY <1>12 DEF InsertLink, NoCall, Unaffected
  <2> QED BY <1>b, <2>1, SameChunks
<1> QED
  BY <1>1, <1>2, <1>3, <1>4, <1>5, <1>7, <1>8, <1>9, <1>10, <1>11, <1>12 DEF Next, Program, Continue

\* The heap never has more chunks than the program holds objects at the peak.
THEOREM HeapStaysSmall == Spec => []HeapBoundedByUse
<1>1. Bounded => HeapBoundedByUse
  BY DEF Bounded
<1> QED
  BY HeapInvariant, BoundedInit, BoundedStep, <1>1, PTL DEF Spec

\* No byte belongs to two pointers of the program.
BlocksApart ==
  \A p, q \in DOMAIN live : p < q => p + live[p] <= q

(***************************************************************************)
(* The heap implements Allocator                                           *)
(***************************************************************************)

\* Sums of multiples of SIZE_PRECISION.
LEMMA WholePlus ==
  ASSUME NEW a \in Int, NEW b \in Int, Whole(a), Whole(b)
  PROVE  Whole(a + b) /\ a + b \in Int
<1> DEFINE p == SIZE_PRECISION
<1>1. p \in Nat \ {0}
  BY Constants
<1>2. a % p = 0 /\ b % p = 0
  BY DEF Whole
<1> HIDE DEF p
<1>3. (a + b) % p = 0
  BY <1>1, <1>2, ModPlus
<1> QED BY <1>3 DEF Whole, p

\* The tags and the blocks from the OS have whole sizes.
LEMMA WholeTags ==
  /\ Whole(HEADER_SIZE) /\ Whole(FOOTER_SIZE) /\ Whole(RealSize) /\ Whole(OsBlock)
  /\ HEADER_SIZE \in Int /\ FOOTER_SIZE \in Int /\ RealSize \in Int /\ OsBlock \in Int
<1>1. /\ Whole(HEADER_SIZE) /\ Whole(FOOTER_SIZE) /\ Whole(RealSize)
      /\ HEADER_SIZE \in Int /\ FOOTER_SIZE \in Int /\ RealSize \in Int
  BY SizesAssumption, WholeSizes, Constants DEF Whole
<1>2. Whole(HEADER_SIZE + FOOTER_SIZE) /\ HEADER_SIZE + FOOTER_SIZE \in Int
  BY <1>1, WholePlus
<1>3. Whole(RealSize + (HEADER_SIZE + FOOTER_SIZE))
  BY <1>1, <1>2, WholePlus
<1>4. RealSize + (HEADER_SIZE + FOOTER_SIZE) = OsBlock
  BY Constants
<1> QED BY <1>1, <1>3, <1>4, Constants

\* The first chunk is aligned.
LEMMA AlignedInit == Init => Aligned
<1> SUFFICES ASSUME Init PROVE Aligned
  OBVIOUS
<1> DEFINE o == HeapStart + FOOTER_SIZE
<1>1. /\ program_break = HeapStart + OsBlock
      /\ DOMAIN header = {free_list_sentinel, o, o + RealSize}
  BY DEF Init
<1>2. Whole(HeapStart) /\ HeapStart \in Int
  <2>1. HeapStart \in OtherSbrk \cup {HeapStart}
    OBVIOUS
  <2>2. Whole(HeapStart)
    BY <2>1, AlignedBreak DEF Whole
  <2> QED BY <2>2, Constants
<1>3. Whole(o) /\ o \in Int
  BY <1>2, WholeTags, WholePlus
<1> HIDE DEF o
<1>4. Whole(o + RealSize)
  BY <1>3, WholeTags, WholePlus
<1>5. Whole(HeapStart + OsBlock)
  BY <1>2, WholeTags, WholePlus
<1> QED BY <1>1, <1>3, <1>4, <1>5 DEF Aligned

\* What a new chunk adds to the headers is aligned.
LEMMA AlignedGrowth ==
  ASSUME Inv, Aligned, op.kind = "search", SbrkSucceeds
  PROVE  /\ Whole(program_break')
         /\ Whole(program_break + FOOTER_SIZE)
         /\ Whole(program_break + FOOTER_SIZE + RealSize)
         /\ Whole(program_break + FOOTER_SIZE + op.rounded)
<1>1. program_break' = program_break + OsBlock /\ program_break \in Int
  BY HeapFacts DEF SbrkSucceeds
<1>2. Whole(program_break) /\ Whole(op.rounded) /\ op.rounded \in Int
  BY SearchBasics DEF Aligned, Whole
<1>3. Whole(program_break + OsBlock)
  BY <1>1, <1>2, WholeTags, WholePlus
<1>4. Whole(program_break + FOOTER_SIZE) /\ program_break + FOOTER_SIZE \in Int
  BY <1>1, <1>2, WholeTags, WholePlus
<1>5. Whole(program_break + FOOTER_SIZE + RealSize)
  BY <1>4, WholeTags, WholePlus
<1>6. Whole(program_break + FOOTER_SIZE + op.rounded)
  BY <1>2, <1>4, WholePlus
<1> QED BY <1>1, <1>3, <1>4, <1>5, <1>6

\* Every step keeps the headers aligned.
LEMMA AlignedStep == Inv /\ Aligned /\ [Next]_vars => Aligned'
<1> SUFFICES ASSUME Inv, Aligned, [Next]_vars PROVE Aligned'
  OBVIOUS
<1>a. ASSUME DOMAIN header' \subseteq DOMAIN header, program_break' = program_break
      PROVE  Aligned'
  BY <1>a DEF Aligned
<1>1. CASE UNCHANGED vars
  BY <1>1, <1>a DEF vars
<1>2. ASSUME NEW size \in Requests, AllocateObject(size)
      PROVE  Aligned'
  BY <1>2, <1>a DEF AllocateObject, AllocateTooLarge, AllocateStart, Unaffected
<1>3. ASSUME NEW ptr \in DOMAIN live, FreeObject(ptr)
      PROVE  Aligned'
  <2>1. program_break' = program_break
    BY <1>3 DEF FreeObject, FreeAlone, FreeMergeLeft, FreeMergeRight, FreeMergeBoth,
                Release, Unaffected
  <2>2. DOMAIN header' \subseteq DOMAIN header
    BY <1>3 DEF FreeObject, FreeAlone, FreeMergeLeft, FreeMergeRight, FreeMergeBoth,
                Without, Restrict, Linked
  <2> QED BY <1>a, <2>1, <2>2
<1>4. ASSUME NEW amount \in OtherSbrk, ProgramSbrk(amount)
      PROVE  Aligned'
  <2>1. program_break' = program_break + amount /\ header' = header
    BY <1>4 DEF ProgramSbrk
  <2>2. /\ Whole(program_break) /\ program_break \in Int
        /\ Whole(amount) /\ amount \in Int
    BY HeapFacts, ProgramAssumption, AlignedBreak DEF Aligned, Whole
  <2>3. Whole(program_break + amount)
    BY <2>2, WholePlus
  <2> QED BY <2>1, <2>3 DEF Aligned
<1>5. CASE SearchNext \/ GrowRefused \/ InsertNext
  BY <1>5, <1>a DEF SearchNext, GrowRefused, InsertNext, Unaffected
<1>6. CASE TakeWhole
  BY <1>6, <1>a DEF TakeWhole, Unlinked, Unaffected
<1>7. CASE InsertLink
  BY <1>7, <1>a DEF InsertLink, Linked, Unaffected
<1>8. CASE Split
  <2> DEFINE n == op.cursor + op.rounded
  <2>1. DOMAIN header' = DOMAIN header \cup {n} /\ program_break' = program_break
    BY <1>8 DEF Split, Store, Linked, Unaffected
  <2>2. AtObject /\ op.cursor # free_list_sentinel
    BY <1>8 DEF Split, AtObject
  <2>3. /\ op.cursor \in DOMAIN header /\ op.cursor \in Int
        /\ Whole(op.rounded) /\ op.rounded \in Int
    BY <2>2, SearchFacts DEF Whole
  <2>4. Whole(n)
    BY <2>2, <2>3, WholePlus DEF Aligned
  <2> QED BY <2>1, <2>4 DEF Aligned
<1>9. CASE GrowSplit
  <2>1. op.kind = "search" /\ SbrkSucceeds
    BY <1>9 DEF GrowSplit, AtEnd
  <2>2. DOMAIN header' = DOMAIN header \cup
          {program_break + FOOTER_SIZE + RealSize, program_break + FOOTER_SIZE + op.rounded,
           program_break + FOOTER_SIZE}
    BY <1>9 DEF GrowSplit, FencedHeader, Store, Linked
  <2> QED BY <2>1, <2>2, AlignedGrowth DEF Aligned
<1>10. CASE GrowWhole
  <2>1. op.kind = "search" /\ SbrkSucceeds
    BY <1>10 DEF GrowWhole, AtEnd
  <2>2. DOMAIN header' = DOMAIN header \cup
          {program_break + FOOTER_SIZE + RealSize, program_break + FOOTER_SIZE}
    BY <1>10 DEF GrowWhole, FencedHeader, Store
  <2> QED BY <2>1, <2>2, AlignedGrowth DEF Aligned
<1> QED
  BY <1>1, <1>2, <1>3, <1>4, <1>5, <1>6, <1>7, <1>8, <1>9, <1>10 DEF Next, Program, Continue

\* The pointers of the program share no byte.
LEMMA InvImpliesApart == Inv => BlocksApart
<1> SUFFICES ASSUME Inv, NEW p \in DOMAIN live, NEW q \in DOMAIN live, p < q
             PROVE  p + live[p] <= q
  BY DEF BlocksApart
<1> DEFINE O == ObjectsOf(header, chunks)
           F == FreeOf(header, chunks)
           o == p - HEADER_SIZE
           u == q - HEADER_SIZE
<1>1. Shape(header, footer, chunks, program_break) /\ Holds(header, chunks, live)
      /\ live \in [DOMAIN live -> Requests]
  BY HeapFacts
<1>2. \A x \in O : x \in Int
  BY <1>1 DEF Shape, Placed
<1>3. /\ o \in O \ F /\ p = o + HEADER_SIZE /\ o \in Int
      /\ u \in O \ F /\ q = u + HEADER_SIZE /\ u \in Int
  BY <1>1, <1>2, Constants DEF Holds
<1> HIDE DEF o, u
<1>4. live[p] <= Size(header, o) - HEADER_SIZE - FOOTER_SIZE /\ live[p] \in Nat
  BY <1>1, <1>3, ProgramAssumption DEF Holds
<1>5. Size(header, o) \in Int /\ EndOf(header, o) = o + Size(header, o) /\ u \in DOMAIN header
  BY <1>1, <1>3, ObjectFacts
<1>6. u <= o \/ EndOf(header, o) <= u
  BY <1>1, <1>3, <1>5 DEF Shape, Tiled
<1> QED BY <1>3, <1>4, <1>5, <1>6, Constants

\* The phase of the abstract allocator.
Phase ==
  CASE op.kind = "search" -> "asked"
    [] op.kind = "fault" -> "dead"
    [] OTHER -> "idle"

\* The phase before a step.
LEMMA Phases ==
  /\ op.kind = "search" => Phase = "asked"
  /\ op.kind = "fault" => Phase = "dead"
  /\ op.kind = "idle" => Phase = "idle"
  /\ op.kind = "insert" => Phase = "idle"
BY DEF Phase

\* The phase after a step.
LEMMA NextPhases ==
  /\ op'.kind = "search" => Phase' = "asked"
  /\ op'.kind = "fault" => Phase' = "dead"
  /\ op'.kind = "idle" => Phase' = "idle"
  /\ op'.kind = "insert" => Phase' = "idle"
BY DEF Phase

\* initialize() maps to the initial state of Allocator.
LEMMA AbstractInit == Init => Abstract!Init
BY Phases DEF Init, NoCall, Phase, Abstract!Init

\* The program's pointers are aligned addresses of the heap.
BlocksPlaced == DOMAIN live \subseteq {a \in HeapAddresses : a % SIZE_PRECISION = 0}

\* The pointers of the program are addresses of Allocator.
LEMMA InvImpliesPlaced == Inv /\ Aligned => BlocksPlaced
<1> SUFFICES ASSUME Inv, Aligned, NEW p \in DOMAIN live
             PROVE  p \in HeapAddresses /\ p % SIZE_PRECISION = 0
  BY DEF BlocksPlaced
<1>1. PICK o \in ObjectsOf(header, chunks) : p = o + HEADER_SIZE
  BY HeapFacts DEF Holds
<1>2. p \in HeapAddresses
  BY <1>1, HeapFacts, PayloadInHeap
<1>3. o \in DOMAIN header \ {free_list_sentinel} /\ o \in Int
  BY <1>1, HeapFacts
<1>4. Whole(o + HEADER_SIZE)
  BY <1>3, WholeTags, WholePlus DEF Aligned
<1> QED BY <1>1, <1>2, <1>4 DEF Whole

\* The end of a search hands out a block that shares no byte with another one.
LEMMA ServeStep ==
  ASSUME Inv, BlocksApart', BlocksPlaced, BlocksPlaced', op.kind = "search",
         NEW o, o + HEADER_SIZE \notin DOMAIN live, Return(o)
  PROVE  Abstract!Next
<1> DEFINE b == o + HEADER_SIZE
<1>1. /\ result' = b /\ live' = Store(live, b, request)
      /\ op'.kind = "idle" /\ request' = request
  BY DEF Return, NoCall
<1>2. b \notin DOMAIN live
  OBVIOUS
<1> HIDE DEF b
<1>3. /\ DOMAIN live' = DOMAIN live \cup {b} /\ live'[b] = request
      /\ \A c \in DOMAIN live : live'[c] = live[c]
  BY <1>1, <1>2 DEF Store
<1>4. /\ b \in {a \in HeapAddresses : a % SIZE_PRECISION = 0} /\ b \in Int
  BY <1>3 DEF BlocksPlaced, HeapAddresses
<1>5. request \in Nat
  BY SearchBasics, ProgramAssumption
<1>6. ASSUME NEW c \in DOMAIN live
      PROVE  ~Abstract!Overlap(b, request, c)
  <2>1. c \in Int /\ live[c] \in Nat /\ c # b
    BY <1>2, HeapFacts, ProgramAssumption DEF BlocksPlaced, HeapAddresses
  <2>2. (c < b => c + live[c] <= b) /\ (b < c => b + request <= c)
    BY <1>3 DEF BlocksApart
  <2> QED BY <1>4, <1>5, <2>1, <2>2 DEF Abstract!Overlap
<1>7. Phase = "asked" /\ Phase' = "idle"
  BY <1>1, Phases, NextPhases
<1>8. Abstract!Serve(b)
  BY <1>1, <1>2, <1>6, <1>7 DEF Abstract!Serve, Store, Phase
<1> QED BY <1>4, <1>8 DEF Abstract!Next

\* The program does not hold what the allocator has.
LEMMA NotHeld ==
  ASSUME Inv, NEW o \in Int,
         o \notin ObjectsOf(header, chunks) \/ o \in FreeOf(header, chunks)
  PROVE  o + HEADER_SIZE \notin DOMAIN live
<1> SUFFICES ASSUME o + HEADER_SIZE \in DOMAIN live PROVE FALSE
  OBVIOUS
<1>1. PICK x \in ObjectsOf(header, chunks) \ FreeOf(header, chunks) : o + HEADER_SIZE = x + HEADER_SIZE
  BY HeapFacts DEF Holds
<1>2. x \in Int
  BY HeapFacts
<1> QED BY <1>1, <1>2, Constants

\* The program holds nothing in a fresh chunk.
LEMMA FreshNotHeld ==
  ASSUME Inv PROVE program_break + FOOTER_SIZE + HEADER_SIZE \notin DOMAIN live
<1>1. /\ Shape(header, footer, chunks, program_break)
      /\ program_break \in Int /\ HeapStart <= program_break
  BY HeapFacts
<1>2. \A x \in ObjectsOf(header, chunks) : x < program_break /\ x \in Int
  BY <1>1, Below
<1>3. program_break + FOOTER_SIZE \in Int /\ program_break + FOOTER_SIZE \notin ObjectsOf(header, chunks)
  BY <1>1, <1>2, Constants
<1> QED BY <1>3, NotHeld

\* Every step maps to a step of Allocator or to a stutter.
LEMMA AbstractStep ==
  ASSUME Inv, BlocksApart', BlocksPlaced, BlocksPlaced', [Next]_vars
  PROVE  [Abstract!Next]_(Abstract!vars)
<1>a. ASSUME UNCHANGED <<live, request, result>>, Phase' = Phase
      PROVE  UNCHANGED Abstract!vars
  BY <1>a DEF Abstract!vars, Phase
<1>1. CASE UNCHANGED vars
  BY <1>1, <1>a DEF vars, Phase
<1>2. ASSUME NEW size \in Requests, Idle, Cardinality(DOMAIN live) < MaxLive, AllocateTooLarge(size)
      PROVE  Abstract!Next
  <2>1. Phase = "idle" /\ Phase' = Phase
    BY <1>2, Phases DEF Idle, AllocateTooLarge, Phase
  <2>2. size > ARENA_SIZE
    BY <1>2, RoundedFacts DEF AllocateTooLarge
  <2>3. Abstract!Refuse(size)
    BY <1>2, <2>1, <2>2 DEF AllocateTooLarge, Abstract!Refuse, Phase
  <2> QED BY <2>3 DEF Abstract!Next
<1>3. ASSUME NEW size \in Requests, Idle, Cardinality(DOMAIN live) < MaxLive, AllocateStart(size)
      PROVE  Abstract!Next
  <2>1. Phase = "idle" /\ Phase' = "asked"
    BY <1>3, Phases, NextPhases DEF Idle, AllocateStart, Searching
  <2>2. Abstract!Ask(size)
    <3>1. request' = size /\ live' = live /\ result' = result
      BY <1>3 DEF AllocateStart
    <3>2. Abstract!Cardinality(DOMAIN live) = Cardinality(DOMAIN live)
      BY DEF Abstract!Cardinality, Cardinality
    <3> QED BY <1>3, <2>1, <3>1, <3>2 DEF Abstract!Ask, Phase
  <2> QED BY <2>2 DEF Abstract!Next
<1>4. ASSUME NEW ptr \in DOMAIN live, Idle, FreeObject(ptr)
      PROVE  Abstract!Next
  <2>1. Release(ptr) /\ (op' = op \/ \E o : op' = Inserting(o, free_list_sentinel))
    BY <1>4 DEF FreeObject, FreeAlone, FreeMergeLeft, FreeMergeRight, FreeMergeBoth
  <2>2. Phase = "idle" /\ Phase' = "idle"
    BY <1>4, <2>1, Phases, NextPhases DEF Idle, Inserting
  <2>3. Abstract!GiveBack(ptr)
    <3>1. /\ live' = Restrict(live, DOMAIN live \ {ptr})
          /\ request' = request /\ result' = result
      BY <2>1 DEF Release, Without
    <3> QED BY <2>2, <3>1 DEF Abstract!GiveBack, Phase, Restrict, Abstract!Restrict
  <2> QED BY <2>3 DEF Abstract!Next
<1>5. ASSUME NEW amount \in OtherSbrk, ProgramSbrk(amount)
      PROVE  UNCHANGED Abstract!vars
  BY <1>5, <1>a DEF ProgramSbrk, Phase
<1>6. CASE SearchNext
  <2>1. op.kind = "search" /\ op'.kind = "search" /\ UNCHANGED <<live, request, result>>
    <3>1. op = [kind |-> "search", rounded |-> RoundedSize(request), cursor |-> op.cursor]
      BY <1>6 DEF SearchNext, AtObject, Inv, OpInv, NoCall, Fault, Inserting
    <3> QED BY <1>6, <3>1 DEF SearchNext, AtObject
  <2> QED BY <1>a, <2>1, Phases, NextPhases
<1>7. CASE TakeWhole \/ Split
  <2>1. AtObject /\ Return(op.cursor)
    BY <1>7 DEF TakeWhole, Split
  <2>2. op.cursor + HEADER_SIZE \notin DOMAIN live
    BY <2>1, SearchFacts, NotHeld
  <2> QED BY <2>1, <2>2, ServeStep DEF AtObject
<1>8. CASE GrowSplit \/ GrowWhole
  <2>1. op.kind = "search" /\ Return(program_break + FOOTER_SIZE)
    BY <1>8 DEF GrowSplit, GrowWhole, AtEnd
  <2> QED BY <2>1, FreshNotHeld, ServeStep
<1>9. CASE GrowRefused
  <2>1. Phase = "asked" /\ Phase' = "dead" /\ UNCHANGED <<live, request, result>>
    BY <1>9, Phases, NextPhases DEF GrowRefused, AtEnd, Fault
  <2>2. Abstract!Die
    BY <2>1 DEF Abstract!Die, Phase
  <2> QED BY <2>2 DEF Abstract!Next
<1>10. CASE InsertNext \/ InsertLink
  <2>1. op.kind = "insert" /\ (op'.kind = "insert" \/ op'.kind = "idle")
        /\ UNCHANGED <<live, request, result>>
    <3>1. op = Inserting(op.object, op.cursor)
      BY <1>10 DEF InsertNext, InsertLink, Inv, OpInv, NoCall, Fault
    <3> QED BY <1>10, <3>1 DEF InsertNext, InsertLink, Inserting, NoCall
  <2> QED BY <1>a, <2>1, Phases, NextPhases
<1> QED
  BY <1>1, <1>2, <1>3, <1>4, <1>5, <1>6, <1>7, <1>8, <1>9, <1>10
     DEF Next, Program, Continue, AllocateObject

\* The allocator implements the safety part of Allocator: it refuses only what is
\* larger than an arena, hands out aligned blocks that share no byte with one in
\* use, and changes the program's blocks in no other way.
THEOREM Refinement == Spec => Abstract!Init /\ [][Abstract!Next]_(Abstract!vars)
<1>1. Spec => [](Inv /\ Aligned)
  BY HeapInvariant, AlignedInit, AlignedStep, PTL DEF Spec
<1>2. Inv /\ Aligned => BlocksApart /\ BlocksPlaced
  BY InvImpliesApart, InvImpliesPlaced
<1>3. Inv /\ BlocksApart' /\ BlocksPlaced /\ BlocksPlaced' /\ [Next]_vars
        => [Abstract!Next]_(Abstract!vars)
  BY AbstractStep
<1> QED BY <1>1, <1>2, <1>3, AbstractInit, PTL DEF Spec

(***************************************************************************)
(* What a caller sees                                                      *)
(***************************************************************************)

\* The call of allocate_object begins: the program holds what it held.
LEMMA AllocateFacts ==
  ASSUME NEW size, AllocateObject(size)
  PROVE  /\ live' = live /\ request' = size
         /\ op'.kind = "search" \/ (op' = op /\ result' = NULL)
BY DEF AllocateObject, AllocateTooLarge, AllocateStart, Searching

\* free_object takes a pointer from the program and returns nothing.
LEMMA FreeObjectFacts ==
  ASSUME NEW ptr, FreeObject(ptr)
  PROVE  /\ live' = Without(live, {ptr}) /\ UNCHANGED <<request, result>>
         /\ op'.kind = "insert" \/ op' = op
BY DEF FreeObject, FreeAlone, FreeMergeLeft, FreeMergeRight, FreeMergeBoth, Release, Inserting

\* A search ends with a block that the program did not hold.
Serves ==
  /\ op'.kind = "idle" /\ request' = request
  /\ result' \notin DOMAIN live
  /\ live' = Store(live, result', request)

\* A call goes on.
LEMMA ContinueFacts ==
  ASSUME Inv, Continue
  PROVE  \/ op.kind = "search" /\ Serves
         \/ /\ op.kind = "search" /\ op'.kind \in {"search", "fault"}
            /\ UNCHANGED <<live, request, result>>
         \/ /\ op.kind = "insert" /\ op'.kind \in {"insert", "idle"}
            /\ UNCHANGED <<live, request, result>>
<1>1. CASE SearchNext
  <2>1. op = [kind |-> "search", rounded |-> RoundedSize(request), cursor |-> op.cursor]
    BY <1>1 DEF SearchNext, AtObject, Inv, OpInv, NoCall, Fault, Inserting
  <2>2. op.kind = "search" /\ op'.kind = "search" /\ UNCHANGED <<live, request, result>>
    BY <1>1, <2>1 DEF SearchNext, AtObject
  <2> QED BY <2>2
<1>2. CASE TakeWhole \/ Split
  <2>1. AtObject /\ Return(op.cursor)
    BY <1>2 DEF TakeWhole, Split
  <2>2. op.cursor + HEADER_SIZE \notin DOMAIN live
    BY <2>1, SearchFacts, NotHeld
  <2> QED BY <2>1, <2>2 DEF AtObject, Return, Serves, NoCall
<1>3. CASE GrowSplit \/ GrowWhole
  <2>1. op.kind = "search" /\ Return(program_break + FOOTER_SIZE)
    BY <1>3 DEF GrowSplit, GrowWhole, AtEnd
  <2> QED BY <2>1, FreshNotHeld DEF Return, Serves, NoCall
<1>4. CASE GrowRefused
  BY <1>4 DEF GrowRefused, AtEnd, Fault
<1>5. CASE InsertNext \/ InsertLink
  <2>1. op = Inserting(op.object, op.cursor)
    BY <1>5 DEF InsertNext, InsertLink, Inv, OpInv, NoCall, Fault
  <2> QED BY <1>5, <2>1 DEF InsertNext, InsertLink, Inserting, NoCall
<1> QED
  BY <1>1, <1>2, <1>3, <1>4, <1>5 DEF Continue

\* The pointers of the program are addresses of the heap.
LEMMA PointersInHeap == Inv => DOMAIN live \subseteq HeapAddresses
<1> SUFFICES ASSUME Inv, NEW p \in DOMAIN live
             PROVE  p \in HeapAddresses
  OBVIOUS
<1>1. PICK o \in ObjectsOf(header, chunks) : p = o + HEADER_SIZE
  BY HeapFacts DEF Holds
<1> QED BY <1>1, HeapFacts, PayloadInHeap

\* The object of a pointer that the program holds.
LEMMA ObjectHeld ==
  ASSUME Inv, NEW p \in DOMAIN live
  PROVE  /\ HeaderOf(p) \in ObjectsOf(header, chunks)
         /\ HeaderOf(p) \notin FreeOf(header, chunks)
         /\ HeaderOf(p) \in Int /\ p = HeaderOf(p) + HEADER_SIZE
         /\ HeaderOf(p) \in DOMAIN header
         /\ live[p] \in Nat
         /\ live[p] <= Size(header, HeaderOf(p)) - HEADER_SIZE - FOOTER_SIZE
<1>1. PICK o \in ObjectsOf(header, chunks) \ FreeOf(header, chunks) : p = o + HEADER_SIZE
  BY HeapFacts DEF Holds
<1>2. o \in Int
  BY HeapFacts
<1>3. HeaderOf(p) = o
  BY <1>1, <1>2, Constants DEF HeaderOf
<1>4. live[o + HEADER_SIZE] <= Size(header, o) - HEADER_SIZE - FOOTER_SIZE
  BY HeapFacts DEF Holds
<1>5. live[p] \in Nat /\ o \in DOMAIN header
  BY HeapFacts, ProgramAssumption
<1> QED BY <1>1, <1>2, <1>3, <1>4, <1>5

\* No tag lies in a block that the program holds, and no byte of another block.
ClearOfTags ==
  \A p \in DOMAIN live :
    /\ \A h \in DOMAIN header : h + HEADER_SIZE <= p \/ p + live[p] <= h
    /\ \A f \in DOMAIN footer : f + FOOTER_SIZE <= p \/ p + live[p] <= f

LEMMA InvImpliesClear == Inv => ClearOfTags
<1> SUFFICES ASSUME Inv, NEW p \in DOMAIN live
             PROVE  /\ \A h \in DOMAIN header : h + HEADER_SIZE <= p \/ p + live[p] <= h
                    /\ \A f \in DOMAIN footer : f + FOOTER_SIZE <= p \/ p + live[p] <= f
  BY DEF ClearOfTags
<1> DEFINE O == ObjectsOf(header, chunks)
           o == HeaderOf(p)
<1>1. /\ o \in O /\ o \in Int /\ p = o + HEADER_SIZE /\ o \in DOMAIN header
      /\ live[p] \in Nat /\ live[p] <= Size(header, o) - HEADER_SIZE - FOOTER_SIZE
  BY ObjectHeld
<1> HIDE DEF o
<1>2. Shape(header, footer, chunks, program_break) /\ DOMAIN header \subseteq Int
  BY HeapFacts
<1>3. /\ Size(header, o) \in Int /\ EndOf(header, o) = o + Size(header, o)
      /\ EndOf(header, o) \in Int
  BY <1>1, <1>2, ObjectFacts
<1>4. \A x \in DOMAIN header : x <= o \/ EndOf(header, o) <= x
  BY <1>1, <1>2 DEF Shape, Tiled
<1>5. ASSUME NEW h \in DOMAIN header
      PROVE  h + HEADER_SIZE <= p \/ p + live[p] <= h
  BY <1>1, <1>2, <1>3, <1>4, Constants
<1>6. ASSUME NEW f \in DOMAIN footer
      PROVE  f + FOOTER_SIZE <= p \/ p + live[p] <= f
  <2>1. CASE f \in chunks
    <3>1. PICK c \in chunks : c + FOOTER_SIZE <= o /\ EndOf(header, o) <= EndFencepost(c)
      BY <1>1, <1>2 DEF Shape, Placed
    <3>2. /\ f \in Int /\ c \in Int
          /\ f < c => f + OsBlock <= c
          /\ c < f => c + OsBlock <= f
      BY <1>2, <2>1 DEF Shape, ChunksApart
    <3> QED BY <1>1, <1>3, <3>1, <3>2, Constants DEF EndFencepost
  <2>2. ASSUME NEW x \in O, f = EndOf(header, x) - FOOTER_SIZE
        PROVE  f + FOOTER_SIZE <= p \/ p + live[p] <= f
    <3>1. /\ x \in Int /\ x \in DOMAIN header /\ Size(header, x) \in Int
          /\ Size(header, x) >= MinSize
          /\ EndOf(header, x) = x + Size(header, x)
      BY <1>2, ObjectFacts
    <3>2. o <= x \/ EndOf(header, x) <= o
      BY <1>1, <1>2 DEF Shape, Tiled
    <3>3. CASE x = o
      BY <1>1, <1>3, <2>2, <3>3, Constants
    <3>4. CASE x > o
      BY <1>1, <1>3, <1>4, <2>2, <3>1, <3>4, Constants
    <3>5. CASE x < o
      BY <1>1, <1>3, <2>2, <3>1, <3>2, <3>5, Constants
    <3> QED BY <1>1, <3>1, <3>3, <3>4, <3>5
  <2> QED BY <1>2, <2>1, <2>2 DEF Shape, NoStrays
<1> QED BY <1>5, <1>6

\* The object of a block that the program keeps.
Kept(o) == o \in DOMAIN header' /\ header'[o].object_size = header[o].object_size

\* Whatever is split off or merged, the object of a block that the program keeps
\* stays as large as it is.
LEMMA SizesKept ==
  ASSUME Inv, [Next]_vars, NEW p \in DOMAIN live, p \in DOMAIN live'
  PROVE  Kept(HeaderOf(p))
<1> DEFINE O == ObjectsOf(header, chunks)
           F == FreeOf(header, chunks)
           o == HeaderOf(p)
<1>1. /\ o \in O /\ o \notin F /\ o \in Int /\ p = o + HEADER_SIZE /\ o \in DOMAIN header
  BY ObjectHeld
<1>2. /\ Shape(header, footer, chunks, program_break) /\ DOMAIN header \subseteq Int
      /\ header \in [DOMAIN header -> HeaderTags] /\ F \subseteq O /\ O \subseteq DOMAIN header
      /\ program_break \in Int /\ HeapStart <= program_break
      /\ free_list_sentinel \notin O
  BY HeapFacts
<1> HIDE DEF o
<1> SUFFICES Kept(o)
  BY DEF o
<1>3. CASE header' = header
  BY <1>1, <1>3 DEF Kept
<1>4. CASE TakeWhole
  <2>1. header' = [Unlinked(header, op.cursor) EXCEPT ![op.cursor].status = ALLOCATED]
    BY <1>4 DEF TakeWhole
  <2> QED BY <1>1, <1>2, <2>1 DEF Unlinked, Kept, HeaderTags
<1>5. CASE Split
  <2> DEFINE c == op.cursor
             new == c + op.rounded
             p1 == header[c].prev
             n1 == header[c].next
             lk == Linked(header, p1, n1, new)
             t1 == HeaderTag(op.rounded, ALLOCATED, NULL, NULL)
             t2 == HeaderTag(Remainder, UNALLOCATED, n1, p1)
  <2>1. AtObject /\ Remainder >= MinSize /\ Remainder = Size(header, c) - op.rounded
        /\ header' = Store([lk EXCEPT ![c] = t1], new, t2)
    BY <1>5 DEF Split, Remainder, Size
  <2>2. c \in F /\ op.rounded \in Int /\ op.rounded >= MinSize
    BY <2>1, SearchFacts
  <2>3. /\ c \in Int /\ Size(header, c) \in Int /\ EndOf(header, c) = c + Size(header, c)
        /\ \A y \in DOMAIN header : y <= c \/ EndOf(header, c) <= y
    BY <1>2, <2>2, ObjectFacts DEF Shape, Tiled
  <2>4. new # o /\ c # o
    BY <1>1, <1>2, <2>1, <2>2, <2>3, Constants
  <2> HIDE DEF c, new, p1, n1, t1, t2
  <2>5. o \in DOMAIN lk /\ lk[o].object_size = header[o].object_size
    BY <1>1, <1>2 DEF Linked, HeaderTags
  <2> HIDE DEF lk
  <2> QED BY <2>1, <2>4, <2>5 DEF Store, Kept
<1>6. CASE GrowSplit \/ GrowWhole
  <2>1. op.kind = "search"
    BY <1>6 DEF GrowSplit, GrowWhole, AtEnd
  <2>2. op.rounded \in Int /\ op.rounded >= MinSize
    BY <2>1, SearchBasics
  <2> DEFINE s == program_break + FOOTER_SIZE
             rest == s + op.rounded
             e == program_break + FOOTER_SIZE + RealSize
             last == header[free_list_sentinel].prev
             lk == Linked(header, last, free_list_sentinel, rest)
  <2>3. o < program_break
    BY <1>1, <1>2, Below
  <2>4. o # s /\ o # rest /\ o # e
    BY <1>1, <1>2, <2>2, <2>3, Constants
  <2>5. CASE GrowWhole
    <3>1. header' = Store(Store(header, e, HeaderTag(0, ALLOCATED, NULL, NULL)), s,
                          HeaderTag(RealSize, ALLOCATED, NULL, NULL))
      BY <2>5 DEF GrowWhole, FencedHeader
    <3> HIDE DEF s, e
    <3> QED BY <1>1, <2>4, <3>1 DEF Store, Kept
  <2>6. CASE GrowSplit
    <3>1. header' = Store(Store(Store(lk, e, HeaderTag(0, ALLOCATED, NULL, NULL)), rest,
                                HeaderTag(RealSize - op.rounded, UNALLOCATED,
                                          free_list_sentinel, last)),
                          s, HeaderTag(op.rounded, ALLOCATED, NULL, NULL))
      BY <2>6 DEF GrowSplit, FencedHeader
    <3>2. o \in DOMAIN lk /\ lk[o].object_size = header[o].object_size
      BY <1>1, <1>2 DEF Linked, HeaderTags
    <3> HIDE DEF s, e, rest, last, lk
    <3> QED BY <2>4, <3>1, <3>2 DEF Store, Kept
  <2> QED BY <1>6, <2>5, <2>6
<1>7. CASE InsertLink
  <2>1. header' = [Linked(header, op.cursor, header[op.cursor].next, op.object) EXCEPT
                     ![op.object].next = header[op.cursor].next, ![op.object].prev = op.cursor]
    BY <1>7 DEF InsertLink
  <2> QED BY <1>1, <1>2, <2>1 DEF Linked, Kept, HeaderTags
<1>8. ASSUME NEW ptr \in DOMAIN live, Idle, FreeObject(ptr)
      PROVE  Kept(o)
  <2> DEFINE u == HeaderOf(ptr)
             l == LeftHeader(u)
             r == RightHeader(u)
  <2>1. /\ u \in Int /\ ptr = u + HEADER_SIZE /\ u \in O
        /\ RightIs(u, UNALLOCATED) => r \in F
        /\ LeftIs(u, UNALLOCATED) => l \in F
        /\ LeftIs(u, UNALLOCATED) \/ LeftIs(u, ALLOCATED)
        /\ RightIs(u, UNALLOCATED) \/ RightIs(u, ALLOCATED)
    BY <1>8, FreeFacts
  <2>2. u # o
    <3>1. live' = Without(live, {ptr})
      BY <1>8, FreeObjectFacts
    <3>2. p # ptr
      BY <3>1 DEF Without, Restrict
    <3> QED BY <1>1, <2>1, <3>2
  <2>3. CASE FreeAlone(ptr)
    <3>1. header' = [header EXCEPT ![u].status = UNALLOCATED]
      BY <2>3 DEF FreeAlone
    <3> HIDE DEF u
    <3> QED BY <1>1, <1>2, <3>1 DEF Kept, HeaderTags
  <2>4. CASE FreeMergeLeft(ptr)
    <3>1. /\ LeftIs(u, UNALLOCATED)
          /\ header' = [Without(header, {u}) EXCEPT
                          ![l].object_size = header[l].object_size + header[u].object_size]
      BY <2>4 DEF FreeMergeLeft
    <3>2. l # o
      BY <1>1, <2>1, <3>1
    <3> HIDE DEF u, l
    <3> QED BY <1>1, <2>2, <3>1, <3>2 DEF Kept, Without, Restrict
  <2>5. CASE FreeMergeRight(ptr)
    <3> DEFINE size == header[u].object_size + header[r].object_size
               n1 == header[r].next
               p1 == header[r].prev
    <3>1. /\ RightIs(u, UNALLOCATED)
          /\ header' = [Linked(Without(header, {r}), p1, n1, u) EXCEPT
                          ![u] = HeaderTag(size, UNALLOCATED, n1, p1)]
      BY <2>5 DEF FreeMergeRight
    <3>2. r # o
      BY <1>1, <2>1, <3>1
    <3> HIDE DEF u, r, size, n1, p1
    <3> DEFINE w == Without(header, {r})
    <3>3. o \in DOMAIN w /\ w[o] = header[o] /\ w \in [DOMAIN w -> HeaderTags]
      BY <1>1, <1>2, <3>2 DEF Without, Restrict
    <3> HIDE DEF w
    <3>4. header' = [Linked(w, p1, n1, u) EXCEPT ![u] = HeaderTag(size, UNALLOCATED, n1, p1)]
      BY <3>1 DEF w
    <3>5. /\ o \in DOMAIN Linked(w, p1, n1, u)
          /\ Linked(w, p1, n1, u)[o].object_size = header[o].object_size
      BY <3>3 DEF Linked, HeaderTags
    <3> QED BY <2>2, <3>4, <3>5 DEF Kept
  <2>6. CASE FreeMergeBoth(ptr)
    <3> DEFINE size == footer[LeftFooter(u)].object_size
                         + header[u].object_size + header[r].object_size
               n1 == header[r].next
    <3>1. /\ LeftIs(u, UNALLOCATED) /\ RightIs(u, UNALLOCATED)
          /\ header' = [Without(header, {u, r}) EXCEPT
                          ![l].object_size = size, ![l].next = n1, ![n1].prev = l]
      BY <2>1, <2>6 DEF FreeMergeBoth
    <3>2. l # o /\ r # o
      BY <1>1, <2>1, <3>1
    <3> HIDE DEF u, r, l, size, n1
    <3> DEFINE w == Without(header, {u, r})
    <3>3. o \in DOMAIN w /\ w[o] = header[o] /\ w \in [DOMAIN w -> HeaderTags]
      BY <1>1, <1>2, <2>2, <3>2 DEF Without, Restrict
    <3> HIDE DEF w
    <3>4. header' = [w EXCEPT ![l].object_size = size, ![l].next = n1, ![n1].prev = l]
      BY <3>1 DEF w
    <3> QED BY <3>2, <3>3, <3>4 DEF Kept, HeaderTags
  <2> QED BY <1>8, <2>3, <2>4, <2>5, <2>6 DEF FreeObject
<1>9. header' = header \/ TakeWhole \/ Split \/ GrowSplit \/ GrowWhole \/ InsertLink
        \/ \E ptr \in DOMAIN live : Idle /\ FreeObject(ptr)
  BY DEF Next, Program, Continue, AllocateObject, AllocateTooLarge, AllocateStart, ProgramSbrk,
         SearchNext, GrowRefused, InsertNext, vars
<1> QED BY <1>3, <1>4, <1>5, <1>6, <1>7, <1>8, <1>9

\* An allocated object is in no list.
HeadersHeld ==
  \A p \in DOMAIN live :
    /\ header[HeaderOf(p)] \in HeaderTags
    /\ header[HeaderOf(p)].status = ALLOCATED
    /\ header[HeaderOf(p)].next = NULL /\ header[HeaderOf(p)].prev = NULL

LEMMA InvImpliesHeld == Inv => HeadersHeld
<1> SUFFICES ASSUME Inv, NEW p \in DOMAIN live
             PROVE  /\ header[HeaderOf(p)] \in HeaderTags
                    /\ header[HeaderOf(p)].status = ALLOCATED
                    /\ header[HeaderOf(p)].next = NULL /\ header[HeaderOf(p)].prev = NULL
  BY DEF HeadersHeld
<1> DEFINE o == HeaderOf(p)
<1>1. /\ o \in ObjectsOf(header, chunks) /\ o \notin FreeOf(header, chunks)
      /\ o \in DOMAIN header
  BY ObjectHeld
<1> HIDE DEF o
<1>2. header[o] \in HeaderTags
  BY <1>1, HeapFacts
<1>3. header[o].status = ALLOCATED
  <2> DEFINE f == EndOf(header, o) - FOOTER_SIZE
  <2>1. f \in DOMAIN footer /\ footer[f] = FooterTag(Size(header, o), Status(header, o))
    BY <1>1, HeapFacts DEF Shape, Tagged
  <2> HIDE DEF f
  <2>2. Status(header, o) \in {UNALLOCATED, ALLOCATED}
    BY <2>1, HeapFacts DEF FooterTags, FooterTag
  <2> QED BY <1>1, <2>2 DEF FreeOf, Status
<1>4. o \notin Members(Listed)
  BY <1>1, HeapFacts DEF Members, Listed, Free, FreeOf, Status, Objects, ObjectsOf
<1>5. header[o].next = NULL /\ header[o].prev = NULL
  BY <1>1, <1>4, HeapFacts DEF List
<1> QED BY <1>2, <1>3, <1>5 DEF o

LEMMA HeldNext == Inv' => HeadersHeld'
  BY InvImpliesHeld, PTL

\* And its header stays as it is.
LEMMA HeaderKept ==
  ASSUME Inv, [Next]_vars, NEW p \in DOMAIN live, p \in DOMAIN live'
  PROVE  HeaderOf(p) \in DOMAIN header' /\ header'[HeaderOf(p)] = header[HeaderOf(p)]
<1>1. HeadersHeld /\ HeadersHeld'
  BY InvStep, InvImpliesHeld, HeldNext
<1>2. HeaderOf(p) \in DOMAIN header'
      /\ header'[HeaderOf(p)].object_size = header[HeaderOf(p)].object_size
  BY SizesKept DEF Kept
<1>3. HeaderOf(p)' = HeaderOf(p)
  BY DEF HeaderOf
<1> QED BY <1>1, <1>2, <1>3 DEF HeadersHeld, HeaderTags

==============================================================================
