------------------------- MODULE BoundedBufferProofs -------------------------
(***************************************************************************)
(* Proofs about BoundedBuffer, for any number of threads, any string and   *)
(* any size of the ring: types, mutual exclusion, that every slot is       *)
(* accounted for, so that the ring never overflows or underflows, and that *)
(* the ring is the queue of BoundedQueue.                                  *)
(***************************************************************************)
EXTENDS BoundedBuffer, FiniteSetTheorems, SequenceTheorems, TLAPS

\* A thread that is past its wait has a character left to do.
InLoop ==
  \A t \in Threads :
    pc[t] \in {"lock", "critical", "unlock", "post"} => i[t] < Len(prod_str)

\* The types and the loop bound support each other: Produce reads
\* prod_str[i + 1], and the posts increment i.
TypeInv == TypeOK /\ InLoop

\* Initially the types are right.
LEMMA TypeInit == Init => TypeInv
  BY ThreadsAssumption, BufferAssumption
  DEF Init, TypeInv, TypeOK, InLoop, Threads, Slots, Places

\* Every step keeps them right.
LEMMA TypeStep == TypeInv /\ [Next]_vars => TypeInv'
<1> USE ThreadsAssumption, BufferAssumption
    DEF TypeInv, TypeOK, InLoop, Threads, Slots, Places, Ring
<1> SUFFICES ASSUME TypeInv, [Next]_vars
             PROVE  TypeInv'
  OBVIOUS
<1>1. CASE Main
  BY <1>1 DEF Main, CreateProducer, CreateConsumer, Start, ProducersCreated,
              ConsumersCreated, MainReturns, MainGoes
<1>2. ASSUME NEW t \in Threads, Common(t)
      PROVE  TypeInv'
  BY <1>2 DEF Common, Exit, Lock, Unlock, Step
<1>3. ASSUME NEW t \in Producers, ProducerWait(t)
      PROVE  TypeInv'
  BY <1>3 DEF ProducerWait, SlotAvailable, Step
<1>4. ASSUME NEW t \in Producers, Produce(t)
      PROVE  TypeInv'
  BY <1>4 DEF Produce, Step, Advance
<1>5. ASSUME NEW t \in Producers, ProducerPost(t)
      PROVE  TypeInv'
  BY <1>5 DEF ProducerPost, Step
<1>6. ASSUME NEW t \in Consumers, ConsumerWait(t)
      PROVE  TypeInv'
  BY <1>6 DEF ConsumerWait, Step
<1>7. ASSUME NEW t \in Consumers, Consume(t)
      PROVE  TypeInv'
  BY <1>7 DEF Consume, Step, Advance
<1>8. ASSUME NEW t \in Consumers, ConsumerPost(t)
      PROVE  TypeInv'
  BY <1>8 DEF ConsumerPost, Step
<1>9. CASE UNCHANGED vars
  BY <1>9 DEF vars
<1> QED
  BY <1>1, <1>2, <1>3, <1>4, <1>5, <1>6, <1>7, <1>8, <1>9
  DEF Next, Producer, Consumer, Ended

\* TypeOK holds throughout: no semaphore goes below zero, no index leaves the
\* ring or the string (part1.c:53-70, 97-120).
THEOREM TypeCorrect == Spec => []TypeOK
<1>1. Spec => []TypeInv
  BY TypeInit, TypeStep, PTL DEF Spec
<1> QED
  BY <1>1, PTL DEF TypeInv

(***************************************************************************)
(* Mutual exclusion                                                        *)
(***************************************************************************)

LEMMA MutexInit == Init => MutexHeld
  BY DEF Init, MutexHeld

\* Only Lock lets a thread into its critical section, when nobody has the
\* mutex; only the thread that has it gives it back.
LEMMA MutexStep == TypeInv /\ MutexHeld /\ [Next]_vars => MutexHeld'
<1> USE DEF MutexHeld
<1> SUFFICES ASSUME TypeInv, MutexHeld, [Next]_vars
             PROVE  MutexHeld'
  OBVIOUS
<1> pc \in [Threads -> Places]
  BY DEF TypeInv, TypeOK
<1>1. CASE Main
  BY <1>1 DEF Main, CreateProducer, CreateConsumer, Start, ProducersCreated,
              ConsumersCreated, MainReturns, MainGoes, Threads
<1>2. ASSUME NEW t \in Threads, Lock(t)
      PROVE  MutexHeld'
  <2>1. \A u \in Threads : pc[u] \notin {"critical", "unlock"}
    BY <1>2, ThreadsAssumption DEF Lock, MutexFree
  <2> QED
    BY <1>2, <2>1 DEF Lock, Step
<1>3. ASSUME NEW t \in Threads, Unlock(t)
      PROVE  MutexHeld'
  <2>1. \A u \in Threads \ {t} : pc[u] \notin {"critical", "unlock"}
    BY <1>3 DEF Unlock, Step
  <2> QED
    BY <1>3, <2>1 DEF Unlock, Step
<1>4. ASSUME NEW t \in Threads, Exit(t)
      PROVE  MutexHeld'
  BY <1>4 DEF Exit, Step
<1>5. ASSUME NEW t \in Producers, ProducerWait(t) \/ Produce(t) \/ ProducerPost(t)
      PROVE  MutexHeld'
  BY <1>5 DEF ProducerWait, Produce, ProducerPost, Step, Threads
<1>6. ASSUME NEW t \in Consumers, ConsumerWait(t) \/ Consume(t) \/ ConsumerPost(t)
      PROVE  MutexHeld'
  BY <1>6 DEF ConsumerWait, Consume, ConsumerPost, Step, Threads
<1>7. CASE UNCHANGED vars
  BY <1>7 DEF vars
<1> QED
  BY <1>1, <1>2, <1>3, <1>4, <1>5, <1>6, <1>7
  DEF Next, Producer, Consumer, Common, Ended, Threads

\* The buffer is used only by the thread that holds buffer_mutex
\* (part1.c:16).
THEOREM MutualExclusion == Spec => []MutexHeld
<1>1. Spec => []TypeInv
  BY TypeInit, TypeStep, PTL DEF Spec
<1> QED
  BY <1>1, MutexInit, MutexStep, PTL DEF Spec

(***************************************************************************)
(* The slots                                                               *)
(***************************************************************************)

\* One thread comes into, or goes out of, a finite set.
LEMMA OneMore ==
  ASSUME NEW S, NEW T, NEW t, IsFiniteSet(S), t \notin S, T = S \cup {t}
  PROVE  IsFiniteSet(T) /\ Cardinality(T) = Cardinality(S) + 1
  BY FS_AddElement

LEMMA OneLess ==
  ASSUME NEW S, NEW T, NEW t, IsFiniteSet(S), t \in S, T = S \ {t}
  PROVE  IsFiniteSet(T) /\ Cardinality(T) = Cardinality(S) - 1
  BY FS_RemoveElement

\* The four sets are finite, so that their cardinalities are numbers.
LEMMA SetsFinite ==
  /\ IsFiniteSet(Filling) /\ Cardinality(Filling) \in Nat
  /\ IsFiniteSet(Filled) /\ Cardinality(Filled) \in Nat
  /\ IsFiniteSet(Emptying) /\ Cardinality(Emptying) \in Nat
  /\ IsFiniteSet(Emptied) /\ Cardinality(Emptied) \in Nat
<1>1. /\ Filling \subseteq Producers /\ Filled \subseteq Producers
      /\ Emptying \subseteq Consumers /\ Emptied \subseteq Consumers
  BY DEF Filling, Filled, Emptying, Emptied
<1> QED
  BY <1>1, ThreadsAssumption, FS_Subset, FS_CardinalityType

LEMMA SlotsInit == Init => SlotsAccountedFor
<1> SUFFICES ASSUME Init
             PROVE  SlotsAccountedFor
  OBVIOUS
<1>1. /\ Filling = {} /\ Filled = {} /\ Emptying = {} /\ Emptied = {}
  BY DEF Init, Filling, Filled, Emptying, Emptied, Threads
<1>2. Cardinality({}) = 0
  BY FS_EmptySet
<1> QED
  BY <1>1, <1>2, BufferAssumption DEF Init, SlotsAccountedFor

\* A step that leaves the counters and the four sets alone.
LEMMA SlotsUnchanged ==
  ASSUME SlotsAccountedFor,
         UNCHANGED <<full_sem, empty_sem, filled, emptied>>,
         UNCHANGED <<Filling, Filled, Emptying, Emptied>>
  PROVE  SlotsAccountedFor'
  BY DEF SlotsAccountedFor

\* Every step keeps the account: a wait moves a slot from a semaphore to a
\* thread, Produce and Consume change what the slot is, a post gives it to the
\* other semaphore.
LEMMA SlotsStep == TypeInv /\ SlotsAccountedFor /\ [Next]_vars => SlotsAccountedFor'
<1> SUFFICES ASSUME TypeInv, SlotsAccountedFor, [Next]_vars
             PROVE  SlotsAccountedFor'
  OBVIOUS
<1> USE ThreadsAssumption, BufferAssumption
<1>t. /\ pc \in [Threads -> Places]
      /\ full_sem \in Nat /\ empty_sem \in Nat
      /\ filled \in Nat /\ emptied \in Nat
  BY DEF TypeInv, TypeOK
<1>fs. full_sem \in Nat  BY <1>t
<1>es. empty_sem \in Nat  BY <1>t
<1>fd. filled \in Nat  BY <1>t
<1>ed. emptied \in Nat  BY <1>t
<1>c1. Cardinality(Filling) \in Nat  BY SetsFinite
<1>c2. Cardinality(Filled) \in Nat  BY SetsFinite
<1>c3. Cardinality(Emptying) \in Nat  BY SetsFinite
<1>c4. Cardinality(Emptied) \in Nat  BY SetsFinite
<1>b. BUF_SIZE \in Nat  BY BufferAssumption
<1>1. CASE Main
  <2>1. UNCHANGED <<Filling, Filled, Emptying, Emptied>>
    BY <1>1, <1>t DEF Main, CreateProducer, CreateConsumer, Start,
          ProducersCreated, ConsumersCreated, MainReturns, MainGoes, Threads,
          Filling, Filled, Emptying, Emptied
  <2>2. UNCHANGED <<full_sem, empty_sem, filled, emptied>>
    BY <1>1 DEF Main, CreateProducer, CreateConsumer, Start, ProducersCreated,
          ConsumersCreated, MainReturns, MainGoes, Ring
  <2> QED
    BY <2>1, <2>2, SlotsUnchanged
<1>2. ASSUME NEW t \in Threads, Common(t)
      PROVE  SlotsAccountedFor'
  <2>1. UNCHANGED <<Filling, Filled, Emptying, Emptied>>
    BY <1>2, <1>t DEF Common, Exit, Lock, Unlock, Step, Threads,
          Filling, Filled, Emptying, Emptied
  <2>2. UNCHANGED <<full_sem, empty_sem, filled, emptied>>
    BY <1>2 DEF Common, Exit, Lock, Unlock, Ring
  <2> QED
    BY <2>1, <2>2, SlotsUnchanged
<1>3. ASSUME NEW t \in Producers, ProducerWait(t)
      PROVE  SlotsAccountedFor'
  <2>1. t \notin Filling /\ Filling' = Filling \cup {t}
    BY <1>3, <1>t DEF ProducerWait, Step, Threads, Filling
  <2>2. UNCHANGED <<Filled, Emptying, Emptied>>
    BY <1>3, <1>t DEF ProducerWait, Step, Threads, Filled, Emptying, Emptied
  <2>3. Cardinality(Filling') = Cardinality(Filling) + 1
    BY <2>1, OneMore, SetsFinite
  <2> QED
    BY <1>3, <1>t, <2>2, <2>3, SetsFinite DEF ProducerWait, Ring, SlotsAccountedFor
<1>4. ASSUME NEW t \in Producers, Produce(t)
      PROVE  SlotsAccountedFor'
  <2>1. t \in Filling /\ Filling' = Filling \ {t}
    BY <1>4, <1>t DEF Produce, Step, Threads, Filling
  <2>2. t \notin Filled /\ Filled' = Filled \cup {t}
    BY <1>4, <1>t DEF Produce, Step, Threads, Filled
  <2>3. UNCHANGED <<Emptying, Emptied>>
    BY <1>4, <1>t DEF Produce, Step, Threads, Emptying, Emptied
  <2>4. /\ Cardinality(Filling') = Cardinality(Filling) - 1
        /\ Cardinality(Filled') = Cardinality(Filled) + 1
    BY <2>1, <2>2, OneLess, OneMore, SetsFinite
  <2>5. /\ Cardinality(Emptying') = Cardinality(Emptying)
        /\ Cardinality(Emptied') = Cardinality(Emptied)
    BY <2>3
  <2>6. filled' = filled + 1 /\ UNCHANGED <<emptied, full_sem, empty_sem>>
    BY <1>4 DEF Produce
  <2>7. full_sem + Cardinality(Filling) + Cardinality(Emptied) + filled
          = BUF_SIZE + emptied
    BY DEF SlotsAccountedFor
  <2>8. empty_sem + Cardinality(Emptying) + Cardinality(Filled) + emptied = filled
    BY DEF SlotsAccountedFor
  <2>9. full_sem' + Cardinality(Filling') + Cardinality(Emptied') + filled'
          = BUF_SIZE + emptied'
    BY ONLY <1>fs, <1>es, <1>fd, <1>ed, <1>c1, <1>c2, <1>c3, <1>c4, <1>b,
       <2>4, <2>5, <2>6, <2>7
  <2>10. empty_sem' + Cardinality(Emptying') + Cardinality(Filled') + emptied' = filled'
    BY ONLY <1>fs, <1>es, <1>fd, <1>ed, <1>c1, <1>c2, <1>c3, <1>c4, <1>b,
       <2>4, <2>5, <2>6, <2>8
  <2> QED
    BY <2>9, <2>10 DEF SlotsAccountedFor
<1>5. ASSUME NEW t \in Producers, ProducerPost(t)
      PROVE  SlotsAccountedFor'
  <2>1. t \in Filled /\ Filled' = Filled \ {t}
    BY <1>5, <1>t DEF ProducerPost, Step, Threads, Filled
  <2>2. UNCHANGED <<Filling, Emptying, Emptied>>
    BY <1>5, <1>t DEF ProducerPost, Step, Threads, Filling, Emptying, Emptied
  <2>3. Cardinality(Filled') = Cardinality(Filled) - 1
    BY <2>1, OneLess, SetsFinite
  <2> QED
    BY <1>5, <1>t, <2>2, <2>3, SetsFinite DEF ProducerPost, Ring, SlotsAccountedFor
<1>6. ASSUME NEW t \in Consumers, ConsumerWait(t)
      PROVE  SlotsAccountedFor'
  <2>1. t \notin Emptying /\ Emptying' = Emptying \cup {t}
    BY <1>6, <1>t DEF ConsumerWait, Step, Threads, Emptying
  <2>2. UNCHANGED <<Filling, Filled, Emptied>>
    BY <1>6, <1>t DEF ConsumerWait, Step, Threads, Filling, Filled, Emptied
  <2>3. Cardinality(Emptying') = Cardinality(Emptying) + 1
    BY <2>1, OneMore, SetsFinite
  <2> QED
    BY <1>6, <1>t, <2>2, <2>3, SetsFinite DEF ConsumerWait, Ring, SlotsAccountedFor
<1>7. ASSUME NEW t \in Consumers, Consume(t)
      PROVE  SlotsAccountedFor'
  <2>1. t \in Emptying /\ Emptying' = Emptying \ {t}
    BY <1>7, <1>t DEF Consume, Step, Threads, Emptying
  <2>2. t \notin Emptied /\ Emptied' = Emptied \cup {t}
    BY <1>7, <1>t DEF Consume, Step, Threads, Emptied
  <2>3. UNCHANGED <<Filling, Filled>>
    BY <1>7, <1>t DEF Consume, Step, Threads, Filling, Filled
  <2>4. /\ Cardinality(Emptying') = Cardinality(Emptying) - 1
        /\ Cardinality(Emptied') = Cardinality(Emptied) + 1
    BY <2>1, <2>2, OneLess, OneMore, SetsFinite
  <2>5. /\ Cardinality(Filling') = Cardinality(Filling)
        /\ Cardinality(Filled') = Cardinality(Filled)
    BY <2>3
  <2>6. emptied' = emptied + 1 /\ UNCHANGED <<filled, full_sem, empty_sem>>
    BY <1>7 DEF Consume
  <2>7. full_sem + Cardinality(Filling) + Cardinality(Emptied) + filled
          = BUF_SIZE + emptied
    BY DEF SlotsAccountedFor
  <2>8. empty_sem + Cardinality(Emptying) + Cardinality(Filled) + emptied = filled
    BY DEF SlotsAccountedFor
  <2>9. full_sem' + Cardinality(Filling') + Cardinality(Emptied') + filled'
          = BUF_SIZE + emptied'
    BY ONLY <1>fs, <1>es, <1>fd, <1>ed, <1>c1, <1>c2, <1>c3, <1>c4, <1>b,
       <2>4, <2>5, <2>6, <2>7
  <2>10. empty_sem' + Cardinality(Emptying') + Cardinality(Filled') + emptied' = filled'
    BY ONLY <1>fs, <1>es, <1>fd, <1>ed, <1>c1, <1>c2, <1>c3, <1>c4, <1>b,
       <2>4, <2>5, <2>6, <2>8
  <2> QED
    BY <2>9, <2>10 DEF SlotsAccountedFor
<1>8. ASSUME NEW t \in Consumers, ConsumerPost(t)
      PROVE  SlotsAccountedFor'
  <2>1. t \in Emptied /\ Emptied' = Emptied \ {t}
    BY <1>8, <1>t DEF ConsumerPost, Step, Threads, Emptied
  <2>2. UNCHANGED <<Filling, Filled, Emptying>>
    BY <1>8, <1>t DEF ConsumerPost, Step, Threads, Filling, Filled, Emptying
  <2>3. Cardinality(Emptied') = Cardinality(Emptied) - 1
    BY <2>1, OneLess, SetsFinite
  <2> QED
    BY <1>8, <1>t, <2>2, <2>3, SetsFinite DEF ConsumerPost, Ring, SlotsAccountedFor
<1>9. CASE UNCHANGED vars
  BY <1>9, SlotsUnchanged DEF vars, Filling, Filled, Emptying, Emptied
<1> QED
  BY <1>1, <1>2, <1>3, <1>4, <1>5, <1>6, <1>7, <1>8, <1>9
  DEF Next, Producer, Consumer, Ended, Threads

\* The semaphores count what they are said to count (part1.c:18-27), with the
\* threads between a wait and a post making up the difference.
THEOREM SlotsCorrect == Spec => []SlotsAccountedFor
<1>1. Spec => []TypeInv
  BY TypeInit, TypeStep, PTL DEF Spec
<1> QED
  BY <1>1, SlotsInit, SlotsStep, PTL DEF Spec

\* The ring never overflows and never underflows, for any number of producers
\* and consumers.
THEOREM NoOverflow == Spec => []BufferBounded
<1>1. TypeOK /\ SlotsAccountedFor => BufferBounded
  BY SetsFinite, BufferAssumption DEF TypeOK, SlotsAccountedFor, BufferBounded
<1> QED
  BY <1>1, TypeCorrect, SlotsCorrect, PTL

(***************************************************************************)
(* The ring is a queue                                                     *)
(***************************************************************************)

Values == {prod_str[n] : n \in 1 .. Len(prod_str)}

\* The next slot to fill is the one after the slots that are full.
TailInv == tail = (head + (filled - emptied)) % BUF_SIZE

\* An index that has gone round the ring at most once.
LEMMA Around ==
  ASSUME NEW x \in 0 .. BUF_SIZE + BUF_SIZE - 1
  PROVE  x % BUF_SIZE = IF x < BUF_SIZE THEN x ELSE x - BUF_SIZE
<1>1. CASE x < BUF_SIZE
  BY <1>1, BufferAssumption
<1>2. CASE x >= BUF_SIZE
  BY <1>2, BufferAssumption
<1> QED
  BY <1>1, <1>2, BufferAssumption

\* To go on from an index is to go on from where it is in the ring.
LEMMA GoesOn ==
  ASSUME NEW x \in Nat, NEW y \in Nat, x + y < BUF_SIZE + BUF_SIZE
  PROVE  ((x % BUF_SIZE) + y) % BUF_SIZE = (x + y) % BUF_SIZE
<1> DEFINE r == x % BUF_SIZE
<1>a. x \in 0 .. BUF_SIZE + BUF_SIZE - 1
  BY BufferAssumption
<1>1. r = IF x < BUF_SIZE THEN x ELSE x - BUF_SIZE
  BY <1>a, Around
<1>2. x + y \in 0 .. BUF_SIZE + BUF_SIZE - 1
  BY BufferAssumption
<1> HIDE DEF r
<1>3. r + y \in 0 .. BUF_SIZE + BUF_SIZE - 1
  BY <1>1, BufferAssumption
<1> DEFINE p == r + y
           q == x + y
<1>4. (r = x /\ p = q) \/ (p = q - BUF_SIZE /\ p < BUF_SIZE /\ q >= BUF_SIZE)
  BY <1>1, BufferAssumption
<1>5. p \in 0 .. BUF_SIZE + BUF_SIZE - 1 /\ q \in 0 .. BUF_SIZE + BUF_SIZE - 1
  BY <1>2, <1>3
<1> HIDE DEF p, q
<1>6. /\ p % BUF_SIZE = IF p < BUF_SIZE THEN p ELSE p - BUF_SIZE
      /\ q % BUF_SIZE = IF q < BUF_SIZE THEN q ELSE q - BUF_SIZE
  BY <1>5, Around
<1>7. p % BUF_SIZE = q % BUF_SIZE
  BY <1>4, <1>5, <1>6, BufferAssumption
<1> QED
  BY <1>7 DEF p, q, r

\* Less than a turn of the ring apart, two indices are in different slots.
LEMMA Apart ==
  ASSUME NEW x \in Nat, NEW y \in Nat, x < y, y < x + BUF_SIZE,
         y < BUF_SIZE + BUF_SIZE
  PROVE  /\ x % BUF_SIZE \in 0 .. BUF_SIZE - 1
         /\ x % BUF_SIZE # y % BUF_SIZE
<1>1. x \in 0 .. BUF_SIZE + BUF_SIZE - 1 /\ y \in 0 .. BUF_SIZE + BUF_SIZE - 1
  BY BufferAssumption
<1>2. /\ x % BUF_SIZE = IF x < BUF_SIZE THEN x ELSE x - BUF_SIZE
      /\ y % BUF_SIZE = IF y < BUF_SIZE THEN y ELSE y - BUF_SIZE
  BY <1>1, Around
<1> QED
  BY <1>1, <1>2, BufferAssumption

\* A producer in its critical section has room, a consumer in its one has a
\* character to take: their semaphores promised it.
LEMMA Room ==
  ASSUME TypeInv, SlotsAccountedFor
  PROVE  /\ BufferBounded
         /\ \A t \in Producers : pc[t] = "critical" => filled < emptied + BUF_SIZE
         /\ \A t \in Consumers : pc[t] = "critical" => emptied < filled
<1> USE SetsFinite, BufferAssumption DEF TypeInv, TypeOK
<1>1. BufferBounded
  BY DEF SlotsAccountedFor, BufferBounded
<1>2. ASSUME NEW t \in Producers, pc[t] = "critical"
      PROVE  filled < emptied + BUF_SIZE
  <2>1. t \in Filling
    BY <1>2 DEF Filling
  <2>2. Cardinality(Filling) # 0
    BY <2>1, FS_EmptySet
  <2> QED
    BY <2>2 DEF SlotsAccountedFor
<1>3. ASSUME NEW t \in Consumers, pc[t] = "critical"
      PROVE  emptied < filled
  <2>1. t \in Emptying
    BY <1>3 DEF Emptying
  <2>2. Cardinality(Emptying) # 0
    BY <2>1, FS_EmptySet
  <2> QED
    BY <2>2 DEF SlotsAccountedFor
<1> QED
  BY <1>1, <1>2, <1>3

\* The contents are a sequence, as long as what is full.
LEMMA ContentsSequence ==
  ASSUME TypeInv, BufferBounded
  PROVE  /\ Contents \in Seq(Values \cup {NONE})
         /\ Len(Contents) = filled - emptied
<1> DEFINE n == filled - emptied
<1>1. n \in 0 .. BUF_SIZE
  BY BufferAssumption DEF TypeInv, TypeOK, BufferBounded
<1>2. ASSUME NEW k \in 1 .. n
      PROVE  buf[(head + k - 1) % BUF_SIZE] \in Values \cup {NONE}
  <2>1. (head + k - 1) % BUF_SIZE \in Slots
    BY <1>1, Around, BufferAssumption DEF TypeInv, TypeOK, Slots
  <2> QED
    BY <2>1 DEF TypeInv, TypeOK, Values
<1>3. Contents \in [1 .. n -> Values \cup {NONE}]
  BY <1>2 DEF Contents
<1> HIDE DEF n
<1>4. Contents \in Seq(Values \cup {NONE}) /\ Len(Contents) = n
  BY <1>1, <1>3
<1> QED
  BY <1>4 DEF n

LEMMA ContentsAgain ==
  TypeInv /\ BufferBounded => /\ Contents \in Seq(Values \cup {NONE})
                              /\ Len(Contents) = filled - emptied
  BY ContentsSequence

LEMMA ContentsNext ==
  TypeInv' /\ BufferBounded' => (/\ Contents \in Seq(Values \cup {NONE})
                                 /\ Len(Contents) = filled - emptied)'
  BY ContentsAgain, PTL

\* Produce puts its character behind the contents: it fills a slot that none
\* of them is in.
LEMMA ProducePuts ==
  ASSUME TypeInv, TypeInv', SlotsAccountedFor, SlotsAccountedFor', TailInv,
         NEW t \in Producers, Produce(t)
  PROVE  TailInv' /\ Queue!Next
<1> DEFINE n == filled - emptied
           c == prod_str[i[t] + 1]
<1> USE BufferAssumption
<1>t. /\ head \in 0 .. BUF_SIZE - 1 /\ tail \in 0 .. BUF_SIZE - 1
      /\ filled \in Nat /\ emptied \in Nat
      /\ buf \in [0 .. BUF_SIZE - 1 -> Values \cup {NONE}]
      /\ i[t] \in Nat
  BY DEF TypeInv, TypeOK, Slots, Values, Threads
<1>1. n \in 0 .. BUF_SIZE - 1
  BY Room, <1>t DEF Produce, Step, BufferBounded
<1>2. /\ buf' = [buf EXCEPT ![tail] = c]
      /\ tail' = (tail + 1) % BUF_SIZE
      /\ head' = head /\ emptied' = emptied /\ filled' = filled + 1
  BY DEF Produce, Advance
<1>3. c \in Values
  <2>1. i[t] < Len(prod_str)
    BY DEF Produce, Step, TypeInv, InLoop, Threads
  <2> QED
    BY <2>1, <1>t DEF Values
<1>4. tail = (head + n) % BUF_SIZE
  BY DEF TailInv
<1>5. /\ Contents \in Seq(Values \cup {NONE}) /\ Len(Contents) = n
      /\ \A k \in 1 .. n : Contents[k] = buf[(head + k - 1) % BUF_SIZE]
  BY ContentsSequence, Room DEF Contents
<1>6. /\ Contents' \in Seq(Values \cup {NONE}) /\ Len(Contents') = n + 1
  <2>1. BufferBounded'
    BY Room, <1>1, <1>2, <1>t DEF BufferBounded
  <2>2. TypeInv' /\ BufferBounded' => /\ Contents' \in Seq(Values \cup {NONE})
                                    /\ Len(Contents') = filled' - emptied'
    BY ContentsNext
  <2> QED
    BY <2>1, <2>2, <1>2, <1>t
<1>7. \A k \in 1 .. n + 1 : Contents'[k] = buf'[(head + k - 1) % BUF_SIZE]
  BY <1>2, <1>t DEF Contents
<1> HIDE DEF n, c
<1>8. TailInv'
  <2>1. filled' - emptied' = n + 1
    BY <1>2, <1>t DEF n
  <2>2. (tail + 1) % BUF_SIZE = (head + n + 1) % BUF_SIZE
    <3>1. head + n \in Nat /\ head + n + 1 < BUF_SIZE + BUF_SIZE
      BY <1>1, <1>t
    <3>2. (((head + n) % BUF_SIZE) + 1) % BUF_SIZE = (head + n + 1) % BUF_SIZE
      BY <3>1, GoesOn
    <3> QED
      BY <3>2, <1>4
  <2>3. (head + (n + 1)) = (head + n + 1)
    BY <1>1, <1>t
  <2> QED
    BY <2>1, <2>2, <2>3, <1>2 DEF TailInv
<1>9. \A k \in 1 .. n : Contents'[k] = Contents[k]
  <2> SUFFICES ASSUME NEW k \in 1 .. n
               PROVE  Contents'[k] = Contents[k]
    OBVIOUS
  <2>1. /\ (head + k - 1) % BUF_SIZE \in 0 .. BUF_SIZE - 1
        /\ (head + k - 1) % BUF_SIZE # tail
    <3> DEFINE x == head + k - 1
               y == head + n
    <3>1. /\ x \in Nat /\ y \in Nat /\ x < y /\ y < x + BUF_SIZE
          /\ y < BUF_SIZE + BUF_SIZE
      BY <1>1, <1>t
    <3> HIDE DEF x, y
    <3>2. x % BUF_SIZE \in 0 .. BUF_SIZE - 1 /\ x % BUF_SIZE # y % BUF_SIZE
      BY <3>1, Apart
    <3> QED
      BY <3>2, <1>4 DEF x, y
  <2> QED
    BY <2>1, <1>1, <1>2, <1>5, <1>7, <1>t
<1>10. Contents'[n + 1] = c
  BY <1>1, <1>2, <1>4, <1>7, <1>t
<1>11. Contents' = Append(Contents, c)
  <2>1. /\ Append(Contents, c) \in Seq(Values \cup {NONE})
        /\ Len(Append(Contents, c)) = n + 1
        /\ \A k \in 1 .. n : Append(Contents, c)[k] = Contents[k]
        /\ Append(Contents, c)[n + 1] = c
    BY <1>1, <1>3, <1>5
  <2>2. \A k \in 1 .. n + 1 : Contents'[k] = Append(Contents, c)[k]
    BY <2>1, <1>1, <1>9, <1>10
  <2> QED
    BY <2>1, <2>2, <1>6, SeqEqual
<1>12. Queue!Put(c)
  BY <1>1, <1>5, <1>11 DEF Queue!Put
<1> QED
  BY <1>3, <1>8, <1>12 DEF Queue!Next, Values

\* Consume takes the first of the contents.
LEMMA ConsumeGets ==
  ASSUME TypeInv, TypeInv', SlotsAccountedFor, SlotsAccountedFor', TailInv,
         NEW t \in Consumers, Consume(t)
  PROVE  TailInv' /\ Queue!Next
<1> DEFINE n == filled - emptied
<1> USE BufferAssumption
<1>t. /\ head \in 0 .. BUF_SIZE - 1 /\ tail \in 0 .. BUF_SIZE - 1
      /\ filled \in Nat /\ emptied \in Nat
  BY DEF TypeInv, TypeOK, Slots
<1>1. n \in 1 .. BUF_SIZE
  BY Room, <1>t DEF Consume, Step, BufferBounded
<1>2. /\ buf' = buf /\ tail' = tail
      /\ head' = (head + 1) % BUF_SIZE
      /\ emptied' = emptied + 1 /\ filled' = filled
  BY DEF Consume, Advance
<1>3. ASSUME NEW m \in 0 .. BUF_SIZE - 1
      PROVE  (head' + m) % BUF_SIZE = (head + 1 + m) % BUF_SIZE
  <2> DEFINE x == head + 1
  <2>1. x \in Nat /\ m \in Nat /\ x + m < BUF_SIZE + BUF_SIZE
    BY <1>t
  <2> HIDE DEF x
  <2>2. ((x % BUF_SIZE) + m) % BUF_SIZE = (x + m) % BUF_SIZE
    BY <2>1, GoesOn
  <2> QED
    BY <2>2, <1>2 DEF x
<1>4. tail = (head + n) % BUF_SIZE
  BY DEF TailInv
<1>5. /\ Contents \in Seq(Values \cup {NONE}) /\ Len(Contents) = n
      /\ \A k \in 1 .. n : Contents[k] = buf[(head + k - 1) % BUF_SIZE]
  BY ContentsSequence, Room DEF Contents
<1>6. /\ Contents' \in Seq(Values \cup {NONE}) /\ Len(Contents') = n - 1
  <2>1. BufferBounded'
    BY Room, <1>1, <1>2, <1>t DEF BufferBounded
  <2>2. TypeInv' /\ BufferBounded' => /\ Contents' \in Seq(Values \cup {NONE})
                                    /\ Len(Contents') = filled' - emptied'
    BY ContentsNext
  <2> QED
    BY <2>1, <2>2, <1>2, <1>t
<1>7. \A k \in 1 .. n - 1 : Contents'[k] = buf[(head' + k - 1) % BUF_SIZE]
  BY <1>2, <1>t DEF Contents
<1> HIDE DEF n
<1>8. TailInv'
  <2>1. filled' - emptied' = n - 1
    BY <1>2, <1>t DEF n
  <2>2. (head + n) % BUF_SIZE = (head' + (n - 1)) % BUF_SIZE
    <3>1. n - 1 \in 0 .. BUF_SIZE - 1 /\ head + 1 + (n - 1) = head + n
      BY <1>1, <1>t
    <3> QED
      BY <3>1, <1>3
  <2> QED
    BY <2>1, <2>2, <1>2, <1>4 DEF TailInv
<1>9. \A k \in 1 .. n - 1 : Contents'[k] = Contents[k + 1]
  <2> SUFFICES ASSUME NEW k \in 1 .. n - 1
               PROVE  Contents'[k] = Contents[k + 1]
    OBVIOUS
  <2>1. (head' + k - 1) % BUF_SIZE = (head + (k + 1) - 1) % BUF_SIZE
    <3>1. /\ k - 1 \in 0 .. BUF_SIZE - 1
          /\ head + 1 + (k - 1) = head + (k + 1) - 1
          /\ head' + (k - 1) = head' + k - 1
      BY <1>1, <1>2, <1>t
    <3> QED
      BY <3>1, <1>3
  <2> QED
    BY <2>1, <1>1, <1>5, <1>7
<1>10. Contents # <<>>
  BY <1>1, <1>5
<1>11. Contents' = Tail(Contents)
  <2>1. /\ Tail(Contents) \in Seq(Values \cup {NONE})
        /\ Len(Tail(Contents)) = n - 1
        /\ \A k \in 1 .. n - 1 : Tail(Contents)[k] = Contents[k + 1]
    BY <1>1, <1>5, <1>10
  <2> QED
    BY <2>1, <1>6, <1>9, SeqEqual
<1> QED
  BY <1>8, <1>10, <1>11 DEF Queue!Next, Queue!Get

\* No other step touches the ring.
LEMMA OthersStutter ==
  ASSUME TailInv, UNCHANGED Ring
  PROVE  TailInv' /\ UNCHANGED Contents
  BY DEF TailInv, Ring, Contents

\* A step of the threads is a step of the queue or leaves it alone.
LEMMA QueueStep ==
  TypeInv /\ TypeInv' /\ SlotsAccountedFor /\ SlotsAccountedFor' /\ TailInv /\ [Next]_vars
    => TailInv' /\ [Queue!Next]_Contents
<1> SUFFICES ASSUME TypeInv, TypeInv', SlotsAccountedFor, SlotsAccountedFor',
                    TailInv, [Next]_vars
             PROVE  TailInv' /\ [Queue!Next]_Contents
  OBVIOUS
<1>1. ASSUME NEW t \in Producers, Produce(t)
      PROVE  TailInv' /\ Queue!Next
  BY <1>1, ProducePuts
<1>2. ASSUME NEW t \in Consumers, Consume(t)
      PROVE  TailInv' /\ Queue!Next
  BY <1>2, ConsumeGets
<1>3. \/ UNCHANGED Ring
      \/ \E t \in Producers : Produce(t)
      \/ \E t \in Consumers : Consume(t)
  BY DEF Next, Main, CreateProducer, CreateConsumer, Start, ProducersCreated,
     ConsumersCreated, MainReturns, MainGoes, Producer, Consumer, Common, Exit,
     Lock, Unlock, ProducerWait, ProducerPost, ConsumerWait, ConsumerPost,
     Ended, vars, Ring
<1> QED
  BY <1>1, <1>2, <1>3, OthersStutter

\* The ring is empty at the start.
LEMMA QueueInit == Init => TailInv /\ Queue!Init
<1> SUFFICES ASSUME Init
             PROVE  TailInv /\ Queue!Init
  OBVIOUS
<1>1. TailInv
  BY Around, BufferAssumption DEF Init, TailInv
<1>2. Contents = <<>>
  BY DEF Init, Contents
<1> QED
  BY <1>1, <1>2 DEF Queue!Init

\* The ring of part1.c, with its semaphores and its mutex, is a bounded
\* first-in first-out queue: what Produce does is to put a character behind
\* the others if there is room, what Consume does is to take the first.
THEOREM RingIsQueue == Spec => ImplementsQueue
<1>1. Spec => [](TypeInv /\ SlotsAccountedFor)
  BY TypeInit, TypeStep, SlotsInit, SlotsStep, PTL DEF Spec
<1> QED
  BY <1>1, QueueInit, QueueStep, PTL DEF Spec, ImplementsQueue, Queue!Spec

==============================================================================
