---------------------------- MODULE BoundedBuffer ----------------------------
(***************************************************************************)
(* Producers and consumers of lab4-src/part1.c: a ring of BUF_SIZE slots,  *)
(* two counting semaphores and a mutex.  Each producer puts the characters *)
(* of prod_str in the ring, each consumer takes as many out.               *)
(*                                                                         *)
(* An operator called Bug... is a plausible mistake in the one after it;   *)
(* the specification never uses it.                                        *)
(***************************************************************************)
EXTENDS Integers, Sequences, FiniteSets

CONSTANTS
  Producers,  \* the threads that run producer()
  Consumers,  \* the threads that run consumer()
  BUF_SIZE,
  prod_str,   \* the characters, as a sequence
  NONE

VARIABLES
  buf,           \* the ring
  head, tail,    \* the next slot to empty, the next slot to fill
  full_sem,      \* slots to be filled (the comment's word for empty ones)
  empty_sem,     \* characters to be emptied
  buffer_mutex,  \* the thread that holds it, or NONE
  pc,            \* thread -> where it is
  i,             \* thread -> how many characters it has done
  main,          \* where the main thread is
  filled,        \* history: slots ever filled
  emptied        \* history: slots ever emptied

vars == <<buf, head, tail, full_sem, empty_sem, buffer_mutex, pc, i, main,
          filled, emptied>>

Threads == Producers \cup Consumers
Slots == 0 .. BUF_SIZE - 1

ASSUME ThreadsAssumption ==
  /\ IsFiniteSet(Producers) /\ IsFiniteSet(Consumers)
  /\ Producers \cap Consumers = {}
  /\ NONE \notin Threads

ASSUME BufferAssumption ==
  /\ BUF_SIZE \in Nat \ {0}
  /\ Len(prod_str) \in Nat

Init ==
  /\ buf = [s \in Slots |-> NONE]
  /\ head = 0
  /\ tail = 0
  /\ full_sem = BUF_SIZE
  /\ empty_sem = 0
  /\ buffer_mutex = NONE
  /\ pc = [t \in Threads |-> "unborn"]
  /\ i = [t \in Threads |-> 0]
  /\ main = "create_producers"
  /\ filled = 0
  /\ emptied = 0

(***************************************************************************)
(* main                                                                    *)
(***************************************************************************)

Ring == <<buf, head, tail, filled, emptied>>

Start(t) ==
  /\ pc[t] = "unborn"
  /\ pc' = [pc EXCEPT ![t] = "loop"]
  /\ UNCHANGED <<Ring, full_sem, empty_sem, buffer_mutex, i, main>>

MainGoes(from, to) ==
  /\ main = from
  /\ main' = to
  /\ UNCHANGED <<Ring, full_sem, empty_sem, buffer_mutex, pc, i>>

\* Which thread of a kind comes first is immaterial: they only differ in the
\* number they print.
CreateProducer(t) == main = "create_producers" /\ Start(t)

ProducersCreated ==
  /\ \A t \in Producers : pc[t] # "unborn"
  /\ MainGoes("create_producers", "create_consumers")

CreateConsumer(t) == main = "create_consumers" /\ Start(t)

ConsumersCreated ==
  /\ \A t \in Consumers : pc[t] # "unborn"
  /\ MainGoes("create_consumers", "join")

\* Every pthread_join has returned: so does main.
MainReturns ==
  /\ \A t \in Threads : pc[t] = "exited"
  /\ MainGoes("join", "returned")

(***************************************************************************)
(* producer and consumer                                                   *)
(***************************************************************************)

\* Thread t goes on from one place to the next.
Step(t, from, to) ==
  /\ pc[t] = from
  /\ pc' = [pc EXCEPT ![t] = to]
  /\ UNCHANGED main

\* The condition of the for loop fails: pthread_exit.
Exit(t) ==
  /\ i[t] = Len(prod_str)
  /\ Step(t, "loop", "exited")
  /\ UNCHANGED <<Ring, full_sem, empty_sem, buffer_mutex, i>>

MutexFree == buffer_mutex = NONE

Lock(t) ==
  /\ Step(t, "lock", "critical")
  /\ MutexFree
  /\ buffer_mutex' = t
  /\ UNCHANGED <<Ring, full_sem, empty_sem, i>>

Unlock(t) ==
  /\ Step(t, "unlock", "post")
  /\ buffer_mutex' = NONE
  /\ UNCHANGED <<Ring, full_sem, empty_sem, i>>

BugWaitsOnNothing == TRUE

\* A producer waits for a slot.
SlotAvailable == full_sem > 0

ProducerWait(t) ==
  /\ i[t] < Len(prod_str)
  /\ SlotAvailable
  /\ full_sem' = full_sem - 1
  /\ Step(t, "loop", "lock")
  /\ UNCHANGED <<Ring, empty_sem, buffer_mutex, i>>

BugStays(index) == index

\* The next slot of the ring.
Advance(index) == (index + 1) % BUF_SIZE

Produce(t) ==
  /\ Step(t, "critical", "unlock")
  /\ buf' = [buf EXCEPT ![tail] = prod_str[i[t] + 1]]
  /\ tail' = Advance(tail)
  /\ filled' = filled + 1
  /\ UNCHANGED <<head, emptied, full_sem, empty_sem, buffer_mutex, i>>

ProducerPost(t) ==
  /\ Step(t, "post", "loop")
  /\ empty_sem' = empty_sem + 1
  /\ i' = [i EXCEPT ![t] = @ + 1]
  /\ UNCHANGED <<Ring, full_sem, buffer_mutex>>

\* A consumer waits for a character.
ConsumerWait(t) ==
  /\ i[t] < Len(prod_str)
  /\ empty_sem > 0
  /\ empty_sem' = empty_sem - 1
  /\ Step(t, "loop", "lock")
  /\ UNCHANGED <<Ring, full_sem, buffer_mutex, i>>

\* The consumer prints the character it expects, prod_str[i], without reading
\* the slot, and gives the slot up.
Consume(t) ==
  /\ Step(t, "critical", "unlock")
  /\ head' = Advance(head)
  /\ emptied' = emptied + 1
  /\ UNCHANGED <<buf, tail, filled, full_sem, empty_sem, buffer_mutex, i>>

BugPostsEmpty(t) ==
  /\ Step(t, "post", "loop")
  /\ empty_sem' = empty_sem + 1
  /\ i' = [i EXCEPT ![t] = @ + 1]
  /\ UNCHANGED <<Ring, full_sem, buffer_mutex>>

ConsumerPost(t) ==
  /\ Step(t, "post", "loop")
  /\ full_sem' = full_sem + 1
  /\ i' = [i EXCEPT ![t] = @ + 1]
  /\ UNCHANGED <<Ring, empty_sem, buffer_mutex>>

Common(t) == Exit(t) \/ Lock(t) \/ Unlock(t)
Producer(t) == Common(t) \/ ProducerWait(t) \/ Produce(t) \/ ProducerPost(t)
Consumer(t) == Common(t) \/ ConsumerWait(t) \/ Consume(t) \/ ConsumerPost(t)

Main ==
  \/ \E t \in Producers : CreateProducer(t)
  \/ ProducersCreated
  \/ \E t \in Consumers : CreateConsumer(t)
  \/ ConsumersCreated
  \/ MainReturns

\* The process ends when main returns.
Ended == main = "returned" /\ UNCHANGED vars

Next ==
  \/ Main
  \/ \E t \in Producers : Producer(t)
  \/ \E t \in Consumers : Consumer(t)
  \/ Ended

\* Every thread is scheduled.  Nobody waits forever for the mutex or for a
\* semaphore that stays up, because every thread has a bounded number of turns.
Fairness ==
  /\ WF_vars(Main)
  /\ \A t \in Producers : WF_vars(Producer(t))
  /\ \A t \in Consumers : WF_vars(Consumer(t))

Spec == Init /\ [][Next]_vars /\ Fairness

(***************************************************************************)
(* Properties                                                              *)
(***************************************************************************)

Places == {"unborn", "loop", "lock", "critical", "unlock", "post", "exited"}

\* Type correctness: the semaphores never go below zero and the indices stay
\* in the ring.
TypeOK ==
  /\ buf \in [Slots -> {prod_str[n] : n \in 1 .. Len(prod_str)} \cup {NONE}]
  /\ head \in Slots /\ tail \in Slots
  /\ full_sem \in Nat /\ empty_sem \in Nat
  /\ buffer_mutex \in Threads \cup {NONE}
  /\ pc \in [Threads -> Places]
  /\ i \in [Threads -> 0 .. Len(prod_str)]
  /\ main \in {"create_producers", "create_consumers", "join", "returned"}
  /\ filled \in Nat /\ emptied \in Nat

\* "This mutex must be held whenever you use the buffer" (part1.c:16): a thread
\* in its critical section holds it, so there is never more than one.
MutexHeld ==
  \A t \in Threads : pc[t] \in {"critical", "unlock"} => buffer_mutex = t

\* No character is overwritten before it is consumed, and none is consumed that
\* was not produced.
BufferBounded == emptied <= filled /\ filled <= emptied + BUF_SIZE

\* Threads between their wait and their post, by what they have done.
Filling == {t \in Producers : pc[t] \in {"lock", "critical"}}
Filled == {t \in Producers : pc[t] \in {"unlock", "post"}}
Emptying == {t \in Consumers : pc[t] \in {"lock", "critical"}}
Emptied == {t \in Consumers : pc[t] \in {"unlock", "post"}}

\* Each slot is accounted for.  An empty one is up for a producer in full_sem,
\* promised to a producer, or about to be posted by a consumer; a full one is
\* up for a consumer in empty_sem, promised to one, or about to be posted.
SlotsAccountedFor ==
  /\ full_sem + Cardinality(Filling) + Cardinality(Emptied) + filled
       = BUF_SIZE + emptied
  /\ empty_sem + Cardinality(Emptying) + Cardinality(Filled) + emptied = filled

\* The slots between head and tail, in order.
Contents ==
  [k \in 1 .. (filled - emptied) |-> buf[(head + k - 1) % BUF_SIZE]]

Queue == INSTANCE BoundedQueue WITH
  Capacity <- BUF_SIZE,
  Values <- {prod_str[n] : n \in 1 .. Len(prod_str)},
  queue <- Contents

\* The ring is a bounded first-in first-out queue.
ImplementsQueue == Queue!Spec

\* "If an equal number of consumers and producers are started, they will all
\* exit" (part1.c:82): main returns.
AllExit == <>(main = "returned")

==============================================================================
