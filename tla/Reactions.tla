------------------------------ MODULE Reactions ------------------------------
(***************************************************************************)
(* The chemical reactions of lab4-src/part2.c: two threads create atoms,   *)
(* four combine them into molecules for ever.  The counters are written    *)
(* under reaction_mutex, but for one decrement of num_o2, and read without *)
(* it to decide whether to wait on a semaphore; once woken, a thread does  *)
(* not look again.                                                         *)
(*                                                                         *)
(* A look at a counter outside the mutex is a step of its own.  An update  *)
(* is two, a load and a store, with the mutex or without it: that nothing  *)
(* comes in between is for the mutex to see to.                            *)
(*                                                                         *)
(* A thread is named by what it makes, and so is the semaphore it waits on.*)
(* An operator called Bug... is a plausible mistake in the one after it;   *)
(* the specification never uses it.                                        *)
(***************************************************************************)
EXTENDS Integers

CONSTANTS
  oxy_num,  \* oxygen atoms to create, the first argument of main
  nit_num   \* nitrogen atoms to create, the second

VARIABLES
  num_oxygen, num_nitrogen, num_o2, num_n2,
  reaction_mutex,  \* the thread that holds it, or "none"
  sig,             \* the semaphores sig_o2, sig_n2, sig_no2 and sig_o3
  pc,              \* thread -> where it is
  reg,             \* thread -> what it loaded, 0 again once it is stored
  made,            \* history: how often each thread has made what it makes
  aside            \* history: how often num_o2 was decremented for create_no2

counts == <<num_oxygen, num_nitrogen, num_o2, num_n2>>
vars == <<counts, reaction_mutex, sig, pc, reg, made, aside>>

ASSUME AtomsAssumption == oxy_num \in Nat /\ nit_num \in Nat

Creators == {"oxygen", "nitrogen"}
Reactions == {"o2", "n2", "no2", "o3"}
Threads == Creators \cup Reactions

\* The counter a thread takes from and the one it adds to, as it loaded them.
Nothing == [from |-> 0, to |-> 0]

\* The mutex and the semaphores are initialized before any thread is created.
Init ==
  /\ num_oxygen = 0 /\ num_nitrogen = 0 /\ num_o2 = 0 /\ num_n2 = 0
  /\ reaction_mutex = "none"
  /\ sig = [t \in Reactions |-> 0]
  /\ pc = [t \in Threads |-> IF t \in Creators THEN "loop" ELSE "check"]
  /\ reg = [t \in Threads |-> Nothing]
  /\ made = [t \in Threads |-> 0]
  /\ aside = 0

Step(t, from, to) ==
  /\ pc[t] = from
  /\ pc' = [pc EXCEPT ![t] = to]

BugForgetsMutex(t) == t = "o3" \/ reaction_mutex = "none"
CanLock(t) == reaction_mutex = "none"

\* pthread_mutex_lock
Lock(t) ==
  /\ Step(t, "lock", "locked")
  /\ CanLock(t)
  /\ reaction_mutex' = t
  /\ UNCHANGED <<counts, sig, reg, made, aside>>

\* The counters thread t updates under the mutex.
Counters(t) ==
  CASE t = "oxygen"   -> [from |-> 0, to |-> num_oxygen]
    [] t = "nitrogen" -> [from |-> 0, to |-> num_nitrogen]
    [] t = "o2"       -> [from |-> num_oxygen, to |-> num_o2]
    [] t = "n2"       -> [from |-> num_nitrogen, to |-> num_n2]
    [] t = "no2"      -> [from |-> num_n2, to |-> 0]
    [] t = "o3"       -> [from |-> num_o2, to |-> 0]

Load(t) ==
  /\ Step(t, "locked", "loaded")
  /\ reg' = [reg EXCEPT ![t] = Counters(t)]
  /\ UNCHANGED <<counts, reaction_mutex, sig, made, aside>>

\* Thread t stores, has made one more, and unlocks.
Store(t, to) ==
  /\ Step(t, "loaded", to)
  /\ reg' = [reg EXCEPT ![t] = Nothing]
  /\ made' = [made EXCEPT ![t] = @ + 1]
  /\ reaction_mutex' = "none"
  /\ UNCHANGED <<sig, aside>>

\* Thread t posts the semaphore of a reaction if there is enough for it.
SignalIf(enough, reaction) ==
  /\ sig' = IF enough THEN [sig EXCEPT ![reaction] = @ + 1] ELSE sig
  /\ UNCHANGED <<counts, reaction_mutex, reg, made, aside>>

(***************************************************************************)
(* create_oxygen and create_nitrogen                                       *)
(***************************************************************************)

HowMany(t) == IF t = "oxygen" THEN oxy_num ELSE nit_num

\* The condition of the for loop.
NextAtom(t) ==
  /\ Step(t, "loop", IF made[t] < HowMany(t) THEN "lock" ELSE "signal")
  /\ UNCHANGED <<counts, reaction_mutex, sig, reg, made, aside>>

CreateOxygen ==
  /\ Store("oxygen", "loop")
  /\ num_oxygen' = reg["oxygen"].to + 1
  /\ UNCHANGED <<num_nitrogen, num_o2, num_n2>>

CreateNitrogen ==
  /\ Store("nitrogen", "loop")
  /\ num_nitrogen' = reg["nitrogen"].to + 1
  /\ UNCHANGED <<num_oxygen, num_o2, num_n2>>

BugSignalsTooLate(atoms) == atoms > 2

\* There is a pair of atoms left.
PairLeft(atoms) == atoms >= 2

\* All atoms are there.  The thread exits.
SignalO2 ==
  /\ Step("oxygen", "signal", "exited")
  /\ SignalIf(PairLeft(num_oxygen), "o2")

SignalN2 ==
  /\ Step("nitrogen", "signal", "exited")
  /\ SignalIf(PairLeft(num_nitrogen), "n2")

(***************************************************************************)
(* create_n2, create_o2, create_no2 and create_o3                          *)
(***************************************************************************)

\* What a thread looks for before it decides not to wait.
Enough(t) ==
  CASE t = "n2"  -> num_nitrogen >= 2
    [] t = "o2"  -> num_oxygen >= 2
    [] t = "no2" -> num_n2 >= 1
    [] t = "o3"  -> num_o2 >= 3

\* create_no2 goes on to look at num_o2.
Check(t) ==
  /\ Step(t, "check", IF ~Enough(t) THEN "wait"
                      ELSE IF t = "no2" THEN "check_o2" ELSE "lock")
  /\ UNCHANGED <<counts, reaction_mutex, sig, reg, made, aside>>

CheckO2 ==
  /\ Step("no2", "check_o2", IF num_o2 >= 2 THEN "lock" ELSE "wait")
  /\ UNCHANGED <<counts, reaction_mutex, sig, reg, made, aside>>

BugDoesNotWait(t) == TRUE
Signalled(t) == sig[t] > 0

\* sem_wait
Wait(t) ==
  /\ Step(t, "wait", "lock")
  /\ Signalled(t)
  /\ sig' = [sig EXCEPT ![t] = @ - 1]
  /\ UNCHANGED <<counts, reaction_mutex, reg, made, aside>>

CreateN2 ==
  /\ Store("n2", "check")
  /\ num_nitrogen' = reg["n2"].from - 2
  /\ num_n2' = reg["n2"].to + 1
  /\ UNCHANGED <<num_oxygen, num_o2>>

CreateO2 ==
  /\ Store("o2", "see_o2")
  /\ num_oxygen' = reg["o2"].from - 2
  /\ num_o2' = reg["o2"].to + 1
  /\ UNCHANGED <<num_nitrogen, num_n2>>

\* num_o2 >= 2 && num_n2 >= 1, the first operand.
SeeO2 ==
  /\ Step("o2", "see_o2", IF num_o2 >= 2 THEN "see_n2" ELSE "see_o3")
  /\ UNCHANGED <<counts, reaction_mutex, sig, reg, made, aside>>

\* The second operand, and sem_post(&sig_no2).
SeeN2 ==
  /\ Step("o2", "see_n2", IF num_n2 >= 1 THEN "load" ELSE "see_o3")
  /\ SignalIf(num_n2 >= 1, "no2")

\* num_o2 -= 2 on behalf of create_no2, outside the mutex.
LoadO2 ==
  /\ Step("o2", "load", "store")
  /\ reg' = [reg EXCEPT !["o2"] = [from |-> num_o2, to |-> 0]]
  /\ UNCHANGED <<counts, reaction_mutex, sig, made, aside>>

StoreO2 ==
  /\ Step("o2", "store", "see_o3")
  /\ num_o2' = reg["o2"].from - 2
  /\ reg' = [reg EXCEPT !["o2"] = Nothing]
  /\ aside' = aside + 1
  /\ UNCHANGED <<num_oxygen, num_nitrogen, num_n2, reaction_mutex, sig, made>>

SeeO3 ==
  /\ Step("o2", "see_o3", "check")
  /\ SignalIf(num_o2 >= 3, "o3")

CreateNO2 ==
  /\ Store("no2", "check")
  /\ num_n2' = reg["no2"].from - 1
  /\ UNCHANGED <<num_oxygen, num_nitrogen, num_o2>>

CreateO3 ==
  /\ Store("o3", "check")
  /\ num_o2' = reg["o3"].from - 3
  /\ UNCHANGED <<num_oxygen, num_nitrogen, num_n2>>

(***************************************************************************)
(* The specification                                                       *)
(***************************************************************************)

Update(t) == Lock(t) \/ Load(t)
Oxygen == NextAtom("oxygen") \/ Update("oxygen") \/ CreateOxygen \/ SignalO2
Nitrogen == NextAtom("nitrogen") \/ Update("nitrogen") \/ CreateNitrogen \/ SignalN2

Reaction(t) == Check(t) \/ Wait(t) \/ Update(t)
N2 == Reaction("n2") \/ CreateN2
O2 == Reaction("o2") \/ CreateO2 \/ SeeO2 \/ SeeN2 \/ LoadO2 \/ StoreO2 \/ SeeO3
NO2 == Reaction("no2") \/ CheckO2 \/ CreateNO2
O3 == Reaction("o3") \/ CreateO3

Next == Oxygen \/ Nitrogen \/ N2 \/ O2 \/ NO2 \/ O3

\* Every thread is scheduled; each waits for the mutex only finitely often,
\* because the atoms and the signals run out.
Spec ==
  /\ Init /\ [][Next]_vars
  /\ WF_vars(Oxygen) /\ WF_vars(Nitrogen)
  /\ WF_vars(N2) /\ WF_vars(O2) /\ WF_vars(NO2) /\ WF_vars(O3)

(***************************************************************************)
(* Properties                                                              *)
(***************************************************************************)

\* Type correctness.  The counts are integers: some go below zero.
TypeOK ==
  /\ {num_oxygen, num_nitrogen, num_o2, num_n2} \subseteq Int
  /\ reaction_mutex \in Threads \cup {"none"}
  /\ sig \in [Reactions -> Nat]
  /\ pc \in [Threads ->
       {"loop", "lock", "locked", "signal", "exited", "check", "check_o2",
        "wait", "see_o2", "see_n2", "load", "store", "see_o3", "loaded"}]
  /\ reg \in [Threads -> [from : Int, to : Int]]
  /\ made \in [Threads -> Nat]
  /\ aside \in Nat

\* No update is lost where the mutex guards them all: each atom of oxygen and of
\* nitrogen is still there or in a molecule, and so is each molecule of N2.
\* num_o2 is also decremented without the mutex: a decrement may be lost, by
\* create_o2 or by create_o3, but no molecule of O2 that was made.
AtomsAccountedFor ==
  /\ num_oxygen + 2 * made["o2"] = made["oxygen"]
  /\ num_nitrogen + 2 * made["n2"] = made["nitrogen"]
  /\ num_n2 + made["no2"] = made["n2"]
  /\ num_o2 >= made["o2"] - 2 * aside - 3 * made["o3"]
  /\ num_o2 <= made["o2"]

\* A thread that was woken does not look again, but it is woken once at most:
\* it takes a pair that is not there once, and never more.
OneFalseReaction == num_oxygen >= -2 /\ num_nitrogen >= -2

\* No wakeup is lost: in the end no pair of atoms is left apart, though the
\* last atoms may come while the reaction is on its way to the semaphore.
PairsCombine == <>[](num_oxygen < 2 /\ num_nitrogen < 2)

==============================================================================
