--------------------------- MODULE ReactionsProofs ---------------------------
(***************************************************************************)
(* Proofs about Reactions, for any numbers of atoms: types, that no update *)
(* under the mutex is lost, and that a false reaction happens once.        *)
(***************************************************************************)
EXTENDS Reactions, TLAPS

USE AtomsAssumption

\* Initially the types are right.
LEMMA TypeInit == Init => TypeOK
  BY DEF Init, Nothing, TypeOK, counts, Threads, Creators, Reactions

\* Every step keeps them right.
LEMMA TypeStep == TypeOK /\ [Next]_vars => TypeOK'
<1> USE DEF TypeOK, counts, Threads, Creators, Reactions, Step, Store, SignalIf, Nothing,
            CanLock, Counters
<1> SUFFICES ASSUME TypeOK, [Next]_vars
             PROVE  TypeOK'
  OBVIOUS
<1>1. CASE Oxygen
  BY <1>1 DEF Oxygen, Update, NextAtom, Lock, Load, CreateOxygen, SignalO2
<1>2. CASE Nitrogen
  BY <1>2 DEF Nitrogen, Update, NextAtom, Lock, Load, CreateNitrogen, SignalN2
<1>3. ASSUME NEW t \in Reactions, Reaction(t)
      PROVE  TypeOK'
  BY <1>3 DEF Reaction, Update, Check, Wait, Lock, Load, Signalled
<1>4. CASE CreateN2 \/ CreateO2 \/ CreateNO2 \/ CreateO3
  BY <1>4 DEF CreateN2, CreateO2, CreateNO2, CreateO3
<1>5. CASE SeeO2 \/ SeeN2 \/ SeeO3 \/ CheckO2
  BY <1>5 DEF SeeO2, SeeN2, SeeO3, CheckO2
<1>6. CASE LoadO2 \/ StoreO2
  BY <1>6 DEF LoadO2, StoreO2
<1>7. CASE UNCHANGED vars
  BY <1>7 DEF vars
<1> QED
  BY <1>1, <1>2, <1>3, <1>4, <1>5, <1>6, <1>7 DEF Next, N2, O2, NO2, O3

\* The counts are integers and the semaphores never go below zero
\* (part2.c:9-29).
THEOREM TypeCorrect == Spec => []TypeOK
  BY TypeInit, TypeStep, PTL DEF Spec

(***************************************************************************)
(* Atoms                                                                   *)
(***************************************************************************)

\* What num_o2 can be: the decrements of create_o2 and of create_o3 may be lost.
O2Counted(n) == n >= made["o2"] - 2 * aside - 3 * made["o3"] /\ n <= made["o2"]

\* A thread between the lock and the unlock holds the mutex, so what it loaded is
\* still there when it stores.  Only num_o2 may be decremented meanwhile.
LoadedInv ==
  /\ \A t \in Threads : pc[t] \in {"locked", "loaded"} => reaction_mutex = t
  /\ pc["oxygen"] = "loaded" => reg["oxygen"].to = num_oxygen
  /\ pc["nitrogen"] = "loaded" => reg["nitrogen"].to = num_nitrogen
  /\ pc["o2"] = "loaded" => reg["o2"].from = num_oxygen /\ O2Counted(reg["o2"].to)
  /\ pc["n2"] = "loaded" => reg["n2"].from = num_nitrogen /\ reg["n2"].to = num_n2
  /\ pc["no2"] = "loaded" => reg["no2"].from = num_n2
  /\ pc["o3"] = "loaded" => O2Counted(reg["o3"].from)
  /\ pc["o2"] = "store" => O2Counted(reg["o2"].from)

AtomsInv == LoadedInv /\ AtomsAccountedFor

LEMMA AtomsInit == Init => AtomsInv
  BY DEF Init, AtomsInv, LoadedInv, AtomsAccountedFor, Threads, Creators, Reactions

\* A step under the mutex adds to a counter what it adds to the molecules made,
\* with the opposite sign, because nobody stored since it loaded.
LEMMA AtomsStep == TypeOK /\ AtomsInv /\ [Next]_vars => AtomsInv'
<1> USE DEF TypeOK, AtomsInv, LoadedInv, O2Counted, AtomsAccountedFor, counts,
            Threads, Creators, Reactions, Step, Store, SignalIf, Nothing
<1> SUFFICES ASSUME TypeOK, AtomsInv, [Next]_vars
             PROVE  AtomsInv'
  OBVIOUS
<1>1. ASSUME NEW t \in Threads, Lock(t)
      PROVE  AtomsInv'
  BY <1>1 DEF Lock, CanLock
<1>2. ASSUME NEW t \in Threads, Load(t)
      PROVE  AtomsInv'
  BY <1>2 DEF Load, Counters
<1>3. ASSUME NEW t \in Creators, NextAtom(t)
      PROVE  AtomsInv'
  BY <1>3 DEF NextAtom
<1>4. ASSUME NEW t \in Reactions, Check(t) \/ Wait(t)
      PROVE  AtomsInv'
  BY <1>4 DEF Check, Wait
<1>5. CASE SignalO2 \/ SignalN2
  BY <1>5 DEF SignalO2, SignalN2
<1>6. CASE CreateOxygen \/ CreateNitrogen \/ CreateNO2
  BY <1>6 DEF CreateOxygen, CreateNitrogen, CreateNO2
<1>7. CASE CreateN2 \/ CreateO2 \/ CreateO3
  BY <1>7 DEF CreateN2, CreateO2, CreateO3
<1>8. CASE SeeO2 \/ SeeN2 \/ SeeO3 \/ CheckO2
  BY <1>8 DEF SeeO2, SeeN2, SeeO3, CheckO2
<1>9. CASE LoadO2 \/ StoreO2
  BY <1>9 DEF LoadO2, StoreO2
<1>10. CASE UNCHANGED vars
  BY <1>10 DEF vars
<1> QED
  BY <1>1, <1>2, <1>3, <1>4, <1>5, <1>6, <1>7, <1>8, <1>9, <1>10
     DEF Next, Oxygen, Nitrogen, N2, O2, NO2, O3, Reaction, Update

\* No atom of oxygen or nitrogen and no molecule of N2 or O2 is lost or made
\* twice: the mutex keeps apart the threads that load and store the same counter,
\* and the decrement outside it can only leave num_o2 too large
\* (part2.c:47-50, 96-178).
THEOREM AtomsConserved == Spec => []AtomsAccountedFor
<1>1. Spec => []AtomsInv
  BY TypeCorrect, AtomsInit, AtomsStep, PTL DEF Spec
<1>2. AtomsInv => AtomsAccountedFor
  BY DEF AtomsInv
<1> QED
  BY <1>1, <1>2, PTL

(***************************************************************************)
(* False reactions                                                         *)
(***************************************************************************)

\* Until its creator signals, and while the signal is up, the reaction is on its
\* way only if it has seen a pair.  The signal that lets it go on without
\* looking comes once, and finds no pair missing yet.
WokenOnce(creator, reaction, atoms) ==
  /\ atoms >= -2
  /\ sig[reaction] \in {0, 1}
  /\ pc[creator] # "exited" => sig[reaction] = 0
  /\ pc[creator] # "exited" \/ sig[reaction] = 1 =>
       /\ atoms >= 0
       /\ pc[reaction] \in {"lock", "locked", "loaded"} => atoms >= 2
  /\ pc[reaction] \in {"lock", "locked", "loaded"} => atoms >= 0

WokenInv ==
  /\ WokenOnce("oxygen", "o2", num_oxygen)
  /\ WokenOnce("nitrogen", "n2", num_nitrogen)

LEMMA WokenInit == Init => WokenInv
  BY DEF Init, WokenInv, WokenOnce, Threads, Creators, Reactions

LEMMA WokenStep == TypeOK /\ AtomsInv /\ WokenInv /\ [Next]_vars => WokenInv'
<1> USE DEF TypeOK, WokenInv, WokenOnce, counts, Threads, Creators, Reactions,
            Step, Store, SignalIf
<1> SUFFICES ASSUME TypeOK, LoadedInv, WokenInv, [Next]_vars
             PROVE  WokenInv'
  BY DEF AtomsInv
<1>1. ASSUME NEW t \in Threads, Lock(t) \/ Load(t)
      PROVE  WokenInv'
  BY <1>1 DEF Lock, Load
<1>2. ASSUME NEW t \in Creators, NextAtom(t)
      PROVE  WokenInv'
  BY <1>2 DEF NextAtom
<1>3. ASSUME NEW t \in Reactions, Check(t) \/ Wait(t)
      PROVE  WokenInv'
  <2>1. CASE t = "o2"
    BY <1>3, <2>1 DEF Check, Enough, Wait, Signalled
  <2>2. CASE t = "n2"
    BY <1>3, <2>2 DEF Check, Enough, Wait, Signalled
  <2>3. CASE t \in {"no2", "o3"}
    BY <1>3, <2>3 DEF Check, Wait
  <2> QED
    BY <2>1, <2>2, <2>3
<1>4. CASE SignalO2
  BY <1>4 DEF SignalO2, PairLeft
<1>5. CASE SignalN2
  BY <1>5 DEF SignalN2, PairLeft
<1>6. CASE CreateOxygen \/ CreateNitrogen
  BY <1>6 DEF CreateOxygen, CreateNitrogen, LoadedInv
<1>7. CASE CreateN2 \/ CreateO2
  BY <1>7 DEF CreateN2, CreateO2, LoadedInv
<1>8. CASE CreateNO2 \/ CreateO3
  BY <1>8 DEF CreateNO2, CreateO3
<1>9. CASE SeeO2 \/ SeeN2 \/ SeeO3 \/ CheckO2
  BY <1>9 DEF SeeO2, SeeN2, SeeO3, CheckO2
<1>10. CASE LoadO2 \/ StoreO2
  BY <1>10 DEF LoadO2, StoreO2
<1>11. CASE UNCHANGED vars
  BY <1>11 DEF vars
<1> QED
  BY <1>1, <1>2, <1>3, <1>4, <1>5, <1>6, <1>7, <1>8, <1>9, <1>10, <1>11
     DEF Next, Oxygen, Nitrogen, N2, O2, NO2, O3, Reaction, Update

\* However many atoms there are, a reaction takes a pair that is not there once
\* at most (part2.c:97-110, 121-127).
THEOREM FalseReactions == Spec => []OneFalseReaction
<1>1. Spec => []WokenInv
  BY TypeCorrect, AtomsInit, AtomsStep, WokenInit, WokenStep, PTL DEF Spec
<1>2. WokenInv => OneFalseReaction
  BY DEF WokenInv, WokenOnce, OneFalseReaction
<1> QED
  BY <1>1, <1>2, PTL

==============================================================================
