----------------------------- MODULE MCReactions -----------------------------
(***************************************************************************)
(* Reactions with few atoms, and what the comments of part2.c say.         *)
(***************************************************************************)
EXTENDS Reactions

\* part2.c:149 and :170: a reaction of NO2 consumes two O2 molecules and one of
\* O3 three.  When every thread has exited or waits, what is left is what O2
\* was produced and not consumed.
AtRest ==
  /\ \A t \in Creators : pc[t] = "exited"
  /\ \A t \in Reactions : pc[t] = "wait" /\ sig[t] = 0

O2AccountedFor ==
  AtRest => num_o2 = made["o2"] - 2 * made["no2"] - 3 * made["o3"]

==============================================================================
