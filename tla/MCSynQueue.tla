----------------------------- MODULE MCSynQueue -----------------------------
(* Instances of SynQueue for TLC.  The three sets are interchangeable      *)
(* inside themselves: no definition picks a particular member.             *)
EXTENDS SynQueue, TLC

Symmetry == Permutations(Producers) \cup Permutations(Consumers) \cup Permutations(Msgs)
=============================================================================
