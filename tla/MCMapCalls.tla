----------------------------- MODULE MCMapCalls -----------------------------
(* Symmetry for the runs of MapCalls: nothing tells the legs, the briefs or *)
(* the captures apart.                                                      *)
EXTENDS MapCalls, TLC

Alike == Permutations(Legs) \cup Permutations(Briefs) \cup Permutations(Captures)
=============================================================================
