-------------------------- MODULE MCProposalAdoption --------------------------
(* An instance of ProposalAdoption for TLC: proposals are alike, and so    *)
(* are refreshes.                                                          *)
EXTENDS ProposalAdoption, TLC

Alike == Permutations(Choices) \cup Permutations(Refreshes)
=============================================================================
