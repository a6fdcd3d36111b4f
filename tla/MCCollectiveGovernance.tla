------------------------ MODULE MCCollectiveGovernance ------------------------
(* Small instances of CollectiveGovernance for TLC. *)
EXTENDS CollectiveGovernance, TLC

(* Members and votes are interchangeable. *)
Symmetric == Permutations(Members) \cup Permutations(VoteIds)
=============================================================================
