--------------------------- MODULE MCBoardRequests ---------------------------
(* Small instances of BoardRequests for TLC. *)
EXTENDS BoardRequests, TLC

Symmetry == Permutations(Requests) \cup Permutations(Handlers) \cup Permutations(Texts)
=============================================================================
