--------------------------- MODULE MCRequestState ---------------------------
(* A small instance of RequestState for TLC: requests and commit() calls are *)
(* interchangeable, so both are symmetry sets.                               *)
EXTENDS RequestState, TLC

Symmetry == Permutations(Requests) \cup Permutations(Calls)
=============================================================================
