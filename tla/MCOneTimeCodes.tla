--------------------------- MODULE MCOneTimeCodes ---------------------------
(* Instances of OneTimeCodes for TLC. *)
EXTENDS OneTimeCodes, TLC
Symmetric == Permutations(Request) \cup Permutations(Code)
=============================================================================
