---------------------------- MODULE MCIdempotency ----------------------------
(* Instances of Idempotency for TLC. *)
EXTENDS Idempotency, TLC
Symmetric == Permutations(Request) \cup Permutations(Payload) \cup Permutations(Key)
=============================================================================
