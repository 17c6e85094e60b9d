---------------------------- MODULE MCRateLimiter ----------------------------
(* Instances of RateLimiter for TLC. *)
EXTENDS RateLimiter, FiniteSets, TLC

CONSTANTS r1, r2, r3, r4

\* Requests are interchangeable, and TLC cannot use symmetry for liveness: they
\* arrive in one fixed order.
Order == <<r1, r2, r3, r4>>
InOrder ==
  \A i, j \in 1..Cardinality(Request) : i < j /\ checkPc'[Order[j]] # "idle" => checkPc'[Order[i]] # "idle"
OrderedFairSpec ==
  /\ BucketInit /\ [][BucketNext /\ InOrder]_bucketVars
  /\ \A r \in Request : WF_bucketVars(CheckStep(r))
=============================================================================
