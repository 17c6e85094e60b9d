--------------------------- MODULE MCRefreshTokens ---------------------------
(* Instances of RefreshTokens for TLC. *)
EXTENDS RefreshTokens, TLC

CONSTANTS t1, t2, t3, t4, f1, f2, u1, r1, r2, r3, r4

\* Both sessions belong to one user: a logout sweeps two families.
OneOwner == [f \in Family |-> u1]

\* TLC cannot use symmetry for liveness.  Requests and tokens are
\* interchangeable, so the liveness run lets requests start, and tokens be
\* issued, in one fixed order only.
TokenOrder == <<t1, t2, t3, t4>>
RequestOrder == <<r1, r2, r3, r4>>
InOrder ==
  /\ \A i, j \in 1..4 : i < j /\ TokenOrder[j] \in issued' => TokenOrder[i] \in issued'
  /\ \A i, j \in 1..4 :
       i < j /\ pc'[RequestOrder[j]] # "idle" => pc'[RequestOrder[i]] # "idle"
OrderedFairSpec ==
  /\ Init /\ [][Next /\ InOrder]_vars
  /\ \A r \in Request : WF_vars(Step(r))

Symmetric == Permutations(Token) \cup Permutations(Request)
=============================================================================
