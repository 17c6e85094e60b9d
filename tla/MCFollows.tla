------------------------------ MODULE MCFollows ------------------------------
(* Instances of Follows for TLC. *)
EXTENDS Follows, TLC

CONSTANTS a, b, c, r1, r2, r3

\* Two users who follow each other, and a ring of three.
NamedPairs == {<<a, b>>, <<b, a>>, <<b, c>>, <<c, a>>}

\* Nobody follows, or some of them do.
Graphs == {{}, {<<a, b>>, <<c, a>>}}

\* Requests are interchangeable, and symmetry is unsound for liveness: they
\* start in one fixed order.
RequestOrder == <<r1, r2, r3>>
InOrder ==
  \A i, j \in 1..3 :
    i < j /\ pc'[RequestOrder[j]] # "idle" => pc'[RequestOrder[i]] # "idle"
OrderedFairSpec ==
  /\ Init /\ edges \in Graphs
  /\ [][Next /\ InOrder]_vars
  /\ \A r \in Request : WF_vars(Step(r))
=============================================================================
