----------------------------- MODULE MCTaskQueue -----------------------------
(* Instances of TaskQueue for TLC. *)
EXTENDS TaskQueue, TLC

CONSTANTS a, b, w1, w2

\* Two notifications, or one notification and one scheduled task.
TwoCalls == (a :> "call") @@ (b :> "call")
CallAndCleanup == (a :> "call") @@ (b :> "cleanup")
CallAndReconcile == (a :> "call") @@ (b :> "reconcile")

\* TLC cannot use symmetry for liveness.  Two idle workers are interchangeable:
\* the first of them takes the next message.  To revoke a task that no worker
\* knows changes nothing but an excuse, so only the other is revoked.  To keep
\* the graph small, the scheduled task is the first to be published.
InOrder ==
  /\ pc[w1] = "idle" /\ pc[w2] = "idle" => pc'[w2] = "idle"
  /\ \A t \in revoked' : Name[t] \in Registered
  /\ a \in published' => b \in published'
OrderedFairSpec ==
  /\ Init /\ [][Next /\ InOrder]_vars
  /\ \A q \in Queue, m \in Message : WF_vars(\E w \in Worker : Take(w, q, m))
  /\ \A w \in Worker : WF_vars(Step(w))
=============================================================================
