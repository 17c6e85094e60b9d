------------------------------ MODULE TaskQueue ------------------------------
(***************************************************************************)
(* Background tasks: the Celery configuration of app/celery_app.py and the *)
(* task bodies under app/tasks, on RabbitMQ.  A message is removed from    *)
(* its queue when a worker acknowledges it after the run (acks_late); a    *)
(* failed run is rejected and goes to the dead-letter queue; a lost worker *)
(* has its message delivered again.  The worker is started without -Q, so  *)
(* it consumes every queue of task_queues: the dead-letter queue too.  An  *)
(* administrator can revoke a task and purge the queues.                   *)
(***************************************************************************)
EXTENDS Naturals

CONSTANTS Task,        \* task messages, each published once
          Name,        \* Name[t]: which task function t calls
          MaxRetries,  \* max_retries of the tasks that retry (3)
          Worker, None,
          MaxFaults    \* bound on lost workers and on runs rejected early

(* "call" is a task a route sends with .delay(), "cleanup", "reconcile"    *)
(* and "flush" are the entries of beat_schedule.                           *)
TaskName == {"call", "cleanup", "reconcile", "flush"}

(* app/tasks/__init__.py imports email_tasks, notification_tasks and       *)
(* otp_cleanup_task; autodiscovery imports no other task module.           *)
Registered == {"call", "cleanup"}

ASSUME NameAssumption == Name \in [Task -> TaskName]
ASSUME MaxRetriesAssumption == MaxRetries \in Nat
ASSUME MaxFaultsAssumption == MaxFaults \in Nat

Queue   == {"celery", "dead_letter_queue"}
Message == [task : Task, retries : 0..MaxRetries]
Job     == [queue : Queue, msg : Message]

ASSUME NoneAssumption == None \notin Job

VARIABLES ready,      \* ready[q][m]: copies of m waiting in queue q
          job,        \* job[w]: the delivery worker w has not acknowledged
          pc,
          published,
          dropped,    \* tasks of which a message was rejected for good
          purged,     \* tasks of which a message was purged
          revoked,    \* tasks an administrator revoked
          effects,    \* effects[t]: how often the change of t was committed
          failures,   \* failures[t]: how many runs of t raised
          cut,        \* cut[t]: how many runs of t were rejected early
          hurt,       \* tasks of which a run failed after its commit, or that
                      \* lost a worker
          faults

vars == <<ready, job, pc, published, dropped, purged, revoked, effects, failures,
          cut, hurt, faults>>

TypeOK ==
  /\ ready \in [Queue -> [Message -> Nat]]
  /\ job \in [Worker -> Job \cup {None}]
  /\ pc \in [Worker -> {"idle", "running", "committed", "raised", "republished"}]
  /\ \A w \in Worker : pc[w] # "idle" => job[w] \in Job
  /\ published \subseteq Task
  /\ dropped \subseteq Task
  /\ purged \subseteq Task
  /\ revoked \subseteq Task
  /\ effects \in [Task -> Nat]
  /\ failures \in [Task -> Nat]
  /\ cut \in [Task -> Nat]
  /\ hurt \subseteq Task
  /\ faults \in Nat

Init ==
  /\ ready = [q \in Queue |-> [m \in Message |-> 0]]
  /\ job = [w \in Worker |-> None]
  /\ pc = [w \in Worker |-> "idle"]
  /\ published = {}
  /\ dropped = {}
  /\ purged = {}
  /\ revoked = {}
  /\ effects = [t \in Task |-> 0]
  /\ failures = [t \in Task |-> 0]
  /\ cut = [t \in Task |-> 0]
  /\ hurt = {}
  /\ faults = 0

Goto(w, l) == pc' = [pc EXCEPT ![w] = l]
TaskOf(w) == job[w].msg.task
Put(q, m) == ready' = [ready EXCEPT ![q][m] = @ + 1]
Settle(w) == job' = [job EXCEPT ![w] = None] /\ Goto(w, "idle")

(* basic.reject without requeue.  Queue "celery" dead-letters the message; *)
(* "dead_letter_queue" has no dead-letter exchange, so there it is gone.   *)
Rejected(w) ==
  /\ IF job[w].queue = "celery"
       THEN Put("dead_letter_queue", job[w].msg) /\ UNCHANGED dropped
       ELSE dropped' = dropped \cup {TaskOf(w)} /\ UNCHANGED ready
  /\ Settle(w)

CountFault == faults < MaxFaults /\ faults' = faults + 1

Limit(t) == IF Name[t] = "call" THEN MaxRetries ELSE 0

(* A route calls .delay(), or the beat sends an entry that is due.         *)
Publish(t) ==
  /\ t \notin published
  /\ published' = published \cup {t}
  /\ Put("celery", [task |-> t, retries |-> 0])
  /\ UNCHANGED <<job, pc, dropped, purged, revoked, effects, failures, cut,
                 hurt, faults>>

\* BUG variant: a message other workers already took is delivered once more.
TakeTwice(w, q, m) ==
  /\ pc[w] = "idle"
  /\ m.task \in published
  /\ ready' = [ready EXCEPT ![q][m] = @ - 1]
  /\ job' = [job EXCEPT ![w] = [queue |-> q, msg |-> m]]
  /\ Goto(w, "running")
  /\ UNCHANGED <<published, dropped, purged, revoked, effects, failures, cut,
                 hurt, faults>>

(* worker_prefetch_multiplier = 1: a worker slot holds one message.        *)
Take(w, q, m) ==
  /\ pc[w] = "idle"
  /\ ready[q][m] > 0
  /\ ready' = [ready EXCEPT ![q][m] = @ - 1]
  /\ job' = [job EXCEPT ![w] = [queue |-> q, msg |-> m]]
  /\ Goto(w, "running")
  /\ UNCHANGED <<published, dropped, purged, revoked, effects, failures, cut,
                 hurt, faults>>

(* The task does what it is for: the notification row is committed, the    *)
(* mail is sent, the expired codes are deleted.                            *)
Commit(w) ==
  /\ pc[w] = "running"
  /\ Name[TaskOf(w)] \in Registered
  /\ effects' = [effects EXCEPT ![TaskOf(w)] = @ + 1]
  /\ Goto(w, "committed")
  /\ UNCHANGED <<ready, job, published, dropped, purged, revoked, failures, cut,
                 hurt, faults>>

(* The task raises, before or after that (the refresh of the row, the      *)
(* reply of the mail server).                                              *)
Raise(w) ==
  /\ pc[w] \in {"running", "committed"}
  /\ Name[TaskOf(w)] \in Registered
  /\ failures' = [failures EXCEPT ![TaskOf(w)] = @ + 1]
  /\ hurt' = IF pc[w] = "committed" THEN hurt \cup {TaskOf(w)} ELSE hurt
  /\ Goto(w, "raised")
  /\ UNCHANGED <<ready, job, published, dropped, purged, revoked, effects, cut,
                 faults>>

(* self.retry: a copy with one retry more is published to the queue the    *)
(* message came from; its countdown only delays it.                        *)
Retry(w) ==
  /\ pc[w] = "raised"
  /\ job[w].msg.retries < Limit(TaskOf(w))
  /\ Put(job[w].queue, [job[w].msg EXCEPT !.retries = @ + 1])
  /\ Goto(w, "republished")
  /\ UNCHANGED <<job, published, dropped, purged, revoked, effects, failures,
                 cut, hurt, faults>>

\* BUG variant: the message whose retry was published is put back as well.
AckRequeues(w) ==
  /\ pc[w] \in {"committed", "republished"}
  /\ IF pc[w] = "republished" THEN Put(job[w].queue, job[w].msg) ELSE UNCHANGED ready
  /\ Settle(w)
  /\ UNCHANGED <<published, dropped, purged, revoked, effects, failures, cut,
                 hurt, faults>>

(* The message is acknowledged after the run, or after its retry has been  *)
(* published.                                                              *)
Ack(w) ==
  /\ pc[w] \in {"committed", "republished"}
  /\ Settle(w)
  /\ UNCHANGED <<ready, published, dropped, purged, revoked, effects, failures,
                 cut, hurt, faults>>

\* BUG variant: any failed run is rejected, retries or not.
RejectAtOnce(w) ==
  /\ \/ pc[w] = "raised"
     \/ pc[w] = "running" /\ Name[TaskOf(w)] \notin Registered
  /\ Rejected(w)
  /\ UNCHANGED <<published, purged, revoked, effects, failures, cut, hurt,
                 faults>>

\* BUG variant: off by one, no message ever has more retries than allowed.
RejectPastLimit(w) ==
  /\ \/ pc[w] = "raised" /\ job[w].msg.retries > Limit(TaskOf(w))
     \/ pc[w] = "running" /\ Name[TaskOf(w)] \notin Registered
  /\ Rejected(w)
  /\ UNCHANGED <<published, purged, revoked, effects, failures, cut, hurt,
                 faults>>

(* Retries exhausted, or a name no task is registered under: rejected      *)
(* without requeue.                                                        *)
Reject(w) ==
  /\ \/ pc[w] = "raised" /\ job[w].msg.retries = Limit(TaskOf(w))
     \/ pc[w] = "running" /\ Name[TaskOf(w)] \notin Registered
  /\ Rejected(w)
  /\ UNCHANGED <<published, purged, revoked, effects, failures, cut, hurt,
                 faults>>

(* The broker does not take the retry: self.retry turns that into          *)
(* Reject(requeue=False), whatever retries the message has left.           *)
RetryFails(w) ==
  /\ pc[w] = "raised"
  /\ job[w].msg.retries < Limit(TaskOf(w))
  /\ CountFault
  /\ cut' = [cut EXCEPT ![TaskOf(w)] = @ + 1]
  /\ Rejected(w)
  /\ UNCHANGED <<published, purged, revoked, effects, failures, hurt>>

(* task_time_limit: the pool kills the run wherever it is, and with        *)
(* task_acks_on_failure_or_timeout = False its message is rejected, retries *)
(* or not.  Releases of Celery that requeue it instead do what Crash does. *)
(* The soft limit is an exception in the task: Raise.                      *)
TimeLimit(w) ==
  /\ pc[w] # "idle"
  /\ Name[TaskOf(w)] \in Registered
  /\ CountFault
  /\ cut' = [cut EXCEPT ![TaskOf(w)] = @ + 1]
  /\ hurt' = IF pc[w] \in {"committed", "republished"} THEN hurt \cup {TaskOf(w)}
             ELSE hurt
  /\ Rejected(w)
  /\ UNCHANGED <<published, purged, revoked, effects, failures>>

\* BUG variant: messages acknowledged on delivery (acks_late off).
CrashLoses(w) ==
  /\ pc[w] # "idle"
  /\ CountFault
  /\ hurt' = hurt \cup {TaskOf(w)}
  /\ Settle(w)
  /\ UNCHANGED <<ready, published, dropped, purged, revoked, effects, failures,
                 cut>>

(* The worker dies: its unacknowledged message is delivered again          *)
(* (acks_late, task_reject_on_worker_lost).                                *)
Crash(w) ==
  /\ pc[w] # "idle"
  /\ CountFault
  /\ hurt' = hurt \cup {TaskOf(w)}
  /\ Put(job[w].queue, job[w].msg)
  /\ Settle(w)
  /\ UNCHANGED <<published, dropped, purged, revoked, effects, failures, cut>>

Queued(m)  == \E q \in Queue : ready[q][m] > 0
Waiting(t) == \E m \in Message : m.task = t /\ Queued(m)
Held(t)    == \E w \in Worker : pc[w] # "idle" /\ TaskOf(w) = t

(* POST /admin/tasks/{task_id}/revoke: every worker remembers the id.      *)
Revoke(t) ==
  /\ t \in published
  /\ revoked' = revoked \cup {t}
  /\ UNCHANGED <<ready, job, pc, published, dropped, purged, effects, failures,
                 cut, hurt, faults>>

(* A worker that remembers the id acknowledges the message without a run.  *)
(* A worker started later does not know it, so Take stays possible.        *)
Discard(w, q, m) ==
  /\ pc[w] = "idle"
  /\ ready[q][m] > 0
  /\ m.task \in revoked
  /\ Name[m.task] \in Registered
  /\ ready' = [ready EXCEPT ![q][m] = @ - 1]
  /\ UNCHANGED <<job, pc, published, dropped, purged, revoked, effects, failures,
                 cut, hurt, faults>>

(* The same call with terminate=True, answered by the worker that runs the *)
(* task: its process is killed and the message acknowledged.               *)
Terminate(w) ==
  /\ pc[w] # "idle"
  /\ Name[TaskOf(w)] \in Registered
  /\ revoked' = revoked \cup {TaskOf(w)}
  /\ Settle(w)
  /\ UNCHANGED <<ready, published, dropped, purged, effects, failures, cut, hurt,
                 faults>>

(* GET /admin/tasks/queues/{queue_name}/purge empties every queue; the     *)
(* name is only echoed.  A retry before its countdown is with a worker     *)
(* already, and is kept.                                                   *)
Purge ==
  \E kept \in SUBSET {m \in Message : m.retries > 0 /\ Queued(m)} :
    /\ ready' = [q \in Queue |-> [m \in Message |->
                  IF m \in kept THEN ready[q][m] ELSE 0]]
    /\ purged' = purged \cup {m.task : m \in {n \in Message \ kept : Queued(n)}}
    /\ UNCHANGED <<job, pc, published, dropped, revoked, effects, failures, cut,
                   hurt, faults>>

Step(w) == Commit(w) \/ Raise(w) \/ Retry(w) \/ Ack(w) \/ Reject(w)

Next ==
  \/ \E t \in Task : Publish(t)
  \/ \E w \in Worker :
       \/ \E q \in Queue, m \in Message : Take(w, q, m) \/ Discard(w, q, m)
       \/ Step(w)
       \/ RetryFails(w)
       \/ TimeLimit(w)
       \/ Terminate(w)
       \/ Crash(w)
  \/ \E t \in Task : Revoke(t)
  \/ Purge

Spec == Init /\ [][Next]_vars

\* A free worker takes what is ready, and runs end.  That a publish fails, a
\* limit strikes or a worker dies is possible and never fair.
FairSpec ==
  /\ Spec
  /\ \A q \in Queue, m \in Message : WF_vars(\E w \in Worker : Take(w, q, m))
  /\ \A w \in Worker : WF_vars(Step(w))

-----------------------------------------------------------------------------
\* A task that was accepted is never silently lost: its change is made, or it
\* is still queued or running, or it was given up, or an administrator revoked
\* or purged it, although workers die and runs are killed at any point.
NothingLost ==
  \A t \in published :
    \/ effects[t] > 0 \/ Waiting(t) \/ Held(t)
    \/ t \in dropped \/ t \in purged \/ t \in revoked

\* A registered task is given up only after every retry and the second chance
\* in the dead-letter queue failed, or after runs that were cut (killed by the
\* time limit, or unable to publish their retry): one cut saves one failure,
\* and two of them, one per queue, are needed to give a task up early.
GivenUpLate ==
  \A t \in dropped :
    Name[t] \in Registered => cut[t] >= 2 \/ failures[t] + cut[t] >= Limit(t) + 2

\* A task takes effect twice (a notification stored twice, a mail sent twice)
\* only after it raised or was killed behind its own commit, or was killed
\* behind the publication of its retry, or lost its worker.
OnceUnlessHurt == \A t \in Task \ hurt : effects[t] <= 1

\* Every accepted task leaves the queues for good.
EveryTaskSettles ==
  \A t \in Task : t \in published ~> [](~Waiting(t) /\ ~Held(t))

=============================================================================
