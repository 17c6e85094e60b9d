--------------------------- MODULE TaskQueueProofs ---------------------------
(***************************************************************************)
(* Proofs about TaskQueue for any number of tasks, workers, retries and    *)
(* faults.                                                                 *)
(***************************************************************************)
EXTENDS TaskQueue, TLAPS

\* k runs and more of a task have raised before m can be in queue q: one per
\* retry, and one more to be dead-lettered, unless a run was cut.
Paid(q, m, k) ==
  /\ failures[m.task] >= m.retries + k
  /\ q = "celery" \/ failures[m.task] >= Limit(m.task) + 1 + k \/ cut[m.task] > 0

\* A copy has no more retries than its task allows, and its runs raised.
Counted(q, m) ==
  ready[q][m] > 0 /\ Name[m.task] \in Registered
    => m.retries <= Limit(m.task) /\ Paid(q, m, 0)

Behind(w) == IF pc[w] \in {"raised", "republished"} THEN 1 ELSE 0

Earned(w) ==
  pc[w] # "idle" /\ Name[TaskOf(w)] \in Registered
    => /\ job[w].msg.retries <= Limit(TaskOf(w))
       /\ Paid(job[w].queue, job[w].msg, Behind(w))

\* Only registered tasks get past their start, and a commit leaves its effect.
Ran(w) ==
  /\ pc[w] \in {"committed", "raised", "republished"} => Name[TaskOf(w)] \in Registered
  /\ pc[w] = "committed" => effects[TaskOf(w)] > 0

\* A worker that will still run, or has just run, the message it holds.
Active(w, t) == pc[w] \in {"running", "committed", "raised"} /\ TaskOf(w) = t

\* Of a task that is not hurt there is at most one copy to run.
OneCopy(t) ==
  /\ \A q \in Queue, m \in Message : m.task = t => ready[q][m] <= 1
  /\ \A p, q \in Queue, m, n \in Message :
       m.task = t /\ n.task = t /\ ready[p][m] > 0 /\ ready[q][n] > 0
         => p = q /\ m = n

OneRun(t) ==
  /\ \A v, w \in Worker : Active(v, t) /\ Active(w, t) => v = w
  /\ \A w \in Worker : Active(w, t) => ~Waiting(t)
  /\ effects[t] <= 1
  /\ effects[t] = 1 => ~Waiting(t)
  /\ effects[t] = 1 => \A w \in Worker : Active(w, t) => pc[w] = "committed"

Single(t) == OneCopy(t) /\ OneRun(t)

Fresh(t) == t \notin published => ~Waiting(t) /\ ~Held(t) /\ effects[t] = 0

\* What becomes of an accepted task, a worker that only has to acknowledge it
\* not counting: NothingLost says this and leaves that worker in.
Accounted(t) ==
  t \in published =>
    \/ effects[t] > 0 \/ Waiting(t)
    \/ t \in dropped \/ t \in purged \/ t \in revoked
    \/ \E w \in Worker : Active(w, t)

IInv ==
  /\ TypeOK
  /\ \A q \in Queue, m \in Message : Counted(q, m)
  /\ \A w \in Worker : Earned(w) /\ Ran(w)
  /\ \A t \in Task : Fresh(t) /\ Accounted(t)
  /\ \A t \in Task \ hurt : Single(t)
  /\ GivenUpLate

\* The initial state is of the types.
LEMMA TypeInit == Init => TypeOK
  BY NoneAssumption, MaxRetriesAssumption DEF Init, TypeOK, Queue, Message

\* Writing one counter of ready leaves the others.
LEMMA PutReady ==
  ASSUME NEW f \in [Queue -> [Message -> Nat]], NEW q \in Queue, NEW m \in Message,
         NEW n \in Nat
  PROVE  /\ [f EXCEPT ![q][m] = n] \in [Queue -> [Message -> Nat]]
         /\ \A p \in Queue, k \in Message :
              [f EXCEPT ![q][m] = n][p][k] = IF p = q /\ k = m THEN n ELSE f[p][k]
<1>1. [f EXCEPT ![q][m] = n] = [f EXCEPT ![q] = [f[q] EXCEPT ![m] = n]]
  OBVIOUS
<1>2. f[q] \in [Message -> Nat] /\ [f[q] EXCEPT ![m] = n] \in [Message -> Nat]
  OBVIOUS
<1> QED
  BY <1>1, <1>2

\* Putting a message in a queue keeps the type of ready.
LEMMA PutType ==
  ASSUME TypeOK, NEW q \in Queue, NEW m \in Message, Put(q, m)
  PROVE  /\ ready' \in [Queue -> [Message -> Nat]]
         /\ \A p \in Queue, k \in Message :
              ready'[p][k] = IF p = q /\ k = m THEN ready[p][k] + 1 ELSE ready[p][k]
<1>1. ready[q][m] + 1 \in Nat
  BY DEF TypeOK
<1> QED
  BY <1>1, PutReady DEF TypeOK, Put

\* What Take does to the queues.
LEMMA TakeType ==
  ASSUME TypeOK, NEW w \in Worker, NEW q \in Queue, NEW m \in Message, Take(w, q, m)
  PROVE  /\ ready' \in [Queue -> [Message -> Nat]]
         /\ \A p \in Queue, k \in Message :
              ready'[p][k] = IF p = q /\ k = m THEN ready[p][k] - 1 ELSE ready[p][k]
<1>1. ready[q][m] - 1 \in Nat
  BY DEF TypeOK, Take
<1> QED
  BY <1>1, PutReady DEF TypeOK, Take

\* What Discard does to the queues.
LEMMA DiscardType ==
  ASSUME TypeOK, NEW w \in Worker, NEW q \in Queue, NEW m \in Message, Discard(w, q, m)
  PROVE  /\ ready' \in [Queue -> [Message -> Nat]]
         /\ \A p \in Queue, k \in Message :
              ready'[p][k] = IF p = q /\ k = m THEN ready[p][k] - 1 ELSE ready[p][k]
<1>1. ready[q][m] - 1 \in Nat
  BY DEF TypeOK, Discard
<1> QED
  BY <1>1, PutReady DEF TypeOK, Discard

\* What Retry publishes is a message.
LEMMA NextRetry ==
  ASSUME TypeOK, NEW w \in Worker, Retry(w)
  PROVE  /\ [job[w].msg EXCEPT !.retries = @ + 1] \in Message
         /\ [job[w].msg EXCEPT !.retries = @ + 1].task = TaskOf(w)
         /\ [job[w].msg EXCEPT !.retries = @ + 1].retries = job[w].msg.retries + 1
         /\ job[w].queue \in Queue
  BY NameAssumption, MaxRetriesAssumption
     DEF TypeOK, Retry, Job, Message, Limit, TaskOf

\* A busy worker holds a job.
LEMMA Holding ==
  ASSUME TypeOK, NEW w \in Worker, pc[w] # "idle"
  PROVE  job[w].queue \in Queue /\ job[w].msg \in Message /\ TaskOf(w) \in Task
  BY DEF TypeOK, Job, Message, TaskOf

\* The names of the two queues.
LEMMA QueueNames == "celery" \in Queue /\ "dead_letter_queue" \in Queue
  BY DEF Queue

\* The message of a new task is a message.
LEMMA Published ==
  ASSUME NEW t \in Task
  PROVE  [task |-> t, retries |-> 0] \in Message
  BY MaxRetriesAssumption DEF Message

\* Every step keeps the types.
LEMMA TypeStep ==
  ASSUME TypeOK, [Next]_vars
  PROVE  TypeOK'
<1>1. ASSUME NEW t \in Task, Publish(t)
      PROVE  TypeOK'
  BY <1>1, NoneAssumption, PutType, QueueNames, Published
     DEF Publish, TypeOK, Job, Goto, Settle, TaskOf
<1>2. ASSUME NEW w \in Worker, NEW q \in Queue, NEW m \in Message, Take(w, q, m)
      PROVE  TypeOK'
  BY <1>2, NoneAssumption, TakeType
     DEF Take, TypeOK, Job, Goto, Settle, TaskOf
<1>3. ASSUME NEW w \in Worker, Commit(w)
      PROVE  TypeOK'
  BY <1>3, Holding, NoneAssumption
     DEF Commit, TypeOK, Job, Goto, Settle, TaskOf
<1>4. ASSUME NEW w \in Worker, Raise(w)
      PROVE  TypeOK'
  BY <1>4, Holding, NoneAssumption
     DEF Raise, TypeOK, Job, Goto, Settle, TaskOf
<1>5. ASSUME NEW w \in Worker, Retry(w)
      PROVE  TypeOK'
  BY <1>5, NoneAssumption, PutType, Holding, NextRetry
     DEF Retry, TypeOK, Job, Goto, Settle, TaskOf
<1>6. ASSUME NEW w \in Worker, Ack(w)
      PROVE  TypeOK'
  BY <1>6, NoneAssumption
     DEF Ack, TypeOK, Job, Goto, Settle, TaskOf
<1>7. ASSUME NEW w \in Worker, Reject(w)
      PROVE  TypeOK'
  BY <1>7, NoneAssumption, PutType, Holding, QueueNames
     DEF Reject, Rejected, TypeOK, Job, Goto, Settle, TaskOf
<1>8. ASSUME NEW w \in Worker, RetryFails(w)
      PROVE  TypeOK'
  BY <1>8, NoneAssumption, PutType, Holding, QueueNames
     DEF RetryFails, Rejected, CountFault, TypeOK, Job, Goto, Settle, TaskOf
<1>9. ASSUME NEW w \in Worker, TimeLimit(w)
      PROVE  TypeOK'
  BY <1>9, NoneAssumption, PutType, Holding, QueueNames
     DEF TimeLimit, Rejected, CountFault, TypeOK, Job, Goto, Settle, TaskOf
<1>10. ASSUME NEW w \in Worker, NEW q \in Queue, NEW m \in Message, Discard(w, q, m)
      PROVE  TypeOK'
  BY <1>10, NoneAssumption, DiscardType
     DEF Discard, TypeOK, Job, Goto, Settle, TaskOf
<1>11. ASSUME NEW w \in Worker, Terminate(w)
      PROVE  TypeOK'
  BY <1>11, Holding, NoneAssumption
     DEF Terminate, TypeOK, Job, Goto, Settle, TaskOf
<1>12. ASSUME NEW w \in Worker, Crash(w)
      PROVE  TypeOK'
  BY <1>12, NoneAssumption, PutType, Holding
     DEF Crash, CountFault, TypeOK, Job, Goto, Settle, TaskOf
<1>13. ASSUME NEW x \in Task, Revoke(x)
      PROVE  TypeOK'
  BY <1>13, NoneAssumption
     DEF Revoke, TypeOK, Job, Goto, Settle, TaskOf
<1>14. CASE Purge
  <2>1. PICK kept \in SUBSET Message :
          /\ ready' = [q \in Queue |-> [m \in Message |->
                        IF m \in kept THEN ready[q][m] ELSE 0]]
          /\ purged' = purged \cup {m.task : m \in {n \in Message \ kept : Queued(n)}}
    BY <1>14 DEF Purge
  <2>2. ready' \in [Queue -> [Message -> Nat]]
    BY <2>1 DEF TypeOK
  <2>3. purged' \subseteq Task
    BY <2>1 DEF TypeOK, Message
  <2> QED
    BY <1>14, <2>2, <2>3 DEF Purge, TypeOK
<1>15. CASE UNCHANGED vars
  BY <1>15, NoneAssumption
     DEF vars, TypeOK, Job, Goto, Settle, TaskOf
<1> QED
  BY <1>1, <1>2, <1>3, <1>4, <1>5, <1>6, <1>7, <1>8, <1>9, <1>10, <1>11, <1>12,
     <1>13, <1>14, <1>15 DEF Next, Step


-----------------------------------------------------------------------------
(* What the steps that put a message back do to the queues. *)

Puts(q, n) ==
  \A p \in Queue, k \in Message :
    ready'[p][k] = IF p = q /\ k = n THEN ready[p][k] + 1 ELSE ready[p][k]

\* What Publish does to the queues.
LEMMA PublishPuts ==
  ASSUME TypeOK, NEW t \in Task, Publish(t)
  PROVE  \E n \in Message : n.task = t /\ n.retries = 0 /\ Puts("celery", n)
<1> DEFINE n == [task |-> t, retries |-> 0]
<1>1. n \in Message /\ n.task = t /\ n.retries = 0
  BY Published
<1>2. Put("celery", n)
  BY DEF Publish
<1> HIDE DEF n
<1> QED
  BY <1>1, <1>2, PutType, QueueNames DEF Puts

\* What Retry does to the queues.
LEMMA RetryPuts ==
  ASSUME TypeOK, NEW w \in Worker, Retry(w)
  PROVE  \E n \in Message :
           /\ n.task = TaskOf(w)
           /\ n.retries = job[w].msg.retries + 1
           /\ n.retries <= Limit(TaskOf(w))
           /\ Puts(job[w].queue, n)
<1> DEFINE n == [job[w].msg EXCEPT !.retries = @ + 1]
<1>1. /\ n \in Message /\ n.task = TaskOf(w) /\ job[w].queue \in Queue
      /\ n.retries = job[w].msg.retries + 1
  BY NextRetry
<1>2. Put(job[w].queue, n) /\ job[w].msg.retries < Limit(TaskOf(w))
  BY DEF Retry
<1>3. n.retries <= Limit(TaskOf(w))
  BY <1>1, <1>2, Holding, NameAssumption, MaxRetriesAssumption
     DEF Message, Limit, Retry
<1> HIDE DEF n
<1> QED
  BY <1>1, <1>2, <1>3, PutType DEF Puts

\* What a rejection does to the queues.
LEMMA RejectPuts ==
  ASSUME TypeOK, NEW w \in Worker, pc[w] # "idle", Rejected(w)
  PROVE  /\ job[w].queue \in Queue /\ job[w].msg \in Message /\ TaskOf(w) \in Task
         /\ \/ /\ job[w].queue = "celery"
               /\ Puts("dead_letter_queue", job[w].msg)
               /\ UNCHANGED dropped
            \/ /\ job[w].queue = "dead_letter_queue"
               /\ UNCHANGED ready
               /\ dropped' = dropped \cup {TaskOf(w)}
<1>1. job[w].queue \in Queue /\ job[w].msg \in Message /\ TaskOf(w) \in Task
  BY Holding
<1> QED
  BY <1>1, PutType, QueueNames DEF Puts, Rejected, Queue

\* What Crash does to the queues.
LEMMA CrashPuts ==
  ASSUME TypeOK, NEW w \in Worker, Crash(w)
  PROVE  /\ job[w].queue \in Queue /\ job[w].msg \in Message /\ TaskOf(w) \in Task
         /\ Puts(job[w].queue, job[w].msg)
<1>1. job[w].queue \in Queue /\ job[w].msg \in Message /\ TaskOf(w) \in Task
  BY Holding DEF Crash
<1> QED
  BY <1>1, PutType DEF Puts, Crash

\* A task whose message is put waits, and no other stops waiting.
LEMMA PutWaiting ==
  ASSUME TypeOK, NEW q \in Queue, NEW n \in Message, Puts(q, n), NEW t \in Task
  PROVE  Waiting(t)' <=> Waiting(t) \/ n.task = t
<1>1. ready'[q][n] > 0
  BY DEF TypeOK, Puts
<1>2. ASSUME NEW p \in Queue, NEW m \in Message, ready[p][m] > 0
      PROVE  ready'[p][m] > 0
  BY <1>2 DEF TypeOK, Puts
<1>3. ASSUME NEW p \in Queue, NEW m \in Message, ready'[p][m] > 0, m # n
      PROVE  ready[p][m] > 0
  BY <1>3 DEF TypeOK, Puts
<1> QED
  BY <1>1, <1>2, <1>3 DEF Waiting, Queued

\* Putting a message changes its own count by one and no other.
LEMMA PutOne ==
  ASSUME TypeOK, NEW q \in Queue, NEW n \in Message, Puts(q, n), NEW t \in Task,
         OneCopy(t), n.task = t => ~Waiting(t)
  PROVE  OneCopy(t)'
<1>1. CASE n.task = t
  <2>1. \A p \in Queue, m \in Message : m.task = t => ready[p][m] = 0
    BY <1>1 DEF Waiting, Queued, TypeOK
  <2> QED
    BY <2>1 DEF OneCopy, Puts
<1>2. CASE n.task # t
  <2>1. \A p \in Queue, m \in Message : m.task = t => ready'[p][m] = ready[p][m]
    BY <1>2 DEF Puts
  <2> QED
    BY <2>1 DEF OneCopy
<1> QED
  BY <1>1, <1>2

\* The number of retries is a number.
LEMMA LimitNat ==
  ASSUME NEW t \in Task
  PROVE  Limit(t) \in Nat
  BY NameAssumption, MaxRetriesAssumption DEF Limit

\* The fields of a message.
LEMMA MessageFields ==
  ASSUME NEW m \in Message
  PROVE  m.task \in Task /\ m.retries \in Nat
  BY MaxRetriesAssumption DEF Message

\* A copy moves to the dead-letter queue, or is retried, only after it raised.
LEMMA CountedStep ==
  ASSUME TypeOK, TypeOK', NEW r \in Queue, NEW k \in Message, Counted(r, k),
         \A w \in Worker : Earned(w) /\ Ran(w), [Next]_vars
  PROVE  Counted(r, k)'
<1>1. ASSUME NEW x \in Task, Publish(x)
      PROVE  Counted(r, k)'
  <2>1. PICK n \in Message : n.task = x /\ n.retries = 0 /\ Puts("celery", n)
    BY <1>1, PublishPuts
  <2> QED
    BY <1>1, LimitNat, MessageFields, QueueNames, <2>1
       DEF Publish, Counted, Earned, Ran, Behind, Paid,
         TypeOK, Goto, Settle, TaskOf, Queue, Puts
<1>2. ASSUME NEW y \in Worker, NEW q \in Queue, NEW m \in Message, Take(y, q, m)
      PROVE  Counted(r, k)'
  BY <1>2, LimitNat, MessageFields, TakeType
     DEF Take, Counted, Earned, Ran, Behind, Paid,
         TypeOK, Goto, Settle, TaskOf, Queue
<1>3. ASSUME NEW y \in Worker, Commit(y)
      PROVE  Counted(r, k)'
  BY <1>3, LimitNat, MessageFields, Holding
     DEF Commit, Counted, Earned, Ran, Behind, Paid,
         TypeOK, Goto, Settle, TaskOf, Queue
<1>4. ASSUME NEW y \in Worker, Raise(y)
      PROVE  Counted(r, k)'
  BY <1>4, LimitNat, MessageFields, Holding
     DEF Raise, Counted, Earned, Ran, Behind, Paid,
         TypeOK, Goto, Settle, TaskOf, Queue
<1>5. ASSUME NEW y \in Worker, Retry(y)
      PROVE  Counted(r, k)'
  <2>1. PICK n \in Message :
           /\ n.task = TaskOf(y)
           /\ n.retries = job[y].msg.retries + 1
           /\ n.retries <= Limit(TaskOf(y))
           /\ Puts(job[y].queue, n)
    BY <1>5, RetryPuts
  <2> QED
    BY <1>5, LimitNat, MessageFields, Holding, <2>1
       DEF Retry, Counted, Earned, Ran, Behind, Paid,
         TypeOK, Goto, Settle, TaskOf, Queue, Puts
<1>6. ASSUME NEW y \in Worker, Ack(y)
      PROVE  Counted(r, k)'
  BY <1>6, LimitNat, MessageFields, Holding
     DEF Ack, Counted, Earned, Ran, Behind, Paid,
         TypeOK, Goto, Settle, TaskOf, Queue
<1>7. ASSUME NEW y \in Worker, Reject(y)
      PROVE  Counted(r, k)'
  <2>1. PICK n \in Message : n = job[y].msg /\ n.task = TaskOf(y)
    BY <1>7, RejectPuts DEF Reject, TaskOf
  <2>2. CASE job[y].queue = "celery" /\ Puts("dead_letter_queue", n) /\ UNCHANGED dropped
    BY <1>7, LimitNat, MessageFields, <2>1, <2>2, QueueNames
       DEF Reject, Rejected, Counted, Earned, Ran, Behind, Paid,
         TypeOK, Goto, Settle, TaskOf, Queue, Puts
  <2>3. CASE /\ job[y].queue = "dead_letter_queue" /\ UNCHANGED ready
             /\ dropped' = dropped \cup {TaskOf(y)}
    BY <1>7, LimitNat, MessageFields, <2>1, <2>3, QueueNames
       DEF Reject, Rejected, Counted, Earned, Ran, Behind, Paid,
         TypeOK, Goto, Settle, TaskOf, Queue, Puts
  <2> QED
    BY <1>7, <2>1, <2>2, <2>3, RejectPuts DEF Reject
<1>8. ASSUME NEW y \in Worker, RetryFails(y)
      PROVE  Counted(r, k)'
  <2>1. PICK n \in Message : n = job[y].msg /\ n.task = TaskOf(y)
    BY <1>8, RejectPuts DEF RetryFails, TaskOf
  <2>2. CASE job[y].queue = "celery" /\ Puts("dead_letter_queue", n) /\ UNCHANGED dropped
    BY <1>8, LimitNat, MessageFields, <2>1, <2>2, QueueNames
       DEF RetryFails, Rejected, Counted, Earned, Ran, Behind, Paid,
         TypeOK, Goto, Settle, TaskOf, Queue, Puts
  <2>3. CASE /\ job[y].queue = "dead_letter_queue" /\ UNCHANGED ready
             /\ dropped' = dropped \cup {TaskOf(y)}
    BY <1>8, LimitNat, MessageFields, <2>1, <2>3, QueueNames
       DEF RetryFails, Rejected, Counted, Earned, Ran, Behind, Paid,
         TypeOK, Goto, Settle, TaskOf, Queue, Puts
  <2> QED
    BY <1>8, <2>1, <2>2, <2>3, RejectPuts DEF RetryFails
<1>9. ASSUME NEW y \in Worker, TimeLimit(y)
      PROVE  Counted(r, k)'
  <2>1. PICK n \in Message : n = job[y].msg /\ n.task = TaskOf(y)
    BY <1>9, RejectPuts DEF TimeLimit, TaskOf
  <2>2. CASE job[y].queue = "celery" /\ Puts("dead_letter_queue", n) /\ UNCHANGED dropped
    BY <1>9, LimitNat, MessageFields, <2>1, <2>2, QueueNames
       DEF TimeLimit, Rejected, Counted, Earned, Ran, Behind, Paid,
         TypeOK, Goto, Settle, TaskOf, Queue, Puts
  <2>3. CASE /\ job[y].queue = "dead_letter_queue" /\ UNCHANGED ready
             /\ dropped' = dropped \cup {TaskOf(y)}
    BY <1>9, LimitNat, MessageFields, <2>1, <2>3, QueueNames
       DEF TimeLimit, Rejected, Counted, Earned, Ran, Behind, Paid,
         TypeOK, Goto, Settle, TaskOf, Queue, Puts
  <2> QED
    BY <1>9, <2>1, <2>2, <2>3, RejectPuts DEF TimeLimit
<1>10. ASSUME NEW y \in Worker, NEW q \in Queue, NEW m \in Message, Discard(y, q, m)
      PROVE  Counted(r, k)'
  BY <1>10, LimitNat, MessageFields, DiscardType
     DEF Discard, Counted, Earned, Ran, Behind, Paid,
         TypeOK, Goto, Settle, TaskOf, Queue
<1>11. ASSUME NEW y \in Worker, Terminate(y)
      PROVE  Counted(r, k)'
  BY <1>11, LimitNat, MessageFields, Holding
     DEF Terminate, Counted, Earned, Ran, Behind, Paid,
         TypeOK, Goto, Settle, TaskOf, Queue
<1>12. ASSUME NEW y \in Worker, Crash(y)
      PROVE  Counted(r, k)'
  <2>1. PICK n \in Message :
           n = job[y].msg /\ n.task = TaskOf(y) /\ Puts(job[y].queue, n)
    BY <1>12, CrashPuts DEF TaskOf
  <2> QED
    BY <1>12, LimitNat, MessageFields, Holding, <2>1
       DEF Crash, Counted, Earned, Ran, Behind, Paid,
         TypeOK, Goto, Settle, TaskOf, Queue, Puts
<1>13. ASSUME NEW x \in Task, Revoke(x)
      PROVE  Counted(r, k)'
  BY <1>13, LimitNat, MessageFields
     DEF Revoke, Counted, Earned, Ran, Behind, Paid,
         TypeOK, Goto, Settle, TaskOf, Queue
<1>14. CASE Purge
  BY <1>14, LimitNat, MessageFields
     DEF Purge, Counted, Earned, Ran, Behind, Paid,
         TypeOK, Goto, Settle, TaskOf, Queue
<1>15. CASE UNCHANGED vars
  BY <1>15, LimitNat, MessageFields
     DEF vars, Counted, Earned, Ran, Behind, Paid,
         TypeOK, Goto, Settle, TaskOf, Queue
<1> QED
  BY <1>1, <1>2, <1>3, <1>4, <1>5, <1>6, <1>7, <1>8, <1>9, <1>10, <1>11, <1>12,
     <1>13, <1>14, <1>15 DEF Next, Step

\* The runs of the message a worker holds are counted.
LEMMA EarnedStep ==
  ASSUME TypeOK, TypeOK', NEW w \in Worker, Earned(w), Ran(w),
         \A q \in Queue, m \in Message : Counted(q, m), [Next]_vars
  PROVE  Earned(w)' /\ Ran(w)'
<1>1. ASSUME NEW x \in Task, Publish(x)
      PROVE  Earned(w)' /\ Ran(w)'
  <2>1. PICK n \in Message : n.task = x /\ n.retries = 0 /\ Puts("celery", n)
    BY <1>1, PublishPuts
  <2> QED
    BY <1>1, LimitNat, MessageFields, QueueNames, <2>1
       DEF Publish, Counted, Earned, Ran, Behind, Paid,
         TypeOK, Goto, Settle, TaskOf, Queue, Job, Puts
<1>2. ASSUME NEW y \in Worker, NEW q \in Queue, NEW m \in Message, Take(y, q, m)
      PROVE  Earned(w)' /\ Ran(w)'
  BY <1>2, LimitNat, MessageFields, TakeType
     DEF Take, Counted, Earned, Ran, Behind, Paid,
         TypeOK, Goto, Settle, TaskOf, Queue, Job
<1>3. ASSUME NEW y \in Worker, Commit(y)
      PROVE  Earned(w)' /\ Ran(w)'
  BY <1>3, LimitNat, MessageFields, Holding
     DEF Commit, Counted, Earned, Ran, Behind, Paid,
         TypeOK, Goto, Settle, TaskOf, Queue, Job
<1>4. ASSUME NEW y \in Worker, Raise(y)
      PROVE  Earned(w)' /\ Ran(w)'
  BY <1>4, LimitNat, MessageFields, Holding
     DEF Raise, Counted, Earned, Ran, Behind, Paid,
         TypeOK, Goto, Settle, TaskOf, Queue, Job
<1>5. ASSUME NEW y \in Worker, Retry(y)
      PROVE  Earned(w)' /\ Ran(w)'
  <2>1. PICK n \in Message :
           /\ n.task = TaskOf(y)
           /\ n.retries = job[y].msg.retries + 1
           /\ n.retries <= Limit(TaskOf(y))
           /\ Puts(job[y].queue, n)
    BY <1>5, RetryPuts
  <2> QED
    BY <1>5, LimitNat, MessageFields, Holding, <2>1
       DEF Retry, Counted, Earned, Ran, Behind, Paid,
         TypeOK, Goto, Settle, TaskOf, Queue, Job, Puts
<1>6. ASSUME NEW y \in Worker, Ack(y)
      PROVE  Earned(w)' /\ Ran(w)'
  BY <1>6, LimitNat, MessageFields, Holding
     DEF Ack, Counted, Earned, Ran, Behind, Paid,
         TypeOK, Goto, Settle, TaskOf, Queue, Job
<1>7. ASSUME NEW y \in Worker, Reject(y)
      PROVE  Earned(w)' /\ Ran(w)'
  <2>1. PICK n \in Message : n = job[y].msg /\ n.task = TaskOf(y)
    BY <1>7, RejectPuts DEF Reject, TaskOf
  <2>2. CASE job[y].queue = "celery" /\ Puts("dead_letter_queue", n) /\ UNCHANGED dropped
    BY <1>7, LimitNat, MessageFields, <2>1, <2>2, QueueNames
       DEF Reject, Rejected, Counted, Earned, Ran, Behind, Paid,
         TypeOK, Goto, Settle, TaskOf, Queue, Job, Puts
  <2>3. CASE /\ job[y].queue = "dead_letter_queue" /\ UNCHANGED ready
             /\ dropped' = dropped \cup {TaskOf(y)}
    BY <1>7, LimitNat, MessageFields, <2>1, <2>3, QueueNames
       DEF Reject, Rejected, Counted, Earned, Ran, Behind, Paid,
         TypeOK, Goto, Settle, TaskOf, Queue, Job, Puts
  <2> QED
    BY <1>7, <2>1, <2>2, <2>3, RejectPuts DEF Reject
<1>8. ASSUME NEW y \in Worker, RetryFails(y)
      PROVE  Earned(w)' /\ Ran(w)'
  <2>1. PICK n \in Message : n = job[y].msg /\ n.task = TaskOf(y)
    BY <1>8, RejectPuts DEF RetryFails, TaskOf
  <2>2. CASE job[y].queue = "celery" /\ Puts("dead_letter_queue", n) /\ UNCHANGED dropped
    BY <1>8, LimitNat, MessageFields, <2>1, <2>2, QueueNames
       DEF RetryFails, Rejected, Counted, Earned, Ran, Behind, Paid,
         TypeOK, Goto, Settle, TaskOf, Queue, Job, Puts
  <2>3. CASE /\ job[y].queue = "dead_letter_queue" /\ UNCHANGED ready
             /\ dropped' = dropped \cup {TaskOf(y)}
    BY <1>8, LimitNat, MessageFields, <2>1, <2>3, QueueNames
       DEF RetryFails, Rejected, Counted, Earned, Ran, Behind, Paid,
         TypeOK, Goto, Settle, TaskOf, Queue, Job, Puts
  <2> QED
    BY <1>8, <2>1, <2>2, <2>3, RejectPuts DEF RetryFails
<1>9. ASSUME NEW y \in Worker, TimeLimit(y)
      PROVE  Earned(w)' /\ Ran(w)'
  <2>1. PICK n \in Message : n = job[y].msg /\ n.task = TaskOf(y)
    BY <1>9, RejectPuts DEF TimeLimit, TaskOf
  <2>2. CASE job[y].queue = "celery" /\ Puts("dead_letter_queue", n) /\ UNCHANGED dropped
    BY <1>9, LimitNat, MessageFields, <2>1, <2>2, QueueNames
       DEF TimeLimit, Rejected, Counted, Earned, Ran, Behind, Paid,
         TypeOK, Goto, Settle, TaskOf, Queue, Job, Puts
  <2>3. CASE /\ job[y].queue = "dead_letter_queue" /\ UNCHANGED ready
             /\ dropped' = dropped \cup {TaskOf(y)}
    BY <1>9, LimitNat, MessageFields, <2>1, <2>3, QueueNames
       DEF TimeLimit, Rejected, Counted, Earned, Ran, Behind, Paid,
         TypeOK, Goto, Settle, TaskOf, Queue, Job, Puts
  <2> QED
    BY <1>9, <2>1, <2>2, <2>3, RejectPuts DEF TimeLimit
<1>10. ASSUME NEW y \in Worker, NEW q \in Queue, NEW m \in Message, Discard(y, q, m)
      PROVE  Earned(w)' /\ Ran(w)'
  BY <1>10, LimitNat, MessageFields, DiscardType
     DEF Discard, Counted, Earned, Ran, Behind, Paid,
         TypeOK, Goto, Settle, TaskOf, Queue, Job
<1>11. ASSUME NEW y \in Worker, Terminate(y)
      PROVE  Earned(w)' /\ Ran(w)'
  BY <1>11, LimitNat, MessageFields, Holding
     DEF Terminate, Counted, Earned, Ran, Behind, Paid,
         TypeOK, Goto, Settle, TaskOf, Queue, Job
<1>12. ASSUME NEW y \in Worker, Crash(y)
      PROVE  Earned(w)' /\ Ran(w)'
  <2>1. PICK n \in Message :
           n = job[y].msg /\ n.task = TaskOf(y) /\ Puts(job[y].queue, n)
    BY <1>12, CrashPuts DEF TaskOf
  <2> QED
    BY <1>12, LimitNat, MessageFields, Holding, <2>1
       DEF Crash, Counted, Earned, Ran, Behind, Paid,
         TypeOK, Goto, Settle, TaskOf, Queue, Job, Puts
<1>13. ASSUME NEW x \in Task, Revoke(x)
      PROVE  Earned(w)' /\ Ran(w)'
  BY <1>13, LimitNat, MessageFields
     DEF Revoke, Counted, Earned, Ran, Behind, Paid,
         TypeOK, Goto, Settle, TaskOf, Queue, Job
<1>14. CASE Purge
  BY <1>14, LimitNat, MessageFields
     DEF Purge, Counted, Earned, Ran, Behind, Paid,
         TypeOK, Goto, Settle, TaskOf, Queue, Job
<1>15. CASE UNCHANGED vars
  BY <1>15, LimitNat, MessageFields
     DEF vars, Counted, Earned, Ran, Behind, Paid,
         TypeOK, Goto, Settle, TaskOf, Queue, Job
<1> QED
  BY <1>1, <1>2, <1>3, <1>4, <1>5, <1>6, <1>7, <1>8, <1>9, <1>10, <1>11, <1>12,
     <1>13, <1>14, <1>15 DEF Next, Step

\* A task that is not hurt keeps at most one copy to run.
LEMMA SingleStep ==
  ASSUME TypeOK, TypeOK', NEW t \in Task, Fresh(t), t \notin hurt => Single(t),
         t \notin hurt', \A w \in Worker : Ran(w), [Next]_vars
  PROVE  Single(t)'
<1>1. ASSUME NEW x \in Task, Publish(x)
      PROVE  Single(t)'
  <2>1. PICK n \in Message : n.task = x /\ n.retries = 0 /\ Puts("celery", n)
    BY <1>1, PublishPuts
  <2> QED
    <3>1. OneCopy(t)' /\ (Waiting(t)' <=> Waiting(t) \/ x = t)
      BY <1>1, <2>1, PutOne, PutWaiting, QueueNames DEF Publish, Fresh, Single
    <3> QED
      BY <1>1, <3>1 DEF Publish, Fresh, Single, OneRun, Held, Active, Ran,
       TypeOK, Goto, Settle, TaskOf
<1>2. ASSUME NEW y \in Worker, NEW q \in Queue, NEW m \in Message, Take(y, q, m)
      PROVE  Single(t)'
  BY <1>2, MessageFields, TakeType
     DEF Take, Fresh, Single, OneCopy, OneRun, Waiting, Queued, Held, Active,
       Ran,
         TypeOK, Goto, Settle, TaskOf
<1>3. ASSUME NEW y \in Worker, Commit(y)
      PROVE  Single(t)'
  BY <1>3, MessageFields, Holding
     DEF Commit, Fresh, Single, OneCopy, OneRun, Waiting, Queued, Held, Active,
       Ran,
         TypeOK, Goto, Settle, TaskOf
<1>4. ASSUME NEW y \in Worker, Raise(y)
      PROVE  Single(t)'
  BY <1>4, MessageFields, Holding
     DEF Raise, Fresh, Single, OneCopy, OneRun, Waiting, Queued, Held, Active,
       Ran,
         TypeOK, Goto, Settle, TaskOf
<1>5. ASSUME NEW y \in Worker, Retry(y)
      PROVE  Single(t)'
  <2>1. PICK n \in Message :
           /\ n.task = TaskOf(y)
           /\ n.retries = job[y].msg.retries + 1
           /\ n.retries <= Limit(TaskOf(y))
           /\ Puts(job[y].queue, n)
    BY <1>5, RetryPuts
  <2> QED
    <3>1. TaskOf(y) = t => ~Waiting(t)
      BY <1>5 DEF Retry, Single, OneRun, Active, TypeOK
    <3>2. OneCopy(t)' /\ (Waiting(t)' <=> Waiting(t) \/ TaskOf(y) = t)
      BY <1>5, <2>1, <3>1, Holding, PutOne, PutWaiting DEF Retry, Single
    <3> QED
      BY <1>5, <3>2 DEF Retry, Single, OneRun, Held, Active, Ran,
       TypeOK, Goto, Settle, TaskOf
<1>6. ASSUME NEW y \in Worker, Ack(y)
      PROVE  Single(t)'
  BY <1>6, MessageFields, Holding
     DEF Ack, Fresh, Single, OneCopy, OneRun, Waiting, Queued, Held, Active,
       Ran,
         TypeOK, Goto, Settle, TaskOf
<1>7. ASSUME NEW y \in Worker, Reject(y)
      PROVE  Single(t)'
  <2>1. PICK n \in Message : n = job[y].msg /\ n.task = TaskOf(y)
    BY <1>7, RejectPuts DEF Reject, TaskOf
  <2>2. CASE job[y].queue = "celery" /\ Puts("dead_letter_queue", n) /\ UNCHANGED dropped
    <3>1. TaskOf(y) = t => ~Waiting(t)
      BY <1>7 DEF Reject, Rejected, Single, OneRun, Active, TypeOK
    <3>2. OneCopy(t)
      BY <1>7 DEF Reject, Rejected, Single
    <3>3. OneCopy(t)' /\ (Waiting(t)' <=> Waiting(t) \/ TaskOf(y) = t)
      BY <2>1, <2>2, <3>1, <3>2, PutOne, PutWaiting, QueueNames
    <3> QED
      BY <1>7, <3>3 DEF Reject, Rejected, Single, OneRun, Held, Active, Ran,
       TypeOK, Goto, Settle, TaskOf
  <2>3. CASE /\ job[y].queue = "dead_letter_queue" /\ UNCHANGED ready
             /\ dropped' = dropped \cup {TaskOf(y)}
    BY <1>7, MessageFields, <2>1, <2>3, QueueNames
       DEF Reject, Rejected, Fresh, Single, OneCopy, OneRun, Waiting, Queued,
         Held, Active, Ran,
         TypeOK, Goto, Settle, TaskOf, Puts
  <2> QED
    BY <1>7, <2>1, <2>2, <2>3, RejectPuts DEF Reject
<1>8. ASSUME NEW y \in Worker, RetryFails(y)
      PROVE  Single(t)'
  <2>1. PICK n \in Message : n = job[y].msg /\ n.task = TaskOf(y)
    BY <1>8, RejectPuts DEF RetryFails, TaskOf
  <2>2. CASE job[y].queue = "celery" /\ Puts("dead_letter_queue", n) /\ UNCHANGED dropped
    <3>1. TaskOf(y) = t => ~Waiting(t)
      BY <1>8 DEF RetryFails, Rejected, Single, OneRun, Active, TypeOK
    <3>2. OneCopy(t)
      BY <1>8 DEF RetryFails, Rejected, Single
    <3>3. OneCopy(t)' /\ (Waiting(t)' <=> Waiting(t) \/ TaskOf(y) = t)
      BY <2>1, <2>2, <3>1, <3>2, PutOne, PutWaiting, QueueNames
    <3> QED
      BY <1>8, <3>3 DEF RetryFails, Rejected, Single, OneRun, Held, Active, Ran,
       TypeOK, Goto, Settle, TaskOf
  <2>3. CASE /\ job[y].queue = "dead_letter_queue" /\ UNCHANGED ready
             /\ dropped' = dropped \cup {TaskOf(y)}
    BY <1>8, MessageFields, <2>1, <2>3, QueueNames
       DEF RetryFails, Rejected, Fresh, Single, OneCopy, OneRun, Waiting,
         Queued, Held, Active, Ran,
         TypeOK, Goto, Settle, TaskOf, Puts
  <2> QED
    BY <1>8, <2>1, <2>2, <2>3, RejectPuts DEF RetryFails
<1>9. ASSUME NEW y \in Worker, TimeLimit(y)
      PROVE  Single(t)'
  <2>1. PICK n \in Message : n = job[y].msg /\ n.task = TaskOf(y)
    BY <1>9, RejectPuts DEF TimeLimit, TaskOf
  <2>2. CASE job[y].queue = "celery" /\ Puts("dead_letter_queue", n) /\ UNCHANGED dropped
    <3>1. TaskOf(y) = t => ~Waiting(t)
      BY <1>9 DEF TimeLimit, Rejected, Single, OneRun, Active, TypeOK
    <3>2. OneCopy(t)
      BY <1>9 DEF TimeLimit, Rejected, Single
    <3>3. OneCopy(t)' /\ (Waiting(t)' <=> Waiting(t) \/ TaskOf(y) = t)
      BY <2>1, <2>2, <3>1, <3>2, PutOne, PutWaiting, QueueNames
    <3> QED
      BY <1>9, <3>3 DEF TimeLimit, Rejected, Single, OneRun, Held, Active, Ran,
       TypeOK, Goto, Settle, TaskOf
  <2>3. CASE /\ job[y].queue = "dead_letter_queue" /\ UNCHANGED ready
             /\ dropped' = dropped \cup {TaskOf(y)}
    BY <1>9, MessageFields, <2>1, <2>3, QueueNames
       DEF TimeLimit, Rejected, Fresh, Single, OneCopy, OneRun, Waiting,
         Queued, Held, Active, Ran,
         TypeOK, Goto, Settle, TaskOf, Puts
  <2> QED
    BY <1>9, <2>1, <2>2, <2>3, RejectPuts DEF TimeLimit
<1>10. ASSUME NEW y \in Worker, NEW q \in Queue, NEW m \in Message, Discard(y, q, m)
      PROVE  Single(t)'
  BY <1>10, MessageFields, DiscardType
     DEF Discard, Fresh, Single, OneCopy, OneRun, Waiting, Queued, Held,
       Active, Ran,
         TypeOK, Goto, Settle, TaskOf
<1>11. ASSUME NEW y \in Worker, Terminate(y)
      PROVE  Single(t)'
  BY <1>11, MessageFields, Holding
     DEF Terminate, Fresh, Single, OneCopy, OneRun, Waiting, Queued, Held,
       Active, Ran,
         TypeOK, Goto, Settle, TaskOf
<1>12. ASSUME NEW y \in Worker, Crash(y)
      PROVE  Single(t)'
  <2>1. PICK n \in Message :
           n = job[y].msg /\ n.task = TaskOf(y) /\ Puts(job[y].queue, n)
    BY <1>12, CrashPuts DEF TaskOf
  <2>2. TaskOf(y) # t
    BY <1>12 DEF Crash
  <2> QED
    <3>1. OneCopy(t)' /\ (Waiting(t)' <=> Waiting(t))
      BY <1>12, <2>1, <2>2, Holding, PutOne, PutWaiting DEF Crash, Single
    <3> QED
      BY <1>12, <2>2, <3>1 DEF Crash, Single, OneRun, Held, Active, Ran,
       TypeOK, Goto, Settle, TaskOf
<1>13. ASSUME NEW x \in Task, Revoke(x)
      PROVE  Single(t)'
  BY <1>13, MessageFields
     DEF Revoke, Fresh, Single, OneCopy, OneRun, Waiting, Queued, Held, Active,
       Ran,
         TypeOK, Goto, Settle, TaskOf
<1>14. CASE Purge
  BY <1>14, MessageFields
     DEF Purge, Fresh, Single, OneCopy, OneRun, Waiting, Queued, Held, Active,
       Ran,
         TypeOK, Goto, Settle, TaskOf
<1>15. CASE UNCHANGED vars
  BY <1>15, MessageFields
     DEF vars, Fresh, Single, OneCopy, OneRun, Waiting, Queued, Held, Active,
       Ran,
         TypeOK, Goto, Settle, TaskOf
<1> QED
  BY <1>1, <1>2, <1>3, <1>4, <1>5, <1>6, <1>7, <1>8, <1>9, <1>10, <1>11, <1>12,
     <1>13, <1>14, <1>15 DEF Next, Step

\* A task that was not published is nowhere.
LEMMA FreshStep ==
  ASSUME TypeOK, TypeOK', NEW t \in Task, Fresh(t), [Next]_vars
  PROVE  Fresh(t)'
<1>1. ASSUME NEW x \in Task, Publish(x)
      PROVE  Fresh(t)'
  <2>1. PICK n \in Message : n.task = x /\ n.retries = 0 /\ Puts("celery", n)
    BY <1>1, PublishPuts
  <2> QED
    BY <1>1, MessageFields, QueueNames, <2>1
       DEF Publish, Fresh, Waiting, Queued, Held,
         TypeOK, Goto, Settle, TaskOf, Puts
<1>2. ASSUME NEW y \in Worker, NEW q \in Queue, NEW m \in Message, Take(y, q, m)
      PROVE  Fresh(t)'
  BY <1>2, MessageFields, TakeType
     DEF Take, Fresh, Waiting, Queued, Held,
         TypeOK, Goto, Settle, TaskOf
<1>3. ASSUME NEW y \in Worker, Commit(y)
      PROVE  Fresh(t)'
  BY <1>3, MessageFields, Holding
     DEF Commit, Fresh, Waiting, Queued, Held,
         TypeOK, Goto, Settle, TaskOf
<1>4. ASSUME NEW y \in Worker, Raise(y)
      PROVE  Fresh(t)'
  BY <1>4, MessageFields, Holding
     DEF Raise, Fresh, Waiting, Queued, Held,
         TypeOK, Goto, Settle, TaskOf
<1>5. ASSUME NEW y \in Worker, Retry(y)
      PROVE  Fresh(t)'
  <2>1. PICK n \in Message :
           /\ n.task = TaskOf(y)
           /\ n.retries = job[y].msg.retries + 1
           /\ n.retries <= Limit(TaskOf(y))
           /\ Puts(job[y].queue, n)
    BY <1>5, RetryPuts
  <2> QED
    BY <1>5, MessageFields, Holding, <2>1
       DEF Retry, Fresh, Waiting, Queued, Held,
         TypeOK, Goto, Settle, TaskOf, Puts
<1>6. ASSUME NEW y \in Worker, Ack(y)
      PROVE  Fresh(t)'
  BY <1>6, MessageFields, Holding
     DEF Ack, Fresh, Waiting, Queued, Held,
         TypeOK, Goto, Settle, TaskOf
<1>7. ASSUME NEW y \in Worker, Reject(y)
      PROVE  Fresh(t)'
  <2>1. PICK n \in Message : n = job[y].msg /\ n.task = TaskOf(y)
    BY <1>7, RejectPuts DEF Reject, TaskOf
  <2>2. CASE job[y].queue = "celery" /\ Puts("dead_letter_queue", n) /\ UNCHANGED dropped
    <3>1. Waiting(t)' <=> Waiting(t) \/ TaskOf(y) = t
      BY <2>1, <2>2, PutWaiting, QueueNames
    <3> QED
      BY <1>7, <3>1 DEF Reject, Rejected, Fresh, Held, TypeOK, Goto, Settle, TaskOf
  <2>3. CASE /\ job[y].queue = "dead_letter_queue" /\ UNCHANGED ready
             /\ dropped' = dropped \cup {TaskOf(y)}
    BY <1>7, MessageFields, <2>1, <2>3, QueueNames
       DEF Reject, Rejected, Fresh, Waiting, Queued, Held,
         TypeOK, Goto, Settle, TaskOf, Puts
  <2> QED
    BY <1>7, <2>1, <2>2, <2>3, RejectPuts DEF Reject
<1>8. ASSUME NEW y \in Worker, RetryFails(y)
      PROVE  Fresh(t)'
  <2>1. PICK n \in Message : n = job[y].msg /\ n.task = TaskOf(y)
    BY <1>8, RejectPuts DEF RetryFails, TaskOf
  <2>2. CASE job[y].queue = "celery" /\ Puts("dead_letter_queue", n) /\ UNCHANGED dropped
    <3>1. Waiting(t)' <=> Waiting(t) \/ TaskOf(y) = t
      BY <2>1, <2>2, PutWaiting, QueueNames
    <3> QED
      BY <1>8, <3>1 DEF RetryFails, Rejected, Fresh, Held, TypeOK, Goto, Settle, TaskOf
  <2>3. CASE /\ job[y].queue = "dead_letter_queue" /\ UNCHANGED ready
             /\ dropped' = dropped \cup {TaskOf(y)}
    BY <1>8, MessageFields, <2>1, <2>3, QueueNames
       DEF RetryFails, Rejected, Fresh, Waiting, Queued, Held,
         TypeOK, Goto, Settle, TaskOf, Puts
  <2> QED
    BY <1>8, <2>1, <2>2, <2>3, RejectPuts DEF RetryFails
<1>9. ASSUME NEW y \in Worker, TimeLimit(y)
      PROVE  Fresh(t)'
  <2>1. PICK n \in Message : n = job[y].msg /\ n.task = TaskOf(y)
    BY <1>9, RejectPuts DEF TimeLimit, TaskOf
  <2>2. CASE job[y].queue = "celery" /\ Puts("dead_letter_queue", n) /\ UNCHANGED dropped
    <3>1. Waiting(t)' <=> Waiting(t) \/ TaskOf(y) = t
      BY <2>1, <2>2, PutWaiting, QueueNames
    <3> QED
      BY <1>9, <3>1 DEF TimeLimit, Rejected, Fresh, Held, TypeOK, Goto, Settle, TaskOf
  <2>3. CASE /\ job[y].queue = "dead_letter_queue" /\ UNCHANGED ready
             /\ dropped' = dropped \cup {TaskOf(y)}
    BY <1>9, MessageFields, <2>1, <2>3, QueueNames
       DEF TimeLimit, Rejected, Fresh, Waiting, Queued, Held,
         TypeOK, Goto, Settle, TaskOf, Puts
  <2> QED
    BY <1>9, <2>1, <2>2, <2>3, RejectPuts DEF TimeLimit
<1>10. ASSUME NEW y \in Worker, NEW q \in Queue, NEW m \in Message, Discard(y, q, m)
      PROVE  Fresh(t)'
  BY <1>10, MessageFields, DiscardType
     DEF Discard, Fresh, Waiting, Queued, Held,
         TypeOK, Goto, Settle, TaskOf
<1>11. ASSUME NEW y \in Worker, Terminate(y)
      PROVE  Fresh(t)'
  BY <1>11, MessageFields, Holding
     DEF Terminate, Fresh, Waiting, Queued, Held,
         TypeOK, Goto, Settle, TaskOf
<1>12. ASSUME NEW y \in Worker, Crash(y)
      PROVE  Fresh(t)'
  <2>1. PICK n \in Message :
           n = job[y].msg /\ n.task = TaskOf(y) /\ Puts(job[y].queue, n)
    BY <1>12, CrashPuts DEF TaskOf
  <2> QED
    BY <1>12, MessageFields, Holding, <2>1
       DEF Crash, Fresh, Waiting, Queued, Held,
         TypeOK, Goto, Settle, TaskOf, Puts
<1>13. ASSUME NEW x \in Task, Revoke(x)
      PROVE  Fresh(t)'
  BY <1>13, MessageFields
     DEF Revoke, Fresh, Waiting, Queued, Held,
         TypeOK, Goto, Settle, TaskOf
<1>14. CASE Purge
  BY <1>14, MessageFields
     DEF Purge, Fresh, Waiting, Queued, Held,
         TypeOK, Goto, Settle, TaskOf
<1>15. CASE UNCHANGED vars
  BY <1>15, MessageFields
     DEF vars, Fresh, Waiting, Queued, Held,
         TypeOK, Goto, Settle, TaskOf
<1> QED
  BY <1>1, <1>2, <1>3, <1>4, <1>5, <1>6, <1>7, <1>8, <1>9, <1>10, <1>11, <1>12,
     <1>13, <1>14, <1>15 DEF Next, Step

\* No step loses sight of an accepted task.
LEMMA AccountedStep ==
  ASSUME TypeOK, TypeOK', NEW t \in Task, Accounted(t), \A w \in Worker : Ran(w), [Next]_vars
  PROVE  Accounted(t)'
<1>1. ASSUME NEW x \in Task, Publish(x)
      PROVE  Accounted(t)'
  <2>1. PICK n \in Message : n.task = x /\ n.retries = 0 /\ Puts("celery", n)
    BY <1>1, PublishPuts
  <2>2. Waiting(t)' <=> Waiting(t) \/ x = t
    BY <2>1, PutWaiting, QueueNames
  <2> QED
    BY <1>1, <2>2 DEF Publish, Accounted, Active, TaskOf
<1>2. ASSUME NEW y \in Worker, NEW q \in Queue, NEW m \in Message, Take(y, q, m)
      PROVE  Accounted(t)'
  BY <1>2, TakeType
     DEF Take, Accounted, Waiting, Queued, Active, Ran,
         TypeOK, Goto, Settle, TaskOf
<1>3. ASSUME NEW y \in Worker, Commit(y)
      PROVE  Accounted(t)'
  BY <1>3, Holding
     DEF Commit, Accounted, Waiting, Queued, Active, Ran,
         TypeOK, Goto, Settle, TaskOf
<1>4. ASSUME NEW y \in Worker, Raise(y)
      PROVE  Accounted(t)'
  BY <1>4, Holding
     DEF Raise, Accounted, Waiting, Queued, Active, Ran,
         TypeOK, Goto, Settle, TaskOf
<1>5. ASSUME NEW y \in Worker, Retry(y)
      PROVE  Accounted(t)'
  <2>1. PICK n \in Message :
           /\ n.task = TaskOf(y)
           /\ n.retries = job[y].msg.retries + 1
           /\ n.retries <= Limit(TaskOf(y))
           /\ Puts(job[y].queue, n)
    BY <1>5, RetryPuts
  <2> QED
    BY <1>5, Holding, <2>1
       DEF Retry, Accounted, Waiting, Queued, Active, Ran,
         TypeOK, Goto, Settle, TaskOf, Puts
<1>6. ASSUME NEW y \in Worker, Ack(y)
      PROVE  Accounted(t)'
  BY <1>6, Holding
     DEF Ack, Accounted, Waiting, Queued, Active, Ran,
         TypeOK, Goto, Settle, TaskOf
<1>7. ASSUME NEW y \in Worker, Reject(y)
      PROVE  Accounted(t)'
  <2>1. PICK n \in Message : n = job[y].msg /\ n.task = TaskOf(y)
    BY <1>7, RejectPuts DEF Reject, TaskOf
  <2>2. CASE job[y].queue = "celery" /\ Puts("dead_letter_queue", n) /\ UNCHANGED dropped
    <3>1. Waiting(t)' <=> Waiting(t) \/ TaskOf(y) = t
      BY <2>1, <2>2, PutWaiting, QueueNames
    <3> QED
      BY <1>7, <3>1 DEF Reject, Rejected, Accounted, Active, Ran,
       TypeOK, Goto, Settle, TaskOf
  <2>3. CASE /\ job[y].queue = "dead_letter_queue" /\ UNCHANGED ready
             /\ dropped' = dropped \cup {TaskOf(y)}
    BY <1>7, <2>1, <2>3, QueueNames
       DEF Reject, Rejected, Accounted, Waiting, Queued, Active, Ran,
         TypeOK, Goto, Settle, TaskOf, Puts
  <2> QED
    BY <1>7, <2>1, <2>2, <2>3, RejectPuts DEF Reject
<1>8. ASSUME NEW y \in Worker, RetryFails(y)
      PROVE  Accounted(t)'
  <2>1. PICK n \in Message : n = job[y].msg /\ n.task = TaskOf(y)
    BY <1>8, RejectPuts DEF RetryFails, TaskOf
  <2>2. CASE job[y].queue = "celery" /\ Puts("dead_letter_queue", n) /\ UNCHANGED dropped
    <3>1. Waiting(t)' <=> Waiting(t) \/ TaskOf(y) = t
      BY <2>1, <2>2, PutWaiting, QueueNames
    <3> QED
      BY <1>8, <3>1 DEF RetryFails, Rejected, Accounted, Active, Ran,
       TypeOK, Goto, Settle, TaskOf
  <2>3. CASE /\ job[y].queue = "dead_letter_queue" /\ UNCHANGED ready
             /\ dropped' = dropped \cup {TaskOf(y)}
    BY <1>8, <2>1, <2>3, QueueNames
       DEF RetryFails, Rejected, Accounted, Waiting, Queued, Active, Ran,
         TypeOK, Goto, Settle, TaskOf, Puts
  <2> QED
    BY <1>8, <2>1, <2>2, <2>3, RejectPuts DEF RetryFails
<1>9. ASSUME NEW y \in Worker, TimeLimit(y)
      PROVE  Accounted(t)'
  <2>1. PICK n \in Message : n = job[y].msg /\ n.task = TaskOf(y)
    BY <1>9, RejectPuts DEF TimeLimit, TaskOf
  <2>2. CASE job[y].queue = "celery" /\ Puts("dead_letter_queue", n) /\ UNCHANGED dropped
    <3>1. Waiting(t)' <=> Waiting(t) \/ TaskOf(y) = t
      BY <2>1, <2>2, PutWaiting, QueueNames
    <3> QED
      BY <1>9, <3>1 DEF TimeLimit, Rejected, Accounted, Active, Ran,
       TypeOK, Goto, Settle, TaskOf
  <2>3. CASE /\ job[y].queue = "dead_letter_queue" /\ UNCHANGED ready
             /\ dropped' = dropped \cup {TaskOf(y)}
    BY <1>9, <2>1, <2>3, QueueNames
       DEF TimeLimit, Rejected, Accounted, Waiting, Queued, Active, Ran,
         TypeOK, Goto, Settle, TaskOf, Puts
  <2> QED
    BY <1>9, <2>1, <2>2, <2>3, RejectPuts DEF TimeLimit
<1>10. ASSUME NEW y \in Worker, NEW q \in Queue, NEW m \in Message, Discard(y, q, m)
      PROVE  Accounted(t)'
  BY <1>10, DiscardType
     DEF Discard, Accounted, Waiting, Queued, Active, Ran,
         TypeOK, Goto, Settle, TaskOf
<1>11. ASSUME NEW y \in Worker, Terminate(y)
      PROVE  Accounted(t)'
  BY <1>11, Holding
     DEF Terminate, Accounted, Waiting, Queued, Active, Ran,
         TypeOK, Goto, Settle, TaskOf
<1>12. ASSUME NEW y \in Worker, Crash(y)
      PROVE  Accounted(t)'
  <2>1. PICK n \in Message :
           n = job[y].msg /\ n.task = TaskOf(y) /\ Puts(job[y].queue, n)
    BY <1>12, CrashPuts DEF TaskOf
  <2> QED
    BY <1>12, Holding, <2>1
       DEF Crash, Accounted, Waiting, Queued, Active, Ran,
         TypeOK, Goto, Settle, TaskOf, Puts
<1>13. ASSUME NEW x \in Task, Revoke(x)
      PROVE  Accounted(t)'
  BY <1>13
     DEF Revoke, Accounted, Waiting, Queued, Active, Ran,
         TypeOK, Goto, Settle, TaskOf
<1>14. CASE Purge
  BY <1>14
     DEF Purge, Accounted, Waiting, Queued, Active, Ran,
         TypeOK, Goto, Settle, TaskOf
<1>15. CASE UNCHANGED vars
  BY <1>15
     DEF vars, Accounted, Waiting, Queued, Active, Ran,
         TypeOK, Goto, Settle, TaskOf
<1> QED
  BY <1>1, <1>2, <1>3, <1>4, <1>5, <1>6, <1>7, <1>8, <1>9, <1>10, <1>11, <1>12,
     <1>13, <1>14, <1>15 DEF Next, Step

\* A message is rejected for good in the dead-letter queue only.
LEMMA GivenUpStep ==
  ASSUME TypeOK, TypeOK', GivenUpLate, \A w \in Worker : Earned(w) /\ Ran(w), [Next]_vars
  PROVE  GivenUpLate'
<1>1. ASSUME NEW x \in Task, Publish(x)
      PROVE  GivenUpLate'
  <2>1. PICK n \in Message : n.task = x /\ n.retries = 0 /\ Puts("celery", n)
    BY <1>1, PublishPuts
  <2> QED
    BY <1>1, LimitNat, QueueNames, <2>1
       DEF Publish, GivenUpLate, Earned, Ran, Behind, Paid,
         TypeOK, Goto, Settle, TaskOf, Queue, Puts
<1>2. ASSUME NEW y \in Worker, NEW q \in Queue, NEW m \in Message, Take(y, q, m)
      PROVE  GivenUpLate'
  BY <1>2, LimitNat, TakeType
     DEF Take, GivenUpLate, Earned, Ran, Behind, Paid,
         TypeOK, Goto, Settle, TaskOf, Queue
<1>3. ASSUME NEW y \in Worker, Commit(y)
      PROVE  GivenUpLate'
  BY <1>3, LimitNat, Holding
     DEF Commit, GivenUpLate, Earned, Ran, Behind, Paid,
         TypeOK, Goto, Settle, TaskOf, Queue
<1>4. ASSUME NEW y \in Worker, Raise(y)
      PROVE  GivenUpLate'
  BY <1>4, LimitNat, Holding
     DEF Raise, GivenUpLate, Earned, Ran, Behind, Paid,
         TypeOK, Goto, Settle, TaskOf, Queue
<1>5. ASSUME NEW y \in Worker, Retry(y)
      PROVE  GivenUpLate'
  <2>1. PICK n \in Message :
           /\ n.task = TaskOf(y)
           /\ n.retries = job[y].msg.retries + 1
           /\ n.retries <= Limit(TaskOf(y))
           /\ Puts(job[y].queue, n)
    BY <1>5, RetryPuts
  <2> QED
    BY <1>5, LimitNat, Holding, <2>1
       DEF Retry, GivenUpLate, Earned, Ran, Behind, Paid,
         TypeOK, Goto, Settle, TaskOf, Queue, Puts
<1>6. ASSUME NEW y \in Worker, Ack(y)
      PROVE  GivenUpLate'
  BY <1>6, LimitNat, Holding
     DEF Ack, GivenUpLate, Earned, Ran, Behind, Paid,
         TypeOK, Goto, Settle, TaskOf, Queue
<1>7. ASSUME NEW y \in Worker, Reject(y)
      PROVE  GivenUpLate'
  <2>1. PICK n \in Message : n = job[y].msg /\ n.task = TaskOf(y)
    BY <1>7, RejectPuts DEF Reject, TaskOf
  <2>2. CASE job[y].queue = "celery" /\ Puts("dead_letter_queue", n) /\ UNCHANGED dropped
    BY <1>7, LimitNat, <2>1, <2>2, QueueNames
       DEF Reject, Rejected, GivenUpLate, Earned, Ran, Behind, Paid,
         TypeOK, Goto, Settle, TaskOf, Queue, Puts
  <2>3. CASE /\ job[y].queue = "dead_letter_queue" /\ UNCHANGED ready
             /\ dropped' = dropped \cup {TaskOf(y)}
    BY <1>7, LimitNat, <2>1, <2>3, QueueNames
       DEF Reject, Rejected, GivenUpLate, Earned, Ran, Behind, Paid,
         TypeOK, Goto, Settle, TaskOf, Queue, Puts
  <2> QED
    BY <1>7, <2>1, <2>2, <2>3, RejectPuts DEF Reject
<1>8. ASSUME NEW y \in Worker, RetryFails(y)
      PROVE  GivenUpLate'
  <2>1. PICK n \in Message : n = job[y].msg /\ n.task = TaskOf(y)
    BY <1>8, RejectPuts DEF RetryFails, TaskOf
  <2>2. CASE job[y].queue = "celery" /\ Puts("dead_letter_queue", n) /\ UNCHANGED dropped
    BY <1>8, LimitNat, <2>1, <2>2, QueueNames
       DEF RetryFails, Rejected, GivenUpLate, Earned, Ran, Behind, Paid,
         TypeOK, Goto, Settle, TaskOf, Queue, Puts
  <2>3. CASE /\ job[y].queue = "dead_letter_queue" /\ UNCHANGED ready
             /\ dropped' = dropped \cup {TaskOf(y)}
    BY <1>8, LimitNat, <2>1, <2>3, QueueNames
       DEF RetryFails, Rejected, GivenUpLate, Earned, Ran, Behind, Paid,
         TypeOK, Goto, Settle, TaskOf, Queue, Puts
  <2> QED
    BY <1>8, <2>1, <2>2, <2>3, RejectPuts DEF RetryFails
<1>9. ASSUME NEW y \in Worker, TimeLimit(y)
      PROVE  GivenUpLate'
  <2>1. PICK n \in Message : n = job[y].msg /\ n.task = TaskOf(y)
    BY <1>9, RejectPuts DEF TimeLimit, TaskOf
  <2>2. CASE job[y].queue = "celery" /\ Puts("dead_letter_queue", n) /\ UNCHANGED dropped
    BY <1>9, LimitNat, <2>1, <2>2, QueueNames
       DEF TimeLimit, Rejected, GivenUpLate, Earned, Ran, Behind, Paid,
         TypeOK, Goto, Settle, TaskOf, Queue, Puts
  <2>3. CASE /\ job[y].queue = "dead_letter_queue" /\ UNCHANGED ready
             /\ dropped' = dropped \cup {TaskOf(y)}
    BY <1>9, LimitNat, <2>1, <2>3, QueueNames
       DEF TimeLimit, Rejected, GivenUpLate, Earned, Ran, Behind, Paid,
         TypeOK, Goto, Settle, TaskOf, Queue, Puts
  <2> QED
    BY <1>9, <2>1, <2>2, <2>3, RejectPuts DEF TimeLimit
<1>10. ASSUME NEW y \in Worker, NEW q \in Queue, NEW m \in Message, Discard(y, q, m)
      PROVE  GivenUpLate'
  BY <1>10, LimitNat, DiscardType
     DEF Discard, GivenUpLate, Earned, Ran, Behind, Paid,
         TypeOK, Goto, Settle, TaskOf, Queue
<1>11. ASSUME NEW y \in Worker, Terminate(y)
      PROVE  GivenUpLate'
  BY <1>11, LimitNat, Holding
     DEF Terminate, GivenUpLate, Earned, Ran, Behind, Paid,
         TypeOK, Goto, Settle, TaskOf, Queue
<1>12. ASSUME NEW y \in Worker, Crash(y)
      PROVE  GivenUpLate'
  <2>1. PICK n \in Message :
           n = job[y].msg /\ n.task = TaskOf(y) /\ Puts(job[y].queue, n)
    BY <1>12, CrashPuts DEF TaskOf
  <2> QED
    BY <1>12, LimitNat, Holding, <2>1
       DEF Crash, GivenUpLate, Earned, Ran, Behind, Paid,
         TypeOK, Goto, Settle, TaskOf, Queue, Puts
<1>13. ASSUME NEW x \in Task, Revoke(x)
      PROVE  GivenUpLate'
  BY <1>13, LimitNat
     DEF Revoke, GivenUpLate, Earned, Ran, Behind, Paid,
         TypeOK, Goto, Settle, TaskOf, Queue
<1>14. CASE Purge
  BY <1>14, LimitNat
     DEF Purge, GivenUpLate, Earned, Ran, Behind, Paid,
         TypeOK, Goto, Settle, TaskOf, Queue
<1>15. CASE UNCHANGED vars
  BY <1>15, LimitNat
     DEF vars, GivenUpLate, Earned, Ran, Behind, Paid,
         TypeOK, Goto, Settle, TaskOf, Queue
<1> QED
  BY <1>1, <1>2, <1>3, <1>4, <1>5, <1>6, <1>7, <1>8, <1>9, <1>10, <1>11, <1>12,
     <1>13, <1>14, <1>15 DEF Next, Step

-----------------------------------------------------------------------------
(* The theorems. *)

\* The initial state satisfies the invariant.
LEMMA InvInit == Init => IInv
<1> SUFFICES ASSUME Init PROVE IInv
  OBVIOUS
<1>1. TypeOK
  BY TypeInit
<1>2. \A q \in Queue, m \in Message : ready[q][m] = 0
  BY DEF Init
<1>3. \A t \in Task : ~Waiting(t)
  BY <1>2 DEF Waiting, Queued
<1> QED
  BY <1>1, <1>2, <1>3
     DEF Init, IInv, Counted, Earned, Ran, Fresh, Accounted, Single, OneCopy,
       OneRun,
         Held, Active, GivenUpLate

\* Every step preserves the invariant of every task.
LEMMA InvStep == IInv /\ [Next]_vars => IInv'
<1> SUFFICES ASSUME IInv, [Next]_vars PROVE IInv'
  OBVIOUS
<1>1. TypeOK /\ TypeOK'
  BY TypeStep DEF IInv
<1>2. \A q \in Queue, m \in Message : Counted(q, m)'
  BY <1>1, CountedStep DEF IInv
<1>3. \A w \in Worker : Earned(w)' /\ Ran(w)'
  BY <1>1, EarnedStep DEF IInv
<1>4. \A t \in Task : Fresh(t)' /\ Accounted(t)'
  BY <1>1, FreshStep, AccountedStep DEF IInv
<1>5. \A t \in Task \ hurt' : Single(t)'
  BY <1>1, SingleStep DEF IInv
<1>6. GivenUpLate'
  BY <1>1, GivenUpStep DEF IInv
<1> QED
  BY <1>1, <1>2, <1>3, <1>4, <1>5, <1>6 DEF IInv

\* The accounting of every task is an invariant.
THEOREM Inductive == Spec => []IInv
  BY InvInit, InvStep, PTL DEF Spec

\* The queues, the workers and the histories keep their types.
THEOREM TypeCorrect == Spec => []TypeOK
<1>1. IInv => TypeOK
  BY DEF IInv
<1> QED
  BY <1>1, Inductive, PTL

\* No accepted task is silently lost, however often workers die and runs are
\* killed: the late acknowledgement puts the message of a lost worker back, and
\* only an administrator's revocation or purge takes one out without a run.
THEOREM NoTaskLost == Spec => []NothingLost
<1>1. IInv => NothingLost
  BY DEF IInv, TypeOK, NothingLost, Accounted, Active, Held
<1> QED
  BY <1>1, Inductive, PTL

\* For every retry limit a registered task is given up after its last retry
\* and one more run in the dead-letter queue failed; a run that was cut stands
\* for one of these failures, and one cut in each queue for all of them.
THEOREM LastResort == Spec => []GivenUpLate
<1>1. IInv => GivenUpLate
  BY DEF IInv
<1> QED
  BY <1>1, Inductive, PTL

\* Unless a run failed behind its commit or the publication of its retry, or a
\* worker was lost, a task takes effect at most once.
THEOREM EffectOnce == Spec => []OnceUnlessHurt
<1>1. IInv => OnceUnlessHurt
  BY DEF IInv, OnceUnlessHurt, Single, OneRun
<1> QED
  BY <1>1, Inductive, PTL
=============================================================================
