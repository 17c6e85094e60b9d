------------------------------ MODULE PostViews ------------------------------
(***************************************************************************)
(* Counting post views: get_post queues a view in the Redis set            *)
(* post:views:queue, the flush task adds the queued views to posts.views   *)
(* and then removes them from the set, and the reconciliation overwrites   *)
(* posts.views with the number of post_views rows.                         *)
(***************************************************************************)
EXTENDS Posts, Naturals, FiniteSets

CONSTANTS Flush,     \* runs of the flush task, which may overlap
          MaxFails,  \* how often Redis, the database or a worker may fail
          MaxOpens   \* bound on the openings of one post by one user

ASSUME MaxFailsAssumption == MaxFails \in Nat
ASSUME MaxOpensAssumption == MaxOpens \in Nat

View == Post \X User

VARIABLES queue,     \* members of post:views:queue
          cached,    \* views whose post detail is cached (120 s)
          views,     \* views[p]: the posts.views column
          flushPc,
          batch,     \* batch[w]: the members run w read
          fails,
          opens,     \* history: opens[v], uncached openings that were queued
          counted,   \* history: counted[v], how often v was added to views
          again      \* history: views read while another run had them, or left
                     \* in the queue by a run that failed after its UPDATE

viewsVars == <<queue, cached, views, flushPc, batch, fails, opens, counted, again>>

ViewsInit ==
  /\ queue = {}
  /\ cached = {}
  /\ views = [p \in Post |-> 0]
  /\ flushPc = [w \in Flush |-> "idle"]
  /\ batch = [w \in Flush |-> {}]
  /\ fails = 0
  /\ opens = [v \in View |-> 0]
  /\ counted = [v \in View |-> 0]
  /\ again = {}

\* The views that a run under way has read and not yet removed.
Held == UNION {batch[w] : w \in {x \in Flush : flushPc[x] # "idle"}}

FlushGoto(w, l) == flushPc' = [flushPc EXCEPT ![w] = l]

(* GET /posts/{id} on a cache miss queues the view and caches the post.    *)
Open(v) ==
  /\ v \notin cached
  /\ opens[v] < MaxOpens
  /\ queue' = queue \cup {v}
  /\ opens' = [opens EXCEPT ![v] = @ + 1]
  /\ cached' = cached \cup {v}
  /\ UNCHANGED <<views, flushPc, batch, fails, counted, again>>

(* The same when Redis fails: either write may be lost without notice.     *)
OpenUnqueued(v) ==
  /\ v \notin cached
  /\ fails < MaxFails
  /\ fails' = fails + 1
  /\ cached' \in {cached, cached \cup {v}}
  /\ UNCHANGED <<queue, views, flushPc, batch, opens, counted, again>>

\* The TTL runs out, or the post is edited.
CacheExpires(v) ==
  /\ v \in cached
  /\ cached' = cached \ {v}
  /\ UNCHANGED <<queue, views, flushPc, batch, fails, opens, counted, again>>

\* BUG variant: the members are popped when they are read.
FlushStartPops(w) ==
  /\ flushPc[w] = "idle"
  /\ queue # {}
  /\ batch' = [batch EXCEPT ![w] = queue]
  /\ queue' = {}
  /\ FlushGoto(w, "update")
  /\ UNCHANGED <<cached, views, fails, opens, counted, again>>

\* BUG variant: off by one, a single view is never flushed.
FlushStartMany(w) ==
  /\ flushPc[w] = "idle"
  /\ Cardinality(queue) > 1
  /\ batch' = [batch EXCEPT ![w] = queue]
  /\ again' = again \cup (queue \cap Held)
  /\ FlushGoto(w, "update")
  /\ UNCHANGED <<queue, cached, views, fails, opens, counted>>

(* smembers; an empty set ends the run.                                    *)
FlushStart(w) ==
  /\ flushPc[w] = "idle"
  /\ queue # {}
  /\ batch' = [batch EXCEPT ![w] = queue]
  /\ again' = again \cup (queue \cap Held)
  /\ FlushGoto(w, "update")
  /\ UNCHANGED <<queue, cached, views, fails, opens, counted>>

(* The bulk UPDATE commits.                                                *)
FlushUpdate(w) ==
  /\ flushPc[w] = "update"
  /\ views' = [p \in Post |-> views[p] + Cardinality({v \in batch[w] : v[1] = p})]
  /\ counted' = [v \in View |-> counted[v] + (IF v \in batch[w] THEN 1 ELSE 0)]
  /\ FlushGoto(w, "remove")
  /\ UNCHANGED <<queue, cached, batch, fails, opens, again>>

\* BUG variant: nothing is removed.
FlushRemoveNone(w) ==
  /\ flushPc[w] = "remove"
  /\ FlushGoto(w, "idle")
  /\ UNCHANGED <<queue, cached, views, batch, fails, opens, counted, again>>

(* srem of the members that were read.                                     *)
FlushRemove(w) ==
  /\ flushPc[w] = "remove"
  /\ queue' = queue \ batch[w]
  /\ FlushGoto(w, "idle")
  /\ UNCHANGED <<cached, views, batch, fails, opens, counted, again>>

(* The UPDATE or the srem fails and the exception is swallowed, or the     *)
(* worker dies there: the members stay for the next run.                   *)
FlushFails(w) ==
  /\ flushPc[w] \in {"update", "remove"}
  /\ fails < MaxFails
  /\ fails' = fails + 1
  /\ again' = IF flushPc[w] = "remove" THEN again \cup batch[w] ELSE again
  /\ FlushGoto(w, "idle")
  /\ UNCHANGED <<queue, cached, views, batch, opens, counted>>

(* posts.views := count of the post_views rows of the post.  No code of    *)
(* the application inserts such a row.                                     *)
Reconcile ==
  /\ \E p \in Post : views[p] # 0
  /\ views' = [p \in Post |-> 0]
  /\ UNCHANGED <<queue, cached, flushPc, batch, fails, opens, counted, again>>

Step(w) == FlushUpdate(w) \/ FlushRemove(w)

ViewsNext ==
  \/ \E v \in View : Open(v) \/ OpenUnqueued(v) \/ CacheExpires(v)
  \/ \E w \in Flush : FlushStart(w) \/ Step(w) \/ FlushFails(w)
  \/ Reconcile

ViewsSpec == ViewsInit /\ [][ViewsNext]_viewsVars

\* A run of the task that has started ends.
ViewsFairSpec == ViewsSpec /\ \A w \in Flush : WF_viewsVars(Step(w))

-----------------------------------------------------------------------------
\* A view that was queued is still queued or has been counted, although views
\* are queued while a flush runs and a flush may stop between its steps.
NotLost == \A v \in View : opens[v] > 0 => v \in queue \/ counted[v] > 0

\* A view is counted at most as often as the post was opened, unless two runs
\* that overlap had it, or a run failed between its UPDATE and its removal.
NotInflated == \A v \in View \ again : counted[v] <= opens[v]

\* Every queued view is counted in the end, if the task is started whenever
\* the queue is not empty.
QueuedIsCounted ==
  (\A w \in Flush : WF_viewsVars(FlushStart(w)))
    => \A v \in View : v \in queue ~> counted[v] > 0

=============================================================================
