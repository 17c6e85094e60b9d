------------------------------- MODULE Follows -------------------------------
(***************************************************************************)
(* Following, unfollowing and removing a follower (app/routes/connect.py), *)
(* and the trigger on connections that keeps users.following_cnt and       *)
(* users.followers_cnt.  One transaction per request at READ COMMITTED:    *)
(* the row of connections, then the row of the follower, then the row of   *)
(* the followed user, each of which another transaction may hold.  The     *)
(* caches a request deletes behind its commit are in ResponseCache.        *)
(***************************************************************************)
EXTENDS Integers, FiniteSets

CONSTANTS User, Request,
          Named,      \* pairs <<follower, followed>> requests may name
          None,
          MaxFaults   \* bound on crashes, lost commits and broker failures

ASSUME UserAssumption == IsFiniteSet(User)
ASSUME NamedAssumption == Named \subseteq User \X User
ASSUME NoneAssumption == None \notin Request /\ None \notin Int /\ None \notin Named
ASSUME FaultAssumption == MaxFaults \in Nat

Counter == {"following", "followers"}
Op == {"follow", "unfollow", "remove"}

VARIABLES edges,    \* committed rows of connections: <<follower, followed>>
          cnt,      \* cnt["following"][u] is users.following_cnt of u
          pc,
          op, pair, \* what the request does, and to which row
          lock,     \* lock[u]: request whose transaction updated the row of u
          draft,    \* draft[u]: uncommitted value of the counter it updated
          faults,
          start     \* history: the rows at the beginning

vars == <<edges, cnt, pc, op, pair, lock, draft, faults, start>>

Follower(r) == pair[r][1]
Followed(r) == pair[r][2]

\* Inside a transaction that inserted or deleted its row of connections.
Writing == {"follower", "followed", "commit"}
(* "failed" is the 400 behind a rollback, "lost" the same answer behind a   *)
(* commit whose confirmation never came, "error" a 500 behind the commit.   *)
Ended == {"done", "refused", "failed", "lost", "error", "dead"}

TypeOK ==
  /\ edges \subseteq User \X User
  /\ cnt \in [Counter -> [User -> Nat]]
  /\ pc \in [Request -> {"idle", "row", "queued", "committed"} \cup Writing \cup Ended]
  /\ op \in [Request -> Op]
  /\ pair \in [Request -> Named \cup {None}]
  /\ \A r \in Request : pc[r] # "idle" => pair[r] \in Named
  /\ lock \in [User -> Request \cup {None}]
  /\ draft \in [User -> Nat \cup {None}]
  /\ faults \in 0..MaxFaults
  /\ start \subseteq User \X User

Following(u) == {e \in edges : e[1] = u}
Followers(u) == {e \in edges : e[2] = u}

\* Any graph without loops (ck_connections_no_self_follow), counted exactly.
Init ==
  /\ edges \in SUBSET {e \in Named : e[1] # e[2]}
  /\ start = edges
  /\ cnt = [k \in Counter |-> [u \in User |->
       Cardinality(IF k = "following" THEN Following(u) ELSE Followers(u))]]
  /\ pc = [r \in Request |-> "idle"]
  /\ op = [r \in Request |-> "follow"]
  /\ pair = [r \in Request |-> None]
  /\ lock = [u \in User |-> None]
  /\ draft = [u \in User |-> None]
  /\ faults = 0

Goto(r, l) == pc' = [pc EXCEPT ![r] = l]
Data == <<edges, cnt, op, pair, start>>

\* BUG variant: unlocks the rows of other transactions as well.
ReleaseAll(r) ==
  /\ lock' = [u \in User |-> None]
  /\ draft' = [u \in User |-> None]

\* The rows that the end of r's transaction unlocks, by commit or rollback.
Release(r) ==
  /\ lock' = [u \in User |-> IF lock[u] = r THEN None ELSE lock[u]]
  /\ draft' = [u \in User |-> IF lock[u] = r THEN None ELSE draft[u]]

(* The user to follow exists (users are never deleted) and is not oneself. *)
FollowUser(r, e) ==
  /\ pc[r] = "idle"
  /\ op' = [op EXCEPT ![r] = "follow"]
  /\ pair' = [pair EXCEPT ![r] = e]
  /\ Goto(r, IF e[1] = e[2] THEN "refused" ELSE "row")
  /\ UNCHANGED <<edges, cnt, lock, draft, faults, start>>

(* unfollow_user is the follower's request, remove_follower the followed   *)
(* user's; both delete the same row.                                       *)
Drop(r, o, e) ==
  /\ pc[r] = "idle"
  /\ op' = [op EXCEPT ![r] = o]
  /\ pair' = [pair EXCEPT ![r] = e]
  /\ Goto(r, "row")
  /\ UNCHANGED <<edges, cnt, lock, draft, faults, start>>

UnfollowUser(r, e) == Drop(r, "unfollow", e)
RemoveFollower(r, e) == Drop(r, "remove", e)

\* Another transaction inserted or deleted the row and has not ended.
Held(r) == \E s \in Request \ {r} : pc[s] \in Writing /\ pair[s] = pair[r]

\* BUG variant: a SELECT instead of the unique key decides, so nobody waits
\* for an insert in progress.
InsertUnheld(r) ==
  /\ pc[r] = "row"
  /\ op[r] = "follow"
  /\ Goto(r, IF pair[r] \in edges THEN "refused" ELSE "follower")
  /\ UNCHANGED <<Data, lock, draft, faults>>

(* INSERT ... ON CONFLICT DO NOTHING waits for whoever holds the key, then *)
(* inserts, or returns nothing and is answered 400.                        *)
Insert(r) ==
  /\ pc[r] = "row"
  /\ op[r] = "follow"
  /\ ~Held(r)
  /\ Goto(r, IF pair[r] \in edges THEN "refused" ELSE "follower")
  /\ UNCHANGED <<Data, lock, draft, faults>>

\* BUG variant: the number of deleted rows is not looked at.
DeleteUnchecked(r) ==
  /\ pc[r] \in {"row", "queued"}
  /\ op[r] # "follow"
  /\ IF pair[r] \notin edges THEN Goto(r, "committed")
     ELSE IF Held(r) THEN pc[r] = "row" /\ Goto(r, "queued")
     ELSE Goto(r, "follower")
  /\ UNCHANGED <<Data, lock, draft, faults>>

(* DELETE looks at its snapshot: it does not see an insert in progress and *)
(* finds nothing; it waits for another DELETE of the row it sees.          *)
Delete(r) ==
  /\ pc[r] \in {"row", "queued"}
  /\ op[r] # "follow"
  /\ IF pair[r] \notin edges THEN Goto(r, "refused")
     ELSE IF Held(r) THEN pc[r] = "row" /\ Goto(r, "queued")
     ELSE Goto(r, "follower")
  /\ UNCHANGED <<Data, lock, draft, faults>>

\* GREATEST(n - 1, 0)
Decremented(n) == IF n > 0 THEN n - 1 ELSE 0

(* One UPDATE of the trigger: counter k of user u, whose row no other      *)
(* transaction holds any more.                                             *)
Count(r, u, k) ==
  /\ lock[u] = None
  /\ lock' = [lock EXCEPT ![u] = r]
  /\ draft' = [draft EXCEPT ![u] = IF op[r] = "follow" THEN cnt[k][u] + 1
                                   ELSE Decremented(cnt[k][u])]
  /\ UNCHANGED <<Data, faults>>

CountFollower(r) ==
  /\ pc[r] = "follower"
  /\ Count(r, Follower(r), "following")
  /\ Goto(r, "followed")

CountFollowed(r) ==
  /\ pc[r] = "followed"
  /\ Count(r, Followed(r), "followers")
  /\ Goto(r, "commit")

(* The row and both counters become visible.  A DELETE that waited for     *)
(* this one finds its row gone.                                            *)
Committed(r, l) ==
  /\ pc[r] = "commit"
  /\ edges' = IF op[r] = "follow" THEN edges \cup {pair[r]} ELSE edges \ {pair[r]}
  /\ cnt' = [cnt EXCEPT !["following"][Follower(r)] = draft[Follower(r)],
                        !["followers"][Followed(r)] = draft[Followed(r)]]
  /\ Release(r)
  /\ pc' = [s \in Request |->
       IF s = r THEN l
       ELSE IF pc[s] = "queued" /\ pair[s] = pair[r] THEN "refused" ELSE pc[s]]
  /\ UNCHANGED <<op, pair, start>>

Commit(r) == Committed(r, "committed") /\ UNCHANGED faults

\* The connection breaks while the answer to COMMIT is on its way.
CommitLost(r) ==
  /\ faults < MaxFaults
  /\ faults' = faults + 1
  /\ Committed(r, "lost")

(* The transaction that r waits for: the owner of the followed user's row. *)
(* Whoever waits earlier holds no row that another could wait for.         *)
Blocker(r) == IF pc[r] = "followed" THEN lock[Followed(r)] ELSE None
Deadlocked(r) ==
  \E S \in SUBSET Request : r \in S /\ {Blocker(s) : s \in S} = S

\* BUG variant: the victim of a deadlock keeps what it locked.
DeadlockLeaks(r) ==
  /\ Deadlocked(r)
  /\ Goto(r, "failed")
  /\ UNCHANGED <<Data, lock, draft, faults>>

(* PostgreSQL aborts any one transaction of a cycle.  The route rolls back *)
(* and answers 400; it does not try again.                                 *)
Deadlock(r) ==
  /\ Deadlocked(r)
  /\ Release(r)
  /\ Goto(r, "failed")
  /\ UNCHANGED <<Data, faults>>

(* The caches are deleted and, for a follow, the notification is published;*)
(* then the answer.                                                        *)
Answer(r) ==
  /\ pc[r] = "committed"
  /\ Goto(r, "done")
  /\ UNCHANGED <<Data, lock, draft, faults>>

PublishFails(r) ==
  /\ pc[r] = "committed"
  /\ op[r] = "follow"
  /\ faults < MaxFaults
  /\ faults' = faults + 1
  /\ Goto(r, "error")
  /\ UNCHANGED <<Data, lock, draft>>

\* The worker dies; the database rolls back what was not committed.
Crash(r) ==
  /\ pc[r] \notin {"idle"} \cup Ended
  /\ faults < MaxFaults
  /\ faults' = faults + 1
  /\ Release(r)
  /\ Goto(r, "dead")
  /\ UNCHANGED Data

Begin(r) ==
  \E e \in Named : FollowUser(r, e) \/ UnfollowUser(r, e) \/ RemoveFollower(r, e)

Step(r) ==
  \/ Insert(r) \/ Delete(r)
  \/ CountFollower(r) \/ CountFollowed(r)
  \/ Commit(r) \/ Deadlock(r) \/ Answer(r)

Fault(r) == CommitLost(r) \/ PublishFails(r) \/ Crash(r)

Next == \E r \in Request : Begin(r) \/ Step(r) \/ Fault(r)

Spec == Init /\ [][Next]_vars

\* A started request is driven on, and the deadlock detector runs.
FairSpec == Spec /\ \A r \in Request : WF_vars(Step(r))

-----------------------------------------------------------------------------
\* The two counters of every user are the numbers of rows that name it,
\* although each request reads, locks and writes them one after the other
\* while others follow, unfollow, deadlock and die.
CountersExact ==
  \A u \in User :
    /\ cnt["following"][u] = Cardinality(Following(u))
    /\ cnt["followers"][u] = Cardinality(Followers(u))

Told(e, ops) == {r \in Request : pc[r] = "done" /\ pair[r] = e /\ op[r] \in ops}
\* Requests that took effect, or may have, without the client being told.
Untold(e) ==
  {r \in Request : pair[r] = e /\ pc[r] \in {"committed", "lost", "error", "dead"}}
Has(E, e) == IF e \in E THEN 1 ELSE 0

\* The answers add up to the graph: the follows answered with success, less the
\* removals, are the change of the row, up to the requests whose client was told
\* nothing or a failure behind the commit.  In particular one of two racing
\* follows is refused, and a refused or aborted request changed nothing.
AnswersAddUp ==
  \A e \in Named :
    LET told == Cardinality(Told(e, {"follow"}))
                - Cardinality(Told(e, {"unfollow", "remove"}))
        change == Has(edges, e) - Has(start, e)
    IN  /\ told - change <= Cardinality(Untold(e))
        /\ change - told <= Cardinality(Untold(e))

\* Every request ends although follows lock user rows in opposite orders.
EveryRequestEnds == \A r \in Request : pc[r] # "idle" ~> pc[r] \in Ended
=============================================================================
