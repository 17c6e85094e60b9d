-------------------------------- MODULE Votes --------------------------------
(***************************************************************************)
(* Votes on posts (voteOnPost in app/routes/like.py), the trigger that     *)
(* keeps posts.likes and posts.dis_likes in step with the votes table, and *)
(* the reconciliation that repairs them.  PostgreSQL at READ COMMITTED:    *)
(* a request reads the vote without a lock and writes later; what it       *)
(* writes, the trigger's update of the post row and the commit are one     *)
(* action, serialised by the lock of the post row.                         *)
(***************************************************************************)
EXTENDS Posts, Integers, FiniteSets

CONSTANTS Request,
          None,
          Drifted,   \* posts whose counters may be off when the run begins
          MaxDrift   \* and by how much

ASSUME UserAssumption == IsFiniteSet(User)
ASSUME DriftAssumption == Drifted \subseteq Post /\ MaxDrift \in Nat

Kind == {"like", "dislike"}

ASSUME NoneAssumption == None \notin Int /\ None \notin Kind

VARIABLES vote,     \* vote[p][u]: the row of the votes table, or "none"
          cnt,      \* cnt["like"][p] is posts.likes, cnt["dislike"][p] dis_likes
          pc,
          args,     \* args[r]: post, user and choice of the request
          seen,     \* seen[r]: the vote the request read
          recPc,    \* statement the reconciliation is in
          want,     \* want[p]: count the statement computed for a row to repair
          fix       \* fix[k][p]: uncommitted repair; its post row is locked

vars == <<vote, cnt, pc, args, seen, recPc, want, fix>>

Args == [post : Post, user : User, choice : Kind]
Ended == {"removed", "switched", "added", "conflict", "error"}
NoWant == [p \in Post |-> None]
NoFix == [k \in Kind |-> NoWant]

TypeOK ==
  /\ vote \in [Post -> [User -> Kind \cup {"none"}]]
  /\ cnt \in [Kind -> [Post -> Nat]]
  /\ pc \in [Request -> {"idle", "decided"} \cup Ended]
  /\ args \in [Request -> Args \cup {None}]
  /\ \A r \in Request : pc[r] = "decided" => args[r] \in Args
  /\ seen \in [Request -> Kind \cup {"none"}]
  /\ recPc \in Kind \cup {"idle", "commit"}
  /\ want \in [Post -> Nat \cup {None}]
  /\ fix \in [Kind -> [Post -> Nat \cup {None}]]

Voters(p, k) == {u \in User : vote[p][u] = k}

\* The database starts with no votes, and counters that may already be off.
Init ==
  /\ vote = [p \in Post |-> [u \in User |-> "none"]]
  /\ cnt \in [Kind -> [Post -> 0..MaxDrift]]
  /\ \A k \in Kind, p \in Post \ Drifted : cnt[k][p] = 0
  /\ pc = [r \in Request |-> "idle"]
  /\ args = [r \in Request |-> None]
  /\ seen = [r \in Request |-> "none"]
  /\ recPc = "idle"
  /\ want = NoWant
  /\ fix = NoFix

Goto(r, l) == pc' = [pc EXCEPT ![r] = l]
Locked(p) == \E k \in Kind : fix[k][p] # None

\* GREATEST(n - 1, 0)
Decremented(n) == IF n > 0 THEN n - 1 ELSE 0

(* trg_sync_post_vote_counts: the row of p and u goes from old to new. The *)
(* UPDATE of the post row waits for a reconciliation that holds its lock.  *)
SyncCounts(p, old, new) ==
  IF old = new THEN UNCHANGED cnt
  ELSE /\ ~Locked(p)
       /\ cnt' = [k \in Kind |->
            [cnt[k] EXCEPT ![p] = IF k = old THEN Decremented(@)
                                  ELSE IF k = new THEN @ + 1 ELSE @]]

WriteVote(p, u, new) ==
  /\ vote' = [vote EXCEPT ![p][u] = new]
  /\ SyncCounts(p, vote[p][u], new)

(* SELECT the current vote; no lock is taken.                              *)
ReadVote(r, p, u, c) ==
  /\ pc[r] = "idle"
  /\ args' = [args EXCEPT ![r] = [post |-> p, user |-> u, choice |-> c]]
  /\ seen' = [seen EXCEPT ![r] = vote[p][u]]
  /\ Goto(r, "decided")
  /\ UNCHANGED <<vote, cnt, recPc, want, fix>>

\* BUG variant: counters are adjusted for the vote that was read, in the
\* application, and not for the row the statement finds.
RemoveAsRead(r) ==
  LET a == args[r] IN
  /\ pc[r] = "decided"
  /\ seen[r] = a.choice
  /\ vote' = [vote EXCEPT ![a.post][a.user] = "none"]
  /\ SyncCounts(a.post, seen[r], "none")
  /\ Goto(r, "removed")
  /\ UNCHANGED <<args, seen, recPc, want, fix>>

(* Same choice again: DELETE by primary key.  It removes whatever vote is  *)
(* there by now; a row already gone is a warning, not an error.            *)
Remove(r) ==
  LET a == args[r] IN
  /\ pc[r] = "decided"
  /\ seen[r] = a.choice
  /\ WriteVote(a.post, a.user, "none")
  /\ Goto(r, "removed")
  /\ UNCHANGED <<args, seen, recPc, want, fix>>

(* The other choice: UPDATE by primary key; StaleDataError if the row is   *)
(* gone.                                                                   *)
Switch(r) ==
  LET a == args[r] IN
  /\ pc[r] = "decided"
  /\ seen[r] \notin {"none", a.choice}
  /\ IF vote[a.post][a.user] = "none"
       THEN UNCHANGED <<vote, cnt>> /\ Goto(r, "error")
       ELSE WriteVote(a.post, a.user, a.choice) /\ Goto(r, "switched")
  /\ UNCHANGED <<args, seen, recPc, want, fix>>

(* No vote was there: INSERT; a vote that appeared meanwhile violates the  *)
(* primary key and is answered 409.                                        *)
Add(r) ==
  LET a == args[r] IN
  /\ pc[r] = "decided"
  /\ seen[r] = "none"
  /\ IF vote[a.post][a.user] # "none"
       THEN UNCHANGED <<vote, cnt>> /\ Goto(r, "conflict")
       ELSE WriteVote(a.post, a.user, a.choice) /\ Goto(r, "added")
  /\ UNCHANGED <<args, seen, recPc, want, fix>>

-----------------------------------------------------------------------------
(* reconcile_denormalized_counters: one UPDATE per counter, one commit.    *)

\* The rows of statement k and their counts, in the statement's snapshot.
Wanted(k) ==
  [p \in Post |-> IF cnt[k][p] # Cardinality(Voters(p, k))
                    THEN Cardinality(Voters(p, k)) ELSE None]

ReconcileStart ==
  /\ recPc = "idle"
  /\ recPc' = "like"
  /\ want' = Wanted("like")
  /\ UNCHANGED <<vote, cnt, pc, args, seen, fix>>

(* The UPDATE reaches row p.  If a vote changed the row since the snapshot *)
(* the WHERE clause is evaluated again on the new row, but the subquery    *)
(* still counts the votes of the snapshot.                                 *)
ReconcileRow(p) ==
  /\ recPc \in Kind
  /\ want[p] # None
  /\ fix' = IF cnt[recPc][p] # want[p]
              THEN [fix EXCEPT ![recPc][p] = want[p]] ELSE fix
  /\ want' = [want EXCEPT ![p] = None]
  /\ UNCHANGED <<vote, cnt, pc, args, seen, recPc>>

ReconcileNext ==
  /\ recPc \in Kind
  /\ want = NoWant
  /\ recPc' = IF recPc = "like" THEN "dislike" ELSE "commit"
  /\ want' = IF recPc = "like" THEN Wanted("dislike") ELSE NoWant
  /\ UNCHANGED <<vote, cnt, pc, args, seen, fix>>

\* BUG variant: the repairs of the last statement only.
ReconcileCommitLast ==
  /\ recPc = "commit"
  /\ cnt' = [k \in Kind |-> [p \in Post |->
       IF k = "dislike" /\ fix[k][p] # None THEN fix[k][p] ELSE cnt[k][p]]]
  /\ fix' = NoFix
  /\ recPc' = "idle"
  /\ UNCHANGED <<vote, pc, args, seen, want>>

\* BUG variant: a row that needs no repair is set to NULL.
ReconcileCommitAll ==
  /\ recPc = "commit"
  /\ cnt' = fix
  /\ fix' = NoFix
  /\ recPc' = "idle"
  /\ UNCHANGED <<vote, pc, args, seen, want>>

ReconcileCommit ==
  /\ recPc = "commit"
  /\ cnt' = [k \in Kind |-> [p \in Post |->
       IF fix[k][p] # None THEN fix[k][p] ELSE cnt[k][p]]]
  /\ fix' = NoFix
  /\ recPc' = "idle"
  /\ UNCHANGED <<vote, pc, args, seen, want>>

\* The task dies or its transaction fails: everything is rolled back.
ReconcileAbort ==
  /\ recPc # "idle"
  /\ fix' = NoFix
  /\ want' = NoWant
  /\ recPc' = "idle"
  /\ UNCHANGED <<vote, cnt, pc, args, seen>>

Write(r) == Remove(r) \/ Switch(r) \/ Add(r)

Next ==
  \/ \E r \in Request :
       \/ \E p \in Post, u \in User, c \in Kind : ReadVote(r, p, u, c)
       \/ Write(r)
  \/ ReconcileStart
  \/ \E p \in Post : ReconcileRow(p)
  \/ ReconcileNext
  \/ ReconcileCommit
  \/ ReconcileAbort

Spec == Init /\ [][Next]_vars

\* Requests finish, and so does a reconciliation that has started.
FairSpec ==
  /\ Spec
  /\ \A r \in Request : WF_vars(Write(r))
  /\ \A p \in Post : WF_vars(ReconcileRow(p))
  /\ WF_vars(ReconcileNext)
  /\ WF_vars(ReconcileCommit)

-----------------------------------------------------------------------------
Exact(p) == \A k \in Kind : cnt[k][p] = Cardinality(Voters(p, k))

\* The counters of a post that were right to begin with are the numbers of its
\* likes and dislikes, however toggles, switches and double clicks race with
\* each other and with a reconciliation that repairs other posts.
CountersExact == \A p \in Post \ Drifted : Exact(p)

\* Counters that start out wrong are repaired for good once votes cease, if runs
\* of the reconciliation commit again and again, however many others fail.
DriftHeals ==
  []<><<ReconcileCommit>>_vars => <>[](\A p \in Post : Exact(p))
=============================================================================
