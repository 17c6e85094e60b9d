-------------------------- MODULE PostCountersProofs --------------------------
(***************************************************************************)
(* The vote counters of the posts that start exact stay exact, and no view *)
(* of a post is lost or counted twice, for any number of posts, users,     *)
(* concurrent requests and runs of the flush task.                         *)
(***************************************************************************)
EXTENDS Votes, PostViews, FiniteSetTheorems, TLAPS

(* The reconciliation finds nothing to repair in a post whose counters are  *)
(* exact, so it never locks its row.                                        *)
Untouched ==
  \A p \in Post \ Drifted : want[p] = None /\ \A k \in Kind : fix[k][p] = None

IInv == TypeOK /\ CountersExact /\ Untouched

\* The voters of a kind can be counted.
LEMMA VotersFinite ==
  ASSUME NEW p \in Post, NEW k \in Kind
  PROVE  IsFiniteSet(Voters(p, k)) /\ Cardinality(Voters(p, k)) \in Nat
  BY UserAssumption, FS_Subset, FS_CardinalityType DEF Voters

\* Writing a vote moves its user from one set of voters to another, and the
\* trigger moves the counters the same way.
LEMMA CountsFollow ==
  ASSUME TypeOK, CountersExact, NEW p \in Post, NEW u \in User,
         NEW new \in Kind \cup {"none"}, WriteVote(p, u, new)
  PROVE  /\ vote' \in [Post -> [User -> Kind \cup {"none"}]]
         /\ cnt' \in [Kind -> [Post -> Nat]]
         /\ CountersExact'
<1> DEFINE old == vote[p][u]
<1>1. vote' = [vote EXCEPT ![p][u] = new]
  BY DEF WriteVote
<1>2. vote' \in [Post -> [User -> Kind \cup {"none"}]]
  BY <1>1 DEF TypeOK
<1>3. cnt' \in [Kind -> [Post -> Nat]]
  <2>1. CASE old = new
    BY <2>1 DEF WriteVote, SyncCounts, TypeOK
  <2>2. CASE old # new
    <3>1. ASSUME NEW k \in Kind
          PROVE  cnt'[k] \in [Post -> Nat]
      <4>1. cnt'[k] = [cnt[k] EXCEPT ![p] =
                         IF k = old THEN Decremented(@)
                         ELSE IF k = new THEN @ + 1 ELSE @]
        BY <2>2 DEF WriteVote, SyncCounts
      <4>2. cnt[k] \in [Post -> Nat] /\ Decremented(cnt[k][p]) \in Nat
        BY DEF TypeOK, Decremented
      <4> QED
        BY <4>1, <4>2
    <3> QED
      BY <2>2, <3>1 DEF WriteVote, SyncCounts
  <2> QED
    BY <2>1, <2>2
<1>4. ASSUME NEW k \in Kind, NEW q \in Post \ Drifted
      PROVE  cnt'[k][q] = Cardinality(Voters(q, k)')
  <2>1. cnt[k][q] = Cardinality(Voters(q, k)) /\ cnt[k][q] \in Nat
    BY DEF CountersExact, Exact, TypeOK
  <2>6. Voters(q, k)' =
          IF q # p \/ old = new THEN Voters(q, k)
          ELSE IF k = old THEN Voters(q, k) \ {u}
          ELSE IF k = new THEN Voters(q, k) \cup {u} ELSE Voters(q, k)
    BY <1>1 DEF TypeOK, Voters
  <2>2. CASE q # p \/ old = new
    BY <2>1, <2>2, <2>6 DEF WriteVote, SyncCounts, TypeOK
  <2>3. CASE q = p /\ old # new /\ k = old
    <3>1. Voters(q, k)' = Voters(q, k) \ {u} /\ u \in Voters(q, k)
      BY <2>6, <2>3 DEF Voters
    <3>2. Cardinality(Voters(q, k)') = Cardinality(Voters(q, k)) - 1
      BY <3>1, VotersFinite, FS_RemoveElement
    <3>3. cnt[k][q] > 0
      BY <2>1, <3>1, VotersFinite, FS_EmptySet
    <3>4. cnt'[k][q] = cnt[k][q] - 1
      BY <2>3, <3>3 DEF WriteVote, SyncCounts, Decremented, TypeOK
    <3> QED
      BY <2>1, <3>2, <3>4
  <2>4. CASE q = p /\ old # new /\ k # old /\ k = new
    <3>1. Voters(q, k)' = Voters(q, k) \cup {u} /\ u \notin Voters(q, k)
      BY <2>6, <2>4 DEF Voters
    <3>2. Cardinality(Voters(q, k)') = Cardinality(Voters(q, k)) + 1
      BY <3>1, VotersFinite, FS_AddElement
    <3>3. cnt'[k][q] = cnt[k][q] + 1
      BY <2>4 DEF WriteVote, SyncCounts, TypeOK
    <3> QED
      BY <2>1, <3>2, <3>3
  <2>5. CASE q = p /\ old # new /\ k # old /\ k # new
    <3>1. Voters(q, k)' = Voters(q, k)
      BY <2>5, <2>6
    <3>2. cnt'[k][q] = cnt[k][q]
      BY <2>5 DEF WriteVote, SyncCounts, TypeOK
    <3> QED
      BY <2>1, <3>1, <3>2
  <2> QED
    BY <2>2, <2>3, <2>4, <2>5
<1> QED
  BY <1>2, <1>3, <1>4 DEF CountersExact, Exact

\* The initial state satisfies the invariant.
LEMMA InitInv == Init => IInv
<1> SUFFICES ASSUME Init PROVE IInv
  OBVIOUS
<1>1. TypeOK
  BY DriftAssumption, NoneAssumption DEF Init, TypeOK, NoWant, NoFix, Kind
<1>2. ASSUME NEW k \in Kind, NEW p \in Post \ Drifted
      PROVE  cnt[k][p] = Cardinality(Voters(p, k))
  <2>1. Voters(p, k) = {}
    BY DEF Init, Voters, Kind
  <2>2. cnt[k][p] = 0
    BY DEF Init
  <2> QED
    BY <2>1, <2>2, FS_EmptySet
<1>3. Untouched
  BY DEF Init, Untouched, NoWant, NoFix
<1> QED
  BY <1>1, <1>2, <1>3 DEF IInv, CountersExact, Exact

\* What a statement of the reconciliation wants to write are counts, and
\* nothing for a post whose counters are exact.
LEMMA WantedType ==
  ASSUME TypeOK, CountersExact, NEW k \in Kind
  PROVE  /\ Wanted(k) \in [Post -> Nat \cup {None}]
         /\ \A p \in Post \ Drifted : Wanted(k)[p] = None
<1>1. \A p \in Post : Cardinality(Voters(p, k)) \in Nat
  BY VotersFinite
<1> QED
  BY <1>1 DEF Wanted, CountersExact, Exact

\* Every step preserves the invariant.
LEMMA StepInv == IInv /\ [Next]_vars => IInv'
<1> SUFFICES ASSUME IInv, [Next]_vars PROVE IInv'
  OBVIOUS
<1>0. TypeOK /\ CountersExact /\ Untouched
  BY DEF IInv
<1>1. ASSUME NEW r \in Request, NEW p \in Post, NEW u \in User, NEW c \in Kind,
             ReadVote(r, p, u, c)
      PROVE  IInv'
  <2>1. TypeOK'
    BY <1>0, <1>1 DEF ReadVote, Goto, TypeOK, Ended, Args
  <2>2. CountersExact'
    BY <1>0, <1>1 DEF ReadVote, CountersExact, Exact, Voters
  <2> QED
    BY <1>0, <1>1, <2>1, <2>2 DEF ReadVote, IInv, Untouched
<1>2. ASSUME NEW r \in Request, Remove(r) PROVE IInv'
  <2>1. args[r] \in Args
    BY <1>0, <1>2 DEF Remove, TypeOK
  <2>2. CountersExact' /\ vote' \in [Post -> [User -> Kind \cup {"none"}]]
        /\ cnt' \in [Kind -> [Post -> Nat]]
    BY <1>0, <1>2, <2>1, CountsFollow DEF Remove, Args
  <2> QED
    BY <1>0, <1>2, <2>2 DEF Remove, Goto, IInv, TypeOK, Ended, Untouched
<1>3. ASSUME NEW r \in Request, Switch(r) PROVE IInv'
  <2>1. args[r] \in Args
    BY <1>0, <1>3 DEF Switch, TypeOK
  <2>2. CountersExact' /\ vote' \in [Post -> [User -> Kind \cup {"none"}]]
        /\ cnt' \in [Kind -> [Post -> Nat]]
    <3>1. CASE UNCHANGED <<vote, cnt>>
      BY <1>0, <3>1 DEF CountersExact, Exact, Voters, TypeOK
    <3>2. CASE WriteVote(args[r].post, args[r].user, args[r].choice)
      BY <1>0, <2>1, <3>2, CountsFollow DEF Args
    <3> QED
      BY <1>3, <3>1, <3>2 DEF Switch
  <2> QED
    BY <1>0, <1>3, <2>2 DEF Switch, Goto, IInv, TypeOK, Ended, Untouched
<1>4. ASSUME NEW r \in Request, Add(r) PROVE IInv'
  <2>1. args[r] \in Args
    BY <1>0, <1>4 DEF Add, TypeOK
  <2>2. CountersExact' /\ vote' \in [Post -> [User -> Kind \cup {"none"}]]
        /\ cnt' \in [Kind -> [Post -> Nat]]
    <3>1. CASE UNCHANGED <<vote, cnt>>
      BY <1>0, <3>1 DEF CountersExact, Exact, Voters, TypeOK
    <3>2. CASE WriteVote(args[r].post, args[r].user, args[r].choice)
      BY <1>0, <2>1, <3>2, CountsFollow DEF Args
    <3> QED
      BY <1>4, <3>1, <3>2 DEF Add
  <2> QED
    BY <1>0, <1>4, <2>2 DEF Add, Goto, IInv, TypeOK, Ended, Untouched
<1>5. \A k \in Kind : /\ Wanted(k) \in [Post -> Nat \cup {None}]
                       /\ \A p \in Post \ Drifted : Wanted(k)[p] = None
  BY <1>0, WantedType
<1>6. CASE ReconcileStart
  <2>1. want' \in [Post -> Nat \cup {None}] /\ recPc' \in Kind
    BY <1>5, <1>6 DEF ReconcileStart, Kind
  <2>2. TypeOK' /\ CountersExact'
    BY <1>0, <1>6, <2>1 DEF ReconcileStart, TypeOK, CountersExact, Exact, Voters
  <2>3. Untouched'
    BY <1>0, <1>5, <1>6 DEF ReconcileStart, Untouched, Kind
  <2> QED
    BY <2>2, <2>3 DEF IInv
<1>7. ASSUME NEW p \in Post, ReconcileRow(p) PROVE IInv'
  <2>1. p \in Drifted
    BY <1>0, <1>7 DEF ReconcileRow, Untouched
  <2>2. CountersExact'
    BY <1>0, <1>7 DEF ReconcileRow, CountersExact, Exact, Voters
  <2>3. fix' \in [Kind -> [Post -> Nat \cup {None}]]
    BY <1>0, <1>7 DEF ReconcileRow, TypeOK
  <2>4. TypeOK'
    BY <1>0, <1>7, <2>3 DEF ReconcileRow, TypeOK
  <2>5. Untouched'
    BY <1>0, <1>7, <2>1 DEF ReconcileRow, Untouched, TypeOK
  <2> QED
    BY <2>2, <2>4, <2>5 DEF IInv
<1>8. CASE ReconcileNext
  <2>1. want' \in [Post -> Nat \cup {None}] /\ recPc' \in Kind \cup {"idle", "commit"}
    BY <1>5, <1>8 DEF ReconcileNext, NoWant, Kind
  <2>2. TypeOK' /\ CountersExact'
    BY <1>0, <1>8, <2>1 DEF ReconcileNext, TypeOK, CountersExact, Exact, Voters
  <2>3. Untouched'
    BY <1>0, <1>5, <1>8 DEF ReconcileNext, Untouched, NoWant, Kind
  <2> QED
    BY <2>2, <2>3 DEF IInv
<1>9. CASE ReconcileCommit
  <2>1. cnt' \in [Kind -> [Post -> Nat]]
    BY <1>0, <1>9 DEF ReconcileCommit, TypeOK
  <2>2. \A k \in Kind : \A p \in Post \ Drifted : cnt'[k][p] = cnt[k][p]
    BY <1>0, <1>9 DEF ReconcileCommit, Untouched
  <2>3. TypeOK'
    BY <1>0, <1>9, <2>1 DEF ReconcileCommit, TypeOK, NoFix, NoWant
  <2>4. CountersExact'
    BY <1>0, <1>9, <2>2 DEF ReconcileCommit, CountersExact, Exact, Voters
  <2> QED
    BY <1>0, <1>9, <2>3, <2>4 DEF ReconcileCommit, IInv, Untouched, NoFix, NoWant
<1>10. CASE ReconcileAbort
  BY <1>0, <1>10
  DEF ReconcileAbort, IInv, TypeOK, CountersExact, Exact, Voters, Untouched, NoFix, NoWant
<1>11. CASE UNCHANGED vars
  BY <1>0, <1>11 DEF vars, IInv, TypeOK, CountersExact, Exact, Voters, Untouched
<1> QED
  BY <1>1, <1>2, <1>3, <1>4, <1>6, <1>7, <1>8, <1>9, <1>10, <1>11 DEF Next, Write

\* Votes, counters and the repair under way keep their types, drift or not.
THEOREM TypeCorrect == Spec => []TypeOK
  BY InitInv, StepInv, PTL DEF Spec, IInv

\* No race of votes, toggles and reconciliations makes an exact counter wrong.
THEOREM AlwaysExact == Spec => []CountersExact
  BY InitInv, StepInv, PTL DEF Spec, IInv

-----------------------------------------------------------------------------
(* The other counter of a post: the views, which the flush adds up.        *)

\* The views and the runs are of their types; what the UPDATE adds up is not.
ViewsTypeOK ==
  /\ queue \subseteq View
  /\ flushPc \in [Flush -> {"idle", "update", "remove"}]
  /\ batch \in [Flush -> SUBSET View]
  /\ opens \in [View -> Nat]
  /\ counted \in [View -> Nat]

\* What a run is about to remove from the queue has been counted.
Removable ==
  \A w \in Flush : flushPc[w] = "remove" => \A v \in batch[w] : counted[v] > 0

Holds(w, v) == flushPc[w] # "idle" /\ v \in batch[w]

\* A view that no two runs had is with one run at most; it stays in the queue
\* until that run has counted it; and while it is in the queue, uncounted,
\* an opening is still owed to it.
Owed ==
  \A v \in View \ again :
    /\ \A w, x \in Flush : Holds(w, v) /\ Holds(x, v) => w = x
    /\ \A w \in Flush : flushPc[w] = "update" /\ v \in batch[w] => v \in queue
    /\ v \in queue /\ (\A w \in Flush : ~(flushPc[w] = "remove" /\ v \in batch[w]))
         => counted[v] < opens[v]

VInv == /\ ViewsTypeOK /\ Removable /\ Owed
        /\ NotLost /\ NotInflated

\* A step that counts nothing, and removes from the queue nothing that a run
\* has still to count, keeps what is owed.
LEMMA OpenInv ==
  ASSUME VInv, NEW v \in View, Open(v)
  PROVE  VInv'
<1> USE DEF Open
<1>1. ViewsTypeOK'
  BY DEF VInv, ViewsTypeOK
<1>2. /\ opens'[v] = opens[v] + 1 /\ v \in queue'
      /\ \A x \in View \ {v} :
           opens'[x] = opens[x] /\ (x \in queue' <=> x \in queue)
  BY DEF VInv, ViewsTypeOK
<1>3. opens[v] \in Nat /\ counted[v] \in Nat
  BY DEF VInv, ViewsTypeOK
<1>4. Removable' /\ NotLost' /\ NotInflated'
  BY <1>2, <1>3 DEF VInv, Removable, NotLost, NotInflated
<1>5. Owed'
  <2>1. v \in View \ again => counted[v] < opens'[v]
    BY <1>2, <1>3 DEF VInv, NotInflated
  <2> QED
    BY <1>2, <2>1 DEF VInv, Owed, Holds
<1> QED
  BY <1>1, <1>4, <1>5 DEF VInv

\* A run that starts finds in the queue what is owed, or what another run has.
LEMMA StartInv ==
  ASSUME VInv, NEW w \in Flush, FlushStart(w)
  PROVE  VInv'
<1> USE DEF FlushStart, FlushGoto
<1>1. ViewsTypeOK'
  BY DEF VInv, ViewsTypeOK
<1>2. /\ flushPc'[w] = "update" /\ batch'[w] = queue /\ flushPc[w] = "idle"
      /\ \A x \in Flush \ {w} : flushPc'[x] = flushPc[x] /\ batch'[x] = batch[x]
      /\ UNCHANGED <<queue, opens, counted>>
  BY DEF VInv, ViewsTypeOK
<1>3. Removable' /\ NotLost'
  BY <1>2 DEF VInv, Removable, NotLost
<1>4. \A x \in Flush, v \in queue \ again' : ~Holds(x, v)
  BY DEF Held, Holds
<1>5. again \subseteq again'
  OBVIOUS
<1>6. Owed'
  <2> SUFFICES ASSUME NEW v \in View \ again'
               PROVE  /\ \A x, y \in Flush : Holds(x, v)' /\ Holds(y, v)' => x = y
                      /\ \A x \in Flush : flushPc'[x] = "update" /\ v \in batch'[x]
                           => v \in queue'
                      /\ v \in queue' /\ (\A x \in Flush :
                                 ~(flushPc'[x] = "remove" /\ v \in batch'[x]))
                           => counted'[v] < opens'[v]
    BY DEF Owed
  <2>1. v \in View \ again
    BY <1>5
  <2>2. \A x \in Flush \ {w} : Holds(x, v)' => Holds(x, v) /\ v \notin queue
    BY <1>2, <1>4 DEF Holds
  <2>3. Holds(w, v)' => v \in queue
    BY <1>2 DEF Holds
  <2>4. \A x, y \in Flush : Holds(x, v) /\ Holds(y, v) => x = y
    BY <2>1 DEF VInv, Owed
  <2>5. \A x \in Flush : flushPc[x] = "remove" /\ v \in batch[x] => Holds(x, v)
    BY DEF Holds
  <2> QED
    BY <1>2, <1>4, <2>1, <2>2, <2>3, <2>4, <2>5 DEF VInv, Owed
<1>7. NotInflated'
  BY <1>2, <1>5 DEF VInv, NotInflated
<1> QED
  BY <1>1, <1>3, <1>6, <1>7 DEF VInv

\* The UPDATE counts what was owed, once.
LEMMA UpdateInv ==
  ASSUME VInv, NEW w \in Flush, FlushUpdate(w)
  PROVE  VInv'
<1> USE DEF FlushUpdate, FlushGoto
<1>1. /\ flushPc[w] = "update" /\ flushPc'[w] = "remove"
      /\ \A x \in Flush \ {w} : flushPc'[x] = flushPc[x]
      /\ UNCHANGED <<queue, batch, opens, again>>
  BY DEF VInv, ViewsTypeOK
<1>2. \A v \in View :
        /\ counted[v] \in Nat /\ opens[v] \in Nat
        /\ counted'[v] = IF v \in batch[w] THEN counted[v] + 1 ELSE counted[v]
  BY DEF VInv, ViewsTypeOK
<1>3. ViewsTypeOK'
  BY <1>1, <1>2 DEF VInv, ViewsTypeOK
<1>4. \A x \in Flush : batch[x] \subseteq View
  BY DEF VInv, ViewsTypeOK
<1>5. Removable'
  BY <1>1, <1>2, <1>4 DEF VInv, Removable
<1>6. NotLost'
  BY <1>1, <1>2 DEF VInv, NotLost
<1>7. ASSUME NEW v \in batch[w], v \notin again
      PROVE  counted[v] < opens[v]
  <2>1. v \in View \ again /\ v \in queue
    BY <1>1, <1>4, <1>7 DEF VInv, Owed
  <2>2. \A x \in Flush : ~(flushPc[x] = "remove" /\ v \in batch[x])
    BY <1>1, <1>7, <2>1 DEF VInv, Owed, Holds
  <2> QED
    BY <2>1, <2>2 DEF VInv, Owed
<1>8. NotInflated'
  BY <1>1, <1>2, <1>7 DEF VInv, NotInflated
<1>9. Owed'
  <2>1. \A x \in Flush, v \in View : Holds(x, v)' <=> Holds(x, v)
    BY <1>1 DEF Holds
  <2> QED
    BY <1>1, <1>2, <2>1 DEF VInv, Owed
<1> QED
  BY <1>3, <1>5, <1>6, <1>8, <1>9 DEF VInv

\* What leaves the queue was counted, and no other run had it to count.
LEMMA RemoveInv ==
  ASSUME VInv, NEW w \in Flush, FlushRemove(w)
  PROVE  VInv'
<1> USE DEF FlushRemove, FlushGoto
<1>1. /\ flushPc[w] = "remove" /\ flushPc'[w] = "idle"
      /\ \A x \in Flush \ {w} : flushPc'[x] = flushPc[x]
      /\ queue' = queue \ batch[w]
      /\ UNCHANGED <<batch, opens, counted, again>>
  BY DEF VInv, ViewsTypeOK
<1>2. ViewsTypeOK'
  BY <1>1 DEF VInv, ViewsTypeOK
<1>3. Removable' /\ NotInflated'
  BY <1>1 DEF VInv, Removable, NotInflated
<1>4. NotLost'
  BY <1>1 DEF VInv, Removable, NotLost
<1>5. Owed'
  <2>1. \A x \in Flush, v \in View : Holds(x, v)' => Holds(x, v) /\ x # w
    BY <1>1 DEF Holds
  <2>2. \A v \in batch[w] : Holds(w, v)
    BY <1>1 DEF Holds
  <2>3. \A x \in Flush, v \in View :
          flushPc[x] = "update" /\ v \in batch[x] => Holds(x, v) /\ x # w
    BY <1>1 DEF Holds
  <2> QED
    BY <1>1, <2>1, <2>2, <2>3 DEF VInv, Owed
<1> QED
  BY <1>2, <1>3, <1>4, <1>5 DEF VInv

\* A run that fails before its UPDATE owes all it read, as before it started;
\* behind its UPDATE, what it read may be counted again.
LEMMA FailInv ==
  ASSUME VInv, NEW w \in Flush, FlushFails(w)
  PROVE  VInv'
<1> USE DEF FlushFails, FlushGoto
<1>1. /\ flushPc[w] \in {"update", "remove"} /\ flushPc'[w] = "idle"
      /\ \A x \in Flush \ {w} : flushPc'[x] = flushPc[x]
      /\ UNCHANGED <<queue, batch, opens, counted>>
      /\ again' = IF flushPc[w] = "remove" THEN again \cup batch[w] ELSE again
  BY DEF VInv, ViewsTypeOK
<1>2. ViewsTypeOK'
  BY <1>1 DEF VInv, ViewsTypeOK
<1>3. Removable' /\ NotLost' /\ NotInflated'
  BY <1>1 DEF VInv, Removable, NotLost, NotInflated
<1>4. Owed'
  <2>1. \A x \in Flush, v \in View : Holds(x, v)' => Holds(x, v)
    BY <1>1 DEF Holds
  <2> QED
    BY <1>1, <2>1 DEF VInv, Owed
<1> QED
  BY <1>2, <1>3, <1>4 DEF VInv

\* Every step of the queue, the flush and the reconciliation.
LEMMA ViewsStep == VInv /\ [ViewsNext]_viewsVars => VInv'
<1> SUFFICES ASSUME VInv, [ViewsNext]_viewsVars PROVE VInv'
  OBVIOUS
<1>1. ASSUME UNCHANGED <<queue, flushPc, batch, opens, counted, again>>
      PROVE  VInv'
  BY <1>1 DEF VInv, ViewsTypeOK, Removable, Owed, Holds,
              NotLost, NotInflated
<1>2. CASE UNCHANGED viewsVars
  BY <1>1, <1>2 DEF viewsVars
<1>3. ASSUME NEW v \in View, OpenUnqueued(v) \/ CacheExpires(v)
      PROVE  VInv'
  BY <1>1, <1>3 DEF OpenUnqueued, CacheExpires
<1>4. CASE Reconcile
  BY <1>1, <1>4 DEF Reconcile
<1> QED
  BY <1>2, <1>3, <1>4, OpenInv, StartInv, UpdateInv, RemoveInv, FailInv
     DEF ViewsNext, Step

\* The invariant of the view counters.
LEMMA ViewsInvariant == ViewsSpec => []VInv
<1>1. ViewsInit => VInv
  BY DEF ViewsInit, VInv, ViewsTypeOK, Removable, Owed, Holds,
         NotLost, NotInflated
<1> QED
  BY <1>1, ViewsStep, PTL DEF ViewsSpec

\* No opening that reached the queue is forgotten: its view waits in the queue
\* or was counted, whatever runs of the flush overlap or fail (get_post, the
\* flush task).
THEOREM ViewsNotLost == ViewsSpec => []NotLost
<1>1. VInv => NotLost
  BY DEF VInv
<1> QED
  BY <1>1, ViewsInvariant, PTL

\* Nor is one counted twice, unless two runs had it or one failed between its
\* UPDATE and its removal.
THEOREM ViewsNotInflated == ViewsSpec => []NotInflated
<1>1. VInv => NotInflated
  BY DEF VInv
<1> QED
  BY <1>1, ViewsInvariant, PTL
=============================================================================
