---------------------------- MODULE FollowsProofs ----------------------------
(***************************************************************************)
(* The counters of all users are the numbers of their followers and of     *)
(* those they follow, for any number of users and requests and any faults; *)
(* and what the clients are told adds up to the rows.                      *)
(***************************************************************************)
EXTENDS Follows, FiniteSetTheorems, TLAPS

(* A row of connections is written by one transaction at a time, which      *)
(* inserts a row that is not there or deletes one that is.                  *)
Keys ==
  \A r \in Request : pc[r] \in Writing =>
    /\ Follower(r) # Followed(r)
    /\ pair[r] \in edges <=> op[r] # "follow"
    /\ \A s \in Request : pc[s] \in Writing /\ pair[s] = pair[r] => s = r

Updated(r, k, u) ==
  IF op[r] = "follow" THEN cnt[k][u] + 1 ELSE Decremented(cnt[k][u])

(* A transaction past an update holds the row, and what it wrote there is   *)
(* one step from the committed value.                                       *)
Locks ==
  \A r \in Request :
    /\ pc[r] \in {"followed", "commit"} =>
         /\ lock[Follower(r)] = r
         /\ draft[Follower(r)] = Updated(r, "following", Follower(r))
    /\ pc[r] = "commit" =>
         /\ lock[Followed(r)] = r
         /\ draft[Followed(r)] = Updated(r, "followers", Followed(r))

\* Nobody follows, or is about to follow, oneself.
Loopless ==
  /\ \A e \in edges : e[1] # e[2]
  /\ \A r \in Request : pc[r] = "row" /\ op[r] = "follow" => Follower(r) # Followed(r)

IInv == TypeOK /\ CountersExact /\ Loopless /\ Keys /\ Locks

\* All but one request stay in or out of a set: its size changes by that one.
LEMMA OneMoves ==
  ASSUME NEW A, NEW B, NEW r, IsFiniteSet(A), A \ {r} = B \ {r}
  PROVE  /\ IsFiniteSet(B) /\ Cardinality(A) \in Nat /\ Cardinality(B) \in Nat
         /\ Cardinality(B) - Has(B, r) = Cardinality(A) - Has(A, r)
<1> DEFINE C == A \ {r}
<1>1. B = IF r \in B THEN C \cup {r} ELSE C
  BY Zenon
<1>2. /\ IsFiniteSet(C) /\ Cardinality(C) \in Nat /\ Cardinality(A) \in Nat
      /\ Cardinality(C) = Cardinality(A) - Has(A, r)
  <2>1. /\ IsFiniteSet(C)
        /\ Cardinality(C) = IF r \in A THEN Cardinality(A) - 1 ELSE Cardinality(A)
    BY FS_RemoveElement
  <2>2. Cardinality(C) \in Nat /\ Cardinality(A) \in Nat
    BY <2>1, FS_CardinalityType
  <2> HIDE DEF C
  <2> QED
    BY <2>1, <2>2 DEF Has
<1>3. IsFiniteSet(B) /\ Cardinality(B) = Cardinality(C) + Has(B, r)
  <2> HIDE DEF C
  <2>1. r \notin C
    BY DEF C
  <2>2. IsFiniteSet(C \cup {r}) /\ Cardinality(C \cup {r}) = Cardinality(C) + 1
    BY <1>2, <2>1, FS_AddElement
  <2>3. CASE r \in B
    BY <1>1, <2>2, <2>3 DEF Has
  <2>4. CASE r \notin B
    BY <1>1, <1>2, <2>4 DEF Has
  <2> QED
    BY <2>3, <2>4
<1>4. Cardinality(A) \in Nat /\ Cardinality(B) \in Nat /\ Cardinality(C) \in Nat
  BY <1>2, <1>3, FS_CardinalityType
<1> QED
  BY <1>2, <1>3, <1>4 DEF Has

\* Two sets that do not meet are counted one by one.
LEMMA DisjointUnion ==
  ASSUME NEW A, NEW B, IsFiniteSet(A), IsFiniteSet(B), A \cap B = {}
  PROVE  /\ IsFiniteSet(A \cup B)
         /\ Cardinality(A) \in Nat /\ Cardinality(B) \in Nat
         /\ Cardinality(A \cup B) = Cardinality(A) + Cardinality(B)
<1>1. Cardinality(A) \in Nat /\ Cardinality(B) \in Nat
  BY FS_CardinalityType
<1> QED
  BY <1>1, FS_Union, FS_EmptySet

USE NamedAssumption, NoneAssumption

\* The rows that name a user can be counted.
LEMMA RowsFinite ==
  ASSUME TypeOK, NEW u \in User
  PROVE  /\ IsFiniteSet(Following(u)) /\ Cardinality(Following(u)) \in Nat
         /\ IsFiniteSet(Followers(u)) /\ Cardinality(Followers(u)) \in Nat
<1>1. IsFiniteSet(User \X User)
  BY UserAssumption, FS_Product
<1>2. Following(u) \subseteq User \X User /\ Followers(u) \subseteq User \X User
  BY DEF TypeOK, Following, Followers
<1> QED
  BY <1>1, <1>2, FS_Subset, FS_CardinalityType

\* A named pair is a pair of users.
LEMMA PairOfUsers ==
  ASSUME TypeOK, NEW r \in Request, pc[r] # "idle"
  PROVE  /\ pair[r] \in User \X User
         /\ Follower(r) \in User /\ Followed(r) \in User
         /\ pair[r] = <<Follower(r), Followed(r)>>
  BY DEF TypeOK, Follower, Followed

\* The initial state satisfies the invariant.
LEMMA InitInv == Init => IInv
<1> SUFFICES ASSUME Init PROVE IInv
  OBVIOUS
<1>1. edges \subseteq User \X User
  BY DEF Init
<1>2. ASSUME NEW u \in User
      PROVE  Cardinality(Following(u)) \in Nat /\ Cardinality(Followers(u)) \in Nat
  <2>1. Following(u) \subseteq User \X User /\ Followers(u) \subseteq User \X User
    BY <1>1 DEF Following, Followers
  <2> QED
    BY <2>1, UserAssumption, FS_Product, FS_Subset, FS_CardinalityType
<1>3. cnt \in [Counter -> [User -> Nat]]
  <2>1. ASSUME NEW k \in Counter
        PROVE  [u \in User |-> Cardinality(IF k = "following" THEN Following(u)
                                           ELSE Followers(u))] \in [User -> Nat]
    BY <1>2
  <2> QED
    BY <2>1 DEF Init
<1>4. TypeOK
  BY <1>1, <1>3, FaultAssumption DEF Init, TypeOK, Op, Writing, Ended
<1>5. CountersExact
  BY DEF Init, CountersExact, Counter
<1>6. Loopless /\ Keys /\ Locks
  BY DEF Init, Loopless, Keys, Locks, Writing
<1> QED
  BY <1>4, <1>5, <1>6 DEF IInv

\* A request that begins holds nothing yet.
LEMMA BeginInv ==
  ASSUME IInv, NEW r \in Request, Begin(r)
  PROVE  IInv'
<1> PICK e \in Named : FollowUser(r, e) \/ Drop(r, "unfollow", e) \/ Drop(r, "remove", e)
  BY DEF Begin, UnfollowUser, RemoveFollower
<1>1. PICK o \in Op, l \in {"row", "refused"} :
      /\ pc[r] = "idle"
      /\ pc' = [pc EXCEPT ![r] = l]
      /\ op' = [op EXCEPT ![r] = o]
      /\ pair' = [pair EXCEPT ![r] = e]
      /\ l = "row" /\ o = "follow" => e[1] # e[2]
      /\ UNCHANGED <<edges, cnt, lock, draft, faults, start>>
  BY DEF FollowUser, Drop, Goto, Op
<1>2. TypeOK'
  BY <1>1 DEF IInv, TypeOK, Ended
<1>3. \A s \in Request : pc'[s] \in Writing =>
         pc[s] = pc'[s] /\ op'[s] = op[s] /\ pair'[s] = pair[s]
  BY <1>1 DEF IInv, TypeOK, Writing
<1>4. Keys' /\ Locks'
  BY <1>1, <1>3 DEF IInv, Keys, Locks, Writing, Follower, Followed, Updated
<1>5. Loopless'
  BY <1>1 DEF IInv, TypeOK, Loopless, Follower, Followed
<1> QED
  BY <1>1, <1>2, <1>4, <1>5 DEF IInv, CountersExact, Following, Followers

\* A statement on connections makes its transaction the owner of the row.
LEMMA RowInv ==
  ASSUME IInv, NEW r \in Request, Insert(r) \/ Delete(r)
  PROVE  IInv'
<1>1. /\ pc[r] \in {"row", "queued"}
      /\ UNCHANGED <<edges, cnt, op, pair, start, lock, draft, faults>>
      /\ \/ pc' \in {[pc EXCEPT ![r] = "refused"], [pc EXCEPT ![r] = "queued"]}
         \/ /\ pc' = [pc EXCEPT ![r] = "follower"]
            /\ ~Held(r)
            /\ pair[r] \in edges <=> op[r] # "follow"
            /\ op[r] = "follow" => Follower(r) # Followed(r)
  BY DEF Insert, Delete, Goto, Data, IInv, Loopless
<1>2. TypeOK'
  BY <1>1 DEF IInv, TypeOK, Ended, Writing
<1>3. Locks'
  BY <1>1 DEF IInv, TypeOK, Locks, Follower, Followed, Updated
<1>4. Keys'
  <2>1. CASE pc' = [pc EXCEPT ![r] = "follower"]
    <3>1. \A s \in Request \ {r} :
             /\ pc'[s] = pc[s]
             /\ pc[s] \in Writing => pair[s] # pair[r]
      BY <1>1, <2>1 DEF IInv, TypeOK, Held, Writing
    <3>2. Follower(r) # Followed(r)
      <4>1. pair[r] \in edges => Follower(r) # Followed(r)
        BY DEF IInv, Loopless, Follower, Followed
      <4> QED
        BY <1>1, <2>1, <4>1 DEF IInv, TypeOK
    <3> QED
      BY <1>1, <2>1, <3>1, <3>2 DEF IInv, Keys, Follower, Followed, TypeOK, Writing
  <2>2. CASE pc' \in {[pc EXCEPT ![r] = "refused"], [pc EXCEPT ![r] = "queued"]}
    BY <1>1, <2>2 DEF IInv, TypeOK, Keys, Writing, Follower, Followed
  <2> QED
    BY <1>1, <2>1, <2>2
<1>5. Loopless'
  BY <1>1 DEF IInv, TypeOK, Loopless, Follower, Followed
<1> QED
  BY <1>1, <1>2, <1>3, <1>4, <1>5 DEF IInv, CountersExact, Following, Followers

\* An update of the trigger takes its row and drafts the next value there.
LEMMA CountInv ==
  ASSUME IInv, NEW r \in Request, CountFollower(r) \/ CountFollowed(r)
  PROVE  IInv'
<1>1. pc[r] \in Writing /\ pc[r] # "idle"
  BY DEF CountFollower, CountFollowed, Writing
<1>2. Follower(r) \in User /\ Followed(r) \in User /\ Follower(r) # Followed(r)
  BY <1>1, PairOfUsers DEF IInv, Keys
<1>3. UNCHANGED <<edges, cnt, op, pair, start, faults>>
  BY DEF CountFollower, CountFollowed, Count, Data
<1>4. PICK u \in User, k \in Counter, l \in {"followed", "commit"} :
        /\ pc' = [pc EXCEPT ![r] = l]
        /\ lock[u] = None
        /\ lock' = [lock EXCEPT ![u] = r]
        /\ draft' = [draft EXCEPT ![u] = Updated(r, k, u)]
        /\ \/ pc[r] = "follower" /\ l = "followed" /\ u = Follower(r) /\ k = "following"
           \/ pc[r] = "followed" /\ l = "commit" /\ u = Followed(r) /\ k = "followers"
  BY <1>2 DEF CountFollower, CountFollowed, Count, Goto, Updated, Counter
<1>5. Updated(r, k, u) \in Nat
  BY DEF IInv, TypeOK, Updated, Decremented
<1>6. TypeOK'
  BY <1>1, <1>3, <1>4, <1>5 DEF IInv, TypeOK, Writing
<1>7. Keys' /\ Loopless'
  BY <1>1, <1>3, <1>4 DEF IInv, TypeOK, Keys, Loopless, Writing, Follower, Followed
<1>8. Locks'
  <2>1. ASSUME NEW s \in Request, pc[s] \in {"followed", "commit"}
        PROVE  Follower(s) # u /\ Follower(s) \in User
    BY <1>4, <2>1, PairOfUsers DEF IInv, Locks
  <2>2. ASSUME NEW s \in Request, pc[s] = "commit"
        PROVE  Followed(s) # u /\ Followed(s) \in User
    BY <1>4, <2>2, PairOfUsers DEF IInv, Locks
  <2>3. ASSUME NEW s \in Request \ {r}
        PROVE  pc'[s] = pc[s]
    BY <1>4
  <2>4. pc'[r] = l
    BY <1>4 DEF IInv, TypeOK
  <2>5. /\ lock'[u] = r /\ draft'[u] = Updated(r, k, u)
        /\ \A v \in User \ {u} : lock'[v] = lock[v] /\ draft'[v] = draft[v]
    BY <1>4 DEF IInv, TypeOK
  <2>6. \A s \in Request, v \in User, kk \in Counter :
          /\ Updated(s, kk, v)' = Updated(s, kk, v)
          /\ Follower(s)' = Follower(s) /\ Followed(s)' = Followed(s)
    BY <1>3 DEF Updated, Follower, Followed
  <2> QED
    BY <1>2, <1>4, <2>1, <2>2, <2>3, <2>4, <2>5, <2>6 DEF IInv, Locks, Counter
<1> QED
  BY <1>3, <1>6, <1>7, <1>8 DEF IInv, CountersExact, Following, Followers

\* Inserting or deleting a row changes the two counts of its ends by one.
LEMMA CommitCounts ==
  ASSUME IInv, NEW r \in Request, NEW l, Committed(r, l)
  PROVE  CountersExact'
<1> DEFINE f == Follower(r)
           g == Followed(r)
<1>1. pc[r] \in Writing /\ pc[r] # "idle" /\ pc[r] = "commit"
  BY DEF Committed, Writing
<1>2. /\ f \in User /\ g \in User /\ f # g
      /\ pair[r] = <<f, g>> /\ (pair[r] \in edges <=> op[r] # "follow")
  BY <1>1, PairOfUsers DEF IInv, Keys
<1>3. /\ draft[f] = Updated(r, "following", f)
      /\ draft[g] = Updated(r, "followers", g)
  BY <1>1 DEF IInv, Locks
<1>4. \A u \in User :
        /\ cnt'["following"][u] = IF u = f THEN draft[f] ELSE cnt["following"][u]
        /\ cnt'["followers"][u] = IF u = g THEN draft[g] ELSE cnt["followers"][u]
  BY <1>2 DEF Committed, IInv, TypeOK, Counter
<1>5. ASSUME NEW u \in User
      PROVE  cnt'["following"][u] = Cardinality(Following(u)')
  <2>1. cnt["following"][u] = Cardinality(Following(u))
    BY DEF IInv, CountersExact
  <2>2. Following(u)' = IF u # f THEN Following(u)
                        ELSE IF op[r] = "follow" THEN Following(u) \cup {pair[r]}
                        ELSE Following(u) \ {pair[r]}
    <3> DEFINE p == pair[r]
    <3>1. p[1] = f
      BY DEF Follower
    <3> HIDE DEF p, f
    <3>2. CASE op[r] = "follow"
      <4>1. Following(u)' = {e \in edges \cup {p} : e[1] = u}
        BY <3>2 DEF Committed, Following, p
      <4> QED
        BY <3>1, <3>2, <4>1, Zenon DEF Following, p
    <3>3. CASE op[r] # "follow"
      <4>1. Following(u)' = {e \in edges \ {p} : e[1] = u}
        BY <3>3 DEF Committed, Following, p
      <4> QED
        BY <3>1, <3>3, <4>1 DEF Following, p
    <3> QED
      BY <3>2, <3>3, Zenon
  <2>3. u = f => (pair[r] \in Following(u) <=> op[r] # "follow")
    BY <1>2 DEF Following, Follower
  <2>4. CASE u # f
    BY <1>4, <2>1, <2>2, <2>4
  <2>5. CASE u = f /\ op[r] = "follow"
    <3>1. Cardinality(Following(u)') = Cardinality(Following(u)) + 1
      BY <2>2, <2>3, <2>5, RowsFinite, FS_AddElement DEF IInv
    <3> QED
      BY <1>3, <1>4, <2>1, <2>5, <3>1 DEF Updated
  <2>6. CASE u = f /\ op[r] # "follow"
    <3>1. Cardinality(Following(u)') = Cardinality(Following(u)) - 1
      BY <2>2, <2>3, <2>6, RowsFinite, FS_RemoveElement DEF IInv
    <3>2. Cardinality(Following(u)) > 0
      BY <2>3, <2>6, RowsFinite, FS_EmptySet DEF IInv
    <3> QED
      BY <1>3, <1>4, <2>1, <2>6, <3>1, <3>2 DEF Updated, Decremented
  <2> QED
    BY <2>4, <2>5, <2>6
<1>6. ASSUME NEW u \in User
      PROVE  cnt'["followers"][u] = Cardinality(Followers(u)')
  <2>1. cnt["followers"][u] = Cardinality(Followers(u))
    BY DEF IInv, CountersExact
  <2>2. Followers(u)' = IF u # g THEN Followers(u)
                        ELSE IF op[r] = "follow" THEN Followers(u) \cup {pair[r]}
                        ELSE Followers(u) \ {pair[r]}
    <3> DEFINE p == pair[r]
    <3>1. p[2] = g
      BY DEF Followed
    <3> HIDE DEF p, g
    <3>2. CASE op[r] = "follow"
      <4>1. Followers(u)' = {e \in edges \cup {p} : e[2] = u}
        BY <3>2 DEF Committed, Followers, p
      <4> QED
        BY <3>1, <3>2, <4>1, Zenon DEF Followers, p
    <3>3. CASE op[r] # "follow"
      <4>1. Followers(u)' = {e \in edges \ {p} : e[2] = u}
        BY <3>3 DEF Committed, Followers, p
      <4> QED
        BY <3>1, <3>3, <4>1 DEF Followers, p
    <3> QED
      BY <3>2, <3>3, Zenon
  <2>3. u = g => (pair[r] \in Followers(u) <=> op[r] # "follow")
    BY <1>2 DEF Followers, Followed
  <2>4. CASE u # g
    BY <1>4, <2>1, <2>2, <2>4
  <2>5. CASE u = g /\ op[r] = "follow"
    <3>1. Cardinality(Followers(u)') = Cardinality(Followers(u)) + 1
      BY <2>2, <2>3, <2>5, RowsFinite, FS_AddElement DEF IInv
    <3> QED
      BY <1>3, <1>4, <2>1, <2>5, <3>1 DEF Updated
  <2>6. CASE u = g /\ op[r] # "follow"
    <3>1. Cardinality(Followers(u)') = Cardinality(Followers(u)) - 1
      BY <2>2, <2>3, <2>6, RowsFinite, FS_RemoveElement DEF IInv
    <3>2. Cardinality(Followers(u)) > 0
      BY <2>3, <2>6, RowsFinite, FS_EmptySet DEF IInv
    <3> QED
      BY <1>3, <1>4, <2>1, <2>6, <3>1, <3>2 DEF Updated, Decremented
  <2> QED
    BY <2>4, <2>5, <2>6
<1> QED
  BY <1>5, <1>6 DEF CountersExact

\* A commit touches no row of connections, no lock and no counter that another
\* transaction depends on.
LEMMA CommitInv ==
  ASSUME IInv, NEW r \in Request, NEW l \in {"committed", "lost"}, Committed(r, l),
         faults' \in 0..MaxFaults
  PROVE  IInv'
<1>1. pc[r] = "commit" /\ pc[r] \in Writing /\ pc[r] # "idle"
  BY DEF Committed, Writing
<1>2. /\ Follower(r) \in User /\ Followed(r) \in User /\ Follower(r) # Followed(r)
      /\ pair[r] = <<Follower(r), Followed(r)>> /\ pair[r] \in User \X User
  BY <1>1, PairOfUsers DEF IInv, Keys
<1>3. lock[Follower(r)] = r /\ lock[Followed(r)] = r
  BY <1>1 DEF IInv, Locks
<1>4. \A s \in Request :
        /\ pc'[s] \in {l, "refused"} \/ (s # r /\ pc'[s] = pc[s])
        /\ pc[s] = "idle" => pc'[s] = "idle"
        /\ pc'[s] = "idle" => pc[s] = "idle"
  BY <1>1 DEF Committed
<1>5. TypeOK'
  <2>1. draft[Follower(r)] \in Nat /\ draft[Followed(r)] \in Nat
    BY <1>1, <1>2 DEF IInv, TypeOK, Locks, Updated, Decremented, Counter
  <2>2. cnt' \in [Counter -> [User -> Nat]]
    BY <1>2, <2>1 DEF Committed, IInv, TypeOK, Counter
  <2>3. edges' \subseteq User \X User
    BY <1>2 DEF Committed, IInv, TypeOK
  <2>4. pc' \in [Request -> {"idle", "row", "queued", "committed"} \cup Writing \cup Ended]
    BY DEF Committed, IInv, TypeOK, Ended
  <2>5. lock' \in [User -> Request \cup {None}] /\ draft' \in [User -> Nat \cup {None}]
    BY DEF Committed, Release, IInv, TypeOK
  <2> QED
    BY <1>4, <2>2, <2>3, <2>4, <2>5 DEF Committed, IInv, TypeOK
<1>6. CountersExact'
  BY CommitCounts
<1>7. Loopless'
  BY <1>2, <1>4 DEF Committed, IInv, Loopless, Follower, Followed
<1>8. Keys'
  <2>1. ASSUME NEW s \in Request, pc'[s] \in Writing
        PROVE  s # r /\ pc[s] \in Writing /\ pair[s] # pair[r]
    BY <1>1, <1>4, <2>1 DEF IInv, Keys, Writing
  <2>2. \A s \in Request : pair[s] # pair[r] => (pair[s] \in edges' <=> pair[s] \in edges)
    BY DEF Committed
  <2> QED
    BY <2>1, <2>2 DEF Committed, IInv, Keys, Follower, Followed
<1>9. Locks'
  <2>1. ASSUME NEW s \in Request, pc'[s] \in {"followed", "commit"}
        PROVE  s # r /\ pc[s] = pc'[s] /\ pc[s] # "idle"
    BY <1>4, <2>1
  <2>2. ASSUME NEW u \in User, lock[u] # r
        PROVE  /\ lock'[u] = lock[u] /\ draft'[u] = draft[u]
               /\ \A k \in Counter : cnt'[k][u] = cnt[k][u]
    BY <1>2, <1>3, <2>2 DEF Committed, Release, IInv, TypeOK, Counter
  <2>3. ASSUME NEW s \in Request, pc'[s] \in {"followed", "commit"}
        PROVE  /\ Follower(s) \in User /\ Followed(s) \in User
               /\ lock[Follower(s)] = s
               /\ pc'[s] = "commit" => lock[Followed(s)] = s
    BY <2>1, <2>3, PairOfUsers DEF IInv, Locks
  <2>5. pair' = pair
    BY DEF Committed
  <2>6. ASSUME NEW s \in Request, pc'[s] \in {"followed", "commit"}
        PROVE  /\ lock'[Follower(s)'] = s
               /\ draft'[Follower(s)'] = Updated(s, "following", Follower(s))'
    <3>1. Follower(s)' = Follower(s) /\ s # r /\ pc[s] \in {"followed", "commit"}
      BY <2>1, <2>5, <2>6 DEF Follower
    <3>2. draft[Follower(s)] = Updated(s, "following", Follower(s))
      BY <3>1 DEF IInv, Locks
    <3>3. Updated(s, "following", Follower(s))' = Updated(s, "following", Follower(s))
      <4>1. lock[Follower(s)] # r /\ Follower(s) \in User
        BY <2>3, <2>6, <3>1
      <4>2. cnt'["following"][Follower(s)] = cnt["following"][Follower(s)]
        BY <2>2, <4>1 DEF Counter
      <4>3. op' = op
        BY DEF Committed
      <4> QED
        BY <3>1, <4>2, <4>3 DEF Updated
    <3> QED
      BY <2>2, <2>3, <2>6, <3>1, <3>2, <3>3
  <2>7. ASSUME NEW s \in Request, pc'[s] = "commit"
        PROVE  /\ lock'[Followed(s)'] = s
               /\ draft'[Followed(s)'] = Updated(s, "followers", Followed(s))'
    <3>1. Followed(s)' = Followed(s) /\ s # r /\ pc[s] = "commit"
      BY <2>1, <2>5, <2>7 DEF Followed
    <3>2. draft[Followed(s)] = Updated(s, "followers", Followed(s))
      BY <3>1 DEF IInv, Locks
    <3>3. Updated(s, "followers", Followed(s))' = Updated(s, "followers", Followed(s))
      <4>1. lock[Followed(s)] # r /\ Followed(s) \in User
        BY <2>3, <2>7, <3>1
      <4>2. cnt'["followers"][Followed(s)] = cnt["followers"][Followed(s)]
        BY <2>2, <4>1 DEF Counter
      <4>3. op' = op
        BY DEF Committed
      <4> QED
        BY <3>1, <4>2, <4>3 DEF Updated
    <3> QED
      BY <2>2, <2>3, <2>7, <3>1, <3>2, <3>3
  <2> QED
    BY <2>6, <2>7 DEF Locks
<1> QED
  BY <1>5, <1>6, <1>7, <1>8, <1>9 DEF IInv

\* A rollback gives up the transaction's locks and drafts and nothing else.
LEMMA RollbackInv ==
  ASSUME IInv, NEW r \in Request, NEW l \in Ended, pc[r] # "idle",
         Release(r), Goto(r, l), UNCHANGED Data, faults' \in 0..MaxFaults
  PROVE  IInv'
<1>1. UNCHANGED <<edges, cnt, op, pair, start>>
  BY DEF Data
<1>2. pc' = [pc EXCEPT ![r] = l] /\ pc'[r] = l /\ l \notin {"idle", "row"} \cup Writing
  BY DEF Goto, IInv, TypeOK, Ended, Writing
<1>3. TypeOK'
  BY <1>1, <1>2 DEF IInv, TypeOK, Release
<1>4. Keys' /\ Loopless'
  BY <1>1, <1>2 DEF IInv, Keys, Loopless, Follower, Followed
<1>5. Locks'
  <2>1. ASSUME NEW s \in Request, pc'[s] \in {"followed", "commit"}
        PROVE  s # r /\ pc[s] = pc'[s] /\ pc[s] # "idle"
    BY <1>2, <2>1 DEF IInv, TypeOK, Writing
  <2>2. ASSUME NEW u \in User, lock[u] # r
        PROVE  lock'[u] = lock[u] /\ draft'[u] = draft[u]
    BY <2>2 DEF Release
  <2>3. ASSUME NEW s \in Request, pc'[s] \in {"followed", "commit"}
        PROVE  Follower(s) \in User /\ Followed(s) \in User
    BY <2>1, <2>3, PairOfUsers DEF IInv
  <2> QED
    BY <1>1, <2>1, <2>2, <2>3 DEF IInv, Locks, Updated, Follower, Followed
<1> QED
  BY <1>1, <1>3, <1>4, <1>5 DEF IInv, CountersExact, Following, Followers

\* What comes behind the commit touches nothing.
LEMMA AnswerInv ==
  ASSUME IInv, NEW r \in Request, Answer(r) \/ PublishFails(r)
  PROVE  IInv'
<1>1. PICK l \in {"done", "error"} :
        /\ pc[r] = "committed" /\ pc' = [pc EXCEPT ![r] = l]
        /\ UNCHANGED <<edges, cnt, op, pair, start, lock, draft>>
        /\ faults' \in 0..MaxFaults
  BY FaultAssumption DEF Answer, PublishFails, Goto, Data, IInv, TypeOK
<1>2. TypeOK'
  BY <1>1 DEF IInv, TypeOK, Ended
<1>3. Keys' /\ Loopless'
  BY <1>1 DEF IInv, TypeOK, Keys, Loopless, Writing, Follower, Followed
<1>4. Locks'
  BY <1>1 DEF IInv, TypeOK, Locks, Updated, Follower, Followed
<1> QED
  BY <1>1, <1>2, <1>3, <1>4 DEF IInv, CountersExact, Following, Followers

\* Every step preserves the invariant.
LEMMA StepInv == IInv /\ [Next]_vars => IInv'
<1> SUFFICES ASSUME IInv, [Next]_vars PROVE IInv'
  OBVIOUS
<1>1. CASE UNCHANGED vars
  BY <1>1 DEF vars, IInv, TypeOK, CountersExact, Following, Followers, Loopless,
              Keys, Locks, Updated, Follower, Followed
<1>2. ASSUME NEW r \in Request, Begin(r) \/ Step(r) \/ Fault(r)
      PROVE  IInv'
  <2>1. CASE Begin(r)
    BY <2>1, BeginInv
  <2>2. CASE Insert(r) \/ Delete(r)
    BY <2>2, RowInv
  <2>3. CASE CountFollower(r) \/ CountFollowed(r)
    BY <2>3, CountInv
  <2>4. CASE Commit(r)
    BY <2>4, CommitInv DEF Commit, IInv, TypeOK
  <2>5. CASE Deadlock(r)
    <3>1. pc[r] # "idle"
      <4>1. PICK S \in SUBSET Request : r \in S /\ {Blocker(s) : s \in S} = S
        BY <2>5 DEF Deadlock, Deadlocked
      <4>2. Blocker(r) \in Request
        BY <4>1
      <4> QED
        BY <4>2 DEF Blocker
    <3> QED
      BY <2>5, <3>1, RollbackInv DEF Deadlock, Ended, IInv, TypeOK
  <2>6. CASE Answer(r) \/ PublishFails(r)
    BY <2>6, AnswerInv
  <2>7. CASE CommitLost(r)
    BY <2>7, CommitInv, FaultAssumption DEF CommitLost, IInv, TypeOK
  <2>8. CASE Crash(r)
    BY <2>8, RollbackInv, FaultAssumption DEF Crash, Ended, IInv, TypeOK
  <2> QED
    BY <1>2, <2>1, <2>2, <2>3, <2>4, <2>5, <2>6, <2>7, <2>8 DEF Step, Fault
<1> QED
  BY <1>1, <1>2 DEF Next

\* The invariant holds throughout.
LEMMA Invariant == Spec => []IInv
  BY InitInv, StepInv, PTL DEF Spec

\* Variables keep their types (connect.py and the trigger).
THEOREM TypeCorrect == Spec => []TypeOK
<1>1. IInv => TypeOK
  BY DEF IInv
<1> QED
  BY <1>1, Invariant, PTL

\* The counters the trigger keeps in users are always the numbers of rows in
\* connections, for any users, requests, deadlocks and faults.
THEOREM AlwaysExact == Spec => []CountersExact
<1>1. IInv => CountersExact
  BY DEF IInv
<1> QED
  BY <1>1, Invariant, PTL

-----------------------------------------------------------------------------
Removal == {"unfollow", "remove"}
\* Requests whose change is committed, and answered or sure to be.
Applied(e, ops) ==
  {r \in Request : pc[r] \in {"committed", "done"} /\ pair[r] = e /\ op[r] \in ops}
\* Requests that ended without a word on what they changed.
Unknown(e) == {r \in Request : pc[r] \in {"lost", "error", "dead"} /\ pair[r] = e}

Change(e) == Has(edges, e) - Has(start, e)
Applies(e) == Cardinality(Applied(e, {"follow"})) - Cardinality(Applied(e, Removal))

\* AnswersAddUp of the changes made instead of those answered: what a commit
\* does to the row is counted before its client hears of it.
Balanced ==
  \A e \in Named :
    /\ Applies(e) - Change(e) <= Cardinality(Unknown(e))
    /\ Change(e) - Applies(e) <= Cardinality(Unknown(e))

\* Only so many requests have begun.
FewBegun == IsFiniteSet({r \in Request : pc[r] # "idle"})

AInv == IInv /\ FewBegun /\ Balanced

\* The sets that are counted are finite, for they hold requests that have begun.
LEMMA CountedFinite ==
  ASSUME FewBegun, NEW e
  PROVE  /\ \A ops : IsFiniteSet(Applied(e, ops)) /\ Cardinality(Applied(e, ops)) \in Nat
         /\ IsFiniteSet(Unknown(e)) /\ Cardinality(Unknown(e)) \in Nat
<1>1. Unknown(e) \subseteq {r \in Request : pc[r] # "idle"}
  BY DEF Unknown
<1>2. ASSUME NEW ops
      PROVE  Applied(e, ops) \subseteq {r \in Request : pc[r] # "idle"}
  BY DEF Applied
<1> QED
  BY <1>1, <1>2, FS_Subset, FS_CardinalityType DEF FewBegun

\* What one request may do to the account of a row: its change, if any, is
\* applied, or becomes unknown, in the step that makes it.
Accounted(r, e) ==
  LET df == Has(Applied(e, {"follow"})', r) - Has(Applied(e, {"follow"}), r)
      dr == Has(Applied(e, Removal)', r) - Has(Applied(e, Removal), r)
      du == Has(Unknown(e)', r) - Has(Unknown(e), r)
      off == (df - dr) - (Has(edges', e) - Has(edges, e))
  IN  off <= du /\ -off <= du

\* A step of r that accounts for its change keeps the balance.
LEMMA BalanceKept ==
  ASSUME AInv, NEW r \in Request, start' = start,
         \A s \in Request \ {r} :
           /\ pair'[s] = pair[s] /\ op'[s] = op[s]
           /\ pc'[s] = pc[s] \/ (pc[s] = "queued" /\ pc'[s] = "refused"),
         \A e \in Named : Accounted(r, e)
  PROVE  FewBegun' /\ Balanced'
<1>1. FewBegun'
  <2> DEFINE A == {s \in Request : pc[s] # "idle"}
             B == {s \in Request : pc'[s] # "idle"}
  <2>1. A \ {r} = B \ {r}
    OBVIOUS
  <2> HIDE DEF A, B
  <2>2. IsFiniteSet(B)
    BY <2>1, OneMoves DEF AInv, FewBegun, A
  <2> QED
    BY <2>2 DEF FewBegun, B
<1>2. ASSUME NEW e \in Named
      PROVE  /\ Applies(e)' - Change(e)' <= Cardinality(Unknown(e)')
             /\ Change(e)' - Applies(e)' <= Cardinality(Unknown(e)')
  <2>1. /\ Unknown(e) \ {r} = Unknown(e)' \ {r}
        /\ \A ops : Applied(e, ops) \ {r} = Applied(e, ops)' \ {r}
    BY DEF Unknown, Applied
  <2> DEFINE f == Cardinality(Applied(e, {"follow"}))
             d == Cardinality(Applied(e, Removal))
             u == Cardinality(Unknown(e))
             ff == Cardinality(Applied(e, {"follow"})')
             dd == Cardinality(Applied(e, Removal)')
             uu == Cardinality(Unknown(e)')
  <2>2. f \in Nat /\ d \in Nat /\ u \in Nat /\ ff \in Nat /\ dd \in Nat /\ uu \in Nat
    BY <2>1, CountedFinite, OneMoves DEF AInv
  <2>3. /\ ff - Has(Applied(e, {"follow"})', r) = f - Has(Applied(e, {"follow"}), r)
        /\ dd - Has(Applied(e, Removal)', r) = d - Has(Applied(e, Removal), r)
        /\ uu - Has(Unknown(e)', r) = u - Has(Unknown(e), r)
    BY <2>1, CountedFinite, OneMoves DEF AInv
  <2>4. /\ (f - d) - Change(e) <= u
        /\ Change(e) - (f - d) <= u
    BY DEF AInv, Balanced, Applies
  <2>5. Accounted(r, e)
    OBVIOUS
  <2>6. /\ Applies(e)' = ff - dd
        /\ Change(e) = Has(edges, e) - Has(start, e)
        /\ Change(e)' = Has(edges', e) - Has(start, e)
    BY DEF Applies, Change, Has
  <2>7. \A S, x : Has(S, x) \in Int
    BY DEF Has
  <2> HIDE DEF f, d, u, ff, dd, uu
  <2> QED
    BY <2>2, <2>3, <2>4, <2>5, <2>6, <2>7 DEF Accounted, uu
<1> QED
  BY <1>1, <1>2 DEF Balanced

\* A request that neither commits nor ends without a word accounts for nothing.
LEMMA Quiet ==
  ASSUME NEW r \in Request, edges' = edges, NEW e,
         \/ {pc[r], pc'[r]} \cap {"committed", "done", "lost", "error", "dead"} = {}
         \/ /\ pc[r] = "committed" /\ pc'[r] = "done"
            /\ op'[r] = op[r] /\ pair'[r] = pair[r]
  PROVE  Accounted(r, e)
<1>1. /\ r \in Unknown(e)' <=> r \in Unknown(e)
      /\ \A ops : r \in Applied(e, ops)' <=> r \in Applied(e, ops)
  BY DEF Unknown, Applied
<1> QED
  BY <1>1 DEF Accounted, Has

\* A commit changes one row, the other way than it was.
LEMMA CommitAccounted ==
  ASSUME IInv, NEW r \in Request, NEW l \in {"committed", "lost"}, Committed(r, l),
         NEW e \in Named
  PROVE  Accounted(r, e)
<1>1. /\ pc[r] = "commit" /\ pc[r] \in Writing /\ pc'[r] = l
      /\ op' = op /\ pair' = pair
  BY DEF Committed, Writing, IInv, TypeOK
<1>2. op[r] \in Op /\ (pair[r] \in edges <=> op[r] # "follow")
  BY <1>1 DEF IInv, TypeOK, Keys
<1>3. r \notin Unknown(e) /\ \A ops : r \notin Applied(e, ops)
  BY <1>1 DEF Unknown, Applied
<1>4. /\ r \in Unknown(e)' <=> pair[r] = e /\ l = "lost"
      /\ \A ops : r \in Applied(e, ops)' <=>
                    pair[r] = e /\ op[r] \in ops /\ l = "committed"
  BY <1>1 DEF Unknown, Applied
<1>5. CASE pair[r] # e
  <2>1. e \in edges' <=> e \in edges
    BY <1>5 DEF Committed
  <2> QED
    BY <1>3, <1>4, <1>5, <2>1 DEF Accounted, Has
<1>6. CASE pair[r] = e
  <2>1. e \in edges' <=> op[r] = "follow"
    BY <1>6 DEF Committed
  <2>2. op[r] \in Removal <=> op[r] # "follow"
    BY <1>2 DEF Op, Removal
  <2> QED
    BY <1>2, <1>3, <1>4, <1>6, <2>1, <2>2 DEF Accounted, Has
<1> QED
  BY <1>5, <1>6

\* A request that ends without a word, behind its commit or before it.
LEMMA WordlessAccounted ==
  ASSUME IInv, NEW r \in Request, edges' = edges, op' = op, pair' = pair, NEW e,
         pc[r] \notin {"done", "lost", "error", "dead"}, pc'[r] \in {"error", "dead"}
  PROVE  Accounted(r, e)
<1>1. r \notin Unknown(e) /\ \A ops : r \notin Applied(e, ops)'
  BY DEF Unknown, Applied
<1>2. /\ r \in Unknown(e)' <=> pair[r] = e
      /\ \A ops : r \in Applied(e, ops) => pair[r] = e /\ op[r] \in ops
  BY DEF Unknown, Applied
<1>3. ~(r \in Applied(e, {"follow"}) /\ r \in Applied(e, Removal))
  BY <1>2 DEF Removal
<1> QED
  BY <1>1, <1>2, <1>3 DEF Accounted, Has

\* Every step keeps the balance.
LEMMA BalanceStep == AInv /\ [Next]_vars => FewBegun' /\ Balanced'
<1> SUFFICES ASSUME AInv, [Next]_vars PROVE FewBegun' /\ Balanced'
  OBVIOUS
<1>1. CASE UNCHANGED vars
  <2>1. /\ \A e : Applies(e)' = Applies(e) /\ Change(e)' = Change(e)
        /\ \A e : Unknown(e)' = Unknown(e)
    BY <1>1 DEF vars, Applies, Change, Applied, Unknown
  <2>2. Balanced'
    BY <2>1 DEF AInv, Balanced
  <2> QED
    BY <1>1, <2>2 DEF vars, AInv, FewBegun
<1>2. ASSUME NEW r \in Request, Begin(r) \/ Step(r) \/ Fault(r)
      PROVE  FewBegun' /\ Balanced'
  <2> USE DEF Goto, Data
  <2> DEFINE Others ==
        /\ start' = start
        /\ \A s \in Request \ {r} :
             /\ pair'[s] = pair[s] /\ op'[s] = op[s]
             /\ pc'[s] = pc[s] \/ (pc[s] = "queued" /\ pc'[s] = "refused")
  <2>0. pc \in [Request -> {"idle", "row", "queued", "committed"} \cup Writing \cup Ended]
    BY DEF AInv, IInv, TypeOK
  <2>1. CASE Begin(r)
    <3>1. PICK e \in Named :
            FollowUser(r, e) \/ Drop(r, "unfollow", e) \/ Drop(r, "remove", e)
      BY <2>1 DEF Begin, UnfollowUser, RemoveFollower
    <3>2. Others /\ edges' = edges /\ pc[r] = "idle" /\ pc'[r] \in {"row", "refused"}
      BY <3>1, <2>0 DEF FollowUser, Drop, AInv, IInv, TypeOK
    <3> QED
      BY <3>2, Quiet, BalanceKept
  <2>2. CASE Insert(r) \/ Delete(r)
    <3>1. /\ Others /\ edges' = edges /\ pc[r] \in {"row", "queued"}
          /\ pc'[r] \in {"refused", "follower", "queued"}
      BY <2>2, <2>0 DEF Insert, Delete
    <3> QED
      BY <3>1, Quiet, BalanceKept
  <2>3. CASE CountFollower(r) \/ CountFollowed(r)
    <3>1. /\ Others /\ edges' = edges /\ pc[r] \in {"follower", "followed"}
          /\ pc'[r] \in {"followed", "commit"}
      BY <2>3, <2>0 DEF CountFollower, CountFollowed, Count
    <3> QED
      BY <3>1, Quiet, BalanceKept
  <2>4. CASE Commit(r) \/ CommitLost(r)
    <3>1. PICK l \in {"committed", "lost"} : Committed(r, l)
      BY <2>4 DEF Commit, CommitLost
    <3>2. Others
      BY <3>1, <2>0 DEF Committed
    <3> QED
      BY <3>1, <3>2, CommitAccounted, BalanceKept DEF AInv
  <2>5. CASE Deadlock(r)
    <3>1. PICK S \in SUBSET Request : r \in S /\ {Blocker(s) : s \in S} = S
      BY <2>5 DEF Deadlock, Deadlocked
    <3>2. pc[r] = "followed"
      <4>1. Blocker(r) \in Request
        BY <3>1
      <4> QED
        BY <4>1, NoneAssumption DEF Blocker
    <3>3. Others /\ edges' = edges /\ pc'[r] = "failed"
      BY <2>5, <2>0 DEF Deadlock
    <3> QED
      BY <3>2, <3>3, Quiet, BalanceKept
  <2>6. CASE Answer(r)
    <3>1. /\ Others /\ edges' = edges /\ op' = op /\ pair' = pair
          /\ pc[r] = "committed" /\ pc'[r] = "done"
      BY <2>6, <2>0 DEF Answer
    <3> QED
      BY <3>1, Quiet, BalanceKept
  <2>7. CASE PublishFails(r) \/ Crash(r)
    <3>1. /\ Others /\ edges' = edges /\ op' = op /\ pair' = pair
          /\ pc[r] \notin {"done", "lost", "error", "dead"}
          /\ pc'[r] \in {"error", "dead"}
      BY <2>7, <2>0 DEF PublishFails, Crash, Ended
    <3> QED
      BY <3>1, WordlessAccounted, BalanceKept DEF AInv
  <2> QED
    BY <1>2, <2>1, <2>2, <2>3, <2>4, <2>5, <2>6, <2>7 DEF Step, Fault
<1> QED
  BY <1>1, <1>2 DEF Next

\* The balance of the changes is that of the answers and the open requests.
LEMMA BalanceMeans == AInv => AnswersAddUp
<1> SUFFICES ASSUME AInv, NEW e \in Named
             PROVE  LET told == Cardinality(Told(e, {"follow"}))
                                - Cardinality(Told(e, {"unfollow", "remove"}))
                        change == Has(edges, e) - Has(start, e)
                    IN  /\ told - change <= Cardinality(Untold(e))
                        /\ change - told <= Cardinality(Untold(e))
  BY DEF AnswersAddUp
<1> DEFINE Open(ops) == Applied(e, ops) \ Told(e, ops)
           F == {"follow"}
<1>1. ASSUME NEW ops
      PROVE  /\ IsFiniteSet(Told(e, ops)) /\ IsFiniteSet(Open(ops))
             /\ Cardinality(Told(e, ops)) \in Nat /\ Cardinality(Open(ops)) \in Nat
             /\ Cardinality(Applied(e, ops))
                  = Cardinality(Told(e, ops)) + Cardinality(Open(ops))
  <2>1. Told(e, ops) \subseteq Applied(e, ops)
    BY DEF Told, Applied
  <2>2. IsFiniteSet(Told(e, ops)) /\ IsFiniteSet(Open(ops))
    BY <2>1, CountedFinite, FS_Subset DEF AInv
  <2>3. Cardinality(Told(e, ops)) \in Nat /\ Cardinality(Open(ops)) \in Nat
    BY <2>2, FS_CardinalityType
  <2>4. Told(e, ops) \cup Open(ops) = Applied(e, ops) /\ Told(e, ops) \cap Open(ops) = {}
    BY <2>1
  <2> HIDE DEF Open
  <2>5. Cardinality(Applied(e, ops))
          = Cardinality(Told(e, ops)) + Cardinality(Open(ops))
    BY <2>2, <2>4, DisjointUnion
  <2> QED
    BY <2>2, <2>3, <2>5
<1>2. Cardinality(Untold(e)) =
        Cardinality(Unknown(e)) + Cardinality(Open(F)) + Cardinality(Open(Removal))
  <2>1. /\ Untold(e) = (Unknown(e) \cup Open(F)) \cup Open(Removal)
        /\ Unknown(e) \cap Open(F) = {}
        /\ (Unknown(e) \cup Open(F)) \cap Open(Removal) = {}
    BY DEF Untold, Unknown, Applied, Told, Removal, AInv, IInv, TypeOK, Op
  <2> HIDE DEF Open, F
  <2>2. /\ IsFiniteSet(Unknown(e) \cup Open(F))
        /\ Cardinality(Unknown(e) \cup Open(F))
             = Cardinality(Unknown(e)) + Cardinality(Open(F))
    BY <1>1, <2>1, CountedFinite, DisjointUnion DEF AInv
  <2>3. Cardinality((Unknown(e) \cup Open(F)) \cup Open(Removal))
          = Cardinality(Unknown(e) \cup Open(F)) + Cardinality(Open(Removal))
    BY <1>1, <2>1, <2>2, DisjointUnion
  <2> QED
    BY <2>1, <2>2, <2>3
<1>3. /\ Applies(e) - Change(e) <= Cardinality(Unknown(e))
      /\ Change(e) - Applies(e) <= Cardinality(Unknown(e))
  BY DEF AInv, Balanced
<1>4. Cardinality(Unknown(e)) \in Nat
  BY CountedFinite DEF AInv
<1>5. Change(e) \in Int /\ Change(e) = Has(edges, e) - Has(start, e)
  BY DEF Change, Has
<1> HIDE DEF Open
<1> QED
  BY <1>1, <1>2, <1>3, <1>4, <1>5 DEF Applies, Removal

\* The follows answered with success, less the removals, are the change of the
\* row up to the requests that ended without a word, however many requests race
\* for it, deadlock and die (AnswersAddUp; connect.py).
THEOREM AnswersTrue == Spec => []AnswersAddUp
<1>1. Init => FewBegun /\ Balanced
  <2> SUFFICES ASSUME Init PROVE FewBegun /\ Balanced
    OBVIOUS
  <2>1. {r \in Request : pc[r] # "idle"} = {}
    BY DEF Init
  <2>2. FewBegun
    BY <2>1, FS_EmptySet DEF FewBegun
  <2>3. ASSUME NEW e
        PROVE  Unknown(e) = {} /\ \A ops : Applied(e, ops) = {}
    BY DEF Init, Unknown, Applied
  <2>4. ASSUME NEW e
        PROVE  Applies(e) = 0 /\ Change(e) = 0 /\ Cardinality(Unknown(e)) = 0
    <3>1. Change(e) = 0
      BY DEF Init, Change, Has
    <3>2. Cardinality({}) = 0
      BY FS_EmptySet
    <3> QED
      BY <2>3, <3>1, <3>2 DEF Applies
  <2> QED
    BY <2>2, <2>4 DEF Balanced
<1>2. AInv /\ [Next]_vars => AInv'
  BY BalanceStep, StepInv DEF AInv
<1>3. Init => AInv
  BY <1>1, InitInv DEF AInv
<1> QED
  BY <1>2, <1>3, BalanceMeans, PTL DEF Spec
=============================================================================
