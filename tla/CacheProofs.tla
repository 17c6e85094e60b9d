------------------------------ MODULE CacheProofs ------------------------------
(***************************************************************************)
(* The two caches kept in Redis.  Cached bodies: type correctness of       *)
(* ResponseCache and StaleIsExcused, for any number of readers and writers *)
(* and every cached key.  Cached users and the blacklist: what a request   *)
(* with an access token can still do after a logout, and after its expiry. *)
(***************************************************************************)
EXTENDS ResponseCache, AccessTokens, TLAPS

NoDelete(w) == \A i \in 1..Len(Deletes(w)) : Deletes(w)[i] # key

\* Why a body may lack write w, given the writes whose deletion it crossed.
Excused(w, crossed) ==
  Committed(w) => NoDelete(w) \/ Pending(w) \/ w \in crossed

\* Only writes that the followed body shows are in play.
Relevant == \A w \in Writer : Concerns(route[w], key)

\* A write has deletions before it exactly from its commit on.
Started == \A w \in Writer : pos[w] > 0 <=> wpc[w] \in {"deleting", "dead"}

\* What holds of an entry holds of every body that is being read together.
Fills == \A r \in Reader : \A w \in unseen[r] : Excused(w, raced[r])
Lasts == entry # None => \A w \in entry.unseen : Excused(w, entry.raced)

IInv == TypeOK /\ Relevant /\ Started /\ Fills /\ Lasts

-----------------------------------------------------------------------------
\* The routes by name.
LEMMA Routes ==
  /\ DOMAIN Route = {
       "createPost", "deletePost", "updatePost", "vote", "createComment",
       "deleteComment", "updateComment", "likeComment", "follow",
       "unfollow", "removeFollower", "updateAuthor", "updateFollower",
       "authorPicture", "followerPicture", "register",
       "createNotification", "markAllRead", "flushViews", "reconcile"}
  /\ Route["createPost"] = CreatePost
  /\ Route["deletePost"] = DeletePost
  /\ Route["updatePost"] = UpdatePost
  /\ Route["vote"] = VoteOnPost
  /\ Route["createComment"] = CreateComment
  /\ Route["deleteComment"] = DeleteComment
  /\ Route["updateComment"] = UpdateComment
  /\ Route["likeComment"] = LikeAComment
  /\ Route["follow"] = FollowUser
  /\ Route["unfollow"] = UnfollowUser
  /\ Route["removeFollower"] = RemoveFollower
  /\ Route["updateAuthor"] = UpdateProfile("author", "authorPic", "authorProfile")
  /\ Route["updateFollower"] = UpdateProfile("follower", "followerPic", "followerProfile")
  /\ Route["authorPicture"] = DeletePicture("authorPic", "authorProfile")
  /\ Route["followerPicture"] = DeletePicture("followerPic", "followerProfile")
  /\ Route["register"] = RegisterUser
  /\ Route["createNotification"] = CreateNotification
  /\ Route["markAllRead"] = MarkAllRead
  /\ Route["flushViews"] = FlushPostViews
  /\ Route["reconcile"] = Reconcile
BY DEF Route

\* The bodies by key.
LEMMA Bodies ==
  /\ Key = {
       "post", "userPosts", "home", "explore", "comments",
       "authorProfile", "followerProfile", "followers", "following",
       "allUsers", "notifications", "unread"}
  /\ Statements["post"] = GetPost
  /\ Statements["userPosts"] = GetUserPosts
  /\ Statements["home"] = GetHomeFeed
  /\ Statements["explore"] = GetExploreFeed
  /\ Statements["comments"] = GetPostComments
  /\ Statements["authorProfile"] = GetAuthorProfile
  /\ Statements["followerProfile"] = GetFollowerProfile
  /\ Statements["followers"] = GetFollowers
  /\ Statements["following"] = GetFollowing
  /\ Statements["allUsers"] = ListUsers
  /\ Statements["notifications"] = GetMyNotifications
  /\ Statements["unread"] = GetUnreadCount
BY DEF Key, Statements

\* The facts each body shows.
LEMMA ShownBy ==
  /\ Shown("post") = {"post", "votes", "comments", "views", "author", "authorPic"}
  /\ Shown("userPosts") = Listed
  /\ Shown("home") = Listed \cup {"edge", "author", "authorPic"}
  /\ Shown("explore") = Listed
  /\ Shown("comments") = {"comments", "texts", "commentLikes", "follower", "followerPic"}
  /\ Shown("authorProfile") = {"author", "authorPic", "edge", "posts"}
  /\ Shown("followerProfile") = {"follower", "followerPic", "edge"}
  /\ Shown("followers") = {"edge", "follower", "followerPic"}
  /\ Shown("following") = {"edge", "author", "authorPic"}
  /\ Shown("allUsers") = {"users", "author", "follower"}
  /\ Shown("notifications") = {"notifs"}
  /\ Shown("unread") = {"notifs"}
<1>1. Shown("post") = {"post", "votes", "comments", "views", "author", "authorPic"}
  BY Bodies DEF Shown, GetPost
<1>2. Shown("userPosts") = Listed
  BY Bodies DEF Shown, GetUserPosts, Listed
<1>3. Shown("home") = Listed \cup {"edge", "author", "authorPic"}
  BY Bodies DEF Shown, GetHomeFeed, Listed
<1>4. Shown("explore") = Listed
  BY Bodies DEF Shown, GetExploreFeed, Listed
<1>5. Shown("comments") = {"comments", "texts", "commentLikes", "follower", "followerPic"}
  BY Bodies DEF Shown, GetPostComments
<1>6. Shown("authorProfile") = {"author", "authorPic", "edge", "posts"}
  BY Bodies DEF Shown, GetAuthorProfile
<1>7. Shown("followerProfile") = {"follower", "followerPic", "edge"}
  BY Bodies DEF Shown, GetFollowerProfile
<1>8. Shown("followers") = {"edge", "follower", "followerPic"}
  BY Bodies DEF Shown, GetFollowers
<1>9. Shown("following") = {"edge", "author", "authorPic"}
  BY Bodies DEF Shown, GetFollowing
<1>10. Shown("allUsers") = {"users", "author", "follower"}
  BY Bodies DEF Shown, ListUsers
<1>11. Shown("notifications") = {"notifs"}
  BY Bodies DEF Shown, GetMyNotifications
<1>12. Shown("unread") = {"notifs"}
  BY Bodies DEF Shown, GetUnreadCount
<1> QED
  BY <1>1, <1>2, <1>3, <1>4, <1>5, <1>6, <1>7, <1>8, <1>9, <1>10,
     <1>11, <1>12

\* Each body is made of a finite list of SELECTs.
LEMMA StatementsList ==
  ASSUME NEW k \in Key
  PROVE  Len(Statements[k]) \in Nat /\ DOMAIN Statements[k] = 1..Len(Statements[k])
<1>1. CASE k = "post"
  BY <1>1, Bodies DEF GetPost
<1>2. CASE k = "userPosts"
  BY <1>2, Bodies DEF GetUserPosts
<1>3. CASE k = "home"
  BY <1>3, Bodies DEF GetHomeFeed
<1>4. CASE k = "explore"
  BY <1>4, Bodies DEF GetExploreFeed
<1>5. CASE k = "comments"
  BY <1>5, Bodies DEF GetPostComments
<1>6. CASE k = "authorProfile"
  BY <1>6, Bodies DEF GetAuthorProfile
<1>7. CASE k = "followerProfile"
  BY <1>7, Bodies DEF GetFollowerProfile
<1>8. CASE k = "followers"
  BY <1>8, Bodies DEF GetFollowers
<1>9. CASE k = "following"
  BY <1>9, Bodies DEF GetFollowing
<1>10. CASE k = "allUsers"
  BY <1>10, Bodies DEF ListUsers
<1>11. CASE k = "notifications"
  BY <1>11, Bodies DEF GetMyNotifications
<1>12. CASE k = "unread"
  BY <1>12, Bodies DEF GetUnreadCount
<1> QED
  BY Bodies, <1>1, <1>2, <1>3, <1>4, <1>5, <1>6, <1>7, <1>8, <1>9, <1>10,
     <1>11, <1>12

\* Each route deletes a finite list of keys, and each body it changes is on the
\* list or in the table of those left to their TTL.
LEMMA TableComplete ==
  ASSUME NEW n \in DOMAIN Route
  PROVE  /\ Len(Route[n].deletes) \in Nat
         /\ DOMAIN Route[n].deletes = 1..Len(Route[n].deletes)
         /\ \A k \in Key :
              Concerns(n, k) /\ (\A i \in 1..Len(Route[n].deletes) : Route[n].deletes[i] # k)
              => <<n, k>> \in LeftToTtl
<1>1. CASE n = "createPost"
  BY <1>1, Routes, Bodies, ShownBy DEF CreatePost, Concerns, LeftToTtl, Listed
<1>2. CASE n = "deletePost"
  BY <1>2, Routes, Bodies, ShownBy DEF DeletePost, Concerns, LeftToTtl, Listed, OfPost
<1>3. CASE n = "updatePost"
  BY <1>3, Routes, Bodies, ShownBy DEF UpdatePost, Concerns, LeftToTtl, Listed
<1>4. CASE n = "vote"
  BY <1>4, Routes, Bodies, ShownBy DEF VoteOnPost, Concerns, LeftToTtl, Listed
<1>5. CASE n = "createComment"
  BY <1>5, Routes, Bodies, ShownBy DEF CreateComment, Concerns, LeftToTtl, Listed
<1>6. CASE n = "deleteComment"
  BY <1>6, Routes, Bodies, ShownBy DEF DeleteComment, Concerns, LeftToTtl, Listed
<1>7. CASE n = "updateComment"
  BY <1>7, Routes, Bodies, ShownBy DEF UpdateComment, Concerns, LeftToTtl, Listed
<1>8. CASE n = "likeComment"
  BY <1>8, Routes, Bodies, ShownBy DEF LikeAComment, Concerns, LeftToTtl, Listed
<1>9. CASE n = "follow"
  BY <1>9, Routes, Bodies, ShownBy DEF FollowUser, Concerns, LeftToTtl, Listed
<1>10. CASE n = "unfollow"
  BY <1>10, Routes, Bodies, ShownBy DEF UnfollowUser, Concerns, LeftToTtl, Listed
<1>11. CASE n = "removeFollower"
  BY <1>11, Routes, Bodies, ShownBy DEF RemoveFollower, Concerns, LeftToTtl, Listed
<1>12. CASE n = "updateAuthor"
  BY <1>12, Routes, Bodies, ShownBy DEF UpdateProfile, Concerns, LeftToTtl, Listed
<1>13. CASE n = "updateFollower"
  BY <1>13, Routes, Bodies, ShownBy DEF UpdateProfile, Concerns, LeftToTtl, Listed
<1>14. CASE n = "authorPicture"
  BY <1>14, Routes, Bodies, ShownBy DEF DeletePicture, Concerns, LeftToTtl, Listed
<1>15. CASE n = "followerPicture"
  BY <1>15, Routes, Bodies, ShownBy DEF DeletePicture, Concerns, LeftToTtl, Listed
<1>16. CASE n = "register"
  BY <1>16, Routes, Bodies, ShownBy DEF RegisterUser, Concerns, LeftToTtl, Listed
<1>17. CASE n = "createNotification"
  BY <1>17, Routes, Bodies, ShownBy DEF CreateNotification, Concerns, LeftToTtl, Listed
<1>18. CASE n = "markAllRead"
  BY <1>18, Routes, Bodies, ShownBy DEF MarkAllRead, Concerns, LeftToTtl, Listed
<1>19. CASE n = "flushViews"
  BY <1>19, Routes, Bodies, ShownBy DEF FlushPostViews, Concerns, LeftToTtl, Listed
<1>20. CASE n = "reconcile"
  BY <1>20, Routes, Bodies, ShownBy DEF Reconcile, Concerns, LeftToTtl, Listed
<1> QED
  BY Routes, <1>1, <1>2, <1>3, <1>4, <1>5, <1>6, <1>7, <1>8, <1>9, <1>10,
     <1>11, <1>12, <1>13, <1>14, <1>15, <1>16, <1>17, <1>18, <1>19,
     <1>20

-----------------------------------------------------------------------------
LEMMA ExcusedEntry == IInv => StaleIsExcused
<1> SUFFICES ASSUME IInv, NEW w \in Writer, Stale(w)
             PROVE  \/ <<route[w], key>> \in LeftToTtl
                    \/ Pending(w)
                    \/ w \in entry.raced
  BY DEF StaleIsExcused
<1>1. route[w] \in DOMAIN Route /\ key \in Key /\ Concerns(route[w], key)
  BY DEF IInv, TypeOK, Relevant
<1>2. NoDelete(w) \/ Pending(w) \/ w \in entry.raced
  BY DEF IInv, Lasts, Stale, Excused
<1>3. NoDelete(w) => <<route[w], key>> \in LeftToTtl
  BY <1>1, TableComplete DEF NoDelete, Deletes
<1> QED
  BY <1>2, <1>3

LEMMA InitInv == Init => IInv
<1> SUFFICES ASSUME Init PROVE IInv
  OBVIOUS
<1>1. TypeOK
  BY DEF Init, TypeOK
<1>2. Relevant
  BY DEF Init, Relevant
<1>3. Started /\ Fills /\ Lasts
  BY DEF Init, Started, Fills, Lasts
<1> QED
  BY <1>1, <1>2, <1>3 DEF IInv

\* A step of a reader leaves every write where it is.
LEMMA WritesKept ==
  ASSUME IInv, UNCHANGED <<key, writing>>
  PROVE  /\ Relevant' /\ Started'
         /\ \A w \in Writer : \A c : Excused(w, c)' <=> Excused(w, c)
         /\ \A w \in Writer : Committed(w)' <=> Committed(w)
<1>1. key' = key /\ route' = route /\ wpc' = wpc /\ pos' = pos
  BY DEF writing
<1> QED
  BY <1>1 DEF IInv, Relevant, Started, Excused, Committed, NoDelete, Pending, Deletes

\* A reader that leaves takes its body with it.
LEMMA LeaveInv ==
  ASSUME IInv, NEW r \in Reader, Leave(r),
         \/ UNCHANGED entry
         \/ entry' = None
         \/ entry' = [unseen |-> unseen[r], raced |-> raced[r]]
  PROVE  IInv'
<1>1. UNCHANGED <<key, writing>>
  BY DEF Leave
<1>2. key' = key /\ route' = route /\ wpc' = wpc /\ pos' = pos
  BY <1>1 DEF writing
<1>3. entry' \in [unseen : SUBSET Writer, raced : SUBSET Writer] \cup {None}
  BY DEF IInv, TypeOK
<1>4. TypeOK'
  BY <1>2, <1>3 DEF Leave, IInv, TypeOK
<1>5. \A s \in Reader : unseen'[s] = {} \/ (unseen'[s] = unseen[s] /\ raced'[s] = raced[s])
  BY DEF Leave, IInv, TypeOK
<1>6. Fills'
  BY <1>1, <1>5, WritesKept DEF IInv, Fills, Excused, Committed, NoDelete, Pending, Deletes, writing
<1>7. Lasts'
  BY <1>1, <1>2, WritesKept DEF IInv, TypeOK, Lasts, Fills
<1> QED
  BY <1>1, <1>4, <1>6, <1>7, WritesKept DEF IInv

LEMMA OpenInv ==
  ASSUME IInv, NEW r \in Reader, Open(r)
  PROVE  IInv'
<1>1. UNCHANGED <<key, writing>> /\ UNCHANGED <<entry, at, raced>>
  BY DEF Open
<1>2. PICK facts \in {{}, Own(key)} : unseen' = [unseen EXCEPT ![r] = Missing(facts)]
  BY DEF Open
<1>3. Missing(facts) \subseteq Writer /\ \A w \in Missing(facts) : ~Committed(w)
  BY DEF Missing
<1>4. TypeOK'
  <2>1. unseen' \in [Reader -> SUBSET Writer]
    BY <1>2, <1>3 DEF IInv, TypeOK
  <2>2. /\ rpc' \in [Reader -> {"idle", "get", "fill"}]
        /\ \A s \in Reader : rpc'[s] = "fill" => rpc[s] = "fill"
    BY DEF Open, IInv, TypeOK
  <2> QED
    BY <1>1, <2>1, <2>2 DEF IInv, TypeOK, writing
<1>5. Fills'
  <2> SUFFICES ASSUME NEW s \in Reader, NEW w \in unseen'[s]
               PROVE  Excused(w, raced[s])'
    BY <1>1 DEF Fills
  <2>1. CASE w \in unseen[s]
    BY <1>1, <1>2, <2>1, WritesKept DEF IInv, TypeOK, Fills
  <2>2. CASE w \in Missing(facts)
    BY <1>1, <1>3, <2>2, WritesKept DEF Excused
  <2> QED
    BY <1>2, <2>1, <2>2 DEF IInv, TypeOK
<1>6. Lasts'
  BY <1>1, WritesKept DEF IInv, TypeOK, Lasts
<1> QED
  BY <1>1, <1>4, <1>5, <1>6, WritesKept DEF IInv

LEMMA MissInv ==
  ASSUME IInv, NEW r \in Reader, Miss(r)
  PROVE  IInv'
<1>1. UNCHANGED <<key, writing>> /\ UNCHANGED <<entry, unseen, raced>>
  BY DEF Miss
<1>2. key \in Key /\ 1 \in 1..(Len(Statements[key]) + 1)
  BY StatementsList DEF IInv, TypeOK
<1>3. TypeOK'
  BY <1>1, <1>2 DEF Miss, IInv, TypeOK, writing
<1>4. Fills' /\ Lasts'
  BY <1>1, WritesKept DEF IInv, TypeOK, Fills, Lasts
<1> QED
  BY <1>1, <1>3, <1>4, WritesKept DEF IInv

\* What a SELECT adds is not committed, so it needs no excuse yet.
LEMMA SelectInv ==
  ASSUME IInv, NEW r \in Reader, Select(r)
  PROVE  IInv'
<1> DEFINE M == Missing(Statements[key][at[r]])
<1>1. UNCHANGED <<key, writing>> /\ UNCHANGED <<entry, rpc, raced>>
  BY DEF Select
<1>2. M \subseteq Writer /\ \A w \in M : ~Committed(w)
  BY DEF Missing
<1> HIDE DEF M
<1>3. unseen' = [unseen EXCEPT ![r] = unseen[r] \cup M]
  BY DEF Select, M
<1>4. at' = [at EXCEPT ![r] = at[r] + 1] /\ at[r] \in 1..Len(Statements[key])
      /\ Len(Statements[key]) \in Nat
  BY StatementsList DEF Select, IInv, TypeOK
<1>5. TypeOK'
  <2>1. unseen' \in [Reader -> SUBSET Writer]
    BY <1>2, <1>3 DEF IInv, TypeOK
  <2>2. at' \in [Reader -> Nat] /\ at'[r] \in 1..(Len(Statements[key]) + 1)
        /\ \A s \in Reader \ {r} : at'[s] = at[s]
    BY <1>4 DEF IInv, TypeOK
  <2> QED
    BY <1>1, <2>1, <2>2 DEF IInv, TypeOK, writing
<1>6. Fills'
  <2> SUFFICES ASSUME NEW s \in Reader, NEW w \in unseen'[s]
               PROVE  Excused(w, raced[s])'
    BY <1>1 DEF Fills
  <2>1. CASE w \in unseen[s]
    BY <1>1, <2>1, WritesKept DEF IInv, TypeOK, Fills
  <2>2. CASE w \in M
    BY <1>1, <1>2, <2>2, WritesKept DEF Excused
  <2> QED
    BY <1>3, <2>1, <2>2 DEF IInv, TypeOK
<1>7. Lasts'
  BY <1>1, WritesKept DEF IInv, TypeOK, Lasts
<1> QED
  BY <1>1, <1>5, <1>6, <1>7, WritesKept DEF IInv

LEMMA ExpireInv == IInv /\ Expire => IInv'
<1> SUFFICES ASSUME IInv, Expire PROVE IInv'
  OBVIOUS
<1>1. UNCHANGED <<key, writing, rpc, at, unseen, raced>> /\ entry' = None
  BY DEF Expire, reading
<1>2. TypeOK'
  BY <1>1 DEF IInv, TypeOK, writing
<1>3. Fills' /\ Lasts'
  BY <1>1, WritesKept DEF IInv, TypeOK, Fills, Lasts
<1> QED
  BY <1>1, <1>2, <1>3, WritesKept DEF IInv

-----------------------------------------------------------------------------
\* A writer's step that leaves the readers, the entry and the other writers
\* alone preserves the invariant if it excuses what its own write was excused of.
LEMMA WriterInv ==
  ASSUME IInv, NEW w \in Writer,
         UNCHANGED <<key, entry, reading, route>>,
         TypeOK', Started',
         \A v \in Writer \ {w} : wpc'[v] = wpc[v] /\ pos'[v] = pos[v],
         \A c : Excused(w, c) => Excused(w, c)'
  PROVE  IInv'
<1>1. key' = key /\ route' = route /\ entry' = entry /\ unseen' = unseen /\ raced' = raced
  BY DEF reading
<1>2. Relevant'
  BY <1>1 DEF IInv, Relevant
<1>3. ASSUME NEW v \in Writer, NEW c, Excused(v, c)
      PROVE  Excused(v, c)'
  <2>1. CASE v = w
    BY <1>3, <2>1
  <2>2. CASE v # w
    BY <1>1, <1>3, <2>2 DEF Excused, Committed, NoDelete, Pending, Deletes
  <2> QED
    BY <2>1, <2>2
<1>4. Fills'
  BY <1>1, <1>3 DEF IInv, TypeOK, Fills
<1>5. Lasts'
  BY <1>1, <1>3 DEF IInv, TypeOK, Lasts
<1> QED
  BY <1>2, <1>4, <1>5 DEF IInv

\* Behind its commit a write has all its deletions ahead of it.
LEMMA CommitInv ==
  ASSUME IInv, NEW w \in Writer, Commit(w)
  PROVE  IInv'
<1>1. /\ UNCHANGED <<key, entry, reading, route>>
      /\ wpc' = [wpc EXCEPT ![w] = "deleting"] /\ pos' = [pos EXCEPT ![w] = 1]
  BY DEF Commit
<1>2. TypeOK'
  BY <1>1 DEF IInv, TypeOK, reading
<1>3. Started'
  BY <1>1 DEF IInv, TypeOK, Started
<1>4. ASSUME NEW c PROVE Excused(w, c)'
  <2>1. wpc'[w] = "deleting" /\ pos'[w] = 1 /\ key' = key /\ route' = route
    BY <1>1 DEF IInv, TypeOK
  <2> QED
    BY <2>1 DEF Excused, NoDelete, Pending, Deletes
<1>5. \A v \in Writer \ {w} : wpc'[v] = wpc[v] /\ pos'[v] = pos[v]
  BY <1>1 DEF IInv, TypeOK
<1> QED
  BY <1>1, <1>2, <1>3, <1>4, <1>5, WriterInv

LEMMA RefuseInv ==
  ASSUME IInv, NEW w \in Writer, Refuse(w)
  PROVE  IInv'
<1>1. /\ UNCHANGED <<key, entry, reading, route, pos>> /\ wpc[w] = "begun"
      /\ wpc' = [wpc EXCEPT ![w] = "refused"]
  BY DEF Refuse
<1>2. TypeOK'
  BY <1>1 DEF IInv, TypeOK, reading
<1>3. Started'
  BY <1>1 DEF IInv, TypeOK, Started
<1>4. ASSUME NEW c PROVE Excused(w, c)'
  BY <1>1 DEF IInv, TypeOK, Started, Excused, Committed
<1>5. \A v \in Writer \ {w} : wpc'[v] = wpc[v] /\ pos'[v] = pos[v]
  BY <1>1 DEF IInv, TypeOK
<1> QED
  BY <1>1, <1>2, <1>3, <1>4, <1>5, WriterInv

LEMMA LoseDeleteInv ==
  ASSUME IInv, NEW w \in Writer, LoseDelete(w)
  PROVE  IInv'
<1>1. /\ UNCHANGED <<key, entry, reading, route, pos>> /\ wpc[w] = "deleting"
      /\ wpc' = [wpc EXCEPT ![w] = "dead"] /\ Pending(w)
  BY DEF LoseDelete, Pending
<1>2. TypeOK'
  BY <1>1 DEF IInv, TypeOK, reading
<1>3. Started'
  BY <1>1 DEF IInv, TypeOK, Started
<1>4. ASSUME NEW c PROVE Excused(w, c)'
  BY <1>1 DEF IInv, TypeOK, Excused, Pending, Deletes
<1>5. \A v \in Writer \ {w} : wpc'[v] = wpc[v] /\ pos'[v] = pos[v]
  BY <1>1 DEF IInv, TypeOK
<1> QED
  BY <1>1, <1>2, <1>3, <1>4, <1>5, WriterInv

\* What both kinds of deletion have in common.
LEMMA DeletingFacts ==
  ASSUME IInv, NEW w \in Writer, NEW k, Deleting(w, k), UNCHANGED wpc
  PROVE  /\ pos[w] \in 1..Len(Deletes(w)) /\ Len(Deletes(w)) \in Nat
         /\ pos' = [pos EXCEPT ![w] = pos[w] + 1]
         /\ pos' \in [Writer -> Nat] /\ Started'
         /\ \A v \in Writer \ {w} : wpc'[v] = wpc[v] /\ pos'[v] = pos[v]
<1>1. route[w] \in DOMAIN Route
  BY DEF IInv, TypeOK
<1>2. pos[w] \in 1..Len(Deletes(w)) /\ Len(Deletes(w)) \in Nat
  BY <1>1, TableComplete DEF Deleting, Deletes
<1>3. pos' = [pos EXCEPT ![w] = pos[w] + 1] /\ wpc[w] = "deleting"
  BY DEF Deleting
<1> QED
  BY <1>2, <1>3 DEF IInv, TypeOK, Started

\* Deleting another key is one deletion fewer before that of the followed one.
LEMMA DeleteOtherInv ==
  ASSUME IInv, NEW w \in Writer, DeleteOther(w)
  PROVE  IInv'
<1>1. PICK k \in {"homeVersion", "exploreVersion", "auth"} \cup (Key \ {key}) :
        Deleting(w, k) /\ UNCHANGED <<entry, raced, wpc>>
  BY DEF DeleteOther
<1>2. k # key
  BY <1>1, Bodies DEF IInv, TypeOK
<1>3. UNCHANGED <<key, entry, reading, route>> /\ Deletes(w)[pos[w]] = k
  BY <1>1 DEF Deleting, reading
<1>4. TypeOK' /\ Started'
  BY <1>1, <1>3, DeletingFacts DEF IInv, TypeOK, reading
<1>5. ASSUME NEW c, Excused(w, c) PROVE Excused(w, c)'
  <2>1. pos'[w] = pos[w] + 1 /\ pos[w] \in 1..Len(Deletes(w)) /\ Len(Deletes(w)) \in Nat
    BY <1>1, DeletingFacts DEF IInv, TypeOK
  <2>2. Pending(w) => Pending(w)'
    BY <1>1, <1>2, <1>3, <2>1 DEF Pending, Deletes
  <2> QED
    BY <1>3, <1>5, <2>1, <2>2 DEF Excused, Committed, NoDelete, Deletes
<1>6. \A v \in Writer \ {w} : wpc'[v] = wpc[v] /\ pos'[v] = pos[v]
  BY <1>1, DeletingFacts
<1> QED
  BY <1>3, <1>4, <1>5, <1>6, WriterInv

\* Deleting the followed key empties the entry, and whatever is being read and
\* lacks this write has crossed the deletion from now on.
LEMMA DeleteKeyInv ==
  ASSUME IInv, NEW w \in Writer, DeleteKey(w)
  PROVE  IInv'
<1>1. /\ Deleting(w, key) /\ UNCHANGED <<key, rpc, at, unseen, route, wpc>>
      /\ entry' = None
      /\ raced' = [r \in Reader |-> raced[r] \cup ({w} \cap unseen[r])]
  BY DEF DeleteKey, Deleting
<1>2. TypeOK'
  BY <1>1, DeletingFacts DEF IInv, TypeOK
<1>3. Relevant' /\ Started' /\ Lasts'
  BY <1>1, DeletingFacts DEF IInv, Relevant, Lasts
<1>4. ASSUME NEW r \in Reader, NEW v \in unseen'[r]
      PROVE  Excused(v, raced[r])'
  <2>1. v \in unseen[r] /\ v \in Writer /\ raced'[r] = raced[r] \cup ({w} \cap unseen[r])
    BY <1>1 DEF IInv, TypeOK
  <2>2. CASE v = w
    BY <2>1, <2>2 DEF Excused
  <2>3. CASE v # w
    <3>1. wpc'[v] = wpc[v] /\ pos'[v] = pos[v] /\ Excused(v, raced[r])
      BY <1>1, <2>1, <2>3, DeletingFacts DEF IInv, Fills
    <3> QED
      BY <1>1, <2>1, <3>1 DEF Excused, Committed, NoDelete, Pending, Deletes
  <2> QED
    BY <2>2, <2>3
<1>5. Fills'
  BY <1>4 DEF Fills
<1> QED
  BY <1>2, <1>3, <1>5 DEF IInv

-----------------------------------------------------------------------------
LEMMA StepInv == IInv /\ [Next]_vars => IInv'
<1> SUFFICES ASSUME IInv, [Next]_vars PROVE IInv'
  OBVIOUS
<1>1. ASSUME NEW r \in Reader, Open(r) PROVE IInv'
  BY <1>1, OpenInv
<1>2. ASSUME NEW r \in Reader, Hit(r) \/ NotFound(r) \/ Store(r) \/ Abandon(r)
      PROVE  IInv'
  BY <1>2, LeaveInv DEF Hit, NotFound, Store, Abandon
<1>3. ASSUME NEW r \in Reader, Miss(r) PROVE IInv'
  BY <1>3, MissInv
<1>4. ASSUME NEW r \in Reader, Select(r) PROVE IInv'
  BY <1>4, SelectInv
<1>5. ASSUME NEW w \in Writer, Commit(w) PROVE IInv'
  BY <1>5, CommitInv
<1>6. ASSUME NEW w \in Writer, Refuse(w) PROVE IInv'
  BY <1>6, RefuseInv
<1>7. ASSUME NEW w \in Writer, DeleteKey(w) PROVE IInv'
  BY <1>7, DeleteKeyInv
<1>8. ASSUME NEW w \in Writer, DeleteOther(w) PROVE IInv'
  BY <1>8, DeleteOtherInv
<1>9. ASSUME NEW w \in Writer, LoseDelete(w) PROVE IInv'
  BY <1>9, LoseDeleteInv
<1>10. CASE Expire
  BY <1>10, ExpireInv
<1>11. CASE UNCHANGED vars
  <2>1. UNCHANGED <<key, entry, rpc, at, unseen, raced, route, wpc, pos>>
    BY <1>11 DEF vars, reading, writing
  <2>2. UNCHANGED <<key, writing>>
    BY <2>1 DEF writing
  <2>3. TypeOK'
    BY <2>1 DEF IInv, TypeOK
  <2>4. Fills' /\ Lasts'
    BY <2>1, <2>2, WritesKept DEF IInv, TypeOK, Fills, Lasts
  <2> QED
    BY <2>2, <2>3, <2>4, WritesKept DEF IInv
<1> QED
  BY <1>1, <1>2, <1>3, <1>4, <1>5, <1>6, <1>7, <1>8, <1>9, <1>10, <1>11
     DEF Next, Step, Write

LEMMA Invariant == Spec => []IInv
BY InitInv, StepInv, PTL DEF Spec

\* Every variable of the cache model keeps its type.
THEOREM TypeCorrect == Spec => []TypeOK
<1>1. IInv => TypeOK
  BY DEF IInv
<1> QED
  BY <1>1, Invariant, PTL

\* Whatever the readers and writers of a key do, an entry hides a committed write
\* only for one of the three reasons: the route leaves the body to its TTL, its
\* deletion is outstanding or lost, or the fill crossed it.
THEOREM AlwaysExcused == Spec => []StaleIsExcused
BY ExcusedEntry, Invariant, PTL

-----------------------------------------------------------------------------
(* Access tokens and the users cached for them.                            *)

\* A request has its token once it began, and one that made it has accepted
\* nothing yet.
Named == \A r \in Request : pc[r] # "idle" => tok[r] \in Token /\ exp[tok[r]] # NoValue
Fresh == \A r \in Request :
  pc[r] = "idle" \/ op[r] \in {"login", "refresh"} =>
    r \notin after /\ asked[r] = NoValue /\ accepted[r] = NoValue
Serving == \A r \in Request :
  /\ pc[r] \in {"mget", "exists", "decode", "select"} => op[r] \notin {"login", "refresh"}
  /\ pc[r] = "issued" => op[r] \in {"login", "refresh"}
  /\ pc[r] \in {"leaving", "redecode", "revoke"} => op[r] = "logout"
  /\ pc[r] # "idle" /\ op[r] \notin {"login", "refresh"} => tok[r] \in held

\* No token is signed for longer than its life.
Signed == \A t \in Token : exp[t] # NoValue => exp[t] <= now + Life * Second

\* A TTL is what was left of the token when it was computed: cut to a second
\* for a cached user, and not less than what was left but a second for the
\* blacklist.
TtlFits(r) ==
  /\ from[r] <= now
  /\ pc[r] = "store" /\ ttl[r] # 0 => ttl[r] * Second < exp[tok[r]] - from[r] + Second
  /\ pc[r] = "revoke" => exp[tok[r]] - from[r] < ttl[r] * Second + Second
Computed == \A r \in Request : TtlFits(r)

\* A cached user ends with its token, but for the delay of its SETEX.
Ending == \A t \in Token : auth[t] # NoValue =>
  exp[t] # NoValue /\ now < auth[t].until /\ auth[t].until < exp[t] + auth[t].lag + Second

\* A token that was logged out is on the blacklist up to its last second.
Barred == \A t \in out :
  now > exp[t] - Second \/ (black[t] # NoValue /\ black[t] > exp[t] - Second)
LateOnly == \A r \in after :
  tok[r] \in out /\ (asked[r] = NoValue \/ asked[r] > exp[tok[r]] - Second)

AuthIInv == /\ AuthTypeOK /\ Named /\ Fresh /\ Serving /\ Signed /\ Computed
            /\ Ending /\ Barred /\ LateOnly /\ AcceptedInTime

\* Whole seconds of a number of ticks.
LEMMA WholeSeconds ==
  ASSUME NEW d \in Int
  PROVE  /\ Seconds(d) \in Int
         /\ Seconds(d) * Second <= d
         /\ d < Seconds(d) * Second + Second
  BY ClockAssumption DEF Seconds

\* What is left of a token, in whole seconds, is within its life.
LEMMA WhatIsLeft ==
  ASSUME NEW d \in Int, d <= Life * Second
  PROVE  LET s == MaxOf(0, Seconds(d)) IN
         /\ s \in 0..Life
         /\ s # 0 => s * Second <= d
         /\ d < s * Second + Second
<1> DEFINE n == Seconds(d)
<1>1. n \in Int /\ n * Second <= d /\ d < n * Second + Second
  BY WholeSeconds
<1>2. n <= Life
  <2> SUFFICES ASSUME n >= Life + 1 PROVE FALSE
    BY <1>1, ClockAssumption
  <2>1. \A a, b \in Nat : a >= b + 1 => a * Second >= b * Second + Second
    BY ClockAssumption
  <2> QED
    BY <1>1, <2>1, ClockAssumption
<1>3. CASE n <= 0
  <2>1. n * Second + Second <= Second
    <3>1. \A a \in Int : a <= 0 => a * Second <= 0
      BY ClockAssumption
    <3> QED
      BY <1>1, <1>3, <3>1, ClockAssumption
  <2>2. MaxOf(0, n) = 0
    BY <1>1, <1>3 DEF MaxOf
  <2>3. d < 0 * Second + Second
    BY <1>1, <2>1, ClockAssumption
  <2> QED
    BY <2>2, <2>3, ClockAssumption
<1>4. CASE n > 0
  <2>1. MaxOf(0, n) = n
    BY <1>1, <1>4 DEF MaxOf
  <2> HIDE DEF n
  <2> QED
    BY <1>1, <1>2, <1>4, <2>1, ClockAssumption DEF n
<1> QED
  BY <1>1, <1>3, <1>4

\* The initial state satisfies the invariant.
LEMMA AuthInitInv == AuthInit => AuthIInv
  BY ClockAssumption, NoValueAssumption
  DEF AuthInit, AuthIInv, AuthTypeOK, Named, Fresh, Serving, Signed, Computed,
      TtlFits, Ending, Barred, LateOnly, AcceptedInTime, Time, Op

\* Every step preserves the invariant.
LEMMA AuthInvStep == AuthIInv /\ [AuthNext]_authVars => AuthIInv'
<1> SUFFICES ASSUME AuthIInv, [AuthNext]_authVars PROVE AuthIInv'
  OBVIOUS
<1>0. /\ AuthTypeOK /\ Named /\ Fresh /\ Serving /\ Signed /\ Computed
      /\ Ending /\ Barred /\ LateOnly /\ AcceptedInTime
  BY DEF AuthIInv
<1> USE <1>0, ClockAssumption, NoValueAssumption DEF Time, Op, Goto, Fail, redis, history
<1>1. CASE Tick
  <2>1. AuthTypeOK'
    BY <1>1 DEF Tick, Cached, AuthTypeOK, Named, Computed, TtlFits
  <2>2. Named'
    BY <1>1 DEF Tick, Cached, AuthTypeOK, Named
  <2>3. Fresh' /\ Serving'
    BY <1>1 DEF Tick, Cached, AuthTypeOK, Named, Fresh, Serving
  <2>4. Signed'
    BY <1>1 DEF Tick, AuthTypeOK, Signed
  <2>5. Computed'
    BY <1>1 DEF Tick, Cached, AuthTypeOK, Named, Computed, TtlFits
  <2>6. Ending'
    BY <1>1 DEF Tick, Cached, AuthTypeOK, Named, Computed, TtlFits, Ending
  <2>7. Barred'
    BY <1>1 DEF Tick, Cached, AuthTypeOK, Named, Computed, TtlFits, Barred
  <2>8. LateOnly'
    BY <1>1 DEF Tick, Cached, AuthTypeOK, Named, Fresh, Serving, Barred, LateOnly
  <2>9. AcceptedInTime'
    BY <1>1 DEF Tick, Cached, AuthTypeOK, Named, Fresh, Serving, Ending, AcceptedInTime
  <2> QED
    BY <2>1, <2>2, <2>3, <2>4, <2>5, <2>6, <2>7, <2>8, <2>9 DEF AuthIInv
<1>2. ASSUME NEW r \in Request, NEW t \in Token, NEW o \in {"login", "refresh"},
             CreateAccessToken(r, t, o)
      PROVE  AuthIInv'
  <2>0. /\ exp'[t] \in Int
        /\ exp'[t] <= now + Life * Second
        /\ now + Life * Second < exp'[t] + Second
        /\ now + Life * Second \in Int
    <3> DEFINE end == now + Life * Second
    <3>1. end \in Int
      BY DEF AuthTypeOK
    <3>2. exp'[t] = Seconds(end) * Second
      BY <1>2 DEF CreateAccessToken, AuthTypeOK
    <3> HIDE DEF end
    <3>3. /\ Seconds(end) \in Int /\ Seconds(end) * Second <= end
          /\ end < Seconds(end) * Second + Second
      BY <3>1, WholeSeconds
    <3>4. Seconds(end) * Second \in Int
      BY <3>3
    <3> QED
      BY <3>1, <3>2, <3>3, <3>4 DEF end
  <2>1. AuthTypeOK'
    BY <2>0, <1>2 DEF CreateAccessToken, AuthTypeOK, Named, Computed, TtlFits
  <2>2. Named'
    BY <2>0, <1>2 DEF CreateAccessToken, AuthTypeOK, Named
  <2>3. Fresh' /\ Serving'
    BY <1>2 DEF CreateAccessToken, AuthTypeOK, Named, Fresh, Serving
  <2>4. Signed'
    BY <2>0, <1>2 DEF CreateAccessToken, AuthTypeOK, Signed
  <2>5. Computed'
    BY <2>0, <1>2 DEF CreateAccessToken, AuthTypeOK, Named, Computed, TtlFits
  <2>6. Ending'
    BY <2>0, <1>2 DEF CreateAccessToken, AuthTypeOK, Named, Computed, TtlFits, Ending
  <2>7. Barred'
    BY <2>0, <1>2 DEF CreateAccessToken, AuthTypeOK, Named, Computed, TtlFits, Barred
  <2>8. LateOnly'
    BY <2>0, <1>2 DEF CreateAccessToken, AuthTypeOK, Named, Fresh, Serving, Barred,
        LateOnly
  <2>9. AcceptedInTime'
    BY <2>0, <1>2 DEF CreateAccessToken, AuthTypeOK, Named, Fresh, Serving, Ending,
        AcceptedInTime
  <2> QED
    BY <2>1, <2>2, <2>3, <2>4, <2>5, <2>6, <2>7, <2>8, <2>9 DEF AuthIInv
<1>3. ASSUME NEW r \in Request, NEW t \in Token,
             NEW o \in {"read", "change", "logout"}, Begin(r, t, o)
      PROVE  AuthIInv'
  <2>1. AuthTypeOK'
    BY <1>3 DEF Begin, AuthTypeOK, Named, Computed, TtlFits
  <2>2. Named'
    BY <1>3 DEF Begin, AuthTypeOK, Named
  <2>3. Fresh' /\ Serving'
    BY <1>3 DEF Begin, AuthTypeOK, Named, Fresh, Serving
  <2>4. Signed'
    BY <1>3 DEF Begin, AuthTypeOK, Signed
  <2>5. Computed'
    BY <1>3 DEF Begin, AuthTypeOK, Named, Computed, TtlFits
  <2>6. Ending'
    BY <1>3 DEF Begin, AuthTypeOK, Named, Computed, TtlFits, Ending
  <2>7. Barred'
    BY <1>3 DEF Begin, AuthTypeOK, Named, Computed, TtlFits, Barred
  <2>8. LateOnly'
    BY <1>3 DEF Begin, AuthTypeOK, Named, Fresh, Serving, Barred, LateOnly
  <2>9. AcceptedInTime'
    BY <1>3 DEF Begin, AuthTypeOK, Named, Fresh, Serving, Ending, AcceptedInTime
  <2> QED
    BY <2>1, <2>2, <2>3, <2>4, <2>5, <2>6, <2>7, <2>8, <2>9 DEF AuthIInv
<1>4. ASSUME NEW r \in Request, Issue(r)
      PROVE  AuthIInv'
  <2>1. AuthTypeOK'
    BY <1>4 DEF Issue, AuthTypeOK, Named, Computed, TtlFits
  <2>2. Named'
    BY <1>4 DEF Issue, AuthTypeOK, Named
  <2>3. Fresh' /\ Serving'
    BY <1>4 DEF Issue, AuthTypeOK, Named, Fresh, Serving
  <2>4. Signed'
    BY <1>4 DEF Issue, AuthTypeOK, Signed
  <2>5. Computed'
    BY <1>4 DEF Issue, AuthTypeOK, Named, Computed, TtlFits
  <2>6. Ending'
    BY <1>4 DEF Issue, AuthTypeOK, Named, Computed, TtlFits, Ending
  <2>7. Barred'
    BY <1>4 DEF Issue, AuthTypeOK, Named, Computed, TtlFits, Barred
  <2>8. LateOnly'
    BY <1>4 DEF Issue, AuthTypeOK, Named, Fresh, Serving, Barred, LateOnly
  <2>9. AcceptedInTime'
    BY <1>4 DEF Issue, AuthTypeOK, Named, Fresh, Serving, Ending, AcceptedInTime
  <2> QED
    BY <2>1, <2>2, <2>3, <2>4, <2>5, <2>6, <2>7, <2>8, <2>9 DEF AuthIInv
<1>5. ASSUME NEW r \in Request, GetAuthCacheAndBlacklist(r)
      PROVE  AuthIInv'
  <2>0. auth[tok[r]] # NoValue =>
          auth[tok[r]] \in Cached /\ [at |-> now, lag |-> auth[tok[r]].lag] \in Acceptance
    BY <1>5 DEF GetAuthCacheAndBlacklist, AuthTypeOK, Named, Cached, Acceptance
  <2>1. AuthTypeOK'
    BY <2>0, <1>5 DEF GetAuthCacheAndBlacklist, Served, Asks, Accept, AuthTypeOK,
        Named, Computed, TtlFits
  <2>2. Named'
    BY <1>5 DEF GetAuthCacheAndBlacklist, Served, Asks, Accept, AuthTypeOK, Named
  <2>3. Fresh' /\ Serving'
    BY <1>5 DEF GetAuthCacheAndBlacklist, Served, Asks, Accept, AuthTypeOK, Named,
        Fresh, Serving
  <2>4. Signed'
    BY <2>0, <1>5 DEF GetAuthCacheAndBlacklist, AuthTypeOK, Signed
  <2>5. Computed'
    BY <2>0, <1>5 DEF GetAuthCacheAndBlacklist, Served, Asks, Accept, AuthTypeOK,
        Named, Computed, TtlFits
  <2>6. Ending'
    BY <2>0, <1>5 DEF GetAuthCacheAndBlacklist, Served, Asks, Accept, AuthTypeOK,
        Named, Computed, TtlFits, Ending
  <2>7. Barred'
    BY <2>0, <1>5 DEF GetAuthCacheAndBlacklist, Served, Asks, Accept, AuthTypeOK,
        Named, Computed, TtlFits, Barred
  <2>8. LateOnly'
    BY <2>0, <1>5 DEF GetAuthCacheAndBlacklist, Served, Asks, Accept, AuthTypeOK,
        Named, Fresh, Serving, Barred, LateOnly
  <2>9. AcceptedInTime'
    <3> SUFFICES ASSUME NEW q \in Request, accepted'[q] # NoValue
                 PROVE  accepted'[q].at < exp[tok[q]] + accepted'[q].lag + Second
      BY <1>5 DEF GetAuthCacheAndBlacklist, AcceptedInTime
    <3>1. CASE accepted'[q] = accepted[q]
      BY <3>1 DEF AcceptedInTime
    <3>2. CASE accepted'[q] # accepted[q]
      <4>1. q = r /\ auth[tok[r]] # NoValue
            /\ accepted'[r] = [at |-> now, lag |-> auth[tok[r]].lag]
        BY <3>2, <1>5 DEF GetAuthCacheAndBlacklist, Asks, Accept, AuthTypeOK
      <4>2. tok[r] \in Token /\ exp[tok[r]] \in Int /\ auth[tok[r]] \in Cached
        BY <4>1, <1>5 DEF GetAuthCacheAndBlacklist, AuthTypeOK, Named
      <4> QED
        BY <4>1, <4>2 DEF Ending, Cached, AuthTypeOK
    <3> QED
      BY <3>1, <3>2
  <2> QED
    BY <2>1, <2>2, <2>3, <2>4, <2>5, <2>6, <2>7, <2>8, <2>9 DEF AuthIInv
<1>6. ASSUME NEW r \in Request, MgetFails(r)
      PROVE  AuthIInv'
  BY <1>6 DEF MgetFails, AuthIInv, AuthTypeOK, Named, Fresh, Serving, Signed, Computed,
      TtlFits, Ending, Barred, LateOnly, AcceptedInTime
<1>7. ASSUME NEW r \in Request, IsBlacklisted(r)
      PROVE  AuthIInv'
  BY <1>7 DEF IsBlacklisted, Asks, AuthIInv, AuthTypeOK, Named, Fresh, Serving, Signed,
      Computed, TtlFits, Ending, Barred, LateOnly, AcceptedInTime
<1>8. ASSUME NEW r \in Request, ExistsFails(r)
      PROVE  AuthIInv'
  BY <1>8 DEF ExistsFails, AuthIInv, AuthTypeOK, Named, Fresh, Serving, Signed,
      Computed, TtlFits, Ending, Barred, LateOnly, AcceptedInTime
<1>9. ASSUME NEW r \in Request, DecodeToken(r)
      PROVE  AuthIInv'
  <2>0. now \in Nat /\ [at |-> now, lag |-> 0] \in Acceptance
    BY DEF AuthTypeOK, Acceptance
  <2>1. AuthTypeOK'
    BY <2>0, <1>9 DEF DecodeToken, Accept, Expired, AuthTypeOK, Named, Computed,
        TtlFits
  <2>2. Named'
    BY <1>9 DEF DecodeToken, Accept, Expired, AuthTypeOK, Named
  <2>3. Fresh' /\ Serving'
    BY <1>9 DEF DecodeToken, Accept, Expired, AuthTypeOK, Named, Fresh, Serving
  <2>4. Signed'
    BY <2>0, <1>9 DEF DecodeToken, AuthTypeOK, Signed
  <2>5. Computed'
    BY <2>0, <1>9 DEF DecodeToken, Accept, Expired, AuthTypeOK, Named, Computed,
        TtlFits
  <2>6. Ending'
    BY <2>0, <1>9 DEF DecodeToken, Accept, Expired, AuthTypeOK, Named, Computed,
        TtlFits, Ending
  <2>7. Barred'
    BY <2>0, <1>9 DEF DecodeToken, Accept, Expired, AuthTypeOK, Named, Computed,
        TtlFits, Barred
  <2>8. LateOnly'
    BY <2>0, <1>9 DEF DecodeToken, Accept, Expired, AuthTypeOK, Named, Fresh, Serving,
        Barred, LateOnly
  <2>9. AcceptedInTime'
    <3> SUFFICES ASSUME NEW q \in Request, accepted'[q] # NoValue
                 PROVE  accepted'[q].at < exp[tok[q]] + accepted'[q].lag + Second
      BY <1>9 DEF DecodeToken, AcceptedInTime
    <3>1. CASE accepted'[q] = accepted[q]
      BY <3>1 DEF AcceptedInTime
    <3>2. CASE accepted'[q] # accepted[q]
      <4>1. q = r /\ ~Expired(tok[r]) /\ accepted'[r] = [at |-> now, lag |-> 0]
        BY <3>2, <1>9 DEF DecodeToken, Accept, AuthTypeOK
      <4>2. exp[tok[r]] \in Int
        BY <1>9 DEF DecodeToken, AuthTypeOK, Named
      <4> QED
        BY <4>1, <4>2 DEF Expired, AuthTypeOK
    <3> QED
      BY <3>1, <3>2
  <2> QED
    BY <2>1, <2>2, <2>3, <2>4, <2>5, <2>6, <2>7, <2>8, <2>9 DEF AuthIInv
<1>10. ASSUME NEW r \in Request, SelectUser(r)
      PROVE  AuthIInv'
  <2> DEFINE left == exp[tok[r]] - now
             s == MaxOf(0, Seconds(left))
  <2>0. /\ left \in Int /\ s \in 0..Life
        /\ s # 0 => s * Second <= left
        /\ left < s * Second + Second
    <3>1. left \in Int /\ left <= Life * Second
      BY <1>10 DEF SelectUser, AuthTypeOK, Named, Signed
    <3> HIDE DEF left
    <3> QED
      BY <3>1, WhatIsLeft
  <2>1. AuthTypeOK'
    BY <2>0, <1>10 DEF SelectUser, AuthTypeOK, Named, Computed, TtlFits
  <2>2. Named'
    BY <1>10 DEF SelectUser, AuthTypeOK, Named
  <2>3. Fresh' /\ Serving'
    BY <1>10 DEF SelectUser, AuthTypeOK, Named, Fresh, Serving
  <2>4. Signed'
    BY <2>0, <1>10 DEF SelectUser, AuthTypeOK, Signed
  <2>5. Computed'
    <3> SUFFICES ASSUME NEW q \in Request PROVE TtlFits(q)'
      BY DEF Computed
    <3>1. CASE from'[q] = from[q] /\ ttl'[q] = ttl[q] /\ pc'[q] \in {pc[q], "refused"}
      BY <3>1, <1>10 DEF SelectUser, Computed, TtlFits, AuthTypeOK
    <3>2. CASE q = r /\ ttl'[r] = s /\ from'[r] = now
      <4>1. exp' = exp /\ tok' = tok /\ now' = now /\ now \in Int
        BY <1>10 DEF SelectUser, AuthTypeOK
      <4> HIDE DEF s
      <4> QED
        BY <2>0, <3>2, <4>1 DEF TtlFits
    <3> QED
      BY <3>1, <3>2, <1>10 DEF SelectUser, AuthTypeOK
  <2>6. Ending'
    BY <2>0, <1>10 DEF SelectUser, AuthTypeOK, Named, Computed, TtlFits, Ending
  <2>7. Barred'
    BY <2>0, <1>10 DEF SelectUser, AuthTypeOK, Named, Computed, TtlFits, Barred
  <2>8. LateOnly'
    BY <2>0, <1>10 DEF SelectUser, AuthTypeOK, Named, Fresh, Serving, Barred, LateOnly
  <2>9. AcceptedInTime'
    BY <2>0, <1>10 DEF SelectUser, AuthTypeOK, Named, Fresh, Serving, Ending,
        AcceptedInTime
  <2> QED
    BY <2>1, <2>2, <2>3, <2>4, <2>5, <2>6, <2>7, <2>8, <2>9 DEF AuthIInv
<1>11. ASSUME NEW r \in Request, SetCache(r)
      PROVE  AuthIInv'
  <2>0. /\ now + ttl[r] * Second \in Nat
        /\ now - from[r] \in Nat
        /\ [until |-> now + ttl[r] * Second, lag |-> now - from[r]] \in Cached
        /\ ttl[r] # 0 => ttl[r] * Second > 0
    <3>1. ttl[r] \in Nat /\ from[r] \in Nat /\ now \in Nat /\ from[r] <= now
      BY DEF AuthTypeOK, Computed, TtlFits
    <3>2. ttl[r] * Second \in Nat /\ (ttl[r] # 0 => ttl[r] * Second > 0)
      BY <3>1
    <3> QED
      BY <3>1, <3>2 DEF Cached
  <2>1. AuthTypeOK'
    <3>1. auth' \in [Token -> Cached \cup {NoValue}]
      BY <2>0, <1>11 DEF SetCache, AuthTypeOK, Named
    <3>2. ttl' \in [Request -> 0..Life] /\ from' \in [Request -> Time]
      BY <1>11 DEF SetCache, Forget, AuthTypeOK
    <3> QED
      BY <3>1, <3>2, <1>11 DEF SetCache, Stored, Served, AuthTypeOK
  <2>2. Named'
    BY <1>11 DEF SetCache, Stored, Forget, Served, AuthTypeOK, Named
  <2>3. Fresh' /\ Serving'
    BY <1>11 DEF SetCache, Stored, Forget, Served, AuthTypeOK, Named, Fresh, Serving
  <2>4. Signed'
    BY <2>0, <1>11 DEF SetCache, AuthTypeOK, Signed
  <2>5. Computed'
    BY <2>0, <1>11 DEF SetCache, Stored, Forget, Served, AuthTypeOK, Named, Computed,
        TtlFits
  <2>6. Ending'
    BY <2>0, <1>11 DEF SetCache, Stored, Forget, Served, AuthTypeOK, Named, Computed,
        TtlFits, Ending
  <2>7. Barred'
    BY <2>0, <1>11 DEF SetCache, Stored, Forget, Served, AuthTypeOK, Named, Computed,
        TtlFits, Barred
  <2>8. LateOnly'
    BY <2>0, <1>11 DEF SetCache, Stored, Forget, Served, AuthTypeOK, Named, Fresh,
        Serving, Barred, LateOnly
  <2>9. AcceptedInTime'
    BY <2>0, <1>11 DEF SetCache, Stored, Forget, Served, AuthTypeOK, Named, Fresh,
        Serving, Ending, AcceptedInTime
  <2> QED
    BY <2>1, <2>2, <2>3, <2>4, <2>5, <2>6, <2>7, <2>8, <2>9 DEF AuthIInv
<1>12. ASSUME NEW r \in Request, SetCacheFails(r)
      PROVE  AuthIInv'
  BY <1>12 DEF SetCacheFails, Stored, Forget, Served, AuthIInv, AuthTypeOK, Named,
      Fresh, Serving, Signed, Computed, TtlFits, Ending, Barred, LateOnly,
      AcceptedInTime
<1>13. ASSUME NEW r \in Request, DeleteCache(r)
      PROVE  AuthIInv'
  BY <1>13 DEF DeleteCache, AuthIInv, AuthTypeOK, Named, Fresh, Serving, Signed,
      Computed, TtlFits, Ending, Barred, LateOnly, AcceptedInTime
<1>14. ASSUME NEW r \in Request, DeleteCacheFails(r)
      PROVE  AuthIInv'
  BY <1>14 DEF DeleteCacheFails, AuthIInv, AuthTypeOK, Named, Fresh, Serving, Signed,
      Computed, TtlFits, Ending, Barred, LateOnly, AcceptedInTime
<1>15. ASSUME NEW r \in Request, DecodeAgain(r)
      PROVE  AuthIInv'
  <2> DEFINE left == exp[tok[r]] - now
             s == MaxOf(0, Seconds(left))
  <2>0. /\ left \in Int /\ s \in 0..Life
        /\ s # 0 => s * Second <= left
        /\ left < s * Second + Second
    <3>1. left \in Int /\ left <= Life * Second
      BY <1>15 DEF DecodeAgain, AuthTypeOK, Named, Signed
    <3> HIDE DEF left
    <3> QED
      BY <3>1, WhatIsLeft
  <2>1. AuthTypeOK'
    <3>1. ttl' \in [Request -> 0..Life] /\ from' \in [Request -> Time]
      <4>1. \/ ttl' = ttl /\ from' = from
            \/ ttl' = [ttl EXCEPT ![r] = s] /\ from' = [from EXCEPT ![r] = now]
        BY <1>15 DEF DecodeAgain
      <4>2. s \in 0..Life
        BY <2>0
      <4> HIDE DEF s, left
      <4> QED
        BY <4>1, <4>2 DEF AuthTypeOK
    <3> QED
      BY <3>1, <1>15 DEF DecodeAgain, AuthTypeOK
  <2>2. Named'
    BY <1>15 DEF DecodeAgain, Expired, AuthTypeOK, Named
  <2>3. Fresh' /\ Serving'
    BY <1>15 DEF DecodeAgain, Expired, AuthTypeOK, Named, Fresh, Serving
  <2>4. Signed'
    BY <2>0, <1>15 DEF DecodeAgain, AuthTypeOK, Signed
  <2>5. Computed'
    <3> SUFFICES ASSUME NEW q \in Request PROVE TtlFits(q)'
      BY DEF Computed
    <3>1. CASE from'[q] = from[q] /\ ttl'[q] = ttl[q] /\ pc'[q] \in {pc[q], "refused"}
      BY <3>1, <1>15 DEF DecodeAgain, Computed, TtlFits, AuthTypeOK
    <3>2. CASE q = r /\ ttl'[r] = s /\ from'[r] = now
      <4>1. exp' = exp /\ tok' = tok /\ now' = now /\ now \in Int
        BY <1>15 DEF DecodeAgain, AuthTypeOK
      <4> HIDE DEF s
      <4> QED
        BY <2>0, <3>2, <4>1 DEF TtlFits
    <3> QED
      BY <3>1, <3>2, <1>15 DEF DecodeAgain, Expired, AuthTypeOK
  <2>6. Ending'
    BY <2>0, <1>15 DEF DecodeAgain, Expired, AuthTypeOK, Named, Computed, TtlFits,
        Ending
  <2>7. Barred'
    BY <2>0, <1>15 DEF DecodeAgain, Expired, AuthTypeOK, Named, Computed, TtlFits,
        Barred
  <2>8. LateOnly'
    BY <2>0, <1>15 DEF DecodeAgain, Expired, AuthTypeOK, Named, Fresh, Serving, Barred,
        LateOnly
  <2>9. AcceptedInTime'
    BY <2>0, <1>15 DEF DecodeAgain, Expired, AuthTypeOK, Named, Fresh, Serving, Ending,
        AcceptedInTime
  <2> QED
    BY <2>1, <2>2, <2>3, <2>4, <2>5, <2>6, <2>7, <2>8, <2>9 DEF AuthIInv
<1>16. ASSUME NEW r \in Request, AddToBlacklist(r)
      PROVE  AuthIInv'
  <2>0. now + ttl[r] * Second \in Nat
    <3>1. ttl[r] \in Nat /\ now \in Nat
      BY DEF AuthTypeOK
    <3>2. ttl[r] * Second \in Nat
      BY <3>1
    <3> QED
      BY <3>1, <3>2
  <2>1. AuthTypeOK'
    <3>1. black' \in [Token -> Nat \cup {NoValue}]
      BY <2>0, <1>16 DEF AddToBlacklist, AuthTypeOK, Named
    <3>2. ttl' \in [Request -> 0..Life] /\ from' \in [Request -> Time]
      BY <1>16 DEF AddToBlacklist, Forget, AuthTypeOK
    <3>3. out' \subseteq held'
      BY <1>16 DEF AddToBlacklist, AuthTypeOK, Serving
    <3> QED
      BY <3>1, <3>2, <3>3, <1>16 DEF AddToBlacklist, AuthTypeOK
  <2>2. Named'
    BY <1>16 DEF AddToBlacklist, Forget, AuthTypeOK, Named
  <2>3. Fresh' /\ Serving'
    BY <1>16 DEF AddToBlacklist, Forget, AuthTypeOK, Named, Fresh, Serving
  <2>4. Signed'
    BY <2>0, <1>16 DEF AddToBlacklist, AuthTypeOK, Signed
  <2>5. Computed'
    BY <2>0, <1>16 DEF AddToBlacklist, Forget, AuthTypeOK, Named, Computed, TtlFits
  <2>6. Ending'
    BY <2>0, <1>16 DEF AddToBlacklist, Forget, AuthTypeOK, Named, Computed, TtlFits,
        Ending
  <2>7. Barred'
    <3>1. tok[r] \in Token /\ exp[tok[r]] \in Int /\ from[r] <= now
          /\ exp[tok[r]] - from[r] < ttl[r] * Second + Second
          /\ ttl[r] \in Nat /\ from[r] \in Int /\ now \in Nat
      <4>1. TtlFits(r) /\ pc[r] = "revoke" /\ tok[r] \in Token /\ exp[tok[r]] # NoValue
        BY <1>16 DEF AddToBlacklist, Named, Computed
      <4> QED
        BY <4>1 DEF AuthTypeOK, TtlFits
    <3>2. ASSUME ttl[r] = 0 PROVE now > exp[tok[r]] - Second
      BY <3>1, <3>2
    <3>3. ttl[r] # 0 => now + ttl[r] * Second > exp[tok[r]] - Second
      <4>1. ttl[r] * Second \in Int
        BY <3>1
      <4> QED
        BY <3>1, <4>1
    <3> QED
      BY <2>0, <3>1, <3>2, <3>3, <1>16 DEF AddToBlacklist, AuthTypeOK, Barred
  <2>8. LateOnly'
    BY <2>0, <1>16 DEF AddToBlacklist, Forget, AuthTypeOK, Named, Fresh, Serving,
        Barred, LateOnly
  <2>9. AcceptedInTime'
    BY <2>0, <1>16 DEF AddToBlacklist, Forget, AuthTypeOK, Named, Fresh, Serving,
        Ending, AcceptedInTime
  <2> QED
    BY <2>1, <2>2, <2>3, <2>4, <2>5, <2>6, <2>7, <2>8, <2>9 DEF AuthIInv
<1>17. ASSUME NEW r \in Request, AddToBlacklistFails(r)
      PROVE  AuthIInv'
  BY <1>17 DEF AddToBlacklistFails, Forget, AuthIInv, AuthTypeOK, Named, Fresh,
      Serving, Signed, Computed, TtlFits, Ending, Barred, LateOnly, AcceptedInTime
<1>18. ASSUME NEW r \in Request, Crash(r)
      PROVE  AuthIInv'
  BY <1>18 DEF Crash, Forget, AuthIInv, AuthTypeOK, Named, Fresh, Serving, Signed,
      Computed, TtlFits, Ending, Barred, LateOnly, AcceptedInTime
<1>19. CASE UNCHANGED authVars
  BY <1>19 DEF authVars, AuthIInv, AuthTypeOK, Named, Fresh, Serving, Signed, Computed,
      TtlFits, Ending, Barred, LateOnly, AcceptedInTime
<1> QED
  BY <1>1, <1>2, <1>3, <1>4, <1>5, <1>6, <1>7, <1>8, <1>9, <1>10, <1>11, <1>12, <1>13,
     <1>14, <1>15, <1>16, <1>17, <1>18, <1>19
  DEF AuthNext, Start, AuthStep, Fault

\* A request that begins behind the answer of a logout is refused, but for
\* lost Redis answers and the last second of its token, for every number of
\* tokens and requests, and every length of a second and of a life.
THEOREM LogoutHolds == AuthSpec => []LoggedOutIsRefused
<1>1. AuthIInv => LoggedOutIsRefused
  BY DEF AuthIInv, LateOnly, LoggedOutIsRefused
<1> QED
  BY <1>1, AuthInitInv, AuthInvStep, PTL DEF AuthSpec

\* No token is accepted a second past its expiry, but for the delay between a
\* TTL and its SETEX, however often its user is cached again.
THEOREM AcceptedUntilExpiry == AuthSpec => []AcceptedInTime
<1>1. AuthIInv => AcceptedInTime
  BY DEF AuthIInv
<1> QED
  BY <1>1, AuthInitInv, AuthInvStep, PTL DEF AuthSpec

\* Tokens, cached users and blacklist entries keep their types, and no logout
\* is answered of a token that nobody was given.
THEOREM AuthTypeCorrect == AuthSpec => []AuthTypeOK
<1>1. AuthIInv => AuthTypeOK
  BY DEF AuthIInv
<1> QED
  BY <1>1, AuthInitInv, AuthInvStep, PTL DEF AuthSpec
=============================================================================
