----------------------------- MODULE ResponseCache -----------------------------
(***************************************************************************)
(* Responses cached in Redis.  A GET route looks its key up, else runs its *)
(* SELECTs and stores the body with a TTL; a changing route commits and    *)
(* then deletes keys, one command after the other; nothing orders the two, *)
(* and every Redis failure is swallowed (redis_service.py).                *)
(*                                                                         *)
(* One key is followed through a behaviour; keys do not influence each     *)
(* other.  The cast: an author with a post, and a follower of the author   *)
(* who votes, comments and gets the notifications.  A body is represented  *)
(* by the writes it does not show; of a fact only what bodies distinguish. *)
(***************************************************************************)
EXTENDS Integers, Sequences

CONSTANTS Reader, Writer, None

ASSUME NoneAssumption == None \notin Writer

-----------------------------------------------------------------------------
(* GET routes: the facts each SELECT reads.  is_following of a profile is  *)
(* read again on a hit and so is no part of the cached body.               *)
Listed == {"posts", "post", "votes", "comments"}

GetPost == <<{"post", "votes", "comments", "views"}, {"author", "authorPic"}, {"votes"}>>
GetUserPosts == <<Listed>>
GetHomeFeed == <<Listed \cup {"edge", "author", "authorPic"}>>
GetExploreFeed == <<Listed>>
GetPostComments ==
  <<{"comments", "texts", "commentLikes", "follower", "followerPic"}>>
GetAuthorProfile == <<{"author", "authorPic", "edge"}, {"posts"}>>
GetFollowerProfile == <<{"follower", "followerPic", "edge"}>>
GetFollowers == <<{"edge", "follower", "followerPic"}>>
GetFollowing == <<{"edge", "author", "authorPic"}>>
ListUsers == <<{"users", "author", "follower"}>>
\* The page, its unread count and its total.
GetMyNotifications == <<{"notifs"}, {"notifs"}, {"notifs"}>>
GetUnreadCount == <<{"notifs"}>>

Statements ==
  [post |-> GetPost, userPosts |-> GetUserPosts, home |-> GetHomeFeed,
   explore |-> GetExploreFeed, comments |-> GetPostComments,
   authorProfile |-> GetAuthorProfile, followerProfile |-> GetFollowerProfile,
   followers |-> GetFollowers, following |-> GetFollowing, allUsers |-> ListUsers,
   notifications |-> GetMyNotifications, unread |-> GetUnreadCount]

Key == DOMAIN Statements
Shown(k) == UNION {Statements[k][i] : i \in DOMAIN Statements[k]}

(* A reader whose own row is shown and whose auth cache missed: the session *)
(* keeps the row that authentication read, a later SELECT does not refresh. *)
Own(k) == CASE k = "post" -> {"author", "authorPic"}
            [] k = "authorProfile" -> {"author", "authorPic", "edge"}
            [] k = "followerProfile" -> {"follower", "followerPic", "edge"}
            [] k = "followers" -> {"follower", "followerPic"}
            [] k = "following" -> {"author", "authorPic"}
            [] OTHER -> {}

-----------------------------------------------------------------------------
(* Changing routes: the facts a commit changes and the keys deleted after  *)
(* it, in order.  increment_cache_version is an INCR of a key that no GET  *)
(* route looks at.                                                         *)
OfPost == {"post", "votes", "comments", "texts", "commentLikes", "views"}

CreatePost == [changes |-> {"posts"},
               deletes |-> <<"homeVersion", "exploreVersion", "userPosts">>]
DeletePost == [changes |-> {"posts"} \cup OfPost,
               deletes |-> <<"post", "homeVersion", "exploreVersion",
                             "userPosts", "comments">>]
UpdatePost == [changes |-> {"post"},
               deletes |-> <<"post", "homeVersion", "exploreVersion">>]
VoteOnPost == [changes |-> {"votes"},
               deletes |-> <<"post", "homeVersion", "exploreVersion">>]
CreateComment == [changes |-> {"comments", "texts"},
                  deletes |-> <<"comments", "post", "homeVersion", "exploreVersion">>]
DeleteComment == [changes |-> {"comments", "texts"}, deletes |-> <<"comments", "post">>]
UpdateComment == [changes |-> {"texts"}, deletes |-> <<"comments">>]
LikeAComment == [changes |-> {"commentLikes"}, deletes |-> <<>>]
FollowUser == [changes |-> {"edge"},
               deletes |-> <<"followerProfile", "authorProfile", "followers",
                             "following", "home", "auth">>]
UnfollowUser == [changes |-> {"edge"},
                 deletes |-> <<"followerProfile", "authorProfile", "followers",
                               "following", "auth", "homeVersion">>]
RemoveFollower == [changes |-> {"edge"},
                   deletes |-> <<"authorProfile", "followerProfile", "followers",
                                 "following", "auth">>]
UpdateProfile(u, pic, profile) == [changes |-> {u, pic}, deletes |-> <<profile, "auth">>]
DeletePicture(pic, profile) == [changes |-> {pic}, deletes |-> <<profile>>]
RegisterUser == [changes |-> {"users"}, deletes |-> <<"allUsers">>]
CreateNotification == [changes |-> {"notifs"}, deletes |-> <<"notifications", "unread">>]
MarkAllRead == [changes |-> {"notifs"}, deletes |-> <<"notifications", "unread">>]
FlushPostViews == [changes |-> {"views"}, deletes |-> <<>>]
Reconcile == [changes |-> {"votes", "comments", "commentLikes", "edge", "views"},
              deletes |-> <<>>]

Route ==
  [createPost |-> CreatePost, deletePost |-> DeletePost, updatePost |-> UpdatePost,
   vote |-> VoteOnPost, createComment |-> CreateComment,
   deleteComment |-> DeleteComment, updateComment |-> UpdateComment,
   likeComment |-> LikeAComment, follow |-> FollowUser, unfollow |-> UnfollowUser,
   removeFollower |-> RemoveFollower,
   updateAuthor |-> UpdateProfile("author", "authorPic", "authorProfile"),
   updateFollower |-> UpdateProfile("follower", "followerPic", "followerProfile"),
   authorPicture |-> DeletePicture("authorPic", "authorProfile"),
   followerPicture |-> DeletePicture("followerPic", "followerProfile"),
   register |-> RegisterUser, createNotification |-> CreateNotification,
   markAllRead |-> MarkAllRead, flushViews |-> FlushPostViews, reconcile |-> Reconcile]

Concerns(n, k) == Route[n].changes \cap Shown(k) # {}

-----------------------------------------------------------------------------
VARIABLES key,     \* the key followed
          entry,   \* what Redis holds under it: None, or [unseen, raced]
          rpc, at, \* of a reader, and the SELECT it comes to next
          unseen,  \* writes not committed when the reader read their facts
          raced,   \* history: of these, the ones deleted the key meanwhile
          route,   \* what a writer does
          wpc, pos \* of a writer, and the deletion it comes to next; past the
                   \* last one it answers

reading == <<rpc, at, unseen, raced>>
writing == <<route, wpc, pos>>
vars == <<key, entry, reading, writing>>

TypeOK ==
  /\ key \in Key
  /\ entry \in [unseen : SUBSET Writer, raced : SUBSET Writer] \cup {None}
  /\ rpc \in [Reader -> {"idle", "get", "fill"}]
  /\ at \in [Reader -> Nat]
  /\ \A r \in Reader : rpc[r] = "fill" => at[r] \in 1..(Len(Statements[key]) + 1)
  /\ unseen \in [Reader -> SUBSET Writer]
  /\ raced \in [Reader -> SUBSET Writer]
  /\ route \in [Writer -> DOMAIN Route]
  /\ wpc \in [Writer -> {"begun", "deleting", "refused", "dead"}]
  /\ pos \in [Writer -> Nat]

\* Writes to facts the followed body does not show are left out.
Init ==
  /\ key \in Key
  /\ entry = None
  /\ rpc = [r \in Reader |-> "idle"]
  /\ at = [r \in Reader |-> 0]
  /\ unseen = [r \in Reader |-> {}]
  /\ raced = [r \in Reader |-> {}]
  /\ route \in [Writer -> {n \in DOMAIN Route : Concerns(n, key)}]
  /\ wpc = [w \in Writer |-> "begun"]
  /\ pos = [w \in Writer |-> 0]

Deletes(w) == Route[route[w]].deletes

\* BUG variant: the keys are deleted first, the commit comes last.
CommittedLast(w) == pos[w] > Len(Deletes(w))

\* pos leaves 0 with the commit.
Committed(w) == pos[w] > 0
Gone == \E w \in Writer : Committed(w) /\ route[w] = "deletePost"

\* Writes to these facts that a SELECT running now does not see.
Missing(facts) ==
  {w \in Writer : ~Committed(w) /\ Route[route[w]].changes \cap facts # {}}

-----------------------------------------------------------------------------
Open(r) ==
  /\ rpc[r] = "idle"
  /\ rpc' = [rpc EXCEPT ![r] = "get"]
  /\ \E facts \in {{}, Own(key)} : unseen' = [unseen EXCEPT ![r] = Missing(facts)]
  /\ UNCHANGED <<key, entry, at, raced, writing>>

\* The reader is answered, or gone; what it had read is forgotten.
Leave(r) ==
  /\ rpc' = [rpc EXCEPT ![r] = "idle"]
  /\ at' = [at EXCEPT ![r] = 0]
  /\ unseen' = [unseen EXCEPT ![r] = {}]
  /\ raced' = [raced EXCEPT ![r] = {}]
  /\ UNCHANGED <<key, writing>>

Hit(r) ==
  /\ rpc[r] = "get"
  /\ entry # None
  /\ Leave(r)
  /\ UNCHANGED entry

\* BUG variant: the first SELECT is not set up.
MissResumes(r) ==
  /\ rpc[r] = "get"
  /\ rpc' = [rpc EXCEPT ![r] = "fill"]
  /\ UNCHANGED <<key, entry, at, unseen, raced, writing>>

\* No entry, an empty list, which "if cached:" takes for nothing, or no answer
\* from Redis.
Miss(r) ==
  /\ rpc[r] = "get"
  /\ rpc' = [rpc EXCEPT ![r] = "fill"]
  /\ at' = [at EXCEPT ![r] = 1]
  /\ UNCHANGED <<key, entry, unseen, raced, writing>>

\* Each SELECT sees what is committed when it runs.
Select(r) ==
  /\ rpc[r] = "fill"
  /\ at[r] \in DOMAIN Statements[key]
  /\ ~(key = "post" /\ at[r] = 1 /\ Gone)
  /\ unseen' = [unseen EXCEPT ![r] = @ \cup Missing(Statements[key][at[r]])]
  /\ at' = [at EXCEPT ![r] = @ + 1]
  /\ UNCHANGED <<key, entry, rpc, raced, writing>>

NotFound(r) ==
  /\ rpc[r] = "fill"
  /\ key = "post" /\ at[r] = 1 /\ Gone
  /\ Leave(r)
  /\ UNCHANGED entry

\* set_cache replaces whatever is there by now.
Store(r) ==
  /\ rpc[r] = "fill"
  /\ at[r] = Len(Statements[key]) + 1
  /\ entry' = [unseen |-> unseen[r], raced |-> raced[r]]
  /\ Leave(r)

\* The write to Redis fails, the worker dies or the client disconnects.
Abandon(r) ==
  /\ rpc[r] # "idle"
  /\ Leave(r)
  /\ UNCHANGED entry

\* BUG variant: SETEX without its TTL.
Never == entry # None /\ FALSE /\ UNCHANGED vars

\* The TTL of the entry, 20 to 120 seconds, ends.
Expire ==
  /\ entry # None
  /\ entry' = None
  /\ UNCHANGED <<key, reading, writing>>

-----------------------------------------------------------------------------
Commit(w) ==
  /\ wpc[w] = "begun"
  /\ ~(Gone /\ Route[route[w]].changes \cap OfPost # {})
  /\ wpc' = [wpc EXCEPT ![w] = "deleting"]
  /\ pos' = [pos EXCEPT ![w] = 1]
  /\ UNCHANGED <<key, entry, reading, route>>

\* The post is deleted already: 404.
Refuse(w) ==
  /\ wpc[w] = "begun"
  /\ Gone /\ Route[route[w]].changes \cap OfPost # {}
  /\ wpc' = [wpc EXCEPT ![w] = "refused"]
  /\ UNCHANGED <<key, entry, reading, route, pos>>

Deleting(w, k) ==
  /\ wpc[w] = "deleting"
  /\ pos[w] \in DOMAIN Deletes(w)
  /\ Deletes(w)[pos[w]] = k
  /\ pos' = [pos EXCEPT ![w] = @ + 1]
  /\ UNCHANGED <<key, rpc, at, unseen, route>>

\* delete_cache or delete_cache_pattern of the followed key.
DeleteKey(w) ==
  /\ Deleting(w, key)
  /\ entry' = None
  /\ raced' = [r \in Reader |-> raced[r] \cup ({w} \cap unseen[r])]
  /\ UNCHANGED wpc

\* A deletion or an INCR of another key.
DeleteOther(w) ==
  \E k \in {"homeVersion", "exploreVersion", "auth"} \cup (Key \ {key}) :
    /\ Deleting(w, k)
    /\ UNCHANGED <<entry, raced, wpc>>

(* The deletion of the followed key fails silently, or the worker dies, or *)
(* the route raises, with that deletion still ahead.                       *)
LoseDelete(w) ==
  /\ wpc[w] = "deleting"
  /\ \E i \in pos[w]..Len(Deletes(w)) : Deletes(w)[i] = key
  /\ wpc' = [wpc EXCEPT ![w] = "dead"]
  /\ UNCHANGED <<key, entry, reading, route, pos>>

Step(r) == Hit(r) \/ Miss(r) \/ Select(r) \/ NotFound(r) \/ Store(r)
Write(w) == Commit(w) \/ Refuse(w) \/ DeleteKey(w) \/ DeleteOther(w)

Next ==
  \/ \E r \in Reader : Open(r) \/ Step(r) \/ Abandon(r)
  \/ \E w \in Writer : Write(w) \/ LoseDelete(w)
  \/ Expire

Spec == Init /\ [][Next]_vars

\* A reader that is served goes on, and Redis expires keys.  Nothing makes a
\* client come back or a writer go on.
FairSpec == Spec /\ (\A r \in Reader : WF_vars(Step(r))) /\ WF_vars(Expire)

-----------------------------------------------------------------------------
(* What the routes leave to the TTL: writes that show in a body and delete *)
(* nothing of it.                                                          *)
LeftToTtl ==
  ({"createPost", "deletePost", "updatePost", "vote", "createComment",
    "deleteComment", "unfollow", "removeFollower", "updateAuthor",
    "authorPicture", "reconcile"} \X {"home"})
  \cup ({"createPost", "deletePost", "updatePost", "vote", "createComment",
         "deleteComment", "reconcile"} \X {"explore"})
  \cup ({"updatePost", "vote", "createComment", "deleteComment", "reconcile"}
         \X {"userPosts"})
  \cup ({"updateAuthor", "authorPicture", "flushViews", "reconcile"} \X {"post"})
  \cup ({"likeComment", "updateFollower", "followerPicture", "reconcile"}
         \X {"comments"})
  \cup ({"createPost", "deletePost", "reconcile"} \X {"authorProfile"})
  \cup ({"reconcile"} \X {"followerProfile"})
  \cup ({"updateFollower", "followerPicture", "reconcile"} \X {"followers"})
  \cup ({"updateAuthor", "authorPicture", "reconcile"} \X {"following"})
  \cup ({"updateAuthor", "updateFollower"} \X {"allUsers"})

Stale(w) == entry # None /\ Committed(w) /\ w \in entry.unseen

\* The deletion of the followed key is still to come, or will not come.
Pending(w) ==
  /\ wpc[w] \in {"deleting", "dead"}
  /\ \E i \in pos[w]..Len(Deletes(w)) : Deletes(w)[i] = key

\* An entry hides a committed write only if the write's route leaves that body
\* to its TTL, or has not come to the deletion, or lost it, or if the entry was
\* filled across the deletion.  So the order commit, then delete, is what a
\* route owes; an unexcused stale entry would mean a key forgotten, or deleted
\* too early.
StaleIsExcused ==
  \A w \in Writer :
    Stale(w) =>
      \/ <<route[w], key>> \in LeftToTtl
      \/ Pending(w)
      \/ w \in entry.raced

\* Whatever raced or got lost, every write shows in the end for good, although
\* readers come again and again, fill late and overwrite fresh entries.
EventuallyFresh == \A w \in Writer : <>[]~Stale(w)
=============================================================================
