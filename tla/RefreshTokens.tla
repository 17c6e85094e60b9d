---------------------------- MODULE RefreshTokens ----------------------------
(***************************************************************************)
(* Refresh-token rotation (app/services/token_service.py) as PostgreSQL at *)
(* READ COMMITTED executes it for concurrent requests on several workers.  *)
(*                                                                         *)
(* A request is one HTTP call that runs once: a login, a rotation          *)
(* (POST /auth/refresh-token), or a logout / password change (both end in  *)
(* revoke_all_user_tokens).  pc[r] is the await a request is suspended at; *)
(* between two awaits a request is atomic.  Row locks are explicit: SELECT *)
(* ... FOR UPDATE takes the lock of one row, UPDATE fixes the set of rows  *)
(* it will touch when the statement starts (rows inserted later are not in *)
(* it) and locks them one by one, commit or rollback releases them all.    *)
(***************************************************************************)
EXTENDS Naturals, FiniteSets

CONSTANTS Token,      \* token strings, each generated at most once
          Family,     \* family_id UUIDs
          User,
          Owner,      \* Owner[f]: the user whose login created family f
          Request,
          NoToken, NoRequest,
          Faults      \* TRUE: workers may crash and Redis calls may fail

ASSUME OwnerAssumption == Owner \in [Family -> User]
ASSUME NoTokenAssumption == NoToken \notin Token
ASSUME NoRequestAssumption == NoRequest \notin Request
ASSUME FaultsAssumption == Faults \in BOOLEAN

VARIABLES issued,     \* committed rows of refresh_tokens
          revoked,    \* rows whose revoked column is true
          expired,    \* rows whose expires_at has passed
          family,     \* family[t]: the family_id column
          lockedBy,   \* lockedBy[t]: the request whose transaction locks row t
          grace,      \* grace[t]: refresh token cached at rotation_grace:{t}
          pc,         \* pc[r]: where request r is
          token,      \* token[r]: the refresh token r presented
          snap,       \* snap[r]: the rows the UPDATE of r must revoke
          answer,     \* answer[r]: the refresh token r returns
          parent,     \* history: parent[t] is the token whose rotation made t
          handed,     \* history: tokens that reached a client
          overtaken   \* history: overtaken[r] are the families a rotation
                      \* committed in between the snapshot and the commit of r

vars == <<issued, revoked, expired, family, lockedBy, grace, pc, token, snap,
          answer, parent, handed, overtaken>>

Answered == {"ok", "invalid", "expired", "reuse", "loggedOut", "aborted"}
Waiting  == {"lock", "readGrace", "revokeFamily", "sweep", "expire", "rotate",
             "setGrace"}
PCs      == {"idle", "crashed"} \cup Answered \cup Waiting

Live(t) == t \in issued /\ t \notin revoked
FamilyRows(f) == {t \in issued : family[t] = f}
UserRows(u) == {t \in issued : Owner[family[t]] = u}

TypeOK ==
  /\ issued \subseteq Token
  /\ revoked \subseteq issued
  /\ expired \subseteq issued
  /\ family \in [Token -> Family]
  /\ lockedBy \in [Token -> Request \cup {NoRequest}]
  /\ grace \in [Token -> Token \cup {NoToken}]
  /\ pc \in [Request -> PCs]
  /\ token \in [Request -> Token \cup {NoToken}]
  /\ snap \in [Request -> SUBSET Token]
  /\ answer \in [Request -> Token \cup {NoToken}]
  /\ parent \in [Token -> Token \cup {NoToken}]
  /\ handed \subseteq Token
  /\ overtaken \in [Request -> SUBSET Family]

\* family[t] means nothing before t is issued.
Init ==
  /\ issued = {}
  /\ revoked = {}
  /\ expired = {}
  /\ family \in {[t \in Token |-> f] : f \in Family}
  /\ lockedBy = [t \in Token |-> NoRequest]
  /\ grace = [t \in Token |-> NoToken]
  /\ pc = [r \in Request |-> "idle"]
  /\ token = [r \in Request |-> NoToken]
  /\ snap = [r \in Request |-> {}]
  /\ answer = [r \in Request |-> NoToken]
  /\ parent = [t \in Token |-> NoToken]
  /\ handed = {}
  /\ overtaken = [r \in Request |-> {}]

Goto(r, l) == pc' = [pc EXCEPT ![r] = l]
\* Commit, rollback or close of the session of r: every row lock is released.
Release(r) ==
  lockedBy' = [t \in Token |-> IF lockedBy[t] = r THEN NoRequest ELSE lockedBy[t]]
\* A commit in family f overtakes the revocations that have their snapshot.
Overtake(f) ==
  overtaken' = [r \in Request |->
    IF pc[r] = "sweep" THEN overtaken[r] \cup {f} ELSE overtaken[r]]
Take(r, t) == lockedBy' = [lockedBy EXCEPT ![t] = r]

(* loginUser: create_refresh_token with a new family, and the commit. *)
Login(r, f, t) ==
  /\ pc[r] = "idle"
  /\ FamilyRows(f) = {}
  /\ t \notin issued
  /\ issued' = issued \cup {t}
  /\ family' = [family EXCEPT ![t] = f]
  /\ answer' = [answer EXCEPT ![r] = t]
  /\ handed' = handed \cup {t}
  /\ Goto(r, "ok")
  /\ UNCHANGED <<revoked, expired, lockedBy, grace, token, snap, parent,
                 overtaken>>

(* A client calls POST /auth/refresh-token with a token it was given, or   *)
(* with a string that no row holds.                                        *)
Present(r, t) ==
  /\ pc[r] = "idle"
  /\ t \in handed
  /\ token' = [token EXCEPT ![r] = t]
  /\ Goto(r, "lock")
  /\ UNCHANGED <<issued, revoked, expired, family, lockedBy, grace, snap,
                 answer, parent, handed, overtaken>>

PresentUnknown(r) ==
  /\ pc[r] = "idle"
  /\ Goto(r, "invalid")
  /\ UNCHANGED <<issued, revoked, expired, family, lockedBy, grace, token, snap,
                 answer, parent, handed, overtaken>>

\* BUG variant: a plain SELECT, without with_for_update().
LockTokenUnlocked(r) ==
  /\ pc[r] = "lock"
  /\ Goto(r, IF token[r] \in revoked THEN "readGrace"
             ELSE IF token[r] \in expired THEN "expire" ELSE "rotate")
  /\ UNCHANGED <<issued, revoked, expired, family, lockedBy, grace, token, snap,
                 answer, parent, handed, overtaken>>

(* SELECT ... FOR UPDATE of the presented row: waits for the lock, then    *)
(* reads the row as last committed and takes the branch its columns say.   *)
LockToken(r) ==
  /\ pc[r] = "lock"
  /\ lockedBy[token[r]] = NoRequest
  /\ Take(r, token[r])
  /\ Goto(r, IF token[r] \in revoked THEN "readGrace"
             ELSE IF token[r] \in expired THEN "expire" ELSE "rotate")
  /\ UNCHANGED <<issued, revoked, expired, family, grace, token, snap, answer,
                 parent, handed, overtaken>>

\* BUG variant: the early return leaves the transaction open.
GraceHitKeepsLock(r) ==
  /\ pc[r] = "readGrace"
  /\ grace[token[r]] # NoToken
  /\ answer' = [answer EXCEPT ![r] = grace[token[r]]]
  /\ handed' = handed \cup {grace[token[r]]}
  /\ Goto(r, "ok")
  /\ UNCHANGED <<issued, revoked, expired, family, lockedBy, grace, token, snap,
                 parent, overtaken>>

\* BUG variant: the cached value is used without a test for a missing key.
GraceHitUnchecked(r) ==
  /\ pc[r] = "readGrace"
  /\ answer' = [answer EXCEPT ![r] = grace[token[r]]]
  /\ handed' = handed \cup {grace[token[r]]}
  /\ Release(r)
  /\ Goto(r, "ok")
  /\ UNCHANGED <<issued, revoked, expired, family, grace, token, snap, parent,
                 overtaken>>

(* Already revoked, and Redis holds the successor: a retry, answered with  *)
(* the cached pair.                                                        *)
GraceHit(r) ==
  /\ pc[r] = "readGrace"
  /\ grace[token[r]] # NoToken
  /\ answer' = [answer EXCEPT ![r] = grace[token[r]]]
  /\ handed' = handed \cup {grace[token[r]]}
  /\ Release(r)
  /\ Goto(r, "ok")
  /\ UNCHANGED <<issued, revoked, expired, family, grace, token, snap, parent,
                 overtaken>>

(* Already revoked and no cached successor (or the Redis call raised and   *)
(* the exception was swallowed): treated as reuse.                         *)
GraceMiss(r) ==
  /\ pc[r] = "readGrace"
  /\ grace[token[r]] = NoToken \/ Faults
  /\ Goto(r, "revokeFamily")
  /\ UNCHANGED <<issued, revoked, expired, family, lockedBy, grace, token, snap,
                 answer, parent, handed, overtaken>>

(* revoke_family: the UPDATE statement starts and sees the family's rows.  *)
StartRevokeFamily(r) ==
  /\ pc[r] = "revokeFamily"
  /\ snap' = [snap EXCEPT ![r] = FamilyRows(family[token[r]])]
  /\ Goto(r, "sweep")
  /\ UNCHANGED <<issued, revoked, expired, family, lockedBy, grace, token,
                 answer, parent, handed, overtaken>>

(* revoke_all_user_tokens: the UPDATE statement starts.                    *)
StartRevokeAll(r, u) ==
  /\ pc[r] = "idle"
  /\ snap' = [snap EXCEPT ![r] = UserRows(u)]
  /\ Goto(r, "sweep")
  /\ UNCHANGED <<issued, revoked, expired, family, lockedBy, grace, token,
                 answer, parent, handed, overtaken>>

\* The UPDATE locks one more row.  The order is the plan's, so any.
SweepLock(r, t) ==
  /\ pc[r] = "sweep"
  /\ t \in snap[r]
  /\ lockedBy[t] = NoRequest
  /\ Take(r, t)
  /\ UNCHANGED <<issued, revoked, expired, family, grace, pc, token, snap,
                 answer, parent, handed, overtaken>>

\* BUG variant: rows another transaction holds are skipped (SKIP LOCKED).
SweepCommitSkipLocked(r) ==
  /\ pc[r] = "sweep"
  /\ \A t \in snap[r] : lockedBy[t] # NoRequest
  /\ revoked' = revoked \cup {t \in snap[r] : lockedBy[t] = r}
  /\ Release(r)
  /\ Goto(r, IF token[r] = NoToken THEN "loggedOut" ELSE "reuse")
  /\ UNCHANGED <<issued, expired, family, grace, token, snap, answer, parent,
                 handed, overtaken>>

\* Every row of the UPDATE is locked: revoked = true, commit, answer.
SweepCommit(r) ==
  /\ pc[r] = "sweep"
  /\ \A t \in snap[r] : lockedBy[t] = r
  /\ revoked' = revoked \cup snap[r]
  /\ Release(r)
  /\ Goto(r, IF token[r] = NoToken THEN "loggedOut" ELSE "reuse")
  /\ UNCHANGED <<issued, expired, family, grace, token, snap, answer, parent,
                 handed, overtaken>>

(* The presented token is live but past expires_at: revoke it, 401.        *)
ExpireCommit(r) ==
  /\ pc[r] = "expire"
  /\ revoked' = revoked \cup {token[r]}
  /\ Release(r)
  /\ Goto(r, "expired")
  /\ UNCHANGED <<issued, expired, family, grace, token, snap, answer, parent,
                 handed, overtaken>>

\* BUG variant: the successor may get a family_id of its own.
RotateCommitNewFamily(r, t) ==
  /\ pc[r] = "rotate"
  /\ t \notin issued
  /\ issued' = issued \cup {t}
  /\ revoked' = revoked \cup {token[r]}
  /\ \E f \in {family[token[r]]} \cup {g \in Family : FamilyRows(g) = {}} :
       family' = [family EXCEPT ![t] = f]
  /\ parent' = [parent EXCEPT ![t] = token[r]]
  /\ answer' = [answer EXCEPT ![r] = t]
  /\ Release(r)
  /\ Overtake(family[token[r]])
  /\ Goto(r, "setGrace")
  /\ UNCHANGED <<expired, grace, token, snap, handed>>

(* Rotation: revoke the old row and insert the successor in one commit.    *)
RotateCommit(r, t) ==
  /\ pc[r] = "rotate"
  /\ t \notin issued
  /\ issued' = issued \cup {t}
  /\ revoked' = revoked \cup {token[r]}
  /\ family' = [family EXCEPT ![t] = family[token[r]]]
  /\ parent' = [parent EXCEPT ![t] = token[r]]
  /\ answer' = [answer EXCEPT ![r] = t]
  /\ Release(r)
  /\ Overtake(family[token[r]])
  /\ Goto(r, "setGrace")
  /\ UNCHANGED <<expired, grace, token, snap, handed>>

\* BUG variant: the presented token is cached, not its successor.
SetGracePresented(r) ==
  /\ pc[r] = "setGrace"
  /\ \/ grace' = [grace EXCEPT ![token[r]] = token[r]]
     \/ Faults /\ grace' = grace
  /\ handed' = handed \cup {answer[r]}
  /\ Goto(r, "ok")
  /\ UNCHANGED <<issued, revoked, expired, family, lockedBy, token, snap,
                 answer, parent, overtaken>>

(* After the commit: publish the successor in Redis for 60 seconds, or     *)
(* swallow the failure; answer the client either way.                      *)
SetGrace(r) ==
  /\ pc[r] = "setGrace"
  /\ \/ grace' = [grace EXCEPT ![token[r]] = answer[r]]
     \/ Faults /\ grace' = grace
  /\ handed' = handed \cup {answer[r]}
  /\ Goto(r, "ok")
  /\ UNCHANGED <<issued, revoked, expired, family, lockedBy, token, snap,
                 answer, parent, overtaken>>

\* Sixty seconds after the grace key of t was set.
GraceExpires(t) ==
  /\ grace[t] # NoToken
  /\ grace' = [grace EXCEPT ![t] = NoToken]
  /\ UNCHANGED <<issued, revoked, expired, family, lockedBy, pc, token, snap,
                 answer, parent, handed, overtaken>>

TokenExpires(t) ==
  /\ Live(t)
  /\ t \notin expired
  /\ expired' = expired \cup {t}
  /\ UNCHANGED <<issued, revoked, family, lockedBy, grace, pc, token, snap,
                 answer, parent, handed, overtaken>>

\* The rows r waits for, and the transactions that hold them.
Wanted(r) ==
  CASE pc[r] = "lock"  -> {token[r]}
    [] pc[r] = "sweep" -> snap[r]
    [] OTHER           -> {}
WaitsFor(r) == {lockedBy[t] : t \in Wanted(r)} \ {NoRequest, r}

\* r waits for itself: r is in every set closed under WaitsFor that holds
\* the transactions r waits for.
InDeadlock(r) ==
  \A C \in SUBSET Request :
    (\A q \in C \cup {r} : WaitsFor(q) \subseteq C) => r \in C

(* PostgreSQL finds a cycle of waiting transactions and aborts one of them *)
(* (SQLSTATE 40P01).  token_service has no retry: the request fails.       *)
DeadlockAbort(r) ==
  /\ pc[r] = "sweep"
  /\ InDeadlock(r)
  /\ Release(r)
  /\ Goto(r, "aborted")
  /\ UNCHANGED <<issued, revoked, expired, family, grace, token, snap, answer,
                 parent, handed, overtaken>>

\* A worker dies; the server rolls its open transaction back.
Crash(r) ==
  /\ Faults
  /\ pc[r] \in Waiting
  /\ Release(r)
  /\ Goto(r, "crashed")
  /\ UNCHANGED <<issued, revoked, expired, family, grace, token, snap, answer,
                 parent, handed, overtaken>>

Step(r) ==
  \/ LockToken(r)
  \/ GraceHit(r)
  \/ GraceMiss(r)
  \/ StartRevokeFamily(r)
  \/ \E t \in Token : SweepLock(r, t)
  \/ SweepCommit(r)
  \/ ExpireCommit(r)
  \/ \E t \in Token : RotateCommit(r, t)
  \/ SetGrace(r)
  \/ DeadlockAbort(r)

Next ==
  \/ \E r \in Request :
       \/ \E f \in Family, t \in Token : Login(r, f, t)
       \/ \E t \in Token : Present(r, t)
       \/ PresentUnknown(r)
       \/ \E u \in User : StartRevokeAll(r, u)
       \/ Step(r)
       \/ Crash(r)
  \/ \E t \in Token : GraceExpires(t) \/ TokenExpires(t)

Spec == Init /\ [][Next]_vars

\* A request that has started is driven by the event loop until it answers.
FairSpec == Spec /\ \A r \in Request : WF_vars(Step(r))

-----------------------------------------------------------------------------
(* Safety. *)

\* A login session never has two usable refresh tokens, whatever requests
\* race: what the row lock and the single commit of rotate_refresh_token buy.
OneLivePerFamily ==
  \A s, t \in issued : Live(s) /\ Live(t) /\ family[s] = family[t] => s = t

\* Two clients that present the same token and are both answered with a pair
\* get the same refresh token: one did the rotation, the other was served
\* from the grace window.
SameSuccessor ==
  \A q, r \in Request :
    /\ pc[q] = "ok" /\ pc[r] = "ok"
    /\ token[q] = token[r] /\ token[r] # NoToken
    => answer[q] = answer[r]

\* What revoke_family and revoke_all_user_tokens do promise: once the reuse or
\* the logout is answered, its sessions never have a usable token again, also if
\* rotations, retries and other sweeps of them are under way, unless a rotation
\* committed between the snapshot of the UPDATE and the UPDATE's own commit.
FinalUnlessOvertaken ==
  \A r \in Request :
    pc[r] \in {"reuse", "loggedOut"} =>
      \A s \in snap[r], t \in issued :
        family[t] = family[s] /\ family[s] \notin overtaken[r] => ~Live(t)

-----------------------------------------------------------------------------
(* Liveness. *)

\* Every request that starts is answered (or its worker dies), although
\* requests wait for each other's row locks and can wait in a cycle.
EveryRequestEnds ==
  \A r \in Request : (pc[r] \in Waiting) ~> (pc[r] \in Answered \cup {"crashed"})

-----------------------------------------------------------------------------
(* What the comments say and the code does not guarantee. *)

\* revoke_family marks "ALL tokens in family_id as revoked", and logout revokes
\* "every refresh token belonging to the user so they must log in again on all
\* devices": a session that was there when the revocation began is over.
RevocationEndsSessions ==
  \A r \in Request :
    pc[r] \in {"reuse", "loggedOut"} =>
      \A s \in snap[r], t \in issued : family[t] = family[s] => ~Live(t)

-----------------------------------------------------------------------------
(* Refinement: each login session is a chain of tokens. *)

Chain == INSTANCE SessionChain WITH
  current <- [f \in Family |-> {t \in FamilyRows(f) : t \notin revoked}],
  used    <- issued,
  begun   <- {f \in Family : FamilyRows(f) # {}}
ChainSpec == Chain!Spec
=============================================================================
