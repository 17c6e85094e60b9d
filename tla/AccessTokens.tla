------------------------------ MODULE AccessTokens ------------------------------
(***************************************************************************)
(* Access tokens (app/oauth2.py, login and logout in app/routes/auth.py):  *)
(* a signed token with its expiry in whole seconds, a Redis entry with its *)
(* user that spares later requests the check of the token, and a blacklist *)
(* entry that a logout leaves.  Expiry is computed from the host's clock,  *)
(* in ticks; a Redis command runs some time after its TTL was computed,    *)
(* and a failed one is swallowed (redis_service.py).                       *)
(***************************************************************************)
EXTENDS Integers

CONSTANTS Token, Request, NoValue,
          Second,     \* ticks in a second
          Life,       \* access_token_expire_time, in seconds
          MaxTime,    \* bound on the clock
          MaxFaults   \* bound on Redis failures and crashes

ASSUME ClockAssumption == /\ {Second, Life} \subseteq Nat \ {0}
                          /\ {MaxTime, MaxFaults} \subseteq Nat
                          /\ Second - 1 <= MaxTime

Cached == [until : Nat, lag : Nat]
Acceptance == [at : Nat, lag : Nat]

ASSUME NoValueAssumption == NoValue \notin Token \cup Int \cup Cached \cup Acceptance

VARIABLES now,
          exp,       \* expTime of an issued token, else NoValue
          held,      \* tokens a client was given
          auth,      \* auth:user:<token>: NoValue or [until, lag]
          black,     \* blacklist:<token>: NoValue or the tick it expires at
          pc, tok,
          op,        \* what a request goes on to do once it is authenticated
          ttl, from, \* the TTL of the command to come, and when it was computed
          faults,
          out,       \* history: tokens whose logout was answered and not lost
          after,     \* history: requests that began with their token in out
          asked,     \* history: a request's latest answer on the blacklist
          accepted   \* history: when a request was accepted, and by what margin

redis == <<auth, black>>
history == <<out, after, asked, accepted>>
authVars == <<now, exp, held, redis, pc, tok, op, ttl, from, faults, history>>

Time == 0..MaxTime
Op == {"read", "change", "logout", "login", "refresh"}

AuthTypeOK ==
  /\ now \in Time
  /\ exp \in [Token -> Int \cup {NoValue}]
  /\ held \subseteq {t \in Token : exp[t] # NoValue}
  /\ auth \in [Token -> Cached \cup {NoValue}]
  /\ black \in [Token -> Nat \cup {NoValue}]
  /\ pc \in [Request -> {"idle", "mget", "exists", "decode", "select", "store",
                         "issued", "dropping", "leaving", "redecode",
                         "revoke", "done", "refused", "dead"}]
  /\ tok \in [Request -> Token \cup {NoValue}]
  /\ op \in [Request -> Op]
  /\ ttl \in [Request -> 0..Life]
  /\ from \in [Request -> Time]
  /\ faults \in 0..MaxFaults
  /\ out \subseteq held
  /\ after \subseteq Request
  /\ asked \in [Request -> Time \cup {NoValue}]
  /\ accepted \in [Request -> Acceptance \cup {NoValue}]

AuthInit ==
  /\ now \in 0..(Second - 1)
  /\ exp = [t \in Token |-> NoValue]
  /\ held = {}
  /\ auth = [t \in Token |-> NoValue]
  /\ black = [t \in Token |-> NoValue]
  /\ pc = [r \in Request |-> "idle"]
  /\ tok = [r \in Request |-> NoValue]
  /\ op = [r \in Request |-> "read"]
  /\ ttl = [r \in Request |-> 0]
  /\ from = [r \in Request |-> 0]
  /\ faults = 0
  /\ out = {}
  /\ after = {}
  /\ asked = [r \in Request |-> NoValue]
  /\ accepted = [r \in Request |-> NoValue]

\* int(): the whole seconds in a number of ticks, not negative.
Seconds(d) == d \div Second
MaxOf(a, b) == IF a < b THEN b ELSE a

Goto(r, l) == pc' = [pc EXCEPT ![r] = l]
Fail == faults < MaxFaults /\ faults' = faults + 1

\* The pending SETEX is over.
Forget(r) == ttl' = [ttl EXCEPT ![r] = 0] /\ from' = [from EXCEPT ![r] = 0]

\* Time passes; Redis drops what has expired.
Tick ==
  /\ now < MaxTime
  /\ now' = now + 1
  /\ auth' = [t \in Token |->
       IF auth[t] # NoValue /\ auth[t].until <= now + 1 THEN NoValue ELSE auth[t]]
  /\ black' = [t \in Token |->
       IF black[t] # NoValue /\ black[t] <= now + 1 THEN NoValue ELSE black[t]]
  /\ UNCHANGED <<exp, held, pc, tok, op, ttl, from, faults, history>>

-----------------------------------------------------------------------------
(* A login, or a rotation of a refresh token, signs a token whose expiry   *)
(* is cut to a whole second.                                               *)
CreateAccessToken(r, t, o) ==
  /\ pc[r] = "idle"
  /\ exp[t] = NoValue
  /\ exp' = [exp EXCEPT ![t] = Seconds(now + Life * Second) * Second]
  /\ tok' = [tok EXCEPT ![r] = t]
  /\ op' = [op EXCEPT ![r] = o]
  /\ IF o = "login"
       THEN ttl' = [ttl EXCEPT ![r] = Life] /\ from' = [from EXCEPT ![r] = now]
       ELSE UNCHANGED <<ttl, from>>
  /\ Goto(r, IF o = "login" THEN "store" ELSE "issued")
  /\ UNCHANGED <<now, held, redis, faults, history>>

\* Behind the commit of the refresh token the client gets the pair; the request
\* left nothing else, so its place is free again.
Issue(r) ==
  /\ pc[r] = "issued"
  /\ held' = held \cup {tok[r]}
  /\ Goto(r, "idle")
  /\ tok' = [tok EXCEPT ![r] = NoValue]
  /\ op' = [op EXCEPT ![r] = "read"]
  /\ UNCHANGED <<now, exp, redis, ttl, from, faults, history>>

-----------------------------------------------------------------------------
(* getCurrentUser, for a route that reads, or one that deletes the cached  *)
(* user behind its change (profile, password, follows); a logout decodes   *)
(* the token itself.                                                       *)
Begin(r, t, o) ==
  /\ pc[r] = "idle"
  /\ t \in held
  /\ tok' = [tok EXCEPT ![r] = t]
  /\ op' = [op EXCEPT ![r] = o]
  /\ after' = IF t \in out THEN after \cup {r} ELSE after
  /\ Goto(r, IF o = "logout" THEN "decode" ELSE "mget")
  /\ UNCHANGED <<now, exp, held, redis, ttl, from, faults, out, asked, accepted>>

(* A route that changes the user or the password deletes, at its end, the  *)
(* cached user of the token it was called with.                            *)
Served(r) == IF op[r] = "change" THEN "dropping" ELSE "done"
Stored(r) == IF op[r] = "login" THEN "issued" ELSE Served(r)

Asks(r) == asked' = [asked EXCEPT ![r] = IF r \in after THEN now ELSE NoValue]
Accept(r, lag) == accepted' = [accepted EXCEPT ![r] = [at |-> now, lag |-> lag]]

\* BUG variant: the cached user is looked at first.
CachedFirst(r) ==
  /\ pc[r] = "mget"
  /\ IF auth[tok[r]] # NoValue
       THEN Goto(r, Served(r)) /\ Asks(r) /\ Accept(r, auth[tok[r]].lag)
     ELSE IF black[tok[r]] # NoValue
       THEN Goto(r, "refused") /\ UNCHANGED <<asked, accepted>>
     ELSE Goto(r, "exists") /\ Asks(r) /\ UNCHANGED accepted
  /\ UNCHANGED <<now, exp, held, redis, tok, op, ttl, from, faults, out, after>>

\* One MGET of the blacklist entry and the cached user.
GetAuthCacheAndBlacklist(r) ==
  /\ pc[r] = "mget"
  /\ IF black[tok[r]] # NoValue
       THEN Goto(r, "refused") /\ UNCHANGED <<asked, accepted>>
     ELSE IF auth[tok[r]] # NoValue
       THEN Goto(r, Served(r)) /\ Asks(r) /\ Accept(r, auth[tok[r]].lag)
     ELSE Goto(r, "exists") /\ Asks(r) /\ UNCHANGED accepted
  /\ UNCHANGED <<now, exp, held, redis, tok, op, ttl, from, faults, out, after>>

\* It fails, and is taken for two absent keys.
MgetFails(r) ==
  /\ pc[r] = "mget"
  /\ Fail
  /\ Goto(r, "exists")
  /\ UNCHANGED <<now, exp, held, redis, tok, op, ttl, from, history>>

IsBlacklisted(r) ==
  /\ pc[r] = "exists"
  /\ IF black[tok[r]] # NoValue
       THEN Goto(r, "refused") /\ UNCHANGED asked
       ELSE Goto(r, "decode") /\ Asks(r)
  /\ UNCHANGED <<now, exp, held, redis, tok, op, ttl, from, faults, out, after, accepted>>

\* Fail open: no answer means not blacklisted.
ExistsFails(r) ==
  /\ pc[r] = "exists"
  /\ Fail
  /\ Goto(r, "decode")
  /\ UNCHANGED <<now, exp, held, redis, tok, op, ttl, from, history>>

\* expTime itself still counts as valid.
Expired(t) == exp[t] < now

DecodeToken(r) ==
  /\ pc[r] = "decode"
  /\ IF Expired(tok[r]) THEN Goto(r, "refused") /\ UNCHANGED accepted
     ELSE IF op[r] = "logout" THEN Goto(r, "leaving") /\ UNCHANGED accepted
     ELSE Goto(r, "select") /\ Accept(r, 0)
  /\ UNCHANGED <<now, exp, held, redis, tok, op, ttl, from, faults, out, after, asked>>

\* BUG variant: the TTL of a login, whatever is left of the token.
FullTtl(r) ==
  /\ pc[r] = "select"
  /\ ttl' = [ttl EXCEPT ![r] = Life]
  /\ from' = [from EXCEPT ![r] = now]
  /\ Goto(r, "store")
  /\ UNCHANGED <<now, exp, held, redis, tok, op, faults, history>>

\* BUG variant: what is left of the token is not cut off at 0.
NegativeTtl(r) ==
  /\ pc[r] = "select"
  /\ ttl' = [ttl EXCEPT ![r] = Seconds(exp[tok[r]] - now)]
  /\ from' = [from EXCEPT ![r] = now]
  /\ Goto(r, "store")
  /\ UNCHANGED <<now, exp, held, redis, tok, op, faults, history>>

(* The SELECT of the user, who exists: users are never deleted; then the   *)
(* TTL is computed.                                                        *)
SelectUser(r) ==
  /\ pc[r] = "select"
  /\ ttl' = [ttl EXCEPT ![r] = MaxOf(0, Seconds(exp[tok[r]] - now))]
  /\ from' = [from EXCEPT ![r] = now]
  /\ Goto(r, "store")
  /\ UNCHANGED <<now, exp, held, redis, tok, op, faults, history>>

(* SETEX of the user; Redis rejects a TTL of 0.  A failure is swallowed.   *)
SetCache(r) ==
  /\ pc[r] = "store"
  /\ auth' = IF ttl[r] = 0 THEN auth
             ELSE [auth EXCEPT ![tok[r]] =
                    [until |-> now + ttl[r] * Second, lag |-> now - from[r]]]
  /\ Goto(r, Stored(r))
  /\ Forget(r)
  /\ UNCHANGED <<now, exp, held, black, tok, op, faults, history>>

SetCacheFails(r) ==
  /\ pc[r] = "store"
  /\ Fail
  /\ Goto(r, Stored(r))
  /\ Forget(r)
  /\ UNCHANGED <<now, exp, held, redis, tok, op, history>>

-----------------------------------------------------------------------------
DeleteCache(r) ==
  /\ pc[r] \in {"dropping", "leaving"}
  /\ auth' = [auth EXCEPT ![tok[r]] = NoValue]
  /\ Goto(r, IF op[r] = "logout" THEN "redecode" ELSE "done")
  /\ UNCHANGED <<now, exp, held, black, tok, op, ttl, from, faults, history>>

DeleteCacheFails(r) ==
  /\ pc[r] \in {"dropping", "leaving"}
  /\ Fail
  /\ Goto(r, IF op[r] = "logout" THEN "redecode" ELSE "done")
  /\ UNCHANGED <<now, exp, held, redis, tok, op, ttl, from, history>>

\* A logout decodes the token again, and computes how long to blacklist it.
DecodeAgain(r) ==
  /\ pc[r] = "redecode"
  /\ IF Expired(tok[r])
       THEN Goto(r, "refused") /\ UNCHANGED <<ttl, from>>
       ELSE /\ ttl' = [ttl EXCEPT ![r] = MaxOf(0, Seconds(exp[tok[r]] - now))]
            /\ from' = [from EXCEPT ![r] = now]
            /\ Goto(r, "revoke")
  /\ UNCHANGED <<now, exp, held, redis, tok, op, faults, history>>

\* SETEX of the blacklist entry, the refresh tokens are revoked, the answer.
AddToBlacklist(r) ==
  /\ pc[r] = "revoke"
  /\ black' = IF ttl[r] = 0 THEN black
              ELSE [black EXCEPT ![tok[r]] = now + ttl[r] * Second]
  /\ out' = out \cup {tok[r]}
  /\ Goto(r, "done")
  /\ Forget(r)
  /\ UNCHANGED <<now, exp, held, auth, tok, op, faults, after, asked, accepted>>

\* The logout succeeds all the same.
AddToBlacklistFails(r) ==
  /\ pc[r] = "revoke"
  /\ Fail
  /\ Goto(r, "done")
  /\ Forget(r)
  /\ UNCHANGED <<now, exp, held, redis, tok, op, history>>

Crash(r) ==
  /\ pc[r] \notin {"idle", "done", "refused", "dead"}
  /\ Fail
  /\ Goto(r, "dead")
  /\ Forget(r)
  /\ UNCHANGED <<now, exp, held, redis, tok, op, history>>

Start(r) ==
  \E t \in Token :
    \/ \E o \in {"login", "refresh"} : CreateAccessToken(r, t, o)
    \/ \E o \in {"read", "change", "logout"} : Begin(r, t, o)

AuthStep(r) ==
  \/ Issue(r) \/ GetAuthCacheAndBlacklist(r) \/ IsBlacklisted(r) \/ DecodeToken(r)
  \/ SelectUser(r) \/ SetCache(r) \/ DeleteCache(r) \/ DecodeAgain(r)
  \/ AddToBlacklist(r)

Fault(r) ==
  \/ MgetFails(r) \/ ExistsFails(r) \/ SetCacheFails(r) \/ DeleteCacheFails(r)
  \/ AddToBlacklistFails(r) \/ Crash(r)

AuthNext == Tick \/ \E r \in Request : Start(r) \/ AuthStep(r) \/ Fault(r)

AuthSpec == AuthInit /\ [][AuthNext]_authVars

-----------------------------------------------------------------------------
\* A request that begins after the answer of a logout that Redis obeyed is refused,
\* whatever requests were in flight then, cached the user again or ran behind:
\* it can get past only if Redis answered it nothing on the blacklist, or answered
\* in the last second before the token expires, which int() cuts off.
LoggedOutIsRefused ==
  \A r \in after :
    accepted[r] # NoValue =>
      asked[r] = NoValue \/ asked[r] > exp[tok[r]] - Second

\* A token is accepted past its expiry by less than a second and the time that
\* went by between the computation of a TTL and the SETEX it was for, although a
\* cached user is not checked against expTime, and is cached again and again.
AcceptedInTime ==
  \A r \in Request :
    accepted[r] # NoValue =>
      accepted[r].at < exp[tok[r]] + accepted[r].lag + Second
=============================================================================
