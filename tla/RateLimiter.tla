----------------------------- MODULE RateLimiter -----------------------------
(***************************************************************************)
(* The token bucket of app/services/rate_limit_service.py for one key: a   *)
(* Redis hash, read under WATCH and written in MULTI/EXEC by requests that *)
(* took their timestamp before they first read it.                         *)
(*                                                                         *)
(* Tokens are scaled to integers: a call costs Window, the bucket holds    *)
(* MaxCalls * Window and gains MaxCalls per tick, so a tick is the unit in *)
(* which Window is given.                                                  *)
(***************************************************************************)
EXTENDS Requests, Integers

CONSTANTS MaxCalls, Window,
          RedisFails,  \* TRUE: Redis calls may fail
          MaxClock     \* bound of the clock

ASSUME MaxCallsAssumption == MaxCalls \in Nat
ASSUME WindowAssumption == Window \in Nat \ {0}
ASSUME RedisFailsAssumption == RedisFails \in BOOLEAN

Full == MaxCalls * Window
Hash == [tokens : 0..Full, ts : Nat]

ASSUME NoHashAssumption == None \notin Hash

VARIABLES clock,
          bucket,     \* the hash at the key, or None
          expiry,     \* when the key expires
          checkPc,
          now,        \* now[r]: now_ms of request r
          seen,       \* seen[r]: the hash r read
          dirty,      \* requests whose WATCHed key has changed
          admitted,   \* history: calls the bucket allowed
          lastTs,     \* history: the ts last written
          slip        \* history: time refilled twice because ts went back

bucketVars == <<clock, bucket, expiry, checkPc, now, seen, dirty, admitted, lastTs, slip>>

Checked == {"allowed", "denied", "unchecked"}

BucketTypeOK ==
  /\ clock \in Nat
  /\ bucket \in Hash \cup {None}
  /\ expiry \in Nat
  /\ checkPc \in [Request -> {"idle", "read", "exec"} \cup Checked]
  /\ now \in [Request -> Nat]
  /\ seen \in [Request -> Hash \cup {None}]
  /\ dirty \subseteq Request
  /\ admitted \in Nat
  /\ lastTs \in Int
  /\ slip \in Nat

BucketInit ==
  /\ clock = 0
  /\ bucket = None
  /\ expiry = 0
  /\ checkPc = [r \in Request |-> "idle"]
  /\ now = [r \in Request |-> 0]
  /\ seen = [r \in Request |-> None]
  /\ dirty = {}
  /\ admitted = 0
  /\ lastTs = -Window
  /\ slip = 0

CheckGoto(r, l) == checkPc' = [checkPc EXCEPT ![r] = l]
\* The locals of a request that ends are gone.
Forget(r) == now' = [now EXCEPT ![r] = 0] /\ seen' = [seen EXCEPT ![r] = None]
AtMost(x, y) == IF x <= y THEN x ELSE y
AtLeast(x, y) == IF x >= y THEN x ELSE y

(* A key that is due is gone before time goes on.                          *)
Tick ==
  /\ clock < MaxClock
  /\ bucket # None => clock < expiry
  /\ clock' = clock + 1
  /\ UNCHANGED <<bucket, expiry, checkPc, now, seen, dirty, admitted, lastTs, slip>>

BucketExpire ==
  /\ bucket # None
  /\ clock >= expiry
  /\ bucket' = None
  /\ dirty' = {r \in Request : checkPc[r] = "exec"}
  /\ UNCHANGED <<clock, expiry, checkPc, now, seen, admitted, lastTs, slip>>

(* now_ms is taken once; max_calls <= 0 denies at once.                    *)
CheckArrive(r) ==
  /\ checkPc[r] = "idle"
  /\ now' = [now EXCEPT ![r] = clock]
  /\ CheckGoto(r, IF MaxCalls = 0 THEN "denied" ELSE "read")
  /\ UNCHANGED <<clock, bucket, expiry, seen, dirty, admitted, lastTs, slip>>

\* BUG variant: the retry does not watch the key anew.
ReadWithoutWatch(r) ==
  /\ checkPc[r] = "read"
  /\ seen' = [seen EXCEPT ![r] = bucket]
  /\ CheckGoto(r, "exec")
  /\ UNCHANGED <<clock, bucket, expiry, now, dirty, admitted, lastTs, slip>>

\* WATCH and HMGET.
Read(r) ==
  /\ checkPc[r] = "read"
  /\ seen' = [seen EXCEPT ![r] = bucket]
  /\ dirty' = dirty \ {r}
  /\ CheckGoto(r, "exec")
  /\ UNCHANGED <<clock, bucket, expiry, now, admitted, lastTs, slip>>

\* BUG variant: the refill is not capped.
RefilledUncapped(r) ==
  IF seen[r] = None THEN Full
  ELSE seen[r].tokens + MaxCalls * AtLeast(0, now[r] - seen[r].ts)

\* The tokens request r finds: a missing hash is a full bucket, a clock that
\* went backwards refills nothing.
Refilled(r) ==
  IF seen[r] = None THEN Full
  ELSE AtMost(Full, seen[r].tokens + MaxCalls * AtLeast(0, now[r] - seen[r].ts))

\* BUG variant: no WATCH, so a concurrent write is overwritten.
ExecBlind(r) ==
  /\ checkPc[r] = "exec"
  /\ LET allowed == Refilled(r) >= Window
         left == IF allowed THEN Refilled(r) - Window ELSE Refilled(r)
     IN  /\ bucket' = [tokens |-> left, ts |-> now[r]]
         /\ admitted' = IF allowed THEN admitted + 1 ELSE admitted
         /\ CheckGoto(r, IF allowed THEN "allowed" ELSE "denied")
  /\ expiry' = clock + 2 * Window
  /\ dirty' = dirty \cup {q \in Request \ {r} : checkPc[q] = "exec"}
  /\ lastTs' = now[r]
  /\ slip' = slip + AtLeast(0, (IF bucket = None THEN lastTs + Window ELSE lastTs) - now[r])
  /\ Forget(r)
  /\ UNCHANGED clock

(* EXEC succeeds: the key is as it was read.  The refilled bucket, less a  *)
(* call when there is one, is written with the timestamp of the request,   *)
(* whatever timestamp was there.                                           *)
Exec(r) ==
  /\ checkPc[r] = "exec"
  /\ r \notin dirty
  /\ LET allowed == Refilled(r) >= Window
         left == IF allowed THEN Refilled(r) - Window ELSE Refilled(r)
     IN  /\ bucket' = [tokens |-> left, ts |-> now[r]]
         /\ admitted' = IF allowed THEN admitted + 1 ELSE admitted
         /\ CheckGoto(r, IF allowed THEN "allowed" ELSE "denied")
  /\ expiry' = clock + 2 * Window
  /\ dirty' = dirty \cup {q \in Request \ {r} : checkPc[q] = "exec"}
  /\ lastTs' = now[r]
  /\ slip' = slip + AtLeast(0, (IF bucket = None THEN lastTs + Window ELSE lastTs) - now[r])
  /\ Forget(r)
  /\ UNCHANGED clock

(* EXEC fails with WatchError: read again.                                 *)
Conflict(r) ==
  /\ checkPc[r] = "exec"
  /\ r \in dirty
  /\ CheckGoto(r, "read")
  /\ seen' = [seen EXCEPT ![r] = None]
  /\ UNCHANGED <<clock, bucket, expiry, now, dirty, admitted, lastTs, slip>>

(* Any other Redis error: _check lets the request through.                 *)
Unreachable(r) ==
  /\ RedisFails
  /\ checkPc[r] \in {"read", "exec"}
  /\ CheckGoto(r, "unchecked")
  /\ Forget(r)
  /\ dirty' = dirty \ {r}
  /\ UNCHANGED <<clock, bucket, expiry, admitted, lastTs, slip>>

CheckStep(r) == Read(r) \/ Exec(r) \/ Conflict(r)

BucketNext ==
  \/ Tick
  \/ BucketExpire
  \/ \E r \in Request : CheckArrive(r) \/ CheckStep(r) \/ Unreachable(r)

BucketSpec == BucketInit /\ [][BucketNext]_bucketVars
BucketFairSpec == BucketSpec /\ \A r \in Request : WF_bucketVars(CheckStep(r))

-----------------------------------------------------------------------------
\* However requests race and whenever the key expires, the calls admitted are
\* paid for by a full bucket, the time that passed, and the time that was
\* refilled twice because a slower request put an older timestamp back.
Budget == admitted * Window <= MaxCalls * (clock + Window + slip)

\* Requests that conflict read again, and every one gets its answer.
EveryCheckEnds ==
  \A r \in Request : checkPc[r] \in {"read", "exec"} ~> checkPc[r] \in Checked
=============================================================================
