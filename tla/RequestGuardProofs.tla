-------------------------- MODULE RequestGuardProofs --------------------------
(***************************************************************************)
(* What stands before the handler of a request: the idempotency key, for   *)
(* any number of keys, payloads and requests; and the token bucket, which  *)
(* admits no more than its budget for every limit, window and number of    *)
(* concurrent requests.                                                    *)
(***************************************************************************)
EXTENDS Idempotency, RateLimiter, TLAPS

(* What a record says about its writer, whatever fails.                    *)
Written ==
  \A k \in Key : store[k] # None =>
    /\ key[store[k].by] = k
    /\ pc[store[k].by] # "idle"
    /\ store[k].state = "completed" => store[k].by \in effects[k]

Committed ==
  /\ \A r \in Request : pc[r] = "complete" => r \in effects[key[r]]
  /\ \A k \in Key : \A r \in effects[k] : pc[r] # "idle" /\ key[r] = k

Genuine == TypeOK /\ Written /\ Committed /\ ReplayIsGenuine

\* The initial state satisfies Genuine.
LEMMA GenuineInit == Init => Genuine
  BY NoneAssumption DEF Init, Genuine, TypeOK, Written, Committed, ReplayIsGenuine, Waiting,
     Running, Ended, Record

\* Every step preserves Genuine.
LEMMA GenuineStep == Genuine /\ [Next]_vars => Genuine'
<1> SUFFICES ASSUME Genuine, [Next]_vars PROVE Genuine'
  OBVIOUS
<1> USE NoneAssumption
    DEF Genuine, TypeOK, Written, Committed, ReplayIsGenuine, Waiting, Running, Ended,
        Record, Goto, Runs
<1>1. ASSUME NEW r \in Request, NEW k \in Key, NEW p \in Payload, Arrive(r, k, p)
      PROVE  Genuine'
  <2>1. TypeOK'
    BY <1>1 DEF Arrive
  <2>2. Written'
    BY <1>1 DEF Arrive
  <2>3. Committed'
    BY <1>1 DEF Arrive
  <2>4. ReplayIsGenuine'
    BY <1>1 DEF Arrive
  <2> QED
    BY <2>1, <2>2, <2>3, <2>4
<1>2. ASSUME NEW r \in Request, RunUnkeyed(r) PROVE Genuine'
  BY <1>2 DEF RunUnkeyed
<1>3. ASSUME NEW r \in Request, GetMiss(r) PROVE Genuine'
  BY <1>3 DEF GetMiss
<1>4. ASSUME NEW r \in Request, GetHit(r) PROVE Genuine'
  BY <1>4 DEF GetHit, SamePayload
<1>5. ASSUME NEW r \in Request, Claim(r) PROVE Genuine'
  BY <1>5 DEF Claim
<1>6. ASSUME NEW r \in Request, Commit(r) PROVE Genuine'
  BY <1>6 DEF Commit
<1>7. ASSUME NEW r \in Request, HandlerRaises(r) PROVE Genuine'
  BY <1>7 DEF HandlerRaises
<1>8. ASSUME NEW r \in Request, Complete(r) PROVE Genuine'
  BY <1>8 DEF Complete
<1>9. ASSUME NEW r \in Request, Cleanup(r) PROVE Genuine'
  BY <1>9 DEF Cleanup
<1>10. ASSUME NEW k \in Key, Expire(k) PROVE Genuine'
  BY <1>10 DEF Expire
<1>11. ASSUME NEW r \in Request, Crash(r) PROVE Genuine'
  BY <1>11 DEF Crash
<1>12. CASE UNCHANGED vars
  BY <1>12 DEF vars
<1> QED
  BY <1>1, <1>2, <1>3, <1>4, <1>5, <1>6, <1>7, <1>8, <1>9, <1>10, <1>11, <1>12
  DEF Next, Step

\* The state keeps its types, whichever faults occur.
THEOREM TypeCorrect == Spec => []TypeOK
<1>1. Genuine => TypeOK
  BY DEF Genuine
<1> QED
  BY <1>1, GenuineInit, GenuineStep, PTL DEF Spec

\* Every fault allowed, a replay is still the committed result of the same
\* request.
THEOREM ReplayCorrect == Spec => []ReplayIsGenuine
<1>1. Genuine => ReplayIsGenuine
  BY DEF Genuine
<1> QED
  BY <1>1, GenuineInit, GenuineStep, PTL DEF Spec

-----------------------------------------------------------------------------
(* Until its key lapses, the running handler owns the record, and so does  *)
(* the request whose change was committed: there is only one of each.      *)
RunnerOwns ==
  \A k \in Key \ (lapsed \cup hurt) : \A r \in Request :
    Runs(r, k) => store[k] # None /\ store[k].state = "processing" /\ store[k].by = r

EffectOwns ==
  \A k \in Key \ (lapsed \cup hurt) : \A r \in effects[k] : store[k] # None /\ store[k].by = r

\* Except under a key that is hurt, a run that has committed is at "complete".
Uncommitted ==
  \A r \in Request : \A k \in Key \ hurt : pc[r] \in Waiting \ {"complete"} => r \notin effects[k]

Owned == Genuine /\ RunnerOwns /\ EffectOwns /\ Uncommitted

\* The initial state satisfies Owned.
LEMMA OwnedInit == Init => Owned
  BY GenuineInit DEF Init, Owned, RunnerOwns, EffectOwns, Uncommitted, Runs, Running

\* Every step preserves Owned, whichever faults occur.
LEMMA OwnedStep == Owned /\ [Next]_vars => Owned'
<1> SUFFICES ASSUME Owned, [Next]_vars PROVE Owned'
  OBVIOUS
<1>0. Genuine'
  BY GenuineStep DEF Owned
<1> USE <1>0, NoneAssumption
    DEF Owned, Genuine, TypeOK, Written, Committed, RunnerOwns, EffectOwns, Uncommitted,
        Waiting, Running, Ended, Record, Goto, Runs
<1>1. ASSUME NEW r \in Request, NEW k \in Key, NEW p \in Payload, Arrive(r, k, p)
      PROVE  Owned'
  BY <1>1 DEF Arrive
<1>2. ASSUME NEW r \in Request, RunUnkeyed(r) PROVE Owned'
  BY <1>2 DEF RunUnkeyed
<1>3. ASSUME NEW r \in Request, GetMiss(r) PROVE Owned'
  BY <1>3 DEF GetMiss
<1>4. ASSUME NEW r \in Request, GetHit(r) PROVE Owned'
  BY <1>4 DEF GetHit
<1>5. ASSUME NEW r \in Request, Claim(r) PROVE Owned'
  <2>1. RunnerOwns'
    BY <1>5 DEF Claim
  <2>2. EffectOwns'
    BY <1>5 DEF Claim
  <2>3. Uncommitted'
    BY <1>5 DEF Claim
  <2> QED
    BY <2>1, <2>2, <2>3
<1>6. ASSUME NEW r \in Request, Commit(r) PROVE Owned'
  <2>1. RunnerOwns'
    BY <1>6 DEF Commit
  <2>2. EffectOwns'
    BY <1>6 DEF Commit
  <2>3. Uncommitted'
    BY <1>6 DEF Commit
  <2> QED
    BY <2>1, <2>2, <2>3
<1>7. ASSUME NEW r \in Request, HandlerRaises(r) PROVE Owned'
  BY <1>7 DEF HandlerRaises
<1>8. ASSUME NEW r \in Request, Complete(r) PROVE Owned'
  <2>1. RunnerOwns'
    BY <1>8 DEF Complete
  <2>2. EffectOwns'
    BY <1>8 DEF Complete
  <2>3. Uncommitted'
    BY <1>8 DEF Complete
  <2> QED
    BY <2>1, <2>2, <2>3
<1>9. ASSUME NEW r \in Request, Cleanup(r) PROVE Owned'
  BY <1>9 DEF Cleanup
<1>10. ASSUME NEW k \in Key, Expire(k) PROVE Owned'
  BY <1>10 DEF Expire
<1>11. ASSUME NEW r \in Request, Crash(r) PROVE Owned'
  BY <1>11 DEF Crash
<1>12. CASE UNCHANGED vars
  BY <1>12 DEF vars
<1> QED
  BY <1>1, <1>2, <1>3, <1>4, <1>5, <1>6, <1>7, <1>8, <1>9, <1>10, <1>11, <1>12
  DEF Next, Step

\* A change is made at most once per key that no expiry, blind claim or late
\* exception has touched, through any crashes, retries and slow handlers.
THEOREM MadeOnce == Spec => []AtMostOnce
<1>1. Owned => AtMostOnce
  BY DEF Owned, EffectOwns, AtMostOnce, Once
<1> QED
  BY <1>1, OwnedInit, OwnedStep, PTL DEF Spec

-----------------------------------------------------------------------------
(* The token bucket.                                                       *)

\* What the clock has paid for so far, up to the last write.
Paid == MaxCalls * (lastTs + Window + slip)

\* A request whose watched key has not changed has seen what is there now.
SeenIsCurrent == \A r \in Request : checkPc[r] = "exec" /\ r \notin dirty => seen[r] = bucket

\* Timestamps come from the clock.
TimesPassed ==
  /\ \A r \in Request : now[r] <= clock
  /\ lastTs <= clock
  /\ bucket # None => bucket.ts = lastTs

\* Tokens left and calls admitted are covered by what was paid.
Credit ==
  admitted * Window + (IF bucket = None THEN 0 ELSE bucket.tokens) <= Paid

BucketIInv == BucketTypeOK /\ SeenIsCurrent /\ TimesPassed /\ Credit

\* A full bucket is a number.
LEMMA FullType == Full \in Nat
  BY MaxCallsAssumption, WindowAssumption DEF Full

\* Products with a number grow with the other factor.
LEMMA Monotone ==
  ASSUME NEW m \in Nat, NEW a \in Int, NEW b \in Int, a <= b
  PROVE  m * a <= m * b
<1>1. m * (b - a) >= 0
  <2>1. \A k \in Nat : m * k >= 0
    OBVIOUS
  <2>2. b - a \in Nat
    OBVIOUS
  <2> QED
    BY <2>1, <2>2
<1>2. m * (b - a) = m * b - m * a
  OBVIOUS
<1>3. m * a \in Int /\ m * b \in Int
  OBVIOUS
<1> QED
  BY <1>1, <1>2, <1>3

\* The tokens a request finds fit in the bucket.
LEMMA RefilledType ==
  ASSUME BucketTypeOK, NEW r \in Request
  PROVE  Refilled(r) \in 0..Full
<1>1. CASE seen[r] = None
  BY <1>1, FullType DEF Refilled
<1>2. CASE seen[r] # None
  <2>1. seen[r].tokens \in 0..Full /\ seen[r].ts \in Nat /\ now[r] \in Nat
    BY <1>2 DEF BucketTypeOK, Hash
  <2>2. AtLeast(0, now[r] - seen[r].ts) \in Nat
    BY <2>1 DEF AtLeast
  <2>3. MaxCalls * AtLeast(0, now[r] - seen[r].ts) \in Nat
    BY <2>2, MaxCallsAssumption
  <2> QED
    BY <1>2, <2>1, <2>3, FullType DEF Refilled, AtMost
<1> QED
  BY <1>1, <1>2

\* The initial state is of the types.
LEMMA TypeInit == BucketInit => BucketTypeOK
  BY WindowAssumption DEF BucketInit, BucketTypeOK

\* Exec writes a bucket that fits.
LEMMA ExecType ==
  ASSUME BucketTypeOK, NEW r \in Request, Exec(r)
  PROVE  BucketTypeOK'
<1>1. Refilled(r) \in 0..Full /\ Full \in Nat /\ Window \in Nat \ {0}
  BY RefilledType, FullType, WindowAssumption
<1>2. bucket' \in Hash
  BY <1>1 DEF Exec, BucketTypeOK, Hash
<1>3. slip' \in Nat /\ expiry' \in Nat /\ lastTs' \in Int
  BY <1>1 DEF Exec, BucketTypeOK, AtLeast
<1> QED
  BY <1>2, <1>3 DEF Exec, Forget, BucketTypeOK, CheckGoto, Checked

\* Every step keeps the types.
LEMMA TypeStep ==
  ASSUME BucketTypeOK, [BucketNext]_bucketVars
  PROVE  BucketTypeOK'
<1>1. CASE Tick
  BY <1>1 DEF Tick, BucketTypeOK
<1>2. CASE BucketExpire
  BY <1>2 DEF BucketExpire, BucketTypeOK
<1>3. ASSUME NEW r \in Request, CheckArrive(r)
      PROVE  BucketTypeOK'
  BY <1>3 DEF CheckArrive, BucketTypeOK, CheckGoto, Checked
<1>4. ASSUME NEW r \in Request, Read(r)
      PROVE  BucketTypeOK'
  BY <1>4 DEF Read, BucketTypeOK, CheckGoto, Checked
<1>5. ASSUME NEW r \in Request, Exec(r)
      PROVE  BucketTypeOK'
  BY <1>5, ExecType
<1>6. ASSUME NEW r \in Request, Conflict(r)
      PROVE  BucketTypeOK'
  BY <1>6 DEF Conflict, BucketTypeOK, CheckGoto, Checked
<1>7. ASSUME NEW r \in Request, Unreachable(r)
      PROVE  BucketTypeOK'
  BY <1>7 DEF Unreachable, Forget, BucketTypeOK, CheckGoto, Checked
<1>8. CASE UNCHANGED bucketVars
  BY <1>8 DEF bucketVars, BucketTypeOK
<1> QED
  BY <1>1, <1>2, <1>3, <1>4, <1>5, <1>6, <1>7, <1>8 DEF BucketNext, CheckStep

\* A call that is allowed spends what it found; whoever writes an older
\* timestamp back adds what that moves back to slip.
LEMMA ExecCredit ==
  ASSUME BucketIInv, NEW r \in Request, Exec(r)
  PROVE  Credit'
<1> DEFINE base == IF bucket = None THEN lastTs + Window ELSE lastTs
           back == AtLeast(0, base - now[r])
           found == Refilled(r)
<1>1. /\ seen[r] = bucket /\ now[r] \in Nat /\ lastTs \in Int /\ slip \in Nat
      /\ admitted \in Nat /\ Window \in Nat \ {0} /\ MaxCalls \in Nat
  BY MaxCallsAssumption, WindowAssumption DEF BucketIInv, BucketTypeOK, SeenIsCurrent, Exec
<1>2. base \in Int /\ back \in Nat /\ base - back <= now[r] /\ base <= now[r] + back
  BY <1>1 DEF AtLeast
<1>3. found \in Int /\ found >= 0
  BY RefilledType, FullType DEF BucketIInv
<1>4. admitted * Window + found <= MaxCalls * (now[r] + Window + slip + back)
  <2>1. CASE bucket = None
    <3>1. admitted * Window <= MaxCalls * (lastTs + Window + slip)
      BY <1>1, <2>1 DEF BucketIInv, Credit, Paid
    <3>2. found = MaxCalls * Window
      BY <1>1, <2>1 DEF Refilled, Full
    <3>3. MaxCalls * (lastTs + Window + slip) <= MaxCalls * (now[r] + slip + back)
      <4>1. lastTs + Window + slip <= now[r] + slip + back
        BY <1>1, <1>2, <2>1
      <4> QED
        BY <1>1, <1>2, <4>1, Monotone
    <3>4. MaxCalls * (now[r] + Window + slip + back)
            = MaxCalls * (now[r] + slip + back) + MaxCalls * Window
      BY <1>1, <1>2
    <3> QED
      BY <1>1, <1>2, <3>1, <3>2, <3>3, <3>4
  <2>2. CASE bucket # None
    <3> DEFINE gain == AtLeast(0, now[r] - lastTs)
    <3>1. admitted * Window + bucket.tokens <= MaxCalls * (lastTs + Window + slip)
      BY <1>1, <2>2 DEF BucketIInv, Credit, Paid
    <3>2. gain \in Nat /\ lastTs + gain = now[r] + back
      BY <1>1, <2>2 DEF AtLeast
    <3>3. bucket.tokens \in Int /\ bucket.ts = lastTs
      BY <2>2, FullType DEF BucketIInv, BucketTypeOK, Hash, TimesPassed
    <3>4. found <= bucket.tokens + MaxCalls * gain
      BY <1>1, <2>2, <3>2, <3>3, FullType DEF Refilled, AtMost
    <3>5. MaxCalls * (lastTs + Window + slip) + MaxCalls * gain
            = MaxCalls * (now[r] + Window + slip + back)
      <4>1. now[r] + Window + slip + back = (lastTs + Window + slip) + gain
        BY <1>1, <1>2, <3>2
      <4> HIDE DEF gain, back
      <4>2. \A a, b \in Int : MaxCalls * a + MaxCalls * b = MaxCalls * (a + b)
        BY <1>1
      <4> QED
        BY <1>1, <3>2, <4>1, <4>2
    <3> HIDE DEF gain, back, found
    <3> QED
      BY <1>1, <1>2, <1>3, <3>1, <3>2, <3>3, <3>4, <3>5
  <2> QED
    BY <2>1, <2>2
<1>5. lastTs' = now[r] /\ slip' = slip + back
  BY DEF Exec
<1>6. Paid' = MaxCalls * (now[r] + Window + slip + back)
  BY <1>1, <1>2, <1>5 DEF Paid
<1>7. /\ bucket' # None
      /\ \/ admitted' = admitted + 1 /\ bucket'.tokens = found - Window
         \/ admitted' = admitted /\ bucket'.tokens = found
  <2>1. bucket' \in Hash
    <3>1. Refilled(r) \in 0..Full /\ Full \in Nat
      BY RefilledType, FullType DEF BucketIInv
    <3> QED
      BY <1>1, <3>1 DEF Exec, Hash
  <2> QED
    BY <2>1, NoHashAssumption DEF Exec
<1>8. (admitted + 1) * Window = admitted * Window + Window
  BY <1>1
<1> HIDE DEF back, found, base
<1> QED
  BY <1>1, <1>2, <1>3, <1>4, <1>6, <1>7, <1>8 DEF Credit

\* Every step preserves the invariant.
LEMMA InvStep == BucketIInv /\ [BucketNext]_bucketVars => BucketIInv'
<1> SUFFICES ASSUME BucketIInv, [BucketNext]_bucketVars PROVE BucketIInv'
  OBVIOUS
<1>1. BucketTypeOK /\ BucketTypeOK'
  BY TypeStep DEF BucketIInv
<1>2. CASE Tick
  BY <1>1, <1>2 DEF Tick, BucketIInv, SeenIsCurrent, TimesPassed, Credit, Paid, BucketTypeOK
<1>3. CASE BucketExpire
  <2>1. admitted * Window \in Int /\ bucket.tokens >= 0 /\ bucket.tokens \in Int
    BY <1>1, <1>3, FullType, WindowAssumption DEF BucketExpire, BucketTypeOK, Hash
  <2>2. Credit'
    <3>1. Paid \in Int
      BY <1>1, MaxCallsAssumption, WindowAssumption DEF Paid, BucketTypeOK
    <3>2. Paid' = Paid /\ admitted' = admitted /\ bucket' = None /\ bucket # None
      BY <1>3 DEF BucketExpire, Paid
    <3> QED
      BY <2>1, <3>1, <3>2 DEF BucketIInv, Credit
  <2>3. SeenIsCurrent' /\ TimesPassed'
    BY <1>1, <1>3 DEF BucketExpire, BucketIInv, SeenIsCurrent, TimesPassed, BucketTypeOK
  <2> QED
    BY <1>1, <2>2, <2>3 DEF BucketIInv
<1>4. ASSUME NEW r \in Request, CheckArrive(r)
      PROVE  BucketIInv'
  BY <1>1, <1>4 DEF CheckArrive, CheckGoto, BucketIInv, SeenIsCurrent, TimesPassed, Credit, Paid, BucketTypeOK
<1>5. ASSUME NEW r \in Request, Read(r)
      PROVE  BucketIInv'
  BY <1>1, <1>5 DEF Read, CheckGoto, BucketIInv, SeenIsCurrent, TimesPassed, Credit, Paid, BucketTypeOK
<1>6. ASSUME NEW r \in Request, Exec(r)
      PROVE  BucketIInv'
  <2>1. Credit'
    BY <1>6, ExecCredit
  <2>2. bucket'.ts = lastTs' /\ lastTs' <= clock'
    BY <1>1, <1>6 DEF Exec, BucketIInv, TimesPassed, BucketTypeOK
  <2>3. TimesPassed'
    BY <1>1, <1>6, <2>2 DEF Exec, Forget, BucketIInv, TimesPassed, BucketTypeOK
  <2>4. SeenIsCurrent'
    BY <1>1, <1>6 DEF Exec, Forget, CheckGoto, BucketIInv, SeenIsCurrent, BucketTypeOK
  <2> QED
    BY <1>1, <2>1, <2>3, <2>4 DEF BucketIInv
<1>7. ASSUME NEW r \in Request, Conflict(r)
      PROVE  BucketIInv'
  BY <1>1, <1>7 DEF Conflict, CheckGoto, BucketIInv, SeenIsCurrent, TimesPassed, Credit, Paid, BucketTypeOK
<1>8. ASSUME NEW r \in Request, Unreachable(r)
      PROVE  BucketIInv'
  BY <1>1, <1>8 DEF Unreachable, Forget, CheckGoto, BucketIInv, SeenIsCurrent, TimesPassed, Credit, Paid, BucketTypeOK
<1>9. CASE UNCHANGED bucketVars
  BY <1>1, <1>9 DEF bucketVars, BucketIInv, SeenIsCurrent, TimesPassed, Credit, Paid
<1> QED
  BY <1>2, <1>3, <1>4, <1>5, <1>6, <1>7, <1>8, <1>9 DEF BucketNext, CheckStep

\* The initial state satisfies the invariant.
LEMMA InvInit == BucketInit => BucketIInv
  BY TypeInit, MaxCallsAssumption, WindowAssumption
     DEF BucketInit, BucketIInv, SeenIsCurrent, TimesPassed, Credit, Paid

\* The strengthened budget is an invariant.
THEOREM Inductive == BucketSpec => []BucketIInv
  BY InvInit, InvStep, PTL DEF BucketSpec

\* The bucket never holds more than max_calls tokens, nor fewer than none.
THEOREM BucketTypeCorrect == BucketSpec => []BucketTypeOK
<1>1. BucketIInv => BucketTypeOK
  BY DEF BucketIInv
<1> QED
  BY <1>1, Inductive, PTL

\* The calls admitted stay within a full bucket, the time that passed and the
\* time refilled twice, for every limit, window and number of requests.
THEOREM WithinBudget == BucketSpec => []Budget
<1>1. BucketIInv => Budget
  <2> SUFFICES ASSUME BucketIInv PROVE Budget
    OBVIOUS
  <2>1. Paid <= MaxCalls * (clock + Window + slip)
    BY MaxCallsAssumption, WindowAssumption, Monotone DEF BucketIInv, BucketTypeOK, TimesPassed, Paid
  <2>2. admitted * Window <= Paid
    BY FullType, MaxCallsAssumption, WindowAssumption DEF BucketIInv, BucketTypeOK, Credit, Paid, Hash
  <2>3. /\ Paid \in Int /\ admitted * Window \in Int
        /\ MaxCalls * (clock + Window + slip) \in Int
    BY MaxCallsAssumption, WindowAssumption DEF BucketIInv, BucketTypeOK, Paid
  <2> QED
    BY <2>1, <2>2, <2>3 DEF Budget
<1> QED
  BY <1>1, Inductive, PTL
=============================================================================
