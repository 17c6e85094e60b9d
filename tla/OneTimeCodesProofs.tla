-------------------------- MODULE OneTimeCodesProofs --------------------------
(***************************************************************************)
(* For any number of codes, requests, retries and profile updates: a       *)
(* password change replaces the password it checked, and a code is         *)
(* accepted for one request that checks it under the lock of the user row. *)
(***************************************************************************)
EXTENDS OneTimeCodes, TLAPS

(* The row a write commits is a user row. *)
LEMMA ChangedType ==
  ASSUME user \in User, NEW r \in Request
  PROVE  Changed(r) \in User
<1>1. user.version + 1 \in Nat /\ user.password \in Password
  BY DEF User
<1> QED
  BY <1>1 DEF Changed, User, Password

(* Every step keeps the types. *)
LEMMA TypeStep ==
  ASSUME TypeOK, [Next]_vars
  PROVE  TypeOK'
<1> USE DEF TypeOK, Waiting, Ended
<1>1. ASSUME NEW r \in Request, Ask(r) PROVE TypeOK'
  BY <1>1 DEF Ask, Goto, AllOps
<1>2. ASSUME NEW r \in Request, NEW o \in Ops, NEW c \in issued \cup {None},
             NEW p \in Password, Present(r, o, c, p)
      PROVE  TypeOK'
  BY <1>2, OpsAssumption DEF Present, Goto
<1>3. ASSUME NEW r \in Request, SaveDelete(r) PROVE TypeOK'
  BY <1>3 DEF SaveDelete, Goto
<1>4. ASSUME NEW r \in Request, NEW c \in Code, SaveCommit(r, c) PROVE TypeOK'
  BY <1>4 DEF SaveCommit, Goto
<1>5. ASSUME NEW r \in Request, Lock(r) PROVE TypeOK'
  BY <1>5 DEF Lock, Goto
<1>6. ASSUME NEW r \in Request, CheckRead(r) PROVE TypeOK'
  BY <1>6 DEF CheckRead, Goto, Unlocked
<1>7. ASSUME NEW r \in Request, Consume(r) PROVE TypeOK'
  BY <1>7 DEF Consume, Goto, Unlocked
<1>8. ASSUME NEW r \in Request, Write(r) PROVE TypeOK'
  <2>1. Changed(r) \in User
    BY ChangedType
  <2> QED
    BY <1>8, <2>1 DEF Write, Goto, Unlocked
<1>9. ASSUME NEW r \in Request, Transient(r) PROVE TypeOK'
  BY <1>9, MaxAttemptsAssumption DEF Transient, Goto, Unlocked
<1>10. ASSUME NEW r \in Request, Crash(r) PROVE TypeOK'
  BY <1>10 DEF Crash, Goto, Unlocked
<1>11. ASSUME ProfileWrite PROVE TypeOK'
  BY <1>11 DEF ProfileWrite, User
<1>12. ASSUME Expire PROVE TypeOK'
  BY <1>12 DEF Expire
<1>13. ASSUME Cleanup PROVE TypeOK'
  BY <1>13 DEF Cleanup
<1>14. ASSUME UNCHANGED vars PROVE TypeOK'
  BY <1>14 DEF vars
<1> QED
  BY <1>1, <1>2, <1>3, <1>4, <1>5, <1>6, <1>7, <1>8, <1>9, <1>10, <1>11, <1>12,
     <1>13, <1>14 DEF Next

(* The initial state is of the types. *)
LEMMA TypeInit == Init => TypeOK
<1> SUFFICES ASSUME Init PROVE TypeOK
  OBVIOUS
<1>1. NoUser \in User /\ [NoUser EXCEPT !.version = 1] \in User
  BY DEF NoUser, User, Password
<1>2. None \in Password /\ attempts \in [Request -> 0..MaxAttempts]
  BY MaxAttemptsAssumption DEF Init, Password
<1> QED
  BY <1>1, <1>2 DEF Init, TypeOK

\* Every variable keeps its type, whatever requests race, retry and crash.
THEOREM TypeCorrect == Spec => []TypeOK
<1> QED
  BY TypeInit, TypeStep, PTL DEF Spec

-----------------------------------------------------------------------------
(* A copy of the user row with the current version has the current         *)
(* password, and past its check a password change has checked its copy.    *)
CopyOK(r) ==
  /\ copy[r].version <= user.version
  /\ copy[r].version = user.version => copy[r].password = user.password
  /\ op[r] = "resetAuth" /\ pc[r] \in {"check", "consume", "write"}
       => old[r] = copy[r].password

(* No step makes a copy of the row lie about its password. *)
LEMMA CopyStep ==
  ASSUME TypeOK, [Next]_vars, NEW r \in Request, CopyOK(r)
  PROVE  CopyOK(r)'
<1> USE DEF CopyOK, Waiting, Goto
<1> user \in User /\ copy \in [Request -> User] /\ pc \in [Request -> {"idle"} \cup Waiting \cup Ended]
    /\ op \in [Request -> AllOps \cup {None}] /\ old \in [Request -> Password]
  BY DEF TypeOK
<1> user.version \in Nat /\ copy[r].version \in Nat
  BY DEF User
<1>1. ASSUME NEW q \in Request, Ask(q) PROVE CopyOK(r)'
  BY <1>1 DEF Ask
<1>2. ASSUME NEW q \in Request, NEW o \in Ops, NEW c \in issued \cup {None},
             NEW p \in Password, Present(q, o, c, p)
      PROVE  CopyOK(r)'
  BY <1>2 DEF Present
<1>3. ASSUME NEW q \in Request, SaveDelete(q) PROVE CopyOK(r)'
  BY <1>3 DEF SaveDelete
<1>4. ASSUME NEW q \in Request, NEW c \in Code, SaveCommit(q, c) PROVE CopyOK(r)'
  BY <1>4 DEF SaveCommit
<1>5. ASSUME NEW q \in Request, Lock(q) PROVE CopyOK(r)'
  BY <1>5 DEF Lock
<1>6. ASSUME NEW q \in Request, CheckRead(q) PROVE CopyOK(r)'
  BY <1>6 DEF CheckRead
<1>7. ASSUME NEW q \in Request, Consume(q) PROVE CopyOK(r)'
  BY <1>7 DEF Consume
<1>8. ASSUME NEW q \in Request, Write(q) PROVE CopyOK(r)'
  <2>1. user' = user \/ user'.version = user.version + 1
    <3>1. Changed(q).version = user.version + 1
      BY DEF Changed
    <3> QED
      BY <1>8, <3>1 DEF Write
  <2> QED
    BY <1>8, <2>1 DEF Write
<1>9. ASSUME NEW q \in Request, Transient(q) PROVE CopyOK(r)'
  BY <1>9 DEF Transient
<1>10. ASSUME NEW q \in Request, Crash(q) PROVE CopyOK(r)'
  BY <1>10 DEF Crash
<1>11. ASSUME ProfileWrite PROVE CopyOK(r)'
  <2>1. user'.version = user.version + 1
    BY <1>11 DEF ProfileWrite, User
  <2> QED
    BY <1>11, <2>1 DEF ProfileWrite
<1>12. ASSUME Expire \/ Cleanup \/ UNCHANGED vars PROVE CopyOK(r)'
  BY <1>12 DEF Expire, Cleanup, vars
<1> QED
  BY <1>1, <1>2, <1>3, <1>4, <1>5, <1>6, <1>7, <1>8, <1>9, <1>10, <1>11, <1>12
     DEF Next

\* A password change replaces the password it was checked against: the version
\* it loaded with that password is compared by its UPDATE.
THEOREM ChangesWhatItChecked == Spec => ReplacesWhatItChecked
<1> DEFINE Copies == \A r \in Request : CopyOK(r)
           A == \A r \in Request :
                  op[r] = "resetAuth" /\ pc[r] = "write" /\ pc'[r] = "ok"
                  => user.password = old[r]
<1>1. Init => Copies
  BY DEF Init, CopyOK, NoUser
<1>2. TypeOK /\ Copies /\ [Next]_vars => Copies'
  BY CopyStep
<1>3. TypeOK /\ Copies /\ [Next]_vars => [A]_vars
  <2> SUFFICES ASSUME TypeOK, Copies, Next, NEW r \in Request,
                      op[r] = "resetAuth", pc[r] = "write", pc'[r] = "ok"
               PROVE  user.password = old[r]
    OBVIOUS
  <2>1. Write(r)
    <3> pc \in [Request -> {"idle"} \cup Waiting \cup Ended]
      BY DEF TypeOK
    <3> QED
      BY DEF Next, Ask, Present, SaveDelete, SaveCommit, Lock, CheckRead, Consume,
             Write, Transient, Crash, ProfileWrite, Expire, Cleanup, Goto
  <2>2. user.version = copy[r].version
    <3> pc \in [Request -> {"idle"} \cup Waiting \cup Ended]
      BY DEF TypeOK
    <3> QED
      BY <2>1 DEF Write, Goto
  <2> QED
    BY <2>2 DEF CopyOK
<1> QED
  BY <1>1, <1>2, <1>3, TypeCorrect, PTL DEF Spec, ReplacesWhatItChecked

-----------------------------------------------------------------------------
(* A request other than a reset that checks or consumes a code holds the   *)
(* lock.  So the code it read was accepted for none of its kind, and the   *)
(* stored code never was.                                                  *)
Locks(r) == op[r] # "reset"

HoldsLock ==
  \A r \in Request : Locks(r) /\ pc[r] \in {"check", "consume"} => lockedBy = r

Unspent(c) == c \in issued /\ \A q \in accepted[c] : ~Locks(q)

SpendsUnspent ==
  /\ otp # None => Unspent(otp)
  /\ \A r \in Request :
       pc[r] = "consume" => /\ seen[r] \in issued
                            /\ Locks(r) => Unspent(seen[r])

AcceptedIssued ==
  \A c \in Code : \A q \in accepted[c] : c \in issued /\ pc[q] # "idle"

LockInv == HoldsLock /\ SpendsUnspent /\ AcceptedIssued /\ AcceptedOnce

(* No step lets a second locked request check a code, or stores a spent one. *)
LEMMA LockStep ==
  ASSUME TypeOK, LockInv, [Next]_vars
  PROVE  LockInv'
<1> USE NoneAssumption DEF LockInv, Locks, HoldsLock, SpendsUnspent, Unspent,
                           AcceptedIssued, AcceptedOnce, Goto
<1> /\ pc \in [Request -> {"idle"} \cup Waiting \cup Ended]
    /\ op \in [Request -> AllOps \cup {None}]
    /\ seen \in [Request -> Code \cup {None}]
    /\ accepted \in [Code -> SUBSET Request]
    /\ otp \in Code \cup {None}
    /\ issued \subseteq Code
  BY DEF TypeOK
<1>1. ASSUME NEW r \in Request, Ask(r) PROVE LockInv'
  BY <1>1 DEF Ask
<1>2. ASSUME NEW r \in Request, NEW o \in Ops, NEW c \in issued \cup {None},
             NEW p \in Password, Present(r, o, c, p)
      PROVE  LockInv'
  BY <1>2 DEF Present
<1>3. ASSUME NEW r \in Request, SaveDelete(r) PROVE LockInv'
  BY <1>3 DEF SaveDelete
<1>4. ASSUME NEW r \in Request, NEW c \in Code, SaveCommit(r, c) PROVE LockInv'
  BY <1>4 DEF SaveCommit
<1>5. ASSUME NEW r \in Request, Lock(r) PROVE LockInv'
  BY <1>5 DEF Lock
<1>6. ASSUME NEW r \in Request, CheckRead(r) PROVE LockInv'
  BY <1>6 DEF CheckRead, Unlocked
<1>7. ASSUME NEW r \in Request, Consume(r) PROVE LockInv'
  <2> DEFINE c == seen[r]
  <2>1. c \in Code /\ accepted' = [accepted EXCEPT ![c] = @ \cup {r}]
    BY <1>7 DEF Consume
  <2>2. \A q \in Request : Locks(r) /\ Locks(q) => pc'[q] \notin {"check", "consume"}
    BY <1>7 DEF Consume
  <2>3. pc'[r] # "idle" /\ op' = op /\ issued' = issued /\ otp' # c /\ otp' \in {otp, None}
    BY <1>7, <2>1 DEF Consume
  <2>4. HoldsLock'
    BY <1>7 DEF Consume, Unlocked
  <2>5. \A d \in Code : Unspent(d) /\ (Locks(r) => d # c) => Unspent(d)'
    BY <2>1, <2>3
  <2>6. SpendsUnspent'
    <3>1. otp' # None => Unspent(otp)'
      BY <2>3, <2>5
    <3>2. ASSUME NEW q \in Request, pc'[q] = "consume"
          PROVE  seen'[q] \in issued' /\ (Locks(q)' => Unspent(seen[q])')
      <4>1. pc[q] = "consume" /\ seen' = seen
        BY <1>7, <3>2 DEF Consume
      <4>2. Locks(q) => Unspent(seen[q]) /\ ~Locks(r)
        BY <2>2, <3>2, <4>1
      <4> QED
        BY <2>3, <2>5, <4>1, <4>2
    <3>3. seen' = seen
      BY <1>7 DEF Consume
    <3> QED
      BY <3>1, <3>2, <3>3
  <2>7. AcceptedIssued'
    BY <1>7, <2>1, <2>3 DEF Consume
  <2>8. AcceptedOnce'
    <3>1. Locks(r) => \A q \in accepted[c] : ~Locks(q)
      BY <1>7 DEF Consume
    <3> QED
      BY <2>1, <2>3, <3>1
  <2> QED
    BY <2>4, <2>6, <2>7, <2>8
<1>8. ASSUME NEW r \in Request, Write(r) PROVE LockInv'
  BY <1>8 DEF Write, Unlocked
<1>9. ASSUME NEW r \in Request, Transient(r) PROVE LockInv'
  BY <1>9 DEF Transient, Unlocked
<1>10. ASSUME NEW r \in Request, Crash(r) PROVE LockInv'
  BY <1>10 DEF Crash, Unlocked, Waiting
<1>11. ASSUME ProfileWrite \/ Expire \/ Cleanup \/ UNCHANGED vars PROVE LockInv'
  BY <1>11 DEF ProfileWrite, Expire, Cleanup, vars
<1> QED
  BY <1>1, <1>2, <1>3, <1>4, <1>5, <1>6, <1>7, <1>8, <1>9, <1>10, <1>11 DEF Next

\* checkOtp's "one-time use only", for the email verification and the password
\* change, which call it with the user row locked.
THEOREM LockedIsOnce == Spec => []AcceptedOnce
<1>1. Init => LockInv
  BY NoneAssumption DEF Init, LockInv, HoldsLock, SpendsUnspent, AcceptedIssued,
                        AcceptedOnce
<1>2. TypeOK /\ LockInv /\ [Next]_vars => LockInv'
  BY LockStep
<1>3. LockInv => AcceptedOnce
  BY DEF LockInv
<1> QED
  BY <1>1, <1>2, <1>3, TypeCorrect, PTL DEF Spec
=============================================================================
