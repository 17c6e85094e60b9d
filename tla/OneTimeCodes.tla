---------------------------- MODULE OneTimeCodes ----------------------------
(***************************************************************************)
(* One-time codes of one account: saveOtp and checkOtp of                  *)
(* app/services/otp_service.py, and the requests that spend a code: email  *)
(* verification, the reset of a forgotten password, and the password       *)
(* change that also asks for the old password.  pc[r] is the await request *)
(* r is suspended at.  A commit releases the lock of the user row; the     *)
(* UPDATE of a user compares version_id with the version that was loaded.  *)
(***************************************************************************)
EXTENDS Naturals

CONSTANTS Code,         \* generated codes, each at most once
          Request,
          None,
          Ops,          \* which requests are made
          MaxAttempts,  \* attempts of run_with_transient_retry (3)
          MaxVersion    \* bound on version_id, for profile updates

AllOps == {"save", "verify", "reset", "resetAuth"}

ASSUME NoneAssumption == None \notin Code /\ None \notin Request
ASSUME OpsAssumption == Ops \subseteq AllOps
ASSUME MaxAttemptsAssumption == MaxAttempts \in Nat \ {0}

\* The password of the account: the request that set it, None at the start.
Password == Request \cup {None}
User == [version : Nat, password : Password, verified : BOOLEAN]

VARIABLES otp,       \* the code in the otps row of the account, or None
          issued,    \* codes that were stored, and mailed
          expired,
          user,      \* the committed user row
          lockedBy,  \* the request whose transaction locks it
          pc, op,
          code,      \* code[r]: the code r presents
          old,       \* old[r]: the old password r presents
          copy,      \* copy[r]: the user object in the session of r
          seen,      \* seen[r]: the otps row r read
          preloaded, \* requests whose user object came with authentication
          attempts,
          accepted   \* history: accepted[c], requests for which c was right

vars == <<otp, issued, expired, user, lockedBy, pc, op, code, old, copy, seen,
          preloaded, attempts, accepted>>

NoUser == [version |-> 0, password |-> None, verified |-> FALSE]
Ended == {"ok", "already", "badCode", "denied", "conflict", "failed"}
Waiting == {"delete", "insert", "lock", "check", "consume", "write"}

TypeOK ==
  /\ otp \in Code \cup {None}
  /\ issued \subseteq Code
  /\ expired \subseteq Code
  /\ user \in User
  /\ lockedBy \in Request \cup {None}
  /\ pc \in [Request -> {"idle"} \cup Waiting \cup Ended]
  /\ op \in [Request -> AllOps \cup {None}]
  /\ code \in [Request -> Code \cup {None}]
  /\ old \in [Request -> Password]
  /\ copy \in [Request -> User]
  /\ seen \in [Request -> Code \cup {None}]
  /\ preloaded \subseteq Request
  /\ attempts \in [Request -> 0..MaxAttempts]
  /\ accepted \in [Code -> SUBSET Request]

Init ==
  /\ otp = None
  /\ issued = {}
  /\ expired = {}
  /\ user = [NoUser EXCEPT !.version = 1]
  /\ lockedBy = None
  /\ pc = [r \in Request |-> "idle"]
  /\ op = [r \in Request |-> None]
  /\ code = [r \in Request |-> None]
  /\ old = [r \in Request |-> None]
  /\ copy = [r \in Request |-> NoUser]
  /\ seen = [r \in Request |-> None]
  /\ preloaded = {}
  /\ attempts = [r \in Request |-> 0]
  /\ accepted = [c \in Code |-> {}]

Goto(r, l) == pc' = [pc EXCEPT ![r] = l]
Unlocked(r) == IF lockedBy = r THEN None ELSE lockedBy

(* A code is asked for (register, forgot, resend, password/change).        *)
Ask(r) ==
  /\ pc[r] = "idle"
  /\ "save" \in Ops
  /\ op' = [op EXCEPT ![r] = "save"]
  /\ Goto(r, "delete")
  /\ UNCHANGED <<otp, issued, expired, user, lockedBy, code, old, copy, seen,
                 preloaded, attempts, accepted>>

(* A code is presented, right or wrong.  With a password change comes the  *)
(* old password, and the user object may be in the session already: loaded *)
(* by getCurrentUser when its cache missed.                                *)
Present(r, o, c, p) ==
  /\ pc[r] = "idle"
  /\ o \in Ops \ {"save"}
  /\ op' = [op EXCEPT ![r] = o]
  /\ code' = [code EXCEPT ![r] = c]
  /\ old' = [old EXCEPT ![r] = p]
  /\ \/ UNCHANGED <<preloaded, copy>>
     \/ /\ o = "resetAuth"
        /\ preloaded' = preloaded \cup {r}
        /\ copy' = [copy EXCEPT ![r] = user]
  /\ Goto(r, IF o = "reset" THEN "check" ELSE "lock")
  /\ UNCHANGED <<otp, issued, expired, user, lockedBy, seen, attempts, accepted>>

(* saveOtp: DELETE of the row the statement sees.                          *)
SaveDelete(r) ==
  /\ pc[r] = "delete"
  /\ seen' = [seen EXCEPT ![r] = otp]
  /\ Goto(r, "insert")
  /\ UNCHANGED <<otp, issued, expired, user, lockedBy, op, code, old, copy,
                 preloaded, attempts, accepted>>

(* saveOtp: INSERT and commit.  A row another request committed since      *)
(* violates the unique email: the request fails.                           *)
SaveCommit(r, c) ==
  /\ pc[r] = "insert"
  /\ c \notin issued
  /\ IF otp \in {None, seen[r]}
       THEN otp' = c /\ issued' = issued \cup {c} /\ Goto(r, "ok")
       ELSE UNCHANGED <<otp, issued>> /\ Goto(r, "failed")
  /\ UNCHANGED <<expired, user, lockedBy, op, code, old, copy, seen, preloaded,
                 attempts, accepted>>

\* BUG variant: the row is read without FOR UPDATE.
LockUnlocked(r) ==
  /\ pc[r] = "lock"
  /\ LET u == IF r \in preloaded THEN copy[r] ELSE user IN
     /\ copy' = [copy EXCEPT ![r] = u]
     /\ CASE op[r] = "resetAuth" /\ old[r] # u.password -> Goto(r, "denied")
          [] op[r] = "verify" /\ u.verified -> Goto(r, "already")
          [] OTHER -> Goto(r, IF op[r] = "reset" THEN "write" ELSE "check")
  /\ UNCHANGED <<otp, issued, expired, user, lockedBy, op, code, old, seen, preloaded,
                 attempts, accepted>>

(* lock_user_row, and the checks made under the lock.  An object that is   *)
(* in the session already keeps its attributes.                            *)
Lock(r) ==
  /\ pc[r] = "lock"
  /\ lockedBy = None
  /\ LET u == IF r \in preloaded THEN copy[r] ELSE user IN
     /\ copy' = [copy EXCEPT ![r] = u]
     /\ CASE op[r] = "resetAuth" /\ old[r] # u.password ->
               UNCHANGED lockedBy /\ Goto(r, "denied")
          [] op[r] = "verify" /\ u.verified -> UNCHANGED lockedBy /\ Goto(r, "already")
          [] OTHER -> /\ lockedBy' = r
                      /\ Goto(r, IF op[r] = "reset" THEN "write" ELSE "check")
  /\ UNCHANGED <<otp, issued, expired, user, op, code, old, seen, preloaded,
                 attempts, accepted>>

(* checkOtp: read the row.  An expired one is deleted; a wrong code leaves *)
(* it there.  Either way the callers roll back and answer 400.             *)
CheckRead(r) ==
  /\ pc[r] = "check"
  /\ seen' = [seen EXCEPT ![r] = otp]
  /\ IF otp # None /\ otp \notin expired /\ otp = code[r]
       THEN Goto(r, "consume") /\ UNCHANGED <<otp, lockedBy>>
       ELSE /\ Goto(r, "badCode")
            /\ otp' = IF otp \in expired THEN None ELSE otp
            /\ lockedBy' = Unlocked(r)
  /\ UNCHANGED <<issued, expired, user, op, code, old, copy, preloaded, attempts,
                 accepted>>

(* checkOtp: delete the row that was read and commit, which releases the   *)
(* lock.  A row that is gone by now is only warned about.                  *)
Consume(r) ==
  /\ pc[r] = "consume"
  /\ otp' = IF otp = seen[r] THEN None ELSE otp
  /\ accepted' = [accepted EXCEPT ![seen[r]] = @ \cup {r}]
  /\ lockedBy' = Unlocked(r)
  /\ Goto(r, IF op[r] = "reset" THEN "lock" ELSE "write")
  /\ UNCHANGED <<issued, expired, user, op, code, old, copy, seen, preloaded,
                 attempts>>

Changed(r) ==
  [version  |-> user.version + 1,
   password |-> IF op[r] = "verify" THEN user.password ELSE r,
   verified |-> IF op[r] = "verify" THEN TRUE ELSE user.verified]

\* BUG variant: version_id is not compared.
WriteUnversioned(r) ==
  /\ pc[r] = "write"
  /\ lockedBy \in {None, r}
  /\ user' = Changed(r)
  /\ Goto(r, "ok")
  /\ lockedBy' = Unlocked(r)
  /\ UNCHANGED <<otp, issued, expired, op, code, old, copy, seen, preloaded,
                 attempts, accepted>>

(* UPDATE users ... WHERE version_id = the loaded one, and commit; 409     *)
(* when another commit came in between.                                    *)
Write(r) ==
  /\ pc[r] = "write"
  /\ lockedBy \in {None, r}
  /\ IF user.version = copy[r].version
       THEN user' = Changed(r) /\ Goto(r, "ok")
       ELSE UNCHANGED user /\ Goto(r, "conflict")
  /\ lockedBy' = Unlocked(r)
  /\ UNCHANGED <<otp, issued, expired, op, code, old, copy, seen, preloaded,
                 attempts, accepted>>

\* BUG variant: nobody counts the attempts.
TransientUnbounded(r) ==
  /\ pc[r] \in {"lock", "check", "consume", "write"}
  /\ op[r] = "reset" => pc[r] \in {"lock", "write"}
  /\ attempts' = [attempts EXCEPT ![r] = @ + 1]
  /\ Goto(r, IF r \in preloaded THEN "failed" ELSE "lock")
  /\ lockedBy' = Unlocked(r)
  /\ UNCHANGED <<otp, issued, expired, user, op, code, old, copy, seen, preloaded,
                 accepted>>

(* A deadlock victim inside run_with_transient_retry: rolled back and run  *)
(* again from the lock, while attempts are left.  The rollback expires a   *)
(* preloaded user, whose id the retry then cannot read.                    *)
Transient(r) ==
  /\ pc[r] \in {"lock", "check", "consume", "write"}
  /\ op[r] = "reset" => pc[r] \in {"lock", "write"}
  /\ attempts[r] < MaxAttempts
  /\ attempts' = [attempts EXCEPT ![r] = @ + 1]
  /\ Goto(r, IF attempts[r] + 1 = MaxAttempts \/ r \in preloaded THEN "failed"
             ELSE "lock")
  /\ lockedBy' = Unlocked(r)
  /\ UNCHANGED <<otp, issued, expired, user, op, code, old, copy, seen, preloaded,
                 accepted>>

\* The worker dies, or the client's connection is cancelled.
Crash(r) ==
  /\ pc[r] \in Waiting
  /\ Goto(r, "failed")
  /\ lockedBy' = Unlocked(r)
  /\ UNCHANGED <<otp, issued, expired, user, op, code, old, copy, seen, preloaded,
                 attempts, accepted>>

\* update_current_user_profile, as far as it matters here: another writer of
\* the user row.
ProfileWrite ==
  /\ lockedBy = None
  /\ user.version < MaxVersion
  /\ user' = [user EXCEPT !.version = @ + 1]
  /\ UNCHANGED <<otp, issued, expired, lockedBy, pc, op, code, old, copy, seen,
                 preloaded, attempts, accepted>>

Expire ==
  /\ otp # None
  /\ otp \notin expired
  /\ expired' = expired \cup {otp}
  /\ UNCHANGED <<otp, issued, user, lockedBy, pc, op, code, old, copy, seen,
                 preloaded, attempts, accepted>>

\* cleanup_expired_otps.
Cleanup ==
  /\ otp \in expired
  /\ otp' = None
  /\ UNCHANGED <<issued, expired, user, lockedBy, pc, op, code, old, copy, seen,
                 preloaded, attempts, accepted>>

Next ==
  \/ \E r \in Request :
       \/ Ask(r)
       \/ \E o \in Ops, c \in issued \cup {None}, p \in Password : Present(r, o, c, p)
       \/ SaveDelete(r)
       \/ \E c \in Code : SaveCommit(r, c)
       \/ Lock(r) \/ CheckRead(r) \/ Consume(r) \/ Write(r)
       \/ Transient(r) \/ Crash(r)
  \/ ProfileWrite
  \/ Expire
  \/ Cleanup

Spec == Init /\ [][Next]_vars

-----------------------------------------------------------------------------
\* A code is accepted for one of the requests that check it under the lock of
\* the user row (verification, password change), though they crash, are retried
\* and race with new codes, expiry, and resets that check codes without a lock.
AcceptedOnce ==
  \A c \in Code : \A q, r \in accepted[c] :
    op[q] # "reset" /\ op[r] # "reset" => q = r

\* A password change that asked for the old password replaces just that
\* password, although its lock was released when the code was consumed and the
\* user object it checked may have been loaded before the lock.
ReplacesWhatItChecked ==
  [][\A r \in Request :
       op[r] = "resetAuth" /\ pc[r] = "write" /\ pc'[r] = "ok"
       => user.password = old[r]]_vars
=============================================================================
