------------------------- MODULE RefreshTokensProofs -------------------------
(***************************************************************************)
(* Proofs about RefreshTokens, for any number of tokens, families, users   *)
(* and requests, with and without faults.                                  *)
(***************************************************************************)
EXTENDS RefreshTokens, TLAPS

(* The inductive invariant.  A request past its SELECT ... FOR UPDATE holds *)
(* the lock of the row it read (Locking), so the row it is about to rotate  *)
(* is still live (RotatesLive): nobody else can have revoked it meanwhile.  *)
(* From that follow one live token per family and one successor per token.  *)
(* A revocation that no rotation has overtaken has every row of its         *)
(* sessions in its snapshot (Covered); when it commits it holds the locks   *)
(* of them all, so nobody is left who could rotate one (RotatesLive).       *)
Locking ==
  \A r \in Request :
    pc[r] \in {"readGrace", "revokeFamily", "expire", "rotate"} =>
      lockedBy[token[r]] = r

RotatesLive == \A r \in Request : pc[r] = "rotate" => token[r] \notin revoked

Presented ==
  \A r \in Request :
    pc[r] \in {"lock", "readGrace", "revokeFamily", "expire", "rotate", "setGrace"}
      => token[r] \in issued

Committed ==
  /\ handed \subseteq issued
  /\ \A r \in Request : snap[r] \subseteq issued

ParentRevoked == \A t \in issued : parent[t] # NoToken => parent[t] \in revoked

OneSuccessor ==
  \A s, t \in issued : parent[s] = parent[t] /\ parent[s] # NoToken => s = t

Answers ==
  \A r \in Request :
    pc[r] = "setGrace" \/ (pc[r] = "ok" /\ token[r] # NoToken) =>
      answer[r] \in issued /\ parent[answer[r]] = token[r]

\* A login never looks at token[r], so it is still unset when it ends.
IdleUnset == \A r \in Request : pc[r] = "idle" => token[r] = NoToken

\* A token gets its parent only when it is issued.
FreshUnset == \A t \in Token \ issued : parent[t] = NoToken

Cached ==
  \A t \in Token : grace[t] # NoToken => grace[t] \in issued /\ parent[grace[t]] = t

Covered ==
  \A r \in Request :
    pc[r] = "sweep" =>
      \A s \in snap[r], t \in issued :
        family[t] = family[s] /\ family[s] \notin overtaken[r] => t \in snap[r]

Chained ==
  /\ Presented /\ Committed /\ ParentRevoked /\ OneSuccessor
  /\ Answers /\ IdleUnset /\ FreshUnset /\ Cached

Core ==
  /\ TypeOK
  /\ Locking /\ RotatesLive
  /\ Chained
  /\ OneLivePerFamily

IInv == Core /\ Covered /\ FinalUnlessOvertaken

-----------------------------------------------------------------------------
(* Facts about the helpers. *)

\* Releasing the locks of r leaves every other request's locks alone.
LEMMA ReleaseFrame ==
  ASSUME TypeOK, NEW r \in Request, Release(r)
  PROVE  /\ lockedBy' \in [Token -> Request \cup {NoRequest}]
         /\ \A q \in Request, t \in Token : q # r /\ lockedBy[t] = q => lockedBy'[t] = q
  BY DEF TypeOK, Release

\* Taking a free lock leaves every other request's locks alone.
LEMMA TakeFrame ==
  ASSUME TypeOK, NEW r \in Request, NEW u \in Token, lockedBy[u] = NoRequest, Take(r, u)
  PROVE  /\ lockedBy' \in [Token -> Request \cup {NoRequest}]
         /\ \A q \in Request, t \in Token : lockedBy[t] = q => lockedBy'[t] = q
         /\ lockedBy'[u] = r
  BY NoRequestAssumption DEF TypeOK, Take

-----------------------------------------------------------------------------
(* RefreshTokens starts in the invariant. *)
LEMMA InitInv == Init => IInv
  BY NoTokenAssumption
  DEF Init, IInv, Core, TypeOK, Locking, RotatesLive, Chained, Presented, Committed,
      ParentRevoked, OneSuccessor, Answers, IdleUnset, FreshUnset, Cached, OneLivePerFamily,
      Covered, FinalUnlessOvertaken, PCs, Live

(* Every step keeps the core of the invariant: one step per action. *)
LEMMA CoreStep == IInv /\ [Next]_vars => Core'
<1> SUFFICES ASSUME IInv, [Next]_vars PROVE Core'
  OBVIOUS
<1> USE DEF IInv, Core, TypeOK, Locking, RotatesLive, Chained, Presented, Committed,
            ParentRevoked, OneSuccessor, Answers, IdleUnset, FreshUnset, Cached,
            OneLivePerFamily, Live, PCs, Waiting, Answered, Goto
<1>1. ASSUME NEW r \in Request, NEW f \in Family, NEW t \in Token, Login(r, f, t)
      PROVE  Core'
  BY <1>1 DEF Login, FamilyRows
<1>2. ASSUME NEW r \in Request, NEW t \in Token, Present(r, t)
      PROVE  Core'
  BY <1>2 DEF Present
<1>3. ASSUME NEW r \in Request, PresentUnknown(r)
      PROVE  Core'
  BY <1>3 DEF PresentUnknown
<1>4. ASSUME NEW r \in Request, NEW u \in User, StartRevokeAll(r, u)
      PROVE  Core'
  BY <1>4 DEF StartRevokeAll, UserRows
<1>5. ASSUME NEW r \in Request, LockToken(r)
      PROVE  Core'
  BY <1>5, TakeFrame DEF LockToken
<1>6. ASSUME NEW r \in Request, GraceHit(r)
      PROVE  Core'
  BY <1>6, ReleaseFrame DEF GraceHit
<1>7. ASSUME NEW r \in Request, GraceMiss(r)
      PROVE  Core'
  BY <1>7 DEF GraceMiss
<1>8. ASSUME NEW r \in Request, StartRevokeFamily(r)
      PROVE  Core'
  BY <1>8 DEF StartRevokeFamily, FamilyRows
<1>9. ASSUME NEW r \in Request, NEW t \in Token, SweepLock(r, t)
      PROVE  Core'
  BY <1>9, TakeFrame DEF SweepLock
<1>10. ASSUME NEW r \in Request, SweepCommit(r)
      PROVE  Core'
  BY <1>10, ReleaseFrame DEF SweepCommit
<1>11. ASSUME NEW r \in Request, ExpireCommit(r)
      PROVE  Core'
  BY <1>11, ReleaseFrame DEF ExpireCommit
<1>12. ASSUME NEW r \in Request, NEW t \in Token, RotateCommit(r, t)
      PROVE  Core'
  BY <1>12, ReleaseFrame DEF RotateCommit, Overtake
<1>13. ASSUME NEW r \in Request, SetGrace(r)
      PROVE  Core'
  BY <1>13 DEF SetGrace
<1>14. ASSUME NEW r \in Request, DeadlockAbort(r)
      PROVE  Core'
  BY <1>14, ReleaseFrame DEF DeadlockAbort
<1>15. ASSUME NEW r \in Request, Crash(r)
      PROVE  Core'
  BY <1>15, ReleaseFrame DEF Crash
<1>16. ASSUME NEW t \in Token, GraceExpires(t)
      PROVE  Core'
  BY <1>16 DEF GraceExpires
<1>17. ASSUME NEW t \in Token, TokenExpires(t)
      PROVE  Core'
  BY <1>17 DEF TokenExpires
<1>18. CASE UNCHANGED vars
  BY <1>18 DEF vars
<1> QED
  BY <1>1, <1>2, <1>3, <1>4, <1>5, <1>6, <1>7, <1>8, <1>9, <1>10, <1>11, <1>12,
     <1>13, <1>14, <1>15, <1>16, <1>17, <1>18 DEF Next, Step

(* Every step keeps what is claimed of revocations. *)
LEMMA RevocationStep == IInv /\ [Next]_vars => Covered' /\ FinalUnlessOvertaken'
<1> SUFFICES ASSUME IInv, [Next]_vars PROVE Covered' /\ FinalUnlessOvertaken'
  OBVIOUS
<1> USE DEF IInv, Core, TypeOK, Covered, FinalUnlessOvertaken, Live, Goto
<1>1. ASSUME NEW r \in Request, NEW f \in Family, NEW t \in Token, Login(r, f, t)
      PROVE  Covered' /\ FinalUnlessOvertaken'
  BY <1>1 DEF Login, FamilyRows, Chained, Committed
<1>2. ASSUME NEW r \in Request, NEW t \in Token, Present(r, t)
      PROVE  Covered' /\ FinalUnlessOvertaken'
  BY <1>2 DEF Present
<1>3. ASSUME NEW r \in Request, PresentUnknown(r)
      PROVE  Covered' /\ FinalUnlessOvertaken'
  BY <1>3 DEF PresentUnknown
<1>4. ASSUME NEW r \in Request, NEW u \in User, StartRevokeAll(r, u)
      PROVE  Covered' /\ FinalUnlessOvertaken'
  BY <1>4 DEF StartRevokeAll, UserRows
<1>5. ASSUME NEW r \in Request, LockToken(r)
      PROVE  Covered' /\ FinalUnlessOvertaken'
  BY <1>5 DEF LockToken
<1>6. ASSUME NEW r \in Request, GraceHit(r)
      PROVE  Covered' /\ FinalUnlessOvertaken'
  BY <1>6 DEF GraceHit
<1>7. ASSUME NEW r \in Request, GraceMiss(r)
      PROVE  Covered' /\ FinalUnlessOvertaken'
  BY <1>7 DEF GraceMiss
<1>8. ASSUME NEW r \in Request, StartRevokeFamily(r)
      PROVE  Covered' /\ FinalUnlessOvertaken'
  BY <1>8 DEF StartRevokeFamily, FamilyRows
<1>9. ASSUME NEW r \in Request, NEW t \in Token, SweepLock(r, t)
      PROVE  Covered' /\ FinalUnlessOvertaken'
  BY <1>9 DEF SweepLock
<1>10. ASSUME NEW r \in Request, SweepCommit(r)
      PROVE  Covered' /\ FinalUnlessOvertaken'
  BY <1>10 DEF SweepCommit
<1>11. ASSUME NEW r \in Request, ExpireCommit(r)
      PROVE  Covered' /\ FinalUnlessOvertaken'
  BY <1>11 DEF ExpireCommit
<1>12. ASSUME NEW r \in Request, NEW t \in Token, RotateCommit(r, t)
      PROVE  Covered' /\ FinalUnlessOvertaken'
  BY <1>12 DEF RotateCommit, Overtake, RotatesLive, Chained, Presented, Committed
<1>13. ASSUME NEW r \in Request, SetGrace(r)
      PROVE  Covered' /\ FinalUnlessOvertaken'
  BY <1>13 DEF SetGrace
<1>14. ASSUME NEW r \in Request, DeadlockAbort(r)
      PROVE  Covered' /\ FinalUnlessOvertaken'
  BY <1>14 DEF DeadlockAbort
<1>15. ASSUME NEW r \in Request, Crash(r)
      PROVE  Covered' /\ FinalUnlessOvertaken'
  BY <1>15 DEF Crash
<1>16. ASSUME NEW t \in Token, GraceExpires(t)
      PROVE  Covered' /\ FinalUnlessOvertaken'
  BY <1>16 DEF GraceExpires
<1>17. ASSUME NEW t \in Token, TokenExpires(t)
      PROVE  Covered' /\ FinalUnlessOvertaken'
  BY <1>17 DEF TokenExpires
<1>18. CASE UNCHANGED vars
  BY <1>18 DEF vars
<1> QED
  BY <1>1, <1>2, <1>3, <1>4, <1>5, <1>6, <1>7, <1>8, <1>9, <1>10, <1>11, <1>12,
     <1>13, <1>14, <1>15, <1>16, <1>17, <1>18 DEF Next, Step

\* Every step keeps the invariant.
LEMMA StepInv == IInv /\ [Next]_vars => IInv'
  BY CoreStep, RevocationStep DEF IInv

-----------------------------------------------------------------------------
(* The invariant of the specification, and what follows from it. *)
THEOREM Inductive == Spec => []IInv
  BY InitInv, StepInv, PTL DEF Spec

\* The types are kept by every login, rotation, sweep, abort and crash.
THEOREM TypeCorrect == Spec => []TypeOK
  BY Inductive, PTL DEF IInv, Core

\* No interleaving of rotations, sweeps, aborts and crashes leaves a login
\* session with two usable refresh tokens.
THEOREM OneLive == Spec => []OneLivePerFamily
  BY Inductive, PTL DEF IInv, Core

\* A revocation that no rotation overtook ends its sessions for good, whatever
\* rotations and retries of them were or are under way.
THEOREM QuietRevocationEnds == Spec => []FinalUnlessOvertaken
  BY Inductive, PTL DEF IInv, Core

\* Answers follow from one successor per token.
LEMMA AnswersAgree == IInv => SameSuccessor
<1> SUFFICES ASSUME IInv, NEW q \in Request, NEW r \in Request,
                    pc[q] = "ok", pc[r] = "ok",
                    token[q] = token[r], token[r] # NoToken
             PROVE  answer[q] = answer[r]
  BY DEF SameSuccessor
<1>1. /\ answer[q] \in issued /\ parent[answer[q]] = token[q]
      /\ answer[r] \in issued /\ parent[answer[r]] = token[r]
  BY DEF IInv, Core, Chained, Answers
<1> QED
  BY <1>1 DEF IInv, Core, Chained, OneSuccessor

\* Clients that present the same token never get different successors.
THEOREM OneAnswer == Spec => []SameSuccessor
  BY Inductive, AnswersAgree, PTL

-----------------------------------------------------------------------------
(* RefreshTokens implements SessionChain. *)

Current == [f \in Family |-> {t \in FamilyRows(f) : t \notin revoked}]
Begun == {f \in Family : FamilyRows(f) # {}}

\* Steps that leave the rows alone are stutters of the session chain.
LEMMA Stutter ==
  ASSUME UNCHANGED <<issued, revoked, family>>
  PROVE  UNCHANGED Chain!vars
  BY DEF Chain!vars, FamilyRows

\* A login begins a session of the abstract specification.
LEMMA LoginBegins ==
  ASSUME IInv, NEW r \in Request, NEW f \in Family, NEW t \in Token, Login(r, f, t)
  PROVE  Chain!Next
<1> USE DEF IInv, Core, TypeOK, Login, FamilyRows
<1>1. ASSUME NEW g \in Family
      PROVE  Current[g]' = IF g = f THEN {t} ELSE Current[g]
  BY DEF Current
<1>2. Current' = [Current EXCEPT ![f] = {t}]
  BY <1>1 DEF Current
<1>3. Begun' = Begun \cup {f} /\ f \notin Begun
  BY DEF Begun
<1> QED
  BY <1>2, <1>3 DEF Chain!Next, Chain!Begin, Current, Begun

\* A rotation moves a session to its next token.
LEMMA RotationAdvances ==
  ASSUME IInv, NEW r \in Request, NEW t \in Token, RotateCommit(r, t)
  PROVE  Chain!Next
<1> USE DEF IInv, Core, TypeOK, FamilyRows, Chained, Presented, RotatesLive, OneLivePerFamily, Live
<1> DEFINE old == token[r]
           f == family[old]
<1>1. old \in issued /\ old \notin revoked /\ old \in Token /\ f \in Family /\ t \notin issued
  BY DEF RotateCommit
<1>2. Current[f] = {old}
  BY <1>1 DEF Current
<1>3. ASSUME NEW g \in Family
      PROVE  Current[g]' = IF g = f THEN {t} ELSE Current[g]
  BY <1>1 DEF Current, RotateCommit
<1>4. Current' = [Current EXCEPT ![f] = {t}]
  BY <1>3, <1>1 DEF Current
<1>5. Begun' = Begun
  BY <1>1 DEF Begun, RotateCommit
<1>6. issued' = issued \cup {t}
  BY DEF RotateCommit
<1>7. Chain!Advance(f, old, t)
  BY <1>1, <1>2, <1>4, <1>5, <1>6 DEF Chain!Advance, Current, Begun
<1> HIDE DEF old, f
<1> QED
  BY <1>1, <1>7 DEF Chain!Next, Chain!Advance

\* Revoking rows, however many, ends the sessions whose live token is among them.
LEMMA RevokingEnds ==
  ASSUME IInv, NEW S \in SUBSET Token, revoked' = revoked \cup S,
         UNCHANGED <<issued, family>>
  PROVE  Chain!Next
<1> DEFINE F == {f \in Family : \E t \in FamilyRows(f) : Live(t) /\ t \in S}
<1>1. ASSUME NEW f \in Family
      PROVE  Current[f]' = IF f \in F THEN {} ELSE Current[f]
  BY DEF IInv, Core, TypeOK, OneLivePerFamily, Current, FamilyRows, Live
<1>2. Current' = [f \in Family |-> IF f \in F THEN {} ELSE Current[f]]
  BY <1>1 DEF Current
<1>3. Begun' = Begun
  BY DEF Begun, FamilyRows
<1>4. Chain!End(F)
  BY <1>2, <1>3 DEF Chain!End, Current, Begun
<1>5. F \in SUBSET Family
  OBVIOUS
<1> HIDE DEF F
<1> QED
  BY <1>4, <1>5 DEF Chain!Next, Chain!End

\* Every other step ends sessions or stutters.
LEMMA StepRefines == IInv /\ [Next]_vars => [Chain!Next]_(Chain!vars)
<1> SUFFICES ASSUME IInv, [Next]_vars PROVE [Chain!Next]_(Chain!vars)
  OBVIOUS
<1>1. ASSUME NEW r \in Request, NEW f \in Family, NEW t \in Token, Login(r, f, t)
      PROVE  Chain!Next
  BY <1>1, LoginBegins
<1>2. ASSUME NEW r \in Request, NEW t \in Token, RotateCommit(r, t)
      PROVE  Chain!Next
  BY <1>2, RotationAdvances
<1>3. ASSUME NEW r \in Request, SweepCommit(r) \/ ExpireCommit(r)
      PROVE  Chain!Next
  <2>1. CASE SweepCommit(r)
    BY <2>1, RevokingEnds DEF SweepCommit, IInv, Core, TypeOK
  <2>2. CASE ExpireCommit(r)
    <3>1. {token[r]} \in SUBSET Token
      BY <2>2 DEF ExpireCommit, IInv, Core, TypeOK, Chained, Presented
    <3>2. revoked' = revoked \cup {token[r]} /\ UNCHANGED <<issued, family>>
      BY <2>2 DEF ExpireCommit
    <3> QED
      BY <3>1, <3>2, RevokingEnds
  <2> QED
    BY <1>3, <2>1, <2>2
<1>4. ASSUME NEW r \in Request,
             \/ \E t \in Token : Present(r, t)
             \/ PresentUnknown(r)
             \/ \E u \in User : StartRevokeAll(r, u)
             \/ LockToken(r) \/ GraceHit(r) \/ GraceMiss(r) \/ StartRevokeFamily(r)
             \/ \E t \in Token : SweepLock(r, t)
             \/ SetGrace(r) \/ DeadlockAbort(r) \/ Crash(r)
      PROVE  UNCHANGED <<issued, revoked, family>>
  BY <1>4 DEF Present, PresentUnknown, StartRevokeAll, LockToken, GraceHit, GraceMiss,
     StartRevokeFamily, SweepLock, SetGrace, DeadlockAbort, Crash
<1>5. ASSUME NEW t \in Token, GraceExpires(t) \/ TokenExpires(t)
      PROVE  UNCHANGED <<issued, revoked, family>>
  BY <1>5 DEF GraceExpires, TokenExpires
<1>6. CASE UNCHANGED vars
  BY <1>6, Stutter DEF vars
<1> QED
  BY <1>1, <1>2, <1>3, <1>4, <1>5, <1>6, Stutter DEF Next, Step

\* Every login session is a chain: it advances to a fresh token or ends, and
\* once it has ended no race brings a usable token of it back.
THEOREM Refinement == Spec => ChainSpec
<1>1. Init => Chain!Init
  BY DEF Init, Chain!Init, FamilyRows
<1> QED
  BY <1>1, Inductive, StepRefines, PTL DEF Spec, ChainSpec, Chain!Spec
=============================================================================
