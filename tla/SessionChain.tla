----------------------------- MODULE SessionChain -----------------------------
(***************************************************************************)
(* What refresh-token rotation promises, with no requests, locks or Redis: *)
(* a login session is a chain of tokens of which at most one is usable.    *)
(* The session moves to a token never used before, or ends; an ended       *)
(* session never has a usable token again.                                 *)
(***************************************************************************)
CONSTANTS Token, Family

VARIABLES current,   \* current[f]: {t} while session f is open, {} otherwise
          used,      \* tokens given out so far
          begun      \* sessions begun so far

vars == <<current, used, begun>>

Init ==
  /\ current = [f \in Family |-> {}]
  /\ used = {}
  /\ begun = {}

Begin(f, t) ==
  /\ f \notin begun
  /\ t \notin used
  /\ current' = [current EXCEPT ![f] = {t}]
  /\ used' = used \cup {t}
  /\ begun' = begun \cup {f}

Advance(f, s, t) ==
  /\ current[f] = {s}
  /\ t \notin used
  /\ current' = [current EXCEPT ![f] = {t}]
  /\ used' = used \cup {t}
  /\ UNCHANGED begun

\* One statement may end several sessions (a logout ends all of a user's).
End(F) ==
  /\ current' = [f \in Family |-> IF f \in F THEN {} ELSE current[f]]
  /\ UNCHANGED <<used, begun>>

Next ==
  \/ \E f \in Family, t \in Token : Begin(f, t)
  \/ \E f \in Family, s, t \in Token : Advance(f, s, t)
  \/ \E F \in SUBSET Family : End(F)

Spec == Init /\ [][Next]_vars
=============================================================================
