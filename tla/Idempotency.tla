----------------------------- MODULE Idempotency -----------------------------
(***************************************************************************)
(* The idempotent decorator (app/services/idempotency_service.py) around a *)
(* handler that commits one change.  Requests that carry the same scope    *)
(* key (user, endpoint, Idempotency-Key) race through GET, SET NX, the     *)
(* handler, and SET or DEL, each its own await.                            *)
(***************************************************************************)
EXTENDS Requests

CONSTANTS Key,       \* scope keys
          Payload,   \* request fingerprints
          Faults     \* which of "redis", "late", "slow", "crash" can happen

\* by stands for the request_hash and the body the record holds: those of the
\* request that wrote it.
Record == [state : {"processing", "completed"}, by : Request]

ASSUME NoneAssumption == None \notin Request /\ None \notin Record
ASSUME FaultsAssumption == Faults \subseteq {"redis", "late", "slow", "crash"}

VARIABLES store,     \* store[k]: the Redis record, written by request .by
          pc,
          key,       \* key[r], payload[r]: what request r carries
          payload,
          body,      \* body[r]: the request whose result r answers with
          effects,   \* effects[k]: requests whose handler committed under k
          lapsed,    \* history: keys whose record expired when it mattered
          hurt       \* history: keys claimed blindly, or deleted behind a commit

vars == <<store, pc, key, payload, body, effects, lapsed, hurt>>

Running == {"run", "complete", "cleanup"}
Waiting == {"get", "claim"} \cup Running
Ended   == {"ok", "replayed", "conflict", "busy", "failed", "crashed"}

Runs(r, k) == key[r] = k /\ pc[r] \in Running

TypeOK ==
  /\ store \in [Key -> Record \cup {None}]
  /\ pc \in [Request -> {"idle"} \cup Waiting \cup Ended]
  /\ key \in [Request -> Key \cup {None}]
  /\ payload \in [Request -> Payload \cup {None}]
  /\ \A r \in Request :
       pc[r] \in Waiting \cup {"replayed"} => key[r] \in Key /\ payload[r] \in Payload
  /\ body \in [Request -> Request \cup {None}]
  /\ effects \in [Key -> SUBSET Request]
  /\ lapsed \subseteq Key
  /\ hurt \subseteq Key

Init ==
  /\ store = [k \in Key |-> None]
  /\ pc = [r \in Request |-> "idle"]
  /\ key = [r \in Request |-> None]
  /\ payload = [r \in Request |-> None]
  /\ body = [r \in Request |-> None]
  /\ effects = [k \in Key |-> {}]
  /\ lapsed = {}
  /\ hurt = {}

Goto(r, l) == pc' = [pc EXCEPT ![r] = l]

\* BUG variant: the scope key is not kept for the calls after the handler.
ArriveUnscoped(r, k, p) ==
  /\ pc[r] = "idle"
  /\ payload' = [payload EXCEPT ![r] = p]
  /\ Goto(r, "get")
  /\ UNCHANGED <<store, key, body, effects, lapsed, hurt>>

Arrive(r, k, p) ==
  /\ pc[r] = "idle"
  /\ key' = [key EXCEPT ![r] = k]
  /\ payload' = [payload EXCEPT ![r] = p]
  /\ Goto(r, "get")
  /\ UNCHANGED <<store, body, effects, lapsed, hurt>>

\* No Idempotency-Key header: the handler runs, the store is not consulted.
RunUnkeyed(r) ==
  /\ pc[r] = "idle"
  /\ body' = [body EXCEPT ![r] = r]
  /\ Goto(r, "ok")
  /\ UNCHANGED <<store, key, payload, effects, lapsed, hurt>>

\* get_idempotency_result finds nothing, or the call failed and it returns None.
GetMiss(r) ==
  /\ pc[r] = "get"
  /\ store[key[r]] = None \/ "redis" \in Faults
  /\ Goto(r, "claim")
  /\ UNCHANGED <<store, key, payload, body, effects, lapsed, hurt>>

SamePayload(r) == payload[store[key[r]].by] = payload[r]

\* BUG variant: the stored request hash is not compared.
GetHitAnyPayload(r) ==
  /\ pc[r] = "get"
  /\ store[key[r]] # None
  /\ IF store[key[r]].state = "completed"
       THEN /\ body' = [body EXCEPT ![r] = store[key[r]].by]
            /\ Goto(r, "replayed")
       ELSE UNCHANGED body /\ Goto(r, "busy")
  /\ UNCHANGED <<store, key, payload, effects, lapsed, hurt>>

(* A record exists: 409 for another payload, the stored body when it is    *)
(* completed, 409 while it is processing.                                  *)
GetHit(r) ==
  /\ pc[r] = "get"
  /\ store[key[r]] # None
  /\ CASE ~SamePayload(r) -> UNCHANGED body /\ Goto(r, "conflict")
       [] SamePayload(r) /\ store[key[r]].state = "completed" ->
            /\ body' = [body EXCEPT ![r] = store[key[r]].by]
            /\ Goto(r, "replayed")
       [] OTHER -> UNCHANGED body /\ Goto(r, "busy")
  /\ UNCHANGED <<store, key, payload, effects, lapsed, hurt>>

\* BUG variant: SET without NX.
ClaimAlways(r) ==
  /\ pc[r] = "claim"
  /\ store' = [store EXCEPT ![key[r]] = [state |-> "processing", by |-> r]]
  /\ Goto(r, "run")
  /\ UNCHANGED <<key, payload, body, effects, lapsed, hurt>>

(* set_idempotency_processing: SET NX.  A failed call counts as a success. *)
Claim(r) ==
  /\ pc[r] = "claim"
  /\ \/ /\ store[key[r]] = None
        /\ store' = [store EXCEPT ![key[r]] = [state |-> "processing", by |-> r]]
        /\ Goto(r, "run")
        /\ UNCHANGED hurt
     \/ /\ store[key[r]] # None
        /\ Goto(r, "busy")
        /\ UNCHANGED <<store, hurt>>
     \/ /\ "redis" \in Faults
        /\ Goto(r, "run")
        /\ hurt' = hurt \cup {key[r]}
        /\ UNCHANGED store
  /\ UNCHANGED <<key, payload, body, effects, lapsed>>

\* The handler commits its change.
Commit(r) ==
  /\ pc[r] = "run"
  /\ effects' = [effects EXCEPT ![key[r]] = @ \cup {r}]
  /\ body' = [body EXCEPT ![r] = r]
  /\ Goto(r, "complete")
  /\ UNCHANGED <<store, key, payload, lapsed, hurt>>

\* The handler raises: before it commits (a 404, a 403, a lost race), or after
\* it (the task queue refuses the notification it publishes next).
HandlerRaises(r) ==
  /\ \/ pc[r] = "run" /\ UNCHANGED hurt
     \/ /\ pc[r] = "complete"
        /\ "late" \in Faults
        /\ hurt' = hurt \cup {key[r]}
  /\ Goto(r, "cleanup")
  /\ UNCHANGED <<store, key, payload, body, effects, lapsed>>

\* set_idempotency_completed: an unconditional SET, its failure swallowed.
Complete(r) ==
  /\ pc[r] = "complete"
  /\ \/ store' = [store EXCEPT ![key[r]] = [state |-> "completed", by |-> r]]
     \/ "redis" \in Faults /\ UNCHANGED store
  /\ Goto(r, "ok")
  /\ UNCHANGED <<key, payload, body, effects, lapsed, hurt>>

\* delete_idempotency_key: an unconditional DEL, its failure swallowed.
Cleanup(r) ==
  /\ pc[r] = "cleanup"
  /\ \/ store' = [store EXCEPT ![key[r]] = None]
     \/ "redis" \in Faults /\ UNCHANGED store
  /\ Goto(r, "failed")
  /\ UNCHANGED <<key, payload, body, effects, lapsed, hurt>>

(* The TTL of a record runs out: 24 hours for a completed one, one hour    *)
(* for a processing one, which outlives the run of its writer unless that  *)
(* is slower than an hour.                                                 *)
Expire(k) ==
  /\ store[k] # None
  /\ Runs(store[k].by, k) => "slow" \in Faults
  /\ store' = [store EXCEPT ![k] = None]
  /\ lapsed' = IF effects[k] # {} \/ \E r \in Request : Runs(r, k)
                 THEN lapsed \cup {k} ELSE lapsed
  /\ UNCHANGED <<pc, key, payload, body, effects, hurt>>

Crash(r) ==
  /\ "crash" \in Faults
  /\ pc[r] \in Waiting
  /\ Goto(r, "crashed")
  /\ UNCHANGED <<store, key, payload, body, effects, lapsed, hurt>>

Step(r) ==
  \/ GetMiss(r) \/ GetHit(r) \/ Claim(r)
  \/ Commit(r) \/ HandlerRaises(r)
  \/ Complete(r) \/ Cleanup(r)

Next ==
  \/ \E r \in Request :
       \/ \E k \in Key, p \in Payload : Arrive(r, k, p)
       \/ RunUnkeyed(r)
       \/ Step(r)
       \/ Crash(r)
  \/ \E k \in Key : Expire(k)

Spec == Init /\ [][Next]_vars

-----------------------------------------------------------------------------
Once(k) == \A q, r \in effects[k] : q = r

\* However requests with one key race, crash and are retried, and although any
\* Redis call may fail, the change is made at most once, until the record of a
\* change already made (or of a handler slower than the one-hour mark) has
\* expired.  Two failures only are excepted: a SET NX that raises, and an
\* exception behind the handler's commit.
AtMostOnce == \A k \in Key \ (lapsed \cup hurt) : Once(k)

\* A replayed response is that of a request with the same key and the same
\* payload whose change was committed, whatever fails.
ReplayIsGenuine ==
  \A r \in Request :
    pc[r] = "replayed" =>
      /\ body[r] \in effects[key[r]]
      /\ payload[body[r]] = payload[r]
=============================================================================
