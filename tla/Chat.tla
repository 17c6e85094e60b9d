-------------------------------- MODULE Chat --------------------------------
(***************************************************************************)
(* Chat over WebSockets: the socket dictionary of each worker              *)
(* (app/utils/socket_manager.py), the handler of one socket                *)
(* (app/messaging/chat.py) with its catch-up on missed messages, the       *)
(* commands it serves, and the delivery through Redis pub/sub.             *)
(*                                                                         *)
(* A handler is suspended at the await that pc[c] names; what it does      *)
(* between two awaits is one step.  A message and its content are an item  *)
(* <<m, version>>; an edit makes the next version.                         *)
(***************************************************************************)
EXTENDS Naturals, Sequences

CONSTANTS User,
          Conn,         \* sockets, each used once
          Worker,       \* processes of the application
          Nobody,
          Msg,          \* a set of numbers, in the order of created_at
          Owner,        \* Owner[c]: the user who authenticates on c
          From, To,     \* the two ends of a message
          MaxVersion,   \* bound on the versions of a message
          MaxQueue,     \* bound on the buffer of a subscription
          Connected,    \* sockets that are in the loop at the start
          Stored,       \* messages that were sent before, and are unread
          MaxEvents     \* bound on the commands and the faults of a behaviour

ASSUME NobodyAssumption == Nobody \notin Conn
ASSUME EndsAssumption == /\ Owner \in [Conn -> User]
                         /\ From \in [Msg -> User]
                         /\ To \in [Msg -> User]
ASSUME StartAssumption == Connected \subseteq Conn /\ Stored \subseteq Msg
ASSUME BoundAssumption == /\ Msg \subseteq Nat /\ MaxVersion \in Nat \ {0}
                          /\ MaxQueue \in Nat /\ MaxEvents \in Nat

Version == 1 .. MaxVersion
Item == Msg \X Version

\* What a payload is, as far as its delivery tells: a "message" carries
\* sender_id and receiver_id, the others do not; an "edit" carries content.
Payload == [to : User, kind : {"message", "edit", "notice"},
            items : SUBSET Item]
Row == [version : 0 .. MaxVersion, read : BOOLEAN, deleted : BOOLEAN]
Kind == {"none", "dm", "reply", "edit", "delete", "receipt"}

VARIABLES row,       \* messages; version 0 before it is sent
          lock,      \* lock[m]: the handler whose transaction locks the row
          active,    \* active[w][u]: active_connections of a worker
          listening, \* workers whose pub/sub listener runs
          queue,     \* queue[w]: what that listener has not delivered
          pc, status, worker,
          job,       \* job[c]: the command c serves
          pending,   \* pending[c]: missed items c has still to write
          events,    \* commands and faults so far
          \* history of the content that is stored now:
          written,   \* messages whose receiver got it on a socket
          marks,     \* how often a message was taken as unread
          excused    \* messages that were marked read without a write

vars == <<row, lock, active, listening, queue, pc, status, worker, job,
          pending, events, written, marks, excused>>
database == <<row, lock>>
sockets == <<active, status>>
pubsub == <<listening, queue>>
history == <<written, marks, excused>>

PC == {"new", "accept", "load", "claimed", "catchUp", "loop",
       "commit", "publish", "local", "mark", "echo", "leaving", "failing",
       "ended"}
\* "closing": ws.close is scheduled; "closed": by us; "gone": by the client.
Status == {"unopened", "open", "closing", "closed", "gone"}
\* where an exception ends the handler without a disconnect
Loading == {"load", "claimed"}
Idle == [kind |-> "none", msgs |-> {}, version |-> 0]

TypeOK ==
  /\ row \in [Msg -> Row]
  /\ lock \in [Msg -> Conn \cup {Nobody}]
  /\ \A m \in Msg : lock[m] # Nobody => pc[lock[m]] \in {"claimed", "commit"}
  /\ active \in [Worker -> [User -> Conn \cup {Nobody}]]
  /\ listening \subseteq Worker
  /\ queue \in [Worker -> Seq(Payload)]
  /\ pc \in [Conn -> PC]
  /\ status \in [Conn -> Status]
  /\ worker \in [Conn -> Worker]
  /\ job \in [Conn -> [kind : Kind, msgs : SUBSET Msg,
                       version : 0 .. MaxVersion]]
  /\ pending \in [Conn -> SUBSET Item]
  /\ events \in 0 .. MaxEvents
  /\ written \subseteq Msg
  /\ marks \in [Msg -> 0 .. 2]
  /\ excused \subseteq Msg

Init ==
  /\ row = [m \in Msg |-> [version |-> IF m \in Stored THEN 1 ELSE 0,
                         read |-> FALSE, deleted |-> FALSE]]
  /\ lock = [m \in Msg |-> Nobody]
  /\ worker \in [Conn -> Worker]
  /\ active = [w \in Worker |-> [u \in User |->
       LET here == {c \in Connected : Owner[c] = u /\ worker[c] = w} IN
       IF here = {} THEN Nobody ELSE CHOOSE c \in here : TRUE]]
  /\ listening = Worker
  /\ queue = [w \in Worker |-> <<>>]
  /\ pc = [c \in Conn |-> IF c \in Connected THEN "loop" ELSE "new"]
  /\ status = [c \in Conn |-> IF c \in Connected THEN "open" ELSE "unopened"]
  /\ job = [c \in Conn |-> Idle]
  /\ pending = [c \in Conn |-> {}]
  /\ events = 0
  /\ written = {} /\ excused = {}
  /\ marks = [m \in Msg |-> 0]

\* one more command, or fault: an exception, a broken socket, an outage
Another == events < MaxEvents /\ events' = events + 1

Current(m) == <<m, row[m].version>>
Sent(m) == row[m].version > 0
Live(m) == Sent(m) /\ ~row[m].deleted
Unlocked(c) == [m \in Msg |-> IF lock[m] = c THEN Nobody ELSE lock[m]]
CurrentIn(items) == {m \in Msg : Current(m) \in items}
Write(items) == written' = written \cup CurrentIn(items)
Excuse(items) == excused' = excused \cup CurrentIn(items)
Marked(items) ==
  marks' = [m \in Msg |-> IF Current(m) \in items /\ marks[m] < 2
                             THEN marks[m] + 1 ELSE marks[m]]

-----------------------------------------------------------------------------
(* The socket dictionary.                                                  *)

\* a socket whose handler has returned
Shut(s) == IF s = "gone" THEN s ELSE "closed"
\* the sockets after ws.close of c was scheduled
Closing(c) == IF c \in Conn /\ status[c] = "open"
                THEN [status EXCEPT ![c] = "closing"] ELSE status

\* disconnect with client_initiated = False
Disconnect(w, u) == /\ active' = [active EXCEPT ![w][u] = Nobody]
                    /\ status' = Closing(active[w][u])

\* get_presence_payload uses an undefined name, so that a payload with both
\* ids raises before it is written, as does one on a socket that is closed.
Writable(c, p) == status[c] \in {"open", "closing"} /\ p.kind # "message"

\* send_personal_message and send_json_to_user of worker w.
Push(w, p) ==
  LET c == active[w][p.to] IN
  \/ c = Nobody /\ UNCHANGED <<sockets, written>>
  \/ /\ c # Nobody /\ Writable(c, p)
     /\ Write({i \in p.items : To[i[1]] = p.to})
     /\ UNCHANGED sockets
  \/ /\ c # Nobody /\ ~Writable(c, p)
     /\ Disconnect(w, p.to)
     /\ UNCHANGED written

Peers(u) == {v \in User \ {u} :
               \E m \in Msg : Sent(m) /\ {From[m], To[m]} = {u, v}}
\* broadcast_presence_update: a notice to every peer on the worker, which
\* removes the sockets that cannot be written.
Noticed(w, u) ==
  [v \in User |-> LET c == active[w][v] IN
     IF v \in Peers(u) /\ c # Nobody /\ status[c] \in {"closed", "gone"}
       THEN Nobody ELSE c]

\* chat, connect: a client with a valid token; the old socket of the user
\* on this worker is closed, then websocket.accept is awaited
Connect(c) ==
  /\ pc[c] = "new"
  /\ pc' = [pc EXCEPT ![c] = "accept"]
  /\ Disconnect(worker[c], Owner[c])
  /\ UNCHANGED <<database, pubsub, worker, job, pending, events, history>>

\* The socket is registered, and its peers on the worker get a notice.
Accept(c) ==
  LET w == worker[c]
      u == Owner[c]
  IN /\ pc[c] = "accept"
     /\ pc' = [pc EXCEPT ![c] = "load"]
     /\ status' = [status EXCEPT ![c] = "open"]
     /\ active' = [active EXCEPT ![w] = [Noticed(w, u) EXCEPT ![u] = c]]
     /\ UNCHANGED <<database, pubsub, worker, job, pending, events, history>>

-----------------------------------------------------------------------------
(* load_missed_content: claim what is unread, then write it.               *)

Missed(u) == {m \in Msg : To[m] = u /\ Live(m) /\ ~row[m].read}

\* chat looks at the socket when it awaits the next frame: an application
\* that closed it itself gets an error, not a disconnect.
Receiving(c) == IF status[c] = "closed" THEN "failing" ELSE "loop"

\* SELECT ... FOR UPDATE SKIP LOCKED; without a row there is no UPDATE.
Load(c) ==
  LET batch == {m \in Missed(Owner[c]) : lock[m] = Nobody} IN
  /\ pc[c] = "load"
  /\ lock' = [m \in Msg |-> IF m \in batch THEN c ELSE lock[m]]
  /\ pending' = [pending EXCEPT ![c] = {Current(m) : m \in batch}]
  /\ pc' = [pc EXCEPT ![c] = IF batch = {} THEN Receiving(c)
                                                ELSE "claimed"]
  /\ UNCHANGED <<row, sockets, pubsub, worker, job, events, history>>

\* BUG variant: the UPDATE takes every unread message, not what was loaded.
ClaimedAll(c) ==
  LET batch == Missed(Owner[c]) IN
  /\ row' = [m \in Msg |-> IF m \in batch THEN [row[m] EXCEPT !.read = TRUE]
                                          ELSE row[m]]
  /\ Marked(pending[c])

\* UPDATE ... SET is_read of what was loaded, and its commit
Claimed(c) ==
  LET batch == {i[1] : i \in pending[c]} IN
  /\ row' = [m \in Msg |-> IF m \in batch THEN [row[m] EXCEPT !.read = TRUE]
                                          ELSE row[m]]
  /\ Marked(pending[c])

Claim(c) ==
  /\ pc[c] = "claimed"
  /\ pc' = [pc EXCEPT ![c] = "catchUp"]
  /\ Claimed(c)
  /\ lock' = Unlocked(c)
  /\ UNCHANGED <<sockets, pubsub, worker, job, pending, events, written,
                 excused>>

\* An exception before the loop ends the handler, and nothing disconnects:
\* the claim is rolled back, or was committed and is lost with its payloads.
LoadFails(c) ==
  /\ Another
  /\ pc[c] \in Loading
  /\ pc' = [pc EXCEPT ![c] = "ended"]
  /\ status' = [status EXCEPT ![c] = Shut(@)]
  /\ lock' = Unlocked(c)
  /\ pending' = [pending EXCEPT ![c] = {}]
  /\ \/ UNCHANGED <<row, marks, excused>>
     \/ Claimed(c) /\ Excuse(pending[c])
  /\ UNCHANGED <<active, pubsub, worker, job, written>>

\* the newest first: the sorted list is reversed
WriteMissed(c) ==
  /\ pc[c] = "catchUp" /\ status[c] \in {"open", "closing"}
  /\ \E i \in pending[c] :
       /\ \A j \in pending[c] : j[1] <= i[1]
       /\ Write({i})
       /\ pending' = [pending EXCEPT ![c] = @ \ {i}]
       /\ pc' = [pc EXCEPT ![c] = IF pending[c] = {i} THEN Receiving(c) ELSE @]
  /\ UNCHANGED <<database, sockets, pubsub, worker, job, events, marks,
                 excused>>

\* A write raises: on a closed socket, or because the reactions of a message
\* are rows that json does not encode.  The rest is dropped.
WriteBreaks(c) ==
  /\ pc[c] = "catchUp"
  /\ Excuse(pending[c])
  /\ pending' = [pending EXCEPT ![c] = {}]
  /\ pc' = [pc EXCEPT ![c] = Receiving(c)]
  /\ UNCHANGED <<database, sockets, pubsub, worker, job, events, written,
                 marks>>

-----------------------------------------------------------------------------
(* Commands.  A row lock is held from the UPDATE to the commit.            *)

Serving(c, kind, msgs) ==
  job' = [job EXCEPT ![c] = [kind |-> kind, msgs |-> msgs, version |-> 0]]

\* a row that no transaction has inserted
Fresh(m) == ~Sent(m) /\ lock[m] = Nobody

\* messageUser: INSERT and commit
Send(c, m) ==
  /\ pc[c] = "loop" /\ From[m] = Owner[c] /\ Fresh(m)
  /\ row' = [row EXCEPT ![m].version = 1]
  /\ job' = [job EXCEPT ![c] = [kind |-> "dm", msgs |-> {m}, version |-> 1]]
  /\ pc' = [pc EXCEPT ![c] = "publish"]
  /\ Another
  /\ UNCHANGED <<lock, sockets, pubsub, worker, pending, history>>

\* reply_msg locks the original; edit_message and delete_for_everyone update
\* one row; mark_as_read updates every unread row of one sender.
Update(c, kind, msgs, locked) ==
  /\ pc[c] = "loop"
  /\ \A m \in locked : lock[m] = Nobody
  /\ lock' = [m \in Msg |-> IF m \in locked THEN c ELSE lock[m]]
  /\ Serving(c, kind, msgs)
  /\ pc' = [pc EXCEPT ![c] = "commit"]
  /\ Another
  /\ UNCHANGED <<row, sockets, pubsub, worker, pending, history>>

Reply(c, m, original) ==
  /\ From[m] = Owner[c] /\ Fresh(m) /\ Live(original)
  /\ Update(c, "reply", {m}, {m, original})

Edit(c, m) ==
  /\ From[m] = Owner[c] /\ Live(m) /\ row[m].version < MaxVersion
  /\ Update(c, "edit", {m}, {m})

Delete(c, m) ==
  /\ From[m] = Owner[c] /\ Live(m)
  /\ Update(c, "delete", {m}, {m})

\* BUG variant: the UPDATE takes what is already read.
ReceiptOfAll(c, sender) ==
  LET sent == {m \in Msg : From[m] = sender /\ To[m] = Owner[c] /\ Sent(m)} IN
  sent # {} /\ Update(c, "receipt", sent, sent)

Receipt(c, sender) ==
  LET unread == {m \in Msg : /\ From[m] = sender /\ To[m] = Owner[c]
                             /\ Sent(m) /\ ~row[m].read}
  IN /\ unread # {}
     /\ Update(c, "receipt", unread, unread)

Changed(r, kind) ==
  CASE kind = "reply" -> [r EXCEPT !.version = 1]
    [] kind = "edit" -> [r EXCEPT !.version = @ + 1, !.read = FALSE]
    [] kind = "delete" -> [r EXCEPT !.deleted = TRUE]
    [] kind = "receipt" -> [r EXCEPT !.read = TRUE]

\* the content is new: nobody got it
Renewed(msgs) ==
  /\ written' = written \ msgs /\ excused' = excused \ msgs
  /\ marks' = [m \in Msg |-> IF m \in msgs THEN 0 ELSE marks[m]]

\* A reply to a user who is not on this worker is not published.
Commit(c) ==
  LET kind == job[c].kind
      msgs == job[c].msgs
      items == IF kind = "receipt" THEN {Current(m) : m \in msgs} ELSE {}
      absent == \A m \in msgs : active[worker[c]][To[m]] = Nobody
  IN /\ pc[c] = "commit"
     /\ row' = [m \in Msg |-> IF m \in msgs THEN Changed(row[m], kind)
                                            ELSE row[m]]
     /\ lock' = Unlocked(c)
     /\ job' = [job EXCEPT ![c].version =
                  IF kind \in {"reply", "edit"}
                    THEN row'[CHOOSE m \in msgs : TRUE].version ELSE 0]
     /\ IF kind = "edit" THEN Renewed(msgs)
          ELSE Marked(items) /\ Excuse(items) /\ UNCHANGED written
     /\ pc' = [pc EXCEPT ![c] = IF kind = "reply" /\ absent THEN "echo"
                                                            ELSE "publish"]
     /\ UNCHANGED <<sockets, pubsub, worker, pending, events>>

\* BUG variant: the transaction of the failed command stays open.
CommandFailsLocked(c) ==
  /\ Another
  /\ pc[c] \in {"loop", "commit"}
  /\ pc' = [pc EXCEPT ![c] = "failing"]
  /\ job' = [job EXCEPT ![c] = Idle]
  /\ UNCHANGED <<database, sockets, pubsub, worker, pending, history>>

\* A handler of the loop raises, its transaction is rolled back, and chat
\* leaves the loop; mark_as_read catches what it raises.
CommandFails(c) ==
  /\ Another
  /\ pc[c] \in {"loop", "commit"}
  /\ pc' = [pc EXCEPT ![c] = IF job[c].kind = "receipt" THEN Receiving(c)
                                                       ELSE "failing"]
  /\ lock' = Unlocked(c)
  /\ job' = [job EXCEPT ![c] = Idle]
  /\ UNCHANGED <<row, sockets, pubsub, worker, pending, history>>

-----------------------------------------------------------------------------
(* Delivery: publish, and what each worker's listener does with it; the    *)
(* sends on the own worker, when publishing failed or in addition to it.   *)

\* A handler that is back in the loop has no command.
Served(c) == job' = IF pc'[c] \in {"loop", "failing"}
                      THEN [job EXCEPT ![c] = Idle] ELSE job

Subject(c) == CHOOSE m \in job[c].msgs : TRUE
Copy(c, u) ==
  LET kind == job[c].kind IN
  [to |-> u,
   kind |-> CASE kind \in {"dm", "reply"} -> "message"
              [] kind = "edit" -> "edit"
              [] OTHER -> "notice",
   items |-> IF kind \in {"dm", "reply", "edit"}
               THEN {<<Subject(c), job[c].version>>} ELSE {}]
OwnCopy(c) == Copy(c, From[Subject(c)])
\* both copies of a receipt are addressed to the sender of the messages
PeerCopy(c) == IF job[c].kind = "receipt" THEN OwnCopy(c)
                                          ELSE Copy(c, To[Subject(c)])

\* Redis PUBLISH reaches the workers that are subscribed.
Published(copies) ==
  [w \in Worker |-> IF w \in listening THEN queue[w] \o copies ELSE queue[w]]

\* Two publishes.  A deletion and a receipt are sent locally as well.
Publish(c) ==
  LET kind == job[c].kind IN
  /\ pc[c] = "publish"
  /\ \A w \in Worker : Len(queue[w]) + 2 <= MaxQueue
  /\ queue' = Published(<<OwnCopy(c), PeerCopy(c)>>)
  /\ pc' = [pc EXCEPT ![c] = CASE kind = "receipt" -> "echo"
                               [] kind = "delete" -> "local"
                               [] OTHER -> Receiving(c)]
  /\ Served(c)
  /\ UNCHANGED <<database, sockets, listening, worker, pending, events,
                 history>>

\* The first or the second of them raises.
PublishFails(c) ==
  /\ Another
  /\ pc[c] = "publish"
  /\ \A w \in Worker : Len(queue[w]) + 1 <= MaxQueue
  /\ \E copies \in {<<>>, <<OwnCopy(c)>>} : queue' = Published(copies)
  /\ pc' = [pc EXCEPT ![c] = IF job[c].kind = "receipt" THEN "echo"
                                                       ELSE "local"]
  /\ UNCHANGED <<database, sockets, listening, worker, job, pending, history>>

\* _redis_message_listener
Deliver(w) ==
  /\ w \in listening /\ queue[w] # <<>>
  /\ Push(w, Head(queue[w]))
  /\ queue' = [queue EXCEPT ![w] = Tail(@)]
  /\ UNCHANGED <<database, listening, pc, worker, job, pending, events, marks,
                 excused>>

\* The copy for the receiver; a failed write does not raise here.
Local(c) ==
  LET absent == active[worker[c]][To[Subject(c)]] = Nobody
      kind == job[c].kind
  IN /\ pc[c] = "local"
     /\ Push(worker[c], PeerCopy(c))
     /\ pc' = [pc EXCEPT ![c] =
                 IF kind = "reply" \/ (kind \in {"dm", "edit"} /\ ~absent)
                   THEN "mark" ELSE "echo"]
     /\ UNCHANGED <<database, pubsub, worker, job, pending, events, marks,
                    excused>>

\* UPDATE ... SET is_read WHERE is_read = FALSE, behind a local send
Mark(c) ==
  LET m == Subject(c)
      marked == IF row[m].read THEN {} ELSE {Current(m)}
  IN /\ pc[c] = "mark" /\ lock[m] = Nobody
     /\ row' = [row EXCEPT ![m].read = TRUE]
     /\ Marked(marked) /\ Excuse(marked)
     /\ pc' = [pc EXCEPT ![c] = "echo"]
     /\ UNCHANGED <<lock, sockets, pubsub, worker, job, pending, events,
                    written>>

Echo(c) ==
  /\ pc[c] = "echo"
  /\ Push(worker[c], OwnCopy(c))
  /\ pc' = [pc EXCEPT ![c] = Receiving(c)]
  /\ Served(c)
  /\ UNCHANGED <<database, pubsub, worker, pending, events, marks, excused>>

\* a command that only sends: typing, the answer to a heartbeat, a denied edit
Signal(c, u) ==
  /\ pc[c] = "loop"
  /\ Push(worker[c], [to |-> u, kind |-> "notice", items |-> {}])
  /\ UNCHANGED <<database, pubsub, pc, worker, job, pending, events, marks,
                 excused>>

-----------------------------------------------------------------------------
(* The end of a socket.                                                    *)

\* the task that disconnect created
CloseTask(c) ==
  /\ status[c] = "closing"
  /\ status' = [status EXCEPT ![c] = "closed"]
  /\ UNCHANGED <<database, active, pubsub, pc, worker, job, pending, events,
                 history>>

\* run_presence_watchdog
HeartbeatTimeout(c) ==
  /\ Another
  /\ status[c] = "open" /\ pc[c] # "ended"
  /\ status' = [status EXCEPT ![c] = "closed"]
  /\ UNCHANGED <<database, active, pubsub, pc, worker, job, pending,
                 history>>

ClientLeaves(c) ==
  /\ Another
  /\ status[c] = "open"
  /\ status' = [status EXCEPT ![c] = "gone"]
  /\ UNCHANGED <<database, active, pubsub, pc, worker, job, pending,
                 history>>

\* WebSocketDisconnect; mark_last_seen follows
ReceiveDisconnect(c) ==
  /\ pc[c] = "loop" /\ status[c] \in {"closed", "gone"}
  /\ pc' = [pc EXCEPT ![c] = "leaving"]
  /\ UNCHANGED <<database, sockets, pubsub, worker, job, pending, events,
                 history>>

\* BUG variant: the handler leaves its socket in the dictionary.
DepartStays(c) ==
  /\ pc[c] \in {"leaving", "failing"}
  /\ active' = [active EXCEPT ![worker[c]] = Noticed(worker[c], Owner[c])]
  /\ status' = [status EXCEPT ![c] = Shut(@)]
  /\ pc' = [pc EXCEPT ![c] = "ended"]
  /\ UNCHANGED <<database, pubsub, worker, job, pending, events, history>>

\* disconnect removes the socket of the user, whichever that is by now, and
\* the peers get a notice; the server closes a socket whose handler returns.
Depart(c) ==
  LET w == worker[c]
      u == Owner[c]
      after == IF pc[c] = "failing" THEN Closing(active[w][u]) ELSE status
  IN /\ pc[c] \in {"leaving", "failing"}
     /\ active' = [active EXCEPT ![w] = [Noticed(w, u) EXCEPT ![u] = Nobody]]
     /\ status' = [after EXCEPT ![c] = Shut(@)]
     /\ pc' = [pc EXCEPT ![c] = "ended"]
     /\ UNCHANGED <<database, pubsub, worker, job, pending, events, history>>

\* The listener ends with the first error of its subscription, for good.
ListenerDies(w) ==
  /\ Another
  /\ w \in listening
  /\ listening' = listening \ {w}
  /\ queue' = [queue EXCEPT ![w] = <<>>]
  /\ UNCHANGED <<database, sockets, pc, worker, job, pending, history>>

\* The process dies, and is started again with or without Redis.
Crash(w) ==
  LET lost == {c \in Conn : worker[c] = w /\ pc[c] \notin {"new", "ended"}}
      claimed == {c \in lost : pc[c] = "catchUp"}
  IN /\ Another
     /\ active' = [active EXCEPT ![w] = [u \in User |-> Nobody]]
     /\ queue' = [queue EXCEPT ![w] = <<>>]
     /\ listening' \in {listening \cup {w}, listening \ {w}}
     /\ lock' = [m \in Msg |-> IF lock[m] \in lost THEN Nobody ELSE lock[m]]
     /\ pc' = [c \in Conn |-> IF c \in lost THEN "ended" ELSE pc[c]]
     /\ status' = [c \in Conn |-> IF c \in lost THEN "closed" ELSE status[c]]
     /\ Excuse(UNION {pending[c] : c \in claimed})
     /\ pending' = [c \in Conn |-> IF c \in lost THEN {} ELSE pending[c]]
     /\ job' = [c \in Conn |-> IF c \in lost THEN Idle ELSE job[c]]
     /\ UNCHANGED <<row, worker, written, marks>>

-----------------------------------------------------------------------------
CatchUp(c) == Load(c) \/ Claim(c) \/ WriteMissed(c)
Leave(c) == ReceiveDisconnect(c) \/ Depart(c)
Handle(c) == \/ Accept(c) \/ CatchUp(c) \/ WriteBreaks(c)
             \/ Commit(c) \/ Publish(c) \/ Local(c) \/ Mark(c) \/ Echo(c)
             \/ CloseTask(c) \/ Leave(c)
Command(c) == \/ \E m \in Msg : Send(c, m) \/ Edit(c, m) \/ Delete(c, m)
              \/ \E m, original \in Msg : Reply(c, m, original)
              \/ \E u \in User : Receipt(c, u) \/ Signal(c, u)
Fault(c) == \/ LoadFails(c) \/ CommandFails(c) \/ PublishFails(c)
            \/ HeartbeatTimeout(c) \/ ClientLeaves(c)

Next == \/ \E c \in Conn : Connect(c) \/ Handle(c) \/ Command(c) \/ Fault(c)
        \/ \E w \in Worker : Deliver(w) \/ ListenerDies(w) \/ Crash(w)

\* The event loop of a worker goes on while something can; which handler or
\* listener it resumes is open.  Clients and faults owe nothing.
Resume(w) == Deliver(w) \/ \E c \in Conn : worker[c] = w /\ Handle(c)
Fairness == \A w \in Worker : WF_vars(Resume(w))
Spec == Init /\ [][Next]_vars /\ Fairness

-----------------------------------------------------------------------------
\* No content of a message is taken as unread twice: two catch-ups of one
\* user, a receipt and the mark behind a local send exclude each other
\* (load_missed_content: "preventing duplicate delivery on concurrent
\* reconnects"; mark_as_read: "atomically").
MarkedOnce == \A m \in Msg : marks[m] < 2

\* What the row of a message calls read, its receiver got: the content that
\* is stored now was written to one of the receiver's sockets, or is about
\* to be, whatever edits and receipts ran beside the catch-up.  Excepted are
\* the losses of the code: catch-ups that broke, and marks without a send.
ReadIsWritten ==
  \A m \in Msg : Live(m) /\ row[m].read =>
    \/ m \in written \cup excused
    \/ \E c \in Conn : Current(m) \in pending[c]

\* A socket that was closed leaves the dictionary, unless its handler ended
\* before the loop: else the user stays online for good.
DeadSocketsLeave ==
  \A c \in Conn :
    status[c] \in {"closed", "gone"} /\ pc[c] \notin Loading \cup {"ended"}
      ~> active[worker[c]][Owner[c]] # c
=============================================================================
