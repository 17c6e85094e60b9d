---------------------------- MODULE ChatProofs -----------------------------
(***************************************************************************)
(* Chat: type correctness, and the two invariants on what is taken as      *)
(* read, for any number of users, sockets, workers and messages.           *)
(*                                                                         *)
(* Both rest on the row locks: what a catch-up has loaded, and what an     *)
(* open transaction changes, is as it was found when the claim or the      *)
(* commit takes it, so that a row is set to read at most once per content. *)
(***************************************************************************)
EXTENDS Chat, SequenceTheorems, TLAPS

\* the command a handler serves
Job == [kind : Kind, msgs : SUBSET Msg, version : 0 .. MaxVersion]

\* What a catch-up has loaded is locked, unread and unchanged until its claim;
\* nothing is to be written by a handler that is not catching up.
LoadedBy(c) ==
  /\ pc[c] = "claimed" => \A i \in pending[c] :
       /\ Current(i[1]) = i
       /\ lock[i[1]] = c /\ ~row[i[1]].read
  /\ pc[c] \notin {"claimed", "catchUp"} => pending[c] = {}
Loaded == \A c \in Conn : LoadedBy(c)

\* The rows of an open transaction are locked, and as the command found them.
Open(c) ==
  LET kind == job[c].kind IN
  /\ kind \in {"reply", "edit", "delete", "receipt"} /\ job[c].msgs # {}
  /\ \A m \in job[c].msgs :
       /\ lock[m] = c
       /\ kind = "reply" => ~Sent(m)
       /\ kind # "reply" => Sent(m)
       /\ kind = "edit" => row[m].version < MaxVersion
       /\ kind = "receipt" => ~row[m].read

\* A command whose row is committed is about messages that were sent.
Committed(c) ==
  LET kind == job[c].kind IN
  /\ kind # "none" /\ job[c].msgs # {}
  /\ \A m \in job[c].msgs : Sent(m)
  /\ kind \in {"dm", "reply", "edit"} => job[c].version \in Version

WorkOf(c) ==
  /\ pc[c] = "commit" => Open(c)
  /\ pc[c] \in {"publish", "local", "mark", "echo"} => Committed(c)
Working == \A c \in Conn : WorkOf(c)

\* Only handlers that wait in a transaction hold locks.
Locking ==
  /\ lock \in [Msg -> Conn \cup {Nobody}]
  /\ \A m \in Msg : lock[m] # Nobody => pc[lock[m]] \in {"claimed", "commit"}

\* A message is marked exactly when its row is set to read.
MarkedIsRead == \A m \in Msg :
  /\ marks[m] = IF row[m].read THEN 1 ELSE 0
  /\ ~Sent(m) => ~row[m].read

ChatIInv == TypeOK /\ Loaded /\ Working /\ MarkedIsRead /\ ReadIsWritten

-----------------------------------------------------------------------------
\* Writing to a user leaves the dictionary and the sockets well formed, and
\* nothing that was written is taken back.
LEMMA PushKeeps ==
  ASSUME TypeOK, NEW w \in Worker, NEW p \in Payload, Push(w, p)
  PROVE  /\ active' \in [Worker -> [User -> Conn \cup {Nobody}]]
         /\ status' \in [Conn -> Status]
         /\ written' \subseteq Msg
         /\ written \subseteq written'
<1>1. p.to \in User
  BY DEF Payload
<1>2. /\ active \in [Worker -> [User -> Conn \cup {Nobody}]]
      /\ status \in [Conn -> Status] /\ written \subseteq Msg
  BY DEF TypeOK
<1>3. CASE UNCHANGED <<sockets, written>>
  BY <1>2, <1>3 DEF sockets
<1>4. ASSUME UNCHANGED sockets, NEW items \in SUBSET Item, Write(items)
      PROVE  /\ active' = active /\ status' = status
             /\ written' \subseteq Msg /\ written \subseteq written'
  BY <1>2, <1>4 DEF sockets, Write, CurrentIn
<1>5. ASSUME Disconnect(w, p.to), written' = written
      PROVE  /\ active' \in [Worker -> [User -> Conn \cup {Nobody}]]
             /\ status' \in [Conn -> Status]
  BY <1>1, <1>2, <1>5 DEF Disconnect, Closing, Status
<1>6. {i \in p.items : To[i[1]] = p.to} \in SUBSET Item
  BY DEF Payload
<1> QED
  BY <1>2, <1>3, <1>4, <1>5, <1>6 DEF Push

\* The copies that a committed command sends are payloads.
LEMMA CopiesType ==
  ASSUME TypeOK, NEW c \in Conn, Committed(c)
  PROVE  /\ Subject(c) \in Msg /\ Sent(Subject(c))
         /\ OwnCopy(c) \in Payload
         /\ PeerCopy(c) \in Payload
<1>1. job[c].msgs \subseteq Msg /\ job[c].msgs # {}
  BY DEF TypeOK, Committed
<1>2. Subject(c) \in job[c].msgs
  BY <1>1 DEF Subject
<1>3. Subject(c) \in Msg /\ Sent(Subject(c))
  BY <1>1, <1>2 DEF Committed
<1>4. ASSUME NEW u \in User PROVE Copy(c, u) \in Payload
  BY <1>3 DEF Copy, Payload, Committed, Item
<1>5. From[Subject(c)] \in User /\ To[Subject(c)] \in User
  BY <1>3, EndsAssumption
<1> QED
  BY <1>3, <1>4, <1>5 DEF OwnCopy, PeerCopy

\* A queue that copies were published to holds payloads.
LEMMA PublishedType ==
  ASSUME TypeOK, NEW copies \in Seq(Payload)
  PROVE  Published(copies) \in [Worker -> Seq(Payload)]
<1>1. \A w \in Worker : queue[w] \in Seq(Payload)
  BY DEF TypeOK
<1>2. \A w \in Worker : queue[w] \o copies \in Seq(Payload)
  BY <1>1
<1> QED
  BY <1>1, <1>2 DEF Published

\* The peers of a user lose only sockets.
LEMMA NoticedType ==
  ASSUME TypeOK, NEW w \in Worker, NEW u \in User
  PROVE  Noticed(w, u) \in [User -> Conn \cup {Nobody}]
<1>1. active[w] \in [User -> Conn \cup {Nobody}]
  BY DEF TypeOK
<1> QED
  BY <1>1 DEF Noticed

\* A missed item is of a message.
LEMMA ItemParts ==
  ASSUME NEW i \in Item
  PROVE  i[1] \in Msg /\ i[2] \in Version /\ i = <<i[1], i[2]>>
  BY DEF Item

\* The item of a message that was sent.
LEMMA CurrentItem ==
  ASSUME TypeOK, NEW m \in Msg, Sent(m)
  PROVE  Current(m) \in Item
  BY BoundAssumption DEF TypeOK, Row, Current, Sent, Item, Version

\* A transaction that ends leaves the locks of the others.
LEMMA Released ==
  ASSUME TypeOK, NEW c \in Conn, NEW l \in PC, lock' = Unlocked(c),
         pc' = [pc EXCEPT ![c] = l]
  PROVE  Locking'
  BY NobodyAssumption DEF TypeOK, Unlocked, Locking

\* A transaction locks rows that are free.
LEMMA Locked ==
  ASSUME TypeOK, NEW c \in Conn, NEW l \in {"claimed", "commit"},
         NEW S \in SUBSET Msg,
         lock' = [m \in Msg |-> IF m \in S THEN c ELSE lock[m]],
         pc' = [pc EXCEPT ![c] = l]
  PROVE  Locking'
  BY NobodyAssumption DEF TypeOK, Locking

\* What another handler has loaded, or has open, is left alone by a step that
\* keeps its rows and its locks.
LEMMA OthersKept ==
  ASSUME TypeOK, Loaded, Working, NEW d \in Conn,
         pc'[d] = pc[d], pending'[d] = pending[d], job'[d] = job[d],
         \A m \in Msg : lock[m] = d => lock'[m] = d /\ row'[m] = row[m],
         \A m \in Msg : Sent(m) => row'[m].version > 0
  PROVE  LoadedBy(d)' /\ WorkOf(d)'
<1>1. job[d].msgs \subseteq Msg /\ pending[d] \subseteq Item
  BY DEF TypeOK
<1>2. LoadedBy(d) /\ WorkOf(d)
  BY DEF Loaded, Working
<1>3. LoadedBy(d)'
  <2>1. ASSUME pc[d] = "claimed", NEW i \in pending[d]
        PROVE  Current(i[1])' = i /\ lock'[i[1]] = d /\ ~row'[i[1]].read
    <3>1. i[1] \in Msg
      BY <1>1, ItemParts
    <3> QED
      BY <1>2, <2>1, <3>1 DEF LoadedBy, Current
  <2> QED
    BY <1>2, <2>1 DEF LoadedBy
<1>4. WorkOf(d)'
  <2>1. ASSUME pc[d] = "commit" PROVE Open(d)'
    BY <1>1, <1>2, <2>1 DEF WorkOf, Open, Sent
  <2>2. ASSUME Committed(d) PROVE Committed(d)'
    BY <1>1, <2>2 DEF Committed, Sent
  <2> QED
    BY <1>2, <2>1, <2>2 DEF WorkOf
<1> QED
  BY <1>3, <1>4

\* Unread rows that are set to read are marked once.
LEMMA Reading ==
  ASSUME TypeOK, MarkedIsRead, NEW S \in SUBSET Msg,
         \A m \in S : Sent(m) /\ ~row[m].read,
         row' = [m \in Msg |-> IF m \in S THEN [row[m] EXCEPT !.read = TRUE]
         ELSE row[m]],
         marks' = [m \in Msg |-> IF m \in S /\ marks[m] < 2 THEN marks[m] + 1
           ELSE marks[m]]
  PROVE  /\ row' \in [Msg -> Row]
         /\ marks' \in [Msg -> 0 .. 2]
         /\ MarkedIsRead'
         /\ \A m \in Msg : row'[m].version = row[m].version
              /\ row'[m].deleted = row[m].deleted
         /\ \A m \in Msg : row'[m].read <=> row[m].read \/ m \in S
<1>1. \A m \in Msg : row[m] \in Row
  BY DEF TypeOK
<1>2. /\ row' \in [Msg -> Row]
      /\ \A m \in Msg : row'[m].version = row[m].version
           /\ row'[m].deleted = row[m].deleted
      /\ \A m \in Msg : row'[m].read <=> row[m].read \/ m \in S
  BY <1>1 DEF Row
<1>3. MarkedIsRead'
  BY <1>2 DEF MarkedIsRead, Sent
<1>4. marks' \in [Msg -> 0 .. 2]
  BY DEF TypeOK
<1> QED
  BY <1>2, <1>3, <1>4

\* A claim sets exactly what was loaded to read.
LEMMA ClaimedRows ==
  ASSUME TypeOK, Loaded, MarkedIsRead,
         NEW c \in Conn, pc[c] \in Loading, Claimed(c)
  PROVE  LET S == CurrentIn(pending[c]) IN
         /\ row' \in [Msg -> Row]
         /\ marks' \in [Msg -> 0 .. 2]
         /\ MarkedIsRead'
         /\ pending[c] = {Current(m) : m \in S}
         /\ \A m \in S : lock[m] = c
         /\ \A m \in Msg : row'[m].version = row[m].version
              /\ row'[m].deleted = row[m].deleted
         /\ \A m \in Msg : row'[m].read <=> row[m].read \/ m \in S
         /\ \A m \in Msg \ S : row'[m] = row[m]
<1> DEFINE S == CurrentIn(pending[c])
<1>1. pending[c] \subseteq Item /\ LoadedBy(c)
        /\ (pc[c] # "claimed" => pending[c] = {})
  BY DEF TypeOK, Loaded, LoadedBy, Loading
<1>2. \A i \in pending[c] : i[1] \in Msg /\ Current(i[1]) = i /\ lock[i[1]] = c
        /\ ~row[i[1]].read
  BY <1>1, ItemParts DEF LoadedBy
<1>3. S = {i[1] : i \in pending[c]} /\ S \subseteq Msg
  BY <1>2 DEF CurrentIn, Current
<1>4. pending[c] = {Current(m) : m \in S}
  BY <1>2, <1>3
<1>5. \A m \in S : Sent(m) /\ ~row[m].read /\ lock[m] = c
  <2> SUFFICES ASSUME NEW m \in S PROVE Sent(m) /\ ~row[m].read /\ lock[m] = c
    OBVIOUS
  <2>1. Current(m) \in Item
    BY <1>1 DEF CurrentIn
  <2>2. row[m].version \in Version
    BY <2>1 DEF Item, Current
  <2> QED
    BY <1>2, <1>3, <2>2 DEF Sent, Version
<1>6. row' = [m \in Msg |-> IF m \in S THEN [row[m] EXCEPT !.read = TRUE]
        ELSE row[m]]
  BY <1>3 DEF Claimed
<1>7. marks' = [m \in Msg |-> IF m \in S /\ marks[m] < 2 THEN marks[m] + 1
        ELSE marks[m]]
  BY DEF Claimed, Marked, CurrentIn
<1> HIDE DEF S
<1>8. /\ row' \in [Msg -> Row] /\ marks' \in [Msg -> 0 .. 2] /\ MarkedIsRead'
      /\ \A m \in Msg : row'[m].version = row[m].version
           /\ row'[m].deleted = row[m].deleted
      /\ \A m \in Msg : row'[m].read <=> row[m].read \/ m \in S
  <2>1. S \in SUBSET Msg /\ \A m \in S : Sent(m) /\ ~row[m].read
    BY <1>3, <1>5
  <2> QED
    BY <2>1, <1>6, <1>7, Reading
<1> QED
  BY <1>4, <1>5, <1>6, <1>8 DEF S

\* A command that opens a transaction finds its rows free and keeps them.
LEMMA UpdateKeeps ==
  ASSUME TypeOK, Loaded, Working, NEW c \in Conn,
         NEW kind \in {"reply", "edit", "delete", "receipt"},
         NEW msgs \in SUBSET Msg, NEW locked \in SUBSET Msg,
         msgs # {}, msgs \subseteq locked, Update(c, kind, msgs, locked),
         \A m \in msgs : /\ kind = "reply" => ~Sent(m)
                         /\ kind # "reply" => Sent(m)
                         /\ kind = "edit" => row[m].version < MaxVersion
                         /\ kind = "receipt" => ~row[m].read
  PROVE  TypeOK' /\ Loaded' /\ Working'
<1> USE DEF Job
<1>1. /\ lock' = [m \in Msg |-> IF m \in locked THEN c ELSE lock[m]]
      /\ pc' = [pc EXCEPT ![c] = "commit"] /\ pc[c] = "loop"
      /\ job' = [job EXCEPT ![c] = [kind |-> kind, msgs |-> msgs, version |-> 0]]
      /\ \A m \in locked : lock[m] = Nobody
      /\ row' = row /\ pending' = pending
  BY DEF Update, Serving
<1>2. job'[c] = [kind |-> kind, msgs |-> msgs, version |-> 0] /\ pc'[c] = "commit"
  BY <1>1 DEF TypeOK
<1>3. TypeOK'
  <2>1. Locking'
    BY <1>1, Locked
  <2>2. job' \in [Conn -> Job]
    BY <1>1, BoundAssumption DEF TypeOK, Kind
  <2>3. pc' \in [Conn -> PC]
    BY <1>1 DEF TypeOK, PC
  <2>4. events' \in 0 .. MaxEvents
    BY BoundAssumption DEF Update, Another, TypeOK
  <2> QED
    BY <2>1, <2>2, <2>3, <2>4 DEF Update, TypeOK, Locking, sockets, pubsub, history
<1>4. ASSUME NEW d \in Conn \ {c} PROVE LoadedBy(d)' /\ WorkOf(d)'
  <2>1. pc'[d] = pc[d] /\ pending'[d] = pending[d] /\ job'[d] = job[d]
    BY <1>1 DEF TypeOK
  <2>2. \A m \in Msg : lock[m] = d => lock'[m] = d /\ row'[m] = row[m]
    BY <1>1, NobodyAssumption
  <2>3. \A m \in Msg : Sent(m) => row'[m].version > 0
    BY <1>1 DEF Sent
  <2> QED
    BY <2>1, <2>2, <2>3, OthersKept
<1>5. LoadedBy(c)' /\ WorkOf(c)'
  <2>1. pending[c] = {}
    BY <1>1 DEF Loaded, LoadedBy
  <2>2. Open(c)'
    BY <1>1, <1>2 DEF Open, Sent
  <2> QED
    BY <1>1, <1>2, <2>1, <2>2 DEF LoadedBy, WorkOf
<1> QED
  BY <1>3, <1>4, <1>5 DEF Loaded, Working

\* What the commit of a command does to its rows: the marks are kept in step,
\* and what it leaves as read in a message that lives was excused.
LEMMA CommitRows ==
  ASSUME TypeOK, MarkedIsRead, NEW c \in Conn, Open(c), Commit(c)
  PROVE  LET msgs == job[c].msgs IN
         /\ row' \in [Msg -> Row]
         /\ marks' \in [Msg -> 0 .. 2]
         /\ written' \subseteq Msg /\ excused' \subseteq Msg
         /\ MarkedIsRead'
         /\ \A m \in Msg : Sent(m) \/ m \in msgs => row'[m].version > 0
         /\ \A m \in Msg \ msgs : /\ row'[m] = row[m]
                                  /\ m \in written => m \in written'
                                  /\ m \in excused => m \in excused'
         /\ \A m \in msgs : row'[m].deleted \/ ~row'[m].read \/ m \in excused'
<1> DEFINE kind == job[c].kind
           msgs == job[c].msgs
<1>1. /\ kind \in {"reply", "edit", "delete", "receipt"} /\ msgs \subseteq Msg
      /\ row' = [m \in Msg |-> IF m \in msgs THEN Changed(row[m], kind)
           ELSE row[m]]
      /\ \A m \in Msg : row[m] \in Row
  BY DEF Commit, Open, TypeOK
<1>2. /\ MaxVersion \in Nat /\ 1 \in 0 .. MaxVersion
      /\ \A m \in Msg : row[m].version \in 0 .. MaxVersion
      /\ \A m \in Msg : m \notin msgs => row'[m] = row[m]
  <2>1. MaxVersion \in Nat /\ 1 \in 0 .. MaxVersion
    BY BoundAssumption
  <2>2. \A m \in Msg : row[m].version \in 0 .. MaxVersion
    BY <1>1 DEF Row
  <2> HIDE DEF msgs, kind
  <2> QED
    BY <1>1, <2>1, <2>2
<1>3. CASE kind = "reply"
  <2>1. marks' = marks /\ excused' = excused /\ written' = written
    BY <1>3 DEF Commit, Marked, Excuse, CurrentIn, TypeOK
  <2>2. \A m \in msgs : Changed(row[m], kind) = [row[m] EXCEPT !.version = 1]
          /\ ~Sent(m)
    BY <1>3 DEF Changed, Open
  <2>3. \A m \in msgs : Changed(row[m], kind) \in Row
    <3> SUFFICES ASSUME NEW m \in msgs PROVE [row[m] EXCEPT !.version = 1] \in Row
      BY <2>2
    <3>1. row[m] \in Row
      BY <1>1
    <3> QED
      BY <1>2, <3>1 DEF Row
  <2>4. \A m \in msgs : row'[m].version = 1 /\ row'[m].read = row[m].read
    BY <1>1, <2>2 DEF Row
  <2> HIDE DEF kind, msgs
  <2>5. row' \in [Msg -> Row]
    BY <1>1, <2>3
  <2>6. MarkedIsRead'
    BY <1>1, <2>1, <2>2, <2>4 DEF MarkedIsRead, Sent
  <2>7. \A m \in msgs : ~row'[m].read
    BY <1>1, <2>2, <2>4 DEF MarkedIsRead
  <2>8. \A m \in Msg : Sent(m) \/ m \in msgs => row'[m].version > 0
    BY <1>2, <2>4 DEF Sent
  <2> QED
    BY <1>2, <2>1, <2>5, <2>6, <2>7, <2>8 DEF TypeOK, msgs
<1>4. CASE kind = "edit"
  <2>1. /\ written' = written \ msgs /\ excused' = excused \ msgs
        /\ marks' = [m \in Msg |-> IF m \in msgs THEN 0 ELSE marks[m]]
    BY <1>4 DEF Commit, Renewed
  <2>2. \A m \in msgs : /\ Changed(row[m], kind)
                             = [row[m] EXCEPT !.version = @ + 1, !.read = FALSE]
                        /\ row[m].version < MaxVersion
    BY <1>4 DEF Changed, Open
  <2>3. \A m \in msgs : Changed(row[m], kind) \in Row
    <3> SUFFICES ASSUME NEW m \in msgs
                 PROVE  [row[m] EXCEPT !.version = @ + 1, !.read = FALSE] \in Row
      BY <2>2
    <3>1. row[m] \in Row /\ m \in Msg
      BY <1>1
    <3>2. row[m].version < MaxVersion
      BY <2>2
    <3>3. row[m].version + 1 \in 0 .. MaxVersion
      <4> HIDE DEF msgs, kind
      <4> QED
        BY <1>2, <3>1, <3>2
    <3> QED
      BY <3>1, <3>3 DEF Row
  <2>4. \A m \in msgs : row'[m].version = row[m].version + 1
          /\ row'[m].read = FALSE
    BY <1>1, <2>2 DEF Row
  <2> HIDE DEF kind, msgs
  <2>6. row' \in [Msg -> Row]
    BY <1>1, <2>3
  <2>7. MarkedIsRead'
    BY <1>1, <2>1, <2>4 DEF MarkedIsRead, Sent
  <2>8. marks' \in [Msg -> 0 .. 2]
    BY <2>1 DEF TypeOK
  <2>9. \A m \in Msg : Sent(m) \/ m \in msgs => row'[m].version > 0
    <3>1. \A m \in msgs : row'[m].version > 0
      BY <1>1, <1>2, <2>4
    <3> QED
      BY <1>2, <3>1 DEF Sent
  <2>10. /\ written' \subseteq Msg /\ excused' \subseteq Msg
         /\ \A m \in Msg \ msgs : /\ m \in written => m \in written'
                                  /\ m \in excused => m \in excused'
    BY <2>1 DEF TypeOK
  <2> QED
    BY <1>2, <2>4, <2>6, <2>7, <2>8, <2>9, <2>10 DEF msgs
<1>5. CASE kind = "delete"
  <2>1. marks' = marks /\ excused' = excused /\ written' = written
    BY <1>5 DEF Commit, Marked, Excuse, CurrentIn, TypeOK
  <2>2. \A m \in msgs : Changed(row[m], kind) = [row[m] EXCEPT !.deleted = TRUE]
          /\ Sent(m)
    BY <1>5 DEF Changed, Open
  <2>3. \A m \in msgs : Changed(row[m], kind) \in Row
    BY <1>1, <2>2 DEF Row
  <2>4. \A m \in msgs : /\ row'[m].version = row[m].version
                        /\ row'[m].read = row[m].read
                        /\ row'[m].deleted = TRUE
    BY <1>1, <2>2 DEF Row
  <2> HIDE DEF kind, msgs
  <2>5. row' \in [Msg -> Row]
    BY <1>1, <2>3
  <2>6. MarkedIsRead'
    BY <1>1, <2>1, <2>4 DEF MarkedIsRead, Sent
  <2> QED
    BY <1>1, <2>1, <2>2, <2>4, <2>5, <2>6 DEF TypeOK, Sent, msgs
<1>6. CASE kind = "receipt"
  <2>1. \A m \in msgs : Sent(m) /\ ~row[m].read
    BY <1>6 DEF Open
  <2>2. row' = [m \in Msg |-> IF m \in msgs THEN [row[m] EXCEPT !.read = TRUE]
          ELSE row[m]]
    BY <1>1, <1>6 DEF Changed
  <2>3. written' = written /\ Marked({Current(m) : m \in msgs})
        /\ excused' = excused \cup CurrentIn({Current(m) : m \in msgs})
    BY <1>6 DEF Commit, Excuse
  <2>4. marks' = [m \in Msg |-> IF m \in msgs /\ marks[m] < 2 THEN marks[m] + 1
          ELSE marks[m]]
    BY <1>1, <2>3 DEF Marked, Current
  <2>5. excused' = excused \cup msgs
    BY <1>1, <2>3 DEF CurrentIn, Current
  <2> HIDE DEF kind, msgs
  <2>6. msgs \in SUBSET Msg
    BY <1>1
  <2>7. /\ row' \in [Msg -> Row] /\ marks' \in [Msg -> 0 .. 2] /\ MarkedIsRead'
        /\ \A m \in Msg : row'[m].version = row[m].version
             /\ row'[m].deleted = row[m].deleted
    BY <2>1, <2>2, <2>4, <2>6, Reading
  <2> QED
    BY <1>1, <2>1, <2>2, <2>3, <2>5, <2>7 DEF TypeOK, Sent, msgs
<1> QED
  BY <1>1, <1>3, <1>4, <1>5, <1>6


-----------------------------------------------------------------------------
\* Every step preserves the invariant.
LEMMA ChatInvStep == ChatIInv /\ [Next]_vars => ChatIInv'
<1> SUFFICES ASSUME ChatIInv, [Next]_vars PROVE ChatIInv'
  OBVIOUS
<1>0. TypeOK /\ Loaded /\ Working /\ MarkedIsRead /\ ReadIsWritten
  BY DEF ChatIInv
<1> USE <1>0, NobodyAssumption, EndsAssumption, BoundAssumption
    DEF Job, database, sockets, pubsub, history, Another, Current, Sent, Live
<1>1. ASSUME NEW c \in Conn, Connect(c)
      PROVE  ChatIInv'
  <2>1. TypeOK'
    BY <1>1 DEF Connect, Disconnect, Closing, Status, PC, TypeOK
  <2>2. Loaded'
    BY <1>1 DEF Connect, Disconnect, Closing, TypeOK, Loaded, LoadedBy
  <2>3. Working'
    BY <1>1 DEF Connect, Disconnect, Closing, TypeOK, Working, WorkOf, Open,
           Committed
  <2>4. MarkedIsRead'
    BY <1>1 DEF Connect, Disconnect, Closing, TypeOK, Loaded, LoadedBy,
           Working, WorkOf, Open, Committed, MarkedIsRead
  <2>5. ReadIsWritten'
    BY <1>1 DEF Connect, Disconnect, Closing, TypeOK, Loaded, LoadedBy,
           Working, WorkOf, Open, MarkedIsRead, ReadIsWritten
  <2> QED
    BY <2>1, <2>2, <2>3, <2>4, <2>5 DEF ChatIInv
<1>2. ASSUME NEW c \in Conn, Accept(c)
      PROVE  ChatIInv'
  <2>1. TypeOK'
    <3> DEFINE w == worker[c]
               u == Owner[c]
    <3>1. w \in Worker /\ u \in User
            /\ Noticed(w, u) \in [User -> Conn \cup {Nobody}]
      BY NoticedType DEF TypeOK
    <3>2. active' = [active EXCEPT ![w] = [Noticed(w, u) EXCEPT ![u] = c]]
      BY <1>2 DEF Accept
    <3>3. active' \in [Worker -> [User -> Conn \cup {Nobody}]]
      <4> HIDE DEF w, u
      <4> QED
        BY <3>1, <3>2 DEF TypeOK
    <3>4. pc' \in [Conn -> PC] /\ status' \in [Conn -> Status]
      BY <1>2 DEF Accept, TypeOK, PC, Status
    <3>5. \A m \in Msg : lock'[m] # Nobody => pc'[lock'[m]] \in {"claimed", "commit"}
      BY <1>2 DEF Accept, TypeOK
    <3> QED
      BY <3>3, <3>4, <3>5, <1>2 DEF Accept, TypeOK
  <2>2. Loaded'
    BY <1>2 DEF Accept, TypeOK, Loaded, LoadedBy
  <2>3. Working'
    BY <1>2 DEF Accept, TypeOK, Working, WorkOf, Open, Committed
  <2>4. MarkedIsRead'
    BY <1>2 DEF Accept, TypeOK, Loaded, LoadedBy, Working, WorkOf, Open,
           Committed, MarkedIsRead
  <2>5. ReadIsWritten'
    BY <1>2 DEF Accept, TypeOK, Loaded, LoadedBy, Working, WorkOf, Open,
           MarkedIsRead, ReadIsWritten
  <2> QED
    BY <2>1, <2>2, <2>3, <2>4, <2>5 DEF ChatIInv
<1>3. ASSUME NEW c \in Conn, Load(c)
      PROVE  ChatIInv'
  <2> DEFINE batch == {m \in Missed(Owner[c]) : lock[m] = Nobody}
  <2>0. /\ batch \subseteq Msg
        /\ \A m \in batch : Sent(m) /\ ~row[m].read /\ lock[m] = Nobody
        /\ pc[c] = "load" /\ pending[c] = {}
        /\ lock' = [m \in Msg |-> IF m \in batch THEN c ELSE lock[m]]
        /\ pending' = [pending EXCEPT ![c] = {Current(m) : m \in batch}]
        /\ pc' = [pc EXCEPT ![c] = IF batch = {} THEN Receiving(c) ELSE "claimed"]
        /\ UNCHANGED <<row, sockets, pubsub, worker, job, events, history>>
    BY <1>3 DEF Load, Missed, Loaded, LoadedBy
  <2> HIDE DEF batch
  <2>1. TypeOK'
    <3>1. Locking'
      <4>1. CASE batch = {}
        BY <2>0, <4>1 DEF TypeOK, Locking
      <4>2. CASE batch # {}
        BY <2>0, <4>2, Locked
      <4> QED
        BY <4>1, <4>2
    <3>2. {Current(m) : m \in batch} \subseteq Item
      BY <2>0, CurrentItem
    <3>3. pending' \in [Conn -> SUBSET Item]
      BY <2>0, <3>2 DEF TypeOK
    <3>4. pc' \in [Conn -> PC]
      BY <2>0 DEF TypeOK, PC, Receiving
    <3> QED
      BY <2>0, <3>1, <3>3, <3>4 DEF TypeOK, Locking
  <2>2. Loaded' /\ Working'
    <3>1. ASSUME NEW d \in Conn \ {c} PROVE LoadedBy(d)' /\ WorkOf(d)'
      <4>1. pc'[d] = pc[d] /\ pending'[d] = pending[d] /\ job'[d] = job[d]
        BY <2>0 DEF TypeOK
      <4>2. \A m \in Msg : lock[m] = d => lock'[m] = d /\ row'[m] = row[m]
        BY <2>0 DEF TypeOK
      <4>3. \A m \in Msg : Sent(m) => row'[m].version > 0
        BY <2>0 DEF TypeOK
      <4> QED
        BY <4>1, <4>2, <4>3, OthersKept
    <3>2. LoadedBy(c)' /\ WorkOf(c)'
      <4>1. pc'[c] \in {"failing", "loop", "claimed"}
              /\ (pc'[c] # "claimed" => batch = {})
            /\ pending'[c] = {Current(m) : m \in batch}
        BY <2>0 DEF Receiving, TypeOK
      <4>2. ASSUME NEW i \in pending'[c]
            PROVE  Current(i[1])' = i /\ lock'[i[1]] = c /\ ~row'[i[1]].read
        BY <2>0, <4>1, <4>2
      <4> QED
        BY <4>1, <4>2 DEF LoadedBy, WorkOf
    <3> QED
      BY <3>1, <3>2 DEF Loaded, Working
  <2>4. MarkedIsRead'
    BY <2>0 DEF MarkedIsRead
  <2>5. ReadIsWritten'
    <3>1. \A d \in Conn : pending[d] \subseteq pending'[d]
      BY <2>0 DEF TypeOK
    <3> QED
      BY <2>0, <3>1 DEF ReadIsWritten
  <2> QED
    BY <2>1, <2>2, <2>4, <2>5 DEF ChatIInv
<1>4. ASSUME NEW c \in Conn, Claim(c)
      PROVE  ChatIInv'
  <2> DEFINE S == CurrentIn(pending[c])
  <2>0. /\ row' \in [Msg -> Row]
        /\ marks' \in [Msg -> 0 .. 2]
        /\ MarkedIsRead'
        /\ pending[c] = {Current(m) : m \in S}
        /\ \A m \in S : lock[m] = c
        /\ \A m \in Msg : row'[m].version = row[m].version
             /\ row'[m].deleted = row[m].deleted
        /\ \A m \in Msg : row'[m].read <=> row[m].read \/ m \in S
        /\ \A m \in Msg \ S : row'[m] = row[m]
    BY <1>4, ClaimedRows DEF Claim, Loading
  <2> HIDE DEF S
  <2>1. TypeOK'
    <3>1. Locking'
      BY <1>4, Released DEF Claim, PC
    <3>2. pc' \in [Conn -> PC]
      BY <1>4 DEF Claim, TypeOK, PC
    <3> QED
      BY <2>0, <3>1, <3>2, <1>4 DEF Claim, TypeOK, Locking
  <2>2. Loaded' /\ Working'
    <3>1. ASSUME NEW d \in Conn \ {c} PROVE LoadedBy(d)' /\ WorkOf(d)'
      <4>1. pc'[d] = pc[d] /\ pending'[d] = pending[d] /\ job'[d] = job[d]
        BY <1>4 DEF Claim, TypeOK
      <4>2. \A m \in Msg : lock[m] = d => lock'[m] = d /\ row'[m] = row[m]
        BY <2>0, <1>4 DEF Claim, Unlocked, TypeOK
      <4>3. \A m \in Msg : Sent(m) => row'[m].version > 0
        BY <2>0 DEF Claim, Unlocked, TypeOK
      <4> QED
        BY <4>1, <4>2, <4>3, OthersKept
    <3>2. LoadedBy(c)' /\ WorkOf(c)'
      BY <1>4 DEF Claim, TypeOK, LoadedBy, WorkOf
    <3> QED
      BY <3>1, <3>2 DEF Loaded, Working
  <2>4. MarkedIsRead'
    BY <2>0
  <2>5. ReadIsWritten'
    <3> SUFFICES ASSUME NEW m \in Msg, Live(m)', row'[m].read
                 PROVE  \/ m \in written' \cup excused'
                        \/ \E d \in Conn : Current(m)' \in pending'[d]
      BY DEF ReadIsWritten
    <3>1. Current(m)' = Current(m) /\ pending' = pending
            /\ written' = written /\ excused' = excused
      BY <2>0, <1>4 DEF Claim
    <3>2. CASE m \in S
      BY <2>0, <3>1, <3>2
    <3>3. CASE m \notin S
      BY <2>0, <3>1, <3>3 DEF ReadIsWritten
    <3> QED
      BY <3>2, <3>3
  <2> QED
    BY <2>1, <2>2, <2>4, <2>5 DEF ChatIInv
<1>5. ASSUME NEW c \in Conn, LoadFails(c)
      PROVE  ChatIInv'
  <2> DEFINE S == CurrentIn(pending[c])
  <2>0. \/ row' = row /\ marks' = marks /\ excused' = excused
        \/ /\ row' \in [Msg -> Row]
           /\ marks' \in [Msg -> 0 .. 2]
           /\ MarkedIsRead'
           /\ \A m \in S : lock[m] = c
           /\ \A m \in Msg : row'[m].version = row[m].version
                /\ row'[m].deleted = row[m].deleted
           /\ \A m \in Msg : row'[m].read <=> row[m].read \/ m \in S
           /\ \A m \in Msg \ S : row'[m] = row[m]
           /\ excused' = excused \cup S
    BY <1>5, ClaimedRows DEF LoadFails, Excuse
  <2> USE DEF S
  <2>1. TypeOK'
    <3>1. Locking'
      BY <1>5, Released DEF LoadFails, PC
    <3>2. pc' \in [Conn -> PC] /\ pending' \in [Conn -> SUBSET Item]
      BY <1>5 DEF LoadFails, TypeOK, PC
    <3>3. status' \in [Conn -> Status] /\ events' \in 0 .. MaxEvents
      BY <1>5 DEF LoadFails, Shut, Another, TypeOK, Status
    <3>4. row' \in [Msg -> Row] /\ marks' \in [Msg -> 0 .. 2]
            /\ excused' \subseteq Msg
      BY <2>0 DEF TypeOK, CurrentIn
    <3> QED
      BY <3>1, <3>2, <3>3, <3>4, <1>5 DEF LoadFails, TypeOK, Locking
  <2>2. Loaded' /\ Working'
    <3>1. ASSUME NEW d \in Conn \ {c} PROVE LoadedBy(d)' /\ WorkOf(d)'
      <4>1. pc'[d] = pc[d] /\ pending'[d] = pending[d] /\ job'[d] = job[d]
        BY <1>5 DEF LoadFails, TypeOK
      <4>2. \A m \in Msg : lock[m] = d => lock'[m] = d /\ row'[m] = row[m]
        BY <2>0, <1>5 DEF LoadFails, Unlocked, TypeOK
      <4>3. \A m \in Msg : Sent(m) => row'[m].version > 0
        BY <2>0 DEF LoadFails, Unlocked, TypeOK
      <4> QED
        BY <4>1, <4>2, <4>3, OthersKept
    <3>2. LoadedBy(c)' /\ WorkOf(c)'
      BY <1>5 DEF LoadFails, TypeOK, LoadedBy, WorkOf
    <3> QED
      BY <3>1, <3>2 DEF Loaded, Working
  <2>4. MarkedIsRead'
    BY <2>0 DEF MarkedIsRead
  <2>5. ReadIsWritten'
    <3> SUFFICES ASSUME NEW m \in Msg, Live(m)', row'[m].read
                 PROVE  \/ m \in written' \cup excused'
                        \/ \E d \in Conn : Current(m)' \in pending'[d]
      BY DEF ReadIsWritten
    <3>1. /\ Current(m)' = Current(m) /\ written' = written
          /\ \A d \in Conn \ {c} : pending'[d] = pending[d]
      BY <2>0, <1>5 DEF LoadFails, TypeOK
    <3>2. CASE m \in S
      <4>1. Current(m) \in pending[c]
        BY <3>2 DEF CurrentIn
      <4>2. pc[c] = "claimed" /\ ~row[m].read
        BY <4>1, <1>5 DEF LoadFails, Loading, Loaded, LoadedBy
      <4> QED
        BY <2>0, <3>2, <4>2
    <3>3. CASE m \notin S
      <4>1. Live(m) /\ row[m].read /\ Current(m) \notin pending[c]
        BY <2>0, <3>3 DEF CurrentIn
      <4> QED
        BY <2>0, <3>1, <4>1 DEF ReadIsWritten
    <3> QED
      BY <3>2, <3>3
  <2> QED
    BY <2>1, <2>2, <2>4, <2>5 DEF ChatIInv
<1>6. ASSUME NEW c \in Conn, WriteMissed(c)
      PROVE  ChatIInv'
  <2>1. TypeOK'
    <3>1. pending' \in [Conn -> SUBSET Item] /\ written' \subseteq Msg
      <4>1. PICK i \in pending[c] : Write({i})
              /\ pending' = [pending EXCEPT ![c] = pending[c] \ {i}]
        BY <1>6 DEF WriteMissed
      <4> QED
        BY <4>1 DEF Write, CurrentIn, TypeOK
    <3>2. pc' \in [Conn -> PC]
      BY <1>6 DEF WriteMissed, Receiving, TypeOK, PC
    <3>3. \A m \in Msg : lock'[m] # Nobody => pc'[lock'[m]] \in {"claimed", "commit"}
      BY <1>6 DEF WriteMissed, TypeOK
    <3> QED
      BY <3>1, <3>2, <3>3, <1>6 DEF WriteMissed, TypeOK
  <2>2. Loaded'
    BY <1>6 DEF WriteMissed, Write, CurrentIn, Receiving, TypeOK, Loaded,
           LoadedBy
  <2>3. Working'
    BY <1>6 DEF WriteMissed, Write, CurrentIn, Receiving, TypeOK, Working,
           WorkOf, Open, Committed
  <2>4. MarkedIsRead'
    BY <1>6 DEF WriteMissed, Write, CurrentIn, Receiving, TypeOK, Loaded,
           LoadedBy, Working, WorkOf, Open, Committed, MarkedIsRead
  <2>5. ReadIsWritten'
    <3> SUFFICES ASSUME NEW m \in Msg, Live(m)', row'[m].read
                 PROVE  \/ m \in written' \cup excused'
                        \/ \E d \in Conn : Current(m)' \in pending'[d]
      BY DEF ReadIsWritten
    <3>1. PICK i \in pending[c] : Write({i})
            /\ pending' = [pending EXCEPT ![c] = pending[c] \ {i}]
      BY <1>6 DEF WriteMissed
    <3>2. row' = row /\ excused' = excused
            /\ written' = written \cup CurrentIn({i})
      BY <3>1, <1>6 DEF WriteMissed, Write
    <3>3. CASE Current(m) = i
      BY <3>2, <3>3 DEF CurrentIn
    <3>4. CASE Current(m) # i
      <4>1. \A d \in Conn : Current(m) \in pending[d] => Current(m) \in pending'[d]
        BY <3>1, <3>4 DEF TypeOK
      <4> QED
        BY <3>2, <4>1 DEF ReadIsWritten
    <3> QED
      BY <3>3, <3>4
  <2> QED
    BY <2>1, <2>2, <2>3, <2>4, <2>5 DEF ChatIInv
<1>7. ASSUME NEW c \in Conn, WriteBreaks(c)
      PROVE  ChatIInv'
  <2>1. TypeOK'
    BY <1>7 DEF WriteBreaks, Excuse, CurrentIn, Receiving, Status, PC, TypeOK
  <2>2. Loaded'
    BY <1>7 DEF WriteBreaks, Excuse, CurrentIn, Receiving, TypeOK, Loaded,
           LoadedBy
  <2>3. Working'
    BY <1>7 DEF WriteBreaks, Excuse, CurrentIn, Receiving, TypeOK, Working,
           WorkOf, Open, Committed
  <2>4. MarkedIsRead'
    BY <1>7 DEF WriteBreaks, Excuse, CurrentIn, Receiving, TypeOK, Loaded,
           LoadedBy, Working, WorkOf, Open, Committed, MarkedIsRead
  <2>5. ReadIsWritten'
    <3> SUFFICES ASSUME NEW m \in Msg, Live(m)', row'[m].read
                 PROVE  \/ m \in written' \cup excused'
                        \/ \E d \in Conn : Current(m)' \in pending'[d]
      BY DEF ReadIsWritten
    <3>1. /\ row' = row /\ written' = written
          /\ excused' = excused \cup CurrentIn(pending[c])
          /\ \A d \in Conn \ {c} : pending'[d] = pending[d]
      BY <1>7 DEF WriteBreaks, Excuse, TypeOK
    <3>2. CASE Current(m) \in pending[c]
      BY <3>1, <3>2 DEF CurrentIn
    <3>3. CASE Current(m) \notin pending[c]
      BY <3>1, <3>3 DEF ReadIsWritten
    <3> QED
      BY <3>2, <3>3
  <2> QED
    BY <2>1, <2>2, <2>3, <2>4, <2>5 DEF ChatIInv
<1>8. ASSUME NEW c \in Conn, NEW m \in Msg, Send(c, m)
      PROVE  ChatIInv'
  <2>0. /\ pc[c] = "loop" /\ lock[m] = Nobody /\ ~Sent(m)
        /\ row'[m].version = 1 /\ (\A k \in Msg \ {m} : row'[k] = row[k])
        /\ row'[m].read = row[m].read
        /\ job'[c] = [kind |-> "dm", msgs |-> {m}, version |-> 1]
        /\ pc'[c] = "publish" /\ lock' = lock /\ pending' = pending
    BY <1>8 DEF Send, Fresh, TypeOK, Row
  <2>1. TypeOK'
    <3>1. row' \in [Msg -> Row]
      <4>1. row[m] \in Row /\ 1 \in 0 .. MaxVersion
        BY DEF TypeOK
      <4>2. [row[m] EXCEPT !.version = 1] \in Row
        BY <4>1 DEF Row
      <4> QED
        BY <4>2, <1>8 DEF Send, TypeOK
    <3>2. job' \in [Conn -> Job]
      BY <1>8 DEF Send, TypeOK, Kind
    <3>3. pc' \in [Conn -> PC] /\ events' \in 0 .. MaxEvents
      BY <1>8 DEF Send, Another, TypeOK, PC
    <3>4. \A k \in Msg : lock'[k] # Nobody => pc'[lock'[k]] \in {"claimed", "commit"}
      BY <1>8 DEF Send, TypeOK
    <3> QED
      BY <3>1, <3>2, <3>3, <3>4, <1>8 DEF Send, TypeOK
  <2>2. Loaded' /\ Working'
    <3>1. ASSUME NEW d \in Conn \ {c} PROVE LoadedBy(d)' /\ WorkOf(d)'
      <4>1. pc'[d] = pc[d] /\ pending'[d] = pending[d] /\ job'[d] = job[d]
        BY <1>8 DEF Send, TypeOK
      <4>2. \A k \in Msg : lock[k] = d => lock'[k] = d /\ row'[k] = row[k]
        BY <2>0 DEF Send, TypeOK
      <4>3. \A k \in Msg : Sent(k) => row'[k].version > 0
        BY <2>0 DEF Send, TypeOK
      <4> QED
        BY <4>1, <4>2, <4>3, OthersKept
    <3>2. LoadedBy(c)' /\ WorkOf(c)'
      BY <2>0 DEF Loaded, LoadedBy, WorkOf, Committed, Version
    <3> QED
      BY <3>1, <3>2 DEF Loaded, Working
  <2>4. MarkedIsRead'
    BY <2>0, <1>8 DEF Send, Fresh, Another, TypeOK, Loaded, LoadedBy, Working,
           WorkOf, Open, Committed, MarkedIsRead
  <2>5. ReadIsWritten'
    BY <2>0, <1>8 DEF Send, Fresh, Another, TypeOK, Loaded, LoadedBy, Working,
           WorkOf, Open, MarkedIsRead, ReadIsWritten
  <2> QED
    BY <2>1, <2>2, <2>4, <2>5 DEF ChatIInv
<1>9. ASSUME NEW c \in Conn, NEW m \in Msg, NEW original \in Msg,
             Reply(c, m, original)
      PROVE  ChatIInv'
  <2>0. TypeOK' /\ Loaded' /\ Working'
    <3>1. /\ Update(c, "reply", {m}, {m, original})
          /\ \A k \in {m} : ~Sent(k)
      BY <1>9 DEF Reply, Fresh
    <3> HIDE DEF Sent, Live
    <3> QED
      BY <3>1, UpdateKeeps
  <2>1. TypeOK'
    BY <2>0
  <2>2. Loaded' /\ Working'
    BY <2>0
  <2>4. MarkedIsRead'
    BY <2>0, <1>9 DEF Reply, Fresh, Update, Serving, Another, TypeOK, Loaded,
           LoadedBy, Working, WorkOf, Open, Committed, MarkedIsRead
  <2>5. ReadIsWritten'
    BY <2>0, <1>9 DEF Reply, Fresh, Update, Serving, Another, TypeOK, Loaded,
           LoadedBy, Working, WorkOf, Open, MarkedIsRead, ReadIsWritten
  <2> QED
    BY <2>1, <2>2, <2>4, <2>5 DEF ChatIInv
<1>10. ASSUME NEW c \in Conn, NEW m \in Msg, Edit(c, m)
      PROVE  ChatIInv'
  <2>0. TypeOK' /\ Loaded' /\ Working'
    <3>1. /\ Update(c, "edit", {m}, {m})
          /\ \A k \in {m} : Sent(k) /\ row[k].version < MaxVersion
      BY <1>10 DEF Edit
    <3> HIDE DEF Sent, Live
    <3> QED
      BY <3>1, UpdateKeeps
  <2>1. TypeOK'
    BY <2>0
  <2>2. Loaded' /\ Working'
    BY <2>0
  <2>4. MarkedIsRead'
    BY <2>0, <1>10 DEF Edit, Update, Serving, Another, TypeOK, Loaded,
           LoadedBy, Working, WorkOf, Open, Committed, MarkedIsRead
  <2>5. ReadIsWritten'
    BY <2>0, <1>10 DEF Edit, Update, Serving, Another, TypeOK, Loaded,
           LoadedBy, Working, WorkOf, Open, MarkedIsRead, ReadIsWritten
  <2> QED
    BY <2>1, <2>2, <2>4, <2>5 DEF ChatIInv
<1>11. ASSUME NEW c \in Conn, NEW m \in Msg, Delete(c, m)
      PROVE  ChatIInv'
  <2>0. TypeOK' /\ Loaded' /\ Working'
    <3>1. /\ Update(c, "delete", {m}, {m})
          /\ \A k \in {m} : Sent(k)
      BY <1>11 DEF Delete
    <3> HIDE DEF Sent, Live
    <3> QED
      BY <3>1, UpdateKeeps
  <2>1. TypeOK'
    BY <2>0
  <2>2. Loaded' /\ Working'
    BY <2>0
  <2>4. MarkedIsRead'
    BY <2>0, <1>11 DEF Delete, Update, Serving, Another, TypeOK, Loaded,
           LoadedBy, Working, WorkOf, Open, Committed, MarkedIsRead
  <2>5. ReadIsWritten'
    BY <2>0, <1>11 DEF Delete, Update, Serving, Another, TypeOK, Loaded,
           LoadedBy, Working, WorkOf, Open, MarkedIsRead, ReadIsWritten
  <2> QED
    BY <2>1, <2>2, <2>4, <2>5 DEF ChatIInv
<1>12. ASSUME NEW c \in Conn, NEW u \in User, Receipt(c, u)
      PROVE  ChatIInv'
  <2>0. TypeOK' /\ Loaded' /\ Working'
    <3> DEFINE unread == {m \in Msg : /\ From[m] = u /\ To[m] = Owner[c]
                                      /\ Sent(m) /\ ~row[m].read}
    <3>1. unread # {} /\ Update(c, "receipt", unread, unread)
      BY <1>12 DEF Receipt
    <3>2. unread \in SUBSET Msg /\ \A m \in unread : Sent(m) /\ ~row[m].read
      OBVIOUS
    <3> HIDE DEF unread, Sent
    <3> QED
      BY <3>1, <3>2, UpdateKeeps
  <2>1. TypeOK'
    BY <2>0
  <2>2. Loaded' /\ Working'
    BY <2>0
  <2>4. MarkedIsRead'
    BY <2>0, <1>12 DEF Receipt, Update, Serving, Another, TypeOK, Loaded,
           LoadedBy, Working, WorkOf, Open, Committed, MarkedIsRead
  <2>5. ReadIsWritten'
    BY <2>0, <1>12 DEF Receipt, Update, Serving, Another, TypeOK, Loaded,
           LoadedBy, Working, WorkOf, Open, MarkedIsRead, ReadIsWritten
  <2> QED
    BY <2>1, <2>2, <2>4, <2>5 DEF ChatIInv
<1>13. ASSUME NEW c \in Conn, Commit(c)
      PROVE  ChatIInv'
  <2> DEFINE msgs == job[c].msgs
  <2>0. /\ Open(c) /\ pc[c] = "commit" /\ msgs \subseteq Msg
        /\ \A m \in msgs : lock[m] = c
        /\ pending[c] = {}
    BY <1>13 DEF Commit, Loaded, LoadedBy, Working, WorkOf, Open, TypeOK
  <2>r. /\ row' \in [Msg -> Row]
        /\ marks' \in [Msg -> 0 .. 2]
        /\ written' \subseteq Msg /\ excused' \subseteq Msg
        /\ MarkedIsRead'
        /\ \A m \in Msg : Sent(m) \/ m \in msgs => row'[m].version > 0
        /\ \A m \in Msg \ msgs : /\ row'[m] = row[m]
                                 /\ m \in written => m \in written'
                                 /\ m \in excused => m \in excused'
        /\ \A m \in msgs : row'[m].deleted \/ ~row'[m].read \/ m \in excused'
    BY <2>0, <1>13, CommitRows
  <2>j. /\ job'[c].kind = job[c].kind /\ job'[c].msgs = msgs /\ msgs # {}
        /\ pc'[c] \in {"echo", "publish"}
        /\ job' \in [Conn -> Job]
        /\ job[c].kind \in {"reply", "edit"} => job'[c].version \in Version
        /\ job[c].kind # "dm"
    <3> DEFINE v == IF job[c].kind \in {"reply", "edit"}
                      THEN row'[CHOOSE m \in msgs : TRUE].version ELSE 0
    <3>1. job' = [job EXCEPT ![c].version = v] /\ job \in [Conn -> Job]
      BY <1>13 DEF Commit, TypeOK
    <3>2. msgs # {} /\ job[c].kind # "dm"
      BY <2>0 DEF Open
    <3>3. row'[CHOOSE m \in msgs : TRUE].version \in Version
      <4>1. (CHOOSE m \in msgs : TRUE) \in msgs
        BY <3>2
      <4> QED
        <5> DEFINE m == CHOOSE m \in msgs : TRUE
        <5>1. m \in Msg /\ m \in msgs
          BY <2>0, <4>1
        <5> HIDE DEF m
        <5>2. row'[m] \in Row /\ row'[m].version > 0
          BY <2>r, <5>1
        <5>3. row'[m].version \in Version
          BY <5>2 DEF Row, Version
        <5> QED
          BY <5>3 DEF m
    <3>4. v \in 0 .. MaxVersion
            /\ (job[c].kind \in {"reply", "edit"} => v \in Version)
      BY <3>3 DEF Version
    <3>5. pc'[c] \in {"echo", "publish"}
      BY <1>13 DEF Commit, TypeOK
    <3> HIDE DEF v
    <3> QED
      BY <3>1, <3>2, <3>4, <3>5
  <2> HIDE DEF msgs
  <2>1. TypeOK'
    <3>1. lock' = Unlocked(c) /\ \E l \in PC : pc' = [pc EXCEPT ![c] = l]
      BY <1>13 DEF Commit, PC
    <3>2. Locking'
      BY <3>1, Released
    <3>3. pc' \in [Conn -> PC]
      BY <3>1 DEF TypeOK
    <3> QED
      BY <2>r, <2>j, <3>2, <3>3, <1>13 DEF Commit, TypeOK, Locking
  <2>2. Loaded' /\ Working'
    <3>1. ASSUME NEW d \in Conn \ {c} PROVE LoadedBy(d)' /\ WorkOf(d)'
      <4>1. pc'[d] = pc[d] /\ pending'[d] = pending[d] /\ job'[d] = job[d]
        BY <1>13 DEF Commit, TypeOK
      <4>2. \A m \in Msg : lock[m] = d => lock'[m] = d /\ row'[m] = row[m]
        BY <2>0, <2>r, <1>13 DEF Commit, Unlocked, TypeOK
      <4>3. \A m \in Msg : Sent(m) => row'[m].version > 0
        BY <2>r DEF Commit, Unlocked, TypeOK
      <4> QED
        BY <4>1, <4>2, <4>3, OthersKept
    <3>2. LoadedBy(c)' /\ WorkOf(c)'
      <4>1. pending'[c] = {}
        BY <2>0, <1>13 DEF Commit
      <4>2. Committed(c)'
        BY <2>0, <2>r, <2>j DEF Committed, Open
      <4> QED
        BY <2>j, <4>1, <4>2 DEF LoadedBy, WorkOf
    <3> QED
      BY <3>1, <3>2 DEF Loaded, Working
  <2>4. MarkedIsRead'
    BY <2>r
  <2>5. ReadIsWritten'
    <3> SUFFICES ASSUME NEW m \in Msg, Live(m)', row'[m].read
                 PROVE  \/ m \in written' \cup excused'
                        \/ \E d \in Conn : Current(m)' \in pending'[d]
      BY DEF ReadIsWritten
    <3>1. CASE m \in msgs
      BY <2>r, <3>1
    <3>2. CASE m \notin msgs
      <4>1. row'[m] = row[m] /\ pending' = pending
        BY <2>r, <3>2, <1>13 DEF Commit
      <4> QED
        BY <2>r, <3>2, <4>1 DEF ReadIsWritten
    <3> QED
      BY <3>1, <3>2
  <2> QED
    BY <2>1, <2>2, <2>4, <2>5 DEF ChatIInv
<1>14. ASSUME NEW c \in Conn, CommandFails(c)
      PROVE  ChatIInv'
  <2>1. TypeOK'
    <3>1. Locking'
      BY <1>14, Released DEF CommandFails, Receiving, PC
    <3>2. pc' \in [Conn -> PC] /\ events' \in 0 .. MaxEvents
      BY <1>14 DEF CommandFails, Receiving, Another, TypeOK, PC
    <3>3. job' \in [Conn -> Job]
      BY <1>14 DEF CommandFails, TypeOK, Idle, Kind
    <3> QED
      BY <3>1, <3>2, <3>3, <1>14 DEF CommandFails, TypeOK, Locking
  <2>2. Loaded' /\ Working'
    <3>1. ASSUME NEW d \in Conn \ {c} PROVE LoadedBy(d)' /\ WorkOf(d)'
      <4>1. pc'[d] = pc[d] /\ pending'[d] = pending[d] /\ job'[d] = job[d]
        BY <1>14 DEF CommandFails, TypeOK
      <4>2. \A m \in Msg : lock[m] = d => lock'[m] = d /\ row'[m] = row[m]
        BY <1>14 DEF CommandFails, Unlocked, TypeOK
      <4>3. \A m \in Msg : Sent(m) => row'[m].version > 0
        BY <1>14 DEF CommandFails, Unlocked, TypeOK
      <4> QED
        BY <4>1, <4>2, <4>3, OthersKept
    <3>2. LoadedBy(c)' /\ WorkOf(c)'
      BY <1>14 DEF CommandFails, Receiving, TypeOK, Loaded, LoadedBy, WorkOf
    <3> QED
      BY <3>1, <3>2 DEF Loaded, Working
  <2>4. MarkedIsRead'
    BY <1>14 DEF CommandFails, Another, Receiving, Unlocked, TypeOK, Loaded,
           LoadedBy, Working, WorkOf, Open, Committed, MarkedIsRead
  <2>5. ReadIsWritten'
    BY <1>14 DEF CommandFails, Another, Receiving, Unlocked, TypeOK, Loaded,
           LoadedBy, Working, WorkOf, Open, MarkedIsRead, ReadIsWritten
  <2> QED
    BY <2>1, <2>2, <2>4, <2>5 DEF ChatIInv
<1>15. ASSUME NEW c \in Conn, Publish(c)
      PROVE  ChatIInv'
  <2>0. queue' \in [Worker -> Seq(Payload)]
    <3>1. OwnCopy(c) \in Payload /\ PeerCopy(c) \in Payload
      BY <1>15, CopiesType DEF Publish, Working, WorkOf
    <3>2. <<>> \in Seq(Payload) /\ <<OwnCopy(c)>> \in Seq(Payload)
          /\ <<OwnCopy(c), PeerCopy(c)>> \in Seq(Payload)
      BY <3>1
    <3> QED
      BY <3>2, <1>15, PublishedType DEF Publish
  <2>1. TypeOK'
    <3>1. pc' \in [Conn -> PC]
      BY <1>15 DEF Publish, Receiving, TypeOK, PC
    <3>2. job' \in [Conn -> Job]
      BY <1>15 DEF Publish, Served, TypeOK, Idle, Kind
    <3>3. \A m \in Msg : lock'[m] # Nobody => pc'[lock'[m]] \in {"claimed", "commit"}
      BY <1>15 DEF Publish, TypeOK
    <3> QED
      BY <2>0, <3>1, <3>2, <3>3, <1>15 DEF Publish, TypeOK
  <2>2. Loaded'
    BY <2>0, <1>15 DEF Publish, Receiving, Served, TypeOK, Loaded, LoadedBy
  <2>3. Working'
    BY <2>0, <1>15 DEF Publish, Receiving, Served, TypeOK, Working, WorkOf,
           Open, Committed
  <2>4. MarkedIsRead'
    BY <2>0, <1>15 DEF Publish, Receiving, Served, TypeOK, Loaded, LoadedBy,
           Working, WorkOf, Open, Committed, MarkedIsRead
  <2>5. ReadIsWritten'
    BY <2>0, <1>15 DEF Publish, Receiving, Served, TypeOK, Loaded, LoadedBy,
           Working, WorkOf, Open, MarkedIsRead, ReadIsWritten
  <2> QED
    BY <2>1, <2>2, <2>3, <2>4, <2>5 DEF ChatIInv
<1>16. ASSUME NEW c \in Conn, PublishFails(c)
      PROVE  ChatIInv'
  <2>0. queue' \in [Worker -> Seq(Payload)]
    <3>1. OwnCopy(c) \in Payload /\ PeerCopy(c) \in Payload
      BY <1>16, CopiesType DEF PublishFails, Working, WorkOf
    <3>2. <<>> \in Seq(Payload) /\ <<OwnCopy(c)>> \in Seq(Payload)
          /\ <<OwnCopy(c), PeerCopy(c)>> \in Seq(Payload)
      BY <3>1
    <3> QED
      BY <3>2, <1>16, PublishedType DEF PublishFails
  <2>1. TypeOK'
    <3>1. pc' \in [Conn -> PC] /\ events' \in 0 .. MaxEvents
      BY <1>16 DEF PublishFails, Another, TypeOK, PC
    <3>2. \A m \in Msg : lock'[m] # Nobody => pc'[lock'[m]] \in {"claimed", "commit"}
      BY <1>16 DEF PublishFails, TypeOK
    <3> QED
      BY <2>0, <3>1, <3>2, <1>16 DEF PublishFails, TypeOK
  <2>2. Loaded'
    BY <2>0, <1>16 DEF PublishFails, Another, TypeOK, Loaded, LoadedBy
  <2>3. Working'
    BY <2>0, <1>16 DEF PublishFails, Another, TypeOK, Working, WorkOf, Open,
           Committed
  <2>4. MarkedIsRead'
    BY <2>0, <1>16 DEF PublishFails, Another, TypeOK, Loaded, LoadedBy,
           Working, WorkOf, Open, Committed, MarkedIsRead
  <2>5. ReadIsWritten'
    BY <2>0, <1>16 DEF PublishFails, Another, TypeOK, Loaded, LoadedBy,
           Working, WorkOf, Open, MarkedIsRead, ReadIsWritten
  <2> QED
    BY <2>1, <2>2, <2>3, <2>4, <2>5 DEF ChatIInv
<1>17. ASSUME NEW w \in Worker, Deliver(w)
      PROVE  ChatIInv'
  <2>0. /\ active' \in [Worker -> [User -> Conn \cup {Nobody}]]
        /\ status' \in [Conn -> Status]
        /\ written' \subseteq Msg
        /\ written \subseteq written'
    <3>1. queue[w] \in Seq(Payload) /\ Head(queue[w]) \in Payload
      BY <1>17 DEF Deliver, TypeOK
    <3> QED
      BY <3>1, <1>17, PushKeeps DEF Deliver
  <2>1. TypeOK'
    BY <2>0, <1>17 DEF Deliver, Status, PC, TypeOK
  <2>2. Loaded'
    BY <2>0, <1>17 DEF Deliver, TypeOK, Loaded, LoadedBy
  <2>3. Working'
    BY <2>0, <1>17 DEF Deliver, TypeOK, Working, WorkOf, Open, Committed
  <2>4. MarkedIsRead'
    BY <2>0, <1>17 DEF Deliver, TypeOK, Loaded, LoadedBy, Working, WorkOf,
           Open, Committed, MarkedIsRead
  <2>5. ReadIsWritten'
    BY <2>0, <1>17 DEF Deliver, TypeOK, Loaded, LoadedBy, Working, WorkOf,
           Open, MarkedIsRead, ReadIsWritten
  <2> QED
    BY <2>1, <2>2, <2>3, <2>4, <2>5 DEF ChatIInv
<1>18. ASSUME NEW c \in Conn, Local(c)
      PROVE  ChatIInv'
  <2>0. /\ active' \in [Worker -> [User -> Conn \cup {Nobody}]]
        /\ status' \in [Conn -> Status]
        /\ written' \subseteq Msg
        /\ written \subseteq written'
    <3>1. worker[c] \in Worker /\ PeerCopy(c) \in Payload
      BY <1>18, CopiesType DEF Local, TypeOK, Working, WorkOf
    <3> QED
      BY <3>1, <1>18, PushKeeps DEF Local
  <2>1. TypeOK'
    BY <2>0, <1>18 DEF Local, Status, PC, TypeOK
  <2>2. Loaded'
    BY <2>0, <1>18 DEF Local, TypeOK, Loaded, LoadedBy
  <2>3. Working'
    BY <2>0, <1>18 DEF Local, TypeOK, Working, WorkOf, Open, Committed
  <2>4. MarkedIsRead'
    BY <2>0, <1>18 DEF Local, TypeOK, Loaded, LoadedBy, Working, WorkOf, Open,
           Committed, MarkedIsRead
  <2>5. ReadIsWritten'
    BY <2>0, <1>18 DEF Local, TypeOK, Loaded, LoadedBy, Working, WorkOf, Open,
           MarkedIsRead, ReadIsWritten
  <2> QED
    BY <2>1, <2>2, <2>3, <2>4, <2>5 DEF ChatIInv
<1>19. ASSUME NEW c \in Conn, Mark(c)
      PROVE  ChatIInv'
  <2> DEFINE m == Subject(c)
             S == IF row[m].read THEN {} ELSE {m}
  <2>0. /\ m \in Msg /\ S \subseteq {m} /\ lock[m] = Nobody
        /\ row' \in [Msg -> Row] /\ marks' \in [Msg -> 0 .. 2]
        /\ MarkedIsRead'
        /\ excused' = excused \cup S
        /\ \A k \in Msg : row'[k].version = row[k].version
             /\ row'[k].deleted = row[k].deleted
        /\ \A k \in Msg : row'[k].read <=> row[k].read \/ k \in S
        /\ \A k \in Msg \ {m} : row'[k] = row[k]
    <3>1. m \in Msg /\ Sent(m)
      BY <1>19, CopiesType DEF Mark, Working, WorkOf
    <3>2. S \in SUBSET Msg /\ \A k \in S : Sent(k) /\ ~row[k].read
      BY <3>1
    <3>3. row' = [k \in Msg |-> IF k \in S THEN [row[k] EXCEPT !.read = TRUE]
            ELSE row[k]]
      <4>1. row' = [row EXCEPT ![m].read = TRUE] /\ row \in [Msg -> Row]
        BY <1>19 DEF Mark, TypeOK
      <4>2. row[m].read => row[m] = [row[m] EXCEPT !.read = TRUE]
        BY <3>1, <4>1 DEF Row
      <4> HIDE DEF m
      <4> QED
        BY <3>1, <4>1, <4>2
    <3>4. /\ marks' = [k \in Msg |-> IF k \in S /\ marks[k] < 2 THEN marks[k] + 1
               ELSE marks[k]]
          /\ excused' = excused \cup S
      BY <3>1, <1>19 DEF Mark, Marked, Excuse, CurrentIn
    <3>5. lock[m] = Nobody
      BY <1>19 DEF Mark
    <3> HIDE DEF S, m
    <3>6. /\ row' \in [Msg -> Row] /\ marks' \in [Msg -> 0 .. 2] /\ MarkedIsRead'
          /\ \A k \in Msg : row'[k].version = row[k].version
               /\ row'[k].deleted = row[k].deleted
          /\ \A k \in Msg : row'[k].read <=> row[k].read \/ k \in S
      BY <3>2, <3>3, <3>4, Reading
    <3>7. S \subseteq {m}
      BY DEF S
    <3> QED
      BY <3>1, <3>3, <3>4, <3>5, <3>6, <3>7
  <2> HIDE DEF S, m
  <2>1. TypeOK'
    <3>1. pc' \in [Conn -> PC]
      BY <1>19 DEF Mark, TypeOK, PC
    <3>2. \A k \in Msg : lock'[k] # Nobody => pc'[lock'[k]] \in {"claimed", "commit"}
      BY <1>19 DEF Mark, TypeOK
    <3>3. excused' \subseteq Msg
      BY <2>0 DEF TypeOK
    <3> QED
      BY <2>0, <3>1, <3>2, <3>3, <1>19 DEF Mark, TypeOK
  <2>2. Loaded' /\ Working'
    <3>1. ASSUME NEW d \in Conn \ {c} PROVE LoadedBy(d)' /\ WorkOf(d)'
      <4>1. pc'[d] = pc[d] /\ pending'[d] = pending[d] /\ job'[d] = job[d]
        BY <1>19 DEF Mark, TypeOK
      <4>2. \A k \in Msg : lock[k] = d => lock'[k] = d /\ row'[k] = row[k]
        BY <2>0, <1>19 DEF Mark, TypeOK
      <4>3. \A k \in Msg : Sent(k) => row'[k].version > 0
        BY <2>0 DEF Mark, TypeOK
      <4> QED
        BY <4>1, <4>2, <4>3, OthersKept
    <3>2. LoadedBy(c)' /\ WorkOf(c)'
      <4>1. pc[c] = "mark" /\ pc'[c] = "echo" /\ pending'[c] = pending[c]
              /\ job'[c] = job[c]
        BY <1>19 DEF Mark, TypeOK
      <4>2. Committed(c) /\ pending[c] = {} /\ job[c].msgs \subseteq Msg
        BY <4>1 DEF Loaded, LoadedBy, Working, WorkOf, TypeOK
      <4>3. Committed(c)'
        BY <2>0, <4>1, <4>2 DEF Committed
      <4> QED
        BY <4>1, <4>2, <4>3 DEF LoadedBy, WorkOf
    <3> QED
      BY <3>1, <3>2 DEF Loaded, Working
  <2>4. MarkedIsRead'
    BY <2>0
  <2>5. ReadIsWritten'
    <3> SUFFICES ASSUME NEW k \in Msg, Live(k)', row'[k].read
                 PROVE  \/ k \in written' \cup excused'
                        \/ \E d \in Conn : Current(k)' \in pending'[d]
      BY DEF ReadIsWritten
    <3>1. written' = written /\ pending' = pending
      BY <1>19 DEF Mark
    <3>2. CASE k \in S
      BY <2>0, <3>2
    <3>3. CASE k \notin S
      BY <2>0, <3>1, <3>3 DEF ReadIsWritten
    <3> QED
      BY <3>2, <3>3
  <2> QED
    BY <2>1, <2>2, <2>4, <2>5 DEF ChatIInv
<1>20. ASSUME NEW c \in Conn, Echo(c)
      PROVE  ChatIInv'
  <2>0. /\ active' \in [Worker -> [User -> Conn \cup {Nobody}]]
        /\ status' \in [Conn -> Status]
        /\ written' \subseteq Msg
        /\ written \subseteq written'
    <3>1. worker[c] \in Worker /\ OwnCopy(c) \in Payload
      BY <1>20, CopiesType DEF Echo, TypeOK, Working, WorkOf
    <3> QED
      BY <3>1, <1>20, PushKeeps DEF Echo
  <2>1. TypeOK'
    <3>1. pc' \in [Conn -> PC]
      BY <1>20 DEF Echo, Receiving, TypeOK, PC
    <3>2. job' \in [Conn -> Job]
      BY <1>20 DEF Echo, Served, TypeOK, Idle, Kind
    <3>3. \A m \in Msg : lock'[m] # Nobody => pc'[lock'[m]] \in {"claimed", "commit"}
      BY <1>20 DEF Echo, TypeOK
    <3> QED
      BY <2>0, <3>1, <3>2, <3>3, <1>20 DEF Echo, TypeOK
  <2>2. Loaded'
    BY <2>0, <1>20 DEF Echo, Receiving, Served, TypeOK, Loaded, LoadedBy
  <2>3. Working'
    BY <2>0, <1>20 DEF Echo, Receiving, Served, TypeOK, Working, WorkOf, Open,
           Committed
  <2>4. MarkedIsRead'
    BY <2>0, <1>20 DEF Echo, Receiving, Served, TypeOK, Loaded, LoadedBy,
           Working, WorkOf, Open, Committed, MarkedIsRead
  <2>5. ReadIsWritten'
    BY <2>0, <1>20 DEF Echo, Receiving, Served, TypeOK, Loaded, LoadedBy,
           Working, WorkOf, Open, MarkedIsRead, ReadIsWritten
  <2> QED
    BY <2>1, <2>2, <2>3, <2>4, <2>5 DEF ChatIInv
<1>21. ASSUME NEW c \in Conn, NEW u \in User, Signal(c, u)
      PROVE  ChatIInv'
  <2>0. /\ active' \in [Worker -> [User -> Conn \cup {Nobody}]]
        /\ status' \in [Conn -> Status]
        /\ written' \subseteq Msg
        /\ written \subseteq written'
    <3>1. worker[c] \in Worker
            /\ [to |-> u, kind |-> "notice", items |-> {}] \in Payload
      BY DEF TypeOK, Payload
    <3> QED
      BY <3>1, <1>21, PushKeeps DEF Signal
  <2>1. TypeOK'
    BY <2>0, <1>21 DEF Signal, Status, PC, TypeOK
  <2>2. Loaded'
    BY <2>0, <1>21 DEF Signal, TypeOK, Loaded, LoadedBy
  <2>3. Working'
    BY <2>0, <1>21 DEF Signal, TypeOK, Working, WorkOf, Open, Committed
  <2>4. MarkedIsRead'
    BY <2>0, <1>21 DEF Signal, TypeOK, Loaded, LoadedBy, Working, WorkOf, Open,
           Committed, MarkedIsRead
  <2>5. ReadIsWritten'
    BY <2>0, <1>21 DEF Signal, TypeOK, Loaded, LoadedBy, Working, WorkOf, Open,
           MarkedIsRead, ReadIsWritten
  <2> QED
    BY <2>1, <2>2, <2>3, <2>4, <2>5 DEF ChatIInv
<1>22. ASSUME NEW c \in Conn, CloseTask(c)
      PROVE  ChatIInv'
  <2>1. TypeOK'
    BY <1>22 DEF CloseTask, Status, PC, TypeOK
  <2>2. Loaded'
    BY <1>22 DEF CloseTask, TypeOK, Loaded, LoadedBy
  <2>3. Working'
    BY <1>22 DEF CloseTask, TypeOK, Working, WorkOf, Open, Committed
  <2>4. MarkedIsRead'
    BY <1>22 DEF CloseTask, TypeOK, Loaded, LoadedBy, Working, WorkOf, Open,
           Committed, MarkedIsRead
  <2>5. ReadIsWritten'
    BY <1>22 DEF CloseTask, TypeOK, Loaded, LoadedBy, Working, WorkOf, Open,
           MarkedIsRead, ReadIsWritten
  <2> QED
    BY <2>1, <2>2, <2>3, <2>4, <2>5 DEF ChatIInv
<1>23. ASSUME NEW c \in Conn, HeartbeatTimeout(c)
      PROVE  ChatIInv'
  <2>1. TypeOK'
    BY <1>23 DEF HeartbeatTimeout, Another, Status, PC, TypeOK
  <2>2. Loaded'
    BY <1>23 DEF HeartbeatTimeout, Another, TypeOK, Loaded, LoadedBy
  <2>3. Working'
    BY <1>23 DEF HeartbeatTimeout, Another, TypeOK, Working, WorkOf, Open,
           Committed
  <2>4. MarkedIsRead'
    BY <1>23 DEF HeartbeatTimeout, Another, TypeOK, Loaded, LoadedBy, Working,
           WorkOf, Open, Committed, MarkedIsRead
  <2>5. ReadIsWritten'
    BY <1>23 DEF HeartbeatTimeout, Another, TypeOK, Loaded, LoadedBy, Working,
           WorkOf, Open, MarkedIsRead, ReadIsWritten
  <2> QED
    BY <2>1, <2>2, <2>3, <2>4, <2>5 DEF ChatIInv
<1>24. ASSUME NEW c \in Conn, ClientLeaves(c)
      PROVE  ChatIInv'
  <2>1. TypeOK'
    BY <1>24 DEF ClientLeaves, Another, Status, PC, TypeOK
  <2>2. Loaded'
    BY <1>24 DEF ClientLeaves, Another, TypeOK, Loaded, LoadedBy
  <2>3. Working'
    BY <1>24 DEF ClientLeaves, Another, TypeOK, Working, WorkOf, Open,
           Committed
  <2>4. MarkedIsRead'
    BY <1>24 DEF ClientLeaves, Another, TypeOK, Loaded, LoadedBy, Working,
           WorkOf, Open, Committed, MarkedIsRead
  <2>5. ReadIsWritten'
    BY <1>24 DEF ClientLeaves, Another, TypeOK, Loaded, LoadedBy, Working,
           WorkOf, Open, MarkedIsRead, ReadIsWritten
  <2> QED
    BY <2>1, <2>2, <2>3, <2>4, <2>5 DEF ChatIInv
<1>25. ASSUME NEW c \in Conn, ReceiveDisconnect(c)
      PROVE  ChatIInv'
  <2>1. TypeOK'
    BY <1>25 DEF ReceiveDisconnect, Status, PC, TypeOK
  <2>2. Loaded'
    BY <1>25 DEF ReceiveDisconnect, TypeOK, Loaded, LoadedBy
  <2>3. Working'
    BY <1>25 DEF ReceiveDisconnect, TypeOK, Working, WorkOf, Open, Committed
  <2>4. MarkedIsRead'
    BY <1>25 DEF ReceiveDisconnect, TypeOK, Loaded, LoadedBy, Working, WorkOf,
           Open, Committed, MarkedIsRead
  <2>5. ReadIsWritten'
    BY <1>25 DEF ReceiveDisconnect, TypeOK, Loaded, LoadedBy, Working, WorkOf,
           Open, MarkedIsRead, ReadIsWritten
  <2> QED
    BY <2>1, <2>2, <2>3, <2>4, <2>5 DEF ChatIInv
<1>26. ASSUME NEW c \in Conn, Depart(c)
      PROVE  ChatIInv'
  <2>1. TypeOK'
    <3> DEFINE w == worker[c]
               u == Owner[c]
    <3>1. w \in Worker /\ u \in User
            /\ Noticed(w, u) \in [User -> Conn \cup {Nobody}]
      BY NoticedType DEF TypeOK
    <3>2. active' = [active EXCEPT ![w] = [Noticed(w, u) EXCEPT ![u] = Nobody]]
      BY <1>26 DEF Depart
    <3>3. active' \in [Worker -> [User -> Conn \cup {Nobody}]]
      <4> HIDE DEF w, u
      <4> QED
        BY <3>1, <3>2 DEF TypeOK
    <3>4. pc' \in [Conn -> PC]
      BY <1>26 DEF Depart, TypeOK, PC
    <3>5. status' \in [Conn -> Status]
      BY <1>26 DEF Depart, Closing, Shut, TypeOK, Status
    <3>6. \A m \in Msg : lock'[m] # Nobody => pc'[lock'[m]] \in {"claimed", "commit"}
      BY <1>26 DEF Depart, TypeOK
    <3> QED
      BY <3>3, <3>4, <3>5, <3>6, <1>26 DEF Depart, TypeOK
  <2>2. Loaded'
    BY <1>26 DEF Depart, Closing, Shut, TypeOK, Loaded, LoadedBy
  <2>3. Working'
    BY <1>26 DEF Depart, Closing, Shut, TypeOK, Working, WorkOf, Open,
           Committed
  <2>4. MarkedIsRead'
    BY <1>26 DEF Depart, Closing, Shut, TypeOK, Loaded, LoadedBy, Working,
           WorkOf, Open, Committed, MarkedIsRead
  <2>5. ReadIsWritten'
    BY <1>26 DEF Depart, Closing, Shut, TypeOK, Loaded, LoadedBy, Working,
           WorkOf, Open, MarkedIsRead, ReadIsWritten
  <2> QED
    BY <2>1, <2>2, <2>3, <2>4, <2>5 DEF ChatIInv
<1>27. ASSUME NEW w \in Worker, ListenerDies(w)
      PROVE  ChatIInv'
  <2>1. TypeOK'
    BY <1>27 DEF ListenerDies, Another, Status, PC, TypeOK
  <2>2. Loaded'
    BY <1>27 DEF ListenerDies, Another, TypeOK, Loaded, LoadedBy
  <2>3. Working'
    BY <1>27 DEF ListenerDies, Another, TypeOK, Working, WorkOf, Open,
           Committed
  <2>4. MarkedIsRead'
    BY <1>27 DEF ListenerDies, Another, TypeOK, Loaded, LoadedBy, Working,
           WorkOf, Open, Committed, MarkedIsRead
  <2>5. ReadIsWritten'
    BY <1>27 DEF ListenerDies, Another, TypeOK, Loaded, LoadedBy, Working,
           WorkOf, Open, MarkedIsRead, ReadIsWritten
  <2> QED
    BY <2>1, <2>2, <2>3, <2>4, <2>5 DEF ChatIInv
<1>28. ASSUME NEW w \in Worker, Crash(w)
      PROVE  ChatIInv'
  <2> DEFINE lost == {c \in Conn : worker[c] = w /\ pc[c] \notin {"new", "ended"}}
             claimed == {c \in lost : pc[c] = "catchUp"}
             dropped == UNION {pending[c] : c \in claimed}
  <2>0. /\ lock' = [m \in Msg |-> IF lock[m] \in lost THEN Nobody ELSE lock[m]]
        /\ pc' = [c \in Conn |-> IF c \in lost THEN "ended" ELSE pc[c]]
        /\ pending' = [c \in Conn |-> IF c \in lost THEN {} ELSE pending[c]]
        /\ job' = [c \in Conn |-> IF c \in lost THEN Idle ELSE job[c]]
        /\ excused' = excused \cup CurrentIn(dropped)
        /\ row' = row /\ written' = written /\ marks' = marks /\ worker' = worker
        /\ lost \subseteq Conn
    BY <1>28 DEF Crash, Excuse
  <2>1. TypeOK'
    <3>1. active' \in [Worker -> [User -> Conn \cup {Nobody}]]
      BY <1>28 DEF Crash, TypeOK
    <3>2. queue' \in [Worker -> Seq(Payload)] /\ listening' \subseteq Worker
      <4>1. <<>> \in Seq(Payload)
        OBVIOUS
      <4> QED
        BY <4>1, <1>28 DEF Crash, TypeOK
    <3>3. status' \in [Conn -> Status] /\ events' \in 0 .. MaxEvents
      BY <1>28 DEF Crash, Another, TypeOK, Status
    <3> HIDE DEF lost, dropped
    <3>4. Locking'
      BY <2>0 DEF TypeOK, Locking
    <3>5. pc' \in [Conn -> PC] /\ pending' \in [Conn -> SUBSET Item]
      BY <2>0 DEF TypeOK, PC
    <3>6. job' \in [Conn -> Job]
      BY <2>0 DEF TypeOK, Idle, Kind
    <3>7. excused' \subseteq Msg
      BY <2>0 DEF TypeOK, CurrentIn
    <3> QED
      BY <2>0, <3>1, <3>2, <3>3, <3>4, <3>5, <3>6, <3>7 DEF TypeOK, Locking
  <2>2. Loaded' /\ Working'
    <3> HIDE DEF lost, dropped
    <3>1. ASSUME NEW d \in Conn \ lost PROVE LoadedBy(d)' /\ WorkOf(d)'
      <4>1. pc'[d] = pc[d] /\ pending'[d] = pending[d] /\ job'[d] = job[d]
        BY <2>0
      <4>2. \A m \in Msg : lock[m] = d => lock'[m] = d /\ row'[m] = row[m]
        BY <2>0
      <4>3. \A m \in Msg : Sent(m) => row'[m].version > 0
        BY <2>0
      <4> QED
        BY <4>1, <4>2, <4>3, OthersKept
    <3>2. ASSUME NEW d \in lost PROVE LoadedBy(d)' /\ WorkOf(d)'
      BY <2>0 DEF LoadedBy, WorkOf
    <3> QED
      BY <2>0, <3>1, <3>2 DEF Loaded, Working
  <2>4. MarkedIsRead'
    BY <2>0 DEF MarkedIsRead
  <2>5. ReadIsWritten'
    <3> SUFFICES ASSUME NEW m \in Msg, Live(m)', row'[m].read
                 PROVE  \/ m \in written' \cup excused'
                        \/ \E d \in Conn : Current(m)' \in pending'[d]
      BY DEF ReadIsWritten
    <3>1. Live(m) /\ row[m].read
      BY <2>0
    <3>2. CASE m \in written \cup excused
      BY <2>0, <3>2
    <3>3. ASSUME NEW d \in Conn, Current(m) \in pending[d]
          PROVE  m \in excused' \/ Current(m)' \in pending'[d]
      <4>1. CASE d \in lost
        <5>1. pc[d] = "catchUp"
          BY <3>1, <3>3 DEF Loaded, LoadedBy
        <5>2. Current(m) \in dropped
          BY <3>3, <4>1, <5>1
        <5> QED
          BY <2>0, <5>2 DEF CurrentIn
      <4>2. CASE d \notin lost
        BY <2>0, <3>3, <4>2
      <4> QED
        BY <4>1, <4>2
    <3> QED
      BY <3>1, <3>2, <3>3 DEF ReadIsWritten
  <2> QED
    BY <2>1, <2>2, <2>4, <2>5 DEF ChatIInv
<1>29. CASE UNCHANGED vars
  <2>1. TypeOK'
    BY <1>29 DEF vars, TypeOK
  <2>2. Loaded'
    BY <1>29 DEF vars, TypeOK, Loaded, LoadedBy
  <2>3. Working'
    BY <1>29 DEF vars, TypeOK, Working, WorkOf, Open, Committed
  <2>4. MarkedIsRead'
    BY <1>29 DEF vars, TypeOK, Loaded, LoadedBy, Working, WorkOf, Open,
           Committed, MarkedIsRead
  <2>5. ReadIsWritten'
    BY <1>29 DEF vars, TypeOK, Loaded, LoadedBy, Working, WorkOf, Open,
           MarkedIsRead, ReadIsWritten
  <2> QED
    BY <2>1, <2>2, <2>3, <2>4, <2>5 DEF ChatIInv
<1> QED
  BY <1>1, <1>2, <1>3, <1>4, <1>5, <1>6, <1>7, <1>8, <1>9, <1>10, <1>11, <1>12,
     <1>13, <1>14, <1>15, <1>16, <1>17, <1>18, <1>19, <1>20, <1>21, <1>22,
     <1>23, <1>24, <1>25, <1>26, <1>27, <1>28, <1>29
  DEF Next, Handle, CatchUp, Leave, Command, Fault

\* The initial states satisfy the invariant.
LEMMA ChatInit == Init => ChatIInv
<1> SUFFICES ASSUME Init PROVE ChatIInv
  OBVIOUS
<1> USE NobodyAssumption, EndsAssumption, StartAssumption, BoundAssumption
    DEF Init, Job
<1>1. TypeOK
  <2>1. row \in [Msg -> Row]
    <3>1. 0 \in 0 .. MaxVersion /\ 1 \in 0 .. MaxVersion
      OBVIOUS
    <3> QED
      BY <3>1 DEF Row
  <2>2. active \in [Worker -> [User -> Conn \cup {Nobody}]]
    <3> SUFFICES ASSUME NEW w \in Worker, NEW u \in User
                 PROVE  LET here == {c \in Connected :
                                     Owner[c] = u /\ worker[c] = w} IN
                        (IF here = {} THEN Nobody ELSE CHOOSE c \in here : TRUE)
                          \in Conn \cup {Nobody}
      OBVIOUS
    <3> DEFINE here == {c \in Connected : Owner[c] = u /\ worker[c] = w}
    <3>1. here \subseteq Conn
      OBVIOUS
    <3> HIDE DEF here
    <3>2. here # {} => (CHOOSE c \in here : TRUE) \in here
      OBVIOUS
    <3> QED
      BY <3>1, <3>2 DEF here
  <2>3. queue \in [Worker -> Seq(Payload)]
    OBVIOUS
  <2>4. job \in [Conn -> Job]
    BY DEF Idle, Kind
  <2>5. pc \in [Conn -> PC] /\ status \in [Conn -> Status]
    BY DEF PC, Status
  <2> QED
    BY <2>1, <2>2, <2>3, <2>4, <2>5 DEF TypeOK
<1>2. Loaded
  BY DEF Loaded, LoadedBy
<1>3. Working
  BY DEF Working, WorkOf
<1>4. MarkedIsRead
  BY DEF MarkedIsRead
<1>5. ReadIsWritten
  BY DEF ReadIsWritten
<1> QED
  BY <1>1, <1>2, <1>3, <1>4, <1>5 DEF ChatIInv

-----------------------------------------------------------------------------
\* The variables have their types, and only a handler that waits in a
\* transaction holds row locks.
THEOREM ChatTypeCorrect == Spec => []TypeOK
<1>1. ChatIInv => TypeOK
  BY DEF ChatIInv
<1> QED
  BY <1>1, ChatInit, ChatInvStep, PTL DEF Spec

\* However catch-ups, receipts and local sends of the workers interleave, and
\* whatever fails or is killed among them, no stored content of a message is
\* taken as unread twice.
THEOREM NotMarkedTwice == Spec => []MarkedOnce
<1>1. ChatIInv => MarkedOnce
  BY DEF ChatIInv, MarkedIsRead, MarkedOnce
<1> QED
  BY <1>1, ChatInit, ChatInvStep, PTL DEF Spec

\* What the database calls read was written to a socket of the receiver, is
\* about to be, or was lost in one of the places where the code loses it.
THEOREM ReadWasWritten == Spec => []ReadIsWritten
<1>1. ChatIInv => ReadIsWritten
  BY DEF ChatIInv
<1> QED
  BY <1>1, ChatInit, ChatInvStep, PTL DEF Spec
=============================================================================
