--------------------------- MODULE DirectMessages ---------------------------
(***************************************************************************)
(* Direct messages between the users of two or more deployments, the read  *)
(* state of their threads and the sync log their devices follow            *)
(* (messaging/core.py).                                                    *)
(*                                                                         *)
(* A handler runs in a thread of its server.  _store_direct_message reads  *)
(* outside a transaction - is the operation or the message there already,  *)
(* which server_seq comes next - and writes the message, the views and the *)
(* sync events in one transaction afterwards: two actions, and another     *)
(* thread may commit in between.  A message for a user of another server   *)
(* is first posted to that server, whose handler is a thread there.  The   *)
(* read-state handlers and sync.delta open with BEGIN IMMEDIATE: one       *)
(* action each.                                                            *)
(*                                                                         *)
(* A client may send any request of the workload any number of times.  A   *)
(* busy thread may be abandoned at any time: a call or its answer is lost, *)
(* it times out, the process restarts.  A refused request changes nothing. *)
(*                                                                         *)
(* A generated operation id is NoOp: it equals no id a client chose.  A    *)
(* view row is written with the message and never removed, so Thread is    *)
(* computed.  Left out: the ephemeral heartbeat and the realtime hint,     *)
(* which store nothing, group threads, and the message id a watermark was   *)
(* named by, which nothing reads.                                          *)
(***************************************************************************)
EXTENDS Integers, Sequences, FiniteSets

CONSTANTS
    Servers,
    Users,      \* DIDs
    Home,       \* the server each user is registered with
    Messages,   \* message ids
    Requests,   \* the workload: sender, recipient, message, op, content
    Threads,    \* server threads
    Serves,     \* the server of each thread
    Readers,    \* <<owner, peer>>: the threads their owner marks read
    Followers,  \* users with a device that follows sync.delta
    Pagers,     \* <<owner, peer>>: the threads followed with sync.thread_after
    PageLimit,  \* limit of sync.delta and sync.thread_after
    NoOp, NoRequest, NoThread

ASSUME HomeAssumption ==
    /\ Home \in [Users -> Servers]
    /\ Serves \in [Threads -> Servers]
    /\ NoThread \notin Threads
    /\ NoRequest \notin Requests

ASSUME ClientsAssumption ==
    /\ Readers \subseteq Users \X Users
    /\ Followers \subseteq Users
    /\ Pagers \subseteq Users \X Users
    /\ PageLimit \in Nat \ {0}

\* A message for another server carries a proof over an operation id.
ASSUME RequestsAssumption ==
    /\ IsFiniteSet(Messages)
    /\ \A q \in Requests :
        /\ q.sender \in Users /\ q.recipient \in Users /\ q.sender # q.recipient
        /\ q.message \in Messages
        /\ Home[q.sender] # Home[q.recipient] => q.op # NoOp

VARIABLES
    rows,       \* direct_messages of each server: message id -> row
    read,       \* direct_message_views with read_at, per owner
    marks,      \* thread_read_states: owner -> peer -> watermark
    events,     \* sync_events of each owner: event_seq -> event
    thread,     \* what each server thread is doing
    accepted,   \* answers clients got: request and server_seq
    device,     \* a device of each user that follows sync.delta
    reader      \* a client of each user that follows sync.thread_after

store == <<rows, read, marks, events>>

vars == <<store, thread, accepted, device, reader>>
-----------------------------------------------------------------------------
(* Messages. *)

Max(a, b) == IF a >= b THEN a ELSE b

Serving(q, phase) == [phase |-> phase, request |-> q, seq |-> 0, callee |-> NoThread]

Idle == Serving(NoRequest, "idle")

Row(q, n) ==
    [sender |-> q.sender, recipient |-> q.recipient, op |-> q.op, content |-> q.content, seq |-> n]

WithRow(table, q, n) ==
    [m \in DOMAIN table \cup {q.message} |-> IF m = q.message THEN Row(q, n) ELSE table[m]]

\* A comparison of the message id and the parties only.
SameRequestById(m, row, q) ==
    m = q.message /\ row.sender = q.sender /\ row.recipient = q.recipient

\* _direct_idempotent_result_or_raise: the stored row is this request's.
SameRequest(m, row, q) ==
    /\ m = q.message
    /\ row.sender = q.sender /\ row.recipient = q.recipient /\ row.content = q.content
    /\ q.op # NoOp => row.op = q.op

OfOperation(s, q) ==
    {m \in DOMAIN rows[s] : q.op # NoOp /\ rows[s][m].sender = q.sender /\ rows[s][m].op = q.op}

\* The row an earlier attempt may have left: by operation, then by message id.
Earlier(s, q) ==
    IF OfOperation(s, q) # {} THEN OfOperation(s, q) ELSE {q.message} \cap DOMAIN rows[s]

\* next_seq of direct_messages: the highest server_seq plus one
NextSeq(s) ==
    LET used == {0} \cup {rows[s][m].seq : m \in DOMAIN rows[s]}
    IN  1 + (CHOOSE n \in used : \A k \in used : k <= n)

\* The table without its unique index.
InsertableByMessage(s, q) == q.message \notin DOMAIN rows[s]

\* PRIMARY KEY(message_id) and UNIQUE(sender_did, operation_id)
Insertable(s, q) == q.message \notin DOMAIN rows[s] /\ OfOperation(s, q) = {}

\* The direct messages of owner's thread with peer.
Thread(o, p) ==
    {m \in DOMAIN rows[Home[o]] :
        <<o, p>> \in {<<rows[Home[o]][m].sender, rows[Home[o]][m].recipient>>,
                      <<rows[Home[o]][m].recipient, rows[Home[o]][m].sender>>}}

Inbox(o) == UNION {Thread(o, p) : p \in Users}

SeqOf(o, m) == rows[Home[o]][m].seq

MessageEvent(m) == [kind |-> "message", message |-> m]

ReadEvent(p, mark) ==
    [kind |-> "read", peer |-> p, up_to |-> mark.up_to, version |-> mark.version]
-----------------------------------------------------------------------------
(* Sending. *)

\* direct.send by a client.  A message for this server goes straight to the
\* store; one for another server is looked up by its id and, if it is not
\* there, posted first.
Send(t, q) ==
    /\ thread[t] = Idle
    /\ Serves[t] = Home[q.sender]
    /\ Home[q.recipient] # Home[q.sender] => q.message \notin DOMAIN rows[Serves[t]]
    /\ thread' = [thread EXCEPT ![t] =
           Serving(q, IF Home[q.recipient] = Home[q.sender] THEN "check" ELSE "post")]
    /\ UNCHANGED <<store, accepted, device, reader>>

\* The message for another server was stored by an earlier attempt.
SendAgain(t, q) ==
    LET s == Home[q.sender]
    IN  /\ thread[t] = Idle
        /\ Serves[t] = s
        /\ Home[q.recipient] # s
        /\ q.message \in DOMAIN rows[s]
        /\ SameRequest(q.message, rows[s][q.message], q)
        /\ accepted' = accepted \cup {[request |-> q, seq |-> rows[s][q.message].seq]}
        /\ UNCHANGED <<store, thread, device, reader>>

\* _send_remote_direct reaches the recipient's server, where u handles it.
Post(t, u) ==
    /\ thread[t].phase = "post"
    /\ thread[t].callee = NoThread
    /\ thread[u] = Idle
    /\ Serves[u] = Home[thread[t].request.recipient]
    /\ thread' = [thread EXCEPT ![t].callee = u, ![u] = Serving(thread[t].request, "check")]
    /\ UNCHANGED <<store, accepted, device, reader>>

\* The threads when t has an answer: a caller that still waits for it goes
\* on to store the sender's copy.
Answered(t) ==
    [c \in Threads |->
        IF c = t THEN Idle
        ELSE IF thread[c].callee = t
             THEN [thread[c] EXCEPT !.phase = "check", !.callee = NoThread]
             ELSE thread[c]]

\* A caller that does not look for an error in the answer.
FailedUnnoticed(t) == Answered(t)

\* The threads when t raises an error, which its caller passes on.
Failed(t) == [c \in Threads |-> IF c = t \/ thread[c].callee = t THEN Idle ELSE thread[c]]

\* Only the sender's own server answers a client.
Told(t, n) ==
    IF Serves[t] = Home[thread[t].request.sender]
    THEN accepted \cup {[request |-> thread[t].request, seq |-> n]}
    ELSE accepted

\* _store_direct_message, up to its first write: an earlier attempt answers
\* for this one, or contradicts it, or the next sequence number is read.
Check(t) ==
    LET q == thread[t].request
        s == Serves[t]
    IN  /\ thread[t].phase = "check"
        /\ \/ \E m \in Earlier(s, q) :
                  /\ SameRequest(m, rows[s][m], q)
                  /\ thread' = Answered(t)
                  /\ accepted' = Told(t, rows[s][m].seq)
           \/ \E m \in Earlier(s, q) :
                  /\ ~SameRequest(m, rows[s][m], q)
                  /\ thread' = Failed(t)
                  /\ UNCHANGED accepted
           \/ /\ Earlier(s, q) = {}
              /\ thread' = [thread EXCEPT ![t].phase = "insert", ![t].seq = NextSeq(s)]
              /\ UNCHANGED accepted
        /\ UNCHANGED <<store, device, reader>>

\* The parties of q that are registered with s get a view and a sync event.
Notified(s, q) == {u \in {q.sender, q.recipient} : Home[u] = s}

\* _store_direct_message, its transaction.
Insert(t) ==
    LET q == thread[t].request
        s == Serves[t]
        n == thread[t].seq
    IN  /\ thread[t].phase = "insert"
        /\ \/ /\ Insertable(s, q)
              /\ rows' = [rows EXCEPT ![s] = WithRow(rows[s], q, n)]
              /\ events' = [o \in Users |->
                     IF o \in Notified(s, q) THEN Append(events[o], MessageEvent(q.message))
                     ELSE events[o]]
              /\ thread' = Answered(t)
              /\ accepted' = Told(t, n)
           \/ /\ ~Insertable(s, q)
              /\ thread' = Failed(t)
              /\ UNCHANGED <<rows, events, accepted>>
        /\ UNCHANGED <<read, marks, device, reader>>

\* A thread ends without an answer: its call was refused or lost, its time
\* is up, or the process went down.  Nothing it had not committed remains, and
\* a caller that waits for it fails too.
Abandon(t) ==
    /\ thread[t] # Idle
    /\ thread' = Failed(t)
    /\ UNCHANGED <<store, accepted, device, reader>>
-----------------------------------------------------------------------------
(* Read state. *)

\* A watermark that is saved as it was asked for.
MarkedBack(old, n) ==
    [up_to |-> n, version |-> IF old.version = 0 \/ n # old.up_to THEN old.version + 1 ELSE old.version]

\* mark_read: the read state after a watermark n, which is a number or the
\* number of a message that is named.
Marked(old, n) ==
    LET saved == Max(old.up_to, n)
    IN  [up_to |-> saved,
         version |-> IF old.version = 0 \/ saved > old.up_to THEN old.version + 1 ELSE old.version]

\* The first read state of a thread and every later watermark are published.
Published(p, old, new) ==
    IF new.up_to > old.up_to \/ old.version = 0 THEN <<ReadEvent(p, new)>> ELSE <<>>

\* Any number up to the highest of the thread is taken; everything up to the
\* saved watermark is read, whoever sent it.
MarkRead(o, p) ==
    \E n \in {0} \cup UNION {1..SeqOf(o, m) : m \in Thread(o, p)} :
        LET new == Marked(marks[o][p], n)
        IN  /\ marks' = [marks EXCEPT ![o][p] = new]
            /\ read' = [read EXCEPT ![o] = @ \cup {x \in Thread(o, p) : SeqOf(o, x) <= new.up_to}]
            /\ events' = [events EXCEPT ![o] = @ \o Published(p, marks[o][p], new)]
            /\ UNCHANGED <<rows, thread, accepted, device, reader>>

\* _advance_direct_read_prefix: the messages after the old watermark and
\* before the first unread one.
ReadPrefix(o, p, done) ==
    {m \in Thread(o, p) \cap done :
        /\ SeqOf(o, m) > marks[o][p].up_to
        /\ \A x \in Thread(o, p) \ done :
               SeqOf(o, x) > marks[o][p].up_to => SeqOf(o, m) < SeqOf(o, x)}

Advanced(o, p, done) ==
    LET prefix == {SeqOf(o, m) : m \in ReadPrefix(o, p, done)}
    IN  IF prefix = {} THEN marks[o][p]
        ELSE [up_to |-> CHOOSE n \in prefix : \A k \in prefix : k <= n,
              version |-> marks[o][p].version + 1]

\* inbox.mark_read of messages with one peer.  A call that names messages of
\* several threads advances one after the other, and threads share no message.
InboxMarkRead(o, p) ==
    \E ids \in SUBSET Thread(o, p) \ {{}} :
        LET new == Advanced(o, p, read[o] \cup ids)
        IN  /\ read' = [read EXCEPT ![o] = @ \cup ids]
            /\ marks' = [marks EXCEPT ![o][p] = new]
            /\ events' = [events EXCEPT ![o] =
                   IF new = marks[o][p] THEN @ ELSE Append(@, ReadEvent(p, new))]
            /\ UNCHANGED <<rows, thread, accepted, device, reader>>
-----------------------------------------------------------------------------
(* Followers. *)

\* The events sync.delta scans after a cursor.
Scanned(log, after) == {i \in DOMAIN log : after < i /\ i <= after + PageLimit}

\* A cursor that jumps to the end of the log.
NextCursorHighest(log, after) == Len(log)

\* A cursor that runs ahead of the log.
NextCursorAhead(log, after) == after + PageLimit

\* next_cursor of sync.delta: the last event scanned.
NextCursor(log, after) == IF Len(log) <= after + PageLimit THEN Len(log) ELSE after + PageLimit

IsRead(e, p) == e.kind = "read" /\ e.peer = p

\* What a device holds of a thread's read state after the scanned events.
Reduced(held, log, scanned, p) ==
    LET own == {i \in scanned : IsRead(log[i], p)}
        last == CHOOSE i \in own : \A j \in own : j <= i
    IN  IF own = {} THEN held ELSE [up_to |-> log[last].up_to, version |-> log[last].version]

\* sync.delta: a device asks for the next page and applies it.
Delta(o) ==
    LET log == events[o]
        scanned == Scanned(log, device[o].cursor)
    IN  /\ device' = [device EXCEPT ![o] =
               [cursor |-> NextCursor(log, device[o].cursor),
                known |-> device[o].known \cup
                          {log[i].message : i \in {j \in scanned : log[j].kind = "message"}},
                marks |-> [p \in Users |-> Reduced(device[o].marks[p], log, scanned, p)]]]
        /\ UNCHANGED <<store, thread, accepted, reader>>

\* A page in no order.
PageUnordered(o, p, after, page) ==
    LET rest == {m \in Thread(o, p) : SeqOf(o, m) > after}
    IN  /\ page \subseteq rest
        /\ \/ page = rest /\ Cardinality(rest) <= PageLimit
           \/ Cardinality(page) = PageLimit

\* sync.thread_after: the messages after a sequence number, lowest first.  The
\* order of equal numbers is SQLite's.
Page(o, p, after, page) ==
    LET rest == {m \in Thread(o, p) : SeqOf(o, m) > after}
    IN  /\ page \subseteq rest
        /\ \/ page = rest /\ Cardinality(rest) <= PageLimit
           \/ Cardinality(page) = PageLimit
        /\ \A m \in page, x \in rest \ page : SeqOf(o, m) <= SeqOf(o, x)

ThreadAfter(o, p) ==
    \E page \in SUBSET Thread(o, p) \ {{}} :
        /\ Page(o, p, reader[o][p].after, page)
        /\ \E last \in page :
               /\ \A m \in page : SeqOf(o, m) <= SeqOf(o, last)
               /\ reader' = [reader EXCEPT ![o][p] =
                      [after |-> SeqOf(o, last), known |-> @.known \cup page]]
        /\ UNCHANGED <<store, thread, accepted, device>>
-----------------------------------------------------------------------------
Unmarked == [up_to |-> 0, version |-> 0]

Init ==
    /\ rows = [s \in Servers |-> <<>>]
    /\ read = [o \in Users |-> {}]
    /\ marks = [o \in Users |-> [p \in Users |-> Unmarked]]
    /\ events = [o \in Users |-> <<>>]
    /\ thread = [t \in Threads |-> Idle]
    /\ accepted = {}
    /\ device = [o \in Users |->
                    [cursor |-> 0, known |-> {}, marks |-> [p \in Users |-> Unmarked]]]
    /\ reader = [o \in Users |-> [p \in Users |-> [after |-> 0, known |-> {}]]]

Sending ==
    \E t \in Threads :
        \/ \E q \in Requests : Send(t, q) \/ SendAgain(t, q)
        \/ \E u \in Threads : Post(t, u)
        \/ Check(t) \/ Insert(t) \/ Abandon(t)

Reading ==
    \E r \in Readers : MarkRead(r[1], r[2]) \/ InboxMarkRead(r[1], r[2])

Following ==
    \/ \E o \in Followers : Delta(o)
    \/ \E r \in Pagers : ThreadAfter(r[1], r[2])

Next == Sending \/ Reading \/ Following

Spec == Init /\ [][Next]_vars
-----------------------------------------------------------------------------
(* Properties. *)

Rows ==
    [sender : Users, recipient : Users, op : {q.op : q \in Requests},
     content : {q.content : q \in Requests}, seq : Nat]

Marks == [up_to : Nat, version : Nat]

Events ==
    {MessageEvent(m) : m \in Messages} \cup
    [kind : {"read"}, peer : Users, up_to : Nat, version : Nat]

ThreadStates ==
    [phase : {"idle", "check", "post", "insert"}, request : Requests \cup {NoRequest},
     seq : Nat, callee : Threads \cup {NoThread}]

Devices == [cursor : Nat, known : SUBSET Messages, marks : [Users -> Marks]]

\* Well-formed tables, threads and followers: a cursor stays within its
\* owner's log, a busy thread serves a request of the workload.
TypeOK ==
    /\ DOMAIN rows = Servers
    /\ \A s \in Servers : /\ DOMAIN rows[s] \subseteq Messages
                          /\ \A m \in DOMAIN rows[s] : rows[s][m] \in Rows
    /\ read \in [Users -> SUBSET Messages]
    /\ marks \in [Users -> [Users -> Marks]]
    /\ events \in [Users -> Seq(Events)]
    /\ thread \in [Threads -> ThreadStates]
    /\ \A t \in Threads : thread[t].phase # "idle" => thread[t].request \in Requests
    /\ accepted \subseteq [request : Requests, seq : Nat]
    /\ device \in [Users -> Devices]
    /\ \A o \in Users : device[o].cursor <= Len(events[o])
    /\ reader \in [Users -> [Users -> [after : Nat, known : SUBSET Messages]]]

\* Concurrent and repeated sends that reuse an operation id store one message:
\* both threads may have found nothing, the unique index decides.
OneRowPerOperation ==
    \A s \in Servers : \A m, x \in DOMAIN rows[s] :
        /\ rows[s][m].op # NoOp
        /\ rows[s][m].op = rows[s][x].op /\ rows[s][m].sender = rows[s][x].sender
        => m = x

Carries(s, q) ==
    /\ q.message \in DOMAIN rows[s]
    /\ LET row == rows[s][q.message]
       IN  /\ <<row.sender, row.recipient, row.content>> = <<q.sender, q.recipient, q.content>>
           /\ q.op \in {row.op, NoOp}

\* A client that was told its message is accepted can rely on it: it is stored
\* as it was sent, with the sequence number of the answer, at its own server
\* and at the recipient's, whatever was lost and sent again on the way.
AcceptedIsStored ==
    \A a \in accepted :
        LET q == a.request
        IN  /\ Carries(Home[q.sender], q) /\ Carries(Home[q.recipient], q)
            /\ rows[Home[q.sender]][q.message].seq = a.seq

\* The sender's copy of a message for another server is stored only after that
\* server has the message: no history shows a message its recipient lacks.
SentIsDelivered ==
    \A s \in Servers : \A m \in DOMAIN rows[s] :
        LET there == Home[rows[s][m].recipient]
        IN  /\ m \in DOMAIN rows[there]
            /\ rows[there][m].content = rows[s][m].content
            /\ rows[there][m].sender = rows[s][m].sender

\* The sync log of a user announces every message of its threads, once, and
\* no other.
LogAnnouncesThreads ==
    \A o \in Users :
        LET told == {i \in DOMAIN events[o] : events[o][i].kind = "message"}
        IN  /\ {events[o][i].message : i \in told} = Inbox(o)
            /\ \A i, j \in told : events[o][i].message = events[o][j].message => i = j

\* Every change of a watermark is in the log, in order, with a version of its
\* own: the last one is the stored read state.
LogCarriesMarks ==
    \A o, p \in Users :
        LET own == {i \in DOMAIN events[o] : IsRead(events[o][i], p)}
        IN  /\ \A i, j \in own :
                   i < j => /\ events[o][i].version < events[o][j].version
                            /\ events[o][i].up_to <= events[o][j].up_to
            /\ IF own = {} THEN marks[o][p].version = 0
               ELSE \E i \in own : /\ events[o][i].version = marks[o][p].version
                                   /\ events[o][i].up_to = marks[o][p].up_to

\* The sync log tells all that a device has to know, and nothing that is not so.
LogTellsAll == LogAnnouncesThreads /\ LogCarriesMarks

\* A device that follows sync.delta to the end of the log, over any pages and
\* any commits between them, holds every message and the stored read states.
DeltaComplete ==
    \A o \in Users :
        device[o].cursor = Len(events[o]) =>
            /\ device[o].known = Inbox(o)
            /\ \A p \in Users : /\ device[o].marks[p].up_to = marks[o][p].up_to
                                /\ device[o].marks[p].version = marks[o][p].version

MissedPages(o, p) ==
    {m \in Thread(o, p) : SeqOf(o, m) <= reader[o][p].after /\ m \notin reader[o][p].known}

\* A client that follows sync.thread_after has every message of the thread up
\* to its sequence number (docs/operations.md: clients recover durably with
\* sync.delta or sync.thread_after).
PagesComplete == \A o, p \in Users : MissedPages(o, p) = {}

\* It does on a server that handles one request at a time.
PagesCompleteSerial ==
    \A o, p \in Users :
        (\A t, u \in Threads : Serves[t] = Home[o] /\ Serves[u] = Home[o] => t = u) =>
            MissedPages(o, p) = {}
=============================================================================
