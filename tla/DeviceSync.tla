----------------------------- MODULE DeviceSync -----------------------------
(***************************************************************************)
(* How the device of one account follows it (anp.sync.local.v2 in          *)
(* messaging/core.py): sync.bootstrap binds the account to one device and  *)
(* serves a baseline, sync.delta pages through the account's sync log,     *)
(* sync.snapshot serves a frozen snapshot page by page when the log has a  *)
(* gap or the cursor is of another epoch, and message.get_batch fetches    *)
(* the messages the log only names.                                        *)
(*                                                                         *)
(* Bootstrap and delta open with BEGIN IMMEDIATE, a page and a batch are   *)
(* one read each: one action each.  Between two of them the account gets   *)
(* messages, marks threads read and leaves or joins its group, a snapshot  *)
(* expires, and the operator removes log rows or starts a new epoch.  An   *)
(* answer that is lost leaves the client as it was, which is no step: the  *)
(* session of a lost answer can be read by nobody.                         *)
(*                                                                         *)
(* The account's state - the version of its read state and its membership  *)
(* of a group - is written in the transaction that appends the log entry,  *)
(* so it is computed from the full log.  A clock tick is an arbitrary time.*)
(***************************************************************************)
EXTENDS SnapshotPackage

CONSTANTS
    Clients,        \* device and client instance of those that bootstrap
    Stories,        \* what may happen to the account: sequences of [kind, size]
    Limit,          \* limit of sync.delta
    BatchLimit,     \* event ids of one message.get_batch
    Window,         \* MESSAGE_CUTOFF_HOURS
    Lifetime,       \* RECOVERY_TTL_SECONDS
    MaxTime, MaxRemoved, MaxEpoch, MaxRestarts,
    NoClient, NoSession, NoState

Kinds == {"direct", "group", "read", "join", "leave"}

ASSUME SyncAssumption ==
    /\ {Limit, BatchLimit, Lifetime, MaxEpoch} \subseteq Nat \ {0}
    /\ {Window, MaxTime, MaxRemoved, MaxRestarts} \subseteq Nat
    /\ Stories \subseteq Seq([kind : Kinds, size : Nat])
    /\ NoClient \notin Clients

VARIABLES
    story,      \* what is going to happen
    log,        \* every sync event the account ever got
    kept,       \* the event_seqs whose row is still in sync_events
    now,        \* the clock
    binding,    \* sync_v2_bindings: the client and the epoch
    negotiated, \* clients with an active paged-snapshot negotiation
    session,    \* the snapshot session each client holds the token of
    client      \* what each client has

vars == <<story, log, kept, now, binding, negotiated, session, client>>
-----------------------------------------------------------------------------
(* The account and its log. *)

InitialState == [read |-> 0, changes |-> 0, member |-> TRUE]

\* The read state and the membership after n entries.
StateAt(events, n) == IF n = 0 THEN InitialState ELSE events[n].state

State == StateAt(log, Len(log))

Changed(state, kind) ==
    CASE kind = "read" -> [state EXCEPT !.read = @ + 1]
      [] kind \in {"join", "leave"} ->
            [state EXCEPT !.changes = @ + 1, !.member = (kind = "join")]
      [] OTHER -> state

\* An entry carries the state its change left.
Entry(happens) ==
    [kind |-> happens.kind, size |-> happens.size, time |-> now,
     state |-> Changed(State, happens.kind)]

Highest == IF kept = {} THEN 0 ELSE CHOOSE n \in kept : \A k \in kept : k <= n

\* _log_gap
Gap == Cardinality(kept) # Highest

\* The account is in a group if its story is about one.
HasGroup == \E k \in DOMAIN story : story[k].kind \in {"group", "join", "leave"}

IsMessage(n) == log[n].kind \in {"direct", "group"}

\* group_source: only a current member reads the messages of a group.
Visible(n) == log[n].kind = "group" => HasGroup /\ State.member

Later(S, n) == {k \in S : k > n}

Newest(S) ==
    [k \in 1..Cardinality(S) |-> CHOOSE n \in S : Cardinality(Later(S, n)) = k - 1]

\* A handler that writes to the account: its change and the log entry.
Happen ==
    /\ Len(log) < Len(story)
    /\ log' = Append(log, Entry(story[Len(log) + 1]))
    /\ kept' = kept \cup {Len(log) + 1}
    /\ UNCHANGED <<story, now, binding, negotiated, session, client>>

Tick ==
    /\ now < MaxTime
    /\ now' = now + 1
    /\ UNCHANGED <<story, log, kept, binding, negotiated, session, client>>

\* The operator removes a row, never the last one.
Remove(n) ==
    /\ n \in kept /\ n # Highest
    /\ Len(log) - Cardinality(kept) < MaxRemoved
    /\ kept' = kept \ {n}
    /\ UNCHANGED <<story, log, now, binding, negotiated, session, client>>

\* The operator starts a new epoch of the stream.
NewEpoch ==
    /\ binding.client # NoClient /\ binding.epoch < MaxEpoch
    /\ binding' = [binding EXCEPT !.epoch = @ + 1]
    /\ UNCHANGED <<story, log, kept, now, negotiated, session, client>>
-----------------------------------------------------------------------------
(* Snapshots. *)

ReadItem == [what |-> "read", size |-> 1, read |-> State.read]

GroupItem == [what |-> "group", size |-> 1, changes |-> State.changes, member |-> State.member]

ReadItems == IF State.read = 0 THEN <<>> ELSE <<ReadItem>>

GroupItems == IF HasGroup THEN <<GroupItem>> ELSE <<>>

MessageItem(n) == [what |-> "message", size |-> log[n].size, seq |-> n]

\* Messages logged since the cutoff, whatever became of the group.
RecentRows == {n \in kept : IsMessage(n) /\ log[n].time >= now - Window}

\* _recent_plain_message_items
Recent == {n \in RecentRows : Visible(n)}

RecentItems ==
    LET newest == Newest(Recent) IN [k \in DOMAIN newest |-> MessageItem(newest[k])]

SnapshotFails == PackageFails(ReadItems, GroupItems, RecentItems)

\* history_policy: the oldest message included, if some were left out
Floor(newest) ==
    LET k == Selected(ReadItems, GroupItems, newest)
    IN  IF k = Len(newest) THEN 0
        ELSE IF k = 0 THEN Highest + 1 ELSE newest[k].seq

\* _issue_snapshot_recovery
Snapshot(newest) ==
    [epoch |-> binding'.epoch, highest |-> Highest, expires |-> now + Lifetime,
     cutoff |-> now - Window, floor |-> Floor(newest),
     pages |-> PackagePages(ReadItems, GroupItems, newest)]

\* The answer is compact_recovery_required.
Issue(c, restarts) ==
    \E newest \in {RecentItems} :
        /\ ~PackageFails(ReadItems, GroupItems, newest)
        /\ session' = [session EXCEPT ![c] = Snapshot(newest)]
        /\ client' = [client EXCEPT ![c].mode = "recover", ![c].page = 1, ![c].got = {},
                                    ![c].restarts = restarts]
-----------------------------------------------------------------------------
(* Clients. *)

NewClient ==
    [mode |-> "new", restarts |-> 0, epoch |-> 0, seq |-> 0, state |-> NoState, base |-> 0,
     pending |-> {}, known |-> {}, cutoff |-> 0, floor |-> 0, page |-> 0, got |-> {}]

Larger(a, b) == IF a >= b THEN a ELSE b

\* The last change of membership among some rows.
Membership(rows) ==
    LET changes == {n \in rows : log[n].kind \in {"join", "leave"}}
    IN  IF changes = {} THEN InitialState
        ELSE log[CHOOSE n \in changes : Later(changes, n) = {}].state

\* _sync_v2_event, for a page of the log: the newest read state and the newest
\* membership its entries tell of; a client's reducer drops what is older than
\* what it has.
Reduced(state, rows) ==
    [read |-> LET told == {state.read} \cup {log[n].state.read : n \in {k \in rows : log[k].kind = "read"}}
              IN  CHOOSE v \in told : \A w \in told : w <= v,
     changes |-> Larger(state.changes, Membership(rows).changes),
     member |-> IF Membership(rows).changes > state.changes
                THEN Membership(rows).member ELSE state.member]

\* parse_bootstrap_capabilities: a client asks for paged snapshots or is a
\* legacy one; anything else is refused.
Capabilities == BOOLEAN

\* _persist_negotiation: a legacy bootstrap leaves what was negotiated alone.
Negotiate(c, paging) == negotiated' = IF paging THEN negotiated \cup {c} ELSE negotiated

\* _negotiation_snapshot_enabled
SnapshotEnabled(c) == c \in negotiated

\* sync.bootstrap.  A refusal rolls the binding and the negotiation back.
Bootstrap(c, paging) ==
    /\ binding.client \in {NoClient, c}
    /\ client[c].mode = "new" \/ client[c].restarts < MaxRestarts
    /\ binding' = IF binding.client = c THEN binding ELSE [client |-> c, epoch |-> 1]
    /\ Negotiate(c, paging)
    /\ LET restarts == client[c].restarts + (IF client[c].mode = "new" THEN 0 ELSE 1)
       IN  \/ /\ Gap /\ paging
              /\ Issue(c, restarts)
           \/ /\ ~Gap
              /\ session' = [session EXCEPT ![c] = NoSession]
              /\ client' = [client EXCEPT ![c].mode = "follow", ![c].restarts = restarts,
                                          ![c].epoch = binding'.epoch, ![c].seq = 0,
                                          ![c].state = State, ![c].base = Highest,
                                          ![c].got = {}, ![c].page = 0]
    /\ UNCHANGED <<story, log, kept, now>>

\* The rows one page of sync.delta scans.
Scanned(after) ==
    {n \in Later(kept, after) : Cardinality(Later(kept, after) \ Later(kept, n)) <= Limit}

\* The rows are taken as they come.
ContiguousAtHead(after) == after <= Highest

\* No row of the page is missing.
Contiguous(after) == Scanned(after) = (after + 1)..(after + Cardinality(Scanned(after)))

\* sync.delta is answered with a snapshot to fetch.
Recover(c) ==
    /\ client[c].mode = "follow" /\ binding.client = c /\ SnapshotEnabled(c)
    /\ client[c].epoch # binding.epoch \/ ~Contiguous(client[c].seq)
    /\ UNCHANGED binding
    /\ Issue(c, client[c].restarts)
    /\ UNCHANGED <<story, log, kept, now, negotiated>>

\* sync.delta is answered with a page.  Messages the account may no longer
\* read are scanned past.
Delta(c) ==
    LET after == client[c].seq
        rows == Scanned(after)
    IN  /\ client[c].mode = "follow" /\ binding.client = c
        /\ client[c].epoch = binding.epoch
        /\ rows # {} /\ Contiguous(after)
        /\ client' = [client EXCEPT
                        ![c].seq = CHOOSE n \in rows : Later(rows, n) = {},
                        ![c].state = Reduced(@, rows),
                        ![c].pending = @ \cup {n \in rows : /\ IsMessage(n) /\ Visible(n)
                                                            /\ n \notin client[c].known}]
        /\ UNCHANGED <<story, log, kept, now, binding, negotiated, session>>

\* message.get_batch: rows that are gone and messages that may not be read
\* any more are unavailable.
GetBatch(c, S) ==
    /\ S # {} /\ S \subseteq client[c].pending /\ Cardinality(S) <= BatchLimit
    /\ client' = [client EXCEPT ![c].pending = @ \ S,
                                ![c].known = @ \cup {n \in S \cap kept : Visible(n)}]
    /\ UNCHANGED <<story, log, kept, now, binding, negotiated, session>>

Items(page) == {page.items[k] : k \in DOMAIN page.items}

\* What the snapshot says the state is.
Frozen(items) ==
    [read |-> IF \E i \in items : i.what = "read"
              THEN (CHOOSE i \in items : i.what = "read").read ELSE 0,
     changes |-> IF \E i \in items : i.what = "group"
                 THEN (CHOOSE i \in items : i.what = "group").changes ELSE 0,
     member |-> \A i \in items : i.what = "group" => i.member]

\* The session is anchored to the cursor that asked for it.
AnchorOfCursor(c) == [epoch |-> client[c].epoch, seq |-> session[c].highest]

\* A page is anchored to the head of the log, not to the session.
AnchorAtHead(c) == [epoch |-> session[c].epoch, seq |-> Highest]

\* snapshot_cursor
Anchor(c) == [epoch |-> session[c].epoch, seq |-> session[c].highest]

\* sync.snapshot: the next page.  The client takes the snapshot over with
\* its last page and goes on from its cursor.
Page(c) ==
    LET got == client[c].got \cup Items(session[c].pages[client[c].page])
    IN  /\ client[c].mode = "recover" /\ now < session[c].expires
        /\ client' = IF client[c].page < Len(session[c].pages)
                     THEN [client EXCEPT ![c].page = @ + 1, ![c].got = got]
                     ELSE [client EXCEPT
                            ![c].mode = "follow", ![c].page = 0, ![c].got = {},
                            ![c].epoch = Anchor(c).epoch, ![c].seq = Anchor(c).seq,
                            ![c].base = session[c].highest, ![c].state = Frozen(got),
                            ![c].cutoff = session[c].cutoff, ![c].floor = session[c].floor,
                            ![c].known = @ \cup {i.seq : i \in {j \in got : j.what = "message"}}]
        /\ session' = IF client[c].page < Len(session[c].pages) THEN session
                      ELSE [session EXCEPT ![c] = NoSession]
        /\ UNCHANGED <<story, log, kept, now, binding, negotiated>>

\* sync.recovery_token_expired: back to the cursor the client had.
PageExpired(c) ==
    /\ client[c].mode = "recover" /\ now >= session[c].expires
    /\ session' = [session EXCEPT ![c] = NoSession]
    /\ client' = [client EXCEPT ![c].mode = IF client[c].epoch = 0 THEN "new" ELSE "follow",
                                ![c].page = 0, ![c].got = {}]
    /\ UNCHANGED <<story, log, kept, now, binding, negotiated>>

-----------------------------------------------------------------------------
Init ==
    /\ story \in Stories
    /\ log = <<>> /\ kept = {} /\ now = 0
    /\ binding = [client |-> NoClient, epoch |-> 0]
    /\ negotiated = {}
    /\ session = [c \in Clients |-> NoSession]
    /\ client = [c \in Clients |-> NewClient]

Next ==
    \/ Happen
    \/ Tick
    \/ \E n \in kept : Remove(n)
    \/ NewEpoch
    \/ \E c \in Clients :
        \/ \E paging \in Capabilities : Bootstrap(c, paging)
        \/ Recover(c)
        \/ Delta(c)
        \/ \E S \in SUBSET client[c].pending : GetBatch(c, S)
        \/ Page(c)
        \/ PageExpired(c)

Spec == Init /\ [][Next]_vars

\* When a bootstrap of a new client, or a recovery, is served.
CanBootstrap(c) ==
    /\ client[c].mode = "new" /\ binding.client \in {NoClient, c}
    /\ Gap => ~SnapshotFails

CanRecover(c) ==
    /\ client[c].mode = "follow" /\ binding.client = c /\ SnapshotEnabled(c)
    /\ client[c].epoch # binding.epoch \/ ~Contiguous(client[c].seq)
    /\ ~SnapshotFails

\* A client keeps asking: it bootstraps until it is served, follows the log,
\* and fetches what it is told of.  The first two are weak fairness with
\* ENABLED spelled out.
FairSpec ==
    /\ Spec
    /\ \A c \in Clients :
        /\ []<>~CanBootstrap(c) \/ []<><<Bootstrap(c, TRUE)>>_vars
        /\ []<>~CanRecover(c) \/ []<><<Recover(c)>>_vars
        /\ WF_vars(Delta(c))
        /\ WF_vars(\E S \in SUBSET client[c].pending : GetBatch(c, S))
        /\ WF_vars(Page(c))
        /\ WF_vars(PageExpired(c))
-----------------------------------------------------------------------------
(* Properties. *)

\* A message the account may read: always one of its own, or one of a group
\* it has not left since.
Readable(n) ==
    log[n].kind = "direct" \/ \A k \in n..Len(log) : StateAt(log, k).member

\* A device that is at position n of the log has every message up to n that
\* is still in the log and readable, or is about to fetch it - but for what
\* the manifest of its last snapshot says it left out: messages before the
\* cutoff and, when the budget was spent, those before the oldest included.
NoSilentLoss ==
    \A c \in Clients : client[c].mode = "follow" =>
        \A n \in kept :
            /\ n <= client[c].seq /\ IsMessage(n) /\ Readable(n)
            /\ log[n].time >= client[c].cutoff /\ n >= client[c].floor
            => n \in client[c].known \cup client[c].pending

\* The newest k messages go into one package with the required state: the
\* reference the selection is held against.
FitsBudget(newest, k) ==
    LET required == ReadItems \o GroupItems
        messages == Suffix(newest, k)
        sections == {Paginate(ReadItems), Paginate(GroupItems), Paginate(messages)}
    IN  /\ Len(required) + k <= MaxPackageItems
        /\ Total(required) + Total(messages) <= MaxPackageBytes
        /\ PageCount(ReadItems) + PageCount(GroupItems) + PageCount(messages) <= MaxPages
        /\ \A pages \in sections : \A p \in DOMAIN pages : FitsPage(pages[p])

\* What can keep a snapshot from being taken: required state over the budget,
\* one item larger than a page, or, in an account without required state,
\* more pages of recent messages than a package may have (the trial that
\* goes over the limit raises instead of ending the selection).
Excused(newest, k) ==
    \/ ~RequiredFits(ReadItems, GroupItems)
    \/ OneItemTooLarge(newest)
    \/ RequiredPages(ReadItems, GroupItems) = 0 /\ PageCount(Suffix(newest, k + 1)) > MaxPages

\* The snapshot that would be taken now holds as many of the newest messages
\* as fit its budget of items, bytes and pages, no fewer and no more; and it
\* can be taken, but for the cases above.
SnapshotIsNewestSuffix ==
    \E newest \in {RecentItems} : \E k \in {Selected(ReadItems, GroupItems, newest)} :
        IF PackageFails(ReadItems, GroupItems, newest) THEN Excused(newest, k)
        ELSE /\ FitsBudget(newest, k)
             /\ \A j \in (k + 1)..Len(newest) : ~FitsBudget(newest, j)

\* The single device of an account ends up at the head of its log, whatever
\* rows were removed and epochs started on the way, unless it needs a
\* snapshot that cannot be taken.
CatchesUp ==
    \A c \in Clients : <>[](binding.client = c /\ SnapshotEnabled(c) =>
        \/ /\ client[c].mode = "follow" /\ client[c].epoch = binding.epoch
           /\ client[c].seq = Len(log) /\ client[c].pending = {}
        \/ SnapshotFails)

\* The state a client holds is the state at one point of the history, though
\* it came in pages, out of a baseline or out of a frozen snapshot.
Feed == INSTANCE StateFeed WITH
            history <- log,
            asof <- [c \in Clients |-> Larger(client[c].seq, client[c].base)],
            view <- [c \in Clients |-> client[c].state]

FollowsFeed == Feed!Spec
=============================================================================
