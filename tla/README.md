# Verification of awiki-open-server

TLA+ models of the parts of awiki-open-server where several threads, several
servers, or a server and its own past have to agree: hosted groups and their
federation, direct messages between servers, read state, the sync log and the
devices that follow it, attachments, accounts and agents. TLC
checks the models on small instances; TLAPS proves the main results for every
value of the constants. Paths below are relative to the repository
(`src/awiki_open_server/...`); `PROJECT.json` maps every definition to the lines
it models.

Each server is one process: a FastAPI application that serves every request in a
thread of its own, with one SQLite connection per transaction, plus one background
worker that drains the group outbox. Servers talk to each other over HTTP. A
transaction is therefore one atomic step of the models, and what the code does
*outside* a transaction - a check before `BEGIN IMMEDIATE`, a network call, a file
that is written or moved, an answer on its way - is a step of its own, with anything
in between.

## 1. Inventory

| Part (code) | State | Operations | Hard behaviour | What makes it correct |
|---|---|---|---|---|
| Group Host (`messaging/groups/service.py`, `projection.py`, `delivery.py`) | `hosted_groups`, `hosted_group_members`, `hosted_group_events`, `group_operations`, local `sync_events`, `group_views`, `group_message_views` | create, join, add, leave, remove, update profile / policy, rebind, send, replay of an operation | admission is checked, a network call is made, then the change commits; two threads run one operation id | the log has no gaps, members are the replay of the log, every actor had the authority, one event per operation, answers are true, local projections are fresh |
| Group outbox (`messaging/groups/outbox.py`, `storage/schema.py`) | `group_delivery_outbox` | enqueue in the event's transaction, select, deliver, fail, retry, give up | per-target order across retries and restarts; full queue; dead rows | order per target, bounded backlog, the right audience, every stream settles |
| Group migration (`messaging/groups/migration.py`) | `group_protocol_migrations`, the group's wire | prepare, cancel, apply | peers are asked between two transactions | the approved plan still holds at the switch; nothing of v1 is left undelivered |
| Member home (`messaging/groups/inbound.py`, `routing.py`) | `group_views`, `group_member_views`, `inbound_peer_events`, `group_message_views`, `group_operations`, `sync_events` | state-changed, incoming message, answer to a forwarded leave / remove / rebind, roster refresh | four sources of truth that overtake each other; lost answers | the view is on the log, never goes back, agrees at the head, messages are stored, clients told once |
| Direct messages (`messaging/core.py`) | `direct_messages`, `direct_message_views`, `sync_events` | `direct.send` from a client and from a peer, history | retries, reused ids, an answer lost after the peer stored the message | once per operation, stored at both ends before the sender is told |
| Read state (`messaging/core.py`) | `thread_read_states` | `read_state.mark_read`, `inbox.mark_read` | two handlers move one watermark by different rules | monotone, and every move is in the sync log |
| Sync log (`messaging/core.py`, `shared/runtime.py`) | `sync_events`, the cursor of a device | `sync.delta`, `sync.thread_after` | pages read between commits | a device at the end of the log has everything |
| Sync bootstrap, snapshots (`messaging/core.py`, `standard_sync.py`) | devices, stream epochs, packages | bootstrap, recovery, pages | log grows while a snapshot is issued; page limits | nothing is lost between snapshot and log |
| Attachments (`attachments/core.py`) | slots, objects, tickets, files | create slot, upload, commit, abort, clean up, download | file and row change in separate steps; uploads race commits | a committed object has its bytes; one commit per slot |
| Accounts and tokens (`user_compat/`) | users, DID documents, one-time codes, access / refresh tokens, nonces | send code, register, log in, refresh, signed request, update document, revoke | the caller is checked in one connection, the change is made in another | a code or a signature is used once; one writer per document version; revocation holds |
| Agent registry (`user_compat/`) | registration tokens, bindings, inventory | issue, exchange, revoke token; bind, disable, mark seen; report, edit, archive | the same, and reports overlap an operator's edits | a token or binding is granted once, unless requests cross; an operator's choice stands, once the agent was reported |
| Legacy groups, content, relationships, sites | rows | single statements | none beyond SQLite's | - |
| Realtime push (`app/realtime.py`) | bounded in-memory queues | publish | drops the oldest hint; clients recover by sync | nothing durable depends on it |
| Service identity, protocol adapter, JSON-RPC application, CLI | none of their own | signatures, validation, routing | cryptography and I/O | - |

How they interact: the host writes an event, its local projections and the outbox
rows of the remote members in one transaction; the worker posts a row to the
member's home, which applies it and answers; a home forwards a member's own leave,
remove or rebind to the host and applies the answer, which may overtake the rows
of the outbox; a home may also read the roster (`group.get_info`) at any time.
Direct messages go to the recipient's server first and are then stored by the
sender's. Every part writes `sync_events`, which devices follow.

`PROJECT.json` lists the hazards of this code, each at its line, with the
properties that cover it. The one without a property has a note that says why.

## 2. Modules

| Module | Models | Role |
|---|---|---|
| `GroupHost` | the host, its outbox and the migration of one group | component |
| `GroupFederation` | `EXTENDS GroupHost`: homes of the remote members, the calls between, forwarded operations, roster reads | composition; implements `GroupHost` |
| `DirectMessages` | two or more servers, their threads, messages, read state, sync log, following devices and paging clients | component, with its network |
| `SnapshotPackage` | how recent messages and required state are cut into pages under the budgets of a package | pure algorithm |
| `DeviceSync` | `EXTENDS SnapshotPackage`: an account's log, its bound device, snapshot sessions, clients | component; implements `StateFeed` |
| `StateFeed` | what a device that follows an account is promised | abstract specification |
| `Attachments` | slots, files, objects and tickets | component |
| `Accounts` | users, documents, tokens, codes and nonces | component |
| `AgentRegistry` | `EXTENDS Accounts`: registration tokens, bindings, inventory | composition |
| `MCGroupHost`, `MCGroupFederation`, `MCDirectMessages`, `MCDeviceSync`, `MCAttachments`, `MCAgentRegistry` | agents, workloads, stories and scenarios of the runs | instances |
| `GroupHost_proofs`, `GroupFederation_proofs`, `MemberHome_proofs` (extends the former), `DirectMessages_proofs`, `Attachments_proofs`, `AgentRegistry_proofs` (with those of `Accounts`), `SnapshotPackage_proofs`, `DeviceSync_proofs` (extends it) | theorems | proofs |

Each module also holds, just before the definition in question, a few plausible wrong
versions of it (a dropped guard, a missing reset). Nothing uses them but the mutation
runs listed in `PROJECT.json`, where each must break its property.

### GroupHost

One group, created before the first step. A request is a record (method, wire
profile, sender, operation id, arguments) of the finite workload `Requests`; it may
be called any number of times and by several threads, which is how a retry and a
reused operation id arise.

* `Accept` is what every operation ends with in one transaction: the next event
  number, the state version (`NextVersion`; a message takes none), the event, the
  stored result of the operation, the outbox rows of the recipients, the sync events
  and views of the local members, the answer.
* `PrepareMembership` / `CommitMembership` and `PrepareRebind` / `CommitRebind` are
  joins, adds and rebinds: the checks before the network call, and the transaction
  after it that checks again (`StillAdmitted`, `StillBound`). `AbandonRequest` is the
  error between the two.
* `EndMembership`, `UpdateGroup`, `Send` are single transactions; `Replay` answers a
  known operation from `group_operations`.
* `SelectBatch`, `MarkDelivered`, `MarkFailed` are the worker: any of the eligible rows, at
  most one per target, are selected (which are due and which the LIMIT keeps is left
  open); a settled row is delivered, up for retry or, after `MaxAttempts` tries or a
  permanent refusal, dead. `Restart` forgets the selected rows and what threads were
  doing; the tables stay, so a row that was in delivery is sent again.
* `Prepare`, `FinishPrepare`, `Cancel`, `BeginApply`, `FinishApply`, `AbandonCommand` are
  the migration, with the peers asked in between.
* `RebindHandle` is the name service (external): a handle moves to another DID with the
  next generation.

Digests are the requests themselves: two requests have the same digest exactly when
they are equal. Names, profiles and message bodies are model values.

### GroupFederation

Adds for each remote member the tables of its home and, for each selected row, the
home's answer (`posted`). `Handle` runs the whole inbound handler - `StateVerdict` and
`MessageVerdict` keep the order of its checks - and the answer may be lost when
`Lossy`. `SettlePosted` is the host's half. `TerminalAnswer` and `RebindAnswer` apply an
answer of the host to a forwarded operation at any later time, once or again.
`ReadGroupRow`, `ReadMemberList`, `ApplySnapshot` are a roster refresh: the host reads the
group row and the member list in two statements outside a transaction, so the pair may
be torn, and the home applies it later still.

### DirectMessages

A server thread picks up a request (`Send`, `SendAgain`), checks (`Check`), posts it to
the recipient's server when that is another one (`Post`), takes the answer (`Answered`)
and inserts (`Insert`); it may be abandoned anywhere (`Abandon`: a time-out, an error, the
end of the process), which loses the answer but not what is committed. `Check` holds the
read of `MAX(server_seq)+1` that the code makes before its first write; merging the reads
of one handler is sound because the unique index, not the reads, decides what is inserted
and only a commit in between can tell them apart. `MarkRead` and `InboxMarkRead` are the
two handlers that move a watermark; `Delta` and `ThreadAfter` are a device and a client
that page. A client that retries reuses its message id, and a request never has its
sender as recipient (a message to oneself would be announced twice in one log).

### DeviceSync, SnapshotPackage and StateFeed

One account, with the device that is bound to it and others that would like to be.
`Happen` is any handler that writes to the account together with its log entry (a direct
or group message, a read mark, a join or leave); an entry carries the state it left, so
the account's tables are a function of the log. `Bootstrap` binds the device, records what
was negotiated and serves a baseline - or, when rows are missing from the log and the
client takes pages, a snapshot; `Delta` and `Recover` are the two answers of `sync.delta`;
`Page` and `PageExpired` are `sync.snapshot`; `GetBatch` is `message.get_batch`. Bootstrap and
delta open with `BEGIN IMMEDIATE` and a page or a batch is one read, hence one action
each. `Remove` and `NewEpoch` are the operator: rows of `sync_events` go (never the last
one, whose number is the head of the log) and the stream gets a new epoch. A lost answer is
no step, since it changes nothing that anyone can still read.

`SnapshotPackage` holds the arithmetic of `standard_sync.py`: `Paginate` cuts a section into
pages, `Selected` is the loop that adds the newest messages one by one while a trial
package fits, and `PackageFails` says when it raises - including the trial at line 261 that raises
instead of ending the loop (section 6). The property `SnapshotIsNewestSuffix` holds it against
`FitsBudget`, a direct definition of what fits.

`StateFeed` says that a client's picture of the read state and the membership is always the
state after *some* prefix of the account's history and that the prefix only grows. `DeviceSync`
implements it (`FollowsFeed`) with `asof` mapped to the larger of the cursor and the head at
which the baseline was read: a baseline is newer than its cursor 0, and the pages that follow
repeat old entries, which the client's reducer drops.

### Attachments

`worker` holds what each thread, and the event loop, is doing with which slot and bytes;
every `SELECT`, file operation and closing write is an action of its own (`CommitCheck`,
`CommitRead`, `CommitMove`, `CommitStore`, ...), because no handler opens a transaction before its
first write. Uploads run on the event loop without awaiting, so one at a time, but beside
the threads. Writing a file and renaming it are atomic. `Restart` may happen between
any two steps and forgets the handlers. `crossed` is a history variable: the slots of which an upload and a
commit were under way together. Slot and object ids are drawn together and have one name.
Bytes stand for their size and digest.

### Accounts and AgentRegistry

A scenario is a set of requests, each made once, that may arrive in any order and overlap.
`running` holds the handlers between two connections with what they saw in the first one:
`RefreshLook` then `Rotate`, `SignedLook` then `Consume` then `Rotate`, `UpdateRead`, `UpdateAuth` then
`UpdateWrite`, `ExchangeLook` then `ExchangeWrite`, and so on. A handler of one transaction is one
action (`Register`, `RevokeToken`, the operator's edits). A refused request changes nothing and
is left out. The clock only moves forward; lives are compared with it as in the code (`<`
for tokens and codes, `<=` for signatures and registration tokens). `honoured` is a history
variable: each use of a credential that is meant to be used once, with the uses that were
complete when its request began. The documents of one DID share their root key; the only
signed request is `get_me`; updates and revocations carry a bearer token. `Controller` merges two
reads of one look-up and `StatusItem` the read and the upsert of one transaction, whose
`ON CONFLICT` clause decides alone which columns are kept.

## 3. Runs

All cfgs say `CHECK_DEADLOCK FALSE`: the workload is finite, and a system that has
served it may stop.

| Run | Instance | Checks | Shows |
|---|---|---|---|
| `host_membership` | v1 group, migrated once; olga and adam local, rita and quin remote; 1 handle, 2 generations; 2 threads; 10 requests; `MaxPending` 2, `MinReserve` 1, `MaxAttempts` 1; 517,657 states | `TypeOK`, `RosterFollowsLog`, `AuthorityFollowsLog`, `OneEventPerOperation`, `AnswersAreReceipts`, `LocalCopiesFollowLog`, `AdmissionWithinLimit` | before the switch a join with a handle, its rebind and a leave; after it, adds race the removal of the adding admin, a reused operation id, a return and a lowered limit |
| `host_outbox` | `FairSpec`; 2 remote members; `MaxPending` 2, `MaxAttempts` 2, one restart | `OutboxBounded`, `StreamInOrder`, `AudienceFollowsLog`, `StreamsSettle` | backpressure, order (a row is given a verdict only when those before it have one) and audience under failures, retries and a restart; every stream settles (delivered, or stopped by a dead row) |
| `host_dead_row` | `FairSpec`; 2 remote members, 3 requests of which one is a leave; `MaxPending` 4, `MaxAttempts` 2, no restart | `DeadRowsRelease` | **violation** (finding 3) |
| `federation_return` | olga, adam, remote rita; lossy; one refresh; `MaxAttempts` 2 | `HomeViewOnLog`, `HomeTrueAtHead`, `DeliveredIsStored`, `ToldOnce`, `ViewsAdvance` | add, forwarded leave and return of a member under loss, retry and a torn roster read |
| `federation_migration` | v1, remote rita and quin of one home, 1 handle, 2 threads (symmetric), `MaxPending` 3, `MaxAttempts` 1, 3 generations, one restart, 2 preparations; 456,529 states | `OneViewPerMembership`, `PlanHolds`, `CutoverDrained` | the migration of the group races joins, rebinds and deliveries; a late notification for the old DID does not bring its view back beside the view it was moved to |
| `federation_live` | `FedFairSpec`; olga, remote rita and quin; not lossy; quin refreshes | `AllDelivered` | every notification is delivered |
| `federation_forwarded_leave` | one remote member | `AllDelivered` | **violation** (finding 1) |
| `direct_messages` | 2 servers, 3 users, 3 threads (symmetric per server), 2 message ids, 5 requests, `PageLimit` 1; 484,063 states | `TypeOK`, `OneRowPerOperation`, `SentIsDelivered`, `AcceptedIsStored`, `LogTellsAll`, `DeltaComplete`, `PagesCompleteSerial` | sends race with reused ids, lost calls, answers and threads; marks and devices keep up |
| `direct_pages` | 2 threads of one server, 3 messages, `PageLimit` 2 | `PagesComplete` | **violation** (finding 2) |
| `device_sync` | `FairSpec`; 2 clients, 3 stories, pages of 2 rows, 2 items or 2 bytes, packages of 4 items, 6 bytes, 2 pages, one removed row, 2 epochs, one expiry; 479,768 states | `NoSilentLoss`, `SnapshotIsNewestSuffix`, `FollowsFeed`, `CatchesUp` | a device that bootstraps, follows, recovers and fetches misses nothing it is not told of, holds a true picture, and gets to the end |
| `attachments` | 1 slot, 2 threads and the event loop, 2 contents, 2 users; symmetric; 581,984 states | `TicketsWork`, `AnswersStand`, `IntactUnlessCrossed` | uploads, commits, aborts and clean-ups race file step by file step, with a stop anywhere |
| `accounts` | 8 scenarios of 4 to 8 requests, 3 DIDs, clock to 3, one restart; 643,964 states | `TypeOK`, `OnceAtAll`, `OnceUnlessCrossed`, `OneWritePerVersion`, `ChoicesStand`, `RevokedStays` | requests that conflict pairwise, handler step by handler step |

Three properties join two statements each: `LocalCopiesFollowLog` (`LocalHistoryFollowsLog`,
`LocalViewsFresh`), `HomeTrueAtHead` (`HomeAgreesAtHead`, `RosterAtHead`), `LogTellsAll`
(`LogAnnouncesThreads`, `LogCarriesMarks`).

Why the bounds are enough. The races are between *two* threads that both passed a
check, so two threads and requests that conflict pairwise reach each of them; a third
user or thread is there where two servers take part. A row needs one failure before a
success to be a retry, so `MaxAttempts` 2 gives retry and death; where the run is about
something else, 1. `MaxPending` is small so that the queue *is* full during the run, with
`MinReserve` 1 so that the reserve for management events is used. One restart may
happen at every point, which is what distinguishes it from none. `PageLimit` 1 ends a
page at every position of the log. Each bound that exists only for TLC (`MaxRestarts`,
`MaxGeneration`, `MaxPreparations`, `MaxRefreshes`, the workloads) is a constant the
theorems leave arbitrary.

In `device_sync` one removed row makes a gap, a second epoch makes a stale cursor, and a
clock of two instants with `Window` 0 and `Lifetime` 1 makes a message old and a snapshot
expire; the stories mix direct and group messages, read marks and membership changes, and the third
has messages so large that a package is truncated and, without required state, fails. In
`attachments` everything is about one slot, since no step touches two. In `accounts` the lives are a
few ticks, chosen so that a refresh token outlives its access token and a code, a
signature and a registration token run out during the run; a signature may be sent at its last instant and
again one tick later.

`federation_live` gives refreshes only to quin and the rejoin only to rita. Together they
reach a case where the home refuses for good: a removal and a return between the two
reads of one `get_info` leave the home a head it cannot continue from, and it refuses
`member-activated` as `group.projection_gap`. The safety runs include that case.

## 4. Fairness

Clients, operators, the name service and the network owe nothing: requests, retries,
refreshes and restarts have no fairness, and restarts are bounded. Two assumptions are
made of the worker, and one of the client whose progress is in question.

* `WF(Settle)` (in the federation: `Handle` or `SettlePosted` of a selected row). A selected
  row is settled in the same pass of the worker, since every HTTP call has a time-out
  and both outcomes write the row.
* `SF(SelectStream(t))` for each target. The worker runs every second for as long as the
  server does, selects the due rows, and the back-off of a row is bounded, so a target
  whose row is eligible again and again is selected. Strong fairness is needed because
  a selection is impossible while the rows of the previous pass are being settled.
* `DeviceSync`'s `FairSpec`: a client keeps asking. It bootstraps until it is served, calls
  `sync.delta`, fetches the pages of a snapshot or learns that it expired, and fetches the messages
  it was told of; the server answers each call in one transaction. The first two conjuncts
  are weak fairness with `ENABLED` spelled out (`CanBootstrap`, `CanRecover`). Changes to the
  account, expiry, removed rows and new epochs are finite. `CatchesUp` is about a client that negotiated
  pages - a legacy client is refused when the log has a gap - and excepts the
  snapshot that cannot be taken.

`federation_live` is not lossy: under unbounded loss rows die after `MAX_DELIVERY_ATTEMPTS`, which
is the code's intention; `host_outbox` covers it with `StreamsSettle`.

## 5. Proofs

Assumptions: `AgentsAssumption`, `BoundsAssumption`, `GroupAssumption`, `RequestsAssumption`,
`FederationAssumption`, `HomeAssumption`, `ClientsAssumption`, `AttachmentsAssumption`, `BudgetAssumption`, `SyncAssumption` - finiteness
of the agents and messages, the shape of requests, bounds that are natural numbers, a valid
initial policy, that a message to another server carries an operation id, and that the
names for "nothing" are not among the values. TLC evaluates them on every run. For accounts and agents they are
`AccountsAssumption`, `CallsAssumption`, `AgentsAssumption` and `AgentCallsAssumption`: lives and clocks are
natural numbers and every request of a scenario has the fields its handler reads. Nothing else is
assumed, but for the two theorems of `MemberHome_proofs`, which state their hypothesis.

### The host (`GroupHost_proofs`)

| Theorem | Property | Argument |
|---|---|---|
| `TypeCorrect` | `TypeOK` | `TypeInv` = `TypeOK` and `AttemptsLeft`: a row that is still to be tried has tries left, without which a failure could count past the bound |
| `LogGapless`, `OperationsOnce`, `ReceiptsTrue` | `LogIsGapless`, `OneEventPerOperation`, `AnswersAreReceipts` | `OpsInv` = `TypeInv`, `LogIsGapless`, `OpsIndexLog` and `AnswersAreReceipts`: each event of the log has its stored operation and the other way round, so a second thread of the same operation finds it in its own transaction |
| `StreamsInOrder` | `StreamInOrder` | `StreamInv` = `TriedBehindDelivered` with `OutboxBehindHead`: a row is tried only behind delivered rows, since the worker stops at a dead one, and no row is ahead of the group's event number, so new rows always go to the end of their stream. It implies `StreamInOrder`, which says no more than the design document does: behind rows that are delivered or dead |
| `RowsOnlyAttempted` | no run's | every step leaves a row as it is or counts one attempt at a row of the batch (`OutboxStep`); rows are not lost, and what is delivered or given up stays so |
| `HeadsExist` | no run's | `HeadInv` = `StreamInv` and `Tried` (only pending rows are untried): take the first undelivered row of a stream; it may be sent or was given up, and by `TriedBehindDelivered` nothing behind it was tried. With `AttemptsLeft` this is the safety half of `StreamsSettle` |
| `RosterIsLog`, `AuthorityHolds` | `RosterFollowsLog`, `AuthorityFollowsLog` | `RosterInv`: the member table is the replay of the whole log, so the check in the second transaction is a check against the log |
| `AudienceIsRoster` | `AudienceFollowsLog` | `AudienceInv`: the rows of an event are those of the remote members its transaction read, and the table it read is the replay of the log so far |
| `BacklogBounded` | `OutboxBounded` | `BoundedInv` = `StreamInv` and that the table is finite: a transaction that adds rows has counted the unsent ones and at least the rows it adds (`CapacityCounts`), and a settled row never becomes unsent again |
| `AdmissionLimited` | `AdmissionWithinLimit` | the second phase counts the members in its own transaction |
| `LocalCopiesTrue` | `LocalCopiesFollowLog` | `LocalInv` adds `FormerBehindHead`: the view of a former member is behind the head, so that no later event changes what the log says about it |
| `PlansHold`, `CutoverIsDrained` | `PlanHolds`, `CutoverDrained` | `MigrationInv` adds `RowsOfRequests` (a row notifies an event some request caused): while prepared nothing but deliveries changes, and apply checks plan and outbox again in its own transaction |

### The federation (`GroupFederation_proofs`)

`FederationImplementsHost` is the refinement: every step of the host with its homes is a
step of the host or leaves its variables alone. The host theorems carry over
(`FederationKeepsAuthority`, `FederationKeepsOrder`). `HomeViewsOnLog` and `HomeViewsAdvance` need
`ViewInv`: answers, snapshots and rows in flight all name pairs of event number and
version of the log, whose versions rise with the numbers (`HostFacts`), so whichever
arrives last cannot show a pair that never was. `ClientsToldOnce` rests on `FeedInv`: what
is in the feed is recorded in `inbound_peer_events`. `ViewsOfMemberships` counts: a view is created only
with the record of a beginning that no other view stands for, and a rebind moves it.
(The property it states was first written for one DID, "a view that a rebind has revoked stays
revoked". The attempt to prove it showed that to be too strong: the previous DID may join
the group again, and its view then returns rightly.)

### The member home (`MemberHome_proofs`)

`MessagesStored`: `StoredInv` says that what a home has seen is stored (`SeenStored`), that a row that was
accepted or marked delivered was seen (`AcceptedStored`, `DeliveredStored`), and that the mailbox holds
only messages whose outbox row named the agent (`MailboxRows`), which by `AudienceIsRoster` was a
member then. The hypothesis `Rebindless` is that the group is v2 or no request rebinds: a v1 rebind
moves the mailbox to the next DID at the home, and the property is not meant to follow it.

`HomesTrueAtHead`: `HomeInv` says of every view which part of the log it is true of. A view that is ahead of
the notifications shows the membership its agent has at some event between the view's number and the head
(`StatusTrue`); the roster of a home that observed it during this membership is right about everybody whom no event
between the view and that later event concerns (`RosterBetween`, `RosterTrue`), since the group row
of a `get_info` is read before the members and may be older (`TrueSnapshot`); and the member table has the roles the log
gave (`RolesFollowLog`). TLC
checked `HomeInv` on the instance of `federation_return` before it was proved. The hypothesis is that the group
was created v2: under v1 a member who returns stays `left` at its home (section 6), so the statement is false.

### Direct messages (`DirectMessages_proofs`)

`CallInv` ties a waiting thread to its callee: both work on one request, at the right
servers (`Waits`). `DeliveryInv` adds that a thread at work on the sender's copy has the
message stored at the recipient's server (`Delivered`) and that the copies of a message
agree in every column (`CopiesAgree`). `LogInv` states that the log announces
what the tables hold (`Announces`, `Carried`), and `Follows` that a device holds the reduction
of the log up to its cursor, whatever the page size. They give `OperationsStoredOnce`,
`SentMessagesDelivered`, `AcceptedMessagesStored`, `LogIsTrue` (from `MessagesAnnounced` and
`ReadStatesLogged`) and `FollowersComplete`; `MessagesTypeCorrect` is their type invariant.
`SerialPagesComplete` needs `SerialInv`, about servers with one thread: no two messages have one number, the number a
thread has read and not yet used is above all that are stored (`Ordered`), and a reader stands at a
stored message (`Paged`), so that nothing can still appear at or below it. With two threads the
first two fail, which is the finding of section 6.

### Attachments (`Attachments_proofs`)

All three properties, for any number of slots, threads and contents. `TypeInv`
(`AttachmentsTypeCorrect`) includes that a handler at work has a slot that was created and, past its check,
its bytes. `CommitAnswersStand` and `TicketsFindFiles` rest on `FileInv`: an object has a file, and so has
one whose commit has moved the file and not yet inserted the row. `ObjectsIntact` needs
`Apart`, per slot without a crossing: an upload under way has no commit beside it, so the bytes
a commit checked are the bytes it moves; after the move nothing is left to upload over, so a
second commit finds no file; after the insert the slot takes no uploads, whatever an abort or
a clean-up does to its status.

### Accounts and agents (`AgentRegistry_proofs`)

All six properties, for any scenarios, clock and restarts, from one invariant, `RegistryInv`
(`RegistryHolds`): the types of all rows and what each handler may be waiting for (`TypeInv`); the inventory holds what was chosen, and of an agent nobody reported only an early archive can have been
chosen (`ChoiceInv`); a written update read a version below the document's (`VersionInv`); a
code that was honoured is in no row that could be redeemed (`CodeInv`); the nonce of an honoured
signature is kept until the signature has run out (`NonceInv`); a request is granted at most one thing, after it arrived
(`CallInv`); an honoured refresh token belongs to nobody any more, and no two accounts share a pair
(`PairInv`); honoured registration tokens are used and honoured bindings are there (`SpentInv`); and what
a handler is about to be granted was not granted before it arrived (`OnceInv`). They give `Types`, `AtMostOnce`,
`OnlyCrossing`, `OneWriter`, `Choices` and, as action properties, `Revocation` and `Versions` (a document's version never goes back).

### Devices (`SnapshotPackage_proofs`, `DeviceSync_proofs`)

`PackageHolds` is about the pure algorithm: the page starts are the positions at which the item
and byte limits are next exceeded, `Starts` lists them in order (`NthExists`), consecutive
pages meet (`PagesCover`), and so the pages of a package hold exactly the required items and the newest ones that
were selected. How many are selected is `SelectionIsLargest`: as many of the newest as the budget
allows, no fewer and no more, which is not plain, since the loop of `select_snapshot_package` stops at
the first message that does not fit and pages are filled greedily from the oldest message on, so that
one message more moves every page break. The argument: put one item in front of a sequence, and up to
any later item there are as many pages as before, the last starting no later, or one more, the last
starting no earlier (`Abreast`, kept from item to item by `AbreastNext`), so in the end the pages are as many or one more (`OnePageMore`, `FrontedPages`). Hence the pages, like the
items and bytes, only grow with the messages (`SuffixPagesRise`, `BackwardsTotal`), and a budget once spent is spent
for every longer suffix (`SpentStaysSpent`); and, as one message takes at most one page more, counting
the pages of a trial raises only where there is no required state (`MayFail`). `FewestPages` compares the
greedy pages with every other way of cutting a section into pages that fit: none has
fewer. `PackageWithin` is the converse of the selection: what is made is within the limits of every page and of the package.
Sums are unfolded by `SumUpTo`; facts about sequences of any length are proved with a least counterexample
(`LeastNatural`), since the library's induction theorems cannot be instantiated.

`NothingLost` and the refinement `FeedFollowed` come from one invariant, `SyncInv` (`SyncInvariant`), which TLC
checked on the instance of `device_sync` first. `LogInv`: each entry carries the state its change
made of the one before, and the newest row is never removed, so the highest row that is kept is the
length of the history. `Good`: what a client holds is the state at `AsOf`, the larger of its cursor and its
baseline, and nothing up to its cursor is missing, also while it is fetching a
snapshot or has fallen back from one that expired. `Fetching`: a snapshot under way tells the state and lists the messages of its own head,
which is not behind the client, and what the client has is the first pages of it. The
steps that need an argument are `DeltaRow` - reducing a page
that overlaps the baseline gives the state at the later of the two (`ReducedIs`), because
the counters in the entries only rise - and `TakenAccounts`: messages from `floor`
on are among those selected, since `Newest` lists them by rank (`NewestIs`).

The same invariant brings the facts about packages to the protocol: `SnapshotIsLargest` (with `LargestNow`) states
`SnapshotIsNewestSuffix` of every state, and `PagesStayWithin` that the pages of a session keep within their limits while it
lives. Two theorems are the safety half of `CatchesUp`: `NeverStuck`, that a device which is behind is
offered a page of the log or a snapshot unless its snapshot cannot be taken, because the newest row is kept and so a
page is never empty in front of the head (`RowsAhead`); and `AnswersAdvance`, that each of these answers brings it
forward. What is left to TLC is that they keep coming.

### Only model-checked

`StreamsSettle`, `AllDelivered` and `CatchesUp`: liveness under fairness is beyond the
prover. Every other property of a passing run is a theorem.

## 6. Findings

1. **A forwarded leave overtakes a notification** (`federation_forwarded_leave`). Its answer
   moves the view ahead; an earlier state event then looks stale (`inbound.py:176`), is
   refused until dead and blocks the stream.
2. **A message may be missed by paging** (`direct_pages`). `server_seq` is read before the
   transaction that writes it (`core.py:269`), so two sends store equal or out-of-order
   numbers, and `sync.thread_after` skips the second. `sync.delta` does not
   (`DeltaComplete`), and neither does paging while sends do not overlap
   (`PagesCompleteSerial`).
3. **A dead row blocks its stream** (`host_dead_row`). The worker skips a row while any earlier row of
   its target is not `delivered` (`outbox.py:156`), dead ones included; the design document
   (`docs/community-groups-design.zh-CN.md:741`) sends later events once the earlier ones are done
   *or dead*. `StreamInOrder` is stated over rows that are delivered or dead, so it asks nothing the
   document does not; `StreamsSettle` takes a stream behind a dead row as settled, and
   `DeadRowsRelease` is the document's promise, which fails.

Further disagreements between code and documents, which the models contain but no run is
about:

* Remote initial members are never told: `hosted_group_create` enqueues nothing for them
  (`service.py:571`; design document, line 552).
* A v1 member who returns stays `left` at its home: only v2 reactivates an ended view
  (`inbound.py:150`; design document, line 366).
* A snapshot may fail where it should be truncated: without required state, the trial package that
  goes over the page limit raises (`standard_sync.py:261`) instead of ending the selection, and the client
  gets `sync.snapshot_required_state_too_large`; the docstring at line 155 and
  `tests/test_standard_sync.py:149` expect the newest messages that fit. `Excused` names the case.
* An upload that overlaps a commit of its slot can leave a file unlike its row: the bytes are checked before
  the file is moved (`attachments/core.py:260`), and the upload marks the slot
  `uploaded` again after the commit. Hence `IntactUnlessCrossed`.
* Refresh tokens, agent registration tokens (`"one_time": True`, `user_compat/core.py:1340`) and bindings can be
  granted to two requests that overlap, since the look-up is not repeated in the
  transaction. Hence `OnceUnlessCrossed`.
* An archive or unbind that comes before the agent's first report is lost: without a row
  `agent_inventory_archive_agent` answers `status: "archived"` and stores nothing (`user_compat/core.py:1759`),
  `agent_inventory_unbind_agent` answers ok for an `UPDATE` of no row (line 1842), and the report that follows
  inserts the agent as active. `tests/test_agent_compat.py:220` takes that answer as done. `ChoicesStand`
  excepts exactly these agents (`chosen[a].early`); a later archive, of the stored row, stands.
* `send_otp` stores the handle as it was sent (`user_compat/core.py:1853`) while registration compares the
  lower-cased local handle (lines 526, 558); and the row and the operator's file of two codes
  sent at once may be of different codes, in which case neither works.

Observations on direct messages: the race of finding 2 can also leave
an unread message at or below the watermark, which the docstring at `core.py:1016` excludes;
`mark_read` can change `read_message_id` without a new version or event; a retry with its
operation id but without its message id is a conflict; nothing in the code deletes
`sync_events`, so a gap that needs snapshot recovery arises only from an operator or from another
stream epoch.

## 7. Not modelled

* Cryptography, DID documents, HTTP and signatures: a peer that is not who it claims is
  a call that fails.
* Validation and translation of envelopes: a refused request is never an input.
* Realtime push (hints in bounded memory that nothing durable depends on), content,
  relationships, sites and legacy groups (single statements on independent rows), the
  command line (a client of the same methods).
* Of snapshots: manifest digests, signed page references, the empty compatibility lanes.
* Of attachments: parsing of sizes, digests and content types.
* Of accounts: profiles, handle look-up, the registration throttle, key files, the
  fixed-code e-mail and phone endpoints, `did_verify_refresh`'s second read, accounts without
  a refresh token, the root-key check of an update, and the read-only methods of agents.
* The backup file of a migration, schema upgrades, the ephemeral heartbeat of direct
  messages, read state of group threads.
* SQLite itself: transactions are atomic and serialised, and a committed one survives.

## 8. Plan

Done, in order: `GroupHost` (the authority everything else follows), `GroupFederation`
(the composition, with the refinement), `DirectMessages`, `DeviceSync` with `StateFeed`,
`Attachments`, `Accounts` with `AgentRegistry`; proofs of every safety property of all of them.

Left: read state of group threads, and the parts of section 7 that keep state of their own.
