----------------------------- MODULE GroupHost -----------------------------
(***************************************************************************)
(* The Group Host: the authoritative state of one hosted group             *)
(* (messaging/groups/service.py), the notifications it queues for remote   *)
(* members (delivery.py) and the worker that drains them (outbox.py).      *)
(*                                                                         *)
(* A handler that opens its transaction with BEGIN IMMEDIATE before it     *)
(* reads anything is one action.  group.join, group.add and                *)
(* group.rebind_member first resolve the member outside any write          *)
(* transaction: they are two actions of a thread, and everything the first *)
(* one saw may be stale when the second one runs.  A request that is       *)
(* refused changes nothing and is no step.                                 *)
(*                                                                         *)
(* Clients draw from the workload Requests, may send the same request any  *)
(* number of times, and may reuse an operation id for another request.     *)
(* The digest of a request is the request itself.                          *)
(*                                                                         *)
(* Left out: the profile document (no decision reads it), receipts'        *)
(* signatures, and the copies of the roster kept for the local members of  *)
(* a hosted group, which no query of a hosted group reads.                 *)
(***************************************************************************)
EXTENDS Integers, Sequences, FiniteSets

CONSTANTS
    Agents,         \* DIDs
    Remote,         \* those whose home is another service
    Handles,        \* handles that a name service binds to a DID
    Requests,       \* the workload
    Threads,        \* server threads that may hold a join, add or rebind
    InitialRoles,   \* DID -> role: the members group.create wrote
    InitialPolicy,
    InitialWire,    \* wire profile the group was created with
    MaxPending,     \* settings.group_outbox_max_pending
    MinReserve,     \* the 10 of ensure_outbox_capacity
    MaxAttempts,    \* MAX_DELIVERY_ATTEMPTS
    MaxGeneration,  \* bound: binding generations of a handle
    MaxRestarts,    \* bound: restarts of the process
    MaxPreparations, \* bound: migrations of the group that are prepared
    NoRequest, NoAgent, NoHandle, NoPlan

Local == Agents \ Remote

RoleLevel == [member |-> 1, admin |-> 2, owner |-> 3]

Roles == {"member", "admin", "owner"}

Permissions == {"send", "add", "remove", "update_profile", "update_policy"}

\* _validate_policy
ValidPolicy(policy) ==
    /\ policy.admission \in {"open-join", "admin-add"}
    /\ \A p \in Permissions : policy[p] \in Roles
    /\ policy.max_members \in 1..100

Methods == {"group.join", "group.add", "group.leave", "group.remove", "group.send",
            "group.rebind_member", "group.update_profile", "group.update_policy"}

ASSUME AgentsAssumption ==
    /\ IsFiniteSet(Agents)
    /\ Remote \subseteq Agents
    /\ NoAgent \notin Agents
    /\ NoHandle \notin Handles
    /\ NoRequest \notin Requests

ASSUME BoundsAssumption ==
    /\ MaxPending \in Nat /\ MinReserve \in Nat
    /\ MaxAttempts \in Nat \ {0}
    /\ MaxGeneration \in Nat /\ MaxRestarts \in Nat /\ MaxPreparations \in Nat

ASSUME GroupAssumption ==
    /\ DOMAIN InitialRoles \subseteq Agents
    /\ \A d \in DOMAIN InitialRoles : InitialRoles[d] \in Roles
    /\ InitialWire \in {"v1", "v2"}
    /\ ValidPolicy(InitialPolicy)

ASSUME RequestsAssumption ==
    \A r \in Requests :
        /\ r.method \in Methods
        /\ r.sender \in Agents
        /\ r.method \in {"group.join", "group.add", "group.rebind_member"} =>
               r.handle \in Handles \cup {NoHandle}
        /\ r.method \in {"group.add", "group.remove"} => r.target \in Agents
        /\ r.method = "group.add" => r.role \in Roles
        /\ r.method = "group.rebind_member" => r.previous \in Agents /\ r.handle \in Handles

VARIABLES
    group,      \* hosted_groups row: state version, event seq, policy, protocol
    members,    \* hosted_group_members: DID -> row
    log,        \* hosted_group_events (and _messages): event seq -> event
    ops,        \* group_operations: key -> request and stored result
    outbox,     \* group_delivery_outbox: <<seq, target>> -> row
    sync,       \* sync_events of the local agents: the group events they list
    views,      \* group_views of the local agents
    inbox,      \* group_message_views of the local agents: message seqs
    answers,    \* what callers were told: request, seq, version
    thread,     \* joins, adds and rebinds between their two phases
    batch,      \* rows the outbox worker selected and has not settled
    wns,        \* external: the DID and generation each handle is bound to
    restarts,
    migration,  \* group_protocol_migrations row: state, plan, preparation id
    commands    \* migration commands between their two transactions

tables == <<group, members, log, ops, outbox, sync, views, inbox>>

migrationVars == <<migration, commands>>

vars == <<tables, answers, thread, batch, wns, restarts, migrationVars>>
-----------------------------------------------------------------------------
(* Rows and tables. *)

\* Mutant: INSERT OR IGNORE where the code upserts.
PutOrIgnore(table, key, row) ==
    [k \in DOMAIN table \cup {key} |-> IF k \in DOMAIN table THEN table[k] ELSE row]

\* INSERT of a row (or the update half of an upsert).
Put(table, key, row) ==
    [k \in DOMAIN table \cup {key} |-> IF k = key THEN row ELSE table[k]]

Active(mem) == {d \in DOMAIN mem : mem[d].status = "active"}

RemoteMembers(mem) == Active(mem) \cap Remote

LocalMembers(mem) == Active(mem) \cap Local

\* UNIQUE(group_did, member_handle); NULL handles do not collide.
HandlesUnique(mem) ==
    \A d, e \in DOMAIN mem : d # e /\ mem[d].handle = mem[e].handle => mem[d].handle = NoHandle

\* Mutant: the digest becomes part of the key.
OpKeyWithDigest(r) == <<r.sender, r.method, r.op, r>>

\* PRIMARY KEY of group_operations; the scope is the group.
OpKey(r) == <<r.sender, r.method, r.op>>

Replayed(r) == OpKey(r) \in DOMAIN ops

\* validate_v2_shape, for the fields the model keeps.
ValidShape(r) ==
    r.profile = "v2" =>
        /\ r.method # "group.rebind_member"
        /\ r.method \in {"group.join", "group.add"} => r.handle = NoHandle
        /\ r.method = "group.add" => r.role # "owner"

\* Mutant: a group that is being migrated still takes writes.
FenceOnProfile(r) == r.profile = group.wire

\* require_group_protocol with writing=True.
Fence(r) == r.profile = group.wire /\ group.protocol = "active"

\* _request_context, _group_row and _operation_replay let the request through.
Fresh(r) == ValidShape(r) /\ Fence(r) /\ ~Replayed(r)

\* _active_member and _require_permission.
May(d, permission) ==
    /\ d \in Active(members)
    /\ RoleLevel[members[d].role] >= RoleLevel[group.policy[permission]]
-----------------------------------------------------------------------------
(* Notifications for remote members. *)

Unsettled == {"pending", "retry"}

Backlog == {k \in DOMAIN outbox : outbox[k].status \in Unsettled}

Reserve ==
    LET share == IF MaxPending \div 100 < 100 THEN MaxPending \div 100 ELSE 100
    IN  IF share > MinReserve THEN share ELSE MinReserve

\* ensure_outbox_capacity
HasCapacity(mem, management) ==
    RemoteMembers(mem) # {} =>
        Cardinality(Backlog) + Cardinality(RemoteMembers(mem))
            <= MaxPending + (IF management THEN Reserve ELSE 0)

\* Mutant: the member whose membership ends is not told.
RecipientsWithoutDeparted(mem, type, subject) == RemoteMembers(mem)

\* The targets of enqueue_state_changed and enqueue_incoming_message.
Recipients(mem, type, subject) ==
    RemoteMembers(mem) \cup
        (IF group.wire = "v2" /\ type \in {"member-removed", "member-left"}
         THEN {subject} \cap DOMAIN mem \cap Remote
         ELSE {})

\* _enqueue: INSERT OR IGNORE of one row per target.
Enqueue(seq, targets) ==
    [k \in DOMAIN outbox \cup ({seq} \X targets) |->
        IF k \in DOMAIN outbox THEN outbox[k] ELSE [status |-> "pending", attempts |-> 0]]
-----------------------------------------------------------------------------
(* What every accepted operation writes. *)

\* _sync_active_members, and the departed local member of a v2 group.
SyncMembers(mem, type, subject, seq) ==
    LET told == LocalMembers(mem) \cup
                (IF group.wire = "v2" /\ type \in {"member-removed", "member-left"}
                 THEN {subject} \cap Local
                 ELSE {})
    IN  [d \in Local |-> IF d \in told THEN Append(sync[d], seq) ELSE sync[d]]

\* Mutant: the view of a former member stays active.
RefreshActiveViews(grp, mem) ==
    [d \in Local |->
        IF d \in Active(mem)
        THEN [status |-> "active", role |-> mem[d].role, version |-> grp.version,
              seq |-> grp.seq, wire |-> grp.wire]
        ELSE views[d]]

\* refresh_hosted_local_projections
RefreshViews(grp, mem) ==
    [d \in Local |->
        IF d \in Active(mem)
        THEN [status |-> "active", role |-> mem[d].role, version |-> grp.version,
              seq |-> grp.seq, wire |-> grp.wire]
        ELSE IF views[d].status = "none" THEN views[d]
        ELSE [views[d] EXCEPT !.status = "inactive"]]

\* project_hosted_message_for_local_members
ProjectMessage(mem, seq) ==
    [d \in Local |-> IF d \in Active(mem) THEN inbox[d] \cup {seq} ELSE inbox[d]]

NextVersion(type) ==
    IF type = "group-message-created" THEN group.version ELSE group.version + 1

\* The tail that all handlers share, in one transaction: advance the head,
\* write event and receipt, store the operation, project locally, enqueue.
Accept(r, mem, policy, type, subject, previous) ==
    LET seq     == group.seq + 1
        version == NextVersion(type)
        grp     == [group EXCEPT !.seq = seq, !.version = version, !.policy = policy]
    IN  /\ seq \notin DOMAIN log
        /\ group' = grp
        /\ members' = mem
        /\ log' = Put(log, seq, [type |-> type, version |-> version, subject |-> subject,
                                 previous |-> previous, req |-> r])
        /\ ops' = Put(ops, OpKey(r), [req |-> r, seq |-> seq, version |-> version])
        /\ sync' = SyncMembers(mem, type, subject, seq)
        /\ views' = RefreshViews(grp, mem)
        /\ inbox' = IF type = "group-message-created" THEN ProjectMessage(mem, seq) ELSE inbox
        /\ outbox' = Enqueue(seq, Recipients(mem, type, subject))
        /\ answers' = answers \cup {[req |-> r, seq |-> seq, version |-> version]}
-----------------------------------------------------------------------------
(* group.join and group.add *)

\* The admission rule, checked in both phases.
Admitted(r) ==
    IF r.method = "group.join"
    THEN group.policy.admission = "open-join"
    ELSE May(r.sender, "add")

\* _resolve_handle_binding, or the DID the request names.
Binding(r) ==
    IF r.handle # NoHandle
    THEN [handle |-> r.handle, did |-> wns[r.handle].did, gen |-> wns[r.handle].gen]
    ELSE [handle |-> NoHandle, gen |-> 0,
          did |-> IF r.method = "group.join" THEN r.sender ELSE r.target]

\* Phase 1 reads without a transaction; home discovery follows.
PrepareMembership(t, r) ==
    /\ thread[t] = NoRequest
    /\ r.method \in {"group.join", "group.add"}
    /\ Fresh(r)
    /\ Admitted(r)
    /\ r.method = "group.join" => Binding(r).did = r.sender
    /\ thread' = [thread EXCEPT ![t] = [req |-> r, binding |-> Binding(r)]]
    /\ UNCHANGED <<tables, answers, batch, wns, restarts, migrationVars>>

\* Mutant: the second phase trusts the admission check of the first.
StillAdmittedUnchecked(r, b) ==
    /\ Fresh(r)
    /\ b.did \notin Active(members)
    /\ Cardinality(Active(members)) < group.policy.max_members

\* Mutant: off by one in the limit.
StillAdmittedPastLimit(r, b) ==
    /\ Fresh(r)
    /\ Admitted(r)
    /\ b.did \notin Active(members)
    /\ Cardinality(Active(members)) <= group.policy.max_members

\* What the second phase reads again inside its transaction.
StillAdmitted(r, b) ==
    /\ Fresh(r)
    /\ Admitted(r)
    /\ b.did \notin Active(members)
    /\ Cardinality(Active(members)) < group.policy.max_members

\* Phase 2, under BEGIN IMMEDIATE.
CommitMembership(t) ==
    LET r   == thread[t].req
        b   == thread[t].binding
        mem == Put(members, b.did,
                   [status |-> "active", handle |-> b.handle, gen |-> b.gen,
                    role |-> IF r.method = "group.join" THEN "member" ELSE r.role])
    IN  /\ thread[t] # NoRequest
        /\ r.method \in {"group.join", "group.add"}
        /\ StillAdmitted(r, b)
        /\ HandlesUnique(mem)
        /\ HasCapacity(mem, TRUE)
        /\ Accept(r, mem, group.policy, "member-activated", b.did, NoAgent)
        /\ thread' = [thread EXCEPT ![t] = NoRequest]
        /\ UNCHANGED <<batch, wns, restarts, migrationVars>>
-----------------------------------------------------------------------------
(* group.rebind_member (v1): the handle's new DID takes over the membership. *)

\* The name service confirms the binding the request claims.
BoundAsClaimed(r) == Binding(r).did = r.sender /\ Binding(r).gen = r.gen

PrepareRebind(t, r) ==
    /\ thread[t] = NoRequest
    /\ r.method = "group.rebind_member"
    /\ ValidShape(r)
    /\ BoundAsClaimed(r)
    /\ thread' = [thread EXCEPT ![t] = [req |-> r, binding |-> Binding(r)]]
    /\ UNCHANGED <<tables, answers, batch, wns, restarts, migrationVars>>

\* What the second phase reads again.  The last conjunct stands for the check
\* that the new DID is not an active member and for the primary key, which
\* refuses the UPDATE when it has an ended row.
StillBound(r, b) ==
    /\ Fresh(r)
    /\ r.previous \in Active(members)
    /\ members[r.previous].handle = b.handle
    /\ b.gen > members[r.previous].gen
    /\ r.sender \notin DOMAIN members

\* The UPDATE that moves the row to the new DID.
TakeOver(previous, sender, gen) ==
    [d \in (DOMAIN members \ {previous}) \cup {sender} |->
        IF d = sender THEN [members[previous] EXCEPT !.gen = gen] ELSE members[d]]

CommitRebind(t) ==
    LET r   == thread[t].req
        b   == thread[t].binding
        mem == TakeOver(r.previous, r.sender, b.gen)
    IN  /\ thread[t] # NoRequest
        /\ r.method = "group.rebind_member"
        /\ StillBound(r, b)
        /\ HasCapacity(mem, TRUE)
        /\ Accept(r, mem, group.policy, "member-credential-rebound", r.sender, r.previous)
        /\ thread' = [thread EXCEPT ![t] = NoRequest]
        /\ UNCHANGED <<batch, wns, restarts, migrationVars>>

\* The second phase is refused, discovery failed, or the database stayed
\* locked: the caller gets an error (or, for a replay, the stored result,
\* which Replay hands out).
AbandonRequest(t) ==
    /\ thread[t] # NoRequest
    /\ thread' = [thread EXCEPT ![t] = NoRequest]
    /\ UNCHANGED <<tables, answers, batch, wns, restarts, migrationVars>>
-----------------------------------------------------------------------------
(* Handlers that are one transaction. *)

Departed(r) == IF r.method = "group.leave" THEN r.sender ELSE r.target

\* Mutant: the remaining members only.
CapacityRosterRemaining(mem) == mem

\* The roster against which _end_membership measures the outbox: in a v2
\* group the departing member is a recipient too.
CapacityRoster(mem) == IF group.wire = "v2" THEN members ELSE mem

\* group.leave and group.remove
EndMembership(r) ==
    LET d   == Departed(r)
        mem == [members EXCEPT ![d].status =
                   IF r.method = "group.leave" THEN "left" ELSE "removed"]
    IN  /\ r.method \in {"group.leave", "group.remove"}
        /\ Fresh(r)
        /\ r.method = "group.remove" => May(r.sender, "remove")
        /\ d \in Active(members)
        /\ HasCapacity(CapacityRoster(mem), TRUE)
        /\ Accept(r, mem, group.policy,
                  IF r.method = "group.leave" THEN "member-left" ELSE "member-removed",
                  d, NoAgent)
        /\ UNCHANGED <<thread, batch, wns, restarts, migrationVars>>

\* _merge_patch, for patches that set fields.
MergePatch(policy, patch) ==
    [k \in DOMAIN policy |-> IF k \in DOMAIN patch THEN patch[k] ELSE policy[k]]

\* group.update_profile and group.update_policy
UpdateGroup(r) ==
    LET policy == IF r.method = "group.update_policy" THEN MergePatch(group.policy, r.patch)
                  ELSE group.policy
    IN  /\ r.method \in {"group.update_profile", "group.update_policy"}
        /\ Fresh(r)
        /\ May(r.sender, IF r.method = "group.update_policy" THEN "update_policy"
                         ELSE "update_profile")
        /\ HasCapacity(members, TRUE)
        /\ ValidPolicy(policy)
        /\ Accept(r, members, policy,
                  IF r.method = "group.update_policy" THEN "group-policy-updated"
                  ELSE "group-profile-updated",
                  NoAgent, NoAgent)
        /\ UNCHANGED <<thread, batch, wns, restarts, migrationVars>>

IsMessage(e) == e.type = "group-message-created"

\* group.send
Send(r) ==
    /\ r.method = "group.send"
    /\ Fresh(r)
    /\ May(r.sender, "send")
    /\ HasCapacity(members, FALSE)
    /\ ~ \E s \in DOMAIN log : IsMessage(log[s]) /\ log[s].req.message = r.message
    /\ Accept(r, members, group.policy, "group-message-created", NoAgent, NoAgent)
    /\ UNCHANGED <<thread, batch, wns, restarts, migrationVars>>

\* Mutant: a stored operation answers every request with its key.
AnyDigest(r) == TRUE

SameDigest(r) == ops[OpKey(r)].req = r

\* _operation_replay found the key: the same request is answered with the
\* stored result, any other is a conflict.
Replay(r) ==
    /\ ValidShape(r)
    /\ r.method = "group.rebind_member" => BoundAsClaimed(r)
    /\ Fence(r)
    /\ Replayed(r)
    /\ SameDigest(r)
    /\ answers' = answers \cup
                      {[req |-> r, seq |-> ops[OpKey(r)].seq, version |-> ops[OpKey(r)].version]}
    /\ UNCHANGED <<tables, thread, batch, wns, restarts, migrationVars>>
-----------------------------------------------------------------------------
(* The outbox worker. *)

\* Mutant: a row that waits for its retry no longer holds back the stream.
EligiblePastRetry(k) ==
    /\ outbox[k].status \in Unsettled
    /\ \A j \in DOMAIN outbox : j[2] = k[2] /\ j[1] < k[1] => outbox[j].status # "pending"

\* No earlier row of the stream of this target is undelivered.
Eligible(k) ==
    /\ outbox[k].status \in Unsettled
    /\ \A j \in DOMAIN outbox : j[2] = k[2] /\ j[1] < k[1] => outbox[j].status = "delivered"

\* The SELECT of _drain_group_outbox_locked.  Which eligible rows are due,
\* and which the LIMIT keeps, is left open.
SelectBatch(rows) ==
    /\ batch = {}
    /\ rows # {}
    /\ \A k \in rows : Eligible(k)
    /\ batch' = rows
    /\ UNCHANGED <<tables, answers, thread, wns, restarts, migrationVars>>

\* _deliver returned.
MarkDelivered(k) ==
    /\ k \in batch
    /\ batch' = batch \ {k}
    /\ outbox' = IF outbox[k].status \in Unsettled
                 THEN [outbox EXCEPT ![k] = [status |-> "delivered", attempts |-> @.attempts + 1]]
                 ELSE outbox
    /\ UNCHANGED <<group, members, log, ops, sync, views, inbox, answers, thread, wns, restarts,
                   migrationVars>>

\* Mutant: one attempt too many.
AfterFailureLate(row, permanent) ==
    [status   |-> IF row.attempts + 1 > MaxAttempts \/ permanent THEN "dead" ELSE "retry",
     attempts |-> row.attempts + 1]

\* Mutant: the attempt is not counted.
AfterFailureUncounted(row, permanent) ==
    [status   |-> IF row.attempts >= MaxAttempts \/ permanent THEN "dead" ELSE "retry",
     attempts |-> row.attempts]

AfterFailure(row, permanent) ==
    [status   |-> IF row.attempts + 1 >= MaxAttempts \/ permanent THEN "dead" ELSE "retry",
     attempts |-> row.attempts + 1]

\* _deliver raised; NotSupported is permanent.
MarkFailed(k, permanent) ==
    /\ k \in batch
    /\ batch' = batch \ {k}
    /\ outbox' = IF outbox[k].status \in Unsettled
                 THEN [outbox EXCEPT ![k] = AfterFailure(@, permanent)]
                 ELSE outbox
    /\ UNCHANGED <<group, members, log, ops, sync, views, inbox, answers, thread, wns, restarts,
                   migrationVars>>
-----------------------------------------------------------------------------
(* scripts/migrate_group_protocol.py: the move of a v1 group to v2.  Each    *)
(* command is a process of its own.  The script asks for a stopped server;   *)
(* the model lets it run, as it does between prepare and apply.              *)

\* What the plan digest of _inspect covers: not the status of deliveries.
Plan == <<group.wire, group.policy, group.version, group.seq, members, DOMAIN outbox>>

\* prepare_group up to the backup: no more writes.
Prepare ==
    /\ group.wire = "v1"
    /\ ~(migration.state = "prepared" /\ migration.plan = Plan)
    /\ migration.preparation < MaxPreparations
    /\ group' = [group EXCEPT !.protocol = "quiescing"]
    /\ migration' = [state |-> "preparing", plan |-> Plan,
                     preparation |-> migration.preparation + 1]
    /\ commands' = commands \cup
           {[name |-> "prepare", plan |-> Plan, preparation |-> migration.preparation + 1]}
    /\ UNCHANGED <<members, log, ops, outbox, sync, views, inbox, answers, thread, batch, wns,
                   restarts>>

\* The backup is written.
FinishPrepare(c) ==
    /\ c.name = "prepare"
    /\ c.plan = Plan /\ group.protocol = "quiescing"
    /\ migration.state = "preparing" /\ migration.preparation = c.preparation
    /\ migration' = [migration EXCEPT !.state = "prepared"]
    /\ commands' = commands \ {c}
    /\ UNCHANGED <<tables, answers, thread, batch, wns, restarts>>

\* cancel_group
Cancel ==
    /\ migration.state \notin {"none", "applied"}
    /\ group' = IF group.wire = "v1" THEN [group EXCEPT !.protocol = "active"] ELSE group
    /\ migration' = [migration EXCEPT !.state = "cancelled"]
    /\ UNCHANGED <<members, log, ops, outbox, sync, views, inbox, answers, thread, batch, wns,
                   restarts, commands>>

\* apply_group up to the question whether the homes of the members speak v2.
BeginApply ==
    /\ migration.state = "prepared"
    /\ commands' = commands \cup
           {[name |-> "apply", plan |-> migration.plan, preparation |-> migration.preparation]}
    /\ UNCHANGED <<tables, answers, thread, batch, wns, restarts, migration>>

\* Mutant: what the worker gave up on does not count.
DrainedOrDead == Backlog = {}

Drained == \A k \in DOMAIN outbox : outbox[k].status = "delivered"

\* The rest of apply_group, in one transaction.
FinishApply(c) ==
    /\ c.name = "apply"
    /\ migration.state = "prepared" /\ migration.preparation = c.preparation
    /\ group.protocol = "quiescing" /\ c.plan = Plan
    /\ Drained
    /\ group' = [group EXCEPT !.wire = "v2", !.protocol = "active"]
    /\ views' = RefreshViews(group', members)
    /\ migration' = [migration EXCEPT !.state = "applied"]
    /\ commands' = commands \ {c}
    /\ UNCHANGED <<members, log, ops, outbox, sync, inbox, answers, thread, batch, wns, restarts>>

\* The backup fails, a home does not speak v2, or the command is interrupted.
AbandonCommand(c) ==
    /\ commands' = commands \ {c}
    /\ UNCHANGED <<tables, answers, thread, batch, wns, restarts, migration>>

Migrate ==
    \/ Prepare
    \/ Cancel
    \/ BeginApply
    \/ \E c \in commands : FinishPrepare(c) \/ FinishApply(c) \/ AbandonCommand(c)
-----------------------------------------------------------------------------
(* The environment. *)

\* The name service binds a handle to another DID.
RebindHandle(h, d) ==
    /\ wns[h].did # d
    /\ wns[h].gen < MaxGeneration
    /\ wns' = [wns EXCEPT ![h] = [did |-> d, gen |-> @.gen + 1]]
    /\ UNCHANGED <<tables, answers, thread, batch, restarts, migrationVars>>

\* The process stops between two steps and starts again: what is not in
\* SQLite is lost.
Restart ==
    /\ restarts < MaxRestarts
    /\ restarts' = restarts + 1
    /\ thread' = [t \in Threads |-> NoRequest]
    /\ batch' = {}
    /\ UNCHANGED <<tables, answers, wns, migrationVars>>

\* The group as hosted_group_create leaves it.
Init ==
    /\ group = [version |-> 1, seq |-> 1, policy |-> InitialPolicy,
                wire |-> InitialWire, protocol |-> "active"]
    /\ members = [d \in DOMAIN InitialRoles |->
                     [status |-> "active", role |-> InitialRoles[d], handle |-> NoHandle, gen |-> 0]]
    /\ log = [s \in {1} |-> [type |-> "group-created", version |-> 1, subject |-> NoAgent,
                             previous |-> NoAgent, req |-> NoRequest]]
    /\ ops = [k \in {} |-> NoRequest]
    /\ outbox = [k \in {} |-> NoRequest]
    /\ sync = [d \in Local |-> IF d \in DOMAIN InitialRoles THEN <<1>> ELSE <<>>]
    /\ views = [d \in Local |->
                  IF d \in DOMAIN InitialRoles
                  THEN [status |-> "active", role |-> InitialRoles[d], version |-> 1, seq |-> 1,
                        wire |-> InitialWire]
                  ELSE [status |-> "none", role |-> "member", version |-> 0, seq |-> 0,
                        wire |-> InitialWire]]
    /\ inbox = [d \in Local |-> {}]
    /\ answers = {}
    /\ thread = [t \in Threads |-> NoRequest]
    /\ batch = {}
    /\ wns \in [Handles -> [did : Agents, gen : {1}]]
    /\ restarts = 0
    /\ migration = [state |-> "none", plan |-> NoPlan, preparation |-> 0]
    /\ commands = {}

\* One step of a client's request.
Serve ==
    \E r \in Requests :
        \/ \E t \in Threads : PrepareMembership(t, r) \/ PrepareRebind(t, r)
        \/ EndMembership(r)
        \/ UpdateGroup(r)
        \/ Send(r)
        \/ Replay(r)

\* One step of a thread that holds a request.
Proceed ==
    \E t \in Threads : CommitMembership(t) \/ CommitRebind(t) \/ AbandonRequest(t)

Drain ==
    \/ \E rows \in SUBSET {k \in DOMAIN outbox : Eligible(k)} : SelectBatch(rows)
    \/ \E k \in batch :
        \/ MarkDelivered(k)
        \/ \E permanent \in BOOLEAN : MarkFailed(k, permanent)

Next ==
    \/ Serve
    \/ Proceed
    \/ Drain
    \/ \E h \in Handles, d \in Agents : RebindHandle(h, d)
    \/ Restart
    \/ Migrate

Spec == Init /\ [][Next]_vars
-----------------------------------------------------------------------------
(* Fairness: the worker runs every second, a selected row is settled (the   *)
(* HTTP call has a timeout), and backoff is bounded, so a stream whose head *)
(* can be sent is selected again and again.  Clients owe nothing.           *)

Settle == \E k \in batch : MarkDelivered(k) \/ \E p \in BOOLEAN : MarkFailed(k, p)

SelectStream(t) ==
    \E rows \in SUBSET {k \in DOMAIN outbox : Eligible(k)} :
        SelectBatch(rows) /\ \E k \in rows : k[2] = t

FairSpec == Spec /\ WF_vars(Settle) /\ \A t \in Remote : SF_vars(SelectStream(t))
-----------------------------------------------------------------------------
(* Properties. *)

EventTypes == {"group-created", "member-activated", "member-credential-rebound", "member-left",
               "member-removed", "group-policy-updated", "group-profile-updated",
               "group-message-created"}

EndTypes == {"member-left", "member-removed"}

MemberRows ==
    [status : {"active", "left", "removed"}, role : Roles, handle : Handles \cup {NoHandle},
     gen : Nat]

Events ==
    [type : EventTypes, version : Nat, subject : Agents \cup {NoAgent},
     previous : Agents \cup {NoAgent}, req : Requests \cup {NoRequest}]

Results == [req : Requests, seq : Nat, version : Nat]

OutboxRows ==
    [status : {"pending", "retry", "delivered", "dead"}, attempts : 0..MaxAttempts]

ViewRows ==
    [status : {"none", "active", "inactive"}, role : Roles, version : Nat, seq : Nat,
     wire : {"v1", "v2"}]

Bindings == [handle : Handles \cup {NoHandle}, did : Agents, gen : Nat]

\* The rows of every table are well formed, as schema and handlers write them;
\* in particular no row is tried more than MAX_DELIVERY_ATTEMPTS times.
TypeOK ==
    /\ DOMAIN group = {"version", "seq", "policy", "wire", "protocol"}
    /\ group.version \in Nat /\ group.seq \in Nat
    /\ group.wire \in {"v1", "v2"} /\ group.protocol \in {"active", "quiescing"}
    /\ ValidPolicy(group.policy)
    /\ DOMAIN members \subseteq Agents /\ members \in [DOMAIN members -> MemberRows]
    /\ DOMAIN log \subseteq Nat /\ log \in [DOMAIN log -> Events]
    /\ ops \in [DOMAIN ops -> Results]
    /\ DOMAIN outbox \subseteq Nat \X Remote /\ outbox \in [DOMAIN outbox -> OutboxRows]
    /\ sync \in [Local -> Seq(Nat)]
    /\ views \in [Local -> ViewRows]
    /\ inbox \in [Local -> SUBSET Nat]
    /\ answers \subseteq Results
    /\ thread \in [Threads -> [req : Requests, binding : Bindings] \cup {NoRequest}]
    /\ batch \subseteq DOMAIN outbox
    /\ wns \in [Handles -> [did : Agents, gen : Nat]]
    /\ restarts \in 0..MaxRestarts
    /\ DOMAIN migration = {"state", "plan", "preparation"}
    /\ migration.state \in {"none", "preparing", "prepared", "cancelled", "applied"}
    /\ migration.preparation \in 0..MaxPreparations

\* The event log is gapless up to the head of the group row; every event but a
\* message moves the state version by one and a message leaves it alone
\* (service.py computes both numbers from a row it read before writing).
LogIsGapless ==
    /\ DOMAIN log = 1..group.seq
    /\ \A s \in 2..group.seq :
        log[s].version = log[s - 1].version + (IF IsMessage(log[s]) THEN 0 ELSE 1)
    /\ group.seq > 0
    /\ log[group.seq].version = group.version

\* What the events of a log say about membership.
Activates(e, d) ==
    \/ e.type = "group-created" /\ d \in DOMAIN InitialRoles
    \/ e.type \in {"member-activated", "member-credential-rebound"} /\ e.subject = d

Deactivates(e, d) ==
    \/ e.type \in EndTypes /\ e.subject = d
    \/ e.type = "member-credential-rebound" /\ e.previous = d

\* d is a member after the first s events.
ActiveAfter(events, d, s) ==
    \E u \in 1..s :
        Activates(events[u], d) /\ \A v \in (u + 1)..s : ~Deactivates(events[v], d)

\* The member table, on which every permission check relies, is exactly what a
\* replay of the signed log yields (rejoin, removal and rebind included).
RosterFollowsLog == \A d \in Agents : d \in Active(members) <=> ActiveAfter(log, d, group.seq)

\* Nobody acts on the group after losing the membership that allowed it, though
\* join, add and rebind check it before a network call and commit after it: the
\* actor of an event was a member just before it, a join or add activates a
\* non-member, a rebind takes over a live membership.
AuthorityFollowsLog ==
    \A s \in DOMAIN log \ {1} :
        LET e == log[s] IN
        /\ e.req.method \notin {"group.join", "group.rebind_member"} =>
               ActiveAfter(log, e.req.sender, s - 1)
        /\ e.type = "member-activated" => ~ActiveAfter(log, e.subject, s - 1)
        /\ e.type = "member-credential-rebound" =>
               ActiveAfter(log, e.previous, s - 1) /\ ~ActiveAfter(log, e.subject, s - 1)

\* A retried or duplicated request, even one raced by its own copy in another
\* thread, is executed once: no two events carry the same sender, method and
\* operation id (PRIMARY KEY of group_operations).
OneEventPerOperation ==
    \A s, u \in DOMAIN log \ {1} :
        /\ log[s].req.sender = log[u].req.sender
        /\ log[s].req.method = log[u].req.method
        /\ log[s].req.op = log[u].req.op
        => s = u

\* Whatever a caller is told names an event that its own request caused: a
\* reused operation id never returns the receipt of another request.
AnswersAreReceipts ==
    \A a \in answers :
        a.seq \in DOMAIN log /\ log[a.seq].req = a.req /\ log[a.seq].version = a.version

\* Backpressure holds: rows still to be sent never exceed the configured limit
\* plus the management reserve, whatever mix of operations queued them.
OutboxBounded == Cardinality(Backlog) <= MaxPending + Reserve

\* Each target receives its notifications in event order: a row is tried only
\* when every earlier row for that target was delivered or given up, across
\* batches, retries and restarts.
StreamInOrder ==
    \A j, k \in DOMAIN outbox :
        /\ j[2] = k[2]
        /\ j[1] < k[1]
        /\ outbox[k].attempts > 0 \/ k \in batch
        => outbox[j].status \in {"delivered", "dead"}

\* The recipients of an event are the remote members at that event (in a v2
\* group also the one it ends), never those of a later roster.
AudienceFollowsLog ==
    \A s \in DOMAIN log \ {1} :
        {d \in Remote : <<s, d>> \in DOMAIN outbox} =
            {d \in Remote : \/ ActiveAfter(log, d, s)
                            \/ log[s].req.profile = "v2" /\ log[s].type \in EndTypes
                               /\ log[s].subject = d}

\* A local member's sync log lists every event of its memberships once, in
\* order (in a v2 group also the event that ends one), and its message views
\* are the messages of its memberships.
LocalHistoryFollowsLog ==
    \A d \in Local :
        /\ {sync[d][i] : i \in DOMAIN sync[d]} =
               {s \in DOMAIN log : \/ ActiveAfter(log, d, s)
                                   \/ s # 1 /\ log[s].req.profile = "v2"
                                      /\ log[s].type \in EndTypes /\ log[s].subject = d}
        /\ \A i, j \in DOMAIN sync[d] : i < j => sync[d][i] < sync[d][j]
        /\ inbox[d] = {s \in DOMAIN log : IsMessage(log[s]) /\ ActiveAfter(log, d, s)}

\* A local member's group view is at the head of the group; the view of one
\* who left is inactive and never advances again.
LocalViewsFresh ==
    \A d \in Local :
        /\ views[d].status = "active" <=> d \in Active(members)
        /\ d \in Active(members) =>
               /\ views[d].seq = group.seq /\ views[d].version = group.version
               /\ views[d].role = members[d].role /\ views[d].wire = group.wire
        /\ views[d].status = "inactive" =>
               ActiveAfter(log, d, views[d].seq) /\ ~ActiveAfter(log, d, views[d].seq + 1)

\* What local members are shown follows the log: their sync logs and message
\* views, and their views of the group.
LocalCopiesFollowLog == LocalHistoryFollowsLog /\ LocalViewsFresh

\* Concurrent joins and adds never fill the group past the limit in force when
\* they commit, though the limit is read again only in the second phase.
AdmissionWithinLimit ==
    [][Cardinality(Active(members')) > Cardinality(Active(members)) =>
          Cardinality(Active(members')) <= group.policy.max_members]_vars

Rows == (1 .. Cardinality(Requests) + 1) \X Remote

Settled(k) == k \in DOMAIN outbox /\ outbox[k].status \in {"delivered", "dead"}

\* A stream with a row that may be sent comes to an end, everything delivered or
\* its head given up after a bounded number of attempts, across failures and
\* restarts.
StreamsSettle ==
    \A d \in Remote :
        (\E k \in DOMAIN outbox : k[2] = d /\ Eligible(k))
            ~> ~ \E k \in DOMAIN outbox : k[2] = d /\ Eligible(k)

\* A row that is given up releases its stream: a row whose earlier rows were all
\* delivered or given up is itself delivered or given up in the end.  The design
\* says so; _drain_group_outbox_locked waits for delivered rows only.
DeadRowsRelease ==
    \A k \in Rows :
        (/\ k \in DOMAIN outbox
         /\ \A j \in DOMAIN outbox : j[2] = k[2] /\ j[1] < k[1] => Settled(j))
            ~> Settled(k)

\* From prepare until cancel or apply the group stays as the operator saw it:
\* no request that was in flight when the fence came up changes it.
PlanHolds ==
    migration.state \in {"preparing", "prepared"} =>
        group.protocol = "quiescing" /\ migration.plan = Plan

\* No notification of the v1 protocol is left behind by the move to v2.
CutoverDrained ==
    group.wire = "v2" =>
        \A k \in DOMAIN outbox :
            log[k[1]].req.profile = "v1" => outbox[k].status = "delivered"
=============================================================================
