-------------------------- MODULE GroupHost_proofs --------------------------
(* Proofs about the Group Host, for every roster, workload, number of threads *)
(* and setting of the bounds.                                                *)
EXTENDS GroupHost, FiniteSetTheorems, WellFoundedInduction, TLAPS

USE AgentsAssumption, BoundsAssumption, GroupAssumption

\* A row still to be sent has an attempt left; TypeOK needs it to bound the
\* attempts when MarkFailed adds one.
AttemptsLeft ==
    \A k \in DOMAIN outbox : outbox[k].status \in Unsettled => outbox[k].attempts < MaxAttempts

TypeInv == TypeOK /\ AttemptsLeft

\* refresh_hosted_local_projections writes well-formed rows.
LEMMA ViewsTyped ==
    ASSUME views \in [Local -> ViewRows],
           NEW mem, mem \in [DOMAIN mem -> MemberRows],
           NEW grp, grp.version \in Nat, grp.seq \in Nat, grp.wire \in {"v1", "v2"}
    PROVE  RefreshViews(grp, mem) \in [Local -> ViewRows]
<1>1. ASSUME NEW d \in Local
      PROVE  RefreshViews(grp, mem)[d] \in ViewRows
  <2>1. CASE d \in Active(mem)
    <3>1. mem[d].role \in Roles
      BY <2>1 DEF Active, MemberRows
    <3>2. QED
      BY <2>1, <3>1 DEF RefreshViews, ViewRows
  <2>2. CASE d \notin Active(mem)
    BY <2>2 DEF RefreshViews, ViewRows
  <2>3. QED
    BY <2>1, <2>2
<1>2. RefreshViews(grp, mem) = [d \in Local |-> RefreshViews(grp, mem)[d]]
  BY DEF RefreshViews
<1>3. QED
  BY <1>1, <1>2

\* The row of a migration is well formed.
MigrationTyped ==
    /\ DOMAIN migration = {"state", "plan", "preparation"}
    /\ migration.state \in {"none", "preparing", "prepared", "cancelled", "applied"}
    /\ migration.preparation \in 0..MaxPreparations

\* The tail all handlers share keeps the tables well formed.
LEMMA AcceptKeepsTypes ==
    ASSUME TypeInv,
           NEW r \in Requests,
           NEW mem, DOMAIN mem \subseteq Agents, mem \in [DOMAIN mem -> MemberRows],
           NEW policy, ValidPolicy(policy),
           NEW type \in EventTypes,
           NEW subject \in Agents \cup {NoAgent},
           NEW previous \in Agents \cup {NoAgent},
           Accept(r, mem, policy, type, subject, previous),
           thread' \in [Threads -> [req : Requests, binding : Bindings] \cup {NoRequest}],
           UNCHANGED <<batch, wns, restarts, migrationVars>>
    PROVE  TypeInv'
<1> DEFINE seq == group.seq + 1
           version == NextVersion(type)
<1>1. seq \in Nat /\ version \in Nat
  BY DEF TypeInv, TypeOK, NextVersion
<1>2. /\ DOMAIN group' = {"version", "seq", "policy", "wire", "protocol"}
      /\ group'.seq = seq /\ group'.version = version /\ group'.policy = policy
      /\ group'.wire = group.wire /\ group'.protocol = group.protocol
  BY DEF TypeInv, TypeOK, Accept
<1>3. DOMAIN members' \subseteq Agents /\ members' \in [DOMAIN members' -> MemberRows]
  BY DEF Accept
<1>4. DOMAIN log' \subseteq Nat /\ log' \in [DOMAIN log' -> Events]
  BY <1>1 DEF Accept, TypeInv, TypeOK, Put, Events
<1>5. ops' \in [DOMAIN ops' -> Results]
  BY <1>1 DEF Accept, TypeInv, TypeOK, Put, Results
<1>6. /\ DOMAIN outbox' \subseteq Nat \X Remote /\ outbox' \in [DOMAIN outbox' -> OutboxRows]
      /\ DOMAIN outbox \subseteq DOMAIN outbox'
      /\ AttemptsLeft'
  <2> DEFINE targets == Recipients(mem, type, subject)
  <2>1. targets \subseteq Remote
    BY DEF Recipients, RemoteMembers
  <2>2. outbox' = Enqueue(seq, targets)
    BY DEF Accept
  <2> HIDE DEF targets, seq
  <2>3. QED
    BY <1>1, <2>1, <2>2 DEF TypeInv, TypeOK, Enqueue, AttemptsLeft, OutboxRows, Unsettled
<1>7. sync' \in [Local -> Seq(Nat)]
  <2>1. \A d \in Local : Append(sync[d], seq) \in Seq(Nat)
    BY <1>1 DEF TypeInv, TypeOK
  <2>2. QED
    BY <2>1 DEF Accept, TypeInv, TypeOK, SyncMembers
<1>8. views' \in [Local -> ViewRows]
  <2>1. views' = RefreshViews(group', mem)
    BY DEF Accept
  <2>2. group'.version \in Nat /\ group'.seq \in Nat /\ group'.wire \in {"v1", "v2"}
    BY <1>1, <1>2 DEF TypeInv, TypeOK
  <2>3. views \in [Local -> ViewRows]
    BY DEF TypeInv, TypeOK
  <2>4. QED
    BY <2>1, <2>2, <2>3, ViewsTyped
<1>9. inbox' \in [Local -> SUBSET Nat]
  BY <1>1 DEF Accept, TypeInv, TypeOK, ProjectMessage
<1>10. answers' \subseteq Results
  BY <1>1 DEF Accept, TypeInv, TypeOK, Results
<1>11. MigrationTyped'
  BY DEF TypeInv, TypeOK, MigrationTyped, migrationVars
<1>12. QED
  BY <1>1, <1>2, <1>3, <1>4, <1>5, <1>6, <1>7, <1>8, <1>9, <1>10, <1>11
     DEF TypeInv, TypeOK, MigrationTyped

\* Initial states are well formed.
LEMMA InitTypes == Init => TypeInv
<1> SUFFICES ASSUME Init PROVE TypeInv
  OBVIOUS
<1>1. /\ DOMAIN group = {"version", "seq", "policy", "wire", "protocol"}
      /\ group.version \in Nat /\ group.seq \in Nat
      /\ group.wire \in {"v1", "v2"} /\ group.protocol \in {"active", "quiescing"}
      /\ ValidPolicy(group.policy)
  BY DEF Init
<1>2. DOMAIN members \subseteq Agents /\ members \in [DOMAIN members -> MemberRows]
  BY DEF Init, MemberRows
<1>3. DOMAIN log \subseteq Nat /\ log \in [DOMAIN log -> Events]
  BY DEF Init, Events, EventTypes
<1>4. /\ ops \in [DOMAIN ops -> Results]
      /\ DOMAIN outbox \subseteq Nat \X Remote /\ outbox \in [DOMAIN outbox -> OutboxRows]
      /\ AttemptsLeft
  BY DEF Init, AttemptsLeft
<1>5. sync \in [Local -> Seq(Nat)]
  BY DEF Init
<1>6. views \in [Local -> ViewRows]
  <2>1. \A d \in Local : views[d] \in ViewRows
    BY DEF Init, ViewRows, Roles
  <2>2. QED
    BY <2>1 DEF Init
<1>7. /\ inbox \in [Local -> SUBSET Nat] /\ answers \subseteq Results
      /\ thread \in [Threads -> [req : Requests, binding : Bindings] \cup {NoRequest}]
      /\ batch \subseteq DOMAIN outbox
      /\ wns \in [Handles -> [did : Agents, gen : Nat]]
      /\ restarts \in 0..MaxRestarts
      /\ MigrationTyped
  BY DEF Init, MigrationTyped
<1>8. QED
  BY <1>1, <1>2, <1>3, <1>4, <1>5, <1>6, <1>7 DEF TypeInv, TypeOK, MigrationTyped
-----------------------------------------------------------------------------
(* Every handler that changes the group does it through Accept.  What the    *)
(* proofs below need to know about such a step:                              *)

\* How the roster changes with each type of event.
RosterChange(mem, type, subject, previous) ==
    /\ type = "member-activated" =>
           /\ subject \in Agents \ Active(members)
           /\ Active(mem) = Active(members) \cup {subject}
           /\ Cardinality(Active(members)) < group.policy.max_members
    /\ type = "member-credential-rebound" =>
           /\ previous \in Active(members)
           /\ subject \in Agents \ Active(members)
           /\ Active(mem) = (Active(members) \ {previous}) \cup {subject}
    /\ type \in EndTypes =>
           /\ subject \in Active(members)
           /\ subject \in DOMAIN mem
           /\ Active(mem) = Active(members) \ {subject}
    /\ type \in {"group-policy-updated", "group-profile-updated", "group-message-created"} =>
           mem = members /\ subject = NoAgent

RoleOf(r) == IF r.method = "group.add" THEN r.role ELSE "member"

\* The event, and the roles it leaves, are those of the request.
EventOf(r, mem, type, subject) ==
    /\ type = "member-credential-rebound" <=> r.method = "group.rebind_member"
    /\ type \in EndTypes <=> r.method \in {"group.leave", "group.remove"}
    /\ type \in EndTypes => subject = Departed(r)
    /\ type = "member-activated" => mem[subject].role = RoleOf(r)
    /\ type # "member-credential-rebound" =>
           \A d \in Active(mem) :
               (type = "member-activated" /\ d = subject) \/ mem[d].role = members[d].role

\* Those who are told have been counted by ensure_outbox_capacity.
Affordable(targets) ==
    \E roster :
        /\ DOMAIN roster \subseteq Agents
        /\ targets \subseteq RemoteMembers(roster)
        /\ HasCapacity(roster, TRUE) \/ HasCapacity(roster, FALSE)

ThreadTypes == [req : Requests, binding : Bindings] \cup {NoRequest}

AcceptStep(r, mem, policy, type, subject, previous) ==
    /\ Fresh(r)
    /\ r.method \notin {"group.join", "group.rebind_member"} => r.sender \in Active(members)
    /\ DOMAIN mem \subseteq Agents /\ mem \in [DOMAIN mem -> MemberRows]
    /\ ValidPolicy(policy)
    /\ RosterChange(mem, type, subject, previous)
    /\ Affordable(Recipients(mem, type, subject))
    /\ EventOf(r, mem, type, subject)
    /\ Accept(r, mem, policy, type, subject, previous)
    /\ thread' \in [Threads -> ThreadTypes]
    /\ UNCHANGED <<batch, wns, restarts, migrationVars>>

\* A step that runs some handler's transaction to its end.
Commit ==
    \E r \in Requests, type \in EventTypes \ {"group-created"},
       subject, previous \in Agents \cup {NoAgent} :
        \E mem, policy : AcceptStep(r, mem, policy, type, subject, previous)

\* group.join and group.add
LEMMA CommitMembershipCommits ==
    ASSUME TypeInv, NEW t \in Threads, CommitMembership(t)
    PROVE  Commit
<1> USE RequestsAssumption
<1> DEFINE r   == thread[t].req
           b   == thread[t].binding
           row == [status |-> "active", handle |-> b.handle, gen |-> b.gen,
                   role |-> IF r.method = "group.join" THEN "member" ELSE r.role]
           mem == Put(members, b.did, row)
<1>1. /\ thread[t] # NoRequest
      /\ r.method \in {"group.join", "group.add"}
      /\ StillAdmitted(r, b)
      /\ HasCapacity(mem, TRUE)
      /\ Accept(r, mem, group.policy, "member-activated", b.did, NoAgent)
      /\ thread' = [thread EXCEPT ![t] = NoRequest]
      /\ UNCHANGED <<batch, wns, restarts, migrationVars>>
  BY DEF CommitMembership
<1>2. thread[t] \in [req : Requests, binding : Bindings]
  BY <1>1 DEF TypeInv, TypeOK
<1>3. r \in Requests /\ b.did \in Agents /\ b.handle \in Handles \cup {NoHandle} /\ b.gen \in Nat
  BY <1>2 DEF Bindings
<1>4. row \in MemberRows
  BY <1>1, <1>3 DEF MemberRows, Roles
<1> HIDE DEF row, r, b
<1>5. /\ DOMAIN mem = DOMAIN members \cup {b.did}
      /\ mem \in [DOMAIN mem -> MemberRows]
      /\ mem[b.did] = row
      /\ \A d \in DOMAIN members \ {b.did} : mem[d] = members[d]
  BY <1>4 DEF TypeInv, TypeOK, Put
<1>6. row.status = "active"
  BY DEF row
<1>7. Active(mem) = Active(members) \cup {b.did}
  BY <1>5, <1>6 DEF Active
<1>8. /\ Fresh(r) /\ b.did \notin Active(members)
      /\ r.method = "group.add" => r.sender \in Active(members)
      /\ Cardinality(Active(members)) < group.policy.max_members
  BY <1>1 DEF StillAdmitted, Admitted, May
<1> HIDE DEF mem
<1>9. RosterChange(mem, "member-activated", b.did, NoAgent)
  BY <1>3, <1>7, <1>8 DEF RosterChange, EndTypes
<1>10. AcceptStep(r, mem, group.policy, "member-activated", b.did, NoAgent)
  <2>1. ValidPolicy(group.policy) /\ DOMAIN members \subseteq Agents
    BY DEF TypeInv, TypeOK
  <2>2. thread' \in [Threads -> ThreadTypes]
    BY <1>1 DEF TypeInv, TypeOK, ThreadTypes
  <2>3. Affordable(Recipients(mem, "member-activated", b.did))
    BY <1>1, <1>3, <1>5, <2>1 DEF Affordable, Recipients
  <2>4. row.role = RoleOf(r)
    BY <1>1 DEF row, RoleOf
  <2>5. EventOf(r, mem, "member-activated", b.did)
    BY <1>1, <1>5, <1>7, <2>4 DEF EventOf, EndTypes, Active
  <2>6. QED
    BY <1>1, <1>3, <1>5, <1>8, <1>9, <2>1, <2>2, <2>3, <2>5 DEF AcceptStep
<1>11. QED
  BY <1>3, <1>10 DEF Commit, EventTypes

\* group.rebind_member
LEMMA CommitRebindCommits ==
    ASSUME TypeInv, NEW t \in Threads, CommitRebind(t)
    PROVE  Commit
<1> USE RequestsAssumption
<1> DEFINE r   == thread[t].req
           b   == thread[t].binding
           row == [members[r.previous] EXCEPT !.gen = b.gen]
           mem == TakeOver(r.previous, r.sender, b.gen)
<1>1. /\ thread[t] # NoRequest
      /\ r.method = "group.rebind_member"
      /\ StillBound(r, b)
      /\ HasCapacity(mem, TRUE)
      /\ Accept(r, mem, group.policy, "member-credential-rebound", r.sender, r.previous)
      /\ thread' = [thread EXCEPT ![t] = NoRequest]
      /\ UNCHANGED <<batch, wns, restarts, migrationVars>>
  BY DEF CommitRebind
<1>2. thread[t] \in [req : Requests, binding : Bindings]
  BY <1>1 DEF TypeInv, TypeOK
<1>3. r \in Requests /\ r.sender \in Agents /\ r.previous \in Agents /\ b.gen \in Nat
  BY <1>1, <1>2 DEF Bindings
<1> HIDE DEF r, b
<1>4. /\ Fresh(r)
      /\ r.previous \in Active(members) /\ r.previous \in DOMAIN members
      /\ r.sender \notin DOMAIN members /\ r.sender \notin Active(members)
  BY <1>1 DEF StillBound, Active
<1>5. row \in MemberRows /\ row.status = "active"
  <2>1. members[r.previous] \in MemberRows /\ members[r.previous].status = "active"
    BY <1>4 DEF TypeInv, TypeOK, Active
  <2>2. QED
    BY <1>3, <2>1 DEF MemberRows
<1>6. mem = [d \in (DOMAIN members \ {r.previous}) \cup {r.sender} |->
                IF d = r.sender THEN row ELSE members[d]]
  BY DEF TakeOver
<1> HIDE DEF row, mem
<1>7. /\ DOMAIN mem = (DOMAIN members \ {r.previous}) \cup {r.sender}
      /\ mem \in [DOMAIN mem -> MemberRows]
      /\ mem[r.sender] = row
      /\ \A d \in DOMAIN members \ {r.previous} : mem[d] = members[d]
  BY <1>4, <1>5, <1>6 DEF TypeInv, TypeOK
<1>8. Active(mem) = (Active(members) \ {r.previous}) \cup {r.sender}
  BY <1>5, <1>7 DEF Active
<1>9. RosterChange(mem, "member-credential-rebound", r.sender, r.previous)
  BY <1>3, <1>4, <1>8 DEF RosterChange, EndTypes
<1>10. AcceptStep(r, mem, group.policy, "member-credential-rebound", r.sender, r.previous)
  <2>1. ValidPolicy(group.policy) /\ DOMAIN members \subseteq Agents
    BY DEF TypeInv, TypeOK
  <2>2. thread' \in [Threads -> ThreadTypes]
    BY <1>1 DEF TypeInv, TypeOK, ThreadTypes
  <2>3. Affordable(Recipients(mem, "member-credential-rebound", r.sender))
    BY <1>1, <1>3, <1>7, <2>1 DEF Affordable, Recipients
  <2>4. EventOf(r, mem, "member-credential-rebound", r.sender)
    BY <1>1 DEF EventOf, EndTypes
  <2>5. QED
    BY <1>1, <1>3, <1>4, <1>7, <1>9, <2>1, <2>2, <2>3, <2>4 DEF AcceptStep
<1>11. QED
  BY <1>3, <1>10 DEF Commit, EventTypes

\* group.leave and group.remove
LEMMA EndMembershipCommits ==
    ASSUME TypeInv, NEW r \in Requests, EndMembership(r)
    PROVE  Commit
<1> DEFINE d    == Departed(r)
           st   == IF r.method = "group.leave" THEN "left" ELSE "removed"
           type == IF r.method = "group.leave" THEN "member-left" ELSE "member-removed"
           mem  == [members EXCEPT ![d].status = st]
<1>1. /\ r.method \in {"group.leave", "group.remove"}
      /\ Fresh(r)
      /\ r.method = "group.remove" => May(r.sender, "remove")
      /\ d \in Active(members)
      /\ HasCapacity(CapacityRoster(mem), TRUE)
      /\ Accept(r, mem, group.policy, type, d, NoAgent)
      /\ UNCHANGED <<thread, batch, wns, restarts, migrationVars>>
  BY DEF EndMembership
<1>2. r.sender \in Active(members)
  BY <1>1 DEF May, Departed
<1>3. st \in {"left", "removed"} /\ type \in EndTypes
  BY DEF EndTypes
<1> HIDE DEF d, st, type
<1>4. /\ DOMAIN mem = DOMAIN members /\ d \in DOMAIN members /\ d \in Agents
      /\ mem[d].status = st
      /\ \A e \in DOMAIN members \ {d} : mem[e] = members[e]
      /\ mem[d] \in MemberRows
  <2> DEFINE row == [members[d] EXCEPT !.status = st]
  <2>1. d \in DOMAIN members /\ d \in Agents /\ members[d] \in MemberRows
    BY <1>1 DEF TypeInv, TypeOK, Active
  <2>2. row \in MemberRows /\ row.status = st
    BY <1>3, <2>1 DEF MemberRows
  <2>3. mem = [members EXCEPT ![d] = row]
    OBVIOUS
  <2> HIDE DEF row, mem
  <2>4. mem[d] = row
    BY <2>1, <2>3 DEF TypeInv, TypeOK
  <2>5. QED
    BY <2>1, <2>2, <2>3, <2>4 DEF TypeInv, TypeOK
<1>5. mem \in [DOMAIN mem -> MemberRows]
  BY <1>4 DEF TypeInv, TypeOK
<1> HIDE DEF mem
<1>6. Active(mem) = Active(members) \ {d}
  BY <1>1, <1>3, <1>4 DEF Active
<1>7. RosterChange(mem, type, d, NoAgent)
  BY <1>1, <1>3, <1>4, <1>6 DEF RosterChange, EndTypes
<1>8. AcceptStep(r, mem, group.policy, type, d, NoAgent)
  <2>1. ValidPolicy(group.policy) /\ DOMAIN members \subseteq Agents
    BY DEF TypeInv, TypeOK
  <2>2. thread' \in [Threads -> ThreadTypes]
    BY <1>1 DEF TypeInv, TypeOK, ThreadTypes
  <2>3. Affordable(Recipients(mem, type, d))
    <3>1. CASE group.wire = "v2"
      <4>1. Recipients(mem, type, d) \subseteq RemoteMembers(members)
        BY <1>1, <1>6 DEF Recipients, RemoteMembers
      <4>2. HasCapacity(members, TRUE)
        BY <1>1, <3>1 DEF CapacityRoster
      <4>3. QED
        BY <2>1, <4>1, <4>2 DEF Affordable
    <3>2. CASE group.wire # "v2"
      <4>1. Recipients(mem, type, d) = RemoteMembers(mem)
        BY <3>2 DEF Recipients
      <4>2. HasCapacity(mem, TRUE)
        BY <1>1, <3>2 DEF CapacityRoster
      <4>3. QED
        BY <1>4, <2>1, <4>1, <4>2 DEF Affordable
    <3>3. QED
      BY <3>1, <3>2
  <2>4. EventOf(r, mem, type, d)
    <3>1. \A e \in Active(mem) : mem[e].role = members[e].role
      BY <1>4, <1>6 DEF Active
    <3>2. QED
      BY <1>1, <1>3, <3>1 DEF EventOf, EndTypes, d
  <2>5. QED
    BY <1>1, <1>2, <1>4, <1>5, <1>7, <2>1, <2>2, <2>3, <2>4 DEF AcceptStep
<1>9. QED
  BY <1>3, <1>4, <1>8 DEF Commit, EventTypes, EndTypes

\* group.update_profile and group.update_policy
LEMMA UpdateGroupCommits ==
    ASSUME TypeInv, NEW r \in Requests, UpdateGroup(r)
    PROVE  Commit
<1> DEFINE policy == IF r.method = "group.update_policy" THEN MergePatch(group.policy, r.patch)
                     ELSE group.policy
           type   == IF r.method = "group.update_policy" THEN "group-policy-updated"
                     ELSE "group-profile-updated"
<1>1. /\ Fresh(r) /\ r.sender \in Active(members)
      /\ r.method \in {"group.update_profile", "group.update_policy"}
      /\ ValidPolicy(policy)
      /\ HasCapacity(members, TRUE)
      /\ Accept(r, members, policy, type, NoAgent, NoAgent)
      /\ UNCHANGED <<thread, batch, wns, restarts, migrationVars>>
  BY DEF UpdateGroup, May
<1>2. type \in {"group-policy-updated", "group-profile-updated"}
  OBVIOUS
<1> HIDE DEF policy, type
<1>3. RosterChange(members, type, NoAgent, NoAgent)
  BY <1>2 DEF RosterChange, EndTypes
<1>4. AcceptStep(r, members, policy, type, NoAgent, NoAgent)
  <2>1. Affordable(Recipients(members, type, NoAgent))
    BY <1>1, <1>2 DEF Affordable, Recipients, TypeInv, TypeOK
  <2>2. EventOf(r, members, type, NoAgent)
    BY <1>1, <1>2 DEF EventOf, EndTypes
  <2>3. QED
    BY <1>1, <1>3, <2>1, <2>2 DEF AcceptStep, TypeInv, TypeOK, ThreadTypes
<1>5. QED
  BY <1>2, <1>4 DEF Commit, EventTypes

\* group.send
LEMMA SendCommits ==
    ASSUME TypeInv, NEW r \in Requests, Send(r)
    PROVE  Commit
<1>1. /\ Fresh(r) /\ r.sender \in Active(members)
      /\ r.method = "group.send"
      /\ HasCapacity(members, FALSE)
      /\ Accept(r, members, group.policy, "group-message-created", NoAgent, NoAgent)
      /\ UNCHANGED <<thread, batch, wns, restarts, migrationVars>>
  BY DEF Send, May
<1>2. RosterChange(members, "group-message-created", NoAgent, NoAgent)
  BY DEF RosterChange, EndTypes
<1>3. AcceptStep(r, members, group.policy, "group-message-created", NoAgent, NoAgent)
  <2>1. Affordable(Recipients(members, "group-message-created", NoAgent))
    BY <1>1 DEF Affordable, Recipients, TypeInv, TypeOK
  <2>2. EventOf(r, members, "group-message-created", NoAgent)
    BY <1>1 DEF EventOf, EndTypes
  <2>3. QED
    BY <1>1, <1>2, <2>1, <2>2 DEF AcceptStep, TypeInv, TypeOK, ThreadTypes
<1>4. QED
  BY <1>3 DEF Commit, EventTypes
-----------------------------------------------------------------------------
(* The other steps leave the tables alone, or settle one outbox row.        *)

\* A step of a thread, the worker or the environment between transactions,
\* and the answer to a repeated request.
Quiet ==
    /\ UNCHANGED tables
    /\ \A k \in batch' \ batch : k \in DOMAIN outbox /\ Eligible(k)
    /\ \/ UNCHANGED answers
       \/ \E r \in Requests :
              /\ Replayed(r) /\ SameDigest(r)
              /\ answers' = answers \cup {[req |-> r, seq |-> ops[OpKey(r)].seq,
                                           version |-> ops[OpKey(r)].version]}
    /\ thread' \in [Threads -> ThreadTypes]
    /\ wns' \in [Handles -> [did : Agents, gen : Nat]]
    /\ restarts' \in 0..MaxRestarts
    /\ UNCHANGED migrationVars

\* One row of the batch is delivered, retried later or given up.
SettleRow ==
    /\ UNCHANGED <<group, members, log, ops, sync, views, inbox, answers, thread, wns, restarts,
                   migrationVars>>
    /\ \E k \in batch :
          /\ batch' = batch \ {k}
          /\ \/ UNCHANGED outbox
             \/ /\ outbox[k].status \in Unsettled
                /\ \E row \in OutboxRows :
                      /\ row.status # "pending" /\ row.attempts = outbox[k].attempts + 1
                      /\ row.status \in Unsettled => row.attempts < MaxAttempts
                      /\ outbox' = [outbox EXCEPT ![k] = row]

\* A migration command changes the protocol of the group and nothing else of it.
MoveProtocol ==
    /\ Migrate
    /\ UNCHANGED <<members, log, ops, outbox, sync, inbox, answers, thread, batch, wns, restarts>>
    /\ DOMAIN group' = DOMAIN group
    /\ group'.seq = group.seq /\ group'.version = group.version /\ group'.policy = group.policy
    /\ group'.wire \in {"v1", "v2"} /\ group'.protocol \in {"active", "quiescing"}
    /\ \/ views' = views /\ group'.wire = group.wire
       \/ views' = RefreshViews(group', members)
    /\ MigrationTyped'

LEMMA MigrateMoves ==
    ASSUME TypeInv, Migrate
    PROVE  MoveProtocol
<1> USE DEF TypeInv, TypeOK, MigrationTyped
<1>1. CASE Prepare
  BY <1>1 DEF Prepare, MoveProtocol
<1>2. CASE Cancel
  BY <1>2 DEF Cancel, MoveProtocol
<1>3. CASE BeginApply
  BY <1>3 DEF BeginApply, MoveProtocol, tables
<1>4. ASSUME NEW c \in commands, FinishPrepare(c)
      PROVE  MoveProtocol
  BY <1>4 DEF FinishPrepare, MoveProtocol, tables
<1>5. ASSUME NEW c \in commands, FinishApply(c)
      PROVE  MoveProtocol
  BY <1>5 DEF FinishApply, MoveProtocol
<1>6. ASSUME NEW c \in commands, AbandonCommand(c)
      PROVE  MoveProtocol
  BY <1>6 DEF AbandonCommand, MoveProtocol, tables
<1>7. QED
  BY <1>1, <1>2, <1>3, <1>4, <1>5, <1>6 DEF Migrate

\* Every step of the specification is one of the four.
LEMMA StepKinds == TypeInv /\ [Next]_vars => Commit \/ Quiet \/ SettleRow \/ MoveProtocol
<1> SUFFICES ASSUME TypeInv, [Next]_vars PROVE Commit \/ Quiet \/ SettleRow \/ MoveProtocol
  OBVIOUS
<1> USE DEF ThreadTypes
<1>1. ASSUME NEW t \in Threads, NEW r \in Requests,
             PrepareMembership(t, r) \/ PrepareRebind(t, r)
      PROVE  Quiet
  <2>1. r.sender \in Agents
    BY RequestsAssumption
  <2>2. Binding(r) \in Bindings
    <3>1. CASE r.handle = NoHandle
      <4>1. r.method \in {"group.join", "group.add"}
        BY <1>1, <3>1, RequestsAssumption DEF PrepareMembership, PrepareRebind
      <4>2. r.method = "group.add" => r.target \in Agents
        BY RequestsAssumption
      <4>3. QED
        BY <2>1, <3>1, <4>1, <4>2 DEF Binding, Bindings
    <3>2. CASE r.handle # NoHandle
      <4>1. r.handle \in Handles
        BY <1>1, <3>2, RequestsAssumption DEF PrepareMembership, PrepareRebind
      <4>2. wns[r.handle] \in [did : Agents, gen : Nat]
        BY <4>1 DEF TypeInv, TypeOK
      <4>3. QED
        BY <3>2, <4>1, <4>2 DEF Binding, Bindings
    <3>3. QED
      BY <3>1, <3>2
  <2>3. /\ thread' = [thread EXCEPT ![t] = [req |-> r, binding |-> Binding(r)]]
        /\ UNCHANGED <<tables, answers, batch, wns, restarts, migrationVars>>
    BY <1>1 DEF PrepareMembership, PrepareRebind
  <2>4. QED
    <3>1. thread' \in [Threads -> ThreadTypes]
      BY <2>2, <2>3 DEF TypeInv, TypeOK
    <3>2. QED
      BY <2>3, <3>1 DEF Quiet, TypeInv, TypeOK, tables
<1>2. ASSUME NEW t \in Threads, AbandonRequest(t)
      PROVE  Quiet
  <2>1. thread' \in [Threads -> ThreadTypes]
    BY <1>2 DEF AbandonRequest, TypeInv, TypeOK
  <2>2. QED
    BY <1>2, <2>1 DEF AbandonRequest, Quiet, TypeInv, TypeOK, tables
<1>3. ASSUME NEW r \in Requests, Replay(r)
      PROVE  Quiet
  BY <1>3 DEF Replay, Quiet, TypeInv, TypeOK, tables
<1>4. ASSUME NEW rows \in SUBSET {k \in DOMAIN outbox : Eligible(k)}, SelectBatch(rows)
      PROVE  Quiet
  BY <1>4 DEF SelectBatch, Quiet, TypeInv, TypeOK
<1>5. ASSUME NEW h \in Handles, NEW d \in Agents, RebindHandle(h, d)
      PROVE  Quiet
  <2>1. wns' \in [Handles -> [did : Agents, gen : Nat]]
    BY <1>5 DEF RebindHandle, TypeInv, TypeOK
  <2>2. QED
    BY <1>5, <2>1 DEF RebindHandle, Quiet, TypeInv, TypeOK, tables
<1>6. ASSUME Restart
      PROVE  Quiet
  BY <1>6 DEF Restart, Quiet, TypeInv, TypeOK
<1>7. ASSUME NEW k \in batch, MarkDelivered(k)
      PROVE  SettleRow
  <2>1. k \in DOMAIN outbox /\ outbox[k] \in OutboxRows
    BY DEF TypeInv, TypeOK
  <2>2. ASSUME outbox[k].status \in Unsettled
        PROVE  [status |-> "delivered", attempts |-> outbox[k].attempts + 1] \in OutboxRows
    BY <2>1, <2>2 DEF TypeInv, AttemptsLeft, OutboxRows
  <2>3. QED
    BY <1>7, <2>1, <2>2 DEF MarkDelivered, SettleRow, Unsettled
<1>8. ASSUME NEW k \in batch, NEW p \in BOOLEAN, MarkFailed(k, p)
      PROVE  SettleRow
  <2> DEFINE row == AfterFailure(outbox[k], p)
  <2>1. k \in DOMAIN outbox /\ outbox[k] \in OutboxRows
    BY DEF TypeInv, TypeOK
  <2>2. ASSUME outbox[k].status \in Unsettled
        PROVE  /\ row \in OutboxRows /\ (row.status \in Unsettled => row.attempts < MaxAttempts)
               /\ row.status # "pending" /\ row.attempts = outbox[k].attempts + 1
    <3>1. outbox[k].attempts \in Nat /\ outbox[k].attempts < MaxAttempts
      BY <2>1, <2>2 DEF TypeInv, AttemptsLeft, OutboxRows
    <3>2. QED
      BY <3>1 DEF AfterFailure, OutboxRows, Unsettled
  <2>3. /\ batch' = batch \ {k}
        /\ outbox' = IF outbox[k].status \in Unsettled THEN [outbox EXCEPT ![k] = row] ELSE outbox
        /\ UNCHANGED <<group, members, log, ops, sync, views, inbox, answers, thread, wns,
                       restarts, migrationVars>>
    BY <1>8 DEF MarkFailed
  <2> HIDE DEF row
  <2>4. QED
    BY <2>2, <2>3 DEF SettleRow
<1>9. ASSUME UNCHANGED vars
      PROVE  Quiet
  BY <1>9 DEF vars, Quiet, TypeInv, TypeOK, tables
<1>10. QED
  BY <1>1, <1>2, <1>3, <1>4, <1>5, <1>6, <1>7, <1>8, <1>9, CommitMembershipCommits,
     CommitRebindCommits, EndMembershipCommits, UpdateGroupCommits, SendCommits, MigrateMoves
     DEF Next, Serve, Proceed, Drain

LEMMA TypeInvStep == TypeInv /\ [Next]_vars => TypeInv'
<1> SUFFICES ASSUME TypeInv, [Next]_vars PROVE TypeInv'
  OBVIOUS
<1>1. CASE Commit
  <2>1. PICK r \in Requests, type \in EventTypes \ {"group-created"},
             subject, previous \in Agents \cup {NoAgent} :
               \E mem, policy : AcceptStep(r, mem, policy, type, subject, previous)
    BY <1>1 DEF Commit
  <2>2. PICK mem, policy : AcceptStep(r, mem, policy, type, subject, previous)
    BY <2>1
  <2>3. QED
    BY <2>2, AcceptKeepsTypes DEF AcceptStep, ThreadTypes
<1>2. CASE Quiet
  <2>1. answers' \subseteq Results
    BY <1>2 DEF Quiet, TypeInv, TypeOK, Results, Replayed
  <2>2. batch' \subseteq DOMAIN outbox
    BY <1>2 DEF Quiet, TypeInv, TypeOK
  <2>3. /\ UNCHANGED <<group, members, log, ops, outbox, sync, views, inbox>>
        /\ thread' \in [Threads -> ThreadTypes]
        /\ wns' \in [Handles -> [did : Agents, gen : Nat]]
        /\ restarts' \in 0..MaxRestarts
        /\ UNCHANGED migration
    BY <1>2 DEF Quiet, tables, migrationVars
  <2>4. QED
    BY <2>1, <2>2, <2>3 DEF TypeInv, TypeOK, AttemptsLeft, ThreadTypes
<1>3. CASE SettleRow
  <2>1. PICK k \in batch :
          /\ batch' = batch \ {k}
          /\ \/ UNCHANGED outbox
             \/ /\ outbox[k].status \in Unsettled
                /\ \E row \in OutboxRows :
                      /\ row.status \in Unsettled => row.attempts < MaxAttempts
                      /\ outbox' = [outbox EXCEPT ![k] = row]
    BY <1>3 DEF SettleRow
  <2>2. /\ DOMAIN outbox' = DOMAIN outbox /\ outbox' \in [DOMAIN outbox -> OutboxRows]
        /\ AttemptsLeft'
    BY <2>1 DEF TypeInv, TypeOK, AttemptsLeft
  <2>3. QED
    BY <1>3, <2>1, <2>2 DEF SettleRow, TypeInv, TypeOK, migrationVars
<1>4. CASE MoveProtocol
  <2>1. views' \in [Local -> ViewRows]
    <3>1. /\ views' = views \/ views' = RefreshViews(group', members)
          /\ group'.version \in Nat /\ group'.seq \in Nat /\ group'.wire \in {"v1", "v2"}
      BY <1>4 DEF MoveProtocol, TypeInv, TypeOK
    <3>2. views \in [Local -> ViewRows] /\ members \in [DOMAIN members -> MemberRows]
      BY DEF TypeInv, TypeOK
    <3>3. QED
      BY <3>1, <3>2, ViewsTyped
  <2>2. QED
    BY <1>4, <2>1 DEF MoveProtocol, TypeInv, TypeOK, AttemptsLeft, MigrationTyped
<1>5. QED
  BY <1>1, <1>2, <1>3, <1>4, StepKinds

\* Every reachable state is well formed: no handler, thread interleaving or
\* restart writes a malformed row, and no row is tried more often than
\* MAX_DELIVERY_ATTEMPTS.
THEOREM TypeCorrect == Spec => []TypeOK
<1>1. TypeInv => TypeOK
  BY DEF TypeInv
<1>2. QED
  BY <1>1, InitTypes, TypeInvStep, PTL DEF Spec
-----------------------------------------------------------------------------
(* The log and the operations table.                                        *)

\* What a committing step does to the log, for the proofs that follow.
LogExtended(r, type, subject, previous) ==
    /\ group.seq \in Nat \ {0} /\ group'.seq = group.seq + 1
    /\ DOMAIN log = 1..group.seq
    /\ DOMAIN log' = 1..(group.seq + 1)
    /\ \A s \in 1..group.seq : log'[s] = log[s]
    /\ log'[group.seq + 1] = [type |-> type, version |-> NextVersion(type),
                              subject |-> subject, previous |-> previous, req |-> r]
    /\ group'.version = NextVersion(type)

LEMMA CommitExtendsLog ==
    ASSUME TypeInv, LogIsGapless,
           NEW r \in Requests, NEW mem, NEW policy, NEW type, NEW subject, NEW previous,
           Accept(r, mem, policy, type, subject, previous)
    PROVE  LogExtended(r, type, subject, previous)
<1>1. group.seq \in Nat \ {0} /\ DOMAIN log = 1..group.seq
  BY DEF LogIsGapless, TypeInv, TypeOK
<1>2. group'.seq = group.seq + 1 /\ group'.version = NextVersion(type)
  BY DEF Accept, TypeInv, TypeOK
<1> DEFINE e == [type |-> type, version |-> NextVersion(type), subject |-> subject,
                 previous |-> previous, req |-> r]
<1>3. log' = Put(log, group.seq + 1, e)
  BY DEF Accept
<1> HIDE DEF e
<1>4. /\ DOMAIN log' = 1..(group.seq + 1)
      /\ \A s \in 1..group.seq : log'[s] = log[s]
      /\ log'[group.seq + 1] = e
  BY <1>1, <1>3 DEF Put
<1>5. QED
  BY <1>1, <1>2, <1>4 DEF e, LogExtended

LEMMA LogStep == TypeInv /\ LogIsGapless /\ [Next]_vars => LogIsGapless'
<1> SUFFICES ASSUME TypeInv, LogIsGapless, [Next]_vars PROVE LogIsGapless'
  OBVIOUS
<1>1. CASE Commit
  <2>1. PICK r \in Requests, type \in EventTypes \ {"group-created"},
             subject, previous \in Agents \cup {NoAgent} :
               \E mem, policy : AcceptStep(r, mem, policy, type, subject, previous)
    BY <1>1 DEF Commit
  <2>2. PICK mem, policy : Accept(r, mem, policy, type, subject, previous)
    BY <2>1 DEF AcceptStep
  <2>3. /\ group.seq \in Nat \ {0} /\ group'.seq = group.seq + 1
        /\ DOMAIN log = 1..group.seq
        /\ DOMAIN log' = 1..(group.seq + 1)
        /\ \A s \in 1..group.seq : log'[s] = log[s]
        /\ log'[group.seq + 1] = [type |-> type, version |-> NextVersion(type),
                                  subject |-> subject, previous |-> previous, req |-> r]
        /\ group'.version = NextVersion(type)
    <3>1. LogExtended(r, type, subject, previous)
      BY <2>2, CommitExtendsLog
    <3>2. QED
      BY <3>1 DEF LogExtended
  <2>4. /\ log'[group.seq + 1].version = NextVersion(type)
        /\ log'[group.seq + 1].type = type
    BY <2>3
  <2>5. NextVersion(type) = log[group.seq].version + (IF type = "group-message-created" THEN 0 ELSE 1)
    BY DEF LogIsGapless, NextVersion, TypeInv, TypeOK
  <2>6. ASSUME NEW s \in 2..(group.seq + 1)
        PROVE  log'[s].version = log'[s - 1].version + (IF IsMessage(log'[s]) THEN 0 ELSE 1)
    <3>1. CASE s = group.seq + 1
      BY <2>3, <2>4, <2>5, <3>1 DEF IsMessage
    <3>2. CASE s # group.seq + 1
      <4>1. s \in 2..group.seq /\ s \in 1..group.seq /\ s - 1 \in 1..group.seq
        BY <2>3, <3>2
      <4>2. log'[s] = log[s] /\ log'[s - 1] = log[s - 1]
        BY <2>3, <4>1
      <4>3. QED
        BY <4>1, <4>2 DEF LogIsGapless
    <3>3. QED
      BY <3>1, <3>2
  <2>7. QED
    BY <2>3, <2>4, <2>6 DEF LogIsGapless
<1>2. CASE Quiet
  BY <1>2 DEF Quiet, tables, LogIsGapless
<1>3. CASE SettleRow
  BY <1>3 DEF SettleRow, LogIsGapless
<1>4. CASE MoveProtocol
  BY <1>4 DEF MoveProtocol, LogIsGapless
<1>5. QED
  BY <1>1, <1>2, <1>3, <1>4, StepKinds

\* The numbers the host gives its events have no gap and no duplicate, and the
\* state version counts exactly the events that change the group, however the
\* transactions of concurrent handlers interleave.
THEOREM LogGapless == Spec => []LogIsGapless
<1>1. Init => LogIsGapless
  BY DEF Init, LogIsGapless
<1>2. QED
  BY <1>1, InitTypes, TypeInvStep, LogStep, PTL DEF Spec

\* The operations table indexes the log: every event but the first is found
\* under the key of its request, and every stored result names its event.
OpsIndexLog ==
    /\ \A s \in DOMAIN log \ {1} :
           /\ log[s].req \in Requests
           /\ OpKey(log[s].req) \in DOMAIN ops
           /\ ops[OpKey(log[s].req)].seq = s
    /\ \A k \in DOMAIN ops :
           /\ ops[k].seq \in DOMAIN log
           /\ log[ops[k].seq].req = ops[k].req
           /\ log[ops[k].seq].version = ops[k].version

OpsInv == TypeInv /\ LogIsGapless /\ OpsIndexLog /\ AnswersAreReceipts

LEMMA OpsStep == OpsInv /\ [Next]_vars => OpsInv'
<1> SUFFICES ASSUME OpsInv, [Next]_vars PROVE OpsIndexLog' /\ AnswersAreReceipts'
  BY TypeInvStep, LogStep DEF OpsInv
<1> USE DEF OpsInv
<1>1. CASE Commit
  <2>1. PICK r \in Requests, type \in EventTypes \ {"group-created"},
             subject, previous \in Agents \cup {NoAgent} :
               \E mem, policy : AcceptStep(r, mem, policy, type, subject, previous)
    BY <1>1 DEF Commit
  <2>2. PICK mem, policy : Fresh(r) /\ Accept(r, mem, policy, type, subject, previous)
    BY <2>1 DEF AcceptStep
  <2> DEFINE n == group.seq + 1
             v == NextVersion(type)
             row == [req |-> r, seq |-> n, version |-> v]
  <2>3. /\ n \in Nat /\ n # 1
        /\ DOMAIN log = 1..group.seq /\ DOMAIN log' = DOMAIN log \cup {n} /\ n \notin DOMAIN log
        /\ \A s \in DOMAIN log : log'[s] = log[s]
        /\ log'[n].req = r /\ log'[n].version = v
    <3>1. /\ group.seq \in Nat \ {0}
          /\ DOMAIN log = 1..group.seq /\ DOMAIN log' = 1..n
          /\ \A s \in 1..group.seq : log'[s] = log[s]
          /\ log'[n] = [type |-> type, version |-> v, subject |-> subject,
                        previous |-> previous, req |-> r]
      <4>1. LogExtended(r, type, subject, previous)
        BY <2>2, CommitExtendsLog
      <4>2. QED
        BY <4>1 DEF LogExtended
    <3>2. log'[n].req = r /\ log'[n].version = v
      BY <3>1
    <3>3. QED
      BY <3>1, <3>2
  <2>4. OpKey(r) \notin DOMAIN ops
    BY <2>2 DEF Fresh, Replayed
  <2>5. ops' = Put(ops, OpKey(r), row) /\ answers' = answers \cup {row}
    BY <2>2 DEF Accept
  <2>6. row.req = r /\ row.seq = n /\ row.version = v
    OBVIOUS
  <2> HIDE DEF n, v, row
  <2>7. /\ DOMAIN ops' = DOMAIN ops \cup {OpKey(r)}
        /\ ops'[OpKey(r)] = row
        /\ \A k \in DOMAIN ops : ops'[k] = ops[k]
    BY <2>4, <2>5 DEF Put
  <2>8. OpsIndexLog'
    <3>1. ASSUME NEW s \in DOMAIN log' \ {1}
          PROVE  /\ log'[s].req \in Requests
                 /\ OpKey(log'[s].req) \in DOMAIN ops'
                 /\ ops'[OpKey(log'[s].req)].seq = s
      BY <2>3, <2>4, <2>6, <2>7 DEF OpsIndexLog
    <3>2. ASSUME NEW k \in DOMAIN ops'
          PROVE  /\ ops'[k].seq \in DOMAIN log'
                 /\ log'[ops'[k].seq].req = ops'[k].req
                 /\ log'[ops'[k].seq].version = ops'[k].version
      BY <2>3, <2>6, <2>7 DEF OpsIndexLog
    <3>3. QED
      BY <3>1, <3>2 DEF OpsIndexLog, OpKey
  <2>9. AnswersAreReceipts'
    BY <2>3, <2>5, <2>6 DEF AnswersAreReceipts
  <2>10. QED
    BY <2>8, <2>9
<1>2. CASE Quiet
  <2>1. OpsIndexLog'
    BY <1>2 DEF Quiet, tables, OpsIndexLog
  <2>2. CASE UNCHANGED answers
    BY <1>2, <2>1, <2>2 DEF Quiet, tables, AnswersAreReceipts
  <2>3. CASE answers' # answers
    <3>1. PICK r \in Requests :
            /\ Replayed(r) /\ SameDigest(r)
            /\ answers' = answers \cup {[req |-> r, seq |-> ops[OpKey(r)].seq,
                                         version |-> ops[OpKey(r)].version]}
      BY <1>2, <2>3 DEF Quiet
    <3>2. UNCHANGED log
      BY <1>2 DEF Quiet, tables
    <3>3. QED
      BY <2>1, <3>1, <3>2 DEF AnswersAreReceipts, OpsIndexLog, Replayed, SameDigest
  <2>4. QED
    BY <2>2, <2>3
<1>3. CASE SettleRow
  BY <1>3 DEF SettleRow, OpsIndexLog, AnswersAreReceipts
<1>4. CASE MoveProtocol
  BY <1>4 DEF MoveProtocol, OpsIndexLog, AnswersAreReceipts
<1>5. QED
  BY <1>1, <1>2, <1>3, <1>4, StepKinds

LEMMA OpsInit == Init => OpsInv
<1>1. Init => LogIsGapless /\ OpsIndexLog /\ AnswersAreReceipts
  BY DEF Init, LogIsGapless, OpsIndexLog, AnswersAreReceipts
<1>2. QED
  BY <1>1, InitTypes DEF OpsInv

\* A request is executed at most once, whatever copies of it are in flight and
\* however often it is retried.
THEOREM OperationsOnce == Spec => []OneEventPerOperation
<1>1. OpsInv => OneEventPerOperation
  BY DEF OpsInv, OpsIndexLog, OneEventPerOperation, OpKey
<1>2. QED
  BY <1>1, OpsInit, OpsStep, PTL DEF Spec

\* Every answer, stored or fresh, is the receipt of an event the caller's own
\* request caused.
THEOREM ReceiptsTrue == Spec => []AnswersAreReceipts
<1>1. OpsInv => AnswersAreReceipts
  BY DEF OpsInv
<1>2. QED
  BY <1>1, OpsInit, OpsStep, PTL DEF Spec
-----------------------------------------------------------------------------
(* The streams of notifications.                                            *)

\* No row is ahead of the log, so a new row is the last of its stream.
OutboxBehindHead == \A k \in DOMAIN outbox : k[1] <= group.seq

\* What the SELECT of the worker keeps, stronger than the order it serves: a
\* tried row has only delivered rows in front of it, so not even one given up.
TriedBehindDelivered ==
    \A j, k \in DOMAIN outbox :
        /\ j[2] = k[2]
        /\ j[1] < k[1]
        /\ outbox[k].attempts > 0 \/ k \in batch
        => outbox[j].status = "delivered"

StreamInv == TypeInv /\ OutboxBehindHead /\ TriedBehindDelivered

LEMMA StreamStep == StreamInv /\ [Next]_vars => StreamInv'
<1> SUFFICES ASSUME StreamInv, [Next]_vars PROVE OutboxBehindHead' /\ TriedBehindDelivered'
  BY TypeInvStep DEF StreamInv
<1> USE DEF StreamInv
<1>1. CASE Commit
  <2>1. PICK r \in Requests, type \in EventTypes \ {"group-created"},
             subject, previous \in Agents \cup {NoAgent} :
               \E mem, policy : AcceptStep(r, mem, policy, type, subject, previous)
    BY <1>1 DEF Commit
  <2>2. PICK mem, policy : Accept(r, mem, policy, type, subject, previous) /\ UNCHANGED batch
    BY <2>1 DEF AcceptStep
  <2> DEFINE n == group.seq + 1
             targets == Recipients(mem, type, subject)
  <2>3. group.seq \in Nat /\ group'.seq = n
    BY <2>2 DEF Accept, TypeInv, TypeOK
  <2>4. outbox' = Enqueue(n, targets)
    BY <2>2 DEF Accept
  <2>5. targets \subseteq Remote
    BY DEF Recipients, RemoteMembers
  <2> HIDE DEF targets
  <2>6. /\ DOMAIN outbox' = DOMAIN outbox \cup ({n} \X targets)
        /\ \A k \in DOMAIN outbox : outbox'[k] = outbox[k]
        /\ \A k \in DOMAIN outbox' \ DOMAIN outbox : k[1] = n /\ outbox'[k].attempts = 0
    BY <2>4 DEF Enqueue
  <2>7. \A k \in DOMAIN outbox : k[1] \in Nat /\ k[1] <= group.seq
    BY DEF OutboxBehindHead, TypeInv, TypeOK
  <2>8. OutboxBehindHead'
    BY <2>3, <2>6, <2>7 DEF OutboxBehindHead
  <2>9. ASSUME NEW j \in DOMAIN outbox', NEW k \in DOMAIN outbox',
               j[2] = k[2], j[1] < k[1], outbox'[k].attempts > 0 \/ k \in batch'
        PROVE  outbox'[j].status = "delivered"
    <3>1. k \in DOMAIN outbox
      BY <2>2, <2>6, <2>9 DEF TypeInv, TypeOK
    <3>2. j \in DOMAIN outbox
      BY <2>3, <2>6, <2>7, <2>9, <3>1
    <3>3. QED
      BY <2>2, <2>6, <2>9, <3>1, <3>2 DEF TriedBehindDelivered
  <2>10. QED
    BY <2>8, <2>9 DEF TriedBehindDelivered
<1>2. CASE Quiet
  <2>1. /\ UNCHANGED <<group, outbox>>
        /\ \A k \in batch' \ batch : k \in DOMAIN outbox /\ Eligible(k)
    BY <1>2 DEF Quiet, tables
  <2>2. QED
    BY <2>1 DEF OutboxBehindHead, TriedBehindDelivered, Eligible
<1>3. CASE SettleRow
  <2>1. PICK k \in batch :
          /\ batch' = batch \ {k}
          /\ \/ UNCHANGED outbox
             \/ /\ outbox[k].status \in Unsettled
                /\ \E row \in OutboxRows : outbox' = [outbox EXCEPT ![k] = row]
    BY <1>3 DEF SettleRow
  <2>2. /\ DOMAIN outbox' = DOMAIN outbox /\ k \in DOMAIN outbox
        /\ \A j \in DOMAIN outbox \ {k} : outbox'[j] = outbox[j]
        /\ outbox[k].status = "delivered" => outbox'[k] = outbox[k]
    BY <2>1 DEF TypeInv, TypeOK, Unsettled
  <2>3. OutboxBehindHead'
    BY <1>3, <2>2 DEF SettleRow, OutboxBehindHead
  <2>4. TriedBehindDelivered'
    BY <2>1, <2>2 DEF TriedBehindDelivered
  <2>5. QED
    BY <2>3, <2>4
<1>4. CASE MoveProtocol
  BY <1>4 DEF MoveProtocol, OutboxBehindHead, TriedBehindDelivered
<1>5. QED
  BY <1>1, <1>2, <1>3, <1>4, StepKinds

\* Each remote member is sent its notifications in the order of the log,
\* across batches, failures, retries and restarts of the worker.
THEOREM StreamsInOrder == Spec => []StreamInOrder
<1>1. Init => StreamInv
  <2>1. Init => OutboxBehindHead /\ TriedBehindDelivered
    BY DEF Init, OutboxBehindHead, TriedBehindDelivered
  <2>2. QED
    BY <2>1, InitTypes DEF StreamInv
<1>2. StreamInv => StreamInOrder
  BY DEF StreamInv, TriedBehindDelivered, StreamInOrder
<1>3. QED
  BY <1>1, <1>2, StreamStep, PTL DEF Spec
-----------------------------------------------------------------------------
(* The roster and the log.                                                  *)

RosterInv == OpsInv /\ RosterFollowsLog /\ AuthorityFollowsLog

\* Appending an event changes neither what the log said before it nor, apart
\* from the event itself, who is active after it.
LEMMA ActiveAfterAppend ==
    ASSUME NEW n \in Nat \ {0}, NEW old, NEW new,
           \A s \in 1..n : new[s] = old[s],
           NEW d
    PROVE  /\ \A s \in 0..n : ActiveAfter(new, d, s) <=> ActiveAfter(old, d, s)
           /\ ActiveAfter(new, d, n + 1) <=>
                  \/ Activates(new[n + 1], d)
                  \/ ActiveAfter(old, d, n) /\ ~Deactivates(new[n + 1], d)
<1>1. \A s \in 0..n : ActiveAfter(new, d, s) <=> ActiveAfter(old, d, s)
  BY DEF ActiveAfter
<1>2. ASSUME Activates(new[n + 1], d)
      PROVE  ActiveAfter(new, d, n + 1)
  <2>1. n + 1 \in 1..(n + 1) /\ \A v \in ((n + 1) + 1)..(n + 1) : ~Deactivates(new[v], d)
    OBVIOUS
  <2>2. QED
    BY <1>2, <2>1 DEF ActiveAfter
<1>3. ASSUME ActiveAfter(old, d, n), ~Deactivates(new[n + 1], d)
      PROVE  ActiveAfter(new, d, n + 1)
  <2>1. PICK u \in 1..n : Activates(old[u], d) /\ \A v \in (u + 1)..n : ~Deactivates(old[v], d)
    BY <1>3 DEF ActiveAfter
  <2>2. ASSUME NEW v \in (u + 1)..(n + 1)
        PROVE  ~Deactivates(new[v], d)
    <3>1. CASE v = n + 1
      BY <1>3, <3>1
    <3>2. CASE v # n + 1
      <4>1. v \in (u + 1)..n /\ v \in 1..n
        BY <3>2
      <4>2. QED
        BY <2>1, <4>1
    <3>3. QED
      BY <3>1, <3>2
  <2>3. u \in 1..(n + 1) /\ Activates(new[u], d)
    BY <2>1
  <2>4. QED
    BY <2>2, <2>3 DEF ActiveAfter
<1>4. ASSUME ActiveAfter(new, d, n + 1), ~Activates(new[n + 1], d)
      PROVE  ActiveAfter(old, d, n) /\ ~Deactivates(new[n + 1], d)
  <2>1. PICK u \in 1..(n + 1) :
          Activates(new[u], d) /\ \A v \in (u + 1)..(n + 1) : ~Deactivates(new[v], d)
    BY <1>4 DEF ActiveAfter
  <2>2. u \in 1..n
    BY <1>4, <2>1
  <2>3. n + 1 \in (u + 1)..(n + 1) /\ \A v \in (u + 1)..n : v \in (u + 1)..(n + 1) /\ v \in 1..n
    BY <2>2
  <2>4. ~Deactivates(new[n + 1], d) /\ \A v \in (u + 1)..n : ~Deactivates(old[v], d)
    BY <2>1, <2>3
  <2>5. QED
    BY <2>1, <2>2, <2>4 DEF ActiveAfter
<1>5. QED
  BY <1>1, <1>2, <1>3, <1>4

LEMMA RosterStep == RosterInv /\ [Next]_vars => RosterInv'
<1> SUFFICES ASSUME RosterInv, [Next]_vars PROVE RosterFollowsLog' /\ AuthorityFollowsLog'
  BY OpsStep DEF RosterInv
<1> USE DEF RosterInv, OpsInv
<1>1. CASE Commit
  <2>1. PICK r \in Requests, type \in EventTypes \ {"group-created"},
             subject, previous \in Agents \cup {NoAgent} :
               \E mem, policy : AcceptStep(r, mem, policy, type, subject, previous)
    BY <1>1 DEF Commit
  <2>2. PICK mem, policy : AcceptStep(r, mem, policy, type, subject, previous)
    BY <2>1
  <2>3. /\ Accept(r, mem, policy, type, subject, previous)
        /\ RosterChange(mem, type, subject, previous)
        /\ members' = mem
        /\ r.method \notin {"group.join", "group.rebind_member"} => r.sender \in Active(members)
    BY <2>2 DEF AcceptStep, Accept
  <2> PICK n : n = group.seq
    OBVIOUS
  <2>4. /\ n \in Nat \ {0} /\ group'.seq = n + 1
        /\ DOMAIN log = 1..n /\ DOMAIN log' = 1..(n + 1)
        /\ \A s \in 1..n : log'[s] = log[s]
        /\ log'[n + 1] = [type |-> type, version |-> NextVersion(type), subject |-> subject,
                          previous |-> previous, req |-> r]
    <3>1. LogExtended(r, type, subject, previous)
      BY <2>3, CommitExtendsLog
    <3>2. QED
      BY <3>1 DEF LogExtended
  <2>5. /\ log'[n + 1].type = type /\ log'[n + 1].subject = subject
        /\ log'[n + 1].previous = previous /\ log'[n + 1].req = r
    BY <2>4
  <2>6. \A d :
          /\ \A s \in 0..n : ActiveAfter(log', d, s) <=> ActiveAfter(log, d, s)
          /\ ActiveAfter(log', d, n + 1) <=>
                \/ Activates(log'[n + 1], d)
                \/ ActiveAfter(log, d, n) /\ ~Deactivates(log'[n + 1], d)
    BY <2>4, ActiveAfterAppend
  <2>7. RosterFollowsLog'
    <3>1. SUFFICES ASSUME NEW d \in Agents
                   PROVE  d \in Active(mem) <=> ActiveAfter(log', d, n + 1)
      BY <2>3, <2>4 DEF RosterFollowsLog
    <3>2. d \in Active(members) <=> ActiveAfter(log, d, n)
      BY DEF RosterFollowsLog
    <3>3. Activates(log'[n + 1], d) <=>
              type \in {"member-activated", "member-credential-rebound"} /\ subject = d
      BY <2>5 DEF Activates
    <3>4. Deactivates(log'[n + 1], d) <=>
              \/ type \in EndTypes /\ subject = d
              \/ type = "member-credential-rebound" /\ previous = d
      BY <2>5 DEF Deactivates
    <3>5. ActiveAfter(log', d, n + 1) <=>
              \/ Activates(log'[n + 1], d)
              \/ ActiveAfter(log, d, n) /\ ~Deactivates(log'[n + 1], d)
      BY <2>6
    <3>6. CASE type \in {"member-activated", "member-credential-rebound"}
      BY <2>3, <3>2, <3>3, <3>4, <3>5, <3>6 DEF RosterChange, EndTypes
    <3>7. CASE type \in EndTypes
      BY <2>3, <3>2, <3>3, <3>4, <3>5, <3>7 DEF RosterChange, EndTypes
    <3>8. CASE type \in {"group-policy-updated", "group-profile-updated",
                         "group-message-created"}
      BY <2>3, <3>2, <3>3, <3>4, <3>5, <3>8 DEF RosterChange, EndTypes
    <3>9. QED
      BY <3>6, <3>7, <3>8 DEF EventTypes, EndTypes
  <2>8. ASSUME NEW s \in DOMAIN log' \ {1}
        PROVE  /\ log'[s].req.method \notin {"group.join", "group.rebind_member"} =>
                      ActiveAfter(log', log'[s].req.sender, s - 1)
               /\ log'[s].type = "member-activated" => ~ActiveAfter(log', log'[s].subject, s - 1)
               /\ log'[s].type = "member-credential-rebound" =>
                      /\ ActiveAfter(log', log'[s].previous, s - 1)
                      /\ ~ActiveAfter(log', log'[s].subject, s - 1)
    <3>1. CASE s = n + 1
      <4>1. \A d \in Agents : d \in Active(members) <=> ActiveAfter(log', d, s - 1)
        <5>1. s - 1 = n /\ n \in 0..n
          BY <2>4, <3>1
        <5>2. \A d : ActiveAfter(log', d, n) <=> ActiveAfter(log, d, n)
          BY <2>6, <5>1
        <5>3. QED
          BY <5>1, <5>2 DEF RosterFollowsLog
      <4>2. r.sender \in Agents
        BY RequestsAssumption
      <4>3. type = "member-credential-rebound" => previous \in Agents /\ subject \in Agents
        BY <2>3 DEF RosterChange, Active, TypeInv, TypeOK
      <4>4. QED
        BY <2>3, <2>5, <3>1, <4>1, <4>2, <4>3 DEF RosterChange
    <3>2. CASE s # n + 1
      <4>1. s \in DOMAIN log \ {1} /\ s - 1 \in 0..n /\ log'[s] = log[s]
        BY <2>4, <3>2
      <4>2. QED
        <5>1. \A d : ActiveAfter(log', d, s - 1) <=> ActiveAfter(log, d, s - 1)
          BY <2>6, <4>1
        <5>2. QED
          BY <4>1, <5>1 DEF AuthorityFollowsLog
    <3>3. QED
      BY <3>1, <3>2
  <2>9. AuthorityFollowsLog'
    BY <2>8 DEF AuthorityFollowsLog
  <2>10. QED
    BY <2>7, <2>9
<1>2. ASSUME group'.seq = group.seq, UNCHANGED <<members, log>>
      PROVE  RosterFollowsLog' /\ AuthorityFollowsLog'
  BY <1>2 DEF RosterFollowsLog, AuthorityFollowsLog
<1>3. Quiet \/ SettleRow \/ MoveProtocol => group'.seq = group.seq /\ UNCHANGED <<members, log>>
  BY DEF Quiet, SettleRow, MoveProtocol, tables
<1>4. QED
  BY <1>1, <1>2, <1>3, StepKinds

LEMMA RosterInit == Init => RosterInv
<1> SUFFICES ASSUME Init PROVE RosterFollowsLog /\ AuthorityFollowsLog
  BY OpsInit DEF RosterInv
<1>1. /\ DOMAIN log = {1} /\ log[1].type = "group-created" /\ group.seq = 1
      /\ DOMAIN members = DOMAIN InitialRoles
      /\ \A d \in DOMAIN members : members[d].status = "active"
  BY DEF Init
<1>2. \A d : ActiveAfter(log, d, 1) <=> d \in DOMAIN InitialRoles
  BY <1>1 DEF ActiveAfter, Activates, Deactivates, EndTypes
<1>3. Active(members) = DOMAIN InitialRoles
  BY <1>1 DEF Active
<1>4. QED
  BY <1>1, <1>2, <1>3 DEF RosterFollowsLog, AuthorityFollowsLog

\* The member table is at any moment what a replay of the log yields.
THEOREM RosterIsLog == Spec => []RosterFollowsLog
<1>1. RosterInv => RosterFollowsLog
  BY DEF RosterInv
<1>2. QED
  BY <1>1, RosterInit, RosterStep, PTL DEF Spec

\* No event is the work of an agent whose membership had ended before it, and
\* none activates a member twice, although join, add and rebind are checked
\* before a network call and committed after it.
THEOREM AuthorityHolds == Spec => []AuthorityFollowsLog
<1>1. RosterInv => AuthorityFollowsLog
  BY DEF RosterInv
<1>2. QED
  BY <1>1, RosterInit, RosterStep, PTL DEF Spec
-----------------------------------------------------------------------------
(* The migration to v2.                                                     *)

\* Every row of the outbox belongs to an event that a request caused.
RowsOfRequests == \A k \in DOMAIN outbox : k[1] \in 2..group.seq

MigrationInv == OpsInv /\ RowsOfRequests /\ PlanHolds /\ CutoverDrained

LEMMA MigrationStep == MigrationInv /\ [Next]_vars => MigrationInv'
<1> SUFFICES ASSUME MigrationInv, [Next]_vars
             PROVE  RowsOfRequests' /\ PlanHolds' /\ CutoverDrained'
  BY OpsStep DEF MigrationInv
<1> USE DEF MigrationInv, OpsInv
<1>1. CASE Commit
  <2>1. PICK r \in Requests, type \in EventTypes \ {"group-created"},
             subject, previous \in Agents \cup {NoAgent} :
               \E mem, policy : AcceptStep(r, mem, policy, type, subject, previous)
    BY <1>1 DEF Commit
  <2>2. PICK mem, policy : /\ Fresh(r) /\ Accept(r, mem, policy, type, subject, previous)
                           /\ UNCHANGED migrationVars
    BY <2>1 DEF AcceptStep
  <2> DEFINE n == group.seq + 1
             targets == Recipients(mem, type, subject)
  <2>3. LogExtended(r, type, subject, previous)
    BY <2>2, CommitExtendsLog
  <2>4. /\ n \in Nat /\ n > 1 /\ group'.seq = n
        /\ \A s \in 2..group.seq : log'[s] = log[s]
        /\ log'[n].req = r
    BY <2>3 DEF LogExtended
  <2>5. outbox' = Enqueue(n, targets) /\ group'.wire = group.wire
    BY <2>2 DEF Accept, TypeInv, TypeOK
  <2>6. r.profile = group.wire /\ group.protocol = "active"
    BY <2>2 DEF Fresh, Fence
  <2> HIDE DEF n, targets
  <2>7. /\ DOMAIN outbox' = DOMAIN outbox \cup ({n} \X targets)
        /\ \A k \in DOMAIN outbox : outbox'[k] = outbox[k]
        /\ \A k \in DOMAIN outbox' \ DOMAIN outbox : k[1] = n
    BY <2>5 DEF Enqueue
  <2>8. RowsOfRequests'
    <3>1. group.seq \in Nat /\ n = group.seq + 1
      BY DEF n, TypeInv, TypeOK
    <3>2. \A k \in DOMAIN outbox' : k[1] \in 2..group.seq \/ k[1] = n
      BY <2>7 DEF RowsOfRequests
    <3>3. QED
      BY <2>4, <3>1, <3>2 DEF RowsOfRequests
  <2>9. PlanHolds'
    BY <2>2, <2>6 DEF PlanHolds, migrationVars
  <2>10. ASSUME NEW k \in DOMAIN outbox', group'.wire = "v2", log'[k[1]].req.profile = "v1"
         PROVE  outbox'[k].status = "delivered"
    <3>1. k \in DOMAIN outbox
      BY <2>4, <2>5, <2>6, <2>7, <2>10
    <3>2. log'[k[1]] = log[k[1]]
      BY <2>4, <3>1 DEF RowsOfRequests
    <3>3. QED
      BY <2>5, <2>7, <2>10, <3>1, <3>2 DEF CutoverDrained
  <2>11. QED
    BY <2>8, <2>9, <2>10 DEF CutoverDrained
<1>2. CASE Quiet
  BY <1>2 DEF Quiet, tables, migrationVars, RowsOfRequests, PlanHolds, CutoverDrained, Plan
<1>3. CASE SettleRow
  <2>1. PICK k \in batch :
          \/ UNCHANGED outbox
          \/ /\ outbox[k].status \in Unsettled
             /\ \E row \in OutboxRows : outbox' = [outbox EXCEPT ![k] = row]
    BY <1>3 DEF SettleRow
  <2>2. /\ DOMAIN outbox' = DOMAIN outbox
        /\ \A j \in DOMAIN outbox : outbox[j].status = "delivered" => outbox'[j] = outbox[j]
    BY <2>1 DEF TypeInv, TypeOK, Unsettled
  <2>3. UNCHANGED <<group, members, log, migration>>
    BY <1>3 DEF SettleRow, migrationVars
  <2>4. QED
    BY <2>2, <2>3 DEF RowsOfRequests, PlanHolds, CutoverDrained, Plan
<1>4. CASE MoveProtocol
  <2>1. UNCHANGED <<members, log, outbox>> /\ group'.seq = group.seq
    BY <1>4 DEF MoveProtocol
  <2>2. RowsOfRequests'
    BY <2>1 DEF RowsOfRequests
  <2>3. CASE Prepare
    BY <2>1, <2>2, <2>3 DEF Prepare, PlanHolds, CutoverDrained, Plan, TypeInv, TypeOK
  <2>4. CASE Cancel
    BY <2>1, <2>2, <2>4 DEF Cancel, PlanHolds, CutoverDrained, TypeInv, TypeOK
  <2>5. CASE BeginApply
    BY <2>1, <2>2, <2>5 DEF BeginApply, tables, PlanHolds, CutoverDrained, Plan
  <2>6. ASSUME NEW c \in commands, FinishPrepare(c)
        PROVE  PlanHolds' /\ CutoverDrained'
    BY <2>1, <2>6
       DEF FinishPrepare, tables, PlanHolds, CutoverDrained, Plan, TypeInv, TypeOK
  <2>7. ASSUME NEW c \in commands, FinishApply(c)
        PROVE  PlanHolds' /\ CutoverDrained'
    BY <2>1, <2>7 DEF FinishApply, Drained, PlanHolds, CutoverDrained, TypeInv, TypeOK
  <2>8. ASSUME NEW c \in commands, AbandonCommand(c)
        PROVE  PlanHolds' /\ CutoverDrained'
    BY <2>1, <2>8 DEF AbandonCommand, tables, PlanHolds, CutoverDrained, Plan
  <2>9. QED
    BY <1>4, <2>2, <2>3, <2>4, <2>5, <2>6, <2>7, <2>8 DEF MoveProtocol, Migrate
<1>5. QED
  BY <1>1, <1>2, <1>3, <1>4, StepKinds

LEMMA MigrationInit == Init => MigrationInv
<1>1. Init => RowsOfRequests /\ PlanHolds /\ CutoverDrained
  BY DEF Init, RowsOfRequests, PlanHolds, CutoverDrained
<1>2. QED
  BY <1>1, OpsInit DEF MigrationInv

\* What the operator inspected is what is migrated: from prepare on, no request
\* in flight, replay or delivery changes the group under the plan.
THEOREM PlansHold == Spec => []PlanHolds
<1>1. MigrationInv => PlanHolds
  BY DEF MigrationInv
<1>2. QED
  BY <1>1, MigrationInit, MigrationStep, PTL DEF Spec

\* Once the group speaks v2, every v1 notification has been delivered.
THEOREM CutoverIsDrained == Spec => []CutoverDrained
<1>1. MigrationInv => CutoverDrained
  BY DEF MigrationInv
<1>2. QED
  BY <1>1, MigrationInit, MigrationStep, PTL DEF Spec
-----------------------------------------------------------------------------
(* Who is told.                                                             *)

AudienceInv == RosterInv /\ MigrationInv /\ AudienceFollowsLog

\* The remote members an event is for.
Audience(events, s) ==
    {d \in Remote : \/ ActiveAfter(events, d, s)
                    \/ events[s].req.profile = "v2" /\ events[s].type \in EndTypes
                       /\ events[s].subject = d}

LEMMA AudienceStep == AudienceInv /\ [Next]_vars => AudienceInv'
<1> SUFFICES ASSUME AudienceInv, [Next]_vars PROVE AudienceFollowsLog'
  BY RosterStep, MigrationStep DEF AudienceInv
<1>0. RosterInv /\ MigrationInv /\ OpsInv /\ TypeInv /\ LogIsGapless /\ RosterFollowsLog'
  BY RosterStep DEF AudienceInv, RosterInv, OpsInv
<1>1. CASE Commit
  <2>1. PICK r \in Requests, type \in EventTypes \ {"group-created"},
             subject, previous \in Agents \cup {NoAgent} :
               \E mem, policy : AcceptStep(r, mem, policy, type, subject, previous)
    BY <1>1 DEF Commit
  <2>2. PICK mem, policy : AcceptStep(r, mem, policy, type, subject, previous)
    BY <2>1
  <2>3. /\ Accept(r, mem, policy, type, subject, previous)
        /\ RosterChange(mem, type, subject, previous)
        /\ members' = mem /\ r.profile = group.wire
    BY <2>2 DEF AcceptStep, Accept, Fresh, Fence
  <2> PICK n : n = group.seq
    OBVIOUS
  <2> DEFINE targets == Recipients(mem, type, subject)
  <2>4. /\ n \in Nat \ {0} /\ group'.seq = n + 1
        /\ DOMAIN log = 1..n /\ DOMAIN log' = 1..(n + 1)
        /\ \A s \in 1..n : log'[s] = log[s]
        /\ log'[n + 1].type = type /\ log'[n + 1].subject = subject /\ log'[n + 1].req = r
    <3>1. LogExtended(r, type, subject, previous)
      BY <1>0, <2>3, CommitExtendsLog
    <3>2. QED
      BY <3>1 DEF LogExtended
  <2>5. outbox' = Enqueue(n + 1, targets)
    BY <2>3 DEF Accept
  <2>6. \A d \in Agents : d \in Active(mem) <=> ActiveAfter(log', d, n + 1)
    BY <1>0, <2>3, <2>4 DEF RosterFollowsLog
  <2>7. targets = Audience(log', n + 1)
    <3>1. type \in EndTypes => subject \in DOMAIN mem
      BY <2>3 DEF RosterChange
    <3>2. targets \subseteq Remote /\ Remote \subseteq Agents
      BY DEF Recipients, RemoteMembers
    <3>3. ASSUME NEW d \in Remote
          PROVE  d \in targets <=> d \in Audience(log', n + 1)
      BY <2>3, <2>4, <2>6, <3>1, <3>2, <3>3 DEF Audience, Recipients, RemoteMembers, EndTypes
    <3>4. QED
      BY <3>2, <3>3 DEF Audience
  <2> HIDE DEF targets
  <2>8. /\ DOMAIN outbox' = DOMAIN outbox \cup ({n + 1} \X targets)
        /\ \A k \in DOMAIN outbox : k[1] \in 2..n
    BY <1>0, <2>5 DEF Enqueue, MigrationInv, RowsOfRequests
  <2>9. ASSUME NEW s \in DOMAIN log' \ {1}
        PROVE  {d \in Remote : <<s, d>> \in DOMAIN outbox'} = Audience(log', s)
    <3>1. CASE s = n + 1
      <4>1. \A d : <<s, d>> \notin DOMAIN outbox
        <5>1. SUFFICES ASSUME NEW d, <<s, d>> \in DOMAIN outbox PROVE FALSE
          OBVIOUS
        <5>2. <<s, d>>[1] = s
          OBVIOUS
        <5>3. s \in 2..n
          BY <2>8, <5>1, <5>2
        <5>4. QED
          BY <2>4, <3>1, <5>3
      <4>2. \A d : <<s, d>> \in DOMAIN outbox' <=> d \in targets
        BY <2>8, <3>1, <4>1
      <4>3. QED
        BY <2>7, <3>1, <4>2 DEF Audience
    <3>2. CASE s # n + 1
      <4>1. s \in DOMAIN log \ {1} /\ s \in 0..n /\ log'[s] = log[s]
        BY <2>4, <3>2
      <4>2. \A d : <<s, d>> \in DOMAIN outbox' <=> <<s, d>> \in DOMAIN outbox
        BY <2>8, <3>2
      <4>3. \A d : ActiveAfter(log', d, s) <=> ActiveAfter(log, d, s)
        BY <2>4, <4>1, ActiveAfterAppend
      <4>4. {d \in Remote : <<s, d>> \in DOMAIN outbox} = Audience(log, s)
        BY <4>1 DEF AudienceInv, AudienceFollowsLog, Audience
      <4>5. QED
        BY <4>1, <4>2, <4>3, <4>4 DEF Audience
    <3>3. QED
      BY <3>1, <3>2
  <2>10. QED
    BY <2>9 DEF AudienceFollowsLog, Audience
<1>2. CASE Quiet
  BY <1>2 DEF Quiet, tables, AudienceInv, AudienceFollowsLog
<1>3. CASE SettleRow
  <2>1. UNCHANGED log /\ DOMAIN outbox' = DOMAIN outbox
    BY <1>3 DEF SettleRow
  <2>2. QED
    BY <2>1 DEF AudienceInv, AudienceFollowsLog
<1>4. CASE MoveProtocol
  BY <1>4 DEF MoveProtocol, AudienceInv, AudienceFollowsLog
<1>5. QED
  BY <1>0, <1>1, <1>2, <1>3, <1>4, StepKinds

\* Every event is sent to the remote members it concerned when it happened,
\* and to nobody else, however the roster changed around it.
THEOREM AudienceIsRoster == Spec => []AudienceFollowsLog
<1>1. Init => AudienceInv
  <2>1. Init => AudienceFollowsLog
    BY DEF Init, AudienceFollowsLog
  <2>2. QED
    BY <2>1, RosterInit, MigrationInit DEF AudienceInv
<1>2. AudienceInv => AudienceFollowsLog
  BY DEF AudienceInv
<1>3. QED
  BY <1>1, <1>2, AudienceStep, PTL DEF Spec
-----------------------------------------------------------------------------
(* The limits: of the outbox, and of the group.                             *)

BoundedInv == StreamInv /\ IsFiniteSet(DOMAIN outbox) /\ OutboxBounded

LEMMA ReserveType == Reserve \in Nat
<1>1. MaxPending \div 100 \in Int
  OBVIOUS
<1>2. ASSUME NEW q \in Int, q = MaxPending \div 100
      PROVE  Reserve \in Nat
  BY <1>2 DEF Reserve
<1>3. QED
  BY <1>1, <1>2

\* ensure_outbox_capacity counted at least the rows that are written.
LEMMA CapacityCounts ==
    ASSUME NEW targets, Affordable(targets), targets # {}, IsFiniteSet(Backlog)
    PROVE  /\ IsFiniteSet(targets)
           /\ Cardinality(Backlog) + Cardinality(targets) <= MaxPending + Reserve
<1>1. PICK roster :
        /\ DOMAIN roster \subseteq Agents
        /\ targets \subseteq RemoteMembers(roster)
        /\ HasCapacity(roster, TRUE) \/ HasCapacity(roster, FALSE)
  BY DEF Affordable
<1> DEFINE all == RemoteMembers(roster)
<1>2. IsFiniteSet(all)
  <2>1. all \subseteq Agents
    BY DEF RemoteMembers
  <2>2. QED
    BY <2>1, FS_Subset
<1>3. /\ IsFiniteSet(targets) /\ Cardinality(targets) <= Cardinality(all)
      /\ Cardinality(targets) \in Nat /\ Cardinality(all) \in Nat /\ Cardinality(Backlog) \in Nat
  <2>1. IsFiniteSet(targets) /\ Cardinality(targets) <= Cardinality(all)
    BY <1>1, <1>2, FS_Subset
  <2>2. QED
    BY <1>2, <2>1, FS_CardinalityType
<1>4. all # {}
  BY <1>1
<1>5. Cardinality(Backlog) + Cardinality(all) <= MaxPending + Reserve
  BY <1>1, <1>3, <1>4, ReserveType DEF HasCapacity
<1>6. QED
  BY <1>3, <1>5, ReserveType

LEMMA BoundedStep == BoundedInv /\ [Next]_vars => BoundedInv'
<1> SUFFICES ASSUME BoundedInv, [Next]_vars PROVE IsFiniteSet(DOMAIN outbox') /\ OutboxBounded'
  BY StreamStep DEF BoundedInv
<1>0. StreamInv /\ TypeInv /\ IsFiniteSet(DOMAIN outbox) /\ OutboxBounded
  BY DEF BoundedInv, StreamInv
<1> USE DEF OutboxBounded
<1>1. IsFiniteSet(Backlog) /\ Cardinality(Backlog) \in Nat
  <2>1. Backlog \subseteq DOMAIN outbox
    BY DEF Backlog
  <2>2. IsFiniteSet(Backlog)
    BY <1>0, <2>1, FS_Subset
  <2>3. QED
    BY <2>2, FS_CardinalityType
<1>2. CASE Commit
  <2>1. PICK r \in Requests, type \in EventTypes \ {"group-created"},
             subject, previous \in Agents \cup {NoAgent} :
               \E mem, policy : AcceptStep(r, mem, policy, type, subject, previous)
    BY <1>2 DEF Commit
  <2>2. PICK mem, policy : /\ Accept(r, mem, policy, type, subject, previous)
                           /\ Affordable(Recipients(mem, type, subject))
    BY <2>1 DEF AcceptStep
  <2> DEFINE n == group.seq + 1
             targets == Recipients(mem, type, subject)
             rows == {n} \X targets
  <2>3. outbox' = Enqueue(n, targets)
    BY <2>2 DEF Accept
  <2>4. group.seq \in Nat /\ \A k \in DOMAIN outbox : k[1] <= group.seq
    BY <1>0 DEF StreamInv, OutboxBehindHead, TypeInv, TypeOK
  <2>5. Affordable(targets)
    BY <2>2
  <2> HIDE DEF targets
  <2>6. rows \cap DOMAIN outbox = {}
    <3>1. \A k \in rows : k[1] = n
      OBVIOUS
    <3>2. QED
      BY <2>4, <3>1
  <2>7. DOMAIN outbox' = DOMAIN outbox \cup rows /\ Backlog' = Backlog \cup rows
    BY <2>3, <2>6 DEF Enqueue, Backlog, Unsettled
  <2>8. CASE targets = {}
    <3>1. rows = {}
      BY <2>8
    <3>2. DOMAIN outbox' = DOMAIN outbox /\ Backlog' = Backlog
      BY <2>7, <3>1
    <3>3. QED
      BY <1>0, <3>2
  <2>9. CASE targets # {}
    <3>1. /\ IsFiniteSet(targets)
          /\ Cardinality(Backlog) + Cardinality(targets) <= MaxPending + Reserve
      BY <1>1, <2>5, <2>9, CapacityCounts
    <3>2. IsFiniteSet(rows) /\ Cardinality(rows) = Cardinality(targets)
      <4>1. IsFiniteSet({n}) /\ Cardinality({n}) = 1 /\ Cardinality(targets) \in Nat
        BY <3>1, FS_Singleton, FS_CardinalityType
      <4>2. IsFiniteSet(rows) /\ Cardinality(rows) = Cardinality({n}) * Cardinality(targets)
        BY <3>1, <4>1, FS_Product
      <4>3. QED
        BY <4>1, <4>2
    <3>3. Backlog \cap rows = {}
      BY <2>6 DEF Backlog
    <3>4. Cardinality(Backlog \cup rows) = Cardinality(Backlog) + Cardinality(rows)
      <4>1. Cardinality(Backlog \cup rows)
              = Cardinality(Backlog) + Cardinality(rows) - Cardinality(Backlog \cap rows)
        BY <1>1, <3>2, FS_Union
      <4>2. Cardinality(Backlog \cap rows) = 0
        BY <3>3, FS_EmptySet
      <4>3. Cardinality(rows) \in Nat
        BY <3>2, FS_CardinalityType
      <4>4. QED
        BY <1>1, <4>1, <4>2, <4>3
    <3>5. IsFiniteSet(DOMAIN outbox \cup rows)
      BY <1>0, <3>2, FS_Union
    <3>6. QED
      BY <2>7, <3>1, <3>2, <3>4, <3>5
  <2>10. QED
    BY <2>8, <2>9
<1>3. CASE Quiet \/ MoveProtocol
  <2>1. UNCHANGED outbox
    BY <1>3 DEF Quiet, MoveProtocol, tables
  <2>2. QED
    BY <1>0, <2>1 DEF Backlog
<1>4. CASE SettleRow
  <2>1. PICK k \in batch :
          \/ UNCHANGED outbox
          \/ /\ outbox[k].status \in Unsettled
             /\ \E row \in OutboxRows : outbox' = [outbox EXCEPT ![k] = row]
    BY <1>4 DEF SettleRow
  <2>2. DOMAIN outbox' = DOMAIN outbox /\ \A j \in DOMAIN outbox \ {k} : outbox'[j] = outbox[j]
    BY <2>1
  <2>3. Backlog' \subseteq Backlog
    BY <2>1, <2>2 DEF Backlog
  <2>4. Cardinality(Backlog') <= Cardinality(Backlog) /\ Cardinality(Backlog') \in Nat
    <3>1. IsFiniteSet(Backlog') /\ Cardinality(Backlog') <= Cardinality(Backlog)
      BY <1>1, <2>3, FS_Subset
    <3>2. QED
      BY <3>1, FS_CardinalityType
  <2>5. QED
    BY <1>0, <1>1, <2>2, <2>4, ReserveType
<1>5. QED
  BY <1>0, <1>2, <1>3, <1>4, StepKinds

\* The backlog stays within the configured limit and the reserve for
\* management, whatever the roster, the failures and the mix of operations.
THEOREM BacklogBounded == Spec => []OutboxBounded
<1>1. Init => BoundedInv
  <2>1. ASSUME Init
        PROVE  IsFiniteSet(DOMAIN outbox) /\ OutboxBounded
    <3>1. DOMAIN outbox = {} /\ Backlog = {}
      BY <2>1 DEF Init, Backlog
    <3>2. QED
      BY <3>1, FS_EmptySet, ReserveType DEF OutboxBounded
  <2>2. Init => OutboxBehindHead /\ TriedBehindDelivered
    BY DEF Init, OutboxBehindHead, TriedBehindDelivered
  <2>3. QED
    BY <2>1, <2>2, InitTypes DEF BoundedInv, StreamInv
<1>2. BoundedInv => OutboxBounded
  BY DEF BoundedInv
<1>3. QED
  BY <1>1, <1>2, BoundedStep, PTL DEF Spec

\* What a step may do to the size of the group.
WithinLimit ==
    Cardinality(Active(members')) > Cardinality(Active(members)) =>
        Cardinality(Active(members')) <= group.policy.max_members

LEMMA AdmissionStep == TypeInv /\ [Next]_vars => WithinLimit
<1> SUFFICES ASSUME TypeInv, [Next]_vars PROVE WithinLimit
  OBVIOUS
<1> DEFINE old == Active(members)
           c == Cardinality(old)
<1>1. IsFiniteSet(old) /\ c \in Nat
  <2>1. old \subseteq Agents
    BY DEF Active, TypeInv, TypeOK
  <2>2. IsFiniteSet(old)
    BY <2>1, FS_Subset
  <2>3. QED
    BY <2>2, FS_CardinalityType
<1>2. ASSUME UNCHANGED members
      PROVE  WithinLimit
  BY <1>1, <1>2 DEF WithinLimit
<1>3. CASE Commit
  <2>1. PICK r \in Requests, type \in EventTypes \ {"group-created"},
             subject, previous \in Agents \cup {NoAgent} :
               \E mem, policy : AcceptStep(r, mem, policy, type, subject, previous)
    BY <1>3 DEF Commit
  <2>2. PICK mem : RosterChange(mem, type, subject, previous) /\ members' = mem
    BY <2>1 DEF AcceptStep, Accept
  <2>3. CASE type = "member-activated"
    <3>1. /\ subject \notin old /\ c < group.policy.max_members
          /\ Active(members') = old \cup {subject}
      BY <2>2, <2>3 DEF RosterChange
    <3>2. Cardinality(old \cup {subject}) = c + 1
      BY <1>1, <3>1, FS_AddElement
    <3>3. group.policy.max_members \in Nat
      <4>1. ValidPolicy(group.policy)
        BY DEF TypeInv, TypeOK
      <4>2. QED
        BY <4>1 DEF ValidPolicy
    <3>4. QED
      BY <1>1, <3>1, <3>2, <3>3 DEF WithinLimit
  <2>4. CASE type = "member-credential-rebound"
    <3>1. /\ previous \in old /\ subject \notin old
          /\ Active(members') = (old \ {previous}) \cup {subject}
      BY <2>2, <2>4 DEF RosterChange
    <3>2. IsFiniteSet(old \ {previous}) /\ Cardinality(old \ {previous}) = c - 1
      BY <1>1, <3>1, FS_RemoveElement
    <3>3. Cardinality((old \ {previous}) \cup {subject}) = (c - 1) + 1
      BY <3>1, <3>2, FS_AddElement
    <3>4. Cardinality(Active(members')) = c
      BY <1>1, <3>1, <3>3
    <3>5. QED
      BY <1>1, <3>4 DEF WithinLimit
  <2>5. CASE type \in EndTypes
    <3>1. subject \in old /\ Active(members') = old \ {subject}
      BY <2>2, <2>5 DEF RosterChange
    <3>2. Cardinality(old \ {subject}) = c - 1
      BY <1>1, <3>1, FS_RemoveElement
    <3>3. QED
      BY <1>1, <3>1, <3>2 DEF WithinLimit
  <2>6. CASE type \in {"group-policy-updated", "group-profile-updated",
                       "group-message-created"}
    BY <1>2, <2>2, <2>6 DEF RosterChange
  <2>7. QED
    BY <2>3, <2>4, <2>5, <2>6 DEF EventTypes, EndTypes
<1>4. Quiet \/ SettleRow \/ MoveProtocol => UNCHANGED members
  BY DEF Quiet, SettleRow, MoveProtocol, tables
<1>5. QED
  BY <1>2, <1>3, <1>4, StepKinds

\* No admission, however many are between their two phases, takes the group
\* past the limit in force when it commits.
THEOREM AdmissionLimited == Spec => AdmissionWithinLimit
<1>1. TypeInv /\ [Next]_vars => [WithinLimit]_vars
  BY AdmissionStep
<1>2. QED
  BY <1>1, InitTypes, TypeInvStep, PTL DEF Spec, AdmissionWithinLimit, WithinLimit
-----------------------------------------------------------------------------
(* What local members are shown.                                            *)

\* The view of a former member is behind the head, so that a later event does
\* not change what the log says about it.
FormerBehindHead == \A d \in Local : views[d].status = "inactive" => views[d].seq + 1 <= group.seq

LocalInv == RosterInv /\ LocalHistoryFollowsLog /\ LocalViewsFresh /\ FormerBehindHead

Values(s) == {s[i] : i \in DOMAIN s}

Increasing(s) == \A i, j \in DOMAIN s : i < j => s[i] < s[j]

\* The events a sync log lists.
History(events, head, d) ==
    {s \in 1..head : \/ ActiveAfter(events, d, s)
                     \/ s # 1 /\ events[s].req.profile = "v2" /\ events[s].type \in EndTypes
                        /\ events[s].subject = d}

\* Appending the next event number to a list of earlier ones.
LEMMA AppendNext ==
    ASSUME NEW s \in Seq(Nat), NEW n \in Nat, Values(s) \subseteq 1..n, Increasing(s)
    PROVE  /\ Values(Append(s, n + 1)) = Values(s) \cup {n + 1}
           /\ Increasing(Append(s, n + 1))
<1> DEFINE t == Append(s, n + 1)
<1>1. /\ Len(s) \in Nat /\ DOMAIN s = 1..Len(s) /\ DOMAIN t = 1..(Len(s) + 1)
      /\ t[Len(s) + 1] = n + 1
      /\ \A i \in 1..Len(s) : t[i] = s[i]
  OBVIOUS
<1> HIDE DEF t
<1>2. \A i \in DOMAIN s : s[i] \in Nat /\ s[i] <= n
  BY DEF Values
<1>3. Values(t) = Values(s) \cup {n + 1}
  <2>1. ASSUME NEW i \in DOMAIN t
        PROVE  t[i] \in Values(s) \cup {n + 1}
    <3>1. CASE i = Len(s) + 1
      BY <1>1, <3>1
    <3>2. CASE i # Len(s) + 1
      BY <1>1, <3>2 DEF Values
    <3>3. QED
      BY <3>1, <3>2
  <2>2. n + 1 \in Values(t)
    BY <1>1 DEF Values
  <2>3. ASSUME NEW i \in DOMAIN s
        PROVE  s[i] \in Values(t)
    <3>1. i \in DOMAIN t /\ t[i] = s[i]
      BY <1>1
    <3>2. QED
      BY <3>1 DEF Values
  <2>4. QED
    BY <2>1, <2>2, <2>3 DEF Values
<1>4. ASSUME NEW i \in DOMAIN t, NEW j \in DOMAIN t, i < j
      PROVE  t[i] < t[j]
  <2>1. i \in DOMAIN s /\ t[i] = s[i]
    BY <1>1, <1>4
  <2>2. CASE j = Len(s) + 1
    BY <1>1, <1>2, <2>1, <2>2
  <2>3. CASE j # Len(s) + 1
    <3>1. j \in DOMAIN s /\ t[j] = s[j]
      BY <1>1, <2>3
    <3>2. QED
      BY <1>4, <2>1, <3>1 DEF Increasing
  <2>4. QED
    BY <2>2, <2>3
<1>5. QED
  BY <1>3, <1>4 DEF t, Increasing

\* What refresh_hosted_local_projections leaves in each row.
LEMMA RefreshedView ==
    ASSUME views \in [Local -> ViewRows], NEW grp, NEW mem, NEW d \in Local
    PROVE  LET v == RefreshViews(grp, mem)[d] IN
           /\ d \in Active(mem) =>
                  /\ v.status = "active" /\ v.role = mem[d].role
                  /\ v.version = grp.version /\ v.seq = grp.seq /\ v.wire = grp.wire
           /\ d \notin Active(mem) =>
                  /\ v.seq = views[d].seq
                  /\ v.status = IF views[d].status = "none" THEN "none" ELSE "inactive"
<1>1. views[d] \in ViewRows
  OBVIOUS
<1>2. QED
  BY <1>1 DEF RefreshViews, ViewRows

\* The views after an event: members' at the new head, the one of a member whom
\* the event ended at the event before it, older ones where they were.
LEMMA ViewsAfterEvent ==
    ASSUME LocalInv, RosterFollowsLog',
           NEW n \in Nat \ {0}, group.seq = n, group'.seq = n + 1,
           \A d, s : s \in 0..n => (ActiveAfter(log', d, s) <=> ActiveAfter(log, d, s)),
           views' = RefreshViews(group', members')
    PROVE  LocalViewsFresh' /\ FormerBehindHead'
<1>1. SUFFICES ASSUME NEW d \in Local
               PROVE  /\ views'[d].status = "active" <=> d \in Active(members')
                      /\ d \in Active(members') =>
                             /\ views'[d].seq = group'.seq /\ views'[d].version = group'.version
                             /\ views'[d].role = members'[d].role
                             /\ views'[d].wire = group'.wire
                      /\ views'[d].status = "inactive" =>
                             /\ ActiveAfter(log', d, views'[d].seq)
                             /\ ~ActiveAfter(log', d, views'[d].seq + 1)
                             /\ views'[d].seq + 1 <= group'.seq
  BY DEF LocalViewsFresh, FormerBehindHead
<1>2. /\ views \in [Local -> ViewRows] /\ views[d] \in ViewRows
      /\ views[d].status \in {"none", "active", "inactive"} /\ views[d].seq \in Nat
  <2>1. views \in [Local -> ViewRows]
    BY DEF LocalInv, RosterInv, OpsInv, TypeInv, TypeOK
  <2>2. views[d] \in ViewRows
    BY <2>1
  <2>3. QED
    BY <2>1, <2>2 DEF ViewRows
<1>3. /\ d \in Active(members') =>
             /\ views'[d].status = "active" /\ views'[d].role = members'[d].role
             /\ views'[d].version = group'.version /\ views'[d].seq = group'.seq
             /\ views'[d].wire = group'.wire
      /\ d \notin Active(members') =>
             /\ views'[d].seq = views[d].seq
             /\ views'[d].status = IF views[d].status = "none" THEN "none" ELSE "inactive"
  BY <1>2, RefreshedView
<1>4. /\ d \in Agents
      /\ d \in Active(members) <=> ActiveAfter(log, d, n)
      /\ d \in Active(members') <=> ActiveAfter(log', d, n + 1)
  BY DEF Local, LocalInv, RosterInv, RosterFollowsLog
<1>5. CASE d \in Active(members')
  BY <1>3, <1>5
<1>6. CASE d \notin Active(members')
  <2>1. CASE views[d].status = "none"
    BY <1>3, <1>6, <2>1
  <2>2. CASE views[d].status = "active"
    <3>1. views[d].seq = n /\ ActiveAfter(log, d, n)
      BY <1>4, <2>2 DEF LocalInv, LocalViewsFresh
    <3>2. ActiveAfter(log', d, n) /\ ~ActiveAfter(log', d, n + 1)
      BY <1>4, <1>6, <3>1
    <3>3. QED
      BY <1>3, <1>6, <2>2, <3>1, <3>2
  <2>3. CASE views[d].status = "inactive"
    <3>1. /\ ActiveAfter(log, d, views[d].seq) /\ ~ActiveAfter(log, d, views[d].seq + 1)
          /\ views[d].seq + 1 <= n
      BY <2>3 DEF LocalInv, LocalViewsFresh, FormerBehindHead
    <3>2. views[d].seq \in 0..n /\ views[d].seq + 1 \in 0..n
      BY <1>2, <3>1
    <3>3. ActiveAfter(log', d, views[d].seq) /\ ~ActiveAfter(log', d, views[d].seq + 1)
      BY <3>1, <3>2
    <3>4. QED
      BY <1>2, <1>3, <1>6, <2>3, <3>1, <3>3
  <2>4. QED
    BY <1>2, <2>1, <2>2, <2>3
<1>7. QED
  BY <1>5, <1>6

LEMMA LocalStep == LocalInv /\ [Next]_vars => LocalInv'
<1> SUFFICES ASSUME LocalInv, [Next]_vars
             PROVE  LocalHistoryFollowsLog' /\ LocalViewsFresh' /\ FormerBehindHead'
  BY RosterStep DEF LocalInv
<1>0. RosterInv /\ OpsInv /\ TypeInv /\ LogIsGapless /\ RosterFollowsLog'
  BY RosterStep DEF LocalInv, RosterInv, OpsInv
<1>1. CASE Commit
  <2>1. PICK r \in Requests, type \in EventTypes \ {"group-created"},
             subject, previous \in Agents \cup {NoAgent} :
               \E mem, policy : AcceptStep(r, mem, policy, type, subject, previous)
    BY <1>1 DEF Commit
  <2>2. PICK mem, policy : AcceptStep(r, mem, policy, type, subject, previous)
    BY <2>1
  <2>3. /\ Accept(r, mem, policy, type, subject, previous)
        /\ members' = mem /\ r.profile = group.wire
    BY <2>2 DEF AcceptStep, Accept, Fresh, Fence
  <2> PICK n : n = group.seq
    OBVIOUS
  <2>4. /\ n \in Nat \ {0} /\ group'.seq = n + 1
        /\ DOMAIN log = 1..n /\ DOMAIN log' = 1..(n + 1)
        /\ \A s \in 1..n : log'[s] = log[s]
        /\ log'[n + 1].type = type /\ log'[n + 1].subject = subject /\ log'[n + 1].req = r
    <3>1. LogExtended(r, type, subject, previous)
      BY <1>0, <2>3, CommitExtendsLog
    <3>2. QED
      BY <3>1 DEF LogExtended
  <2>5. \A d, s : s \in 0..n => (ActiveAfter(log', d, s) <=> ActiveAfter(log, d, s))
    BY <2>4, ActiveAfterAppend
  <2>6. \A d \in Local : d \in Active(mem) <=> ActiveAfter(log', d, n + 1)
    BY <1>0, <2>3, <2>4 DEF RosterFollowsLog, Local
  <2>7. LocalViewsFresh' /\ FormerBehindHead'
    <3>1. views' = RefreshViews(group', members')
      BY <2>3 DEF Accept
    <3>2. QED
      BY <1>0, <2>4, <2>5, <3>1, ViewsAfterEvent
  <2>8. ASSUME NEW d \in Local
        PROVE  Values(sync'[d]) = History(log', n + 1, d) /\ Increasing(sync'[d])
    <3> DEFINE told == \/ ActiveAfter(log', d, n + 1)
                       \/ r.profile = "v2" /\ type \in EndTypes /\ subject = d
    <3>1. sync'[d] = IF told THEN Append(sync[d], n + 1) ELSE sync[d]
      <4>1. sync' = SyncMembers(mem, type, subject, n + 1)
        BY <2>3 DEF Accept
      <4>2. sync'[d] = IF \/ d \in LocalMembers(mem)
                          \/ /\ group.wire = "v2" /\ type \in {"member-removed", "member-left"}
                             /\ d \in {subject} \cap Local
                       THEN Append(sync[d], n + 1) ELSE sync[d]
        BY <4>1 DEF SyncMembers
      <4>3. d \in LocalMembers(mem) <=> ActiveAfter(log', d, n + 1)
        BY <2>6 DEF LocalMembers
      <4>4. QED
        BY <2>3, <4>2, <4>3 DEF EndTypes
    <3>2. Values(sync[d]) = History(log, n, d) /\ Increasing(sync[d]) /\ sync[d] \in Seq(Nat)
      <4>1. sync[d] \in Seq(Nat)
        BY <1>0 DEF TypeInv, TypeOK
      <4>2. QED
        BY <2>4, <4>1 DEF LocalInv, LocalHistoryFollowsLog, Values, History, Increasing
    <3>3. \A s \in 1..n : s \in History(log', n + 1, d) <=> s \in History(log, n, d)
      <4>1. SUFFICES ASSUME NEW s \in 1..n
                     PROVE  s \in History(log', n + 1, d) <=> s \in History(log, n, d)
        OBVIOUS
      <4>2. s \in 0..n /\ s \in 1..(n + 1) /\ log'[s] = log[s]
        BY <2>4
      <4>3. ActiveAfter(log', d, s) <=> ActiveAfter(log, d, s)
        BY <2>5, <4>2
      <4>4. QED
        BY <4>2, <4>3 DEF History
    <3>4. n + 1 \in History(log', n + 1, d) <=> told
      BY <2>4 DEF History
    <3>5. History(log, n, d) \subseteq 1..n /\ History(log', n + 1, d) \subseteq 1..(n + 1)
      BY DEF History
    <3>6. n \in Nat /\ n + 1 \notin 1..n /\ 1..(n + 1) = (1..n) \cup {n + 1}
      BY <2>4
    <3>7. History(log', n + 1, d) =
              IF told THEN History(log, n, d) \cup {n + 1} ELSE History(log, n, d)
      <4> DEFINE I == 1..n
                 x == n + 1
                 A == History(log, n, d)
                 B == History(log', n + 1, d)
      <4>1. x \notin I /\ A \in SUBSET I /\ B \in SUBSET (I \cup {x}) /\ (x \in B <=> told)
        BY <3>4, <3>5, <3>6
      <4>2. \A s \in I : s \in B <=> s \in A
        BY <3>3
      <4> HIDE DEF I, x, A, B, told
      <4>3. B = IF x \in B THEN A \cup {x} ELSE A
        BY ONLY <4>1, <4>2
      <4>4. B = IF told THEN A \cup {x} ELSE A
        BY <4>1, <4>3
      <4>5. QED
        BY <4>4 DEF x, A, B
    <3> HIDE DEF told
    <3>8. CASE told
      <4>1. /\ Values(Append(sync[d], n + 1)) = Values(sync[d]) \cup {n + 1}
            /\ Increasing(Append(sync[d], n + 1))
        BY <3>2, <3>5, <3>6, AppendNext
      <4>2. QED
        BY <3>1, <3>2, <3>7, <3>8, <4>1
    <3>9. CASE ~told
      BY <3>1, <3>2, <3>7, <3>9
    <3>10. QED
      BY <3>8, <3>9
  <2>9. ASSUME NEW d \in Local
        PROVE  inbox'[d] = {s \in DOMAIN log' : IsMessage(log'[s]) /\ ActiveAfter(log', d, s)}
    <3> DEFINE msgs == {s \in DOMAIN log' : IsMessage(log'[s]) /\ ActiveAfter(log', d, s)}
    <3>1. inbox'[d] = IF type = "group-message-created" /\ d \in Active(mem)
                      THEN inbox[d] \cup {n + 1} ELSE inbox[d]
      BY <2>3 DEF Accept, ProjectMessage
    <3>2. inbox[d] = {s \in DOMAIN log : IsMessage(log[s]) /\ ActiveAfter(log, d, s)}
      BY DEF LocalInv, LocalHistoryFollowsLog
    <3>3. ASSUME NEW s \in 1..n
          PROVE  s \in msgs <=> s \in inbox[d]
      <4>1. s \in 0..n /\ s \in DOMAIN log /\ s \in DOMAIN log' /\ log'[s] = log[s]
        BY <2>4
      <4>2. QED
        BY <2>5, <3>2, <4>1
    <3>4. n + 1 \in msgs <=> type = "group-message-created" /\ d \in Active(mem)
      BY <2>4, <2>6 DEF IsMessage
    <3>5. inbox[d] \subseteq 1..n /\ msgs \subseteq (1..n) \cup {n + 1} /\ n + 1 \notin 1..n
      BY <2>4, <3>2
    <3> HIDE DEF msgs
    <3>6. inbox'[d] = msgs
      <4>1. msgs = IF n + 1 \in msgs THEN inbox[d] \cup {n + 1} ELSE inbox[d]
        <5> DEFINE I == 1..n
                   x == n + 1
                   A == inbox[d]
        <5>1. x \notin I /\ A \in SUBSET I /\ msgs \in SUBSET (I \cup {x})
          BY <3>5
        <5>2. \A s \in I : s \in msgs <=> s \in A
          BY <3>3
        <5> HIDE DEF I, x, A
        <5>3. msgs = IF x \in msgs THEN A \cup {x} ELSE A
          BY ONLY <5>1, <5>2
        <5>4. QED
          BY <5>3 DEF x, A
      <4>2. QED
        BY <3>1, <3>4, <4>1
    <3>7. QED
      BY <3>6 DEF msgs
  <2>10. LocalHistoryFollowsLog'
    BY <2>4, <2>8, <2>9 DEF LocalHistoryFollowsLog, Values, History, Increasing
  <2>11. QED
    BY <2>7, <2>10
<1>2. ASSUME UNCHANGED <<group, members, log, sync, views, inbox>>
      PROVE  LocalHistoryFollowsLog' /\ LocalViewsFresh' /\ FormerBehindHead'
  BY <1>2 DEF LocalInv, LocalHistoryFollowsLog, LocalViewsFresh, FormerBehindHead
<1>3. Quiet \/ SettleRow => UNCHANGED <<group, members, log, sync, views, inbox>>
  BY DEF Quiet, SettleRow, tables
<1>4. CASE MoveProtocol
  <2>1. /\ UNCHANGED <<members, log, sync, inbox>>
        /\ group'.seq = group.seq /\ group'.version = group.version
        /\ \/ views' = views /\ group'.wire = group.wire
           \/ views' = RefreshViews(group', members)
    BY <1>4 DEF MoveProtocol
  <2>2. LocalHistoryFollowsLog'
    BY <2>1 DEF LocalInv, LocalHistoryFollowsLog
  <2>3. CASE views' = views /\ group'.wire = group.wire
    BY <2>1, <2>2, <2>3 DEF LocalInv, LocalViewsFresh, FormerBehindHead
  <2>4. CASE views' = RefreshViews(group', members)
    <3>1. SUFFICES ASSUME NEW d \in Local
                   PROVE  /\ views'[d].status = "active" <=> d \in Active(members)
                          /\ d \in Active(members) =>
                                 /\ views'[d].seq = group'.seq
                                 /\ views'[d].version = group'.version
                                 /\ views'[d].role = members[d].role
                                 /\ views'[d].wire = group'.wire
                          /\ views'[d].status = "inactive" =>
                                 /\ ActiveAfter(log, d, views'[d].seq)
                                 /\ ~ActiveAfter(log, d, views'[d].seq + 1)
                                 /\ views'[d].seq + 1 <= group.seq
      BY <2>1, <2>2 DEF LocalViewsFresh, FormerBehindHead
    <3>2. views \in [Local -> ViewRows] /\ views[d].status \in {"none", "active", "inactive"}
      <4>1. views \in [Local -> ViewRows]
        BY <1>0 DEF TypeInv, TypeOK
      <4>2. views[d] \in ViewRows
        BY <4>1
      <4>3. QED
        BY <4>1, <4>2 DEF ViewRows
    <3>3. /\ d \in Active(members) =>
                 /\ views'[d].status = "active" /\ views'[d].role = members[d].role
                 /\ views'[d].version = group'.version /\ views'[d].seq = group'.seq
                 /\ views'[d].wire = group'.wire
          /\ d \notin Active(members) =>
                 /\ views'[d].seq = views[d].seq
                 /\ views'[d].status = IF views[d].status = "none" THEN "none" ELSE "inactive"
      BY <2>4, <3>2, RefreshedView
    <3>4. /\ views[d].status = "active" <=> d \in Active(members)
          /\ views[d].status = "inactive" =>
                 /\ ActiveAfter(log, d, views[d].seq) /\ ~ActiveAfter(log, d, views[d].seq + 1)
                 /\ views[d].seq + 1 <= group.seq
      BY DEF LocalInv, LocalViewsFresh, FormerBehindHead
    <3>5. QED
      BY <3>2, <3>3, <3>4
  <2>5. QED
    BY <2>1, <2>2, <2>3, <2>4
<1>5. QED
  BY <1>0, <1>1, <1>2, <1>3, <1>4, StepKinds

LEMMA LocalInit == Init => LocalInv
<1> SUFFICES ASSUME Init PROVE LocalHistoryFollowsLog /\ LocalViewsFresh /\ FormerBehindHead
  BY RosterInit DEF LocalInv
<1>1. /\ DOMAIN log = {1} /\ log[1].type = "group-created" /\ group.seq = 1 /\ group.version = 1
      /\ group.wire = InitialWire
      /\ DOMAIN members = DOMAIN InitialRoles
      /\ \A d \in DOMAIN members : members[d].status = "active" /\ members[d].role = InitialRoles[d]
  BY DEF Init
<1>2. \A d : ActiveAfter(log, d, 1) <=> d \in DOMAIN InitialRoles
  BY <1>1 DEF ActiveAfter, Activates, Deactivates, EndTypes
<1>3. Active(members) = DOMAIN InitialRoles
  BY <1>1 DEF Active
<1>4. ASSUME NEW d \in Local
      PROVE  /\ {sync[d][i] : i \in DOMAIN sync[d]} =
                    {s \in DOMAIN log : \/ ActiveAfter(log, d, s)
                                        \/ s # 1 /\ log[s].req.profile = "v2"
                                           /\ log[s].type \in EndTypes /\ log[s].subject = d}
             /\ \A i, j \in DOMAIN sync[d] : i < j => sync[d][i] < sync[d][j]
             /\ inbox[d] = {s \in DOMAIN log : IsMessage(log[s]) /\ ActiveAfter(log, d, s)}
  <2>1. sync[d] = (IF d \in DOMAIN InitialRoles THEN <<1>> ELSE <<>>) /\ inbox[d] = {}
    BY DEF Init
  <2>2. ~IsMessage(log[1])
    BY <1>1 DEF IsMessage
  <2>3. CASE d \in DOMAIN InitialRoles
    <3>1. sync[d] = <<1>> /\ DOMAIN <<1>> = {1} /\ <<1>>[1] = 1
      BY <2>1, <2>3
    <3>2. QED
      BY <1>1, <1>2, <2>1, <2>2, <2>3, <3>1
  <2>4. CASE d \notin DOMAIN InitialRoles
    <3>1. sync[d] = <<>> /\ DOMAIN <<>> = {}
      BY <2>1, <2>4
    <3>2. QED
      BY <1>1, <1>2, <2>1, <2>2, <2>4, <3>1
  <2>5. QED
    BY <2>3, <2>4
<1>5. ASSUME NEW d \in Local
      PROVE  /\ views[d].status = IF d \in DOMAIN InitialRoles THEN "active" ELSE "none"
             /\ d \in DOMAIN InitialRoles =>
                    /\ views[d].seq = 1 /\ views[d].version = 1
                    /\ views[d].role = InitialRoles[d] /\ views[d].wire = InitialWire
  BY DEF Init
<1>6. LocalHistoryFollowsLog
  BY <1>4 DEF LocalHistoryFollowsLog
<1>7. LocalViewsFresh /\ FormerBehindHead
  BY <1>1, <1>3, <1>5 DEF LocalViewsFresh, FormerBehindHead
<1>8. QED
  BY <1>6, <1>7

\* What a local member sees, the list of events, the messages and the view of
\* the group, is what the log says of its memberships, across leaving,
\* rejoining, rebinding and the move to v2.
THEOREM LocalCopiesTrue == Spec => []LocalCopiesFollowLog
<1>1. LocalInv => LocalCopiesFollowLog
  BY DEF LocalInv, LocalCopiesFollowLog
<1>2. QED
  BY <1>1, LocalInit, LocalStep, PTL DEF Spec
-----------------------------------------------------------------------------
(* The shape of a stream: what was delivered, the row that is tried, and the *)
(* rows that wait behind it.                                                 *)

\* What a step may do to the outbox: rows stay, and the only change is one
\* attempt at a row of the batch that was still to be sent.
Attempted ==
    \A k \in DOMAIN outbox :
        /\ k \in DOMAIN outbox'
        /\ \/ outbox'[k] = outbox[k]
           \/ /\ k \in batch /\ outbox[k].status \in Unsettled
              /\ outbox'[k].attempts = outbox[k].attempts + 1
              /\ outbox'[k].status # "pending"

\* Rows are born pending.
BornPending ==
    \A k \in DOMAIN outbox' \ DOMAIN outbox : outbox'[k].status = "pending"

LEMMA OutboxStep == TypeInv /\ [Next]_vars => Attempted /\ BornPending
<1> SUFFICES ASSUME TypeInv, [Next]_vars PROVE Attempted /\ BornPending
  OBVIOUS
<1>1. CASE Commit
  <2>1. PICK n, targets : outbox' = Enqueue(n, targets)
    BY <1>1 DEF Commit, AcceptStep, Accept
  <2>2. /\ \A k \in DOMAIN outbox : k \in DOMAIN outbox' /\ outbox'[k] = outbox[k]
        /\ \A k \in DOMAIN outbox' \ DOMAIN outbox : outbox'[k].status = "pending"
    BY <2>1 DEF Enqueue
  <2>3. QED
    BY <2>2 DEF Attempted, BornPending
<1>2. CASE UNCHANGED outbox
  BY <1>2 DEF Attempted, BornPending
<1>3. CASE SettleRow
  <2>1. CASE UNCHANGED outbox
    BY <1>2, <2>1
  <2>2. CASE ~UNCHANGED outbox
    <3>1. PICK k \in batch, row \in OutboxRows :
            /\ outbox[k].status \in Unsettled
            /\ row.status # "pending" /\ row.attempts = outbox[k].attempts + 1
            /\ outbox' = [outbox EXCEPT ![k] = row]
      BY <1>3, <2>2 DEF SettleRow
    <3>2. /\ k \in DOMAIN outbox /\ DOMAIN outbox' = DOMAIN outbox /\ outbox'[k] = row
          /\ \A j \in DOMAIN outbox \ {k} : outbox'[j] = outbox[j]
      BY <3>1 DEF TypeInv, TypeOK
    <3>3. QED
      BY <3>1, <3>2 DEF Attempted, BornPending
  <2>3. QED
    BY <2>1, <2>2
<1>4. QED
  BY <1>1, <1>2, <1>3, StepKinds DEF Quiet, MoveProtocol, tables

\* A row of the outbox is never lost and never reset: it changes only by an attempt
\* that is counted, and once it is delivered or given up no request, retry, restart
\* or migration touches it again (_enqueue, the outbox worker).
THEOREM RowsOnlyAttempted == Spec => [][Attempted]_vars
<1>1. TypeInv /\ [Next]_vars => [Attempted]_vars
  BY OutboxStep
<1>2. Init => TypeInv
  BY InitTypes
<1>3. QED
  BY <1>1, <1>2, TypeInvStep, PTL DEF Spec

\* A row was tried unless it is pending.
Tried == \A k \in DOMAIN outbox : outbox[k].status # "pending" => outbox[k].attempts > 0

HeadInv == StreamInv /\ Tried

LEMMA HeadStep == HeadInv /\ [Next]_vars => HeadInv'
<1> SUFFICES ASSUME HeadInv, [Next]_vars PROVE Tried'
  BY StreamStep DEF HeadInv
<1>1. Attempted /\ BornPending /\ TypeInv
  BY OutboxStep DEF HeadInv, StreamInv
<1>2. ASSUME NEW k \in DOMAIN outbox', outbox'[k].status # "pending"
      PROVE  outbox'[k].attempts > 0
  <2>1. k \in DOMAIN outbox
    BY <1>1, <1>2 DEF BornPending
  <2>2. outbox[k].attempts \in Nat
    BY <1>1, <2>1 DEF TypeInv, TypeOK, OutboxRows
  <2>3. CASE outbox'[k] = outbox[k]
    BY <1>2, <2>1, <2>3 DEF HeadInv, Tried
  <2>4. CASE outbox'[k].attempts = outbox[k].attempts + 1
    BY <2>2, <2>4
  <2>5. QED
    BY <1>1, <2>1, <2>3, <2>4 DEF Attempted
<1>3. QED
  BY <1>2 DEF Tried

LEMMA LeastSeq ==
    ASSUME NEW S \in SUBSET Nat, S # {}
    PROVE  \E n \in S : \A m \in S : n <= m
<1>1. PICK n \in S : \A m \in S : ~(<<m, n>> \in OpToRel(<, Nat))
  BY WFMin, NatLessThanWellFounded
<1>2. \A m \in S : ~(m < n)
  BY <1>1 DEF OpToRel
<1>3. QED
  BY <1>2

\* Row k is the head of its stream: it may be sent or was given up; what is
\* in front of it was delivered, what is behind it never tried.
IsHead(k) ==
    /\ Eligible(k) \/ outbox[k].status = "dead"
    /\ \A j \in DOMAIN outbox : j[2] = k[2] /\ j # k =>
          \/ j[1] < k[1] /\ outbox[j].status = "delivered"
          \/ j[1] > k[1] /\ outbox[j].status = "pending" /\ j \notin batch

StreamsHaveHeads ==
    \A d \in Remote :
        (\E k \in DOMAIN outbox : k[2] = d /\ outbox[k].status # "delivered") =>
            \E k \in DOMAIN outbox : k[2] = d /\ IsHead(k)

LEMMA HeadExists ==
    ASSUME HeadInv, NEW i \in DOMAIN outbox, outbox[i].status # "delivered"
    PROVE  \E k \in DOMAIN outbox : k[2] = i[2] /\ IsHead(k)
<1>1. /\ \A j \in DOMAIN outbox : j \in Nat \X Remote /\ outbox[j] \in OutboxRows
      /\ TriedBehindDelivered /\ Tried
  BY DEF HeadInv, StreamInv, TypeInv, TypeOK
<1> DEFINE Open == {j \in DOMAIN outbox : j[2] = i[2] /\ outbox[j].status # "delivered"}
           Seqs == {j[1] : j \in Open}
<1>2. i \in Open /\ Seqs \in SUBSET Nat /\ Seqs # {}
  BY <1>1
<1>3. PICK n \in Seqs : \A m \in Seqs : n <= m
  <2> HIDE DEF Seqs
  <2>1. QED
    BY <1>2, LeastSeq
<1>4. PICK k \in Open : n = k[1]
  BY <1>3
<1>5. /\ k \in DOMAIN outbox /\ k[2] = i[2] /\ outbox[k].status # "delivered" /\ k[1] \in Nat
      /\ outbox[k].status \in {"pending", "retry", "delivered", "dead"}
  BY <1>1, <1>4 DEF OutboxRows
<1>6. ASSUME NEW j \in DOMAIN outbox, j[2] = k[2], j[1] < k[1]
      PROVE  outbox[j].status = "delivered"
  <2>1. j[1] \in Nat /\ (j \in Open => k[1] <= j[1])
    BY <1>1, <1>3, <1>4
  <2>2. j \notin Open
    BY <1>5, <1>6, <2>1
  <2>3. QED
    BY <1>5, <1>6, <2>2
<1>7. Eligible(k) \/ outbox[k].status = "dead"
  BY <1>5, <1>6 DEF Eligible, Unsettled
<1>8. ASSUME NEW j \in DOMAIN outbox, j[2] = k[2], j # k
      PROVE  \/ j[1] < k[1] /\ outbox[j].status = "delivered"
             \/ j[1] > k[1] /\ outbox[j].status = "pending" /\ j \notin batch
  <2>1. j[1] \in Nat /\ j[1] # k[1]
    BY <1>1, <1>5, <1>8
  <2>2. CASE j[1] < k[1]
    BY <1>6, <1>8, <2>2
  <2>3. CASE j[1] > k[1]
    <3>1. k[1] < j[1] /\ k[2] = j[2]
      BY <1>5, <1>8, <2>1, <2>3
    <3>2. ~(outbox[j].attempts > 0 \/ j \in batch)
      BY <1>1, <1>5, <1>8, <3>1 DEF TriedBehindDelivered
    <3>3. outbox[j].status = "pending"
      BY <1>1, <1>8, <3>2 DEF Tried
    <3>4. QED
      BY <2>3, <3>2, <3>3
  <2>4. QED
    BY <1>5, <2>1, <2>2, <2>3
<1>9. IsHead(k)
  BY <1>7, <1>8 DEF IsHead
<1>10. QED
  BY <1>5, <1>9

\* A stream is never stuck without a reason: while a notification of a target is not
\* delivered, one row is the head of its stream - it may be sent, or it was given up -
\* and every row behind it is still untried, so at most one row per target is given up
\* (_drain_group_outbox_locked).
THEOREM HeadsExist == Spec => []StreamsHaveHeads
<1>1. Init => HeadInv
  <2>1. Init => OutboxBehindHead /\ TriedBehindDelivered /\ Tried
    BY DEF Init, OutboxBehindHead, TriedBehindDelivered, Tried
  <2>2. QED
    BY <2>1, InitTypes DEF HeadInv, StreamInv
<1>2. HeadInv => StreamsHaveHeads
  BY HeadExists DEF StreamsHaveHeads
<1>3. QED
  BY <1>1, <1>2, HeadStep, PTL DEF Spec
=============================================================================
