-------------------------- MODULE MemberHome_proofs --------------------------
(***************************************************************************)
(* What a Member Home shows and stores.  The proofs are about groups whose *)
(* memberships do not move between DIDs: v2 groups, and v1 groups without  *)
(* group.rebind_member.                                                    *)
(***************************************************************************)
EXTENDS GroupFederation_proofs

Rebindless == InitialWire = "v2" \/ \A r \in Requests : r.method # "group.rebind_member"
-----------------------------------------------------------------------------
(* Events and the requests that caused them.                                *)

Genesis == log[1].type = "group-created" /\ log[1].req = NoRequest

QuietTypes == {"group-policy-updated", "group-profile-updated", "group-message-created"}

EventsOfRequests ==
    \A s \in DOMAIN log \ {1} :
        LET e == log[s] IN
        /\ e.type # "group-created"
        /\ e.type = "member-credential-rebound" <=> e.req.method = "group.rebind_member"
        /\ e.type \in EndTypes <=> e.req.method \in {"group.leave", "group.remove"}
        /\ e.type \in EndTypes => e.subject = Departed(e.req)
        /\ e.type \in QuietTypes => e.subject = NoAgent

\* A group that is created with the v2 profile never sees another.
AlwaysV2 ==
    InitialWire = "v2" =>
        /\ group.wire = "v2"
        /\ \A s \in DOMAIN log \ {1} :
               log[s].req.profile = "v2" /\ log[s].req.method # "group.rebind_member"

LogInv == AudienceInv /\ Genesis /\ EventsOfRequests /\ AlwaysV2

LEMMA WireStays ==
    ASSUME TypeInv, Migrate
    PROVE  group'.wire = group.wire \/ group'.wire = "v2"
<1> USE DEF TypeInv, TypeOK
<1>1. CASE Prepare
    BY <1>1 DEF Prepare
<1>2. CASE Cancel
    BY <1>2 DEF Cancel
<1>3. CASE BeginApply
    BY <1>3 DEF BeginApply, tables
<1>4. ASSUME NEW c \in commands, FinishPrepare(c) \/ FinishApply(c) \/ AbandonCommand(c)
      PROVE  group'.wire = group.wire \/ group'.wire = "v2"
    BY <1>4 DEF FinishPrepare, FinishApply, AbandonCommand, tables
<1> QED
    BY <1>1, <1>2, <1>3, <1>4 DEF Migrate

LEMMA LogInvStep == LogInv /\ [Next]_vars => LogInv'
<1> SUFFICES ASSUME LogInv, [Next]_vars PROVE Genesis' /\ EventsOfRequests' /\ AlwaysV2'
    BY AudienceStep DEF LogInv
<1>0. TypeInv /\ LogIsGapless /\ Genesis /\ EventsOfRequests /\ AlwaysV2
    BY DEF LogInv, AudienceInv, RosterInv, OpsInv
<1>1. CASE Commit
    <2>1. PICK r \in Requests, type \in EventTypes \ {"group-created"},
               subject, previous \in Agents \cup {NoAgent} :
                 \E mem, policy : AcceptStep(r, mem, policy, type, subject, previous)
        BY <1>1 DEF Commit
    <2>2. PICK mem, policy : AcceptStep(r, mem, policy, type, subject, previous)
        BY <2>1
    <2>3. /\ Accept(r, mem, policy, type, subject, previous)
          /\ EventOf(r, mem, type, subject) /\ RosterChange(mem, type, subject, previous)
          /\ r.profile = group.wire /\ ValidShape(r)
        BY <2>2 DEF AcceptStep, Fresh, Fence
    <2> PICK n : n = group.seq
        OBVIOUS
    <2>4. /\ n \in Nat \ {0}
          /\ DOMAIN log = 1..n /\ DOMAIN log' = 1..(n + 1)
          /\ \A s \in 1..n : log'[s] = log[s]
          /\ log'[n + 1].type = type /\ log'[n + 1].subject = subject /\ log'[n + 1].req = r
        <3>1. LogExtended(r, type, subject, previous)
            BY <1>0, <2>3, CommitExtendsLog
        <3> QED  BY <3>1 DEF LogExtended
    <2>5. group'.wire = group.wire
        BY <1>0, <2>3 DEF Accept, TypeInv, TypeOK
    <2>6. Genesis'
        BY <1>0, <2>4 DEF Genesis
    <2>7. EventsOfRequests'
        <3> SUFFICES ASSUME NEW s \in DOMAIN log' \ {1}
                     PROVE  LET e == log'[s] IN
                            /\ e.type # "group-created"
                            /\ e.type = "member-credential-rebound" <=>
                                   e.req.method = "group.rebind_member"
                            /\ e.type \in EndTypes <=> e.req.method \in {"group.leave", "group.remove"}
                            /\ e.type \in EndTypes => e.subject = Departed(e.req)
                            /\ e.type \in QuietTypes => e.subject = NoAgent
            BY DEF EventsOfRequests, Departed, EndTypes, QuietTypes
        <3>1. CASE s = n + 1
            BY <2>3, <2>4, <3>1 DEF EventOf, RosterChange, QuietTypes
        <3>2. CASE s # n + 1
            <4>1. s \in DOMAIN log \ {1} /\ log'[s] = log[s]
                BY <2>4, <3>2
            <4> QED  BY <1>0, <4>1 DEF EventsOfRequests
        <3> QED  BY <3>1, <3>2
    <2>8. AlwaysV2'
        <3> SUFFICES ASSUME InitialWire = "v2"
                     PROVE  /\ group'.wire = "v2"
                            /\ \A s \in DOMAIN log' \ {1} :
                                   /\ log'[s].req.profile = "v2"
                                   /\ log'[s].req.method # "group.rebind_member"
            BY DEF AlwaysV2
        <3>1. group.wire = "v2" /\ r.profile = "v2" /\ r.method # "group.rebind_member"
            BY <1>0, <2>3 DEF AlwaysV2, ValidShape
        <3>2. ASSUME NEW s \in DOMAIN log' \ {1}
              PROVE  log'[s].req.profile = "v2" /\ log'[s].req.method # "group.rebind_member"
            <4>1. CASE s = n + 1
                BY <2>4, <3>1, <4>1
            <4>2. CASE s # n + 1
                <5>1. s \in DOMAIN log \ {1} /\ log'[s] = log[s]
                    BY <2>4, <4>2
                <5> QED  BY <1>0, <5>1 DEF AlwaysV2
            <4> QED  BY <4>1, <4>2
        <3> QED  BY <2>5, <3>1, <3>2
    <2> QED  BY <2>6, <2>7, <2>8
<1>2. CASE Quiet \/ SettleRow
    <2>1. UNCHANGED <<group, log>>
        BY <1>2 DEF Quiet, SettleRow, tables
    <2> QED  BY <1>0, <2>1 DEF Genesis, EventsOfRequests, AlwaysV2
<1>3. CASE MoveProtocol
    <2>1. UNCHANGED log /\ (group'.wire = group.wire \/ group'.wire = "v2")
        BY <1>0, <1>3, WireStays DEF MoveProtocol
    <2> QED  BY <1>0, <2>1 DEF Genesis, EventsOfRequests, AlwaysV2
<1> QED
    BY <1>0, <1>1, <1>2, <1>3, StepKinds

LEMMA LogInvInit == Init => LogInv
<1> SUFFICES ASSUME Init PROVE LogInv
    OBVIOUS
<1>1. AudienceFollowsLog /\ Genesis /\ EventsOfRequests /\ AlwaysV2
    BY DEF Init, AudienceFollowsLog, Genesis, EventsOfRequests, AlwaysV2
<1> QED
    BY <1>1, RosterInit, MigrationInit DEF LogInv, AudienceInv

\* The request that an answer is for, as the log has it.
LEMMA AnswersOnLog ==
    ASSUME LogInv, NEW a \in answers
    PROVE  /\ a \in Results /\ a.seq \in DOMAIN log \ {1}
           /\ log[a.seq].req = a.req /\ log[a.seq].version = a.version
<1>1. a \in Results /\ a.seq \in DOMAIN log /\ log[a.seq].req = a.req /\ log[a.seq].version = a.version
    BY DEF LogInv, AudienceInv, RosterInv, OpsInv, TypeInv, TypeOK, AnswersAreReceipts
<1>2. a.req \in Requests
    BY <1>1 DEF Results
<1>3. a.seq # 1
    BY <1>1, <1>2, AgentsAssumption DEF LogInv, Genesis
<1> QED
    BY <1>1, <1>3

LEMMA NoRebindAnswer ==
    ASSUME Rebindless, LogInv, NEW a \in answers
    PROVE  ~RebindAnswer(a)
<1>1. a \in Results /\ a.seq \in DOMAIN log \ {1} /\ log[a.seq].req = a.req
    BY AnswersOnLog
<1>2. a.req \in Requests
    BY <1>1 DEF Results
<1>3. a.req.method # "group.rebind_member"
    BY <1>1, <1>2 DEF Rebindless, LogInv, AlwaysV2
<1> QED
    BY <1>3 DEF RebindAnswer
-----------------------------------------------------------------------------
(* The messages of a home.                                                  *)

\* What inbound_peer_events has of a message is in group_message_views.
SeenStored ==
    \A d \in Remote : \A s \in seen[d] :
        s \in DOMAIN log /\ (IsMessage(log[s]) => s \in mailbox[d])

\* So is a message that the worker has been told is accepted.
AcceptedStored ==
    \A k \in batch : posted[k] = "accepted" /\ IsMessage(log[k[1]]) => k[1] \in mailbox[k[2]]

DeliveredStored ==
    \A k \in DOMAIN outbox :
        outbox[k].status = "delivered" /\ IsMessage(log[k[1]]) => k[1] \in mailbox[k[2]]

\* A home stores what was addressed to it.
MailboxRows ==
    \A d \in Remote : \A s \in mailbox[d] : <<s, d>> \in DOMAIN outbox /\ IsMessage(log[s])

StoredInv ==
    /\ LogInv /\ ViewInv /\ FeedInv
    /\ mailbox \in [Remote -> SUBSET Nat] /\ DOMAIN posted = batch
    /\ SeenStored /\ AcceptedStored /\ DeliveredStored /\ MailboxRows

\* The host's own steps add rows that are still to be sent, and nothing else.
LEMMA HostStepRows ==
    ASSUME TypeInv, HostStep
    PROVE  /\ UNCHANGED batch
           /\ DOMAIN outbox \subseteq DOMAIN outbox'
           /\ \A k \in DOMAIN outbox' :
                  IF k \in DOMAIN outbox THEN outbox'[k] = outbox[k]
                  ELSE outbox'[k].status = "pending"
<1>1. UNCHANGED batch
    <2>1. CASE Serve
        BY <2>1 DEF Serve, PrepareMembership, PrepareRebind, EndMembership, UpdateGroup, Send, Replay
    <2>2. CASE Proceed
        BY <2>2 DEF Proceed, CommitMembership, CommitRebind, AbandonRequest
    <2>3. CASE Migrate
        BY <2>3, MigrateMoves DEF MoveProtocol
    <2>4. CASE \E h \in Handles, d \in Agents : RebindHandle(h, d)
        BY <2>4 DEF RebindHandle
    <2> QED  BY <2>1, <2>2, <2>3, <2>4 DEF HostStep
<1>2. [Next]_vars
    BY DEF HostStep, Next
<1>3. CASE Commit
    <2>1. PICK targets, n : outbox' = Enqueue(n, targets)
        BY <1>3 DEF Commit, AcceptStep, Accept
    <2> QED  BY <1>1, <2>1 DEF Enqueue
<1>4. CASE SettleRow
    BY <1>1, <1>4 DEF SettleRow
<1>5. CASE Quiet \/ MoveProtocol
    <2>1. UNCHANGED outbox
        BY <1>5 DEF Quiet, MoveProtocol, tables
    <2> QED  BY <1>1, <2>1
<1> QED
    BY <1>2, <1>3, <1>4, <1>5, StepKinds

\* What was stored stays stored while the host goes on.
LEMMA StoredStays ==
    ASSUME StoredInv, LogInv', ViewInv', FeedInv', LogKept, UNCHANGED <<seen, mailbox>>,
           DOMAIN outbox \subseteq DOMAIN outbox'
    PROVE  mailbox' \in [Remote -> SUBSET Nat] /\ SeenStored' /\ MailboxRows'
<1>1. /\ seen \in [Remote -> SUBSET Nat] /\ SeenStored /\ MailboxRows
      /\ \A k \in DOMAIN outbox : k[1] \in DOMAIN log
    BY DEF StoredInv, FeedInv, ViewInv, HostFacts, RowsOnLog
<1>2. SeenStored'
    BY <1>1 DEF SeenStored, LogKept, IsMessage
<1>3. MailboxRows'
    <2> SUFFICES ASSUME NEW d \in Remote, NEW s \in mailbox[d]
                 PROVE  <<s, d>> \in DOMAIN outbox' /\ log'[s].type = "group-message-created"
        BY DEF MailboxRows, IsMessage
    <2>1. <<s, d>> \in DOMAIN outbox /\ log[s].type = "group-message-created"
        BY <1>1 DEF MailboxRows, IsMessage
    <2>2. <<s, d>>[1] \in DOMAIN log
        BY <1>1, <2>1
    <2>3. log'[s] = log[s]
        BY <2>2 DEF LogKept
    <2> QED  BY <2>1, <2>3
<1> QED
    BY <1>2, <1>3 DEF StoredInv

LEMMA HandleStores ==
    ASSUME StoredInv, NEW k \in batch, Handle(k)
    PROVE  /\ mailbox' \in [Remote -> SUBSET Nat] /\ DOMAIN posted' = batch'
           /\ SeenStored' /\ AcceptedStored' /\ DeliveredStored' /\ MailboxRows'
<1> PICK s, d : s = k[1] /\ d = k[2]
    OBVIOUS
<1> DEFINE v == Verdict(d, s)
<1>1. k \in DOMAIN outbox /\ s \in DOMAIN log /\ s \in Nat /\ d \in Remote /\ k = <<s, d>>
    BY DEF StoredInv, ViewInv, HostFacts, OpsInv, TypeInv, TypeOK, RowsOnLog
<1>2. UNCHANGED <<log, outbox, batch>>
    BY DEF Handle, vars, tables
<1>3. /\ mailbox \in [Remote -> SUBSET Nat] /\ seen \in [Remote -> SUBSET Nat]
      /\ DOMAIN posted = batch
      /\ SeenStored /\ AcceptedStored /\ DeliveredStored /\ MailboxRows
    BY DEF StoredInv, FeedInv
<1>4. /\ DOMAIN posted' = batch'
      /\ \A j \in batch : posted'[j] = IF j = k THEN IF v = "rejected" THEN "rejected" ELSE "accepted"
                                       ELSE posted[j]
    BY <1>2, <1>3 DEF Handle
<1>5. v \in {"rejected", "duplicate", "consumed", "applied"}
    BY DEF Verdict, StateVerdict, MessageVerdict
<1>6. IsMessage(log[s]) => v # "consumed"
    BY DEF Verdict, MessageVerdict
<1>7. v = "duplicate" => s \in seen[d]
    BY DEF Verdict, StateVerdict, MessageVerdict
<1>8. seen' = IF v \in {"applied", "consumed"} THEN [seen EXCEPT ![d] = @ \cup {s}] ELSE seen
    BY DEF Handle
<1>9. mailbox' = IF v = "applied" /\ IsMessage(log[s]) THEN [mailbox EXCEPT ![d] = @ \cup {s}]
                 ELSE mailbox
    BY DEF Handle, ApplyMessage, ApplyState
<1> HIDE DEF v
<1>10. mailbox' \in [Remote -> SUBSET Nat] /\ \A e \in Remote : mailbox[e] \subseteq mailbox'[e]
    BY <1>1, <1>3, <1>9
<1>11. v # "rejected" /\ IsMessage(log[s]) => s \in mailbox'[d]
    <2>1. CASE v = "applied"
        BY <1>1, <1>3, <1>9, <2>1
    <2>2. CASE v = "duplicate"
        BY <1>1, <1>3, <1>7, <1>10, <2>2 DEF SeenStored
    <2> QED  BY <1>5, <1>6, <2>1, <2>2
<1>12. SeenStored'
    <2> SUFFICES ASSUME NEW e \in Remote, NEW u \in seen'[e]
                 PROVE  u \in DOMAIN log /\ (IsMessage(log[u]) => u \in mailbox'[e])
        BY <1>2 DEF SeenStored
    <2>1. CASE u \in seen[e]
        BY <1>3, <1>10, <2>1 DEF SeenStored
    <2>2. CASE u \notin seen[e]
        <3>1. u = s /\ e = d /\ v # "rejected"
            BY <1>3, <1>8, <2>2
        <3> QED  BY <1>1, <1>11, <3>1
    <2> QED  BY <2>1, <2>2
<1>13. AcceptedStored'
    <2> SUFFICES ASSUME NEW j \in batch, posted'[j] = "accepted", IsMessage(log[j[1]])
                 PROVE  j[1] \in mailbox'[j[2]]
        BY <1>2 DEF AcceptedStored
    <2>0. j[2] \in Remote
        BY DEF StoredInv, LogInv, AudienceInv, RosterInv, OpsInv, TypeInv, TypeOK
    <2>1. CASE j = k
        BY <1>4, <1>11, <2>1
    <2>2. CASE j # k
        BY <1>3, <1>4, <1>10, <2>0, <2>2 DEF AcceptedStored
    <2> QED  BY <2>1, <2>2
<1>14. DeliveredStored'
    <2> SUFFICES ASSUME NEW j \in DOMAIN outbox, outbox[j].status = "delivered", IsMessage(log[j[1]])
                 PROVE  j[1] \in mailbox'[j[2]]
        BY <1>2 DEF DeliveredStored
    <2>1. j[2] \in Remote
        BY DEF StoredInv, LogInv, AudienceInv, RosterInv, OpsInv, TypeInv, TypeOK
    <2> QED  BY <1>3, <1>10, <2>1 DEF DeliveredStored
<1>15. MailboxRows'
    <2> SUFFICES ASSUME NEW e \in Remote, NEW u \in mailbox'[e]
                 PROVE  <<u, e>> \in DOMAIN outbox /\ IsMessage(log[u])
        BY <1>2 DEF MailboxRows
    <2>1. CASE u \in mailbox[e]
        BY <1>3, <2>1 DEF MailboxRows
    <2>2. CASE u \notin mailbox[e]
        <3>1. u = s /\ e = d /\ IsMessage(log[s])
            BY <1>3, <1>9, <2>2
        <3> QED  BY <1>1, <3>1
    <2> QED  BY <2>1, <2>2
<1> QED
    BY <1>4, <1>10, <1>12, <1>13, <1>14, <1>15

\* The worker marks a row: delivered only if the home accepted it.
LEMMA SettleStores ==
    ASSUME StoredInv, LogInv', ViewInv', FeedInv', NEW k \in batch, SettlePosted(k)
    PROVE  /\ mailbox' \in [Remote -> SUBSET Nat] /\ DOMAIN posted' = batch'
           /\ SeenStored' /\ AcceptedStored' /\ DeliveredStored' /\ MailboxRows'
<1>1. /\ UNCHANGED <<log, seen, mailbox>> /\ LogKept
      /\ batch' = batch \ {k} /\ posted' = [j \in batch \ {k} |-> posted[j]]
    BY DEF SettlePosted, MarkDelivered, MarkFailed, homeVars, LogKept
<1>2. outbox \in [DOMAIN outbox -> OutboxRows] /\ k \in DOMAIN outbox
    BY DEF StoredInv, LogInv, AudienceInv, RosterInv, OpsInv, TypeInv, TypeOK
<1>3. /\ DOMAIN outbox' = DOMAIN outbox
      /\ \A j \in DOMAIN outbox \ {k} : outbox'[j] = outbox[j]
      /\ outbox'[k].status = "delivered" => posted[k] = "accepted" \/ outbox[k].status = "delivered"
    <2>1. CASE posted[k] = "accepted" /\ MarkDelivered(k)
        BY <1>2, <2>1 DEF MarkDelivered
    <2>2. CASE MarkFailed(k, FALSE)
        <3>1. AfterFailure(outbox[k], FALSE).status # "delivered"
            BY DEF AfterFailure
        <3> QED  BY <1>2, <2>2, <3>1 DEF MarkFailed
    <2> QED  BY <2>1, <2>2 DEF SettlePosted
<1>4. AcceptedStored /\ DeliveredStored
    BY DEF StoredInv
<1>5. AcceptedStored'
    BY <1>1, <1>4 DEF AcceptedStored
<1>6. DeliveredStored'
    <2> SUFFICES ASSUME NEW j \in DOMAIN outbox, outbox'[j].status = "delivered", IsMessage(log[j[1]])
                 PROVE  j[1] \in mailbox[j[2]]
        BY <1>1, <1>3 DEF DeliveredStored
    <2>1. CASE j = k
        BY <1>3, <1>4, <2>1 DEF AcceptedStored, DeliveredStored
    <2>2. CASE j # k
        BY <1>3, <1>4, <2>2 DEF DeliveredStored
    <2> QED  BY <2>1, <2>2
<1> QED
    BY <1>1, <1>3, <1>5, <1>6, StoredStays

LEMMA StoredStep ==
    ASSUME Rebindless, StoredInv, [FedNext]_fedVars
    PROVE  StoredInv'
<1>1. LogInv' /\ ViewInv' /\ FeedInv' /\ LogKept
    BY ComposedStep, LogInvStep, ViewStep, FeedStep, HostFactsStep DEF StoredInv, ViewInv
<1>2. /\ mailbox \in [Remote -> SUBSET Nat] /\ DOMAIN posted = batch
      /\ SeenStored /\ AcceptedStored /\ DeliveredStored /\ MailboxRows
      /\ batch \subseteq DOMAIN outbox /\ TypeInv
      /\ \A k \in DOMAIN outbox : k[1] \in DOMAIN log
    BY DEF StoredInv, ViewInv, HostFacts, RowsOnLog, OpsInv, TypeInv, TypeOK
<1>3. CASE UNCHANGED <<log, outbox, batch, posted, seen, mailbox>>
    <2>1. AcceptedStored' /\ DeliveredStored'
        BY <1>2, <1>3 DEF AcceptedStored, DeliveredStored
    <2> QED  BY <1>1, <1>2, <1>3, <2>1, StoredStays DEF StoredInv
<1>4. CASE HostStep
    <2>1. /\ UNCHANGED <<batch, posted, seen, mailbox>>
          /\ DOMAIN outbox \subseteq DOMAIN outbox'
          /\ \A k \in DOMAIN outbox' :
                 IF k \in DOMAIN outbox THEN outbox'[k] = outbox[k]
                 ELSE outbox'[k].status = "pending"
        BY <1>2, <1>4, HostStepRows DEF HostStep, homeVars
    <2>2. \A k \in DOMAIN outbox : log'[k[1]] = log[k[1]]
        BY <1>1, <1>2 DEF LogKept
    <2>3. AcceptedStored'
        BY <1>2, <2>1, <2>2 DEF AcceptedStored, IsMessage
    <2>4. DeliveredStored'
        BY <1>2, <2>1, <2>2 DEF DeliveredStored, IsMessage
    <2> QED  BY <1>1, <1>2, <2>1, <2>3, <2>4, StoredStays DEF StoredInv
<1>5. CASE HostRestart
    <2>1. /\ UNCHANGED <<log, outbox, seen, mailbox>>
          /\ batch' = {} /\ posted' = [k \in {} |-> "no"]
        BY <1>5 DEF HostRestart, Restart, tables, homeVars
    <2>2. AcceptedStored' /\ DeliveredStored' /\ DOMAIN posted' = batch'
        BY <1>2, <2>1 DEF AcceptedStored, DeliveredStored
    <2> QED  BY <1>1, <1>2, <2>1, <2>2, StoredStays DEF StoredInv
<1>6. ASSUME NEW rows, Select(rows)
      PROVE  StoredInv'
    <2>1. /\ UNCHANGED <<log, outbox, seen, mailbox>>
          /\ batch' = rows /\ posted' = [k \in rows |-> "no"]
        BY <1>6 DEF Select, SelectBatch, tables, homeVars
    <2>2. AcceptedStored' /\ DeliveredStored' /\ DOMAIN posted' = batch'
        BY <1>2, <2>1 DEF AcceptedStored, DeliveredStored
    <2> QED  BY <1>1, <1>2, <2>1, <2>2, StoredStays DEF StoredInv
<1>7. ASSUME NEW k \in batch, Handle(k) \/ SettlePosted(k)
      PROVE  StoredInv'
    BY <1>1, <1>7, HandleStores, SettleStores DEF StoredInv
<1>8. CASE Answer
    <2>1. PICK a \in answers : TerminalAnswer(a)
        BY <1>8, NoRebindAnswer DEF Answer, StoredInv
    <2> QED  BY <1>3, <2>1 DEF TerminalAnswer, vars, tables
<1>9. CASE Refresh
    BY <1>3, <1>9 DEF Refresh, ReadGroupRow, ReadMemberList, ApplySnapshot, AbandonRefresh, vars,
                      tables, homeVars
<1>10. CASE UNCHANGED fedVars
    BY <1>3, <1>10 DEF fedVars, vars, tables, homeVars
<1> QED
    BY <1>4, <1>5, <1>6, <1>7, <1>8, <1>9, <1>10 DEF FedNext

LEMMA StoredGood ==
    ASSUME StoredInv
    PROVE  DeliveredIsStored
<1> SUFFICES ASSUME NEW d \in Remote, NEW s \in mailbox[d]
             PROVE  IsMessage(log[s]) /\ ActiveAfter(log, d, s)
    BY DEF StoredInv, DeliveredStored, DeliveredIsStored
<1>1. IsMessage(log[s]) /\ <<s, d>> \in DOMAIN outbox
    BY DEF StoredInv, MailboxRows
<1>2. <<s, d>>[1] \in DOMAIN log \ {1}
    BY <1>1 DEF StoredInv, ViewInv, HostFacts, RowsOnLog
<1>3. d \in {e \in Remote : \/ ActiveAfter(log, e, s)
                            \/ log[s].req.profile = "v2" /\ log[s].type \in EndTypes
                               /\ log[s].subject = e}
    BY <1>1, <1>2 DEF StoredInv, LogInv, AudienceInv, AudienceFollowsLog
<1>4. log[s].type \notin EndTypes
    BY <1>1 DEF IsMessage, EndTypes
<1> QED
    BY <1>1, <1>3, <1>4

\* In a group whose memberships do not move between DIDs a message that the
\* worker counts as delivered is stored at the home, and homes store messages of
\* their agents' memberships only (inbound.py group_incoming, outbox.py).
THEOREM MessagesStored == ASSUME Rebindless PROVE FedSpec => []DeliveredIsStored
<1>1. FedInit => StoredInv
    <2>1. FedInit => /\ mailbox \in [Remote -> SUBSET Nat] /\ DOMAIN posted = batch
                     /\ SeenStored /\ AcceptedStored /\ DeliveredStored /\ MailboxRows
        BY DEF FedInit, Init, SeenStored, AcceptedStored, DeliveredStored, MailboxRows
    <2>2. FedInit => LogInv
        BY LogInvInit DEF FedInit
    <2> QED  BY <2>1, <2>2, ViewInit, FeedInit DEF StoredInv
<1>2. StoredInv /\ [FedNext]_fedVars => StoredInv'
    BY StoredStep
<1>3. StoredInv => DeliveredIsStored
    BY StoredGood
<1> QED
    BY <1>1, <1>2, <1>3, PTL DEF FedSpec
-----------------------------------------------------------------------------
(* What a home shows, in a group that was created with the v2 profile.  A    *)
(* view lags behind the host, and a roster read is pieced together from two  *)
(* reads; each says something that was true at some event at or after its    *)
(* own number.                                                               *)

RoleGiven(e, d) == IF e.type = "group-created" THEN InitialRoles[d] ELSE Role(e)

\* d is a member with this role after the first s events.
ActiveAs(events, d, s, role) ==
    \E u \in 1..s :
        /\ Activates(events[u], d) /\ RoleGiven(events[u], d) = role
        /\ \A v \in (u + 1)..s : ~Deactivates(events[v], d)

RolesFollowLog ==
    \A d \in Agents : \A role \in Roles :
        (d \in Active(members) /\ members[d].role = role) <=> ActiveAs(log, d, group.seq, role)

\* The membership a view shows.
StatusTrue(events, head, d, row) ==
    IF row.status = "active"
    THEN \E m \in row.seq..head : ActiveAs(events, d, m, row.role)
    ELSE ~ActiveAfter(events, d, row.seq)

Touches(e, d) == Activates(e, d) \/ Deactivates(e, d)

\* A roster read at event m, brought to event q: right about everybody whom no
\* event in between concerns.
RosterBetween(events, q, m, shown) ==
    \A e \in Agents :
        (\A v \in (q + 1)..m : ~Touches(events[v], e)) => (e \in shown <=> ActiveAfter(events, e, q))

\* The roster was read during the membership that the view shows.
Observing(events, d, row) ==
    /\ row.status = "active"
    /\ \A u \in 1..row.seq : ActivatesTarget(events[u], d) => u <= row.obsSeq

RosterTrue(events, head, d, row, shown) ==
    Observing(events, d, row) => \E m \in row.seq..head : RosterBetween(events, row.seq, m, shown)

TrueRow(events, head, d, row, shown) ==
    /\ row.obsSeq <= row.seq
    /\ row.status = "none" => row.obsSeq = 0
    /\ row.status # "none" =>
           StatusTrue(events, head, d, row) /\ RosterTrue(events, head, d, row, shown)

TrueSnapshot(events, head, d, snap) ==
    snap # NoSnapshot /\ snap.members # {} =>
        \E m \in snap.seq..head :
            /\ snap.members = {e \in Agents : ActiveAfter(events, e, m)}
            /\ ActiveAs(events, d, m, snap.role)

RowsTrue == \A d \in Remote : TrueRow(log, group.seq, d, home[d], roster[d])

SnapshotsTrue == \A d \in Remote : TrueSnapshot(log, group.seq, d, snapshot[d])

HomeInv ==
    /\ LogInv /\ ViewInv
    /\ roster \in [Remote -> SUBSET Agents]
    /\ RolesFollowLog /\ RowsTrue /\ SnapshotsTrue

\* The events of a v2 group.
LEMMA V2Events ==
    ASSUME InitialWire = "v2", LogInv
    PROVE  /\ group.seq \in Nat \ {0} /\ DOMAIN log = 1..group.seq
           /\ \A s \in 2..group.seq :
                 /\ log[s].req.profile = "v2"
                 /\ log[s].type \in EndTypes \cup QuietTypes \cup {"member-activated"}
                 /\ log[s].type \in QuietTypes => log[s].subject = NoAgent
                 /\ log[s].version \in Nat /\ log[s - 1].version \in Nat
                 /\ log[s].version = log[s - 1].version + (IF IsMessage(log[s]) THEN 0 ELSE 1)
                 /\ \A d : Activates(log[s], d) <=> ActivatesTarget(log[s], d)
                 /\ \A d : Deactivates(log[s], d) <=> log[s].type \in EndTypes /\ log[s].subject = d
<1>1. TypeInv /\ LogIsGapless /\ EventsOfRequests /\ AlwaysV2
    BY DEF LogInv, AudienceInv, RosterInv, OpsInv
<1>2. group.seq \in Nat \ {0} /\ DOMAIN log = 1..group.seq
    BY <1>1 DEF TypeInv, TypeOK, LogIsGapless
<1>3. \A s \in 1..group.seq : log[s].version \in Nat /\ log[s].type \in EventTypes
    BY <1>1, <1>2 DEF TypeInv, TypeOK, Events
<1>4. ASSUME NEW s \in 2..group.seq
      PROVE  /\ s \in DOMAIN log \ {1} /\ s \in 1..group.seq /\ s - 1 \in 1..group.seq
             /\ log[s].version = log[s - 1].version + (IF IsMessage(log[s]) THEN 0 ELSE 1)
    BY <1>1, <1>2, <1>4 DEF LogIsGapless
<1>5. ASSUME NEW s \in 2..group.seq
      PROVE  /\ log[s].req.profile = "v2" /\ log[s].req.method # "group.rebind_member"
             /\ log[s].type # "group-created"
             /\ log[s].type = "member-credential-rebound" <=> log[s].req.method = "group.rebind_member"
             /\ log[s].type \in QuietTypes => log[s].subject = NoAgent
    BY <1>1, <1>4, <1>5 DEF EventsOfRequests, AlwaysV2
<1>6. ASSUME NEW s \in 2..group.seq
      PROVE  /\ log[s].type \in EndTypes \cup QuietTypes \cup {"member-activated"}
             /\ \A d : Activates(log[s], d) <=> ActivatesTarget(log[s], d)
             /\ \A d : Deactivates(log[s], d) <=> log[s].type \in EndTypes /\ log[s].subject = d
    <2>1. log[s].type \in EventTypes /\ log[s].type \notin {"group-created", "member-credential-rebound"}
        BY <1>3, <1>4, <1>5
    <2> QED  BY <2>1 DEF EventTypes, EndTypes, QuietTypes, Activates, ActivatesTarget, Deactivates
<1> QED
    BY <1>2, <1>3, <1>4, <1>5, <1>6

LEMMA ActiveAsIsActive ==
    ASSUME NEW events, NEW d, NEW s, NEW role, ActiveAs(events, d, s, role)
    PROVE  ActiveAfter(events, d, s)
BY DEF ActiveAs, ActiveAfter

\* The counterpart of ActiveAfterAppend for roles.
LEMMA ActiveAsAppend ==
    ASSUME NEW n \in Nat \ {0}, NEW old, NEW new, \A s \in 1..n : new[s] = old[s],
           NEW d, NEW role
    PROVE  /\ \A s \in 0..n : ActiveAs(new, d, s, role) <=> ActiveAs(old, d, s, role)
           /\ ActiveAs(new, d, n + 1, role) <=>
                  \/ Activates(new[n + 1], d) /\ RoleGiven(new[n + 1], d) = role
                  \/ ActiveAs(old, d, n, role) /\ ~Deactivates(new[n + 1], d)
<1>1. \A s \in 0..n : ActiveAs(new, d, s, role) <=> ActiveAs(old, d, s, role)
    BY DEF ActiveAs
<1>2. ASSUME Activates(new[n + 1], d), RoleGiven(new[n + 1], d) = role
      PROVE  ActiveAs(new, d, n + 1, role)
    <2>1. n + 1 \in 1..(n + 1) /\ \A v \in ((n + 1) + 1)..(n + 1) : ~Deactivates(new[v], d)
        OBVIOUS
    <2> QED  BY <1>2, <2>1 DEF ActiveAs
<1>3. ASSUME ActiveAs(old, d, n, role), ~Deactivates(new[n + 1], d)
      PROVE  ActiveAs(new, d, n + 1, role)
    <2>1. PICK u \in 1..n : /\ Activates(old[u], d) /\ RoleGiven(old[u], d) = role
                            /\ \A v \in (u + 1)..n : ~Deactivates(old[v], d)
        BY <1>3 DEF ActiveAs
    <2>2. ASSUME NEW v \in (u + 1)..(n + 1)
          PROVE  ~Deactivates(new[v], d)
        <3>1. CASE v = n + 1
            BY <1>3, <3>1
        <3>2. CASE v # n + 1
            <4>1. v \in (u + 1)..n /\ v \in 1..n
                BY <3>2
            <4> QED  BY <2>1, <4>1
        <3> QED  BY <3>1, <3>2
    <2>3. u \in 1..(n + 1) /\ Activates(new[u], d) /\ RoleGiven(new[u], d) = role
        BY <2>1
    <2> QED  BY <2>2, <2>3 DEF ActiveAs
<1>4. ASSUME ActiveAs(new, d, n + 1, role),
             ~(Activates(new[n + 1], d) /\ RoleGiven(new[n + 1], d) = role)
      PROVE  ActiveAs(old, d, n, role) /\ ~Deactivates(new[n + 1], d)
    <2>1. PICK u \in 1..(n + 1) : /\ Activates(new[u], d) /\ RoleGiven(new[u], d) = role
                                  /\ \A v \in (u + 1)..(n + 1) : ~Deactivates(new[v], d)
        BY <1>4 DEF ActiveAs
    <2>2. u \in 1..n
        BY <1>4, <2>1
    <2>3. n + 1 \in (u + 1)..(n + 1) /\ \A v \in (u + 1)..n : v \in (u + 1)..(n + 1) /\ v \in 1..n
        BY <2>2
    <2>4. ~Deactivates(new[n + 1], d) /\ \A v \in (u + 1)..n : ~Deactivates(old[v], d)
        BY <2>1, <2>3
    <2>5. Activates(old[u], d) /\ RoleGiven(old[u], d) = role
        BY <2>1, <2>2
    <2> QED  BY <2>2, <2>4, <2>5 DEF ActiveAs
<1> QED
    BY <1>1, <1>2, <1>3, <1>4

LEMMA RolesStep ==
    ASSUME InitialWire = "v2", LogInv, RolesFollowLog, [Next]_vars
    PROVE  RolesFollowLog'
<1>0. TypeInv /\ LogIsGapless /\ AlwaysV2
    BY DEF LogInv, AudienceInv, RosterInv, OpsInv
<1>1. CASE Commit
    <2>1. PICK r \in Requests, type \in EventTypes \ {"group-created"},
               subject, previous \in Agents \cup {NoAgent} :
                 \E mem, policy : AcceptStep(r, mem, policy, type, subject, previous)
        BY <1>1 DEF Commit
    <2>2. PICK mem, policy : AcceptStep(r, mem, policy, type, subject, previous)
        BY <2>1
    <2>3. /\ Accept(r, mem, policy, type, subject, previous)
          /\ EventOf(r, mem, type, subject) /\ RosterChange(mem, type, subject, previous)
          /\ members' = mem /\ r.profile = group.wire /\ ValidShape(r)
        BY <2>2 DEF AcceptStep, Accept, Fresh, Fence
    <2>4. type # "member-credential-rebound"
        BY <1>0, <2>3 DEF AlwaysV2, ValidShape, EventOf
    <2> PICK n : n = group.seq
        OBVIOUS
    <2>5. /\ n \in Nat \ {0} /\ group'.seq = n + 1
          /\ \A s \in 1..n : log'[s] = log[s]
          /\ log'[n + 1].type = type /\ log'[n + 1].subject = subject /\ log'[n + 1].req = r
        <3>1. LogExtended(r, type, subject, previous)
            BY <1>0, <2>3, CommitExtendsLog
        <3> QED  BY <3>1 DEF LogExtended
    <2> SUFFICES ASSUME NEW d \in Agents, NEW role \in Roles
                 PROVE  (d \in Active(mem) /\ mem[d].role = role) <=> ActiveAs(log', d, n + 1, role)
        BY <2>3, <2>5 DEF RolesFollowLog
    <2> DEFINE e == log'[n + 1]
    <2>6. ActiveAs(log', d, n + 1, role) <=>
              \/ Activates(e, d) /\ RoleGiven(e, d) = role
              \/ ActiveAs(log, d, n, role) /\ ~Deactivates(e, d)
        BY <2>5, ActiveAsAppend
    <2>7. ActiveAs(log, d, n, role) <=> d \in Active(members) /\ members[d].role = role
        BY DEF RolesFollowLog
    <2>8. /\ Activates(e, d) <=> type = "member-activated" /\ subject = d
          /\ Deactivates(e, d) <=> type \in EndTypes /\ subject = d
          /\ RoleGiven(e, d) = RoleOf(r)
        BY <2>4, <2>5 DEF Activates, Deactivates, RoleGiven, Role, RoleOf
    <2> HIDE DEF e
    <2>9. CASE type = "member-activated"
        <3>1. /\ subject \notin Active(members) /\ Active(mem) = Active(members) \cup {subject}
              /\ mem[subject].role = RoleOf(r)
              /\ \A a \in Active(mem) : a = subject \/ mem[a].role = members[a].role
            BY <2>3, <2>9 DEF RosterChange, EventOf
        <3>2. type \notin EndTypes
            BY <2>9 DEF EndTypes
        <3> QED  BY <2>6, <2>7, <2>8, <2>9, <3>1, <3>2
    <2>10. CASE type \in EndTypes
        <3>1. /\ Active(mem) = Active(members) \ {subject}
              /\ type # "member-activated"
              /\ \A a \in Active(mem) : mem[a].role = members[a].role
            BY <2>3, <2>4, <2>10 DEF RosterChange, EventOf, EndTypes
        <3> QED  BY <2>6, <2>7, <2>8, <2>10, <3>1
    <2>11. CASE type \notin EndTypes \cup {"member-activated"}
        <3>1. mem = members
            BY <2>3, <2>4, <2>11 DEF RosterChange, EndTypes, EventTypes
        <3> QED  BY <2>6, <2>7, <2>8, <2>11, <3>1
    <2> QED  BY <2>9, <2>10, <2>11
<1>2. CASE Quiet \/ SettleRow \/ MoveProtocol
    <2>1. group'.seq = group.seq /\ UNCHANGED <<members, log>>
        BY <1>2 DEF Quiet, SettleRow, MoveProtocol, tables
    <2> QED  BY <2>1 DEF RolesFollowLog
<1> QED
    BY <1>0, <1>1, <1>2, StepKinds

LEMMA RolesInit == Init => RolesFollowLog
<1> SUFFICES ASSUME Init, NEW d \in Agents, NEW role \in Roles
             PROVE  (d \in Active(members) /\ members[d].role = role) <=> ActiveAs(log, d, 1, role)
    BY DEF Init, RolesFollowLog
<1>1. d \in Active(members) <=> d \in DOMAIN InitialRoles
    BY DEF Init, Active
<1>2. d \in DOMAIN InitialRoles => members[d].role = InitialRoles[d]
    BY DEF Init
<1>3. ActiveAs(log, d, 1, role) <=> Activates(log[1], d) /\ RoleGiven(log[1], d) = role
    BY DEF ActiveAs
<1>4. /\ Activates(log[1], d) <=> d \in DOMAIN InitialRoles
      /\ RoleGiven(log[1], d) = InitialRoles[d]
    BY DEF Init, Activates, RoleGiven
<1> QED
    BY <1>1, <1>2, <1>3, <1>4

\* What a row says stays true while the log grows from n to head events.
LEMMA RowStays ==
    ASSUME NEW n \in Nat \ {0}, NEW head \in Nat, n <= head,
           NEW old, NEW new, \A s \in 1..n : new[s] = old[s],
           NEW d, NEW row \in HomeRows, row.status # "none" => row.seq \in 1..n, NEW shown,
           TrueRow(old, n, d, row, shown)
    PROVE  TrueRow(new, head, d, row, shown)
<1> SUFFICES ASSUME row.status # "none"
             PROVE  StatusTrue(new, head, d, row) /\ RosterTrue(new, head, d, row, shown)
    BY DEF TrueRow
<1> PICK q : q = row.seq
    OBVIOUS
<1>1. q \in 1..n /\ StatusTrue(old, n, d, row) /\ RosterTrue(old, n, d, row, shown)
    BY DEF TrueRow
<1>2. \A m \in q..n : m \in 0..n /\ m \in q..head
    BY <1>1
<1>3. q \in 0..n
    BY <1>1
<1>4. StatusTrue(new, head, d, row)
    <2>1. CASE row.status = "active"
        <3>1. PICK m \in q..n : ActiveAs(old, d, m, row.role)
            BY <1>1, <2>1 DEF StatusTrue
        <3>2. ActiveAs(new, d, m, row.role)
            BY <1>2, <3>1, ActiveAsAppend
        <3> QED  BY <1>2, <2>1, <3>2 DEF StatusTrue
    <2>2. CASE row.status # "active"
        <3>1. ActiveAfter(new, d, q) <=> ActiveAfter(old, d, q)
            BY <1>3, ActiveAfterAppend
        <3> QED  BY <1>1, <2>2, <3>1 DEF StatusTrue
    <2> QED  BY <2>1, <2>2
<1>5. RosterTrue(new, head, d, row, shown)
    <2> SUFFICES ASSUME Observing(new, d, row)
                 PROVE  \E m \in q..head : RosterBetween(new, q, m, shown)
        BY DEF RosterTrue
    <2>1. \A u \in 1..q : new[u] = old[u]
        BY <1>1
    <2>2. Observing(old, d, row)
        BY <2>1 DEF Observing, ActivatesTarget
    <2>3. PICK m \in q..n : RosterBetween(old, q, m, shown)
        BY <1>1, <2>2 DEF RosterTrue
    <2>4. \A v \in (q + 1)..m : new[v] = old[v]
        BY <1>1, <2>3
    <2>5. RosterBetween(new, q, m, shown)
        <3> SUFFICES ASSUME NEW e \in Agents, \A v \in (q + 1)..m : ~Touches(new[v], e)
                     PROVE  e \in shown <=> ActiveAfter(new, e, q)
            BY DEF RosterBetween
        <3>1. \A v \in (q + 1)..m : ~Touches(old[v], e)
            BY <2>4
        <3>2. e \in shown <=> ActiveAfter(old, e, q)
            BY <2>3, <3>1 DEF RosterBetween
        <3>3. ActiveAfter(new, e, q) <=> ActiveAfter(old, e, q)
            BY <1>3, ActiveAfterAppend
        <3> QED  BY <3>2, <3>3
    <2> QED  BY <1>2, <2>5
<1> QED
    BY <1>4, <1>5

LEMMA SnapshotStays ==
    ASSUME NEW n \in Nat \ {0}, NEW head \in Nat, n <= head,
           NEW old, NEW new, \A s \in 1..n : new[s] = old[s],
           NEW d, NEW snap, snap # NoSnapshot => snap.seq \in 1..n,
           TrueSnapshot(old, n, d, snap)
    PROVE  TrueSnapshot(new, head, d, snap)
<1> SUFFICES ASSUME snap # NoSnapshot, snap.members # {}
             PROVE  \E m \in snap.seq..head :
                        /\ snap.members = {e \in Agents : ActiveAfter(new, e, m)}
                        /\ ActiveAs(new, d, m, snap.role)
    BY DEF TrueSnapshot
<1>1. PICK m \in snap.seq..n : /\ snap.members = {e \in Agents : ActiveAfter(old, e, m)}
                               /\ ActiveAs(old, d, m, snap.role)
    BY DEF TrueSnapshot
<1>2. m \in 0..n /\ m \in snap.seq..head
    BY <1>1
<1>3. \A e : ActiveAfter(new, e, m) <=> ActiveAfter(old, e, m)
    BY <1>2, ActiveAfterAppend
<1>4. ActiveAs(new, d, m, snap.role)
    BY <1>1, <1>2, ActiveAsAppend
<1>5. snap.members = {e \in Agents : ActiveAfter(new, e, m)}
    BY <1>1, <1>3
<1> QED
    BY <1>2, <1>4, <1>5

\* The host goes on.
LEMMA HomesStay ==
    ASSUME InitialWire = "v2", HomeInv, LogInv', ViewInv', [Next]_vars,
           UNCHANGED <<home, roster, snapshot>>
    PROVE  HomeInv'
<1> PICK n, head : n = group.seq /\ head = group'.seq
    OBVIOUS
<1>0. LogKept /\ RolesFollowLog'
    BY HostFactsStep, RolesStep DEF HomeInv, ViewInv
<1>1. n \in Nat \ {0} /\ DOMAIN log = 1..n /\ head \in Nat \ {0} /\ DOMAIN log' = 1..head
    BY DEF HomeInv, LogInv, AudienceInv, RosterInv, OpsInv, TypeInv, TypeOK, LogIsGapless
<1>2. n <= head /\ \A s \in 1..n : log'[s] = log[s]
    <2>1. n \in 1..n /\ 1..n \subseteq 1..head
        BY <1>0, <1>1 DEF LogKept
    <2>2. n \in 1..head
        BY <2>1
    <2> QED  BY <1>0, <1>1, <2>2 DEF LogKept
<1>3. /\ home \in [Remote -> HomeRows]
      /\ \A d \in Remote : home[d].status # "none" => home[d].seq \in 1..n
      /\ \A d \in Remote : snapshot[d] # NoSnapshot => snapshot[d].seq \in 1..n
    BY <1>1 DEF HomeInv, ViewInv, ViewTypes, ViewsOnLog, SnapshotsOnLog, OnLog, Exists
<1>4. RowsTrue'
    <2> SUFFICES ASSUME NEW d \in Remote
                 PROVE  TrueRow(log', head, d, home[d], roster[d])
        BY DEF RowsTrue
    <2>1. home[d] \in HomeRows /\ TrueRow(log, n, d, home[d], roster[d])
        BY <1>3 DEF HomeInv, RowsTrue
    <2> QED  BY <1>1, <1>2, <1>3, <2>1, RowStays
<1>5. SnapshotsTrue'
    <2> SUFFICES ASSUME NEW d \in Remote
                 PROVE  TrueSnapshot(log', head, d, snapshot[d])
        BY DEF SnapshotsTrue
    <2>1. TrueSnapshot(log, n, d, snapshot[d])
        BY DEF HomeInv, SnapshotsTrue
    <2> QED  BY <1>1, <1>2, <1>3, <2>1, SnapshotStays
<1> QED
    BY <1>0, <1>4, <1>5 DEF HomeInv

\* A home changes what it shows to one agent.
LEMMA OneHomeMoves ==
    ASSUME HomeInv, LogInv', ViewInv', UNCHANGED vars, SnapshotsTrue',
           NEW d \in Remote, NEW row, NEW shown \in SUBSET Agents,
           home' = [home EXCEPT ![d] = row], roster' = [roster EXCEPT ![d] = shown],
           TrueRow(log, group.seq, d, row, shown)
    PROVE  HomeInv'
<1>1. UNCHANGED <<log, group, members>>
    BY DEF vars, tables
<1>2. home \in [Remote -> HomeRows] /\ roster \in [Remote -> SUBSET Agents] /\ RowsTrue
    BY DEF HomeInv, ViewInv, ViewTypes
<1>3. RowsTrue'
    <2> SUFFICES ASSUME NEW e \in Remote PROVE TrueRow(log, group.seq, e, home'[e], roster'[e])
        BY <1>1 DEF RowsTrue
    <2>1. CASE e = d
        BY <1>2, <2>1
    <2>2. CASE e # d
        <3>1. home'[e] = home[e] /\ roster'[e] = roster[e]
            BY <1>2, <2>2
        <3> QED  BY <1>2, <3>1 DEF RowsTrue
    <2> QED  BY <2>1, <2>2
<1>4. RolesFollowLog'
    BY <1>1 DEF HomeInv, RolesFollowLog
<1>5. roster' \in [Remote -> SUBSET Agents]
    BY <1>2
<1> QED
    BY <1>3, <1>4, <1>5 DEF HomeInv

\* How the next event of a v2 group changes who is a member.
LEMMA NextEvent ==
    ASSUME NEW events, NEW q \in Nat \ {0}, NEW d
    PROVE  /\ ActiveAfter(events, d, q + 1) <=>
                  \/ Activates(events[q + 1], d)
                  \/ ActiveAfter(events, d, q) /\ ~Deactivates(events[q + 1], d)
           /\ \A role : ActiveAs(events, d, q + 1, role) <=>
                  \/ Activates(events[q + 1], d) /\ RoleGiven(events[q + 1], d) = role
                  \/ ActiveAs(events, d, q, role) /\ ~Deactivates(events[q + 1], d)
BY ActiveAfterAppend, ActiveAsAppend

\* The event that ends the membership of d.
LEMMA EndedThere ==
    ASSUME InitialWire = "v2", LogInv, NEW s \in 2..group.seq, NEW d,
           log[s].type \in EndTypes, log[s].subject = d
    PROVE  ~ActiveAfter(log, d, s)
<1>1. Deactivates(log[s], d) /\ ~Activates(log[s], d)
    BY V2Events DEF ActivatesTarget, EndTypes
<1>2. s - 1 \in Nat \ {0} /\ s = (s - 1) + 1
    BY V2Events
<1> PICK q : q = s - 1
    OBVIOUS
<1>3. q \in Nat \ {0} /\ s = q + 1
    BY <1>2
<1> QED
    BY <1>1, <1>3, NextEvent

\* The next event reaches a roster that was read at m or earlier.
LEMMA RosterMovesOn ==
    ASSUME InitialWire = "v2", LogInv, NEW q \in Nat \ {0}, q + 1 \in 2..group.seq,
           NEW m \in q..group.seq, NEW shown \in SUBSET Agents, NEW next \in SUBSET Agents,
           RosterBetween(log, q, m, shown),
           \A e \in Agents : e \in next <=>
               \/ Activates(log[q + 1], e)
               \/ e \in shown /\ ~Deactivates(log[q + 1], e)
    PROVE  \E p \in (q + 1)..group.seq : RosterBetween(log, q + 1, p, next)
<1> DEFINE s == q + 1
<1>1. PICK p \in s..group.seq : p = IF m = q THEN s ELSE m
    BY V2Events
<1>2. SUFFICES RosterBetween(log, s, p, next)
    BY <1>1
<1> SUFFICES ASSUME NEW e \in Agents, \A v \in (s + 1)..p : ~Touches(log[v], e)
             PROVE  e \in next <=> ActiveAfter(log, e, s)
    BY DEF RosterBetween
<1>3. ActiveAfter(log, e, s) <=>
          \/ Activates(log[s], e)
          \/ ActiveAfter(log, e, q) /\ ~Deactivates(log[s], e)
    BY NextEvent
<1>4. CASE Touches(log[s], e)
    <2>1. ~(Activates(log[s], e) /\ Deactivates(log[s], e))
        BY V2Events DEF ActivatesTarget, EndTypes
    <2> QED  BY <1>3, <1>4, <2>1 DEF Touches
<1>5. CASE ~Touches(log[s], e)
    <2>1. \A v \in (q + 1)..m : ~Touches(log[v], e)
        <3> SUFFICES ASSUME NEW v \in (q + 1)..m PROVE ~Touches(log[v], e)
            OBVIOUS
        <3>1. CASE v = s
            BY <1>5, <3>1
        <3>2. CASE v # s
            <4>1. v \in (s + 1)..p
                BY <1>1, <3>2
            <4> QED  BY <4>1
        <3> QED  BY <3>1, <3>2
    <2>2. e \in shown <=> ActiveAfter(log, e, q)
        BY <2>1 DEF RosterBetween
    <2> QED  BY <1>3, <1>5, <2>2 DEF Touches
<1> QED
    BY <1>4, <1>5

\* An active view whose next event does not end the membership.
LEMMA ActiveMovesOn ==
    ASSUME InitialWire = "v2", HomeInv, NEW d \in Remote, home[d].status = "active",
           NEW row \in HomeRows, NEW shown \in SUBSET Agents, NEW s, s = home[d].seq + 1,
           s \in 2..group.seq, ~Deactivates(log[s], d),
           row.status = "active", row.role = home[d].role, row.seq = s,
           row.obsSeq = home[d].obsSeq,
           \A e \in Agents : e \in shown <=>
               \/ Activates(log[s], e)
               \/ e \in roster[d] /\ ~Deactivates(log[s], e)
    PROVE  TrueRow(log, group.seq, d, row, shown)
<1> PICK q : q = home[d].seq
    OBVIOUS
<1>1. /\ home[d] \in HomeRows /\ q \in Nat /\ home[d].obsSeq \in Nat
      /\ TrueRow(log, group.seq, d, home[d], roster[d])
      /\ LogInv /\ roster[d] \in SUBSET Agents
    BY DEF HomeInv, ViewInv, ViewTypes, HomeRows, RowsTrue
<1>2. q \in Nat \ {0} /\ group.seq \in Nat \ {0} /\ q <= group.seq
    BY <1>1, V2Events DEF HomeInv, ViewInv, ViewsOnLog, OnLog, Exists
<1>3. row.obsSeq <= row.seq
    BY <1>1 DEF TrueRow
<1>4. StatusTrue(log, group.seq, d, row)
    <2>1. PICK m \in q..group.seq : ActiveAs(log, d, m, home[d].role)
        BY <1>1 DEF TrueRow, StatusTrue
    <2>2. CASE m = q
        <3>1. ActiveAs(log, d, s, home[d].role)
            BY <1>2, <2>1, <2>2, NextEvent
        <3>2. s \in s..group.seq
            BY <1>2
        <3> QED  BY <3>1, <3>2 DEF StatusTrue
    <2>3. CASE m # q
        <3>1. m \in s..group.seq
            BY <1>2, <2>1, <2>3
        <3> QED  BY <2>1, <3>1 DEF StatusTrue
    <2> QED  BY <2>2, <2>3
<1>5. RosterTrue(log, group.seq, d, row, shown)
    <2> SUFFICES ASSUME Observing(log, d, row)
                 PROVE  \E p \in s..group.seq : RosterBetween(log, s, p, shown)
        BY DEF RosterTrue
    <2>1. Observing(log, d, home[d])
        <3>1. \A u \in 1..q : u \in 1..s
            BY <1>2
        <3> QED  BY <3>1 DEF Observing
    <2>2. PICK m \in q..group.seq : RosterBetween(log, q, m, roster[d])
        BY <1>1, <2>1 DEF TrueRow, RosterTrue
    <2> QED  BY <1>1, <1>2, <2>2, RosterMovesOn
<1> QED
    BY <1>3, <1>4, <1>5 DEF TrueRow

\* When group_state_changed writes.
LEMMA AppliedState ==
    ASSUME NEW d, NEW s \in Nat, home[d].seq \in Nat, StateVerdict(d, s) = "applied"
    PROVE  /\ Exists(d) => \/ s = home[d].seq + 1
                           \/ s > home[d].seq + 1 /\ Reactivated(d, s)
                           \/ s = home[d].seq /\ MatchesTerminal(d, s)
           /\ ~Exists(d) => ActivatesTarget(log[s], d)
<1>1. CASE ~Exists(d)
    BY <1>1 DEF StateVerdict
<1>2. CASE Exists(d) /\ s <= home[d].seq
    BY <1>2 DEF StateVerdict
<1>3. CASE Exists(d) /\ s > home[d].seq
    BY <1>3 DEF StateVerdict
<1> QED
    BY <1>1, <1>2, <1>3

LEMMA StateRowTrue ==
    ASSUME InitialWire = "v2", HomeInv, NEW d \in Remote, NEW s \in 2..group.seq,
           StateVerdict(d, s) = "applied", ViewAfter(d, s) \in HomeRows
    PROVE  /\ RosterAfter(d, s) \in SUBSET Agents
           /\ TrueRow(log, group.seq, d, ViewAfter(d, s), RosterAfter(d, s))
<1> PICK q : q = home[d].seq
    OBVIOUS
<1>0. LogInv /\ group.seq \in Nat \ {0} /\ s \in Nat
    BY V2Events DEF HomeInv
<1>1. /\ home[d] \in HomeRows /\ q \in Nat /\ home[d].obsSeq \in Nat
      /\ TrueRow(log, group.seq, d, home[d], roster[d]) /\ roster[d] \in SUBSET Agents
      /\ Exists(d) => q \in 1..group.seq /\ home[d].version = log[q].version
    BY <1>0, V2Events DEF HomeInv, ViewInv, ViewTypes, HomeRows, RowsTrue, ViewsOnLog, OnLog
<1>2. /\ RosterAfter(d, s) \in SUBSET Agents
      /\ \A e \in Agents : e \in RosterAfter(d, s) <=>
             \/ Activates(log[s], e)
             \/ e \in roster[d] /\ ~Deactivates(log[s], e)
    <2>1. log[s].type \in EndTypes \cup QuietTypes \cup {"member-activated"}
        BY <1>0, V2Events
    <2>2. \A e : /\ Activates(log[s], e) <=> log[s].type = "member-activated" /\ log[s].subject = e
                 /\ Deactivates(log[s], e) <=> log[s].type \in EndTypes /\ log[s].subject = e
        BY <1>0, V2Events DEF ActivatesTarget
    <2>3. CASE log[s].type \in EndTypes
        BY <1>1, <2>2, <2>3 DEF RosterAfter, EndTypes
    <2>4. CASE log[s].type = "member-activated"
        BY <1>1, <2>2, <2>4 DEF RosterAfter, EndTypes
    <2>5. CASE log[s].type \in QuietTypes
        <3>1. log[s].subject \notin Agents /\ log[s].type \notin EndTypes
              /\ log[s].type # "member-activated"
            BY <1>0, <2>5, V2Events, AgentsAssumption DEF QuietTypes, EndTypes
        <3> QED  BY <1>1, <2>2, <3>1 DEF RosterAfter
    <2> QED  BY <2>1, <2>3, <2>4, <2>5
<1> DEFINE row == ViewAfter(d, s)
<1>3. /\ row.status = StatusAfter(d, s) /\ row.role = RoleAfter(d, s) /\ row.seq = s
      /\ row.obsSeq = home[d].obsSeq
    BY <1>1 DEF ViewAfter, HomeRows
<1>4. /\ Exists(d) => \/ s = q + 1
                      \/ s > q + 1 /\ Reactivated(d, s)
                      \/ s = q /\ MatchesTerminal(d, s)
      /\ ~Exists(d) => ActivatesTarget(log[s], d)
    BY <1>0, <1>1, AppliedState
<1>5. Exists(d) => home[d].obsSeq <= s
    BY <1>0, <1>1, <1>4 DEF TrueRow
<1>6. CASE log[s].type \in EndTypes /\ log[s].subject = d
    <2>1. StatusAfter(d, s) \in {"left", "removed"}
        BY <1>6 DEF StatusAfter, EndTypes
    <2>2. ~ActiveAfter(log, d, s)
        BY <1>0, <1>6, EndedThere
    <2>3. Exists(d)
        BY <1>4, <1>6 DEF ActivatesTarget, EndTypes
    <2> QED  BY <1>2, <1>3, <1>5, <2>1, <2>2, <2>3 DEF TrueRow, StatusTrue, RosterTrue, Observing
<1>7. CASE Reactivated(d, s) \/ ~Exists(d)
    <2>1. ActivatesTarget(log[s], d)
        BY <1>4, <1>7 DEF Reactivated
    <2>2. log[s].type = "member-activated" /\ log[s].subject = d /\ Activates(log[s], d)
        BY <2>1 DEF ActivatesTarget, Activates
    <2>3. StatusAfter(d, s) = "active" /\ RoleAfter(d, s) = RoleGiven(log[s], d)
        BY <1>7, <2>2 DEF StatusAfter, RoleAfter, RoleGiven
    <2>4. home[d].obsSeq < s
        <3>1. CASE ~Exists(d)
            BY <1>0, <1>1, <3>1 DEF TrueRow, Exists
        <3>2. CASE Reactivated(d, s)
            <4>1. Exists(d) /\ log[s].version > log[q].version
                BY <1>1, <3>2 DEF Reactivated
            <4>2. s # q
                BY <1>0, <4>1, V2Events
            <4> QED  BY <1>0, <1>1, <1>4, <4>1, <4>2 DEF TrueRow
        <3> QED  BY <1>7, <3>1, <3>2
    <2>5. ActiveAs(log, d, s, RoleGiven(log[s], d))
        <3>1. s \in 1..s /\ \A v \in (s + 1)..s : ~Deactivates(log[v], d)
            BY <1>0
        <3> QED  BY <2>2, <3>1 DEF ActiveAs
    <2>6. StatusTrue(log, group.seq, d, row)
        <3>1. s \in s..group.seq
            BY <1>0
        <3> QED  BY <1>3, <2>3, <2>5, <3>1 DEF StatusTrue
    <2>7. ~Observing(log, d, row)
        <3>1. s \in 1..s /\ ~(s <= home[d].obsSeq)
            BY <1>0, <1>1, <2>4
        <3> QED  BY <1>3, <2>1, <3>1 DEF Observing
    <2> QED  BY <1>0, <1>1, <1>2, <1>3, <2>3, <2>4, <2>6, <2>7 DEF TrueRow, RosterTrue
<1>8. CASE /\ ~(log[s].type \in EndTypes /\ log[s].subject = d)
           /\ ~(Reactivated(d, s) \/ ~Exists(d))
    <2>1. s = q + 1 /\ Exists(d)
        BY <1>4, <1>8 DEF MatchesTerminal
    <2>2. StatusAfter(d, s) = home[d].status /\ RoleAfter(d, s) = home[d].role
        BY <1>8 DEF StatusAfter, RoleAfter, EndTypes
    <2>3. ~Deactivates(log[s], d)
        BY <1>0, <1>8, V2Events
    <2>4. CASE home[d].status = "active"
        BY <1>0, <1>2, <1>3, <2>1, <2>2, <2>3, <2>4, ActiveMovesOn
    <2>5. CASE home[d].status # "active"
        <3>1. ~ActivatesTarget(log[s], d)
            <4>1. ASSUME ActivatesTarget(log[s], d) PROVE Reactivated(d, s)
                <5>1. ~IsMessage(log[s])
                    BY <4>1 DEF ActivatesTarget, IsMessage
                <5>2. s - 1 = q
                    BY <1>1, <2>1
                <5>3. log[s].version \in Nat /\ log[q].version \in Nat
                      /\ log[s].version = log[q].version + 1
                    BY <1>0, <5>1, <5>2, V2Events
                <5>4. log[s].version > home[d].version
                    BY <1>1, <2>1, <5>3
                <5> QED  BY <1>0, <2>1, <2>5, <4>1, <5>4, V2Events DEF Reactivated
            <4> QED  BY <1>8, <4>1
        <3>2. ~ActiveAfter(log, d, q)
            BY <1>1, <2>1, <2>5 DEF TrueRow, StatusTrue, Exists
        <3>3. ~ActiveAfter(log, d, s)
            <4>1. ~Activates(log[s], d)
                BY <1>0, <3>1, V2Events
            <4>2. q \in Nat \ {0}
                BY <1>0, <1>1, <2>1
            <4> QED  BY <2>1, <3>2, <4>1, <4>2, NextEvent
        <3> QED  BY <1>2, <1>3, <1>5, <2>1, <2>2, <2>5, <3>3
                 DEF TrueRow, StatusTrue, RosterTrue, Observing, Exists
    <2> QED  BY <2>4, <2>5
<1> QED
    BY <1>6, <1>7, <1>8

\* group_incoming advances the view only if the message is its next event.
LEMMA MessageRowTrue ==
    ASSUME InitialWire = "v2", HomeInv, NEW d \in Remote, NEW s \in 2..group.seq,
           IsMessage(log[s]), MessageVerdict(d, s) = "applied",
           NEW row \in HomeRows,
           row = [home[d] EXCEPT !.seq = Larger(@, s), !.version = Larger(@, log[s].version)]
    PROVE  TrueRow(log, group.seq, d, row, roster[d])
<1> PICK q : q = home[d].seq
    OBVIOUS
<1>0. LogInv /\ group.seq \in Nat \ {0} /\ s \in Nat
    BY V2Events DEF HomeInv
<1>1. /\ home[d] \in HomeRows /\ q \in Nat /\ roster[d] \in SUBSET Agents
      /\ TrueRow(log, group.seq, d, home[d], roster[d])
    BY DEF HomeInv, ViewInv, ViewTypes, HomeRows, RowsTrue
<1>2. /\ row.status = home[d].status /\ row.role = home[d].role
      /\ row.obsSeq = home[d].obsSeq /\ row.seq = Larger(q, s)
    BY <1>1 DEF HomeRows
<1>3. CASE s <= q
    <2>1. row.seq = home[d].seq
        BY <1>0, <1>1, <1>2, <1>3 DEF Larger
    <2> QED  BY <1>1, <1>2, <2>1 DEF TrueRow, StatusTrue, RosterTrue, Observing
<1>4. CASE s > q
    <2>1. s = q + 1 /\ home[d].status = "active"
        BY <1>0, <1>1, <1>4 DEF MessageVerdict, BeforeTerminal
    <2>2. row.seq = s
        BY <1>0, <1>1, <1>2, <1>4 DEF Larger
    <2>3. \A e : ~Activates(log[s], e) /\ ~Deactivates(log[s], e)
        BY DEF IsMessage, Activates, Deactivates, EndTypes
    <2> QED  BY <1>1, <1>2, <2>1, <2>2, <2>3, ActiveMovesOn
<1> QED
    BY <1>0, <1>1, <1>3, <1>4

LEMMA HandleTrue ==
    ASSUME InitialWire = "v2", HomeInv, LogInv', ViewInv', NEW k \in batch, Handle(k)
    PROVE  HomeInv'
<1> PICK s, d : s = k[1] /\ d = k[2]
    OBVIOUS
<1>1. UNCHANGED <<vars, snapshot>>
    BY DEF Handle
<1>2. d \in Remote /\ s \in 2..group.seq
    <2>1. d \in Remote /\ s \in DOMAIN log \ {1}
        BY DEF HomeInv, ViewInv, HostFacts, OpsInv, TypeInv, TypeOK, RowsOnLog
    <2>2. group.seq \in Nat /\ DOMAIN log = 1..group.seq
        BY V2Events DEF HomeInv
    <2> QED  BY <2>1, <2>2
<1>3. SnapshotsTrue'
    BY <1>1 DEF HomeInv, SnapshotsTrue, vars, tables
<1>4. /\ home \in [Remote -> HomeRows] /\ home' \in [Remote -> HomeRows]
      /\ roster \in [Remote -> SUBSET Agents]
    BY DEF HomeInv, ViewInv, ViewTypes
<1>5. CASE Verdict(d, s) # "applied"
    <2>1. UNCHANGED <<home, roster>>
        BY <1>5 DEF Handle
    <2>2. [Next]_vars
        BY <1>1
    <2> QED  BY <1>1, <2>1, <2>2, HomesStay
<1>6. CASE Verdict(d, s) = "applied" /\ IsMessage(log[s])
    <2> DEFINE row == [home[d] EXCEPT !.seq = Larger(@, s), !.version = Larger(@, log[s].version)]
    <2>1. home' = [home EXCEPT ![d] = row] /\ UNCHANGED roster
        BY <1>2, <1>4, <1>6 DEF Handle, ApplyMessage
    <2> HIDE DEF row
    <2>2. row \in HomeRows
        BY <1>2, <1>4, <2>1
    <2>3. MessageVerdict(d, s) = "applied"
        BY <1>6 DEF Verdict
    <2>4. TrueRow(log, group.seq, d, row, roster[d])
        BY <1>2, <1>6, <2>2, <2>3, MessageRowTrue DEF row
    <2>5. roster' = [roster EXCEPT ![d] = roster[d]] /\ roster[d] \in SUBSET Agents
        BY <1>2, <1>4, <2>1
    <2> QED  BY <1>1, <1>2, <1>3, <2>1, <2>4, <2>5, OneHomeMoves
<1>7. CASE Verdict(d, s) = "applied" /\ ~IsMessage(log[s])
    <2>1. home' = [home EXCEPT ![d] = ViewAfter(d, s)]
          /\ roster' = [roster EXCEPT ![d] = RosterAfter(d, s)]
        BY <1>7 DEF Handle, ApplyState
    <2>2. ViewAfter(d, s) \in HomeRows
        BY <1>2, <1>4, <2>1
    <2>3. StateVerdict(d, s) = "applied"
        BY <1>7 DEF Verdict
    <2>4. /\ RosterAfter(d, s) \in SUBSET Agents
          /\ TrueRow(log, group.seq, d, ViewAfter(d, s), RosterAfter(d, s))
        BY <1>2, <2>2, <2>3, StateRowTrue
    <2> QED  BY <1>1, <1>2, <1>3, <2>1, <2>4, OneHomeMoves
<1> QED
    BY <1>5, <1>6, <1>7

LEMMA TerminalTrue ==
    ASSUME InitialWire = "v2", HomeInv, LogInv', ViewInv', NEW a \in answers, TerminalAnswer(a)
    PROVE  HomeInv'
<1>0. LogInv /\ home \in [Remote -> HomeRows] /\ roster \in [Remote -> SUBSET Agents]
    BY DEF HomeInv, ViewInv, ViewTypes
<1>1. UNCHANGED <<vars, snapshot, roster>>
    BY DEF TerminalAnswer
<1>2. SnapshotsTrue'
    BY <1>1 DEF HomeInv, SnapshotsTrue, vars, tables
<1>3. /\ a.seq \in 2..group.seq /\ a.seq \in Nat
      /\ log[a.seq].type \in EndTypes /\ log[a.seq].subject = Departed(a.req)
    <2>1. a.seq \in DOMAIN log \ {1} /\ log[a.seq].req = a.req
        BY <1>0, AnswersOnLog
    <2>2. a.req.method \in {"group.leave", "group.remove"}
        BY DEF TerminalAnswer
    <2>3. log[a.seq].type \in EndTypes /\ log[a.seq].subject = Departed(a.req)
        BY <1>0, <2>1, <2>2 DEF LogInv, EventsOfRequests
    <2>4. group.seq \in Nat /\ DOMAIN log = 1..group.seq
        BY <1>0, V2Events
    <2> QED  BY <2>1, <2>3, <2>4
<1>4. \/ UNCHANGED home
      \/ \E d \in Remote : \E status \in {"left", "removed"} :
            /\ d = Departed(a.req) /\ Exists(d) /\ home[d].seq <= a.seq
            /\ home' = [home EXCEPT ![d].status = status, ![d].seq = a.seq,
                                    ![d].version = a.version]
    BY DEF TerminalAnswer, EndView, Departed
<1>5. CASE UNCHANGED home
    <2>1. [Next]_vars
        BY <1>1
    <2> QED  BY <1>1, <1>5, <2>1, HomesStay
<1>6. CASE ~ UNCHANGED home
    <2>1. PICK d \in Remote, status \in {"left", "removed"} :
            /\ d = Departed(a.req) /\ Exists(d) /\ home[d].seq <= a.seq
            /\ home' = [home EXCEPT ![d].status = status, ![d].seq = a.seq,
                                    ![d].version = a.version]
        BY <1>4, <1>6
    <2> DEFINE row == [home[d] EXCEPT !.status = status, !.seq = a.seq, !.version = a.version]
    <2>2. home[d] \in HomeRows
        BY <1>0
    <2>3. row.status = status /\ row.seq = a.seq /\ row.obsSeq = home[d].obsSeq
        BY <2>2 DEF HomeRows
    <2>4. home' = [home EXCEPT ![d] = row]
        BY <1>0, <2>1, <2>2 DEF HomeRows
    <2> HIDE DEF row
    <2>5. row.obsSeq <= row.seq
        <3>1. home[d].obsSeq <= home[d].seq /\ home[d].obsSeq \in Nat /\ home[d].seq \in Nat
            BY <2>2 DEF HomeInv, RowsTrue, TrueRow, HomeRows
        <3> QED  BY <1>3, <2>1, <2>3, <3>1
    <2>6. ~ActiveAfter(log, d, a.seq)
        BY <1>0, <1>3, <2>1, EndedThere
    <2>7. TrueRow(log, group.seq, d, row, roster[d])
        BY <2>3, <2>5, <2>6 DEF TrueRow, StatusTrue, RosterTrue, Observing
    <2>8. roster' = [roster EXCEPT ![d] = roster[d]] /\ roster[d] \in SUBSET Agents
        BY <1>0, <1>1
    <2> QED  BY <1>1, <1>2, <2>4, <2>7, <2>8, OneHomeMoves
<1> QED
    BY <1>5, <1>6

\* Nobody whom no event concerns joins or leaves.
LEMMA Untouched ==
    ASSUME NEW events, NEW q \in Nat, NEW m \in Nat, q <= m, NEW e,
           \A v \in (q + 1)..m : ~Touches(events[v], e)
    PROVE  ActiveAfter(events, e, m) <=> ActiveAfter(events, e, q)
<1>1. ASSUME ActiveAfter(events, e, m)
      PROVE  ActiveAfter(events, e, q)
    <2>1. PICK u \in 1..m : Activates(events[u], e) /\ \A v \in (u + 1)..m : ~Deactivates(events[v], e)
        BY <1>1 DEF ActiveAfter
    <2>2. u \in 1..q
        <3>1. u \notin (q + 1)..m
            BY <2>1 DEF Touches
        <3> QED  BY <3>1
    <2>3. \A v \in (u + 1)..q : v \in (u + 1)..m
        BY <2>2
    <2> QED  BY <2>1, <2>2, <2>3 DEF ActiveAfter
<1>2. ASSUME ActiveAfter(events, e, q)
      PROVE  ActiveAfter(events, e, m)
    <2>1. PICK u \in 1..q : Activates(events[u], e) /\ \A v \in (u + 1)..q : ~Deactivates(events[v], e)
        BY <1>2 DEF ActiveAfter
    <2>2. ASSUME NEW v \in (u + 1)..m PROVE ~Deactivates(events[v], e)
        <3>1. CASE v \in (u + 1)..q
            BY <2>1, <3>1
        <3>2. CASE v \in (q + 1)..m
            BY <3>2 DEF Touches
        <3> QED  BY <3>1, <3>2
    <2>3. u \in 1..m
        BY <2>1
    <2> QED  BY <2>1, <2>2, <2>3 DEF ActiveAfter
<1> QED
    BY <1>1, <1>2

LEMMA RefreshTrue ==
    ASSUME InitialWire = "v2", HomeInv, LogInv', ViewInv', Refresh
    PROVE  HomeInv'
<1>1. PICK d \in Remote :
          ReadGroupRow(d) \/ ReadMemberList(d) \/ ApplySnapshot(d) \/ AbandonRefresh(d)
    BY DEF Refresh
<1>2. UNCHANGED vars /\ UNCHANGED <<log, group, members>>
    BY <1>1 DEF ReadGroupRow, ReadMemberList, ApplySnapshot, AbandonRefresh, vars, tables
<1>3. /\ snapshot \in [Remote -> Snapshots \cup {NoSnapshot}]
      /\ home \in [Remote -> HomeRows] /\ roster \in [Remote -> SUBSET Agents]
      /\ LogInv /\ RowsTrue /\ SnapshotsTrue /\ RolesFollowLog
      /\ group.seq \in Nat \ {0} /\ DOMAIN log = 1..group.seq
    BY V2Events DEF HomeInv, ViewInv, ViewTypes
<1>4. ASSUME NEW snap, snapshot' = [snapshot EXCEPT ![d] = snap],
             TrueSnapshot(log, group.seq, d, snap)
      PROVE  SnapshotsTrue'
    BY <1>2, <1>3, <1>4 DEF SnapshotsTrue
<1>5. ASSUME UNCHANGED <<home, roster>>, SnapshotsTrue'
      PROVE  HomeInv'
    BY <1>2, <1>3, <1>5 DEF HomeInv, RowsTrue, RolesFollowLog
<1>6. CASE ReadGroupRow(d)
    <2> DEFINE snap == [version |-> group.version, seq |-> group.seq, members |-> {},
                        role |-> "member"]
    <2>1. TrueSnapshot(log, group.seq, d, snap)
        BY DEF TrueSnapshot
    <2>2. UNCHANGED <<home, roster>> /\ snapshot' = [snapshot EXCEPT ![d] = snap]
        BY <1>6 DEF ReadGroupRow, homeVars
    <2> HIDE DEF snap
    <2> QED  BY <1>4, <1>5, <2>1, <2>2
<1>7. CASE ReadMemberList(d)
    <2> DEFINE snap == [snapshot[d] EXCEPT !.members = Active(members), !.role = members[d].role]
    <2>1. snapshot[d] \in Snapshots /\ d \in Active(members) /\ d \in Agents
          /\ snapshot[d] # NoSnapshot
        BY <1>3, <1>7, AgentsAssumption DEF ReadMemberList
    <2>2. snapshot[d].seq \in 1..group.seq
        BY <1>3, <2>1 DEF HomeInv, ViewInv, SnapshotsOnLog, OnLog
    <2>3. snap.seq = snapshot[d].seq /\ snap.members = Active(members) /\ snap.role = members[d].role
        BY <2>1 DEF Snapshots
    <2>4. UNCHANGED <<home, roster>> /\ snapshot' = [snapshot EXCEPT ![d] = snap]
        BY <1>3, <1>7, <2>1 DEF ReadMemberList, homeVars, Snapshots
    <2> HIDE DEF snap
    <2>5. members[d].role \in Roles /\ Active(members) \subseteq Agents
        BY <1>3, <2>1 DEF LogInv, AudienceInv, RosterInv, OpsInv, TypeInv, TypeOK, Active, MemberRows
    <2>6. ActiveAs(log, d, group.seq, snap.role)
        BY <1>3, <2>1, <2>3, <2>5 DEF RolesFollowLog
    <2>7. snap.members = {e \in Agents : ActiveAfter(log, e, group.seq)}
        BY <1>3, <2>3, <2>5 DEF LogInv, AudienceInv, RosterInv, RosterFollowsLog
    <2>8. group.seq \in snap.seq..group.seq
        BY <1>3, <2>2, <2>3
    <2>9. TrueSnapshot(log, group.seq, d, snap)
        BY <2>6, <2>7, <2>8 DEF TrueSnapshot
    <2> QED  BY <1>4, <1>5, <2>4, <2>9
<1>8. CASE (ApplySnapshot(d) /\ ~Refreshable(d)) \/ AbandonRefresh(d)
    <2>1. UNCHANGED <<home, roster>> /\ snapshot' = [snapshot EXCEPT ![d] = NoSnapshot]
        BY <1>8 DEF ApplySnapshot, AbandonRefresh, homeVars
    <2>2. TrueSnapshot(log, group.seq, d, NoSnapshot)
        BY DEF TrueSnapshot
    <2> QED  BY <1>4, <1>5, <2>1, <2>2
<1>9. CASE ApplySnapshot(d) /\ Refreshable(d)
    <2> PICK snap : snap = snapshot[d]
        OBVIOUS
    <2>1. /\ snap \in Snapshots /\ snap # NoSnapshot /\ snap.members # {}
          /\ home' = [home EXCEPT ![d] = Observed(snap)]
          /\ roster' = [roster EXCEPT ![d] = snap.members]
          /\ snapshot' = [snapshot EXCEPT ![d] = NoSnapshot]
        BY <1>3, <1>9 DEF ApplySnapshot
    <2>2. snap.members \in SUBSET Agents /\ snap.seq \in Nat
        BY <2>1 DEF Snapshots
    <2>3. PICK m \in snap.seq..group.seq :
              /\ snap.members = {e \in Agents : ActiveAfter(log, e, m)}
              /\ ActiveAs(log, d, m, snap.role)
        BY <1>3, <2>1 DEF SnapshotsTrue, TrueSnapshot
    <2>4. RosterBetween(log, snap.seq, m, snap.members)
        <3> SUFFICES ASSUME NEW e \in Agents, \A v \in (snap.seq + 1)..m : ~Touches(log[v], e)
                     PROVE  e \in snap.members <=> ActiveAfter(log, e, snap.seq)
            BY DEF RosterBetween
        <3>1. m \in Nat /\ snap.seq <= m
            BY <1>3, <2>2, <2>3
        <3>2. ActiveAfter(log, e, m) <=> ActiveAfter(log, e, snap.seq)
            BY <2>2, <3>1, Untouched
        <3> QED  BY <2>3, <3>2
    <2>5. TrueRow(log, group.seq, d, Observed(snap), snap.members)
        <3>1. /\ Observed(snap).status = "active" /\ Observed(snap).seq = snap.seq
              /\ Observed(snap).obsSeq = snap.seq /\ Observed(snap).role = snap.role
            BY DEF Observed
        <3>2. StatusTrue(log, group.seq, d, Observed(snap))
            BY <2>3, <3>1 DEF StatusTrue
        <3>3. RosterTrue(log, group.seq, d, Observed(snap), snap.members)
            BY <2>4, <3>1 DEF RosterTrue
        <3>4. snap.seq <= snap.seq
            BY <2>2
        <3> QED  BY <3>1, <3>2, <3>3, <3>4 DEF TrueRow
    <2>6. TrueSnapshot(log, group.seq, d, NoSnapshot)
        BY DEF TrueSnapshot
    <2>7. SnapshotsTrue'
        BY <1>4, <2>1, <2>6
    <2> QED  BY <1>2, <2>1, <2>2, <2>5, <2>7, OneHomeMoves
<1> QED
    BY <1>1, <1>6, <1>7, <1>8, <1>9

LEMMA HomeStep ==
    ASSUME InitialWire = "v2", HomeInv, [FedNext]_fedVars
    PROVE  HomeInv'
<1>1. LogInv' /\ ViewInv' /\ [Next]_vars
    BY ComposedStep, LogInvStep, ViewStep DEF HomeInv
<1>2. CASE UNCHANGED <<home, roster, snapshot>>
    BY <1>1, <1>2, HomesStay
<1>3. CASE HostStep \/ HostRestart
    BY <1>2, <1>3 DEF HostStep, HostRestart, homeVars
<1>4. CASE \E rows \in SUBSET {k \in DOMAIN outbox : Eligible(k)} : Select(rows)
    BY <1>2, <1>4 DEF Select, homeVars
<1>5. CASE \E k \in batch : Handle(k) \/ SettlePosted(k)
    BY <1>1, <1>2, <1>5, HandleTrue DEF SettlePosted, homeVars
<1>6. CASE Answer
    <2>1. PICK a \in answers : TerminalAnswer(a)
        BY <1>6, NoRebindAnswer DEF Answer, HomeInv, Rebindless
    <2> QED  BY <1>1, <2>1, TerminalTrue
<1>7. CASE Refresh
    BY <1>1, <1>7, RefreshTrue
<1>8. CASE UNCHANGED fedVars
    BY <1>2, <1>8 DEF fedVars, homeVars
<1> QED
    BY <1>3, <1>4, <1>5, <1>6, <1>7, <1>8 DEF FedNext

LEMMA HomeInit == FedInit => HomeInv
<1> SUFFICES ASSUME FedInit PROVE HomeInv
    OBVIOUS
<1>1. LogInv /\ ViewInv /\ RolesFollowLog
    BY LogInvInit, ViewInit, RolesInit DEF FedInit
<1>2. roster \in [Remote -> SUBSET Agents] /\ RowsTrue /\ SnapshotsTrue
    BY DEF FedInit, RowsTrue, TrueRow, NoView, SnapshotsTrue, TrueSnapshot
<1> QED
    BY <1>1, <1>2 DEF HomeInv

\* An agent that was activated was activated a last time.
LEMMA LastActivationExists ==
    ASSUME NEW n \in Nat, DOMAIN log = 1..n, NEW d, NEW u \in 1..n, Activates(log[u], d)
    PROVE  /\ LastActivation(d) \in 1..n
           /\ \A v \in 1..n : Activates(log[v], d) => v <= LastActivation(d)
<1> DEFINE T == {x \in Nat : \E v \in 1..n : x = n - v /\ Activates(log[v], d)}
<1>1. T \in SUBSET Nat /\ T # {}
    <2>1. n - u \in Nat
        OBVIOUS
    <2> QED  BY <2>1
<1>2. PICK x \in T : \A y \in T : ~(<<y, x>> \in OpToRel(<, Nat))
    <2> HIDE DEF T
    <2> QED  BY <1>1, WFMin, NatLessThanWellFounded
<1>3. \A y \in T : ~(y < x)
    BY <1>1, <1>2 DEF OpToRel
<1>4. PICK w \in 1..n : x = n - w /\ Activates(log[w], d)
    BY <1>2
<1>5. \A v \in 1..n : Activates(log[v], d) => v <= w
    <2> SUFFICES ASSUME NEW v \in 1..n, Activates(log[v], d) PROVE v <= w
        OBVIOUS
    <2>1. n - v \in T
        OBVIOUS
    <2>2. ~(n - v < x)
        BY <1>3, <2>1
    <2> QED  BY <1>4, <2>2
<1>6. \E s \in DOMAIN log : Activates(log[s], d) /\ \A v \in DOMAIN log : Activates(log[v], d) => v <= s
    BY <1>4, <1>5
<1> QED
    BY <1>6 DEF LastActivation

LEMMA HomeGood ==
    ASSUME InitialWire = "v2", HomeInv
    PROVE  HomeTrueAtHead
<1> PICK n : n = group.seq
    OBVIOUS
<1>1. /\ n \in Nat \ {0} /\ DOMAIN log = 1..n /\ LogInv
      /\ home \in [Remote -> HomeRows] /\ roster \in [Remote -> SUBSET Agents]
      /\ Remote \subseteq Agents
    BY V2Events, AgentsAssumption DEF HomeInv, ViewInv, ViewTypes
<1>2. \A d \in Agents : d \in Active(members) <=> ActiveAfter(log, d, n)
    BY <1>1 DEF LogInv, AudienceInv, RosterInv, RosterFollowsLog
<1>3. n..n = {n}
    BY <1>1
<1>4. ASSUME NEW d \in Remote, Exists(d), home[d].seq = n
      PROVE  /\ home[d].status = "active" <=> d \in Active(members)
             /\ d \in Active(members) => home[d].role = members[d].role
    <2>1. StatusTrue(log, n, d, home[d]) /\ home[d].role \in Roles /\ d \in Agents
        BY <1>1, <1>4 DEF HomeInv, RowsTrue, TrueRow, Exists, HomeRows
    <2>2. CASE home[d].status = "active"
        <3>1. ActiveAs(log, d, n, home[d].role)
            BY <1>3, <1>4, <2>1, <2>2 DEF StatusTrue
        <3> QED  BY <2>1, <2>2, <3>1 DEF HomeInv, RolesFollowLog
    <2>3. CASE home[d].status # "active"
        BY <1>2, <1>4, <2>1, <2>3 DEF StatusTrue
    <2> QED  BY <2>2, <2>3
<1>5. ASSUME NEW d \in Remote, home[d].status = "active", home[d].seq = n,
             d \in Active(members), home[d].obsSeq >= LastActivation(d)
      PROVE  roster[d] = Active(members)
    <2>1. PICK u \in 1..n : Activates(log[u], d)
        BY <1>1, <1>2, <1>5 DEF ActiveAfter
    <2>2. LastActivation(d) \in 1..n /\ \A v \in 1..n : Activates(log[v], d) => v <= LastActivation(d)
        BY <1>1, <2>1, LastActivationExists
    <2>3. home[d].obsSeq \in Nat
        BY <1>1 DEF HomeRows
    <2>4. Observing(log, d, home[d])
        <3> SUFFICES ASSUME NEW v \in 1..n, ActivatesTarget(log[v], d)
                     PROVE  v <= home[d].obsSeq
            BY <1>5 DEF Observing
        <3>1. v <= LastActivation(d)
            BY <2>2 DEF ActivatesTarget, Activates
        <3> QED  BY <1>5, <2>2, <2>3, <3>1
    <2>5. RosterBetween(log, n, n, roster[d])
        BY <1>3, <1>5, <2>4 DEF HomeInv, RowsTrue, TrueRow, RosterTrue
    <2>6. \A e \in Agents : e \in roster[d] <=> ActiveAfter(log, e, n)
        <3>1. \A v \in (n + 1)..n : FALSE
            BY <1>1
        <3> QED  BY <2>5, <3>1 DEF RosterBetween
    <2>7. Active(members) \subseteq Agents
        BY <1>1 DEF LogInv, AudienceInv, RosterInv, OpsInv, TypeInv, TypeOK, Active
    <2> QED  BY <1>1, <1>2, <2>6, <2>7
<1> QED
    BY <1>4, <1>5 DEF HomeTrueAtHead, HomeAgreesAtHead, RosterAtHead

\* In a group that was created with the v2 profile a home that has caught up
\* with the host shows its agent's membership and role, and, if it has read the
\* roster during that membership, exactly the members (inbound.py
\* group_state_changed, routing.py, projection.py).
THEOREM HomesTrueAtHead == ASSUME InitialWire = "v2" PROVE FedSpec => []HomeTrueAtHead
<1>1. HomeInv /\ [FedNext]_fedVars => HomeInv'
    BY HomeStep
<1>2. HomeInv => HomeTrueAtHead
    BY HomeGood
<1> QED
    BY <1>1, <1>2, HomeInit, PTL DEF FedSpec
=============================================================================
