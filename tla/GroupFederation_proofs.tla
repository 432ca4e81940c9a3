----------------------- MODULE GroupFederation_proofs -----------------------
(***************************************************************************)
(* The Group Host keeps its promises in the composition: with Member Homes *)
(* that answer notifications, forward commands and read rosters, every     *)
(* step is a step of GroupHost or leaves the host alone, so the theorems   *)
(* of GroupHost_proofs hold of the whole system.                           *)
(***************************************************************************)
EXTENDS GroupFederation, GroupHost_proofs

\* A composed step is a step of the host (its threads, its worker, its name
\* service, its restarts) or a step of a home, which writes no table of the host.
LEMMA ComposedStep ==
    ASSUME [FedNext]_fedVars
    PROVE  [Next]_vars
<1>1. CASE HostStep
    BY <1>1 DEF HostStep, Next
<1>2. CASE HostRestart
    BY <1>2 DEF HostRestart, Next
<1>3. CASE \E rows \in SUBSET {k \in DOMAIN outbox : Eligible(k)} : Select(rows)
    BY <1>3 DEF Select, Next, Drain
<1>4. CASE \E k \in batch : Handle(k) \/ SettlePosted(k)
    <2>1. PICK k \in batch : Handle(k) \/ SettlePosted(k)
        BY <1>4
    <2>2. CASE Handle(k)
        BY <2>2 DEF Handle
    <2>3. CASE SettlePosted(k)
        <3>1. MarkDelivered(k) \/ MarkFailed(k, FALSE)
            BY <2>3 DEF SettlePosted
        <3>2. Drain
            BY <3>1 DEF Drain
        <3> QED  BY <3>2 DEF Next
    <2> QED  BY <2>1, <2>2, <2>3
<1>5. CASE Answer
    BY <1>5 DEF Answer, TerminalAnswer, RebindAnswer
<1>6. CASE Refresh
    BY <1>6 DEF Refresh, ReadGroupRow, ReadMemberList, ApplySnapshot, AbandonRefresh
<1>7. CASE UNCHANGED fedVars
    BY <1>7 DEF fedVars
<1> QED
    BY <1>1, <1>2, <1>3, <1>4, <1>5, <1>6, <1>7 DEF FedNext

\* The composition implements the Group Host: no sequence of notifications,
\* forwarded commands, answers and roster reads shows a behaviour that GroupHost
\* does not have (outbox.py, inbound.py, routing.py).
THEOREM FederationImplementsHost == FedSpec => Spec
<1>1. FedInit => Init
    BY DEF FedInit
<1>2. [FedNext]_fedVars => [Next]_vars
    BY ComposedStep
<1> QED
    BY <1>1, <1>2, PTL DEF FedSpec, Spec

\* In the whole system the member table is a replay of the signed log and
\* nobody acts on the group without the membership the log gives them
\* (service.py, every mutating handler).
THEOREM FederationKeepsAuthority == FedSpec => [](RosterFollowsLog /\ AuthorityFollowsLog)
<1>1. FedSpec => []RosterFollowsLog
    BY FederationImplementsHost, RosterIsLog, PTL
<1>2. FedSpec => []AuthorityFollowsLog
    BY FederationImplementsHost, AuthorityHolds, PTL
<1> QED
    BY <1>1, <1>2, PTL

\* In the whole system every home receives the notifications of its agents in
\* event order (outbox.py _drain_group_outbox_locked).
THEOREM FederationKeepsOrder == FedSpec => []StreamInOrder
    BY FederationImplementsHost, StreamsInOrder, PTL
-----------------------------------------------------------------------------
(* What the homes rely on: facts about the host that its steps preserve.    *)

\* State versions never fall along the log.
LogRises == \A s, u \in DOMAIN log : s <= u => log[s].version <= log[u].version

\* Every row notifies of an accepted operation.
RowsOnLog == \A k \in DOMAIN outbox : k[1] \in DOMAIN log \ {1}

HostFacts == OpsInv /\ LogRises /\ RowsOnLog

\* Events are appended and never rewritten.
LogKept == DOMAIN log \subseteq DOMAIN log' /\ \A s \in DOMAIN log : log'[s] = log[s]

LEMMA HostFactsStep ==
    ASSUME HostFacts, [Next]_vars
    PROVE  HostFacts' /\ LogKept
<1> USE DEF HostFacts
<1>1. OpsInv'
    BY OpsStep
<1>2. OpsInv /\ TypeInv /\ LogIsGapless
    BY DEF OpsInv
<1>3. CASE Commit
    <2>1. PICK r \in Requests, type \in EventTypes \ {"group-created"},
               subject, previous \in Agents \cup {NoAgent} :
                 \E mem, policy : AcceptStep(r, mem, policy, type, subject, previous)
        BY <1>3 DEF Commit
    <2>2. PICK mem, policy : Accept(r, mem, policy, type, subject, previous)
        BY <2>1 DEF AcceptStep
    <2> DEFINE n == group.seq + 1
               targets == Recipients(mem, type, subject)
    <2>3. /\ group.seq \in Nat \ {0}
          /\ DOMAIN log = 1..group.seq
          /\ DOMAIN log' = 1..n
          /\ \A s \in 1..group.seq : log'[s] = log[s]
          /\ log'[n] = [type |-> type, version |-> NextVersion(type), subject |-> subject,
                        previous |-> previous, req |-> r]
        <3>1. LogExtended(r, type, subject, previous)
            BY <1>2, <2>2, CommitExtendsLog
        <3>2. QED
            BY <3>1 DEF LogExtended
    <2>4. LogKept
        BY <2>3 DEF LogKept
    <2>5. \A s \in DOMAIN log : log[s].version \in Nat
        BY <1>2 DEF TypeInv, TypeOK, Events
    <2>6. \A s \in DOMAIN log : log[s].version <= log'[n].version
        <3>1. group.version \in Nat /\ NextVersion(type) \in Nat /\ NextVersion(type) >= group.version
            BY <1>2 DEF TypeInv, TypeOK, NextVersion
        <3>3. log'[n].version = NextVersion(type)
            BY <2>3
        <3>2. \A s \in DOMAIN log : log[s].version <= group.version
            BY <1>2, <2>3 DEF LogRises, LogIsGapless
        <3> QED  BY <2>5, <3>1, <3>2, <3>3
    <2>7. LogRises'
        <3> SUFFICES ASSUME NEW s \in 1..n, NEW u \in 1..n, s <= u
                     PROVE  log'[s].version <= log'[u].version
            BY <2>3 DEF LogRises
        <3>1. CASE u = n /\ s # n
            BY <2>3, <2>6, <3>1
        <3>2. CASE u = n /\ s = n
            BY <2>3, <3>2, <1>2 DEF NextVersion, TypeInv, TypeOK
        <3>3. CASE u # n
            BY <2>3, <3>3 DEF LogRises
        <3> QED  BY <3>1, <3>2, <3>3
    <2>8. RowsOnLog'
        <3>1. DOMAIN outbox' = DOMAIN outbox \cup ({n} \X targets)
            BY <2>2 DEF Accept, Enqueue
        <3>2. \A k \in {n} \X targets : k[1] = n
            OBVIOUS
        <3> HIDE DEF targets
        <3> QED  BY <2>3, <3>1, <3>2 DEF RowsOnLog
    <2> QED  BY <1>1, <2>4, <2>7, <2>8
<1>4. CASE Quiet
    BY <1>1, <1>4 DEF Quiet, tables, LogRises, RowsOnLog, LogKept
<1>5. CASE SettleRow
    <2>1. UNCHANGED log
        BY <1>5 DEF SettleRow
    <2>2. DOMAIN outbox' = DOMAIN outbox
        BY <1>5 DEF SettleRow
    <2> QED  BY <1>1, <2>1, <2>2 DEF LogRises, RowsOnLog, LogKept
<1>6. CASE MoveProtocol
    BY <1>1, <1>6 DEF MoveProtocol, LogRises, RowsOnLog, LogKept
<1> QED
    BY <1>2, <1>3, <1>4, <1>5, <1>6, StepKinds

LEMMA HostFactsInit == Init => HostFacts
<1> SUFFICES ASSUME Init PROVE HostFacts
    OBVIOUS
<1>1. OpsInv
    BY OpsInit
<1>2. LogRises /\ RowsOnLog
    BY DEF Init, LogRises, RowsOnLog
<1> QED
    BY <1>1, <1>2 DEF HostFacts
-----------------------------------------------------------------------------
(* The views of the homes.                                                  *)

HomeRows ==
    [status : {"none", "active", "left", "removed"}, role : Roles, seq : Nat, version : Nat,
     obsSeq : Nat, obsVersion : Nat]

Snapshots == [version : Nat, seq : Nat, members : SUBSET Agents, role : Roles]

ViewTypes ==
    /\ home \in [Remote -> HomeRows]
    /\ snapshot \in [Remote -> Snapshots \cup {NoSnapshot}]

\* A pair of numbers is on the log.
OnLog(events, seq, version) == seq \in DOMAIN events /\ version = events[seq].version

ViewsOnLog == \A d \in Remote : Exists(d) => OnLog(log, home[d].seq, home[d].version)

\* A roster read carries a pair of the log too, however long it travels.
SnapshotsOnLog ==
    \A d \in Remote :
        snapshot[d] # NoSnapshot => OnLog(log, snapshot[d].seq, snapshot[d].version)

ViewInv == HostFacts /\ ViewTypes /\ ViewsOnLog /\ SnapshotsOnLog

\* A step on the views of the homes: each is as it was, is new, is given up, or
\* is at a later place of the log.
Advances(d) ==
    Exists(d) /\ home'[d].status # "none" =>
        home'[d].seq >= home[d].seq /\ home'[d].version >= home[d].version

\* The numbers a home knows stay on the log while the log grows.
LEMMA ViewsStay ==
    ASSUME ViewInv, [Next]_vars, UNCHANGED <<home, snapshot>>
    PROVE  ViewInv'
<1>1. HostFacts' /\ LogKept
    BY HostFactsStep DEF ViewInv
<1>2. ViewTypes'
    BY DEF ViewInv, ViewTypes
<1>3. ViewsOnLog'
    BY <1>1 DEF ViewInv, ViewsOnLog, OnLog, LogKept, Exists
<1>4. SnapshotsOnLog'
    BY <1>1 DEF ViewInv, SnapshotsOnLog, OnLog, LogKept
<1> QED
    BY <1>1, <1>2, <1>3, <1>4 DEF ViewInv

\* A step of a home changes one view of one agent, to a row that is on the log
\* and not before the one it replaces.
LEMMA OneViewMoves ==
    ASSUME ViewInv, NEW d \in Remote, NEW row \in HomeRows,
           row.status # "none" => OnLog(log, row.seq, row.version),
           home' = [home EXCEPT ![d] = row],
           UNCHANGED <<vars, snapshot>>
    PROVE  ViewInv'
<1>1. HostFacts'
    BY HostFactsStep DEF ViewInv
<1>2. ViewTypes'
    BY DEF ViewInv, ViewTypes
<1>3. log' = log
    BY DEF vars, tables
<1>4. ViewsOnLog'
    <2> SUFFICES ASSUME NEW e \in Remote, home'[e].status # "none"
                 PROVE  OnLog(log, home'[e].seq, home'[e].version)
        BY <1>3 DEF ViewsOnLog, Exists, OnLog
    <2>1. CASE e = d
        BY <2>1 DEF ViewInv, ViewTypes
    <2>2. CASE e # d
        BY <2>2 DEF ViewInv, ViewTypes, ViewsOnLog, Exists
    <2> QED  BY <2>1, <2>2
<1>5. SnapshotsOnLog'
    BY <1>3 DEF ViewInv, SnapshotsOnLog, OnLog
<1> QED
    BY <1>1, <1>2, <1>4, <1>5 DEF ViewInv

\* group.state_changed and group.incoming.
LEMMA HandleMoves ==
    ASSUME ViewInv, NEW k \in batch, Handle(k)
    PROVE  ViewInv' /\ \A d \in Remote : Advances(d)
<1> DEFINE s == k[1]
           d == k[2]
           v == Verdict(d, s)
<1>1. k \in DOMAIN outbox /\ s \in DOMAIN log \ {1} /\ d \in Remote
    BY DEF ViewInv, HostFacts, OpsInv, TypeInv, TypeOK, RowsOnLog
<1>2. UNCHANGED <<vars, snapshot>>
    BY DEF Handle
<1>3. /\ home \in [Remote -> HomeRows] /\ home[d] \in HomeRows
      /\ s \in Nat /\ log[s].version \in Nat
    BY <1>1 DEF ViewInv, ViewTypes, HostFacts, OpsInv, TypeInv, TypeOK, Events
<1>4. Exists(d) => OnLog(log, home[d].seq, home[d].version)
    BY <1>1 DEF ViewInv, ViewsOnLog
<1>5. CASE v # "applied"
    <2>1. UNCHANGED home
        BY <1>5 DEF Handle
    <2>2. [Next]_vars
        BY <1>2
    <2>3. ViewInv'
        BY <1>2, <2>1, <2>2, ViewsStay
    <2>4. \A e \in Remote : Advances(e)
        BY <2>1 DEF Advances, ViewInv, ViewTypes, HomeRows
    <2> QED  BY <2>3, <2>4
<1>6. CASE v = "applied" /\ IsMessage(log[s])
    <2> DEFINE row == [home[d] EXCEPT !.seq = Larger(@, s), !.version = Larger(@, log[s].version)]
    <2>1. home' = [home EXCEPT ![d] = row]
        BY <1>3, <1>6 DEF Handle, ApplyMessage
    <2>2. row \in HomeRows
        BY <1>3 DEF HomeRows, Larger
    <2>3. Exists(d)
        BY <1>6 DEF Verdict, MessageVerdict
    <2>4. row.seq = Larger(home[d].seq, s) /\ row.version = Larger(home[d].version, log[s].version)
        BY <1>3 DEF HomeRows
    <2>5. OnLog(log, row.seq, row.version)
        <3>1. LogRises /\ home[d].seq \in DOMAIN log /\ home[d].version = log[home[d].seq].version
            BY <1>4, <2>3 DEF OnLog, ViewInv, HostFacts
        <3>2. home[d].seq \in Nat /\ home[d].version \in Nat
            BY <1>3 DEF HomeRows
        <3>3. CASE home[d].seq > s
            <4>1. log[s].version <= home[d].version
                BY <1>1, <1>3, <3>1, <3>2, <3>3 DEF LogRises
            <4> QED  BY <1>3, <2>4, <3>1, <3>2, <3>3, <4>1 DEF OnLog, Larger
        <3>4. CASE ~(home[d].seq > s)
            <4>1. home[d].version <= log[s].version
                BY <1>1, <1>3, <3>1, <3>2, <3>4 DEF LogRises
            <4> QED  BY <1>1, <1>3, <2>4, <3>1, <3>2, <3>4, <4>1 DEF OnLog, Larger
        <3> QED  BY <3>3, <3>4
    <2>6. row.seq >= home[d].seq /\ row.version >= home[d].version
        BY <1>3, <2>4 DEF Larger, HomeRows
    <2> HIDE DEF row
    <2>7. ViewInv'
        BY <1>1, <1>2, <2>1, <2>2, <2>5, OneViewMoves
    <2>8. \A e \in Remote : Advances(e)
        BY <1>3, <2>1, <2>6 DEF Advances, HomeRows
    <2> QED  BY <2>7, <2>8
<1>7. CASE v = "applied" /\ ~IsMessage(log[s])
    <2> DEFINE row == ViewAfter(d, s)
    <2>1. home' = [home EXCEPT ![d] = row]
        BY <1>7 DEF Handle, ApplyState
    <2>2. RoleAfter(d, s) \in Roles
        <3>1. log[s].req \in Requests
            BY <1>1 DEF ViewInv, HostFacts, OpsInv, OpsIndexLog
        <3>2. Role(log[s]) \in Roles
            BY <3>1, RequestsAssumption DEF Role, Roles
        <3> QED  BY <1>3, <3>2 DEF RoleAfter, HomeRows
    <2>3. StatusAfter(d, s) \in {"none", "active", "left", "removed"}
        BY <1>3 DEF StatusAfter, HomeRows
    <2>4. row \in HomeRows
        BY <1>3, <2>2, <2>3 DEF HomeRows, ViewAfter
    <2>5. row.seq = s /\ row.version = log[s].version
        BY <1>3 DEF HomeRows, ViewAfter
    <2>6. Exists(d) => s >= home[d].seq
        <3>1. home[d].seq \in Nat
            BY <1>3 DEF HomeRows
        <3>2. StateVerdict(d, s) = "applied"
            BY <1>7 DEF Verdict
        <3>3. ASSUME Exists(d), s < home[d].seq
              PROVE  StateVerdict(d, s) # "applied"
            BY <1>3, <3>1, <3>3 DEF StateVerdict
        <3> QED  BY <1>3, <3>1, <3>2, <3>3
    <2>7. Exists(d) => row.seq >= home[d].seq /\ row.version >= home[d].version
        BY <1>1, <1>3, <1>4, <2>5, <2>6 DEF OnLog, ViewInv, HostFacts, LogRises, HomeRows
    <2> HIDE DEF row
    <2>8. ViewInv'
        BY <1>1, <1>2, <2>1, <2>4, <2>5, OneViewMoves DEF OnLog
    <2>9. \A e \in Remote : Advances(e)
        BY <1>3, <2>1, <2>7 DEF Advances, HomeRows
    <2> QED  BY <2>8, <2>9
<1> QED
    BY <1>5, <1>6, <1>7

\* _apply_terminal_projection after group.leave and group.remove.
LEMMA TerminalMoves ==
    ASSUME ViewInv, NEW a \in answers, TerminalAnswer(a)
    PROVE  ViewInv' /\ \A d \in Remote : Advances(d)
<1>1. a \in Results /\ a.seq \in DOMAIN log /\ a.version = log[a.seq].version
    BY DEF ViewInv, HostFacts, OpsInv, TypeInv, TypeOK, AnswersAreReceipts
<1>2. UNCHANGED <<vars, snapshot>>
    BY DEF TerminalAnswer
<1>3. home \in [Remote -> HomeRows]
    BY DEF ViewInv, ViewTypes
<1>4. \/ UNCHANGED home
      \/ \E d \in Remote : \E status \in {"left", "removed"} :
            /\ Exists(d) /\ home[d].seq <= a.seq
            /\ home' = [home EXCEPT ![d].status = status, ![d].seq = a.seq,
                                    ![d].version = a.version]
    BY DEF TerminalAnswer, EndView
<1>5. CASE UNCHANGED home
    <2>1. [Next]_vars
        BY <1>2
    <2>2. \A e \in Remote : Advances(e)
        BY <1>3, <1>5 DEF Advances, HomeRows
    <2> QED  BY <1>2, <1>5, <2>1, <2>2, ViewsStay
<1>6. CASE ~ UNCHANGED home
    <2>1. PICK d \in Remote, status \in {"left", "removed"} :
            /\ Exists(d) /\ home[d].seq <= a.seq
            /\ home' = [home EXCEPT ![d].status = status, ![d].seq = a.seq,
                                    ![d].version = a.version]
        BY <1>4, <1>6
    <2> DEFINE row == [home[d] EXCEPT !.status = status, !.seq = a.seq, !.version = a.version]
    <2>2. home[d] \in HomeRows
        BY <1>3
    <2>3. row \in HomeRows
        BY <1>1, <2>2 DEF HomeRows, Results
    <2>4. row.seq = a.seq /\ row.version = a.version
        BY <2>2 DEF HomeRows
    <2>5. home' = [home EXCEPT ![d] = row]
        BY <1>3, <2>1, <2>2 DEF HomeRows
    <2>6. OnLog(log, home[d].seq, home[d].version)
        BY <2>1 DEF ViewInv, ViewsOnLog
    <2>7. row.seq >= home[d].seq /\ row.version >= home[d].version
        BY <1>1, <2>1, <2>2, <2>4, <2>6 DEF OnLog, ViewInv, HostFacts, LogRises, HomeRows, Results
    <2> HIDE DEF row
    <2>8. ViewInv'
        BY <1>1, <1>2, <2>3, <2>4, <2>5, OneViewMoves DEF OnLog
    <2>9. \A e \in Remote : Advances(e)
        BY <1>3, <2>5, <2>7 DEF Advances, HomeRows
    <2> QED  BY <2>8, <2>9
<1> QED
    BY <1>5, <1>6

\* _apply_terminal_projection after group.rebind_member.
LEMMA RebindMoves ==
    ASSUME ViewInv, NEW a \in answers, RebindAnswer(a)
    PROVE  ViewInv' /\ \A d \in Remote : Advances(d)
<1> DEFINE old == a.req.previous
           new == a.req.sender
<1>1. /\ UNCHANGED <<vars, snapshot>>
      /\ old \in Remote /\ new \in Remote /\ Exists(old) /\ ~Exists(new)
      /\ home' = [home EXCEPT ![new] = home[old], ![old] = NoView]
    BY DEF RebindAnswer
<1>2. home \in [Remote -> HomeRows] /\ NoView \in HomeRows /\ old # new
    BY <1>1 DEF ViewInv, ViewTypes, NoView, HomeRows, Roles
<1> HIDE DEF old, new
<1>3. /\ home'[old] = NoView /\ home'[new] = home[old]
      /\ \A e \in Remote \ {old, new} : home'[e] = home[e]
      /\ home' \in [Remote -> HomeRows]
    BY <1>1, <1>2
<1>4. log' = log /\ HostFacts'
    BY <1>1, HostFactsStep DEF ViewInv, vars, tables
<1>5. ViewsOnLog'
    <2> SUFFICES ASSUME NEW e \in Remote, home'[e].status # "none"
                 PROVE  OnLog(log, home'[e].seq, home'[e].version)
        BY <1>4 DEF ViewsOnLog, Exists, OnLog
    <2>1. CASE e = old
        BY <1>3, <2>1 DEF NoView
    <2>2. CASE e = new
        BY <1>1, <1>3, <2>2 DEF ViewInv, ViewsOnLog
    <2>3. CASE e \notin {old, new}
        BY <1>3, <2>3 DEF ViewInv, ViewsOnLog, Exists
    <2> QED  BY <2>1, <2>2, <2>3
<1>6. ViewTypes' /\ SnapshotsOnLog'
    BY <1>1, <1>3, <1>4 DEF ViewInv, ViewTypes, SnapshotsOnLog, OnLog
<1>7. \A e \in Remote : Advances(e)
    <2> SUFFICES ASSUME NEW e \in Remote PROVE Advances(e)
        OBVIOUS
    <2>1. CASE e = old
        BY <1>3, <2>1 DEF Advances, NoView
    <2>2. CASE e = new
        BY <1>1, <2>2 DEF Advances
    <2>3. CASE e \notin {old, new}
        BY <1>2, <1>3, <2>3 DEF Advances, HomeRows
    <2> QED  BY <2>1, <2>2, <2>3
<1> QED
    BY <1>4, <1>5, <1>6, <1>7 DEF ViewInv

\* A roster read, from the host's row to the home's view.
LEMMA RefreshMoves ==
    ASSUME ViewInv, Refresh
    PROVE  ViewInv' /\ \A d \in Remote : Advances(d)
<1>1. PICK d \in Remote :
          ReadGroupRow(d) \/ ReadMemberList(d) \/ ApplySnapshot(d) \/ AbandonRefresh(d)
    BY DEF Refresh
<1>2. UNCHANGED vars
    BY <1>1 DEF ReadGroupRow, ReadMemberList, ApplySnapshot, AbandonRefresh
<1>3. log' = log /\ HostFacts'
    BY <1>2, HostFactsStep DEF ViewInv, vars, tables
<1>4. /\ home \in [Remote -> HomeRows]
      /\ snapshot \in [Remote -> Snapshots \cup {NoSnapshot}]
    BY DEF ViewInv, ViewTypes
<1>5. /\ DOMAIN members \subseteq Agents
      /\ \A e \in DOMAIN members : members[e].role \in Roles
      /\ group.version \in Nat /\ group.seq \in Nat
      /\ OnLog(log, group.seq, group.version)
    BY DEF ViewInv, HostFacts, OpsInv, TypeInv, TypeOK, LogIsGapless, OnLog, MemberRows
<1>6. ASSUME UNCHANGED home,
             NEW snap \in Snapshots \cup {NoSnapshot},
             snap # NoSnapshot => OnLog(log, snap.seq, snap.version),
             snapshot' = [snapshot EXCEPT ![d] = snap]
      PROVE  ViewInv' /\ \A e \in Remote : Advances(e)
    <2>1. ViewTypes'
        BY <1>4, <1>6 DEF ViewTypes
    <2>2. ViewsOnLog'
        BY <1>3, <1>6 DEF ViewInv, ViewsOnLog, OnLog, Exists
    <2>3. SnapshotsOnLog'
        BY <1>3, <1>4, <1>6 DEF ViewInv, SnapshotsOnLog, OnLog
    <2>4. \A e \in Remote : Advances(e)
        BY <1>4, <1>6 DEF Advances, HomeRows
    <2> QED  BY <1>3, <2>1, <2>2, <2>3, <2>4 DEF ViewInv
<1>7. CASE ReadGroupRow(d)
    <2> DEFINE snap == [version |-> group.version, seq |-> group.seq, members |-> {},
                        role |-> "member"]
    <2>1. snap \in Snapshots /\ OnLog(log, snap.seq, snap.version)
        BY <1>5 DEF Snapshots, Roles
    <2>2. UNCHANGED home /\ snapshot' = [snapshot EXCEPT ![d] = snap]
        BY <1>7 DEF ReadGroupRow, homeVars
    <2> QED  BY <1>6, <2>1, <2>2
<1>8. CASE ReadMemberList(d)
    <2> DEFINE snap == [snapshot[d] EXCEPT !.members = Active(members), !.role = members[d].role]
    <2>1. snapshot[d] \in Snapshots /\ OnLog(log, snapshot[d].seq, snapshot[d].version)
        BY <1>4, <1>8 DEF ReadMemberList, ViewInv, SnapshotsOnLog
    <2>2. Active(members) \subseteq Agents /\ members[d].role \in Roles
        BY <1>5, <1>8 DEF ReadMemberList, Active
    <2>3. snap \in Snapshots /\ OnLog(log, snap.seq, snap.version)
        BY <2>1, <2>2 DEF Snapshots
    <2>4. UNCHANGED home /\ snapshot' = [snapshot EXCEPT ![d] = snap]
        BY <1>4, <1>8, <2>1 DEF ReadMemberList, homeVars, Snapshots
    <2> HIDE DEF snap
    <2> QED  BY <1>6, <2>3, <2>4
<1>9. CASE ApplySnapshot(d) /\ Refreshable(d)
    <2> DEFINE row == Observed(snapshot[d])
    <2>1. /\ snapshot[d] \in Snapshots /\ OnLog(log, snapshot[d].seq, snapshot[d].version)
          /\ home' = [home EXCEPT ![d] = row]
          /\ snapshot' = [snapshot EXCEPT ![d] = NoSnapshot]
        BY <1>4, <1>9 DEF ApplySnapshot, ViewInv, SnapshotsOnLog
    <2>2. /\ row \in HomeRows
          /\ row.seq = snapshot[d].seq /\ row.version = snapshot[d].version
        BY <2>1 DEF Observed, Snapshots, HomeRows
    <2>3. row.seq >= home[d].seq /\ row.version >= home[d].version
        BY <1>9, <2>2 DEF Refreshable
    <2> HIDE DEF row
    <2>4. ViewTypes'
        BY <1>4, <2>1, <2>2 DEF ViewTypes
    <2>5. ViewsOnLog'
        BY <1>3, <1>4, <2>1, <2>2 DEF ViewInv, ViewsOnLog, Exists, OnLog
    <2>6. SnapshotsOnLog'
        BY <1>3, <1>4, <2>1 DEF ViewInv, SnapshotsOnLog, OnLog
    <2>7. \A e \in Remote : Advances(e)
        BY <1>4, <2>1, <2>3 DEF Advances, HomeRows
    <2> QED  BY <1>3, <2>4, <2>5, <2>6, <2>7 DEF ViewInv
<1>10. CASE (ApplySnapshot(d) /\ ~Refreshable(d)) \/ AbandonRefresh(d)
    <2>1. UNCHANGED home /\ snapshot' = [snapshot EXCEPT ![d] = NoSnapshot]
        BY <1>10 DEF ApplySnapshot, AbandonRefresh, homeVars
    <2> QED  BY <1>6, <2>1
<1> QED
    BY <1>1, <1>7, <1>8, <1>9, <1>10

LEMMA ViewStep ==
    ASSUME ViewInv, [FedNext]_fedVars
    PROVE  ViewInv' /\ \A d \in Remote : Advances(d)
<1>1. [Next]_vars
    BY ComposedStep
<1>2. CASE UNCHANGED <<home, snapshot>>
    <2>1. \A d \in Remote : Advances(d)
        BY <1>2 DEF Advances, ViewInv, ViewTypes, HomeRows
    <2> QED  BY <1>1, <1>2, <2>1, ViewsStay
<1>3. CASE HostStep \/ HostRestart
    BY <1>2, <1>3 DEF HostStep, HostRestart, homeVars
<1>4. CASE \E rows \in SUBSET {k \in DOMAIN outbox : Eligible(k)} : Select(rows)
    BY <1>2, <1>4 DEF Select, homeVars
<1>5. CASE \E k \in batch : Handle(k) \/ SettlePosted(k)
    BY <1>2, <1>5, HandleMoves DEF SettlePosted, homeVars
<1>6. CASE Answer
    BY <1>6, TerminalMoves, RebindMoves DEF Answer
<1>7. CASE Refresh
    BY <1>7, RefreshMoves
<1>8. CASE UNCHANGED fedVars
    BY <1>2, <1>8 DEF fedVars, homeVars
<1> QED
    BY <1>3, <1>4, <1>5, <1>6, <1>7, <1>8 DEF FedNext

LEMMA ViewInit == FedInit => ViewInv
<1> SUFFICES ASSUME FedInit PROVE ViewInv
    OBVIOUS
<1>1. HostFacts
    BY HostFactsInit DEF FedInit
<1>2. ViewTypes /\ ViewsOnLog /\ SnapshotsOnLog
    BY DEF FedInit, ViewTypes, ViewsOnLog, SnapshotsOnLog, Exists, NoView, HomeRows, Roles
<1> QED
    BY <1>1, <1>2 DEF ViewInv

\* The pair of numbers in every group view of every home is a pair of the
\* host's log (inbound.py, routing.py, projection.py: six places write it).
THEOREM HomeViewsOnLog == FedSpec => []HomeViewOnLog
<1>1. ViewInv => HomeViewOnLog
    BY DEF ViewInv, ViewsOnLog, HomeViewOnLog, OnLog
<1>2. ViewInv /\ [FedNext]_fedVars => ViewInv'
    BY ViewStep
<1> QED
    BY <1>1, <1>2, ViewInit, PTL DEF FedSpec

\* No late notification, answer or roster read takes a group view back
\* (inbound.py, routing.py, projection.py).
THEOREM HomeViewsAdvance == FedSpec => ViewsAdvance
<1>1. ViewInv /\ [FedNext]_fedVars =>
          [\A d \in Remote :
              home[d].status # "none" /\ home'[d].status # "none" =>
                  home'[d].seq >= home[d].seq /\ home'[d].version >= home[d].version]_fedVars
    BY ViewStep DEF Advances, Exists
<1>2. ViewInv /\ [FedNext]_fedVars => ViewInv'
    BY ViewStep
<1> QED
    BY <1>1, <1>2, ViewInit, PTL DEF FedSpec, ViewsAdvance
-----------------------------------------------------------------------------
(* The feeds of the homes.                                                  *)

\* Whatever a client was told of is recorded in inbound_peer_events.
FeedRecorded ==
    \A d \in Remote : \A i \in DOMAIN feed[d] : feed[d][i] # 0 => feed[d][i] \in seen[d]

FeedInv ==
    /\ TypeInv
    /\ feed \in [Remote -> Seq(Nat)] /\ seen \in [Remote -> SUBSET Nat]
    /\ FeedRecorded /\ ToldOnce

\* An event that is applied was not recorded before.
LEMMA AppliedIsNew ==
    ASSUME NEW d, NEW s, Verdict(d, s) = "applied"
    PROVE  s \notin seen[d]
BY DEF Verdict, StateVerdict, MessageVerdict

\* One more entry in the feed of d, recorded if it is an event.
LEMMA FeedGrows ==
    ASSUME FeedInv, TypeInv', NEW d \in Remote, NEW s \in Nat, s # 0 => s \notin seen[d],
           feed' = [feed EXCEPT ![d] = Append(@, s)],
           \/ seen' = [seen EXCEPT ![d] = @ \cup {s}]
           \/ s = 0 /\ UNCHANGED seen
    PROVE  FeedInv'
<1>0. feed \in [Remote -> Seq(Nat)] /\ seen \in [Remote -> SUBSET Nat] /\ FeedRecorded /\ ToldOnce
    BY DEF FeedInv
<1>1. /\ seen' \in [Remote -> SUBSET Nat]
      /\ \A e \in Remote : seen[e] \subseteq seen'[e]
      /\ s # 0 => s \in seen'[d]
    BY <1>0
<1>2. /\ feed[d] \in Seq(Nat) /\ feed'[d] = Append(feed[d], s)
      /\ \A e \in Remote \ {d} : feed'[e] = feed[e]
      /\ Append(feed[d], s) \in Seq(Nat)
    BY <1>0
<1>6. feed' \in [Remote -> Seq(Nat)]
    BY <1>0, <1>2
<1>3. /\ DOMAIN feed'[d] = 1..(Len(feed[d]) + 1)
      /\ DOMAIN feed[d] = 1..Len(feed[d])
      /\ \A i \in 1..Len(feed[d]) : feed'[d][i] = feed[d][i]
      /\ feed'[d][Len(feed[d]) + 1] = s
      /\ Len(feed[d]) \in Nat
    BY <1>2
<1>4. FeedRecorded'
    BY <1>0, <1>1, <1>2, <1>3 DEF FeedRecorded
<1>5. ToldOnce'
    BY <1>0, <1>2, <1>3 DEF ToldOnce, FeedRecorded
<1> QED
    BY <1>1, <1>4, <1>5, <1>6 DEF FeedInv

LEMMA FeedStep ==
    ASSUME FeedInv, [FedNext]_fedVars
    PROVE  FeedInv'
<1>1. TypeInv'
    BY ComposedStep, TypeInvStep DEF FeedInv
<1>2. CASE UNCHANGED <<feed, seen>>
    BY <1>1, <1>2 DEF FeedInv, FeedRecorded, ToldOnce
<1>3. ASSUME NEW k \in batch, Handle(k)
      PROVE  FeedInv'
    <2>1. k[1] \in Nat /\ k[2] \in Remote
        BY DEF FeedInv, TypeInv, TypeOK
    <2>2. CASE Verdict(k[2], k[1]) = "applied"
        <3>1. k[1] \notin seen[k[2]]
            BY <2>2, AppliedIsNew
        <3>2. feed' = [feed EXCEPT ![k[2]] = Append(@, k[1])]
            BY <1>3, <2>2 DEF Handle, ApplyMessage, ApplyState
        <3>3. seen' = [seen EXCEPT ![k[2]] = @ \cup {k[1]}]
            BY <1>3, <2>2 DEF Handle
        <3> QED  BY <1>1, <2>1, <3>1, <3>2, <3>3, FeedGrows
    <2>3. CASE Verdict(k[2], k[1]) # "applied"
        <3>1. UNCHANGED feed
            BY <1>3, <2>3 DEF Handle
        <3>2. /\ seen' \in [Remote -> SUBSET Nat]
              /\ \A d \in Remote : seen[d] \subseteq seen'[d]
            BY <1>3, <2>1 DEF Handle, FeedInv
        <3> QED  BY <1>1, <3>1, <3>2 DEF FeedInv, FeedRecorded, ToldOnce
    <2> QED  BY <2>2, <2>3
<1>4. ASSUME NEW d \in Remote, ApplySnapshot(d)
      PROVE  FeedInv'
    <2>1. UNCHANGED seen
        BY <1>4 DEF ApplySnapshot
    <2>2. CASE UNCHANGED feed
        BY <1>2, <2>1, <2>2
    <2>3. CASE feed' = [feed EXCEPT ![d] = Append(@, 0)]
        BY <1>1, <2>1, <2>3, FeedGrows
    <2> QED  BY <1>4, <2>2, <2>3 DEF ApplySnapshot
<1>5. CASE HostStep \/ HostRestart
    BY <1>2, <1>5 DEF HostStep, HostRestart, homeVars
<1>6. CASE \E rows \in SUBSET {k \in DOMAIN outbox : Eligible(k)} : Select(rows)
    BY <1>2, <1>6 DEF Select, homeVars
<1>7. CASE \E k \in batch : Handle(k) \/ SettlePosted(k)
    BY <1>2, <1>3, <1>7 DEF SettlePosted, homeVars
<1>8. CASE Answer
    BY <1>2, <1>8 DEF Answer, TerminalAnswer, RebindAnswer
<1>9. CASE Refresh
    BY <1>2, <1>4, <1>9 DEF Refresh, ReadGroupRow, ReadMemberList, AbandonRefresh, homeVars
<1>10. CASE UNCHANGED fedVars
    BY <1>2, <1>10 DEF fedVars, homeVars
<1> QED
    BY <1>5, <1>6, <1>7, <1>8, <1>9, <1>10 DEF FedNext

LEMMA FeedInit == FedInit => FeedInv
<1>1. FedInit => TypeInv
    BY InitTypes DEF FedInit
<1>2. FedInit => /\ feed \in [Remote -> Seq(Nat)] /\ seen \in [Remote -> SUBSET Nat]
                 /\ FeedRecorded /\ ToldOnce
    BY DEF FedInit, FeedRecorded, ToldOnce
<1> QED
    BY <1>1, <1>2 DEF FeedInv

\* A client of a home is told of each event of the group at most once, though
\* its notification may be delivered any number of times (inbound.py
\* _record_inbound).
THEOREM ClientsToldOnce == FedSpec => []ToldOnce
<1>1. FeedInv /\ [FedNext]_fedVars => FeedInv'
    BY FeedStep
<1>2. FeedInv => ToldOnce
    BY DEF FeedInv
<1> QED
    BY <1>1, <1>2, FeedInit, PTL DEF FedSpec
-----------------------------------------------------------------------------
(* The number of views.                                                     *)

MembershipInv == ViewInv /\ FeedInv /\ OneViewPerMembership

\* Both sets are finite.
LEMMA SetsFinite ==
    ASSUME NEW n \in Nat, NEW V \in SUBSET Remote, NEW B \in SUBSET (Remote \X (1..n))
    PROVE  /\ IsFiniteSet(V) /\ IsFiniteSet(B)
           /\ Cardinality(V) \in Nat /\ Cardinality(B) \in Nat
<1>1. IsFiniteSet(Remote) /\ IsFiniteSet(1..n)
    BY AgentsAssumption, FS_Subset, FS_Interval
<1>2. IsFiniteSet(Remote \X (1..n))
    BY <1>1, FS_Product
<1>3. IsFiniteSet(V) /\ IsFiniteSet(B)
    BY <1>1, <1>2, FS_Subset
<1> QED
    BY <1>3, FS_CardinalityType

LEMMA BeginningsKept ==
    ASSUME LogKept, \A d \in Remote : seen[d] \subseteq seen'[d], NEW h
    PROVE  BeginningsAt(h) \subseteq BeginningsAt(h)'
BY DEF LogKept, BeginningsAt, ActivatesTarget

\* A step that gives no agent a view.
LEMMA NoNewView ==
    ASSUME MembershipInv, ViewInv', LogKept,
           \A d \in Remote : seen[d] \subseteq seen'[d],
           \A d \in Remote : Exists(d)' => Exists(d)
    PROVE  OneViewPerMembership'
<1> SUFFICES ASSUME NEW h \in Homes
             PROVE  Cardinality(ViewsAt(h)') <= Cardinality(BeginningsAt(h)')
    BY DEF OneViewPerMembership, Homes
<1>1. /\ group.seq \in Nat /\ DOMAIN log = 1..group.seq
      /\ group'.seq \in Nat /\ DOMAIN log' = 1..group'.seq
    BY DEF MembershipInv, ViewInv, HostFacts, OpsInv, LogIsGapless, TypeInv, TypeOK
<1>2. /\ ViewsAt(h) \in SUBSET Remote /\ BeginningsAt(h) \in SUBSET (Remote \X (1..group.seq))
      /\ ViewsAt(h)' \in SUBSET Remote
      /\ BeginningsAt(h)' \in SUBSET (Remote \X (1..group'.seq))
    BY <1>1 DEF ViewsAt, BeginningsAt
<1>3. ViewsAt(h)' \subseteq ViewsAt(h)
    BY DEF ViewsAt
<1>4. BeginningsAt(h) \subseteq BeginningsAt(h)'
    BY BeginningsKept
<1>5. /\ IsFiniteSet(ViewsAt(h)) /\ IsFiniteSet(BeginningsAt(h)')
      /\ Cardinality(ViewsAt(h)) \in Nat /\ Cardinality(BeginningsAt(h)) \in Nat
      /\ Cardinality(ViewsAt(h)') \in Nat /\ Cardinality(BeginningsAt(h)') \in Nat
    BY <1>1, <1>2, SetsFinite
<1>6. /\ Cardinality(ViewsAt(h)') <= Cardinality(ViewsAt(h))
      /\ Cardinality(BeginningsAt(h)) <= Cardinality(BeginningsAt(h)')
    BY <1>3, <1>4, <1>5, FS_Subset
<1>7. Cardinality(ViewsAt(h)) <= Cardinality(BeginningsAt(h))
    BY DEF MembershipInv, OneViewPerMembership
<1> QED
    BY <1>5, <1>6, <1>7

\* A notification gives its target a view only if it tells of the beginning of
\* a membership, for the first time.
LEMMA HandleCounts ==
    ASSUME MembershipInv, ViewInv', NEW k \in batch, Handle(k)
    PROVE  OneViewPerMembership'
<1> DEFINE s == k[1]
           d == k[2]
           v == Verdict(d, s)
<1>1. s \in DOMAIN log /\ d \in Remote
    BY DEF MembershipInv, ViewInv, HostFacts, OpsInv, TypeInv, TypeOK, RowsOnLog
<1>2. /\ UNCHANGED log /\ LogKept
      /\ home \in [Remote -> HomeRows] /\ seen \in [Remote -> SUBSET Nat] /\ s \in Nat
      /\ group.seq \in Nat /\ DOMAIN log = 1..group.seq
    BY DEF Handle, vars, tables, LogKept, MembershipInv, ViewInv, ViewTypes, FeedInv, HostFacts,
           OpsInv, TypeInv, TypeOK, LogIsGapless
<1>3. /\ seen'[d] = IF v \in {"applied", "consumed"} THEN seen[d] \cup {s} ELSE seen[d]
      /\ \A e \in Remote \ {d} : seen'[e] = seen[e]
      /\ \A e \in Remote : seen[e] \subseteq seen'[e]
    BY <1>1, <1>2 DEF Handle
<1>4. \A e \in Remote \ {d} : home'[e] = home[e]
    BY <1>2 DEF Handle, ApplyMessage, ApplyState
<1>5. CASE Exists(d) \/ v # "applied"
    <2>1. \A e \in Remote : Exists(e)' => Exists(e)
        <3>1. v # "applied" => UNCHANGED home
            BY DEF Handle
        <3> QED  BY <1>4, <1>5, <3>1 DEF Exists
    <2> QED  BY <1>2, <1>3, <2>1, NoNewView
<1>6. CASE ~Exists(d) /\ v = "applied"
    <2>1. ~IsMessage(log[s])
        BY <1>6 DEF Verdict, MessageVerdict
    <2>2. StateVerdict(d, s) = "applied"
        BY <1>6, <2>1 DEF Verdict
    <2>3. s \notin seen[d] /\ ActivatesTarget(log[s], d)
        BY <1>6, <2>2 DEF StateVerdict
    <2> SUFFICES ASSUME NEW h \in Homes
                 PROVE  Cardinality(ViewsAt(h)') <= Cardinality(BeginningsAt(h)')
        BY DEF OneViewPerMembership, Homes
    <2>4. /\ ViewsAt(h) \in SUBSET Remote /\ BeginningsAt(h) \in SUBSET (Remote \X (1..group.seq))
          /\ ViewsAt(h)' \in SUBSET Remote
          /\ BeginningsAt(h)' \in SUBSET (Remote \X (1..group.seq))
        BY <1>2 DEF ViewsAt, BeginningsAt
    <2>5. /\ IsFiniteSet(ViewsAt(h)) /\ IsFiniteSet(BeginningsAt(h))
          /\ IsFiniteSet(ViewsAt(h)') /\ IsFiniteSet(BeginningsAt(h)')
          /\ Cardinality(ViewsAt(h)) \in Nat /\ Cardinality(BeginningsAt(h)) \in Nat
          /\ Cardinality(ViewsAt(h)') \in Nat /\ Cardinality(BeginningsAt(h)') \in Nat
        BY <1>2, <2>4, SetsFinite
    <2>6. Cardinality(ViewsAt(h)) <= Cardinality(BeginningsAt(h))
        BY DEF MembershipInv, OneViewPerMembership
    <2>7. CASE HomeOf[d] = h
        <3>1. ViewsAt(h)' \subseteq ViewsAt(h) \cup {d}
            BY <1>4 DEF ViewsAt, Exists
        <3>2. Cardinality(ViewsAt(h)') <= Cardinality(ViewsAt(h)) + 1
            <4>1. /\ IsFiniteSet(ViewsAt(h) \cup {d})
                  /\ Cardinality(ViewsAt(h) \cup {d}) =
                         IF d \in ViewsAt(h) THEN Cardinality(ViewsAt(h))
                         ELSE Cardinality(ViewsAt(h)) + 1
                BY <2>5, FS_AddElement
            <4>2. Cardinality(ViewsAt(h)') <= Cardinality(ViewsAt(h) \cup {d})
                BY <3>1, <4>1, FS_Subset
            <4> QED  BY <2>5, <4>1, <4>2
        <3>3. <<d, s>> \notin BeginningsAt(h)
            BY <2>3 DEF BeginningsAt
        <3>4. BeginningsAt(h) \cup {<<d, s>>} \subseteq BeginningsAt(h)'
            <4>1. <<d, s>> \in BeginningsAt(h)'
                BY <1>1, <1>2, <1>3, <1>6, <2>3, <2>7 DEF BeginningsAt, ActivatesTarget
            <4>2. BeginningsAt(h) \subseteq BeginningsAt(h)'
                BY <1>2, <1>3, BeginningsKept
            <4> QED  BY <4>1, <4>2
        <3>5. Cardinality(BeginningsAt(h)) + 1 <= Cardinality(BeginningsAt(h)')
            <4>1. Cardinality(BeginningsAt(h) \cup {<<d, s>>}) = Cardinality(BeginningsAt(h)) + 1
                BY <2>5, <3>3, FS_AddElement
            <4>2. Cardinality(BeginningsAt(h) \cup {<<d, s>>}) <= Cardinality(BeginningsAt(h)')
                BY <2>5, <3>4, FS_Subset
            <4> QED  BY <4>1, <4>2
        <3> QED  BY <2>5, <2>6, <3>2, <3>5
    <2>8. CASE HomeOf[d] # h
        <3>1. ViewsAt(h)' \subseteq ViewsAt(h)
            BY <1>4, <2>8 DEF ViewsAt, Exists
        <3>2. BeginningsAt(h) \subseteq BeginningsAt(h)'
            BY <1>2, <1>3, BeginningsKept
        <3>3. /\ Cardinality(ViewsAt(h)') <= Cardinality(ViewsAt(h))
              /\ Cardinality(BeginningsAt(h)) <= Cardinality(BeginningsAt(h)')
            BY <2>5, <3>1, <3>2, FS_Subset
        <3> QED  BY <2>5, <2>6, <3>3
    <2> QED  BY <2>7, <2>8
<1> QED
    BY <1>5, <1>6

\* A rebind moves a view; both DIDs have the same home.
LEMMA RebindCounts ==
    ASSUME MembershipInv, NEW a \in answers, RebindAnswer(a)
    PROVE  OneViewPerMembership'
<1> DEFINE old == a.req.previous
           new == a.req.sender
<1>1. /\ UNCHANGED <<log, seen>>
      /\ old \in Remote /\ new \in Remote /\ HomeOf[old] = HomeOf[new]
      /\ Exists(old) /\ ~Exists(new)
      /\ home' = [home EXCEPT ![new] = home[old], ![old] = NoView]
    BY DEF RebindAnswer, vars, tables
<1>2. home \in [Remote -> HomeRows] /\ old # new
    BY <1>1 DEF MembershipInv, ViewInv, ViewTypes
<1> HIDE DEF old, new
<1>3. /\ home'[old] = NoView /\ home'[new] = home[old]
      /\ \A e \in Remote \ {old, new} : home'[e] = home[e]
    BY <1>1, <1>2
<1>4. ~Exists(old)' /\ Exists(new)'
    BY <1>1, <1>3 DEF Exists, NoView
<1> SUFFICES ASSUME NEW h \in Homes
             PROVE  Cardinality(ViewsAt(h)') <= Cardinality(BeginningsAt(h)')
    BY DEF OneViewPerMembership, Homes
<1>5. BeginningsAt(h)' = BeginningsAt(h)
    BY <1>1 DEF BeginningsAt
<1>6. Cardinality(ViewsAt(h)) <= Cardinality(BeginningsAt(h))
    BY DEF MembershipInv, OneViewPerMembership
<1>7. IsFiniteSet(ViewsAt(h)) /\ Cardinality(ViewsAt(h)) \in Nat
    <2>1. ViewsAt(h) \in SUBSET Remote
        BY DEF ViewsAt
    <2>2. IsFiniteSet(Remote)
        BY AgentsAssumption, FS_Subset
    <2>3. IsFiniteSet(ViewsAt(h))
        BY <2>1, <2>2, FS_Subset
    <2> QED  BY <2>3, FS_CardinalityType
<1>8. CASE HomeOf[new] = h
    <2>1. ViewsAt(h)' = (ViewsAt(h) \ {old}) \cup {new} /\ old \in ViewsAt(h) /\ new \notin ViewsAt(h)
        BY <1>1, <1>2, <1>3, <1>4, <1>8 DEF ViewsAt, Exists
    <2>2. /\ IsFiniteSet(ViewsAt(h) \ {old})
          /\ Cardinality(ViewsAt(h) \ {old}) = Cardinality(ViewsAt(h)) - 1
        BY <1>7, <2>1, FS_RemoveElement
    <2>3. Cardinality((ViewsAt(h) \ {old}) \cup {new}) = (Cardinality(ViewsAt(h)) - 1) + 1
        BY <2>1, <2>2, FS_AddElement
    <2>4. Cardinality(ViewsAt(h)') = Cardinality(ViewsAt(h))
        BY <1>7, <2>1, <2>3
    <2> QED  BY <1>5, <1>6, <2>4
<1>9. CASE HomeOf[new] # h
    <2>1. ViewsAt(h)' = ViewsAt(h)
        BY <1>1, <1>3, <1>9 DEF ViewsAt, Exists
    <2> QED  BY <1>5, <1>6, <2>1
<1> QED
    BY <1>8, <1>9

LEMMA MembershipStep ==
    ASSUME MembershipInv, [FedNext]_fedVars
    PROVE  MembershipInv'
<1>1. ViewInv' /\ FeedInv'
    BY ViewStep, FeedStep DEF MembershipInv
<1>2. LogKept
    BY ComposedStep, HostFactsStep DEF MembershipInv, ViewInv
<1>3. home \in [Remote -> HomeRows]
    BY DEF MembershipInv, ViewInv, ViewTypes
<1>4. CASE UNCHANGED <<home, seen>>
    BY <1>1, <1>2, <1>4, NoNewView DEF Exists, MembershipInv
<1>5. ASSUME NEW a \in answers, TerminalAnswer(a)
      PROVE  MembershipInv'
    <2>1. UNCHANGED seen
        BY <1>5 DEF TerminalAnswer
    <2>2. \/ UNCHANGED home
          \/ \E d \in Remote : Exists(d) /\ \A e \in Remote \ {d} : home'[e] = home[e]
        BY <1>3, <1>5 DEF TerminalAnswer, EndView
    <2>3. \A d \in Remote : Exists(d)' => Exists(d)
        BY <2>2 DEF Exists
    <2> QED  BY <1>1, <1>2, <2>1, <2>3, NoNewView DEF MembershipInv
<1>6. ASSUME NEW d \in Remote, ApplySnapshot(d)
      PROVE  MembershipInv'
    <2>1. UNCHANGED seen
        BY <1>6 DEF ApplySnapshot
    <2>2. UNCHANGED home \/ (Exists(d) /\ \A e \in Remote \ {d} : home'[e] = home[e])
        BY <1>3, <1>6 DEF ApplySnapshot, Refreshable, Exists
    <2>3. \A e \in Remote : Exists(e)' => Exists(e)
        BY <2>2 DEF Exists
    <2> QED  BY <1>1, <1>2, <2>1, <2>3, NoNewView DEF MembershipInv
<1>7. CASE HostStep \/ HostRestart
    BY <1>4, <1>1, <1>7 DEF HostStep, HostRestart, homeVars
<1>8. CASE \E rows \in SUBSET {k \in DOMAIN outbox : Eligible(k)} : Select(rows)
    BY <1>4, <1>8 DEF Select, homeVars
<1>9. CASE \E k \in batch : Handle(k) \/ SettlePosted(k)
    BY <1>1, <1>4, <1>9, HandleCounts DEF SettlePosted, homeVars, MembershipInv
<1>10. CASE Answer
    BY <1>1, <1>5, <1>10, RebindCounts DEF Answer, MembershipInv
<1>11. CASE Refresh
    BY <1>4, <1>6, <1>11 DEF Refresh, ReadGroupRow, ReadMemberList, AbandonRefresh, homeVars
<1>12. CASE UNCHANGED fedVars
    BY <1>4, <1>12 DEF fedVars, homeVars
<1> QED
    BY <1>7, <1>8, <1>9, <1>10, <1>11, <1>12 DEF FedNext

\* No home has more views of a group than memberships it was told of, whatever
\* is retried around a rebind (inbound.py group_state_changed, routing.py
\* _apply_terminal_projection).
THEOREM ViewsOfMemberships == FedSpec => []OneViewPerMembership
<1>1. FedInit => MembershipInv
    <2>1. ASSUME FedInit PROVE OneViewPerMembership
        <3> SUFFICES ASSUME NEW h \in Homes
                     PROVE  Cardinality(ViewsAt(h)) <= Cardinality(BeginningsAt(h))
            BY DEF OneViewPerMembership
        <3>1. ViewsAt(h) = {} /\ BeginningsAt(h) = {}
            BY <2>1 DEF FedInit, ViewsAt, BeginningsAt, Exists, NoView
        <3> QED  BY <3>1, FS_EmptySet
    <2> QED  BY <2>1, FeedInit, ViewInit DEF MembershipInv
<1>2. MembershipInv /\ [FedNext]_fedVars => MembershipInv'
    BY MembershipStep
<1>3. MembershipInv => OneViewPerMembership
    BY DEF MembershipInv
<1> QED
    BY <1>1, <1>2, <1>3, PTL DEF FedSpec
=============================================================================
