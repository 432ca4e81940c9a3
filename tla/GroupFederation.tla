-------------------------- MODULE GroupFederation --------------------------
(***************************************************************************)
(* A Group Host and the Member Homes of its remote members.  The host is   *)
(* GroupHost; this module adds what happens at the other end of the HTTP   *)
(* calls: notifications (messaging/groups/inbound.py), commands a home     *)
(* forwards for its users and roster reads (routing.py), and the           *)
(* projections they write (projection.py).                                 *)
(*                                                                         *)
(* A notification is posted, handled by the home, and then marked by the   *)
(* worker: three moments between which either side may stop, and between   *)
(* which answers to forwarded commands and roster reads arrive.            *)
(***************************************************************************)
EXTENDS GroupHost

CONSTANTS
    HomeOf,         \* remote DID -> the service that is its home
    Lossy,          \* whether calls between services may fail
    MaxRefreshes,   \* bound: remote DID -> its roster reads
    NoSnapshot

Homes == {HomeOf[d] : d \in Remote}

ASSUME FederationAssumption ==
    /\ DOMAIN HomeOf = Remote
    /\ Lossy \in BOOLEAN
    /\ MaxRefreshes \in [Remote -> Nat]

VARIABLES
    posted,     \* batch row -> what the home answered
    home,       \* group_views of the remote agents, at their homes
    roster,     \* group_member_views: the DIDs shown as active members
    seen,       \* inbound_peer_events: event seqs
    feed,       \* sync_events: event seqs, 0 for a roster read
    mailbox,    \* group_message_views: event seqs
    terminals,  \* group_operations of a home: answers to forwarded leaves and removals
    snapshot,   \* roster read in flight
    refreshes

homeVars == <<home, roster, seen, feed, mailbox, terminals>>

fedVars == <<vars, posted, homeVars, snapshot, refreshes>>

Exists(d) == home[d].status # "none"
-----------------------------------------------------------------------------
(* group.state_changed and group.incoming at the home of d, for event s.    *)

Role(e) == IF e.req.method = "group.add" THEN e.req.role ELSE "member"

ActivatesTarget(e, d) == e.type = "member-activated" /\ e.subject = d

\* Mutant: a member who comes back is treated like any other event.
NeverReactivated(d, s) == FALSE

\* A v2 member comes back; the view may skip what happened in between.
Reactivated(d, s) ==
    /\ log[s].req.profile = "v2"
    /\ Exists(d) /\ home[d].status # "active"
    /\ ActivatesTarget(log[s], d)
    /\ log[s].version > home[d].version

\* Mutant: roster reads leave no trace for late notifications.
NeverCovered(d, s) == FALSE

\* _covered_by_observation
Covered(d, s) ==
    0 < s /\ s <= home[d].obsSeq /\ 0 < log[s].version /\ log[s].version <= home[d].obsVersion

\* _matches_forwarded_terminal
MatchesTerminal(d, s) ==
    /\ log[s].req.profile = "v2"
    /\ log[s].type \in EndTypes /\ log[s].subject = d
    /\ \E a \in terminals[HomeOf[d]] : a.req = log[s].req /\ a.seq = s

\* Mutant: inbound_peer_events is not consulted.
StateVerdictNoDedup(d, s) ==
    IF Exists(d) /\ s > home[d].seq + 1 /\ ~Reactivated(d, s) THEN "rejected"
    ELSE IF ~Exists(d) /\ ~ActivatesTarget(log[s], d) THEN "rejected"
    ELSE IF Exists(d) /\ s <= home[d].seq
         THEN IF Covered(d, s) THEN "consumed"
              ELSE IF ~MatchesTerminal(d, s) THEN "rejected"
              ELSE IF s < home[d].seq THEN "consumed"
              ELSE "applied"
    ELSE "applied"

\* What group_state_changed decides, in the order of its checks.
StateVerdict(d, s) ==
    IF Exists(d) /\ s > home[d].seq + 1 /\ ~Reactivated(d, s) THEN "rejected"
    ELSE IF ~Exists(d) /\ ~ActivatesTarget(log[s], d) THEN "rejected"
    ELSE IF s \in seen[d] THEN "duplicate"
    ELSE IF Exists(d) /\ s <= home[d].seq
         THEN IF Covered(d, s) THEN "consumed"
              ELSE IF ~MatchesTerminal(d, s) THEN "rejected"
              ELSE IF s < home[d].seq THEN "consumed"
              ELSE "applied"
    ELSE "applied"

StatusAfter(d, s) ==
    IF log[s].type = "member-removed" /\ log[s].subject = d THEN "removed"
    ELSE IF log[s].type = "member-left" /\ log[s].subject = d THEN "left"
    ELSE IF Reactivated(d, s) \/ ~Exists(d) THEN "active"
    ELSE home[d].status

\* Mutant: only endings reach the roster.
RosterAfterEndings(d, s) ==
    IF log[s].type \in EndTypes THEN roster[d] \ {log[s].subject} ELSE roster[d]

RosterAfter(d, s) ==
    IF log[s].type \in EndTypes THEN roster[d] \ {log[s].subject}
    ELSE IF log[s].subject \in Agents THEN roster[d] \cup {log[s].subject}
    ELSE roster[d]

RoleAfter(d, s) ==
    IF Reactivated(d, s) \/ ~Exists(d) THEN Role(log[s]) ELSE home[d].role

ViewAfter(d, s) ==
    [home[d] EXCEPT !.status = StatusAfter(d, s), !.role = RoleAfter(d, s),
                    !.seq = s, !.version = log[s].version]

ApplyState(d, s) ==
    /\ home' = [home EXCEPT ![d] = ViewAfter(d, s)]
    /\ roster' = [roster EXCEPT ![d] = RosterAfter(d, s)]
    /\ feed' = [feed EXCEPT ![d] = Append(@, s)]
    /\ UNCHANGED mailbox

\* _accepted_before_terminal: the message belongs to the membership that a
\* forwarded leave or removal has just ended.
Activations(d) ==
    {i \in DOMAIN feed[d] : feed[d][i] # 0 /\ ActivatesTarget(log[feed[d][i]], d)}

BeforeTerminal(d, s) ==
    /\ log[s].req.profile = "v2"
    /\ home[d].status \in {"left", "removed"}
    /\ s < home[d].seq /\ log[s].version < home[d].version
    /\ \E i \in Activations(d) : (\A j \in Activations(d) : j <= i) /\ s > feed[d][i]
    /\ \E a \in terminals[HomeOf[d]] :
          /\ a.req.method = IF home[d].status = "left" THEN "group.leave" ELSE "group.remove"
          /\ Departed(a.req) = d
          /\ a.seq = home[d].seq /\ a.version = home[d].version

\* Mutant: a late message is consumed like a late change of state.
MessageVerdictConsuming(d, s) ==
    IF ~Exists(d) THEN "rejected"
    ELSE IF home[d].status # "active" /\ ~BeforeTerminal(d, s) THEN "rejected"
    ELSE IF s > home[d].seq + 1 THEN "rejected"
    ELSE IF s \in seen[d] THEN "duplicate"
    ELSE IF s <= home[d].seq /\ ~BeforeTerminal(d, s)
         THEN IF Covered(d, s) THEN "consumed" ELSE "rejected"
    ELSE "applied"

\* What group_incoming decides.
MessageVerdict(d, s) ==
    IF ~Exists(d) THEN "rejected"
    ELSE IF home[d].status # "active" /\ ~BeforeTerminal(d, s) THEN "rejected"
    ELSE IF s > home[d].seq + 1 THEN "rejected"
    ELSE IF s \in seen[d] THEN "duplicate"
    ELSE IF s <= home[d].seq /\ ~BeforeTerminal(d, s) /\ ~Covered(d, s) THEN "rejected"
    ELSE "applied"

Larger(x, y) == IF x > y THEN x ELSE y

\* Mutant: the state version is taken from the message, however late.
ApplyMessageVersion(d, s) ==
    /\ home' = [home EXCEPT ![d].seq = Larger(@, s), ![d].version = log[s].version]
    /\ mailbox' = [mailbox EXCEPT ![d] = @ \cup {s}]
    /\ feed' = [feed EXCEPT ![d] = Append(@, s)]
    /\ UNCHANGED roster

ApplyMessage(d, s) ==
    /\ home' = [home EXCEPT ![d].seq = Larger(@, s), ![d].version = Larger(@, log[s].version)]
    /\ mailbox' = [mailbox EXCEPT ![d] = @ \cup {s}]
    /\ feed' = [feed EXCEPT ![d] = Append(@, s)]
    /\ UNCHANGED roster

Verdict(d, s) == IF IsMessage(log[s]) THEN MessageVerdict(d, s) ELSE StateVerdict(d, s)

\* The home handles a posted row in one transaction; a rejection rolls it back.
Handle(k) ==
    LET s == k[1]
        d == k[2]
        v == Verdict(d, s)
    IN  /\ k \in batch
        /\ posted[k] = "no"
        /\ posted' = [posted EXCEPT ![k] = IF v = "rejected" THEN "rejected" ELSE "accepted"]
        /\ seen' = IF v \in {"applied", "consumed"} THEN [seen EXCEPT ![d] = @ \cup {s}] ELSE seen
        /\ IF v = "applied"
           THEN IF IsMessage(log[s]) THEN ApplyMessage(d, s) ELSE ApplyState(d, s)
           ELSE UNCHANGED <<home, roster, feed, mailbox>>
        /\ UNCHANGED <<vars, terminals, snapshot, refreshes>>
-----------------------------------------------------------------------------
(* The worker, as GroupHost has it, with the answers of the homes.          *)

Select(rows) ==
    /\ SelectBatch(rows)
    /\ posted' = [k \in rows |-> "no"]
    /\ UNCHANGED <<homeVars, snapshot, refreshes>>

\* A row counts as delivered when the home accepted it and its answer arrived;
\* on a lossy network the call may fail before or after the home handled it.
SettlePosted(k) ==
    /\ \/ posted[k] = "accepted" /\ MarkDelivered(k)
       \/ (posted[k] = "rejected" \/ Lossy) /\ MarkFailed(k, FALSE)
    /\ posted' = [j \in batch \ {k} |-> posted[j]]
    /\ UNCHANGED <<homeVars, snapshot, refreshes>>

\* The host's own steps.
HostStep ==
    /\ Serve \/ Proceed \/ Migrate \/ \E h \in Handles, d \in Agents : RebindHandle(h, d)
    /\ UNCHANGED <<posted, homeVars, snapshot, refreshes>>

HostRestart ==
    /\ Restart
    /\ posted' = [k \in {} |-> "no"]
    /\ UNCHANGED <<homeVars, snapshot, refreshes>>
-----------------------------------------------------------------------------
(* _apply_terminal_projection: a home gets the answer to a command it       *)
(* forwarded, at any time after the host gave it and once per retry.        *)

\* Mutant: the answer is applied to a newer view too.
EndViewAlways(d, status, a) ==
    IF d \in Remote /\ Exists(d)
    THEN [home EXCEPT ![d].status = status, ![d].seq = a.seq, ![d].version = a.version]
    ELSE home

EndView(d, status, a) ==
    IF d \in Remote /\ Exists(d) /\ home[d].seq <= a.seq
    THEN [home EXCEPT ![d].status = status, ![d].seq = a.seq, ![d].version = a.version]
    ELSE home

TerminalAnswer(a) ==
    LET r == a.req
        h == HomeOf[r.sender]
    IN  /\ r.method \in {"group.leave", "group.remove"}
        /\ r.sender \in Remote
        /\ \A p \in terminals[h] : OpKey(p.req) = OpKey(r) => p = a
        /\ terminals' = IF r.profile = "v2" THEN [terminals EXCEPT ![h] = @ \cup {a}]
                        ELSE terminals
        /\ home' = IF r.method = "group.leave" THEN EndView(r.sender, "left", a)
                   ELSE IF r.target \in Remote /\ HomeOf[r.target] = h
                   THEN EndView(r.target, "removed", a)
                   ELSE home
        /\ UNCHANGED <<vars, posted, roster, seen, feed, mailbox, snapshot, refreshes>>

NoView == [status |-> "none", role |-> "member", seq |-> 0, version |-> 0, obsSeq |-> 0,
           obsVersion |-> 0]

\* The view, roster and messages of the previous DID become those of the new
\* one; they stay when the new DID has a view already (primary key).
RebindAnswer(a) ==
    LET r == a.req
    IN  /\ r.method = "group.rebind_member"
        /\ r.sender \in Remote /\ r.previous \in Remote
        /\ HomeOf[r.previous] = HomeOf[r.sender]
        /\ Exists(r.previous) /\ ~Exists(r.sender)
        /\ home' = [home EXCEPT ![r.sender] = home[r.previous], ![r.previous] = NoView]
        /\ roster' = [roster EXCEPT ![r.sender] = roster[r.previous], ![r.previous] = {}]
        /\ mailbox' = [mailbox EXCEPT ![r.sender] = mailbox[r.previous], ![r.previous] = {}]
        /\ UNCHANGED <<vars, posted, seen, feed, terminals, snapshot, refreshes>>
-----------------------------------------------------------------------------
(* refresh_remote_group_members: group.get_info reads the group row and the *)
(* member list in two statements, and the answer travels.                   *)

ReadGroupRow(d) ==
    /\ snapshot[d] = NoSnapshot
    /\ refreshes[d] < MaxRefreshes[d]
    /\ refreshes' = [refreshes EXCEPT ![d] = @ + 1]
    /\ snapshot' = [snapshot EXCEPT ![d] = [version |-> group.version, seq |-> group.seq,
                                            members |-> {}, role |-> "member"]]
    /\ UNCHANGED <<vars, posted, homeVars>>

ReadMemberList(d) ==
    /\ snapshot[d] # NoSnapshot /\ snapshot[d].members = {}
    /\ d \in Active(members)
    /\ snapshot' = [snapshot EXCEPT ![d].members = Active(members), ![d].role = members[d].role]
    /\ UNCHANGED <<vars, posted, homeVars, refreshes>>

\* refresh_remote_member_projection does nothing for an ended or newer view.
Refreshable(d) ==
    /\ home[d].status = "active"
    /\ snapshot[d].version >= home[d].version
    /\ snapshot[d].seq >= home[d].seq

NewObservation(d) ==
    snapshot[d].seq > home[d].obsSeq \/ snapshot[d].version > home[d].obsVersion

Observed(snap) ==
    [status |-> "active", role |-> snap.role, seq |-> snap.seq, version |-> snap.version,
     obsSeq |-> snap.seq, obsVersion |-> snap.version]

ApplySnapshot(d) ==
    LET snap == snapshot[d]
    IN  /\ snap # NoSnapshot /\ snap.members # {}
        /\ IF Refreshable(d)
           THEN /\ home' = [home EXCEPT ![d] = Observed(snap)]
                /\ roster' = [roster EXCEPT ![d] = snap.members]
                /\ feed' = IF NewObservation(d) THEN [feed EXCEPT ![d] = Append(@, 0)] ELSE feed
           ELSE UNCHANGED <<home, roster, feed>>
        /\ snapshot' = [snapshot EXCEPT ![d] = NoSnapshot]
        /\ UNCHANGED <<vars, posted, seen, mailbox, terminals, refreshes>>

\* The call fails, or the reader is not a member any more.
AbandonRefresh(d) ==
    /\ snapshot[d] # NoSnapshot
    /\ snapshot' = [snapshot EXCEPT ![d] = NoSnapshot]
    /\ UNCHANGED <<vars, posted, homeVars, refreshes>>
-----------------------------------------------------------------------------
FedInit ==
    /\ Init
    /\ posted = [k \in {} |-> "no"]
    /\ home = [d \in Remote |-> NoView]
    /\ roster = [d \in Remote |-> {}]
    /\ seen = [d \in Remote |-> {}]
    /\ feed = [d \in Remote |-> <<>>]
    /\ mailbox = [d \in Remote |-> {}]
    /\ terminals = [h \in Homes |-> {}]
    /\ snapshot = [d \in Remote |-> NoSnapshot]
    /\ refreshes = [d \in Remote |-> 0]

Answer == \E a \in answers : TerminalAnswer(a) \/ RebindAnswer(a)

Refresh ==
    \E d \in Remote :
        ReadGroupRow(d) \/ ReadMemberList(d) \/ ApplySnapshot(d) \/ AbandonRefresh(d)

FedNext ==
    \/ HostStep
    \/ HostRestart
    \/ \E rows \in SUBSET {k \in DOMAIN outbox : Eligible(k)} : Select(rows)
    \/ \E k \in batch : Handle(k) \/ SettlePosted(k)
    \/ Answer
    \/ Refresh

FedSpec == FedInit /\ [][FedNext]_fedVars

\* The fairness of GroupHost; a home that is up answers.
FedFairSpec ==
    /\ FedSpec
    /\ WF_fedVars(\E k \in batch : Handle(k) \/ SettlePosted(k))
    /\ \A t \in Remote : SF_fedVars(\E rows \in SUBSET {k \in DOMAIN outbox : Eligible(k)} :
                                        Select(rows) /\ \E k \in rows : k[2] = t)
-----------------------------------------------------------------------------
(* Properties. *)

\* The pair of numbers a home shows is one the host's log has had, whatever
\* notifications, answers and roster reads it was pieced together from.
HomeViewOnLog ==
    \A d \in Remote : Exists(d) => home[d].version = log[home[d].seq].version

\* A home that has caught up with the host agrees with it on whether, and as
\* what, its agent is a member.
HomeAgreesAtHead ==
    \A d \in Remote :
        Exists(d) /\ home[d].seq = group.seq =>
            /\ home[d].status = "active" <=> d \in Active(members)
            /\ d \in Active(members) => home[d].role = members[d].role

LastActivation(d) ==
    CHOOSE s \in DOMAIN log : Activates(log[s], d) /\ \A u \in DOMAIN log : Activates(log[u], d) => u <= s

\* A home that read the roster during the current membership and has caught up
\* shows exactly the members.
RosterAtHead ==
    \A d \in Remote :
        /\ home[d].status = "active" /\ home[d].seq = group.seq
        /\ d \in Active(members) /\ home[d].obsSeq >= LastActivation(d)
        => roster[d] = Active(members)

\* What a home shows once it has caught up is so, though it was pieced together
\* from notifications, answers and roster reads that overtook each other.
HomeTrueAtHead == HomeAgreesAtHead /\ RosterAtHead

\* A message the worker counts as delivered is stored at the home, and a home
\* stores only messages of its agent's memberships, also when they arrive
\* after the answer that ended one.
DeliveredIsStored ==
    /\ \A k \in DOMAIN outbox :
          outbox[k].status = "delivered" /\ IsMessage(log[k[1]]) => k[1] \in mailbox[k[2]]
    /\ \A d \in Remote : \A s \in mailbox[d] : IsMessage(log[s]) /\ ActiveAfter(log, d, s)

\* A client of the home is told of each event at most once, though the same
\* event may come as a retried notification and as the answer to a command.
ToldOnce ==
    \A d \in Remote : \A i, j \in DOMAIN feed[d] :
        feed[d][i] = feed[d][j] /\ feed[d][i] # 0 => i = j

\* The views of the group a home keeps, and the memberships whose beginning it
\* was told of.
ViewsAt(h) == {d \in Remote : HomeOf[d] = h /\ Exists(d)}

BeginningsAt(h) ==
    {k \in Remote \X DOMAIN log :
        HomeOf[k[1]] = h /\ k[2] \in seen[k[1]] /\ ActivatesTarget(log[k[2]], k[1])}

\* A home keeps no more views of the group than memberships it was told of: once
\* a rebind has moved a view to another DID, no retried notification brings back
\* the view of the previous one.
OneViewPerMembership ==
    \A h \in Homes : Cardinality(ViewsAt(h)) <= Cardinality(BeginningsAt(h))

\* No late notification, answer or roster read takes a view back.
ViewsAdvance ==
    [][\A d \in Remote :
          home[d].status # "none" /\ home'[d].status # "none" =>
              home'[d].seq >= home[d].seq /\ home'[d].version >= home[d].version]_fedVars

Undelivered(d) == {k \in DOMAIN outbox : k[2] = d /\ outbox[k].status # "delivered"}

\* On a network that loses nothing every notification is delivered: the home
\* refuses none for good, whatever overtook it.
AllDelivered == \A d \in Remote : Undelivered(d) # {} ~> Undelivered(d) = {}
=============================================================================
