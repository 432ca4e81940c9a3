---------------------------- MODULE AgentRegistry ---------------------------
(***************************************************************************)
(* The agents of an account (user_compat): registration tokens a daemon     *)
(* exchanges for an identity, the bindings of a human, a daemon and a       *)
(* runtime agent, and the inventory daemons report to and operators edit.  *)
(***************************************************************************)
EXTENDS Accounts

CONSTANTS
    Policies, Names,    \* invocation policies and display names of agents
    DefaultPolicy,      \* _default_invocation_policy
    DefaultName,        \* the name a first report brings along
    NoAgent,
    TokenLife           \* ttl_seconds of a registration token

ASSUME AgentsAssumption ==
    TokenLife \in Nat \ {0} /\ DefaultPolicy \in Policies /\ DefaultName \in Names

AgentStatuses == {"archived", "unbound"} \cup {c.status : c \in CallsOf({"report"})}

\* A row of agent_inventory_statuses.
AgentRow ==
    [daemon : Dids, controller : Dids, status : AgentStatuses, name : Names, policy : Policies,
     archived : BOOLEAN]

ASSUME AgentCallsAssumption ==
    /\ \A c \in CallsOf({"issue_token", "exchange_token"}) : c.did \in Dids
    /\ \A c \in CallsOf({"exchange_token"}) : c.content \in Contents
    /\ \A c \in CallsOf({"ensure_binding"}) : c.human \in Dids
    /\ \A c \in CallsOf({"report"}) : c.daemon \in Dids /\ c.agent \in Dids
    /\ \A c \in CallsOf({"sync_scope"}) : c.daemon \in Dids
    /\ \A c \in CallsOf({"set_policy"}) : c.policy \in Policies /\ c.agent \in Dids
    /\ \A c \in CallsOf({"rename"}) : c.name \in Names /\ c.agent \in Dids
    /\ \A c \in CallsOf({"archive", "unbind"}) : c.agent \in Dids
    /\ NoAgent \notin AgentRow

VARIABLES
    tokens,         \* agent_registration_tokens, in order of creation
    bindings,       \* message_agent_bindings, in order of insertion
    stamp,          \* the last value of a binding's updated_at
    inventory,      \* agent_inventory_statuses, by agent
    chosen          \* history: what operators were last told of their choices for an agent

agentVars == <<tokens, bindings, stamp, inventory, chosen>>
allVars == <<vars, agentVars>>

-----------------------------------------------------------------------------
(* Registration tokens. *)

\* issue_agent_token
IssueAuth(c) ==
    /\ c.op = "issue_token"
    /\ Authenticated(c.did)
    /\ Begin(c, "issue", 0)
    /\ UNCHANGED <<accountVars, clockVars, honoured, agentVars>>

IssueInsert(h) ==
    /\ h.step = "issue"
    /\ tokens' = Append(tokens, [owner |-> h.call.did, until |-> now + TokenLife,
                                 revoked |-> FALSE, used |-> FALSE, agent |-> NoAgent])
    /\ Finish(h)
    /\ UNCHANGED <<accountVars, clockVars, honoured, bindings, stamp, inventory, chosen>>

\* _agent_token_status
TokenActive(t) == ~tokens[t].revoked /\ ~tokens[t].used /\ now <= tokens[t].until

\* exchange_agent_token: the token is looked up and found active.
ExchangeLook(c) ==
    /\ c.op = "exchange_token"
    /\ \E t \in DOMAIN tokens : TokenActive(t) /\ Begin(c, "exchange", t)
    /\ UNCHANGED <<accountVars, clockVars, honoured, agentVars>>

\* exchange_agent_token: the transaction looks at the DID, not at the token.
ExchangeWrite(h) ==
    /\ h.step = "exchange"
    /\ documents[h.call.did] = NoDocument
    /\ tokens' = [tokens EXCEPT ![h.saw].used = TRUE, ![h.saw].agent = h.call.did]
    /\ documents' = IF h.call.document
                    THEN [documents EXCEPT ![h.call.did] =
                            [content |-> h.call.content, version |-> 1, active |-> TRUE]]
                    ELSE documents
    /\ Honour(h.call, h.since, "agent", h.saw)
    /\ Finish(h)
    /\ UNCHANGED <<users, pairs, otps, files, codes, nonces, updates, clockVars,
                   bindings, stamp, inventory, chosen>>

\* revoke_agent_token
RevokeToken(c) ==
    /\ c.op = "revoke_token"
    /\ \E t \in DOMAIN tokens : tokens' = [tokens EXCEPT ![t].revoked = TRUE]
    /\ Complete(c)
    /\ UNCHANGED <<accountVars, clockVars, honoured, bindings, stamp, inventory, chosen>>

-----------------------------------------------------------------------------
(* Bindings. *)

Triple(b) == <<b.human, b.daemon, b.runtime>>

Of(c) == {b \in DOMAIN bindings : Triple(bindings[b]) = Triple(c)}

\* The first row a SELECT without an order returns, or 0.
FirstOf(S) == IF S = {} THEN 0 ELSE CHOOSE b \in S : \A a \in S : b <= a

\* The row ORDER BY updated_at DESC LIMIT 1 returns.
LatestOf(S) == CHOOSE b \in S : \A a \in S : bindings[a].updated <= bindings[b].updated

Touched(b, status) == [bindings EXCEPT ![b].status = status, ![b].updated = stamp + 1]

\* ensure_agent_binding: the SELECT takes no lock.
EnsureLook(c) ==
    /\ c.op = "ensure_binding"
    /\ Begin(c, "bind", FirstOf(Of(c)))
    /\ UNCHANGED <<accountVars, clockVars, honoured, agentVars>>

EnsureWrite(h) ==
    LET c == h.call
    IN  /\ h.step = "bind"
        /\ bindings' = IF h.saw # 0 THEN Touched(h.saw, "active")
                       ELSE Append(bindings, [human |-> c.human, daemon |-> c.daemon,
                                              runtime |-> c.runtime, status |-> "active",
                                              updated |-> stamp + 1])
        /\ stamp' = stamp + 1
        /\ IF h.saw # 0 THEN UNCHANGED honoured ELSE Honour(c, h.since, "binding", Triple(c))
        /\ Finish(h)
        /\ UNCHANGED <<accountVars, clockVars, tokens, inventory, chosen>>

\* _update_binding_status: disable_binding and revoke_binding
SetBinding(c) ==
    /\ c.op = "set_binding"
    /\ \E b \in DOMAIN bindings : bindings' = Touched(b, c.status)
    /\ stamp' = stamp + 1
    /\ Complete(c)
    /\ UNCHANGED <<accountVars, clockVars, honoured, tokens, inventory, chosen>>

\* mark_binding_seen: the binding that was named, or the daemon's latest; this
\* SELECT takes no lock either.
SeenLook(c) ==
    LET own == {b \in DOMAIN bindings : bindings[b].daemon = c.daemon}
    IN  /\ c.op = "mark_seen"
        /\ \E b \in DOMAIN bindings :
                /\ c.named \/ (b \in own /\ b = LatestOf(own))
                /\ Begin(c, "seen", b)
        /\ UNCHANGED <<accountVars, clockVars, honoured, agentVars>>

SeenWrite(h) ==
    /\ h.step = "seen"
    /\ bindings' = Touched(h.saw, bindings[h.saw].status)
    /\ stamp' = stamp + 1
    /\ Finish(h)
    /\ UNCHANGED <<accountVars, clockVars, honoured, tokens, inventory, chosen>>

-----------------------------------------------------------------------------
(* Inventory. *)

\* _controller_scope_for_daemon, for a caller without a bearer token: the
\* latest active binding, the owner of the token, or the daemon itself
Controller(d) ==
    LET active == {b \in DOMAIN bindings : bindings[b].daemon = d /\ bindings[b].status = "active"}
        spent == {t \in DOMAIN tokens : tokens[t].agent = d}
    IN  IF active # {} THEN bindings[LatestOf(active)].human
        ELSE IF spent # {} THEN tokens[CHOOSE t \in spent : \A u \in spent : u <= t].owner
        ELSE d

\* agent_inventory_update_latest_status: the scope first
ReportLook(c) ==
    /\ c.op = "report"
    /\ Begin(c, "report", Controller(c.daemon))
    /\ UNCHANGED <<accountVars, clockVars, honoured, agentVars>>

\* A report writes every column of the row.
StatusItemWhole(h) ==
    [daemon |-> h.call.daemon, controller |-> h.saw, status |-> h.call.status,
     name |-> DefaultName, policy |-> DefaultPolicy, archived |-> FALSE]

\* _status_item: ON CONFLICT leaves name, policy and archived_at alone.
StatusItem(h) ==
    LET a == inventory[h.call.agent]
    IN  IF a = NoAgent
        THEN [daemon |-> h.call.daemon, controller |-> h.saw, status |-> h.call.status,
              name |-> DefaultName, policy |-> DefaultPolicy, archived |-> FALSE]
        ELSE [a EXCEPT !.daemon = h.call.daemon, !.controller = h.saw,
                       !.status = h.call.status]

ReportWrite(h) ==
    /\ h.step = "report"
    /\ inventory' = [inventory EXCEPT ![h.call.agent] = StatusItem(h)]
    /\ Finish(h)
    /\ UNCHANGED <<accountVars, clockVars, honoured, tokens, bindings, stamp, chosen>>

\* agent_inventory_sync_controller_scope
SyncLook(c) ==
    /\ c.op = "sync_scope"
    /\ Begin(c, "sync", Controller(c.daemon))
    /\ UNCHANGED <<accountVars, clockVars, honoured, agentVars>>

SyncWrite(h) ==
    /\ h.step = "sync"
    /\ inventory' = [a \in DOMAIN inventory |->
                        IF inventory[a] # NoAgent /\ inventory[a].daemon = h.call.daemon
                        THEN [inventory[a] EXCEPT !.controller = h.saw] ELSE inventory[a]]
    /\ Finish(h)
    /\ UNCHANGED <<accountVars, clockVars, honoured, tokens, bindings, stamp, chosen>>

\* An operator's request about one agent, answered in one transaction.
Edit(c, op) ==
    /\ c.op = op
    /\ Complete(c)
    /\ UNCHANGED <<accountVars, clockVars, honoured, tokens, bindings, stamp>>

\* agent_inventory_update_invocation_policy: agent_not_found without a row
SetPolicy(c) ==
    /\ Edit(c, "set_policy")
    /\ inventory[c.agent] # NoAgent
    /\ inventory' = [inventory EXCEPT ![c.agent].policy = c.policy]
    /\ chosen' = [chosen EXCEPT ![c.agent].policy = c.policy]

\* agent_inventory_update_display_name: agent_not_found without a row
Rename(c) ==
    /\ Edit(c, "rename")
    /\ inventory[c.agent] # NoAgent
    /\ inventory' = [inventory EXCEPT ![c.agent].name = c.name]
    /\ chosen' = [chosen EXCEPT ![c.agent].name = c.name]

\* Both requests that put an agent away succeed without a row too, and then
\* store nothing; the history keeps that the answer came before any report.
Shelve(c, op, status) ==
    LET row == inventory[c.agent]
    IN  /\ Edit(c, op)
        /\ inventory' = IF row = NoAgent THEN inventory
                        ELSE [inventory EXCEPT ![c.agent] =
                                [row EXCEPT !.status = status, !.archived = TRUE]]
        /\ chosen' = [chosen EXCEPT ![c.agent].archived = TRUE, ![c.agent].early = (row = NoAgent)]

\* agent_inventory_archive_agent
Archive(c) == Shelve(c, "archive", "archived")

\* agent_inventory_unbind_agent
Unbind(c) == Shelve(c, "unbind", "unbound")

-----------------------------------------------------------------------------
Init ==
    /\ AccountsInit
    /\ tokens = <<>> /\ bindings = <<>> /\ stamp = 0
    /\ inventory = [a \in Dids |-> NoAgent]
    /\ chosen = [a \in Dids |-> [name |-> DefaultName, policy |-> DefaultPolicy,
                                 archived |-> FALSE, early |-> FALSE]]

Next ==
    \/ AccountsNext /\ UNCHANGED agentVars
    \/ \E c \in pending :
        \/ IssueAuth(c) \/ ExchangeLook(c) \/ RevokeToken(c)
        \/ EnsureLook(c) \/ SetBinding(c) \/ SeenLook(c)
        \/ ReportLook(c) \/ SyncLook(c)
        \/ SetPolicy(c) \/ Rename(c) \/ Archive(c) \/ Unbind(c)
    \/ \E h \in running :
        \/ IssueInsert(h) \/ ExchangeWrite(h) \/ EnsureWrite(h) \/ SeenWrite(h)
        \/ ReportWrite(h) \/ SyncWrite(h)

Spec == Init /\ [][Next]_allVars
-----------------------------------------------------------------------------
(* Properties. *)

TypeOK ==
    /\ \A d \in Dids : users[d] # NoUser =>
        /\ documents[d] # NoDocument /\ documents[d].active = ~users[d].revoked
        /\ users[d].pair \in 1..pairs
    /\ \A d \in Dids : documents[d] # NoDocument =>
        documents[d].content \in Contents /\ documents[d].version \in 1..MaxVersion
    /\ \A p \in DOMAIN otps : otps[p] # NoCode => otps[p].code \in 1..codes
    /\ now \in 0..MaxTime
    /\ \A h \in running : h.call \notin pending

\* What operators chose for an agent stands, whatever daemons report during or
\* after the choice: its policy, its name, and that it is archived, except for
\* an archive or unbind that was answered before the agent's first report.
ChoicesStand ==
    \A a \in Dids : inventory[a] # NoAgent =>
        /\ inventory[a].policy = chosen[a].policy
        /\ inventory[a].name = chosen[a].name
        /\ inventory[a].archived => chosen[a].archived
        /\ chosen[a].archived => inventory[a].archived \/ chosen[a].early
=============================================================================
