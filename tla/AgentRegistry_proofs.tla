------------------------ MODULE AgentRegistry_proofs ------------------------
(***************************************************************************)
(* Proofs about Accounts and AgentRegistry: codes, signatures, tokens and  *)
(* bindings are granted once, documents have one writer per version,       *)
(* revocation holds and operators' choices stand, for every set of         *)
(* requests, every clock and any number of restarts.                       *)
(***************************************************************************)
EXTENDS AgentRegistry, WellFoundedInduction, TLAPS

Calls == UNION Scenarios

Seen == Nat \cup Dids \cup [content : Contents, version : 1..MaxVersion]

StepNames ==
    {"rotate", "nonce", "file", "sms_register", "update", "write", "revoke",
     "issue", "exchange", "bind", "seen", "report", "sync"}

Handler == [call : Calls, step : StepNames, saw : Seen, since : SUBSET Calls]

\* A handler between two connections is at a step of its operation, and what
\* it saw is of the kind the step needs.
Fits(h) ==
    /\ h.step = "rotate" => h.call.op \in {"refresh", "login", "signed_me"} /\ h.saw \in Nat
    /\ h.step = "nonce" => h.call.op = "signed_me"
    /\ h.step = "sms_register" => h.call.op = "sms_login"
    /\ h.step \in {"update", "write"} =>
            h.call.op = "update" /\ h.saw \in [content : Contents, version : 1..MaxVersion]
    /\ h.step = "revoke" => h.call.op = "revoke" /\ users[h.call.did] # NoUser
    /\ h.step = "issue" => h.call.op = "issue_token"
    /\ h.step = "exchange" => h.call.op = "exchange_token" /\ h.saw \in DOMAIN tokens
    /\ h.step = "bind" => h.call.op = "ensure_binding" /\ h.saw \in {0} \cup DOMAIN bindings
    /\ h.step = "seen" => h.saw \in DOMAIN bindings
    /\ h.step = "report" => h.call.op = "report" /\ h.saw \in Dids
    /\ h.step = "sync" => h.call.op = "sync_scope" /\ h.saw \in Dids

\* The tables of accounts.
AccountTypes ==
    /\ users \in [Dids -> UserRow \cup {NoUser}]
    /\ documents \in [Dids -> DocumentRow \cup {NoDocument}]
    /\ pairs \in Nat /\ codes \in Nat /\ now \in 0..MaxTime
    /\ otps = [p \in DOMAIN otps |-> otps[p]]
    /\ \A d \in Dids : users[d] # NoUser =>
            /\ documents[d] # NoDocument /\ (documents[d].active <=> ~users[d].revoked)
            /\ users[d].pair \in 1..pairs

TokenRow == [owner : Dids, until : Nat, revoked : BOOLEAN, used : BOOLEAN, agent : Dids \cup {NoAgent}]

Daemons == {c.daemon : c \in CallsOf({"ensure_binding"})}

Runtimes == {c.runtime : c \in CallsOf({"ensure_binding"})}

BindingStatuses == {"active"} \cup {c.status : c \in CallsOf({"set_binding"})}

BindingRow ==
    [human : Dids, daemon : Daemons, runtime : Runtimes, status : BindingStatuses, updated : Nat]

\* The tables of agents.
AgentTypes ==
    /\ tokens \in Seq(TokenRow)
    /\ stamp \in Nat
    /\ bindings \in Seq(BindingRow)
    /\ \A b \in DOMAIN bindings : bindings[b].updated <= stamp
    /\ inventory \in [Dids -> AgentRow \cup {NoAgent}]

\* Each request has one handler at most, and none before it arrives.
CallTypes ==
    /\ pending \subseteq Calls
    /\ running \subseteq Handler
    /\ \A h \in running : h.call \notin pending
    /\ \A g, h \in running : g.call = h.call => g = h
    /\ \A x \in honoured : x.call \in Calls

TypeInv ==
    /\ AccountTypes /\ AgentTypes /\ CallTypes
    /\ \A h \in running : Fits(h)
-----------------------------------------------------------------------------
(* The rows SELECTs return. *)

LEMMA RowsOf ==
    ASSUME NEW R, NEW s \in Seq(R)
    PROVE  Len(s) \in Nat /\ DOMAIN s = 1..Len(s) /\ \A k \in DOMAIN s : s[k] \in R
OBVIOUS

LEMMA BindingRows ==
    ASSUME AgentTypes
    PROVE  /\ DOMAIN bindings = 1..Len(bindings) /\ Len(bindings) \in Nat
           /\ \A b \in DOMAIN bindings :
                /\ bindings[b] \in BindingRow
                /\ bindings[b].human \in Dids /\ bindings[b].updated \in 0..stamp
<1>1. bindings \in Seq(BindingRow) /\ stamp \in Nat
    BY DEF AgentTypes
<1>2. \A b \in DOMAIN bindings : bindings[b] \in BindingRow
    BY <1>1, RowsOf
<1>3. \A r \in BindingRow : r.human \in Dids /\ r.updated \in Nat
    BY DEF BindingRow
<1>4. \A b \in DOMAIN bindings : bindings[b].updated <= stamp
    BY DEF AgentTypes
<1> QED BY <1>1, <1>2, <1>3, <1>4, RowsOf

LEMMA TokenRows ==
    ASSUME AgentTypes
    PROVE  /\ DOMAIN tokens = 1..Len(tokens) /\ Len(tokens) \in Nat
           /\ \A t \in DOMAIN tokens : tokens[t] \in TokenRow /\ tokens[t].owner \in Dids
<1>1. tokens \in Seq(TokenRow)
    BY DEF AgentTypes
<1>2. \A t \in DOMAIN tokens : tokens[t] \in TokenRow
    BY <1>1, RowsOf
<1>3. \A r \in TokenRow : r.owner \in Dids
    BY DEF TokenRow
<1> QED BY <1>1, <1>2, <1>3, RowsOf

\* A set of naturals that is not empty has a least element.
LEMMA LeastNatural ==
    ASSUME NEW S \in SUBSET Nat, S # {}
    PROVE  \E n \in S : \A m \in S : n <= m
<1>1. PICK n \in S : \A m \in S : ~(<<m, n>> \in OpToRel(<, Nat))
    BY WFMin, NatLessThanWellFounded
<1>2. \A m \in S : ~(m < n)
    BY <1>1 DEF OpToRel
<1> QED BY <1>2

LEMMA FirstRow ==
    ASSUME NEW S \in SUBSET Nat, S # {}
    PROVE  FirstOf(S) \in S
<1>1. \E b \in S : \A a \in S : b <= a
    BY LeastNatural
<1> QED BY <1>1 DEF FirstOf

LEMMA LatestRow ==
    ASSUME AgentTypes, NEW S \in SUBSET DOMAIN bindings, S # {}
    PROVE  LatestOf(S) \in S
<1> DEFINE ages == {stamp - bindings[b].updated : b \in S}
<1>1. \A b \in S : bindings[b].updated \in 0..stamp /\ stamp \in Nat
    BY BindingRows DEF AgentTypes
<1>2. ages \in SUBSET Nat /\ ages # {}
    <2>1. \A b \in S : stamp - bindings[b].updated \in Nat
        BY <1>1
    <2> QED BY <2>1
<1>3. PICK n \in ages : \A m \in ages : n <= m
    BY <1>2, LeastNatural
<1>4. PICK b \in S : n = stamp - bindings[b].updated
    OBVIOUS
<1>5. \A a \in S : bindings[a].updated <= bindings[b].updated
    BY <1>1, <1>3, <1>4
<1> QED BY <1>5 DEF LatestOf

LEMMA LastToken ==
    ASSUME NEW n \in Nat, NEW S \in SUBSET (1..n), S # {}
    PROVE  \E t \in S : \A u \in S : u <= t
<1> DEFINE left == {n - t : t \in S}
<1>1. left \in SUBSET Nat /\ left # {}
    <2>1. \A t \in S : n - t \in Nat
        OBVIOUS
    <2> QED BY <2>1
<1>2. PICK k \in left : \A m \in left : k <= m
    BY <1>1, LeastNatural
<1>3. PICK t \in S : k = n - t
    OBVIOUS
<1>4. \A u \in S : k <= n - u
    BY <1>2
<1>5. \A u \in S : u \in Int
    OBVIOUS
<1>6. ASSUME NEW u \in Int, NEW v \in Int, n - v <= n - u PROVE u <= v
    BY ONLY n \in Nat, <1>6
<1>7. \A u \in S : u <= t
    BY <1>3, <1>4, <1>5, <1>6
<1> QED BY <1>7

\* Whoever controls a daemon is a DID.
LEMMA ControllerIsDid ==
    ASSUME AgentTypes, NEW d \in Dids
    PROVE  Controller(d) \in Dids
<1> DEFINE active == {b \in DOMAIN bindings : bindings[b].daemon = d /\ bindings[b].status = "active"}
           spent == {t \in DOMAIN tokens : tokens[t].agent = d}
<1>1. active # {} => bindings[LatestOf(active)].human \in Dids
    <2>1. \A b \in DOMAIN bindings : bindings[b].human \in Dids
        BY BindingRows
    <2>2. active # {} => LatestOf(active) \in DOMAIN bindings
        BY LatestRow
    <2> QED BY <2>1, <2>2
<1>2. spent # {} => tokens[CHOOSE t \in spent : \A u \in spent : u <= t].owner \in Dids
    <2>1. spent \in SUBSET (1..Len(tokens)) /\ Len(tokens) \in Nat
        BY TokenRows
    <2>2. ASSUME spent # {} PROVE (CHOOSE t \in spent : \A u \in spent : u <= t) \in spent
        BY <2>1, <2>2, LastToken
    <2>3. \A t \in DOMAIN tokens : tokens[t].owner \in Dids
        BY TokenRows
    <2> QED BY <2>2, <2>3
<1> QED BY <1>1, <1>2 DEF Controller
-----------------------------------------------------------------------------
(* Handlers come and go. *)

\* Accounts stay, and so do the rows of tokens and bindings: a token that is
\* used stays used, a binding keeps its parties.
Grows ==
    /\ \A d \in Dids : users[d] # NoUser => users'[d] # NoUser
    /\ \A t \in DOMAIN tokens : t \in DOMAIN tokens' /\ (tokens[t].used => tokens'[t].used)
    /\ \A b \in DOMAIN bindings :
            b \in DOMAIN bindings' /\ Triple(bindings'[b]) = Triple(bindings[b])

LEMMA FitsStays ==
    ASSUME Grows, NEW h \in Handler, Fits(h)
    PROVE  Fits(h)'
<1>1. h.call.op = "revoke" => h.call.did \in Dids
    BY CallsAssumption DEF CallsOf, Calls, Handler
<1> QED BY <1>1 DEF Fits, Grows

LEMMA BeginTypes ==
    ASSUME CallTypes, NEW c, NEW step \in StepNames, NEW saw \in Seen, Begin(c, step, saw), UNCHANGED honoured
    PROVE  /\ CallTypes'
           /\ c \in Calls
           /\ \A h \in running' : h \in running \/ (h.call = c /\ h.step = step /\ h.saw = saw)
<1> DEFINE g == [call |-> c, step |-> step, saw |-> saw, since |-> {x.call : x \in honoured}]
<1>1. c \in Calls /\ c \in pending
    BY DEF CallTypes, Begin
<1>2. {x.call : x \in honoured} \in SUBSET Calls
    BY DEF CallTypes
<1>3. g \in Handler /\ g.call = c /\ g.step = step /\ g.saw = saw
    BY <1>1, <1>2 DEF Handler
<1> HIDE DEF g
<1>4. running' = running \cup {g} /\ pending' = pending \ {c}
    BY DEF Begin, g
<1>5. \A h \in running' : h \in running \/ h = g
    BY <1>4
<1>6. running' \subseteq Handler /\ pending' \subseteq Calls
    BY <1>3, <1>4, <1>5 DEF CallTypes
<1>7. \A h \in running' : h.call \notin pending'
    BY <1>3, <1>4, <1>5 DEF CallTypes
<1>8. \A f, h \in running' : f.call = h.call => f = h
    BY <1>1, <1>3, <1>5 DEF CallTypes
<1>9. \A x \in honoured' : x.call \in Calls
    BY DEF CallTypes
<1> QED BY <1>1, <1>3, <1>5, <1>6, <1>7, <1>8, <1>9 DEF CallTypes

LEMMA ContinueTypes ==
    ASSUME CallTypes, NEW h \in running, NEW step \in StepNames, NEW saw \in Seen, Continue(h, step, saw),
           \A x \in honoured' : x \in honoured \/ x.call = h.call
    PROVE  /\ CallTypes'
           /\ \A g \in running' : g \in running \/ (g.call = h.call /\ g.step = step /\ g.saw = saw)
<1> DEFINE g == [h EXCEPT !.step = step, !.saw = saw]
<1>1. h \in Handler
    BY DEF CallTypes
<1>2. g \in Handler /\ g.call = h.call /\ g.step = step /\ g.saw = saw
    BY <1>1 DEF Handler
<1> HIDE DEF g
<1>3. running' = (running \ {h}) \cup {g}
    BY DEF Continue, g
<1>4. h.call \in Calls
    BY <1>1 DEF Handler
<1>5. pending' = pending
    BY DEF Continue
<1>6. \A x \in honoured' : x.call \in Calls
    BY <1>4 DEF CallTypes
<1>7. \A f \in running : f.call = h.call => f = h
    BY DEF CallTypes
<1>8. \A f \in running' : (f \in running /\ f # h) \/ f = g
    BY <1>3
<1>9. running' \subseteq Handler /\ pending' \subseteq Calls
    BY <1>2, <1>5, <1>8 DEF CallTypes
<1>10. \A f \in running' : f.call \notin pending'
    BY <1>2, <1>5, <1>8 DEF CallTypes
<1>11. \A e, f \in running' : e.call = f.call => e = f
    BY <1>2, <1>7, <1>8 DEF CallTypes
<1> QED BY <1>2, <1>6, <1>8, <1>9, <1>10, <1>11 DEF CallTypes

LEMMA FinishTypes ==
    ASSUME CallTypes, NEW h \in running, Finish(h),
           \A x \in honoured' : x \in honoured \/ x.call = h.call
    PROVE  CallTypes' /\ running' \subseteq running
<1>1. h.call \in Calls
    BY DEF CallTypes, Handler
<1> QED BY <1>1 DEF CallTypes, Finish

LEMMA CompleteTypes ==
    ASSUME CallTypes, NEW c, Complete(c), \A x \in honoured' : x \in honoured \/ x.call = c
    PROVE  CallTypes' /\ running' \subseteq running /\ c \in Calls
BY DEF CallTypes, Complete

LEMMA Honours ==
    ASSUME NEW call, NEW since, NEW kind, NEW id, Honour(call, since, kind, id)
    PROVE  \A x \in honoured' :
                x \in honoured \/ (x.call = call /\ x.since = since /\ x.kind = kind /\ x.id = id)
<1> DEFINE r == [call |-> call, since |-> since, kind |-> kind, id |-> id]
<1>1. r.call = call /\ r.since = since /\ r.kind = kind /\ r.id = id
    OBVIOUS
<1> HIDE DEF r
<1>2. honoured' = honoured \cup {r}
    BY DEF Honour, r
<1>3. \A x \in honoured' : x \in honoured \/ x = r
    BY <1>2
<1> QED BY <1>1, <1>3
-----------------------------------------------------------------------------
(* Types. *)

Quiet == UNCHANGED <<accountVars, agentVars, honoured>>

LEMMA QuietTypes ==
    ASSUME TypeInv, Quiet, now' \in 0..MaxTime
    PROVE  AccountTypes' /\ AgentTypes' /\ Grows /\ UNCHANGED honoured
BY DEF TypeInv, Quiet, AccountTypes, AgentTypes, Grows, accountVars, agentVars

\* The first steps of handlers and what passes over them.
AccountLook(c) ==
    RefreshLook(c) \/ LoginLook(c) \/ SignedLook(c) \/ SmsLook(c) \/ UpdateRead(c) \/ RevokeAuth(c)

AgentLook(c) ==
    IssueAuth(c) \/ ExchangeLook(c) \/ EnsureLook(c) \/ SeenLook(c) \/ ReportLook(c) \/ SyncLook(c)

LEMMA Looks ==
    ASSUME TypeInv, NEW c, (AccountLook(c) /\ UNCHANGED agentVars) \/ AgentLook(c)
    PROVE  /\ Quiet /\ now' = now
           /\ \E step \in StepNames, saw \in Seen :
                /\ Begin(c, step, saw)
                /\ \A h : h.call = c /\ h.step = step /\ h.saw = saw => Fits(h)
<1>1. CASE AccountLook(c) /\ UNCHANGED agentVars
    <2>0. Quiet /\ now' = now
        BY <1>1 DEF AccountLook, RefreshLook, LoginLook, SignedLook, SmsLook, UpdateRead, RevokeAuth, Quiet, clockVars
    <2>1. CASE RefreshLook(c)
        <3>1. users[c.did].pair \in Nat
            <4>1. c \in Calls /\ c.op = "refresh"
                BY <2>1 DEF RefreshLook, Begin, TypeInv, CallTypes
            <4>2. c.did \in Dids
                BY <4>1, CallsAssumption DEF CallsOf, Calls
            <4>3. users[c.did] \in UserRow
                BY <2>1, <4>2 DEF RefreshLook, Active, TypeInv, AccountTypes
            <4> QED BY <4>3 DEF UserRow
        <3>2. Begin(c, "rotate", users[c.did].pair) /\ c.op = "refresh"
            BY <2>1 DEF RefreshLook
        <3>3. "rotate" \in StepNames /\ users[c.did].pair \in Seen
            BY <3>1 DEF StepNames, Seen
        <3>4. \A h : h.call = c /\ h.step = "rotate" /\ h.saw = users[c.did].pair => Fits(h)
            BY <3>1, <3>2 DEF Fits
        <3> QED BY <2>0, <3>2, <3>3, <3>4
    <2>2. CASE LoginLook(c) \/ SignedLook(c) \/ SmsLook(c)
        <3>1. \E step \in {"rotate", "nonce", "sms_register"} : Begin(c, step, 0)
                /\ (step = "rotate" => c.op = "login") /\ (step = "nonce" => c.op = "signed_me")
                /\ (step = "sms_register" => c.op = "sms_login")
            BY <2>2 DEF LoginLook, SignedLook, SmsLook
        <3>2. PICK step \in {"rotate", "nonce", "sms_register"} :
                /\ Begin(c, step, 0)
                /\ (step = "rotate" => c.op = "login") /\ (step = "nonce" => c.op = "signed_me")
                /\ (step = "sms_register" => c.op = "sms_login")
            BY <3>1
        <3>3. step \in StepNames /\ 0 \in Seen
            BY DEF StepNames, Seen
        <3>4. \A h : h.call = c /\ h.step = step /\ h.saw = 0 => Fits(h)
            BY <3>2 DEF Fits
        <3> QED BY <2>0, <3>2, <3>3, <3>4
    <2>3. CASE UpdateRead(c)
        <3> DEFINE saw == [content |-> documents[c.did].content, version |-> documents[c.did].version]
        <3>1. c \in Calls /\ c.op = "update" /\ Begin(c, "update", saw) /\ documents[c.did] # NoDocument
            BY <2>3 DEF UpdateRead, Begin, TypeInv, CallTypes, Authenticated, Active
        <3>2. c.did \in Dids
            BY <3>1, CallsAssumption DEF CallsOf, Calls
        <3>3. documents[c.did] \in DocumentRow
            BY <3>1, <3>2 DEF TypeInv, AccountTypes
        <3>4. saw \in [content : Contents, version : 1..MaxVersion]
            BY <3>3 DEF DocumentRow
        <3> HIDE DEF saw
        <3>5. "update" \in StepNames /\ saw \in Seen
            BY <3>4 DEF StepNames, Seen
        <3>6. \A h : h.call = c /\ h.step = "update" /\ h.saw = saw => Fits(h)
            BY <3>1, <3>4 DEF Fits
        <3> QED BY <2>0, <3>1, <3>5, <3>6
    <2>4. CASE RevokeAuth(c)
        <3>1. c.op = "revoke" /\ Begin(c, "revoke", 0) /\ users[c.did] # NoUser
            BY <2>4 DEF RevokeAuth, Authenticated, Active
        <3>2. "revoke" \in StepNames /\ 0 \in Seen
            BY DEF StepNames, Seen
        <3>3. \A h : h.call = c /\ h.step = "revoke" /\ h.saw = 0 => Fits(h)
            BY <3>1 DEF Fits
        <3> QED BY <2>0, <3>1, <3>2, <3>3
    <2> QED BY <1>1, <2>1, <2>2, <2>3, <2>4 DEF AccountLook
<1>2. CASE AgentLook(c)
    <2>0. Quiet /\ now' = now
        BY <1>2 DEF AgentLook, IssueAuth, ExchangeLook, EnsureLook, SeenLook, ReportLook, SyncLook, Quiet, clockVars
    <2>1. CASE IssueAuth(c)
        <3>1. c.op = "issue_token" /\ Begin(c, "issue", 0)
            BY <2>1 DEF IssueAuth
        <3>2. "issue" \in StepNames /\ 0 \in Seen
            BY DEF StepNames, Seen
        <3>3. \A h : h.call = c /\ h.step = "issue" /\ h.saw = 0 => Fits(h)
            BY <3>1 DEF Fits
        <3> QED BY <2>0, <3>1, <3>2, <3>3
    <2>2. CASE ExchangeLook(c)
        <3>1. c.op = "exchange_token"
            BY <2>2 DEF ExchangeLook
        <3>2. PICK t \in DOMAIN tokens : Begin(c, "exchange", t)
            BY <2>2 DEF ExchangeLook
        <3>3. "exchange" \in StepNames /\ t \in Seen
            BY TokenRows DEF StepNames, Seen, TypeInv
        <3>4. \A h : h.call = c /\ h.step = "exchange" /\ h.saw = t => Fits(h)
            BY <3>1 DEF Fits
        <3> QED BY <2>0, <3>2, <3>3, <3>4
    <2>3. CASE EnsureLook(c)
        <3>1. c.op = "ensure_binding" /\ Begin(c, "bind", FirstOf(Of(c)))
            BY <2>3 DEF EnsureLook
        <3>2. FirstOf(Of(c)) \in {0} \cup DOMAIN bindings
            <4>1. Of(c) \in SUBSET DOMAIN bindings /\ Of(c) \in SUBSET Nat
                BY BindingRows DEF TypeInv, Of
            <4>2. CASE Of(c) = {}
                BY <4>2 DEF FirstOf
            <4>3. CASE Of(c) # {}
                BY <4>1, <4>3, FirstRow
            <4> QED BY <4>2, <4>3
        <3>3. "bind" \in StepNames /\ FirstOf(Of(c)) \in Seen
            BY <3>2, BindingRows DEF StepNames, Seen, TypeInv
        <3>4. \A h : h.call = c /\ h.step = "bind" /\ h.saw = FirstOf(Of(c)) => Fits(h)
            BY <3>1, <3>2 DEF Fits
        <3> QED BY <2>0, <3>1, <3>3, <3>4
    <2>4. CASE SeenLook(c)
        <3>1. PICK b \in DOMAIN bindings : Begin(c, "seen", b)
            BY <2>4 DEF SeenLook
        <3>2. "seen" \in StepNames /\ b \in Seen
            BY BindingRows DEF StepNames, Seen, TypeInv
        <3>3. \A h : h.call = c /\ h.step = "seen" /\ h.saw = b => Fits(h)
            BY DEF Fits
        <3> QED BY <2>0, <3>1, <3>2, <3>3
    <2>5. CASE ReportLook(c) \/ SyncLook(c)
        <3>1. PICK step \in {"report", "sync"} :
                /\ Begin(c, step, Controller(c.daemon))
                /\ step = "report" => c.op = "report"
                /\ step = "sync" => c.op = "sync_scope"
            BY <2>5 DEF ReportLook, SyncLook
        <3>2. c \in Calls
            BY <3>1 DEF Begin, TypeInv, CallTypes
        <3>3. c.daemon \in Dids
            BY <3>1, <3>2, AgentCallsAssumption DEF CallsOf, Calls
        <3>4. Controller(c.daemon) \in Dids
            BY <3>3, ControllerIsDid DEF TypeInv
        <3>5. step \in StepNames /\ Controller(c.daemon) \in Seen
            BY <3>4 DEF StepNames, Seen
        <3>6. \A h : h.call = c /\ h.step = step /\ h.saw = Controller(c.daemon) => Fits(h)
            BY <3>1, <3>4 DEF Fits
        <3> QED BY <2>0, <3>1, <3>5, <3>6
    <2> QED BY <1>2, <2>1, <2>2, <2>3, <2>4, <2>5 DEF AgentLook
<1> QED BY <1>1, <1>2

LEMMA TypeLook ==
    ASSUME TypeInv, NEW c, (AccountLook(c) /\ UNCHANGED agentVars) \/ AgentLook(c)
    PROVE  TypeInv'
<1>1. Quiet /\ now' = now
    BY Looks
<1>2. PICK step \in StepNames, saw \in Seen :
        Begin(c, step, saw) /\ \A h : h.call = c /\ h.step = step /\ h.saw = saw => Fits(h)
    BY Looks
<1>3. AccountTypes' /\ AgentTypes' /\ Grows /\ UNCHANGED honoured
    BY <1>1, QuietTypes DEF TypeInv, AccountTypes
<1>4. CallTypes' /\ \A h \in running' : h \in running \/ (h.call = c /\ h.step = step /\ h.saw = saw)
    BY <1>2, <1>3, BeginTypes DEF TypeInv
<1>5. \A h \in running' : Fits(h) /\ h \in Handler
    BY <1>2, <1>4 DEF TypeInv, CallTypes
<1> QED BY <1>3, <1>4, <1>5, FitsStays DEF TypeInv

\* What the writes of accounts do to their rows.
LEMMA TokensRow ==
    ASSUME NEW v \in UserRow, NEW n \in Nat, now \in Nat, AccessLife \in Nat, RefreshLife \in Nat
    PROVE  Tokens(v, n) \in UserRow /\ Tokens(v, n).pair = n /\ Tokens(v, n).revoked = v.revoked
<1>1. ASSUME NEW a \in Nat, NEW b \in Nat
      PROVE  LET u == [v EXCEPT !.pair = n, !.accessUntil = a, !.refreshUntil = b]
             IN  u \in UserRow /\ u.pair = n /\ u.revoked = v.revoked
    BY DEF UserRow
<1>2. now + AccessLife \in Nat /\ now + RefreshLife \in Nat
    OBVIOUS
<1> QED BY <1>1, <1>2 DEF Tokens

LEMMA RotateEffect ==
    ASSUME TypeInv, NEW h \in running, Rotate(h)
    PROVE  /\ h.call.did \in Dids /\ Active(h.call.did)
           /\ pairs' = pairs + 1
           /\ \E u \in UserRow :
                /\ users' = [users EXCEPT ![h.call.did] = u]
                /\ u.pair = pairs + 1 /\ u.revoked = users[h.call.did].revoked
<1> DEFINE d == h.call.did
           u == Tokens(users[d], pairs + 1)
<1>1. h.call \in Calls /\ h.call.op \in {"refresh", "login", "signed_me"}
    BY DEF Rotate, TypeInv, CallTypes, Handler, Fits
<1>2. d \in Dids
    BY <1>1, CallsAssumption DEF CallsOf, Calls
<1>3. Active(d) /\ users' = [users EXCEPT ![d] = u] /\ pairs' = pairs + 1
    BY DEF Rotate
<1>4. users[d] \in UserRow
    BY <1>2, <1>3 DEF Active, TypeInv, AccountTypes
<1>5. now \in Nat /\ pairs \in Nat /\ AccessLife \in Nat /\ RefreshLife \in Nat
    BY AccountsAssumption DEF TypeInv, AccountTypes
<1>8. u \in UserRow /\ u.pair = pairs + 1 /\ u.revoked = users[d].revoked
    <2>1. pairs + 1 \in Nat
        BY <1>5
    <2> QED BY <1>4, <1>5, <2>1, TokensRow
<1> HIDE DEF u
<1> QED BY <1>2, <1>3, <1>8

LEMMA NewAccountEffect ==
    ASSUME TypeInv, NEW c \in CallsOf({"register", "sms_login"}), NewAccount(c)
    PROVE  /\ c.did \in Dids /\ users[c.did] = NoUser /\ documents[c.did] = NoDocument
           /\ pairs' = pairs + 1
           /\ \E u \in UserRow :
                users' = [users EXCEPT ![c.did] = u] /\ u.pair = pairs + 1 /\ ~u.revoked
           /\ \E w \in DocumentRow :
                documents' = [documents EXCEPT ![c.did] = w] /\ w.version = 1 /\ w.active
<1> DEFINE u == [handle |-> c.handle, device |-> ManifestOf[c.content], revoked |-> FALSE,
                 pair |-> pairs + 1, accessUntil |-> now + AccessLife,
                 refreshUntil |-> now + RefreshLife]
           w == [content |-> c.content, version |-> 1, active |-> TRUE]
<1>1. c.did \in Dids /\ c.content \in Contents
    BY CallsAssumption DEF CallsOf
<1>2. now + AccessLife \in Nat /\ pairs + 1 \in Nat /\ now + RefreshLife \in Nat /\ 1 \in 1..MaxVersion
    BY AccountsAssumption DEF TypeInv, AccountTypes
<1>3. u \in UserRow /\ u.pair = pairs + 1 /\ ~u.revoked
    <2>1. c.handle \in Handles /\ ManifestOf[c.content] \in Devices
        BY <1>1 DEF Handles, Devices
    <2> QED BY <1>2, <2>1 DEF UserRow
<1>4. w \in DocumentRow /\ w.version = 1 /\ w.active
    BY <1>1, <1>2 DEF DocumentRow
<1>5. users' = [users EXCEPT ![c.did] = u] /\ documents' = [documents EXCEPT ![c.did] = w]
    BY DEF NewAccount
<1>6. users[c.did] = NoUser /\ documents[c.did] = NoDocument /\ pairs' = pairs + 1
    BY DEF NewAccount
<1> HIDE DEF u, w
<1> QED BY <1>1, <1>3, <1>4, <1>5, <1>6

LEMMA UpdateEffect ==
    ASSUME TypeInv, NEW h \in running, UpdateWrite(h)
    PROVE  /\ h.call.did \in Dids /\ documents[h.call.did] \in DocumentRow /\ documents[h.call.did].active
           /\ \/ documents' = documents
              \/ \E w \in DocumentRow :
                    /\ documents' = [documents EXCEPT ![h.call.did] = w]
                    /\ w.version = documents[h.call.did].version + 1 /\ w.active
<1> DEFINE c == h.call
           old == documents[c.did]
           w == [old EXCEPT !.content = c.content, !.version = @ + 1]
<1>1. c \in Calls /\ c.op = "update"
    BY DEF UpdateWrite, TypeInv, CallTypes, Handler, Fits
<1>2. c.did \in Dids /\ c.content \in Contents
    BY <1>1, CallsAssumption DEF CallsOf, Calls
<1>3. old \in DocumentRow /\ old.active
    BY <1>2 DEF UpdateWrite, TypeInv, AccountTypes
<1>4. documents' = documents \/ (old.version < MaxVersion /\ documents' = [documents EXCEPT ![c.did] = w])
    BY DEF UpdateWrite
<1>5. ASSUME old.version < MaxVersion PROVE w \in DocumentRow /\ w.version = old.version + 1 /\ w.active
    <2>1. old.version + 1 \in 1..MaxVersion
        BY <1>3, <1>5, AccountsAssumption DEF DocumentRow
    <2>2. \A v \in DocumentRow : [v EXCEPT !.content = c.content, !.version = @ + 1].active = v.active
        BY DEF DocumentRow
    <2>3. \A v \in DocumentRow : v.version + 1 \in 1..MaxVersion =>
            LET x == [v EXCEPT !.content = c.content, !.version = @ + 1]
            IN  x \in DocumentRow /\ x.version = v.version + 1
        BY <1>2 DEF DocumentRow
    <2> QED BY <1>3, <2>1, <2>2, <2>3
<1> HIDE DEF w
<1> QED BY <1>2, <1>3, <1>4, <1>5

LEMMA RevokeEffect ==
    ASSUME TypeInv, NEW h \in running, RevokeWrite(h)
    PROVE  LET d == h.call.did
           IN  /\ d \in Dids /\ users[d] # NoUser
               /\ \E u \in UserRow :
                    /\ users' = [users EXCEPT ![d] = u]
                    /\ u.revoked /\ u.pair = users[d].pair /\ (users[d].revoked => u = users[d])
               /\ \E w \in DocumentRow :
                    /\ documents' = [documents EXCEPT ![d] = w]
                    /\ ~w.active /\ w.version = documents[d].version
                    /\ (~documents[d].active => w = documents[d])
<1> DEFINE d == h.call.did
           u == [users[d] EXCEPT !.revoked = TRUE]
           w == [documents[d] EXCEPT !.active = FALSE]
<1>1. h.call \in Calls /\ h.call.op = "revoke" /\ users[d] # NoUser
    BY DEF RevokeWrite, TypeInv, CallTypes, Handler, Fits
<1>2. d \in Dids
    BY <1>1, CallsAssumption DEF CallsOf, Calls
<1>3. users[d] \in UserRow /\ documents[d] \in DocumentRow
    BY <1>1, <1>2 DEF TypeInv, AccountTypes
<1>4. u \in UserRow /\ u.revoked /\ u.pair = users[d].pair
    BY <1>3 DEF UserRow
<1>5. ASSUME users[d].revoked PROVE u = users[d]
    BY <1>3, <1>5 DEF UserRow
<1>6. w \in DocumentRow /\ ~w.active /\ w.version = documents[d].version
    BY <1>3 DEF DocumentRow
<1>7. ASSUME ~documents[d].active PROVE w = documents[d]
    BY <1>3, <1>7 DEF DocumentRow
<1>8. users' = [users EXCEPT ![d] = u] /\ documents' = [documents EXCEPT ![d] = w]
    BY DEF RevokeWrite
<1> HIDE DEF u, w
<1> QED BY <1>1, <1>2, <1>4, <1>5, <1>6, <1>7, <1>8

LEMMA ExchangeEffect ==
    ASSUME TypeInv, NEW h \in running, ExchangeWrite(h)
    PROVE  /\ h.call.did \in Dids /\ documents[h.call.did] = NoDocument /\ users[h.call.did] = NoUser
           /\ \/ documents' = documents
              \/ \E w \in DocumentRow : documents' = [documents EXCEPT ![h.call.did] = w]
<1> DEFINE c == h.call
           w == [content |-> c.content, version |-> 1, active |-> TRUE]
<1>1. c \in Calls /\ c.op = "exchange_token"
    BY DEF ExchangeWrite, TypeInv, CallTypes, Handler, Fits
<1>2. c.did \in Dids /\ c.content \in Contents
    BY <1>1, AgentCallsAssumption DEF CallsOf, Calls
<1>3. documents[c.did] = NoDocument /\ users[c.did] = NoUser
    BY <1>2 DEF ExchangeWrite, TypeInv, AccountTypes
<1>4. w \in DocumentRow
    BY <1>2, AccountsAssumption DEF DocumentRow
<1>5. documents' = documents \/ documents' = [documents EXCEPT ![c.did] = w]
    BY DEF ExchangeWrite
<1> HIDE DEF w
<1> QED BY <1>2, <1>3, <1>4, <1>5

\* One account and its document change together.
LEMMA AccountChange ==
    ASSUME AccountTypes, NEW d \in Dids, NEW u \in UserRow, NEW w \in DocumentRow,
           users' = [users EXCEPT ![d] = u], documents' = [documents EXCEPT ![d] = w],
           w.active <=> ~u.revoked, pairs' \in Nat, pairs <= pairs', u.pair \in 1..pairs',
           codes' \in Nat, now' = now, otps' = [p \in DOMAIN otps' |-> otps'[p]]
    PROVE  AccountTypes' /\ \A e \in Dids : users[e] # NoUser => users'[e] # NoUser
<1>1. \A e \in Dids : users'[e] = IF e = d THEN u ELSE users[e]
    BY DEF AccountTypes
<1>2. \A e \in Dids : documents'[e] = IF e = d THEN w ELSE documents[e]
    BY DEF AccountTypes
<1>3. users' \in [Dids -> UserRow \cup {NoUser}] /\ documents' \in [Dids -> DocumentRow \cup {NoDocument}]
    BY DEF AccountTypes
<1>4. u # NoUser /\ w # NoDocument
    BY CallsAssumption
<1>5. ASSUME NEW e \in Dids, users'[e] # NoUser
      PROVE  /\ documents'[e] # NoDocument /\ (documents'[e].active <=> ~users'[e].revoked)
             /\ users'[e].pair \in 1..pairs'
    <2>1. CASE e = d
        BY <1>1, <1>2, <1>4, <2>1
    <2>2. CASE e # d
        BY <1>1, <1>2, <1>5, <2>2 DEF AccountTypes
    <2> QED BY <2>1, <2>2
<1>6. \A e \in Dids : users[e] # NoUser => users'[e] # NoUser
    BY <1>1, <1>4
<1> QED BY <1>3, <1>5, <1>6 DEF AccountTypes

LEMMA RotateTypes ==
    ASSUME TypeInv, NEW h \in running, Rotate(h)
    PROVE  AccountTypes' /\ \A e \in Dids : users[e] # NoUser => users'[e] # NoUser
<1> DEFINE d == h.call.did
<1>1. d \in Dids /\ Active(d) /\ pairs' = pairs + 1
    BY RotateEffect
<1>2. PICK u \in UserRow : users' = [users EXCEPT ![d] = u] /\ u.pair = pairs + 1 /\ u.revoked = users[d].revoked
    BY RotateEffect
<1>3. AccountTypes /\ documents[d] \in DocumentRow /\ documents' = [documents EXCEPT ![d] = documents[d]]
    BY <1>1 DEF Rotate, Active, TypeInv, AccountTypes
<1>4. documents[d].active <=> ~u.revoked
    BY <1>1, <1>2, <1>3 DEF Active
<1>5. codes' \in Nat /\ now' = now /\ otps' = [p \in DOMAIN otps' |-> otps'[p]]
    BY <1>3 DEF Rotate, AccountTypes, clockVars
<1>6. pairs' \in Nat /\ pairs <= pairs' /\ u.pair \in 1..pairs'
    BY <1>1, <1>2, <1>3 DEF AccountTypes
<1> QED BY <1>1, <1>2, <1>3, <1>4, <1>5, <1>6, AccountChange

LEMMA NewAccountTypes ==
    ASSUME TypeInv, NEW c \in CallsOf({"register", "sms_login"}), NewAccount(c),
           codes' \in Nat, now' = now, otps' = [p \in DOMAIN otps' |-> otps'[p]]
    PROVE  AccountTypes' /\ \A e \in Dids : users[e] # NoUser => users'[e] # NoUser
<1>1. c.did \in Dids /\ pairs' = pairs + 1
    BY NewAccountEffect
<1>2. PICK u \in UserRow : users' = [users EXCEPT ![c.did] = u] /\ u.pair = pairs + 1 /\ ~u.revoked
    BY NewAccountEffect
<1>3. PICK w \in DocumentRow : documents' = [documents EXCEPT ![c.did] = w] /\ w.active
    BY NewAccountEffect
<1>4. AccountTypes /\ pairs' \in Nat /\ pairs <= pairs' /\ u.pair \in 1..pairs'
    BY <1>1, <1>2 DEF TypeInv, AccountTypes
<1> QED BY <1>1, <1>2, <1>3, <1>4, AccountChange

LEMMA RevokeTypes ==
    ASSUME TypeInv, NEW h \in running, RevokeWrite(h)
    PROVE  AccountTypes' /\ \A e \in Dids : users[e] # NoUser => users'[e] # NoUser
<1> DEFINE d == h.call.did
<1>1. d \in Dids /\ users[d] # NoUser
    BY RevokeEffect
<1>2. PICK u \in UserRow : users' = [users EXCEPT ![d] = u] /\ u.revoked /\ u.pair = users[d].pair
    BY RevokeEffect
<1>3. PICK w \in DocumentRow : documents' = [documents EXCEPT ![d] = w] /\ ~w.active
    BY RevokeEffect
<1>4. AccountTypes /\ pairs' = pairs /\ codes' = codes /\ now' = now /\ otps' = otps
    BY DEF TypeInv, RevokeWrite, clockVars
<1>5. pairs \in Nat /\ u.pair \in 1..pairs /\ codes \in Nat /\ otps = [p \in DOMAIN otps |-> otps[p]]
    BY <1>1, <1>2, <1>4 DEF AccountTypes
<1>6. /\ pairs' \in Nat /\ pairs <= pairs' /\ u.pair \in 1..pairs'
      /\ codes' \in Nat /\ otps' = [p \in DOMAIN otps' |-> otps'[p]]
    BY <1>4, <1>5
<1>7. w.active <=> ~u.revoked
    BY <1>2, <1>3
<1> QED BY <1>1, <1>2, <1>3, <1>4, <1>6, <1>7, AccountChange

LEMMA UpdateTypes ==
    ASSUME TypeInv, NEW h \in running, UpdateWrite(h)
    PROVE  AccountTypes' /\ \A e \in Dids : users[e] # NoUser => users'[e] # NoUser
<1> DEFINE d == h.call.did
<1>1. AccountTypes /\ UNCHANGED <<users, pairs, codes, now, otps>>
    BY DEF TypeInv, UpdateWrite, clockVars
<1>2. d \in Dids /\ documents[d] \in DocumentRow /\ documents[d].active
    BY UpdateEffect
<1>3. CASE documents' = documents
    BY <1>1, <1>3 DEF AccountTypes
<1>4. ASSUME NEW w \in DocumentRow, documents' = [documents EXCEPT ![d] = w], w.active
      PROVE  AccountTypes'
    <2>1. \A e \in Dids : documents'[e] = IF e = d THEN w ELSE documents[e]
        BY <1>1, <1>4 DEF AccountTypes
    <2>2. w # NoDocument
        BY CallsAssumption
    <2>3. documents' \in [Dids -> DocumentRow \cup {NoDocument}]
        BY <1>1, <1>4 DEF AccountTypes
    <2>4. ASSUME NEW e \in Dids, users[e] # NoUser
          PROVE  documents'[e] # NoDocument /\ (documents'[e].active <=> ~users[e].revoked)
        <3>1. documents[e] # NoDocument /\ (documents[e].active <=> ~users[e].revoked)
            BY <1>1, <2>4 DEF AccountTypes
        <3> QED BY <1>2, <1>4, <2>1, <2>2, <3>1
    <2> QED BY <1>1, <2>3, <2>4 DEF AccountTypes
<1> QED BY <1>1, <1>3, <1>4, UpdateEffect

LEMMA ExchangeTypes ==
    ASSUME TypeInv, NEW h \in running, ExchangeWrite(h)
    PROVE  AccountTypes' /\ \A e \in Dids : users[e] # NoUser => users'[e] # NoUser
<1> DEFINE d == h.call.did
<1>1. AccountTypes /\ UNCHANGED <<users, pairs, codes, now, otps>>
    BY DEF TypeInv, ExchangeWrite, clockVars
<1>2. d \in Dids /\ documents[d] = NoDocument /\ users[d] = NoUser
    BY ExchangeEffect
<1>3. CASE documents' = documents
    BY <1>1, <1>3 DEF AccountTypes
<1>4. ASSUME NEW w \in DocumentRow, documents' = [documents EXCEPT ![d] = w]
      PROVE  AccountTypes'
    <2>1. \A e \in Dids : e # d => documents'[e] = documents[e]
        BY <1>1, <1>4 DEF AccountTypes
    <2>2. documents' \in [Dids -> DocumentRow \cup {NoDocument}]
        BY <1>1, <1>4 DEF AccountTypes
    <2> QED BY <1>1, <1>2, <2>1, <2>2 DEF AccountTypes
<1> QED BY <1>1, <1>3, <1>4, ExchangeEffect

\* What the writes of agents do to their rows.
TokensGrow == \A t \in DOMAIN tokens : t \in DOMAIN tokens' /\ (tokens[t].used => tokens'[t].used)

BindingsGrow ==
    \A b \in DOMAIN bindings : b \in DOMAIN bindings' /\ Triple(bindings'[b]) = Triple(bindings[b])

LEMMA TokenChange ==
    ASSUME AgentTypes, NEW t \in DOMAIN tokens, NEW r \in TokenRow,
           tokens' = [tokens EXCEPT ![t] = r], tokens[t].used => r.used
    PROVE  tokens' \in Seq(TokenRow) /\ TokensGrow
<1>1. tokens \in Seq(TokenRow)
    BY DEF AgentTypes
<1>2. tokens' \in Seq(TokenRow) /\ DOMAIN tokens' = DOMAIN tokens
    BY <1>1
<1>3. \A k \in DOMAIN tokens : tokens'[k] = IF k = t THEN r ELSE tokens[k]
    BY <1>1
<1> QED BY <1>2, <1>3 DEF TokensGrow

LEMMA TokenAdd ==
    ASSUME AgentTypes, NEW r \in TokenRow, tokens' = Append(tokens, r)
    PROVE  tokens' \in Seq(TokenRow) /\ TokensGrow
<1>1. tokens \in Seq(TokenRow)
    BY DEF AgentTypes
<1>2. tokens' \in Seq(TokenRow) /\ DOMAIN tokens' = DOMAIN tokens \cup {Len(tokens) + 1}
    BY <1>1
<1>3. \A k \in DOMAIN tokens : tokens'[k] = tokens[k]
    BY <1>1
<1> QED BY <1>2, <1>3 DEF TokensGrow

LEMMA BindingChange ==
    ASSUME AgentTypes, NEW b \in DOMAIN bindings, NEW st \in BindingStatuses,
           bindings' = Touched(b, st), stamp' = stamp + 1
    PROVE  /\ bindings' \in Seq(BindingRow) /\ stamp' \in Nat /\ BindingsGrow
           /\ \A a \in DOMAIN bindings' : bindings'[a].updated <= stamp'
<1> DEFINE r == [bindings[b] EXCEPT !.status = st, !.updated = stamp + 1]
<1>1. bindings \in Seq(BindingRow) /\ stamp \in Nat /\ bindings[b] \in BindingRow
    BY BindingRows DEF AgentTypes
<1>2. /\ r \in BindingRow /\ r.updated = stamp + 1
      /\ r.human = bindings[b].human /\ r.daemon = bindings[b].daemon /\ r.runtime = bindings[b].runtime
    <2>1. ASSUME NEW v \in BindingRow, NEW n \in Nat
          PROVE  LET u == [v EXCEPT !.status = st, !.updated = n]
                 IN  /\ u \in BindingRow /\ u.updated = n
                     /\ u.human = v.human /\ u.daemon = v.daemon /\ u.runtime = v.runtime
        BY DEF BindingRow
    <2>2. stamp + 1 \in Nat
        BY <1>1
    <2> QED BY <1>1, <2>1, <2>2
<1>3. bindings' = [bindings EXCEPT ![b] = r]
    BY DEF Touched
<1> HIDE DEF r
<1>4. bindings' \in Seq(BindingRow) /\ DOMAIN bindings' = DOMAIN bindings
    BY <1>1, <1>2, <1>3
<1>5. \A k \in DOMAIN bindings : bindings'[k] = IF k = b THEN r ELSE bindings[k]
    BY <1>1, <1>3
<1>6. BindingsGrow
    BY <1>2, <1>4, <1>5 DEF BindingsGrow, Triple
<1>7. ASSUME NEW a \in DOMAIN bindings PROVE bindings'[a].updated <= stamp'
    <2>1. bindings[a].updated \in 0..stamp
        BY BindingRows
    <2> QED BY <1>1, <1>2, <1>5, <2>1
<1> QED BY <1>1, <1>4, <1>6, <1>7

LEMMA BindingAdd ==
    ASSUME AgentTypes, NEW r \in BindingRow, r.updated = stamp + 1,
           bindings' = Append(bindings, r), stamp' = stamp + 1
    PROVE  /\ bindings' \in Seq(BindingRow) /\ stamp' \in Nat /\ BindingsGrow
           /\ \A a \in DOMAIN bindings' : bindings'[a].updated <= stamp'
           /\ \E a \in DOMAIN bindings' : bindings'[a] = r
<1>1. bindings \in Seq(BindingRow) /\ stamp \in Nat
    BY DEF AgentTypes
<1>2. /\ bindings' \in Seq(BindingRow) /\ DOMAIN bindings' = DOMAIN bindings \cup {Len(bindings) + 1}
      /\ bindings'[Len(bindings) + 1] = r
    BY <1>1
<1>3. \A k \in DOMAIN bindings : bindings'[k] = bindings[k]
    BY <1>1
<1>4. BindingsGrow
    BY <1>2, <1>3 DEF BindingsGrow
<1>5. ASSUME NEW a \in DOMAIN bindings' PROVE bindings'[a].updated <= stamp'
    <2>1. a \in DOMAIN bindings => bindings[a].updated \in 0..stamp
        BY BindingRows
    <2> QED BY <1>1, <1>2, <1>3, <2>1
<1> QED BY <1>1, <1>2, <1>4, <1>5

LEMMA AgentChange ==
    ASSUME AgentTypes, NEW a \in Dids, NEW r \in AgentRow, inventory' = [inventory EXCEPT ![a] = r],
           UNCHANGED <<tokens, bindings, stamp>>
    PROVE  AgentTypes'
<1>1. inventory' \in [Dids -> AgentRow \cup {NoAgent}]
    BY DEF AgentTypes
<1> QED BY <1>1 DEF AgentTypes

\* The writes to tokens.
LEMMA TokenStepTypes ==
    ASSUME TypeInv,
           \/ \E h \in running : IssueInsert(h) \/ ExchangeWrite(h)
           \/ \E c \in pending : RevokeToken(c)
    PROVE  AgentTypes' /\ TokensGrow /\ BindingsGrow
<1>1. AgentTypes /\ tokens \in Seq(TokenRow) /\ UNCHANGED <<bindings, stamp, inventory>>
    BY DEF TypeInv, AgentTypes, IssueInsert, ExchangeWrite, RevokeToken
<1>2. SUFFICES tokens' \in Seq(TokenRow) /\ TokensGrow
    BY <1>1 DEF AgentTypes, BindingsGrow
<1>3. ASSUME NEW h \in running, IssueInsert(h) PROVE tokens' \in Seq(TokenRow) /\ TokensGrow
    <2> DEFINE r == [owner |-> h.call.did, until |-> now + TokenLife, revoked |-> FALSE, used |-> FALSE,
                     agent |-> NoAgent]
    <2>1. h.call \in Calls /\ h.call.op = "issue_token"
        BY <1>3 DEF IssueInsert, TypeInv, CallTypes, Handler, Fits
    <2>2. h.call.did \in Dids
        BY <2>1, AgentCallsAssumption DEF CallsOf, Calls
    <2>3. now + TokenLife \in Nat
        BY AccountsAssumption, AgentsAssumption DEF TypeInv, AccountTypes
    <2>4. r \in TokenRow
        BY <2>2, <2>3 DEF TokenRow
    <2>5. tokens' = Append(tokens, r)
        BY <1>3 DEF IssueInsert
    <2> HIDE DEF r
    <2> QED BY <1>1, <2>4, <2>5, TokenAdd
<1>4. ASSUME NEW h \in running, ExchangeWrite(h) PROVE tokens' \in Seq(TokenRow) /\ TokensGrow
    <2> DEFINE r == [tokens[h.saw] EXCEPT !.used = TRUE, !.agent = h.call.did]
    <2>1. h.saw \in DOMAIN tokens
        BY <1>4 DEF ExchangeWrite, TypeInv, Fits
    <2>2. h.call.did \in Dids
        BY <1>4, ExchangeEffect
    <2>3. tokens[h.saw] \in TokenRow
        BY <1>1, <2>1, TokenRows
    <2>4. r \in TokenRow /\ r.used
        BY <2>2, <2>3 DEF TokenRow
    <2>5. tokens' = [tokens EXCEPT ![h.saw] = r]
        BY <1>4 DEF ExchangeWrite
    <2> HIDE DEF r
    <2> QED BY <1>1, <2>1, <2>4, <2>5, TokenChange
<1>5. ASSUME NEW c \in pending, RevokeToken(c) PROVE tokens' \in Seq(TokenRow) /\ TokensGrow
    <2>1. PICK t \in DOMAIN tokens : tokens' = [tokens EXCEPT ![t].revoked = TRUE]
        BY <1>5 DEF RevokeToken
    <2> DEFINE r == [tokens[t] EXCEPT !.revoked = TRUE]
    <2>2. tokens[t] \in TokenRow
        BY <1>1, TokenRows
    <2>3. r \in TokenRow /\ r.used = tokens[t].used
        BY <2>2 DEF TokenRow
    <2>4. tokens' = [tokens EXCEPT ![t] = r]
        BY <2>1
    <2> HIDE DEF r
    <2> QED BY <1>1, <2>3, <2>4, TokenChange
<1> QED BY <1>3, <1>4, <1>5

\* The writes to bindings.
LEMMA BindingStepTypes ==
    ASSUME TypeInv,
           \/ \E h \in running : EnsureWrite(h) \/ SeenWrite(h)
           \/ \E c \in pending : SetBinding(c)
    PROVE  AgentTypes' /\ TokensGrow /\ BindingsGrow
<1>1. AgentTypes /\ UNCHANGED <<tokens, inventory>> /\ stamp' = stamp + 1
    BY DEF TypeInv, EnsureWrite, SeenWrite, SetBinding
<1>2. SUFFICES /\ bindings' \in Seq(BindingRow) /\ stamp' \in Nat /\ BindingsGrow
               /\ \A a \in DOMAIN bindings' : bindings'[a].updated <= stamp'
    BY <1>1 DEF AgentTypes, TokensGrow
<1>3. ASSUME NEW b \in DOMAIN bindings PROVE bindings[b].status \in BindingStatuses
    BY <1>1, <1>3, BindingRows DEF BindingRow
<1>4. ASSUME NEW h \in running, EnsureWrite(h), h.saw # 0
      PROVE  h.saw \in DOMAIN bindings /\ bindings' = Touched(h.saw, "active")
    BY <1>4 DEF EnsureWrite, TypeInv, Fits
<1>5. ASSUME NEW h \in running, EnsureWrite(h), h.saw = 0
      PROVE  \E r \in BindingRow : r.updated = stamp + 1 /\ bindings' = Append(bindings, r)
    <2> DEFINE c == h.call
               r == [human |-> c.human, daemon |-> c.daemon, runtime |-> c.runtime, status |-> "active",
                     updated |-> stamp + 1]
    <2>1. c \in CallsOf({"ensure_binding"})
        BY <1>5 DEF EnsureWrite, TypeInv, Fits, CallTypes, Handler, CallsOf, Calls
    <2>2. c.human \in Dids /\ c.daemon \in Daemons /\ c.runtime \in Runtimes /\ "active" \in BindingStatuses
        BY <2>1, AgentCallsAssumption DEF Daemons, Runtimes, BindingStatuses
    <2>3. stamp + 1 \in Nat
        BY <1>1 DEF AgentTypes
    <2>4. r \in BindingRow /\ r.updated = stamp + 1
        BY <2>2, <2>3 DEF BindingRow
    <2>5. bindings' = Append(bindings, r)
        BY <1>5 DEF EnsureWrite
    <2> HIDE DEF r
    <2> QED BY <2>4, <2>5
<1>6. ASSUME NEW h \in running, SeenWrite(h)
      PROVE  h.saw \in DOMAIN bindings /\ bindings' = Touched(h.saw, bindings[h.saw].status)
    BY <1>6 DEF SeenWrite, TypeInv, Fits
<1>7. ASSUME NEW c \in pending, SetBinding(c)
      PROVE  c.status \in BindingStatuses /\ \E b \in DOMAIN bindings : bindings' = Touched(b, c.status)
    <2>1. c \in CallsOf({"set_binding"})
        BY <1>7 DEF SetBinding, TypeInv, CallTypes, CallsOf, Calls
    <2> QED BY <1>7, <2>1 DEF SetBinding, BindingStatuses
<1>8. "active" \in BindingStatuses
    BY DEF BindingStatuses
<1>9. ASSUME NEW h \in running, EnsureWrite(h)
      PROVE  /\ bindings' \in Seq(BindingRow) /\ stamp' \in Nat /\ BindingsGrow
             /\ \A a \in DOMAIN bindings' : bindings'[a].updated <= stamp'
    <2>1. CASE h.saw = 0
        BY <1>1, <1>5, <1>9, <2>1, BindingAdd
    <2>2. CASE h.saw # 0
        BY <1>1, <1>4, <1>8, <1>9, <2>2, BindingChange
    <2> QED BY <2>1, <2>2
<1> QED BY <1>1, <1>3, <1>6, <1>7, <1>9, BindingChange

\* What an archive or an unbind writes, with a row and without one.
Shelved(c, status) ==
    /\ inventory' = IF inventory[c.agent] = NoAgent THEN inventory
                    ELSE [inventory EXCEPT ![c.agent] =
                            [inventory[c.agent] EXCEPT !.status = status, !.archived = TRUE]]
    /\ chosen' = [chosen EXCEPT ![c.agent].archived = TRUE,
                                ![c.agent].early = (inventory[c.agent] = NoAgent)]

LEMMA ShelvesRow ==
    ASSUME TypeInv, NEW c \in pending, Archive(c) \/ Unbind(c)
    PROVE  c.agent \in Dids /\ \E status \in AgentStatuses : Shelved(c, status)
<1>1. c.op \in {"archive", "unbind"} /\ c \in Calls
    BY DEF Archive, Unbind, Shelve, Edit, TypeInv, CallTypes
<1>2. c.agent \in Dids
    BY <1>1, AgentCallsAssumption DEF CallsOf, Calls
<1>3. "archived" \in AgentStatuses /\ "unbound" \in AgentStatuses
    BY DEF AgentStatuses
<1>4. Archive(c) => Shelved(c, "archived")
    BY DEF Archive, Shelve, Shelved
<1>5. Unbind(c) => Shelved(c, "unbound")
    BY DEF Unbind, Shelve, Shelved
<1> QED BY <1>2, <1>3, <1>4, <1>5

\* The writes to the inventory.
LEMMA InventoryStepTypes ==
    ASSUME TypeInv,
           \/ \E h \in running : ReportWrite(h) \/ SyncWrite(h)
           \/ \E c \in pending : SetPolicy(c) \/ Rename(c) \/ Archive(c) \/ Unbind(c)
    PROVE  AgentTypes' /\ TokensGrow /\ BindingsGrow
<1>1. AgentTypes /\ UNCHANGED <<tokens, bindings, stamp>>
    BY DEF TypeInv, ReportWrite, SyncWrite, SetPolicy, Rename, Archive, Unbind, Shelve, Edit
<1>2. SUFFICES AgentTypes'
    BY <1>1 DEF TokensGrow, BindingsGrow
<1>3. ASSUME NEW h \in running, ReportWrite(h) PROVE AgentTypes'
    <2> DEFINE c == h.call
    <2>1. c \in CallsOf({"report"}) /\ h.saw \in Dids
        BY <1>3 DEF ReportWrite, TypeInv, Fits, CallTypes, Handler, CallsOf, Calls
    <2>2. c.daemon \in Dids /\ c.agent \in Dids /\ c.status \in AgentStatuses
        BY <2>1, AgentCallsAssumption DEF AgentStatuses
    <2>3. inventory[c.agent] \in AgentRow \cup {NoAgent}
        BY <1>1, <2>2 DEF AgentTypes
    <2>4. StatusItem(h) \in AgentRow
        <3>1. CASE inventory[c.agent] = NoAgent
            BY <2>1, <2>2, <3>1, AgentsAssumption DEF StatusItem, AgentRow
        <3>2. CASE inventory[c.agent] # NoAgent
            BY <2>1, <2>2, <2>3, <3>2 DEF StatusItem, AgentRow
        <3> QED BY <3>1, <3>2
    <2> QED BY <1>1, <1>3, <2>2, <2>4, AgentChange DEF ReportWrite
<1>4. ASSUME NEW h \in running, SyncWrite(h) PROVE AgentTypes'
    <2>1. h.saw \in Dids
        BY <1>4 DEF SyncWrite, TypeInv, Fits
    <2>2. \A r \in AgentRow : [r EXCEPT !.controller = h.saw] \in AgentRow
        BY <2>1 DEF AgentRow
    <2>3. inventory \in [Dids -> AgentRow \cup {NoAgent}]
        BY <1>1 DEF AgentTypes
    <2>4. inventory' \in [Dids -> AgentRow \cup {NoAgent}]
        BY <1>4, <2>2, <2>3 DEF SyncWrite
    <2> QED BY <1>1, <2>4 DEF AgentTypes
<1>5. ASSUME NEW c \in pending, SetPolicy(c) PROVE AgentTypes'
    <2>1. c \in CallsOf({"set_policy"})
        BY <1>5 DEF SetPolicy, Edit, TypeInv, CallTypes, CallsOf, Calls
    <2>2. c.agent \in Dids /\ c.policy \in Policies
        BY <2>1, AgentCallsAssumption
    <2>3. inventory[c.agent] \in AgentRow
        BY <1>1, <1>5, <2>2 DEF AgentTypes, SetPolicy, Edit
    <2>4. [inventory[c.agent] EXCEPT !.policy = c.policy] \in AgentRow
        BY <2>2, <2>3 DEF AgentRow
    <2> QED BY <1>1, <1>5, <2>2, <2>4, AgentChange DEF SetPolicy
<1>6. ASSUME NEW c \in pending, Rename(c) PROVE AgentTypes'
    <2>1. c \in CallsOf({"rename"})
        BY <1>6 DEF Rename, Edit, TypeInv, CallTypes, CallsOf, Calls
    <2>2. c.agent \in Dids /\ c.name \in Names
        BY <2>1, AgentCallsAssumption
    <2>3. inventory[c.agent] \in AgentRow
        BY <1>1, <1>6, <2>2 DEF AgentTypes, Rename, Edit
    <2>4. [inventory[c.agent] EXCEPT !.name = c.name] \in AgentRow
        BY <2>2, <2>3 DEF AgentRow
    <2> QED BY <1>1, <1>6, <2>2, <2>4, AgentChange DEF Rename
<1>7. ASSUME NEW c \in pending, Archive(c) \/ Unbind(c) PROVE AgentTypes'
    <2>1. PICK status \in AgentStatuses : Shelved(c, status)
        BY <1>7, ShelvesRow
    <2>2. c.agent \in Dids
        BY <1>7, ShelvesRow
    <2>3. CASE inventory[c.agent] = NoAgent
        BY <1>1, <2>1, <2>3 DEF Shelved, AgentTypes
    <2>4. CASE inventory[c.agent] # NoAgent
        <3>1. inventory[c.agent] \in AgentRow
            BY <1>1, <2>2, <2>4 DEF AgentTypes
        <3>2. [inventory[c.agent] EXCEPT !.status = status, !.archived = TRUE] \in AgentRow
            BY <3>1 DEF AgentRow
        <3> QED BY <1>1, <2>1, <2>2, <2>4, <3>2, AgentChange DEF Shelved
    <2> QED BY <2>3, <2>4
<1> QED BY <1>3, <1>4, <1>5, <1>6, <1>7

\* What is left of a step: the handlers that stay are at a step that fits.
LEMMA TypeRest ==
    ASSUME TypeInv, AccountTypes', AgentTypes', CallTypes', TokensGrow, BindingsGrow,
           \A e \in Dids : users[e] # NoUser => users'[e] # NoUser,
           \A h \in running' : h \in running \/ Fits(h)
    PROVE  TypeInv'
<1>1. \A h \in running' : Fits(h) /\ h \in Handler
    BY DEF TypeInv, CallTypes
<1>2. Grows
    BY DEF Grows, TokensGrow, BindingsGrow
<1> QED BY <1>1, <1>2, FitsStays DEF TypeInv

LEMMA AgentsStill ==
    ASSUME TypeInv, UNCHANGED agentVars
    PROVE  AgentTypes' /\ TokensGrow /\ BindingsGrow
BY DEF TypeInv, AgentTypes, TokensGrow, BindingsGrow, agentVars

LEMMA AccountsStill ==
    ASSUME TypeInv, UNCHANGED <<users, documents, pairs, codes, otps>>, now' \in 0..MaxTime
    PROVE  AccountTypes' /\ \A e \in Dids : users[e] # NoUser => users'[e] # NoUser
BY DEF TypeInv, AccountTypes

\* The writes of accounts, one by one.
LEMMA SendOtpTypes ==
    ASSUME TypeInv, NEW c \in pending, SendOtpRow(c), UNCHANGED agentVars
    PROVE  TypeInv'
<1>1. "file" \in StepNames /\ codes + 1 \in Seen /\ codes + 1 \in Nat
    BY DEF StepNames, Seen, TypeInv, AccountTypes
<1>2. Begin(c, "file", codes + 1) /\ UNCHANGED honoured /\ CallTypes
    BY DEF SendOtpRow, TypeInv
<1>3. CallTypes' /\ \A h \in running' : h \in running \/ (h.call = c /\ h.step = "file" /\ h.saw = codes + 1)
    BY <1>1, <1>2, BeginTypes
<1>4. \A h : h.step = "file" => Fits(h)
    BY DEF Fits
<1>5. AccountTypes' /\ \A e \in Dids : users[e] # NoUser => users'[e] # NoUser
    BY <1>1 DEF SendOtpRow, TypeInv, AccountTypes, clockVars
<1> QED BY <1>3, <1>4, <1>5, AgentsStill, TypeRest

LEMMA RegisterTypes ==
    ASSUME TypeInv, NEW c \in pending, Register(c), UNCHANGED agentVars
    PROVE  TypeInv'
<1>1. c \in CallsOf({"register", "sms_login"})
    BY DEF Register, TypeInv, CallTypes, Calls, CallsOf
<1>2. codes' \in Nat /\ now' = now /\ otps' = [p \in DOMAIN otps' |-> otps'[p]]
    BY DEF Register, Redeem, TypeInv, AccountTypes, clockVars
<1>3. \A x \in honoured' : x \in honoured \/ x.call = c
    BY Honours DEF Register, Redeem
<1>4. CallTypes' /\ running' \subseteq running
    BY <1>3, CompleteTypes DEF Register, TypeInv
<1>5. AccountTypes' /\ \A e \in Dids : users[e] # NoUser => users'[e] # NoUser
    BY <1>1, <1>2, NewAccountTypes DEF Register
<1> QED BY <1>4, <1>5, AgentsStill, TypeRest

LEMMA SmsRegisterTypes ==
    ASSUME TypeInv, NEW h \in running, SmsRegister(h), UNCHANGED agentVars
    PROVE  TypeInv'
<1>1. h.call \in CallsOf({"register", "sms_login"})
    BY DEF SmsRegister, TypeInv, CallTypes, Handler, Fits, Calls, CallsOf
<1>2. codes' \in Nat /\ now' = now /\ otps' = [p \in DOMAIN otps' |-> otps'[p]]
    BY DEF SmsRegister, TypeInv, AccountTypes, clockVars
<1>3. CallTypes' /\ running' \subseteq running
    BY FinishTypes DEF SmsRegister, TypeInv
<1>4. AccountTypes' /\ \A e \in Dids : users[e] # NoUser => users'[e] # NoUser
    BY <1>1, <1>2, NewAccountTypes DEF SmsRegister
<1> QED BY <1>3, <1>4, AgentsStill, TypeRest

LEMMA ConsumeTypes ==
    ASSUME TypeInv, NEW h \in running, Consume(h), UNCHANGED agentVars
    PROVE  TypeInv'
<1>1. Honour(h.call, h.since, "signature", h.call.signature.id)
    BY DEF Consume
<1>2. \A x \in honoured' : x \in honoured \/ x.call = h.call
    BY <1>1, Honours
<1>3. "rotate" \in StepNames /\ 0 \in Seen
    BY DEF StepNames, Seen
<1>4. Continue(h, "rotate", 0) /\ CallTypes
    BY DEF Consume, TypeInv
<1>5. CallTypes' /\ \A g \in running' : g \in running \/ (g.call = h.call /\ g.step = "rotate" /\ g.saw = 0)
    BY <1>2, <1>3, <1>4, ContinueTypes
<1>6. h.call.op = "signed_me"
    BY DEF Consume, TypeInv, Fits
<1>7. \A g : g.call = h.call /\ g.step = "rotate" /\ g.saw = 0 => Fits(g)
    BY <1>6 DEF Fits
<1>8. AccountTypes' /\ \A e \in Dids : users[e] # NoUser => users'[e] # NoUser
    BY AccountsStill DEF Consume, TypeInv, AccountTypes, clockVars
<1> QED BY <1>5, <1>7, <1>8, AgentsStill, TypeRest

LEMMA UpdateAuthTypes ==
    ASSUME TypeInv, NEW h \in running, UpdateAuth(h), UNCHANGED agentVars
    PROVE  TypeInv'
<1>1. h.call.op = "update" /\ h.saw \in [content : Contents, version : 1..MaxVersion]
    BY DEF UpdateAuth, TypeInv, Fits
<1>2. "write" \in StepNames /\ h.saw \in Seen
    BY <1>1 DEF StepNames, Seen
<1>3. Continue(h, "write", h.saw) /\ CallTypes /\ UNCHANGED honoured
    BY DEF UpdateAuth, TypeInv
<1>4. CallTypes' /\ \A g \in running' : g \in running \/ (g.call = h.call /\ g.step = "write" /\ g.saw = h.saw)
    BY <1>2, <1>3, ContinueTypes
<1>5. \A g : g.call = h.call /\ g.step = "write" /\ g.saw = h.saw => Fits(g)
    BY <1>1 DEF Fits
<1>6. AccountTypes' /\ \A e \in Dids : users[e] # NoUser => users'[e] # NoUser
    BY AccountsStill DEF UpdateAuth, TypeInv, AccountTypes, clockVars, accountVars
<1> QED BY <1>4, <1>5, <1>6, AgentsStill, TypeRest

LEMMA AccountWriteTypes ==
    ASSUME TypeInv, NEW h \in running,
           Rotate(h) \/ SendOtpFile(h) \/ UpdateWrite(h) \/ RevokeWrite(h), UNCHANGED agentVars
    PROVE  TypeInv'
<1>1. Finish(h) /\ \A x \in honoured' : x \in honoured \/ x.call = h.call
    BY Honours DEF Rotate, SendOtpFile, UpdateWrite, RevokeWrite
<1>2. CallTypes' /\ running' \subseteq running
    BY <1>1, FinishTypes DEF TypeInv
<1>3. ASSUME SendOtpFile(h) PROVE AccountTypes' /\ \A e \in Dids : users[e] # NoUser => users'[e] # NoUser
    BY <1>3, AccountsStill DEF SendOtpFile, TypeInv, AccountTypes, clockVars
<1>4. AccountTypes' /\ \A e \in Dids : users[e] # NoUser => users'[e] # NoUser
    BY <1>3, RotateTypes, UpdateTypes, RevokeTypes
<1> QED BY <1>2, <1>4, AgentsStill, TypeRest

LEMMA PassTypes ==
    ASSUME TypeInv, Tick \/ Restart, UNCHANGED agentVars
    PROVE  TypeInv'
<1>1. UNCHANGED <<users, documents, pairs, codes, otps, honoured, pending>> /\ now' \in 0..MaxTime
    BY AccountsAssumption DEF Tick, Restart, TypeInv, AccountTypes, accountVars, callVars
<1>2. running' \subseteq running
    BY DEF Tick, Restart, callVars
<1>3. CallTypes'
    BY <1>1, <1>2 DEF TypeInv, CallTypes
<1> QED BY <1>1, <1>2, <1>3, AgentsStill, AccountsStill, TypeRest

\* The writes of agents.
LEMMA AgentWriteTypes ==
    ASSUME TypeInv, NEW h \in running,
           \/ IssueInsert(h) \/ ExchangeWrite(h) \/ EnsureWrite(h) \/ SeenWrite(h)
           \/ ReportWrite(h) \/ SyncWrite(h)
    PROVE  TypeInv'
<1>1. Finish(h) /\ \A x \in honoured' : x \in honoured \/ x.call = h.call
    BY Honours DEF IssueInsert, ExchangeWrite, EnsureWrite, SeenWrite, ReportWrite, SyncWrite
<1>2. CallTypes' /\ running' \subseteq running
    BY <1>1, FinishTypes DEF TypeInv
<1>3. AgentTypes' /\ TokensGrow /\ BindingsGrow
    BY TokenStepTypes, BindingStepTypes, InventoryStepTypes
<1>4. AccountTypes' /\ \A e \in Dids : users[e] # NoUser => users'[e] # NoUser
    <2>1. CASE ExchangeWrite(h)
        BY <2>1, ExchangeTypes
    <2>2. CASE ~ExchangeWrite(h)
        <3>1. UNCHANGED <<users, documents, pairs, codes, otps, now>>
            BY <2>2 DEF IssueInsert, EnsureWrite, SeenWrite, ReportWrite, SyncWrite, accountVars, clockVars
        <3> QED BY <3>1, AccountsStill DEF TypeInv, AccountTypes
    <2> QED BY <2>1, <2>2
<1> QED BY <1>2, <1>3, <1>4, TypeRest

LEMMA AgentRequestTypes ==
    ASSUME TypeInv, NEW c \in pending,
           RevokeToken(c) \/ SetBinding(c) \/ SetPolicy(c) \/ Rename(c) \/ Archive(c) \/ Unbind(c)
    PROVE  TypeInv'
<1>1. Complete(c) /\ UNCHANGED <<users, documents, pairs, codes, otps, now, honoured>>
    BY DEF RevokeToken, SetBinding, SetPolicy, Rename, Archive, Unbind, Shelve, Edit, accountVars, clockVars
<1>2. CallTypes' /\ running' \subseteq running
    BY <1>1, CompleteTypes DEF TypeInv
<1>3. AgentTypes' /\ TokensGrow /\ BindingsGrow
    BY TokenStepTypes, BindingStepTypes, InventoryStepTypes
<1>4. AccountTypes' /\ \A e \in Dids : users[e] # NoUser => users'[e] # NoUser
    BY <1>1, AccountsStill DEF TypeInv, AccountTypes
<1> QED BY <1>2, <1>3, <1>4, TypeRest

\* The steps of the system, sorted by what they touch.
Steps ==
    \/ \E c \in pending : (AccountLook(c) /\ UNCHANGED agentVars) \/ AgentLook(c)
    \/ \E c \in pending : (SendOtpRow(c) \/ Register(c)) /\ UNCHANGED agentVars
    \/ \E h \in running :
        /\ \/ Rotate(h) \/ SendOtpFile(h) \/ UpdateWrite(h) \/ RevokeWrite(h)
           \/ SmsRegister(h) \/ Consume(h) \/ UpdateAuth(h)
        /\ UNCHANGED agentVars
    \/ (Tick \/ Restart) /\ UNCHANGED agentVars
    \/ \E h \in running :
        \/ IssueInsert(h) \/ ExchangeWrite(h) \/ EnsureWrite(h) \/ SeenWrite(h)
        \/ ReportWrite(h) \/ SyncWrite(h)
    \/ \E c \in pending :
        RevokeToken(c) \/ SetBinding(c) \/ SetPolicy(c) \/ Rename(c) \/ Archive(c) \/ Unbind(c)

LEMMA NextIsSteps == Next => Steps
BY DEF Next, AccountsNext, Steps, AccountLook, AgentLook

LEMMA TypeStep ==
    ASSUME TypeInv, [Next]_allVars
    PROVE  TypeInv'
<1>1. CASE UNCHANGED allVars
    BY <1>1 DEF allVars, vars, accountVars, clockVars, callVars, agentVars, TypeInv, AccountTypes,
                AgentTypes, CallTypes, Fits
<1>2. CASE Next
    <2>1. Steps
        BY <1>2, NextIsSteps
    <2> QED BY <2>1, TypeLook, SendOtpTypes, RegisterTypes, AccountWriteTypes, SmsRegisterTypes, ConsumeTypes,
               UpdateAuthTypes, PassTypes, AgentWriteTypes, AgentRequestTypes DEF Steps
<1> QED BY <1>1, <1>2

LEMMA TypeInit == Init => TypeInv
<1> SUFFICES ASSUME Init PROVE TypeInv
    OBVIOUS
<1> DEFINE u == [handle |-> Founder.handle, device |-> ManifestOf[Founder.content], revoked |-> FALSE,
                 pair |-> 1, accessUntil |-> AccessLife, refreshUntil |-> RefreshLife]
           w == [content |-> Founder.content, version |-> 1, active |-> TRUE]
<1>1. u \in UserRow /\ u.pair = 1 /\ ~u.revoked
    <2>1. Founder.handle \in Handles /\ ManifestOf[Founder.content] \in Devices
        BY AccountsAssumption DEF Handles, Devices
    <2> QED BY <2>1, AccountsAssumption DEF UserRow
<1>2. w \in DocumentRow /\ w.active
    BY AccountsAssumption DEF DocumentRow
<1>3. /\ users = [d \in Dids |-> IF d = Founder.did THEN u ELSE NoUser]
      /\ documents = [d \in Dids |-> IF d = Founder.did THEN w ELSE NoDocument]
    BY DEF Init, AccountsInit
<1> HIDE DEF u, w
<1>4. u # NoUser /\ w # NoDocument
    BY <1>1, <1>2, CallsAssumption
<1>5. AccountTypes
    <2>1. users \in [Dids -> UserRow \cup {NoUser}] /\ documents \in [Dids -> DocumentRow \cup {NoDocument}]
        BY <1>1, <1>2, <1>3
    <2>2. pairs = 1 /\ codes = 0 /\ now = 0 /\ otps = [p \in DOMAIN otps |-> otps[p]]
        BY DEF Init, AccountsInit
    <2>3. \A d \in Dids : users[d] # NoUser => users[d] = u /\ documents[d] = w
        BY <1>3
    <2> QED BY <1>1, <1>2, <1>4, <2>1, <2>2, <2>3, AccountsAssumption DEF AccountTypes
<1>6. AgentTypes
    BY DEF Init, AgentTypes
<1>7. CallTypes /\ \A h \in running : Fits(h)
    BY DEF Init, AccountsInit, CallTypes, Calls
<1> QED BY <1>5, <1>6, <1>7 DEF TypeInv
-----------------------------------------------------------------------------
(* Operators' choices. *)

Choice == [name : Names, policy : Policies, archived : BOOLEAN, early : BOOLEAN]

\* A row agrees with what operators were told.
Agrees(r, k) ==
    /\ r.policy = k.policy /\ r.name = k.name
    /\ r.archived => k.archived
    /\ k.archived => r.archived \/ k.early

\* What holds of the choices for an agent nobody reported: its name and policy
\* are those the first report brings along, and an archive came early.
Unheard(k) == k.name = DefaultName /\ k.policy = DefaultPolicy /\ (k.archived => k.early)

ChoiceInv ==
    /\ chosen \in [Dids -> Choice]
    /\ \A a \in Dids : inventory[a] = NoAgent => Unheard(chosen[a])
    /\ ChoicesStand

\* One agent's row and choices change together.
LEMMA ChoiceChange ==
    ASSUME TypeInv, ChoiceInv, NEW a \in Dids, NEW r \in AgentRow, NEW k \in Choice, Agrees(r, k),
           inventory' = [inventory EXCEPT ![a] = r], chosen' = [chosen EXCEPT ![a] = k]
    PROVE  ChoiceInv'
<1>1. inventory \in [Dids -> AgentRow \cup {NoAgent}] /\ chosen \in [Dids -> Choice]
    BY DEF TypeInv, AgentTypes, ChoiceInv
<1>2. \A e \in Dids : inventory'[e] = (IF e = a THEN r ELSE inventory[e]) /\ chosen'[e] = IF e = a THEN k ELSE chosen[e]
    BY <1>1
<1>3. chosen' \in [Dids -> Choice]
    BY <1>1
<1>4. r # NoAgent
    BY AgentCallsAssumption
<1>5. \A e \in Dids : inventory'[e] = NoAgent => Unheard(chosen'[e])
    BY <1>2, <1>4 DEF ChoiceInv
<1>6. \A e \in Dids : inventory'[e] # NoAgent => Agrees(inventory'[e], chosen'[e])
    BY <1>2 DEF ChoiceInv, ChoicesStand, Agrees
<1> QED BY <1>3, <1>5, <1>6 DEF ChoiceInv, ChoicesStand, Agrees

LEMMA ChoiceReport ==
    ASSUME TypeInv, ChoiceInv, NEW h \in running, ReportWrite(h)
    PROVE  ChoiceInv'
<1> DEFINE c == h.call
           a == c.agent
<1>1. c \in CallsOf({"report"}) /\ h.saw \in Dids
    BY DEF ReportWrite, TypeInv, Fits, CallTypes, Handler, CallsOf, Calls
<1>2. c.daemon \in Dids /\ a \in Dids /\ c.status \in AgentStatuses
    BY <1>1, AgentCallsAssumption DEF AgentStatuses
<1>3. inventory[a] \in AgentRow \cup {NoAgent} /\ chosen[a] \in Choice
    BY <1>2 DEF TypeInv, AgentTypes, ChoiceInv
<1>4. StatusItem(h) \in AgentRow /\ Agrees(StatusItem(h), chosen[a])
    <2>1. CASE inventory[a] = NoAgent
        <3>1. Unheard(chosen[a])
            BY <1>2, <2>1 DEF ChoiceInv
        <3> QED BY <1>1, <1>2, <2>1, <3>1, AgentsAssumption DEF StatusItem, AgentRow, Agrees, Unheard
    <2>2. CASE inventory[a] # NoAgent
        <3>1. Agrees(inventory[a], chosen[a])
            BY <1>2, <2>2 DEF ChoiceInv, ChoicesStand, Agrees
        <3> QED BY <1>1, <1>2, <1>3, <2>2, <3>1 DEF StatusItem, AgentRow, Agrees
    <2> QED BY <2>1, <2>2
<1>5. inventory' = [inventory EXCEPT ![a] = StatusItem(h)] /\ chosen' = [chosen EXCEPT ![a] = chosen[a]]
    BY DEF ReportWrite, ChoiceInv
<1> QED BY <1>2, <1>3, <1>4, <1>5, ChoiceChange

LEMMA ChoiceSync ==
    ASSUME TypeInv, ChoiceInv, NEW h \in running, SyncWrite(h)
    PROVE  ChoiceInv'
<1>1. inventory \in [Dids -> AgentRow \cup {NoAgent}] /\ UNCHANGED chosen
    BY DEF TypeInv, AgentTypes, SyncWrite
<1>2. \A a \in Dids :
        \/ inventory'[a] = inventory[a]
        \/ (inventory[a] # NoAgent /\ inventory'[a] = [inventory[a] EXCEPT !.controller = h.saw])
    BY <1>1 DEF SyncWrite
<1>3. h.saw \in Dids
    BY DEF SyncWrite, TypeInv, Fits
<1>4. \A r \in AgentRow : /\ [r EXCEPT !.controller = h.saw] \in AgentRow
                           /\ [r EXCEPT !.controller = h.saw].policy = r.policy
                           /\ [r EXCEPT !.controller = h.saw].name = r.name
                           /\ [r EXCEPT !.controller = h.saw].archived = r.archived
    BY <1>3 DEF AgentRow
<1>5. NoAgent \notin AgentRow
    BY AgentCallsAssumption
<1>6. ASSUME NEW a \in Dids
      PROVE  /\ inventory'[a] = NoAgent <=> inventory[a] = NoAgent
             /\ inventory[a] # NoAgent =>
                    /\ inventory'[a].policy = inventory[a].policy /\ inventory'[a].name = inventory[a].name
                    /\ inventory'[a].archived = inventory[a].archived
    <2>1. CASE inventory'[a] = inventory[a]
        BY <2>1
    <2>2. CASE inventory[a] # NoAgent /\ inventory'[a] = [inventory[a] EXCEPT !.controller = h.saw]
        <3> DEFINE r == inventory[a]
        <3>1. r \in AgentRow /\ r # NoAgent
            BY <1>1, <2>2
        <3>2. inventory'[a] = [r EXCEPT !.controller = h.saw]
            BY <2>2
        <3> HIDE DEF r
        <3>3. inventory'[a] # NoAgent
            BY <1>4, <1>5, <3>1, <3>2
        <3>4. inventory'[a].policy = r.policy /\ inventory'[a].name = r.name /\ inventory'[a].archived = r.archived
            BY <1>4, <3>1, <3>2
        <3> QED BY <3>1, <3>3, <3>4 DEF r
    <2> QED BY <1>2, <2>1, <2>2
<1> QED BY <1>1, <1>6 DEF ChoiceInv, ChoicesStand

LEMMA ChoiceEdit ==
    ASSUME TypeInv, ChoiceInv, NEW c \in pending, SetPolicy(c) \/ Rename(c)
    PROVE  ChoiceInv'
<1> DEFINE a == c.agent
<1>1. c.op \in {"set_policy", "rename"} /\ inventory[a] # NoAgent /\ c \in Calls
    BY DEF SetPolicy, Rename, Edit, TypeInv, CallTypes
<1>2. a \in Dids
    BY <1>1, AgentCallsAssumption DEF CallsOf, Calls
<1>3. inventory[a] \in AgentRow /\ chosen[a] \in Choice /\ Agrees(inventory[a], chosen[a])
    BY <1>1, <1>2 DEF TypeInv, AgentTypes, ChoiceInv, ChoicesStand, Agrees
<1>4. CASE SetPolicy(c)
    <2> DEFINE r == [inventory[a] EXCEPT !.policy = c.policy]
               k == [chosen[a] EXCEPT !.policy = c.policy]
    <2>1. c.policy \in Policies
        BY <1>1, <1>4, AgentCallsAssumption DEF SetPolicy, Edit, CallsOf, Calls
    <2>2. r \in AgentRow /\ k \in Choice /\ Agrees(r, k)
        BY <1>3, <2>1 DEF AgentRow, Choice, Agrees
    <2>3. inventory' = [inventory EXCEPT ![a] = r] /\ chosen' = [chosen EXCEPT ![a] = k]
        BY <1>4 DEF SetPolicy
    <2> HIDE DEF r, k
    <2> QED BY <1>2, <2>2, <2>3, ChoiceChange
<1>5. CASE Rename(c)
    <2> DEFINE r == [inventory[a] EXCEPT !.name = c.name]
               k == [chosen[a] EXCEPT !.name = c.name]
    <2>1. c.name \in Names
        BY <1>1, <1>5, AgentCallsAssumption DEF Rename, Edit, CallsOf, Calls
    <2>2. r \in AgentRow /\ k \in Choice /\ Agrees(r, k)
        BY <1>3, <2>1 DEF AgentRow, Choice, Agrees
    <2>3. inventory' = [inventory EXCEPT ![a] = r] /\ chosen' = [chosen EXCEPT ![a] = k]
        BY <1>5 DEF Rename
    <2> HIDE DEF r, k
    <2> QED BY <1>2, <2>2, <2>3, ChoiceChange
<1> QED BY <1>4, <1>5

LEMMA ChoiceShelve ==
    ASSUME TypeInv, ChoiceInv, NEW c \in pending, Archive(c) \/ Unbind(c)
    PROVE  ChoiceInv'
<1> DEFINE a == c.agent
           k == [chosen[a] EXCEPT !.archived = TRUE, !.early = (inventory[a] = NoAgent)]
<1>1. PICK t \in AgentStatuses : Shelved(c, t)
    BY ShelvesRow
<1>2. a \in Dids
    BY ShelvesRow
<1>3. /\ inventory[a] \in AgentRow \cup {NoAgent} /\ chosen[a] \in Choice
      /\ chosen \in [Dids -> Choice]
    BY <1>2 DEF TypeInv, AgentTypes, ChoiceInv
<1>4. /\ k \in Choice /\ k.archived /\ k.name = chosen[a].name /\ k.policy = chosen[a].policy
      /\ inventory[a] = NoAgent => k.early
    BY <1>3 DEF Choice
<1>5. chosen' = [chosen EXCEPT ![a] = k]
    BY <1>1 DEF Shelved
<1> HIDE DEF k
<1>6. CASE inventory[a] = NoAgent
    <2>1. UNCHANGED inventory
        BY <1>1, <1>6 DEF Shelved
    <2>2. Unheard(k)
        BY <1>2, <1>4, <1>6 DEF ChoiceInv, Unheard
    <2>3. \A e \in Dids : chosen'[e] = IF e = a THEN k ELSE chosen[e]
        BY <1>3, <1>5
    <2>4. chosen' \in [Dids -> Choice]
        BY <1>3, <1>4, <1>5
    <2> QED BY <1>6, <2>1, <2>2, <2>3, <2>4 DEF ChoiceInv, ChoicesStand
<1>7. CASE inventory[a] # NoAgent
    <2> DEFINE r == [inventory[a] EXCEPT !.status = t, !.archived = TRUE]
    <2>1. Agrees(inventory[a], chosen[a])
        BY <1>2, <1>7 DEF ChoiceInv, ChoicesStand, Agrees
    <2>2. r \in AgentRow /\ Agrees(r, k)
        BY <1>3, <1>4, <1>7, <2>1 DEF AgentRow, Agrees
    <2>3. inventory' = [inventory EXCEPT ![a] = r]
        BY <1>1, <1>7 DEF Shelved
    <2> HIDE DEF r
    <2> QED BY <1>2, <1>4, <1>5, <2>2, <2>3, ChoiceChange
<1> QED BY <1>6, <1>7

LEMMA ChoiceInit == Init => ChoiceInv
<1> DEFINE k == [name |-> DefaultName, policy |-> DefaultPolicy, archived |-> FALSE, early |-> FALSE]
<1>1. k \in Choice /\ Unheard(k)
    BY AgentsAssumption DEF Choice, Unheard
<1>2. Init => chosen = [a \in Dids |-> k] /\ inventory = [a \in Dids |-> NoAgent]
    BY DEF Init
<1> HIDE DEF k
<1> QED BY <1>1, <1>2 DEF ChoiceInv, ChoicesStand

LEMMA ChoiceStep ==
    ASSUME TypeInv, ChoiceInv, [Next]_allVars
    PROVE  ChoiceInv'
<1>1. CASE UNCHANGED <<inventory, chosen>>
    BY <1>1 DEF ChoiceInv, ChoicesStand
<1>2. CASE Next
    <2>1. Steps
        BY <1>2, NextIsSteps
    <2>2. ASSUME NEW c \in pending, (AccountLook(c) /\ UNCHANGED agentVars) \/ AgentLook(c) PROVE ChoiceInv'
        BY <1>1, <2>2, Looks DEF Quiet, agentVars
    <2>3. CASE UNCHANGED agentVars
        BY <1>1, <2>3 DEF agentVars
    <2>4. ASSUME NEW h \in running, IssueInsert(h) \/ ExchangeWrite(h) \/ EnsureWrite(h) \/ SeenWrite(h) PROVE ChoiceInv'
        BY <1>1, <2>4 DEF IssueInsert, ExchangeWrite, EnsureWrite, SeenWrite
    <2>5. ASSUME NEW c \in pending, RevokeToken(c) \/ SetBinding(c) PROVE ChoiceInv'
        BY <1>1, <2>5 DEF RevokeToken, SetBinding
    <2> QED BY <2>1, <2>2, <2>3, <2>4, <2>5, ChoiceReport, ChoiceSync, ChoiceEdit, ChoiceShelve DEF Steps
<1> QED BY <1>1, <1>2 DEF allVars, agentVars
-----------------------------------------------------------------------------
(* Revocation. *)

\* The steps that write users or did_documents.
LEMMA WhoWrites ==
    ASSUME TypeInv, [Next]_allVars
    PROVE  \/ UNCHANGED <<users, documents, pairs>>
           \/ \E h \in running : Rotate(h) \/ UpdateWrite(h) \/ RevokeWrite(h) \/ ExchangeWrite(h)
           \/ \E c \in CallsOf({"register", "sms_login"}) : NewAccount(c)
<1>1. CASE Steps
    <2>1. ASSUME NEW c \in pending, (AccountLook(c) /\ UNCHANGED agentVars) \/ AgentLook(c) PROVE UNCHANGED <<users, documents, pairs>>
        BY <2>1, Looks DEF Quiet, accountVars
    <2>2. ASSUME NEW c \in pending, SendOtpRow(c) PROVE UNCHANGED <<users, documents, pairs>>
        BY <2>2 DEF SendOtpRow
    <2>3. ASSUME NEW c \in pending, Register(c) PROVE c \in CallsOf({"register", "sms_login"}) /\ NewAccount(c)
        BY <2>3 DEF Register, TypeInv, CallTypes, Calls, CallsOf
    <2>4. ASSUME NEW h \in running, SmsRegister(h) PROVE h.call \in CallsOf({"register", "sms_login"}) /\ NewAccount(h.call)
        BY <2>4 DEF SmsRegister, TypeInv, CallTypes, Handler, Fits, Calls, CallsOf
    <2>5. ASSUME NEW h \in running, SendOtpFile(h) \/ Consume(h) \/ UpdateAuth(h) PROVE UNCHANGED <<users, documents, pairs>>
        BY <2>5 DEF SendOtpFile, Consume, UpdateAuth, accountVars
    <2>6. ASSUME Tick \/ Restart PROVE UNCHANGED <<users, documents, pairs>>
        BY <2>6 DEF Tick, Restart, accountVars
    <2>7. ASSUME NEW h \in running, IssueInsert(h) \/ EnsureWrite(h) \/ SeenWrite(h) \/ ReportWrite(h) \/ SyncWrite(h)
          PROVE  UNCHANGED <<users, documents, pairs>>
        BY <2>7 DEF IssueInsert, EnsureWrite, SeenWrite, ReportWrite, SyncWrite, accountVars
    <2>8. ASSUME NEW c \in pending,
                 RevokeToken(c) \/ SetBinding(c) \/ SetPolicy(c) \/ Rename(c) \/ Archive(c) \/ Unbind(c)
          PROVE  UNCHANGED <<users, documents, pairs>>
        BY <2>8 DEF RevokeToken, SetBinding, SetPolicy, Rename, Archive, Unbind, Shelve, Edit, accountVars
    <2> QED BY <1>1, <2>1, <2>2, <2>3, <2>4, <2>5, <2>6, <2>7, <2>8 DEF Steps
<1>2. CASE UNCHANGED allVars
    BY <1>2 DEF allVars, vars, accountVars
<1> QED BY <1>1, <1>2, NextIsSteps

\* No step touches an account that is revoked.
LEMMA RevokedStep ==
    ASSUME TypeInv, [Next]_allVars, NEW d \in Dids, users[d] # NoUser, users[d].revoked
    PROVE  users'[d] = users[d] /\ documents'[d] = documents[d]
<1>0. /\ users \in [Dids -> UserRow \cup {NoUser}] /\ documents \in [Dids -> DocumentRow \cup {NoDocument}]
      /\ documents[d] # NoDocument /\ ~documents[d].active
    BY DEF TypeInv, AccountTypes
<1>1. CASE UNCHANGED <<users, documents>>
    BY <1>1
<1>2. ASSUME NEW h \in running, Rotate(h) PROVE users'[d] = users[d] /\ documents'[d] = documents[d]
    <2>1. h.call.did \in Dids /\ Active(h.call.did) /\ \E u \in UserRow : users' = [users EXCEPT ![h.call.did] = u]
        BY <1>2, RotateEffect
    <2>2. UNCHANGED documents
        BY <1>2 DEF Rotate
    <2> QED BY <1>0, <2>1, <2>2 DEF Active
<1>3. ASSUME NEW c \in CallsOf({"register", "sms_login"}), NewAccount(c)
      PROVE  users'[d] = users[d] /\ documents'[d] = documents[d]
    <2>1. /\ c.did \in Dids /\ users[c.did] = NoUser
          /\ \E u \in UserRow : users' = [users EXCEPT ![c.did] = u]
          /\ \E w \in DocumentRow : documents' = [documents EXCEPT ![c.did] = w]
        BY <1>3, NewAccountEffect
    <2> QED BY <1>0, <2>1
<1>4. ASSUME NEW h \in running, UpdateWrite(h) PROVE users'[d] = users[d] /\ documents'[d] = documents[d]
    <2>1. /\ h.call.did \in Dids /\ documents[h.call.did].active
          /\ documents' = documents \/ \E w \in DocumentRow : documents' = [documents EXCEPT ![h.call.did] = w]
        BY <1>4, UpdateEffect
    <2>2. UNCHANGED users
        BY <1>4 DEF UpdateWrite
    <2> QED BY <1>0, <2>1, <2>2
<1>5. ASSUME NEW h \in running, RevokeWrite(h) PROVE users'[d] = users[d] /\ documents'[d] = documents[d]
    <2>1. h.call.did \in Dids
        BY <1>5, RevokeEffect
    <2>2. PICK u \in UserRow : users' = [users EXCEPT ![h.call.did] = u] /\ (users[h.call.did].revoked => u = users[h.call.did])
        BY <1>5, RevokeEffect
    <2>3. PICK w \in DocumentRow :
            documents' = [documents EXCEPT ![h.call.did] = w] /\ (~documents[h.call.did].active => w = documents[h.call.did])
        BY <1>5, RevokeEffect
    <2> QED BY <1>0, <2>1, <2>2, <2>3
<1>6. ASSUME NEW h \in running, ExchangeWrite(h) PROVE users'[d] = users[d] /\ documents'[d] = documents[d]
    <2>1. /\ h.call.did \in Dids /\ documents[h.call.did] = NoDocument
          /\ documents' = documents \/ \E w \in DocumentRow : documents' = [documents EXCEPT ![h.call.did] = w]
        BY <1>6, ExchangeEffect
    <2>2. UNCHANGED users
        BY <1>6 DEF ExchangeWrite
    <2> QED BY <1>0, <2>1, <2>2
<1> QED BY <1>1, <1>2, <1>3, <1>4, <1>5, <1>6, WhoWrites
-----------------------------------------------------------------------------
(* Documents. *)

\* A document that is there stays, and its version does not go back.
DocumentsGrow ==
    \A d \in Dids : documents[d] # NoDocument =>
        documents'[d] # NoDocument /\ documents[d].version <= documents'[d].version

LEMMA DocumentStep ==
    ASSUME TypeInv, [Next]_allVars
    PROVE  DocumentsGrow
<1>1. /\ documents \in [Dids -> DocumentRow \cup {NoDocument}]
      /\ \A r \in DocumentRow : r # NoDocument /\ r.version \in Nat
    BY CallsAssumption, AccountsAssumption DEF TypeInv, AccountTypes, DocumentRow
<1>2. CASE UNCHANGED documents
    BY <1>1, <1>2 DEF DocumentsGrow
<1>3. ASSUME NEW d \in Dids, NEW w \in DocumentRow, documents' = [documents EXCEPT ![d] = w],
             documents[d] = NoDocument \/ documents[d].version <= w.version
      PROVE  DocumentsGrow
    <2>1. \A e \in Dids : documents'[e] = IF e = d THEN w ELSE documents[e]
        BY <1>1, <1>3
    <2> QED BY <1>1, <1>3, <2>1 DEF DocumentsGrow
<1>4. ASSUME NEW h \in running, UpdateWrite(h) PROVE DocumentsGrow
    <2>1. h.call.did \in Dids /\ documents[h.call.did] \in DocumentRow
        BY <1>4, UpdateEffect
    <2>2. ASSUME NEW w \in DocumentRow, documents' = [documents EXCEPT ![h.call.did] = w],
                 w.version = documents[h.call.did].version + 1
          PROVE  DocumentsGrow
        <3>1. documents[h.call.did].version <= w.version
            BY <1>1, <2>1, <2>2
        <3> QED BY <1>3, <2>1, <2>2, <3>1
    <2> QED BY <1>2, <1>4, <2>2, UpdateEffect
<1>5. ASSUME NEW h \in running, RevokeWrite(h) PROVE DocumentsGrow
    <2>1. h.call.did \in Dids /\ users[h.call.did] # NoUser
        BY <1>5, RevokeEffect
    <2>2. PICK w \in DocumentRow :
            documents' = [documents EXCEPT ![h.call.did] = w] /\ w.version = documents[h.call.did].version
        BY <1>5, RevokeEffect
    <2>3. documents[h.call.did].version <= w.version
        BY <1>1, <2>2
    <2> QED BY <1>3, <2>1, <2>2, <2>3
<1>6. ASSUME NEW h \in running, ExchangeWrite(h) PROVE DocumentsGrow
    BY <1>2, <1>3, <1>6, ExchangeEffect
<1>7. ASSUME NEW c \in CallsOf({"register", "sms_login"}), NewAccount(c) PROVE DocumentsGrow
    BY <1>3, <1>7, NewAccountEffect
<1>8. ASSUME NEW h \in running, Rotate(h) PROVE UNCHANGED documents
    BY <1>8 DEF Rotate
<1> QED BY <1>2, <1>4, <1>5, <1>6, <1>7, <1>8, WhoWrites

\* A writer that named the version it had read wrote the next one.
Later(x) ==
    x.wrote /\ x.call.mode = "version" =>
        /\ x.call.did \in Dids /\ documents[x.call.did] # NoDocument
        /\ x.base \in Nat /\ x.base < documents[x.call.did].version

VersionInv == OneWritePerVersion /\ \A x \in updates : Later(x)

LEMMA LaterStays ==
    ASSUME TypeInv, TypeInv', DocumentsGrow, NEW x, Later(x)
    PROVE  Later(x)'
<1>1. ASSUME x.wrote, x.call.mode = "version"
      PROVE  /\ x.call.did \in Dids /\ documents'[x.call.did] # NoDocument
             /\ x.base \in Nat /\ x.base < documents'[x.call.did].version
    <2> DEFINE d == x.call.did
    <2>1. d \in Dids /\ documents[d] # NoDocument /\ x.base \in Nat /\ x.base < documents[d].version
        BY <1>1 DEF Later
    <2>2. documents'[d] # NoDocument /\ documents[d].version <= documents'[d].version
        BY <2>1 DEF DocumentsGrow
    <2>3. documents[d] \in DocumentRow /\ documents'[d] \in DocumentRow
        BY <2>1, <2>2 DEF TypeInv, AccountTypes
    <2>4. documents[d].version \in Nat /\ documents'[d].version \in Nat
        BY <2>3, AccountsAssumption DEF DocumentRow
    <2> QED BY <2>1, <2>2, <2>4
<1> QED BY <1>1 DEF Later

LEMMA VersionWrite ==
    ASSUME TypeInv, TypeInv', DocumentsGrow, VersionInv, NEW h \in running, UpdateWrite(h)
    PROVE  VersionInv'
<1> DEFINE c == h.call
           d == c.did
           old == documents[d]
           exact == Exact(c.mode, h.saw, old)
           writes == c.content # old.content \/ exact
<1>1. d \in Dids /\ old \in DocumentRow
    BY UpdateEffect
<1>2. PICK r : updates' = updates \cup {r} /\ r.call = c /\ r.base = h.saw.version /\ (r.wrote <=> writes)
    <2> DEFINE q == [call |-> c, base |-> h.saw.version, wrote |-> writes]
    <2>1. updates' = updates \cup {q}
        BY DEF UpdateWrite
    <2>2. q.call = c /\ q.base = h.saw.version /\ (q.wrote <=> writes)
        OBVIOUS
    <2> HIDE DEF q, writes
    <2> QED BY <2>1, <2>2
<1>3. h.saw.version \in Nat /\ old.version \in Nat
    <2>1. h.saw \in [content : Contents, version : 1..MaxVersion]
        BY DEF UpdateWrite, TypeInv, Fits
    <2> QED BY <1>1, <2>1, AccountsAssumption DEF DocumentRow
<1>4. ASSUME writes, c.mode = "version"
      PROVE  /\ h.saw.version = old.version
             /\ documents'[d] # NoDocument /\ documents'[d].version = old.version + 1
    <2>1. exact
        BY <1>4 DEF UpdateWrite, Expected
    <2>2. documents' = [documents EXCEPT ![d] = [old EXCEPT !.content = c.content, !.version = @ + 1]]
        BY <1>4 DEF UpdateWrite
    <2>3. \A v \in DocumentRow : [v EXCEPT !.content = c.content, !.version = @ + 1].version = v.version + 1
        BY DEF DocumentRow
    <2>4. documents'[d] = [old EXCEPT !.content = c.content, !.version = @ + 1]
        BY <1>1, <2>2 DEF TypeInv, AccountTypes
    <2>5. old # NoDocument
        BY <1>1, CallsAssumption
    <2>6. documents'[d] # NoDocument
        BY <1>1, <2>5 DEF DocumentsGrow
    <2> QED BY <1>1, <2>1, <2>3, <2>4, <2>6 DEF Exact
<1> HIDE DEF writes, exact
<1>5. Later(r)'
    BY <1>1, <1>2, <1>3, <1>4 DEF Later
<1>6. \A x \in updates' : x \in updates \/ x = r
    BY <1>2
<1>7. \A x \in updates' : Later(x)'
    BY <1>5, <1>6, LaterStays DEF VersionInv
<1>8. ASSUME NEW x \in updates, x.call.did = d, x.base = r.base, x.wrote, r.wrote,
             x.call.mode = "version", c.mode = "version"
      PROVE  FALSE
    BY <1>2, <1>3, <1>4, <1>8 DEF VersionInv, Later
<1>9. OneWritePerVersion'
    BY <1>2, <1>6, <1>8 DEF VersionInv, OneWritePerVersion
<1> QED BY <1>7, <1>9 DEF VersionInv

LEMMA UpdatesStay ==
    ASSUME TypeInv, [Next]_allVars
    PROVE  UNCHANGED updates \/ \E h \in running : UpdateWrite(h)
<1>1. CASE Steps
    <2>1. ASSUME NEW c \in pending, (AccountLook(c) /\ UNCHANGED agentVars) \/ AgentLook(c) PROVE UNCHANGED updates
        BY <2>1, Looks DEF Quiet, accountVars
    <2>2. ASSUME NEW c \in pending,
                 \/ SendOtpRow(c) \/ Register(c)
                 \/ RevokeToken(c) \/ SetBinding(c) \/ SetPolicy(c) \/ Rename(c) \/ Archive(c) \/ Unbind(c)
          PROVE  UNCHANGED updates
        BY <2>2 DEF SendOtpRow, Register, RevokeToken, SetBinding, SetPolicy, Rename, Archive, Unbind, Shelve, Edit,
                    accountVars
    <2>3. ASSUME NEW h \in running,
                 \/ Rotate(h) \/ SendOtpFile(h) \/ RevokeWrite(h) \/ SmsRegister(h) \/ Consume(h) \/ UpdateAuth(h)
                 \/ IssueInsert(h) \/ ExchangeWrite(h) \/ EnsureWrite(h) \/ SeenWrite(h) \/ ReportWrite(h) \/ SyncWrite(h)
          PROVE  UNCHANGED updates
        BY <2>3 DEF Rotate, SendOtpFile, RevokeWrite, SmsRegister, Consume, UpdateAuth, IssueInsert, ExchangeWrite,
                    EnsureWrite, SeenWrite, ReportWrite, SyncWrite, accountVars
    <2>4. ASSUME Tick \/ Restart PROVE UNCHANGED updates
        BY <2>4 DEF Tick, Restart, accountVars
    <2> QED BY <1>1, <2>1, <2>2, <2>3, <2>4 DEF Steps
<1>2. CASE UNCHANGED allVars
    BY <1>2 DEF allVars, vars, accountVars
<1> QED BY <1>1, <1>2, NextIsSteps

LEMMA VersionStep ==
    ASSUME TypeInv, TypeInv', VersionInv, [Next]_allVars
    PROVE  VersionInv'
<1>1. DocumentsGrow
    BY DocumentStep
<1>2. CASE UNCHANGED updates
    <2>1. \A x \in updates : Later(x)'
        BY <1>1, LaterStays DEF VersionInv
    <2> QED BY <1>2, <2>1 DEF VersionInv, OneWritePerVersion
<1> QED BY <1>1, <1>2, UpdatesStay, VersionWrite

LEMMA VersionInit == Init => VersionInv
BY DEF Init, AccountsInit, VersionInv, OneWritePerVersion
-----------------------------------------------------------------------------
(* Codes and signatures. *)

\* The steps that grant something, send or redeem a code or keep a nonce.
LEMMA WhoGrants ==
    ASSUME TypeInv, [Next]_allVars
    PROVE  /\ \/ UNCHANGED honoured
              \/ \E h \in running : Rotate(h) \/ Consume(h) \/ ExchangeWrite(h) \/ EnsureWrite(h)
              \/ \E c \in pending : Register(c)
           /\ UNCHANGED <<otps, codes>> \/ \E c \in pending : SendOtpRow(c) \/ Register(c)
           /\ UNCHANGED nonces \/ \E h \in running : Consume(h)
           /\ pending' \subseteq pending /\ now <= now'
<1> DEFINE Plain == UNCHANGED <<honoured, otps, codes, nonces, now>> /\ pending' \subseteq pending
<1>0. now <= now /\ now <= now + 1
    BY DEF TypeInv, AccountTypes
<1>1. CASE Steps
    <2>1. ASSUME NEW c \in pending, (AccountLook(c) /\ UNCHANGED agentVars) \/ AgentLook(c) PROVE Plain
        <3>1. \E step, saw : Begin(c, step, saw)
            BY <2>1, Looks
        <3> QED BY <2>1, <3>1, Looks DEF Quiet, accountVars, Begin
    <2>2. ASSUME NEW c \in pending,
                 RevokeToken(c) \/ SetBinding(c) \/ SetPolicy(c) \/ Rename(c) \/ Archive(c) \/ Unbind(c)
          PROVE  Plain
        BY <2>2 DEF RevokeToken, SetBinding, SetPolicy, Rename, Archive, Unbind, Shelve, Edit, Complete, accountVars, clockVars
    <2>3. ASSUME NEW h \in running,
                 \/ SendOtpFile(h) \/ UpdateWrite(h) \/ RevokeWrite(h) \/ SmsRegister(h) \/ UpdateAuth(h)
                 \/ IssueInsert(h) \/ SeenWrite(h) \/ ReportWrite(h) \/ SyncWrite(h)
          PROVE  Plain
        BY <2>3 DEF SendOtpFile, UpdateWrite, RevokeWrite, SmsRegister, UpdateAuth, IssueInsert,
                    SeenWrite, ReportWrite, SyncWrite, Finish, Continue, accountVars, clockVars
    <2>4. ASSUME NEW h \in running, Rotate(h) \/ ExchangeWrite(h) \/ EnsureWrite(h)
          PROVE  UNCHANGED <<otps, codes, nonces, pending, now>>
        BY <2>4 DEF Rotate, ExchangeWrite, EnsureWrite, Finish, accountVars, clockVars
    <2>5. ASSUME NEW h \in running, Consume(h) PROVE UNCHANGED <<otps, codes, pending, now>>
        BY <2>5 DEF Consume, Continue, clockVars
    <2>6. ASSUME NEW c \in pending, SendOtpRow(c) PROVE UNCHANGED <<honoured, nonces, now>> /\ pending' \subseteq pending
        BY <2>6 DEF SendOtpRow, Begin, clockVars
    <2>7. ASSUME NEW c \in pending, Register(c) PROVE UNCHANGED <<nonces, now>> /\ pending' \subseteq pending
        BY <2>7 DEF Register, Complete, clockVars
    <2>8. ASSUME Tick \/ Restart
          PROVE  UNCHANGED <<honoured, otps, codes, nonces, pending>> /\ (now' = now \/ now' = now + 1)
        BY <2>8 DEF Tick, Restart, accountVars, callVars
    <2> HIDE DEF Plain
    <2>9. CASE Plain
        BY <1>0, <2>9 DEF Plain
    <2> QED BY <1>0, <1>1, <2>1, <2>2, <2>3, <2>4, <2>5, <2>6, <2>7, <2>8, <2>9 DEF Steps
<1>2. CASE UNCHANGED allVars
    BY <1>0, <1>2 DEF allVars, vars, accountVars, clockVars, callVars
<1> QED BY <1>1, <1>2, NextIsSteps

\* What the grants are.
LEMMA Grants ==
    ASSUME TypeInv, [Next]_allVars, NEW x \in honoured' \ honoured
    PROVE  \/ \E h \in running :
                /\ x.call = h.call /\ x.since = h.since
                /\ \/ Rotate(h) /\ h.saw # 0 /\ x.kind = "refresh" /\ x.id = h.saw
                   \/ Consume(h) /\ x.kind = "signature" /\ x.id = h.call.signature.id
                   \/ ExchangeWrite(h) /\ x.kind = "agent" /\ x.id = h.saw
                   \/ EnsureWrite(h) /\ h.saw = 0 /\ x.kind = "binding" /\ x.id = Triple(h.call)
           \/ \E c \in pending :
                /\ Register(c) /\ Redeem(c)
                /\ x.call = c /\ x.since = {} /\ x.kind = "otp" /\ x.id = otps[c.phone].code
<1>1. ASSUME NEW h \in running, Rotate(h)
      PROVE  x.call = h.call /\ x.since = h.since /\ h.saw # 0 /\ x.kind = "refresh" /\ x.id = h.saw
    <2>1. h.saw # 0 /\ Honour(h.call, h.since, "refresh", h.saw)
        BY <1>1 DEF Rotate
    <2> QED BY <2>1, Honours
<1>2. ASSUME NEW h \in running, Consume(h)
      PROVE  x.call = h.call /\ x.since = h.since /\ x.kind = "signature" /\ x.id = h.call.signature.id
    <2>1. Honour(h.call, h.since, "signature", h.call.signature.id)
        BY <1>2 DEF Consume
    <2> QED BY <2>1, Honours
<1>3. ASSUME NEW h \in running, ExchangeWrite(h)
      PROVE  x.call = h.call /\ x.since = h.since /\ x.kind = "agent" /\ x.id = h.saw
    <2>1. Honour(h.call, h.since, "agent", h.saw)
        BY <1>3 DEF ExchangeWrite
    <2> QED BY <2>1, Honours
<1>4. ASSUME NEW h \in running, EnsureWrite(h)
      PROVE  x.call = h.call /\ x.since = h.since /\ h.saw = 0 /\ x.kind = "binding" /\ x.id = Triple(h.call)
    <2>1. h.saw = 0 /\ Honour(h.call, h.since, "binding", Triple(h.call))
        BY <1>4 DEF EnsureWrite
    <2> QED BY <2>1, Honours
<1>5. ASSUME NEW c \in pending, Register(c)
      PROVE  Redeem(c) /\ x.call = c /\ x.since = {} /\ x.kind = "otp" /\ x.id = otps[c.phone].code
    <2>1. Redeem(c)
        BY <1>5 DEF Register
    <2>2. Honour(c, {}, "otp", otps[c.phone].code)
        BY <2>1 DEF Redeem
    <2> QED BY <2>1, <2>2, Honours
<1> QED BY <1>1, <1>2, <1>3, <1>4, <1>5, WhoGrants

\* A code is in one row at most, and in none once it was redeemed.
Redeemable(p) == otps[p] # NoCode

CodeRows ==
    /\ \A c \in pending : c.op \in {"send_otp", "register"} => c.phone \in DOMAIN otps
    /\ \A p \in DOMAIN otps : Redeemable(p) => otps[p].code \in 1..codes
    /\ \A p, q \in DOMAIN otps : Redeemable(p) /\ Redeemable(q) /\ otps[p].code = otps[q].code => p = q

Redeemed(x) ==
    x.kind = "otp" => x.id \in 1..codes /\ \A p \in DOMAIN otps : Redeemable(p) => otps[p].code # x.id

CodeInv ==
    /\ CodeRows
    /\ \A x \in honoured : Redeemed(x)
    /\ \A x, y \in honoured : x.kind = "otp" /\ y.kind = "otp" /\ x.id = y.id => x = y

LEMMA CodeSent ==
    ASSUME TypeInv, CodeInv, pending' \subseteq pending, NEW c \in pending, SendOtpRow(c)
    PROVE  CodeInv'
<1>1. c.phone \in DOMAIN otps /\ codes \in Nat /\ codes' = codes + 1 /\ UNCHANGED honoured
    BY DEF SendOtpRow, CodeInv, CodeRows, TypeInv, AccountTypes
<1>2. PICK r : otps' = [otps EXCEPT ![c.phone] = r] /\ r.code = codes + 1
    <2> DEFINE r == [code |-> codes + 1, handle |-> c.handle, until |-> now + CodeLife]
    <2>1. otps' = [otps EXCEPT ![c.phone] = r]
        BY DEF SendOtpRow
    <2>2. r.code = codes + 1
        OBVIOUS
    <2> HIDE DEF r
    <2> QED BY <2>1, <2>2
<1>3. DOMAIN otps' = DOMAIN otps
    BY <1>2
<1>4. \A p \in DOMAIN otps : otps'[p] = IF p = c.phone THEN r ELSE otps[p]
    BY <1>2
<1>5. \A p \in DOMAIN otps : Redeemable(p)' => p = c.phone \/ (Redeemable(p) /\ otps'[p] = otps[p])
    BY <1>4 DEF Redeemable
<1>6. \A p \in DOMAIN otps : Redeemable(p) => otps[p].code \in 1..codes
    BY DEF CodeInv, CodeRows
<1>7. otps'[c.phone].code = codes + 1
    BY <1>1, <1>2, <1>4
<1>8. CodeRows'
    <2>1. \A p \in DOMAIN otps : Redeemable(p)' => otps'[p].code \in 1..codes'
        BY <1>1, <1>5, <1>6, <1>7
    <2>2. \A p, q \in DOMAIN otps : Redeemable(p)' /\ Redeemable(q)' /\ otps'[p].code = otps'[q].code => p = q
        BY <1>1, <1>5, <1>6, <1>7 DEF CodeInv, CodeRows
    <2> QED BY <1>3, <2>1, <2>2 DEF CodeInv, CodeRows
<1>9. ASSUME NEW x \in honoured, x.kind = "otp"
      PROVE  x.id \in 1..codes' /\ \A p \in DOMAIN otps' : Redeemable(p)' => otps'[p].code # x.id
    <2>1. x.id \in 1..codes /\ \A p \in DOMAIN otps : Redeemable(p) => otps[p].code # x.id
        BY <1>9 DEF CodeInv, Redeemed
    <2> QED BY <1>1, <1>3, <1>5, <1>7, <2>1
<1>10. \A x \in honoured' : Redeemed(x)'
    BY <1>1, <1>9 DEF Redeemed
<1> QED BY <1>1, <1>8, <1>10 DEF CodeInv

LEMMA CodeRedeemed ==
    ASSUME TypeInv, [Next]_allVars, CodeInv, pending' \subseteq pending, NEW c \in pending, Register(c), Redeem(c)
    PROVE  CodeInv'
<1> DEFINE row == otps[c.phone]
<1>1. c.phone \in DOMAIN otps /\ Redeemable(c.phone) /\ codes' = codes
    BY DEF Register, Redeem, CodeInv, CodeRows, Redeemable
<1>2. otps' = [otps EXCEPT ![c.phone] = NoCode] /\ Honour(c, {}, "otp", row.code)
    BY DEF Redeem
<1>3. DOMAIN otps' = DOMAIN otps
    BY <1>2
<1>4. \A p \in DOMAIN otps : Redeemable(p)' => p # c.phone /\ Redeemable(p) /\ otps'[p] = otps[p]
    BY <1>2 DEF Redeemable
<1>5. \A x \in honoured' : x \in honoured \/ (x.kind = "otp" /\ x.id = row.code)
    BY <1>2, Honours
<1>6. CodeRows'
    BY <1>1, <1>3, <1>4 DEF CodeInv, CodeRows
<1>7. ASSUME NEW x \in honoured', x.kind = "otp"
      PROVE  x.id \in 1..codes /\ \A p \in DOMAIN otps : Redeemable(p)' => otps'[p].code # x.id
    <2>1. CASE x \in honoured
        BY <1>4, <1>7, <2>1 DEF CodeInv, Redeemed
    <2>2. CASE x.id = row.code
        BY <1>1, <1>4, <2>2 DEF CodeInv, CodeRows
    <2> QED BY <1>5, <2>1, <2>2
<1>8. \A x \in honoured' : Redeemed(x)'
    BY <1>1, <1>3, <1>7 DEF Redeemed
<1>9. \A x \in honoured : x.kind = "otp" => x.id # row.code
    BY <1>1 DEF CodeInv, Redeemed
<1>10. ASSUME NEW x \in honoured', NEW y \in honoured', x.kind = "otp", y.kind = "otp", x.id = y.id
       PROVE  x = y
    <2> DEFINE r == [call |-> c, since |-> {}, kind |-> "otp", id |-> row.code]
    <2>1. r.id = row.code
        OBVIOUS
    <2> HIDE DEF r
    <2>2. honoured' = honoured \cup {r}
        BY <1>2 DEF Honour, r
    <2>3. (x \in honoured \/ x = r) /\ (y \in honoured \/ y = r)
        BY <2>2
    <2>4. x \in honoured /\ y \in honoured => x = y
        BY <1>10 DEF CodeInv
    <2> QED BY <1>9, <1>10, <2>1, <2>3, <2>4
<1> QED BY <1>6, <1>8, <1>10 DEF CodeInv

LEMMA CodeStep ==
    ASSUME TypeInv, CodeInv, [Next]_allVars
    PROVE  CodeInv'
<1>0. pending' \subseteq pending
    BY WhoGrants
<1>1. ASSUME UNCHANGED <<otps, codes>>, \A x \in honoured' : x \in honoured \/ x.kind # "otp"
      PROVE  CodeInv'
    <2>1. CodeRows'
        BY <1>0, <1>1 DEF CodeInv, CodeRows, Redeemable
    <2>2. \A x \in honoured' : Redeemed(x)'
        BY <1>1 DEF CodeInv, Redeemed, Redeemable
    <2> QED BY <1>1, <2>1, <2>2 DEF CodeInv
<1>2. ASSUME NEW c \in pending, Register(c), ~Redeem(c) PROVE CodeInv'
    <2>1. UNCHANGED <<otps, codes, honoured>>
        BY <1>2 DEF Register
    <2> QED BY <1>1, <2>1
<1>3. CASE \E c \in pending : SendOtpRow(c) \/ Register(c)
    BY <1>0, <1>2, <1>3, CodeSent, CodeRedeemed
<1>4. CASE UNCHANGED <<otps, codes>> /\ ~\E c \in pending : Register(c)
    <2>1. ASSUME NEW x \in honoured' \ honoured PROVE x.kind # "otp"
        <3>1. x.kind \in {"refresh", "signature", "agent", "binding"}
            BY <1>4, <2>1, Grants
        <3> QED BY <3>1
    <2> QED BY <1>1, <1>4, <2>1
<1> QED BY <1>3, <1>4, WhoGrants

LEMMA CodeInit == Init => CodeInv
BY DEF Init, AccountsInit, CodeInv, CodeRows, Redeemable

\* The nonce of a signature that was accepted is kept until the signature is
\* refused for its age.
Kept(x) ==
    x.kind = "signature" =>
        /\ x.call \in CallsOf({"signed_me"}) /\ x.id = x.call.signature.id
        /\ KeptNonce(x.call.signature) \in nonces \/ x.call.signature.expires + Slack < now

NonceInv ==
    /\ \A x \in honoured : Kept(x)
    /\ \A x, y \in honoured : x.kind = "signature" /\ y.kind = "signature" /\ x.id = y.id => x = y

LEMMA NonceFields ==
    ASSUME NEW t
    PROVE  KeptNonce(t).key = t.key /\ KeptNonce(t).nonce = t.nonce /\ KeptNonce(t).until = t.expires + Slack
BY DEF KeptNonce

LEMMA NonceConsume ==
    ASSUME TypeInv, NonceInv, NEW h \in running, Consume(h)
    PROVE  NonceInv'
<1> DEFINE s == h.call.signature
           fresh == {n \in nonces : n.until >= now}
<1>1. h.call \in CallsOf({"signed_me"})
    BY DEF Consume, TypeInv, CallTypes, Handler, Fits, CallsOf, Calls
<1>2. s.expires \in Int /\ Slack \in Int /\ now \in Int
    BY <1>1, CallsAssumption, AccountsAssumption DEF TypeInv, AccountTypes
<1>3. now <= s.expires + Slack /\ now' = now
    BY DEF Consume, Timely, clockVars
<1>4. nonces' = fresh \cup {KeptNonce(s)} /\ Honour(h.call, h.since, "signature", s.id)
    BY DEF Consume
<1>5. \A n \in fresh : ~(n.key = s.key /\ n.nonce = s.nonce)
    BY DEF Consume
<1>6. PICK r : honoured' = honoured \cup {r} /\ r.call = h.call /\ r.kind = "signature" /\ r.id = s.id
    <2> DEFINE r == [call |-> h.call, since |-> h.since, kind |-> "signature", id |-> s.id]
    <2>1. r.call = h.call /\ r.kind = "signature" /\ r.id = s.id
        OBVIOUS
    <2>2. honoured' = honoured \cup {r}
        BY <1>4 DEF Honour
    <2> HIDE DEF r
    <2> QED BY <2>1, <2>2
\* The signature was not accepted before: its nonce would still be there.
<1>7. ASSUME NEW y \in honoured, y.kind = "signature", y.id = s.id PROVE FALSE
    <2>1. y.call \in CallsOf({"signed_me"}) /\ y.call.signature.id = s.id
        BY <1>7 DEF NonceInv, Kept
    <2>2. y.call.signature = s
        BY <1>1, <2>1, CallsAssumption
    <2>3. KeptNonce(s) \in nonces
        BY <1>2, <1>3, <1>7, <2>2 DEF NonceInv, Kept
    <2>4. KeptNonce(s).until >= now
        BY <1>2, <1>3, NonceFields
    <2>5. KeptNonce(s) \in fresh
        BY <2>3, <2>4
    <2> QED BY <1>5, <2>5, NonceFields
<1>8. ASSUME NEW x \in honoured PROVE Kept(x)'
    <2>1. ASSUME x.kind = "signature"
          PROVE  /\ x.call \in CallsOf({"signed_me"}) /\ x.id = x.call.signature.id
                 /\ KeptNonce(x.call.signature) \in nonces' \/ x.call.signature.expires + Slack < now
        <3> DEFINE t == x.call.signature
        <3>1. x.call \in CallsOf({"signed_me"}) /\ x.id = t.id /\ (KeptNonce(t) \in nonces \/ t.expires + Slack < now)
            BY <2>1 DEF NonceInv, Kept
        <3>2. t.expires \in Int
            BY <3>1, CallsAssumption
        <3>3. CASE KeptNonce(t) \in nonces /\ ~(t.expires + Slack < now)
            <4>1. KeptNonce(t).until >= now
                BY <1>2, <3>2, <3>3, NonceFields
            <4> QED BY <1>4, <3>1, <3>3, <4>1
        <3> QED BY <3>1, <3>3
    <2> QED BY <1>3, <2>1 DEF Kept
<1>9. Kept(r)'
    BY <1>1, <1>4, <1>6 DEF Kept
<1>10. \A x \in honoured' : x \in honoured \/ x = r
    BY <1>6
<1> HIDE DEF s
<1>11. \A x, y \in honoured' : x.kind = "signature" /\ y.kind = "signature" /\ x.id = y.id => x = y
    BY <1>6, <1>7, <1>10 DEF NonceInv
<1> QED BY <1>8, <1>9, <1>10, <1>11 DEF NonceInv

LEMMA NonceStep ==
    ASSUME TypeInv, TypeInv', NonceInv, [Next]_allVars
    PROVE  NonceInv'
<1>1. CASE \E h \in running : Consume(h)
    BY <1>1, NonceConsume
<1>2. CASE ~\E h \in running : Consume(h)
    <2>1. UNCHANGED nonces /\ now <= now' /\ now \in Int /\ now' \in Int /\ Slack \in Int
        BY <1>2, WhoGrants, AccountsAssumption DEF TypeInv, AccountTypes
    <2>2. ASSUME NEW x \in honoured' \ honoured PROVE x.kind # "signature"
        <3>1. x.kind \in {"refresh", "otp", "agent", "binding"}
            BY <1>2, <2>2, Grants
        <3> QED BY <3>1
    <2>3. ASSUME NEW x \in honoured PROVE Kept(x)'
        <3>1. ASSUME x.kind = "signature"
              PROVE  /\ x.call \in CallsOf({"signed_me"}) /\ x.id = x.call.signature.id
                     /\ KeptNonce(x.call.signature) \in nonces' \/ x.call.signature.expires + Slack < now'
            <4> DEFINE t == x.call.signature
            <4>1. x.call \in CallsOf({"signed_me"}) /\ x.id = t.id /\ (KeptNonce(t) \in nonces \/ t.expires + Slack < now)
                BY <3>1 DEF NonceInv, Kept
            <4>2. t.expires \in Int
                BY <4>1, CallsAssumption
            <4>3. t.expires + Slack < now => t.expires + Slack < now'
                BY <2>1, <4>2
            <4> HIDE DEF t
            <4> QED BY <2>1, <4>1, <4>3 DEF t
        <3> QED BY <3>1 DEF Kept
    <2>4. \A x \in honoured' : Kept(x)'
        BY <2>2, <2>3 DEF Kept
    <2> QED BY <2>2, <2>4 DEF NonceInv
<1> QED BY <1>1, <1>2

LEMMA NonceInit == Init => NonceInv
BY DEF Init, AccountsInit, NonceInv

LEMMA OnceFromRows == CodeInv /\ NonceInv => OnceAtAll
BY DEF CodeInv, NonceInv, OnceAtAll
-----------------------------------------------------------------------------
(* Requests and what they are granted. *)

Granted == {x.call : x \in honoured}

\* A request is granted something after it arrived, and at most one thing
\* that is meant to be used once; it knows of earlier grants only.
CallInv ==
    /\ \A x \in honoured : x.call \notin pending /\ x.since \subseteq Granted /\ x.call \notin x.since
    /\ \A h \in running :
            /\ h.since \subseteq Granted /\ h.call \notin h.since
            /\ h.call \in Granted => h.step = "rotate" /\ h.saw = 0

LEMMA CallBegin ==
    ASSUME CallInv, NEW c, NEW step, NEW saw, Begin(c, step, saw), UNCHANGED honoured
    PROVE  CallInv'
<1> DEFINE g == [call |-> c, step |-> step, saw |-> saw, since |-> Granted]
<1>1. g.call = c /\ g.since = Granted
    OBVIOUS
<1>2. Granted' = Granted
    BY DEF Granted
<1>3. pending' \subseteq pending /\ c \in pending /\ running' = running \cup {g}
    BY DEF Begin, Granted
<1> HIDE DEF g
<1>4. c \notin Granted
    BY <1>3 DEF CallInv, Granted
<1>5. \A h \in running' : h \in running \/ h = g
    BY <1>3
<1> QED BY <1>1, <1>2, <1>3, <1>4, <1>5 DEF CallInv

LEMMA GrantGrows ==
    ASSUME NEW c, NEW since, NEW kind, NEW id, Honour(c, since, kind, id)
    PROVE  Granted' = Granted \cup {c}
<1> DEFINE r == [call |-> c, since |-> since, kind |-> kind, id |-> id]
<1>1. r.call = c /\ honoured' = honoured \cup {r}
    BY DEF Honour
<1> HIDE DEF r
<1> QED BY <1>1 DEF Granted

LEMMA CallContinue ==
    ASSUME CallTypes, CallInv, NEW h \in running, NEW step, NEW saw, Continue(h, step, saw),
           h.step # "rotate",
           \/ UNCHANGED honoured
           \/ step = "rotate" /\ saw = 0 /\ \E kind, id : Honour(h.call, h.since, kind, id)
    PROVE  CallInv'
<1>1. PICK g : running' = (running \ {h}) \cup {g} /\ g.call = h.call /\ g.since = h.since /\ g.step = step /\ g.saw = saw
    <2> DEFINE g == [h EXCEPT !.step = step, !.saw = saw]
    <2>1. h \in Handler
        BY DEF CallTypes
    <2>2. g.call = h.call /\ g.since = h.since /\ g.step = step /\ g.saw = saw
        BY <2>1 DEF Handler
    <2>3. running' = (running \ {h}) \cup {g}
        BY DEF Continue
    <2> HIDE DEF g
    <2> QED BY <2>2, <2>3
<1>2. pending' = pending /\ h.call \notin pending /\ h.call \notin Granted
    BY DEF Continue, CallTypes, CallInv
<1>3. \A f \in running' : (f \in running /\ f.call # h.call) \/ f = g
    BY <1>1 DEF CallTypes
<1>4. CASE UNCHANGED honoured
    <2>1. Granted' = Granted
        BY <1>4 DEF Granted
    <2> QED BY <1>1, <1>2, <1>3, <1>4, <2>1 DEF CallInv
<1>5. CASE step = "rotate" /\ saw = 0 /\ \E kind, id : Honour(h.call, h.since, kind, id)
    <2>1. PICK kind, id : Honour(h.call, h.since, kind, id)
        BY <1>5
    <2>2. Granted' = Granted \cup {h.call}
        BY <2>1, GrantGrows
    <2>3. \A x \in honoured' : x \in honoured \/ (x.call = h.call /\ x.since = h.since)
        BY <2>1, Honours
    <2>4. \A x \in honoured' : x.call \notin pending' /\ x.since \subseteq Granted' /\ x.call \notin x.since
        BY <1>2, <2>2, <2>3 DEF CallInv
    <2>5. \A f \in running' :
            /\ f.since \subseteq Granted' /\ f.call \notin f.since
            /\ f.call \in Granted' => f.step = "rotate" /\ f.saw = 0
        BY <1>1, <1>3, <1>5, <2>2 DEF CallInv
    <2> QED BY <2>4, <2>5 DEF CallInv
<1> QED BY <1>4, <1>5

LEMMA CallFinish ==
    ASSUME CallTypes, CallInv, NEW h \in running, Finish(h),
           UNCHANGED honoured \/ \E kind, id : Honour(h.call, h.since, kind, id)
    PROVE  CallInv'
<1>1. /\ pending' = pending /\ h.call \notin pending
      /\ \A f \in running' : f \in running /\ f.call # h.call
    BY DEF Finish, CallTypes
<1>2. CASE UNCHANGED honoured
    <2>1. Granted' = Granted
        BY <1>2 DEF Granted
    <2> QED BY <1>1, <1>2, <2>1 DEF CallInv
<1>3. ASSUME NEW kind, NEW id, Honour(h.call, h.since, kind, id) PROVE CallInv'
    <2>1. Granted' = Granted \cup {h.call}
        BY <1>3, GrantGrows
    <2>2. \A x \in honoured' : x \in honoured \/ (x.call = h.call /\ x.since = h.since)
        BY <1>3, Honours
    <2>3. \A x \in honoured' : x.call \notin pending' /\ x.since \subseteq Granted' /\ x.call \notin x.since
        BY <1>1, <2>1, <2>2 DEF CallInv
    <2> QED BY <1>1, <2>1, <2>3 DEF CallInv
<1> QED BY <1>2, <1>3

LEMMA CallComplete ==
    ASSUME CallTypes, CallInv, NEW c, Complete(c), UNCHANGED honoured \/ \E id : Honour(c, {}, "otp", id)
    PROVE  CallInv'
<1>1. pending' = pending \ {c} /\ c \in pending /\ running' = running /\ \A h \in running : h.call # c
    BY DEF Complete, CallTypes
<1>2. CASE UNCHANGED honoured
    <2>1. Granted' = Granted
        BY <1>2 DEF Granted
    <2> QED BY <1>1, <1>2, <2>1 DEF CallInv
<1>3. ASSUME NEW id, Honour(c, {}, "otp", id) PROVE CallInv'
    <2>1. Granted' = Granted \cup {c}
        BY <1>3, GrantGrows
    <2>2. \A x \in honoured' : x \in honoured \/ (x.call = c /\ x.since = {})
        BY <1>3, Honours
    <2>3. \A x \in honoured' : x.call \notin pending' /\ x.since \subseteq Granted' /\ x.call \notin x.since
        BY <1>1, <2>1, <2>2 DEF CallInv
    <2> QED BY <1>1, <2>1, <2>3 DEF CallInv
<1> QED BY <1>2, <1>3

LEMMA CallStep ==
    ASSUME TypeInv, CallInv, [Next]_allVars
    PROVE  CallInv'
<1>0. CallTypes
    BY DEF TypeInv
<1>1. CASE Steps
    <2>1. ASSUME NEW c \in pending, (AccountLook(c) /\ UNCHANGED agentVars) \/ AgentLook(c) PROVE CallInv'
        <3>1. UNCHANGED honoured /\ \E step, saw : Begin(c, step, saw)
            BY <2>1, Looks DEF Quiet
        <3> QED BY <3>1, CallBegin
    <2>2. ASSUME NEW c \in pending,
                 RevokeToken(c) \/ SetBinding(c) \/ SetPolicy(c) \/ Rename(c) \/ Archive(c) \/ Unbind(c)
          PROVE  CallInv'
        <3>1. Complete(c) /\ UNCHANGED honoured
            BY <2>2 DEF RevokeToken, SetBinding, SetPolicy, Rename, Archive, Unbind, Shelve, Edit
        <3> QED BY <1>0, <3>1, CallComplete
    <2>3. ASSUME NEW h \in running,
                 \/ SendOtpFile(h) \/ UpdateWrite(h) \/ RevokeWrite(h) \/ SmsRegister(h)
                 \/ IssueInsert(h) \/ SeenWrite(h) \/ ReportWrite(h) \/ SyncWrite(h)
          PROVE  CallInv'
        <3>1. Finish(h) /\ UNCHANGED honoured
            BY <2>3 DEF SendOtpFile, UpdateWrite, RevokeWrite, SmsRegister, IssueInsert, SeenWrite, ReportWrite, SyncWrite
        <3> QED BY <1>0, <3>1, CallFinish
    <2>4. ASSUME NEW h \in running, Rotate(h) \/ ExchangeWrite(h) \/ EnsureWrite(h) PROVE CallInv'
        <3>1. Finish(h) /\ (UNCHANGED honoured \/ \E kind, id : Honour(h.call, h.since, kind, id))
            BY <2>4 DEF Rotate, ExchangeWrite, EnsureWrite
        <3> QED BY <1>0, <3>1, CallFinish
    <2>5. ASSUME NEW h \in running, Consume(h) PROVE CallInv'
        <3>1. Continue(h, "rotate", 0) /\ h.step # "rotate" /\ \E kind, id : Honour(h.call, h.since, kind, id)
            BY <2>5 DEF Consume
        <3> QED BY <1>0, <3>1, CallContinue
    <2>6. ASSUME NEW h \in running, UpdateAuth(h) PROVE CallInv'
        <3>1. Continue(h, "write", h.saw) /\ h.step # "rotate" /\ UNCHANGED honoured
            BY <2>6 DEF UpdateAuth
        <3> QED BY <1>0, <3>1, CallContinue
    <2>7. ASSUME NEW c \in pending, SendOtpRow(c) PROVE CallInv'
        BY <2>7, CallBegin DEF SendOtpRow
    <2>8. ASSUME NEW c \in pending, Register(c) PROVE CallInv'
        <3>1. Complete(c) /\ (UNCHANGED honoured \/ \E id : Honour(c, {}, "otp", id))
            BY <2>8 DEF Register, Redeem
        <3> QED BY <1>0, <3>1, CallComplete
    <2>9. ASSUME Tick \/ Restart PROVE CallInv'
        <3>1. UNCHANGED <<honoured, pending>> /\ running' \subseteq running
            BY <2>9 DEF Tick, Restart, callVars
        <3> QED BY <3>1 DEF CallInv, Granted
    <2> QED BY <1>1, <2>1, <2>2, <2>3, <2>4, <2>5, <2>6, <2>7, <2>8, <2>9 DEF Steps
<1>2. CASE UNCHANGED allVars
    BY <1>2 DEF allVars, vars, callVars, CallInv, Granted
<1> QED BY <1>1, <1>2, NextIsSteps

LEMMA CallInit == Init => CallInv
BY DEF Init, AccountsInit, CallInv

\* What is granted at most once to requests that do not cross.
Claim(h, kind, id) ==
    \/ h.step = "rotate" /\ h.saw # 0 /\ kind = "refresh" /\ id = h.saw
    \/ h.step = "exchange" /\ kind = "agent" /\ id = h.saw
    \/ h.step = "bind" /\ h.saw = 0 /\ kind = "binding" /\ id = Triple(h.call)

\* Where a handler that may claim something comes from: it has just looked.
LEMMA Arrives ==
    ASSUME TypeInv, [Next]_allVars, NEW h \in running' \ running, NEW kind, NEW id, Claim(h, kind, id)
    PROVE  \/ RefreshLook(h.call) /\ h.step = "rotate" /\ h.saw = users[h.call.did].pair
           \/ ExchangeLook(h.call) /\ h.step = "exchange" /\ h.saw \in DOMAIN tokens /\ TokenActive(h.saw)
           \/ EnsureLook(h.call) /\ h.step = "bind" /\ h.saw = FirstOf(Of(h.call))
<1>0. CallTypes /\ (h.step = "rotate" => h.saw # 0) /\ h.step \in {"rotate", "exchange", "bind"}
    BY DEF TypeInv, Claim
<1>1. ASSUME NEW c, NEW step, NEW saw, Begin(c, step, saw) PROVE h.call = c /\ h.step = step /\ h.saw = saw
    <2> DEFINE g == [call |-> c, step |-> step, saw |-> saw, since |-> {x.call : x \in honoured}]
    <2>1. g.call = c /\ g.step = step /\ g.saw = saw
        OBVIOUS
    <2>2. running' = running \cup {g}
        BY <1>1 DEF Begin
    <2> HIDE DEF g
    <2> QED BY <2>1, <2>2
<1>2. ASSUME NEW g \in running, NEW step, NEW saw, Continue(g, step, saw) PROVE h.step = step /\ h.saw = saw
    <2> DEFINE f == [g EXCEPT !.step = step, !.saw = saw]
    <2>1. f.step = step /\ f.saw = saw
        BY DEF TypeInv, CallTypes, Handler
    <2>2. running' = (running \ {g}) \cup {f}
        BY <1>2 DEF Continue
    <2> HIDE DEF f
    <2> QED BY <2>1, <2>2
<1>3. ASSUME NEW g \in running, Finish(g) PROVE FALSE
    BY <1>3 DEF Finish
<1>4. ASSUME NEW c, Complete(c) PROVE FALSE
    BY <1>4 DEF Complete
<1>5. CASE Steps
    <2>1. ASSUME NEW c \in pending, AccountLook(c), ~RefreshLook(c) PROVE FALSE
        <3>1. PICK step, saw : Begin(c, step, saw) /\ (step \in {"nonce", "sms_register", "update", "revoke"} \/ saw = 0)
                                /\ step \in {"rotate", "nonce", "sms_register", "update", "revoke"}
            BY <2>1 DEF AccountLook, LoginLook, SignedLook, SmsLook, UpdateRead, RevokeAuth
        <3> QED BY <1>0, <1>1, <3>1
    <2>2. ASSUME NEW c \in pending, AgentLook(c), ~ExchangeLook(c), ~EnsureLook(c) PROVE FALSE
        <3>1. PICK step, saw : Begin(c, step, saw) /\ step \in {"issue", "seen", "report", "sync"}
            BY <2>2 DEF AgentLook, IssueAuth, SeenLook, ReportLook, SyncLook
        <3> QED BY <1>0, <1>1, <3>1
    <2>3. ASSUME NEW c \in pending, RefreshLook(c) PROVE RefreshLook(h.call) /\ h.step = "rotate" /\ h.saw = users[h.call.did].pair
        <3>1. h.call = c /\ h.step = "rotate" /\ h.saw = users[c.did].pair
            BY <1>1, <2>3 DEF RefreshLook
        <3> QED BY <2>3, <3>1
    <2>4. ASSUME NEW c \in pending, ExchangeLook(c)
          PROVE  ExchangeLook(h.call) /\ h.step = "exchange" /\ h.saw \in DOMAIN tokens /\ TokenActive(h.saw)
        <3>1. PICK t \in DOMAIN tokens : TokenActive(t) /\ Begin(c, "exchange", t)
            BY <2>4 DEF ExchangeLook
        <3>2. h.call = c /\ h.step = "exchange" /\ h.saw = t
            BY <1>1, <3>1
        <3> QED BY <2>4, <3>1, <3>2
    <2>5. ASSUME NEW c \in pending, EnsureLook(c)
          PROVE  EnsureLook(h.call) /\ h.step = "bind" /\ h.saw = FirstOf(Of(h.call))
        <3>1. h.call = c /\ h.step = "bind" /\ h.saw = FirstOf(Of(c))
            BY <1>1, <2>5 DEF EnsureLook
        <3> QED BY <2>5, <3>1
    <2>6. ASSUME NEW c \in pending, SendOtpRow(c) PROVE FALSE
        BY <1>0, <1>1, <2>6 DEF SendOtpRow
    <2>7. ASSUME NEW c \in pending,
                 \/ Register(c)
                 \/ RevokeToken(c) \/ SetBinding(c) \/ SetPolicy(c) \/ Rename(c) \/ Archive(c) \/ Unbind(c)
          PROVE  FALSE
        BY <1>4, <2>7 DEF Register, RevokeToken, SetBinding, SetPolicy, Rename, Archive, Unbind, Shelve, Edit
    <2>8. ASSUME NEW g \in running,
                 \/ Rotate(g) \/ SendOtpFile(g) \/ UpdateWrite(g) \/ RevokeWrite(g) \/ SmsRegister(g)
                 \/ IssueInsert(g) \/ ExchangeWrite(g) \/ EnsureWrite(g) \/ SeenWrite(g) \/ ReportWrite(g) \/ SyncWrite(g)
          PROVE  FALSE
        BY <1>3, <2>8 DEF Rotate, SendOtpFile, UpdateWrite, RevokeWrite, SmsRegister, IssueInsert, ExchangeWrite,
                          EnsureWrite, SeenWrite, ReportWrite, SyncWrite
    <2>9. ASSUME NEW g \in running, Consume(g) \/ UpdateAuth(g) PROVE FALSE
        <3>1. Continue(g, "rotate", 0) \/ Continue(g, "write", g.saw)
            BY <2>9 DEF Consume, UpdateAuth
        <3> QED BY <1>0, <1>2, <3>1
    <2>10. ASSUME Tick \/ Restart PROVE FALSE
        BY <2>10 DEF Tick, Restart, callVars
    <2> QED BY <1>5, <2>1, <2>2, <2>3, <2>4, <2>5, <2>6, <2>7, <2>8, <2>9, <2>10 DEF Steps
<1>6. CASE UNCHANGED allVars
    BY <1>6 DEF allVars, vars, callVars
<1> QED BY <1>5, <1>6, NextIsSteps
-----------------------------------------------------------------------------
(* Token pairs. *)

\* A pair is of one account; the pair a refresh presents is of the account it
\* looked up or of none, and a pair that was refreshed is of none.
OwnedElsewhere(n, d) == \E e \in Dids \ {d} : users[e] # NoUser /\ users[e].pair = n

Owned(n) == \E e \in Dids : users[e] # NoUser /\ users[e].pair = n

PairInv ==
    /\ \A d \in Dids : users[d] # NoUser => ~OwnedElsewhere(users[d].pair, d)
    /\ \A x \in honoured : x.kind = "refresh" => x.id \in 1..pairs /\ ~Owned(x.id)
    /\ \A h \in running : h.step = "rotate" /\ h.saw # 0 =>
            h.saw \in 1..pairs /\ ~OwnedElsewhere(h.saw, h.call.did)

\* One account gets a new pair, or all keep theirs.
NewPair(d) ==
    /\ d \in Dids /\ pairs' = pairs + 1
    /\ users'[d].pair = pairs + 1
    /\ \A e \in Dids \ {d} : users'[e] = users[e]

KeepPairs ==
    /\ pairs' = pairs
    /\ \A e \in Dids : users'[e] # NoUser => users[e] # NoUser /\ users'[e].pair = users[e].pair

LEMMA PairsMove ==
    ASSUME TypeInv, [Next]_allVars
    PROVE  /\ KeepPairs \/ \E d \in Dids : NewPair(d)
           /\ \A h \in running : Rotate(h) => NewPair(h.call.did)
<1>0. users \in [Dids -> UserRow \cup {NoUser}]
    BY DEF TypeInv, AccountTypes
<1>1. ASSUME NEW d \in Dids, NEW u \in UserRow, users' = [users EXCEPT ![d] = u], u.pair = pairs + 1, pairs' = pairs + 1
      PROVE  NewPair(d)
    BY <1>0, <1>1 DEF NewPair
<1>2. ASSUME NEW h \in running, Rotate(h) PROVE h.call.did \in Dids /\ NewPair(h.call.did)
    BY <1>1, <1>2, RotateEffect
<1>3. ASSUME NEW c \in CallsOf({"register", "sms_login"}), NewAccount(c) PROVE c.did \in Dids /\ NewPair(c.did)
    BY <1>1, <1>3, NewAccountEffect
<1>4. ASSUME UNCHANGED <<users, pairs>> PROVE KeepPairs
    BY <1>4 DEF KeepPairs
<1>5. ASSUME NEW h \in running, UpdateWrite(h) \/ ExchangeWrite(h) PROVE KeepPairs
    BY <1>4, <1>5 DEF UpdateWrite, ExchangeWrite
<1>6. ASSUME NEW h \in running, RevokeWrite(h) PROVE KeepPairs
    <2>1. h.call.did \in Dids /\ users[h.call.did] # NoUser /\ pairs' = pairs
        BY <1>6, RevokeEffect DEF RevokeWrite
    <2>2. PICK u \in UserRow : users' = [users EXCEPT ![h.call.did] = u] /\ u.pair = users[h.call.did].pair
        BY <1>6, RevokeEffect
    <2> QED BY <1>0, <2>1, <2>2 DEF KeepPairs
<1> QED BY <1>2, <1>3, <1>4, <1>5, <1>6, WhoWrites

\* Nobody comes to own a pair that was issued before.
LEMMA PairsStay ==
    ASSUME TypeInv, KeepPairs \/ \E d \in Dids : NewPair(d)
    PROVE  /\ \A n \in 1..pairs : n \in 1..pairs' /\ (Owned(n)' => Owned(n))
           /\ \A n \in 1..pairs, d \in Dids : OwnedElsewhere(n, d)' => OwnedElsewhere(n, d)
           /\ pairs \in Nat /\ pairs' \in Nat
<1>0. pairs \in Nat
    BY DEF TypeInv, AccountTypes
<1>1. CASE KeepPairs
    BY <1>0, <1>1 DEF KeepPairs, Owned, OwnedElsewhere
<1>2. ASSUME NEW d \in Dids, NewPair(d)
      PROVE  /\ \A n \in 1..pairs : n \in 1..pairs' /\ (Owned(n)' => Owned(n))
             /\ \A n \in 1..pairs, e \in Dids : OwnedElsewhere(n, e)' => OwnedElsewhere(n, e)
             /\ pairs' \in Nat
    <2>1. pairs' = pairs + 1 /\ users'[d].pair = pairs + 1 /\ \A e \in Dids \ {d} : users'[e] = users[e]
        BY <1>2 DEF NewPair
    <2>2. \A n \in 1..pairs : n # pairs + 1 /\ n \in 1..(pairs + 1)
        BY <1>0
    <2>3. \A n \in 1..pairs, e \in Dids : users'[e].pair = n => e # d
        BY <2>1, <2>2
    <2> QED BY <1>0, <2>1, <2>2, <2>3 DEF Owned, OwnedElsewhere
<1> QED BY <1>0, <1>1, <1>2

LEMMA PairStep ==
    ASSUME TypeInv, TypeInv', PairInv, [Next]_allVars
    PROVE  PairInv'
<1>0. KeepPairs \/ \E d \in Dids : NewPair(d)
    BY PairsMove
<1>1. /\ \A n \in 1..pairs : n \in 1..pairs' /\ (Owned(n)' => Owned(n))
      /\ \A n \in 1..pairs, d \in Dids : OwnedElsewhere(n, d)' => OwnedElsewhere(n, d)
      /\ pairs \in Nat /\ pairs' \in Nat
    BY <1>0, PairsStay
<1>2. \A d \in Dids : users[d] # NoUser => users[d].pair \in 1..pairs
    BY DEF TypeInv, AccountTypes
<1>3. ASSUME NEW d \in Dids, users'[d] # NoUser PROVE ~OwnedElsewhere(users[d].pair, d)'
    <2>1. CASE users[d] # NoUser /\ users'[d].pair = users[d].pair
        <3>1. ~OwnedElsewhere(users[d].pair, d) /\ users[d].pair \in 1..pairs
            BY <1>2, <2>1 DEF PairInv
        <3>2. \A n : n = users[d].pair => ~OwnedElsewhere(n, d)'
            BY <1>1, <3>1
        <3> QED BY <2>1, <3>2 DEF OwnedElsewhere
    <2>2. ASSUME NewPair(d) PROVE ~OwnedElsewhere(users[d].pair, d)'
        <3>1. users'[d].pair = pairs + 1 /\ \A e \in Dids \ {d} : users'[e] = users[e]
            BY <2>2 DEF NewPair
        <3>2. \A e \in Dids \ {d} : users'[e] # NoUser => users'[e].pair # pairs + 1
            BY <1>1, <1>2, <3>1
        <3> QED BY <3>1, <3>2 DEF OwnedElsewhere
    <2>3. ASSUME NEW e \in Dids, e # d, NewPair(e) PROVE users'[d] = users[d]
        BY <2>3 DEF NewPair
    <2>4. ASSUME KeepPairs PROVE users[d] # NoUser /\ users'[d].pair = users[d].pair
        BY <1>3, <2>4 DEF KeepPairs
    <2> QED BY <1>0, <1>3, <2>1, <2>2, <2>3, <2>4
<1>4. ASSUME NEW x \in honoured', x.kind = "refresh" PROVE x.id \in 1..pairs' /\ ~Owned(x.id)'
    <2>1. CASE x \in honoured
        BY <1>1, <1>4, <2>1 DEF PairInv
    <2>2. CASE x \notin honoured
        <3>1. PICK h \in running : Rotate(h) /\ h.saw # 0 /\ x.id = h.saw
            BY <1>4, <2>2, Grants
        <3>2. h.step = "rotate" /\ NewPair(h.call.did)
            BY <3>1, PairsMove DEF Rotate
        <3>3. x.id \in 1..pairs /\ ~OwnedElsewhere(x.id, h.call.did)
            BY <3>1, <3>2 DEF PairInv
        <3>4. h.call.did \in Dids /\ users'[h.call.did].pair = pairs + 1
            BY <3>2 DEF NewPair
        <3>5. ~OwnedElsewhere(x.id, h.call.did)'
            BY <1>1, <3>3, <3>4
        <3>6. users'[h.call.did].pair # x.id
            BY <1>1, <3>3, <3>4
        <3> QED BY <1>1, <3>3, <3>5, <3>6 DEF Owned, OwnedElsewhere
    <2> QED BY <2>1, <2>2
<1>5. ASSUME NEW h \in running', h.step = "rotate", h.saw # 0
      PROVE  h.saw \in 1..pairs' /\ ~OwnedElsewhere(h.saw, h.call.did)'
    <2>0. h.call.did \in Dids
        <3>1. h.call \in Calls /\ h.call.op \in {"refresh", "login", "signed_me"}
            BY <1>5 DEF TypeInv, CallTypes, Handler, Fits
        <3> QED BY <3>1, CallsAssumption DEF CallsOf, Calls
    <2>1. CASE h \in running
        BY <1>1, <1>5, <2>0, <2>1 DEF PairInv
    <2>2. CASE h \notin running
        <3>1. users[h.call.did] # NoUser /\ h.saw = users[h.call.did].pair
            <4>1. Claim(h, "refresh", h.saw)
                BY <1>5 DEF Claim
            <4>2. RefreshLook(h.call) /\ h.saw = users[h.call.did].pair
                BY <1>5, <2>2, <4>1, Arrives
            <4> QED BY <4>2 DEF RefreshLook, Active
        <3>2. h.saw \in 1..pairs /\ ~OwnedElsewhere(h.saw, h.call.did)
            BY <1>2, <2>0, <3>1 DEF PairInv
        <3> QED BY <1>1, <2>0, <3>2
    <2> QED BY <2>1, <2>2
<1> QED BY <1>3, <1>4, <1>5 DEF PairInv

LEMMA PairInit == Init => PairInv
<1>1. Init => \A d, e \in Dids : users[d] # NoUser /\ users[e] # NoUser => d = e
    BY DEF Init, AccountsInit
<1> QED BY <1>1 DEF Init, AccountsInit, PairInv, OwnedElsewhere
-----------------------------------------------------------------------------
(* Grants that requests which do not cross get once. *)

LEMMA RowsGrow ==
    ASSUME TypeInv, [Next]_allVars
    PROVE  TokensGrow /\ BindingsGrow
<1>1. CASE UNCHANGED agentVars
    BY <1>1, AgentsStill
<1>2. CASE Steps
    <2>1. ASSUME NEW c \in pending, (AccountLook(c) /\ UNCHANGED agentVars) \/ AgentLook(c) PROVE UNCHANGED agentVars
        BY <2>1, Looks DEF Quiet
    <2> QED BY <1>1, <1>2, <2>1, TokenStepTypes, BindingStepTypes, InventoryStepTypes DEF Steps
<1> QED BY <1>1, <1>2, NextIsSteps DEF allVars

\* A token that was exchanged is used, and a binding that was granted is there.
SpentToken(x) == x.kind = "agent" => x.id \in DOMAIN tokens /\ tokens[x.id].used

BindingThere(x) == x.kind = "binding" => \E b \in DOMAIN bindings : Triple(bindings[b]) = x.id

SpentInv == \A x \in honoured : SpentToken(x) /\ BindingThere(x)

LEMMA SpentStep ==
    ASSUME TypeInv, SpentInv, [Next]_allVars
    PROVE  SpentInv'
<1>0. TokensGrow /\ BindingsGrow
    BY RowsGrow
<1>1. ASSUME NEW x \in honoured PROVE SpentToken(x)' /\ BindingThere(x)'
    BY <1>0, <1>1 DEF SpentInv, SpentToken, BindingThere, TokensGrow, BindingsGrow
<1>2. ASSUME NEW x \in honoured' \ honoured, x.kind = "agent" PROVE x.id \in DOMAIN tokens' /\ tokens'[x.id].used
    <2>1. PICK h \in running : ExchangeWrite(h) /\ x.id = h.saw
        BY <1>2, Grants
    <2>2. h.saw \in DOMAIN tokens /\ tokens[h.saw] \in TokenRow
        BY <2>1, TokenRows DEF ExchangeWrite, TypeInv, Fits
    <2> DEFINE r == [tokens[h.saw] EXCEPT !.used = TRUE, !.agent = h.call.did]
    <2>3. r.used
        BY <2>2 DEF TokenRow
    <2>4. tokens' = [tokens EXCEPT ![h.saw] = r]
        BY <2>1 DEF ExchangeWrite
    <2> HIDE DEF r
    <2> QED BY <2>1, <2>2, <2>3, <2>4
<1>3. ASSUME NEW x \in honoured' \ honoured, x.kind = "binding"
      PROVE  \E b \in DOMAIN bindings' : Triple(bindings'[b]) = x.id
    <2>1. PICK h \in running : EnsureWrite(h) /\ h.saw = 0 /\ x.id = Triple(h.call)
        BY <1>3, Grants
    <2> DEFINE c == h.call
               r == [human |-> c.human, daemon |-> c.daemon, runtime |-> c.runtime, status |-> "active",
                     updated |-> stamp + 1]
    <2>2. Triple(r) = Triple(c)
        BY DEF Triple
    <2>3. bindings' = Append(bindings, r) /\ bindings \in Seq(BindingRow)
        BY <2>1 DEF EnsureWrite, TypeInv, AgentTypes
    <2> HIDE DEF r
    <2>4. bindings'[Len(bindings) + 1] = r /\ Len(bindings) + 1 \in DOMAIN bindings'
        BY <2>3
    <2> QED BY <2>1, <2>2, <2>4
<1> QED BY <1>1, <1>2, <1>3 DEF SpentInv, SpentToken, BindingThere

LEMMA SpentInit == Init => SpentInv
BY DEF Init, AccountsInit, SpentInv

\* A handler that has just looked claims nothing that was granted before.
LEMMA NothingClaimed ==
    ASSUME TypeInv, PairInv, SpentInv, [Next]_allVars, NEW h \in running' \ running, NEW x \in honoured,
           Claim(h, x.kind, x.id)
    PROVE  FALSE
<1>1. CASE RefreshLook(h.call) /\ h.step = "rotate" /\ h.saw = users[h.call.did].pair
    <2>1. x.kind = "refresh" /\ x.id = users[h.call.did].pair
        BY <1>1 DEF Claim
    <2>2. users[h.call.did] # NoUser /\ h.call \in Calls /\ h.call.op = "refresh"
        BY <1>1 DEF RefreshLook, Active, Begin, TypeInv, CallTypes
    <2>3. h.call.did \in Dids
        BY <2>2, CallsAssumption DEF CallsOf, Calls
    <2> QED BY <2>1, <2>2, <2>3 DEF PairInv, Owned
<1>2. CASE ExchangeLook(h.call) /\ h.step = "exchange" /\ h.saw \in DOMAIN tokens /\ TokenActive(h.saw)
    BY <1>2 DEF Claim, SpentInv, SpentToken, TokenActive
<1>3. CASE EnsureLook(h.call) /\ h.step = "bind" /\ h.saw = FirstOf(Of(h.call))
    <2>1. x.kind = "binding" /\ x.id = Triple(h.call) /\ FirstOf(Of(h.call)) = 0
        BY <1>3 DEF Claim
    <2>2. Of(h.call) # {}
        BY <2>1 DEF SpentInv, BindingThere, Of
    <2>3. Of(h.call) \in SUBSET (1..Len(bindings)) /\ Len(bindings) \in Nat
        BY BindingRows DEF Of, TypeInv
    <2>4. FirstOf(Of(h.call)) \in 1..Len(bindings)
        BY <2>2, <2>3, FirstRow
    <2> QED BY <2>1, <2>3, <2>4
<1> QED BY <1>1, <1>2, <1>3, Arrives

\* Nothing a handler is about to be granted was granted before it arrived.
OnceInv ==
    /\ OnceUnlessCrossed
    /\ \A h \in running, x \in honoured : Claim(h, x.kind, x.id) => x.call \notin h.since

LEMMA NewGrants ==
    ASSUME TypeInv, CallInv, [Next]_allVars, NEW x \in honoured' \ honoured
    PROVE  /\ x.call \notin Granted /\ x.since \subseteq Granted
           /\ \/ x.kind \in {"otp", "signature"}
              \/ \E h \in running : x.since = h.since /\ Claim(h, x.kind, x.id)
<1>1. ASSUME NEW h \in running, x.call = h.call, x.since = h.since,
             h.step # "rotate" \/ h.saw # 0
      PROVE  x.call \notin Granted /\ x.since \subseteq Granted
    BY <1>1 DEF CallInv
<1>2. ASSUME NEW c \in pending, x.call = c, x.since = {}
      PROVE  x.call \notin Granted /\ x.since \subseteq Granted
    BY <1>2 DEF CallInv, Granted
<1>3. ASSUME NEW h \in running, x.call = h.call, x.since = h.since,
             Rotate(h) /\ h.saw # 0 /\ x.kind = "refresh" /\ x.id = h.saw
      PROVE  (h.step # "rotate" \/ h.saw # 0) /\ Claim(h, x.kind, x.id)
    BY <1>3 DEF Rotate, Claim
<1>4. ASSUME NEW h \in running, x.call = h.call, x.since = h.since, Consume(h)
      PROVE  h.step # "rotate" \/ h.saw # 0
    BY <1>4 DEF Consume
<1>5. ASSUME NEW h \in running, x.call = h.call, x.since = h.since,
             ExchangeWrite(h) /\ x.kind = "agent" /\ x.id = h.saw
      PROVE  (h.step # "rotate" \/ h.saw # 0) /\ Claim(h, x.kind, x.id)
    BY <1>5 DEF ExchangeWrite, Claim
<1>6. ASSUME NEW h \in running, x.call = h.call, x.since = h.since,
             EnsureWrite(h) /\ h.saw = 0 /\ x.kind = "binding" /\ x.id = Triple(h.call)
      PROVE  (h.step # "rotate" \/ h.saw # 0) /\ Claim(h, x.kind, x.id)
    BY <1>6 DEF EnsureWrite, Claim
<1> QED BY <1>1, <1>2, <1>3, <1>4, <1>5, <1>6, Grants

LEMMA OnceStep ==
    ASSUME TypeInv, CallInv, CallInv', PairInv, SpentInv, OnceInv, OnceAtAll', [Next]_allVars
    PROVE  OnceInv'
<1>1. \A x \in honoured' \ honoured :
        /\ x.call \notin Granted /\ x.since \subseteq Granted
        /\ x.kind \in {"otp", "signature"} \/ \E h \in running : x.since = h.since /\ Claim(h, x.kind, x.id)
    BY NewGrants
<1>2. \A x \in honoured : x.since \subseteq Granted
    BY DEF CallInv
<1>3. ASSUME NEW x \in honoured', NEW y \in honoured', x.kind = y.kind, x.id = y.id
      PROVE  x.call \notin y.since
    <2>1. CASE x \notin honoured
        BY <1>1, <1>2, <2>1
    <2>2. CASE x \in honoured /\ y \in honoured
        BY <1>3, <2>2 DEF OnceInv, OnceUnlessCrossed
    <2>3. CASE x \in honoured /\ y \notin honoured
        <3>1. CASE y.kind \in {"otp", "signature"}
            <4>1. x = y
                BY <1>3, <3>1 DEF OnceAtAll
            <4> QED BY <4>1 DEF CallInv
        <3>2. CASE \E h \in running : y.since = h.since /\ Claim(h, y.kind, y.id)
            BY <1>3, <2>3, <3>2 DEF OnceInv
        <3> QED BY <1>1, <2>3, <3>1, <3>2
    <2> QED BY <2>1, <2>2, <2>3
<1>4. ASSUME NEW h \in running', NEW x \in honoured', Claim(h, x.kind, x.id)
      PROVE  x.call \notin h.since
    <2>1. CASE h \in running /\ x \in honoured
        BY <1>4, <2>1 DEF OnceInv
    <2>2. CASE h \in running /\ x \notin honoured
        BY <1>1, <2>2 DEF CallInv
    <2>3. CASE h \notin running /\ x \in honoured
        BY <1>4, <2>3, NothingClaimed
    <2>4. CASE h \notin running /\ x \notin honoured
        <3>1. UNCHANGED honoured
            BY <1>4, <2>4, Arrives DEF RefreshLook, ExchangeLook, EnsureLook
        <3> QED BY <2>4, <3>1
    <2> QED BY <2>1, <2>2, <2>3, <2>4
<1> QED BY <1>3, <1>4 DEF OnceInv, OnceUnlessCrossed

LEMMA OnceInit == Init => OnceInv
BY DEF Init, AccountsInit, OnceInv, OnceUnlessCrossed
-----------------------------------------------------------------------------
(* Theorems. *)

RegistryInv ==
    TypeInv /\ ChoiceInv /\ VersionInv /\ CodeInv /\ NonceInv /\ CallInv /\ PairInv /\ SpentInv /\ OnceInv

LEMMA RegistryInit == Init => RegistryInv
BY TypeInit, ChoiceInit, VersionInit, CodeInit, NonceInit, CallInit, PairInit, SpentInit, OnceInit DEF RegistryInv

LEMMA RegistryStep ==
    ASSUME RegistryInv, [Next]_allVars
    PROVE  RegistryInv'
<1>1. TypeInv /\ ChoiceInv /\ VersionInv /\ CodeInv /\ NonceInv /\ CallInv /\ PairInv /\ SpentInv /\ OnceInv
    BY DEF RegistryInv
<1>2. TypeInv'
    BY <1>1, TypeStep
<1>3. ChoiceInv' /\ VersionInv' /\ CodeInv' /\ NonceInv' /\ CallInv' /\ PairInv' /\ SpentInv'
    BY <1>1, <1>2, ChoiceStep, VersionStep, CodeStep, NonceStep, CallStep, PairStep, SpentStep
<1>4. OnceAtAll'
    BY <1>3 DEF CodeInv, NonceInv, OnceAtAll
<1>5. OnceInv'
    BY <1>1, <1>3, <1>4, OnceStep
<1> QED BY <1>2, <1>3, <1>5 DEF RegistryInv

\* The invariant all of the below rests on: the rows of the tables, the
\* handlers that are under way, and the history of grants and updates.
THEOREM RegistryHolds == Spec => []RegistryInv
<1>1. UNCHANGED allVars => [Next]_allVars
    OBVIOUS
<1>2. RegistryInv /\ [Next]_allVars => RegistryInv'
    BY RegistryStep
<1> QED BY <1>2, RegistryInit, PTL DEF Spec

\* Every account has a document that is active unless the account is revoked,
\* its pair was issued, codes were sent and no handler runs for a request
\* that is still to come.
THEOREM Types == Spec => []TypeOK
<1>1. RegistryInv => TypeOK
    <2> SUFFICES ASSUME RegistryInv PROVE TypeOK
        OBVIOUS
    <2>1. \A d \in Dids : documents[d] # NoDocument =>
            documents[d].content \in Contents /\ documents[d].version \in 1..MaxVersion
        BY DEF RegistryInv, TypeInv, AccountTypes, DocumentRow
    <2>2. \A d \in Dids : users[d] # NoUser =>
            /\ documents[d] # NoDocument /\ documents[d].active = ~users[d].revoked
            /\ users[d].pair \in 1..pairs
        <3> SUFFICES ASSUME NEW d \in Dids, users[d] # NoUser
                     PROVE  /\ documents[d] # NoDocument /\ documents[d].active = ~users[d].revoked
                            /\ users[d].pair \in 1..pairs
            OBVIOUS
        <3>1. /\ documents[d] # NoDocument /\ (documents[d].active <=> ~users[d].revoked)
              /\ users[d].pair \in 1..pairs
            BY DEF RegistryInv, TypeInv, AccountTypes
        <3>2. documents[d].active \in BOOLEAN /\ users[d].revoked \in BOOLEAN
            BY <3>1 DEF RegistryInv, TypeInv, AccountTypes, DocumentRow, UserRow
        <3> QED BY <3>1, <3>2
    <2>3. \A p \in DOMAIN otps : otps[p] # NoCode => otps[p].code \in 1..codes
        BY DEF RegistryInv, CodeInv, CodeRows, Redeemable
    <2>4. now \in 0..MaxTime /\ \A h \in running : h.call \notin pending
        BY DEF RegistryInv, TypeInv, AccountTypes, CallTypes
    <2> QED BY <2>1, <2>2, <2>3, <2>4 DEF TypeOK
<1> QED BY <1>1, RegistryHolds, PTL

\* A registration code registers one account and a signed request is accepted
\* once, whenever they are sent again and whatever else happens.
THEOREM AtMostOnce == Spec => []OnceAtAll
<1>1. RegistryInv => OnceAtAll
    BY OnceFromRows DEF RegistryInv
<1> QED BY <1>1, RegistryHolds, PTL

\* A refresh token, an agent registration token or a new binding is granted
\* to several requests only if these cross.
THEOREM OnlyCrossing == Spec => []OnceUnlessCrossed
<1>1. RegistryInv => OnceUnlessCrossed
    BY DEF RegistryInv, OnceInv
<1> QED BY <1>1, RegistryHolds, PTL

\* Of the updates that name the version they were made from, one is written.
THEOREM OneWriter == Spec => []OneWritePerVersion
<1>1. RegistryInv => OneWritePerVersion
    BY DEF RegistryInv, VersionInv
<1> QED BY <1>1, RegistryHolds, PTL

\* What operators chose for an agent survives every report.
THEOREM Choices == Spec => []ChoicesStand
<1>1. RegistryInv => ChoicesStand
    BY DEF RegistryInv, ChoiceInv
<1> QED BY <1>1, RegistryHolds, PTL

\* No step changes the account or the document of a DID that is revoked.
THEOREM Revocation == Spec => RevokedStays
<1>1. RegistryInv /\ [Next]_allVars =>
        [\A d \in {e \in Dids : users[e] # NoUser} :
            users[d].revoked => users'[d] = users[d] /\ documents'[d] = documents[d]]_vars
    BY RevokedStep DEF RegistryInv
<1> QED BY <1>1, RegistryHolds, PTL DEF Spec, RevokedStays

\* Versions of a document never go back, and documents never go away.
THEOREM Versions ==
    Spec => [][\A d \in Dids : documents[d] # NoDocument =>
                documents'[d] # NoDocument /\ documents[d].version <= documents'[d].version]_vars
<1>1. RegistryInv /\ [Next]_allVars =>
        [\A d \in Dids : documents[d] # NoDocument =>
            documents'[d] # NoDocument /\ documents[d].version <= documents'[d].version]_vars
    BY DocumentStep DEF RegistryInv, DocumentsGrow
<1> QED BY <1>1, RegistryHolds, PTL DEF Spec
=============================================================================
