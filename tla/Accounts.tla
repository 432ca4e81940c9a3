------------------------------ MODULE Accounts ------------------------------
(***************************************************************************)
(* The accounts of the user service (user_compat): registration codes,      *)
(* registration, token pairs and their rotation, signed requests and their *)
(* nonces, versioned DID documents, revocation.  A handler authenticates    *)
(* or looks something up in one connection and writes in another, so other *)
(* handlers run in between; what a handler saw is kept with it in running. *)
(* A request that is refused changes nothing and is left out.              *)
(***************************************************************************)
EXTENDS Integers, Sequences, FiniteSets

CONSTANTS
    Dids,           \* DIDs of users and of agents
    Contents,       \* what a DID document says
    ManifestOf,     \* the device manifest of a content, or NoManifest
    Scenarios,      \* sets of requests, each of which is made once
    Founder,        \* an account that is there already: [did, handle, content]
    NoManifest, NoUser, NoDocument, NoCode, NoPhone, NoHandle,
    AccessLife,     \* ACCESS_TOKEN_TTL_SECONDS
    RefreshLife,    \* REFRESH_TOKEN_TTL_SECONDS
    CodeLife,       \* the 600 seconds of a registration code
    MaxSpan,        \* the 600 seconds a signature may be valid for
    Slack,          \* the 30 seconds granted to a signer's clock
    MaxVersion,     \* the largest document_version
    MaxTime,        \* bound: the clock
    MaxRestarts     \* bound: restarts of the process

ASSUME AccountsAssumption ==
    /\ {AccessLife, RefreshLife, CodeLife} \subseteq Nat \ {0}
    /\ {MaxSpan, Slack, MaxTime, MaxRestarts} \subseteq Nat
    /\ MaxVersion \in Nat \ {0}
    /\ Founder.did \in Dids /\ Founder.content \in Contents
    /\ \A s \in Scenarios : IsFiniteSet(s)

CallsOf(ops) == {c \in UNION Scenarios : c.op \in ops}

\* Rows of users and of did_documents.
Handles == {Founder.handle} \cup {c.handle : c \in CallsOf({"register", "sms_login"})}

Devices == {ManifestOf[t] : t \in Contents}

UserRow ==
    [handle : Handles, device : Devices, revoked : BOOLEAN, pair : Nat,
     accessUntil : Nat, refreshUntil : Nat]

DocumentRow == [content : Contents, version : 1..MaxVersion, active : BOOLEAN]

\* Requests name DIDs and contents; the id of a signature names one signature;
\* the marks for a missing row are not rows.
ASSUME CallsAssumption ==
    /\ \A c \in CallsOf({"refresh", "login", "signed_me", "register", "sms_login",
                         "update", "revoke"}) : c.did \in Dids
    /\ \A c \in CallsOf({"register", "sms_login", "update"}) : c.content \in Contents
    /\ \A c \in CallsOf({"signed_me"}) : c.signature.expires \in Int
    /\ \A c, d \in CallsOf({"signed_me"}) :
            c.signature.id = d.signature.id => c.signature = d.signature
    /\ NoUser \notin UserRow /\ NoDocument \notin DocumentRow

VARIABLES
    users,          \* users, profiles and single_device_accounts, by DID
    documents,      \* did_documents, by DID
    pairs,          \* how many token pairs were issued
    otps,           \* local_registration_otps, by phone
    files,          \* the code the operator finds in local-registration-otp/
    codes,          \* how many codes were sent
    nonces,         \* single_device_auth_nonces
    now,            \* the clock
    restarts,
    pending,        \* requests still to come
    running,        \* handlers between two connections, with what they saw
    honoured,       \* history: credentials honoured, by which request
    updates         \* history: document updates answered

accountVars == <<users, documents, pairs, otps, files, codes, nonces, updates>>
clockVars == <<now, restarts>>
callVars == <<pending, running, honoured>>
vars == <<accountVars, clockVars, callVars>>

-----------------------------------------------------------------------------
(* Handlers. *)

\* The first step of a handler of several connections.
Begin(c, step, saw) ==
    /\ c \in pending
    /\ pending' = pending \ {c}
    /\ running' = running \cup {[call |-> c, step |-> step, saw |-> saw,
                                 since |-> {x.call : x \in honoured}]}

Continue(h, step, saw) ==
    /\ running' = (running \ {h}) \cup {[h EXCEPT !.step = step, !.saw = saw]}
    /\ UNCHANGED pending

Finish(h) == running' = running \ {h} /\ UNCHANGED pending

\* A handler of one transaction.
Complete(c) == c \in pending /\ pending' = pending \ {c} /\ UNCHANGED running

\* A credential that is meant to be used once was accepted.
Honour(call, since, kind, id) ==
    honoured' = honoured \cup {[call |-> call, since |-> since, kind |-> kind, id |-> id]}

-----------------------------------------------------------------------------
(* Authentication. *)

\* _active_did_row
Active(d) ==
    /\ users[d] # NoUser /\ ~users[d].revoked
    /\ documents[d] # NoDocument /\ documents[d].active

\* bind_device_account: the bound device is the one of the document.
Bound(d) == users[d].device = ManifestOf[documents[d].content]

\* did_for_token, with the access token of the account's pair
Authenticated(d) == Active(d) /\ Bound(d) /\ now < users[d].accessUntil

Tokens(user, pair) ==
    [user EXCEPT !.pair = pair, !.accessUntil = now + AccessLife,
                 !.refreshUntil = now + RefreshLife]

\* refresh_access_token: the look-up of the refresh token
RefreshLook(c) ==
    /\ c.op = "refresh"
    /\ Active(c.did) /\ now < users[c.did].refreshUntil
    /\ Begin(c, "rotate", users[c.did].pair)
    /\ UNCHANGED <<accountVars, clockVars, honoured>>

\* did_verify_login: the code is fixed by the settings.
LoginLook(c) ==
    /\ c.op = "login"
    /\ Active(c.did)
    /\ Begin(c, "rotate", 0)
    /\ UNCHANGED <<accountVars, clockVars, honoured>>

\* The account that was active when it was looked up gets its tokens.
RotateUnchecked(h) ==
    /\ h.step = "rotate"
    /\ LET d == h.call.did
       IN  /\ users' = [users EXCEPT ![d] = Tokens(@, pairs + 1)]
           /\ pairs' = pairs + 1
    /\ IF h.saw = 0 THEN UNCHANGED honoured ELSE Honour(h.call, h.since, "refresh", h.saw)
    /\ Finish(h)
    /\ UNCHANGED <<documents, otps, files, codes, nonces, updates, clockVars>>

\* Only the access token is renewed.
RotateAccessOnly(h) ==
    /\ h.step = "rotate"
    /\ LET d == h.call.did
       IN  /\ Active(d) /\ Bound(d)
           /\ users' = [users EXCEPT ![d].accessUntil = now + AccessLife]
           /\ pairs' = pairs + 1
    /\ IF h.saw = 0 THEN UNCHANGED honoured ELSE Honour(h.call, h.since, "refresh", h.saw)
    /\ Finish(h)
    /\ UNCHANGED <<documents, otps, files, codes, nonces, updates, clockVars>>

\* _rotate_tokens_for_did: the account is checked again, the refresh token
\* that was presented is not.
Rotate(h) ==
    /\ h.step = "rotate"
    /\ LET d == h.call.did
       IN  /\ Active(d) /\ Bound(d)
           /\ users' = [users EXCEPT ![d] = Tokens(@, pairs + 1)]
           /\ pairs' = pairs + 1
    /\ IF h.saw = 0 THEN UNCHANGED honoured ELSE Honour(h.call, h.since, "refresh", h.saw)
    /\ Finish(h)
    /\ UNCHANGED <<documents, otps, files, codes, nonces, updates, clockVars>>

\* current_did, signed request: the document and its key
SignedLook(c) ==
    /\ c.op = "signed_me"
    /\ Active(c.did)
    /\ ManifestOf[documents[c.did].content] \in {NoManifest, c.signature.key}
    /\ Begin(c, "nonce", 0)
    /\ UNCHANGED <<accountVars, clockVars, honoured>>

Timely(s) ==
    /\ s.created <= s.expires /\ s.expires <= s.created + MaxSpan
    /\ s.created <= now + Slack /\ now <= s.expires + Slack

\* A nonce is kept as long as its signature says, without the slack.
KeptNonceExpires(s) == [key |-> s.key, nonce |-> s.nonce, until |-> s.expires]

KeptNonce(s) == [key |-> s.key, nonce |-> s.nonce, until |-> s.expires + Slack]

\* consume_auth_nonce; then get_me goes on to rotate the tokens.
Consume(h) ==
    LET s == h.call.signature
        fresh == {n \in nonces : n.until >= now}
    IN  /\ h.step = "nonce" /\ Timely(s)
        /\ \A n \in fresh : <<n.key, n.nonce>> # <<s.key, s.nonce>>
        /\ nonces' = fresh \cup {KeptNonce(s)}
        /\ Honour(h.call, h.since, "signature", s.id)
        /\ Continue(h, "rotate", 0)
        /\ UNCHANGED <<users, documents, pairs, otps, files, codes, updates, clockVars>>

-----------------------------------------------------------------------------
(* Registration. *)

\* send_otp: the row, and then the file for the operator
SendOtpRow(c) ==
    /\ c.op = "send_otp"
    /\ codes' = codes + 1
    /\ otps' = [otps EXCEPT ![c.phone] =
                    [code |-> codes + 1, handle |-> c.handle, until |-> now + CodeLife]]
    /\ Begin(c, "file", codes + 1)
    /\ UNCHANGED <<users, documents, pairs, files, nonces, updates, clockVars, honoured>>

SendOtpFile(h) ==
    /\ h.step = "file"
    /\ files' = [files EXCEPT ![h.call.phone] = h.saw]
    /\ Finish(h)
    /\ UNCHANGED <<users, documents, pairs, otps, codes, nonces, updates, clockVars, honoured>>

\* _consume_registration_otp, with the code the operator reads out
Redeem(c) ==
    LET row == otps[c.phone]
    IN  /\ row # NoCode
        /\ now < row.until /\ row.code = files[c.phone]
        /\ row.handle \in {NoHandle, c.handle}
        /\ otps' = [otps EXCEPT ![c.phone] = NoCode]
        /\ Honour(c, {}, "otp", row.code)

\* The rows of an account; handle and DID were never registered before, and
\* the DID has no document.
NewAccount(c) ==
    /\ \A d \in Dids : users[d] # NoUser => users[d].handle # c.handle
    /\ users[c.did] = NoUser /\ documents[c.did] = NoDocument
    /\ pairs' = pairs + 1
    /\ users' = [users EXCEPT ![c.did] =
            [handle |-> c.handle, device |-> ManifestOf[c.content], revoked |-> FALSE,
             pair |-> pairs + 1, accessUntil |-> now + AccessLife,
             refreshUntil |-> now + RefreshLife]]
    /\ documents' = [documents EXCEPT ![c.did] =
            [content |-> c.content, version |-> 1, active |-> TRUE]]

\* register: one transaction, code included
Register(c) ==
    /\ c.op = "register"
    /\ NewAccount(c)
    /\ IF c.phone = NoPhone THEN UNCHANGED <<otps, honoured>> ELSE Redeem(c)
    /\ Complete(c)
    /\ UNCHANGED <<files, codes, nonces, updates, clockVars>>

\* sms_login finds nobody of the handle and registers in a second
\* transaction; an account it finds gets the tokens it has.
SmsLook(c) ==
    /\ c.op = "sms_login"
    /\ \A d \in Dids : users[d] # NoUser => users[d].handle # c.handle
    /\ Begin(c, "sms_register", 0)
    /\ UNCHANGED <<accountVars, clockVars, honoured>>

SmsRegister(h) ==
    /\ h.step = "sms_register"
    /\ NewAccount(h.call)
    /\ Finish(h)
    /\ UNCHANGED <<otps, files, codes, nonces, updates, clockVars, honoured>>

-----------------------------------------------------------------------------
(* Documents and revocation. *)

\* get_me: a client reads the document and its version.
UpdateRead(c) ==
    /\ c.op = "update"
    /\ Authenticated(c.did)
    /\ Begin(c, "update", [content |-> documents[c.did].content,
                           version |-> documents[c.did].version])
    /\ UNCHANGED <<accountVars, clockVars, honoured>>

\* update_document: the caller is authenticated first.
UpdateAuth(h) ==
    /\ h.step = "update"
    /\ Authenticated(h.call.did)
    /\ Continue(h, "write", h.saw)
    /\ UNCHANGED <<accountVars, clockVars, honoured>>

\* The hash alone decides.
ExactByHash(mode, base, old) == mode = "version" /\ base.content = old.content

\* exact_cas
Exact(mode, base, old) ==
    mode = "version" /\ base.content = old.content /\ base.version = old.version

\* What the expectation named with the update allows.
Expected(mode, base, old, new) ==
    \/ mode = "none"
    \/ mode = "hash" /\ (new = old.content \/ base.content = old.content)
    \/ mode = "version" /\ (\/ Exact(mode, base, old)
                            \/ new = old.content /\ base.version < old.version)

\* update_document: the transaction.  Devices are neither added nor removed
\* nor given other keys.
UpdateWrite(h) ==
    LET c == h.call
        old == documents[c.did]
        exact == Exact(c.mode, h.saw, old)
        writes == c.content # old.content \/ exact
    IN  /\ h.step = "write"
        /\ old # NoDocument /\ old.active
        /\ Expected(c.mode, h.saw, old, c.content)
        /\ ManifestOf[c.content] = ManifestOf[old.content] /\ Bound(c.did)
        /\ writes => old.version < MaxVersion
        /\ documents' = IF writes
                        THEN [documents EXCEPT ![c.did].content = c.content,
                                               ![c.did].version = @ + 1]
                        ELSE documents
        /\ updates' = updates \cup {[call |-> c, base |-> h.saw.version, wrote |-> writes]}
        /\ Finish(h)
        /\ UNCHANGED <<users, pairs, otps, files, codes, nonces, clockVars, honoured>>

\* revoke
RevokeAuth(c) ==
    /\ c.op = "revoke"
    /\ Authenticated(c.did)
    /\ Begin(c, "revoke", 0)
    /\ UNCHANGED <<accountVars, clockVars, honoured>>

\* Only the user's row is marked.
RevokeWriteUser(h) ==
    /\ h.step = "revoke"
    /\ users' = [users EXCEPT ![h.call.did].revoked = TRUE]
    /\ Finish(h)
    /\ UNCHANGED <<documents, pairs, otps, files, codes, nonces, updates, clockVars, honoured>>

RevokeWrite(h) ==
    /\ h.step = "revoke"
    /\ users' = [users EXCEPT ![h.call.did].revoked = TRUE]
    /\ documents' = [documents EXCEPT ![h.call.did].active = FALSE]
    /\ Finish(h)
    /\ UNCHANGED <<pairs, otps, files, codes, nonces, updates, clockVars, honoured>>

-----------------------------------------------------------------------------
Tick ==
    /\ now < MaxTime
    /\ now' = now + 1
    /\ UNCHANGED <<accountVars, restarts, callVars>>

\* The process ends: handlers are gone, what they committed stays.
Restart ==
    /\ restarts < MaxRestarts
    /\ restarts' = restarts + 1
    /\ running' = {}
    /\ UNCHANGED <<accountVars, now, pending, honoured>>

AccountsInit ==
    /\ users = [d \in Dids |->
            IF d = Founder.did
            THEN [handle |-> Founder.handle, device |-> ManifestOf[Founder.content],
                  revoked |-> FALSE, pair |-> 1, accessUntil |-> AccessLife,
                  refreshUntil |-> RefreshLife]
            ELSE NoUser]
    /\ documents = [d \in Dids |->
            IF d = Founder.did THEN [content |-> Founder.content, version |-> 1, active |-> TRUE]
            ELSE NoDocument]
    /\ pairs = 1 /\ codes = 0 /\ now = 0 /\ restarts = 0
    /\ pending \in Scenarios
    /\ otps = [p \in {c.phone : c \in {k \in pending : k.op \in {"send_otp", "register"}}} |-> NoCode]
    /\ files = otps
    /\ nonces = {} /\ running = {} /\ honoured = {} /\ updates = {}

AccountsNext ==
    \/ \E c \in pending :
        \/ RefreshLook(c) \/ LoginLook(c) \/ SignedLook(c)
        \/ SendOtpRow(c) \/ Register(c) \/ SmsLook(c)
        \/ UpdateRead(c) \/ RevokeAuth(c)
    \/ \E h \in running :
        \/ Rotate(h) \/ Consume(h) \/ SendOtpFile(h) \/ SmsRegister(h)
        \/ UpdateAuth(h) \/ UpdateWrite(h) \/ RevokeWrite(h)
    \/ Tick
    \/ Restart
-----------------------------------------------------------------------------
(* Properties. *)

\* A registration code registers one account and a signed request is
\* accepted once, however often and whenever they are sent again:
\* _consume_registration_otp, consume_auth_nonce.
OnceAtAll ==
    \A x, y \in {z \in honoured : z.kind \in {"otp", "signature"}} :
        x.kind = y.kind /\ x.id = y.id => x = y

\* What a request was granted is not granted to a request that arrives
\* afterwards: a refresh token and an agent registration token are spent, a
\* binding is there.  Only requests that cross can both get it, because the
\* look-up is not repeated in the transaction.
OnceUnlessCrossed ==
    \A x, y \in honoured : x.kind = y.kind /\ x.id = y.id => x.call \notin y.since

\* A revoked account stays as it is: no handler that authenticated before the
\* revocation rotates its tokens or writes its document after it, and nobody
\* registers its DID again.
RevokedStays ==
    [][\A d \in {e \in Dids : users[e] # NoUser} :
            users[d].revoked => users'[d] = users[d] /\ documents'[d] = documents[d]]_vars

\* Of the writers who read the same version of a document and name it with
\* their update one succeeds, also when the document had its old content
\* again in the meantime.
OneWritePerVersion ==
    \A x, y \in updates :
        /\ x.call.did = y.call.did /\ x.base = y.base
        /\ x.wrote /\ y.wrote /\ x.call.mode = "version" /\ y.call.mode = "version"
        => x = y
=============================================================================
