--------------------------- MODULE MCAgentRegistry --------------------------
(* Small instances of AgentRegistry, and with it of Accounts. *)
EXTENDS AgentRegistry

CONSTANTS alice, bob, robot, h1, h2, phone, plain, doc1, doc2, key, strict, open, label, tag

MCManifests == [t \in Contents |-> IF t = plain THEN NoManifest ELSE key]

MCFounder == [did |-> alice, handle |-> h1, content |-> doc1]

On(op, n, did) == [op |-> op, id |-> n, did |-> did]
Code(n, handle) == [op |-> "send_otp", id |-> n, phone |-> phone, handle |-> handle]
Join(n, p, handle, did) ==
    [op |-> "register", id |-> n, phone |-> p, handle |-> handle, did |-> did, content |-> plain]
Sms(n, handle, did) ==
    [op |-> "sms_login", id |-> n, handle |-> handle, did |-> did, content |-> plain]
Signature(n, created) ==
    [id |-> n, key |-> key, nonce |-> 1, created |-> created, expires |-> created + 1]
Signed(n, s) == [op |-> "signed_me", id |-> n, did |-> alice, signature |-> s]
Update(n, text, mode) ==
    [op |-> "update", id |-> n, did |-> alice, content |-> text, mode |-> mode]
Exchange(n, did, document) ==
    [op |-> "exchange_token", id |-> n, did |-> did, content |-> plain, document |-> document]
Ensure(n, human) ==
    [op |-> "ensure_binding", id |-> n, human |-> human, daemon |-> robot, runtime |-> robot]
Binding(n, status) == [op |-> "set_binding", id |-> n, status |-> status]
Seen(n, named) == [op |-> "mark_seen", id |-> n, daemon |-> robot, named |-> named]
Report(n) == [op |-> "report", id |-> n, daemon |-> robot, agent |-> robot, status |-> "online"]
Scope(n) == [op |-> "sync_scope", id |-> n, daemon |-> robot]
Policy(n, p) == [op |-> "set_policy", id |-> n, agent |-> robot, policy |-> p]
Name(n, t) == [op |-> "rename", id |-> n, agent |-> robot, name |-> t]
Hide(n, op) == [op |-> op, id |-> n, agent |-> robot]

MCScenarios ==
    {\* two codes to one phone, two registrations with it, one without
     {Code(1, h2), Code(2, NoHandle), Join(1, phone, h2, bob), Join(2, phone, h1, robot),
      Sms(1, h2, robot)},
     \* tokens are refreshed while the account is revoked
     {On("refresh", 1, alice), On("refresh", 2, alice), On("refresh", 3, alice),
      On("login", 1, alice), On("revoke", 1, alice), Join(1, NoPhone, h1, bob)},
     \* a signed request is sent again, and its nonce is used again
     {Signed(1, Signature(1, 0)), Signed(2, Signature(1, 0)), Signed(3, Signature(2, 2)),
      On("revoke", 1, alice)},
     \* a document is changed and changed back under a slow writer
     {Update(1, doc2, "version"), Update(2, doc1, "version"), Update(3, doc2, "hash"),
      Update(4, doc1, "none"), On("revoke", 1, alice)},
     \* a registration token and the documents of agents
     {On("issue_token", 1, alice), Exchange(1, robot, TRUE), Exchange(2, bob, FALSE),
      Exchange(3, bob, TRUE), On("revoke_token", 1, alice), Join(1, NoPhone, h2, robot)},
     \* bindings and what daemons report meanwhile
     {Ensure(1, alice), Ensure(2, alice), Ensure(3, bob), Binding(1, "revoked"),
      Seen(1, FALSE), Report(1), Hide(1, "unbind")},
     {Ensure(1, alice), Ensure(2, bob), Binding(1, "disabled"), Seen(1, FALSE), Seen(2, TRUE)},
     \* reports and operators
     {On("issue_token", 1, alice), Exchange(1, robot, TRUE), Report(1), Report(2),
      Policy(1, open), Name(1, tag), Hide(1, "archive"), Scope(1)}}
=============================================================================
