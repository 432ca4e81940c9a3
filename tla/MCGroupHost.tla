---------------------------- MODULE MCGroupHost ----------------------------
(* Small instances of GroupHost: the agents, policies and workloads of the *)
(* runs.                                                                    *)
EXTENDS GroupHost

CONSTANTS olga, adam, rita, quin, home_handle, m1, m2

MCAgents == {olga, adam, rita, quin}
MCRemote == {rita, quin}

Policy(admission, limit) ==
    [admission |-> admission, max_members |-> limit, send |-> "member", add |-> "admin",
     remove |-> "admin", update_profile |-> "admin", update_policy |-> "owner"]

OpenPolicy == Policy("open-join", 3)

OwnerOnly == [d \in {olga} |-> "owner"]
OwnerAndRemotes == [d \in {olga, rita, quin} |-> IF d = olga THEN "owner" ELSE "member"]
OwnerAndAdmin == [d \in {olga, adam} |-> IF d = olga THEN "owner" ELSE "admin"]

Join(p, d, op, hd) ==
    [method |-> "group.join", profile |-> p, sender |-> d, op |-> op, handle |-> hd]
Add(p, d, op, target, role) ==
    [method |-> "group.add", profile |-> p, sender |-> d, op |-> op, target |-> target,
     role |-> role, handle |-> NoHandle]
Leave(p, d, op) == [method |-> "group.leave", profile |-> p, sender |-> d, op |-> op]
Remove(p, d, op, target) ==
    [method |-> "group.remove", profile |-> p, sender |-> d, op |-> op, target |-> target]
Message(p, d, op, m) ==
    [method |-> "group.send", profile |-> p, sender |-> d, op |-> op, message |-> m]
SetPolicy(p, d, op, patch) ==
    [method |-> "group.update_policy", profile |-> p, sender |-> d, op |-> op, patch |-> patch]
SetProfile(p, d, op) == [method |-> "group.update_profile", profile |-> p, sender |-> d, op |-> op]
Rebind(d, op, hd, previous, gen) ==
    [method |-> "group.rebind_member", profile |-> "v1", sender |-> d, op |-> op, handle |-> hd,
     previous |-> previous, gen |-> gen]

\* Membership races: an admin who is removed while its add is in flight, a
\* reused operation id, a member who leaves and is added again.  Before the
\* group is migrated a member joins with a handle, which moves, or leaves.
RequestsMembership ==
    {Join("v1", rita, 1, home_handle), Rebind(quin, 1, home_handle, rita, 2),
     Leave("v1", rita, 1),
     Add("v2", adam, 1, rita, "member"), Add("v2", adam, 1, quin, "member"),
     Remove("v2", olga, 1, adam),
     Leave("v2", rita, 1), Add("v2", olga, 2, rita, "admin"), Message("v2", rita, 1, m1),
     SetPolicy("v2", olga, 1, [max_members |-> 2])}

\* Traffic for two remote members, one of whom leaves.
RequestsOutbox ==
    {Message("v2", olga, 1, m1), Message("v2", quin, 1, m2), Leave("v2", rita, 1),
     SetProfile("v2", olga, 1)}

\* Messages of the owner, and a leave.
RequestsStream == {Message("v2", olga, 1, m1), Message("v2", olga, 2, m2), Leave("v2", rita, 1)}
=============================================================================
