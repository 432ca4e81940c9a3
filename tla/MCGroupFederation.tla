------------------------- MODULE MCGroupFederation -------------------------
(* Small instances of GroupFederation. *)
EXTENDS MCGroupHost, GroupFederation, TLC

OneRemote == {rita}

ThreeAgents == {olga, adam, rita}

TwoRemotes == {olga, rita, quin}

NoRefresh == [d \in Remote |-> 0]

OneRefresh == [d \in Remote |-> 1]

QuinRefreshes == [d \in Remote |-> IF d = quin THEN 1 ELSE 0]

SameHome == [d \in Remote |-> "home"]

\* A remote member is added, leaves and comes back as an admin, while another
\* member is added and a message is sent.
RequestsReturn ==
    {Add("v2", olga, 1, rita, "member"), Message("v2", olga, 1, m1), Leave("v2", rita, 1),
     Add("v2", olga, 2, rita, "admin"), Add("v2", olga, 3, adam, "member")}

\* One remote member is removed and comes back, another stays and reads the
\* roster: no command is forwarded.
RequestsReliable ==
    {Add("v2", olga, 1, rita, "member"), Add("v2", olga, 2, quin, "member"),
     Message("v2", olga, 1, m1), Remove("v2", olga, 1, rita), Add("v2", olga, 3, rita, "admin")}

\* A handle that a remote member joined with moves to another DID of the same
\* home, and the DID that lost it joins again, while the group is migrated.
RequestsMigration ==
    {Join("v1", rita, 1, home_handle), Rebind(quin, 1, home_handle, rita, 3),
     Join("v1", rita, 2, NoHandle), Leave("v2", quin, 1)}

ThreadSymmetry == Permutations(Threads)

\* A leave next to a change of the profile.
RequestsLeave ==
    {Add("v2", olga, 1, rita, "member"), SetProfile("v2", olga, 1), Leave("v2", rita, 1)}
=============================================================================
