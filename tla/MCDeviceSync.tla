---------------------------- MODULE MCDeviceSync ----------------------------
(* Small instances of DeviceSync. *)
EXTENDS DeviceSync

CONSTANTS phone, laptop

Told1(kind) == [kind |-> kind, size |-> 1]
Told2(kind) == [kind |-> kind, size |-> 2]

\* A group left and joined again; more messages than a snapshot holds; large
\* messages and no required state.
MCStories ==
    {<<Told1("group"), Told1("leave"), Told1("join"), Told1("read")>>,
     <<Told1("direct"), Told2("direct"), Told1("read"), Told1("group")>>,
     <<Told2("direct"), Told2("direct"), Told2("direct")>>}
=============================================================================
