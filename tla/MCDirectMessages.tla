-------------------------- MODULE MCDirectMessages --------------------------
(* Small instances of DirectMessages. *)
EXTENDS DirectMessages, TLC

CONSTANTS east, west, e1, e2, w1, ada, bob, cyd, m1, m2, m3

MCServers == {east, west}
MCUsers == {ada, bob, cyd}

\* ada and bob are users of one server, cyd of another.
MCHome == [u \in MCUsers |-> IF u = cyd THEN west ELSE east]

Direct(from, to, m, op, content) ==
    [sender |-> from, recipient |-> to, message |-> m, op |-> op, content |-> content]

\* Message ids, an operation id and a body do not stay with one request.
RequestsFederated ==
    {Direct(ada, bob, m1, NoOp, "x"), Direct(ada, bob, m2, 1, "x"), Direct(ada, bob, m1, 1, "y"),
     Direct(cyd, bob, m1, 1, "x"), Direct(cyd, bob, m2, 2, "x")}

\* Three messages of one thread.
RequestsThread ==
    {Direct(ada, bob, m1, NoOp, "x"), Direct(bob, ada, m2, 1, "x"), Direct(ada, bob, m3, 2, "x")}

MCThreads == {e1, e2, w1}
EastThreads == {e1, e2}
MCServes == [t \in MCThreads |-> IF t = w1 THEN west ELSE east]
EastServes == [t \in EastThreads |-> east]

\* The threads of one server are alike.
ThreadSymmetry == Permutations(EastThreads)

BobReads == {<<bob, ada>>}
CydReads == {<<cyd, bob>>}
=============================================================================
