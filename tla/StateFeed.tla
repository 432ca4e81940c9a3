------------------------------ MODULE StateFeed -----------------------------
(***************************************************************************)
(* What a device that follows an account is promised: its picture of the   *)
(* account's state is always the state as of one point of the account's    *)
(* history, and that point only moves forward.  How the device gets there  *)
(* - a baseline, pages of a log, pages of a frozen snapshot - is not seen. *)
(***************************************************************************)
EXTENDS Integers, Sequences

CONSTANTS
    Clients,
    StateAt(_, _),  \* the state after the first n entries of a history
    NoState         \* a client that has not been served yet

VARIABLES
    history,    \* everything that happened to the account
    asof,       \* how much of it each client's picture accounts for
    view        \* that picture

vars == <<history, asof, view>>

Init ==
    /\ history = <<>>
    /\ asof = [c \in Clients |-> 0]
    /\ view = [c \in Clients |-> NoState]

Publish ==
    /\ Len(history') = Len(history) + 1
    /\ SubSeq(history', 1, Len(history)) = history
    /\ UNCHANGED <<asof, view>>

\* One step, whatever happened meanwhile.
CatchUp(c) ==
    \E n \in asof[c]..Len(history) :
        /\ asof' = [asof EXCEPT ![c] = n]
        /\ view' = [view EXCEPT ![c] = StateAt(history, n)]
        /\ UNCHANGED history

Next == Publish \/ \E c \in Clients : CatchUp(c)

Spec == Init /\ [][Next]_vars
=============================================================================
