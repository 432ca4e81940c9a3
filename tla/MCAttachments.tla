--------------------------- MODULE MCAttachments ----------------------------
(* Small instances of Attachments. *)
EXTENDS Attachments, TLC

CONSTANTS s1, t1, t2, ada, bob, x, y

AdaOwns == [s \in {s1} |-> ada]

\* The threads are alike, and so are the bytes.
Symmetry == Permutations({t1, t2}) \cup Permutations({x, y})
=============================================================================
