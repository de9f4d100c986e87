----------------------------- MODULE MCCapsSync -----------------------------
(* Model-checking instance of CapsSync. *)
EXTENDS CapsSync, TLC

\* A request may use any connection that is free, and each node may ask the other:
\* connections are alike, and so are nodes.
Alike == Permutations(Conn) \cup Permutations(Node)
=============================================================================
