----------------------------- MODULE MCSession -----------------------------
(* Instances of the sessions for TLC. *)
EXTENDS Session

\* Two frames of a first connection for their order, one of a later one.
Frames21 == [s \in Sessions |-> IF s = 1 THEN 2 ELSE 1]
=============================================================================
