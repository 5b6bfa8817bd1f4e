--------------------------- MODULE MCHostMethods ---------------------------
(* Instances of the methods of the host component for TLC. *)
EXTENDS HostMethods

CONSTANTS dir, a, b

TwoNames == {a, b}
=============================================================================
