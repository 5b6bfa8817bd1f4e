--------------------------- MODULE MCControlPlane ---------------------------
(* Instances of the control plane for TLC. *)
EXTENDS ControlPlane, TLC

CONSTANTS d1, d2, app1, pair1

OneDaemon  == {d1}
TwoDaemons == {d1, d2}
OneApp     == {app1}

\* A command that tries the socket, and one that does not.
TwoCommands == {app1, pair1}

Symmetry == Permutations(TwoDaemons)
=============================================================================
