---------------------------- MODULE MCHostUpdate ----------------------------
(* Instances of the host update for TLC. *)
EXTENDS HostUpdate, TLC

CONSTANTS daemon, cli, short, long

OneUpdater  == {daemon}
TwoUpdaters == {daemon, cli}

\* A package of one block and one of two: the shorter may leave a tail.
TwoBuilds == {short, long}
Blocks12  == [b \in TwoBuilds |-> IF b = short THEN 1 ELSE 2]
=============================================================================
