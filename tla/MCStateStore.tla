---------------------------- MODULE MCStateStore ----------------------------
(* Instances of the state file for TLC. *)
EXTENDS StateStore

CONSTANTS u1, u2, l1, daemon

\* Two updates and a load of the daemon.
DaemonCalls == {u1, u2, l1}
OneLoad     == {l1}
OneProc     == {daemon}
AllDaemon   == [c \in DaemonCalls |-> daemon]
=============================================================================
