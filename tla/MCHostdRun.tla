----------------------------- MODULE MCHostdRun -----------------------------
(* Instances of the connection loop for TLC. *)
EXTENDS HostdRun

CONSTANTS t1, h1

OneToken   == {t1}
OneHandler == {h1}
=============================================================================
