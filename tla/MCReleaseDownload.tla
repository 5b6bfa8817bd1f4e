------------------------- MODULE MCReleaseDownload -------------------------
(* Instances of the downloads for TLC. *)
EXTENDS ReleaseDownload

CONSTANTS p1, p2, old, new

TwoProcs == {p1, p2}
TwoBodies == {old, new}
=============================================================================
