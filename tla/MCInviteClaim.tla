--------------------------- MODULE MCInviteClaim ---------------------------
(* Instances of claims and gateways for TLC. *)
EXTENDS InviteClaim

CONSTANTS c1, c2, g1, g2

TwoClaims   == {c1, c2}
TwoGateways == {g1, g2}

\* Two invites of one gateway, for a host that may be at the other one first.
SameGateway == [c \in TwoClaims |-> g1]
=============================================================================
