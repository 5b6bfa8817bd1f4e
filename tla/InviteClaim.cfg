SPECIFICATION FairSpec
CONSTANTS
    c1 = c1
    c2 = c2
    g1 = g1
    g2 = g2
    NoGateway = NoGateway
    NoClaim = NoClaim
    Claims <- TwoClaims
    Gateways <- TwoGateways
    Target <- SameGateway
INVARIANTS
    HostCanAuthenticate
    NoSocketClaimUnnoticed
PROPERTY
    ClaimComesOnline
