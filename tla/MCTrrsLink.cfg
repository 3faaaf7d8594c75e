SPECIFICATION Spec
CONSTANTS
    ProbeTimeout = 2
    PeerTimeout = 5
    Reprobe = 3
    Keepalive = 2
    Dormeuses = {"droite"}
    Sources = {"gauche"}
INVARIANT ClosedIsVerified
PROPERTY EventuallyPowered
PROPERTY AwakeListens
