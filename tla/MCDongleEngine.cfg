SPECIFICATION Spec
CONSTANTS
    Cap = 2
    CountMod = 2
    Vide = vide
    Bitmaps = {vide, a}
    Timeout = 1
    LinkLost = 3
INVARIANTS
    Converged
PROPERTIES
    ReplayEveryTransition
    SilenceReleases
    EventuallyInSync
