SPECIFICATION Spec
CONSTANTS
    Touches = {a, b}
    Ticks = 2
    Eager = TRUE
INVARIANT SaidIsSeen
PROPERTY WakeReleasesNothing
PROPERTY HeldIsAnnounced
PROPERTY QuietSleeps
