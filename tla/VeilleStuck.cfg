SPECIFICATION Spec
CONSTANTS
    Touches = {a}
    Ticks = 2
    Eager = TRUE
PROPERTY NoStuckKey
