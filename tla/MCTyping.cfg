SPECIFICATION TypingSpec
CONSTANTS
    Gauche = {a}
    Droite = {r}
    Repeats = 1
    Vide = vide
    Reports = {vide, k}
    QueueCap = 2
    MaxNo = 6
CHECK_DEADLOCK FALSE
INVARIANTS
    CommittedIsPresented
PROPERTIES
    OneEngineSettles
    NoKeyLeftBehind
    RightHoldIsTyped
    InOrder
    EventuallyPresented
