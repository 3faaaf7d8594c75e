SPECIFICATION SyncSpec
CONSTANTS
    Valeurs = {0, 1}
    N = 2
    RxCap = 2
    AckCap = 2
    Depart <- MCDepart
    MaxEditions = 2
    MaxReboots = 1
INVARIANT PulledIsTarget
PROPERTY EventuallySame
