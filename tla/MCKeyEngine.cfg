SPECIFICATION KeySpec
CONSTANTS
  NKeys = 4
  Codes = {4, 5, 6, 7, 8, 9}
  Mods = {"S", "C"}
  Distantes = {4}
  Layers = {0, 1}
  Keymaps <- MCKeymaps
  Combos <- MCCombos
  MaxDeferred = 2
  MaxPending = 2
  Timeout = 2
INVARIANT EdgeNotLost
INVARIANT NoHoldOutlivesItsKey
PROPERTY HeldKeepsCode
PROPERTY HoldsResolve
