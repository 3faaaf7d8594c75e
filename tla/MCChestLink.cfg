SPECIFICATION Spec
CONSTANTS
  Listes <- MCListes
  Page = 1
  Retries = 1
  ReqTimeout = 1
  Retry = 1
  Fenetre = 1
  Budgets <- MCBudgets
CHECK_DEADLOCK FALSE
INVARIANT CodeIsForCursor
PROPERTY LateCodeRefused
PROPERTY ConfirmWasPressed
PROPERTY RequestEnds
