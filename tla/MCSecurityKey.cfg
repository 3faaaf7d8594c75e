SPECIFICATION Spec
CONSTANTS
    Slots <- MCSlots
    Essais = 2
    Attente = 2
    Reprises = 2
    Tour = 3
    Budgets <- MCBudgets
INVARIANT CountersSurvive
PROPERTIES
    UseIsAuthorised
    EventuallyAnswered
CHECK_DEADLOCK FALSE
