SPECIFICATION Spec
CONSTANT MaxVisits = 3
INVARIANTS ConfigBeforeUse LoginHasUrl CallbackOnce
PROPERTY CallbackHandled
CHECK_DEADLOCK FALSE
