\* Every text of six symbols, in every cut.
SPECIFICATION Spec
CONSTANT MaxLength = 6
CHECK_DEADLOCK FALSE
INVARIANT EventsPrompt
INVARIANT EveryEventOnce
