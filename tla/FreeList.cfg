SPECIFICATION Spec
CONSTANT Memory = 10
INVARIANT CycleSorts
CHECK_DEADLOCK FALSE
