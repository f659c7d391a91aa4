SPECIFICATION Spec
INVARIANT IntersectsAll
CHECK_DEADLOCK FALSE
