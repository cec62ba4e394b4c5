SPECIFICATION Spec
INVARIANTS Owned InOrder ToldOnce
PROPERTY NetPromises
CHECK_DEADLOCK FALSE
