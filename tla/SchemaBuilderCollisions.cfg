SPECIFICATION BuilderSpec
CONSTANT Programs <- MCPrograms
INVARIANT CollisionsAreRefused
CHECK_DEADLOCK FALSE
