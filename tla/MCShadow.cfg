CHECK_DEADLOCK FALSE
CONSTANT Sources <- ShadowSources
SPECIFICATION ASpec
INVARIANT NoDuplicateInAScope
