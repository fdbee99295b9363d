CHECK_DEADLOCK FALSE
CONSTANT Sources <- OrgSources
SPECIFICATION ASpec
INVARIANT OrgGoesToItsExpression
