SPECIFICATION FairSpec
CONSTANT Commands <- MCCommands
INVARIANTS AmountsAccounted NoOrderUnattended
PROPERTIES ExecutionEnds
CHECK_DEADLOCK FALSE
