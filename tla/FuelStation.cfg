SPECIFICATION FuelSpec
CONSTANT MaxSpurious = 2
INVARIANTS FuelAccounted NoLostWakeup
PROPERTY Outcome
CHECK_DEADLOCK FALSE
