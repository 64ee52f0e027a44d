SPECIFICATION PlanSpec
CONSTANT MaxKeys = 23
INVARIANT DeletionsWork
CHECK_DEADLOCK FALSE
