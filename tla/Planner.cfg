SPECIFICATION PlanSpec
CONSTANTS
  Titles = {t1, t2}
  MaxTasks = 2
CHECK_DEADLOCK FALSE
INVARIANTS NextTaskFindsExecutable
