\* Two jobs on one id: a destructor detaches another job's thread.
CONSTANTS
  Job = {j1, j2}
  Tid = {t1}
  None = None
SPECIFICATION Spec
INVARIANTS
  JoinsYieldValues
CHECK_DEADLOCK FALSE
