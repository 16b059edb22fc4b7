SPECIFICATION Spec
CONSTANTS
  Tag = {"a", "d"}
  Channel = {"c"}
  Lists <- MCLists
  Marks = {}
  Value = {0, 1, 2}
  Register <- MCRegister
  Absent = Absent
  Failed = Failed
  Deps <- MCDeps
  UsesRaw = {"a", "d"}
  Eval <- MCEval
  Deadband <- MCDeadband
  Retentive = {"a"}
  Capacity = 1
INVARIANTS
  RestoredIsUncertain
