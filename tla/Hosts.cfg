CONSTANTS
  p1 = p1
  p2 = p2
  Proc = {p1, p2}
  Doc = {"doc"}
  NoDoc = "no doc"
  Torn = "torn"
  Flag = {"DRY_RUN", "FAIL_ON_ERROR"}
  Worlds <- MixedWorlds
SPECIFICATION Spec
INVARIANTS IInv InvocationIsItsOwn TelemetryKept CheckTellsTruth DiagnosisHolds
PROPERTY ImplementsRegister
SYMMETRY Alike
