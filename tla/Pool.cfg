SPECIFICATION Spec
CONSTANTS
  None = None
  Threads = {t1, t2}
  Conns = {c1, c2, c3, c4}
  Uses = {"transaction", "raw", "refresh"}
  PoolMin = 1
  PoolMax = 2
  MaxBreaks = 2
  MaxCloses = 1
SYMMETRY Symmetry
INVARIANTS TypeOK ExclusiveLoan PredictableSession ErrorMeansUndone
PROPERTIES NoSlotLost
