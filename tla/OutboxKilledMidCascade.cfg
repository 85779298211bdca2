SPECIFICATION Spec
CONSTANTS
  sig = sig  in1 = in1  out1 = out1  in2 = in2  break1 = break1  photo = photo
  tab1 = tab1  tab2 = tab2  ana = ana  ben = ben  NoId = NoId  NoOne = NoOne
  Ids = {in1, out1}
  Tabs = {tab1}
  People = {ana}
  Op <- MCOp
  Owner <- AnaOwns
  ShiftRef <- OutBehindIn
  Signature <- NoRef
  StableIds = {}
  MAX_ATTEMPTS = 2
  BACKOFF_BASE = 1
  BACKOFF_CAP = 1
  MAX_DRAIN_PASSES = 2
  Horizon = 0
  MaxEvents = 1
INVARIANT NoneQueuedBehindADeadLetter
