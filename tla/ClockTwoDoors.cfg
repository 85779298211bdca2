CONSTANTS
  in1 = in1 in2 = in2 out1 = out1 brk1 = brk1 end1 = end1 NoShift = NoShift
  ClockIns = {in1}
  ClockOuts = {out1}
  BreakStarts = {}
  BreakEnds = {}
  Cap = 1
  Horizon = 2
  MaxShift = 2
  MaxOther = 1
  Unchecked = {}
  MaxTxn = 2
SPECIFICATION Spec
INVARIANT OneActivePunch
CHECK_DEADLOCK FALSE
