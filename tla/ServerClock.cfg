CONSTANTS
  in1 = in1 in2 = in2 out1 = out1 brk1 = brk1 end1 = end1 NoShift = NoShift
  ClockIns = {in1}
  ClockOuts = {out1}
  BreakStarts = {brk1}
  BreakEnds = {end1}
  Cap = 1
  Horizon = 2
  MaxShift = 2
  MaxOther = 2
  Unchecked = {out1}
  MaxTxn = 2
SPECIFICATION Spec
INVARIANTS TypeOK NoHourPaidTwice PunchesFit
PROPERTY ApprovedTimeStands
CHECK_DEADLOCK FALSE
