SPECIFICATION MonitorSpec
CONSTANTS
  Configs = {c1, c2, bad}
  Invalid = {bad}
  Idle = Idle
  MaxSets = 5
INVARIANT PostAssertion
