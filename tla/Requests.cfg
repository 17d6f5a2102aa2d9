SPECIFICATION RequestsSpec
CONSTANTS
  Flags = {"backpressure", "send_all_colls", "pause", "send_coll_stuff"}
  Asks <- Changes
  MaxRequests = 3
  Configs = {c1, c2, bad}
  Invalid = {bad}
  Idle = Idle
  MaxSets = 5
  Keys = {0, 1, 2, 4}
  Values = {"v", "w"}
  Slots = 2
  Capacity = 3
  MaxInserts = 4
INVARIANTS PausedGameStands BackpressureFollowsFlag FlagsAsAsked OnlyHastePanics ConfigStable IInv
PROPERTIES NewestRead FlagsServed ImplementsMap LookupEnds
