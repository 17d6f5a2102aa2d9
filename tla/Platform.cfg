SPECIFICATION PlatformSpec
CONSTANTS
  Threads = {t1, t2, t3}
  None = None
  MaxDepth = 2
  Installers = {i1, i2, i3}
  PoolSize = 14
  TrampolineSize = 3
  MaxHooks = 7
  Space = 6
  Sizes = {3}
  MaxMaps = 2
INVARIANTS MutualExclusion SlotsDistinct
PROPERTIES AskersEnter CopiesAllowed MappedIsFound
