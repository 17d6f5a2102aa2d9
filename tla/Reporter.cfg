CONSTANTS
  Room = 2
  Lossy = TRUE
  MaxHandOvers = 1
  Colliders = {"c", "d", "e"}
  ColliderSlots = 2
  Scols = {"s", "t"}
  Values = {"v", "w"}
  ScolSlots = 1
  Hitboxes = {"a", "b", "z"}
  Worlds = {0, 1}
  WorldOf <- MCWorldOf
  Slots = 2
SPECIFICATION ReporterSpec
INVARIANTS TablesSound NothingMissing PictureExact ReferencesExact HitboxesSound
PROPERTY DumpArrives
