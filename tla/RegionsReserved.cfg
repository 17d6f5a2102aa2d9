SPECIFICATION RegionsSpec
CONSTANTS
  Space = 6
  Sizes = {3}
  MaxMaps = 2
PROPERTIES EverythingFound
