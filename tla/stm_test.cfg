SPECIFICATION GroupSpec
CONSTANTS
  Threads = {t1, t2}
  Fields = {x, y}
  Values = {0, 1}
  ItemSizes = {0, 1, 3, 4}
  ItemWord = 4
  PointerNames = {"a", "b", "c"}
  PointedObjects = {1, 2}
  VectorNames = {"p", "q"}
  Elements = {"5"}
  MaxElements = 2
  RingPlaces = 3
  MaxPushed = 5
  CacheKeys = {"", "k", "l", "m"}
  CacheValues = {"u", "v"}
  CachePlaces = 2
  MaxUsed = 3
  ErrorPlaces = 2
  ErrorTexts = {"a", "b"}
  MaxErrors = 3
  ErrorConditions <- TwoEach
  MachineStates = 3
  MachineEvents = {"go", "back"}
  Transitions <- Round
SYMMETRY Symmetry
INVARIANT NeverInconsistent
INVARIANT TouchedIsWatched
INVARIANT StorageHasOneOwner
INVARIANT StructuresAreWhole
