CONSTANTS
  MaxLeb = 4
  ValueLimit = 1048576
  MaxString = 4
  EntireObuSizeMax = 133
  WordLimit = 64
  Offsets = {1, 128}
  Scripts <- AliasScripts
  ForeignObus = {}
  Damageable = {}
  MadeConfigs = {}
  Streams = {}
  MaxNumParameters = 2
  Irregular = {}
  Sets = {}
SPECIFICATION Spec
CHECK_DEADLOCK FALSE
INVARIANT WrittenReadsBack
