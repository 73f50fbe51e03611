CONSTANTS
  MaxLeb = 4
  ValueLimit = 1048576
  MaxString = 4
  EntireObuSizeMax = 133
  WordLimit = 64
  Offsets = {1, 128}
  Scripts <- MCScripts
  ForeignObus <- MCForeign
  Damageable <- MCDamageable
  MadeConfigs <- MCMade
  Streams <- MCStreams
  MaxNumParameters = 2
  Irregular = {}
  Sets <- MCSets
SPECIFICATION Spec
CHECK_DEADLOCK FALSE
INVARIANT WrittenReadsBack
INVARIANT CutIsReported
INVARIANT FramesOnWalk
INVARIANT OwnBytesOnly
INVARIANT RewritesAsRead
INVARIANT MadeConfigsAreClean
INVARIANT SamplesSurvive
INVARIANT FindingsAgree
