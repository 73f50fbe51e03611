CONSTANTS
  Inputs = {}
  ParamIds = {"a", "b", "c"}
  Shapes = {"demixing", "mix_gain"}
  Substreams = {0, 1}
  Trims = {"none"}
  DescriptorSets <- MCDescriptorSets
  Units <- MCReadableUnits
  Size <- MCReadableSize
  SinkCapacities = {1, 9}
  MaxOffset = 9
SPECIFICATION RoundTripSpec
INVARIANTS
  ReadsBackModel
  DeliveredRoundTrips
  UnitsFoundAgain
