CONSTANTS
  ParamIds = {0, 1}
  Shapes = {"mix_gain"}
  Substreams = {0, 1}
  Trims <- MCTrims
  DescriptorSets <- MCDescriptorSets
  Units <- MCUnits
  Encoders <- MCEncoders
  Inputs <- MCInputs
  Size <- MCSize
  SinkCapacities = {5, 12}
  MaxOffset = 10
SPECIFICATION EncSpec
INVARIANTS
  ProgressTracksUnits
  StartTrimsLead
  EndTrimIsLast
  OpusPreSkip
  SameParameters
  TrimsOnWire
