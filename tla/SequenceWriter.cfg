CONSTANTS
  ParamIds = {"a", "b", "c"}
  Shapes = {"demixing", "mix_gain"}
  Substreams = {0, 1}
  Trims = {"none", "start"}
  DescriptorSets <- MCDescriptorSets
  Units <- MCUnits
  Size <- MCSize
  SinkCapacities = {2, 8, 15}
  MaxOffset = 12
SPECIFICATION Spec
INVARIANTS
  TypeOK
  InWireOrder
  OnlySinkPoisons
  GovernedAsRead
  OffsetExact
PROPERTIES
  PoisonIsTerminal
  PushReturns
  RefinesUnitLog
