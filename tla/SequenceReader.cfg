CONSTANTS
  Inputs <- MCInputs
  ParamIds = {7}
  Shapes = {"demixing", "mix_gain"}
SPECIFICATION ReaderSpec
INVARIANTS
  RewritesPrefix
  GovernedByFirst
  RangesAreUnits
  DanglingAreUndefinedBefore
PROPERTIES
  FusedAfterError
