CONSTANTS
  b1 = b1
  b2 = b2
  Builders = {b1, b2}
  Configs <- OneConfig
  Gains <- MixedGains
  Elements <- MixedElements
  Presentations <- MixedPresentations
  MaxDeclarations <- MixedDeclarations
  Admitted <- MCAdmitted
  OneByteIds = 8
  MaxObuSize = 4
  MaxReferences = 2
SPECIFICATION BuilderSpec
INVARIANTS
  HandlesNameOneBuilder
  OwnHandles
