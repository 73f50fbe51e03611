CONSTANTS
  b1 = b1
  b2 = b2
  Builders = {b1}
  Configs <- OneConfig
  Gains <- GrownGains
  Elements <- GrownElements
  Presentations <- GrownPresentations
  MaxDeclarations <- GrownDeclarations
  Admitted <- MCAdmitted
  OneByteIds = 3
  MaxObuSize = 4
  MaxReferences = 1
SPECIFICATION BuilderSpec
INVARIANTS
  FrozenWritable
