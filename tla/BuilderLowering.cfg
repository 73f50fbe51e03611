CONSTANTS
  b1 = b1
  b2 = b2
  Builders = {b1}
  Configs <- OneConfig
  Gains <- LoweredGains
  Elements <- LoweredElements
  Presentations <- LoweredPresentations
  MaxDeclarations <- LoweredDeclarations
  Admitted <- MCAdmitted
  OneByteIds = 8
  MaxObuSize = 4
  MaxReferences = 2
SPECIFICATION BuilderSpec
INVARIANTS
  HandlesKeepMeaning
  SharedAudioAgrees
  FrozenIsCoherent
