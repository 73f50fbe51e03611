CONSTANTS
  Samples <- MCSamples
  Irregular <- MCIrregular
  MaxSubtags = 5
SPECIFICATION TagSpec
CHECK_DEADLOCK FALSE
INVARIANT GreedyIsGrammar
