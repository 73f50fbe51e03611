CONSTANTS
  Elements <- MCElements
  Presentations <- MCPresentations
  MaxDescriptors = 5
  SimpleElements = 1
  BaseElements = 2
  EnhancedElements = 3
  SimpleChannels = 2
  BaseChannels = 3
  EnhancedChannels = 4
SPECIFICATION ProfileSpec
INVARIANTS
  SelectsLeast
  SelectedValidates
  CleanHeaderPlays
  GrowthNeverLowers
