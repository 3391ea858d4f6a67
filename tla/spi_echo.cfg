SPECIFICATION ToolsSpec
CONSTANTS
  FRAME_BITS = 3
  ENOUGH = 3
  GAP = 2
  MaxNoise = 2
  FRAMES <- MCFrames
  RANDOM <- MCRandom
  CLOCKS <- MCClocks
INVARIANTS
  PassNamesTheWiring
  QuietLinkPasses
PROPERTIES
  CleanMeansTaken
  ImplementsBus
