SPECIFICATION Spec
CONSTANTS
  NumFreqs = 2
  NoFile = NoFile
  SavesFail = FALSE
  MaxScans = 1
  MaxDepth = 2
INVARIANT NothingPlaysDuringScan
