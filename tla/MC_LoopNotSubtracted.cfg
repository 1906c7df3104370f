SPECIFICATION Spec
CONSTANTS
  Ticks = {0, 9006}
  Batches = {0, 1, 4}
  Times = {1, 49}
  Raws <- MCRaws
  MaxEnds = 3
  None = None
INVARIANT
  LoopNotSubtracted
