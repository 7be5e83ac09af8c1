CONSTANTS
  MaxHistory = 5
  KeepOnCompact = 3
  Texts = {x, y}
  MaxContent = 1
  Ellipsis = Ellipsis
SPECIFICATION Spec

INVARIANTS
  NormalizeMergesBlocks
  CompactKeepsLatest
