SPECIFICATION Spec
CONSTANTS
  Bounds <- MCBounds
  NONE = NONE
INVARIANTS NoBlindOverwrite NothingLost SavedIsShown SaveIsScheduled
CHECK_DEADLOCK FALSE
