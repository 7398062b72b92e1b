CONSTANTS
  Components = {1, 2, 3}
  Lists = {1, 2, 3}
  MaxItems = 2
  MaxHeldLists = 1
  Renamed = {3}
  MAX_TREE_DEPTH = 2
SPECIFICATION Spec
INVARIANTS
  StackBounded
  OnlyCyclesLeak
  WalksAgree
PROPERTIES
  ObservedUntouched
  DeallocEnds
CHECK_DEADLOCK FALSE

