SPECIFICATION FairInjectSpec
CONSTANTS
  MaxCmd = 7
  Cmd = {1,2,3,4,5,6,7}
  NoCmd = 0
  SIZE = 3
INVARIANTS AppliedInOrder CompleteUnlessFull
PROPERTY DrainReturns
