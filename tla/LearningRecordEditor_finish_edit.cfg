SPECIFICATION FairSpec
CONSTANTS
  None = None
  Ids = {r1}
  Contents = {0, 1}
  Blank = 0
  Complete = {1}
  MaxStrays = 1
  MaxQueue = 2
PROPERTY FinishKeepsLastEdit
