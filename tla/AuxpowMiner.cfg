SPECIFICATION MinerSpec
CONSTANTS
  Script = {s1, s2}
  Tip = {t1, t2}
  RegenerateAfter = 1
  null = null
  MaxTime = 2
  MaxUpdates = 1
  MaxBlocks = 3
INVARIANTS PointersOwned AnswersSubmittable
PROPERTY AnswerExtendsTip
