CONSTANTS
  Null = Null
  Bot = Bot
  d1 = d1
  u1 = u1
  q1 = q1
  q2 = q2
  Users <- OneUser
  LastPuzzle = 1
  NRounds = 1
  Slots <- PairSlots
  Answers <- PairAnswers
  Perms <- PairBoard
  Reqs <- OneReq
  MaxFaults = 1

SPECIFICATION FairSpec

PROPERTY AnsweredIsCompleted
