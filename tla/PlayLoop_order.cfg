CONSTANTS
  Null = Null
  Bot = Bot
  d1 = d1
  u1 = u1
  q1 = q1
  q2 = q2
  Users <- OneUser
  LastPuzzle = 1
  NRounds = 2
  Slots <- PairSlots
  Answers <- PairAnswers
  Perms <- PairBoards
  Reqs <- TwoReqs
  MaxFaults = 1

SPECIFICATION Spec

INVARIANT TypeOK
INVARIANT PlayedInOrder
INVARIANT ScoreIsOfTheAnswers
INVARIANT LocalsStayTrue
INVARIANT TokensMatchRows
INVARIANT VoteAfterReveal
INVARIANT LabelsFitTheRow
INVARIANT EachPlayCountedOnce
PROPERTY NothingRewritten
PROPERTY ImplementsDailyPlay
SYMMETRY RequestSymmetry
