SPECIFICATION Spec
CONSTANTS
  p1 = p1  p2 = p2
  b1 = b1  b2 = b2  d1 = d1  d2 = d2
  MaxPuzzles = 2
  LastDay = 2
  NumRounds = 2
  NumDecoys = 1
  Prompts <- MCPrompts
  Bots <- MCBots
  Decoys <- MCDecoys
  PromptOf <- MCPromptOf
  o1 = o1  o2 = o2
  Ops = {o1}
  Readers = {r1}
  Verbs <- GapVerbs
  Plans <- MCPlans
  Swaps <- MCSwaps
  Files <- MCFiles
  Built <- NoneBuilt
  MaxRuns = 3
  MaxPlays = 1
INVARIANT ServedOnItsDay
CHECK_DEADLOCK FALSE
