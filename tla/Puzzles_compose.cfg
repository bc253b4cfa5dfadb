SPECIFICATION Spec
CONSTANTS
  p1 = p1  p2 = p2
  b1 = b1  b2 = b2  d1 = d1  d2 = d2
  MaxPuzzles = 2
  LastDay = 2
  NumRounds = 2
  NumDecoys = 1
  Prompts <- MCPrompts
  Bots <- MCBots
  Decoys <- MCDecoys
  PromptOf <- MCPromptOf
  o1 = o1  o2 = o2
  Ops = {o1, o2}
  Readers = {r1}
  Verbs <- MCVerbs
  Plans <- MCPlans
  Swaps <- MCSwaps
  Files <- MCFiles
  Built <- OneBuilt
  MaxRuns = 2
  MaxPlays = 1
INVARIANTS TypeOK BundleCurrent AnswersFitPrompt RoundsInPosition 
PROPERTIES PlayedPuzzleFixed AloneTakesNothingOver
CHECK_DEADLOCK FALSE
