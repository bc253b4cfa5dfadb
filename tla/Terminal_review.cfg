SPECIFICATION FairSpec
CONSTANTS
  u1 = u1  p1 = p1  p2 = p2  b1 = b1  s1 = s1  s2 = s2
  Users = {u1}
  Prompts = {p1, p2}
  Bots = {b1}
  None = None
  Reqs = {}
  Clis = {}
  Slots = {s1, s2}
  Commands = {}
  Limit = 1
  Inbox <- OneRow
  Arrivals <- OtherRow
  Drafts = {}
  MaxRounds = 1
  NumDecoys = 1
INVARIANTS TypeOK ShownDecisionsAreStored LinesFitTheirPrompt
PROPERTIES GeneratingEnds ImplementsModeration
CHECK_DEADLOCK FALSE
