SPECIFICATION Spec
CONSTANTS
  u1 = u1  p1 = p1  p2 = p2  b1 = b1  s1 = s1  s2 = s2
  Users = {u1}
  Prompts = {p1, p2}
  Bots = {b1}
  None = None
  Reqs = {}
  Clis = {}
  Slots = {s1, s2}
  Commands = {}
  Limit = 1
  Inbox <- OneRow
  Arrivals = {}
  Drafts = {}
  MaxRounds = 2
  NumDecoys = 1
SYMMETRY SlotSymmetry
INVARIANT MakesEachPromptOnce
CHECK_DEADLOCK FALSE
