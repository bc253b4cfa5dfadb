SPECIFICATION PoolSpec
CONSTANTS
  u1 = u1  u2 = u2  p1 = p1  b1 = b1  q1 = q1  q2 = q2  c1 = c1  c2 = c2
  Users = {u1, u2}
  Prompts = {p1}
  Bots = {b1}
  None = None
  Reqs = {q1, q2}
  Clis = {c1, c2}
  Slots = {}
  Commands <- MCCommands
  Limit = 1
  Inbox <- OneRow
  Arrivals <- OtherRow
  Drafts = {b1}
  MaxRounds = 1
INVARIANTS PoolTypeOK ReviewedOnce SubmissionsAnswered DeletedPromptUnused
PROPERTIES ImplementsModeration
SYMMETRY ClientSymmetry
CHECK_DEADLOCK FALSE
