SPECIFICATION Spec
CONSTANTS
  alice = alice  phone = phone  laptop = laptop
  q1 = q1  q2 = q2  goose = goose
  MaxUsers = 2
  Emails = {alice}
  Devices = {phone, laptop}
  Reqs = {q1}
  VerbsOf <- OnlyMerges
  Handles = {goose}
  Today = 2
  PastDays = 1
  MaxLinks = 1
  MaxCalls = 3
  MaxFaults = 0
INVARIANT SignedInAtOnce
SYMMETRY Browsers
CHECK_DEADLOCK FALSE
