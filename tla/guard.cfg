CONSTANTS
  r1 = r1
  r2 = r2
  r3 = r3
  r4 = r4
  Free = Free
  Reqs <- MCReqs
  Key <- MCKey
  Shards = 2
  Bits = 8
  WordBits = 4
  Modes = {"none", "mutex", "spin", "atomic"}
  Captures = 2
SPECIFICATION FairSpec
INVARIANTS InsideAlone MarksMatchHolders
PROPERTIES ImplementsGate MarksGoAway
