SPECIFICATION Spec
SYMMETRY Symmetry
CONSTANTS
  Requests = {r1, r2}
  Boot = Boot
  Rules = {x1, x2}
  Bodies = {b1, b2}
  Active = {b1, b2}
  MaxPos = 2
  MaxCrashes = 2
  Partial = Partial
  Broken = Broken
  Null = Null
INVARIANTS TypeOK RulesInForce WholeUnlessShared SharingIsAnswered
