SPECIFICATION FairSpec
CONSTANTS
  Bundles = {b1, b2}
  Strays = {s1}
  MaxDamage = 2
  MaxKills = 1
INVARIANTS PlayNeedsMounted VouchedIsGood VerdictIsTrue
PROPERTIES JoinReturns LatchClearedOnEvidence
