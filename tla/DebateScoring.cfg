SPECIFICATION FairSpec
CONSTANTS
  h1 = h1
  s2 = s2
  s1 = s1
  i2 = i2
  i1 = i1
  d1 = d1
  Debates = {d1}
  Rounds = {i1, i2}
  Replicas = {s1, s2}
  Handlers = {h1}
  None = None
  Costs = {1}
  Cent = 3
  Amounts = {1}
  BatchSize = 1
  Faults = TRUE
INVARIANTS TypeOK ScoreOfAcceptedRound LedgerIsTotal RollupExact OneCallPerLease
PROPERTIES NewestScoreWins Healed
CHECK_DEADLOCK FALSE
