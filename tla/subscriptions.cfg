SPECIFICATION Spec
CONSTANTS
  s1 = s1
  s2 = s2
  Sid = {s1, s2}
  MaxPeriods = 2
  Interval = 2
  Lead = 1
  Grace = 1
  RetryLimit = 3
  Price = 3
  MinCharge = 2
  MaxDeposit = 3
INVARIANTS PassFollowsSubscription EarnedOncePaid WalletConserved OnlyUntriedRenewalsThrow PausedHasWayOn
PROPERTIES AccessKeptWhilePaid
CHECK_DEADLOCK FALSE
