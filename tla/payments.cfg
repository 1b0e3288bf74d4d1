SPECIFICATION PMFairSpec
CONSTANTS
  Workers = {w1, w2}
  MaxAttempts = 3
  MaxDeaths = 1
INVARIANTS LedgersAgree InProgressHasTask ChargeInHand
PROPERTIES CompletedForGood CancelEnds
CHECK_DEADLOCK FALSE
