CONSTANTS
  SeqMod = 4
  Window = 3
  MaxEpoch = 2
  Injected = {0, 3, 5}
  kMaxWarningAlerts = 1

SPECIFICATION RecordSpec
INVARIANTS NoReplay OnlyReplaysDiscarded NumbersNotReused
CHECK_DEADLOCK FALSE
