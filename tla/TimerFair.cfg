CONSTANTS
  None = None
  Never = 4
  TimerNever = TimerNever
  Unlimited = Unlimited
  Limits <- OneOrAll
  Delays <- SoonOrNever
  Slices = {}
  ClockBack = TRUE
  MaxTimers = 2
  MaxClock = 1
SPECIFICATION FairSpec
INVARIANT ListIsSorted
PROPERTY DueTimerIsRun
