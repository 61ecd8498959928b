CONSTANTS
  None = None
  Never = 4
  TimerNever = TimerNever
  Unlimited = Unlimited
  Limits <- OneOrAll
  Delays <- NowOrNever
  Slices = {1}
  ClockBack = FALSE
  MaxTimers = 3
  MaxClock = 1
SPECIFICATION Spec
INVARIANTS ListIsSorted NoTimerIsLost OncePerTimeout
PROPERTY DueTimersWereRun
