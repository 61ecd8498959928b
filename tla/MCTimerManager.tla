----------------------------- MODULE MCTimerManager -----------------------------
(* Model values and bounds for checking TimerManager with TLC. *)
EXTENDS TimerManager

(* Both modes of Timeout: one handler per call, and no limit. *)
OneOrAll == {1, Unlimited}
(* At once, never. *)
NowOrNever == {0, TimerNever}
(* At once, in a second, never. *)
SoonOrNever == {0, 1, TimerNever}
=============================================================================
