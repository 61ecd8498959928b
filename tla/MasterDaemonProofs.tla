------------------------- MODULE MasterDaemonProofs -------------------------
(***************************************************************************)
(* For any set of daemons, controllers and back-off parameters, and any    *)
(* sequence of commands, timers, failing starts and exits: the master      *)
(* starts no daemon twice, its delays stay in bounds, every stop in        *)
(* progress is armed, and a daemon without controller or controllee that   *)
(* should run is running or about to be.                                   *)
(***************************************************************************)
EXTENDS MasterDaemon, WellFoundedInduction, TLAPS

-----------------------------------------------------------------------------
(* The invariant, for the record of one daemon. *)

Waiting(r) == r.start_tid # None => ~r.pid

Bounded(r) == r.start_tid \in {None, new_bin_delay} \cup 1 .. m_backoff_ceiling

(* A daemon that is not running is not being stopped. *)
Quiet(r) == ~r.pid => r.stop_state = "NONE" /\ r.stop_fast_tid = None /\ r.hard_kill_tid = None

Sound(r) == r \in Daemon /\ Bounded(r) /\ Waiting(r) /\ Quiet(r)

ArmedGraceful(d, r) ==
  r.stop_state = "GRACEFUL" =>
    \/ r.stop_fast_tid = "live" \/ r.hard_kill_tid = "live"
    \/ r.strayKill > 0
    \/ controller[d] # None

ArmedFast(r) == r.stop_state = "FAST" => r.hard_kill_tid = "live" \/ r.strayKill > 0

ArmedKill(r) == r.stop_state = "KILL" => r.killed

Good(d, r) == Sound(r) /\ ArmedGraceful(d, r) /\ ArmedFast(r) /\ ArmedKill(r)

-----------------------------------------------------------------------------
(* Assignments to the members of a daemon. *)

(* q and r differ at most in the members of but. *)
Agree(q, r, but) ==
  /\ "pid" \in but \/ q.pid = r.pid
  /\ "on_hold" \in but \/ q.on_hold = r.on_hold
  /\ "restarts" \in but \/ q.restarts = r.restarts
  /\ "newExec" \in but \/ q.newExec = r.newExec
  /\ "stop_state" \in but \/ q.stop_state = r.stop_state
  /\ "start_tid" \in but \/ q.start_tid = r.start_tid
  /\ "recover_tid" \in but \/ q.recover_tid = r.recover_tid
  /\ "stop_fast_tid" \in but \/ q.stop_fast_tid = r.stop_fast_tid
  /\ "hard_kill_tid" \in but \/ q.hard_kill_tid = r.hard_kill_tid
  /\ "strayFast" \in but \/ q.strayFast = r.strayFast
  /\ "strayKill" \in but \/ q.strayKill = r.strayKill
  /\ "killed" \in but \/ q.killed = r.killed

(* An assignment to one member leaves the others alone. *)
LEMMA OneMember ==
  ASSUME NEW r \in Daemon
  PROVE  /\ \A v \in BOOLEAN : LET q == [r EXCEPT !.pid = v]
              IN  q \in Daemon /\ q.pid = v /\ Agree(q, r, {"pid"})
         /\ \A v \in BOOLEAN : LET q == [r EXCEPT !.on_hold = v]
              IN  q \in Daemon /\ q.on_hold = v /\ Agree(q, r, {"on_hold"})
         /\ \A v \in 0 .. RestartsCap : LET q == [r EXCEPT !.restarts = v]
              IN  q \in Daemon /\ q.restarts = v /\ Agree(q, r, {"restarts"})
         /\ \A v \in BOOLEAN : LET q == [r EXCEPT !.newExec = v]
              IN  q \in Daemon /\ q.newExec = v /\ Agree(q, r, {"newExec"})
         /\ \A v \in StopStates : LET q == [r EXCEPT !.stop_state = v]
              IN  q \in Daemon /\ q.stop_state = v /\ Agree(q, r, {"stop_state"})
         /\ \A v \in {None} \cup 1 .. IntMax : LET q == [r EXCEPT !.start_tid = v]
              IN  q \in Daemon /\ q.start_tid = v /\ Agree(q, r, {"start_tid"})
         /\ \A v \in BOOLEAN : LET q == [r EXCEPT !.recover_tid = v]
              IN  q \in Daemon /\ q.recover_tid = v /\ Agree(q, r, {"recover_tid"})
         /\ \A v \in Tids : LET q == [r EXCEPT !.stop_fast_tid = v]
              IN  q \in Daemon /\ q.stop_fast_tid = v /\ Agree(q, r, {"stop_fast_tid"})
         /\ \A v \in Tids : LET q == [r EXCEPT !.hard_kill_tid = v]
              IN  q \in Daemon /\ q.hard_kill_tid = v /\ Agree(q, r, {"hard_kill_tid"})
         /\ \A v \in Nat : LET q == [r EXCEPT !.strayFast = v]
              IN  q \in Daemon /\ q.strayFast = v /\ Agree(q, r, {"strayFast"})
         /\ \A v \in Nat : LET q == [r EXCEPT !.strayKill = v]
              IN  q \in Daemon /\ q.strayKill = v /\ Agree(q, r, {"strayKill"})
         /\ \A v \in BOOLEAN : LET q == [r EXCEPT !.killed = v]
              IN  q \in Daemon /\ q.killed = v /\ Agree(q, r, {"killed"})
<1>1. ASSUME NEW v \in BOOLEAN
     PROVE  LET q == [r EXCEPT !.pid = v] IN q \in Daemon /\ q.pid = v /\ Agree(q, r, {"pid"})
  BY Zenon DEF Daemon, Agree
<1>2. ASSUME NEW v \in BOOLEAN
     PROVE  LET q == [r EXCEPT !.on_hold = v] IN q \in Daemon /\ q.on_hold = v /\ Agree(q, r, {"on_hold"})
  BY Zenon DEF Daemon, Agree
<1>3. ASSUME NEW v \in 0 .. RestartsCap
     PROVE  LET q == [r EXCEPT !.restarts = v] IN q \in Daemon /\ q.restarts = v /\ Agree(q, r, {"restarts"})
  BY Zenon DEF Daemon, Agree
<1>4. ASSUME NEW v \in BOOLEAN
     PROVE  LET q == [r EXCEPT !.newExec = v] IN q \in Daemon /\ q.newExec = v /\ Agree(q, r, {"newExec"})
  BY Zenon DEF Daemon, Agree
<1>5. ASSUME NEW v \in StopStates
     PROVE  LET q == [r EXCEPT !.stop_state = v] IN q \in Daemon /\ q.stop_state = v /\ Agree(q, r, {"stop_state"})
  BY Zenon DEF Daemon, Agree
<1>6. ASSUME NEW v \in {None} \cup 1 .. IntMax
     PROVE  LET q == [r EXCEPT !.start_tid = v] IN q \in Daemon /\ q.start_tid = v /\ Agree(q, r, {"start_tid"})
  BY Zenon DEF Daemon, Agree
<1>7. ASSUME NEW v \in BOOLEAN
     PROVE  LET q == [r EXCEPT !.recover_tid = v] IN q \in Daemon /\ q.recover_tid = v /\ Agree(q, r, {"recover_tid"})
  BY Zenon DEF Daemon, Agree
<1>8. ASSUME NEW v \in Tids
     PROVE  LET q == [r EXCEPT !.stop_fast_tid = v] IN q \in Daemon /\ q.stop_fast_tid = v /\ Agree(q, r, {"stop_fast_tid"})
  BY Zenon DEF Daemon, Agree
<1>9. ASSUME NEW v \in Tids
     PROVE  LET q == [r EXCEPT !.hard_kill_tid = v] IN q \in Daemon /\ q.hard_kill_tid = v /\ Agree(q, r, {"hard_kill_tid"})
  BY Zenon DEF Daemon, Agree
<1>10. ASSUME NEW v \in Nat
     PROVE  LET q == [r EXCEPT !.strayFast = v] IN q \in Daemon /\ q.strayFast = v /\ Agree(q, r, {"strayFast"})
  BY Zenon DEF Daemon, Agree
<1>11. ASSUME NEW v \in Nat
     PROVE  LET q == [r EXCEPT !.strayKill = v] IN q \in Daemon /\ q.strayKill = v /\ Agree(q, r, {"strayKill"})
  BY Zenon DEF Daemon, Agree
<1>12. ASSUME NEW v \in BOOLEAN
     PROVE  LET q == [r EXCEPT !.killed = v] IN q \in Daemon /\ q.killed = v /\ Agree(q, r, {"killed"})
  BY Zenon DEF Daemon, Agree
<1> QED
  BY <1>1, <1>2, <1>3, <1>4, <1>5, <1>6, <1>7, <1>8, <1>9, <1>10, <1>11, <1>12, Zenon

(* What Stop, StopPeaceful, StopFast and HardKill assign to. *)
StopMembers ==
  {"start_tid", "stop_state", "strayFast", "stop_fast_tid", "strayKill", "hard_kill_tid", "killed"}

(* Without its timer to start it a daemon is as good as before. *)
LEMMA NoStartGood ==
  ASSUME NEW r \in Daemon
  PROVE  /\ NoStart(r) \in Daemon /\ NoStart(r).start_tid = None
         /\ Agree(NoStart(r), r, {"start_tid"})
         /\ Agree(NoStart(r), r, StopMembers)
         /\ Sound(r) => Sound(NoStart(r))
         /\ \A d \in Names : Good(d, r) => Good(d, NoStart(r))
<1>1. NoStart(r) \in Daemon /\ NoStart(r).start_tid = None /\ Agree(NoStart(r), r, {"start_tid"})
  BY OneMember, Zenon DEF NoStart
<1> DEFINE q == NoStart(r)
<1> HIDE DEF q
<1>2. q \in Daemon /\ q.start_tid = None /\ Agree(q, r, {"start_tid"})
  BY <1>1, Zenon DEF q
<1>3. Agree(q, r, StopMembers)
  BY <1>2, Zenon DEF Agree, StopMembers
<1>4. Sound(r) => Sound(q)
  BY <1>2, Zenon DEF Agree, Sound, Bounded, Waiting, Quiet
<1>5. \A d \in Names : Good(d, r) => Good(d, q)
  BY <1>2, <1>4, Zenon DEF Agree, Good, ArmedGraceful, ArmedFast, ArmedKill
<1> QED
  BY <1>2, <1>3, <1>4, <1>5, Zenon DEF q

(* Timers that are forgotten are counted. *)
LEMMA StrayCounts ==
  ASSUME NEW r \in Daemon
  PROVE  /\ r.strayFast + Stray(r.stop_fast_tid) \in Nat
         /\ r.strayKill + Stray(r.hard_kill_tid) \in Nat
BY DEF Daemon, Stray

(* Stop: SIGTERM, and the timer of SIGQUIT. *)
LEMMA GracefulGood ==
  ASSUME NEW d \in Names, NEW r, Good(d, r)
  PROVE  Good(d, Graceful(r)) /\ Agree(Graceful(r), r, StopMembers)
<1> DEFINE told == Stopped(r, {"GRACEFUL", "PEACEFUL"})
           r1 == NoStart(r)
           r2 == [r1 EXCEPT !.stop_state = "GRACEFUL"]
           r3 == [r2 EXCEPT !.strayFast = r.strayFast + Stray(r.stop_fast_tid)]
           r4 == [r3 EXCEPT !.stop_fast_tid = "live"]
<1>1. Graceful(r) = IF told THEN r1 ELSE r4
  BY Zenon DEF Graceful
<1>2. r \in Daemon
  BY Zenon DEF Good, Sound
<1>3. /\ r1 \in Daemon /\ r1.start_tid = None /\ Agree(r1, r, {"start_tid"})
      /\ Agree(r1, r, StopMembers) /\ Good(d, r1)
  BY <1>2, NoStartGood, Zenon
<1>4. ~told => r.pid
  BY Zenon DEF Stopped
<1> HIDE DEF r1, told
<1>5. r2 \in Daemon /\ r2.stop_state = "GRACEFUL" /\ Agree(r2, r1, {"stop_state"})
  BY <1>3, OneMember, Zenon DEF StopStates
<1> HIDE DEF r2
<1>6. r3 \in Daemon /\ Agree(r3, r2, {"strayFast"})
  BY <1>2, <1>5, StrayCounts, OneMember, Zenon
<1> HIDE DEF r3
<1>7. r4 \in Daemon /\ r4.stop_fast_tid = "live" /\ Agree(r4, r3, {"stop_fast_tid"})
  BY <1>6, OneMember, Zenon DEF Tids
<1> HIDE DEF r4
<1>8. /\ Agree(r4, r, StopMembers)
      /\ r4.stop_state = "GRACEFUL" /\ r4.start_tid = None /\ r4.pid = r.pid
  BY <1>3, <1>5, <1>6, <1>7 DEF Agree, StopMembers
<1>9. ~told => Good(d, r4)
  BY <1>4, <1>7, <1>8, Zenon DEF Good, Sound, Bounded, Waiting, Quiet, ArmedGraceful, ArmedFast, ArmedKill
<1> QED
  BY <1>1, <1>3, <1>8, <1>9, Zenon

(* StopPeaceful: SIGTERM alone. *)
LEMMA PeacefulGood ==
  ASSUME NEW d \in Names, NEW r, Good(d, r)
  PROVE  Good(d, Peaceful(r)) /\ Agree(Peaceful(r), r, StopMembers)
<1> DEFINE told == Stopped(r, {"GRACEFUL", "PEACEFUL"})
           r1 == NoStart(r)
           r2 == [r1 EXCEPT !.stop_state = "PEACEFUL"]
<1>1. Peaceful(r) = IF told THEN r1 ELSE r2
  BY Zenon DEF Peaceful
<1>2. r \in Daemon
  BY Zenon DEF Good, Sound
<1>3. /\ r1 \in Daemon /\ r1.start_tid = None /\ Agree(r1, r, {"start_tid"})
      /\ Agree(r1, r, StopMembers) /\ Good(d, r1)
  BY <1>2, NoStartGood, Zenon
<1>4. ~told => r.pid
  BY Zenon DEF Stopped
<1> HIDE DEF r1, told
<1>5. r2 \in Daemon /\ r2.stop_state = "PEACEFUL" /\ Agree(r2, r1, {"stop_state"})
  BY <1>3, OneMember, Zenon DEF StopStates
<1> HIDE DEF r2
<1>6. Agree(r2, r, StopMembers) /\ r2.start_tid = None /\ r2.pid = r.pid
  BY <1>3, <1>5, Zenon DEF Agree, StopMembers
<1>7. ~told => Good(d, r2)
  BY <1>4, <1>5, <1>6, Zenon DEF Good, Sound, Bounded, Waiting, Quiet, ArmedGraceful, ArmedFast, ArmedKill
<1> QED
  BY <1>1, <1>3, <1>6, <1>7, Zenon

(* StopFast: SIGQUIT, and the timer of SIGKILL.  The timer of StopFast itself may
   have gone off before. *)
LEMMA FastGood ==
  ASSUME NEW d \in Names, NEW r, Sound(r), ArmedFast(r)
  PROVE  Good(d, Fast(r)) /\ Agree(Fast(r), r, StopMembers)
<1> DEFINE told == Stopped(r, {"FAST"})
           r1 == NoStart(r)
           r2 == [r1 EXCEPT !.stop_state = "FAST"]
           r3 == [r2 EXCEPT !.strayFast = r.strayFast + Stray(r.stop_fast_tid)]
           r4 == [r3 EXCEPT !.stop_fast_tid = None]
           r5 == [r4 EXCEPT !.strayKill = r.strayKill + Stray(r.hard_kill_tid)]
           r6 == [r5 EXCEPT !.hard_kill_tid = "live"]
<1>1. Fast(r) = IF told THEN r1 ELSE r6
  BY Zenon DEF Fast
<1>2. r \in Daemon
  BY Zenon DEF Sound
<1>3. /\ r1 \in Daemon /\ r1.start_tid = None /\ Agree(r1, r, {"start_tid"})
      /\ Agree(r1, r, StopMembers) /\ Sound(r1)
  BY <1>2, NoStartGood, Zenon
<1>4. /\ ~told => r.pid
      /\ told => ~r.pid \/ r.stop_state = "FAST"
  BY Zenon DEF Stopped
<1> HIDE DEF r1, told
<1>5. r2 \in Daemon /\ r2.stop_state = "FAST" /\ Agree(r2, r1, {"stop_state"})
  BY <1>3, OneMember, Zenon DEF StopStates
<1> HIDE DEF r2
<1>6. r3 \in Daemon /\ Agree(r3, r2, {"strayFast"})
  BY <1>2, <1>5, StrayCounts, OneMember, Zenon
<1> HIDE DEF r3
<1>7. r4 \in Daemon /\ r4.stop_fast_tid = None /\ Agree(r4, r3, {"stop_fast_tid"})
  BY <1>6, OneMember, Zenon DEF Tids
<1> HIDE DEF r4
<1>8. r5 \in Daemon /\ Agree(r5, r4, {"strayKill"})
  BY <1>2, <1>7, StrayCounts, OneMember, Zenon
<1> HIDE DEF r5
<1>9. r6 \in Daemon /\ r6.hard_kill_tid = "live" /\ Agree(r6, r5, {"hard_kill_tid"})
  BY <1>8, OneMember, Zenon DEF Tids
<1> HIDE DEF r6
<1>10. /\ Agree(r6, r, StopMembers)
       /\ r6.stop_state = "FAST" /\ r6.start_tid = None /\ r6.pid = r.pid
  BY <1>3, <1>5, <1>6, <1>7, <1>8, <1>9 DEF Agree, StopMembers
<1>11. ~told => Good(d, r6)
  BY <1>4, <1>9, <1>10, Zenon DEF Good, Sound, Bounded, Waiting, Quiet, ArmedGraceful, ArmedFast, ArmedKill
<1>12. told => Good(d, r1)
  BY <1>3, <1>4, Zenon DEF Good, Sound, Quiet, Agree, ArmedGraceful, ArmedFast, ArmedKill
<1> QED
  BY <1>1, <1>3, <1>10, <1>11, <1>12, Zenon

(* HardKill: SIGKILL, whose timer has gone off. *)
LEMMA KilledGood ==
  ASSUME NEW d \in Names, NEW r, Sound(r), ArmedKill(r)
  PROVE  Good(d, Killed(r)) /\ Agree(Killed(r), r, StopMembers) /\ Killed(r).start_tid = r.start_tid
<1> DEFINE told == Stopped(r, {"KILL"})
           r1 == [r EXCEPT !.stop_state = "KILL"]
           r2 == [r1 EXCEPT !.strayKill = r.strayKill + Stray(r.hard_kill_tid)]
           r3 == [r2 EXCEPT !.hard_kill_tid = None]
           r4 == [r3 EXCEPT !.killed = TRUE]
<1>1. Killed(r) = IF told THEN r ELSE r4
  BY Zenon DEF Killed
<1>2. r \in Daemon
  BY Zenon DEF Sound
<1>3. /\ ~told => r.pid
      /\ told => ~r.pid \/ r.stop_state = "KILL"
  BY Zenon DEF Stopped
<1> HIDE DEF told
<1>4. r1 \in Daemon /\ r1.stop_state = "KILL" /\ Agree(r1, r, {"stop_state"})
  BY <1>2, OneMember, Zenon DEF StopStates
<1> HIDE DEF r1
<1>5. r2 \in Daemon /\ Agree(r2, r1, {"strayKill"})
  BY <1>2, <1>4, StrayCounts, OneMember, Zenon
<1> HIDE DEF r2
<1>6. r3 \in Daemon /\ r3.hard_kill_tid = None /\ Agree(r3, r2, {"hard_kill_tid"})
  BY <1>5, OneMember, Zenon DEF Tids
<1> HIDE DEF r3
<1>7. r4 \in Daemon /\ r4.killed = TRUE /\ Agree(r4, r3, {"killed"})
  BY <1>6, OneMember, Zenon
<1> HIDE DEF r4
<1>8. /\ Agree(r4, r, StopMembers)
      /\ r4.stop_state = "KILL" /\ r4.start_tid = r.start_tid /\ r4.pid = r.pid
  BY <1>4, <1>5, <1>6, <1>7 DEF Agree, StopMembers
<1>9. ~told => Good(d, r4)
  BY <1>3, <1>7, <1>8, Zenon DEF Good, Sound, Bounded, Waiting, Quiet, ArmedGraceful, ArmedFast, ArmedKill
<1>10. told => Good(d, r)
  BY <1>3, Zenon DEF Good, Sound, Quiet, ArmedGraceful, ArmedFast, ArmedKill
<1>11. Agree(r, r, StopMembers)
  BY Zenon DEF Agree
<1> QED
  BY <1>1, <1>8, <1>9, <1>10, <1>11, Zenon

(* Members that the invariant does not speak of. *)
Bland == {"on_hold", "restarts", "newExec", "recover_tid"}

(* An assignment to members that no invariant is about keeps a daemon good. *)
LEMMA BlandGood ==
  ASSUME NEW r, NEW q \in Daemon, Agree(q, r, Bland)
  PROVE  /\ q.pid = r.pid /\ q.start_tid = r.start_tid
         /\ Sound(r) => Sound(q)
         /\ \A d \in Names : Good(d, r) => Good(d, q)
<1>1. /\ q.pid = r.pid /\ q.start_tid = r.start_tid /\ q.stop_state = r.stop_state
      /\ q.stop_fast_tid = r.stop_fast_tid /\ q.hard_kill_tid = r.hard_kill_tid
      /\ q.strayKill = r.strayKill /\ q.killed = r.killed
  BY Zenon DEF Agree, Bland
<1>2. Sound(r) => Sound(q)
  BY <1>1, Zenon DEF Sound, Bounded, Waiting, Quiet
<1> QED
  BY <1>1, <1>2, Zenon DEF Good, ArmedGraceful, ArmedFast, ArmedKill

(* Hold. *)
LEMMA HeldGood ==
  ASSUME NEW r \in Daemon, NEW h \in BOOLEAN
  PROVE  LET q == [r EXCEPT !.on_hold = h]
         IN  /\ q \in Daemon /\ q.on_hold = h /\ Agree(q, r, {"on_hold"})
             /\ q.pid = r.pid /\ q.start_tid = r.start_tid
             /\ Sound(r) => Sound(q)
             /\ \A d \in Names : Good(d, r) => Good(d, q)
<1> DEFINE q == [r EXCEPT !.on_hold = h]
<1>1. q \in Daemon /\ q.on_hold = h /\ Agree(q, r, {"on_hold"})
  BY OneMember, Zenon
<1> HIDE DEF q
<1>2. Agree(q, r, Bland)
  BY <1>1, Zenon DEF Agree, Bland
<1> QED
  BY <1>1, <1>2, BlandGood, Zenon DEF q

(* CheckForNewExecutable finds a new executable. *)
LEMMA NewExecGood ==
  ASSUME NEW r \in Daemon, NEW d \in Names, Good(d, r)
  PROVE  LET q == [r EXCEPT !.newExec = TRUE]
         IN  Good(d, q) /\ q.pid = r.pid /\ q.on_hold = r.on_hold /\ q.start_tid = r.start_tid
<1> DEFINE q == [r EXCEPT !.newExec = TRUE]
<1>1. q \in Daemon /\ Agree(q, r, {"newExec"})
  BY OneMember, Zenon
<1> HIDE DEF q
<1>2. Agree(q, r, Bland) /\ q.on_hold = r.on_hold
  BY <1>1, Zenon DEF Agree, Bland
<1> QED
  BY <1>1, <1>2, BlandGood, Zenon DEF q

(* Recover. *)
LEMMA RecoveredGood ==
  ASSUME NEW r \in Daemon, NEW d \in Names, Good(d, r)
  PROVE  LET q == [r EXCEPT !.restarts = 0, !.recover_tid = FALSE]
         IN  Good(d, q) /\ q.pid = r.pid /\ q.on_hold = r.on_hold /\ q.start_tid = r.start_tid
<1> DEFINE r1 == [r EXCEPT !.restarts = 0]
           q == [r1 EXCEPT !.recover_tid = FALSE]
<1>0. 0 \in 0 .. RestartsCap
  BY MasterAssumption
<1>1. r1 \in Daemon /\ Agree(r1, r, {"restarts"})
  BY <1>0, OneMember, Zenon
<1> HIDE DEF r1
<1>2. q \in Daemon /\ Agree(q, r1, {"recover_tid"})
  BY <1>1, OneMember, Zenon
<1> HIDE DEF q
<1>3. Agree(q, r, Bland) /\ q.on_hold = r.on_hold
  BY <1>1, <1>2, Zenon DEF Agree, Bland
<1> QED
  BY <1>2, <1>3, BlandGood, Zenon DEF q, r1

(* RealStart: the process is there.  Nothing of an earlier stop is left. *)
LEMMA SpawnedGood ==
  ASSUME NEW d \in Names, NEW r, Good(d, r), ~r.pid, r.start_tid = None
  PROVE  Good(d, Spawned(r)) /\ Spawned(r).pid
<1> DEFINE r1 == [r EXCEPT !.pid = TRUE]
           r2 == [r1 EXCEPT !.recover_tid = (r.restarts > 0)]
           r3 == [r2 EXCEPT !.newExec = FALSE]
           r4 == [r3 EXCEPT !.killed = FALSE]
<1>1. Spawned(r) = r4
  BY Zenon DEF Spawned
<1>2. r \in Daemon /\ (r.restarts > 0) \in BOOLEAN
  BY DEF Good, Sound
<1>3. r1 \in Daemon /\ r1.pid = TRUE /\ Agree(r1, r, {"pid"})
  BY <1>2, OneMember, Zenon
<1> HIDE DEF r1
<1>4. r2 \in Daemon /\ Agree(r2, r1, {"recover_tid"})
  BY <1>2, <1>3, OneMember, Zenon
<1> HIDE DEF r2
<1>5. r3 \in Daemon /\ Agree(r3, r2, {"newExec"})
  BY <1>4, OneMember, Zenon
<1> HIDE DEF r3
<1>6. r4 \in Daemon /\ Agree(r4, r3, {"killed"})
  BY <1>5, OneMember, Zenon
<1> HIDE DEF r4
<1>7. r4.pid = TRUE /\ r4.start_tid = None /\ r4.stop_state = r.stop_state
  BY <1>3, <1>4, <1>5, <1>6, Zenon DEF Agree
<1>8. r.stop_state = "NONE"
  BY Zenon DEF Good, Sound, Quiet
<1>9. Good(d, r4)
  BY <1>6, <1>7, <1>8, Zenon DEF Good, Sound, Bounded, Waiting, Quiet, ArmedGraceful, ArmedFast, ArmedKill
<1> QED
  BY <1>1, <1>7, <1>9, Zenon

(* Exited: nothing of a stop is left. *)
LEMMA EndedGood ==
  ASSUME NEW d \in Names, NEW r \in Daemon
  PROVE  Good(d, Ended(r)) /\ ~Ended(r).pid /\ Ended(r).on_hold = r.on_hold
<1> DEFINE r1 == [r EXCEPT !.start_tid = None]
           r2 == [r1 EXCEPT !.recover_tid = FALSE]
           r3 == [r2 EXCEPT !.stop_fast_tid = None]
           r4 == [r3 EXCEPT !.hard_kill_tid = None]
           r5 == [r4 EXCEPT !.pid = FALSE]
           r6 == [r5 EXCEPT !.stop_state = "NONE"]
           r7 == [r6 EXCEPT !.killed = FALSE]
<1>1. Ended(r) = r7
  BY Zenon DEF Ended
<1>2. r1 \in Daemon /\ r1.start_tid = None /\ Agree(r1, r, {"start_tid"})
  BY OneMember, Zenon
<1> HIDE DEF r1
<1>3. r2 \in Daemon /\ Agree(r2, r1, {"recover_tid"})
  BY <1>2, OneMember, Zenon
<1> HIDE DEF r2
<1>4. r3 \in Daemon /\ r3.stop_fast_tid = None /\ Agree(r3, r2, {"stop_fast_tid"})
  BY <1>3, OneMember, Zenon DEF Tids
<1> HIDE DEF r3
<1>5. r4 \in Daemon /\ r4.hard_kill_tid = None /\ Agree(r4, r3, {"hard_kill_tid"})
  BY <1>4, OneMember, Zenon DEF Tids
<1> HIDE DEF r4
<1>6. r5 \in Daemon /\ r5.pid = FALSE /\ Agree(r5, r4, {"pid"})
  BY <1>5, OneMember, Zenon
<1> HIDE DEF r5
<1>7. r6 \in Daemon /\ r6.stop_state = "NONE" /\ Agree(r6, r5, {"stop_state"})
  BY <1>6, OneMember, Zenon DEF StopStates
<1> HIDE DEF r6
<1>8. r7 \in Daemon /\ Agree(r7, r6, {"killed"})
  BY <1>7, OneMember, Zenon
<1> HIDE DEF r7
<1>9. /\ r7.start_tid = None /\ r7.stop_fast_tid = None /\ r7.hard_kill_tid = None
      /\ r7.pid = FALSE /\ r7.stop_state = "NONE" /\ r7.on_hold = r.on_hold
  BY <1>2, <1>3, <1>4, <1>5, <1>6, <1>7, <1>8 DEF Agree
<1>10. Good(d, r7)
  BY <1>8, <1>9, Zenon DEF Good, Sound, Bounded, Waiting, Quiet, ArmedGraceful, ArmedFast, ArmedKill
<1> QED
  BY <1>1, <1>9, <1>10, Zenon

-----------------------------------------------------------------------------
(* The back-off. *)

(* A nonempty set of natural numbers has a least element. *)
LEMMA LeastExists ==
  ASSUME NEW S, S \subseteq Nat, S # {}
  PROVE  \E x \in S : \A y \in S : x <= y
<1>1. PICK x \in S : \A y \in S : ~(<<y, x>> \in OpToRel(<, Nat))
  BY NatLessThanWellFounded, WFMin, Zenon
<1>2. \A y \in S : ~(y < x)
  BY <1>1, Zenon DEF OpToRel
<1> QED
  BY <1>2

(* f has the powers of the factor up to the n-th. *)
Powers(n, f) ==
  /\ f \in [0 .. n -> Nat \ {0}]
  /\ f[0] = 1
  /\ \A i \in 1 .. n : f[i] = m_backoff_factor * f[i - 1]

(* The powers that NextStart computes exist: the definition of pow is a recursion that ends. *)
LEMMA PowersExist == \A n \in Nat : \E f : Powers(n, f)
<1> DEFINE B == {n \in Nat : ~ \E f : Powers(n, f)}
<1> SUFFICES ASSUME B # {} PROVE FALSE
  BY Zenon
<1>1. PICK n \in B : \A m \in B : n <= m
  BY LeastExists, Zenon
<1>2. n \in Nat /\ ~ \E f : Powers(n, f)
  BY <1>1, Zenon
<1>3. CASE n = 0
  <2> DEFINE f == [i \in 0 .. 0 |-> 1]
  <2>1. Powers(0, f)
    BY DEF Powers
  <2> QED
    BY <1>2, <1>3, <2>1, Zenon
<1>4. CASE n # 0
  <2>1. n - 1 \in Nat /\ n - 1 \notin B
    BY <1>1, <1>2, <1>4
  <2>2. PICK g : Powers(n - 1, g)
    BY <2>1, Zenon
  <2> DEFINE f == [i \in 0 .. n |-> IF i = n THEN m_backoff_factor * g[n - 1] ELSE g[i]]
  <2>3. g \in [0 .. n - 1 -> Nat \ {0}] /\ g[0] = 1
    BY <2>2, Zenon DEF Powers
  <2>4. m_backoff_factor \in Nat \ {0}
    BY MasterAssumption
  <2>5. m_backoff_factor * g[n - 1] \in Nat \ {0}
    <3>1. g[n - 1] \in Nat \ {0}
      BY <1>2, <2>1, <2>3
    <3> QED BY <2>4, <3>1
  <2>6. f \in [0 .. n -> Nat \ {0}]
    BY <1>2, <2>3, <2>5
  <2>7. f[0] = 1
    BY <1>2, <1>4, <2>3
  <2>8. ASSUME NEW i \in 1 .. n PROVE f[i] = m_backoff_factor * f[i - 1]
    <3>1. CASE i = n
      BY <1>2, <3>1
    <3>2. CASE i # n
      BY <1>2, <2>2, <3>2 DEF Powers
    <3> QED BY <3>1, <3>2, Zenon
  <2>9. Powers(n, f)
    BY <2>6, <2>7, <2>8, Zenon DEF Powers
  <2> QED
    BY <1>2, <2>9, Zenon
<1> QED
  BY <1>3, <1>4, Zenon

(* The powers of the factor are positive. *)
LEMMA PowIsPositive == \A n \in 0 .. RestartsCap : pow[n] \in Nat \ {0}
<1>1. RestartsCap \in Nat /\ m_backoff_factor \in Nat \ {0}
  BY MasterAssumption
<1>2. PICK f : Powers(RestartsCap, f)
  BY <1>1, PowersExist, Zenon
<1>3. f = [n \in 0 .. RestartsCap |-> IF n = 0 THEN 1 ELSE m_backoff_factor * f[n - 1]]
  BY <1>1, <1>2 DEF Powers
<1>4. pow = [n \in 0 .. RestartsCap |-> IF n = 0 THEN 1 ELSE m_backoff_factor * pow[n - 1]]
  BY <1>3, Zenon DEF pow
<1>5. /\ pow[0] = 1
      /\ \A n \in 1 .. RestartsCap : pow[n] = m_backoff_factor * pow[n - 1]
  BY <1>1, <1>4
<1> DEFINE B == {n \in 0 .. RestartsCap : pow[n] \notin Nat \ {0}}
<1> SUFFICES ASSUME B # {} PROVE FALSE
  BY Zenon
<1>6. B \subseteq Nat
  BY <1>1
<1>7. PICK n \in B : \A m \in B : n <= m
  BY <1>6, LeastExists, Zenon
<1>8. CASE n = 0
  BY <1>5, <1>7, <1>8
<1>9. CASE n # 0
  <2>1. n \in 1 .. RestartsCap /\ n - 1 \in 0 .. RestartsCap /\ ~(n <= n - 1)
    BY <1>1, <1>7, <1>9
  <2>2. pow[n - 1] \in Nat \ {0}
    BY <1>7, <2>1, Zenon
  <2>3. pow[n] = m_backoff_factor * pow[n - 1]
    BY <1>5, <2>1, Zenon
  <2> HIDE DEF B
  <2>4. pow[n] \in Nat \ {0}
    BY <1>1, <2>2, <2>3
  <2> QED
    BY <1>7, <2>4, Zenon DEF B
<1> QED
  BY <1>8, <1>9, Zenon

(* NextStart stays between one second and the ceiling, also where the power does
   not fit in an int and where the sum wraps. *)
LEMMA NextStartBounded ==
  ASSUME NEW n \in 0 .. RestartsCap, NEW saturates \in BOOLEAN
  PROVE  NextStart(n, saturates) \in 1 .. m_backoff_ceiling
<1> DEFINE x == pow[n]
           y == ToInt(x, saturates)
           z == Wrap(m_backoff_constant + y)
<1>1. x \in Nat \ {0}
  BY PowIsPositive, Zenon
<1> HIDE DEF x
<1>2. /\ IntMax \in Nat /\ m_backoff_constant \in 1 .. IntMax
      /\ m_backoff_ceiling \in 1 .. IntMax
  BY MasterAssumption, Zenon
<1>3. y \in 1 .. IntMax \/ y = -IntMax - 1
  BY <1>1, <1>2 DEF ToInt
<1> HIDE DEF y
<1>4. z \in Int /\ (z >= 1 \/ z < 0)
  BY <1>2, <1>3 DEF Wrap
<1> HIDE DEF z
<1>5. NextStart(n, saturates) = IF z > m_backoff_ceiling \/ z < 0 THEN m_backoff_ceiling ELSE z
  BY Zenon DEF NextStart, x, y, z
<1> QED
  BY <1>2, <1>4, <1>5

(* Restart: the timer to start it is registered. *)
LEMMA DelayedGood ==
  ASSUME NEW d \in Names, NEW r, Good(d, r), ~r.pid,
         NEW by \in BOOLEAN, NEW saturates \in BOOLEAN
  PROVE  LET q == Delayed(r, by, saturates)
         IN  Good(d, q) /\ ~q.pid /\ q.start_tid # None
<1> DEFINE n == IF r.newExec \/ by THEN 0 ELSE CountRestart(r.restarts)
           t == IF r.newExec THEN new_bin_delay ELSE IF by THEN 1 ELSE NextStart(r.restarts, saturates)
           r1 == [r EXCEPT !.restarts = n]
           r2 == [r1 EXCEPT !.newExec = FALSE]
           r3 == [r2 EXCEPT !.recover_tid = FALSE]
           r4 == [r3 EXCEPT !.start_tid = t]
<1>1. Delayed(r, by, saturates) = r4
  BY Zenon DEF Delayed
<1>2. r \in Daemon /\ r.restarts \in 0 .. RestartsCap
  BY Zenon DEF Good, Sound, Daemon
<1>3. n \in 0 .. RestartsCap
  BY <1>2, MasterAssumption DEF CountRestart
<1>4. /\ t \in {new_bin_delay} \cup 1 .. m_backoff_ceiling
      /\ t \in 1 .. IntMax /\ t # None
  <2>1. NextStart(r.restarts, saturates) \in 1 .. m_backoff_ceiling
    BY <1>2, NextStartBounded, Zenon
  <2> DEFINE k == NextStart(r.restarts, saturates)
  <2> HIDE DEF k
  <2>2. k \in 1 .. m_backoff_ceiling
    BY <2>1, Zenon DEF k
  <2>3. t = new_bin_delay \/ t = 1 \/ t = k
    BY Zenon DEF k
  <2>4. /\ IntMax \in Nat /\ None \notin Int
        /\ m_backoff_ceiling \in 1 .. IntMax /\ new_bin_delay \in 1 .. IntMax
    BY MasterAssumption, Zenon
  <2> HIDE DEF t
  <2> QED BY <2>2, <2>3, <2>4
<1> HIDE DEF n, t
<1>5. r1 \in Daemon /\ Agree(r1, r, {"restarts"})
  BY <1>2, <1>3, OneMember, Zenon
<1> HIDE DEF r1
<1>6. r2 \in Daemon /\ Agree(r2, r1, {"newExec"})
  BY <1>5, OneMember, Zenon
<1> HIDE DEF r2
<1>7. r3 \in Daemon /\ Agree(r3, r2, {"recover_tid"})
  BY <1>6, OneMember, Zenon
<1> HIDE DEF r3
<1>8. r4 \in Daemon /\ r4.start_tid = t /\ Agree(r4, r3, {"start_tid"})
  BY <1>4, <1>7, OneMember, Zenon
<1> HIDE DEF r4
<1>9. /\ r4.pid = r.pid /\ r4.stop_state = r.stop_state
      /\ r4.stop_fast_tid = r.stop_fast_tid /\ r4.hard_kill_tid = r.hard_kill_tid
  BY <1>5, <1>6, <1>7, <1>8, Zenon DEF Agree
<1>10. r.stop_state = "NONE" /\ r.stop_fast_tid = None /\ r.hard_kill_tid = None
  BY Zenon DEF Good, Sound, Quiet
<1>11. Good(d, r4)
  BY <1>4, <1>8, <1>9, <1>10, Zenon DEF Good, Sound, Bounded, Waiting, Quiet, ArmedGraceful, ArmedFast, ArmedKill
<1> QED
  BY <1>1, <1>4, <1>8, <1>9, <1>11, Zenon

-----------------------------------------------------------------------------
(* Tables of daemons. *)

AllGood(s) == s \in [Names -> Daemon] /\ \A d \in Names : Good(d, s[d])

(* What LoneDaemonsAreKept speaks of. *)
Lone(d) == d \notin Range(controller) /\ controller[d] = None
KeptBy(r) == r.on_hold \/ r.pid \/ r.start_tid # None

(* The lone daemons but d are left alone. *)
OthersLeft(t, s, d) == \A e \in Names : Lone(e) /\ e # d => t[e] = s[e]

(* A call goes to the daemon or to its controller, which is no lone daemon. *)
LEMMA TargetIs ==
  ASSUME NEW d \in Names, NEW never_forward
  PROVE  /\ Target(d, never_forward) \in Names
         /\ controller[d] = None \/ never_forward => Target(d, never_forward) = d
         /\ Target(d, never_forward) = d \/ ~Lone(Target(d, never_forward))
         /\ Lone(d) => Target(d, never_forward) = d
<1>1. controller \in [Names -> Names \cup {None}]
  BY MasterAssumption, Zenon
<1>2. controller[d] \in Range(controller)
  BY <1>1, Zenon DEF Range
<1> QED
  BY <1>1, <1>2, Zenon DEF Target, Lone

(* t is s with another record for d; with one that differs from the old one in
   what Stop and its like assign to. *)
PutAt(t, s, d, q) == AllGood(t) /\ t[d] = q /\ \A e \in Names : e # d => t[e] = s[e]
StopAt(t, s, d) ==
  /\ AllGood(t) /\ t[d].on_hold = s[d].on_hold /\ t[d].pid = s[d].pid
  /\ \A e \in Names : e # d => t[e] = s[e]
HoldAt(t, s, d, h) ==
  /\ AllGood(t) /\ t[d].on_hold = h
  /\ t[d].pid = s[d].pid /\ t[d].start_tid = s[d].start_tid
  /\ \A e \in Names : e # d => t[e] = s[e]
(* d was started or given a timer, unless it is held or the master shuts down. *)
StartAt(t, s, d) ==
  AllGood(t) /\ OthersLeft(t, s, d) /\ (~MasterShuttingDown => KeptBy(t[d]))

(* An assignment to one daemon. *)
LEMMA PutGood ==
  ASSUME NEW s, AllGood(s), NEW d \in Names, NEW q, Good(d, q)
  PROVE  PutAt([s EXCEPT ![d] = q], s, d, q)
<1> DEFINE t == [s EXCEPT ![d] = q]
<1>1. s \in [Names -> Daemon] /\ q \in Daemon
  BY Zenon DEF AllGood, Good, Sound
<1>2. t \in [Names -> Daemon] /\ t[d] = q /\ \A e \in Names : e # d => t[e] = s[e]
  BY <1>1, Zenon
<1> HIDE DEF t
<1>3. AllGood(t)
  BY <1>2, Zenon DEF AllGood
<1> QED
  BY <1>2, <1>3, Zenon DEF t, PutAt

(* Hold. *)
LEMMA HoldTable ==
  ASSUME NEW s, AllGood(s), NEW d \in Names, NEW h \in BOOLEAN, NEW never_forward
  PROVE  HoldAt(Hold(s, d, h, never_forward), s, Target(d, never_forward), h)
<1> DEFINE e == Target(d, never_forward)
           q == [s[e] EXCEPT !.on_hold = h]
<1>1. Hold(s, d, h, never_forward) = [s EXCEPT ![e] = q]
  BY Zenon DEF Hold
<1>2. e \in Names
  BY TargetIs, Zenon
<1> HIDE DEF e
<1>3. s[e] \in Daemon /\ Good(e, s[e])
  BY <1>2, Zenon DEF AllGood, Good, Sound
<1>4. Good(e, q) /\ q.on_hold = h /\ q.pid = s[e].pid /\ q.start_tid = s[e].start_tid
  BY <1>2, <1>3, HeldGood, Zenon
<1> HIDE DEF q
<1>5. PutAt([s EXCEPT ![e] = q], s, e, q)
  BY <1>2, <1>4, PutGood, Zenon
<1> QED
  BY <1>1, <1>4, <1>5, Zenon DEF e, PutAt, HoldAt

(* Stop. *)
LEMMA StopTable ==
  ASSUME NEW s, AllGood(s), NEW d \in Names, NEW never_forward
  PROVE  StopAt(Stop(s, d, never_forward), s, Target(d, never_forward))
<1> DEFINE e == Target(d, never_forward)
           q == Graceful(s[e])
<1>1. Stop(s, d, never_forward) = [s EXCEPT ![e] = q]
  BY Zenon DEF Stop
<1>2. e \in Names
  BY TargetIs, Zenon
<1> HIDE DEF e
<1>3. Good(e, s[e])
  BY <1>2, Zenon DEF AllGood
<1>4. Good(e, q) /\ Agree(q, s[e], StopMembers)
  BY <1>2, <1>3, GracefulGood, Zenon
<1> HIDE DEF q
<1>5. q.on_hold = s[e].on_hold /\ q.pid = s[e].pid
  BY <1>4, Zenon DEF Agree, StopMembers
<1>6. PutAt([s EXCEPT ![e] = q], s, e, q)
  BY <1>2, <1>4, PutGood, Zenon
<1> QED
  BY <1>1, <1>5, <1>6, Zenon DEF e, PutAt, StopAt

(* StopPeaceful. *)
LEMMA StopPeacefulTable ==
  ASSUME NEW s, AllGood(s), NEW d \in Names
  PROVE  StopAt(StopPeaceful(s, d), s, d)
<1> DEFINE q == Peaceful(s[d])
<1>1. StopPeaceful(s, d) = [s EXCEPT ![d] = q]
  BY Zenon DEF StopPeaceful
<1>2. Good(d, s[d])
  BY Zenon DEF AllGood
<1>3. Good(d, q) /\ Agree(q, s[d], StopMembers)
  BY <1>2, PeacefulGood, Zenon
<1> HIDE DEF q
<1>4. q.on_hold = s[d].on_hold /\ q.pid = s[d].pid
  BY <1>3, Zenon DEF Agree, StopMembers
<1>5. PutAt([s EXCEPT ![d] = q], s, d, q)
  BY <1>3, PutGood, Zenon
<1> QED
  BY <1>1, <1>4, <1>5, Zenon DEF PutAt, StopAt

(* StopFast. *)
LEMMA StopFastTable ==
  ASSUME NEW s, AllGood(s), NEW d \in Names, NEW never_forward
  PROVE  StopAt(StopFast(s, d, never_forward), s, Target(d, never_forward))
<1> DEFINE e == Target(d, never_forward)
           q == Fast(s[e])
<1>1. StopFast(s, d, never_forward) = [s EXCEPT ![e] = q]
  BY Zenon DEF StopFast
<1>2. e \in Names
  BY TargetIs, Zenon
<1> HIDE DEF e
<1>3. Sound(s[e]) /\ ArmedFast(s[e])
  BY <1>2, Zenon DEF AllGood, Good
<1>4. Good(e, q) /\ Agree(q, s[e], StopMembers)
  BY <1>2, <1>3, FastGood, Zenon
<1> HIDE DEF q
<1>5. q.on_hold = s[e].on_hold /\ q.pid = s[e].pid
  BY <1>4, Zenon DEF Agree, StopMembers
<1>6. PutAt([s EXCEPT ![e] = q], s, e, q)
  BY <1>2, <1>4, PutGood, Zenon
<1> QED
  BY <1>1, <1>5, <1>6, Zenon DEF e, PutAt, StopAt

(* Several daemons are told at once. *)
LEMMA EachGood ==
  ASSUME NEW s, AllGood(s), NEW ds
  PROVE  /\ AllGood(Each(Graceful, s, ds))
         /\ AllGood(Each(Peaceful, s, ds))
         /\ AllGood(Each(Fast, s, ds))
         /\ \A d \in Names \ ds : Each(Fast, s, ds)[d] = s[d]
<1>1. ASSUME NEW d \in Names
      PROVE  /\ Good(d, s[d]) /\ Good(d, Graceful(s[d]))
             /\ Good(d, Peaceful(s[d])) /\ Good(d, Fast(s[d]))
  <2>1. Good(d, s[d]) /\ Sound(s[d]) /\ ArmedFast(s[d])
    BY Zenon DEF AllGood, Good
  <2> QED
    BY <2>1, GracefulGood, PeacefulGood, FastGood, Zenon
<1>2. ASSUME NEW t, DOMAIN t = Names, t = [d \in Names |-> t[d]], \A d \in Names : Good(d, t[d])
      PROVE  AllGood(t)
  <2>1. \A d \in Names : t[d] \in Daemon
    BY <1>2, Zenon DEF Good, Sound
  <2>2. t \in [Names -> Daemon]
    BY <1>2, <2>1, Zenon
  <2> QED BY <1>2, <2>2, Zenon DEF AllGood
<1>3. AllGood(Each(Graceful, s, ds))
  <2> DEFINE t == [d \in Names |-> IF d \in ds THEN Graceful(s[d]) ELSE s[d]]
  <2>1. \A d \in Names : Good(d, t[d])
    BY <1>1, Zenon
  <2>2. DOMAIN t = Names /\ t = [d \in Names |-> t[d]]
    BY Zenon
  <2> HIDE DEF t
  <2>3. AllGood(t)
    BY <1>2, <2>1, <2>2, Zenon
  <2> QED BY <2>3, Zenon DEF Each, t
<1>4. AllGood(Each(Peaceful, s, ds))
  <2> DEFINE t == [d \in Names |-> IF d \in ds THEN Peaceful(s[d]) ELSE s[d]]
  <2>1. \A d \in Names : Good(d, t[d])
    BY <1>1, Zenon
  <2>2. DOMAIN t = Names /\ t = [d \in Names |-> t[d]]
    BY Zenon
  <2> HIDE DEF t
  <2>3. AllGood(t)
    BY <1>2, <2>1, <2>2, Zenon
  <2> QED BY <2>3, Zenon DEF Each, t
<1>5. AllGood(Each(Fast, s, ds))
  <2> DEFINE t == [d \in Names |-> IF d \in ds THEN Fast(s[d]) ELSE s[d]]
  <2>1. \A d \in Names : Good(d, t[d])
    BY <1>1, Zenon
  <2>2. DOMAIN t = Names /\ t = [d \in Names |-> t[d]]
    BY Zenon
  <2> HIDE DEF t
  <2>3. AllGood(t)
    BY <1>2, <2>1, <2>2, Zenon
  <2> QED BY <2>3, Zenon DEF Each, t
<1>6. \A d \in Names \ ds : Each(Fast, s, ds)[d] = s[d]
  BY Zenon DEF Each
<1> QED
  BY <1>3, <1>4, <1>5, <1>6, Zenon

-----------------------------------------------------------------------------
(* Starting daemons. *)

(* Restart of a daemon that is down: it is held, or its timer is registered; if
   it has failed too often its controller is told to stop. *)
LEMMA RestartTable ==
  ASSUME NEW s, AllGood(s), NEW d \in Names, ~s[d].pid,
         NEW by \in BOOLEAN, NEW saturates \in BOOLEAN
  PROVE  StartAt(Restart(s, d, by, saturates), s, d)
<1> DEFINE telling == controller[d] # None /\ s[d].restarts >= 2
           h == Hold(s, d, TRUE, TRUE)
           u == IF telling THEN Stop(h, d, FALSE) ELSE s
           q == Delayed(u[d], by, saturates)
           t == [u EXCEPT ![d] = q]
<1>1. Restart(s, d, by, saturates) = IF u[d].on_hold THEN u ELSE t
  BY Zenon DEF Restart
<1>2. /\ Target(d, TRUE) = d
      /\ Target(d, FALSE) \in Names
      /\ Target(d, FALSE) = d \/ ~Lone(Target(d, FALSE))
  BY TargetIs, Zenon
<1>3. AllGood(h) /\ h[d].pid = s[d].pid /\ \A c \in Names : c # d => h[c] = s[c]
  <2>1. HoldAt(Hold(s, d, TRUE, TRUE), s, Target(d, TRUE), TRUE)
    BY HoldTable, Zenon
  <2> QED BY <1>2, <2>1, Zenon DEF HoldAt
<1> HIDE DEF h
<1>4. /\ AllGood(Stop(h, d, FALSE))
      /\ Stop(h, d, FALSE)[Target(d, FALSE)].pid = h[Target(d, FALSE)].pid
      /\ \A c \in Names : c # Target(d, FALSE) => Stop(h, d, FALSE)[c] = h[c]
  <2>1. StopAt(Stop(h, d, FALSE), h, Target(d, FALSE))
    BY <1>3, StopTable, Zenon
  <2> QED BY <2>1, Zenon DEF StopAt
<1>5. AllGood(u) /\ ~u[d].pid /\ OthersLeft(u, s, d)
  <2>1. CASE ~telling
    BY <2>1, Zenon DEF OthersLeft
  <2>2. CASE telling
    <3>1. u = Stop(h, d, FALSE)
      BY <2>2, Zenon
    <3>2. u[d].pid = h[d].pid
      BY <1>4, <3>1, Zenon
    <3>3. OthersLeft(u, s, d)
      BY <1>2, <1>3, <1>4, <3>1, Zenon DEF OthersLeft
    <3> QED BY <1>3, <1>4, <3>1, <3>2, <3>3, Zenon
  <2> QED BY <2>1, <2>2, Zenon
<1> HIDE DEF u
<1>6. Good(d, u[d])
  BY <1>5, Zenon DEF AllGood
<1>7. Good(d, q) /\ q.start_tid # None
  BY <1>5, <1>6, DelayedGood, Zenon
<1> HIDE DEF q
<1>8. AllGood(t) /\ t[d] = q /\ \A c \in Names : c # d => t[c] = u[c]
  <2>1. PutAt([u EXCEPT ![d] = q], u, d, q)
    BY <1>5, <1>7, PutGood, Zenon
  <2> QED BY <2>1, Zenon DEF PutAt
<1> HIDE DEF t
<1>9. OthersLeft(t, s, d) /\ KeptBy(t[d])
  BY <1>5, <1>7, <1>8, Zenon DEF OthersLeft, KeptBy
<1>10. u[d].on_hold => KeptBy(u[d])
  BY Zenon DEF KeptBy
<1> QED
  BY <1>1, <1>5, <1>8, <1>9, <1>10, Zenon DEF StartAt

AnyEnv(env) == env.saturates \in BOOLEAN

(* RealStart of a daemon without a timer to start it: it runs, or it is held or
   has a timer, unless the master is shutting down. *)
LEMMA RealStartTable ==
  ASSUME NEW s, AllGood(s), NEW d \in Names, s[d].start_tid = None,
         NEW env, AnyEnv(env)
  PROVE  StartAt(RealStart(s, d, env), s, d)
<1> DEFINE off == s[d].on_hold \/ s[d].pid \/ MasterShuttingDown
           u == Restart(s, d, FALSE, env.saturates)
           q == Spawned(s[d])
           t == [s EXCEPT ![d] = q]
<1>1. RealStart(s, d, env) = IF off THEN s ELSE IF d \in env.broken THEN u ELSE t
  BY Zenon DEF RealStart
<1>0. env.saturates \in BOOLEAN
  BY Zenon DEF AnyEnv
<1>2. CASE off
  <2>1. ~MasterShuttingDown => KeptBy(s[d])
    BY <1>2, Zenon DEF KeptBy
  <2>2. OthersLeft(s, s, d)
    BY Zenon DEF OthersLeft
  <2> QED BY <1>1, <1>2, <2>1, <2>2, Zenon DEF StartAt
<1>3. CASE ~off
  <2>1. ~s[d].pid
    BY <1>3, Zenon
  <2>2. StartAt(u, s, d)
    BY <1>0, <2>1, RestartTable, Zenon
  <2>3. Good(d, s[d])
    BY Zenon DEF AllGood
  <2>4. Good(d, q) /\ q.pid
    BY <2>1, <2>3, SpawnedGood, Zenon
  <2> HIDE DEF q, u
  <2>5. AllGood(t) /\ t[d] = q /\ \A c \in Names : c # d => t[c] = s[c]
    <3>1. PutAt([s EXCEPT ![d] = q], s, d, q)
      BY <2>4, PutGood, Zenon
    <3> QED BY <3>1, Zenon DEF PutAt
  <2> HIDE DEF t
  <2>6. OthersLeft(t, s, d) /\ KeptBy(t[d])
    BY <2>4, <2>5, Zenon DEF OthersLeft, KeptBy
  <2> QED BY <1>1, <1>3, <2>2, <2>5, <2>6, Zenon DEF StartAt
<1> QED BY <1>2, <1>3, Zenon

(* Start. *)
LEMMA StartTable ==
  ASSUME NEW s, AllGood(s), NEW d \in Names, NEW never_forward,
         NEW env, AnyEnv(env)
  PROVE  StartAt(Start(s, d, never_forward, env), s, Target(d, never_forward))
<1> DEFINE e == Target(d, never_forward)
           q == NoStart(s[e])
           u == [s EXCEPT ![e] = q]
<1>1. Start(s, d, never_forward, env) = RealStart(u, e, env)
  BY Zenon DEF Start, NoStart
<1>2. e \in Names
  BY TargetIs, Zenon
<1> HIDE DEF e
<1>3. s[e] \in Daemon /\ Good(e, s[e])
  BY <1>2, Zenon DEF AllGood, Good, Sound
<1>4. Good(e, q) /\ q.start_tid = None
  BY <1>2, <1>3, NoStartGood, Zenon
<1> HIDE DEF q
<1>5. AllGood(u) /\ u[e] = q /\ \A c \in Names : c # e => u[c] = s[c]
  <2>1. PutAt([s EXCEPT ![e] = q], s, e, q)
    BY <1>2, <1>4, PutGood, Zenon
  <2> QED BY <2>1, Zenon DEF PutAt
<1> HIDE DEF u
<1>6. u[e].start_tid = None
  BY <1>4, <1>5, Zenon
<1>7. StartAt(RealStart(u, e, env), u, e)
  BY <1>2, <1>5, <1>6, RealStartTable, Zenon
<1>8. OthersLeft(RealStart(u, e, env), s, e)
  BY <1>5, <1>7, Zenon DEF OthersLeft, StartAt
<1> QED
  BY <1>1, <1>7, <1>8, Zenon DEF e, StartAt

(* StartDaemonHere: a lone daemon runs or is about to. *)
LEMMA HereTable ==
  ASSUME NEW s, AllGood(s), NEW d \in Names, NEW env, AnyEnv(env)
  PROVE  LET t == StartDaemonHere(s, d, env)
         IN  /\ AllGood(t) /\ OthersLeft(t, s, d)
             /\ Lone(d) /\ ~MasterShuttingDown => KeptBy(t[d])
<1> DEFINE e == Target(d, FALSE)
           h == Hold(s, d, FALSE, FALSE)
           t == Start(h, d, FALSE, env)
<1>1. StartDaemonHere(s, d, env) = IF s[d].pid THEN s ELSE t
  BY Zenon DEF StartDaemonHere
<1>2. e \in Names /\ (e = d \/ ~Lone(e)) /\ (Lone(d) => e = d)
  BY TargetIs, Zenon
<1>3. HoldAt(h, s, e, FALSE)
  BY HoldTable, Zenon
<1> HIDE DEF h
<1>4. AllGood(h) /\ \A c \in Names : c # e => h[c] = s[c]
  BY <1>3, Zenon DEF HoldAt
<1>a. AllGood(h)
  BY <1>4, Zenon
<1>5. StartAt(t, h, e)
  BY <1>a, StartTable, Zenon
<1> HIDE DEF t, e
<1>6. AllGood(t) /\ OthersLeft(t, h, e) /\ (~MasterShuttingDown => KeptBy(t[e]))
  BY <1>5, Zenon DEF StartAt
<1>7. OthersLeft(t, s, d)
  BY <1>2, <1>4, <1>6, Zenon DEF OthersLeft
<1>8. Lone(d) /\ ~MasterShuttingDown => KeptBy(t[d])
  BY <1>2, <1>6, Zenon
<1>9. OthersLeft(s, s, d) /\ (s[d].pid => KeptBy(s[d]))
  BY Zenon DEF OthersLeft, KeptBy
<1> QED
  BY <1>1, <1>6, <1>7, <1>8, <1>9, Zenon

(* f has the tables that StartAllDaemons goes through up to the k-th daemon. *)
Walk(f, k, s, env) ==
  /\ f = [i \in 0 .. k |-> f[i]]
  /\ f[0] = s
  /\ \A i \in 1 .. k : f[i] = StartDaemonHere(f[i - 1], Daemons[i], env)

(* The tables that StartAllDaemons goes through exist: its recursion ends. *)
LEMMA WalkExists ==
  ASSUME NEW s, NEW env
  PROVE  \A k \in Nat : \E f : Walk(f, k, s, env)
<1> DEFINE B == {k \in Nat : ~ \E f : Walk(f, k, s, env)}
<1> SUFFICES ASSUME B # {} PROVE FALSE
  BY Zenon
<1>1. PICK k \in B : \A m \in B : k <= m
  BY LeastExists, Zenon
<1>2. k \in Nat /\ ~ \E f : Walk(f, k, s, env)
  BY <1>1, Zenon
<1>3. CASE k = 0
  <2> DEFINE f == [i \in 0 .. 0 |-> s]
  <2>1. Walk(f, 0, s, env)
    BY DEF Walk
  <2> QED
    BY <1>2, <1>3, <2>1, Zenon
<1>4. CASE k # 0
  <2>1. k - 1 \in Nat /\ k - 1 \notin B
    BY <1>1, <1>2, <1>4
  <2>2. PICK g : Walk(g, k - 1, s, env)
    BY <2>1, Zenon
  <2> DEFINE last == StartDaemonHere(g[k - 1], Daemons[k], env)
             f == [i \in 0 .. k |-> IF i = k THEN last ELSE g[i]]
  <2>3. g[0] = s /\ \A i \in 1 .. k - 1 : g[i] = StartDaemonHere(g[i - 1], Daemons[i], env)
    BY <2>2, Zenon DEF Walk
  <2> HIDE DEF last
  <2>4. /\ f = [i \in 0 .. k |-> f[i]]
        /\ f[0] = s /\ f[k] = last
        /\ \A i \in 0 .. k - 1 : f[i] = g[i]
    BY <1>2, <1>4, <2>3
  <2> HIDE DEF f
  <2>5. ASSUME NEW i \in 1 .. k PROVE f[i] = StartDaemonHere(f[i - 1], Daemons[i], env)
    <3>1. CASE i = k
      <4>1. k - 1 \in 0 .. k - 1
        BY <1>2, <1>4
      <4>2. f[k - 1] = g[k - 1]
        BY <2>4, <4>1, Zenon
      <4>3. f[k] = StartDaemonHere(g[k - 1], Daemons[k], env)
        BY <2>4, Zenon DEF last
      <4> QED BY <3>1, <4>2, <4>3, Zenon
    <3>2. CASE i # k
      <4>1. i \in 1 .. k - 1 /\ i \in 0 .. k - 1 /\ i - 1 \in 0 .. k - 1
        BY <1>2, <3>2
      <4>2. f[i] = g[i] /\ f[i - 1] = g[i - 1]
        BY <2>4, <4>1, Zenon
      <4> QED BY <2>3, <4>1, <4>2, Zenon
    <3> QED BY <3>1, <3>2, Zenon
  <2>6. Walk(f, k, s, env)
    BY <2>4, <2>5, Zenon DEF Walk
  <2> QED
    BY <1>2, <2>6, Zenon
<1> QED
  BY <1>3, <1>4, Zenon

(* The names are those of the sequence. *)
LEMMA NamesAreListed ==
  /\ Len(Daemons) \in Nat
  /\ \A i \in 1 .. Len(Daemons) : Daemons[i] \in Names
  /\ \A d \in Names : \E i \in 1 .. Len(Daemons) : Daemons[i] = d
<1>1. Daemons \in Seq(Names)
  BY MasterAssumption, Zenon
<1>2. Len(Daemons) \in Nat /\ DOMAIN Daemons = 1 .. Len(Daemons)
  BY <1>1
<1> QED
  BY <1>1, <1>2, Zenon DEF Names, Range

(* After k daemons the table is good, and the lone ones among them are kept. *)
Done(t, k) ==
  /\ AllGood(t)
  /\ ~MasterShuttingDown =>
       \A j \in 1 .. k : Lone(Daemons[j]) => KeptBy(t[Daemons[j]])

(* StartAllDaemons, daemon by daemon. *)
LEMMA WalkIsDone ==
  ASSUME NEW s, AllGood(s), NEW env, AnyEnv(env),
         NEW f, Walk(f, Len(Daemons), s, env)
  PROVE  Done(f[Len(Daemons)], Len(Daemons))
<1>0. Len(Daemons) \in Nat
  BY NamesAreListed, Zenon
<1> DEFINE B == {k \in 0 .. Len(Daemons) : ~Done(f[k], k)}
<1> SUFFICES ASSUME B # {} PROVE FALSE
  BY <1>0
<1>1. B \subseteq Nat
  BY <1>0
<1>2. PICK k \in B : \A m \in B : k <= m
  BY <1>1, LeastExists, Zenon
<1>3. k \in 0 .. Len(Daemons) /\ ~Done(f[k], k)
  BY <1>2, Zenon
<1>4. CASE k = 0
  <2>1. f[0] = s
    BY Zenon DEF Walk
  <2>2. Done(s, 0)
    BY DEF Done
  <2> QED BY <1>3, <1>4, <2>1, <2>2, Zenon
<1>5. CASE k # 0
  <2>1. k - 1 \in 0 .. Len(Daemons) /\ ~(k <= k - 1) /\ k \in 1 .. Len(Daemons)
    BY <1>0, <1>3, <1>5
  <2>2. Done(f[k - 1], k - 1)
    BY <1>2, <2>1, Zenon
  <2> DEFINE t == f[k]
             u == f[k - 1]
             d == Daemons[k]
  <2>3. t = StartDaemonHere(u, d, env) /\ d \in Names
    BY <2>1, NamesAreListed, Zenon DEF Walk
  <2>4. AllGood(u)
    BY <2>2, Zenon DEF Done
  <2> HIDE DEF t, u, d
  <2>5. /\ AllGood(t) /\ OthersLeft(t, u, d)
        /\ Lone(d) /\ ~MasterShuttingDown => KeptBy(t[d])
    BY <2>3, <2>4, HereTable, Zenon
  <2>6. ASSUME ~MasterShuttingDown, NEW j \in 1 .. k, Lone(Daemons[j])
        PROVE  KeptBy(t[Daemons[j]])
    <3>1. CASE Daemons[j] = d
      BY <2>5, <2>6, <3>1, Zenon
    <3>2. CASE Daemons[j] # d
      <4>1. j \in 1 .. k - 1 /\ j \in 1 .. Len(Daemons)
        BY <1>0, <1>3, <3>2 DEF d
      <4>2. KeptBy(u[Daemons[j]])
        BY <2>2, <2>6, <4>1, Zenon DEF Done, u
      <4>3. Daemons[j] \in Names
        BY <4>1, NamesAreListed, Zenon
      <4>4. t[Daemons[j]] = u[Daemons[j]]
        BY <2>5, <2>6, <3>2, <4>3, Zenon DEF OthersLeft
      <4> QED BY <4>2, <4>4, Zenon
    <3> QED BY <3>1, <3>2, Zenon
  <2>7. Done(t, k)
    BY <2>5, <2>6, Zenon DEF Done
  <2> QED BY <1>3, <2>7, Zenon DEF t
<1> QED
  BY <1>4, <1>5, Zenon

(* StartAllDaemons: every lone daemon runs, or is about to. *)
LEMMA StartAllTable ==
  ASSUME NEW s, AllGood(s), NEW env, AnyEnv(env)
  PROVE  LET t == StartAllDaemons(s, env)
         IN  /\ AllGood(t)
             /\ ~MasterShuttingDown => \A d \in Names : Lone(d) => KeptBy(t[d])
<1> DEFINE n == Len(Daemons)
           Step(g) == [i \in 0 .. n |-> IF i = 0 THEN s ELSE StartDaemonHere(g[i - 1], Daemons[i], env)]
           f == CHOOSE g : g = Step(g)
<1>1. StartAllDaemons(s, env) = f[n]
  BY Zenon DEF StartAllDaemons
<1>2. n \in Nat
  BY NamesAreListed, Zenon
<1>3. PICK g : Walk(g, n, s, env)
  BY <1>2, WalkExists, Zenon
<1>4. g = Step(g)
  <2>1. \A i \in 0 .. n : g[i] = Step(g)[i]
    <3> SUFFICES ASSUME NEW i \in 0 .. n PROVE g[i] = IF i = 0 THEN s ELSE StartDaemonHere(g[i - 1], Daemons[i], env)
      BY Zenon
    <3>1. i # 0 => i \in 1 .. n
      BY <1>2
    <3> QED BY <1>3, <3>1, Zenon DEF Walk
  <2>2. g = [i \in 0 .. n |-> g[i]]
    BY <1>3, Zenon DEF Walk
  <2> HIDE DEF n
  <2> QED BY <2>1, <2>2, Zenon
<1>5. f = Step(f)
  BY <1>4, Zenon
<1> HIDE DEF f
<1>6. Walk(f, n, s, env)
  <2>1. f[0] = s
    BY <1>2, <1>5
  <2>2. \A i \in 1 .. n : f[i] = StartDaemonHere(f[i - 1], Daemons[i], env)
    BY <1>2, <1>5
  <2>3. f = [i \in 0 .. n |-> f[i]]
    BY <1>5, Zenon
  <2> QED BY <2>1, <2>2, <2>3, Zenon DEF Walk
<1>7. Done(f[n], n)
  BY <1>6, WalkIsDone, Zenon
<1> QED
  BY <1>1, <1>7, NamesAreListed, Zenon DEF Done

(* Exited: the process is gone; its controller may be told to stop, and its
   controllees are. *)
LEMMA ExitedTable ==
  ASSUME NEW s, AllGood(s), NEW d \in Names, NEW status
  PROVE  LET t == Exited(s, d, status)
         IN  AllGood(t) /\ ~t[d].pid /\ OthersLeft(t, s, d)
<1> DEFINE telling == controller[d] # None /\ s[d].restarts >= 2
           h == s[d].on_hold \/ status = "DAEMON_NO_RESTART" \/ telling
           q == [s[d] EXCEPT !.on_hold = h]
           held == [s EXCEPT ![d] = q]
           told == IF telling /\ s[d].stop_state = "NONE" THEN Stop(held, d, FALSE) ELSE held
           controllees == {c \in Names : controller[c] = d}
           killed == Each(Fast, told, controllees)
           last == Ended(killed[d])
           t == [killed EXCEPT ![d] = last]
<1>1. Exited(s, d, status) = t
  BY Zenon DEF Exited
<1>2. s[d] \in Daemon /\ Good(d, s[d]) /\ h \in BOOLEAN
  BY Zenon DEF AllGood
<1> HIDE DEF h
<1>3. Good(d, q)
  BY <1>2, HeldGood, Zenon
<1> HIDE DEF q
<1>4. AllGood(held) /\ \A c \in Names : c # d => held[c] = s[c]
  <2>1. PutAt([s EXCEPT ![d] = q], s, d, q)
    BY <1>3, PutGood, Zenon
  <2> QED BY <2>1, Zenon DEF PutAt
<1> HIDE DEF held
<1>5. AllGood(told) /\ OthersLeft(told, s, d)
  <2>1. Target(d, FALSE) = d \/ ~Lone(Target(d, FALSE))
    BY TargetIs, Zenon
  <2>2. StopAt(Stop(held, d, FALSE), held, Target(d, FALSE))
    BY <1>4, StopTable, Zenon
  <2>3. AllGood(Stop(held, d, FALSE)) /\ OthersLeft(Stop(held, d, FALSE), s, d)
    BY <1>4, <2>1, <2>2, Zenon DEF StopAt, OthersLeft
  <2>4. OthersLeft(held, s, d)
    BY <1>4, Zenon DEF OthersLeft
  <2> QED BY <1>4, <2>3, <2>4, Zenon
<1> HIDE DEF told
<1>6. AllGood(killed) /\ \A c \in Names \ controllees : killed[c] = told[c]
  BY <1>5, EachGood, Zenon
<1>7. \A c \in controllees : ~Lone(c)
  BY MasterAssumption, Zenon DEF Lone
<1> HIDE DEF killed, controllees
<1>8. OthersLeft(killed, s, d)
  BY <1>5, <1>6, <1>7, Zenon DEF OthersLeft
<1>9. killed[d] \in Daemon
  BY <1>6, Zenon DEF AllGood
<1>10. Good(d, last) /\ ~last.pid
  BY <1>9, EndedGood, Zenon
<1> HIDE DEF last
<1>11. PutAt(t, killed, d, last)
  BY <1>6, <1>10, PutGood, Zenon
<1> HIDE DEF t
<1>12. AllGood(t) /\ ~t[d].pid
  BY <1>10, <1>11, Zenon DEF PutAt
<1>13. OthersLeft(t, s, d)
  BY <1>8, <1>11, Zenon DEF PutAt, OthersLeft
<1> QED
  BY <1>1, <1>12, <1>13, Zenon

-----------------------------------------------------------------------------
(* The handlers that change the table alone. *)

(* A step from s to t that is good and forgets no lone daemon. *)
Fine(t, s) ==
  /\ AllGood(t)
  /\ ~MasterShuttingDown => \A c \in Names : Lone(c) /\ KeptBy(s[c]) => KeptBy(t[c])

(* DAEMON_ON and CHILD_ON: Hold(FALSE), Start. *)
LEMMA OnIsFine ==
  ASSUME NEW s, AllGood(s), NEW d \in Names, NEW never_forward, NEW env, AnyEnv(env)
  PROVE  Fine(Start(Hold(s, d, FALSE, never_forward), d, never_forward, env), s)
<1> DEFINE e == Target(d, never_forward)
           h == Hold(s, d, FALSE, never_forward)
           t == Start(h, d, never_forward, env)
<1>1. HoldAt(h, s, e, FALSE)
  BY HoldTable, Zenon
<1> HIDE DEF h
<1>2. AllGood(h) /\ \A c \in Names : c # e => h[c] = s[c]
  BY <1>1, Zenon DEF HoldAt
<1>3. StartAt(t, h, e)
  BY <1>2, StartTable, Zenon
<1> HIDE DEF t, e
<1>4. AllGood(t) /\ OthersLeft(t, h, e) /\ (~MasterShuttingDown => KeptBy(t[e]))
  BY <1>3, Zenon DEF StartAt
<1>5. ASSUME ~MasterShuttingDown, NEW c \in Names, Lone(c), KeptBy(s[c])
      PROVE  KeptBy(t[c])
  <2>1. CASE c = e
    BY <1>4, <1>5, <2>1, Zenon
  <2>2. CASE c # e
    <3>1. t[c] = s[c]
      BY <1>2, <1>4, <1>5, <2>2, Zenon DEF OthersLeft
    <3> QED BY <1>5, <3>1, Zenon
  <2> QED BY <2>1, <2>2, Zenon
<1>6. Fine(t, s)
  BY <1>4, <1>5, Zenon DEF Fine
<1> QED
  BY <1>6, Zenon DEF t, h

(* A daemon that is held stays held when it is told to stop. *)
LEMMA HeldStop ==
  ASSUME NEW s, NEW h, NEW t, NEW e \in Names,
         HoldAt(h, s, e, TRUE), StopAt(t, h, e)
  PROVE  Fine(t, s)
<1>1. t[e].on_hold
  BY Zenon DEF HoldAt, StopAt
<1>2. KeptBy(t[e])
  BY <1>1, Zenon DEF KeptBy
<1>3. AllGood(t) /\ \A c \in Names : c # e => t[c] = s[c]
  BY Zenon DEF HoldAt, StopAt
<1> QED
  BY <1>2, <1>3, Zenon DEF Fine

(* DAEMON_OFF, DAEMON_OFF_FAST, CHILD_OFF and CHILD_OFF_FAST: Hold(TRUE), Stop
   or StopFast. *)
LEMMA OffIsFine ==
  ASSUME NEW s, AllGood(s), NEW d \in Names, NEW never_forward
  PROVE  /\ Fine(Stop(Hold(s, d, TRUE, never_forward), d, never_forward), s)
         /\ Fine(StopFast(Hold(s, d, TRUE, never_forward), d, never_forward), s)
<1> DEFINE e == Target(d, never_forward)
           h == Hold(s, d, TRUE, never_forward)
<1>1. e \in Names
  BY TargetIs, Zenon
<1>2. HoldAt(h, s, e, TRUE)
  BY HoldTable, Zenon
<1> HIDE DEF h
<1>3. AllGood(h)
  BY <1>2, Zenon DEF HoldAt
<1>4. StopAt(Stop(h, d, never_forward), h, e)
  BY <1>3, StopTable, Zenon
<1>5. StopAt(StopFast(h, d, never_forward), h, e)
  BY <1>3, StopFastTable, Zenon
<1> HIDE DEF e
<1>6. Fine(Stop(h, d, never_forward), s) /\ Fine(StopFast(h, d, never_forward), s)
  BY <1>1, <1>2, <1>4, <1>5, HeldStop, Zenon
<1> QED
  BY <1>6, Zenon DEF h

(* DAEMON_OFF_PEACEFUL: the controller is held, and the daemon told. *)
LEMMA PeacefulIsFine ==
  ASSUME NEW s, AllGood(s), NEW d \in Names
  PROVE  Fine(StopPeaceful(Hold(s, d, TRUE, FALSE), d), s)
<1> DEFINE e == Target(d, FALSE)
           h == Hold(s, d, TRUE, FALSE)
           t == StopPeaceful(h, d)
<1>1. e \in Names /\ (e = d \/ ~Lone(e)) /\ (Lone(d) => e = d)
  BY TargetIs, Zenon
<1>2. HoldAt(h, s, e, TRUE)
  BY HoldTable, Zenon
<1> HIDE DEF h
<1>3. AllGood(h)
  BY <1>2, Zenon DEF HoldAt
<1>4. StopAt(t, h, d)
  BY <1>3, StopPeacefulTable, Zenon
<1> HIDE DEF t, e
<1>5. CASE e = d
  <2>1. Fine(t, s)
    BY <1>2, <1>4, <1>5, HeldStop, Zenon
  <2> QED BY <2>1, Zenon DEF t, h
<1>6. CASE e # d
  <2>1. ~Lone(e) /\ ~Lone(d)
    BY <1>1, <1>6, Zenon
  <2>2. \A c \in Names : Lone(c) => t[c] = s[c]
    BY <1>2, <1>4, <2>1, Zenon DEF HoldAt, StopAt
  <2>3. Fine(t, s)
    BY <1>4, <2>2, Zenon DEF Fine, StopAt
  <2> QED BY <2>3, Zenon DEF t, h
<1> QED
  BY <1>5, <1>6, Zenon

(* DoStart. *)
LEMMA StartIsFine ==
  ASSUME NEW s, AllGood(s), NEW d \in Names, NEW env, AnyEnv(env)
  PROVE  Fine(Start(s, d, TRUE, env), s)
<1> DEFINE e == Target(d, TRUE)
           t == Start(s, d, TRUE, env)
<1>1. StartAt(t, s, e)
  BY StartTable, Zenon
<1> HIDE DEF t, e
<1>2. ASSUME ~MasterShuttingDown, NEW c \in Names, Lone(c), KeptBy(s[c])
      PROVE  KeptBy(t[c])
  <2>1. CASE c = e
    BY <1>1, <1>2, <2>1, Zenon DEF StartAt
  <2>2. CASE c # e
    <3>1. t[c] = s[c]
      BY <1>1, <1>2, <2>2, Zenon DEF StartAt, OthersLeft
    <3> QED BY <1>2, <3>1, Zenon
  <2> QED BY <2>1, <2>2, Zenon
<1> QED
  BY <1>1, <1>2, Zenon DEF Fine, t, StartAt

(* DefaultReaper: Exited, Restart. *)
LEMMA ReapIsFine ==
  ASSUME NEW s, AllGood(s), NEW d \in Names, NEW status,
         NEW by \in BOOLEAN, NEW saturates \in BOOLEAN
  PROVE  Fine(Restart(Exited(s, d, status), d, by, saturates), s)
<1> DEFINE u == Exited(s, d, status)
           t == Restart(u, d, by, saturates)
<1>1. AllGood(u) /\ ~u[d].pid /\ OthersLeft(u, s, d)
  BY ExitedTable, Zenon
<1> HIDE DEF u
<1>2. StartAt(t, u, d)
  BY <1>1, RestartTable, Zenon
<1> HIDE DEF t
<1>3. ASSUME ~MasterShuttingDown, NEW c \in Names, Lone(c), KeptBy(s[c])
      PROVE  KeptBy(t[c])
  <2>1. CASE c = d
    BY <1>2, <1>3, <2>1, Zenon DEF StartAt
  <2>2. CASE c # d
    <3>1. t[c] = s[c]
      BY <1>1, <1>2, <1>3, <2>2, Zenon DEF StartAt, OthersLeft
    <3> QED BY <1>3, <3>1, Zenon
  <2> QED BY <2>1, <2>2, Zenon
<1> QED
  BY <1>2, <1>3, Zenon DEF Fine, StartAt, t, u

(* An assignment to one daemon that keeps it if it was kept. *)
LEMMA PutIsFine ==
  ASSUME NEW s, AllGood(s), NEW d \in Names, NEW q, Good(d, q),
         KeptBy(s[d]) => KeptBy(q)
  PROVE  Fine([s EXCEPT ![d] = q], s)
<1> DEFINE t == [s EXCEPT ![d] = q]
<1>1. PutAt(t, s, d, q)
  BY PutGood, Zenon
<1> HIDE DEF t
<1>2. AllGood(t) /\ t[d] = q /\ \A c \in Names : c # d => t[c] = s[c]
  BY <1>1, Zenon DEF PutAt
<1>3. Fine(t, s)
  BY <1>2, Zenon DEF Fine
<1> QED
  BY <1>3, Zenon DEF t

(* Recover. *)
LEMMA RecoverIsFine ==
  ASSUME NEW s, AllGood(s), NEW d \in Names
  PROVE  Fine([s EXCEPT ![d] = [s[d] EXCEPT !.restarts = 0, !.recover_tid = FALSE]], s)
<1> DEFINE q == [s[d] EXCEPT !.restarts = 0, !.recover_tid = FALSE]
<1>1. s[d] \in Daemon /\ Good(d, s[d])
  BY Zenon DEF AllGood
<1>2. Good(d, q) /\ q.pid = s[d].pid /\ q.on_hold = s[d].on_hold /\ q.start_tid = s[d].start_tid
  BY <1>1, RecoveredGood, Zenon
<1> HIDE DEF q
<1>3. KeptBy(s[d]) => KeptBy(q)
  BY <1>2, Zenon DEF KeptBy
<1>4. Fine([s EXCEPT ![d] = q], s)
  BY <1>2, <1>3, PutIsFine, Zenon
<1> QED
  BY <1>4, Zenon DEF q

(* NewExecutable: the daemon is marked, and told to stop if it runs. *)
LEMMA NewExecIsFine ==
  ASSUME NEW s, AllGood(s), NEW d \in Names
  PROVE  LET u == [s EXCEPT ![d] = [s[d] EXCEPT !.newExec = TRUE]]
         IN  Fine(IF s[d].pid THEN Stop(u, d, FALSE) ELSE u, s)
<1> DEFINE q == [s[d] EXCEPT !.newExec = TRUE]
           u == [s EXCEPT ![d] = q]
           e == Target(d, FALSE)
           t == Stop(u, d, FALSE)
<1>1. s[d] \in Daemon /\ Good(d, s[d])
  BY Zenon DEF AllGood
<1>2. Good(d, q) /\ q.pid = s[d].pid /\ q.on_hold = s[d].on_hold /\ q.start_tid = s[d].start_tid
  BY <1>1, NewExecGood, Zenon
<1>3. e \in Names /\ (e = d \/ ~Lone(e)) /\ (Lone(d) => e = d)
  BY TargetIs, Zenon
<1> HIDE DEF q
<1>4. KeptBy(s[d]) => KeptBy(q)
  BY <1>2, Zenon DEF KeptBy
<1>5. Fine(u, s)
  BY <1>2, <1>4, PutIsFine, Zenon
<1>6. PutAt(u, s, d, q)
  BY <1>2, PutGood, Zenon
<1> HIDE DEF u
<1>7. AllGood(u) /\ u[d] = q /\ \A c \in Names : c # d => u[c] = s[c]
  BY <1>6, Zenon DEF PutAt
<1>8. StopAt(t, u, e)
  BY <1>7, StopTable, Zenon
<1> HIDE DEF t, e
<1>9. ASSUME s[d].pid PROVE Fine(t, s)
  <2>1. AllGood(t) /\ t[e].pid = u[e].pid /\ \A c \in Names : c # e => t[c] = u[c]
    BY <1>8, Zenon DEF StopAt
  <2>2. Lone(d) => t[d].pid
    BY <1>2, <1>3, <1>7, <1>9, <2>1, Zenon
  <2>3. \A c \in Names : Lone(c) /\ c # d => t[c] = s[c]
    BY <1>3, <1>7, <2>1, Zenon
  <2>4. \A c \in Names : Lone(c) /\ KeptBy(s[c]) => KeptBy(t[c])
    BY <2>2, <2>3, Zenon DEF KeptBy
  <2> QED BY <2>1, <2>4, Zenon DEF Fine
<1> QED
  BY <1>5, <1>9, Zenon DEF t, u, q

(* A timer of the next step goes off: stop_fast_tid or hard_kill_tid is that of
   a timer that has fired, or there is one lost timer less. *)
LEMMA FiredFast ==
  ASSUME NEW d \in Names, NEW r, Good(d, r), r.stop_fast_tid = "live"
  PROVE  LET q == [r EXCEPT !.stop_fast_tid = "fired"]
         IN  /\ Sound(q) /\ ArmedFast(q) /\ q.pid
             /\ controller[d] # None => Good(d, q)
<1> DEFINE q == [r EXCEPT !.stop_fast_tid = "fired"]
<1>1. r \in Daemon /\ Sound(r) /\ ArmedFast(r) /\ ArmedKill(r)
  BY Zenon DEF Good, Sound
<1>2. "fired" \in Tids
  BY Zenon DEF Tids
<1>3. q \in Daemon /\ Agree(q, r, {"stop_fast_tid"})
  BY <1>1, <1>2, OneMember, Zenon
<1> HIDE DEF q
<1>4. /\ q.pid = r.pid /\ q.start_tid = r.start_tid /\ q.stop_state = r.stop_state
      /\ q.hard_kill_tid = r.hard_kill_tid /\ q.strayKill = r.strayKill /\ q.killed = r.killed
  BY <1>3, Zenon DEF Agree
<1>5. r.pid
  BY <1>1, MasterAssumption, Zenon DEF Sound, Quiet, Daemon
<1>6. Sound(q) /\ ArmedFast(q) /\ ArmedKill(q)
  BY <1>1, <1>3, <1>4, <1>5, Zenon DEF Sound, Bounded, Waiting, Quiet, ArmedFast, ArmedKill
<1>7. controller[d] # None => Good(d, q)
  BY <1>6, Zenon DEF Good, ArmedGraceful
<1> QED
  BY <1>4, <1>5, <1>6, <1>7, Zenon DEF q

(* StrayStopFastTimer: a lost timer fires. *)
LEMMA StrayFast ==
  ASSUME NEW d \in Names, NEW r, Good(d, r), r.strayFast > 0
  PROVE  Good(d, [r EXCEPT !.strayFast = r.strayFast - 1])
<1> DEFINE n == r.strayFast - 1
           q == [r EXCEPT !.strayFast = n]
<1>1. r \in Daemon /\ Sound(r)
  BY Zenon DEF Good, Sound
<1>2. n \in Nat
  BY <1>1 DEF Daemon
<1> HIDE DEF n
<1>3. q \in Daemon /\ Agree(q, r, {"strayFast"})
  BY <1>1, <1>2, OneMember, Zenon
<1> HIDE DEF q
<1>4. /\ q.pid = r.pid /\ q.start_tid = r.start_tid /\ q.stop_state = r.stop_state
      /\ q.stop_fast_tid = r.stop_fast_tid
      /\ q.hard_kill_tid = r.hard_kill_tid /\ q.strayKill = r.strayKill /\ q.killed = r.killed
  BY <1>3, Zenon DEF Agree
<1>5. Good(d, q)
  BY <1>1, <1>3, <1>4, Zenon
     DEF Good, Sound, Bounded, Waiting, Quiet, ArmedGraceful, ArmedFast, ArmedKill
<1> QED
  BY <1>5, Zenon DEF q, n

(* HardKillTimer: its id is that of a timer that has fired. *)
LEMMA FiredKill ==
  ASSUME NEW d \in Names, NEW r, Good(d, r), r.hard_kill_tid = "live"
  PROVE  LET q == [r EXCEPT !.hard_kill_tid = "fired"]
         IN  Sound(q) /\ ArmedKill(q) /\ q.pid
<1> DEFINE q == [r EXCEPT !.hard_kill_tid = "fired"]
<1>1. r \in Daemon /\ Sound(r) /\ ArmedKill(r)
  BY Zenon DEF Good, Sound
<1>2. "fired" \in Tids
  BY Zenon DEF Tids
<1>3. q \in Daemon /\ Agree(q, r, {"hard_kill_tid"})
  BY <1>1, <1>2, OneMember, Zenon
<1> HIDE DEF q
<1>4. /\ q.pid = r.pid /\ q.start_tid = r.start_tid /\ q.stop_state = r.stop_state
      /\ q.stop_fast_tid = r.stop_fast_tid /\ q.killed = r.killed
  BY <1>3, Zenon DEF Agree
<1>5. r.pid
  BY <1>1, MasterAssumption, Zenon DEF Sound, Quiet, Daemon
<1>6. Sound(q) /\ ArmedKill(q)
  BY <1>1, <1>3, <1>4, <1>5, Zenon DEF Sound, Bounded, Waiting, Quiet, ArmedKill
<1> QED
  BY <1>4, <1>5, <1>6, Zenon DEF q

(* StrayHardKillTimer: a lost timer fires. *)
LEMMA StrayKill ==
  ASSUME NEW d \in Names, NEW r, Good(d, r), r.strayKill > 0
  PROVE  LET q == [r EXCEPT !.strayKill = r.strayKill - 1]
         IN  /\ Sound(q) /\ ArmedKill(q)
             /\ q.pid = r.pid /\ q.on_hold = r.on_hold /\ q.start_tid = r.start_tid
<1> DEFINE n == r.strayKill - 1
           q == [r EXCEPT !.strayKill = n]
<1>1. r \in Daemon /\ Sound(r) /\ ArmedKill(r)
  BY Zenon DEF Good, Sound
<1>2. n \in Nat
  BY <1>1 DEF Daemon
<1> HIDE DEF n
<1>3. q \in Daemon /\ Agree(q, r, {"strayKill"})
  BY <1>1, <1>2, OneMember, Zenon
<1> HIDE DEF q
<1>4. /\ q.pid = r.pid /\ q.start_tid = r.start_tid /\ q.stop_state = r.stop_state
      /\ q.on_hold = r.on_hold
      /\ q.stop_fast_tid = r.stop_fast_tid
      /\ q.hard_kill_tid = r.hard_kill_tid /\ q.killed = r.killed
  BY <1>3, Zenon DEF Agree
<1>5. Sound(q) /\ ArmedKill(q)
  BY <1>1, <1>3, <1>4, Zenon DEF Sound, Bounded, Waiting, Quiet, ArmedKill
<1> QED
  BY <1>4, <1>5, Zenon DEF q, n

(* An assignment to a daemon and then to it again. *)
LEMMA PutTwice ==
  ASSUME NEW s \in [Names -> Daemon], NEW d \in Names, NEW q, NEW p
  PROVE  /\ [s EXCEPT ![d] = q][d] = q
         /\ [[s EXCEPT ![d] = q] EXCEPT ![d] = p] = [s EXCEPT ![d] = p]
BY Zenon

(* StopFastTimer: the process gets SIGQUIT, or its controller does. *)
LEMMA FastTimerIsFine ==
  ASSUME NEW s, AllGood(s), NEW d \in Names, s[d].stop_fast_tid = "live"
  PROVE  Fine(StopFast([s EXCEPT ![d] = [s[d] EXCEPT !.stop_fast_tid = "fired"]], d, FALSE), s)
<1> DEFINE q == [s[d] EXCEPT !.stop_fast_tid = "fired"]
           u == [s EXCEPT ![d] = q]
           e == Target(d, FALSE)
           t == StopFast(u, d, FALSE)
           p == Fast(q)
<1>1. s \in [Names -> Daemon] /\ Good(d, s[d])
  BY Zenon DEF AllGood
<1>2. Sound(q) /\ ArmedFast(q) /\ q.pid /\ (controller[d] # None => Good(d, q))
  BY <1>1, FiredFast, Zenon
<1>3. Good(d, p) /\ Agree(p, q, StopMembers)
  BY <1>2, FastGood, Zenon
<1> HIDE DEF q
<1>4. u[d] = q /\ [u EXCEPT ![d] = p] = [s EXCEPT ![d] = p]
  BY <1>1, PutTwice, Zenon
<1>5. CASE controller[d] = None
  <2>1. e = d
    BY <1>5, TargetIs, Zenon
  <2>2. t = [u EXCEPT ![d] = Fast(u[d])]
    BY <2>1, Zenon DEF StopFast
  <2>3. t = [s EXCEPT ![d] = p]
    BY <1>4, <2>2, Zenon
  <2>4. p.pid = q.pid
    BY <1>3, Zenon DEF Agree, StopMembers
  <2>5. KeptBy(p)
    BY <1>2, <2>4, Zenon DEF KeptBy
  <2> HIDE DEF p
  <2>6. Fine([s EXCEPT ![d] = p], s)
    BY <1>3, <2>5, PutIsFine, Zenon
  <2>7. Fine(t, s)
    BY <2>3, <2>6, Zenon
  <2> QED BY <2>7, Zenon DEF t, u, q
<1>6. CASE controller[d] # None
  <2>0. Good(d, q)
    BY <1>2, <1>6, Zenon
  <2>1. PutAt(u, s, d, q)
    BY <2>0, PutGood, Zenon
  <2> HIDE DEF u
  <2>2. AllGood(u) /\ \A c \in Names : c # d => u[c] = s[c]
    BY <2>1, Zenon DEF PutAt
  <2>3. StopAt(t, u, e)
    BY <2>2, StopFastTable, Zenon
  <2>4. ~Lone(d) /\ (e = d \/ ~Lone(e))
    BY <1>6, TargetIs, Zenon DEF Lone
  <2> HIDE DEF t, e
  <2>5. \A c \in Names : Lone(c) => t[c] = s[c]
    BY <2>2, <2>3, <2>4, Zenon DEF StopAt
  <2>6. Fine(t, s)
    BY <2>3, <2>5, Zenon DEF Fine, StopAt
  <2> QED BY <2>6, Zenon DEF t, u, q
<1> QED
  BY <1>5, <1>6, Zenon

(* StrayStopFastTimer: a stop that nobody asked for. *)
LEMMA StrayFastIsGood ==
  ASSUME NEW s, AllGood(s), NEW d \in Names, s[d].strayFast > 0
  PROVE  AllGood(StopFast([s EXCEPT ![d] = [s[d] EXCEPT !.strayFast = s[d].strayFast - 1]], d, FALSE))
<1> DEFINE q == [s[d] EXCEPT !.strayFast = s[d].strayFast - 1]
           u == [s EXCEPT ![d] = q]
<1>1. Good(d, s[d])
  BY Zenon DEF AllGood
<1>2. Good(d, q)
  BY <1>1, StrayFast, Zenon
<1> HIDE DEF q
<1>3. PutAt(u, s, d, q)
  BY <1>2, PutGood, Zenon
<1> HIDE DEF u
<1>4. AllGood(u)
  BY <1>3, Zenon DEF PutAt
<1>5. StopAt(StopFast(u, d, FALSE), u, Target(d, FALSE))
  BY <1>4, StopFastTable, Zenon
<1>6. AllGood(StopFast(u, d, FALSE))
  BY <1>5, Zenon DEF StopAt
<1> QED
  BY <1>6, Zenon DEF u, q

(* HardKillTimer. *)
LEMMA KillTimerIsFine ==
  ASSUME NEW s, AllGood(s), NEW d \in Names, s[d].hard_kill_tid = "live"
  PROVE  Fine(HardKill([s EXCEPT ![d] = [s[d] EXCEPT !.hard_kill_tid = "fired"]], d), s)
<1> DEFINE q == [s[d] EXCEPT !.hard_kill_tid = "fired"]
           u == [s EXCEPT ![d] = q]
           p == Killed(q)
<1>1. s \in [Names -> Daemon] /\ Good(d, s[d])
  BY Zenon DEF AllGood
<1>2. Sound(q) /\ ArmedKill(q) /\ q.pid
  BY <1>1, FiredKill, Zenon
<1>3. Good(d, p) /\ Agree(p, q, StopMembers)
  BY <1>2, KilledGood, Zenon
<1> HIDE DEF q
<1>4. u[d] = q /\ [u EXCEPT ![d] = p] = [s EXCEPT ![d] = p]
  BY <1>1, PutTwice, Zenon
<1>5. HardKill(u, d) = [u EXCEPT ![d] = Killed(u[d])]
  BY Zenon DEF HardKill
<1>6. HardKill(u, d) = [s EXCEPT ![d] = p]
  BY <1>4, <1>5, Zenon
<1>7. p.pid = q.pid
  BY <1>3, Zenon DEF Agree, StopMembers
<1>8. KeptBy(p)
  BY <1>2, <1>7, Zenon DEF KeptBy
<1> HIDE DEF p
<1>9. Fine([s EXCEPT ![d] = p], s)
  BY <1>3, <1>8, PutIsFine, Zenon
<1>10. Fine(HardKill(u, d), s)
  BY <1>6, <1>9, Zenon
<1> QED
  BY <1>10, Zenon DEF u, q

(* StrayHardKillTimer. *)
LEMMA StrayKillIsFine ==
  ASSUME NEW s, AllGood(s), NEW d \in Names, s[d].strayKill > 0
  PROVE  Fine(HardKill([s EXCEPT ![d] = [s[d] EXCEPT !.strayKill = s[d].strayKill - 1]], d), s)
<1> DEFINE q == [s[d] EXCEPT !.strayKill = s[d].strayKill - 1]
           u == [s EXCEPT ![d] = q]
           p == Killed(q)
<1>1. s \in [Names -> Daemon] /\ Good(d, s[d])
  BY Zenon DEF AllGood
<1>2. /\ Sound(q) /\ ArmedKill(q)
      /\ q.pid = s[d].pid /\ q.on_hold = s[d].on_hold /\ q.start_tid = s[d].start_tid
  BY <1>1, StrayKill, Zenon
<1>3. Good(d, p) /\ Agree(p, q, StopMembers) /\ p.start_tid = q.start_tid
  BY <1>2, KilledGood, Zenon
<1> HIDE DEF q
<1>4. u[d] = q /\ [u EXCEPT ![d] = p] = [s EXCEPT ![d] = p]
  BY <1>1, PutTwice, Zenon
<1>5. HardKill(u, d) = [u EXCEPT ![d] = Killed(u[d])]
  BY Zenon DEF HardKill
<1>6. HardKill(u, d) = [s EXCEPT ![d] = p]
  BY <1>4, <1>5, Zenon
<1>7. p.pid = q.pid /\ p.on_hold = q.on_hold
  BY <1>3, Zenon DEF Agree, StopMembers
<1>8. KeptBy(s[d]) => KeptBy(p)
  BY <1>2, <1>3, <1>7, Zenon DEF KeptBy
<1> HIDE DEF p
<1>9. Fine([s EXCEPT ![d] = p], s)
  BY <1>3, <1>8, PutIsFine, Zenon
<1>10. Fine(HardKill(u, d), s)
  BY <1>6, <1>9, Zenon
<1> QED
  BY <1>10, Zenon DEF u, q

-----------------------------------------------------------------------------
(* The invariant. *)

(* The variables other than the table have their types. *)
Modes ==
  /\ reaper \in {"DEFAULT_R", "ALL_R"}
  /\ all_daemons_gone_action \in {"MASTER_RESET", "MASTER_RESTART", "MASTER_EXIT"}
  /\ stop_other \in {"NONE", "PEACEFUL", "GRACEFUL"}
  /\ MasterShuttingDown \in BOOLEAN /\ check_new_exec_tid \in BOOLEAN
  /\ restart_tid \in BOOLEAN /\ gone \in BOOLEAN /\ crossed \in BOOLEAN
  /\ commands \in 0 .. MaxCommands

(* While all the daemons are going, new executables are not looked for, unless
   DAEMONS_ON came meanwhile or the master is shutting down: RestartMaster leaves
   their timer alone. *)
GoingOff == reaper = "ALL_R" => ~check_new_exec_tid \/ crossed \/ MasterShuttingDown

MasterInv == AllGood(dm) /\ Modes /\ GoingOff /\ LoneDaemonsAreKept

(* A step that changes the table alone, and forgets no lone daemon. *)
LEMMA TableStep ==
  ASSUME MasterInv, Fine(dm', dm), commands' \in 0 .. MaxCommands,
         UNCHANGED <<group, MasterShuttingDown, check_new_exec_tid, crossed>>
  PROVE  MasterInv'
<1>1. /\ reaper' = reaper /\ all_daemons_gone_action' = all_daemons_gone_action
      /\ stop_other' = stop_other /\ restart_tid' = restart_tid /\ gone' = gone
      /\ MasterShuttingDown' = MasterShuttingDown
      /\ check_new_exec_tid' = check_new_exec_tid /\ crossed' = crossed
  BY Zenon DEF group
<1>2. AllGood(dm') /\ AllGood(dm)'
  BY Zenon DEF Fine, AllGood
<1>3. Modes' /\ GoingOff'
  BY <1>1 DEF MasterInv, Modes, GoingOff
<1>4. LoneDaemonsAreKept'
  <2> SUFFICES ASSUME Keeping', ~crossed', NEW d \in Names, Lone(d)
               PROVE  KeptBy(dm'[d])
    BY Zenon DEF LoneDaemonsAreKept, Kept, KeptBy, Lone
  <2>1. Keeping /\ ~crossed /\ ~MasterShuttingDown
    BY <1>1 DEF Keeping
  <2>2. KeptBy(dm[d])
    BY <2>1, Zenon DEF MasterInv, LoneDaemonsAreKept, Kept, KeptBy, Lone
  <2> QED
    BY <2>1, <2>2, Zenon DEF Fine
<1> QED
  BY <1>2, <1>3, <1>4, Zenon DEF MasterInv

(* A step after which the master does not keep its daemons, or need not. *)
LEMMA VacuousStep ==
  ASSUME AllGood(dm'), Modes', ~check_new_exec_tid' \/ crossed' \/ MasterShuttingDown'
  PROVE  MasterInv'
<1>1. AllGood(dm)'
  BY Zenon DEF AllGood
<1>2. GoingOff' /\ LoneDaemonsAreKept'
  BY Zenon DEF GoingOff, LoneDaemonsAreKept, Keeping
<1> QED
  BY <1>1, <1>2, Zenon DEF MasterInv

(* CancelRestartTimers. *)
LEMMA CancelGood ==
  ASSUME NEW s, AllGood(s)
  PROVE  AllGood(CancelRestartTimers(s))
<1> DEFINE t == CancelRestartTimers(s)
<1>1. ASSUME NEW d \in Names PROVE Good(d, t[d])
  <2> DEFINE r1 == [s[d] EXCEPT !.recover_tid = FALSE]
             q == NoStart(r1)
  <2>1. t[d] = q
    BY Zenon DEF CancelRestartTimers, NoStart
  <2>2. s[d] \in Daemon /\ Good(d, s[d])
    BY Zenon DEF AllGood
  <2>3. r1 \in Daemon /\ Agree(r1, s[d], {"recover_tid"})
    BY <2>2, OneMember, Zenon
  <2> HIDE DEF r1
  <2>4. Agree(r1, s[d], Bland)
    BY <2>3, Zenon DEF Agree, Bland
  <2>5. Good(d, r1)
    BY <2>2, <2>3, <2>4, BlandGood, Zenon
  <2>6. Good(d, q)
    BY <2>3, <2>5, NoStartGood, Zenon
  <2> QED BY <2>1, <2>6, Zenon
<1>2. t = [d \in Names |-> t[d]]
  BY Zenon DEF CancelRestartTimers
<1>3. \A d \in Names : t[d] \in Daemon
  BY <1>1, Zenon DEF Good, Sound
<1> HIDE DEF t
<1>4. t \in [Names -> Daemon]
  BY <1>2, <1>3, Zenon
<1>5. AllGood(t)
  BY <1>1, <1>4, Zenon DEF AllGood
<1> QED
  BY <1>5, Zenon DEF t

(* What every way to stop all the daemons leaves. *)
StopsAll ==
  /\ AllGood(dm')
  /\ reaper' \in {"DEFAULT_R", "ALL_R"}
  /\ stop_other' \in {"NONE", "PEACEFUL", "GRACEFUL"}
  /\ restart_tid' \in BOOLEAN /\ gone' \in BOOLEAN

(* AllDaemonsGone keeps the types. *)
LEMMA GoneModes ==
  ASSUME Modes, AllDaemonsGone
  PROVE  /\ reaper' \in {"DEFAULT_R", "ALL_R"}
         /\ stop_other' \in {"NONE", "PEACEFUL", "GRACEFUL"}
         /\ restart_tid' \in BOOLEAN /\ gone' \in BOOLEAN
BY Zenon DEF Modes, AllDaemonsGone

(* StopAllDaemons, StopPeacefulAllDaemons and StopFastAllDaemons leave a good table. *)
LEMMA StopAllStep ==
  ASSUME Modes, NEW s, AllGood(s),
         StopAllDaemons(s) \/ StopPeacefulAllDaemons(s) \/ StopFastAllDaemons(s)
  PROVE  StopsAll
<1>0. \A ds : /\ AllGood(StopGraceful(s, ds)) /\ AllGood(StopPatient(s, ds))
              /\ AllGood(Each(Fast, s, Targets(ds)))
  BY EachGood, Zenon DEF StopGraceful, StopPatient
<1>1. ASSUME dm' = s, AllDaemonsGone PROVE StopsAll
  BY <1>1, GoneModes, Zenon DEF StopsAll
<1>2. CASE StopAllDaemons(s)
  <2> DEFINE first == Alive(s) \cap Startds
             ds == IF first # {} THEN first ELSE Alive(s)
  <2>1. CASE dm' = s /\ AllDaemonsGone
    BY <1>1, <2>1, Zenon
  <2>2. CASE ~(dm' = s /\ AllDaemonsGone)
    <3>1. /\ dm' = StopGraceful(s, ds)
          /\ stop_other' = IF first # {} THEN "GRACEFUL" ELSE IF reaper = "ALL_R" THEN stop_other ELSE "NONE"
          /\ reaper' = "ALL_R" /\ restart_tid' = restart_tid /\ gone' = gone
      BY <1>2, <2>2, Zenon DEF StopAllDaemons, StopAll
    <3> HIDE DEF first
    <3> QED BY <1>0, <3>1, Zenon DEF StopsAll, Modes
  <2> QED BY <2>1, <2>2, Zenon
<1>3. CASE StopPeacefulAllDaemons(s)
  <2> DEFINE first == Alive(s) \cap Startds
             ds == IF first # {} THEN first ELSE Alive(s)
  <2>1. CASE dm' = s /\ AllDaemonsGone
    BY <1>1, <2>1, Zenon
  <2>2. CASE ~(dm' = s /\ AllDaemonsGone)
    <3>1. /\ dm' = StopPatient(s, ds)
          /\ stop_other' = IF first # {} THEN "PEACEFUL" ELSE IF reaper = "ALL_R" THEN stop_other ELSE "NONE"
          /\ reaper' = "ALL_R" /\ restart_tid' = restart_tid /\ gone' = gone
      BY <1>3, <2>2, Zenon DEF StopPeacefulAllDaemons, StopAll
    <3> HIDE DEF first
    <3> QED BY <1>0, <3>1, Zenon DEF StopsAll, Modes
  <2> QED BY <2>1, <2>2, Zenon
<1>4. CASE StopFastAllDaemons(s)
  <2>1. CASE dm' = s /\ AllDaemonsGone
    BY <1>1, <2>1, Zenon
  <2>2. CASE ~(dm' = s /\ AllDaemonsGone)
    <3>1. /\ dm' = Each(Fast, s, Targets(Alive(s)))
          /\ stop_other' = IF reaper = "ALL_R" THEN stop_other ELSE "NONE"
          /\ reaper' = "ALL_R" /\ restart_tid' = restart_tid /\ gone' = gone
      BY <1>4, <2>2, Zenon DEF StopFastAllDaemons
    <3> QED BY <1>0, <3>1, Zenon DEF StopsAll, Modes
  <2> QED BY <2>1, <2>2, Zenon
<1> QED
  BY <1>2, <1>3, <1>4, Zenon

(* AllReaper. *)
LEMMA AllReaperStep ==
  ASSUME MasterInv, NEW d \in Names, NEW status, AllReaper(d, status),
         UNCHANGED <<MasterShuttingDown, check_new_exec_tid, crossed, commands>>
  PROVE  MasterInv'
<1> DEFINE s == Exited(dm, d, status)
<1>1. AllGood(dm) /\ Modes /\ GoingOff
  BY Zenon DEF MasterInv
<1>2. AllGood(s)
  BY <1>1, ExitedTable, Zenon
<1> HIDE DEF s
<1>3. \A ds : AllGood(StopGraceful(s, ds)) /\ AllGood(StopPatient(s, ds))
  BY <1>2, EachGood, Zenon DEF StopGraceful, StopPatient
<1>4. reaper = "ALL_R" /\ all_daemons_gone_action' = all_daemons_gone_action
  BY Zenon DEF AllReaper
<1>5. StopsAll
  <2>1. CASE dm' = s /\ AllDaemonsGone
    BY <1>1, <1>2, <2>1, GoneModes, Zenon DEF StopsAll
  <2>2. CASE dm' = s /\ UNCHANGED <<reaper, stop_other, restart_tid, gone>>
    BY <1>1, <1>2, <2>2, Zenon DEF StopsAll, Modes
  <2>3. CASE /\ dm' = CASE stop_other = "GRACEFUL" -> StopGraceful(s, Alive(s))
                        [] stop_other = "PEACEFUL" -> StopPatient(s, Alive(s))
                        [] OTHER -> s
             /\ stop_other' = "NONE"
             /\ UNCHANGED <<reaper, restart_tid, gone>>
    <3>1. dm' = StopGraceful(s, Alive(s)) \/ dm' = StopPatient(s, Alive(s)) \/ dm' = s
      BY <2>3, Zenon
    <3>2. AllGood(dm')
      BY <1>2, <1>3, <3>1, Zenon
    <3> QED BY <1>1, <2>3, <3>2, Zenon DEF StopsAll, Modes
  <2> QED BY <2>1, <2>2, <2>3, Zenon DEF AllReaper, s
<1>6. ~check_new_exec_tid' \/ crossed' \/ MasterShuttingDown'
  BY <1>1, <1>4, Zenon DEF GoingOff
<1>7. Modes' /\ AllGood(dm')
  BY <1>1, <1>4, <1>5, Zenon DEF Modes, StopsAll
<1> QED
  BY <1>6, <1>7, VacuousStep, Zenon

LEMMA EnvIsAny ==
  ASSUME NEW ds, NEW env \in Env(ds)
  PROVE  AnyEnv(env)
BY Zenon DEF Env, AnyEnv

(* The timers of a daemon. *)
LEMMA TimerStep ==
  ASSUME MasterInv, NEW d \in Names, Timer(d)
  PROVE  MasterInv'
<1>1. AllGood(dm) /\ Modes /\ commands \in 0 .. MaxCommands
  BY Zenon DEF MasterInv, Modes
<1>2. ASSUME NEW t, Tables(t), Fine(t, dm) PROVE MasterInv'
  <2>1. /\ dm' = t /\ commands' = commands
        /\ UNCHANGED <<group, MasterShuttingDown, check_new_exec_tid, crossed>>
    BY <1>2, Zenon DEF Tables
  <2>2. Fine(dm', dm)
    BY <1>2, <2>1, Zenon
  <2>3. commands' \in 0 .. MaxCommands
    BY <1>1, <2>1, Zenon
  <2> QED BY <2>1, <2>2, <2>3, TableStep, Zenon
<1>3. CASE DoStart(d)
  <2>1. PICK env \in Env({d}) : Tables(Start(dm, d, TRUE, env))
    BY <1>3, Zenon DEF DoStart
  <2>2. AnyEnv(env)
    BY EnvIsAny, Zenon
  <2>3. Fine(Start(dm, d, TRUE, env), dm)
    BY <1>1, <2>2, StartIsFine, Zenon
  <2> QED BY <1>2, <2>1, <2>3, Zenon
<1>4. CASE Recover(d)
  BY <1>1, <1>2, <1>4, RecoverIsFine, Zenon DEF Recover
<1>5. CASE StopFastTimer(d)
  BY <1>1, <1>2, <1>5, FastTimerIsFine, Zenon DEF StopFastTimer
<1>6. CASE StrayStopFastTimer(d)
  <2>1. AllGood(dm')
    BY <1>1, <1>6, StrayFastIsGood, Zenon DEF StrayStopFastTimer
  <2>2. crossed'
    BY <1>6, Zenon DEF StrayStopFastTimer
  <2>3. Modes'
    BY <1>1, <1>6, Zenon DEF StrayStopFastTimer, Modes, group
  <2> QED BY <2>1, <2>2, <2>3, VacuousStep, Zenon
<1>7. CASE HardKillTimer(d)
  BY <1>1, <1>2, <1>7, KillTimerIsFine, Zenon DEF HardKillTimer
<1>8. CASE StrayHardKillTimer(d)
  BY <1>1, <1>2, <1>8, StrayKillIsFine, Zenon DEF StrayHardKillTimer
<1> QED
  BY <1>3, <1>4, <1>5, <1>6, <1>7, <1>8, Zenon DEF Timer

(* The commands stay within their bound. *)
LEMMA CommandCounts ==
  ASSUME commands \in 0 .. MaxCommands, NEW cmd, Command(cmd)
  PROVE  commands' \in 0 .. MaxCommands
BY MasterAssumption DEF Command

(* The commands for one daemon, and a new executable. *)
LEMMA DaemonCommandStep ==
  ASSUME MasterInv, NEW d \in Names, DaemonCommand(d)
  PROVE  MasterInv'
<1>1. AllGood(dm) /\ commands \in 0 .. MaxCommands
  BY Zenon DEF MasterInv, Modes
<1>2. commands' \in 0 .. MaxCommands
  BY <1>1, CommandCounts, Zenon
     DEF DaemonCommand, DAEMON_ON, DAEMON_OFF, DAEMON_OFF_FAST, DAEMON_OFF_PEACEFUL,
         CHILD_ON, CHILD_OFF, CHILD_OFF_FAST, NewExecutable
<1>3. ASSUME NEW t, OneDaemon(t), Fine(t, dm) PROVE MasterInv'
  <2>1. /\ dm' = t
        /\ UNCHANGED <<group, MasterShuttingDown, check_new_exec_tid, crossed>>
    BY <1>3, Zenon DEF OneDaemon
  <2>2. Fine(dm', dm)
    BY <1>3, <2>1, Zenon
  <2> QED BY <1>2, <2>1, <2>2, TableStep, Zenon
<1>4. CASE DAEMON_ON(d)
  <2>1. PICK env \in Env({Target(d, FALSE)}) : OneDaemon(Start(Hold(dm, d, FALSE, FALSE), d, FALSE, env))
    BY <1>4, Zenon DEF DAEMON_ON
  <2>2. AnyEnv(env)
    BY EnvIsAny, Zenon
  <2>3. Fine(Start(Hold(dm, d, FALSE, FALSE), d, FALSE, env), dm)
    BY <1>1, <2>2, OnIsFine, Zenon
  <2> QED BY <1>3, <2>1, <2>3, Zenon
<1>5. CASE DAEMON_OFF(d)
  BY <1>1, <1>3, <1>5, OffIsFine, Zenon DEF DAEMON_OFF
<1>6. CASE DAEMON_OFF_FAST(d)
  BY <1>1, <1>3, <1>6, OffIsFine, Zenon DEF DAEMON_OFF_FAST
<1>7. CASE DAEMON_OFF_PEACEFUL(d)
  BY <1>1, <1>3, <1>7, PeacefulIsFine, Zenon DEF DAEMON_OFF_PEACEFUL
<1>8. CASE CHILD_ON(d)
  <2>1. PICK env \in Env({d}) : OneDaemon(Start(Hold(dm, d, FALSE, TRUE), d, TRUE, env))
    BY <1>8, Zenon DEF CHILD_ON
  <2>2. AnyEnv(env)
    BY EnvIsAny, Zenon
  <2>3. Fine(Start(Hold(dm, d, FALSE, TRUE), d, TRUE, env), dm)
    BY <1>1, <2>2, OnIsFine, Zenon
  <2> QED BY <1>3, <2>1, <2>3, Zenon
<1>9. CASE CHILD_OFF(d)
  BY <1>1, <1>3, <1>9, OffIsFine, Zenon DEF CHILD_OFF
<1>10. CASE CHILD_OFF_FAST(d)
  BY <1>1, <1>3, <1>10, OffIsFine, Zenon DEF CHILD_OFF_FAST
<1>11. CASE NewExecutable(d)
  BY <1>1, <1>3, <1>11, NewExecIsFine, Zenon DEF NewExecutable
<1> QED
  BY <1>4, <1>5, <1>6, <1>7, <1>8, <1>9, <1>10, <1>11, Zenon DEF DaemonCommand

(* The commands for the master. *)
LEMMA MasterCommandStep ==
  ASSUME MasterInv, MasterCommand
  PROVE  MasterInv'
<1>1. AllGood(dm) /\ Modes /\ commands \in 0 .. MaxCommands
  BY Zenon DEF MasterInv, Modes
<1>2. commands' \in 0 .. MaxCommands
  BY <1>1, CommandCounts, Zenon
     DEF MasterCommand, DAEMONS_ON, DAEMONS_OFF, DAEMONS_OFF_FAST, DAEMONS_OFF_PEACEFUL,
         MASTER_OFF, MASTER_OFF_FAST, RESTART
<1>3. ASSUME NEW s, AllGood(s),
             StopAllDaemons(s) \/ StopPeacefulAllDaemons(s) \/ StopFastAllDaemons(s),
             all_daemons_gone_action' \in {"MASTER_RESET", "MASTER_RESTART", "MASTER_EXIT"},
             MasterShuttingDown' \in {TRUE, MasterShuttingDown},
             check_new_exec_tid' = FALSE \/ MasterShuttingDown',
             check_new_exec_tid' \in {FALSE, check_new_exec_tid}, crossed' = crossed
      PROVE  MasterInv'
  <2>1. StopsAll
    BY <1>1, <1>3, StopAllStep, Zenon
  <2>2. Modes' /\ AllGood(dm')
    BY <1>1, <1>2, <1>3, <2>1, Zenon DEF Modes, StopsAll
  <2> QED BY <1>3, <2>2, VacuousStep, Zenon
<1>4. AllGood(CancelRestartTimers(dm))
  BY <1>1, CancelGood, Zenon
<1>5. CASE DAEMONS_ON
  <2>1. PICK env \in Env(Names) : dm' = StartAllDaemons(dm, env)
    BY <1>5, Zenon DEF DAEMONS_ON
  <2>2. AnyEnv(env)
    BY EnvIsAny, Zenon
  <2>3. AllGood(dm') /\ (~MasterShuttingDown => \A d \in Names : Lone(d) => KeptBy(dm'[d]))
    BY <1>1, <2>1, <2>2, StartAllTable, Zenon
  <2>4. /\ reaper' = reaper /\ all_daemons_gone_action' = all_daemons_gone_action
        /\ stop_other' = stop_other /\ restart_tid' = restart_tid /\ gone' = gone
        /\ MasterShuttingDown' = MasterShuttingDown
        /\ check_new_exec_tid' = TRUE /\ crossed' = (crossed \/ reaper = "ALL_R")
    BY <1>5, Zenon DEF DAEMONS_ON, group
  <2>5. Modes' /\ GoingOff'
    BY <1>1, <1>2, <2>4, Zenon DEF Modes, GoingOff
  <2>6. LoneDaemonsAreKept'
    <3>1. Keeping' => ~MasterShuttingDown
      BY <2>4, Zenon DEF Keeping
    <3> QED BY <2>3, <3>1, Zenon DEF LoneDaemonsAreKept, Kept, KeptBy, Lone
  <2>7. AllGood(dm)'
    BY <2>3, Zenon DEF AllGood
  <2> QED BY <2>5, <2>6, <2>7, Zenon DEF MasterInv
<1>6. CASE DAEMONS_OFF
  BY <1>1, <1>3, <1>6, Zenon DEF DAEMONS_OFF, DaemonsOff
<1>7. CASE DAEMONS_OFF_FAST
  BY <1>1, <1>3, <1>7, Zenon DEF DAEMONS_OFF_FAST, DaemonsOff
<1>8. CASE DAEMONS_OFF_PEACEFUL
  BY <1>1, <1>3, <1>8, Zenon DEF DAEMONS_OFF_PEACEFUL, DaemonsOff
<1>9. CASE MASTER_OFF
  BY <1>3, <1>4, <1>9, Zenon DEF MASTER_OFF, MasterOff
<1>10. CASE MASTER_OFF_FAST
  BY <1>3, <1>4, <1>10, Zenon DEF MASTER_OFF_FAST, MasterOff
<1>11. CASE RESTART
  BY <1>1, <1>3, <1>11, Zenon DEF RESTART
<1> QED
  BY <1>5, <1>6, <1>7, <1>8, <1>9, <1>10, <1>11, Zenon DEF MasterCommand

(* An exit. *)
LEMMA ReapStep ==
  ASSUME MasterInv, NEW d \in Names, NEW status, Reap(d, status)
  PROVE  MasterInv'
<1>1. AllGood(dm) /\ commands \in 0 .. MaxCommands
  BY Zenon DEF MasterInv, Modes
<1>2. UNCHANGED <<MasterShuttingDown, check_new_exec_tid, crossed, commands>>
  BY Zenon DEF Reap
<1>3. CASE \E saturates \in BOOLEAN : DefaultReaper(d, status, saturates)
  <2>1. PICK saturates \in BOOLEAN : DefaultReaper(d, status, saturates)
    BY <1>3, Zenon
  <2>2. Expected(dm[d], status) \in BOOLEAN
    BY Zenon DEF Expected
  <2>3. Fine(Restart(Exited(dm, d, status), d, Expected(dm[d], status), saturates), dm)
    BY <1>1, <2>2, ReapIsFine, Zenon
  <2>4. Fine(dm', dm) /\ UNCHANGED group
    BY <2>1, <2>3, Zenon DEF DefaultReaper
  <2>5. commands' \in 0 .. MaxCommands
    BY <1>1, <1>2, Zenon
  <2> QED BY <1>2, <2>4, <2>5, TableStep, Zenon
<1>4. CASE AllReaper(d, status)
  BY <1>2, <1>4, AllReaperStep, Zenon
<1> QED
  BY <1>3, <1>4, Zenon DEF Reap

(* main_init has started the daemons. *)
LEMMA MasterInit == Init => MasterInv
<1> SUFFICES ASSUME Init PROVE MasterInv
  BY Zenon
<1> DEFINE s == [d \in Names |-> NewDaemon]
<1>1. ASSUME NEW d \in Names PROVE Good(d, NewDaemon)
  <2>1. NewDaemon \in Daemon
    BY MasterAssumption DEF NewDaemon, Daemon, Tids, StopStates
  <2> QED BY <2>1, Zenon DEF Good, Sound, Bounded, Waiting, Quiet, ArmedGraceful, ArmedFast, ArmedKill, NewDaemon
<1>2. AllGood(s)
  BY <1>1, Zenon DEF AllGood, Good, Sound
<1>3. PICK env \in Env(Names) : dm = StartAllDaemons(s, env)
  BY Zenon DEF Init
<1>4. AnyEnv(env)
  BY EnvIsAny, Zenon
<1> HIDE DEF s
<1>5. AllGood(dm) /\ (~MasterShuttingDown => \A d \in Names : Lone(d) => KeptBy(dm[d]))
  BY <1>2, <1>3, <1>4, StartAllTable, Zenon
<1>6. Modes /\ GoingOff
  <2>1. /\ reaper = "DEFAULT_R" /\ all_daemons_gone_action = "MASTER_RESET" /\ stop_other = "NONE"
        /\ MasterShuttingDown = FALSE /\ check_new_exec_tid = TRUE /\ restart_tid = FALSE /\ gone = FALSE
        /\ crossed = FALSE /\ commands = 0
    BY Zenon DEF Init
  <2>2. 0 \in 0 .. MaxCommands
    BY MasterAssumption
  <2> QED BY <2>1, <2>2, Zenon DEF Modes, GoingOff
<1>7. LoneDaemonsAreKept
  BY <1>5, Zenon DEF LoneDaemonsAreKept, Keeping, Kept, KeptBy, Lone
<1> QED
  BY <1>5, <1>6, <1>7, Zenon DEF MasterInv

(* The inductive invariant of the master: every daemon of the table is good, a
   lone daemon is kept, and while all of them are going off new executables are
   not looked for, unless the master is shutting down. *)
THEOREM MasterInvariance == Spec => []MasterInv
<1>1. MasterInv /\ [Next]_vars => MasterInv'
  <2> SUFFICES ASSUME MasterInv, [Next]_vars PROVE MasterInv'
    BY Zenon
  <2>1. CASE UNCHANGED vars
    BY <2>1, Zenon DEF vars, group, MasterInv, AllGood, Modes, GoingOff, LoneDaemonsAreKept, Keeping, Kept
  <2>2. CASE Next
    <3>1. CASE MasterCommand
      BY <3>1, MasterCommandStep, Zenon
    <3>5. CASE FinalRestartMaster
      <4>1. AllGood(dm)'
        BY <3>5, Zenon DEF FinalRestartMaster, MasterInv, AllGood
      <4>2. Modes' /\ GoingOff' /\ LoneDaemonsAreKept'
        BY <3>5, Zenon DEF FinalRestartMaster, MasterInv, Modes, GoingOff, LoneDaemonsAreKept, Keeping, Kept
      <4> QED BY <4>1, <4>2, Zenon DEF MasterInv
    <3>2. ASSUME NEW d \in Names, DaemonCommand(d) PROVE MasterInv'
      BY <3>2, DaemonCommandStep, Zenon
    <3>3. ASSUME NEW d \in Names, Timer(d) PROVE MasterInv'
      BY <3>3, TimerStep, Zenon
    <3>4. ASSUME NEW d \in Names, NEW st \in Statuses, Reap(d, st) PROVE MasterInv'
      BY <3>4, ReapStep, Zenon
    <3> QED BY <2>2, <3>1, <3>2, <3>3, <3>4, <3>5, Zenon DEF Next
  <2> QED BY <2>1, <2>2, Zenon
<1> QED
  BY <1>1, MasterInit, PTL DEF Spec

(* However often a daemon fails and whatever the power overflows to, the delay
   that NextStart computes stays between one second and the ceiling. *)
THEOREM DelaysAreBounded == Spec => []BackoffIsBounded
<1>1. MasterInv => BackoffIsBounded
  <2> SUFFICES ASSUME MasterInv PROVE BackoffIsBounded
    BY Zenon
  <2>1. TypeOK
    BY Zenon DEF MasterInv, AllGood, Modes, TypeOK
  <2>2. \A d \in Names : Bounded(dm[d])
    BY Zenon DEF MasterInv, AllGood, Good, Sound
  <2> QED BY <2>1, <2>2, Zenon DEF BackoffIsBounded, Bounded
<1> QED
  BY <1>1, MasterInvariance, PTL

(* No daemon is both running and waiting for its timer of Start. *)
THEOREM NoDoubleStart == Spec => []StartTimerMeansDown
<1>1. MasterInv => StartTimerMeansDown
  BY Zenon DEF MasterInv, AllGood, Good, Sound, Waiting, StartTimerMeansDown
<1> QED
  BY <1>1, MasterInvariance, PTL

(* No sequence of commands and of timers leaves a process that is being stopped
   without the timer of its next step. *)
THEOREM EveryStopIsArmed == Spec => []StopIsArmed
<1>1. MasterInv => StopIsArmed
  <2> SUFFICES ASSUME MasterInv, NEW d \in Names
               PROVE  ArmedGraceful(d, dm[d]) /\ ArmedFast(dm[d]) /\ ArmedKill(dm[d])
    BY Zenon DEF StopIsArmed, ArmedGraceful, ArmedFast, ArmedKill
  <2> QED BY Zenon DEF MasterInv, AllGood, Good
<1> QED
  BY <1>1, MasterInvariance, PTL

(* The master forgets no daemon that controls no other and that none controls. *)
THEOREM NoDaemonIsForgotten == Spec => []LoneDaemonsAreKept
<1>1. MasterInv => LoneDaemonsAreKept
  BY Zenon DEF MasterInv
<1> QED
  BY <1>1, MasterInvariance, PTL

=============================================================================
