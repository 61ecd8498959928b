---------------------------- MODULE MasterDaemon ----------------------------
(***************************************************************************)
(* The condor_master and the daemons it keeps (condor_master.V6): starting,*)
(* restarting with a back-off, stopping in steps (SIGTERM, SIGQUIT,        *)
(* SIGKILL), holding, controllers that are told instead of their           *)
(* controllees (HAD and the negotiator), and shutting down.                *)
(*                                                                         *)
(* The methods of class daemon call each other on several daemons, so they *)
(* are operators from the table of daemons to the table of daemons, and a  *)
(* handler of the master (a command, a timer, a reaper) is one step.       *)
(***************************************************************************)
EXTENDS Integers, Sequences, FiniteSets, Functions

CONSTANTS
  Daemons,                 \* ordered_daemon_names, a sequence
  controller,              \* [daemon -> its controller or None]
  Startds,                 \* the daemons of type DT_STARTD
  Commands,                \* the administrator's commands considered
  m_backoff_constant,
  m_backoff_factor,
  m_backoff_ceiling,
  new_bin_delay,
  IntMax,                  \* the largest int; the smallest is -IntMax - 1
  RestartsCap,             \* restarts are not counted beyond this
  MaxCommands,             \* bound on commands and new executables
  None

Names == Range(Daemons)

ASSUME MasterAssumption ==
  /\ Daemons \in Seq(Names)
  /\ controller \in [Names -> Names \cup {None}]
  /\ \A d \in Names : controller[d] # None => controller[controller[d]] = None
  /\ {m_backoff_constant, m_backoff_factor, m_backoff_ceiling, new_bin_delay} \subseteq 1 .. IntMax
  /\ IntMax \in Nat /\ MaxCommands \in Nat
  /\ RestartsCap \in Nat /\ RestartsCap >= 2
  /\ None \notin Int /\ None \notin {"live", "fired"} /\ None \notin Names

VARIABLES
  dm,                      \* the daemons
  reaper,                  \* "DEFAULT_R" or "ALL_R"
  all_daemons_gone_action, \* "MASTER_RESET", "MASTER_RESTART" or "MASTER_EXIT"
  stop_other,              \* stop_other_daemons_when_startds_gone
  MasterShuttingDown,
  check_new_exec_tid,      \* the daemons are on, and new executables looked for
  restart_tid,             \* the timer of FinalRestartMaster is running
  gone,                    \* the master has exited or executed itself again
  crossed,                 \* DAEMONS_ON came before DAEMONS_OFF was done, or a
                           \* stop timer outlived the stop it was made for
  commands                 \* the commands so far

group == <<reaper, all_daemons_gone_action, stop_other, restart_tid, gone>>
vars == <<dm, group, MasterShuttingDown, check_new_exec_tid, crossed, commands>>

StopStates == {"NONE", "PEACEFUL", "GRACEFUL", "FAST", "KILL"}

(* A timer id is None, that of a timer that is still to fire, or, for a short
   while or by mistake, that of one that has fired. *)
Tids == {None, "live", "fired"}

Daemon == [
  pid : BOOLEAN,
  on_hold : BOOLEAN,
  restarts : 0 .. RestartsCap,
  newExec : BOOLEAN,
  stop_state : StopStates,
  start_tid : {None} \cup 1 .. IntMax,  \* the delay it was registered with
  recover_tid : BOOLEAN,
  stop_fast_tid : Tids,
  hard_kill_tid : Tids,
  strayFast : Nat,        \* timers that are to fire and whose ids are lost
  strayKill : Nat,
  killed : BOOLEAN]       \* SIGKILL is on its way to the process

(* on_hold is 2 until StartDaemonHere or CHILD_ON resets it. *)
NewDaemon == [
  pid |-> FALSE, on_hold |-> TRUE, restarts |-> 0, newExec |-> FALSE,
  stop_state |-> "NONE", start_tid |-> None, recover_tid |-> FALSE,
  stop_fast_tid |-> None, hard_kill_tid |-> None,
  strayFast |-> 0, strayKill |-> 0, killed |-> FALSE]

-----------------------------------------------------------------------------
(* class daemon. *)

(* Who handles a call for d. *)
Target(d, never_forward) ==
  IF controller[d] # None /\ ~never_forward THEN controller[d] ELSE d

Hold(s, d, hold, never_forward) ==
  [s EXCEPT ![Target(d, never_forward)].on_hold = hold]

Stray(tid) == IF tid = "live" THEN 1 ELSE 0

(* The timer to start a daemon is cancelled even if there is nothing to stop:
   no process, or one that was told already. *)
NoStart(r) == [r EXCEPT !.start_tid = None]
Stopped(r, states) == ~r.pid \/ r.stop_state \in states

(* What SIGTERM, SIGQUIT and SIGKILL leave of a daemon.  A timer whose id is
   overwritten or forgotten (stop_fast_tid of StopFast, hard_kill_tid of
   HardKill) is not cancelled. *)
Graceful(r) ==
  IF Stopped(r, {"GRACEFUL", "PEACEFUL"}) THEN NoStart(r)
  ELSE [NoStart(r) EXCEPT !.stop_state = "GRACEFUL",
                          !.strayFast = r.strayFast + Stray(r.stop_fast_tid),
                          !.stop_fast_tid = "live"]

Peaceful(r) ==
  IF Stopped(r, {"GRACEFUL", "PEACEFUL"}) THEN NoStart(r)
  ELSE [NoStart(r) EXCEPT !.stop_state = "PEACEFUL"]

(* Mutant of Fast: nothing follows SIGQUIT. *)
FastOnly(r) ==
  IF Stopped(r, {"FAST"}) THEN NoStart(r)
  ELSE [NoStart(r) EXCEPT !.stop_state = "FAST",
                          !.strayFast = r.strayFast + Stray(r.stop_fast_tid),
                          !.stop_fast_tid = None]

Fast(r) ==
  IF Stopped(r, {"FAST"}) THEN NoStart(r)
  ELSE [NoStart(r) EXCEPT !.stop_state = "FAST",
                          !.strayFast = r.strayFast + Stray(r.stop_fast_tid),
                          !.stop_fast_tid = None,
                          !.strayKill = r.strayKill + Stray(r.hard_kill_tid),
                          !.hard_kill_tid = "live"]

Killed(r) ==
  IF Stopped(r, {"KILL"}) THEN r
  ELSE [r EXCEPT !.stop_state = "KILL",
                 !.strayKill = r.strayKill + Stray(r.hard_kill_tid),
                 !.hard_kill_tid = None,
                 !.killed = TRUE]

Stop(s, d, never_forward) ==
  [s EXCEPT ![Target(d, never_forward)] = Graceful(@)]

StopPeaceful(s, d) == [s EXCEPT ![d] = Peaceful(@)]

StopFast(s, d, never_forward) ==
  [s EXCEPT ![Target(d, never_forward)] = Fast(@)]

HardKill(s, d) == [s EXCEPT ![d] = Killed(@)]

(* Each of a set of daemons is told. *)
Each(Told(_), s, ds) == [d \in Names |-> IF d \in ds THEN Told(s[d]) ELSE s[d]]

(* CancelAllTimers, and the end of what Stop and its like began. *)
Ended(r) ==
  [r EXCEPT !.start_tid = None, !.recover_tid = FALSE,
            !.stop_fast_tid = None, !.hard_kill_tid = None,
            !.pid = FALSE, !.stop_state = "NONE", !.killed = FALSE]

(* (int)ceil(::pow(m_backoff_factor, restarts)): what does not fit in an int is
   converted to the smallest one, or to the largest by processors that
   saturate; the sum may wrap. *)
pow[n \in 0 .. RestartsCap] == IF n = 0 THEN 1 ELSE m_backoff_factor * pow[n - 1]
ToInt(x, saturates) ==
  IF x <= IntMax THEN x ELSE IF saturates THEN IntMax ELSE -IntMax - 1
Wrap(x) == IF x > IntMax THEN x - 2 * (IntMax + 1) ELSE x

(* Mutant: the ceiling is missed. *)
NextStartUncapped(restarts, saturates) ==
  LET seconds == Wrap(m_backoff_constant + ToInt(pow[restarts], saturates))
  IN IF seconds < 0 THEN m_backoff_ceiling ELSE seconds

NextStart(restarts, saturates) ==
  LET seconds == Wrap(m_backoff_constant + ToInt(pow[restarts], saturates))
  IN IF seconds > m_backoff_ceiling \/ seconds < 0 THEN m_backoff_ceiling ELSE seconds

CountRestart(n) == IF n < RestartsCap THEN n + 1 ELSE n

(* The timer to start it is registered. *)
Delayed(r, by_command, saturates) ==
  [r EXCEPT
    !.restarts = IF r.newExec \/ by_command THEN 0 ELSE CountRestart(r.restarts),
    !.newExec = FALSE,
    !.recover_tid = FALSE,
    !.start_tid = IF r.newExec THEN new_bin_delay
                  ELSE IF by_command THEN 1
                  ELSE NextStart(r.restarts, saturates)]

Restart(s, d, by_command, saturates) ==
  LET telling == controller[d] # None /\ s[d].restarts >= 2
      t == IF telling THEN Stop(Hold(s, d, TRUE, TRUE), d, FALSE) ELSE s
  IN IF t[d].on_hold THEN t
     ELSE [t EXCEPT ![d] = Delayed(@, by_command, saturates)]

(* Create_Process succeeds. *)
Spawned(r) ==
  [r EXCEPT !.pid = TRUE,
            !.recover_tid = r.restarts > 0,
            !.newExec = FALSE,
            !.killed = FALSE]

(* Mutant of RealStart: no second try. *)
RealStartOnce(s, d, env) ==
  IF s[d].on_hold \/ s[d].pid \/ MasterShuttingDown \/ d \in env.broken THEN s
  ELSE [s EXCEPT ![d] = Spawned(@)]

(* env.broken are the daemons whose executables are missing or do not start. *)
RealStart(s, d, env) ==
  IF s[d].on_hold \/ s[d].pid \/ MasterShuttingDown THEN s
  ELSE IF d \in env.broken THEN Restart(s, d, FALSE, env.saturates)
  ELSE [s EXCEPT ![d] = Spawned(@)]

(* Mutant of Start: the timer to start it is left. *)
StartAnyway(s, d, never_forward, env) ==
  LET t == Target(d, never_forward) IN RealStart(s, t, env)

Start(s, d, never_forward, env) ==
  LET t == Target(d, never_forward) IN
  RealStart([s EXCEPT ![t].start_tid = None], t, env)

(* The exit was expected: Restart is as by command. *)
Expected(r, status) ==
  status = "ok" /\ (r.on_hold \/ MasterShuttingDown \/ r.stop_state # "NONE")

Exited(s, d, status) ==
  LET r == s[d]
      telling == controller[d] # None /\ r.restarts >= 2
      held == [s EXCEPT ![d].on_hold = @ \/ status = "DAEMON_NO_RESTART" \/ telling]
      told == IF telling /\ r.stop_state = "NONE" THEN Stop(held, d, FALSE) ELSE held
      controllees == {c \in Names : controller[c] = d}
      killed == Each(Fast, told, controllees)
  IN [killed EXCEPT ![d] = Ended(@)]

-----------------------------------------------------------------------------
(* class Daemons. *)

(* What may go wrong while the daemons of ds are started. *)
Env(ds) == [broken : SUBSET ds, saturates : BOOLEAN]

Alive(s) == {d \in Names : s[d].pid}

(* What AllDaemonsGone leaves of the reaper and of the master: it stays, exits,
   or executes itself again after a delay (FinishRestartMaster). *)
AllDaemonsGone ==
  /\ reaper' = IF all_daemons_gone_action' = "MASTER_RESET" THEN "DEFAULT_R" ELSE "ALL_R"
  /\ restart_tid' = (restart_tid \/ all_daemons_gone_action' = "MASTER_RESTART")
  /\ gone' = (gone \/ all_daemons_gone_action' = "MASTER_EXIT")
  /\ stop_other' = IF reaper = "ALL_R" THEN stop_other ELSE "NONE"

(* Who handles the calls for the daemons of ds. *)
Targets(ds) == {Target(d, FALSE) : d \in ds}

(* Nobody is left: otherwise the startds, if any, go first. *)
StopAll(StopEach(_, _), mode, s) ==
  \/ /\ Alive(s) = {}
     /\ dm' = s
     /\ AllDaemonsGone
  \/ /\ Alive(s) # {}
     /\ LET first == Alive(s) \cap Startds IN
        /\ dm' = StopEach(s, IF first # {} THEN first ELSE Alive(s))
        /\ stop_other' = IF first # {} THEN mode
                         ELSE IF reaper = "ALL_R" THEN stop_other ELSE "NONE"
     /\ reaper' = "ALL_R"
     /\ UNCHANGED <<restart_tid, gone>>

StopGraceful(s, ds) == Each(Graceful, s, Targets(ds))
StopPatient(s, ds) == Each(Peaceful, s, ds)

StopAllDaemons(s) == StopAll(StopGraceful, "GRACEFUL", s)
StopPeacefulAllDaemons(s) == StopAll(StopPatient, "PEACEFUL", s)

StopFastAllDaemons(s) ==
  \/ /\ Alive(s) = {}
     /\ dm' = s
     /\ AllDaemonsGone
  \/ /\ Alive(s) # {}
     /\ dm' = Each(Fast, s, Targets(Alive(s)))
     /\ stop_other' = IF reaper = "ALL_R" THEN stop_other ELSE "NONE"
     /\ reaper' = "ALL_R"
     /\ UNCHANGED <<restart_tid, gone>>

StartDaemonHere(s, d, env) ==
  IF s[d].pid THEN s ELSE Start(Hold(s, d, FALSE, FALSE), d, FALSE, env)

StartAllDaemons(s, env) ==
  LET started[i \in 0 .. Len(Daemons)] ==
        IF i = 0 THEN s ELSE StartDaemonHere(started[i - 1], Daemons[i], env)
  IN started[Len(Daemons)]

CancelRestartTimers(s) ==
  [d \in Names |-> [s[d] EXCEPT !.recover_tid = FALSE, !.start_tid = None]]

-----------------------------------------------------------------------------
(* Reapers.  A process may exit at any time. *)

DefaultReaper(d, status, saturates) ==
  /\ reaper = "DEFAULT_R"
  /\ dm' = Restart(Exited(dm, d, status), d, Expected(dm[d], status), saturates)
  /\ UNCHANGED group

(* Mutant of AllReaper: the others are not told that the startds are gone. *)
AllReaperAlone(d, status) ==
  /\ reaper = "ALL_R"
  /\ UNCHANGED all_daemons_gone_action
  /\ dm' = Exited(dm, d, status)
  /\ IF Alive(dm') = {} THEN AllDaemonsGone ELSE UNCHANGED <<reaper, stop_other, restart_tid, gone>>

AllReaper(d, status) ==
  /\ reaper = "ALL_R"
  /\ UNCHANGED all_daemons_gone_action
  /\ LET s == Exited(dm, d, status) IN
     \/ /\ Alive(s) = {}
        /\ dm' = s
        /\ AllDaemonsGone
     \/ /\ Alive(s) # {} /\ Alive(s) \cap Startds # {}
        /\ dm' = s
        /\ UNCHANGED <<reaper, stop_other, restart_tid, gone>>
     \/ /\ Alive(s) # {} /\ Alive(s) \cap Startds = {}
        /\ dm' = CASE stop_other = "GRACEFUL" -> StopGraceful(s, Alive(s))
                   [] stop_other = "PEACEFUL" -> StopPatient(s, Alive(s))
                   [] OTHER -> s
        /\ stop_other' = "NONE"
        /\ UNCHANGED <<reaper, restart_tid, gone>>

Reap(d, status) ==
  /\ dm[d].pid
  /\ dm[d].killed => status = "failed"
  /\ (\E saturates \in BOOLEAN : DefaultReaper(d, status, saturates)) \/ AllReaper(d, status)
  /\ UNCHANGED <<MasterShuttingDown, check_new_exec_tid, crossed, commands>>

-----------------------------------------------------------------------------
(* Timers of a daemon. *)

Tables(s) ==
  /\ dm' = s
  /\ UNCHANGED <<group, MasterShuttingDown, check_new_exec_tid, crossed, commands>>

DoStart(d) ==
  /\ dm[d].start_tid # None
  /\ \E env \in Env({d}) : Tables(Start(dm, d, TRUE, env))

Recover(d) ==
  /\ dm[d].recover_tid
  /\ Tables([dm EXCEPT ![d] = [@ EXCEPT !.restarts = 0, !.recover_tid = FALSE]])

StopFastTimer(d) ==
  /\ dm[d].stop_fast_tid = "live"
  /\ Tables(StopFast([dm EXCEPT ![d].stop_fast_tid = "fired"], d, FALSE))

StrayStopFastTimer(d) ==
  /\ dm[d].strayFast > 0
  /\ dm' = StopFast([dm EXCEPT ![d].strayFast = @ - 1], d, FALSE)
  /\ crossed' = TRUE
  /\ UNCHANGED <<group, MasterShuttingDown, check_new_exec_tid, commands>>

HardKillTimer(d) ==
  /\ dm[d].hard_kill_tid = "live"
  /\ Tables(HardKill([dm EXCEPT ![d].hard_kill_tid = "fired"], d))

StrayHardKillTimer(d) ==
  /\ dm[d].strayKill > 0
  /\ Tables(HardKill([dm EXCEPT ![d].strayKill = @ - 1], d))

-----------------------------------------------------------------------------
(* Commands. *)

Command(cmd) ==
  /\ cmd \in Commands
  /\ commands < MaxCommands
  /\ commands' = commands + 1

OneDaemon(s) ==
  /\ dm' = s
  /\ UNCHANGED <<group, MasterShuttingDown, check_new_exec_tid, crossed>>

DAEMON_ON(d) ==
  /\ Command("DAEMON_ON")
  /\ \E env \in Env({Target(d, FALSE)}) : OneDaemon(Start(Hold(dm, d, FALSE, FALSE), d, FALSE, env))

DAEMON_OFF(d) ==
  /\ Command("DAEMON_OFF")
  /\ OneDaemon(Stop(Hold(dm, d, TRUE, FALSE), d, FALSE))

DAEMON_OFF_FAST(d) ==
  /\ Command("DAEMON_OFF_FAST")
  /\ OneDaemon(StopFast(Hold(dm, d, TRUE, FALSE), d, FALSE))

DAEMON_OFF_PEACEFUL(d) ==
  /\ Command("DAEMON_OFF_PEACEFUL")
  /\ OneDaemon(StopPeaceful(Hold(dm, d, TRUE, FALSE), d))

(* From a controller, which may have exited meanwhile. *)
Child(d) == controller[d] # None

CHILD_ON(d) ==
  /\ Command("CHILD_ON")
  /\ Child(d)
  /\ \E env \in Env({d}) : OneDaemon(Start(Hold(dm, d, FALSE, TRUE), d, TRUE, env))

CHILD_OFF(d) ==
  /\ Command("CHILD_OFF")
  /\ Child(d)
  /\ OneDaemon(Stop(Hold(dm, d, TRUE, TRUE), d, TRUE))

CHILD_OFF_FAST(d) ==
  /\ Command("CHILD_OFF_FAST")
  /\ Child(d)
  /\ OneDaemon(StopFast(Hold(dm, d, TRUE, TRUE), d, TRUE))

(* CheckForNewExecutable and one daemon it finds changed. *)
NewExecutable(d) ==
  /\ Command("NEW_EXECUTABLE")
  /\ check_new_exec_tid
  /\ ~dm[d].newExec /\ ~dm[d].on_hold
  /\ LET s == [dm EXCEPT ![d].newExec = TRUE]
     IN OneDaemon(IF dm[d].pid THEN Stop(s, d, FALSE) ELSE s)

DAEMONS_ON ==
  /\ Command("DAEMONS_ON")
  /\ check_new_exec_tid' = TRUE
  /\ crossed' = (crossed \/ reaper = "ALL_R")
  /\ \E env \in Env(Names) : dm' = StartAllDaemons(dm, env)
  /\ UNCHANGED <<group, MasterShuttingDown>>

DaemonsOff ==
  /\ check_new_exec_tid' = FALSE
  /\ all_daemons_gone_action' = "MASTER_RESET"
  /\ UNCHANGED <<MasterShuttingDown, crossed>>

DAEMONS_OFF == Command("DAEMONS_OFF") /\ DaemonsOff /\ StopAllDaemons(dm)

DAEMONS_OFF_FAST == Command("DAEMONS_OFF_FAST") /\ DaemonsOff /\ StopFastAllDaemons(dm)

DAEMONS_OFF_PEACEFUL ==
  Command("DAEMONS_OFF_PEACEFUL") /\ DaemonsOff /\ StopPeacefulAllDaemons(dm)

MasterOff ==
  /\ MasterShuttingDown' = TRUE
  /\ all_daemons_gone_action' = "MASTER_EXIT"
  /\ check_new_exec_tid' = FALSE
  /\ UNCHANGED crossed

MASTER_OFF ==
  /\ Command("MASTER_OFF")
  /\ ~MasterShuttingDown
  /\ MasterOff
  /\ StopAllDaemons(CancelRestartTimers(dm))

MASTER_OFF_FAST ==
  /\ Command("MASTER_OFF_FAST")
  /\ MasterOff
  /\ StopFastAllDaemons(CancelRestartTimers(dm))

(* RestartMaster; new executables are still looked for. *)
RESTART ==
  /\ Command("RESTART")
  /\ MasterShuttingDown' = TRUE
  /\ all_daemons_gone_action' = "MASTER_RESTART"
  /\ UNCHANGED <<check_new_exec_tid, crossed>>
  /\ StopAllDaemons(dm)

(* FinalRestartMaster: the timer of FinishRestartMaster goes off. *)
FinalRestartMaster ==
  /\ restart_tid
  /\ gone' = TRUE
  /\ UNCHANGED <<dm, reaper, all_daemons_gone_action, stop_other, restart_tid,
                 MasterShuttingDown, check_new_exec_tid, crossed, commands>>

-----------------------------------------------------------------------------
(* main_init has started the daemons. *)
Init ==
  /\ reaper = "DEFAULT_R"
  /\ all_daemons_gone_action = "MASTER_RESET"
  /\ stop_other = "NONE"
  /\ MasterShuttingDown = FALSE
  /\ check_new_exec_tid = TRUE
  /\ restart_tid = FALSE
  /\ gone = FALSE
  /\ crossed = FALSE
  /\ commands = 0
  /\ \E env \in Env(Names) : dm = StartAllDaemons([d \in Names |-> NewDaemon], env)

Timer(d) ==
  \/ DoStart(d)
  \/ Recover(d)
  \/ StopFastTimer(d)
  \/ StrayStopFastTimer(d)
  \/ HardKillTimer(d)
  \/ StrayHardKillTimer(d)

DaemonCommand(d) ==
  \/ DAEMON_ON(d)
  \/ DAEMON_OFF(d)
  \/ DAEMON_OFF_FAST(d)
  \/ DAEMON_OFF_PEACEFUL(d)
  \/ CHILD_ON(d)
  \/ CHILD_OFF(d)
  \/ CHILD_OFF_FAST(d)
  \/ NewExecutable(d)

MasterCommand ==
  \/ DAEMONS_ON
  \/ DAEMONS_OFF
  \/ DAEMONS_OFF_FAST
  \/ DAEMONS_OFF_PEACEFUL
  \/ MASTER_OFF
  \/ MASTER_OFF_FAST
  \/ RESTART

Statuses == {"ok", "failed", "DAEMON_NO_RESTART"}

Next ==
  /\ ~gone
  /\ \/ MasterCommand
     \/ FinalRestartMaster
     \/ \E d \in Names : DaemonCommand(d) \/ Timer(d) \/ \E st \in Statuses : Reap(d, st)

Spec == Init /\ [][Next]_vars

(* A stop timer and that of FinalRestartMaster go off, and a process dies of
   SIGKILL; it need not heed SIGTERM or SIGQUIT. *)
FairSpec ==
  /\ Spec
  /\ WF_vars(~gone /\ FinalRestartMaster)
  /\ \A d \in Names :
       /\ WF_vars(~gone /\ (StopFastTimer(d) \/ HardKillTimer(d)))
       /\ WF_vars(~gone /\ dm[d].killed /\ Reap(d, "failed"))

-----------------------------------------------------------------------------
(* Properties. *)

TypeOK ==
  /\ dm \in [Names -> Daemon]
  /\ reaper \in {"DEFAULT_R", "ALL_R"}
  /\ all_daemons_gone_action \in {"MASTER_RESET", "MASTER_RESTART", "MASTER_EXIT"}
  /\ stop_other \in {"NONE", "PEACEFUL", "GRACEFUL"}
  /\ {MasterShuttingDown, check_new_exec_tid, restart_tid, gone, crossed} \subseteq BOOLEAN
  /\ commands \in 0 .. MaxCommands

(* However often a daemon fails, the delay that NextStart computes stays
   between one second and the ceiling: the overflow of the power is caught.
   Every variable has its type. *)
BackoffIsBounded ==
  /\ TypeOK
  /\ \A d \in Names : dm[d].start_tid \in {None, new_bin_delay} \cup 1 .. m_backoff_ceiling

Kept(d) == dm[d].on_hold \/ dm[d].pid \/ dm[d].start_tid # None

Keeping == check_new_exec_tid /\ ~MasterShuttingDown /\ reaper = "DEFAULT_R"

(* "If any daemon crashes, the condor_master will ... restart the daemon": one
   that should be running is running or has its timer to start it.  No order of
   exits, failing starts, holds, recoveries and timers makes the master forget
   a daemon that controls no other, unless DAEMONS_ON comes while daemons are
   going off or a stop timer that StopFast forgot goes off. *)
LoneDaemonsAreKept ==
  Keeping /\ ~crossed => \A d \in Names : d \notin Range(controller) /\ controller[d] = None => Kept(d)

Patient == \E d \in Names : dm[d].stop_state = "PEACEFUL"

(* A controllee that Exited has not told to stop: Stop and StopFast would tell
   its controller, which is gone and is not started again. *)
Stranded ==
  \E d \in Names : /\ controller[d] # None
                   /\ dm[d].pid /\ dm[d].stop_state \notin {"FAST", "KILL"}
                   /\ ~dm[controller[d]].pid

(* Once the master is shutting down it goes away, even if no process heeds
   SIGTERM or SIGQUIT and whatever timers and restarts were under way.  It may
   stay only as long as DAEMONS_OFF makes it stay, a daemon was given all its
   time (PEACEFUL), or a controllee is left that only its dead controller could
   stop. *)
ShutdownCompletes ==
  MasterShuttingDown /\ all_daemons_gone_action # "MASTER_RESET"
    ~> gone \/ all_daemons_gone_action = "MASTER_RESET" \/ Patient \/ Stranded

(* A daemon told to stop gets from SIGTERM to SIGQUIT to SIGKILL: no sequence
   of commands and of timers leaves a process that is being stopped without
   the timer of its next step.  (That of a controllee tells its controller.) *)
StopIsArmed ==
  \A d \in Names :
    /\ dm[d].stop_state = "GRACEFUL" =>
         \/ "live" \in {dm[d].stop_fast_tid, dm[d].hard_kill_tid}
         \/ dm[d].strayKill > 0
         \/ controller[d] # None
    /\ dm[d].stop_state = "FAST" => dm[d].hard_kill_tid = "live" \/ dm[d].strayKill > 0
    /\ dm[d].stop_state = "KILL" => dm[d].killed

(* A daemon is never both running and waiting to be started, so it is never
   started twice. *)
StartTimerMeansDown ==
  \A d \in Names : dm[d].start_tid # None => ~dm[d].pid

=============================================================================
