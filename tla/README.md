# A TLA+ model of HTCondor's core

HTCondor is a set of daemons (master, collector, negotiator, schedd, startd,
shadow, starter, ...) that share one runtime, DaemonCore, and one way of keeping
state on disk, the ClassAdLog. This development models those two foundations
and four of the services built on them: the election of the active central
manager, the master and the daemons it keeps, connection brokering, and the
slot of a startd.

Every daemon is a single-threaded process around `DaemonCore::Driver`. Its
concurrency comes from handlers that call back into the data structures being
walked, from unix signals, from children and their pids, from other daemons and
their messages, and from crashes.

## Modules

| module | models | source |
|---|---|---|
| `ClassAdLog` | the persistent table: transactions, commit, crash, recovery, rotation | `condor_utils/classad_log.{h,cpp}`, `log_transaction.cpp`, `log.cpp` |
| `TransactionalStore` | what a ClassAdLog promises, without files (abstract) | |
| `ClassAdLogReader` | the mirror of a log that another process writes | `condor_utils/ClassAdLogReader.cpp`, `ClassAdLogProber.cpp`, `ClassAdLogParser.cpp` |
| `TimerManager` | the timer list and `Timeout` | `condor_daemon_core.V6/timer_manager.cpp` |
| `DaemonCoreDriver` | the event loop and its signals | `condor_daemon_core.V6/daemon_core.cpp`, `daemon_core_main.cpp` |
| `ProcessReaper` | creating children and reaping them | `daemon_core.cpp`, `condor_utils/forkwork.cpp` |
| `HAD` | the election of the active central manager | `condor_had/StateMachine.cpp`, `HAD.cpp` |
| `MasterDaemon` | the master and the daemons it keeps | `condor_master.V6/masterDaemon.cpp`, `master.cpp` |
| `CCB` | the connection broker, the daemons registered with it and their clients | `ccb/ccb_server.cpp`, `ccb_listener.cpp` |
| `StartdSlot` | one slot of a startd, its claims and its starter | `condor_startd.V6/ResState.cpp`, `Resource.cpp`, `claim.cpp`, `Starter.cpp`, `command.cpp`, ... |
| `ClassAdLogProofs`, `TimerManagerProofs`, `DaemonCoreDriverProofs`, `ProcessReaperProofs`, `HADProofs`, `MasterDaemonProofs`, `CCBProofs`, `ClassAdLogReaderProofs` | proofs about the modules they are named after | |
| `MC*` | constants for TLC | |

`PROJECT.json` maps every definition to the lines it models, lists the parts of
HTCondor, modelled or not, the hazards of the code with the properties that
cover them, the runs, the mutations that each property detects, and the
theorems.

## Inventory

### ClassAdLog

*State.* A hash table of ads, an optional active transaction (a list of log
records), the log file, its sequence number, and the historical logs kept
beside it. *Operations.* `BeginTransaction`, `AbortTransaction`,
`CommitTransaction`, `CommitNondurableTransaction`, `AppendLog`, `FlushLog`,
`ForceLog`, `TruncLog`, `getActiveTransaction`, `setActiveTransaction`,
`InitLogFile` (load) and `StopLog`.

The model keeps the file as a sequence of records with three marks: what has
been written to the stdio buffer (the whole sequence), what the operating
system has (`flushed`), and what the disk has (`synced`). A process crash keeps
any prefix not shorter than `flushed`, a machine crash any prefix not shorter
than `synced`; both may leave a fragment of the next record (`torn`). A record
written behind a fragment ends up on the fragment's line (`glued`) and cannot
be read. Commit, load, replay and rotation are steps of one record each, so a
crash can come between any two of them. `Play` is `LogRecord::Play` of the four
operations; an attribute's value is a member of a set.

Two history variables support the properties. `gh` holds, for each prefix of
the file, the table after playing everything (`mem`), the table of the completed
transactions (`com`) and whether a transaction is open; it is extended as
records are written and cut as the file is cut. `acked` says that the last
change has been reported as durable.

*Hard.* Crashes inside commits, loads and rotations; records played before they
are synced; fragments at the end of the file; rotations of which any file
operation fails.

### ClassAdLogReader

*State.* The parser's `nextOffset` and its last two entries, the prober's
`last_size` and `last_seq_num`, and the mirror its consumer builds. *Operations.*
`Poll`, with the probe of the first record, the probe of the last one, a bulk
load or an incremental one, each read of the file being a step between which
the writer may append, crash, recover or rotate. *Hard.* A file that is replaced
between two reads; half a record at its end, which the writer's recovery cuts
off again; a size that the prober remembers although less was read.

The writer is the part of `ClassAdLog` that a reader sees, with the steps the
reader cannot tell apart joined. A record takes four units of the file (`Width`),
so the file may end in the body of a record and, at the end of a transaction, in
its comment or right before its newline. The rest of a comment that was cut is
taken to be no record: what the schedd writes there begins with a time.

### TimerManager

*State.* A list sorted by due time with `list_tail`, the timers, the timer whose
handler runs (`in_timeout`), `did_reset`, `did_cancel`. *Operations.* `NewTimer`,
`ResetTimer`, `ResetTimerPeriod`, `ResetTimerTimeslice`, `CancelTimer`,
`CancelAllTimers`, `reconfig`, `Timeout`. *Hard.* Handlers call all of these
while `Timeout` walks the list; timers that reset themselves to zero; clocks
that are set back; `TIME_T_NEVER`.

`Timeout` is `TimeoutStart`, then `Fire` and `HandlerReturns` for each handler,
then `TimeoutReturns`; while a handler runs the other operations are enabled.
The delay that a timeslice computes from run times is any delay.

### DaemonCoreDriver

*State.* `is_pending` of each signal, `sent_signal`, the async pipe,
`async_sigs_unblocked`, the signal mask, the timeout of `select`. *Operations.*
`Signal_Myself`, the unix signal handlers, `HandleSigCommand` (DC_RAISESIGNAL),
and the phases of `Driver`: pump work, scan of the signal table, drain of the
pipe, timers, flag, unmask, select, mask, flag, socket handlers. *Hard.* A signal
at any point between the scan and `select`; signals raised by handlers of
signals.

`running` is the signal whose handler the scan has called; handlers appear as
the freedom to raise signals at that point. `kpend` are the signals pending in
the kernel, delivered only while they are not masked.

### ProcessReaper

*State.* The kernel's process table, `pidTable`, `WaitpidQueue`, the pending
SIGCHLD and DC_SERVICEWAITPIDS, `num_pid_collisions`, the workers of `ForkWork`.
*Operations.* `Create_Process`, `Create_Thread`, `ForkWork::NewJob`,
`HandleDC_SIGCHLD`, `HandleDC_SERVICEWAITPIDS`, `HandleProcessExit`, and the exit
of a child. *Hard.* The kernel reuses a pid as soon as `waitpid` has returned
it, while `pidTable` still has the old process under it; reapers create
processes; the number of reaps per round is limited.

Each process has a number of its own, which is also its exit status, so that
processes with the same pid can be told apart. A collision is one step: the
child finds its pid in the copied `pidTable`, exits and is waited for.

### HAD

*State.* Of each HAD its state (pre-start, passive, election, leader), the parity
of its cycles and the ids it has heard from; the messages on their way; the
masters that run the negotiator. *Operations.* `cycle` with `step` and
`sendMessages`, `commandHandlerHad`, `reinitialize`, the shutdowns, commands to the
master that fail; machines that die, partitions and repairs. *Hard.* Cycles are
not synchronised, buffers are cleared only at some steps, and a change may come
at any point of an election.

*Time.* All HADs have the same interval, half of which is longer than all the
time-outs of the messages of a cycle (`softReconfigure`). So between two cycles
of a HAD every other one runs one (`behind`), and a message is received before
its sender's next cycle, or the receiver's if the sender has died.

### MasterDaemon

*State.* Of each daemon its process, `on_hold`, `restarts`, `newExec`,
`stop_state` and its timers; of the master the reaper in use, the action when
all daemons are gone, `stop_other_daemons_when_startds_gone`. *Operations.* The
timers (`DoStart`, `Recover`, `StopFastTimer`, `HardKill`, `FinalRestartMaster`), the two
reapers, and the
commands: on and off (graceful, fast, peaceful) for one daemon, a child or all,
new executables, `MASTER_OFF`, `RESTART`. *Hard.* Commands, exits and timers in any
order; calls that a controllee forwards to its controller; an overflow in the
back-off; timers whose ids are overwritten (`strayFast`, `strayKill`).

The methods of class `daemon` call each other on several daemons, so they are
operators from the table of daemons to the table of daemons, and a handler is
one step.

### CCB

*State.* Of the broker its targets, requests and reconnect records; the
reconnect file, flushed now and then; of each daemon the phase of its
`CCBListener`, its id and cookie; the connections with what is under way on them;
the clients with what they were told and who connected to them. *Operations.*
`HandleRegistration` (new id or the old one), `HandleRequest`,
`HandleRequestResultsMsg`, `HandleRequestDisconnect`, `TargetDisconnect`, `Poll`,
`SweepReconnectInfo`, `InitAndReconfig`; `ReconnectTime`, `CCBConnectCallback`,
`ReadMsgFromCCB`, `Disconnected`, `HeartbeatTime`, `ReverseConnected`; crashes of the
broker, connections that die silently, daemons that move. *Hard.* The broker
restarts with what was flushed, counts requests from one again, and meets
daemons that still hold ids, records and reports of its earlier life.

### StartdSlot

*State.* `r_state` and `r_act`, the destination of a preemption, three claims
(`r_cur`, `r_pre`, `r_pre_pre`), the starter with the last signal it got, the
backfill client, draining. *Operations.* The commands of the schedd (request,
activate, deactivate, suspend, continue, release), of the negotiator (match) and
of the administrator (vacate, drain), the timers (match, lease, retirement, soft
and hard kill), the exits of starters and of the backfill client, and the
evaluation of the policy. *Hard.* `ResState::change` calls itself through the
states it enters and leaves, and what it calls may delete the claim that its
caller goes on to use.

Every function is an operator from the resource to the set of resources it may
leave behind, one for each way in which policy, peers and kernel may answer; the
calls that it has still to make are a stack, and a handler runs until the stack
is empty.

### How the parts interact

`Driver` calls `Timeout` and uses its result as the timeout of `select`. SIGCHLD
is marked by its unix handler and handled by the scan, which collects the exits
and raises DC_SERVICEWAITPIDS; its entry comes before that of SIGCHLD in the
table, so it is handled in the next round, which is why `Driver` must not sleep
then. Handlers of all kinds create processes, set timers and write to the log.
The fairness that `ProcessReaper` assumes of its two signals is the property
`SignalIsHandled` of `DaemonCoreDriver`, that of the timers of `MasterDaemon`,
`CCB` and `StartdSlot` is `DueTimerIsRun` of `TimerManager`, and that of reaped
processes is `ExitIsServiced` of `ProcessReaper`. The HAD commands `CHILD_ON` and
`CHILD_OFF_FAST` of `HAD` are handlers of `MasterDaemon`. `ClassAdLogReader` reads
what `ClassAdLog` writes.


## Runs

Deadlock is checked unless a section below says otherwise.

### ClassAdLog

One key, one attribute and one value suffice for the interesting cases: the
order of operations on one ad shows whether a transaction was replayed whole,
partly or twice, and the records of different keys do not interact. `MaxLog` 5
or 6 leaves room for a header, a transaction of up to four records and an
operation outside one. Two crashes (`MaxDowns`) allow a crash during the recovery
from another one. One historical log is kept, so a rotation also removes one.
At these bounds the daemon may run out of room in the log and only rotate, so no
behaviour ends in a deadlock.

- `log_crash`: creating an ad, setting and deleting its attribute, with crashes everywhere and
  with rotations that fail to save history, to create the new file or to rename
  it. Checks `TypeOK`; that memory and log agree (`LogMatchesTable`); that a log
  in use has no fragment, glued record or open transaction
  (`OpenLogIsWellFormed`); that recovery does not meet what
  `InstantiateLogEntry` gives up on (`RecoveryIsNeverFatal`); that the historical
  logs form a window without gaps (`HistoryWindow`); and the refinement
  `StoreSpec`: the contents change by whole transactions, a process crash returns
  to contents no older than the last flush, a machine crash to contents no
  older than the last acknowledged sync. `RecoveryCompletes`: a log that went down
  is in use again, unless rotations fail for ever. Fairness: the steps of load,
  rotation and commit are loops that do not wait, and the master restarts a
  daemon that has gone down (`Restart`). None is assumed of clients.
- `log_faults`: creating and destroying, transactions put aside, dumps that cannot be flushed or synced,
  records cut inside their optional field. Then memory and log may differ
  (see *Disagreements*), but a load still yields exactly the completed
  transactions of the readable part (`LoadReplaysPrefix`).

### ClassAdLogReader

`reader`: one key, two transactions or records outside of one, and one crash or
rotation, which is the least that changes the file under the reader. Checks that
the mirror is at every moment what a prefix of one file makes (`MirrorIsPrefix`)
and that it becomes the committed table once the writer rests, unless the reader
stands right before the newline of a transaction's end (`MirrorCatchesUp`; see
*Disagreements*), given that the log is polled for ever and that the writer
finishes what it writes and is started again. The bounds end the writer's work,
so deadlock is not checked.

### TimerManager

`timer_list` has three timers, the least with which an insertion lands in the
middle, that are due at once or never, one of which may have a timeslice (`Slices`), and both modes
of `Timeout` (one handler per call, no limit). It checks that the list is sorted
(`ListIsSorted`), complete and without duplicates, with the right tail, and that
the running timer is not freed (`NoTimerIsLost`), that without a limit no timer
runs twice in a call (`OncePerTimeout`) and none that was due is left out
(`DueTimersWereRun`). `timer_fair` has two timers, delays of 0, 1 and never, no timeslices, and a
clock that moves both ways; it checks `ListIsSorted` and that a due timer is run,
put off or cancelled (`DueTimerIsRun`), given that the event loop keeps calling
`Timeout` and handlers return. Nothing is assumed of the clock. `TIME_T_NEVER` is
4, beyond the clock.

### DaemonCoreDriver

`driver_loop` has three signals: DC_SERVICEWAITPIDS, which comes before SIGCHLD in
the table and is raised by its handler, and SIGTERM. There are no bounds: the
state space is finite. It checks `NoSleepOnSignal`, `NoStaleWakeup`, and
`SignalIsHandled` under fairness of the loop and of the kernel's delivery,
without assuming that time passes: `select` may sleep for ever unless it has a
zero timeout or something in the pipe. It is about daemons whose timer handlers
serve no commands (`Services` FALSE; see *Disagreements* for the others).

### ProcessReaper

`reaper` has four processes on two pids, so that a pid is reused at least twice,
one reap per round, two retries, and up to two workers of ForkWork under a limit
that may be changed at any time: `TypeOK`, with the limits on retries and on the
growth of the workers, `ReapedOwnStatus` (until a worker is forked),
`EntryHasProcess`, and `ExitIsServiced` under the fairness that a creation in
progress ends, the handlers go on, the loop gets to each of the two signals, and
no reaper creates processes for ever.

### HAD

`had_election`: three HADs, with and without a primary, and two changes (a start,
a stop, a partition, a repair, a master that cannot be reached). Nine cycles after
the last change each part of the pool has exactly one leader, the primary if it
is there (`OneLeaderPerPart`); without partitions and a primary there are never
two leaders, not even for a moment (`NeverTwoLeaders`); negotiators run exactly
where HADs lead, but for the masters that missed a command
(`NegotiatorsOfLeaders`). `OneLeaderPerPart` says when the election is over, so it
needs no fairness. A pool whose HADs are all down, with no change left, stands
still, so deadlock is not checked.

### MasterDaemon

`master`: HAD, the negotiator it controls and a startd, two commands of any kind,
exits at any time, failing starts, and processes that heed neither SIGTERM nor
SIGQUIT. Checks that the back-off stays within its bounds although its power
overflows (`BackoffIsBounded`; `int` has three bits here); that nobody is started
twice (`StartTimerMeansDown`); that a stop in progress has the timer of its next
step (`StopIsArmed`); that a daemon without controller or controllee that should
run is running or about to be (`LoneDaemonsAreKept`); and that a shutdown comes to
its end (`ShutdownCompletes`) given that the stop timers and the timer of the
restart go off and SIGKILL kills, unless a controllee runs on for ever without its
controller (`Stranded`).
Two commands suffice for every pair to meet. The master exits, so deadlock is not
checked.

### CCB

`ccb_requests`: two interchangeable daemons and two clients (symmetry), three
connections, one fault (a crash of the broker, a silent cut, a give-up) and two
sweeps: the tables of requests and targets agree (`RequestsHaveTargets`), the
record of a registered daemon does not expire (`TargetsHaveRecords`), a client is
told of success only when the daemon it asked for did connect (`AnswersAreOwn`), and
only that one connects to it (`RequestsReachTheirDaemon`). Which daemon it is these
two say as long as nothing is `pruned`.
`ccb_reconnect`: no clients, two faults, two addresses: every daemon is in the end
registered over a live connection, under the id it believes it has
(`ReachableInTheEnd`), given that the broker polls and is restarted, messages
arrive, and heartbeats find dead connections. `Jump` is 2 instead of 100, and one
record is written between flushes: what matters is that fewer are lost in a
crash than ids are skipped. Requests end, so deadlock is not checked. Instances
with three sweeps (4.3 million states) and two faults (11.9 million, and 16.7
million with one client) were checked as well.

### StartdSlot

`startd_slot`: one slot with backfill, any commands, exits, decisions of the
policy and one failing signal, without bounds: the state space is finite, and
`HasBackfill` is the only constant. Checks that no EXCEPT or ASSERT of the state
machine is reached (`NoExcept`), that the claim objects are in place
(`ClaimsAreInPlace`), that state and processes agree (`StarterMatchesActivity`), and
that a schedd waiting on its REQUEST_CLAIM is answered (`RequestIsSettled`), unless
the claim in its way stays suspended for ever: only run time uses up retirement
(`claim.cpp:428`), as `docs/admin-manual/configuration-macros.rst:3245` says. The
fairness is what the polls, the kill timers and the exits after SIGKILL give: a
claim that runs again and again while a request waits is preempted in the end,
as its run time adds up over suspensions, and no state that a kill timer or the
reaping of a killed process ends lasts for ever.

## Disagreements

What the code does where a comment, a manual page or its own intention says
otherwise; met while modelling. The properties above are stated so that they
hold; each of these is why one of them has the exception that it has.

- *ClassAdLog.* A record of a new ad cut inside its optional last word is read as a
  whole one, and the log is used again although its last line is broken
  (`OptionalTear`); `LogMatchesTable` and `OpenLogIsWellFormed` are about the files
  without such a record. A dump that could not be flushed or synced replaces the log
  (`Faults` "flush", "sync").
- *ClassAdLogReader.* `readEndTransactionBody` takes the end of a transaction as read
  when the file stops in its comment (`ClassAdLogParser.cpp:495`). A reader that stopped
  right before the newline reads that newline as the end of the file in every later
  poll, which counts as a success (`log.cpp:75`, `ClassAdLogParser.cpp:167`), and its
  mirror stays as it is until the log is rotated.
- *Driver.* DC_RAISESIGNAL read inside a timer handler (the negotiator's
  `ServiceCommandSocket`) is left pending while `select` sleeps (`Services`).
- *ProcessReaper.* A ForkWork worker's exit status can reach the reaper of a
  process that got its pid, as workers are not in `pidTable`. `setMaxWorkers` may set
  the limit below the number of workers (`forkwork.cpp:130`). The retry of
  `Create_Process` after a pid collision drops its last six arguments.
- *TimerManager.* `Timeout` returns 0 when an event is due and -1 when there are
  none, where `timer_manager.cpp:348` has 0 for none. A timer set to TIMER_NEVER is
  due when the clock reaches TIME_T_NEVER, 0x7fffffff, in January 2038, where
  `condor_timer_manager.h:70` says that it never expires.
- *HAD.* The election may take nine cycles after a change; the manual's estimate,
  12 times the number of HADs times the timeout, is less than six.
- *MasterDaemon.* `StopFast` sets `stop_fast_tid` to -1 without cancelling the timer
  (`masterDaemon.cpp:1291`). After condor_off, condor_off -fast and condor_on the old
  timer calls `StopFast`, which cancels the start timer of a daemon in back-off
  (`:1276`), and nothing starts it again, where the manual says that the master
  restarts a daemon that crashes (`docs/man-pages/condor_master.rst:20`). That is
  `crossed`, as is DAEMONS_ON before DAEMONS_OFF is done, which leaves daemons down.
  A stop forwarded from a controllee to a controller in back-off cancels the
  controller's start timer; `LoneDaemonsAreKept` is about the others. DAEMONS_OFF
  after MASTER_OFF turns the action into MASTER_RESET, and MASTER_OFF with a
  controllee running whose controller is dead waits for ever (`Stranded`).
- *CCB.* Two crashes of the broker before it has flushed a record make it give out
  the same ids twice (`pruned`).
- *StartdSlot.* SUSPEND_CLAIM on an idle claim and then CONTINUE_CLAIM make the slot
  Claimed/Busy without a starter (`idleSuspended`). The match timer may still run
  on a claimed slot, which the comment at `claim.cpp:613` says "really shouldn't
  ever happen". The change to Claimed inside `accept_request_claim` may end the
  claim that the function goes on to answer (`down`).

## Proofs

The proofs are checked by TLAPS. The theorems hold for every value of the
constants, so for any number of keys, transactions, timers, signals, pids,
HADs, clients, daemons and crashes. Each theorem `Spec => []P` goes by an inductive
invariant, which TLC checked on the instances of the runs before it was proved.

### ClassAdLog

Two theorems assume nothing of the disk:

- `LoadingIsExact` (`LoadReplaysPrefix`) and `TypeCorrect`. A log whose dump was
  cut by a failed flush, or whose last record lost a word in a crash, may have
  markers in any order, so the loader's transaction is no longer the records since
  the last begin marker. Their invariant `AnyFile` says instead that there is a
  path of tables that starts at the loader's, plays one held-back record at a time
  and ends at what the file stands for (`PlaysTo`); reading a record makes the path
  longer at its end, replaying one makes it shorter at its start.

The others assume `ReliableFiles`: no record is cut inside its optional field and
flushing and syncing a dump do not fail, the two cases of *Disagreements*
in which the properties are false. Failing links, creations and renames remain
possible.

- `Invariance`: `Spec => []IInv`. None of the properties is inductive.
  `IInv` says for each phase how the table relates to the file: in use it is
  `com` of the whole file; during a commit `mem` of the whole file; during a load
  `com` of the part that was read, with the loader's transaction equal to the
  records since the begin marker; during a replay `mem` at the record reached;
  during a rotation the dump so far stands for the part of the table already
  visited. `IsTrace` ties `gh` to the file record by record, which lets appending
  and cutting be proved without induction over the file. `Glued` says that only a
  header was ever written behind a fragment.
- `TableIsLogged`, `LogIsWellFormed`, `RecoveryNotFatal`: the invariants
  `LogMatchesTable`, `OpenLogIsWellFormed`, `RecoveryIsNeverFatal`.
- `HistoryIsKept` (`HistoryWindow`): the historical logs are always those of the
  last `MaxHist` numbers, whatever a crash or a failure left of a rotation. The
  daemon knows the number only from the file, so `HistInv` says that all headers of
  the file carry one number, that it is synced unless it is the 1 of a log without
  header, and that the history reaches up to that number or the one before.
- `Implements`: `Spec => StoreSpec`. The contents of the store are the completed
  transactions of the file, and the outcomes of a crash those of its prefixes
  from `flushed` or `synced` on. A step of the log is a step of the store or
  leaves it alone; the end marker of a transaction is the step at which it takes
  effect. `Pending` says that nothing is acknowledged before it is synced.

### ClassAdLogReader

- `TheMirrorIsAPrefix` (`MirrorIsPrefix`), by `ReaderInv`: every file begins with its
  number and only grows, also when the log is rotated to another one; a poll that
  goes on where the last one stopped does so in the file that was loaded last,
  since `last_seq_num` is never above the number of that file nor that one above
  the number of the file which is open; and what lies before `nextOffset` are
  whole records, or part of the end of a transaction, which changes nothing. What
  `Replay` does with one more record is proved from its recursion
  (`ReplayStep`).

### TimerManager

Assumption `ClockAssumption`: the clock stays below TIME_T_NEVER.

- `TimerInvariance`: `Spec => []TimerInv`. `Linked` says that the list is a chain
  without repetition of exactly the timers that are neither deleted nor cancelled
  by their own running handler, that it is sorted, and that `list_tail` is its last
  timer; the other conjuncts say which timer is running in each phase, and that
  in the mode without limit no timer that was run is in `ready` again. What
  `InsertTimer` and `RemoveTimer` do to a chain are lemmas of their own; a
  fact about a list is proved by its smallest counterexample (`LeastExists`).
- `TimersStaySorted` (`ListIsSorted`), `TimersAreKept` (`NoTimerIsLost`),
  `NoTimerRunsTwice` (`OncePerTimeout`), `NoDueTimerIsSkipped`
  (`DueTimersWereRun`). The last one holds because the due timers are a prefix of a
  sorted list.

### DaemonCoreDriver

- `DriverInvariance`, with the invariant that says what stands between a pending
  signal and a long sleep in each phase: behind the scan `sent_signal`, then the
  zero timeout, then the pipe; and where the flag and the mask stand.
- `DriverTypeCorrect`, `DriverNoStaleWakeup`; `DriverNeverSleepsOnSignal` for
  daemons without `Services`.

### ProcessReaper

- `ReaperInvariance`: until a worker is forked `pidTable` knows every process
  the kernel has and every exit in the queue, no pid is in the queue twice, and a
  pid in the queue is free in the kernel. From it `StatusesNeverCross`
  (`ReapedOwnStatus`, which is about daemons that have forked no worker).
- `NoOrphanedEntry` (`EntryHasProcess`), with any number of workers: the number of
  an entry is found under no other pid (`OnePid`), so an exit that leaves the queue
  belongs to the entry that is erased or to none.
- `LimitsAreKept` (`TypeOK`): a creation retries at most `MaxRetry` times, and
  `ForkWork` takes on a worker only below the limit in force, though the limit may be
  set below the number of workers there are.

### HAD

- `NegotiatorsFollowLeaders` (`NegotiatorsOfLeaders`): every change of state tells
  the master in the same step.
- `OneLeaderAtMost` (`NeverTwoLeaders`): without partitions and a primary. The
  invariant is about pairs: a candidate has heard the leader, and the lower one of
  two candidates the higher one, or the message is on its way, or there is still
  a cycle to come in which it is sent before the election is decided; the last
  needs that nobody is more than one cycle ahead (`behind`).

### MasterDaemon

Assumption `MasterAssumption`: a controller has no controller of its own, and the
back-off parameters are positive ints.

- `MasterInvariance`: `Spec => []MasterInv`. `Good` says of each daemon that it has its
  type, that its start delay is in bounds, that it has no start timer while it
  runs and no stop timer while it does not, and that a stop in progress has its next
  timer. A step passes through tables in which that fails for a moment (a timer that
  has fired and whose id is not reset yet), so the operators have their own
  lemmas: first what `Graceful`, `Fast`, `Killed`, `Delayed`, `Spawned` and `Ended` do
  to one record, then what `Stop`, `Restart`, `Start` and `Exited` do to the table, and
  to the table of a controller. `GoingOff` says that while all daemons are going
  the master does not look for new executables, unless DAEMONS_ON came meanwhile;
  without it the return to the default reaper could find a daemon forgotten.
- `DelaysAreBounded` (`BackoffIsBounded`) rests on the fact that every power is
  positive, so that the sum either is at least 1 or has wrapped below zero.
- `NoDoubleStart` (`StartTimerMeansDown`), `EveryStopIsArmed` (`StopIsArmed`),
  `NoDaemonIsForgotten` (`LoneDaemonsAreKept`).
- `StartAllDaemons` and the powers are recursive functions. That the recursion has
  a result is proved by its smallest counterexample.

### CCB

- `RequestsKeepTargets` (`RequestsHaveTargets`), by `TablesInv`: each target has a
  connection that both ends know or that the broker will find closed, and each
  request under way on a connection is one of the broker's or is ignored.
- `SuccessWasReached` (`AnswersAreOwn`), by `AnswersInv`: a report of success that is
  under way is about a request whose client was connected to, also after the
  broker has restarted and numbers its requests from one again. That it was the
  daemon it asked for follows from `IdsStayTheirOwners`, so only as long as nothing is
  `pruned`.
- `RecordsOutliveTargets` (`TargetsHaveRecords`), by `RecordsInv`.
- `IdsStayTheirOwners` (`RequestsReachTheirDaemon`), from the assumption that fewer
  records are written between two flushes than a restart skips ids
  (`CCBAssumption`). `IdsInv` has two parts, both for as long as `pruned` is false.
  `IdsCounted` says where the next id stands with respect to the file: behind
  every record, and not further beyond the flushed ones than the records in the
  buffer account for, so that `LoadNext` of what a crash leaves of the file is
  never below an id that was given. `OwnersInv` says that at most one daemon
  believes it has an id, says so on a connection, is told so or is its target,
  and that what is asked of a daemon on behalf of a client is asked of the one
  the client wants. What loading computes, line by line, is proved by the
  smallest line at which it would be wrong (`PastLinesIs`, `LoadedIs`).

### Only model-checked

- Liveness, which the prover does not reach: `RecoveryCompletes`, `DueTimerIsRun`,
  `SignalIsHandled`, `ExitIsServiced`, `ShutdownCompletes`, `ReachableInTheEnd`,
  `RequestIsSettled`, `MirrorCatchesUp`; also `OneLeaderPerPart`, which says that an
  election comes to its end and counts cycles for it.
- The invariants of `StartdSlot`: its handlers are recursive operators on sets. Its
  state space is finite, and TLC visits all of it.

## Not modelled

- ClassAdLog: opening read-only, a failing sync of the directory after the rename,
  a failing removal of the oldest historical log,
  changes of `max_historical_logs` at run time, the error record, plugins and
  the reading view of an open transaction. Failing writes and syncs of a commit
  end the process (`EXCEPT`) and are process crashes of the model.
- ClassAdLogReader: `ClassAdLogIterator`, the first creation of the log, a log that is
  removed and made anew with the same number, fatal probe errors.
- TimerManager: `reconfig` inside a handler, which the negotiator, the one daemon
  that serves commands there, delays (`GetDelayReconfig`).
- Driver: `Block_Signal` and `Unblock_Signal` (no callers), registration of signals
  at run time, worker threads, deadlines of sockets, Windows.
- ProcessReaper: the set-up of the child, the procd, popen children, Windows.
- HAD: the replication daemon that a HAD may wait for, reconfiguration while
  running, authentication. `sendCommandToOthers` is one step and passes over exactly
  the HADs that are down or on the other side of a partition: a connection that
  times out to one that is there is outside of the assumption on time above.
- MasterDaemon: the high-availability lock, changes of the list of daemons, waiting
  for the start of a daemon, peaceful and draining stops of the master, preen,
  the shared port daemon and the procd, which are stopped when all others are gone
  (`StopDaemonsBeforeMasterStops`), and restarts without `MASTER_NEW_BINARY_DELAY`
  (`immediate_restart`).
- CCB: `CCBClient` but for its one request, the polling of sockets, failures to
  write the reconnect file, the wrap-around of 64-bit ids, daemons without
  heartbeats. The file is rewritten in one step: a crash inside
  `SaveAllReconnectInfo` leaves a `.new` file, to which the next rewriting adds. A
  client uses the id its daemon has now, never one that it had before.
- StartdSlot: partitionable and dynamic slots, COD claims, fetched work, benchmarks,
  checkpoints, the shutdown of the startd, peaceful retirement, which has no end, and
  a message of `holdJob` that fails, after which `killSoft` finds its timer running.
  The slot is the only one with backfill: with others, a hard kill of the BOINC client
  removes this slot and ends its activity inside `EnterBackfill` (`boinc_mgr.cpp:427`).
- The other parts of HTCondor, listed in `PROJECT.json`: job queue and shadows of
  the schedd, matchmaking, DAGMan, data reuse, replication, procd, SafeMsg.
