----------------------------- MODULE ProcessReaper -----------------------------
(***************************************************************************)
(* How a daemon learns that a child has exited                             *)
(* (condor_daemon_core.V6/daemon_core.cpp): SIGCHLD makes it collect the   *)
(* exit statuses into WaitpidQueue, from which the reapers are called      *)
(* later.  From the collection on, the kernel may give the pid to a new    *)
(* process, while pidTable still has the old one under it.  Some children  *)
(* are not in pidTable at all: the workers of condor_utils/forkwork.cpp,   *)
(* which the default reaper takes care of.                                 *)
(*                                                                         *)
(* Every process has a number of its own, and exits with that number as    *)
(* its status, so that the model can tell processes with the same pid      *)
(* apart.                                                                  *)
(***************************************************************************)
EXTENDS Integers, Sequences, FiniteSets

CONSTANTS Pids,       \* the kernel's pids
          None,       \* no process
          MaxReaps,   \* MAX_REAPS_PER_CYCLE, 0 for no limit
          MaxRetry,   \* MAX_PID_COLLISION_RETRY
          MaxWorkers, \* the values maxWorkers of ForkWork is configured to
          MaxProcs    \* bound on the processes forked

ASSUME ReaperAssumption ==
  /\ None \notin [num : Nat, state : {"alive", "zombie"}]
  /\ MaxReaps \in Nat /\ MaxRetry \in Nat /\ MaxWorkers \subseteq Nat /\ MaxProcs \in Nat

(* Create_Process and Create_Thread, which each count their collisions. *)
Calls == {"process", "thread"}

VARIABLES
  proc,       \* the kernel's process table: number and "alive" or "zombie"
  born,       \* the number of processes forked
  pidTable,   \* pidTable: the number of the process an entry was made for
  workers,    \* workerList
  maxWorkers, \* how many workers ForkWork may have, as configured last
  forked,     \* history: ForkWork has forked a worker
  queue,      \* WaitpidQueue
  chld,       \* SIGCHLD is pending
  serv,       \* DC_SERVICEWAITPIDS is pending
  pc,         \* "loop", or inside one of the two handlers, or inside a reaper
  first,      \* HandleDC_SIGCHLD: first_time
  left,       \* HandleDC_SERVICEWAITPIDS: iReapsCnt
  collisions, \* num_pid_collisions of Create_Process and of Create_Thread
  retry,      \* the call that is about to call itself again
  reaped,     \* history: process an entry was for, status its reaper was given
  serviced    \* history: the processes whose exit has been dealt with

kernel == <<proc, born>>
jobs == <<workers, maxWorkers, forked>>
create == <<collisions, retry>>
handlers == <<first, left>>
history == <<reaped, serviced>>
vars == <<kernel, pidTable, jobs, queue, chld, serv, pc, handlers, create, history>>

Init ==
  /\ proc = [p \in Pids |-> None]
  /\ born = 0
  /\ pidTable = <<>>
  /\ workers = {}
  /\ maxWorkers \in MaxWorkers
  /\ forked = FALSE
  /\ queue = <<>>
  /\ chld = FALSE
  /\ serv = FALSE
  /\ pc = "loop"
  /\ first = FALSE
  /\ left = 0
  /\ collisions = [k \in Calls |-> 0]
  /\ retry = None
  /\ reaped = {}
  /\ serviced = {}

-----------------------------------------------------------------------------
(* Creating children, from a reaper or from any other handler. *)

InCode == pc \in {"loop", "reaper"}

(* c is the call in progress, or a new one.  (The second and later attempts of
   Create_Process are not given its last arguments.) *)
Attempt(c) == InCode /\ retry \in {None, c}

(* fork: the kernel takes any pid that is free. *)
Fork(p) ==
  /\ born < MaxProcs
  /\ proc[p] = None
  /\ proc' = [proc EXCEPT ![p] = [num |-> born + 1, state |-> "alive"]]
  /\ born' = born + 1

(* pidTable.emplace. *)
Enter(c, p) ==
  /\ pidTable' = [q \in DOMAIN pidTable \cup {p} |-> IF q = p THEN born + 1 ELSE pidTable[q]]
  /\ collisions' = [collisions EXCEPT ![c] = 0]
  /\ retry' = None

CreateUnchecked(c, p) ==
  /\ Attempt(c)
  /\ Fork(p)
  /\ Enter(c, p)
  /\ UNCHANGED <<jobs, queue, chld, serv, pc, handlers, reaped, serviced>>

(* Create_Process and Create_Thread with a pid that pidTable does not know. *)
Create(c, p) ==
  /\ Attempt(c)
  /\ p \notin DOMAIN pidTable
  /\ Fork(p)
  /\ Enter(c, p)
  /\ UNCHANGED <<jobs, queue, chld, serv, pc, handlers, reaped, serviced>>

CollideForever(c, p) ==
  /\ Attempt(c)
  /\ p \in DOMAIN pidTable
  /\ proc[p] = None
  /\ chld' = TRUE
  /\ retry' = c
  /\ collisions' = [collisions EXCEPT ![c] = @ + 1]
  /\ UNCHANGED <<kernel, pidTable, jobs, queue, serv, pc, handlers, history>>

(* The child finds its pid in pidTable: it exits, the parent waits for it and
   tries again or gives up. *)
Collide(c, p) ==
  /\ Attempt(c)
  /\ p \in DOMAIN pidTable
  /\ proc[p] = None
  /\ chld' = TRUE
  /\ LET again == collisions[c] < MaxRetry
     IN  /\ retry' = IF again THEN c ELSE None
         /\ collisions' = [collisions EXCEPT ![c] = IF again THEN @ + 1 ELSE 0]
  /\ UNCHANGED <<kernel, pidTable, jobs, queue, serv, pc, handlers, history>>

(* The call fails before the fork or, for a process, in the child before exec.
   When pipe fails in Create_Thread, its counter is not cleared. *)
CreateFails(c) ==
  /\ Attempt(c)
  /\ \/ collisions' = [collisions EXCEPT ![c] = 0]
     \/ c = "thread" /\ UNCHANGED collisions
  /\ \/ UNCHANGED chld
     \/ c = "process" /\ chld' = TRUE
  /\ retry' = None
  /\ UNCHANGED <<kernel, pidTable, jobs, queue, serv, pc, handlers, history>>

(* ForkWork::NewJob and ForkWorker::Fork. *)
NewJob(p) ==
  /\ InCode
  /\ retry = None
  /\ Cardinality(workers) < maxWorkers
  /\ Fork(p)
  /\ workers' = workers \cup {[pid |-> p, num |-> born + 1]}
  /\ forked' = TRUE
  /\ UNCHANGED <<pidTable, maxWorkers, queue, chld, serv, pc, handlers, create, history>>

(* A reconfiguration: the limit may be set below the number of workers there
   are, which only logs a warning. *)
setMaxWorkers ==
  /\ pc = "loop"
  /\ retry = None
  /\ maxWorkers' \in MaxWorkers
  /\ UNCHANGED <<kernel, pidTable, workers, forked, queue, chld, serv, pc, handlers, create, history>>

(* A child exits; SIGCHLD reaches the daemon (see DaemonCoreDriver). *)
Exit(p) ==
  /\ proc[p] # None
  /\ proc[p].state = "alive"
  /\ proc' = [proc EXCEPT ![p].state = "zombie"]
  /\ chld' = TRUE
  /\ UNCHANGED <<born, pidTable, jobs, queue, serv, pc, handlers, create, history>>

-----------------------------------------------------------------------------
(* HandleDC_SIGCHLD. *)

SigchldStart ==
  /\ pc = "loop"
  /\ retry = None
  /\ chld
  /\ chld' = FALSE
  /\ first' = TRUE
  /\ pc' = "sigchld"
  /\ UNCHANGED <<kernel, pidTable, jobs, queue, serv, left, create, history>>

Zombie(p) == proc[p] # None /\ proc[p].state = "zombie"

(* waitpid(-1) returns any of the zombies. *)
Waitpid(p) ==
  /\ pc = "sigchld"
  /\ Zombie(p)
  /\ queue' = Append(queue, [pid |-> p, num |-> proc[p].num])
  /\ proc' = [proc EXCEPT ![p] = None]
  /\ serv' = (serv \/ first)
  /\ first' = FALSE
  /\ UNCHANGED <<born, pidTable, jobs, chld, pc, left, create, history>>

WaitpidNone ==
  /\ pc = "sigchld"
  /\ \A p \in Pids : ~Zombie(p)
  /\ pc' = "loop"
  /\ first' = FALSE
  /\ UNCHANGED <<kernel, pidTable, jobs, queue, chld, serv, left, create, history>>

-----------------------------------------------------------------------------
(* HandleDC_SERVICEWAITPIDS. *)

ServiceStart ==
  /\ pc = "loop"
  /\ retry = None
  /\ serv
  /\ serv' = FALSE
  /\ left' = IF MaxReaps > 0 THEN MaxReaps ELSE -1
  /\ pc' = "service"
  /\ UNCHANGED <<kernel, pidTable, jobs, queue, chld, first, create, history>>

Pop ==
  /\ queue' = Tail(queue)
  /\ serviced' = serviced \cup {Head(queue).num}
  /\ left' = left - 1
  /\ pc' = "service"

PopFirst ==
  /\ pc = "service"
  /\ left # 0
  /\ queue # <<>>
  /\ Head(queue).pid \in DOMAIN pidTable
  /\ reaped' = reaped \cup {[num |-> pidTable[Head(queue).pid], status |-> Head(queue).num]}
  /\ pc' = "reaper"
  /\ queue' = Tail(queue)
  /\ UNCHANGED <<kernel, pidTable, jobs, chld, serv, handlers, create, serviced>>

(* HandleProcessExit: the reaper of the entry with that pid is called ... *)
CallReaper ==
  /\ pc = "service"
  /\ left # 0
  /\ queue # <<>>
  /\ Head(queue).pid \in DOMAIN pidTable
  /\ reaped' = reaped \cup {[num |-> pidTable[Head(queue).pid], status |-> Head(queue).num]}
  /\ pc' = "reaper"
  /\ UNCHANGED <<kernel, pidTable, jobs, queue, chld, serv, handlers, create, serviced>>

(* ... and returns: the entry is erased, and the exit leaves the queue "_after_
   invoking the callback". *)
ReaperReturns ==
  /\ pc = "reaper"
  /\ retry = None
  /\ pidTable' = [p \in DOMAIN pidTable \ {Head(queue).pid} |-> pidTable[p]]
  /\ Pop
  /\ UNCHANGED <<kernel, jobs, chld, serv, first, create, reaped>>

(* The pid is not in pidTable: the default reaper, ForkWork::Reaper, deletes
   the workers with that pid. *)
DefaultReaper ==
  /\ pc = "service"
  /\ left # 0
  /\ queue # <<>>
  /\ Head(queue).pid \notin DOMAIN pidTable
  /\ workers' = {w \in workers : w.pid # Head(queue).pid}
  /\ Pop
  /\ UNCHANGED <<kernel, pidTable, maxWorkers, forked, chld, serv, first, create, reaped>>

ServiceNoRepost ==
  /\ pc = "service"
  /\ left = 0 \/ queue = <<>>
  /\ left' = 0
  /\ pc' = "loop"
  /\ UNCHANGED <<kernel, pidTable, jobs, queue, chld, serv, first, create, history>>

(* The limit is reached: the rest of the queue is left for the next round. *)
ServiceEnd ==
  /\ pc = "service"
  /\ left = 0 \/ queue = <<>>
  /\ serv' = (serv \/ queue # <<>>)
  /\ left' = 0
  /\ pc' = "loop"
  /\ UNCHANGED <<kernel, pidTable, jobs, queue, chld, first, create, history>>

-----------------------------------------------------------------------------
Handlers ==
  \/ SigchldStart
  \/ \E p \in Pids : Waitpid(p)
  \/ WaitpidNone
  \/ ServiceStart
  \/ CallReaper
  \/ ReaperReturns
  \/ DefaultReaper
  \/ ServiceEnd

Next ==
  \/ Handlers
  \/ \E c \in Calls : CreateFails(c) \/ \E p \in Pids : Create(c, p) \/ Collide(c, p)
  \/ \E p \in Pids : NewJob(p) \/ Exit(p)
  \/ setMaxWorkers

Spec == Init /\ [][Next]_vars

Creating ==
  /\ retry # None
  /\ \E c \in Calls : CreateFails(c) \/ \E p \in Pids : Create(c, p) \/ Collide(c, p)

(* A Create_Process in progress comes to an end, the handlers go on, the event
   loop gets to every pending signal (SignalIsHandled in DaemonCoreDriver), and
   no reaper creates processes for ever. *)
FairSpec ==
  /\ Spec
  /\ WF_vars(Creating)
  /\ WF_vars(Handlers)
  /\ SF_vars(SigchldStart)
  /\ SF_vars(ServiceStart)
  /\ SF_vars(ReaperReturns)

-----------------------------------------------------------------------------
(* Properties *)

Nums == 1..MaxProcs

(* Every variable has its type; the collisions a Create_Process or Create_Thread
   has counted, over all its retries and failures, never exceed MaxRetry. *)
TypeOK ==
  /\ proc \in [Pids -> [num : Nums, state : {"alive", "zombie"}] \cup {None}]
  /\ born \in 0..MaxProcs
  /\ DOMAIN pidTable \subseteq Pids
  /\ \A p \in DOMAIN pidTable : pidTable[p] \in Nums
  /\ workers \subseteq [pid : Pids, num : Nums]
  /\ maxWorkers \in MaxWorkers /\ forked \in BOOLEAN
  /\ queue \in Seq([pid : Pids, num : Nums])
  /\ chld \in BOOLEAN /\ serv \in BOOLEAN /\ first \in BOOLEAN
  /\ retry \in Calls \cup {None}
  /\ pc \in {"loop", "sigchld", "service", "reaper"}
  /\ left \in Int
  /\ collisions \in [Calls -> 0..MaxRetry]
  /\ reaped \subseteq [num : Nums, status : Nums]
  /\ serviced \subseteq Nums

(* In a daemon that has forked no worker, a reaper is told the exit status of its
   own process, never that of another one that had the same pid: what the check
   for pid collisions is there for ("exit status values getting crossed ... the
   infamous jobs-run-twice bug").  A worker's pid is not in pidTable, so once
   there has been a worker it is not so. *)
ReapedOwnStatus == ~forked => \A r \in reaped : r.num = r.status

(* ForkWork takes on workers only up to the limit in force at that time; a lower
   limit set later ends none of them. *)
WorkersGrowToLimit ==
  [][workers' \subseteq workers \/ Cardinality(workers') <= maxWorkers]_vars

InQueue(n) == \E i \in 1..Len(queue) : queue[i].num = n

(* No entry of pidTable is orphaned: its process is running, a zombie, or
   waiting in WaitpidQueue, so its reaper is still to be called. *)
EntryHasProcess ==
  \A p \in DOMAIN pidTable :
    \/ proc[p] # None /\ proc[p].num = pidTable[p]
    \/ InQueue(pidTable[p])

(* Every exit is dealt with in the end, whatever limit there is on the reaps of
   one round and however many children exit while the queue is served. *)
ExitIsServiced ==
  \A n \in Nums :
    (\E p \in Pids : proc[p] = [num |-> n, state |-> "zombie"]) ~> n \in serviced
=============================================================================
