--------------------------- MODULE ProcessReaperProofs ---------------------------
(***************************************************************************)
(* In a daemon that has forked no ForkWork worker, the check for pid       *)
(* collisions keeps the exit statuses apart; with workers too, no entry of *)
(* pidTable is orphaned: for every set of pids, every number of processes, *)
(* every limit on reaps and retries, and however the limit on workers is   *)
(* reconfigured.                                                           *)
(***************************************************************************)
EXTENDS ProcessReaper, FiniteSetTheorems, SequenceTheorems, TLAPS

Exits == [pid : Pids, num : Nums]

(* The part of TypeOK that the argument needs, while no worker was forked. *)
ReaperTypes ==
  /\ proc \in [Pids -> [num : Nums, state : {"alive", "zombie"}] \cup {None}]
  /\ born \in Nat
  /\ forked = FALSE
  /\ DOMAIN pidTable \subseteq Pids
  /\ queue \in Seq(Exits)

(* pidTable knows all processes: those the kernel has ... *)
LiveTracked ==
  \A p \in Pids : proc[p] # None => p \in DOMAIN pidTable /\ pidTable[p] = proc[p].num

(* ... and those in WaitpidQueue, whose pids the kernel may use again but
   pidTable does not give away. *)
QueueTracked ==
  \A i \in 1..Len(queue) :
    /\ queue[i].pid \in DOMAIN pidTable
    /\ pidTable[queue[i].pid] = queue[i].num
    /\ proc[queue[i].pid] = None

(* A pid is at most once in WaitpidQueue. *)
QueueDistinct ==
  \A i, j \in 1..Len(queue) : queue[i].pid = queue[j].pid => i = j

(* The reaper that is running is that of the head of the queue. *)
ReaperHasHead == pc = "reaper" => queue # <<>>

Inv ==
  /\ ReaperTypes
  /\ LiveTracked
  /\ QueueTracked
  /\ QueueDistinct
  /\ ReaperHasHead
  /\ ReapedOwnStatus

(* The head and the tail of a queue, by position. *)
LEMMA QueueFacts ==
  ASSUME NEW q \in Seq(Exits), q # <<>>
  PROVE  /\ Len(q) \in Nat /\ Len(q) >= 1
         /\ Head(q) = q[1] /\ q[1] \in Exits
         /\ Tail(q) \in Seq(Exits)
         /\ Len(Tail(q)) = Len(q) - 1
         /\ \A i \in 1..Len(Tail(q)) : Tail(q)[i] = q[i + 1]
  OBVIOUS

(* A new exit goes to the end of the queue. *)
LEMMA AppendFacts ==
  ASSUME NEW q \in Seq(Exits), NEW e \in Exits
  PROVE  /\ Append(q, e) \in Seq(Exits)
         /\ Len(q) \in Nat
         /\ Len(Append(q, e)) = Len(q) + 1
         /\ \A i \in 1..Len(q) : Append(q, e)[i] = q[i]
         /\ Append(q, e)[Len(q) + 1] = e
  OBVIOUS

(* A daemon starts without children. *)
LEMMA InvInit == Init => Inv
  BY ReaperAssumption
  DEF Init, Inv, ReaperTypes, LiveTracked, QueueTracked, QueueDistinct,
      ReaperHasHead, ReapedOwnStatus

(* Create_Process and Create_Thread: the new pid is not in pidTable, hence
   neither in the queue. *)
LEMMA InvCreate ==
  ASSUME Inv, NEW c \in Calls, NEW p \in Pids, Create(c, p)
  PROVE  Inv'
<1> DEFINE n == born + 1
<1>1. /\ p \notin DOMAIN pidTable
      /\ proc[p] = None
      /\ n \in Nums
      /\ proc' = [proc EXCEPT ![p] = [num |-> n, state |-> "alive"]]
      /\ pidTable' = [q \in DOMAIN pidTable \cup {p} |-> IF q = p THEN n ELSE pidTable[q]]
      /\ UNCHANGED <<forked, queue, pc, reaped>>
      /\ born' \in Nat
  BY ReaperAssumption DEF Inv, ReaperTypes, Create, Fork, Enter, Nums, jobs
<1> HIDE DEF n
<1>2. /\ DOMAIN pidTable' = DOMAIN pidTable \cup {p}
      /\ pidTable'[p] = n
      /\ \A q \in DOMAIN pidTable : pidTable'[q] = pidTable[q] /\ q # p
  BY <1>1, Zenon
<1>3. /\ proc'[p] = [num |-> n, state |-> "alive"]
      /\ \A q \in Pids : q # p => proc'[q] = proc[q]
  BY <1>1, Zenon DEF Inv, ReaperTypes
<1>4. ReaperTypes'
  BY <1>1, <1>2, Zenon DEF Inv, ReaperTypes, Exits
<1>5. LiveTracked'
  BY <1>2, <1>3 DEF Inv, LiveTracked
<1>6. QueueTracked'
  <2> SUFFICES ASSUME NEW i \in 1..Len(queue)
               PROVE  /\ queue[i].pid \in DOMAIN pidTable'
                      /\ pidTable'[queue[i].pid] = queue[i].num
                      /\ proc'[queue[i].pid] = None
    BY <1>1, Zenon DEF QueueTracked
  <2>1. queue[i].pid \in DOMAIN pidTable /\ queue[i].pid \in Pids
    BY Zenon DEF Inv, QueueTracked, ReaperTypes
  <2> QED BY <2>1, <1>2, <1>3, Zenon DEF Inv, QueueTracked
<1> QED BY <1>1, <1>4, <1>5, <1>6, Zenon
        DEF Inv, QueueDistinct, ReaperHasHead, ReapedOwnStatus, jobs

(* A child exits. *)
LEMMA InvExit ==
  ASSUME Inv, NEW p \in Pids, Exit(p)
  PROVE  Inv'
<1>1. /\ proc[p] # None
      /\ proc' = [proc EXCEPT ![p].state = "zombie"]
      /\ UNCHANGED <<born, forked, pidTable, queue, pc, reaped>>
  BY Zenon DEF Exit, jobs, history
<1>2. proc[p] \in [num : Nums, state : {"alive", "zombie"}]
  BY <1>1, Zenon DEF Inv, ReaperTypes
<1>3. /\ proc'[p] = [num |-> proc[p].num, state |-> "zombie"]
      /\ proc'[p].num = proc[p].num
      /\ \A q \in Pids : q # p => proc'[q] = proc[q]
  BY <1>1, <1>2, Zenon DEF Inv, ReaperTypes
<1>4. proc'[p] # None
  BY <1>2, <1>3, ReaperAssumption DEF Nums
<1>5. ReaperTypes'
  BY <1>1, <1>2, Zenon DEF Inv, ReaperTypes, jobs
<1>6. LiveTracked'
  BY <1>1, <1>3, Zenon DEF Inv, LiveTracked
<1>7. QueueTracked'
  <2> SUFFICES ASSUME NEW i \in 1..Len(queue)
               PROVE  proc'[queue[i].pid] = None
    BY <1>1, Zenon DEF Inv, QueueTracked
  <2>1. proc[queue[i].pid] = None /\ queue[i].pid \in Pids
    BY Zenon DEF Inv, QueueTracked, ReaperTypes
  <2> QED BY <2>1, <1>1, <1>3, Zenon
<1> QED BY <1>1, <1>5, <1>6, <1>7, Zenon
        DEF Inv, QueueDistinct, ReaperHasHead, ReapedOwnStatus, jobs

(* HandleDC_SIGCHLD moves an exit from the kernel to the queue: the pid was not
   there before. *)
LEMMA InvWaitpid ==
  ASSUME Inv, NEW p \in Pids, Waitpid(p)
  PROVE  Inv'
<1> DEFINE e == [pid |-> p, num |-> proc[p].num]
<1>1. /\ proc[p] # None
      /\ queue' = Append(queue, e)
      /\ proc' = [proc EXCEPT ![p] = None]
      /\ UNCHANGED <<born, forked, pidTable, pc, reaped>>
      /\ pc = "sigchld"
  BY Zenon DEF Waitpid, Zombie, jobs, history
<1>2. e \in Exits /\ e.pid = p /\ e.num = proc[p].num
  BY <1>1, Zenon DEF Inv, ReaperTypes, Exits
<1>3. p \in DOMAIN pidTable /\ pidTable[p] = e.num
  BY <1>1, <1>2, Zenon DEF Inv, LiveTracked
<1> HIDE DEF e
<1>4. /\ proc'[p] = None
      /\ \A q \in Pids : q # p => proc'[q] = proc[q]
  BY <1>1, Zenon DEF Inv, ReaperTypes
<1>5. /\ queue' \in Seq(Exits)
      /\ Len(queue) \in Nat
      /\ Len(queue') = Len(queue) + 1
      /\ \A i \in 1..Len(queue) : queue'[i] = queue[i]
      /\ queue'[Len(queue) + 1] = e
  BY <1>1, <1>2, AppendFacts, Zenon DEF Inv, ReaperTypes
<1>6. \A i \in 1..Len(queue) : queue[i].pid # p /\ queue[i].pid \in Pids
  BY <1>1, Zenon DEF Inv, QueueTracked, ReaperTypes
<1>7. \A i \in 1..Len(queue') : i \in 1..Len(queue) \/ i = Len(queue) + 1
  BY <1>5
<1>8. ReaperTypes'
  BY <1>1, <1>5, Zenon DEF Inv, ReaperTypes, jobs
<1>9. LiveTracked'
  BY <1>1, <1>4, Zenon DEF Inv, LiveTracked
<1>10. QueueTracked'
  <2> SUFFICES ASSUME NEW i \in 1..Len(queue')
               PROVE  /\ queue'[i].pid \in DOMAIN pidTable
                      /\ pidTable[queue'[i].pid] = queue'[i].num
                      /\ proc'[queue'[i].pid] = None
    BY <1>1, Zenon DEF QueueTracked
  <2>1. CASE i \in 1..Len(queue)
    BY <2>1, <1>4, <1>5, <1>6, Zenon DEF Inv, QueueTracked
  <2>2. CASE i = Len(queue) + 1
    BY <2>2, <1>2, <1>3, <1>4, <1>5, Zenon
  <2> QED BY <2>1, <2>2, <1>7, Zenon
<1>11. QueueDistinct'
  <2> SUFFICES ASSUME NEW i \in 1..Len(queue'), NEW j \in 1..Len(queue'),
                      queue'[i].pid = queue'[j].pid
               PROVE  i = j
    BY Zenon DEF QueueDistinct
  <2>1. CASE i \in 1..Len(queue) /\ j \in 1..Len(queue)
    BY <2>1, <1>5, Zenon DEF Inv, QueueDistinct
  <2>2. CASE i = Len(queue) + 1 \/ j = Len(queue) + 1
    BY <2>2, <1>2, <1>5, <1>6, <1>7, Zenon
  <2> QED BY <2>1, <2>2, <1>7, Zenon
<1> QED BY <1>1, <1>8, <1>9, <1>10, <1>11, Zenon
        DEF Inv, ReaperHasHead, ReapedOwnStatus, jobs

(* The reaper is given the status of the entry it is called for. *)
LEMMA InvCallReaper ==
  ASSUME Inv, CallReaper
  PROVE  Inv'
<1>1. pidTable[Head(queue).pid] = Head(queue).num
  <2>1. queue # <<>> /\ queue \in Seq(Exits)
    BY Zenon DEF Inv, ReaperTypes, CallReaper
  <2>2. Head(queue) = queue[1] /\ 1 \in 1..Len(queue)
    BY <2>1, QueueFacts
  <2> QED BY <2>2, Zenon DEF Inv, QueueTracked
<1>2. ReapedOwnStatus'
  BY <1>1 DEF Inv, CallReaper, ReaperTypes, ReapedOwnStatus
<1> QED BY <1>2, Zenon
        DEF Inv, CallReaper, ReaperTypes, LiveTracked, QueueTracked, QueueDistinct,
            ReaperHasHead, kernel, jobs

(* The reaper returns: the entry and the exit go together. *)
LEMMA InvReaperReturns ==
  ASSUME Inv, ReaperReturns
  PROVE  Inv'
<1> DEFINE h == queue[1].pid
<1>1. queue # <<>> /\ queue \in Seq(Exits)
  BY Zenon DEF Inv, ReaperTypes, ReaperHasHead, ReaperReturns
<1>2. /\ Len(queue) \in Nat /\ Len(queue) >= 1
      /\ Head(queue) = queue[1]
      /\ queue' \in Seq(Exits)
      /\ Len(queue') = Len(queue) - 1
      /\ \A i \in 1..Len(queue') : queue'[i] = queue[i + 1]
  BY <1>1, QueueFacts, Zenon DEF ReaperReturns, Pop
<1>3. /\ pidTable' = [p \in DOMAIN pidTable \ {h} |-> pidTable[p]]
      /\ UNCHANGED <<proc, born, forked, reaped>>
      /\ pc' = "service"
  BY <1>2, Zenon DEF ReaperReturns, Pop, kernel, jobs
<1>4. proc[h] = None /\ pidTable[h] = queue[1].num
  BY <1>2 DEF Inv, QueueTracked
<1>5. \A i \in 2..Len(queue) : queue[i].pid # h
  BY <1>2 DEF Inv, QueueDistinct
<1> HIDE DEF h
<1>6. \A i \in 1..Len(queue') : i + 1 \in 2..Len(queue) /\ i + 1 \in 1..Len(queue)
  BY <1>2
<1>7. ReaperTypes'
  BY <1>2, <1>3, Zenon DEF Inv, ReaperTypes, jobs
<1>8. LiveTracked'
  BY <1>3, <1>4, Zenon DEF Inv, LiveTracked
<1>9. QueueTracked'
  BY <1>2, <1>3, <1>5, <1>6, Zenon DEF Inv, QueueTracked
<1>10. QueueDistinct'
  BY <1>2, <1>6 DEF Inv, QueueDistinct
<1> QED BY <1>3, <1>7, <1>8, <1>9, <1>10, Zenon
        DEF Inv, ReaperHasHead, ReapedOwnStatus, jobs

(* With no worker in the daemon every exit is in pidTable, and the default
   reaper is never called. *)
LEMMA NoDefaultReaper ==
  ASSUME Inv
  PROVE  ~DefaultReaper
<1> SUFFICES ASSUME DefaultReaper PROVE FALSE
  BY Zenon
<1>1. queue # <<>> /\ queue \in Seq(Exits)
  BY Zenon DEF Inv, ReaperTypes, DefaultReaper
<1>2. Head(queue) = queue[1] /\ 1 \in 1..Len(queue)
  BY <1>1, QueueFacts
<1> QED BY <1>2, Zenon DEF Inv, QueueTracked, DefaultReaper

(* The other steps leave the processes, pidTable and the queue alone. *)
LEMMA InvUnchanged ==
  ASSUME Inv, UNCHANGED <<proc, born, forked, pidTable, queue, reaped>>, pc' # "reaper" \/ pc' = pc
  PROVE  Inv'
  BY Zenon DEF Inv, ReaperTypes, LiveTracked, QueueTracked, QueueDistinct, ReaperHasHead,
         ReapedOwnStatus, jobs

(* A worker that was forked stays so. *)
LEMMA ForkedStays == [Next]_vars /\ ~forked' => ~forked
  BY Zenon DEF Next, Handlers, vars, jobs, SigchldStart, Waitpid, WaitpidNone, ServiceStart,
         CallReaper, ReaperReturns, DefaultReaper, ServiceEnd, CreateFails, Create,
         Collide, NewJob, Exit, setMaxWorkers

(* The invariant of a daemon that has forked no worker. *)
THEOREM ReaperInvariance == Spec => [](~forked => Inv)
<1>1. Init => (~forked => Inv)
  BY InvInit, Zenon
<1>2. (~forked => Inv) /\ [Next]_vars => (~forked => Inv)'
  <2> SUFFICES ASSUME Inv, ~forked', [Next]_vars PROVE Inv'
    BY ForkedStays, Zenon
  <2>1. CASE SigchldStart
    BY <2>1, InvUnchanged, Zenon DEF SigchldStart, kernel, jobs, history
  <2>2. ASSUME NEW p \in Pids, Waitpid(p) PROVE Inv'
    BY <2>2, InvWaitpid, Zenon
  <2>3. CASE WaitpidNone
    BY <2>3, InvUnchanged, Zenon DEF WaitpidNone, kernel, jobs, history
  <2>4. CASE ServiceStart
    BY <2>4, InvUnchanged, Zenon DEF ServiceStart, kernel, jobs, history
  <2>5. CASE CallReaper
    BY <2>5, InvCallReaper, Zenon
  <2>6. CASE ReaperReturns
    BY <2>6, InvReaperReturns, Zenon
  <2>7. CASE DefaultReaper
    BY <2>7, NoDefaultReaper, Zenon
  <2>8. CASE ServiceEnd
    BY <2>8, InvUnchanged, Zenon DEF ServiceEnd, kernel, jobs, history
  <2>9. ASSUME NEW c \in Calls, CreateFails(c) PROVE Inv'
    BY <2>9, InvUnchanged, Zenon DEF CreateFails, kernel, jobs, history
  <2>10. ASSUME NEW c \in Calls, NEW p \in Pids, Create(c, p) PROVE Inv'
    BY <2>10, InvCreate, Zenon
  <2>11. ASSUME NEW c \in Calls, NEW p \in Pids, Collide(c, p) PROVE Inv'
    BY <2>11, InvUnchanged, Zenon DEF Collide, kernel, jobs, history
  <2>12. ASSUME NEW p \in Pids, NewJob(p) PROVE FALSE
    BY <2>12, Zenon DEF NewJob
  <2>13. ASSUME NEW p \in Pids, Exit(p) PROVE Inv'
    BY <2>13, InvExit, Zenon
  <2>14. CASE UNCHANGED vars
    BY <2>14, InvUnchanged, Zenon DEF vars, kernel, jobs, history
  <2>15. CASE setMaxWorkers
    BY <2>15, InvUnchanged, Zenon DEF setMaxWorkers, kernel, history
  <2> QED BY <2>1, <2>2, <2>3, <2>4, <2>5, <2>6, <2>7, <2>8, <2>9, <2>10, <2>11,
             <2>12, <2>13, <2>14, <2>15, Zenon DEF Next, Handlers
<1> QED BY <1>1, <1>2, PTL DEF Spec

(* Every reaper is told the exit status of its own process, in a daemon whose
   children are all in pidTable: pid reuse between waitpid and the reaper is
   caught by the check in Create_Process and Create_Thread. *)
THEOREM StatusesNeverCross == Spec => []ReapedOwnStatus
<1>1. (~forked => Inv) => ReapedOwnStatus
  BY Zenon DEF Inv, ReapedOwnStatus
<1> QED BY <1>1, ReaperInvariance, PTL

-----------------------------------------------------------------------------
(* No entry of pidTable is orphaned, with or without workers: a number belongs
   to one pid, so what leaves the queue belongs to the entry that is erased or
   to none. *)

Numbered ==
  /\ proc \in [Pids -> [num : 1..born, state : {"alive", "zombie"}] \cup {None}]
  /\ born \in Nat
  /\ DOMAIN pidTable \subseteq Pids
  /\ \A p \in DOMAIN pidTable : pidTable[p] \in 1..born
  /\ queue \in Seq([pid : Pids, num : 1..born])

OnePid ==
  \A q \in DOMAIN pidTable :
    /\ \A p \in Pids : proc[p] # None /\ proc[p].num = pidTable[q] => p = q
    /\ \A i \in 1..Len(queue) : queue[i].num = pidTable[q] => queue[i].pid = q

Places ==
  /\ Numbered
  /\ OnePid
  /\ ReaperHasHead
  /\ EntryHasProcess

(* A process is forked, entered in pidTable (Create_Process, Create_Thread) or
   not (a worker). *)
LEMMA PlacesFork ==
  ASSUME Places, NEW p \in Pids, Fork(p), UNCHANGED <<queue, pc>>,
         \/ UNCHANGED pidTable
         \/ pidTable' = [q \in DOMAIN pidTable \cup {p} |-> IF q = p THEN born + 1 ELSE pidTable[q]]
  PROVE  Places'
<1> DEFINE n == born + 1
<1>1. /\ n \in Nat /\ born' = n /\ born \in Nat
      /\ 1..born \subseteq 1..n /\ n \in 1..n /\ n \notin 1..born
      /\ proc[p] = None
      /\ proc' = [proc EXCEPT ![p] = [num |-> n, state |-> "alive"]]
  BY DEF Places, Numbered, Fork
<1>2. \A q \in DOMAIN pidTable : pidTable[q] \in 1..born
  BY Zenon DEF Places, Numbered
<1>3. \A q \in DOMAIN pidTable' :
        (q \in DOMAIN pidTable /\ pidTable'[q] = pidTable[q]) \/ (q = p /\ pidTable'[q] = n)
  OBVIOUS
<1>3a. DOMAIN pidTable' \subseteq Pids
  BY <1>3, Zenon DEF Places, Numbered
<1> HIDE DEF n
<1>4. /\ proc'[p] = [num |-> n, state |-> "alive"] /\ proc'[p] # None /\ proc'[p].num = n
      /\ \A q \in Pids : q # p => proc'[q] = proc[q]
  BY <1>1, ReaperAssumption DEF Places, Numbered
<1>5. Numbered'
  <2>1. queue' \in Seq([pid : Pids, num : 1..n])
    <3>1. [pid : Pids, num : 1..born] \subseteq [pid : Pids, num : 1..n]
      BY <1>1, Zenon
    <3> QED BY <3>1, <1>1, SeqMonotonic, Zenon DEF Places, Numbered
  <2>2. proc' \in [Pids -> [num : 1..n, state : {"alive", "zombie"}] \cup {None}]
    BY <1>1, <1>4, Zenon DEF Places, Numbered
  <2>3. \A q \in DOMAIN pidTable' : pidTable'[q] \in 1..n
    BY <1>1, <1>2, <1>3, Zenon
  <2> QED BY <2>1, <2>2, <2>3, <1>1, <1>3a, Zenon DEF Numbered
<1>6. OnePid'
  <2> SUFFICES ASSUME NEW q \in DOMAIN pidTable'
               PROVE  /\ \A r \in Pids : proc'[r] # None /\ proc'[r].num = pidTable'[q] => r = q
                      /\ \A i \in 1..Len(queue) : queue[i].num = pidTable'[q] => queue[i].pid = q
    BY Zenon DEF OnePid
  <2>1. \A r \in Pids : r # p /\ proc[r] # None => proc[r].num \in 1..born
    BY Zenon DEF Places, Numbered
  <2>2. \A i \in 1..Len(queue) : queue[i].num \in 1..born
    <3>1. \A i \in 1..Len(queue) : queue[i] \in [pid : Pids, num : 1..born]
      BY ElementOfSeq, Zenon DEF Places, Numbered
    <3> QED BY <3>1, Zenon
  <2>3. CASE q \in DOMAIN pidTable /\ pidTable'[q] = pidTable[q]
    BY <2>3, <1>1, <1>2, <1>4 DEF Places, OnePid
  <2>4. CASE q = p /\ pidTable'[q] = n
    BY <2>4, <2>1, <2>2, <1>1, <1>4, Zenon
  <2> QED BY <2>3, <2>4, <1>3, Zenon
<1>7. EntryHasProcess'
  <2> SUFFICES ASSUME NEW q \in DOMAIN pidTable'
               PROVE  \/ proc'[q] # None /\ proc'[q].num = pidTable'[q]
                      \/ \E i \in 1..Len(queue) : queue[i].num = pidTable'[q]
    BY Zenon DEF EntryHasProcess, InQueue
  <2>1. CASE q \in DOMAIN pidTable /\ pidTable'[q] = pidTable[q]
    BY <2>1, <1>1, <1>4 DEF Places, Numbered, EntryHasProcess, InQueue
  <2>2. CASE q = p /\ pidTable'[q] = n
    BY <2>2, <1>4, Zenon
  <2> QED BY <2>1, <2>2, <1>3, Zenon
<1> QED BY <1>5, <1>6, <1>7, Zenon DEF Places, ReaperHasHead

(* A child exits. *)
LEMMA PlacesExit ==
  ASSUME Places, NEW p \in Pids, Exit(p)
  PROVE  Places'
<1>1. /\ proc[p] # None
      /\ proc' = [proc EXCEPT ![p].state = "zombie"]
      /\ UNCHANGED <<born, pidTable, queue, pc>>
  BY Zenon DEF Exit
<1>2. proc[p] \in [num : 1..born, state : {"alive", "zombie"}] /\ born \in Nat
  BY <1>1, Zenon DEF Places, Numbered
<1>3. /\ proc'[p] = [num |-> proc[p].num, state |-> "zombie"]
      /\ proc'[p].num = proc[p].num
      /\ \A q \in Pids : q # p => proc'[q] = proc[q]
  BY <1>1, <1>2, Zenon DEF Places, Numbered
<1>4. proc'[p] # None
  BY <1>2, <1>3, ReaperAssumption
<1>5. Numbered'
  BY <1>1, <1>2, Zenon DEF Places, Numbered
<1>6. OnePid'
  BY <1>1, <1>3 DEF Places, OnePid
<1>7. EntryHasProcess'
  BY <1>1, <1>3, <1>4, Zenon DEF Places, Numbered, EntryHasProcess, InQueue
<1> QED BY <1>1, <1>5, <1>6, <1>7, Zenon DEF Places, ReaperHasHead

(* waitpid: the entry of the process finds it in the queue. *)
LEMMA PlacesWaitpid ==
  ASSUME Places, NEW p \in Pids, Waitpid(p)
  PROVE  Places'
<1> DEFINE e == [pid |-> p, num |-> proc[p].num]
           S == [pid : Pids, num : 1..born]
<1>1. /\ proc[p] # None
      /\ queue' = Append(queue, e)
      /\ proc' = [proc EXCEPT ![p] = None]
      /\ UNCHANGED <<born, pidTable, pc>>
      /\ pc = "sigchld"
  BY Zenon DEF Waitpid, Zombie
<1>2. e \in S /\ e.pid = p /\ e.num = proc[p].num /\ queue \in Seq(S)
  BY <1>1, Zenon DEF Places, Numbered
<1> HIDE DEF e, S
<1>3. /\ proc'[p] = None
      /\ \A q \in Pids : q # p => proc'[q] = proc[q]
  BY <1>1, Zenon DEF Places, Numbered
<1>4. /\ queue' \in Seq(S)
      /\ Len(queue) \in Nat
      /\ Len(queue') = Len(queue) + 1
      /\ \A i \in 1..Len(queue) : queue'[i] = queue[i]
      /\ queue'[Len(queue) + 1] = e
  BY <1>1, <1>2
<1>5. \A i \in 1..Len(queue') : i \in 1..Len(queue) \/ i = Len(queue) + 1
  BY <1>4
<1>6. /\ Len(queue) + 1 \in 1..Len(queue')
      /\ \A i \in 1..Len(queue) : i \in 1..Len(queue')
  BY <1>4
<1>7. Numbered'
  BY <1>1, <1>3, <1>4, Zenon DEF Places, Numbered, S
<1>8. OnePid'
  <2> SUFFICES ASSUME NEW q \in DOMAIN pidTable
               PROVE  /\ \A r \in Pids : proc'[r] # None /\ proc'[r].num = pidTable[q] => r = q
                      /\ \A i \in 1..Len(queue') : queue'[i].num = pidTable[q] => queue'[i].pid = q
    BY <1>1 DEF OnePid
  <2>1. \A r \in Pids : proc'[r] # None => proc'[r] = proc[r]
    BY <1>3, Zenon
  <2>2. e.num = pidTable[q] => p = q
    BY <1>1, <1>2, Zenon DEF Places, OnePid
  <2> QED BY <2>1, <2>2, <1>2, <1>4, <1>5 DEF Places, OnePid
<1>9. EntryHasProcess'
  <2> SUFFICES ASSUME NEW q \in DOMAIN pidTable
               PROVE  \/ proc'[q] # None /\ proc'[q].num = pidTable[q]
                      \/ \E i \in 1..Len(queue') : queue'[i].num = pidTable[q]
    BY <1>1, Zenon DEF EntryHasProcess, InQueue
  <2>1. CASE proc[q] # None /\ proc[q].num = pidTable[q] /\ q = p
    BY <2>1, <1>2, <1>4, <1>6, Zenon
  <2>2. CASE proc[q] # None /\ proc[q].num = pidTable[q] /\ q # p
    BY <2>2, <1>3, Zenon DEF Places, Numbered
  <2>3. CASE \E i \in 1..Len(queue) : queue[i].num = pidTable[q]
    BY <2>3, <1>4, <1>6, Zenon
  <2> QED BY <2>1, <2>2, <2>3, Zenon DEF Places, EntryHasProcess, InQueue
<1> QED BY <1>1, <1>7, <1>8, <1>9, Zenon DEF Places, ReaperHasHead

(* The head of the queue goes, with the entry of its pid if there is one. *)
LEMMA PlacesPop ==
  ASSUME Places, queue # <<>>, queue' = Tail(queue), pc' = "service",
         DOMAIN pidTable' = DOMAIN pidTable \ {Head(queue).pid},
         \A p \in DOMAIN pidTable' : pidTable'[p] = pidTable[p],
         UNCHANGED <<proc, born>>
  PROVE  Places'
<1> DEFINE S == [pid : Pids, num : 1..born]
           h == queue[1].pid
<1>1. queue \in Seq(S)
  BY Zenon DEF Places, Numbered
<1> HIDE DEF S
<1>2. /\ Len(queue) \in Nat /\ Len(queue) >= 1
      /\ Head(queue) = queue[1]
      /\ queue' \in Seq(S)
      /\ Len(queue') = Len(queue) - 1
      /\ \A i \in 1..Len(queue') : queue'[i] = queue[i + 1]
  BY <1>1
<1>3. \A i \in 1..Len(queue') : i + 1 \in 1..Len(queue)
  BY <1>2
<1>4. \A i \in 1..Len(queue) : i # 1 => i - 1 \in 1..Len(queue') /\ queue'[i - 1] = queue[i]
  BY <1>2
<1>5. /\ DOMAIN pidTable' = DOMAIN pidTable \ {h}
      /\ \A p \in DOMAIN pidTable' : pidTable'[p] = pidTable[p]
  BY <1>2, Zenon
<1>6. Numbered'
  BY <1>2, <1>5, Zenon DEF Places, Numbered, S
<1>7. OnePid'
  BY <1>2, <1>3, <1>5 DEF Places, OnePid
<1>8. EntryHasProcess'
  <2> SUFFICES ASSUME NEW q \in DOMAIN pidTable, q # h,
                      ~(proc[q] # None /\ proc[q].num = pidTable[q])
               PROVE  \E i \in 1..Len(queue') : queue'[i].num = pidTable[q]
    BY <1>5, Zenon DEF EntryHasProcess, InQueue
  <2>1. PICK i \in 1..Len(queue) : queue[i].num = pidTable[q]
    BY Zenon DEF Places, EntryHasProcess, InQueue
  <2>2. queue[i].pid = q
    BY <2>1, Zenon DEF Places, OnePid
  <2> QED BY <2>1, <2>2, <1>4, Zenon
<1> QED BY <1>6, <1>7, <1>8, Zenon DEF Places, ReaperHasHead

(* The other steps leave the processes, pidTable and the queue alone. *)
LEMMA PlacesUnchanged ==
  ASSUME Places, UNCHANGED <<proc, born, pidTable, queue>>, pc' # "reaper" \/ pc' = pc \/ queue # <<>>
  PROVE  Places'
  BY Zenon DEF Places, Numbered, OnePid, ReaperHasHead, EntryHasProcess, InQueue

(* Every entry of pidTable still has its process, or its exit in WaitpidQueue:
   no entry is left behind that no exit will remove, even where the exit of a
   worker was given to the reaper of another process. *)
THEOREM NoOrphanedEntry == Spec => []EntryHasProcess
<1>1. Init => Places
  BY ReaperAssumption DEF Init, Places, Numbered, OnePid, ReaperHasHead, EntryHasProcess, InQueue
<1>2. Places /\ [Next]_vars => Places'
  <2> SUFFICES ASSUME Places, [Next]_vars PROVE Places'
    BY Zenon
  <2>1. CASE SigchldStart
    BY <2>1, PlacesUnchanged, Zenon DEF SigchldStart, kernel
  <2>2. ASSUME NEW p \in Pids, Waitpid(p) PROVE Places'
    BY <2>2, PlacesWaitpid, Zenon
  <2>3. CASE WaitpidNone
    BY <2>3, PlacesUnchanged, Zenon DEF WaitpidNone, kernel
  <2>4. CASE ServiceStart
    BY <2>4, PlacesUnchanged, Zenon DEF ServiceStart, kernel
  <2>5. CASE CallReaper
    BY <2>5, PlacesUnchanged, Zenon DEF CallReaper, kernel
  <2>6. CASE ReaperReturns
    BY <2>6, PlacesPop, Zenon DEF ReaperReturns, Pop, Places, ReaperHasHead, kernel
  <2>7. CASE DefaultReaper
    BY <2>7, PlacesPop, Zenon DEF DefaultReaper, Pop, kernel
  <2>8. CASE ServiceEnd
    BY <2>8, PlacesUnchanged, Zenon DEF ServiceEnd, kernel
  <2>9. ASSUME NEW c \in Calls, CreateFails(c) PROVE Places'
    BY <2>9, PlacesUnchanged, Zenon DEF CreateFails, kernel
  <2>10. ASSUME NEW c \in Calls, NEW p \in Pids, Create(c, p) PROVE Places'
    BY <2>10, PlacesFork, Zenon DEF Create, Enter
  <2>11. ASSUME NEW c \in Calls, NEW p \in Pids, Collide(c, p) PROVE Places'
    BY <2>11, PlacesUnchanged, Zenon DEF Collide, kernel
  <2>12. ASSUME NEW p \in Pids, NewJob(p) PROVE Places'
    BY <2>12, PlacesFork, Zenon DEF NewJob
  <2>13. ASSUME NEW p \in Pids, Exit(p) PROVE Places'
    BY <2>13, PlacesExit, Zenon
  <2>14. CASE UNCHANGED vars
    BY <2>14, PlacesUnchanged, Zenon DEF vars, kernel
  <2>15. CASE setMaxWorkers
    BY <2>15, PlacesUnchanged, Zenon DEF setMaxWorkers, kernel
  <2> QED BY <2>1, <2>2, <2>3, <2>4, <2>5, <2>6, <2>7, <2>8, <2>9, <2>10, <2>11,
             <2>12, <2>13, <2>14, <2>15, Zenon DEF Next, Handlers
<1>3. Places => EntryHasProcess
  BY Zenon DEF Places
<1> QED BY <1>1, <1>2, <1>3, PTL DEF Spec
-----------------------------------------------------------------------------
(* The limits: on the retries of Create_Process and Create_Thread, and on the
   workers ForkWork takes on. *)

Limits == TypeOK /\ ReaperHasHead /\ IsFiniteSet(workers)

(* A fork uses a new number. *)
LEMMA ForkTypes ==
  ASSUME Limits, NEW p \in Pids, Fork(p)
  PROVE  /\ proc' \in [Pids -> [num : Nums, state : {"alive", "zombie"}] \cup {None}]
         /\ born' \in 0..MaxProcs /\ born + 1 \in Nums
<1>1. born \in 0..MaxProcs /\ born < MaxProcs /\ MaxProcs \in Nat
  BY ReaperAssumption, Zenon DEF Limits, TypeOK, Fork
<1>2. born + 1 \in Nums /\ born + 1 \in 0..MaxProcs
  BY <1>1 DEF Nums
<1>3. [num |-> born + 1, state |-> "alive"] \in [num : Nums, state : {"alive", "zombie"}]
  BY <1>2, Zenon
<1> QED
  BY <1>2, <1>3, Zenon DEF Limits, TypeOK, Fork

(* Create_Process and Create_Thread: a new entry, and the retries start again. *)
LEMMA LimitsCreate ==
  ASSUME Limits, NEW c \in Calls, NEW p \in Pids, Create(c, p)
  PROVE  Limits'
<1>1. /\ proc' \in [Pids -> [num : Nums, state : {"alive", "zombie"}] \cup {None}]
      /\ born' \in 0..MaxProcs /\ born + 1 \in Nums
  BY ForkTypes, Zenon DEF Create
<1>2. /\ DOMAIN pidTable' \subseteq Pids
      /\ \A q \in DOMAIN pidTable' : pidTable'[q] \in Nums
  BY <1>1, Zenon DEF Create, Enter, Limits, TypeOK
<1>3. collisions' \in [Calls -> 0..MaxRetry] /\ retry' = None
  BY ReaperAssumption DEF Create, Enter, Limits, TypeOK
<1>4. UNCHANGED <<workers, maxWorkers, forked, queue, chld, serv, pc, first, left, reaped, serviced>>
  BY Zenon DEF Create, jobs, handlers
<1> QED
  BY <1>1, <1>2, <1>3, <1>4, Zenon DEF Limits, TypeOK, ReaperHasHead

(* A collision: one retry more, or none if there were MaxRetry. *)
LEMMA LimitsCollide ==
  ASSUME Limits, NEW c \in Calls, NEW p \in Pids, Collide(c, p)
  PROVE  Limits'
<1> DEFINE again == collisions[c] < MaxRetry
           n == IF again THEN collisions[c] + 1 ELSE 0
<1>1. collisions \in [Calls -> 0..MaxRetry] /\ MaxRetry \in Nat
  BY ReaperAssumption, Zenon DEF Limits, TypeOK
<1>2. n \in 0..MaxRetry
  BY <1>1
<1>3. collisions' = [collisions EXCEPT ![c] = n]
  BY Zenon DEF Collide
<1> HIDE DEF n
<1>4. collisions' \in [Calls -> 0..MaxRetry]
  BY <1>1, <1>2, <1>3, Zenon
<1>5. chld' = TRUE /\ retry' \in Calls \cup {None}
  BY Zenon DEF Collide
<1>6. UNCHANGED <<proc, born, pidTable, workers, maxWorkers, forked, queue, serv, pc, first, left, reaped, serviced>>
  BY Zenon DEF Collide, kernel, jobs, handlers, history
<1> QED
  BY <1>4, <1>5, <1>6, Zenon DEF Limits, TypeOK, ReaperHasHead

(* The call fails. *)
LEMMA LimitsFails ==
  ASSUME Limits, NEW c \in Calls, CreateFails(c)
  PROVE  Limits'
<1>1. collisions' \in [Calls -> 0..MaxRetry]
  BY ReaperAssumption DEF CreateFails, Limits, TypeOK
<1>2. chld' \in BOOLEAN /\ retry' = None
  BY Zenon DEF CreateFails, Limits, TypeOK
<1>3. UNCHANGED <<proc, born, pidTable, workers, maxWorkers, forked, queue, serv, pc, first, left, reaped, serviced>>
  BY Zenon DEF CreateFails, kernel, jobs, handlers, history
<1> QED
  BY <1>1, <1>2, <1>3, Zenon DEF Limits, TypeOK, ReaperHasHead

(* NewJob: one worker more, and no more than maxWorkers of them. *)
LEMMA LimitsNewJob ==
  ASSUME Limits, NEW p \in Pids, NewJob(p)
  PROVE  Limits' /\ Cardinality(workers') <= maxWorkers
<1> DEFINE w == [pid |-> p, num |-> born + 1]
<1>1. /\ proc' \in [Pids -> [num : Nums, state : {"alive", "zombie"}] \cup {None}]
      /\ born' \in 0..MaxProcs /\ born + 1 \in Nums
  BY ForkTypes, Zenon DEF NewJob
<1>2. w \in [pid : Pids, num : Nums] /\ workers' = workers \cup {w}
  BY <1>1, Zenon DEF NewJob
<1> HIDE DEF w
<1>3. workers \subseteq [pid : Pids, num : Nums] /\ IsFiniteSet(workers)
  BY Zenon DEF Limits, TypeOK
<1>4. /\ IsFiniteSet(workers \cup {w})
      /\ Cardinality(workers \cup {w}) = IF w \in workers THEN Cardinality(workers) ELSE Cardinality(workers) + 1
  BY <1>3, FS_AddElement, Zenon
<1>5. Cardinality(workers) \in Nat /\ maxWorkers \in Nat /\ Cardinality(workers) < maxWorkers
  BY <1>3, FS_CardinalityType, ReaperAssumption, Zenon DEF NewJob, Limits, TypeOK
<1>6. workers' \subseteq [pid : Pids, num : Nums] /\ IsFiniteSet(workers')
  BY <1>2, <1>3, <1>4, Zenon
<1>7. Cardinality(workers') <= maxWorkers
  BY <1>2, <1>4, <1>5
<1>8. /\ UNCHANGED <<pidTable, maxWorkers, queue, chld, serv, pc, first, left, collisions, retry, reaped, serviced>>
      /\ forked' = TRUE
  BY Zenon DEF NewJob, handlers, create, history
<1> QED
  BY <1>1, <1>6, <1>7, <1>8, Zenon DEF Limits, TypeOK, ReaperHasHead

(* A reconfiguration leaves everything but the limit. *)
LEMMA LimitsSetMaxWorkers ==
  ASSUME Limits, setMaxWorkers
  PROVE  Limits'
<1>1. maxWorkers' \in MaxWorkers
  BY Zenon DEF setMaxWorkers
<1>2. UNCHANGED <<proc, born, pidTable, workers, forked, queue, chld, serv, pc, first, left,
                  collisions, retry, reaped, serviced>>
  BY Zenon DEF setMaxWorkers, kernel, handlers, create, history
<1> QED
  BY <1>1, <1>2, Zenon DEF Limits, TypeOK, ReaperHasHead

(* An exit. *)
LEMMA LimitsExit ==
  ASSUME Limits, NEW p \in Pids, Exit(p)
  PROVE  Limits'
<1>1. proc' \in [Pids -> [num : Nums, state : {"alive", "zombie"}] \cup {None}]
  <2>1. proc[p] \in [num : Nums, state : {"alive", "zombie"}]
    BY Zenon DEF Limits, TypeOK, Exit
  <2>2. [proc[p] EXCEPT !.state = "zombie"] \in [num : Nums, state : {"alive", "zombie"}]
    BY <2>1, Zenon
  <2> QED BY <2>2, Zenon DEF Limits, TypeOK, Exit
<1>2. chld' = TRUE
  BY Zenon DEF Exit
<1>3. UNCHANGED <<born, pidTable, workers, maxWorkers, forked, queue, serv, pc, first, left, collisions, retry, reaped, serviced>>
  BY Zenon DEF Exit, jobs, handlers, create, history
<1> QED
  BY <1>1, <1>2, <1>3, Zenon DEF Limits, TypeOK, ReaperHasHead

(* waitpid: the exit goes to the queue. *)
LEMMA LimitsWaitpid ==
  ASSUME Limits, NEW p \in Pids, Waitpid(p)
  PROVE  Limits'
<1> DEFINE e == [pid |-> p, num |-> proc[p].num]
<1>1. proc[p] \in [num : Nums, state : {"alive", "zombie"}]
  BY Zenon DEF Limits, TypeOK, Waitpid, Zombie
<1>2. e \in Exits /\ queue \in Seq(Exits) /\ queue' = Append(queue, e)
  BY <1>1, Zenon DEF Exits, Limits, TypeOK, Waitpid
<1> HIDE DEF e
<1>3. queue' \in Seq(Exits)
  BY <1>2
<1>4. proc' \in [Pids -> [num : Nums, state : {"alive", "zombie"}] \cup {None}]
  BY Zenon DEF Limits, TypeOK, Waitpid
<1>5. serv' \in BOOLEAN /\ first' = FALSE /\ pc # "reaper"
  BY Zenon DEF Waitpid
<1>6. UNCHANGED <<born, pidTable, workers, maxWorkers, forked, chld, pc, left, collisions, retry, reaped, serviced>>
  BY Zenon DEF Waitpid, jobs, create, history
<1> QED
  BY <1>3, <1>4, <1>5, <1>6, Zenon DEF Limits, TypeOK, ReaperHasHead, Exits

(* A reaper is called with a status. *)
LEMMA LimitsCallReaper ==
  ASSUME Limits, CallReaper
  PROVE  Limits'
<1>1. queue # <<>> /\ queue \in Seq(Exits)
  BY Zenon DEF Limits, TypeOK, CallReaper, Exits
<1>2. Head(queue) \in Exits
  BY <1>1
<1>3. reaped' \subseteq [num : Nums, status : Nums]
  BY <1>2 DEF Limits, TypeOK, CallReaper, Exits
<1>4. pc' = "reaper"
  BY Zenon DEF CallReaper
<1>5. UNCHANGED <<proc, born, pidTable, workers, maxWorkers, forked, queue, chld, serv, first, left, collisions, retry, serviced>>
  BY Zenon DEF CallReaper, kernel, jobs, handlers, create
<1> QED
  BY <1>1, <1>3, <1>4, <1>5, Zenon DEF Limits, TypeOK, ReaperHasHead

(* An exit leaves the queue, and with it an entry or workers. *)
LEMMA LimitsPop ==
  ASSUME Limits, queue # <<>>, Pop, workers' \subseteq workers,
         \/ UNCHANGED pidTable
         \/ pidTable' = [p \in DOMAIN pidTable \ {Head(queue).pid} |-> pidTable[p]],
         UNCHANGED <<proc, born, maxWorkers, forked, chld, serv, first, collisions, retry, reaped>>
  PROVE  Limits'
<1>1. queue \in Seq(Exits) /\ queue # <<>>
  BY Zenon DEF Limits, TypeOK, Exits
<1>2. Head(queue) \in Exits /\ queue' \in Seq(Exits)
  BY <1>1 DEF Pop
<1>3. serviced' \subseteq Nums /\ left' \in Int /\ pc' = "service"
  BY <1>2 DEF Pop, Limits, TypeOK, Exits
<1>4. DOMAIN pidTable' \subseteq Pids /\ \A p \in DOMAIN pidTable' : pidTable'[p] \in Nums
  BY Zenon DEF Limits, TypeOK
<1>5. IsFiniteSet(workers')
  BY FS_Subset, Zenon DEF Limits
<1>6. workers' \subseteq [pid : Pids, num : Nums]
  BY Zenon DEF Limits, TypeOK
<1> QED
  BY <1>2, <1>3, <1>4, <1>5, <1>6, Zenon DEF Limits, TypeOK, ReaperHasHead, Exits

(* The other steps of the handlers. *)
LEMMA LimitsHandlers ==
  ASSUME Limits, SigchldStart \/ WaitpidNone \/ ServiceStart \/ ServiceEnd \/ UNCHANGED vars
  PROVE  Limits'
<1>1. UNCHANGED <<proc, born, pidTable, workers, maxWorkers, forked, queue, collisions, retry, reaped, serviced>>
  BY Zenon DEF SigchldStart, WaitpidNone, ServiceStart, ServiceEnd, vars, kernel, jobs, create, history
<1>2. left' \in Int
  BY ReaperAssumption DEF SigchldStart, WaitpidNone, ServiceStart, ServiceEnd, vars, handlers, Limits, TypeOK
<1>3. chld' \in BOOLEAN /\ serv' \in BOOLEAN /\ first' \in BOOLEAN
  BY Zenon DEF SigchldStart, WaitpidNone, ServiceStart, ServiceEnd, vars, handlers, Limits, TypeOK
<1>4. pc' \in {"loop", "sigchld", "service", "reaper"} /\ (pc' = "reaper" => pc = "reaper")
  BY Zenon DEF SigchldStart, WaitpidNone, ServiceStart, ServiceEnd, vars, Limits, TypeOK
<1> QED
  BY <1>1, <1>2, <1>3, <1>4, Zenon DEF Limits, TypeOK, ReaperHasHead

(* The limits are kept, and every variable has its type. *)
THEOREM LimitsInvariance == Spec => []Limits
<1>1. Init => Limits
  <2> SUFFICES ASSUME Init PROVE Limits
    BY Zenon
  <2>1. IsFiniteSet(workers)
    BY FS_EmptySet, Zenon DEF Init
  <2>2. /\ proc \in [Pids -> [num : Nums, state : {"alive", "zombie"}] \cup {None}]
        /\ collisions \in [Calls -> 0..MaxRetry]
        /\ born \in 0..MaxProcs /\ left \in Int
    BY ReaperAssumption DEF Init
  <2>3. DOMAIN pidTable = {} /\ queue \in Seq([pid : Pids, num : Nums])
    BY DEF Init
  <2> QED BY <2>1, <2>2, <2>3, Zenon DEF Init, Limits, TypeOK, ReaperHasHead
<1>2. Limits /\ [Next]_vars => Limits'
  <2> SUFFICES ASSUME Limits, [Next]_vars PROVE Limits'
    BY Zenon
  <2>1. CASE SigchldStart \/ WaitpidNone \/ ServiceStart \/ ServiceEnd \/ UNCHANGED vars
    BY <2>1, LimitsHandlers, Zenon
  <2>2. ASSUME NEW p \in Pids, Waitpid(p) PROVE Limits'
    BY <2>2, LimitsWaitpid, Zenon
  <2>3. CASE CallReaper
    BY <2>3, LimitsCallReaper, Zenon
  <2>4. CASE ReaperReturns
    <3>1. queue # <<>>
      BY <2>4, Zenon DEF ReaperReturns, Limits, ReaperHasHead
    <3>2. /\ Pop /\ workers' \subseteq workers
          /\ pidTable' = [p \in DOMAIN pidTable \ {Head(queue).pid} |-> pidTable[p]]
          /\ UNCHANGED <<proc, born, maxWorkers, forked, chld, serv, first, collisions, retry, reaped>>
      BY <2>4, Zenon DEF ReaperReturns, kernel, jobs, create
    <3> QED BY <3>1, <3>2, LimitsPop, Zenon
  <2>5. CASE DefaultReaper
    <3>1. /\ queue # <<>> /\ Pop /\ workers' \subseteq workers
          /\ UNCHANGED pidTable
          /\ UNCHANGED <<proc, born, maxWorkers, forked, chld, serv, first, collisions, retry, reaped>>
      BY <2>5, Zenon DEF DefaultReaper, kernel, jobs, create
    <3> QED BY <3>1, LimitsPop, Zenon
  <2>6. ASSUME NEW c \in Calls, CreateFails(c) PROVE Limits'
    BY <2>6, LimitsFails, Zenon
  <2>7. ASSUME NEW c \in Calls, NEW p \in Pids, Create(c, p) PROVE Limits'
    BY <2>7, LimitsCreate, Zenon
  <2>8. ASSUME NEW c \in Calls, NEW p \in Pids, Collide(c, p) PROVE Limits'
    BY <2>8, LimitsCollide, Zenon
  <2>9. ASSUME NEW p \in Pids, NewJob(p) PROVE Limits'
    BY <2>9, LimitsNewJob, Zenon
  <2>10. ASSUME NEW p \in Pids, Exit(p) PROVE Limits'
    BY <2>10, LimitsExit, Zenon
  <2>11. CASE setMaxWorkers
    BY <2>11, LimitsSetMaxWorkers, Zenon
  <2> QED BY <2>1, <2>2, <2>3, <2>4, <2>5, <2>6, <2>7, <2>8, <2>9, <2>10, <2>11, Zenon
          DEF Next, Handlers
<1> QED BY <1>1, <1>2, PTL DEF Spec

(* Only NewJob adds to the workers. *)
LEMMA WorkersGrow ==
  ASSUME Limits, [Next]_vars
  PROVE  workers' \subseteq workers \/ Cardinality(workers') <= maxWorkers
<1>1. CASE \E p \in Pids : NewJob(p)
  BY <1>1, LimitsNewJob, Zenon
<1>2. CASE ~\E p \in Pids : NewJob(p)
  BY <1>2, Zenon DEF Next, Handlers, vars, jobs, SigchldStart, Waitpid, WaitpidNone, ServiceStart,
         CallReaper, ReaperReturns, DefaultReaper, ServiceEnd, CreateFails, Create,
         Collide, Exit, setMaxWorkers
<1> QED BY <1>1, <1>2, Zenon

(* Create_Process and Create_Thread never count more than MaxRetry collisions,
   and ForkWork takes on workers only up to the limit in force, which a
   reconfiguration may have set below the workers there are: for every set of
   pids, every number of processes and every set of limits. *)
THEOREM LimitsAreKept == Spec => []TypeOK /\ WorkersGrowToLimit
<1>1. Limits => TypeOK
  BY Zenon DEF Limits
<1>2. Limits /\ [Next]_vars => [workers' \subseteq workers \/ Cardinality(workers') <= maxWorkers]_vars
  BY WorkersGrow, Zenon
<1> QED BY <1>1, <1>2, LimitsInvariance, PTL DEF Spec, WorkersGrowToLimit
=============================================================================
