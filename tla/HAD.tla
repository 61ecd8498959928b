--------------------------------- MODULE HAD ---------------------------------
(***************************************************************************)
(* The election of the active central manager by the condor_had daemons    *)
(* (condor_had/StateMachine.cpp, HAD.cpp).  Every HAD runs cycle twice in  *)
(* m_hadInterval; every other cycle is a step of its state machine, and    *)
(* every cycle sends what its state calls for to the other HADs.  The      *)
(* winner tells its master to start the negotiator, a loser to stop it.    *)
(*                                                                         *)
(* Time.  All HADs have the same interval, and m_hadInterval is computed   *)
(* in softReconfigure so that half of it is longer than all the time-outs  *)
(* of the messages of one cycle.  So between two cycles of a HAD every     *)
(* other one runs one cycle (behind), and what a cycle sends is received   *)
(* before the sender's next cycle, or the receiver's if the sender died.   *)
(***************************************************************************)
EXTENDS Naturals, FiniteSets

CONSTANTS N,          \* the number of addresses in HAD_LIST
          Period,     \* the cycles of a stabilization period
          Primaries,  \* the values of HAD_USE_PRIMARY considered
          MasterFails,\* may the commands to a master fail?
          MaxFaults   \* bound on the changes of the pool

ASSUME HADAssumption ==
  /\ N \in Nat
  /\ Period \in Nat
  /\ MaxFaults \in Nat
  /\ Primaries \subseteq BOOLEAN
  /\ MasterFails \in BOOLEAN

(* m_selfId is the index in HAD_LIST in reverse order. *)
Ids == 0 .. N - 1

VARIABLES
  m_usePrimary,       \* HAD_USE_PRIMARY, the same everywhere
  m_state,            \* "DOWN" where no HAD is running
  m_callsCounter,
  receivedAliveList,
  receivedIdList,
  controllee,         \* the machines whose master runs the negotiator
  unheard,            \* those of them whose master missed a CHILD_OFF_FAST
  net,                \* the commands on their way to another HAD
  behind,             \* for each HAD, those that must cycle before it may again
  side,               \* one side of the network partition, {} when there is none
  faults,             \* the changes of the pool so far
  torn,               \* has the network ever been partitioned?
  age                 \* cycles since the last change, up to Period

had == <<m_state, m_callsCounter, receivedAliveList, receivedIdList>>
masters == <<controllee, unheard>>
pool == <<side, faults, torn>>
vars == <<m_usePrimary, had, masters, net, behind, pool, age>>

Running == {i \in Ids : m_state[i] # "DOWN"}
Leaders == {i \in Ids : m_state[i] = "LEADER"}
Together(i, j) == (i \in side) <=> (j \in side)
Messages == [cmd : {"ALIVE", "SEND_ID"}, from : Ids, to : Ids]

(* The primary is the first of HAD_LIST, which has the highest id. *)
m_isPrimary(i) == m_usePrimary /\ i = N - 1

Init ==
  /\ m_usePrimary \in Primaries
  /\ m_state \in [Ids -> {"DOWN", "PRE"}]
  /\ m_callsCounter = [i \in Ids |-> 0]
  /\ receivedAliveList = [i \in Ids |-> {}]
  /\ receivedIdList = [i \in Ids |-> {}]
  /\ controllee = {}
  /\ unheard = {}
  /\ net = {}
  /\ behind = [i \in Ids |-> {}]
  /\ side = {}
  /\ faults = 0
  /\ torn = FALSE
  /\ age = [i \in Ids |-> 0]

-----------------------------------------------------------------------------
(* The state machine of HAD i. *)

(* No id of the list is bigger than i. *)
checkList(i, list) == \A id \in list : id <= i

clearIdsOnly(i) ==
  /\ receivedIdList' = [receivedIdList EXCEPT ![i] = {}]
  /\ UNCHANGED receivedAliveList

clearBuffers(i) ==
  /\ receivedAliveList' = [receivedAliveList EXCEPT ![i] = {}]
  /\ receivedIdList' = [receivedIdList EXCEPT ![i] = {}]

keepBuffers == UNCHANGED <<receivedAliveList, receivedIdList>>

(* sendControlCmdToMaster: CHILD_ON and CHILD_OFF_FAST for the controllee. *)
CHILD_ON(i) ==
  /\ controllee' = controllee \cup {i}
  /\ unheard' = unheard \ {i}

CHILD_OFF_FAST(i) ==
  /\ controllee' = controllee \ {i}
  /\ unheard' = unheard \ {i}

GoTo(i, s) == m_state' = [m_state EXCEPT ![i] = s]

StepPre(i) ==
  /\ m_state[i] = "PRE"
  /\ GoTo(i, "PASSIVE")
  /\ clearBuffers(i)
  /\ UNCHANGED masters

(* No leader has been heard of: the buffers of the election are kept. *)
StepToElection(i) ==
  /\ m_state[i] = "PASSIVE"
  /\ receivedAliveList[i] = {} \/ m_isPrimary(i)
  /\ GoTo(i, "ELECTION")
  /\ keepBuffers
  /\ UNCHANGED masters

StepStayPassive(i) ==
  /\ m_state[i] = "PASSIVE"
  /\ receivedAliveList[i] # {} /\ ~m_isPrimary(i)
  /\ clearBuffers(i)
  /\ UNCHANGED <<m_state, masters>>

BeatenByLeaderOnly(i) == receivedAliveList[i] # {} /\ ~m_isPrimary(i)

Beaten(i) == \/ receivedAliveList[i] # {} /\ ~m_isPrimary(i)
             \/ ~checkList(i, receivedIdList[i])

StepBeaten(i) ==
  /\ m_state[i] = "ELECTION"
  /\ Beaten(i)
  /\ GoTo(i, "PASSIVE")
  /\ clearBuffers(i)
  /\ UNCHANGED masters

StepElected(i) ==
  /\ m_state[i] = "ELECTION"
  /\ ~Beaten(i)
  /\ CHILD_ON(i)
  /\ GoTo(i, "LEADER")
  /\ clearBuffers(i)

StepGiveUpQuietly(i) ==
  /\ m_state[i] = "LEADER"
  /\ ~checkList(i, receivedAliveList[i])
  /\ GoTo(i, "PASSIVE")
  /\ clearBuffers(i)
  /\ UNCHANGED masters

StepGiveUp(i) ==
  /\ m_state[i] = "LEADER"
  /\ ~checkList(i, receivedAliveList[i])
  /\ GoTo(i, "PASSIVE")
  /\ CHILD_OFF_FAST(i)
  /\ clearBuffers(i)

StepLead(i) ==
  /\ m_state[i] = "LEADER"
  /\ checkList(i, receivedAliveList[i])
  /\ clearBuffers(i)
  /\ UNCHANGED <<m_state, masters>>

step(i) ==
  \/ StepPre(i)
  \/ StepToElection(i)
  \/ StepStayPassive(i)
  \/ StepBeaten(i)
  \/ StepElected(i)
  \/ StepGiveUp(i)
  \/ StepLead(i)

(* sendCommandToOthers: those that cannot be reached are passed over. *)
sendCommandToOthers(i, cmd) ==
  net' = net \cup
    {[cmd |-> cmd, from |-> i, to |-> j] :
        j \in {k \in Running \ {i} : Together(i, k)}}

(* By the state that step has left. *)
sendMessages(i) ==
  \/ m_state'[i] = "ELECTION" /\ sendCommandToOthers(i, "SEND_ID")
  \/ m_state'[i] = "LEADER" /\ sendCommandToOthers(i, "ALIVE")
  \/ m_state'[i] \notin {"ELECTION", "LEADER"} /\ UNCHANGED net

(* The timer of i: see "Time" above. *)
Due(i) ==
  /\ i \in Running
  /\ behind[i] = {}
  /\ \A m \in net : m.from # i /\ (m.to = i => m.from \in Running)

Rearm(i) ==
  behind' = [j \in Ids |-> IF j = i THEN Running \ {i} ELSE behind[j] \ {i}]

Grow(i) == age' = [age EXCEPT ![i] = IF @ < Period THEN @ + 1 ELSE @]

cycle(i) ==
  /\ Due(i)
  /\ \/ m_callsCounter[i] = 0 /\ step(i)
     \/ m_callsCounter[i] # 0 /\ keepBuffers /\ UNCHANGED <<m_state, masters>>
  /\ sendMessages(i)
  /\ m_callsCounter' = [m_callsCounter EXCEPT ![i] = (@ + 1) % 2]
  /\ Rearm(i)
  /\ Grow(i)
  /\ UNCHANGED <<m_usePrimary, pool>>

(* A command is read and its sender's id remembered. *)
commandHandlerHad(m) ==
  /\ net' = net \ {m}
  /\ \/ /\ m.cmd = "ALIVE"
        /\ receivedAliveList' = [receivedAliveList EXCEPT ![m.to] = @ \cup {m.from}]
        /\ UNCHANGED receivedIdList
     \/ /\ m.cmd = "SEND_ID"
        /\ receivedIdList' = [receivedIdList EXCEPT ![m.to] = @ \cup {m.from}]
        /\ UNCHANGED receivedAliveList
  /\ UNCHANGED <<m_usePrimary, m_state, m_callsCounter, masters, behind, pool, age>>

-----------------------------------------------------------------------------
(* Changes of the pool. *)

Change ==
  /\ faults < MaxFaults
  /\ faults' = faults + 1
  /\ age' = [i \in Ids |-> 0]

(* Nobody waits for i any more, and what was sent to it is lost. *)
Leave(i) ==
  /\ behind' = [j \in Ids |-> IF j = i THEN {} ELSE behind[j] \ {i}]
  /\ net' = {m \in net : m.to # i}

(* reinitialize, at the start of the daemon and at a reconfiguration that
   changes HAD_LIST, HAD_CONTROLLEE or HAD_USE_PRIMARY: everything from
   scratch, the controllee off, and the first cycle at once. *)
reinitialize(i) ==
  /\ Change
  /\ GoTo(i, "PRE")
  /\ m_callsCounter' = [m_callsCounter EXCEPT ![i] = 0]
  /\ clearBuffers(i)
  /\ CHILD_OFF_FAST(i)
  /\ behind' = [behind EXCEPT ![i] = {}]
  /\ UNCHANGED <<m_usePrimary, net, side, torn>>

(* The daemon ends, its state with it. *)
End(i) ==
  /\ GoTo(i, "DOWN")
  /\ m_callsCounter' = [m_callsCounter EXCEPT ![i] = 0]
  /\ clearBuffers(i)
  /\ Leave(i)
  /\ UNCHANGED <<m_usePrimary, side, torn>>

(* The machine dies with all its daemons, or main_shutdown_graceful and
   main_shutdown_fast take the negotiator down with the HAD (freeResources). *)
Stop(i) ==
  /\ i \in Running
  /\ Change
  /\ CHILD_OFF_FAST(i)
  /\ End(i)

(* sendControlCmdToMaster fails.  Without CHILD_ON after an election, or
   CHILD_OFF_FAST at a reconfiguration, the daemon ends in utilCrucialError and
   its last CHILD_OFF_FAST is missed too; the failure of the CHILD_OFF_FAST of
   a leader that gives up is ignored. *)
StepNoMaster(i) ==
  /\ MasterFails
  /\ Due(i) /\ m_callsCounter[i] = 0
  /\ m_state[i] = "ELECTION" /\ ~Beaten(i)
  /\ Change
  /\ UNCHANGED masters
  /\ End(i)

reinitializeNoMaster(i) ==
  /\ MasterFails
  /\ i \in Running
  /\ Change
  /\ unheard' = unheard \cup (controllee \cap {i})
  /\ UNCHANGED controllee
  /\ End(i)

StepUnheard(i) ==
  /\ MasterFails
  /\ Due(i) /\ m_callsCounter[i] = 0
  /\ m_state[i] = "LEADER" /\ ~checkList(i, receivedAliveList[i])
  /\ Change
  /\ GoTo(i, "PASSIVE")
  /\ clearBuffers(i)
  /\ unheard' = unheard \cup {i}
  /\ m_callsCounter' = [m_callsCounter EXCEPT ![i] = 1]
  /\ Rearm(i)
  /\ UNCHANGED <<m_usePrimary, controllee, net, side, torn>>

Partition(S) ==
  /\ side = {}
  /\ Change
  /\ side' = S
  /\ torn' = TRUE
  /\ \E lost \in SUBSET {m \in net : (m.from \in S) # (m.to \in S)} : net' = net \ lost
  /\ UNCHANGED <<m_usePrimary, had, masters, behind>>

Repair ==
  /\ side # {}
  /\ Change
  /\ side' = {}
  /\ UNCHANGED <<m_usePrimary, had, masters, net, behind, torn>>

Next ==
  \/ \E i \in Ids :
        \/ cycle(i)
        \/ reinitialize(i)
        \/ Stop(i)
        \/ StepNoMaster(i)
        \/ reinitializeNoMaster(i)
        \/ StepUnheard(i)
  \/ \E m \in net : commandHandlerHad(m)
  \/ \E S \in SUBSET (Ids \ {0}) \ {{}} : Partition(S)
  \/ Repair

Spec == Init /\ [][Next]_vars

-----------------------------------------------------------------------------
(* Properties. *)

(* Every variable has its type. *)
TypeOK ==
  /\ m_usePrimary \in BOOLEAN
  /\ m_state \in [Ids -> {"DOWN", "PRE", "PASSIVE", "ELECTION", "LEADER"}]
  /\ m_callsCounter \in [Ids -> {0, 1}]
  /\ receivedAliveList \in [Ids -> SUBSET Ids]
  /\ receivedIdList \in [Ids -> SUBSET Ids]
  /\ controllee \subseteq Ids
  /\ unheard \subseteq controllee
  /\ net \subseteq Messages
  /\ behind \in [Ids -> SUBSET Ids]
  /\ side \subseteq Ids
  /\ faults \in 0..MaxFaults
  /\ torn \in BOOLEAN
  /\ age \in [Ids -> 0..Period]

(* The pool has not changed for Period cycles of each HAD. *)
Stable == \A i \in Running : age[i] = Period

(* The running HADs that can talk to each other. *)
Groups == {side \cap Running, Running \ side} \ {{}}

(* Period cycles after the last crash, start, partition or repair, each part of
   the pool has exactly one leader, whatever was in the buffers and on the way
   when it happened; and a primary that is up is that of its part. *)
OneLeaderPerPart ==
  Stable =>
    /\ \A G \in Groups : Cardinality(G \cap Leaders) = 1
    /\ m_usePrimary /\ N - 1 \in Running => N - 1 \in Leaders

(* As long as machines and daemons only stop and start, step never makes a
   second leader, not even for a moment; only a partition or a primary may. *)
NeverTwoLeaders ==
  ~torn /\ ~m_usePrimary => Cardinality(Leaders) <= 1

(* The negotiators run exactly where the HAD leads, through every election,
   resignation, restart and crash, but for the masters that missed a
   CHILD_OFF_FAST, which step sends once and does not repeat.  Every variable
   has its type. *)
NegotiatorsOfLeaders == TypeOK /\ controllee \ unheard = Leaders

=============================================================================
