------------------------------- MODULE HADProofs -------------------------------
(***************************************************************************)
(* Proofs about HAD, for any number of HADs, any stabilization period and  *)
(* any number of changes of the pool.                                      *)
(***************************************************************************)
EXTENDS HAD, FiniteSetTheorems, TLAPS

(* At the start no HAD leads and no negotiator runs. *)
LEMMA InitNegotiators == Init => NegotiatorsOfLeaders
<1> SUFFICES ASSUME Init PROVE NegotiatorsOfLeaders
  BY Zenon
<1>1. m_usePrimary \in BOOLEAN /\ torn \in BOOLEAN
  BY HADAssumption, Zenon DEF Init
<1>2. TypeOK
  BY <1>1, HADAssumption DEF Init, TypeOK, Messages
<1>3. controllee \ unheard = Leaders
  BY Zenon DEF Init, Leaders
<1> QED BY <1>2, <1>3, Zenon DEF NegotiatorsOfLeaders

(* A step of HAD i changes its own state, lists and master only, and keeps
   them in step: StepElected turns the negotiator on, StepGiveUp off. *)
LEMMA StepNegotiators ==
  ASSUME NegotiatorsOfLeaders, NEW i \in Ids, step(i)
  PROVE  /\ m_state' \in [Ids -> {"DOWN", "PRE", "PASSIVE", "ELECTION", "LEADER"}]
         /\ receivedAliveList' \in [Ids -> SUBSET Ids]
         /\ receivedIdList' \in [Ids -> SUBSET Ids]
         /\ controllee' \subseteq Ids
         /\ unheard' \subseteq controllee'
         /\ (controllee \ unheard)' = Leaders'
<1> USE DEF NegotiatorsOfLeaders, TypeOK, Leaders, GoTo, masters
<1>1. CASE StepPre(i)
  BY <1>1, Zenon DEF StepPre, clearBuffers
<1>2. CASE StepToElection(i)
  BY <1>2, Zenon DEF StepToElection, keepBuffers
<1>3. CASE StepStayPassive(i)
  BY <1>3, Zenon DEF StepStayPassive, clearBuffers
<1>4. CASE StepBeaten(i)
  BY <1>4, Zenon DEF StepBeaten, clearBuffers
<1>5. CASE StepElected(i)
  BY <1>5, Zenon DEF StepElected, clearBuffers, CHILD_ON
<1>6. CASE StepGiveUp(i)
  BY <1>6, Zenon DEF StepGiveUp, clearBuffers, CHILD_OFF_FAST
<1>7. CASE StepLead(i)
  BY <1>7, Zenon DEF StepLead, clearBuffers
<1> QED BY <1>1, <1>2, <1>3, <1>4, <1>5, <1>6, <1>7, Zenon DEF step

(* What a cycle sends goes from its HAD to a running one. *)
LEMMA SendMessages ==
  ASSUME TypeOK, NEW i \in Ids, sendMessages(i)
  PROVE  net' \subseteq Messages
BY DEF TypeOK, sendMessages, sendCommandToOthers, Messages, Running

(* The timer of i is set again: only HADs wait for HADs. *)
LEMMA RearmType ==
  ASSUME TypeOK, NEW i \in Ids, Rearm(i)
  PROVE  behind' \in [Ids -> SUBSET Ids]
BY Zenon DEF TypeOK, Rearm, Running

(* The end of a HAD. *)
LEMMA EndType ==
  ASSUME TypeOK, NEW i \in Ids, End(i)
  PROVE  /\ m_state' \in [Ids -> {"DOWN", "PRE", "PASSIVE", "ELECTION", "LEADER"}]
         /\ m_callsCounter' \in [Ids -> {0, 1}]
         /\ receivedAliveList' \in [Ids -> SUBSET Ids]
         /\ receivedIdList' \in [Ids -> SUBSET Ids]
         /\ behind' \in [Ids -> SUBSET Ids]
         /\ net' \subseteq Messages
BY Zenon DEF TypeOK, End, GoTo, clearBuffers, Leave

(* A change of the pool is counted, and the ages start again. *)
LEMMA ChangeType ==
  ASSUME TypeOK, Change
  PROVE  faults' \in 0..MaxFaults /\ age' \in [Ids -> 0..Period]
BY HADAssumption DEF TypeOK, Change

(* Every action keeps the negotiators with the leaders. *)
LEMMA NextNegotiators ==
  ASSUME NegotiatorsOfLeaders, [Next]_vars
  PROVE  NegotiatorsOfLeaders'
<1> USE DEF NegotiatorsOfLeaders
<1> TypeOK
  BY Zenon
<1>1. ASSUME NEW i \in Ids, cycle(i) PROVE NegotiatorsOfLeaders'
  <2> USE DEF cycle
  <2>1. /\ m_state' \in [Ids -> {"DOWN", "PRE", "PASSIVE", "ELECTION", "LEADER"}]
        /\ receivedAliveList' \in [Ids -> SUBSET Ids]
        /\ receivedIdList' \in [Ids -> SUBSET Ids]
        /\ controllee' \subseteq Ids
        /\ unheard' \subseteq controllee'
        /\ (controllee \ unheard)' = Leaders'
    <3>1. CASE step(i)
      BY <1>1, <3>1, StepNegotiators, Zenon
    <3>2. CASE keepBuffers /\ UNCHANGED <<m_state, masters>>
      BY <3>2, Zenon DEF TypeOK, keepBuffers, masters, Leaders
    <3> QED BY <1>1, <3>1, <3>2, Zenon
  <2>2. net' \subseteq Messages /\ behind' \in [Ids -> SUBSET Ids]
    BY <1>1, SendMessages, RearmType, Zenon
  <2>3. m_callsCounter' \in [Ids -> {0, 1}]
    BY <1>1 DEF TypeOK
  <2>4. age' \in [Ids -> 0..Period]
    BY <1>1, HADAssumption DEF TypeOK, Grow
  <2>5. UNCHANGED <<m_usePrimary, side, faults, torn>>
    BY <1>1, Zenon DEF pool
  <2> QED BY <2>1, <2>2, <2>3, <2>4, <2>5, Zenon DEF TypeOK
<1>2. ASSUME NEW i \in Ids, reinitialize(i) PROVE NegotiatorsOfLeaders'
  <2>1. /\ m_state' \in [Ids -> {"DOWN", "PRE", "PASSIVE", "ELECTION", "LEADER"}]
        /\ m_callsCounter' \in [Ids -> {0, 1}]
        /\ receivedAliveList' \in [Ids -> SUBSET Ids]
        /\ receivedIdList' \in [Ids -> SUBSET Ids]
        /\ behind' \in [Ids -> SUBSET Ids]
    BY <1>2, Zenon DEF TypeOK, reinitialize, GoTo, clearBuffers
  <2>2. /\ controllee' \subseteq Ids /\ unheard' \subseteq controllee'
        /\ (controllee \ unheard)' = Leaders'
    BY <1>2, Zenon DEF TypeOK, reinitialize, GoTo, CHILD_OFF_FAST, Leaders
  <2>3. faults' \in 0..MaxFaults /\ age' \in [Ids -> 0..Period]
    BY <1>2, ChangeType, Zenon DEF reinitialize
  <2>4. UNCHANGED <<m_usePrimary, net, side, torn>>
    BY <1>2, Zenon DEF reinitialize
  <2> QED BY <2>1, <2>2, <2>3, <2>4, Zenon DEF TypeOK, Messages
<1>3. ASSUME NEW i \in Ids, Change, End(i),
             \/ CHILD_OFF_FAST(i)
             \/ UNCHANGED masters /\ m_state[i] = "ELECTION"
             \/ unheard' = unheard \cup (controllee \cap {i}) /\ UNCHANGED controllee
      PROVE  NegotiatorsOfLeaders'
  <2>1. /\ controllee' \subseteq Ids /\ unheard' \subseteq controllee'
        /\ (controllee \ unheard)' = Leaders'
    <3> m_state' = [m_state EXCEPT ![i] = "DOWN"]
      BY <1>3, Zenon DEF End, GoTo
    <3>1. CASE CHILD_OFF_FAST(i)
      BY <3>1, Zenon DEF TypeOK, CHILD_OFF_FAST, Leaders
    <3>2. CASE UNCHANGED masters /\ m_state[i] = "ELECTION"
      BY <3>2, Zenon DEF TypeOK, masters, Leaders
    <3>3. CASE unheard' = unheard \cup (controllee \cap {i}) /\ UNCHANGED controllee
      BY <3>3, Zenon DEF TypeOK, Leaders
    <3> QED BY <1>3, <3>1, <3>2, <3>3, Zenon
  <2>2. UNCHANGED <<m_usePrimary, side, torn>>
    BY <1>3, Zenon DEF End
  <2> QED BY <1>3, <2>1, <2>2, EndType, ChangeType, Zenon DEF TypeOK
<1>4. ASSUME NEW i \in Ids, StepUnheard(i) PROVE NegotiatorsOfLeaders'
  <2>1. /\ m_state' \in [Ids -> {"DOWN", "PRE", "PASSIVE", "ELECTION", "LEADER"}]
        /\ m_callsCounter' \in [Ids -> {0, 1}]
        /\ receivedAliveList' \in [Ids -> SUBSET Ids]
        /\ receivedIdList' \in [Ids -> SUBSET Ids]
    BY <1>4, Zenon DEF TypeOK, StepUnheard, GoTo, clearBuffers
  <2>2. /\ controllee' \subseteq Ids /\ unheard' \subseteq controllee'
        /\ (controllee \ unheard)' = Leaders'
    BY <1>4, Zenon DEF TypeOK, StepUnheard, GoTo, Leaders
  <2>3. faults' \in 0..MaxFaults /\ age' \in [Ids -> 0..Period]
        /\ behind' \in [Ids -> SUBSET Ids]
    BY <1>4, ChangeType, RearmType, Zenon DEF StepUnheard
  <2>4. UNCHANGED <<m_usePrimary, net, side, torn>>
    BY <1>4, Zenon DEF StepUnheard
  <2> QED BY <2>1, <2>2, <2>3, <2>4, Zenon DEF TypeOK, Messages
<1>5. ASSUME NEW m \in net, commandHandlerHad(m) PROVE NegotiatorsOfLeaders'
  <2>1. m.to \in Ids /\ m.from \in Ids
    BY Zenon DEF TypeOK, Messages
  <2>2. /\ receivedAliveList' \in [Ids -> SUBSET Ids]
        /\ receivedIdList' \in [Ids -> SUBSET Ids]
        /\ net' \subseteq Messages
    BY <1>5, <2>1 DEF TypeOK, commandHandlerHad
  <2>3. UNCHANGED <<m_usePrimary, m_state, m_callsCounter, controllee, unheard,
                    behind, side, faults, torn, age>>
    BY <1>5, Zenon DEF commandHandlerHad, masters, pool
  <2> QED BY <2>2, <2>3, Zenon DEF TypeOK, Leaders
<1>6. ASSUME NEW S \in SUBSET (Ids \ {0}) \ {{}}, Partition(S)
      PROVE  NegotiatorsOfLeaders'
  <2>1. UNCHANGED <<m_usePrimary, m_state, m_callsCounter, receivedAliveList,
                    receivedIdList, controllee, unheard, behind>>
    BY <1>6, Zenon DEF Partition, had, masters
  <2>2. faults' \in 0..MaxFaults /\ age' \in [Ids -> 0..Period]
    BY <1>6, ChangeType, Zenon DEF Partition
  <2>3. net' \subseteq net /\ side' \subseteq Ids /\ torn' = TRUE
    BY <1>6, Zenon DEF Partition
  <2> QED BY <2>1, <2>2, <2>3, Zenon DEF TypeOK, Leaders
<1>7. CASE Repair
  <2>1. UNCHANGED <<m_usePrimary, m_state, m_callsCounter, receivedAliveList,
                    receivedIdList, controllee, unheard, net, behind, torn>>
    BY <1>7, Zenon DEF Repair, had, masters
  <2>2. faults' \in 0..MaxFaults /\ age' \in [Ids -> 0..Period] /\ side' = {}
    BY <1>7, ChangeType, Zenon DEF Repair
  <2> QED BY <2>1, <2>2, Zenon DEF TypeOK, Leaders
<1>8. CASE UNCHANGED vars
  BY <1>8, Zenon DEF vars, had, masters, pool, TypeOK, Leaders
<1>9. ASSUME NEW i \in Ids, Stop(i) \/ StepNoMaster(i) \/ reinitializeNoMaster(i)
      PROVE  NegotiatorsOfLeaders'
  BY <1>3, <1>9, Zenon DEF Stop, StepNoMaster, reinitializeNoMaster
<1> QED BY <1>1, <1>2, <1>4, <1>5, <1>6, <1>7, <1>8, <1>9, Zenon DEF Next

(* The negotiators run exactly where a HAD leads, through every election,
   resignation, restart and crash, but for the masters that missed a
   CHILD_OFF_FAST: for any HAD_LIST and any sequence of changes of the pool. *)
THEOREM NegotiatorsFollowLeaders == Spec => []NegotiatorsOfLeaders
BY InitNegotiators, NextNegotiators, PTL DEF Spec

-----------------------------------------------------------------------------
(* Why there are never two leaders.  Between two steps of a HAD every other one
   cycles twice, so a HAD that stands for election hears of a leader, or of a
   bigger candidate, before it counts itself elected. *)

Alive(j, i) == [cmd |-> "ALIVE", from |-> j, to |-> i]
Candidacy(j, i) == [cmd |-> "SEND_ID", from |-> j, to |-> i]

(* Candidate i knows of leader j, or it will before it steps: what j has sent
   comes before the next cycle of j, and i waits for that. *)
HearsLeader(i, j) ==
  \/ Beaten(i)
  \/ Alive(j, i) \in net /\ (m_callsCounter[i] = 1 \/ j \in behind[i])
  \/ m_callsCounter[i] = 1 /\ j \in behind[i]

(* Candidate i knows of the bigger candidate j, or it will before both of them
   have sent their ids twice and i steps. *)
HearsCandidate(i, j) ==
  \/ j \in receivedIdList[i]
  \/ /\ Candidacy(j, i) \in net
     /\ m_callsCounter[i] = 1 \/ m_callsCounter[j] = 1 \/ j \in behind[i]
  \/ m_callsCounter[i] = 1 /\ j \in behind[i]

Exclusion(i, j) ==
  /\ ~(m_state[i] = "LEADER" /\ m_state[j] = "LEADER")
  /\ m_state[i] = "ELECTION" /\ m_state[j] = "LEADER" => HearsLeader(i, j)
  /\ i < j /\ m_state[i] = "ELECTION" /\ m_state[j] = "ELECTION" => HearsCandidate(i, j)

ElectionInv ==
  ~torn /\ ~m_usePrimary =>
    /\ side = {}
    /\ \A i, j \in Ids : i # j => Exclusion(i, j)

(* What the lemmas below assume of the state before a step. *)
Untorn == TypeOK /\ ~torn /\ ~m_usePrimary /\ ElectionInv

(* A HAD k that neither leads nor stands after an action, which leaves the
   others' state and what they are owed alone, endangers nobody. *)
LEMMA OutOfTheRace ==
  ASSUME Untorn, NEW k \in Ids, UNCHANGED m_usePrimary,
         m_state'[k] \notin {"ELECTION", "LEADER"},
         \A m \in net : m.to # k => m \in net',
         \A i \in Ids \ {k} :
            /\ m_state'[i] = m_state[i]
            /\ m_callsCounter'[i] = m_callsCounter[i]
            /\ receivedAliveList'[i] = receivedAliveList[i]
            /\ receivedIdList'[i] = receivedIdList[i]
            /\ behind[i] \ {k} \subseteq behind'[i]
  PROVE  \A i, j \in Ids : i # j => Exclusion(i, j)'
<1> SUFFICES ASSUME NEW i \in Ids, NEW j \in Ids, i # j PROVE Exclusion(i, j)'
  BY Zenon
<1>1. CASE k \in {i, j}
  BY <1>1, Zenon DEF Exclusion
<1>2. CASE k \notin {i, j}
  <2>1. Exclusion(i, j)
    BY Zenon DEF Untorn, ElectionInv
  <2>2. Beaten(i) => Beaten(i)'
    BY <1>2, Zenon DEF Beaten, checkList, m_isPrimary, Untorn
  <2>3. /\ Alive(j, i) \in net => Alive(j, i) \in net'
        /\ Candidacy(j, i) \in net => Candidacy(j, i) \in net'
    BY <1>2, Zenon DEF Alive, Candidacy
  <2>4. j \in behind[i] => j \in behind'[i]
    BY <1>2, Zenon
  <2>5. Alive(j, i)' = Alive(j, i) /\ Candidacy(j, i)' = Candidacy(j, i)
    BY Zenon DEF Alive, Candidacy
  <2> QED BY <1>2, <2>1, <2>2, <2>3, <2>4, <2>5, Zenon
        DEF Exclusion, HearsLeader, HearsCandidate
<1> QED BY <1>1, <1>2, Zenon

(* What a HAD that leads or stands after its cycle sends to the others. *)
LEMMA CycleSends ==
  ASSUME Untorn, NEW k \in Ids, cycle(k), NEW i \in Ids, i # k, i \in Running
  PROVE  /\ net \subseteq net'
         /\ m_state'[k] = "LEADER" => Alive(k, i) \in net'
         /\ m_state'[k] = "ELECTION" => Candidacy(k, i) \in net'
<1> Together(k, i)
  BY Zenon DEF Untorn, ElectionInv, Together
<1> sendMessages(k)
  BY Zenon DEF cycle
<1> QED BY Zenon DEF sendMessages, sendCommandToOthers, Alive, Candidacy

(* A cycle changes its own HAD only, and nobody waits for it any more. *)
LEMMA CycleOthers ==
  ASSUME Untorn, NEW k \in Ids, cycle(k), NEW i \in Ids, i # k
  PROVE  /\ m_state'[i] = m_state[i]
         /\ m_callsCounter'[i] = m_callsCounter[i]
         /\ receivedAliveList'[i] = receivedAliveList[i]
         /\ receivedIdList'[i] = receivedIdList[i]
         /\ behind'[i] = behind[i] \ {k}
<1> USE DEF Untorn, TypeOK
<1>1. m_callsCounter'[i] = m_callsCounter[i] /\ behind'[i] = behind[i] \ {k}
  BY Zenon DEF cycle, Rearm
<1>2. /\ m_state'[i] = m_state[i]
      /\ receivedAliveList'[i] = receivedAliveList[i]
      /\ receivedIdList'[i] = receivedIdList[i]
  BY Zenon DEF cycle, step, StepPre, StepToElection, StepStayPassive, StepBeaten,
         StepElected, StepGiveUp, StepLead, GoTo, clearBuffers, keepBuffers
<1> QED BY <1>1, <1>2, Zenon

(* The outcomes of a cycle that leave its HAD leading or standing. *)
LEMMA CycleOwn ==
  ASSUME Untorn, NEW k \in Ids, cycle(k)
  PROVE  /\ behind[k] = {} /\ behind'[k] = Running \ {k}
         /\ \A m \in net : m.from # k
         /\ m_callsCounter[k] = 0 => m_callsCounter'[k] = 1
         /\ m_callsCounter[k] = 1 => m_callsCounter'[k] = 0
         /\ \/ m_state'[k] \notin {"ELECTION", "LEADER"}
            \/ /\ m_state'[k] = "LEADER"
               /\ m_state[k] = "LEADER"
            \/ /\ m_state'[k] = "LEADER"
               /\ m_state[k] = "ELECTION" /\ m_callsCounter[k] = 0 /\ ~Beaten(k)
            \/ /\ m_state'[k] = "ELECTION"
               /\ m_state[k] = "ELECTION" /\ m_callsCounter[k] = 1
               /\ receivedAliveList'[k] = receivedAliveList[k]
               /\ receivedIdList'[k] = receivedIdList[k]
            \/ /\ m_state'[k] = "ELECTION"
               /\ m_callsCounter[k] = 0
<1> USE DEF Untorn, TypeOK
<1>1. behind[k] = {} /\ \A m \in net : m.from # k
  BY Zenon DEF cycle, Due
<1>2. behind'[k] = Running \ {k}
  BY Zenon DEF cycle, Rearm
<1>3. m_callsCounter'[k] = (m_callsCounter[k] + 1) % 2 /\ m_callsCounter[k] \in {0, 1}
  BY Zenon DEF cycle
<1>4. CASE m_callsCounter[k] = 0 /\ step(k)
  BY <1>1, <1>2, <1>3, <1>4
     DEF step, StepPre, StepToElection, StepStayPassive, StepBeaten,
         StepElected, StepGiveUp, StepLead, GoTo
<1>5. CASE m_callsCounter[k] # 0 /\ keepBuffers /\ UNCHANGED <<m_state, masters>>
  BY <1>1, <1>2, <1>3, <1>5 DEF keepBuffers
<1> QED BY <1>4, <1>5, Zenon DEF cycle

(* A cycle of HAD k keeps every pair apart. *)
LEMMA CycleExclusion ==
  ASSUME Untorn, NEW k \in Ids, cycle(k), UNCHANGED m_usePrimary
  PROVE  \A i, j \in Ids : i # j => Exclusion(i, j)'
<1> SUFFICES ASSUME NEW i \in Ids, NEW j \in Ids, i # j PROVE Exclusion(i, j)'
  BY Zenon
<1>1. Exclusion(i, j) /\ Exclusion(j, i)
  BY Zenon DEF Untorn, ElectionInv
<1>2. Alive(j, i)' = Alive(j, i) /\ Candidacy(j, i)' = Candidacy(j, i)
  BY Zenon DEF Alive, Candidacy
<1>3. CASE m_state'[k] \notin {"ELECTION", "LEADER"}
  <2>1. net' = net
    BY <1>3, Zenon DEF cycle, sendMessages
  <2> QED BY <1>3, <2>1, CycleOthers, OutOfTheRace
<1>4. CASE k \notin {i, j} /\ m_state'[k] \in {"ELECTION", "LEADER"}
  <2>1. net \subseteq net'
    BY Zenon DEF cycle, sendMessages, sendCommandToOthers
  <2>2. Beaten(i) => Beaten(i)'
    BY <1>4, CycleOthers, Zenon DEF Beaten, checkList, m_isPrimary, Untorn
  <2> QED BY <1>1, <1>2, <1>4, <2>1, <2>2, CycleOthers
        DEF Exclusion, HearsLeader, HearsCandidate
<1>5. CASE k = i /\ m_state'[k] \in {"ELECTION", "LEADER"}
  <2>1. m_state'[j] = m_state[j]
    BY <1>5, CycleOthers, Zenon
  <2>2. j \in behind'[i] \/ m_state'[j] = "DOWN"
    BY <1>5, <2>1, CycleOwn, Zenon DEF Running
  <2>3. CASE m_state'[i] = "LEADER"
    BY <1>1, <1>5, <2>1, <2>3, CycleOwn DEF Exclusion, HearsLeader
  <2>4. CASE m_state'[i] = "ELECTION" /\ m_callsCounter[i] = 0
    BY <1>5, <2>2, <2>4, CycleOwn, Zenon DEF Exclusion, HearsLeader, HearsCandidate
  <2>5. CASE /\ m_state'[i] = "ELECTION" /\ m_callsCounter[i] = 1
             /\ m_state[i] = "ELECTION"
             /\ receivedAliveList'[i] = receivedAliveList[i]
             /\ receivedIdList'[i] = receivedIdList[i]
    <3>1. net \subseteq net'
      BY Zenon DEF cycle, sendMessages, sendCommandToOthers
    <3>2. Beaten(i) => Beaten(i)'
      BY <2>5, Zenon DEF Beaten, checkList, m_isPrimary
    <3>3. behind[i] = {}
      BY <1>5, CycleOwn, Zenon
    <3> QED BY <1>1, <1>2, <2>1, <2>2, <2>5, <3>1, <3>2, <3>3, Zenon
          DEF Exclusion, HearsLeader, HearsCandidate
  <2> QED BY <1>5, <2>3, <2>4, <2>5, CycleOwn, Zenon
<1>6. CASE k = j /\ m_state'[k] \in {"ELECTION", "LEADER"}
  <2>1. /\ m_state'[i] = m_state[i] /\ m_callsCounter'[i] = m_callsCounter[i]
        /\ receivedIdList'[i] = receivedIdList[i]
        /\ m_callsCounter[i] \in {0, 1} /\ m_callsCounter[j] \in {0, 1}
    BY <1>6, CycleOthers, Zenon DEF Untorn, TypeOK
  <2>2. Beaten(i) => Beaten(i)'
    BY <1>6, CycleOthers, Zenon DEF Beaten, checkList, m_isPrimary
  <2>3. Alive(j, i) \notin net /\ Candidacy(j, i) \notin net
    BY <1>6, CycleOwn, Zenon DEF Alive, Candidacy
  <2>4. m_state[i] # "DOWN" =>
          /\ m_state'[j] = "LEADER" => Alive(j, i) \in net'
          /\ m_state'[j] = "ELECTION" => Candidacy(j, i) \in net'
    BY <1>6, CycleSends, Zenon DEF Running
  <2>5. CASE m_state'[j] = "LEADER" /\ m_state[j] = "LEADER"
    BY <1>1, <1>2, <2>1, <2>2, <2>3, <2>4, <2>5, Zenon DEF Exclusion, HearsLeader
  <2>6. CASE /\ m_state'[j] = "LEADER" /\ m_state[j] = "ELECTION"
             /\ m_callsCounter[j] = 0 /\ ~Beaten(j)
    <3>1. behind[j] = {}
      BY <1>6, CycleOwn, Zenon
    <3>2. m_state[i] # "LEADER"
      BY <1>1, <2>6, <3>1 DEF Exclusion, HearsLeader
    <3>3. CASE m_callsCounter[i] = 1
      BY <1>2, <2>1, <2>4, <2>6, <3>2, <3>3, Zenon DEF Exclusion, HearsLeader
    <3>4. CASE m_callsCounter[i] = 0 /\ i < j
      <4>1. m_state[i] = "ELECTION" => j \in receivedIdList[i]
        BY <1>1, <2>3, <2>6, <3>4 DEF Exclusion, HearsCandidate
      <4>2. m_state[i] = "ELECTION" => Beaten(i)
        BY <3>4, <4>1 DEF Beaten, checkList, Ids
      <4> QED BY <2>1, <2>2, <2>6, <3>2, <4>2, Zenon DEF Exclusion, HearsLeader
    <3>5. CASE m_callsCounter[i] = 0 /\ j < i
      <4>1. m_state[i] = "ELECTION" => i \in receivedIdList[j]
        BY <1>1, <2>6, <3>1, <3>5 DEF Exclusion, HearsCandidate
      <4>2. m_state[i] # "ELECTION"
        BY <2>6, <3>5, <4>1 DEF Beaten, checkList, Ids
      <4> QED BY <2>1, <2>6, <3>2, <4>2, Zenon DEF Exclusion
    <3>6. i < j \/ j < i
      BY DEF Ids
    <3> QED BY <2>1, <3>3, <3>4, <3>5, <3>6, Zenon
  <2>7. CASE m_state'[j] = "ELECTION"
    <3>1. CASE m_callsCounter[j] = 0
      BY <1>2, <1>6, <2>1, <2>4, <2>7, <3>1, CycleOwn, Zenon DEF Exclusion, HearsCandidate
    <3>2. CASE m_callsCounter[j] = 1 /\ m_state[j] = "ELECTION"
      BY <1>1, <1>2, <2>1, <2>3, <2>4, <2>7, <3>2, Zenon DEF Exclusion, HearsCandidate
    <3> QED BY <1>6, <2>1, <2>7, <3>1, <3>2, CycleOwn, Zenon
  <2> QED BY <1>6, <2>5, <2>6, <2>7, CycleOwn, Zenon
<1> QED BY <1>3, <1>4, <1>5, <1>6, Zenon

(* A command that is read is remembered: what was on the way is known now. *)
LEMMA HandlerExclusion ==
  ASSUME Untorn, NEW m \in net, commandHandlerHad(m)
  PROVE  \A i, j \in Ids : i # j => Exclusion(i, j)'
<1> SUFFICES ASSUME NEW i \in Ids, NEW j \in Ids, i # j PROVE Exclusion(i, j)'
  BY Zenon
<1> USE DEF commandHandlerHad
<1>1. Exclusion(i, j)
  BY Zenon DEF Untorn, ElectionInv
<1>2. m \in Messages
  BY Zenon DEF Untorn, TypeOK
<1>3. Alive(j, i)' = Alive(j, i) /\ Candidacy(j, i)' = Candidacy(j, i)
  BY Zenon DEF Alive, Candidacy
<1>4. /\ receivedAliveList[i] \subseteq receivedAliveList'[i]
      /\ receivedIdList[i] \subseteq receivedIdList'[i]
  BY <1>2 DEF Untorn, TypeOK, Messages
<1>5. Beaten(i) => Beaten(i)'
  BY <1>4, Zenon DEF Beaten, checkList, m_isPrimary
<1>6. Alive(j, i) \in net => Alive(j, i) \in net' \/ Beaten(i)'
  <2>1. CASE m = Alive(j, i)
    BY <1>2, <2>1 DEF Untorn, TypeOK, Alive, Beaten, m_isPrimary
  <2> QED BY <2>1, Zenon
<1>7. Candidacy(j, i) \in net => Candidacy(j, i) \in net' \/ j \in receivedIdList'[i]
  <2>1. CASE m = Candidacy(j, i)
    BY <1>2, <2>1 DEF Untorn, TypeOK, Candidacy
  <2> QED BY <2>1, Zenon
<1> QED BY <1>1, <1>3, <1>4, <1>5, <1>6, <1>7, Zenon
      DEF Exclusion, HearsLeader, HearsCandidate

(* The end, the restart and the resignation of a HAD take it out of the race. *)
LEMMA ChangeExclusion ==
  ASSUME Untorn, NEW k \in Ids,
         reinitialize(k) \/ End(k) \/ StepUnheard(k)
  PROVE  \A i, j \in Ids : i # j => Exclusion(i, j)'
<1> USE DEF Untorn, TypeOK, GoTo, clearBuffers
<1>1. CASE reinitialize(k)
  BY <1>1, OutOfTheRace, Zenon DEF reinitialize
<1>2. CASE End(k)
  BY <1>2, OutOfTheRace, Zenon DEF End, Leave
<1>3. CASE StepUnheard(k)
  BY <1>3, OutOfTheRace DEF StepUnheard, Rearm
<1> QED BY <1>1, <1>2, <1>3, Zenon

(* No action of the program and no change of the pool breaks ElectionInv. *)
LEMMA NextElectionInv ==
  ASSUME TypeOK, ElectionInv, [Next]_vars
  PROVE  ElectionInv'
<1> SUFFICES ASSUME ~torn', ~m_usePrimary'
             PROVE  /\ side' = {}
                    /\ \A i, j \in Ids : i # j => Exclusion(i, j)'
  BY Zenon DEF ElectionInv
<1> DEFINE Goal == side' = {} /\ \A i, j \in Ids : i # j => Exclusion(i, j)'
<1>1. m_usePrimary' = m_usePrimary
  BY Zenon DEF Next, vars, cycle, reinitialize, Stop, StepNoMaster, End, commandHandlerHad,
         reinitializeNoMaster, StepUnheard, Partition, Repair
<1>2. torn' = torn /\ (side' = side \/ side' = {})
  BY Zenon DEF Next, vars, cycle, reinitialize, Stop, StepNoMaster, End, commandHandlerHad,
         reinitializeNoMaster, StepUnheard, Partition, Repair, pool
<1>3. Untorn
  BY <1>1, <1>2, Zenon DEF Untorn
<1>4. side' = {}
  BY <1>2, <1>3, Zenon DEF Untorn, ElectionInv
<1>5. ASSUME NEW k \in Ids, cycle(k) PROVE Goal
  BY <1>1, <1>3, <1>4, <1>5, CycleExclusion, Zenon
<1>6. ASSUME NEW k \in Ids, \/ reinitialize(k) \/ Stop(k) \/ StepNoMaster(k)
                            \/ reinitializeNoMaster(k) \/ StepUnheard(k)
      PROVE  Goal
  BY <1>3, <1>4, <1>6, ChangeExclusion, Zenon DEF Stop, StepNoMaster, reinitializeNoMaster
<1>7. ASSUME NEW m \in net, commandHandlerHad(m) PROVE Goal
  BY <1>3, <1>4, <1>7, HandlerExclusion, Zenon
<1>8. ASSUME NEW S \in SUBSET (Ids \ {0}) \ {{}}, Partition(S) PROVE Goal
  BY <1>8, Zenon DEF Partition
<1>9. CASE Repair
  BY <1>3, <1>9, Zenon DEF Untorn, ElectionInv, Repair
<1>10. CASE UNCHANGED vars
  <2>1. /\ UNCHANGED <<m_usePrimary, m_state, m_callsCounter, receivedAliveList,
                       receivedIdList, behind, net>>
    BY <1>10, Zenon DEF vars, had
  <2>2. ASSUME NEW i \in Ids, NEW j \in Ids, i # j PROVE Exclusion(i, j)'
    <3>1. Exclusion(i, j)
      BY <1>3, <2>2, Zenon DEF Untorn, ElectionInv
    <3> QED BY <2>1, <3>1, Zenon DEF Exclusion, HearsLeader, HearsCandidate, Beaten,
          checkList, m_isPrimary, Alive, Candidacy
  <2> QED BY <1>4, <2>2, Zenon
<1> QED BY <1>5, <1>6, <1>7, <1>8, <1>9, <1>10, Zenon DEF Next

(* At the start nobody leads or stands. *)
LEMMA InitElectionInv == Init => ElectionInv
BY Zenon DEF Init, ElectionInv, Exclusion

(* Pairs that exclude each other make at most one leader. *)
LEMMA ExclusionIsOneLeader == ElectionInv => NeverTwoLeaders
<1> SUFFICES ASSUME ElectionInv, ~torn, ~m_usePrimary
             PROVE  Cardinality(Leaders) <= 1
  BY Zenon DEF NeverTwoLeaders
<1>1. CASE Leaders = {}
  BY <1>1, FS_EmptySet
<1>2. CASE Leaders # {}
  <2>1. PICK i \in Leaders : TRUE
    BY <1>2, Zenon
  <2>2. Leaders = {i}
    BY <2>1, Zenon DEF Leaders, ElectionInv, Exclusion
  <2> QED BY <2>2, FS_Singleton
<1> QED BY <1>1, <1>2, Zenon

(* As long as machines and daemons only stop and start, and there is no primary,
   step never makes a second leader: for any HAD_LIST, and with the commands on
   their way delivered in any order the intervals allow. *)
THEOREM OneLeaderAtMost == Spec => []NeverTwoLeaders
<1>1. Init => TypeOK /\ ElectionInv
  BY InitNegotiators, InitElectionInv, Zenon DEF NegotiatorsOfLeaders
<1>2. NegotiatorsOfLeaders /\ ElectionInv /\ [Next]_vars => ElectionInv'
  BY NextElectionInv, Zenon DEF NegotiatorsOfLeaders
<1> QED BY <1>1, <1>2, NegotiatorsFollowLeaders, ExclusionIsOneLeader, PTL DEF Spec
=============================================================================
