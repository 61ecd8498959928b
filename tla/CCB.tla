-------------------------------- MODULE CCB --------------------------------
(***************************************************************************)
(* Connection brokering (ccb): daemons that cannot be reached register     *)
(* with a broker (CCBListener), clients ask the broker (CCBServer) to have *)
(* a daemon connect to them, and the daemon reports how that went.  The    *)
(* broker keeps reconnect records, in a file that it flushes now and then, *)
(* so that daemons keep their ids when a connection or the broker dies.    *)
(*                                                                         *)
(* A client makes one request; its name stands for the connect id that it  *)
(* makes up.  A cookie is the boot of the broker and the id it was made    *)
(* for, which stand for a random number.                                   *)
(***************************************************************************)
EXTENDS Integers, Sequences, FiniteSets, Functions

CONSTANTS
  Listeners,
  Clients,
  Conns,           \* connections that may exist at a time, numbers
  IPs, Home,       \* addresses, and the first one of the daemons
  Jump,            \* ids skipped after a load (100)
  MaxUnflushed,    \* bound: records written between two flushes
  MaxFaults,       \* bound on crashes, cuts, moves and spurious give-ups
  MaxSweeps,       \* bound on sweeps of the reconnect records
  m_reconnect_allowed_from_any_ip,
  None

(* What is sent, and the two ends of a connection: who opened it, from where,
   whether it was cut silently, which ends are open, and what is under way; a
   line of the reconnect file. *)
CCBIDs == Nat
Cookies == Nat \X CCBIDs
Registrations ==
  [cmd : {"CCB_REGISTER"}, ccbid : CCBIDs \cup {None}, cookie : Cookies \cup {None}]
Requests == [cmd : {"CCB_REQUEST"}, request : Nat, connect_id : Clients]
Results == [cmd : {"CCB_RESULT"}, request : Nat, connect_id : Clients, success : BOOLEAN]
Connections ==
  [l : Listeners, ip : IPs, cut : BOOLEAN, atListener : BOOLEAN, atBroker : BOOLEAN,
   toBroker : Seq(Registrations \cup Results), toListener : Seq(Registrations \cup Requests)]
ReconnectLine == [ccbid : CCBIDs, cookie : Cookies, ip : IPs]

ASSUME CCBAssumption ==
  /\ Jump \in Nat /\ MaxUnflushed \in Nat /\ MaxUnflushed < Jump
  /\ Conns \subseteq Nat /\ Home \in IPs
  /\ m_reconnect_allowed_from_any_ip \in BOOLEAN
  /\ None \notin CCBIDs \cup Conns \cup Connections \cup {"success"}
  /\ None \notin Seq(ReconnectLine)

VARIABLES
  up,                \* the broker is running
  m_next_ccbid,
  m_next_request_id,
  m_targets,         \* ccbid -> connection and requests
  m_requests,        \* request id -> client and ccbid
  m_reconnect_info,  \* ccbid -> cookie, ip and sweeps missed
  disk,              \* the reconnect file as flushed, None if there is none
  buffer,            \* what stdio has not flushed
  listener,
  reversing,         \* reversed connections under way
  conn,
  client,
  boots, faults, sweeps,
  committed,         \* this boot has flushed a record, or is the first
  pruned             \* records expired, or two boots in a row lost theirs

broker == <<up, m_next_ccbid, m_next_request_id, m_targets, m_requests, m_reconnect_info>>
file == <<disk, buffer>>
ghosts == <<boots, faults, sweeps, committed, pruned>>
vars == <<broker, file, listener, reversing, conn, client, ghosts>>

Phases == {"m_reconnect_timer", "m_waiting_for_connect", "m_waiting_for_registration", "m_registered"}

(* A daemon has connected. *)
Open(l) == [l |-> l, ip |-> listener[l].ip, cut |-> FALSE,
            atListener |-> TRUE, atBroker |-> TRUE, toBroker |-> <<>>, toListener |-> <<>>]

Free(c) == conn[c] = None

(* An end is closed; the connection is forgotten when both are. *)
Shut(k, end) ==
  IF k = None THEN None
  ELSE LET s == [k EXCEPT ![end] = FALSE] IN
       IF s.atListener \/ s.atBroker THEN s ELSE None

ShutAll(cs, end) == [c \in Conns |-> IF c \in cs THEN Shut(conn[c], end) ELSE conn[c]]

(* A write succeeds even if nobody will read it. *)
Put(k, way, msg) ==
  LET reader == IF way = "toBroker" THEN "atBroker" ELSE "atListener" IN
  IF k.cut \/ ~k[reader] THEN k ELSE [k EXCEPT ![way] = Append(@, msg)]

Without(f, S) == Restrict(f, DOMAIN f \ S)
With(f, x, y) == [z \in DOMAIN f \cup {x} |-> IF z = x THEN y ELSE f[z]]

-----------------------------------------------------------------------------
(* The tables of the broker. *)

(* What RemoveTarget leaves when the targets of ids are removed: their requests
   are hung up. *)
RequestsOf(ids) == UNION {m_targets[i].requests : i \in ids}
HungUp(ids) == {m_requests[r].client : r \in RequestsOf(ids)}
ConnsOf(ids) == {m_targets[i].conn : i \in ids}

HangUp(cs) ==
  [c \in Clients |-> IF c \in cs THEN [client[c] EXCEPT !.state = "hungup"] ELSE client[c]]

RemoveTarget(id) ==
  /\ m_targets' = Without(m_targets, {id})
  /\ m_requests' = Without(m_requests, RequestsOf({id}))
  /\ client' = HangUp(HungUp({id}))
  /\ UNCHANGED <<up, m_next_ccbid, m_next_request_id, m_reconnect_info>>

(* RemoveRequest: the tables without the request r of the target id. *)
TargetsWithout(r) ==
  LET id == m_requests[r].target IN [m_targets EXCEPT ![id].requests = @ \ {r}]

(* The id at which the search for one that is not in use ends. *)
NextFree(n, used) ==
  {i \in n .. n + Cardinality(used) : i \in CCBIDs \ used /\ n .. i - 1 \subseteq used}

Target(c) == [conn |-> c, requests |-> {}]

(* May the daemon of connection c have its id back? *)
ReconnectTarget(c, msg) ==
  /\ msg.ccbid \in DOMAIN m_reconnect_info
  /\ LET info == m_reconnect_info[msg.ccbid] IN
     /\ info.ip = conn[c].ip \/ m_reconnect_allowed_from_any_ip
     /\ info.cookie = msg.cookie

(* The registration is answered.  When that fails the target is removed again:
   TargetDisconnect. *)
Reply(k, id, cookie) ==
  Put([k EXCEPT !.toBroker = Tail(@)], "toListener",
      [cmd |-> "CCB_REGISTER", ccbid |-> id, cookie |-> cookie])

(* Mutant: the requests of the old connection are left in the table. *)
ReconnectedOver(c, msg) ==
  LET existing == {msg.ccbid} \cap DOMAIN m_targets IN
  /\ ReconnectTarget(c, msg)
  /\ m_reconnect_info' = [m_reconnect_info EXCEPT ![msg.ccbid].missed = 0]
  /\ m_targets' = With(m_targets, msg.ccbid, Target(c))
  /\ conn' = [ShutAll(ConnsOf(existing), "atBroker") EXCEPT ![c] = Reply(conn[c], msg.ccbid, msg.cookie)]
  /\ UNCHANGED <<m_requests, client, m_next_ccbid, disk, buffer>>

(* Mutant: the old connection stays the one of the target. *)
ReconnectedBehind(c, msg) ==
  /\ ReconnectTarget(c, msg)
  /\ m_targets' = IF msg.ccbid \in DOMAIN m_targets THEN m_targets
                  ELSE With(m_targets, msg.ccbid, Target(c))
  /\ conn' = [conn EXCEPT ![c] = Reply(conn[c], msg.ccbid, msg.cookie)]
  /\ UNCHANGED <<m_reconnect_info, m_requests, client, m_next_ccbid, disk, buffer>>

Reconnected(c, msg) ==
  LET existing == {msg.ccbid} \cap DOMAIN m_targets IN
  /\ ReconnectTarget(c, msg)
  /\ m_reconnect_info' = [m_reconnect_info EXCEPT ![msg.ccbid].missed = 0]
  /\ m_targets' = With(m_targets, msg.ccbid, Target(c))
  /\ m_requests' = Without(m_requests, RequestsOf(existing))
  /\ client' = HangUp(HungUp(existing))
  /\ conn' = [ShutAll(ConnsOf(existing), "atBroker") EXCEPT ![c] = Reply(conn[c], msg.ccbid, msg.cookie)]
  /\ UNCHANGED <<m_next_ccbid, disk, buffer>>

AddTarget(c, msg) ==
  \E id \in NextFree(m_next_ccbid, DOMAIN m_reconnect_info \cup DOMAIN m_targets) :
    LET cookie == <<boots, id>> IN
    /\ ~ReconnectTarget(c, msg)
    /\ Len(buffer) < MaxUnflushed
    /\ m_next_ccbid' = id + 1
    /\ m_targets' = With(m_targets, id, Target(c))
    /\ m_reconnect_info' =
         With(m_reconnect_info, id, [cookie |-> cookie, ip |-> conn[c].ip, missed |-> 0])
    /\ disk' = IF disk = None THEN <<>> ELSE disk
    /\ buffer' = Append(buffer, [ccbid |-> id, cookie |-> cookie, ip |-> conn[c].ip])
    /\ conn' = [conn EXCEPT ![c] = Reply(conn[c], id, cookie)]
    /\ UNCHANGED <<m_requests, client>>

Incoming(c, cmd) ==
  /\ up
  /\ ~Free(c)
  /\ conn[c].atBroker
  /\ conn[c].toBroker # <<>> /\ Head(conn[c].toBroker).cmd = cmd

HandleRegistration(c) ==
  /\ Incoming(c, "CCB_REGISTER")
  /\ LET msg == Head(conn[c].toBroker) IN Reconnected(c, msg) \/ AddTarget(c, msg)
  /\ UNCHANGED <<up, m_next_request_id, listener, reversing, ghosts>>

TargetOf(c) == CHOOSE i \in DOMAIN m_targets : m_targets[i].conn = c

(* Mutant: any report on a request of that number will do. *)
AnyConnectId(msg) == TRUE

RightConnectId(msg) == m_requests[msg.request].client = msg.connect_id

(* A client is told how its request went. *)
RequestReply(p, success) ==
  [client EXCEPT ![p] = [@ EXCEPT !.state = "told", !.told = IF success THEN "success" ELSE "failure"]]

RequestFinished(r, success) ==
  /\ client' = RequestReply(m_requests[r].client, success)
  /\ m_targets' = TargetsWithout(r)
  /\ m_requests' = Without(m_requests, {r})
  /\ UNCHANGED <<up, m_next_ccbid, m_next_request_id, m_reconnect_info>>

Read(c) == [conn EXCEPT ![c].toBroker = Tail(@)]

(* The broker reads a report.  One for a request that is not there is ignored;
   the wrong connect id costs the daemon its connection. *)
HandleRequestResultsMsg(c) ==
  /\ Incoming(c, "CCB_RESULT")
  /\ LET msg == Head(conn[c].toBroker) IN
     \/ /\ msg.request \notin DOMAIN m_requests
        /\ conn' = Read(c)
        /\ UNCHANGED <<broker, client>>
     \/ /\ msg.request \in DOMAIN m_requests
        /\ ~RightConnectId(msg)
        /\ conn' = [conn EXCEPT ![c] = Shut(@, "atBroker")]
        /\ RemoveTarget(TargetOf(c))
     \/ /\ msg.request \in DOMAIN m_requests
        /\ RightConnectId(msg)
        /\ conn' = Read(c)
        /\ RequestFinished(msg.request, msg.success)
  /\ UNCHANGED <<file, listener, reversing, ghosts>>

(* The broker reads the end of a connection that the daemon has closed, or
   fails to answer on it (what was under way is lost then), or TCP's keep-alive
   has found out one that was cut. *)
TargetDisconnect(c) ==
  /\ up /\ ~Free(c)
  /\ conn[c].atBroker
  /\ conn[c].cut \/ ~conn[c].atListener
  /\ conn' = [conn EXCEPT ![c] = Shut(@, "atBroker")]
  /\ IF c \in ConnsOf(DOMAIN m_targets) THEN RemoveTarget(TargetOf(c))
     ELSE UNCHANGED <<broker, client>>
  /\ UNCHANGED <<file, listener, reversing, ghosts>>

(* A client that knows the id l has now (an earlier one is left out) asks for a
   connection; the broker forwards the request if a daemon is registered with
   that id, which may fail. *)
HandleRequest(p, l) ==
  LET id == listener[l].m_ccbid IN
  /\ up
  /\ client[p].state = "idle" /\ id # None
  /\ \/ /\ id \notin DOMAIN m_targets
        /\ client' = RequestReply(p, FALSE)
        /\ UNCHANGED <<broker, conn>>
     \/ /\ id \in DOMAIN m_targets
        /\ LET k == conn[m_targets[id].conn] IN k.cut \/ ~k.atListener
        /\ client' = RequestReply(p, FALSE)
        /\ m_next_request_id' = m_next_request_id + 1
        /\ UNCHANGED <<up, m_next_ccbid, m_targets, m_requests, m_reconnect_info, conn>>
     \/ /\ id \in DOMAIN m_targets
        /\ client' = [client EXCEPT ![p] = [@ EXCEPT !.state = "waiting", !.want = l]]
        /\ m_next_request_id' = m_next_request_id + 1
        /\ m_requests' = With(m_requests, m_next_request_id, [client |-> p, target |-> id])
        /\ m_targets' = [m_targets EXCEPT ![id].requests = @ \cup {m_next_request_id}]
        /\ conn' = [conn EXCEPT ![m_targets[id].conn] =
             Put(@, "toListener", [cmd |-> "CCB_REQUEST", request |-> m_next_request_id, connect_id |-> p])]
        /\ UNCHANGED <<up, m_next_ccbid, m_reconnect_info>>
  /\ UNCHANGED <<file, listener, reversing, ghosts>>

(* The client leaves, with or without its connection. *)
HandleRequestDisconnect(r) ==
  /\ up
  /\ client' = [client EXCEPT ![m_requests[r].client].state = "left"]
  /\ m_targets' = TargetsWithout(r)
  /\ m_requests' = Without(m_requests, {r})
  /\ UNCHANGED <<up, m_next_ccbid, m_next_request_id, m_reconnect_info>>
  /\ UNCHANGED <<file, listener, reversing, conn, ghosts>>

-----------------------------------------------------------------------------
(* The reconnect file. *)

Flushed == IF disk = None THEN None ELSE disk \o buffer

(* PollSockets, between two sweeps. *)
Poll ==
  /\ up
  /\ buffer # <<>>
  /\ disk' = Flushed
  /\ buffer' = <<>>
  /\ committed' = TRUE
  /\ UNCHANGED <<broker, listener, reversing, conn, client, boots, faults, sweeps, pruned>>

(* CCBReconnectInfo, made from a record of the file or from an older one. *)
Info(r, missed) == [cookie |-> r.cookie, ip |-> r.ip, missed |-> missed]

(* A record that nobody has used for more than two intervals expires.  At the
   second sweep that misses it that may be so or not. *)
Expired(info) ==
  LET missed(n) == {i \in DOMAIN info : info[i].missed = n}
  IN {missed(3) \cup some : some \in SUBSET missed(2)}

(* SaveAllReconnectInfo. *)
Rewrite(info) ==
  LET ids == DOMAIN info
      line(n) == CHOOSE i \in ids : Cardinality({j \in ids : j <= i}) = n
  IN IF info = <<>> THEN None
     ELSE [n \in 1..Cardinality(ids) |->
             [ccbid |-> line(n), cookie |-> info[line(n)].cookie, ip |-> info[line(n)].ip]]

(* Mutant: the records of targets that are registered grow old as well. *)
SeenByNobody ==
  [i \in DOMAIN m_reconnect_info |-> Info(m_reconnect_info[i], m_reconnect_info[i].missed + 1)]

(* The records of the targets that are registered are alive. *)
Seen ==
  [i \in DOMAIN m_reconnect_info |->
     Info(m_reconnect_info[i], IF i \in DOMAIN m_targets THEN 0 ELSE m_reconnect_info[i].missed + 1)]

(* What SaveAllReconnectInfo writes takes the file's place at once: the .new file
   that a crash leaves half-way, and that the next rewriting adds to, is left
   out. *)
SweepReconnectInfo ==
  \E gone \in Expired(Seen) :
     /\ up
     /\ sweeps < MaxSweeps
     /\ sweeps' = sweeps + 1
     /\ m_reconnect_info' = Without(Seen, gone)
     /\ disk' = IF gone = {} THEN Flushed ELSE Rewrite(m_reconnect_info')
     /\ buffer' = <<>>
     /\ committed' = (committed \/ buffer # <<>>)
     /\ pruned' = (pruned \/ gone # {})
     /\ UNCHANGED <<up, m_next_ccbid, m_next_request_id, m_targets, m_requests>>
     /\ UNCHANGED <<listener, reversing, conn, client, boots, faults>>

(* LoadReconnectInfo handles the lines of the file one after the other.  Where
   the last one leaves the next id: a line moves it past its own only if that
   is greater. *)
PastLines(records) ==
  LET next[i \in 0 .. Len(records)] ==
        IF i = 0 THEN 1
        ELSE IF records[i].ccbid > next[i - 1] THEN records[i].ccbid + 1 ELSE next[i - 1]
  IN next[Len(records)]

(* Mutant: the records that were lost are not allowed for. *)
LoadNextOnly(records) == PastLines(records)

LoadNext(records) == Jump + PastLines(records)

Loaded(records) ==
  LET info[i \in 0 .. Len(records)] ==
        IF i = 0 THEN <<>> ELSE With(info[i - 1], records[i].ccbid, Info(records[i], 0))
  IN info[Len(records)]

-----------------------------------------------------------------------------
(* Faults. *)

Fault == faults < MaxFaults /\ faults' = faults + 1

(* The broker dies: some of the buffer may have been flushed. *)
Crash ==
  /\ up
  /\ Fault
  /\ up' = FALSE
  /\ \E n \in 0 .. Len(buffer) :
       /\ disk' = IF disk = None THEN None ELSE disk \o SubSeq(buffer, 1, n)
       /\ pruned' = (pruned \/ (n = 0 /\ buffer # <<>> /\ ~committed))
  /\ buffer' = <<>>
  /\ m_next_ccbid' = 1
  /\ m_next_request_id' = 1
  /\ m_targets' = <<>>
  /\ m_requests' = <<>>
  /\ m_reconnect_info' = <<>>
  /\ client' = HangUp({p \in Clients : client[p].state = "waiting"})
  /\ conn' = ShutAll({c \in Conns : ~Free(c)}, "atBroker")
  /\ UNCHANGED <<listener, reversing, boots, sweeps, committed>>

InitAndReconfig ==
  /\ ~up
  /\ up' = TRUE
  /\ boots' = boots + 1
  /\ committed' = FALSE
  /\ m_next_ccbid' = IF disk = None THEN 1 ELSE LoadNext(disk)
  /\ m_reconnect_info' = IF disk = None THEN <<>> ELSE Loaded(disk)
  /\ UNCHANGED <<m_next_request_id, m_targets, m_requests, file>>
  /\ UNCHANGED <<listener, reversing, conn, client, faults, sweeps, pruned>>

(* A connection stops carrying anything, and neither end is told. *)
Cut(c) ==
  /\ Fault
  /\ ~Free(c) /\ ~conn[c].cut
  /\ conn' = [conn EXCEPT ![c] = [@ EXCEPT !.cut = TRUE, !.toBroker = <<>>, !.toListener = <<>>]]
  /\ UNCHANGED <<broker, file, listener, reversing, client, boots, sweeps, committed, pruned>>

(* The machine of a daemon gets another address; its connection is lost. *)
Move(l) ==
  /\ Fault
  /\ listener[l].phase = "m_reconnect_timer"
  /\ \E ip \in IPs \ {listener[l].ip} : listener' = [listener EXCEPT ![l].ip = ip]
  /\ UNCHANGED <<broker, file, reversing, conn, client, boots, sweeps, committed, pruned>>

-----------------------------------------------------------------------------
(* The daemons. *)

DaemonStep == UNCHANGED <<broker, file, client, boots, sweeps, committed, pruned>>

Disconnected(l) ==
  listener' = [listener EXCEPT ![l].phase = "m_reconnect_timer", ![l].sock = None]

(* ReconnectTime, and the registration at the start. *)
ReconnectTime(l) ==
  /\ listener[l].phase = "m_reconnect_timer"
  /\ listener' = [listener EXCEPT ![l].phase = "m_waiting_for_connect"]
  /\ DaemonStep
  /\ UNCHANGED <<reversing, conn, faults>>

(* The connection is made and the registration sent, or nobody is there. *)
CCBConnectCallback(l) ==
  /\ listener[l].phase = "m_waiting_for_connect"
  /\ \/ /\ up
        /\ \E c \in Conns :
             /\ Free(c) /\ \A d \in Conns : d < c => ~Free(d)
             /\ listener' = [listener EXCEPT ![l].phase = "m_waiting_for_registration", ![l].sock = c]
             /\ conn' = [conn EXCEPT ![c] = Put(Open(l), "toBroker",
                  [cmd |-> "CCB_REGISTER", ccbid |-> listener[l].m_ccbid, cookie |-> listener[l].m_cookie])]
     \/ /\ ~up
        /\ Disconnected(l)
        /\ UNCHANGED conn
  /\ DaemonStep
  /\ UNCHANGED <<reversing, faults>>

Sock(l) == conn[listener[l].sock]

HandleCCBRegistrationReply(l, msg) ==
  /\ msg.cmd = "CCB_REGISTER"
  /\ listener' = [listener EXCEPT ![l].phase = "m_registered", ![l].m_ccbid = msg.ccbid,
                                  ![l].m_cookie = msg.cookie]
  /\ UNCHANGED reversing

(* The reversed connection is started. *)
HandleCCBRequest(l, msg) ==
  /\ msg.cmd = "CCB_REQUEST"
  /\ reversing' = reversing \cup {[l |-> l, request |-> msg.request, connect_id |-> msg.connect_id]}
  /\ UNCHANGED listener

ReadMsgFromCCB(l) ==
  /\ listener[l].sock # None
  /\ Sock(l).toListener # <<>>
  /\ LET msg == Head(Sock(l).toListener)
     IN HandleCCBRegistrationReply(l, msg) \/ HandleCCBRequest(l, msg)
  /\ conn' = [conn EXCEPT ![listener[l].sock].toListener = Tail(@)]
  /\ DaemonStep
  /\ UNCHANGED faults

Hangup(l) ==
  /\ Disconnected(l)
  /\ conn' = [conn EXCEPT ![listener[l].sock] = Shut(@, "atListener")]
  /\ DaemonStep
  /\ UNCHANGED reversing

(* The daemon reads the end of a connection, or fails to write to it. *)
ListenerDisconnect(l) ==
  /\ listener[l].sock # None
  /\ ~Sock(l).atBroker /\ ~Sock(l).cut
  /\ Hangup(l)
  /\ UNCHANGED faults

(* Nothing was heard for three heartbeats: the connection is dead, or the
   broker is slow. *)
HeartbeatTime(l) ==
  /\ listener[l].sock # None
  /\ IF Sock(l).cut THEN UNCHANGED faults ELSE Fault
  /\ Hangup(l)

(* The reversed connection succeeds, or not, and the broker is told if there is
   a connection to it.  A client that the broker hung up on may still listen. *)
ReverseConnected(v, success) ==
  LET l == v.l IN
  /\ success => client[v.connect_id].state # "left"
  /\ reversing' = reversing \ {v}
  /\ client' = IF success THEN [client EXCEPT ![v.connect_id].reached = @ \cup {l}] ELSE client
  /\ conn' = IF listener[l].sock = None THEN conn
             ELSE [conn EXCEPT ![listener[l].sock] = Put(@, "toBroker",
                    [cmd |-> "CCB_RESULT", request |-> v.request, connect_id |-> v.connect_id,
                     success |-> success])]
  /\ UNCHANGED <<broker, file, listener, ghosts>>

-----------------------------------------------------------------------------
Init ==
  /\ up = TRUE
  /\ m_next_ccbid = 1
  /\ m_next_request_id = 1
  /\ m_targets = <<>>
  /\ m_requests = <<>>
  /\ m_reconnect_info = <<>>
  /\ disk = None
  /\ buffer = <<>>
  /\ listener = [l \in Listeners |->
       [phase |-> "m_reconnect_timer", m_ccbid |-> None, m_cookie |-> None, ip |-> Home, sock |-> None]]
  /\ reversing = {}
  /\ conn = [c \in Conns |-> None]
  /\ client = [p \in Clients |-> [state |-> "idle", want |-> None, told |-> None, reached |-> {}]]
  /\ boots = 1
  /\ faults = 0
  /\ sweeps = 0
  /\ committed = TRUE
  /\ pruned = FALSE

Receive(c) == HandleRegistration(c) \/ HandleRequestResultsMsg(c) \/ TargetDisconnect(c)

Broker ==
  \/ \E c \in Conns : Receive(c)
  \/ \E p \in Clients, l \in Listeners : HandleRequest(p, l)
  \/ \E r \in DOMAIN m_requests : HandleRequestDisconnect(r)
  \/ Poll
  \/ SweepReconnectInfo
  \/ InitAndReconfig

Daemon(l) ==
  \/ ReconnectTime(l)
  \/ CCBConnectCallback(l)
  \/ ReadMsgFromCCB(l)
  \/ ListenerDisconnect(l)
  \/ HeartbeatTime(l)

Next ==
  \/ Broker
  \/ \E l \in Listeners : Daemon(l) \/ Move(l)
  \/ \E v \in reversing, success \in BOOLEAN : ReverseConnected(v, success)
  \/ Crash
  \/ \E c \in Conns : Cut(c)

Spec == Init /\ [][Next]_vars

(* The broker polls and is started again, messages arrive, and heartbeats find
   out dead connections. *)
FairSpec ==
  /\ Spec
  /\ WF_vars(Poll \/ InitAndReconfig)
  /\ \A c \in Conns : WF_vars(Receive(c))
  /\ \A l \in Listeners :
       WF_vars(ReconnectTime(l) \/ CCBConnectCallback(l) \/ ReadMsgFromCCB(l) \/ ListenerDisconnect(l)
                 \/ (listener[l].sock # None /\ Sock(l).cut /\ HeartbeatTime(l)))

-----------------------------------------------------------------------------
(* Properties. *)

(* What the daemons, the clients and the connections between them may be. *)
PeersOK ==
  /\ m_next_request_id \in Nat \ {0} /\ boots \in Nat
  /\ listener \in [Listeners ->
       [phase : Phases, m_ccbid : CCBIDs \cup {None}, m_cookie : Cookies \cup {None},
        ip : IPs, sock : Conns \cup {None}]]
  /\ reversing \subseteq [l : Listeners, request : Nat, connect_id : Clients]
  /\ conn \in [Conns -> Connections \cup {None}]
  /\ client \in [Clients ->
       [state : {"idle", "waiting", "told", "hungup", "left"}, want : Listeners \cup {None},
        told : {None, "success", "failure"}, reached : SUBSET Listeners]]

TypeOK ==
  /\ PeersOK
  /\ {up, committed, pruned} \subseteq BOOLEAN
  /\ m_next_ccbid \in CCBIDs \ {0}
  /\ DOMAIN m_reconnect_info \subseteq CCBIDs
  /\ \A i \in DOMAIN m_reconnect_info :
       m_reconnect_info[i] \in [cookie : Cookies, ip : IPs, missed : 0 .. 2]
  /\ \A r \in Range(buffer) : r \in ReconnectLine

(* The requests of the broker and those of its targets are the same ones, and
   each waits for a target that is registered: neither the removal of a target
   nor a reconnection leaves a request of a deleted target, or a deleted
   request in a target. *)
RequestsHaveTargets ==
  /\ \A r \in DOMAIN m_requests :
       m_requests[r].target \in DOMAIN m_targets /\ r \in m_targets[m_requests[r].target].requests
  /\ \A i \in DOMAIN m_targets : \A r \in m_targets[i].requests :
       r \in DOMAIN m_requests /\ m_requests[r].target = i

(* What HandleRegistration and SweepReconnectInfo assert: the record of a target
   that is registered does not expire, across disconnections that the broker
   has not noticed, reconnections and restarts. *)
TargetsHaveRecords == DOMAIN m_targets \subseteq DOMAIN m_reconnect_info

(* A client is told of success only if a daemon did connect to it, and that is
   the one it asked for as long as no record has expired: a report that was
   under way when the broker restarted, or its daemon reconnected, is not taken
   for one on a request that has the same number. *)
AnswersAreOwn ==
  \A p \in Clients : client[p].told = "success" =>
    /\ client[p].reached # {}
    /\ ~pruned => client[p].want \in client[p].reached

(* Nobody but the daemon that a client asked for connects to it, so that no id
   goes to another daemon while clients or its owner may still use it, as long
   as no record has expired.  Every variable has its type. *)
RequestsReachTheirDaemon ==
  /\ TypeOK
  /\ ~pruned => \A p \in Clients : client[p].reached \subseteq {client[p].want}

(* The broker knows the daemon by the id that the daemon believes it has. *)
Reachable(l) ==
  LET id == listener[l].m_ccbid IN
  /\ up /\ listener[l].phase = "m_registered"
  /\ id \in DOMAIN m_targets /\ m_targets[id].conn = listener[l].sock
  /\ ~Sock(l).cut

(* Once crashes and cuts have ended every daemon can be reached again, whatever
   stale connections, records and reports they left behind. *)
ReachableInTheEnd == \A l \in Listeners : <>[]Reachable(l)

=============================================================================
