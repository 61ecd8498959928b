----------------------------- MODULE CCBProofs ------------------------------
(***************************************************************************)
(* What CCB promises, for any number of daemons, clients and connections,  *)
(* any number of crashes of the broker, cuts and sweeps.  TablesInv says   *)
(* how the tables of the broker, its connections and what is under way on  *)
(* them hang together, AnswersInv that the reports under way are true; no  *)
(* target loses its reconnect record, and a client is told of success only *)
(* if a daemon has connected to it.  IdsInv says that no id is given twice *)
(* and has one owner; only the daemon that a client wants connects to it.  *)
(***************************************************************************)
EXTENDS CCB, TLAPS

(* A broker that is down has no targets. *)
DownIsEmpty == ~up => DOMAIN m_targets = {}

-----------------------------------------------------------------------------
(* Requests, targets and connections. *)

(* The numbers of requests are not given twice by a boot of the broker. *)
RequestsAreNumbered ==
  \A r \in DOMAIN m_requests :
    r \in Nat /\ r < m_next_request_id /\ m_requests[r].client \in Clients

(* A daemon has its own connection. *)
SocksAreOwn ==
  \A l \in Listeners : listener[l].sock # None =>
    LET k == conn[listener[l].sock] IN k # None /\ k.atListener /\ k.l = l

IsTarget(c) == \E i \in DOMAIN m_targets : m_targets[i].conn = c

(* The first message on a connection, if any, is a registration. *)
Registering(k) == k.toBroker # <<>> /\ k.toBroker[1].cmd = "CCB_REGISTER"

(* A target has a connection of its own, over which it has registered. *)
TargetsAreConnected ==
  /\ \A i \in DOMAIN m_targets :
       /\ m_targets[i] \in [conn : Conns, requests : SUBSET Nat]
       /\ conn[m_targets[i].conn] # None
       /\ conn[m_targets[i].conn].atBroker
       /\ ~Registering(conn[m_targets[i].conn])
  /\ \A i, j \in DOMAIN m_targets : m_targets[i].conn = m_targets[j].conn => i = j

(* A connection starts with a registration, has no other one, and is that of a
   target when the registration has been read. *)
Wired(c) ==
  LET k == conn[c] IN
  k # None =>
    /\ \A i \in 2 .. Len(k.toBroker) : k.toBroker[i].cmd = "CCB_RESULT"
    /\ k.cut => k.toBroker = <<>>
    /\ k.atBroker /\ ~k.cut /\ ~Registering(k) => IsTarget(c)

(* A success that is reported was one. *)
ReportsAreTrue(c) ==
  LET k == conn[c] IN
  k # None =>
    \A i \in 1 .. Len(k.toBroker) :
      k.toBroker[i].cmd = "CCB_RESULT" /\ k.toBroker[i].success
        => client[k.toBroker[i].connect_id].reached # {}

WireInv ==
  /\ SocksAreOwn
  /\ TargetsAreConnected
  /\ \A c \in Conns : Wired(c)

TablesInv ==
  /\ PeersOK
  /\ DownIsEmpty
  /\ RequestsHaveTargets
  /\ RequestsAreNumbered
  /\ WireInv

(* Whoever was told of success was connected to. *)
SuccessReached ==
  \A p \in Clients : client[p].told = "success" => client[p].reached # {}

AnswersInv == SuccessReached /\ \A c \in Conns : ReportsAreTrue(c)

-----------------------------------------------------------------------------
(* What the operations on a connection do to it. *)

(* Everything but what is under way to the daemon. *)
SameEnds(k, q) ==
  /\ q \in Connections
  /\ q.l = k.l
  /\ q.atListener <=> k.atListener
  /\ q.atBroker <=> k.atBroker
  /\ q.cut <=> k.cut

(* A message to the daemon changes nothing of what the broker will read. *)
LEMMA PutToListener ==
  ASSUME NEW k \in Connections, NEW msg \in Registrations \cup Requests
  PROVE  LET q == Put(k, "toListener", msg)
         IN  SameEnds(k, q) /\ q.toBroker = k.toBroker
<1> DEFINE S == Registrations \cup Requests
<1> DEFINE T == Registrations \cup Results
<1>1. k.toListener \in Seq(S) /\ k.toBroker \in Seq(T)
  BY Zenon DEF Connections
<1> HIDE DEF S, T
<1>2. Append(k.toListener, msg) \in Seq(S)
  BY <1>1 DEF S
<1>3. [k EXCEPT !.toListener = Append(@, msg)] \in Connections
  BY <1>1, <1>2, Zenon DEF Connections, S, T
<1> QED BY <1>3, Zenon DEF Put, SameEnds, Connections

(* A message to the broker comes last, or is lost. *)
LEMMA PutToBroker ==
  ASSUME NEW k \in Connections, NEW msg \in Registrations \cup Results
  PROVE  LET q == Put(k, "toBroker", msg)
         IN  /\ SameEnds(k, q)
             /\ q.toBroker = IF k.cut \/ ~k.atBroker THEN k.toBroker
                             ELSE Append(k.toBroker, msg)
<1> DEFINE S == Registrations \cup Requests
<1> DEFINE T == Registrations \cup Results
<1>1. k.toListener \in Seq(S) /\ k.toBroker \in Seq(T)
  BY Zenon DEF Connections
<1> HIDE DEF S, T
<1>2. Append(k.toBroker, msg) \in Seq(T)
  BY <1>1 DEF T
<1>3. [k EXCEPT !.toBroker = Append(@, msg)] \in Connections
  BY <1>1, <1>2, Zenon DEF Connections, S, T
<1> QED BY <1>3, Zenon DEF Put, SameEnds, Connections

(* The daemon reads a message. *)
LEMMA TailToListener ==
  ASSUME NEW k \in Connections, k.toListener # <<>>
  PROVE  LET q == [k EXCEPT !.toListener = Tail(@)]
         IN  SameEnds(k, q) /\ q.toBroker = k.toBroker
<1> DEFINE S == Registrations \cup Requests
<1> DEFINE T == Registrations \cup Results
<1>1. k.toListener \in Seq(S) /\ k.toBroker \in Seq(T)
  BY Zenon DEF Connections
<1> HIDE DEF S, T
<1>2. Tail(k.toListener) \in Seq(S)
  BY <1>1
<1>3. [k EXCEPT !.toListener = Tail(@)] \in Connections
  BY <1>1, <1>2, Zenon DEF Connections, S, T
<1> QED BY <1>3, Zenon DEF SameEnds, Connections

(* The broker reads a message. *)
LEMMA TailToBroker ==
  ASSUME NEW k \in Connections, k.toBroker # <<>>
  PROVE  LET q == [k EXCEPT !.toBroker = Tail(@)]
         IN  SameEnds(k, q) /\ q.toBroker = Tail(k.toBroker)
<1> DEFINE S == Registrations \cup Requests
<1> DEFINE T == Registrations \cup Results
<1>1. k.toListener \in Seq(S) /\ k.toBroker \in Seq(T)
  BY Zenon DEF Connections
<1> HIDE DEF S, T
<1>2. Tail(k.toBroker) \in Seq(T)
  BY <1>1
<1>3. [k EXCEPT !.toBroker = Tail(@)] \in Connections
  BY <1>1, <1>2, Zenon DEF Connections, S, T
<1> QED BY <1>3, Zenon DEF SameEnds, Connections

(* What is under way to the broker is a sequence of messages. *)
LEMMA ToBroker ==
  ASSUME NEW k \in Connections
  PROVE  k.toBroker \in Seq(Registrations \cup Results)
BY Zenon DEF Connections

(* The broker, or the daemon, closes its end. *)
LEMMA ShutEnd ==
  ASSUME NEW k \in Connections, NEW end \in {"atBroker", "atListener"}
  PROVE  LET q == Shut(k, end)
             other == IF end = "atBroker" THEN "atListener" ELSE "atBroker"
         IN  /\ ~k[other] => q = None
             /\ k[other] => /\ q \in Connections
                            /\ q.l = k.l /\ q.cut = k.cut /\ q.toBroker = k.toBroker
                            /\ ~q[end] /\ q[other]
<1> DEFINE S == Seq(Registrations \cup Requests)
<1> DEFINE T == Seq(Registrations \cup Results)
<1> k # None
  BY CCBAssumption, Zenon
<1>1. k.toListener \in S /\ k.toBroker \in T
  BY Zenon DEF Connections
<1>2. Connections = [l : Listeners, ip : IPs, cut : BOOLEAN, atListener : BOOLEAN,
                     atBroker : BOOLEAN, toBroker : T, toListener : S]
  BY Zenon DEF Connections
<1> HIDE DEF S, T
<1>3. CASE end = "atBroker"
  BY <1>1, <1>2, <1>3, Zenon DEF Shut
<1>4. CASE end = "atListener"
  BY <1>1, <1>2, <1>4, Zenon DEF Shut
<1> QED BY <1>3, <1>4, Zenon

(* A daemon connects and registers. *)
LEMMA OpenRegisters ==
  ASSUME PeersOK, NEW l \in Listeners, NEW msg \in Registrations
  PROVE  LET q == Put(Open(l), "toBroker", msg)
         IN  /\ q \in Connections
             /\ q.l = l /\ q.atListener /\ q.atBroker /\ ~q.cut
             /\ q.toBroker = <<msg>>
<1> DEFINE S == Registrations \cup Requests
<1> DEFINE T == Registrations \cup Results
<1>1. listener[l].ip \in IPs
  BY Zenon DEF PeersOK
<1>2. <<>> \in Seq(S) /\ <<>> \in Seq(T)
  OBVIOUS
<1> HIDE DEF S, T
<1>3. Open(l) \in Connections /\ Open(l).toBroker = <<>>
  BY <1>1, <1>2, Zenon DEF Open, Connections, S, T
<1>4. Open(l).l = l /\ Open(l).atListener /\ Open(l).atBroker /\ ~Open(l).cut
  BY Zenon DEF Open
<1>5. Append(<<>>, msg) = <<msg>>
  OBVIOUS
<1> DEFINE q == Put(Open(l), "toBroker", msg)
<1>6. SameEnds(Open(l), q) /\ q.toBroker = Append(Open(l).toBroker, msg)
  BY <1>3, <1>4, PutToBroker, Zenon
<1> HIDE DEF q
<1>7. q \in Connections /\ q.l = l /\ q.atListener /\ q.atBroker /\ ~q.cut
  BY <1>4, <1>6, Zenon DEF SameEnds
<1>8. q.toBroker = <<msg>>
  BY <1>3, <1>5, <1>6, Zenon
<1> QED BY <1>7, <1>8, Zenon DEF q

(* A connection that is cut carries nothing. *)
LEMMA CutLoses ==
  ASSUME NEW k \in Connections
  PROVE  LET q == [k EXCEPT !.cut = TRUE, !.toBroker = <<>>, !.toListener = <<>>]
         IN  /\ q \in Connections
             /\ q.l = k.l
             /\ q.atListener <=> k.atListener
             /\ q.atBroker <=> k.atBroker
             /\ q.cut /\ q.toBroker = <<>>
<1> DEFINE S == Registrations \cup Requests
<1> DEFINE T == Registrations \cup Results
<1>1. <<>> \in Seq(S) /\ <<>> \in Seq(T)
  OBVIOUS
<1> HIDE DEF S, T
<1>2. Connections = [l : Listeners, ip : IPs, cut : BOOLEAN, atListener : BOOLEAN,
                     atBroker : BOOLEAN, toBroker : Seq(T), toListener : Seq(S)]
  BY Zenon DEF Connections, S, T
<1> QED BY <1>1, <1>2, Zenon

-----------------------------------------------------------------------------
(* What keeps WireInv. *)

Orderly(k) ==
  /\ \A i \in 2 .. Len(k.toBroker) : k.toBroker[i].cmd = "CCB_RESULT"
  /\ k.cut => k.toBroker = <<>>

(* Connection k goes on as q: what it is to the broker stays. *)
Steady(k, q) ==
  /\ k = None <=> q = None
  /\ k # None =>
       /\ q.l = k.l
       /\ q.atListener <=> k.atListener
       /\ q.atBroker <=> k.atBroker
       /\ Orderly(q)
       /\ Registering(q) => Registering(k)
       /\ ~q.cut => ~k.cut /\ (Registering(k) => Registering(q))

(* The broker closes its end of k. *)
Closed(k, q) ==
  /\ q = None => k = None \/ ~k.atListener
  /\ q # None => k # None /\ q.l = k.l /\ (q.atListener <=> k.atListener) /\ ~q.atBroker /\ Orderly(q)

(* The targets whose connections the broker closes are removed. *)
LEMMA WiresKept ==
  ASSUME WireInv, NEW cs \in SUBSET Conns,
         \A l \in Listeners : listener[l].sock \in Conns \cup {None},
         \A l \in Listeners : listener'[l].sock \in {listener[l].sock, None},
         \A d \in cs : Closed(conn[d], conn'[d]),
         \A d \in Conns \ cs : Steady(conn[d], conn'[d]),
         DOMAIN m_targets' = {i \in DOMAIN m_targets : m_targets[i].conn \notin cs},
         \A i \in DOMAIN m_targets' :
            /\ m_targets'[i].conn = m_targets[i].conn
            /\ m_targets'[i] \in [conn : Conns, requests : SUBSET Nat]
  PROVE  WireInv'
<1>1. SocksAreOwn'
  <2> SUFFICES ASSUME NEW l \in Listeners, listener'[l].sock # None
               PROVE  /\ conn'[listener[l].sock] # None
                      /\ conn'[listener[l].sock].atListener
                      /\ conn'[listener[l].sock].l = l
    BY Zenon DEF SocksAreOwn
  <2> DEFINE c == listener[l].sock
  <2>1. c \in Conns /\ conn[c] # None /\ conn[c].atListener /\ conn[c].l = l
    BY Zenon DEF WireInv, SocksAreOwn
  <2> QED BY <2>1, Zenon DEF Closed, Steady
<1>2. TargetsAreConnected'
  <2>1. ASSUME NEW i \in DOMAIN m_targets'
        PROVE  /\ conn'[m_targets[i].conn] # None
               /\ conn'[m_targets[i].conn].atBroker
               /\ ~Registering(conn'[m_targets[i].conn])
    <3> DEFINE c == m_targets[i].conn
    <3>1. c \in Conns \ cs /\ conn[c] # None /\ conn[c].atBroker /\ ~Registering(conn[c])
      BY Zenon DEF WireInv, TargetsAreConnected
    <3> QED BY <3>1, Zenon DEF Steady
  <2> QED BY <2>1, Zenon DEF WireInv, TargetsAreConnected, Registering
<1>3. ASSUME NEW c \in Conns PROVE Wired(c)'
  <2> SUFFICES ASSUME conn'[c] # None
               PROVE  /\ Orderly(conn'[c])
                      /\ conn'[c].atBroker /\ ~conn'[c].cut /\ ~Registering(conn'[c])
                           => IsTarget(c)'
    BY Zenon DEF Wired, Orderly, Registering
  <2>1. CASE c \in cs
    BY <2>1, Zenon DEF Closed
  <2>2. CASE c \notin cs
    <3>1. Steady(conn[c], conn'[c])
      BY <2>2, Zenon
    <3>2. IsTarget(c) => IsTarget(c)'
      BY <2>2, Zenon DEF IsTarget
    <3> QED BY <3>1, <3>2, Zenon DEF Steady, WireInv, Wired
  <2> QED BY <2>1, <2>2, Zenon
<1> QED BY <1>1, <1>2, <1>3, Zenon DEF WireInv

(* The broker reads the registration on c, and makes c the connection of id. *)
LEMMA WiresRegister ==
  ASSUME WireInv, NEW c \in Conns, NEW id, NEW cs \in SUBSET Conns, c \notin cs,
         \A l \in Listeners : listener[l].sock \in Conns \cup {None},
         UNCHANGED listener,
         conn[c] # None, conn[c].atBroker, Registering(conn[c]),
         conn'[c] # None, conn'[c].l = conn[c].l, conn'[c].atBroker,
         conn'[c].atListener <=> conn[c].atListener,
         Orderly(conn'[c]), ~Registering(conn'[c]),
         \A d \in cs : Closed(conn[d], conn'[d]),
         \A d \in Conns \ (cs \cup {c}) : conn'[d] = conn[d],
         DOMAIN m_targets' = {i \in DOMAIN m_targets : m_targets[i].conn \notin cs} \cup {id},
         \A i \in DOMAIN m_targets : m_targets[i].conn \notin cs => i # id,
         \A i \in DOMAIN m_targets' \ {id} : m_targets'[i] = m_targets[i],
         m_targets'[id] = Target(c)
  PROVE  WireInv'
<1>1. SocksAreOwn'
  <2> SUFFICES ASSUME NEW l \in Listeners, listener[l].sock # None
               PROVE  /\ conn'[listener[l].sock] # None
                      /\ conn'[listener[l].sock].atListener
                      /\ conn'[listener[l].sock].l = l
    BY Zenon DEF SocksAreOwn
  <2> DEFINE d == listener[l].sock
  <2>1. d \in Conns /\ conn[d] # None /\ conn[d].atListener /\ conn[d].l = l
    BY Zenon DEF WireInv, SocksAreOwn
  <2> QED BY <2>1, Zenon DEF Closed
<1>2. \A i \in DOMAIN m_targets : m_targets[i].conn # c
  BY Zenon DEF WireInv, TargetsAreConnected
<1>3. TargetsAreConnected'
  <2>1. ASSUME NEW i \in DOMAIN m_targets'
        PROVE  /\ m_targets'[i] \in [conn : Conns, requests : SUBSET Nat]
               /\ conn'[m_targets'[i].conn] # None
               /\ conn'[m_targets'[i].conn].atBroker
               /\ ~Registering(conn'[m_targets'[i].conn])
    <3>1. CASE i = id
      BY <3>1 DEF Target
    <3>2. CASE i # id
      <4> DEFINE d == m_targets[i].conn
      <4>1. /\ i \in DOMAIN m_targets /\ d \in Conns \ cs /\ m_targets'[i] = m_targets[i]
            /\ m_targets[i] \in [conn : Conns, requests : SUBSET Nat]
            /\ conn[d] # None /\ conn[d].atBroker /\ ~Registering(conn[d])
        BY <3>2, Zenon DEF WireInv, TargetsAreConnected
      <4>2. d # c
        BY <1>2, <4>1, Zenon
      <4> QED BY <4>1, <4>2, Zenon
    <3> QED BY <3>1, <3>2, Zenon
  <2>2. ASSUME NEW i \in DOMAIN m_targets', NEW j \in DOMAIN m_targets',
               m_targets'[i].conn = m_targets'[j].conn
        PROVE  i = j
    BY <1>2, <2>2 DEF WireInv, TargetsAreConnected, Target
  <2> QED BY <2>1, <2>2, Zenon DEF TargetsAreConnected, Registering
<1>4. ASSUME NEW d \in Conns PROVE Wired(d)'
  <2> SUFFICES ASSUME conn'[d] # None
               PROVE  /\ Orderly(conn'[d])
                      /\ conn'[d].atBroker /\ ~conn'[d].cut /\ ~Registering(conn'[d])
                           => IsTarget(d)'
    BY Zenon DEF Wired, Orderly, Registering
  <2>1. CASE d \in cs
    BY <2>1, Zenon DEF Closed
  <2>2. CASE d = c
    <3>1. IsTarget(c)'
      BY DEF IsTarget, Target
    <3> QED BY <2>2, <3>1, Zenon
  <2>3. CASE d \notin cs /\ d # c
    <3>1. IsTarget(d) => IsTarget(d)'
      BY <2>3 DEF IsTarget
    <3> QED BY <2>3, <3>1 DEF WireInv, Wired, Orderly
  <2> QED BY <2>1, <2>2, <2>3, Zenon
<1> QED BY <1>1, <1>3, <1>4, Zenon DEF WireInv

-----------------------------------------------------------------------------
(* What keeps the requests with their targets. *)

RequestInv == RequestsHaveTargets /\ RequestsAreNumbered

(* The target id is removed, or has another connection, without its requests. *)
TargetAnew(id) ==
  /\ id \in DOMAIN m_targets
  /\ m_requests' = Without(m_requests, RequestsOf({id}))
  /\ \A i \in DOMAIN m_targets \ {id} : i \in DOMAIN m_targets' /\ m_targets'[i] = m_targets[i]
  /\ \A i \in DOMAIN m_targets' : i \in DOMAIN m_targets \ {id} \/ m_targets'[i].requests = {}
  /\ UNCHANGED m_next_request_id

(* A target goes with its requests. *)
LEMMA RequestsRemoveTarget ==
  ASSUME RequestInv, NEW id, TargetAnew(id)
  PROVE  RequestInv'
<1> SUFFICES ASSUME id \in DOMAIN m_targets,
                    m_requests' = Without(m_requests, RequestsOf({id})),
                    \A i \in DOMAIN m_targets \ {id} :
                      i \in DOMAIN m_targets' /\ m_targets'[i] = m_targets[i],
                    \A i \in DOMAIN m_targets' :
                      i \in DOMAIN m_targets \ {id} \/ m_targets'[i].requests = {},
                    UNCHANGED m_next_request_id
             PROVE  RequestInv'
  BY Zenon DEF TargetAnew
<1>1. RequestsOf({id}) = m_targets[id].requests
  BY Zenon DEF RequestsOf
<1>2. DOMAIN m_requests' = DOMAIN m_requests \ m_targets[id].requests
  BY <1>1, Zenon DEF Without, Restrict
<1>3. \A r \in DOMAIN m_requests' : m_requests'[r] = m_requests[r] /\ m_requests[r].target # id
  BY <1>2, Zenon DEF Without, Restrict, RequestInv, RequestsHaveTargets
<1>4. RequestsHaveTargets'
  <2>1. ASSUME NEW r \in DOMAIN m_requests'
        PROVE  /\ m_requests'[r].target \in DOMAIN m_targets'
               /\ r \in m_targets'[m_requests'[r].target].requests
    <3>1. /\ m_requests[r].target \in DOMAIN m_targets \ {id}
          /\ r \in m_targets[m_requests[r].target].requests
      BY <1>2, <1>3, Zenon DEF RequestInv, RequestsHaveTargets
    <3> QED BY <1>3, <3>1
  <2>2. ASSUME NEW i \in DOMAIN m_targets', NEW r \in m_targets'[i].requests
        PROVE  r \in DOMAIN m_requests' /\ m_requests'[r].target = i
    <3>1. i \in DOMAIN m_targets \ {id} /\ r \in m_targets[i].requests
      BY Zenon
    <3>2. r \in DOMAIN m_requests /\ m_requests[r].target = i
      BY <3>1, Zenon DEF RequestInv, RequestsHaveTargets
    <3>3. r \notin m_targets[id].requests
      BY <3>1, <3>2, Zenon DEF RequestInv, RequestsHaveTargets
    <3> QED BY <1>2, <1>3, <3>2, <3>3, Zenon
  <2> QED BY <2>1, <2>2, Zenon DEF RequestsHaveTargets
<1>5. RequestsAreNumbered'
  BY <1>2, <1>3, Zenon DEF RequestInv, RequestsAreNumbered
<1> QED BY <1>4, <1>5, Zenon DEF RequestInv

(* A request is answered, or its client leaves. *)
LEMMA RequestsRemoveRequest ==
  ASSUME RequestInv, TargetsAreConnected, NEW r \in DOMAIN m_requests,
         UNCHANGED m_next_request_id,
         m_targets' = TargetsWithout(r),
         m_requests' = Without(m_requests, {r})
  PROVE  /\ RequestInv'
         /\ DOMAIN m_targets' = DOMAIN m_targets
         /\ \A i \in DOMAIN m_targets :
              /\ m_targets'[i].conn = m_targets[i].conn
              /\ m_targets'[i] \in [conn : Conns, requests : SUBSET Nat]
<1> DEFINE id == m_requests[r].target
<1>1. m_targets' = [m_targets EXCEPT ![id].requests = @ \ {r}]
  BY Zenon DEF TargetsWithout
<1>2. \A i \in DOMAIN m_targets : m_targets[i] \in [conn : Conns, requests : SUBSET Nat]
  BY Zenon DEF TargetsAreConnected
<1>3. /\ DOMAIN m_targets' = DOMAIN m_targets
      /\ \A i \in DOMAIN m_targets :
           /\ m_targets'[i].conn = m_targets[i].conn
           /\ m_targets'[i] \in [conn : Conns, requests : SUBSET Nat]
           /\ m_targets'[i].requests = IF i = id THEN m_targets[i].requests \ {r}
                                       ELSE m_targets[i].requests
  <2> HIDE DEF id
  <2>1. DOMAIN m_targets' = DOMAIN m_targets
    BY <1>1, Zenon
  <2>2. ASSUME NEW i \in DOMAIN m_targets
        PROVE  /\ m_targets'[i].conn = m_targets[i].conn
               /\ m_targets'[i] \in [conn : Conns, requests : SUBSET Nat]
               /\ m_targets'[i].requests = IF i = id THEN m_targets[i].requests \ {r}
                                           ELSE m_targets[i].requests
    <3>1. m_targets[i].requests \subseteq Nat /\ m_targets[i].conn \in Conns
      BY <1>2, Zenon
    <3>2. CASE i = id
      BY <1>1, <1>2, <3>1, <3>2
    <3>3. CASE i # id
      BY <1>1, <1>2, <3>3, Zenon
    <3> QED BY <3>2, <3>3, Zenon
  <2> QED BY <2>1, <2>2, Zenon
<1>4. /\ DOMAIN m_requests' = DOMAIN m_requests \ {r}
      /\ \A q \in DOMAIN m_requests' : m_requests'[q] = m_requests[q]
  BY Zenon DEF Without, Restrict
<1>5. RequestsHaveTargets'
  <2>1. ASSUME NEW q \in DOMAIN m_requests'
        PROVE  /\ m_requests'[q].target \in DOMAIN m_targets'
               /\ q \in m_targets'[m_requests'[q].target].requests
    BY <1>3, <1>4, Zenon DEF RequestInv, RequestsHaveTargets
  <2>2. ASSUME NEW i \in DOMAIN m_targets', NEW q \in m_targets'[i].requests
        PROVE  q \in DOMAIN m_requests' /\ m_requests'[q].target = i
    <3>1. i \in DOMAIN m_targets /\ q \in m_targets[i].requests /\ (i = id => q # r)
      BY <1>3, Zenon
    <3>2. q \in DOMAIN m_requests /\ m_requests[q].target = i
      BY <3>1, Zenon DEF RequestInv, RequestsHaveTargets
    <3>3. q # r
      BY <3>1, <3>2, Zenon
    <3> QED BY <1>4, <3>2, <3>3, Zenon
  <2> QED BY <2>1, <2>2, Zenon DEF RequestsHaveTargets
<1>6. RequestsAreNumbered'
  BY <1>4, Zenon DEF RequestInv, RequestsAreNumbered
<1> QED BY <1>3, <1>5, <1>6, Zenon DEF RequestInv

(* A request is added. *)
LEMMA RequestsAdd ==
  ASSUME RequestInv, TargetsAreConnected, NEW p \in Clients, NEW id \in DOMAIN m_targets,
         m_next_request_id \in Nat,
         m_next_request_id' = m_next_request_id + 1,
         m_requests' = With(m_requests, m_next_request_id, [client |-> p, target |-> id]),
         m_targets' = [m_targets EXCEPT ![id].requests = @ \cup {m_next_request_id}]
  PROVE  /\ RequestInv'
         /\ DOMAIN m_targets' = DOMAIN m_targets
         /\ \A i \in DOMAIN m_targets :
              /\ m_targets'[i].conn = m_targets[i].conn
              /\ m_targets'[i] \in [conn : Conns, requests : SUBSET Nat]
<1> DEFINE n == m_next_request_id
<1>1. n \notin DOMAIN m_requests
  BY DEF RequestInv, RequestsAreNumbered
<1>2. \A i \in DOMAIN m_targets : m_targets[i] \in [conn : Conns, requests : SUBSET Nat]
  BY Zenon DEF TargetsAreConnected
<1>3. /\ DOMAIN m_targets' = DOMAIN m_targets
      /\ \A i \in DOMAIN m_targets :
           /\ m_targets'[i].conn = m_targets[i].conn
           /\ m_targets'[i] \in [conn : Conns, requests : SUBSET Nat]
           /\ m_targets'[i].requests = IF i = id THEN m_targets[i].requests \cup {n}
                                       ELSE m_targets[i].requests
  BY <1>2, Zenon
<1>4. /\ DOMAIN m_requests' = DOMAIN m_requests \cup {n}
      /\ m_requests'[n].client = p /\ m_requests'[n].target = id
      /\ \A q \in DOMAIN m_requests : m_requests'[q] = m_requests[q]
  BY <1>1, Zenon DEF With
<1>5. RequestsHaveTargets'
  BY <1>1, <1>3, <1>4 DEF RequestInv, RequestsHaveTargets
<1>6. RequestsAreNumbered'
  BY <1>4 DEF RequestInv, RequestsAreNumbered
<1> QED BY <1>3, <1>5, <1>6, Zenon DEF RequestInv

(* Nothing of it changes. *)
LEMMA RequestsSame ==
  ASSUME RequestInv, UNCHANGED <<m_targets, m_requests, m_next_request_id>>
  PROVE  RequestInv'
BY Zenon DEF RequestInv, RequestsHaveTargets, RequestsAreNumbered

-----------------------------------------------------------------------------
(* The operations on one connection, as seen by WireInv. *)

(* What is known of every connection. *)
LEMMA ConnFacts ==
  ASSUME PeersOK, WireInv, NEW c \in Conns
  PROVE  /\ conn[c] = None \/ conn[c] \in Connections
         /\ conn[c] # None => Orderly(conn[c])
         /\ Steady(conn[c], conn[c])
BY Zenon DEF PeersOK, WireInv, Wired, Orderly, Steady

(* A message to the daemon is nothing to the broker. *)
LEMMA SteadyPutToListener ==
  ASSUME NEW k \in Connections, Orderly(k), NEW msg \in Registrations \cup Requests
  PROVE  /\ Put(k, "toListener", msg) \in Connections
         /\ Steady(k, Put(k, "toListener", msg))
<1> DEFINE q == Put(k, "toListener", msg)
<1>1. SameEnds(k, q) /\ q.toBroker = k.toBroker
  BY PutToListener, Zenon
<1> HIDE DEF q
<1>2. q # None /\ k # None
  BY <1>1, CCBAssumption, Zenon DEF SameEnds
<1>3. q \in Connections /\ Steady(k, q)
  BY <1>1, <1>2, Zenon DEF SameEnds, Steady, Orderly, Registering
<1> QED BY <1>3, Zenon DEF q

(* Nor is one that the daemon reads. *)
LEMMA SteadyTailToListener ==
  ASSUME NEW k \in Connections, Orderly(k), k.toListener # <<>>
  PROVE  /\ [k EXCEPT !.toListener = Tail(@)] \in Connections
         /\ Steady(k, [k EXCEPT !.toListener = Tail(@)])
<1> DEFINE q == [k EXCEPT !.toListener = Tail(@)]
<1>1. SameEnds(k, q) /\ q.toBroker = k.toBroker
  BY TailToListener, Zenon
<1> HIDE DEF q
<1>2. q # None /\ k # None
  BY <1>1, CCBAssumption, Zenon DEF SameEnds
<1>3. q \in Connections /\ Steady(k, q)
  BY <1>1, <1>2, Zenon DEF SameEnds, Steady, Orderly, Registering
<1> QED BY <1>3, Zenon DEF q

(* A report is sent: it never comes before the registration. *)
LEMMA SteadyReport ==
  ASSUME NEW k \in Connections, Orderly(k), NEW msg \in Results
  PROVE  /\ Put(k, "toBroker", msg) \in Connections
         /\ Steady(k, Put(k, "toBroker", msg))
<1> DEFINE q == Put(k, "toBroker", msg)
<1>1. /\ SameEnds(k, q)
      /\ q.toBroker = IF k.cut \/ ~k.atBroker THEN k.toBroker ELSE Append(k.toBroker, msg)
  BY PutToBroker, Zenon
<1> HIDE DEF q
<1>2. q # None /\ k # None
  BY <1>1, CCBAssumption, Zenon DEF SameEnds
<1>3. CASE q.toBroker = k.toBroker
  BY <1>1, <1>2, <1>3, Zenon DEF q, SameEnds, Steady, Orderly, Registering
<1>4. CASE q.toBroker = Append(k.toBroker, msg) /\ ~k.cut
  <2> DEFINE T == Registrations \cup Results
  <2>1. k.toBroker \in Seq(T) /\ msg \in T /\ msg.cmd = "CCB_RESULT"
    BY ToBroker, Zenon DEF Results
  <2> HIDE DEF T
  <2>2. /\ Len(q.toBroker) = Len(k.toBroker) + 1 /\ Len(k.toBroker) \in Nat
        /\ \A i \in 1 .. Len(k.toBroker) : q.toBroker[i] = k.toBroker[i]
        /\ q.toBroker[Len(k.toBroker) + 1] = msg
        /\ q.toBroker # <<>>
        /\ k.toBroker = <<>> <=> Len(k.toBroker) = 0
    BY <1>4, <2>1
  <2>3. \A i \in 2 .. Len(q.toBroker) : q.toBroker[i].cmd = "CCB_RESULT"
    BY <2>1, <2>2 DEF Orderly
  <2>4. Registering(q) <=> Registering(k)
    BY <2>1, <2>2 DEF Registering
  <2> QED BY <1>1, <1>2, <1>4, <2>3, <2>4, Zenon DEF q, SameEnds, Steady, Orderly
<1> QED BY <1>1, <1>3, <1>4, Zenon

(* A report is read. *)
LEMMA SteadyTailToBroker ==
  ASSUME NEW k \in Connections, Orderly(k), k.toBroker # <<>>, ~Registering(k)
  PROVE  /\ [k EXCEPT !.toBroker = Tail(@)] \in Connections
         /\ Steady(k, [k EXCEPT !.toBroker = Tail(@)])
<1> DEFINE q == [k EXCEPT !.toBroker = Tail(@)]
<1>1. SameEnds(k, q) /\ q.toBroker = Tail(k.toBroker)
  BY TailToBroker, Zenon
<1> HIDE DEF q
<1>2. q # None /\ k # None
  BY <1>1, CCBAssumption, Zenon DEF SameEnds
<1>3. \A i \in 1 .. Len(q.toBroker) : q.toBroker[i].cmd = "CCB_RESULT"
  <2> DEFINE T == Registrations \cup Results
  <2>1. k.toBroker \in Seq(T)
    BY ToBroker, Zenon
  <2> HIDE DEF T
  <2>2. /\ Len(k.toBroker) \in Nat /\ Len(q.toBroker) = Len(k.toBroker) - 1
        /\ \A i \in 1 .. Len(q.toBroker) : q.toBroker[i] = k.toBroker[i + 1]
    BY <1>1, <2>1
  <2> QED BY <2>2 DEF Orderly
<1>4. q.toBroker # <<>> => 1 \in 1 .. Len(q.toBroker)
  <2> DEFINE T == Registrations \cup Results
  <2>1. q.toBroker \in Seq(T)
    BY <1>1, ToBroker, Zenon DEF SameEnds
  <2> HIDE DEF T
  <2> QED BY <2>1
<1>5. ~Registering(q)
  BY <1>3, <1>4, Zenon DEF Registering
<1>6. Orderly(q)
  BY <1>1, <1>3 DEF Orderly, SameEnds
<1>7. q \in Connections /\ Steady(k, q)
  BY <1>1, <1>2, <1>5, <1>6, Zenon DEF SameEnds, Steady
<1> QED BY <1>7, Zenon DEF q

(* The broker closes its end. *)
LEMMA ClosedShut ==
  ASSUME NEW k \in Connections, Orderly(k)
  PROVE  /\ Shut(k, "atBroker") \in Connections \cup {None}
         /\ Closed(k, Shut(k, "atBroker"))
<1> DEFINE q == Shut(k, "atBroker")
<1>1. /\ ~k.atListener => q = None
      /\ k.atListener => /\ q \in Connections
                         /\ q.l = k.l /\ q.cut = k.cut /\ q.toBroker = k.toBroker
                         /\ ~q.atBroker /\ q.atListener
  BY ShutEnd, Zenon
<1> HIDE DEF q
<1>2. k # None /\ (k.atListener => q # None)
  BY <1>1, CCBAssumption, Zenon
<1>3. q \in Connections \cup {None} /\ Closed(k, q)
  BY <1>1, <1>2, Zenon DEF Closed, Orderly
<1> QED BY <1>3, Zenon DEF q

-----------------------------------------------------------------------------
(* What a step of the broker or of a daemon keeps. *)

ClientTable ==
  [Clients -> [state : {"idle", "waiting", "told", "hungup", "left"}, want : Listeners \cup {None},
               told : {None, "success", "failure"}, reached : SUBSET Listeners]]

(* A step closes the connections cs at the broker, removes their targets, and
   leaves the others as they are to the broker. *)
ConnsGo(cs) ==
  /\ cs \subseteq Conns
  /\ \A d \in cs : Closed(conn[d], conn'[d])
  /\ \A d \in Conns \ cs : Steady(conn[d], conn'[d])

TargetsGo(cs) ==
  /\ DOMAIN m_targets' = {i \in DOMAIN m_targets : m_targets[i].conn \notin cs}
  /\ \A i \in DOMAIN m_targets' :
       /\ m_targets'[i].conn = m_targets[i].conn
       /\ m_targets'[i] \in [conn : Conns, requests : SUBSET Nat]

SocksGo == \A l \in Listeners : listener'[l].sock \in {listener[l].sock, None}

(* What such a step has to keep besides. *)
LEMMA TablesKept ==
  ASSUME TablesInv, NEW cs, ConnsGo(cs), TargetsGo(cs), SocksGo,
         PeersOK', DownIsEmpty', RequestInv'
  PROVE  TablesInv'
<1>1. \A l \in Listeners : listener[l].sock \in Conns \cup {None}
  BY Zenon DEF TablesInv, PeersOK
<1>2. WireInv
  BY Zenon DEF TablesInv
<1>3. WireInv'
  BY <1>1, <1>2, WiresKept, Zenon DEF ConnsGo, TargetsGo, SocksGo
<1> QED BY <1>3, Zenon DEF TablesInv, RequestInv

(* The parts of TablesInv. *)
LEMMA TablesParts ==
  ASSUME TablesInv
  PROVE  /\ PeersOK /\ DownIsEmpty /\ RequestInv /\ WireInv
         /\ TargetsAreConnected
         /\ client \in ClientTable
         /\ conn \in [Conns -> Connections \cup {None}]
         /\ m_next_request_id \in Nat \ {0}
BY Zenon DEF TablesInv, RequestInv, WireInv, PeersOK, ClientTable

(* The targets stay when none of their entries change. *)
LEMMA TargetsStay ==
  ASSUME TargetsAreConnected, UNCHANGED m_targets
  PROVE  TargetsGo({})
<1>1. \A i \in DOMAIN m_targets : m_targets[i] \in [conn : Conns, requests : SUBSET Nat]
  BY Zenon DEF TargetsAreConnected
<1>2. DOMAIN m_targets' = {i \in DOMAIN m_targets : m_targets[i].conn \notin {}}
  BY Zenon
<1> QED BY <1>1, <1>2, Zenon DEF TargetsGo

Becomes(c, q) == conn' = [conn EXCEPT ![c] = q]

(* One connection goes on, or is closed. *)
LEMMA OneConnGoes ==
  ASSUME PeersOK, WireInv, NEW c \in Conns, NEW q \in Connections \cup {None}, Becomes(c, q)
  PROVE  /\ conn' \in [Conns -> Connections \cup {None}]
         /\ Steady(conn[c], q) => ConnsGo({})
         /\ Closed(conn[c], q) => ConnsGo({c})
<1>1. conn \in [Conns -> Connections \cup {None}]
  BY Zenon DEF PeersOK
<1>2. /\ conn' \in [Conns -> Connections \cup {None}]
      /\ conn'[c] = q
      /\ \A d \in Conns \ {c} : conn'[d] = conn[d]
  BY <1>1, Zenon DEF Becomes
<1>3. \A d \in Conns : Steady(conn[d], conn[d])
  BY ConnFacts, Zenon
<1>4. ASSUME NEW d \in Conns \ {c} PROVE Steady(conn[d], conn'[d])
  <2>1. conn'[d] = conn[d] /\ Steady(conn[d], conn[d])
    BY <1>2, <1>3, Zenon
  <2> QED BY <2>1, Zenon
<1>5. Steady(conn[c], q) => ConnsGo({})
  BY <1>2, <1>4, Zenon DEF ConnsGo
<1>6. Closed(conn[c], q) => ConnsGo({c})
  BY <1>2, <1>4, Zenon DEF ConnsGo
<1> QED BY <1>2, <1>5, <1>6, Zenon

(* All connections stay. *)
LEMMA ConnsStay ==
  ASSUME PeersOK, WireInv, UNCHANGED conn
  PROVE  ConnsGo({})
<1>1. \A d \in Conns : Steady(conn[d], conn[d])
  BY ConnFacts, Zenon
<1> QED BY <1>1, Zenon DEF ConnsGo

(* Hanging up on clients changes nothing but their state. *)
LEMMA HangUpType ==
  ASSUME client \in ClientTable, NEW cs
  PROVE  /\ HangUp(cs) \in ClientTable
         /\ \A p \in Clients : HangUp(cs)[p].told = client[p].told /\ HangUp(cs)[p].reached = client[p].reached
BY DEF ClientTable, HangUp

(* The broker changes clients and connections, but no daemon. *)
LEMMA PeersStill ==
  ASSUME PeersOK, UNCHANGED <<listener, reversing, boots>>,
         m_next_request_id' \in Nat \ {0}, client' \in ClientTable,
         conn' \in [Conns -> Connections \cup {None}]
  PROVE  PeersOK'
BY Zenon DEF PeersOK, ClientTable

(* The target of c is removed and c closed. *)
LEMMA TablesRemove ==
  ASSUME TablesInv, up, NEW c \in Conns, UNCHANGED <<listener, reversing, boots>>,
         IsTarget(c), RemoveTarget(TargetOf(c)),
         ConnsGo({c}), conn' \in [Conns -> Connections \cup {None}]
  PROVE  TablesInv'
<1> DEFINE id == TargetOf(c)
<1>1. id \in DOMAIN m_targets /\ m_targets[id].conn = c
  BY Zenon DEF IsTarget, TargetOf
<1>2. /\ m_targets' = Without(m_targets, {id})
      /\ m_requests' = Without(m_requests, RequestsOf({id}))
      /\ client' = HangUp(HungUp({id}))
      /\ UNCHANGED <<up, m_next_request_id>>
  BY Zenon DEF RemoveTarget
<1> HIDE DEF id
<1>3. /\ DOMAIN m_targets' = DOMAIN m_targets \ {id}
      /\ \A i \in DOMAIN m_targets' : m_targets'[i] = m_targets[i]
  BY <1>2, Zenon DEF Without, Restrict
<1>4. client' \in ClientTable
  BY <1>2, TablesParts, HangUpType, Zenon
<1>5. PeersOK'
  BY <1>2, <1>4, TablesParts, PeersStill, Zenon
<1>6. RequestInv'
  <2>1. \A i \in DOMAIN m_targets \ {id} : i \in DOMAIN m_targets' /\ m_targets'[i] = m_targets[i]
    BY <1>3, Zenon
  <2>2. \A i \in DOMAIN m_targets' : i \in DOMAIN m_targets \ {id} \/ m_targets'[i].requests = {}
    BY <1>3, Zenon
  <2>3. TargetAnew(id)
    BY <1>1, <1>2, <2>1, <2>2, Zenon DEF TargetAnew
  <2> QED BY <2>3, TablesParts, RequestsRemoveTarget, Zenon
<1>7. TargetsGo({c})
  <2>1. \A i \in DOMAIN m_targets : m_targets[i].conn = c => i = id
    BY <1>1, TablesParts, Zenon DEF TargetsAreConnected
  <2>2. \A i \in DOMAIN m_targets : m_targets[i] \in [conn : Conns, requests : SUBSET Nat]
    BY TablesParts, Zenon DEF TargetsAreConnected
  <2>3. DOMAIN m_targets' = {i \in DOMAIN m_targets : m_targets[i].conn \notin {c}}
    BY <1>1, <1>3, <2>1, Zenon
  <2> QED BY <1>3, <2>2, <2>3, Zenon DEF TargetsGo
<1>8. DownIsEmpty' /\ SocksGo
  BY <1>2, Zenon DEF DownIsEmpty, SocksGo
<1> QED BY <1>5, <1>6, <1>7, <1>8, TablesKept, Zenon

(* What a message that comes in tells of its connection. *)
LEMMA IncomingFacts ==
  ASSUME TablesInv, NEW c \in Conns, NEW cmd, Incoming(c, cmd)
  PROVE  /\ up
         /\ conn[c] # None /\ conn[c] \in Connections /\ conn[c].atBroker
         /\ conn[c].toBroker # <<>> /\ Orderly(conn[c]) /\ ~conn[c].cut
         /\ Head(conn[c].toBroker) = conn[c].toBroker[1]
         /\ Head(conn[c].toBroker) \in Registrations \cup Results
         /\ Head(conn[c].toBroker).cmd = cmd
<1>1. /\ up /\ conn[c] # None /\ conn[c].atBroker /\ conn[c].toBroker # <<>>
      /\ Head(conn[c].toBroker).cmd = cmd
  BY Zenon DEF Incoming, Free
<1>2. conn[c] \in Connections /\ Orderly(conn[c])
  BY <1>1, ConnFacts, Zenon DEF TablesInv
<1>3. conn[c].toBroker \in Seq(Registrations \cup Results)
  BY <1>2, ToBroker, Zenon
<1>4. /\ Head(conn[c].toBroker) = conn[c].toBroker[1]
      /\ Head(conn[c].toBroker) \in Registrations \cup Results
  <2> DEFINE T == Registrations \cup Results
  <2> HIDE DEF T
  <2>1. conn[c].toBroker \in Seq(T)
    BY <1>3, Zenon DEF T
  <2>2. /\ Head(conn[c].toBroker) = conn[c].toBroker[1]
        /\ Head(conn[c].toBroker) \in T
    BY <1>1, <2>1
  <2> QED BY <2>2, Zenon DEF T
<1> QED BY <1>1, <1>2, <1>4, Zenon DEF Orderly

(* A request is done with: its client is told, or has left. *)
LEMMA TablesFinish ==
  ASSUME TablesInv, NEW r \in DOMAIN m_requests, client' \in ClientTable,
         m_targets' = TargetsWithout(r), m_requests' = Without(m_requests, {r}),
         UNCHANGED <<listener, reversing, boots, up, m_next_request_id>>,
         ConnsGo({}), conn' \in [Conns -> Connections \cup {None}]
  PROVE  TablesInv'
<1>1. PeersOK'
  BY TablesParts, PeersStill, Zenon
<1>2. /\ RequestInv'
      /\ DOMAIN m_targets' = DOMAIN m_targets
      /\ \A i \in DOMAIN m_targets :
           /\ m_targets'[i].conn = m_targets[i].conn
           /\ m_targets'[i] \in [conn : Conns, requests : SUBSET Nat]
  BY TablesParts, RequestsRemoveRequest, Zenon
<1>3. TargetsGo({})
  <2>1. {i \in DOMAIN m_targets : m_targets[i].conn \notin {}} = DOMAIN m_targets
    BY Zenon
  <2> QED BY <1>2, <2>1, Zenon DEF TargetsGo
<1>4. DownIsEmpty' /\ SocksGo
  BY <1>2, TablesParts, Zenon DEF DownIsEmpty, SocksGo
<1> QED BY <1>1, <1>2, <1>3, <1>4, TablesKept, Zenon

(* The tables stay as they are. *)
LEMMA TablesSame ==
  ASSUME TablesInv, PeersOK', UNCHANGED <<m_targets, m_requests, m_next_request_id>>,
         up => up',
         ConnsGo({}), SocksGo
  PROVE  TablesInv'
<1>1. RequestInv' /\ TargetsGo({}) /\ DownIsEmpty'
  BY TablesParts, RequestsSame, TargetsStay, Zenon DEF DownIsEmpty
<1> QED BY <1>1, TablesKept, Zenon

(* What is told to a client is all that changes of it. *)
LEMMA ReplyType ==
  ASSUME client \in ClientTable, NEW p \in Clients, NEW success
  PROVE  /\ RequestReply(p, success) \in ClientTable
         /\ RequestReply(p, success)[p].told = "success" => success
         /\ \A x \in Clients : RequestReply(p, success)[x].reached = client[x].reached
         /\ \A x \in Clients \ {p} : RequestReply(p, success)[x].told = client[x].told
<1> DEFINE told == IF success THEN "success" ELSE "failure"
<1>1. told \in {None, "success", "failure"} /\ (told = "success" => success)
  BY Zenon
<1> HIDE DEF told
<1>2. RequestReply(p, success) = [client EXCEPT ![p] = [@ EXCEPT !.state = "told", !.told = told]]
  BY Zenon DEF RequestReply, told
<1> DEFINE e == [client[p] EXCEPT !.state = "told", !.told = told]
           R == [state : {"idle", "waiting", "told", "hungup", "left"}, want : Listeners \cup {None},
                 told : {None, "success", "failure"}, reached : SUBSET Listeners]
<1>a. client \in [Clients -> R]
  BY Zenon DEF ClientTable
<1>b. e \in R /\ e.told = told /\ e.reached = client[p].reached
  BY <1>1, <1>a, Zenon
<1>c. [Clients -> R] = ClientTable
  BY Zenon DEF ClientTable
<1> HIDE DEF e, R
<1>d. RequestReply(p, success) = [client EXCEPT ![p] = e]
  BY <1>2, Zenon DEF e
<1>3. /\ RequestReply(p, success) \in ClientTable
      /\ RequestReply(p, success)[p].told = told
      /\ \A x \in Clients : RequestReply(p, success)[x].reached = client[x].reached
      /\ \A x \in Clients \ {p} : RequestReply(p, success)[x].told = client[x].told
  BY <1>a, <1>b, <1>c, <1>d, Zenon
<1> QED BY <1>1, <1>3, Zenon

-----------------------------------------------------------------------------
(* The actions of the broker. *)

(* The broker reads a report. *)
LEMMA ResultsTables ==
  ASSUME TablesInv, NEW c \in Conns, HandleRequestResultsMsg(c)
  PROVE  TablesInv'
<1> DEFINE msg == Head(conn[c].toBroker)
           r == msg.request
           q == [conn[c] EXCEPT !.toBroker = Tail(@)]
           s == Shut(conn[c], "atBroker")
<1>1. Incoming(c, "CCB_RESULT")
  BY Zenon DEF HandleRequestResultsMsg
<1>2. UNCHANGED <<listener, reversing, boots>>
  BY Zenon DEF HandleRequestResultsMsg, ghosts
<1>3. /\ up /\ conn[c] # None /\ conn[c] \in Connections /\ conn[c].atBroker
      /\ conn[c].toBroker # <<>> /\ Orderly(conn[c]) /\ ~conn[c].cut
      /\ conn[c].toBroker[1].cmd = "CCB_RESULT"
  BY <1>1, IncomingFacts, Zenon
<1>4. ~Registering(conn[c])
  BY <1>3, Zenon DEF Registering
<1>5. IsTarget(c)
  BY <1>3, <1>4, TablesParts, Zenon DEF WireInv, Wired
<1>6. \/ conn' = Read(c) /\ UNCHANGED <<broker, client>>
      \/ Becomes(c, s) /\ RemoveTarget(TargetOf(c))
      \/ r \in DOMAIN m_requests /\ conn' = Read(c) /\ RequestFinished(r, msg.success)
  BY Zenon DEF HandleRequestResultsMsg, Becomes
<1>7. q \in Connections /\ Steady(conn[c], q)
  BY <1>3, <1>4, SteadyTailToBroker, Zenon
<1>8. conn' = Read(c) => Becomes(c, q)
  BY Zenon DEF Read, Becomes
<1>9. s \in Connections \cup {None} /\ Closed(conn[c], s)
  BY <1>3, ClosedShut, Zenon
<1> HIDE DEF q, s, r, msg
<1>10. CASE Becomes(c, s) /\ RemoveTarget(TargetOf(c))
  <2>1. ConnsGo({c}) /\ conn' \in [Conns -> Connections \cup {None}]
    BY <1>9, <1>10, TablesParts, OneConnGoes, Zenon
  <2> QED BY <1>2, <1>3, <1>5, <1>10, <2>1, TablesRemove, Zenon
<1>11. ASSUME conn' = Read(c)
       PROVE  ConnsGo({}) /\ conn' \in [Conns -> Connections \cup {None}]
  <2>1. Becomes(c, q) /\ q \in Connections \cup {None} /\ Steady(conn[c], q)
    BY <1>7, <1>8, <1>11, Zenon
  <2> QED BY <2>1, TablesParts, OneConnGoes, Zenon
<1>12. CASE conn' = Read(c) /\ UNCHANGED <<broker, client>>
  <2>1. UNCHANGED <<up, m_targets, m_requests, m_next_request_id, client>>
    BY <1>12, Zenon DEF broker
  <2>2. ConnsGo({}) /\ conn' \in [Conns -> Connections \cup {None}]
    BY <1>11, <1>12, Zenon
  <2>3. PeersOK' /\ SocksGo
    BY <1>2, <2>1, <2>2, TablesParts, PeersStill, Zenon DEF SocksGo
  <2> QED BY <2>1, <2>2, <2>3, TablesSame, Zenon
<1>13. CASE r \in DOMAIN m_requests /\ conn' = Read(c) /\ RequestFinished(r, msg.success)
  <2>1. m_requests[r].client \in Clients
    BY <1>13, TablesParts, Zenon DEF RequestInv, RequestsAreNumbered
  <2>3. /\ client' = RequestReply(m_requests[r].client, msg.success)
        /\ m_targets' = TargetsWithout(r) /\ m_requests' = Without(m_requests, {r})
        /\ UNCHANGED <<up, m_next_request_id>>
    BY <1>13, Zenon DEF RequestFinished
  <2>4. client' \in ClientTable
    BY <2>1, <2>3, TablesParts, ReplyType, Zenon
  <2>5. ConnsGo({}) /\ conn' \in [Conns -> Connections \cup {None}]
    BY <1>11, <1>13, Zenon
  <2> QED BY <1>2, <1>13, <2>3, <2>4, <2>5, TablesFinish
<1> QED BY <1>6, <1>10, <1>12, <1>13, Zenon

(* The broker reads the end of a connection. *)
LEMMA DisconnectTables ==
  ASSUME TablesInv, NEW c \in Conns, TargetDisconnect(c)
  PROVE  TablesInv'
<1> DEFINE s == Shut(conn[c], "atBroker")
<1>1. up /\ conn[c] # None /\ Becomes(c, s) /\ UNCHANGED <<listener, reversing, boots>>
  BY Zenon DEF TargetDisconnect, Free, Becomes, ghosts
<1>2. s \in Connections \cup {None} /\ Closed(conn[c], s)
  BY <1>1, TablesParts, ConnFacts, ClosedShut, Zenon
<1> HIDE DEF s
<1>3. ConnsGo({c}) /\ conn' \in [Conns -> Connections \cup {None}]
  BY <1>1, <1>2, TablesParts, OneConnGoes, Zenon
<1>4. CASE c \in ConnsOf(DOMAIN m_targets)
  <2>1. RemoveTarget(TargetOf(c)) /\ IsTarget(c)
    BY <1>4, Zenon DEF TargetDisconnect, ConnsOf, IsTarget
  <2> QED BY <1>1, <1>3, <2>1, TablesRemove, Zenon
<1>5. CASE c \notin ConnsOf(DOMAIN m_targets)
  <2>1. UNCHANGED <<broker, client>>
    BY <1>5, Zenon DEF TargetDisconnect
  <2>2. UNCHANGED <<up, m_targets, m_requests, m_next_request_id, client>>
    BY <2>1, Zenon DEF broker
  <2>3. \A i \in DOMAIN m_targets : m_targets[i].conn \notin {c}
    BY <1>5, Zenon DEF ConnsOf
  <2>4. TargetsGo({c})
    <3>1. {i \in DOMAIN m_targets : m_targets[i].conn \notin {c}} = DOMAIN m_targets
      BY <2>3, Zenon
    <3>2. \A i \in DOMAIN m_targets : m_targets[i] \in [conn : Conns, requests : SUBSET Nat]
      BY TablesParts, Zenon DEF TargetsAreConnected
    <3> QED BY <2>2, <3>1, <3>2, Zenon DEF TargetsGo
  <2>5. PeersOK'
    BY <1>1, <1>3, <2>2, TablesParts, PeersStill, Zenon
  <2>6. RequestInv' /\ DownIsEmpty' /\ SocksGo
    BY <1>1, <2>2, TablesParts, RequestsSame, Zenon DEF DownIsEmpty, SocksGo
  <2> QED BY <1>3, <2>4, <2>5, <2>6, TablesKept, Zenon
<1> QED BY <1>4, <1>5, Zenon

(* A client leaves. *)
LEMMA LeaveTables ==
  ASSUME TablesInv, NEW r \in DOMAIN m_requests, HandleRequestDisconnect(r)
  PROVE  TablesInv'
<1> DEFINE p == m_requests[r].client
<1>1. p \in Clients
  BY TablesParts, Zenon DEF RequestInv, RequestsAreNumbered
<1>2. client' = [client EXCEPT ![p].state = "left"]
  BY Zenon DEF HandleRequestDisconnect
<1> HIDE DEF p
<1>3. client' \in ClientTable
  BY <1>1, <1>2, TablesParts DEF ClientTable
<1>4. /\ m_targets' = TargetsWithout(r) /\ m_requests' = Without(m_requests, {r})
      /\ UNCHANGED <<listener, reversing, boots, up, m_next_request_id>> /\ UNCHANGED conn
  BY Zenon DEF HandleRequestDisconnect, ghosts
<1>5. ConnsGo({}) /\ conn' \in [Conns -> Connections \cup {None}]
  BY <1>4, TablesParts, ConnsStay, Zenon
<1> QED BY <1>3, <1>4, <1>5, TablesFinish, Zenon

(* A client asks for a daemon. *)
LEMMA RequestTables ==
  ASSUME TablesInv, NEW p \in Clients, NEW l \in Listeners, HandleRequest(p, l)
  PROVE  TablesInv'
<1> DEFINE id == listener[l].m_ccbid
           n == m_next_request_id
<1>1. up /\ UNCHANGED <<listener, reversing, boots>> /\ up' /\ SocksGo
  BY Zenon DEF HandleRequest, ghosts, broker, SocksGo
<1>2. n \in Nat \ {0} /\ n + 1 \in Nat \ {0}
  BY TablesParts
<1>3. CASE /\ client' = RequestReply(p, FALSE)
           /\ UNCHANGED <<m_targets, m_requests, conn>>
           /\ m_next_request_id' \in {n, n + 1}
  <2>1. client' \in ClientTable /\ ConnsGo({}) /\ conn' \in [Conns -> Connections \cup {None}]
    BY <1>3, TablesParts, ReplyType, ConnsStay, Zenon
  <2>2. PeersOK'
    BY <1>1, <1>2, <1>3, <2>1, TablesParts, PeersStill, Zenon
  <2>3. RequestInv'
    BY <1>2, <1>3, TablesParts DEF RequestInv, RequestsHaveTargets, RequestsAreNumbered
  <2>4. TargetsGo({}) /\ DownIsEmpty'
    BY <1>1, <1>3, TablesParts, TargetsStay, Zenon DEF DownIsEmpty
  <2> QED BY <1>1, <2>1, <2>2, <2>3, <2>4, TablesKept, Zenon
<1>4. CASE /\ id \in DOMAIN m_targets
           /\ client' = [client EXCEPT ![p] = [@ EXCEPT !.state = "waiting", !.want = l]]
           /\ m_next_request_id' = n + 1
           /\ m_requests' = With(m_requests, n, [client |-> p, target |-> id])
           /\ m_targets' = [m_targets EXCEPT ![id].requests = @ \cup {n}]
           /\ conn' = [conn EXCEPT ![m_targets[id].conn] =
                Put(@, "toListener", [cmd |-> "CCB_REQUEST", request |-> n, connect_id |-> p])]
  <2> DEFINE c == m_targets[id].conn
             m == [cmd |-> "CCB_REQUEST", request |-> n, connect_id |-> p]
             q == Put(conn[c], "toListener", m)
  <2>1. c \in Conns /\ conn[c] # None
    BY <1>4, TablesParts, Zenon DEF TargetsAreConnected
  <2>2. m \in Registrations \cup Requests
    BY <1>2, Zenon DEF Requests
  <2>3. conn[c] \in Connections /\ Orderly(conn[c])
    BY <2>1, TablesParts, ConnFacts, Zenon
  <2>4. Becomes(c, q)
    BY <1>4, Zenon DEF Becomes
  <2> HIDE DEF m, c
  <2>5. q \in Connections /\ Steady(conn[c], q)
    BY <2>2, <2>3, SteadyPutToListener, Zenon
  <2> HIDE DEF q
  <2>6. ConnsGo({}) /\ conn' \in [Conns -> Connections \cup {None}]
    BY <2>1, <2>4, <2>5, TablesParts, OneConnGoes, Zenon
  <2>7. client' \in ClientTable
    BY <1>4, TablesParts, Zenon DEF ClientTable
  <2>8. PeersOK'
    BY <1>1, <1>2, <1>4, <2>6, <2>7, TablesParts, PeersStill, Zenon
  <2>9. /\ RequestInv'
        /\ DOMAIN m_targets' = DOMAIN m_targets
        /\ \A i \in DOMAIN m_targets :
             /\ m_targets'[i].conn = m_targets[i].conn
             /\ m_targets'[i] \in [conn : Conns, requests : SUBSET Nat]
    BY <1>2, <1>4, TablesParts, RequestsAdd, Zenon
  <2>10. TargetsGo({})
    <3>1. {i \in DOMAIN m_targets : m_targets[i].conn \notin {}} = DOMAIN m_targets
      BY Zenon
    <3> QED BY <2>9, <3>1, Zenon DEF TargetsGo
  <2>11. DownIsEmpty'
    BY <1>1, Zenon DEF DownIsEmpty
  <2> QED BY <1>1, <2>6, <2>8, <2>9, <2>10, <2>11, TablesKept, Zenon
<1> QED BY <1>3, <1>4, Zenon DEF HandleRequest, broker

(* The broker flushes its file, sweeps its records, or starts again. *)
LEMMA FileTables ==
  ASSUME TablesInv, Poll \/ SweepReconnectInfo \/ InitAndReconfig
  PROVE  TablesInv'
<1>1. /\ UNCHANGED <<m_targets, m_requests, m_next_request_id>>
      /\ UNCHANGED <<listener, reversing, conn, client>>
      /\ boots' \in {boots, boots + 1} /\ (up => up')
  BY DEF Poll, SweepReconnectInfo, InitAndReconfig, broker
<1>2. PeersOK' /\ SocksGo /\ ConnsGo({})
  BY <1>1, TablesParts, ConnsStay DEF PeersOK, SocksGo
<1> QED BY <1>1, <1>2, TablesSame, Zenon

(* The broker dies. *)
LEMMA CrashTables ==
  ASSUME TablesInv, Crash
  PROVE  TablesInv'
<1>1. /\ m_targets' = <<>> /\ m_requests' = <<>> /\ m_next_request_id' = 1
      /\ client' = HangUp({p \in Clients : client[p].state = "waiting"})
      /\ conn' = ShutAll({c \in Conns : ~Free(c)}, "atBroker")
      /\ UNCHANGED <<listener, reversing, boots>>
  BY Zenon DEF Crash
<1>2. ASSUME NEW d \in Conns
      PROVE  conn'[d] \in Connections \cup {None} /\ Closed(conn[d], conn'[d])
  <2>1. CASE conn[d] = None
    BY <1>1, <2>1, Zenon DEF ShutAll, Free, Closed
  <2>2. CASE conn[d] # None
    <3>1. conn'[d] = Shut(conn[d], "atBroker")
      BY <1>1, <2>2, Zenon DEF ShutAll, Free
    <3>2. conn[d] \in Connections /\ Orderly(conn[d])
      BY <2>2, TablesParts, ConnFacts, Zenon
    <3>3. /\ Shut(conn[d], "atBroker") \in Connections \cup {None}
          /\ Closed(conn[d], Shut(conn[d], "atBroker"))
      BY <3>2, ClosedShut, Zenon
    <3> QED BY <3>1, <3>3, Zenon
  <2> QED BY <2>1, <2>2, Zenon
<1>3. conn' \in [Conns -> Connections \cup {None}]
  <2>1. conn' = [d \in Conns |-> conn'[d]]
    BY <1>1, Zenon DEF ShutAll
  <2> QED BY <1>2, <2>1, Zenon
<1>4. ConnsGo(Conns)
  BY <1>2, Zenon DEF ConnsGo
<1>5. client' \in ClientTable
  BY <1>1, TablesParts, HangUpType, Zenon
<1>6. PeersOK'
  BY <1>1, <1>3, <1>5, TablesParts, PeersStill
<1>7. DOMAIN m_targets' = {} /\ DOMAIN m_requests' = {}
  BY <1>1
<1>8. TargetsGo(Conns)
  BY <1>7, TablesParts, Zenon DEF TargetsGo, TargetsAreConnected
<1>9. RequestInv' /\ DownIsEmpty' /\ SocksGo
  BY <1>1, <1>7, Zenon DEF RequestInv, RequestsHaveTargets, RequestsAreNumbered, DownIsEmpty, SocksGo
<1> QED BY <1>4, <1>6, <1>8, <1>9, TablesKept, Zenon

(* The registration is read and answered. *)
LEMMA ReplyRegisters ==
  ASSUME NEW k \in Connections, k.toBroker # <<>>, Orderly(k),
         NEW id \in CCBIDs \cup {None}, NEW cookie \in Cookies \cup {None}
  PROVE  LET q == Reply(k, id, cookie)
         IN  /\ SameEnds(k, q)
             /\ Orderly(q) /\ ~Registering(q)
             /\ q.toBroker = Tail(k.toBroker)
<1> DEFINE m == [cmd |-> "CCB_REGISTER", ccbid |-> id, cookie |-> cookie]
           t == [k EXCEPT !.toBroker = Tail(@)]
           q == Put(t, "toListener", m)
<1>1. m \in Registrations \cup Requests
  BY Zenon DEF Registrations
<1>2. SameEnds(k, t) /\ t.toBroker = Tail(k.toBroker)
  BY TailToBroker, Zenon
<1>3. Reply(k, id, cookie) = q
  BY Zenon DEF Reply
<1> HIDE DEF m, t
<1>4. SameEnds(t, q) /\ q.toBroker = t.toBroker
  BY <1>1, <1>2, PutToListener, Zenon DEF SameEnds
<1> HIDE DEF q
<1>5. SameEnds(k, q) /\ q.toBroker = Tail(k.toBroker)
  BY <1>2, <1>4, Zenon DEF SameEnds
<1>6. /\ \A i \in 1 .. Len(q.toBroker) : q.toBroker[i].cmd = "CCB_RESULT"
      /\ q.toBroker # <<>> => 1 \in 1 .. Len(q.toBroker)
  <2> DEFINE T == Registrations \cup Results
  <2>1. k.toBroker \in Seq(T) /\ q.toBroker \in Seq(T)
    BY <1>5, ToBroker, Zenon DEF SameEnds
  <2> HIDE DEF T
  <2>2. /\ Len(k.toBroker) \in Nat /\ Len(q.toBroker) = Len(k.toBroker) - 1
        /\ \A i \in 1 .. Len(q.toBroker) : q.toBroker[i] = k.toBroker[i + 1]
        /\ q.toBroker # <<>> => 1 \in 1 .. Len(q.toBroker)
    BY <1>5, <2>1
  <2> QED BY <2>2 DEF Orderly
<1>7. ~k.cut /\ ~q.cut
  BY <1>5, Zenon DEF Orderly, SameEnds
<1>8. Orderly(q) /\ ~Registering(q)
  BY <1>6, <1>7 DEF Orderly, Registering
<1> QED BY <1>3, <1>5, <1>8, Zenon

(* A target that is new has no requests yet. *)
LEMMA RequestsNewTarget ==
  ASSUME RequestInv, NEW id, id \notin DOMAIN m_targets, UNCHANGED m_next_request_id,
         DOMAIN m_requests' = DOMAIN m_requests,
         \A r \in DOMAIN m_requests : m_requests'[r] = m_requests[r],
         DOMAIN m_targets' = DOMAIN m_targets \cup {id},
         \A i \in DOMAIN m_targets : m_targets'[i] = m_targets[i],
         m_targets'[id].requests = {}
  PROVE  RequestInv'
<1>1. RequestsHaveTargets'
  BY DEF RequestInv, RequestsHaveTargets
<1>2. RequestsAreNumbered'
  BY Zenon DEF RequestInv, RequestsAreNumbered
<1> QED BY <1>1, <1>2, Zenon DEF RequestInv

(* What all registrations have in common: c becomes the connection of the
   target id, and those in cs, of its last registration, are closed. *)
Registers(c, id, cs, q) ==
  /\ c \notin cs
  /\ \A i \in DOMAIN m_targets : m_targets[i].conn \in cs <=> i = id
  /\ m_targets' = With(m_targets, id, Target(c))
  /\ conn' = [ShutAll(cs, "atBroker") EXCEPT ![c] = q]

(* Such a registration keeps the tables in order. *)
LEMMA TablesRegister ==
  ASSUME TablesInv, NEW c \in Conns, NEW id, NEW cs \in SUBSET Conns, NEW q \in Connections,
         up, UNCHANGED <<up, listener, reversing, boots, m_next_request_id>>,
         conn[c] # None, conn[c].atBroker, Registering(conn[c]),
         SameEnds(conn[c], q), Orderly(q), ~Registering(q),
         Registers(c, id, cs, q), client' \in ClientTable, RequestInv'
  PROVE  TablesInv'
<1> SUFFICES ASSUME c \notin cs,
                    \A i \in DOMAIN m_targets : m_targets[i].conn \in cs <=> i = id,
                    m_targets' = With(m_targets, id, Target(c)),
                    conn' = [ShutAll(cs, "atBroker") EXCEPT ![c] = q]
             PROVE  TablesInv'
  BY Zenon DEF Registers
<1>1. /\ conn'[c] = q
      /\ \A d \in Conns \ (cs \cup {c}) : conn'[d] = conn[d]
      /\ \A d \in cs : conn'[d] = Shut(conn[d], "atBroker")
      /\ conn' = [d \in Conns |-> conn'[d]]
  BY Zenon DEF ShutAll
<1>2. ASSUME NEW d \in cs
      PROVE  Closed(conn[d], conn'[d]) /\ conn'[d] \in Connections \cup {None}
  <2>1. CASE conn[d] = None
    BY <1>1, <2>1, Zenon DEF Shut, Closed
  <2>2. CASE conn[d] # None
    <3>1. conn[d] \in Connections /\ Orderly(conn[d])
      BY <2>2, TablesParts, ConnFacts, Zenon
    <3>2. /\ Shut(conn[d], "atBroker") \in Connections \cup {None}
          /\ Closed(conn[d], Shut(conn[d], "atBroker"))
      BY <3>1, ClosedShut, Zenon
    <3> QED BY <1>1, <3>2, Zenon
  <2> QED BY <2>1, <2>2, Zenon
<1>3. conn' \in [Conns -> Connections \cup {None}]
  <2>1. \A d \in Conns : conn'[d] \in Connections \cup {None}
    BY <1>1, <1>2, TablesParts, Zenon
  <2> QED BY <1>1, <2>1, Zenon
<1>4. PeersOK'
  BY <1>3, TablesParts, PeersStill, Zenon
<1>5. /\ DOMAIN m_targets' = DOMAIN m_targets \cup {id}
      /\ \A i \in DOMAIN m_targets' \ {id} : m_targets'[i] = m_targets[i]
      /\ m_targets'[id] = Target(c)
  BY Zenon DEF With
<1>6. DOMAIN m_targets' = {i \in DOMAIN m_targets : m_targets[i].conn \notin cs} \cup {id}
  BY <1>5, Zenon
<1>7. \A i \in DOMAIN m_targets : m_targets[i].conn \notin cs => i # id
  BY Zenon
<1>8. /\ conn'[c] # None /\ conn'[c].l = conn[c].l /\ conn'[c].atBroker
      /\ conn'[c].atListener <=> conn[c].atListener
      /\ Orderly(conn'[c]) /\ ~Registering(conn'[c])
  BY <1>1, CCBAssumption, Zenon DEF SameEnds
<1>9. \A l \in Listeners : listener[l].sock \in Conns \cup {None}
  BY TablesParts, Zenon DEF PeersOK
<1>10. UNCHANGED listener
  BY Zenon
<1>11. WireInv'
  BY <1>1, <1>2, <1>5, <1>6, <1>7, <1>8, <1>9, <1>10, TablesParts, WiresRegister
<1> QED BY <1>4, <1>11, Zenon DEF TablesInv, RequestInv, DownIsEmpty

(* A daemon registers. *)
LEMMA RegistrationTables ==
  ASSUME TablesInv, NEW c \in Conns, HandleRegistration(c)
  PROVE  TablesInv'
<1> DEFINE msg == Head(conn[c].toBroker)
<1>1. /\ Incoming(c, "CCB_REGISTER")
      /\ UNCHANGED <<up, m_next_request_id, listener, reversing, boots>>
      /\ Reconnected(c, msg) \/ AddTarget(c, msg)
  BY Zenon DEF HandleRegistration, ghosts
<1>2. /\ up /\ conn[c] # None /\ conn[c] \in Connections /\ conn[c].atBroker
      /\ conn[c].toBroker # <<>> /\ Orderly(conn[c])
      /\ msg = conn[c].toBroker[1] /\ msg \in Registrations \cup Results /\ msg.cmd = "CCB_REGISTER"
  BY <1>1, IncomingFacts, Zenon
<1> HIDE DEF msg
<1>3. Registering(conn[c])
  BY <1>2, Zenon DEF Registering
<1>4. msg \in Registrations
  BY <1>2, Zenon DEF Results
<1>5. \A i \in DOMAIN m_targets : m_targets[i].conn # c
  BY <1>3, TablesParts, Zenon DEF TargetsAreConnected
<1>6. CASE Reconnected(c, msg)
  <2> DEFINE id == msg.ccbid
             existing == {id} \cap DOMAIN m_targets
             cs == ConnsOf(existing)
             q == Reply(conn[c], id, msg.cookie)
  <2>1. /\ m_targets' = With(m_targets, id, Target(c))
        /\ m_requests' = Without(m_requests, RequestsOf(existing))
        /\ client' = HangUp(HungUp(existing))
        /\ conn' = [ShutAll(cs, "atBroker") EXCEPT ![c] = q]
    BY <1>6, Zenon DEF Reconnected
  <2>2. id \in CCBIDs \cup {None} /\ msg.cookie \in Cookies \cup {None}
    BY <1>4, Zenon DEF Registrations
  <2> HIDE DEF id
  <2>3. q \in Connections /\ SameEnds(conn[c], q) /\ Orderly(q) /\ ~Registering(q)
    BY <1>2, <2>2, ReplyRegisters, Zenon DEF SameEnds
  <2> HIDE DEF q
  <2>4. /\ cs \in SUBSET Conns /\ c \notin cs
        /\ \A i \in DOMAIN m_targets : m_targets[i].conn \in cs <=> i = id
    BY <1>5, TablesParts DEF TargetsAreConnected, ConnsOf
  <2> HIDE DEF cs
  <2>5. client' \in ClientTable
    BY <2>1, TablesParts, HangUpType, Zenon
  <2>6. /\ DOMAIN m_targets' = DOMAIN m_targets \cup {id}
        /\ \A i \in DOMAIN m_targets \ {id} : m_targets'[i] = m_targets[i]
        /\ m_targets'[id].requests = {}
    BY <2>1, Zenon DEF With, Target
  <2>7. RequestInv'
    <3>1. CASE id \in DOMAIN m_targets
      <4>1. existing = {id}
        BY <3>1, Zenon
      <4>2. m_requests' = Without(m_requests, RequestsOf({id}))
        BY <2>1, <4>1, Zenon
      <4>3. UNCHANGED m_next_request_id
        BY <1>1, Zenon
      <4>4. TargetAnew(id)
        BY <2>6, <3>1, <4>2, <4>3, Zenon DEF TargetAnew
      <4> QED BY <4>4, TablesParts, RequestsRemoveTarget, Zenon
    <3>2. CASE id \notin DOMAIN m_targets
      <4>1. RequestsOf(existing) = {}
        BY <3>2, Zenon DEF RequestsOf
      <4>2. /\ DOMAIN m_requests' = DOMAIN m_requests
            /\ \A r \in DOMAIN m_requests : m_requests'[r] = m_requests[r]
        BY <2>1, <4>1, Zenon DEF Without, Restrict
      <4>3. UNCHANGED m_next_request_id /\ \A i \in DOMAIN m_targets : m_targets'[i] = m_targets[i]
        BY <1>1, <2>6, <3>2, Zenon
      <4> QED BY <2>6, <3>2, <4>2, <4>3, TablesParts, RequestsNewTarget
    <3> QED BY <3>1, <3>2, Zenon
  <2>8. Registers(c, id, cs, q) /\ cs \in SUBSET Conns
    BY <2>1, <2>4, Zenon DEF Registers
  <2> QED BY <1>1, <1>2, <1>3, <2>3, <2>5, <2>7, <2>8, TablesRegister
<1>7. CASE AddTarget(c, msg)
  <2>1. PICK id \in NextFree(m_next_ccbid, DOMAIN m_reconnect_info \cup DOMAIN m_targets) :
          /\ m_targets' = With(m_targets, id, Target(c))
          /\ conn' = [conn EXCEPT ![c] = Reply(conn[c], id, <<boots, id>>)]
          /\ UNCHANGED <<m_requests, client>>
    BY <1>7, Zenon DEF AddTarget
  <2>2. id \in CCBIDs /\ id \notin DOMAIN m_targets
    BY Zenon DEF NextFree
  <2>3. <<boots, id>> \in Cookies
    BY <2>2, TablesParts, Zenon DEF PeersOK, Cookies, CCBIDs
  <2> DEFINE q == Reply(conn[c], id, <<boots, id>>)
  <2>4. q \in Connections /\ SameEnds(conn[c], q) /\ Orderly(q) /\ ~Registering(q)
    BY <1>2, <2>2, <2>3, ReplyRegisters DEF SameEnds
  <2>5. conn' = [conn EXCEPT ![c] = q]
    BY <2>1, Zenon
  <2> HIDE DEF q
  <2>6. conn' = [ShutAll({}, "atBroker") EXCEPT ![c] = q]
    BY <2>5, TablesParts, Zenon DEF ShutAll
  <2>7. /\ {} \in SUBSET Conns /\ c \notin {}
        /\ \A i \in DOMAIN m_targets : m_targets[i].conn \in {} <=> i = id
    BY <2>2, Zenon
  <2>8. client' \in ClientTable
    BY <2>1, TablesParts, Zenon
  <2>9. RequestInv'
    <3>1. /\ DOMAIN m_targets' = DOMAIN m_targets \cup {id}
          /\ \A i \in DOMAIN m_targets : m_targets'[i] = m_targets[i]
          /\ m_targets'[id].requests = {}
      BY <2>1, <2>2, Zenon DEF With, Target
    <3> QED BY <1>1, <2>1, <2>2, <3>1, TablesParts, RequestsNewTarget, Zenon
  <2>10. Registers(c, id, {}, q) /\ {} \in SUBSET Conns
    BY <2>1, <2>6, <2>7, Zenon DEF Registers
  <2> QED BY <1>1, <1>2, <1>3, <2>4, <2>8, <2>9, <2>10, TablesRegister
<1> QED BY <1>1, <1>6, <1>7, Zenon

-----------------------------------------------------------------------------
(* The actions of the daemons, and the faults. *)

ListenerRecord ==
  [phase : Phases, m_ccbid : CCBIDs \cup {None}, m_cookie : Cookies \cup {None},
   ip : IPs, sock : Conns \cup {None}]

(* The daemons and their reversed connections, by themselves. *)
LEMMA ListenerParts ==
  ASSUME TablesInv
  PROVE  /\ listener \in [Listeners -> ListenerRecord]
         /\ \A l \in Listeners : listener[l].sock \in Conns \cup {None}
         /\ reversing \subseteq [l : Listeners, request : Nat, connect_id : Clients]
<1>1. /\ listener \in [Listeners -> ListenerRecord]
      /\ reversing \subseteq [l : Listeners, request : Nat, connect_id : Clients]
  BY Zenon DEF TablesInv, PeersOK, ListenerRecord
<1>2. \A l \in Listeners : listener[l].sock \in Conns \cup {None}
  BY <1>1, Zenon DEF ListenerRecord
<1> QED BY <1>1, <1>2, Zenon

(* A daemon and the connections change, but nothing of the broker. *)
LEMMA PeersMove ==
  ASSUME PeersOK, UNCHANGED <<m_next_request_id, boots>>,
         listener' \in [Listeners -> ListenerRecord],
         reversing' \subseteq [l : Listeners, request : Nat, connect_id : Clients],
         client' \in ClientTable, conn' \in [Conns -> Connections \cup {None}]
  PROVE  PeersOK'
BY Zenon DEF PeersOK, ClientTable, ListenerRecord

(* A connection is cut. *)
LEMMA CutTables ==
  ASSUME TablesInv, NEW c \in Conns, Cut(c)
  PROVE  TablesInv'
<1> DEFINE q == [conn[c] EXCEPT !.cut = TRUE, !.toBroker = <<>>, !.toListener = <<>>]
<1>1. /\ conn[c] # None /\ Becomes(c, q)
      /\ UNCHANGED <<listener, reversing, boots, client, broker>>
  BY Zenon DEF Cut, Free, Becomes
<1>2. conn[c] \in Connections
  BY <1>1, TablesParts, ConnFacts, Zenon
<1>3. /\ q \in Connections
      /\ q.l = conn[c].l
      /\ q.atListener <=> conn[c].atListener
      /\ q.atBroker <=> conn[c].atBroker
      /\ q.cut /\ q.toBroker = <<>>
  BY <1>2, CutLoses, Zenon
<1> HIDE DEF q
<1>4. Orderly(q)
  <2>1. Len(q.toBroker) = 0
    BY <1>3
  <2> QED BY <1>3, <2>1 DEF Orderly
<1>5. Steady(conn[c], q)
  BY <1>1, <1>3, <1>4, CCBAssumption, Zenon DEF Steady, Registering
<1>6. ConnsGo({}) /\ conn' \in [Conns -> Connections \cup {None}]
  BY <1>1, <1>3, <1>5, TablesParts, OneConnGoes, Zenon
<1>7. UNCHANGED <<up, m_targets, m_requests, m_next_request_id>>
  BY <1>1, Zenon DEF broker
<1>8. PeersOK' /\ SocksGo
  BY <1>1, <1>6, <1>7, TablesParts, PeersStill, Zenon DEF SocksGo
<1> QED BY <1>6, <1>7, <1>8, TablesSame, Zenon

(* A daemon moves, starts to connect, or finds nobody there. *)
LEMMA IdleTables ==
  ASSUME TablesInv, NEW l \in Listeners,
         UNCHANGED <<broker, reversing, conn, client, boots>>,
         \/ \E ip \in IPs : listener' = [listener EXCEPT ![l].ip = ip]
         \/ listener' = [listener EXCEPT ![l].phase = "m_waiting_for_connect"]
         \/ Disconnected(l)
  PROVE  TablesInv'
<1>1. UNCHANGED <<up, m_targets, m_requests, m_next_request_id>>
  BY Zenon DEF broker
<1>2. listener' \in [Listeners -> ListenerRecord] /\ SocksGo
  <2> DEFINE S == Conns \cup {None}
             I == CCBIDs \cup {None}
             K == Cookies \cup {None}
  <2>1. listener \in [Listeners -> [phase : Phases, m_ccbid : I, m_cookie : K, ip : IPs, sock : S]]
    BY ListenerParts, Zenon DEF ListenerRecord
  <2>2. None \in S /\ "m_waiting_for_connect" \in Phases /\ "m_reconnect_timer" \in Phases
    BY Zenon DEF Phases
  <2> HIDE DEF S, I, K
  <2>3. /\ listener' \in [Listeners -> [phase : Phases, m_ccbid : I, m_cookie : K, ip : IPs, sock : S]]
        /\ SocksGo
    BY <2>1, <2>2 DEF Disconnected, SocksGo
  <2> QED BY <2>3, Zenon DEF ListenerRecord, S, I, K
<1>3. ConnsGo({}) /\ conn' \in [Conns -> Connections \cup {None}] /\ client' \in ClientTable
  BY TablesParts, ConnsStay, Zenon
<1>4. PeersOK'
  BY <1>1, <1>2, <1>3, TablesParts, ListenerParts, PeersMove, Zenon
<1> QED BY <1>1, <1>2, <1>3, <1>4, TablesSame, Zenon

(* The connection of a daemon. *)
LEMMA SockFacts ==
  ASSUME TablesInv, NEW l \in Listeners, listener[l].sock # None
  PROVE  LET c == listener[l].sock
         IN  /\ c \in Conns /\ conn[c] # None /\ conn[c] \in Connections /\ Orderly(conn[c])
             /\ conn[c].l = l /\ conn[c].atListener
<1> DEFINE c == listener[l].sock
<1>1. c \in Conns
  BY ListenerParts, Zenon
<1>2. conn[c] # None /\ conn[c].l = l /\ conn[c].atListener
  BY TablesParts, Zenon DEF WireInv, SocksAreOwn
<1>3. conn[c] \in Connections /\ Orderly(conn[c])
  BY <1>1, <1>2, TablesParts, ConnFacts, Zenon
<1> QED BY <1>1, <1>2, <1>3, Zenon

(* A daemon reads a message. *)
LEMMA ReadTables ==
  ASSUME TablesInv, NEW l \in Listeners, ReadMsgFromCCB(l)
  PROVE  TablesInv'
<1> DEFINE c == listener[l].sock
           q == [conn[c] EXCEPT !.toListener = Tail(@)]
           msg == Head(conn[c].toListener)
<1>1. /\ c # None /\ conn[c].toListener # <<>>
      /\ conn' = [conn EXCEPT ![c].toListener = Tail(@)]
      /\ HandleCCBRegistrationReply(l, msg) \/ HandleCCBRequest(l, msg)
      /\ DaemonStep
  BY Zenon DEF ReadMsgFromCCB, Sock
<1>2. UNCHANGED <<up, m_targets, m_requests, m_next_request_id, client, boots>>
  BY <1>1, Zenon DEF DaemonStep, broker
<1>3. c \in Conns /\ conn[c] # None /\ conn[c] \in Connections /\ Orderly(conn[c])
  BY <1>1, SockFacts, Zenon
<1>4. Becomes(c, q)
  BY <1>1, Zenon DEF Becomes
<1>5. q \in Connections /\ Steady(conn[c], q)
  BY <1>1, <1>3, SteadyTailToListener, Zenon
<1>6. msg \in Registrations \cup Requests
  <2> DEFINE T == Registrations \cup Requests
  <2>1. conn[c].toListener \in Seq(T)
    BY <1>3, Zenon DEF Connections
  <2> HIDE DEF T
  <2>2. msg \in T
    BY <1>1, <2>1
  <2> QED BY <2>2, Zenon DEF T
<1> HIDE DEF c, q, msg
<1>7. ConnsGo({}) /\ conn' \in [Conns -> Connections \cup {None}]
  BY <1>3, <1>4, <1>5, TablesParts, OneConnGoes, Zenon
<1>8. /\ listener' \in [Listeners -> ListenerRecord] /\ SocksGo
      /\ reversing' \subseteq [l : Listeners, request : Nat, connect_id : Clients]
  <2>1. CASE HandleCCBRegistrationReply(l, msg)
    <3>1. msg \in Registrations
      BY <1>6, <2>1, Zenon DEF HandleCCBRegistrationReply, Requests
    <3>2. msg.ccbid \in CCBIDs \cup {None} /\ msg.cookie \in Cookies \cup {None} /\ "m_registered" \in Phases
      BY <3>1, Zenon DEF Registrations, Phases
    <3>3. /\ listener' = [listener EXCEPT ![l].phase = "m_registered", ![l].m_ccbid = msg.ccbid,
                                          ![l].m_cookie = msg.cookie]
          /\ UNCHANGED reversing
      BY <2>1, Zenon DEF HandleCCBRegistrationReply
    <3>4. listener' \in [Listeners -> ListenerRecord] /\ SocksGo
      <4> DEFINE S == Conns \cup {None}
                 I == CCBIDs \cup {None}
                 K == Cookies \cup {None}
      <4>1. listener \in [Listeners -> [phase : Phases, m_ccbid : I, m_cookie : K, ip : IPs, sock : S]]
        BY ListenerParts, Zenon DEF ListenerRecord
      <4>2. msg.ccbid \in I /\ msg.cookie \in K
        BY <3>2, Zenon
      <4> HIDE DEF S, I, K
      <4>3. /\ listener' \in [Listeners -> [phase : Phases, m_ccbid : I, m_cookie : K, ip : IPs, sock : S]]
            /\ SocksGo
        BY <3>2, <3>3, <4>1, <4>2, Zenon DEF SocksGo
      <4> QED BY <4>3, Zenon DEF ListenerRecord, S, I, K
    <3> QED BY <3>3, <3>4, ListenerParts, Zenon
  <2>2. CASE HandleCCBRequest(l, msg)
    <3>1. msg \in Requests
      BY <1>6, <2>2, Zenon DEF HandleCCBRequest, Registrations
    <3>2. msg.request \in Nat /\ msg.connect_id \in Clients
      BY <3>1, Zenon DEF Requests
    <3> QED BY <2>2, <3>2, ListenerParts DEF HandleCCBRequest, SocksGo
  <2> QED BY <1>1, <2>1, <2>2, Zenon
<1>9. client' \in ClientTable
  BY <1>2, TablesParts, Zenon
<1>10. PeersOK'
  BY <1>2, <1>7, <1>8, <1>9, TablesParts, PeersMove, Zenon
<1> QED BY <1>2, <1>7, <1>8, <1>10, TablesSame, Zenon

(* A reversed connection is reported. *)
LEMMA ReverseTables ==
  ASSUME TablesInv, NEW v \in reversing, NEW success \in BOOLEAN, ReverseConnected(v, success)
  PROVE  TablesInv'
<1> DEFINE l == v.l
           c == listener[l].sock
           m == [cmd |-> "CCB_RESULT", request |-> v.request, connect_id |-> v.connect_id,
                 success |-> success]
           q == Put(conn[c], "toBroker", m)
<1>1. l \in Listeners /\ v.connect_id \in Clients /\ m \in Results
  BY ListenerParts, Zenon DEF Results
<1>2. /\ UNCHANGED <<up, m_targets, m_requests, m_next_request_id, listener, boots>>
      /\ reversing' = reversing \ {v}
      /\ client' = IF success THEN [client EXCEPT ![v.connect_id].reached = @ \cup {l}] ELSE client
      /\ conn' = IF c = None THEN conn ELSE [conn EXCEPT ![c] = q]
  BY Zenon DEF ReverseConnected, broker, ghosts
<1>3. client' \in ClientTable
  <2>1. CASE success
    BY <1>1, <1>2, <2>1, TablesParts DEF ClientTable
  <2>2. CASE ~success
    BY <1>2, <2>2, TablesParts, Zenon
  <2> QED BY <2>1, <2>2, Zenon
<1> HIDE DEF l, m
<1>4. ConnsGo({}) /\ conn' \in [Conns -> Connections \cup {None}]
  <2>1. CASE c = None
    BY <1>2, <2>1, TablesParts, ConnsStay, Zenon
  <2>2. CASE c # None
    <3>1. c \in Conns /\ conn[c] \in Connections /\ Orderly(conn[c])
      BY <1>1, <2>2, SockFacts, Zenon
    <3>2. Becomes(c, q)
      BY <1>2, <2>2, Zenon DEF Becomes
    <3>3. q \in Connections /\ Steady(conn[c], q)
      BY <1>1, <3>1, SteadyReport, Zenon
    <3> HIDE DEF q, c
    <3> QED BY <3>1, <3>2, <3>3, TablesParts, OneConnGoes, Zenon
  <2> QED BY <2>1, <2>2, Zenon
<1> HIDE DEF c, q
<1>5. PeersOK' /\ SocksGo
  BY <1>2, <1>3, <1>4, TablesParts, ListenerParts, PeersMove DEF SocksGo
<1> QED BY <1>2, <1>4, <1>5, TablesSame, Zenon

(* A daemon connects. *)
LEMMA OpenTables ==
  ASSUME TablesInv, NEW l \in Listeners, NEW c \in Conns, Free(c),
         listener' = [listener EXCEPT ![l].phase = "m_waiting_for_registration", ![l].sock = c],
         conn' = [conn EXCEPT ![c] = Put(Open(l), "toBroker",
           [cmd |-> "CCB_REGISTER", ccbid |-> listener[l].m_ccbid, cookie |-> listener[l].m_cookie])],
         UNCHANGED <<broker, reversing, client, boots>>
  PROVE  TablesInv'
<1> DEFINE m == [cmd |-> "CCB_REGISTER", ccbid |-> listener[l].m_ccbid, cookie |-> listener[l].m_cookie]
           q == Put(Open(l), "toBroker", m)
<1>1. conn[c] = None /\ UNCHANGED <<up, m_targets, m_requests, m_next_request_id>>
  BY Zenon DEF Free, broker
<1>2. m \in Registrations
  BY ListenerParts, Zenon DEF ListenerRecord, Registrations
<1>3. m.cmd = "CCB_REGISTER"
  BY Zenon
<1>4. conn' = [conn EXCEPT ![c] = q]
  BY Zenon
<1> HIDE DEF m
<1>5. /\ q \in Connections
      /\ q.l = l /\ q.atListener /\ q.atBroker /\ ~q.cut
      /\ q.toBroker = <<m>>
  BY <1>2, TablesParts, OpenRegisters, Zenon
<1> HIDE DEF q
<1>6. q # None
  BY <1>5, CCBAssumption, Zenon
<1>7. /\ conn' \in [Conns -> Connections \cup {None}]
      /\ conn'[c] = q
      /\ \A d \in Conns \ {c} : conn'[d] = conn[d]
  BY <1>4, <1>5, TablesParts, Zenon
<1>8. /\ listener' \in [Listeners -> ListenerRecord]
      /\ listener'[l].sock = c
      /\ \A x \in Listeners \ {l} : listener'[x].sock = listener[x].sock
  <2> DEFINE S == Conns \cup {None}
             I == CCBIDs \cup {None}
             K == Cookies \cup {None}
  <2>1. listener \in [Listeners -> [phase : Phases, m_ccbid : I, m_cookie : K, ip : IPs, sock : S]]
    BY ListenerParts, Zenon DEF ListenerRecord
  <2>2. c \in S /\ "m_waiting_for_registration" \in Phases
    BY Zenon DEF Phases
  <2> HIDE DEF S, I, K
  <2>3. /\ listener' \in [Listeners -> [phase : Phases, m_ccbid : I, m_cookie : K, ip : IPs, sock : S]]
        /\ listener'[l].sock = c
        /\ \A x \in Listeners \ {l} : listener'[x].sock = listener[x].sock
    BY <2>1, <2>2, Zenon
  <2> QED BY <2>3, Zenon DEF ListenerRecord, S, I, K
<1>9. client' \in ClientTable
  BY TablesParts, Zenon
<1>10. PeersOK'
  BY <1>1, <1>7, <1>8, <1>9, TablesParts, ListenerParts, PeersMove
<1>11. Registering(q) /\ Orderly(q)
  <2>1. q.toBroker # <<>> /\ q.toBroker[1] = m /\ Len(q.toBroker) = 1
    BY <1>5
  <2> QED BY <1>3, <1>5, <2>1 DEF Registering, Orderly
<1>12. SocksAreOwn'
  <2> SUFFICES ASSUME NEW x \in Listeners, listener'[x].sock # None
               PROVE  /\ conn'[listener'[x].sock] # None
                      /\ conn'[listener'[x].sock].atListener
                      /\ conn'[listener'[x].sock].l = x
    BY Zenon DEF SocksAreOwn
  <2>1. CASE x = l
    BY <1>5, <1>6, <1>7, <1>8, <2>1
  <2>2. CASE x # l
    <3>1. listener'[x].sock = listener[x].sock
      BY <1>8, <2>2, Zenon
    <3>2. /\ listener[x].sock \in Conns /\ conn[listener[x].sock] # None
          /\ conn[listener[x].sock].l = x /\ conn[listener[x].sock].atListener
      BY <3>1, SockFacts, Zenon
    <3> QED BY <1>1, <1>7, <3>1, <3>2, Zenon
  <2> QED BY <2>1, <2>2, Zenon
<1>13. TargetsAreConnected'
  <2>1. ASSUME NEW i \in DOMAIN m_targets
        PROVE  /\ m_targets[i] \in [conn : Conns, requests : SUBSET Nat]
               /\ conn'[m_targets[i].conn] # None
               /\ conn'[m_targets[i].conn].atBroker
               /\ ~Registering(conn'[m_targets[i].conn])
    <3>1. /\ m_targets[i] \in [conn : Conns, requests : SUBSET Nat]
          /\ m_targets[i].conn \in Conns
          /\ conn[m_targets[i].conn] # None
          /\ conn[m_targets[i].conn].atBroker
          /\ ~Registering(conn[m_targets[i].conn])
      BY TablesParts, Zenon DEF TargetsAreConnected
    <3>2. conn'[m_targets[i].conn] = conn[m_targets[i].conn]
      BY <1>1, <1>7, <3>1, Zenon
    <3> QED BY <3>1, <3>2, Zenon
  <2>2. \A i, j \in DOMAIN m_targets : m_targets[i].conn = m_targets[j].conn => i = j
    BY TablesParts, Zenon DEF TargetsAreConnected
  <2> QED BY <1>1, <2>1, <2>2, Zenon DEF TargetsAreConnected, Registering
<1>14. ASSUME NEW d \in Conns PROVE Wired(d)'
  <2> SUFFICES ASSUME conn'[d] # None
               PROVE  /\ Orderly(conn'[d])
                      /\ conn'[d].atBroker /\ ~conn'[d].cut /\ ~Registering(conn'[d])
                           => IsTarget(d)'
    BY Zenon DEF Wired, Orderly, Registering
  <2>1. CASE d = c
    BY <1>7, <1>11, <2>1, Zenon
  <2>2. CASE d # c
    <3>1. conn'[d] = conn[d]
      BY <1>7, <2>2, Zenon
    <3>2. IsTarget(d) => IsTarget(d)'
      BY <1>1, Zenon DEF IsTarget
    <3> QED BY <3>1, <3>2, TablesParts, Zenon DEF WireInv, Wired, Orderly
  <2> QED BY <2>1, <2>2, Zenon
<1>15. WireInv'
  BY <1>12, <1>13, <1>14, Zenon DEF WireInv
<1>16. RequestInv' /\ DownIsEmpty'
  BY <1>1, TablesParts, RequestsSame, Zenon DEF DownIsEmpty
<1> QED BY <1>10, <1>15, <1>16, Zenon DEF TablesInv, RequestInv

(* A daemon gives its connection up. *)
LEMMA HangupTables ==
  ASSUME TablesInv, NEW l \in Listeners, listener[l].sock # None, Hangup(l)
  PROVE  TablesInv'
<1> DEFINE c == listener[l].sock
           q == Shut(conn[c], "atListener")
<1>1. /\ UNCHANGED <<up, m_targets, m_requests, m_next_request_id, client, boots, reversing>>
      /\ conn' = [conn EXCEPT ![c] = q]
      /\ listener' = [listener EXCEPT ![l].phase = "m_reconnect_timer", ![l].sock = None]
  BY Zenon DEF Hangup, DaemonStep, Disconnected, broker
<1>2. /\ c \in Conns /\ conn[c] # None /\ conn[c] \in Connections /\ Orderly(conn[c])
      /\ conn[c].l = l
  BY SockFacts, Zenon
<1> HIDE DEF c
<1>3. /\ ~conn[c].atBroker => q = None
      /\ conn[c].atBroker => /\ q \in Connections /\ q # None /\ q.cut = conn[c].cut
                             /\ q.toBroker = conn[c].toBroker /\ q.atBroker
  BY <1>2, ShutEnd, CCBAssumption
<1> HIDE DEF q
<1>4. /\ conn' \in [Conns -> Connections \cup {None}]
      /\ conn'[c] = q
      /\ \A d \in Conns \ {c} : conn'[d] = conn[d]
  BY <1>1, <1>2, <1>3, TablesParts, Zenon
<1>5. /\ listener' \in [Listeners -> ListenerRecord]
      /\ listener'[l].sock = None
      /\ \A x \in Listeners \ {l} : listener'[x].sock = listener[x].sock
  <2> DEFINE S == Conns \cup {None}
             I == CCBIDs \cup {None}
             K == Cookies \cup {None}
  <2>1. listener \in [Listeners -> [phase : Phases, m_ccbid : I, m_cookie : K, ip : IPs, sock : S]]
    BY ListenerParts, Zenon DEF ListenerRecord
  <2>2. None \in S /\ "m_reconnect_timer" \in Phases
    BY Zenon DEF Phases
  <2> HIDE DEF S, I, K
  <2>3. /\ listener' \in [Listeners -> [phase : Phases, m_ccbid : I, m_cookie : K, ip : IPs, sock : S]]
        /\ listener'[l].sock = None
        /\ \A x \in Listeners \ {l} : listener'[x].sock = listener[x].sock
    BY <1>1, <2>1, <2>2, Zenon
  <2> QED BY <2>3, Zenon DEF ListenerRecord, S, I, K
<1>6. client' \in ClientTable
  BY <1>1, TablesParts, Zenon
<1>7. PeersOK'
  BY <1>1, <1>4, <1>5, <1>6, TablesParts, ListenerParts, PeersMove
<1>8. SocksAreOwn'
  <2> SUFFICES ASSUME NEW x \in Listeners, listener'[x].sock # None
               PROVE  /\ conn'[listener'[x].sock] # None
                      /\ conn'[listener'[x].sock].atListener
                      /\ conn'[listener'[x].sock].l = x
    BY Zenon DEF SocksAreOwn
  <2>1. x # l /\ listener'[x].sock = listener[x].sock
    BY <1>5, Zenon
  <2>2. /\ listener[x].sock \in Conns /\ conn[listener[x].sock] # None
        /\ conn[listener[x].sock].l = x /\ conn[listener[x].sock].atListener
    BY <2>1, SockFacts, Zenon
  <2>3. listener[x].sock # c
    BY <1>2, <2>1, <2>2, Zenon
  <2> QED BY <1>4, <2>1, <2>2, <2>3, Zenon
<1>9. TargetsAreConnected'
  <2>1. ASSUME NEW i \in DOMAIN m_targets
        PROVE  /\ m_targets[i] \in [conn : Conns, requests : SUBSET Nat]
               /\ conn'[m_targets[i].conn] # None
               /\ conn'[m_targets[i].conn].atBroker
               /\ ~Registering(conn'[m_targets[i].conn])
    <3> DEFINE d == m_targets[i].conn
    <3>1. /\ m_targets[i] \in [conn : Conns, requests : SUBSET Nat]
          /\ d \in Conns /\ conn[d] # None /\ conn[d].atBroker /\ ~Registering(conn[d])
      BY TablesParts, Zenon DEF TargetsAreConnected
    <3> HIDE DEF d
    <3>2. CASE d = c
      <4>1. conn'[d] # None /\ conn'[d].atBroker /\ conn'[d].toBroker = conn[d].toBroker
        BY <1>3, <1>4, <3>1, <3>2, Zenon
      <4> QED BY <3>1, <4>1, Zenon DEF Registering, d
    <3>3. CASE d # c
      <4>1. conn'[d] = conn[d]
        BY <1>4, <3>1, <3>3, Zenon
      <4> QED BY <3>1, <4>1, Zenon DEF d
    <3> QED BY <3>2, <3>3, Zenon
  <2>2. \A i, j \in DOMAIN m_targets : m_targets[i].conn = m_targets[j].conn => i = j
    BY TablesParts, Zenon DEF TargetsAreConnected
  <2> QED BY <1>1, <2>1, <2>2, Zenon DEF TargetsAreConnected, Registering
<1>10. ASSUME NEW d \in Conns PROVE Wired(d)'
  <2> SUFFICES ASSUME conn'[d] # None
               PROVE  /\ Orderly(conn'[d])
                      /\ conn'[d].atBroker /\ ~conn'[d].cut /\ ~Registering(conn'[d])
                           => IsTarget(d)'
    BY Zenon DEF Wired, Orderly, Registering
  <2>1. IsTarget(d) => IsTarget(d)'
    BY <1>1, Zenon DEF IsTarget
  <2>2. /\ conn[d] # None /\ conn'[d].toBroker = conn[d].toBroker
        /\ conn'[d].cut = conn[d].cut /\ (conn'[d].atBroker => conn[d].atBroker)
    BY <1>2, <1>3, <1>4, Zenon
  <2>3. Orderly(conn[d]) /\ (conn[d].atBroker /\ ~conn[d].cut /\ ~Registering(conn[d]) => IsTarget(d))
    BY <2>2, TablesParts, Zenon DEF WireInv, Wired, Orderly
  <2> QED BY <2>1, <2>2, <2>3, Zenon DEF Orderly, Registering
<1>11. WireInv'
  BY <1>8, <1>9, <1>10, Zenon DEF WireInv
<1>12. RequestInv' /\ DownIsEmpty'
  BY <1>1, TablesParts, RequestsSame, Zenon DEF DownIsEmpty
<1> QED BY <1>7, <1>11, <1>12, Zenon DEF TablesInv, RequestInv

(* What a daemon does. *)
LEMMA DaemonTables ==
  ASSUME TablesInv, NEW l \in Listeners, Daemon(l) \/ Move(l)
  PROVE  TablesInv'
<1>1. CASE ReconnectTime(l)
  <2>1. /\ UNCHANGED <<broker, reversing, conn, client, boots>>
        /\ listener' = [listener EXCEPT ![l].phase = "m_waiting_for_connect"]
    BY <1>1, Zenon DEF ReconnectTime, DaemonStep
  <2> QED BY <2>1, IdleTables, Zenon
<1>2. CASE Move(l)
  <2>1. /\ UNCHANGED <<broker, reversing, conn, client, boots>>
        /\ \E ip \in IPs : listener' = [listener EXCEPT ![l].ip = ip]
    BY <1>2, Zenon DEF Move
  <2> QED BY <2>1, IdleTables, Zenon
<1>3. CASE CCBConnectCallback(l)
  <2>1. UNCHANGED <<broker, reversing, client, boots>>
    BY <1>3, Zenon DEF CCBConnectCallback, DaemonStep
  <2>2. CASE Disconnected(l) /\ UNCHANGED conn
    <3>1. UNCHANGED <<broker, reversing, conn, client, boots>>
      BY <2>1, <2>2, Zenon
    <3> QED BY <2>2, <3>1, IdleTables, Zenon
  <2>3. ASSUME NEW c \in Conns, Free(c),
               listener' = [listener EXCEPT ![l].phase = "m_waiting_for_registration", ![l].sock = c],
               conn' = [conn EXCEPT ![c] = Put(Open(l), "toBroker",
                 [cmd |-> "CCB_REGISTER", ccbid |-> listener[l].m_ccbid,
                  cookie |-> listener[l].m_cookie])]
        PROVE  TablesInv'
    BY <2>1, <2>3, OpenTables, Zenon
  <2> QED BY <1>3, <2>2, <2>3, Zenon DEF CCBConnectCallback
<1>4. CASE ReadMsgFromCCB(l)
  BY <1>4, ReadTables, Zenon
<1>5. CASE ListenerDisconnect(l) \/ HeartbeatTime(l)
  <2>1. listener[l].sock # None /\ Hangup(l)
    BY <1>5, Zenon DEF ListenerDisconnect, HeartbeatTime
  <2> QED BY <2>1, HangupTables, Zenon
<1> QED BY <1>1, <1>2, <1>3, <1>4, <1>5, Zenon DEF Daemon

(* At the start everything is empty. *)
LEMMA InitTables == Init => TablesInv
<1> SUFFICES ASSUME Init PROVE TablesInv
  BY Zenon
<1>1. listener \in [Listeners -> ListenerRecord] /\ \A l \in Listeners : listener[l].sock = None
  BY CCBAssumption, Zenon DEF Init, ListenerRecord, Phases
<1>2. client \in ClientTable
  BY Zenon DEF Init, ClientTable
<1>3. PeersOK
  BY <1>1, <1>2 DEF Init, PeersOK, ListenerRecord, ClientTable
<1>4. DOMAIN m_targets = {} /\ DOMAIN m_requests = {} /\ \A c \in Conns : conn[c] = None
  BY DEF Init
<1> QED BY <1>1, <1>3, <1>4, Zenon DEF TablesInv, DownIsEmpty, RequestsHaveTargets, RequestsAreNumbered,
             WireInv, SocksAreOwn, TargetsAreConnected, Wired

(* Every step keeps the tables in order. *)
LEMMA NextTables == TablesInv /\ [Next]_vars => TablesInv'
<1> SUFFICES ASSUME TablesInv, [Next]_vars PROVE TablesInv'
  BY Zenon
<1>1. ASSUME NEW c \in Conns, Receive(c) PROVE TablesInv'
  BY <1>1, RegistrationTables, ResultsTables, DisconnectTables, Zenon DEF Receive
<1>2. ASSUME NEW p \in Clients, NEW l \in Listeners, HandleRequest(p, l) PROVE TablesInv'
  BY <1>2, RequestTables, Zenon
<1>3. ASSUME NEW r \in DOMAIN m_requests, HandleRequestDisconnect(r) PROVE TablesInv'
  BY <1>3, LeaveTables, Zenon
<1>4. CASE Poll \/ SweepReconnectInfo \/ InitAndReconfig
  BY <1>4, FileTables, Zenon
<1>5. ASSUME NEW l \in Listeners, Daemon(l) \/ Move(l) PROVE TablesInv'
  BY <1>5, DaemonTables, Zenon
<1>6. ASSUME NEW v \in reversing, NEW success \in BOOLEAN, ReverseConnected(v, success)
      PROVE  TablesInv'
  BY <1>6, ReverseTables, Zenon
<1>7. CASE Crash
  BY <1>7, CrashTables, Zenon
<1>8. ASSUME NEW c \in Conns, Cut(c) PROVE TablesInv'
  BY <1>8, CutTables, Zenon
<1>9. CASE UNCHANGED vars
  <2>1. UNCHANGED <<up, m_targets, m_requests, m_next_request_id>> /\ UNCHANGED <<listener, reversing, conn, client, boots>>
    BY <1>9, Zenon DEF vars, broker, ghosts
  <2>2. PeersOK' /\ ConnsGo({}) /\ SocksGo
    BY <2>1, TablesParts, ConnsStay, Zenon DEF PeersOK, SocksGo
  <2> QED BY <2>1, <2>2, TablesSame, Zenon
<1> QED BY <1>1, <1>2, <1>3, <1>4, <1>5, <1>6, <1>7, <1>8, <1>9, Zenon DEF Next, Broker

(* The requests of the broker and those of its targets are the same ones, for
   any number of daemons, clients, connections, faults and restarts:
   RemoveTarget, RemoveRequest and ReconnectTarget leave no pointer to what they
   delete. *)
THEOREM RequestsKeepTargets == Spec => []RequestsHaveTargets
<1>1. TablesInv => RequestsHaveTargets
  BY Zenon DEF TablesInv
<1> QED BY <1>1, InitTables, NextTables, PTL DEF Spec

-----------------------------------------------------------------------------
(* Targets and their reconnect records. *)

RecordsInv == TargetsHaveRecords /\ DownIsEmpty

(* At the start there are neither targets nor records. *)
LEMMA InitRecords == Init => RecordsInv
BY Zenon DEF Init, RecordsInv, TargetsHaveRecords, DownIsEmpty

(* A sweep takes no record of a target: Seen has just renewed it. *)
LEMMA SweepRecords ==
  ASSUME RecordsInv, SweepReconnectInfo
  PROVE  RecordsInv'
<1>1. PICK gone \in Expired(Seen) : m_reconnect_info' = Without(Seen, gone)
  BY Zenon DEF SweepReconnectInfo
<1>2. DOMAIN Seen = DOMAIN m_reconnect_info
  BY Zenon DEF Seen
<1>3. ASSUME NEW i \in DOMAIN m_targets PROVE i \notin gone
  <2>1. i \in DOMAIN m_reconnect_info
    BY Zenon DEF RecordsInv, TargetsHaveRecords
  <2>2. gone \subseteq {j \in DOMAIN Seen : Seen[j].missed \in {2, 3}}
    BY Zenon DEF Expired
  <2>3. Seen[i].missed = 0
    BY <2>1, Zenon DEF Seen, Info
  <2>4. Seen[i].missed \notin {2, 3}
    BY <2>3
  <2> QED BY <2>2, <2>4, Zenon
<1>4. DOMAIN m_reconnect_info' = DOMAIN Seen \ gone
  BY <1>1, Zenon DEF Without, Restrict
<1>5. UNCHANGED <<up, m_targets>>
  BY Zenon DEF SweepReconnectInfo
<1> QED BY <1>2, <1>3, <1>4, <1>5, Zenon DEF RecordsInv, TargetsHaveRecords, DownIsEmpty

(* Every step keeps the record of every target, and no targets while the
   broker is down. *)
LEMMA NextRecords ==
  ASSUME RecordsInv, [Next]_vars
  PROVE  RecordsInv'
<1> USE DEF RecordsInv, TargetsHaveRecords, DownIsEmpty
<1>1. ASSUME NEW id, RemoveTarget(id), up PROVE RecordsInv'
  BY <1>1, Zenon DEF RemoveTarget, Without, Restrict
<1>2. ASSUME NEW c \in Conns, HandleRegistration(c) PROVE RecordsInv'
  <2> DEFINE msg == Head(conn[c].toBroker)
  <2>0. up /\ up' = up
    BY <1>2, Zenon DEF HandleRegistration, Incoming
  <2>1. CASE Reconnected(c, msg)
    BY <2>0, <2>1, Zenon DEF Reconnected, ReconnectTarget, With
  <2>2. CASE AddTarget(c, msg)
    BY <2>0, <2>2, Zenon DEF AddTarget, With
  <2> QED BY <1>2, <2>1, <2>2, Zenon DEF HandleRegistration
<1>3. ASSUME NEW c \in Conns, HandleRequestResultsMsg(c) PROVE RecordsInv'
  BY <1>1, <1>3, Zenon DEF HandleRequestResultsMsg, Incoming, RequestFinished, TargetsWithout, broker
<1>4. ASSUME NEW c \in Conns, TargetDisconnect(c) PROVE RecordsInv'
  BY <1>1, <1>4, Zenon DEF TargetDisconnect, broker
<1>5. ASSUME NEW p \in Clients, NEW l \in Listeners, HandleRequest(p, l) PROVE RecordsInv'
  BY <1>5, Zenon DEF HandleRequest, broker
<1>6. ASSUME NEW r \in DOMAIN m_requests, HandleRequestDisconnect(r) PROVE RecordsInv'
  BY <1>6, Zenon DEF HandleRequestDisconnect, TargetsWithout
<1>7. CASE SweepReconnectInfo
  BY <1>7, SweepRecords, Zenon
<1>8. CASE InitAndReconfig
  BY <1>8, Zenon DEF InitAndReconfig
<1>9. CASE Crash
  BY <1>9 DEF Crash
<1>10. CASE UNCHANGED broker
  BY <1>10, Zenon DEF broker
<1>11. ASSUME NEW l \in Listeners, Daemon(l) \/ Move(l) PROVE UNCHANGED broker
  BY <1>11, Zenon DEF Daemon, Move, ReconnectTime, CCBConnectCallback, ReadMsgFromCCB,
       ListenerDisconnect, HeartbeatTime, Hangup, DaemonStep
<1>12. ASSUME \/ Poll
              \/ \E v \in reversing, success \in BOOLEAN : ReverseConnected(v, success)
              \/ \E c \in Conns : Cut(c)
              \/ UNCHANGED vars
       PROVE  UNCHANGED broker
  BY <1>12, Zenon DEF Poll, ReverseConnected, Cut, vars
<1> QED BY <1>2, <1>3, <1>4, <1>5, <1>6, <1>7, <1>8, <1>9, <1>10, <1>11, <1>12, Zenon
      DEF Next, Broker, Receive

(* The record of a daemon that is registered never expires, for any number of
   daemons, restarts of the broker and sweeps: the two ASSERTs of the broker on
   its reconnect records. *)
THEOREM RecordsOutliveTargets == Spec => []TargetsHaveRecords
<1>1. RecordsInv => TargetsHaveRecords
  BY Zenon DEF RecordsInv
<1> QED BY <1>1, InitRecords, NextRecords, PTL DEF Spec

-----------------------------------------------------------------------------
(* What clients are told. *)

(* What a step may do to the clients, and what a connection may carry after it. *)
ReachGrows == \A p \in Clients : client[p].reached # {} => client'[p].reached # {}

ToldTruly ==
  \A p \in Clients :
    client'[p].told = "success" => client[p].told = "success" \/ client'[p].reached # {}

Honest(q) ==
  q # None =>
    \A i \in 1 .. Len(q.toBroker) :
      q.toBroker[i].cmd = "CCB_RESULT" /\ q.toBroker[i].success
        => client'[q.toBroker[i].connect_id].reached # {}

(* A step that does no more keeps AnswersInv. *)
LEMMA AnswersKept ==
  ASSUME AnswersInv, ReachGrows, ToldTruly, \A c \in Conns : Honest(conn'[c])
  PROVE  AnswersInv'
<1>1. SuccessReached'
  BY Zenon DEF AnswersInv, SuccessReached, ReachGrows, ToldTruly
<1>2. \A c \in Conns : ReportsAreTrue(c)'
  BY Zenon DEF ReportsAreTrue, Honest
<1> QED BY <1>1, <1>2, Zenon DEF AnswersInv

(* A connection carries what it carried before, or less. *)
LEMMA HonestSame ==
  ASSUME TablesInv, AnswersInv, ReachGrows, NEW c \in Conns, NEW q,
         q # None => conn[c] # None /\ q.toBroker = conn[c].toBroker
  PROVE  Honest(q)
<1> SUFFICES ASSUME q # None, NEW i \in 1 .. Len(q.toBroker),
                    q.toBroker[i].cmd = "CCB_RESULT", q.toBroker[i].success
             PROVE  client'[q.toBroker[i].connect_id].reached # {}
  BY Zenon DEF Honest
<1> DEFINE m == q.toBroker[i]
<1>1. conn[c] \in Connections /\ q.toBroker = conn[c].toBroker
  BY TablesParts, Zenon
<1>2. m \in Registrations \cup Results
  <2> DEFINE T == Registrations \cup Results
  <2>1. q.toBroker \in Seq(T)
    BY <1>1, ToBroker, Zenon
  <2> HIDE DEF T
  <2>2. m \in T
    BY <2>1
  <2> QED BY <2>2, Zenon DEF T
<1>3. m.connect_id \in Clients
  BY <1>2, Zenon DEF Registrations, Results
<1>4. client[m.connect_id].reached # {}
  BY <1>1, Zenon DEF AnswersInv, ReportsAreTrue
<1> QED BY <1>3, <1>4, Zenon DEF ReachGrows

(* What is left when the first message has been read. *)
LEMMA TailFacts ==
  ASSUME NEW T, NEW b \in Seq(T), b # <<>>
  PROVE  /\ Len(Tail(b)) = Len(b) - 1
         /\ \A i \in 1 .. Len(Tail(b)) : Tail(b)[i] = b[i + 1]
OBVIOUS

(* A connection from which the broker has read a message carries the others. *)
LEMMA HonestTail ==
  ASSUME TablesInv, AnswersInv, ReachGrows, NEW c \in Conns, NEW q,
         conn[c] # None, conn[c].toBroker # <<>>, q.toBroker = Tail(conn[c].toBroker)
  PROVE  Honest(q)
<1> DEFINE b == conn[c].toBroker
<1>1. conn[c] \in Connections
  BY TablesParts, Zenon
<1>2. /\ \A i \in 1 .. Len(q.toBroker) : i + 1 \in 1 .. Len(b) /\ q.toBroker[i] = b[i + 1]
      /\ \A i \in 1 .. Len(b) : b[i] \in Registrations \cup Results
  <2> DEFINE T == Registrations \cup Results
  <2>1. b \in Seq(T) /\ b # <<>> /\ q.toBroker = Tail(b)
    BY <1>1, ToBroker, Zenon
  <2> HIDE DEF T, b
  <2>2. /\ \A i \in 1 .. Len(q.toBroker) : i + 1 \in 1 .. Len(b) /\ q.toBroker[i] = b[i + 1]
        /\ \A i \in 1 .. Len(b) : b[i] \in T
    <3>1. Len(b) \in Nat /\ \A i \in 1 .. Len(b) : b[i] \in T
      BY <2>1
    <3>2. /\ Len(q.toBroker) = Len(b) - 1
          /\ \A i \in 1 .. Len(q.toBroker) : q.toBroker[i] = b[i + 1]
      <4>1. Len(Tail(b)) = Len(b) - 1 /\ \A i \in 1 .. Len(Tail(b)) : Tail(b)[i] = b[i + 1]
        BY <2>1, TailFacts, Zenon
      <4>2. q.toBroker = Tail(b)
        BY <2>1, Zenon
      <4> QED BY <4>1, <4>2, Zenon
    <3> QED BY <3>1, <3>2
  <2> QED BY <2>2, Zenon DEF T
<1>3. \A i \in 1 .. Len(b) :
        b[i].cmd = "CCB_RESULT" /\ b[i].success => client[b[i].connect_id].reached # {}
  BY Zenon DEF AnswersInv, ReportsAreTrue
<1>4. \A i \in 1 .. Len(b) : b[i].cmd = "CCB_RESULT" => b[i].connect_id \in Clients
  BY <1>2, Zenon DEF Registrations, Results
<1> HIDE DEF b
<1>5. \A i \in 1 .. Len(b) :
        b[i].cmd = "CCB_RESULT" /\ b[i].success => client'[b[i].connect_id].reached # {}
  BY <1>3, <1>4, Zenon DEF ReachGrows
<1> QED BY <1>2, <1>5, Zenon DEF Honest

(* All but one connection stay. *)
LEMMA HonestUpdate ==
  ASSUME TablesInv, AnswersInv, ReachGrows, NEW c \in Conns, NEW q, Becomes(c, q), Honest(q)
  PROVE  \A d \in Conns : Honest(conn'[d])
<1> SUFFICES ASSUME NEW d \in Conns PROVE Honest(conn'[d])
  BY Zenon
<1>1. CASE d = c
  <2>1. conn'[d] = q
    BY <1>1, TablesParts, Zenon DEF Becomes
  <2> QED BY <2>1, Zenon
<1>2. CASE d # c
  <2>1. conn'[d] = conn[d]
    BY <1>2, TablesParts, Zenon DEF Becomes
  <2> QED BY <2>1, HonestSame, Zenon
<1> QED BY <1>1, <1>2, Zenon

(* All connections stay. *)
LEMMA HonestStay ==
  ASSUME TablesInv, AnswersInv, ReachGrows, UNCHANGED conn
  PROVE  \A d \in Conns : Honest(conn'[d])
<1> SUFFICES ASSUME NEW d \in Conns PROVE Honest(conn'[d])
  BY Zenon
<1>1. conn'[d] = conn[d]
  BY Zenon
<1> QED BY <1>1, HonestSame, Zenon

(* Closing an end changes nothing of what is under way. *)
LEMMA HonestShut ==
  ASSUME TablesInv, AnswersInv, ReachGrows, NEW c \in Conns, NEW end \in {"atBroker", "atListener"}
  PROVE  Honest(Shut(conn[c], end))
<1> DEFINE q == Shut(conn[c], end)
<1>1. CASE conn[c] = None
  <2>1. q = None
    BY <1>1, Zenon DEF Shut
  <2> QED BY <2>1, Zenon DEF Honest
<1>2. CASE conn[c] # None
  <2>1. conn[c] \in Connections
    BY <1>2, TablesParts, Zenon
  <2>2. q = None \/ q.toBroker = conn[c].toBroker
    BY <2>1, ShutEnd
  <2> HIDE DEF q
  <2>3. Honest(q)
    BY <1>2, <2>2, HonestSame, Zenon
  <2> QED BY <2>3, Zenon DEF q
<1> QED BY <1>1, <1>2, Zenon

(* The clients stay, or are hung up on. *)
LEMMA ClientsSteady ==
  ASSUME \A p \in Clients : client'[p].told = client[p].told /\ client'[p].reached = client[p].reached
  PROVE  ReachGrows /\ ToldTruly
BY Zenon DEF ReachGrows, ToldTruly

(* The broker reads a report. *)
LEMMA ResultsAnswers ==
  ASSUME TablesInv, AnswersInv, NEW c \in Conns, HandleRequestResultsMsg(c)
  PROVE  AnswersInv'
<1> DEFINE msg == Head(conn[c].toBroker)
           r == msg.request
           q == [conn[c] EXCEPT !.toBroker = Tail(@)]
<1>1. Incoming(c, "CCB_RESULT")
  BY Zenon DEF HandleRequestResultsMsg
<1>2. /\ up /\ conn[c] # None /\ conn[c] \in Connections /\ conn[c].toBroker # <<>>
      /\ msg = conn[c].toBroker[1] /\ msg \in Registrations \cup Results /\ msg.cmd = "CCB_RESULT"
  BY <1>1, IncomingFacts, Zenon
<1>3. msg \in Results /\ msg.connect_id \in Clients
  BY <1>2, Zenon DEF Registrations, Results
<1>4. msg.success => client[msg.connect_id].reached # {}
  <2>1. 1 \in 1 .. Len(conn[c].toBroker)
    <3> DEFINE T == Registrations \cup Results
    <3>1. conn[c].toBroker \in Seq(T)
      BY <1>2, ToBroker, Zenon
    <3> HIDE DEF T
    <3> QED BY <1>2, <3>1
  <2> QED BY <1>2, <2>1, Zenon DEF AnswersInv, ReportsAreTrue
<1>5. \/ conn' = Read(c) /\ UNCHANGED client
      \/ conn' = [conn EXCEPT ![c] = Shut(conn[c], "atBroker")] /\ RemoveTarget(TargetOf(c))
      \/ /\ r \in DOMAIN m_requests /\ RightConnectId(msg)
         /\ conn' = Read(c) /\ RequestFinished(r, msg.success)
  BY Zenon DEF HandleRequestResultsMsg
<1>6. conn' = Read(c) => Becomes(c, q)
  BY Zenon DEF Read, Becomes
<1>7. q.toBroker = Tail(conn[c].toBroker)
  BY <1>2, TailToBroker, Zenon
<1> HIDE DEF q, r, msg
<1>8. ASSUME conn' = Read(c), ReachGrows, ToldTruly PROVE AnswersInv'
  <2>1. Honest(q)
    BY <1>2, <1>7, <1>8, HonestTail, Zenon
  <2> QED BY <1>6, <1>8, <2>1, HonestUpdate, AnswersKept, Zenon
<1>9. CASE conn' = Read(c) /\ UNCHANGED client
  BY <1>8, <1>9, Zenon DEF ReachGrows, ToldTruly
<1>10. CASE conn' = [conn EXCEPT ![c] = Shut(conn[c], "atBroker")] /\ RemoveTarget(TargetOf(c))
  <2>1. client' = HangUp(HungUp({TargetOf(c)}))
    BY <1>10, Zenon DEF RemoveTarget
  <2>2. ReachGrows /\ ToldTruly
    BY <2>1, TablesParts, HangUpType, ClientsSteady, Zenon
  <2>3. Becomes(c, Shut(conn[c], "atBroker"))
    BY <1>10, Zenon DEF Becomes
  <2>4. Honest(Shut(conn[c], "atBroker"))
    BY <2>2, HonestShut, Zenon
  <2> QED BY <2>2, <2>3, <2>4, HonestUpdate, AnswersKept, Zenon
<1>11. CASE /\ r \in DOMAIN m_requests /\ RightConnectId(msg)
            /\ conn' = Read(c) /\ RequestFinished(r, msg.success)
  <2> DEFINE p == m_requests[r].client
  <2>1. p = msg.connect_id /\ p \in Clients
    BY <1>3, <1>11, Zenon DEF RightConnectId, r
  <2>2. client' = RequestReply(p, msg.success)
    BY <1>11, Zenon DEF RequestFinished
  <2> HIDE DEF p
  <2>3. /\ client'[p].told = "success" => msg.success
        /\ \A x \in Clients : client'[x].reached = client[x].reached
        /\ \A x \in Clients \ {p} : client'[x].told = client[x].told
    BY <2>1, <2>2, TablesParts, ReplyType
  <2>4. ReachGrows
    BY <2>3, Zenon DEF ReachGrows
  <2>5. ToldTruly
    BY <1>4, <2>1, <2>3, Zenon DEF ToldTruly
  <2> QED BY <1>8, <1>11, <2>4, <2>5, Zenon
<1> QED BY <1>5, <1>9, <1>10, <1>11, Zenon

(* A daemon registers. *)
LEMMA RegistrationAnswers ==
  ASSUME TablesInv, AnswersInv, NEW c \in Conns, HandleRegistration(c)
  PROVE  AnswersInv'
<1> DEFINE msg == Head(conn[c].toBroker)
<1>1. Incoming(c, "CCB_REGISTER") /\ (Reconnected(c, msg) \/ AddTarget(c, msg))
  BY Zenon DEF HandleRegistration
<1>2. /\ conn[c] # None /\ conn[c] \in Connections /\ conn[c].toBroker # <<>> /\ Orderly(conn[c])
      /\ msg \in Registrations \cup Results /\ msg.cmd = "CCB_REGISTER"
  BY <1>1, IncomingFacts, Zenon
<1>3. msg.ccbid \in CCBIDs \cup {None} /\ msg.cookie \in Cookies \cup {None}
  BY <1>2, Zenon DEF Registrations, Results
<1> HIDE DEF msg
<1>4. ASSUME NEW id \in CCBIDs \cup {None}, NEW cookie \in Cookies \cup {None}, ReachGrows
      PROVE  Honest(Reply(conn[c], id, cookie))
  <2>1. Reply(conn[c], id, cookie).toBroker = Tail(conn[c].toBroker)
    BY <1>2, ReplyRegisters, Zenon
  <2> QED BY <1>2, <1>4, <2>1, HonestTail, Zenon
<1>5. CASE Reconnected(c, msg)
  <2> DEFINE existing == {msg.ccbid} \cap DOMAIN m_targets
             q == Reply(conn[c], msg.ccbid, msg.cookie)
  <2>1. /\ client' = HangUp(HungUp(existing))
        /\ conn' = [ShutAll(ConnsOf(existing), "atBroker") EXCEPT ![c] = q]
    BY <1>5, Zenon DEF Reconnected
  <2>2. ReachGrows /\ ToldTruly
    BY <2>1, TablesParts, HangUpType, ClientsSteady, Zenon
  <2>3. Honest(q)
    BY <1>3, <1>4, <2>2, Zenon
  <2> HIDE DEF q, existing
  <2>4. ASSUME NEW d \in Conns PROVE Honest(conn'[d])
    <3>1. conn'[d] \in {q, conn[d], Shut(conn[d], "atBroker")}
      BY <2>1, Zenon DEF ShutAll
    <3>2. Honest(conn[d]) /\ Honest(Shut(conn[d], "atBroker"))
      BY <2>2, HonestSame, HonestShut, Zenon
    <3> QED BY <2>3, <3>1, <3>2, Zenon
  <2> QED BY <2>2, <2>4, AnswersKept, Zenon
<1>6. CASE AddTarget(c, msg)
  <2>1. PICK id \in NextFree(m_next_ccbid, DOMAIN m_reconnect_info \cup DOMAIN m_targets) :
          /\ conn' = [conn EXCEPT ![c] = Reply(conn[c], id, <<boots, id>>)]
          /\ UNCHANGED client
    BY <1>6, Zenon DEF AddTarget
  <2>2. id \in CCBIDs
    BY Zenon DEF NextFree
  <2>3. <<boots, id>> \in Cookies
    BY <2>2, TablesParts, Zenon DEF PeersOK, Cookies, CCBIDs
  <2>4. ReachGrows /\ ToldTruly
    BY <2>1, ClientsSteady, Zenon
  <2>5. Honest(Reply(conn[c], id, <<boots, id>>))
    BY <1>4, <2>2, <2>3, <2>4, Zenon
  <2>6. Becomes(c, Reply(conn[c], id, <<boots, id>>))
    BY <2>1, Zenon DEF Becomes
  <2> QED BY <2>4, <2>5, <2>6, HonestUpdate, AnswersKept, Zenon
<1> QED BY <1>1, <1>5, <1>6, Zenon

(* The broker reads the end of a connection. *)
LEMMA DisconnectAnswers ==
  ASSUME TablesInv, AnswersInv, NEW c \in Conns, TargetDisconnect(c)
  PROVE  AnswersInv'
<1>1. /\ Becomes(c, Shut(conn[c], "atBroker"))
      /\ RemoveTarget(TargetOf(c)) \/ UNCHANGED client
  BY Zenon DEF TargetDisconnect, Becomes
<1>2. ReachGrows /\ ToldTruly
  BY <1>1, TablesParts, HangUpType, ClientsSteady, Zenon DEF RemoveTarget
<1>3. Honest(Shut(conn[c], "atBroker"))
  BY <1>2, HonestShut, Zenon
<1> QED BY <1>1, <1>2, <1>3, HonestUpdate, AnswersKept, Zenon

(* A client asks for a daemon. *)
LEMMA RequestAnswers ==
  ASSUME TablesInv, AnswersInv, NEW p \in Clients, NEW l \in Listeners, HandleRequest(p, l)
  PROVE  AnswersInv'
<1> DEFINE id == listener[l].m_ccbid
           n == m_next_request_id
           m == [cmd |-> "CCB_REQUEST", request |-> n, connect_id |-> p]
<1>1. CASE client' = RequestReply(p, FALSE) /\ UNCHANGED conn
  <2>1. ReachGrows
    BY <1>1, TablesParts, ReplyType, Zenon DEF ReachGrows
  <2>2. ToldTruly
    BY <1>1, TablesParts, ReplyType, Zenon DEF ToldTruly
  <2> QED BY <1>1, <2>1, <2>2, HonestStay, AnswersKept, Zenon
<1>2. CASE /\ id \in DOMAIN m_targets
           /\ client' = [client EXCEPT ![p] = [@ EXCEPT !.state = "waiting", !.want = l]]
           /\ conn' = [conn EXCEPT ![m_targets[id].conn] = Put(@, "toListener", m)]
  <2> DEFINE c == m_targets[id].conn
             q == Put(conn[c], "toListener", m)
  <2>1. c \in Conns /\ conn[c] # None
    BY <1>2, TablesParts, Zenon DEF TargetsAreConnected
  <2>2. conn[c] \in Connections
    BY <2>1, TablesParts, ConnFacts, Zenon
  <2>3. m \in Registrations \cup Requests
    BY TablesParts, Zenon DEF Requests
  <2>4. Becomes(c, q)
    BY <1>2, Zenon DEF Becomes
  <2> HIDE DEF c, m
  <2>5. q.toBroker = conn[c].toBroker
    BY <2>2, <2>3, PutToListener, Zenon
  <2> HIDE DEF q
  <2>6. ReachGrows /\ ToldTruly
    <3>1. \A x \in Clients : client'[x].told = client[x].told /\ client'[x].reached = client[x].reached
      BY <1>2, TablesParts, Zenon DEF ClientTable
    <3> QED BY <3>1, ClientsSteady, Zenon
  <2>7. Honest(q)
    BY <2>1, <2>5, <2>6, HonestSame, Zenon
  <2> QED BY <2>1, <2>4, <2>6, <2>7, HonestUpdate, AnswersKept, Zenon
<1> QED BY <1>1, <1>2, Zenon DEF HandleRequest

(* A client leaves. *)
LEMMA LeaveAnswers ==
  ASSUME TablesInv, AnswersInv, NEW r \in DOMAIN m_requests, HandleRequestDisconnect(r)
  PROVE  AnswersInv'
<1>1. client' = [client EXCEPT ![m_requests[r].client].state = "left"] /\ UNCHANGED conn
  BY Zenon DEF HandleRequestDisconnect
<1>2. \A p \in Clients : client'[p].told = client[p].told /\ client'[p].reached = client[p].reached
  BY <1>1, TablesParts, Zenon DEF ClientTable
<1> QED BY <1>1, <1>2, ClientsSteady, HonestStay, AnswersKept, Zenon

(* The broker dies. *)
LEMMA CrashAnswers ==
  ASSUME TablesInv, AnswersInv, Crash
  PROVE  AnswersInv'
<1>1. /\ client' = HangUp({p \in Clients : client[p].state = "waiting"})
      /\ conn' = ShutAll({c \in Conns : ~Free(c)}, "atBroker")
  BY Zenon DEF Crash
<1>2. ReachGrows /\ ToldTruly
  BY <1>1, TablesParts, HangUpType, ClientsSteady, Zenon
<1>3. ASSUME NEW d \in Conns PROVE Honest(conn'[d])
  <2>1. conn'[d] \in {conn[d], Shut(conn[d], "atBroker")}
    BY <1>1, Zenon DEF ShutAll
  <2>2. Honest(conn[d]) /\ Honest(Shut(conn[d], "atBroker"))
    BY <1>2, HonestSame, HonestShut, Zenon
  <2> QED BY <2>1, <2>2, Zenon
<1> QED BY <1>2, <1>3, AnswersKept, Zenon

(* A connection is cut: nothing is under way any more. *)
LEMMA CutAnswers ==
  ASSUME TablesInv, AnswersInv, NEW c \in Conns, Cut(c)
  PROVE  AnswersInv'
<1> DEFINE q == [conn[c] EXCEPT !.cut = TRUE, !.toBroker = <<>>, !.toListener = <<>>]
<1>1. conn[c] # None /\ Becomes(c, q) /\ UNCHANGED client
  BY Zenon DEF Cut, Free, Becomes
<1>2. conn[c] \in Connections
  BY <1>1, TablesParts, ConnFacts, Zenon
<1>3. q.toBroker = <<>>
  BY <1>2, CutLoses, Zenon
<1> HIDE DEF q
<1>4. Honest(q)
  <2>1. Len(q.toBroker) = 0
    BY <1>3
  <2> QED BY <2>1 DEF Honest
<1> QED BY <1>1, <1>4, ClientsSteady, HonestUpdate, AnswersKept, Zenon

(* A reversed connection succeeds, or not, and is reported. *)
LEMMA ReverseAnswers ==
  ASSUME TablesInv, AnswersInv, NEW v \in reversing, NEW success \in BOOLEAN,
         ReverseConnected(v, success)
  PROVE  AnswersInv'
<1> DEFINE l == v.l
           c == listener[l].sock
           m == [cmd |-> "CCB_RESULT", request |-> v.request, connect_id |-> v.connect_id,
                 success |-> success]
           q == Put(conn[c], "toBroker", m)
<1>1. l \in Listeners /\ v.connect_id \in Clients /\ m \in Results
  BY ListenerParts, Zenon DEF Results
<1>2. /\ client' = IF success THEN [client EXCEPT ![v.connect_id].reached = @ \cup {l}] ELSE client
      /\ conn' = IF c = None THEN conn ELSE [conn EXCEPT ![c] = q]
  BY Zenon DEF ReverseConnected
<1>3. /\ ReachGrows /\ ToldTruly
      /\ success => client'[v.connect_id].reached # {}
  <2>1. CASE success
    <3>1. /\ \A p \in Clients : client'[p].told = client[p].told
          /\ \A p \in Clients : client[p].reached \subseteq client'[p].reached
          /\ l \in client'[v.connect_id].reached
      BY <1>1, <1>2, <2>1, TablesParts DEF ClientTable
    <3> QED BY <3>1, Zenon DEF ReachGrows, ToldTruly
  <2>2. CASE ~success
    BY <1>2, <2>2, ClientsSteady, Zenon
  <2> QED BY <2>1, <2>2, Zenon
<1>4. m.connect_id = v.connect_id /\ m.success = success
  BY Zenon
<1> HIDE DEF l, m
<1>5. CASE c = None
  BY <1>2, <1>3, <1>5, HonestStay, AnswersKept, Zenon
<1>6. CASE c # None
  <2>1. c \in Conns /\ conn[c] # None /\ conn[c] \in Connections
    BY <1>1, <1>6, SockFacts, Zenon
  <2>2. Becomes(c, q)
    BY <1>2, <1>6, Zenon DEF Becomes
  <2>3. q.toBroker = conn[c].toBroker \/ q.toBroker = Append(conn[c].toBroker, m)
    BY <1>1, <2>1, PutToBroker, Zenon
  <2> HIDE DEF c, q
  <2>4. Honest(conn[c])
    BY <1>3, <2>1, HonestSame, Zenon
  <2>5. Honest(q)
    <3> DEFINE b == conn[c].toBroker
               T == Registrations \cup Results
    <3>1. b \in Seq(T) /\ m \in T
      BY <1>1, <2>1, ToBroker, Zenon
    <3>2. ASSUME NEW i \in 1 .. Len(b)
          PROVE  b[i].cmd = "CCB_RESULT" /\ b[i].success => client'[b[i].connect_id].reached # {}
      BY <2>1, <2>4, Zenon DEF Honest
    <3> HIDE DEF b, T
    <3>3. CASE q.toBroker = Append(b, m)
      <4>1. /\ Len(b) \in Nat /\ Len(q.toBroker) = Len(b) + 1
            /\ \A i \in 1 .. Len(b) : q.toBroker[i] = b[i]
            /\ q.toBroker[Len(b) + 1] = m
        BY <3>1, <3>3
      <4>2. ASSUME NEW i \in 1 .. Len(q.toBroker),
                   q.toBroker[i].cmd = "CCB_RESULT", q.toBroker[i].success
            PROVE  client'[q.toBroker[i].connect_id].reached # {}
        <5>1. CASE i \in 1 .. Len(b)
          BY <3>2, <4>1, <4>2, <5>1, Zenon
        <5>2. CASE i = Len(b) + 1
          BY <1>3, <1>4, <4>1, <4>2, <5>2, Zenon
        <5> QED BY <4>1, <5>1, <5>2
      <4> QED BY <4>2, Zenon DEF Honest
    <3>4. CASE q.toBroker = b
      BY <3>2, <3>4, Zenon DEF Honest
    <3> QED BY <2>3, <3>3, <3>4, Zenon DEF b
  <2> QED BY <1>3, <2>1, <2>2, <2>5, HonestUpdate, AnswersKept, Zenon
<1> QED BY <1>5, <1>6, Zenon

(* What a daemon does. *)
LEMMA DaemonAnswers ==
  ASSUME TablesInv, AnswersInv, NEW l \in Listeners, Daemon(l) \/ Move(l)
  PROVE  AnswersInv'
<1> DEFINE c == listener[l].sock
           m == [cmd |-> "CCB_REGISTER", ccbid |-> listener[l].m_ccbid, cookie |-> listener[l].m_cookie]
<1>1. UNCHANGED client
  BY Zenon DEF Daemon, Move, ReconnectTime, CCBConnectCallback, ReadMsgFromCCB, ListenerDisconnect,
         HeartbeatTime, Hangup, DaemonStep
<1>2. ReachGrows /\ ToldTruly
  BY <1>1, ClientsSteady, Zenon
<1>3. CASE UNCHANGED conn
  BY <1>2, <1>3, HonestStay, AnswersKept, Zenon
<1>4. CASE \E d \in Conns : conn' = [conn EXCEPT ![d] = Put(Open(l), "toBroker", m)]
  <2>1. PICK d \in Conns : Becomes(d, Put(Open(l), "toBroker", m))
    BY <1>4, Zenon DEF Becomes
  <2>2. m \in Registrations /\ m.cmd = "CCB_REGISTER"
    BY ListenerParts, Zenon DEF ListenerRecord, Registrations
  <2> DEFINE q == Put(Open(l), "toBroker", m)
  <2> HIDE DEF m
  <2>3. q.toBroker = <<m>>
    BY <2>2, TablesParts, OpenRegisters, Zenon
  <2> HIDE DEF q
  <2>4. Honest(q)
    <3>1. Len(q.toBroker) = 1 /\ q.toBroker[1] = m
      BY <2>3
    <3> QED BY <2>2, <3>1 DEF Honest
  <2> QED BY <1>2, <2>1, <2>4, HonestUpdate, AnswersKept, Zenon DEF q
<1>5. CASE ReadMsgFromCCB(l)
  <2> DEFINE q == [conn[c] EXCEPT !.toListener = Tail(@)]
  <2>1. /\ c # None /\ conn[c].toListener # <<>>
        /\ conn' = [conn EXCEPT ![c].toListener = Tail(@)]
    BY <1>5, Zenon DEF ReadMsgFromCCB, Sock
  <2>2. c \in Conns /\ conn[c] # None /\ conn[c] \in Connections
    BY <2>1, SockFacts, Zenon
  <2>3. Becomes(c, q)
    BY <2>1, Zenon DEF Becomes
  <2> HIDE DEF c
  <2>4. q.toBroker = conn[c].toBroker
    BY <2>1, <2>2, TailToListener, Zenon
  <2> HIDE DEF q
  <2>5. Honest(q)
    BY <1>2, <2>2, <2>4, HonestSame, Zenon
  <2> QED BY <1>2, <2>2, <2>3, <2>5, HonestUpdate, AnswersKept, Zenon
<1>6. CASE c # None /\ Hangup(l)
  <2>1. Becomes(c, Shut(conn[c], "atListener"))
    BY <1>6, Zenon DEF Hangup, Becomes
  <2>2. c \in Conns
    BY <1>6, SockFacts, Zenon
  <2> HIDE DEF c
  <2>3. Honest(Shut(conn[c], "atListener"))
    BY <1>2, <2>2, HonestShut, Zenon
  <2> QED BY <1>2, <2>1, <2>2, <2>3, HonestUpdate, AnswersKept, Zenon
<1> QED BY <1>3, <1>4, <1>5, <1>6, Zenon
     DEF Daemon, Move, ReconnectTime, CCBConnectCallback, ListenerDisconnect, HeartbeatTime

(* At the start nobody has been told anything. *)
LEMMA InitAnswers == Init => AnswersInv
BY CCBAssumption DEF Init, AnswersInv, SuccessReached, ReportsAreTrue

(* Every step keeps the answers true. *)
LEMMA NextAnswers == TablesInv /\ AnswersInv /\ [Next]_vars => AnswersInv'
<1> SUFFICES ASSUME TablesInv, AnswersInv, [Next]_vars PROVE AnswersInv'
  BY Zenon
<1>1. ASSUME NEW c \in Conns, Receive(c) PROVE AnswersInv'
  BY <1>1, RegistrationAnswers, ResultsAnswers, DisconnectAnswers, Zenon DEF Receive
<1>2. ASSUME NEW p \in Clients, NEW l \in Listeners, HandleRequest(p, l) PROVE AnswersInv'
  BY <1>2, RequestAnswers, Zenon
<1>3. ASSUME NEW r \in DOMAIN m_requests, HandleRequestDisconnect(r) PROVE AnswersInv'
  BY <1>3, LeaveAnswers, Zenon
<1>4. CASE Poll \/ SweepReconnectInfo \/ InitAndReconfig \/ UNCHANGED vars
  <2>1. UNCHANGED client /\ UNCHANGED conn
    BY <1>4, Zenon DEF Poll, SweepReconnectInfo, InitAndReconfig, vars
  <2> QED BY <2>1, ClientsSteady, HonestStay, AnswersKept, Zenon
<1>5. ASSUME NEW l \in Listeners, Daemon(l) \/ Move(l) PROVE AnswersInv'
  BY <1>5, DaemonAnswers, Zenon
<1>6. ASSUME NEW v \in reversing, NEW success \in BOOLEAN, ReverseConnected(v, success)
      PROVE  AnswersInv'
  BY <1>6, ReverseAnswers, Zenon
<1>7. CASE Crash
  BY <1>7, CrashAnswers, Zenon
<1>8. ASSUME NEW c \in Conns, Cut(c) PROVE AnswersInv'
  BY <1>8, CutAnswers, Zenon
<1> QED BY <1>1, <1>2, <1>3, <1>4, <1>5, <1>6, <1>7, <1>8, Zenon DEF Next, Broker

-----------------------------------------------------------------------------
(* What is said on a connection. *)

(* A registration that names the id i, or a request for the client p, is among
   the messages s. *)
Named(s, i) == \E n \in 1 .. Len(s) : s[n].cmd = "CCB_REGISTER" /\ s[n].ccbid = i
Asked(s, p) == \E n \in 1 .. Len(s) : s[n].cmd = "CCB_REQUEST" /\ s[n].connect_id = p

(* On the connection k the daemon says, or is told, that its id is i; it is
   asked to connect to p. *)
Says(k, i) == Named(k.toBroker, i) \/ Named(k.toListener, i)
Asks(k, p) == Asked(k.toListener, p)

(* Connection k goes on as q, on which no more is said. *)
Hushed(k, q) ==
  q # None =>
    /\ k # None
    /\ q.l = k.l
    /\ \A i : Says(q, i) => Says(k, i)
    /\ \A p : Asks(q, p) => Asks(k, p)

(* What is under way is made of messages. *)
LEMMA ToListener ==
  ASSUME NEW k \in Connections
  PROVE  k.toListener \in Seq(Registrations \cup Requests)
BY Zenon DEF Connections

(* Reading a message leaves the others. *)
LEMMA TailSaysLess ==
  ASSUME NEW T, NEW s \in Seq(T), s # <<>>
  PROVE  /\ \A i : Named(Tail(s), i) => Named(s, i)
         /\ \A p : Asked(Tail(s), p) => Asked(s, p)
<1>1. Len(s) \in Nat /\ Len(Tail(s)) = Len(s) - 1
  OBVIOUS
<1>2. \A n \in 1 .. Len(Tail(s)) : Tail(s)[n] = s[n + 1]
  BY TailFacts, Zenon
<1>3. \A n \in 1 .. Len(Tail(s)) : n + 1 \in 1 .. Len(s)
  BY <1>1
<1> QED BY <1>2, <1>3, Zenon DEF Named, Asked

(* A message is added to those under way. *)
LEMMA AppendSays ==
  ASSUME NEW T, NEW s \in Seq(T), NEW m \in T
  PROVE  LET t == Append(s, m)
         IN  /\ \A i : Named(t, i) => Named(s, i) \/ (m.cmd = "CCB_REGISTER" /\ m.ccbid = i)
             /\ \A p : Asked(t, p) => Asked(s, p) \/ (m.cmd = "CCB_REQUEST" /\ m.connect_id = p)
<1> DEFINE t == Append(s, m)
<1>1. Len(s) \in Nat /\ Len(t) = Len(s) + 1
  OBVIOUS
<1>2. (\A n \in 1 .. Len(s) : t[n] = s[n]) /\ t[Len(s) + 1] = m
  OBVIOUS
<1>3. \A n \in 1 .. Len(t) : n \in 1 .. Len(s) \/ n = Len(s) + 1
  BY <1>1
<1> HIDE DEF t
<1>4. /\ \A i : Named(t, i) => Named(s, i) \/ (m.cmd = "CCB_REGISTER" /\ m.ccbid = i)
      /\ \A p : Asked(t, p) => Asked(s, p) \/ (m.cmd = "CCB_REQUEST" /\ m.connect_id = p)
  BY <1>2, <1>3, Zenon DEF Named, Asked
<1> QED BY <1>4, Zenon DEF t

(* No message says nothing. *)
LEMMA EmptySays ==
  /\ \A i : ~Named(<<>>, i)
  /\ \A p : ~Asked(<<>>, p)
<1>1. Len(<<>>) = 0
  OBVIOUS
<1>2. 1 .. Len(<<>>) = {}
  BY <1>1
<1> QED BY <1>2, Zenon DEF Named, Asked

(* A connection on which nothing happens. *)
LEMMA HushedSame ==
  ASSUME NEW k
  PROVE  Hushed(k, k)
BY Zenon DEF Hushed

(* An end is closed. *)
LEMMA HushedShut ==
  ASSUME NEW k \in Connections, NEW end \in {"atBroker", "atListener"}
  PROVE  Hushed(k, Shut(k, end))
<1> k # None
  BY CCBAssumption, Zenon
<1> DEFINE s == [k EXCEPT ![end] = FALSE]
<1>1. s.l = k.l /\ s.toBroker = k.toBroker /\ s.toListener = k.toListener
  BY Zenon DEF Connections
<1>2. Shut(k, end) \in {s, None}
  BY Zenon DEF Shut
<1> HIDE DEF s
<1> QED BY <1>1, <1>2, Zenon DEF Hushed, Says, Asks

(* The broker reads a message. *)
LEMMA HushedTailToBroker ==
  ASSUME NEW k \in Connections, k.toBroker # <<>>
  PROVE  Hushed(k, [k EXCEPT !.toBroker = Tail(@)])
<1> k # None
  BY CCBAssumption, Zenon
<1> DEFINE q == [k EXCEPT !.toBroker = Tail(@)]
<1>1. q.l = k.l /\ q.toBroker = Tail(k.toBroker) /\ q.toListener = k.toListener
  BY Zenon DEF Connections
<1>2. \A i : Named(Tail(k.toBroker), i) => Named(k.toBroker, i)
  BY ToBroker, TailSaysLess, Zenon
<1> HIDE DEF q
<1>3. Hushed(k, q)
  BY <1>1, <1>2, Zenon DEF Hushed, Says, Asks
<1> QED BY <1>3, Zenon DEF q

(* The daemon reads a message. *)
LEMMA HushedTailToListener ==
  ASSUME NEW k \in Connections, k.toListener # <<>>
  PROVE  Hushed(k, [k EXCEPT !.toListener = Tail(@)])
<1> k # None
  BY CCBAssumption, Zenon
<1> DEFINE q == [k EXCEPT !.toListener = Tail(@)]
<1>1. q.l = k.l /\ q.toListener = Tail(k.toListener) /\ q.toBroker = k.toBroker
  BY Zenon DEF Connections
<1>2. /\ \A i : Named(Tail(k.toListener), i) => Named(k.toListener, i)
      /\ \A p : Asked(Tail(k.toListener), p) => Asked(k.toListener, p)
  BY ToListener, TailSaysLess, Zenon
<1> HIDE DEF q
<1>3. Hushed(k, q)
  BY <1>1, <1>2, Zenon DEF Hushed, Says, Asks
<1> QED BY <1>3, Zenon DEF q

(* A report is sent to the broker. *)
LEMMA HushedReport ==
  ASSUME NEW k \in Connections, NEW m \in Results
  PROVE  Hushed(k, Put(k, "toBroker", m))
<1> k # None
  BY CCBAssumption, Zenon
<1> DEFINE q == [k EXCEPT !.toBroker = Append(@, m)]
<1>1. q.l = k.l /\ q.toBroker = Append(k.toBroker, m) /\ q.toListener = k.toListener
  BY Zenon DEF Connections
<1>2. m.cmd = "CCB_RESULT" /\ m \in Registrations \cup Results
  BY Zenon DEF Results
<1>3. m.cmd # "CCB_REGISTER"
  BY <1>2
<1>4. \A i : Named(Append(k.toBroker, m), i) => Named(k.toBroker, i)
  BY <1>2, <1>3, ToBroker, AppendSays, Zenon
<1>5. Put(k, "toBroker", m) \in {k, q}
  BY Zenon DEF Put
<1> HIDE DEF q
<1>6. Hushed(k, q) /\ Hushed(k, k)
  BY <1>1, <1>4, Zenon DEF Hushed, Says, Asks
<1> QED BY <1>5, <1>6, Zenon

(* A request is sent to the daemon. *)
LEMMA RequestSays ==
  ASSUME NEW k \in Connections, NEW m \in Requests
  PROVE  LET q == Put(k, "toListener", m)
         IN  /\ q.l = k.l
             /\ \A i : Says(q, i) => Says(k, i)
             /\ \A p : Asks(q, p) => Asks(k, p) \/ p = m.connect_id
<1> DEFINE q == [k EXCEPT !.toListener = Append(@, m)]
<1>1. q.l = k.l /\ q.toListener = Append(k.toListener, m) /\ q.toBroker = k.toBroker
  BY Zenon DEF Connections
<1>2. m.cmd = "CCB_REQUEST" /\ m \in Registrations \cup Requests
  BY Zenon DEF Requests
<1>3. m.cmd # "CCB_REGISTER"
  BY <1>2
<1>4. /\ \A i : Named(Append(k.toListener, m), i) => Named(k.toListener, i)
      /\ \A p : Asked(Append(k.toListener, m), p) => Asked(k.toListener, p) \/ p = m.connect_id
  BY <1>2, <1>3, ToListener, AppendSays, Zenon
<1>5. Put(k, "toListener", m) \in {k, q}
  BY Zenon DEF Put
<1> HIDE DEF q
<1> QED BY <1>1, <1>4, <1>5, Zenon DEF Says, Asks

(* A registration is answered with an id. *)
LEMMA ReplySays ==
  ASSUME NEW k \in Connections, k.toBroker # <<>>,
         NEW id \in CCBIDs \cup {None}, NEW cookie \in Cookies \cup {None}
  PROVE  LET q == Reply(k, id, cookie)
         IN  /\ q.l = k.l
             /\ \A i : Says(q, i) => Says(k, i) \/ i = id
             /\ \A p : Asks(q, p) => Asks(k, p)
<1> DEFINE m == [cmd |-> "CCB_REGISTER", ccbid |-> id, cookie |-> cookie]
           t == [k EXCEPT !.toBroker = Tail(@)]
           q == [t EXCEPT !.toListener = Append(@, m)]
<1>1. m.cmd = "CCB_REGISTER" /\ m.ccbid = id /\ m \in Registrations \cup Requests
  BY Zenon DEF Registrations
<1>2. m.cmd # "CCB_REQUEST"
  BY <1>1
<1>3. t \in Connections /\ Hushed(k, t)
  BY TailToBroker, HushedTailToBroker, Zenon DEF SameEnds
<1>4. Reply(k, id, cookie) \in {t, q}
  BY Zenon DEF Reply, Put
<1> HIDE DEF t, m
<1>5. t # None
  BY <1>3, CCBAssumption, Zenon
<1>6. q.l = t.l /\ q.toListener = Append(t.toListener, m) /\ q.toBroker = t.toBroker
  BY <1>3, Zenon DEF Connections
<1>7. /\ \A i : Named(Append(t.toListener, m), i) => Named(t.toListener, i) \/ i = id
      /\ \A p : Asked(Append(t.toListener, m), p) => Asked(t.toListener, p)
  <2> DEFINE s == t.toListener
             T == Registrations \cup Requests
  <2>1. s \in Seq(T) /\ m \in T
    BY <1>1, <1>3, ToListener, Zenon
  <2> HIDE DEF s, T
  <2>2. /\ \A i : Named(Append(s, m), i) => Named(s, i) \/ (m.cmd = "CCB_REGISTER" /\ m.ccbid = i)
        /\ \A p : Asked(Append(s, m), p) => Asked(s, p) \/ (m.cmd = "CCB_REQUEST" /\ m.connect_id = p)
    BY <2>1, AppendSays, Zenon
  <2> QED BY <1>1, <1>2, <2>2, Zenon DEF s
<1> HIDE DEF q
<1>8. /\ \A i : Says(q, i) => Says(t, i) \/ i = id
      /\ \A p : Asks(q, p) => Asks(t, p)
  BY <1>6, <1>7, Zenon DEF Says, Asks
<1> DEFINE r == Reply(k, id, cookie)
<1>9. r = t \/ r = q
  BY <1>4, Zenon
<1> HIDE DEF r
<1>10. /\ r.l = k.l
       /\ \A i : Says(r, i) => Says(k, i) \/ i = id
       /\ \A p : Asks(r, p) => Asks(k, p)
  BY <1>3, <1>5, <1>6, <1>8, <1>9, Zenon DEF Hushed
<1> QED BY <1>10, Zenon DEF r

(* A daemon connects and says the id that it has. *)
LEMMA OpenSays ==
  ASSUME PeersOK, NEW l \in Listeners, NEW m \in Registrations
  PROVE  LET q == Put(Open(l), "toBroker", m)
         IN  /\ q.l = l
             /\ \A i : Says(q, i) => i = m.ccbid
             /\ \A p : ~Asks(q, p)
<1> DEFINE q == Put(Open(l), "toBroker", m)
<1>1. q.l = l /\ q.toBroker = <<m>>
  BY OpenRegisters, Zenon
<1>2. q.toListener = <<>>
  BY Zenon DEF Put, Open
<1> HIDE DEF q
<1>3. Len(<<m>>) = 1 /\ <<m>>[1] = m
  OBVIOUS
<1>4. \A i : Named(<<m>>, i) => i = m.ccbid
  BY <1>3 DEF Named
<1>5. /\ \A i : Says(q, i) => i = m.ccbid
      /\ \A p : ~Asks(q, p)
  BY <1>1, <1>2, <1>4, EmptySays, Zenon DEF Says, Asks
<1> QED BY <1>1, <1>5, Zenon DEF q

(* A connection that is cut. *)
LEMMA HushedCut ==
  ASSUME NEW k \in Connections
  PROVE  Hushed(k, [k EXCEPT !.cut = TRUE, !.toBroker = <<>>, !.toListener = <<>>])
<1> k # None
  BY CCBAssumption, Zenon
<1> DEFINE q == [k EXCEPT !.cut = TRUE, !.toBroker = <<>>, !.toListener = <<>>]
<1>1. q.l = k.l /\ q.toBroker = <<>> /\ q.toListener = <<>>
  BY Zenon DEF Connections
<1> HIDE DEF q
<1>2. Hushed(k, q)
  BY <1>1, EmptySays, Zenon DEF Hushed, Says, Asks
<1> QED BY <1>2, Zenon DEF q

-----------------------------------------------------------------------------
(* The ids that are given. *)

(* Where loading the file would leave the next id, before the jump. *)
PastDisk == IF disk = None THEN 1 ELSE PastLines(disk)

(* No id from here on has been given, as long as nothing was pruned. *)
IdFloor == IF up THEN m_next_ccbid ELSE Jump + PastDisk

(* The records hold ids that were given; those that are not flushed hold the
   last ones, one after the other, and a restart jumps over them. *)
IdsCounted ==
  /\ \A i \in DOMAIN m_reconnect_info : i < m_next_ccbid
  /\ Len(buffer) <= MaxUnflushed
  /\ disk = None \/ ~up => buffer = <<>>
  /\ \A k \in 1 .. Len(buffer) : buffer[k].ccbid = m_next_ccbid - Len(buffer) + k - 1
  /\ up /\ committed => m_next_ccbid <= PastDisk + 1 + Len(buffer)
  /\ up /\ ~committed /\ buffer = <<>> => m_next_ccbid <= Jump + PastDisk

(* What a step may do to them: ids are not given again. *)
FloorHolds ==
  /\ IdsCounted'
  /\ IdFloor \in Nat /\ IdFloor' \in Nat
  /\ disk # None => disk' # None /\ IdFloor <= IdFloor'

-----------------------------------------------------------------------------
(* Whose the ids are, and whom the clients want. *)

(* The connection of the target i is c. *)
TargetAt(i, c) == i \in DOMAIN m_targets /\ m_targets[i].conn = c

(* The daemon l believes that its id is i, or says so, or is told so, or is
   the target i. *)
Claims(i, l) ==
  \/ listener[l].m_ccbid = i
  \/ \E c \in Conns : /\ conn[c] # None /\ conn[c].l = l
                      /\ Says(conn[c], i) \/ TargetAt(i, c)

(* Only one daemon does, and the id was given. *)
IdsOwned == \A i \in CCBIDs : \A k, l \in Listeners : Claims(i, k) /\ Claims(i, l) => k = l
IdsGiven == \A i \in CCBIDs, l \in Listeners : Claims(i, l) => disk # None /\ i < IdFloor

(* The client p has asked for the daemon l. *)
Wants(p, l) == client[p].want = l /\ client[p].state # "idle"

(* Only the daemon that a client wants is asked, or on its way, to connect to
   it, or has done so. *)
WantsInv ==
  /\ \A c \in Conns, p \in Clients : conn[c] # None /\ Asks(conn[c], p) => Wants(p, conn[c].l)
  /\ \A v \in reversing : Wants(v.connect_id, v.l)
  /\ \A p \in Clients : /\ client[p].reached \subseteq {client[p].want}
                        /\ client[p].state = "idle" => client[p].reached = {}

OwnersInv == IdsOwned /\ IdsGiven /\ WantsInv

(* What a step may do: no daemon claims another id, no daemon is asked to
   connect to another client, and the clients go on. *)
FewerClaims == \A i \in CCBIDs, l \in Listeners : Claims(i, l)' => Claims(i, l)

FewerAsks ==
  \A c \in Conns, p \in Clients :
    conn'[c] # None /\ Asks(conn'[c], p) => conn[c] # None /\ conn'[c].l = conn[c].l /\ Asks(conn[c], p)

ClientsOn ==
  \A p \in Clients : /\ client'[p].want = client[p].want
                     /\ client'[p].reached = client[p].reached
                     /\ client[p].state # "idle" => client'[p].state # "idle"

SameIds == \A l \in Listeners : listener'[l].m_ccbid = listener[l].m_ccbid
AllHushed == \A c \in Conns : Hushed(conn[c], conn'[c])
TargetsFewer ==
  \A i \in DOMAIN m_targets' : i \in DOMAIN m_targets /\ m_targets'[i].conn = m_targets[i].conn

(* The ids that were given stay so. *)
LEMMA OwnersKept ==
  ASSUME FloorHolds, IdsOwned, IdsGiven, FewerClaims
  PROVE  IdsOwned' /\ IdsGiven'
<1>1. IdsOwned'
  BY Zenon DEF IdsOwned, FewerClaims
<1>2. ASSUME NEW i \in CCBIDs, NEW l \in Listeners, Claims(i, l)' PROVE disk' # None /\ i < IdFloor'
  <2>1. disk # None /\ i < IdFloor
    BY <1>2, Zenon DEF IdsGiven, FewerClaims
  <2>2. disk' # None /\ IdFloor <= IdFloor' /\ IdFloor \in Nat /\ IdFloor' \in Nat
    BY <2>1, Zenon DEF FloorHolds
  <2>3. i < IdFloor'
    BY <2>1, <2>2 DEF CCBIDs
  <2> QED BY <2>2, <2>3, Zenon
<1>3. IdsGiven'
  BY <1>2, Zenon DEF IdsGiven
<1> QED BY <1>1, <1>3, Zenon

(* The clients get whom they want. *)
LEMMA WantsKept ==
  ASSUME TablesInv, WantsInv, ClientsOn, FewerAsks, reversing' \subseteq reversing
  PROVE  WantsInv'
<1>1. ASSUME NEW p \in Clients, NEW l \in Listeners, Wants(p, l)
      PROVE  client'[p].want = l /\ client'[p].state # "idle"
  BY <1>1, Zenon DEF Wants, ClientsOn
<1>2. \A c \in Conns : conn[c] # None => conn[c].l \in Listeners
  BY TablesParts, Zenon DEF Connections
<1>3. \A v \in reversing : v.connect_id \in Clients /\ v.l \in Listeners
  BY ListenerParts, Zenon
<1>4. ASSUME NEW c \in Conns, NEW p \in Clients, conn'[c] # None, Asks(conn'[c], p)
      PROVE  client'[p].want = conn'[c].l /\ client'[p].state # "idle"
  <2>1. conn[c] # None /\ conn'[c].l = conn[c].l /\ Asks(conn[c], p)
    BY <1>4, Zenon DEF FewerAsks
  <2>2. Wants(p, conn[c].l) /\ conn[c].l \in Listeners
    BY <1>2, <2>1, Zenon DEF WantsInv
  <2> QED BY <1>1, <2>1, <2>2, Zenon
<1>5. \A v \in reversing' : client'[v.connect_id].want = v.l /\ client'[v.connect_id].state # "idle"
  BY <1>1, <1>3, Zenon DEF WantsInv
<1>6. \A p \in Clients : /\ client'[p].reached \subseteq {client'[p].want}
                         /\ client'[p].state = "idle" => client'[p].reached = {}
  BY Zenon DEF WantsInv, ClientsOn
<1> QED BY <1>4, <1>5, <1>6, Zenon DEF WantsInv, Wants

(* No more is said, and no target is added. *)
LEMMA HushedClaims ==
  ASSUME SameIds, AllHushed, TargetsFewer
  PROVE  FewerClaims /\ FewerAsks
<1>1. \A i, c : TargetAt(i, c)' => TargetAt(i, c)
  BY Zenon DEF TargetsFewer, TargetAt
<1>2. ASSUME NEW i \in CCBIDs, NEW l \in Listeners, Claims(i, l)' PROVE Claims(i, l)
  <2>1. CASE listener'[l].m_ccbid = i
    BY <2>1, Zenon DEF Claims, SameIds
  <2>2. CASE \E c \in Conns : /\ conn'[c] # None /\ conn'[c].l = l
                              /\ Says(conn'[c], i) \/ TargetAt(i, c)'
    BY <1>1, <2>2, Zenon DEF Claims, AllHushed, Hushed
  <2> QED BY <1>2, <2>1, <2>2, Zenon DEF Claims, Says, TargetAt
<1>3. FewerAsks
  BY Zenon DEF FewerAsks, AllHushed, Hushed
<1> QED BY <1>2, <1>3, Zenon DEF FewerClaims

(* A step that adds nothing. *)
LEMMA QuietStep ==
  ASSUME TablesInv, OwnersInv, FloorHolds, SameIds, AllHushed, TargetsFewer, ClientsOn,
         reversing' \subseteq reversing
  PROVE  OwnersInv'
BY HushedClaims, OwnersKept, WantsKept, Zenon DEF OwnersInv

(* One connection goes on with less. *)
LEMMA OneHushed ==
  ASSUME TablesInv, NEW c \in Conns, NEW q, Becomes(c, q), Hushed(conn[c], q)
  PROVE  AllHushed
<1>1. ASSUME NEW d \in Conns PROVE Hushed(conn[d], conn'[d])
  <2>1. CASE d = c
    <3>1. conn'[d] = q
      BY <2>1, TablesParts, Zenon DEF Becomes
    <3> QED BY <2>1, <3>1, Zenon
  <2>2. CASE d # c
    <3>1. conn'[d] = conn[d]
      BY <2>2, TablesParts, Zenon DEF Becomes
    <3> QED BY <3>1, HushedSame, Zenon
  <2> QED BY <2>1, <2>2, Zenon
<1> QED BY <1>1, Zenon DEF AllHushed

(* Connections are closed, or stay. *)
LEMMA ShutHushed ==
  ASSUME TablesInv, NEW end \in {"atBroker", "atListener"},
         \A d \in Conns : conn'[d] = conn[d] \/ conn'[d] = Shut(conn[d], end)
  PROVE  AllHushed
<1>1. ASSUME NEW d \in Conns PROVE Hushed(conn[d], conn'[d])
  <2>1. CASE conn'[d] = conn[d]
    BY <2>1, HushedSame, Zenon
  <2>2. CASE conn[d] # None /\ conn'[d] = Shut(conn[d], end)
    BY <2>2, TablesParts, HushedShut, Zenon
  <2>3. CASE conn[d] = None /\ conn'[d] = Shut(conn[d], end)
    <3>1. conn'[d] = None
      BY <2>3, Zenon DEF Shut
    <3> QED BY <3>1, Zenon DEF Hushed
  <2> QED BY <2>1, <2>2, <2>3, Zenon
<1> QED BY <1>1, Zenon DEF AllHushed

(* Targets are removed, or lose requests. *)
LEMMA TargetsLess ==
  ASSUME \/ \E id : m_targets' = Without(m_targets, {id})
         \/ \E r : m_targets' = TargetsWithout(r)
         \/ UNCHANGED m_targets
  PROVE  TargetsFewer
<1>1. ASSUME NEW id, m_targets' = Without(m_targets, {id}) PROVE TargetsFewer
  <2>1. m_targets' = [i \in DOMAIN m_targets \ {id} |-> m_targets[i]]
    BY <1>1, Zenon DEF Without, Restrict
  <2>2. /\ DOMAIN m_targets' = DOMAIN m_targets \ {id}
        /\ \A i \in DOMAIN m_targets \ {id} : m_targets'[i] = m_targets[i]
    BY <2>1
  <2>3. \A i \in DOMAIN m_targets' : i \in DOMAIN m_targets /\ m_targets'[i] = m_targets[i]
    BY <2>2, Zenon
  <2> QED BY <2>3, Zenon DEF TargetsFewer
<1>2. ASSUME NEW r, m_targets' = TargetsWithout(r) PROVE TargetsFewer
  <2> DEFINE id == m_requests[r].target
  <2>1. m_targets' = [m_targets EXCEPT ![id] = [m_targets[id] EXCEPT !.requests = @ \ {r}]]
    BY <1>2, Zenon DEF TargetsWithout
  <2> HIDE DEF id
  <2>2. DOMAIN m_targets' = DOMAIN m_targets
    BY <2>1, Zenon
  <2>3. ASSUME NEW i \in DOMAIN m_targets PROVE m_targets'[i].conn = m_targets[i].conn
    BY <2>1, <2>3
  <2> QED BY <2>2, <2>3, Zenon DEF TargetsFewer
<1>3. UNCHANGED m_targets => TargetsFewer
  BY Zenon DEF TargetsFewer
<1> QED BY <1>1, <1>2, <1>3, Zenon

(* Clients are hung up on, or are told. *)
LEMMA HangUpOn ==
  ASSUME client \in ClientTable, NEW cs, client' = HangUp(cs)
  PROVE  ClientsOn
BY DEF ClientTable, HangUp, ClientsOn

LEMMA ReplyOn ==
  ASSUME client \in ClientTable, NEW p \in Clients, NEW success, client' = RequestReply(p, success)
  PROVE  ClientsOn
<1> DEFINE told == IF success THEN "success" ELSE "failure"
           x == [client[p] EXCEPT !.state = "told", !.told = told]
<1>1. client' = [client EXCEPT ![p] = x]
  BY Zenon DEF RequestReply
<1>2. x.want = client[p].want /\ x.reached = client[p].reached /\ x.state = "told"
  BY Zenon DEF ClientTable
<1>3. x.state # "idle"
  BY <1>2
<1> HIDE DEF x
<1> QED BY <1>1, <1>2, <1>3, Zenon DEF ClientTable, ClientsOn

(* The broker reads a report. *)
LEMMA ResultsOwners ==
  ASSUME TablesInv, OwnersInv, FloorHolds, NEW c \in Conns, HandleRequestResultsMsg(c)
  PROVE  OwnersInv'
<1> DEFINE msg == Head(conn[c].toBroker)
           r == msg.request
           q == [conn[c] EXCEPT !.toBroker = Tail(@)]
<1>1. Incoming(c, "CCB_RESULT") /\ UNCHANGED <<listener, reversing>>
  BY Zenon DEF HandleRequestResultsMsg
<1>2. conn[c] # None /\ conn[c] \in Connections /\ conn[c].toBroker # <<>>
  BY <1>1, IncomingFacts, Zenon
<1>3. SameIds /\ reversing' \subseteq reversing
  BY <1>1, Zenon DEF SameIds
<1>4. client \in ClientTable
  BY TablesParts, Zenon
<1>5. conn' = Read(c) => AllHushed
  <2> SUFFICES ASSUME conn' = Read(c) PROVE AllHushed
    BY Zenon
  <2>1. Becomes(c, q)
    BY Zenon DEF Read, Becomes
  <2>2. Hushed(conn[c], q)
    BY <1>2, HushedTailToBroker, Zenon
  <2> HIDE DEF q
  <2> QED BY <2>1, <2>2, OneHushed, Zenon
<1> HIDE DEF q
<1>6. CASE conn' = Read(c) /\ UNCHANGED <<broker, client>>
  <2>1. TargetsFewer /\ ClientsOn
    BY <1>6, TargetsLess, Zenon DEF broker, ClientsOn
  <2> QED BY <1>3, <1>5, <1>6, <2>1, QuietStep, Zenon
<1>7. CASE conn' = [conn EXCEPT ![c] = Shut(@, "atBroker")] /\ RemoveTarget(TargetOf(c))
  <2>1. m_targets' = Without(m_targets, {TargetOf(c)}) /\ client' = HangUp(HungUp({TargetOf(c)}))
    BY <1>7, Zenon DEF RemoveTarget
  <2>2. TargetsFewer
    BY <2>1, TargetsLess, Zenon
  <2>3. ClientsOn
    BY <1>4, <2>1, HangUpOn, Zenon
  <2>4. Becomes(c, Shut(conn[c], "atBroker"))
    BY <1>7, Zenon DEF Becomes
  <2>5. AllHushed
    BY <1>2, <2>4, HushedShut, OneHushed, Zenon
  <2> QED BY <1>3, <2>2, <2>3, <2>5, QuietStep, Zenon
<1>8. CASE r \in DOMAIN m_requests /\ conn' = Read(c) /\ RequestFinished(r, msg.success)
  <2>1. m_targets' = TargetsWithout(r) /\ client' = RequestReply(m_requests[r].client, msg.success)
    BY <1>8, Zenon DEF RequestFinished
  <2>2. m_requests[r].client \in Clients
    BY <1>8, TablesParts, Zenon DEF RequestInv, RequestsAreNumbered
  <2> HIDE DEF r
  <2>3. TargetsFewer
    BY <2>1, TargetsLess, Zenon
  <2>4. ClientsOn
    BY <1>4, <2>1, <2>2, ReplyOn, Zenon
  <2> QED BY <1>3, <1>5, <1>8, <2>3, <2>4, QuietStep, Zenon
<1> QED BY <1>6, <1>7, <1>8, Zenon DEF HandleRequestResultsMsg

(* The broker reads the end of a connection. *)
LEMMA DisconnectOwners ==
  ASSUME TablesInv, OwnersInv, FloorHolds, NEW c \in Conns, TargetDisconnect(c)
  PROVE  OwnersInv'
<1>1. /\ conn[c] # None
      /\ Becomes(c, Shut(conn[c], "atBroker"))
      /\ RemoveTarget(TargetOf(c)) \/ UNCHANGED <<broker, client>>
      /\ UNCHANGED <<listener, reversing>>
  BY Zenon DEF TargetDisconnect, Becomes, Free
<1>2. conn[c] \in Connections /\ client \in ClientTable
  BY <1>1, TablesParts, Zenon
<1>3. SameIds /\ reversing' \subseteq reversing
  BY <1>1, Zenon DEF SameIds
<1>4. AllHushed
  BY <1>1, <1>2, HushedShut, OneHushed, Zenon
<1>5. TargetsFewer
  BY <1>1, TargetsLess, Zenon DEF RemoveTarget, broker
<1>6. ClientsOn
  <2>1. CASE UNCHANGED client
    BY <2>1, Zenon DEF ClientsOn
  <2>2. CASE client' = HangUp(HungUp({TargetOf(c)}))
    BY <1>2, <2>2, HangUpOn, Zenon
  <2> QED BY <1>1, <2>1, <2>2, Zenon DEF RemoveTarget
<1> QED BY <1>3, <1>4, <1>5, <1>6, QuietStep, Zenon

(* A client leaves. *)
LEMMA LeaveOwners ==
  ASSUME TablesInv, OwnersInv, FloorHolds, NEW r \in DOMAIN m_requests, HandleRequestDisconnect(r)
  PROVE  OwnersInv'
<1>1. /\ client' = [client EXCEPT ![m_requests[r].client].state = "left"]
      /\ m_targets' = TargetsWithout(r)
      /\ UNCHANGED <<listener, reversing, conn>>
  BY Zenon DEF HandleRequestDisconnect
<1>2. SameIds /\ reversing' \subseteq reversing /\ AllHushed
  BY <1>1, HushedSame, Zenon DEF SameIds, AllHushed
<1>3. TargetsFewer
  BY <1>1, TargetsLess, Zenon
<1>4. ClientsOn
  <2>1. client \in ClientTable
    BY TablesParts, Zenon
  <2> QED BY <1>1, <2>1 DEF ClientTable, ClientsOn
<1> QED BY <1>2, <1>3, <1>4, QuietStep, Zenon

(* The broker works on its file, or restarts. *)
LEMMA FileOwners ==
  ASSUME TablesInv, OwnersInv, FloorHolds,
         UNCHANGED <<m_targets, listener, reversing, conn, client>>
  PROVE  OwnersInv'
<1>1. SameIds /\ reversing' \subseteq reversing /\ AllHushed /\ ClientsOn
  BY HushedSame, Zenon DEF SameIds, AllHushed, ClientsOn
<1>2. TargetsFewer
  BY TargetsLess, Zenon
<1> QED BY <1>1, <1>2, QuietStep, Zenon

(* The broker dies. *)
LEMMA CrashOwners ==
  ASSUME TablesInv, OwnersInv, FloorHolds, Crash
  PROVE  OwnersInv'
<1>1. /\ client' = HangUp({p \in Clients : client[p].state = "waiting"})
      /\ conn' = ShutAll({c \in Conns : ~Free(c)}, "atBroker")
      /\ m_targets' = <<>>
      /\ UNCHANGED <<listener, reversing>>
  BY Zenon DEF Crash
<1>2. SameIds /\ reversing' \subseteq reversing
  BY <1>1, Zenon DEF SameIds
<1>3. \A d \in Conns : conn'[d] = conn[d] \/ conn'[d] = Shut(conn[d], "atBroker")
  BY <1>1, Zenon DEF ShutAll
<1>4. AllHushed
  BY <1>3, ShutHushed, Zenon
<1>5. TargetsFewer
  <2>1. DOMAIN m_targets' = {}
    BY <1>1
  <2> QED BY <2>1, Zenon DEF TargetsFewer
<1>6. ClientsOn
  BY <1>1, TablesParts, HangUpOn, Zenon
<1> QED BY <1>2, <1>4, <1>5, <1>6, QuietStep, Zenon

(* A connection is cut. *)
LEMMA CutOwners ==
  ASSUME TablesInv, OwnersInv, FloorHolds, NEW c \in Conns, Cut(c)
  PROVE  OwnersInv'
<1> DEFINE q == [conn[c] EXCEPT !.cut = TRUE, !.toBroker = <<>>, !.toListener = <<>>]
<1>1. /\ conn[c] # None /\ Becomes(c, q)
      /\ UNCHANGED <<listener, reversing, client, m_targets>>
  BY Zenon DEF Cut, Free, Becomes, broker
<1>2. conn[c] \in Connections
  BY <1>1, TablesParts, Zenon
<1>3. Hushed(conn[c], q)
  BY <1>2, HushedCut, Zenon
<1> HIDE DEF q
<1>4. AllHushed
  BY <1>1, <1>3, OneHushed, Zenon
<1>5. SameIds /\ reversing' \subseteq reversing /\ ClientsOn
  BY <1>1, Zenon DEF SameIds, ClientsOn
<1>6. TargetsFewer
  BY <1>1, TargetsLess, Zenon
<1> QED BY <1>4, <1>5, <1>6, QuietStep, Zenon

(* The daemon of connection c becomes the target id. *)
LEMMA RegisteredClaims ==
  ASSUME TablesInv, SameIds, NEW c \in Conns, conn[c] # None, NEW id,
         m_targets' = With(m_targets, id, Target(c)),
         conn'[c].l = conn[c].l,
         \A i : Says(conn'[c], i) => Says(conn[c], i) \/ i = id,
         \A p : Asks(conn'[c], p) => Asks(conn[c], p),
         \A d \in Conns \ {c} : Hushed(conn[d], conn'[d])
  PROVE  /\ FewerAsks
         /\ \A i \in CCBIDs, l \in Listeners :
              Claims(i, l)' => Claims(i, l) \/ (i = id /\ l = conn[c].l)
<1>1. ASSUME NEW i, NEW d, TargetAt(i, d)' PROVE TargetAt(i, d) \/ (i = id /\ d = c)
  <2>1. /\ DOMAIN m_targets' = DOMAIN m_targets \cup {id}
        /\ \A j \in DOMAIN m_targets \ {id} : m_targets'[j] = m_targets[j]
        /\ m_targets'[id].conn = c
    BY DEF With, Target
  <2> QED BY <1>1, <2>1, Zenon DEF TargetAt
<1>2. ASSUME NEW i \in CCBIDs, NEW l \in Listeners, Claims(i, l)'
      PROVE  Claims(i, l) \/ (i = id /\ l = conn[c].l)
  <2>1. CASE listener'[l].m_ccbid = i
    BY <2>1, Zenon DEF Claims, SameIds
  <2>2. ASSUME NEW d \in Conns, conn'[d] # None, conn'[d].l = l, Says(conn'[d], i) \/ TargetAt(i, d)'
        PROVE  Claims(i, l) \/ (i = id /\ l = conn[c].l)
    <3>1. CASE d = c
      BY <1>1, <2>2, <3>1, Zenon DEF Claims
    <3>2. CASE d # c
      <4>1. conn[d] # None /\ conn[d].l = l /\ (Says(conn'[d], i) => Says(conn[d], i))
        BY <2>2, <3>2, Zenon DEF Hushed
      <4> QED BY <1>1, <2>2, <3>2, <4>1, Zenon DEF Claims
    <3> QED BY <3>1, <3>2, Zenon
  <2> QED BY <1>2, <2>1, <2>2, Zenon DEF Claims, Says, TargetAt
<1>3. FewerAsks
  BY Zenon DEF FewerAsks, Hushed
<1> QED BY <1>2, <1>3, Zenon

(* A daemon that registers names its id in the message that the broker reads. *)
LEMMA IncomingSays ==
  ASSUME TablesInv, NEW c \in Conns, Incoming(c, "CCB_REGISTER")
  PROVE  Says(conn[c], Head(conn[c].toBroker).ccbid)
<1> DEFINE b == conn[c].toBroker
           T == Registrations \cup Results
<1>1. conn[c] \in Connections /\ b # <<>> /\ Head(b).cmd = "CCB_REGISTER"
  BY IncomingFacts, Zenon DEF Incoming
<1>2. b \in Seq(T)
  BY <1>1, ToBroker, Zenon
<1> HIDE DEF b, T
<1>3. 1 \in 1 .. Len(b) /\ Head(b) = b[1]
  BY <1>1, <1>2
<1>4. Named(b, Head(b).ccbid)
  BY <1>1, <1>3, Zenon DEF Named
<1> QED BY <1>4, Zenon DEF Says, b

(* A client asks for a daemon: the target of its id is that daemon. *)
LEMMA RequestOwners ==
  ASSUME TablesInv, OwnersInv, FloorHolds, NEW p \in Clients, NEW l \in Listeners, HandleRequest(p, l)
  PROVE  OwnersInv'
<1> DEFINE id == listener[l].m_ccbid
           m == [cmd |-> "CCB_REQUEST", request |-> m_next_request_id, connect_id |-> p]
<1>1. client[p].state = "idle" /\ id # None /\ UNCHANGED <<listener, reversing>>
  BY Zenon DEF HandleRequest
<1>2. client \in ClientTable /\ conn \in [Conns -> Connections \cup {None}]
  BY TablesParts, Zenon
<1>3. SameIds /\ reversing' \subseteq reversing
  BY <1>1, Zenon DEF SameIds
<1>4. CASE client' = RequestReply(p, FALSE) /\ UNCHANGED <<m_targets, conn>>
  <2>1. ClientsOn
    BY <1>2, <1>4, ReplyOn, Zenon
  <2>2. AllHushed
    BY <1>4, HushedSame, Zenon DEF AllHushed
  <2>3. TargetsFewer
    BY <1>4, TargetsLess, Zenon
  <2> QED BY <1>3, <2>1, <2>2, <2>3, QuietStep, Zenon
<1>5. CASE /\ id \in DOMAIN m_targets
           /\ client' = [client EXCEPT ![p] = [@ EXCEPT !.state = "waiting", !.want = l]]
           /\ m_targets' = [m_targets EXCEPT ![id].requests = @ \cup {m_next_request_id}]
           /\ conn' = [conn EXCEPT ![m_targets[id].conn] = Put(@, "toListener", m)]
  <2> DEFINE c == m_targets[id].conn
             q == Put(conn[c], "toListener", m)
  <2>1. c \in Conns /\ conn[c] # None
    BY <1>5, TablesParts, Zenon DEF TargetsAreConnected
  <2>2. conn[c] \in Connections /\ conn[c].l \in Listeners
    BY <1>2, <2>1, Zenon DEF Connections
  <2>3. m \in Requests /\ m.connect_id = p
    <3>1. m_next_request_id \in Nat
      BY TablesParts
    <3> QED BY <3>1, Zenon DEF Requests
  <2>4. conn' = [conn EXCEPT ![c] = q]
    BY <1>5, Zenon
  <2>5. id \in CCBIDs
    BY <1>1, ListenerParts, Zenon DEF ListenerRecord
  <2>6. conn[c].l = l
    <3>1. Claims(id, l)
      BY Zenon DEF Claims
    <3>2. Claims(id, conn[c].l)
      BY <1>5, <2>1, Zenon DEF Claims, TargetAt
    <3> QED BY <2>2, <2>5, <3>1, <3>2, Zenon DEF OwnersInv, IdsOwned
  <2>7. \A i, d : TargetAt(i, d)' => TargetAt(i, d)
    <3>1. DOMAIN m_targets' = DOMAIN m_targets
      BY <1>5, Zenon
    <3>2. ASSUME NEW i \in DOMAIN m_targets PROVE m_targets'[i].conn = m_targets[i].conn
      BY <1>5, <3>2
    <3> QED BY <3>1, <3>2, Zenon DEF TargetAt
  <2> HIDE DEF id, c, m
  <2>8. /\ q.l = conn[c].l
        /\ \A i : Says(q, i) => Says(conn[c], i)
        /\ \A x : Asks(q, x) => Asks(conn[c], x) \/ x = p
    BY <2>2, <2>3, RequestSays, Zenon
  <2> HIDE DEF q
  <2>9. ASSUME NEW d \in Conns
        PROVE  /\ conn'[d] # None => conn[d] # None
               /\ conn'[d].l = conn[d].l
               /\ \A i : Says(conn'[d], i) => Says(conn[d], i)
               /\ \A x : Asks(conn'[d], x) => Asks(conn[d], x) \/ (x = p /\ d = c)
    <3>1. CASE d = c
      <4>1. conn'[d] = q
        BY <1>2, <2>4, <3>1, Zenon
      <4> QED BY <2>1, <2>8, <3>1, <4>1, Zenon
    <3>2. CASE d # c
      <4>1. conn'[d] = conn[d]
        BY <1>2, <2>4, <3>2, Zenon
      <4> QED BY <4>1, Zenon
    <3> QED BY <3>1, <3>2, Zenon
  <2>10. FewerClaims
    <3>1. ASSUME NEW i \in CCBIDs, NEW k \in Listeners, Claims(i, k)' PROVE Claims(i, k)
      <4>1. CASE listener'[k].m_ccbid = i
        BY <1>3, <4>1, Zenon DEF Claims, SameIds
      <4>2. CASE \E d \in Conns : /\ conn'[d] # None /\ conn'[d].l = k
                                  /\ Says(conn'[d], i) \/ TargetAt(i, d)'
        BY <2>7, <2>9, <4>2, Zenon DEF Claims
      <4> QED BY <3>1, <4>1, <4>2, Zenon DEF Claims, Says, TargetAt
    <3> QED BY <3>1, Zenon DEF FewerClaims
  <2>11. /\ client'[p].want = l /\ client'[p].state = "waiting" /\ client'[p].reached = client[p].reached
         /\ \A x \in Clients \ {p} : client'[x] = client[x]
    BY <1>2, <1>5, Zenon DEF ClientTable
  <2>12. client'[p].state # "idle"
    BY <2>11
  <2>13. ASSUME NEW d \in Conns, NEW x \in Clients, conn'[d] # None, Asks(conn'[d], x)
         PROVE  client'[x].want = conn'[d].l /\ client'[x].state # "idle"
    <3>1. CASE x = p /\ d = c
      BY <2>6, <2>9, <2>11, <2>12, <3>1, Zenon
    <3>2. CASE Asks(conn[d], x)
      <4>1. Wants(x, conn[d].l)
        BY <2>9, <2>13, <3>2, Zenon DEF OwnersInv, WantsInv
      <4>2. x # p
        BY <1>1, <4>1, Zenon DEF Wants
      <4> QED BY <2>9, <2>11, <4>1, <4>2, Zenon DEF Wants
    <3> QED BY <2>9, <2>13, <3>1, <3>2, Zenon
  <2>14. ASSUME NEW v \in reversing'
         PROVE  client'[v.connect_id].want = v.l /\ client'[v.connect_id].state # "idle"
    <3>1. v \in reversing /\ v.connect_id \in Clients /\ Wants(v.connect_id, v.l)
      BY <1>1, ListenerParts, Zenon DEF OwnersInv, WantsInv
    <3>2. v.connect_id # p
      BY <1>1, <3>1, Zenon DEF Wants
    <3> QED BY <2>11, <3>1, <3>2, Zenon DEF Wants
  <2>15. \A x \in Clients : /\ client'[x].reached \subseteq {client'[x].want}
                            /\ client'[x].state = "idle" => client'[x].reached = {}
    BY <1>1, <2>11, <2>12, Zenon DEF OwnersInv, WantsInv
  <2>16. WantsInv'
    BY <2>13, <2>14, <2>15, Zenon DEF WantsInv, Wants
  <2> QED BY <2>10, <2>16, OwnersKept, Zenon DEF OwnersInv
<1> QED BY <1>4, <1>5, Zenon DEF HandleRequest, broker

(* A daemon connects and says its id. *)
LEMMA OpenOwners ==
  ASSUME TablesInv, OwnersInv, FloorHolds, NEW l \in Listeners, NEW c \in Conns, Free(c),
         listener' = [listener EXCEPT ![l].phase = "m_waiting_for_registration", ![l].sock = c],
         Becomes(c, Put(Open(l), "toBroker",
           [cmd |-> "CCB_REGISTER", ccbid |-> listener[l].m_ccbid, cookie |-> listener[l].m_cookie])),
         UNCHANGED <<m_targets, reversing, client>>
  PROVE  OwnersInv'
<1> DEFINE m == [cmd |-> "CCB_REGISTER", ccbid |-> listener[l].m_ccbid, cookie |-> listener[l].m_cookie]
           q == Put(Open(l), "toBroker", m)
<1>1. m \in Registrations /\ m.ccbid = listener[l].m_ccbid
  BY ListenerParts, Zenon DEF ListenerRecord, Registrations
<1>2. conn' = [conn EXCEPT ![c] = q]
  BY Zenon DEF Becomes
<1> HIDE DEF m
<1>3. q.l = l /\ (\A i : Says(q, i) => i = listener[l].m_ccbid) /\ \A p : ~Asks(q, p)
  BY <1>1, TablesParts, OpenSays, Zenon
<1> HIDE DEF q
<1>4. SameIds
  <2>1. listener \in [Listeners -> ListenerRecord]
    BY ListenerParts, Zenon
  <2> QED BY <2>1, Zenon DEF SameIds, ListenerRecord
<1>5. ASSUME NEW d \in Conns PROVE conn'[d] = (IF d = c THEN q ELSE conn[d])
  BY <1>2, TablesParts, Zenon
<1>6. \A i : ~TargetAt(i, c)
  BY TablesParts, Zenon DEF TargetAt, TargetsAreConnected, Free
<1>7. \A i, d : TargetAt(i, d)' => TargetAt(i, d)
  BY Zenon DEF TargetAt
<1>8. ASSUME NEW i \in CCBIDs, NEW k \in Listeners, Claims(i, k)' PROVE Claims(i, k)
  <2>1. CASE listener'[k].m_ccbid = i
    BY <1>4, <2>1, Zenon DEF Claims, SameIds
  <2>2. ASSUME NEW d \in Conns, conn'[d] # None, conn'[d].l = k, Says(conn'[d], i) \/ TargetAt(i, d)'
        PROVE  Claims(i, k)
    <3>1. CASE d = c
      <4>1. q.l = k /\ Says(q, i)
        BY <1>5, <1>6, <1>7, <2>2, <3>1, Zenon
      <4> QED BY <1>3, <4>1, Zenon DEF Claims
    <3>2. CASE d # c
      <4>1. conn'[d] = conn[d]
        BY <1>5, <3>2, Zenon
      <4> QED BY <1>7, <2>2, <4>1, Zenon DEF Claims
    <3> QED BY <3>1, <3>2, Zenon
  <2> QED BY <1>8, <2>1, <2>2, Zenon DEF Claims, Says, TargetAt
<1>9. FewerClaims
  BY <1>8, Zenon DEF FewerClaims
<1>10. FewerAsks
  <2>1. ASSUME NEW d \in Conns, NEW p \in Clients, conn'[d] # None, Asks(conn'[d], p)
        PROVE  conn[d] # None /\ conn'[d].l = conn[d].l /\ Asks(conn[d], p)
    <3>1. d # c
      BY <1>3, <1>5, <2>1, Zenon
    <3>2. conn'[d] = conn[d]
      BY <1>5, <3>1, Zenon
    <3> QED BY <2>1, <3>2, Zenon
  <2> QED BY <2>1, Zenon DEF FewerAsks
<1>11. ClientsOn /\ reversing' \subseteq reversing
  BY Zenon DEF ClientsOn
<1> QED BY <1>9, <1>10, <1>11, OwnersKept, WantsKept, Zenon DEF OwnersInv

(* A daemon reads the id that it is given, or a request. *)
LEMMA ReadOwners ==
  ASSUME TablesInv, OwnersInv, FloorHolds, NEW l \in Listeners, ReadMsgFromCCB(l)
  PROVE  OwnersInv'
<1> DEFINE c == listener[l].sock
           q == [conn[c] EXCEPT !.toListener = Tail(@)]
           msg == Head(conn[c].toListener)
<1>1. /\ c # None /\ conn[c].toListener # <<>>
      /\ conn' = [conn EXCEPT ![c].toListener = Tail(@)]
      /\ HandleCCBRegistrationReply(l, msg) \/ HandleCCBRequest(l, msg)
      /\ UNCHANGED <<m_targets, client>>
  BY Zenon DEF ReadMsgFromCCB, Sock, DaemonStep, broker
<1>2. c \in Conns /\ conn[c] # None /\ conn[c] \in Connections /\ conn[c].l = l
  BY <1>1, SockFacts, Zenon
<1>3. Becomes(c, q)
  BY <1>1, Zenon DEF Becomes
<1>4. Hushed(conn[c], q)
  BY <1>1, <1>2, HushedTailToListener, Zenon
<1>5. /\ msg.cmd = "CCB_REGISTER" => Says(conn[c], msg.ccbid)
      /\ msg.cmd = "CCB_REQUEST" => Asks(conn[c], msg.connect_id) /\ msg.connect_id \in Clients
  <2> DEFINE s == conn[c].toListener
             T == Registrations \cup Requests
  <2>1. s \in Seq(T) /\ s # <<>>
    BY <1>1, <1>2, ToListener, Zenon
  <2> HIDE DEF s, T
  <2>2. 1 \in 1 .. Len(s) /\ Head(s) = s[1] /\ Head(s) \in T
    BY <2>1
  <2>3. /\ Head(s).cmd = "CCB_REGISTER" => Named(s, Head(s).ccbid)
        /\ Head(s).cmd = "CCB_REQUEST" => Asked(s, Head(s).connect_id)
    BY <2>2, Zenon DEF Named, Asked
  <2>4. Head(s).cmd = "CCB_REQUEST" => Head(s).connect_id \in Clients
    BY <2>2, Zenon DEF T, Registrations, Requests
  <2> QED BY <2>3, <2>4, Zenon DEF Says, Asks, s
<1> HIDE DEF c, q, msg
<1>6. AllHushed
  BY <1>2, <1>3, <1>4, OneHushed, Zenon
<1>7. ClientsOn
  BY <1>1, Zenon DEF ClientsOn
<1>8. CASE HandleCCBRegistrationReply(l, msg)
  <2>1. /\ msg.cmd = "CCB_REGISTER"
        /\ listener' = [listener EXCEPT ![l].phase = "m_registered", ![l].m_ccbid = msg.ccbid,
                                        ![l].m_cookie = msg.cookie]
        /\ reversing' \subseteq reversing
    BY <1>8, Zenon DEF HandleCCBRegistrationReply
  <2>2. ASSUME NEW k \in Listeners
        PROVE  listener'[k].m_ccbid = IF k = l THEN msg.ccbid ELSE listener[k].m_ccbid
    <3>1. listener \in [Listeners -> ListenerRecord]
      BY ListenerParts, Zenon
    <3> QED BY <2>1, <3>1, Zenon DEF ListenerRecord
  <2>3. \A i, d : TargetAt(i, d)' => TargetAt(i, d)
    BY <1>1, Zenon DEF TargetAt
  <2>4. ASSUME NEW i \in CCBIDs, NEW k \in Listeners, Claims(i, k)' PROVE Claims(i, k)
    <3>1. CASE listener'[k].m_ccbid = i
      <4>1. CASE k = l
        <5>1. Says(conn[c], i)
          BY <1>5, <2>1, <2>2, <3>1, <4>1, Zenon
        <5> QED BY <1>2, <4>1, <5>1, Zenon DEF Claims
      <4>2. CASE k # l
        BY <2>2, <3>1, <4>2, Zenon DEF Claims
      <4> QED BY <4>1, <4>2, Zenon
    <3>2. CASE \E d \in Conns : /\ conn'[d] # None /\ conn'[d].l = k
                                /\ Says(conn'[d], i) \/ TargetAt(i, d)'
      BY <1>6, <2>3, <3>2, Zenon DEF Claims, AllHushed, Hushed
    <3> QED BY <2>4, <3>1, <3>2, Zenon DEF Claims, Says, TargetAt
  <2>5. FewerClaims
    BY <2>4, Zenon DEF FewerClaims
  <2>6. FewerAsks
    BY <1>6, Zenon DEF FewerAsks, AllHushed, Hushed
  <2> QED BY <1>7, <2>1, <2>5, <2>6, OwnersKept, WantsKept, Zenon DEF OwnersInv
<1>9. CASE HandleCCBRequest(l, msg)
  <2> DEFINE v == [l |-> l, request |-> msg.request, connect_id |-> msg.connect_id]
  <2>1. msg.cmd = "CCB_REQUEST" /\ reversing' = reversing \cup {v} /\ UNCHANGED listener
    BY <1>9, Zenon DEF HandleCCBRequest
  <2>2. SameIds
    BY <2>1, Zenon DEF SameIds
  <2>3. TargetsFewer
    BY <1>1, TargetsLess, Zenon
  <2>4. FewerClaims /\ FewerAsks
    BY <1>6, <2>2, <2>3, HushedClaims, Zenon
  <2>5. Wants(msg.connect_id, l)
    BY <1>2, <1>5, <2>1, Zenon DEF OwnersInv, WantsInv
  <2>6. v.l = l /\ v.connect_id = msg.connect_id
    BY Zenon
  <2> HIDE DEF v
  <2>7. \A w \in reversing' : client'[w.connect_id].want = w.l /\ client'[w.connect_id].state # "idle"
    BY <1>1, <2>1, <2>5, <2>6, Zenon DEF OwnersInv, WantsInv, Wants
  <2>8. ASSUME NEW d \in Conns, NEW p \in Clients, conn'[d] # None, Asks(conn'[d], p)
        PROVE  client'[p].want = conn'[d].l /\ client'[p].state # "idle"
    <3>1. conn[d] # None /\ conn'[d].l = conn[d].l /\ Asks(conn[d], p)
      BY <2>4, <2>8, Zenon DEF FewerAsks
    <3> QED BY <1>1, <3>1, Zenon DEF OwnersInv, WantsInv, Wants
  <2>9. WantsInv'
    BY <1>1, <2>7, <2>8, Zenon DEF OwnersInv, WantsInv, Wants
  <2> QED BY <2>4, <2>9, OwnersKept, Zenon DEF OwnersInv
<1> QED BY <1>1, <1>8, <1>9, Zenon

(* A daemon connects, reads, hangs up, waits or moves. *)
LEMMA DaemonOwners ==
  ASSUME TablesInv, OwnersInv, FloorHolds, NEW l \in Listeners, Daemon(l) \/ Move(l)
  PROVE  OwnersInv'
<1> DEFINE c == listener[l].sock
<1>1. UNCHANGED <<m_targets, client>>
  BY Zenon DEF Daemon, Move, ReconnectTime, CCBConnectCallback, ReadMsgFromCCB, ListenerDisconnect,
         HeartbeatTime, Hangup, DaemonStep, broker
<1>2. TargetsFewer /\ ClientsOn
  BY <1>1, TargetsLess, Zenon DEF ClientsOn
<1>3. listener \in [Listeners -> ListenerRecord]
  BY ListenerParts, Zenon
<1>4. CASE /\ UNCHANGED <<conn, reversing>>
           /\ \/ Disconnected(l)
              \/ listener' = [listener EXCEPT ![l].phase = "m_waiting_for_connect"]
              \/ \E ip : listener' = [listener EXCEPT ![l].ip = ip]
  <2>1. SameIds
    <3>1. CASE Disconnected(l)
      BY <1>3, <3>1, Zenon DEF SameIds, Disconnected, ListenerRecord
    <3>2. CASE listener' = [listener EXCEPT ![l].phase = "m_waiting_for_connect"]
      BY <1>3, <3>2, Zenon DEF SameIds, ListenerRecord
    <3>3. ASSUME NEW ip, listener' = [listener EXCEPT ![l].ip = ip] PROVE SameIds
      BY <1>3, <3>3, Zenon DEF SameIds, ListenerRecord
    <3> QED BY <1>4, <3>1, <3>2, <3>3, Zenon
  <2>2. AllHushed /\ reversing' \subseteq reversing
    BY <1>4, HushedSame, Zenon DEF AllHushed
  <2> QED BY <1>2, <2>1, <2>2, QuietStep, Zenon
<1>5. CASE c # None /\ Hangup(l)
  <2>1. Becomes(c, Shut(conn[c], "atListener")) /\ Disconnected(l) /\ reversing' \subseteq reversing
    BY <1>5, Zenon DEF Hangup, Becomes
  <2>2. c \in Conns /\ conn[c] \in Connections
    BY <1>5, SockFacts, Zenon
  <2>3. SameIds
    BY <1>3, <2>1, Zenon DEF SameIds, Disconnected, ListenerRecord
  <2> HIDE DEF c
  <2>4. AllHushed
    BY <2>1, <2>2, HushedShut, OneHushed, Zenon
  <2> QED BY <1>2, <2>1, <2>3, <2>4, QuietStep, Zenon
<1>6. CASE ReadMsgFromCCB(l)
  BY <1>6, ReadOwners, Zenon
<1>7. CASE CCBConnectCallback(l) /\ ~UNCHANGED conn
  <2>1. PICK d \in Conns :
          /\ Free(d)
          /\ listener' = [listener EXCEPT ![l].phase = "m_waiting_for_registration", ![l].sock = d]
          /\ Becomes(d, Put(Open(l), "toBroker",
               [cmd |-> "CCB_REGISTER", ccbid |-> listener[l].m_ccbid, cookie |-> listener[l].m_cookie]))
    BY <1>7, Zenon DEF CCBConnectCallback, Becomes
  <2>2. UNCHANGED reversing
    BY <1>7, Zenon DEF CCBConnectCallback
  <2> QED BY <1>1, <2>1, <2>2, OpenOwners, Zenon
<1>8. CASE CCBConnectCallback(l) /\ UNCHANGED conn
  <2>1. CASE Disconnected(l)
    BY <1>4, <1>8, <2>1, Zenon DEF CCBConnectCallback
  <2>2. CASE ~Disconnected(l)
    <3>1. PICK d \in Conns :
          /\ Free(d)
          /\ listener' = [listener EXCEPT ![l].phase = "m_waiting_for_registration", ![l].sock = d]
          /\ Becomes(d, Put(Open(l), "toBroker",
               [cmd |-> "CCB_REGISTER", ccbid |-> listener[l].m_ccbid, cookie |-> listener[l].m_cookie]))
      BY <1>8, <2>2, Zenon DEF CCBConnectCallback, Becomes
    <3>2. UNCHANGED reversing
      BY <1>8, Zenon DEF CCBConnectCallback
    <3> QED BY <1>1, <3>1, <3>2, OpenOwners, Zenon
  <2> QED BY <2>1, <2>2, Zenon
<1> QED BY <1>4, <1>5, <1>6, <1>7, <1>8, Zenon
     DEF Daemon, Move, ReconnectTime, ListenerDisconnect, HeartbeatTime

(* A reversed connection succeeds, or not, and is reported. *)
LEMMA ReverseOwners ==
  ASSUME TablesInv, OwnersInv, FloorHolds, NEW v \in reversing, NEW success \in BOOLEAN,
         ReverseConnected(v, success)
  PROVE  OwnersInv'
<1> DEFINE l == v.l
           p == v.connect_id
           c == listener[l].sock
           m == [cmd |-> "CCB_RESULT", request |-> v.request, connect_id |-> v.connect_id,
                 success |-> success]
           q == Put(conn[c], "toBroker", m)
<1>1. l \in Listeners /\ p \in Clients /\ m \in Results /\ Wants(p, l)
  BY ListenerParts, Zenon DEF Results, OwnersInv, WantsInv
<1>2. /\ client' = IF success THEN [client EXCEPT ![p].reached = @ \cup {l}] ELSE client
      /\ conn' = IF c = None THEN conn ELSE [conn EXCEPT ![c] = q]
      /\ reversing' \subseteq reversing
      /\ UNCHANGED <<listener, m_targets>>
  BY Zenon DEF ReverseConnected, broker
<1> HIDE DEF l, m, p
<1>3. AllHushed
  <2>1. CASE c = None
    BY <1>2, <2>1, HushedSame, Zenon DEF AllHushed
  <2>2. CASE c # None
    <3>1. c \in Conns /\ conn[c] \in Connections
      BY <1>1, <2>2, SockFacts, Zenon
    <3>2. Becomes(c, q)
      BY <1>2, <2>2, Zenon DEF Becomes
    <3> HIDE DEF c
    <3>3. Hushed(conn[c], q)
      BY <1>1, <3>1, HushedReport, Zenon
    <3> HIDE DEF q
    <3> QED BY <3>1, <3>2, <3>3, OneHushed, Zenon
  <2> QED BY <2>1, <2>2, Zenon
<1> HIDE DEF c, q
<1>4. SameIds
  BY <1>2, Zenon DEF SameIds
<1>5. TargetsFewer
  BY <1>2, TargetsLess, Zenon
<1>6. FewerClaims /\ FewerAsks
  BY <1>3, <1>4, <1>5, HushedClaims, Zenon
<1>7. ASSUME NEW x \in Clients
      PROVE  /\ client'[x].want = client[x].want /\ client'[x].state = client[x].state
             /\ client'[x].reached \subseteq client[x].reached \cup (IF x = p THEN {l} ELSE {})
  <2>1. client \in ClientTable
    BY TablesParts, Zenon
  <2> QED BY <1>1, <1>2, <2>1 DEF ClientTable
<1>8. ASSUME NEW d \in Conns, NEW x \in Clients, conn'[d] # None, Asks(conn'[d], x)
      PROVE  client'[x].want = conn'[d].l /\ client'[x].state # "idle"
  <2>1. conn[d] # None /\ conn'[d].l = conn[d].l /\ Asks(conn[d], x)
    BY <1>6, <1>8, Zenon DEF FewerAsks
  <2> QED BY <1>7, <2>1, Zenon DEF OwnersInv, WantsInv, Wants
<1>9. \A w \in reversing' : client'[w.connect_id].want = w.l /\ client'[w.connect_id].state # "idle"
  <2>1. \A w \in reversing : w.connect_id \in Clients /\ Wants(w.connect_id, w.l)
    BY ListenerParts, Zenon DEF OwnersInv, WantsInv
  <2> QED BY <1>2, <1>7, <2>1, Zenon DEF Wants
<1>10. ASSUME NEW x \in Clients
       PROVE  /\ client'[x].reached \subseteq {client'[x].want}
              /\ client'[x].state = "idle" => client'[x].reached = {}
  <2>1. /\ client[x].reached \subseteq {client[x].want}
        /\ client[x].state = "idle" => client[x].reached = {}
    BY Zenon DEF OwnersInv, WantsInv
  <2>2. CASE x = p
    BY <1>1, <1>7, <2>1, <2>2, Zenon DEF Wants
  <2>3. CASE x # p
    BY <1>7, <2>1, <2>3, Zenon
  <2> QED BY <2>2, <2>3, Zenon
<1>11. WantsInv'
  BY <1>8, <1>9, <1>10, Zenon DEF WantsInv, Wants
<1> QED BY <1>6, <1>11, OwnersKept, Zenon DEF OwnersInv

-----------------------------------------------------------------------------
(* What the broker model takes from the modules on functions and finite sets,
   stated once for its copy of them and then for that of the theorems below. *)

(* What is left of a table. *)
LEMMA WithoutIs ==
  ASSUME NEW f, NEW S
  PROVE  /\ DOMAIN Without(f, S) = DOMAIN f \ S
         /\ \A i \in DOMAIN f \ S : Without(f, S)[i] = f[i]
BY Zenon DEF Without, Restrict

(* The parts of the type invariant. *)
LEMMA TypeParts ==
  ASSUME PeersOK, {up, committed, pruned} \subseteq BOOLEAN, m_next_ccbid \in CCBIDs \ {0},
         DOMAIN m_reconnect_info \subseteq CCBIDs,
         \A i \in DOMAIN m_reconnect_info :
           m_reconnect_info[i] \in [cookie : Cookies, ip : IPs, missed : 0 .. 2],
         \A i \in DOMAIN buffer : buffer[i] \in ReconnectLine
  PROVE  TypeOK
<1>1. \A r \in Range(buffer) : r \in ReconnectLine
  BY Zenon DEF Range
<1> QED BY <1>1, Zenon DEF TypeOK

(* The number of elements, as FiniteSets counts them. *)
SizeOf(S) ==
  LET Count[T \in SUBSET S] == IF T = {} THEN 0 ELSE 1 + Count[T \ {CHOOSE x : x \in T}]
  IN  Count[S]

(* The count of FiniteSets. *)
LEMMA SizeIs == \A S : Cardinality(S) = SizeOf(S)
BY Zenon DEF Cardinality, SizeOf

(* The lines of SaveAllReconnectInfo. *)
LEMMA RewriteIs ==
  ASSUME NEW info, Rewrite(info) # None
  PROVE  LET ids == DOMAIN info
             line(n) == CHOOSE i \in ids : SizeOf({j \in ids : j <= i}) = n
         IN  Rewrite(info) = [n \in 1 .. SizeOf(ids) |->
               [ccbid |-> line(n), cookie |-> info[line(n)].cookie, ip |-> info[line(n)].ip]]
<1>1. info # <<>>
  BY Zenon DEF Rewrite
<1> QED BY <1>1, SizeIs, Zenon DEF Rewrite

-----------------------------------------------------------------------------
(* From here on the theorems on finite sets and on the natural numbers are used. *)
LOCAL INSTANCE FiniteSetTheorems

(* Their count is the same. *)
LEMMA SizeIsCardinality == \A S : Cardinality(S) = SizeOf(S)
BY Zenon DEF Cardinality, SizeOf

-----------------------------------------------------------------------------
(* The reconnect file and what is loaded from it. *)

ReconnectInfo == [cookie : Cookies, ip : IPs, missed : 0 .. 2]

(* A table of reconnect records. *)
InfoOK(f) ==
  /\ IsFiniteSet(DOMAIN f)
  /\ DOMAIN f \subseteq CCBIDs
  /\ \A i \in DOMAIN f : f[i] \in ReconnectInfo

(* A nonempty set of natural numbers has a least element. *)
LEMMA LeastExists ==
  ASSUME NEW S, S \subseteq Nat, S # {}
  PROVE  \E x \in S : \A y \in S : x <= y
<1>1. PICK x \in S : \A y \in S : ~(<<y, x>> \in OpToRel(<, Nat))
  BY NatLessThanWellFounded, WFMin, Zenon
<1>2. \A y \in S : ~(y < x)
  BY <1>1, Zenon DEF OpToRel
<1> QED
  BY <1>2

(* The next ids that LoadReconnectInfo goes through up to the n-th line. *)
Past(f, records, n) ==
  /\ f = [i \in 0 .. n |-> f[i]]
  /\ f[0] = 1
  /\ \A i \in 1 .. n : f[i] = IF records[i].ccbid > f[i - 1] THEN records[i].ccbid + 1 ELSE f[i - 1]

(* The tables that LoadReconnectInfo goes through up to the n-th line. *)
Filled(f, records, n) ==
  /\ f = [i \in 0 .. n |-> f[i]]
  /\ f[0] = <<>>
  /\ \A i \in 1 .. n : f[i] = With(f[i - 1], records[i].ccbid, Info(records[i], 0))

(* The recursion on the lines ends. *)
LEMMA PastExists ==
  ASSUME NEW records
  PROVE  \A n \in Nat : \E f : Past(f, records, n)
<1> DEFINE B == {n \in Nat : ~ \E f : Past(f, records, n)}
<1> SUFFICES ASSUME B # {} PROVE FALSE
  BY Zenon
<1>1. PICK n \in B : \A m \in B : n <= m
  BY LeastExists, Zenon
<1>2. n \in Nat /\ ~ \E f : Past(f, records, n)
  BY <1>1, Zenon
<1>3. CASE n = 0
  <2> DEFINE f == [i \in 0 .. 0 |-> 1]
  <2>1. Past(f, records, 0)
    BY DEF Past
  <2> QED BY <1>2, <1>3, <2>1, Zenon
<1>4. CASE n # 0
  <2>1. n \in Nat \ {0} /\ n - 1 \in Nat /\ n - 1 \notin B
    BY <1>1, <1>2, <1>4
  <2>2. PICK g : Past(g, records, n - 1)
    BY <2>1, Zenon
  <2> DEFINE last == IF records[n].ccbid > g[n - 1] THEN records[n].ccbid + 1 ELSE g[n - 1]
             f == [i \in 0 .. n |-> IF i = n THEN last ELSE g[i]]
  <2> HIDE DEF last
  <2>3. /\ f = [i \in 0 .. n |-> f[i]]
        /\ f[0] = g[0] /\ f[n] = last /\ f[n - 1] = g[n - 1]
        /\ \A i \in 1 .. n : i = n \/ (i \in 1 .. n - 1 /\ f[i] = g[i] /\ f[i - 1] = g[i - 1])
    BY <2>1
  <2> HIDE DEF f
  <2>4. Past(f, records, n)
    BY <2>2, <2>3, Zenon DEF Past, last
  <2> QED BY <1>2, <2>4, Zenon
<1> QED BY <1>3, <1>4, Zenon

(* The recursion on the lines ends. *)
LEMMA FilledExists ==
  ASSUME NEW records
  PROVE  \A n \in Nat : \E f : Filled(f, records, n)
<1> DEFINE B == {n \in Nat : ~ \E f : Filled(f, records, n)}
<1> SUFFICES ASSUME B # {} PROVE FALSE
  BY Zenon
<1>1. PICK n \in B : \A m \in B : n <= m
  BY LeastExists, Zenon
<1>2. n \in Nat /\ ~ \E f : Filled(f, records, n)
  BY <1>1, Zenon
<1>3. CASE n = 0
  <2> DEFINE f == [i \in 0 .. 0 |-> <<>>]
  <2>1. Filled(f, records, 0)
    BY DEF Filled
  <2> QED BY <1>2, <1>3, <2>1, Zenon
<1>4. CASE n # 0
  <2>1. n \in Nat \ {0} /\ n - 1 \in Nat /\ n - 1 \notin B
    BY <1>1, <1>2, <1>4
  <2>2. PICK g : Filled(g, records, n - 1)
    BY <2>1, Zenon
  <2> DEFINE last == With(g[n - 1], records[n].ccbid, Info(records[n], 0))
             f == [i \in 0 .. n |-> IF i = n THEN last ELSE g[i]]
  <2> HIDE DEF last
  <2>3. /\ f = [i \in 0 .. n |-> f[i]]
        /\ f[0] = g[0] /\ f[n] = last /\ f[n - 1] = g[n - 1]
        /\ \A i \in 1 .. n : i = n \/ (i \in 1 .. n - 1 /\ f[i] = g[i] /\ f[i - 1] = g[i - 1])
    BY <2>1
  <2> HIDE DEF f
  <2>4. Filled(f, records, n)
    BY <2>2, <2>3, Zenon DEF Filled, last
  <2> QED BY <1>2, <2>4, Zenon
<1> QED BY <1>3, <1>4, Zenon

(* What PastLines goes through. *)
LEMMA PastLinesIs ==
  ASSUME NEW records, Len(records) \in Nat
  PROVE  \E f : Past(f, records, Len(records)) /\ PastLines(records) = f[Len(records)]
<1> DEFINE n == Len(records)
           Step(h) == [i \in 0 .. n |->
             IF i = 0 THEN 1
             ELSE IF records[i].ccbid > h[i - 1] THEN records[i].ccbid + 1 ELSE h[i - 1]]
           f == CHOOSE h : h = Step(h)
<1>1. PastLines(records) = f[n]
  BY Zenon DEF PastLines
<1>2. PICK g : Past(g, records, n)
  BY PastExists, Zenon
<1>3. g = Step(g)
  <2>1. \A i \in 0 .. n : i # 0 => i \in 1 .. n
    OBVIOUS
  <2>2. \A i \in 0 .. n : g[i] = Step(g)[i]
    BY <1>2, <2>1, Zenon DEF Past
  <2>3. g = [i \in 0 .. n |-> g[i]]
    BY <1>2, Zenon DEF Past
  <2> HIDE DEF n
  <2> QED BY <2>2, <2>3, Zenon
<1>4. f = Step(f)
  BY <1>3, Zenon
<1> HIDE DEF f
<1>5. Past(f, records, n)
  <2>1. f[0] = 1
    BY <1>4
  <2>2. \A i \in 1 .. n : f[i] = IF records[i].ccbid > f[i - 1] THEN records[i].ccbid + 1 ELSE f[i - 1]
    BY <1>4
  <2>3. f = [i \in 0 .. n |-> f[i]]
    BY <1>4, Zenon
  <2> QED BY <2>1, <2>2, <2>3, Zenon DEF Past
<1> QED BY <1>1, <1>5, Zenon

(* What Loaded goes through. *)
LEMMA LoadedIs ==
  ASSUME NEW records, Len(records) \in Nat
  PROVE  \E f : Filled(f, records, Len(records)) /\ Loaded(records) = f[Len(records)]
<1> DEFINE n == Len(records)
           Step(h) == [i \in 0 .. n |->
             IF i = 0 THEN <<>> ELSE With(h[i - 1], records[i].ccbid, Info(records[i], 0))]
           f == CHOOSE h : h = Step(h)
<1>1. Loaded(records) = f[n]
  BY Zenon DEF Loaded
<1>2. PICK g : Filled(g, records, n)
  BY FilledExists, Zenon
<1>3. g = Step(g)
  <2>1. \A i \in 0 .. n : i # 0 => i \in 1 .. n
    OBVIOUS
  <2>2. \A i \in 0 .. n : g[i] = Step(g)[i]
    BY <1>2, <2>1, Zenon DEF Filled
  <2>3. g = [i \in 0 .. n |-> g[i]]
    BY <1>2, Zenon DEF Filled
  <2> HIDE DEF n
  <2> QED BY <2>2, <2>3, Zenon
<1>4. f = Step(f)
  BY <1>3, Zenon
<1> HIDE DEF f
<1>5. Filled(f, records, n)
  <2>1. f[0] = <<>>
    BY <1>4
  <2>2. \A i \in 1 .. n : f[i] = With(f[i - 1], records[i].ccbid, Info(records[i], 0))
    BY <1>4
  <2>3. f = [i \in 0 .. n |-> f[i]]
    BY <1>4, Zenon
  <2> QED BY <2>1, <2>2, <2>3, Zenon DEF Filled
<1> QED BY <1>1, <1>5, Zenon

(* After the first k lines the next id is at or past each of them. *)
LEMMA PastEach ==
  ASSUME NEW records \in Seq(ReconnectLine), NEW f, Past(f, records, Len(records)),
         NEW k \in 0 .. Len(records)
  PROVE  f[k] \in Nat \ {0} /\ \A i \in 1 .. k : records[i].ccbid <= f[k]
<1> DEFINE P(j) == f[j] \in Nat \ {0} /\ \A i \in 1 .. j : records[i].ccbid <= f[j]
           B == {j \in 0 .. Len(records) : ~P(j)}
<1>0. Len(records) \in Nat /\ \A i \in 1 .. Len(records) : records[i] \in ReconnectLine
  OBVIOUS
<1> SUFFICES ASSUME B # {} PROVE FALSE
  BY Zenon
<1>1. B \subseteq Nat
  BY <1>0
<1>2. PICK j \in B : \A m \in B : j <= m
  BY <1>1, LeastExists, Zenon
<1>3. j \in 0 .. Len(records) /\ ~P(j)
  BY <1>2, Zenon
<1>4. CASE j = 0
  <2>1. f[0] = 1
    BY Zenon DEF Past
  <2>2. P(0)
    BY <2>1
  <2> QED BY <1>3, <1>4, <2>2, Zenon
<1>5. CASE j # 0
  <2>1. j - 1 \in 0 .. Len(records) /\ ~(j <= j - 1) /\ j \in 1 .. Len(records)
    BY <1>0, <1>3, <1>5
  <2>2. P(j - 1)
    BY <1>2, <2>1, Zenon
  <2>3. f[j] = IF records[j].ccbid > f[j - 1] THEN records[j].ccbid + 1 ELSE f[j - 1]
    BY <2>1, Zenon DEF Past
  <2>4. \A i \in 1 .. Len(records) : records[i].ccbid \in Nat
    BY <1>0, Zenon DEF ReconnectLine, CCBIDs
  <2> DEFINE x == f[j - 1]
             y == records[j].ccbid
  <2>5. /\ x \in Nat \ {0} /\ y \in Nat /\ f[j] = IF y > x THEN y + 1 ELSE x
        /\ \A i \in 1 .. j - 1 : records[i].ccbid <= x
        /\ \A i \in 1 .. Len(records) : records[i].ccbid \in Nat
    BY <2>1, <2>2, <2>3, <2>4, Zenon
  <2> HIDE DEF x
  <2>6. f[j] \in Nat \ {0} /\ x <= f[j] /\ y <= f[j]
    <3> HIDE DEF y
    <3> QED BY <2>5
  <2>7. \A i \in 1 .. j : i \in 1 .. Len(records) /\ (i \in 1 .. j - 1 \/ i = j)
    BY <1>0, <2>1
  <2>8. ASSUME NEW i \in 1 .. j PROVE records[i].ccbid <= f[j]
    <3> DEFINE z == records[i].ccbid
    <3>1. CASE i = j
      BY <2>6, <3>1, Zenon
    <3>2. CASE i \in 1 .. j - 1
      <4>1. z <= x /\ z \in Nat
        BY <2>5, <2>7, <3>2, Zenon
      <4> HIDE DEF z
      <4>2. z <= f[j]
        BY <2>5, <2>6, <4>1
      <4> QED BY <4>2, Zenon DEF z
    <3> QED BY <2>7, <3>1, <3>2, Zenon
  <2>9. P(j)
    BY <2>6, <2>8, Zenon
  <2> QED BY <1>3, <2>9, Zenon
<1> QED BY <1>4, <1>5, Zenon

(* Where the next id stands after the last line: at or past every id of the file. *)
LEMMA PastLinesFacts ==
  ASSUME NEW records \in Seq(ReconnectLine)
  PROVE  /\ PastLines(records) \in Nat \ {0}
         /\ \A i \in 1 .. Len(records) : records[i].ccbid <= PastLines(records)
<1>1. Len(records) \in Nat /\ Len(records) \in 0 .. Len(records)
  OBVIOUS
<1>2. PICK f : Past(f, records, Len(records)) /\ PastLines(records) = f[Len(records)]
  BY <1>1, PastLinesIs, Zenon
<1>3. f[Len(records)] \in Nat \ {0} /\ \A i \in 1 .. Len(records) : records[i].ccbid <= f[Len(records)]
  BY <1>1, <1>2, PastEach, Zenon
<1> QED BY <1>2, <1>3, Zenon

(* A record is added to a table. *)
LEMMA InfoWith ==
  ASSUME NEW f, InfoOK(f), NEW id \in CCBIDs, NEW x \in ReconnectInfo
  PROVE  InfoOK(With(f, id, x)) /\ DOMAIN With(f, id, x) = DOMAIN f \cup {id}
<1>1. DOMAIN With(f, id, x) = DOMAIN f \cup {id}
  BY Zenon DEF With
<1>2. IsFiniteSet(DOMAIN f \cup {id})
  BY FS_AddElement, Zenon DEF InfoOK
<1>3. \A i \in DOMAIN f \cup {id} : With(f, id, x)[i] \in ReconnectInfo
  BY Zenon DEF With, InfoOK
<1> QED BY <1>1, <1>2, <1>3, Zenon DEF InfoOK

(* A line of the file makes a record. *)
LEMMA InfoType ==
  ASSUME NEW r, r.cookie \in Cookies, r.ip \in IPs, NEW n \in 0 .. 2
  PROVE  Info(r, n) \in ReconnectInfo
BY Zenon DEF Info, ReconnectInfo

(* After the first k lines there is a table with ids of the file. *)
LEMMA FilledEach ==
  ASSUME NEW records \in Seq(ReconnectLine), NEW f, Filled(f, records, Len(records)),
         NEW k \in 0 .. Len(records)
  PROVE  InfoOK(f[k]) /\ DOMAIN f[k] \subseteq {records[i].ccbid : i \in 1 .. Len(records)}
<1> DEFINE Ids == {records[i].ccbid : i \in 1 .. Len(records)}
           P(j) == InfoOK(f[j]) /\ DOMAIN f[j] \subseteq Ids
           B == {j \in 0 .. Len(records) : ~P(j)}
<1>0. Len(records) \in Nat /\ \A i \in 1 .. Len(records) : records[i] \in ReconnectLine
  OBVIOUS
<1> SUFFICES ASSUME B # {} PROVE FALSE
  BY Zenon
<1>1. B \subseteq Nat
  BY <1>0
<1>2. PICK j \in B : \A m \in B : j <= m
  BY <1>1, LeastExists, Zenon
<1>3. j \in 0 .. Len(records) /\ ~P(j)
  BY <1>2, Zenon
<1>4. CASE j = 0
  <2>1. f[0] = <<>>
    BY Zenon DEF Filled
  <2>2. DOMAIN f[0] = {}
    BY <2>1
  <2>3. P(0)
    BY <2>2, FS_EmptySet, Zenon DEF InfoOK
  <2> QED BY <1>3, <1>4, <2>3, Zenon
<1>5. CASE j # 0
  <2>1. j - 1 \in 0 .. Len(records) /\ ~(j <= j - 1) /\ j \in 1 .. Len(records)
    BY <1>0, <1>3, <1>5
  <2>2. P(j - 1)
    BY <1>2, <2>1, Zenon
  <2>3. f[j] = With(f[j - 1], records[j].ccbid, Info(records[j], 0))
    BY <2>1, Zenon DEF Filled
  <2>4. records[j].ccbid \in CCBIDs /\ records[j].cookie \in Cookies /\ records[j].ip \in IPs
    BY <1>0, <2>1, Zenon DEF ReconnectLine
  <2>5. 0 \in 0 .. 2
    OBVIOUS
  <2>6. Info(records[j], 0) \in ReconnectInfo
    BY <2>4, <2>5, InfoType, Zenon
  <2>7. InfoOK(f[j]) /\ DOMAIN f[j] = DOMAIN f[j - 1] \cup {records[j].ccbid}
    <3>1. InfoOK(f[j - 1])
      BY <2>2, Zenon
    <3> DEFINE g == f[j - 1]
               id == records[j].ccbid
               x == Info(records[j], 0)
    <3> HIDE DEF g, id, x
    <3>2. InfoOK(With(g, id, x)) /\ DOMAIN With(g, id, x) = DOMAIN g \cup {id}
      BY <2>4, <2>6, <3>1, InfoWith, Zenon DEF g, id, x
    <3> QED BY <2>3, <3>2, Zenon DEF g, id, x
  <2>8. P(j)
    BY <2>1, <2>2, <2>7, Zenon
  <2> QED BY <1>3, <2>8, Zenon
<1> QED BY <1>4, <1>5, Zenon

(* What LoadReconnectInfo loads: the ids are below the one it starts from. *)
LEMMA LoadFacts ==
  ASSUME NEW records \in Seq(ReconnectLine)
  PROVE  /\ LoadNext(records) \in Nat \ {0}
         /\ InfoOK(Loaded(records))
         /\ \A i \in DOMAIN Loaded(records) : i < LoadNext(records)
<1>1. Len(records) \in Nat /\ Len(records) \in 0 .. Len(records)
  OBVIOUS
<1>2. PICK f : Filled(f, records, Len(records)) /\ Loaded(records) = f[Len(records)]
  BY <1>1, LoadedIs, Zenon
<1>3. InfoOK(Loaded(records)) /\ DOMAIN Loaded(records) \subseteq {records[i].ccbid : i \in 1 .. Len(records)}
  BY <1>1, <1>2, FilledEach, Zenon
<1>4. /\ PastLines(records) \in Nat \ {0}
      /\ \A i \in 1 .. Len(records) : records[i].ccbid <= PastLines(records)
  BY PastLinesFacts, Zenon
<1>5. \A i \in DOMAIN Loaded(records) : i \in Nat /\ i <= PastLines(records)
  BY <1>3, <1>4, Zenon DEF InfoOK, CCBIDs
<1>6. Jump \in Nat \ {0}
  BY CCBAssumption
<1>7. LoadNext(records) = Jump + PastLines(records)
  BY Zenon DEF LoadNext
<1> HIDE DEF InfoOK
<1>8. LoadNext(records) \in Nat \ {0} /\ \A i \in DOMAIN Loaded(records) : i < LoadNext(records)
  BY <1>4, <1>5, <1>6, <1>7
<1> QED BY <1>3, <1>8, Zenon

(* A finite set of numbers has an element with n elements up to it. *)
LEMMA Ranks ==
  ASSUME NEW S, IsFiniteSet(S), S \subseteq Nat, NEW n \in 1 .. Cardinality(S)
  PROVE  \E i \in S : Cardinality({j \in S : j <= i}) = n
<1> DEFINE Ranked(T, m) == \E i \in T : Cardinality({j \in T : j <= i}) = m
           Odd(T) == /\ IsFiniteSet(T) /\ T \subseteq Nat
                     /\ \E m \in 1 .. Cardinality(T) : ~Ranked(T, m)
           B == {k \in Nat : \E T : Odd(T) /\ Cardinality(T) = k}
<1>0. Cardinality(S) \in Nat
  BY FS_CardinalityType, Zenon
<1> SUFFICES ASSUME B # {} PROVE FALSE
  BY <1>0, Zenon
<1>1. PICK k \in B : \A m \in B : k <= m
  BY LeastExists, Zenon
<1>2. PICK T : Odd(T) /\ Cardinality(T) = k
  BY <1>1, Zenon
<1>3. PICK m \in 1 .. k : ~Ranked(T, m)
  BY <1>2, Zenon
<1>4. IsFiniteSet(T) /\ T \subseteq Nat /\ k \in Nat /\ k # 0
  BY <1>1, <1>2, <1>3
<1>5. T # {}
  BY <1>2, <1>4, FS_EmptySet, Zenon
<1>6. PICK x \in T : \A y \in T : x <= y
  BY <1>4, <1>5, LeastExists, Zenon
<1> DEFINE U == T \ {x}
<1>7. IsFiniteSet(U) /\ Cardinality(U) = k - 1 /\ U \subseteq Nat
  BY <1>2, <1>4, <1>6, FS_RemoveElement, Zenon
<1>8. ASSUME NEW q \in 1 .. k - 1 PROVE Ranked(U, q)
  <2>1. k - 1 \in Nat /\ ~(k <= k - 1)
    BY <1>4
  <2>2. k - 1 \notin B
    BY <1>1, <2>1, Zenon
  <2> QED BY <1>7, <1>8, <2>1, <2>2, Zenon
<1>9. CASE m = 1
  <2>1. \A j \in T : j <= x <=> j = x
    BY <1>4, <1>6
  <2>2. {j \in T : j <= x} = {x}
    BY <1>6, <2>1, Zenon
  <2>3. Cardinality({j \in T : j <= x}) = 1
    BY <2>2, FS_Singleton, Zenon
  <2> QED BY <1>3, <1>6, <1>9, <2>3, Zenon
<1>10. CASE m # 1
  <2>1. m - 1 \in 1 .. k - 1 /\ (m - 1) + 1 = m
    BY <1>3, <1>4, <1>10
  <2>2. PICK i \in U : Cardinality({j \in U : j <= i}) = m - 1
    BY <1>8, <2>1, Zenon
  <2> DEFINE V == {j \in U : j <= i}
  <2>3. {j \in T : j <= i} = V \cup {x} /\ x \notin V
    BY <1>4, <1>6
  <2>4. IsFiniteSet(V)
    BY <1>7, FS_Subset, Zenon
  <2> HIDE DEF V
  <2>5. Cardinality(V \cup {x}) = Cardinality(V) + 1
    BY <2>3, <2>4, FS_AddElement, Zenon
  <2>6. Cardinality({j \in T : j <= i}) = m
    BY <2>1, <2>2, <2>3, <2>5, Zenon DEF V
  <2> QED BY <1>3, <2>2, <2>6, Zenon
<1> QED BY <1>9, <1>10, Zenon

(* SaveAllReconnectInfo writes records. *)
LEMMA RewriteType ==
  ASSUME NEW f, InfoOK(f), Rewrite(f) # None
  PROVE  Rewrite(f) \in Seq(ReconnectLine)
<1> DEFINE ids == DOMAIN f
           line(n) == CHOOSE i \in ids : SizeOf({j \in ids : j <= i}) = n
           r(n) == [ccbid |-> line(n), cookie |-> f[line(n)].cookie, ip |-> f[line(n)].ip]
           c == SizeOf(ids)
<1>1. Rewrite(f) = [n \in 1 .. c |-> r(n)]
  BY RewriteIs, Zenon
<1>2. c \in Nat
  BY FS_CardinalityType, SizeIsCardinality, Zenon DEF InfoOK
<1>3. ASSUME NEW n \in 1 .. c PROVE r(n) \in ReconnectLine
  <2>1. \E i \in ids : SizeOf({j \in ids : j <= i}) = n
    <3>1. n \in 1 .. Cardinality(ids)
      BY SizeIsCardinality, Zenon
    <3>2. PICK i \in ids : Cardinality({j \in ids : j <= i}) = n
      BY <3>1, Ranks, Zenon DEF InfoOK, CCBIDs
    <3> QED BY <3>2, SizeIsCardinality, Zenon
  <2>2. line(n) \in ids
    BY <2>1, Zenon
  <2> HIDE DEF line
  <2>3. line(n) \in CCBIDs /\ f[line(n)] \in ReconnectInfo
    BY <2>2, Zenon DEF InfoOK
  <2> QED BY <2>3, Zenon DEF ReconnectInfo, ReconnectLine
<1> HIDE DEF r, c
<1>4. [n \in 1 .. c |-> r(n)] \in Seq(ReconnectLine)
  BY <1>2, <1>3
<1> QED BY <1>1, <1>4, Zenon

-----------------------------------------------------------------------------
(* The types of the tables and of the file. *)

StoreInv ==
  /\ up \in BOOLEAN /\ committed \in BOOLEAN /\ pruned \in BOOLEAN
  /\ m_next_ccbid \in Nat \ {0}
  /\ InfoOK(m_reconnect_info)
  /\ disk # None => disk \in Seq(ReconnectLine)
  /\ buffer \in Seq(ReconnectLine)

(* What the broker keeps of its ids, in memory and in the file. *)
store == <<up, m_next_ccbid, m_reconnect_info, disk, buffer, committed, pruned>>

(* There is nothing in the tables at the start. *)
LEMMA InitStore == Init => StoreInv
<1> SUFFICES ASSUME Init PROVE StoreInv
  OBVIOUS
<1>1. /\ up = TRUE /\ committed = TRUE /\ pruned = FALSE /\ m_next_ccbid = 1
      /\ m_reconnect_info = <<>> /\ disk = None /\ buffer = <<>>
  BY Zenon DEF Init
<1>2. DOMAIN m_reconnect_info = {} /\ m_next_ccbid \in Nat \ {0} /\ buffer \in Seq(ReconnectLine)
  BY <1>1
<1>3. InfoOK(m_reconnect_info)
  BY <1>2, FS_EmptySet, Zenon DEF InfoOK
<1> QED BY <1>1, <1>2, <1>3, Zenon DEF StoreInv

(* The record that AddTarget writes. *)
LEMMA AddFacts ==
  ASSUME TablesInv, StoreInv, NEW c \in Conns, conn[c] # None, NEW msg, AddTarget(c, msg)
  PROVE  \E id \in NextFree(m_next_ccbid, DOMAIN m_reconnect_info \cup DOMAIN m_targets) :
           LET cookie == <<boots, id>>
               r == [ccbid |-> id, cookie |-> cookie, ip |-> conn[c].ip]
               x == [cookie |-> cookie, ip |-> conn[c].ip, missed |-> 0]
           IN  /\ id \in Nat /\ cookie \in Cookies /\ r \in ReconnectLine /\ x \in ReconnectInfo
               /\ Len(buffer) < MaxUnflushed
               /\ m_next_ccbid' = id + 1
               /\ m_targets' = With(m_targets, id, Target(c))
               /\ m_reconnect_info' = With(m_reconnect_info, id, x)
               /\ disk' = IF disk = None THEN <<>> ELSE disk
               /\ buffer' = Append(buffer, r)
               /\ conn' = [conn EXCEPT ![c] = Reply(conn[c], id, cookie)]
               /\ UNCHANGED <<m_requests, client>>
<1>1. PICK id \in NextFree(m_next_ccbid, DOMAIN m_reconnect_info \cup DOMAIN m_targets) :
        LET cookie == <<boots, id>>
            r == [ccbid |-> id, cookie |-> cookie, ip |-> conn[c].ip]
            x == [cookie |-> cookie, ip |-> conn[c].ip, missed |-> 0]
        IN  /\ Len(buffer) < MaxUnflushed
            /\ m_next_ccbid' = id + 1
            /\ m_targets' = With(m_targets, id, Target(c))
            /\ m_reconnect_info' = With(m_reconnect_info, id, x)
            /\ disk' = IF disk = None THEN <<>> ELSE disk
            /\ buffer' = Append(buffer, r)
            /\ conn' = [conn EXCEPT ![c] = Reply(conn[c], id, cookie)]
            /\ UNCHANGED <<m_requests, client>>
  BY Zenon DEF AddTarget
<1>2. id \in CCBIDs
  BY Zenon DEF NextFree
<1>3. conn[c].ip \in IPs
  <2>1. conn[c] \in Connections
    BY TablesParts, Zenon
  <2> QED BY <2>1, Zenon DEF Connections
<1>4. <<boots, id>> \in Cookies
  BY <1>2, TablesParts, Zenon DEF PeersOK, Cookies, CCBIDs
<1>5. 0 \in 0 .. 2
  OBVIOUS
<1> DEFINE r == [ccbid |-> id, cookie |-> <<boots, id>>, ip |-> conn[c].ip]
           x == [cookie |-> <<boots, id>>, ip |-> conn[c].ip, missed |-> 0]
<1>6. id \in Nat /\ r \in ReconnectLine /\ x \in ReconnectInfo
  BY <1>2, <1>3, <1>4, <1>5, Zenon DEF ReconnectLine, ReconnectInfo, CCBIDs
<1> QED BY <1>1, <1>4, <1>6, Zenon

(* A daemon registers. *)
LEMMA RegistrationStore ==
  ASSUME TablesInv, StoreInv, NEW c \in Conns, HandleRegistration(c)
  PROVE  StoreInv'
<1> DEFINE msg == Head(conn[c].toBroker)
<1>1. /\ Incoming(c, "CCB_REGISTER") /\ (Reconnected(c, msg) \/ AddTarget(c, msg))
      /\ UNCHANGED <<up, committed, pruned>>
  BY Zenon DEF HandleRegistration, ghosts
<1>2. conn[c] # None
  BY <1>1, IncomingFacts, Zenon
<1> HIDE DEF msg
<1>3. CASE Reconnected(c, msg)
  <2>1. /\ m_reconnect_info' = [m_reconnect_info EXCEPT ![msg.ccbid].missed = 0]
        /\ UNCHANGED <<m_next_ccbid, disk, buffer>>
    BY <1>3, Zenon DEF Reconnected
  <2>2. DOMAIN m_reconnect_info' = DOMAIN m_reconnect_info
    BY <2>1, Zenon
  <2>3. 0 \in 0 .. 2
    OBVIOUS
  <2>4. \A i \in DOMAIN m_reconnect_info : m_reconnect_info'[i] \in ReconnectInfo
    BY <2>1, <2>3, Zenon DEF StoreInv, InfoOK, ReconnectInfo
  <2>5. InfoOK(m_reconnect_info')
    BY <2>2, <2>4, Zenon DEF StoreInv, InfoOK
  <2> QED BY <1>1, <2>1, <2>5, Zenon DEF StoreInv
<1>4. CASE AddTarget(c, msg)
  <2>1. PICK id \in Nat, x \in ReconnectInfo, r \in ReconnectLine :
          /\ m_next_ccbid' = id + 1
          /\ m_reconnect_info' = With(m_reconnect_info, id, x)
          /\ disk' = IF disk = None THEN <<>> ELSE disk
          /\ buffer' = Append(buffer, r)
    BY <1>2, <1>4, AddFacts, Zenon
  <2>2. InfoOK(m_reconnect_info')
    BY <2>1, InfoWith, Zenon DEF StoreInv, CCBIDs
  <2>3. m_next_ccbid' \in Nat \ {0} /\ <<>> \in Seq(ReconnectLine)
    BY <2>1
  <2>4. buffer' \in Seq(ReconnectLine)
    <3>1. buffer \in Seq(ReconnectLine)
      BY Zenon DEF StoreInv
    <3> QED BY <2>1, <3>1
  <2>5. disk' # None => disk' \in Seq(ReconnectLine)
    BY <2>1, <2>3, Zenon DEF StoreInv
  <2> QED BY <1>1, <2>2, <2>3, <2>4, <2>5, Zenon DEF StoreInv
<1> QED BY <1>1, <1>3, <1>4, Zenon

(* What is flushed. *)
LEMMA FlushedType ==
  ASSUME StoreInv, disk # None, NEW n \in 0 .. Len(buffer)
  PROVE  /\ disk \in Seq(ReconnectLine) /\ buffer \in Seq(ReconnectLine)
         /\ disk \o buffer \in Seq(ReconnectLine)
         /\ SubSeq(buffer, 1, n) \in Seq(ReconnectLine)
         /\ disk \o SubSeq(buffer, 1, n) \in Seq(ReconnectLine)
<1>1. disk \in Seq(ReconnectLine) /\ buffer \in Seq(ReconnectLine)
  BY Zenon DEF StoreInv
<1>2. SubSeq(buffer, 1, n) \in Seq(ReconnectLine)
  BY <1>1
<1>3. disk \o buffer \in Seq(ReconnectLine)
  BY <1>1
<1>4. disk \o SubSeq(buffer, 1, n) \in Seq(ReconnectLine)
  BY <1>1, <1>2
<1> QED BY <1>1, <1>2, <1>3, <1>4, Zenon

(* The buffer is flushed by a poll. *)
LEMMA PollStore ==
  ASSUME StoreInv, Poll
  PROVE  StoreInv'
<1>1. /\ disk' = Flushed /\ buffer' = <<>> /\ committed' = TRUE
      /\ UNCHANGED <<up, m_next_ccbid, m_reconnect_info, pruned>>
  BY Zenon DEF Poll, broker
<1>2. buffer' \in Seq(ReconnectLine) /\ committed' \in BOOLEAN
  BY <1>1
<1>3. 0 \in 0 .. Len(buffer)
  <2>1. buffer \in Seq(ReconnectLine)
    BY Zenon DEF StoreInv
  <2> QED BY <2>1
<1>4. disk' # None => disk' \in Seq(ReconnectLine)
  BY <1>1, <1>3, FlushedType, Zenon DEF Flushed
<1> QED BY <1>1, <1>2, <1>4, Zenon DEF StoreInv

(* Records expire. *)
LEMMA SweepStore ==
  ASSUME StoreInv, SweepReconnectInfo
  PROVE  StoreInv'
<1>1. PICK gone \in Expired(Seen) :
        /\ m_reconnect_info' = Without(Seen, gone)
        /\ disk' = IF gone = {} THEN Flushed ELSE Rewrite(m_reconnect_info')
        /\ buffer' = <<>>
        /\ committed' = (committed \/ buffer # <<>>)
        /\ pruned' = (pruned \/ gone # {})
        /\ UNCHANGED <<up, m_next_ccbid>>
  BY Zenon DEF SweepReconnectInfo
<1>2. DOMAIN Seen = DOMAIN m_reconnect_info
  BY Zenon DEF Seen
<1>3. DOMAIN m_reconnect_info' = DOMAIN m_reconnect_info \ gone
  BY <1>1, <1>2, WithoutIs, Zenon
<1>4. IsFiniteSet(DOMAIN m_reconnect_info')
  BY <1>3, FS_Subset, Zenon DEF StoreInv, InfoOK
<1>5. ASSUME NEW i \in DOMAIN m_reconnect_info' PROVE m_reconnect_info'[i] \in ReconnectInfo
  <2>1. i \in DOMAIN m_reconnect_info /\ i \notin gone /\ m_reconnect_info'[i] = Seen[i]
    BY <1>1, <1>2, <1>3, <1>5, WithoutIs, Zenon
  <2> DEFINE old == m_reconnect_info[i]
             n == IF i \in DOMAIN m_targets THEN 0 ELSE old.missed + 1
  <2>2. Seen[i] = Info(old, n) /\ Seen[i].missed = n
    BY <2>1, Zenon DEF Seen, Info
  <2>3. {j \in DOMAIN Seen : Seen[j].missed = 3} \subseteq gone
    BY Zenon DEF Expired
  <2>4. Seen[i].missed # 3
    BY <1>2, <2>1, <2>3, Zenon
  <2>5. old \in ReconnectInfo
    BY <2>1, Zenon DEF StoreInv, InfoOK
  <2>6. old.cookie \in Cookies /\ old.ip \in IPs /\ old.missed \in 0 .. 2
    BY <2>5, Zenon DEF ReconnectInfo
  <2>7. n \in 0 .. 2
    <3>1. n # 3
      BY <2>2, <2>4, Zenon
    <3> QED BY <2>6, <3>1
  <2> HIDE DEF n
  <2>8. Info(old, n) \in ReconnectInfo
    BY <2>6, <2>7, InfoType, Zenon
  <2> QED BY <2>1, <2>2, <2>8, Zenon
<1>6. InfoOK(m_reconnect_info')
  BY <1>3, <1>4, <1>5, Zenon DEF StoreInv, InfoOK
<1>7. buffer \in Seq(ReconnectLine)
  BY Zenon DEF StoreInv
<1>8. buffer' \in Seq(ReconnectLine) /\ 0 \in 0 .. Len(buffer)
  BY <1>1, <1>7
<1>9. disk' # None => disk' \in Seq(ReconnectLine)
  BY <1>1, <1>6, <1>8, FlushedType, RewriteType, Zenon DEF Flushed
<1>10. committed' \in BOOLEAN /\ pruned' \in BOOLEAN
  BY <1>1, Zenon DEF StoreInv
<1> QED BY <1>1, <1>6, <1>8, <1>9, <1>10, Zenon DEF StoreInv

(* The broker dies. *)
LEMMA CrashStore ==
  ASSUME StoreInv, Crash
  PROVE  StoreInv'
<1>1. PICK n \in 0 .. Len(buffer) :
        /\ disk' = IF disk = None THEN None ELSE disk \o SubSeq(buffer, 1, n)
        /\ pruned' = (pruned \/ (n = 0 /\ buffer # <<>> /\ ~committed))
  BY Zenon DEF Crash
<1>2. /\ up' = FALSE /\ buffer' = <<>> /\ m_next_ccbid' = 1 /\ m_reconnect_info' = <<>>
      /\ UNCHANGED committed
  BY Zenon DEF Crash
<1>3. m_next_ccbid' \in Nat \ {0} /\ DOMAIN m_reconnect_info' = {} /\ buffer' \in Seq(ReconnectLine)
  BY <1>2
<1>4. InfoOK(m_reconnect_info')
  BY <1>3, FS_EmptySet, Zenon DEF InfoOK
<1>5. disk' # None => disk' \in Seq(ReconnectLine)
  BY <1>1, FlushedType, Zenon
<1>6. up' \in BOOLEAN /\ pruned' \in BOOLEAN
  BY <1>1, <1>2, Zenon DEF StoreInv
<1> QED BY <1>2, <1>3, <1>4, <1>5, <1>6, Zenon DEF StoreInv

(* The broker is started again. *)
LEMMA RestartStore ==
  ASSUME StoreInv, InitAndReconfig
  PROVE  StoreInv'
<1>1. /\ up' = TRUE /\ committed' = FALSE
      /\ m_next_ccbid' = IF disk = None THEN 1 ELSE LoadNext(disk)
      /\ m_reconnect_info' = IF disk = None THEN <<>> ELSE Loaded(disk)
      /\ UNCHANGED <<disk, buffer, pruned>>
  BY Zenon DEF InitAndReconfig, file
<1>2. CASE disk = None
  <2>1. m_next_ccbid' = 1 /\ m_reconnect_info' = <<>>
    BY <1>1, <1>2, Zenon
  <2>2. m_next_ccbid' \in Nat \ {0} /\ DOMAIN m_reconnect_info' = {}
    BY <2>1
  <2>3. InfoOK(m_reconnect_info')
    BY <2>2, FS_EmptySet, Zenon DEF InfoOK
  <2> QED BY <1>1, <2>2, <2>3, Zenon DEF StoreInv
<1>3. CASE disk # None
  <2>1. disk \in Seq(ReconnectLine)
    BY <1>3, Zenon DEF StoreInv
  <2>2. m_next_ccbid' \in Nat \ {0} /\ InfoOK(m_reconnect_info')
    BY <1>1, <1>3, <2>1, LoadFacts, Zenon
  <2> QED BY <1>1, <2>2, Zenon DEF StoreInv
<1> QED BY <1>2, <1>3, Zenon

(* The other steps change nothing of it. *)
LEMMA StoreStays ==
  ASSUME \/ \E c \in Conns : HandleRequestResultsMsg(c) \/ TargetDisconnect(c) \/ Cut(c)
         \/ \E p \in Clients, l \in Listeners : HandleRequest(p, l)
         \/ \E r \in DOMAIN m_requests : HandleRequestDisconnect(r)
         \/ \E l \in Listeners : Daemon(l) \/ Move(l)
         \/ \E v \in reversing, success \in BOOLEAN : ReverseConnected(v, success)
         \/ UNCHANGED vars
  PROVE  UNCHANGED store
<1>1. ASSUME NEW c \in Conns, HandleRequestResultsMsg(c) PROVE UNCHANGED store
  BY <1>1, Zenon DEF HandleRequestResultsMsg, RemoveTarget, RequestFinished, store, broker, file, ghosts
<1>2. ASSUME NEW c \in Conns, TargetDisconnect(c) \/ Cut(c) PROVE UNCHANGED store
  BY <1>2, Zenon DEF TargetDisconnect, Cut, RemoveTarget, store, broker, file, ghosts
<1>3. ASSUME NEW p \in Clients, NEW l \in Listeners, HandleRequest(p, l) PROVE UNCHANGED store
  BY <1>3, Zenon DEF HandleRequest, store, broker, file, ghosts
<1>4. ASSUME NEW r \in DOMAIN m_requests, HandleRequestDisconnect(r) PROVE UNCHANGED store
  BY <1>4, Zenon DEF HandleRequestDisconnect, store, file, ghosts
<1>5. ASSUME NEW l \in Listeners, Daemon(l) \/ Move(l) PROVE UNCHANGED store
  BY <1>5, Zenon DEF Daemon, Move, ReconnectTime, CCBConnectCallback, ReadMsgFromCCB,
       ListenerDisconnect, HeartbeatTime, Hangup, DaemonStep, store, broker, file
<1>6. ASSUME NEW v \in reversing, NEW success \in BOOLEAN, ReverseConnected(v, success)
      PROVE  UNCHANGED store
  BY <1>6, Zenon DEF ReverseConnected, store, broker, file, ghosts
<1>7. UNCHANGED vars => UNCHANGED store
  BY Zenon DEF vars, store, broker, file, ghosts
<1> QED BY <1>1, <1>2, <1>3, <1>4, <1>5, <1>6, <1>7, Zenon

(* Every step keeps the types. *)
LEMMA NextStore == TablesInv /\ StoreInv /\ [Next]_vars => StoreInv'
<1> SUFFICES ASSUME TablesInv, StoreInv, [Next]_vars PROVE StoreInv'
  BY Zenon
<1>1. UNCHANGED store => StoreInv'
  BY Zenon DEF StoreInv, store
<1> QED BY <1>1, StoreStays, RegistrationStore, PollStore, SweepStore, CrashStore, RestartStore, Zenon
      DEF Next, Broker, Receive

-----------------------------------------------------------------------------
(* No id is given twice. *)

(* Where a file would leave the next id is a number. *)
LEMMA PastNumber ==
  ASSUME NEW d, d # None => d \in Seq(ReconnectLine)
  PROVE  (IF d = None THEN 1 ELSE PastLines(d)) \in Nat \ {0}
<1>1. d # None => PastLines(d) \in Nat \ {0}
  BY PastLinesFacts, Zenon
<1>2. 1 \in Nat \ {0}
  OBVIOUS
<1> QED BY <1>1, <1>2, Zenon

(* The numbers are numbers. *)
LEMMA Numbers ==
  ASSUME StoreInv
  PROVE  /\ PastDisk \in Nat \ {0} /\ m_next_ccbid \in Nat \ {0} /\ IdFloor \in Nat
         /\ Jump \in Nat /\ MaxUnflushed \in Nat /\ MaxUnflushed < Jump
         /\ Len(buffer) \in Nat
         /\ buffer # <<>> => Len(buffer) # 0
<1>2. PastDisk \in Nat \ {0}
  BY PastNumber, Zenon DEF StoreInv, PastDisk
<1>3. m_next_ccbid \in Nat \ {0} /\ buffer \in Seq(ReconnectLine)
  BY Zenon DEF StoreInv
<1>4. Len(buffer) \in Nat /\ (buffer # <<>> => Len(buffer) # 0)
  BY <1>3
<1>5. Jump \in Nat /\ MaxUnflushed \in Nat /\ MaxUnflushed < Jump
  BY CCBAssumption, Zenon
<1>6. Jump + PastDisk \in Nat
  BY <1>2, <1>5
<1>7. IdFloor \in Nat
  BY <1>3, <1>6, Zenon DEF IdFloor
<1> QED BY <1>2, <1>3, <1>4, <1>5, <1>7, Zenon

(* There are no ids at the start. *)
LEMMA InitCounted == Init => IdsCounted
<1> SUFFICES ASSUME Init PROVE IdsCounted
  OBVIOUS
<1>1. /\ up = TRUE /\ committed = TRUE /\ m_next_ccbid = 1
      /\ m_reconnect_info = <<>> /\ disk = None /\ buffer = <<>>
  BY Zenon DEF Init
<1>2. Len(buffer) = 0 /\ DOMAIN m_reconnect_info = {} /\ PastDisk = 1
  BY <1>1 DEF PastDisk
<1>3. MaxUnflushed \in Nat
  BY CCBAssumption, Zenon
<1> QED BY <1>1, <1>2, <1>3 DEF IdsCounted

(* Nothing is given or flushed. *)
LEMMA FloorStays ==
  ASSUME StoreInv, IdsCounted, UNCHANGED store
  PROVE  FloorHolds
<1>1. IdsCounted'
  BY Zenon DEF store, IdsCounted, PastDisk
<1>2. IdFloor' = IdFloor
  BY Zenon DEF store, IdFloor, PastDisk
<1>3. IdFloor \in Nat
  BY Numbers, Zenon
<1>4. IdFloor <= IdFloor'
  BY <1>2, <1>3
<1> QED BY <1>1, <1>2, <1>3, <1>4, Zenon DEF FloorHolds, store

(* The search for a free id ends at once. *)
LEMMA NextIsFree ==
  ASSUME NEW n \in Nat, NEW used, \A i \in used : i < n, NEW id \in NextFree(n, used)
  PROVE  id = n
<1>1. id \in Nat /\ n <= id /\ n .. id - 1 \subseteq used
  BY DEF NextFree, CCBIDs
<1>2. n \notin used
  OBVIOUS
<1>3. n \notin n .. id - 1
  BY <1>1, <1>2, Zenon
<1> QED BY <1>1, <1>3

(* AddTarget gives the next id. *)
LEMMA AddFloor ==
  ASSUME TablesInv, StoreInv, RecordsInv, IdsCounted, up, UNCHANGED <<up, committed>>,
         NEW c \in Conns, conn[c] # None, NEW msg, AddTarget(c, msg), StoreInv'
  PROVE  /\ FloorHolds
         /\ disk' # None
         /\ IdFloor' = m_next_ccbid + 1
         /\ m_targets' = With(m_targets, m_next_ccbid, Target(c))
         /\ conn' = [conn EXCEPT ![c] = Reply(conn[c], m_next_ccbid, <<boots, m_next_ccbid>>)]
         /\ <<boots, m_next_ccbid>> \in Cookies
         /\ UNCHANGED client
<1>1. PICK id, x, r :
        /\ id \in NextFree(m_next_ccbid, DOMAIN m_reconnect_info \cup DOMAIN m_targets)
        /\ id \in Nat /\ <<boots, id>> \in Cookies /\ r \in ReconnectLine
        /\ r = [ccbid |-> id, cookie |-> <<boots, id>>, ip |-> conn[c].ip]
        /\ Len(buffer) < MaxUnflushed
        /\ m_next_ccbid' = id + 1
        /\ m_targets' = With(m_targets, id, Target(c))
        /\ m_reconnect_info' = With(m_reconnect_info, id, x)
        /\ disk' = IF disk = None THEN <<>> ELSE disk
        /\ buffer' = Append(buffer, r)
        /\ conn' = [conn EXCEPT ![c] = Reply(conn[c], id, <<boots, id>>)]
        /\ UNCHANGED client
  BY AddFacts, Zenon
<1>2. \A i \in DOMAIN m_reconnect_info \cup DOMAIN m_targets : i < m_next_ccbid
  BY Zenon DEF IdsCounted, RecordsInv, TargetsHaveRecords
<1>3. id = m_next_ccbid
  BY <1>1, <1>2, Numbers, NextIsFree, Zenon
<1>4. DOMAIN m_reconnect_info' = DOMAIN m_reconnect_info \cup {m_next_ccbid}
  BY <1>1, <1>3, Zenon DEF With
<1>5. /\ Len(buffer') = Len(buffer) + 1
      /\ \A k \in 1 .. Len(buffer') :
           \/ k \in 1 .. Len(buffer) /\ buffer'[k] = buffer[k]
           \/ k = Len(buffer) + 1 /\ buffer'[k] = r
  <2>1. buffer \in Seq(ReconnectLine)
    BY Zenon DEF StoreInv
  <2> QED BY <1>1, <2>1
<1>6. r.ccbid = m_next_ccbid
  BY <1>1, <1>3, Zenon
<1>7. disk' # None /\ PastDisk' = PastDisk
  <2>1. CASE disk # None
    BY <1>1, <2>1, Zenon DEF PastDisk
  <2>2. CASE disk = None
    <3>1. disk' = <<>> /\ Len(<<>>) = 0 /\ <<>> \in Seq(ReconnectLine)
      BY <1>1, <2>2
    <3>2. PastLines(<<>>) = 1
      <4>1. PICK f : Past(f, <<>>, Len(<<>>)) /\ PastLines(<<>>) = f[Len(<<>>)]
        BY <3>1, PastLinesIs
      <4> QED BY <3>1, <4>1, Zenon DEF Past
    <3>3. disk' # None
      BY <3>1, CCBAssumption, Zenon
    <3> QED BY <2>2, <3>1, <3>2, <3>3, Zenon DEF PastDisk
  <2> QED BY <2>1, <2>2, Zenon
<1> DEFINE N == m_next_ccbid
           n == Len(buffer)
           P == PastDisk
<1>8. /\ N \in Nat /\ n \in Nat /\ P \in Nat /\ MaxUnflushed \in Nat /\ Jump \in Nat
      /\ n < MaxUnflushed
  BY <1>1, Numbers, Zenon
<1>9. m_next_ccbid' = N + 1 /\ Len(buffer') = n + 1
  BY <1>1, <1>3, <1>5, Zenon
<1>10. \A i \in DOMAIN m_reconnect_info' : i < m_next_ccbid'
  <2>1. \A i \in DOMAIN m_reconnect_info : i \in Nat /\ i < N
    BY <1>2, Zenon DEF StoreInv, InfoOK, CCBIDs
  <2> HIDE DEF N
  <2> QED BY <1>4, <1>8, <1>9, <2>1 DEF N
<1>11. \A k \in 1 .. Len(buffer') : buffer'[k].ccbid = m_next_ccbid' - Len(buffer') + k - 1
  <2>1. \A k \in 1 .. n : buffer[k].ccbid = N - n + k - 1
    BY Zenon DEF IdsCounted
  <2>2. ASSUME NEW k \in 1 .. Len(buffer')
        PROVE  \/ k \in 1 .. n /\ buffer'[k].ccbid = buffer[k].ccbid
               \/ k = n + 1 /\ buffer'[k].ccbid = N
    BY <1>5, <1>6, Zenon
  <2> HIDE DEF N, n
  <2>3. \A k \in 1 .. Len(buffer') : buffer'[k].ccbid = (N + 1) - (n + 1) + k - 1
    BY <1>8, <1>9, <2>1, <2>2
  <2> QED BY <1>9, <2>3, Zenon
<1>12. up' /\ committed' => m_next_ccbid' <= PastDisk' + 1 + Len(buffer')
  <2>1. committed => N <= P + 1 + n
    BY Zenon DEF IdsCounted
  <2> HIDE DEF N, n, P
  <2>2. committed => N + 1 <= P + 1 + (n + 1)
    BY <1>8, <2>1
  <2> QED BY <1>7, <1>9, <2>2, Zenon DEF P
<1>13. buffer' # <<>> /\ Len(buffer') <= MaxUnflushed
  <2> HIDE DEF N, n, P
  <2>1. n + 1 <= MaxUnflushed /\ n + 1 # 0 /\ Len(<<>>) = 0
    BY <1>8
  <2> QED BY <1>9, <2>1, Zenon
<1>14. IdsCounted'
  BY <1>7, <1>10, <1>11, <1>12, <1>13, Zenon DEF IdsCounted
<1>15. IdFloor = N /\ IdFloor' = N + 1
  BY <1>9, Zenon DEF IdFloor
<1>16. FloorHolds
  <2> HIDE DEF N
  <2>1. N \in Nat /\ N + 1 \in Nat /\ N <= N + 1
    BY <1>8
  <2> QED BY <1>7, <1>14, <1>15, <2>1, Zenon DEF FloorHolds
<1> QED BY <1>1, <1>3, <1>7, <1>15, <1>16, Zenon

(* A file to which n of the records in the buffer were flushed. *)
LEMMA FlushGives ==
  ASSUME StoreInv, IdsCounted, disk # None, NEW n \in 1 .. Len(buffer)
  PROVE  LET d == disk \o SubSeq(buffer, 1, n)
         IN  /\ d \in Seq(ReconnectLine) /\ d # None
             /\ PastLines(d) \in Nat
             /\ m_next_ccbid - Len(buffer) + n - 1 <= PastLines(d)
<1> DEFINE s == SubSeq(buffer, 1, n)
           d == disk \o s
<1>1. n \in 0 .. Len(buffer) /\ n \in 1 .. Len(buffer)
  OBVIOUS
<1>2. disk \in Seq(ReconnectLine) /\ buffer \in Seq(ReconnectLine) /\ s \in Seq(ReconnectLine)
      /\ d \in Seq(ReconnectLine)
  BY <1>1, FlushedType, Zenon
<1>3. Len(s) = n /\ s[n] = buffer[n]
  BY <1>1, <1>2
<1> HIDE DEF s
<1>4. Len(d) = Len(disk) + n /\ Len(d) \in 1 .. Len(d) /\ d[Len(d)] = buffer[n]
  BY <1>2, <1>3
<1> HIDE DEF d
<1>5. PastLines(d) \in Nat \ {0} /\ d[Len(d)].ccbid <= PastLines(d)
  BY <1>2, <1>4, PastLinesFacts, Zenon
<1>6. d[Len(d)].ccbid = m_next_ccbid - Len(buffer) + n - 1
  BY <1>1, <1>4, Zenon DEF IdsCounted
<1>7. PastLines(d) \in Nat /\ m_next_ccbid - Len(buffer) + n - 1 <= PastLines(d)
  <2>1. PastLines(d) \in Nat
    BY <1>5
  <2> QED BY <1>5, <1>6, <2>1, Zenon
<1>8. d # None
  BY <1>2, CCBAssumption, Zenon
<1> QED BY <1>2, <1>7, <1>8, Zenon DEF d, s

(* A poll, or a sweep that prunes nothing. *)
LEMMA FlushFloor ==
  ASSUME StoreInv, StoreInv', IdsCounted, up, UNCHANGED <<up, m_next_ccbid>>,
         disk' = Flushed, buffer' = <<>>, committed' = (committed \/ buffer # <<>>),
         DOMAIN m_reconnect_info' = DOMAIN m_reconnect_info
  PROVE  FloorHolds
<1> DEFINE N == m_next_ccbid
           n == Len(buffer)
           P == PastDisk
           Q == PastDisk'
<1>1. N \in Nat /\ n \in Nat /\ P \in Nat /\ Jump \in Nat /\ MaxUnflushed \in Nat /\ (buffer # <<>> => n # 0)
  BY Numbers, Zenon
<1>2. Q \in Nat \ {0}
  BY PastNumber, Zenon DEF StoreInv, PastDisk
<1>3. buffer \in Seq(ReconnectLine) /\ (disk # None => disk \in Seq(ReconnectLine))
  BY Zenon DEF StoreInv
<1>4. CASE buffer = <<>>
  <2>1. disk' = disk
    <3>1. disk # None => disk \o <<>> = disk
      BY <1>3
    <3> QED BY <1>4, <3>1, Zenon DEF Flushed
  <2>2. committed' = committed
    BY <1>4, Zenon DEF StoreInv
  <2>3. IdsCounted'
    BY <1>4, <2>1, <2>2, Zenon DEF IdsCounted, PastDisk
  <2>4. N <= N /\ IdFloor = N /\ IdFloor' = N
    <3>1. N <= N
      BY <1>1
    <3> QED BY <3>1, Zenon DEF IdFloor
  <2> QED BY <1>1, <2>1, <2>3, <2>4, Zenon DEF FloorHolds
<1>5. CASE buffer # <<>>
  <2>1. disk # None /\ n \in 1 .. n
    <3>1. disk # None
      BY <1>5, Zenon DEF IdsCounted
    <3> HIDE DEF n
    <3> QED BY <1>1, <1>5, <3>1
  <2>2. disk' = disk \o SubSeq(buffer, 1, n)
    <3>1. SubSeq(buffer, 1, n) = buffer
      BY <1>3
    <3> QED BY <2>1, <3>1, Zenon DEF Flushed
  <2>3. disk' # None /\ Q = PastLines(disk') /\ N - n + n - 1 <= Q
    BY <2>1, <2>2, FlushGives, Zenon DEF PastDisk
  <2> HIDE DEF N, n, P, Q
  <2>4. N <= Q + 1 + 0 /\ Len(<<>>) = 0 /\ 0 <= MaxUnflushed
    BY <1>1, <1>2, <2>3
  <2>5. committed' = TRUE /\ Len(buffer') = 0 /\ m_next_ccbid' = N
    BY <1>5, <2>4, Zenon DEF N
  <2>6. \A k \in 1 .. Len(buffer') : FALSE
    BY <2>5
  <2>7. IdsCounted'
    BY <2>3, <2>4, <2>5, <2>6, Zenon DEF IdsCounted, N, Q
  <2>8. N <= N /\ IdFloor = N /\ IdFloor' = N
    <3>1. N <= N
      BY <1>1
    <3> QED BY <3>1, Zenon DEF IdFloor, N
  <2> QED BY <1>1, <2>3, <2>7, <2>8, Zenon DEF FloorHolds
<1> QED BY <1>4, <1>5, Zenon

(* A crash that does not count as a second loss in a row: what was given is
   below what the file says, with the jump. *)
LEMMA CrashFloor ==
  ASSUME StoreInv, StoreInv', IdsCounted, Crash, ~pruned'
  PROVE  FloorHolds
<1> DEFINE N == m_next_ccbid
           b == Len(buffer)
           P == PastDisk
           Q == PastDisk'
<1>1. /\ N \in Nat /\ b \in Nat /\ P \in Nat /\ Jump \in Nat /\ MaxUnflushed \in Nat
      /\ MaxUnflushed < Jump
  BY Numbers, Zenon
<1>2. Q \in Nat \ {0}
  BY PastNumber, Zenon DEF StoreInv, PastDisk
<1>3. PICK n \in 0 .. b :
        /\ disk' = IF disk = None THEN None ELSE disk \o SubSeq(buffer, 1, n)
        /\ pruned' = (pruned \/ (n = 0 /\ buffer # <<>> /\ ~committed))
  BY Zenon DEF Crash
<1>4. /\ up /\ up' = FALSE /\ buffer' = <<>> /\ m_next_ccbid' = 1 /\ m_reconnect_info' = <<>>
  BY Zenon DEF Crash
<1>5. IdsCounted'
  <2>1. /\ Len(buffer') = 0 /\ DOMAIN m_reconnect_info' = {} /\ Len(buffer') <= MaxUnflushed
        /\ \A k \in 1 .. Len(buffer') : FALSE
    BY <1>1, <1>4
  <2> QED BY <1>4, <2>1, Zenon DEF IdsCounted
<1>6. b <= MaxUnflushed
  BY Zenon DEF IdsCounted
<1>7. N <= Jump + Q /\ (disk # None => disk' # None)
  <2>1. CASE disk = None
    <3>1. buffer = <<>> /\ disk' = disk /\ Q = P
      BY <1>3, <2>1, Zenon DEF IdsCounted, PastDisk
    <3>2. b = 0
      BY <3>1
    <3>3. (committed => N <= P + 1 + b) /\ (~committed => N <= Jump + P)
      BY <1>4, <3>1, Zenon DEF IdsCounted
    <3> HIDE DEF N, b, P, Q
    <3>4. N <= Jump + P
      BY <1>1, <3>2, <3>3
    <3> QED BY <2>1, <3>1, <3>4, Zenon
  <2>2. CASE disk # None /\ n = 0
    <3>1. disk \in Seq(ReconnectLine) /\ buffer \in Seq(ReconnectLine)
      BY <2>2, Zenon DEF StoreInv
    <3>2. disk \o SubSeq(buffer, 1, 0) = disk
      <4>1. SubSeq(buffer, 1, 0) = <<>>
        BY <3>1
      <4> QED BY <3>1, <4>1
    <3>3. disk' = disk /\ Q = P
      BY <1>3, <2>2, <3>2, Zenon DEF PastDisk
    <3>4. committed \/ buffer = <<>>
      BY <1>3, <2>2, Zenon
    <3>5. (committed => N <= P + 1 + b) /\ (~committed /\ buffer = <<>> => N <= Jump + P)
      BY <1>4, Zenon DEF IdsCounted
    <3> HIDE DEF N, b, P, Q
    <3>6. N <= P + 1 + b \/ N <= Jump + P
      BY <3>4, <3>5, Zenon
    <3>7. N <= Jump + P
      BY <1>1, <1>6, <3>6
    <3> QED BY <2>2, <3>3, <3>7, Zenon
  <2>3. CASE disk # None /\ n # 0
    <3>1. n \in 1 .. b
      BY <1>1, <1>3, <2>3
    <3>2. disk' = disk \o SubSeq(buffer, 1, n)
      BY <1>3, <2>3, Zenon
    <3>3. disk' # None /\ Q = PastLines(disk') /\ N - b + n - 1 <= Q
      BY <2>3, <3>1, <3>2, FlushGives, Zenon DEF PastDisk
    <3> HIDE DEF N, b, P, Q
    <3>4. N <= Jump + Q
      BY <1>1, <1>2, <1>6, <3>1, <3>3
    <3> QED BY <3>3, <3>4, Zenon
  <2> QED BY <2>1, <2>2, <2>3, Zenon
<1>8. IdFloor = N /\ IdFloor' = Jump + Q
  BY <1>4, Zenon DEF IdFloor
<1> HIDE DEF N, Q
<1>9. Jump + Q \in Nat
  BY <1>1, <1>2
<1> QED BY <1>1, <1>5, <1>7, <1>8, <1>9, Zenon DEF FloorHolds

(* A restart begins where the file says, with the jump. *)
LEMMA RestartFloor ==
  ASSUME StoreInv, StoreInv', IdsCounted, InitAndReconfig
  PROVE  FloorHolds
<1>1. /\ ~up /\ up' = TRUE /\ committed' = FALSE
      /\ m_next_ccbid' = IF disk = None THEN 1 ELSE LoadNext(disk)
      /\ m_reconnect_info' = IF disk = None THEN <<>> ELSE Loaded(disk)
      /\ UNCHANGED <<disk, buffer>>
  BY Zenon DEF InitAndReconfig, file
<1>2. \A i \in DOMAIN m_reconnect_info' : i < m_next_ccbid'
  <2>1. CASE disk = None
    <3>1. m_reconnect_info' = <<>>
      BY <1>1, <2>1, Zenon
    <3>2. DOMAIN m_reconnect_info' = {}
      BY <3>1
    <3> QED BY <3>2, Zenon
  <2>2. CASE disk # None
    BY <1>1, <2>2, LoadFacts, Zenon DEF StoreInv
  <2> QED BY <2>1, <2>2, Zenon
<1>3. buffer = <<>> /\ Len(buffer) <= MaxUnflushed
  BY <1>1, Zenon DEF IdsCounted
<1>4. \A k \in 1 .. Len(buffer') : FALSE
  BY <1>1, <1>3
<1>5. PastDisk' = PastDisk /\ (disk # None => m_next_ccbid' = Jump + PastDisk)
  BY <1>1, Zenon DEF LoadNext, PastDisk
<1>6. Jump + PastDisk \in Nat /\ Jump + PastDisk <= Jump + PastDisk /\ 1 <= Jump + PastDisk
  BY Numbers
<1>7. m_next_ccbid' <= Jump + PastDisk /\ m_next_ccbid' \in Nat
  BY <1>1, <1>5, <1>6, Zenon DEF StoreInv
<1>8. IdsCounted'
  BY <1>1, <1>2, <1>3, <1>4, <1>5, <1>7, Zenon DEF IdsCounted
<1>9. IdFloor = Jump + PastDisk /\ IdFloor' = m_next_ccbid'
  BY <1>1, Zenon DEF IdFloor
<1> QED BY <1>1, <1>5, <1>6, <1>7, <1>8, <1>9, Zenon DEF FloorHolds

(* A sweep that prunes nothing. *)
LEMMA SweepFloor ==
  ASSUME StoreInv, StoreInv', IdsCounted, SweepReconnectInfo, ~pruned'
  PROVE  FloorHolds
<1>1. PICK gone \in Expired(Seen) :
        /\ up /\ m_reconnect_info' = Without(Seen, gone)
        /\ disk' = IF gone = {} THEN Flushed ELSE Rewrite(m_reconnect_info')
        /\ buffer' = <<>>
        /\ committed' = (committed \/ buffer # <<>>)
        /\ pruned' = (pruned \/ gone # {})
        /\ UNCHANGED <<up, m_next_ccbid>>
  BY Zenon DEF SweepReconnectInfo
<1>2. gone = {} /\ disk' = Flushed
  BY <1>1, Zenon
<1>3. DOMAIN m_reconnect_info' = DOMAIN m_reconnect_info
  <2>1. DOMAIN Seen = DOMAIN m_reconnect_info /\ DOMAIN Seen \ {} = DOMAIN Seen
    BY Zenon DEF Seen
  <2>2. DOMAIN Without(Seen, gone) = DOMAIN Seen \ gone
    BY WithoutIs, Zenon
  <2> QED BY <1>1, <1>2, <2>1, <2>2, Zenon
<1> QED BY <1>1, <1>2, <1>3, FlushFloor, Zenon

(* A poll. *)
LEMMA PollFloor ==
  ASSUME StoreInv, StoreInv', IdsCounted, Poll
  PROVE  FloorHolds
<1>1. /\ up /\ disk' = Flushed /\ buffer' = <<>> /\ committed' = (committed \/ buffer # <<>>)
      /\ UNCHANGED <<up, m_next_ccbid, m_reconnect_info>>
  BY Zenon DEF Poll, broker
<1> QED BY <1>1, FlushFloor, Zenon

(* A daemon registers: it gets the id back that it names, or one that is new. *)
LEMMA RegistrationOwners ==
  ASSUME TablesInv, StoreInv, RecordsInv, IdsCounted, OwnersInv,
         NEW c \in Conns, HandleRegistration(c), FloorHolds, StoreInv'
  PROVE  OwnersInv'
<1> DEFINE msg == Head(conn[c].toBroker)
<1>1. /\ Incoming(c, "CCB_REGISTER") /\ (Reconnected(c, msg) \/ AddTarget(c, msg))
      /\ up /\ UNCHANGED <<up, listener, reversing, committed>>
  BY Zenon DEF HandleRegistration, Incoming, ghosts
<1>2. /\ conn[c] # None /\ conn[c] \in Connections /\ conn[c].toBroker # <<>>
      /\ msg \in Registrations \cup Results /\ msg.cmd = "CCB_REGISTER"
  BY <1>1, IncomingFacts, Zenon
<1>3. msg.ccbid \in CCBIDs \cup {None} /\ msg.cookie \in Cookies \cup {None}
  BY <1>2, Zenon DEF Registrations, Results
<1>4. SameIds /\ reversing' \subseteq reversing
  BY <1>1, Zenon DEF SameIds
<1>5. Says(conn[c], msg.ccbid)
  BY <1>1, IncomingSays, Zenon
<1>6. client \in ClientTable /\ conn \in [Conns -> Connections \cup {None}]
  BY TablesParts, Zenon
<1>7. conn[c].l \in Listeners
  BY <1>2, Zenon DEF Connections
<1> HIDE DEF msg
<1>8. CASE Reconnected(c, msg)
  <2> DEFINE existing == {msg.ccbid} \cap DOMAIN m_targets
             id == msg.ccbid
             q == Reply(conn[c], id, msg.cookie)
  <2>1. /\ client' = HangUp(HungUp(existing))
        /\ conn' = [ShutAll(ConnsOf(existing), "atBroker") EXCEPT ![c] = q]
        /\ m_targets' = With(m_targets, id, Target(c))
    BY <1>8, Zenon DEF Reconnected
  <2>2. /\ q.l = conn[c].l
        /\ \A i : Says(q, i) => Says(conn[c], i) \/ i = id
        /\ \A p : Asks(q, p) => Asks(conn[c], p)
    BY <1>2, <1>3, ReplySays, Zenon
  <2> HIDE DEF q, existing
  <2>3. ClientsOn
    BY <1>6, <2>1, HangUpOn, Zenon
  <2>4. conn'[c] = q
    BY <2>1, Zenon DEF ShutAll
  <2>5. ASSUME NEW d \in Conns \ {c} PROVE Hushed(conn[d], conn'[d])
    <3>1. conn'[d] \in {conn[d], Shut(conn[d], "atBroker")}
      BY <2>1, Zenon DEF ShutAll
    <3>2. Hushed(conn[d], conn[d])
      BY HushedSame, Zenon
    <3>3. Hushed(conn[d], Shut(conn[d], "atBroker"))
      <4>1. conn[d] = None => Shut(conn[d], "atBroker") = None
        BY Zenon DEF Shut
      <4> QED BY <1>6, <4>1, HushedShut, Zenon DEF Hushed
    <3> QED BY <3>1, <3>2, <3>3, Zenon
  <2>6. /\ FewerAsks
        /\ \A i \in CCBIDs, l \in Listeners :
             Claims(i, l)' => Claims(i, l) \/ (i = id /\ l = conn[c].l)
    BY <1>2, <1>4, <2>1, <2>2, <2>4, <2>5, RegisteredClaims, Zenon
  <2>7. Claims(id, conn[c].l)
    BY <1>2, <1>5, Zenon DEF Claims
  <2>8. FewerClaims
    BY <2>6, <2>7, Zenon DEF FewerClaims
  <2> QED BY <1>4, <2>3, <2>6, <2>8, OwnersKept, WantsKept, Zenon DEF OwnersInv
<1>9. CASE AddTarget(c, msg)
  <2> DEFINE id == m_next_ccbid
             q == Reply(conn[c], id, <<boots, id>>)
  <2>1. /\ disk' # None /\ IdFloor' = id + 1
        /\ m_targets' = With(m_targets, id, Target(c))
        /\ conn' = [conn EXCEPT ![c] = q]
        /\ <<boots, id>> \in Cookies
        /\ UNCHANGED client
    BY <1>1, <1>2, <1>9, AddFloor, Zenon
  <2>2. id \in CCBIDs /\ id \in Nat
    BY Zenon DEF StoreInv, CCBIDs
  <2>3. /\ q.l = conn[c].l
        /\ \A i : Says(q, i) => Says(conn[c], i) \/ i = id
        /\ \A p : Asks(q, p) => Asks(conn[c], p)
    BY <1>2, <2>1, <2>2, ReplySays, Zenon
  <2> HIDE DEF q
  <2>4. ClientsOn
    BY <2>1, Zenon DEF ClientsOn
  <2>5. conn'[c] = q
    BY <1>6, <2>1, Zenon
  <2>6. ASSUME NEW d \in Conns \ {c} PROVE Hushed(conn[d], conn'[d])
    <3>1. conn'[d] = conn[d]
      BY <1>6, <2>1, Zenon
    <3> QED BY <3>1, HushedSame, Zenon
  <2>7. /\ FewerAsks
        /\ \A i \in CCBIDs, l \in Listeners :
             Claims(i, l)' => Claims(i, l) \/ (i = id /\ l = conn[c].l)
    BY <1>2, <1>4, <2>1, <2>3, <2>5, <2>6, RegisteredClaims, Zenon
  <2>8. \A l \in Listeners : ~Claims(id, l)
    <3>1. IdFloor = id
      BY <1>1, Zenon DEF IdFloor
    <3>2. ~(id < id)
      BY <2>2
    <3> QED BY <2>2, <3>1, <3>2, Zenon DEF OwnersInv, IdsGiven
  <2>9. IdsOwned'
    BY <2>7, <2>8, Zenon DEF OwnersInv, IdsOwned
  <2>10. ASSUME NEW i \in CCBIDs, NEW l \in Listeners, Claims(i, l)' PROVE i < IdFloor'
    <3>1. CASE i = id
      <4>1. id < id + 1
        BY <2>2
      <4> QED BY <2>1, <3>1, <4>1, Zenon
    <3>2. CASE Claims(i, l)
      <4>1. i < IdFloor /\ IdFloor <= IdFloor' /\ IdFloor \in Nat /\ IdFloor' \in Nat
        BY <3>2, Zenon DEF OwnersInv, IdsGiven, FloorHolds
      <4> QED BY <4>1 DEF CCBIDs
    <3> QED BY <2>7, <2>10, <3>1, <3>2, Zenon
  <2>11. IdsGiven'
    BY <2>1, <2>10, Zenon DEF IdsGiven
  <2> QED BY <1>4, <2>4, <2>7, <2>9, <2>11, WantsKept, Zenon DEF OwnersInv
<1> QED BY <1>1, <1>8, <1>9, Zenon

-----------------------------------------------------------------------------
(* The steps together. *)

(* As long as no record has expired, and no two boots in a row have lost theirs. *)
IdsInv == ~pruned => IdsCounted /\ OwnersInv

(* At the start there is no id, and nobody has asked for anything. *)
LEMMA InitIds == Init => IdsInv
<1> SUFFICES ASSUME Init PROVE OwnersInv
  BY InitCounted, Zenon DEF IdsInv
<1>1. /\ \A l \in Listeners : listener[l].m_ccbid = None
      /\ \A c \in Conns : conn[c] = None
      /\ \A p \in Clients : client[p].state = "idle" /\ client[p].reached = {}
      /\ reversing = {}
  BY Zenon DEF Init
<1>2. \A i \in CCBIDs, l \in Listeners : ~Claims(i, l)
  BY <1>1, CCBAssumption, Zenon DEF Claims
<1>3. WantsInv
  BY <1>1, Zenon DEF WantsInv
<1> QED BY <1>2, <1>3, Zenon DEF OwnersInv, IdsOwned, IdsGiven

(* What is pruned stays so. *)
LEMMA PrunedStays ==
  ASSUME [Next]_vars, pruned
  PROVE  pruned'
<1>1. UNCHANGED store => pruned'
  BY Zenon DEF store
<1>2. ASSUME NEW c \in Conns, HandleRegistration(c) PROVE pruned'
  BY <1>2, Zenon DEF HandleRegistration, ghosts
<1>3. CASE Poll \/ SweepReconnectInfo \/ InitAndReconfig \/ Crash
  BY <1>3, Zenon DEF Poll, SweepReconnectInfo, InitAndReconfig, Crash
<1> QED BY <1>1, <1>2, <1>3, StoreStays, Zenon DEF Next, Broker, Receive

(* A registration gives no id again. *)
LEMMA RegistrationFloor ==
  ASSUME TablesInv, StoreInv, RecordsInv, IdsCounted, NEW c \in Conns, HandleRegistration(c), StoreInv'
  PROVE  FloorHolds
<1> DEFINE msg == Head(conn[c].toBroker)
<1>1. /\ Incoming(c, "CCB_REGISTER") /\ (Reconnected(c, msg) \/ AddTarget(c, msg))
      /\ up /\ UNCHANGED <<up, committed>>
  BY Zenon DEF HandleRegistration, Incoming, ghosts
<1>2. conn[c] # None
  BY <1>1, IncomingFacts, Zenon
<1> HIDE DEF msg
<1>3. CASE Reconnected(c, msg)
  <2>1. UNCHANGED <<m_next_ccbid, disk, buffer>> /\ DOMAIN m_reconnect_info' = DOMAIN m_reconnect_info
    BY <1>3, Zenon DEF Reconnected
  <2>2. IdsCounted'
    BY <1>1, <2>1, Zenon DEF IdsCounted, PastDisk
  <2>3. IdFloor' = IdFloor /\ IdFloor \in Nat
    BY <1>1, <2>1, Numbers, Zenon DEF IdFloor, PastDisk
  <2>4. IdFloor <= IdFloor
    BY <2>3
  <2> QED BY <2>1, <2>2, <2>3, <2>4, Zenon DEF FloorHolds
<1>4. CASE AddTarget(c, msg)
  BY <1>1, <1>2, <1>4, AddFloor, Zenon
<1> QED BY <1>1, <1>3, <1>4, Zenon

(* Every step keeps the ids their owners'. *)
LEMMA NextIds ==
  ASSUME TablesInv, StoreInv, RecordsInv, IdsInv, [Next]_vars, StoreInv'
  PROVE  IdsInv'
<1> SUFFICES ASSUME ~pruned' PROVE FloorHolds /\ OwnersInv'
  BY Zenon DEF IdsInv, FloorHolds
<1>1. IdsCounted /\ OwnersInv
  BY PrunedStays, Zenon DEF IdsInv
<1>2. UNCHANGED store => FloorHolds
  BY <1>1, FloorStays, Zenon
<1>3. ASSUME NEW c \in Conns, HandleRegistration(c) PROVE FloorHolds /\ OwnersInv'
  <2>1. FloorHolds
    BY <1>1, <1>3, RegistrationFloor, Zenon
  <2> QED BY <1>1, <1>3, <2>1, RegistrationOwners, Zenon
<1>4. ASSUME NEW c \in Conns, HandleRequestResultsMsg(c) \/ TargetDisconnect(c) \/ Cut(c)
      PROVE  FloorHolds /\ OwnersInv'
  <2>1. FloorHolds
    BY <1>2, <1>4, StoreStays, Zenon
  <2> QED BY <1>1, <1>4, <2>1, ResultsOwners, DisconnectOwners, CutOwners, Zenon
<1>5. ASSUME NEW p \in Clients, NEW l \in Listeners, HandleRequest(p, l) PROVE FloorHolds /\ OwnersInv'
  <2>1. FloorHolds
    BY <1>2, <1>5, StoreStays, Zenon
  <2> QED BY <1>1, <1>5, <2>1, RequestOwners, Zenon
<1>6. ASSUME NEW r \in DOMAIN m_requests, HandleRequestDisconnect(r) PROVE FloorHolds /\ OwnersInv'
  <2>1. FloorHolds
    BY <1>2, <1>6, StoreStays, Zenon
  <2> QED BY <1>1, <1>6, <2>1, LeaveOwners, Zenon
<1>7. CASE Poll \/ SweepReconnectInfo \/ InitAndReconfig
  <2>1. FloorHolds
    BY <1>1, <1>7, PollFloor, SweepFloor, RestartFloor, Zenon
  <2>2. UNCHANGED <<m_targets, listener, reversing, conn, client>>
    BY <1>7, Zenon DEF Poll, SweepReconnectInfo, InitAndReconfig, broker
  <2> QED BY <1>1, <2>1, <2>2, FileOwners, Zenon
<1>8. ASSUME NEW l \in Listeners, Daemon(l) \/ Move(l) PROVE FloorHolds /\ OwnersInv'
  <2>1. FloorHolds
    BY <1>2, <1>8, StoreStays, Zenon
  <2> QED BY <1>1, <1>8, <2>1, DaemonOwners, Zenon
<1>9. ASSUME NEW v \in reversing, NEW success \in BOOLEAN, ReverseConnected(v, success)
      PROVE  FloorHolds /\ OwnersInv'
  <2>1. FloorHolds
    BY <1>2, <1>9, StoreStays, Zenon
  <2> QED BY <1>1, <1>9, <2>1, ReverseOwners, Zenon
<1>10. CASE Crash
  <2>1. FloorHolds
    BY <1>1, <1>10, CrashFloor, Zenon
  <2> QED BY <1>1, <1>10, <2>1, CrashOwners, Zenon
<1>11. CASE UNCHANGED vars
  <2>1. FloorHolds
    BY <1>2, <1>11, StoreStays, Zenon
  <2>2. UNCHANGED <<m_targets, listener, reversing, conn, client>>
    BY <1>11, Zenon DEF vars, broker
  <2> QED BY <1>1, <2>1, <2>2, FileOwners, Zenon
<1> QED BY <1>3, <1>4, <1>5, <1>6, <1>7, <1>8, <1>9, <1>10, <1>11, Zenon DEF Next, Broker, Receive

(* The variables have their types. *)
LEMMA TypesFollow ==
  ASSUME TablesInv, StoreInv
  PROVE  TypeOK
<1>1. PeersOK
  BY TablesParts, Zenon
<1>2. \A i \in DOMAIN buffer : buffer[i] \in ReconnectLine
  <2>1. buffer \in Seq(ReconnectLine)
    BY Zenon DEF StoreInv
  <2> QED BY <2>1
<1>3. {up, committed, pruned} \subseteq BOOLEAN
  BY Zenon DEF StoreInv
<1>4. m_next_ccbid \in CCBIDs \ {0}
  BY Zenon DEF StoreInv, CCBIDs
<1>5. /\ DOMAIN m_reconnect_info \subseteq CCBIDs
      /\ \A i \in DOMAIN m_reconnect_info :
           m_reconnect_info[i] \in [cookie : Cookies, ip : IPs, missed : 0 .. 2]
  BY Zenon DEF StoreInv, InfoOK, ReconnectInfo
<1> QED BY <1>1, <1>2, <1>3, <1>4, <1>5, TypeParts, Zenon

(* As long as no record has expired, and no two boots of the broker in a row
   have lost theirs, a client is connected to by the daemon that it asked for
   and by no other, for any number of daemons, clients, connections, faults and
   restarts: no id that a daemon or a client may still use is given to another
   daemon.  The jump of LoadReconnectInfo is what makes up for the records that
   were not flushed. *)
THEOREM IdsStayTheirOwners == Spec => []RequestsReachTheirDaemon
<1>1. Init => TablesInv /\ StoreInv /\ RecordsInv /\ IdsInv
  BY InitTables, InitStore, InitRecords, InitIds, Zenon
<1>2. TablesInv /\ StoreInv /\ RecordsInv /\ IdsInv /\ [Next]_vars
        => (TablesInv /\ StoreInv /\ RecordsInv /\ IdsInv)'
  BY NextTables, NextStore, NextRecords, NextIds, Zenon
<1>3. TablesInv /\ StoreInv /\ RecordsInv /\ IdsInv => RequestsReachTheirDaemon
  BY TypesFollow, Zenon DEF RequestsReachTheirDaemon, IdsInv, OwnersInv, WantsInv
<1> QED BY <1>1, <1>2, <1>3, PTL DEF Spec

(* A client is told of success only if a daemon did connect to it, whatever the
   broker's restarts, which give the numbers of requests anew, and that daemon
   is the one it asked for as long as no record has expired and no two boots in
   a row have lost theirs, for any number of daemons, clients, connections and
   faults: what HandleRequestResultsMsg checks the connect id for, and the ids
   that stay with their owners. *)
THEOREM SuccessWasReached == Spec => []AnswersAreOwn
<1>1. ASSUME AnswersInv, RequestsReachTheirDaemon PROVE AnswersAreOwn
  <2> SUFFICES ASSUME NEW p \in Clients, client[p].told = "success"
      PROVE  client[p].reached # {} /\ (~pruned => client[p].want \in client[p].reached)
    BY Zenon DEF AnswersAreOwn
  <2>1. client[p].reached # {}
    BY <1>1, Zenon DEF AnswersInv, SuccessReached
  <2>2. ~pruned => client[p].reached \subseteq {client[p].want}
    BY <1>1, Zenon DEF RequestsReachTheirDaemon
  <2> QED BY <2>1, <2>2, Zenon
<1>2. Init => TablesInv /\ AnswersInv
  BY InitTables, InitAnswers, Zenon
<1>3. TablesInv /\ AnswersInv /\ [Next]_vars => TablesInv' /\ AnswersInv'
  BY NextTables, NextAnswers, Zenon
<1>4. AnswersInv /\ RequestsReachTheirDaemon => AnswersAreOwn
  BY <1>1, Zenon
<1> QED BY <1>2, <1>3, <1>4, IdsStayTheirOwners, PTL DEF Spec

=============================================================================
