------------------------------ MODULE TimerManager ------------------------------
(***************************************************************************)
(* DaemonCore's timers (condor_daemon_core.V6/timer_manager.cpp): one list *)
(* sorted by due time, and Timeout(), which the event loop calls to run    *)
(* the handlers that are due.  A handler may create, reset and cancel      *)
(* timers, its own included, while Timeout() is walking the list.          *)
(***************************************************************************)
EXTENDS Integers, Sequences, FiniteSetsExt, Functions

CONSTANTS None,        \* a null Timer pointer
          Never,       \* TIME_T_NEVER
          TimerNever,  \* TIMER_NEVER, the delay or period that means never
          Unlimited,   \* INT_MAX as max_timer_events_per_cycle
          Limits,      \* values of max_timer_events_per_cycle
          Delays,      \* delays and periods the daemon asks for
          Slices,      \* the timers that may be given a timeslice
          ClockBack,   \* may the system clock be set back?
          MaxTimers,   \* bound on the timers created
          MaxClock     \* bound on the clock

ASSUME TimerAssumption ==
  /\ MaxClock \in Nat /\ MaxTimers \in Nat /\ Never \in Nat
  /\ Limits \subseteq (Nat \ {0}) \cup {Unlimited}
  /\ None \notin Nat /\ TimerNever \notin Nat /\ Unlimited \notin Nat
  /\ 0 \in Delays /\ Delays \subseteq Nat \cup {TimerNever}
  /\ Slices \subseteq Nat /\ ClockBack \in BOOLEAN

(* The clock is below TIME_T_NEVER: a timer that is never due is not due yet. *)
ASSUME ClockAssumption == MaxClock < Never

VARIABLES
  list,       \* timer_list: the ids of the timers, in list order
  tail,       \* list_tail
  tm,         \* the Timer structures that have not been deleted
  timer_ids,  \* the next id
  limit,      \* max_timer_events_per_cycle
  clock,      \* time(NULL)
  pc,         \* "idle", inside Timeout's "loop", in a "handler", "exited"
  in_timeout, did_reset, did_cancel,
  now,        \* Timeout: the time at which it was called
  ready,      \* Timeout: readyTimerIds
  fires,      \* Timeout: num_fires
  fired       \* history: the timers run by this Timeout, in order

timers == <<list, tail, tm>>
flags == <<did_reset, did_cancel>>
cycle == <<now, ready, fires, fired>>
vars == <<timers, timer_ids, limit, clock, pc, in_timeout, flags, cycle>>

Ids == 0..(MaxTimers - 1)
Timers == [when : Nat, started : Nat, period : Delays, slice : BOOLEAN]

Init ==
  /\ list = <<>>
  /\ tail = None
  /\ tm = <<>>
  /\ timer_ids = 0
  /\ limit \in Limits
  /\ clock = 0
  /\ pc = "idle"
  /\ in_timeout = None
  /\ did_reset = FALSE
  /\ did_cancel = FALSE
  /\ now = 0
  /\ ready = {}
  /\ fires = 0
  /\ fired = <<>>

-----------------------------------------------------------------------------
(* The list. *)

(* The first of a set of positions, 0 when there is none. *)
First(I) == IF I # {} THEN Min(I) ELSE 0

RemoveAt(l, i) == SubSeq(l, 1, i - 1) \o SubSeq(l, i + 1, Len(l))
InsertAt(l, i, id) == SubSeq(l, 1, i - 1) \o <<id>> \o SubSeq(l, i, Len(l))

Position(l, id) == First({i \in 1..Len(l) : l[i] = id})

(* The timers without id: DeleteTimer. *)
Without(f, id) == [t \in DOMAIN f \ {id} |-> f[t]]

(* RemoveTimer(timer, prev), with prev the timer before it. *)
Removed(l, id) ==
  LET i == Position(l.list, id)
  IN [list |-> RemoveAt(l.list, i),
      tail |-> IF l.tail # id THEN l.tail ELSE IF i = 1 THEN None ELSE l.list[i - 1]]

InsertBeforeEqual(l, id, f) ==
  LET after == First({i \in 1..Len(l.list) : f[id].when <= f[l.list[i]].when})
  IN IF after = 0 THEN [list |-> Append(l.list, id), tail |-> id]
     ELSE [list |-> InsertAt(l.list, after, id), tail |-> l.tail]

InsertAtEnds(l, id, f) ==
  IF l.list # <<>> /\ f[id].when < f[l.list[1]].when
    THEN [list |-> <<id>> \o l.list, tail |-> l.tail]
    ELSE [list |-> Append(l.list, id), tail |-> id]

InsertMovesTail(l, id, f) ==
  LET after == First({i \in 1..Len(l.list) : f[id].when < f[l.list[i]].when})
  IN [list |-> IF after = 0 THEN Append(l.list, id) ELSE InsertAt(l.list, after, id),
      tail |-> IF after = 1 THEN l.tail ELSE id]

(* InsertTimer: before the first timer that is due later, so behind those due
   at the same time; one that is never due goes behind list_tail. *)
InsertTimer(l, id, f) ==
  LET w == f[id].when
      after == First({j \in 1..Len(l.list) : w < f[l.list[j]].when})
      i == IF after = 0 THEN Len(l.list) + 1 ELSE after
  IN IF l.list = <<>> THEN
       [list |-> <<id>>, tail |-> id]
     ELSE IF after = 1 THEN
       [list |-> <<id>> \o l.list, tail |-> l.tail]
     ELSE IF w = Never THEN
       [list |-> Append(SubSeq(l.list, 1, Position(l.list, l.tail)), id), tail |-> id]
     ELSE
       [list |-> InsertAt(l.list, i, id),
        tail |-> IF l.list[i - 1] = l.tail THEN id ELSE l.tail]

SetList(l) == list' = l.list /\ tail' = l.tail

This == [list |-> list, tail |-> tail]

(* Move a timer to the place its new due time calls for. *)
Requeue(id, f) == SetList(InsertTimer(Removed(This, id), id, f))

DueIn(d) == IF d = TimerNever THEN Never ELSE clock + d

-----------------------------------------------------------------------------
(* Operations of the daemon, called from a timer's handler or from any other
   handler of the event loop. *)

Running == pc \in {"idle", "handler"}

(* getTimeToNextRun of a timeslice is any delay. *)
NewTimer(delay, period, slice) ==
  /\ Running
  /\ timer_ids < MaxTimers
  /\ slice => timer_ids \in Slices
  /\ LET t == [when |-> DueIn(delay), started |-> clock, period |-> period, slice |-> slice]
         f == [id \in DOMAIN tm \cup {timer_ids} |-> IF id = timer_ids THEN t ELSE tm[id]]
     IN tm' = f /\ SetList(InsertTimer(This, timer_ids, f))
  /\ timer_ids' = timer_ids + 1
  /\ UNCHANGED <<limit, clock, pc, in_timeout, flags, cycle>>

InList(id) == Position(list, id) # 0

ResetInPlace(id, t) ==
  /\ tm' = [tm EXCEPT ![id] = t]
  /\ did_reset' = (did_reset \/ in_timeout = id)
  /\ UNCHANGED <<list, tail, timer_ids, limit, clock, pc, in_timeout, did_cancel, cycle>>

(* ResetTimer moves the timer and, when its own handler is running, tells
   Timeout so. *)
ResetTo(id, t) ==
  /\ tm' = [tm EXCEPT ![id] = t]
  /\ Requeue(id, tm')
  /\ did_reset' = (did_reset \/ in_timeout = id)
  /\ UNCHANGED <<timer_ids, limit, clock, pc, in_timeout, did_cancel, cycle>>

ResetTimer(id, delay, period) ==
  /\ Running
  /\ InList(id)
  /\ ~tm[id].slice
  /\ ResetTo(id, [tm[id] EXCEPT !.started = clock, !.when = DueIn(delay), !.period = period])

(* ResetTimerPeriod: as if the period in progress had always been this long,
   unless the clock was set back meanwhile.  Never is added to the start of
   the period as the number that it is. *)
ResetTimerPeriod(id, period) ==
  /\ Running
  /\ InList(id)
  /\ ~tm[id].slice
  /\ LET skew == period # TimerNever /\ tm[id].started > clock
         start == IF skew THEN clock ELSE tm[id].started
     IN ResetTo(id, [tm[id] EXCEPT !.started = start, !.period = period,
                       !.when = IF period = TimerNever THEN Never + start + 1
                                ELSE start + period])

(* ResetTimerTimeslice: the next start may lie in the past. *)
ResetTimerTimeslice(id, when) ==
  /\ Running
  /\ id \in Slices
  /\ InList(id)
  /\ ResetTo(id, [tm[id] EXCEPT !.when = when, !.period = 0, !.slice = TRUE])

(* CancelTimer: the timer whose handler is running is deleted by Timeout. *)
CancelTimer(id) ==
  /\ Running
  /\ InList(id)
  /\ SetList(Removed(This, id))
  /\ IF in_timeout = id
       THEN did_cancel' = TRUE /\ UNCHANGED tm
       ELSE tm' = Without(tm, id) /\ UNCHANGED did_cancel
  /\ UNCHANGED <<timer_ids, limit, clock, pc, in_timeout, did_reset, cycle>>

(* The daemon exits, perhaps from inside a handler. *)
CancelAllTimers ==
  /\ Running
  /\ tm' = [t \in DOMAIN tm \cap {in_timeout} |-> tm[t]]
  /\ did_cancel' = (did_cancel \/ InList(in_timeout))
  /\ list' = <<>>
  /\ tail' = None
  /\ pc' = "exited"
  /\ UNCHANGED <<timer_ids, limit, clock, in_timeout, did_reset, cycle>>

(* reconfig: never inside Timeout, since the one daemon that serves commands
   from a timer's handler, the negotiator, delays it (GetDelayReconfig). *)
Reconfig(n) ==
  /\ pc = "idle"
  /\ limit' = n
  /\ UNCHANGED <<timers, timer_ids, clock, pc, in_timeout, flags, cycle>>

-----------------------------------------------------------------------------
(* Timeout. *)

(* The timers at the front of the list that are due. *)
DuePrefix ==
  LET s == Append(list, None)
  IN First({i \in 1..Len(s) : s[i] = None \/ tm[s[i]].when > now}) - 1

TimeoutStart ==
  /\ pc = "idle"
  /\ pc' = "loop"
  /\ now' = clock
  /\ ready' = IF limit = Unlimited
                THEN {id \in Range(list) : \A i \in 1..Position(list, id) : tm[list[i]].when <= clock}
                ELSE {}
  /\ fires' = 0
  /\ fired' = <<>>
  /\ UNCHANGED <<timers, timer_ids, limit, clock, in_timeout, flags>>

CandidatesIgnoringReady ==
  IF limit # Unlimited /\ fires >= limit THEN {} ELSE 1..DuePrefix

CandidatesStopAtNew ==
  IF list # <<>> /\ list[1] \in ready /\ DuePrefix > 0 THEN {1} ELSE {}

(* The positions from which Timeout may take the next timer: among those that
   are due, the ones that were so when it was called unless it counts them. *)
Candidates ==
  {i \in 1..DuePrefix : IF limit = Unlimited THEN list[i] \in ready ELSE fires < limit}

Fire ==
  /\ pc = "loop"
  /\ Candidates # {}
  /\ LET id == list[CHOOSE i \in Candidates : \A j \in Candidates : i <= j]
     IN /\ in_timeout' = id
        /\ ready' = ready \ {id}
        /\ fired' = Append(fired, id)
  /\ fires' = fires + 1
  /\ did_reset' = FALSE
  /\ did_cancel' = FALSE
  /\ pc' = "handler"
  /\ UNCHANGED <<timers, timer_ids, limit, clock, now>>

(* The handler returns: the timer is deleted, left alone, renewed from now, or
   deleted because it is a one-time event. *)
HandlerReturns(delay) ==
  /\ pc = "handler"
  /\ delay # 0 => tm[in_timeout].slice
  /\ LET id == in_timeout
         t == tm[id]
         again == IF t.slice THEN clock + delay ELSE DueIn(t.period)
     IN \/ did_cancel /\ tm' = Without(tm, id) /\ UNCHANGED <<list, tail>>
        \/ did_reset /\ ~did_cancel /\ UNCHANGED timers
        \/ /\ ~did_reset /\ ~did_cancel /\ (t.period # 0 \/ t.slice)
           /\ tm' = [tm EXCEPT ![id] = [t EXCEPT !.started = clock, !.when = again]]
           /\ Requeue(id, tm')
        \/ /\ ~did_reset /\ ~did_cancel /\ t.period = 0 /\ ~t.slice
           /\ tm' = Without(tm, id)
           /\ SetList(Removed(This, id))
  /\ in_timeout' = None
  /\ pc' = "loop"
  /\ UNCHANGED <<timer_ids, limit, clock, flags, cycle>>

TimeoutReturns ==
  /\ pc = "loop"
  /\ Candidates = {}
  /\ pc' = "idle"
  /\ now' = 0
  /\ ready' = {}
  /\ fires' = 0
  /\ fired' = <<>>
  /\ UNCHANGED <<timers, timer_ids, limit, clock, in_timeout, flags>>

-----------------------------------------------------------------------------
Tick ==
  /\ clock < MaxClock
  /\ clock' = clock + 1
  /\ UNCHANGED <<timers, timer_ids, limit, pc, in_timeout, flags, cycle>>

(* The administrator or NTP sets the clock back. *)
SetClockBack ==
  /\ ClockBack
  /\ clock > 0
  /\ clock' = clock - 1
  /\ UNCHANGED <<timers, timer_ids, limit, pc, in_timeout, flags, cycle>>

Exited == pc = "exited" /\ UNCHANGED vars

Client ==
  \/ \E d, p \in Delays, s \in BOOLEAN : NewTimer(d, p, s)
  \/ \E id \in Ids :
       \/ \E d, p \in Delays : ResetTimer(id, d, p)
       \/ \E p \in Delays : ResetTimerPeriod(id, p)
       \/ \E w \in 0..MaxClock : ResetTimerTimeslice(id, w)
       \/ CancelTimer(id)
  \/ CancelAllTimers
  \/ \E n \in Limits : Reconfig(n)

Timeout ==
  \/ TimeoutStart
  \/ Fire
  \/ \E d \in Delays \ {TimerNever} : HandlerReturns(d)
  \/ TimeoutReturns

Next == Client \/ Timeout \/ Tick \/ SetClockBack \/ Exited

Spec == Init /\ [][Next]_vars

(* The event loop calls Timeout again and again, and handlers return. *)
FairSpec == Spec /\ WF_vars(Timeout)

-----------------------------------------------------------------------------
(* Properties *)

(* Every variable has its type; the list is made of timers that exist. *)
TypeOK ==
  /\ list \in Seq(DOMAIN tm)
  /\ tail \in Ids \cup {None}
  /\ DOMAIN tm \subseteq 0..(timer_ids - 1)
  /\ \A id \in DOMAIN tm : tm[id] \in Timers
  /\ timer_ids \in 0..MaxTimers
  /\ limit \in Limits
  /\ clock \in 0..MaxClock
  /\ pc \in {"idle", "loop", "handler", "exited"}
  /\ in_timeout \in Ids \cup {None}
  /\ did_reset \in BOOLEAN /\ did_cancel \in BOOLEAN
  /\ now \in 0..MaxClock
  /\ ready \subseteq Ids
  /\ fires \in Nat
  /\ fired \in Seq(Ids)

Upto(w) == IF w > Never THEN Never ELSE w

(* The list is sorted by due time, whatever was created, reset, renewed or
   cancelled from inside which handler, with the clock going either way:
   Timeout stops at the first timer that is not due and select sleeps until
   the first one is.  Due times past TIME_T_NEVER count as never. *)
ListIsSorted ==
  \A i, j \in 1..Len(list) :
    i < j => Upto(tm[list[i]].when) <= Upto(tm[list[j]].when)

(* No timer is lost, listed twice, leaked or freed too early: the list holds
   every timer that has not been deleted except one cancelled by its own handler,
   list_tail is its last element (InsertTimer, RemoveTimer, CancelTimer,
   DeleteTimer), and the timer whose handler runs is not freed and, unless it
   was cancelled, still in the list, so that the ASSERT with which Timeout
   removes it never fails.  Every variable has its type. *)
NoTimerIsLost ==
  /\ TypeOK
  /\ Range(list) = DOMAIN tm \ (IF did_cancel THEN {in_timeout} ELSE {})
  /\ \A i, j \in 1..Len(list) : i # j => list[i] # list[j]
  /\ tail = IF list = <<>> THEN None ELSE list[Len(list)]
  /\ pc = "handler" => in_timeout \in DOMAIN tm /\ (did_cancel \/ InList(in_timeout))

(* Without a limit, a call of Timeout runs no timer twice, also when handlers
   reset timers to be due at once: "to make certain we aren't stuck here
   forever". *)
OncePerTimeout ==
  limit = Unlimited => \A i, j \in 1..Len(fired) : i # j => fired[i] # fired[j]

(* Without a limit, a call of Timeout runs every timer that was due when it was
   called, unless a handler cancelled it or put it off. *)
DueTimersWereRun ==
  [][TimeoutReturns => \A id \in ready : InList(id) => tm[id].when > now]_vars

Reset(id) == \E d, p \in Delays : ResetTimer(id, d, p)
PeriodReset == \E id \in Ids, p \in Delays : ResetTimerPeriod(id, p)

(* A timer that is due is run, put off or cancelled, unless it is itself reset
   for ever or periods are changed for ever (the daemons do that when they are
   reconfigured): no other timer that keeps resetting itself can starve it,
   with one handler per call of Timeout or with any number (InsertTimer:
   "round-robin"). *)
DueTimerIsRun ==
  \A id \in Ids :
    \/ []<><<Reset(id)>>_vars
    \/ []<><<PeriodReset>>_vars
    \/ InList(id) /\ tm[id].when <= clock
         ~> in_timeout = id \/ ~InList(id) \/ tm[id].when > clock
=============================================================================
