----------------------------- MODULE StartdSlot -----------------------------
(***************************************************************************)
(* One static slot of the condor_startd: the state machine of a Resource   *)
(* (ResState.cpp), its current, preempting and preempting-preempting       *)
(* claims (claim.cpp), the starter of the current claim with its kill      *)
(* timers (Starter.cpp), the backfill client (boinc_mgr.cpp), draining     *)
(* (ResMgr.cpp) and the command handlers of command.cpp.                   *)
(*                                                                         *)
(* A handler of the startd runs to its end before the next one, but inside *)
(* it ResState::change() calls itself: leaving or entering a state may     *)
(* start another change, and entering an idle or retiring activity         *)
(* evaluates the policy, which may start a third one.  So every function   *)
(* of the code is an operator from the resource (a record) to the SET of   *)
(* resources the function may leave behind, one for each way the policy    *)
(* expressions, the peers and the kernel may answer while it runs; the     *)
(* calls it has still to make are a stack in the resource, and a handler   *)
(* is one action that runs until the stack is empty.                       *)
(***************************************************************************)
EXTENDS Naturals, Sequences

CONSTANTS
    HasBackfill     \* resmgr->m_backfill_mgr is set

ASSUME HasBackfillAssumption == HasBackfill \in BOOLEAN

(* The Resource, see TypeOK.  While a handler runs, todo is the stack of   *)
(* the calls it has still to make, and startOK says that START is known to *)
(* accept the job of the current claim.                                    *)
VARIABLE rip

-----------------------------------------------------------------------------
(* Claims *)

ClaimStates == {"none", "unclaimed", "idle", "running", "suspended",
                "vacating", "killing"}

(* stream: a schedd waits for the answer to its REQUEST_CLAIM; match: the  *)
(* match timer runs; lease: the lease timer runs.                          *)
Claim == [c_state: ClaimStates, stream: BOOLEAN, match: BOOLEAN,
          lease: BOOLEAN, may_unretire: BOOLEAN, preempt_was_true: BOOLEAN]

NoClaim == [c_state |-> "none", stream |-> FALSE, match |-> FALSE,
            lease |-> FALSE, may_unretire |-> TRUE, preempt_was_true |-> FALSE]

NewClaim == [NoClaim EXCEPT !.c_state = "unclaimed"]

(* What the startd cannot choose and does not change while a handler runs: *)
(* IS_OWNER, whether signals can be sent, and whether the other slots are  *)
(* ready for the end of draining.                                          *)
Env == [isOwner: BOOLEAN, signals: BOOLEAN, others: BOOLEAN]

Except(s) == {[s EXCEPT !.excepted = TRUE]}

ClaimIsActive(s) ==
    s.r_cur.c_state \in {"running", "suspended", "vacating", "killing"}

IsDeactivating(s) == s.r_cur.c_state \in {"vacating", "killing"}

HasPreemptingClaim(s) == s.r_pre.stream

MayUnretire(s) ==
    /\ s.draining = "no"
    /\ s.r_cur.may_unretire
    /\ ~HasPreemptingClaim(s)

InRetirement(s) == HasPreemptingClaim(s) \/ ~MayUnretire(s)

HasStarter(s) == s.starter # "none"

(* A claim object is deleted.  A starter that has not been reaped goes on  *)
(* without one.                                                            *)
DeleteCur(s) ==
    [s EXCEPT !.r_cur = NoClaim, !.starter = "none", !.idleSuspended = FALSE,
              !.startOK = FALSE,
              !.orphans = IF HasStarter(s) THEN @ + 1 ELSE @]

(* remove_pre refuses a pending request before it deletes the claims.      *)
remove_pre(s) == [s EXCEPT !.r_pre = NoClaim, !.r_pre_pre = NoClaim]

removeClaim(s, c) ==
    CASE c = "pre"     -> [remove_pre(s) EXCEPT !.r_pre = NewClaim]
      [] c = "pre_pre" -> [s EXCEPT !.r_pre_pre = NewClaim]
      [] c = "cur"     -> [DeleteCur(s) EXCEPT !.r_cur = NewClaim]

-----------------------------------------------------------------------------
(* Signals to the starter.  The starter is "run" until it is told to stop; *)
(* "term" has the soft-kill timer running, and so has "hold", where the    *)
(* message of holdJob may be on its way yet; "quit" has the kill timer     *)
(* running, and "kill" has been sent SIGKILL with its family.              *)

StarterLevels == {"none", "run", "term", "hold", "quit", "kill"}

Failed(s) == [s EXCEPT !.starter = "kill", !.failed = TRUE]

SignalFails(s, e) == HasStarter(s) /\ ~e.signals

StarterKillSoftNoTimer(s, e) ==
    LET t == [s EXCEPT !.r_cur.c_state = "vacating"] IN
    IF ~HasStarter(s) THEN s ELSE IF e.signals THEN t ELSE Failed(t)

StarterKillSoft(s, e) ==
    IF ~HasStarter(s) THEN s
    ELSE LET t == [s EXCEPT !.r_cur.c_state = "vacating"] IN
         IF e.signals
         THEN [t EXCEPT !.starter = IF @ = "run" THEN "term" ELSE @]
         ELSE Failed(t)

StarterKillHard(s, e) ==
    IF ~HasStarter(s) THEN s
    ELSE LET t == [s EXCEPT !.r_cur.c_state = "killing"] IN
         IF e.signals
         THEN [t EXCEPT !.starter = IF @ = "kill" THEN @ ELSE "quit"]
         ELSE Failed(t)

StarterKillFamily(s) ==
    IF HasStarter(s)
    THEN [s EXCEPT !.r_cur.c_state = "killing", !.starter = "kill"]
    ELSE s

(* holdJob: a message, and the timer of the soft or of the hard kill; none *)
(* of it while an earlier message is on its way.  The claim's own state    *)
(* stays.                                                                  *)
StarterHoldJob(s, soft) ==
    LET hard == [s EXCEPT !.starter = IF @ \in {"none", "kill"} THEN @ ELSE "quit"] IN
    CASE soft /\ s.starter = "run"    -> {[s EXCEPT !.starter = "hold"]}
      [] soft /\ s.starter # "run"    -> {s}
      [] ~soft /\ s.starter = "hold"  -> {s, hard}
      [] ~soft /\ s.starter # "hold"  -> {hard}

SuspendClaim(s, e) ==
    LET t == [s EXCEPT !.r_cur.c_state = "suspended"] IN
    IF SignalFails(s, e) THEN Failed(t) ELSE t

ResumeClaim(s, e) ==
    LET t == [s EXCEPT !.r_cur.c_state = IF HasStarter(s) THEN "running"
                                         ELSE "idle"] IN
    IF SignalFails(s, e) THEN Failed(t) ELSE t

-----------------------------------------------------------------------------
(* ResState.  A function that calls another one last, or calls several in  *)
(* a row, leaves them on the stack todo; Run makes the calls.              *)

Calls(s, fs) == {[s EXCEPT !.todo = fs \o @]}

change(new_state, new_act) == <<"change", new_state, new_act>>

(* Vacate unless PREEMPT was true and WANT_VACATE is false for a job.      *)
PreemptingActivity(s) ==
    IF s.r_cur.preempt_was_true /\ ClaimIsActive(s)
    THEN {"vacating", "killing"} ELSE {"vacating"}

changeState(s, new_state) ==
    IF new_state = "preempting"
    THEN UNION {Calls(s, <<change(new_state, a)>>) : a \in PreemptingActivity(s)}
    ELSE Calls(s, <<change(new_state, "idle")>>)

changeAct(s, new_act) == Calls(s, <<change(s.r_state, new_act)>>)

(* accept_request_claim: change to Claimed first, answer the schedd then.  *)
(* When the policy ends the claim inside that change, the claim and its    *)
(* stream are deleted, and the rest of the function works on freed memory: *)
(* the startd dies, or takes the failure path of the protocol.  A claim    *)
(* that was not accepted makes starterExited give up its destination.      *)
GiveUp(orOwner) == IF orOwner THEN <<<<"giveUp">>>> ELSE <<>>

AcceptAnswer(s, orOwner) ==
    LET closed == [s EXCEPT !.r_cur.stream = FALSE] IN
    {IF s.r_cur.stream THEN closed ELSE [s EXCEPT !.down = TRUE]}
        \cup Calls(closed, <<change("owner", "idle")>> \o GiveUp(orOwner))

AcceptClaimRequest(s, orOwner) ==
    IF s.r_cur.c_state = "none" THEN Except(s)
    ELSE IF s.r_cur.stream
         THEN Calls(s, <<change("claimed", "idle"), <<"answer", orOwner>> >>)
    ELSE Calls(s, GiveUp(orOwner))

set_destination(s, new_state) ==
    IF new_state = "matched" /\ s.r_destination # "no" THEN {s}
    ELSE IF new_state = "claimed" /\ ~s.r_cur.stream THEN Except(s)
    ELSE
      LET t == [s EXCEPT !.r_destination = new_state]
          Go == IF new_state = "claimed" THEN AcceptClaimRequest(t, FALSE)
                ELSE changeState(t, new_state)
      IN CASE t.r_state \in {"owner", "matched", "unclaimed"} -> Go
           [] t.r_state = "preempting" -> {t}
           [] t.r_state = "claimed"    -> changeState(t, "preempting")
           [] t.r_state = "backfill"   ->
                IF t.r_act = "idle" THEN Go ELSE changeAct(t, "killing")
           [] OTHER -> Except(t)

retire_claim(s, e, reversible) ==
    CASE s.r_state = "claimed" ->
           changeAct([s EXCEPT !.r_cur.may_unretire = @ /\ reversible], "retiring")
      [] s.r_state = "matched"  -> changeState(s, "owner")
      [] s.r_state = "backfill" -> set_destination(s, "owner")
      [] OTHER -> {StarterKillSoft(s, e)}

release_claim(s, e) ==
    CASE s.r_state = "claimed" -> Calls(s, <<change("preempting", "vacating")>>)
      [] s.r_state = "preempting" ->
           IF s.r_act = "killing" THEN {s}
           ELSE Calls(s, <<change("preempting", "vacating")>>)
      [] s.r_state = "matched"  -> changeState(s, "owner")
      [] s.r_state = "backfill" -> set_destination(s, "owner")
      [] OTHER -> {StarterKillHard(s, e)}

kill_claim(s, e) ==
    CASE s.r_state \in {"claimed", "preempting"} ->
           Calls(s, <<change("preempting", "killing")>>)
      [] s.r_state = "matched"  -> changeState(s, "owner")
      [] s.r_state = "backfill" -> set_destination(s, "owner")
      [] OTHER -> {StarterKillHard(s, e)}

(* leave_action: a suspended claim is resumed first.                       *)
ResumeFails(s, e) ==
    s.r_state = "claimed" /\ s.r_act = "suspended" /\ SignalFails(s, e)

leave_action(s, e, new_state, new_act) ==
    CASE ResumeFails(s, e) -> StarterKillFamily(ResumeClaim(s, e))
      [] s.r_state = "claimed" /\ ~ResumeFails(s, e) ->
           LET t == IF s.r_act = "suspended" THEN ResumeClaim(s, e) ELSE s IN
           [t EXCEPT !.r_cur.lease =
                @ /\ (new_state = "claimed" \/ new_act = "vacating")]
      [] OTHER -> s

(* The end of change(): idleness and retirement are evaluated right away.  *)
Settle(s) ==
    IF s.r_state # "backfill" /\ s.r_act \in {"retiring", "idle"}
    THEN Calls(s, << <<"eval_policy">> >>) ELSE {s}

EnterOwnerKeepsClaim(s, e) ==
    LET t == [remove_pre(s) EXCEPT !.r_cur = IF @ = NoClaim THEN NewClaim ELSE @]
    IN  IF e.isOwner THEN Settle(t) ELSE changeState(t, "unclaimed")

EnterOwner(s, e) ==
    LET t == [DeleteCur(s) EXCEPT !.r_cur = NewClaim]
        u == IF t.r_pre = NoClaim THEN t ELSE remove_pre(t)
    IN  IF e.isOwner THEN Settle(u) ELSE changeState(u, "unclaimed")

BeginClaimAlone(s) ==
    [s EXCEPT !.r_cur.c_state = "idle", !.r_cur.lease = TRUE]

BeginClaim(s) ==
    [s EXCEPT !.r_cur.c_state = "idle", !.r_cur.lease = TRUE,
              !.r_pre = NewClaim]

EnterClaimed(s, e, statechange) ==
    LET t == IF statechange THEN BeginClaim(s) ELSE s IN
    CASE statechange /\ s.r_cur.c_state # "unclaimed" -> Except(s)
      [] t.r_act = "suspended" ->
           IF SignalFails(t, e)
           THEN changeState(StarterKillFamily(SuspendClaim(t, e)), "preempting")
           ELSE {SuspendClaim(t, e)}
      [] t.r_act = "busy" ->
           IF InRetirement(t) /\ ~t.acceptedWhileDraining
           THEN changeAct(t, "retiring") ELSE {t}
      [] t.r_act = "retiring" /\ ~ClaimIsActive(t) -> changeState(t, "preempting")
      [] OTHER -> Settle(t)

LeavePreempting(s) == Calls(s, << <<"leave_preempting_state">> >>)

EnterPreemptingAtOnce(s, e) == LeavePreempting(s)

EnterPreempting(s, e) ==
    LET soft == s.r_act = "vacating"
        held == IF s.r_cur.preempt_was_true
                THEN StarterHoldJob(s, soft) ELSE {}
        told == IF soft THEN StarterKillSoft(s, e) ELSE StarterKillHard(s, e)
    IN  IF ~ClaimIsActive(s) THEN LeavePreempting(s)
        ELSE held \cup
             (IF ~SignalFails(s, e) THEN {told}
              ELSE IF soft THEN changeState(StarterKillFamily(told), "owner")
                   ELSE LeavePreempting(told))

EnterBackfill(s) ==
    IF s.r_act = "killing" /\ s.boinc = "run"
    THEN {[s EXCEPT !.boinc = "kill"]} ELSE {s}

enter_action(s, e, statechange) ==
    CASE s.r_state = "owner"      -> EnterOwner(s, e)
      [] s.r_state = "claimed"    -> EnterClaimed(s, e, statechange)
      [] s.r_state = "preempting" -> EnterPreempting(s, e)
      [] s.r_state = "backfill"   -> EnterBackfill(s)
      [] OTHER                    -> Settle(s)

Change(s, e, new_state, new_act) ==
    IF new_state = s.r_state /\ new_act = s.r_act THEN {s}
    ELSE LET left == leave_action(s, e, new_state, new_act)
             statechange == new_state # s.r_state
             entered == [left EXCEPT !.r_state = new_state, !.r_act = new_act,
                          !.r_destination = IF statechange /\ new_state = @
                                            THEN "no" ELSE @]
         IN  IF ResumeFails(s, e) /\ new_state # "preempting"
             THEN changeState(left, "preempting")
             ELSE enter_action(entered, e, statechange)

(* eval_policy, state by state.  An expression of the policy may be true   *)
(* or false at every evaluation, so a branch it guards joins the set next  *)
(* to the branches behind it.                                              *)
RetirementExpires(s) ==
    UNION {changeState(t, "preempting")
             : t \in {s, [s EXCEPT !.r_cur.preempt_was_true = TRUE]}}

PreemptIsTrue(s, e) ==
    retire_claim([s EXCEPT !.r_cur.preempt_was_true = TRUE], e, FALSE)

MayPreempt(s) ==
    \/ s.r_act = "busy"
    \/ s.r_act \in {"retiring", "suspended"} /\ ~s.r_cur.preempt_was_true

ContinueIsTrue(s) ==
    changeAct(s, IF InRetirement(s) THEN "retiring" ELSE "busy")

EvalClaimed(s, e) ==
    UNION {
      IF InRetirement(s) THEN RetirementExpires(s) ELSE {},
      IF MayPreempt(s) THEN PreemptIsTrue(s, e) ELSE {},
      IF s.r_act \in {"busy", "retiring"} /\ ~(s.r_act = "retiring" /\ MayUnretire(s))
        THEN changeAct(s, "suspended") ELSE {},
      IF s.r_act = "suspended" /\ ~s.r_suspended_by_command
        THEN ContinueIsTrue(s) ELSE {},
      CASE s.r_act = "retiring" /\ MayUnretire(s) -> changeAct(s, "busy")
        [] s.r_act = "busy" /\ HasPreemptingClaim(s) -> changeAct(s, "retiring")
        [] s.r_act = "idle" /\ HasPreemptingClaim(s) -> changeState(s, "preempting")
        [] s.r_act = "idle" /\ ~HasPreemptingClaim(s) /\ ~s.startOK ->
             {s} \cup changeState(s, "preempting")
        [] OTHER -> {s}}

EvalPreempting(s) ==
    {s} \cup (IF s.r_act = "vacating" THEN changeAct(s, "killing") ELSE {})

EvalUnclaimed(s, e) ==
    IF s.draining # "no" THEN Calls(s, <<change("drained", "retiring")>>)
    ELSE IF e.isOwner THEN changeState(s, "owner")
    ELSE {s} \cup (IF HasBackfill THEN changeState(s, "backfill") ELSE {})

EvalOwner(s, e) ==
    IF s.draining # "no" THEN Calls(s, <<change("drained", "retiring")>>)
    ELSE IF e.isOwner THEN {s} ELSE changeState(s, "unclaimed")

(* BOINC_BackfillMgr::start spawns the client and makes the slot busy.     *)
StartBackfill(s) == changeAct([s EXCEPT !.boinc = "run"], "busy")

EvictBackfill(s) ==
    IF s.r_act = "idle" THEN changeState(s, "owner")
    ELSE Calls(s, <<change("backfill", "killing"), <<"set_destination", "owner">> >>)

EvalBackfill(s) ==
    IF s.r_act = "killing" THEN {s}
    ELSE {s} \cup EvictBackfill(s) \cup
         (IF s.r_act = "idle" /\ s.boinc = "none" THEN StartBackfill(s) ELSE {})

EvalDrained(s, e) ==
    CASE s.draining = "no" -> changeState(s, "owner")
      [] s.draining # "no" /\ s.r_act = "retiring" /\ e.others ->
           changeState(s, "drained")
      [] s.draining = "resume" /\ s.r_act = "idle" /\ e.others ->
           {[s EXCEPT !.draining = "no"]}
      [] OTHER -> {s}

eval_policy(s, e) ==
    CASE s.r_state = "claimed"    -> EvalClaimed(s, e)
      [] s.r_state = "preempting" -> EvalPreempting(s)
      [] s.r_state = "unclaimed"  -> EvalUnclaimed(s, e)
      [] s.r_state = "owner"      -> EvalOwner(s, e)
      [] s.r_state = "matched"    -> {s}
      [] s.r_state = "backfill"   -> EvalBackfill(s)
      [] s.r_state = "drained"    -> EvalDrained(s, e)

(* The preempting claim takes over, or everything is given up.             *)
PreemptingClaimTakesOver(s) ==
    AcceptClaimRequest([remove_pre(s) EXCEPT !.r_cur = s.r_pre], FALSE)

leave_preempting_state(s, e) ==
    LET t == DeleteCur(s) IN
    CASE t.r_destination = "claimed" ->
           IF ~e.isOwner THEN PreemptingClaimTakesOver(t)
           ELSE changeState(remove_pre([t EXCEPT !.r_destination = "owner"]), "owner")
      [] t.r_destination = "owner" -> changeState(remove_pre(t), "owner")
      [] t.r_destination = "no"    ->
           changeState(remove_pre(t), "owner") \cup
           (IF HasPreemptingClaim(t)
            THEN PreemptingClaimTakesOver([t EXCEPT !.startOK = TRUE]) ELSE {})
      [] OTHER -> Except(t)

(* ResState::starterExited: go where the destination says.                 *)
ResStateStarterExited(s) ==
    CASE s.r_destination \in {"owner", "matched"} -> changeState(s, s.r_destination)
      [] s.r_destination = "claimed" -> AcceptClaimRequest(s, TRUE)
      [] s.r_destination = "no" /\ s.r_state \in {"claimed", "preempting"} -> {s}
      [] s.r_destination = "no" /\ s.r_state = "backfill" -> changeAct(s, "idle")
      [] OTHER -> Except(s)

HasAnyClaim(s) ==
    \/ s.r_state \in {"claimed", "preempting"}
    \/ s.r_state = "backfill" /\ s.r_act # "idle"

(* checkForDrainCompletion: the last job of before the draining is gone,   *)
(* the ones accepted since must go too.                                    *)
CheckForDrainCompletion(s, e) ==
    IF e.others /\ (s.acceptedWhileDraining \/ ~HasAnyClaim(s))
    THEN retire_claim(s, e, TRUE) ELSE {s}

AfterStarterExited(s) ==
    CASE s.r_state = "claimed" /\ s.r_act = "retiring" -> changeState(s, "preempting")
      [] s.r_state = "claimed" /\ s.r_act # "retiring" -> changeAct(s, "idle")
      [] s.r_state = "preempting" -> LeavePreempting(s)
      [] OTHER -> changeState(s, "owner")

ResourceStarterExited(s) ==
    LET check == s.draining # "no" /\ ~s.acceptedWhileDraining IN
    Calls(s, << <<"ResState::starterExited">>, <<"starterExited">> >>
             \o (IF check THEN << <<"checkForDrainCompletion">> >> ELSE <<>>))

(* abort_claim: the claiming protocol failed half-way.                     *)
abort_claim(s) ==
    CASE s.r_state = "claimed" ->
           {removeClaim(s, IF s.r_pre_pre # NoClaim THEN "pre_pre" ELSE "pre")}
      [] s.r_state = "owner" -> {s}
      [] s.r_state = "backfill" ->
           IF s.r_destination = "matched" THEN set_destination(s, "owner")
           ELSE {removeClaim(s, "cur")}
      [] OTHER -> changeState(s, "owner")

(* Make the next call of s.                                                *)
Call(s, e) ==
    LET f == Head(s.todo)
        t == [s EXCEPT !.todo = Tail(@)]
    IN  CASE f[1] = "change"      -> Change(t, e, f[2], f[3])
          [] f[1] = "eval_policy" -> eval_policy(t, e)
          [] f[1] = "leave_preempting_state"  -> leave_preempting_state(t, e)
          [] f[1] = "set_destination"         -> set_destination(t, f[2])
          [] f[1] = "answer"      -> AcceptAnswer(t, f[2])
          [] f[1] = "giveUp"      ->
               changeState([t EXCEPT !.r_destination = "no"], "owner")
          [] f[1] = "ResState::starterExited" -> ResStateStarterExited(t)
          [] f[1] = "starterExited"           -> AfterStarterExited(t)
          [] f[1] = "checkForDrainCompletion" -> CheckForDrainCompletion(t, e)
          [] f[1] = "suspended"   -> {[t EXCEPT !.r_suspended_by_command = TRUE]}
          [] f[1] = "continued"   -> {[t EXCEPT !.r_suspended_by_command = FALSE]}

Gone(s) == s.excepted \/ s.down

(* Make the calls of the resources in S until every one has returned, or   *)
(* the startd is gone.                                                     *)
RECURSIVE Finish(_, _, _)
Finish(returned, S, e) ==
    IF S = {} THEN returned
    ELSE LET done == {s \in S : s.todo = <<>> \/ Gone(s)} IN
         Finish(returned \cup {[s EXCEPT !.todo = <<>>, !.startOK = FALSE] : s \in done},
                UNION {Call(s, e) : s \in S \ done}, e)

Run(S, e) == Finish({}, S, e)

-----------------------------------------------------------------------------
(* The handlers *)

Running == ~Gone(rip)

(* The environments in which a handler may run now: a signal can fail to   *)
(* be sent once, and the other slots matter only while the startd drains.  *)
Envs(draining) ==
    {e \in Env : /\ Running
                 /\ e.signals \/ (HasStarter(rip) /\ ~rip.failed)
                 /\ draining \/ e.others}

(* What the handler F may leave behind.                                    *)
After(F(_)) == UNION {Run(F(e), e) : e \in Envs(rip.draining # "no")}

(* command_request_claim and request_claim.  Only the claim a request may  *)
(* be for has the id it must show: the current claim of a slot that is not *)
(* claimed, the newest preempting claim of one that is.                    *)
Replaced(s) ==
    IF s.r_pre_pre = NoClaim THEN s
    ELSE [s EXCEPT !.r_pre = s.r_pre_pre, !.r_pre_pre = NoClaim]

Newest(s) == IF s.r_pre_pre # NoClaim THEN "pre_pre" ELSE "pre"

CancelMatchTimer(s, c) ==
    CASE c = "cur"     -> [s EXCEPT !.r_cur.match = FALSE]
      [] c = "pre"     -> [s EXCEPT !.r_pre.match = FALSE]
      [] c = "pre_pre" -> [s EXCEPT !.r_pre_pre.match = FALSE]

(* Requests that fail: unreadable, or of too low a rank for the claim they *)
(* would replace or for the running one.                                   *)
RefuseRequest ==
    LET c == IF rip.r_state = "claimed" THEN Newest(rip) ELSE "cur"
        s == CancelMatchTimer(rip, c)
    IN  /\ rip.r_state # "preempting"
        /\ \/ rip' \in After(LAMBDA e : abort_claim(s))
           \/ /\ rip.r_state = "claimed"
              /\ rip' \in After(LAMBDA e : abort_claim(Replaced(s)))

RequestPreemption ==
    LET s == Replaced(CancelMatchTimer(rip, Newest(rip)))
        t == [s EXCEPT !.r_pre.stream = TRUE, !.r_pre_pre = NewClaim]
    IN  /\ rip.r_state = "claimed"
        /\ rip' \in After(LAMBDA e : eval_policy(t, e))

RequestClaim ==
    LET s == CancelMatchTimer(rip, "cur")
        t == [s EXCEPT !.r_cur.stream = TRUE]
    IN  /\ rip.r_state \notin {"claimed", "preempting"}
        /\ rip' \in After(LAMBDA e : IF t.r_state = "backfill"
                                     THEN set_destination(t, "claimed")
                                     ELSE AcceptClaimRequest(t, FALSE))

(* requestClaimSockClosed: the schedd gave up.                             *)
requestClaimSockClosed ==
    /\ Running
    /\ \/ rip.r_pre.stream /\ rip' = removeClaim(rip, "pre")
       \/ rip.r_cur.stream /\ rip' = removeClaim(rip, "cur")

command_release_claim ==
    /\ Running
    /\ \/ rip.r_pre # NoClaim /\ rip' = removeClaim(rip, "pre")
       \/ rip.r_pre_pre # NoClaim /\ rip' = removeClaim(rip, "pre_pre")
       \/ /\ rip.r_state \in {"claimed", "matched"}
          /\ rip' \in After(LAMBDA e : release_claim(rip, e))

(* match_info: the negotiator has matched one of the claims.  Nothing is   *)
(* done for the current claim of a claimed slot, in the drained state, and *)
(* while a destination is set.                                             *)
match_info ==
    \/ /\ Running /\ rip.r_state = "claimed"
       /\ \/ rip.r_pre # NoClaim /\ rip' = [rip EXCEPT !.r_pre.match = TRUE]
          \/ rip.r_pre_pre # NoClaim /\ rip' = [rip EXCEPT !.r_pre_pre.match = TRUE]
    \/ /\ rip.r_state \in {"owner", "unclaimed", "backfill"}
       /\ rip.r_destination = "no"
       /\ LET s == [rip EXCEPT !.r_cur.match = TRUE] IN
          rip' \in After(LAMBDA e : IF s.r_state = "backfill"
                                    THEN set_destination(s, "matched")
                                    ELSE changeState(s, "matched"))

(* match_timed_out *)
CurMatchTimedOut(s) ==
    CASE s.r_state = "backfill" -> set_destination(s, "owner")
      [] s.r_state = "matched"  -> changeState(removeClaim(s, "cur"), "owner")
      [] OTHER -> {s}

match_timed_out ==
    \/ /\ rip.r_cur.match
       /\ LET s == [rip EXCEPT !.r_cur.match = FALSE] IN
          rip' \in After(LAMBDA e : CurMatchTimedOut(s))
    \/ Running /\ rip.r_pre.match /\ rip' = removeClaim(rip, "pre")
    \/ Running /\ rip.r_pre_pre.match /\ rip' = removeClaim(rip, "pre_pre")

(* command_activate_claim and activate_claim; the spawn may fail.          *)
resetClaim(s) ==
    [s EXCEPT !.r_cur.may_unretire = TRUE, !.r_cur.preempt_was_true = FALSE]

SpawnStarter(s) ==
    [s EXCEPT !.r_cur.c_state = "running", !.r_cur.lease = TRUE,
              !.starter = "run", !.idleSuspended = FALSE,
              !.acceptedWhileDraining = s.draining # "no"]

activate_claim ==
    /\ rip.r_state = "claimed" /\ rip.r_act = "idle"
    /\ ~IsDeactivating(rip)
    /\ \/ Running /\ rip' = resetClaim(rip)
       \/ rip' \in After(LAMBDA e : changeAct(SpawnStarter(rip), "busy"))

(* deactivate_claim: kill the starter, and close the claim when the answer *)
(* said that it closes; it may say so at any time (the claim's worklife is *)
(* over), and need not arrive.                                             *)
DeactivateClaim(s, e, graceful) ==
    IF ~ClaimIsActive(s) THEN s
    ELSE IF graceful THEN StarterKillSoft(s, e) ELSE StarterKillHard(s, e)

deactivate_claim ==
    /\ rip.r_state = "claimed"
    /\ \E graceful \in BOOLEAN :
         rip' \in After(LAMBDA e :
             LET t == DeactivateClaim(rip, e, graceful)
             IN  {t} \cup release_claim(t, e))

suspend_claim ==
    /\ rip.r_state = "claimed"
    /\ LET s == [rip EXCEPT !.idleSuspended = @ \/ ~HasStarter(rip)] IN
       rip' \in After(LAMBDA e :
         Calls(s, <<change("claimed", "suspended"), <<"suspended">> >>))

continue_claim ==
    /\ rip.r_act = "suspended" /\ rip.r_suspended_by_command
    /\ rip' \in After(LAMBDA e :
         LET t == ResumeClaim(rip, e)
         IN  IF SignalFails(rip, e) THEN {t}
             ELSE Calls(t, <<change("claimed", "busy"), <<"continued">> >>))

(* VACATE_CLAIM and VACATE_CLAIM_FAST.                                     *)
vacate_claim ==
    /\ rip.r_state \in {"claimed", "matched", "backfill"}
    /\ rip' \in After(LAMBDA e : retire_claim(rip, e, FALSE))

vacate_claim_fast ==
    /\ rip.r_state \in {"claimed", "matched", "preempting", "backfill"}
    /\ rip' \in After(LAMBDA e : kill_claim(rip, e))

leaseExpired ==
    /\ rip.r_cur.lease
    /\ rip' \in After(LAMBDA e : kill_claim([rip EXCEPT !.r_cur.lease = FALSE], e))

(* eval_state, from the polling timer.                                     *)
eval_state == rip' \in After(LAMBDA e : eval_policy(rip, e))

(* The kill timers of the starter.                                         *)
softkillTimeout ==
    /\ rip.starter \in {"term", "hold"}
    /\ rip' \in After(LAMBDA e :
         {IF e.signals THEN [rip EXCEPT !.starter = "quit"] ELSE Failed(rip)})

sigkillStarter ==
    /\ Running /\ rip.starter = "quit"
    /\ rip' = [rip EXCEPT !.starter = "kill"]

(* reaper: the starter of the current claim, one that lost its claim, or   *)
(* the backfill client is gone.  A starter that lost its shadow makes the  *)
(* lease run out at once.                                                  *)
ClaimStarterExited(s, lost) ==
    [resetClaim(s) EXCEPT !.starter = "none", !.r_cur.c_state = "idle",
                          !.r_cur.lease = @ \/ lost]

StarterExits ==
    /\ HasStarter(rip)
    /\ \E lost \in BOOLEAN :
         LET s == ClaimStarterExited(rip, lost) IN
         rip' \in After(LAMBDA e : ResourceStarterExited(s))

OrphanExits ==
    /\ Running /\ rip.orphans > 0
    /\ rip' = [rip EXCEPT !.orphans = @ - 1]

BackfillClientExits ==
    /\ rip.boinc # "none"
    /\ LET s == [rip EXCEPT !.boinc = "none"] IN
       rip' \in After(LAMBDA e : ResStateStarterExited(s))

(* Draining: gracefully, quickly or fast, to stay drained or to resume.    *)
startDraining ==
    /\ rip.draining = "no"
    /\ \E mode \in {"drain", "resume"} :
         LET s == [rip EXCEPT !.draining = mode] IN
         rip' \in UNION {Run(kill_claim(s, e) \cup retire_claim(s, e, FALSE)
                               \cup retire_claim(s, e, TRUE), e) : e \in Envs(TRUE)}

cancelDraining ==
    /\ Running /\ rip.draining # "no"
    /\ rip' = [rip EXCEPT !.draining = "no"]

(* Another slot's starter exits and finds the draining complete.           *)
checkForDrainCompletion ==
    /\ rip.draining # "no"
    /\ rip' \in After(LAMBDA e : CheckForDrainCompletion(rip, e))

(* The master starts a new startd.                                         *)
NewResource ==
    [r_state |-> "owner", r_act |-> "idle", r_destination |-> "no",
     r_cur |-> NewClaim, r_pre |-> NoClaim, r_pre_pre |-> NoClaim,
     r_suspended_by_command |-> FALSE, acceptedWhileDraining |-> FALSE,
     draining |-> "no", startOK |-> FALSE, todo |-> <<>>,
     starter |-> "none", orphans |-> 0, boinc |-> "none",
     idleSuspended |-> FALSE, failed |-> FALSE, excepted |-> FALSE,
     down |-> FALSE]

Restart == rip.down /\ rip' = [NewResource EXCEPT !.failed = rip.failed]

Init == rip = NewResource

Next ==
    \/ RefuseRequest \/ RequestPreemption \/ RequestClaim
    \/ requestClaimSockClosed \/ command_release_claim
    \/ match_info \/ match_timed_out
    \/ activate_claim \/ deactivate_claim
    \/ suspend_claim \/ continue_claim
    \/ vacate_claim \/ vacate_claim_fast \/ leaseExpired
    \/ eval_state
    \/ softkillTimeout \/ sigkillStarter
    \/ StarterExits \/ OrphanExits \/ BackfillClientExits
    \/ startDraining \/ cancelDraining \/ checkForDrainCompletion
    \/ Restart

(* A request waits for the running claim to go.                            *)
Preempted == Running /\ rip.r_state = "claimed" /\ HasPreemptingClaim(rip)

(* What fairness of eval_state, softkillTimeout, sigkillStarter, and of    *)
(* StarterExits and BackfillClientExits after SIGKILL gives.  The time a   *)
(* job runs is what uses up its retirement (getJobTotalRunTime), and a     *)
(* claim without one has none: whoever runs again and again while a        *)
(* request waits is preempted.  The kill timers go off, and a killed       *)
(* process is reaped.                                                      *)
Fairness ==
    /\ []<>(Preempted /\ rip.r_cur.c_state \in {"idle", "running"})
          => []<>~Preempted
    /\ \A level \in {"term", "hold", "quit", "kill"} :
          []<>~(Running /\ rip.starter = level)
    /\ []<>~(Running /\ rip.boinc = "kill")

Spec == Init /\ [][Next]_rip /\ Fairness

-----------------------------------------------------------------------------
(* Every field of the resource has its type.                               *)
TypeOK ==
    rip \in [r_state: {"owner", "unclaimed", "matched", "claimed",
                       "preempting", "backfill", "drained"},
             r_act: {"idle", "busy", "suspended", "retiring", "vacating",
                     "killing"},
             r_destination: {"no", "owner", "matched", "claimed"},
             r_cur: Claim, r_pre: Claim, r_pre_pre: Claim,
             r_suspended_by_command: BOOLEAN, acceptedWhileDraining: BOOLEAN,
             draining: {"no", "drain", "resume"}, startOK: {FALSE},
             todo: {<<>>}, starter: StarterLevels,
             orphans: 0 .. 1, boinc: {"none", "run", "kill"},
             idleSuspended: BOOLEAN, failed: BOOLEAN, excepted: BOOLEAN,
             down: BOOLEAN]

(* No sequence of commands, timers, exits and policy decisions reaches an  *)
(* EXCEPT or a failed ASSERT of the state machine: the destination is one  *)
(* the state knows (ResState::set_destination, starterExited), a claim is  *)
(* begun once (Claim::beginClaim), and a destination of Claimed has the    *)
(* claim and the request it needs (acceptClaimRequest, set_destination).   *)
NoExcept == ~rip.excepted

(* Between two handlers the resource has a current claim, it has a         *)
(* preempting claim exactly while it is claimed or preempting (so a        *)
(* request that would preempt always finds one to wait on), and a matched  *)
(* slot has the match timer that will end the match.                       *)
ClaimsAreInPlace ==
    /\ TypeOK
    /\ Running =>
         /\ rip.r_cur # NoClaim
         /\ rip.r_pre # NoClaim <=> rip.r_state \in {"claimed", "preempting"}
         /\ rip.r_state = "matched" => rip.r_cur.match

(* The state a slot advertises is true of its processes: a starter runs    *)
(* only for a claimed slot that is not idle or for a preempting one, such  *)
(* a slot has its starter (but for a claim suspended by command while it   *)
(* had no job), the backfill client runs exactly while the slot is         *)
(* backfill and not idle, and a starter loses its claim only when it could *)
(* not be signalled.  The next claim never begins while the last job runs. *)
StarterMatchesActivity == Running =>
    /\ HasStarter(rip) => \/ rip.r_state = "claimed" /\ rip.r_act # "idle"
                          \/ rip.r_state = "preempting"
    /\ \/ rip.r_state = "claimed" /\ rip.r_act \in {"busy", "retiring", "suspended"}
       \/ rip.r_state = "preempting"
       => HasStarter(rip) \/ rip.idleSuspended
    /\ rip.boinc # "none" <=> (rip.r_state = "backfill" /\ rip.r_act # "idle")
    /\ rip.orphans > 0 => rip.failed

Pending == Running /\ (rip.r_cur.stream \/ rip.r_pre.stream)

(* A schedd that waits on its REQUEST_CLAIM is answered: the job in its    *)
(* way is retired, vacated and killed (Starter's kill timers), the         *)
(* preempting claim takes over or is given up (leave_preempting_state),    *)
(* whatever commands, requests and draining come in between.  Only a claim *)
(* that is suspended and never resumed may keep it waiting, for its        *)
(* retirement time stands still (evalRetirementRemaining).                 *)
RequestIsSettled ==
    []<>~Pending \/ <>[](Preempted /\ rip.r_cur.c_state = "suspended")
=============================================================================
