---------------------------- MODULE DaemonCoreDriver ----------------------------
(***************************************************************************)
(* The event loop of every daemon, DaemonCore::Driver                      *)
(* (condor_daemon_core.V6/daemon_core.cpp), seen from its signals: a       *)
(* handler is never run in the context of a unix signal; the unix handler  *)
(* marks the signal as pending and the loop runs its handler later, so the *)
(* loop must not go to sleep in select with a signal pending.  Unix        *)
(* signals are masked except around select.                                *)
(***************************************************************************)
EXTENDS Naturals, Sequences

CONSTANTS SigTable,  \* the registered signals, in the order of sigTable
          UnixSigs,  \* those that the kernel can deliver
          None,      \* no handler is running
          Services   \* do timer handlers call ServiceCommandSocket?

Sigs == {SigTable[i] : i \in 1..Len(SigTable)}

ASSUME DriverAssumption ==
  /\ SigTable \in Seq(Sigs)
  /\ UnixSigs \subseteq Sigs
  /\ None \notin Sigs
  /\ Services \in BOOLEAN

VARIABLES
  pc,           \* where Driver is in its loop
  idx,          \* the entry of sigTable the scan has reached
  running,      \* the signal whose handler the scan has called
  pend,         \* the signals with is_pending
  sent_signal,
  timeout,      \* for how long select may sleep: "zero", "later" or "never"
  pipe,         \* there is something to read in async_pipe
  unblocked,    \* async_sigs_unblocked
  mask,         \* the unix signals are masked
  kpend         \* the unix signals pending in the kernel

table == <<idx, running>>
os == <<unblocked, mask, kpend>>
vars == <<pc, table, pend, sent_signal, timeout, pipe, os>>

Init ==
  /\ pc = "pump"
  /\ idx = 1
  /\ running = None
  /\ pend = {}
  /\ sent_signal = FALSE
  /\ timeout = "zero"
  /\ pipe = FALSE
  /\ unblocked = FALSE
  /\ mask = TRUE
  /\ kpend = {}

-----------------------------------------------------------------------------
(* Raising signals. *)

(* Signal_Myself, for the signals S in turn: mark them, and wake select when
   called from a unix signal handler. *)
SignalMyself(S) ==
  /\ pend' = pend \cup S
  /\ sent_signal' = (sent_signal \/ S # {})
  /\ pipe' = (pipe \/ (unblocked /\ S # {}))

(* Code of the daemon runs: pump work, a signal's handler, timer handlers,
   socket and pipe handlers. *)
InHandler == pc \in {"pump", "timers", "handlers"} \/ running # None

Raise(s) ==
  /\ InHandler
  /\ SignalMyself({s})
  /\ UNCHANGED <<pc, table, timeout, os>>

(* HandleSigCommand: DC_RAISESIGNAL from another daemon is read by a socket
   handler, or by ServiceCommandSocket from wherever the daemon calls it. *)
HandleSigCommand(s) ==
  /\ pc = "handlers" \/ (Services /\ pc = "timers")
  /\ pend' = pend \cup {s}
  /\ UNCHANGED <<pc, table, sent_signal, timeout, pipe, os>>

(* Another process calls kill, a child exits. *)
Post(s) ==
  /\ s \in UnixSigs
  /\ kpend' = kpend \cup {s}
  /\ UNCHANGED <<pc, table, pend, sent_signal, timeout, pipe, unblocked, mask>>

(* unix_sighup, unix_sigterm, ...: the kernel calls the unix handler, with all
   signals masked, and interrupts select. *)
Deliver(s) ==
  /\ ~mask
  /\ s \in kpend
  /\ kpend' = kpend \ {s}
  /\ SignalMyself({s})
  /\ pc' = IF pc = "asleep" THEN "woken" ELSE pc
  /\ UNCHANGED <<table, timeout, unblocked, mask>>

-----------------------------------------------------------------------------
(* The loop. *)

PumpDone ==
  /\ pc = "pump"
  /\ pc' = "scan"
  /\ idx' = 1
  /\ sent_signal' = FALSE
  /\ UNCHANGED <<running, pend, timeout, pipe, os>>

(* One entry of sigTable: "call handler, but first clear pending flag". *)
ScanEntry ==
  /\ pc = "scan"
  /\ running = None
  /\ idx <= Len(SigTable)
  /\ IF SigTable[idx] \in pend
       THEN /\ pend' = pend \ {SigTable[idx]}
            /\ running' = SigTable[idx]
            /\ UNCHANGED idx
       ELSE idx' = idx + 1 /\ UNCHANGED <<pend, running>>
  /\ UNCHANGED <<pc, sent_signal, timeout, pipe, os>>

ClearOnReturn ==
  /\ running # None
  /\ running' = None
  /\ idx' = idx + 1
  /\ pend' = pend \ {running}
  /\ UNCHANGED <<pc, sent_signal, timeout, pipe, os>>

SignalHandlerReturns ==
  /\ running # None
  /\ running' = None
  /\ idx' = idx + 1
  /\ UNCHANGED <<pc, pend, sent_signal, timeout, pipe, os>>

DrainNothing ==
  /\ pc = "scan"
  /\ idx > Len(SigTable)
  /\ pc' = "timers"
  /\ UNCHANGED <<table, pend, sent_signal, timeout, pipe, os>>

(* The end of the scan: the pipe is emptied. *)
Drain ==
  /\ pc = "scan"
  /\ idx > Len(SigTable)
  /\ pipe' = FALSE
  /\ pc' = "timers"
  /\ UNCHANGED <<table, pend, sent_signal, timeout, os>>

(* Timeout() has run the timers and says when the next one is due. *)
TimeoutReturns(next) ==
  /\ pc = "timers"
  /\ timeout' = IF sent_signal THEN "zero" ELSE next
  /\ pc' = "setup"
  /\ UNCHANGED <<table, pend, sent_signal, pipe, os>>

UnmaskFirst ==
  /\ pc = "setup"
  /\ mask' = FALSE
  /\ SignalMyself(kpend)
  /\ kpend' = {}
  /\ pc' = "flagged"
  /\ UNCHANGED <<table, timeout, unblocked>>

(* The flag is raised before the signals are unmasked ... *)
SetFlag ==
  /\ pc = "setup"
  /\ unblocked' = TRUE
  /\ pc' = "flagged"
  /\ UNCHANGED <<table, pend, sent_signal, timeout, pipe, mask, kpend>>

(* The kernel delivers what is pending before sigprocmask returns. *)
Unmask ==
  /\ pc = "flagged"
  /\ mask' = FALSE
  /\ SignalMyself(kpend)
  /\ kpend' = {}
  /\ pc' = "unmasked"
  /\ UNCHANGED <<table, timeout, unblocked>>

Select ==
  /\ pc = "unmasked"
  /\ pc' = "asleep"
  /\ UNCHANGED <<table, pend, sent_signal, timeout, pipe, os>>

(* select returns at once, because of the pipe, or when the next timer is due. *)
SelectReturns ==
  /\ pc = "asleep"
  /\ timeout # "never" \/ pipe
  /\ pc' = "woken"
  /\ UNCHANGED <<table, pend, sent_signal, timeout, pipe, os>>

(* A socket or a pipe of the daemon is ready. *)
SelectReady ==
  /\ pc = "asleep"
  /\ pc' = "woken"
  /\ UNCHANGED <<table, pend, sent_signal, timeout, pipe, os>>

(* ... and cleared after they are masked again. *)
Mask ==
  /\ pc = "woken"
  /\ mask' = TRUE
  /\ pc' = "masked"
  /\ UNCHANGED <<table, pend, sent_signal, timeout, pipe, unblocked, kpend>>

ClearFlag ==
  /\ pc = "masked"
  /\ unblocked' = FALSE
  /\ pc' = "handlers"
  /\ UNCHANGED <<table, pend, sent_signal, timeout, pipe, mask, kpend>>

(* The socket and pipe handlers have returned. *)
HandlersDone ==
  /\ pc = "handlers"
  /\ pc' = "pump"
  /\ UNCHANGED <<table, pend, sent_signal, timeout, pipe, os>>

Loop ==
  \/ PumpDone
  \/ ScanEntry
  \/ SignalHandlerReturns
  \/ Drain
  \/ \E next \in {"zero", "later", "never"} : TimeoutReturns(next)
  \/ SetFlag
  \/ Unmask
  \/ Select
  \/ SelectReturns
  \/ Mask
  \/ ClearFlag
  \/ HandlersDone

Next ==
  \/ Loop
  \/ \E s \in UnixSigs : Deliver(s)
  \/ SelectReady
  \/ \E s \in Sigs : Raise(s) \/ HandleSigCommand(s) \/ Post(s)

Spec == Init /\ [][Next]_vars

(* The loop runs, handlers return, and the kernel delivers the signals that are
   not masked.  Time is not assumed to pass: select may sleep for ever. *)
FairSpec ==
  /\ Spec
  /\ WF_vars(Loop /\ (pc = "asleep" => timeout = "zero" \/ pipe))
  /\ \A s \in UnixSigs : WF_vars(Deliver(s))

-----------------------------------------------------------------------------
(* Properties *)

PCs == {"pump", "scan", "timers", "setup", "flagged", "unmasked", "asleep",
        "woken", "masked", "handlers"}

(* Every variable has its type. *)
TypeOK ==
  /\ pc \in PCs
  /\ idx \in 1..(Len(SigTable) + 1)
  /\ running \in Sigs \cup {None}
  /\ pend \subseteq Sigs
  /\ sent_signal \in BOOLEAN
  /\ timeout \in {"zero", "later", "never"}
  /\ pipe \in BOOLEAN
  /\ unblocked \in BOOLEAN
  /\ mask \in BOOLEAN
  /\ kpend \subseteq UnixSigs

(* Driver never sleeps on a signal: if one is pending while it is in select,
   select returns at once, wherever the signal came from and at whatever point
   of the loop ("set the select timeout to zero so that we break thru select
   and service this outstanding signal"). *)
NoSleepOnSignal == pc = "asleep" /\ pend # {} => timeout = "zero" \/ pipe

(* select is never woken by a byte left over in async_pipe by a signal that
   has been handled: the drain leaves no room for that. *)
NoStaleWakeup == pc = "asleep" /\ pipe => pend # {}

(* Every signal is handled, even if no timer and no socket ever wakes select:
   one sent by the kernel, raised in any handler, or raised again while its
   own handler is running (the pending flag is cleared before the call). *)
SignalIsHandled ==
  \A s \in Sigs : s \in pend \cup kpend ~> running = s /\ s \notin pend
=============================================================================
