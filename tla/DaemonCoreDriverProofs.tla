------------------------- MODULE DaemonCoreDriverProofs -------------------------
(***************************************************************************)
(* DaemonCore::Driver never sleeps on a pending signal, for every sigTable *)
(* and every set of unix signals.                                          *)
(***************************************************************************)
EXTENDS DaemonCoreDriver, TLAPS

(* Where the flag async_sigs_unblocked and the signal mask stand in the loop. *)
FlagsInv ==
  /\ ~mask => pc \in {"unmasked", "asleep", "woken"}
  /\ pc \in {"flagged", "unmasked", "asleep", "woken"} => unblocked
  /\ unblocked => pc \in {"flagged", "unmasked", "asleep", "woken", "masked"}
  /\ running # None => pc = "scan" /\ idx <= Len(SigTable) /\ running = SigTable[idx]

(* What stands between a pending signal and a long sleep: behind the scan it is
   sent_signal, then the timeout, then the pipe. *)
PendingInv ==
  /\ pc = "scan" => \A i \in 1..Len(SigTable) :
                      i < idx /\ SigTable[i] \in pend => sent_signal
  /\ running # None /\ running \in pend => sent_signal
  /\ pc = "timers" /\ pend # {} => sent_signal \/ Services
  /\ pc \in {"setup", "flagged"} /\ pend # {} => timeout = "zero" \/ Services
  /\ pc \in {"unmasked", "asleep"} /\ pend # {} => timeout = "zero" \/ pipe \/ Services

(* From the drain to select the pipe is empty, but for the signals delivered
   since they were unmasked. *)
PipeInv ==
  /\ pc \in {"timers", "setup", "flagged"} => ~pipe
  /\ pc \in {"unmasked", "asleep"} /\ pipe => pend # {}

Inv == TypeOK /\ FlagsInv /\ PendingInv /\ PipeInv

(* The number of registered signals is a natural number. *)
LEMMA TableLength == Len(SigTable) \in Nat
  BY DriverAssumption

(* The scan may start at the first entry, even of an empty table. *)
LEMMA FirstEntry == 1 \in 1..(Len(SigTable) + 1)
  BY TableLength

(* Every entry of sigTable is a signal. *)
LEMMA EntryIsSignal == \A i \in 1..Len(SigTable) : SigTable[i] \in Sigs
  BY DEF Sigs

(* Every signal has an entry in sigTable: the scan reaches all of them. *)
LEMMA SignalHasEntry == \A s \in Sigs : \E i \in 1..Len(SigTable) : s = SigTable[i]
  BY DEF Sigs

(* The daemon starts with no signal pending and the signals masked. *)
LEMMA InvInit == Init => Inv
<1> SUFFICES ASSUME Init PROVE Inv
  OBVIOUS
<1> USE TableLength, DriverAssumption
<1>1. TypeOK
  BY FirstEntry, Zenon DEF Init, TypeOK, PCs
<1>2. FlagsInv
  BY DEF Init, FlagsInv
<1>3. PendingInv
  BY DEF Init, PendingInv
<1>4. PipeInv
  BY DEF Init, PipeInv
<1> QED BY <1>1, <1>2, <1>3, <1>4 DEF Inv

(* Raising a signal, in a handler, from another daemon or from the kernel. *)
LEMMA InvRaise ==
  ASSUME Inv, NEW s \in Sigs, Raise(s) \/ HandleSigCommand(s) \/ Post(s)
  PROVE  Inv'
<1> USE DriverAssumption, TableLength
<1>1. CASE Raise(s)
  <2>1. TypeOK'
    BY <1>1 DEF Inv, TypeOK, Raise, SignalMyself, table, os
  <2>2. FlagsInv'
    BY <1>1 DEF Inv, FlagsInv, Raise, SignalMyself, table, os
  <2>3. PendingInv'
    BY <1>1 DEF Inv, TypeOK, FlagsInv, PendingInv, Raise, InHandler, SignalMyself, table, os
  <2>4. PipeInv'
    BY <1>1 DEF Inv, TypeOK, FlagsInv, PipeInv, Raise, InHandler, SignalMyself, table, os
  <2> QED BY <2>1, <2>2, <2>3, <2>4 DEF Inv
<1>2. CASE HandleSigCommand(s)
  BY <1>2 DEF Inv, TypeOK, FlagsInv, PendingInv, PipeInv, HandleSigCommand, table, os
<1>3. CASE Post(s)
  BY <1>3 DEF Inv, TypeOK, FlagsInv, PendingInv, PipeInv, Post, table
<1> QED BY <1>1, <1>2, <1>3

(* Delivery by the kernel leaves a byte in the pipe. *)
LEMMA InvDeliver ==
  ASSUME Inv, NEW s \in UnixSigs, Deliver(s)
  PROVE  Inv'
<1> USE DriverAssumption, TableLength
<1>1. TypeOK'
  BY DEF Inv, TypeOK, Deliver, SignalMyself, table, PCs
<1>2. FlagsInv'
  BY DEF Inv, TypeOK, FlagsInv, Deliver, SignalMyself, table, PCs
<1>3. PendingInv'
  BY DEF Inv, TypeOK, FlagsInv, PendingInv, Deliver, SignalMyself, table, PCs
<1>4. PipeInv'
  BY DEF Inv, TypeOK, FlagsInv, PipeInv, Deliver, SignalMyself, table, PCs
<1> QED BY <1>1, <1>2, <1>3, <1>4 DEF Inv

(* The scan of sigTable. *)
LEMMA InvScan ==
  ASSUME Inv, PumpDone \/ ScanEntry \/ SignalHandlerReturns \/ Drain
  PROVE  Inv'
<1> USE DriverAssumption, TableLength
<1>1. CASE PumpDone
  <2>1. TypeOK'
    BY <1>1, FirstEntry, Zenon DEF Inv, TypeOK, PumpDone, os, PCs
  <2>2. FlagsInv'
    BY <1>1 DEF Inv, FlagsInv, PumpDone, os
  <2>3. PendingInv'
    BY <1>1 DEF Inv, FlagsInv, PendingInv, PumpDone
  <2>4. PipeInv'
    BY <1>1 DEF PipeInv, PumpDone
  <2> QED BY <2>1, <2>2, <2>3, <2>4 DEF Inv
<1>2. CASE ScanEntry
  <2>1. TypeOK'
    BY <1>2, EntryIsSignal DEF Inv, TypeOK, ScanEntry, os
  <2>2. FlagsInv'
    BY <1>2 DEF Inv, TypeOK, FlagsInv, ScanEntry, os
  <2>3. PendingInv'
    BY <1>2 DEF Inv, TypeOK, PendingInv, ScanEntry, os
  <2>4. PipeInv'
    BY <1>2 DEF Inv, PipeInv, ScanEntry
  <2> QED BY <2>1, <2>2, <2>3, <2>4 DEF Inv
<1>3. CASE SignalHandlerReturns
  BY <1>3 DEF Inv, TypeOK, FlagsInv, PendingInv, PipeInv, SignalHandlerReturns, os
<1>4. CASE Drain
  <2>1. ASSUME pend # {} PROVE sent_signal
    <3>1. PICK s \in pend : TRUE
      BY <2>1
    <3>2. PICK i \in 1..Len(SigTable) : s = SigTable[i]
      BY <3>1, SignalHasEntry DEF Inv, TypeOK
    <3> QED BY <1>4, <3>1, <3>2 DEF Inv, TypeOK, PendingInv, Drain
  <2>2. TypeOK'
    BY <1>4, Zenon DEF Inv, TypeOK, Drain, table, os, PCs
  <2>3. FlagsInv'
    BY <1>4 DEF Inv, TypeOK, FlagsInv, Drain, table, os
  <2>4. PendingInv'
    BY <1>4, <2>1 DEF Inv, TypeOK, FlagsInv, PendingInv, Drain, table
  <2>5. PipeInv'
    BY <1>4 DEF PipeInv, Drain
  <2> QED BY <2>2, <2>3, <2>4, <2>5 DEF Inv
<1> QED BY <1>1, <1>2, <1>3, <1>4

(* From the timers to select and back to the handlers. *)
LEMMA InvSleep ==
  ASSUME Inv,
         \/ \E next \in {"zero", "later", "never"} : TimeoutReturns(next)
         \/ SetFlag
         \/ Unmask
         \/ Select
         \/ SelectReturns
         \/ SelectReady
         \/ Mask
         \/ ClearFlag
         \/ HandlersDone
  PROVE  Inv'
<1> USE DriverAssumption, TableLength DEF Inv, table, os, PCs
<1>1. ASSUME NEW next \in {"zero", "later", "never"}, TimeoutReturns(next) PROVE Inv'
  BY <1>1 DEF TypeOK, FlagsInv, PendingInv, PipeInv, TimeoutReturns
<1>2. CASE SetFlag
  BY <1>2 DEF TypeOK, FlagsInv, PendingInv, PipeInv, SetFlag
<1>3. CASE Unmask
  <2>1. TypeOK'
    BY <1>3, Zenon DEF TypeOK, Unmask, SignalMyself
  <2>2. FlagsInv'
    BY <1>3 DEF FlagsInv, Unmask, SignalMyself
  <2>3. PendingInv'
    BY <1>3 DEF TypeOK, FlagsInv, PendingInv, Unmask, SignalMyself
  <2>4. PipeInv'
    BY <1>3 DEF TypeOK, FlagsInv, PipeInv, Unmask, SignalMyself
  <2> QED BY <2>1, <2>2, <2>3, <2>4
<1>4. CASE Select
  BY <1>4 DEF TypeOK, FlagsInv, PendingInv, PipeInv, Select
<1>5. CASE SelectReturns
  BY <1>5 DEF TypeOK, FlagsInv, PendingInv, PipeInv, SelectReturns
<1>6. CASE SelectReady
  BY <1>6 DEF TypeOK, FlagsInv, PendingInv, PipeInv, SelectReady
<1>7. CASE Mask
  BY <1>7 DEF TypeOK, FlagsInv, PendingInv, PipeInv, Mask
<1>8. CASE ClearFlag
  BY <1>8, Zenon DEF TypeOK, FlagsInv, PendingInv, PipeInv, ClearFlag
<1>9. CASE HandlersDone
  BY <1>9 DEF TypeOK, FlagsInv, PendingInv, PipeInv, HandlersDone
<1> QED BY <1>1, <1>2, <1>3, <1>4, <1>5, <1>6, <1>7, <1>8, <1>9

(* The invariant of the loop. *)
THEOREM DriverInvariance == Spec => []Inv
<1>1. Inv /\ [Next]_vars => Inv'
  <2> SUFFICES ASSUME Inv, [Next]_vars PROVE Inv'
    OBVIOUS
  <2>1. CASE Loop
    BY <2>1, InvScan, InvSleep DEF Loop
  <2>2. ASSUME NEW s \in UnixSigs, Deliver(s) PROVE Inv'
    BY <2>2, InvDeliver
  <2>3. CASE SelectReady
    BY <2>3, InvSleep
  <2>4. ASSUME NEW s \in Sigs, Raise(s) \/ HandleSigCommand(s) \/ Post(s) PROVE Inv'
    BY <2>4, InvRaise
  <2>5. CASE UNCHANGED vars
    BY <2>5 DEF vars, table, os, Inv, TypeOK, FlagsInv, PendingInv, PipeInv
  <2> QED BY <2>1, <2>2, <2>3, <2>4, <2>5 DEF Next
<1> QED BY <1>1, InvInit, PTL DEF Spec

(* Every variable of the loop always has its type; in particular the scan stays
   within sigTable. *)
THEOREM DriverTypeCorrect == Spec => []TypeOK
<1>1. Inv => TypeOK
  BY DEF Inv
<1> QED BY <1>1, DriverInvariance, PTL

(* select never sleeps on a pending signal, in a daemon whose timer handlers do
   not serve commands: sent_signal, the timeout and async_pipe between them
   cover every point of the loop at which a signal can be raised. *)
THEOREM DriverNeverSleepsOnSignal ==
  ASSUME ~Services
  PROVE  Spec => []NoSleepOnSignal
<1>1. Inv => NoSleepOnSignal
  BY DEF Inv, PendingInv, NoSleepOnSignal
<1> QED BY <1>1, DriverInvariance, PTL

(* A byte in async_pipe never outlives its signal: with or without commands
   served by timer handlers, select wakes up for it only if a signal is
   pending. *)
THEOREM DriverNoStaleWakeup == Spec => []NoStaleWakeup
<1>1. Inv => NoStaleWakeup
  BY DEF Inv, PipeInv, NoStaleWakeup
<1> QED BY <1>1, DriverInvariance, PTL
=============================================================================
