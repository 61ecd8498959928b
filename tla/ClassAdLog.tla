------------------------------- MODULE ClassAdLog -------------------------------
(***************************************************************************)
(* The persistent table of ClassAds of condor_utils/classad_log.{h,cpp},   *)
(* log_transaction.cpp and log.cpp: the schedd's job_queue.log, the        *)
(* negotiator's Accountantnew.log and the collector's offline ads are all  *)
(* instances of it.                                                        *)
(*                                                                         *)
(* Every change of the table is a record appended to one file; the table   *)
(* is rebuilt from the file at start-up (LoadClassAdLog), and the file is  *)
(* replaced from time to time by a dump of the table (TruncLog).  The      *)
(* process or the machine may die between any two steps below, including   *)
(* in the middle of a commit, of a load and of a rotation.                 *)
(***************************************************************************)
EXTENDS Integers, Sequences, FiniteSets

CONSTANTS Keys,         \* keys of ClassAds (job ids, user names)
          Names,        \* attribute names
          Values,       \* attribute values
          Appends,      \* the operations the daemon performs on the table
          Unset,        \* the attribute is not in the ad
          NoAd,         \* the key is not in the table
          NoTxn,        \* a null Transaction pointer
          Parks,        \* does the daemon put transactions aside?
          MaxHist,      \* max_historical_logs
          Faults,       \* file operations of a rotation that may fail
          OptionalTear, \* may a crash cut a record inside its optional field?
          MaxLog,       \* bound on the records of one log file
          MaxTxn,       \* bound on the records of one transaction
          MaxSeq,       \* bound on rotations requested by the daemon
          MaxDowns      \* bound on crashes and shutdowns

Ads == [Names -> Values \cup {Unset}]

ASSUME SentinelAssumption ==
  /\ Unset \notin Values
  /\ NoAd \notin Ads
  /\ NoAd \notin Keys

ASSUME FaultAssumption ==
  /\ Faults \subseteq {"hist", "create", "flush", "sync", "rename"}
  /\ OptionalTear \in BOOLEAN
  /\ Parks \in BOOLEAN

ASSUME BoundAssumption ==
  /\ MaxHist \in Nat
  /\ MaxLog \in Nat
  /\ MaxTxn \in Nat
  /\ MaxSeq \in Nat
  /\ MaxDowns \in Nat

-----------------------------------------------------------------------------
(* Log records and what they do to a table. *)

Tables == [Keys -> Ads \cup {NoAd}]
EmptyTable == [k \in Keys |-> NoAd]
EmptyAd == [n \in Names |-> Unset]

(* What a client of the log appends: LogNewClassAd, LogDestroyClassAd,
   LogSetAttribute, LogDeleteAttribute. *)
Ops ==
  [op : {"New", "Destroy"}, key : Keys]
    \cup [op : {"Set"}, key : Keys, name : Names, val : Values]
    \cup [op : {"Delete"}, key : Keys, name : Names]

Begin == [op |-> "Begin"]
End == [op |-> "End"]
SeqRecord(n) == [op |-> "Seq", seq |-> n]
Records == Ops \cup {Begin, End} \cup [op : {"Seq"}, seq : Nat]

ASSUME AppendsAssumption == Appends \subseteq Ops

ASSUME NoTxnAssumption == NoTxn \notin Seq(Records)

(* LogRecord::Play: an ad is created only if its key is free, and the other
   operations do nothing when the ad is missing. *)
Play(t, r) ==
  CASE r.op = "New" /\ t[r.key] = NoAd -> [t EXCEPT ![r.key] = EmptyAd]
    [] r.op = "Destroy" -> [t EXCEPT ![r.key] = NoAd]
    [] r.op = "Set" /\ t[r.key] # NoAd -> [t EXCEPT ![r.key][r.name] = r.val]
    [] r.op = "Delete" /\ t[r.key] # NoAd -> [t EXCEPT ![r.key][r.name] = Unset]
    [] OTHER -> t

-----------------------------------------------------------------------------
VARIABLES
  pc,       \* where the daemon is inside the ClassAdLog code
  table,    \* the in-memory hash table
  txn,      \* active_transaction: the records buffered so far, or NoTxn
  parked,   \* a transaction taken out with getActiveTransaction
  cm,       \* the commit or append in progress: next record, nondurable?
  file,     \* the records written through log_fp, buffered ones included
  flushed,  \* how many of them the operating system has
  synced,   \* how many of them are on the disk
  torn,     \* a fragment of a record follows the last one in the file
  glued,    \* index of the first record glued to such a fragment (0: none)
  unended,  \* index of a record read as whole that lacks its newline (0: none)
  seq,      \* historical_sequence_number
  hist,     \* the historical logs kept next to the file
  ld,       \* the progress of LoadClassAdLog
  tr,       \* the progress of TruncateClassAdLog
  must,     \* requires_successful_cleaning of the InitLogFile in progress
  downs,    \* crashes and shutdowns so far
  acked,    \* history: the last change was acknowledged as durable
  gh        \* history: what each prefix of the file stands for

disk == <<file, flushed, synced, torn, glued, unended, gh>>
vars == <<pc, table, txn, parked, cm, disk, seq, hist, ld, tr, must, downs, acked>>

(* The meaning of a log file, record by record: mem is the table after
   playing every record, com the table of the completed transactions, open
   whether a transaction has begun and not ended. *)
GhostInit == [mem |-> EmptyTable, com |-> EmptyTable, open |-> FALSE]

GhostStep(g, r) ==
  LET m == Play(g.mem, r) IN
  IF r.op = "Begin" \/ (g.open /\ r.op # "End")
    THEN [mem |-> m, com |-> g.com, open |-> TRUE]
    ELSE [mem |-> m, com |-> m, open |-> FALSE]

At(g, i) == IF i = 0 THEN GhostInit ELSE g[i]
G(i) == At(gh, i)

NoLoad == [pos |-> 0, txn |-> NoTxn, j |-> 0, clean |-> TRUE]
NoDump == [keys |-> {}, key |-> NoAd, names |-> {}, tmp |-> <<>>, tgh |-> <<>>]
NoCommit == [i |-> 0, nd |-> FALSE]

Init ==
  /\ pc = "down"
  /\ table = EmptyTable
  /\ txn = NoTxn
  /\ parked = NoTxn
  /\ cm = NoCommit
  /\ file = <<>>
  /\ flushed = 0
  /\ synced = 0
  /\ torn = FALSE
  /\ glued = 0
  /\ unended = 0
  /\ seq = 0
  /\ hist = {}
  /\ ld = NoLoad
  /\ tr = NoDump
  /\ must = FALSE
  /\ downs = 0
  /\ acked = FALSE
  /\ gh = <<>>

(* LogRecord::Write appends to the stdio buffer of log_fp.  A record written
   behind a fragment ends up on the fragment's line. *)
Write(r) ==
  /\ file' = Append(file, r)
  /\ gh' = Append(gh, GhostStep(G(Len(file)), r))
  /\ glued' = IF torn /\ glued = 0 THEN Len(file) + 1 ELSE glued
  /\ torn' = FALSE
  /\ UNCHANGED unended

SyncWithoutFlush ==
  /\ flushed' = flushed
  /\ synced' = Len(file)

FlushWithoutSync ==
  /\ flushed' = Len(file)
  /\ synced' = synced

(* FlushClassAdLog(fp, true): fflush and fdatasync. *)
Sync ==
  /\ flushed' = Len(file)
  /\ synced' = Len(file)

-----------------------------------------------------------------------------
(* Operations of the daemon on a log that is open. *)

BeginTransaction ==
  /\ pc = "ready"
  /\ txn = NoTxn
  /\ txn' = <<>>
  /\ UNCHANGED <<pc, table, parked, cm, disk, seq, hist, ld, tr, must, downs, acked>>

AbortTransaction ==
  /\ pc = "ready"
  /\ txn # NoTxn
  /\ txn' = NoTxn
  /\ UNCHANGED <<pc, table, parked, cm, disk, seq, hist, ld, tr, must, downs, acked>>

(* getActiveTransaction: the schedd puts a client's transaction aside while it
   serves another one. *)
GetActiveTransaction ==
  /\ pc = "ready"
  /\ Parks
  /\ txn # NoTxn
  /\ parked = NoTxn
  /\ parked' = txn
  /\ txn' = NoTxn
  /\ UNCHANGED <<pc, table, cm, disk, seq, hist, ld, tr, must, downs, acked>>

SetActiveTransaction ==
  /\ pc = "ready"
  /\ txn = NoTxn
  /\ parked # NoTxn
  /\ txn' = parked
  /\ parked' = NoTxn
  /\ UNCHANGED <<pc, table, cm, disk, seq, hist, ld, tr, must, downs, acked>>

(* AppendLog inside a transaction only buffers; the first record is preceded
   by the begin marker. *)
AppendToTransaction(r) ==
  /\ pc = "ready"
  /\ txn # NoTxn
  /\ Len(txn) < MaxTxn
  /\ txn' = IF txn = <<>> THEN <<Begin, r>> ELSE Append(txn, r)
  /\ UNCHANGED <<pc, table, parked, cm, disk, seq, hist, ld, tr, must, downs, acked>>

(* AppendLog outside a transaction: write, force unless the caller raised the
   nondurable level around the call, then play. *)
AppendLog(r, nd) ==
  /\ pc = "ready"
  /\ txn = NoTxn
  /\ Len(file) < MaxLog
  /\ Write(r)
  /\ acked' = FALSE
  /\ pc' = "append"
  /\ cm' = [i |-> 0, nd |-> nd]
  /\ UNCHANGED <<table, txn, parked, flushed, synced, seq, hist, ld, tr, must, downs>>

AppendLogDoneUnplayed ==
  /\ pc = "append"
  /\ IF cm.nd THEN UNCHANGED <<flushed, synced, table>>
     ELSE Sync /\ table' = Play(table, file[Len(file)])
  /\ acked' = ~cm.nd
  /\ pc' = "ready"
  /\ cm' = NoCommit
  /\ UNCHANGED <<txn, parked, file, torn, glued, unended, gh, seq, hist, ld, tr, must, downs>>

AppendLogDone ==
  /\ pc = "append"
  /\ IF cm.nd THEN UNCHANGED <<flushed, synced>> ELSE Sync
  /\ acked' = ~cm.nd
  /\ table' = Play(table, file[Len(file)])
  /\ pc' = "ready"
  /\ cm' = NoCommit
  /\ UNCHANGED <<txn, parked, file, torn, glued, unended, gh, seq, hist, ld, tr, must, downs>>

(* CommitTransaction, and CommitNondurableTransaction when nd. *)
CommitTransaction(nd) ==
  /\ pc = "ready"
  /\ txn # NoTxn
  /\ IF txn = <<>>
       THEN txn' = NoTxn /\ UNCHANGED <<pc, cm>>
       ELSE /\ Len(file) + Len(txn) < MaxLog
            /\ txn' = Append(txn, End)
            /\ pc' = "commit"
            /\ cm' = [i |-> 1, nd |-> nd]
  /\ UNCHANGED <<table, parked, disk, seq, hist, ld, tr, must, downs, acked>>

(* One turn of the loop of Transaction::Commit: write the record, play it. *)
CommitRecord ==
  /\ pc = "commit"
  /\ cm.i <= Len(txn)
  /\ Write(txn[cm.i])
  /\ table' = Play(table, txn[cm.i])
  /\ acked' = (acked /\ txn[cm.i] # End)
  /\ cm' = [cm EXCEPT !.i = @ + 1]
  /\ UNCHANGED <<pc, txn, parked, flushed, synced, seq, hist, ld, tr, must, downs>>

CommitDone ==
  /\ pc = "commit"
  /\ cm.i > Len(txn)
  /\ IF cm.nd THEN UNCHANGED <<flushed, synced>> ELSE Sync
  /\ acked' = ~cm.nd
  /\ txn' = NoTxn
  /\ pc' = "ready"
  /\ cm' = NoCommit
  /\ UNCHANGED <<table, parked, file, torn, glued, unended, gh, seq, hist, ld, tr, must, downs>>

FlushLog ==
  /\ pc = "ready"
  /\ flushed' = Len(file)
  /\ UNCHANGED <<pc, table, txn, parked, cm, file, synced, torn, glued, unended, gh,
                 seq, hist, ld, tr, must, downs, acked>>

ForceLog ==
  /\ pc = "ready"
  /\ Sync
  /\ acked' = TRUE
  /\ UNCHANGED <<pc, table, txn, parked, cm, file, torn, glued, unended, gh,
                 seq, hist, ld, tr, must, downs>>

-----------------------------------------------------------------------------
(* Going down: the heap is gone, the file stays. *)

Halt ==
  /\ pc' = "down"
  /\ table' = EmptyTable
  /\ txn' = NoTxn
  /\ parked' = NoTxn
  /\ cm' = NoCommit
  /\ seq' = 0
  /\ ld' = NoLoad
  /\ tr' = NoDump
  /\ must' = FALSE
  /\ acked' = FALSE

(* StopLog closes the file, which flushes it. *)
StopLog ==
  /\ pc = "ready"
  /\ downs < MaxDowns
  /\ downs' = downs + 1
  /\ flushed' = Len(file)
  /\ Halt
  /\ UNCHANGED <<file, synced, torn, glued, unended, gh, hist>>

(* The file after a crash: the first n records and perhaps a part of the next
   one.  LogNewClassAd::ReadBody accepts a record that ends inside its last
   word, so a record cut there (optional) is taken for a whole one, and what
   is written later continues its line. *)
Cut(n, fragment, optional) ==
  LET m == IF optional THEN n + 1 ELSE n IN
  /\ fragment => n < Len(file) \/ torn
  /\ optional => /\ OptionalTear
                 /\ ~fragment
                 /\ n < Len(file)
                 /\ file[n + 1].op = "New"
  /\ file' = SubSeq(file, 1, m)
  /\ gh' = SubSeq(gh, 1, m)
  /\ torn' = fragment
  /\ glued' = IF glued <= n THEN glued ELSE 0
  /\ unended' = CASE unended # 0 /\ unended <= n -> unended
                  [] optional -> m
                  [] OTHER -> 0
  /\ flushed' = m

(* The daemon is killed or hits EXCEPT: what was flushed stays. *)
ProcessCrash(n, fragment, optional) ==
  /\ pc # "down"
  /\ downs < MaxDowns
  /\ downs' = downs + 1
  /\ n >= flushed
  /\ (n = Len(file) /\ torn) \/ glued = n + 1 => fragment
  /\ Cut(n, fragment, optional)
  /\ Halt
  /\ UNCHANGED <<synced, hist>>

(* The machine goes down: what was synced stays. *)
MachineCrash(n, fragment, optional) ==
  /\ downs < MaxDowns
  /\ downs' = downs + 1
  /\ n >= synced
  /\ Cut(n, fragment, optional)
  /\ synced' = IF optional THEN n + 1 ELSE n
  /\ Halt
  /\ UNCHANGED hist

-----------------------------------------------------------------------------
(* InitLogFile: LoadClassAdLog reads the records one at a time. *)

Restart ==
  /\ pc = "down"
  /\ pc' = "load"
  /\ seq' = 1
  /\ UNCHANGED <<table, txn, parked, cm, disk, hist, ld, tr, must, downs, acked>>

Readable(i) ==
  /\ i <= Len(file)
  /\ i # glued
  /\ i - 1 # unended \/ unended = 0

LoadRecord ==
  /\ pc = "load"
  /\ Readable(ld.pos + 1)
  /\ LET r == file[ld.pos + 1] IN
     \/ /\ r.op = "Begin"       \* a nested one only draws a warning
        /\ ld' = [ld EXCEPT !.pos = @ + 1, !.clean = FALSE,
                            !.txn = IF @ = NoTxn THEN <<>> ELSE @]
        /\ UNCHANGED <<pc, table, seq>>
     \/ /\ r.op = "End"         \* an unmatched one only draws a warning
        /\ ld' = [ld EXCEPT !.pos = @ + 1]
        /\ pc' = IF ld.txn = NoTxn THEN "load" ELSE "loadcommit"
        /\ UNCHANGED <<table, seq>>
     \/ /\ r.op = "Seq"
        /\ ld' = [ld EXCEPT !.pos = @ + 1]
        /\ seq' = r.seq
        /\ UNCHANGED <<pc, table>>
     \/ /\ r \in Ops
        /\ ld' = [ld EXCEPT !.pos = @ + 1,
                            !.txn = IF @ = NoTxn THEN @ ELSE Append(@, r)]
        /\ table' = IF ld.txn = NoTxn THEN Play(table, r) ELSE table
        /\ UNCHANGED <<pc, seq>>
  /\ UNCHANGED <<txn, parked, cm, disk, hist, tr, must, downs, acked>>

LoadCommitStuck ==
  /\ pc = "loadcommit"
  /\ table' = Play(table, ld.txn[ld.j + 1])
  /\ UNCHANGED <<pc, txn, parked, cm, disk, seq, hist, ld, tr, must, downs, acked>>

LoadCommitDropsLast ==
  /\ pc = "loadcommit"
  /\ IF ld.j < Len(ld.txn) - 1
       THEN /\ table' = Play(table, ld.txn[ld.j + 1])
            /\ ld' = [ld EXCEPT !.j = @ + 1]
            /\ UNCHANGED pc
       ELSE /\ pc' = "load"
            /\ ld' = [ld EXCEPT !.j = 0, !.txn = NoTxn]
            /\ UNCHANGED table
  /\ UNCHANGED <<txn, parked, cm, disk, seq, hist, tr, must, downs, acked>>

(* Transaction::Commit(NULL, ...) of the loader: play, write nothing. *)
LoadCommit ==
  /\ pc = "loadcommit"
  /\ IF ld.j < Len(ld.txn)
       THEN /\ table' = Play(table, ld.txn[ld.j + 1])
            /\ ld' = [ld EXCEPT !.j = @ + 1]
            /\ UNCHANGED pc
       ELSE /\ pc' = "load"
            /\ ld' = [ld EXCEPT !.j = 0, !.txn = NoTxn]
            /\ UNCHANGED table
  /\ UNCHANGED <<txn, parked, cm, disk, seq, hist, tr, must, downs, acked>>

AnyUnreadable(i) == file[i].op # "Begin"

(* InstantiateLogEntry gives up when the unreadable record may belong to a
   transaction that was committed later in the file (EXCEPT). *)
InsideClosedTransaction(i) ==
  /\ file[i].op # "Begin"
  /\ \E e \in (i + 1)..Len(file) : file[e].op = "End"

LoadFatal ==
  /\ pc = "load"
  /\ ld.pos < Len(file)
  /\ ~Readable(ld.pos + 1)
  /\ InsideClosedTransaction(ld.pos + 1)
  /\ Halt
  /\ UNCHANGED <<disk, hist, downs>>

CleanUnlessTorn == ld.pos < Len(file) \/ ld.txn # NoTxn

(* A fragment, an unreadable record or an open transaction at the end of the
   log: it must not be written again before it is rotated. *)
RequiresCleaning == torn \/ ld.pos < Len(file) \/ ld.txn # NoTxn

(* The end of LoadClassAdLog and the decision of InitLogFile: a log with a
   fragment or an open transaction at its end must be rotated before it is
   written again, one with transactions in it is rotated if that works. *)
LoadDone ==
  /\ pc = "load"
  /\ ~Readable(ld.pos + 1)
  /\ ld.pos < Len(file) => ~InsideClosedTransaction(ld.pos + 1)
  /\ must' = RequiresCleaning
  /\ IF ld.pos = 0 /\ Len(file) < MaxLog
       THEN Write(SeqRecord(seq)) /\ UNCHANGED <<flushed, synced>>
       ELSE UNCHANGED disk
  /\ pc' = IF must' \/ ~ld.clean THEN "rotate" ELSE "ready"
  /\ ld' = NoLoad
  /\ UNCHANGED <<table, txn, parked, cm, seq, hist, tr, downs, acked>>

-----------------------------------------------------------------------------
(* TruncLog: save the historical log, dump the table to a new file, rename. *)

SaveOneTooMany ==
  IF MaxHist = 0 THEN hist ELSE (hist \cup {seq}) \ {seq - MaxHist - 1}

(* SaveHistoricalClassAdLogs: link the log under its number, drop the link
   that fell out of the window. *)
SaveHistoricalLogs ==
  IF MaxHist = 0 THEN hist ELSE (hist \cup {seq}) \ {seq - MaxHist}

(* TruncLog returns false: fatal only for an InitLogFile that needs it. *)
TruncFailed(f) ==
  IF must THEN Halt /\ flushed' = Len(file)
  ELSE /\ pc' = "ready"
       /\ flushed' = f
       /\ tr' = NoDump
       /\ UNCHANGED <<table, txn, parked, cm, seq, ld, must, acked>>

TruncRequested == pc = "rotate" \/ (pc = "ready" /\ seq < MaxSeq)

(* The historical log could not be saved: no rotation. *)
TruncNoHistory ==
  /\ TruncRequested
  /\ "hist" \in Faults
  /\ MaxHist > 0
  /\ TruncFailed(flushed)
  /\ UNCHANGED <<file, synced, torn, glued, unended, gh, hist, downs>>

(* The new file could not be created: the old one stays open. *)
TruncNoTmp ==
  /\ TruncRequested
  /\ "create" \in Faults
  /\ hist' = SaveHistoricalLogs
  /\ TruncFailed(flushed)
  /\ UNCHANGED <<file, synced, torn, glued, unended, gh, downs>>

(* The new file starts with the next sequence number. *)
TruncStart ==
  /\ TruncRequested
  /\ hist' = SaveHistoricalLogs
  /\ pc' = "trunc"
  /\ tr' = [keys |-> {k \in Keys : table[k] # NoAd}, key |-> NoAd, names |-> {},
            tmp |-> <<SeqRecord(seq + 1)>>,
            tgh |-> <<GhostStep(GhostInit, SeqRecord(seq + 1))>>]
  /\ UNCHANGED <<table, txn, parked, cm, disk, seq, ld, must, downs, acked>>

(* WriteClassAdLogState: for each ad in turn a record that creates it and one
   for each of its attributes. *)
DumpRecord(r, rest) ==
  /\ tr' = [rest EXCEPT !.tmp = Append(@, r),
                        !.tgh = Append(@, GhostStep(@[Len(@)], r))]
  /\ UNCHANGED <<pc, table, txn, parked, cm, disk, seq, hist, ld, must, downs, acked>>

DumpAd(k) ==
  /\ pc = "trunc"
  /\ tr.names = {}
  /\ k \in tr.keys
  /\ DumpRecord([op |-> "New", key |-> k],
                [tr EXCEPT !.keys = @ \ {k}, !.key = k,
                           !.names = {n \in Names : table[k][n] # Unset}])

DumpAttribute(n) ==
  /\ pc = "trunc"
  /\ n \in tr.names
  /\ DumpRecord([op |-> "Set", key |-> tr.key, name |-> n, val |-> table[tr.key][n]],
                [tr EXCEPT !.names = @ \ {n}])

DumpDone == pc = "trunc" /\ tr.keys = {} /\ tr.names = {}

(* The dump is flushed and synced, the old file closed, the new one renamed
   over it, the directory synced and the new log reopened. *)
TruncRename ==
  /\ DumpDone
  /\ file' = tr.tmp
  /\ gh' = tr.tgh
  /\ flushed' = Len(tr.tmp)
  /\ synced' = Len(tr.tmp)
  /\ torn' = FALSE
  /\ glued' = 0
  /\ unended' = 0
  /\ seq' = seq + 1
  /\ pc' = "ready"
  /\ tr' = NoDump
  /\ must' = FALSE
  /\ UNCHANGED <<table, txn, parked, cm, hist, ld, downs, acked>>

(* fflush of the dump fails: WriteClassAdLogState notes the error, returns
   true, and the first n records (and a fragment) become the log. *)
TruncRenamePartial(n) ==
  /\ DumpDone
  /\ "flush" \in Faults
  /\ n < Len(tr.tmp)
  /\ file' = SubSeq(tr.tmp, 1, n)
  /\ gh' = SubSeq(tr.tgh, 1, n)
  /\ flushed' = n
  /\ synced' = n
  /\ torn' \in BOOLEAN
  /\ glued' = 0
  /\ unended' = 0
  /\ seq' = seq + 1
  /\ pc' = "ready"
  /\ tr' = NoDump
  /\ must' = FALSE
  /\ UNCHANGED <<table, txn, parked, cm, hist, ld, downs, acked>>

(* fdatasync of the dump fails: likewise, with nothing on the disk yet. *)
TruncRenameUnsynced ==
  /\ DumpDone
  /\ "sync" \in Faults
  /\ file' = tr.tmp
  /\ gh' = tr.tgh
  /\ flushed' = Len(tr.tmp)
  /\ synced' = 0
  /\ torn' = FALSE
  /\ glued' = 0
  /\ unended' = 0
  /\ seq' = seq + 1
  /\ pc' = "ready"
  /\ tr' = NoDump
  /\ must' = FALSE
  /\ UNCHANGED <<table, txn, parked, cm, hist, ld, downs, acked>>

(* The rename fails: the old file, closed meanwhile, is opened again. *)
TruncRenameFails ==
  /\ DumpDone
  /\ "rename" \in Faults
  /\ TruncFailed(Len(file))
  /\ UNCHANGED <<file, synced, torn, glued, unended, gh, hist, downs>>

-----------------------------------------------------------------------------
Client ==
  \/ BeginTransaction
  \/ AbortTransaction
  \/ GetActiveTransaction
  \/ SetActiveTransaction
  \/ \E r \in Appends : AppendToTransaction(r)
  \/ \E r \in Appends, nd \in BOOLEAN : AppendLog(r, nd)
  \/ \E nd \in BOOLEAN : CommitTransaction(nd)
  \/ FlushLog
  \/ ForceLog
  \/ StopLog

Crash ==
  \E n \in 0..Len(file), fragment \in BOOLEAN, optional \in BOOLEAN :
    \/ ProcessCrash(n, fragment, optional)
    \/ MachineCrash(n, fragment, optional)

Load ==
  \/ Restart
  \/ LoadRecord
  \/ LoadCommit
  \/ LoadFatal
  \/ LoadDone

Trunc ==
  \/ TruncNoHistory
  \/ TruncNoTmp
  \/ TruncStart
  \/ \E k \in Keys : DumpAd(k)
  \/ \E n \in Names : DumpAttribute(n)
  \/ TruncRename
  \/ \E n \in 0..Len(tr.tmp) : TruncRenamePartial(n)
  \/ TruncRenameUnsynced
  \/ TruncRenameFails

Next ==
  \/ Client
  \/ AppendLogDone
  \/ CommitRecord
  \/ CommitDone
  \/ Crash
  \/ Load
  \/ Trunc

Spec == Init /\ [][Next]_vars

-----------------------------------------------------------------------------
(* Properties *)

PCs == {"down", "load", "loadcommit", "rotate", "trunc", "ready", "append", "commit"}
Ghosts == [mem : Tables, com : Tables, open : BOOLEAN]
Txns == Seq(Records) \cup {NoTxn}

(* Every variable has its type and the counters are in range. *)
TypeOK ==
  /\ pc \in PCs
  /\ table \in Tables
  /\ txn \in Txns
  /\ parked \in Txns
  /\ cm \in [i : Nat, nd : BOOLEAN]
  /\ file \in Seq(Records)
  /\ gh \in Seq(Ghosts)
  /\ Len(gh) = Len(file)
  /\ flushed \in 0..Len(file)
  /\ synced \in 0..flushed
  /\ torn \in BOOLEAN
  /\ glued \in Nat
  /\ unended \in Nat
  /\ seq \in Nat
  /\ hist \subseteq Nat
  /\ ld \in [pos : 0..Len(file), txn : Txns, j : Nat, clean : BOOLEAN]
  /\ tr \in [keys : SUBSET Keys, key : Keys \cup {NoAd}, names : SUBSET Names,
             tmp : Seq(Records), tgh : Seq(Ghosts)]
  /\ must \in BOOLEAN
  /\ downs \in Nat
  /\ acked \in BOOLEAN

(* Whenever the daemon may use the table, it holds exactly the completed
   transactions of the log file: after any sequence of commits, aborts,
   crashes, recoveries and rotations, the memory and the file agree
   (Transaction::Commit, LoadClassAdLog, TruncateClassAdLog). *)
LogMatchesTable == pc = "ready" => table = G(Len(file)).com

(* A log in use never contains a record glued to the fragment of an earlier
   one, nor ends in a fragment or inside a transaction: LoadClassAdLog "must
   not write anything more" into a log with a broken line or an unfinished
   transaction, so InitLogFile insists on a rotation first. *)
OpenLogIsWellFormed ==
  pc = "ready" => ~torn /\ (\A i \in 1..Len(file) : Readable(i)) /\ ~G(Len(file)).open

(* Recovery never meets an unreadable record inside a closed transaction, the
   case in which InstantiateLogEntry gives up with EXCEPT. *)
RecoveryIsNeverFatal ==
  pc = "load" /\ ~Readable(ld.pos + 1) /\ ld.pos < Len(file)
    => ~InsideClosedTransaction(ld.pos + 1)

(* Whatever is in the file, loading it yields the completed transactions of
   the part that can be read, no more and no less, also when the file was
   cut, glued or left half written by a failed rotation (LoadClassAdLog). *)
LoadReplaysPrefix ==
  pc = "load" /\ ~Readable(ld.pos + 1) => table = G(ld.pos).com

(* The historical logs next to a log in use lie in a window of MaxHist numbers
   that ends at the current or the previous one, with no gap: neither a
   rotation that fails nor one interrupted by a crash makes
   SaveHistoricalClassAdLogs leave an old log behind or skip one. *)
HistoryWindow ==
  pc = "ready" /\ MaxHist > 0 =>
    \E last \in {seq - 1, seq} : hist = {n \in 1..last : n > last - MaxHist}

(* The log implements the transactional store: a crash returns the table to a
   state made of whole transactions, no older than the last one acknowledged
   as durable. *)
Store == INSTANCE TransactionalStore WITH
  States <- Tables,
  Empty <- EmptyTable,
  cur <- G(Len(file)).com,
  shown <- {G(i).com : i \in flushed..Len(file)},
  safe <- {G(i).com : i \in synced..Len(file)}

StoreSpec == Store!SSpec

(* What the daemon does on its own once it is started: the master restarts it,
   and the load, the rotation and the commit are loops without waiting. *)
Progress == AppendLogDone \/ CommitRecord \/ CommitDone \/ Load \/ Trunc

FairSpec == Spec /\ WF_vars(Progress /\ pc # "ready")

RotationFails == TruncNoHistory \/ TruncNoTmp \/ TruncRenameFails

(* Recovery ends: after a crash the log is in use again, whatever it was doing
   when it died, unless rotations fail for ever (InitLogFile then gives up on
   a log that needs one, and the daemon is started again). *)
RecoveryCompletes ==
  []<><<RotationFails>>_vars \/ (pc = "down" ~> pc = "ready")
=============================================================================
