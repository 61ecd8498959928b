-------------------------- MODULE ClassAdLogReader --------------------------
(***************************************************************************)
(* The mirror of a ClassAdLog that another process keeps (the job router,  *)
(* for one): ClassAdLogReader polls the log while its writer appends to    *)
(* it, crashes or rotates it.  ClassAdLogProber decides from the sequence  *)
(* number, the size and one record whether the file has grown or has to be *)
(* read afresh; ClassAdLogParser reads it record by record.                *)
(*                                                                         *)
(* The writer is the part of ClassAdLog that the reader can see.  A record *)
(* takes four units of the file, for the file may end inside of one, and   *)
(* it matters where; sizes and offsets count units.  Every read of the     *)
(* reader is a step of its own, between which the writer may do anything.  *)
(***************************************************************************)
EXTENDS Integers, Sequences, FiniteSets, Functions

CONSTANTS
  Keys, Values,
  MaxTransactions,   \* bound on transactions, and records outside of one
  MaxEvents,         \* bound on crashes and rotations together
  None

VARIABLES
  files,     \* sequence number -> records, the one cut at the end and where
  name,      \* the file that the name of the log stands for
  pending,   \* what the writer has to write yet
  running,   \* the writer is running
  transactions, crashes,

  step,      \* where Poll stands
  fp,        \* the file it has open
  nextOffset, curCALogEntry, lastCALogEntry,
  last_size, last_seq_num, cur_probed_size, cur_probed_seq_num,
  mirror,    \* what the consumer has
  loaded     \* history: the file that was read from its start last

writer == <<files, name, pending, running, transactions, crashes>>
parser == <<nextOffset, curCALogEntry, lastCALogEntry>>
last == <<last_size, last_seq_num>>
probed == <<cur_probed_size, cur_probed_seq_num>>
vars == <<writer, step, fp, parser, last, probed, mirror, loaded>>

-----------------------------------------------------------------------------
(* Records, and what they do to a table: None, or a value, for every key. *)

Fresh == 0

Record(op, key, value) == [op |-> op, key |-> key, value |-> value]

SeqRecord(n) == Record("LogHistoricalSequenceNumber", n, None)
Begin == Record("BeginTransaction", None, None)
End == Record("EndTransaction", None, None)
New(k) == Record("NewClassAd", k, Fresh)
Destroy(k) == Record("DestroyClassAd", k, None)
Set(k, v) == Record("SetAttribute", k, v)
NoRecord == Record("none", None, None)

LogRecords ==
  [op : {"LogHistoricalSequenceNumber"}, key : Nat, value : {None}]
    \cup [op : {"BeginTransaction", "EndTransaction"}, key : {None}, value : {None}]
    \cup [op : {"NewClassAd"}, key : Keys, value : {Fresh}]
    \cup [op : {"DestroyClassAd"}, key : Keys, value : {None}]
    \cup [op : {"SetAttribute"}, key : Keys, value : Values]

ASSUME ReaderAssumption ==
  /\ IsFiniteSet(Keys)
  /\ Keys \cap Nat = {}
  /\ None \notin Nat

(* ClassAdLogEntry::equal: which fields count depends on the operation. *)
equal(a, b) ==
  /\ a.op = b.op
  /\ a.op \notin {"BeginTransaction", "EndTransaction"} => a.key = b.key
  /\ a.op \in {"NewClassAd", "SetAttribute", "LogHistoricalSequenceNumber"} => a.value = b.value

Empty == [k \in Keys |-> None]

(* ProcessLogEntry, and the consumer: an attribute of an ad that is not there
   is passed over. *)
Process(t, r) ==
  CASE r.op = "NewClassAd" -> [t EXCEPT ![r.key] = Fresh]
    [] r.op = "DestroyClassAd" -> [t EXCEPT ![r.key] = None]
    [] r.op = "SetAttribute" -> [t EXCEPT ![r.key] = IF @ = None THEN None ELSE r.value]
    [] OTHER -> t

Replay(records) ==
  LET table[i \in 0 .. Len(records)] == IF i = 0 THEN Empty ELSE Process(table[i - 1], records[i])
  IN table[Len(records)]

(* The committed part of a file: all but a transaction without its end. *)
Unended(records, i) ==
  records[i] = Begin /\ \A j \in i + 1 .. Len(records) : records[j] # End

InTransaction(records) == \E i \in DOMAIN records : Unended(records, i)

Committed(records) ==
  IF InTransaction(records)
  THEN SubSeq(records, 1, (CHOOSE i \in DOMAIN records : Unended(records, i)) - 1)
  ELSE records

Records(n) == files[n].records
Table == Replay(Committed(Records(name)))

(* Where a file may be cut: in the body of a record, in the comment at the end of
   a transaction, and before the newline after that.  A record that is cut in its
   header is read as if it had not been begun. *)
Body == 1
Comment == 2
Newline == 3
Width == 4

Cuts(r) == IF r = End THEN {Body, Comment, Newline} ELSE {Body}
SizeOf(n) == Width * Len(Records(n)) + files[n].cut

-----------------------------------------------------------------------------
(* The writer. *)

Idle == UNCHANGED <<step, fp, parser, last, probed, mirror, loaded>>

(* What may be done to the key k. *)
Updates(k) == IF Table[k] = None THEN {<<New(k), Set(k, v)>> : v \in Values}
              ELSE {<<Set(k, v)>> : v \in Values} \cup {<<Destroy(k)>>}

CommitTransaction ==
  /\ running /\ pending = <<>>
  /\ transactions < MaxTransactions
  /\ transactions' = transactions + 1
  /\ \E k \in Keys : \E u \in Updates(k) :
       pending' \in {<<Begin>> \o u \o <<End>>} \cup (IF Len(u) = 1 THEN {u} ELSE {})
  /\ UNCHANGED <<files, name, running, crashes>>
  /\ Idle

(* A part of a record gets into the file, or the rest of it. *)
Write ==
  /\ running /\ pending # <<>>
  /\ LET f == files[name]
         r == Head(pending)
     IN \/ /\ \E cut \in Cuts(r) :
               cut > f.cut /\ files' = [files EXCEPT ![name] = [records |-> f.records, half |-> r, cut |-> cut]]
           /\ UNCHANGED pending
        \/ /\ files' = [files EXCEPT ![name] = [records |-> Append(f.records, r), half |-> None, cut |-> 0]]
           /\ pending' = Tail(pending)
  /\ UNCHANGED <<name, running, transactions, crashes>>
  /\ Idle

(* The table, in any order of its keys, after the number of the file. *)
Image(k) == (IF Table[k] = None THEN <<>> ELSE <<New(k)>>)
            \o (IF Table[k] \in {None, Fresh} THEN <<>> ELSE <<Set(k, Table[k])>>)

WriteClassAdLogState(order) ==
  LET state[i \in 0 .. Cardinality(Keys)] ==
        IF i = 0 THEN <<SeqRecord(name + 1)>> ELSE state[i - 1] \o Image(order[i])
  IN state[Cardinality(Keys)]

Rotated ==
  \E order \in Bijection(1 .. Cardinality(Keys), Keys) :
    /\ files' = [n \in 1 .. name + 1 |->
         IF n <= name THEN files[n] ELSE [records |-> WriteClassAdLogState(order), half |-> None, cut |-> 0]]
    /\ name' = name + 1

TruncLog ==
  /\ running /\ pending = <<>>
  /\ crashes + name <= MaxEvents
  /\ Rotated
  /\ UNCHANGED <<pending, running, transactions, crashes>>
  /\ Idle

Crash ==
  /\ running
  /\ crashes + name <= MaxEvents
  /\ crashes' = crashes + 1
  /\ running' = FALSE
  /\ pending' = <<>>
  /\ UNCHANGED <<files, name, transactions>>
  /\ Idle

(* The log is loaded, and rotated if it does not end cleanly. *)
InitLogFile ==
  /\ ~running
  /\ running' = TRUE
  /\ IF files[name].cut # 0 \/ InTransaction(Records(name)) THEN Rotated
     ELSE UNCHANGED <<files, name>>
  /\ UNCHANGED <<pending, transactions, crashes>>
  /\ Idle

Writer == CommitTransaction \/ Write \/ TruncLog \/ Crash \/ InitLogFile

-----------------------------------------------------------------------------
(* ClassAdLogParser. *)

(* What readLogEntry finds at an offset of the open file.  The end of a
   transaction is taken as read before its comment is complete.  The rest of the
   comment is no record, and a newline by itself passes for the end of the file. *)
Found(offset) ==
  LET f == files[fp]
      i == offset \div Width + 1
      part == offset % Width
      whole == i <= Len(f.records)
      atEnd == i = Len(f.records) + 1
  IN CASE part = 0 /\ whole ->
            [st |-> "FILE_READ_SUCCESS", record |-> f.records[i], next |-> offset + Width]
       [] part = 0 /\ atEnd /\ f.cut \in {Comment, Newline} ->
            [st |-> "FILE_READ_SUCCESS", record |-> End, next |-> offset + f.cut]
       [] part = 0 /\ atEnd /\ f.cut = Body -> [st |-> "torn", op |-> f.half.op]
       [] part = Comment /\ whole -> [st |-> "FILE_READ_ERROR"]
       [] part = Comment /\ atEnd /\ f.cut = Newline -> [st |-> "unfinished"]
       [] OTHER -> [st |-> "FILE_READ_EOF"]

(* After a record whose body is torn: its operation, with the fields of the one
   before it (operator= leaves op_type alone). *)
Torn(record, op) == [record EXCEPT !.op = op]

Entry(record, offset) == [record |-> record, offset |-> offset]

-----------------------------------------------------------------------------
(* ClassAdLogProber and ClassAdLogReader. *)

(* Mutant: the size is taken after the load. *)
incrementProbeInfoLate ==
  /\ last_size' = SizeOf(fp)
  /\ last_seq_num' = cur_probed_seq_num

incrementProbeInfo ==
  /\ last_size' = cur_probed_size
  /\ last_seq_num' = cur_probed_seq_num

(* Poll is over; the probe is forgotten if the load failed. *)
Done(success) ==
  /\ step' = "idle"
  /\ fp' = None
  /\ IF success THEN incrementProbeInfo ELSE UNCHANGED last

(* Mutant: the consumer is not reset. *)
BulkLoadOver ==
  /\ nextOffset' = 0
  /\ loaded' = fp
  /\ step' = "load"
  /\ UNCHANGED <<fp, curCALogEntry, lastCALogEntry, last, mirror>>

BulkLoad ==
  /\ nextOffset' = 0
  /\ mirror' = Empty
  /\ loaded' = fp
  /\ step' = "load"
  /\ UNCHANGED <<fp, curCALogEntry, lastCALogEntry, last>>

(* The log is opened, and its size taken. *)
Poll ==
  /\ step = "idle"
  /\ step' = "first"
  /\ fp' = name
  /\ cur_probed_size' = SizeOf(name)
  /\ UNCHANGED <<writer, parser, last, cur_probed_seq_num, mirror, loaded>>

(* The first record tells which file this is. *)
ProbeFirst ==
  /\ step = "first"
  /\ LET n == Records(fp)[1].key IN
     /\ cur_probed_seq_num' = n
     /\ \/ n # last_seq_num /\ BulkLoad
        \/ /\ n = last_seq_num
           /\ step' = "last"
           /\ UNCHANGED <<fp, parser, last, mirror, loaded>>
  /\ UNCHANGED <<writer, cur_probed_size>>

(* The record that was read last but one is compared; when there is nothing at
   its offset the first one stands in for it. *)
ProbeLast ==
  LET found == Found(lastCALogEntry.offset)
      record == CASE found.st = "FILE_READ_SUCCESS" -> found.record
                  [] found.st = "torn" -> Torn(Records(fp)[1], found.op)
                  [] OTHER -> Records(fp)[1]
      same == found.st # "FILE_READ_ERROR" /\ equal(record, lastCALogEntry.record)
  IN /\ step = "last"
     /\ \/ /\ same /\ cur_probed_size = last_size
           /\ Done(TRUE)
           /\ UNCHANGED <<parser, mirror, loaded>>
        \/ /\ same /\ cur_probed_size > last_size
           /\ step' = "load"
           /\ UNCHANGED <<fp, parser, last, mirror, loaded>>
        \/ /\ ~same \/ cur_probed_size < last_size
           /\ BulkLoad
     /\ UNCHANGED <<writer, probed>>

(* IncrementalLoad, one call of readLogEntry at a time. *)
IncrementalLoad ==
  LET found == Found(nextOffset) IN
  /\ step = "load"
  /\ \/ /\ found.st = "FILE_READ_SUCCESS"
        /\ lastCALogEntry' = curCALogEntry
        /\ curCALogEntry' = Entry(found.record, nextOffset)
        /\ nextOffset' = found.next
        /\ mirror' = Process(mirror, found.record)
        /\ UNCHANGED <<step, fp, last>>
     \/ /\ found.st \in {"FILE_READ_EOF", "unfinished"}
        /\ Done(TRUE)
        /\ UNCHANGED <<parser, mirror>>
     \/ /\ found.st = "torn"
        /\ lastCALogEntry' = curCALogEntry
        /\ curCALogEntry' = Entry(Torn(curCALogEntry.record, found.op), nextOffset)
        /\ Done(TRUE)
        /\ UNCHANGED <<nextOffset, mirror>>
     \/ /\ found.st \in {"FILE_READ_ERROR", "unfinished"}
        /\ lastCALogEntry' = curCALogEntry
        /\ curCALogEntry' = Entry(NoRecord, nextOffset)
        /\ Done(FALSE)
        /\ UNCHANGED <<nextOffset, mirror>>
  /\ UNCHANGED <<writer, probed, loaded>>

Reader == Poll \/ ProbeFirst \/ ProbeLast \/ IncrementalLoad

-----------------------------------------------------------------------------
Init ==
  /\ files = <<[records |-> <<SeqRecord(1)>>, half |-> None, cut |-> 0]>>
  /\ name = 1
  /\ pending = <<>>
  /\ running = TRUE
  /\ transactions = 0
  /\ crashes = 0
  /\ step = "idle"
  /\ fp = None
  /\ nextOffset = 0
  /\ curCALogEntry = Entry(NoRecord, 0)
  /\ lastCALogEntry = Entry(NoRecord, 0)
  /\ last_size = 0
  /\ last_seq_num = 0
  /\ cur_probed_size = 0
  /\ cur_probed_seq_num = 0
  /\ mirror = Empty
  /\ loaded = None

Next == Writer \/ Reader

Spec == Init /\ [][Next]_vars

(* The log is polled for ever, and the writer finishes what it writes and is
   started again. *)
FairSpec == Spec /\ WF_vars(Reader) /\ WF_vars(Write) /\ WF_vars(InitLogFile)

-----------------------------------------------------------------------------
(* Properties. *)

TypeOK ==
  /\ name \in DOMAIN files
  /\ step \in {"idle", "first", "last", "load"}
  /\ fp \in DOMAIN files \cup {None}
  /\ last_size \in Nat /\ last_seq_num \in Nat
  /\ nextOffset \in 0 .. IF loaded = None THEN 0 ELSE SizeOf(loaded)
  /\ mirror \in [Keys -> Values \cup {Fresh, None}]

(* The mirror is what the records up to nextOffset of one file make, the one
   that was read from its start last: no poll mixes two files, skips a record or
   reads one twice, whatever the writer does between two reads.  Every variable
   has its type. *)
MirrorIsPrefix ==
  /\ TypeOK
  /\ loaded # None => mirror = Replay(SubSeq(Records(loaded), 1, nextOffset \div Width))

(* Once the writer has come to rest the mirror becomes the table that was
   committed, and stays it: what a probe remembers of the file never hides
   records from the polls that follow.  There is one exception: a poll that took
   the end of a transaction just before its newline was written leaves the
   reader in front of that newline, where every poll ends until a rotation. *)
MirrorCatchesUp ==
  <>[](last_seq_num = name /\ (mirror = Table \/ nextOffset % Width = Newline))

=============================================================================
