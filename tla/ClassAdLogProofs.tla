--------------------------- MODULE ClassAdLogProofs ---------------------------
(***************************************************************************)
(* The theorems about ClassAdLog, for every value of the constants: what   *)
(* LoadClassAdLog makes of any file and, with ReliableFiles, its other     *)
(* invariants and that it implements TransactionalStore.  The contents     *)
(* of the store are the completed transactions of the file; what a crash   *)
(* may leave are the contents of the prefixes of the file that are not     *)
(* shorter than what was flushed (process) or synced (machine).            *)
(*                                                                         *)
(* The inductive invariant says, for each place in the code, how the       *)
(* table, the transaction in progress and the file hang together; the      *)
(* meaning of the file is given by the history variable gh, which grows    *)
(* with it, so that no induction over the file is needed.  The last part   *)
(* has an invariant of its own, AnyFile, for files whose markers come in   *)
(* any order.                                                              *)
(***************************************************************************)
EXTENDS ClassAdLog, TLAPS

(* The disk does what fflush and fdatasync report, and a crash never cuts a
   record inside the word that LogNewClassAd::ReadBody can do without. *)
ReliableFiles == ~OptionalTear /\ "flush" \notin Faults /\ "sync" \notin Faults

OpNames == {"New", "Destroy", "Set", "Delete"}

(* The fields an operation has. *)
LEMMA OpsFacts ==
  ASSUME NEW r \in Ops
  PROVE  /\ r.op \in OpNames
         /\ r.key \in Keys
         /\ r.op = "Set" => r.name \in Names /\ r.val \in Values
         /\ r.op = "Delete" => r.name \in Names
BY Zenon DEF Ops, OpNames

(* What the fields of each kind of record are. *)
LEMMA RecordFacts ==
  ASSUME NEW r \in Records
  PROVE  /\ r.op \in OpNames \cup {"Begin", "End", "Seq"}
         /\ r.op \in OpNames <=> r \in Ops
         /\ r.op = "Begin" <=> r = Begin
         /\ r.op = "End" <=> r = End
         /\ r.op = "Seq" => r.seq \in Nat
<1>1. r \in Ops => r.op \in OpNames
  BY OpsFacts, Zenon
<1>2. Begin.op = "Begin" /\ End.op = "End"
  BY Zenon DEF Begin, End
<1>3. CASE r \in Ops
  BY <1>1, <1>2, <1>3, Zenon DEF OpNames
<1>4. CASE r \in {Begin, End}
  BY <1>1, <1>2, <1>4, Zenon DEF OpNames
<1>5. CASE r \in [op : {"Seq"}, seq : Nat]
  BY <1>1, <1>2, <1>5, Zenon DEF OpNames
<1> QED
  BY <1>3, <1>4, <1>5, Zenon DEF Records

(* The markers, the header and every operation are log records. *)
LEMMA RecordTypes ==
  /\ Begin \in Records
  /\ End \in Records
  /\ Ops \subseteq Records
  /\ \A n \in Nat : SeqRecord(n) \in Records /\ SeqRecord(n).op = "Seq"
  /\ \A k \in Keys : [op |-> "New", key |-> k] \in Ops
  /\ \A k \in Keys, n \in Names, v \in Values :
       [op |-> "Set", key |-> k, name |-> n, val |-> v] \in Ops
BY Zenon DEF Records, SeqRecord, Ops

(* The length of a log is a number. *)
LEMMA LenIsNat ==
  ASSUME NEW S, NEW s \in Seq(S)
  PROVE  Len(s) \in Nat
  OBVIOUS

(* The empty table is a table, and an ad without attributes an ad. *)
LEMMA EmptyTypes == EmptyTable \in Tables /\ EmptyAd \in Ads
BY Zenon DEF EmptyTable, EmptyAd, Tables, Ads

(* Playing a record (LogRecord::Play) maps tables to tables. *)
LEMMA PlayType ==
  ASSUME NEW t \in Tables, NEW r \in Records
  PROVE  Play(t, r) \in Tables
<1>1. CASE r \in Ops
  <2> USE OpsFacts, EmptyTypes, SentinelAssumption
  <2>1. CASE r.op = "New"
    BY <1>1, <2>1, Zenon DEF Play, Tables
  <2>2. CASE r.op = "Destroy"
    BY <1>1, <2>2, Zenon DEF Play, Tables
  <2>3. CASE r.op = "Set"
    BY <1>1, <2>3, Zenon DEF Play, Tables, Ads
  <2>4. CASE r.op = "Delete"
    BY <1>1, <2>4, Zenon DEF Play, Tables, Ads
  <2> QED
    BY <1>1, <2>1, <2>2, <2>3, <2>4, Zenon DEF OpNames
<1>2. CASE r \notin Ops
  BY <1>2, RecordFacts, Zenon DEF Play, OpNames
<1> QED
  BY <1>1, <1>2, Zenon

(* Markers and sequence numbers leave the table alone. *)
LEMMA PlayMarker ==
  ASSUME NEW t \in Tables, NEW r \in Records, r \notin Ops
  PROVE  Play(t, r) = t
BY RecordFacts, Zenon DEF Play, OpNames

(* The account of the log stays typed when a record is read. *)
LEMMA GhostStepType ==
  ASSUME NEW g \in Ghosts, NEW r \in Records
  PROVE  GhostStep(g, r) \in Ghosts
BY PlayType, Zenon DEF GhostStep, Ghosts

(* What reading each kind of record does to the account of the log. *)
LEMMA GhostStepFields ==
  ASSUME NEW g \in Ghosts, NEW r \in Records
  PROVE  /\ GhostStep(g, r).mem = Play(g.mem, r)
         /\ GhostStep(g, r).open <=> (r = Begin \/ (g.open /\ r # End))
         /\ GhostStep(g, r).open => GhostStep(g, r).com = g.com
         /\ ~GhostStep(g, r).open => GhostStep(g, r).com = Play(g.mem, r)
<1> DEFINE m == Play(g.mem, r)
           o == r.op = "Begin" \/ (g.open /\ r.op # "End")
<1>1. o <=> (r = Begin \/ (g.open /\ r # End))
  BY RecordFacts, Zenon
<1>2. CASE o
  BY <1>1, <1>2, Zenon DEF GhostStep
<1>3. CASE ~o
  BY <1>1, <1>3, Zenon DEF GhostStep
<1> QED
  BY <1>2, <1>3, Zenon

(* The account of the empty log is typed. *)
LEMMA GhostInitType == GhostInit \in Ghosts
BY EmptyTypes, Zenon DEF GhostInit, Ghosts

-----------------------------------------------------------------------------
(* A file f with its meaning g: markers are properly bracketed. *)
IsTrace(f, g) ==
  /\ Len(g) = Len(f)
  /\ \A i \in 1..Len(f) :
       /\ g[i] = GhostStep(At(g, i - 1), f[i])
       /\ f[i] = Begin \/ f[i].op = "Seq" => ~At(g, i - 1).open
       /\ f[i] = End => At(g, i - 1).open

(* Which record may follow a prefix with meaning h. *)
MayFollow(h, r) ==
  /\ r = Begin \/ r.op = "Seq" => ~h.open
  /\ r = End => h.open

(* The account of every prefix of a log is typed. *)
LEMMA AtType ==
  ASSUME NEW g \in Seq(Ghosts), NEW i \in 0..Len(g)
  PROVE  At(g, i) \in Ghosts
BY GhostInitType DEF At

(* Appending a record that may follow extends the account by one step. *)
LEMMA TraceAppend ==
  ASSUME NEW f \in Seq(Records), NEW g \in Seq(Ghosts), IsTrace(f, g),
         NEW r \in Records, MayFollow(At(g, Len(f)), r)
  PROVE  LET f2 == Append(f, r)
             g2 == Append(g, GhostStep(At(g, Len(f)), r))
         IN  /\ f2 \in Seq(Records) /\ g2 \in Seq(Ghosts)
             /\ Len(f2) = Len(f) + 1
             /\ IsTrace(f2, g2)
             /\ \A i \in 0..Len(f) : At(g2, i) = At(g, i)
             /\ \A i \in 1..Len(f) : f2[i] = f[i]
             /\ At(g2, Len(f) + 1) = GhostStep(At(g, Len(f)), r)
             /\ f2[Len(f) + 1] = r
<1> DEFINE n == Len(f)
           f2 == Append(f, r)
           g2 == Append(g, GhostStep(At(g, Len(f)), r))
<1>0. n \in Nat /\ Len(g) = n
  BY DEF IsTrace
<1>1. GhostStep(At(g, n), r) \in Ghosts
  BY <1>0, AtType, GhostStepType
<1>2. f2 \in Seq(Records) /\ g2 \in Seq(Ghosts) /\ Len(f2) = n + 1 /\ Len(g2) = n + 1
  BY <1>0, <1>1
<1>3. \A i \in 1..n : f2[i] = f[i] /\ g2[i] = g[i]
  BY <1>0, <1>1
<1>4. f2[n + 1] = r /\ g2[n + 1] = GhostStep(At(g, n), r)
  BY <1>0, <1>1
<1> HIDE DEF f2, g2
<1>5. \A i \in 0..n : At(g2, i) = At(g, i)
  BY <1>0, <1>3 DEF At
<1>6. At(g2, n + 1) = GhostStep(At(g, n), r)
  BY <1>0, <1>4 DEF At
<1>7. IsTrace(f2, g2)
  <2> SUFFICES ASSUME NEW i \in 1..(n + 1)
               PROVE  /\ g2[i] = GhostStep(At(g2, i - 1), f2[i])
                      /\ f2[i] = Begin \/ f2[i].op = "Seq" => ~At(g2, i - 1).open
                      /\ f2[i] = End => At(g2, i - 1).open
    BY <1>2, Zenon DEF IsTrace
  <2>1. CASE i = n + 1
    BY <2>1, <1>0, <1>4, <1>5 DEF MayFollow
  <2>2. CASE i \in 1..n
    <3>1. At(g2, i - 1) = At(g, i - 1)
      BY <2>2, <1>0, <1>5
    <3> QED
      BY <2>2, <3>1, <1>3, Zenon DEF IsTrace
  <2> QED
    BY <2>1, <2>2, <1>0
<1> QED
  BY <1>2, <1>3, <1>4, <1>5, <1>6, <1>7, Zenon DEF f2, g2

(* A prefix of the log, such as a crash leaves, has a prefix of the account. *)
LEMMA TraceCut ==
  ASSUME NEW f \in Seq(Records), NEW g \in Seq(Ghosts), IsTrace(f, g),
         NEW m \in 0..Len(f)
  PROVE  LET f2 == SubSeq(f, 1, m)
             g2 == SubSeq(g, 1, m)
         IN  /\ f2 \in Seq(Records) /\ g2 \in Seq(Ghosts)
             /\ Len(f2) = m
             /\ IsTrace(f2, g2)
             /\ \A i \in 0..m : At(g2, i) = At(g, i)
             /\ \A i \in 1..m : f2[i] = f[i]
<1> DEFINE f2 == SubSeq(f, 1, m)
           g2 == SubSeq(g, 1, m)
<1>0. m \in Nat /\ Len(f) \in Nat /\ Len(g) = Len(f)
  BY DEF IsTrace
<1>1. /\ f2 \in Seq(Records) /\ Len(f2) = m
      /\ \A i \in 1..m : f2[i] = f[i]
  BY <1>0
<1>2. /\ g2 \in Seq(Ghosts) /\ Len(g2) = m
      /\ \A i \in 1..m : g2[i] = g[i]
  BY <1>0
<1> HIDE DEF f2, g2
<1>3. \A i \in 0..m : At(g2, i) = At(g, i)
  BY <1>0, <1>2 DEF At
<1>4. IsTrace(f2, g2)
  <2> SUFFICES ASSUME NEW i \in 1..m
               PROVE  /\ g2[i] = GhostStep(At(g2, i - 1), f2[i])
                      /\ f2[i] = Begin \/ f2[i].op = "Seq" => ~At(g2, i - 1).open
                      /\ f2[i] = End => At(g2, i - 1).open
    BY <1>1, <1>2, Zenon DEF IsTrace
  <2>1. At(g2, i - 1) = At(g, i - 1)
    BY <1>0, <1>3
  <2> QED
    BY <2>1, <1>0, <1>1, <1>2 DEF IsTrace
<1> QED
  BY <1>1, <1>2, <1>3, <1>4, Zenon DEF f2, g2

(* Outside a transaction everything played is committed. *)
LEMMA TraceClosed ==
  ASSUME NEW f \in Seq(Records), NEW g \in Seq(Ghosts), IsTrace(f, g),
         NEW i \in 0..Len(f), ~At(g, i).open
  PROVE  At(g, i).mem = At(g, i).com
<1>1. CASE i = 0
  BY <1>1, Zenon DEF At, GhostInit
<1>2. CASE i # 0
  <2>1. i \in 1..Len(f)
    BY <1>2
  <2>2. At(g, i) = GhostStep(At(g, i - 1), f[i])
    BY <2>1, <1>2, Zenon DEF IsTrace, At
  <2>3. At(g, i - 1) \in Ghosts /\ f[i] \in Records
    BY <2>1, AtType DEF IsTrace
  <2> QED
    BY <2>2, <2>3, GhostStepFields
<1> QED
  BY <1>1, <1>2, Zenon

-----------------------------------------------------------------------------
(* The inductive invariant. *)

(* A transaction being built is empty or a begin marker and operations. *)
Buffer(t) ==
  t # NoTxn /\ t # <<>> =>
    /\ Len(t) >= 2
    /\ t[1] = Begin
    /\ \A m \in 2..Len(t) : t[m] \in Ops

(* A log that may be written: whole records, no transaction left open. *)
Sound == ~torn /\ glued = 0 /\ ~G(Len(file)).open /\ ~must

InUse == pc = "ready" => Sound /\ table = G(Len(file)).com

(* AppendLog has written its record and not yet played it. *)
Appending ==
  pc = "append" =>
    /\ Sound
    /\ Len(file) >= 1
    /\ file[Len(file)] \in Ops
    /\ ~G(Len(file) - 1).open
    /\ table = G(Len(file) - 1).com
    /\ txn = NoTxn

(* Transaction::Commit has written and played the records before cm.i. *)
Committing ==
  pc = "commit" =>
    /\ ~torn /\ glued = 0 /\ ~must
    /\ txn # NoTxn
    /\ Len(txn) >= 3
    /\ txn[1] = Begin
    /\ txn[Len(txn)] = End
    /\ \A m \in 2..(Len(txn) - 1) : txn[m] \in Ops
    /\ cm.i \in 1..(Len(txn) + 1)
    /\ table = G(Len(file)).mem
    /\ G(Len(file)).open <=> cm.i \in 2..Len(txn)

(* The loader has the completed transactions of the part it has read in the
   table and the records of the open one in its own transaction. *)
Loading ==
  pc = "load" =>
    /\ ld.j = 0
    /\ ~must
    /\ table = G(ld.pos).com
    /\ IF ld.txn = NoTxn THEN ~G(ld.pos).open
       ELSE LET b == ld.pos - Len(ld.txn) IN
            /\ G(ld.pos).open
            /\ b >= 1
            /\ G(b).mem = table
            /\ \A m \in 1..Len(ld.txn) : ld.txn[m] = file[b + m] /\ ld.txn[m] \in Ops

(* The loader plays a transaction whose end marker it has just read. *)
Replaying ==
  pc = "loadcommit" =>
    LET b == ld.pos - 1 - Len(ld.txn) IN
    /\ ~must
    /\ ld.txn # NoTxn
    /\ ld.pos >= 1
    /\ file[ld.pos] = End
    /\ b >= 1
    /\ ld.j <= Len(ld.txn)
    /\ table = G(b + ld.j).mem
    /\ \A m \in 1..Len(ld.txn) : ld.txn[m] = file[b + m] /\ ld.txn[m] \in Ops

(* A rotation leaves the table alone; unless the load asked for it, the old
   log can still be used if the rotation fails. *)
Rotating ==
  pc \in {"rotate", "trunc"} => table = G(Len(file)).com /\ (must \/ Sound)

(* The dump stands for the part of the table that has been visited. *)
Dumped(mem) ==
  /\ \A k \in Keys : k # tr.key => mem[k] = IF k \in tr.keys THEN NoAd ELSE table[k]
  /\ tr.keys \subseteq {k \in Keys : table[k] # NoAd}
  /\ tr.key = NoAd => tr.names = {}
  /\ tr.key # NoAd =>
       /\ tr.key \notin tr.keys
       /\ table[tr.key] # NoAd
       /\ tr.names \subseteq {n \in Names : table[tr.key][n] # Unset}
       /\ mem[tr.key] = [n \in Names |-> IF n \in tr.names THEN Unset ELSE table[tr.key][n]]

Dumping ==
  pc = "trunc" =>
    /\ IsTrace(tr.tmp, tr.tgh)
    /\ Len(tr.tmp) >= 1
    /\ ~At(tr.tgh, Len(tr.tmp)).open
    /\ Dumped(At(tr.tgh, Len(tr.tmp)).mem)

(* Only a header was ever written behind a fragment. *)
Glued ==
  glued # 0 =>
    /\ glued = 1
    /\ Len(file) >= 1
    /\ pc \in {"down", "load", "rotate", "trunc"}
    /\ pc \in {"rotate", "trunc"} => must
    /\ pc = "load" => ld.pos = 0
    /\ \A i \in 1..Len(file) : file[i].op = "Seq" /\ gh[i] = GhostInit

Resting ==
  /\ pc \notin {"load", "loadcommit"} => ld = NoLoad
  /\ pc = "down" => table = EmptyTable /\ ~must
  /\ must => pc \in {"rotate", "trunc"}
  /\ pc # "commit" => Buffer(txn)
  /\ Buffer(parked)
  /\ unended = 0

IInv ==
  /\ TypeOK
  /\ IsTrace(file, gh)
  /\ InUse
  /\ Appending
  /\ Committing
  /\ Loading
  /\ Replaying
  /\ Rotating
  /\ Dumping
  /\ Glued
  /\ Resting

(* The loader at rest is typed. *)
LEMMA NoLoadType ==
  ASSUME NEW n \in Nat
  PROVE  NoLoad \in [pos : 0..n, txn : Txns, j : Nat, clean : BOOLEAN]
BY DEF NoLoad, Txns

(* The rotation at rest is typed. *)
LEMMA NoDumpType ==
  NoDump \in [keys : SUBSET Keys, key : Keys \cup {NoAd}, names : SUBSET Names,
              tmp : Seq(Records), tgh : Seq(Ghosts)]
<1>1. <<>> \in Seq(Records) /\ <<>> \in Seq(Ghosts)
  OBVIOUS
<1> QED
  BY <1>1, Zenon DEF NoDump

(* The commit at rest is typed. *)
LEMMA NoCommitType == NoCommit \in [i : Nat, nd : BOOLEAN]
BY Zenon DEF NoCommit

(* The program before its first start satisfies the invariant. *)
LEMMA InitInv == Init => IInv
<1> SUFFICES ASSUME Init PROVE IInv
  BY Zenon
<1> USE EmptyTypes DEF Init
<1>1. TypeOK
  <2>1. file \in Seq(Records) /\ gh \in Seq(Ghosts) /\ Len(file) = 0 /\ Len(gh) = 0
    OBVIOUS
  <2>2. flushed \in 0..Len(file) /\ synced \in 0..flushed
    BY <2>1
  <2>3. ld \in [pos : 0..Len(file), txn : Txns, j : Nat, clean : BOOLEAN]
    BY <2>1, NoLoadType, Zenon
  <2> QED
    BY <2>1, <2>2, <2>3, NoDumpType, NoCommitType, Zenon DEF TypeOK, PCs, Txns
<1>2. IsTrace(file, gh)
  BY DEF IsTrace
<1>3. InUse /\ Appending /\ Committing /\ Loading /\ Replaying /\ Rotating /\ Dumping
  BY Zenon DEF InUse, Appending, Committing, Loading, Replaying, Rotating, Dumping
<1>4. Glued /\ Resting
  BY Zenon DEF Glued, Resting, Buffer
<1> QED
  BY <1>1, <1>2, <1>3, <1>4, Zenon DEF IInv

(* Steps that only touch the transaction being built or put aside. *)
LEMMA BufferStep ==
  ASSUME IInv, pc = "ready",
         UNCHANGED <<pc, table, cm, disk, seq, hist, ld, tr, must, downs, acked>>,
         txn' \in Txns, parked' \in Txns, Buffer(txn'), Buffer(parked')
  PROVE  IInv'
<1> USE DEF IInv, disk
<1>1. TypeOK'
  BY Zenon DEF TypeOK
<1>2. IsTrace(file', gh')
  BY Zenon
<1>3. InUse'
  BY Zenon DEF InUse, Sound, G
<1>4. Appending' /\ Committing' /\ Loading' /\ Replaying' /\ Rotating' /\ Dumping'
  BY Zenon DEF Appending, Committing, Loading, Replaying, Rotating, Dumping
<1>5. Glued' /\ Resting'
  BY Zenon DEF Glued, Resting, G, InUse, Sound
<1> QED
  BY <1>1, <1>2, <1>3, <1>4, <1>5, Zenon

(* Building, dropping and parking a transaction touches no log. *)
LEMMA BufferSteps ==
  ASSUME IInv,
         \/ BeginTransaction \/ AbortTransaction
         \/ GetActiveTransaction \/ SetActiveTransaction
         \/ \E r \in Appends : AppendToTransaction(r)
  PROVE  IInv'
<1>1. pc = "ready" /\ UNCHANGED <<pc, table, cm, disk, seq, hist, ld, tr, must, downs, acked>>
  BY Zenon DEF BeginTransaction, AbortTransaction, GetActiveTransaction,
         SetActiveTransaction, AppendToTransaction
<1>2. txn \in Txns /\ parked \in Txns /\ Buffer(txn) /\ Buffer(parked)
  BY <1>1, Zenon DEF IInv, TypeOK, Resting
<1>3. NoTxn \in Txns /\ <<>> \in Txns /\ Buffer(NoTxn) /\ Buffer(<<>>)
  BY DEF Txns, Buffer
<1>4. txn' \in Txns /\ parked' \in Txns /\ Buffer(txn') /\ Buffer(parked')
  <2>1. CASE BeginTransaction \/ AbortTransaction \/ GetActiveTransaction \/ SetActiveTransaction
    BY <2>1, <1>2, <1>3, Zenon DEF BeginTransaction, AbortTransaction, GetActiveTransaction,
                            SetActiveTransaction
  <2>2. ASSUME NEW r \in Appends, AppendToTransaction(r)
        PROVE  txn' \in Txns /\ parked' \in Txns /\ Buffer(txn') /\ Buffer(parked')
    <3>1. parked' = parked
      BY <2>2, Zenon DEF AppendToTransaction
    <3>2. r \in Records /\ r \in Ops /\ Begin \in Records
      BY RecordTypes, AppendsAssumption, Zenon
    <3>3. CASE txn = <<>>
      <4>1. txn' = <<Begin, r>>
        BY <2>2, <3>3, Zenon DEF AppendToTransaction
      <4> QED
        BY <4>1, <3>1, <3>2, <1>2 DEF Buffer, Txns
    <3>4. CASE txn # <<>>
      <4>1. txn' = Append(txn, r) /\ txn \in Seq(Records) /\ txn # NoTxn
        BY <2>2, <3>4, <1>2, Zenon DEF AppendToTransaction, Txns
      <4>2. txn' \in Seq(Records) /\ Len(txn') = Len(txn) + 1
        BY <4>1, <3>2
      <4>3. \A m \in 1..Len(txn) : txn'[m] = txn[m]
        BY <4>1, <3>2
      <4>4. txn'[Len(txn) + 1] = r
        BY <4>1, <3>2
      <4>5. Len(txn) >= 2 /\ txn[1] = Begin /\ \A m \in 2..Len(txn) : txn[m] \in Ops
        BY <4>1, <3>4, <1>2, Zenon DEF Buffer
      <4>6. Buffer(txn')
        BY <4>2, <4>3, <4>4, <4>5, <4>1, <3>2 DEF Buffer
      <4> QED
        BY <4>2, <4>6, <3>1, <1>2, Zenon DEF Txns
    <3> QED
      BY <3>3, <3>4, Zenon
  <2> QED
    BY <2>1, <2>2, Zenon
<1> QED
  BY <1>1, <1>4, BufferStep, Zenon

(* Steps that only push buffered records towards the disk. *)
LEMMA FlushStep ==
  ASSUME IInv, pc = "ready",
         UNCHANGED <<pc, table, txn, parked, cm, file, torn, glued, unended, gh,
                     seq, hist, ld, tr, must, downs>>,
         acked' \in BOOLEAN, flushed' \in 0..Len(file), synced' \in 0..flushed'
  PROVE  IInv'
<1> USE DEF IInv
<1>1. TypeOK'
  BY Zenon DEF TypeOK
<1>2. IsTrace(file', gh')
  BY Zenon
<1>3. InUse'
  BY SMTT(30) DEF InUse, Sound, G
<1>4. Appending' /\ Committing' /\ Loading' /\ Replaying' /\ Rotating' /\ Dumping'
  BY Zenon DEF Appending, Committing, Loading, Replaying, Rotating, Dumping
<1>5. Glued' /\ Resting'
  BY Zenon DEF Glued, Resting, G, InUse, Sound, Buffer
<1> QED
  BY <1>1, <1>2, <1>3, <1>4, <1>5, SMTT(30)

(* Flushing and syncing move no record. *)
LEMMA FlushSteps ==
  ASSUME IInv, FlushLog \/ ForceLog
  PROVE  IInv'
<1>1. Len(file) \in Nat /\ flushed \in 0..Len(file) /\ synced \in 0..flushed
      /\ acked \in BOOLEAN
  BY DEF IInv, TypeOK
<1>2. CASE FlushLog
  <2>1. flushed' \in 0..Len(file) /\ synced' \in 0..flushed' /\ acked' \in BOOLEAN
    BY <1>1, <1>2 DEF FlushLog
  <2> QED
    BY <1>2, <2>1, FlushStep, Zenon DEF FlushLog
<1>3. CASE ForceLog
  <2>1. flushed' \in 0..Len(file) /\ synced' \in 0..flushed' /\ acked' \in BOOLEAN
    BY <1>1, <1>3 DEF ForceLog, Sync
  <2> QED
    BY <1>3, <2>1, FlushStep, Zenon DEF ForceLog
<1> QED
  BY <1>2, <1>3, Zenon

-----------------------------------------------------------------------------
(* Writing *)

(* TraceClosed for the log file itself. *)
LEMMA Closed ==
  ASSUME TypeOK, IsTrace(file, gh), NEW i \in 0..Len(file), ~G(i).open
  PROVE  G(i).mem = G(i).com
BY TraceClosed, Zenon DEF TypeOK, G

(* AtType for the log file itself. *)
LEMMA GType ==
  ASSUME TypeOK, NEW i \in 0..Len(file)
  PROVE  G(i) \in Ghosts
BY AtType, Zenon DEF TypeOK, G

(* Writing a record to the open log extends its account. *)
LEMMA WriteStep ==
  ASSUME TypeOK, IsTrace(file, gh), NEW r \in Records, MayFollow(G(Len(file)), r), Write(r)
  PROVE  /\ file' \in Seq(Records) /\ gh' \in Seq(Ghosts)
         /\ Len(file') = Len(file) + 1
         /\ Len(gh') = Len(file')
         /\ IsTrace(file', gh')
         /\ \A i \in 0..Len(file) : At(gh', i) = At(gh, i)
         /\ \A i \in 1..Len(file) : file'[i] = file[i]
         /\ At(gh', Len(file')) = GhostStep(G(Len(file)), r)
         /\ file'[Len(file')] = r
         /\ torn' = FALSE
         /\ unended' = unended
         /\ ~torn => glued' = glued
<1>1. file' = Append(file, r) /\ gh' = Append(gh, GhostStep(At(gh, Len(file)), r))
  BY Zenon DEF Write, G
<1>2. file \in Seq(Records) /\ gh \in Seq(Ghosts) /\ MayFollow(At(gh, Len(file)), r)
  BY Zenon DEF TypeOK, G
<1>3. /\ file' \in Seq(Records) /\ gh' \in Seq(Ghosts)
      /\ Len(file') = Len(file) + 1
      /\ IsTrace(file', gh')
      /\ \A i \in 0..Len(file) : At(gh', i) = At(gh, i)
      /\ \A i \in 1..Len(file) : file'[i] = file[i]
      /\ At(gh', Len(file) + 1) = GhostStep(At(gh, Len(file)), r)
      /\ file'[Len(file) + 1] = r
  BY <1>1, <1>2, TraceAppend, Zenon
<1>4. Len(gh') = Len(file')
  BY <1>3, Zenon DEF IsTrace
<1>5. torn' = FALSE /\ unended' = unended /\ (~torn => glued' = glued)
  BY Zenon DEF Write
<1> QED
  BY <1>3, <1>4, <1>5, Zenon DEF G

(* The other parts of the invariant for a step between ready, append and
   commit, which leave the loader and the rotation alone. *)
LEMMA QuietStep ==
  ASSUME IInv, pc \in {"ready", "append", "commit"}, pc' \in {"ready", "append", "commit"},
         glued = 0, glued' = 0,
         UNCHANGED <<ld, tr, must, parked, unended>>
  PROVE  /\ Loading' /\ Replaying' /\ Rotating' /\ Dumping' /\ Glued'
         /\ ld' = NoLoad
         /\ pc' # "commit" /\ Buffer(txn') => Resting'
         /\ pc' = "commit" => Resting'
<1>1. ld = NoLoad /\ ~must /\ unended = 0 /\ Buffer(parked)
  BY Zenon DEF IInv, Resting
<1>2. Resting' <=> (pc' # "commit" => Buffer(txn'))
  BY <1>1, Zenon DEF Resting, Buffer
<1> QED
  BY <1>1, <1>2, Zenon DEF Loading, Replaying, Rotating, Dumping, Glued

(* AppendLog outside a transaction: the record reaches the file first. *)
LEMMA AppendLogStep ==
  ASSUME IInv, NEW r \in Appends, NEW nd \in BOOLEAN, AppendLog(r, nd)
  PROVE  IInv'
<1>1. TypeOK /\ IsTrace(file, gh) /\ Len(file) \in Nat
  BY DEF IInv, TypeOK
<1>2. r \in Records /\ r \in Ops
  BY RecordTypes, AppendsAssumption, Zenon
<1>3. Sound /\ table = G(Len(file)).com
  BY Zenon DEF IInv, InUse, AppendLog
<1>4. r # Begin /\ r # End /\ r.op # "Seq"
  BY <1>2, RecordFacts, OpsFacts, Zenon DEF OpNames, Begin, End
<1>5. MayFollow(G(Len(file)), r) /\ Write(r)
  BY <1>4, Zenon DEF MayFollow, AppendLog
<1>6. /\ file' \in Seq(Records) /\ gh' \in Seq(Ghosts)
      /\ Len(file') = Len(file) + 1
      /\ Len(gh') = Len(file')
      /\ IsTrace(file', gh')
      /\ \A i \in 0..Len(file) : At(gh', i) = At(gh, i)
      /\ At(gh', Len(file')) = GhostStep(G(Len(file)), r)
      /\ file'[Len(file')] = r
      /\ torn' = FALSE /\ unended' = unended /\ glued' = 0
  BY <1>1, <1>2, <1>3, <1>5, WriteStep, Zenon DEF Sound
<1>7. /\ pc = "ready" /\ pc' = "append" /\ cm' = [i |-> 0, nd |-> nd]
      /\ txn = NoTxn /\ acked' = FALSE
      /\ UNCHANGED <<table, txn, parked, flushed, synced, seq, hist, ld, tr, must, downs>>
  BY Zenon DEF AppendLog
<1>8. ld' = NoLoad /\ Loading' /\ Replaying' /\ Rotating' /\ Dumping' /\ Glued' /\ Resting'
  <2>1. Buffer(txn')
    BY <1>7, Zenon DEF Buffer
  <2> QED
    BY <2>1, <1>3, <1>6, <1>7, QuietStep, Zenon DEF Sound
<1>9. TypeOK'
  <2>1. cm' \in [i : Nat, nd : BOOLEAN]
    BY <1>7, Zenon
  <2>2. flushed' \in 0..Len(file') /\ synced' \in 0..flushed'
    BY <1>1, <1>6, <1>7 DEF TypeOK
  <2>3. ld' \in [pos : 0..Len(file'), txn : Txns, j : Nat, clean : BOOLEAN]
    BY <1>1, <1>6, <1>8, NoLoadType
  <2> QED
    BY <1>1, <1>6, <1>7, <2>1, <2>2, <2>3, Zenon DEF TypeOK, PCs
<1>10. Appending'
  <2>1. G(Len(file)) \in Ghosts
    BY <1>1, GType, SMTT(30)
  <2>2. ~GhostStep(G(Len(file)), r).open
    BY <1>2, <1>3, <1>4, <2>1, GhostStepFields, Zenon DEF Sound
  <2>3. Len(file') - 1 = Len(file) /\ At(gh', Len(file') - 1) = G(Len(file))
    BY <1>1, <1>6 DEF G
  <2>4. ~At(gh', Len(file')).open
    BY <1>6, <2>2, Zenon
  <2> QED
    BY <1>1, <1>2, <1>3, <1>6, <1>7, <2>3, <2>4 DEF Appending, Sound, G
<1>11. InUse' /\ Committing'
  BY <1>7, Zenon DEF InUse, Committing
<1> QED
  BY <1>6, <1>8, <1>9, <1>10, <1>11, Zenon DEF IInv

(* AppendLog then plays the record it wrote. *)
LEMMA AppendLogDoneStep ==
  ASSUME IInv, AppendLogDone
  PROVE  IInv'
<1>1. TypeOK /\ IsTrace(file, gh) /\ Len(file) \in Nat /\ Len(file) >= 1
  BY DEF IInv, TypeOK, Appending, AppendLogDone
<1>2. /\ pc = "append" /\ pc' = "ready" /\ cm' = NoCommit
      /\ table' = Play(table, file[Len(file)])
      /\ UNCHANGED <<txn, parked, file, torn, glued, unended, gh, seq, hist, ld, tr, must, downs>>
  BY Zenon DEF AppendLogDone
<1>3. /\ Sound
      /\ file[Len(file)] \in Ops
      /\ ~G(Len(file) - 1).open
      /\ table = G(Len(file) - 1).com
      /\ txn = NoTxn
  BY <1>2, Zenon DEF IInv, Appending
<1>4. ld' = NoLoad /\ Loading' /\ Replaying' /\ Rotating' /\ Dumping' /\ Glued' /\ Resting'
  <2>1. Buffer(txn')
    BY <1>2, <1>3, SMTT(30) DEF Buffer
  <2> QED
    BY <2>1, <1>2, <1>3, QuietStep, Zenon DEF Sound
<1>5. TypeOK'
  <2>1. flushed' \in 0..Len(file) /\ synced' \in 0..flushed' /\ acked' \in BOOLEAN
    BY <1>1, SMTT(30) DEF TypeOK, AppendLogDone, Sync
  <2>2. table' \in Tables
    BY <1>1, <1>2, <1>3, PlayType, RecordTypes, SMTT(30) DEF TypeOK
  <2> QED
    BY <1>1, <1>2, <2>1, <2>2, NoCommitType, Zenon DEF TypeOK, PCs
<1>6. table' = G(Len(file)).com
  <2>1. G(Len(file)) = GhostStep(G(Len(file) - 1), file[Len(file)])
    BY <1>1 DEF IsTrace, G, At
  <2>2. G(Len(file) - 1) \in Ghosts
    BY <1>1, GType
  <2>3. G(Len(file) - 1).mem = table
    BY <1>1, <1>3, Closed
  <2>4. ~G(Len(file)).open
    BY <1>3, SMTT(30) DEF Sound
  <2> QED
    BY <1>2, <1>3, <2>1, <2>2, <2>3, <2>4, GhostStepFields, RecordTypes
<1>7. InUse' /\ Appending' /\ Committing'
  BY <1>2, <1>3, <1>6, Zenon DEF InUse, Appending, Committing, Sound, G
<1> QED
  BY <1>1, <1>2, <1>4, <1>5, <1>7, SMTT(30) DEF IInv

(* CommitTransaction closes the buffer with an end marker. *)
LEMMA CommitTransactionStep ==
  ASSUME IInv, NEW nd \in BOOLEAN, CommitTransaction(nd)
  PROVE  IInv'
<1>1. TypeOK /\ IsTrace(file, gh) /\ Len(file) \in Nat /\ pc = "ready" /\ txn # NoTxn
  BY DEF IInv, TypeOK, CommitTransaction
<1>2. UNCHANGED <<table, parked, disk, seq, hist, ld, tr, must, downs, acked>>
  BY SMTT(30) DEF CommitTransaction
<1>3. Buffer(txn) /\ Buffer(parked) /\ txn \in Seq(Records) /\ parked \in Txns
  BY <1>1, Zenon DEF IInv, TypeOK, Resting, Txns
<1>4. CASE txn = <<>>
  <2>1. txn' = NoTxn /\ UNCHANGED <<pc, cm>>
    BY <1>4, Zenon DEF CommitTransaction
  <2>2. txn' \in Txns /\ parked' \in Txns /\ Buffer(txn') /\ Buffer(parked')
    BY <2>1, <1>2, <1>3, Zenon DEF Buffer, Txns
  <2> QED
    BY <1>1, <1>2, <2>1, <2>2, BufferStep, Zenon
<1>5. CASE txn # <<>>
  <2>1. txn' = Append(txn, End) /\ pc' = "commit" /\ cm' = [i |-> 1, nd |-> nd]
    BY <1>5, Zenon DEF CommitTransaction
  <2>2. Len(txn) >= 2 /\ txn[1] = Begin /\ \A m \in 2..Len(txn) : txn[m] \in Ops
    BY <1>1, <1>3, <1>5, SMTT(30) DEF Buffer
  <2>3. /\ txn' \in Seq(Records) /\ Len(txn') = Len(txn) + 1
        /\ txn'[Len(txn')] = End
        /\ \A m \in 1..Len(txn) : txn'[m] = txn[m]
    BY <1>3, <2>1, RecordTypes
  <2>4. Sound /\ table = G(Len(file)).com
    BY <1>1, Zenon DEF IInv, InUse
  <2>5. table = G(Len(file)).mem
    BY <1>1, <2>4, Closed, SMTT(30) DEF Sound
  <2>6. ld' = NoLoad /\ Loading' /\ Replaying' /\ Rotating' /\ Dumping' /\ Glued' /\ Resting'
    BY <1>1, <1>2, <2>1, <2>4, QuietStep, SMTT(30) DEF Sound, disk
  <2>7. TypeOK'
    <3>1. cm' \in [i : Nat, nd : BOOLEAN]
      BY <2>1, Zenon
    <3>2. txn' \in Txns
      BY <2>3, Zenon DEF Txns
    <3> QED
      BY <1>1, <1>2, <2>1, <3>1, <3>2, Zenon DEF TypeOK, PCs, disk
  <2>8. txn' # NoTxn
    BY <2>3, NoTxnAssumption, Zenon
  <2>9. \A m \in 2..(Len(txn') - 1) : txn'[m] \in Ops
    BY <1>3, <2>2, <2>3, SMTT(30)
  <2>10. Committing'
    <3>1. cm'.i = 1 /\ Len(txn') >= 3 /\ txn'[1] = Begin
      BY <1>3, <2>1, <2>2, <2>3
    <3>2. cm'.i \in 1..(Len(txn') + 1) /\ cm'.i \notin 2..Len(txn')
      BY <3>1, <2>3
    <3> QED
      BY <1>2, <2>3, <2>4, <2>5, <2>8, <2>9, <3>1, <3>2, SMTT(30) DEF Committing, Sound, disk, G
  <2>11. InUse' /\ Appending'
    BY <2>1, Zenon DEF InUse, Appending
  <2>12. IsTrace(file', gh')
    BY <1>1, <1>2, Zenon DEF disk
  <2> QED
    BY <2>6, <2>7, <2>10, <2>11, <2>12, SMTT(30) DEF IInv
<1> QED
  BY <1>4, <1>5, SMTT(30)

(* Transaction::Commit writes and plays one record. *)
LEMMA CommitRecordStep ==
  ASSUME IInv, CommitRecord
  PROVE  IInv'
<1> DEFINE r == txn[cm.i]
<1>1. TypeOK /\ IsTrace(file, gh) /\ Len(file) \in Nat /\ pc = "commit"
  BY SMTT(30) DEF IInv, TypeOK, CommitRecord
<1>2. /\ Write(r) /\ table' = Play(table, r)
      /\ cm' = [cm EXCEPT !.i = @ + 1]
      /\ UNCHANGED <<pc, txn, parked, flushed, synced, seq, hist, ld, tr, must, downs>>
  BY Zenon DEF CommitRecord
<1>3. /\ ~torn /\ glued = 0 /\ ~must
      /\ txn # NoTxn
      /\ Len(txn) >= 3
      /\ txn[1] = Begin
      /\ txn[Len(txn)] = End
      /\ \A m \in 2..(Len(txn) - 1) : txn[m] \in Ops
      /\ table = G(Len(file)).mem
      /\ G(Len(file)).open <=> cm.i \in 2..Len(txn)
  BY <1>1, Zenon DEF IInv, Committing
<1>4. txn \in Seq(Records) /\ cm \in [i : Nat, nd : BOOLEAN] /\ cm.i \in 1..Len(txn)
  BY <1>1, <1>3 DEF TypeOK, Txns, IInv, Committing, CommitRecord
<1>5. r \in Records
  BY <1>4
<1>6. /\ cm.i = 1 => r = Begin
      /\ cm.i = Len(txn) => r = End
      /\ cm.i # 1 /\ cm.i # Len(txn) => r \in Ops
  BY <1>3, <1>4
<1>7. /\ r \in Ops => r # Begin /\ r # End /\ r.op # "Seq"
      /\ Begin # End /\ Begin.op # "Seq" /\ End.op # "Seq"
  BY <1>5, RecordFacts, OpsFacts, Zenon DEF OpNames, Begin, End
<1> HIDE DEF r
<1>8. MayFollow(G(Len(file)), r)
  BY <1>3, <1>4, <1>6, <1>7 DEF MayFollow
<1>9. /\ file' \in Seq(Records) /\ gh' \in Seq(Ghosts)
      /\ Len(file') = Len(file) + 1
      /\ Len(gh') = Len(file')
      /\ IsTrace(file', gh')
      /\ At(gh', Len(file')) = GhostStep(G(Len(file)), r)
      /\ torn' = FALSE /\ unended' = unended /\ glued' = 0
  BY <1>1, <1>2, <1>3, <1>5, <1>8, WriteStep, Zenon
<1>10. /\ ld' = NoLoad /\ Loading' /\ Replaying' /\ Rotating' /\ Dumping' /\ Glued'
       /\ Resting'
  BY <1>1, <1>2, <1>3, <1>9, QuietStep, Zenon
<1>11. cm'.i = cm.i + 1 /\ cm' \in [i : Nat, nd : BOOLEAN]
  BY <1>2, <1>4
<1>12. TypeOK'
  <2>1. flushed' \in 0..Len(file') /\ synced' \in 0..flushed'
    BY <1>1, <1>2, <1>9, SMTT(30) DEF TypeOK
  <2>2. ld' \in [pos : 0..Len(file'), txn : Txns, j : Nat, clean : BOOLEAN]
    BY <1>1, <1>9, <1>10, NoLoadType
  <2>3. table' \in Tables
    BY <1>1, <1>2, <1>5, PlayType, Zenon DEF TypeOK
  <2>4. acked' \in BOOLEAN
    BY Zenon DEF CommitRecord
  <2> QED
    BY <1>1, <1>2, <1>9, <1>11, <2>1, <2>2, <2>3, <2>4, Zenon DEF TypeOK, PCs
<1>13. Committing'
  <2>1. G(Len(file)) \in Ghosts
    BY <1>1, GType
  <2>2. table' = At(gh', Len(file')).mem
    BY <1>2, <1>3, <1>5, <1>9, <2>1, GhostStepFields, SMTT(30)
  <2>3. At(gh', Len(file')).open <=> (r = Begin \/ (G(Len(file)).open /\ r # End))
    BY <1>5, <1>9, <2>1, GhostStepFields
  <2>4. At(gh', Len(file')).open <=> cm'.i \in 2..Len(txn)
    BY <1>3, <1>4, <1>6, <1>7, <1>11, <2>3
  <2>5. cm'.i \in 1..(Len(txn) + 1)
    BY <1>4, <1>11
  <2> QED
    BY <1>2, <1>3, <1>9, <2>2, <2>4, <2>5, Zenon DEF Committing, G
<1>14. InUse' /\ Appending'
  BY <1>1, <1>2, Zenon DEF InUse, Appending
<1> QED
  BY <1>9, <1>10, <1>12, <1>13, <1>14, Zenon DEF IInv

(* Transaction::Commit after its last record. *)
LEMMA CommitDoneStep ==
  ASSUME IInv, CommitDone
  PROVE  IInv'
<1>1. TypeOK /\ IsTrace(file, gh) /\ Len(file) \in Nat /\ pc = "commit"
  BY DEF IInv, TypeOK, CommitDone
<1>2. /\ pc' = "ready" /\ cm' = NoCommit /\ txn' = NoTxn
      /\ UNCHANGED <<table, parked, file, torn, glued, unended, gh, seq, hist, ld, tr, must, downs>>
  BY Zenon DEF CommitDone
<1>3. ~torn /\ glued = 0 /\ ~must /\ table = G(Len(file)).mem /\ ~G(Len(file)).open
  <2>1. txn \in Seq(Records) /\ cm.i \in Nat
    BY <1>1, Zenon DEF TypeOK, Txns, IInv, Committing
  <2> QED
    BY <1>1, <2>1, SMTT(30) DEF IInv, Committing, CommitDone
<1>4. table = G(Len(file)).com
  BY <1>1, <1>3, Closed, SMTT(30)
<1>5. ld' = NoLoad /\ Loading' /\ Replaying' /\ Rotating' /\ Dumping' /\ Glued' /\ Resting'
  <2>1. Buffer(txn')
    BY <1>2, SMTT(30) DEF Buffer
  <2> QED
    BY <2>1, <1>1, <1>2, <1>3, QuietStep, Zenon
<1>6. TypeOK'
  <2>1. flushed' \in 0..Len(file) /\ synced' \in 0..flushed' /\ acked' \in BOOLEAN
    BY <1>1, SMTT(30) DEF TypeOK, CommitDone, Sync
  <2> QED
    BY <1>1, <1>2, <2>1, NoCommitType, Zenon DEF TypeOK, PCs, Txns
<1>7. InUse' /\ Appending' /\ Committing'
  BY <1>2, <1>3, <1>4, Zenon DEF InUse, Appending, Committing, Sound, G
<1> QED
  BY <1>1, <1>2, <1>5, <1>6, <1>7, SMTT(30) DEF IInv

-----------------------------------------------------------------------------
(* Going down *)

(* A process that dies loses its memory and keeps a prefix of the file. *)
LEMMA HaltStep ==
  ASSUME TypeOK, Halt,
         file' \in Seq(Records), gh' \in Seq(Ghosts), IsTrace(file', gh'),
         flushed' \in 0..Len(file'), synced' \in 0..flushed',
         torn' \in BOOLEAN, glued' \in {0, 1}, unended' = 0,
         hist' \subseteq Nat, downs' \in Nat,
         glued' # 0 => /\ Len(file') >= 1
                       /\ \A i \in 1..Len(file') : file'[i].op = "Seq" /\ gh'[i] = GhostInit
  PROVE  IInv'
<1> USE DEF Halt
<1>1. TypeOK'
  <2>1. Len(file') \in Nat /\ Len(gh') = Len(file')
    BY DEF IsTrace
  <2>2. ld' \in [pos : 0..Len(file'), txn : Txns, j : Nat, clean : BOOLEAN]
    BY <2>1, NoLoadType, Zenon
  <2>3. /\ pc' \in PCs /\ table' \in Tables /\ txn' \in Txns /\ parked' \in Txns
        /\ cm' \in [i : Nat, nd : BOOLEAN]
    BY NoCommitType, EmptyTypes, Zenon DEF PCs, Txns
  <2>4. tr' \in [keys : SUBSET Keys, key : Keys \cup {NoAd}, names : SUBSET Names,
                 tmp : Seq(Records), tgh : Seq(Ghosts)]
    BY NoDumpType, Zenon
  <2>5. glued' \in Nat /\ unended' \in Nat /\ seq' \in Nat
    OBVIOUS
  <2>6. must' \in BOOLEAN /\ acked' \in BOOLEAN
    BY Zenon
  <2> HIDE DEF Halt
  <2> QED
    BY <2>1, <2>2, <2>3, <2>4, <2>5, <2>6, Zenon DEF TypeOK
<1>2. InUse' /\ Appending' /\ Committing' /\ Loading' /\ Replaying' /\ Rotating' /\ Dumping'
  BY Zenon DEF InUse, Appending, Committing, Loading, Replaying, Rotating, Dumping
<1>3. Glued'
  BY Zenon DEF Glued
<1>4. Resting'
  BY Zenon DEF Resting, Buffer
<1> QED
  BY <1>1, <1>2, <1>3, <1>4, Zenon DEF IInv

(* The same when the file is left as it is. *)
LEMMA HaltInPlace ==
  ASSUME IInv, Halt, UNCHANGED <<file, torn, glued, unended, gh>>,
         flushed' \in 0..Len(file), synced' \in 0..flushed',
         hist' \subseteq Nat, downs' \in Nat
  PROVE  IInv'
<1>1. TypeOK /\ IsTrace(file, gh) /\ unended = 0
  BY Zenon DEF IInv, Resting
<1>2. /\ glued \in {0, 1}
      /\ glued # 0 => /\ Len(file) >= 1
                      /\ \A i \in 1..Len(file) : file[i].op = "Seq" /\ gh[i] = GhostInit
  BY <1>1, Zenon DEF IInv, Glued, TypeOK
<1> QED
  BY <1>1, <1>2, HaltStep, Zenon DEF TypeOK

(* StopLog closes the log, which flushes it. *)
LEMMA StopLogStep ==
  ASSUME IInv, StopLog
  PROVE  IInv'
<1>1. Len(file) \in Nat /\ flushed \in 0..Len(file) /\ synced \in 0..flushed /\ downs \in Nat /\ hist \subseteq Nat
  BY DEF IInv, TypeOK
<1>2. /\ Halt /\ UNCHANGED <<file, torn, glued, unended, gh>>
      /\ flushed' = Len(file) /\ synced' = synced /\ hist' = hist /\ downs' = downs + 1
  BY Zenon DEF StopLog
<1>3. flushed' \in 0..Len(file) /\ synced' \in 0..flushed' /\ hist' \subseteq Nat /\ downs' \in Nat
  BY <1>1, <1>2
<1> QED
  BY <1>2, <1>3, HaltInPlace, Zenon

(* A crash of the process or of the machine. *)
LEMMA CrashStep ==
  ASSUME IInv, ReliableFiles, NEW n \in 0..Len(file), NEW fragment \in BOOLEAN,
         NEW optional \in BOOLEAN,
         \/ ProcessCrash(n, fragment, optional)
         \/ MachineCrash(n, fragment, optional)
  PROVE  IInv'
<1>1. /\ TypeOK /\ IsTrace(file, gh) /\ unended = 0
      /\ Len(file) \in Nat /\ downs \in Nat /\ hist \subseteq Nat /\ glued \in Nat
      /\ flushed \in 0..Len(file) /\ synced \in 0..flushed
  BY DEF IInv, TypeOK, Resting
<1>2. Cut(n, fragment, optional) /\ Halt /\ downs' = downs + 1 /\ hist' = hist
  BY Zenon DEF ProcessCrash, MachineCrash
<1>3. optional = FALSE
  BY <1>2, Zenon DEF ReliableFiles, Cut
<1>4. /\ file' = SubSeq(file, 1, n) /\ gh' = SubSeq(gh, 1, n)
      /\ torn' = fragment /\ flushed' = n
      /\ glued' = IF glued <= n THEN glued ELSE 0
      /\ unended' = 0
  BY <1>1, <1>2, <1>3, Zenon DEF Cut
<1>5. /\ file' \in Seq(Records) /\ gh' \in Seq(Ghosts)
      /\ Len(file') = n
      /\ IsTrace(file', gh')
      /\ \A i \in 0..n : At(gh', i) = At(gh, i)
      /\ \A i \in 1..n : file'[i] = file[i]
  BY <1>1, <1>4, TraceCut DEF TypeOK
<1>6. flushed' \in 0..Len(file') /\ synced' \in 0..flushed'
  BY <1>1, <1>3, <1>4, <1>5 DEF ProcessCrash, MachineCrash
<1>7. glued' # 0 => /\ glued' = 1
                     /\ Len(file') >= 1
                     /\ \A i \in 1..Len(file') : file'[i].op = "Seq" /\ gh'[i] = GhostInit
  <2> SUFFICES ASSUME glued' # 0
               PROVE  /\ glued' = 1
                      /\ Len(file') >= 1
                      /\ \A i \in 1..Len(file') : file'[i].op = "Seq" /\ gh'[i] = GhostInit
    BY Zenon
  <2>1. glued # 0 /\ glued' = glued /\ glued <= n
    BY <1>4, Zenon
  <2>2. glued = 1 /\ \A i \in 1..Len(file) : file[i].op = "Seq" /\ gh[i] = GhostInit
    BY <2>1, Zenon DEF IInv, Glued
  <2>3. \A i \in 1..n : gh'[i] = gh[i]
    BY <1>5 DEF At
  <2> QED
    BY <1>1, <1>5, <2>1, <2>2, <2>3, SMTT(30)
<1>8. glued' \in {0, 1} /\ torn' \in BOOLEAN /\ hist' \subseteq Nat /\ downs' \in Nat
  BY <1>1, <1>2, <1>4, <1>7
<1> QED
  BY <1>1, <1>2, <1>4, <1>5, <1>6, <1>7, <1>8, HaltStep, SMTT(30)

-----------------------------------------------------------------------------
(* Loading *)

(* LoadClassAdLog opens the file and starts reading. *)
LEMMA RestartStep ==
  ASSUME IInv, Restart
  PROVE  IInv'
<1>1. /\ pc = "down" /\ pc' = "load" /\ seq' = 1
      /\ UNCHANGED <<table, txn, parked, cm, disk, hist, ld, tr, must, downs, acked>>
  BY Zenon DEF Restart
<1>2. TypeOK /\ IsTrace(file, gh) /\ ld = NoLoad /\ table = EmptyTable /\ ~must
  BY <1>1, Zenon DEF IInv, Resting
<1>3. TypeOK'
  BY <1>1, <1>2, Zenon DEF TypeOK, PCs, disk
<1>4. Loading'
  BY <1>1, <1>2, Zenon DEF Loading, NoLoad, G, At, GhostInit
<1>5. InUse' /\ Appending' /\ Committing' /\ Replaying' /\ Rotating' /\ Dumping'
  BY <1>1, Zenon DEF InUse, Appending, Committing, Replaying, Rotating, Dumping
<1>6. Glued'
  BY <1>1, <1>2, Zenon DEF Glued, IInv, disk, NoLoad
<1>7. Resting'
  BY <1>1, <1>2, Zenon DEF Resting, IInv, disk, Buffer
<1> QED
  BY <1>1, <1>2, <1>3, <1>4, <1>5, <1>6, <1>7, Zenon DEF IInv, disk

(* The loader only reads: everything but its own state is left alone. *)
LEMMA LoaderStep ==
  ASSUME IInv, pc \in {"load", "loadcommit"}, pc' \in {"load", "loadcommit"},
         UNCHANGED <<txn, parked, cm, disk, hist, tr, must, downs, acked>>,
         seq' \in Nat, table' \in Tables,
         ld' \in [pos : 0..Len(file), txn : Txns, j : Nat, clean : BOOLEAN],
         glued # 0 => pc' = "load" /\ ld'.pos = 0,
         Loading', Replaying'
  PROVE  IInv'
<1>1. TypeOK'
  BY Zenon DEF TypeOK, PCs, disk, IInv
<1>2. InUse' /\ Appending' /\ Committing' /\ Rotating' /\ Dumping'
  BY Zenon DEF InUse, Appending, Committing, Rotating, Dumping
<1>3. Glued'
  BY Zenon DEF Glued, IInv, disk
<1>4. Resting'
  BY Zenon DEF Resting, IInv, disk, Buffer
<1> QED
  BY <1>1, <1>2, <1>3, <1>4, Zenon DEF IInv, disk

LoadTypes == [pos : 0..Len(file), txn : Txns, j : Nat, clean : BOOLEAN]

(* LoadClassAdLog reads one record. *)
LEMMA LoadRecordStep ==
  ASSUME IInv, LoadRecord
  PROVE  IInv'
<1> DEFINE p == ld.pos
           r == file[p + 1]
           b == p - Len(ld.txn)
<1>1. /\ TypeOK /\ IsTrace(file, gh) /\ Len(file) \in Nat
      /\ ld \in LoadTypes /\ p \in 0..Len(file) /\ p + 1 \in 1..Len(file)
      /\ file \in Seq(Records) /\ table \in Tables /\ seq \in Nat
      /\ pc = "load"
  BY SMTT(30) DEF IInv, TypeOK, LoadTypes, LoadRecord, Readable
<1>2. /\ ld.j = 0 /\ ~must /\ table = G(p).com
      /\ ld.txn = NoTxn => ~G(p).open
      /\ ld.txn # NoTxn => /\ G(p).open
                           /\ b >= 1
                           /\ G(b).mem = table
                           /\ \A m \in 1..Len(ld.txn) : ld.txn[m] = file[b + m] /\ ld.txn[m] \in Ops
  BY <1>1, Zenon DEF IInv, Loading
<1>3. glued = 0
  BY <1>1 DEF IInv, Glued, LoadRecord, Readable
<1>4. UNCHANGED <<txn, parked, cm, disk, hist, tr, must, downs, acked>>
  BY Zenon DEF LoadRecord
<1>5. r \in Records /\ G(p) \in Ghosts
  BY <1>1, GType
<1>6. /\ G(p + 1) = GhostStep(G(p), r)
      /\ r = Begin \/ r.op = "Seq" => ~G(p).open
      /\ r = End => G(p).open
  BY <1>1 DEF IsTrace, G, At
<1>7. /\ G(p + 1).mem = Play(G(p).mem, r)
      /\ G(p + 1).open <=> (r = Begin \/ (G(p).open /\ r # End))
      /\ G(p + 1).open => G(p + 1).com = G(p).com
      /\ ~G(p + 1).open => G(p + 1).com = Play(G(p).mem, r)
  BY <1>5, <1>6, GhostStepFields, SMTT(30)
<1>8. ~G(p).open => G(p).mem = table
  BY <1>1, <1>2, Closed, Zenon
<1>9. G(p).mem \in Tables
  BY <1>5, Zenon DEF Ghosts
<1>10. NoTxn \in Txns /\ <<>> \in Txns /\ <<>> # NoTxn
  <2>1. <<>> \in Seq(Records)
    OBVIOUS
  <2> QED
    BY <2>1, NoTxnAssumption, Zenon DEF Txns
<1>11. /\ disk' = disk /\ file' = file /\ gh' = gh
       /\ \A i : At(gh', i) = G(i)
  BY <1>4, Zenon DEF disk, G
<1> HIDE DEF p, r, b
<1>12. CASE r.op = "Begin"
  <2>1. r = Begin /\ ld.txn = NoTxn /\ r \notin Ops
    BY <1>2, <1>5, <1>6, <1>12, RecordFacts, Zenon DEF OpNames
  <2>2. /\ ld' = [ld EXCEPT !.pos = @ + 1, !.clean = FALSE, !.txn = <<>>]
        /\ UNCHANGED <<pc, table, seq>>
    BY <2>1, <1>5, <1>12, OpsFacts, Zenon DEF LoadRecord, r, p
  <2>3. ld' \in LoadTypes /\ ld'.pos = p + 1 /\ ld'.txn = <<>> /\ ld'.j = 0
    <3>1. ld' = [ld EXCEPT !.pos = p + 1, !.clean = FALSE, !.txn = <<>>]
      BY <2>2, <1>1, Zenon DEF p
    <3> QED
      <4>1. p + 1 \in 0..Len(file) /\ FALSE \in BOOLEAN
        BY <1>1, SMTT(30)
      <4>5. ld \in LoadTypes /\ ld.j = 0
        BY <1>1, <1>2, Zenon
      <4> QED
        BY <4>5, <1>10, <3>1, <4>1, Zenon DEF LoadTypes
  <2>4. G(p + 1).mem = table /\ G(p + 1).com = table /\ G(p + 1).open
    BY <1>2, <1>5, <1>6, <1>7, <1>8, <1>9, <2>1, PlayMarker, Zenon
  <2>5. Loading'
    BY <1>1, <1>2, <1>4, <1>10, <1>11, <2>2, <2>3, <2>4 DEF Loading, G, p
  <2>6. Replaying'
    BY <1>1, <2>2, Zenon DEF Replaying
  <2> QED
    BY <1>1, <1>3, <1>4, <2>2, <2>3, <2>5, <2>6, LoaderStep, SMTT(30) DEF LoadTypes
<1>13. CASE r.op = "End"
  <2>1. r = End /\ ld.txn # NoTxn /\ r \notin Ops
    BY <1>2, <1>5, <1>6, <1>13, RecordFacts, Zenon DEF OpNames
  <2>2. ld' = [ld EXCEPT !.pos = @ + 1] /\ pc' = "loadcommit" /\ UNCHANGED <<table, seq>>
    BY <2>1, <1>5, <1>13, OpsFacts, Zenon DEF LoadRecord, r, p
  <2>3. ld' \in LoadTypes /\ ld'.pos = p + 1 /\ ld'.txn = ld.txn /\ ld'.j = 0
    BY <1>1, <1>2, <2>2 DEF LoadTypes, p
  <2>4. Loading'
    BY <2>2, Zenon DEF Loading
  <2>5. ld.txn \in Seq(Records) /\ Len(ld.txn) \in Nat
    BY <1>1, <2>1 DEF LoadTypes, Txns
  <2>6. Replaying'
    <3>1. ld'.pos - 1 - Len(ld'.txn) = b
      BY <1>1, <2>3, <2>5 DEF b
    <3>2. file'[ld'.pos] = End
      BY <1>11, <2>1, <2>3, Zenon DEF r
    <3>3. b + ld'.j = b /\ b \in Int /\ ld'.j <= Len(ld'.txn)
      BY <1>1, <2>3, <2>5 DEF b
    <3> QED
      BY <1>1, <1>2, <1>4, <1>11, <2>1, <2>2, <2>3, <2>5, <3>1, <3>2, <3>3 DEF Replaying, G
  <2> QED
    BY <1>1, <1>3, <1>4, <2>2, <2>3, <2>4, <2>6, LoaderStep, Zenon DEF LoadTypes
<1>14. CASE r.op = "Seq"
  <2>1. ld.txn = NoTxn /\ r \notin Ops /\ r # Begin /\ ~G(p).open /\ r.seq \in Nat
    BY <1>2, <1>5, <1>6, <1>14, RecordFacts, Zenon DEF OpNames
  <2>2. ld' = [ld EXCEPT !.pos = @ + 1] /\ seq' = r.seq /\ UNCHANGED <<pc, table>>
    BY <2>1, <1>5, <1>14, OpsFacts, Zenon DEF LoadRecord, r, p
  <2>3. ld' \in LoadTypes /\ ld'.pos = p + 1 /\ ld'.txn = ld.txn /\ ld'.j = 0
    BY <1>1, <1>2, <2>2 DEF LoadTypes, p
  <2>4. G(p + 1).com = table /\ ~G(p + 1).open
    BY <1>2, <1>5, <1>7, <1>8, <1>9, <2>1, PlayMarker, Zenon
  <2>5. Loading'
    BY <1>1, <1>2, <1>4, <1>11, <2>1, <2>2, <2>3, <2>4, Zenon DEF Loading, G
  <2>6. Replaying'
    BY <1>1, <2>2, Zenon DEF Replaying
  <2> QED
    BY <1>1, <1>3, <1>4, <2>1, <2>2, <2>3, <2>5, <2>6, LoaderStep, Zenon DEF LoadTypes
<1>15. CASE r \in Ops
  <2>1. r # Begin /\ r # End /\ r.op \notin {"Begin", "End", "Seq"}
    BY <1>5, <1>15, RecordFacts, OpsFacts, Zenon DEF OpNames, Begin, End
  <2>2. /\ ld' = [ld EXCEPT !.pos = @ + 1, !.txn = IF @ = NoTxn THEN @ ELSE Append(@, r)]
        /\ table' = IF ld.txn = NoTxn THEN Play(table, r) ELSE table
        /\ UNCHANGED <<pc, seq>>
    BY <2>1, Zenon DEF LoadRecord, r, p
  <2>3. Replaying'
    BY <1>1, <2>2, Zenon DEF Replaying
  <2>4. table' \in Tables
    BY <1>1, <1>5, <2>2, PlayType, Zenon
  <2>5. CASE ld.txn = NoTxn
    <3>1. ld' \in LoadTypes /\ ld'.pos = p + 1 /\ ld'.txn = NoTxn /\ ld'.j = 0
      <4>1. ld' = [ld EXCEPT !.pos = p + 1, !.clean = ld.clean, !.txn = NoTxn]
        BY <2>2, <2>5, <1>1, Zenon DEF p, LoadTypes
      <4>2. ld.clean \in BOOLEAN
        BY <1>1, Zenon DEF LoadTypes
      <4>3. p + 1 \in 0..Len(file)
        BY <1>1
      <4>5. ld \in LoadTypes /\ ld.j = 0
        BY <1>1, <1>2, Zenon
      <4> QED
        BY <4>5, <1>10, <4>1, <4>2, <4>3, Zenon DEF LoadTypes
    <3>2. G(p + 1).com = table' /\ ~G(p + 1).open
      BY <1>2, <1>7, <1>8, <2>1, <2>2, <2>5, Zenon
    <3>3. Loading'
      BY <1>1, <1>2, <1>4, <1>11, <2>2, <3>1, <3>2, Zenon DEF Loading, G
    <3> QED
      BY <1>1, <1>3, <1>4, <2>2, <2>3, <2>4, <3>1, <3>3, LoaderStep, Zenon DEF LoadTypes
  <2>6. CASE ld.txn # NoTxn
    <3>1. ld.txn \in Seq(Records) /\ Len(ld.txn) \in Nat
      BY <1>1, <2>6 DEF LoadTypes, Txns
    <3>2. /\ Append(ld.txn, r) \in Seq(Records)
          /\ Len(Append(ld.txn, r)) = Len(ld.txn) + 1
          /\ \A m \in 1..Len(ld.txn) : Append(ld.txn, r)[m] = ld.txn[m]
          /\ Append(ld.txn, r)[Len(ld.txn) + 1] = r
      BY <1>5, <3>1
    <3>3. ld' \in LoadTypes /\ ld'.pos = p + 1 /\ ld'.txn = Append(ld.txn, r) /\ ld'.j = 0
      <4>1. ld' = [ld EXCEPT !.pos = p + 1, !.clean = ld.clean, !.txn = Append(ld.txn, r)]
        BY <2>2, <2>6, <1>1, Zenon DEF p, LoadTypes
      <4>2. ld.clean \in BOOLEAN
        BY <1>1, Zenon DEF LoadTypes
      <4>3. Append(ld.txn, r) \in Txns
        BY <3>2, Zenon DEF Txns
      <4>4. p + 1 \in 0..Len(file)
        BY <1>1
      <4>5. ld \in LoadTypes /\ ld.j = 0
        BY <1>1, <1>2, Zenon
      <4> QED
        BY <4>5, <4>1, <4>2, <4>3, <4>4, Zenon DEF LoadTypes
    <3>4. G(p + 1).com = table /\ G(p + 1).open /\ table' = table
      BY <1>2, <1>7, <2>1, <2>2, <2>6, Zenon
    <3>5. ld'.pos - Len(ld'.txn) = b /\ b \in Int /\ b + Len(ld.txn) = p
      <4>1. Len(ld'.txn) = Len(ld.txn) + 1 /\ p \in Int /\ ld'.pos = p + 1
        BY <1>1, <3>1, <3>2, <3>3
      <4> QED
        BY <3>1, <4>1 DEF b
    <3>6. \A m \in 1..Len(ld'.txn) : ld'.txn[m] = file[b + m] /\ ld'.txn[m] \in Ops
      <4> SUFFICES ASSUME NEW m \in 1..(Len(ld.txn) + 1)
                   PROVE  ld'.txn[m] = file[b + m] /\ ld'.txn[m] \in Ops
        BY <3>2, <3>3, Zenon
      <4>1. CASE m \in 1..Len(ld.txn)
        BY <4>1, <1>2, <2>6, <3>2, <3>3, Zenon
      <4>2. CASE m = Len(ld.txn) + 1
        <5>1. b + m = p + 1
          BY <4>2, <3>1, <3>5, <1>1
        <5> QED
          BY <4>2, <5>1, <1>15, <3>2, <3>3, Zenon DEF r
      <4> QED
        BY <4>1, <4>2, <3>1
    <3>7. ld'.txn # NoTxn
      BY <3>2, <3>3, NoTxnAssumption, SMTT(30)
    <3>8. Loading'
      BY <1>1, <1>2, <1>4, <1>11, <2>2, <2>6, <3>3, <3>4, <3>5, <3>6, <3>7, Zenon DEF Loading, G
    <3> QED
      BY <1>1, <1>3, <1>4, <2>2, <2>3, <2>4, <3>3, <3>8, LoaderStep, Zenon DEF LoadTypes
  <2> QED
    BY <2>5, <2>6, Zenon
<1> QED
  BY <1>5, <1>12, <1>13, <1>14, <1>15, RecordFacts, Zenon

(* LoadClassAdLog plays one record of a completed transaction. *)
LEMMA LoadCommitStep ==
  ASSUME IInv, LoadCommit
  PROVE  IInv'
<1> DEFINE p == ld.pos
           b == p - 1 - Len(ld.txn)
<1>1. /\ TypeOK /\ IsTrace(file, gh) /\ Len(file) \in Nat
      /\ ld \in LoadTypes /\ p \in 0..Len(file)
      /\ file \in Seq(Records) /\ table \in Tables /\ seq \in Nat
      /\ pc = "loadcommit"
  BY SMTT(30) DEF IInv, TypeOK, LoadTypes, LoadCommit
<1>2. /\ ~must
      /\ ld.txn # NoTxn
      /\ p >= 1
      /\ file[p] = End
      /\ b >= 1
      /\ ld.j <= Len(ld.txn)
      /\ table = G(b + ld.j).mem
      /\ \A m \in 1..Len(ld.txn) : ld.txn[m] = file[b + m] /\ ld.txn[m] \in Ops
  BY <1>1, Zenon DEF IInv, Replaying
<1>3. glued = 0
  BY <1>1, Zenon DEF IInv, Glued
<1>4. UNCHANGED <<txn, parked, cm, disk, seq, hist, tr, must, downs, acked>>
  BY Zenon DEF LoadCommit
<1>5. file' = file /\ \A i : At(gh', i) = G(i)
  BY <1>4, Zenon DEF disk, G
<1>6. ld.txn \in Seq(Records) /\ Len(ld.txn) \in Nat /\ ld.j \in Nat
  BY <1>1, <1>2 DEF LoadTypes, Txns
<1>7. b \in Nat /\ b + Len(ld.txn) = p - 1
  BY <1>1, <1>2, <1>6, SMTT(30)
<1>8. CASE ld.j < Len(ld.txn)
  <2> DEFINE r == ld.txn[ld.j + 1]
             i == b + ld.j
  <2>1. table' = Play(table, r) /\ ld' = [ld EXCEPT !.j = @ + 1] /\ pc' = pc
    BY <1>8, Zenon DEF LoadCommit
  <2>2. i \in 0..Len(file) /\ i + 1 \in 1..Len(file) /\ b + (ld.j + 1) = i + 1
    <3>1. Len(file) \in Nat /\ p \in Nat /\ p <= Len(file)
      BY <1>1
    <3> HIDE DEF p, b
    <3> QED
      BY <3>1, <1>6, <1>7, <1>8, SMTT(30)
  <2>3. r = file[i + 1] /\ r \in Ops /\ r \in Records
    BY <1>2, <1>6, <1>8, <2>2, RecordTypes, SMTT(30)
  <2>4. G(i + 1) = GhostStep(G(i), r)
    <3>1. IsTrace(file, gh) /\ Len(file) \in Nat
      BY <1>1, Zenon
    <3> HIDE DEF r, i
    <3> QED
      BY <3>1, <2>2, <2>3 DEF IsTrace, G, At
  <2>5. table' = G(i + 1).mem
    <3>1. G(i) \in Ghosts
      BY <1>1, <2>2, GType, Zenon
    <3> QED
      BY <1>2, <2>1, <2>3, <2>4, <3>1, GhostStepFields
  <2>6. table' \in Tables
    BY <1>1, <2>1, <2>3, PlayType, Zenon
  <2>7. ld' \in LoadTypes /\ ld'.pos = p /\ ld'.txn = ld.txn /\ ld'.j = ld.j + 1
    BY <1>1, <1>6, <2>1, SMTT(30) DEF LoadTypes
  <2>8. Loading'
    BY <1>1, <2>1, Zenon DEF Loading
  <2> HIDE DEF r
  <2>9. Replaying'
    <3>1. ld'.pos - 1 - Len(ld'.txn) = b /\ ld'.j <= Len(ld'.txn) /\ b + ld'.j = i + 1
      BY <1>6, <1>8, <2>2, <2>7
    <3> HIDE DEF b, i, p
    <3> QED
      BY <1>2, <1>4, <1>5, <2>5, <2>7, <3>1, Zenon DEF Replaying, G
  <2> QED
    BY <1>1, <1>3, <1>4, <2>1, <2>6, <2>7, <2>8, <2>9, LoaderStep, Zenon DEF LoadTypes
<1>9. CASE ~(ld.j < Len(ld.txn))
  <2>1. pc' = "load" /\ ld' = [ld EXCEPT !.j = 0, !.txn = NoTxn] /\ table' = table
    BY <1>9, Zenon DEF LoadCommit
  <2>2. ld' \in LoadTypes /\ ld'.pos = p /\ ld'.txn = NoTxn /\ ld'.j = 0
    BY <1>1, <2>1, Zenon DEF LoadTypes, Txns
  <2>3. table = G(p - 1).mem
    BY <1>2, <1>6, <1>7, <1>9, SMTT(30)
  <2>4. p - 1 \in 0..Len(file) /\ G(p) = GhostStep(G(p - 1), End)
    BY <1>1, <1>2 DEF IsTrace, G, At
  <2>5. G(p).com = table /\ ~G(p).open
    <3>1. G(p - 1) \in Ghosts /\ G(p - 1).mem \in Tables
      BY <1>1, <2>4, GType, Zenon DEF Ghosts
    <3>2. End \in Records /\ End \notin Ops /\ End # Begin
      BY RecordTypes, OpsFacts, Zenon DEF OpNames, Begin, End
    <3> QED
      BY <2>3, <2>4, <3>1, <3>2, GhostStepFields, PlayMarker
  <2>6. Loading'
    BY <1>2, <1>4, <1>5, <2>1, <2>2, <2>5, Zenon DEF Loading, G
  <2>7. Replaying'
    BY <2>1, Zenon DEF Replaying
  <2> QED
    BY <1>1, <1>3, <1>4, <2>1, <2>2, <2>6, <2>7, LoaderStep, Zenon DEF LoadTypes
<1> QED
  BY <1>8, <1>9, Zenon

(* LoadClassAdLog gives up on a record it cannot read. *)
LEMMA LoadFatalStep ==
  ASSUME IInv, LoadFatal
  PROVE  IInv'
<1>1. /\ flushed \in 0..Len(file) /\ synced \in 0..flushed
      /\ hist \subseteq Nat /\ downs \in Nat
  BY Zenon DEF IInv, TypeOK
<1>2. Halt /\ UNCHANGED <<file, flushed, synced, torn, glued, unended, gh, hist, downs>>
  BY Zenon DEF LoadFatal, disk
<1> QED
  BY <1>1, <1>2, HaltInPlace, Zenon

(* A header on top of nothing stands for nothing. *)
LEMMA HeaderMeansNothing ==
  ASSUME NEW n \in Nat
  PROVE  GhostStep(GhostInit, SeqRecord(n)) = GhostInit
<1>1. GhostInit.mem = EmptyTable /\ GhostInit.open = FALSE
  BY Zenon DEF GhostInit
<1>2. SeqRecord(n).op = "Seq"
  BY Zenon DEF SeqRecord
<1>3. Play(EmptyTable, SeqRecord(n)) = EmptyTable
  BY <1>2, Zenon DEF Play
<1> QED
  BY <1>1, <1>2, <1>3, Zenon DEF GhostStep, GhostInit

(* LoadClassAdLog at the end of the file. *)
LEMMA LoadDoneStep ==
  ASSUME IInv, LoadDone
  PROVE  IInv'
<1> DEFINE n == Len(file)
<1>1. /\ TypeOK /\ IsTrace(file, gh) /\ n \in Nat
      /\ ld.pos \in 0..n /\ gh \in Seq(Ghosts) /\ Len(gh) = n
      /\ pc = "load" /\ torn \in BOOLEAN /\ unended = 0
  <2>1. TypeOK /\ IsTrace(file, gh) /\ Resting
    BY Zenon DEF IInv
  <2>2. pc = "load"
    BY Zenon DEF LoadDone
  <2>3. file \in Seq(Records) /\ gh \in Seq(Ghosts) /\ torn \in BOOLEAN
    BY <2>1, Zenon DEF TypeOK
  <2>4. ld \in [pos : 0..Len(file), txn : Txns, j : Nat, clean : BOOLEAN]
    BY <2>1, Zenon DEF TypeOK
  <2>5. Len(gh) = n /\ unended = 0
    BY <2>1, <2>2, Zenon DEF IsTrace, Resting
  <2> QED
    BY <2>1, <2>2, <2>3, <2>4, <2>5
<1>2. /\ ld' = NoLoad
      /\ UNCHANGED <<table, txn, parked, cm, seq, hist, tr, downs, acked>>
      /\ pc' = IF must' \/ ~ld.clean THEN "rotate" ELSE "ready"
  BY Zenon DEF LoadDone
<1>3. must' \in BOOLEAN /\ (must' <=> torn \/ ld.pos < n \/ ld.txn # NoTxn)
  <2>1. must' = RequiresCleaning
    BY Zenon DEF LoadDone
  <2> QED
    BY <2>1, Zenon DEF RequiresCleaning
<1>4. table = G(ld.pos).com /\ (ld.txn = NoTxn => ~G(ld.pos).open)
  BY <1>1, Zenon DEF IInv, Loading
<1>5. \/ glued = 0 /\ ld.pos = n
      \/ glued = 1 /\ ld.pos = 0 /\ n >= 1 /\ G(n) = GhostInit
  <2>1. CASE glued = 0
    BY <1>1, <2>1 DEF LoadDone, Readable
  <2>2. CASE glued # 0
    <3>1. glued = 1 /\ ld.pos = 0 /\ n >= 1 /\ gh[n] = GhostInit
      BY <1>1, <2>2 DEF IInv, Glued
    <3> QED
      BY <3>1, <1>1, Zenon DEF G, At
  <2> QED
    BY <2>1, <2>2, Zenon
<1>6. G(0) = GhostInit
  BY Zenon DEF G, At
<1>7. table = G(n).com /\ (glued # 0 => must')
  BY <1>1, <1>3, <1>4, <1>5, <1>6
<1>8. ~must' => ~torn /\ glued = 0 /\ ~G(n).open
  BY <1>1, <1>3, <1>4, <1>5
<1>9. Buffer(txn) /\ Buffer(parked)
  BY <1>1, Zenon DEF IInv, Resting
<1>10. pc' \in {"rotate", "ready"} /\ (pc' = "ready" => ~must')
  BY <1>2, Zenon
<1>11. Appending' /\ Committing' /\ Loading' /\ Replaying' /\ Dumping'
  BY <1>10, Zenon DEF Appending, Committing, Loading, Replaying, Dumping
<1>12. CASE ld.pos = 0 /\ n < MaxLog
  <2> DEFINE r == SeqRecord(seq)
  <2>1. Write(r) /\ UNCHANGED <<flushed, synced>>
    BY <1>12, Zenon DEF LoadDone
  <2>2. G(n) = GhostInit
    BY <1>5, <1>6, <1>12, SMTT(30)
  <2>3. seq \in Nat /\ r \in Records /\ r.op = "Seq"
    BY <1>1, RecordTypes, Zenon DEF TypeOK
  <2>4. MayFollow(G(n), r)
    BY <2>2, <2>3, SMTT(30) DEF MayFollow, GhostInit, End
  <2> HIDE DEF r
  <2>5. /\ file' \in Seq(Records) /\ gh' \in Seq(Ghosts)
        /\ Len(file') = n + 1
        /\ Len(gh') = Len(file')
        /\ IsTrace(file', gh')
        /\ \A i \in 0..n : At(gh', i) = At(gh, i)
        /\ \A i \in 1..n : file'[i] = file[i]
        /\ At(gh', Len(file')) = GhostStep(G(n), r)
        /\ file'[Len(file')] = r
        /\ torn' = FALSE
        /\ unended' = 0
        /\ ~torn => glued' = glued
    BY <1>1, <2>1, <2>3, <2>4, WriteStep, Zenon
  <2>6. At(gh', Len(file')) = GhostInit
    BY <2>2, <2>3, <2>5, HeaderMeansNothing, Zenon DEF r
  <2>7. glued' = IF torn /\ glued = 0 THEN n + 1 ELSE glued
    BY <2>1, Zenon DEF Write
  <2>8. ~must' => glued' = 0
    BY <1>8, <2>5, Zenon
  <2>9. glued' # 0 => glued' = 1 /\ must'
    BY <1>3, <1>5, <1>7, <1>12, <2>7
  <2>10. table = EmptyTable
    BY <1>4, <1>6, <1>12 DEF GhostInit
  <2>11. InUse' /\ Rotating'
    BY <1>2, <1>10, <2>5, <2>6, <2>8, <2>10, SMTT(30) DEF InUse, Rotating, Sound, G, GhostInit
  <2>12. Glued'
    <3> SUFFICES ASSUME glued' # 0 PROVE Glued'
      BY Zenon DEF Glued
    <3>1. glued' = 1 /\ must' /\ pc' = "rotate" /\ Len(file') >= 1
      BY <1>1, <1>2, <2>5, <2>9
    <3>2. \A i \in 1..n : file[i].op = "Seq" /\ gh[i] = GhostInit
      <4>1. CASE glued = 0
        BY <1>5, <1>12, <4>1, SMTT(30)
      <4>2. CASE glued # 0
        BY <4>2, Zenon DEF IInv, Glued
      <4> QED
        BY <4>1, <4>2, Zenon
    <3>3. \A i \in 1..(n + 1) : file'[i].op = "Seq" /\ gh'[i] = GhostInit
      <4> SUFFICES ASSUME NEW i \in 1..(n + 1) PROVE file'[i].op = "Seq" /\ gh'[i] = GhostInit
        BY Zenon
      <4>1. At(gh', i) = gh'[i]
        BY DEF At
      <4>2. CASE i \in 1..n
        BY <4>2, <3>2, <2>5, <4>1, SMTT(30) DEF At
      <4>3. CASE i = n + 1
        BY <4>3, <4>1, <2>3, <2>5, <2>6, SMTT(30)
      <4> QED
        BY <4>2, <4>3, <1>1
    <3> QED
      BY <3>1, <3>3, <2>5, Zenon DEF Glued
  <2>13. Resting'
    BY <1>2, <1>9, <1>10, <2>5, SMTT(30) DEF Resting, Buffer
  <2>14. TypeOK'
    <3>1. flushed' \in 0..Len(file') /\ synced' \in 0..flushed'
      BY <1>1, <2>1, <2>5 DEF TypeOK
    <3>2. ld' \in [pos : 0..Len(file'), txn : Txns, j : Nat, clean : BOOLEAN]
      BY <1>1, <1>2, <2>5, NoLoadType, SMTT(30)
    <3>3. pc' \in PCs /\ glued' \in Nat /\ unended' \in Nat
      BY <1>10, <2>5, <2>9 DEF PCs
    <3>4. UNCHANGED <<table, txn, parked, cm, seq, hist, tr, downs, acked>>
      BY <1>2, Zenon
    <3> QED
      BY <1>1, <1>3, <2>5, <3>1, <3>2, <3>3, <3>4, Zenon DEF TypeOK
  <2> QED
    BY <1>11, <2>5, <2>11, <2>12, <2>13, <2>14, Zenon DEF IInv
<1>13. CASE ~(ld.pos = 0 /\ n < MaxLog)
  <2>1. UNCHANGED <<file, flushed, synced, torn, glued, unended, gh>>
    BY <1>13, Zenon DEF LoadDone, disk
  <2>2. InUse' /\ Rotating'
    BY <1>2, <1>7, <1>8, <1>10, <2>1, SMTT(30) DEF InUse, Rotating, Sound, G
  <2>3. Glued'
    BY <1>1, <1>7, <1>10, <2>1, Zenon DEF IInv, Glued
  <2>4. Resting'
    BY <1>1, <1>2, <1>9, <1>10, <2>1, SMTT(30) DEF Resting, Buffer
  <2>5. TypeOK'
    <3>1. ld' \in [pos : 0..Len(file'), txn : Txns, j : Nat, clean : BOOLEAN]
      BY <1>1, <1>2, <2>1, NoLoadType, Zenon
    <3>2. pc' \in PCs
      BY <1>10, Zenon DEF PCs
    <3>3. UNCHANGED <<table, txn, parked, cm, seq, hist, tr, downs, acked>>
      BY <1>2, Zenon
    <3> QED
      BY <1>1, <1>3, <2>1, <3>1, <3>2, <3>3, Zenon DEF TypeOK
  <2> QED
    BY <1>1, <1>11, <2>1, <2>2, <2>3, <2>4, <2>5, Zenon DEF IInv
<1> QED
  BY <1>12, <1>13, SMTT(30)


-----------------------------------------------------------------------------
(* Rotating *)

(* What holds whenever a rotation starts, goes on or fails. *)
LEMMA RotationFacts ==
  ASSUME IInv, pc \in {"rotate", "ready", "trunc"}
  PROVE  /\ TypeOK /\ IsTrace(file, gh) /\ Len(file) \in Nat
         /\ table = G(Len(file)).com /\ (must \/ Sound)
         /\ ld = NoLoad /\ Buffer(txn) /\ Buffer(parked) /\ unended = 0
         /\ glued # 0 => must
         /\ must => pc \in {"rotate", "trunc"}
<1>1. table = G(Len(file)).com /\ (must \/ Sound)
  BY Zenon DEF IInv, InUse, Rotating
<1>2. ld = NoLoad /\ Buffer(txn) /\ Buffer(parked) /\ unended = 0 /\ (must => pc \in {"rotate", "trunc"})
  BY Zenon DEF IInv, Resting
<1>3. glued # 0 => must
  BY <1>1, Zenon DEF Sound
<1> QED
  BY <1>1, <1>2, <1>3 DEF IInv, TypeOK

(* The historical logs kept are numbers of logs. *)
LEMMA SavedType ==
  ASSUME TypeOK
  PROVE  SaveHistoricalLogs \subseteq Nat
BY Zenon DEF TypeOK, SaveHistoricalLogs

(* A rotation that fails leaves the old log in use, or none. *)
LEMMA TruncFailedStep ==
  ASSUME IInv, pc \in {"rotate", "ready", "trunc"},
         NEW f \in flushed..Len(file), TruncFailed(f),
         UNCHANGED <<file, synced, torn, glued, unended, gh, downs>>, hist' \subseteq Nat
  PROVE  IInv'
<1>1. /\ TypeOK /\ IsTrace(file, gh) /\ Len(file) \in Nat
      /\ table = G(Len(file)).com /\ (must \/ Sound)
      /\ ld = NoLoad /\ Buffer(txn) /\ Buffer(parked) /\ unended = 0
  BY RotationFacts, Zenon
<1>2. /\ flushed \in 0..Len(file) /\ synced \in 0..flushed /\ downs \in Nat /\ f \in 0..Len(file)
      /\ f >= flushed
  BY <1>1 DEF TypeOK
<1>3. CASE must
  <2>1. Halt /\ flushed' = Len(file)
    BY <1>3, Zenon DEF TruncFailed
  <2>2. flushed' \in 0..Len(file) /\ synced' \in 0..flushed' /\ downs' \in Nat
    BY <1>1, <1>2, <2>1
  <2> QED
    BY <2>1, <2>2, HaltInPlace, Zenon
<1>4. CASE ~must
  <2>1. /\ pc' = "ready" /\ flushed' = f /\ tr' = NoDump
        /\ UNCHANGED <<table, txn, parked, cm, seq, ld, must, acked>>
    BY <1>4, Zenon DEF TruncFailed
  <2>2. Sound
    BY <1>1, <1>4, Zenon
  <2>3. TypeOK'
    <3>1. flushed' \in 0..Len(file') /\ synced' \in 0..flushed'
      BY <1>2, <2>1
    <3>2. pc' \in PCs
      BY <2>1, Zenon DEF PCs
    <3>3. tr' \in [keys : SUBSET Keys, key : Keys \cup {NoAd}, names : SUBSET Names,
                   tmp : Seq(Records), tgh : Seq(Ghosts)]
      BY <2>1, NoDumpType, Zenon
    <3> QED
      BY <1>1, <2>1, <3>1, <3>2, <3>3, Zenon DEF TypeOK
  <2>4. InUse'
    BY <1>1, <2>1, <2>2, Zenon DEF InUse, Sound, G
  <2>5. Appending' /\ Committing' /\ Loading' /\ Replaying' /\ Rotating' /\ Dumping'
    BY <2>1, Zenon DEF Appending, Committing, Loading, Replaying, Rotating, Dumping
  <2>6. Glued'
    BY <2>2, Zenon DEF Glued, Sound
  <2>7. Resting'
    BY <1>1, <1>4, <2>1, Zenon DEF Resting, Buffer
  <2> QED
    BY <1>1, <2>3, <2>4, <2>5, <2>6, <2>7, Zenon DEF IInv
<1> QED
  BY <1>3, <1>4, Zenon

(* The three ways TruncateClassAdLog can fail early. *)
LEMMA TruncFailures ==
  ASSUME IInv, TruncNoHistory \/ TruncNoTmp \/ TruncRenameFails
  PROVE  IInv'
<1>1. pc \in {"rotate", "ready", "trunc"}
  BY Zenon DEF TruncNoHistory, TruncNoTmp, TruncRenameFails, TruncRequested, DumpDone
<1>2. TypeOK /\ Len(file) \in Nat /\ flushed \in flushed..Len(file) /\ Len(file) \in flushed..Len(file)
      /\ hist \subseteq Nat
  BY DEF IInv, TypeOK
<1>3. UNCHANGED <<file, synced, torn, glued, unended, gh, downs>> /\ hist' \subseteq Nat
  BY <1>2, SavedType, Zenon DEF TruncNoHistory, TruncNoTmp, TruncRenameFails
<1>4. CASE TruncNoHistory
  BY <1>1, <1>2, <1>3, <1>4, TruncFailedStep, Zenon DEF TruncNoHistory
<1>5. CASE TruncNoTmp
  BY <1>1, <1>2, <1>3, <1>5, TruncFailedStep, Zenon DEF TruncNoTmp
<1>6. CASE TruncRenameFails
  BY <1>1, <1>2, <1>3, <1>6, TruncFailedStep, Zenon DEF TruncRenameFails
<1> QED
  BY <1>4, <1>5, <1>6, Zenon

DumpTypes == [keys : SUBSET Keys, key : Keys \cup {NoAd}, names : SUBSET Names,
              tmp : Seq(Records), tgh : Seq(Ghosts)]

(* The dump is private: only its own description has to be looked at. *)
LEMMA DumpingStep ==
  ASSUME IInv, pc \in {"rotate", "ready", "trunc"}, pc' = "trunc",
         UNCHANGED <<table, txn, parked, cm, disk, seq, ld, must, downs, acked>>,
         hist' \subseteq Nat, tr' \in DumpTypes, Dumping'
  PROVE  IInv'
<1>1. /\ TypeOK /\ IsTrace(file, gh) /\ Len(file) \in Nat
      /\ table = G(Len(file)).com /\ (must \/ Sound)
      /\ ld = NoLoad /\ Buffer(txn) /\ Buffer(parked) /\ unended = 0
      /\ glued # 0 => must
  BY RotationFacts, Zenon
<1>2. UNCHANGED <<file, flushed, synced, torn, glued, unended, gh>>
  BY Zenon DEF disk
<1>3. TypeOK'
  <2>1. pc' \in PCs
    BY Zenon DEF PCs
  <2> QED
    BY <1>1, <1>2, <2>1, Zenon DEF TypeOK, DumpTypes
<1>4. InUse' /\ Appending' /\ Committing' /\ Loading' /\ Replaying'
  BY Zenon DEF InUse, Appending, Committing, Loading, Replaying
<1>5. Rotating'
  BY <1>1, <1>2, Zenon DEF Rotating, Sound, G
<1>6. Glued'
  BY <1>1, <1>2, Zenon DEF Glued, IInv
<1>7. Resting'
  BY <1>1, <1>2, Zenon DEF Resting, Buffer
<1> QED
  BY <1>1, <1>2, <1>3, <1>4, <1>5, <1>6, <1>7, Zenon DEF IInv

(* TruncateClassAdLog opens the temporary file and writes its header. *)
LEMMA TruncStartStep ==
  ASSUME IInv, TruncStart
  PROVE  IInv'
<1>1. /\ pc \in {"rotate", "ready"} /\ pc' = "trunc" /\ hist' = SaveHistoricalLogs
      /\ UNCHANGED <<table, txn, parked, cm, disk, seq, ld, must, downs, acked>>
  BY Zenon DEF TruncStart, TruncRequested
<1> DEFINE r == SeqRecord(seq + 1)
           live == {k \in Keys : table[k] # NoAd}
<1>2. TypeOK /\ seq + 1 \in Nat /\ table \in Tables
  BY DEF IInv, TypeOK
<1>3. r \in Records /\ r.op = "Seq" /\ GhostStep(GhostInit, r) = GhostInit
  BY <1>2, RecordTypes, HeaderMeansNothing, Zenon
<1>4. tr' = [keys |-> live, key |-> NoAd, names |-> {}, tmp |-> <<r>>, tgh |-> <<GhostInit>>]
  BY <1>3, Zenon DEF TruncStart
<1> HIDE DEF r
<1>5. <<r>> \in Seq(Records) /\ <<GhostInit>> \in Seq(Ghosts) /\ Len(<<r>>) = 1 /\ Len(<<GhostInit>>) = 1
      /\ <<r>>[1] = r /\ <<GhostInit>>[1] = GhostInit
  BY <1>3, GhostInitType
<1>6. tr' \in DumpTypes
  BY <1>4, <1>5, Zenon DEF DumpTypes
<1>7. IsTrace(<<r>>, <<GhostInit>>)
  <2>1. r # Begin /\ r # End
    BY <1>3 DEF Begin, End
  <2>2. At(<<GhostInit>>, 0) = GhostInit /\ ~GhostInit.open
    BY Zenon DEF At, GhostInit
  <2> QED
    BY <1>3, <1>5, <2>1, <2>2 DEF IsTrace
<1>8. At(<<GhostInit>>, 1) = GhostInit
  BY <1>5, Zenon DEF At
<1>9. /\ tr'.keys = live /\ tr'.key = NoAd /\ tr'.names = {}
      /\ tr'.tmp = <<r>> /\ tr'.tgh = <<GhostInit>>
  BY <1>4, Zenon
<1>10. Dumping'
  <2>1. \A k \in Keys : EmptyTable[k] = IF k \in live THEN NoAd ELSE table[k]
    BY Zenon DEF EmptyTable
  <2>2. ~At(tr'.tgh, Len(tr'.tmp)).open /\ At(tr'.tgh, Len(tr'.tmp)).mem = EmptyTable
    BY <1>5, <1>8, <1>9 DEF GhostInit
  <2> HIDE DEF live
  <2>3. live \subseteq {k \in Keys : table[k] # NoAd}
    BY Zenon DEF live
  <2> QED
    BY <1>1, <1>5, <1>7, <1>9, <2>1, <2>2, <2>3 DEF Dumping, Dumped
<1>11. hist' \subseteq Nat
  BY <1>1, <1>2, SavedType, Zenon
<1> QED
  BY <1>1, <1>6, <1>10, <1>11, DumpingStep, Zenon

(* One more record in the dump. *)
LEMMA DumpRecordFacts ==
  ASSUME IInv, pc = "trunc", NEW r \in Ops, NEW rest \in DumpTypes,
         rest.tmp = tr.tmp, rest.tgh = tr.tgh, DumpRecord(r, rest)
  PROVE  /\ tr' \in DumpTypes
         /\ tr'.keys = rest.keys /\ tr'.key = rest.key /\ tr'.names = rest.names
         /\ IsTrace(tr'.tmp, tr'.tgh)
         /\ Len(tr'.tmp) >= 1
         /\ ~At(tr'.tgh, Len(tr'.tmp)).open
         /\ At(tr'.tgh, Len(tr'.tmp)).mem = Play(At(tr.tgh, Len(tr.tmp)).mem, r)
<1> DEFINE f == tr.tmp
           g == tr.tgh
           h == At(g, Len(f))
           f2 == Append(f, r)
           g2 == Append(g, GhostStep(h, r))
<1>1. IsTrace(f, g) /\ Len(f) >= 1 /\ ~h.open
  BY Zenon DEF IInv, Dumping
<1>2. f \in Seq(Records) /\ g \in Seq(Ghosts) /\ Len(f) \in Nat /\ Len(g) = Len(f)
  BY <1>1 DEF IInv, TypeOK, IsTrace
<1>3. r \in Records /\ r # Begin /\ r # End /\ r.op # "Seq"
  BY RecordTypes, OpsFacts DEF OpNames, Begin, End
<1>4. h \in Ghosts /\ h = g[Len(g)]
  BY <1>1, <1>2, AtType DEF At
<1>5. MayFollow(h, r)
  BY <1>3, Zenon DEF MayFollow
<1>6. /\ f2 \in Seq(Records) /\ g2 \in Seq(Ghosts)
      /\ Len(f2) = Len(f) + 1
      /\ IsTrace(f2, g2)
      /\ At(g2, Len(f) + 1) = GhostStep(h, r)
  BY <1>1, <1>2, <1>3, <1>5, TraceAppend, Zenon
<1>7. GhostStep(h, r).mem = Play(h.mem, r) /\ ~GhostStep(h, r).open
  BY <1>1, <1>3, <1>4, GhostStepFields, Zenon
<1>8. tr' = [rest EXCEPT !.tmp = f2, !.tgh = g2]
  BY <1>4, Zenon DEF DumpRecord, DumpTypes
<1> HIDE DEF f2, g2
<1>9. /\ tr' \in DumpTypes
      /\ tr'.keys = rest.keys /\ tr'.key = rest.key /\ tr'.names = rest.names
      /\ tr'.tmp = f2 /\ tr'.tgh = g2
  BY <1>6, <1>8, Zenon DEF DumpTypes
<1>10. Len(f2) >= 1
  <2>1. Len(f) \in Nat /\ Len(f2) = Len(f) + 1
    BY <1>2, <1>6, Zenon
  <2> HIDE DEF f
  <2> QED
    BY <2>1
<1> QED
  BY <1>6, <1>7, <1>9, <1>10, Zenon

(* A dump that carries on is described by what it has written, m, and by what is
   left of the table. *)
DumpedNext(m) ==
  /\ \A q \in Keys : q # tr'.key => m[q] = IF q \in tr'.keys THEN NoAd ELSE table[q]
  /\ tr'.keys \subseteq {q \in Keys : table[q] # NoAd}
  /\ tr'.key # NoAd /\ tr'.key \notin tr'.keys /\ table[tr'.key] # NoAd
  /\ tr'.names \subseteq {q \in Names : table[tr'.key][q] # Unset}
  /\ m[tr'.key] = [q \in Names |-> IF q \in tr'.names THEN Unset ELSE table[tr'.key][q]]

(* A dump step that leaves the table alone and is so described keeps Dumping. *)
LEMMA DumpingNow ==
  ASSUME NEW m, At(tr'.tgh, Len(tr'.tmp)).mem = m, table' = table, DumpedNext(m),
         IsTrace(tr'.tmp, tr'.tgh), Len(tr'.tmp) >= 1, ~At(tr'.tgh, Len(tr'.tmp)).open
  PROVE  Dumping'
<1>1. Dumped(m)'
  BY Zenon DEF Dumped, DumpedNext
<1> QED
  BY <1>1, Zenon DEF Dumping, Dumped

(* WriteClassAdLogState writes the record of one ad. *)
LEMMA DumpAdStep ==
  ASSUME IInv, NEW k \in Keys, DumpAd(k)
  PROVE  IInv'
<1> DEFINE r == [op |-> "New", key |-> k]
           names == {n \in Names : table[k][n] # Unset}
           rest == [tr EXCEPT !.keys = @ \ {k}, !.key = k, !.names = names]
           mem == At(tr.tgh, Len(tr.tmp)).mem
           mem2 == [mem EXCEPT ![k] = EmptyAd]
<1>1. pc = "trunc" /\ tr.names = {} /\ k \in tr.keys /\ DumpRecord(r, rest)
  BY Zenon DEF DumpAd
<1>2. TypeOK /\ tr \in DumpTypes /\ table \in Tables /\ Dumped(mem)
  BY <1>1, Zenon DEF IInv, TypeOK, Dumping, DumpTypes
<1>3. /\ rest \in DumpTypes /\ rest.tmp = tr.tmp /\ rest.tgh = tr.tgh
      /\ rest.keys = tr.keys \ {k} /\ rest.key = k /\ rest.names = names
  BY <1>2, Zenon DEF DumpTypes
<1>4. UNCHANGED <<pc, table, txn, parked, cm, disk, seq, hist, ld, must, downs, acked>>
  BY <1>1, Zenon DEF DumpRecord
<1>5. mem \in Tables
  <2>1. tr.tgh \in Seq(Ghosts) /\ Len(tr.tgh) = Len(tr.tmp) /\ Len(tr.tgh) \in Nat
    BY <1>1, <1>2 DEF IInv, Dumping, IsTrace, DumpTypes
  <2>2. At(tr.tgh, Len(tr.tmp)) \in Ghosts
    BY <2>1, AtType, SMTT(30)
  <2> QED
    BY <2>2, Zenon DEF Ghosts
<1> HIDE DEF rest, mem
<1>6. /\ tr' \in DumpTypes
      /\ tr'.keys = tr.keys \ {k} /\ tr'.key = k /\ tr'.names = names
      /\ IsTrace(tr'.tmp, tr'.tgh)
      /\ Len(tr'.tmp) >= 1
      /\ ~At(tr'.tgh, Len(tr'.tmp)).open
      /\ At(tr'.tgh, Len(tr'.tmp)).mem = Play(mem, r)
  <2>1. r \in Ops
    BY RecordTypes, Zenon
  <2> HIDE DEF r, names
  <2> QED
    BY <1>1, <1>3, <2>1, DumpRecordFacts, Zenon DEF mem
<1>7. k # NoAd /\ k # tr.key /\ mem[k] = NoAd /\ table[k] # NoAd
  BY <1>1, <1>2, SentinelAssumption, Zenon DEF Dumped
<1>8. Play(mem, r) = mem2
  BY <1>7, Zenon DEF Play
<1>9. table[k] \in Ads
  BY <1>2, <1>7, Zenon DEF Tables
<1>10. mem2[k] = [n \in Names |-> IF n \in names THEN Unset ELSE table[k][n]]
  BY <1>5, <1>9, Zenon DEF EmptyAd, Tables
<1>11. \A q \in Keys : q # k => mem2[q] = IF q \in tr.keys \ {k} THEN NoAd ELSE table[q]
  <2> SUFFICES ASSUME NEW q \in Keys, q # k
               PROVE  mem[q] = IF q \in tr.keys THEN NoAd ELSE table[q]
    BY <1>5, Zenon DEF Tables
  <2>1. CASE q # tr.key
    BY <2>1, <1>2, Zenon DEF Dumped
  <2>2. CASE q = tr.key
    <3>1. /\ q \notin tr.keys /\ table[q] # NoAd
          /\ mem[q] = [n \in Names |-> IF n \in tr.names THEN Unset ELSE table[q][n]]
      BY <2>2, <1>2, SentinelAssumption, Zenon DEF Dumped
    <3>2. table[q] \in Ads
      BY <3>1, <1>2, Zenon DEF Tables
    <3>3. mem[q] = table[q]
      BY <3>1, <3>2, <1>1, SMTT(30) DEF Ads
    <3> QED
      BY <3>1, <3>3, Zenon
  <2> QED
    BY <2>1, <2>2, Zenon
<1>12. tr.keys \ {k} \subseteq {q \in Keys : table[q] # NoAd}
  BY <1>2, SMTT(30) DEF Dumped
<1> HIDE DEF mem2, names
<1>13. Dumping'
  <2>1. At(tr'.tgh, Len(tr'.tmp)).mem = mem2
    BY <1>6, <1>8, Zenon
  <2>2. names \subseteq {n \in Names : table[k][n] # Unset}
    BY Zenon DEF names
  <2>3. table' = table /\ tr'.key \notin tr'.keys
    BY <1>4, <1>6, Zenon
  <2>4. /\ \A q \in Keys : q # tr'.key => mem2[q] = IF q \in tr'.keys THEN NoAd ELSE table[q]
        /\ tr'.keys \subseteq {q \in Keys : table[q] # NoAd}
    BY <1>6, <1>11, <1>12, Zenon
  <2>5. /\ tr'.key # NoAd /\ table[tr'.key] # NoAd
        /\ tr'.names \subseteq {q \in Names : table[tr'.key][q] # Unset}
        /\ mem2[tr'.key] = [q \in Names |-> IF q \in tr'.names THEN Unset ELSE table[tr'.key][q]]
    BY <1>6, <1>7, <1>10, <2>2, Zenon
  <2>6. DumpedNext(mem2)
    BY <2>3, <2>4, <2>5, Zenon DEF DumpedNext
  <2> QED
    BY <1>6, <2>1, <2>3, <2>6, DumpingNow, Zenon
<1>14. hist' \subseteq Nat
  BY <1>2, <1>4, SMTT(30) DEF TypeOK
<1> QED
  BY <1>1, <1>4, <1>6, <1>13, <1>14, DumpingStep, Zenon

(* WriteClassAdLogState writes one attribute. *)
LEMMA DumpAttributeStep ==
  ASSUME IInv, NEW n \in Names, DumpAttribute(n)
  PROVE  IInv'
<1> DEFINE k == tr.key
           v == table[k][n]
           r == [op |-> "Set", key |-> k, name |-> n, val |-> v]
           rest == [tr EXCEPT !.names = @ \ {n}]
           mem == At(tr.tgh, Len(tr.tmp)).mem
           mem2 == [mem EXCEPT ![k][n] = v]
<1>1. pc = "trunc" /\ n \in tr.names /\ DumpRecord(r, rest)
  BY Zenon DEF DumpAttribute
<1>2. TypeOK /\ tr \in DumpTypes /\ table \in Tables /\ Dumped(mem)
  BY <1>1, Zenon DEF IInv, TypeOK, Dumping, DumpTypes
<1>3. /\ rest \in DumpTypes /\ rest.tmp = tr.tmp /\ rest.tgh = tr.tgh
      /\ rest.keys = tr.keys /\ rest.key = k /\ rest.names = tr.names \ {n}
  BY <1>2, Zenon DEF DumpTypes
<1>4. UNCHANGED <<pc, table, txn, parked, cm, disk, seq, hist, ld, must, downs, acked>>
  BY <1>1, Zenon DEF DumpRecord
<1>5. mem \in Tables
  <2>1. tr.tgh \in Seq(Ghosts) /\ Len(tr.tgh) = Len(tr.tmp) /\ Len(tr.tgh) \in Nat
    BY <1>1, <1>2 DEF IInv, Dumping, IsTrace, DumpTypes
  <2>2. At(tr.tgh, Len(tr.tmp)) \in Ghosts
    BY <2>1, AtType
  <2> QED
    BY <2>2, Zenon DEF Ghosts
<1> HIDE DEF rest, mem
<1>6. /\ k # NoAd /\ k \in Keys /\ k \notin tr.keys /\ table[k] # NoAd
      /\ v # Unset
      /\ mem[k] = [q \in Names |-> IF q \in tr.names THEN Unset ELSE table[k][q]]
  BY <1>1, <1>2, Zenon DEF Dumped, DumpTypes
<1>7. table[k] \in Ads /\ v \in Values
  BY <1>2, <1>6 DEF Tables, Ads
<1>8. r \in Ops
  BY <1>6, <1>7, RecordTypes, SMTT(30)
<1>9. /\ tr' \in DumpTypes
      /\ tr'.keys = tr.keys /\ tr'.key = k /\ tr'.names = tr.names \ {n}
      /\ IsTrace(tr'.tmp, tr'.tgh)
      /\ Len(tr'.tmp) >= 1
      /\ ~At(tr'.tgh, Len(tr'.tmp)).open
      /\ At(tr'.tgh, Len(tr'.tmp)).mem = Play(mem, r)
  <2> HIDE DEF r, k, v
  <2> QED
    BY <1>1, <1>3, <1>8, DumpRecordFacts, Zenon DEF mem
<1>10. mem[k] \in Ads /\ mem[k] # NoAd
  BY <1>6, <1>7, SentinelAssumption DEF Ads
<1>11. Play(mem, r) = mem2
  BY <1>10, Zenon DEF Play
<1>12. mem2[k] = [q \in Names |-> IF q \in tr.names \ {n} THEN Unset ELSE table[k][q]]
  <2>1. mem2[k] = [mem[k] EXCEPT ![n] = v]
    BY <1>5, <1>6, Zenon DEF Tables
  <2> QED
    BY <2>1, <1>6, <1>7, Zenon DEF Ads
<1>13. \A q \in Keys : q # k => mem2[q] = mem[q]
  BY <1>5, SMTT(30) DEF Tables
<1> HIDE DEF mem2, v, k
<1>14. Dumping'
  <2>1. At(tr'.tgh, Len(tr'.tmp)).mem = mem2
    BY <1>9, <1>11, Zenon
  <2>2. /\ \A q \in Keys : q # k => mem2[q] = IF q \in tr.keys THEN NoAd ELSE table[q]
        /\ tr.keys \subseteq {q \in Keys : table[q] # NoAd}
        /\ tr.names \ {n} \subseteq {q \in Names : table[k][q] # Unset}
    BY <1>2, <1>6, <1>13, Zenon DEF Dumped, k
  <2>3. table' = table /\ tr'.key \notin tr'.keys
    BY <1>4, <1>6, <1>9, Zenon
  <2>4. /\ \A q \in Keys : q # tr'.key => mem2[q] = IF q \in tr'.keys THEN NoAd ELSE table[q]
        /\ tr'.keys \subseteq {q \in Keys : table[q] # NoAd}
    BY <1>9, <2>2, Zenon
  <2>5. /\ tr'.key # NoAd /\ table[tr'.key] # NoAd
        /\ tr'.names \subseteq {q \in Names : table[tr'.key][q] # Unset}
        /\ mem2[tr'.key] = [q \in Names |-> IF q \in tr'.names THEN Unset ELSE table[tr'.key][q]]
    BY <1>6, <1>9, <1>12, <2>2, Zenon
  <2>6. DumpedNext(mem2)
    BY <2>3, <2>4, <2>5, Zenon DEF DumpedNext
  <2> QED
    BY <1>9, <2>1, <2>3, <2>6, DumpingNow, Zenon
<1>15. hist' \subseteq Nat
  BY <1>2, <1>4, SMTT(30) DEF TypeOK
<1> QED
  BY <1>1, <1>4, <1>9, <1>14, <1>15, DumpingStep, Zenon

(* A finished dump stands for the whole table. *)
LEMMA DumpComplete ==
  ASSUME IInv, DumpDone
  PROVE  /\ At(tr.tgh, Len(tr.tmp)).com = table
         /\ ~At(tr.tgh, Len(tr.tmp)).open
         /\ IsTrace(tr.tmp, tr.tgh)
         /\ tr.tmp \in Seq(Records) /\ tr.tgh \in Seq(Ghosts) /\ Len(tr.tmp) \in Nat
         /\ Len(tr.tgh) = Len(tr.tmp)
<1> DEFINE mem == At(tr.tgh, Len(tr.tmp)).mem
<1>1. /\ IsTrace(tr.tmp, tr.tgh) /\ ~At(tr.tgh, Len(tr.tmp)).open
      /\ Dumped(mem) /\ tr.keys = {} /\ tr.names = {}
  BY Zenon DEF IInv, Dumping, DumpDone
<1>2. /\ tr.tmp \in Seq(Records) /\ tr.tgh \in Seq(Ghosts) /\ Len(tr.tmp) \in Nat
      /\ Len(tr.tgh) = Len(tr.tmp) /\ table \in Tables
  <2>1. tr.tmp \in Seq(Records) /\ tr.tgh \in Seq(Ghosts) /\ table \in Tables
    BY Zenon DEF IInv, TypeOK
  <2>2. Len(tr.tmp) \in Nat
    BY <2>1, LenIsNat, Zenon
  <2> QED
    BY <1>1, <2>1, <2>2, Zenon DEF IsTrace
<1>3. At(tr.tgh, Len(tr.tmp)).com = mem
  <2>1. Len(tr.tmp) \in 0..Len(tr.tmp)
    <3>1. Len(tr.tmp) \in Nat
      BY <1>2, Zenon
    <3> QED
      BY <3>1
  <2> QED
    BY <1>1, <1>2, <2>1, TraceClosed, Zenon
<1>4. mem \in Tables
  <2>1. At(tr.tgh, Len(tr.tmp)) \in Ghosts
    BY <1>2, AtType
  <2> QED
    BY <2>1, Zenon DEF Ghosts
<1> HIDE DEF mem
<1>5. \A k \in Keys : mem[k] = table[k]
  <2> SUFFICES ASSUME NEW k \in Keys PROVE mem[k] = table[k]
    BY Zenon
  <2>1. CASE k # tr.key
    BY <2>1, <1>1, Zenon DEF Dumped
  <2>2. CASE k = tr.key
    <3>1. /\ table[k] # NoAd
          /\ mem[k] = [n \in Names |-> IF n \in tr.names THEN Unset ELSE table[k][n]]
      BY <2>2, <1>1, SentinelAssumption, Zenon DEF Dumped
    <3>2. table[k] \in Ads
      BY <3>1, <1>2, Zenon DEF Tables
    <3> QED
      BY <3>1, <3>2, <1>1, Zenon DEF Ads
  <2> QED
    BY <2>1, <2>2, Zenon
<1>6. mem = table
  BY <1>2, <1>4, <1>5 DEF Tables
<1> QED
  BY <1>1, <1>2, <1>3, <1>6, Zenon

(* The dump replaces the log. *)
LEMMA TruncRenameStep ==
  ASSUME IInv, TruncRename
  PROVE  IInv'
<1>1. /\ DumpDone /\ pc = "trunc"
      /\ file' = tr.tmp /\ gh' = tr.tgh
      /\ flushed' = Len(tr.tmp) /\ synced' = Len(tr.tmp)
      /\ torn' = FALSE /\ glued' = 0 /\ unended' = 0
      /\ seq' = seq + 1 /\ pc' = "ready" /\ tr' = NoDump /\ must' = FALSE
      /\ UNCHANGED <<table, txn, parked, cm, hist, ld, downs, acked>>
  BY Zenon DEF TruncRename, DumpDone
<1>2. TypeOK /\ ld = NoLoad /\ Buffer(txn) /\ Buffer(parked)
  BY <1>1, RotationFacts, Zenon
<1>3. /\ At(gh', Len(file')).com = table
      /\ ~At(gh', Len(file')).open
      /\ IsTrace(file', gh')
      /\ file' \in Seq(Records) /\ gh' \in Seq(Ghosts) /\ Len(file') \in Nat
      /\ Len(gh') = Len(file')
  BY <1>1, DumpComplete, SMTT(30)
<1>4. TypeOK'
  <2>1. flushed' \in 0..Len(file') /\ synced' \in 0..flushed' /\ seq' \in Nat
    BY <1>1, <1>2, <1>3 DEF TypeOK
  <2>2. ld' \in [pos : 0..Len(file'), txn : Txns, j : Nat, clean : BOOLEAN]
    BY <1>1, <1>2, <1>3, NoLoadType, Zenon
  <2>3. tr' \in [keys : SUBSET Keys, key : Keys \cup {NoAd}, names : SUBSET Names,
                 tmp : Seq(Records), tgh : Seq(Ghosts)]
    BY <1>1, NoDumpType, Zenon
  <2>4. pc' \in PCs
    BY <1>1, Zenon DEF PCs
  <2> QED
    BY <1>1, <1>2, <1>3, <2>1, <2>2, <2>3, <2>4, Zenon DEF TypeOK
<1>5. InUse'
  BY <1>1, <1>3, SMTT(30) DEF InUse, Sound, G
<1>6. Appending' /\ Committing' /\ Loading' /\ Replaying' /\ Rotating' /\ Dumping' /\ Glued'
  BY <1>1, Zenon DEF Appending, Committing, Loading, Replaying, Rotating, Dumping, Glued
<1>7. Resting'
  BY <1>1, <1>2, Zenon DEF Resting, Buffer
<1> QED
  BY <1>3, <1>4, <1>5, <1>6, <1>7, SMTT(30) DEF IInv

-----------------------------------------------------------------------------
(* The theorems *)

(* A stuttering step preserves the invariant. *)
LEMMA StutterStep ==
  ASSUME IInv, UNCHANGED vars
  PROVE  IInv'
<1> USE DEF vars, disk
<1>1. TypeOK' /\ IsTrace(file', gh')
  BY Zenon DEF IInv, TypeOK
<1>2. InUse' /\ Appending' /\ Committing'
  BY Zenon DEF IInv, InUse, Appending, Committing, Sound, G
<1>3. Loading' /\ Replaying'
  BY Zenon DEF IInv, Loading, Replaying, G
<1>4. Rotating' /\ Dumping'
  BY Zenon DEF IInv, Rotating, Dumping, Dumped, Sound, G
<1>5. Glued' /\ Resting'
  BY Zenon DEF IInv, Glued, Resting, Buffer
<1> QED
  BY <1>1, <1>2, <1>3, <1>4, <1>5, Zenon DEF IInv

(* Every step preserves the invariant. *)
LEMMA NextStep ==
  ASSUME IInv, ReliableFiles, [Next]_vars
  PROVE  IInv'
<1>1. CASE Client
  <2>1. CASE \/ BeginTransaction \/ AbortTransaction
             \/ GetActiveTransaction \/ SetActiveTransaction
             \/ \E r \in Appends : AppendToTransaction(r)
    BY <2>1, BufferSteps, Zenon
  <2>2. CASE \E r \in Appends, nd \in BOOLEAN : AppendLog(r, nd)
    BY <2>2, AppendLogStep, Zenon
  <2>3. CASE \E nd \in BOOLEAN : CommitTransaction(nd)
    BY <2>3, CommitTransactionStep, Zenon
  <2>4. CASE FlushLog \/ ForceLog
    BY <2>4, FlushSteps, Zenon
  <2>5. CASE StopLog
    BY <2>5, StopLogStep, Zenon
  <2> QED
    BY <1>1, <2>1, <2>2, <2>3, <2>4, <2>5, Zenon DEF Client
<1>2. CASE AppendLogDone
  BY <1>2, AppendLogDoneStep, Zenon
<1>3. CASE CommitRecord
  BY <1>3, CommitRecordStep, Zenon
<1>4. CASE CommitDone
  BY <1>4, CommitDoneStep, Zenon
<1>5. CASE Crash
  BY <1>5, CrashStep, Zenon DEF Crash
<1>6. CASE Load
  BY <1>6, RestartStep, LoadRecordStep, LoadCommitStep, LoadFatalStep, LoadDoneStep, Zenon DEF Load
<1>7. CASE Trunc
  <2>1. CASE TruncNoHistory \/ TruncNoTmp \/ TruncRenameFails
    BY <2>1, TruncFailures, Zenon
  <2>2. CASE TruncStart
    BY <2>2, TruncStartStep, Zenon
  <2>3. CASE \E k \in Keys : DumpAd(k)
    BY <2>3, DumpAdStep, Zenon
  <2>4. CASE \E n \in Names : DumpAttribute(n)
    BY <2>4, DumpAttributeStep, Zenon
  <2>5. CASE TruncRename
    BY <2>5, TruncRenameStep, Zenon
  <2>6. CASE TruncRenameUnsynced \/ \E n \in 0..Len(tr.tmp) : TruncRenamePartial(n)
    BY <2>6, Zenon DEF ReliableFiles, TruncRenameUnsynced, TruncRenamePartial
  <2> QED
    BY <1>7, <2>1, <2>2, <2>3, <2>4, <2>5, <2>6, Zenon DEF Trunc
<1>8. CASE UNCHANGED vars
  BY <1>8, StutterStep, Zenon
<1> QED
  BY <1>1, <1>2, <1>3, <1>4, <1>5, <1>6, <1>7, <1>8, Zenon DEF Next

(* The description above of how table, transaction and file hang together
   holds at every step of AppendLog, Commit, LoadClassAdLog and TruncLog. *)
THEOREM Invariance ==
  ASSUME ReliableFiles
  PROVE  Spec => []IInv
<1>1. Init => IInv
  BY InitInv, Zenon
<1>2. IInv /\ [Next]_vars => IInv'
  BY NextStep, Zenon
<1> QED
  BY <1>1, <1>2, PTL DEF Spec

(* The table in use is the one the log file stands for. *)
THEOREM TableIsLogged ==
  ASSUME ReliableFiles
  PROVE  Spec => []LogMatchesTable
<1>1. IInv => LogMatchesTable
  BY Zenon DEF IInv, InUse, LogMatchesTable
<1> QED
  BY <1>1, Invariance, PTL

(* A log in use consists of whole lines and complete transactions. *)
THEOREM LogIsWellFormed ==
  ASSUME ReliableFiles
  PROVE  Spec => []OpenLogIsWellFormed
<1>1. IInv => OpenLogIsWellFormed
  BY DEF IInv, InUse, Sound, Resting, TypeOK, OpenLogIsWellFormed, Readable
<1> QED
  BY <1>1, Invariance, PTL

(* InstantiateLogEntry never gives up on a log that this code has written. *)
THEOREM RecoveryNotFatal ==
  ASSUME ReliableFiles
  PROVE  Spec => []RecoveryIsNeverFatal
<1>1. IInv => RecoveryIsNeverFatal
  <2> SUFFICES ASSUME IInv, pc = "load", ~Readable(ld.pos + 1), ld.pos < Len(file)
               PROVE  ~InsideClosedTransaction(ld.pos + 1)
    BY Zenon DEF RecoveryIsNeverFatal
  <2>1. ld.pos \in Nat /\ Len(file) \in Nat /\ unended = 0
    BY DEF IInv, TypeOK, Resting
  <2>2. glued # 0
    BY <2>1 DEF Readable
  <2>3. \A i \in 1..Len(file) : file[i].op = "Seq"
    BY <2>2, Zenon DEF IInv, Glued
  <2> QED
    BY <2>1, <2>3 DEF InsideClosedTransaction
<1> QED
  BY <1>1, Invariance, PTL

-----------------------------------------------------------------------------
(* The historical logs. *)

(* The numbers of the historical logs up to last that are still kept. *)
Window(last) == {n \in 1..last : n > last - MaxHist}

(* c is the sequence number of the log file: of its header if it has one, which
   is synced unless c is 1, the number of a log that has none.  The daemon has
   read it, and the historical logs reach up to c or the number before. *)
Numbered(c) ==
  /\ \A i \in 1..Len(file) : file[i].op = "Seq" => file[i].seq = c
  /\ c # 1 => Len(file) >= 1 /\ file[1].op = "Seq" /\ synced >= 1 /\ glued = 0
  /\ pc \in {"rotate", "trunc", "ready", "append", "commit"} => seq = c
  /\ pc \in {"load", "loadcommit"} => seq = c \/ (seq = 1 /\ ld.pos = 0)
  /\ MaxHist > 0 => hist = Window(c) \/ (hist = Window(c - 1) /\ pc # "trunc")
  /\ pc = "trunc" => /\ Len(tr.tmp) >= 1 /\ tr.tmp[1] = SeqRecord(c + 1)
                     /\ \A i \in 2..Len(tr.tmp) : tr.tmp[i].op # "Seq"

(* What the daemon numbers its logs by is in the file. *)
HistInv == \E c \in Nat \ {0} : Numbered(c)
(* The first log has number 1 and no history. *)
LEMMA InitNumbered == Init => HistInv
<1> SUFFICES ASSUME Init PROVE HistInv
  BY Zenon
<1>1. Window(0) = {}
  BY DEF Window
<1>2. Numbered(1)
  BY <1>1 DEF Init, Numbered
<1> QED
  BY <1>2 DEF HistInv

(* A step keeps the number when what it appends is not another header and what
   it saves is the window of that number. *)
LEMMA NumberedStep ==
  ASSUME TypeOK, NEW c \in Nat \ {0}, Numbered(c),
         file' = file \/ \E r \in Records : file' = Append(file, r) /\ (r.op = "Seq" => r.seq = c),
         synced' = synced \/ synced' = Len(file),
         c # 1 => glued' = 0,
         MaxHist > 0 => hist' = Window(c) \/ hist' = Window(c - 1),
         pc' # "trunc",
         pc' \in {"rotate", "ready", "append", "commit"} => seq' = c,
         pc' \in {"load", "loadcommit"} => seq' = c \/ (seq' = 1 /\ ld'.pos = 0)
  PROVE  HistInv'
<1>1. /\ Len(file) \in Nat /\ file \in Seq(Records)
      /\ \A i \in 1..Len(file) : file[i].op = "Seq" => file[i].seq = c
      /\ c # 1 => Len(file) >= 1 /\ file[1].op = "Seq" /\ synced >= 1
  BY DEF TypeOK, Numbered
<1>2. /\ Len(file') >= Len(file) /\ Len(file') \in Nat
      /\ \A i \in 1..Len(file) : file'[i] = file[i]
      /\ \A i \in 1..Len(file') : file'[i].op = "Seq" => file'[i].seq = c
  <2>1. CASE file' = file
    BY <1>1, <2>1
  <2>2. ASSUME NEW r \in Records, file' = Append(file, r), r.op = "Seq" => r.seq = c
        PROVE  /\ Len(file') >= Len(file) /\ Len(file') \in Nat
               /\ \A i \in 1..Len(file) : file'[i] = file[i]
               /\ \A i \in 1..Len(file') : file'[i].op = "Seq" => file'[i].seq = c
    <3>1. /\ Len(file') = Len(file) + 1 /\ file'[Len(file) + 1] = r
          /\ \A i \in 1..Len(file) : file'[i] = file[i]
      BY <1>1, <2>2
    <3>2. \A i \in 1..Len(file') : i \in 1..Len(file) \/ i = Len(file) + 1
      BY <1>1, <3>1
    <3> QED
      BY <1>1, <2>2, <3>1, <3>2
  <2> QED
    BY <2>1, <2>2, Zenon
<1>3. c # 1 => Len(file') >= 1 /\ file'[1].op = "Seq" /\ synced' >= 1
  BY <1>1, <1>2
<1>4. Numbered(c)'
  BY <1>2, <1>3, Zenon DEF Numbered, Window
<1> QED
  BY <1>4, Zenon DEF HistInv

(* Transactions, appends and syncs write no header and save no history. *)
LEMMA RunningSteps ==
  ASSUME IInv, HistInv,
         \/ Client
         \/ AppendLogDone \/ CommitRecord \/ CommitDone
         \/ UNCHANGED vars
  PROVE  HistInv'
<1> PICK c \in Nat \ {0} : Numbered(c)
  BY Zenon DEF HistInv
<1>1. TypeOK
  BY Zenon DEF IInv
<1>2. /\ MaxHist > 0 => hist = Window(c) \/ hist = Window(c - 1)
      /\ c # 1 => glued = 0
      /\ pc \in {"ready", "append", "commit"} => seq = c
  BY Zenon DEF Numbered
<1>3. ASSUME UNCHANGED <<file, glued, hist, seq>>, synced' = synced \/ synced' = Len(file),
             pc \in {"ready", "append", "commit"}, pc' \in {"ready", "append", "commit"}
      PROVE  HistInv'
  BY <1>1, <1>2, <1>3, NumberedStep, Zenon
<1>4. ASSUME NEW r \in Records, r.op # "Seq", Write(r), UNCHANGED <<synced, hist, seq>>, ~torn,
             pc \in {"ready", "append", "commit"}, pc' \in {"ready", "append", "commit"}
      PROVE  HistInv'
  <2>1. file' = Append(file, r) /\ glued' = glued
    BY <1>4, Zenon DEF Write
  <2> QED
    BY <1>1, <1>2, <1>4, <2>1, NumberedStep, Zenon
<1>5. CASE BeginTransaction \/ AbortTransaction \/ GetActiveTransaction \/ SetActiveTransaction
  BY <1>3, <1>5, Zenon DEF BeginTransaction, AbortTransaction, GetActiveTransaction,
                    SetActiveTransaction, disk
<1>6. ASSUME NEW r \in Appends, AppendToTransaction(r)
      PROVE  HistInv'
  BY <1>3, <1>6, Zenon DEF AppendToTransaction, disk
<1>7. ASSUME NEW r \in Appends, NEW nd \in BOOLEAN, AppendLog(r, nd)
      PROVE  HistInv'
  <2>1. r \in Records /\ r.op # "Seq"
    BY AppendsAssumption, RecordTypes, OpsFacts, Zenon DEF OpNames
  <2>2. ~torn
    BY <1>7, Zenon DEF AppendLog, IInv, InUse, Sound
  <2> QED
    BY <1>4, <1>7, <2>1, <2>2, Zenon DEF AppendLog
<1>8. ASSUME NEW nd \in BOOLEAN, CommitTransaction(nd)
      PROVE  HistInv'
  <2>1. UNCHANGED <<file, glued, hist, seq, synced>> /\ pc = "ready" /\ pc' \in {"ready", "commit"}
    BY <1>8, Zenon DEF CommitTransaction, disk
  <2> QED
    BY <1>3, <2>1, Zenon
<1>9. CASE FlushLog \/ ForceLog
  BY <1>3, <1>9, Zenon DEF FlushLog, ForceLog, Sync
<1>10. CASE StopLog
  <2>1. UNCHANGED <<file, glued, hist, synced>> /\ pc' = "down"
    BY <1>10, Zenon DEF StopLog, Halt
  <2> QED
    BY <1>1, <1>2, <2>1, NumberedStep, Zenon
<1>11. CASE AppendLogDone
  BY <1>3, <1>11, Zenon DEF AppendLogDone, Sync
<1>12. CASE CommitRecord
  <2>1. txn \in Seq(Records) /\ cm.i \in 1..Len(txn) /\ ~torn
    <3>1. pc = "commit" /\ cm.i <= Len(txn)
      BY <1>12, Zenon DEF CommitRecord
    <3>2. txn \in Txns
      BY Zenon DEF IInv, TypeOK
    <3>3. txn \in Seq(Records) /\ cm.i \in 1..(Len(txn) + 1) /\ ~torn
      BY <3>1, <3>2, Zenon DEF IInv, Committing, Txns
    <3>4. Len(txn) \in Nat
      BY <3>3, LenIsNat, Zenon
    <3>5. cm.i \in 1..Len(txn)
      BY <3>1, <3>3, <3>4
    <3> QED
      BY <3>3, <3>5, Zenon
  <2>2. txn[cm.i] \in Ops \cup {Begin, End}
    BY <1>12, <2>1 DEF CommitRecord, IInv, Committing
  <2>3. txn[cm.i] \in Records /\ txn[cm.i].op # "Seq"
    BY <2>2, RecordTypes, OpsFacts DEF OpNames, Begin, End
  <2>4. Write(txn[cm.i]) /\ UNCHANGED <<synced, hist, seq>> /\ pc = "commit" /\ pc' = "commit"
    BY <1>12, Zenon DEF CommitRecord
  <2> QED
    BY <1>4, <2>1, <2>3, <2>4, Zenon
<1>13. CASE CommitDone
  BY <1>3, <1>13, Zenon DEF CommitDone, Sync
<1>14. CASE UNCHANGED vars
  <2>1. UNCHANGED <<file, synced, glued, hist, seq, pc, ld, tr>>
    BY <1>14, Zenon DEF vars, disk
  <2>2. Numbered(c)'
    BY <2>1, Zenon DEF Numbered, Window
  <2> QED
    BY <2>2, Zenon DEF HistInv
<1> QED
  BY <1>5, <1>6, <1>7, <1>8, <1>9, <1>10, <1>11, <1>12, <1>13, <1>14, Zenon DEF Client

(* A crash keeps the header of a log that has been rotated, because TruncLog syncs
   the new file before it renames it. *)
LEMMA CrashNumbered ==
  ASSUME IInv, HistInv, ReliableFiles, Crash
  PROVE  HistInv'
<1> PICK c \in Nat \ {0} : Numbered(c)
  BY Zenon DEF HistInv
<1> PICK n \in 0..Len(file), fragment \in BOOLEAN, optional \in BOOLEAN :
         ProcessCrash(n, fragment, optional) \/ MachineCrash(n, fragment, optional)
  BY Zenon DEF Crash
<1>1. /\ Len(file) \in Nat /\ file \in Seq(Records) /\ synced \in Nat /\ flushed \in Nat
      /\ synced <= flushed
      /\ \A i \in 1..Len(file) : file[i].op = "Seq" => file[i].seq = c
      /\ c # 1 => Len(file) >= 1 /\ file[1].op = "Seq" /\ synced >= 1 /\ glued = 0
      /\ MaxHist > 0 => hist = Window(c) \/ hist = Window(c - 1)
  <2>1. file \in Seq(Records) /\ synced \in 0..flushed /\ flushed \in 0..Len(file)
    BY Zenon DEF IInv, TypeOK
  <2>2. Len(file) \in Nat
    BY <2>1, LenIsNat, Zenon
  <2>3. synced \in Nat /\ flushed \in Nat /\ synced <= flushed
    BY <2>1, <2>2
  <2>4. MaxHist > 0 => hist = Window(c) \/ hist = Window(c - 1)
    BY Zenon DEF Numbered
  <2> QED
    BY <2>1, <2>2, <2>3, <2>4, Zenon DEF Numbered
<1>2. Cut(n, fragment, optional) /\ hist' = hist /\ pc' = "down"
  BY Zenon DEF ProcessCrash, MachineCrash, Halt
<1>3. ~optional /\ file' = SubSeq(file, 1, n) /\ (glued' = glued \/ glued' = 0)
  BY <1>2, Zenon DEF Cut, ReliableFiles
<1>4. n >= synced /\ (synced' = synced \/ synced' = n)
  <2>1. synced' = synced \/ synced' = n
    BY <1>3, Zenon DEF ProcessCrash, MachineCrash
  <2>2. n >= flushed \/ n >= synced
    BY Zenon DEF ProcessCrash, MachineCrash
  <2>3. synced \in Nat /\ flushed \in Nat /\ synced <= flushed /\ n \in Int
    <3>1. Len(file) \in Nat
      BY <1>1, Zenon
    <3>2. n \in Int
      BY <3>1
    <3> QED
      BY <1>1, <3>2, Zenon
  <2>4. n >= synced
    BY <2>2, <2>3
  <2> QED
    BY <2>1, <2>4, Zenon
<1>5. Len(file') = n /\ n \in Nat /\ \A i \in 1..n : file'[i] = file[i] /\ i \in 1..Len(file)
  BY <1>1, <1>3
<1>6. c # 1 => Len(file') >= 1 /\ file'[1].op = "Seq" /\ synced' >= 1 /\ glued' = 0
  <2> SUFFICES ASSUME c # 1
               PROVE  Len(file') >= 1 /\ file'[1].op = "Seq" /\ synced' >= 1 /\ glued' = 0
    BY Zenon
  <2>1. synced >= 1 /\ file[1].op = "Seq" /\ glued' = 0
    BY <1>1, <1>3, Zenon
  <2>2. n \in Nat /\ synced \in Nat /\ n >= synced /\ (synced' = synced \/ synced' = n)
    BY <1>1, <1>4, <1>5, Zenon
  <2>3. n >= 1 /\ synced' >= 1 /\ 1 \in 1..n
    BY <2>1, <2>2
  <2> QED
    BY <1>5, <2>1, <2>3, Zenon
<1>7. \A i \in 1..Len(file') : file'[i].op = "Seq" => file'[i].seq = c
  BY <1>1, <1>5, Zenon
<1>8. Numbered(c)'
  BY <1>1, <1>2, <1>6, <1>7, Zenon DEF Numbered, Window
<1> QED
  BY <1>8, Zenon DEF HistInv

(* LoadClassAdLog finds the number again, and InitLogFile writes the header that
   a log without one lacks. *)
LEMMA LoadNumbered ==
  ASSUME IInv, HistInv, Load
  PROVE  HistInv'
<1> PICK c \in Nat \ {0} : Numbered(c)
  BY Zenon DEF HistInv
<1>1. TypeOK
  BY Zenon DEF IInv
<1>2. /\ MaxHist > 0 => hist = Window(c) \/ hist = Window(c - 1)
      /\ c # 1 => glued = 0
      /\ pc \in {"load", "loadcommit"} => seq = c \/ (seq = 1 /\ ld.pos = 0)
  BY Zenon DEF Numbered
<1>3. CASE Restart
  <2>1. /\ UNCHANGED <<file, synced, glued, hist, ld>> /\ pc = "down" /\ pc' = "load" /\ seq' = 1
    BY <1>3, Zenon DEF Restart, disk
  <2>2. ld'.pos = 0
    BY <2>1 DEF IInv, Resting, NoLoad
  <2> QED
    BY <1>1, <1>2, <2>1, <2>2, NumberedStep, Zenon
<1>4. CASE LoadRecord
  <2>1. /\ UNCHANGED <<file, synced, glued, hist>> /\ pc = "load" /\ pc' \in {"load", "loadcommit"}
        /\ ld.pos + 1 \in 1..Len(file) /\ ld.pos \in Nat
    BY <1>1, <1>4 DEF LoadRecord, disk, Readable, TypeOK
  <2>2. seq' = IF file[ld.pos + 1].op = "Seq" THEN file[ld.pos + 1].seq ELSE seq
    <3>1. file[ld.pos + 1] \in Records
      BY <1>1, <2>1 DEF TypeOK
    <3> QED
      BY <1>4, <3>1, RecordFacts, Zenon DEF LoadRecord, OpNames
  <2>3. seq' = c
    <3>1. CASE file[ld.pos + 1].op = "Seq"
      BY <2>1, <2>2, <3>1, Zenon DEF Numbered
    <3>2. CASE file[ld.pos + 1].op # "Seq"
      <4>1. c # 1 => ld.pos # 0
        BY <3>2 DEF Numbered
      <4> QED
        BY <1>2, <2>1, <2>2, <3>2, <4>1, Zenon
    <3> QED
      BY <3>1, <3>2, Zenon
  <2> QED
    BY <1>1, <1>2, <2>1, <2>3, NumberedStep, Zenon
<1>5. CASE LoadCommit
  <2>1. /\ UNCHANGED <<file, synced, glued, hist, seq>> /\ pc = "loadcommit"
        /\ pc' \in {"load", "loadcommit"}
    BY <1>5, Zenon DEF LoadCommit, disk
  <2>2. ld.pos # 0
    <3>1. ld.pos >= 1
      BY <2>1, Zenon DEF IInv, Replaying
    <3> QED BY <3>1
  <2>3. seq' = c
    BY <1>2, <2>1, <2>2, Zenon
  <2> QED
    BY <1>1, <1>2, <2>1, <2>3, NumberedStep, Zenon
<1>6. CASE LoadFatal
  <2>1. UNCHANGED <<file, synced, glued, hist>> /\ pc' = "down"
    BY <1>6, Zenon DEF LoadFatal, Halt, disk
  <2> QED
    BY <1>1, <1>2, <2>1, NumberedStep, Zenon
<1>7. CASE LoadDone
  <2>1. /\ pc = "load" /\ ~Readable(ld.pos + 1) /\ UNCHANGED <<hist, seq, synced>>
        /\ pc' \in {"rotate", "ready"}
    BY <1>7, Zenon DEF LoadDone, disk
  <2>2. ld.pos = 0 => c = 1
    <3> SUFFICES ASSUME c # 1, ld.pos = 0 PROVE FALSE
      BY Zenon
    <3>1. Len(file) >= 1 /\ Len(file) \in Nat /\ glued = 0 /\ unended = 0
      <4>1. file \in Seq(Records)
        BY <1>1, Zenon DEF TypeOK
      <4>2. Len(file) >= 1 /\ glued = 0 /\ unended = 0
        BY <1>1, Zenon DEF Numbered, IInv, Resting
      <4> QED
        BY <4>1, <4>2, LenIsNat, Zenon
    <3> QED
      BY <2>1, <3>1 DEF Readable
  <2>3. seq = c
    BY <1>2, <2>1, <2>2, Zenon
  <2>4. CASE ld.pos = 0 /\ Len(file) < MaxLog
    <3>1. file' = Append(file, SeqRecord(c))
      BY <1>7, <2>3, <2>4, Zenon DEF LoadDone, Write
    <3>2. SeqRecord(c) \in Records /\ SeqRecord(c).seq = c
      BY RecordTypes, Zenon DEF SeqRecord
    <3> QED
      BY <1>1, <1>2, <2>1, <2>2, <2>3, <2>4, <3>1, <3>2, NumberedStep, Zenon
  <2>5. CASE ~(ld.pos = 0 /\ Len(file) < MaxLog)
    <3>1. UNCHANGED <<file, glued>>
      BY <1>7, <2>5, Zenon DEF LoadDone, disk
    <3> QED
      BY <1>1, <1>2, <2>1, <2>3, <3>1, NumberedStep, Zenon
  <2> QED
    BY <2>4, <2>5, Zenon
<1> QED
  BY <1>3, <1>4, <1>5, <1>6, <1>7, Zenon DEF Load

(* SaveHistoricalClassAdLogs moves the window by one, also when an interrupted
   rotation has done so before. *)
LEMMA WindowMoves ==
  ASSUME MaxHist > 0, NEW c \in Nat \ {0}, hist = Window(c) \/ hist = Window(c - 1), seq = c
  PROVE  SaveHistoricalLogs = Window(c)
<1>1. SaveHistoricalLogs = (hist \cup {c}) \ {c - MaxHist} /\ MaxHist \in Nat
  BY BoundAssumption DEF SaveHistoricalLogs
<1>2. \A n : n \in Window(c) <=> n \in (hist \cup {c}) \ {c - MaxHist}
  <2>1. CASE hist = Window(c)
    BY <1>1, <2>1 DEF Window
  <2>2. CASE hist = Window(c - 1)
    BY <1>1, <2>2 DEF Window
  <2> QED
    BY <2>1, <2>2, Zenon
<1> QED
  BY <1>1, <1>2, Zenon

(* A rotation gives the log the next number, whether it succeeds, fails or was
   interrupted before. *)
LEMMA TruncNumbered ==
  ASSUME IInv, HistInv, ReliableFiles, Trunc
  PROVE  HistInv'
<1> PICK c \in Nat \ {0} : Numbered(c)
  BY Zenon DEF HistInv
<1>1. TypeOK
  BY Zenon DEF IInv
<1>2. /\ MaxHist > 0 => hist = Window(c) \/ hist = Window(c - 1)
      /\ c # 1 => glued = 0
      /\ pc \in {"rotate", "ready", "trunc"} => seq = c
  BY Zenon DEF Numbered
<1>3. ASSUME NEW f, TruncFailed(f), UNCHANGED <<file, synced, glued>>,
             hist' = hist \/ hist' = SaveHistoricalLogs, seq = c
      PROVE  HistInv'
  <2>1. pc' = "down" \/ (pc' = "ready" /\ seq' = c)
    BY <1>3, Zenon DEF TruncFailed, Halt
  <2>2. MaxHist > 0 => hist' = Window(c) \/ hist' = Window(c - 1)
    BY <1>2, <1>3, WindowMoves, Zenon
  <2> QED
    BY <1>1, <1>2, <1>3, <2>1, <2>2, NumberedStep, Zenon
<1>4. CASE TruncNoHistory \/ TruncNoTmp
  <2>1. TruncRequested /\ TruncFailed(flushed) /\ UNCHANGED <<file, synced, glued>>
    BY <1>4, Zenon DEF TruncNoHistory, TruncNoTmp
  <2>2. hist' = hist \/ hist' = SaveHistoricalLogs
    BY <1>4, Zenon DEF TruncNoHistory, TruncNoTmp
  <2>3. seq = c
    BY <1>2, <2>1, Zenon DEF TruncRequested
  <2> QED
    BY <1>3, <2>1, <2>2, <2>3, Zenon
<1>5. CASE TruncRenameFails
  <2>1. TruncFailed(Len(file)) /\ UNCHANGED <<file, synced, glued, hist>> /\ pc = "trunc"
    BY <1>5, Zenon DEF TruncRenameFails, DumpDone
  <2> QED
    BY <1>2, <1>3, <2>1, Zenon
<1>6. CASE TruncStart
  <2>1. /\ hist' = SaveHistoricalLogs /\ pc' = "trunc" /\ TruncRequested
        /\ UNCHANGED <<file, synced, glued, seq>>
        /\ tr'.tmp = <<SeqRecord(seq + 1)>>
    BY <1>6, Zenon DEF TruncStart, disk
  <2>2. seq = c
    BY <1>2, <2>1, Zenon DEF TruncRequested
  <2>3. MaxHist > 0 => hist' = Window(c)
    BY <1>2, <2>1, <2>2, WindowMoves, Zenon
  <2>4. Numbered(c)'
    BY <2>1, <2>2, <2>3 DEF Numbered, Window
  <2> QED
    BY <2>4, Zenon DEF HistInv
<1>7. ASSUME pc = "trunc", NEW r, r.op # "Seq", NEW rest, rest.tmp = tr.tmp, DumpRecord(r, rest),
             tr'.tmp = Append(tr.tmp, r)
      PROVE  HistInv'
  <2>1. UNCHANGED <<file, synced, glued, hist, seq, pc>>
    BY <1>7, Zenon DEF DumpRecord, disk
  <2>2. /\ Len(tr.tmp) >= 1 /\ tr.tmp[1] = SeqRecord(c + 1)
        /\ \A i \in 2..Len(tr.tmp) : tr.tmp[i].op # "Seq"
        /\ Len(tr.tmp) \in Nat /\ tr.tmp \in Seq(Records)
    <3>1. tr.tmp \in Seq(Records)
      BY <1>1, Zenon DEF TypeOK
    <3> QED
      BY <1>1, <1>7, <3>1, LenIsNat, Zenon DEF Numbered
  <2> DEFINE t == tr.tmp
             t2 == Append(t, r)
  <2>3. /\ Len(t2) = Len(t) + 1 /\ t2[Len(t) + 1] = r
        /\ \A i \in 1..Len(t) : t2[i] = t[i]
    BY <2>2
  <2>4. \A i \in 2..Len(t2) : i \in 2..Len(t) \/ i = Len(t) + 1
    <3>1. Len(t) \in Nat /\ Len(t2) = Len(t) + 1
      BY <2>2, <2>3, Zenon
    <3> HIDE DEF t, t2
    <3> QED
      BY <3>1
  <2>5. Len(t2) >= 1 /\ t2[1] = SeqRecord(c + 1) /\ \A i \in 2..Len(t2) : t2[i].op # "Seq"
    <3> HIDE DEF t, t2
    <3>1. /\ Len(t) >= 1 /\ t[1] = SeqRecord(c + 1)
          /\ \A i \in 2..Len(t) : t[i].op # "Seq"
          /\ Len(t) \in Nat
      BY <2>2, Zenon DEF t
    <3>2. Len(t2) >= 1 /\ 1 \in 1..Len(t)
      <4>1. Len(t) \in Nat /\ Len(t) >= 1 /\ Len(t2) = Len(t) + 1
        BY <2>3, <3>1, Zenon
      <4> QED
        BY <4>1
    <3>3. ASSUME NEW i \in 2..Len(t2) PROVE t2[i].op # "Seq"
      <4>1. CASE i = Len(t) + 1
        BY <1>7, <2>3, <4>1, Zenon
      <4>2. CASE i \in 2..Len(t)
        <5>1. i \in 1..Len(t)
          <6>1. Len(t) \in Nat
            BY <3>1, Zenon
          <6> QED
            BY <4>2, <6>1
        <5> QED
          BY <2>3, <3>1, <4>2, <5>1, Zenon
      <4> QED
        BY <2>4, <4>1, <4>2, Zenon
    <3> QED
      BY <2>3, <3>1, <3>2, <3>3, Zenon
  <2> HIDE DEF t, t2
  <2>6. tr'.tmp = t2
    BY <1>7, Zenon DEF t, t2
  <2>7. Numbered(c)'
    BY <1>7, <2>1, <2>5, <2>6, Zenon DEF Numbered, Window
  <2> QED
    BY <2>7, Zenon DEF HistInv
<1>8. tr \in DumpTypes
  BY <1>1, Zenon DEF TypeOK, DumpTypes
<1>9. ASSUME NEW k \in Keys, DumpAd(k)
      PROVE  HistInv'
  <2> DEFINE r == [op |-> "New", key |-> k]
             rest == [tr EXCEPT !.keys = @ \ {k}, !.key = k,
                                !.names = {n \in Names : table[k][n] # Unset}]
  <2>1. DumpRecord(r, rest) /\ pc = "trunc"
    BY <1>9, Zenon DEF DumpAd
  <2>2. rest.tmp = tr.tmp /\ r.op # "Seq" /\ rest \in DumpTypes
    BY <1>8, Zenon DEF DumpTypes
  <2> HIDE DEF r, rest
  <2>3. tr'.tmp = Append(tr.tmp, r)
    BY <2>1, <2>2, Zenon DEF DumpRecord, DumpTypes
  <2> QED
    BY <1>7, <2>1, <2>2, <2>3, Zenon
<1>10. ASSUME NEW n \in Names, DumpAttribute(n)
      PROVE  HistInv'
  <2> DEFINE r == [op |-> "Set", key |-> tr.key, name |-> n, val |-> table[tr.key][n]]
             rest == [tr EXCEPT !.names = @ \ {n}]
  <2>1. DumpRecord(r, rest) /\ pc = "trunc"
    BY <1>10, Zenon DEF DumpAttribute
  <2>2. rest.tmp = tr.tmp /\ r.op # "Seq" /\ rest \in DumpTypes
    BY <1>8, Zenon DEF DumpTypes
  <2> HIDE DEF r, rest
  <2>3. tr'.tmp = Append(tr.tmp, r)
    BY <2>1, <2>2, Zenon DEF DumpRecord, DumpTypes
  <2> QED
    BY <1>7, <2>1, <2>2, <2>3, Zenon
<1>11. CASE TruncRename
  <2>1. /\ pc = "trunc" /\ pc' = "ready" /\ file' = tr.tmp /\ synced' = Len(tr.tmp)
        /\ glued' = 0 /\ seq' = seq + 1 /\ hist' = hist
    BY <1>11, Zenon DEF TruncRename, DumpDone
  <2>2. /\ Len(tr.tmp) >= 1 /\ tr.tmp[1] = SeqRecord(c + 1)
        /\ \A i \in 2..Len(tr.tmp) : tr.tmp[i].op # "Seq"
        /\ Len(tr.tmp) \in Nat
        /\ MaxHist > 0 => hist = Window(c)
    BY <1>1, <2>1 DEF Numbered, TypeOK
  <2>3. SeqRecord(c + 1).op = "Seq" /\ SeqRecord(c + 1).seq = c + 1
    BY Zenon DEF SeqRecord
  <2>4. /\ Len(file') >= 1 /\ file'[1].op = "Seq" /\ synced' >= 1
        /\ \A i \in 1..Len(file') : file'[i].op = "Seq" => file'[i].seq = c + 1
    BY <2>1, <2>2, <2>3
  <2>5. MaxHist > 0 => hist' = Window((c + 1) - 1)
    BY <2>1, <2>2
  <2>6. Numbered(c + 1)'
    BY <1>2, <2>1, <2>4, <2>5, Zenon DEF Numbered, Window
  <2> QED
    BY <2>6 DEF HistInv
<1> QED
  BY <1>4, <1>5, <1>6, <1>9, <1>10, <1>11, Zenon
  DEF Trunc, ReliableFiles, TruncRenameUnsynced, TruncRenamePartial

(* The historical logs next to a log in use lie in a window of
   max_historical_logs numbers without a gap, after any crashes, recoveries and
   failed rotations (SaveHistoricalClassAdLogs, LoadClassAdLog). *)
THEOREM HistoryIsKept ==
  ASSUME ReliableFiles
  PROVE  Spec => []HistoryWindow
<1>1. IInv /\ HistInv /\ [Next]_vars => HistInv'
  BY RunningSteps, CrashNumbered, LoadNumbered, TruncNumbered, Zenon DEF Next
<1>2. HistInv => HistoryWindow
  BY Zenon DEF HistInv, Numbered, HistoryWindow, Window
<1> QED
  BY <1>1, <1>2, InitNumbered, Invariance, PTL DEF Spec

-----------------------------------------------------------------------------
(* The refinement *)

Cur == G(Len(file)).com
Shown == {G(i).com : i \in flushed..Len(file)}
Safe == {G(i).com : i \in synced..Len(file)}

(* Nothing is acknowledged while the record that completes a change waits to
   be forced to the disk. *)
Pending ==
  /\ pc = "append" => ~acked
  /\ pc = "commit" /\ cm.i > Len(txn) => ~acked

-----------------------------------------------------------------------------
(* The steps of the store, in terms of the log. *)

(* Initial states map to initial states of the store. *)
LEMMA AsInit == Init => Store!SInit
<1> SUFFICES ASSUME Init PROVE Store!SInit
  BY Zenon
<1>1. Len(file) = 0 /\ flushed = 0 /\ synced = 0 /\ acked = FALSE
  BY Zenon DEF Init
<1>2. G(0).com = EmptyTable
  BY Zenon DEF G, At, GhostInit
<1>3. Shown = {EmptyTable} /\ Safe = {EmptyTable} /\ Cur = EmptyTable
  BY <1>1, <1>2 DEF Shown, Safe, Cur
<1> QED
  BY <1>1, <1>3, Zenon DEF Store!SInit, Shown, Safe, Cur

(* The sufficient condition for a step to be a Change of the store. *)
LEMMA AsChange ==
  ASSUME Cur' \in Tables, Shown' = Shown \cup {Cur'}, Safe' = Safe \cup {Cur'}, acked' = FALSE
  PROVE  Store!SNext
BY Zenon DEF Store!SNext, Store!Change, Shown, Safe, Cur

(* The sufficient condition for a step to be an Acknowledge of the store. *)
LEMMA AsAcknowledge ==
  ASSUME acked' = TRUE, Shown' = {Cur}, Safe' = {Cur}, Cur' = Cur
  PROVE  Store!SNext
BY Zenon DEF Store!SNext, Store!Acknowledge, Shown, Safe, Cur

(* The sufficient condition for a step to be a Settle of the store. *)
LEMMA AsSettle ==
  ASSUME Shown' \subseteq Shown, Safe' \subseteq Safe, Shown' \subseteq Safe', Cur \in Shown',
         Cur' = Cur, acked' = acked
  PROVE  Store!SNext
BY Zenon DEF Store!SNext, Store!Settle, Shown, Safe, Cur

(* The sufficient condition for a step to be a ProcessCrash of the store. *)
LEMMA AsProcessCrash ==
  ASSUME Cur' \in Shown, Shown' \subseteq Shown, Safe' \subseteq Safe, Shown' \subseteq Safe',
         Cur' \in Shown', acked' = FALSE
  PROVE  Store!SNext
BY Zenon DEF Store!SNext, Store!ProcessCrash, Shown, Safe, Cur

(* The sufficient condition for a step to be a MachineCrash of the store. *)
LEMMA AsMachineCrash ==
  ASSUME Cur' \in Safe, Shown' = {Cur'}, Safe' = {Cur'}, acked' = FALSE
  PROVE  Store!SNext
BY Zenon DEF Store!SNext, Store!MachineCrash, Shown, Safe, Cur

(* The sufficient condition for a step to leave the store alone. *)
LEMMA AsStutter ==
  ASSUME Cur' = Cur, Shown' = Shown, Safe' = Safe, acked' = acked
  PROVE  UNCHANGED Store!svars
BY Zenon DEF Store!svars, Shown, Safe, Cur

-----------------------------------------------------------------------------
(* What has been flushed and synced are positions of the file. *)
LEMMA Ranges ==
  ASSUME IInv
  PROVE  /\ Len(file) \in Nat /\ flushed \in 0..Len(file) /\ synced \in 0..flushed
         /\ TypeOK /\ IsTrace(file, gh) /\ acked \in BOOLEAN
         /\ Cur \in Shown /\ Cur \in Safe /\ Cur \in Tables
         /\ Shown \subseteq Safe
<1>1. /\ Len(file) \in Nat /\ flushed \in 0..Len(file) /\ synced \in 0..flushed
      /\ TypeOK /\ IsTrace(file, gh) /\ acked \in BOOLEAN
  BY DEF IInv, TypeOK
<1>2. Cur \in Shown /\ Cur \in Safe /\ Shown \subseteq Safe
  BY <1>1 DEF Shown, Safe, Cur
<1>3. G(Len(file)) \in Ghosts
  BY <1>1, GType
<1> QED
  BY <1>1, <1>2, <1>3, Zenon DEF Cur, Ghosts

(* A record that is written becomes one more outcome of a crash. *)
LEMMA Written ==
  ASSUME IInv, NEW r \in Records, MayFollow(G(Len(file)), r), Write(r),
         UNCHANGED <<flushed, synced>>
  PROVE  /\ Cur' = GhostStep(G(Len(file)), r).com
         /\ Cur' \in Tables
         /\ Shown' = Shown \cup {Cur'}
         /\ Safe' = Safe \cup {Cur'}
<1> DEFINE n == Len(file)
           c == GhostStep(G(n), r).com
<1>1. /\ n \in Nat /\ flushed \in 0..n /\ synced \in 0..flushed /\ TypeOK /\ IsTrace(file, gh)
  BY Ranges, Zenon
<1>2. /\ Len(file') = n + 1
      /\ \A i \in 0..n : At(gh', i) = At(gh, i)
      /\ At(gh', n + 1) = GhostStep(G(n), r)
  BY <1>1, WriteStep, Zenon
<1>3. Cur' = c
  BY <1>2, Zenon DEF Cur, G
<1>4. c \in Tables
  <2>1. G(n) \in Ghosts
    BY <1>1, GType
  <2> QED
    BY <2>1, GhostStepType, Zenon DEF Ghosts
<1> HIDE DEF c
<1>5. \A i \in 0..n : At(gh', i).com = G(i).com
  BY <1>2, Zenon DEF G
<1>6. At(gh', n + 1).com = c
  BY <1>2, Zenon DEF c
<1>7. ASSUME NEW a \in 0..n
      PROVE  {At(gh', i).com : i \in a..(n + 1)} = {G(i).com : i \in a..n} \cup {c}
  <2>1. a..(n + 1) = (a..n) \cup {n + 1}
    BY <1>1
  <2>2. a..n \subseteq 0..n
    BY <1>1
  <2>3. {At(gh', i).com : i \in a..(n + 1)} \subseteq {G(i).com : i \in a..n} \cup {c}
    BY <2>1, <2>2, <1>5, <1>6, Zenon
  <2>4. {G(i).com : i \in a..n} \cup {c} \subseteq {At(gh', i).com : i \in a..(n + 1)}
    BY <2>1, <2>2, <1>5, <1>6, Zenon
  <2> QED
    BY <2>3, <2>4, Zenon
<1>8. Shown' = Shown \cup {c}
  BY <1>1, <1>2, <1>7, Zenon DEF Shown, G
<1>9. Safe' = Safe \cup {c}
  <2>1. synced \in 0..n
    BY <1>1
  <2> QED
    BY <2>1, <1>2, <1>7, Zenon DEF Safe, G
<1> QED
  BY <1>3, <1>4, <1>8, <1>9, Zenon DEF c

(* Forcing the log leaves one outcome. *)
LEMMA Forced ==
  ASSUME IInv, Sync, UNCHANGED <<file, gh>>
  PROVE  Cur' = Cur /\ Shown' = {Cur} /\ Safe' = {Cur}
<1>1. Len(file) \in Nat
  BY Ranges, Zenon
<1>2. flushed' = Len(file) /\ synced' = Len(file)
  BY Zenon DEF Sync
<1>3. {G(i).com : i \in Len(file)..Len(file)} = {Cur}
  BY <1>1 DEF Cur
<1> QED
  BY <1>2, <1>3, Zenon DEF Cur, Shown, Safe, G

(* A step that leaves the file alone leaves its outcomes alone. *)
LEMMA Unmoved ==
  ASSUME UNCHANGED <<file, flushed, synced, gh>>
  PROVE  Cur' = Cur /\ Shown' = Shown /\ Safe' = Safe
BY Zenon DEF Cur, Shown, Safe, G

(* Flushing more leaves fewer outcomes. *)
LEMMA Flushed ==
  ASSUME IInv, UNCHANGED <<file, synced, gh>>, flushed' \in flushed..Len(file)
  PROVE  /\ Cur' = Cur /\ Shown' \subseteq Shown /\ Safe' = Safe
         /\ Shown' \subseteq Safe' /\ Cur \in Shown'
<1>1. Len(file) \in Nat /\ flushed \in 0..Len(file) /\ synced \in 0..flushed /\ Cur \in Shown /\ Shown \subseteq Safe
  BY Ranges, Zenon
<1>2. Cur' = Cur /\ Safe' = Safe
  BY Zenon DEF Cur, Safe, G
<1>3. Shown' = {G(i).com : i \in flushed'..Len(file)}
  BY Zenon DEF Shown, G
<1>4. Shown' \subseteq Shown /\ Cur \in Shown'
  <2> DEFINE a == flushed'
             some == {G(i).com : i \in a..Len(file)}
             all == {G(i).com : i \in flushed..Len(file)}
  <2>1. a \in flushed..Len(file)
    BY Zenon
  <2> HIDE DEF a
  <2>2. some \subseteq all /\ G(Len(file)).com \in some
    BY <1>1, <2>1
  <2>3. Shown' = some /\ Shown = all
    BY <1>3, Zenon DEF Shown, a
  <2> QED
    BY <2>2, <2>3, Zenon DEF Cur
<1> QED
  BY <1>1, <1>2, <1>4, Zenon

-----------------------------------------------------------------------------
(* What every step of the log is for the store. *)
Simulated == [Store!SNext]_(Store!svars)

(* A step that leaves the file and the table alone stutters. *)
LEMMA SimulatedStutter ==
  ASSUME UNCHANGED <<file, flushed, synced, gh, acked>>
  PROVE  Simulated
BY Unmoved, AsStutter, Zenon DEF Simulated

(* AppendLog maps to a step of the store. *)
LEMMA AppendLogSim ==
  ASSUME IInv, NEW r \in Appends, NEW nd \in BOOLEAN, AppendLog(r, nd)
  PROVE  Simulated
<1>1. r \in Records /\ r \in Ops
  BY RecordTypes, AppendsAssumption, Zenon
<1>2. r # Begin /\ r # End /\ r.op # "Seq"
  BY <1>1, RecordFacts, OpsFacts, Zenon DEF OpNames, Begin, End
<1>3. MayFollow(G(Len(file)), r)
  BY <1>2, Zenon DEF MayFollow
<1>4. Write(r) /\ UNCHANGED <<flushed, synced>> /\ acked' = FALSE
  BY Zenon DEF AppendLog
<1> QED
  BY <1>1, <1>3, <1>4, Written, AsChange, Zenon DEF Simulated

(* The end of an append or a commit: acknowledged unless it is nondurable. *)
LEMMA EndOfChange ==
  ASSUME IInv, ~acked, UNCHANGED <<file, gh>>, acked' = ~cm.nd,
         IF cm.nd THEN UNCHANGED <<flushed, synced>> ELSE Sync
  PROVE  Simulated
<1>1. acked \in BOOLEAN /\ cm.nd \in BOOLEAN
  BY Zenon DEF IInv, TypeOK
<1>2. CASE cm.nd
  <2>1. acked' = acked
    BY <1>1, <1>2, Zenon
  <2> QED
    BY <1>2, <2>1, SimulatedStutter, Zenon
<1>3. CASE ~cm.nd
  <2>1. acked' = TRUE
    BY <1>1, <1>3, Zenon
  <2>2. Cur' = Cur /\ Shown' = {Cur} /\ Safe' = {Cur}
    BY <1>3, Forced, Zenon
  <2> QED
    BY <2>1, <2>2, AsAcknowledge, Zenon DEF Simulated
<1> QED
  BY <1>2, <1>3, Zenon

(* Transaction::Commit's records map to steps of the store. *)
LEMMA CommitRecordSim ==
  ASSUME IInv, CommitRecord
  PROVE  Simulated
<1> DEFINE r == txn[cm.i]
           n == Len(file)
<1>1. TypeOK /\ IsTrace(file, gh) /\ n \in Nat /\ pc = "commit" /\ acked \in BOOLEAN
  BY SMTT(30) DEF IInv, TypeOK, CommitRecord
<1>2. Write(r) /\ acked' = (acked /\ r # End) /\ UNCHANGED <<flushed, synced>>
  BY Zenon DEF CommitRecord
<1>3. /\ txn # NoTxn
      /\ Len(txn) >= 3
      /\ txn[1] = Begin
      /\ txn[Len(txn)] = End
      /\ \A m \in 2..(Len(txn) - 1) : txn[m] \in Ops
      /\ G(n).open <=> cm.i \in 2..Len(txn)
  BY <1>1, Zenon DEF IInv, Committing
<1>4. txn \in Seq(Records) /\ cm.i \in 1..Len(txn)
  BY <1>1, <1>3 DEF TypeOK, Txns, IInv, Committing, CommitRecord
<1>5. r \in Records
  BY <1>4
<1>6. /\ cm.i = 1 => r = Begin
      /\ cm.i = Len(txn) => r = End
      /\ cm.i # 1 /\ cm.i # Len(txn) => r \in Ops
  BY <1>3, <1>4
<1>7. /\ r \in Ops => r # Begin /\ r # End /\ r.op # "Seq"
      /\ Begin # End /\ Begin.op # "Seq" /\ End.op # "Seq"
  BY <1>5, RecordFacts, OpsFacts, Zenon DEF OpNames, Begin, End
<1> HIDE DEF r
<1>8. MayFollow(G(n), r)
  BY <1>3, <1>4, <1>6, <1>7 DEF MayFollow
<1>9. /\ Cur' = GhostStep(G(n), r).com /\ Cur' \in Tables
      /\ Shown' = Shown \cup {Cur'} /\ Safe' = Safe \cup {Cur'}
  BY <1>2, <1>5, <1>8, Written, Zenon
<1>10. CASE r = End
  <2>1. acked' = FALSE
    BY <1>1, <1>2, <1>10, Zenon
  <2> QED
    BY <1>9, <2>1, AsChange, Zenon DEF Simulated
<1>11. CASE r # End
  <2>1. acked' = acked
    BY <1>1, <1>2, <1>11, Zenon
  <2>2. r = Begin \/ G(n).open
    BY <1>3, <1>4, <1>6
  <2>3. G(n) \in Ghosts
    BY <1>1, GType, SMTT(30)
  <2>4. Cur' = Cur
    BY <1>5, <1>9, <1>11, <2>2, <2>3, GhostStepFields, Zenon DEF Cur
  <2>5. Cur \in Shown /\ Cur \in Safe
    BY Ranges, Zenon
  <2>6. Shown' = Shown /\ Safe' = Safe
    BY <1>9, <2>4, <2>5, Zenon
  <2> QED
    BY <2>1, <2>4, <2>6, AsStutter, Zenon DEF Simulated
<1> QED
  BY <1>10, <1>11, Zenon

(* A crash maps to a crash of the store. *)
LEMMA CrashSim ==
  ASSUME IInv, ReliableFiles, NEW n \in 0..Len(file), NEW fragment \in BOOLEAN,
         NEW optional \in BOOLEAN,
         \/ ProcessCrash(n, fragment, optional)
         \/ MachineCrash(n, fragment, optional)
  PROVE  Simulated
<1>1. /\ Len(file) \in Nat /\ flushed \in 0..Len(file) /\ synced \in 0..flushed
      /\ TypeOK /\ IsTrace(file, gh)
  BY Ranges, Zenon
<1>2. Cut(n, fragment, optional) /\ Halt
  BY Zenon DEF ProcessCrash, MachineCrash
<1>3. optional = FALSE
  BY <1>2, Zenon DEF ReliableFiles, Cut
<1>4. /\ file' = SubSeq(file, 1, n) /\ gh' = SubSeq(gh, 1, n) /\ flushed' = n
      /\ acked' = FALSE
  BY <1>2, <1>3, Zenon DEF Cut, Halt
<1>5. Len(file') = n /\ \A i \in 0..n : At(gh', i) = G(i)
  BY <1>1, <1>4, TraceCut DEF TypeOK, G
<1>6. Cur' = G(n).com
  BY <1>5 DEF Cur, G
<1>7. Shown' = {G(n).com}
  BY <1>4, <1>5 DEF Shown, G
<1>8. CASE ProcessCrash(n, fragment, optional)
  <2>1. n >= flushed /\ synced' = synced
    BY <1>8, Zenon DEF ProcessCrash
  <2>2. G(n).com \in Shown
    BY <1>1, <2>1 DEF Shown
  <2>3. Safe' = {G(i).com : i \in synced..n}
    <3>1. \A i \in synced..n : At(gh', i).com = G(i).com
      BY <1>1, <1>5
    <3> QED
      BY <1>5, <2>1, <3>1, Zenon DEF Safe, G
  <2>4. {G(i).com : i \in synced..n} \subseteq Safe /\ G(n).com \in {G(i).com : i \in synced..n}
    BY <1>1, <2>1 DEF Safe
  <2> QED
    BY <1>4, <1>6, <1>7, <2>2, <2>3, <2>4, AsProcessCrash, Zenon DEF Simulated
<1>9. CASE MachineCrash(n, fragment, optional)
  <2>1. n >= synced /\ synced' = n
    BY <1>3, <1>9, Zenon DEF MachineCrash
  <2>2. G(n).com \in Safe
    BY <1>1, <2>1 DEF Safe
  <2>3. Safe' = {G(n).com}
    BY <1>5, <2>1 DEF Safe, G
  <2> QED
    BY <1>4, <1>6, <1>7, <2>2, <2>3, AsMachineCrash, Zenon DEF Simulated
<1> QED
  BY <1>8, <1>9, Zenon

(* The daemon goes down with the file as it is, flushed on the way or not. *)
LEMMA HaltSim ==
  ASSUME IInv, Halt, UNCHANGED <<file, synced, gh>>, flushed' \in flushed..Len(file)
  PROVE  Simulated
<1>1. acked' = FALSE
  BY Zenon DEF Halt
<1>2. /\ Cur' = Cur /\ Shown' \subseteq Shown /\ Safe' = Safe
      /\ Shown' \subseteq Safe' /\ Cur \in Shown'
  BY Flushed, Zenon
<1>3. Cur \in Shown
  BY Ranges, Zenon
<1> QED
  BY <1>1, <1>2, <1>3, AsProcessCrash, Zenon DEF Simulated

(* The end of a load maps to a step of the store. *)
LEMMA LoadDoneSim ==
  ASSUME IInv, LoadDone
  PROVE  Simulated
<1> DEFINE n == Len(file)
           r == SeqRecord(seq)
<1>1. n \in Nat /\ TypeOK /\ IsTrace(file, gh) /\ acked' = acked /\ seq \in Nat
  BY DEF IInv, TypeOK, LoadDone
<1>2. CASE ld.pos = 0 /\ n < MaxLog
  <2>1. Write(r) /\ UNCHANGED <<flushed, synced>>
    BY <1>2, Zenon DEF LoadDone
  <2>2. r \in Records /\ r.op = "Seq"
    BY <1>1, RecordTypes, Zenon
  <2>3. G(n) = GhostInit
    <3>1. CASE glued = 0
      <4>1. n = 0
        BY <1>1, <1>2, <3>1 DEF LoadDone, Readable, IInv, Resting
      <4> QED
        BY <4>1, Zenon DEF G, At
    <3>2. CASE glued # 0
      BY <1>1, <3>2 DEF IInv, Glued, G, At
    <3> QED
      BY <3>1, <3>2, Zenon
  <2>4. MayFollow(G(n), r)
    BY <2>2, <2>3 DEF MayFollow, GhostInit, End
  <2>5. GhostStep(G(n), r) = G(n)
    BY <1>1, <2>3, HeaderMeansNothing, Zenon
  <2> HIDE DEF r
  <2>6. /\ Cur' = GhostStep(G(n), r).com
        /\ Shown' = Shown \cup {Cur'} /\ Safe' = Safe \cup {Cur'}
    BY <2>1, <2>2, <2>4, Written, Zenon
  <2>7. Cur' = Cur /\ Cur \in Shown /\ Cur \in Safe
    BY <2>5, <2>6, Ranges, Zenon DEF Cur
  <2>8. Shown' = Shown /\ Safe' = Safe
    BY <2>6, <2>7, Zenon
  <2> QED
    BY <1>1, <2>7, <2>8, AsStutter, Zenon DEF Simulated
<1>3. CASE ~(ld.pos = 0 /\ n < MaxLog)
  BY <1>1, <1>3, SimulatedStutter, Zenon DEF LoadDone, disk
<1> QED
  BY <1>2, <1>3, Zenon

(* A rotation that fails maps to a step of the store. *)
LEMMA TruncFailedSim ==
  ASSUME IInv, NEW f \in flushed..Len(file), TruncFailed(f), UNCHANGED <<file, synced, gh>>
  PROVE  Simulated
<1>1. Len(file) \in flushed..Len(file)
  BY Ranges
<1>2. CASE must
  BY <1>1, <1>2, HaltSim, Zenon DEF TruncFailed
<1>3. CASE ~must
  <2>1. flushed' = f /\ acked' = acked
    BY <1>3, Zenon DEF TruncFailed
  <2>2. /\ Cur' = Cur /\ Shown' \subseteq Shown /\ Safe' = Safe
        /\ Shown' \subseteq Safe' /\ Cur \in Shown'
    BY <2>1, Flushed, Zenon
  <2> QED
    BY <2>1, <2>2, AsSettle, Zenon DEF Simulated
<1> QED
  BY <1>2, <1>3, Zenon

(* The rename that ends a rotation maps to a step of the store. *)
LEMMA TruncRenameSim ==
  ASSUME IInv, TruncRename
  PROVE  Simulated
<1> DEFINE n == Len(tr.tmp)
<1>1. /\ DumpDone /\ pc = "trunc" /\ file' = tr.tmp /\ gh' = tr.tgh
      /\ flushed' = n /\ synced' = n /\ acked' = acked
  BY Zenon DEF TruncRename, DumpDone
<1>2. At(tr.tgh, n).com = table /\ n \in Nat
  BY <1>1, DumpComplete, Zenon
<1>3. table = Cur
  BY <1>1, RotationFacts, Zenon DEF Cur
<1>4. Cur' = Cur
  BY <1>1, <1>2, <1>3, Zenon DEF Cur, G
<1>5. Shown' = {Cur} /\ Safe' = {Cur}
  BY <1>1, <1>2, <1>3 DEF Shown, Safe, G
<1>6. Cur \in Shown /\ Cur \in Safe
  BY Ranges, Zenon
<1> QED
  BY <1>1, <1>4, <1>5, <1>6, AsSettle, SMTT(30) DEF Simulated

(* Flushing and syncing map to steps of the store. *)
LEMMA FlushSim ==
  ASSUME IInv, FlushLog \/ ForceLog \/ StopLog
  PROVE  Simulated
<1>1. Len(file) \in flushed..Len(file)
  BY Ranges
<1>2. CASE FlushLog
  <2>1. UNCHANGED <<file, synced, gh, acked>> /\ flushed' \in flushed..Len(file)
    BY <1>1, <1>2, Zenon DEF FlushLog
  <2> QED
    BY <2>1, Flushed, AsSettle, Zenon DEF Simulated
<1>3. CASE ForceLog
  BY <1>3, Forced, AsAcknowledge, Zenon DEF Simulated, ForceLog
<1>4. CASE StopLog
  BY <1>1, <1>4, HaltSim, Zenon DEF StopLog
<1> QED
  BY <1>2, <1>3, <1>4, Zenon

(* The operations that write nothing to the log stutter. *)
LEMMA QuietSim ==
  ASSUME \/ BeginTransaction \/ AbortTransaction
         \/ GetActiveTransaction \/ SetActiveTransaction
         \/ \E r \in Appends : AppendToTransaction(r)
         \/ \E nd \in BOOLEAN : CommitTransaction(nd)
         \/ Restart \/ LoadRecord \/ LoadCommit
         \/ TruncStart
         \/ \E k \in Keys : DumpAd(k)
         \/ \E n \in Names : DumpAttribute(n)
         \/ UNCHANGED vars
  PROVE  Simulated
<1>1. UNCHANGED <<disk, acked>>
  BY Zenon DEF BeginTransaction, AbortTransaction, GetActiveTransaction, SetActiveTransaction,
         AppendToTransaction, CommitTransaction, Restart, LoadRecord, LoadCommit,
         TruncStart, DumpAd, DumpAttribute, DumpRecord, vars
<1> QED
  BY <1>1, SimulatedStutter, SMTT(30) DEF disk

(* Every step maps to a step of the store or a stutter. *)
LEMMA NextSim ==
  ASSUME IInv, Pending, ReliableFiles, [Next]_vars
  PROVE  Simulated
<1>1. CASE Client
  BY <1>1, QuietSim, AppendLogSim, FlushSim, Zenon DEF Client
<1>2. CASE AppendLogDone
  BY <1>2, EndOfChange, Zenon DEF AppendLogDone, Pending
<1>3. CASE CommitRecord
  BY <1>3, CommitRecordSim, Zenon
<1>4. CASE CommitDone
  BY <1>4, EndOfChange, Zenon DEF CommitDone, Pending
<1>5. CASE Crash
  BY <1>5, CrashSim, Zenon DEF Crash
<1>6. CASE Load
  <2>1. CASE LoadFatal
    <3>1. Halt /\ UNCHANGED <<file, synced, gh>> /\ flushed' \in flushed..Len(file)
      BY <2>1, Ranges DEF LoadFatal, disk
    <3> QED
      BY <3>1, HaltSim, Zenon
  <2> QED
    BY <1>6, <2>1, QuietSim, LoadDoneSim, Zenon DEF Load
<1>7. CASE Trunc
  <2>1. CASE TruncNoHistory \/ TruncNoTmp \/ TruncRenameFails
    <3>1. flushed \in flushed..Len(file) /\ Len(file) \in flushed..Len(file)
      BY Ranges
    <3> QED
      BY <2>1, <3>1, TruncFailedSim, Zenon DEF TruncNoHistory, TruncNoTmp, TruncRenameFails
  <2>2. CASE TruncRename
    BY <2>2, TruncRenameSim, Zenon
  <2>3. CASE TruncRenameUnsynced \/ \E n \in 0..Len(tr.tmp) : TruncRenamePartial(n)
    BY <2>3, Zenon DEF ReliableFiles, TruncRenameUnsynced, TruncRenamePartial
  <2> QED
    BY <1>7, <2>1, <2>2, <2>3, QuietSim, Zenon DEF Trunc
<1>8. CASE UNCHANGED vars
  BY <1>8, QuietSim, Zenon
<1> QED
  BY <1>1, <1>2, <1>3, <1>4, <1>5, <1>6, <1>7, <1>8, Zenon DEF Next

(* Pending is preserved by every step, given the invariant. *)
LEMMA PendingStep ==
  ASSUME IInv, Pending, [Next]_vars
  PROVE  Pending'
<1>1. CASE Client
  <2>1. CASE \E r \in Appends, nd \in BOOLEAN : AppendLog(r, nd)
    BY <2>1, Zenon DEF AppendLog, Pending
  <2>2. ASSUME NEW nd \in BOOLEAN, CommitTransaction(nd)
        PROVE  Pending'
    <3>1. CASE txn = <<>>
      BY <2>2, <3>1, Zenon DEF CommitTransaction, Pending
    <3>2. CASE txn # <<>>
      <4>1. txn' = Append(txn, End) /\ cm'.i = 1 /\ pc' = "commit" /\ txn \in Seq(Records)
        <5>1. /\ txn' = Append(txn, End) /\ cm' = [i |-> 1, nd |-> nd]
              /\ pc' = "commit" /\ txn # NoTxn
          BY <2>2, <3>2, Zenon DEF CommitTransaction
        <5>2. txn \in Txns
          BY Zenon DEF IInv, TypeOK
        <5> QED
          BY <5>1, <5>2, Zenon DEF Txns
      <4>2. Len(txn') >= 1
        <5>1. txn' = Append(txn, End) /\ txn \in Seq(Records)
          BY <4>1, Zenon
        <5> QED
          BY <5>1, RecordTypes
      <4> QED
        BY <4>1, <4>2 DEF Pending
    <3> QED
      BY <3>1, <3>2, Zenon
  <2>3. CASE \/ BeginTransaction \/ AbortTransaction
             \/ GetActiveTransaction \/ SetActiveTransaction
             \/ (\E r \in Appends : AppendToTransaction(r))
             \/ FlushLog \/ ForceLog \/ StopLog
    <3>1. pc' \in {"ready", "down"}
      BY <2>3, Zenon DEF BeginTransaction, AbortTransaction, GetActiveTransaction,
                  SetActiveTransaction, AppendToTransaction, FlushLog, ForceLog, StopLog, Halt
    <3> QED
      BY <3>1, SMTT(30) DEF Pending
  <2> QED
    BY <1>1, <2>1, <2>2, <2>3, Zenon DEF Client
<1>2. CASE AppendLogDone \/ CommitDone \/ Crash
  <2>1. pc' \in {"ready", "down"}
    BY <1>2, Zenon DEF AppendLogDone, CommitDone, Crash, ProcessCrash, MachineCrash, Halt
  <2> QED
    BY <2>1, Zenon DEF Pending
<1>3. CASE CommitRecord
  <2>1. /\ pc' = "commit" /\ txn' = txn /\ cm' = [cm EXCEPT !.i = @ + 1]
        /\ acked' = (acked /\ txn[cm.i] # End) /\ pc = "commit" /\ cm.i <= Len(txn)
    BY <1>3, Zenon DEF CommitRecord
  <2>2. cm'.i = cm.i + 1 /\ cm.i \in Nat /\ acked \in BOOLEAN /\ Len(txn) \in Nat /\ txn[Len(txn)] = End
    BY <2>1 DEF IInv, TypeOK, Committing, Txns
  <2>3. cm'.i > Len(txn) => cm.i = Len(txn)
    BY <2>1, <2>2
  <2>4. cm'.i > Len(txn) => ~acked'
    BY <2>1, <2>2, <2>3, Zenon
  <2> QED
    BY <2>1, <2>4, Zenon DEF Pending
<1>4. CASE Load
  <2>1. pc' \in {"load", "loadcommit", "down", "rotate", "ready"}
    BY <1>4, Zenon DEF Load, Restart, LoadRecord, LoadCommit, LoadFatal, LoadDone, Halt
  <2> QED
    BY <2>1, Zenon DEF Pending
<1>5. CASE Trunc
  <2>1. pc' \in {"down", "trunc", "ready"}
    BY <1>5, Zenon DEF Trunc, TruncNoHistory, TruncNoTmp, TruncStart, DumpAd, DumpAttribute, DumpRecord,
                TruncRename, TruncRenamePartial, TruncRenameUnsynced, TruncRenameFails,
                TruncFailed, Halt
  <2> QED
    BY <2>1, Zenon DEF Pending
<1>6. CASE UNCHANGED vars
  BY <1>6, Zenon DEF vars, Pending
<1> QED
  BY <1>1, <1>2, <1>3, <1>4, <1>5, <1>6, Zenon DEF Next

(* The log implements the store: a crash of the process keeps everything that
   was flushed, a crash of the machine everything that was acknowledged as
   durable, and both leave whole transactions only. *)
THEOREM Implements ==
  ASSUME ReliableFiles
  PROVE  Spec => StoreSpec
<1>1. Init => Store!SInit
  BY AsInit, Zenon
<1>2. Init => Pending
  BY Zenon DEF Init, Pending
<1>3. IInv /\ Pending /\ [Next]_vars => Pending'
  BY PendingStep, Zenon
<1>4. IInv /\ Pending /\ [Next]_vars => [Store!SNext]_(Store!svars)
  BY NextSim, Zenon DEF Simulated
<1>5. Spec => []IInv
  BY Invariance, Zenon
<1> QED
  BY <1>1, <1>2, <1>3, <1>4, <1>5, PTL DEF Spec, StoreSpec, Store!SSpec

-----------------------------------------------------------------------------
(* Loading any file: what follows needs nothing of the disk, and holds when a
   crash cut a record inside its optional word and when the dump that became
   the log was not flushed or synced. *)

(* A file f with its meaning g, in whatever order the markers come. *)
Accounts(f, g) ==
  /\ Len(g) = Len(f)
  /\ \A i \in 1..Len(f) : g[i] = GhostStep(At(g, i - 1), f[i])

(* The records of s behind the first j take the table t to the table u. *)
PlaysTo(t, s, j, u) ==
  \E path \in [0..Len(s) -> Tables] :
    /\ path[j] = t /\ path[Len(s)] = u
    /\ \A i \in (j + 1)..Len(s) : path[i] = Play(path[i - 1], s[i])

(* The loader between two records: what it holds back takes the table to what
   the file says it is in memory.  A begin marker inside a transaction and an
   end marker outside of one may be there; they only draw warnings. *)
LoadingAny ==
  pc = "load" =>
    /\ ld.j = 0
    /\ table = G(ld.pos).com
    /\ G(ld.pos).open <=> ld.txn # NoTxn
    /\ ld.txn # NoTxn => PlaysTo(table, ld.txn, 0, G(ld.pos).mem)

ReplayingAny ==
  pc = "loadcommit" =>
    /\ ld.txn # NoTxn
    /\ ld.j <= Len(ld.txn)
    /\ ~G(ld.pos).open
    /\ PlaysTo(table, ld.txn, ld.j, G(ld.pos).com)

DumpingAny ==
  pc = "trunc" =>
    /\ Accounts(tr.tmp, tr.tgh)
    /\ Len(tr.tmp) # 0
    /\ \A k \in tr.keys : table[k] # NoAd
    /\ \A n \in tr.names : tr.key \in Keys /\ table[tr.key] # NoAd /\ table[tr.key][n] # Unset

AnyFile ==
  /\ TypeOK
  /\ Accounts(file, gh)
  /\ pc = "append" => Len(file) # 0
  /\ pc = "commit" => cm.i >= 1 /\ txn # NoTxn
  /\ pc \notin {"load", "loadcommit"} => ld = NoLoad
  /\ pc = "down" => table = EmptyTable
  /\ LoadingAny
  /\ ReplayingAny
  /\ DumpingAny

(* Appending a record extends the account by one step. *)
LEMMA AccountsAppend ==
  ASSUME NEW f \in Seq(Records), NEW g \in Seq(Ghosts), Accounts(f, g), NEW r \in Records
  PROVE  LET f2 == Append(f, r)
             g2 == Append(g, GhostStep(At(g, Len(f)), r))
         IN  /\ f2 \in Seq(Records) /\ g2 \in Seq(Ghosts)
             /\ Len(f2) = Len(f) + 1
             /\ Accounts(f2, g2)
<1> DEFINE n == Len(f)
           h == GhostStep(At(g, Len(f)), r)
           f2 == Append(f, r)
           g2 == Append(g, h)
<1>1. n \in Nat /\ Len(g) = n /\ n \in 0..Len(g)
  BY DEF Accounts
<1>2. h \in Ghosts
  BY <1>1, AtType, GhostStepType, Zenon
<1> HIDE DEF h
<1>3. /\ f2 \in Seq(Records) /\ g2 \in Seq(Ghosts) /\ Len(f2) = n + 1 /\ Len(g2) = n + 1
      /\ \A i \in 1..n : f2[i] = f[i] /\ g2[i] = g[i]
      /\ f2[n + 1] = r /\ g2[n + 1] = h
  BY <1>1, <1>2
<1> HIDE DEF f2, g2, n
<1>4. \A i \in 0..n : At(g2, i) = At(g, i)
  BY <1>1, <1>3 DEF At
<1>5. ASSUME NEW i \in 1..(n + 1) PROVE g2[i] = GhostStep(At(g2, i - 1), f2[i])
  <2>1. CASE i = n + 1
    <3>1. i - 1 = n /\ n \in 0..n
      BY <1>1, <2>1
    <3> QED BY <1>3, <1>4, <2>1, <3>1, Zenon DEF h, n
  <2>2. CASE i \in 1..n
    <3>1. i - 1 \in 0..n
      BY <1>1, <2>2
    <3> QED BY <1>3, <1>4, <2>2, <3>1, Zenon DEF Accounts, n
  <2> QED BY <1>1, <2>1, <2>2
<1>6. Accounts(f2, g2)
  BY <1>3, <1>5, Zenon DEF Accounts
<1> QED BY <1>3, <1>6, Zenon DEF f2, g2, h, n

(* A prefix of the file has a prefix of the account. *)
LEMMA AccountsCut ==
  ASSUME NEW f \in Seq(Records), NEW g \in Seq(Ghosts), Accounts(f, g), NEW m \in 0..Len(f)
  PROVE  LET f2 == SubSeq(f, 1, m)
             g2 == SubSeq(g, 1, m)
         IN  /\ f2 \in Seq(Records) /\ g2 \in Seq(Ghosts)
             /\ Len(f2) = m
             /\ Accounts(f2, g2)
<1> DEFINE f2 == SubSeq(f, 1, m)
           g2 == SubSeq(g, 1, m)
<1>1. m \in Nat /\ Len(f) \in Nat /\ Len(g) = Len(f)
  BY DEF Accounts
<1>2. /\ f2 \in Seq(Records) /\ Len(f2) = m
      /\ \A i \in 1..m : f2[i] = f[i]
  BY <1>1
<1>3. /\ g2 \in Seq(Ghosts) /\ Len(g2) = m
      /\ \A i \in 1..m : g2[i] = g[i]
  BY <1>1
<1> HIDE DEF f2, g2
<1>4. \A i \in 0..m : At(g2, i) = At(g, i)
  BY <1>1, <1>3 DEF At
<1>5. ASSUME NEW i \in 1..m PROVE g2[i] = GhostStep(At(g2, i - 1), f2[i])
  <2>1. i - 1 \in 0..m /\ i \in 1..Len(f)
    BY <1>1
  <2> QED BY <1>2, <1>3, <1>4, <2>1, Zenon DEF Accounts
<1>6. Accounts(f2, g2)
  BY <1>2, <1>3, <1>5, Zenon DEF Accounts
<1> QED BY <1>2, <1>3, <1>6, Zenon DEF f2, g2

(* What one record of the file does to its meaning, and that outside of a
   transaction everything played is committed. *)
LEMMA AccountsStep ==
  ASSUME NEW f \in Seq(Records), NEW g \in Seq(Ghosts), Accounts(f, g), NEW i \in 0..Len(f)
  PROVE  /\ At(g, i) \in Ghosts
         /\ ~At(g, i).open => At(g, i).mem = At(g, i).com
         /\ i < Len(f) => At(g, i + 1) = GhostStep(At(g, i), f[i + 1]) /\ f[i + 1] \in Records
<1>1. i \in Nat /\ Len(f) \in Nat /\ Len(g) = Len(f)
  BY DEF Accounts
<1>2. At(g, i) \in Ghosts
  BY <1>1, AtType, Zenon
<1>3. ASSUME i < Len(f) PROVE At(g, i + 1) = GhostStep(At(g, i), f[i + 1]) /\ f[i + 1] \in Records
  <2> DEFINE k == i + 1
  <2>1. k \in 1..Len(f) /\ k - 1 = i /\ k # 0
    BY <1>1, <1>3
  <2> HIDE DEF k
  <2>2. f[k] \in Records
    BY <2>1
  <2>3. g[k] = GhostStep(At(g, k - 1), f[k])
    BY <2>1, Zenon DEF Accounts
  <2>4. At(g, k) = GhostStep(At(g, i), f[k])
    BY <2>1, <2>3, Zenon DEF At
  <2> QED BY <2>2, <2>4, Zenon DEF k
<1>4. ASSUME ~At(g, i).open PROVE At(g, i).mem = At(g, i).com
  <2>1. CASE i = 0
    BY <2>1, Zenon DEF At, GhostInit
  <2>2. CASE i # 0
    <3>1. i \in 1..Len(f) /\ i - 1 \in 0..Len(g)
      BY <1>1, <2>2
    <3>2. At(g, i - 1) \in Ghosts /\ f[i] \in Records
      BY <3>1, AtType
    <3>3. At(g, i) = GhostStep(At(g, i - 1), f[i])
      BY <2>2, <3>1, Zenon DEF Accounts, At
    <3> DEFINE h == GhostStep(At(g, i - 1), f[i])
    <3>4. h.mem = Play(At(g, i - 1).mem, f[i]) /\ (~h.open => h.com = Play(At(g, i - 1).mem, f[i]))
      BY <3>2, GhostStepFields, Zenon
    <3> HIDE DEF h
    <3>5. At(g, i) = h
      BY <3>3, Zenon DEF h
    <3> QED BY <1>4, <3>4, <3>5, Zenon
  <2> QED BY <2>1, <2>2, Zenon
<1> QED BY <1>2, <1>3, <1>4, Zenon

(* Nothing is held back yet. *)
LEMMA PlaysNone ==
  ASSUME NEW t \in Tables
  PROVE  PlaysTo(t, <<>>, 0, t)
<1> DEFINE path == [i \in 0..0 |-> t]
<1>1. Len(<<>>) = 0 /\ path \in [0..0 -> Tables] /\ path[0] = t /\ (0 + 1)..0 = {}
  OBVIOUS
<1> HIDE DEF path
<1> QED BY <1>1, Zenon DEF PlaysTo

(* One more record is held back. *)
LEMMA PlaysAppend ==
  ASSUME NEW t, NEW s \in Seq(Records), NEW u, PlaysTo(t, s, 0, u), NEW r \in Records
  PROVE  PlaysTo(t, Append(s, r), 0, Play(u, r))
<1> DEFINE n == Len(s)
           s2 == Append(s, r)
<1>1. n \in Nat /\ Len(s2) = n + 1 /\ s2[n + 1] = r /\ \A i \in 1..n : s2[i] = s[i]
  OBVIOUS
<1>2. PICK path \in [0..n -> Tables] :
        /\ path[0] = t /\ path[n] = u
        /\ \A i \in (0 + 1)..n : path[i] = Play(path[i - 1], s[i])
  BY Zenon DEF PlaysTo
<1> HIDE DEF n, s2
<1>3. u \in Tables
  <2>1. n \in 0..n
    BY <1>1
  <2> QED BY <1>2, <2>1, Zenon
<1> DEFINE last == Play(u, r)
           path2 == [i \in 0..(n + 1) |-> IF i = n + 1 THEN last ELSE path[i]]
<1>4. last \in Tables
  BY <1>3, PlayType, Zenon
<1> HIDE DEF last
<1>5. \A i \in 0..(n + 1) : i = n + 1 \/ i \in 0..n
  BY <1>1
<1>6. path2 \in [0..(n + 1) -> Tables]
  BY <1>4, <1>5, Zenon
<1>7. path2[0] = t /\ path2[n + 1] = last /\ \A i \in 0..n : path2[i] = path[i]
  BY <1>1, <1>2
<1> HIDE DEF path2
<1>8. ASSUME NEW i \in (0 + 1)..(n + 1) PROVE path2[i] = Play(path2[i - 1], s2[i])
  <2>1. CASE i = n + 1
    <3>1. i - 1 = n /\ n \in 0..n
      BY <1>1, <2>1
    <3> QED BY <1>1, <1>2, <1>7, <2>1, <3>1, Zenon DEF last
  <2>2. CASE i # n + 1
    <3>1. i \in (0 + 1)..n /\ i \in 1..n /\ i \in 0..n /\ i - 1 \in 0..n
      BY <1>1, <2>2
    <3> QED BY <1>1, <1>2, <1>7, <3>1, Zenon
  <2> QED BY <2>1, <2>2, Zenon
<1> QED BY <1>1, <1>6, <1>7, <1>8, Zenon DEF PlaysTo, s2, last

(* One record is played. *)
LEMMA PlaysOne ==
  ASSUME NEW t, NEW s \in Seq(Records), NEW j \in Nat, j < Len(s), NEW u, PlaysTo(t, s, j, u)
  PROVE  Play(t, s[j + 1]) \in Tables /\ PlaysTo(Play(t, s[j + 1]), s, j + 1, u)
<1> DEFINE n == Len(s)
<1>1. PICK path \in [0..n -> Tables] :
        /\ path[j] = t /\ path[n] = u
        /\ \A i \in (j + 1)..n : path[i] = Play(path[i - 1], s[i])
  BY Zenon DEF PlaysTo
<1>2. n \in Nat
  OBVIOUS
<1> HIDE DEF n
<1>3. j + 1 \in (j + 1)..n /\ j + 1 \in 0..n /\ j + 1 - 1 = j /\ (j + 1 + 1)..n \subseteq (j + 1)..n
  BY <1>2 DEF n
<1>4. path[j + 1] = Play(t, s[j + 1])
  <2> DEFINE k == j + 1
  <2>1. k \in (j + 1)..n /\ k - 1 = j
    BY <1>3
  <2> HIDE DEF k
  <2>2. path[k] = Play(path[k - 1], s[k])
    BY <1>1, <2>1, Zenon
  <2> QED BY <1>1, <2>1, <2>2, Zenon DEF k
<1>5. path[j + 1] \in Tables
  BY <1>1, <1>3, Zenon
<1> QED BY <1>1, <1>3, <1>4, <1>5, Zenon DEF PlaysTo, n

(* All of them have been. *)
LEMMA PlaysAll ==
  ASSUME NEW t, NEW s, NEW u, PlaysTo(t, s, Len(s), u)
  PROVE  t = u
BY Zenon DEF PlaysTo

-----------------------------------------------------------------------------
(* The steps, on any file. *)

Loaders(n) == [pos : 0..n, txn : Txns, j : Nat, clean : BOOLEAN]
Dumps == [keys : SUBSET Keys, key : Keys \cup {NoAd}, names : SUBSET Names,
          tmp : Seq(Records), tgh : Seq(Ghosts)]

(* The types of the file and of its marks. *)
DiskOK ==
  /\ file \in Seq(Records)
  /\ gh \in Seq(Ghosts)
  /\ Accounts(file, gh)
  /\ flushed \in 0..Len(file)
  /\ synced \in 0..flushed
  /\ torn \in BOOLEAN
  /\ glued \in Nat
  /\ unended \in Nat

(* The types of what the daemon has in memory. *)
MemoryOK ==
  /\ pc \in PCs
  /\ table \in Tables
  /\ txn \in Txns
  /\ parked \in Txns
  /\ cm \in [i : Nat, nd : BOOLEAN]
  /\ seq \in Nat
  /\ hist \subseteq Nat
  /\ tr \in Dumps
  /\ must \in BOOLEAN
  /\ downs \in Nat
  /\ acked \in BOOLEAN
  /\ pc = "append" => Len(file) # 0
  /\ pc = "commit" => cm.i >= 1 /\ txn # NoTxn
  /\ pc = "down" => table = EmptyTable

(* The parts of the invariant. *)
LEMMA AnyFileParts ==
  /\ AnyFile => DiskOK /\ MemoryOK /\ ld \in Loaders(Len(file)) /\ Len(file) \in Nat
  /\ DiskOK /\ MemoryOK /\ ld \in Loaders(Len(file))
       /\ (pc \notin {"load", "loadcommit"} => ld = NoLoad) /\ LoadingAny /\ ReplayingAny /\ DumpingAny
     => AnyFile
<1>1. file \in Seq(Records) => Len(file) \in Nat
  OBVIOUS
<1>2. Accounts(file, gh) => Len(gh) = Len(file)
  BY Zenon DEF Accounts
<1> QED BY <1>1, <1>2, Zenon DEF AnyFile, TypeOK, DiskOK, MemoryOK, Loaders, Dumps

(* A step of a daemon that neither loads nor dumps. *)
LEMMA RestingAny ==
  ASSUME DiskOK', MemoryOK', pc' \notin {"load", "loadcommit", "trunc"}, ld' = NoLoad
  PROVE  AnyFile'
<1>1. Len(file') \in Nat
  BY DEF DiskOK
<1>2. ld' \in Loaders(Len(file'))
  BY <1>1, NoLoadType, Zenon DEF Loaders
<1>3. LoadingAny' /\ ReplayingAny' /\ DumpingAny'
  BY Zenon DEF LoadingAny, ReplayingAny, DumpingAny
<1>4. Accounts(file', gh') => Len(gh') = Len(file')
  BY Zenon DEF Accounts
<1> QED BY <1>2, <1>3, <1>4, Zenon DEF AnyFile, TypeOK, DiskOK, MemoryOK, Loaders, Dumps

(* The file stays, or more of it is flushed. *)
LEMMA SameDisk ==
  ASSUME DiskOK, UNCHANGED <<file, gh, torn, glued, unended>>,
         \/ UNCHANGED <<flushed, synced>>
         \/ flushed' = Len(file) /\ synced' \in {synced, Len(file)}
  PROVE  DiskOK'
<1>1. Len(file) \in Nat /\ flushed \in 0..Len(file) /\ synced \in 0..flushed
  BY DEF DiskOK
<1>2. flushed' \in 0..Len(file) /\ synced' \in 0..flushed'
  BY <1>1
<1> QED BY <1>2, Zenon DEF DiskOK

(* A record is written. *)
LEMMA WriteAny ==
  ASSUME DiskOK, NEW r \in Records, Write(r), UNCHANGED <<flushed, synced>>
  PROVE  DiskOK' /\ Len(file') = Len(file) + 1
<1> DEFINE n == Len(file)
           f2 == Append(file, r)
           g2 == Append(gh, GhostStep(At(gh, n), r))
<1>1. n \in Nat /\ flushed \in 0..n
  BY DEF DiskOK
<1>2. f2 \in Seq(Records) /\ g2 \in Seq(Ghosts) /\ Len(f2) = n + 1 /\ Accounts(f2, g2)
  BY AccountsAppend, Zenon DEF DiskOK
<1>3. file' = f2 /\ gh' = g2 /\ torn' = FALSE /\ unended' = unended /\ glued' \in {n + 1, glued}
  BY Zenon DEF Write, G
<1> HIDE DEF f2, g2, n
<1>4. n + 1 \in Nat /\ flushed \in 0..(n + 1)
  BY <1>1
<1>5. glued' \in Nat
  BY <1>3, <1>4, Zenon DEF DiskOK
<1> QED BY <1>2, <1>3, <1>4, <1>5, Zenon DEF DiskOK, n

(* The daemon goes down. *)
LEMMA HaltAny ==
  ASSUME MemoryOK, DiskOK', Halt, hist' \subseteq Nat, downs' \in Nat
  PROVE  AnyFile'
<1>1. MemoryOK'
  <2>1. tr' \in Dumps /\ cm' \in [i : Nat, nd : BOOLEAN] /\ table' \in Tables
    BY NoDumpType, NoCommitType, EmptyTypes, Zenon DEF Halt, Dumps
  <2>2. txn' \in Txns /\ parked' \in Txns
    BY Zenon DEF Halt, Txns
  <2>3. pc' = "down" /\ seq' = 0 /\ must' = FALSE /\ acked' = FALSE /\ table' = EmptyTable
    BY Zenon DEF Halt
  <2>4. pc' \in PCs /\ seq' \in Nat /\ pc' \notin {"append", "commit"}
    BY <2>3 DEF PCs
  <2> QED BY <2>1, <2>2, <2>3, <2>4, Zenon DEF MemoryOK
<1>2. ld' = NoLoad /\ pc' \notin {"load", "loadcommit", "trunc"}
  BY DEF Halt
<1> QED BY <1>1, <1>2, RestingAny, Zenon

(* The operations of the clients that leave the file alone. *)
LEMMA BufferAny ==
  ASSUME AnyFile,
         \/ BeginTransaction \/ AbortTransaction \/ GetActiveTransaction \/ SetActiveTransaction
         \/ \E r \in Appends : AppendToTransaction(r)
         \/ \E nd \in BOOLEAN : CommitTransaction(nd)
  PROVE  AnyFile'
<1>1. /\ pc = "ready" /\ UNCHANGED <<table, disk, seq, hist, ld, tr, must, downs, acked>>
      /\ (UNCHANGED <<pc, cm>> \/ (pc' = "commit" /\ \E nd \in BOOLEAN : cm' = [i |-> 1, nd |-> nd]))
  BY Zenon DEF BeginTransaction, AbortTransaction, GetActiveTransaction, SetActiveTransaction,
               AppendToTransaction, CommitTransaction
<1>2. DiskOK /\ MemoryOK
  BY AnyFileParts, Zenon
<1>3. UNCHANGED <<file, gh, torn, glued, unended, flushed, synced>>
  BY <1>1, Zenon DEF disk
<1>4. DiskOK'
  BY <1>2, <1>3, SameDisk, Zenon
<1>5. txn \in Txns /\ parked \in Txns /\ cm \in [i : Nat, nd : BOOLEAN]
  BY <1>2, Zenon DEF MemoryOK
<1>6. cm' \in [i : Nat, nd : BOOLEAN] /\ (pc' = "commit" => cm'.i >= 1)
  BY <1>1, <1>5
<1>7. txn' \in Txns /\ parked' \in Txns /\ (pc' = "commit" => txn' # NoTxn)
  <2>b. <<>> \in Seq(Records)
    OBVIOUS
  <2>0. <<>> \in Seq(Records) /\ NoTxn \in Txns /\ Seq(Records) \subseteq Txns /\ NoTxn \notin Seq(Records)
    BY <2>b, NoTxnAssumption, Zenon DEF Txns
  <2>a. pc = "ready" /\ pc # "commit"
    BY <1>1
  <2>1. CASE \E r \in Appends : AppendToTransaction(r)
    <3>1. PICK r \in Appends : AppendToTransaction(r)
      BY <2>1, Zenon
    <3>2. /\ txn # NoTxn /\ txn' = IF txn = <<>> THEN <<Begin, r>> ELSE Append(txn, r)
          /\ UNCHANGED <<parked, pc>>
      BY <3>1, Zenon DEF AppendToTransaction
    <3>3. r \in Records /\ Begin \in Records /\ txn \in Seq(Records)
      BY <1>5, <3>2, AppendsAssumption, RecordTypes, Zenon DEF Txns
    <3>4. <<Begin, r>> \in Seq(Records) /\ Append(txn, r) \in Seq(Records)
      BY <3>3
    <3> QED BY <1>5, <2>0, <2>a, <3>2, <3>4, Zenon
  <2>2. CASE \E nd \in BOOLEAN : CommitTransaction(nd)
    <3>1. PICK nd \in BOOLEAN : CommitTransaction(nd)
      BY <2>2, Zenon
    <3>2. /\ txn # NoTxn /\ UNCHANGED parked
          /\ (txn' = NoTxn /\ UNCHANGED pc) \/ txn' = Append(txn, End)
      BY <3>1, Zenon DEF CommitTransaction
    <3>3. Append(txn, End) \in Seq(Records)
      <4>1. End \in Records /\ txn \in Seq(Records)
        BY <1>5, <3>2, RecordTypes, Zenon DEF Txns
      <4> QED BY <4>1
    <3> QED BY <1>5, <2>0, <2>a, <3>2, <3>3, Zenon
  <2>3. CASE \/ BeginTransaction \/ AbortTransaction \/ GetActiveTransaction \/ SetActiveTransaction
    BY <1>5, <2>0, <2>a, <2>3, Zenon DEF BeginTransaction, AbortTransaction, GetActiveTransaction, SetActiveTransaction
  <2> QED BY <2>1, <2>2, <2>3, Zenon
<1>8. pc' \in {"ready", "commit"}
  BY <1>1
<1>9. pc' \in PCs /\ pc' \notin {"load", "loadcommit", "trunc"} /\ pc' \notin {"append", "down"} /\ pc \notin {"load", "loadcommit"}
  BY <1>1, <1>8 DEF PCs
<1>10. ld' = NoLoad
  BY <1>1, <1>9, Zenon DEF AnyFile
<1>11. MemoryOK'
  BY <1>1, <1>2, <1>6, <1>7, <1>9, Zenon DEF MemoryOK
<1> QED BY <1>4, <1>9, <1>10, <1>11, RestingAny, Zenon

(* The operations that write, flush or sync. *)
LEMMA RunningAny ==
  ASSUME AnyFile,
         \/ \E r \in Appends, nd \in BOOLEAN : AppendLog(r, nd)
         \/ FlushLog \/ ForceLog \/ AppendLogDone \/ CommitRecord \/ CommitDone
  PROVE  AnyFile'
<1>1. DiskOK /\ MemoryOK
  BY AnyFileParts, Zenon
<1>2. pc \in {"ready", "append", "commit"} /\ UNCHANGED <<parked, seq, hist, ld, tr, must, downs>>
  BY Zenon DEF AppendLog, FlushLog, ForceLog, AppendLogDone, CommitRecord, CommitDone
<1>3. pc \notin {"load", "loadcommit"}
  BY <1>2
<1>4. ld' = NoLoad
  BY <1>2, <1>3, Zenon DEF AnyFile
<1>5. txn \in Txns /\ cm \in [i : Nat, nd : BOOLEAN] /\ table \in Tables /\ acked \in BOOLEAN
  BY <1>1, Zenon DEF MemoryOK
<1>a. NoTxn \in Txns
  BY Zenon DEF Txns
<1>6. SUFFICES /\ DiskOK' /\ table' \in Tables /\ txn' \in Txns /\ cm' \in [i : Nat, nd : BOOLEAN]
               /\ acked' \in BOOLEAN /\ pc' \in {"ready", "append", "commit"}
               /\ pc' = "append" => Len(file') # 0
               /\ pc' = "commit" => cm'.i >= 1 /\ txn' # NoTxn
  <2>1. pc' \in PCs /\ pc' \notin {"load", "loadcommit", "trunc"} /\ pc' # "down"
    BY <1>6 DEF PCs
  <2>2. MemoryOK'
    BY <1>1, <1>2, <1>6, <2>1, Zenon DEF MemoryOK
  <2> QED BY <1>4, <1>6, <2>1, <2>2, RestingAny, Zenon
<1>7. CASE \E r \in Appends, nd \in BOOLEAN : AppendLog(r, nd)
  <2>1. PICK r \in Appends, nd \in BOOLEAN : AppendLog(r, nd)
    BY <1>7, Zenon
  <2>2. /\ Write(r) /\ acked' = FALSE /\ pc' = "append" /\ cm' = [i |-> 0, nd |-> nd]
        /\ UNCHANGED <<table, txn, flushed, synced>>
    BY <2>1, Zenon DEF AppendLog
  <2>3. r \in Records
    BY AppendsAssumption, RecordTypes, Zenon
  <2>4. DiskOK' /\ Len(file') = Len(file) + 1
    BY <1>1, <2>2, <2>3, WriteAny, Zenon
  <2>5. cm' \in [i : Nat, nd : BOOLEAN] /\ pc' # "commit"
    BY <2>2
  <2>6. Len(file') # 0
    <3>1. Len(file) \in Nat
      BY AnyFileParts, Zenon
    <3> QED BY <2>4, <3>1
  <2> QED BY <1>5, <2>2, <2>4, <2>5, <2>6, Zenon
<1>8. CASE FlushLog \/ ForceLog
  <2>1. /\ UNCHANGED <<pc, table, txn, cm, file, gh, torn, glued, unended>> /\ acked' \in {acked, TRUE}
        /\ flushed' = Len(file) /\ synced' \in {synced, Len(file)}
    BY <1>8, Zenon DEF FlushLog, ForceLog, Sync
  <2>2. DiskOK'
    BY <1>1, <2>1, SameDisk, Zenon
  <2> QED BY <1>1, <1>2, <1>5, <2>1, <2>2, Zenon DEF MemoryOK
<1>9. CASE AppendLogDone
  <2>1. /\ pc = "append" /\ pc' = "ready" /\ cm' = NoCommit /\ acked' = ~cm.nd
        /\ table' = Play(table, file[Len(file)])
        /\ UNCHANGED <<txn, file, torn, glued, unended, gh>>
        /\ UNCHANGED <<flushed, synced>> \/ (flushed' = Len(file) /\ synced' = Len(file))
    BY <1>9, Zenon DEF AppendLogDone, Sync
  <2>2. DiskOK'
    BY <1>1, <2>1, SameDisk, Zenon
  <2>3. file[Len(file)] \in Records
    <3>1. file \in Seq(Records) /\ Len(file) \in Nat /\ Len(file) # 0
      BY <1>1, <2>1, AnyFileParts, Zenon DEF DiskOK, MemoryOK
    <3> QED BY <3>1
  <2>4. table' \in Tables
    BY <1>5, <2>1, <2>3, PlayType, Zenon
  <2>5. cm' \in [i : Nat, nd : BOOLEAN] /\ acked' \in BOOLEAN
    BY <2>1, NoCommitType, Zenon
  <2>6. pc' \notin {"append", "commit"}
    BY <2>1
  <2> QED BY <1>5, <2>1, <2>2, <2>4, <2>5, <2>6, Zenon
<1>10. CASE CommitRecord
  <2> DEFINE r == txn[cm.i]
  <2>1. /\ pc = "commit" /\ cm.i <= Len(txn) /\ Write(r) /\ table' = Play(table, r)
        /\ acked' = (acked /\ r # End) /\ cm' = [cm EXCEPT !.i = @ + 1]
        /\ UNCHANGED <<pc, txn, flushed, synced>>
    BY <1>10, Zenon DEF CommitRecord
  <2>2. cm.i >= 1 /\ txn # NoTxn /\ txn \in Seq(Records)
    BY <1>1, <1>5, <2>1, Zenon DEF MemoryOK, Txns
  <2>3. r \in Records
    BY <1>5, <2>1, <2>2
  <2> HIDE DEF r
  <2>4. DiskOK'
    BY <1>1, <2>1, <2>3, WriteAny, Zenon
  <2>5. table' \in Tables
    BY <1>5, <2>1, <2>3, PlayType, Zenon
  <2>6. cm' \in [i : Nat, nd : BOOLEAN] /\ cm'.i >= 1
    BY <1>5, <2>1, <2>2
  <2>7. acked' \in BOOLEAN
    BY <1>5, <2>1, Zenon
  <2>8. pc' = "commit" /\ pc' # "append"
    BY <2>1
  <2> QED BY <1>5, <2>1, <2>2, <2>4, <2>5, <2>6, <2>7, <2>8, Zenon
<1>11. CASE CommitDone
  <2>1. /\ pc' = "ready" /\ cm' = NoCommit /\ acked' = ~cm.nd /\ txn' = NoTxn
        /\ UNCHANGED <<table, file, torn, glued, unended, gh>>
        /\ UNCHANGED <<flushed, synced>> \/ (flushed' = Len(file) /\ synced' = Len(file))
    BY <1>11, Zenon DEF CommitDone, Sync
  <2>2. DiskOK'
    BY <1>1, <2>1, SameDisk, Zenon
  <2>3. cm' \in [i : Nat, nd : BOOLEAN] /\ acked' \in BOOLEAN
    BY <2>1, NoCommitType, Zenon
  <2>4. pc' \notin {"append", "commit"}
    BY <2>1
  <2> QED BY <1>5, <1>a, <2>1, <2>2, <2>3, <2>4, Zenon
<1> QED BY <1>7, <1>8, <1>9, <1>10, <1>11, Zenon

(* Going down: StopLog, and crashes that leave any part of the file. *)
LEMMA DownAny ==
  ASSUME AnyFile, StopLog \/ Crash
  PROVE  AnyFile'
<1>1. DiskOK /\ MemoryOK /\ Len(file) \in Nat
  BY AnyFileParts, Zenon
<1>2. Halt /\ UNCHANGED hist /\ downs' = downs + 1
  BY Zenon DEF StopLog, Crash, ProcessCrash, MachineCrash
<1>3. downs' \in Nat /\ hist' \subseteq Nat
  <2>1. downs \in Nat /\ hist \subseteq Nat
    BY <1>1, Zenon DEF MemoryOK
  <2> QED BY <1>2, <2>1
<1>4. DiskOK'
  <2>1. CASE StopLog
    BY <1>1, <2>1, SameDisk, Zenon DEF StopLog
  <2>2. CASE Crash
    <3>1. PICK n \in 0..Len(file), fragment \in BOOLEAN, optional \in BOOLEAN :
            ProcessCrash(n, fragment, optional) \/ MachineCrash(n, fragment, optional)
      BY <2>2, Zenon DEF Crash
    <3> DEFINE m == IF optional THEN n + 1 ELSE n
    <3>2. /\ optional => n < Len(file)
          /\ file' = SubSeq(file, 1, m) /\ gh' = SubSeq(gh, 1, m) /\ torn' = fragment
          /\ glued' \in {glued, 0} /\ unended' \in {unended, m, 0} /\ flushed' = m
      BY <3>1, Zenon DEF ProcessCrash, MachineCrash, Cut
    <3>3. (synced' = synced /\ n >= flushed) \/ synced' = m
      BY <3>1, Zenon DEF ProcessCrash, MachineCrash
    <3>4. flushed \in 0..Len(file) /\ synced \in 0..flushed
      BY <1>1, Zenon DEF DiskOK
    <3>5. m \in 0..Len(file) /\ m \in Nat /\ 0 \in Nat /\ m >= n
      BY <1>1, <3>2
    <3>6. synced' \in 0..m /\ m \in 0..m
      BY <1>1, <3>3, <3>4, <3>5
    <3> HIDE DEF m
    <3>7. file' \in Seq(Records) /\ gh' \in Seq(Ghosts) /\ Len(file') = m /\ Accounts(file', gh')
      BY <1>1, <3>2, <3>5, AccountsCut, Zenon DEF DiskOK
    <3> QED BY <1>1, <3>2, <3>5, <3>6, <3>7, Zenon DEF DiskOK
  <2> QED BY <2>1, <2>2, Zenon
<1> QED BY <1>1, <1>2, <1>3, <1>4, HaltAny, Zenon

(* The loader moves. *)
LEMMA LoaderAny ==
  ASSUME AnyFile, UNCHANGED <<txn, parked, cm, disk, hist, tr, must, downs, acked>>,
         table' \in Tables, seq' \in Nat, ld' \in Loaders(Len(file)),
         \/ /\ pc' = "load" /\ ld'.j = 0 /\ table' = G(ld'.pos).com
            /\ G(ld'.pos).open <=> ld'.txn # NoTxn
            /\ ld'.txn # NoTxn => PlaysTo(table', ld'.txn, 0, G(ld'.pos).mem)
         \/ /\ pc' = "loadcommit" /\ ld'.txn # NoTxn /\ ld'.j <= Len(ld'.txn)
            /\ ~G(ld'.pos).open
            /\ PlaysTo(table', ld'.txn, ld'.j, G(ld'.pos).com)
  PROVE  AnyFile'
<1>1. DiskOK /\ MemoryOK
  BY AnyFileParts, Zenon
<1>2. UNCHANGED <<file, gh, torn, glued, unended, flushed, synced>>
  BY Zenon DEF disk
<1>3. DiskOK'
  BY <1>1, <1>2, SameDisk, Zenon
<1>4. pc' \in {"load", "loadcommit"}
  BY Zenon
<1>5. pc' \in PCs /\ pc' \notin {"append", "commit", "down", "trunc"}
  BY <1>4 DEF PCs
<1>6. MemoryOK'
  BY <1>1, <1>2, <1>5, Zenon DEF MemoryOK
<1>7. DumpingAny' /\ ld' \in Loaders(Len(file')) /\ G(ld.pos)' = G(ld'.pos)
  BY <1>2, <1>5, Zenon DEF DumpingAny, G, At
<1>8. "load" # "loadcommit"
  OBVIOUS
<1>9. LoadingAny' /\ ReplayingAny'
  BY <1>7, <1>8, Zenon DEF LoadingAny, ReplayingAny
<1>10. Len(gh') = Len(file')
  BY <1>3, Zenon DEF DiskOK, Accounts
<1> QED BY <1>3, <1>4, <1>6, <1>7, <1>9, <1>10, Zenon DEF AnyFile, TypeOK, DiskOK, MemoryOK, Loaders, Dumps

(* The daemon is started again. *)
LEMMA RestartAny ==
  ASSUME AnyFile, Restart
  PROVE  AnyFile'
<1>1. /\ pc = "down" /\ pc' = "load" /\ seq' = 1
      /\ UNCHANGED <<table, ld, txn, parked, cm, disk, hist, tr, must, downs, acked>>
  BY Zenon DEF Restart
<1>2. pc \notin {"load", "loadcommit"} /\ seq' \in Nat
  BY <1>1
<1>3. ld' = NoLoad /\ table' = EmptyTable /\ ld' \in Loaders(Len(file))
  BY <1>1, <1>2, AnyFileParts, Zenon DEF AnyFile
<1>4. ld'.pos = 0 /\ ld'.j = 0 /\ ld'.txn = NoTxn
  BY <1>3, Zenon DEF NoLoad
<1>5. G(ld'.pos) = GhostInit
  BY <1>4, Zenon DEF G, At
<1>6. GhostInit.com = EmptyTable /\ GhostInit.open = FALSE
  BY Zenon DEF GhostInit
<1> QED BY <1>1, <1>2, <1>3, <1>4, <1>5, <1>6, EmptyTypes, LoaderAny, Zenon

(* The loader reads a record.  A begin marker opens a transaction or is passed
   over inside one, an end marker outside of one is passed over. *)
LEMMA LoadRecordAny ==
  ASSUME AnyFile, LoadRecord
  PROVE  AnyFile'
<1> DEFINE p == ld.pos
           r == file[p + 1]
           g == G(p)
           h == G(p + 1)
           s == ld.txn
<1>1. pc = "load" /\ p + 1 <= Len(file) /\ UNCHANGED <<txn, parked, cm, disk, hist, tr, must, downs, acked>>
  BY Zenon DEF LoadRecord, Readable
<1>2. DiskOK /\ MemoryOK /\ ld \in Loaders(Len(file)) /\ Len(file) \in Nat
  BY AnyFileParts, Zenon
<1>3. p \in 0..Len(file) /\ s \in Txns /\ table \in Tables /\ seq \in Nat
  BY <1>2, Zenon DEF Loaders, MemoryOK
<1>4. p < Len(file) /\ p + 1 \in 0..Len(file)
  BY <1>1, <1>2, <1>3
<1>5. /\ g \in Ghosts /\ (~g.open => g.mem = g.com)
      /\ h = GhostStep(g, r) /\ r \in Records
  BY <1>2, <1>3, <1>4, AccountsStep, Zenon DEF DiskOK, G
<1>6. /\ ld.j = 0 /\ table = g.com
      /\ g.open <=> s # NoTxn
      /\ s # NoTxn => PlaysTo(table, s, 0, g.mem)
  BY <1>1, Zenon DEF AnyFile, LoadingAny
<1>7. /\ h.mem = Play(g.mem, r)
      /\ h.open <=> (r = Begin \/ (g.open /\ r # End))
      /\ h.open => h.com = g.com
      /\ ~h.open => h.com = Play(g.mem, r)
  <2> HIDE DEF h, g, r
  <2> QED BY <1>5, GhostStepFields, Zenon
<1>8. g.mem \in Tables /\ (r \notin Ops => Play(g.mem, r) = g.mem)
  <2>1. g.mem \in Tables
    BY <1>5, Zenon DEF Ghosts
  <2> QED BY <1>5, <2>1, PlayMarker, Zenon
<1>9. <<>> \in Txns /\ <<>> # NoTxn /\ (s # NoTxn => s \in Seq(Records))
  <2>1. <<>> \in Seq(Records)
    OBVIOUS
  <2> QED BY <1>3, <2>1, NoTxnAssumption, Zenon DEF Txns
<1>10. FALSE \in BOOLEAN /\ ld.clean \in BOOLEAN /\ 0 \in Nat
  BY <1>2, Zenon DEF Loaders
<1>11. "load" # "loadcommit" /\ Begin # End /\ Begin \notin Ops /\ End \notin Ops
  BY OpsFacts DEF Begin, End, OpNames
<1> HIDE DEF g, h
<1>12. CASE r.op = "Begin"
  <2>1. r = Begin /\ r \notin Ops
    BY <1>5, <1>11, <1>12, RecordFacts, Zenon
  <2>2. /\ ld' = [ld EXCEPT !.pos = p + 1, !.clean = FALSE, !.txn = IF s = NoTxn THEN <<>> ELSE s]
        /\ UNCHANGED <<pc, table, seq>>
    BY <1>12, <2>1, OpsFacts DEF LoadRecord, OpNames
  <2>3. /\ ld' \in Loaders(Len(file)) /\ ld'.pos = p + 1 /\ ld'.j = 0
        /\ ld'.txn = IF s = NoTxn THEN <<>> ELSE s
    <3>1. (IF s = NoTxn THEN <<>> ELSE s) \in Txns
      BY <1>3, <1>9, Zenon
    <3> QED BY <1>2, <1>4, <1>6, <1>10, <2>2, <3>1, Zenon DEF Loaders
  <2>4. h.open /\ h.com = table /\ h.mem = g.mem
    BY <1>6, <1>7, <1>8, <2>1, Zenon
  <2>5. s = NoTxn => g.mem = table
    BY <1>5, <1>6, Zenon
  <2>6. PlaysTo(table, ld'.txn, 0, h.mem) /\ ld'.txn # NoTxn
    <3>1. CASE s = NoTxn
      BY <1>3, <1>9, <2>3, <2>4, <2>5, <3>1, PlaysNone, Zenon
    <3>2. CASE s # NoTxn
      BY <1>6, <2>3, <2>4, <3>2, Zenon
    <3> QED BY <3>1, <3>2, Zenon
  <2> QED BY <1>1, <1>3, <2>2, <2>3, <2>4, <2>6, LoaderAny, Zenon DEF h
<1>13. CASE r.op = "End"
  <2>1. r = End /\ r \notin Ops /\ r # Begin
    BY <1>5, <1>11, <1>13, RecordFacts, Zenon
  <2>2. /\ ld' = [ld EXCEPT !.pos = p + 1]
        /\ pc' = IF s = NoTxn THEN "load" ELSE "loadcommit"
        /\ UNCHANGED <<table, seq>>
    BY <1>13, <2>1, OpsFacts DEF LoadRecord, OpNames
  <2>3. ld' \in Loaders(Len(file)) /\ ld'.pos = p + 1 /\ ld'.j = 0 /\ ld'.txn = s
    BY <1>2, <1>4, <1>6, <2>2, Zenon DEF Loaders
  <2>4. ~h.open /\ h.com = g.mem
    BY <1>7, <1>8, <2>1, Zenon
  <2>5. CASE s = NoTxn
    <3>1. h.com = table /\ pc' = "load"
      BY <1>5, <1>6, <2>2, <2>4, <2>5, Zenon
    <3> QED BY <1>1, <1>3, <2>2, <2>3, <2>4, <2>5, <3>1, LoaderAny, Zenon DEF h
  <2>6. CASE s # NoTxn
    <3>1. pc' = "loadcommit" /\ PlaysTo(table, s, 0, h.com)
      BY <1>6, <2>2, <2>4, <2>6, Zenon
    <3>2. 0 <= Len(s)
      BY <1>9, <2>6
    <3> QED BY <1>1, <1>3, <2>2, <2>3, <2>4, <2>6, <3>1, <3>2, LoaderAny, Zenon DEF h
  <2> QED BY <2>5, <2>6, Zenon
<1>14. CASE r.op = "Seq"
  <2>1. r \notin Ops /\ r # Begin /\ r # End /\ r.seq \in Nat
    <3>1. r.op # "Begin" /\ r.op # "End" /\ r.op \notin OpNames
      BY <1>14 DEF OpNames
    <3> QED BY <1>5, <1>14, <3>1, RecordFacts, Zenon
  <2>2. ld' = [ld EXCEPT !.pos = p + 1] /\ seq' = r.seq /\ UNCHANGED <<pc, table>>
    BY <1>14, <2>1, OpsFacts DEF LoadRecord, OpNames
  <2>3. ld' \in Loaders(Len(file)) /\ ld'.pos = p + 1 /\ ld'.j = 0 /\ ld'.txn = s
    BY <1>2, <1>4, <1>6, <2>2, Zenon DEF Loaders
  <2>4. h.open = g.open /\ h.mem = g.mem /\ h.com = table
    <3>1. h.open \in BOOLEAN /\ g.open \in BOOLEAN
      <4>1. h \in Ghosts
        BY <1>5, GhostStepType, Zenon
      <4> QED BY <1>5, <4>1, Zenon DEF Ghosts
    <3> QED BY <1>5, <1>6, <1>7, <1>8, <2>1, <3>1, Zenon
  <2> QED BY <1>1, <1>3, <1>6, <2>1, <2>2, <2>3, <2>4, LoaderAny, Zenon DEF h
<1>15. CASE r \in Ops
  <2>1. r # Begin /\ r # End /\ r.op \notin {"Begin", "End", "Seq"}
    BY <1>11, <1>15, OpsFacts DEF OpNames
  <2>2. /\ ld' = [ld EXCEPT !.pos = p + 1, !.txn = IF s = NoTxn THEN s ELSE Append(s, r)]
        /\ table' = IF s = NoTxn THEN Play(table, r) ELSE table
        /\ UNCHANGED <<pc, seq>>
    BY <2>1, Zenon DEF LoadRecord
  <2>3. CASE s = NoTxn
    <3>1. ld' = [ld EXCEPT !.pos = p + 1, !.txn = s] /\ table' = Play(table, r)
      BY <2>2, <2>3, Zenon
    <3>2. ld' \in Loaders(Len(file)) /\ ld'.pos = p + 1 /\ ld'.j = 0 /\ ld'.txn = s
      BY <1>2, <1>3, <1>4, <1>6, <3>1, Zenon DEF Loaders
    <3>3. ~h.open /\ h.com = table' /\ table' \in Tables
      BY <1>3, <1>5, <1>6, <1>7, <2>1, <2>3, <3>1, PlayType, Zenon
    <3> QED BY <1>1, <1>3, <2>2, <2>3, <3>2, <3>3, LoaderAny, Zenon DEF h
  <2>4. CASE s # NoTxn
    <3>1. ld' = [ld EXCEPT !.pos = p + 1, !.txn = Append(s, r)] /\ table' = table
      BY <2>2, <2>4, Zenon
    <3>2. Append(s, r) \in Seq(Records)
      BY <1>5, <1>9, <2>4
    <3>3. Append(s, r) \in Txns /\ Append(s, r) # NoTxn
      BY <3>2, NoTxnAssumption, Zenon DEF Txns
    <3>4. ld' \in Loaders(Len(file)) /\ ld'.pos = p + 1 /\ ld'.j = 0 /\ ld'.txn = Append(s, r)
      BY <1>2, <1>4, <1>6, <3>1, <3>3, Zenon DEF Loaders
    <3>5. h.open /\ h.com = table /\ PlaysTo(table, Append(s, r), 0, h.mem)
      BY <1>5, <1>6, <1>7, <1>9, <2>1, <2>4, PlaysAppend, Zenon
    <3> QED BY <1>1, <1>3, <2>2, <3>1, <3>3, <3>4, <3>5, LoaderAny, Zenon DEF h
  <2> QED BY <2>3, <2>4, Zenon
<1> QED BY <1>12, <1>13, <1>14, <1>15, Zenon DEF LoadRecord

(* The loader plays a transaction that ended. *)
LEMMA LoadCommitAny ==
  ASSUME AnyFile, LoadCommit
  PROVE  AnyFile'
<1> DEFINE g == G(ld.pos)
           s == ld.txn
           j == ld.j
<1>1. /\ pc = "loadcommit"
      /\ UNCHANGED <<txn, parked, cm, disk, hist, tr, must, downs, acked>>
      /\ UNCHANGED seq
  BY Zenon DEF LoadCommit
<1>2. MemoryOK /\ ld \in Loaders(Len(file))
  BY AnyFileParts, Zenon
<1>3. j \in Nat /\ s \in Txns /\ table \in Tables /\ seq \in Nat /\ NoTxn \in Txns /\ 0 \in Nat
  BY <1>2, Zenon DEF Loaders, MemoryOK, Txns
<1>4. s # NoTxn /\ j <= Len(s) /\ ~g.open /\ PlaysTo(table, s, j, g.com)
  BY <1>1, Zenon DEF AnyFile, ReplayingAny
<1>5. s \in Seq(Records)
  BY <1>3, <1>4, Zenon DEF Txns
<1>6. Len(s) \in Nat
  BY <1>5
<1> HIDE DEF g
<1>7. CASE j < Len(s)
  <2>1. ld' = [ld EXCEPT !.j = j + 1] /\ table' = Play(table, s[j + 1]) /\ UNCHANGED pc
    BY <1>7, Zenon DEF LoadCommit
  <2>2. j + 1 \in Nat /\ j + 1 <= Len(s)
    BY <1>3, <1>6, <1>7
  <2>3. ld' \in Loaders(Len(file)) /\ ld'.pos = ld.pos /\ ld'.j = j + 1 /\ ld'.txn = s
    BY <1>2, <2>1, <2>2, Zenon DEF Loaders
  <2>4. table' \in Tables /\ PlaysTo(table', s, j + 1, g.com)
    BY <1>3, <1>4, <1>5, <1>7, <2>1, PlaysOne, Zenon
  <2> QED BY <1>1, <1>3, <1>4, <2>1, <2>2, <2>3, <2>4, LoaderAny, Zenon DEF g
<1>8. CASE ~(j < Len(s))
  <2>1. ld' = [ld EXCEPT !.j = 0, !.txn = NoTxn] /\ pc' = "load" /\ UNCHANGED table
    BY <1>8, Zenon DEF LoadCommit
  <2>2. j = Len(s)
    BY <1>3, <1>4, <1>6, <1>8
  <2>3. ld' \in Loaders(Len(file)) /\ ld'.pos = ld.pos /\ ld'.j = 0 /\ ld'.txn = NoTxn
    BY <1>2, <1>3, <2>1, Zenon DEF Loaders
  <2>4. table = g.com
    BY <1>4, <2>2, PlaysAll, Zenon
  <2> QED BY <1>1, <1>3, <1>4, <2>1, <2>3, <2>4, LoaderAny, Zenon DEF g
<1> QED BY <1>7, <1>8, Zenon

(* The end of the load. *)
LEMMA LoadEndAny ==
  ASSUME AnyFile, LoadFatal \/ LoadDone
  PROVE  AnyFile'
<1>1. DiskOK /\ MemoryOK /\ Len(file) \in Nat
  BY AnyFileParts, Zenon
<1>2. hist \subseteq Nat /\ downs \in Nat /\ seq \in Nat /\ torn \in BOOLEAN
  BY <1>1, Zenon DEF MemoryOK, DiskOK
<1>3. CASE LoadFatal
  <2>1. Halt /\ UNCHANGED <<file, gh, torn, glued, unended, flushed, synced>> /\ UNCHANGED <<hist, downs>>
    BY <1>3, Zenon DEF LoadFatal, disk
  <2>2. DiskOK'
    BY <1>1, <2>1, SameDisk, Zenon
  <2> QED BY <1>1, <1>2, <2>1, <2>2, HaltAny, Zenon
<1>4. CASE LoadDone
  <2>1. /\ must' = RequiresCleaning /\ ld' = NoLoad
        /\ pc' \in {"rotate", "ready"}
        /\ (Write(SeqRecord(seq)) /\ UNCHANGED <<flushed, synced>>) \/ UNCHANGED disk
        /\ UNCHANGED <<table, txn, parked, cm, seq, hist, tr, downs, acked>>
    BY <1>4, Zenon DEF LoadDone
  <2>2. DiskOK'
    <3>1. CASE Write(SeqRecord(seq)) /\ UNCHANGED <<flushed, synced>>
      BY <1>1, <1>2, <3>1, RecordTypes, WriteAny, Zenon
    <3>2. CASE UNCHANGED disk
      BY <1>1, <3>2, SameDisk, Zenon DEF disk
    <3> QED BY <2>1, <3>1, <3>2, Zenon
  <2>3. must' \in BOOLEAN
    BY <2>1, Zenon DEF RequiresCleaning
  <2>4. /\ pc' \in PCs /\ pc' \notin {"append", "commit", "down"}
        /\ pc' \notin {"load", "loadcommit", "trunc"}
    BY <2>1 DEF PCs
  <2>5. MemoryOK'
    BY <1>1, <2>1, <2>3, <2>4, Zenon DEF MemoryOK
  <2> QED BY <2>1, <2>2, <2>4, <2>5, RestingAny, Zenon
<1> QED BY <1>3, <1>4, Zenon

-----------------------------------------------------------------------------
(* The rotation, on any file. *)

(* A rotation that fails: the daemon goes on with the old file or gives up. *)
LEMMA TruncFailedAny ==
  ASSUME AnyFile, TruncNoHistory \/ TruncNoTmp \/ TruncRenameFails
  PROVE  AnyFile'
<1>1. DiskOK /\ MemoryOK /\ Len(file) \in Nat
  BY AnyFileParts, Zenon
<1>2. PICK f \in {flushed, Len(file)} :
        /\ TruncFailed(f) /\ hist' \in {hist, SaveHistoricalLogs}
        /\ UNCHANGED <<file, synced, torn, glued, unended, gh, downs>>
        /\ pc \in {"rotate", "ready", "trunc"}
  BY Zenon DEF TruncNoHistory, TruncNoTmp, TruncRenameFails, TruncRequested, DumpDone
<1>3. hist \subseteq Nat /\ downs \in Nat /\ seq \in Nat
  BY <1>1, Zenon DEF MemoryOK
<1>4. hist' \subseteq Nat
  BY <1>2, <1>3, Zenon DEF SaveHistoricalLogs
<1>5. flushed' = Len(file) \/ flushed' = flushed
  BY <1>2, Zenon DEF TruncFailed
<1>6. DiskOK'
  BY <1>1, <1>2, <1>5, SameDisk, Zenon
<1>7. CASE must
  <2>1. Halt
    BY <1>2, <1>7, Zenon DEF TruncFailed
  <2> QED BY <1>1, <1>2, <1>3, <1>4, <1>6, <2>1, HaltAny, Zenon
<1>8. CASE ~must
  <2>1. pc' = "ready" /\ tr' = NoDump /\ UNCHANGED <<table, txn, parked, cm, seq, ld, must, acked>>
    BY <1>2, <1>8, Zenon DEF TruncFailed
  <2>2. /\ pc' \in PCs /\ pc' \notin {"append", "commit", "down"}
        /\ pc' \notin {"load", "loadcommit", "trunc"} /\ pc \notin {"load", "loadcommit"}
    BY <1>2, <2>1 DEF PCs
  <2>3. MemoryOK'
    BY <1>1, <1>2, <1>4, <2>1, <2>2, NoDumpType, Zenon DEF MemoryOK, Dumps
  <2>4. ld' = NoLoad
    BY <2>1, <2>2, Zenon DEF AnyFile
  <2> QED BY <1>6, <2>2, <2>3, <2>4, RestingAny, Zenon
<1> QED BY <1>7, <1>8, Zenon

(* A step of a dump. *)
LEMMA DumpAny ==
  ASSUME AnyFile, pc' = "trunc", pc \in {"rotate", "ready", "trunc"}, hist' \subseteq Nat,
         tr' \in Dumps, Accounts(tr'.tmp, tr'.tgh), Len(tr'.tmp) # 0,
         \A k \in tr'.keys : table[k] # NoAd,
         \A n \in tr'.names : tr'.key \in Keys /\ table[tr'.key] # NoAd /\ table[tr'.key][n] # Unset,
         UNCHANGED <<table, txn, parked, cm, disk, seq, ld, must, downs, acked>>
  PROVE  AnyFile'
<1>1. DiskOK /\ MemoryOK /\ ld \in Loaders(Len(file))
  BY AnyFileParts, Zenon
<1>2. UNCHANGED <<file, gh, torn, glued, unended, flushed, synced>>
  BY Zenon DEF disk
<1>3. DiskOK'
  BY <1>1, <1>2, SameDisk, Zenon
<1>4. /\ pc' \in PCs /\ pc' \notin {"append", "commit", "down"}
      /\ pc' \notin {"load", "loadcommit"} /\ pc \notin {"load", "loadcommit"}
  BY DEF PCs
<1>5. MemoryOK'
  BY <1>1, <1>4, Zenon DEF MemoryOK
<1>6. DumpingAny'
  BY Zenon DEF DumpingAny
<1>7. LoadingAny' /\ ReplayingAny'
  BY <1>4, Zenon DEF LoadingAny, ReplayingAny
<1>8. ld' = NoLoad /\ ld' \in Loaders(Len(file'))
  BY <1>1, <1>2, <1>4, Zenon DEF AnyFile
<1>9. Len(gh') = Len(file')
  BY <1>3, Zenon DEF DiskOK, Accounts
<1> QED BY <1>3, <1>5, <1>6, <1>7, <1>8, <1>9, Zenon DEF AnyFile, TypeOK, DiskOK, MemoryOK, Loaders, Dumps

(* The dump starts with the sequence number. *)
LEMMA TruncStartAny ==
  ASSUME AnyFile, TruncStart
  PROVE  AnyFile'
<1> DEFINE r == SeqRecord(seq + 1)
           h == GhostStep(GhostInit, r)
           K == {k \in Keys : table[k] # NoAd}
<1>1. MemoryOK
  BY AnyFileParts, Zenon
<1>2. seq \in Nat /\ hist \subseteq Nat
  BY <1>1, Zenon DEF MemoryOK
<1>3. seq + 1 \in Nat
  BY <1>2
<1>4. r \in Records /\ h \in Ghosts
  BY <1>3, RecordTypes, GhostInitType, GhostStepType, Zenon
<1>5. /\ TruncRequested /\ hist' = SaveHistoricalLogs /\ pc' = "trunc"
      /\ tr' = [keys |-> K, key |-> NoAd, names |-> {}, tmp |-> <<r>>, tgh |-> <<h>>]
      /\ UNCHANGED <<table, txn, parked, cm, disk, seq, ld, must, downs, acked>>
  BY Zenon DEF TruncStart
<1> HIDE DEF r
<1>6. h = GhostStep(At(<<h>>, 0), r)
  BY Zenon DEF At
<1> HIDE DEF h
<1>7. <<r>> \in Seq(Records) /\ <<h>> \in Seq(Ghosts) /\ Len(<<r>>) = 1
  BY <1>4
<1>8. Accounts(<<r>>, <<h>>)
  <2>1. Len(<<h>>) = 1 /\ <<r>>[1] = r /\ <<h>>[1] = h /\ \A i \in 1..1 : i = 1 /\ i - 1 = 0
    OBVIOUS
  <2> QED BY <1>6, <1>7, <2>1, Zenon DEF Accounts
<1>9. hist' \subseteq Nat /\ pc \in {"rotate", "ready", "trunc"} /\ K \subseteq Keys /\ 1 # 0
  <2>1. hist' \subseteq Nat /\ pc \in {"rotate", "ready", "trunc"} /\ K \subseteq Keys
    BY <1>2, <1>5, Zenon DEF SaveHistoricalLogs, TruncRequested
  <2>2. 1 # 0
    OBVIOUS
  <2> QED BY <2>1, <2>2, Zenon
<1>10. /\ tr'.keys = K /\ tr'.names = {} /\ tr'.tmp = <<r>> /\ tr'.tgh = <<h>>
       /\ tr' \in Dumps
  BY <1>5, <1>7, <1>9, Zenon DEF Dumps
<1>11. \A k \in K : table[k] # NoAd
  BY Zenon
<1> HIDE DEF K
<1>12. /\ Accounts(tr'.tmp, tr'.tgh) /\ Len(tr'.tmp) # 0
       /\ \A k \in tr'.keys : table[k] # NoAd
       /\ \A n \in tr'.names : tr'.key \in Keys /\ table[tr'.key] # NoAd /\ table[tr'.key][n] # Unset
  BY <1>7, <1>8, <1>9, <1>10, <1>11, Zenon
<1> QED BY <1>5, <1>9, <1>10, <1>12, DumpAny, Zenon

(* A record of the dump is written. *)
LEMMA DumpRecordAny ==
  ASSUME AnyFile, pc = "trunc", NEW r \in Records, NEW rest \in Dumps,
         rest.tmp = tr.tmp, rest.tgh = tr.tgh,
         \A k \in rest.keys : table[k] # NoAd,
         \A n \in rest.names : rest.key \in Keys /\ table[rest.key] # NoAd /\ table[rest.key][n] # Unset,
         DumpRecord(r, rest)
  PROVE  AnyFile'
<1> DEFINE f == tr.tmp
           g == tr.tgh
           f2 == Append(f, r)
           g2 == Append(g, GhostStep(At(g, Len(f)), r))
<1>1. MemoryOK /\ Accounts(f, g) /\ Len(f) # 0
  BY AnyFileParts, Zenon DEF AnyFile, DumpingAny
<1>2. f \in Seq(Records) /\ g \in Seq(Ghosts) /\ hist \subseteq Nat
  BY <1>1, Zenon DEF MemoryOK, Dumps
<1>3. g[Len(g)] = At(g, Len(f))
  BY <1>1, Zenon DEF Accounts, At
<1>4. /\ tr' = [rest EXCEPT !.tmp = f2, !.tgh = g2]
      /\ UNCHANGED <<pc, table, txn, parked, cm, disk, seq, hist, ld, must, downs, acked>>
  BY <1>3, Zenon DEF DumpRecord
<1>5. f2 \in Seq(Records) /\ g2 \in Seq(Ghosts) /\ Len(f2) = Len(f) + 1 /\ Accounts(f2, g2)
  BY <1>1, <1>2, AccountsAppend, Zenon
<1> HIDE DEF f2, g2
<1>6. Len(f2) # 0
  <2>1. Len(f) \in Nat
    BY <1>2
  <2> QED BY <1>5, <2>1
<1>7. /\ tr' \in Dumps /\ tr'.tmp = f2 /\ tr'.tgh = g2
      /\ tr'.keys = rest.keys /\ tr'.names = rest.names /\ tr'.key = rest.key
  BY <1>4, <1>5, Zenon DEF Dumps
<1>8. pc \in {"rotate", "ready", "trunc"} /\ pc' = "trunc" /\ hist' \subseteq Nat
  BY <1>2, <1>4, Zenon
<1>9. /\ Accounts(tr'.tmp, tr'.tgh) /\ Len(tr'.tmp) # 0
      /\ \A k \in tr'.keys : table[k] # NoAd
      /\ \A n \in tr'.names : tr'.key \in Keys /\ table[tr'.key] # NoAd /\ table[tr'.key][n] # Unset
  BY <1>5, <1>6, <1>7, Zenon
<1> QED BY <1>4, <1>7, <1>8, <1>9, DumpAny, Zenon

(* An ad, and the attributes of it, are dumped. *)
LEMMA DumpStepsAny ==
  ASSUME AnyFile, (\E k \in Keys : DumpAd(k)) \/ (\E n \in Names : DumpAttribute(n))
  PROVE  AnyFile'
<1>1. MemoryOK
  BY AnyFileParts, Zenon
<1>2. tr \in Dumps /\ table \in Tables
  BY <1>1, Zenon DEF MemoryOK
<1>3. ASSUME NEW k \in Keys, DumpAd(k) PROVE AnyFile'
  <2> DEFINE N == {n \in Names : table[k][n] # Unset}
             rest == [tr EXCEPT !.keys = tr.keys \ {k}, !.key = k, !.names = N]
  <2>1. pc = "trunc" /\ k \in tr.keys /\ DumpRecord([op |-> "New", key |-> k], rest)
    BY <1>3, Zenon DEF DumpAd
  <2>2. [op |-> "New", key |-> k] \in Records
    BY RecordTypes, Zenon
  <2>3. \A x \in tr.keys : table[x] # NoAd
    BY <2>1, Zenon DEF AnyFile, DumpingAny
  <2>4. \A n \in N : table[k][n] # Unset /\ n \in Names
    BY Zenon
  <2>5. tr.keys \ {k} \subseteq Keys /\ N \subseteq Names
    BY <1>2, Zenon DEF Dumps
  <2> HIDE DEF N
  <2>6. /\ rest \in Dumps /\ rest.tmp = tr.tmp /\ rest.tgh = tr.tgh
        /\ rest.keys = tr.keys \ {k} /\ rest.key = k /\ rest.names = N
    BY <1>2, <2>5, Zenon DEF Dumps
  <2> HIDE DEF rest
  <2>7. /\ \A x \in rest.keys : table[x] # NoAd
        /\ \A n \in rest.names : rest.key \in Keys /\ table[rest.key] # NoAd /\ table[rest.key][n] # Unset
    BY <2>1, <2>3, <2>4, <2>6, Zenon
  <2> QED BY <2>1, <2>2, <2>6, <2>7, DumpRecordAny, Zenon
<1>4. ASSUME NEW n \in Names, DumpAttribute(n) PROVE AnyFile'
  <2> DEFINE rest == [tr EXCEPT !.names = tr.names \ {n}]
             v == table[tr.key][n]
             r == [op |-> "Set", key |-> tr.key, name |-> n, val |-> v]
  <2>1. pc = "trunc" /\ n \in tr.names /\ DumpRecord(r, rest)
    BY <1>4, Zenon DEF DumpAttribute
  <2>2. /\ \A x \in tr.keys : table[x] # NoAd
        /\ \A x \in tr.names : tr.key \in Keys /\ table[tr.key] # NoAd /\ table[tr.key][x] # Unset
    BY <2>1, Zenon DEF AnyFile, DumpingAny
  <2>3. v \in Values
    BY <1>2, <2>1, <2>2, Zenon DEF Tables, Ads
  <2>4. r \in Records
    BY <2>1, <2>2, <2>3, RecordTypes, Zenon
  <2>5. tr.names \ {n} \subseteq Names
    BY <1>2, Zenon DEF Dumps
  <2>6. /\ rest \in Dumps /\ rest.tmp = tr.tmp /\ rest.tgh = tr.tgh
        /\ rest.keys = tr.keys /\ rest.key = tr.key /\ rest.names = tr.names \ {n}
    BY <1>2, <2>5, Zenon DEF Dumps
  <2> HIDE DEF rest, r
  <2>7. /\ \A x \in rest.keys : table[x] # NoAd
        /\ \A x \in rest.names : rest.key \in Keys /\ table[rest.key] # NoAd /\ table[rest.key][x] # Unset
    BY <2>2, <2>6, Zenon
  <2> QED BY <2>1, <2>4, <2>6, <2>7, DumpRecordAny, Zenon
<1> QED BY <1>3, <1>4, Zenon

(* The dump, or what a failed flush left of it, becomes the log. *)
LEMMA TruncRenameAny ==
  ASSUME AnyFile,
         TruncRename \/ (\E n \in 0..Len(tr.tmp) : TruncRenamePartial(n)) \/ TruncRenameUnsynced
  PROVE  AnyFile'
<1> DEFINE f == tr.tmp
           g == tr.tgh
<1>1. /\ pc = "trunc" /\ pc' = "ready" /\ seq' = seq + 1 /\ tr' = NoDump /\ must' = FALSE
      /\ torn' \in BOOLEAN /\ glued' = 0 /\ unended' = 0
      /\ UNCHANGED <<table, txn, parked, cm, hist, ld, downs, acked>>
  BY Zenon DEF TruncRename, TruncRenamePartial, TruncRenameUnsynced, DumpDone
<1>2. MemoryOK /\ Accounts(f, g)
  BY <1>1, AnyFileParts, Zenon DEF AnyFile, DumpingAny
<1>3. f \in Seq(Records) /\ g \in Seq(Ghosts) /\ seq \in Nat
  BY <1>2, Zenon DEF MemoryOK, Dumps
<1>4. Len(f) \in Nat /\ seq + 1 \in Nat /\ 0 \in Nat
  BY <1>3
<1>5. DiskOK'
  <2>1. CASE TruncRename \/ TruncRenameUnsynced
    <3>1. file' = f /\ gh' = g /\ flushed' = Len(f) /\ synced' \in {0, Len(f)}
      BY <2>1, Zenon DEF TruncRename, TruncRenameUnsynced
    <3>2. flushed' \in 0..Len(f) /\ synced' \in 0..flushed'
      BY <1>4, <3>1
    <3> QED BY <1>1, <1>2, <1>3, <1>4, <3>1, <3>2, Zenon DEF DiskOK
  <2>2. CASE \E n \in 0..Len(tr.tmp) : TruncRenamePartial(n)
    <3>1. PICK n \in 0..Len(f) : TruncRenamePartial(n)
      BY <2>2, Zenon
    <3>2. file' = SubSeq(f, 1, n) /\ gh' = SubSeq(g, 1, n) /\ flushed' = n /\ synced' = n
      BY <3>1, Zenon DEF TruncRenamePartial
    <3>3. file' \in Seq(Records) /\ gh' \in Seq(Ghosts) /\ Len(file') = n /\ Accounts(file', gh')
      BY <1>2, <1>3, <3>2, AccountsCut, Zenon
    <3>4. n \in 0..n
      BY <1>4
    <3> QED BY <1>1, <1>4, <3>2, <3>3, <3>4, Zenon DEF DiskOK
  <2> QED BY <2>1, <2>2, Zenon
<1>6. /\ pc' \in PCs /\ pc' \notin {"append", "commit", "down"}
      /\ pc' \notin {"load", "loadcommit", "trunc"} /\ pc \notin {"load", "loadcommit"}
  BY <1>1 DEF PCs
<1>7. MemoryOK'
  BY <1>1, <1>2, <1>4, <1>6, NoDumpType, Zenon DEF MemoryOK, Dumps
<1>8. ld' = NoLoad
  BY <1>1, <1>6, Zenon DEF AnyFile
<1> QED BY <1>5, <1>6, <1>7, <1>8, RestingAny, Zenon

-----------------------------------------------------------------------------
(* A fresh daemon has an empty log. *)
LEMMA AnyFileInit == Init => AnyFile
<1> SUFFICES ASSUME Init PROVE AnyFile
  OBVIOUS
<1>1. <<>> \in Seq(Records) /\ <<>> \in Seq(Ghosts) /\ Len(<<>>) = 0 /\ 1..0 = {} /\ 0 \in 0..0 /\ 0 \in Nat
  OBVIOUS
<1>2. DiskOK
  BY <1>1, Zenon DEF Init, DiskOK, Accounts
<1>3. pc \in PCs /\ pc \notin {"load", "loadcommit", "trunc", "append", "commit"}
  BY DEF Init, PCs
<1>4. MemoryOK
  BY <1>1, <1>3, EmptyTypes, NoCommitType, NoDumpType, Zenon DEF Init, MemoryOK, Txns, Dumps
<1>5. ld = NoLoad /\ ld \in Loaders(Len(file))
  BY <1>1, NoLoadType, Zenon DEF Init, Loaders
<1>6. LoadingAny /\ ReplayingAny /\ DumpingAny
  BY <1>3, Zenon DEF LoadingAny, ReplayingAny, DumpingAny
<1> QED BY <1>2, <1>4, <1>5, <1>6, AnyFileParts, Zenon

(* Every step keeps the account of the file and what the loader made of it. *)
LEMMA AnyFileStep == AnyFile /\ [Next]_vars => AnyFile'
<1> SUFFICES ASSUME AnyFile, [Next]_vars PROVE AnyFile'
  OBVIOUS
<1>1. CASE Client
  BY <1>1, BufferAny, RunningAny, DownAny, Zenon DEF Client
<1>2. CASE AppendLogDone \/ CommitRecord \/ CommitDone
  BY <1>2, RunningAny, Zenon
<1>3. CASE Crash
  BY <1>3, DownAny, Zenon
<1>4. CASE Load
  BY <1>4, RestartAny, LoadRecordAny, LoadCommitAny, LoadEndAny, Zenon DEF Load
<1>5. CASE Trunc
  BY <1>5, TruncFailedAny, TruncStartAny, DumpStepsAny, TruncRenameAny, Zenon DEF Trunc
<1>6. CASE UNCHANGED vars
  <2>1. /\ UNCHANGED <<pc, table, txn, parked, cm, seq, hist, ld, tr, must, downs, acked>>
        /\ UNCHANGED <<file, flushed, synced, torn, glued, unended, gh>>
    BY <1>6, Zenon DEF vars, disk
  <2>2. TypeOK'
    BY <2>1, Zenon DEF AnyFile, TypeOK
  <2>3. LoadingAny' /\ ReplayingAny'
    BY <2>1, Zenon DEF AnyFile, LoadingAny, ReplayingAny, G
  <2>4. DumpingAny' /\ Accounts(file', gh')
    BY <2>1, Zenon DEF AnyFile, DumpingAny
  <2>5. /\ (pc = "append" => Len(file) # 0)' /\ (pc = "commit" => cm.i >= 1 /\ txn # NoTxn)'
        /\ (pc \notin {"load", "loadcommit"} => ld = NoLoad)' /\ (pc = "down" => table = EmptyTable)'
    BY <2>1, Zenon DEF AnyFile
  <2> QED BY <2>2, <2>3, <2>4, <2>5, Zenon DEF AnyFile
<1> QED BY <1>1, <1>2, <1>3, <1>4, <1>5, <1>6, Zenon DEF Next

(* LoadClassAdLog rebuilds exactly the completed transactions of the part of
   the file that can be read, whatever crashes and failed rotations made of
   the file: nothing is assumed of Faults and OptionalTear. *)
THEOREM LoadingIsExact == Spec => []LoadReplaysPrefix
<1>1. AnyFile => LoadReplaysPrefix
  BY Zenon DEF AnyFile, LoadingAny, LoadReplaysPrefix
<1> QED BY <1>1, AnyFileInit, AnyFileStep, PTL DEF Spec

(* Every variable keeps its type and flushed, synced and the length of the
   file stay in order, whatever the daemon and the disk do and whenever it
   crashes. *)
THEOREM TypeCorrect == Spec => []TypeOK
<1>1. AnyFile => TypeOK
  BY Zenon DEF AnyFile
<1> QED BY <1>1, AnyFileInit, AnyFileStep, PTL DEF Spec

=============================================================================
