----------------------- MODULE ClassAdLogReaderProofs -----------------------
(***************************************************************************)
(* The mirror of a log is always what a prefix of one of its files makes,  *)
(* for any keys and values, any number of transactions, and any number of  *)
(* crashes and rotations of the writer between two reads.  ReaderInv says  *)
(* that the files begin with their numbers and that a poll goes on reading *)
(* only where the last one stopped, in the same file.                      *)
(***************************************************************************)
EXTENDS ClassAdLogReader, FiniteSetTheorems, TLAPS

LogFile == [records : Seq(LogRecords), half : LogRecords \cup {None}, cut : 0 .. 3]

Tables == [Keys -> Values \cup {Fresh, None}]

(* Every file starts with its number. *)
FilesOK ==
  /\ name \in Nat \ {0}
  /\ files \in [1 .. name -> LogFile]
  /\ \A n \in 1 .. name : Len(Records(n)) # 0 /\ Records(n)[1] = SeqRecord(n)
  /\ pending \in Seq(LogRecords)

(* Where a poll stands.  The file of the last probe is not younger than the one
   that was loaded, nor that one than the one which is open. *)
ReadingOK ==
  /\ step \in {"idle", "first", "last", "load"}
  /\ fp \in 1 .. name \cup {None} /\ loaded \in 1 .. name \cup {None}
  /\ last_size \in Nat /\ last_seq_num \in Nat /\ cur_probed_size \in Nat
  /\ cur_probed_seq_num \in Nat
  /\ step # "idle" => fp # None
  /\ loaded = None => last_seq_num = 0
  /\ loaded # None => last_seq_num <= loaded
  /\ fp # None /\ loaded # None => loaded <= fp
  /\ step \in {"last", "load"} => cur_probed_seq_num = fp
  /\ step = "last" => last_seq_num = fp
  /\ step = "load" => loaded = fp

(* What has been read. *)
MirrorOK ==
  /\ nextOffset \in Nat
  /\ mirror \in Tables
  /\ loaded = None => nextOffset = 0
  /\ loaded # None =>
       /\ nextOffset <= SizeOf(loaded)
       /\ mirror = Replay(SubSeq(Records(loaded), 1, nextOffset \div Width))

ReaderInv == FilesOK /\ ReadingOK /\ MirrorOK

-----------------------------------------------------------------------------
(* Recursion on the records. *)

(* A nonempty set of natural numbers has a least element. *)
LEMMA LeastExists ==
  ASSUME NEW S, S \subseteq Nat, S # {}
  PROVE  \E x \in S : \A y \in S : x <= y
<1>1. PICK x \in S : \A y \in S : ~(<<y, x>> \in OpToRel(<, Nat))
  BY NatLessThanWellFounded, WFMin, Zenon
<1>2. \A y \in S : ~(y < x)
  BY <1>1, Zenon DEF OpToRel
<1> QED
  BY <1>2

(* The tables that replaying the first n records goes through. *)
Replayed(f, records, n) ==
  /\ f = [i \in 0 .. n |-> f[i]]
  /\ f[0] = Empty
  /\ \A i \in 1 .. n : f[i] = Process(f[i - 1], records[i])

(* What WriteClassAdLogState has written after n of the keys. *)
Dumped(f, order, n) ==
  /\ f = [i \in 0 .. n |-> f[i]]
  /\ f[0] = <<SeqRecord(name + 1)>>
  /\ \A i \in 1 .. n : f[i] = f[i - 1] \o Image(order[i])

(* The recursion on the records ends. *)
LEMMA ReplayedExists ==
  ASSUME NEW records
  PROVE  \A n \in Nat : \E f : Replayed(f, records, n)
<1> DEFINE B == {n \in Nat : ~ \E f : Replayed(f, records, n)}
<1> SUFFICES ASSUME B # {} PROVE FALSE
  BY Zenon
<1>1. PICK n \in B : \A m \in B : n <= m
  BY LeastExists, Zenon
<1>2. n \in Nat /\ ~ \E f : Replayed(f, records, n)
  BY <1>1, Zenon
<1>3. CASE n = 0
  <2> DEFINE f == [i \in 0 .. 0 |-> Empty]
  <2>1. Replayed(f, records, 0)
    BY DEF Replayed
  <2> QED BY <1>2, <1>3, <2>1, Zenon
<1>4. CASE n # 0
  <2>1. n \in Nat \ {0} /\ n - 1 \in Nat /\ n - 1 \notin B
    BY <1>1, <1>2, <1>4
  <2>2. PICK g : Replayed(g, records, n - 1)
    BY <2>1, Zenon
  <2> DEFINE table == Process(g[n - 1], records[n])
             f == [i \in 0 .. n |-> IF i = n THEN table ELSE g[i]]
  <2> HIDE DEF table
  <2>3. /\ f = [i \in 0 .. n |-> f[i]]
        /\ f[0] = g[0] /\ f[n] = table /\ f[n - 1] = g[n - 1]
        /\ \A i \in 1 .. n : i = n \/ (i \in 1 .. n - 1 /\ f[i] = g[i] /\ f[i - 1] = g[i - 1])
    BY <2>1
  <2> HIDE DEF f
  <2>4. Replayed(f, records, n)
    BY <2>2, <2>3, Zenon DEF Replayed, table
  <2> QED BY <1>2, <2>4, Zenon
<1> QED BY <1>3, <1>4, Zenon

(* The recursion on the keys ends. *)
LEMMA DumpedExists ==
  ASSUME NEW order
  PROVE  \A n \in Nat : \E f : Dumped(f, order, n)
<1> DEFINE B == {n \in Nat : ~ \E f : Dumped(f, order, n)}
<1> SUFFICES ASSUME B # {} PROVE FALSE
  BY Zenon
<1>1. PICK n \in B : \A m \in B : n <= m
  BY LeastExists, Zenon
<1>2. n \in Nat /\ ~ \E f : Dumped(f, order, n)
  BY <1>1, Zenon
<1>3. CASE n = 0
  <2> DEFINE f == [i \in 0 .. 0 |-> <<SeqRecord(name + 1)>>]
  <2>1. Dumped(f, order, 0)
    BY DEF Dumped
  <2> QED BY <1>2, <1>3, <2>1, Zenon
<1>4. CASE n # 0
  <2>1. n \in Nat \ {0} /\ n - 1 \in Nat /\ n - 1 \notin B
    BY <1>1, <1>2, <1>4
  <2>2. PICK g : Dumped(g, order, n - 1)
    BY <2>1, Zenon
  <2> DEFINE more == g[n - 1] \o Image(order[n])
             f == [i \in 0 .. n |-> IF i = n THEN more ELSE g[i]]
  <2> HIDE DEF more
  <2>3. /\ f = [i \in 0 .. n |-> f[i]]
        /\ f[0] = g[0] /\ f[n] = more /\ f[n - 1] = g[n - 1]
        /\ \A i \in 1 .. n : i = n \/ (i \in 1 .. n - 1 /\ f[i] = g[i] /\ f[i - 1] = g[i - 1])
    BY <2>1
  <2> HIDE DEF f
  <2>4. Dumped(f, order, n)
    BY <2>2, <2>3, Zenon DEF Dumped, more
  <2> QED BY <1>2, <2>4, Zenon
<1> QED BY <1>3, <1>4, Zenon

(* What Replay goes through. *)
LEMMA ReplayIs ==
  ASSUME NEW records, Len(records) \in Nat
  PROVE  \E f : Replayed(f, records, Len(records)) /\ Replay(records) = f[Len(records)]
<1> DEFINE n == Len(records)
           Step(h) == [i \in 0 .. n |-> IF i = 0 THEN Empty ELSE Process(h[i - 1], records[i])]
           f == CHOOSE h : h = Step(h)
<1>1. Replay(records) = f[n]
  BY Zenon DEF Replay
<1>2. PICK g : Replayed(g, records, n)
  BY ReplayedExists, Zenon
<1>3. g = Step(g)
  <2>1. \A i \in 0 .. n : i # 0 => i \in 1 .. n
    OBVIOUS
  <2>2. \A i \in 0 .. n : g[i] = Step(g)[i]
    BY <1>2, <2>1, Zenon DEF Replayed
  <2>3. g = [i \in 0 .. n |-> g[i]]
    BY <1>2, Zenon DEF Replayed
  <2> HIDE DEF n
  <2> QED BY <2>2, <2>3, Zenon
<1>4. f = Step(f)
  BY <1>3, Zenon
<1> HIDE DEF f
<1>5. Replayed(f, records, n)
  <2>1. f[0] = Empty
    BY <1>4
  <2>2. \A i \in 1 .. n : f[i] = Process(f[i - 1], records[i])
    BY <1>4
  <2>3. f = [i \in 0 .. n |-> f[i]]
    BY <1>4, Zenon
  <2> QED BY <2>1, <2>2, <2>3, Zenon DEF Replayed
<1> QED BY <1>1, <1>5, Zenon

(* What WriteClassAdLogState goes through. *)
LEMMA WriteIs ==
  ASSUME NEW order, Cardinality(Keys) \in Nat
  PROVE  LET n == Cardinality(Keys)
         IN  \E f : Dumped(f, order, n) /\ WriteClassAdLogState(order) = f[n]
<1> DEFINE n == Cardinality(Keys)
           Step(h) == [i \in 0 .. n |->
             IF i = 0 THEN <<SeqRecord(name + 1)>> ELSE h[i - 1] \o Image(order[i])]
           f == CHOOSE h : h = Step(h)
<1>1. WriteClassAdLogState(order) = f[n]
  BY Zenon DEF WriteClassAdLogState
<1>2. PICK g : Dumped(g, order, n)
  BY DumpedExists, Zenon
<1>3. g = Step(g)
  <2>1. \A i \in 0 .. n : i # 0 => i \in 1 .. n
    OBVIOUS
  <2>2. \A i \in 0 .. n : g[i] = Step(g)[i]
    BY <1>2, <2>1, Zenon DEF Dumped
  <2>3. g = [i \in 0 .. n |-> g[i]]
    BY <1>2, Zenon DEF Dumped
  <2> HIDE DEF n
  <2> QED BY <2>2, <2>3, Zenon
<1>4. f = Step(f)
  BY <1>3, Zenon
<1> HIDE DEF f
<1>5. Dumped(f, order, n)
  <2>1. f[0] = <<SeqRecord(name + 1)>>
    BY <1>4
  <2>2. ASSUME NEW i \in 1 .. n PROVE f[i] = f[i - 1] \o Image(order[i])
    <3>1. i \in 0 .. n /\ i # 0
      OBVIOUS
    <3>2. f[i] = Step(f)[i]
      BY <1>4, Zenon
    <3> QED BY <3>1, <3>2, Zenon
  <2>3. f = [i \in 0 .. n |-> f[i]]
    BY <1>4, Zenon
  <2> QED BY <2>1, <2>2, <2>3, Zenon DEF Dumped
<1> QED BY <1>1, <1>5, Zenon

-----------------------------------------------------------------------------
(* What replaying makes. *)

(* A record makes a table of a table. *)
LEMMA ProcessType ==
  ASSUME NEW t \in Tables, NEW r \in LogRecords
  PROVE  Process(t, r) \in Tables
<1> DEFINE V == Values \cup {Fresh, None}
<1>1. Fresh \in V /\ None \in V /\ Values \subseteq V /\ t \in [Keys -> V]
  BY Zenon DEF Tables
<1> HIDE DEF V
<1>2. CASE \/ r \in [op : {"LogHistoricalSequenceNumber"}, key : Nat, value : {None}]
           \/ r \in [op : {"BeginTransaction", "EndTransaction"}, key : {None}, value : {None}]
  <2>1. r.op \in {"LogHistoricalSequenceNumber", "BeginTransaction", "EndTransaction"}
    BY <1>2, Zenon
  <2>2. r.op # "NewClassAd" /\ r.op # "DestroyClassAd" /\ r.op # "SetAttribute"
    BY <2>1
  <2>3. Process(t, r) = t
    BY <2>2 DEF Process
  <2> QED BY <2>3, Zenon
<1>3. CASE \/ r \in [op : {"NewClassAd"}, key : Keys, value : {Fresh}]
           \/ r \in [op : {"DestroyClassAd"}, key : Keys, value : {None}]
  <2>1. r.key \in Keys /\ (r.op = "NewClassAd" \/ r.op = "DestroyClassAd")
    BY <1>3, Zenon
  <2>2. Process(t, r) \in {[t EXCEPT ![r.key] = Fresh], [t EXCEPT ![r.key] = None]}
    BY <2>1 DEF Process
  <2>3. [t EXCEPT ![r.key] = Fresh] \in [Keys -> V] /\ [t EXCEPT ![r.key] = None] \in [Keys -> V]
    BY <1>1, <2>1, Zenon
  <2> QED BY <2>2, <2>3, Zenon DEF Tables, V
<1>4. CASE r \in [op : {"SetAttribute"}, key : Keys, value : Values]
  <2> DEFINE v == IF t[r.key] = None THEN None ELSE r.value
  <2>1. r.key \in Keys /\ r.op = "SetAttribute" /\ v \in V
    BY <1>1, <1>4, Zenon
  <2>2. Process(t, r) = [t EXCEPT ![r.key] = v]
    BY <2>1 DEF Process
  <2>3. [t EXCEPT ![r.key] = v] \in [Keys -> V]
    BY <1>1, <2>1, Zenon
  <2> QED BY <2>2, <2>3, Zenon DEF Tables, V
<1> QED BY <1>2, <1>3, <1>4, Zenon DEF LogRecords

(* Replaying makes tables. *)
LEMMA ReplayedType ==
  ASSUME NEW s \in Seq(LogRecords), NEW f, Replayed(f, s, Len(s)), NEW k \in 0 .. Len(s)
  PROVE  f[k] \in Tables
<1> DEFINE B == {j \in 0 .. Len(s) : f[j] \notin Tables}
<1>1. Len(s) \in Nat /\ \A i \in 1 .. Len(s) : s[i] \in LogRecords
  OBVIOUS
<1> SUFFICES ASSUME B # {} PROVE FALSE
  BY Zenon
<1>2. B \subseteq Nat
  BY <1>1
<1>3. PICK j \in B : \A m \in B : j <= m
  BY <1>2, LeastExists, Zenon
<1>4. j \in 0 .. Len(s) /\ f[j] \notin Tables
  BY <1>3, Zenon
<1>5. CASE j = 0
  <2>1. Empty \in Tables
    BY Zenon DEF Empty, Tables
  <2> QED BY <1>4, <1>5, <2>1, Zenon DEF Replayed
<1>6. CASE j # 0
  <2>1. j - 1 \in 0 .. Len(s) /\ ~(j <= j - 1) /\ j \in 1 .. Len(s)
    BY <1>1, <1>4, <1>6
  <2>2. f[j - 1] \in Tables
    BY <1>3, <2>1, Zenon
  <2>3. f[j] = Process(f[j - 1], s[j])
    BY <2>1, Zenon DEF Replayed
  <2> QED BY <1>1, <1>4, <2>1, <2>2, <2>3, ProcessType, Zenon
<1> QED BY <1>5, <1>6, Zenon

LEMMA ReplayType ==
  ASSUME NEW s \in Seq(LogRecords)
  PROVE  Replay(s) \in Tables
<1>1. Len(s) \in Nat /\ Len(s) \in 0 .. Len(s)
  OBVIOUS
<1>2. PICK f : Replayed(f, s, Len(s)) /\ Replay(s) = f[Len(s)]
  BY <1>1, ReplayIs, Zenon
<1> QED BY <1>1, <1>2, ReplayedType, Zenon

(* Two logs, and what is made of them, are the same up to the k-th record. *)
SameUpTo(s, t, k) == \A i \in 1 .. k : s[i] = t[i]
SameAt(f, g, k) == f[k] = g[k]

(* Two logs that begin with the same records make the same tables of them. *)
LEMMA ReplayedAgree ==
  ASSUME NEW m \in Nat, NEW k \in Nat, k <= m, NEW s, NEW t, SameUpTo(s, t, k),
         NEW f, NEW g, Replayed(f, s, m), Replayed(g, t, k)
  PROVE  SameAt(f, g, k)
<1> USE DEF SameUpTo, SameAt
<1> DEFINE B == {j \in 0 .. k : f[j] # g[j]}
<1>0. k \in 0 .. k
  OBVIOUS
<1> SUFFICES ASSUME B # {} PROVE FALSE
  BY <1>0, Zenon
<1>1. B \subseteq Nat
  OBVIOUS
<1>2. PICK j \in B : \A i \in B : j <= i
  BY <1>1, LeastExists, Zenon
<1>3. j \in 0 .. k /\ f[j] # g[j]
  BY <1>2, Zenon
<1>4. CASE j = 0
  BY <1>3, <1>4, Zenon DEF Replayed
<1>5. CASE j # 0
  <2>1. j - 1 \in 0 .. k /\ ~(j <= j - 1) /\ j \in 1 .. k /\ j \in 1 .. m
    BY <1>3, <1>5
  <2>2. f[j - 1] = g[j - 1]
    BY <1>2, <2>1, Zenon
  <2>3. f[j] = Process(f[j - 1], s[j]) /\ g[j] = Process(g[j - 1], t[j])
    BY <2>1, Zenon DEF Replayed
  <2> QED BY <1>3, <2>1, <2>2, <2>3, Zenon
<1> QED BY <1>4, <1>5, Zenon

(* One record more. *)
LEMMA ReplayStep ==
  ASSUME NEW s \in Seq(LogRecords), NEW i \in 1 .. Len(s)
  PROVE  Replay(SubSeq(s, 1, i)) = Process(Replay(SubSeq(s, 1, i - 1)), s[i])
<1> DEFINE t == SubSeq(s, 1, i)
           u == SubSeq(s, 1, i - 1)
<1>1. /\ i \in Nat /\ i - 1 \in Nat /\ i \in 1 .. i /\ i - 1 <= i /\ i - 1 <= i - 1
      /\ Len(t) = i /\ Len(u) = i - 1 /\ t[i] = s[i]
      /\ \A j \in 1 .. i - 1 : t[j] = u[j]
  OBVIOUS
<1> HIDE DEF t, u
<1>2. PICK f : Replayed(f, t, i) /\ Replay(t) = f[i]
  BY <1>1, ReplayIs
<1>3. PICK g : Replayed(g, u, i - 1) /\ Replay(u) = g[i - 1]
  BY <1>1, ReplayIs
<1>4. f[i - 1] = g[i - 1]
  <2> DEFINE k == i - 1
  <2>1. k \in Nat /\ k <= i /\ SameUpTo(t, u, k)
    BY <1>1, Zenon DEF SameUpTo
  <2>2. Replayed(g, u, k)
    BY <1>3, Zenon
  <2> HIDE DEF k
  <2>3. i \in Nat /\ Replayed(f, t, i)
    BY <1>1, <1>2, Zenon
  <2>4. SameAt(f, g, k)
    BY <2>1, <2>2, <2>3, ReplayedAgree, Zenon
  <2> QED BY <2>4, Zenon DEF SameAt, k
<1>5. f[i] = Process(f[i - 1], t[i])
  BY <1>1, <1>2, Zenon DEF Replayed
<1>6. Replay(t) = Process(Replay(u), s[i])
  BY <1>1, <1>2, <1>3, <1>4, <1>5, Zenon
<1> QED BY <1>6, Zenon DEF t, u

(* No record makes the empty table. *)
LEMMA ReplayNone ==
  ASSUME NEW s \in Seq(LogRecords)
  PROVE  Replay(SubSeq(s, 1, 0)) = Empty
<1> DEFINE t == SubSeq(s, 1, 0)
<1>1. Len(t) = 0
  OBVIOUS
<1> HIDE DEF t
<1>2. PICK f : Replayed(f, t, Len(t)) /\ Replay(t) = f[Len(t)]
  BY <1>1, ReplayIs
<1>3. Replay(t) = Empty
  BY <1>1, <1>2, Zenon DEF Replayed
<1> QED BY <1>3, Zenon DEF t

-----------------------------------------------------------------------------
(* The writer. *)

(* A file by itself. *)
LEMMA FileFacts ==
  ASSUME FilesOK, NEW n \in 1 .. name
  PROVE  /\ Records(n) \in Seq(LogRecords) /\ Len(Records(n)) \in Nat
         /\ files[n].cut \in 0 .. 3
         /\ SizeOf(n) \in Nat
         /\ SizeOf(n) = 4 * Len(Records(n)) + files[n].cut
<1>1. files[n] \in LogFile
  BY Zenon DEF FilesOK
<1>2. Records(n) \in Seq(LogRecords) /\ files[n].cut \in 0 .. 3
  BY <1>1, Zenon DEF LogFile, Records
<1>3. Len(Records(n)) \in Nat
  BY <1>2
<1> DEFINE L == Len(Records(n))
           c == files[n].cut
<1>4. SizeOf(n) = 4 * L + c
  BY Zenon DEF SizeOf, Width
<1> HIDE DEF L, c
<1>5. L \in Nat /\ c \in 0 .. 3
  BY <1>2, <1>3, Zenon DEF L, c
<1>6. 4 * L + c \in Nat
  BY <1>5
<1> QED BY <1>2, <1>3, <1>4, <1>6, Zenon DEF L, c

(* The records that the writer makes. *)
LEMMA RecordTypes ==
  /\ Begin \in LogRecords /\ End \in LogRecords
  /\ \A n \in Nat : SeqRecord(n) \in LogRecords /\ SeqRecord(n).key = n
  /\ \A k \in Keys : New(k) \in LogRecords /\ Destroy(k) \in LogRecords
  /\ \A k \in Keys, v \in Values : Set(k, v) \in LogRecords
BY Zenon DEF LogRecords, Begin, End, SeqRecord, New, Destroy, Set, Record

(* The committed part of a log is a log. *)
LEMMA TableType ==
  ASSUME FilesOK
  PROVE  Table \in Tables
<1> DEFINE s == Records(name)
<1>1. name \in 1 .. name
  BY DEF FilesOK
<1>2. s \in Seq(LogRecords)
  BY <1>1, FileFacts, Zenon
<1> HIDE DEF s
<1>3. Committed(s) \in Seq(LogRecords)
  <2>1. CASE InTransaction(s)
    <3> DEFINE i == CHOOSE i \in DOMAIN s : Unended(s, i)
    <3>1. i \in DOMAIN s
      BY <2>1, Zenon DEF InTransaction
    <3>2. Committed(s) = SubSeq(s, 1, i - 1)
      BY <2>1, Zenon DEF Committed
    <3> HIDE DEF i
    <3>3. SubSeq(s, 1, i - 1) \in Seq(LogRecords)
      BY <1>2, <3>1
    <3> QED BY <3>2, <3>3, Zenon
  <2>2. CASE ~InTransaction(s)
    BY <1>2, <2>2, Zenon DEF Committed
  <2> QED BY <2>1, <2>2, Zenon
<1> QED BY <1>3, ReplayType, Zenon DEF Table, s

(* An ad is written as records. *)
LEMMA ImageType ==
  ASSUME FilesOK, NEW k \in Keys
  PROVE  Image(k) \in Seq(LogRecords)
<1> DEFINE v == Table[k]
           a == IF v = None THEN <<>> ELSE <<New(k)>>
           b == IF v \in {None, Fresh} THEN <<>> ELSE <<Set(k, v)>>
<1>1. v \in Values \cup {Fresh, None}
  BY TableType, Zenon DEF Tables
<1>2. Image(k) = a \o b
  BY Zenon DEF Image
<1>3. New(k) \in LogRecords /\ (v \notin {None, Fresh} => Set(k, v) \in LogRecords)
  BY <1>1, RecordTypes, Zenon
<1>4. ASSUME NEW r \in LogRecords PROVE <<r>> \in Seq(LogRecords) /\ <<>> \in Seq(LogRecords)
  OBVIOUS
<1>5. <<>> \in Seq(LogRecords)
  OBVIOUS
<1>6. a \in Seq(LogRecords)
  BY <1>3, <1>4, <1>5, Zenon
<1>7. b \in Seq(LogRecords)
  BY <1>3, <1>4, <1>5, Zenon
<1> HIDE DEF a, b
<1>8. a \o b \in Seq(LogRecords)
  BY <1>6, <1>7
<1> QED BY <1>2, <1>8, Zenon

(* The log that a rotation writes begins with its number. *)
LEMMA WriteType ==
  ASSUME FilesOK, NEW order \in [1 .. Cardinality(Keys) -> Keys]
  PROVE  LET s == WriteClassAdLogState(order)
         IN  s \in Seq(LogRecords) /\ Len(s) # 0 /\ s[1] = SeqRecord(name + 1)
<1> DEFINE n == Cardinality(Keys)
           Good(s) == s \in Seq(LogRecords) /\ Len(s) # 0 /\ s[1] = SeqRecord(name + 1)
<1>1. n \in Nat
  BY ReaderAssumption, FS_CardinalityType, Zenon
<1>2. PICK f : Dumped(f, order, n) /\ WriteClassAdLogState(order) = f[n]
  BY <1>1, WriteIs, Zenon
<1> HIDE DEF n
<1> DEFINE B == {j \in 0 .. n : ~Good(f[j])}
<1>3. n \in 0 .. n
  BY <1>1
<1> SUFFICES ASSUME B # {} PROVE FALSE
  BY <1>2, <1>3, Zenon
<1>4. B \subseteq Nat
  BY <1>1
<1>5. PICK j \in B : \A i \in B : j <= i
  BY <1>4, LeastExists, Zenon
<1>6. j \in 0 .. n /\ ~Good(f[j])
  BY <1>5, Zenon
<1>7. CASE j = 0
  <2> DEFINE r == SeqRecord(name + 1)
  <2>1. name + 1 \in Nat
    BY DEF FilesOK
  <2>2. r \in LogRecords
    BY <2>1, RecordTypes, Zenon
  <2>3. f[0] = <<r>>
    BY <1>2, Zenon DEF Dumped
  <2> HIDE DEF r
  <2>4. <<r>> \in Seq(LogRecords) /\ Len(<<r>>) # 0 /\ <<r>>[1] = r
    BY <2>2
  <2> QED BY <1>6, <1>7, <2>3, <2>4, Zenon DEF r
<1>8. CASE j # 0
  <2> DEFINE s == f[j - 1]
             t == Image(order[j])
  <2>1. j - 1 \in 0 .. n /\ ~(j <= j - 1) /\ j \in 1 .. n
    BY <1>1, <1>6, <1>8
  <2>2. Good(s)
    BY <1>5, <2>1, Zenon
  <2>3. f[j] = s \o t
    BY <1>2, <2>1, Zenon DEF Dumped
  <2>4. t \in Seq(LogRecords)
    BY <2>1, ImageType, Zenon DEF n
  <2> HIDE DEF s, t
  <2>5. s \o t \in Seq(LogRecords) /\ Len(s \o t) # 0 /\ (s \o t)[1] = s[1]
    BY <2>2, <2>4
  <2> QED BY <1>6, <2>2, <2>3, <2>5, Zenon
<1> QED BY <1>7, <1>8, Zenon

(* What the writer may do to the files: records are added to them. *)
FilesGrow ==
  /\ name <= name'
  /\ \A n \in 1 .. name :
       /\ SizeOf(n) <= SizeOf(n)'
       /\ \A k \in 0 .. Len(Records(n)) : SubSeq(Records(n)', 1, k) = SubSeq(Records(n), 1, k)

(* The files stay. *)
LEMMA FilesStay ==
  ASSUME FilesOK, UNCHANGED <<files, name>>
  PROVE  FilesGrow
<1>1. name <= name
  BY DEF FilesOK
<1>2. ASSUME NEW n \in 1 .. name PROVE SizeOf(n) <= SizeOf(n)' /\ Records(n)' = Records(n)
  <2>1. SizeOf(n)' = SizeOf(n) /\ Records(n)' = Records(n)
    BY Zenon DEF SizeOf, Records
  <2>2. SizeOf(n) <= SizeOf(n)
    BY FileFacts
  <2> QED BY <2>1, <2>2, Zenon
<1> QED BY <1>1, <1>2, Zenon DEF FilesGrow

(* A transaction is about to be written. *)
LEMMA CommitFiles ==
  ASSUME FilesOK, CommitTransaction
  PROVE  FilesOK' /\ FilesGrow
<1>1. UNCHANGED <<files, name>>
  BY Zenon DEF CommitTransaction
<1>2. PICK k, u :
        /\ k \in Keys /\ u \in Updates(k)
        /\ pending' \in {<<Begin>> \o u \o <<End>>} \cup (IF Len(u) = 1 THEN {u} ELSE {})
  BY Zenon DEF CommitTransaction
<1>3. u \in Seq(LogRecords)
  <2>1. \/ \E v \in Values : u = <<New(k), Set(k, v)>>
        \/ \E v \in Values : u = <<Set(k, v)>>
        \/ u = <<Destroy(k)>>
    <3>1. u \in {<<New(k), Set(k, v)>> : v \in Values}
            \/ u \in {<<Set(k, v)>> : v \in Values} \/ u = <<Destroy(k)>>
      BY <1>2, Zenon DEF Updates
    <3>2. CASE u \in {<<New(k), Set(k, v)>> : v \in Values}
      BY <3>2
    <3>3. CASE u \in {<<Set(k, v)>> : v \in Values}
      BY <3>3
    <3> QED BY <3>1, <3>2, <3>3, Zenon
  <2>2. ASSUME NEW r \in LogRecords, NEW q \in LogRecords
        PROVE  <<r>> \in Seq(LogRecords) /\ <<r, q>> \in Seq(LogRecords)
    OBVIOUS
  <2> QED BY <1>2, <2>1, <2>2, RecordTypes, Zenon
<1>4. <<Begin>> \o u \o <<End>> \in Seq(LogRecords)
  <2>1. Begin \in LogRecords /\ End \in LogRecords
    BY RecordTypes, Zenon
  <2> QED BY <1>3, <2>1
<1>5. pending' \in Seq(LogRecords)
  BY <1>2, <1>3, <1>4, Zenon
<1>6. FilesOK'
  BY <1>1, <1>5, Zenon DEF FilesOK, Records
<1> QED BY <1>1, <1>6, FilesStay, Zenon

(* A part of a record is written, or the rest of it. *)
LEMMA WriteFiles ==
  ASSUME FilesOK, Write
  PROVE  FilesOK' /\ FilesGrow
<1> DEFINE f == files[name]
           r == Head(pending)
           g == [records |-> Append(f.records, r), half |-> None, cut |-> 0]
           H(c) == [records |-> f.records, half |-> r, cut |-> c]
<1>1. name \in Nat \ {0} /\ name \in 1 .. name /\ name <= name
  BY DEF FilesOK
<1>2. /\ files \in [1 .. name -> LogFile] /\ f \in LogFile
      /\ pending # <<>> /\ pending \in Seq(LogRecords)
  BY <1>1, Zenon DEF FilesOK, Write
<1>3. r \in LogRecords /\ Tail(pending) \in Seq(LogRecords)
  BY <1>2
<1>4. UNCHANGED name
  BY Zenon DEF Write
<1>5. \/ (\E c \in Cuts(r) : c > f.cut /\ files' = [files EXCEPT ![name] = H(c)]) /\ UNCHANGED pending
      \/ files' = [files EXCEPT ![name] = g] /\ pending' = Tail(pending)
  BY Zenon DEF Write
<1>6. \A c \in Cuts(r) : c \in 0 .. 3
  BY DEF Cuts, Body, Comment, Newline
<1> DEFINE s == f.records
<1>7. s = Records(name) /\ s \in Seq(LogRecords) /\ Len(s) \in Nat /\ Len(s) # 0 /\ s[1] = SeqRecord(name)
  BY <1>1, FileFacts, Zenon DEF FilesOK, Records
<1>8. ASSUME NEW c \in Cuts(r) PROVE H(c) \in LogFile /\ H(c).records = s /\ H(c).cut = c
  BY <1>2, <1>3, <1>6, Zenon DEF LogFile
<1>9. g \in LogFile /\ g.records = Append(s, r) /\ g.cut = 0
  <2>1. Append(s, r) \in Seq(LogRecords)
    BY <1>3, <1>7
  <2>2. 0 \in 0 .. 3
    OBVIOUS
  <2> QED BY <2>1, <2>2, Zenon DEF LogFile
<1>10. /\ Len(Append(s, r)) = Len(s) + 1 /\ Append(s, r)[1] = s[1]
       /\ \A k \in 0 .. Len(s) : SubSeq(Append(s, r), 1, k) = SubSeq(s, 1, k)
  <2> HIDE DEF s, r
  <2> QED BY <1>3, <1>7
<1>11. SizeOf(name) = 4 * Len(s) + f.cut /\ f.cut \in 0 .. 3
  BY <1>1, <1>7, FileFacts, Zenon
<1> HIDE DEF f, g, H, r, s
<1>12. ASSUME NEW x \in LogFile, files' = [files EXCEPT ![name] = x],
              Len(x.records) # 0, x.records[1] = s[1],
              \A k \in 0 .. Len(s) : SubSeq(x.records, 1, k) = SubSeq(s, 1, k),
              SizeOf(name) <= 4 * Len(x.records) + x.cut
       PROVE  /\ files' \in [1 .. name -> LogFile]
              /\ \A n \in 1 .. name : Len(Records(n)') # 0 /\ Records(n)'[1] = SeqRecord(n)
              /\ FilesGrow
  <2>1. files' \in [1 .. name -> LogFile]
    BY <1>2, <1>12, Zenon
  <2>2. ASSUME NEW n \in 1 .. name
        PROVE  /\ Len(Records(n)') # 0 /\ Records(n)'[1] = SeqRecord(n)
               /\ SizeOf(n) <= SizeOf(n)'
               /\ \A k \in 0 .. Len(Records(n)) : SubSeq(Records(n)', 1, k) = SubSeq(Records(n), 1, k)
    <3>1. CASE n = name
      <4>1. files'[n] = x
        BY <1>2, <1>12, <3>1, Zenon
      <4>2. Records(n)' = x.records /\ SizeOf(n)' = 4 * Len(x.records) + x.cut
        BY <4>1, Zenon DEF Records, SizeOf, Width
      <4> QED BY <1>7, <1>12, <3>1, <4>2, Zenon
    <3>2. CASE n # name
      <4>1. files'[n] = files[n]
        BY <1>2, <1>12, <3>2, Zenon
      <4>2. Records(n)' = Records(n) /\ SizeOf(n)' = SizeOf(n)
        BY <4>1, Zenon DEF Records, SizeOf
      <4>3. SizeOf(n) <= SizeOf(n)
        BY FileFacts
      <4>4. Len(Records(n)) # 0 /\ Records(n)[1] = SeqRecord(n)
        BY Zenon DEF FilesOK
      <4> QED BY <4>2, <4>3, <4>4, Zenon
    <3> QED BY <3>1, <3>2, Zenon
  <2> QED BY <1>1, <1>4, <2>1, <2>2, Zenon DEF FilesGrow
<1>13. /\ files' \in [1 .. name -> LogFile]
       /\ \A n \in 1 .. name : Len(Records(n)') # 0 /\ Records(n)'[1] = SeqRecord(n)
       /\ FilesGrow
  <2>1. ASSUME NEW c \in Cuts(r), c > f.cut, files' = [files EXCEPT ![name] = H(c)]
        PROVE  /\ files' \in [1 .. name -> LogFile]
               /\ \A n \in 1 .. name : Len(Records(n)') # 0 /\ Records(n)'[1] = SeqRecord(n)
               /\ FilesGrow
    <3> DEFINE x == H(c)
    <3>1. x \in LogFile /\ x.records = s /\ x.cut = c
      BY <1>8, Zenon
    <3> HIDE DEF x
    <3>2. SizeOf(name) <= 4 * Len(s) + c
      BY <1>6, <1>7, <1>11, <2>1
    <3>3. files' = [files EXCEPT ![name] = x]
      BY <2>1, Zenon DEF x
    <3> QED BY <1>7, <1>12, <3>1, <3>2, <3>3, Zenon
  <2>2. CASE files' = [files EXCEPT ![name] = g]
    <3>1. SizeOf(name) <= 4 * Len(Append(s, r)) + 0 /\ Len(Append(s, r)) # 0
      BY <1>7, <1>10, <1>11
    <3> QED BY <1>7, <1>9, <1>10, <1>12, <2>2, <3>1, Zenon
  <2> QED BY <1>5, <2>1, <2>2, Zenon
<1>14. pending' \in Seq(LogRecords)
  BY <1>2, <1>3, <1>5, Zenon
<1>15. FilesOK'
  BY <1>1, <1>4, <1>13, <1>14, Zenon DEF FilesOK, Records
<1> QED BY <1>13, <1>15, Zenon

(* The log is rotated: the files that there were stay. *)
LEMMA RotatedFiles ==
  ASSUME FilesOK, Rotated, pending' \in Seq(LogRecords)
  PROVE  FilesOK' /\ FilesGrow
<1>1. PICK order \in Bijection(1 .. Cardinality(Keys), Keys) :
        /\ files' = [n \in 1 .. name + 1 |->
             IF n <= name THEN files[n] ELSE [records |-> WriteClassAdLogState(order), half |-> None, cut |-> 0]]
        /\ name' = name + 1
  BY Zenon DEF Rotated
<1>2. order \in [1 .. Cardinality(Keys) -> Keys]
  BY Zenon DEF Bijection, Injection
<1> DEFINE s == WriteClassAdLogState(order)
           x == [records |-> s, half |-> None, cut |-> 0]
<1>3. s \in Seq(LogRecords) /\ Len(s) # 0 /\ s[1] = SeqRecord(name + 1)
  BY <1>2, WriteType, Zenon
<1> HIDE DEF s
<1>4. x \in LogFile /\ x.records = s
  <2>1. 0 \in 0 .. 3
    OBVIOUS
  <2> QED BY <1>3, <2>1, Zenon DEF LogFile
<1> HIDE DEF x
<1>5. files' = [n \in 1 .. name + 1 |-> IF n <= name THEN files[n] ELSE x]
  BY <1>1, Zenon DEF x, s
<1>6. name \in Nat \ {0} /\ files \in [1 .. name -> LogFile]
  BY Zenon DEF FilesOK
<1>7. /\ name + 1 \in Nat \ {0} /\ name <= name + 1 /\ name + 1 \in 1 .. name + 1 /\ ~(name + 1 <= name)
      /\ \A n \in 1 .. name + 1 : (n <= name /\ n \in 1 .. name) \/ (~(n <= name) /\ n = name + 1)
      /\ \A n \in 1 .. name : n \in 1 .. name + 1 /\ n <= name
  BY <1>6
<1>8. files' \in [1 .. name + 1 -> LogFile]
  BY <1>4, <1>5, <1>6, <1>7, Zenon
<1>9. files'[name + 1] = x /\ \A n \in 1 .. name : files'[n] = files[n]
  BY <1>5, <1>7, Zenon
<1>10. ASSUME NEW n \in 1 .. name + 1 PROVE Len(Records(n)') # 0 /\ Records(n)'[1] = SeqRecord(n)
  <2>1. CASE n \in 1 .. name
    BY <1>9, <2>1, Zenon DEF FilesOK, Records
  <2>2. CASE n = name + 1
    BY <1>3, <1>4, <1>9, <2>2, Zenon DEF Records
  <2> QED BY <1>7, <2>1, <2>2, Zenon
<1>11. FilesOK'
  BY <1>1, <1>7, <1>8, <1>10, Zenon DEF FilesOK, Records
<1>12. ASSUME NEW n \in 1 .. name PROVE SizeOf(n) <= SizeOf(n)' /\ Records(n)' = Records(n)
  <2>1. SizeOf(n)' = SizeOf(n) /\ Records(n)' = Records(n)
    BY <1>9, Zenon DEF SizeOf, Records
  <2>2. SizeOf(n) <= SizeOf(n)
    BY FileFacts
  <2> QED BY <2>1, <2>2, Zenon
<1> QED BY <1>1, <1>7, <1>11, <1>12, Zenon DEF FilesGrow

(* A step of the writer. *)
LEMMA WriterFiles ==
  ASSUME FilesOK, Writer
  PROVE  FilesOK' /\ FilesGrow /\ Idle
<1>1. CASE CommitTransaction
  BY <1>1, CommitFiles, Zenon DEF CommitTransaction
<1>2. CASE Write
  BY <1>2, WriteFiles, Zenon DEF Write
<1>3. CASE TruncLog
  <2>1. pending' \in Seq(LogRecords) /\ Rotated /\ Idle
    BY <1>3, Zenon DEF TruncLog, FilesOK
  <2> QED BY <2>1, RotatedFiles, Zenon
<1>4. CASE Crash
  <2>1. pending' = <<>> /\ UNCHANGED <<files, name>> /\ Idle
    BY <1>4, Zenon DEF Crash
  <2>2. <<>> \in Seq(LogRecords)
    OBVIOUS
  <2>3. FilesOK'
    BY <2>1, <2>2, Zenon DEF FilesOK, Records
  <2> QED BY <2>1, <2>3, FilesStay, Zenon
<1>5. CASE InitLogFile
  <2>1. pending' \in Seq(LogRecords) /\ (Rotated \/ UNCHANGED <<files, name>>) /\ Idle
    BY <1>5, Zenon DEF InitLogFile, FilesOK
  <2>2. CASE UNCHANGED <<files, name>>
    <3>1. FilesOK'
      BY <2>1, <2>2, Zenon DEF FilesOK, Records
    <3> QED BY <2>1, <2>2, <3>1, FilesStay, Zenon
  <2> QED BY <2>1, <2>2, RotatedFiles, Zenon
<1> QED BY <1>1, <1>2, <1>3, <1>4, <1>5, Zenon DEF Writer

-----------------------------------------------------------------------------
(* The reader. *)

(* An offset of the file lies at or behind the end of its last record. *)
LEMMA HalfOffset ==
  ASSUME NEW o \in Nat, NEW n \in Nat, NEW c \in 0 .. 3, o <= 4 * n + c
  PROVE  o \div Width \in 0 .. n
BY DEF Width

(* What the reader has stays true whatever the writer does to the files. *)
LEMMA IdleKeeps ==
  ASSUME ReaderInv, FilesOK', FilesGrow, Idle
  PROVE  ReaderInv'
<1>1. /\ UNCHANGED <<step, fp, nextOffset, last_size, last_seq_num, mirror, loaded>>
      /\ UNCHANGED <<cur_probed_size, cur_probed_seq_num>>
  BY Zenon DEF Idle, parser, last, probed
<1>2. name \in Nat /\ name' \in Nat /\ name <= name'
  BY Zenon DEF ReaderInv, FilesOK, FilesGrow
<1>3. 1 .. name \subseteq 1 .. name'
  BY <1>2
<1>4. ReadingOK'
  BY <1>1, <1>3, Zenon DEF ReaderInv, ReadingOK
<1>5. ASSUME loaded # None
      PROVE  /\ nextOffset <= SizeOf(loaded)'
             /\ mirror = Replay(SubSeq(Records(loaded)', 1, nextOffset \div Width))
  <2>a. loaded \in 1 .. name
    BY <1>5, Zenon DEF ReaderInv, ReadingOK
  <2>b. PICK n \in 1 .. name : n = loaded
    BY <2>a, Zenon
  <2> DEFINE o == nextOffset
  <2>1. n \in 1 .. name /\ o \in Nat /\ o <= SizeOf(n) /\ mirror = Replay(SubSeq(Records(n), 1, o \div Width))
    BY <1>5, <2>b, Zenon DEF ReaderInv, MirrorOK
  <2>2. /\ SizeOf(n) \in Nat /\ Len(Records(n)) \in Nat
        /\ files[n].cut \in 0 .. 3 /\ SizeOf(n) = 4 * Len(Records(n)) + files[n].cut
    BY <2>1, FileFacts, Zenon DEF ReaderInv
  <2>3. n \in 1 .. name'
    BY <1>3, <2>1, Zenon
  <2>4. SizeOf(n) <= SizeOf(n)' /\ \A k \in 0 .. Len(Records(n)) : SubSeq(Records(n)', 1, k) = SubSeq(Records(n), 1, k)
    BY <2>1, Zenon DEF FilesGrow
  <2>5. SizeOf(n)' \in Nat
    <3>1. SizeOf(n)' = 4 * Len(Records(n)') + files'[n].cut
      BY <1>1, Zenon DEF SizeOf, Records, Width
    <3>2. files'[n] \in LogFile
      BY <2>3, Zenon DEF FilesOK
    <3>3. Records(n)' \in Seq(LogRecords) /\ files'[n].cut \in 0 .. 3
      BY <1>1, <3>2, Zenon DEF Records, LogFile
    <3>4. Len(Records(n)') \in Nat
      BY <3>3
    <3> DEFINE m == Len(Records(n)')
               c == files'[n].cut
    <3> HIDE DEF m, c
    <3>5. m \in Nat /\ c \in 0 .. 3
      BY <3>3, <3>4, Zenon DEF m, c
    <3>6. 4 * m + c \in Nat
      BY <3>5
    <3> QED BY <3>1, <3>6, Zenon DEF m, c
  <2> DEFINE a == SizeOf(n)
             b == SizeOf(n)'
             m == Len(Records(n))
             c == files[n].cut
  <2> HIDE DEF a, b, m, c
  <2>6. a \in Nat /\ b \in Nat /\ m \in Nat /\ o <= a /\ a <= b /\ c \in 0 .. 3 /\ a = 4 * m + c
    BY <2>1, <2>2, <2>4, <2>5, Zenon DEF a, b, m, c
  <2> HIDE DEF o
  <2>7. o <= b /\ o <= 4 * m + c
    BY <2>1, <2>6
  <2>8. o \div Width \in 0 .. m
    BY <2>1, <2>6, <2>7, HalfOffset, Zenon
  <2>9. SubSeq(Records(n)', 1, o \div Width) = SubSeq(Records(n), 1, o \div Width)
    BY <2>4, <2>8, Zenon DEF m
  <2>10. loaded' = n
    BY <1>1, <2>b, Zenon
  <2>11. SizeOf(loaded)' = b /\ Records(loaded)' = Records(n)'
    BY <2>10, Zenon DEF b, SizeOf, Records
  <2> QED BY <2>1, <2>7, <2>9, <2>11, Zenon DEF o
<1>6. MirrorOK'
  BY <1>1, <1>5, Zenon DEF ReaderInv, MirrorOK
<1> QED BY <1>4, <1>6, Zenon DEF ReaderInv

(* A poll that ends, or that goes on without having read a record, leaves the
   files and the mirror alone. *)
LEMMA SameMirror ==
  ASSUME ReaderInv, UNCHANGED <<writer, nextOffset, mirror, loaded>>
  PROVE  FilesOK' /\ MirrorOK'
<1>1. UNCHANGED <<files, name, pending>>
  BY Zenon DEF writer
<1>2. FilesOK'
  BY <1>1, Zenon DEF ReaderInv, FilesOK, Records
<1>3. MirrorOK'
  BY <1>1, Zenon DEF ReaderInv, MirrorOK, SizeOf, Records
<1> QED BY <1>2, <1>3, Zenon

(* The file that is open is the newest one that has been loaded. *)
LEMMA OpenFile ==
  ASSUME ReaderInv, step # "idle"
  PROVE  /\ fp \in 1 .. name /\ fp # None
         /\ last_seq_num <= fp
         /\ step \in {"last", "load"} => loaded = fp
<1>1. /\ fp \in 1 .. name \cup {None} /\ fp # None /\ loaded \in 1 .. name \cup {None}
      /\ last_seq_num \in Nat
      /\ loaded = None => last_seq_num = 0
      /\ loaded # None => last_seq_num <= loaded /\ loaded <= fp
      /\ step = "last" => last_seq_num = fp
      /\ step = "load" => loaded = fp
  BY Zenon DEF ReaderInv, ReadingOK
<1>2. fp \in 1 .. name
  BY <1>1, Zenon
<1>3. CASE loaded = None
  <2>1. last_seq_num <= fp /\ last_seq_num # fp
    BY <1>1, <1>2, <1>3
  <2>2. fp # loaded
    BY <1>1, <1>3, Zenon
  <2> QED BY <1>1, <1>2, <2>1, <2>2, Zenon
<1>4. CASE loaded # None
  <2>1. loaded \in 1 .. name
    BY <1>1, <1>4, Zenon
  <2>2. last_seq_num <= fp /\ (last_seq_num = fp => loaded = fp)
    BY <1>1, <1>2, <1>4, <2>1
  <2> QED BY <1>1, <1>2, <2>2, Zenon
<1> QED BY <1>3, <1>4, Zenon

(* The log is read afresh. *)
LEMMA BulkLoadKeeps ==
  ASSUME ReaderInv, step # "idle", BulkLoad, UNCHANGED writer, cur_probed_size' = cur_probed_size,
         cur_probed_seq_num' = fp
  PROVE  ReaderInv'
<1>1. UNCHANGED <<files, name, pending, fp, last_size, last_seq_num>>
  BY Zenon DEF BulkLoad, writer, last
<1>2. fp \in 1 .. name /\ fp # None /\ last_seq_num <= fp
  BY OpenFile, Zenon
<1>3. nextOffset' = 0 /\ mirror' = Empty /\ loaded' = fp /\ step' = "load"
  BY Zenon DEF BulkLoad
<1>4. FilesOK'
  BY <1>1, Zenon DEF ReaderInv, FilesOK, Records
<1>5. fp \in Nat /\ fp <= fp
  BY <1>2
<1>6. ReadingOK'
  <2>1. /\ last_size \in Nat /\ last_seq_num \in Nat /\ cur_probed_size \in Nat
    BY Zenon DEF ReaderInv, ReadingOK
  <2> QED BY <1>1, <1>2, <1>3, <1>5, <2>1, Zenon DEF ReadingOK
<1>7. MirrorOK'
  <2>1. SizeOf(fp) \in Nat /\ Records(fp) \in Seq(LogRecords)
    BY <1>2, FileFacts, Zenon DEF ReaderInv
  <2>2. 0 <= SizeOf(fp) /\ 0 \div Width = 0 /\ 0 \in Nat
    BY <2>1 DEF Width
  <2>3. Empty = Replay(SubSeq(Records(fp), 1, 0)) /\ Empty \in Tables
    BY <2>1, ReplayNone, Zenon DEF Empty, Tables
  <2>4. /\ nextOffset' = 0 /\ mirror' = Empty /\ loaded' = fp /\ SizeOf(loaded)' = SizeOf(fp)
        /\ Records(loaded)' = Records(fp)
    BY <1>1, <1>3, Zenon DEF SizeOf, Records
  <2>5. (nextOffset \div Width)' = 0
    BY <2>2, <2>4, Zenon
  <2> QED BY <1>2, <1>3, <2>2, <2>3, <2>4, <2>5, Zenon DEF MirrorOK
<1> QED BY <1>4, <1>6, <1>7, Zenon DEF ReaderInv

(* Poll is over. *)
LEMMA DoneKeeps ==
  ASSUME ReaderInv, step \in {"last", "load"}, NEW success \in BOOLEAN, Done(success),
         UNCHANGED <<writer, nextOffset, mirror, loaded, probed>>
  PROVE  ReaderInv'
<1>1. /\ UNCHANGED name /\ step' = "idle" /\ fp' = None
      /\ UNCHANGED <<loaded, cur_probed_size, cur_probed_seq_num>>
      /\ \/ last_size' = cur_probed_size /\ last_seq_num' = cur_probed_seq_num
         \/ UNCHANGED <<last_size, last_seq_num>>
  BY Zenon DEF Done, writer, incrementProbeInfo, last, probed
<1>2. fp \in 1 .. name /\ fp # None /\ loaded = fp
  BY OpenFile, Zenon
<1>3. fp <= fp /\ fp \in Nat
  BY <1>2
<1>4. ReadingOK'
  <2>1. /\ last_size \in Nat /\ last_seq_num \in Nat /\ cur_probed_size \in Nat /\ cur_probed_seq_num \in Nat
        /\ cur_probed_seq_num = fp /\ last_seq_num <= loaded
    BY <1>2, Zenon DEF ReaderInv, ReadingOK
  <2>2. last_size' \in Nat /\ last_seq_num' \in Nat /\ last_seq_num' <= loaded
    BY <1>1, <1>2, <1>3, <2>1, Zenon
  <2> QED BY <1>1, <1>2, <2>1, <2>2, Zenon DEF ReadingOK
<1> QED BY <1>4, SameMirror, Zenon DEF ReaderInv

(* A poll starts. *)
LEMMA PollKeeps ==
  ASSUME ReaderInv, Poll
  PROVE  ReaderInv'
<1>1. /\ UNCHANGED <<files, name>> /\ step' = "first" /\ fp' = name /\ cur_probed_size' = SizeOf(name)
      /\ UNCHANGED <<nextOffset, last_size, last_seq_num, cur_probed_seq_num, mirror, loaded, writer>>
  BY Zenon DEF Poll, writer, parser, last
<1>2. name \in 1 .. name /\ name \in Nat /\ \A n \in 1 .. name : n <= name
  BY DEF ReaderInv, FilesOK
<1>3. SizeOf(name) \in Nat
  BY <1>2, FileFacts, Zenon DEF ReaderInv
<1>4. name # None
  BY <1>2, ReaderAssumption, Zenon
<1>5. ReadingOK'
  BY <1>1, <1>2, <1>3, <1>4, Zenon DEF ReaderInv, ReadingOK
<1> QED BY <1>1, <1>5, SameMirror, Zenon DEF ReaderInv

(* The number of the file decides. *)
LEMMA ProbeFirstKeeps ==
  ASSUME ReaderInv, ProbeFirst
  PROVE  ReaderInv'
<1>1. step = "first" /\ UNCHANGED <<writer, cur_probed_size>>
  BY Zenon DEF ProbeFirst
<1>2. step # "idle"
  BY <1>1
<1>3. fp \in 1 .. name /\ fp # None
  BY <1>2, OpenFile, Zenon
<1>4. Records(fp)[1] = SeqRecord(fp)
  BY <1>3, Zenon DEF ReaderInv, FilesOK
<1>5. fp \in Nat
  BY <1>3
<1>6. Records(fp)[1].key = fp
  BY <1>4, <1>5, RecordTypes, Zenon
<1>7. cur_probed_seq_num' = fp
  BY <1>6, Zenon DEF ProbeFirst
<1>8. CASE BulkLoad
  BY <1>1, <1>2, <1>7, <1>8, BulkLoadKeeps, Zenon
<1>9. CASE /\ fp = last_seq_num /\ step' = "last"
           /\ UNCHANGED <<fp, parser, last, mirror, loaded>>
  <2>1. UNCHANGED <<name, nextOffset, last_size, last_seq_num, fp, mirror, loaded>>
    BY <1>1, <1>9, Zenon DEF parser, last, writer
  <2>2. ReadingOK'
    BY <1>1, <1>3, <1>5, <1>7, <1>9, <2>1 DEF ReaderInv, ReadingOK
  <2> QED BY <1>1, <2>1, <2>2, SameMirror, Zenon DEF ReaderInv
<1> QED BY <1>6, <1>8, <1>9, Zenon DEF ProbeFirst

(* The record that was read last but one, and the size, decide. *)
LEMMA ProbeLastKeeps ==
  ASSUME ReaderInv, ProbeLast
  PROVE  ReaderInv'
<1>1. step = "last" /\ UNCHANGED <<writer, probed>>
  BY Zenon DEF ProbeLast
<1>2. step # "idle" /\ step \in {"last", "load"}
  BY <1>1
<1>3. fp \in 1 .. name /\ fp # None /\ loaded = fp /\ cur_probed_seq_num = fp
  BY <1>2, OpenFile, Zenon DEF ReaderInv, ReadingOK
<1>4. \/ Done(TRUE) /\ UNCHANGED <<parser, mirror, loaded>>
      \/ step' = "load" /\ UNCHANGED <<fp, parser, last, mirror, loaded>>
      \/ BulkLoad
  BY Zenon DEF ProbeLast
<1>5. CASE Done(TRUE) /\ UNCHANGED <<parser, mirror, loaded>>
  <2>1. UNCHANGED nextOffset
    BY <1>5, Zenon DEF parser
  <2> QED BY <1>1, <1>2, <1>5, <2>1, DoneKeeps, Zenon
<1>6. CASE step' = "load" /\ UNCHANGED <<fp, parser, last, mirror, loaded>>
  <2>1. UNCHANGED <<name, nextOffset, last_size, last_seq_num, cur_probed_size, cur_probed_seq_num>>
    BY <1>1, <1>6, Zenon DEF parser, last, writer, probed
  <2>2. ReadingOK'
    BY <1>1, <1>3, <1>6, <2>1 DEF ReaderInv, ReadingOK
  <2> QED BY <1>1, <1>6, <2>1, <2>2, SameMirror, Zenon DEF ReaderInv
<1>7. CASE BulkLoad
  <2>1. cur_probed_size' = cur_probed_size /\ cur_probed_seq_num' = fp
    BY <1>1, <1>3, Zenon DEF probed
  <2> QED BY <1>1, <1>2, <1>7, <2>1, BulkLoadKeeps, Zenon
<1> QED BY <1>4, <1>5, <1>6, <1>7, Zenon

(* What readLogEntry finds: the next record, or behind the last one a part of the
   end of a transaction. *)
LEMMA FoundRecord ==
  ASSUME FilesOK, fp \in 1 .. name, NEW o \in Nat, o <= SizeOf(fp), Found(o).st = "FILE_READ_SUCCESS"
  PROVE  LET i == o \div Width + 1
         IN  \/ /\ i \in 1 .. Len(Records(fp)) /\ i - 1 = o \div Width
                /\ Found(o).record = Records(fp)[i] /\ Found(o).next = o + 4
                /\ (o + 4) \div Width = i /\ o + 4 <= SizeOf(fp)
             \/ \E c \in {2, 3} :
                  /\ Found(o).record = End /\ Found(o).next = o + c
                  /\ (o + c) \div Width = o \div Width /\ o + c <= SizeOf(fp)
<1> DEFINE f == files[fp]
           i == o \div Width + 1
           n == Len(f.records)
           p == o % Width
           a == p = 0 /\ i <= n
           b == p = 0 /\ i = n + 1 /\ f.cut \in {Comment, Newline}
           c == p = 0 /\ i = n + 1 /\ f.cut = Body
           d == p = Comment /\ i <= n
           e == p = Comment /\ i = n + 1 /\ f.cut = Newline
           S == "FILE_READ_SUCCESS"
<1>1. Found(o) =
        CASE a -> [st |-> S, record |-> f.records[i], next |-> o + Width]
          [] b -> [st |-> S, record |-> End, next |-> o + f.cut]
          [] c -> [st |-> "torn", op |-> f.half.op]
          [] d -> [st |-> "FILE_READ_ERROR"]
          [] e -> [st |-> "unfinished"]
          [] OTHER -> [st |-> "FILE_READ_EOF"]
  BY Zenon DEF Found
<1>2. /\ f.records = Records(fp) /\ n \in Nat /\ f.cut \in 0 .. 3
      /\ SizeOf(fp) = 4 * n + f.cut
  BY FileFacts, Zenon DEF Records
<1>3. /\ i \in Nat /\ i >= 1
      /\ ~(a /\ b) /\ ~(a /\ c) /\ ~(a /\ d) /\ ~(a /\ e) /\ ~(b /\ c) /\ ~(b /\ d) /\ ~(b /\ e)
  <2> HIDE DEF f, n
  <2> QED BY <1>2 DEF Width, Body, Comment, Newline
<1>4. CASE a
  <2>1. Found(o) = [st |-> S, record |-> f.records[i], next |-> o + Width]
    <3> HIDE DEF a, b, c, d, e
    <3> QED BY <1>1, <1>3, <1>4
  <2>2. Found(o).record = f.records[i] /\ Found(o).next = o + 4
    BY <2>1 DEF Width
  <2> DEFINE z == SizeOf(fp)
             k == f.cut
  <2>3. i \in 1 .. n /\ i - 1 = o \div Width /\ (o + 4) \div Width = i /\ o + 4 <= z
    <3>1. z = 4 * n + k /\ n \in Nat /\ k \in 0 .. 3
      BY <1>2, Zenon
    <3> HIDE DEF n, z, k
    <3> QED BY <1>4, <3>1 DEF Width
  <2> QED BY <1>2, <2>2, <2>3, Zenon
<1>5. CASE b
  <2>1. Found(o) = [st |-> S, record |-> End, next |-> o + f.cut]
    <3> HIDE DEF a, b, c, d, e
    <3> QED BY <1>1, <1>3, <1>5
  <2>2. Found(o).record = End /\ Found(o).next = o + f.cut
    BY <2>1
  <2> DEFINE z == SizeOf(fp)
             k == f.cut
  <2>3. k \in {2, 3} /\ (o + k) \div Width = o \div Width /\ o + k <= z
    <3>1. z = 4 * n + k /\ n \in Nat /\ k \in {Comment, Newline} /\ p = 0 /\ i = n + 1
      BY <1>2, <1>5, Zenon
    <3> HIDE DEF n, z, k
    <3> QED BY <3>1 DEF Width, Comment, Newline
  <2> QED BY <2>2, <2>3, Zenon
<1>6. CASE ~a /\ ~b
  <2>1. \/ Found(o) = [st |-> "torn", op |-> f.half.op] \/ Found(o) = [st |-> "FILE_READ_ERROR"]
        \/ Found(o) = [st |-> "unfinished"] \/ Found(o) = [st |-> "FILE_READ_EOF"]
    <3> HIDE DEF a, b, c, d, e
    <3> QED BY <1>1, <1>6
  <2>2. Found(o).st # S
    BY <2>1
  <2> QED BY <2>2, Zenon
<1> QED BY <1>4, <1>5, <1>6, Zenon

(* A record is read. *)
LEMMA ReadKeeps ==
  ASSUME ReaderInv, step = "load", Found(nextOffset).st = "FILE_READ_SUCCESS",
         nextOffset' = Found(nextOffset).next, mirror' = Process(mirror, Found(nextOffset).record),
         UNCHANGED <<step, fp, last, writer, probed, loaded>>
  PROVE  ReaderInv'
<1> DEFINE o == nextOffset
           s == Records(fp)
           i == o \div Width + 1
<1>1. step # "idle" /\ step \in {"last", "load"}
  BY Zenon
<1>2. fp \in 1 .. name /\ fp # None /\ loaded = fp
  BY <1>1, OpenFile, Zenon
<1>3. /\ o \in Nat /\ o <= SizeOf(fp) /\ mirror \in Tables /\ mirror = Replay(SubSeq(s, 1, o \div Width))
  BY <1>2, Zenon DEF ReaderInv, MirrorOK
<1>4. s \in Seq(LogRecords)
  BY <1>2, FileFacts, Zenon DEF ReaderInv
<1>5. UNCHANGED <<files, name, pending, last_size, last_seq_num, cur_probed_size, cur_probed_seq_num>>
  BY Zenon DEF writer, last, probed
<1>6. /\ nextOffset' \in Nat /\ nextOffset' <= SizeOf(fp)
      /\ mirror' \in Tables /\ mirror' = Replay(SubSeq(s, 1, nextOffset' \div Width))
  <2>1. CASE /\ i \in 1 .. Len(s) /\ i - 1 = o \div Width
             /\ Found(o).record = s[i] /\ Found(o).next = o + 4
             /\ (o + 4) \div Width = i /\ o + 4 <= SizeOf(fp)
    <3>1. o + 4 \in Nat
      BY <1>3
    <3>2. s[i] \in LogRecords
      <4> HIDE DEF s, i
      <4> QED BY <1>4, <2>1
    <3>3. mirror' = Process(mirror, s[i])
      BY <2>1, Zenon
    <3>4. Replay(SubSeq(s, 1, i)) = Process(Replay(SubSeq(s, 1, i - 1)), s[i])
      BY <1>4, <2>1, ReplayStep, Zenon
    <3>5. mirror' \in Tables
      BY <1>3, <3>2, <3>3, ProcessType, Zenon
    <3> QED BY <1>3, <2>1, <3>1, <3>3, <3>4, <3>5, Zenon
  <2>2. ASSUME NEW c \in {2, 3}, Found(o).record = End, Found(o).next = o + c,
               (o + c) \div Width = o \div Width, o + c <= SizeOf(fp)
        PROVE  /\ nextOffset' \in Nat /\ nextOffset' <= SizeOf(fp)
               /\ mirror' \in Tables /\ mirror' = Replay(SubSeq(s, 1, nextOffset' \div Width))
    <3>1. o + c \in Nat
      BY <1>3
    <3>2. Process(mirror, End) = mirror
      BY DEF Process, End, Record
    <3>3. nextOffset' = o + c /\ mirror' = mirror
      BY <2>2, <3>2, Zenon
    <3> QED BY <1>3, <2>2, <3>1, <3>3, Zenon
  <2> QED BY <1>2, <1>3, <2>1, <2>2, FoundRecord, Zenon DEF ReaderInv
<1>7. FilesOK'
  BY <1>5, Zenon DEF ReaderInv, FilesOK, Records
<1>8. ReadingOK'
  BY <1>5, Zenon DEF ReaderInv, ReadingOK
<1>9. MirrorOK'
  <2>1. SizeOf(loaded)' = SizeOf(fp) /\ Records(loaded)' = s /\ loaded' # None
    BY <1>2, <1>5, Zenon DEF SizeOf, Records
  <2> QED BY <1>6, <2>1, Zenon DEF MirrorOK
<1> QED BY <1>7, <1>8, <1>9, Zenon DEF ReaderInv

(* The log is read on. *)
LEMMA IncrementalLoadKeeps ==
  ASSUME ReaderInv, IncrementalLoad
  PROVE  ReaderInv'
<1>1. step = "load" /\ UNCHANGED <<writer, probed, loaded>>
  BY Zenon DEF IncrementalLoad
<1>2. step \in {"last", "load"}
  BY <1>1, Zenon
<1>3. \/ /\ Found(nextOffset).st = "FILE_READ_SUCCESS" /\ nextOffset' = Found(nextOffset).next
         /\ mirror' = Process(mirror, Found(nextOffset).record) /\ UNCHANGED <<step, fp, last>>
      \/ Done(TRUE) /\ UNCHANGED <<nextOffset, mirror>>
      \/ Done(FALSE) /\ UNCHANGED <<nextOffset, mirror>>
  BY Zenon DEF IncrementalLoad, parser
<1>4. CASE Done(TRUE) /\ UNCHANGED <<nextOffset, mirror>>
  BY <1>1, <1>2, <1>4, DoneKeeps, Zenon
<1>5. CASE Done(FALSE) /\ UNCHANGED <<nextOffset, mirror>>
  BY <1>1, <1>2, <1>5, DoneKeeps, Zenon
<1> QED BY <1>1, <1>3, <1>4, <1>5, ReadKeeps, Zenon

-----------------------------------------------------------------------------

(* It holds at the start. *)
LEMMA InitReader == Init => ReaderInv
<1> SUFFICES ASSUME Init PROVE ReaderInv
  OBVIOUS
<1> DEFINE r == SeqRecord(1)
           x == [records |-> <<r>>, half |-> None, cut |-> 0]
<1>1. files = <<x>> /\ name = 1 /\ pending = <<>>
  BY Zenon DEF Init
<1>2. r \in LogRecords
  BY RecordTypes
<1>3. <<r>> \in Seq(LogRecords) /\ Len(<<r>>) # 0 /\ <<r>>[1] = r /\ <<>> \in Seq(LogRecords)
  <2> HIDE DEF r
  <2> QED BY <1>2
<1>4. x \in LogFile /\ x.records = <<r>>
  <2>1. 0 \in 0 .. 3
    OBVIOUS
  <2> QED BY <1>3, <2>1, Zenon DEF LogFile
<1>5. files \in [1 .. name -> LogFile] /\ files[1] = x /\ name \in Nat \ {0} /\ \A n \in 1 .. name : n = 1
  <2> HIDE DEF x
  <2> QED BY <1>1, <1>4
<1>6. FilesOK
  BY <1>1, <1>3, <1>4, <1>5, Zenon DEF FilesOK, Records
<1>7. ReadingOK
  BY <1>1 DEF Init, ReadingOK
<1>8. Empty \in Tables
  BY Zenon DEF Empty, Tables
<1>9. MirrorOK
  BY <1>8 DEF Init, MirrorOK
<1> QED BY <1>6, <1>7, <1>9, Zenon DEF ReaderInv

(* It is kept by every step. *)
LEMMA NextReader == ReaderInv /\ [Next]_vars => ReaderInv'
<1> SUFFICES ASSUME ReaderInv, [Next]_vars PROVE ReaderInv'
  OBVIOUS
<1>1. CASE Writer
  BY <1>1, WriterFiles, IdleKeeps, Zenon DEF ReaderInv
<1>2. CASE Poll
  BY <1>2, PollKeeps, Zenon
<1>3. CASE ProbeFirst
  BY <1>3, ProbeFirstKeeps, Zenon
<1>4. CASE ProbeLast
  BY <1>4, ProbeLastKeeps, Zenon
<1>5. CASE IncrementalLoad
  BY <1>5, IncrementalLoadKeeps, Zenon
<1>6. CASE UNCHANGED vars
  <2>1. UNCHANGED <<writer, step, fp, parser, last, probed, mirror, loaded>>
    BY <1>6, Zenon DEF vars
  <2>2. UNCHANGED nextOffset
    BY <2>1, Zenon DEF parser
  <2>3. UNCHANGED <<name, last_size, last_seq_num, cur_probed_size, cur_probed_seq_num>>
    BY <2>1, Zenon DEF writer, last, probed
  <2>4. ReadingOK'
    BY <2>1, <2>3, Zenon DEF ReaderInv, ReadingOK
  <2> QED BY <2>1, <2>2, <2>4, SameMirror, Zenon DEF ReaderInv
<1> QED BY <1>1, <1>2, <1>3, <1>4, <1>5, <1>6, Zenon DEF Next, Reader

(* The mirror of the log is what the records up to nextOffset of one of its
   files make, the one that was read from its start last: whatever the writer
   appends, tears or rotates between two reads of the reader, no poll mixes two
   files, skips a record or reads one twice. *)
THEOREM TheMirrorIsAPrefix == Spec => []MirrorIsPrefix
<1>1. ReaderInv => MirrorIsPrefix
  <2> SUFFICES ASSUME ReaderInv PROVE MirrorIsPrefix
    OBVIOUS
  <2>1. DOMAIN files = 1 .. name /\ name \in Nat \ {0}
    BY Zenon DEF ReaderInv, FilesOK
  <2>2. name \in 1 .. name
    BY <2>1
  <2>3. nextOffset \in 0 .. IF loaded = None THEN 0 ELSE SizeOf(loaded)
    <3>1. CASE loaded = None
      <4>1. nextOffset = 0
        BY <3>1, Zenon DEF ReaderInv, MirrorOK
      <4>2. 0 \in 0 .. 0
        OBVIOUS
      <4> QED BY <3>1, <4>1, <4>2, Zenon
    <3>2. CASE loaded # None
      <4>1. loaded \in 1 .. name /\ nextOffset \in Nat /\ nextOffset <= SizeOf(loaded)
        BY <3>2, Zenon DEF ReaderInv, ReadingOK, MirrorOK
      <4>2. SizeOf(loaded) \in Nat
        BY <4>1, FileFacts, Zenon DEF ReaderInv
      <4>3. nextOffset \in 0 .. SizeOf(loaded)
        BY <4>1, <4>2
      <4> QED BY <3>2, <4>3, Zenon
    <3> QED BY <3>1, <3>2, Zenon
  <2> QED BY <2>1, <2>2, <2>3, Zenon DEF ReaderInv, ReadingOK, MirrorOK, MirrorIsPrefix, TypeOK, Tables
<1> QED BY <1>1, InitReader, NextReader, PTL DEF Spec

=============================================================================
