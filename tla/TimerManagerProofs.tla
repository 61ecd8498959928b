-------------------------- MODULE TimerManagerProofs --------------------------
(***************************************************************************)
(* Proofs about TimerManager, for any number of timers, any delays and     *)
(* periods and any limits on the handlers run by one call of Timeout.      *)
(***************************************************************************)
EXTENDS TimerManager, WellFoundedInduction, SequenceTheorems, TLAPS

(* A nonempty set of natural numbers has a least element. *)
LEMMA LeastExists ==
  ASSUME NEW S, S \subseteq Nat, S # {}
  PROVE  \E x \in S : \A y \in S : x <= y
<1>1. PICK x \in S : \A y \in S : ~(<<y, x>> \in OpToRel(<, Nat))
  BY NatLessThanWellFounded, WFMin, Zenon
<1>2. \A y \in S : ~(y < x)
  BY <1>1, Zenon DEF OpToRel
<1> QED
  BY <1>2

(* Min, with which the list is searched from its head, is the least element. *)
LEMMA MinIsLeast ==
  ASSUME NEW S, S \subseteq Nat, S # {}
  PROVE  Min(S) \in S /\ \A y \in S : Min(S) <= y
BY LeastExists, Zenon DEF Min

(* t is s with e put at position k. *)
IsInsertion(t, s, k, e, T) ==
  /\ t \in Seq(T)
  /\ Len(t) = Len(s) + 1
  /\ \A j \in 1 .. Len(s) + 1 : t[j] = IF j < k THEN s[j] ELSE IF j = k THEN e ELSE s[j - 1]

(* InsertTimer at the head of the list puts the timer in front of all others. *)
LEMMA PrependIsInsertion ==
  ASSUME NEW T, NEW s \in Seq(T), NEW e \in T
  PROVE  IsInsertion(<<e>> \o s, s, 1, e, T)
<1>1. <<e>> \in Seq(T) /\ Len(<<e>>) = 1 /\ <<e>>[1] = e
  OBVIOUS
<1> DEFINE a == <<e>>
<1> HIDE DEF a
<1>2. /\ a \o s \in Seq(T)
      /\ Len(a \o s) = Len(a) + Len(s)
      /\ \A j \in 1 .. Len(a) + Len(s) :
           (a \o s)[j] = IF j <= Len(a) THEN a[j] ELSE s[j - Len(a)]
  BY <1>1, ConcatProperties, Zenon DEF a
<1>3. a \in Seq(T) /\ Len(a) = 1 /\ a[1] = e
  BY <1>1, Zenon DEF a
<1>4. IsInsertion(a \o s, s, 1, e, T)
  BY <1>2, <1>3 DEF IsInsertion
<1> QED
  BY <1>4, Zenon DEF a

(* InsertTimer at the tail puts the timer behind all others. *)
LEMMA AppendIsInsertion ==
  ASSUME NEW T, NEW s \in Seq(T), NEW e \in T
  PROVE  IsInsertion(Append(s, e), s, Len(s) + 1, e, T)
BY AppendProperties DEF IsInsertion

(* InsertTimer in the middle of the list moves the timers behind it by one. *)
LEMMA InsertAtIsInsertion ==
  ASSUME NEW T, NEW s \in Seq(T), NEW i \in 1 .. Len(s) + 1, NEW e \in T
  PROVE  IsInsertion(InsertAt(s, i, e), s, i, e, T)
<1> DEFINE a == SubSeq(s, 1, i - 1)
           b == SubSeq(s, i, Len(s))
           c == a \o <<e>>
<1>1. /\ a \in Seq(T) /\ Len(a) = i - 1 /\ \A j \in 1 .. i - 1 : a[j] = s[j]
      /\ b \in Seq(T) /\ Len(b) = Len(s) - i + 1
      /\ \A j \in 1 .. Len(s) - i + 1 : b[j] = s[i + j - 1]
  BY SubSeqProperties
<1>2. /\ c \in Seq(T) /\ Len(c) = i
      /\ \A j \in 1 .. i : c[j] = IF j < i THEN s[j] ELSE e
  BY <1>1
<1>3. InsertAt(s, i, e) = c \o b
  BY Zenon DEF InsertAt
<1> HIDE DEF a, b, c
<1>4. /\ c \o b \in Seq(T)
      /\ Len(c \o b) = Len(c) + Len(b)
      /\ \A j \in 1 .. Len(c) + Len(b) :
           (c \o b)[j] = IF j <= Len(c) THEN c[j] ELSE b[j - Len(c)]
  BY <1>1, <1>2, ConcatProperties, Zenon
<1>5. ASSUME NEW j \in 1 .. Len(s) + 1
      PROVE  InsertAt(s, i, e)[j] = IF j < i THEN s[j] ELSE IF j = i THEN e ELSE s[j - 1]
  <2>1. CASE j <= i
    BY <1>1, <1>2, <1>3, <1>4, <2>1
  <2>2. CASE j > i
    <3>1. (c \o b)[j] = b[j - i] /\ j - i \in 1 .. Len(s) - i + 1
      BY <1>1, <1>2, <1>4, <2>2
    <3>2. i + (j - i) - 1 = j - 1
      OBVIOUS
    <3>3. b[j - i] = s[i + (j - i) - 1]
      BY <1>1, <3>1, Zenon
    <3> QED
      BY <1>3, <2>2, <3>1, <3>2, <3>3
  <2> QED
    BY <2>1, <2>2
<1> QED
  BY <1>1, <1>2, <1>3, <1>4, <1>5 DEF IsInsertion

(* RemoveTimer at position i leaves the other timers, in their order. *)
LEMMA RemoveAtProperties ==
  ASSUME NEW T, NEW s \in Seq(T), NEW i \in 1 .. Len(s)
  PROVE  /\ RemoveAt(s, i) \in Seq(T)
         /\ Len(RemoveAt(s, i)) = Len(s) - 1
         /\ \A j \in 1 .. Len(s) - 1 :
              RemoveAt(s, i)[j] = IF j < i THEN s[j] ELSE s[j + 1]
<1> DEFINE a == SubSeq(s, 1, i - 1)
           b == SubSeq(s, i + 1, Len(s))
<1>1. /\ a \in Seq(T) /\ Len(a) = i - 1 /\ \A j \in 1 .. i - 1 : a[j] = s[j]
      /\ b \in Seq(T) /\ Len(b) = Len(s) - i
      /\ \A j \in 1 .. Len(s) - i : b[j] = s[i + j]
  BY SubSeqProperties
<1>3. RemoveAt(s, i) = a \o b
  BY Zenon DEF RemoveAt
<1> HIDE DEF a, b
<1>4. /\ a \o b \in Seq(T)
      /\ Len(a \o b) = Len(a) + Len(b)
      /\ \A j \in 1 .. Len(a) + Len(b) :
           (a \o b)[j] = IF j <= Len(a) THEN a[j] ELSE b[j - Len(a)]
  BY <1>1, ConcatProperties, Zenon
<1>5. ASSUME NEW j \in 1 .. Len(s) - 1
      PROVE  RemoveAt(s, i)[j] = IF j < i THEN s[j] ELSE s[j + 1]
  <2>1. CASE j < i
    BY <1>1, <1>3, <1>4, <2>1
  <2>2. CASE j >= i
    <3>1. (a \o b)[j] = b[j - (i - 1)] /\ j - (i - 1) \in 1 .. Len(s) - i
      BY <1>1, <1>4, <2>2
    <3>2. i + (j - (i - 1)) = j + 1
      OBVIOUS
    <3> QED
      BY <1>1, <1>3, <2>2, <3>1, <3>2
  <2> QED
    BY <2>1, <2>2
<1>6. RemoveAt(s, i) \in Seq(T)
  BY <1>3, <1>4, Zenon
<1>7. Len(RemoveAt(s, i)) = Len(s) - 1
  BY <1>1, <1>3, <1>4
<1> QED
  BY <1>5, <1>6, <1>7, Zenon

(* A walk from the head of the list stops at the first timer it looks for. *)
LEMMA FirstIsLeast ==
  ASSUME NEW n \in Nat, NEW P, P \subseteq 1 .. n, NEW k,
         k = IF P # {} THEN Min(P) ELSE 0
  PROVE  /\ k \in 0 .. n
         /\ k = 0 <=> P = {}
         /\ k # 0 => k \in P
         /\ \A j \in P : k <= j
<1>1. P \subseteq Nat
  OBVIOUS
<1>2. CASE P = {}
  BY <1>2
<1>3. CASE P # {}
  <2>1. k \in P /\ \A j \in P : k <= j
    BY <1>1, <1>3, MinIsLeast, Zenon
  <2> QED
    BY <1>3, <2>1
<1> QED
  BY <1>2, <1>3, Zenon

(* GetTimer finds the timer with an id exactly when the list has it. *)
LEMMA PositionIs ==
  ASSUME NEW T, NEW s \in Seq(T), NEW x
  PROVE  /\ Position(s, x) \in 0 .. Len(s)
         /\ Position(s, x) # 0 => s[Position(s, x)] = x
         /\ Position(s, x) = 0 => \A j \in 1 .. Len(s) : s[j] # x
         /\ \A j \in 1 .. Len(s) : s[j] = x => Position(s, x) <= j
<1> DEFINE P == {j \in 1 .. Len(s) : s[j] = x}
<1>1. Position(s, x) = IF P # {} THEN Min(P) ELSE 0
  BY Zenon DEF Position, First
<1>2. P \subseteq 1 .. Len(s) /\ Len(s) \in Nat
  OBVIOUS
<1>3. /\ Position(s, x) \in 0 .. Len(s)
      /\ Position(s, x) = 0 <=> P = {}
      /\ Position(s, x) # 0 => Position(s, x) \in P
      /\ \A j \in P : Position(s, x) <= j
  <2> HIDE DEF P
  <2> QED
    BY <1>1, <1>2, FirstIsLeast, Zenon
<1> QED
  BY <1>3, Zenon

(* No element occurs twice in s. *)
Distinct(s) == \A i, j \in 1 .. Len(s) : i # j => s[i] # s[j]

(* The due times f of the timers of s do not decrease, up to never. *)
Sorted(s, f) == \A i, j \in 1 .. Len(s) : i < j => Upto(f[s[i]].when) <= Upto(f[s[j]].when)

(* What list_tail should be. *)
EndOf(s) == IF s = <<>> THEN None ELSE s[Len(s)]

(* The list s with tail e holds the timers D, each once, in the order of their
   due times f. *)
Linked(s, e, D, f) ==
  /\ s \in Seq(D)
  /\ \A x \in D : \E i \in 1 .. Len(s) : s[i] = x
  /\ Distinct(s)
  /\ Sorted(s, f)
  /\ e = EndOf(s)

(* Any selection of timers of a sorted list, in their order, is sorted. *)
LEMMA SelectionIsSorted ==
  ASSUME NEW s, NEW r, NEW f, NEW g \in [1 .. Len(r) -> 1 .. Len(s)],
         Len(r) \in Nat, Len(s) \in Nat,
         \A j \in 1 .. Len(r) : r[j] = s[g[j]],
         \A i, j \in 1 .. Len(r) : i < j => g[i] < g[j]
  PROVE  /\ Distinct(s) => Distinct(r)
         /\ Sorted(s, f) => Sorted(r, f)
<1>1. ASSUME NEW i \in 1 .. Len(r), NEW j \in 1 .. Len(r), i # j
      PROVE  g[i] # g[j]
  <2>1. i < j \/ j < i
    BY <1>1
  <2> QED
    BY <2>1
<1>2. Distinct(s) => Distinct(r)
  BY <1>1 DEF Distinct
<1>3. Sorted(s, f) => Sorted(r, f)
  BY DEF Sorted
<1> QED
  BY <1>2, <1>3, Zenon

(* RemoveTimer takes the timer, and no other, out of the list, and moves
   list_tail when the timer was the last. *)
LEMMA RemovedIsLinked ==
  ASSUME NEW s, NEW e, NEW D, NEW f, Linked(s, e, D, f), NEW id \in D,
         NEW m, m = Removed([list |-> s, tail |-> e], id)
  PROVE  Linked(m.list, m.tail, D \ {id}, f)
<1> DEFINE i == Position(s, id)
           r == RemoveAt(s, i)
<1>1. s \in Seq(D) /\ i \in 1 .. Len(s) /\ s[i] = id
  BY PositionIs DEF Linked
<1>2. \A j \in 1 .. Len(s) : j # i => s[j] # id
  BY <1>1, Zenon DEF Linked, Distinct
<1>3. /\ r \in Seq(D)
      /\ Len(r) = Len(s) - 1
      /\ \A j \in 1 .. Len(s) - 1 : r[j] = IF j < i THEN s[j] ELSE s[j + 1]
  BY <1>1, RemoveAtProperties, Zenon
<1>4. /\ m.list = r
      /\ m.tail = IF e # id THEN e
                                ELSE IF i = 1 THEN None ELSE s[i - 1]
  BY Zenon DEF Removed
<1> HIDE DEF i, r
<1>5. r \in Seq(D \ {id})
  <2>1. \A j \in 1 .. Len(r) : r[j] \in D \ {id}
    BY <1>1, <1>2, <1>3
  <2> QED
    BY <1>3, <2>1, IsASeq, SeqDef
<1>6. \A x \in D \ {id} : \E j \in 1 .. Len(r) : r[j] = x
  <2> TAKE x \in D \ {id}
  <2>1. PICK k \in 1 .. Len(s) : s[k] = x
    BY Zenon DEF Linked
  <2>2. k # i
    BY <1>1, <2>1, Zenon
  <2>3. CASE k < i
    BY <1>1, <1>3, <2>1, <2>3
  <2>4. CASE k > i
    <3>1. k - 1 \in 1 .. Len(r) /\ ~(k - 1 < i) /\ (k - 1) + 1 = k
      BY <1>1, <1>3, <2>4
    <3> QED
      BY <1>3, <2>1, <3>1, Zenon
  <2> QED
    BY <1>1, <2>2, <2>3, <2>4
<1>7. Distinct(r) /\ Sorted(r, f)
  <2> DEFINE g == [j \in 1 .. Len(r) |-> IF j < i THEN j ELSE j + 1]
  <2>1. g \in [1 .. Len(r) -> 1 .. Len(s)]
    BY <1>1, <1>3
  <2>2. \A j \in 1 .. Len(r) : r[j] = s[g[j]]
    BY <1>3, Zenon
  <2>3. \A j, k \in 1 .. Len(r) : j < k => g[j] < g[k]
    BY <1>1, <1>3
  <2> HIDE DEF g
  <2>4. Len(r) \in Nat /\ Len(s) \in Nat
    BY <1>1, <1>3
  <2> QED
    BY <2>1, <2>2, <2>3, <2>4, SelectionIsSorted, Zenon DEF Linked
<1>9. m.tail = EndOf(r)
  <2>1. e = s[Len(s)]
    BY <1>1 DEF Linked, EndOf
  <2>2. CASE i = Len(s) /\ i = 1
    <3>1. r = <<>>
      BY <1>3, <2>2
    <3> QED
      BY <1>1, <1>4, <2>1, <2>2, <3>1, Zenon DEF EndOf
  <2>3. CASE i = Len(s) /\ i # 1
    <3>0. /\ Len(s) \in Nat /\ Len(s) - 1 \in 1 .. Len(s) - 1
          /\ Len(s) - 1 < i /\ i - 1 = Len(s) - 1
      BY <1>1, <2>3
    <3>1. r # <<>> /\ r[Len(r)] = s[i - 1]
      BY <1>3, <3>0
    <3>2. e = id
      BY <1>1, <2>1, <2>3, Zenon
    <3> QED
      BY <1>4, <2>3, <3>1, <3>2, Zenon DEF EndOf
  <2>4. CASE i # Len(s)
    <3>1. e # id
      BY <1>1, <1>2, <2>1, <2>4
    <3>2. r # <<>> /\ r[Len(r)] = s[Len(s)]
      BY <1>1, <1>3, <2>4
    <3> QED
      BY <1>4, <2>1, <3>1, <3>2, Zenon DEF EndOf
  <2> QED
    BY <2>2, <2>3, <2>4, Zenon
<1> QED
  BY <1>4, <1>5, <1>6, <1>7, <1>9, Zenon DEF Linked
(* A timer put between timers due no later and timers due no earlier leaves
   the list sorted and complete. *)
LEMMA InsertionIsLinked ==
  ASSUME NEW s, NEW e, NEW D, NEW f, Linked(s, e, D, f), NEW id, id \notin D,
         NEW k \in 1 .. Len(s) + 1, NEW t, NEW end,
         IsInsertion(t, s, k, id, D \cup {id}),
         \A j \in 1 .. Len(s) : j < k => Upto(f[s[j]].when) <= Upto(f[id].when),
         \A j \in 1 .. Len(s) : j >= k => Upto(f[id].when) <= Upto(f[s[j]].when),
         end = IF k = Len(s) + 1 THEN id ELSE e
  PROVE  Linked(t, end, D \cup {id}, f)
<1> DEFINE old(j) == IF j < k THEN j ELSE j - 1
<1>1. /\ s \in Seq(D) /\ Len(s) \in Nat
      /\ t \in Seq(D \cup {id}) /\ Len(t) = Len(s) + 1
      /\ t[k] = id
      /\ \A j \in 1 .. Len(t) : j # k => old(j) \in 1 .. Len(s) /\ t[j] = s[old(j)]
  <2>1. s \in Seq(D) /\ Len(s) \in Nat
    BY DEF Linked
  <2>2. t \in Seq(D \cup {id}) /\ Len(t) = Len(s) + 1
    BY Zenon DEF IsInsertion
  <2>3. \A j \in 1 .. Len(s) + 1 :
          t[j] = IF j < k THEN s[j] ELSE IF j = k THEN id ELSE s[j - 1]
    BY Zenon DEF IsInsertion
  <2>4. ASSUME NEW j \in 1 .. Len(t), j # k
        PROVE  old(j) \in 1 .. Len(s) /\ t[j] = s[old(j)]
    BY <2>1, <2>2, <2>3, <2>4
  <2> QED
    BY <2>1, <2>2, <2>3, <2>4
<1>2. \A i, j \in 1 .. Len(t) : i # k /\ j # k /\ i < j => old(i) < old(j)
  BY <1>1
<1>3. \A i, j \in 1 .. Len(t) : i # k /\ j # k /\ i # j => old(i) # old(j)
  BY <1>1
<1>4. \A j \in 1 .. Len(t) : j < k => old(j) < k
  BY <1>1, Zenon
<1>5. \A j \in 1 .. Len(t) : j > k => old(j) >= k
  BY <1>1
<1>6. \A x \in D \cup {id} : \E j \in 1 .. Len(t) : t[j] = x
  <2> TAKE x \in D \cup {id}
  <2>1. CASE x = id
    BY <1>1, <2>1, Zenon
  <2>2. CASE x # id
    <3>1. PICK j \in 1 .. Len(s) : s[j] = x
      BY <2>2, Zenon DEF Linked
    <3>2. CASE j < k
      BY <1>1, <3>1, <3>2
    <3>3. CASE j >= k
      <4>1. j + 1 \in 1 .. Len(t) /\ j + 1 # k /\ old(j + 1) = j
        BY <1>1, <3>3
      <4> QED
        BY <1>1, <3>1, <4>1, Zenon
    <3> QED
      BY <1>1, <3>2, <3>3
  <2> QED
    BY <2>1, <2>2, Zenon
<1> HIDE DEF old
<1>7. Distinct(t)
  <2> SUFFICES ASSUME NEW i \in 1 .. Len(t), NEW j \in 1 .. Len(t), i # j
               PROVE  t[i] # t[j]
    BY Zenon DEF Distinct
  <2>1. \A h \in 1 .. Len(s) : s[h] # id
    BY <1>1
  <2>2. CASE i = k \/ j = k
    BY <1>1, <2>1, <2>2, Zenon
  <2>3. CASE i # k /\ j # k
    <3>1. /\ t[i] = s[old(i)] /\ t[j] = s[old(j)] /\ old(i) # old(j)
          /\ old(i) \in 1 .. Len(s) /\ old(j) \in 1 .. Len(s)
      BY <1>1, <1>3, <2>3, Zenon
    <3> QED
      BY <3>1, Zenon DEF Linked, Distinct
  <2> QED
    BY <2>2, <2>3, Zenon
<1>8. Sorted(t, f)
  <2> SUFFICES ASSUME NEW i \in 1 .. Len(t), NEW j \in 1 .. Len(t), i < j
               PROVE  Upto(f[t[i]].when) <= Upto(f[t[j]].when)
    BY Zenon DEF Sorted
  <2>1. CASE i = k
    <3>1. j # k /\ j > k
      BY <2>1
    <3> QED
      BY <1>1, <1>5, <2>1, <3>1, Zenon
  <2>2. CASE j = k
    <3>1. i # k /\ i < k
      BY <2>2
    <3> QED
      BY <1>1, <1>4, <2>2, <3>1, Zenon
  <2>3. CASE i # k /\ j # k
    BY <1>1, <1>2, <2>3, Zenon DEF Linked, Sorted
  <2> QED
    BY <2>1, <2>2, <2>3, Zenon
<1>9. end = EndOf(t)
  <2>1. t # <<>> /\ EndOf(t) = t[Len(t)]
    BY <1>1 DEF EndOf
  <2>2. CASE k = Len(s) + 1
    BY <1>1, <2>1, <2>2, Zenon
  <2>3. CASE k # Len(s) + 1
    <3>1. Len(t) # k /\ Len(t) \in 1 .. Len(t) /\ old(Len(t)) = Len(s)
      BY <1>1, <2>3 DEF old
    <3>2. t[Len(t)] = s[Len(s)] /\ s # <<>>
      BY <1>1, <3>1, <2>3
    <3> QED
      BY <2>1, <2>3, <3>2, Zenon DEF Linked, EndOf
  <2> QED
    BY <2>2, <2>3, Zenon
<1> QED
  BY <1>1, <1>6, <1>7, <1>8, <1>9, Zenon DEF Linked
(* InsertTimer puts a timer that is not in the list where it belongs, on each
   of its paths: an empty list, the head, the tail, the middle. *)
LEMMA InsertedIsLinked ==
  ASSUME NEW s, NEW e, NEW D, NEW f, Linked(s, e, D, f), NEW id, id \notin D,
         \A x \in D \cup {id} : f[x].when \in Nat,
         NEW m, m = InsertTimer([list |-> s, tail |-> e], id, f)
  PROVE  Linked(m.list, m.tail, D \cup {id}, f)
<1> DEFINE w == f[id].when
           P == {j \in 1 .. Len(s) : w < f[s[j]].when}
           after == IF P # {} THEN Min(P) ELSE 0
           i == IF after = 0 THEN Len(s) + 1 ELSE after
<1>1. s \in Seq(D) /\ Len(s) \in Nat /\ w \in Nat /\ Never \in Nat
      /\ \A j \in 1 .. Len(s) : s[j] \in D /\ f[s[j]].when \in Nat
  BY TimerAssumption DEF Linked
<1>2. /\ after \in 0 .. Len(s)
      /\ after = 0 <=> P = {}
      /\ after # 0 => after \in P
      /\ \A j \in P : after <= j
  <2> P \subseteq 1 .. Len(s)
    BY Zenon
  <2> HIDE DEF P
  <2> QED
    BY <1>1, FirstIsLeast, Zenon
<1>3. m = IF s = <<>> THEN [list |-> <<id>>, tail |-> id]
          ELSE IF after = 1 THEN [list |-> <<id>> \o s, tail |-> e]
          ELSE IF w = Never THEN
            [list |-> Append(SubSeq(s, 1, Position(s, e)), id), tail |-> id]
          ELSE [list |-> InsertAt(s, i, id),
                tail |-> IF s[i - 1] = e THEN id ELSE e]
  BY Zenon DEF InsertTimer, First
<1>4. /\ i \in 1 .. Len(s) + 1
      /\ \A j \in 1 .. Len(s) : j < i => f[s[j]].when <= w
      /\ i # Len(s) + 1 => w < f[s[i]].when
  <2> HIDE DEF after
  <2>1. CASE after = 0
    <3>1. i = Len(s) + 1 /\ P = {}
      BY <1>2, <2>1, Zenon
    <3> QED
      BY <1>1, <3>1
  <2>2. CASE after # 0
    <3>1. i = after /\ after \in P /\ after \in 1 .. Len(s)
      BY <1>2, <2>2, Zenon
    <3>2. \A j \in 1 .. Len(s) : j < after => j \notin P
      BY <1>2, <3>1
    <3> QED
      BY <1>1, <3>1, <3>2
  <2> QED
    BY <2>1, <2>2, Zenon
<1> HIDE DEF after, i
<1>5. \A j \in 1 .. Len(s) : j < i => Upto(f[s[j]].when) <= Upto(w)
  BY <1>1, <1>4 DEF Upto
<1>6. \A j \in 1 .. Len(s) : j >= i => Upto(w) <= Upto(f[s[j]].when)
  <2> SUFFICES ASSUME NEW j \in 1 .. Len(s), j >= i
               PROVE  Upto(w) <= Upto(f[s[j]].when)
    BY Zenon
  <2>1. i \in 1 .. Len(s) /\ Upto(w) <= Upto(f[s[i]].when)
    BY <1>1, <1>4 DEF Upto
  <2>2. Upto(f[s[i]].when) <= Upto(f[s[j]].when)
    <3>1. CASE i = j
      BY <1>1, <3>1 DEF Upto
    <3>2. CASE i < j
      BY <2>1, <3>2, Zenon DEF Linked, Sorted
    <3> QED
      BY <2>1, <3>1, <3>2
  <2>3. Upto(w) \in Nat /\ Upto(f[s[i]].when) \in Nat /\ Upto(f[s[j]].when) \in Nat
    BY <1>1, <2>1, Zenon DEF Upto
  <2> QED
    BY <2>1, <2>2, <2>3
<1>7. s \in Seq(D \cup {id}) /\ id \in D \cup {id}
  BY <1>1
<1>8. CASE s = <<>>
  <2>1. m = [list |-> <<id>>, tail |-> id]
    BY <1>3, <1>8, Zenon
  <2>2. IsInsertion(<<id>>, s, 1, id, D \cup {id})
    BY <1>8 DEF IsInsertion
  <2>3. i = 1 /\ id = IF i = Len(s) + 1 THEN id ELSE e
    BY <1>4, <1>8
  <2>4. Linked(<<id>>, id, D \cup {id}, f)
    BY <1>4, <1>5, <1>6, <2>2, <2>3, InsertionIsLinked, Zenon
  <2> QED
    BY <2>1, <2>4
<1>9. CASE s # <<>> /\ after = 1
  <2>1. m = [list |-> <<id>> \o s, tail |-> e]
    BY <1>3, <1>9, Zenon
  <2>2. IsInsertion(<<id>> \o s, s, 1, id, D \cup {id})
    BY <1>7, PrependIsInsertion, Zenon
  <2>3. i = 1 /\ e = IF i = Len(s) + 1 THEN id ELSE e
    BY <1>1, <1>9 DEF i
  <2>4. Linked(<<id>> \o s, e, D \cup {id}, f)
    BY <1>4, <1>5, <1>6, <2>2, <2>3, InsertionIsLinked, Zenon
  <2>5. m.list = <<id>> \o s /\ m.tail = e
    BY <2>1
  <2> QED
    BY <2>4, <2>5, Zenon
<1>10. CASE s # <<>> /\ after # 1 /\ w = Never
  <2>1. m = [list |-> Append(SubSeq(s, 1, Position(s, e)), id), tail |-> id]
    BY <1>3, <1>10, Zenon
  <2>2. Position(s, e) = Len(s)
    <3>1. e = s[Len(s)] /\ Len(s) \in 1 .. Len(s)
      BY <1>1, <1>10 DEF Linked, EndOf
    <3>2. Position(s, e) \in 1 .. Len(s) /\ s[Position(s, e)] = s[Len(s)]
      BY <1>1, <3>1, PositionIs
    <3> QED
      BY <3>1, <3>2, Zenon DEF Linked, Distinct
  <2>3. SubSeq(s, 1, Len(s)) = s
    BY <1>1, SubSeqFull, Zenon
  <2>4. IsInsertion(Append(s, id), s, Len(s) + 1, id, D \cup {id})
    BY <1>7, AppendIsInsertion, Zenon
  <2>5. \A j \in 1 .. Len(s) : Upto(f[s[j]].when) <= Upto(w)
    BY <1>1, <1>10 DEF Upto
  <2>6. Len(s) + 1 \in 1 .. Len(s) + 1 /\ \A j \in 1 .. Len(s) : ~(j >= Len(s) + 1)
    BY <1>1
  <2>7. Linked(Append(s, id), id, D \cup {id}, f)
    BY <2>4, <2>5, <2>6, InsertionIsLinked, Zenon
  <2>8. m.list = Append(s, id) /\ m.tail = id
    <3>1. m = [list |-> Append(s, id), tail |-> id]
      BY <2>1, <2>2, <2>3, Zenon
    <3> QED
      BY <3>1
  <2> QED
    BY <2>7, <2>8, Zenon
<1>11. CASE s # <<>> /\ after # 1 /\ w # Never
  <2> DEFINE end == IF s[i - 1] = e THEN id ELSE e
  <2>1. m = [list |-> InsertAt(s, i, id), tail |-> end]
    BY <1>3, <1>11, Zenon
  <2>2. IsInsertion(InsertAt(s, i, id), s, i, id, D \cup {id})
    BY <1>4, <1>7, InsertAtIsInsertion, Zenon
  <2>3. i - 1 \in 1 .. Len(s)
    BY <1>1, <1>2, <1>4, <1>11 DEF i
  <2>4. s[i - 1] = e <=> i = Len(s) + 1
    <3>1. e = s[Len(s)] /\ Len(s) \in 1 .. Len(s)
      BY <1>1, <1>11 DEF Linked, EndOf
    <3>2. s[i - 1] = s[Len(s)] <=> i - 1 = Len(s)
      BY <2>3, <3>1, Zenon DEF Linked, Distinct
    <3> QED
      BY <1>1, <1>4, <3>1, <3>2
  <2>5. Linked(InsertAt(s, i, id), end, D \cup {id}, f)
    BY <1>4, <1>5, <1>6, <2>2, <2>4, InsertionIsLinked, Zenon
  <2> QED
    BY <2>1, <2>5
<1> QED
  BY <1>8, <1>9, <1>10, <1>11, Zenon
(* The shape of the list depends only on the timers that are in it. *)
LEMMA LinkedFrame ==
  ASSUME NEW s, NEW e, NEW D, NEW f, NEW g, Linked(s, e, D, f), \A x \in D : g[x] = f[x]
  PROVE  Linked(s, e, D, g)
<1>1. \A i \in 1 .. Len(s) : g[s[i]] = f[s[i]]
  BY DEF Linked
<1> QED
  BY <1>1, Zenon DEF Linked, Sorted

(* A timer removed and inserted again with another due time, as ResetTimer and
   Timeout do, is where it belongs. *)
LEMMA RequeueIsLinked ==
  ASSUME NEW D, NEW f, NEW g, NEW id \in D,
         Linked(list, tail, D, f), \A x \in D \ {id} : g[x] = f[x],
         \A x \in D : g[x].when \in Nat,
         Requeue(id, g)
  PROVE  Linked(list', tail', D, g)
<1> DEFINE r == Removed(This, id)
           m == InsertTimer(r, id, g)
<1>1. Linked(r.list, r.tail, D \ {id}, f)
  BY RemovedIsLinked, Zenon DEF This
<1>2. Linked(r.list, r.tail, D \ {id}, g)
  BY <1>1, LinkedFrame, Zenon
<1>3. r = [list |-> r.list, tail |-> r.tail]
  BY Zenon DEF Removed
<1>4. /\ id \notin D \ {id}
      /\ (D \ {id}) \cup {id} = D
  BY Zenon
<1> HIDE DEF r
<1>5. Linked(m.list, m.tail, (D \ {id}) \cup {id}, g)
  BY <1>2, <1>3, <1>4, InsertedIsLinked, Zenon
<1>6. list' = m.list /\ tail' = m.tail
  BY Zenon DEF Requeue, SetList, r
<1> QED
  BY <1>4, <1>5, <1>6, Zenon

(* The timers the list should hold: not the one cancelled by its own handler,
   which is deleted when the handler returns. *)
Listed == DOMAIN tm \ (IF did_cancel THEN {in_timeout} ELSE {})

(* The inductive invariant. *)
TimerInv ==
  /\ TypeOK
  /\ Linked(list, tail, Listed, tm)
  /\ pc \in {"idle", "loop"} => in_timeout = None
  /\ pc = "handler" => in_timeout \in DOMAIN tm
  /\ pc = "idle" => fired = <<>> /\ ready = {}
  /\ ready # {} => limit = Unlimited
  /\ limit = Unlimited => Distinct(fired) /\ \A k \in 1 .. Len(fired) : fired[k] \notin ready

(* At the start there are no timers. *)
LEMMA InitTimer == Init => TimerInv
<1> SUFFICES ASSUME Init PROVE TimerInv
  BY Zenon
<1>1. TypeOK
  <2>1. tm = <<>> /\ list = <<>> /\ DOMAIN tm = {} /\ fired = <<>> /\ clock = 0 /\ timer_ids = 0
    BY DEF Init
  <2>2. list \in Seq(DOMAIN tm) /\ fired \in Seq(Ids)
    BY <2>1
  <2>3. clock \in 0..MaxClock /\ timer_ids \in 0..MaxTimers
    BY <2>1, TimerAssumption
  <2> QED
    BY <2>1, <2>2, <2>3, Zenon DEF Init, TypeOK
<1>2. Linked(list, tail, Listed, tm)
  BY DEF Init, Linked, Listed, Distinct, Sorted, EndOf
<1> QED
  BY <1>1, <1>2 DEF Init, TimerInv, Distinct

(* GetTimer finds exactly the timers that are neither deleted nor cancelled by
   their own handler. *)
LEMMA InListIs ==
  ASSUME TimerInv, NEW id
  PROVE  InList(id) <=> id \in Listed
<1>1. list \in Seq(Listed) /\ \A x \in Listed : \E i \in 1 .. Len(list) : list[i] = x
  BY Zenon DEF TimerInv, Linked
<1>2. /\ Position(list, id) \in 0 .. Len(list)
      /\ Position(list, id) # 0 => list[Position(list, id)] = id
      /\ Position(list, id) = 0 => \A j \in 1 .. Len(list) : list[j] # id
  BY <1>1, PositionIs, Zenon
<1> QED
  BY <1>1, <1>2 DEF InList
(* list_tail is nil or a timer of the list. *)
LEMMA TailType ==
  ASSUME NEW D, NEW f, Linked(list', tail', D, f), D \subseteq Ids
  PROVE  tail' \in Ids \cup {None} /\ list' \in Seq(D)
<1>1. list' \in Seq(D) /\ tail' = EndOf(list')
  BY Zenon DEF Linked
<1>2. CASE list' = <<>>
  BY <1>1, <1>2, Zenon DEF EndOf
<1>3. CASE list' # <<>>
  <2>1. Len(list') \in 1 .. Len(list')
    BY <1>1, <1>3
  <2> QED
    BY <1>1, <1>3, <2>1 DEF EndOf
<1> QED
  BY <1>1, <1>2, <1>3, Zenon

(* What the operations on the list of timers preserve. *)
(* What an operation on the list must show: the rest of the invariant does not
   depend on it. *)
LEMMA ListStep ==
  ASSUME TimerInv,
         DOMAIN tm' \subseteq 0 .. timer_ids' - 1, timer_ids' \in 0 .. MaxTimers,
         \A id \in DOMAIN tm' : tm'[id] \in Timers,
         Linked(list', tail', Listed', tm'),
         did_reset' \in BOOLEAN, did_cancel' \in BOOLEAN,
         in_timeout' \in DOMAIN tm \cup {None},
         UNCHANGED <<limit, clock, cycle>>,
         pc' \in {"idle", "loop", "handler", "exited"},
         pc' \in {"idle", "loop"} => in_timeout' = None,
         pc' = "handler" => in_timeout' \in DOMAIN tm',
         pc' = "idle" => pc = "idle"
  PROVE  TimerInv'
<1>1. DOMAIN tm' \subseteq Ids /\ DOMAIN tm \subseteq Ids
  BY TimerAssumption DEF TimerInv, TypeOK, Ids
<1>2. Listed' \subseteq DOMAIN tm'
  BY Zenon DEF Listed
<1>3. tail' \in Ids \cup {None} /\ list' \in Seq(Listed')
  BY <1>1, <1>2, TailType, Zenon
<1>4. list' \in Seq(DOMAIN tm')
  BY <1>2, <1>3
<1>5. TypeOK'
  BY <1>1, <1>3, <1>4, Zenon DEF TimerInv, TypeOK, cycle
<1> QED
  BY <1>5 DEF TimerInv, cycle, Distinct
(* Resetting a timer (RemoveTimer, InsertTimer) keeps the invariant. *)
LEMMA ResetToStep ==
  ASSUME TimerInv, Running, NEW id \in Ids, InList(id), NEW t \in Timers, ResetTo(id, t)
  PROVE  TimerInv'
<1>1. id \in Listed
  BY InListIs, Zenon
<1>2. /\ tm' = [tm EXCEPT ![id] = t]
      /\ Requeue(id, tm')
      /\ did_reset' = (did_reset \/ in_timeout = id)
      /\ UNCHANGED <<timer_ids, limit, clock, pc, in_timeout, did_cancel, cycle>>
  BY Zenon DEF ResetTo
<1>3. DOMAIN tm' = DOMAIN tm /\ Listed' = Listed /\ Listed \subseteq DOMAIN tm
  BY <1>2, Zenon DEF Listed
<1>4. \A x \in DOMAIN tm : tm'[x] = IF x = id THEN t ELSE tm[x]
  BY <1>2, Zenon
<1>5. \A x \in DOMAIN tm' : tm'[x] \in Timers
  BY <1>3, <1>4, Zenon DEF TimerInv, TypeOK
<1>6. Linked(list', tail', Listed, tm')
  <2>1. \A x \in Listed \ {id} : tm'[x] = tm[x]
    BY <1>3, <1>4, Zenon
  <2>2. \A x \in Listed : tm'[x].when \in Nat
    BY <1>3, <1>5, Zenon DEF Timers
  <2>3. Linked(list, tail, Listed, tm)
    BY Zenon DEF TimerInv
  <2> QED
    BY <1>1, <1>2, <2>1, <2>2, <2>3, RequeueIsLinked, Zenon
<1>7. Linked(list', tail', Listed', tm')
  BY <1>3, <1>6, Zenon
<1>8. did_reset' \in BOOLEAN
  BY <1>2, Zenon
<1>9. in_timeout \in DOMAIN tm \cup {None} /\ pc \in {"idle", "handler"}
  BY Zenon DEF TimerInv, Running
<1> QED
  BY <1>2, <1>3, <1>5, <1>7, <1>8, <1>9, ListStep, Zenon DEF TimerInv, TypeOK

(* NewTimer keeps the invariant: the new id was never used. *)
LEMMA NewTimerStep ==
  ASSUME TimerInv, NEW delay \in Delays, NEW period \in Delays, NEW slice \in BOOLEAN,
         NewTimer(delay, period, slice)
  PROVE  TimerInv'
<1> DEFINE n == timer_ids
           t == [when |-> DueIn(delay), started |-> clock, period |-> period, slice |-> slice]
           f == [id \in DOMAIN tm \cup {n} |-> IF id = n THEN t ELSE tm[id]]
           m == InsertTimer(This, n, f)
<1>1. /\ tm' = f /\ list' = m.list /\ tail' = m.tail
      /\ timer_ids' = n + 1 /\ n < MaxTimers /\ Running
      /\ UNCHANGED <<limit, clock, pc, in_timeout, flags, cycle>>
  BY Zenon DEF NewTimer, SetList
<1>2. /\ n \in Nat /\ DOMAIN tm \subseteq 0 .. n - 1 /\ clock \in Nat
      /\ in_timeout \in DOMAIN tm \cup {None} /\ None \notin Nat
      /\ \A id \in DOMAIN tm : tm[id] \in Timers
  BY <1>1, TimerAssumption DEF TimerInv, TypeOK, Running
<1>3. n \notin DOMAIN tm /\ in_timeout # n
  BY <1>2
<1>4. t \in Timers
  BY <1>2, TimerAssumption DEF Timers, DueIn
<1> HIDE DEF t
<1>5. DOMAIN f = DOMAIN tm \cup {n} /\ \A id \in DOMAIN f : f[id] \in Timers
  BY <1>2, <1>3, <1>4, Zenon
<1>6. Listed' = Listed \cup {n} /\ n \notin Listed
  BY <1>1, <1>3, <1>5, Zenon DEF Listed, flags
<1>7. \A x \in Listed : f[x] = tm[x]
  BY <1>3, Zenon DEF Listed
<1> HIDE DEF f
<1>8. Linked(list, tail, Listed, f)
  BY <1>7, LinkedFrame, Zenon DEF TimerInv
<1>9. Linked(m.list, m.tail, Listed \cup {n}, f)
  <2>1. \A x \in Listed \cup {n} : f[x].when \in Nat
    BY <1>5, Zenon DEF Listed, Timers
  <2> QED
    BY <1>6, <1>8, <2>1, InsertedIsLinked, Zenon DEF This
<1>10. Linked(list', tail', Listed', tm')
  BY <1>1, <1>6, <1>9, Zenon
<1>11. DOMAIN tm' \subseteq 0 .. timer_ids' - 1 /\ timer_ids' \in 0 .. MaxTimers
  BY <1>1, <1>2, <1>5, TimerAssumption
<1>12. \A id \in DOMAIN tm' : tm'[id] \in Timers
  BY <1>1, <1>5, Zenon
<1>13. pc' \in {"idle", "handler"} /\ pc' = "handler" => in_timeout' \in DOMAIN tm'
  BY <1>1, <1>5, Zenon DEF TimerInv, Running
<1> QED
  BY <1>1, <1>2, <1>10, <1>11, <1>12, <1>13, ListStep, Zenon DEF TimerInv, TypeOK, flags, Running

(* Deleting a timer leaves the others as they are. *)
LEMMA WithoutIs ==
  ASSUME NEW f, NEW id
  PROVE  /\ DOMAIN Without(f, id) = DOMAIN f \ {id}
         /\ \A x \in DOMAIN f \ {id} : Without(f, id)[x] = f[x]
BY Zenon DEF Without

(* CancelTimer keeps the invariant: the timer whose handler runs is taken off
   the list and deleted later, any other is deleted at once. *)
LEMMA CancelTimerStep ==
  ASSUME TimerInv, NEW id \in Ids, CancelTimer(id)
  PROVE  TimerInv'
<1>1. /\ Running /\ id \in Listed
      /\ UNCHANGED <<timer_ids, limit, clock, pc, in_timeout, did_reset, cycle>>
  BY InListIs, Zenon DEF CancelTimer
<1>2. Linked(list', tail', Listed \ {id}, tm)
  BY <1>1, RemovedIsLinked, Zenon DEF CancelTimer, SetList, This, TimerInv
<1>3. in_timeout \in DOMAIN tm \cup {None}
  BY <1>1, Zenon DEF TimerInv, Running
<1>4. CASE in_timeout = id
  <2>1. did_cancel' = TRUE /\ tm' = tm
    BY <1>4, Zenon DEF CancelTimer
  <2>2. ~did_cancel
    BY <1>1, <1>4, Zenon DEF Listed
  <2>3. Listed' = Listed \ {id}
    BY <1>1, <1>4, <2>1, <2>2, Zenon DEF Listed
  <2>4. Linked(list', tail', Listed', tm')
    BY <1>2, <2>1, <2>3, Zenon
  <2> QED
    BY <1>1, <1>3, <2>1, <2>4, ListStep, Zenon DEF TimerInv, TypeOK, Running
<1>5. CASE in_timeout # id
  <2>1. did_cancel' = did_cancel /\ tm' = Without(tm, id)
    BY <1>5, Zenon DEF CancelTimer
  <2>2. /\ DOMAIN tm' = DOMAIN tm \ {id}
        /\ \A x \in DOMAIN tm' : tm'[x] = tm[x]
    BY <2>1, WithoutIs, Zenon
  <2>3. Listed' = Listed \ {id} /\ Listed' \subseteq DOMAIN tm'
    BY <1>1, <2>1, <2>2, Zenon DEF Listed
  <2>4. Linked(list', tail', Listed', tm')
    BY <1>2, <2>2, <2>3, LinkedFrame, Zenon
  <2>5. /\ DOMAIN tm' \subseteq 0 .. timer_ids' - 1
        /\ \A x \in DOMAIN tm' : tm'[x] \in Timers
    BY <1>1, <2>2, Zenon DEF TimerInv, TypeOK
  <2>6. pc' = "handler" => in_timeout' \in DOMAIN tm'
    BY <1>1, <1>5, <2>2, Zenon DEF TimerInv
  <2> QED
    BY <1>1, <1>3, <2>1, <2>4, <2>5, <2>6, ListStep, Zenon DEF TimerInv, TypeOK, Running
<1> QED
  BY <1>4, <1>5, Zenon
(* CancelAllTimers keeps the invariant, also from inside a handler. *)
LEMMA CancelAllStep ==
  ASSUME TimerInv, CancelAllTimers
  PROVE  TimerInv'
<1>1. /\ tm' = [t \in DOMAIN tm \cap {in_timeout} |-> tm[t]]
      /\ list' = <<>> /\ tail' = None /\ pc' = "exited" /\ Running
      /\ UNCHANGED <<timer_ids, limit, clock, in_timeout, did_reset, cycle>>
  BY Zenon DEF CancelAllTimers
<1>2. did_cancel' \in BOOLEAN /\ (did_cancel' <=> did_cancel \/ InList(in_timeout))
  BY Zenon DEF CancelAllTimers
<1>3. DOMAIN tm' = DOMAIN tm \cap {in_timeout} /\ \A x \in DOMAIN tm' : tm'[x] = tm[x]
  BY <1>1, Zenon
<1>4. Listed' = {}
  <2>1. CASE did_cancel'
    BY <1>1, <1>3, <2>1, Zenon DEF Listed
  <2>2. CASE ~did_cancel'
    <3>1. in_timeout \notin DOMAIN tm
      BY <1>2, <2>2, InListIs, Zenon DEF Listed
    <3> QED
      BY <1>3, <3>1, Zenon DEF Listed
  <2> QED
    BY <2>1, <2>2, Zenon
<1>5. Linked(list', tail', Listed', tm')
  BY <1>1, <1>4 DEF Linked, Distinct, Sorted, EndOf
<1>6. in_timeout \in DOMAIN tm \cup {None}
  BY <1>1, Zenon DEF TimerInv, Running
<1>7. /\ DOMAIN tm' \subseteq 0 .. timer_ids' - 1 /\ timer_ids' \in 0 .. MaxTimers
      /\ \A x \in DOMAIN tm' : tm'[x] \in Timers
  BY <1>1, <1>3, Zenon DEF TimerInv, TypeOK
<1> QED
  BY <1>1, <1>2, <1>5, <1>6, <1>7, ListStep, Zenon DEF TimerInv, TypeOK

(* A timer with one field changed is a timer. *)
LEMMA TimerUpdates ==
  ASSUME NEW r \in Timers
  PROVE  /\ \A w \in Nat : [r EXCEPT !.when = w] \in Timers
         /\ \A s \in Nat : [r EXCEPT !.started = s] \in Timers
         /\ \A p \in Delays : [r EXCEPT !.period = p] \in Timers
         /\ [r EXCEPT !.slice = TRUE] \in Timers
BY Zenon DEF Timers

(* ResetTimer, ResetTimerPeriod and ResetTimerTimeslice keep the invariant. *)
LEMMA ResetSteps ==
  ASSUME TimerInv, NEW id \in Ids,
         \/ \E d, p \in Delays : ResetTimer(id, d, p)
         \/ \E p \in Delays : ResetTimerPeriod(id, p)
         \/ \E w \in 0 .. MaxClock : ResetTimerTimeslice(id, w)
  PROVE  TimerInv'
<1>1. InList(id) /\ Running
  BY Zenon DEF ResetTimer, ResetTimerPeriod, ResetTimerTimeslice
<1>2. tm[id] \in Timers /\ clock \in Nat /\ Never \in Nat
  BY <1>1, InListIs, TimerAssumption DEF TimerInv, TypeOK, Listed
<1>3. ASSUME NEW d \in Delays, NEW p \in Delays, ResetTimer(id, d, p)
      PROVE  TimerInv'
  <2> DEFINE t == [tm[id] EXCEPT !.started = clock, !.when = DueIn(d), !.period = p]
  <2>1. ResetTo(id, t)
    BY <1>3, Zenon DEF ResetTimer
  <2>2. DueIn(d) \in Nat
    BY <1>2, TimerAssumption DEF DueIn
  <2>3. t \in Timers
    BY <1>2, <2>2, TimerUpdates, Zenon
  <2> HIDE DEF t
  <2> QED
    BY <1>1, <2>1, <2>3, ResetToStep, Zenon
<1>4. ASSUME NEW p \in Delays, ResetTimerPeriod(id, p)
      PROVE  TimerInv'
  <2> DEFINE skew == p # TimerNever /\ tm[id].started > clock
             start == IF skew THEN clock ELSE tm[id].started
             t == [tm[id] EXCEPT !.started = start, !.period = p,
                     !.when = IF p = TimerNever THEN Never + start + 1 ELSE start + p]
  <2>1. ResetTo(id, t)
    BY <1>4, Zenon DEF ResetTimerPeriod
  <2>2. start \in Nat
    BY <1>2, Zenon DEF Timers
  <2> HIDE DEF start
  <2> DEFINE w == IF p = TimerNever THEN Never + start + 1 ELSE start + p
  <2>3. w \in Nat
    BY <1>2, <2>2, TimerAssumption
  <2>4. t \in Timers
    BY <1>2, <2>2, <2>3, TimerUpdates, Zenon
  <2> HIDE DEF t
  <2> QED
    BY <1>1, <2>1, <2>4, ResetToStep, Zenon
<1>5. ASSUME NEW w \in 0 .. MaxClock, ResetTimerTimeslice(id, w)
      PROVE  TimerInv'
  <2> DEFINE t == [tm[id] EXCEPT !.when = w, !.period = 0, !.slice = TRUE]
  <2>1. ResetTo(id, t)
    BY <1>5, Zenon DEF ResetTimerTimeslice
  <2>2. w \in Nat /\ 0 \in Delays
    BY TimerAssumption
  <2>3. t \in Timers
    BY <1>2, <2>2, TimerUpdates, Zenon
  <2> HIDE DEF t
  <2> QED
    BY <1>1, <2>1, <2>3, ResetToStep, Zenon
<1> QED
  BY <1>3, <1>4, <1>5, Zenon

(* Time passing and the clock being set back keep the invariant. *)
LEMMA ClockStep ==
  ASSUME TimerInv, Tick \/ SetClockBack \/ Exited \/ UNCHANGED vars
  PROVE  TimerInv'
<1>1. UNCHANGED <<timers, timer_ids, limit, pc, in_timeout, flags, cycle>>
  BY Zenon DEF Tick, SetClockBack, Exited, vars
<1>2. clock' \in 0 .. MaxClock
  BY TimerAssumption DEF Tick, SetClockBack, Exited, vars, TimerInv, TypeOK
<1>3. UNCHANGED <<list, tail, tm, timer_ids, limit, pc, in_timeout, did_reset, did_cancel,
                  now, ready, fires, fired>>
  BY <1>1, Zenon DEF timers, flags, cycle
<1>4. Linked(list', tail', Listed', tm')
  BY <1>3, Zenon DEF TimerInv, Listed
<1>5. TypeOK'
  BY <1>2, <1>3, Zenon DEF TimerInv, TypeOK
<1> QED
  BY <1>3, <1>4, <1>5 DEF TimerInv, Distinct

(* A new limit is read between two calls of Timeout. *)
LEMMA ReconfigStep ==
  ASSUME TimerInv, NEW n \in Limits, Reconfig(n)
  PROVE  TimerInv'
<1>1. /\ pc = "idle" /\ limit' = n
      /\ UNCHANGED <<list, tail, tm, timer_ids, clock, pc, in_timeout, did_reset, did_cancel,
                     now, ready, fires, fired>>
  BY Zenon DEF Reconfig, timers, flags, cycle
<1>2. Linked(list', tail', Listed', tm')
  BY <1>1, Zenon DEF TimerInv, Listed
<1>3. TypeOK'
  BY <1>1, Zenon DEF TimerInv, TypeOK
<1>4. fired = <<>> /\ ready = {}
  BY <1>1, Zenon DEF TimerInv
<1> QED
  BY <1>1, <1>2, <1>3, <1>4 DEF TimerInv, Distinct

(* Timeout starts with the timers that are due, none of them run yet. *)
LEMMA TimeoutStartStep ==
  ASSUME TimerInv, TimeoutStart
  PROVE  TimerInv'
<1>1. /\ pc = "idle" /\ pc' = "loop" /\ now' = clock /\ fires' = 0 /\ fired' = <<>>
      /\ UNCHANGED <<list, tail, tm, timer_ids, limit, clock, in_timeout, did_reset, did_cancel>>
  BY Zenon DEF TimeoutStart, timers, flags
<1>2. ready' \subseteq Range(list) /\ (ready' # {} => limit = Unlimited)
  BY Zenon DEF TimeoutStart
<1>3. Range(list) \subseteq Ids
  BY TimerAssumption DEF TimerInv, TypeOK, Range, Ids
<1>4. Linked(list', tail', Listed', tm')
  BY <1>1, Zenon DEF TimerInv, Listed
<1>5. TypeOK'
  BY <1>1, <1>2, <1>3, Zenon DEF TimerInv, TypeOK
<1> QED
  BY <1>1, <1>2, <1>4, <1>5 DEF TimerInv, Distinct

(* Timeout forgets the timers it ran when it returns. *)
LEMMA TimeoutReturnsStep ==
  ASSUME TimerInv, TimeoutReturns
  PROVE  TimerInv'
<1>1. /\ pc = "loop" /\ pc' = "idle" /\ now' = 0 /\ ready' = {} /\ fires' = 0 /\ fired' = <<>>
      /\ UNCHANGED <<list, tail, tm, timer_ids, limit, clock, in_timeout, did_reset, did_cancel>>
  BY Zenon DEF TimeoutReturns, timers, flags
<1>2. Linked(list', tail', Listed', tm')
  BY <1>1, Zenon DEF TimerInv, Listed
<1>3. TypeOK'
  BY <1>1, TimerAssumption DEF TimerInv, TypeOK
<1> QED
  BY <1>1, <1>2, <1>3 DEF TimerInv, Distinct

(* Timeout walks the list from its head up to the first timer that is not due. *)
LEMMA DuePrefixIs ==
  ASSUME TypeOK
  PROVE  /\ DuePrefix \in 0 .. Len(list)
         /\ \A i \in 1 .. DuePrefix : tm[list[i]].when <= now
         /\ DuePrefix < Len(list) => tm[list[DuePrefix + 1]].when > now
<1> DEFINE s == Append(list, None)
           P == {i \in 1 .. Len(s) : s[i] = None \/ tm[s[i]].when > now}
           k == IF P # {} THEN Min(P) ELSE 0
<1>1. /\ Len(s) = Len(list) + 1 /\ s[Len(list) + 1] = None /\ Len(list) \in Nat
      /\ \A i \in 1 .. Len(list) : s[i] = list[i]
  BY DEF TypeOK
<1>2. \A i \in 1 .. Len(list) : list[i] # None /\ tm[list[i]].when \in Nat
  BY TimerAssumption DEF TypeOK, Timers
<1>3. DuePrefix = k - 1
  BY Zenon DEF DuePrefix, First
<1>4. P \subseteq 1 .. Len(list) + 1 /\ Len(list) + 1 \in P
  BY <1>1
<1>5. \A i \in 1 .. Len(list) : i \in P <=> tm[list[i]].when > now
  BY <1>1, <1>2
<1> HIDE DEF P
<1>6. k \in P /\ k \in 1 .. Len(list) + 1 /\ \A j \in P : k <= j
  <2>1. Len(list) + 1 \in Nat /\ P # {}
    BY <1>1, <1>4
  <2> HIDE DEF k
  <2>2. k = IF P # {} THEN Min(P) ELSE 0
    BY Zenon DEF k
  <2>3. /\ k \in 0 .. Len(list) + 1
        /\ k = 0 <=> P = {}
        /\ k # 0 => k \in P
        /\ \A j \in P : k <= j
    BY <1>4, <2>1, <2>2, FirstIsLeast, Zenon
  <2> QED
    BY <1>4, <2>1, <2>3, Zenon
<1> HIDE DEF k, s
<1>7. now \in Nat
  BY TimerAssumption DEF TypeOK
<1>8. DuePrefix \in 0 .. Len(list)
  BY <1>1, <1>3, <1>6
<1>9. \A i \in 1 .. DuePrefix : tm[list[i]].when <= now
  <2> TAKE i \in 1 .. DuePrefix
  <2>1. i \in 1 .. Len(list) /\ i < k
    BY <1>1, <1>3, <1>6
  <2>2. i \notin P
    BY <1>1, <1>6, <2>1
  <2>3. tm[list[i]].when \in Nat /\ ~(tm[list[i]].when > now)
    BY <1>2, <1>5, <2>1, <2>2, Zenon
  <2> QED
    BY <1>7, <2>3
<1>10. DuePrefix < Len(list) => tm[list[DuePrefix + 1]].when > now
  BY <1>1, <1>3, <1>5, <1>6
<1> QED
  BY <1>8, <1>9, <1>10, Zenon

(* Timeout runs a timer of the list; without a limit, one that it has not run
   in this call. *)
LEMMA FireStep ==
  ASSUME TimerInv, Fire
  PROVE  TimerInv'
<1> DEFINE c == CHOOSE i \in Candidates : \A j \in Candidates : i <= j
<1>1. Candidates \subseteq 1 .. Len(list) /\ Candidates \subseteq Nat /\ Candidates # {}
  <2>1. TypeOK
    BY Zenon DEF TimerInv
  <2>2. list \in Seq(DOMAIN tm)
    BY <2>1, Zenon DEF TypeOK
  <2>3. DuePrefix \in 0 .. Len(list)
    BY <2>1, DuePrefixIs, Zenon
  <2>4. Candidates \subseteq 1 .. DuePrefix
    BY Zenon DEF Candidates
  <2>5. 1 .. DuePrefix \subseteq 1 .. Len(list) /\ 1 .. Len(list) \subseteq Nat
    BY <2>2, <2>3
  <2>6. Candidates # {}
    BY Zenon DEF Fire
  <2> QED
    BY <2>4, <2>5, <2>6, Zenon
<1>2. c \in Candidates
  BY <1>1, LeastExists, Zenon
<1>3. /\ pc = "loop" /\ pc' = "handler" /\ fires' = fires + 1
      /\ in_timeout' = list[c] /\ ready' = ready \ {list[c]} /\ fired' = Append(fired, list[c])
      /\ ~did_reset' /\ ~did_cancel'
      /\ did_reset' \in BOOLEAN /\ did_cancel' \in BOOLEAN
      /\ UNCHANGED <<list, tail, tm, timer_ids, limit, clock, now>>
  BY Zenon DEF Fire, timers
<1> HIDE DEF c
<1> DEFINE id == list[c]
<1>4. id \in DOMAIN tm /\ id \in Ids /\ (limit = Unlimited => id \in ready)
  <2>1. c \in 1 .. Len(list)
    BY <1>1, <1>2, Zenon
  <2>2. id \in DOMAIN tm
    BY <2>1 DEF TimerInv, TypeOK
  <2>3. DOMAIN tm \subseteq Ids
    BY TimerAssumption DEF TimerInv, TypeOK, Ids
  <2>4. limit = Unlimited => id \in ready
    BY <1>2, Zenon DEF Candidates
  <2> QED
    BY <2>2, <2>3, <2>4, Zenon
<1> HIDE DEF id
<1>5. Listed' = Listed
  <2>1. in_timeout = None /\ None \notin DOMAIN tm
    BY <1>3, TimerAssumption DEF TimerInv, TypeOK
  <2>2. Listed = DOMAIN tm
    BY <2>1, Zenon DEF Listed
  <2>3. Listed' = DOMAIN tm
    BY <1>3, Zenon DEF Listed
  <2> QED
    BY <2>2, <2>3, Zenon
<1>6. Linked(list', tail', Listed', tm')
  BY <1>3, <1>5, Zenon DEF TimerInv
<1>7. /\ in_timeout' = id /\ ready' = ready \ {id} /\ fired' = Append(fired, id)
  BY <1>3, Zenon DEF id
<1>8. TypeOK'
  BY <1>3, <1>4, <1>7 DEF TimerInv, TypeOK
<1>9. limit' = Unlimited => Distinct(fired') /\ \A k \in 1 .. Len(fired') : fired'[k] \notin ready'
  <2> SUFFICES ASSUME limit = Unlimited
               PROVE  Distinct(fired') /\ \A k \in 1 .. Len(fired') : fired'[k] \notin ready'
    BY <1>3, Zenon
  <2>1. /\ Len(fired') = Len(fired) + 1 /\ Len(fired) \in Nat /\ fired'[Len(fired) + 1] = id
        /\ \A k \in 1 .. Len(fired) : fired'[k] = fired[k]
    BY <1>4, <1>7 DEF TimerInv, TypeOK
  <2>2. \A k \in 1 .. Len(fired) : fired[k] \notin ready /\ fired[k] # id
    BY <1>4, Zenon DEF TimerInv
  <2>3. \A k \in 1 .. Len(fired') : k = Len(fired) + 1 \/ k \in 1 .. Len(fired)
    BY <2>1
  <2>4. \A k \in 1 .. Len(fired') : fired'[k] \notin ready'
    BY <1>7, <2>1, <2>2, <2>3, Zenon
  <2>5. Distinct(fired)
    BY Zenon DEF TimerInv
  <2> QED
    BY <2>1, <2>2, <2>3, <2>4, <2>5, Zenon DEF Distinct
<1>10. ready' # {} => limit' = Unlimited
  BY <1>3, <1>7, Zenon DEF TimerInv
<1> QED
  BY <1>3, <1>4, <1>6, <1>7, <1>8, <1>9, <1>10, Zenon DEF TimerInv

(* What Timeout does with the timer after its handler keeps the invariant:
   delete it, leave it where the handler put it, or renew it. *)
LEMMA HandlerReturnsStep ==
  ASSUME TimerInv, NEW delay \in Delays \ {TimerNever}, HandlerReturns(delay)
  PROVE  TimerInv'
<1> DEFINE id == in_timeout
           again == IF tm[id].slice THEN clock + delay ELSE DueIn(tm[id].period)
           t == [tm[id] EXCEPT !.started = clock, !.when = again]
<1>1. /\ pc = "handler" /\ pc' = "loop" /\ in_timeout' = None
      /\ UNCHANGED <<timer_ids, limit, clock, did_reset, did_cancel, cycle>>
  BY Zenon DEF HandlerReturns, flags
<1>2. /\ id \in DOMAIN tm /\ id \in Ids /\ None \notin DOMAIN tm /\ tm[id] \in Timers
      /\ DOMAIN tm \subseteq 0 .. timer_ids - 1
      /\ \A x \in DOMAIN tm : tm[x] \in Timers
      /\ did_reset \in BOOLEAN /\ did_cancel \in BOOLEAN /\ timer_ids \in 0 .. MaxTimers
  BY <1>1, TimerAssumption DEF TimerInv, TypeOK, Ids
<1>3. Linked(list, tail, Listed, tm)
  BY Zenon DEF TimerInv
<1>4. ASSUME Linked(list', tail', DOMAIN tm', tm'),
             DOMAIN tm' \subseteq DOMAIN tm,
             \A x \in DOMAIN tm' : tm'[x] \in Timers
      PROVE  TimerInv'
  <2>1. Listed' = DOMAIN tm'
    BY <1>1, <1>2, <1>4, Zenon DEF Listed
  <2>2. Linked(list', tail', Listed', tm')
    BY <1>4, <2>1, Zenon
  <2> QED
    BY <1>1, <1>2, <1>4, <2>2, ListStep, Zenon
<1>5. CASE did_cancel /\ tm' = Without(tm, id) /\ UNCHANGED <<list, tail>>
  <2>1. Listed = DOMAIN tm \ {id}
    BY <1>5, Zenon DEF Listed
  <2>2. DOMAIN tm' = DOMAIN tm \ {id} /\ \A x \in DOMAIN tm' : tm'[x] = tm[x]
    BY <1>5, WithoutIs, Zenon
  <2>3. Linked(list', tail', DOMAIN tm', tm')
    BY <1>3, <1>5, <2>1, <2>2, LinkedFrame, Zenon
  <2> QED
    BY <1>2, <1>4, <2>2, <2>3, Zenon
<1>6. CASE did_reset /\ ~did_cancel /\ UNCHANGED timers
  <2>1. Listed = DOMAIN tm /\ UNCHANGED <<list, tail, tm>>
    BY <1>6, Zenon DEF Listed, timers
  <2>2. Linked(list', tail', DOMAIN tm', tm')
    BY <1>3, <2>1, Zenon
  <2> QED
    BY <1>2, <1>4, <2>1, <2>2, Zenon
<1>7. CASE /\ ~did_reset /\ ~did_cancel /\ (tm[id].period # 0 \/ tm[id].slice)
           /\ tm' = [tm EXCEPT ![id] = t]
           /\ Requeue(id, tm')
  <2>1. Listed = DOMAIN tm
    BY <1>7, Zenon DEF Listed
  <2>2. clock \in Nat
    BY TimerAssumption DEF TimerInv, TypeOK
  <2>3. again \in Nat
    BY <1>2, <2>2, TimerAssumption DEF DueIn, Timers
  <2> HIDE DEF again
  <2>4. t \in Timers
    BY <1>2, <2>2, <2>3, TimerUpdates, Zenon
  <2> HIDE DEF t
  <2>5. DOMAIN tm' = DOMAIN tm /\ \A x \in DOMAIN tm : tm'[x] = IF x = id THEN t ELSE tm[x]
    BY <1>7, Zenon
  <2>6. \A x \in DOMAIN tm' : tm'[x] \in Timers
    BY <1>2, <2>4, <2>5
  <2>7. \A x \in Listed : tm'[x].when \in Nat
    BY <2>1, <2>5, <2>6, Zenon DEF Timers
  <2>8. \A x \in Listed \ {id} : tm'[x] = tm[x]
    BY <2>1, <2>5, Zenon
  <2>9. Linked(list', tail', Listed, tm')
    BY <1>2, <1>3, <1>7, <2>1, <2>7, <2>8, RequeueIsLinked, Zenon
  <2>10. Linked(list', tail', DOMAIN tm', tm')
    BY <2>1, <2>5, <2>9, Zenon
  <2> QED
    BY <1>4, <2>5, <2>6, <2>10, Zenon
<1>8. CASE /\ ~did_reset /\ ~did_cancel /\ tm[id].period = 0 /\ ~tm[id].slice
           /\ tm' = Without(tm, id)
           /\ SetList(Removed(This, id))
  <2>1. Listed = DOMAIN tm
    BY <1>8, Zenon DEF Listed
  <2>2. Linked(list', tail', DOMAIN tm \ {id}, tm)
    BY <1>2, <1>3, <1>8, <2>1, RemovedIsLinked, Zenon DEF SetList, This
  <2>3. DOMAIN tm' = DOMAIN tm \ {id} /\ \A x \in DOMAIN tm' : tm'[x] = tm[x]
    BY <1>8, WithoutIs, Zenon
  <2>4. Linked(list', tail', DOMAIN tm', tm')
    BY <2>2, <2>3, LinkedFrame, Zenon
  <2> QED
    BY <1>2, <1>4, <2>3, <2>4, Zenon
<1> QED
  BY <1>5, <1>6, <1>7, <1>8, Zenon DEF HandlerReturns

(* The list of timers is sorted, complete and well linked, and a call of Timeout
   without a limit never runs a timer again, whatever is created, reset, renewed
   or cancelled, from inside which handler, with the clock going either way. *)
THEOREM TimerInvariance == Spec => []TimerInv
<1>1. TimerInv /\ [Next]_vars => TimerInv'
  <2> SUFFICES ASSUME TimerInv, [Next]_vars PROVE TimerInv'
    BY Zenon
  <2>1. CASE Client
    <3>1. ASSUME NEW d \in Delays, NEW p \in Delays, NEW s \in BOOLEAN, NewTimer(d, p, s)
          PROVE  TimerInv'
      BY <3>1, NewTimerStep, Zenon
    <3>2. ASSUME NEW id \in Ids,
                 \/ \E d, p \in Delays : ResetTimer(id, d, p)
                 \/ \E p \in Delays : ResetTimerPeriod(id, p)
                 \/ \E w \in 0 .. MaxClock : ResetTimerTimeslice(id, w)
          PROVE  TimerInv'
      BY <3>2, ResetSteps, Zenon
    <3>3. ASSUME NEW id \in Ids, CancelTimer(id)
          PROVE  TimerInv'
      BY <3>3, CancelTimerStep, Zenon
    <3>4. ASSUME NEW n \in Limits, Reconfig(n)
          PROVE  TimerInv'
      BY <3>4, ReconfigStep, Zenon
    <3> QED
      BY <2>1, <3>1, <3>2, <3>3, <3>4, CancelAllStep, Zenon DEF Client
  <2>2. CASE Timeout
    <3>1. ASSUME NEW d \in Delays \ {TimerNever}, HandlerReturns(d)
          PROVE  TimerInv'
      BY <3>1, HandlerReturnsStep, Zenon
    <3> QED
      BY <2>2, <3>1, TimeoutStartStep, FireStep, TimeoutReturnsStep, Zenon DEF Timeout
  <2>3. CASE Tick \/ SetClockBack \/ Exited \/ UNCHANGED vars
    BY <2>3, ClockStep, Zenon
  <2> QED
    BY <2>1, <2>2, <2>3, Zenon DEF Next
<1> QED
  BY <1>1, InitTimer, PTL DEF Spec

(* The list of TimerManager stays sorted by due time, for any number of timers
   and any delays and periods. *)
THEOREM TimersStaySorted == Spec => []ListIsSorted
<1>1. TimerInv => ListIsSorted
  BY Zenon DEF TimerInv, Linked, Sorted, ListIsSorted
<1> QED
  BY <1>1, TimerInvariance, PTL

(* InsertTimer, RemoveTimer, CancelTimer and DeleteTimer lose, duplicate or leak
   no timer, list_tail is the last one, and the timer whose handler runs exists
   and is in the list unless it was cancelled. *)
THEOREM TimersAreKept == Spec => []NoTimerIsLost
<1>1. TimerInv => NoTimerIsLost
  <2> SUFFICES ASSUME TimerInv PROVE NoTimerIsLost
    BY Zenon
  <2>1. Linked(list, tail, Listed, tm)
    BY Zenon DEF TimerInv
  <2>2. Range(list) = Listed
    BY <2>1 DEF Linked, Range
  <2>3. pc = "handler" => in_timeout \in DOMAIN tm /\ (did_cancel \/ InList(in_timeout))
    BY InListIs, Zenon DEF TimerInv, Listed
  <2> QED
    BY <2>1, <2>2, <2>3, Zenon DEF NoTimerIsLost, TimerInv, Linked, Distinct, EndOf, Listed
<1> QED
  BY <1>1, TimerInvariance, PTL

(* Without a limit, no call of Timeout runs a timer twice. *)
THEOREM NoTimerRunsTwice == Spec => []OncePerTimeout
<1>1. TimerInv => OncePerTimeout
  BY Zenon DEF TimerInv, Distinct, OncePerTimeout
<1> QED
  BY <1>1, TimerInvariance, PTL

(* Without a limit, Timeout returns only when every timer that was due when it
   was called has been run, put off or cancelled.  It stops at the first timer
   that is not due, so this rests on the list being sorted, and on the clock
   being below TIME_T_NEVER, past which the list is not. *)
THEOREM NoDueTimerIsSkipped == Spec => DueTimersWereRun
<1>1. ASSUME TimerInv, TimeoutReturns, NEW id \in ready, InList(id)
      PROVE  tm[id].when > now
  <2>1. Candidates = {} /\ limit = Unlimited
    BY <1>1, Zenon DEF TimeoutReturns, TimerInv
  <2>2. /\ DuePrefix \in 0 .. Len(list)
        /\ DuePrefix < Len(list) => tm[list[DuePrefix + 1]].when > now
    BY <1>1, DuePrefixIs, Zenon DEF TimerInv
  <2>3. PICK j \in 1 .. Len(list) : list[j] = id
    BY <1>1, InListIs, Zenon DEF TimerInv, Linked
  <2>4. \A i \in 1 .. DuePrefix : list[i] \notin ready
    BY <2>1, Zenon DEF Candidates
  <2>5. Len(list) \in Nat /\ ~(j \in 1 .. DuePrefix)
    BY <1>1, <2>3, <2>4 DEF TimerInv, TypeOK
  <2>6. DuePrefix < Len(list) /\ DuePrefix + 1 \in 1 .. Len(list) /\ DuePrefix + 1 <= j
    BY <2>2, <2>3, <2>5
  <2> DEFINE d == list[DuePrefix + 1]
  <2>7. d = id \/ Upto(tm[d].when) <= Upto(tm[id].when)
    <3>1. Sorted(list, tm)
      BY <1>1, Zenon DEF TimerInv, Linked
    <3>2. DuePrefix + 1 = j \/ DuePrefix + 1 < j
      BY <2>2, <2>3, <2>6
    <3>3. CASE DuePrefix + 1 < j
      BY <2>3, <2>6, <3>1, <3>3, Zenon DEF Sorted
    <3> QED
      BY <2>3, <3>2, <3>3, Zenon
  <2>8. d \in DOMAIN tm /\ id \in DOMAIN tm
    BY <1>1, <2>3, <2>6 DEF TimerInv, TypeOK
  <2>9. tm[d].when \in Nat /\ tm[id].when \in Nat
    BY <1>1, <2>8, Zenon DEF TimerInv, TypeOK, Timers
  <2>10. now \in Nat /\ now < Never /\ Never \in Nat
    BY <1>1, TimerAssumption, ClockAssumption DEF TimerInv, TypeOK
  <2>11. tm[d].when > now
    BY <2>2, <2>6, Zenon
  <2> HIDE DEF d
  <2> QED
    BY <2>7, <2>9, <2>10, <2>11 DEF Upto
<1>2. TimerInv /\ [Next]_vars
        => [TimeoutReturns => \A id \in ready : InList(id) => tm[id].when > now]_vars
  BY <1>1, Zenon
<1> QED
  BY <1>2, TimerInvariance, PTL DEF Spec, DueTimersWereRun
===============================================================================
