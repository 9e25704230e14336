--------------------------- MODULE ReportsProofs ---------------------------
(***************************************************************************)
(* What reaches the server of what a process records, proved for any       *)
(* number of items and any bounds: the outbox keeps order and count.  And  *)
(* what becomes of its commands, for any stops and quarantines: each hook  *)
(* is started once, and acknowledged before the process exits.             *)
(***************************************************************************)
EXTENDS Outbox, FiniteSets, FiniteSetTheorems, SequenceTheorems, TLAPS

Items == Seq(Item)
Increasing(s) == \A i, j \in 1 .. Len(s) : i < j => s[i] < s[j]

Inv == TypeOK /\ InOrder /\ Accounted

-----------------------------------------------------------------------------
(* Sequences and their ids.                                                *)

LEMMA IdsType ==
  ASSUME NEW s \in Items
  PROVE  /\ Ids(s) \in Seq(1 .. MaxItems) /\ Len(Ids(s)) = Len(s)
         /\ \A i \in 1 .. Len(s) : Ids(s)[i] = s[i].id /\ s[i].id \in 1 .. MaxItems
         /\ IdSet(s) = Range(Ids(s))
<1>1. /\ Len(s) \in Nat /\ DOMAIN s = 1 .. Len(s)
      /\ \A i \in 1 .. Len(s) : s[i] \in Item
  BY LenProperties DEF Items
<1>2. \A i \in 1 .. Len(s) : s[i].id \in 1 .. MaxItems
  BY <1>1 DEF Item
<1>3. Ids(s) \in [1 .. Len(s) -> 1 .. MaxItems]
  BY <1>1, <1>2 DEF Ids
<1>4. Ids(s) \in Seq(1 .. MaxItems)
  BY <1>1, <1>3, SeqDef
<1>5. DOMAIN Ids(s) = 1 .. Len(Ids(s)) /\ Len(Ids(s)) \in Nat
  BY <1>4, LenProperties
<1>6. Len(Ids(s)) = Len(s)
  BY <1>1, <1>3, <1>5
<1> QED BY <1>1, <1>2, <1>4, <1>6 DEF Ids, IdSet, Range

LEMMA IdsConcat ==
  ASSUME NEW s \in Items, NEW t \in Items
  PROVE  s \o t \in Items /\ Ids(s \o t) = Ids(s) \o Ids(t)
<1>1. /\ s \o t \in Items /\ Len(s \o t) = Len(s) + Len(t)
      /\ \A i \in 1 .. Len(s) + Len(t) : (s \o t)[i] = IF i <= Len(s) THEN s[i] ELSE t[i - Len(s)]
      /\ Len(s) \in Nat /\ Len(t) \in Nat
  BY ConcatProperties, LenProperties DEF Items
<1>2. /\ Ids(s) \in Seq(1 .. MaxItems) /\ Len(Ids(s)) = Len(s)
      /\ \A i \in 1 .. Len(s) : Ids(s)[i] = s[i].id
      /\ Ids(t) \in Seq(1 .. MaxItems) /\ Len(Ids(t)) = Len(t)
      /\ \A i \in 1 .. Len(t) : Ids(t)[i] = t[i].id
      /\ Ids(s \o t) \in Seq(1 .. MaxItems) /\ Len(Ids(s \o t)) = Len(s \o t)
      /\ \A i \in 1 .. Len(s \o t) : Ids(s \o t)[i] = (s \o t)[i].id
  BY <1>1, IdsType
<1>3. /\ Ids(s) \o Ids(t) \in Seq(1 .. MaxItems) /\ Len(Ids(s) \o Ids(t)) = Len(s) + Len(t)
      /\ \A i \in 1 .. Len(s) + Len(t) :
            (Ids(s) \o Ids(t))[i] = IF i <= Len(s) THEN Ids(s)[i] ELSE Ids(t)[i - Len(s)]
  <2> DEFINE a == Ids(s)
             b == Ids(t)
  <2>1. a \in Seq(1 .. MaxItems) /\ b \in Seq(1 .. MaxItems) /\ Len(a) = Len(s) /\ Len(b) = Len(t)
    BY <1>2
  <2> HIDE DEF a, b
  <2>2. /\ a \o b \in Seq(1 .. MaxItems) /\ Len(a \o b) = Len(a) + Len(b)
        /\ \A i \in 1 .. Len(a) + Len(b) : (a \o b)[i] = IF i <= Len(a) THEN a[i] ELSE b[i - Len(a)]
    BY <2>1, ConcatProperties
  <2> QED BY <2>1, <2>2 DEF a, b
<1>4. ASSUME NEW i \in 1 .. Len(s) + Len(t)
      PROVE  Ids(s \o t)[i] = (Ids(s) \o Ids(t))[i]
  <2>1. CASE i <= Len(s)
    BY <1>1, <1>2, <1>3, <2>1
  <2>2. CASE ~(i <= Len(s))
    <3>1. i - Len(s) \in 1 .. Len(t)
      BY <1>1, <2>2
    <3> QED BY <1>1, <1>2, <1>3, <2>2, <3>1
  <2> QED BY <2>1, <2>2
<1> QED BY <1>1, <1>2, <1>3, <1>4, SeqEqual

(* A sequence grows in order when its new end exceeds all that it has.     *)
LEMMA IncreasingAppend ==
  ASSUME NEW s \in Seq(Nat), Increasing(s), NEW n \in Nat, \A x \in Range(s) : x < n
  PROVE  Increasing(Append(s, n))
<1>1. /\ Len(Append(s, n)) = Len(s) + 1 /\ Len(s) \in Nat
      /\ \A i \in 1 .. Len(s) : Append(s, n)[i] = s[i] /\ s[i] \in Nat /\ s[i] < n
      /\ Append(s, n)[Len(s) + 1] = n
  BY AppendProperties, LenProperties, RangeEquality
<1>2. ASSUME NEW i \in 1 .. Len(s) + 1, NEW j \in 1 .. Len(s) + 1, i < j
      PROVE  Append(s, n)[i] < Append(s, n)[j]
  <2>1. i \in 1 .. Len(s)
    BY <1>1, <1>2
  <2>2. CASE j \in 1 .. Len(s)
    BY <1>1, <1>2, <2>1, <2>2 DEF Increasing
  <2>3. CASE j = Len(s) + 1
    BY <1>1, <2>1, <2>3
  <2> QED BY <1>1, <2>2, <2>3
<1> QED BY <1>1, <1>2 DEF Increasing

(* It stays in order when a part is cut out.                               *)
LEMMA IncreasingCut ==
  ASSUME NEW s \in Seq(Nat), NEW t \in Seq(Nat), NEW u \in Seq(Nat), Increasing(s \o (t \o u))
  PROVE  Increasing(s \o u)
<1> DEFINE w == s \o (t \o u)
           v == s \o u
<1>1. /\ Len(s) \in Nat /\ Len(t) \in Nat /\ Len(u) \in Nat
      /\ t \o u \in Seq(Nat) /\ Len(t \o u) = Len(t) + Len(u)
      /\ \A i \in 1 .. Len(t) + Len(u) : (t \o u)[i] = IF i <= Len(t) THEN t[i] ELSE u[i - Len(t)]
  BY ConcatProperties, LenProperties
<1>2. /\ Len(w) = Len(s) + (Len(t) + Len(u))
      /\ \A i \in 1 .. Len(s) + (Len(t) + Len(u)) :
            w[i] = IF i <= Len(s) THEN s[i] ELSE (t \o u)[i - Len(s)]
  BY <1>1, ConcatProperties
<1>3. /\ Len(v) = Len(s) + Len(u)
      /\ \A i \in 1 .. Len(s) + Len(u) : v[i] = IF i <= Len(s) THEN s[i] ELSE u[i - Len(s)]
  BY ConcatProperties
<1> DEFINE at(i) == IF i <= Len(s) THEN i ELSE i + Len(t)
<1> HIDE DEF v, w
<1>4. ASSUME NEW i \in 1 .. Len(v) PROVE at(i) \in 1 .. Len(w) /\ w[at(i)] = v[i]
  <2>1. CASE i <= Len(s)
    <3>1. i \in 1 .. Len(s) + (Len(t) + Len(u)) /\ i \in 1 .. Len(s) + Len(u) /\ i \in 1 .. Len(w)
      BY <1>1, <1>2, <1>3, <2>1
    <3>2. w[i] = s[i] /\ v[i] = s[i]
      BY <1>2, <1>3, <2>1, <3>1
    <3> QED BY <2>1, <3>1, <3>2
  <2>2. CASE ~(i <= Len(s))
    <3>1. /\ i + Len(t) \in 1 .. Len(w) /\ ~(i + Len(t) <= Len(s))
          /\ i + Len(t) - Len(s) \in 1 .. Len(t) + Len(u) /\ ~(i + Len(t) - Len(s) <= Len(t))
          /\ i + Len(t) - Len(s) - Len(t) = i - Len(s) /\ i \in 1 .. Len(s) + Len(u)
      BY <1>1, <1>2, <1>3, <2>2
    <3>2. w[i + Len(t)] = (t \o u)[i + Len(t) - Len(s)]
      BY <1>2, <3>1
    <3>3. (t \o u)[i + Len(t) - Len(s)] = u[i - Len(s)]
      BY <1>1, <3>1
    <3> QED BY <1>3, <2>2, <3>1, <3>2, <3>3
  <2> QED BY <2>1, <2>2
<1>5. ASSUME NEW i \in 1 .. Len(v), NEW j \in 1 .. Len(v), i < j PROVE at(i) < at(j)
  BY <1>1, <1>3, <1>5
<1>6. Increasing(w)
  BY DEF w
<1> QED BY <1>4, <1>5, <1>6 DEF Increasing, v

(* A queue is its head and then its tail; a list may be parted anywhere.   *)
LEMMA HeadFirst ==
  ASSUME NEW s \in Items, s # <<>>
  PROVE  /\ Head(s) \in Item /\ Tail(s) \in Items /\ <<Head(s)>> \in Items
         /\ s = <<Head(s)>> \o Tail(s)
<1>1. Len(s) \in Nat /\ Len(s) # 0 /\ Head(s) = s[1]
  BY LenProperties, EmptySeq DEF Items
<1>2. 1 \in 1 .. Len(s) /\ Len(s) \in 1 .. Len(s)
  BY <1>1
<1>3. SubSeq(s, 1, Len(s)) = <<s[1]>> \o SubSeq(s, 1 + 1, Len(s))
  BY <1>1, <1>2, SubSeqRecursiveFirst DEF Items
<1>4. SubSeq(s, 1, Len(s)) = s /\ Tail(s) = SubSeq(s, 2, Len(s)) /\ Tail(s) \in Items
  BY SubSeqFull, TailIsSubSeq, HeadTailProperties DEF Items
<1>5. s[1] \in Item
  BY <1>2, ElementOfSeq DEF Items
<1> QED BY <1>1, <1>3, <1>4, <1>5 DEF Items

LEMMA Parted ==
  ASSUME NEW s \in Items, NEW n \in 1 .. Len(s)
  PROVE  /\ SubSeq(s, 1, n) \in Items /\ SubSeq(s, n + 1, Len(s)) \in Items
         /\ SubSeq(s, 1, n) \o SubSeq(s, n + 1, Len(s)) = s
<1>1. Len(s) \in Nat /\ \A i \in 1 .. Len(s) : s[i] \in Item
  BY LenProperties, ElementOfSeq DEF Items
<1>2. SubSeq(s, 1, n) \in Items
  <2>1. 1 \in Int /\ n \in Int /\ \A i \in 1 .. n : s[i] \in Item
    BY <1>1
  <2> QED BY <2>1, SubSeqProperties DEF Items
<1>3. SubSeq(s, n + 1, Len(s)) \in Items
  <2>1. n + 1 \in Int /\ Len(s) \in Int /\ \A i \in n + 1 .. Len(s) : s[i] \in Item
    BY <1>1
  <2> QED BY <2>1, SubSeqProperties DEF Items
<1>4. SubSeq(s, 1, n) \o SubSeq(s, n + 1, Len(s)) = SubSeq(s, 1, Len(s))
  <2>1. 1 \in 1 .. Len(s) + 1 /\ n \in 1 - 1 .. Len(s) /\ Len(s) \in n .. Len(s)
    BY <1>1
  <2> QED BY <2>1, ConcatAdjacentSubSeq DEF Items
<1> QED BY <1>2, <1>3, <1>4, SubSeqFull DEF Items

-----------------------------------------------------------------------------
(* The outbox.                                                             *)

(* What the invariant says of what was sent and what waits.                *)
LEMMA OutboxFacts ==
  Inv <=> /\ TypeOK /\ Increasing(sent \o Ids(Backlog))
          /\ unfinished = Len(Backlog)
          /\ 1 .. puts = missed \cup Range(Ids(Backlog)) \cup Range(sent)
<1> SUFFICES ASSUME TypeOK
             PROVE  (InOrder /\ Accounted) <=>
                      /\ Increasing(sent \o Ids(Backlog))
                      /\ unfinished = Len(Backlog)
                      /\ 1 .. puts = missed \cup Range(Ids(Backlog)) \cup Range(sent)
  BY DEF Inv
<1>1. Backlog \in Items /\ sent \in Seq(1 .. MaxItems)
  BY ConcatProperties DEF TypeOK, Backlog, Items
<1>2. /\ Ids(Backlog) \in Seq(1 .. MaxItems) /\ IdSet(Backlog) = Range(Ids(Backlog))
  BY <1>1, IdsType
<1>3. {sent[i] : i \in DOMAIN sent} = Range(sent)
  BY DEF Range
<1>4. DOMAIN (sent \o Ids(Backlog)) = 1 .. Len(sent \o Ids(Backlog))
  BY <1>1, <1>2, ConcatProperties, LenProperties
<1>5. InOrder <=> Increasing(sent \o Ids(Backlog))
  BY <1>4 DEF InOrder, Increasing
<1> QED BY <1>2, <1>3, <1>5 DEF Accounted

LEMMA OutboxFactsNext ==
  (Inv <=> /\ TypeOK /\ Increasing(sent \o Ids(Backlog))
           /\ unfinished = Len(Backlog)
           /\ 1 .. puts = missed \cup Range(Ids(Backlog)) \cup Range(sent))'
BY OutboxFacts, PTL

LEMMA OutboxTypes ==
  ASSUME Inv
  PROVE  /\ queue \in Items /\ pending \in Items /\ batch \in Items /\ Backlog \in Items
         /\ Backlog = batch \o (pending \o queue) /\ pending \o queue \in Items
         /\ sent \in Seq(1 .. MaxItems) /\ Ids(Backlog) \in Seq(1 .. MaxItems)
         /\ Len(Backlog) \in Nat
<1>1. /\ queue \in Items /\ pending \in Items /\ batch \in Items /\ sent \in Seq(1 .. MaxItems)
  BY DEF Inv, TypeOK, Items
<1>2. Backlog \in Items /\ pending \o queue \in Items
  BY <1>1, ConcatProperties DEF Backlog, Items
<1>3. Backlog = batch \o (pending \o queue)
  BY <1>1, ConcatAssociative DEF Backlog, Items
<1> QED BY <1>1, <1>2, <1>3, IdsType, LenProperties DEF Items

LEMMA InitInv == Init => Inv
<1> SUFFICES ASSUME Init PROVE Inv
  OBVIOUS
<1>1. TypeOK
  <2>1. <<>> \in Seq(Item) /\ <<>> \in Seq(1 .. MaxItems) /\ Len(<<>>) = 0
    BY EmptySeq
  <2>2. 0 <= MaxQueued /\ 0 \in 0 .. MaxItems
    BY OutboxAssumption
  <2> QED BY <2>1, <2>2 DEF Init, TypeOK
<1>2. Backlog = <<>> /\ sent = <<>> /\ Len(<<>>) = 0
  <2>1. <<>> \in Seq(Item) /\ <<>> \o <<>> = <<>>
    BY EmptySeq, ConcatEmptySeq
  <2> QED BY <2>1, EmptySeq DEF Init, Backlog
<1>3. Ids(Backlog) = <<>> /\ Range(Ids(Backlog)) = {} /\ Range(sent) = {}
  BY <1>2 DEF Ids, Range
<1>4. sent \o Ids(Backlog) = <<>>
  <2>1. <<>> \in Seq(Nat)
    BY EmptySeq
  <2> QED BY <1>2, <1>3, <2>1, ConcatEmptySeq
<1>5. Increasing(sent \o Ids(Backlog))
  BY <1>2, <1>4 DEF Increasing
<1>6. unfinished = 0 /\ puts = 0 /\ missed = {}
  BY DEF Init
<1>7. 1 .. 0 = {}
  OBVIOUS
<1> QED BY <1>1, <1>2, <1>3, <1>5, <1>6, <1>7, OutboxFacts

(* The order of concatenations, and one more at the end.                   *)
LEMMA Associative ==
  ASSUME NEW S, NEW a \in Seq(S), NEW b \in Seq(S), NEW c \in Seq(S)
  PROVE  a \o (b \o c) = (a \o b) \o c
BY ConcatAssociative, SMTT(30)

LEMMA OneMore ==
  ASSUME NEW S, NEW s \in Seq(S), NEW t \in Seq(S), NEW x \in S
  PROVE  /\ s \o (t \o <<x>>) = (s \o t) \o <<x>>
         /\ Range(t \o <<x>>) = Range(t) \cup {x}
<1> DEFINE u == <<x>>
<1>1. u \in Seq(S) /\ Range(u) = {x}
  BY DEF Range
<1> HIDE DEF u
<1>2. Range(t \o u) = Range(t) \cup Range(u)
  BY <1>1, RangeConcatenation
<1>3. s \o (t \o u) = (s \o t) \o u
  BY <1>1, Associative
<1>4. Range(t \o u) = Range(t) \cup {x}
  BY <1>1, <1>2
<1> QED BY <1>3, <1>4 DEF u

(* The same of numbers.                                                    *)
LEMMA OneMoreNumber ==
  ASSUME NEW s, NEW t, NEW x, s \in Seq(Nat), t \in Seq(Nat), x \in Nat
  PROVE  /\ s \o (t \o <<x>>) = (s \o t) \o <<x>>
         /\ Range(t \o <<x>>) = Range(t) \cup {x}
<1> DEFINE N == Nat
<1>1. s \in Seq(N) /\ t \in Seq(N) /\ x \in N
  OBVIOUS
<1> HIDE DEF N
<1> QED BY ONLY <1>1, OneMore

(* An item that finds room is the last of all.                             *)
LEMMA PutBacklog ==
  ASSUME Inv, NEW item \in Item, queue' = Append(queue, item), UNCHANGED <<batch, pending>>
  PROVE  /\ queue \in Items /\ Backlog \in Items
         /\ Backlog' = Backlog \o <<item>>
         /\ Ids(Backlog') = Ids(Backlog) \o <<item.id>>
<1> DEFINE front == batch \o pending
<1>1. /\ queue \in Items /\ front \in Items /\ <<item>> \in Items
      /\ Backlog = front \o queue /\ Backlog \in Items
  BY OutboxTypes, ConcatProperties DEF Items, Backlog
<1>2. queue' = queue \o <<item>>
  BY <1>1, AppendIsConcat DEF Items
<1>3. Backlog' = Backlog \o <<item>>
  <2>1. Backlog' = front \o (queue \o <<item>>)
    BY <1>2 DEF Backlog
  <2> HIDE DEF front
  <2>2. front \o (queue \o <<item>>) = (front \o queue) \o <<item>>
    BY <1>1, Associative DEF Items
  <2> QED BY <1>1, <2>1, <2>2
<1> HIDE DEF front
<1>4. Ids(<<item>>) = <<item.id>>
  BY DEF Ids
<1> QED BY <1>1, <1>3, <1>4, IdsConcat

(* A new item is the last of all, or is dropped.                           *)
LEMMA PutInv ==
  ASSUME Inv, NEW kind \in {"decision", "span"}, NEW run \in Runs, Put(kind, run)
  PROVE  Inv'
<1> DEFINE item == [kind |-> kind, run |-> run, id |-> puts + 1]
<1>1. /\ puts < MaxItems /\ puts' = puts + 1 /\ puts \in Nat /\ MaxItems \in Nat
      /\ UNCHANGED <<pending, batch, supported, sent>>
  BY OutboxAssumption DEF Put, Inv, TypeOK
<1>2. item \in Item /\ item.id = puts + 1 /\ puts + 1 \in 1 .. MaxItems
  BY <1>1 DEF Item
<1>3. 1 .. puts + 1 = (1 .. puts) \cup {puts + 1}
  BY <1>1
<1>4. CASE Len(queue) < MaxQueued /\ queue' = Append(queue, item) /\ unfinished' = unfinished + 1
           /\ missed' = missed
  <2> HIDE DEF item
  <2>1. /\ queue \in Items /\ Backlog \in Items /\ <<item>> \in Items
        /\ Backlog' = Backlog \o <<item>>
        /\ Ids(Backlog') = Ids(Backlog) \o <<puts + 1>>
    BY <1>1, <1>2, <1>4, PutBacklog DEF Items
  <2>6. /\ sent \in Seq(Nat) /\ Ids(Backlog) \in Seq(Nat) /\ <<puts + 1>> \in Seq(Nat)
        /\ sent \o Ids(Backlog) \in Seq(Nat) /\ puts + 1 \in Nat
    <3>1. sent \in Seq(Nat) /\ Ids(Backlog) \in Seq(Nat)
      <4>1. 1 .. MaxItems \subseteq Nat
        BY <1>1
      <4> QED BY <4>1, OutboxTypes, SeqMonotonic
    <3> QED BY <1>1, <3>1, ConcatProperties
  <2>7. sent' \o Ids(Backlog') = Append(sent \o Ids(Backlog), puts + 1)
    <3>1. sent' \o Ids(Backlog') = (sent \o Ids(Backlog)) \o <<puts + 1>>
      <4>1. sent' \o Ids(Backlog') = sent \o (Ids(Backlog) \o <<puts + 1>>)
        BY <1>1, <2>1
      <4> QED BY <2>6, <4>1, OneMoreNumber
    <3> QED BY <2>6, <3>1, AppendIsConcat
  <2>8. Increasing(sent' \o Ids(Backlog'))
    <3>1. Range(sent \o Ids(Backlog)) = Range(sent) \cup Range(Ids(Backlog))
      BY <2>6, RangeConcatenation
    <3>2. \A x \in Range(sent \o Ids(Backlog)) : x < puts + 1
      BY <1>1, <3>1, OutboxFacts
    <3> QED BY <2>6, <2>7, <3>2, OutboxFacts, IncreasingAppend
  <2>9. Range(Ids(Backlog')) = Range(Ids(Backlog)) \cup {puts + 1}
    <3>1. Ids(Backlog') = Ids(Backlog) \o <<puts + 1>>
      BY <2>1
    <3> QED BY <2>6, <3>1, OneMoreNumber
  <2>10. unfinished' = Len(Backlog')
    <3>1. Len(Backlog') = Len(Backlog) + 1
      BY <2>1, ConcatProperties DEF Items
    <3> QED BY <1>4, <3>1, OutboxFacts
  <2>11. TypeOK'
    <3>1. queue' \in Seq(Item) /\ Len(queue') = Len(queue) + 1 /\ Len(queue) \in Nat
      BY <1>2, <1>4, <2>1, AppendProperties, LenProperties DEF Items
    <3>2. Len(queue') <= MaxQueued
      BY <1>4, <3>1, OutboxAssumption
    <3> QED BY <1>1, <1>4, <3>1, <3>2 DEF Inv, TypeOK
  <2>12. 1 .. puts' = missed' \cup Range(Ids(Backlog')) \cup Range(sent')
    BY <1>1, <1>3, <1>4, <2>9, OutboxFacts
  <2> QED BY <2>8, <2>10, <2>11, <2>12, OutboxFactsNext
<1>5. CASE missed' = missed \cup {item.id} /\ UNCHANGED <<queue, unfinished>>
  <2>1. Backlog' = Backlog
    BY <1>1, <1>5 DEF Backlog
  <2>2. TypeOK'
    BY <1>1, <1>2, <1>5 DEF Inv, TypeOK
  <2>3. 1 .. puts' = missed' \cup Range(Ids(Backlog)) \cup Range(sent)
    BY <1>1, <1>2, <1>3, <1>5, OutboxFacts
  <2> QED BY <1>1, <1>5, <2>1, <2>2, <2>3, OutboxFacts, OutboxFactsNext
<1> QED BY <1>4, <1>5 DEF Put, Room

(* Where all that waits stays in its order, so does the rest.              *)
LEMMA Kept ==
  ASSUME Inv, TypeOK', Backlog' = Backlog, UNCHANGED <<unfinished, puts, sent, missed>>
  PROVE  Inv'
BY OutboxFacts, OutboxFactsNext

(* The worker takes an item off the queue.                                 *)
LEMMA GetKeeps ==
  ASSUME Inv, Get
  PROVE  /\ TypeOK' /\ Backlog' = Backlog
         /\ UNCHANGED <<unfinished, puts, sent, missed>>
<1> DEFINE h == Head(queue)
           t == Tail(queue)
<1>1. /\ batch = <<>> /\ queue # <<>> /\ pending' = Append(pending, h) /\ queue' = t
      /\ UNCHANGED <<unfinished, batch, supported, puts, sent, missed>>
      /\ queue \in Items /\ pending \in Items
  BY OutboxTypes DEF Get, LastOfAll
<1>2. h \in Item /\ t \in Items /\ <<h>> \in Items /\ queue = <<h>> \o t
  BY <1>1, HeadFirst
<1>3. Len(queue') = Len(queue) - 1 /\ Len(queue) \in Nat
  BY <1>1, HeadTailProperties, LenProperties DEF Items
<1> HIDE DEF h, t
<1>4. pending' \in Items /\ pending' = pending \o <<h>>
  BY <1>1, <1>2, AppendProperties, AppendIsConcat DEF Items
<1>5. Backlog' = Backlog
  <2>1. /\ <<>> \o pending' = pending' /\ <<>> \o pending = pending
    BY <1>1, <1>4, ConcatEmptySeq DEF Items
  <2>2. Backlog' = (pending \o <<h>>) \o t /\ Backlog = pending \o (<<h>> \o t)
    BY <1>1, <1>2, <1>4, <2>1 DEF Backlog
  <2> QED BY <1>1, <1>2, <2>2, ConcatAssociative DEF Items
<1>6. TypeOK'
  <2>1. Len(queue') <= MaxQueued
    BY <1>3, OutboxAssumption DEF Inv, TypeOK
  <2> QED BY <1>1, <1>2, <1>4, <2>1 DEF Inv, TypeOK, Items
<1> QED BY <1>1, <1>5, <1>6

(* A request leaves with the first of those that wait.                     *)
LEMMA SendKeeps ==
  ASSUME Inv, Send
  PROVE  /\ TypeOK' /\ Backlog' = Backlog
         /\ UNCHANGED <<unfinished, puts, sent, missed>>
<1>1. PICK n \in 1 .. Len(pending) : /\ batch' = SubSeq(pending, 1, n)
                                     /\ pending' = SubSeq(pending, n + 1, Len(pending))
  BY DEF Send
<1>2. /\ batch = <<>> /\ queue = <<>> /\ pending \in Items
      /\ UNCHANGED <<queue, unfinished, supported, puts, sent, missed>>
  BY OutboxTypes DEF Send
<1>3. batch' \in Items /\ pending' \in Items /\ batch' \o pending' = pending
  BY <1>1, <1>2, Parted
<1>4. Backlog' = Backlog
  <2>1. <<>> \o pending = pending
    BY <1>2, ConcatEmptySeq DEF Items
  <2> QED BY <1>2, <1>3, <2>1 DEF Backlog
<1>5. TypeOK'
  BY <1>2, <1>3 DEF Inv, TypeOK, Items
<1> QED BY <1>2, <1>4, <1>5

(* The request is over: what it carried, the first of all that waited, was *)
(* sent or is missed.                                                      *)
LEMMA RequestOver ==
  ASSUME Inv, Fail \/ Taken \/ Unsupported
  PROVE  /\ batch # <<>> /\ batch' = <<>> /\ unfinished' = unfinished - Len(batch)
         /\ UNCHANGED <<queue, pending, puts>> /\ supported' \in BOOLEAN
         /\ \/ missed' = missed \cup IdSet(batch) /\ sent' = sent
            \/ missed' = missed /\ sent' = sent \o Ids(batch)
         /\ batch \in Items /\ Backlog' \in Items /\ Backlog = batch \o Backlog'
         /\ Ids(batch) \in Seq(1 .. MaxItems) /\ Ids(Backlog') \in Seq(1 .. MaxItems)
         /\ Ids(Backlog) = Ids(batch) \o Ids(Backlog') /\ IdSet(batch) = Range(Ids(batch))
<1> DEFINE rest == pending \o queue
<1>1. /\ batch # <<>> /\ batch' = <<>> /\ unfinished' = unfinished - Len(batch)
      /\ UNCHANGED <<queue, pending, puts>> /\ supported' \in BOOLEAN
      /\ \/ missed' = missed \cup IdSet(batch) /\ sent' = sent
         \/ missed' = missed /\ sent' = sent \o Ids(batch)
  BY DEF Fail, Taken, Unsupported, TaskDone, Inv, TypeOK
<1>2. batch \in Items /\ rest \in Items /\ Backlog = batch \o rest
  BY OutboxTypes
<1>3. Backlog' = rest
  <2>1. <<>> \o pending = pending
    BY OutboxTypes, ConcatEmptySeq DEF Items
  <2> QED BY <1>1, <2>1 DEF Backlog
<1> HIDE DEF rest
<1>4. /\ Ids(batch) \in Seq(1 .. MaxItems) /\ Ids(rest) \in Seq(1 .. MaxItems)
      /\ Ids(Backlog) = Ids(batch) \o Ids(rest) /\ IdSet(batch) = Range(Ids(batch))
  BY <1>2, IdsType, IdsConcat
<1> QED BY <1>1, <1>2, <1>3, <1>4

LEMMA RequestOverInv ==
  ASSUME Inv, Fail \/ Taken \/ Unsupported
  PROVE  Inv'
<1> DEFINE rest == Backlog'
<1>1. /\ unfinished' = unfinished - Len(batch) /\ batch' = <<>>
      /\ UNCHANGED <<queue, pending, puts>> /\ supported' \in BOOLEAN
      /\ \/ missed' = missed \cup IdSet(batch) /\ sent' = sent
         \/ missed' = missed /\ sent' = sent \o Ids(batch)
  BY RequestOver
<1>2. /\ batch \in Items /\ rest \in Items /\ Backlog = batch \o rest
      /\ sent \in Seq(1 .. MaxItems)
  BY RequestOver, OutboxTypes
<1>3. Backlog' = rest
  OBVIOUS
<1>4. /\ Ids(batch) \in Seq(1 .. MaxItems) /\ Ids(rest) \in Seq(1 .. MaxItems)
      /\ Ids(Backlog) = Ids(batch) \o Ids(rest) /\ IdSet(batch) = Range(Ids(batch))
  BY RequestOver
<1> HIDE DEF rest
<1>5. Range(Ids(Backlog)) = Range(Ids(batch)) \cup Range(Ids(rest))
  BY <1>4, RangeConcatenation
<1>6. Len(Backlog) = Len(batch) + Len(rest) /\ Len(batch) \in Nat /\ Len(rest) \in Nat
  BY <1>2, ConcatProperties, LenProperties DEF Items
<1>7. unfinished' = Len(Backlog')
  BY <1>1, <1>3, <1>6, OutboxFacts
<1>8. CASE missed' = missed \cup IdSet(batch) /\ sent' = sent
  <2>1. Increasing(sent' \o Ids(Backlog'))
    <3>1. 1 .. MaxItems \subseteq Nat
      BY OutboxAssumption
    <3>2. sent \in Seq(Nat) /\ Ids(batch) \in Seq(Nat) /\ Ids(rest) \in Seq(Nat)
      BY <1>2, <1>4, <3>1, SeqMonotonic
    <3> QED BY <1>3, <1>4, <1>8, <3>2, OutboxFacts, IncreasingCut
  <2>2. 1 .. puts' = missed' \cup Range(Ids(Backlog')) \cup Range(sent')
    BY <1>1, <1>3, <1>4, <1>5, <1>8, OutboxFacts
  <2>3. TypeOK'
    <3>1. Range(Ids(batch)) \subseteq 1 .. MaxItems
      BY <1>4, RangeOfSeq
    <3> QED BY <1>1, <1>4, <1>6, <1>7, <1>8, <1>3, <3>1, EmptySeq DEF Inv, TypeOK
  <2> QED BY <1>7, <2>1, <2>2, <2>3, OutboxFactsNext
<1>9. CASE missed' = missed /\ sent' = sent \o Ids(batch)
  <2>1. sent' \o Ids(Backlog') = sent \o Ids(Backlog)
    BY <1>2, <1>3, <1>4, <1>9, Associative, SMTT(30)
  <2>2. Range(sent') = Range(sent) \cup Range(Ids(batch))
    BY <1>2, <1>4, <1>9, RangeConcatenation
  <2>3. 1 .. puts' = missed' \cup Range(Ids(Backlog')) \cup Range(sent')
    BY <1>1, <1>3, <1>5, <1>9, <2>2, OutboxFacts
  <2>4. TypeOK'
    <3>1. sent' \in Seq(1 .. MaxItems)
      BY <1>2, <1>4, <1>9, ConcatProperties
    <3> QED BY <1>1, <1>3, <1>6, <1>7, <1>9, <3>1, EmptySeq DEF Inv, TypeOK
  <2> QED BY <1>7, <2>1, <2>3, <2>4, OutboxFacts, OutboxFactsNext
<1> QED BY <1>1, <1>8, <1>9

LEMMA NextInv == Inv /\ [Next]_vars => Inv'
<1> SUFFICES ASSUME Inv, [Next]_vars PROVE Inv'
  OBVIOUS
<1>1. CASE Finished \/ vars' = vars
  <2>1. UNCHANGED <<queue, unfinished, pending, batch, supported, puts, sent, missed>>
    BY <1>1 DEF Finished, vars
  <2>2. TypeOK' /\ Backlog' = Backlog
    BY <2>1 DEF Inv, TypeOK, Backlog
  <2> QED BY <2>1, <2>2, Kept
<1> QED BY <1>1, PutInv, GetKeeps, SendKeeps, Kept, RequestOverInv DEF Next, Work

(* What reached the server and what waits are in the order of their puts,  *)
(* and unfinished_tasks counts what waits (_put, _work, _send).            *)
THEOREM OutboxInv == Spec => []Inv
BY InitInv, NextInv, PTL DEF Spec

(* Every variable keeps to its type: the queue to its bound, and           *)
(* unfinished_tasks never goes below zero.                                 *)
THEOREM OutboxTypeOK == Spec => []TypeOK
BY OutboxInv, PTL DEF Inv

(* Batching, drops and failed requests never reorder or repeat an item.    *)
THEOREM OutboxInOrder == Spec => []InOrder
BY OutboxInv, PTL DEF Inv

(* unfinished_tasks, which wait() trusts, is what is on its way; and every *)
(* item put was sent, is on its way, or was given up.                      *)
THEOREM OutboxAccounted == Spec => []Accounted
BY OutboxInv, PTL DEF Inv

(* What goes first and what stays behind of a line.                        *)
LEMMA Divided ==
  ASSUME NEW S, NEW a \in Seq(S), NEW b \in Seq(S)
  PROVE  /\ Len(a \o b) = Len(a) + Len(b) /\ Len(a) \in Nat /\ Len(b) \in Nat
         /\ SubSeq(a \o b, 1, Len(a)) = a
         /\ SubSeq(a \o b, Len(a) + 1, Len(a \o b)) = b
         /\ \A i \in 1 .. Len(a) : (a \o b)[i] = a[i]
<1> DEFINE w == a \o b
           m == Len(a)
           n == Len(b)
           r == SubSeq(w, m + 1, Len(w))
<1>1. /\ w \in Seq(S) /\ Len(w) = m + n /\ m \in Nat /\ n \in Nat
      /\ \A i \in 1 .. m + n : w[i] = IF i <= m THEN a[i] ELSE b[i - m]
      /\ DOMAIN a = 1 .. m /\ DOMAIN b = 1 .. n
  BY ConcatProperties, LenProperties
<1> HIDE DEF w, m, n
<1>2. SubSeq(w, 1, m) = a
  <2>1. /\ SubSeq(w, 1, m) \in Seq(S) /\ Len(SubSeq(w, 1, m)) = m
        /\ \A i \in 1 .. m : SubSeq(w, 1, m)[i] = w[i]
    BY <1>1, SubSeqProperties
  <2> QED BY <1>1, <2>1, SeqEqual DEF m
<1>3. r = b
  <2>1. /\ r \in Seq(S) /\ Len(r) = n
        /\ \A i \in 1 .. n : r[i] = w[m + i]
    BY <1>1, SubSeqProperties
  <2> HIDE DEF r
  <2>2. \A i \in 1 .. n : m + i \in 1 .. m + n /\ ~(m + i <= m) /\ m + i - m = i
    BY <1>1
  <2>3. \A i \in 1 .. n : r[i] = b[i]
    BY <1>1, <2>1, <2>2
  <2> QED BY <2>1, <2>3, SeqEqual DEF n
<1>4. \A i \in 1 .. m : i \in 1 .. m + n /\ w[i] = a[i]
  BY <1>1
<1> QED BY <1>1, <1>2, <1>3, <1>4 DEF w, m, n, r

(* A step of the outbox is one of the line's, or changes nothing of it.    *)
LEMMA LineStep == Inv /\ [Next]_vars => [Line!Next]_(Line!vars)
<1> SUFFICES ASSUME Inv, [Next]_vars PROVE [Line!Next]_(Line!vars)
  OBVIOUS
<1>1. /\ Ids(Backlog) \in Seq(1 .. MaxItems) /\ Len(Ids(Backlog)) = Len(Backlog)
      /\ queue \in Items /\ pending \in Items /\ batch \in Items /\ puts \in Nat
  BY OutboxTypes, IdsType DEF Inv, TypeOK
<1>2. ASSUME NEW kind \in {"decision", "span"}, NEW run \in Runs, Put(kind, run)
      PROVE  Line!Next
  <2> DEFINE item == [kind |-> kind, run |-> run, id |-> puts + 1]
  <2>1. /\ puts < MaxItems /\ puts' = puts + 1 /\ item \in Item
        /\ UNCHANGED <<pending, batch, sent>>
        /\ \/ queue' = Append(queue, item) /\ UNCHANGED missed
           \/ ~Room /\ missed' = missed \cup {puts + 1} /\ UNCHANGED queue
    BY <1>1, <1>2, OutboxAssumption DEF Put, Item
  <2>2. item.id = puts + 1
    OBVIOUS
  <2> HIDE DEF item
  <2>3. CASE queue' = Append(queue, item) /\ UNCHANGED missed
    <3>1. Ids(Backlog') = Ids(Backlog) \o <<puts + 1>>
      BY <2>1, <2>2, <2>3, PutBacklog
    <3>2. Ids(Backlog)' = Append(Ids(Backlog), puts + 1)
      <4>1. puts + 1 \in 1 .. MaxItems
        BY <1>1, <2>1, OutboxAssumption
      <4> QED BY <1>1, <3>1, <4>1, AppendIsConcat
    <3> QED BY <2>1, <2>3, <3>2 DEF Line!Accept, Line!Next
  <2>4. CASE ~Room /\ missed' = missed \cup {puts + 1} /\ UNCHANGED queue
    <3>1. Backlog' = Backlog
      BY <2>1, <2>4 DEF Backlog
    <3>2. Len(Backlog) >= MaxQueued
      <4>1. Len(Backlog) = Len(batch \o pending) + Len(queue) /\ batch \o pending \in Items
        BY <1>1, ConcatProperties DEF Backlog, Items
      <4>2. Len(batch \o pending) \in Nat /\ Len(queue) \in Nat
        BY <1>1, <4>1, LenProperties DEF Items
      <4> QED BY <2>4, <4>1, <4>2, OutboxAssumption DEF Room
    <3>3. Ids(Backlog)' = Ids(Backlog) /\ Len(Ids(Backlog)) >= MaxQueued
      BY <1>1, <3>1, <3>2
    <3> QED BY <2>1, <2>4, <3>3 DEF Line!Refuse, Line!Next
  <2> QED BY <2>1, <2>3, <2>4
<1>3. ASSUME Get \/ Send \/ Finished \/ UNCHANGED vars
      PROVE  UNCHANGED Line!vars
  <2>1. Backlog' = Backlog /\ UNCHANGED <<puts, sent, missed>>
    <3>1. CASE Finished \/ UNCHANGED vars
      BY <3>1 DEF Finished, vars, Backlog
    <3> QED BY <1>3, <3>1, GetKeeps, SendKeeps
  <2> QED BY <2>1 DEF Line!vars
<1>4. ASSUME Fail \/ Taken \/ Unsupported
      PROVE  Line!Next
  <2> DEFINE w == Ids(Backlog)
             a == Ids(batch)
  <2>1. PICK b \in Seq(1 .. MaxItems) : w = a \o b /\ Ids(Backlog)' = b
    BY <1>4, RequestOver
  <2>2. a \in Seq(1 .. MaxItems) /\ Len(a) = Len(batch) /\ Len(a) \in Nat \ {0}
    <3>1. a \in Seq(1 .. MaxItems) /\ Len(a) = Len(batch)
      BY <1>1, IdsType
    <3>2. Len(batch) \in Nat /\ Len(batch) # 0
      BY <1>1, <1>4, RequestOver, EmptySeq, LenProperties DEF Items
    <3> QED BY <3>1, <3>2
  <2>3. /\ puts' = puts
        /\ \/ missed' = missed \cup Range(a) /\ sent' = sent
           \/ missed' = missed /\ sent' = sent \o a
    BY <1>4, RequestOver
  <2>4. /\ Len(w) = Len(a) + Len(b) /\ Len(b) \in Nat
        /\ SubSeq(w, 1, Len(a)) = a /\ SubSeq(w, Len(a) + 1, Len(w)) = b
        /\ {w[i] : i \in 1 .. Len(a)} = Range(a)
    <3> HIDE DEF w, a
    <3> DEFINE N == 1 .. MaxItems
    <3>1. a \in Seq(N) /\ b \in Seq(N)
      BY <2>2
    <3> HIDE DEF N
    <3>2. Len(a \o b) = Len(a) + Len(b) /\ Len(b) \in Nat
      BY ONLY <3>1, Divided
    <3>3. SubSeq(a \o b, 1, Len(a)) = a /\ SubSeq(a \o b, Len(a) + 1, Len(a \o b)) = b
      BY ONLY <3>1, Divided
    <3>4. \A i \in 1 .. Len(a) : (a \o b)[i] = a[i]
      BY ONLY <3>1, Divided
    <3>5. {w[i] : i \in 1 .. Len(a)} = {a[i] : i \in 1 .. Len(a)}
      BY <2>1, <3>4
    <3>6. DOMAIN a = 1 .. Len(a)
      BY <2>2, LenProperties
    <3> QED BY <2>1, <3>2, <3>3, <3>5, <3>6 DEF Range
  <2>5. Len(a) \in 1 .. Len(w)
    BY <2>2, <2>4
  <2>6. Line!Go(Len(a))
    BY <2>1, <2>3, <2>4 DEF Line!Go
  <2> QED BY <2>5, <2>6 DEF Line!Next
<1> QED BY <1>2, <1>3, <1>4 DEF Next, Work

(* The queue, the worker's own list and its request are together one line, *)
(* as Delivery has it: no record passes another or goes twice, and one is  *)
(* turned away only when as many wait as the queue has room for.           *)
THEOREM OutboxImplementsDelivery == Spec => OneLine
<1>1. Init => Line!Init
  <2> SUFFICES ASSUME Init PROVE Line!Init
    OBVIOUS
  <2>1. Backlog = <<>>
    <3>1. <<>> \o <<>> = <<>>
      <4>1. <<>> \in Seq(Nat)
        BY EmptySeq
      <4> QED BY <4>1, ConcatEmptySeq
    <3> QED BY <3>1 DEF Init, Backlog
  <2>2. Ids(Backlog) = <<>>
    BY <2>1 DEF Ids
  <2> QED BY <2>2 DEF Init, Line!Init
<1> QED BY <1>1, LineStep, OutboxInv, PTL DEF Spec, OneLine, Line!Spec

-----------------------------------------------------------------------------
(* Acknowledgements and hooks, which the outbox has no part in: Acks with  *)
(* constants and variables of its own.                                     *)

CONSTANTS Stops, Quarantines
VARIABLES live, old, stopped, acked, hooked, running, unstarted, acks, at, current, request,
          joined, timely, exiting, aborted, starts, raced, settled, elsewhere

Ack == INSTANCE Acks

Appliers == {"heartbeat", "agent"}

(* A thread is at one command; only a stop is at "first"; and entries are  *)
(* in the heartbeat's hands only while it sends them.                      *)
AtOne ==
    /\ \A a \in Appliers : \A c, d \in current[a] : c = d
    /\ \A a \in Appliers : at[a] = "first" => current[a] \subseteq Stops
    /\ at["heartbeat"] # "sending" => request["heartbeat"] = {}

(* A hook is numbered when it is listed, so none is listed again.          *)
Numbered == \A h \in running \cup timely : h[2] <= starts[h[1]]

(* A thread that is about to list a quarantine's hook is alone with it.    *)
Quarantined ==
    /\ \A q \in Quarantines : starts[q] <= IF q \in hooked THEN 1 ELSE 0
    /\ \A a \in Appliers : at[a] = "listing" =>
          \A q \in Quarantines \cap current[a] : q \in hooked /\ starts[q] = 0
    /\ (at["heartbeat"] = "listing" /\ at["agent"] = "listing") =>
          Quarantines \cap current["heartbeat"] \cap current["agent"] = {}

(* A thread that found the run not stopped has a hook to list.             *)
Todo(a) == at[a] = "first" \/ (at[a] = "listing" /\ current[a] \subseteq Stops)

BothTodo == Todo("heartbeat") /\ Todo("agent")

(* No stop's hook is listed before the run is stopped, and one at most for *)
(* each thread that found it not stopped: of two, the second one raced.    *)
Stopping ==
    /\ ~stopped => \A s \in Stops : starts[s] = 0
    /\ ~stopped => \A a \in Appliers : Todo(a) => at[a] = "first"
    /\ ~raced => ~BothTodo
    /\ (~raced /\ stopped) => \A a \in Appliers : at[a] # "first"
    /\ (stopped /\ BothTodo) => \A s \in Stops : starts[s] = 0
    /\ \A a \in Appliers : (stopped /\ Todo(a)) =>
          \A s \in Stops : starts[s] <= IF raced THEN 1 ELSE 0
    /\ raced \/ \A s, z \in Stops : starts[s] + (IF s = z THEN 0 ELSE starts[z]) <= 1

Told(h) == <<h[1], "hook">>

(* Where the result is of each hook that ends in the time of the drain at  *)
(* exit.                                                                   *)
Delivered ==
    /\ at["drain"] = "over" => exiting
    /\ (exiting /\ at["drain"] \in {"draining", "joining"}) =>
          \A h \in timely \ running : Told(h) \in acks \cup request["heartbeat"] \cup settled
    /\ (exiting /\ ~aborted /\ at["drain"] \in {"sending", "over"}) =>
          \A h \in joined \cap timely :
              /\ h \notin running
              /\ \/ Told(h) \in settled \cup elsewhere
                 \/ at["drain"] = "sending" /\ Told(h) \in request["drain"]

AcksInv == Ack!TypeOK /\ AtOne /\ Numbered /\ Quarantined /\ Stopping /\ Delivered

LEMMA TwoAppliers == Ack!Appliers = Appliers /\ Ack!Cardinality(Appliers) = 2
<1>1. "heartbeat" # "agent" /\ Appliers = {"heartbeat"} \cup {"agent"}
  BY DEF Appliers
<1>2. IsFiniteSet({"heartbeat"}) /\ Cardinality({"heartbeat"}) = 1
  BY FS_Singleton
<1>3. "agent" \notin {"heartbeat"}
  OBVIOUS
<1>4. Cardinality({"heartbeat"} \cup {"agent"}) = 1 + 1
  BY <1>2, <1>3, FS_AddElement
<1>5. Ack!Cardinality(Appliers) = Cardinality(Appliers)
  BY DEF Ack!Cardinality, Cardinality
<1> QED BY <1>1, <1>4, <1>5 DEF Ack!Appliers, Appliers

(* Ack!TypeOK with that number.                                            *)
Flags ==
    /\ live \in BOOLEAN /\ old \in BOOLEAN /\ stopped \in BOOLEAN
    /\ exiting \in BOOLEAN /\ aborted \in BOOLEAN /\ raced \in BOOLEAN
Sets ==
    /\ acked \subseteq Ack!Commands /\ hooked \subseteq Quarantines
    /\ running \subseteq Ack!Commands \X (1 .. 2) /\ joined \subseteq Ack!Commands \X (1 .. 2)
    /\ timely \subseteq Ack!Commands \X (1 .. 2)
    /\ acks \subseteq Ack!Entry /\ settled \subseteq Ack!Entry /\ elsewhere \subseteq Ack!Entry
Places == {"idle", "apply", "first", "listing", "starting", "ack", "sending", "draining",
           "joining", "over"}
Tables ==
    /\ at \in [{"heartbeat", "agent", "drain"} -> Places]
    /\ current \in [Appliers -> SUBSET Ack!Commands]
    /\ request \in [{"heartbeat", "drain"} -> SUBSET Ack!Entry]
    /\ unstarted \in [Appliers -> SUBSET (Ack!Commands \X (1 .. 2))]
    /\ starts \in [Ack!Commands -> 0 .. 2]

LEMMA AckTypes == Ack!TypeOK <=> Flags /\ Sets /\ Tables
<1>1. Ack!Hook = Ack!Commands \X (1 .. 2)
  BY TwoAppliers DEF Ack!Hook
<1>2. Ack!Threads = {"heartbeat", "agent", "drain"}
  BY DEF Ack!Threads, Ack!Appliers
<1>3. (\A entries \in {acks, settled, elsewhere} : entries \subseteq Ack!Entry)
      <=> /\ acks \subseteq Ack!Entry /\ settled \subseteq Ack!Entry
          /\ elsewhere \subseteq Ack!Entry
  OBVIOUS
<1>4. (\A listed \in {running, joined, timely} : listed \subseteq Ack!Hook)
      <=> running \subseteq Ack!Hook /\ joined \subseteq Ack!Hook /\ timely \subseteq Ack!Hook
  OBVIOUS
<1>5. Ack!Places = Places
  BY DEF Ack!Places, Places
<1> QED BY <1>1, <1>2, <1>3, <1>4, <1>5, TwoAppliers, Zenon DEF Ack!TypeOK, Flags, Sets, Tables

LEMMA AckTypesNext == Ack!TypeOK' <=> Flags' /\ Sets' /\ Tables'
BY AckTypes, PTL

(* What lists no hook and stops nothing.                                   *)
LEMMA NoneStarted ==
  ASSUME AcksInv, UNCHANGED <<stopped, raced, starts, hooked>>,
         running' \cup timely' \subseteq running \cup timely,
         \A a \in Appliers : at'[a] \in {"first", "listing"} =>
             at'[a] = at[a] /\ current'[a] = current[a]
  PROVE  Numbered' /\ Quarantined' /\ Stopping'
<1>1. Numbered /\ Quarantined /\ Stopping
  BY DEF AcksInv
<1>2. Numbered'
  BY <1>1 DEF Numbered
<1>3. Quarantined'
  <2>1. ASSUME NEW a \in Appliers, at'[a] = "listing"
        PROVE  at[a] = "listing" /\ current'[a] = current[a]
    BY <2>1
  <2> QED BY <1>1, <2>1 DEF Quarantined, Appliers
<1>4. ASSUME NEW a \in Appliers, Todo(a)'
      PROVE  Todo(a) /\ at'[a] = at[a]
  BY <1>4 DEF Todo
<1>5. BothTodo' => BothTodo
  BY <1>4 DEF BothTodo, Appliers
<1>6. \A a \in Appliers : at'[a] = "first" => at[a] = "first"
  OBVIOUS
<1>7. Stopping'
  BY <1>1, <1>4, <1>5, <1>6 DEF Stopping
<1> QED BY <1>2, <1>3, <1>7

(* What drains nothing, and loses no entry on its way.                     *)
LEMMA NoneMissing ==
  ASSUME AcksInv, UNCHANGED <<joined, timely, exiting, aborted, elsewhere>>,
         at'["drain"] = at["drain"], request'["drain"] = request["drain"],
         settled \subseteq settled', running' \cap timely \subseteq running,
         acks \cup request["heartbeat"] \cup settled
             \subseteq acks' \cup request'["heartbeat"] \cup settled',
         \A h \in running \ running' : Told(h) \in acks'
  PROVE  Delivered'
<1>1. Delivered /\ (\A h : Told(h)' = Told(h))
  BY DEF AcksInv, Told
<1>2. at'["drain"] = "over" => exiting'
  BY <1>1 DEF Delivered
<1>3. ASSUME exiting', at'["drain"] \in {"draining", "joining"}, NEW h \in timely' \ running'
      PROVE  Told(h) \in acks' \cup request'["heartbeat"] \cup settled'
  BY <1>1, <1>3 DEF Delivered
<1>4. ASSUME exiting', ~aborted', at'["drain"] \in {"sending", "over"},
             NEW h \in joined' \cap timely'
      PROVE  /\ h \notin running'
             /\ \/ Told(h) \in settled' \cup elsewhere'
                \/ at'["drain"] = "sending" /\ Told(h) \in request'["drain"]
  BY <1>1, <1>4 DEF Delivered
<1> QED BY <1>1, <1>2, <1>3, <1>4 DEF Delivered

LEMMA AckInitInv ==
  ASSUME Ack!Init
  PROVE  AcksInv
<1> USE DEF Ack!Init, Ack!Threads, Ack!Appliers, Appliers
<1>1. Flags
  BY DEF Flags
<1>2. Sets
  BY DEF Sets
<1>3. Tables
  BY DEF Tables, Places
<1>4. AtOne /\ Numbered /\ Quarantined
  BY DEF AtOne, Numbered, Quarantined, Ack!Commands
<1>5. Stopping
  BY DEF Stopping, BothTodo, Todo, Ack!Commands
<1>6. Delivered
  BY DEF Delivered
<1> QED BY <1>1, <1>2, <1>3, <1>4, <1>5, <1>6, AckTypes DEF AcksInv

(* What a reply leaves behind, or took: a thread moves on to one command.  *)
LEMMA ReplyTypes ==
  ASSUME AcksInv, NEW a \in Appliers, NEW C \in SUBSET Ack!Commands,
         \A c, d \in C : c = d, Ack!Reply(a, C)
  PROVE  /\ at' = [at EXCEPT ![a] = IF C = {} THEN "idle" ELSE "apply"]
         /\ at' \in [{"heartbeat", "agent", "drain"} -> Places]
         /\ current' \in [Appliers -> SUBSET Ack!Commands]
         /\ \A b \in Appliers : \A c, d \in current'[b] : c = d
         /\ \A b \in Appliers : at'[b] \in {"first", "listing"} =>
                at'[b] = at[b] /\ current'[b] = current[b]
<1>1. Tables /\ AtOne
  BY AckTypes DEF AcksInv
<1>2. at' = [at EXCEPT ![a] = IF C = {} THEN "idle" ELSE "apply"] /\ current' = [current EXCEPT ![a] = C]
  BY DEF Ack!Reply, Ack!Goto
<1>3. at' \in [{"heartbeat", "agent", "drain"} -> Places]
  BY <1>1, <1>2 DEF Tables, Places, Appliers
<1>4. current' \in [Appliers -> SUBSET Ack!Commands]
  BY <1>1, <1>2 DEF Tables
<1>5. ASSUME NEW b \in Appliers, NEW c \in current'[b], NEW d \in current'[b]
      PROVE  c = d
  BY <1>1, <1>2, <1>5 DEF Tables, AtOne
<1>6. ASSUME NEW b \in Appliers, at'[b] \in {"first", "listing"}
      PROVE  at'[b] = at[b] /\ current'[b] = current[b]
  BY <1>1, <1>2, <1>6 DEF Tables, Appliers
<1> QED BY <1>2, <1>3, <1>4, <1>5, <1>6

(* A thread lists the hook of its command, whose number is its own.        *)
LEMMA ListTypes ==
  ASSUME AcksInv, NEW a \in Appliers, NEW c \in Ack!Commands, starts[c] <= 1, Ack!ListHook(a, c)
  PROVE  /\ starts' \in [Ack!Commands -> 0 .. 2]
         /\ \A d \in Ack!Commands : starts'[d] = IF d = c THEN starts[c] + 1 ELSE starts[d]
         /\ running' = running \cup {<<c, starts[c] + 1>>}
         /\ running' \subseteq Ack!Commands \X (1 .. 2)
         /\ unstarted' \in [Appliers -> SUBSET (Ack!Commands \X (1 .. 2))]
         /\ <<c, starts[c] + 1>> \notin timely
         /\ Numbered'
<1>1. Tables /\ Sets /\ Numbered
  BY AckTypes DEF AcksInv
<1>2. starts[c] \in 0 .. 2 /\ starts[c] + 1 \in 1 .. 2
  BY <1>1 DEF Tables
<1>3. /\ starts' \in [Ack!Commands -> 0 .. 2]
      /\ \A d \in Ack!Commands : starts'[d] = IF d = c THEN starts[c] + 1 ELSE starts[d]
      /\ running' = running \cup {<<c, starts[c] + 1>>}
      /\ unstarted' = [unstarted EXCEPT ![a] = {<<c, starts[c] + 1>>}]
      /\ timely' = timely
  BY <1>1, <1>2 DEF Tables, Ack!ListHook, Ack!drain
<1>4. running' \subseteq Ack!Commands \X (1 .. 2)
  BY <1>1, <1>2, <1>3 DEF Sets
<1>5. unstarted' \in [Appliers -> SUBSET (Ack!Commands \X (1 .. 2))]
  BY <1>1, <1>2, <1>3 DEF Tables
<1>6. <<c, starts[c] + 1>> \notin timely
  BY <1>1, <1>2 DEF Numbered
<1>7. Numbered'
  <2> SUFFICES ASSUME NEW h \in running' \cup timely'
               PROVE  h[2] <= starts'[h[1]]
    BY DEF Numbered
  <2>1. CASE h \in running \cup timely
    <3>1. h[1] \in Ack!Commands /\ h[2] \in 1 .. 2 /\ h[2] <= starts[h[1]]
      BY <1>1, <2>1 DEF Sets, Numbered
    <3>2. starts[h[1]] \in 0 .. 2
      BY <1>1, <3>1 DEF Tables
    <3> QED BY <1>2, <1>3, <3>1, <3>2
  <2>2. CASE h = <<c, starts[c] + 1>>
    BY <1>2, <1>3, <2>2
  <2> QED BY <1>3, <2>1, <2>2
<1> QED BY <1>3, <1>4, <1>5, <1>6, <1>7

(* The parts of a next state, put together.                                *)
LEMMA AcksInvNext ==
  ASSUME Flags', Sets', Tables', AtOne', Numbered', Quarantined', Stopping', Delivered'
  PROVE  AcksInv'
BY AckTypesNext DEF AcksInv

LEMMA AckFacts ==
  ASSUME AcksInv
  PROVE  Flags /\ Sets /\ Tables /\ AtOne /\ Numbered /\ Quarantined /\ Stopping /\ Delivered
BY AckTypes DEF AcksInv

LEMMA QuarantineInv ==
  ASSUME AcksInv, Ack!AcksAssumption, NEW a \in Appliers, NEW c \in Ack!Commands,
         Ack!Quarantine(a, c)
  PROVE  AcksInv'
<1>1. /\ at[a] = "apply" /\ c \in Quarantines /\ c \in current[a] /\ hooked' = hooked \cup {c}
      /\ at' = [at EXCEPT ![a] = IF c \in hooked THEN "ack" ELSE "listing"]
      /\ UNCHANGED <<live, old, stopped, acked, running, unstarted, starts, raced, acks, current,
                     request, joined, timely, exiting, aborted, elsewhere, settled>>
  BY DEF Ack!Quarantine, Ack!HookIfNew, Ack!Goto, Ack!drain
<1>2. Flags /\ Sets /\ Tables /\ AtOne /\ Numbered /\ Quarantined /\ Stopping /\ Delivered
  BY AckFacts
<1>3. c \notin Stops /\ \A d \in current[a] : d = c
  BY <1>1, <1>2 DEF Ack!AcksAssumption, AtOne
<1>4. /\ at' \in [{"heartbeat", "agent", "drain"} -> Places] /\ at'["drain"] = at["drain"]
      /\ at'[a] = IF c \in hooked THEN "ack" ELSE "listing"
      /\ \A b \in Appliers : b # a => at'[b] = at[b]
      /\ at'["heartbeat"] # "sending" => at["heartbeat"] # "sending"
  BY <1>1, <1>2 DEF Tables, Places, Appliers
<1>5. AtOne'
  BY <1>1, <1>2, <1>4 DEF AtOne
<1>6. Flags' /\ Sets' /\ Tables'
  BY <1>1, <1>2, <1>4 DEF Flags, Sets, Tables
<1>7. Numbered'
  BY <1>1, <1>2 DEF Numbered
<1>8. Quarantined'
  <2>1. ASSUME NEW q \in Quarantines PROVE starts'[q] <= IF q \in hooked' THEN 1 ELSE 0
    BY <1>1, <1>2 DEF Quarantined, Tables, Ack!Commands
  <2>2. ASSUME NEW b \in Appliers, at'[b] = "listing", NEW q \in Quarantines \cap current'[b]
        PROVE  q \in hooked' /\ starts'[q] = 0
    <3>1. CASE b # a
      BY <1>1, <1>2, <1>4, <2>2, <3>1 DEF Quarantined
    <3>2. CASE b = a
      <4>1. q = c /\ c \notin hooked
        BY <1>1, <1>3, <1>4, <2>2, <3>2
      <4>2. starts[c] \in 0 .. 2 /\ starts[c] <= 0
        BY <1>1, <1>2, <4>1 DEF Tables, Quarantined
      <4> QED BY <1>1, <4>1, <4>2
    <3> QED BY <3>1, <3>2
  <2>3. ASSUME at'["heartbeat"] = "listing", at'["agent"] = "listing"
        PROVE  Quarantines \cap current'["heartbeat"] \cap current'["agent"] = {}
    <3>1. c \notin hooked
      BY <1>4, <2>3 DEF Appliers
    <3>2. PICK b \in Appliers : b # a /\ {a, b} = Appliers
      BY DEF Appliers
    <3>3. c \notin current[b]
      BY <1>1, <1>2, <1>4, <2>3, <3>1, <3>2 DEF Quarantined, Appliers
    <3>4. current[a] \cap current[b] = {}
      BY <1>3, <3>3
    <3>5. current'["heartbeat"] \cap current'["agent"] = {}
      BY <1>1, <3>2, <3>4 DEF Appliers
    <3> QED BY <3>5
  <2> QED BY <2>1, <2>2, <2>3 DEF Quarantined
<1>9. Stopping'
  <2>1. ~Todo(a)'
    BY <1>1, <1>3, <1>4 DEF Todo
  <2>2. \A b \in Appliers : Todo(b)' => Todo(b) /\ at'[b] = at[b]
    BY <1>1, <1>4, <2>1 DEF Todo
  <2>3. ~BothTodo'
    BY <2>1 DEF BothTodo, Appliers
  <2>4. \A b \in Appliers : at'[b] = "first" => at[b] = "first"
    BY <1>4
  <2> QED BY <1>1, <1>2, <2>2, <2>3, <2>4 DEF Stopping
<1>10. Delivered'
  BY <1>1, <1>4, NoneMissing
<1> QED BY <1>5, <1>6, <1>7, <1>8, <1>9, <1>10, AcksInvNext

(* Where a thread finds the run not stopped as another did, they race.     *)
LEMMA StopInv ==
  ASSUME AcksInv, NEW a \in Appliers, NEW c \in Ack!Commands, Ack!Stop(a, c)
  PROVE  AcksInv'
<1>1. /\ at[a] = "apply" /\ c \in Stops /\ c \in current[a]
      /\ at' = [at EXCEPT ![a] = IF stopped THEN "ack" ELSE "first"]
      /\ raced' = (raced \/ (~stopped /\ \E b \in Ack!Appliers \ {a} : at[b] = "first"))
      /\ UNCHANGED <<live, old, stopped, acked, hooked, running, unstarted, starts, acks, current,
                     request, joined, timely, exiting, aborted, elsewhere, settled>>
  BY DEF Ack!Stop, Ack!Goto, Ack!AfterStop, Ack!hooks, Ack!drain
<1>2. Flags /\ Sets /\ Tables /\ AtOne /\ Numbered /\ Quarantined /\ Stopping /\ Delivered
  BY AckFacts
<1>3. raced' \in BOOLEAN
  BY <1>1
<1>4. /\ at' \in [{"heartbeat", "agent", "drain"} -> Places] /\ at'["drain"] = at["drain"]
      /\ at'["heartbeat"] # "sending" => at["heartbeat"] # "sending"
      /\ \A b \in Appliers : b # a => at'[b] = at[b]
      /\ at'[a] = IF stopped THEN "ack" ELSE "first"
  BY <1>1, <1>2 DEF Tables, Places, Appliers
<1>5. Flags' /\ Sets' /\ Tables'
  BY <1>1, <1>2, <1>3, <1>4 DEF Flags, Sets, Tables
<1>6. AtOne'
  <2>1. \A d \in current[a] : d = c
    BY <1>1, <1>2 DEF AtOne
  <2>2. \A b \in Appliers : at'[b] = "first" => current'[b] \subseteq Stops
    BY <1>1, <1>2, <1>4, <2>1 DEF AtOne
  <2> QED BY <1>1, <1>2, <1>4, <2>2 DEF AtOne
<1>7. Numbered' /\ Quarantined'
  <2>1. \A b \in Appliers : at'[b] = "listing" => at[b] = "listing"
    BY <1>4
  <2>2. Numbered'
    BY <1>1, <1>2 DEF Numbered
  <2>3. Quarantined'
    BY <1>1, <1>2, <2>1 DEF Quarantined, Appliers
  <2> QED BY <2>2, <2>3
<1>8. Delivered'
  BY <1>1, <1>4, NoneMissing
<1>9. Stopping'
  <2>1. CASE stopped
    <3>1. \A b \in Appliers : Todo(b)' => Todo(b) /\ at'[b] = at[b]
      BY <1>1, <1>4, <2>1 DEF Todo
    <3>2. BothTodo' => BothTodo
      BY <3>1 DEF BothTodo, Appliers
    <3>3. \A b \in Appliers : at'[b] = "first" => at[b] = "first"
      BY <1>4, <2>1
    <3>4. raced' = raced
      BY <1>1, <1>2, <2>1 DEF Flags
    <3> QED BY <1>1, <1>2, <3>1, <3>2, <3>3, <3>4 DEF Stopping
  <2>2. CASE ~stopped
    <3>1. \A b \in Appliers : Todo(b)' => at'[b] = "first"
      BY <1>1, <1>2, <1>4, <2>2 DEF Stopping, Todo
    <3>2. BothTodo' => raced'
      <4>1. CASE a = "heartbeat"
        BY <1>1, <1>4, <2>2, <3>1, <4>1 DEF BothTodo, Appliers, Ack!Appliers
      <4>2. CASE a = "agent"
        BY <1>1, <1>4, <2>2, <3>1, <4>2 DEF BothTodo, Appliers, Ack!Appliers
      <4> QED BY <4>1, <4>2 DEF Appliers
    <3>3. \A s \in Stops : starts'[s] = 0
      BY <1>1, <1>2, <2>2 DEF Stopping
    <3> QED BY <1>1, <2>2, <3>1, <3>2, <3>3 DEF Stopping
  <2> QED BY <2>1, <2>2
<1> QED BY <1>5, <1>6, <1>7, <1>8, <1>9, AcksInvNext

(* The first to stop the run is to list its hook; a second one raced.      *)
LEMMA FirstInv ==
  ASSUME AcksInv, Ack!AcksAssumption, NEW a \in Appliers, NEW c \in Ack!Commands, Ack!First(a, c)
  PROVE  AcksInv'
<1>1. /\ at[a] = "first" /\ c \in current[a] /\ stopped' = TRUE
      /\ at' = [at EXCEPT ![a] = "listing"]
      /\ UNCHANGED <<live, old, acked, hooked, running, unstarted, starts, raced, acks, current,
                     request, joined, timely, exiting, aborted, elsewhere, settled>>
  BY DEF Ack!First, Ack!Goto, Ack!hooks, Ack!drain
<1>2. Flags /\ Sets /\ Tables /\ AtOne /\ Numbered /\ Quarantined /\ Stopping /\ Delivered
  BY AckFacts
<1>3. /\ at' \in [{"heartbeat", "agent", "drain"} -> Places] /\ at'["drain"] = at["drain"]
      /\ at'["heartbeat"] # "sending" => at["heartbeat"] # "sending"
      /\ \A b \in Appliers : b # a => at'[b] = at[b]
      /\ at'[a] = "listing"
  BY <1>1, <1>2 DEF Tables, Places, Appliers
<1>4. Flags' /\ Sets' /\ Tables'
  BY <1>1, <1>2, <1>3 DEF Flags, Sets, Tables
<1>5. AtOne' /\ Numbered'
  BY <1>1, <1>2, <1>3 DEF AtOne, Numbered
<1>6. Quarantines \cap current[a] = {}
  BY <1>1, <1>2 DEF AtOne, Ack!AcksAssumption
<1>7. Quarantined'
  <2>1. \A b \in Appliers : at'[b] = "listing" => at[b] = "listing" \/ b = a
    BY <1>3
  <2> QED BY <1>1, <1>2, <1>6, <2>1 DEF Quarantined, Appliers
<1>8. Delivered'
  BY <1>1, <1>3, NoneMissing
<1>9. Stopping'
  <2>1. Todo(a)
    BY <1>1 DEF Todo
  <2>2. \A b \in Appliers : Todo(b)' => Todo(b)
    BY <1>1, <1>3, <2>1 DEF Todo
  <2>3. BothTodo' => BothTodo
    BY <2>2 DEF BothTodo, Appliers
  <2>4. ASSUME ~raced, NEW b \in Appliers PROVE at'[b] # "first"
    <3>1. b # a => ~Todo(b)
      BY <1>2, <2>1, <2>4 DEF Stopping, BothTodo, Appliers
    <3> QED BY <1>3, <3>1 DEF Todo
  <2>5. \A s \in Stops : starts[s] <= IF stopped THEN IF raced THEN 1 ELSE 0 ELSE 0
    BY <1>2, <2>1 DEF Stopping
  <2>6. (stopped' /\ BothTodo') => \A s \in Stops : starts'[s] = 0
    BY <1>1, <1>2, <2>3 DEF Stopping
  <2>7. \A b \in Appliers : (stopped' /\ Todo(b)') =>
           \A s \in Stops : starts'[s] <= IF raced' THEN 1 ELSE 0
    <3>1. \A s \in Stops : starts[s] \in 0 .. 2
      BY <1>2 DEF Tables, Ack!Commands
    <3> QED BY <1>1, <2>5, <3>1
  <2> QED BY <1>1, <1>2, <2>3, <2>4, <2>6, <2>7 DEF Stopping
<1> QED BY <1>4, <1>5, <1>7, <1>8, <1>9, AcksInvNext

(* The hook of a quarantine that was new, or of a stop that was the first. *)
LEMMA ListHookInv ==
  ASSUME AcksInv, Ack!AcksAssumption, NEW a \in Appliers, NEW c \in Ack!Commands,
         Ack!ListHook(a, c)
  PROVE  AcksInv' /\ starts[c] <= 1
<1>1. /\ at[a] = "listing" /\ c \in current[a] /\ at' = [at EXCEPT ![a] = "starting"]
      /\ UNCHANGED <<live, old, stopped, acked, hooked, raced, acks, current,
                     request, joined, timely, exiting, aborted, elsewhere, settled>>
  BY DEF Ack!ListHook, Ack!Goto, Ack!drain
<1>2. Flags /\ Sets /\ Tables /\ AtOne /\ Numbered /\ Quarantined /\ Stopping /\ Delivered
  BY AckFacts
<1>3. /\ at' \in [{"heartbeat", "agent", "drain"} -> Places] /\ at'["drain"] = at["drain"]
      /\ at'["heartbeat"] # "sending" => at["heartbeat"] # "sending"
      /\ \A b \in Appliers : b # a => at'[b] = at[b]
      /\ at'[a] = "starting"
  BY <1>1, <1>2 DEF Tables, Places, Appliers
<1>4. c \in Quarantines => starts[c] = 0
  BY <1>1, <1>2 DEF Quarantined
<1>5. c \in Stops => Todo(a) /\ stopped
  <2>1. c \in Stops => current[a] \subseteq Stops
    BY <1>1, <1>2 DEF AtOne
  <2> QED BY <1>1, <1>2, <2>1 DEF Todo, Stopping
<1>6. c \in Stops => starts[c] <= IF raced THEN 1 ELSE 0
  BY <1>2, <1>5 DEF Stopping
<1>7. starts[c] <= 1 /\ starts[c] \in 0 .. 2
  <2>1. starts[c] \in 0 .. 2
    BY <1>2 DEF Tables
  <2> QED BY <1>2, <1>4, <1>6, <2>1 DEF Ack!Commands, Flags
<1>8. /\ starts' \in [Ack!Commands -> 0 .. 2]
      /\ \A d \in Ack!Commands : starts'[d] = IF d = c THEN starts[c] + 1 ELSE starts[d]
      /\ running' = running \cup {<<c, starts[c] + 1>>}
      /\ running' \subseteq Ack!Commands \X (1 .. 2)
      /\ unstarted' \in [Appliers -> SUBSET (Ack!Commands \X (1 .. 2))]
      /\ <<c, starts[c] + 1>> \notin timely /\ Numbered'
  BY <1>7, ListTypes
<1>9. Flags' /\ Sets' /\ Tables'
  BY <1>1, <1>2, <1>3, <1>8 DEF Flags, Sets, Tables
<1>10. AtOne'
  BY <1>1, <1>2, <1>3 DEF AtOne
<1>11. Quarantined'
  <2>1. \A b \in Appliers : at'[b] = "listing" => at[b] = "listing" /\ b # a
    BY <1>3
  <2>2. ASSUME NEW q \in Quarantines PROVE starts'[q] <= IF q \in hooked' THEN 1 ELSE 0
    <3>1. q = c => q \in hooked
      BY <1>1, <1>2 DEF Quarantined
    <3> QED BY <1>1, <1>2, <1>4, <1>8, <3>1 DEF Quarantined, Ack!Commands
  <2>3. ASSUME NEW b \in Appliers, at'[b] = "listing", NEW q \in Quarantines \cap current'[b]
        PROVE  q \in hooked' /\ starts'[q] = 0
    <3>1. at[b] = "listing" /\ b # a /\ q \in current[b]
      BY <1>1, <2>1, <2>3
    <3>2. q # c
      BY <1>1, <1>2, <2>3, <3>1 DEF Quarantined, Appliers
    <3>3. starts'[q] = starts[q]
      BY <1>8, <2>3, <3>2 DEF Ack!Commands
    <3> QED BY <1>1, <1>2, <2>3, <3>1, <3>3 DEF Quarantined
  <2>4. ~(at'["heartbeat"] = "listing" /\ at'["agent"] = "listing")
    BY <1>3 DEF Appliers
  <2> QED BY <2>2, <2>3, <2>4 DEF Quarantined
<1>12. Delivered'
  BY <1>1, <1>3, <1>8, NoneMissing
<1>13. Stopping'
  <2>1. ~Todo(a)' /\ ~BothTodo'
    BY <1>3 DEF Todo, BothTodo, Appliers
  <2>2. \A b \in Appliers : Todo(b)' => b # a /\ Todo(b) /\ at'[b] = at[b]
    BY <1>1, <1>3, <2>1 DEF Todo
  <2>3. \A b \in Appliers : at'[b] = "first" => at[b] = "first"
    BY <1>3
  <2>4. CASE c \in Stops
    <3>1. \A s \in Stops : starts'[s] = IF s = c THEN starts[c] + 1 ELSE starts[s]
      BY <1>8 DEF Ack!Commands
    <3>2. ASSUME NEW b \in Appliers, Todo(b)', NEW s \in Stops
          PROVE  raced' /\ starts'[s] <= 1
      <4>1. BothTodo
        BY <1>5, <2>2, <2>4, <3>2 DEF BothTodo, Appliers
      <4>2. starts[s] = 0 /\ starts[c] = 0 /\ raced
        BY <1>2, <1>5, <2>4, <4>1 DEF Stopping
      <4> QED BY <1>1, <3>1, <4>2
    <3>3. ~raced' => \A s \in Stops : starts[s] \in 0 .. 2 /\ starts[s] <= 0
      BY <1>1, <1>2, <1>5, <2>4 DEF Stopping, Tables, Ack!Commands
    <3>4. raced' \/ \A s, z \in Stops : starts'[s] + (IF s = z THEN 0 ELSE starts'[z]) <= 1
      BY <3>1, <3>3
    <3> QED BY <1>1, <1>2, <1>5, <2>1, <2>3, <2>4, <3>2, <3>4 DEF Stopping
  <2>5. CASE c \notin Stops
    <3>1. \A s \in Stops : starts'[s] = starts[s]
      BY <1>8, <2>5 DEF Ack!Commands
    <3> QED BY <1>1, <1>2, <2>1, <2>2, <2>3, <3>1 DEF Stopping
  <2> QED BY <2>4, <2>5
<1> QED BY <1>7, <1>8, <1>9, <1>10, <1>11, <1>12, <1>13, AcksInvNext

(* The thread of the hook is started.                                      *)
LEMMA StartHookInv ==
  ASSUME AcksInv, NEW a \in Appliers, Ack!StartHook(a)
  PROVE  AcksInv'
<1>1. /\ at[a] = "starting" /\ at' = [at EXCEPT ![a] = "ack"]
      /\ unstarted' = [unstarted EXCEPT ![a] = {}]
      /\ UNCHANGED <<live, old, stopped, acked, hooked, running, starts, raced, acks, current,
                     request, joined, timely, exiting, aborted, elsewhere, settled>>
  BY DEF Ack!StartHook, Ack!Goto, Ack!drain
<1>2. Flags /\ Sets /\ Tables /\ AtOne /\ Numbered /\ Quarantined /\ Stopping /\ Delivered
  BY AckFacts
<1>3. /\ at' \in [{"heartbeat", "agent", "drain"} -> Places] /\ at'["drain"] = at["drain"]
      /\ at'["heartbeat"] # "sending" => at["heartbeat"] # "sending"
      /\ \A b \in Appliers : at'[b] \in {"first", "listing"} => at'[b] = at[b]
  BY <1>1, <1>2 DEF Tables, Places, Appliers
<1>4. Flags' /\ Sets' /\ Tables'
  BY <1>1, <1>2, <1>3 DEF Flags, Sets, Tables
<1>5. AtOne'
  BY <1>1, <1>2, <1>3 DEF AtOne
<1>6. Numbered' /\ Quarantined' /\ Stopping'
  BY <1>1, <1>3, NoneStarted
<1>7. Delivered'
  BY <1>1, <1>3, NoneMissing
<1> QED BY <1>4, <1>5, <1>6, <1>7, AcksInvNext

LEMMA AcknowledgeInv ==
  ASSUME AcksInv, NEW a \in Appliers, NEW c \in Ack!Commands, Ack!Acknowledge(a, c)
  PROVE  AcksInv'
<1>1. /\ at[a] = "ack" /\ acked' = acked \cup {c}
      /\ acks' = IF c \in acked THEN acks ELSE acks \cup {<<c, "receipt">>}
      /\ Ack!Reply(a, {})
      /\ UNCHANGED <<live, old, stopped, hooked, running, starts, raced, request, unstarted, joined,
                     timely, exiting, aborted, elsewhere, settled>>
  BY DEF Ack!Acknowledge, Ack!hooks, Ack!drain
<1>2. Flags /\ Sets /\ Tables /\ AtOne /\ Numbered /\ Quarantined /\ Stopping /\ Delivered
  BY AckFacts
<1>3. /\ at' = [at EXCEPT ![a] = "idle"]
      /\ at' \in [{"heartbeat", "agent", "drain"} -> Places]
      /\ current' \in [Appliers -> SUBSET Ack!Commands]
      /\ \A b \in Appliers : \A x, y \in current'[b] : x = y
      /\ \A b \in Appliers : at'[b] \in {"first", "listing"} =>
             at'[b] = at[b] /\ current'[b] = current[b]
  BY <1>1, ReplyTypes
<1>4. /\ at'["drain"] = at["drain"]
      /\ \A b \in Appliers : at'[b] \in {"first", "listing"} => at'[b] = at[b]
      /\ at'["heartbeat"] # "sending" => at["heartbeat"] # "sending"
  BY <1>1, <1>2, <1>3 DEF Tables, Appliers
<1>5. <<c, "receipt">> \in Ack!Entry
  BY DEF Ack!Entry
<1>6. Flags' /\ Sets' /\ Tables'
  BY <1>1, <1>2, <1>3, <1>5 DEF Flags, Sets, Tables
<1>7. AtOne'
  BY <1>1, <1>2, <1>3, <1>4 DEF AtOne
<1>8. Numbered' /\ Quarantined' /\ Stopping'
  BY <1>1, <1>3, NoneStarted
<1>9. Delivered'
  BY <1>1, <1>4, NoneMissing
<1> QED BY <1>6, <1>7, <1>8, <1>9, AcksInvNext

(* A hook that is over has its result on the list.                         *)
LEMMA HookDoneInv ==
  ASSUME AcksInv, NEW h \in running, Ack!HookDone(h)
  PROVE  AcksInv'
<1>1. /\ running' = running \ {h} /\ acks' = acks \cup {Told(h)}
      /\ UNCHANGED <<live, old, stopped, acked, hooked, starts, raced, at, current, request,
                     unstarted, joined, timely, exiting, aborted, elsewhere, settled>>
  BY DEF Ack!HookDone, Ack!drain, Told
<1>2. Flags /\ Sets /\ Tables /\ AtOne /\ Numbered /\ Quarantined /\ Stopping /\ Delivered
  BY AckFacts
<1>3. Told(h) \in Ack!Entry
  BY <1>2 DEF Sets, Told, Ack!Entry
<1>4. Flags' /\ Sets' /\ Tables'
  BY <1>1, <1>2, <1>3 DEF Flags, Sets, Tables
<1>5. AtOne'
  BY <1>1, <1>2 DEF AtOne
<1>6. Numbered' /\ Quarantined' /\ Stopping'
  BY <1>1, NoneStarted
<1>7. \A x \in running \ running' : x = h
  BY <1>1
<1>8. Delivered'
  BY <1>1, <1>7, NoneMissing
<1> QED BY <1>4, <1>5, <1>6, <1>8, AcksInvNext

LEMMA CheckpointInv ==
  ASSUME AcksInv, NEW c \in Ack!Commands, Ack!Checkpoint(c)
  PROVE  AcksInv'
<1>1. /\ at["agent"] = "idle" /\ Ack!Reply("agent", {c}) /\ "agent" \in Appliers
      /\ UNCHANGED <<live, old, stopped, acked, hooked, running, starts, raced, acks, request,
                     unstarted, joined, timely, exiting, aborted, elsewhere, settled>>
  BY DEF Ack!Checkpoint, Ack!command, Ack!hooks, Ack!drain, Appliers
<1>2. Flags /\ Sets /\ Tables /\ AtOne /\ Numbered /\ Quarantined /\ Stopping /\ Delivered
  BY AckFacts
<1>3. /\ at' = [at EXCEPT !["agent"] = "apply"]
      /\ at' \in [{"heartbeat", "agent", "drain"} -> Places]
      /\ current' \in [Appliers -> SUBSET Ack!Commands]
      /\ \A b \in Appliers : \A x, y \in current'[b] : x = y
      /\ \A b \in Appliers : at'[b] \in {"first", "listing"} =>
             at'[b] = at[b] /\ current'[b] = current[b]
  BY <1>1, ReplyTypes
<1>4. /\ at'["drain"] = at["drain"] /\ at'["heartbeat"] = at["heartbeat"]
      /\ \A b \in Appliers : at'[b] \in {"first", "listing"} => at'[b] = at[b]
  BY <1>1, <1>2, <1>3 DEF Tables, Appliers
<1>5. Flags' /\ Sets' /\ Tables'
  BY <1>1, <1>2, <1>3 DEF Flags, Sets, Tables
<1>6. AtOne'
  BY <1>1, <1>2, <1>3, <1>4 DEF AtOne
<1>7. Numbered' /\ Quarantined' /\ Stopping'
  BY <1>1, <1>3, NoneStarted
<1>8. Delivered'
  BY <1>1, <1>4, NoneMissing
<1> QED BY <1>5, <1>6, <1>7, <1>8, AcksInvNext

LEMMA EndRunInv ==
  ASSUME AcksInv, Ack!EndRun \/ UNCHANGED Ack!vars
  PROVE  AcksInv'
<1>1. UNCHANGED <<old, stopped, acked, hooked, running, starts, raced, acks, at, current, request,
                  unstarted, joined, timely, exiting, aborted, elsewhere, settled>>
  BY DEF Ack!EndRun, Ack!vars, Ack!command, Ack!hooks, Ack!drain
<1>2. Flags /\ Sets /\ Tables /\ AtOne /\ Numbered /\ Quarantined /\ Stopping /\ Delivered
  BY AckFacts
<1>3. live' \in BOOLEAN
  BY <1>2 DEF Ack!EndRun, Ack!vars, Flags
<1>4. Flags' /\ Sets' /\ Tables'
  BY <1>1, <1>2, <1>3 DEF Flags, Sets, Tables
<1>5. AtOne'
  BY <1>1, <1>2 DEF AtOne
<1>6. Numbered' /\ Quarantined' /\ Stopping'
  BY <1>1, NoneStarted
<1>7. Delivered'
  BY <1>1, NoneMissing
<1> QED BY <1>4, <1>5, <1>6, <1>7, AcksInvNext

LEMMA BeatInv ==
  ASSUME AcksInv, Ack!Beat
  PROVE  AcksInv'
<1>1. /\ at["heartbeat"] = "idle" /\ request' = [request EXCEPT !["heartbeat"] = acks] /\ acks' = {}
      /\ at' = [at EXCEPT !["heartbeat"] = "sending"]
      /\ UNCHANGED <<live, old, stopped, acked, hooked, running, starts, raced, current, unstarted,
                     joined, timely, exiting, aborted, elsewhere, settled>>
  BY DEF Ack!Beat, Ack!Goto, Ack!command, Ack!hooks, Ack!drain
<1>2. Flags /\ Sets /\ Tables /\ AtOne /\ Numbered /\ Quarantined /\ Stopping /\ Delivered
  BY AckFacts
<1>3. /\ at' \in [{"heartbeat", "agent", "drain"} -> Places] /\ at'["drain"] = at["drain"]
      /\ at'["heartbeat"] = "sending"
      /\ \A b \in Appliers : at'[b] \in {"first", "listing"} => at'[b] = at[b]
  BY <1>1, <1>2 DEF Tables, Places, Appliers
<1>4. /\ request' \in [{"heartbeat", "drain"} -> SUBSET Ack!Entry]
      /\ request'["drain"] = request["drain"] /\ request'["heartbeat"] = acks
  BY <1>1, <1>2 DEF Tables, Sets
<1>5. Flags' /\ Sets' /\ Tables'
  BY <1>1, <1>2, <1>3, <1>4 DEF Flags, Sets, Tables
<1>6. AtOne'
  BY <1>1, <1>2, <1>3 DEF AtOne
<1>7. Numbered' /\ Quarantined' /\ Stopping'
  BY <1>1, <1>3, NoneStarted
<1>8. request["heartbeat"] = {}
  BY <1>1, <1>2 DEF AtOne
<1>9. Delivered'
  BY <1>1, <1>3, <1>4, <1>8, NoneMissing
<1> QED BY <1>5, <1>6, <1>7, <1>9, AcksInvNext

(* However a heartbeat ends, its entries are listed again, or settled.     *)
LEMMA BeatOverInv ==
  ASSUME AcksInv, Ack!BeatFails \/ Ack!BeatRefused \/ Ack!Taken
  PROVE  AcksInv'
<1>1. Flags /\ Sets /\ Tables /\ AtOne /\ Numbered /\ Quarantined /\ Stopping /\ Delivered
  BY AckFacts
<1>2. /\ at["heartbeat"] = "sending"
      /\ \/ acks' = acks \cup request["heartbeat"] /\ UNCHANGED settled
         \/ settled' = settled \cup request["heartbeat"] /\ UNCHANGED acks
      /\ request' = [request EXCEPT !["heartbeat"] = {}]
      /\ \/ current' = current /\ at' = [at EXCEPT !["heartbeat"] = "idle"]
         \/ current' = current /\ at' = [at EXCEPT !["heartbeat"] = "over"]
         \/ Ack!Reply("heartbeat", {})
         \/ \E c \in Ack!Commands : Ack!Reply("heartbeat", {c})
      /\ UNCHANGED <<live, old, stopped, acked, hooked, running, starts, raced, unstarted, joined,
                     timely, exiting, aborted, elsewhere>>
  <2>1. CASE Ack!BeatFails
    BY <2>1 DEF Ack!BeatFails, Ack!Empty, Ack!Goto, Ack!command, Ack!hooks, Ack!drain
  <2>2. CASE Ack!BeatRefused
    <3>1. at' = [at EXCEPT !["heartbeat"] = IF old THEN "over" ELSE "idle"]
      BY <2>2 DEF Ack!BeatRefused, Ack!Goto
    <3> QED BY <2>2, <3>1 DEF Ack!BeatRefused, Ack!Empty, Ack!command, Ack!hooks, Ack!drain
  <2>3. CASE Ack!Taken
    BY <2>3 DEF Ack!Taken, Ack!BeatTaken, Ack!Empty, Ack!command, Ack!hooks, Ack!drain
  <2> QED BY <2>1, <2>2, <2>3
<1>3. /\ \E p \in {"idle", "over", "apply"} : at' = [at EXCEPT !["heartbeat"] = p]
      /\ current' \in [Appliers -> SUBSET Ack!Commands]
      /\ \A b \in Appliers : \A x, y \in current'[b] : x = y
      /\ \A b \in Appliers : at'[b] \in {"first", "listing"} => current'[b] = current[b]
  <2>1. "heartbeat" \in Appliers
    BY DEF Appliers
  <2>2. CASE current' = current /\ \E p \in {"idle", "over"} : at' = [at EXCEPT !["heartbeat"] = p]
    BY <1>1, <2>2 DEF Tables, AtOne
  <2>3. CASE Ack!Reply("heartbeat", {})
    BY <2>1, <2>3, ReplyTypes
  <2>4. CASE \E c \in Ack!Commands : Ack!Reply("heartbeat", {c})
    BY <2>1, <2>4, ReplyTypes
  <2> QED BY <1>2, <2>2, <2>3, <2>4
<1>4. /\ at' \in [{"heartbeat", "agent", "drain"} -> Places] /\ at'["drain"] = at["drain"]
      /\ \A b \in Appliers : at'[b] \in {"first", "listing"} => at'[b] = at[b]
  BY <1>1, <1>2, <1>3 DEF Tables, Places, Appliers
<1>5. /\ request' \in [{"heartbeat", "drain"} -> SUBSET Ack!Entry]
      /\ request'["drain"] = request["drain"] /\ request'["heartbeat"] = {}
      /\ request["heartbeat"] \subseteq Ack!Entry
  BY <1>1, <1>2 DEF Tables
<1>6. Flags' /\ Sets' /\ Tables'
  BY <1>1, <1>2, <1>3, <1>4, <1>5 DEF Flags, Sets, Tables
<1>7. AtOne'
  BY <1>1, <1>3, <1>4, <1>5 DEF AtOne
<1>8. Numbered' /\ Quarantined' /\ Stopping'
  BY <1>2, <1>3, <1>4, NoneStarted
<1>9. Delivered'
  <2>1. /\ acks \cup request["heartbeat"] \cup settled
              \subseteq acks' \cup request'["heartbeat"] \cup settled'
        /\ settled \subseteq settled'
    BY <1>2
  <2> QED BY <1>2, <1>4, <1>5, <2>1, NoneMissing
<1> QED BY <1>6, <1>7, <1>8, <1>9, AcksInvNext

(* A drain begins, with an eye at exit on the hooks that end in its time.  *)
LEMMA DrainInv ==
  ASSUME AcksInv, NEW exit \in BOOLEAN, Ack!Drain(exit)
  PROVE  AcksInv'
<1>1. /\ at["drain"] = "idle" /\ timely' \subseteq running /\ exiting' = exit
      /\ at' = [at EXCEPT !["drain"] = "draining"]
      /\ UNCHANGED <<live, old, stopped, acked, hooked, running, unstarted, starts, raced, acks,
                     current, request, joined, aborted, elsewhere, settled>>
  BY DEF Ack!Drain, Ack!Goto, Ack!command, Ack!hooks
<1>2. Flags /\ Sets /\ Tables /\ AtOne /\ Numbered /\ Quarantined /\ Stopping /\ Delivered
  BY AckFacts
<1>3. /\ at' \in [{"heartbeat", "agent", "drain"} -> Places] /\ at'["drain"] = "draining"
      /\ \A b \in Appliers : at'[b] = at[b]
  BY <1>1, <1>2 DEF Tables, Places, Appliers
<1>4. exiting' \in BOOLEAN
  BY <1>1
<1>5. Flags' /\ Sets' /\ Tables'
  BY <1>1, <1>2, <1>3, <1>4 DEF Flags, Sets, Tables
<1>6. AtOne'
  BY <1>1, <1>2, <1>3 DEF AtOne, Appliers
<1>7. Numbered' /\ Quarantined' /\ Stopping'
  BY <1>1, <1>3, NoneStarted
<1>8. Delivered'
  BY <1>1, <1>3 DEF Delivered
<1> QED BY <1>5, <1>6, <1>7, <1>8, AcksInvNext

(* It notes the hooks that run, or comes to one that was not started.      *)
LEMMA DrainListInv ==
  ASSUME AcksInv, Ack!DrainList \/ Ack!DrainRaises
  PROVE  AcksInv'
<1>1. /\ \/ /\ at["drain"] = "draining" /\ joined' = running /\ aborted' = aborted
            /\ at' = [at EXCEPT !["drain"] = "joining"]
         \/ /\ at["drain"] = "joining" /\ aborted' = exiting
            /\ joined' = (IF exiting THEN joined ELSE {})
            /\ at' = [at EXCEPT !["drain"] = IF exiting THEN "over" ELSE "idle"]
      /\ UNCHANGED <<live, old, stopped, acked, hooked, running, unstarted, starts, raced, acks,
                     current, request, timely, exiting, elsewhere, settled>>
  BY DEF Ack!DrainList, Ack!DrainRaises, Ack!DrainOver, Ack!Goto, Ack!command, Ack!hooks
<1>2. Flags /\ Sets /\ Tables /\ AtOne /\ Numbered /\ Quarantined /\ Stopping /\ Delivered
  BY AckFacts
<1>3. /\ at' \in [{"heartbeat", "agent", "drain"} -> Places]
      /\ \A b \in Appliers : at'[b] = at[b]
  BY <1>1, <1>2 DEF Tables, Places, Appliers
<1>4. Flags' /\ Sets' /\ Tables'
  BY <1>1, <1>2, <1>3 DEF Flags, Sets, Tables
<1>5. AtOne'
  BY <1>1, <1>2, <1>3 DEF AtOne, Appliers
<1>6. Numbered' /\ Quarantined' /\ Stopping'
  BY <1>1, <1>3, NoneStarted
<1>7. Delivered'
  <2>1. CASE at["drain"] = "draining" /\ at'["drain"] = "joining"
    BY <1>1, <1>2, <2>1 DEF Delivered, Told
  <2>2. CASE at'["drain"] = (IF exiting THEN "over" ELSE "idle") /\ aborted' = exiting
    BY <1>1, <2>2 DEF Delivered
  <2> QED BY <1>1, <1>2, <2>1, <2>2 DEF Tables
<1> QED BY <1>4, <1>5, <1>6, <1>7, AcksInvNext

LEMMA DrainTakeInv ==
  ASSUME AcksInv, Ack!DrainTake
  PROVE  AcksInv'
<1>1. /\ at["drain"] = "joining" /\ (exiting => joined \cap timely \cap running = {})
      /\ request' = [request EXCEPT !["drain"] = acks] /\ acks' = {}
      /\ elsewhere' = (IF exiting THEN {e \in request["heartbeat"] : e[2] = "hook"} ELSE elsewhere)
      /\ at' = [at EXCEPT !["drain"] = "sending"]
      /\ UNCHANGED <<live, old, stopped, acked, hooked, running, unstarted, starts, raced, current,
                     joined, timely, exiting, aborted, settled>>
  BY DEF Ack!DrainTake, Ack!HooksOver, Ack!Goto, Ack!command, Ack!hooks
<1>2. Flags /\ Sets /\ Tables /\ AtOne /\ Numbered /\ Quarantined /\ Stopping /\ Delivered
  BY AckFacts
<1>3. /\ at' \in [{"heartbeat", "agent", "drain"} -> Places] /\ at'["drain"] = "sending"
      /\ \A b \in Appliers : at'[b] = at[b]
  BY <1>1, <1>2 DEF Tables, Places, Appliers
<1>4. /\ request' \in [{"heartbeat", "drain"} -> SUBSET Ack!Entry]
      /\ request'["drain"] = acks /\ request'["heartbeat"] = request["heartbeat"]
      /\ elsewhere' \subseteq Ack!Entry
  BY <1>1, <1>2 DEF Tables, Sets
<1>5. Flags' /\ Sets' /\ Tables'
  BY <1>1, <1>2, <1>3, <1>4 DEF Flags, Sets, Tables
<1>6. AtOne'
  BY <1>1, <1>2, <1>3, <1>4 DEF AtOne, Appliers
<1>7. Numbered' /\ Quarantined' /\ Stopping'
  BY <1>1, <1>3, NoneStarted
<1>8. Delivered'
  <2>1. ASSUME exiting', NEW h \in joined' \cap timely'
        PROVE  /\ h \notin running'
               /\ \/ Told(h) \in settled' \cup elsewhere'
                  \/ Told(h) \in request'["drain"]
    <3>1. h \in timely \ running
      BY <1>1, <2>1
    <3>2. Told(h) \in acks \cup request["heartbeat"] \cup settled
      BY <1>1, <1>2, <2>1, <3>1 DEF Delivered
    <3>3. Told(h)[2] = "hook"
      BY DEF Told
    <3> QED BY <1>1, <1>4, <2>1, <3>1, <3>2, <3>3
  <2> QED BY <1>3, <2>1 DEF Delivered, Told
<1> QED BY <1>5, <1>6, <1>7, <1>8, AcksInvNext

LEMMA DrainSentInv ==
  ASSUME AcksInv, Ack!DrainSent
  PROVE  AcksInv'
<1>1. /\ at["drain"] = "sending"
      /\ settled' = settled \cup request["drain"]
      /\ request' = [request EXCEPT !["drain"] = {}]
      /\ joined' = (IF exiting THEN joined ELSE {})
      /\ at' = [at EXCEPT !["drain"] = IF exiting THEN "over" ELSE "idle"]
      /\ UNCHANGED <<live, old, stopped, acked, hooked, running, unstarted, starts, raced, acks,
                     current, timely, exiting, aborted, elsewhere>>
  BY DEF Ack!DrainSent, Ack!DrainOver, Ack!Empty, Ack!Goto, Ack!command, Ack!hooks
<1>2. Flags /\ Sets /\ Tables /\ AtOne /\ Numbered /\ Quarantined /\ Stopping /\ Delivered
  BY AckFacts
<1>3. /\ at' \in [{"heartbeat", "agent", "drain"} -> Places]
      /\ at'["drain"] = IF exiting THEN "over" ELSE "idle"
      /\ \A b \in Appliers : at'[b] = at[b]
  BY <1>1, <1>2 DEF Tables, Places, Appliers
<1>4. /\ request' \in [{"heartbeat", "drain"} -> SUBSET Ack!Entry]
      /\ request'["heartbeat"] = request["heartbeat"] /\ request["drain"] \subseteq Ack!Entry
  BY <1>1, <1>2 DEF Tables
<1>5. Flags' /\ Sets' /\ Tables'
  BY <1>1, <1>2, <1>3, <1>4 DEF Flags, Sets, Tables
<1>6. AtOne'
  BY <1>1, <1>2, <1>3, <1>4 DEF AtOne, Appliers
<1>7. Numbered' /\ Quarantined' /\ Stopping'
  BY <1>1, <1>3, NoneStarted
<1>8. Delivered'
  <2>1. ASSUME exiting', ~aborted', NEW h \in joined' \cap timely'
        PROVE  h \notin running' /\ Told(h) \in settled' \cup elsewhere'
    BY <1>1, <1>2, <2>1 DEF Delivered
  <2> QED BY <1>1, <1>3, <2>1 DEF Delivered, Told
<1> QED BY <1>5, <1>6, <1>7, <1>8, AcksInvNext

LEMMA AckNextInv ==
  ASSUME Ack!AcksAssumption, AcksInv, [Ack!Next]_(Ack!vars)
  PROVE  AcksInv'
<1>1. ASSUME NEW a \in Ack!Appliers, Ack!Applying(a) PROVE AcksInv'
  BY <1>1, TwoAppliers, QuarantineInv, StopInv, FirstInv, ListHookInv, StartHookInv,
     AcknowledgeInv DEF Ack!Applying
<1>2. CASE Ack!Ended
  BY <1>2, EndRunInv DEF Ack!Ended
<1> QED BY <1>1, <1>2, HookDoneInv, CheckpointInv, EndRunInv, BeatInv, BeatOverInv, DrainInv,
           DrainListInv, DrainTakeInv, DrainSentInv DEF Ack!Next

(* Hooks are started once and their results are passed on, whatever stops  *)
(* and quarantines arrive, in whatever order (apply, _hook, drain).        *)
THEOREM AcksInvariant ==
  ASSUME Ack!AcksAssumption
  PROVE  Ack!Spec => []AcksInv
<1>1. Ack!Init => AcksInv
  BY AckInitInv
<1>2. AcksInv /\ [Ack!Next]_(Ack!vars) => AcksInv'
  BY AckNextInv
<1> QED BY <1>1, <1>2, PTL DEF Ack!Spec

(* Every variable keeps to its type: no command starts more hooks than     *)
(* there are threads to apply it.                                          *)
THEOREM AcksTypeOK ==
  ASSUME Ack!AcksAssumption
  PROVE  Ack!Spec => []Ack!TypeOK
BY AcksInvariant, PTL DEF AcksInv

(* A quarantine's hook runs once per process, and a stop's once per run,   *)
(* but for two threads that apply the first one at the same moment.        *)
THEOREM AcksHookOnce ==
  ASSUME Ack!AcksAssumption
  PROVE  Ack!Spec => []Ack!HookOnce
<1>1. ASSUME AcksInv PROVE Ack!HookOnce
  <2>1. Tables /\ Quarantined /\ Stopping
    BY <1>1, AckFacts
  <2>2. \A q \in Quarantines : starts[q] \in 0 .. 2
    BY <2>1 DEF Tables, Ack!Commands
  <2> QED BY <2>1, <2>2 DEF Quarantined, Stopping, Ack!HookOnce
<1> QED BY <1>1, AcksInvariant, PTL

(* When the process exits, the hooks the last drain noted, and that end in *)
(* its time, are over and their results sent, or in a heartbeat that was   *)
(* on its way, unless the drain came to a hook not started and raised.     *)
THEOREM AcksExitReports ==
  ASSUME Ack!AcksAssumption
  PROVE  Ack!Spec => []Ack!ExitReports
<1>1. ASSUME AcksInv PROVE Ack!ExitReports
  <2>1. Delivered
    BY <1>1, AckFacts
  <2> QED BY <2>1 DEF Delivered, Told, Ack!ExitReports, Ack!Gone
<1> QED BY <1>1, AcksInvariant, PTL

(* A command is acknowledged once it was applied.                          *)
Applied(c) == IF c \in Stops THEN stopped ELSE c \in hooked

(* Where a thread has stopped the run, or noted the quarantine.            *)
Past == {"listing", "starting", "ack"}

Receipts ==
    /\ \A c \in Ack!Commands : Ack!Receipt(c) \in Ack!Reported <=> c \in acked
    /\ \A c \in acked : Applied(c)
    /\ \A a \in Appliers : at[a] \in Past => \A c \in current[a] : Applied(c)

Results ==
    \A c \in Ack!Commands :
        <<c, "hook">> \in Ack!Reported <=> \E n \in 1 .. starts[c] : <<c, n>> \notin running

(* The drain, like a heartbeat, has entries in its hands while it sends.   *)
Hands == at["drain"] # "sending" => request["drain"] = {}

ReportsInv == Receipts /\ Results /\ Hands

(* What passes reports on, or leaves them where they are.                  *)
LEMMA ReportsKept ==
  ASSUME AcksInv, ReportsInv, Ack!Reported' = Ack!Reported, Hands',
         UNCHANGED <<stopped, acked, hooked, running, starts>>,
         \A a \in Appliers : at'[a] \in Past => at[a] \in Past /\ current'[a] = current[a]
  PROVE  ReportsInv'
<1>1. Receipts'
  BY DEF ReportsInv, Receipts, Applied, Ack!Receipt
<1>2. Results'
  BY DEF ReportsInv, Results
<1> QED BY <1>1, <1>2 DEF ReportsInv

(* A thread applies its command c: what was applied stays so, and a hook   *)
(* that starts is not yet over.                                            *)
LEMMA ReportsApply ==
  ASSUME AcksInv, ReportsInv, NEW a \in Appliers, NEW c \in Ack!Commands, c \in current[a],
         UNCHANGED <<acks, request, settled, acked, current>>,
         stopped => stopped', hooked \subseteq hooked',
         NEW q \in Places \ {"sending"}, at' = [at EXCEPT ![a] = q],
         q \in Past => Applied(c)',
         UNCHANGED <<running, starts>> \/ (starts[c] <= 1 /\ Ack!ListHook(a, c))
  PROVE  ReportsInv'
<1>1. Tables /\ AtOne /\ Numbered /\ Ack!Reported' = Ack!Reported
  BY AckFacts DEF Ack!Reported
<1>2. \A d : Applied(d) => Applied(d)'
  BY DEF Applied
<1>3. Receipts'
  <2>1. ASSUME NEW b \in Appliers, at'[b] \in Past, NEW d \in current'[b] PROVE Applied(d)'
    <3>1. CASE b = a
      BY <1>1, <2>1, <3>1 DEF Tables, AtOne, Appliers
    <3>2. CASE b # a
      <4>1. at[b] \in Past /\ d \in current[b]
        BY <1>1, <2>1, <3>2 DEF Tables, Appliers
      <4> QED BY <1>2, <4>1 DEF ReportsInv, Receipts
    <3> QED BY <3>1, <3>2
  <2>2. \A d \in Ack!Commands : Ack!Receipt(d)' \in Ack!Reported' <=> d \in acked'
    BY <1>1 DEF ReportsInv, Receipts, Ack!Receipt
  <2>3. \A d \in acked' : Applied(d)'
    BY <1>2 DEF ReportsInv, Receipts
  <2> QED BY <2>1, <2>2, <2>3 DEF Receipts
<1>4. Results'
  <2>1. CASE UNCHANGED <<running, starts>>
    BY <1>1, <2>1 DEF ReportsInv, Results
  <2>2. CASE starts[c] <= 1 /\ Ack!ListHook(a, c)
    <3>1. /\ \A d \in Ack!Commands : starts[d] \in Nat
          /\ \A d \in Ack!Commands : starts'[d] = IF d = c THEN starts[c] + 1 ELSE starts[d]
          /\ running' = running \cup {<<c, starts[c] + 1>>}
      <4>1. \A d \in Ack!Commands : starts[d] \in Nat
        BY <1>1 DEF Tables
      <4> QED BY <2>2, <4>1, ListTypes
    <3>2. ASSUME NEW d \in Ack!Commands
          PROVE  (\E n \in 1 .. starts'[d] : <<d, n>> \notin running')
                    <=> \E n \in 1 .. starts[d] : <<d, n>> \notin running
      <4>1. CASE d # c
        BY <3>1, <4>1
      <4>2. CASE d = c
        <5>1. starts'[d] = starts[d] + 1 /\ starts[d] \in Nat
          BY <3>1, <4>2
        <5>2. \A n \in 1 .. starts[d] : <<d, n>> \in running' <=> <<d, n>> \in running
          BY <3>1, <4>2
        <5>3. <<d, starts[d] + 1>> \in running'
          BY <3>1, <4>2
        <5>4. \A n \in 1 .. starts'[d] : n \in 1 .. starts[d] \/ n = starts[d] + 1
          BY <5>1
        <5>5. \A n \in 1 .. starts[d] : n \in 1 .. starts'[d]
          BY <5>1
        <5> QED BY <5>2, <5>3, <5>4, <5>5
      <4> QED BY <4>1, <4>2
    <3> QED BY <1>1, <3>2 DEF ReportsInv, Results
  <2> QED BY <2>1, <2>2
<1>5. Hands'
  BY <1>1 DEF ReportsInv, Hands, Past, Tables, Appliers
<1> QED BY <1>3, <1>4, <1>5 DEF ReportsInv

(* A command is applied, step by step, and then acknowledged.              *)
LEMMA ReportsApplying ==
  ASSUME AcksInv, ReportsInv, Ack!AcksAssumption, NEW a \in Appliers, NEW c \in Ack!Commands,
         Ack!Quarantine(a, c) \/ Ack!Stop(a, c) \/ Ack!First(a, c) \/ Ack!ListHook(a, c)
  PROVE  ReportsInv'
<1> USE DEF Places, Past
<1>1. Tables /\ AtOne
  BY AckFacts
<1>2. CASE Ack!Quarantine(a, c)
  <2>1. /\ c \in Quarantines /\ c \in current[a] /\ hooked' = hooked \cup {c}
        /\ at' = [at EXCEPT ![a] = IF c \in hooked THEN "ack" ELSE "listing"]
        /\ UNCHANGED <<acks, request, settled, acked, current, stopped, running, starts>>
    BY <1>2 DEF Ack!Quarantine, Ack!HookIfNew, Ack!Goto
  <2>2. PICK q \in {"ack", "listing"} : at' = [at EXCEPT ![a] = q]
    BY <2>1
  <2>3. Applied(c)'
    BY <2>1 DEF Applied, Ack!AcksAssumption
  <2> QED BY <2>1, <2>2, <2>3, ReportsApply
<1>3. CASE Ack!Stop(a, c)
  <2>1. /\ c \in Stops /\ c \in current[a]
        /\ UNCHANGED <<acks, request, settled, acked, current, stopped, hooked, running, starts>>
    BY <1>3 DEF Ack!Stop, Ack!hooks
  <2>2. PICK q \in {"ack", "first"} : at' = [at EXCEPT ![a] = q] /\ (q = "ack" => stopped)
    BY <1>3 DEF Ack!Stop, Ack!Goto, Ack!AfterStop
  <2>3. q = "ack" => Applied(c)'
    BY <2>1, <2>2 DEF Applied
  <2> QED BY <2>1, <2>2, <2>3, ReportsApply
<1>4. CASE Ack!First(a, c)
  <2>1. /\ at[a] = "first" /\ c \in current[a] /\ stopped' = TRUE
        /\ at' = [at EXCEPT ![a] = "listing"]
        /\ UNCHANGED <<acks, request, settled, acked, current, hooked, running, starts>>
    BY <1>4 DEF Ack!First, Ack!Goto, Ack!hooks
  <2>2. Applied(c)'
    BY <1>1, <2>1 DEF AtOne, Applied
  <2> QED BY <2>1, <2>2, ReportsApply
<1>5. CASE Ack!ListHook(a, c)
  <2>1. /\ at[a] = "listing" /\ c \in current[a] /\ at' = [at EXCEPT ![a] = "starting"]
        /\ UNCHANGED <<acks, request, settled, acked, current, hooked, stopped>>
    BY <1>5 DEF Ack!ListHook, Ack!Goto
  <2>2. starts[c] <= 1
    BY <1>5, ListHookInv
  <2>3. Applied(c)'
    BY <2>1 DEF ReportsInv, Receipts, Applied
  <2> QED BY <1>5, <2>1, <2>2, <2>3, ReportsApply
<1> QED BY <1>2, <1>3, <1>4, <1>5

(* The receipt, and the hook's result, are listed.                         *)
LEMMA ReportsListed ==
  ASSUME AcksInv, ReportsInv, Ack!AcksAssumption,
         (\E a \in Appliers, c \in Ack!Commands : Ack!Acknowledge(a, c))
            \/ \E h \in running : Ack!HookDone(h)
  PROVE  ReportsInv'
<1>1. Tables /\ Sets /\ AtOne /\ Numbered
  BY AckFacts
<1>2. ASSUME NEW a \in Appliers, NEW c \in Ack!Commands, Ack!Acknowledge(a, c)
      PROVE  ReportsInv'
  <2>1. /\ at[a] = "ack" /\ c \in current[a] /\ acked' = acked \cup {c} /\ Ack!Reply(a, {})
        /\ acks' = IF c \in acked THEN acks ELSE acks \cup {<<c, "receipt">>}
        /\ UNCHANGED <<stopped, hooked, running, starts, request, settled>>
    BY <1>2 DEF Ack!Acknowledge, Ack!hooks
  <2>2. /\ at' = [at EXCEPT ![a] = "idle"] /\ current' = [current EXCEPT ![a] = {}]
        /\ at'["drain"] = at["drain"]
        /\ \A b \in Appliers : at'[b] \in Past => at[b] \in Past /\ current'[b] = current[b]
    BY <1>1, <2>1 DEF Ack!Reply, Ack!Goto, Past, Tables, Appliers
  <2>3. Ack!Reported' = Ack!Reported \cup {<<c, "receipt">>}
    <3>1. CASE c \in acked
      <4>1. <<c, "receipt">> \in Ack!Reported
        BY <3>1 DEF ReportsInv, Receipts, Ack!Receipt
      <4> QED BY <2>1, <3>1, <4>1 DEF Ack!Reported
    <3>2. CASE c \notin acked
      BY <2>1, <3>2 DEF Ack!Reported
    <3> QED BY <3>1, <3>2
  <2>4. Receipts'
    <3>1. \A d : Applied(d)' <=> Applied(d)
      BY <2>1 DEF Applied
    <3>2. \A d \in Ack!Commands : Ack!Receipt(d)' \in Ack!Reported' <=> d \in acked'
      BY <2>1, <2>3 DEF ReportsInv, Receipts, Ack!Receipt
    <3>3. \A d \in acked' : Applied(d)'
      BY <2>1, <3>1 DEF ReportsInv, Receipts, Past
    <3> QED BY <2>2, <3>1, <3>2, <3>3 DEF ReportsInv, Receipts
  <2>5. Results'
    BY <2>1, <2>3 DEF ReportsInv, Results
  <2>6. Hands'
    BY <2>1, <2>2 DEF ReportsInv, Hands
  <2> QED BY <2>4, <2>5, <2>6 DEF ReportsInv
<1>3. ASSUME NEW h \in running, Ack!HookDone(h)
      PROVE  ReportsInv'
  <2>1. /\ running' = running \ {h} /\ acks' = acks \cup {<<h[1], "hook">>}
        /\ UNCHANGED <<stopped, acked, hooked, starts, at, current, request, settled>>
    BY <1>3 DEF Ack!HookDone
  <2>2. PICK e \in Ack!Commands, m \in 1 .. 2 : h = <<e, m>> /\ m \in 1 .. starts[e]
    BY <1>1, <1>3 DEF Sets, Numbered, Tables
  <2>3. Ack!Reported' = Ack!Reported \cup {<<e, "hook">>}
    BY <2>1, <2>2 DEF Ack!Reported
  <2>4. Receipts'
    BY <2>1, <2>3 DEF ReportsInv, Receipts, Applied, Ack!Receipt
  <2>5. Results'
    <3>1. ASSUME NEW d \in Ack!Commands
          PROVE  <<d, "hook">> \in Ack!Reported' <=> \E n \in 1 .. starts'[d] : <<d, n>> \notin running'
      <4>1. CASE d = e
        BY <2>1, <2>2, <2>3, <4>1
      <4>2. CASE d # e
        <5>1. \A n : <<d, n>> \in running' <=> <<d, n>> \in running
          BY <2>1, <2>2, <4>2
        <5> QED BY <2>1, <2>3, <4>2, <5>1 DEF ReportsInv, Results
      <4> QED BY <4>1, <4>2
    <3> QED BY <3>1 DEF Results
  <2>6. Hands'
    BY <2>1 DEF ReportsInv, Hands
  <2> QED BY <2>4, <2>5, <2>6 DEF ReportsInv
<1> QED BY <1>2, <1>3

(* A heartbeat or a drain takes what is listed, and lets go of it.         *)
LEMMA ReportsSent ==
  ASSUME AcksInv, ReportsInv,
         \/ Ack!Beat \/ Ack!BeatFails \/ Ack!BeatRefused \/ Ack!Taken
         \/ (\E exit \in BOOLEAN : Ack!Drain(exit)) \/ Ack!DrainList \/ Ack!DrainRaises
         \/ Ack!DrainTake \/ Ack!DrainSent
  PROVE  ReportsInv'
<1>1. Tables /\ AtOne
  BY AckFacts
<1>2. UNCHANGED <<stopped, acked, hooked, running, starts>>
  BY DEF Ack!Beat, Ack!BeatFails, Ack!BeatRefused, Ack!Taken, Ack!BeatTaken, Ack!Drain,
     Ack!DrainList, Ack!DrainRaises, Ack!DrainTake, Ack!DrainSent, Ack!command, Ack!hooks
<1>3. CASE Ack!Beat
  <2>1. /\ request' = [request EXCEPT !["heartbeat"] = acks] /\ acks' = {}
        /\ at["heartbeat"] = "idle" /\ at' = [at EXCEPT !["heartbeat"] = "sending"]
        /\ UNCHANGED <<current, settled>>
    BY <1>3 DEF Ack!Beat, Ack!Goto
  <2>2. Ack!Reported' = Ack!Reported
    BY <1>1, <2>1 DEF Ack!Reported, Tables, AtOne
  <2>3. Hands' /\ \A a \in Appliers : at'[a] \in Past => at[a] \in Past /\ current'[a] = current[a]
    BY <1>1, <2>1 DEF ReportsInv, Hands, Past, Tables, Appliers
  <2> QED BY <1>2, <2>2, <2>3, ReportsKept
<1>4. CASE Ack!BeatFails \/ Ack!BeatRefused \/ Ack!Taken
  <2>1. /\ request' = [request EXCEPT !["heartbeat"] = {}]
        /\ acks' \cup settled' = acks \cup settled \cup request["heartbeat"]
    BY <1>4 DEF Ack!BeatFails, Ack!BeatRefused, Ack!Taken, Ack!BeatTaken, Ack!Empty
  <2>2. \E p \in {"idle", "over", "apply"} :
            /\ at' = [at EXCEPT !["heartbeat"] = p]
            /\ current'["agent"] = current["agent"]
    <3>1. CASE Ack!BeatFails
      BY <3>1 DEF Ack!BeatFails, Ack!Goto
    <3>2. CASE Ack!BeatRefused
      BY <3>2 DEF Ack!BeatRefused, Ack!Goto
    <3>3. CASE Ack!Taken
      <4>1. PICK C : Ack!Reply("heartbeat", C)
        BY <3>3 DEF Ack!Taken, Ack!BeatTaken
      <4> QED BY <1>1, <4>1 DEF Ack!Reply, Ack!Goto, Tables, Appliers
    <3> QED BY <1>4, <3>1, <3>2, <3>3
  <2>3. Ack!Reported' = Ack!Reported
    BY <1>1, <2>1 DEF Ack!Reported, Tables
  <2>4. Hands' /\ \A a \in Appliers : at'[a] \in Past => at[a] \in Past /\ current'[a] = current[a]
    BY <1>1, <2>1, <2>2 DEF ReportsInv, Hands, Past, Tables, Appliers
  <2> QED BY <1>2, <2>3, <2>4, ReportsKept
<1>5. CASE (\E exit \in BOOLEAN : Ack!Drain(exit)) \/ Ack!DrainList \/ Ack!DrainRaises
  <2>1. /\ at["drain"] # "sending"
        /\ \E p \in {"draining", "joining", "over", "idle"} : at' = [at EXCEPT !["drain"] = p]
        /\ UNCHANGED <<acks, request, current, settled>>
    BY <1>5 DEF Ack!Drain, Ack!DrainList, Ack!DrainRaises, Ack!DrainOver, Ack!Goto
  <2>2. Hands' /\ \A a \in Appliers : at'[a] \in Past => at[a] \in Past /\ current'[a] = current[a]
    BY <1>1, <2>1 DEF ReportsInv, Hands, Past, Tables, Appliers
  <2>3. Ack!Reported' = Ack!Reported
    BY <2>1 DEF Ack!Reported
  <2> QED BY <1>2, <2>2, <2>3, ReportsKept
<1>6. CASE Ack!DrainTake
  <2>1. /\ at["drain"] = "joining" /\ at' = [at EXCEPT !["drain"] = "sending"]
        /\ request' = [request EXCEPT !["drain"] = acks] /\ acks' = {}
        /\ UNCHANGED <<current, settled>>
    BY <1>6 DEF Ack!DrainTake, Ack!Goto
  <2>2. Hands' /\ \A a \in Appliers : at'[a] \in Past => at[a] \in Past /\ current'[a] = current[a]
    BY <1>1, <2>1 DEF Hands, Past, Tables, Appliers
  <2>3. Ack!Reported' = Ack!Reported
    BY <1>1, <2>1 DEF ReportsInv, Hands, Ack!Reported, Tables
  <2> QED BY <1>2, <2>2, <2>3, ReportsKept
<1>7. CASE Ack!DrainSent
  <2>1. /\ request' = [request EXCEPT !["drain"] = {}] /\ UNCHANGED <<acks, current>>
        /\ settled' = settled \cup request["drain"]
    BY <1>7 DEF Ack!DrainSent, Ack!Empty
  <2>2. \E p \in {"over", "idle"} : at' = [at EXCEPT !["drain"] = p]
    BY <1>7 DEF Ack!DrainSent, Ack!DrainOver, Ack!Goto
  <2>3. Hands' /\ \A a \in Appliers : at'[a] \in Past => at[a] \in Past /\ current'[a] = current[a]
    BY <1>1, <2>1, <2>2 DEF Hands, Past, Tables, Appliers
  <2>4. Ack!Reported' = Ack!Reported
    BY <1>1, <2>1 DEF Ack!Reported, Tables
  <2> QED BY <1>2, <2>3, <2>4, ReportsKept
<1> QED BY <1>3, <1>4, <1>5, <1>6, <1>7

LEMMA ReportsNextInv ==
  ASSUME Ack!AcksAssumption, AcksInv, ReportsInv, [Ack!Next]_(Ack!vars)
  PROVE  ReportsInv'
<1>1. ASSUME NEW a \in Ack!Appliers, Ack!Applying(a) PROVE ReportsInv'
  <2>1. CASE Ack!StartHook(a)
    <3>1. /\ at[a] = "starting" /\ at' = [at EXCEPT ![a] = "ack"]
          /\ UNCHANGED <<stopped, acked, hooked, running, starts, acks, current, request, settled>>
      BY <2>1 DEF Ack!StartHook, Ack!Goto
    <3>2. Ack!Reported' = Ack!Reported
      BY <3>1 DEF Ack!Reported
    <3>3. Tables
      BY AckFacts
    <3>4. Hands' /\ \A b \in Appliers : at'[b] \in Past => at[b] \in Past /\ current'[b] = current[b]
      BY <3>1, <3>3, TwoAppliers DEF ReportsInv, Hands, Past, Tables, Appliers
    <3> QED BY <3>1, <3>2, <3>4, ReportsKept
  <2> QED BY <1>1, <2>1, TwoAppliers, ReportsApplying, ReportsListed DEF Ack!Applying
<1>2. CASE Ack!Ended \/ UNCHANGED Ack!vars
  <2>1. UNCHANGED <<stopped, acked, hooked, running, starts, acks, at, current, request, settled>>
    BY <1>2 DEF Ack!Ended, Ack!vars, Ack!command, Ack!hooks
  <2> QED BY <2>1 DEF ReportsInv, Receipts, Results, Hands, Applied, Ack!Receipt, Ack!Reported
<1>3. CASE Ack!EndRun \/ \E c \in Ack!Commands : Ack!Checkpoint(c)
  <2>1. /\ UNCHANGED <<stopped, acked, hooked, running, starts, acks, request, settled>>
        /\ \/ UNCHANGED <<at, current>>
           \/ \E c \in Ack!Commands : Ack!Reply("agent", {c})
    BY <1>3 DEF Ack!EndRun, Ack!Checkpoint, Ack!command, Ack!hooks
  <2>2. /\ Hands'
        /\ \A a \in Appliers : at'[a] \in Past => at[a] \in Past /\ current'[a] = current[a]
    <3>1. Tables
      BY AckFacts
    <3> QED BY <2>1, <3>1 DEF ReportsInv, Hands, Past, Tables, Ack!Reply, Ack!Goto, Appliers
  <2>3. Ack!Reported' = Ack!Reported
    BY <2>1 DEF Ack!Reported
  <2> QED BY <2>1, <2>2, <2>3, ReportsKept
<1> QED BY <1>1, <1>2, <1>3, TwoAppliers, ReportsListed, ReportsSent DEF Ack!Next

(* A receipt is of a command that was applied, a result of a hook that is  *)
(* over, and no such report vanishes between the threads that list, send,  *)
(* fail and send again.                                                    *)
THEOREM AcksReportsAccounted ==
  ASSUME Ack!AcksAssumption
  PROVE  Ack!Spec => []Ack!ReportsAccounted
<1>1. Ack!Init => ReportsInv
  <2> SUFFICES ASSUME Ack!Init PROVE ReportsInv
    OBVIOUS
  <2>1. Ack!Reported = {} /\ acked = {} /\ \A a \in Appliers : at[a] = "idle"
    BY DEF Ack!Init, Ack!Reported, Appliers, Ack!Threads, Ack!Appliers
  <2>2. \A c \in Ack!Commands : 1 .. starts[c] = {}
    BY DEF Ack!Init
  <2>3. request["drain"] = {}
    BY DEF Ack!Init
  <2> QED BY <2>1, <2>2, <2>3 DEF ReportsInv, Receipts, Results, Hands, Past
<1>2. ReportsInv => Ack!ReportsAccounted
  BY DEF ReportsInv, Receipts, Results, Applied, Ack!ReportsAccounted
<1> QED BY <1>1, <1>2, AcksInvariant, ReportsNextInv, PTL DEF Ack!Spec
=============================================================================
