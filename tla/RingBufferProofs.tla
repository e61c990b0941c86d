-------------------------- MODULE RingBufferProofs --------------------------
(***************************************************************************)
(* For every capacity, item type and word set: the ring buffer has no slot *)
(* race and implements the atomic bounded queue.                           *)
(***************************************************************************)
EXTENDS RingBuffer, SequenceTheorems, TLAPS

\* The producer's view: its loaded head is exact, its tail may be old but
\* never leads; what it copied so far is in the slot.
ProducerInv ==
  /\ p.seen <= tail
  /\ p.pc = "copy" =>
       /\ p.h = head /\ head - p.seen < N
       /\ \A w \in Word \ p.left : data[SlotOf(p.h)][w] = p.item[w]

\* The consumer's view, symmetrically.
ConsumerInv ==
  /\ c.seen <= head
  /\ c.pc = "copy" =>
       /\ c.t = tail /\ tail < c.seen
       /\ \A w \in Word \ c.left : c.item[w] = data[SlotOf(c.t)][w]

IInv == TypeOK /\ ProducerInv /\ ConsumerInv
-----------------------------------------------------------------------------
(* Arithmetic of the slot index *)

\* A counter's slot is an index of the array, data[counter & (N - 1)].
LEMMA SlotInRange == ASSUME NEW i \in Nat PROVE SlotOf(i) \in Slot
  BY NAssumption DEF SlotOf, Slot

\* Counters less than N apart use different slots of the array.
LEMMA SlotsDiffer ==
  ASSUME NEW i \in Nat, NEW j \in Nat, i < j, j < i + N
  PROVE  SlotOf(i) # SlotOf(j)
<1>1. SUFFICES ASSUME i % N = j % N PROVE FALSE
  BY DEF SlotOf
<1> DEFINE a == i \div N
           b == j \div N
<1>2. i = N * a + (i % N) /\ j = N * b + (j % N) /\ a \in Nat /\ b \in Nat
  BY NAssumption
<1>3. i % N \in Nat
  BY NAssumption
<1> HIDE DEF a, b
<1>4. N * (b - a) = N * b - N * a /\ N * a \in Int /\ N * b \in Int
  BY <1>2, NAssumption
<1>5. j - i = N * (b - a)
  BY <1>1, <1>2, <1>3, <1>4
<1>6. CASE b - a >= 1
  <2>1. N * (b - a) >= N
    BY <1>2, <1>6, NAssumption
  <2> QED BY <1>5, <2>1, NAssumption
<1>7. CASE b - a <= 0
  <2>1. N * (b - a) <= 0
    BY <1>2, <1>7, NAssumption
  <2> QED BY <1>5, <2>1
<1> QED BY <1>2, <1>6, <1>7
-----------------------------------------------------------------------------
(* The invariant *)

LEMMA InitInv == Init => IInv
  BY NAssumption DEF Init, IInv, TypeOK, ProducerInv, ConsumerInv, Item

LEMMA NextInv == IInv /\ [Next]_vars => IInv'
<1> SUFFICES ASSUME IInv, [Next]_vars PROVE IInv'
  OBVIOUS
<1> USE NAssumption DEF IInv, TypeOK, ProducerInv, ConsumerInv
<1>1. ASSUME NEW item \in Item, WriteBegin(item) PROVE IInv'
  BY <1>1 DEF WriteBegin
<1>2. ASSUME NEW w \in Word, WriteWord(w) PROVE IInv'
  <2>1. SlotOf(p.h) \in Slot
    BY SlotInRange
  <2>2. TypeOK'
    BY <1>2, <2>1 DEF WriteWord, Item
  <2>3. ProducerInv'
    BY <1>2, <2>1 DEF WriteWord, Item
  <2>4. ASSUME c.pc = "copy" PROVE SlotOf(c.t) # SlotOf(p.h)
    BY <1>2, <2>4, SlotsDiffer DEF WriteWord
  <2>5. ConsumerInv'
    BY <1>2, <2>1, <2>4, SlotInRange DEF WriteWord, Item
  <2> QED BY <2>2, <2>3, <2>5
<1>3. ASSUME WriteCommit PROVE IInv'
  BY <1>3 DEF WriteCommit
<1>4. ASSUME ReadBegin PROVE IInv'
  <2>1. PICK h \in c.seen..head :
          c' = IF h <= tail
               THEN [c EXCEPT !.seen = h]
               ELSE [c EXCEPT !.pc = "copy", !.t = tail, !.seen = h, !.left = Word]
    BY <1>4 DEF ReadBegin
  <2>2. UNCHANGED <<data, head, tail, p, got>> /\ c.pc = "idle"
    BY <1>4 DEF ReadBegin
  <2>3. CASE h <= tail
    BY <2>1, <2>2, <2>3
  <2>4. CASE ~ (h <= tail)
    <3>1. c' = [c EXCEPT !.pc = "copy", !.t = tail, !.seen = h, !.left = Word]
          /\ h \in Nat /\ h <= head /\ tail < h
      BY <2>1, <2>4
    <3>2. TypeOK'
      BY <2>2, <3>1
    <3>3. ProducerInv'
      BY <2>2
    <3>4. ConsumerInv'
      BY <2>2, <3>1
    <3> QED BY <3>2, <3>3, <3>4
  <2> QED BY <2>3, <2>4
<1>5. ASSUME NEW w \in Word, ReadWord(w) PROVE IInv'
  <2>1. SlotOf(c.t) \in Slot
    BY SlotInRange
  <2>2. UNCHANGED <<data, head, tail, p, got>> /\ w \in c.left /\ c.pc = "copy"
    BY <1>5 DEF ReadWord
  <2>3. c' = [c EXCEPT !.item = [c.item EXCEPT ![w] = data[SlotOf(c.t)][w]],
                       !.left = c.left \ {w}]
    BY <1>5 DEF ReadWord
  <2>4. [c.item EXCEPT ![w] = data[SlotOf(c.t)][w]] \in Item
    BY <2>1 DEF Item
  <2>5. TypeOK'
    BY <2>2, <2>3, <2>4
  <2>6. ProducerInv'
    BY <2>2
  <2>7. ConsumerInv'
    BY <2>1, <2>2, <2>3 DEF Item
  <2> QED BY <2>5, <2>6, <2>7
<1>6. ASSUME ReadCommit PROVE IInv'
  BY <1>6 DEF ReadCommit
<1>7. ASSUME ClearAll PROVE IInv'
  BY <1>7 DEF ClearAll
<1>8. CASE UNCHANGED vars
  BY <1>8 DEF vars
<1> QED
  BY <1>1, <1>2, <1>3, <1>4, <1>5, <1>6, <1>7, <1>8 DEF Next, Produce, Consume

LEMMA Invariance == Spec => []IInv
  BY InitInv, NextInv, PTL DEF Spec

(***************************************************************************)
(* The types hold and at most N items are ever in the ring: 0 <= head -    *)
(* tail <= N although each thread works from an old copy of the other's    *)
(* counter.                                                                *)
(***************************************************************************)
THEOREM TypeCorrect == Spec => []TypeOK
  BY Invariance, PTL DEF IInv

(***************************************************************************)
(* The plain copies of try_write and try_read never meet in a slot, for    *)
(* every capacity: the ring is free of data races.                         *)
(***************************************************************************)
THEOREM NoRace == Spec => []NoSlotRace
<1>1. IInv => NoSlotRace
  <2> SUFFICES ASSUME IInv, p.pc = "copy", c.pc = "copy"
               PROVE  SlotOf(p.h) # SlotOf(c.t)
    BY DEF NoSlotRace
  <2> QED BY SlotsDiffer, NAssumption DEF IInv, TypeOK, ProducerInv, ConsumerInv
<1> QED BY <1>1, Invariance, PTL
-----------------------------------------------------------------------------
(* Refinement *)

LEMMA SlotsFromSeq ==
  ASSUME NEW d \in [Slot -> Item], NEW t \in Nat, NEW h \in Nat, t <= h
  PROVE  /\ SlotsFrom(d, t, h) \in Seq(Item)
         /\ Len(SlotsFrom(d, t, h)) = h - t
         /\ \A i \in 1..(h - t) : SlotsFrom(d, t, h)[i] = d[SlotOf(t + i - 1)]
<1>1. h - t \in Nat
  OBVIOUS
<1>2. ASSUME NEW i \in 1..(h - t) PROVE d[SlotOf(t + i - 1)] \in Item
  <2>1. t + i - 1 \in Nat
    BY <1>1
  <2> QED BY <2>1, SlotInRange
<1> QED BY <1>1, <1>2 DEF SlotsFrom

\* Advancing h appends the item in slot h.
LEMMA SlotsFromAppend ==
  ASSUME NEW d \in [Slot -> Item], NEW t \in Nat, NEW h \in Nat, t <= h
  PROVE  SlotsFrom(d, t, h + 1) = Append(SlotsFrom(d, t, h), d[SlotOf(h)])
<1> DEFINE old == SlotsFrom(d, t, h)
           new == SlotsFrom(d, t, h + 1)
           last == d[SlotOf(h)]
<1>1. last \in Item
  BY SlotInRange
<1>2. /\ old \in Seq(Item) /\ Len(old) = h - t
      /\ \A i \in 1..(h - t) : old[i] = d[SlotOf(t + i - 1)]
  BY SlotsFromSeq
<1>3. h + 1 \in Nat /\ t <= h + 1
  OBVIOUS
<1>4. /\ new \in Seq(Item) /\ Len(new) = h + 1 - t
      /\ \A i \in 1..(h + 1 - t) : new[i] = d[SlotOf(t + i - 1)]
  <2> DEFINE k == h + 1
  <2> HIDE DEF k
  <2>1. k \in Nat /\ t <= k
    BY <1>3 DEF k
  <2>2. /\ SlotsFrom(d, t, k) \in Seq(Item) /\ Len(SlotsFrom(d, t, k)) = k - t
        /\ \A i \in 1..(k - t) : SlotsFrom(d, t, k)[i] = d[SlotOf(t + i - 1)]
    BY <2>1, SlotsFromSeq
  <2> QED BY <2>2 DEF k
<1>5. /\ Append(old, last) \in Seq(Item) /\ Len(Append(old, last)) = h - t + 1
      /\ \A i \in 1..(h - t) : Append(old, last)[i] = old[i]
      /\ Append(old, last)[h - t + 1] = last
  BY <1>1, <1>2, AppendProperties
<1> HIDE DEF old, new
<1>6. ASSUME NEW i \in 1..(h + 1 - t) PROVE new[i] = Append(old, last)[i]
  <2>1. CASE i = h - t + 1
    <3>1. t + i - 1 = h
      BY <2>1
    <3> QED BY <1>4, <1>5, <2>1, <3>1
  <2>2. CASE i # h - t + 1
    <3>1. i \in 1..(h - t)
      BY <2>2
    <3> QED BY <1>2, <1>4, <1>5, <3>1
  <2> QED BY <2>1, <2>2
<1>7. new = Append(old, last)
  <2>1. Len(new) = Len(Append(old, last))
    BY <1>4, <1>5
  <2> QED BY <1>4, <1>5, <1>6, <2>1, SeqEqual
<1> QED BY <1>7 DEF old, new

\* Advancing t drops the item in slot t.
LEMMA SlotsFromTail ==
  ASSUME NEW d \in [Slot -> Item], NEW t \in Nat, NEW h \in Nat, t < h
  PROVE  /\ SlotsFrom(d, t, h) # <<>>
         /\ Head(SlotsFrom(d, t, h)) = d[SlotOf(t)]
         /\ SlotsFrom(d, t + 1, h) = Tail(SlotsFrom(d, t, h))
<1> DEFINE old == SlotsFrom(d, t, h)
           new == SlotsFrom(d, t + 1, h)
<1>1. /\ old \in Seq(Item) /\ Len(old) = h - t
      /\ \A i \in 1..(h - t) : old[i] = d[SlotOf(t + i - 1)]
  BY SlotsFromSeq
<1>2. t + 1 \in Nat /\ t + 1 <= h
  OBVIOUS
<1>3. /\ new \in Seq(Item) /\ Len(new) = h - (t + 1)
      /\ \A i \in 1..(h - (t + 1)) : new[i] = d[SlotOf(t + 1 + i - 1)]
  BY <1>2, SlotsFromSeq
<1> HIDE DEF old, new
<1>4. old # <<>>
  BY <1>1, EmptySeq
<1>5. Head(old) = old[1] /\ old[1] = d[SlotOf(t)]
  <2>1. 1 \in 1..(h - t) /\ t + 1 - 1 = t
    OBVIOUS
  <2> QED BY <1>1, <1>4, <2>1
<1>6. /\ Tail(old) \in Seq(Item) /\ Len(Tail(old)) = h - t - 1
      /\ \A i \in 1..(h - t - 1) : Tail(old)[i] = old[i + 1]
  BY <1>1, <1>4, HeadTailProperties
<1>7. ASSUME NEW i \in 1..(h - t - 1) PROVE new[i] = Tail(old)[i]
  <2>1. i \in 1..(h - (t + 1)) /\ i + 1 \in 1..(h - t) /\ t + 1 + i - 1 = t + (i + 1) - 1
    OBVIOUS
  <2> QED BY <1>1, <1>3, <1>6, <2>1
<1>8. new = Tail(old)
  <2>1. Len(new) = h - t - 1 /\ Len(Tail(old)) = h - t - 1
    BY <1>3, <1>6
  <2> QED BY <1>3, <1>6, <1>7, <2>1, SeqEqual
<1> QED BY <1>4, <1>5, <1>8 DEF old, new

\* A step that leaves the counters and the slots in between alone leaves the
\* queue alone.
LEMMA ContentsUnchanged ==
  ASSUME UNCHANGED <<head, tail>>,
         \A i \in 1..(head - tail) :
            data'[SlotOf(tail + i - 1)] = data[SlotOf(tail + i - 1)]
  PROVE  UNCHANGED Contents
  BY DEF Contents, SlotsFrom

\* Storing head appends the item the producer has copied into its slot.
LEMMA CommitAppends ==
  ASSUME IInv, WriteCommit
  PROVE  Queue!Put(p.item)
<1> USE DEF IInv, TypeOK, ProducerInv
<1>1. p.item \in Item /\ data[SlotOf(head)] \in Item
  BY SlotInRange
<1>2. data[SlotOf(head)] = p.item
  BY <1>1 DEF Item, WriteCommit
<1>3. Contents' = Append(Contents, p.item)
  BY <1>2, SlotsFromAppend DEF Contents, WriteCommit
<1>4. Len(Contents) = head - tail /\ head - tail < N
  BY SlotsFromSeq, NAssumption DEF Contents, WriteCommit
<1> QED BY <1>3, <1>4 DEF Queue!Put, WriteCommit

\* Storing tail removes the item the consumer has copied out of its slot.
LEMMA CommitTakes ==
  ASSUME IInv, ReadCommit
  PROVE  Queue!Take
<1> USE DEF IInv, TypeOK, ConsumerInv
<1>1. c.item \in Item /\ data[SlotOf(tail)] \in Item
  BY SlotInRange
<1>2. data[SlotOf(tail)] = c.item
  BY <1>1 DEF Item, ReadCommit
<1>3. tail < head
  BY DEF ReadCommit
<1>4. /\ Contents # <<>> /\ Head(Contents) = c.item
      /\ Contents' = Tail(Contents)
  BY <1>2, <1>3, SlotsFromTail DEF Contents, ReadCommit
<1> QED BY <1>4 DEF Queue!Take, ReadCommit

(***************************************************************************)
(* For every N, Word and Value, the ring with its stale counters and its   *)
(* word-by-word copies implements the atomic bounded queue: what try_read  *)
(* returns is what try_write accepted, whole, once and in order.           *)
(***************************************************************************)
THEOREM RingImplementsQueue == Spec => ImplementsQueue
<1>1. Init => Queue!Init
  <2> SUFFICES ASSUME Init PROVE Contents = <<>> /\ got = <<>>
    BY DEF Queue!Init
  <2> QED BY DEF Init, Contents, SlotsFrom
<1>2. IInv /\ IInv' /\ [Next]_vars => [Queue!Next]_(Queue!vars)
  <2> SUFFICES ASSUME IInv, IInv', [Next]_vars
               PROVE  Queue!Next \/ UNCHANGED <<Contents, got>>
    BY DEF Queue!vars
  <2>1. ASSUME NEW item \in Item, WriteBegin(item) PROVE UNCHANGED <<Contents, got>>
    BY <2>1, ContentsUnchanged DEF WriteBegin
  <2>2. ASSUME NEW w \in Word, WriteWord(w) PROVE UNCHANGED <<Contents, got>>
    <3>1. ASSUME NEW i \in 1..(head - tail)
          PROVE  data'[SlotOf(tail + i - 1)] = data[SlotOf(tail + i - 1)]
      <4>1. tail + i - 1 \in Nat /\ tail + i - 1 < p.h /\ p.h < tail + i - 1 + N
        BY <2>2, NAssumption DEF IInv, TypeOK, ProducerInv, WriteWord
      <4>2. p.h \in Nat
        BY DEF IInv, TypeOK
      <4>3. SlotOf(tail + i - 1) # SlotOf(p.h) /\ SlotOf(p.h) \in Slot
            /\ SlotOf(tail + i - 1) \in Slot
        BY <4>1, <4>2, SlotsDiffer, SlotInRange
      <4> QED BY <2>2, <4>3 DEF WriteWord, IInv, TypeOK
    <3> QED BY <2>2, <3>1, ContentsUnchanged DEF WriteWord
  <2>3. ASSUME WriteCommit PROVE Queue!Next
    <3>1. p.item \in Item
      BY DEF IInv, TypeOK
    <3> QED BY <2>3, <3>1, CommitAppends DEF Queue!Next
  <2>4. ASSUME ReadBegin PROVE UNCHANGED <<Contents, got>>
    BY <2>4, ContentsUnchanged DEF ReadBegin
  <2>5. ASSUME NEW w \in Word, ReadWord(w) PROVE UNCHANGED <<Contents, got>>
    BY <2>5, ContentsUnchanged DEF ReadWord
  <2>6. ASSUME ReadCommit PROVE Queue!Next
    BY <2>6, CommitTakes DEF Queue!Next
  <2>7. ASSUME ClearAll PROVE Queue!Next
    <3>1. Contents' = <<>>
      BY <2>7 DEF ClearAll, Contents, SlotsFrom
    <3> QED BY <2>7, <3>1 DEF ClearAll, Queue!Next, Queue!Clear
  <2>8. CASE UNCHANGED vars
    BY <2>8, ContentsUnchanged DEF vars
  <2> QED
    BY <2>1, <2>2, <2>3, <2>4, <2>5, <2>6, <2>7, <2>8 DEF Next, Produce, Consume
<1> QED
  BY <1>1, <1>2, Invariance, PTL DEF Spec, ImplementsQueue, Queue!Spec
=============================================================================
