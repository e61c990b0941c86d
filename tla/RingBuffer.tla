----------------------------- MODULE RingBuffer -----------------------------
(***************************************************************************)
(* RealTimeBuffer<T, N> (include/realtime_control/shared_memory.hpp): the  *)
(* lock-free single-producer single-consumer ring between the Python       *)
(* thread (try_write) and the RT thread (try_read).                        *)
(*                                                                         *)
(* An item is a struct that is copied word by word, without any lock, so   *)
(* each copy takes one step per word, in any order.  A relaxed load of the *)
(* counter a thread itself stores is exact.  An acquire load of the other  *)
(* thread's counter may return any value that counter has had since the    *)
(* last value the loader saw: that is what the C++ memory model grants.    *)
(***************************************************************************)
EXTENDS Naturals, Sequences, FiniteSets

CONSTANTS N,        \* capacity
          Word,     \* the words of an item
          Value,    \* what a word can hold
          MaxSeq    \* bound: head stays below 2^64 here, below MaxSeq in a run

ASSUME NAssumption == N \in Nat \ {0}
ASSUME PowerOfTwo == \E k \in 0..6 : N = 2^k     \* the second static_assert
ASSUME WordAssumption == Word # {} /\ MaxSeq \in Nat

VARIABLES data, head, tail,   \* the members of the struct
          p,                  \* the producer inside try_write
          c,                  \* the consumer inside try_read
          got                 \* the item of the last try_read that returned true

vars == <<data, head, tail, p, c, got>>

Item == [Word -> Value]
Slot == 0..(N - 1)

\* h & (N - 1) and t & (N - 1); N is a power of two.
SlotOf(counter) == counter % N

TypeOK ==
  /\ data \in [Slot -> Item]
  /\ head \in Nat /\ tail \in Nat /\ tail <= head /\ head <= tail + N
  /\ p \in [pc : {"idle", "copy"}, h : Nat, seen : Nat, item : Item, left : SUBSET Word]
  /\ c \in [pc : {"idle", "copy"}, t : Nat, seen : Nat, item : Item, left : SUBSET Word]
  /\ got \in Seq(Item)

Init ==
  /\ data \in [Slot -> Item]      \* std::array without an initialiser
  /\ head = 0 /\ tail = 0
  /\ \E any \in Item :
       /\ p = [pc |-> "idle", h |-> 0, seen |-> 0, item |-> any, left |-> {}]
       /\ c = [pc |-> "idle", t |-> 0, seen |-> 0, item |-> any, left |-> {}]
  /\ got = <<>>

-----------------------------------------------------------------------------
(* try_write *)

\* Bug (mutant): the fullness test is off by one.
WriteBeginAfterFull(item) ==
  /\ p.pc = "idle" /\ head < MaxSeq
  /\ \E t \in p.seen..tail :
       p' = IF head - t > N
            THEN [p EXCEPT !.seen = t]
            ELSE [pc |-> "copy", h |-> head, seen |-> t, item |-> item, left |-> Word]
  /\ UNCHANGED <<data, head, tail, c, got>>

\* Both loads and the fullness test; a full buffer returns false at once.
WriteBegin(item) ==
  /\ p.pc = "idle" /\ head < MaxSeq
  /\ \E t \in p.seen..tail :
       p' = IF head - t >= N
            THEN [p EXCEPT !.seen = t]
            ELSE [pc |-> "copy", h |-> head, seen |-> t, item |-> item, left |-> Word]
  /\ UNCHANGED <<data, head, tail, c, got>>

WriteWord(w) ==
  /\ p.pc = "copy" /\ w \in p.left
  /\ data' = [data EXCEPT ![SlotOf(p.h)][w] = p.item[w]]
  /\ p' = [p EXCEPT !.left = @ \ {w}]
  /\ UNCHANGED <<head, tail, c, got>>

\* Bug (mutant): head is stored relaxed, so the consumer may see it before the
\* words it publishes.
WriteCommitRelaxed ==
  /\ p.pc = "copy"
  /\ head' = p.h + 1
  /\ p' = [p EXCEPT !.pc = IF p.left = {} THEN "idle" ELSE "copy"]
  /\ UNCHANGED <<data, tail, c, got>>

\* head.store(h + 1) and return true.
WriteCommit ==
  /\ p.pc = "copy" /\ p.left = {}
  /\ head' = p.h + 1
  /\ p' = [p EXCEPT !.pc = "idle"]
  /\ UNCHANGED <<data, tail, c, got>>

-----------------------------------------------------------------------------
(* try_read *)

\* Both loads and the emptiness test; an empty buffer returns false at once.
ReadBegin ==
  /\ c.pc = "idle"
  /\ \E h \in c.seen..head :
       c' = IF h <= tail
            THEN [c EXCEPT !.seen = h]
            ELSE [c EXCEPT !.pc = "copy", !.t = tail, !.seen = h, !.left = Word]
  /\ UNCHANGED <<data, head, tail, p, got>>

ReadWord(w) ==
  /\ c.pc = "copy" /\ w \in c.left
  /\ c' = [c EXCEPT !.item[w] = data[SlotOf(c.t)][w], !.left = @ \ {w}]
  /\ UNCHANGED <<data, head, tail, p, got>>

\* tail.store(t + 1) and return true with the copied item.
ReadCommit ==
  /\ c.pc = "copy" /\ c.left = {}
  /\ tail' = c.t + 1
  /\ c' = [c EXCEPT !.pc = "idle"]
  /\ got' = <<c.item>>
  /\ UNCHANGED <<data, head, p>>

-----------------------------------------------------------------------------
\* clear(): both counters are stored as 0.  start() is the only caller, before
\* it creates the RT thread and with no producer inside try_write; creating the
\* thread makes the two stores visible to it.
ClearAll ==
  /\ p.pc = "idle" /\ c.pc = "idle"
  /\ head' = 0 /\ tail' = 0
  /\ p' = [p EXCEPT !.seen = 0]
  /\ c' = [c EXCEPT !.seen = 0]
  /\ UNCHANGED <<data, got>>

Produce == \/ \E item \in Item : WriteBegin(item)
           \/ \E w \in Word : WriteWord(w)
           \/ WriteCommit

Consume == \/ ReadBegin
           \/ \E w \in Word : ReadWord(w)
           \/ ReadCommit

Next == Produce \/ Consume \/ ClearAll

Spec == Init /\ [][Next]_vars
-----------------------------------------------------------------------------
(* Properties *)

(***************************************************************************)
(* The two threads never copy into and out of the same slot at the same    *)
(* time: the plain (non-atomic) assignments data[h & (N-1)] = item and     *)
(* item = data[t & (N-1)] are free of data races although the threads work *)
(* from stale counters.                                                    *)
(***************************************************************************)
NoSlotRace ==
  ~ (p.pc = "copy" /\ c.pc = "copy" /\ SlotOf(p.h) = SlotOf(c.t))

\* The queue the ring stands for: the slots from tail up to head.
SlotsFrom(d, t, h) == [i \in 1..(h - t) |-> d[SlotOf(t + i - 1)]]
Contents == SlotsFrom(data, tail, head)

Queue == INSTANCE CommandQueue WITH Cap <- N, queue <- Contents, taken <- got

(***************************************************************************)
(* Every try_write and try_read takes effect as one step of a bounded FIFO *)
(* queue: nothing is lost, duplicated, reordered or torn between words.    *)
(***************************************************************************)
ImplementsQueue == Queue!Spec
=============================================================================
