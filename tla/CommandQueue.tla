---------------------------- MODULE CommandQueue ----------------------------
(***************************************************************************)
(* What the SPSC ring buffer between the Python thread and the 1 kHz       *)
(* thread promises its two users: a bounded first-in first-out queue whose *)
(* operations are atomic.  A put that is refused and a read that finds     *)
(* nothing change no state.  RingBuffer implements this specification;     *)
(* JointPositionControl uses it as the command path.                       *)
(***************************************************************************)
EXTENDS Naturals, Sequences

CONSTANTS Item,   \* what can be queued
          Cap     \* template parameter N of RealTimeBuffer

VARIABLES queue,  \* accepted and not yet read, oldest first
          taken   \* the out-parameter of the last successful try_read, in a
                  \* sequence of at most one item: none before the first read

vars == <<queue, taken>>

TypeOK == /\ queue \in Seq(Item)
          /\ Len(queue) <= Cap
          /\ taken \in Seq(Item)

Init == queue = <<>> /\ taken = <<>>

Put(item) == /\ Len(queue) < Cap
             /\ queue' = Append(queue, item)
             /\ UNCHANGED taken

Take == /\ queue # <<>>
        /\ taken' = <<Head(queue)>>
        /\ queue' = Tail(queue)

Clear == queue' = <<>> /\ UNCHANGED taken

Next == (\E item \in Item : Put(item)) \/ Take \/ Clear

Spec == Init /\ [][Next]_vars
=============================================================================
