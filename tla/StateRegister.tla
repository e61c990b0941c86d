--------------------------- MODULE StateRegister ---------------------------
(***************************************************************************)
(* What get_state() promises: a register per controller.  Each callback    *)
(* brings a newer picture of the robot, and the register shows it, unless  *)
(* somebody is just reading: "at 1 kHz a single missed update is invisible *)
(* to consumers".  A read returns what the register shows, whole.          *)
(* StateSnapshot, as RobotSession uses it, implements this specification.  *)
(***************************************************************************)
EXTENDS Naturals

CONSTANTS Controller, Thread, Word

VARIABLES now,    \* per controller: the newest picture the robot has sent
          shown,  \* per controller: the picture the register shows
          busy,   \* per controller: who is reading it
          got     \* per thread: what its read has returned, until it is used

vars == <<now, shown, busy, got>>

\* Picture n has all its parts from the same callback; 0 is before the first.
Picture(n) == [w \in Word |-> n]
Nothing == <<>>

Init == /\ now = [k \in Controller |-> 0]
        /\ shown = [k \in Controller |-> Picture(0)]
        /\ busy = [k \in Controller |-> {}]
        /\ got = [t \in Thread |-> Nothing]

\* A robot that does not move may send the same picture again.
Update(k) ==
  \E n \in {now[k], now[k] + 1} :
    /\ now' = [now EXCEPT ![k] = n]
    /\ \/ shown' = [shown EXCEPT ![k] = Picture(n)]
       \/ busy[k] # {} /\ UNCHANGED shown
    /\ UNCHANGED <<busy, got>>

Read(k, t) ==
  /\ busy[k] = {} /\ busy' = [busy EXCEPT ![k] = {t}]
  /\ UNCHANGED <<now, shown, got>>

Get(k, t) ==
  /\ busy[k] = {t} /\ busy' = [busy EXCEPT ![k] = {}]
  /\ got' = [got EXCEPT ![t] = shown[k]]
  /\ UNCHANGED <<now, shown>>

Use(t) ==
  /\ got' = [got EXCEPT ![t] = Nothing]
  /\ UNCHANGED <<now, shown, busy>>

Next == \/ \E k \in Controller : \/ Update(k)
                                 \/ \E t \in Thread : Read(k, t) \/ Get(k, t)
        \/ \E t \in Thread : Use(t)

Spec == Init /\ [][Next]_vars
=============================================================================
