-------------------------- MODULE OnlineTrajectory --------------------------
(***************************************************************************)
(* The arithmetic of the set-point generators, for one coordinate (a joint *)
(* position, a component of the end effector's translation, a rotation     *)
(* angle), in integers: a position unit is a fixed fraction of a radian or *)
(* a metre and the time unit is the nominal 1 ms cycle, so a velocity is   *)
(* in position units per ms.                                               *)
(***************************************************************************)
EXTENDS Integers

CONSTANTS Kp, Kd, Gain, \* OTG gains, as fractions Kp / Gain and Kd / Gain
          MaxVel, MaxAcc, MaxJerk,
          QuietVel, QuietAcc   \* below both, a stopping coordinate is at rest

ASSUME GainsAssumption ==
  /\ Kp \in Nat /\ Kd \in Nat /\ Gain \in Nat \ {0}
  /\ MaxVel \in Nat /\ MaxAcc \in Nat /\ MaxJerk \in Nat
  /\ QuietVel \in Nat \ {0} /\ QuietAcc \in Nat \ {0}

AbsVal(x) == IF x < 0 THEN -x ELSE x
ClampTo(x, lo, hi) == IF x < lo THEN lo ELSE IF x > hi THEN hi ELSE x   \* std::clamp
Quotient(x, n) == IF x < 0 THEN -((-x) \div n) ELSE x \div n    \* towards zero

-----------------------------------------------------------------------------
(* One cycle of the online trajectory generator (OTG), for one coordinate. *)
(* `err` is the distance to the target; a stop brakes with err = 0.        *)

\* Bug (mutant): the change is limited, what it adds up to is not.
NextAccUnbounded(err, dq, ddq, dt) ==
  ddq + ClampTo(Quotient(Kp * err - Kd * dq, Gain), -(MaxJerk * dt), MaxJerk * dt)

NextAcc(err, dq, ddq, dt) ==
  LET desired == ClampTo(Quotient(Kp * err - Kd * dq, Gain), -MaxAcc, MaxAcc)
  IN  ddq + ClampTo(desired - ddq, -(MaxJerk * dt), MaxJerk * dt)

NextVel(dq, ddq, dt) == ClampTo(dq + ddq * dt, -MaxVel, MaxVel)

IsQuietSwapped(dq, ddq) == AbsVal(dq) < QuietAcc /\ AbsVal(ddq) < QuietVel \* Bug (mutant)
IsQuiet(dq, ddq) == AbsVal(dq) < QuietVel /\ AbsVal(ddq) < QuietAcc

-----------------------------------------------------------------------------
(* The min-jerk segment: s(t / d) = 10 (t/d)^3 - 15 (t/d)^4 + 6 (t/d)^5    *)

MinJerkNumerator(t, d) == t * t * t * (10 * d * d - 15 * t * d + 6 * t * t)

Along(start, end, t, d) ==
  IF t >= d THEN end
            ELSE start + Quotient(MinJerkNumerator(t, d) * (end - start),
                             d * d * d * d * d)
=============================================================================
