----------------------------- MODULE JointLimits -----------------------------
(***************************************************************************)
(* The joint array and its limits: what the RT callback of                 *)
(* JointPositionControl does to a set point before it is sent.             *)
(***************************************************************************)
EXTENDS OnlineTrajectory

CONSTANTS Joint,        \* the seven joints
          QMin, QMax,   \* kFR3JointMin, kFR3JointMax: [Joint -> Int]
          VelStep       \* kFR3JointVelMax * kRtDt: what the clamp allows a cycle

ASSUME LimitsAssumption ==
  /\ QMin \in [Joint -> Int] /\ QMax \in [Joint -> Int]
  /\ \A j \in Joint : QMin[j] <= QMax[j]
  /\ VelStep \in [Joint -> Nat]

Pose == [Joint -> Int]
Zero == [j \in Joint |-> 0]

-----------------------------------------------------------------------------
(* ClampJointPosition: at most VelStep from the last pose, then the limits *)

RateClamped(j, q, last) == ClampTo(q, last - VelStep[j], last + VelStep[j])

ClampJointRateOnly(j, q, last) == RateClamped(j, q, last)           \* Bug (mutant)
ClampJointLimitsOnly(j, q, last) == ClampTo(q, QMin[j], QMax[j])    \* Bug (mutant)
ClampJoint(j, q, last) == ClampTo(RateClamped(j, q, last), QMin[j], QMax[j])

ClampJointPosition(q, last) == [j \in Joint |-> ClampJoint(j, q[j], last[j])]

\* Its result: whether any joint was out of reach or out of its limits.
IsClamped(q, last) ==
  \E j \in Joint : \/ AbsVal(q[j] - last[j]) > VelStep[j]
                   \/ RateClamped(j, q[j], last[j]) \notin QMin[j]..QMax[j]

\* The user's move target is clamped to the limits only.
ClampToLimits(q) == [j \in Joint |-> ClampTo(q[j], QMin[j], QMax[j])]

SegmentPose(start, end, t, d) == [j \in Joint |-> Along(start[j], end[j], t, d)]
=============================================================================
