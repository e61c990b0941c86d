-------------------------- MODULE JointMotionProofs --------------------------
(***************************************************************************)
(* What the clamp guarantees for every joint count, limit, gain and input, *)
(* and that every pose sent to the robot obeys it.                         *)
(***************************************************************************)
EXTENDS JointMotion, OnlineTrajectoryProofs

-----------------------------------------------------------------------------
(* Lemmas about the clamp *)

\* ClampJointPosition ends in the limits of the joint, wherever it starts.
LEMMA ClampInLimits ==
  ASSUME NEW j \in Joint, NEW q \in Int, NEW last \in Int
  PROVE  ClampJoint(j, q, last) \in QMin[j]..QMax[j]
  BY LimitsAssumption DEF ClampJoint, RateClamped, ClampTo

\* From a pose in the limits it moves a joint by at most VelStep: the hard limit
\* that is applied after the velocity cap does not undo the cap.
LEMMA ClampWithinStep ==
  ASSUME NEW j \in Joint, NEW q \in Int, NEW last \in QMin[j]..QMax[j]
  PROVE  AbsVal(ClampJoint(j, q, last) - last) <= VelStep[j]
  BY LimitsAssumption DEF ClampJoint, RateClamped, ClampTo, AbsVal

LEMMA ClampFixpoint ==
  ASSUME NEW j \in Joint, NEW q \in QMin[j]..QMax[j]
  PROVE  ClampJoint(j, q, q) = q
  BY LimitsAssumption DEF ClampJoint, RateClamped, ClampTo

\* A pose the clamp lets pass is in the limits and within the cap.
LEMMA UnclampedIsSafe ==
  ASSUME NEW q \in Pose, NEW last \in Pose, ~IsClamped(q, last), NEW j \in Joint
  PROVE  q[j] \in QMin[j]..QMax[j] /\ AbsVal(q[j] - last[j]) <= VelStep[j]
<1>1. q[j] \in Int /\ last[j] \in Int /\ VelStep[j] \in Nat
  BY LimitsAssumption DEF Pose
<1>2. ~ (AbsVal(q[j] - last[j]) > VelStep[j])
      /\ RateClamped(j, q[j], last[j]) \in QMin[j]..QMax[j]
  BY DEF IsClamped
<1>3. AbsVal(q[j] - last[j]) <= VelStep[j]
  BY <1>1, <1>2 DEF AbsVal
<1>4. RateClamped(j, q[j], last[j]) = q[j]
  BY <1>1, <1>3 DEF RateClamped, ClampTo, AbsVal
<1> QED BY <1>2, <1>3, <1>4

\* Where the clamp changes a joint it leaves it at a limit or at the cap.
LEMMA ClampIsAtLimit ==
  ASSUME NEW j \in Joint, NEW q \in Int, NEW last \in QMin[j]..QMax[j]
  PROVE  LET c == ClampJoint(j, q, last)
         IN  c = q \/ AbsVal(c - last) = VelStep[j] \/ c \in {QMin[j], QMax[j]}
  BY LimitsAssumption DEF ClampJoint, RateClamped, ClampTo, AbsVal

-----------------------------------------------------------------------------
(* The invariant *)

InLimits(q) == \A j \in Joint : q[j] \in QMin[j]..QMax[j]
WithinStep(q, last) == \A j \in Joint : AbsVal(q[j] - last[j]) <= VelStep[j]

\* The count of quiet cycles is below its end while the motion goes on, and a
\* positive count means the OTG is at rest.
HoldInv ==
  /\ Active => hold < HoldCycles
  /\ Stopping => rt_state = "STREAMING"
  /\ hold >= 1 => stream_dq = Zero /\ stream_ddq = Zero

\* The generator is within its limits, and where a stream or a move left it.
GeneratorInv ==
  /\ InLimits(stream_q)
  /\ \A j \in Joint : stream_dq[j] \in -MaxVel..MaxVel /\ stream_ddq[j] \in -MaxAcc..MaxAcc

\* The peak of the segment's velocity is within the budget.
WithinBudget(seg) ==
  \A j \in Joint : 8 * VelBudget * seg.duration >= 15 * AbsVal(seg.q_end[j] - seg.q_start[j])

OnSegment(seg) ==
  last_sent_q = SegmentPose(seg.q_start, seg.q_end, seg.t, seg.duration)

\* A segment runs between poses in the limits, and a computed duration is enough.
GoodSegment(seg) ==
  /\ seg.t < seg.duration
  /\ InLimits(seg.q_start) /\ InLimits(seg.q_end)
  /\ seg.auto => WithinBudget(seg)

\* While a segment is under way the pose sent last is on it.
MoveInv == rt_state = "MOVING" => GoodSegment(move_state) /\ OnSegment(move_state)

AutoInv == RoomForLateCallbacks => AutoMoveIsSafe

IInv == /\ TypeOK /\ PoseInLimits /\ OtgInSync /\ HoldInv
        /\ GeneratorInv /\ MoveInv /\ AutoInv

LEMMA ClampedPose ==
  ASSUME NEW cmd \in Pose, NEW last \in Pose, InLimits(last)
  PROVE  /\ ClampJointPosition(cmd, last) \in Pose
         /\ InLimits(ClampJointPosition(cmd, last))
         /\ WithinStep(ClampJointPosition(cmd, last), last)
<1>1. ASSUME NEW j \in Joint
      PROVE  /\ ClampJoint(j, cmd[j], last[j]) \in QMin[j]..QMax[j]
             /\ AbsVal(ClampJoint(j, cmd[j], last[j]) - last[j]) <= VelStep[j]
  BY ClampInLimits, ClampWithinStep DEF Pose, InLimits
<1>2. ASSUME NEW j \in Joint PROVE ClampJoint(j, cmd[j], last[j]) \in Int
  BY <1>1, LimitsAssumption
<1> QED BY <1>1, <1>2 DEF ClampJointPosition, Pose, InLimits, WithinStep

LEMMA UnclampedPose ==
  ASSUME NEW cmd \in Pose, NEW last \in Pose, ~IsClamped(cmd, last)
  PROVE  InLimits(cmd) /\ WithinStep(cmd, last)
  BY UnclampedIsSafe DEF InLimits, WithinStep

LEMMA SamePose ==
  ASSUME NEW q \in Pose
  PROVE  WithinStep(q, q)
<1>1. ASSUME NEW j \in Joint PROVE AbsVal(q[j] - q[j]) = 0 /\ 0 <= VelStep[j]
  BY LimitsAssumption DEF Pose, AbsVal
<1> QED BY <1>1 DEF WithinStep

LEMMA ZeroType == Zero \in Pose
  BY DEF Zero, Pose

\* Sending through the clamp: in the limits, within the cap, the OTG in place.
LEMMA SendClampedSafe ==
  ASSUME NEW cmd \in Pose, IInv, SendClamped(cmd)
  PROVE  /\ last_sent_q' \in Pose /\ stream_q' = last_sent_q'
         /\ InLimits(last_sent_q') /\ WithinStep(last_sent_q', last_sent_q)
         /\ stream_dq' = Zero /\ stream_ddq' = Zero
<1>1. last_sent_q \in Pose /\ InLimits(last_sent_q)
  BY DEF IInv, TypeOK, PoseInLimits, InLimits
<1> QED BY <1>1, ClampedPose DEF SendClamped

LEMMA InitInv == Init => IInv
<1> SUFFICES ASSUME Init PROVE IInv
  OBVIOUS
<1>1. last_sent_q \in Pose /\ InLimits(last_sent_q)
  BY InputsAssumption DEF Init, InLimits
<1>2. TypeOK
  BY <1>1, ZeroType, InputsAssumption DEF Init, TypeOK, Segment, Outcome
<1>3. PoseInLimits /\ OtgInSync /\ HoldInv
  BY <1>1, InputsAssumption
     DEF Init, PoseInLimits, InLimits, OtgInSync, HoldInv, Active, Stopping
<1>4. GeneratorInv /\ MoveInv /\ AutoInv
  BY <1>1, GainsAssumption DEF Init, GeneratorInv, MoveInv, AutoInv, AutoMoveIsSafe, Zero
<1> QED BY <1>2, <1>3, <1>4 DEF IInv

\* What one callback guarantees.
Safe == IInv' /\ WithinStep(last_sent_q', last_sent_q)

\* What one callback of the generator guarantees.
Paced(dt) ==
  \A j \in Joint :
    LET moved == last_sent_q'[j] - last_sent_q[j]
        slack == IF hold' >= 0 /\ moved = 0 THEN QuietVel ELSE 0
    IN  \/ AbsVal(moved - stream_dq[j] * dt) <= (MaxAcc * dt + slack) * dt
        \/ AbsVal(moved) = VelStep[j] \/ last_sent_q'[j] \in {QMin[j], QMax[j]}

LEMMA StreamSafe ==
  ASSUME IInv, NEW dt \in Period, Stream(dt)
  PROVE  Safe /\ Paced(dt)
<1> DEFINE ddq == [j \in Joint |-> NextAcc(stream_target_q'[j] - stream_q[j],
                                          stream_dq[j], stream_ddq[j], dt)]
           dq  == [j \in Joint |-> NextVel(stream_dq[j], ddq[j], dt)]
           q   == [j \in Joint |-> stream_q[j] + dq[j] * dt]
<1>1. dt \in Nat
  BY InputsAssumption
<1>2. stream_target_q' \in Pose
  BY InputsAssumption DEF Stream, Retarget, IInv, TypeOK
<1>3. stream_q \in Pose /\ stream_dq \in Pose /\ stream_ddq \in Pose
      /\ last_sent_q \in Pose
  BY DEF IInv, TypeOK
<1>4. ddq \in Pose
  BY <1>1, <1>2, <1>3, NextAccType DEF Pose
<1>5. \A j \in Joint : ddq[j] \in -MaxAcc..MaxAcc
  <2> SUFFICES ASSUME NEW j \in Joint PROVE ddq[j] \in -MaxAcc..MaxAcc
    OBVIOUS
  <2>1. stream_target_q'[j] - stream_q[j] \in Int /\ stream_dq[j] \in Int
    BY <1>2, <1>3 DEF Pose
  <2>2. stream_ddq[j] \in -MaxAcc..MaxAcc
    BY DEF IInv, GeneratorInv
  <2> QED BY <1>1, <2>1, <2>2, NextAccBounded
<1> HIDE DEF ddq
<1>6. dq \in Pose
  BY <1>1, <1>3, <1>4, NextVelType DEF Pose
<1>7. \A j \in Joint : /\ dq[j] \in -MaxVel..MaxVel
                        /\ AbsVal(dq[j] - stream_dq[j]) <= MaxAcc * dt
  BY <1>1, <1>3, <1>4, <1>5, NextVelBounded, NextVelStep DEF Pose, IInv, GeneratorInv
<1> HIDE DEF dq
<1>8. q \in Pose
  BY <1>1, <1>3, <1>6 DEF Pose
<1>9. stream_q = last_sent_q /\ InLimits(last_sent_q)
  BY DEF Stream, IInv, OtgInSync, PoseInLimits, InLimits
<1>10. \A j \in Joint : q[j] = last_sent_q[j] + dq[j] * dt
  BY <1>9
<1> HIDE DEF q
<1>11. /\ Active /\ ~Stopping /\ rt_state = "STREAMING"
      /\ UNCHANGED <<rt_state, move_state, hold>>
  BY DEF Stream
<1>12. \/ /\ ~IsClamped(q, last_sent_q)
         /\ last_sent_q' = q /\ stream_q' = q
         /\ stream_dq' = dq /\ stream_ddq' = ddq
         /\ outcome' = "streamed"
      \/ /\ SendClamped(q)
         /\ outcome' = "stream_clamped"
  BY DEF Stream, OtgStep, ddq, dq, q
<1>13. /\ last_sent_q' \in Pose /\ stream_q' = last_sent_q'
      /\ stream_dq' \in Pose /\ stream_ddq' \in Pose
      /\ InLimits(last_sent_q') /\ WithinStep(last_sent_q', last_sent_q)
      /\ outcome' \in {"streamed", "stream_clamped"}
  BY <1>3, <1>4, <1>6, <1>8, <1>12, UnclampedPose, SendClampedSafe, ZeroType
<1>14. TypeOK'
  BY <1>2, <1>11, <1>13 DEF IInv, TypeOK, Outcome
<1>15. PoseInLimits' /\ OtgInSync'
  BY <1>13 DEF PoseInLimits, InLimits, OtgInSync
<1>16. HoldInv'
  BY <1>11, <1>13 DEF IInv, TypeOK, HoldInv, Active, Stopping
<1>17. GeneratorInv' /\ MoveInv' /\ AutoInv'
  <2>1. GeneratorInv'
    BY <1>5, <1>7, <1>12, <1>13, GainsAssumption
       DEF GeneratorInv, InLimits, SendClamped, Zero
  <2> QED BY <1>11, <1>13, <2>1 DEF MoveInv, AutoInv, AutoMoveIsSafe
<1>18. Paced(dt)
  <2> SUFFICES ASSUME NEW j \in Joint
               PROVE  LET moved == last_sent_q'[j] - last_sent_q[j]
                          slack == IF hold' >= 0 /\ moved = 0 THEN QuietVel ELSE 0
                      IN  \/ AbsVal(moved - stream_dq[j] * dt) <= (MaxAcc * dt + slack) * dt
                          \/ AbsVal(moved) = VelStep[j]
                          \/ last_sent_q'[j] \in {QMin[j], QMax[j]}
    BY DEF Paced
  <2>1. \/ last_sent_q'[j] = q[j]
        \/ AbsVal(last_sent_q'[j] - last_sent_q[j]) = VelStep[j]
        \/ last_sent_q'[j] \in {QMin[j], QMax[j]}
    <3>1. q[j] \in Int /\ last_sent_q[j] \in QMin[j]..QMax[j]
      BY <1>8, <1>9 DEF Pose, InLimits
    <3>2. CASE last_sent_q' = q
      BY <3>2
    <3>3. CASE SendClamped(q)
      <4>1. last_sent_q'[j] = ClampJoint(j, q[j], last_sent_q[j])
        BY <3>3 DEF SendClamped, ClampJointPosition
      <4> QED BY <3>1, <4>1, ClampIsAtLimit
    <3> QED BY <1>12, <3>2, <3>3
  <2>2. ASSUME last_sent_q'[j] = q[j], NEW slack \in Nat
        PROVE  AbsVal(last_sent_q'[j] - last_sent_q[j] - stream_dq[j] * dt)
                 <= (MaxAcc * dt + slack) * dt
    <3>1. last_sent_q'[j] = last_sent_q[j] + dq[j] * dt
      BY <1>10, <2>2
    <3>2. last_sent_q[j] \in Int /\ stream_dq[j] \in Int /\ dq[j] \in Int
      BY <1>3, <1>6 DEF Pose
    <3>3. AbsVal(dq[j] - stream_dq[j]) <= MaxAcc * dt + slack
      <4>1. AbsVal(dq[j] - stream_dq[j]) \in Int /\ MaxAcc * dt \in Int
        BY <1>1, <3>2, GainsAssumption DEF AbsVal
      <4> QED BY <1>7, <4>1
    <3> QED BY <1>1, <3>1, <3>2, <3>3, PacedStep
  <2>3. QuietVel \in Nat /\ 0 \in Nat
    BY GainsAssumption
  <2> QED BY <2>1, <2>2, <2>3
<1> QED BY <1>13, <1>14, <1>15, <1>16, <1>17, <1>18 DEF Safe, IInv

\* A pose of a good segment is in the limits.
LEMMA SegmentInLimits ==
  ASSUME NEW seg \in Segment, InLimits(seg.q_start), InLimits(seg.q_end), NEW t \in Nat
  PROVE  InLimits(SegmentPose(seg.q_start, seg.q_end, t, seg.duration))
<1> SUFFICES ASSUME NEW j \in Joint
             PROVE  Along(seg.q_start[j], seg.q_end[j], t, seg.duration) \in QMin[j]..QMax[j]
  BY DEF InLimits, SegmentPose
<1>1. /\ seg.q_start[j] \in QMin[j]..QMax[j] /\ seg.q_end[j] \in QMin[j]..QMax[j]
      /\ seg.duration \in Nat \ {0}
  BY DEF InLimits, Segment
<1>2. QMin[j] \in Int /\ QMax[j] \in Int
  BY LimitsAssumption
<1>3. seg.q_start[j] \in Int /\ seg.q_end[j] \in Int
  BY <1>1, <1>2
<1>4. Along(seg.q_start[j], seg.q_end[j], t, seg.duration) \in Int
  BY <1>1, <1>3, AlongType
<1> QED BY <1>1, <1>2, <1>3, <1>4, AlongBetween

\* The next pose of a segment within the budget passes the clamp.
LEMMA BudgetPassesClamp ==
  ASSUME RoomForLateCallbacks, NEW seg \in Segment, GoodSegment(seg), WithinBudget(seg),
         OnSegment(seg), NEW dt \in Period
  PROVE  ~IsClamped(SegmentPose(seg.q_start, seg.q_end, seg.t + dt, seg.duration), last_sent_q)
<1> DEFINE cmd == SegmentPose(seg.q_start, seg.q_end, seg.t + dt, seg.duration)
<1>1. dt \in Nat /\ seg.t \in Nat /\ seg.duration \in Nat \ {0} /\ seg.t < seg.duration
      /\ seg.q_start \in Pose /\ seg.q_end \in Pose
  BY InputsAssumption DEF Segment, GoodSegment
<1>2. InLimits(cmd)
  BY <1>1, SegmentInLimits DEF GoodSegment
<1> SUFFICES ASSUME NEW j \in Joint
             PROVE  /\ ~ (AbsVal(cmd[j] - last_sent_q[j]) > VelStep[j])
                    /\ RateClamped(j, cmd[j], last_sent_q[j]) \in QMin[j]..QMax[j]
  BY DEF IsClamped
<1>3. seg.q_start[j] \in Int /\ seg.q_end[j] \in Int
  BY <1>1 DEF Pose
<1>4. /\ cmd[j] = Along(seg.q_start[j], seg.q_end[j], seg.t + dt, seg.duration)
      /\ last_sent_q[j] = Along(seg.q_start[j], seg.q_end[j], seg.t, seg.duration)
  BY DEF OnSegment, SegmentPose
<1>5. cmd[j] \in Int /\ last_sent_q[j] \in Int
  <2>1. seg.t + dt \in Nat
    BY <1>1
  <2> QED BY <1>1, <1>3, <1>4, <2>1, AlongType
<1>6. AbsVal(cmd[j] - last_sent_q[j]) <= VelBudget * dt
  <2>1. 8 * VelBudget * seg.duration >= 15 * AbsVal(seg.q_end[j] - seg.q_start[j])
    BY DEF WithinBudget
  <2>2. seg.t \in 0..seg.duration /\ VelBudget \in Nat
    BY <1>1, InputsAssumption
  <2> QED BY <1>1, <1>3, <1>4, <2>1, <2>2, AlongStep
<1>7. VelBudget * dt <= VelStep[j] /\ VelBudget * dt \in Int /\ VelStep[j] \in Nat
  BY <1>1, InputsAssumption, LimitsAssumption DEF RoomForLateCallbacks
<1>8. AbsVal(cmd[j] - last_sent_q[j]) \in Int
  BY <1>5 DEF AbsVal
<1>9. AbsVal(cmd[j] - last_sent_q[j]) <= VelStep[j]
  BY <1>6, <1>7, <1>8
<1>10. cmd[j] \in QMin[j]..QMax[j]
  BY <1>2 DEF InLimits
<1> HIDE DEF cmd
<1>11. RateClamped(j, cmd[j], last_sent_q[j]) = cmd[j]
  BY <1>5, <1>7, <1>9 DEF RateClamped, ClampTo, AbsVal
<1> QED BY <1>7, <1>8, <1>9, <1>10, <1>11

LEMMA FollowSafe ==
  ASSUME IInv, Active, ~Stopping, UNCHANGED hold,
         NEW seg \in Segment, NEW dt \in Period, Follow(seg, dt),
         GoodSegment(seg), ~seg.replaced => OnSegment(seg)
  PROVE  Safe
<1> DEFINE t == seg.t + dt
           cmd == SegmentPose(seg.q_start, seg.q_end, t, seg.duration)
<1>1. dt \in Nat /\ t \in Nat
  BY InputsAssumption DEF Segment
<1>2. seg.q_start \in Pose /\ seg.q_end \in Pose /\ seg.duration \in Nat \ {0}
  BY DEF Segment
<1>3. move_state' = [seg EXCEPT !.t = t]
  BY DEF Follow
<1>4. move_state' \in Segment
  BY <1>1, <1>3 DEF Segment
<1> HIDE DEF t
<1>5. cmd \in Pose
  BY <1>1, <1>2, AlongType DEF SegmentPose, Pose
<1>6. \/ /\ ~IsClamped(cmd, last_sent_q)
         /\ rt_state' = "MOVING" /\ outcome' = "moved"
         /\ last_sent_q' = cmd
         /\ UNCHANGED otg
      \/ /\ rt_state' = "STREAMING" /\ outcome' = "move_clamped"
         /\ SendClamped(cmd)
         /\ stream_target_q' = last_sent_q'
      \/ /\ rt_state' = "STREAMING"
         /\ outcome' \in {"move_clamped", "completed"}
         /\ SendClamped(seg.q_end)
         /\ stream_target_q' = seg.q_end
  BY DEF Follow, t
<1> HIDE DEF cmd
<1>7. last_sent_q \in Pose
  BY DEF IInv, TypeOK
<1>8. /\ last_sent_q' \in Pose
      /\ InLimits(last_sent_q') /\ WithinStep(last_sent_q', last_sent_q)
  BY <1>2, <1>5, <1>6, <1>7, UnclampedPose, SendClampedSafe
<1>9. /\ stream_q' \in Pose /\ stream_dq' \in Pose /\ stream_ddq' \in Pose
      /\ stream_target_q' \in Pose
      /\ rt_state' \in {"STREAMING", "MOVING"}
      /\ outcome' \in {"moved", "move_clamped", "completed"}
      /\ rt_state' = "STREAMING" => stream_q' = last_sent_q'
  BY <1>2, <1>5, <1>6, <1>8, SendClampedSafe, ZeroType DEF IInv, TypeOK, otg
<1>10. TypeOK'
  BY <1>4, <1>8, <1>9 DEF IInv, TypeOK, Outcome
<1>11. PoseInLimits' /\ OtgInSync'
  BY <1>8, <1>9 DEF PoseInLimits, InLimits, OtgInSync
<1>12. HoldInv'
  BY <1>9 DEF IInv, TypeOK, HoldInv, Active, Stopping
<1>13. GeneratorInv'
  <2>1. CASE UNCHANGED otg
    BY <2>1 DEF IInv, GeneratorInv, otg
  <2>2. CASE stream_q' = last_sent_q' /\ stream_dq' = Zero /\ stream_ddq' = Zero
    BY <1>8, <2>2, GainsAssumption DEF GeneratorInv, InLimits, Zero
  <2> QED BY <1>6, <2>1, <2>2 DEF SendClamped
<1>14. MoveInv'
  <2>1. SUFFICES ASSUME rt_state' = "MOVING"
                 PROVE  GoodSegment(move_state') /\ (OnSegment(move_state))'
    BY DEF MoveInv, GoodSegment, InLimits, WithinBudget
  <2>2. t < seg.duration /\ last_sent_q' = cmd
    BY <2>1 DEF Follow, t, cmd
  <2>3. /\ move_state'.q_start = seg.q_start /\ move_state'.q_end = seg.q_end
        /\ move_state'.duration = seg.duration /\ move_state'.auto = seg.auto
        /\ move_state'.t = t
    BY <1>3 DEF Segment
  <2> QED BY <2>2, <2>3 DEF GoodSegment, WithinBudget, OnSegment, cmd
<1>15. AutoInv'
  <2> SUFFICES ASSUME RoomForLateCallbacks, outcome' = "move_clamped",
                      move_state'.auto, ~move_state'.replaced
               PROVE  FALSE
    BY DEF AutoInv, AutoMoveIsSafe, RoomForLateCallbacks
  <2>1. seg.auto /\ ~seg.replaced
    BY <1>3 DEF Segment
  <2>2. ~IsClamped(cmd, last_sent_q)
    BY <2>1, BudgetPassesClamp DEF GoodSegment, cmd, t
  <2> QED BY <2>2 DEF Follow, cmd, t
<1> QED BY <1>8, <1>10, <1>11, <1>12, <1>13, <1>14, <1>15 DEF Safe, IInv

LEMMA BeginMoveSafe ==
  ASSUME IInv, NEW dt \in Period, BeginMove(dt)
  PROVE  Safe
<1>1. PICK target \in Target, duration \in Duration, d \in 1..MaxDuration :
        /\ IsDuration(d, duration, ClampToLimits(target))
        /\ Follow(NewSegment(ClampToLimits(target), d, duration), dt)
  BY DEF BeginMove
<1> DEFINE seg == NewSegment(ClampToLimits(target), d, duration)
<1>2. ClampToLimits(target) \in Pose
  BY LimitsAssumption, InputsAssumption DEF ClampToLimits, ClampTo, Pose
<1>3. d \in Nat \ {0}
  BY InputsAssumption
<1>4. NewSegment(ClampToLimits(target), d, duration) \in Segment
  BY <1>2, <1>3 DEF NewSegment, Segment, IInv, TypeOK
<1>5. Active /\ ~Stopping /\ UNCHANGED hold
  BY DEF BeginMove
<1>6. InLimits(ClampToLimits(target)) /\ InLimits(stream_q)
  <2>1. ASSUME NEW j \in Joint
        PROVE  ClampTo(target[j], QMin[j], QMax[j]) \in QMin[j]..QMax[j]
    BY ClampToBounds, LimitsAssumption, InputsAssumption DEF Pose
  <2> QED BY <2>1 DEF InLimits, ClampToLimits, IInv, GeneratorInv
<1>7. GoodSegment(seg)
  <2>1. seg.auto => WithinBudget(seg)
    BY <1>1 DEF NewSegment, WithinBudget, IsDuration, IsAutoDuration
  <2> QED BY <1>3, <1>6, <2>1 DEF NewSegment, GoodSegment
<1>8. ~seg.replaced => OnSegment(seg)
  <2> SUFFICES ASSUME rt_state = "STREAMING" PROVE OnSegment(seg)
    BY DEF NewSegment, IInv, TypeOK
  <2>1. stream_q = last_sent_q /\ stream_q \in Pose
    BY DEF IInv, TypeOK, OtgInSync
  <2>2. \A j \in Joint : Along(stream_q[j], ClampToLimits(target)[j], 0, d) = stream_q[j]
    BY <1>2, <1>3, <2>1, AlongStart DEF Pose
  <2> QED BY <2>1, <2>2 DEF OnSegment, SegmentPose, NewSegment, Pose
<1> QED BY <1>1, <1>4, <1>5, <1>7, <1>8, FollowSafe

LEMMA GracefulStopSafe ==
  ASSUME IInv, NEW dt \in Period, GracefulStop(dt)
  PROVE  /\ Safe /\ (hold >= 1 => hold' >= hold /\ last_sent_q' = last_sent_q)
         /\ rt_state = "STREAMING" => Paced(dt)
<1> DEFINE moving == ~Stopping /\ rt_state = "MOVING"
           q0   == IF moving THEN last_sent_q ELSE stream_q
           dq0  == IF moving THEN Zero ELSE stream_dq
           ddq0 == IF moving THEN Zero ELSE stream_ddq
           ddq  == [j \in Joint |-> NextAcc(0, dq0[j], ddq0[j], dt)]
           dq   == [j \in Joint |-> NextVel(dq0[j], ddq[j], dt)]
           still == {j \in Joint : IsQuiet(dq[j], ddq[j])}
           n    == IF Stopping THEN hold ELSE 0
           sum  == [j \in Joint |-> q0[j] + stream_dq'[j] * dt]
<1>1. dt \in Nat
  BY InputsAssumption
<1>2. stream_q \in Pose /\ stream_dq \in Pose /\ stream_ddq \in Pose
      /\ last_sent_q \in Pose /\ InLimits(last_sent_q) /\ stream_target_q \in Pose
  BY DEF IInv, TypeOK, PoseInLimits, InLimits
<1>3. q0 \in Pose /\ dq0 \in Pose /\ ddq0 \in Pose
  BY <1>2, ZeroType
<1>4. /\ Active
      /\ stream_ddq' = [j \in Joint |-> Settled(j \in still, ddq[j])]
      /\ stream_dq'  = [j \in Joint |-> Settled(j \in still, dq[j])]
      /\ last_sent_q' = ClampJointPosition(sum, last_sent_q)
      /\ stream_q' = last_sent_q'
      /\ stream_target_q' = IF Stopping THEN stream_target_q ELSE q0
      /\ rt_state' = "STREAMING"
      /\ hold' = IF still = Joint THEN n + 1 ELSE 0
      /\ outcome' = IF HeldEnough(hold') THEN "finished" ELSE "stopping"
      /\ UNCHANGED move_state
  BY DEF GracefulStop
<1>5. hold >= 1 => Stopping /\ q0 = last_sent_q /\ dq0 = Zero /\ ddq0 = Zero
  BY DEF IInv, TypeOK, HoldInv, OtgInSync, Stopping
<1>6. n \in 0..(HoldCycles - 1) /\ (hold >= 1 => n = hold)
  BY <1>4, InputsAssumption DEF IInv, TypeOK, HoldInv, Stopping
<1>7. \A j \in Joint : dq0[j] \in -MaxVel..MaxVel /\ ddq0[j] \in -MaxAcc..MaxAcc
  BY GainsAssumption DEF IInv, GeneratorInv, Zero
<1>8. q0 = last_sent_q /\ (rt_state = "STREAMING" => dq0 = stream_dq)
  BY DEF IInv, TypeOK, OtgInSync, HoldInv
<1> HIDE DEF moving, q0, dq0, ddq0, n
<1>9. ddq \in Pose
  BY <1>1, <1>3, NextAccType DEF Pose
<1>10. \A j \in Joint : ddq[j] \in -MaxAcc..MaxAcc
  <2> SUFFICES ASSUME NEW j \in Joint PROVE ddq[j] \in -MaxAcc..MaxAcc
    OBVIOUS
  <2>1. dq0[j] \in Int /\ ddq0[j] \in -MaxAcc..MaxAcc
    BY <1>3, <1>7 DEF Pose
  <2>2. ddq[j] = NextAcc(0, dq0[j], ddq0[j], dt) /\ 0 \in Int
    OBVIOUS
  <2> HIDE DEF ddq
  <2> QED BY <1>1, <2>1, <2>2, NextAccBounded
<1>11. hold >= 1 => \A j \in Joint : ddq[j] = 0
  BY <1>1, <1>5, RestIsQuiet DEF Zero
<1> HIDE DEF ddq
<1>12. dq \in Pose
  BY <1>1, <1>3, <1>9, NextVelType DEF Pose
<1>13. \A j \in Joint : dq[j] \in -MaxVel..MaxVel /\ AbsVal(dq[j] - dq0[j]) <= MaxAcc * dt
  BY <1>1, <1>3, <1>7, <1>9, <1>10, NextVelBounded, NextVelStep DEF Pose
<1>14. hold >= 1 => \A j \in Joint : dq[j] = 0
  BY <1>1, <1>5, <1>11, RestIsQuiet DEF Zero
<1> HIDE DEF dq
<1>15. hold >= 1 => still = Joint
  BY <1>1, <1>11, <1>14, RestIsQuiet
<1>16. stream_dq' \in Pose /\ stream_ddq' \in Pose
  BY <1>4, <1>9, <1>12 DEF Pose, Settled
<1>17. still = Joint => stream_dq' = Zero /\ stream_ddq' = Zero
  BY <1>4 DEF Settled, Zero
<1>18. \A j \in Joint : \/ j \in still /\ AbsVal(dq[j]) < QuietVel /\ stream_dq'[j] = 0
                                      /\ stream_ddq'[j] = 0
                        \/ j \notin still /\ stream_dq'[j] = dq[j] /\ stream_ddq'[j] = ddq[j]
  BY <1>4 DEF IsQuiet, Settled
<1> HIDE DEF still
<1>19. sum \in Pose
  BY <1>1, <1>3, <1>16 DEF Pose
<1>20. /\ last_sent_q' \in Pose /\ InLimits(last_sent_q')
       /\ WithinStep(last_sent_q', last_sent_q)
  BY <1>2, <1>4, <1>19, ClampedPose
<1>21. ASSUME hold >= 1 PROVE last_sent_q' = last_sent_q
  <2>1. \A j \in Joint : sum[j] = last_sent_q[j]
    BY <1>1, <1>2, <1>5, <1>15, <1>17, <1>21 DEF Zero, Pose
  <2>2. \A j \in Joint : ClampJoint(j, sum[j], last_sent_q[j]) = last_sent_q[j]
    BY <1>2, <2>1, ClampFixpoint DEF InLimits
  <2> HIDE DEF sum
  <2> QED BY <1>2, <1>4, <2>2 DEF ClampJointPosition, Pose
<1>22. \A j \in Joint : sum[j] = last_sent_q[j] + stream_dq'[j] * dt
  BY <1>8
<1> HIDE DEF sum
<1>23. hold' \in 0..HoldCycles /\ (hold >= 1 => hold' >= hold)
       /\ (hold' >= 1 => still = Joint)
  BY <1>4, <1>6, <1>15, InputsAssumption
<1>24. TypeOK'
  BY <1>2, <1>3, <1>4, <1>16, <1>20, <1>23 DEF IInv, TypeOK, Outcome
<1>25. PoseInLimits' /\ OtgInSync'
  BY <1>4, <1>20 DEF PoseInLimits, InLimits, OtgInSync
<1>26. HoldInv'
  BY <1>4, <1>17, <1>23, InputsAssumption DEF HoldInv, Active, Stopping, HeldEnough
<1>27. GeneratorInv' /\ MoveInv' /\ AutoInv'
  <2>1. GeneratorInv'
    BY <1>4, <1>10, <1>13, <1>18, <1>20, GainsAssumption DEF GeneratorInv, InLimits
  <2>2. outcome' # "move_clamped"
    BY <1>4
  <2> QED BY <1>4, <2>1, <2>2 DEF MoveInv, AutoInv, AutoMoveIsSafe
<1>28. ASSUME rt_state = "STREAMING" PROVE Paced(dt)
  <2> SUFFICES ASSUME NEW j \in Joint
               PROVE  LET moved == last_sent_q'[j] - last_sent_q[j]
                          slack == IF hold' >= 0 /\ moved = 0 THEN QuietVel ELSE 0
                      IN  \/ AbsVal(moved - stream_dq[j] * dt) <= (MaxAcc * dt + slack) * dt
                          \/ AbsVal(moved) = VelStep[j]
                          \/ last_sent_q'[j] \in {QMin[j], QMax[j]}
    BY DEF Paced
  <2> DEFINE v == stream_dq'[j]
  <2>1. /\ last_sent_q[j] \in QMin[j]..QMax[j] /\ last_sent_q[j] \in Int
        /\ sum[j] \in Int /\ v \in Int /\ dq[j] \in Int /\ stream_dq[j] \in Int
    BY <1>2, <1>12, <1>16, <1>19 DEF Pose, InLimits
  <2>2. /\ last_sent_q'[j] = ClampJoint(j, sum[j], last_sent_q[j])
        /\ sum[j] = last_sent_q[j] + v * dt
    BY <1>4, <1>22 DEF ClampJointPosition
  <2>3. \/ last_sent_q'[j] = sum[j]
        \/ AbsVal(last_sent_q'[j] - last_sent_q[j]) = VelStep[j]
        \/ last_sent_q'[j] \in {QMin[j], QMax[j]}
    BY <2>1, <2>2, ClampIsAtLimit
  <2>4. AbsVal(dq[j] - stream_dq[j]) <= MaxAcc * dt
    BY <1>8, <1>13, <1>28
  <2>5. MaxAcc * dt \in Nat /\ QuietVel \in Nat /\ hold' >= 0
    BY <1>1, <1>23, GainsAssumption
  <2> HIDE DEF v
  <2>6. CASE last_sent_q'[j] = sum[j] /\ v = dq[j]
    <3>1. ASSUME NEW slack \in Nat
          PROVE  AbsVal(last_sent_q'[j] - last_sent_q[j] - stream_dq[j] * dt)
                   <= (MaxAcc * dt + slack) * dt
      <4>1. AbsVal(v - stream_dq[j]) <= MaxAcc * dt + slack
        BY <2>1, <2>4, <2>5, <2>6 DEF AbsVal
      <4> QED BY <1>1, <2>1, <2>2, <2>6, <4>1, PacedStep
    <3> QED BY <2>5, <3>1
  <2>7. CASE last_sent_q'[j] = sum[j] /\ v = 0 /\ AbsVal(dq[j]) < QuietVel
    <3>1. AbsVal(v - stream_dq[j]) <= MaxAcc * dt + QuietVel
      BY <2>1, <2>4, <2>5, <2>7 DEF AbsVal
    <3>2. last_sent_q'[j] - last_sent_q[j] = 0
      BY <1>1, <2>1, <2>2, <2>7
    <3>3. AbsVal(last_sent_q'[j] - last_sent_q[j] - stream_dq[j] * dt)
            <= (MaxAcc * dt + QuietVel) * dt
      BY <1>1, <2>1, <2>2, <2>5, <2>7, <3>1, PacedStep
    <3> QED BY <2>5, <3>2, <3>3
  <2> QED BY <1>18, <2>3, <2>6, <2>7 DEF v
<1> QED BY <1>20, <1>21, <1>23, <1>24, <1>25, <1>26, <1>27, <1>28 DEF Safe, IInv

LEMMA StutterSafe ==
  ASSUME IInv, UNCHANGED <<last_sent_q, otg, rt_state, move_state, hold>>,
         outcome' \in {outcome, "finished"}
  PROVE  Safe
<1>1. last_sent_q \in Pose /\ WithinStep(last_sent_q, last_sent_q)
  BY SamePose DEF IInv, TypeOK
<1>2. TypeOK' /\ PoseInLimits' /\ OtgInSync' /\ HoldInv'
  BY DEF IInv, TypeOK, Outcome, PoseInLimits, OtgInSync, HoldInv, Active, Stopping, otg
<1>3. GeneratorInv' /\ MoveInv'
  BY DEF IInv, GeneratorInv, MoveInv, InLimits, GoodSegment, WithinBudget, OnSegment, otg
<1>4. AutoInv'
  BY DEF IInv, AutoInv, AutoMoveIsSafe, RoomForLateCallbacks
<1> QED BY <1>1, <1>2, <1>3, <1>4 DEF Safe, IInv

HoldsPose == hold >= 1 => hold' >= hold /\ last_sent_q' = last_sent_q

LEMMA NextSafe == IInv /\ [Next]_vars => Safe /\ HoldsPose
<1> SUFFICES ASSUME IInv, [Next]_vars PROVE Safe /\ HoldsPose
  OBVIOUS
<1>1. ASSUME NEW dt \in Period, Stream(dt) PROVE Safe /\ HoldsPose
  BY <1>1, StreamSafe DEF Stream, Stopping, HoldsPose, IInv, TypeOK
<1>2. ASSUME NEW dt \in Period, BeginMove(dt) PROVE Safe /\ HoldsPose
  BY <1>2, BeginMoveSafe DEF BeginMove, Stopping, HoldsPose, IInv, TypeOK
<1>3. ASSUME NEW dt \in Period, Move(dt) PROVE Safe /\ HoldsPose
  <2>1. move_state \in Segment /\ GoodSegment(move_state) /\ OnSegment(move_state)
    BY <1>3 DEF Move, IInv, TypeOK, MoveInv
  <2> QED BY <1>3, <2>1, FollowSafe DEF Move, Stopping, HoldsPose, IInv, TypeOK
<1>4. ASSUME NEW dt \in Period, GracefulStop(dt) PROVE Safe /\ HoldsPose
  BY <1>4, GracefulStopSafe DEF HoldsPose
<1>5. CASE Halt
  BY <1>5, StutterSafe DEF Halt, HoldsPose, IInv, TypeOK
<1>6. CASE UNCHANGED vars
  BY <1>6, StutterSafe DEF vars, HoldsPose, IInv, TypeOK
<1> QED BY <1>1, <1>2, <1>3, <1>4, <1>5, <1>6 DEF Next

LEMMA Invariance == Spec => []IInv
<1>1. IInv /\ [Next]_vars => IInv'
  BY NextSafe DEF Safe
<1> QED BY InitInv, <1>1, PTL DEF Spec

-----------------------------------------------------------------------------
(* The theorems *)

(***************************************************************************)
(* The positions, the segment and the count of quiet cycles are well typed *)
(* whatever is commanded.                                                  *)
(***************************************************************************)
THEOREM TypeCorrect == Spec => []TypeOK
  BY Invariance, PTL DEF IInv

(***************************************************************************)
(* Every pose the callback sends is within the joint limits, for all       *)
(* limits, gains, durations, periods and inputs.                           *)
(***************************************************************************)
THEOREM PosesInLimits == Spec => []PoseInLimits
  BY Invariance, PTL DEF IInv

(***************************************************************************)
(* Streaming always goes on from the pose the robot was told last.         *)
(***************************************************************************)
THEOREM OtgNeverDrifts == Spec => []OtgInSync
  BY Invariance, PTL DEF IInv

(***************************************************************************)
(* No callback moves a joint by more than its velocity cap: not where a    *)
(* move replaces another, not at a hard limit, not when a stop begins.     *)
(***************************************************************************)
THEOREM RateIsBounded == Spec => RateBounded
<1>1. IInv /\ [Next]_vars
        => [\A j \in Joint : AbsVal(last_sent_q'[j] - last_sent_q[j]) <= VelStep[j]]_vars
  BY NextSafe DEF Safe, WithinStep
<1> QED BY Invariance, <1>1, PTL DEF Spec, RateBounded

\* The callback in which a stop takes a move over is quiet already and sends the same pose.
LEMMA StopInPlace ==
  ASSUME IInv, NEW dt \in Period, rt_state = "MOVING", GracefulStop(dt)
  PROVE  last_sent_q' = last_sent_q /\ hold' = 1
<1> DEFINE ddq == [j \in Joint |-> NextAcc(0, Zero[j], Zero[j], dt)]
           dq  == [j \in Joint |-> NextVel(Zero[j], ddq[j], dt)]
           still == {j \in Joint : IsQuiet(dq[j], ddq[j])}
           sum == [j \in Joint |-> last_sent_q[j] + stream_dq'[j] * dt]
<1>1. ~Stopping /\ dt \in Nat /\ last_sent_q \in Pose /\ InLimits(last_sent_q)
  BY InputsAssumption DEF IInv, TypeOK, HoldInv, PoseInLimits, InLimits
<1>2. /\ stream_dq'  = [j \in Joint |-> Settled(j \in still, dq[j])]
      /\ last_sent_q' = ClampJointPosition(sum, last_sent_q)
      /\ hold' = IF still = Joint THEN 0 + 1 ELSE 0
  BY <1>1 DEF GracefulStop
<1>3. \A j \in Joint : ddq[j] = 0
  BY <1>1, RestIsQuiet DEF Zero
<1> HIDE DEF ddq
<1>4. \A j \in Joint : dq[j] = 0
  BY <1>1, <1>3, RestIsQuiet DEF Zero
<1> HIDE DEF dq
<1>5. still = Joint
  BY <1>1, <1>3, <1>4, RestIsQuiet
<1>6. \A j \in Joint : stream_dq'[j] = 0
  BY <1>2, <1>5 DEF Settled
<1> HIDE DEF still
<1>7. \A j \in Joint : sum[j] = last_sent_q[j]
  BY <1>1, <1>6 DEF Pose
<1> HIDE DEF sum
<1>8. \A j \in Joint : ClampJoint(j, sum[j], last_sent_q[j]) = last_sent_q[j]
  BY <1>1, <1>7, ClampFixpoint DEF InLimits
<1> QED BY <1>1, <1>2, <1>5, <1>8 DEF ClampJointPosition, Pose

(***************************************************************************)
(* A stop that interrupts a move leaves the pose sent last; and after the  *)
(* first quiet cycle of a stop the pose stays and the count of quiet       *)
(* cycles only grows, so the motion finishes after HoldCycles of them.     *)
(***************************************************************************)
THEOREM StopHolds == Spec => StopHoldsPose
<1>1. ASSUME IInv, Next, rt_state = "MOVING", Stopping'
      PROVE  last_sent_q' = last_sent_q
  <2>1. ~Stopping
    BY <1>1 DEF IInv, HoldInv
  <2>2. PICK dt \in Period : GracefulStop(dt)
    BY <1>1, <2>1 DEF Next, Halt, Stream, BeginMove, Move, Stopping
  <2> QED BY <1>1, <2>2, StopInPlace
<1>2. IInv /\ [Next]_vars
        => [/\ rt_state = "MOVING" /\ Stopping' => last_sent_q' = last_sent_q
            /\ hold >= 1 => hold' >= hold /\ last_sent_q' = last_sent_q]_vars
  BY <1>1, NextSafe DEF HoldsPose
<1> QED BY Invariance, <1>2, PTL DEF Spec, StopHoldsPose

(***************************************************************************)
(* A move whose duration was computed, begun from the streamed pose, is    *)
(* never cut short by the clamp, however far it goes and whatever the      *)
(* rounding, as long as the velocity budget leaves room for the latest     *)
(* callback: the peak of the min-jerk curve is 15/8 of its mean.           *)
(***************************************************************************)
THEOREM AutoMovesComplete ==
  ASSUME RoomForLateCallbacks
  PROVE  Spec => []AutoMoveIsSafe
<1>1. IInv => AutoMoveIsSafe
  BY DEF IInv, AutoInv
<1> QED BY Invariance, <1>1, PTL

(***************************************************************************)
(* From the generator's velocity to the velocity of the next pose is no    *)
(* more than MaxAcc allows: while it streams, for every target and late    *)
(* callback, and when a stop takes the generator over and comes to rest;   *)
(* the exceptions are the clamp's.                                         *)
(***************************************************************************)
THEOREM AccelerationIsBounded == Spec => AccelerationBounded
<1>1. ASSUME IInv, NEW dt \in Period, rt_state = "STREAMING", Stream(dt) \/ GracefulStop(dt)
      PROVE  Paced(dt)
  BY <1>1, StreamSafe, GracefulStopSafe
<1>2. IInv /\ [Next]_vars
        => [\A dt \in Period : rt_state = "STREAMING" /\ (Stream(dt) \/ GracefulStop(dt))
              => \A j \in Joint :
                   LET moved == last_sent_q'[j] - last_sent_q[j]
                       slack == IF hold' >= 0 /\ moved = 0 THEN QuietVel ELSE 0
                   IN  \/ AbsVal(moved - stream_dq[j] * dt) <= (MaxAcc * dt + slack) * dt
                       \/ AbsVal(moved) = VelStep[j] \/ last_sent_q'[j] \in {QMin[j], QMax[j]}]_vars
  BY <1>1 DEF Paced
<1> QED BY Invariance, <1>2, PTL DEF Spec, AccelerationBounded

(***************************************************************************)
(* While a segment is under way, computed or given, the pose sent is on    *)
(* it, between its two ends in every joint: a move does not overshoot.     *)
(***************************************************************************)
MoveBetweenEnds ==
  rt_state = "MOVING" =>
    \A j \in Joint :
      \/ last_sent_q[j] \in move_state.q_start[j]..move_state.q_end[j]
      \/ last_sent_q[j] \in move_state.q_end[j]..move_state.q_start[j]

THEOREM MovesStayBetweenEnds == Spec => []MoveBetweenEnds
<1>1. IInv => MoveBetweenEnds
  <2> SUFFICES ASSUME IInv, rt_state = "MOVING", NEW j \in Joint
               PROVE  \/ last_sent_q[j] \in move_state.q_start[j]..move_state.q_end[j]
                      \/ last_sent_q[j] \in move_state.q_end[j]..move_state.q_start[j]
    BY DEF MoveBetweenEnds
  <2>1. /\ move_state.q_start[j] \in Int /\ move_state.q_end[j] \in Int
        /\ move_state.t \in Nat /\ move_state.duration \in Nat \ {0}
    BY DEF IInv, TypeOK, Segment, Pose
  <2>2. last_sent_q[j] = Along(move_state.q_start[j], move_state.q_end[j],
                               move_state.t, move_state.duration)
    BY DEF IInv, MoveInv, OnSegment, SegmentPose
  <2>3. last_sent_q[j] \in Int
    BY DEF IInv, TypeOK, Pose
  <2> QED BY <2>1, <2>2, <2>3, AlongBetween
<1> QED BY Invariance, <1>1, PTL
\* The clamp does not turn a joint back, nor take it past where it was sent.
LEMMA ClampTowards ==
  ASSUME NEW j \in Joint, NEW q \in Int, NEW last \in QMin[j]..QMax[j],
         NEW end \in QMin[j]..QMax[j], Towards(q, last, end)
  PROVE  Towards(ClampJoint(j, q, last), last, end)
  BY LimitsAssumption DEF Towards, ClampJoint, RateClamped, ClampTo

(***************************************************************************)
(* A move never turns back: every callback that follows a segment takes    *)
(* each joint on towards the end of the segment or leaves it where it is,  *)
(* also the callback in which the move is clamped and given up.            *)
(***************************************************************************)
NeverTurnsBack ==
  [][\A dt \in Period : Move(dt)
       => \A j \in Joint : Towards(last_sent_q'[j], last_sent_q[j], move_state.q_end[j])]_vars

THEOREM MovesNeverTurnBack == Spec => NeverTurnsBack
<1>1. ASSUME IInv, NEW dt \in Period, Move(dt), NEW j \in Joint
      PROVE  Towards(last_sent_q'[j], last_sent_q[j], move_state.q_end[j])
  <2> DEFINE seg == move_state
             cmd == SegmentPose(seg.q_start, seg.q_end, seg.t + dt, seg.duration)
             end == seg.q_end[j]
             last == last_sent_q[j]
  <2>1. /\ seg \in Segment /\ GoodSegment(seg) /\ OnSegment(seg) /\ dt \in Nat
        /\ last_sent_q \in Pose /\ InLimits(last_sent_q)
    BY <1>1, InputsAssumption DEF Move, IInv, TypeOK, MoveInv, PoseInLimits, InLimits
  <2>2. /\ seg.q_start[j] \in Int /\ end \in Int
        /\ seg.duration \in Nat \ {0} /\ seg.t \in Nat
    BY <2>1 DEF Segment, Pose
  <2>3. end \in QMin[j]..QMax[j] /\ last \in QMin[j]..QMax[j]
    BY <2>1 DEF GoodSegment, InLimits
  <2>4. /\ cmd[j] = Along(seg.q_start[j], end, seg.t + dt, seg.duration)
        /\ last = Along(seg.q_start[j], end, seg.t, seg.duration)
    BY <2>1 DEF OnSegment, SegmentPose
  <2>5. cmd[j] \in Int
    <3>1. seg.t + dt \in Nat
      BY <2>1, <2>2
    <3> QED BY <2>2, <2>4, <3>1, AlongType
  <2>6. Towards(cmd[j], last, end)
    BY <2>1, <2>2, <2>4, AlongTowards
  <2>7. Towards(end, last, end)
    BY <2>1, <2>2 DEF Towards, Pose
  <2>8. \/ last_sent_q'[j] = cmd[j]
        \/ last_sent_q'[j] = ClampJoint(j, cmd[j], last)
        \/ last_sent_q'[j] = ClampJoint(j, end, last)
    BY <1>1 DEF Move, Follow, SendClamped, ClampJointPosition
  <2> HIDE DEF cmd, end, last
  <2>9. ASSUME NEW q \in Int, Towards(q, last, end)
        PROVE  Towards(ClampJoint(j, q, last), last, end)
    BY <2>3, <2>9, ClampTowards
  <2> QED BY <2>2, <2>5, <2>6, <2>7, <2>8, <2>9 DEF end, last
<1>2. IInv /\ [Next]_vars
        => [\A dt \in Period : Move(dt)
              => \A j \in Joint :
                   Towards(last_sent_q'[j], last_sent_q[j], move_state.q_end[j])]_vars
  BY <1>1
<1> QED BY Invariance, <1>2, PTL DEF Spec, NeverTurnsBack

(***************************************************************************)
(* A stop that takes a move over leaves the arm at the pose sent last, in  *)
(* the very callback that sees it, and that callback is the first quiet    *)
(* one: a stop brakes what was streamed, not what was moved.               *)
(***************************************************************************)
StopDropsMoveInPlace ==
  [][\A dt \in Period : rt_state = "MOVING" /\ GracefulStop(dt)
       => last_sent_q' = last_sent_q /\ hold' = 1]_vars

THEOREM StopDropsMove == Spec => StopDropsMoveInPlace
<1>1. IInv /\ [Next]_vars
        => [\A dt \in Period : rt_state = "MOVING" /\ GracefulStop(dt)
              => last_sent_q' = last_sent_q /\ hold' = 1]_vars
  BY StopInPlace
<1> QED BY Invariance, <1>1, PTL DEF Spec, StopDropsMoveInPlace
\* A pose the clamp reports as unclamped it does not change.
LEMMA UnclampedStays ==
  ASSUME NEW q \in Pose, NEW last \in Pose, ~IsClamped(q, last)
  PROVE  ClampJointPosition(q, last) = q
<1>1. ASSUME NEW j \in Joint PROVE ClampJoint(j, q[j], last[j]) = q[j]
  <2>1. q[j] \in QMin[j]..QMax[j] /\ AbsVal(q[j] - last[j]) <= VelStep[j]
    BY UnclampedIsSafe
  <2>2. q[j] \in Int /\ last[j] \in Int
    BY DEF Pose
  <2> QED BY <2>1, <2>2, LimitsAssumption DEF ClampJoint, RateClamped, ClampTo, AbsVal
<1> QED BY <1>1 DEF ClampJointPosition, Pose

(***************************************************************************)
(* A move that ends has arrived: the pose sent in its last callback is the *)
(* end of the segment in every joint, or the clamp cut it short, and then  *)
(* its duration was given by the caller or it had replaced another move.   *)
(***************************************************************************)
MovesArrive ==
  [][\A dt \in Period : Move(dt) /\ rt_state' = "STREAMING"
       => \/ last_sent_q' = move_state.q_end
          \/ outcome' = "move_clamped" /\ (~move_state.auto \/ move_state.replaced)]_vars

THEOREM EndedMovesArrive ==
  ASSUME RoomForLateCallbacks
  PROVE  Spec => MovesArrive
<1>1. ASSUME IInv, NEW dt \in Period, Move(dt), rt_state' = "STREAMING", [Next]_vars
      PROVE  \/ last_sent_q' = move_state.q_end
             \/ outcome' = "move_clamped" /\ (~move_state.auto \/ move_state.replaced)
  <2> DEFINE seg == move_state
             t == seg.t + dt
             cmd == SegmentPose(seg.q_start, seg.q_end, t, seg.duration)
  <2>1. /\ seg \in Segment /\ dt \in Nat /\ last_sent_q \in Pose
        /\ seg.q_end \in Pose /\ seg.duration \in Nat
    BY <1>1, InputsAssumption DEF IInv, TypeOK, Segment
  <2>2. move_state' = [seg EXCEPT !.t = t] /\ Follow(seg, dt)
    BY <1>1 DEF Move, Follow
  <2>3. move_state'.auto = seg.auto /\ move_state'.replaced = seg.replaced
    BY <2>1, <2>2 DEF Segment
  <2>4. outcome' = "move_clamped" => ~move_state'.auto \/ move_state'.replaced
    BY <1>1, NextSafe DEF Safe, IInv, AutoInv, AutoMoveIsSafe, RoomForLateCallbacks
  <2>5. ASSUME outcome' # "move_clamped" PROVE last_sent_q' = seg.q_end
    <3>1. /\ t >= seg.duration /\ ~IsClamped(cmd, last_sent_q)
          /\ last_sent_q' = ClampJointPosition(seg.q_end, last_sent_q)
      BY <1>1, <2>2, <2>5 DEF Follow, SendClamped
    <3>2. cmd = seg.q_end
      BY <2>1, <3>1 DEF SegmentPose, Along, Pose
    <3> QED BY <2>1, <3>1, <3>2, UnclampedStays
  <2> QED BY <2>3, <2>4, <2>5
<1>2. IInv /\ [Next]_vars
        => [\A dt \in Period : Move(dt) /\ rt_state' = "STREAMING"
              => \/ last_sent_q' = move_state.q_end
                 \/ outcome' = "move_clamped" /\ (~move_state.auto \/ move_state.replaced)]_vars
  BY <1>1
<1> QED BY Invariance, <1>2, PTL DEF Spec, MovesArrive
=============================================================================
