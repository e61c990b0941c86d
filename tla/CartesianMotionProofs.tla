----------------------- MODULE CartesianMotionProofs -----------------------
(***************************************************************************)
(* What every callback of the Cartesian controller guarantees about the    *)
(* pose it sends, for every number of axes, gain, limit, input and timing. *)
(***************************************************************************)
EXTENDS CartesianMotion, OnlineTrajectoryProofs

\* While the generator runs it goes on from the pose sent last; only a move under
\* way leaves it behind.
StreamInSync == rt_state # "MOVING" => stream_pose = last_sent_pose

\* The count of quiet cycles is below its end while the motion goes on, and a
\* positive count means the generator is at rest.
HoldInv ==
  /\ ~finished => hold < HoldCycles
  /\ Stopping => rt_state = "STREAMING"
  /\ hold >= 1 => stream_vel = AtRest /\ stream_acc = AtRest

\* A command that passed the gate was looked at, and maybe others since.
GateInv == adopted_age # NoCommand
             => last_cmd_age # NoCommand /\ last_cmd_age <= adopted_age

GateTypeOK ==
  last_cmd_age \in NoCommand..MaxInterval /\ adopted_age \in NoCommand..MaxInterval

\* The generator is within its limits.
GeneratorInv ==
  \A a \in Axis : stream_vel[a] \in -MaxVel..MaxVel /\ stream_acc[a] \in -MaxAcc..MaxAcc

\* The pose sent last is on the trajectory under way, and a computed duration
\* is enough for the peak of its velocity.
GoodTrajectory(traj) ==
  /\ traj.t < traj.duration
  /\ traj.auto => \A a \in Axis :
       8 * PeakVel * traj.duration >= 15 * AbsVal(traj.end[a] - traj.start[a])

PoseAt(traj, t) == [a \in Axis |-> Along(traj.start[a], traj.end[a], t, traj.duration)]

MoveInv == rt_state = "MOVING" => GoodTrajectory(move) /\ last_sent_pose = PoseAt(move, move.t)

IInv == TypeOK /\ StreamInSync /\ HoldInv /\ GateInv /\ GeneratorInv /\ MoveInv

\* No axis of the pose sent moves faster than v.
Within(v, dt) == \A a \in Axis : AbsVal(last_sent_pose'[a] - last_sent_pose[a]) <= v * dt

\* No axis departs from going on at its velocity by more than MaxAcc allows.
Paced(dt) ==
  \A a \in Axis :
    LET moved == last_sent_pose'[a] - last_sent_pose[a]
        slack == IF hold' >= 0 /\ moved = 0 THEN QuietVel ELSE 0
    IN  AbsVal(moved - stream_vel[a] * dt) <= (MaxAcc * dt + slack) * dt

-----------------------------------------------------------------------------
(* Lemmas *)

LEMMA AtRestType == AtRest \in CartPose
  BY DEF AtRest, CartPose

LEMMA ProductMonotone ==
  ASSUME NEW v \in Nat, NEW m \in Nat, NEW n \in Nat
  PROVE  v * m \in Nat /\ (m <= n => v * m <= v * n)
<1>1. v * m \in Nat
  OBVIOUS
<1>2. ASSUME m <= n PROVE v * m <= v * n
  <2>1. v * (n - m) >= 0 /\ v * (n - m) = v * n - v * m
    BY <1>2
  <2> QED BY <2>1
<1> QED BY <1>1, <1>2

\* One step of the generator: types, and the limits.
LEMMA GeneratorStep ==
  ASSUME TypeOK, GeneratorInv, NEW T \in CartPose, NEW dt \in Nat
  PROVE  /\ Acc(T, dt) \in CartPose /\ Vel(Acc(T, dt), dt) \in CartPose
         /\ \A a \in Axis :
              /\ AbsVal(Vel(Acc(T, dt), dt)[a]) <= MaxVel
              /\ Vel(Acc(T, dt), dt)[a] \in -MaxVel..MaxVel
              /\ Acc(T, dt)[a] \in -MaxAcc..MaxAcc
              /\ AbsVal(Vel(Acc(T, dt), dt)[a] - stream_vel[a]) <= MaxAcc * dt
<1> DEFINE acc == Acc(T, dt)
<1>1. stream_pose \in CartPose /\ stream_vel \in CartPose /\ stream_acc \in CartPose
  BY DEF TypeOK
<1>2. acc \in CartPose
  BY <1>1, NextAccType DEF Acc, CartPose
<1>3. \A a \in Axis : acc[a] \in -MaxAcc..MaxAcc
  <2> SUFFICES ASSUME NEW a \in Axis PROVE acc[a] \in -MaxAcc..MaxAcc
    OBVIOUS
  <2>1. T[a] - stream_pose[a] \in Int /\ stream_vel[a] \in Int
    BY <1>1 DEF CartPose
  <2>2. stream_acc[a] \in -MaxAcc..MaxAcc
    BY DEF GeneratorInv
  <2> QED BY <2>1, <2>2, NextAccBounded DEF Acc
<1> HIDE DEF acc
<1>4. \A a \in Axis : Vel(acc, dt)[a] \in -MaxVel..MaxVel
  BY <1>1, <1>2, NextVelBounded DEF Vel, CartPose
<1>5. \A a \in Axis : Vel(acc, dt)[a] \in Int /\ AbsVal(Vel(acc, dt)[a]) <= MaxVel
  BY <1>4, GainsAssumption DEF AbsVal
<1>6. Vel(acc, dt) \in CartPose
  BY <1>5 DEF Vel, CartPose
<1>7. \A a \in Axis : AbsVal(Vel(acc, dt)[a] - stream_vel[a]) <= MaxAcc * dt
  BY <1>3, NextVelStep DEF Vel, GeneratorInv
<1> QED BY <1>2, <1>3, <1>4, <1>5, <1>6, <1>7 DEF acc

\* Advancing a pose at a bounded velocity.
LEMMA AdvanceBounded ==
  ASSUME NEW p \in CartPose, NEW vel \in CartPose, NEW v \in Nat, NEW dt \in Nat,
         \A a \in Axis : AbsVal(vel[a]) <= v
  PROVE  LET q == [a \in Axis |-> p[a] + vel[a] * dt]
         IN  q \in CartPose /\ \A a \in Axis : AbsVal(q[a] - p[a]) <= v * dt
<1> DEFINE q == [a \in Axis |-> p[a] + vel[a] * dt]
<1>1. ASSUME NEW a \in Axis
      PROVE  q[a] \in Int /\ AbsVal(q[a] - p[a]) <= v * dt
  <2>1. p[a] \in Int /\ vel[a] \in Int /\ vel[a] * dt \in Int
    BY DEF CartPose
  <2>2. AbsVal(vel[a] * dt) <= v * dt
    BY <2>1, StepBounded
  <2>3. q[a] = p[a] + vel[a] * dt
    OBVIOUS
  <2>4. q[a] - p[a] = vel[a] * dt
    BY <2>1, <2>3
  <2> QED BY <2>1, <2>2, <2>3, <2>4
<1>2. q \in CartPose
  BY <1>1 DEF CartPose
<1> HIDE DEF q
<1>3. q \in CartPose /\ \A a \in Axis : AbsVal(q[a] - p[a]) <= v * dt
  BY <1>1, <1>2
<1> QED BY <1>3 DEF q

\* ... and what it means for the pace.
LEMMA PacedAxis ==
  ASSUME NEW a \in Axis, NEW dt \in Nat, stream_vel \in CartPose, last_sent_pose \in CartPose,
         NEW v \in Int, NEW slack \in Nat,
         last_sent_pose'[a] = last_sent_pose[a] + v * dt,
         AbsVal(v - stream_vel[a]) <= MaxAcc * dt + slack
  PROVE  AbsVal(last_sent_pose'[a] - last_sent_pose[a] - stream_vel[a] * dt)
           <= (MaxAcc * dt + slack) * dt
<1>1. last_sent_pose[a] \in Int /\ stream_vel[a] \in Int
  BY DEF CartPose
<1> QED BY <1>1, PacedStep

LEMMA AdvancePaced ==
  ASSUME TypeOK, NEW dt \in Nat, NEW vel \in CartPose,
         \A a \in Axis : AbsVal(vel[a] - stream_vel[a]) <= MaxAcc * dt,
         last_sent_pose' = [a \in Axis |-> last_sent_pose[a] + vel[a] * dt]
  PROVE  Paced(dt)
<1> SUFFICES ASSUME NEW a \in Axis, NEW slack \in Nat
             PROVE  AbsVal(last_sent_pose'[a] - last_sent_pose[a] - stream_vel[a] * dt)
                      <= (MaxAcc * dt + slack) * dt
  <2>1. QuietVel \in Nat /\ 0 \in Nat
    BY GainsAssumption
  <2> QED BY <2>1 DEF Paced
<1>1. vel[a] \in Int /\ stream_vel[a] \in Int /\ MaxAcc * dt \in Nat
  BY GainsAssumption DEF TypeOK, CartPose
<1>2. AbsVal(vel[a] - stream_vel[a]) <= MaxAcc * dt + slack
  BY <1>1 DEF AbsVal
<1> QED BY <1>1, <1>2, PacedAxis DEF TypeOK

\* Ages keep their order, and what is adopted is a target.
LEMMA GateKept ==
  ASSUME TypeOK, GateInv, NEW dt \in Nat, GateWaits(dt) \/ Command(dt)
  PROVE  GateTypeOK' /\ GateInv'
<1> USE DEF TypeOK, GateTypeOK, GateInv, NoCommand, Aged, AtAge, ClampTo
<1>1. CASE GateWaits(dt)
  BY <1>1, InputsAssumption DEF GateWaits
<1>2. ASSUME NEW T \in Target, NEW age \in 0..dt, Consider(T, age, dt)
      PROVE  GateTypeOK' /\ GateInv'
  <2>1. last_cmd_age' = AtAge(age) /\ adopted_age' \in {AtAge(age), Aged(adopted_age, dt)}
    BY <1>2 DEF Consider
  <2> QED BY <2>1, InputsAssumption
<1> QED BY <1>1, <1>2 DEF Command

LEMMA CommandType ==
  ASSUME TypeOK, NEW dt \in Nat, Command(dt)
  PROVE  stream_target_pose' \in CartPose
<1>1. stream_target_pose' \in {stream_target_pose} \cup Target
  BY DEF Command, Consider
<1> QED BY <1>1, InputsAssumption DEF TypeOK

\* The gate: what it lets pass is within the reach of the time that has passed.
LEMMA GateBounds ==
  ASSUME IInv, NEW dt \in Nat, Command(dt)
  PROVE  LET passed == IF adopted_age = NoCommand THEN MaxInterval
                       ELSE ClampTo(adopted_age + dt - adopted_age', MinInterval, MaxInterval)
         IN  ~Jumps(stream_target_pose', MaxCmdVel * passed)
<1> DEFINE passed == IF adopted_age = NoCommand THEN MaxInterval
                     ELSE ClampTo(adopted_age + dt - adopted_age', MinInterval, MaxInterval)
<1>1. last_cmd_age \in NoCommand..MaxInterval /\ adopted_age \in NoCommand..MaxInterval
  BY DEF IInv, TypeOK
<1>2. adopted_age' \in NoCommand..MaxInterval
  BY GateKept DEF IInv, GateTypeOK
<1>3. passed \in Nat
  <2>1. adopted_age + dt - adopted_age' \in Int
    <3>1. adopted_age \in Int /\ adopted_age' \in Int
      BY <1>1, <1>2
    <3> QED BY <3>1
  <2>2. ClampTo(adopted_age + dt - adopted_age', MinInterval, MaxInterval)
          \in MinInterval..MaxInterval
    <3>1. MinInterval \in Int /\ MaxInterval \in Int /\ MinInterval <= MaxInterval
      BY InputsAssumption
    <3> HIDE DEF passed
    <3> QED BY <2>1, <3>1, ClampToBounds
  <2> QED BY <2>2, InputsAssumption
<1>4. stream_target_pose \in CartPose
  BY DEF IInv, TypeOK
<1>5. CASE UNCHANGED stream_target_pose
  <2>1. \A a \in Axis : AbsVal(stream_target_pose'[a] - stream_target_pose[a]) = 0
    BY <1>4, <1>5 DEF CartPose, AbsVal
  <2> HIDE DEF passed
  <2>2. MaxCmdVel * passed \in Nat
    BY <1>3, InputsAssumption, ProductMonotone
  <2>3. ~Jumps(stream_target_pose', MaxCmdVel * passed)
    BY <2>1, <2>2 DEF Jumps
  <2> QED BY <2>3 DEF passed
<1>6. ASSUME NEW T \in Target, NEW age \in 0..dt, stream_target_pose' = T,
             ~Jumps(T, MaxCmdVel * CmdInterval(age, dt)), adopted_age' = AtAge(age)
      PROVE  ~Jumps(stream_target_pose', MaxCmdVel * passed)
  <2>1. CmdInterval(age, dt) \in Nat /\ CmdInterval(age, dt) <= passed
    BY <1>1, <1>6, InputsAssumption
       DEF IInv, GateInv, CmdInterval, NoCommand, ClampTo, AtAge
  <2>2. MaxCmdVel * CmdInterval(age, dt) <= MaxCmdVel * passed
    BY <1>3, <2>1, InputsAssumption, ProductMonotone
  <2>3. MaxCmdVel * CmdInterval(age, dt) \in Nat /\ MaxCmdVel * passed \in Nat
    BY <1>3, <2>1, InputsAssumption, ProductMonotone
  <2>4. \A a \in Axis : AbsVal(T[a] - stream_target_pose[a]) \in Int
    BY <1>4, InputsAssumption DEF CartPose, AbsVal
  <2> QED BY <1>6, <2>2, <2>3, <2>4 DEF Jumps
<1>7. UNCHANGED stream_target_pose
      \/ \E T \in Target, age \in 0..dt :
            /\ stream_target_pose' = T /\ adopted_age' = AtAge(age)
            /\ ~Jumps(T, MaxCmdVel * CmdInterval(age, dt))
  BY DEF Command, Consider
<1> QED BY <1>5, <1>6, <1>7

LEMMA InitInv == Init => IInv
<1> SUFFICES ASSUME Init PROVE IInv
  OBVIOUS
<1>1. TypeOK
  <2>1. NoMove \in Request
    BY AtRestType DEF NoMove, Request
  <2>2. last_sent_pose \in CartPose /\ -1 \in -1..HoldCycles
    BY InputsAssumption DEF Init
  <2>3. NoCommand \in NoCommand..MaxInterval
    BY InputsAssumption DEF NoCommand
  <2> QED BY <2>1, <2>2, <2>3, AtRestType DEF Init, TypeOK
<1>2. StreamInSync /\ HoldInv /\ GateInv
  BY InputsAssumption DEF Init, StreamInSync, HoldInv, GateInv, Stopping
<1>3. GeneratorInv /\ MoveInv
  BY GainsAssumption DEF Init, GeneratorInv, MoveInv, AtRest
<1> QED BY <1>1, <1>2, <1>3 DEF IInv

-----------------------------------------------------------------------------
(* What a callback guarantees *)

LEMMA StreamSafe ==
  ASSUME IInv, NEW dt \in Period, Stream(dt)
  PROVE  IInv' /\ Within(MaxVel, dt) /\ Paced(dt)
<1> DEFINE acc == Acc(stream_target_pose', dt)
           vel == Vel(acc, dt)
<1>1. dt \in Nat /\ TypeOK /\ GeneratorInv
  BY InputsAssumption DEF IInv
<1>2. stream_target_pose' \in CartPose /\ GateTypeOK' /\ GateInv'
  BY <1>1, CommandType, GateKept DEF Stream, IInv
<1>3. /\ acc \in CartPose /\ vel \in CartPose
      /\ \A a \in Axis : /\ AbsVal(vel[a]) <= MaxVel /\ vel[a] \in -MaxVel..MaxVel
                         /\ acc[a] \in -MaxAcc..MaxAcc
                         /\ AbsVal(vel[a] - stream_vel[a]) <= MaxAcc * dt
  BY <1>1, <1>2, GeneratorStep
<1>4. /\ Active /\ rt_state = "STREAMING" /\ UNCHANGED <<rt_state, move, hold, finished>>
      /\ stream_acc' = acc /\ stream_vel' = vel
      /\ stream_pose' = [a \in Axis |-> stream_pose[a] + vel[a] * dt]
      /\ last_sent_pose' = stream_pose'
  BY DEF Stream, Advanced
<1> HIDE DEF acc, vel
<1>5. stream_pose = last_sent_pose /\ last_sent_pose \in CartPose
  BY <1>4 DEF IInv, TypeOK, StreamInSync
<1>6. stream_pose' \in CartPose /\ Within(MaxVel, dt)
  <2>1. \A a \in Axis : AbsVal(vel[a]) <= MaxVel
    BY <1>3
  <2> QED BY <1>1, <1>3, <1>4, <1>5, <2>1, AdvanceBounded, GainsAssumption DEF Within
<1>7. TypeOK'
  BY <1>2, <1>3, <1>4, <1>6 DEF IInv, TypeOK, GateTypeOK
<1>8. StreamInSync' /\ HoldInv'
  BY <1>4 DEF IInv, TypeOK, HoldInv, StreamInSync, Active, Stopping
<1>9. GeneratorInv' /\ MoveInv'
  BY <1>3, <1>4 DEF GeneratorInv, MoveInv
<1>10. Paced(dt)
  BY <1>1, <1>3, <1>4, <1>5, AdvancePaced
<1> QED BY <1>2, <1>6, <1>7, <1>8, <1>9, <1>10 DEF IInv

\* The step of STOPPING_FOR_MOVE.  Its speed is bounded when it does not begin
\* from a move under way.
LEMMA StepToMoveSafe ==
  ASSUME IInv, Active, NEW request \in Request, NEW dt \in Period,
         stream_target_pose' \in CartPose, StepToMove(request, dt), GateWaits(dt),
         UNCHANGED <<hold, finished>>
  PROVE  /\ IInv'
         /\ rt_state # "MOVING" => Within(MaxVel, dt) /\ Paced(dt)
         /\ rt_state # "MOVING" /\ rt_state' = "MOVING"
              => move'.start = last_sent_pose' /\ Within(StartVel, dt)
<1> DEFINE acc == Acc(stream_target_pose', dt)
           vel == Vel(acc, dt)
<1>1. dt \in Nat /\ TypeOK /\ GeneratorInv
  BY InputsAssumption DEF IInv
<1>2. /\ acc \in CartPose /\ vel \in CartPose
      /\ \A a \in Axis : /\ AbsVal(vel[a]) <= MaxVel /\ vel[a] \in -MaxVel..MaxVel
                         /\ acc[a] \in -MaxAcc..MaxAcc
                         /\ AbsVal(vel[a] - stream_vel[a]) <= MaxAcc * dt
  BY <1>1, GeneratorStep
<1>3. /\ stream_pose' = [a \in Axis |-> stream_pose[a] + vel[a] * dt]
      /\ last_sent_pose' = stream_pose'
  BY DEF StepToMove, Advanced
<1>4. \/ /\ QuietForMove(vel, acc)
         /\ stream_vel' = AtRest /\ stream_acc' = AtRest
         /\ rt_state' = "MOVING"
         /\ \E d \in 1..MaxDuration :
              /\ move' = [start |-> stream_pose', end |-> request.end, t |-> 0,
                          duration |-> d, auto |-> request.duration = 0]
              /\ IsTrajectory(move', stream_pose', request)
      \/ /\ stream_vel' = vel /\ stream_acc' = acc
         /\ rt_state' = "STOPPING_FOR_MOVE"
         /\ move' = request
  BY DEF StepToMove
<1> HIDE DEF acc, vel
<1>5. stream_pose \in CartPose
  BY DEF IInv, TypeOK
<1>6. stream_pose' \in CartPose
  <2>1. \A a \in Axis : AbsVal(vel[a]) <= MaxVel
    BY <1>2
  <2> QED BY <1>1, <1>2, <1>3, <1>5, <2>1, AdvanceBounded, GainsAssumption
<1>7. rt_state # "MOVING" => stream_pose = last_sent_pose
  BY DEF IInv, StreamInSync
<1>8. rt_state # "MOVING" => Within(MaxVel, dt)
  BY <1>1, <1>2, <1>3, <1>5, <1>7, AdvanceBounded, GainsAssumption DEF Within
<1>9. ASSUME rt_state # "MOVING", rt_state' = "MOVING"
      PROVE  move'.start = last_sent_pose' /\ Within(StartVel, dt)
  <2>1. \A a \in Axis : AbsVal(vel[a]) <= StartVel
    BY <1>4, <1>9 DEF QuietForMove
  <2>2. Within(StartVel, dt)
    BY <1>1, <1>2, <1>3, <1>5, <1>7, <1>9, <2>1, AdvanceBounded, InputsAssumption DEF Within
  <2> QED BY <1>3, <1>4, <1>9, <2>2
<1>10. /\ stream_vel' \in CartPose /\ stream_acc' \in CartPose
       /\ rt_state' \in {"STOPPING_FOR_MOVE", "MOVING"}
       /\ move' \in IF rt_state' = "MOVING" THEN Trajectory ELSE Request
  <2>1. CASE rt_state' = "MOVING"
    <3>1. PICK d \in 1..MaxDuration :
            move' = [start |-> stream_pose', end |-> request.end, t |-> 0,
                     duration |-> d, auto |-> request.duration = 0]
      BY <1>4, <2>1
    <3>2. request.end \in CartPose /\ d \in Nat \ {0} /\ (request.duration = 0) \in BOOLEAN
      BY InputsAssumption DEF Request
    <3>3. move' \in Trajectory
      BY <1>6, <3>1, <3>2 DEF Trajectory
    <3> QED BY <1>4, <2>1, <3>3, AtRestType
  <2>2. CASE rt_state' # "MOVING"
    BY <1>2, <1>4, <2>2
  <2> QED BY <2>1, <2>2
<1>11. GateTypeOK' /\ GateInv'
  BY <1>1, GateKept DEF IInv
<1>12. TypeOK'
  BY <1>3, <1>6, <1>10, <1>11 DEF IInv, TypeOK, GateTypeOK
<1>13. StreamInSync' /\ HoldInv'
  BY <1>3 DEF IInv, TypeOK, HoldInv, StreamInSync, Active, Stopping
<1>14. GeneratorInv'
  BY <1>2, <1>4, GainsAssumption DEF GeneratorInv, AtRest
<1>15. MoveInv'
  <2> SUFFICES ASSUME rt_state' = "MOVING"
               PROVE  GoodTrajectory(move') /\ last_sent_pose' = PoseAt(move', move'.t)
    BY DEF MoveInv
  <2>1. PICK d \in 1..MaxDuration :
          /\ move' = [start |-> stream_pose', end |-> request.end, t |-> 0,
                      duration |-> d, auto |-> request.duration = 0]
          /\ IsTrajectory(move', stream_pose', request)
    BY <1>4
  <2>2. d \in Nat \ {0} /\ request.end \in CartPose
    BY InputsAssumption DEF Request
  <2>3. GoodTrajectory(move')
    BY <2>1, <2>2 DEF GoodTrajectory, IsTrajectory, IsComputedDuration
  <2>4. \A a \in Axis : Along(stream_pose'[a], request.end[a], 0, d) = stream_pose'[a]
    BY <1>6, <2>2, AlongStart DEF CartPose
  <2> QED BY <1>3, <1>6, <2>1, <2>3, <2>4 DEF PoseAt, CartPose
<1>16. rt_state # "MOVING" => Paced(dt)
  BY <1>1, <1>2, <1>3, <1>7, AdvancePaced
<1> QED BY <1>8, <1>9, <1>11, <1>12, <1>13, <1>14, <1>15, <1>16 DEF IInv

LEMMA StartMoveSafe ==
  ASSUME IInv, NEW dt \in Period, StartMove(dt)
  PROVE  /\ IInv'
         /\ rt_state # "MOVING" => Within(MaxVel, dt) /\ Paced(dt)
         /\ rt_state # "MOVING" /\ rt_state' = "MOVING"
              => move'.start = last_sent_pose' /\ Within(StartVel, dt)
<1>1. PICK T \in Target, duration \in Duration :
        StepToMove([end |-> T, duration |-> duration], dt)
  BY DEF StartMove
<1>2. [end |-> T, duration |-> duration] \in Request
  BY InputsAssumption DEF Request
<1>3. /\ Active /\ stream_target_pose' \in CartPose /\ UNCHANGED <<hold, finished>>
      /\ GateWaits(dt)
  BY DEF StartMove, IInv, TypeOK
<1> QED BY <1>1, <1>2, <1>3, StepToMoveSafe

LEMMA BrakeSafe ==
  ASSUME IInv, NEW dt \in Period, Brake(dt)
  PROVE  /\ IInv' /\ Within(MaxVel, dt) /\ Paced(dt)
         /\ rt_state' = "MOVING" => move'.start = last_sent_pose' /\ Within(StartVel, dt)
<1>1. /\ Active /\ rt_state = "STOPPING_FOR_MOVE" /\ move \in Request
      /\ stream_target_pose' \in CartPose /\ UNCHANGED <<hold, finished>>
      /\ StepToMove(move, dt) /\ GateWaits(dt)
  BY DEF Brake, IInv, TypeOK
<1> QED BY <1>1, StepToMoveSafe

LEMMA FollowSafe ==
  ASSUME IInv, NEW dt \in Period, Follow(dt)
  PROVE  IInv' /\ (move.auto => Within(PeakVel, dt))
<1> DEFINE t == move.t + dt
<1>1. /\ Active /\ rt_state = "MOVING" /\ UNCHANGED <<hold, finished>>
      /\ last_sent_pose' =
           [a \in Axis |-> Along(move.start[a], move.end[a], t, move.duration)]
      /\ \/ /\ t < move.duration /\ move' = [move EXCEPT !.t = t]
            /\ UNCHANGED <<otg, rt_state>>
         \/ /\ rt_state' = "STREAMING" /\ move' = NoMove
            /\ Reseed(last_sent_pose')
  BY DEF Follow
<1>2. move \in Trajectory /\ t \in Nat
  BY <1>1, InputsAssumption DEF IInv, TypeOK, Trajectory
<1>3. [move EXCEPT !.t = t] \in Trajectory
  BY <1>2 DEF Trajectory
<1> HIDE DEF t
<1>4. last_sent_pose' \in CartPose
  BY <1>1, <1>2, AlongType DEF Trajectory, CartPose
<1>5. NoMove \in Request
  BY AtRestType DEF NoMove, Request
<1>6. GateTypeOK' /\ GateInv'
  <2>1. dt \in Nat /\ GateWaits(dt)
    BY InputsAssumption DEF Follow
  <2> QED BY <2>1, GateKept DEF IInv
<1>7. TypeOK'
  <2>1. CASE move' = [move EXCEPT !.t = t] /\ UNCHANGED <<otg, rt_state>>
    BY <1>1, <1>3, <1>4, <1>6, <2>1 DEF IInv, TypeOK, GateTypeOK, otg
  <2>2. CASE rt_state' = "STREAMING" /\ move' = NoMove /\ Reseed(last_sent_pose')
    BY <1>1, <1>4, <1>5, <1>6, <2>2, AtRestType DEF IInv, TypeOK, GateTypeOK, Reseed
  <2> QED BY <1>1, <2>1, <2>2
<1>8. StreamInSync' /\ HoldInv'
  BY <1>1 DEF IInv, TypeOK, HoldInv, StreamInSync, Active, Stopping, Reseed
<1>9. GeneratorInv'
  BY <1>1, GainsAssumption DEF IInv, GeneratorInv, Reseed, AtRest, otg
<1>10. MoveInv'
  <2> SUFFICES ASSUME rt_state' = "MOVING"
               PROVE  GoodTrajectory(move') /\ last_sent_pose' = PoseAt(move', move'.t)
    BY DEF MoveInv
  <2>1. t < move.duration /\ move' = [move EXCEPT !.t = t]
    BY <1>1
  <2>2. /\ move'.start = move.start /\ move'.end = move.end /\ move'.t = t
        /\ move'.duration = move.duration /\ move'.auto = move.auto
    BY <1>2, <2>1 DEF Trajectory
  <2> QED BY <1>1, <2>1, <2>2 DEF IInv, MoveInv, GoodTrajectory, PoseAt
<1>11. ASSUME move.auto PROVE Within(PeakVel, dt)
  <2> SUFFICES ASSUME NEW a \in Axis
               PROVE  AbsVal(last_sent_pose'[a] - last_sent_pose[a]) <= PeakVel * dt
    BY DEF Within
  <2>1. /\ last_sent_pose'[a] = Along(move.start[a], move.end[a], t, move.duration)
        /\ last_sent_pose[a] = Along(move.start[a], move.end[a], move.t, move.duration)
    BY <1>1 DEF IInv, MoveInv, PoseAt
  <2>2. /\ move.start[a] \in Int /\ move.end[a] \in Int /\ move.duration \in Nat \ {0}
        /\ move.t \in 0..move.duration /\ dt \in Nat /\ PeakVel \in Nat
    BY <1>1, <1>2, InputsAssumption
       DEF Trajectory, CartPose, IInv, MoveInv, GoodTrajectory
  <2>3. 8 * PeakVel * move.duration >= 15 * AbsVal(move.end[a] - move.start[a])
    BY <1>1, <1>11 DEF IInv, MoveInv, GoodTrajectory
  <2> QED BY <2>1, <2>2, <2>3, AlongStep DEF t
<1> QED BY <1>6, <1>7, <1>8, <1>9, <1>10, <1>11 DEF IInv

LEMMA GracefulStopSafe ==
  ASSUME IInv, NEW dt \in Period, GracefulStop(dt)
  PROVE  /\ IInv' /\ Within(MaxVel, dt)
         /\ rt_state # "MOVING" => Paced(dt)
         /\ hold >= 1 => hold' >= hold /\ last_sent_pose' = last_sent_pose
<1> DEFINE moving == ~Stopping /\ rt_state = "MOVING"
           T0   == IF moving THEN last_sent_pose ELSE stream_pose
           vel0 == IF moving THEN AtRest ELSE stream_vel
           acc0 == IF moving THEN AtRest ELSE stream_acc
           acc  == [a \in Axis |-> NextAcc(0, vel0[a], acc0[a], dt)]
           vel  == [a \in Axis |-> NextVel(vel0[a], acc[a], dt)]
           still == {a \in Axis : IsQuiet(vel[a], acc[a])}
           n    == IF Stopping THEN hold ELSE 0
<1>1. dt \in Nat
  BY InputsAssumption
<1>2. stream_pose \in CartPose /\ stream_vel \in CartPose /\ stream_acc \in CartPose
      /\ last_sent_pose \in CartPose /\ stream_target_pose \in CartPose
  BY DEF IInv, TypeOK
<1>3. T0 = last_sent_pose /\ vel0 \in CartPose /\ acc0 \in CartPose
  BY <1>2, AtRestType DEF IInv, StreamInSync, HoldInv
<1>4. /\ ~finished
      /\ stream_acc' = [a \in Axis |-> Settled(a \in still, acc[a])]
      /\ stream_vel' = [a \in Axis |-> Settled(a \in still, vel[a])]
      /\ stream_pose' = [a \in Axis |-> T0[a] + stream_vel'[a] * dt]
      /\ last_sent_pose' = stream_pose'
      /\ stream_target_pose' = IF Stopping THEN stream_target_pose ELSE T0
      /\ rt_state' = "STREAMING" /\ move' = NoMove
      /\ hold' = IF still = Axis THEN n + 1 ELSE 0
      /\ finished' = HeldEnough(hold')
  BY DEF GracefulStop, StopPose, HoldAfter, AllAxes
<1>5. hold >= 1 => vel0 = AtRest /\ acc0 = AtRest
  BY DEF IInv, HoldInv
<1>6. n \in 0..(HoldCycles - 1) /\ (hold >= 1 => n = hold)
  BY <1>4, InputsAssumption DEF IInv, TypeOK, HoldInv, Stopping
<1>7. \A a \in Axis : vel0[a] \in -MaxVel..MaxVel /\ acc0[a] \in -MaxAcc..MaxAcc
  BY GainsAssumption DEF IInv, GeneratorInv, AtRest
<1>8. rt_state # "MOVING" => vel0 = stream_vel
  OBVIOUS
<1> HIDE DEF moving, T0, vel0, acc0, n
<1>9. acc \in CartPose
  BY <1>1, <1>3, NextAccType DEF CartPose
<1>10. hold >= 1 => \A a \in Axis : acc[a] = 0
  BY <1>1, <1>5, RestIsQuiet DEF AtRest
<1>11. \A a \in Axis : acc[a] \in -MaxAcc..MaxAcc
  <2> SUFFICES ASSUME NEW a \in Axis PROVE acc[a] \in -MaxAcc..MaxAcc
    OBVIOUS
  <2>1. vel0[a] \in Int /\ acc0[a] \in -MaxAcc..MaxAcc /\ 0 \in Int
    BY <1>3, <1>7 DEF CartPose
  <2>2. acc[a] = NextAcc(0, vel0[a], acc0[a], dt)
    OBVIOUS
  <2> HIDE DEF acc
  <2> QED BY <1>1, <2>1, <2>2, NextAccBounded
<1> HIDE DEF acc
<1>12. \A a \in Axis : vel[a] \in -MaxVel..MaxVel
  BY <1>1, <1>3, <1>9, NextVelBounded DEF CartPose
<1>13. hold >= 1 => \A a \in Axis : vel[a] = 0
  BY <1>1, <1>5, <1>10, RestIsQuiet DEF AtRest
<1>14. \A a \in Axis : AbsVal(vel[a] - vel0[a]) <= MaxAcc * dt
  BY <1>1, <1>7, <1>11, NextVelStep
<1> HIDE DEF vel
<1>15. hold >= 1 => still = Axis
  BY <1>1, <1>10, <1>13, RestIsQuiet
<1>16. \A a \in Axis : \/ a \in still /\ AbsVal(vel[a]) < QuietVel /\ stream_vel'[a] = 0
                                     /\ stream_acc'[a] = 0
                       \/ a \notin still /\ stream_vel'[a] = vel[a] /\ stream_acc'[a] = acc[a]
  BY <1>4 DEF IsQuiet, Settled
<1> HIDE DEF still
<1>17. ASSUME NEW a \in Axis
       PROVE  /\ stream_vel'[a] \in Int /\ AbsVal(stream_vel'[a]) <= MaxVel
              /\ stream_acc'[a] \in Int
  <2>1. stream_vel'[a] \in {0, vel[a]} /\ stream_acc'[a] \in {0, acc[a]}
    BY <1>4 DEF Settled
  <2>2. vel[a] \in -MaxVel..MaxVel /\ acc[a] \in Int
    BY <1>9, <1>12 DEF CartPose
  <2> QED BY <2>1, <2>2, GainsAssumption DEF AbsVal
<1>18. stream_vel' \in CartPose /\ stream_acc' \in CartPose
  BY <1>4, <1>17 DEF CartPose
<1>19. still = Axis => stream_vel' = AtRest /\ stream_acc' = AtRest
  BY <1>4 DEF Settled, AtRest
<1>20. last_sent_pose' = [a \in Axis |-> last_sent_pose[a] + stream_vel'[a] * dt]
  BY <1>3, <1>4
<1>21. last_sent_pose' \in CartPose /\ Within(MaxVel, dt)
  BY <1>1, <1>2, <1>17, <1>18, <1>20, AdvanceBounded, GainsAssumption DEF Within
<1>22. ASSUME hold >= 1 PROVE last_sent_pose' = last_sent_pose
  <2>1. stream_vel' = AtRest
    BY <1>15, <1>19, <1>22
  <2>2. \A a \in Axis : last_sent_pose[a] + stream_vel'[a] * dt = last_sent_pose[a]
    BY <1>1, <1>2, <2>1 DEF AtRest, CartPose
  <2> QED BY <1>2, <1>20, <2>2 DEF CartPose
<1>23. hold' \in 0..HoldCycles /\ (hold >= 1 => hold' >= hold)
       /\ (hold' >= 1 => still = Axis)
  BY <1>4, <1>6, <1>15, InputsAssumption
<1>24. TypeOK'
  <2>1. NoMove \in Request
    BY AtRestType DEF NoMove, Request
  <2>2. finished' \in BOOLEAN
    BY <1>4 DEF HeldEnough
  <2>3. stream_target_pose' \in CartPose
    BY <1>2, <1>3, <1>4
  <2>4. GateTypeOK'
    BY <1>1, GateKept DEF GracefulStop, IInv
  <2> QED BY <1>4, <1>18, <1>21, <1>23, <2>1, <2>2, <2>3, <2>4, InputsAssumption
          DEF TypeOK, GateTypeOK
<1>25. StreamInSync'
  BY <1>4 DEF StreamInSync
<1>26. HoldInv'
  <2>1. HeldEnough(hold') => finished'
    BY <1>4, Zenon
  <2>2. ~HeldEnough(hold') => hold' < HoldCycles
    BY <1>23, InputsAssumption DEF HeldEnough
  <2> QED BY <1>4, <1>19, <1>23, <2>1, <2>2 DEF HoldInv
<1>27. GateInv'
  BY <1>1, GateKept DEF GracefulStop, IInv
<1>28. GeneratorInv' /\ MoveInv'
  BY <1>4, <1>11, <1>12, <1>16, GainsAssumption DEF GeneratorInv, MoveInv
<1>29. ASSUME rt_state # "MOVING" PROVE Paced(dt)
  <2> SUFFICES ASSUME NEW a \in Axis
               PROVE  LET moved == last_sent_pose'[a] - last_sent_pose[a]
                          slack == IF hold' >= 0 /\ moved = 0 THEN QuietVel ELSE 0
                      IN  AbsVal(moved - stream_vel[a] * dt) <= (MaxAcc * dt + slack) * dt
    BY DEF Paced
  <2> DEFINE v == stream_vel'[a]
  <2>1. /\ last_sent_pose[a] \in Int /\ v \in Int /\ vel[a] \in Int /\ stream_vel[a] \in Int
        /\ last_sent_pose'[a] = last_sent_pose[a] + v * dt
    BY <1>2, <1>12, <1>17, <1>20, GainsAssumption DEF CartPose
  <2>2. AbsVal(vel[a] - stream_vel[a]) <= MaxAcc * dt
    BY <1>8, <1>14, <1>29
  <2>3. MaxAcc * dt \in Nat /\ QuietVel \in Nat /\ 0 \in Nat /\ hold' >= 0
    BY <1>1, <1>23, GainsAssumption
  <2> HIDE DEF v
  <2>4. CASE v = vel[a]
    <3>1. ASSUME NEW slack \in Nat
          PROVE  AbsVal(last_sent_pose'[a] - last_sent_pose[a] - stream_vel[a] * dt)
                   <= (MaxAcc * dt + slack) * dt
      <4>1. AbsVal(v - stream_vel[a]) <= MaxAcc * dt + slack
        BY <2>1, <2>2, <2>3, <2>4 DEF AbsVal
      <4> QED BY <1>1, <1>2, <2>1, <4>1, PacedAxis
    <3> QED BY <2>3, <3>1
  <2>5. CASE v = 0 /\ AbsVal(vel[a]) < QuietVel
    <3>1. AbsVal(v - stream_vel[a]) <= MaxAcc * dt + QuietVel
      BY <2>1, <2>2, <2>3, <2>5 DEF AbsVal
    <3>2. last_sent_pose'[a] - last_sent_pose[a] = 0
      BY <1>1, <2>1, <2>5
    <3>3. AbsVal(last_sent_pose'[a] - last_sent_pose[a] - stream_vel[a] * dt)
            <= (MaxAcc * dt + QuietVel) * dt
      BY <1>1, <1>2, <2>1, <2>3, <3>1, PacedAxis
    <3> QED BY <2>3, <3>2, <3>3
  <2> QED BY <1>16, <2>4, <2>5 DEF v
<1> QED BY <1>21, <1>22, <1>23, <1>24, <1>25, <1>26, <1>27, <1>28, <1>29 DEF IInv

LEMMA HaltSafe == ASSUME IInv, Halt PROVE IInv'
<1>1. UNCHANGED <<last_sent_pose, otg, gate, rt_state, move, hold>> /\ finished' = TRUE
  BY DEF Halt
<1>2. TypeOK'
  BY <1>1 DEF IInv, TypeOK, otg, gate
<1>3. StreamInSync' /\ HoldInv' /\ GateInv'
  BY <1>1 DEF IInv, StreamInSync, HoldInv, GateInv, Stopping, otg, gate
<1>4. GeneratorInv' /\ MoveInv'
  BY <1>1 DEF IInv, GeneratorInv, MoveInv, otg
<1> QED BY <1>2, <1>3, <1>4 DEF IInv

LEMMA NextInv == IInv /\ [Next]_vars => IInv'
<1> SUFFICES ASSUME IInv, [Next]_vars PROVE IInv'
  OBVIOUS
<1>1. ASSUME NEW dt \in Period, Callback(dt) PROVE IInv'
  BY <1>1, StreamSafe, StartMoveSafe, BrakeSafe, FollowSafe, GracefulStopSafe DEF Callback
<1>2. CASE Halt
  BY <1>2, HaltSafe
<1>3. CASE UNCHANGED vars
  BY <1>3 DEF vars, otg, gate, IInv, TypeOK, StreamInSync, HoldInv, GateInv, Stopping,
              GeneratorInv, MoveInv
<1> QED BY <1>1, <1>2, <1>3 DEF Next

THEOREM Invariance == Spec => []IInv
  BY InitInv, NextInv, PTL DEF Spec

-----------------------------------------------------------------------------
(***************************************************************************)
(* The state is well typed: the count of quiet cycles never passes its     *)
(* end, and what is queued or under way fits the state.                    *)
(***************************************************************************)
THEOREM TypeCorrect == Spec => []TypeOK
  BY Invariance, PTL DEF IInv

(***************************************************************************)
(* While it streams, brakes for a move or stops, no callback moves an axis *)
(* faster than the velocity limit, however late it comes.                  *)
(***************************************************************************)
THEOREM StreamIsBounded == Spec => StreamSpeedBounded
<1>1. ASSUME IInv, NEW dt \in Period, rt_state # "MOVING" \/ Stopping', Callback(dt)
      PROVE  Within(MaxVel, dt)
  <2>1. Follow(dt) => ~Stopping'
    BY DEF Follow, Active, Stopping
  <2>2. StartMove(dt) => ~Stopping'
    BY DEF StartMove, Active, Stopping
  <2> QED BY <1>1, <2>1, <2>2, StreamSafe, StartMoveSafe, BrakeSafe, GracefulStopSafe
          DEF Callback, Follow
<1>2. IInv /\ [Next]_vars
        => [\A dt \in Period : (rt_state # "MOVING" \/ Stopping') /\ Callback(dt)
              => \A a \in Axis :
                   AbsVal(last_sent_pose'[a] - last_sent_pose[a]) <= MaxVel * dt]_vars
  BY <1>1 DEF Within
<1> QED BY Invariance, <1>2, PTL DEF Spec, StreamSpeedBounded

(***************************************************************************)
(* No command that is adopted is further from the target it replaces than  *)
(* MaxCmdVel allows in the time since the one adopted before it, whatever  *)
(* commands were dropped and moves made in between.                        *)
(***************************************************************************)
THEOREM CommandsAreBounded == Spec => AdoptedStepBounded
<1>1. ASSUME IInv, NEW dt \in Period, Stream(dt)
      PROVE  LET passed == IF adopted_age = NoCommand THEN MaxInterval
                       ELSE ClampTo(adopted_age + dt - adopted_age', MinInterval, MaxInterval)
             IN  ~Jumps(stream_target_pose', MaxCmdVel * passed)
  BY <1>1, GateBounds, InputsAssumption DEF Stream
<1>2. IInv /\ [Next]_vars
        => [\A dt \in Period : Stream(dt)
              => LET passed == IF adopted_age = NoCommand THEN MaxInterval
                       ELSE ClampTo(adopted_age + dt - adopted_age', MinInterval, MaxInterval)
                 IN  ~Jumps(stream_target_pose', MaxCmdVel * passed)]_vars
  BY <1>1
<1> QED BY Invariance, <1>2, PTL DEF Spec, AdoptedStepBounded

(***************************************************************************)
(* A trajectory that is not a replacement begins at the pose that is sent, *)
(* which is within the starting velocity of the one before.                *)
(***************************************************************************)
THEOREM MovesStartFromRest == Spec => MoveStartsFromRest
<1>1. ASSUME IInv, NEW dt \in Period, rt_state # "MOVING", rt_state' = "MOVING", Callback(dt)
      PROVE  move'.start = last_sent_pose' /\ Within(StartVel, dt)
  BY <1>1, StartMoveSafe, BrakeSafe DEF Callback, Stream, Follow, GracefulStop
<1>2. IInv /\ [Next]_vars
        => [\A dt \in Period : rt_state # "MOVING" /\ rt_state' = "MOVING" /\ Callback(dt)
              => /\ move'.start = last_sent_pose'
                 /\ \A a \in Axis :
                      AbsVal(last_sent_pose'[a] - last_sent_pose[a]) <= StartVel * dt]_vars
  BY <1>1 DEF Within
<1> QED BY Invariance, <1>2, PTL DEF Spec, MoveStartsFromRest

\* The callback in which a stop takes a move over is quiet already and sends the same pose.
LEMMA StopInPlace ==
  ASSUME IInv, NEW dt \in Period, rt_state = "MOVING", GracefulStop(dt)
  PROVE  last_sent_pose' = last_sent_pose /\ hold' = 1
<1> DEFINE acc == [a \in Axis |-> NextAcc(0, AtRest[a], AtRest[a], dt)]
           vel == [a \in Axis |-> NextVel(AtRest[a], acc[a], dt)]
           still == {a \in Axis : IsQuiet(vel[a], acc[a])}
<1>1. ~Stopping /\ dt \in Nat /\ last_sent_pose \in CartPose
  BY InputsAssumption DEF IInv, TypeOK, HoldInv
<1>2. /\ stream_vel' = [a \in Axis |-> Settled(a \in still, vel[a])]
      /\ last_sent_pose' = [a \in Axis |-> last_sent_pose[a] + stream_vel'[a] * dt]
      /\ hold' = HoldAfter(AllAxes(still), 0)
  BY <1>1 DEF GracefulStop, StopPose
<1>3. \A a \in Axis : acc[a] = 0
  BY <1>1, RestIsQuiet DEF AtRest
<1> HIDE DEF acc
<1>4. \A a \in Axis : vel[a] = 0
  BY <1>1, <1>3, RestIsQuiet DEF AtRest
<1> HIDE DEF vel
<1>5. still = Axis
  BY <1>1, <1>3, <1>4, RestIsQuiet
<1>6. \A a \in Axis : stream_vel'[a] = 0
  BY <1>2, <1>5 DEF Settled
<1> HIDE DEF still
<1>7. \A a \in Axis : last_sent_pose[a] + stream_vel'[a] * dt = last_sent_pose[a]
  BY <1>1, <1>6 DEF CartPose
<1> QED BY <1>1, <1>2, <1>5, <1>7 DEF CartPose, HoldAfter, AllAxes

(***************************************************************************)
(* A stop that interrupts a move leaves the pose sent last; and after the  *)
(* first quiet cycle of a stop the pose stays and the count of quiet       *)
(* cycles only grows, so the motion finishes after HoldCycles of them.     *)
(***************************************************************************)
THEOREM StopHolds == Spec => StopHoldsPose
<1>1. ASSUME IInv, Next, hold >= 1
      PROVE  hold' >= hold /\ last_sent_pose' = last_sent_pose
  <2>1. Stopping /\ hold \in Int
    BY <1>1 DEF Stopping, IInv, TypeOK
  <2>2. Halt \/ \E dt \in Period : GracefulStop(dt)
    BY <1>1, <2>1 DEF Next, Callback, Stream, StartMove, Brake, Follow, Active
  <2> QED BY <1>1, <2>1, <2>2, GracefulStopSafe DEF Halt
<1>2. ASSUME IInv, Next, rt_state = "MOVING", Stopping'
      PROVE  last_sent_pose' = last_sent_pose
  <2>1. ~Stopping
    BY <1>2 DEF IInv, HoldInv
  <2>2. PICK dt \in Period : GracefulStop(dt)
    BY <1>2, <2>1 DEF Next, Halt, Callback, Stream, StartMove, Brake, Follow, Stopping
  <2> QED BY <1>2, <2>2, StopInPlace
<1>3. IInv /\ [Next]_vars
        => [/\ rt_state = "MOVING" /\ Stopping' => last_sent_pose' = last_sent_pose
            /\ hold >= 1 => hold' >= hold /\ last_sent_pose' = last_sent_pose]_vars
  BY <1>1, <1>2
<1> QED BY Invariance, <1>3, PTL DEF Spec, StopHoldsPose

(***************************************************************************)
(* A trajectory with a computed duration keeps to the peak velocity in     *)
(* every callback, however late, from the first sample to the last and     *)
(* with its rounding: the peak of the min-jerk curve is 15/8 of its mean.  *)
(***************************************************************************)
THEOREM AutoMoveIsBounded == Spec => AutoMoveSpeedBounded
<1>1. ASSUME IInv, NEW dt \in Period, Follow(dt), move.auto
      PROVE  Within(PeakVel, dt)
  BY <1>1, FollowSafe
<1>2. IInv /\ [Next]_vars
        => [\A dt \in Period : Follow(dt) /\ move.auto
              => \A a \in Axis :
                   AbsVal(last_sent_pose'[a] - last_sent_pose[a]) <= PeakVel * dt]_vars
  BY <1>1 DEF Within
<1> QED BY Invariance, <1>2, PTL DEF Spec, AutoMoveSpeedBounded

(***************************************************************************)
(* From callback to callback the velocity of an axis changes by no more    *)
(* than MaxAcc allows: while it streams, when a move makes it brake, and   *)
(* when a stop takes the generator over and comes to rest.                 *)
(***************************************************************************)
THEOREM AccelerationIsBounded == Spec => AccelerationBounded
<1>1. ASSUME IInv, NEW dt \in Period, rt_state # "MOVING", Callback(dt)
      PROVE  Paced(dt)
  BY <1>1, StreamSafe, StartMoveSafe, BrakeSafe, GracefulStopSafe DEF Callback, Follow
<1>2. IInv /\ [Next]_vars
        => [\A dt \in Period : rt_state # "MOVING" /\ Callback(dt)
              => \A a \in Axis :
                   LET moved == last_sent_pose'[a] - last_sent_pose[a]
                       slack == IF hold' >= 0 /\ moved = 0 THEN QuietVel ELSE 0
                   IN  AbsVal(moved - stream_vel[a] * dt) <= (MaxAcc * dt + slack) * dt]_vars
  BY <1>1 DEF Paced
<1> QED BY Invariance, <1>2, PTL DEF Spec, AccelerationBounded

(***************************************************************************)
(* While a trajectory is under way, computed or given, the pose sent is    *)
(* between its two ends on every axis: a move does not overshoot.          *)
(***************************************************************************)
MoveBetweenEnds ==
  rt_state = "MOVING" =>
    \A a \in Axis : \/ last_sent_pose[a] \in move.start[a]..move.end[a]
                   \/ last_sent_pose[a] \in move.end[a]..move.start[a]

THEOREM MovesStayBetweenEnds == Spec => []MoveBetweenEnds
<1>1. IInv => MoveBetweenEnds
  <2> SUFFICES ASSUME IInv, rt_state = "MOVING", NEW a \in Axis
               PROVE  \/ last_sent_pose[a] \in move.start[a]..move.end[a]
                      \/ last_sent_pose[a] \in move.end[a]..move.start[a]
    BY DEF MoveBetweenEnds
  <2>1. /\ move.start[a] \in Int /\ move.end[a] \in Int
        /\ move.t \in Nat /\ move.duration \in Nat \ {0}
    BY DEF IInv, TypeOK, Trajectory, CartPose
  <2>2. last_sent_pose[a] = Along(move.start[a], move.end[a], move.t, move.duration)
    BY DEF IInv, MoveInv, PoseAt
  <2>3. last_sent_pose[a] \in Int
    BY DEF IInv, TypeOK, CartPose
  <2> QED BY <2>1, <2>2, <2>3, AlongBetween
<1> QED BY Invariance, <1>1, PTL
(***************************************************************************)
(* A move never turns back: every callback that follows a trajectory takes *)
(* each axis on towards its end or leaves it where it is.                  *)
(***************************************************************************)
NeverTurnsBack ==
  [][\A dt \in Period : Follow(dt)
       => \A a \in Axis : Towards(last_sent_pose'[a], last_sent_pose[a], move.end[a])]_vars

THEOREM MovesNeverTurnBack == Spec => NeverTurnsBack
<1>1. ASSUME IInv, NEW dt \in Period, Follow(dt), NEW a \in Axis
      PROVE  Towards(last_sent_pose'[a], last_sent_pose[a], move.end[a])
  <2>1. /\ move \in Trajectory /\ dt \in Nat
        /\ last_sent_pose[a] = Along(move.start[a], move.end[a], move.t, move.duration)
    BY <1>1, InputsAssumption DEF Follow, IInv, TypeOK, MoveInv, PoseAt
  <2>2. /\ move.start[a] \in Int /\ move.end[a] \in Int
        /\ move.t \in Nat /\ move.duration \in Nat \ {0}
    BY <2>1 DEF Trajectory, CartPose
  <2>3. last_sent_pose'[a] = Along(move.start[a], move.end[a], move.t + dt, move.duration)
    BY <1>1 DEF Follow
  <2> QED BY <2>1, <2>2, <2>3, AlongTowards
<1>2. IInv /\ [Next]_vars
        => [\A dt \in Period : Follow(dt)
              => \A a \in Axis :
                   Towards(last_sent_pose'[a], last_sent_pose[a], move.end[a])]_vars
  BY <1>1
<1> QED BY Invariance, <1>2, PTL DEF Spec, NeverTurnsBack

(***************************************************************************)
(* A stop that takes a trajectory over leaves the arm at the pose sent     *)
(* last, in the very callback that sees it, and that callback is the first *)
(* quiet one: a stop brakes what was streamed, not what was moved.         *)
(***************************************************************************)
StopDropsMoveInPlace ==
  [][\A dt \in Period : rt_state = "MOVING" /\ GracefulStop(dt)
       => last_sent_pose' = last_sent_pose /\ hold' = 1]_vars

THEOREM StopDropsMove == Spec => StopDropsMoveInPlace
<1>1. IInv /\ [Next]_vars
        => [\A dt \in Period : rt_state = "MOVING" /\ GracefulStop(dt)
              => last_sent_pose' = last_sent_pose /\ hold' = 1]_vars
  BY StopInPlace
<1> QED BY Invariance, <1>1, PTL DEF Spec, StopDropsMoveInPlace
=============================================================================
