-------------------------- MODULE CartesianMotion --------------------------
(***************************************************************************)
(* What the RT callback of CartesianControl sends to the robot: the poses  *)
(* behind the control flow of module CartesianControl.  One step is one    *)
(* callback; what Python and libfranka supply (a command, a move request,  *)
(* a stop, the time since the last callback) is its input.  A pose is its  *)
(* coordinates; the generator of the rotation has the structure of that of *)
(* the translation.  Inputs are finite numbers here.                       *)
(***************************************************************************)
EXTENDS OnlineTrajectory

CONSTANTS Axis,         \* translation along x, y, z and the rotation
          Start,        \* poses the robot can be in when the loop begins
          Target,       \* poses a caller can ask for
          Period,       \* times between two callbacks, in ms; 1 is nominal
          MinInterval, DefaultInterval, MaxInterval,   \* kMinCommandInterval, ...
          MaxCmdVel,    \* kMaxPositionVelocity, kMaxRotationVelocity
          Duration,     \* durations a caller gives to a move, 0 for automatic
          StartVel, StartAcc,  \* kMoveStartMaxVel, kMoveStartMaxAcc
          PeakVel,      \* kMaxLinearVel, kMaxAngularVel
          MinDuration,  \* kMinDuration
          MaxDuration,  \* bound: no automatic duration is longer
          HoldCycles    \* quiet cycles before a stop finishes the motion

CartPose == [Axis -> Int]
AtRest == [a \in Axis |-> 0]

ASSUME InputsAssumption ==
  /\ Start \subseteq CartPose /\ Target \subseteq CartPose
  /\ Period \subseteq Nat \ {0} /\ Duration \subseteq Nat
  /\ MinInterval \in Nat /\ DefaultInterval \in Nat /\ MaxInterval \in Nat
  /\ MinInterval <= DefaultInterval /\ DefaultInterval <= MaxInterval
  /\ MaxCmdVel \in Nat
  /\ StartVel \in Nat /\ StartAcc \in Nat /\ PeakVel \in Nat \ {0}
  /\ MinDuration \in Nat \ {0} /\ MaxDuration \in Nat /\ HoldCycles \in Nat \ {0}

VARIABLES last_sent_pose, stream_pose, stream_vel, stream_acc, stream_target_pose,
          last_cmd_age,  \* how long ago last_cmd_time was, or NoCommand
          adopted_age,   \* how long ago the last command that passed the gate was sent
          rt_state,   \* STREAMING, STOPPING_FOR_MOVE or MOVING
          move,       \* the queued request or the trajectory of rt_state, or NoMove
          hold,       \* graceful_stop_hold_cycles; -1 before a stop
          finished    \* MotionFinished was returned

otg  == <<stream_pose, stream_vel, stream_acc, stream_target_pose>>
gate == <<last_cmd_age, adopted_age>>
vars == <<last_sent_pose, otg, gate, rt_state, move, hold, finished>>

NoCommand  == -1
NoMove     == [end |-> AtRest, duration |-> 0]
Request    == [end : CartPose, duration : Nat]
Trajectory == [start : CartPose, end : CartPose, t : Nat, duration : Nat \ {0},
               auto : BOOLEAN]       \* the duration was computed

TypeOK ==
  /\ last_sent_pose \in CartPose /\ stream_pose \in CartPose
  /\ stream_vel \in CartPose /\ stream_acc \in CartPose
  /\ stream_target_pose \in CartPose
  /\ last_cmd_age \in NoCommand..MaxInterval /\ adopted_age \in NoCommand..MaxInterval
  /\ rt_state \in {"STREAMING", "STOPPING_FOR_MOVE", "MOVING"}
  /\ move \in IF rt_state = "MOVING" THEN Trajectory ELSE Request
  /\ hold \in -1..HoldCycles /\ finished \in BOOLEAN

\* After `first_cycle`: everything starts from the robot's O_T_EE_c, at rest.
Init ==
  /\ last_sent_pose \in Start
  /\ stream_pose = last_sent_pose /\ stream_target_pose = last_sent_pose
  /\ stream_vel = AtRest /\ stream_acc = AtRest
  /\ last_cmd_age = NoCommand /\ adopted_age = NoCommand
  /\ rt_state = "STREAMING" /\ move = NoMove
  /\ hold = -1 /\ finished = FALSE

Stopping == hold >= 0
Active == ~finished /\ ~Stopping

-----------------------------------------------------------------------------
(* The generator *)

Acc(target, dt) == [a \in Axis |-> NextAcc(target[a] - stream_pose[a], stream_vel[a],
                                           stream_acc[a], dt)]
Vel(acc, dt) == [a \in Axis |-> NextVel(stream_vel[a], acc[a], dt)]
Advanced(vel, dt) == [a \in Axis |-> stream_pose[a] + vel[a] * dt]

-----------------------------------------------------------------------------
(* The gate for commands *)

\* Ages count up to MaxInterval, above which they make no difference.
AtAge(age) == ClampTo(age, 0, MaxInterval)
Aged(age, dt) == IF age = NoCommand THEN NoCommand ELSE AtAge(age + dt)

\* A cycle in which no command is looked at.
GateWaits(dt) ==
  last_cmd_age' = Aged(last_cmd_age, dt) /\ adopted_age' = Aged(adopted_age, dt)

\* cmd_interval_sec for a command sent `age` before this callback: the time since
\* the command looked at before it.
CmdInterval(age, dt) ==
  IF last_cmd_age = NoCommand THEN DefaultInterval
  ELSE ClampTo(last_cmd_age + dt - age, MinInterval, MaxInterval)

Jumps(T, limit) == \E a \in Axis : AbsVal(T[a] - stream_target_pose[a]) > limit

\* Bug (mutant): last_cmd_time stays at the first command.
ConsiderSinceFirst(T, age, dt) ==
  /\ IF Jumps(T, MaxCmdVel * CmdInterval(age, dt))
     THEN UNCHANGED stream_target_pose /\ adopted_age' = Aged(adopted_age, dt)
     ELSE stream_target_pose' = T /\ adopted_age' = AtAge(age)
  /\ last_cmd_age' = IF last_cmd_age = NoCommand THEN AtAge(age) ELSE Aged(last_cmd_age, dt)

\* A command that jumps is dropped; the next interval is measured from it even so.
Consider(T, age, dt) ==
  /\ IF Jumps(T, MaxCmdVel * CmdInterval(age, dt))
     THEN UNCHANGED stream_target_pose /\ adopted_age' = Aged(adopted_age, dt)
     ELSE stream_target_pose' = T /\ adopted_age' = AtAge(age)
  /\ last_cmd_age' = AtAge(age)

\* The newest command since the last callback, if there is one that is a pose.
Command(dt) ==
  \/ UNCHANGED stream_target_pose /\ GateWaits(dt)
  \/ \E T \in Target, age \in 0..dt : Consider(T, age, dt)

Stream(dt) ==
  /\ Active /\ rt_state = "STREAMING"
  /\ Command(dt)
  /\ stream_acc' = Acc(stream_target_pose', dt)
  /\ stream_vel' = Vel(stream_acc', dt)
  /\ stream_pose' = Advanced(stream_vel', dt)
  /\ last_sent_pose' = stream_pose'
  /\ UNCHANGED <<rt_state, move, hold, finished>>

-----------------------------------------------------------------------------
(* STOPPING_FOR_MOVE *)

\* Bug (mutant): the peak of the velocity is taken for its mean.
IsMeanDuration(d, start, end) ==
  LET Enough(n) == \A a \in Axis : PeakVel * n >= AbsVal(end[a] - start[a])
  IN  d >= MinDuration /\ Enough(d) /\ (d = MinDuration \/ ~Enough(d - 1))

\* d = max(1.875 * distance / peak velocity, kMinDuration), rounded up.
IsComputedDuration(d, start, end) ==
  LET Enough(n) == \A a \in Axis : 8 * PeakVel * n >= 15 * AbsVal(end[a] - start[a])
  IN  d >= MinDuration /\ Enough(d) /\ (d = MinDuration \/ ~Enough(d - 1))

\* move_traj.init: the trajectory of a request from a pose.
IsTrajectory(traj, start, request) ==
  /\ traj.start = start /\ traj.end = request.end /\ traj.t = 0
  /\ traj.auto = (request.duration = 0)
  /\ IF traj.auto THEN IsComputedDuration(traj.duration, start, request.end)
                  ELSE traj.duration = request.duration

\* Bug (mutant): one axis is enough.
QuietForMoveByOne(vel, acc) ==
  \E a \in Axis : AbsVal(vel[a]) <= StartVel /\ AbsVal(acc[a]) <= StartAcc

QuietForMove(vel, acc) ==
  \A a \in Axis : AbsVal(vel[a]) <= StartVel /\ AbsVal(acc[a]) <= StartAcc

\* The generator goes on towards the target until it is quiet; then the queued
\* request becomes a trajectory that starts at the pose sent.
StepToMove(request, dt) ==
  LET acc == Acc(stream_target_pose', dt)
      vel == Vel(acc, dt)
  IN  /\ stream_pose' = Advanced(vel, dt)
      /\ last_sent_pose' = stream_pose'
      /\ \/ /\ QuietForMove(vel, acc)
            /\ stream_vel' = AtRest /\ stream_acc' = AtRest
            /\ rt_state' = "MOVING"
            /\ \E d \in 1..MaxDuration :
                 /\ move' = [start |-> stream_pose', end |-> request.end, t |-> 0,
                             duration |-> d, auto |-> request.duration = 0]
                 /\ IsTrajectory(move', stream_pose', request)
         \/ /\ ~QuietForMove(vel, acc)
            /\ stream_vel' = vel /\ stream_acc' = acc
            /\ rt_state' = "STOPPING_FOR_MOVE"
            /\ move' = request

\* A request is picked up: the target becomes the pose sent last.
StartMove(dt) ==
  /\ Active
  /\ stream_target_pose' = last_sent_pose
  /\ \E T \in Target, duration \in Duration :
       StepToMove([end |-> T, duration |-> duration], dt)
  /\ GateWaits(dt)
  /\ UNCHANGED <<hold, finished>>

\* Bug (mutant): commands are adopted in every state but MOVING.
BrakeFollowing(dt) ==
  /\ Active /\ rt_state = "STOPPING_FOR_MOVE"
  /\ Command(dt)
  /\ StepToMove(move, dt)
  /\ UNCHANGED <<hold, finished>>

\* Commands are not adopted: the target stays where the request found the arm.
Brake(dt) ==
  /\ Active /\ rt_state = "STOPPING_FOR_MOVE"
  /\ UNCHANGED stream_target_pose /\ GateWaits(dt)
  /\ StepToMove(move, dt)
  /\ UNCHANGED <<hold, finished>>

-----------------------------------------------------------------------------
(* MOVING *)

\* Bug (mutant): the generator is left where the move began.
ReseedNothing(T) == UNCHANGED otg

\* After a move the generator goes on from its end, at rest.
Reseed(T) ==
  /\ stream_pose' = T /\ stream_target_pose' = T
  /\ stream_vel' = AtRest /\ stream_acc' = AtRest

Follow(dt) ==
  LET t == move.t + dt
  IN  /\ Active /\ rt_state = "MOVING"
      /\ last_sent_pose' =
           [a \in Axis |-> Along(move.start[a], move.end[a], t, move.duration)]
      /\ \/ /\ t < move.duration
            /\ move' = [move EXCEPT !.t = t]
            /\ UNCHANGED <<otg, rt_state>>
         \/ /\ t >= move.duration
            /\ rt_state' = "STREAMING" /\ move' = NoMove
            /\ Reseed(last_sent_pose')
      /\ GateWaits(dt)
      /\ UNCHANGED <<hold, finished>>

-----------------------------------------------------------------------------
(* Graceful stop *)

\* An axis that is quiet is put to rest.
Settled(quiet, x) == IF quiet THEN 0 ELSE x

\* quiet, for the translation and the rotation together.
AnyAxis(still) == still # {}                         \* Bug (mutant)
AllAxes(still) == still = Axis

\* graceful_stop_hold_cycles after a cycle, and when the motion may finish.
HoldAfterStuck(quiet, n) == IF quiet THEN 1 ELSE 0   \* Bug (mutant)
HoldAfter(quiet, n) == IF quiet THEN n + 1 ELSE 0
HeldEnoughLate(n) == n > HoldCycles                  \* Bug (mutant): off by one
HeldEnough(n) == n >= HoldCycles

\* Bug (mutant): a stop brakes from where the generator was left.
GeneratorPose(moving) == stream_pose

\* The pose a callback of the stop goes on from.
StopPose(moving) == IF moving THEN last_sent_pose ELSE stream_pose

\* Brake within the limits of the generator.  The first cycle drops a queued
\* move, and a move under way at the pose sent last.
GracefulStop(dt) ==
  LET moving == ~Stopping /\ rt_state = "MOVING"
      T0   == StopPose(moving)
      vel0 == IF moving THEN AtRest ELSE stream_vel
      acc0 == IF moving THEN AtRest ELSE stream_acc
      acc  == [a \in Axis |-> NextAcc(0, vel0[a], acc0[a], dt)]
      vel  == [a \in Axis |-> NextVel(vel0[a], acc[a], dt)]
      still == {a \in Axis : IsQuiet(vel[a], acc[a])}
      n    == IF Stopping THEN hold ELSE 0
  IN  /\ ~finished
      /\ stream_acc' = [a \in Axis |-> Settled(a \in still, acc[a])]
      /\ stream_vel' = [a \in Axis |-> Settled(a \in still, vel[a])]
      /\ stream_pose' = [a \in Axis |-> T0[a] + stream_vel'[a] * dt]
      /\ last_sent_pose' = stream_pose'
      /\ stream_target_pose' = IF Stopping THEN stream_target_pose ELSE T0
      /\ rt_state' = "STREAMING" /\ move' = NoMove
      /\ GateWaits(dt)
      /\ hold' = HoldAfter(AllAxes(still), n)
      /\ finished' = HeldEnough(hold')

\* An estop or a fault: the motion finishes at the pose sent last.
Halt ==
  /\ ~finished /\ finished' = TRUE
  /\ UNCHANGED <<last_sent_pose, otg, gate, rt_state, move, hold>>

Callback(dt) == Stream(dt) \/ StartMove(dt) \/ Brake(dt) \/ Follow(dt) \/ GracefulStop(dt)

Next == Halt \/ \E dt \in Period : Callback(dt)

Spec == Init /\ [][Next]_vars

\* libfranka keeps calling back while a move is queued and while a stop brakes.
FairSpec ==
  /\ Spec
  /\ WF_vars(rt_state = "STOPPING_FOR_MOVE" /\ \E dt \in Period : Callback(dt))
  /\ WF_vars(Stopping /\ \E dt \in Period : GracefulStop(dt))
-----------------------------------------------------------------------------
(* Safety *)

(***************************************************************************)
(* "Every callback returns a smooth pose sample": while it streams, brakes *)
(* for a move or stops, also when the stop interrupts a move, a callback   *)
(* moves no axis further from the pose sent last than the velocity limit   *)
(* allows in the time that has passed.                                     *)
(***************************************************************************)
StreamSpeedBounded ==
  [][\A dt \in Period : (rt_state # "MOVING" \/ Stopping') /\ Callback(dt)
       => \A a \in Axis : AbsVal(last_sent_pose'[a] - last_sent_pose[a]) <= MaxVel * dt]_vars

(***************************************************************************)
(* "Continuous velocity/acceleration state": while it streams, brakes for  *)
(* a move or stops, an axis moves on at the generator's velocity but for   *)
(* what MaxAcc allows in the time that has passed (a stop also drops a     *)
(* velocity below QuietVel): the stages take each other's state over.      *)
(***************************************************************************)
AccelerationBounded ==
  [][\A dt \in Period : rt_state # "MOVING" /\ Callback(dt)
       => \A a \in Axis :
            LET moved == last_sent_pose'[a] - last_sent_pose[a]
                slack == IF hold' >= 0 /\ moved = 0 THEN QuietVel ELSE 0
            IN  AbsVal(moved - stream_vel[a] * dt) <= (MaxAcc * dt + slack) * dt]_vars

(***************************************************************************)
(* "Max instantaneous step velocity": a command that is adopted is no      *)
(* further from the target it replaces than MaxCmdVel allows in the time   *)
(* since the command adopted before it was sent, and in no more than       *)
(* MaxInterval: neither dropped commands nor moves in between add up.      *)
(***************************************************************************)
AdoptedStepBounded ==
  [][\A dt \in Period : Stream(dt)
       => LET passed == IF adopted_age = NoCommand THEN MaxInterval
                        ELSE ClampTo(adopted_age + dt - adopted_age', MinInterval, MaxInterval)
          IN  ~Jumps(stream_target_pose', MaxCmdVel * passed)]_vars

(***************************************************************************)
(* A move with a computed duration keeps to the peak velocity, from its    *)
(* first sample to its last, also when callbacks come late.                *)
(***************************************************************************)
AutoMoveSpeedBounded ==
  [][\A dt \in Period : Follow(dt) /\ move.auto
       => \A a \in Axis :
            AbsVal(last_sent_pose'[a] - last_sent_pose[a]) <= PeakVel * dt]_vars

(***************************************************************************)
(* "Decelerating before reset trajectory": the callback that starts a      *)
(* trajectory has slowed the stream down to the velocity that counts as    *)
(* quiet, and the trajectory starts at the pose it sends.                  *)
(***************************************************************************)
MoveStartsFromRest ==
  [][\A dt \in Period : rt_state # "MOVING" /\ rt_state' = "MOVING" /\ Callback(dt)
       => /\ move'.start = last_sent_pose'
          /\ \A a \in Axis :
               AbsVal(last_sent_pose'[a] - last_sent_pose[a]) <= StartVel * dt]_vars

(***************************************************************************)
(* A stop that interrupts a move keeps the arm where the move has brought  *)
(* it, not where the generator was left; and once a stop has seen one      *)
(* quiet cycle the pose stays: the count of quiet cycles that ends the     *)
(* motion never starts over.                                               *)
(***************************************************************************)
StopHoldsPose ==
  [][/\ rt_state = "MOVING" /\ Stopping' => last_sent_pose' = last_sent_pose
     /\ hold >= 1 => hold' >= hold /\ last_sent_pose' = last_sent_pose]_vars

(* Liveness *)

(***************************************************************************)
(* A graceful stop brakes to rest and finishes the motion, whichever state *)
(* it interrupts.                                                          *)
(***************************************************************************)
StopComesToRest == Stopping ~> finished

(***************************************************************************)
(* A queued move does not wait for ever: the generator becomes quiet, from *)
(* every velocity and acceleration it can have and with late callbacks,    *)
(* unless the motion is stopped or newer requests keep coming.             *)
(***************************************************************************)
BrakingEnds ==
  <>[][\A dt \in Period : ~StartMove(dt)]_vars
    => (rt_state = "STOPPING_FOR_MOVE" ~> rt_state # "STOPPING_FOR_MOVE" \/ finished)

-----------------------------------------------------------------------------
(* What the comments claim and the code does not do *)

(***************************************************************************)
(* "Continuous velocity/acceleration state; no segment-boundary re-init"   *)
(* (cartesian_control.hpp): a callback that brakes for a move moves no     *)
(* axis further than the velocity limit, whatever it interrupts.           *)
(***************************************************************************)
BrakingIsSmooth ==
  [][\A dt \in Period : StartMove(dt) /\ rt_state' = "STOPPING_FOR_MOVE"
       => \A a \in Axis : AbsVal(last_sent_pose'[a] - last_sent_pose[a]) <= MaxVel * dt]_vars
=============================================================================
