----------------------------- MODULE JointMotion -----------------------------
(***************************************************************************)
(* What the RT callback of JointPositionControl sends to the robot: the    *)
(* positions behind the control flow of module JointPositionControl.  One  *)
(* step is one callback; what Python and libfranka supply (a command, a    *)
(* move request, a stop, the time since the last callback) is its input.   *)
(* Inputs are finite numbers here.                                         *)
(***************************************************************************)
EXTENDS JointLimits, FiniteSets

CONSTANTS Start,       \* poses the robot can be in when the loop begins
          Target,      \* poses a caller can ask for
          Period,      \* times between two callbacks, in ms; 1 is nominal
          JumpLimit,   \* the thresholds the measured command interval yields
          Duration,    \* durations a caller gives to a move, 0 for automatic
          MinDuration, \* kMinMoveDuration
          MaxDuration, \* bound: no move within the limits takes longer
          VelBudget,   \* kAutoVelBudget
          HoldCycles   \* quiet cycles before a stop finishes the motion

ASSUME InputsAssumption ==
  /\ Start \subseteq Pose
  /\ \A q \in Start, j \in Joint : q[j] \in QMin[j]..QMax[j]
  /\ Target \subseteq Pose
  /\ Period \subseteq Nat \ {0} /\ JumpLimit \subseteq Nat /\ Duration \subseteq Nat
  /\ MinDuration \in Nat \ {0} /\ MaxDuration \in Nat
  /\ VelBudget \in Nat \ {0} /\ HoldCycles \in Nat \ {0}

VARIABLES last_sent_q, stream_q, stream_dq, stream_ddq, stream_target_q,
          rt_state,     \* STREAMING or MOVING
          move_state,   \* the segment under way, or the last one
          hold,         \* graceful_stop_hold_cycles; -1 before a stop
          outcome       \* what the last callback did

otg  == <<stream_q, stream_dq, stream_ddq, stream_target_q>>
vars == <<last_sent_q, otg, rt_state, move_state, hold, outcome>>

Segment == [q_start : Pose, q_end : Pose, t : Nat, duration : Nat \ {0},
            auto : BOOLEAN,        \* the duration was computed
            replaced : BOOLEAN]    \* it began while another segment was under way

Outcome == {"streamed", "stream_clamped", "moved", "completed", "move_clamped",
            "stopping", "finished"}

TypeOK ==
  /\ last_sent_q \in Pose /\ stream_q \in Pose
  /\ stream_dq \in Pose /\ stream_ddq \in Pose /\ stream_target_q \in Pose
  /\ rt_state \in {"STREAMING", "MOVING"}
  /\ move_state \in Segment
  /\ hold \in -1..HoldCycles
  /\ outcome \in Outcome

\* After `first_cycle`: everything starts from the robot's q_d, at rest.
Init ==
  /\ last_sent_q \in Start
  /\ stream_q = last_sent_q /\ stream_target_q = last_sent_q
  /\ stream_dq = Zero /\ stream_ddq = Zero
  /\ rt_state = "STREAMING"
  /\ move_state = [q_start |-> last_sent_q, q_end |-> last_sent_q, t |-> 0,
                   duration |-> MinDuration, auto |-> FALSE, replaced |-> FALSE]
  /\ hold = -1 /\ outcome = "streamed"

Active == outcome # "finished"
Stopping == hold >= 0

\* Bug (mutant): the OTG goes on from where it wanted to be.
SendClampedUnsynced(cmd) ==
  /\ last_sent_q' = ClampJointPosition(cmd, last_sent_q)
  /\ stream_q' = cmd
  /\ stream_dq' = Zero /\ stream_ddq' = Zero

\* Send cmd after the hard limit and the velocity cap.  If they change it the
\* OTG restarts from rest at what was sent.
SendClamped(cmd) ==
  /\ last_sent_q' = ClampJointPosition(cmd, last_sent_q)
  /\ stream_q' = last_sent_q'
  /\ stream_dq' = Zero /\ stream_ddq' = Zero

-----------------------------------------------------------------------------
(* STREAMING *)

\* A command is dropped if some joint steps further than the threshold.
Jumps(q, limit) == \E j \in Joint : AbsVal(q[j] - stream_target_q[j]) > limit

Retarget(cmd, limit) ==
  stream_target_q' = IF Jumps(cmd, limit) THEN stream_target_q ELSE cmd

\* The OTG integrates one cycle towards the (new) target; the result is sent.
OtgStep(dt) ==
  LET ddq == [j \in Joint |-> NextAcc(stream_target_q'[j] - stream_q[j],
                                      stream_dq[j], stream_ddq[j], dt)]
      dq  == [j \in Joint |-> NextVel(stream_dq[j], ddq[j], dt)]
      q   == [j \in Joint |-> stream_q[j] + dq[j] * dt]
  IN  \/ /\ ~IsClamped(q, last_sent_q)
         /\ last_sent_q' = q /\ stream_q' = q
         /\ stream_dq' = dq /\ stream_ddq' = ddq
         /\ outcome' = "streamed"
      \/ /\ IsClamped(q, last_sent_q)
         /\ SendClamped(q)
         /\ outcome' = "stream_clamped"

Stream(dt) ==
  /\ Active /\ ~Stopping /\ rt_state = "STREAMING"
  /\ \/ UNCHANGED stream_target_q
     \/ \E cmd \in Target, limit \in JumpLimit : Retarget(cmd, limit)
  /\ OtgStep(dt)
  /\ UNCHANGED <<rt_state, move_state, hold>>

-----------------------------------------------------------------------------
(* MOVING *)

\* Bug (mutant): the mean velocity is held to the budget, not the peak.
IsMeanDuration(d, q_end) ==
  LET Enough(n) == \A j \in Joint : VelBudget * n >= AbsVal(q_end[j] - stream_q[j])
  IN  d >= MinDuration /\ Enough(d) /\ (d = MinDuration \/ ~Enough(d - 1))

\* d = max(1.875 * max|dq| / kAutoVelBudget, kMinMoveDuration), rounded up.
IsAutoDuration(d, q_end) ==
  LET Enough(n) == \A j \in Joint :
                     8 * VelBudget * n >= 15 * AbsVal(q_end[j] - stream_q[j])
  IN  d >= MinDuration /\ Enough(d) /\ (d = MinDuration \/ ~Enough(d - 1))

\* The duration of a request for `duration` is d.
IsDuration(d, duration, q_end) ==
  IF duration = 0 THEN IsAutoDuration(d, q_end)
                  ELSE d = IF duration < MinDuration THEN MinDuration ELSE duration

\* The segment of a request that is picked up in this callback.
NewSegment(q_end, d, duration) ==
  [q_start |-> stream_q, q_end |-> q_end, t |-> 0, duration |-> d,
   auto |-> duration = 0, replaced |-> rt_state = "MOVING"]

\* Where the segment is after dt, and what is sent for it.
Follow(seg, dt) ==
  LET t   == seg.t + dt
      cmd == SegmentPose(seg.q_start, seg.q_end, t, seg.duration)
      clamped == IsClamped(cmd, last_sent_q)
  IN  /\ move_state' = [seg EXCEPT !.t = t]
      /\ \/ /\ t < seg.duration /\ ~clamped
            /\ rt_state' = "MOVING" /\ outcome' = "moved"
            /\ last_sent_q' = cmd
            /\ UNCHANGED otg
         \/ /\ t < seg.duration /\ clamped
            /\ rt_state' = "STREAMING" /\ outcome' = "move_clamped"
            /\ SendClamped(cmd)
            /\ stream_target_q' = last_sent_q'
         \/ /\ t >= seg.duration
            /\ rt_state' = "STREAMING"
            /\ outcome' = IF clamped THEN "move_clamped" ELSE "completed"
            /\ SendClamped(seg.q_end)
            /\ stream_target_q' = seg.q_end

BeginMove(dt) ==
  /\ Active /\ ~Stopping
  /\ \E target \in Target, duration \in Duration, d \in 1..MaxDuration :
       LET q_end == ClampToLimits(target)
       IN  IsDuration(d, duration, q_end) /\ Follow(NewSegment(q_end, d, duration), dt)
  /\ UNCHANGED hold

Move(dt) ==
  /\ Active /\ ~Stopping /\ rt_state = "MOVING"
  /\ Follow(move_state, dt)
  /\ UNCHANGED hold

-----------------------------------------------------------------------------
(* Graceful stop *)

\* A joint that is quiet is put to rest.
SettledMoving(quiet, x) == x                         \* Bug (mutant)
Settled(quiet, x) == IF quiet THEN 0 ELSE x

HeldEnoughLate(n) == n > HoldCycles                  \* Bug (mutant): off by one
HeldEnough(n) == n >= HoldCycles

\* Brake along the OTG's own jerk and acceleration limits.  A move is dropped
\* at the pose sent last; the target no longer matters.
GracefulStop(dt) ==
  LET moving == ~Stopping /\ rt_state = "MOVING"
      q0   == IF moving THEN last_sent_q ELSE stream_q
      dq0  == IF moving THEN Zero ELSE stream_dq
      ddq0 == IF moving THEN Zero ELSE stream_ddq
      ddq  == [j \in Joint |-> NextAcc(0, dq0[j], ddq0[j], dt)]
      dq   == [j \in Joint |-> NextVel(dq0[j], ddq[j], dt)]
      still == {j \in Joint : IsQuiet(dq[j], ddq[j])}
      n    == IF Stopping THEN hold ELSE 0
  IN  /\ Active
      /\ stream_ddq' = [j \in Joint |-> Settled(j \in still, ddq[j])]
      /\ stream_dq'  = [j \in Joint |-> Settled(j \in still, dq[j])]
      /\ last_sent_q' = ClampJointPosition(
                          [j \in Joint |-> q0[j] + stream_dq'[j] * dt], last_sent_q)
      /\ stream_q' = last_sent_q'
      /\ stream_target_q' = IF Stopping THEN stream_target_q ELSE q0
      /\ rt_state' = "STREAMING"
      /\ hold' = IF still = Joint THEN n + 1 ELSE 0
      /\ outcome' = IF HeldEnough(hold') THEN "finished" ELSE "stopping"
      /\ UNCHANGED move_state

\* An estop or a fault: the motion finishes at the pose sent last.
Halt ==
  /\ Active
  /\ outcome' = "finished"
  /\ UNCHANGED <<last_sent_q, otg, rt_state, move_state, hold>>

Next == Halt \/ \E dt \in Period : Stream(dt) \/ BeginMove(dt) \/ Move(dt) \/ GracefulStop(dt)

Spec == Init /\ [][Next]_vars

\* libfranka keeps calling back, and stop_requested_ stays set.
FairSpec == Spec /\ WF_vars(Stopping /\ \E dt \in Period : GracefulStop(dt))
-----------------------------------------------------------------------------
(* Safety *)

(***************************************************************************)
(* Whatever is commanded, streamed, moved to or stopped from, every pose   *)
(* sent to the robot is within the joint limits.                           *)
(***************************************************************************)
PoseInLimits == \A j \in Joint : last_sent_q[j] \in QMin[j]..QMax[j]

(***************************************************************************)
(* Two poses sent one after the other never differ by more than the        *)
(* velocity cap of a joint: also when the hard limit, a second move or a   *)
(* stop interferes.                                                        *)
(***************************************************************************)
RateBounded ==
  [][\A j \in Joint : AbsVal(last_sent_q'[j] - last_sent_q[j]) <= VelStep[j]]_vars

(***************************************************************************)
(* "stream_q drifts away from what the robot was told" does not happen:    *)
(* while streaming, also after a clamp, a completed or a clamped move, the *)
(* OTG is where the robot was sent.                                        *)
(***************************************************************************)
OtgInSync == rt_state = "STREAMING" => stream_q = last_sent_q

\* The budget of an automatic duration is below what the clamp lets pass in the
\* time between two callbacks: by a factor of 5 in the code, which leaves room
\* for callbacks up to 5 ms apart (VelStep is 2.62 mrad and more, VelBudget 0.5 mrad per ms).
RoomForLateCallbacks == \A dt \in Period, j \in Joint : VelBudget * dt <= VelStep[j]

(***************************************************************************)
(* "duration_sec=0 auto-computes a safe duration": such a move, begun from *)
(* the streamed pose, is never cut short by the clamp, even when callbacks *)
(* come late.                                                              *)
(***************************************************************************)
AutoMoveIsSafe ==
  outcome = "move_clamped" => ~move_state.auto \/ move_state.replaced

(***************************************************************************)
(* "Bounded jerk + acc + vel.  This is a continuous filter": while the     *)
(* generator runs, and when a stop takes it over, a joint moves on at the  *)
(* generator's velocity but for what MaxAcc allows in the time that has    *)
(* passed (a stop also drops a velocity below QuietVel), unless the clamp  *)
(* holds it at a limit or at the velocity cap.  What a clamp does to the   *)
(* velocity of the other joints, whose generators it puts at rest for the  *)
(* next callback, is not bounded by this.                                  *)
(***************************************************************************)
AccelerationBounded ==
  [][\A dt \in Period : rt_state = "STREAMING" /\ (Stream(dt) \/ GracefulStop(dt))
       => \A j \in Joint :
            LET moved == last_sent_q'[j] - last_sent_q[j]
                slack == IF hold' >= 0 /\ moved = 0 THEN QuietVel ELSE 0
            IN  \/ AbsVal(moved - stream_dq[j] * dt) <= (MaxAcc * dt + slack) * dt
                \/ AbsVal(moved) = VelStep[j] \/ last_sent_q'[j] \in {QMin[j], QMax[j]}]_vars

(***************************************************************************)
(* A stop that interrupts a move keeps the arm where the move has brought  *)
(* it, not where the generator was left; and once a stop has seen one      *)
(* quiet cycle the pose stays: the count of quiet cycles that ends the     *)
(* motion never starts over.                                               *)
(***************************************************************************)
StopHoldsPose ==
  [][/\ rt_state = "MOVING" /\ Stopping' => last_sent_q' = last_sent_q
     /\ hold >= 1 => hold' >= hold /\ last_sent_q' = last_sent_q]_vars

(* Liveness *)

(***************************************************************************)
(* A graceful stop brakes to rest and finishes the motion, from every      *)
(* velocity and acceleration the OTG can have and with late callbacks.     *)
(***************************************************************************)
StopComesToRest == Stopping ~> outcome = "finished"

-----------------------------------------------------------------------------
(* What the comments claim and the code does not do *)

(***************************************************************************)
(* The callback integrates the time that really passed ("DO NOT clamp")    *)
(* and streams "well below libfranka per-joint limits": the clamp          *)
(* interferes with a stream only at the hard position limits.              *)
(***************************************************************************)
ClampOnlyAtLimits ==
  outcome = "stream_clamped" => \E j \in Joint : last_sent_q[j] \in {QMin[j], QMax[j]}
=============================================================================
