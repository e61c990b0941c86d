------------------------ MODULE JointPositionControl ------------------------
(***************************************************************************)
(* class JointPositionControl (src/joint_position_control.cpp): the        *)
(* controller whose callback streams joint positions.  RtController has    *)
(* what it shares with CartesianControl.  A move begins at once, whatever  *)
(* the arm is doing, and may be cut short by the position clamp.           *)
(***************************************************************************)
EXTENDS RtController

\* A move takes at least kMinMoveDuration, a second, and libfranka gives up on a
\* callback that is late by far less, so no single cycle spans a whole move.
ASSUME PeriodAssumption == MaxPeriod < MoveTime

\* Bug (mutant): after an estop the pose is held, but the motion not finished.
CycleHolds ==
  /\ rt = "between"
  /\ EnterCallback
  /\ \/ estop /\ Hold /\ UNCHANGED estop
     \/ ~estop /\ estop' = TRUE /\ Hold
     \/ ~estop /\ rt' = "check_stop" /\ UNCHANGED estop
  /\ UNCHANGED <<running, stop_requested, moving, stopped, cmd_buf, taken, pending,
                 api, hist>>

\* Entry: estop_ is loaded, then the robot's error flags are tested.  After an
\* estop the motion is finished; a fault sets estop_ and holds the pose once.
Cycle ==
  /\ rt = "between"
  /\ EnterCallback
  /\ \/ estop /\ Finish /\ UNCHANGED estop
     \/ ~estop /\ estop' = TRUE /\ Hold
     \/ ~estop /\ rt' = "check_stop" /\ UNCHANGED estop
  /\ UNCHANGED <<running, stop_requested, moving, stopped, cmd_buf, taken, pending,
                 api, hist>>

\* Bug (mutant): moving_ is left as the callers set it.
StartMoveSilent ==
  /\ rt = "start_move"
  /\ loc' = [loc EXCEPT !.seg = loc.move, !.move = NoMove, !.t = 0,
                        !.start_move = TRUE, !.rt_state = "MOVING"]
  /\ rt' = "step"
  /\ UNCHANGED <<flags, cmd_buf, taken, pending, api, hist>>

\* The segment starts whatever the thread was doing; moving_ is set again.
StartMove ==
  /\ rt = "start_move"
  /\ loc' = [loc EXCEPT !.seg = loc.move, !.move = NoMove, !.t = 0,
                        !.replaced = loc.rt_state = "MOVING", !.rt_state = "MOVING",
                        !.start_move = TRUE]
  /\ moving' = TRUE
  /\ rt' = "step"
  /\ UNCHANGED <<running, stop_requested, estop, stopped, cmd_buf, taken, pending,
                 api, hist>>

\* The rest of the callback while MOVING: the segment goes on, completes, is
\* cancelled by the position clamp, or proves not finite.  The first sample of a
\* segment is the pose last sent, which the clamp never changes, unless the
\* segment replaced another move.

MoveClamped ==
  /\ loc.seg.finite /\ (loc.t > 0 \/ loc.replaced)
  /\ loc' = [loc EXCEPT !.seg = NoMove, !.rt_state = "STREAMING", !.target = 0]
  /\ moving' = FALSE
  /\ Hold
  /\ UNCHANGED <<estop, fence>>

MoveNotFinite ==
  /\ ~loc.seg.finite
  /\ estop' = TRUE
  /\ Finish
  /\ UNCHANGED <<moving, loc, fence>>

MovingStep ==
  /\ rt = "step" /\ loc.rt_state = "MOVING"
  /\ MoveGoesOn \/ MoveCompletes \/ MoveClamped \/ MoveNotFinite
  /\ UNCHANGED <<running, stop_requested, stopped, cmd_buf, taken, pending, api,
                 cmds, moves, starts, cancelled>>

-----------------------------------------------------------------------------
RtStep == CommonRtStep \/ Cycle \/ StartMove \/ MovingStep

Next == RtStep \/ Environment

Spec == Init /\ [][Next]_vars

\* The RT thread is scheduled and libfranka calls back, unless it throws; a caller
\* that holds the mutex, or whose join() can return, is scheduled.
FairSpec == /\ Spec
            /\ WF_vars(RtStep)
            /\ \A c \in Caller : WF_vars(ApiReturn(c))
-----------------------------------------------------------------------------
(***************************************************************************)
(* "Use try_lock(), never lock_guard, on the RT side": whatever the        *)
(* callers hold, the RT thread can take its next step.                     *)
(***************************************************************************)
RTNeverBlocks ==
  rt \notin {"none", "done"} => ENABLED RtStep
=============================================================================
