-------------------------- MODULE CartesianControl --------------------------
(***************************************************************************)
(* class CartesianControl (src/cartesian_control.cpp): the controller      *)
(* whose callback streams end-effector poses.  RtController has what it    *)
(* shares with JointPositionControl.  A move that is picked up is queued   *)
(* until the stream has been braked (STOPPING_FOR_MOVE); there is no clamp *)
(* that could cut it short, and a robot fault finishes the motion at once. *)
(***************************************************************************)
EXTENDS RtController

\* Entry: after an estop, and on a fault, which sets estop_, the motion finishes
\* with the pose sent last.
Cycle ==
  /\ rt = "between"
  /\ EnterCallback
  /\ \/ estop /\ Finish /\ UNCHANGED estop
     \/ ~estop /\ estop' = TRUE /\ Finish
     \/ ~estop /\ rt' = "check_stop" /\ UNCHANGED estop
  /\ UNCHANGED <<running, stop_requested, moving, stopped, cmd_buf, taken, pending,
                 api, hist>>

\* Bug (mutant): moving_ is left as the callers set it.
StartMoveSilent ==
  /\ rt = "start_move"
  /\ \E coast \in 0..MaxCoast :
       loc' = [loc EXCEPT !.seg = loc.move, !.move = NoMove, !.t = 0, !.coast = coast,
                          !.target = 0, !.start_move = TRUE,
                          !.rt_state = "STOPPING_FOR_MOVE"]
  /\ rt' = "step"
  /\ UNCHANGED <<flags, cmd_buf, taken, pending, api, hist>>

\* The request becomes the queued move, also in the place of an older one that is
\* queued or under way.  `coast` is how many cycles the stream will need to come
\* to rest.
StartMove ==
  /\ rt = "start_move"
  /\ \E coast \in 0..MaxCoast :
       loc' = [loc EXCEPT !.seg = loc.move, !.move = NoMove, !.t = 0, !.coast = coast,
                          !.target = 0, !.start_move = TRUE,
                          !.rt_state = "STOPPING_FOR_MOVE"]
  /\ moving' = TRUE
  /\ rt' = "step"
  /\ UNCHANGED <<running, stop_requested, estop, stopped, cmd_buf, taken, pending,
                 api, hist>>

\* STOPPING_FOR_MOVE: the stream is braked, whatever was commanded; the cycle
\* that finds it quiet starts the queued move.
StoppingStep ==
  /\ rt = "step" /\ loc.rt_state = "STOPPING_FOR_MOVE"
  /\ loc' = [loc EXCEPT !.coast = IF @ > 0 THEN @ - 1 ELSE 0,
                        !.rt_state = IF loc.coast = 0 THEN "MOVING" ELSE @]
  /\ Hold
  /\ UNCHANGED <<flags, cmd_buf, taken, pending, api, hist>>

\* The samples of a target that is not finite are sent like any other; libfranka
\* refuses them, so that control() throws.
MoveNotFinite ==
  /\ ~loc.seg.finite
  /\ Finish
  /\ UNCHANGED <<moving, estop, loc, fence>>

MovingStep ==
  /\ rt = "step" /\ loc.rt_state = "MOVING"
  /\ MoveGoesOn \/ MoveCompletes \/ MoveNotFinite
  /\ UNCHANGED <<running, stop_requested, stopped, cmd_buf, taken, pending, api,
                 cmds, moves, starts, cancelled>>

-----------------------------------------------------------------------------
RtStep == CommonRtStep \/ Cycle \/ StartMove \/ StoppingStep \/ MovingStep

Next == RtStep \/ Environment

Spec == Init /\ [][Next]_vars

\* As for the joint controller.
FairSpec == /\ Spec
            /\ WF_vars(RtStep)
            /\ \A c \in Caller : WF_vars(ApiReturn(c))
-----------------------------------------------------------------------------
(***************************************************************************)
(* A move that has been taken from the caller is not lost while the stream *)
(* is braked for it: unless a newer request or a stop replaces it, or the  *)
(* loop ends, it gets under way.                                           *)
(***************************************************************************)
QueuedMoveBegins ==
  \A m \in 1..MaxMoves :
    loc.rt_state = "STOPPING_FOR_MOVE" /\ loc.seg.id = m
      ~> loc.rt_state = "MOVING" \/ loc.seg.id # m
=============================================================================
