---------------------------- MODULE RtController ----------------------------
(***************************************************************************)
(* What JointPositionControl (src/joint_position_control.cpp) and          *)
(* CartesianControl (src/cartesian_control.cpp) have in common, text for   *)
(* text: the object Python holds while a 1 kHz thread streams set points   *)
(* through franka::Robot::control().  Application threads call start,      *)
(* stop, setTarget..., moveTo..., cancelMove and triggerEstop; the RT      *)
(* thread runs rtLoop.  They share five atomic flags, the command ring and *)
(* one pending move behind a mutex that the RT thread only try_locks.      *)
(* How a callback begins, how it starts a move and how it follows one are  *)
(* the actions of the two modules that extend this one.                    *)
(*                                                                         *)
(* The RT callback is cut where it touches shared state, so that a call of *)
(* an application thread can fall between any two of its accesses.         *)
(* Positions are not in this model (the Motion modules have them): a       *)
(* command or a move request is its sequence number and whether it is      *)
(* finite, and what depends on positions (a jump, a clamp, how long a stop *)
(* takes) is a choice.                                                     *)
(***************************************************************************)
EXTENDS Naturals, Sequences

CONSTANTS Caller,      \* application threads
          Cap,         \* capacity of cmd_buf_ (8)
          Warmup,      \* kWarmupCycles (50)
          HoldCycles,  \* quiet cycles before a stop finishes the motion (100)
          MoveTime,    \* duration of a move
          MaxPeriod,   \* longest time between two callbacks
          MaxCoast,    \* longest deceleration of a graceful stop, in cycles
          MaxCmds, MaxMoves, MaxStarts   \* bounds on the calls of a behaviour

ASSUME SizesAssumption ==
  /\ Cap \in Nat \ {0} /\ HoldCycles \in Nat \ {0}
  /\ Warmup \in Nat /\ MaxCoast \in Nat
  /\ MoveTime \in Nat \ {0} /\ MaxPeriod \in Nat \ {0}
  /\ MaxCmds \in Nat /\ MaxMoves \in Nat /\ MaxStarts \in Nat
VARIABLES
  running, stop_requested, estop, moving, stopped,  \* atomic flags
  cmd_buf,         \* the command ring, as the queue RingBuffer implements
  taken,           \* the command try_read returned last
  pending,         \* the request behind pending_move_mtx_, or NoMove
  api,             \* where each application thread is
  rt,              \* where the RT thread is
  loc,             \* locals of rtLoop and of the callback under way
  cmds, moves, starts,     \* calls made so far; the newest sequence numbers
  cancelled,       \* newest request made when cancelMove was last called
  fence            \* newest command older than a completed move or than start()

flags == <<running, stop_requested, estop, moving, stopped>>
hist  == <<cmds, moves, starts, cancelled, fence>>
vars  == <<flags, cmd_buf, taken, pending, api, rt, loc, hist>>

Command == [id : 1..MaxCmds, finite : BOOLEAN]
\* `after` is the newest command at the time of the request.
Request == [id : 0..MaxMoves, finite : BOOLEAN, after : 0..MaxCmds]
NoMove  == [id |-> 0, finite |-> TRUE, after |-> 0]

Ring == INSTANCE CommandQueue WITH Item <- Command, queue <- cmd_buf

\* Inside robot_.control(): between two callbacks, or in one.
InCallback == {"check_stop", "drain", "pickup", "start_move", "step"}
InControl  == {"created", "between"} \cup InCallback
RtPC == {"none", "returned", "leaving", "done"} \cup InControl
ApiPC == {"idle", "move", "cancel", "join"}

Locals == [iter : 0..(Warmup + 1),                  \* saturates after the warm-up
           got_cmd : BOOLEAN,                       \* by this callback, as is
           start_move : BOOLEAN, move : Request,    \* a move, if it picked one up
           rt_state : {"STREAMING", "STOPPING_FOR_MOVE", "MOVING"},
           seg : Request, t : 0..(MoveTime - 1),    \* the move, if not STREAMING
           replaced : BOOLEAN,                      \* seg began during another move
           target : 0..MaxCmds,                     \* whose q is stream_target_q
           graceful : BOOLEAN, hold : 0..HoldCycles, coast : 0..MaxCoast]

FlagsOK == /\ running \in BOOLEAN /\ stop_requested \in BOOLEAN /\ estop \in BOOLEAN
           /\ moving \in BOOLEAN /\ stopped \in BOOLEAN

CountsOK == /\ cmds \in 0..MaxCmds /\ moves \in 0..MaxMoves /\ starts \in 0..MaxStarts
            /\ cancelled \in 0..moves /\ fence \in 0..cmds

TypeOK == /\ FlagsOK /\ CountsOK /\ Ring!TypeOK
          /\ pending \in Request
          /\ api \in [Caller -> ApiPC]
          /\ rt \in RtPC /\ loc \in Locals

\* The locals at the top of rtLoop.
FreshLocals == [iter |-> 0, got_cmd |-> FALSE, move |-> NoMove, start_move |-> FALSE,
                rt_state |-> "STREAMING", seg |-> NoMove, t |-> 0, replaced |-> FALSE,
                target |-> 0, graceful |-> FALSE, hold |-> 0, coast |-> 0]

Init ==
  /\ running = FALSE /\ stop_requested = FALSE /\ estop = FALSE
  /\ moving = FALSE /\ stopped = FALSE
  /\ Ring!Init
  /\ pending = NoMove
  /\ api = [c \in Caller |-> "idle"]
  /\ rt = "none" /\ loc = FreshLocals
  /\ cmds = 0 /\ moves = 0 /\ starts = 0 /\ cancelled = 0 /\ fence = 0

-----------------------------------------------------------------------------
(* Application threads *)

\* A caller inside moveTo or cancelMove holds pending_move_mtx_.
MutexFree == \A c \in Caller : api[c] \notin {"move", "cancel"}

\* The object is published after start(), and the calls other than stop() hold
\* the GIL, so only one thread is in them and the ring has one producer.
MayCall(c) == starts > 0 /\ api[c] = "idle" /\ MutexFree

\* A second start() of a running object returns at once.  Starting again is for
\* the thread that has stopped the object, with no call under way.
Start ==
  /\ starts < MaxStarts /\ ~running /\ rt = "none"
  /\ \A c \in Caller : api[c] = "idle"
  /\ running' = TRUE /\ stop_requested' = FALSE /\ stopped' = FALSE
  /\ estop' = FALSE /\ moving' = FALSE
  /\ Ring!Clear
  /\ rt' = "created" /\ loc' = FreshLocals
  /\ starts' = starts + 1 /\ fence' = cmds
  /\ UNCHANGED <<pending, api, cmds, moves, cancelled>>

\* Bug (mutant): stop() clears running_ before it has joined.
StopBeginEarly(c) ==
  /\ starts > 0 /\ api[c] = "idle" /\ ~stopped
  /\ stopped' = TRUE /\ stop_requested' = TRUE /\ running' = FALSE
  /\ api' = [api EXCEPT ![c] = "join"]
  /\ UNCHANGED <<estop, moving, cmd_buf, taken, pending, rt, loc, hist>>

\* Only the first caller stops the loop; the others return at once.
StopBegin(c) ==
  /\ starts > 0 /\ api[c] = "idle" /\ ~stopped
  /\ stopped' = TRUE /\ stop_requested' = TRUE
  /\ api' = [api EXCEPT ![c] = "join"]
  /\ UNCHANGED <<running, estop, moving, cmd_buf, taken, pending, rt, loc, hist>>

\* join() returns when rtLoop has.
StopJoin(c) ==
  /\ api[c] = "join" /\ rt \in {"none", "done"}
  /\ rt' = "none" /\ running' = FALSE
  /\ api' = [api EXCEPT ![c] = "idle"]
  /\ UNCHANGED <<stop_requested, estop, moving, stopped, cmd_buf, taken, pending,
                 loc, hist>>

\* try_write; its result is ignored, so a command that finds the ring full is gone.
SetTarget(c) ==
  /\ MayCall(c) /\ cmds < MaxCmds
  /\ cmds' = cmds + 1
  /\ \E finite \in BOOLEAN :
       \/ Ring!Put([id |-> cmds + 1, finite |-> finite])
       \/ Len(cmd_buf) >= Cap /\ UNCHANGED <<cmd_buf, taken>>
  /\ UNCHANGED <<flags, pending, api, rt, loc, moves, starts, cancelled, fence>>

\* moveTo and cancelMove: lock, then the body and the unlock.
Lock(c, call) ==
  /\ MayCall(c)
  /\ call = "move" => moves < MaxMoves
  /\ api' = [api EXCEPT ![c] = call]
  /\ UNCHANGED <<flags, cmd_buf, taken, pending, rt, loc, hist>>

MoveTo(c) ==
  /\ api[c] = "move"
  /\ \E finite \in BOOLEAN :
       pending' = [id |-> moves + 1, finite |-> finite, after |-> cmds]
  /\ moving' = TRUE
  /\ moves' = moves + 1
  /\ api' = [api EXCEPT ![c] = "idle"]
  /\ UNCHANGED <<running, stop_requested, estop, stopped, cmd_buf, taken, rt, loc,
                 cmds, starts, cancelled, fence>>

CancelMove(c) ==
  /\ api[c] = "cancel"
  /\ pending' = NoMove
  /\ moving' = FALSE
  /\ cancelled' = moves
  /\ api' = [api EXCEPT ![c] = "idle"]
  /\ UNCHANGED <<running, stop_requested, estop, stopped, cmd_buf, taken, rt, loc,
                 cmds, moves, starts, fence>>

TriggerEstop(c) ==
  /\ MayCall(c) /\ ~estop
  /\ estop' = TRUE
  /\ UNCHANGED <<running, stop_requested, moving, stopped, cmd_buf, taken, pending,
                 api, rt, loc, hist>>

-----------------------------------------------------------------------------
(* libfranka, as rtLoop uses it *)

\* control() starts the motion, or throws before the first callback.
EnterControl ==
  /\ rt = "created"
  /\ rt' \in {"between", "returned"}
  /\ UNCHANGED <<flags, cmd_buf, taken, pending, api, loc, hist>>

\* control() throws: a reflex, a lost connection, another controller.
Throw ==
  /\ rt = "between"
  /\ rt' = "returned"
  /\ UNCHANGED <<flags, cmd_buf, taken, pending, api, loc, hist>>

-----------------------------------------------------------------------------
(* The callback: what both controllers do *)

\* Bug (mutant): the command read in an earlier callback counts as read.
EnterCallbackStale ==
  loc' = [loc EXCEPT !.iter = IF @ <= Warmup THEN @ + 1 ELSE @, !.start_move = FALSE]

\* What a callback does to the locals when it begins.
EnterCallback ==
  loc' = [loc EXCEPT !.iter = IF @ <= Warmup THEN @ + 1 ELSE @,
                     !.got_cmd = FALSE, !.start_move = FALSE]

\* Returning MotionFinished ends control(); any other return waits for the
\* next state.
Finish == rt' = "returned"
Hold   == rt' = "between"

\* Bug (mutant): the ring is only drained while streaming.
GoOnUndrained ==
  /\ rt = "check_stop" /\ ~stop_requested
  /\ rt' = IF loc.rt_state # "STREAMING" THEN "pickup" ELSE "drain"
  /\ UNCHANGED <<flags, cmd_buf, taken, pending, api, loc, hist>>

GoOn ==
  /\ rt = "check_stop" /\ ~stop_requested
  /\ rt' = "drain"
  /\ UNCHANGED <<flags, cmd_buf, taken, pending, api, loc, hist>>

\* graceful_stop_hold_cycles after a cycle, and when the motion may finish.
HoldAfterStuck(quiet, n) == IF quiet THEN 1 ELSE 0     \* Bug (mutant)
HoldAfter(quiet, n) == IF quiet THEN n + 1 ELSE 0
HeldEnoughLate(n) == n > HoldCycles                    \* Bug (mutant): off by one
HeldEnough(n) == n >= HoldCycles

\* The first cycle of a stop drops the move and freezes the target; how long
\* the stream then takes to come to rest is `coast` (none after a move, whose
\* velocity the code sets to 0).  A quiet cycle counts, any other starts over.
GracefulStop ==
  /\ rt = "check_stop" /\ stop_requested
  /\ \E coast \in 0..MaxCoast :
       LET quiet == coast = 0
           hold  == HoldAfter(quiet, loc.hold)
       IN  /\ loc.graceful => coast = loc.coast
           /\ ~loc.graceful /\ loc.rt_state = "MOVING" => coast = 0
           /\ loc' = [loc EXCEPT !.graceful = TRUE, !.rt_state = "STREAMING",
                                 !.seg = NoMove, !.target = 0,
                                 !.coast = IF quiet THEN 0 ELSE coast - 1,
                                 !.hold = hold]
           /\ IF HeldEnough(hold) THEN Finish ELSE Hold
  /\ moving' = IF loc.graceful THEN moving ELSE FALSE
  /\ UNCHANGED <<running, stop_requested, estop, stopped, cmd_buf, taken, pending,
                 api, hist>>

\* One turn of `while (cmd_buf_.try_read(tmp))`.
DrainOne ==
  /\ rt = "drain"
  /\ Ring!Take
  /\ loc' = [loc EXCEPT !.got_cmd = TRUE]
  /\ UNCHANGED <<flags, pending, api, rt, hist>>

InWarmup == loc.iter <= Warmup

\* The ring is empty.  In the warm-up what was read is dropped and a pending
\* move is left for later.
DrainEnd ==
  /\ rt = "drain" /\ cmd_buf = <<>>
  /\ rt' = IF InWarmup THEN "step" ELSE "pickup"
  /\ loc' = [loc EXCEPT !.got_cmd = @ /\ ~InWarmup]
  /\ UNCHANGED <<flags, cmd_buf, taken, pending, api, hist>>

\* Bug (mutant): a move waits for the end of the one is_moving() reports.
CanPickUpWhenStill == MutexFree /\ pending # NoMove /\ ~moving

CanPickUp == MutexFree /\ pending # NoMove

\* Bug (mutant): lock_guard instead of try_lock.
PickUpBlocking ==
  /\ rt = "pickup" /\ MutexFree
  /\ loc' = [loc EXCEPT !.move = pending]
  /\ pending' = NoMove
  /\ rt' = IF pending # NoMove THEN "start_move" ELSE "step"
  /\ UNCHANGED <<flags, cmd_buf, taken, api, hist>>

\* Bug (mutant): pending_move_init_ is not cleared.
PickUpAgain ==
  /\ rt = "pickup"
  /\ IF CanPickUp
     THEN /\ loc' = [loc EXCEPT !.move = pending]
          /\ rt' = "start_move"
     ELSE rt' = "step" /\ UNCHANGED loc
  /\ UNCHANGED <<flags, cmd_buf, taken, pending, api, hist>>

\* try_lock; if a caller has the mutex, or nothing is pending, go on.
PickUp ==
  /\ rt = "pickup"
  /\ IF CanPickUp
     THEN /\ loc' = [loc EXCEPT !.move = pending]
          /\ pending' = NoMove
          /\ rt' = "start_move"
     ELSE rt' = "step" /\ UNCHANGED <<loc, pending>>
  /\ UNCHANGED <<flags, cmd_buf, taken, api, hist>>

\* A move under way whose target is finite: it goes on, or this is its last
\* sample.

\* Bug (mutant): the time of the segment does not accumulate.
MoveGoesOnStuck ==
  \E dt \in 1..MaxPeriod :
    /\ loc.seg.finite /\ loc.t + dt < MoveTime
    /\ Hold
    /\ UNCHANGED <<loc, moving, estop, fence>>

MoveGoesOn ==
  \E dt \in 1..MaxPeriod :
    /\ loc.seg.finite /\ loc.t + dt < MoveTime
    /\ loc' = [loc EXCEPT !.t = loc.t + dt]
    /\ Hold
    /\ UNCHANGED <<moving, estop, fence>>

MoveCompletes ==
  \E dt \in 1..MaxPeriod :
    /\ loc.seg.finite /\ loc.t + dt >= MoveTime
    /\ loc' = [loc EXCEPT !.seg = NoMove, !.rt_state = "STREAMING", !.target = 0]
    /\ moving' = FALSE
    /\ fence' = IF loc.seg.after > fence THEN loc.seg.after ELSE fence
    /\ Hold
    /\ UNCHANGED estop

\* The rest of the callback while STREAMING: a command that is not finite stops
\* the robot, one that jumps is dropped, any other becomes the target.
StreamingStep ==
  /\ rt = "step" /\ loc.rt_state = "STREAMING"
  /\ \/ /\ loc.got_cmd /\ ~taken[1].finite
        /\ estop' = TRUE /\ Finish
        /\ UNCHANGED loc
     \/ /\ loc.got_cmd /\ taken[1].finite
        /\ loc' \in {loc, [loc EXCEPT !.target = taken[1].id]}
        /\ Hold /\ UNCHANGED estop
     \/ ~loc.got_cmd /\ Hold /\ UNCHANGED <<estop, loc>>
  /\ UNCHANGED <<running, stop_requested, moving, stopped, cmd_buf, taken, pending,
                 api, hist>>

\* control() has returned or thrown: the two stores at the end of rtLoop, whose
\* locals end with it.
ClearRunning ==
  /\ rt = "returned"
  /\ running' = FALSE
  /\ rt' = "leaving"
  /\ UNCHANGED <<stop_requested, estop, moving, stopped, cmd_buf, taken, pending, api,
                 loc, hist>>

ClearMoving ==
  /\ rt = "leaving"
  /\ moving' = FALSE
  /\ rt' = "done" /\ loc' = FreshLocals
  /\ UNCHANGED <<running, stop_requested, estop, stopped, cmd_buf, taken, pending, api,
                 hist>>

-----------------------------------------------------------------------------
\* Steps of the RT thread both controllers take.
CommonRtStep == \/ EnterControl \/ GoOn \/ GracefulStop \/ DrainOne \/ DrainEnd
                \/ PickUp \/ StreamingStep \/ ClearRunning \/ ClearMoving

\* What a caller does once it is inside a call.
ApiReturn(c) == MoveTo(c) \/ CancelMove(c) \/ StopJoin(c)

ApiNext(c) == \/ StopBegin(c) \/ SetTarget(c) \/ TriggerEstop(c)
              \/ Lock(c, "move") \/ Lock(c, "cancel")
              \/ ApiReturn(c)

\* What happens beside the RT thread's own steps.
Environment == Throw \/ Start \/ \E c \in Caller : ApiNext(c)
-----------------------------------------------------------------------------
(* Safety *)

(***************************************************************************)
(* isRunning() covers the loop: while the RT thread is inside control(),   *)
(* and may still command the robot, running_ is true, whichever thread     *)
(* stops it and however control() ends.                                    *)
(***************************************************************************)
LoopImpliesRunning == rt \in InControl => running

(***************************************************************************)
(* isMoving() may be false during a move only if that move was cancelled:  *)
(* no completion, clamp or request of another move hides a segment that is *)
(* being executed.                                                         *)
(***************************************************************************)
HiddenMoveWasCancelled ==
  rt \in InControl /\ loc.rt_state # "STREAMING" /\ ~moving => loc.seg.id <= cancelled

(***************************************************************************)
(* After a reset move has completed, no streaming command that is older    *)
(* than the request of that move becomes the target: the robot does not    *)
(* run back to where teleoperation left it.  Commands queued before and    *)
(* while the move runs are drained and dropped; those of an earlier        *)
(* session are discarded by start().                                       *)
(***************************************************************************)
NoCommandOlderThanMove ==
  rt \in InControl /\ loc.target # 0 => loc.target > fence

\* What the abstract machine sees of a controller.  A move has begun when the
\* callback has picked it up, and braking when the loop has seen the request to
\* stop; the flags are not part of it.
AsMove(r) == [id |-> r.id, after |-> r.after]
Mode == IF rt \notin InControl THEN "off" ELSE IF loc.graceful THEN "braking" ELSE "on"
Executed == IF rt \notin InControl THEN NoMove
            ELSE IF rt = "start_move" THEN loc.move
            ELSE IF loc.rt_state # "STREAMING" THEN loc.seg ELSE NoMove
Followed == IF rt \in InControl /\ Executed = NoMove THEN loc.target ELSE 0
Heard == IF taken = <<>> THEN 0 ELSE taken[1].id

Machine == INSTANCE StreamOrMove WITH
             issued <- cmds, asked <- moves, waiting <- AsMove(pending), mode <- Mode,
             move <- AsMove(Executed), target <- Followed, seen <- Heard

(***************************************************************************)
(* The controller is a machine that streams or moves: whatever the threads *)
(* do between two accesses of a callback, a request begins at most once    *)
(* and not after a newer one was made, nothing is followed during a move,  *)
(* no command is followed twice out of order or across a completed move or *)
(* a restart, and once the loop has seen a request to stop nothing begins  *)
(* and nothing is followed.                                                *)
(***************************************************************************)
ImplementsStreamOrMove == Machine!Spec

(* Liveness *)

(***************************************************************************)
(* stop() returns: whatever the loop is doing, and also when it has ended  *)
(* by itself, the thread is joined in the end.                             *)
(***************************************************************************)
StopReturns == \A c \in Caller : api[c] = "join" ~> api[c] = "idle"

(***************************************************************************)
(* An estop, requested by a caller, by a fault or by a command that is not *)
(* finite, ends the motion.                                                *)
(***************************************************************************)
EstopEndsLoop == estop /\ rt \in InControl ~> rt \notin InControl

(***************************************************************************)
(* A pending move is started, replaced or cancelled, or the loop ends: it  *)
(* outlives the warm-up and a mutex that was busy.                         *)
(***************************************************************************)
PendingIsPickedUp ==
  \A m \in 1..MaxMoves :
    pending.id = m /\ rt \in InControl ~> pending.id # m \/ rt \notin InControl

(***************************************************************************)
(* While the loop runs, isMoving() becomes false again: a client that      *)
(* polls it is released by the completion, by a clamp or by a stop.        *)
(***************************************************************************)
MovingEnds == moving /\ rt \in InControl ~> ~moving \/ rt \notin InControl

-----------------------------------------------------------------------------
(* What documentation and comments claim and the code does not do *)

(***************************************************************************)
(* README: "`is_moving()` to poll".  A move that is requested and neither  *)
(* started nor cancelled is visible as is_moving().                        *)
(***************************************************************************)
RequestIsVisible ==
  rt \in InControl /\ ~stop_requested /\ pending # NoMove => moving

(***************************************************************************)
(* The interactive test gives a move some seconds, prints "did not finish  *)
(* ... cancelling" and calls cancel_move(): after cancelMove() no move     *)
(* requested before it is executed.                                        *)
(***************************************************************************)
CancelStopsMove ==
  rt \in InControl /\ loc.rt_state # "STREAMING" => loc.seg.id > cancelled

(***************************************************************************)
(* README: `while jc.is_moving(): time.sleep(0.05)` after move_to_joints.  *)
(* The client's polling loop ends, whatever became of the RT loop.         *)
(***************************************************************************)
PollingEnds == moving /\ ~stopped ~> ~moving \/ stopped
=============================================================================
