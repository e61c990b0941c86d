----------------------- MODULE CartesianControlProofs -----------------------
(***************************************************************************)
(* Invariants of the Cartesian controller for every number of callers,     *)
(* queue capacity, warm-up, hold time, braking time and length of a move.  *)
(***************************************************************************)
EXTENDS CartesianControl, RtControllerProofs

\* A callback that queues a move does not run it: the stream is braked first, at
\* least in name.  So no move, however short, completes in the callback that
\* picked it up.
OwnInv == rt = "step" /\ loc.rt_state = "MOVING" => ~loc.start_move

FullInv == IInv /\ OwnInv

LEMMA CycleKeeps == ASSUME IInv, Cycle PROVE IInv'
<1>1. rt = "between" /\ rt' \in {"between", "check_stop", "returned"}
      /\ estop' \in BOOLEAN
  BY DEF Cycle, Finish, Hold, IInv, TypeOK, FlagsOK
<1> QED BY <1>1, CallbackKeeps DEF Cycle

LEMMA StartMoveKeeps == ASSUME IInv, StartMove PROVE IInv'
<1>1. PICK coast \in 0..MaxCoast :
        loc' = [loc EXCEPT !.seg = loc.move, !.move = NoMove, !.t = 0, !.coast = coast,
                           !.target = 0, !.start_move = TRUE,
                           !.rt_state = "STOPPING_FOR_MOVE"]
  BY DEF StartMove
<1>2. 0 \in 0..(MoveTime - 1) /\ 0 \in 0..MaxCmds
  BY SizesAssumption
<1>3. loc' \in Locals
  BY <1>1, <1>2, NoMoveType DEF IInv, TypeOK, Locals
<1>4. TypeOK'
  BY <1>3 DEF IInv, StartMove, TypeOK, FlagsOK, CountsOK, Ring!TypeOK, RtPC, hist,
     InControl, InCallback
<1>5. Rest'
  BY <1>1 DEF IInv, StartMove, Rest, TypeOK, CountsOK, MutexInv, RequestInv, WasMade, NoMove,
     LoopInv, HiddenMoveWasCancelled, FenceInv, NewerThan, Locals, hist, InControl,
     InCallback
<1> QED BY <1>4, <1>5 DEF IInv

LEMMA StartMoveArrives == ASSUME IInv, StartMove PROVE OwnInv'
  BY DEF IInv, TypeOK, Locals, StartMove, OwnInv

LEMMA StoppingStepKeeps == ASSUME IInv, StoppingStep PROVE IInv'
<1>1. PICK n \in 0..MaxCoast, s \in {"STOPPING_FOR_MOVE", "MOVING"} :
        loc' = [loc EXCEPT !.coast = n, !.rt_state = s]
  <2>1. loc.coast \in 0..MaxCoast
    BY DEF IInv, TypeOK, Locals
  <2>2. (IF loc.coast > 0 THEN loc.coast - 1 ELSE 0) \in 0..MaxCoast
    BY <2>1, SizesAssumption
  <2> QED BY <2>2 DEF StoppingStep
<1>2. loc' \in Locals
  BY <1>1 DEF IInv, TypeOK, Locals
<1>3. TypeOK'
  BY <1>2 DEF IInv, StoppingStep, Hold, TypeOK, FlagsOK, CountsOK, Ring!TypeOK, RtPC,
     flags, hist, InControl, InCallback
<1>4. Rest'
  BY <1>1 DEF IInv, StoppingStep, Hold, Rest, TypeOK, CountsOK, MutexInv, RequestInv,
     WasMade, LoopInv, HiddenMoveWasCancelled, FenceInv, NewerThan, Locals, flags, hist,
     InControl, InCallback
<1> QED BY <1>3, <1>4 DEF IInv

LEMMA MovingStepKeeps == ASSUME FullInv, MovingStep PROVE IInv'
<1>1. rt = "step" /\ loc.rt_state = "MOVING" /\ ~loc.start_move /\ IInv
  BY DEF FullInv, OwnInv, MovingStep
<1>2. CASE MoveGoesOn
  BY <1>1, <1>2, MoveGoesOnKeeps DEF MovingStep
<1>3. CASE MoveCompletes
  BY <1>1, <1>3, MoveCompletesKeeps DEF MovingStep
<1>4. CASE MoveNotFinite
  <2>1. TypeOK'
    BY <1>1, <1>4 DEF MovingStep, MoveNotFinite, Finish, IInv, TypeOK, FlagsOK, CountsOK,
       Ring!TypeOK, RtPC
  <2>2. Rest'
    BY <1>1, <1>4 DEF MovingStep, MoveNotFinite, Finish, IInv, Rest, TypeOK, MutexInv,
       RequestInv, WasMade, LoopInv, HiddenMoveWasCancelled, FenceInv, NewerThan,
       InControl, InCallback
  <2> QED BY <2>1, <2>2 DEF IInv
<1> QED BY <1>2, <1>3, <1>4 DEF MovingStep

LEMMA NextInv == FullInv /\ [Next]_vars => FullInv'
<1> SUFFICES ASSUME FullInv, [Next]_vars PROVE FullInv'  OBVIOUS
<1>1. IInv'
  BY CommonRtStepKeeps, EnvironmentKeeps, StutterKeeps, CycleKeeps, StartMoveKeeps,
     StoppingStepKeeps, MovingStepKeeps DEF FullInv, Next, RtStep
<1>2. ASSUME rt' = "step" PROVE OwnInv'
  <2>1. CASE CommonRtStep
    BY <1>2, <2>1, CommonRtStepArrives DEF FullInv, OwnInv
  <2>2. CASE Environment
    BY <1>2, <2>2, EnvironmentArrives DEF FullInv, OwnInv
  <2>3. CASE Cycle \/ StartMove \/ StoppingStep \/ MovingStep
    BY <1>2, <2>3, StartMoveArrives DEF FullInv, Cycle, StoppingStep, MovingStep,
       MoveGoesOn, MoveCompletes, MoveNotFinite, Hold, Finish
  <2>4. CASE UNCHANGED vars
    BY <2>4 DEF vars, FullInv, OwnInv
  <2> QED BY <2>1, <2>2, <2>3, <2>4 DEF Next, RtStep
<1>3. rt' # "step" => OwnInv'
  BY DEF OwnInv
<1> QED BY <1>1, <1>2, <1>3 DEF FullInv

THEOREM Invariance == Spec => []FullInv
<1>1. Init => FullInv
  BY InitInv DEF FullInv, OwnInv, Init
<1> QED BY <1>1, NextInv, PTL DEF Spec

-----------------------------------------------------------------------------
(***************************************************************************)
(* The state is well typed: no call and no interleaving leaves the ring    *)
(* over its capacity or a counter of the callback out of its range.        *)
(***************************************************************************)
THEOREM TypeCorrect == Spec => []TypeOK
<1>1. FullInv => TypeOK
  BY IInvImplies DEF FullInv
<1> QED BY <1>1, Invariance, PTL

(***************************************************************************)
(* While the loop may still command the robot, isRunning() says so.        *)
(***************************************************************************)
THEOREM RunningCoversLoop == Spec => []LoopImpliesRunning
<1>1. FullInv => LoopImpliesRunning
  BY IInvImplies DEF FullInv
<1> QED BY <1>1, Invariance, PTL

(***************************************************************************)
(* A move that is queued or executed while isMoving() is false was         *)
(* cancelled.                                                              *)
(***************************************************************************)
THEOREM OnlyCancelHides == Spec => []HiddenMoveWasCancelled
<1>1. FullInv => HiddenMoveWasCancelled
  BY IInvImplies DEF FullInv
<1> QED BY <1>1, Invariance, PTL

(***************************************************************************)
(* Streaming commands older than a completed move are never followed.      *)
(***************************************************************************)
THEOREM MoveFencesCommands == Spec => []NoCommandOlderThanMove
<1>1. FullInv => NoCommandOlderThanMove
  BY IInvImplies DEF FullInv
<1> QED BY <1>1, Invariance, PTL

-----------------------------------------------------------------------------
(* The refinement of StreamOrMove *)

USE DEF flags, hist, Finish, Hold, InControl, InCallback

LEMMA OwnStepsRun ==
  ASSUME MachineInv, Cycle \/ StartMove \/ StoppingStep \/ MovingStep
  PROVE  RunInv'
<1> USE DEF MachineInv, IInv, TypeOK, Locals, RunInv
<1>1. CASE Cycle  BY <1>1 DEF Cycle, EnterCallback
<1>2. CASE StartMove  BY <1>2 DEF StartMove
<1>3. CASE StoppingStep  BY <1>3 DEF StoppingStep
<1>4. CASE MovingStep
  BY <1>4 DEF MovingStep, MoveGoesOn, MoveCompletes, MoveNotFinite
<1> QED BY <1>1, <1>2, <1>3, <1>4

LEMMA NextMachineInv ==
  ASSUME FullInv, QueueInv, RunInv, [Next]_vars
  PROVE  QueueInv' /\ RunInv'
<1> USE DEF MachineInv, FullInv
<1>1. CASE CommonRtStep
  BY <1>1, CommonRtStepQueues, CommonRtStepRuns
<1>2. CASE Environment
  BY <1>2, EnvironmentQueues, EnvironmentRuns
<1>3. CASE Cycle \/ StartMove \/ StoppingStep \/ MovingStep
  BY <1>3, OwnStepsRun, QueueUnchanged DEF Cycle, StartMove, StoppingStep, MovingStep
<1>4. CASE UNCHANGED vars
  BY <1>4, QueueUnchanged, RunUnchanged DEF vars
<1> QED BY <1>1, <1>2, <1>3, <1>4 DEF Next, RtStep

\* The machine has seen the move begin when it was picked up, and does not know
\* of the braking before it.
LEMMA StartMoveStutters ==
  ASSUME MachineInv, StartMove \/ StoppingStep
  PROVE  UNCHANGED Machine!vars
<1> USE DEF MachineInv, IInv, TypeOK, Locals
<1>1. CASE StartMove
  <2>1. rt = "start_move" /\ rt' = "step" /\ loc.move.id > 0 /\ ~loc.graceful
    BY <1>1 DEF StartMove, RunInv
  <2>2. loc'.seg = loc.move /\ loc'.rt_state = "STOPPING_FOR_MOVE" /\ ~loc'.graceful
    BY <1>1, <2>1 DEF StartMove
  <2>3. loc.move # NoMove
    BY <2>1 DEF NoMove
  <2>4. UNCHANGED <<Mode, Executed, Followed>>
    BY <2>1, <2>2, <2>3 DEF Mode, Executed, Followed
  <2> QED BY <1>1, <2>4, Stutters DEF StartMove
<1>2. CASE StoppingStep
  <2>1. rt = "step" /\ rt' = "between" /\ loc.seg.id > 0 /\ ~loc.graceful
        /\ loc'.seg = loc.seg /\ ~loc'.graceful
        /\ loc.rt_state # "STREAMING" /\ loc'.rt_state # "STREAMING"
    BY <1>2 DEF StoppingStep, RunInv
  <2>2. loc.seg # NoMove
    BY <2>1 DEF NoMove
  <2>3. UNCHANGED <<Mode, Executed, Followed>>
    BY <2>1, <2>2 DEF Mode, Executed, Followed
  <2> QED BY <1>2, <2>3, Stutters DEF StoppingStep
<1> QED BY <1>1, <1>2

LEMMA MovingStepSteps ==
  ASSUME MachineInv, MovingStep
  PROVE  [Machine!Next]_(Machine!vars)
<1>1. CASE MoveGoesOn
  BY <1>1, GoesOn DEF MovingStep, MoveGoesOn, MachineInv, IInv, TypeOK, Locals
<1>2. CASE MoveCompletes
  BY <1>2, MoveCompletesSteps DEF MovingStep, Machine!Next
<1>3. CASE MoveNotFinite
  BY <1>3, SwitchesOff DEF MovingStep, MoveNotFinite, Machine!Next
<1> QED BY <1>1, <1>2, <1>3 DEF MovingStep

LEMMA NextSteps ==
  ASSUME FullInv, QueueInv, RunInv, [Next]_vars
  PROVE  [Machine!Next]_(Machine!vars)
<1> USE DEF MachineInv, FullInv
<1>1. CASE Cycle
  <2>1. loc \in Locals
    BY DEF IInv, TypeOK
  <2>2. rt = "between" /\ rt' \in {"between", "check_stop", "returned"}
        /\ UNCHANGED <<taken, pending, hist>> /\ EnterCallback
    BY <1>1 DEF Cycle
  <2> QED BY <2>1, <2>2, CallbackSteps
<1>2. CASE UNCHANGED vars
  BY <1>2, LoopUnchanged, Stutters DEF vars
<1> QED
  BY <1>1, <1>2, CommonRtStepSteps, EnvironmentSteps, StartMoveStutters, MovingStepSteps
  DEF Next, RtStep

(***************************************************************************)
(* For every number of callers, commands, moves and starts, every          *)
(* interleaving of the calls with the callback is one of the machine that  *)
(* streams or moves.                                                       *)
(***************************************************************************)
THEOREM CartesianStreamsOrMoves == Spec => ImplementsStreamOrMove
<1> DEFINE Inv == FullInv /\ QueueInv /\ RunInv
<1>1. Init => Inv
  BY InitInv, InitMachineInv DEF FullInv, OwnInv, Init
<1>2. Inv /\ [Next]_vars => Inv'
  BY NextInv, NextMachineInv DEF FullInv
<1>3. Inv /\ [Next]_vars => [Machine!Next]_(Machine!vars)
  BY NextSteps
<1> QED
  BY <1>1, <1>2, <1>3, InitMachine, PTL DEF Spec, ImplementsStreamOrMove, Machine!Spec

-----------------------------------------------------------------------------
(* What is_moving() reports, and what has ended *)

StepInv == FullInv /\ QueueInv /\ RunInv /\ MovingMeansMove /\ OrderInv /\ BrakeInv

LEMMA OwnStepsReport ==
  ASSUME StepInv, Cycle \/ StartMove \/ StoppingStep \/ MovingStep
  PROVE  MovingMeansMove' /\ OrderInv'
<1> USE DEF StepInv, FullInv, IInv, TypeOK, CountsOK, Locals, MovingMeansMove, Underway,
        OrderInv
<1>1. CASE Cycle  BY <1>1 DEF Cycle, EnterCallback
<1>2. CASE StartMove
  <2>1. /\ loc'.seg = loc.move /\ loc'.move = NoMove /\ loc'.rt_state = "STOPPING_FOR_MOVE"
        /\ UNCHANGED <<pending, moves>> /\ rt' = "step"
    BY <1>2 DEF StartMove
  <2>2. pending # NoMove => moves > 0
    BY DEF RunInv
  <2> QED BY <2>1, <2>2 DEF NoMove
<1>3. CASE MovingStep
  <2>1. UNCHANGED <<pending, moves>> /\ loc'.move = loc.move
        /\ loc'.seg \in {loc.seg, NoMove} /\ rt' \in {"between", "returned"}
    BY <1>3 DEF MovingStep, MoveGoesOn, MoveCompletes, MoveNotFinite
  <2>2. rt' = "between" /\ moving' => loc'.rt_state = "MOVING"
    BY <1>3 DEF MovingStep, MoveGoesOn, MoveCompletes, MoveNotFinite
  <2>3. pending # NoMove => moves > 0
    BY DEF RunInv
  <2> QED BY <2>1, <2>2, <2>3 DEF NoMove
<1>4. CASE StoppingStep
  <2>1. /\ loc'.seg = loc.seg /\ loc'.move = loc.move /\ loc'.rt_state # "STREAMING"
        /\ UNCHANGED <<pending, moves>> /\ rt' = "between"
    BY <1>4 DEF StoppingStep
  <2> QED BY <2>1
<1> QED BY <1>1, <1>2, <1>3, <1>4

\* The own steps do not count for a stop: a move is braked for with a coast of its
\* own, before the loop has seen the request to stop.
LEMMA OwnStepsBrake ==
  ASSUME StepInv, Cycle \/ StartMove \/ StoppingStep \/ MovingStep
  PROVE  BrakeInv' /\ (rt' \in InControl => BrakeLeft' = BrakeLeft)
<1> USE DEF StepInv, FullInv, IInv, TypeOK, Locals
<1>1. /\ rt \in InControl
      /\ loc'.graceful = loc.graceful /\ loc'.hold = loc.hold
  BY DEF Cycle, EnterCallback, StartMove, StoppingStep, MovingStep, MoveGoesOn,
     MoveCompletes, MoveNotFinite
<1>2. loc'.coast = loc.coast \/ ~loc.graceful
  BY DEF Cycle, EnterCallback, StartMove, StoppingStep, MovingStep, RunInv
<1> QED BY <1>1, <1>2 DEF BrakeInv, BrakeLeft

LEMMA NextStepInv == StepInv /\ [Next]_vars => StepInv'
<1> SUFFICES ASSUME StepInv, [Next]_vars PROVE StepInv'  OBVIOUS
<1>1. FullInv' /\ QueueInv' /\ RunInv'
  BY NextInv, NextMachineInv DEF StepInv
<1>2. MachineInv
  BY DEF StepInv, FullInv, MachineInv
<1>3. MovingMeansMove' /\ OrderInv' /\ BrakeInv'
  <2>1. CASE CommonRtStep
    BY <1>2, <2>1, CommonRtStepReports, CommonRtStepOrders, CommonRtStepBrakes DEF StepInv
  <2>2. CASE Environment
    BY <1>2, <2>2, EnvironmentReports, EnvironmentOrders, EnvironmentBrakes DEF StepInv
  <2>3. CASE Cycle \/ StartMove \/ StoppingStep \/ MovingStep
    BY <2>3, OwnStepsReport, OwnStepsBrake
  <2>4. CASE UNCHANGED vars
    BY <2>4 DEF vars, StepInv, MovingMeansMove, Underway, OrderInv, BrakeInv
  <2> QED BY <2>1, <2>2, <2>3, <2>4 DEF Next, RtStep
<1> QED BY <1>1, <1>3 DEF StepInv

LEMMA StepInvariance == Spec => []StepInv
<1>1. Init => StepInv
  BY InitInv, InitMachineInv
  DEF StepInv, FullInv, OwnInv, Init, MovingMeansMove, OrderInv, BrakeInv, FreshLocals
<1> QED BY <1>1, NextStepInv, PTL DEF Spec

(***************************************************************************)
(* A client that polls isMoving() waits for something: while it is true, a *)
(* request waits to be picked up or a move is under way, whatever was      *)
(* cancelled, replaced or stopped.  Only in the last two stores   *)
(* of rtLoop may it be true for nothing.                                   *)
(***************************************************************************)
THEOREM MovingIsTrue == Spec => []MovingMeansMove
<1>1. StepInv => MovingMeansMove
  BY DEF StepInv
<1> QED BY <1>1, StepInvariance, PTL

(***************************************************************************)
(* A request that has completed, was cut short, cancelled or replaced is   *)
(* over for good, and so is every request older than the one executed: no  *)
(* late pick-up brings it back.                                            *)
(***************************************************************************)
THEOREM RequestsEndForGood ==
  ASSUME NEW m \in 1..MaxMoves
  PROVE  Spec => [](m < Executed.id => Over(m)) /\ [](Over(m) => []Over(m))
<1>1. StepInv => (m < Executed.id => Over(m))
  BY OlderIsOver DEF StepInv, FullInv, MachineInv
<1>2. StepInv /\ Over(m) /\ [Next]_vars => Over(m)'
  BY NextSteps, OverStays, SizesAssumption DEF StepInv, FullInv
<1> QED BY <1>1, <1>2, StepInvariance, PTL DEF Spec

(***************************************************************************)
(* A command that was superseded, or that is older than a completed move   *)
(* or than the last start(), is never followed again.                      *)
(***************************************************************************)
THEOREM CommandsEndForGood ==
  ASSUME NEW c \in 1..MaxCmds
  PROVE  Spec => [](Gone(c) => []Gone(c))
<1>1. StepInv /\ Gone(c) /\ [Next]_vars => Gone(c)'
  BY NextSteps, GoneStays, SizesAssumption DEF StepInv, FullInv
<1> QED BY <1>1, StepInvariance, PTL DEF Spec

-----------------------------------------------------------------------------
(* How long a stop and a move can take *)

\* Callbacks that can still begin once a stop was requested.  After an estop the
\* next one finishes the motion, as does a fault.
CallbacksLeft == IF rt = "check_stop" THEN BrakeLeft - 1
                 ELSE IF estop THEN 1 ELSE BrakeLeft

\* Every callback that begins after the request uses one up, and nothing that the
\* callers or the robot do gives it back.
StopCountsDown ==
  stop_requested /\ rt \in InControl /\ rt' \in InControl =>
    /\ CallbacksLeft \in 0..(MaxCoast + HoldCycles)
    /\ CallbacksLeft' <= CallbacksLeft
    /\ Cycle => CallbacksLeft' < CallbacksLeft

LEMMA NextCountsDown == StepInv /\ [Next]_vars => StopCountsDown
<1> SUFFICES ASSUME StepInv, [Next]_vars, stop_requested, rt \in InControl, rt' \in InControl
             PROVE  /\ CallbacksLeft \in 0..(MaxCoast + HoldCycles)
                    /\ CallbacksLeft' <= CallbacksLeft
                    /\ Cycle => CallbacksLeft' < CallbacksLeft
  BY DEF StopCountsDown
<1>1. /\ MachineInv /\ IInv /\ IInv' /\ BrakeInv
      /\ estop \in BOOLEAN /\ estop' \in BOOLEAN
  BY NextStepInv DEF StepInv, FullInv, MachineInv, IInv, TypeOK, FlagsOK
<1>2. BrakeLeft \in 1..(MaxCoast + HoldCycles) /\ MaxCoast \in Nat /\ HoldCycles \in Nat
  BY <1>1, BrakeLeftType, SizesAssumption
<1>3. BrakeLeft' \in 1..(MaxCoast + HoldCycles)
  <2>1. loc'.coast \in 0..MaxCoast /\ loc'.hold \in 0..HoldCycles /\ loc'.hold < HoldCycles
    BY <1>1 DEF IInv, TypeOK, Locals, Rest, LoopInv
  <2> QED BY <2>1, SizesAssumption DEF BrakeLeft
<1>4. ASSUME Cycle PROVE CallbacksLeft' < CallbacksLeft
  <2>1. BrakeLeft' = BrakeLeft
    BY <1>4, OwnStepsBrake
  <2>2. /\ rt = "between" /\ ~estop
        /\ rt' = "check_stop" /\ ~estop'
    BY <1>4 DEF Cycle
  <2> QED BY <1>2, <1>3, <2>1, <2>2 DEF CallbacksLeft
<1>5. /\ CallbacksLeft \in 0..(MaxCoast + HoldCycles)
      /\ CallbacksLeft' \in 0..(MaxCoast + HoldCycles)
  <2>1. CallbacksLeft \in 0..(MaxCoast + HoldCycles)
    BY <1>2 DEF CallbacksLeft
  <2>2. CallbacksLeft' = IF rt' = "check_stop" THEN BrakeLeft' - 1
                         ELSE IF estop' THEN 1 ELSE BrakeLeft'
    BY DEF CallbacksLeft
  <2>3. PICK n \in 1..(MaxCoast + HoldCycles) : BrakeLeft' = n
    BY <1>3
  <2>4. CallbacksLeft' \in 0..(MaxCoast + HoldCycles)
    BY <1>2, <2>2, <2>3
  <2> QED BY <2>1, <2>4
<1>6. CASE CommonRtStep
  <2>1. /\ BrakeLeft' <= BrakeLeft /\ rt # "between" /\ rt' # "check_stop"
        /\ rt = "check_stop" => BrakeLeft' < BrakeLeft
        /\ estop' = estop
    BY <1>1, <1>6, CommonRtStepBrakes
  <2>2. CallbacksLeft' <= CallbacksLeft
    <3>1. PICK n \in 1..(MaxCoast + HoldCycles) : BrakeLeft' = n
      BY <1>3
    <3> QED BY <1>1, <1>2, <2>1, <3>1 DEF CallbacksLeft
  <2> QED BY <1>4, <1>5, <2>2
<1>7. CASE Environment
  <2>1. BrakeLeft' = BrakeLeft /\ rt' = rt /\ (estop => estop')
    BY <1>1, <1>7, EnvironmentBrakes
  <2>2. CallbacksLeft' <= CallbacksLeft
    BY <1>1, <1>2, <2>1 DEF CallbacksLeft
  <2> QED BY <1>4, <1>5, <2>2
<1>8. CASE StartMove \/ StoppingStep \/ MovingStep
  <2>1. BrakeLeft' = BrakeLeft
    BY <1>8, OwnStepsBrake
  <2>2. rt # "check_stop" /\ rt' # "check_stop" /\ estop' = estop
    BY <1>8
    DEF StartMove, StoppingStep, MovingStep, MoveGoesOn, MoveCompletes, MoveNotFinite
  <2> QED BY <1>2, <1>3, <1>4, <2>1, <2>2 DEF CallbacksLeft
<1>9. CASE UNCHANGED vars
  BY <1>2, <1>4, <1>9 DEF vars, CallbacksLeft, BrakeLeft
<1>10. CASE Cycle
  BY <1>4, <1>5, <1>10
<1> QED BY <1>4, <1>6, <1>7, <1>8, <1>9, <1>5, <1>10 DEF Next, RtStep

(***************************************************************************)
(* stop() is not held up: however the callers, faults and estops fall      *)
(* between the callbacks, at most MaxCoast + HoldCycles of them begin       *)
(* after the request before control() returns.  (That they do begin is     *)
(* liveness: StopReturns.)                                                 *)
(***************************************************************************)
THEOREM StopIsBounded == Spec => [][StopCountsDown]_vars
  BY NextCountsDown, StepInvariance, PTL DEF Spec

\* Callbacks a move needs at most, from the moment it is queued: those that brake
\* the stream for it, the one that finds it quiet, and those that follow it.
MoveLeft == IF loc.rt_state = "MOVING" THEN MoveTime - loc.t
            ELSE loc.coast + 1 + MoveTime

\* Every callback that gets as far as the move brings it nearer to its end, and
\* nothing sets the same move back.
MoveCountsDown ==
  /\ rt \in InControl /\ loc.rt_state # "STREAMING"
  /\ rt' \in InControl /\ loc'.rt_state # "STREAMING" /\ loc'.seg.id = loc.seg.id
  => /\ MoveLeft \in 1..(MaxCoast + 1 + MoveTime)
     /\ MoveLeft' <= MoveLeft
     /\ rt = "step" /\ rt' # "step" => MoveLeft' < MoveLeft

LEMMA NextMovesOn == StepInv /\ [Next]_vars => MoveCountsDown
<1> SUFFICES ASSUME StepInv, [Next]_vars,
                    rt \in InControl, loc.rt_state # "STREAMING",
                    rt' \in InControl, loc'.rt_state # "STREAMING",
                    loc'.seg.id = loc.seg.id
             PROVE  /\ MoveLeft \in 1..(MaxCoast + 1 + MoveTime)
                    /\ MoveLeft' <= MoveLeft
                    /\ rt = "step" /\ rt' # "step" => MoveLeft' < MoveLeft
  BY DEF MoveCountsDown
<1> USE DEF StepInv, FullInv, IInv, TypeOK, Locals
<1>1. /\ loc.t \in 0..(MoveTime - 1) /\ MoveTime \in Nat \ {0}
      /\ loc.coast \in 0..MaxCoast /\ MaxCoast \in Nat
      /\ MoveLeft \in 1..(MaxCoast + 1 + MoveTime)
  BY SizesAssumption DEF MoveLeft
<1>2. ASSUME \A f \in {"t", "coast", "rt_state"} : loc'[f] = loc[f],
             rt # "step" \/ rt' = "step"
      PROVE  MoveLeft' <= MoveLeft
  BY <1>1, <1>2 DEF MoveLeft
<1>3. CASE CommonRtStep
  <2>1. (\A f \in {"t", "coast", "rt_state"} : loc'[f] = loc[f]) /\ rt # "step"
    BY <1>3 DEF CommonRtStep, EnterControl, GoOn, GracefulStop, DrainOne, DrainEnd, PickUp,
       StreamingStep, ClearRunning, ClearMoving
  <2> QED BY <1>1, <1>2, <2>1
<1>4. CASE Environment
  <2>1. loc' = loc /\ rt' = rt
    BY <1>4 DEF Environment, Throw, Start, ApiNext, ApiReturn, StopBegin, StopJoin,
       SetTarget, TriggerEstop, Lock, MoveTo, CancelMove
  <2> QED BY <1>1, <1>2, <2>1
<1>5. CASE Cycle
  <2>1. (\A f \in {"t", "coast", "rt_state"} : loc'[f] = loc[f]) /\ rt # "step"
    BY <1>5 DEF Cycle, EnterCallback
  <2> QED BY <1>1, <1>2, <2>1
<1>6. CASE StartMove
  <2>1. loc'.seg = loc.move /\ loc.seg.id < loc.move.id
    BY <1>6 DEF StartMove, OrderInv
  <2>2. loc.seg.id \in Nat /\ loc.move.id \in Nat
    BY SizesAssumption DEF Request
  <2> QED BY <2>1, <2>2
<1>7. CASE MovingStep
  <2>1. PICK dt \in 1..MaxPeriod :
          loc'.t = loc.t + dt /\ loc'.rt_state = "MOVING" /\ loc.rt_state = "MOVING"
    BY <1>7 DEF MovingStep, MoveGoesOn, MoveCompletes, MoveNotFinite
  <2> QED BY <1>1, <2>1, SizesAssumption DEF MoveLeft
<1>8. CASE UNCHANGED vars
  BY <1>1, <1>2, <1>8 DEF vars
<1>9. CASE StoppingStep
  <2>1. /\ loc'.coast = (IF loc.coast > 0 THEN loc.coast - 1 ELSE 0)
        /\ loc'.rt_state = (IF loc.coast = 0 THEN "MOVING" ELSE loc.rt_state)
        /\ loc'.t = loc.t /\ loc.rt_state = "STOPPING_FOR_MOVE"
    BY <1>9 DEF StoppingStep
  <2> QED BY <1>1, <2>1 DEF MoveLeft
<1> QED BY <1>1, <1>3, <1>4, <1>5, <1>6, <1>7, <1>8, <1>9 DEF Next, RtStep

(***************************************************************************)
(* A move is not held up: at most MaxCoast + 1 callbacks brake the stream  *)
(* for it and at most MoveTime follow it, and no call, command or fault    *)
(* sets it back.  It completes or is replaced, or the loop stops or ends.  *)
(***************************************************************************)
THEOREM MovesAreBounded == Spec => [][MoveCountsDown]_vars
  BY NextMovesOn, StepInvariance, PTL DEF Spec
=============================================================================
