------------------------- MODULE RtControllerProofs -------------------------
(***************************************************************************)
(* The inductive invariant of both controllers, and that every action they *)
(* share keeps it, for every number of callers, queue capacity, warm-up,   *)
(* hold time and length of a move.  JointPositionControlProofs and         *)
(* CartesianControlProofs add the actions that are their own.              *)
(***************************************************************************)
EXTENDS RtController, SequenceTheorems, TLAPS

\* Every queued command is newer than command n.
NewerThan(n) == \A i \in 1..Len(cmd_buf) : cmd_buf[i].id > n

\* The mutex has at most one holder, and a call that will add a move may.
MutexInv ==
  /\ \A c, d \in Caller :
       api[c] \in {"move", "cancel"} /\ api[d] \in {"move", "cancel"} => c = d
  /\ \A c \in Caller : api[c] = "move" => moves < MaxMoves

\* Every copy of a request is of a request that was made.
WasMade(r) == r.id <= moves /\ r.after <= cmds
RequestInv == WasMade(pending) /\ WasMade(loc.move) /\ WasMade(loc.seg)

LoopInv ==
  /\ rt \in InControl \cup {"returned"} => running
  /\ rt \in InControl => loc.hold < HoldCycles
  /\ loc.got_cmd => taken # <<>>
  /\ rt \in {"check_stop", "drain", "pickup", "start_move"} => ~loc.start_move

\* What is queued, just read or followed is newer than every completed move.  In
\* a callback that found the segment under way and has drained the ring, what is
\* queued is newer than the request of that segment.
FenceInv ==
  /\ NewerThan(fence)
  /\ loc.target # 0 => loc.target > fence
  /\ loc.got_cmd /\ rt \in InCallback => taken[1].id > fence
  /\ loc.rt_state = "MOVING" /\ ~loc.start_move /\ rt \in {"pickup", "step"}
       => NewerThan(loc.seg.after)

Rest == MutexInv /\ RequestInv /\ LoopInv /\ HiddenMoveWasCancelled /\ FenceInv

IInv == TypeOK /\ Rest
-----------------------------------------------------------------------------
(* Lemmas *)

LEMMA AppendNewer ==
  ASSUME NEW q \in Seq(Command), NEW item \in Command, NEW n \in Nat,
         item.id > n, \A i \in 1..Len(q) : q[i].id > n
  PROVE  \A i \in 1..Len(Append(q, item)) : Append(q, item)[i].id > n
  BY AppendProperties

LEMMA TakeNewer ==
  ASSUME NEW q \in Seq(Command), q # <<>>, NEW n \in Nat,
         \A i \in 1..Len(q) : q[i].id > n
  PROVE  /\ Head(q).id > n
         /\ \A i \in 1..Len(Tail(q)) : Tail(q)[i].id > n
<1>1. Len(q) \in Nat \ {0} /\ Head(q) = q[1]
  BY EmptySeq, HeadTailProperties
<1>2. Len(Tail(q)) = Len(q) - 1 /\ \A i \in 1..Len(Tail(q)) : Tail(q)[i] = q[i + 1]
  BY HeadTailProperties
<1> QED BY <1>1, <1>2

\* What the ring operations do to the types.
LEMMA RingType ==
  ASSUME TypeOK
  PROVE  /\ \A item \in Command : Ring!Put(item) => Ring!TypeOK'
         /\ Ring!Take => Ring!TypeOK' /\ taken' # <<>> /\ taken'[1] = Head(cmd_buf)
                         /\ Head(cmd_buf) \in Command
         /\ Ring!Clear => Ring!TypeOK'
         /\ taken # <<>> => taken[1] \in Command
<1>1. ASSUME NEW item \in Command, Ring!Put(item) PROVE Ring!TypeOK'
  BY <1>1, AppendProperties, SizesAssumption DEF TypeOK, Ring!TypeOK, Ring!Put
<1>2. ASSUME Ring!Take
      PROVE  Ring!TypeOK' /\ taken' # <<>> /\ taken'[1] = Head(cmd_buf)
             /\ Head(cmd_buf) \in Command
  BY <1>2, HeadTailProperties, SizesAssumption DEF TypeOK, Ring!TypeOK, Ring!Take
<1>3. ASSUME Ring!Clear PROVE Ring!TypeOK'
  BY <1>3, SizesAssumption, EmptySeq DEF TypeOK, Ring!TypeOK, Ring!Clear
<1>4. taken # <<>> => taken[1] \in Command
  BY EmptySeq DEF TypeOK, Ring!TypeOK
<1> QED BY <1>1, <1>2, <1>3, <1>4

LEMMA NoMoveType == NoMove \in Request
  BY SizesAssumption DEF NoMove, Request

LEMMA NoTarget == 0 \in 0..MaxCmds
  BY SizesAssumption

LEMMA FreshType == FreshLocals \in Locals
  BY NoMoveType, SizesAssumption DEF FreshLocals, Locals

LEMMA InitInv == Init => IInv
<1> SUFFICES ASSUME Init PROVE IInv  OBVIOUS
<1>1. TypeOK
  <2>1. Ring!TypeOK
    BY EmptySeq, SizesAssumption DEF Init, Ring!TypeOK, Ring!Init
  <2>2. FlagsOK
    BY DEF Init, FlagsOK
  <2>3. /\ pending \in Request /\ loc \in Locals
        /\ api \in [Caller -> ApiPC] /\ rt \in RtPC
    BY FreshType, NoMoveType DEF Init, RtPC, ApiPC
  <2>4. CountsOK
    BY SizesAssumption DEF Init, CountsOK
  <2> QED BY <2>1, <2>2, <2>3, <2>4 DEF TypeOK
<1>2. MutexInv /\ RequestInv
  BY DEF Init, MutexInv, RequestInv, WasMade, NoMove, FreshLocals
<1>3. LoopInv /\ HiddenMoveWasCancelled /\ FenceInv
  BY EmptySeq DEF Init, LoopInv, HiddenMoveWasCancelled, FenceInv, NewerThan, Ring!Init,
         FreshLocals, InControl, InCallback
<1> QED BY <1>1, <1>2, <1>3 DEF IInv, Rest

-----------------------------------------------------------------------------
(* Every action keeps the invariant *)

USE DEF flags, hist, Finish, Hold, InControl, InCallback

LEMMA EnterControlKeeps == ASSUME IInv, EnterControl PROVE IInv'
<1>1. FlagsOK' /\ CountsOK' /\ Ring!TypeOK'
  BY DEF IInv, Rest, EnterControl, TypeOK, FlagsOK, CountsOK, Ring!TypeOK
<1>2. TypeOK'
  BY <1>1 DEF IInv, Rest, EnterControl, TypeOK, RtPC
<1>3. Rest'
  BY DEF IInv, EnterControl, Rest, TypeOK, CountsOK, MutexInv, RequestInv,
     WasMade, LoopInv, HiddenMoveWasCancelled, FenceInv, NewerThan
<1> QED BY <1>2, <1>3 DEF IInv, Rest

LEMMA ThrowKeeps == ASSUME IInv, Throw PROVE IInv'
<1>1. FlagsOK' /\ CountsOK' /\ Ring!TypeOK'
  BY DEF IInv, Rest, Throw, TypeOK, FlagsOK, CountsOK, Ring!TypeOK
<1>2. TypeOK'
  BY <1>1 DEF IInv, Rest, Throw, TypeOK, RtPC
<1>3. Rest'
  BY DEF IInv, Throw, Rest, TypeOK, CountsOK, MutexInv, RequestInv, WasMade,
     LoopInv, HiddenMoveWasCancelled, FenceInv, NewerThan
<1> QED BY <1>2, <1>3 DEF IInv, Rest

\* The entry of a callback, whatever it then decides.
LEMMA CallbackKeeps ==
  ASSUME IInv, rt = "between", EnterCallback,
         rt' \in {"between", "check_stop", "returned"}, estop' \in BOOLEAN,
         UNCHANGED <<running, stop_requested, moving, stopped, cmd_buf, taken, pending,
                     api, hist>>
  PROVE  IInv'
<1>1. PICK n \in 0..(Warmup + 1) :
        loc' = [loc EXCEPT !.iter = n, !.got_cmd = FALSE, !.start_move = FALSE]
  <2>1. loc.iter \in 0..(Warmup + 1)
    BY DEF IInv, TypeOK, Locals
  <2>2. (IF loc.iter <= Warmup THEN loc.iter + 1 ELSE loc.iter) \in 0..(Warmup + 1)
    BY <2>1, SizesAssumption
  <2> QED BY <2>2 DEF EnterCallback
<1>2. /\ loc' \in Locals /\ ~loc'.got_cmd /\ ~loc'.start_move
      /\ \A f \in {"move", "seg", "t", "rt_state", "hold", "target"} : loc'[f] = loc[f]
  BY <1>1 DEF IInv, TypeOK, Locals
<1>3. TypeOK'
  BY <1>2 DEF IInv, TypeOK, FlagsOK, CountsOK, Ring!TypeOK, RtPC
<1>4. Rest'
  BY <1>2 DEF IInv, Rest, MutexInv, RequestInv, WasMade, LoopInv,
     HiddenMoveWasCancelled, FenceInv, NewerThan
<1> QED BY <1>3, <1>4 DEF IInv

LEMMA GoOnKeeps == ASSUME IInv, GoOn PROVE IInv'
<1>1. FlagsOK' /\ CountsOK' /\ Ring!TypeOK'
  BY DEF IInv, Rest, GoOn, TypeOK, FlagsOK, CountsOK, Ring!TypeOK
<1>2. TypeOK'
  BY <1>1 DEF IInv, Rest, GoOn, TypeOK, RtPC
<1>3. Rest'
  BY DEF IInv, GoOn, Rest, TypeOK, CountsOK, MutexInv, RequestInv, WasMade,
     LoopInv, HiddenMoveWasCancelled, FenceInv, NewerThan
<1> QED BY <1>2, <1>3 DEF IInv, Rest

LEMMA GracefulStopKeeps == ASSUME IInv, GracefulStop PROVE IInv'
<1>1. PICK coast \in 0..MaxCoast, hold \in 0..HoldCycles :
        /\ loc' = [loc EXCEPT !.graceful = TRUE, !.rt_state = "STREAMING",
                              !.seg = NoMove, !.target = 0, !.coast = coast, !.hold = hold]
        /\ IF hold >= HoldCycles THEN rt' = "returned" ELSE rt' = "between"
  <2>1. PICK c0 \in 0..MaxCoast :
          LET quiet == c0 = 0
              hold  == HoldAfter(quiet, loc.hold)
          IN  /\ loc' = [loc EXCEPT !.graceful = TRUE, !.rt_state = "STREAMING",
                                    !.seg = NoMove, !.target = 0,
                                    !.coast = IF quiet THEN 0 ELSE c0 - 1,
                                    !.hold = hold]
              /\ IF HeldEnough(hold) THEN rt' = "returned" ELSE rt' = "between"
    BY DEF GracefulStop
  <2>2. loc.hold \in 0..HoldCycles /\ loc.hold < HoldCycles
    BY DEF IInv, Rest, GracefulStop, TypeOK, LoopInv, Locals
  <2>3. (IF c0 = 0 THEN 0 ELSE c0 - 1) \in 0..MaxCoast
        /\ HoldAfter(c0 = 0, loc.hold) \in 0..HoldCycles
    BY <2>2, SizesAssumption DEF HoldAfter
  <2> QED BY <2>1, <2>3 DEF HeldEnough
<1>2. loc' \in Locals
  BY <1>1, NoMoveType, NoTarget DEF IInv, Rest, TypeOK, Locals
<1>3. TypeOK'
  BY <1>1, <1>2 DEF IInv, Rest, GracefulStop, TypeOK, FlagsOK, CountsOK, Ring!TypeOK, RtPC
<1>4. FenceInv'
  BY <1>1 DEF IInv, Rest, GracefulStop, TypeOK, Locals, FenceInv, NewerThan
<1>5. MutexInv'
  BY DEF IInv, Rest, GracefulStop, MutexInv
<1>6. RequestInv'
  BY <1>1 DEF IInv, Rest, GracefulStop, TypeOK, Locals, CountsOK, RequestInv, WasMade, NoMove
<1>7. LoopInv'
  <2>1. running' /\ (loc'.got_cmd => taken' # <<>>)
    BY <1>1 DEF IInv, Rest, GracefulStop, TypeOK, Locals, LoopInv
  <2>2. rt' \in InControl => loc'.hold < HoldCycles
    BY <1>1, SizesAssumption DEF IInv, Rest, TypeOK, Locals
  <2>3. rt' \in {"returned", "between"}
    BY <1>1
  <2> QED BY <2>1, <2>2, <2>3 DEF LoopInv
<1>8. HiddenMoveWasCancelled'
  BY <1>1 DEF IInv, Rest, TypeOK, Locals, HiddenMoveWasCancelled
<1> QED BY <1>3, <1>4, <1>5, <1>6, <1>7, <1>8 DEF IInv, Rest

LEMMA DrainOneKeeps == ASSUME IInv, DrainOne PROVE IInv'
<1>1. /\ Ring!TypeOK' /\ taken' # <<>> /\ taken'[1] = Head(cmd_buf)
      /\ cmd_buf # <<>> /\ cmd_buf' = Tail(cmd_buf)
  BY RingType DEF IInv, Rest, DrainOne, Ring!Take
<1>2. TypeOK'
  BY <1>1 DEF IInv, Rest, DrainOne, TypeOK, FlagsOK, CountsOK, Locals
<1>3. \A n \in Nat : NewerThan(n) => Head(cmd_buf).id > n /\ NewerThan(n)'
  BY <1>1, TakeNewer DEF IInv, Rest, TypeOK, Ring!TypeOK, NewerThan
<1>4. FenceInv'
  BY <1>1, <1>3 DEF IInv, Rest, DrainOne, TypeOK, CountsOK, FenceInv, Locals
<1>5. MutexInv' /\ RequestInv' /\ LoopInv' /\ HiddenMoveWasCancelled'
  BY <1>1 DEF IInv, Rest, DrainOne, TypeOK, Locals, MutexInv, RequestInv, WasMade, LoopInv,
     HiddenMoveWasCancelled
<1> QED BY <1>2, <1>4, <1>5 DEF IInv, Rest

LEMMA DrainEndKeeps == ASSUME IInv, DrainEnd PROVE IInv'
<1>1. FlagsOK' /\ CountsOK' /\ Ring!TypeOK'
  BY DEF IInv, Rest, DrainEnd, InWarmup, TypeOK, FlagsOK, CountsOK, Ring!TypeOK
<1>2. TypeOK'
  BY <1>1 DEF IInv, Rest, DrainEnd, InWarmup, TypeOK, RtPC, Locals
<1>3. Rest'
  BY DEF IInv, DrainEnd, InWarmup, Rest, TypeOK, CountsOK, MutexInv,
     RequestInv, WasMade, LoopInv, HiddenMoveWasCancelled, FenceInv, NewerThan,
     Locals
<1> QED BY <1>2, <1>3 DEF IInv, Rest

LEMMA PickUpKeeps == ASSUME IInv, PickUp PROVE IInv'
<1>1. \/ UNCHANGED <<loc, pending>> /\ rt' = "step"
      \/ loc' = [loc EXCEPT !.move = pending] /\ pending' = NoMove /\ rt' = "start_move"
  BY DEF PickUp
<1>2. loc' \in Locals /\ pending' \in Request
  BY <1>1, NoMoveType DEF IInv, Rest, TypeOK, Locals
<1>3. TypeOK'
  BY <1>1, <1>2 DEF IInv, Rest, PickUp, TypeOK, FlagsOK, CountsOK, Ring!TypeOK, RtPC
<1>4. RequestInv'
  BY <1>1 DEF IInv, Rest, PickUp, TypeOK, CountsOK, Locals, RequestInv, WasMade, NoMove
<1>5. MutexInv' /\ LoopInv' /\ HiddenMoveWasCancelled' /\ FenceInv'
  BY <1>1 DEF IInv, Rest, PickUp, TypeOK, Locals, MutexInv, LoopInv, HiddenMoveWasCancelled,
     FenceInv, NewerThan
<1> QED BY <1>3, <1>4, <1>5 DEF IInv, Rest

\* A sample that is not the last one of its move.
LEMMA MoveGoesOnKeeps ==
  ASSUME IInv, rt = "step", MoveGoesOn,
         UNCHANGED <<running, stop_requested, stopped, cmd_buf, taken, pending, api,
                     cmds, moves, starts, cancelled>>
  PROVE  IInv'
<1> USE DEF IInv, Rest
<1>1. PICK n \in 0..(MoveTime - 1) : loc' = [loc EXCEPT !.t = n]
  BY SizesAssumption DEF MoveGoesOn, TypeOK, Locals
<1>2. loc' \in Locals /\ rt' = "between"
  BY <1>1 DEF MoveGoesOn, TypeOK, Locals
<1>3. TypeOK'
  BY <1>2 DEF MoveGoesOn, TypeOK, FlagsOK, CountsOK, Ring!TypeOK, RtPC
<1>4. Rest'
  BY <1>1 DEF MoveGoesOn, TypeOK, Locals, MutexInv, RequestInv, WasMade, LoopInv,
     HiddenMoveWasCancelled, FenceInv, NewerThan
<1> QED BY <1>3, <1>4

\* The end of a move, by completion or by a clamp: the stream goes on from where
\* the arm is, and the fence may have moved.
LEMMA MoveEndKeeps ==
  ASSUME IInv, rt = "step",
         loc' = [loc EXCEPT !.seg = NoMove, !.rt_state = "STREAMING", !.target = 0],
         rt' = "between", moving' = FALSE, estop' = estop,
         fence' \in 0..cmds, NewerThan(fence'),
         UNCHANGED <<running, stop_requested, stopped, cmd_buf, taken, pending, api,
                     cmds, moves, starts, cancelled>>
  PROVE  IInv'
<1> USE DEF IInv, Rest
<1>1. loc' \in Locals
  BY NoMoveType, NoTarget DEF TypeOK, Locals
<1>2. TypeOK'
  BY <1>1 DEF TypeOK, FlagsOK, CountsOK, Ring!TypeOK, RtPC
<1>3. FenceInv'
  BY DEF TypeOK, Locals, FenceInv, NewerThan
<1>4. MutexInv' /\ RequestInv' /\ LoopInv' /\ HiddenMoveWasCancelled'
  BY DEF TypeOK, CountsOK, Locals, Request, MutexInv, RequestInv, WasMade, NoMove,
     LoopInv, HiddenMoveWasCancelled
<1> QED BY <1>2, <1>3, <1>4

\* Only a segment that this callback found under way can complete in it.
LEMMA MoveCompletesKeeps ==
  ASSUME IInv, rt = "step", loc.rt_state = "MOVING", ~loc.start_move, MoveCompletes,
         UNCHANGED <<running, stop_requested, stopped, cmd_buf, taken, pending, api,
                     cmds, moves, starts, cancelled>>
  PROVE  IInv'
<1>1. NewerThan(loc.seg.after) /\ NewerThan(fence)
  BY DEF IInv, Rest, FenceInv
<1>2. loc.seg.after \in 0..cmds /\ fence \in 0..cmds
  BY DEF IInv, Rest, TypeOK, CountsOK, RequestInv, WasMade, Locals, Request
<1>3. fence' \in {loc.seg.after, fence}
  BY DEF MoveCompletes
<1>4. /\ loc' = [loc EXCEPT !.seg = NoMove, !.rt_state = "STREAMING", !.target = 0]
      /\ rt' = "between" /\ moving' = FALSE /\ estop' = estop
  BY DEF MoveCompletes
<1> QED BY <1>1, <1>2, <1>3, <1>4, MoveEndKeeps

LEMMA StreamingStepKeeps == ASSUME IInv, StreamingStep PROVE IInv'
<1>1. loc' = loc \/ (loc.got_cmd /\ loc' = [loc EXCEPT !.target = taken[1].id])
  BY DEF StreamingStep
<1>2. loc.got_cmd => taken[1].id \in 0..MaxCmds /\ taken[1].id > fence
  BY RingType DEF IInv, Rest, TypeOK, LoopInv, FenceInv, StreamingStep, Command
<1>3. loc' \in Locals
  BY <1>1, <1>2 DEF IInv, Rest, TypeOK, Locals
<1>4. TypeOK'
  BY <1>3 DEF IInv, Rest, StreamingStep, TypeOK, FlagsOK, CountsOK, Ring!TypeOK, RtPC
<1>5. FenceInv'
  BY <1>1, <1>2 DEF IInv, Rest, StreamingStep, TypeOK, Locals, FenceInv, NewerThan
<1>6. MutexInv' /\ RequestInv' /\ LoopInv' /\ HiddenMoveWasCancelled'
  BY <1>1 DEF IInv, Rest, StreamingStep, TypeOK, Locals, MutexInv, RequestInv, WasMade,
              LoopInv, HiddenMoveWasCancelled
<1> QED BY <1>4, <1>5, <1>6 DEF IInv, Rest

LEMMA ClearRunningKeeps == ASSUME IInv, ClearRunning PROVE IInv'
<1>1. FlagsOK' /\ CountsOK' /\ Ring!TypeOK'
  BY DEF IInv, Rest, ClearRunning, TypeOK, FlagsOK, CountsOK, Ring!TypeOK
<1>2. TypeOK'
  BY <1>1 DEF IInv, Rest, ClearRunning, TypeOK, RtPC
<1>3. Rest'
  BY DEF IInv, ClearRunning, Rest, TypeOK, CountsOK, MutexInv, RequestInv,
     WasMade, LoopInv, HiddenMoveWasCancelled, FenceInv, NewerThan
<1> QED BY <1>2, <1>3 DEF IInv, Rest

LEMMA ClearMovingKeeps == ASSUME IInv, ClearMoving PROVE IInv'
<1>1. FlagsOK' /\ CountsOK' /\ Ring!TypeOK'
  BY DEF IInv, Rest, ClearMoving, FreshLocals, NoMove, TypeOK, FlagsOK, CountsOK,
     Ring!TypeOK
<1>2. TypeOK'
  BY <1>1, FreshType DEF IInv, Rest, ClearMoving, FreshLocals, NoMove, TypeOK, RtPC
<1>3. Rest'
  BY DEF IInv, ClearMoving, FreshLocals, NoMove, Rest, TypeOK, CountsOK,
     MutexInv, RequestInv, WasMade, LoopInv, HiddenMoveWasCancelled, FenceInv,
     NewerThan, Locals
<1> QED BY <1>2, <1>3 DEF IInv, Rest

LEMMA StartKeeps == ASSUME IInv, Start PROVE IInv'
<1>1. cmd_buf' = <<>> /\ taken' = taken /\ Len(cmd_buf') = 0 /\ Ring!TypeOK'
  BY RingType, EmptySeq DEF IInv, Rest, Start, Ring!Clear
<1>2. loc' \in Locals /\ pending' \in Request
  BY FreshType DEF IInv, Rest, Start, TypeOK
<1>3. FlagsOK'
  BY DEF Start, FlagsOK
<1>4. CountsOK'
  BY SizesAssumption DEF IInv, Rest, Start, TypeOK, CountsOK
<1>5. TypeOK'
  BY <1>1, <1>2, <1>3, <1>4 DEF IInv, Rest, Start, TypeOK, RtPC
<1>6. FenceInv'
  BY <1>1 DEF Start, FenceInv, NewerThan, FreshLocals
<1>7. MutexInv' /\ RequestInv' /\ LoopInv' /\ HiddenMoveWasCancelled'
  BY SizesAssumption DEF IInv, Rest, Start, TypeOK, CountsOK, MutexInv, RequestInv,
                             WasMade, LoopInv, HiddenMoveWasCancelled, FreshLocals, NoMove
<1> QED BY <1>5, <1>6, <1>7 DEF IInv, Rest

LEMMA StopBeginKeeps == ASSUME IInv, NEW c \in Caller, StopBegin(c) PROVE IInv'
<1>1. FlagsOK' /\ CountsOK' /\ Ring!TypeOK'
  BY DEF IInv, Rest, StopBegin, TypeOK, FlagsOK, CountsOK, Ring!TypeOK
<1>2. TypeOK'
  BY <1>1 DEF IInv, Rest, StopBegin, TypeOK, RtPC, ApiPC
<1>3. Rest'
  BY DEF IInv, StopBegin, Rest, TypeOK, CountsOK, MutexInv, RequestInv,
     WasMade, LoopInv, HiddenMoveWasCancelled, FenceInv, NewerThan
<1> QED BY <1>2, <1>3 DEF IInv, Rest

LEMMA StopJoinKeeps == ASSUME IInv, NEW c \in Caller, StopJoin(c) PROVE IInv'
<1>1. FlagsOK' /\ CountsOK' /\ Ring!TypeOK'
  BY DEF IInv, Rest, StopJoin, TypeOK, FlagsOK, CountsOK, Ring!TypeOK
<1>2. TypeOK'
  BY <1>1 DEF IInv, Rest, StopJoin, TypeOK, RtPC, ApiPC
<1>3. Rest'
  BY DEF IInv, StopJoin, Rest, TypeOK, CountsOK, MutexInv, RequestInv, WasMade,
     LoopInv, HiddenMoveWasCancelled, FenceInv, NewerThan
<1> QED BY <1>2, <1>3 DEF IInv, Rest

LEMMA SetTargetKeeps == ASSUME IInv, NEW c \in Caller, SetTarget(c) PROVE IInv'
<1>1. cmds' = cmds + 1 /\ cmds < MaxCmds
  BY DEF SetTarget
<1>2. CASE UNCHANGED <<cmd_buf, taken>>
  <2>1. TypeOK'
    BY <1>1, <1>2, SizesAssumption
       DEF IInv, Rest, SetTarget, TypeOK, FlagsOK, CountsOK, Ring!TypeOK
  <2>2. Rest'
    BY <1>1, <1>2 DEF IInv, SetTarget, Rest, TypeOK, CountsOK, MutexInv, RequestInv,
       WasMade, LoopInv, HiddenMoveWasCancelled, FenceInv, NewerThan, Locals, Request
  <2> QED BY <2>1, <2>2 DEF IInv, Rest
<1>3. ASSUME NEW finite \in BOOLEAN, Ring!Put([id |-> cmds + 1, finite |-> finite])
      PROVE  IInv'
  <2> DEFINE item == [id |-> cmds + 1, finite |-> finite]
  <2>1. item \in Command /\ item.id = cmds + 1
    BY <1>1, SizesAssumption DEF IInv, Rest, TypeOK, CountsOK, Command
  <2>2. Ring!TypeOK' /\ cmd_buf' = Append(cmd_buf, item) /\ taken' = taken
    BY <1>3, <2>1, RingType DEF IInv, Rest, Ring!Put
  <2>3. \A n \in 0..cmds : NewerThan(n) => NewerThan(n)'
    BY <2>1, <2>2, AppendNewer DEF IInv, Rest, TypeOK, CountsOK, Ring!TypeOK, NewerThan
  <2>4. TypeOK'
    BY <1>1, <2>2, SizesAssumption DEF IInv, Rest, SetTarget, TypeOK, FlagsOK, CountsOK
  <2>5. FenceInv'
    BY <1>1, <2>2, <2>3 DEF IInv, Rest, SetTarget, TypeOK, CountsOK, FenceInv,
                              RequestInv, WasMade, Locals, Request
  <2>6. MutexInv' /\ RequestInv' /\ LoopInv' /\ HiddenMoveWasCancelled'
    BY <1>1, <2>2 DEF IInv, Rest, SetTarget, TypeOK, CountsOK, MutexInv, RequestInv,
       WasMade, LoopInv, HiddenMoveWasCancelled, Locals, Request
  <2> QED BY <2>4, <2>5, <2>6 DEF IInv, Rest
<1> QED BY <1>2, <1>3 DEF SetTarget

LEMMA LockKeeps == ASSUME IInv, NEW c \in Caller, NEW call \in {"move", "cancel"},
                          Lock(c, call)
  PROVE  IInv'
<1>1. FlagsOK' /\ CountsOK' /\ Ring!TypeOK'
  BY DEF IInv, Rest, Lock, MayCall, MutexFree, TypeOK, FlagsOK, CountsOK, Ring!TypeOK
<1>2. TypeOK'
  BY <1>1 DEF IInv, Rest, Lock, MayCall, MutexFree, TypeOK, RtPC, ApiPC
<1>3. Rest'
  BY DEF IInv, Lock, MayCall, MutexFree, Rest, TypeOK, CountsOK, MutexInv,
     RequestInv, WasMade, LoopInv, HiddenMoveWasCancelled, FenceInv, NewerThan
<1> QED BY <1>2, <1>3 DEF IInv, Rest

LEMMA MoveToKeeps == ASSUME IInv, NEW c \in Caller, MoveTo(c) PROVE IInv'
<1>1. moves' = moves + 1 /\ moves' \in 0..MaxMoves
  BY SizesAssumption DEF IInv, Rest, MoveTo, TypeOK, CountsOK, MutexInv
<1>2. PICK finite \in BOOLEAN :
        pending' = [id |-> moves + 1, finite |-> finite, after |-> cmds]
  BY DEF MoveTo
<1>3. pending' \in Request /\ WasMade(pending)'
  BY <1>1, <1>2, SizesAssumption DEF IInv, Rest, MoveTo, TypeOK, CountsOK, Request, WasMade
<1>4. TypeOK'
  <2>1. FlagsOK' /\ Ring!TypeOK'
    BY DEF IInv, Rest, MoveTo, TypeOK, FlagsOK, Ring!TypeOK
  <2>2. CountsOK'
    BY <1>1 DEF IInv, Rest, MoveTo, TypeOK, CountsOK
  <2> QED BY <1>3, <2>1, <2>2 DEF IInv, Rest, MoveTo, TypeOK, ApiPC
<1>5. RequestInv'
  BY <1>1, <1>3 DEF IInv, Rest, MoveTo, TypeOK, CountsOK, Locals, Request, RequestInv, WasMade
<1>6. MutexInv' /\ LoopInv' /\ HiddenMoveWasCancelled' /\ FenceInv'
  BY DEF IInv, Rest, MoveTo, TypeOK, MutexInv, LoopInv, HiddenMoveWasCancelled,
     FenceInv, NewerThan
<1> QED BY <1>4, <1>5, <1>6 DEF IInv, Rest

LEMMA CancelMoveKeeps == ASSUME IInv, NEW c \in Caller, CancelMove(c) PROVE IInv'
<1>1. FlagsOK' /\ Ring!TypeOK'
  BY DEF IInv, Rest, CancelMove, TypeOK, FlagsOK, Ring!TypeOK
<1>2. CountsOK'
  BY DEF IInv, Rest, CancelMove, TypeOK, CountsOK
<1>3. TypeOK'
  BY <1>1, <1>2, NoMoveType DEF IInv, Rest, CancelMove, TypeOK, ApiPC
<1>4. Rest'
  BY DEF IInv, CancelMove, NoMove, Rest, TypeOK, CountsOK, MutexInv, RequestInv, WasMade,
     LoopInv, HiddenMoveWasCancelled, FenceInv, NewerThan
<1> QED BY <1>3, <1>4 DEF IInv, Rest

LEMMA TriggerEstopKeeps == ASSUME IInv, NEW c \in Caller, TriggerEstop(c)
  PROVE  IInv'
<1>1. FlagsOK' /\ CountsOK' /\ Ring!TypeOK'
  BY DEF IInv, Rest, TriggerEstop, MayCall, TypeOK, FlagsOK, CountsOK, Ring!TypeOK
<1>2. TypeOK'
  BY <1>1 DEF IInv, Rest, TriggerEstop, MayCall, TypeOK, RtPC, ApiPC
<1>3. Rest'
  BY DEF IInv, TriggerEstop, MayCall, Rest, TypeOK, CountsOK, MutexInv,
     RequestInv, WasMade, LoopInv, HiddenMoveWasCancelled, FenceInv, NewerThan
<1> QED BY <1>2, <1>3 DEF IInv, Rest

-----------------------------------------------------------------------------
LEMMA CommonRtStepKeeps == ASSUME IInv, CommonRtStep PROVE IInv'
  BY EnterControlKeeps, GoOnKeeps, GracefulStopKeeps, DrainOneKeeps, DrainEndKeeps,
     PickUpKeeps, StreamingStepKeeps, ClearRunningKeeps, ClearMovingKeeps
  DEF CommonRtStep

LEMMA EnvironmentKeeps == ASSUME IInv, Environment PROVE IInv'
<1>1. CASE Throw \/ Start
  BY <1>1, ThrowKeeps, StartKeeps
<1>2. ASSUME NEW c \in Caller, ApiNext(c) PROVE IInv'
  BY <1>2, StopBeginKeeps, StopJoinKeeps, SetTargetKeeps, LockKeeps, MoveToKeeps,
     CancelMoveKeeps, TriggerEstopKeeps DEF ApiNext, ApiReturn
<1> QED BY <1>1, <1>2 DEF Environment

LEMMA StutterKeeps == ASSUME IInv, UNCHANGED vars PROVE IInv'
  BY DEF IInv, Rest, vars, TypeOK, FlagsOK, CountsOK, Ring!TypeOK, MutexInv, RequestInv,
     WasMade, LoopInv, HiddenMoveWasCancelled, FenceInv, NewerThan

\* No shared action brings a callback that has started a move to its last step:
\* DrainEnd and PickUp leave start_move as they found it.
LEMMA CommonRtStepArrives ==
  ASSUME IInv, CommonRtStep, rt' = "step"
  PROVE  ~loc'.start_move
  BY DEF IInv, Rest, LoopInv, TypeOK, Locals, CommonRtStep, EnterControl, GoOn,
     GracefulStop, DrainOne, DrainEnd, PickUp, StreamingStep, ClearRunning, ClearMoving

LEMMA EnvironmentArrives ==
  ASSUME Environment, rt' = "step"
  PROVE  rt = "step" /\ loc' = loc
  BY DEF Environment, Throw, Start, ApiNext, ApiReturn, StopBegin, StopJoin, SetTarget,
     Lock, MoveTo, CancelMove, TriggerEstop

LEMMA IInvImplies ==
  IInv => TypeOK /\ LoopImpliesRunning /\ HiddenMoveWasCancelled /\ NoCommandOlderThanMove
  BY DEF IInv, Rest, LoopInv, FenceInv, LoopImpliesRunning, NoCommandOlderThanMove

-----------------------------------------------------------------------------
(* The refinement of StreamOrMove: what it needs besides IInv *)

\* What is queued is newer than what was read, in order.
QueueInv ==
  /\ Heard <= cmds
  /\ \A i \in 1..Len(cmd_buf) : cmd_buf[i].id > Heard /\ cmd_buf[i].id <= cmds
  /\ \A i, j \in 1..Len(cmd_buf) : i < j => cmd_buf[i].id < cmd_buf[j].id

\* A request that is there was made, and a loop that brakes goes on braking.
RunInv ==
  /\ pending # NoMove => pending.id > 0
  /\ rt = "start_move" => loc.move.id > 0
  /\ rt \in InControl /\ loc.rt_state # "STREAMING" => loc.seg.id > 0
  /\ rt \in InControl /\ loc.graceful
       => /\ stop_requested /\ rt \in {"between", "check_stop"}
          /\ loc.rt_state = "STREAMING" /\ loc.target = 0

MachineInv == IInv /\ QueueInv /\ RunInv

LEMMA HeardType == TypeOK => Heard \in Nat
  BY RingType, SizesAssumption DEF Heard, Command

LEMMA QueuedIds ==
  ASSUME TypeOK
  PROVE  Len(cmd_buf) \in Nat /\ \A i \in 1..Len(cmd_buf) : cmd_buf[i].id \in Nat
<1>1. cmd_buf \in Seq(Command) /\ Len(cmd_buf) \in Nat
  BY LenProperties DEF TypeOK, Ring!TypeOK
<1>2. ASSUME NEW i \in 1..Len(cmd_buf) PROVE cmd_buf[i].id \in Nat
  <2>1. cmd_buf[i] \in Command
    BY <1>1, ElementOfSeq
  <2> QED BY <2>1, SizesAssumption DEF Command
<1> QED BY <1>1, <1>2

LEMMA InitMachineInv == Init => QueueInv /\ RunInv
  BY EmptySeq DEF Init, Ring!Init, QueueInv, RunInv, Heard

LEMMA QueueUnchanged ==
  ASSUME QueueInv, UNCHANGED <<cmd_buf, taken, cmds>>
  PROVE  QueueInv'
  BY DEF QueueInv, Heard

LEMMA SetTargetQueues ==
  ASSUME IInv, QueueInv, NEW c \in Caller, SetTarget(c)
  PROVE  QueueInv'
<1>1. cmds' = cmds + 1 /\ cmds \in Nat /\ Heard \in Nat
  BY HeardType DEF SetTarget, IInv, TypeOK, CountsOK
<1>2. CASE UNCHANGED <<cmd_buf, taken>>
  BY <1>1, <1>2, QueuedIds DEF QueueInv, Heard, IInv
<1>3. ASSUME NEW finite \in BOOLEAN, Ring!Put([id |-> cmds + 1, finite |-> finite])
      PROVE  QueueInv'
  <2> DEFINE item == [id |-> cmds + 1, finite |-> finite]
             q == Append(cmd_buf, item)
  <2>1. cmd_buf \in Seq(Command) /\ cmd_buf' = q /\ taken' = taken
    BY <1>3 DEF Ring!Put, IInv, TypeOK, Ring!TypeOK
  <2>2. item \in Command /\ item.id = cmds + 1
    BY <1>1, SizesAssumption DEF Command, SetTarget
  <2>3. /\ Len(q) = Len(cmd_buf) + 1 /\ Len(cmd_buf) \in Nat
        /\ \A i \in 1..Len(cmd_buf) : q[i] = cmd_buf[i] /\ q[i].id \in Nat
        /\ q[Len(cmd_buf) + 1] = item
    BY <2>1, <2>2, AppendProperties, QueuedIds DEF IInv
  <2> HIDE DEF q, item
  <2>4. \A i \in 1..Len(q) : q[i].id > Heard /\ q[i].id <= cmds + 1
    BY <1>1, <2>2, <2>3 DEF QueueInv
  <2>5. \A i, j \in 1..Len(q) : i < j => q[i].id < q[j].id
    BY <1>1, <2>2, <2>3 DEF QueueInv
  <2> QED BY <1>1, <2>1, <2>4, <2>5 DEF QueueInv, Heard
<1> QED BY <1>2, <1>3 DEF SetTarget

LEMMA DrainOneQueues ==
  ASSUME IInv, QueueInv, DrainOne
  PROVE  QueueInv' /\ Heard' \in (Heard + 1)..cmds
<1>1. /\ cmd_buf \in Seq(Command) /\ cmd_buf # <<>>
      /\ cmd_buf' = Tail(cmd_buf) /\ taken' = <<Head(cmd_buf)>>
  BY DEF DrainOne, Ring!Take, IInv, TypeOK, Ring!TypeOK
<1>2. Len(cmd_buf) \in Nat \ {0} /\ Head(cmd_buf) = cmd_buf[1]
  BY <1>1, EmptySeq, HeadTailProperties
<1>3. /\ Len(cmd_buf') = Len(cmd_buf) - 1
      /\ \A i \in 1..Len(cmd_buf') : cmd_buf'[i] = cmd_buf[i + 1]
  BY <1>1, HeadTailProperties
<1>4. \A i \in 1..Len(cmd_buf) : cmd_buf[i].id \in Nat
  BY QueuedIds DEF IInv
<1>5. Heard' = cmd_buf[1].id
  BY <1>1, <1>2 DEF Heard
<1>6. cmds' = cmds /\ cmds \in Nat /\ Heard \in Nat
  BY HeardType DEF DrainOne, IInv, TypeOK, CountsOK
<1>7. Heard' > Heard /\ Heard' <= cmds /\ Heard' \in Nat
  BY <1>2, <1>4, <1>5 DEF QueueInv
<1>8. \A i \in 1..Len(cmd_buf') : cmd_buf'[i].id > Heard' /\ cmd_buf'[i].id <= cmds
  BY <1>2, <1>3, <1>5 DEF QueueInv
<1>9. \A i, j \in 1..Len(cmd_buf') : i < j => cmd_buf'[i].id < cmd_buf'[j].id
  BY <1>2, <1>3 DEF QueueInv
<1> QED BY <1>6, <1>7, <1>8, <1>9 DEF QueueInv

LEMMA StartQueues ==
  ASSUME IInv, QueueInv, Start
  PROVE  QueueInv'
<1>1. cmd_buf' = <<>> /\ Len(cmd_buf') = 0 /\ taken' = taken /\ cmds' = cmds
  BY EmptySeq DEF Start, Ring!Clear
<1> QED BY <1>1 DEF QueueInv, Heard

LEMMA CommonRtStepQueues == ASSUME IInv, QueueInv, CommonRtStep PROVE QueueInv'
  BY QueueUnchanged, DrainOneQueues
  DEF CommonRtStep, EnterControl, GoOn, GracefulStop, DrainEnd, PickUp, StreamingStep,
      ClearRunning, ClearMoving

LEMMA EnvironmentQueues == ASSUME IInv, QueueInv, Environment PROVE QueueInv'
<1>1. CASE Throw \/ Start
  BY <1>1, StartQueues, QueueUnchanged DEF Throw
<1>2. ASSUME NEW c \in Caller, ApiNext(c) PROVE QueueInv'
  BY <1>2, SetTargetQueues, QueueUnchanged
  DEF ApiNext, ApiReturn, StopBegin, StopJoin, TriggerEstop, Lock, MoveTo, CancelMove
<1> QED BY <1>1, <1>2 DEF Environment

\* RunInv only depends on these.
LEMMA RunUnchanged ==
  ASSUME RunInv, UNCHANGED <<pending, rt, loc, stop_requested>>
  PROVE  RunInv'
  BY DEF RunInv

LEMMA CommonRtStepRuns == ASSUME MachineInv, CommonRtStep PROVE RunInv'
<1> USE DEF MachineInv, IInv, TypeOK, Locals, RunInv
<1>1. CASE EnterControl  BY <1>1 DEF EnterControl
<1>2. CASE GoOn  BY <1>2 DEF GoOn
<1>3. CASE GracefulStop
  <2>1. /\ loc'.rt_state = "STREAMING" /\ loc'.target = 0
        /\ rt' \in {"returned", "between"}
        /\ stop_requested' /\ pending' = pending
    BY <1>3 DEF GracefulStop
  <2> QED BY <2>1
<1>4. CASE DrainOne  BY <1>4 DEF DrainOne
<1>5. CASE DrainEnd  BY <1>5 DEF DrainEnd
<1>6. CASE PickUp  BY <1>6 DEF PickUp, CanPickUp
<1>7. CASE StreamingStep
  <2>1. pending' = pending /\ rt' \in {"returned", "between"}
        /\ loc'.rt_state = "STREAMING" /\ ~loc'.graceful
    BY <1>7 DEF StreamingStep
  <2> QED BY <2>1
<1>8. CASE ClearRunning \/ ClearMoving
  BY <1>8 DEF ClearRunning, ClearMoving
<1> QED
  BY <1>1, <1>2, <1>3, <1>4, <1>5, <1>6, <1>7, <1>8 DEF CommonRtStep

LEMMA EnvironmentRuns == ASSUME MachineInv, Environment PROVE RunInv'
<1> USE DEF MachineInv
<1>1. CASE Throw  BY <1>1 DEF Throw, RunInv
<1>2. CASE Start  BY <1>2 DEF Start, RunInv, FreshLocals
<1>3. ASSUME NEW c \in Caller, ApiNext(c) PROVE RunInv'
  <2>1. CASE StopBegin(c)  BY <2>1 DEF StopBegin, RunInv
  <2>2. CASE StopJoin(c)  BY <2>2 DEF StopJoin, RunInv
  <2>3. CASE MoveTo(c)
    BY <2>3 DEF MoveTo, RunInv, IInv, TypeOK, CountsOK
  <2>4. CASE CancelMove(c)  BY <2>4 DEF CancelMove, RunInv
  <2> QED
    BY <1>3, <2>1, <2>2, <2>3, <2>4, RunUnchanged
    DEF ApiNext, ApiReturn, SetTarget, Lock, TriggerEstop
<1> QED BY <1>1, <1>2, <1>3 DEF Environment

-----------------------------------------------------------------------------
(* Every action is a step of the abstract machine, or none *)

LEMMA Stutters ==
  ASSUME UNCHANGED <<cmds, moves, fence, pending, taken, Mode, Executed, Followed>>
  PROVE  UNCHANGED Machine!vars
  BY DEF Machine!vars, Heard

LEMMA SwitchesOff ==
  ASSUME rt \in InControl, rt' \notin InControl,
         UNCHANGED <<cmds, moves, fence, pending, taken>>
  PROVE  Machine!SwitchOff
  BY DEF Machine!SwitchOff, Machine!None, Mode, Executed, Followed, Heard, AsMove, NoMove

\* A step of the loop that neither ends it nor touches what the machine sees.
LEMMA GoesOn ==
  ASSUME UNCHANGED <<cmds, moves, fence, pending, taken>>,
         rt \in InControl, rt' \in InControl, rt # "start_move", rt' # "start_move",
         \A f \in {"graceful", "rt_state", "seg", "target"} : loc'[f] = loc[f]
  PROVE  UNCHANGED Machine!vars
<1>1. UNCHANGED <<Mode, Executed, Followed>>
  BY DEF Mode, Executed, Followed
<1> QED BY <1>1, Stutters

LEMMA DrainOneHears == ASSUME MachineInv, DrainOne PROVE Machine!Hear
<1>1. Heard' \in (Heard + 1)..cmds
  BY DrainOneQueues DEF MachineInv
<1>2. Mode = "on" /\ UNCHANGED <<Mode, Executed, Followed>>
  BY DEF DrainOne, Mode, Executed, Followed, MachineInv, IInv, TypeOK, Locals, RunInv
<1> QED BY <1>1, <1>2 DEF DrainOne, Machine!Hear

LEMMA PickUpBegins == ASSUME MachineInv, PickUp PROVE [Machine!Next]_(Machine!vars)
<1> USE DEF MachineInv, IInv, TypeOK, Locals
<1>1. CASE CanPickUp
  <2>1. /\ loc'.move = pending /\ pending' = NoMove /\ rt' = "start_move"
        /\ loc'.graceful = loc.graceful
    BY <1>1 DEF PickUp
  <2>2. pending # NoMove /\ pending.id > 0
    BY <1>1 DEF CanPickUp, RunInv
  <2>3. Mode = "on" /\ Mode' = "on"
    BY <2>1 DEF PickUp, Mode, RunInv
  <2>4. Executed' = pending /\ Followed' = 0
    BY <2>1, <2>2 DEF Executed, Followed
  <2>5. AsMove(pending) # Machine!None /\ AsMove(NoMove) = Machine!None
    BY <2>2 DEF AsMove, NoMove, Machine!None
  <2> QED
    BY <2>1, <2>3, <2>4, <2>5 DEF PickUp, Machine!Next, Machine!Begin, Heard
<1>2. CASE ~CanPickUp
  BY <1>2, GoesOn DEF PickUp
<1> QED BY <1>1, <1>2

LEMMA GracefulStopBrakes ==
  ASSUME MachineInv, GracefulStop
  PROVE  [Machine!Next]_(Machine!vars)
<1> USE DEF MachineInv, IInv, TypeOK, Locals
<1>1. /\ loc'.graceful /\ loc'.rt_state = "STREAMING" /\ loc'.target = 0
      /\ rt = "check_stop" /\ rt' \in {"returned", "between"}
      /\ UNCHANGED <<cmds, moves, fence, pending, taken>>
  BY DEF GracefulStop
<1>2. CASE rt' = "returned"
  BY <1>1, <1>2, SwitchesOff DEF Machine!Next
<1>3. CASE rt' = "between"
  <2>1. Mode' = "braking" /\ Executed' = NoMove /\ Followed' = 0
    BY <1>1, <1>3 DEF Mode, Executed, Followed
  <2>2. CASE ~loc.graceful
    <3>1. Mode = "on" /\ AsMove(NoMove) = Machine!None
      BY <1>1, <2>2 DEF Mode, AsMove, NoMove, Machine!None
    <3> QED BY <1>1, <2>1, <3>1 DEF Machine!Next, Machine!Brake, Heard
  <2>3. CASE loc.graceful
    <3>1. Mode = "braking" /\ Executed = NoMove /\ Followed = 0
      BY <1>1, <2>3 DEF Mode, Executed, Followed, RunInv
    <3> QED BY <1>1, <2>1, <3>1, Stutters
  <2> QED BY <2>2, <2>3
<1> QED BY <1>1, <1>2, <1>3

LEMMA StreamingStepFollows ==
  ASSUME MachineInv, StreamingStep
  PROVE  [Machine!Next]_(Machine!vars)
<1> USE DEF MachineInv, IInv, TypeOK, Locals
<1>1. rt = "step" /\ UNCHANGED <<cmds, moves, fence, pending, taken>>
  BY DEF StreamingStep
<1>2. CASE rt' = "returned"
  BY <1>1, <1>2, SwitchesOff DEF Machine!Next
<1>3. CASE rt' = "between" /\ loc' = loc
  BY <1>1, <1>3, GoesOn
<1>4. CASE /\ rt' = "between" /\ loc.got_cmd
           /\ loc' = [loc EXCEPT !.target = taken[1].id]
  <2>1. Mode = "on" /\ Mode' = "on" /\ Executed = NoMove /\ Executed' = NoMove
    BY <1>1, <1>4 DEF Mode, Executed, StreamingStep, RunInv
  <2>2. AsMove(NoMove) = Machine!None
    BY DEF AsMove, NoMove, Machine!None
  <2>3. Heard = taken[1].id /\ Heard > fence /\ Followed' = Heard
    BY <1>1, <1>4, <2>1 DEF Heard, Followed, Rest, LoopInv, FenceInv
  <2> QED
    BY <1>1, <2>1, <2>2, <2>3 DEF Machine!Next, Machine!Follow, Heard
<1> QED BY <1>2, <1>3, <1>4 DEF StreamingStep

LEMMA CommonRtStepSteps ==
  ASSUME MachineInv, CommonRtStep
  PROVE  [Machine!Next]_(Machine!vars)
<1>1. CASE EnterControl
  BY <1>1, SwitchesOff, GoesOn DEF EnterControl, Machine!Next
<1>2. CASE GoOn
  BY <1>2, GoesOn DEF GoOn
<1>3. CASE DrainEnd
  BY <1>3, GoesOn DEF DrainEnd, MachineInv, IInv, TypeOK, Locals
<1>4. CASE ClearRunning \/ ClearMoving
  <2>1. UNCHANGED <<Mode, Executed, Followed>>
    BY <1>4 DEF ClearRunning, ClearMoving, Mode, Executed, Followed
  <2> QED BY <1>4, <2>1, Stutters DEF ClearRunning, ClearMoving
<1> QED
  BY <1>1, <1>2, <1>3, <1>4, DrainOneHears, PickUpBegins, GracefulStopBrakes,
     StreamingStepFollows
  DEF CommonRtStep, Machine!Next

\* The calls do not touch what the loop executes.
LEMMA LoopUnchanged ==
  ASSUME UNCHANGED <<rt, loc>>
  PROVE  UNCHANGED <<Mode, Executed, Followed>>
  BY DEF Mode, Executed, Followed

LEMMA EnvironmentSteps ==
  ASSUME MachineInv, Environment
  PROVE  [Machine!Next]_(Machine!vars)
<1>1. CASE Throw
  BY <1>1, SwitchesOff DEF Throw, Machine!Next
<1>2. CASE Start
  <2>1. /\ Mode = "off" /\ Executed = NoMove /\ Followed = 0
        /\ Mode' = "on" /\ Executed' = NoMove /\ Followed' = 0
    BY <1>2 DEF Start, Mode, Executed, Followed, FreshLocals
  <2> QED BY <1>2, <2>1 DEF Start, Ring!Clear, Machine!Next, Machine!SwitchOn, Heard
<1>3. ASSUME NEW c \in Caller, ApiNext(c) PROVE [Machine!Next]_(Machine!vars)
  <2>1. CASE StopBegin(c) \/ TriggerEstop(c) \/ Lock(c, "move") \/ Lock(c, "cancel")
    BY <2>1, LoopUnchanged, Stutters DEF StopBegin, TriggerEstop, Lock
  <2>2. CASE StopJoin(c)
    <3>1. UNCHANGED <<Mode, Executed, Followed>>
      BY <2>2 DEF StopJoin, Mode, Executed, Followed
    <3> QED BY <2>2, <3>1, Stutters DEF StopJoin
  <2>3. CASE SetTarget(c)
    <3>1. taken' = taken
      BY <2>3 DEF SetTarget, Ring!Put
    <3> QED
      BY <2>3, <3>1, LoopUnchanged DEF SetTarget, Machine!Next, Machine!Issue, Heard
  <2>4. CASE MoveTo(c)
    <3>1. AsMove(pending') = [id |-> moves + 1, after |-> cmds]
      BY <2>4 DEF MoveTo, AsMove
    <3> QED
      BY <2>4, <3>1, LoopUnchanged DEF MoveTo, Machine!Next, Machine!Ask, Heard
  <2>5. CASE CancelMove(c)
    <3>1. AsMove(pending') = Machine!None
      BY <2>5 DEF CancelMove, AsMove, NoMove, Machine!None
    <3> QED
      BY <2>5, <3>1, LoopUnchanged DEF CancelMove, Machine!Next, Machine!Cancel, Heard
  <2> QED BY <1>3, <2>1, <2>2, <2>3, <2>4, <2>5 DEF ApiNext, ApiReturn
<1> QED BY <1>1, <1>2, <1>3 DEF Environment

\* What the two controllers have left to show of their own actions.

LEMMA CallbackSteps ==
  ASSUME rt = "between", EnterCallback, loc \in Locals,
         rt' \in {"between", "check_stop", "returned"},
         UNCHANGED <<taken, pending, hist>>
  PROVE  [Machine!Next]_(Machine!vars)
<1>1. CASE rt' = "returned"
  BY <1>1, SwitchesOff DEF Machine!Next
<1>2. CASE rt' # "returned"
  BY <1>2, GoesOn DEF EnterCallback, Locals
<1> QED BY <1>1, <1>2

LEMMA MoveCompletesSteps ==
  ASSUME MachineInv, rt = "step", loc.rt_state = "MOVING", MoveCompletes,
         UNCHANGED <<taken, pending, cmds, moves>>
  PROVE  Machine!Complete
<1> USE DEF MachineInv, IInv, TypeOK, Locals
<1>1. Mode = "on" /\ Executed = loc.seg /\ Followed = 0 /\ loc.seg.id > 0
  BY DEF Mode, Executed, Followed, RunInv, NoMove
<1>2. Mode' = "on" /\ Executed' = NoMove /\ Followed' = 0
  BY <1>1 DEF Mode, Executed, Followed, MoveCompletes
<1>3. AsMove(loc.seg) # Machine!None /\ AsMove(NoMove) = Machine!None
      /\ AsMove(loc.seg).after = loc.seg.after
  BY <1>1 DEF AsMove, NoMove, Machine!None
<1> QED BY <1>1, <1>2, <1>3 DEF Machine!Complete, MoveCompletes, Heard

LEMMA InitMachine == Init => Machine!Init
  BY EmptySeq DEF Init, Ring!Init, Machine!Init, Machine!None, Mode, Executed, Followed,
     Heard, AsMove, NoMove

-----------------------------------------------------------------------------
(* What is_moving() reports, and the order of the requests *)

Underway == rt = "start_move" \/ loc.rt_state # "STREAMING"

\* isMoving() is not true for nothing: some request waits, or one is under way.
\* (Between the end of control() and the last store of rtLoop it may be.)
MovingMeansMove ==
  moving /\ rt \notin {"returned", "leaving"} =>
    pending # NoMove \/ (rt \in InControl /\ Underway)

\* The request that waits is the newest, and what is picked up is newer than what
\* was under way.
OrderInv ==
  /\ pending # NoMove =>
       pending.id = moves /\ loc.seg.id < moves /\ loc.move.id < moves
  /\ rt = "start_move" => loc.seg.id < loc.move.id

LEMMA CommonRtStepReports ==
  ASSUME MachineInv, MovingMeansMove, CommonRtStep
  PROVE  MovingMeansMove'
<1> USE DEF MachineInv, IInv, TypeOK, Locals, MovingMeansMove, Underway
<1>1. CASE GracefulStop
  <2>1. rt = "check_stop" /\ pending' = pending /\ rt' \in {"returned", "between"}
        /\ moving' = (IF loc.graceful THEN moving ELSE FALSE)
    BY <1>1 DEF GracefulStop
  <2>2. loc.graceful => loc.rt_state = "STREAMING"
    BY <2>1 DEF RunInv
  <2> QED BY <2>1, <2>2
<1>2. CASE PickUp  BY <1>2 DEF PickUp
<1>3. CASE EnterControl \/ GoOn \/ DrainOne \/ DrainEnd
  BY <1>3 DEF EnterControl, GoOn, DrainOne, DrainEnd
<1>4. CASE StreamingStep
  <2>1. UNCHANGED <<moving, pending>> /\ rt = "step" /\ loc.rt_state = "STREAMING"
    BY <1>4 DEF StreamingStep
  <2> QED BY <2>1
<1>5. CASE ClearRunning \/ ClearMoving
  BY <1>5 DEF ClearRunning, ClearMoving
<1> QED BY <1>1, <1>2, <1>3, <1>4, <1>5 DEF CommonRtStep

LEMMA EnvironmentReports ==
  ASSUME MachineInv, MovingMeansMove, Environment
  PROVE  MovingMeansMove'
<1> USE DEF MachineInv, IInv, MovingMeansMove, Underway
<1>1. CASE Throw \/ Start  BY <1>1 DEF Throw, Start
<1>2. ASSUME NEW c \in Caller, ApiNext(c) PROVE MovingMeansMove'
  <2>1. CASE MoveTo(c)
    BY <2>1 DEF MoveTo, NoMove, TypeOK, CountsOK
  <2>2. CASE CancelMove(c) \/ StopJoin(c)
    BY <2>2 DEF CancelMove, StopJoin
  <2> QED
    BY <1>2, <2>1, <2>2 DEF ApiNext, ApiReturn, StopBegin, SetTarget, TriggerEstop, Lock
<1> QED BY <1>1, <1>2 DEF Environment

LEMMA CommonRtStepOrders ==
  ASSUME MachineInv, OrderInv, CommonRtStep
  PROVE  OrderInv'
<1> USE DEF MachineInv, IInv, TypeOK, CountsOK, Locals, Request, OrderInv
<1>1. CASE GracefulStop
  <2>1. /\ loc'.seg = NoMove /\ loc'.move = loc.move
        /\ rt' \in {"returned", "between"} /\ UNCHANGED <<pending, moves>>
    BY <1>1 DEF GracefulStop
  <2>2. pending # NoMove => moves > 0
    BY DEF RunInv
  <2> QED BY <2>1, <2>2 DEF NoMove
<1>2. CASE PickUp
  BY <1>2 DEF PickUp, CanPickUp
<1>3. CASE EnterControl \/ GoOn \/ DrainOne \/ DrainEnd
  BY <1>3 DEF EnterControl, GoOn, DrainOne, DrainEnd
<1>4. CASE StreamingStep
  <2>1. UNCHANGED <<pending, moves>> /\ rt' \in {"returned", "between"}
        /\ loc'.seg = loc.seg /\ loc'.move = loc.move
    BY <1>4 DEF StreamingStep
  <2> QED BY <2>1
<1>5. CASE ClearRunning \/ ClearMoving
  BY <1>5 DEF ClearRunning, ClearMoving, FreshLocals, NoMove, RunInv
<1> QED BY <1>1, <1>2, <1>3, <1>4, <1>5 DEF CommonRtStep

LEMMA EnvironmentOrders ==
  ASSUME MachineInv, OrderInv, Environment
  PROVE  OrderInv'
<1> USE DEF MachineInv, IInv, OrderInv
<1>1. CASE Throw  BY <1>1 DEF Throw
<1>2. CASE Start
  BY <1>2 DEF Start, FreshLocals, NoMove, RunInv, TypeOK, CountsOK
<1>3. ASSUME NEW c \in Caller, ApiNext(c) PROVE OrderInv'
  <2>1. CASE MoveTo(c)
    <3>1. pending'.id = moves + 1 /\ moves' = moves + 1 /\ UNCHANGED <<rt, loc>>
      BY <2>1 DEF MoveTo
    <3>2. loc.seg.id <= moves /\ loc.move.id <= moves /\ moves \in Nat
          /\ loc.seg.id \in Nat /\ loc.move.id \in Nat
      BY SizesAssumption DEF Rest, RequestInv, WasMade, TypeOK, CountsOK, Locals, Request
    <3> QED BY <3>1, <3>2
  <2>2. CASE CancelMove(c)  BY <2>2 DEF CancelMove
  <2>3. CASE StopJoin(c)  BY <2>3 DEF StopJoin
  <2> QED
    BY <1>3, <2>1, <2>2, <2>3
    DEF ApiNext, ApiReturn, StopBegin, SetTarget, TriggerEstop, Lock
<1> QED BY <1>1, <1>2, <1>3 DEF Environment

-----------------------------------------------------------------------------
(* What has ended does not come back: consequences of StreamOrMove *)

\* A request that was made and neither waits nor is executed.
Over(m) == m <= moves /\ pending.id # m /\ Executed.id # m

\* A command that a newer one has superseded, or that is older than a completed
\* move or than the last start, and is not the one that is followed.
Gone(c) == (c < Heard \/ c <= fence) /\ Followed # c

LEMMA OverStays ==
  ASSUME IInv, NEW m \in Nat \ {0}, Over(m), [Machine!Next]_(Machine!vars)
  PROVE  Over(m)'
<1>1. /\ AsMove(pending).id = pending.id /\ AsMove(pending)'.id = pending'.id
      /\ AsMove(Executed).id = Executed.id /\ AsMove(Executed)'.id = Executed'.id
  BY DEF AsMove
<1>2. moves \in Nat /\ Machine!None.id = 0
  BY DEF IInv, TypeOK, CountsOK, Machine!None
<1>3. /\ moves' = moves \/ moves' = moves + 1
      /\ \/ AsMove(pending)' = AsMove(pending) \/ AsMove(pending)' = Machine!None
         \/ moves' = moves + 1 /\ AsMove(pending)'.id = moves + 1
      /\ \/ AsMove(Executed)' \in {AsMove(Executed), Machine!None}
         \/ AsMove(Executed)' = AsMove(pending)
  BY DEF Machine!Next, Machine!vars, Machine!Issue, Machine!Ask, Machine!Cancel,
     Machine!SwitchOn, Machine!Hear, Machine!Follow, Machine!Begin, Machine!Complete,
     Machine!CutShort, Machine!Brake, Machine!SwitchOff
<1> HIDE DEF AsMove
<1> QED BY <1>1, <1>2, <1>3 DEF Over

LEMMA GoneStays ==
  ASSUME IInv, NEW c \in Nat \ {0}, Gone(c), [Machine!Next]_(Machine!vars)
  PROVE  Gone(c)'
<1>1. Heard \in Nat /\ fence \in Nat /\ cmds \in Nat /\ fence <= cmds
  BY HeardType DEF IInv, TypeOK, CountsOK
<1>2. (c < Heard \/ c <= fence)'
  <2>1. CASE Machine!Complete
    <3>1. fence' = fence \/ (fence' = AsMove(Executed).after /\ fence' > fence)
      BY <2>1 DEF Machine!Complete
    <3>2. Executed \in Request
      BY NoMoveType DEF Executed, IInv, TypeOK, Locals
    <3>3. AsMove(Executed).after \in Nat
      BY <3>2, SizesAssumption DEF AsMove, Request
    <3> QED BY <1>1, <2>1, <3>1, <3>3 DEF Machine!Complete, Gone
  <2> QED
    BY <1>1, <2>1 DEF Gone, Machine!Next, Machine!vars, Machine!Issue, Machine!Ask,
       Machine!Cancel, Machine!SwitchOn, Machine!Hear, Machine!Follow, Machine!Begin,
       Machine!CutShort, Machine!Brake, Machine!SwitchOff
<1>3. Followed' \in {Followed, 0} \/ (Followed' = Heard /\ Heard > fence)
  BY DEF Machine!Next, Machine!vars, Machine!Issue, Machine!Ask,
     Machine!Cancel, Machine!SwitchOn, Machine!Hear, Machine!Follow, Machine!Begin,
     Machine!Complete, Machine!CutShort, Machine!Brake, Machine!SwitchOff
<1> QED BY <1>1, <1>2, <1>3 DEF Gone

\* A newer move that is executed leaves nothing of an older one.
LEMMA OlderIsOver ==
  ASSUME MachineInv, OrderInv, NEW m \in Nat \ {0}, m < Executed.id
  PROVE  Over(m)
<1> USE DEF MachineInv, IInv, TypeOK, CountsOK, Locals, Request
<1>1. Executed \in {NoMove, loc.move, loc.seg}
  BY DEF Executed
<1>2. Executed.id \in Nat /\ Executed.id <= moves /\ moves \in Nat
  BY <1>1, SizesAssumption DEF NoMove, Rest, RequestInv, WasMade
<1>3. pending.id \in {0, moves}
  BY DEF OrderInv, NoMove
<1> QED BY <1>2, <1>3 DEF Over

-----------------------------------------------------------------------------
(* How many callbacks a stop takes *)

\* Callbacks a graceful stop still brakes or holds in.
BrakeLeft == IF loc.graceful THEN loc.coast + (HoldCycles - loc.hold)
             ELSE MaxCoast + HoldCycles

\* The hold begins when the stop has come to rest.
BrakeInv == rt \in InControl /\ loc.hold > 0 => loc.graceful /\ loc.coast = 0

LEMMA BrakeLeftType ==
  ASSUME IInv, rt \in InControl
  PROVE  BrakeLeft \in 1..(MaxCoast + HoldCycles)
<1>1. loc.coast \in 0..MaxCoast /\ loc.hold \in 0..HoldCycles /\ loc.hold < HoldCycles
  BY DEF IInv, TypeOK, Locals, Rest, LoopInv
<1> QED BY <1>1, SizesAssumption DEF BrakeLeft

LEMMA GracefulStopCounts ==
  ASSUME MachineInv, BrakeInv, GracefulStop
  PROVE  BrakeInv' /\ (rt' \in InControl => BrakeLeft' \in Int /\ BrakeLeft' < BrakeLeft)
<1>1. /\ loc.coast \in 0..MaxCoast /\ loc.hold \in 0..HoldCycles
      /\ loc.hold < HoldCycles /\ rt = "check_stop"
      /\ loc.hold > 0 => loc.graceful /\ loc.coast = 0
  BY DEF GracefulStop, MachineInv, IInv, TypeOK, Locals, Rest, LoopInv, BrakeInv
<1>2. PICK coast \in 0..MaxCoast :
        LET quiet == coast = 0
            hold  == HoldAfter(quiet, loc.hold)
        IN  /\ loc.graceful => coast = loc.coast
            /\ loc' = [loc EXCEPT !.graceful = TRUE, !.rt_state = "STREAMING",
                                  !.seg = NoMove, !.target = 0,
                                  !.coast = IF quiet THEN 0 ELSE coast - 1,
                                  !.hold = hold]
  BY DEF GracefulStop
<1>3. /\ loc'.graceful
      /\ loc'.coast = (IF coast = 0 THEN 0 ELSE coast - 1)
      /\ loc'.hold = HoldAfter(coast = 0, loc.hold)
  BY <1>2 DEF MachineInv, IInv, TypeOK, Locals
<1>4. CASE coast = 0
  BY <1>1, <1>2, <1>3, <1>4, SizesAssumption DEF BrakeInv, BrakeLeft, HoldAfter
<1>5. CASE coast # 0
  BY <1>1, <1>2, <1>3, <1>5, SizesAssumption DEF BrakeInv, BrakeLeft, HoldAfter
<1> QED BY <1>4, <1>5

LEMMA CommonRtStepBrakes ==
  ASSUME MachineInv, BrakeInv, CommonRtStep
  PROVE  /\ BrakeInv'
         /\ rt \in InControl /\ rt' \in InControl =>
              /\ BrakeLeft' <= BrakeLeft
              /\ rt = "check_stop" /\ stop_requested => BrakeLeft' < BrakeLeft
              /\ rt # "between" /\ rt' # "check_stop"
              /\ UNCHANGED <<estop, stop_requested>>
<1> USE DEF MachineInv, BrakeInv
<1>0. BrakeLeft \in Int
  <2>1. loc.coast \in 0..MaxCoast /\ loc.hold \in 0..HoldCycles
    BY DEF IInv, TypeOK, Locals
  <2> QED BY <2>1, SizesAssumption DEF BrakeLeft
<1>1. ASSUME \A f \in {"graceful", "hold", "coast"} : loc'[f] = loc[f]
      PROVE  BrakeLeft' = BrakeLeft
  BY <1>1 DEF BrakeLeft
<1>2. CASE EnterControl \/ GoOn \/ DrainOne \/ DrainEnd \/ PickUp
  <2>1. /\ \A f \in {"graceful", "hold", "coast"} : loc'[f] = loc[f]
        /\ rt \in InControl
        /\ UNCHANGED <<estop, stop_requested>>
    BY <1>2 DEF EnterControl, GoOn, DrainOne, DrainEnd, PickUp, IInv, TypeOK, Locals
  <2>2. /\ rt # "between" /\ rt' # "check_stop"
        /\ rt = "check_stop" => ~stop_requested
    BY <1>2 DEF EnterControl, GoOn, DrainOne, DrainEnd, PickUp
  <2> QED BY <1>0, <1>1, <2>1, <2>2
<1>3. CASE StreamingStep
  <2>1. /\ rt = "step" /\ rt' \in {"returned", "between"}
        /\ \A f \in {"graceful", "hold", "coast"} : loc'[f] = loc[f]
        /\ rt' = "between" => UNCHANGED <<estop, stop_requested>>
    BY <1>3 DEF StreamingStep, IInv, TypeOK, Locals
  <2> QED BY <1>0, <1>1, <2>1
<1>4. CASE ClearRunning \/ ClearMoving
  BY <1>4 DEF ClearRunning, ClearMoving
<1>5. CASE GracefulStop
  <2>1. rt = "check_stop" /\ rt' # "check_stop" /\ UNCHANGED <<estop, stop_requested>>
    BY <1>5 DEF GracefulStop
  <2> QED BY <1>0, <1>5, <2>1, GracefulStopCounts
<1> QED BY <1>2, <1>3, <1>4, <1>5 DEF CommonRtStep

LEMMA EnvironmentBrakes ==
  ASSUME MachineInv, BrakeInv, Environment
  PROVE  /\ BrakeInv'
         /\ rt \in InControl /\ rt' \in InControl =>
              BrakeLeft' = BrakeLeft /\ rt' = rt /\ (estop => estop')
<1> USE DEF BrakeInv
<1>1. CASE Throw  BY <1>1 DEF Throw
<1>2. CASE Start
  <2>1. rt = "none" /\ loc'.hold = 0
    BY <1>2 DEF Start, FreshLocals
  <2> QED BY <2>1
<1>3. ASSUME NEW c \in Caller, ApiNext(c)
      PROVE  loc' = loc /\ rt' \in {rt, "none"} /\ (estop => estop')
  BY <1>3 DEF ApiNext, ApiReturn, StopBegin, StopJoin, SetTarget, TriggerEstop, Lock,
     MoveTo, CancelMove
<1> QED BY <1>1, <1>2, <1>3 DEF Environment, BrakeLeft
=============================================================================
