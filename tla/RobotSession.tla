---------------------------- MODULE RobotSession ----------------------------
(***************************************************************************)
(* The bindings (src/franka_rt.cpp): Python threads share one Robot and    *)
(* the controllers started on it.  Each controller owns an RT thread that  *)
(* refers to the robot; calls release the GIL while they wait, but a       *)
(* destructor that has to stop a loop joins it with the GIL held.          *)
(* StateSnapshot has the state snapshot of each controller, RtController   *)
(* what a loop does in between; here it streams until it is asked to stop, *)
(* ends by itself or is ended by the robot.                                *)
(***************************************************************************)
EXTENDS StateSnapshot

VARIABLES
  gil,             \* the thread that holds the GIL in a step of its own, in a set
  robot,           \* "alive"; "dropped", being destroyed; or "destroyed"
  closed,          \* closed_ of PyRobot
  object,          \* per controller: "none", "alive" or "destroyed"
  stop_requested, stopped, running,   \* per controller: its flags
  loop,            \* per controller: where its RT thread is
  owner            \* the controllers whose motion libfranka runs: at most one

flags == <<stop_requested, stopped, running>>
session == <<gil, robot, closed, object, flags, loop, owner>>
vars == <<snapshot, readers, call, session>>

TypeOK ==
  /\ SnapshotTypeOK
  /\ gil \in {{}} \cup {{t} : t \in Thread}
  /\ robot \in {"alive", "dropped", "destroyed"} /\ closed \in BOOLEAN
  /\ object \in [Controller -> {"none", "alive", "destroyed"}]
  /\ stop_requested \in [Controller -> BOOLEAN]
  /\ stopped \in [Controller -> BOOLEAN] /\ running \in [Controller -> BOOLEAN]
  /\ loop \in [Controller -> {"none", "created", "control", "returned", "done"}]
  /\ owner \in {{}} \cup {{k} : k \in Controller}

Init ==
  /\ SnapshotInit
  /\ gil = {} /\ robot = "alive" /\ closed = FALSE
  /\ object = [k \in Controller |-> "none"]
  /\ stop_requested = [k \in Controller |-> FALSE]
  /\ stopped = [k \in Controller |-> FALSE] /\ running = [k \in Controller |-> FALSE]
  /\ loop = [k \in Controller |-> "none"]
  /\ owner = {}

-----------------------------------------------------------------------------
(* Python threads *)

MayCallUnlocked(t) == call[t].pc = "idle"   \* Bug (mutant): called without the GIL

\* A call begins with the GIL; a method needs its object.
MayCall(t) == call[t].pc = "idle" /\ gil = {}
MayCallRobot(t) == MayCall(t) /\ robot = "alive"
MayCallController(t, k) == MayCall(t) /\ object[k] = "alive"

Enter(t, pc, k) == call' = [call EXCEPT ![t] = [pc |-> pc, obj |-> k]]

\* A thread in a call keeps a reference to the object it calls.
InRobot == {"halt", "halted", "drop_halt", "drop_halted"}
Unused(k) == \A t \in Thread : call[t].pc \in {"idle"} \cup InRobot \/ call[t].obj # k
RobotUnused == \A t \in Thread : call[t].pc \notin InRobot

\* start_joint_position_control and start_cartesian_pose_control: the object is
\* constructed and started before Python sees it.
StartControl(t, k) ==
  /\ MayCallRobot(t) /\ object[k] = "none"
  /\ object' = [object EXCEPT ![k] = "alive"]
  /\ running' = [running EXCEPT ![k] = TRUE]
  /\ loop' = [loop EXCEPT ![k] = "created"]
  /\ UNCHANGED <<snapshot, readers, call, gil, robot, closed, stop_requested, stopped,
                 owner>>

GetState(t, k) ==
  /\ MayCallController(t, k)
  /\ Enter(t, "lock", k)
  /\ UNCHANGED <<snapshot, readers, session>>

\* stop() and __exit__: only the first caller stops the loop.
Stop(t, k) ==
  /\ MayCallController(t, k)
  /\ IF stopped[k]
     THEN UNCHANGED <<call, stop_requested, stopped>>
     ELSE /\ stopped' = [stopped EXCEPT ![k] = TRUE]
          /\ stop_requested' = [stop_requested EXCEPT ![k] = TRUE]
          /\ Enter(t, "stop", k)
  /\ UNCHANGED <<snapshot, readers, gil, robot, closed, object, running, loop, owner>>

StopJoin(t) ==
  /\ call[t].pc = "stop" /\ loop[call[t].obj] = "done"
  /\ running' = [running EXCEPT ![call[t].obj] = FALSE]
  /\ Goto(t, "stopped")
  /\ UNCHANGED <<snapshot, readers, gil, robot, closed, object, stop_requested, stopped,
                 loop, owner>>

\* The last reference to the controller goes: ~JointPositionControl is stop(),
\* under the GIL.
Drop(t, k) ==
  /\ MayCallController(t, k) /\ Unused(k)
  /\ IF stopped[k]
     THEN /\ object' = [object EXCEPT ![k] = "destroyed"]
          /\ UNCHANGED <<gil, call, stop_requested, stopped>>
     ELSE /\ stopped' = [stopped EXCEPT ![k] = TRUE]
          /\ stop_requested' = [stop_requested EXCEPT ![k] = TRUE]
          /\ gil' = gil \cup {t} /\ Enter(t, "drop", k)
          /\ UNCHANGED object
  /\ UNCHANGED <<snapshot, readers, robot, closed, running, loop, owner>>

DropJoin(t) ==
  /\ call[t].pc = "drop" /\ loop[call[t].obj] = "done"
  /\ running' = [running EXCEPT ![call[t].obj] = FALSE]
  /\ object' = [object EXCEPT ![call[t].obj] = "destroyed"]
  /\ gil' = gil \ {t} /\ call' = [call EXCEPT ![t] = Idle]
  /\ UNCHANGED <<snapshot, readers, robot, closed, stop_requested, stopped, loop, owner>>

\* close(), stop() and __exit__ of the robot: only the first has an effect.
Close(t) ==
  /\ MayCallRobot(t)
  /\ IF closed THEN UNCHANGED call ELSE Goto(t, "halt")
  /\ closed' = TRUE
  /\ UNCHANGED <<snapshot, readers, gil, robot, object, flags, loop, owner>>

\* Bug (mutant): start_... without keep_alive.
DropRobotInUse(t) ==
  /\ MayCallRobot(t) /\ RobotUnused
  /\ IF closed
     THEN robot' = "destroyed" /\ UNCHANGED call
     ELSE robot' = "dropped" /\ Goto(t, "drop_halt")
  /\ closed' = TRUE
  /\ UNCHANGED <<snapshot, readers, gil, object, flags, loop, owner>>

\* The last reference to the robot goes, which each controller keeps alive.
DropRobot(t) ==
  /\ MayCallRobot(t) /\ RobotUnused
  /\ \A k \in Controller : object[k] # "alive"
  /\ IF closed
     THEN robot' = "destroyed" /\ UNCHANGED call
     ELSE robot' = "dropped" /\ Goto(t, "drop_halt")
  /\ closed' = TRUE
  /\ UNCHANGED <<snapshot, readers, gil, object, flags, loop, owner>>

Halting(t) == call[t].pc \in {"halt", "drop_halt"}
HaltReturns(t) == Goto(t, IF call[t].pc = "halt" THEN "halted" ELSE "drop_halted")

\* robot_->stop() waits for the motion that runs to end.
Halted(t) ==
  /\ Halting(t) /\ owner = {}
  /\ HaltReturns(t)
  /\ UNCHANGED <<snapshot, readers, session>>

\* Its exceptions are swallowed.
HaltFails(t) ==
  /\ Halting(t)
  /\ HaltReturns(t)
  /\ UNCHANGED <<snapshot, readers, session>>

\* A call that has released the GIL takes it again to return, and its locals end.
Return(t) ==
  /\ call[t].pc \in {"got", "stopped", "halted", "drop_halted"} /\ gil = {}
  /\ robot' = IF call[t].pc = "drop_halted" THEN "destroyed" ELSE robot
  /\ call' = [call EXCEPT ![t] = Idle]
  /\ copy' = [copy EXCEPT ![t] = Picture(Zeros)] /\ copied' = [copied EXCEPT ![t] = {}]
  /\ UNCHANGED <<snapshot, gil, closed, object, flags, loop, owner>>

-----------------------------------------------------------------------------
(* RT threads *)

\* control(): libfranka runs one motion at a time and throws in the second call.
EnterControl(k) ==
  /\ loop[k] = "created"
  /\ IF owner = {}
     THEN owner' = {k} /\ loop' = [loop EXCEPT ![k] = "control"]
     ELSE loop' = [loop EXCEPT ![k] = "returned"] /\ UNCHANGED owner
  /\ UNCHANGED <<snapshot, readers, call, gil, robot, closed, object, flags>>

SnapshotStep(k) ==
  /\ loop[k] = "control"
  /\ Snapshot(k) \/ WriteUnlock(k) \/ \E w \in Word : WriteWord(k, w)
  /\ UNCHANGED session

\* The rest of the callback returns a sample and the motion goes on.
GoOn(k) ==
  /\ loop[k] = "control" /\ cb[k] = "rest"
  /\ cb' = [cb EXCEPT ![k] = "between"]
  /\ UNCHANGED <<cycle, latest, mtx, readers, call, session>>

Leave(k) ==
  /\ cb' = [cb EXCEPT ![k] = "between"]
  /\ loop' = [loop EXCEPT ![k] = "returned"]
  /\ owner' = owner \ {k}
  /\ UNCHANGED <<cycle, latest, mtx, readers, call, gil, robot, closed, object, flags>>

\* A callback that has been asked to stop ends the motion, in the end.
Finish(k) == loop[k] = "control" /\ cb[k] = "rest" /\ stop_requested[k] /\ Leave(k)

\* robot_->stop() in another thread ends it.
Preempted(k) ==
  /\ loop[k] = "control" /\ cb[k] = "between"
  /\ \E t \in Thread : Halting(t)
  /\ Leave(k)

\* It ends by itself: an estop, a fault, an exception.
EndsItself(k) == loop[k] = "control" /\ cb[k] \in {"between", "rest"} /\ Leave(k)

Returns(k) ==
  /\ loop[k] = "returned"
  /\ running' = [running EXCEPT ![k] = FALSE]
  /\ loop' = [loop EXCEPT ![k] = "done"]
  /\ UNCHANGED <<snapshot, readers, call, gil, robot, closed, object, stop_requested,
                 stopped, owner>>

-----------------------------------------------------------------------------
LoopStep(k) == EnterControl(k) \/ SnapshotStep(k) \/ GoOn(k) \/ Returns(k)

\* What a thread that waits to end something does next.
EndingStep(t) == StopJoin(t) \/ DropJoin(t) \/ Halted(t) \/ Return(t)

Call(t) == \/ Close(t) \/ DropRobot(t)
           \/ \E k \in Controller : StartControl(t, k) \/ GetState(t, k) \/ Stop(t, k)
                                    \/ Drop(t, k)

Next ==
  \/ \E k \in Controller : LoopStep(k) \/ Finish(k) \/ Preempted(k) \/ EndsItself(k)
  \/ \E t \in Thread :
       \/ Call(t) \/ EndingStep(t) \/ HaltFails(t)
       \/ GetStateStep(t) /\ UNCHANGED session

Spec == Init /\ [][Next]_vars

\* The RT threads are scheduled; a loop that is asked to stop ends some time (see
\* StopReturns of the control modules), as does one the robot stops; a thread that
\* waits for one of these goes on.  Nothing is assumed of a thread that reads the
\* state: it may be suspended for ever in the middle of its copy.
FairSpec ==
  /\ Spec
  /\ \A k \in Controller : /\ WF_vars(LoopStep(k))
                           /\ SF_vars(Finish(k)) /\ SF_vars(Preempted(k))
  /\ \A t \in Thread : WF_vars(EndingStep(t))
-----------------------------------------------------------------------------
(***************************************************************************)
(* An RT thread refers to its controller and, until control() has          *)
(* returned, to the robot: in whatever order Python drops its references,  *)
(* closes and stops, neither is destroyed while the thread uses it.        *)
(***************************************************************************)
LoopHasItsObjects ==
  \A k \in Controller :
    /\ loop[k] \in {"created", "control", "returned"} => object[k] = "alive"
    /\ loop[k] \in {"created", "control"} => robot # "destroyed"

(***************************************************************************)
(* stop(), close() and the destructors return, whatever the other threads  *)
(* are doing; even if one of them stays in get_state() with the mutex.     *)
(***************************************************************************)
EndingCallsReturn ==
  \A t \in Thread :
    call[t].pc \notin {"idle", "lock", "copy"} ~> call[t].pc = "idle"
=============================================================================
