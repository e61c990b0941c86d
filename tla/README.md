# A verification of libpyfranka's real-time controllers

`libpyfranka` lets Python stream positions to a Franka FR3 arm. A C++ thread runs
libfranka's 1 kHz control loop; Python threads hand it targets through a lock-free
ring, and requests and flags through a mutex and atomics. This directory holds TLA+
models of that code, TLC runs that check them on small instances, and TLAPS proofs
for all instances. Paths below are relative to the repository; `cpp` and `hpp` alone
mean `src/joint_position_control.cpp` and
`include/realtime_control/joint_position_control.hpp`, `ccpp` and `chpp` the Cartesian
`src/cartesian_control.cpp` and `include/realtime_control/cartesian_control.hpp`.

## The system

| Component | State | Operations | Status |
|---|---|---|---|
| `RealTimeBuffer` (`include/realtime_control/shared_memory.hpp`) | slots, `head`, `tail` | `try_write` (Python), `try_read` (RT), `clear` | modelled, proved |
| `JointPositionControl` (cpp, hpp) | five atomic flags, the ring, a pending move and a state snapshot behind a mutex each; the locals of `rtLoop` | start, stop, setTargetJoints, moveToJoints, cancelMove, triggerEstop, getState; the RT callback | modelled, proved |
| limits and clamps (`rt_common.hpp`) | none | `ClampJointPosition`, `CheckCartesianJump` and the per-cycle arithmetic | joint part, proved |
| `CartesianControl` (ccpp, chpp) | as the joint controller, plus a queued move and a third RT state, STOPPING_FOR_MOVE | as the joint controller, with poses; the elbow of a command is ignored by the callback | modelled, proved |
| `MinJerkTrajectory` (`trajectory.hpp`) | a trajectory and its elapsed time | `init`, `computeDuration`, `step(dt)`, slerp | as the Cartesian controller uses it |
| state snapshots (`joint_state.hpp`, `cartesian_state.hpp`) | the last robot state | written by the RT thread under `try_lock`, copied by `getState` under the same mutex | modelled, proved |
| bindings and `PyRobot` (`src/franka_rt.cpp`) | the robot handle, `closed_`, one controller object per session | start_..., get_state, stop, close, destructors, the GIL and keep_alive; setters of libfranka and conversions | the life cycle modelled, proved |
| `franka_rt/__init__.py`, `logging.hpp`, tests | none that matters here | - | not modelled |

How they interact. A controller owns a thread that stays inside
`franka::Robot::control(callback)` until the callback returns `MotionFinished` or
libfranka throws. Python writes commands to the ring; each callback drains it and
keeps the last one. A move is a request behind `pending_move_mtx_`; the callback
takes it under `try_lock`, after a warm-up of 50 cycles, and reports it through
`moving_`. `stop()` sets a flag, and the callback brakes, holds 100 quiet cycles and
finishes; `triggerEstop` finishes in the next cycle; a robot fault becomes an estop.

What is hard: calls that fall between two accesses of a callback; counters and flags
that are stale when used; a ring at its limit; a move that is requested, cancelled or
replaced at the wrong moment; a stop in any state; callbacks that come late; and the
hard limits, the velocity cap and the trajectory generator acting on one another; and
Python threads that drop, stop and close objects whose RT threads still run.
PROJECT.json lists these hazards at their lines, with the property that covers each.

What makes each component correct:

- ring: never two copies of one slot at a time, and every operation is one step of a
  bounded queue;
- control: the RT thread never waits, `is_running()` and `is_moving()` tell the truth,
  a reset move separates the commands before it from those after it, stop and estop
  end the loop, a pending move is not forgotten;
- Cartesian control: the same, and a queued move is not lost while the stream is braked;
- joint motion: what is sent is in the limits and within the velocity cap, the generator
  continues from what was sent and changes its velocity within the acceleration limit, an
  automatic duration never meets the clamp, a stop comes to rest and stays there;
- Cartesian motion: streaming, braking and stopping keep to the velocity and acceleration
  limits and take one another's velocity over, a computed trajectory keeps to its peak velocity, a move starts from rest, braking ends,
  and the gate for commands lets no target through that is further than the time since
  the last accepted one allows;
- snapshot: what is read is one whole state, and no older than the reads of others make it;
- session: no RT thread outlives its controller or its robot, and the calls that end a
  loop return whatever other threads do.

## The modules

| Module | What it is |
|---|---|
| `CommandQueue` | The abstract queue: what the ring promises. |
| `RingBuffer` | The ring, copied word by word, with loads of the other thread's counter that may be stale. Refines `CommandQueue`. |
| `StreamOrMove` | The abstract machine: what a controller promises those who command the arm, without threads, flags, ring or callbacks. |
| `RtController` | What both controllers have in common, text for text: application threads, flags, ring, pending move, and the parts of the RT callback that do not differ, cut at every access to shared state. Uses `CommandQueue` as its command path, and has the refinement mapping to `StreamOrMove`. |
| `JointPositionControl`, `CartesianControl` | `RtController` plus how a callback begins, how it starts a move and how it follows one; the next-state relations and the fairness. |
| `OnlineTrajectory` | The arithmetic of the set-point generators for one coordinate, in integers. |
| `JointLimits` | The joint clamps on top of it. |
| `JointMotion`, `CartesianMotion` | What the callbacks send: one step is one callback, everything it is given is an input. |
| `StateRegister` | The abstract register: what `get_state()` promises. |
| `StateSnapshot` | The snapshot of each controller, copied word by word on both sides. Refines `StateRegister`. |
| `RobotSession` | `StateSnapshot` plus the Python threads, the robot, the controllers' life cycle and their RT threads. |
| `RingBufferProofs`, `OnlineTrajectoryProofs`, `JointMotionProofs`, `CartesianMotionProofs`, `RtControllerProofs`, `JointPositionControlProofs`, `CartesianControlProofs`, `RobotSessionProofs` | The theorems and their lemmas. |
| `MCRingBuffer`, `MCJoint`, `MCMotion`, `MCCartesian`, `MCCartesianMotion`, `MCSession` | Instances for TLC. |

Each controller is modelled twice, along the line where its parts do not need each
other. The control modules have the interleavings and no positions: a command or a
request is its sequence number and whether it is finite, and what depends on positions
(a jump, a clamp, how long braking takes) is a choice. The motion modules have the
positions and no interleavings: within a callback no other thread can touch them, so a
callback is one step. Each choice of the first is resolved by the second.

The session is a third cut: there the loop of a controller only streams, takes snapshots
and ends. That it ends once it is asked to, which the session assumes, is what
`StopReturns` shows in the control modules.

### State and actions against the code

`RingBuffer`: `data`, `head`, `tail` are the members of the struct; `p` and `c` are the
producer inside `try_write` and the consumer inside `try_read`, with the counter value
each has seen. `WriteBegin` is both loads and the fullness test, `WriteWord` the
assignment of the slot, `WriteCommit` the release store; `ReadBegin`, `ReadWord`,
`ReadCommit` are the same for the reader. An acquire load returns any value the counter
has had since the last one the loader saw. The items of a run are two words long so
that a torn item can be told from a whole one.

`RtController`: the five flags keep their names; `cmd_buf` and `taken` are the
queue and the out-parameter of its last read; `pending` is the request behind the
mutex; `loc` holds the locals of `rtLoop`. `rt` says where the RT thread is:

    created -> between -> check_stop -> drain -> pickup -> (start_move ->) step -> between
                  |            |                                            |
                  +------------+----------- returned <----------------------+
                                               |
                                            leaving -> done -> none (joined)

`Cycle` is the entry of the callback with the tests of `estop_` and of the robot's
errors (a fault holds the pose for one more cycle in the joint controller and finishes
at once in the Cartesian one); `GoOn` and `GracefulStop` are the two sides of
`stop_requested_`; `DrainOne` and `DrainEnd` the drain loop and the warm-up; `PickUp`
the `try_lock`; `StartMove` what becomes of the request; `StreamingStep`, `MovingStep`
and, Cartesian only, `StoppingStep` the rest of the callback, with one disjunct per way
out of it; `ClearRunning` and `ClearMoving` the two stores after `control()`. `rt_state`
is the code's:

    joint      STREAMING -> MOVING -> STREAMING
    Cartesian  STREAMING -> STOPPING_FOR_MOVE -> MOVING -> STREAMING

and a request that is picked up in any of them goes to the second one. In the Cartesian
controller `loc.coast` counts the cycles the stream still needs to be quiet; it is chosen
when braking begins. A move whose target is not finite ends the joint loop by an estop;
the Cartesian one sends the sample, which libfranka refuses by an exception.
`Lock` followed by `MoveTo` or `CancelMove` is a caller inside the mutex.
`EnterControl` and `Throw` are libfranka, modelled from its use: it calls back, or
throws between two callbacks. `cmds`, `moves`, `starts`, `cancelled` and `fence` are
history: sequence numbers for commands and requests, the newest request that was made
when `cancelMove` was called, and the newest command that is older than a completed
move or than `start`.

`StreamOrMove` knows commands and moves that were asked for, one place where a move waits,
a mode (off, on, braking), the move under way, the command that is followed, and a fence
below which no command is followed. The mapping, at the end of `RtController`: a move is
under way from its pick-up (`start_move`) until `rt_state` is STREAMING again, so the
Cartesian braking phase is part of it; the machine is on while the loop is in `control()`
and brakes once the callback has seen `stop_requested_`; what is heard is what `try_read`
returned last. The flags do not occur in it: what they say is the subject of other
properties.

What the callers may do follows the bindings (`src/franka_rt.cpp:357-409`): the calls
other than start and stop keep the GIL, so one thread at a time is inside them and the
ring has one producer; stop releases it and may run in several threads. Starting again
is left to a caller that has stopped and joined the loop: without that the code
terminates the process (cpp:120).

`JointMotion`: the variables are the locals of `rtLoop` with their names. `Stream`,
`BeginMove` and `Move`, `GracefulStop` and `Halt` are the ways through the callback.
Lengths are integers: a position unit is a fixed part of a radian, the time unit is the
nominal millisecond, a callback may come after more than one. The min-jerk polynomial
is exact up to rounding toward zero. The thresholds the measured command interval can
yield are inputs of `JointMotion` (`JumpLimit`), as is what a caller asks for;
`CartesianMotion` computes them. NaN and infinity are not
here; the control modules have them as commands and requests that are not finite.

`CartesianMotion`: the same for ccpp. `Stream` is a callback that streams, `StartMove` one
that picks a request up and takes the first braking step, `Brake` a later one, `Follow` a
sample of the trajectory, `GracefulStop` and `Halt` as above. `move` is the queued request
or the trajectory, by `rt_state`. The rotation is one more coordinate: its generator has
the structure of the one of the translation (ccpp:700-790), with limits on a vector norm
where the translation has limits per axis, and slerp moves one angle along the min-jerk
curve. `rad` and `m` are scaled so that one set of limits fits both. The gate for commands
has its clock: `last_cmd_age` is how long ago `last_cmd_time` was, `Consider` a command of
some age that is checked and either adopted or dropped, and `adopted_age`, which is history,
the age of the last one adopted. Ages stop at `MaxInterval`, where the code clamps.

`StateSnapshot`: `cycle` counts the states libfranka has passed to a callback, `latest` says
of each word of `latest_state_` which of them it is from (0: the initial zeros), `mtx` is
`state_mtx_`. `Snapshot` is the `try_lock`, which skips this update if somebody reads,
`WriteWord` and `WriteUnlock` the copy; `ReadLock`, `CopyWord`, `ReadUnlock` are
`getState()`. To the register a write happens at the `try_lock` and a read at the unlock.

`RobotSession`: `call[t]` is the call a Python thread is in and on which controller, `gil`
the thread that keeps the GIL for longer than a step (all others give it back before the
next step, or release it around what may wait). `StartControl` is `start_..._control`, which
constructs and starts; `Stop` and `StopJoin` are `stop()` with the GIL released around the
join; `Drop` and `DropJoin` the destructor, which joins with the GIL held (the wrapper has no
destructor of its own, so nothing releases it); `Close`, `Halted` and `HaltFails` are
`PyRobot::close()`, `DropRobot` its destructor, which cannot come while a controller is alive
(`keep_alive<0, 1>`). Which thread drops the last reference and when is Python's choice.
`EnterControl`, `Preempted` and `EndsItself` are libfranka: `control()` throws if another
motion runs, `stop()` ends the one that runs, and a motion may end by itself at any time.

## The runs

| Run | Bounds | Checks |
|---|---|---|
| `Ring` | 2 slots, 2 words, 2 values, 4 writes between two `clear()` | `TypeOK`, `NoSlotRace`, `ImplementsQueue` |
| `JointControl` | 2 callers, 2 starts, 1 command, 2 moves, ring of 2, warm-up 1, hold 2, moves of 2 periods, with fairness | `TypeOK`, `LoopImpliesRunning`, `HiddenMoveWasCancelled`, `NoCommandOlderThanMove`, `RTNeverBlocks`, `ImplementsStreamOrMove`, `StopReturns`, `EstopEndsLoop`, `PendingIsPickedUp`, `MovingEnds` |
| `CartesianControl` | 2 callers, 1 start, 1 command, 2 moves, braking of 0 or 1 cycles, moves that may end with their first sample, with fairness | `HiddenMoveWasCancelled`, `NoCommandOlderThanMove`, `ImplementsStreamOrMove`, `StopReturns`, `QueuedMoveBegins`, `MovingEnds` |
| `JointMotion` | 1 joint with range -6..6, periods of 1 and 2 ms, targets inside and outside the range, automatic and given durations, a threshold that drops commands and one that does not | `TypeOK`, `PoseInLimits`, `OtgInSync`, `AutoMoveIsSafe`, `RateBounded`, `AccelerationBounded`, `StopHoldsPose`, `StopComesToRest` |
| `CartesianMotion` | 2 axes, targets near and far (1 and 1, 1 and -9), periods of 1 and 2 ms, automatic durations up to 16 and one given, command intervals of 1 and 2 ms | `TypeOK`, `StreamSpeedBounded`, `AccelerationBounded`, `AdoptedStepBounded`, `AutoMoveSpeedBounded`, `MoveStartsFromRest`, `StopHoldsPose`, `StopComesToRest`, `BrakingEnds` |
| `Session` | 2 Python threads, 2 controllers on one robot, a state of 2 words, 1 state that differs from the zeros, with fairness | `TypeOK`, `LoopHasItsObjects`, `ImplementsRegister`, `EndingCallsReturn` |
| `JointIsMovingRace`, `JointPolling`, `JointLateCycle`, `CartesianCancel`, `CartesianReplacedMove`, `SnapshotZeros` | as above, smaller | one claim each that does not hold, see below |

Why the bounds are enough. Four writes go around a ring of two twice, so every slot is
reused while the other side may hold a stale counter. One command before or after each
step of a callback, two moves and, in the joint run, two starts give every overlap of a
request with an older one, a cancellation and a restart (`JointIsMovingRace` has two
commands); a move that takes two periods has a first, a middle and a
last sample, and two hold cycles have a first and a last. In the motion modules the
coordinates do not interact except through "some" and "all" (the Cartesian run has two,
of which one comes to rest before the other), and the acceleration, jerk and velocity
limits are small but in the order of the code's (a cycle of jerk below the acceleration
limit, several cycles of acceleration to the velocity limit, the velocity limit times
the nominal period below the clamp and times a late period above it); the whole reachable set is
explored without a bound on the number of callbacks. In the session one of the two threads
can be inside a call while the other ends what it uses, two controllers compete for one
robot, and two words are enough for a torn copy. The theorems lift all safety
results from these sizes to every size. The calls of a behaviour are bounded, so
the control runs end in states where nothing is left to do, as do the motions once they are
finished and a session in which everything has been dropped, and deadlock
is not checked there; `RTNeverBlocks` says for the RT thread what matters of it.

Fairness. `WF(RtStep)`: the RT thread is scheduled and libfranka calls back, unless it
throws, which it never has to; this is what `control()` is for. `WF(ApiReturn(c))`: a
caller that has the mutex, or whose `join()` can return, gets on; the mutex bodies are
three stores. Nothing is assumed of callers that have not made a call. In `JointMotion`
only the callbacks during a stop are assumed to go on; in `CartesianMotion` those during a
stop and those while a move is queued. `BrakingEnds` supposes that newer requests do not
come for ever, since each of them starts the braking anew. In `RobotSession` the RT threads
are scheduled; `SF(Finish)` is that a loop asked to stop ends, which the control runs show
(`StopReturns`), `SF(Preempted)` that a loop ends which `franka::Robot::stop` waits for; a
thread whose wait is over goes on and gets the GIL. Strong fairness is right for these two
because they are enabled only between, or only late in, the callbacks that come again and
again. Nothing is assumed of a thread that reads the state: it may be suspended with the
mutex for ever, and `EndingCallsReturn` holds all the same.

Every property of a passing run is paired in PROJECT.json with a plausible bug of the
code (`... Bug (mutant)` in the modules), under which TLC finds it violated.

What the properties leave out. Some hazards are what the code does, and a property that
met them would fail; those are shown by a violation run, or have no property and say why in
PROJECT.json. So `HiddenMoveWasCancelled` is silent on a move that was cancelled
(`CartesianCancel` is not); `AutoMoveIsSafe` on a move that replaced another, where only the
clamp bounds the first sample (`RateBounded`); the joint `AccelerationBounded` on the callback
that begins a move and drops the velocity of the stream; `ImplementsStreamOrMove` on a move
that was requested before `stop()` and begins after the next `start()`, which `StreamOrMove`
allows; and `StreamSpeedBounded` on a request that replaces a trajectory
(`CartesianReplacedMove`). A stop that interrupts a trajectory it does cover, and `StopHoldsPose`
says that the pose stays.

## Where the code and its documents disagree

| Run | What happens |
|---|---|
| `JointIsMovingRace` | `moving_` is one flag for two things. The completion of a move (cpp:428) stores false without the mutex and so erases the true that a newer `moveToJoints` has just stored: a client that polls `is_moving()` (README.md:41, 168-170) goes on before its move begins. `StartMove` sets the flag again, so it is wrong only until then. |
| `JointPolling` | `moveToJoints` after the loop has ended by itself sets the flag, and nothing clears it: `while jc.is_moving()` (README.md:196) never ends. |
| `JointLateCycle` | The clamp assumes 1 ms (cpp:509) while the generator integrates the real period (cpp:270-282): a late callback at full speed is clamped in the middle of the range, and the generator restarts from rest. |
| `CartesianCancel` | `cancelMove` (ccpp:193-197) clears the request and the flag; a move that was picked up is braked for and runs on with `is_moving()` false. The interactive test (`tests/python/test_cartesian_robot_interactive.py:180`) cancels a move that takes too long and goes on. The joint controller does the same (cpp:155-159). |
| `CartesianReplacedMove` | While a move runs the generator stays where the move began. A request that replaces the move brakes *from there* (ccpp:573-580): the pose sent jumps back, by more than the velocity limit allows. The graceful stop in the same place sets the generator to the pose sent (ccpp:416-426). |
| `SnapshotZeros` | `get_state()` copies the snapshot whether or not a callback has come (cpp:141-144), and starting does not wait for one. Until then it returns zeros, "the latest robot state" to README.md:38 and `src/franka_rt.cpp:641`. README.md:156 and 192 take the pose to stream from right after the controller was made; the interactive test sleeps first. |

Observations that have no run:

- A full ring drops the newest command (cpp:138, ccpp:165), which the Cartesian comment
  calls best effort while README.md:54 promises the latest target.
- A joint move that begins during a stream drops the stream's velocity within one callback
  (cpp:406), where the Cartesian controller brakes first.
- A clamp of one joint puts the generators of all seven at rest (cpp:512-514): the others,
  which were not clamped, lose their velocity within one callback. `AccelerationBounded` is
  about each step of the generator and does not see it. So does the saturation of a velocity
  (cpp:491, ccpp:674), which ends an acceleration at once, whatever `kMaxJerk` is.
- The target of a Cartesian move is not checked (ccpp:584), against "on every input"
  (chpp:51). Samples that are not finite end the motion by an exception of libfranka, not by
  the estop (`MoveNotFinite`).
- `last_cmd_time` advances for a dropped command too (ccpp:625). A far target that is
  streamed at a steady rate is therefore dropped every time, however long it is kept up:
  each interval is that between two commands. After a move the first interval is measured
  from the last command looked at before it, up to the 100 ms maximum.
  `AdoptedStepBounded` is the direction that matters: the gate is never too wide.
- `start()` leaves a pending move in place (cpp:113-121), which then begins in the new
  session; its `cmd_buf_.clear()` makes no difference to what is followed, because the
  warm-up drains and drops what is queued.
- `close()` acts once: a second call does nothing for motions started after the first, and
  the first does nothing for a loop that has not entered `control()` yet.
- A snapshot that is skipped is not made up for. If the skipped one is the last, with the
  fault that ended the motion, `get_state()` shows no error ever after.
- `set_EE` and `set_K` flatten a 4x4 array row by row where their documentation asks for
  columns (`src/franka_rt.cpp:277-287`).

## What is proved

`RingBufferProofs`. `TypeCorrect`, `NoRace` and `RingImplementsQueue`, for every
capacity, item type and number of operations. The inductive invariant adds to the type
invariant what each side knows: the tail the producer has seen is not newer than the
real one and its slot is free, the head the consumer has seen is not newer than the
real one and its slot is full, and the words copied so far are the right ones. The
properties alone are not inductive: without it a stale counter could point anywhere.
The refinement maps the slots from tail to head to the queue; both commits are the
abstract steps, everything else stutters.

`OnlineTrajectoryProofs` has the lemmas both motion modules rest on. For the generator: its
types, its velocity and acceleration limits, that rest is a fixpoint of it, and that a
bounded velocity covers a bounded distance. For a move: the min-jerk curve
`10 t^3 d^2 - 15 t^4 d + 6 t^5` rises from 0 to `d^5` and no faster than 15/8 of the mean.
In integers that is said of two times instead of a derivative: the difference quotient of the
curve is a polynomial (`SecantFactors`); with the times counted from the middle of the move
(`SecantCentred`) both it and what it lacks to 15/8 of `d^4` are sums of products that are
not negative (`SecantBounds`). `AlongSpeed`, `AlongStep`, `AlongTowards`
and `AlongBetween` carry it through the division that rounds toward zero.

`JointMotionProofs`. `PosesInLimits`, `OtgNeverDrifts`, `RateIsBounded`,
`AccelerationIsBounded`, `AutoMovesComplete`, `EndedMovesArrive`, `MovesStayBetweenEnds`,
`MovesNeverTurnBack`, `StopHolds`, `StopDropsMove` and `TypeCorrect`, for every number of joints, all limits, gains, durations, periods and inputs.
The argument: the clamp ends in the limits from anywhere, and from a pose in
the limits it stays within the cap (`ClampInLimits`, `ClampWithinStep`); a pose it does
not change is as good (`UnclampedIsSafe`); what it changes is at a limit or at the cap
(`ClampIsAtLimit`); and a stop that has had a quiet cycle has velocity and acceleration
zero, which the generator maps to themselves (`RestIsQuiet`). The invariant for moves,
`MoveInv`, says that the segment's ends are in the limits (`GoodSegment`), that the pose sent
is on the segment (`OnSegment`) and that a computed duration keeps 15/8 of the distance
within the budget (`WithinBudget`). Without it `AutoMoveIsSafe` is not inductive. Only the
first sample of a move that replaces another may be elsewhere, which is why the property
excepts such moves. `AutoMovesComplete` assumes `RoomForLateCallbacks`: the budget of 0.5 rad/s for one
period is within the cap for one millisecond (2.62 mrad and more), which the code's numbers
give for periods up to 5 ms, and which `MCMotion` asserts of its numbers. For callbacks that
come later still the theorem says nothing, and the move may indeed be cut short.
`EndedMovesArrive`, under the same hypothesis: a move that ends has sent the end of its
segment exactly, in every joint, or the clamp has cut it short, which happens only to given
durations and to moves that replaced another. `MovesNeverTurnBack` needs no
hypothesis: the clamp shortens a step but keeps its direction (`ClampTowards`), and the ends are
in the limits. `StopHolds` and `StopDropsMove` say what a stop does to a move: nothing brakes,
the pose sent last stays, and that very callback is the first quiet one (`StopInPlace`).

`CartesianMotionProofs`. `TypeCorrect`, `StreamIsBounded`, `AccelerationIsBounded`,
`CommandsAreBounded`, `AutoMoveIsBounded`, `MovesStayBetweenEnds`, `MovesNeverTurnBack`,
`MovesStartFromRest`, `StopHolds` and `StopDropsMove`, in the same generality. For the gate the invariant
needs `GateInv`: the command looked at last is no older than the one adopted last, so the
interval the code measures is never longer than the one the property allows. For streaming it
needs `StreamInSync`: unless a move is
under way the generator is at the pose sent last, so a step of it is a step of the pose. A move
leaves the generator behind: a stop sets it to the pose sent first, a request that replaces the
move does not, and that is where `CartesianReplacedMove` starts. For moves it needs
`MoveInv`: the pose sent is the sample of the trajectory at its elapsed time, so that the
next sample is a secant of the curve away, whatever the period.

`RtControllerProofs`, `JointPositionControlProofs`, `CartesianControlProofs`.
`TypeCorrect`, `RunningCoversLoop`, `OnlyCancelHides` and `MoveFencesCommands`, for any
number of callers, starts, commands and moves, any ring capacity, warm-up, hold and
braking time. `RtControllerProofs` has the inductive invariant `IInv` and one lemma per
shared action; the other two add their own actions and one conjunct. `IInv` says besides
the properties that the mutex has one holder, that every copy of a request is of a request
that was made, and `FenceInv`: what is queued, just read or followed is newer than every
completed move, and a callback that found a segment under way and has drained the ring
has nothing queued that is older than that segment. So a move may only complete in a
callback that did not itself start it. In the joint controller that needs
`PeriodAssumption` (no period is as long as a move: the shortest lasts one second, and
libfranka aborts the motion long before); in the Cartesian one it holds for every
duration, because the callback that queues a move never follows it.

`JointStreamsOrMoves` and `CartesianStreamsOrMoves` prove the refinement: from `IInv` each
action of a controller is a step of `StreamOrMove` or a stutter. Most of it is in lemmas of
`RtControllerProofs`, one per shared action. What makes it go through is again `FenceInv`
(a command that is followed is above the fence) and that a callback which has read a
command has it as the newest one heard.

Four more theorems of both controllers say what a caller may rely on.
`RequestsEndForGood` and `CommandsEndForGood` are read off the abstract machine: a request
that neither waits nor is executed (`Over`), and a command that was read over or is behind the
fence and is not followed (`Gone`), stay so for ever, also after a restart. `MovingIsTrue`:
while `isMoving()` is true a request waits or a move is under way (the code sets the flag in
two places and clears it in five or six); the only exception is a loop that is just being left.
`OrderInv` supports it and the bounds below: the request that waits is the newest, and one
that was picked up is newer than the move it replaces. `StopIsBounded` and `MovesAreBounded` are
the safety half of `StopReturns` and of `MovingEnds` with `QueuedMoveBegins`, and need no
fairness: a measure of the callbacks that are left is bounded, every callback that counts makes
it smaller, and no call, command, fault or estop makes it larger. After a stop request at
most `MaxCoast + HoldCycles` callbacks begin (one more in the joint controller, whose
callback that finds a fault holds the pose first); a move takes at most `MoveTime`, after at
most `MaxCoast + 1` that brake for it in the Cartesian controller. `BrakeInv` is what the first
needs: the hold begins when the stop has come to rest.

`RobotSessionProofs`. `SessionTypes`, `LoopsAreOutlived`, `LoopsAreJoinedOnce`,
`StoppedMeansStopped`, `EndedForGood`, `SnapshotIsRegister`, `ReadsAreNotTorn` and
`ReadsNeverGoBack`, for any number of threads, controllers and words. The invariant for the objects: a controller that
is destroyed has had its loop joined, a thread inside a call keeps the object alive, and a
robot is dropped only when no controller is left. `LoopsAreJoinedOnce` is what can be said of
`EndingCallsReturn` without fairness: a thread that waits for a loop is the only one that
joins it (cpp:124, ccpp:149), the loop was started and has been asked to stop, and whoever
waits for the GIL waits for such a thread. Its invariant is `JoinInv`: a controller has a
loop from its construction on, and `stopped_` remembers that somebody joins.
`StoppedMeansStopped`: `running_` is true exactly as long as the RT thread runs, whichever of
its two writers clears it, and `stop()` returns to the thread that joined when the RT thread has
ended; a second caller returns at once and may find it running. `EndedForGood`: it never
starts again and its snapshot stays. For the register: while somebody holds the
mutex nobody else copies, so the words a reader has copied are those of the snapshot it
locked; and the RT thread unlocks only when every word is of the newest state, which the
register has shown since the `try_lock`. From the register follow `ReadsAreNotTorn` (a read
returns one state of that very controller, word for word) and `ReadsNeverGoBack` (what is shown is
only replaced by what is newer, and a read returns what is shown when it ends).

The hypothesis `RoomForLateCallbacks` of `AutoMovesComplete` and `EndedMovesArrive` apart, the
proofs assume the named ASSUMEs of the modules and nothing else. The invariants of the two motion
modules and of the joins, and what the theorems state that no run checks, were checked by TLC on
small instances before they were proved.

Only model-checked: the liveness properties, because fairness is defined by ENABLED, which the
prover does not expand (of `StopReturns`, `MovingEnds`, `QueuedMoveBegins` and `EndingCallsReturn` the safety half is
proved, as said above; of `EstopEndsLoop`, `PendingIsPickedUp`, `StopComesToRest` and `BrakingEnds`
nothing is, the last two because whether the generator comes to rest depends on its gains);
and `RTNeverBlocks`, which is an ENABLED itself.

## The plan

The plan's modules are written: the ring, the two controllers and their motions, the abstract
machine, the snapshot and the session; their safety properties are proved. What would come
next, in this order:

1. The gate of the joint controller with its clock, as in `CartesianMotion`; it is the same
   code.
2. The layout conversions of the bindings (row-major, column-major) as pure operators,
   checked against a reference.

## What is not modelled

The geometry of rotations (quaternions, the axis of slerp, norms over three axes) and
floating-point rounding: coordinates are integers.
A Cartesian target that is not finite only in its rotation: the conversion to a quaternion may
make it the identity, and the move then runs to its end. `CartesianControl` allows that as well
as the failure; `CartesianMotion` has finite targets only. libfranka's own rate limiter and the robot. The setters of the bindings and `read_once`,
which hand their arguments to libfranka, and the conversions between numpy and
`std::array`. `MinJerkTrajectory::step()` without a time and `cancel()`, and the velocity,
torque and Cartesian clamps of `rt_common.hpp`, which no controller calls. A stamped command
that reaches the ring later than the callback after it (the caller is suspended between
the two statements, ccpp:163-165): its age is at most one period in `CartesianMotion`. Thread priorities. The contents of error
masks, log messages and state dictionaries. A move of infinite duration, which
the bindings do not refuse (cpp:403). Memory orders other than those of the ring: the
flags are sequentially consistent in the code, and the mutex orders the rest.
