--------------------------- MODULE StateSnapshot ---------------------------
(***************************************************************************)
(* latest_state_ and state_mtx_ of each controller                         *)
(* (src/joint_position_control.cpp, src/cartesian_control.cpp): the RT     *)
(* thread copies the state libfranka has passed to the callback under      *)
(* try_lock, getState() copies it under lock_guard.  Both copies go word   *)
(* by word.  When a callback comes and when a thread reads is up to        *)
(* RobotSession.                                                           *)
(***************************************************************************)
EXTENDS Naturals

CONSTANTS Controller,   \* the JointPositionControl and CartesianControl objects
          Thread,       \* Python threads
          Word,         \* words of a JointState or CartesianState
          MaxPicture    \* bound: states that differ from one another

ASSUME PictureAssumption == MaxPicture \in Nat \ {0}
ASSUME ControllerAssumption == Controller # {}
ASSUME ThreadAssumption == "free" \notin Thread /\ "rt" \notin Thread

VARIABLES
  cycle,    \* per controller: the newest state passed to a callback, counted
  latest,   \* per controller: latest_state_, of which state each word is
  mtx,      \* per controller: who has state_mtx_: "free", "rt" or a thread
  cb,       \* per controller: where its callback is
  call,     \* per thread: the call of the bindings it is in
  copy,     \* per thread: the struct getState() is copying or has returned
  copied    \* per thread: the words of it that have been copied

snapshot == <<cycle, latest, mtx, cb>>
readers == <<copy, copied>>

CallPC == {"idle",                    \* in no call
           "lock", "copy", "got",     \* getState: waiting, copying, returned
           "stop", "stopped",         \* stop(): joining; joined
           "drop",                    \* the destructor: joining, under the GIL
           "halt", "halted",          \* Robot::close(): in robot_->stop(); back
           "drop_halt", "drop_halted"}   \* the same from the destructor

\* latest_state_ is value-initialised: zeros, which is no state of the robot.
Zeros == 0
Picture(n) == [w \in Word |-> n]

SnapshotTypeOK ==
  /\ cycle \in [Controller -> 0..MaxPicture]
  /\ latest \in [Controller -> [Word -> 0..MaxPicture]]
  /\ mtx \in [Controller -> {"free", "rt"} \cup Thread]
  /\ cb \in [Controller -> {"between", "write", "rest"}]
  /\ call \in [Thread -> [pc : CallPC, obj : Controller]]
  /\ copy \in [Thread -> [Word -> 0..MaxPicture]]
  /\ copied \in [Thread -> SUBSET Word]

\* Of a thread in no call only pc matters.
Idle == [pc |-> "idle", obj |-> CHOOSE k \in Controller : TRUE]

SnapshotInit ==
  /\ cycle = [k \in Controller |-> 0]
  /\ latest = [k \in Controller |-> Picture(Zeros)]
  /\ mtx = [k \in Controller |-> "free"]
  /\ call = [t \in Thread |-> Idle]
  /\ cb = [k \in Controller |-> "between"]
  /\ copy = [t \in Thread |-> Picture(Zeros)]
  /\ copied = [t \in Thread |-> {}]

Goto(t, pc) == call' = [call EXCEPT ![t].pc = pc]

-----------------------------------------------------------------------------
(* The RT thread of controller k *)

\* Bug (mutant): the callback waits for the mutex.
SnapshotBlocking(k) ==
  /\ cb[k] = "between"
  /\ \E n \in {cycle[k], cycle[k] + 1} \cap 1..MaxPicture :
       cycle' = [cycle EXCEPT ![k] = n]
  /\ mtx[k] = "free"
  /\ mtx' = [mtx EXCEPT ![k] = "rt"] /\ cb' = [cb EXCEPT ![k] = "write"]
  /\ UNCHANGED <<latest, call, readers>>

\* A callback begins with a state, the one before if the robot stands still, and
\* tries the mutex; if somebody reads, this update is skipped.
Snapshot(k) ==
  /\ cb[k] = "between"
  /\ \E n \in {cycle[k], cycle[k] + 1} \cap 1..MaxPicture :
       cycle' = [cycle EXCEPT ![k] = n]
  /\ IF mtx[k] = "free"
     THEN mtx' = [mtx EXCEPT ![k] = "rt"] /\ cb' = [cb EXCEPT ![k] = "write"]
     ELSE cb' = [cb EXCEPT ![k] = "rest"] /\ UNCHANGED mtx
  /\ UNCHANGED <<latest, call, readers>>

WriteWord(k, w) ==
  /\ cb[k] = "write" /\ latest[k][w] # cycle[k]
  /\ latest' = [latest EXCEPT ![k][w] = cycle[k]]
  /\ UNCHANGED <<cycle, mtx, cb, call, readers>>

\* The lock goes out of scope.
WriteUnlock(k) ==
  /\ cb[k] = "write" /\ \A w \in Word : latest[k][w] = cycle[k]
  /\ mtx' = [mtx EXCEPT ![k] = "free"]
  /\ cb' = [cb EXCEPT ![k] = "rest"]
  /\ UNCHANGED <<cycle, latest, call, readers>>

-----------------------------------------------------------------------------
(* getState() in thread t *)

\* Bug (mutant): no lock.
ReadUnlocked(t) ==
  /\ call[t].pc = "lock"
  /\ Goto(t, "copy")
  /\ UNCHANGED <<snapshot, readers>>

ReadLock(t) ==
  /\ call[t].pc = "lock" /\ mtx[call[t].obj] = "free"
  /\ mtx' = [mtx EXCEPT ![call[t].obj] = t]
  /\ Goto(t, "copy")
  /\ UNCHANGED <<cycle, latest, cb, readers>>

CopyWord(t, w) ==
  /\ call[t].pc = "copy" /\ w \notin copied[t]
  /\ copy' = [copy EXCEPT ![t][w] = latest[call[t].obj][w]]
  /\ copied' = [copied EXCEPT ![t] = @ \cup {w}]
  /\ UNCHANGED <<snapshot, call>>

ReadUnlock(t) ==
  /\ call[t].pc = "copy" /\ copied[t] = Word
  /\ mtx' = [mtx EXCEPT ![call[t].obj] = "free"]
  /\ Goto(t, "got")
  /\ UNCHANGED <<cycle, latest, cb, readers>>

GetStateStep(t) == ReadLock(t) \/ ReadUnlock(t) \/ \E w \in Word : CopyWord(t, w)

-----------------------------------------------------------------------------
\* The register: the RT thread has updated it when it has locked the mutex.
Shown == [k \in Controller |-> IF mtx[k] = "rt" THEN Picture(cycle[k]) ELSE latest[k]]
Busy == [k \in Controller |-> IF mtx[k] \in Thread THEN {mtx[k]} ELSE {}]
Got == [t \in Thread |-> IF call[t].pc = "got" THEN copy[t] ELSE <<>>]

Register == INSTANCE StateRegister WITH now <- cycle, shown <- Shown,
                                        busy <- Busy, got <- Got

(***************************************************************************)
(* What get_state() returns is one whole state the robot has sent (or      *)
(* zeros), and the newest one but for callbacks that came while somebody   *)
(* was copying.                                                            *)
(***************************************************************************)
ImplementsRegister == Register!Spec

(***************************************************************************)
(* README: "get_state() - non-blocking read of the latest robot state".    *)
(* What it returns is a state of the robot, and not the zeros the struct   *)
(* is initialised with.                                                    *)
(***************************************************************************)
StateIsOfRobot == \A t \in Thread : call[t].pc = "got" => copy[t] # Picture(Zeros)
=============================================================================
