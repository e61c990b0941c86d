------------------------- MODULE RobotSessionProofs -------------------------
(***************************************************************************)
(* For every number of Python threads and controllers and every size of    *)
(* the state: no RT thread outlives its controller or the robot, and       *)
(* get_state() reads a register.                                           *)
(***************************************************************************)
EXTENDS RobotSession, TLAPS

\* Who has the mutex is where the mutex is needed, and a reader that has it has
\* copied what is there.
MutexInv ==
  /\ \A k \in Controller : mtx[k] = "rt" <=> cb[k] = "write"
  /\ \A k \in Controller, t \in Thread :
       mtx[k] = t <=> call[t].pc = "copy" /\ call[t].obj = k
  /\ \A t \in Thread :
       IF call[t].pc = "copy"
       THEN \A w \in copied[t] : copy[t][w] = latest[call[t].obj][w]
       ELSE call[t].pc = "got" \/ copied[t] = {}

Active(k) == loop[k] \in {"created", "control", "returned"}

\* A loop that runs belongs to an object that is alive, and if that has been
\* stopped, the thread that stops it is still in the call.
ObjectInv ==
  /\ \A k \in Controller : Active(k) => object[k] = "alive"
  /\ \A k \in Controller : object[k] = "none" => ~stopped[k]
  /\ \A k \in Controller : Active(k) /\ stopped[k] =>
       \E t \in Thread : call[t].pc \in {"stop", "drop"} /\ call[t].obj = k
  /\ robot # "alive" => \A k \in Controller : object[k] # "alive"
  /\ \A t \in Thread : call[t].pc \in {"drop_halt", "drop_halted"} => robot # "alive"

IInv == TypeOK /\ MutexInv /\ ObjectInv

USE DEF snapshot, readers, session, flags

LEMMA IdleType == Idle \in [pc : CallPC, obj : Controller] /\ Idle.pc = "idle"
  BY ControllerAssumption DEF Idle, CallPC

LEMMA PictureType == \A n \in 0..MaxPicture : Picture(n) \in [Word -> 0..MaxPicture]
  BY DEF Picture

LEMMA ZerosType == Picture(Zeros) \in [Word -> 0..MaxPicture]
  BY PictureType, PictureAssumption DEF Zeros

\* What the calls do to call.
LEMMA GotoCall ==
  ASSUME TypeOK, NEW t \in Thread, NEW pc \in CallPC, Goto(t, pc)
  PROVE  /\ call' \in [Thread -> [pc : CallPC, obj : Controller]]
         /\ call'[t].pc = pc /\ call'[t].obj = call[t].obj
         /\ \A u \in Thread \ {t} : call'[u] = call[u]
  BY DEF TypeOK, SnapshotTypeOK, Goto

LEMMA EnterCall ==
  ASSUME TypeOK, NEW t \in Thread, NEW pc \in CallPC, NEW k \in Controller, Enter(t, pc, k)
  PROVE  /\ call' \in [Thread -> [pc : CallPC, obj : Controller]]
         /\ call'[t].pc = pc /\ call'[t].obj = k
         /\ \A u \in Thread \ {t} : call'[u] = call[u]
  BY DEF TypeOK, SnapshotTypeOK, Enter

LEMMA LeaveCall ==
  ASSUME TypeOK, NEW t \in Thread, call' = [call EXCEPT ![t] = Idle]
  PROVE  /\ call' \in [Thread -> [pc : CallPC, obj : Controller]]
         /\ call'[t].pc = "idle"
         /\ \A u \in Thread \ {t} : call'[u] = call[u]
  BY IdleType DEF TypeOK, SnapshotTypeOK

LEMMA InitInv == Init => IInv
<1> SUFFICES ASSUME Init PROVE IInv  OBVIOUS
<1>1. SnapshotTypeOK
  <2>1. call \in [Thread -> [pc : CallPC, obj : Controller]]
    BY IdleType DEF Init, SnapshotInit
  <2>2. latest \in [Controller -> [Word -> 0..MaxPicture]]
    BY ZerosType DEF Init, SnapshotInit
  <2>3. copy \in [Thread -> [Word -> 0..MaxPicture]]
    BY ZerosType DEF Init, SnapshotInit
  <2> QED BY <2>1, <2>2, <2>3, PictureAssumption DEF Init, SnapshotInit, SnapshotTypeOK
<1>2. TypeOK
  BY <1>1 DEF Init, TypeOK
<1>3. MutexInv
  BY IdleType, ThreadAssumption DEF Init, SnapshotInit, MutexInv
<1>4. ObjectInv
  BY IdleType DEF Init, SnapshotInit, ObjectInv, Active
<1> QED BY <1>2, <1>3, <1>4 DEF IInv

-----------------------------------------------------------------------------
(* The snapshot *)

LEMMA SnapshotKeeps ==
  ASSUME IInv, NEW k \in Controller, SnapshotStep(k)
  PROVE  IInv'
<1> USE DEF IInv
<1>1. UNCHANGED <<call, copy, copied, session>>
  BY DEF SnapshotStep, Snapshot, WriteUnlock, WriteWord
<1>2. ObjectInv'
  BY <1>1 DEF ObjectInv, Active
<1>3. CASE Snapshot(k)
  <2>1. PICK n \in 1..MaxPicture : cycle' = [cycle EXCEPT ![k] = n]
    BY <1>3 DEF Snapshot
  <2>2. cycle' \in [Controller -> 0..MaxPicture]
    BY <2>1, PictureAssumption DEF TypeOK, SnapshotTypeOK
  <2>3. /\ mtx' \in [Controller -> {"free", "rt"} \cup Thread]
        /\ cb' \in [Controller -> {"between", "write", "rest"}]
        /\ latest' = latest
    BY <1>3 DEF Snapshot, TypeOK, SnapshotTypeOK
  <2>4. TypeOK'
    BY <1>1, <2>2, <2>3 DEF TypeOK, SnapshotTypeOK
  <2>5. \A c \in Controller : mtx'[c] = "rt" <=> cb'[c] = "write"
    <3>1. CASE mtx[k] = "free"
      <4>1. mtx' = [mtx EXCEPT ![k] = "rt"] /\ cb' = [cb EXCEPT ![k] = "write"]
        BY <1>3, <3>1 DEF Snapshot
      <4> QED BY <4>1 DEF MutexInv, TypeOK, SnapshotTypeOK
    <3>2. CASE mtx[k] # "free"
      <4>1. mtx' = mtx /\ cb' = [cb EXCEPT ![k] = "rest"] /\ cb[k] = "between"
        BY <1>3, <3>2 DEF Snapshot
      <4> QED BY <4>1 DEF MutexInv, TypeOK, SnapshotTypeOK
    <3> QED BY <3>1, <3>2
  <2>6. \A c \in Controller, t \in Thread : mtx'[c] = t <=> mtx[c] = t
    BY <1>3, ThreadAssumption DEF Snapshot, MutexInv, TypeOK, SnapshotTypeOK
  <2>7. MutexInv'
    BY <1>1, <2>3, <2>5, <2>6 DEF MutexInv
  <2> QED BY <1>2, <2>4, <2>7
<1>4. CASE WriteUnlock(k)
  <2>1. TypeOK'
    BY <1>1, <1>4 DEF WriteUnlock, TypeOK, SnapshotTypeOK
  <2>2. \A c \in Controller : mtx'[c] = "rt" <=> cb'[c] = "write"
    BY <1>4 DEF WriteUnlock, MutexInv, TypeOK, SnapshotTypeOK
  <2>3. \A c \in Controller, t \in Thread : mtx'[c] = t <=> mtx[c] = t
    BY <1>4, ThreadAssumption DEF WriteUnlock, MutexInv, TypeOK, SnapshotTypeOK
  <2>4. MutexInv'
    BY <1>1, <1>4, <2>2, <2>3 DEF MutexInv, WriteUnlock
  <2> QED BY <1>2, <2>1, <2>4
<1>5. ASSUME NEW w \in Word, WriteWord(k, w) PROVE IInv'
  <2>1. /\ latest' \in [Controller -> [Word -> 0..MaxPicture]]
        /\ \A c \in Controller \ {k} : latest'[c] = latest[c]
        /\ UNCHANGED <<cycle, mtx, cb>>
    BY <1>5 DEF WriteWord, TypeOK, SnapshotTypeOK
  <2>2. TypeOK'
    BY <1>1, <2>1 DEF TypeOK, SnapshotTypeOK
  <2>3. \A t \in Thread : call[t].pc = "copy" => call[t].obj # k
    BY <1>5, ThreadAssumption DEF WriteWord, MutexInv
  <2>4. \A t \in Thread : call[t].obj \in Controller
    BY DEF TypeOK, SnapshotTypeOK
  <2>5. MutexInv'
    BY <1>1, <2>1, <2>3, <2>4 DEF MutexInv
  <2> QED BY <1>2, <2>2, <2>5
<1> QED BY <1>3, <1>4, <1>5 DEF SnapshotStep

LEMMA GetStateKeeps ==
  ASSUME IInv, NEW t \in Thread, GetStateStep(t), UNCHANGED session
  PROVE  IInv'
<1> USE DEF IInv
<1> DEFINE k == call[t].obj
<1>0. k \in Controller
  BY DEF TypeOK, SnapshotTypeOK
<1>1. CASE ReadLock(t)
  <2>1. /\ call' \in [Thread -> [pc : CallPC, obj : Controller]]
        /\ call'[t].pc = "copy" /\ call'[t].obj = k
        /\ \A u \in Thread \ {t} : call'[u] = call[u]
    BY <1>1, GotoCall DEF ReadLock, CallPC
  <2>2. /\ call[t].pc = "lock" /\ mtx[k] = "free" /\ mtx'[k] = t
        /\ mtx' \in [Controller -> {"free", "rt"} \cup Thread]
        /\ \A c \in Controller \ {k} : mtx'[c] = mtx[c]
        /\ UNCHANGED <<cycle, latest, cb, copy, copied>>
    BY <1>0, <1>1 DEF ReadLock, TypeOK, SnapshotTypeOK
  <2>3. TypeOK'
    BY <2>1, <2>2 DEF TypeOK, SnapshotTypeOK
  <2>4. MutexInv'
    <3>1. \A c \in Controller : mtx'[c] = "rt" <=> cb'[c] = "write"
      BY <2>2, ThreadAssumption DEF MutexInv
    <3>2. \A c \in Controller, u \in Thread :
            mtx'[c] = u <=> call'[u].pc = "copy" /\ call'[u].obj = c
      BY <2>1, <2>2, ThreadAssumption DEF MutexInv
    <3>3. \A u \in Thread : IF call'[u].pc = "copy"
            THEN \A w \in copied'[u] : copy'[u][w] = latest'[call'[u].obj][w]
            ELSE call'[u].pc = "got" \/ copied'[u] = {}
      BY <2>1, <2>2 DEF MutexInv
    <3> QED BY <3>1, <3>2, <3>3 DEF MutexInv
  <2>5. ObjectInv'
    BY <2>1, <2>2 DEF ObjectInv, Active
  <2> QED BY <2>3, <2>4, <2>5
<1>2. CASE ReadUnlock(t)
  <2>1. /\ call' \in [Thread -> [pc : CallPC, obj : Controller]]
        /\ call'[t].pc = "got" /\ call'[t].obj = k
        /\ \A u \in Thread \ {t} : call'[u] = call[u]
    BY <1>2, GotoCall DEF ReadUnlock, CallPC
  <2>2. /\ call[t].pc = "copy" /\ mtx'[k] = "free"
        /\ mtx' \in [Controller -> {"free", "rt"} \cup Thread]
        /\ \A c \in Controller \ {k} : mtx'[c] = mtx[c]
        /\ UNCHANGED <<cycle, latest, cb, copy, copied>>
    BY <1>0, <1>2 DEF ReadUnlock, TypeOK, SnapshotTypeOK
  <2>3. TypeOK'
    BY <2>1, <2>2 DEF TypeOK, SnapshotTypeOK
  <2>4. MutexInv'
    <3>0. mtx[k] = t
      BY <1>0, <2>2 DEF MutexInv
    <3>1. \A c \in Controller : mtx'[c] = "rt" <=> cb'[c] = "write"
      BY <2>2, <3>0, ThreadAssumption DEF MutexInv
    <3>2. \A c \in Controller, u \in Thread :
            mtx'[c] = u <=> call'[u].pc = "copy" /\ call'[u].obj = c
      BY <2>1, <2>2, <3>0, ThreadAssumption DEF MutexInv
    <3>3. \A u \in Thread : IF call'[u].pc = "copy"
            THEN \A w \in copied'[u] : copy'[u][w] = latest'[call'[u].obj][w]
            ELSE call'[u].pc = "got" \/ copied'[u] = {}
      BY <2>1, <2>2 DEF MutexInv
    <3> QED BY <3>1, <3>2, <3>3 DEF MutexInv
  <2>5. ObjectInv'
    BY <2>1, <2>2 DEF ObjectInv, Active
  <2> QED BY <2>3, <2>4, <2>5
<1>3. ASSUME NEW w \in Word, CopyWord(t, w) PROVE IInv'
  <2>1. /\ call[t].pc = "copy" /\ UNCHANGED <<cycle, latest, mtx, cb, call>>
        /\ copy'[t] = [copy[t] EXCEPT ![w] = latest[k][w]]
        /\ copied'[t] = copied[t] \cup {w}
        /\ \A u \in Thread \ {t} : copy'[u] = copy[u] /\ copied'[u] = copied[u]
    BY <1>3 DEF CopyWord, TypeOK, SnapshotTypeOK
  <2>2. /\ copy' \in [Thread -> [Word -> 0..MaxPicture]]
        /\ copied' \in [Thread -> SUBSET Word]
    <3>1. latest[k][w] \in 0..MaxPicture
      BY <1>0 DEF TypeOK, SnapshotTypeOK
    <3> QED BY <1>3, <3>1 DEF CopyWord, TypeOK, SnapshotTypeOK
  <2>3. TypeOK'
    BY <2>1, <2>2 DEF TypeOK, SnapshotTypeOK
  <2>4. \A v \in copied'[t] : copy'[t][v] = latest[k][v]
    <3>1. copy[t] \in [Word -> 0..MaxPicture] /\ copied[t] \subseteq Word
      BY DEF TypeOK, SnapshotTypeOK
    <3>2. \A v \in copied[t] : copy[t][v] = latest[k][v]
      BY <2>1 DEF MutexInv
    <3> QED BY <2>1, <3>1, <3>2
  <2>5. MutexInv'
    <3>1. \A u \in Thread : IF call'[u].pc = "copy"
            THEN \A v \in copied'[u] : copy'[u][v] = latest'[call'[u].obj][v]
            ELSE call'[u].pc = "got" \/ copied'[u] = {}
      <4> SUFFICES ASSUME NEW u \in Thread
                   PROVE  IF call[u].pc = "copy"
                          THEN \A v \in copied'[u] : copy'[u][v] = latest[call[u].obj][v]
                          ELSE call[u].pc = "got" \/ copied'[u] = {}
        BY <2>1
      <4>1. CASE u = t  BY <2>1, <2>4, <4>1
      <4>2. CASE u # t  BY <2>1, <4>2 DEF MutexInv
      <4> QED BY <4>1, <4>2
    <3> QED BY <2>1, <3>1 DEF MutexInv
  <2>6. ObjectInv'
    BY <2>1 DEF ObjectInv, Active
  <2> QED BY <2>3, <2>5, <2>6
<1> QED BY <1>1, <1>2, <1>3 DEF GetStateStep
-----------------------------------------------------------------------------
(* The other calls and the loops leave the snapshot alone *)

LEMMA MutexKept ==
  ASSUME MutexInv, UNCHANGED <<latest, mtx>>,
         \A c \in Controller : cb'[c] = "write" <=> cb[c] = "write",
         \A u \in Thread :
           \/ UNCHANGED <<call[u], copy[u], copied[u]>>
           \/ call[u].pc # "copy" /\ call'[u].pc # "copy" /\ copied'[u] = {}
  PROVE  MutexInv'
<1>1. \A c \in Controller : mtx'[c] = "rt" <=> cb'[c] = "write"
  BY DEF MutexInv
<1>2. \A c \in Controller, u \in Thread :
        mtx'[c] = u <=> call'[u].pc = "copy" /\ call'[u].obj = c
  BY DEF MutexInv
<1>3. \A u \in Thread : IF call'[u].pc = "copy"
        THEN \A w \in copied'[u] : copy'[u][w] = latest'[call'[u].obj][w]
        ELSE call'[u].pc = "got" \/ copied'[u] = {}
  BY DEF MutexInv
<1> QED BY <1>1, <1>2, <1>3 DEF MutexInv

LEMMA CallKeeps ==
  ASSUME IInv, NEW t \in Thread, Call(t)
  PROVE  IInv'
<1> USE DEF IInv, MayCall, MayCallRobot, MayCallController
<1>1. ASSUME NEW k \in Controller, StartControl(t, k) PROVE IInv'
  <2>1. TypeOK'
    BY <1>1 DEF StartControl, TypeOK, SnapshotTypeOK
  <2>2. MutexInv'
    BY <1>1, MutexKept DEF StartControl
  <2>3. /\ object'[k] = "alive" /\ robot = "alive" /\ ~stopped[k]
        /\ \A c \in Controller \ {k} : object'[c] = object[c] /\ loop'[c] = loop[c]
        /\ UNCHANGED <<stopped, call, robot>>
    BY <1>1 DEF StartControl, ObjectInv, TypeOK
  <2>4. ObjectInv'
    BY <2>3 DEF ObjectInv, Active
  <2> QED BY <2>1, <2>2, <2>4
<1>2. ASSUME NEW k \in Controller, GetState(t, k) PROVE IInv'
  <2>1. /\ call' \in [Thread -> [pc : CallPC, obj : Controller]]
        /\ call'[t].pc = "lock" /\ call[t].pc = "idle" /\ copied[t] = {}
        /\ \A u \in Thread \ {t} : call'[u] = call[u]
        /\ UNCHANGED <<snapshot, readers, session>>
    BY <1>2, EnterCall DEF GetState, CallPC, MutexInv
  <2>2. TypeOK'
    BY <2>1 DEF TypeOK, SnapshotTypeOK
  <2>3. MutexInv'
    BY <2>1, MutexKept
  <2>4. ObjectInv'
    BY <2>1 DEF ObjectInv, Active
  <2> QED BY <2>2, <2>3, <2>4
<1>3. ASSUME NEW k \in Controller, NEW pc \in {"stop", "drop"}, Enter(t, pc, k),
             call[t].pc = "idle", ~stopped[k], object[k] = "alive",
             stopped' = [stopped EXCEPT ![k] = TRUE],
             stop_requested' = [stop_requested EXCEPT ![k] = TRUE],
             gil' \in {gil, gil \cup {t}}, gil = {},
             UNCHANGED <<snapshot, readers, robot, closed, object, running, loop, owner>>
      PROVE  IInv'
  <2>1. /\ call' \in [Thread -> [pc : CallPC, obj : Controller]]
        /\ call'[t].pc = pc /\ call'[t].obj = k /\ call[t].pc = "idle" /\ copied[t] = {}
        /\ \A u \in Thread \ {t} : call'[u] = call[u]
    BY <1>3, EnterCall DEF CallPC, MutexInv
  <2>2. /\ stopped' \in [Controller -> BOOLEAN]
        /\ stop_requested' \in [Controller -> BOOLEAN]
        /\ gil' \in {{}} \cup {{u} : u \in Thread}
    BY <1>3 DEF TypeOK
  <2>3. TypeOK'
    BY <1>3, <2>1, <2>2 DEF TypeOK, SnapshotTypeOK
  <2>4. MutexInv'
    BY <1>3, <2>1, MutexKept
  <2>5. \A c \in Controller \ {k} : stopped'[c] = stopped[c]
    BY <1>3 DEF TypeOK
  <2>6. ObjectInv'
    BY <1>3, <2>1, <2>5 DEF ObjectInv, Active
  <2> QED BY <2>3, <2>4, <2>6
<1>4. ASSUME NEW k \in Controller, Stop(t, k) PROVE IInv'
  <2>1. CASE stopped[k]
    BY <1>4, <2>1, MutexKept DEF Stop, TypeOK, SnapshotTypeOK, ObjectInv, Active
  <2>2. CASE ~stopped[k]
    BY <1>3, <1>4, <2>2 DEF Stop
  <2> QED BY <2>1, <2>2
<1>5. ASSUME NEW k \in Controller, Drop(t, k) PROVE IInv'
  <2>1. CASE stopped[k]
    <3>1. ~Active(k)
      BY <1>5, <2>1 DEF Drop, Unused, InRobot, ObjectInv
    <3>2. TypeOK'
      BY <1>5, <2>1 DEF Drop, TypeOK, SnapshotTypeOK
    <3>3. MutexInv'
      BY <1>5, <2>1, MutexKept DEF Drop
    <3>4. ObjectInv'
      BY <1>5, <2>1, <3>1 DEF Drop, ObjectInv, Active, TypeOK
    <3> QED BY <3>2, <3>3, <3>4
  <2>2. CASE ~stopped[k]
    BY <1>3, <1>5, <2>2 DEF Drop
  <2> QED BY <2>1, <2>2
<1>6. ASSUME NEW pc \in {"halt", "drop_halt"}, Goto(t, pc), call[t].pc = "idle",
             UNCHANGED <<snapshot, readers, gil, object, flags, loop, owner>>,
             closed' = TRUE, robot' \in {robot, "dropped"},
             pc = "drop_halt" => robot' # "alive",
             robot' # "alive" => \A k \in Controller : object[k] # "alive"
      PROVE  IInv'
  <2>1. /\ call' \in [Thread -> [pc : CallPC, obj : Controller]]
        /\ call'[t].pc = pc /\ copied[t] = {}
        /\ \A u \in Thread \ {t} : call'[u] = call[u]
    BY <1>6, GotoCall DEF CallPC, MutexInv
  <2>2. TypeOK'
    BY <1>6, <2>1 DEF TypeOK, SnapshotTypeOK
  <2>3. MutexInv'
    BY <1>6, <2>1, MutexKept
  <2>4. ObjectInv'
    BY <1>6, <2>1 DEF ObjectInv, Active
  <2> QED BY <2>2, <2>3, <2>4
<1>7. CASE Close(t)
  <2>1. CASE closed
    BY <1>7, <2>1, MutexKept DEF Close, TypeOK, SnapshotTypeOK, ObjectInv, Active
  <2>2. CASE ~closed
    BY <1>6, <1>7, <2>2 DEF Close
  <2> QED BY <2>1, <2>2
<1>8. CASE DropRobot(t)
  <2>1. CASE closed
    BY <1>8, <2>1, MutexKept DEF DropRobot, TypeOK, SnapshotTypeOK, ObjectInv, Active
  <2>2. CASE ~closed
    BY <1>6, <1>8, <2>2 DEF DropRobot
  <2> QED BY <2>1, <2>2
<1> QED BY <1>1, <1>2, <1>4, <1>5, <1>7, <1>8 DEF Call

LEMMA EndingKeeps ==
  ASSUME IInv, NEW t \in Thread, EndingStep(t) \/ HaltFails(t)
  PROVE  IInv'
<1> USE DEF IInv
<1>0. call[t].obj \in Controller
  BY DEF TypeOK, SnapshotTypeOK
<1>1. CASE StopJoin(t)
  <2>1. /\ call' \in [Thread -> [pc : CallPC, obj : Controller]]
        /\ call'[t].pc = "stopped" /\ call[t].pc = "stop" /\ copied[t] = {}
        /\ \A u \in Thread \ {t} : call'[u] = call[u]
    BY <1>1, GotoCall DEF StopJoin, CallPC, MutexInv
  <2>2. /\ running' \in [Controller -> BOOLEAN] /\ ~Active(call[t].obj)
        /\ UNCHANGED <<snapshot, readers, gil, robot, closed, object, stop_requested,
                       stopped, loop, owner>>
    BY <1>0, <1>1 DEF StopJoin, TypeOK, Active
  <2>3. TypeOK'
    BY <2>1, <2>2 DEF TypeOK, SnapshotTypeOK
  <2>4. MutexInv'
    BY <2>1, <2>2, MutexKept
  <2>5. ObjectInv'
    BY <2>1, <2>2 DEF ObjectInv, Active
  <2> QED BY <2>3, <2>4, <2>5
<1>2. CASE DropJoin(t)
  <2>1. /\ call' \in [Thread -> [pc : CallPC, obj : Controller]]
        /\ call'[t].pc = "idle" /\ call[t].pc = "drop" /\ copied[t] = {}
        /\ \A u \in Thread \ {t} : call'[u] = call[u]
    BY <1>2, LeaveCall DEF DropJoin, MutexInv
  <2>2. /\ running' \in [Controller -> BOOLEAN] /\ ~Active(call[t].obj)
        /\ object' \in [Controller -> {"none", "alive", "destroyed"}]
        /\ object'[call[t].obj] = "destroyed"
        /\ \A c \in Controller \ {call[t].obj} : object'[c] = object[c]
        /\ gil' \in {{}} \cup {{u} : u \in Thread}
        /\ UNCHANGED <<snapshot, readers, robot, closed, stop_requested, stopped, loop,
                       owner>>
    BY <1>0, <1>2 DEF DropJoin, TypeOK, Active
  <2>3. TypeOK'
    BY <2>1, <2>2 DEF TypeOK, SnapshotTypeOK
  <2>4. MutexInv'
    BY <2>1, <2>2, MutexKept
  <2>5. ObjectInv'
    BY <2>1, <2>2 DEF ObjectInv, Active
  <2> QED BY <2>3, <2>4, <2>5
<1>3. CASE Halted(t) \/ HaltFails(t)
  <2>1. Halting(t) /\ HaltReturns(t) /\ UNCHANGED <<snapshot, readers, session>>
    BY <1>3 DEF Halted, HaltFails
  <2>2. PICK pc \in {"halted", "drop_halted"} :
          Goto(t, pc) /\ (pc = "drop_halted" => call[t].pc = "drop_halt")
    BY <2>1 DEF Halting, HaltReturns
  <2>3. /\ call' \in [Thread -> [pc : CallPC, obj : Controller]]
        /\ call'[t].pc = pc /\ call[t].pc \notin {"copy", "stop", "drop"} /\ copied[t] = {}
        /\ \A u \in Thread \ {t} : call'[u] = call[u]
    BY <2>1, <2>2, GotoCall DEF Halting, CallPC, MutexInv
  <2>4. TypeOK'
    BY <2>1, <2>3 DEF TypeOK, SnapshotTypeOK
  <2>5. MutexInv'
    BY <2>1, <2>3, MutexKept
  <2>6. ObjectInv'
    BY <2>1, <2>2, <2>3 DEF ObjectInv, Active
  <2> QED BY <2>4, <2>5, <2>6
<1>4. CASE Return(t)
  <2>1. /\ call' \in [Thread -> [pc : CallPC, obj : Controller]]
        /\ call'[t].pc = "idle" /\ call[t].pc \notin {"copy", "stop", "drop"}
        /\ \A u \in Thread \ {t} : call'[u] = call[u]
    BY <1>4, LeaveCall DEF Return
  <2>2. /\ copy' \in [Thread -> [Word -> 0..MaxPicture]]
        /\ copied' \in [Thread -> SUBSET Word] /\ copied'[t] = {}
        /\ \A u \in Thread \ {t} : copy'[u] = copy[u] /\ copied'[u] = copied[u]
    BY <1>4, ZerosType DEF Return, TypeOK, SnapshotTypeOK
  <2>3. /\ UNCHANGED <<snapshot, gil, closed, object, flags, loop, owner>>
        /\ robot' \in {robot, "destroyed"} /\ (robot' # robot => robot # "alive")
    BY <1>4 DEF Return, ObjectInv
  <2>4. TypeOK'
    BY <2>1, <2>2, <2>3 DEF TypeOK, SnapshotTypeOK
  <2>5. MutexInv'
    BY <2>1, <2>2, <2>3, MutexKept
  <2>6. ObjectInv'
    BY <2>1, <2>3 DEF ObjectInv, Active
  <2> QED BY <2>4, <2>5, <2>6
<1> QED BY <1>1, <1>2, <1>3, <1>4 DEF EndingStep

RestOfLoop(k) == \/ EnterControl(k) \/ GoOn(k) \/ Returns(k)
                 \/ Finish(k) \/ Preempted(k) \/ EndsItself(k)

LEMMA LoopStepFrame ==
  ASSUME IInv, NEW k \in Controller, RestOfLoop(k)
  PROVE  /\ UNCHANGED <<cycle, latest, mtx, call, readers>>
         /\ \A c \in Controller : cb'[c] = "write" <=> cb[c] = "write"
<1> USE DEF IInv, TypeOK, SnapshotTypeOK
<1>1. CASE EnterControl(k) \/ Returns(k)
  BY <1>1 DEF EnterControl, Returns
<1>2. CASE GoOn(k) \/ Finish(k) \/ Preempted(k) \/ EndsItself(k)
  <2>1. cb[k] # "write" /\ cb' = [cb EXCEPT ![k] = "between"]
    BY <1>2 DEF GoOn, Finish, Preempted, EndsItself, Leave
  <2>2. UNCHANGED <<cycle, latest, mtx, call, readers>>
    BY <1>2 DEF GoOn, Finish, Preempted, EndsItself, Leave
  <2> QED BY <2>1, <2>2
<1> QED BY <1>1, <1>2 DEF RestOfLoop

LEMMA LoopKeeps ==
  ASSUME IInv, NEW k \in Controller, RestOfLoop(k)
  PROVE  IInv'
<1> USE DEF IInv
<1>1. MutexInv'
  BY LoopStepFrame, MutexKept
<1>2. UNCHANGED <<object, stopped, robot, call>>
  BY DEF RestOfLoop, EnterControl, GoOn, Returns, Finish, Preempted, EndsItself, Leave
<1>3. \A c \in Controller : Active(c)' => Active(c)
  BY DEF RestOfLoop, EnterControl, GoOn, Returns, Finish, Preempted, EndsItself, Leave,
         Active, TypeOK
<1>4. ObjectInv'
  BY <1>2, <1>3 DEF ObjectInv
<1>5. TypeOK'
  <2>1. cb' \in [Controller -> {"between", "write", "rest"}]
    BY DEF RestOfLoop, EnterControl, GoOn, Returns, Finish, Preempted, EndsItself, Leave,
           TypeOK, SnapshotTypeOK
  <2>2. loop' \in [Controller -> {"none", "created", "control", "returned", "done"}]
    BY DEF RestOfLoop, EnterControl, GoOn, Returns, Finish, Preempted, EndsItself, Leave,
           TypeOK
  <2>3. owner' \in {{}} \cup {{c} : c \in Controller}
    BY DEF RestOfLoop, EnterControl, GoOn, Returns, Finish, Preempted, EndsItself, Leave,
           TypeOK
  <2>4. running' \in [Controller -> BOOLEAN] /\ UNCHANGED <<gil, closed, stop_requested>>
    BY DEF RestOfLoop, EnterControl, GoOn, Returns, Finish, Preempted, EndsItself, Leave,
           TypeOK
  <2> QED BY LoopStepFrame, <1>2, <2>1, <2>2, <2>3, <2>4 DEF TypeOK, SnapshotTypeOK
<1> QED BY <1>1, <1>4, <1>5

-----------------------------------------------------------------------------
LEMMA StepKeeps == IInv /\ [Next]_vars => IInv'
<1> SUFFICES ASSUME IInv, [Next]_vars PROVE IInv'  OBVIOUS
<1>1. CASE UNCHANGED vars
  BY <1>1 DEF vars, IInv, TypeOK, SnapshotTypeOK, MutexInv, ObjectInv, Active
<1>2. ASSUME NEW k \in Controller, LoopStep(k) \/ Finish(k) \/ Preempted(k) \/ EndsItself(k)
      PROVE  IInv'
  BY <1>2, SnapshotKeeps, LoopKeeps DEF LoopStep, RestOfLoop
<1>3. ASSUME NEW t \in Thread, Call(t) \/ EndingStep(t) \/ HaltFails(t) PROVE IInv'
  BY <1>3, CallKeeps, EndingKeeps
<1>4. CASE Next
  <2>1. CASE \E k \in Controller : LoopStep(k) \/ Finish(k) \/ Preempted(k) \/ EndsItself(k)
    BY <1>2, <2>1
  <2>2. CASE \E t \in Thread : Call(t) \/ EndingStep(t) \/ HaltFails(t)
    BY <1>3, <2>2
  <2>3. CASE \E t \in Thread : GetStateStep(t) /\ UNCHANGED session
    BY <2>3, GetStateKeeps
  <2> QED BY <1>4, <2>1, <2>2, <2>3 DEF Next
<1> QED BY <1>1, <1>4

LEMMA Invariance == Spec => []IInv
  BY InitInv, StepKeeps, PTL DEF Spec

\* The variables of a session keep their types: a controller that is created,
\* used, stopped and destroyed by any number of threads.
THEOREM SessionTypes == Spec => []TypeOK
<1>1. IInv => TypeOK  BY DEF IInv
<1> QED BY Invariance, <1>1, PTL

\* No RT thread outlives the controller or the robot it refers to, in whatever
\* order the threads stop, close and drop them.
THEOREM LoopsAreOutlived == Spec => []LoopHasItsObjects
<1>1. IInv => LoopHasItsObjects
  BY DEF IInv, ObjectInv, Active, LoopHasItsObjects
<1> QED BY Invariance, <1>1, PTL

-----------------------------------------------------------------------------
(* Who waits for a loop to end *)

Joining(t) == call[t].pc \in {"stop", "drop"}

(***************************************************************************)
(* A thread that joins an RT thread (stop(), or a destructor under the     *)
(* GIL) joins one that was started and has been asked to stop, of a        *)
(* controller that is alive on a robot that is alive, and nobody else      *)
(* joins it: std::thread::join() of two threads at once is undefined.  The *)
(* GIL stays taken only by a destructor that joins, so that whoever waits  *)
(* for it waits for a loop that was asked to stop and never takes the GIL. *)
(***************************************************************************)
JoinsAreSound ==
  /\ \A t \in Thread : Joining(t) =>
       LET k == call[t].obj
       IN  object[k] = "alive" /\ robot = "alive" /\ stop_requested[k] /\ loop[k] # "none"
  /\ \A t, u \in Thread :
       Joining(t) /\ Joining(u) /\ call[t].obj = call[u].obj => t = u
  /\ \A t \in Thread : t \in gil <=> call[t].pc = "drop"

\* Only the first caller of stop() joins, and stopped_ remembers that there was one.
JoinInv ==
  /\ \A k \in Controller : object[k] = "none" <=> loop[k] = "none"
  /\ \A t \in Thread : Joining(t) =>
       LET k == call[t].obj
       IN  object[k] = "alive" /\ stopped[k] /\ stop_requested[k]
  /\ \A t, u \in Thread :
       Joining(t) /\ Joining(u) /\ call[t].obj = call[u].obj => t = u
  /\ \A t \in Thread : t \in gil <=> call[t].pc = "drop"

LEMMA InitJoin == Init => JoinInv
  BY IdleType DEF Init, SnapshotInit, JoinInv, Joining

\* Steps of threads that neither begin nor end a join.
LEMMA JoinKept ==
  ASSUME JoinInv, UNCHANGED <<gil, object, stopped, stop_requested>>,
         \A c \in Controller : loop'[c] = "none" <=> loop[c] = "none",
         \A u \in Thread : call'[u] = call[u] \/ (~Joining(u) /\ ~Joining(u)')
  PROVE  JoinInv'
<1>1. \A u \in Thread : Joining(u)' => Joining(u) /\ call'[u] = call[u]
  BY DEF Joining
<1>2. \A u \in Thread : u \in gil' <=> call'[u].pc = "drop"
  BY DEF JoinInv, Joining
<1>3. \A u \in Thread : Joining(u)' =>
        object'[call'[u].obj] = "alive" /\ stopped'[call'[u].obj]
        /\ stop_requested'[call'[u].obj]
  BY <1>1 DEF JoinInv
<1>4. \A u, v \in Thread :
        Joining(u)' /\ Joining(v)' /\ call'[u].obj = call'[v].obj => u = v
  BY <1>1 DEF JoinInv
<1>5. \A c \in Controller : object'[c] = "none" <=> loop'[c] = "none"
  BY DEF JoinInv
<1> QED BY <1>2, <1>3, <1>4, <1>5 DEF JoinInv

\* The first stop() of a controller, or the destructor that is one.
LEMMA JoinBegins ==
  ASSUME IInv, JoinInv, NEW t \in Thread, NEW k \in Controller, NEW pc \in {"stop", "drop"},
         Enter(t, pc, k), call[t].pc = "idle", gil = {}, ~stopped[k], object[k] = "alive",
         stopped' = [stopped EXCEPT ![k] = TRUE],
         stop_requested' = [stop_requested EXCEPT ![k] = TRUE],
         gil' = IF pc = "drop" THEN {t} ELSE {},
         UNCHANGED <<object, loop>>
  PROVE  JoinInv'
<1>1. /\ call'[t].pc = pc /\ call'[t].obj = k /\ \A u \in Thread \ {t} : call'[u] = call[u]
  BY EnterCall DEF IInv, CallPC
<1>2. /\ stopped'[k] /\ stop_requested'[k]
      /\ \A c \in Controller \ {k} :
           stopped'[c] = stopped[c] /\ stop_requested'[c] = stop_requested[c]
  BY DEF IInv, TypeOK
<1>3. \A u \in Thread \ {t} : Joining(u) => call[u].obj \in Controller \ {k}
  BY DEF IInv, TypeOK, SnapshotTypeOK, JoinInv
<1>4. \A u \in Thread \ {t} : Joining(u)' <=> Joining(u)
  BY <1>1 DEF Joining
<1>5. \A u \in Thread : Joining(u)' =>
        object'[call'[u].obj] = "alive" /\ stopped'[call'[u].obj]
        /\ stop_requested'[call'[u].obj]
  BY <1>1, <1>2, <1>3, <1>4 DEF JoinInv
<1>6. \A u, v \in Thread :
        Joining(u)' /\ Joining(v)' /\ call'[u].obj = call'[v].obj => u = v
  BY <1>1, <1>3, <1>4 DEF JoinInv
<1>7. \A u \in Thread : u \in gil' <=> call'[u].pc = "drop"
  BY <1>1 DEF JoinInv
<1> QED BY <1>5, <1>6, <1>7 DEF JoinInv

LEMMA CallJoins ==
  ASSUME IInv, JoinInv, NEW t \in Thread, Call(t)
  PROVE  JoinInv'
<1> USE DEF MayCall, MayCallRobot, MayCallController
<1>0. TypeOK
  BY DEF IInv
<1>1. ASSUME NEW k \in Controller, StartControl(t, k) PROVE JoinInv'
  <2>1. /\ object'[k] = "alive" /\ loop'[k] # "none" /\ object[k] = "none"
        /\ \A c \in Controller \ {k} : object'[c] = object[c] /\ loop'[c] = loop[c]
        /\ UNCHANGED <<gil, stopped, stop_requested, call>>
    BY <1>0, <1>1 DEF StartControl, TypeOK
  <2>2. \A u \in Thread : Joining(u)' <=> Joining(u)
    BY <2>1 DEF Joining
  <2>3. \A u \in Thread : Joining(u) => call[u].obj \in Controller \ {k}
    BY <1>0, <2>1 DEF JoinInv, TypeOK, SnapshotTypeOK
  <2>4. \A u \in Thread : Joining(u)' =>
          object'[call'[u].obj] = "alive" /\ stopped'[call'[u].obj]
          /\ stop_requested'[call'[u].obj]
    BY <2>1, <2>2, <2>3 DEF JoinInv
  <2> QED BY <2>1, <2>2, <2>4 DEF JoinInv
<1>2. ASSUME NEW k \in Controller, GetState(t, k) PROVE JoinInv'
  <2>1. Joining(t)' = FALSE /\ ~Joining(t) /\ \A u \in Thread \ {t} : call'[u] = call[u]
    BY <1>0, <1>2, EnterCall DEF GetState, CallPC, Joining
  <2> QED BY <1>2, <2>1, JoinKept DEF GetState
<1>3. ASSUME NEW k \in Controller, Stop(t, k) PROVE JoinInv'
  BY <1>3, JoinKept, JoinBegins DEF Stop
<1>4. ASSUME NEW k \in Controller, Drop(t, k) PROVE JoinInv'
  <2>1. CASE ~stopped[k]
    BY <1>4, <2>1, JoinBegins DEF Drop
  <2>2. CASE stopped[k]
    <3>1. /\ object'[k] = "destroyed" /\ object[k] = "alive"
          /\ \A c \in Controller \ {k} : object'[c] = object[c]
          /\ UNCHANGED <<gil, call, stopped, stop_requested, loop>>
      BY <1>0, <1>4, <2>2 DEF Drop, TypeOK
    <3>2. \A u \in Thread : Joining(u) => call[u].obj \in Controller \ {k}
      BY <1>0, <1>4 DEF Drop, Unused, InRobot, Joining, TypeOK, SnapshotTypeOK
    <3>3. \A u \in Thread : Joining(u)' <=> Joining(u)
      BY <3>1 DEF Joining
    <3>4. \A u \in Thread : Joining(u)' =>
            object'[call'[u].obj] = "alive" /\ stopped'[call'[u].obj]
            /\ stop_requested'[call'[u].obj]
      BY <3>1, <3>2, <3>3 DEF JoinInv
    <3> QED BY <3>1, <3>3, <3>4 DEF JoinInv
  <2> QED BY <2>1, <2>2
<1>5. CASE Close(t) \/ DropRobot(t)
  <2>1. UNCHANGED <<gil, object, stopped, stop_requested, loop>> /\ ~Joining(t)
    BY <1>5 DEF Close, DropRobot, Joining
  <2>2. call' = call \/ Goto(t, "halt") \/ Goto(t, "drop_halt")
    BY <1>5 DEF Close, DropRobot
  <2>3. \A u \in Thread : call'[u] = call[u] \/ (~Joining(u) /\ ~Joining(u)')
    BY <1>0, <2>1, <2>2, GotoCall DEF CallPC, Joining
  <2> QED BY <2>1, <2>3, JoinKept
<1> QED BY <1>1, <1>2, <1>3, <1>4, <1>5 DEF Call

LEMMA EndingJoins ==
  ASSUME IInv, JoinInv, NEW t \in Thread, EndingStep(t) \/ HaltFails(t)
  PROVE  JoinInv'
<1>0. TypeOK /\ call[t].obj \in Controller
  BY DEF IInv, TypeOK, SnapshotTypeOK
<1>1. CASE StopJoin(t)
  <2>1. /\ call'[t].pc = "stopped" /\ call[t].pc = "stop"
        /\ \A u \in Thread \ {t} : call'[u] = call[u]
        /\ UNCHANGED <<gil, object, stopped, stop_requested, loop>>
    BY <1>0, <1>1, GotoCall DEF StopJoin, CallPC
  <2>2. \A u \in Thread : Joining(u)' => u # t /\ Joining(u) /\ call'[u] = call[u]
    BY <2>1 DEF Joining
  <2>3. \A u \in Thread : u \in gil' <=> call'[u].pc = "drop"
    BY <2>1 DEF JoinInv
  <2> QED BY <2>1, <2>2, <2>3 DEF JoinInv
<1>2. CASE DropJoin(t)
  <2>1. /\ call'[t].pc = "idle" /\ call[t].pc = "drop"
        /\ \A u \in Thread \ {t} : call'[u] = call[u]
        /\ UNCHANGED <<stopped, stop_requested, loop>> /\ gil' = gil \ {t}
        /\ object'[call[t].obj] = "destroyed" /\ loop[call[t].obj] = "done"
        /\ \A c \in Controller \ {call[t].obj} : object'[c] = object[c]
    BY <1>0, <1>2, LeaveCall DEF DropJoin, TypeOK
  <2>2. \A u \in Thread : Joining(u)' => u # t /\ Joining(u) /\ call'[u] = call[u]
    BY <2>1 DEF Joining
  <2>3. \A u \in Thread : Joining(u)' => call[u].obj \in Controller \ {call[t].obj}
    BY <1>0, <2>1, <2>2 DEF JoinInv, Joining, TypeOK, SnapshotTypeOK
  <2>4. \A u \in Thread : u \in gil' <=> call'[u].pc = "drop"
    BY <2>1 DEF JoinInv
  <2>5. \A u \in Thread : Joining(u)' =>
          object'[call'[u].obj] = "alive" /\ stopped'[call'[u].obj]
          /\ stop_requested'[call'[u].obj]
    BY <2>1, <2>2, <2>3 DEF JoinInv
  <2>6. \A u, v \in Thread :
          Joining(u)' /\ Joining(v)' /\ call'[u].obj = call'[v].obj => u = v
    BY <2>2 DEF JoinInv
  <2> QED BY <1>0, <2>1, <2>4, <2>5, <2>6 DEF JoinInv
<1>3. CASE Halted(t) \/ HaltFails(t) \/ Return(t)
  <2>1. /\ UNCHANGED <<gil, object, stopped, stop_requested, loop>> /\ ~Joining(t)
    BY <1>3 DEF Halted, HaltFails, Halting, Return, Joining
  <2>2. \/ call' = [call EXCEPT ![t] = Idle]
        \/ \E pc \in {"halted", "drop_halted"} : Goto(t, pc)
    BY <1>3 DEF Halted, HaltFails, HaltReturns, Return
  <2>3. \A u \in Thread : call'[u] = call[u] \/ (~Joining(u) /\ ~Joining(u)')
    <3>1. CASE call' = [call EXCEPT ![t] = Idle]
      BY <1>0, <2>1, <3>1, LeaveCall DEF Joining
    <3>2. ASSUME NEW pc \in {"halted", "drop_halted"}, Goto(t, pc)
          PROVE  \A u \in Thread : call'[u] = call[u] \/ (~Joining(u) /\ ~Joining(u)')
      BY <1>0, <2>1, <3>2, GotoCall DEF CallPC, Joining
    <3> QED BY <2>2, <3>1, <3>2
  <2> QED BY <2>1, <2>3, JoinKept
<1> QED BY <1>1, <1>2, <1>3 DEF EndingStep

LEMMA JoinStep == IInv /\ JoinInv /\ [Next]_vars => JoinInv'
<1> SUFFICES ASSUME IInv, JoinInv, [Next]_vars PROVE JoinInv'  OBVIOUS
<1>1. CASE UNCHANGED vars
  BY <1>1, JoinKept DEF vars
<1>2. ASSUME NEW k \in Controller, LoopStep(k) \/ Finish(k) \/ Preempted(k) \/ EndsItself(k)
      PROVE  JoinInv'
  <2>1. UNCHANGED <<call, gil, object, stopped, stop_requested>>
    BY <1>2 DEF LoopStep, EnterControl, SnapshotStep, Snapshot, WriteUnlock, WriteWord, GoOn,
                Returns, Finish, Preempted, EndsItself, Leave
  <2>2. \A c \in Controller : loop'[c] = "none" <=> loop[c] = "none"
    BY <1>2 DEF LoopStep, EnterControl, SnapshotStep, GoOn, Returns, Finish, Preempted,
                EndsItself, Leave, IInv, TypeOK
  <2> QED BY <2>1, <2>2, JoinKept
<1>3. ASSUME NEW t \in Thread, GetStateStep(t), UNCHANGED session PROVE JoinInv'
  <2>1. /\ call' = call \/ \E pc \in {"copy", "got"} : Goto(t, pc)
        /\ GetStateStep(t) => call[t].pc \in {"lock", "copy"}
    BY <1>3 DEF GetStateStep, ReadLock, CopyWord, ReadUnlock
  <2>2. \A u \in Thread : call'[u] = call[u] \/ (~Joining(u) /\ ~Joining(u)')
    BY <1>3, <2>1, GotoCall DEF CallPC, Joining, IInv
  <2> QED BY <1>3, <2>2, JoinKept
<1>4. CASE Next
  <2>1. CASE \E k \in Controller : LoopStep(k) \/ Finish(k) \/ Preempted(k) \/ EndsItself(k)
    BY <1>2, <2>1
  <2>2. CASE \E t \in Thread : Call(t) \/ EndingStep(t) \/ HaltFails(t)
    BY <2>2, CallJoins, EndingJoins
  <2>3. CASE \E t \in Thread : GetStateStep(t) /\ UNCHANGED session
    BY <1>3, <2>3
  <2> QED BY <1>4, <2>1, <2>2, <2>3 DEF Next
<1> QED BY <1>1, <1>4

\* However many threads stop, leave and drop the controllers, each RT thread is
\* joined by one of them at most, after it was asked to stop.
THEOREM LoopsAreJoinedOnce == Spec => []JoinsAreSound
<1>1. IInv /\ JoinInv => JoinsAreSound
  <2> SUFFICES ASSUME IInv, JoinInv PROVE JoinsAreSound  OBVIOUS
  <2>1. ASSUME NEW t \in Thread, Joining(t), NEW k, k = call[t].obj
        PROVE  object[k] = "alive" /\ robot = "alive" /\ stop_requested[k] /\ loop[k] # "none"
    BY <2>1 DEF IInv, TypeOK, SnapshotTypeOK, ObjectInv, JoinInv
  <2> QED BY <2>1 DEF JoinInv, JoinsAreSound
<1> QED BY <1>1, Invariance, InitJoin, JoinStep, PTL DEF Spec

-----------------------------------------------------------------------------
(* When a loop has ended *)

(***************************************************************************)
(* A controller says it is running exactly as long as its RT thread runs,  *)
(* and a thread that joined in stop() finds, when it returns, that the     *)
(* thread has ended.  (Who calls stop() second returns without joining.)   *)
(***************************************************************************)
StopIsReal ==
  /\ \A k \in Controller : running[k] <=> Active(k)
  /\ \A t \in Thread : call[t].pc = "stopped" => loop[call[t].obj] = "done"

\* What a step does to a loop and to what it writes.
LoopMoves(k) ==
  \/ UNCHANGED <<loop[k], running[k]>>
  \/ object[k] = "none" /\ loop'[k] = "created" /\ running'[k]
  \/ Active(k) /\ Active(k)' /\ running'[k] = running[k]
  \/ loop[k] \in {"returned", "done"} /\ loop'[k] = "done" /\ ~running'[k]

LEMMA LoopStepMoves ==
  ASSUME IInv, NEW c \in Controller, LoopStep(c) \/ Finish(c) \/ Preempted(c) \/ EndsItself(c),
         NEW k \in Controller
  PROVE  /\ LoopMoves(k) /\ call' = call
         /\ loop[k] = "done" => latest'[k] = latest[k]
<1> USE DEF IInv, TypeOK, SnapshotTypeOK
<1>1. CASE SnapshotStep(c)
  BY <1>1 DEF SnapshotStep, Snapshot, WriteUnlock, WriteWord, LoopMoves
<1>2. CASE RestOfLoop(c)
  <2>1. latest' = latest /\ call' = call
    BY <1>2, LoopStepFrame
  <2>2. LoopMoves(k)
    BY <1>2 DEF RestOfLoop, EnterControl, GoOn, Returns, Finish, Preempted, EndsItself, Leave,
                LoopMoves, Active
  <2> QED BY <2>1, <2>2
<1> QED BY <1>1, <1>2 DEF LoopStep, RestOfLoop

LEMMA CallMoves ==
  ASSUME IInv, NEW t \in Thread, Call(t) \/ EndingStep(t) \/ HaltFails(t), NEW k \in Controller
  PROVE  LoopMoves(k) /\ latest'[k] = latest[k]
<1> USE DEF IInv, TypeOK, SnapshotTypeOK
<1>1. ASSUME NEW c \in Controller, StartControl(t, c)
      PROVE  LoopMoves(k) /\ latest'[k] = latest[k]
  BY <1>1 DEF StartControl, MayCallRobot, LoopMoves
<1>2. CASE \/ Close(t) \/ DropRobot(t)
           \/ \E c \in Controller : GetState(t, c) \/ Stop(t, c) \/ Drop(t, c)
  BY <1>2 DEF Close, DropRobot, GetState, Stop, Drop, LoopMoves
<1>3. CASE StopJoin(t) \/ DropJoin(t)
  BY <1>3 DEF StopJoin, DropJoin, LoopMoves
<1>4. CASE Halted(t) \/ HaltFails(t) \/ Return(t)
  BY <1>4 DEF Halted, HaltFails, Return, LoopMoves
<1> QED BY <1>1, <1>2, <1>3, <1>4 DEF Call, EndingStep

LEMMA AnyMoves ==
  ASSUME IInv, [Next]_vars, NEW k \in Controller
  PROVE  LoopMoves(k) /\ (loop[k] = "done" => latest'[k] = latest[k])
<1>1. CASE UNCHANGED vars
  BY <1>1 DEF vars, LoopMoves
<1>2. ASSUME NEW t \in Thread, GetStateStep(t), UNCHANGED session
      PROVE  LoopMoves(k) /\ latest'[k] = latest[k]
  BY <1>2 DEF GetStateStep, ReadLock, CopyWord, ReadUnlock, LoopMoves
<1> QED BY <1>1, <1>2, LoopStepMoves, CallMoves DEF Next

\* Who is through with a join has just ended it, or was before.
LEMMA JoinEnds ==
  ASSUME IInv, [Next]_vars, NEW t \in Thread, call'[t].pc = "stopped"
  PROVE  call'[t] = call[t] \/ (loop'[call'[t].obj] = "done")
<1> USE DEF IInv
<1>1. CASE UNCHANGED vars
  BY <1>1 DEF vars
<1>2. ASSUME NEW u \in Thread, Call(u) PROVE call'[t] = call[t]
  <2> USE DEF MayCall, MayCallRobot, MayCallController
  <2>1. \/ call' = call
        \/ \E pc \in CallPC \ {"stopped"} :
              Goto(u, pc) \/ \E k \in Controller : Enter(u, pc, k)
    BY <1>2 DEF Call, Close, DropRobot, StartControl, GetState, Stop, Drop, CallPC
  <2> QED BY <2>1, GotoCall, EnterCall
<1>3. ASSUME NEW u \in Thread, EndingStep(u) \/ HaltFails(u)
      PROVE  call'[t] = call[t] \/ (loop'[call'[t].obj] = "done")
  <2>1. CASE StopJoin(u)
    BY <2>1, GotoCall DEF StopJoin, CallPC
  <2>2. CASE DropJoin(u) \/ Return(u)
    BY <2>2, LeaveCall DEF DropJoin, Return
  <2>3. CASE Halted(u) \/ HaltFails(u)
    BY <2>3, GotoCall DEF Halted, HaltFails, HaltReturns, CallPC
  <2> QED BY <1>3, <2>1, <2>2, <2>3 DEF EndingStep
<1>4. ASSUME NEW u \in Thread, GetStateStep(u) PROVE call'[t] = call[t]
  BY <1>4, GotoCall DEF GetStateStep, ReadLock, CopyWord, ReadUnlock, CallPC
<1>5. ASSUME NEW k \in Controller, LoopStep(k) \/ Finish(k) \/ Preempted(k) \/ EndsItself(k)
      PROVE  call'[t] = call[t]
  BY <1>5, LoopStepMoves
<1> QED BY <1>1, <1>2, <1>3, <1>4, <1>5 DEF Next

LEMMA StopStep == IInv /\ JoinInv /\ StopIsReal /\ [Next]_vars => StopIsReal'
<1> SUFFICES ASSUME IInv, JoinInv, StopIsReal, [Next]_vars PROVE StopIsReal'
  OBVIOUS
<1>1. ASSUME NEW k \in Controller PROVE running'[k] <=> Active(k)'
  BY AnyMoves DEF LoopMoves, StopIsReal, Active, IInv, TypeOK
<1>2. ASSUME NEW t \in Thread, call'[t].pc = "stopped" PROVE loop'[call'[t].obj] = "done"
  <2>1. CASE call'[t] = call[t]
    <3>1. call[t].obj \in Controller /\ loop[call[t].obj] = "done"
      BY <1>2, <2>1 DEF StopIsReal, IInv, TypeOK, SnapshotTypeOK
    <3>2. object[call[t].obj] # "none"
      BY <3>1 DEF JoinInv
    <3> QED BY <2>1, <3>1, <3>2, AnyMoves DEF LoopMoves, Active
  <2> QED BY <1>2, <2>1, JoinEnds
<1> QED BY <1>1, <1>2 DEF StopIsReal

\* When stop() returns to the thread that stopped the loop, no RT thread is left,
\* however the loop came to its end.
THEOREM StoppedMeansStopped == Spec => []StopIsReal
<1>1. Init => StopIsReal
  BY IdleType DEF Init, SnapshotInit, StopIsReal, Active
<1> QED BY <1>1, Invariance, InitJoin, JoinStep, StopStep, PTL DEF Spec

(***************************************************************************)
(* An RT thread that has ended stays ended and writes nothing any more:    *)
(* no call starts the same controller again, and what get_state() reads    *)
(* after a stop is the last picture of that motion.                        *)
(***************************************************************************)
EndedStaysEnded ==
  [][\A k \in Controller :
       loop[k] = "done" => loop'[k] = "done" /\ latest'[k] = latest[k]]_vars

THEOREM EndedForGood == Spec => EndedStaysEnded
<1>1. ASSUME IInv, JoinInv, [Next]_vars, NEW k \in Controller, loop[k] = "done"
      PROVE  loop'[k] = "done" /\ latest'[k] = latest[k]
  <2>1. object[k] # "none"
    BY <1>1 DEF JoinInv
  <2> QED BY <1>1, <2>1, AnyMoves DEF LoopMoves, Active
<1>2. IInv /\ JoinInv /\ [Next]_vars
        => [\A k \in Controller :
              loop[k] = "done" => loop'[k] = "done" /\ latest'[k] = latest[k]]_vars
  BY <1>1
<1> QED BY <1>2, Invariance, InitJoin, JoinStep, PTL DEF Spec, EndedStaysEnded

-----------------------------------------------------------------------------
(* The register *)

USE DEF Shown, Busy, Got

LEMMA RegisterInit == Init => Register!Init
<1> SUFFICES ASSUME Init PROVE Register!Init  OBVIOUS
<1>1. /\ \A k \in Controller : mtx[k] = "free" /\ latest[k] = Picture(Zeros)
      /\ \A t \in Thread : call[t].pc = "idle"
  BY IdleType DEF Init, SnapshotInit
<1>2. Shown = [k \in Controller |-> Picture(Zeros)]
  BY <1>1
<1>3. Busy = [k \in Controller |-> {}]
  BY <1>1, ThreadAssumption
<1>4. Got = [t \in Thread |-> <<>>]
  BY <1>1
<1> QED BY <1>2, <1>3, <1>4
        DEF Init, SnapshotInit, Register!Init, Register!Picture, Register!Nothing,
            Picture, Zeros

\* A step outside the snapshot is none of the register.
LEMMA RegisterStutters ==
  ASSUME UNCHANGED <<cycle, latest, mtx>>,
         \A t \in Thread : \/ UNCHANGED <<call[t], copy[t]>>
                           \/ call[t].pc # "got" /\ call'[t].pc # "got"
  PROVE  UNCHANGED Register!vars
<1>1. Shown' = Shown /\ Busy' = Busy  OBVIOUS
<1>2. Got' = Got  OBVIOUS
<1> QED BY <1>1, <1>2 DEF Register!vars

LEMMA SnapshotUpdates ==
  ASSUME IInv, NEW k \in Controller, SnapshotStep(k)
  PROVE  [Register!Next]_(Register!vars)
<1> USE DEF IInv
<1>1. UNCHANGED <<call, copy, copied>> /\ Got' = Got
  BY DEF SnapshotStep, Snapshot, WriteUnlock, WriteWord
<1>2. CASE Snapshot(k)
  <2>1. PICK n \in {cycle[k], cycle[k] + 1} : cycle' = [cycle EXCEPT ![k] = n]
    BY <1>2 DEF Snapshot
  <2>2. cycle'[k] = n /\ \A c \in Controller \ {k} : cycle'[c] = cycle[c]
    BY <2>1 DEF TypeOK, SnapshotTypeOK
  <2>3. latest' = latest /\ cb[k] = "between" /\ mtx[k] # "rt"
    BY <1>2 DEF Snapshot, MutexInv
  <2>4. CASE mtx[k] = "free"
    <3>1. mtx'[k] = "rt" /\ \A c \in Controller \ {k} : mtx'[c] = mtx[c]
      BY <1>2, <2>4 DEF Snapshot, TypeOK, SnapshotTypeOK
    <3>2. Shown' = [Shown EXCEPT ![k] = Register!Picture(n)]
      BY <2>2, <2>3, <3>1 DEF Picture, Register!Picture
    <3>3. Busy' = Busy
      BY <2>4, <3>1, ThreadAssumption
    <3> QED BY <1>1, <2>1, <3>2, <3>3 DEF Register!Next, Register!Update
  <2>5. CASE mtx[k] # "free"
    <3>1. mtx' = mtx
      BY <1>2, <2>5 DEF Snapshot
    <3>2. Shown' = Shown
      BY <2>2, <2>3, <3>1
    <3>3. Busy' = Busy /\ Busy[k] # {}
      BY <2>3, <2>5, <3>1 DEF TypeOK, SnapshotTypeOK
    <3> QED BY <1>1, <2>1, <3>2, <3>3 DEF Register!Next, Register!Update
  <2> QED BY <2>4, <2>5
<1>3. CASE WriteUnlock(k)
  <2>1. /\ cycle' = cycle /\ latest' = latest /\ mtx[k] = "rt" /\ mtx'[k] = "free"
        /\ \A c \in Controller \ {k} : mtx'[c] = mtx[c]
    BY <1>3 DEF WriteUnlock, MutexInv, TypeOK, SnapshotTypeOK
  <2>2. latest[k] = Picture(cycle[k])
    BY <1>3 DEF WriteUnlock, Picture, TypeOK, SnapshotTypeOK
  <2>3. Shown' = Shown
    BY <2>1, <2>2
  <2>4. Busy' = Busy
    BY <2>1, ThreadAssumption
  <2> QED BY <1>1, <2>1, <2>3, <2>4 DEF Register!vars
<1>4. ASSUME NEW w \in Word, WriteWord(k, w) PROVE [Register!Next]_(Register!vars)
  <2>1. /\ mtx[k] = "rt" /\ UNCHANGED <<cycle, mtx>>
        /\ \A c \in Controller \ {k} : latest'[c] = latest[c]
    BY <1>4 DEF WriteWord, MutexInv, TypeOK, SnapshotTypeOK
  <2>2. Shown' = Shown /\ Busy' = Busy
    BY <2>1
  <2> QED BY <1>1, <2>1, <2>2 DEF Register!vars
<1> QED BY <1>2, <1>3, <1>4 DEF SnapshotStep

LEMMA GetStateReads ==
  ASSUME IInv, NEW t \in Thread, GetStateStep(t)
  PROVE  [Register!Next]_(Register!vars)
<1> USE DEF IInv
<1> DEFINE k == call[t].obj
<1>0. k \in Controller
  BY DEF TypeOK, SnapshotTypeOK
<1>1. CASE ReadLock(t)
  <2>1. /\ call[t].pc = "lock" /\ call'[t].pc = "copy"
        /\ \A u \in Thread \ {t} : call'[u] = call[u]
        /\ mtx[k] = "free" /\ mtx'[k] = t
        /\ \A c \in Controller \ {k} : mtx'[c] = mtx[c]
        /\ UNCHANGED <<cycle, latest, copy>>
    BY <1>0, <1>1, GotoCall DEF ReadLock, CallPC, TypeOK, SnapshotTypeOK
  <2>2. Shown' = Shown
    BY <2>1, ThreadAssumption
  <2>3. Got' = Got
    BY <2>1
  <2>4. Busy[k] = {} /\ Busy' = [Busy EXCEPT ![k] = {t}]
    BY <1>0, <2>1, ThreadAssumption
  <2>5. Register!Read(k, t)
    BY <2>1, <2>2, <2>3, <2>4 DEF Register!Read
  <2> QED BY <1>0, <2>5 DEF Register!Next
<1>2. CASE ReadUnlock(t)
  <2>1. /\ call[t].pc = "copy" /\ call'[t].pc = "got"
        /\ \A u \in Thread \ {t} : call'[u] = call[u]
        /\ mtx'[k] = "free" /\ copied[t] = Word
        /\ \A c \in Controller \ {k} : mtx'[c] = mtx[c]
        /\ UNCHANGED <<cycle, latest, copy>>
    BY <1>0, <1>2, GotoCall DEF ReadUnlock, CallPC, TypeOK, SnapshotTypeOK
  <2>2. mtx[k] = t
    BY <1>0, <2>1 DEF MutexInv
  <2>3. copy[t] = latest[k]
    <3>1. \A w \in Word : copy[t][w] = latest[k][w]
      BY <2>1 DEF MutexInv
    <3>2. copy[t] \in [Word -> 0..MaxPicture] /\ latest[k] \in [Word -> 0..MaxPicture]
      BY <1>0 DEF TypeOK, SnapshotTypeOK
    <3> QED BY <3>1, <3>2
  <2>4. Shown' = Shown /\ Shown[k] = latest[k]
    BY <1>0, <2>1, <2>2, ThreadAssumption
  <2>5. Got' = [Got EXCEPT ![t] = Shown[k]]
    BY <2>1, <2>3, <2>4
  <2>6. Busy[k] = {t} /\ Busy' = [Busy EXCEPT ![k] = {}]
    BY <1>0, <2>1, <2>2, ThreadAssumption
  <2>7. Register!Get(k, t)
    BY <2>1, <2>4, <2>5, <2>6 DEF Register!Get
  <2> QED BY <1>0, <2>7 DEF Register!Next
<1>3. ASSUME NEW w \in Word, CopyWord(t, w) PROVE UNCHANGED Register!vars
  <2>1. /\ call[t].pc = "copy" /\ UNCHANGED <<cycle, latest, mtx, call>>
        /\ \A u \in Thread \ {t} : copy'[u] = copy[u]
    BY <1>3 DEF CopyWord, TypeOK, SnapshotTypeOK
  <2> QED BY <2>1, RegisterStutters DEF Register!vars
<1> QED BY <1>1, <1>2, <1>3 DEF GetStateStep

LEMMA CallStutters ==
  ASSUME IInv, NEW t \in Thread, Call(t)
  PROVE  UNCHANGED Register!vars
<1> USE DEF IInv, MayCall, MayCallRobot, MayCallController
<1>1. UNCHANGED <<cycle, latest, mtx, copy>> /\ call[t].pc = "idle"
  BY DEF Call, Close, DropRobot, StartControl, GetState, Stop, Drop
<1>2. \/ call' = call
      \/ \E pc \in CallPC \ {"got"} : Goto(t, pc) \/ \E k \in Controller : Enter(t, pc, k)
  BY DEF Call, Close, DropRobot, StartControl, GetState, Stop, Drop, CallPC
<1>3. \A u \in Thread : call'[u] = call[u] \/ (u = t /\ call'[u].pc # "got")
  <2>1. ASSUME NEW pc \in CallPC \ {"got"}, Goto(t, pc)
        PROVE  \A u \in Thread : call'[u] = call[u] \/ (u = t /\ call'[u].pc # "got")
    BY <2>1, GotoCall
  <2>2. ASSUME NEW pc \in CallPC \ {"got"}, NEW k \in Controller, Enter(t, pc, k)
        PROVE  \A u \in Thread : call'[u] = call[u] \/ (u = t /\ call'[u].pc # "got")
    BY <2>2, EnterCall
  <2> QED BY <1>2, <2>1, <2>2
<1> QED BY <1>1, <1>3, RegisterStutters

LEMMA EndingUses ==
  ASSUME IInv, NEW t \in Thread, EndingStep(t) \/ HaltFails(t)
  PROVE  [Register!Next]_(Register!vars)
<1> USE DEF IInv
<1>1. CASE Return(t)
  <2>1. /\ call'[t].pc = "idle" /\ \A u \in Thread \ {t} : call'[u] = call[u]
        /\ UNCHANGED <<cycle, latest, mtx>>
        /\ \A u \in Thread \ {t} : copy'[u] = copy[u]
    BY <1>1, LeaveCall DEF Return, TypeOK, SnapshotTypeOK
  <2>2. Shown' = Shown /\ Busy' = Busy
    BY <2>1
  <2>3. Got' = [Got EXCEPT ![t] = <<>>]
    BY <2>1
  <2> QED BY <2>1, <2>2, <2>3 DEF Register!Next, Register!Use, Register!Nothing
<1>2. CASE StopJoin(t) \/ DropJoin(t) \/ Halted(t) \/ HaltFails(t)
  <2>1. UNCHANGED <<cycle, latest, mtx, copy>> /\ call[t].pc # "got"
    BY <1>2 DEF StopJoin, DropJoin, Halted, HaltFails, Halting
  <2>2. call' = [call EXCEPT ![t] = Idle]
        \/ \E pc \in {"stopped", "halted", "drop_halted"} : Goto(t, pc)
    BY <1>2 DEF StopJoin, DropJoin, Halted, HaltFails, HaltReturns
  <2>3. \A u \in Thread : call'[u] = call[u] \/ (u = t /\ call'[u].pc # "got")
    <3>1. ASSUME NEW pc \in {"stopped", "halted", "drop_halted"}, Goto(t, pc)
          PROVE  \A u \in Thread : call'[u] = call[u] \/ (u = t /\ call'[u].pc # "got")
      BY <3>1, GotoCall DEF CallPC
    <3>2. CASE call' = [call EXCEPT ![t] = Idle]
      BY <3>2, LeaveCall
    <3> QED BY <2>2, <3>1, <3>2
  <2> QED BY <2>1, <2>3, RegisterStutters
<1> QED BY <1>1, <1>2 DEF EndingStep

LEMMA RegisterStep == IInv /\ [Next]_vars => [Register!Next]_(Register!vars)
<1> SUFFICES ASSUME IInv, [Next]_vars PROVE [Register!Next]_(Register!vars)  OBVIOUS
<1>1. CASE UNCHANGED vars
  BY <1>1, RegisterStutters DEF vars, Register!vars
<1>2. ASSUME NEW k \in Controller, RestOfLoop(k) PROVE UNCHANGED Register!vars
  BY <1>2, LoopStepFrame, RegisterStutters DEF Register!vars
<1>3. CASE Next
  <2>1. CASE \E k \in Controller : LoopStep(k) \/ Finish(k) \/ Preempted(k) \/ EndsItself(k)
    BY <1>2, <2>1, SnapshotUpdates DEF LoopStep, RestOfLoop
  <2>2. CASE \E t \in Thread : Call(t) \/ EndingStep(t) \/ HaltFails(t)
    BY <2>2, CallStutters, EndingUses
  <2>3. CASE \E t \in Thread : GetStateStep(t) /\ UNCHANGED session
    BY <2>3, GetStateReads
  <2> QED BY <1>3, <2>1, <2>2, <2>3 DEF Next
<1> QED BY <1>1, <1>3

\* What get_state() returns is what a register per controller would: a whole state,
\* and the newest but for what came while somebody was reading.
THEOREM SnapshotIsRegister == Spec => ImplementsRegister
  BY RegisterInit, RegisterStep, Invariance, PTL DEF Spec, ImplementsRegister, Register!Spec
-----------------------------------------------------------------------------
(* What the register is good for *)

\* Which state the register shows only changes to the newest one.
LEMMA ShownChanges ==
  ASSUME IInv, [Next]_vars, NEW k \in Controller
  PROVE  /\ cycle[k] \in Nat /\ cycle'[k] \in Nat /\ cycle'[k] >= cycle[k]
         /\ Shown'[k] = Shown[k] \/ Shown'[k] = Picture(cycle'[k])
<1>1. cycle \in [Controller -> 0..MaxPicture]
  BY DEF IInv, TypeOK, SnapshotTypeOK
<1>2. [Register!Next]_(Register!vars)
  BY RegisterStep
<1>3. CASE UNCHANGED Register!vars
  BY <1>1, <1>3 DEF Register!vars
<1>4. CASE \E c \in Controller : Register!Update(c)
  <2>1. PICK c \in Controller : Register!Update(c)
    BY <1>4
  <2>2. PICK n \in {cycle[c], cycle[c] + 1} :
          /\ cycle' = [cycle EXCEPT ![c] = n]
          /\ Shown' = [Shown EXCEPT ![c] = Register!Picture(n)] \/ Shown' = Shown
    BY <2>1 DEF Register!Update
  <2>3. /\ cycle[c] \in Nat /\ n \in Nat /\ n >= cycle[c] /\ cycle'[c] = n
        /\ k # c => cycle'[k] = cycle[k]
    BY <1>1, <2>2
  <2>4. Register!Picture(n) = Picture(n)
    BY DEF Picture, Register!Picture
  <2>5. Shown'[k] = Shown[k] \/ (k = c /\ Shown'[k] = Picture(n))
    BY <2>2, <2>4
  <2> HIDE DEF Shown
  <2> QED BY <1>1, <2>3, <2>5
<1>5. CASE \/ \E c \in Controller, t \in Thread : Register!Read(c, t) \/ Register!Get(c, t)
           \/ \E t \in Thread : Register!Use(t)
  <2>1. cycle' = cycle /\ Shown' = Shown
    BY <1>5 DEF Register!Read, Register!Get, Register!Use
  <2> QED BY <1>1, <2>1
<1> QED BY <1>2, <1>3, <1>4, <1>5 DEF Register!Next

\* A thread is through with its copy because it has just ended it, or was before.
LEMMA ReadEnds ==
  ASSUME IInv, [Next]_vars, NEW t \in Thread, call'[t].pc = "got"
  PROVE  \/ call'[t] = call[t] /\ copy'[t] = copy[t]
         \/ /\ call[t].pc = "copy" /\ call'[t].obj = call[t].obj
            /\ copy'[t] = Shown[call[t].obj]
<1> USE DEF IInv
<1>1. CASE UNCHANGED vars
  BY <1>1 DEF vars
<1>2. ASSUME NEW k \in Controller, LoopStep(k) \/ Finish(k) \/ Preempted(k) \/ EndsItself(k)
      PROVE  UNCHANGED <<call, copy>>
  <2>1. CASE SnapshotStep(k)
    BY <2>1 DEF SnapshotStep, Snapshot, WriteUnlock, WriteWord
  <2>2. CASE RestOfLoop(k)
    BY <2>2, LoopStepFrame
  <2> QED BY <1>2, <2>1, <2>2 DEF LoopStep, RestOfLoop
<1>3. ASSUME NEW u \in Thread, Call(u) PROVE call'[t] = call[t] /\ copy'[t] = copy[t]
  <2> USE DEF MayCall, MayCallRobot, MayCallController
  <2>1. copy' = copy
    BY <1>3 DEF Call, Close, DropRobot, StartControl, GetState, Stop, Drop
  <2>2. \/ call' = call
        \/ \E pc \in CallPC \ {"got"} : Goto(u, pc) \/ \E k \in Controller : Enter(u, pc, k)
    BY <1>3 DEF Call, Close, DropRobot, StartControl, GetState, Stop, Drop, CallPC
  <2> QED BY <2>1, <2>2, GotoCall, EnterCall
<1>4. ASSUME NEW u \in Thread, EndingStep(u) \/ HaltFails(u)
      PROVE  call'[t] = call[t] /\ copy'[t] = copy[t]
  <2>1. \/ call' = [call EXCEPT ![u] = Idle]
        \/ \E pc \in {"stopped", "halted", "drop_halted"} : Goto(u, pc)
    BY <1>4 DEF EndingStep, StopJoin, DropJoin, Halted, HaltFails, HaltReturns, Return
  <2>2. ASSUME NEW pc \in {"stopped", "halted", "drop_halted"}, Goto(u, pc)
        PROVE  pc \in CallPC /\ u # t
    BY <2>2, GotoCall DEF CallPC
  <2>3. u # t
    BY <2>1, <2>2, LeaveCall
  <2>4. call'[t] = call[t]
    BY <2>1, <2>2, <2>3, GotoCall, LeaveCall
  <2>5. copy'[t] = copy[t]
    BY <1>4, <2>3 DEF EndingStep, StopJoin, DropJoin, Halted, HaltFails, Return,
                      TypeOK, SnapshotTypeOK
  <2> QED BY <2>4, <2>5
<1>5. ASSUME NEW u \in Thread, GetStateStep(u)
      PROVE  \/ call'[t] = call[t] /\ copy'[t] = copy[t]
             \/ /\ call[t].pc = "copy" /\ call'[t].obj = call[t].obj
                /\ copy'[t] = Shown[call[t].obj]
  <2>1. CASE ReadLock(u)
    BY <2>1, GotoCall DEF ReadLock, CallPC
  <2>2. ASSUME NEW w \in Word, CopyWord(u, w) PROVE call'[t] = call[t] /\ copy'[t] = copy[t]
    BY <2>2 DEF CopyWord, MutexInv, TypeOK, SnapshotTypeOK
  <2>3. CASE ReadUnlock(u)
    <3>1. /\ call[u].pc = "copy" /\ copied[u] = Word /\ copy' = copy
          /\ call'[u].obj = call[u].obj
          /\ \A v \in Thread \ {u} : call'[v] = call[v]
      BY <2>3, GotoCall DEF ReadUnlock, CallPC
    <3>2. call[u].obj \in Controller /\ mtx[call[u].obj] = u
      BY <3>1 DEF MutexInv, TypeOK, SnapshotTypeOK
    <3>3. copy[u] = latest[call[u].obj]
      <4>1. \A w \in Word : copy[u][w] = latest[call[u].obj][w]
        BY <3>1 DEF MutexInv
      <4>2. copy[u] \in [Word -> 0..MaxPicture]
            /\ latest[call[u].obj] \in [Word -> 0..MaxPicture]
        BY <3>2 DEF TypeOK, SnapshotTypeOK
      <4> QED BY <4>1, <4>2
    <3>4. Shown[call[u].obj] = latest[call[u].obj]
      BY <3>2, ThreadAssumption
    <3> QED BY <3>1, <3>3, <3>4
  <2> QED BY <1>5, <2>1, <2>2, <2>3 DEF GetStateStep
<1>6. CASE Next
  <2>1. CASE \E k \in Controller : LoopStep(k) \/ Finish(k) \/ Preempted(k) \/ EndsItself(k)
    BY <1>2, <2>1
  <2>2. CASE \E u \in Thread : Call(u) \/ EndingStep(u) \/ HaltFails(u)
    BY <1>3, <1>4, <2>2
  <2>3. CASE \E u \in Thread : GetStateStep(u) /\ UNCHANGED session
    BY <1>5, <2>3
  <2> QED BY <1>6, <2>1, <2>2, <2>3 DEF Next
<1> QED BY <1>1, <1>6

\* State n of the robot, all of it, no newer than the newest passed to k.
IsState(p, k) == \E n \in 0..cycle[k] : p = Picture(n)

ReadsAreWhole == \A t \in Thread : call[t].pc = "got" => IsState(copy[t], call[t].obj)

ShownIsWhole == \A k \in Controller : IsState(Shown[k], k)

LEMMA WholeStep ==
  IInv /\ ReadsAreWhole /\ ShownIsWhole /\ [Next]_vars => (ReadsAreWhole /\ ShownIsWhole)'
<1> SUFFICES ASSUME IInv, ReadsAreWhole, ShownIsWhole, [Next]_vars
             PROVE  (ReadsAreWhole /\ ShownIsWhole)'
  OBVIOUS
<1>1. ASSUME NEW k \in Controller, NEW p, IsState(p, k)
      PROVE  \E n \in 0..cycle'[k] : p = Picture(n)
  <2>1. PICK n \in 0..cycle[k] : p = Picture(n)
    BY <1>1 DEF IsState
  <2>2. n \in 0..cycle'[k]
    BY ShownChanges
  <2> QED BY <2>1, <2>2
<1>2. ASSUME NEW k \in Controller
      PROVE  \E n \in 0..cycle'[k] : Shown'[k] = Picture(n)
  <2>1. CASE Shown'[k] = Shown[k]
    BY <1>1, <2>1 DEF ShownIsWhole
  <2>2. CASE Shown'[k] = Picture(cycle'[k])
    <3>1. cycle'[k] \in 0..cycle'[k]
      BY ShownChanges
    <3> QED BY <2>2, <3>1
  <2> QED BY <2>1, <2>2, ShownChanges
<1>3. ASSUME NEW t \in Thread, call'[t].pc = "got"
      PROVE  \E n \in 0..cycle'[call'[t].obj] : copy'[t] = Picture(n)
  <2>1. call[t].obj \in Controller
    BY DEF IInv, TypeOK, SnapshotTypeOK
  <2>2. CASE call'[t] = call[t] /\ copy'[t] = copy[t]
    BY <1>1, <1>3, <2>1, <2>2 DEF ReadsAreWhole
  <2>3. CASE call'[t].obj = call[t].obj /\ copy'[t] = Shown[call[t].obj]
    BY <1>1, <2>1, <2>3 DEF ShownIsWhole
  <2> QED BY <1>3, <2>2, <2>3, ReadEnds
<1> HIDE DEF Shown
<1> QED BY <1>2, <1>3 DEF ReadsAreWhole, ShownIsWhole, IsState

LEMMA WholeAlways == Spec => [](ReadsAreWhole /\ ShownIsWhole)
<1>1. Init => ReadsAreWhole /\ ShownIsWhole
  <2> SUFFICES ASSUME Init PROVE ReadsAreWhole /\ ShownIsWhole
    OBVIOUS
  <2>1. \A t \in Thread : call[t].pc # "got"
    BY IdleType DEF Init, SnapshotInit
  <2>2. ASSUME NEW k \in Controller PROVE Shown[k] = Picture(0) /\ cycle[k] = 0
    BY DEF Init, SnapshotInit, Zeros
  <2> HIDE DEF Shown
  <2> QED BY <2>1, <2>2 DEF ReadsAreWhole, ShownIsWhole, IsState
<1> QED BY <1>1, Invariance, WholeStep, PTL DEF Spec

(***************************************************************************)
(* No torn reads: what get_state() returns is, word for word, one state    *)
(* the robot has sent to that controller, or the zeros before the first,   *)
(* however the copies of the RT thread and of the readers interleave.      *)
(***************************************************************************)
THEOREM ReadsAreNotTorn == Spec => []ReadsAreWhole
  BY WholeAlways, PTL

(***************************************************************************)
(* Reads never go back: the state a controller shows is only ever replaced *)
(* by one at least as new, and a read that ends returns the state shown at *)
(* that moment; so one that ends later, in whichever thread, never returns *)
(* an older state of the same controller.                                  *)
(***************************************************************************)
NeverOlder ==
  [][/\ \A k \in Controller :
          \E m \in 0..cycle[k], n \in 0..cycle'[k] :
            m <= n /\ Shown[k] = Picture(m) /\ Shown'[k] = Picture(n)
     /\ \A t \in Thread :
          call[t].pc # "got" /\ call'[t].pc = "got"
            => call'[t].obj = call[t].obj /\ copy'[t] = Shown[call[t].obj]]_vars

THEOREM ReadsNeverGoBack == Spec => NeverOlder
<1>1. ASSUME IInv, ShownIsWhole, [Next]_vars, NEW k \in Controller
      PROVE  \E m \in 0..cycle[k], n \in 0..cycle'[k] :
               m <= n /\ Shown[k] = Picture(m) /\ Shown'[k] = Picture(n)
  <2>1. PICK m \in 0..cycle[k] : Shown[k] = Picture(m)
    BY <1>1 DEF ShownIsWhole, IsState
  <2>2. /\ cycle[k] \in Nat /\ cycle'[k] \in Nat /\ cycle'[k] >= cycle[k]
        /\ Shown'[k] = Shown[k] \/ Shown'[k] = Picture(cycle'[k])
    BY <1>1, ShownChanges
  <2> HIDE DEF Shown
  <2>3. CASE Shown'[k] = Shown[k]
    <3>1. m \in 0..cycle'[k] /\ m <= m
      BY <2>2
    <3> QED BY <2>1, <2>3, <3>1
  <2>4. CASE Shown'[k] = Picture(cycle'[k])
    <3>1. cycle'[k] \in 0..cycle'[k] /\ m <= cycle'[k]
      BY <2>2
    <3> QED BY <2>1, <2>4, <3>1
  <2> QED BY <2>2, <2>3, <2>4
<1>2. ASSUME IInv, [Next]_vars, NEW t \in Thread, call[t].pc # "got", call'[t].pc = "got"
      PROVE  call'[t].obj = call[t].obj /\ copy'[t] = Shown[call[t].obj]
  BY <1>2, ReadEnds
<1>3. IInv /\ ShownIsWhole /\ [Next]_vars
        => [/\ \A k \in Controller :
                 \E m \in 0..cycle[k], n \in 0..cycle'[k] :
                   m <= n /\ Shown[k] = Picture(m) /\ Shown'[k] = Picture(n)
            /\ \A t \in Thread :
                 call[t].pc # "got" /\ call'[t].pc = "got"
                   => call'[t].obj = call[t].obj /\ copy'[t] = Shown[call[t].obj]]_vars
  BY <1>1, <1>2
<1> QED BY <1>3, WholeAlways, Invariance, PTL DEF Spec, NeverOlder
=============================================================================
