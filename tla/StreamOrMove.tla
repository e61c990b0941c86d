--------------------------- MODULE StreamOrMove ---------------------------
(***************************************************************************)
(* What both controllers promise the programs that command the arm, with   *)
(* no threads, flags, ring or callbacks: the arm follows a stream of       *)
(* commands or executes a move.  A move that is asked for waits in one     *)
(* place, where a newer one replaces it, begins once, and ends the         *)
(* streaming until it completes or is cut short; commands that were issued *)
(* before a completed move was asked for are never followed after it.  A   *)
(* stop only brakes: nothing begins and nothing is followed any more.      *)
(* JointPositionControl and CartesianControl implement this specification. *)
(***************************************************************************)
EXTENDS Naturals

VARIABLES
  issued,   \* commands issued so far; the newest has this number
  asked,    \* moves asked for so far
  waiting,  \* the move that is to begin, or None
  mode,     \* "off", "on" or "braking"
  move,     \* the move under way, or None
  target,   \* the command the stream follows; 0 if it holds its pose
  seen,     \* the newest command the arm has heard
  fence     \* commands up to this one are never followed any more

vars == <<issued, asked, waiting, mode, move, target, seen, fence>>

\* A move knows the newest command at the time it was asked for.
None == [id |-> 0, after |-> 0]

Init == /\ issued = 0 /\ asked = 0 /\ waiting = None
        /\ mode = "off" /\ move = None /\ target = 0 /\ seen = 0 /\ fence = 0

-----------------------------------------------------------------------------
(* The programs *)

Issue ==
  /\ issued' = issued + 1
  /\ UNCHANGED <<asked, waiting, mode, move, target, seen, fence>>

Ask ==
  /\ asked' = asked + 1
  /\ waiting' = [id |-> asked + 1, after |-> issued]
  /\ UNCHANGED <<issued, mode, move, target, seen, fence>>

\* Only a move that has not begun can be taken back.
Cancel ==
  /\ waiting' = None
  /\ UNCHANGED <<issued, asked, mode, move, target, seen, fence>>

\* Switching on forgets the commands of the session before, but not a move.
SwitchOn ==
  /\ mode = "off" /\ mode' = "on"
  /\ fence' = issued
  /\ UNCHANGED <<issued, asked, waiting, move, target, seen>>

-----------------------------------------------------------------------------
(* The arm *)

\* Commands may be skipped, but are never heard again or out of order.
Hear ==
  /\ mode = "on"
  /\ seen' \in (seen + 1)..issued
  /\ UNCHANGED <<issued, asked, waiting, mode, move, target, fence>>

Follow ==
  /\ mode = "on" /\ move = None
  /\ seen > fence
  /\ target' = seen
  /\ UNCHANGED <<issued, asked, waiting, mode, move, seen, fence>>

\* Also in the place of a move that is under way.
Begin ==
  /\ mode = "on" /\ waiting # None
  /\ move' = waiting /\ waiting' = None
  /\ target' = 0
  /\ UNCHANGED <<issued, asked, mode, seen, fence>>

Complete ==
  /\ mode = "on" /\ move # None
  /\ move' = None
  /\ fence' = IF move.after > fence THEN move.after ELSE fence
  /\ UNCHANGED <<issued, asked, waiting, mode, target, seen>>

CutShort ==
  /\ mode = "on" /\ move # None
  /\ move' = None
  /\ UNCHANGED <<issued, asked, waiting, mode, target, seen, fence>>

Brake ==
  /\ mode = "on" /\ mode' = "braking"
  /\ move' = None /\ target' = 0
  /\ UNCHANGED <<issued, asked, waiting, seen, fence>>

SwitchOff ==
  /\ mode # "off" /\ mode' = "off"
  /\ move' = None /\ target' = 0
  /\ UNCHANGED <<issued, asked, waiting, seen, fence>>

-----------------------------------------------------------------------------
Next == \/ Issue \/ Ask \/ Cancel \/ SwitchOn
        \/ Hear \/ Follow \/ Begin \/ Complete \/ CutShort \/ Brake \/ SwitchOff

Spec == Init /\ [][Next]_vars
=============================================================================
