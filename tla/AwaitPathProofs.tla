-------------------------- MODULE AwaitPathProofs ---------------------------
(***************************************************************************)
(* Theorems about AwaitPath for every timeout and every interval of the    *)
(* ticker and of the wait for the directory.                               *)
(***************************************************************************)
EXTENDS AwaitPath, TLAPS

TypeOK ==
    /\ setting \in Settings
    /\ now \in Nat /\ wakeAt \in Nat /\ tickAt \in Nat /\ wholeAt \in Nat /\ events \in Nat
    /\ pc \in {"first", "arm", "asleep", "second", "loop", "select"} \cup Ended
    /\ file \in {"absent", "begun", "whole"}

(* How far the clock can be at each step of the wait.                      *)
ClockInBounds ==
    /\ pc = "first" => now = 0
    /\ pc \in {"arm", "second", "loop"} => now <= Timeout + Poll
    /\ pc = "asleep" => now <= wakeAt /\ wakeAt <= Timeout + Poll
    /\ pc = "select" => now <= Timeout
    /\ pc = "late" => now >= Timeout
    /\ wholeAt <= now
    /\ ~dir => file = "absent"

(* The watch is armed, and a tick is due within the interval.              *)
Watching ==
    pc \in {"second", "loop", "select"} =>
        /\ armed /\ dir
        /\ now < tickAt /\ tickAt <= now + Backstop

(* With the file there, a tick is pending or due within an interval of its *)
(* completion, and, where the watch sees every write, an event is pending. *)
WillLook ==
    pc \in {"loop", "select"} /\ Check =>
        /\ IF ticked THEN now <= wholeAt + Backstop ELSE tickAt <= wholeAt + Backstop
        /\ ~Kqueue /\ setting.namesAgree => events > 0

(* No watch is armed before the loop; until then the file is only missed   *)
(* where the directory, though there, gets none.                           *)
Unwatched == pc \in {"first", "arm", "asleep"} => ~armed

NotTooEarly ==
    pc = "late" /\ Check =>
        \/ wholeAt + Backstop >= Timeout
        \/ setting.addFails /\ ~armed

Inv == TypeOK /\ ClockInBounds /\ Watching /\ WillLook /\ Unwatched /\ NotTooEarly

LEMMA InvInit == Init => Inv
  <1> USE ConstantsAssumption
  <1> QED
    BY DEF Init, Inv, TypeOK, ClockInBounds, Watching, WillLook, Unwatched, NotTooEarly, Check

LEMMA InvStep == Inv /\ [Next]_vars => Inv'
  <1> USE ConstantsAssumption
  <1> SUFFICES ASSUME Inv, [Next]_vars PROVE Inv'
    OBVIOUS
  <1> USE DEF Inv, TypeOK, ClockInBounds, Watching, WillLook, Unwatched, NotTooEarly, Check, Ended,
              Kqueue, Goto
  <1>1. CASE FirstCheck
    BY <1>1 DEF FirstCheck, fileVars
  <1>2. CASE Arm
    BY <1>2 DEF Arm, fileVars
  <1>3. CASE ArmLater
    BY <1>3 DEF ArmLater, fileVars
  <1>4. CASE Wake
    BY <1>4 DEF Wake, fileVars
  <1>5. CASE SecondCheck
    BY <1>5 DEF SecondCheck, SecondLook, fileVars
  <1>6. CASE Remaining
    BY <1>6 DEF Remaining, fileVars
  <1>7. CASE OnEvent
    BY <1>7 DEF OnEvent, fileVars
  <1>8. CASE OnTick
    BY <1>8 DEF OnTick, fileVars
  <1>9. CASE OnTimer
    BY <1>9 DEF OnTimer, fileVars
  <1>10. CASE WatcherFails
    BY <1>10 DEF WatcherFails, fileVars
  <1>11. CASE MakeDir
    BY <1>11 DEF MakeDir, waitVars
  <1>12. CASE Create
    BY <1>12 DEF Create, Sees, waitVars
  <1>13. CASE Fill
    BY <1>13 DEF Fill, Sees, waitVars
  <1>14. CASE Rename
    BY <1>14 DEF Rename, Sees, waitVars
  <1>15. CASE ArmFile
    BY <1>15 DEF ArmFile, waitVars, fileVars
  <1>16. CASE Clock
    BY <1>16 DEF Clock, Blocked, fileVars
  <1>17. CASE UNCHANGED vars
    BY <1>17 DEF vars, waitVars, fileVars
  <1> QED
    BY <1>1, <1>2, <1>3, <1>4, <1>5, <1>6, <1>7, <1>8, <1>9, <1>10, <1>11, <1>12, <1>13,
       <1>14, <1>15, <1>16, <1>17 DEF Next, Wait

(* The wait ends on time, and gives up on no file that was there an        *)
(* interval of the ticker before, for every timeout and every interval,    *)
(* unless no watch could be armed of a directory that was there.           *)
THEOREM EndsOnTimeCorrect == Spec => []EndsOnTime
  <1>1. Inv => EndsOnTime
    BY ConstantsAssumption
       DEF Inv, TypeOK, ClockInBounds, NotTooEarly, EndsOnTime, Ended
  <1> QED
    BY <1>1, InvInit, InvStep, PTL DEF Spec

(* Where the watch sees every write, no wait sleeps while the file is      *)
(* there: the second look closes the gap before the watch.                 *)
THEOREM NeverSleepsCorrect == Spec => []NeverSleepsOnIt
  <1>1. Inv => NeverSleepsOnIt
    BY DEF Inv, WillLook, NeverSleepsOnIt, Blocked
  <1> QED
    BY <1>1, InvInit, InvStep, PTL DEF Spec
=============================================================================
