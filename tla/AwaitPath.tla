----------------------------- MODULE AwaitPath ------------------------------
(***************************************************************************)
(* awaitPath of internal/harness/ipc.go: how the server waits, within a    *)
(* timeout, for a file that the Simulator has yet to create, in a          *)
(* directory that may not exist either.  It looks, arms an fsnotify watch, *)
(* looks again, and then looks at every event and at every tick of a       *)
(* backstop ticker.                                                        *)
(*                                                                         *)
(* Time is discrete.  A goroutine that can go on does so within the unit   *)
(* it can, so the clock only moves when the wait is blocked; the writer    *)
(* does what it does between any two steps.                                *)
(***************************************************************************)
EXTENDS Naturals

CONSTANTS
    Timeout,            \* how long the wait may take
    Backstop,           \* backstopInterval
    Poll,               \* bootstrapPollInterval
    Settings            \* the file systems considered

Setting == [
    kqueue : BOOLEAN,       \* macOS: a write to a file is only seen once the file
                            \* has a watch of its own, armed after its creation
    namesAgree : BOOLEAN,   \* fsnotify names the path as the caller does
    fails : BOOLEAN,        \* the watcher can fail
    addFails : BOOLEAN]     \* a directory that is there may get no watch: inotify
                            \* has a limit of them

ASSUME ConstantsAssumption ==
    /\ Timeout \in Nat /\ Backstop \in Nat \ {0} /\ Poll \in Nat \ {0}
    /\ Settings \subseteq Setting

VARIABLES
    setting,
    now,
    pc,
    wakeAt,     \* when the wait for the directory looks again
    tickAt,     \* the ticker's next tick
    ticked,     \* its channel holds a tick
    events,     \* events the watcher has for the path
    (* the file system *)
    dir,        \* the directory exists
    file,       \* what is at the path; only a whole file is what is waited for
    wholeAt,    \* since when it is whole
    armed,      \* the directory is watched
    fileArmed   \* so is the file

waitVars == <<pc, wakeAt, tickAt, ticked>>
fileVars == <<dir, file, wholeAt>>
vars == <<setting, now, waitVars, events, fileVars, armed, fileArmed>>

Ended == {"found", "late", "error"}
Kqueue == setting.kqueue

Init ==
    /\ setting \in Settings
    /\ now = 0
    /\ pc = "first" /\ wakeAt = 0 /\ tickAt = 0 /\ ticked = FALSE
    /\ events = 0
    /\ dir \in BOOLEAN
    /\ file \in {"absent", "begun", "whole"} /\ (dir \/ file = "absent")
    /\ wholeAt = 0
    /\ armed = FALSE /\ fileArmed = FALSE

Check == file = "whole"
Goto(from, to) == pc = from /\ pc' = to

-----------------------------------------------------------------------------
(* The wait.                                                               *)

FirstCheck ==
    /\ Goto("first", IF Check THEN "found" ELSE "arm")
    /\ UNCHANGED <<setting, now, wakeAt, tickAt, ticked, events, fileVars, armed, fileArmed>>

(* newWatcherForExistingDir.  A kqueue watch of a directory comes with one *)
(* of each file in it.                                                     *)
Arm ==
    /\ dir
    /\ Goto("arm", "second")
    /\ armed' = TRUE
    /\ fileArmed' = (file # "absent")
    /\ tickAt' = now + Backstop
    /\ UNCHANGED <<setting, now, wakeAt, ticked, events, fileVars>>

(* Any error of watcher.Add is taken for a directory that is not there; in *)
(* this loop nobody looks at the file.                                     *)
ArmLater ==
    /\ ~dir \/ setting.addFails
    /\ Goto("arm", IF now > Timeout THEN "late" ELSE "asleep")
    /\ wakeAt' = now + Poll
    /\ UNCHANGED <<setting, now, tickAt, ticked, events, fileVars, armed, fileArmed>>

Wake ==
    /\ now >= wakeAt
    /\ Goto("asleep", "arm")
    /\ UNCHANGED <<setting, now, wakeAt, tickAt, ticked, events, fileVars, armed, fileArmed>>

(* Mutant: the watch is armed and nobody looks again.                      *)
SecondLook_Not == FALSE

SecondLook == Check

SecondCheck ==
    /\ Goto("second", IF SecondLook THEN "found" ELSE "loop")
    /\ UNCHANGED <<setting, now, wakeAt, tickAt, ticked, events, fileVars, armed, fileArmed>>

Remaining ==
    /\ Goto("loop", IF now >= Timeout THEN "late" ELSE "select")
    /\ UNCHANGED <<setting, now, wakeAt, tickAt, ticked, events, fileVars, armed, fileArmed>>

OnEvent ==
    /\ events > 0 /\ events' = events - 1
    /\ Goto("select", IF setting.namesAgree /\ Check THEN "found" ELSE "loop")
    /\ UNCHANGED <<setting, now, wakeAt, tickAt, ticked, fileVars, armed, fileArmed>>

(* Mutant: the ticker is not looked at.                                    *)
OnTick_Ignored ==
    /\ ticked /\ ticked' = FALSE
    /\ Goto("select", "loop")
    /\ UNCHANGED <<setting, now, wakeAt, tickAt, events, fileVars, armed, fileArmed>>

OnTick ==
    /\ ticked /\ ticked' = FALSE
    /\ Goto("select", IF Check THEN "found" ELSE "loop")
    /\ UNCHANGED <<setting, now, wakeAt, tickAt, events, fileVars, armed, fileArmed>>

OnTimer ==
    /\ now >= Timeout
    /\ Goto("select", "late")
    /\ UNCHANGED <<setting, now, wakeAt, tickAt, ticked, events, fileVars, armed, fileArmed>>

(* The watcher cannot be made, is closed, or reports an error.             *)
WatcherFails ==
    /\ setting.fails
    /\ pc \in {"arm", "select"} /\ pc' = "error"
    /\ UNCHANGED <<setting, now, wakeAt, tickAt, ticked, events, fileVars, armed, fileArmed>>

-----------------------------------------------------------------------------
(* The Simulator and the harness.                                          *)

Sees(seen) == events' = IF armed /\ seen THEN events + 1 ELSE events

MakeDir ==
    /\ ~dir /\ dir' = TRUE
    /\ UNCHANGED <<setting, now, waitVars, events, file, wholeAt, armed, fileArmed>>

(* A file is created and filled, or renamed into place.                    *)
Create ==
    /\ dir /\ file = "absent" /\ file' = "begun"
    /\ Sees(TRUE)
    /\ UNCHANGED <<setting, now, waitVars, dir, wholeAt, armed, fileArmed>>

Fill ==
    /\ file = "begun" /\ file' = "whole" /\ wholeAt' = now
    /\ Sees(~Kqueue \/ fileArmed)
    /\ UNCHANGED <<setting, now, waitVars, dir, armed, fileArmed>>

Rename ==
    /\ dir /\ file = "absent" /\ file' = "whole" /\ wholeAt' = now
    /\ Sees(TRUE)
    /\ UNCHANGED <<setting, now, waitVars, dir, armed, fileArmed>>

(* fsnotify arms a watch of the new file.                                  *)
ArmFile ==
    /\ Kqueue /\ armed /\ file # "absent" /\ ~fileArmed
    /\ fileArmed' = TRUE
    /\ UNCHANGED <<setting, now, waitVars, events, fileVars, armed>>

Blocked ==
    \/ pc = "asleep" /\ now < wakeAt
    \/ pc = "select" /\ events = 0 /\ ~ticked /\ now < Timeout

Clock ==
    /\ Blocked
    /\ now' = now + 1
    /\ IF pc = "select" /\ now' >= tickAt
       THEN ticked' = TRUE /\ tickAt' = tickAt + Backstop
       ELSE UNCHANGED <<ticked, tickAt>>
    /\ UNCHANGED <<setting, pc, wakeAt, events, fileVars, armed, fileArmed>>

-----------------------------------------------------------------------------
Wait ==
    \/ FirstCheck \/ Arm \/ ArmLater \/ Wake \/ SecondCheck \/ Remaining
    \/ OnEvent \/ OnTick \/ OnTimer \/ WatcherFails

Next == Wait \/ MakeDir \/ Create \/ Fill \/ Rename \/ ArmFile \/ Clock

Spec == Init /\ [][Next]_vars

-----------------------------------------------------------------------------
(* Every wait ends, at most one look for the directory after its timeout,  *)
(* and it does not give up on a file that was there a backstop interval    *)
(* before the timeout: on macOS, where the file may have been filled       *)
(* without an event, and with names that never match, no less.  Only where *)
(* a directory that is there got no watch does nothing tell it.            *)
EndsOnTime ==
    /\ pc \notin Ended => now <= Timeout + Poll
    /\ pc = "late" =>
         /\ now >= Timeout
         /\ Check => \/ wholeAt + Backstop >= Timeout
                     \/ setting.addFails /\ ~armed

(* Where the watch sees every write, the wait never blocks, not even until *)
(* the next tick, with the file there and no event to tell it: the file    *)
(* was not created between the look and the watch.                         *)
NeverSleepsOnIt ==
    ~Kqueue /\ setting.namesAgree /\ Blocked => ~(pc = "select" /\ Check)
=============================================================================
