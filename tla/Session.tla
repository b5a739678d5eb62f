------------------------------- MODULE Session -------------------------------
(***************************************************************************)
(* The server's hold on the Simulator: launch_simulator, stop_simulator,   *)
(* restart_simulator and get_screenshot of internal/tools, which the       *)
(* go-sdk runs concurrently, over internal/simulator.                      *)
(*                                                                         *)
(* Server.mu guards the fields.  restart_simulator holds it throughout;    *)
(* launch_simulator takes it only to record the Simulator it has started,  *)
(* stop_simulator only to read the Simulator and, later, to forget it.     *)
(*                                                                         *)
(* A Simulator is named by its launch, and so is its scratch directory:    *)
(* every launch makes a new one.  The mailbox of HarnessIpc is kept to one *)
(* command file and one answer per game.                                   *)
(***************************************************************************)
EXTENDS Naturals

CONSTANTS
    Callers,            \* tool calls the go-sdk dispatches concurrently
    Games,              \* the games, each with its copy of the harness
    MaxLaunches,        \* bound on the launches and relaunches of all settings
    MaxShots,           \* bound on the screenshots asked for, in all settings
    Nobody,             \* a mutex is free
    Settings            \* the clients and platforms considered

Setting == [
    tools : SUBSET {"launch", "stop", "restart"},   \* the ones the client uses
    launchesOverRunning : BOOLEAN,  \* it also launches while a Simulator is recorded
                                    \* or another lifecycle tool is at work
    stopsOverlap : BOOLEAN,  \* it also stops or restarts a Simulator that another
                             \* call is stopping
    restartsOverStops : BOOLEAN,  \* a restart may be one of those, beside a stop
    mayQuit : BOOLEAN,       \* the Simulator can quit by itself
    maxLaunches : Nat, maxShots : Nat,
    seesUnreaped : BOOLEAN]  \* Exited() is true of a child that has quit and has not
                             \* been waited for: TRUE on Windows, FALSE on Unix,
                             \* where signal 0 reaches a zombie

Launches == 1..MaxLaunches
Shots == 1..MaxShots

ASSUME ConstantsAssumption ==
    /\ MaxLaunches \in Nat /\ MaxShots \in Nat
    /\ Nobody \notin Callers
    /\ Settings \subseteq Setting
    /\ \A s \in Settings : s.maxLaunches <= MaxLaunches /\ s.maxShots <= MaxShots

VARIABLES
    setting,
    (* Server; 0 stands for nil and for the empty string *)
    mu, harnessMu,
    sim, scratchDir,
    game,        \* pdxPath, bundleID and dataDir: those of this launch
    (* the tool calls *)
    pc,
    job,         \* the launch a call works on, or whose data directory it uses
    shot,        \* the screenshot a call asks for
    (* the operating system *)
    launches,    \* how many launches were made
    gameOf,
    proc,        \* each Simulator's process
    drained,     \* its output was copied to the end, and the result collected
    dir,         \* its scratch directory exists
    pic,         \* the screenshot in its scratch directory
    outcome,     \* what the tool call reported of the launch
    (* the mailbox of each game *)
    mail,        \* the screenshot its command.json asks for
    answer,      \* the screenshot its response.json reports
    shots,       \* how many screenshots were asked for
    unwritten,   \* those answered though their image was not written
    image        \* the screenshot each of those calls returned

serverVars == <<mu, harnessMu, sim, scratchDir, game>>
callVars == <<pc, job, shot>>
osVars == <<launches, gameOf, proc, drained, dir, pic, outcome>>
mailVars == <<mail, answer, shots, unwritten, image>>
sessionVars == <<serverVars, callVars, osVars, mailVars>>
vars == <<setting, sessionVars>>

Tools == setting.tools
LaunchesOverRunning == setting.launchesOverRunning
StopsOverlap == setting.stopsOverlap
RestartsOverStops == setting.restartsOverStops
MayQuit == setting.mayQuit
SeesUnreaped == setting.seesUnreaped

Init ==
    /\ setting \in Settings
    /\ mu = Nobody /\ harnessMu = Nobody
    /\ sim = 0 /\ scratchDir = 0 /\ game = 0
    /\ pc = [c \in Callers |-> "idle"]
    /\ job = [c \in Callers |-> 0]
    /\ shot = [c \in Callers |-> 0]
    /\ launches = 0
    /\ gameOf \in [Launches -> Games]
    /\ proc = [n \in Launches |-> "none"]
    /\ drained = [n \in Launches |-> FALSE]
    /\ dir = [n \in Launches |-> FALSE]
    /\ pic = [n \in Launches |-> 0]
    /\ outcome = [n \in Launches |-> "none"]
    /\ mail = [g \in Games |-> 0] /\ answer = [g \in Games |-> 0]
    /\ shots = 0
    /\ unwritten = {}
    /\ image = [k \in Shots |-> 0]

Goto(c, from, to) == pc[c] = from /\ pc' = [pc EXCEPT ![c] = to]

-----------------------------------------------------------------------------
(* launch_simulator                                                        *)

NothingUnderWay ==
    sim = 0 /\ \A d \in Callers : pc[d] \in {"idle", "asked", "base", "read"}

(* newScratchDir.                                                          *)
LaunchScratch(c) ==
    /\ "launch" \in Tools
    /\ LaunchesOverRunning \/ NothingUnderWay
    /\ launches < setting.maxLaunches
    /\ Goto(c, "idle", "start")
    /\ launches' = launches + 1
    /\ job' = [job EXCEPT ![c] = launches']
    /\ dir' = [dir EXCEPT ![launches'] = TRUE]
    /\ UNCHANGED <<serverVars, shot, gameOf, proc, drained, pic, outcome, mailVars>>

(* Mutant: a failed launch leaves its scratch directory behind.            *)
LaunchFails_Leaks(c) ==
    /\ pc' = [pc EXCEPT ![c] = "idle"]
    /\ outcome' = [outcome EXCEPT ![job[c]] = "failed"]
    /\ UNCHANGED dir

(* The launch failed: its scratch directory goes, the server's fields stay.*)
LaunchFails(c) ==
    /\ pc' = [pc EXCEPT ![c] = "idle"]
    /\ dir' = [dir EXCEPT ![job[c]] = FALSE]
    /\ outcome' = [outcome EXCEPT ![job[c]] = "failed"]

LaunchStart(c) ==
    /\ pc[c] = "start"
    /\ \/ /\ Goto(c, "start", "grace")
          /\ proc' = [proc EXCEPT ![job[c]] = "alive"]
          /\ UNCHANGED <<dir, outcome>>
       \/ /\ LaunchFails(c)
          /\ UNCHANGED proc
    /\ UNCHANGED <<serverVars, job, shot, launches, gameOf, drained, pic, mailVars>>

(* Simulator.Exited.                                                       *)
Exited(n) == SeesUnreaped /\ proc[n] = "dead"

(* After startupGrace: a Simulator seen to have quit is waited for.        *)
LaunchGrace(c) ==
    /\ pc[c] = "grace"
    /\ IF Exited(job[c])
       THEN /\ LaunchFails(c)
            /\ proc' = [proc EXCEPT ![job[c]] = "reaped"]
            /\ drained' = [drained EXCEPT ![job[c]] = TRUE]
       ELSE /\ Goto(c, "grace", "record")
            /\ UNCHANGED <<dir, proc, drained, outcome>>
    /\ UNCHANGED <<serverVars, job, shot, launches, gameOf, pic, mailVars>>

LaunchRecord(c) ==
    /\ mu = Nobody
    /\ Goto(c, "record", "idle")
    /\ sim' = job[c] /\ scratchDir' = job[c] /\ game' = job[c]
    /\ outcome' = [outcome EXCEPT ![job[c]] = "ok"]
    /\ UNCHANGED <<mu, harnessMu, job, shot, launches, gameOf, proc, drained,
                   dir, pic, mailVars>>

-----------------------------------------------------------------------------
(* stop_simulator                                                          *)

(* Mutant: a signal the Simulator ignores.                                 *)
Killed_Ignored(n) == proc

Killed(n) == [proc EXCEPT ![n] = IF @ = "alive" THEN "dead" ELSE @]

StopSteps == {"kill", "wait", "drain", "forget"}

Stopping == StopSteps \cup {"rewait", "redrain"}

MayStop == StopsOverlap \/ \A d \in Callers : pc[d] \notin Stopping

(* Mutant: the scratch directory goes before the Simulator does.           *)
StopRead_ClearsFirst(c) ==
    /\ "stop" \in Tools /\ MayStop
    /\ mu = Nobody /\ sim # 0
    /\ Goto(c, "idle", "kill")
    /\ job' = [job EXCEPT ![c] = sim]
    /\ dir' = [n \in Launches |-> dir[n] /\ n # scratchDir]
    /\ scratchDir' = 0
    /\ UNCHANGED <<mu, harnessMu, sim, game, shot, launches, gameOf, proc,
                   drained, pic, outcome, mailVars>>

(* With no Simulator recorded the tool says so and changes nothing.        *)
StopRead(c) ==
    /\ "stop" \in Tools /\ MayStop
    /\ mu = Nobody /\ sim # 0
    /\ Goto(c, "idle", "kill")
    /\ job' = [job EXCEPT ![c] = sim]
    /\ UNCHANGED <<serverVars, shot, osVars, mailVars>>

StopKill(c) ==
    /\ Goto(c, "kill", "wait")
    /\ proc' = Killed(job[c])
    /\ UNCHANGED <<serverVars, job, shot, launches, gameOf, drained, dir, pic, outcome,
                   mailVars>>

(* exec.Cmd.Wait, first half: the process is gone.  The call goes on to    *)
(* collect the result of the goroutine that copies the output, unless that *)
(* has been collected, or the process was reaped before Wait was called.   *)
Reap(c, from, drain, after) ==
    /\ pc[c] = from
    /\ proc[job[c]] \in {"dead", "reaped"}
    /\ proc' = [proc EXCEPT ![job[c]] = "reaped"]
    /\ \/ ~drained[job[c]] /\ Goto(c, from, drain)
       \/ (drained[job[c]] \/ proc[job[c]] = "reaped") /\ Goto(c, from, after)

(* exec.Cmd.Wait, second half: there is one result, for one call of Wait.  *)
Drain(c, from, after) ==
    /\ Goto(c, from, after)
    /\ ~drained[job[c]]
    /\ drained' = [drained EXCEPT ![job[c]] = TRUE]

StopWait(c) ==
    /\ Reap(c, "wait", "drain", "forget")
    /\ UNCHANGED <<serverVars, job, shot, launches, gameOf, drained, dir, pic, outcome,
                   mailVars>>

StopDrain(c) ==
    /\ Drain(c, "drain", "forget")
    /\ UNCHANGED <<serverVars, job, shot, launches, gameOf, proc, dir, pic, outcome, mailVars>>

(* Mutant: the field is cleared, the directory is not removed.             *)
Cleared_FieldOnly == dir

(* clearScratchLocked: whichever directory is recorded by now is removed.  *)
Cleared == [n \in Launches |-> dir[n] /\ n # scratchDir]

StopForget(c) ==
    /\ mu = Nobody
    /\ Goto(c, "forget", "idle")
    /\ sim' = 0 /\ scratchDir' = 0
    /\ dir' = Cleared
    /\ UNCHANGED <<mu, harnessMu, game, job, shot, launches, gameOf, proc,
                   drained, pic, outcome, mailVars>>

-----------------------------------------------------------------------------
(* restart_simulator, under mu from the first step to the last             *)

MayRestart == MayStop /\ (RestartsOverStops \/ \A d \in Callers : pc[d] \notin StopSteps)

(* Mutant: mu is released while the Simulator is stopped.                  *)
RestartKill_Unlocked(c) ==
    /\ "restart" \in Tools /\ MayRestart
    /\ mu = Nobody /\ sim # 0
    /\ Goto(c, "idle", "rewait")
    /\ job' = [job EXCEPT ![c] = sim]
    /\ proc' = Killed(sim)
    /\ UNCHANGED <<serverVars, shot, launches, gameOf, drained, dir, pic, outcome, mailVars>>

RestartKill(c) ==
    /\ "restart" \in Tools /\ MayRestart
    /\ mu = Nobody /\ sim # 0
    /\ Goto(c, "idle", "rewait")
    /\ mu' = c
    /\ job' = [job EXCEPT ![c] = sim]
    /\ proc' = Killed(sim)
    /\ UNCHANGED <<harnessMu, sim, scratchDir, game, shot, launches, gameOf,
                   drained, dir, pic, outcome, mailVars>>

RestartWait(c) ==
    /\ Reap(c, "rewait", "redrain", "rescratch")
    /\ UNCHANGED <<serverVars, job, shot, launches, gameOf, drained, dir, pic, outcome,
                   mailVars>>

RestartDrain(c) ==
    /\ Drain(c, "redrain", "rescratch")
    /\ UNCHANGED <<serverVars, job, shot, launches, gameOf, proc, dir, pic, outcome, mailVars>>

(* The old Simulator is forgotten; the relaunch is of the game recorded,   *)
(* or newScratchDir fails.                                                 *)
RestartScratch(c) ==
    /\ pc[c] = "rescratch"
    /\ sim' = 0 /\ scratchDir' = 0
    /\ \/ /\ launches < setting.maxLaunches
          /\ pc' = [pc EXCEPT ![c] = "restart"]
          /\ launches' = launches + 1
          /\ job' = [job EXCEPT ![c] = launches']
          /\ gameOf' = [gameOf EXCEPT ![launches'] = gameOf[game]]
          /\ dir' = [Cleared EXCEPT ![launches'] = TRUE]
          /\ UNCHANGED mu
       \/ /\ pc' = [pc EXCEPT ![c] = "idle"]
          /\ mu' = Nobody
          /\ dir' = Cleared
          /\ UNCHANGED <<launches, job, gameOf>>
    /\ UNCHANGED <<harnessMu, game, shot, proc, drained, pic, outcome, mailVars>>

RestartStart(c) ==
    /\ pc[c] = "restart"
    /\ mu' = Nobody
    /\ \/ /\ pc' = [pc EXCEPT ![c] = "idle"]
          /\ proc' = [proc EXCEPT ![job[c]] = "alive"]
          /\ sim' = job[c] /\ scratchDir' = job[c]
          /\ outcome' = [outcome EXCEPT ![job[c]] = "ok"]
          /\ UNCHANGED dir
       \/ /\ LaunchFails(c)
          /\ UNCHANGED <<proc, sim, scratchDir>>
    /\ UNCHANGED <<harnessMu, game, job, shot, launches, gameOf, drained, pic,
                   mailVars>>

-----------------------------------------------------------------------------
(* get_screenshot of a Lua game, under harnessMu                           *)

(* Mutant: screenshots are not serialized.                                 *)
ShotAsk_NoLock(c) ==
    /\ mu = Nobody /\ sim # 0
    /\ shots < setting.maxShots
    /\ Goto(c, "idle", "asked")
    /\ shots' = shots + 1
    /\ job' = [job EXCEPT ![c] = game]
    /\ shot' = [shot EXCEPT ![c] = shots']
    /\ mail' = [mail EXCEPT ![gameOf[game]] = shots']
    /\ answer' = [answer EXCEPT ![gameOf[game]] = 0]
    /\ UNCHANGED <<serverVars, osVars, unwritten, image>>

(* The command replaces one that nobody took.                              *)
ShotAsk(c) ==
    /\ harnessMu = Nobody /\ mu = Nobody /\ sim # 0
    /\ shots < setting.maxShots
    /\ Goto(c, "idle", "asked")
    /\ harnessMu' = c
    /\ shots' = shots + 1
    /\ job' = [job EXCEPT ![c] = game]
    /\ shot' = [shot EXCEPT ![c] = shots']
    /\ mail' = [mail EXCEPT ![gameOf[game]] = shots']
    /\ answer' = [answer EXCEPT ![gameOf[game]] = 0]
    /\ UNCHANGED <<mu, sim, scratchDir, game, osVars, unwritten, image>>

(* Any live Simulator of the game takes the command, and writes the image  *)
(* where its own playdate.argv told it to.  A write that fails is answered *)
(* like one that does not.                                                 *)
SimulatorAnswers(n) ==
    LET g == gameOf[n] IN
    /\ proc[n] = "alive" /\ mail[g] # 0
    /\ mail' = [mail EXCEPT ![g] = 0]
    /\ answer' = [answer EXCEPT ![g] = mail[g]]
    /\ \/ /\ pic' = IF dir[n] THEN [pic EXCEPT ![n] = mail[g]] ELSE pic
          /\ UNCHANGED unwritten
       \/ unwritten' = unwritten \cup {mail[g]} /\ UNCHANGED pic
    /\ UNCHANGED <<serverVars, callVars, launches, gameOf, proc, drained, dir, outcome, shots,
                   image>>

(* roundTripLocked takes mu to record the version of the harness.          *)
ShotAnswered(c) ==
    /\ mu = Nobody
    /\ Goto(c, "asked", "base")
    /\ answer[gameOf[job[c]]] = shot[c]
    /\ UNCHANGED <<mu, harnessMu, sim, scratchDir, game, job, shot, osVars, mailVars>>

ShotGivesUp(c) ==
    /\ Goto(c, "asked", "idle")
    /\ harnessMu' = Nobody
    /\ UNCHANGED <<mu, sim, scratchDir, game, job, shot, osVars, mailVars>>

(* screenshotBase: the scratch directory recorded by now, if any.          *)
ShotBase(c) ==
    /\ mu = Nobody
    /\ pc[c] = "base"
    /\ IF sim # 0 /\ scratchDir # 0
       THEN /\ Goto(c, "base", "read")
            /\ job' = [job EXCEPT ![c] = scratchDir]
            /\ UNCHANGED harnessMu
       ELSE /\ Goto(c, "base", "idle")
            /\ harnessMu' = Nobody
            /\ UNCHANGED job
    /\ UNCHANGED <<mu, sim, scratchDir, game, shot, osVars, mailVars>>

(* No such directory, or no such file in it, is an error.                  *)
ShotRead(c) ==
    /\ Goto(c, "read", "idle")
    /\ harnessMu' = Nobody
    /\ image' = [image EXCEPT ![shot[c]] = IF dir[job[c]] THEN pic[job[c]] ELSE 0]
    /\ UNCHANGED <<mu, sim, scratchDir, game, job, shot, osVars, mail, answer,
                   shots, unwritten>>

-----------------------------------------------------------------------------
SimulatorQuits(n) ==
    /\ MayQuit
    /\ proc[n] = "alive"
    /\ proc' = [proc EXCEPT ![n] = "dead"]
    /\ UNCHANGED <<serverVars, callVars, launches, gameOf, drained, dir, pic, outcome, mailVars>>

(* The steps of a call that is under way.                                  *)
CallStep(c) ==
    \/ LaunchStart(c) \/ LaunchGrace(c) \/ LaunchRecord(c)
    \/ StopKill(c) \/ StopWait(c) \/ StopDrain(c) \/ StopForget(c)
    \/ RestartWait(c) \/ RestartDrain(c) \/ RestartScratch(c) \/ RestartStart(c)
    \/ ShotAnswered(c) \/ ShotGivesUp(c) \/ ShotBase(c) \/ ShotRead(c)

CallStarts(c) == LaunchScratch(c) \/ StopRead(c) \/ RestartKill(c) \/ ShotAsk(c)

Step ==
    \/ \E c \in Callers : CallStarts(c) \/ CallStep(c)
    \/ \E n \in Launches : SimulatorAnswers(n) \/ SimulatorQuits(n)

Next == Step /\ UNCHANGED setting

Spec == Init /\ [][Next]_vars

(* A goroutine that can go on does; sync.Mutex starves nobody.             *)
FairSpec == Spec /\ \A c \in Callers : SF_sessionVars(CallStep(c))

-----------------------------------------------------------------------------
TypeOK ==
    /\ setting \in Settings
    /\ mu \in Callers \cup {Nobody} /\ harnessMu \in Callers \cup {Nobody}
    /\ sim \in 0..MaxLaunches /\ scratchDir \in 0..MaxLaunches
    /\ game \in 0..MaxLaunches
    /\ pc \in [Callers -> {"idle", "start", "grace", "record", "kill", "wait", "drain",
                           "forget", "rewait", "redrain", "rescratch", "restart",
                           "asked", "base", "read"}]
    /\ job \in [Callers -> 0..MaxLaunches] /\ shot \in [Callers -> 0..MaxShots]
    /\ launches \in 0..MaxLaunches
    /\ gameOf \in [Launches -> Games]
    /\ proc \in [Launches -> {"none", "alive", "dead", "reaped"}]
    /\ drained \in [Launches -> BOOLEAN] /\ dir \in [Launches -> BOOLEAN]
    /\ pic \in [Launches -> 0..MaxShots]
    /\ outcome \in [Launches -> {"none", "failed", "ok"}]
    /\ mail \in [Games -> 0..MaxShots] /\ answer \in [Games -> 0..MaxShots]
    /\ shots \in 0..MaxShots /\ unwritten \subseteq Shots
    /\ image \in [Shots -> 0..MaxShots]

(* A client that launches when nothing runs and does not restart a         *)
(* Simulator that a stop_simulator of its own is stopping.  It may use     *)
(* both tools, one after the other, and each over itself.                  *)
Careful == ~LaunchesOverRunning /\ ~RestartsOverStops

(* The comment on restartSimulator: concurrent tool calls cannot both      *)
(* launch, so there is never a second Simulator beside the first, with     *)
(* such a client.                                                          *)
AtMostOneAlive ==
    Careful => \A m, n \in Launches : proc[m] = "alive" /\ proc[n] = "alive" => m = n

(* The Simulator the server has recorded was given the scratch directory   *)
(* the server has recorded, and that directory is there.                   *)
RecordedHasScratch ==
    mu = Nobody /\ sim # 0 => scratchDir = sim /\ dir[sim]

(* The comment on scratchDir: it is removed when the Simulator stops, so   *)
(* one that runs has the directory it was told to write screenshots into,  *)
(* with the same client.                                                   *)
ScratchWhileAlive ==
    Careful => \A n \in Launches : proc[n] = "alive" => dir[n]

(* Once no tool is at work and no Simulator is recorded, none runs and no  *)
(* scratch directory is left: launches, stops, restarts, failures and      *)
(* Simulators that quit add up to nothing, with the same client.           *)
NothingLeft ==
    Careful /\ sim = 0 /\ (\A c \in Callers : pc[c] = "idle") =>
        \A n \in Launches : proc[n] # "alive" /\ ~dir[n]

(* A launch or relaunch that reported failure leaves no process and no     *)
(* scratch directory, and is not what the server has recorded.             *)
FailedLaunchLeavesNothing ==
    \A n \in Launches : outcome[n] = "failed" =>
        proc[n] \in {"none", "reaped"} /\ ~dir[n] /\ sim # n /\ scratchDir # n

(* The comment in getScreenshot: the lock is held across the round trip    *)
(* and the file read, so nothing overwrites the image in between.  It is   *)
(* the one drawn for the call, though the Simulator may have been stopped  *)
(* or replaced between the answer and the read of the file, with the same  *)
(* client and one game.  Where the image could not be written, the call    *)
(* has none or an earlier one, never a later.                              *)
OneGame == \A m, n \in 1..launches : gameOf[m] = gameOf[n]

ScreenshotIsOwn ==
    Careful /\ OneGame =>
        \A k \in Shots : image[k] \in {0, k} \/ (k \in unwritten /\ image[k] < k)

(* Every tool call returns, whatever the other calls and the Simulator do, *)
(* as long as no two calls stop the same Simulator at once: exec.Cmd.Wait  *)
(* serves one of them.                                                     *)
CallsReturn == \A c \in Callers : ~StopsOverlap /\ pc[c] # "idle" ~> pc[c] = "idle"

(* The comment on scratchDir (server.go:101): "Removed when the Simulator  *)
(* stops."  It is not removed from one that runs, with a client that       *)
(* launches when nothing runs.                                             *)
RemovedWhenStopped ==
    [][~LaunchesOverRunning =>
        \A n \in Launches : dir[n] /\ ~dir'[n] => proc[n] # "alive"]_vars

=============================================================================
