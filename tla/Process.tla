------------------------------- MODULE Process -------------------------------
(***************************************************************************)
(* The Simulator as a child process (internal/simulator), and the two ways *)
(* it is used: the tools stop it and wait for it from concurrent calls,    *)
(* the doctor (internal/doctor/launch.go) starts it to see that it stays   *)
(* up.                                                                     *)
(*                                                                         *)
(* What is stopped is a tree: the Simulator and a descendant it starts.    *)
(* On Unix they are a process group, which a signal reaches as long as it  *)
(* has a member; on Windows a job object, which ends them when it is       *)
(* terminated and when its handle is closed.  Wait collects the Simulator, *)
(* then its output, to which a descendant may hold the pipe, and releases  *)
(* the control last.  What had the process id, or the value of the handle, *)
(* may afterwards be somebody else's.                                      *)
(***************************************************************************)

CONSTANT Settings       \* the platforms, clients and failures considered

Setting == [
    windows : BOOLEAN,
    client : {"tools", "doctor"},
    fails : SUBSET {"launch", "stop"}]   \* the operations that can fail

ASSUME SettingsAssumption == Settings \subseteq Setting

VARIABLES
    setting,
    (* the operating system *)
    leader,     \* the Simulator
    child,      \* its descendant
    holds,      \* the descendant holds the output pipe
    tied,       \* the descendant is in the group, or in the job
    inJob,      \* the Simulator is
    job,        \* the handle of the job object
    stranger,   \* who has the process group id, or the handle value, after them
    (* Launch and Wait *)
    lpc, wpc,
    (* processControl *)
    stopped, released,
    (* doctor.Launch *)
    dpc,
    done,       \* what its channel holds
    verdict

treeVars == <<leader, child, holds, tied, inJob, job, stranger>>
controlVars == <<stopped, released>>
doctorVars == <<dpc, done, verdict>>
processVars == <<treeVars, controlVars, doctorVars, lpc, wpc>>
vars == <<setting, processVars>>

Windows == setting.windows
Doctor == setting.client = "doctor"
MayFail(operation) == operation \in setting.fails

Init ==
    /\ setting \in Settings
    /\ leader = "none" /\ child = "none" /\ holds = FALSE /\ tied = FALSE
    /\ inJob = FALSE /\ job = "none" /\ stranger = "none"
    /\ lpc = "start" /\ wpc = "idle"
    /\ stopped = FALSE /\ released = FALSE
    /\ dpc = "idle" /\ done = "empty" /\ verdict = "none"

LeaderAlive == leader \in {"suspended", "running"}
TreeAlive == LeaderAlive \/ child = "running"
PipeOpen == LeaderAlive \/ (child = "running" /\ holds)

KillLeader == leader' = IF LeaderAlive THEN "zombie" ELSE leader
KillTied == child' = IF child = "running" /\ tied THEN "gone" ELSE child

(* The end of a job: all that was assigned to it ends.                     *)
EndJob ==
    /\ KillTied
    /\ IF inJob THEN KillLeader ELSE UNCHANGED leader

CloseJob == job' = "closed" /\ EndJob

-----------------------------------------------------------------------------
(* Launch and attachProcess.                                               *)

LGoto(from, to) == lpc = from /\ lpc' = to

(* Mutant: the process is not suspended until it is in the job.            *)
Started_Running == "running"

Started == IF Windows THEN "suspended" ELSE "running"

StartCommand ==
    /\ \/ LGoto("start", IF Windows THEN "job" ELSE "up") /\ leader' = Started
       \/ MayFail("launch") /\ LGoto("start", "failed") /\ UNCHANGED leader
    /\ UNCHANGED <<child, holds, tied, inJob, job, stranger, wpc, controlVars, doctorVars>>

(* CreateJobObject, and the limit that ends the job with its handle.       *)
CreateJob ==
    /\ \/ LGoto("job", "assign") /\ job' = "open"
       \/ MayFail("launch") /\ LGoto("job", "kill") /\ job' \in {"none", "closed"}
    /\ UNCHANGED <<leader, child, holds, tied, inJob, stranger, wpc, controlVars, doctorVars>>

AssignJob ==
    /\ \/ LGoto("assign", "resume") /\ inJob' = TRUE /\ UNCHANGED <<job, leader, child>>
       \/ MayFail("launch") /\ LGoto("assign", "kill") /\ CloseJob /\ UNCHANGED inJob
    /\ UNCHANGED <<holds, tied, stranger, wpc, controlVars, doctorVars>>

ResumeThread ==
    /\ \/ /\ LGoto("resume", "up")
          /\ leader' = IF leader = "suspended" THEN "running" ELSE leader
          /\ UNCHANGED <<job, child>>
       \/ MayFail("launch") /\ LGoto("resume", "kill") /\ CloseJob
    /\ UNCHANGED <<holds, tied, inJob, stranger, wpc, controlVars, doctorVars>>

(* Launch gives up: cmd.Process.Kill and cmd.Wait.                         *)
KillFailed ==
    /\ LGoto("kill", "reap")
    /\ KillLeader
    /\ UNCHANGED <<child, holds, tied, inJob, job, stranger, wpc, controlVars, doctorVars>>

ReapFailed ==
    /\ LGoto("reap", "failed")
    /\ leader = "zombie" /\ ~PipeOpen
    /\ leader' = "reaped"
    /\ UNCHANGED <<child, holds, tied, inJob, job, stranger, wpc, controlVars, doctorVars>>

-----------------------------------------------------------------------------
(* Stop: processControl.stop and its stopFunc.                             *)

GroupAlive == leader \in {"running", "zombie"} \/ (child = "running" /\ tied)

(* Mutant: only the Simulator is killed.                                   *)
KillGroup_LeaderOnly == KillLeader /\ UNCHANGED child

(* kill(-pid, SIGKILL).                                                    *)
KillGroup == KillLeader /\ KillTied

Reaches(ours) == IF ours THEN UNCHANGED stranger
                 ELSE stranger = "alive" /\ stranger' = "killed"

(* A group or a handle that is nobody's is an error, and so may a group be *)
(* that only has a process nobody has waited for yet.                      *)
NothingReached ==
    IF Windows THEN job # "open"
    ELSE ~GroupAlive \/ (leader = "zombie" /\ child # "running")

StopFunc(ok) ==
    IF ok
    THEN IF Windows
         THEN /\ Reaches(job = "open")
              /\ IF job = "open" THEN EndJob ELSE UNCHANGED <<leader, child>>
         ELSE /\ Reaches(GroupAlive)
              /\ IF GroupAlive THEN KillGroup ELSE UNCHANGED <<leader, child>>
    ELSE /\ \/ MayFail("stop")
            \/ stranger # "alive" /\ NothingReached
         /\ UNCHANGED <<leader, child, stranger>>

(* Mutant: a release does not keep a later stop from its stopFunc.         *)
ControlStop_Released(ok) ==
    IF stopped
    THEN ok /\ UNCHANGED <<leader, child, stranger, stopped>>
    ELSE StopFunc(ok) /\ stopped' = ok

ControlStop(ok) ==
    IF released \/ stopped
    THEN ok /\ UNCHANGED <<leader, child, stranger, stopped>>
    ELSE StopFunc(ok) /\ stopped' = ok

(* The tools ignore what Stop returns.                                     *)
ToolStops ==
    /\ ~Doctor /\ lpc = "up"
    /\ \E ok \in BOOLEAN : ControlStop(ok)
    /\ UNCHANGED <<holds, tied, inJob, job, lpc, wpc, released, doctorVars>>

-----------------------------------------------------------------------------
(* Wait: cmd.Wait, which collects the process and then the output, and     *)
(* processControl.release.                                                 *)

WGoto(from, to) == wpc = from /\ wpc' = to

ToolWaits ==
    /\ ~Doctor /\ lpc = "up"
    /\ WGoto("idle", "reap")
    /\ UNCHANGED <<treeVars, lpc, controlVars, doctorVars>>

Reap ==
    /\ WGoto("reap", "drain")
    /\ leader = "zombie" /\ leader' = "reaped"
    /\ UNCHANGED <<child, holds, tied, inJob, job, stranger, lpc, controlVars, doctorVars>>

Drain ==
    /\ WGoto("drain", "release")
    /\ ~PipeOpen
    /\ UNCHANGED <<treeVars, lpc, controlVars, doctorVars>>

ReleaseFunc ==
    IF Windows THEN CloseJob ELSE UNCHANGED <<leader, child, job>>

Release ==
    /\ WGoto("release", IF Doctor THEN "send" ELSE "done")
    /\ released' = TRUE
    /\ ReleaseFunc
    /\ UNCHANGED <<holds, tied, inJob, stranger, lpc, stopped, doctorVars>>

-----------------------------------------------------------------------------
(* doctor.Launch                                                           *)

DGoto(from, to) == dpc = from /\ dpc' = to
Return(v) == dpc' = "returned" /\ verdict' = v

(* A goroutine waits for the Simulator and sends what Wait returned.       *)
DoctorLaunched ==
    /\ Doctor /\ lpc = "up"
    /\ DGoto("idle", "settle")
    /\ WGoto("idle", "reap")
    /\ UNCHANGED <<treeVars, lpc, controlVars, done, verdict>>

(* Mutant: a channel without a buffer, which nobody may be reading.        *)
Buffered_Not == dpc \in {"settle", "giveup", "drain"}

(* The channel has room for the one answer.                                *)
Buffered == done = "empty"

SendDone ==
    /\ Buffered
    /\ WGoto("send", "done")
    /\ done' = "full"
    /\ UNCHANGED <<treeVars, lpc, controlVars, dpc, verdict>>

ReceiveDone == done = "full" /\ done' = "empty"

ExitedEarly ==
    /\ dpc = "settle" /\ ReceiveDone
    /\ Return("early")
    /\ UNCHANGED <<treeVars, lpc, wpc, controlVars>>

(* launchSettle has passed.                                                *)
SettledStop ==
    /\ \E ok \in BOOLEAN :
         ControlStop(ok) /\ DGoto("settle", IF ok THEN "drain" ELSE "giveup")
    /\ UNCHANGED <<holds, tied, inJob, job, lpc, wpc, released, done, verdict>>

(* The answer after all, or reapGiveUp has passed.                         *)
StopFailed ==
    /\ dpc = "giveup"
    /\ ReceiveDone \/ UNCHANGED done
    /\ Return("stuck")
    /\ UNCHANGED <<treeVars, lpc, wpc, controlVars>>

CheckOutput ==
    /\ dpc = "drain" /\ ReceiveDone
    /\ Return("checked")
    /\ UNCHANGED <<treeVars, lpc, wpc, controlVars>>

-----------------------------------------------------------------------------
(* The processes.                                                          *)

(* A descendant is in the group or the job that the Simulator is in.       *)
SpawnChild ==
    /\ leader = "running" /\ child = "none"
    /\ child' = "running"
    /\ holds' \in BOOLEAN
    /\ tied' = (Windows => inJob)
    /\ UNCHANGED <<leader, inJob, job, stranger, lpc, wpc, controlVars, doctorVars>>

ChildExits ==
    /\ child = "running" /\ child' = "gone"
    /\ UNCHANGED <<leader, holds, tied, inJob, job, stranger, lpc, wpc, controlVars, doctorVars>>

LeaderExits ==
    /\ leader = "running" /\ leader' = "zombie"
    /\ UNCHANGED <<child, holds, tied, inJob, job, stranger, lpc, wpc, controlVars, doctorVars>>

(* The number is given out again.                                          *)
Reuse ==
    /\ stranger = "none" /\ lpc = "up"
    /\ IF Windows THEN job = "closed" ELSE leader = "reaped" /\ ~GroupAlive
    /\ stranger' = "alive"
    /\ UNCHANGED <<leader, child, holds, tied, inJob, job, lpc, wpc, controlVars, doctorVars>>

-----------------------------------------------------------------------------
LaunchStep ==
    StartCommand \/ CreateJob \/ AssignJob \/ ResumeThread \/ KillFailed \/ ReapFailed
WaitStep == Reap \/ Drain \/ Release \/ SendDone
DoctorStep == DoctorLaunched \/ ExitedEarly \/ SettledStop \/ StopFailed \/ CheckOutput

Step ==
    \/ LaunchStep \/ WaitStep \/ DoctorStep
    \/ ToolStops \/ ToolWaits
    \/ SpawnChild \/ ChildExits \/ LeaderExits \/ Reuse

Next == Step /\ UNCHANGED setting

Spec == Init /\ [][Next]_vars

(* A goroutine that can go on does, and timers fire.  Nothing makes the    *)
(* Simulator or its descendant end, or a tool call stop or wait.           *)
FairSpec ==
    /\ Spec
    /\ WF_processVars(LaunchStep) /\ WF_processVars(WaitStep) /\ WF_processVars(DoctorStep)

-----------------------------------------------------------------------------
TypeOK ==
    /\ setting \in Settings
    /\ leader \in {"none", "suspended", "running", "zombie", "reaped"}
    /\ child \in {"none", "running", "gone"}
    /\ holds \in BOOLEAN /\ tied \in BOOLEAN /\ inJob \in BOOLEAN
    /\ job \in {"none", "open", "closed"}
    /\ stranger \in {"none", "alive", "killed"}
    /\ lpc \in {"start", "job", "assign", "resume", "kill", "reap", "up", "failed"}
    /\ wpc \in {"idle", "reap", "drain", "release", "send", "done"}
    /\ stopped \in BOOLEAN /\ released \in BOOLEAN
    /\ dpc \in {"idle", "settle", "giveup", "drain", "returned"}
    /\ done \in {"empty", "full"}
    /\ verdict \in {"none", "early", "stuck", "checked"}

Waited == wpc \in {"send", "done"}

(* A launch that fails, wherever in the set-up of the process control,     *)
(* leaves no process, started or suspended, and no open job.               *)
FailedLaunchLeavesNothing ==
    lpc = "failed" => ~TreeAlive /\ leader # "zombie" /\ job # "open"

(* After a Stop that succeeded the whole tree is gone, the descendant of a *)
(* Simulator that quit before included.  On Windows it is, without any     *)
(* Stop, once Wait has returned.                                           *)
NothingOutlives ==
    stopped \/ (Windows /\ Waited) => ~TreeAlive

(* A Stop that comes after Wait has returned, from a call that still has   *)
(* the Simulator, ends nobody else who has been given the number since.    *)
StrangerSpared ==
    [][stranger = "alive" /\ stranger' = "killed" => ~Waited]_vars

(* Launch returns.  The doctor does too, though a stop may fail and the    *)
(* Simulator may stay up; and its goroutine ends with the Simulator, even  *)
(* when nobody is left to take its answer.                                 *)
DoctorReturns ==
    /\ lpc = "start" ~> lpc \in {"up", "failed"}
    /\ Doctor /\ lpc = "up" ~> dpc = "returned"
    /\ wpc = "reap" /\ leader = "zombie" /\ ~PipeOpen ~> wpc = "done"
=============================================================================
