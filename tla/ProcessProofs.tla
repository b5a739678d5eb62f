--------------------------- MODULE ProcessProofs ----------------------------
(***************************************************************************)
(* Theorems about Process for either platform and client, whatever fails.  *)
(***************************************************************************)
EXTENDS Process, TLAPS

LEMMA TypeInit == Init => TypeOK
  BY DEF Init, TypeOK

LEMMA TypeStep == TypeOK /\ [Next]_vars => TypeOK'
  <1> SUFFICES ASSUME TypeOK, [Next]_vars PROVE TypeOK'
    OBVIOUS
  <1>1. CASE UNCHANGED vars
    BY <1>1 DEF TypeOK, vars, processVars, treeVars, controlVars, doctorVars
  <1> SUFFICES ASSUME Step, UNCHANGED setting PROVE TypeOK'
    BY <1>1 DEF Next
  <1> USE DEF TypeOK
  <1>2. CASE LaunchStep
    BY <1>2 DEF LaunchStep, StartCommand, CreateJob, AssignJob, ResumeThread, KillFailed,
       ReapFailed, Started, CloseJob, EndJob, KillTied, KillLeader, LGoto, controlVars, doctorVars
  <1>3. CASE WaitStep
    BY <1>3 DEF WaitStep, Reap, Drain, Release, SendDone, ReleaseFunc, CloseJob, EndJob, KillTied,
       KillLeader, WGoto, treeVars, controlVars, doctorVars
  <1>4. ASSUME NEW ok \in BOOLEAN, ControlStop(ok)
        PROVE  /\ leader' \in {leader, "zombie"} /\ child' \in {child, "gone"}
               /\ stranger' \in {stranger, "killed"} /\ stopped' \in {stopped, ok}
    BY <1>4 DEF ControlStop, StopFunc, Reaches, EndJob, KillGroup, KillTied, KillLeader
  <1>5. CASE ToolStops \/ SettledStop
    <2>1. PICK ok \in BOOLEAN : ControlStop(ok)
      BY <1>5 DEF ToolStops, SettledStop
    <2>2. stopped' \in BOOLEAN
      BY <2>1, <1>4
    <2> QED
      BY <1>5, <2>1, <2>2, <1>4 DEF ToolStops, SettledStop, DGoto, doctorVars
  <1>6. CASE DoctorLaunched \/ ExitedEarly \/ StopFailed \/ CheckOutput \/ ToolWaits
    BY <1>6 DEF DoctorLaunched, ExitedEarly, StopFailed, CheckOutput, ToolWaits, ReceiveDone,
       Return, DGoto, WGoto, treeVars, controlVars, doctorVars
  <1>7. CASE SpawnChild
    <2>1. tied' \in BOOLEAN
      BY <1>7 DEF SpawnChild
    <2> QED
      BY <1>7, <2>1 DEF SpawnChild, controlVars, doctorVars
  <1>8. CASE ChildExits \/ LeaderExits \/ Reuse
    BY <1>8 DEF ChildExits, LeaderExits, Reuse, controlVars, doctorVars
  <1> QED
    BY <1>2, <1>3, <1>5, <1>6, <1>7, <1>8 DEF Step, DoctorStep

(* The places of every thread and the states of every process are those    *)
(* the steps know how to go on from.                                       *)
THEOREM TypeCorrect == Spec => []TypeOK
  BY TypeInit, TypeStep, PTL DEF Spec

-----------------------------------------------------------------------------
(* How far the set-up has got says what there is.  Until it is done nobody *)
(* stops, waits or spawns.                                                 *)
SetUp ==
    /\ lpc = "start" => leader = "none" /\ job = "none"
    /\ lpc \in {"job", "assign", "resume"} => Windows /\ leader = "suspended"
    /\ lpc \in {"assign", "resume"} => job = "open"
    /\ lpc = "resume" => inJob
    /\ lpc = "kill" => leader \in {"suspended", "zombie"} /\ job # "open"
    /\ lpc = "reap" => leader = "zombie" /\ job # "open"
    /\ lpc = "failed" => leader \in {"none", "reaped"} /\ job # "open"
    /\ lpc # "up" => child = "none" /\ wpc = "idle" /\ dpc = "idle" /\ ~stopped

(* A Simulator that is up is in its group or job with all it has started,  *)
(* and a closed job has ended them.                                        *)
Tied ==
    lpc = "up" =>
        /\ leader \in {"running", "zombie", "reaped"}
        /\ child = "running" => tied
        /\ Windows => inJob /\ job \in {"open", "closed"}
        /\ Windows /\ job = "closed" => ~TreeAlive
        /\ stopped => ~TreeAlive

Collected == Waited => released /\ (Windows => job = "closed")

LaunchPlaces ==
    lpc \in {"start", "job", "assign", "resume", "kill", "reap", "up", "failed"}

TreeInv == LaunchPlaces /\ SetUp /\ Tied /\ Collected

LEMMA TreeInit == Init => TreeInv
  BY DEF Init, TreeInv, LaunchPlaces, SetUp, Tied, Collected, Waited

(* One step of Launch.                                                     *)
LEMMA TreeLaunch ==
  ASSUME TreeInv, LaunchStep, UNCHANGED setting
  PROVE  TreeInv'
  <1> USE DEF TreeInv, LaunchPlaces, SetUp, Tied, Collected, Waited, Windows, TreeAlive, LeaderAlive, LGoto,
              controlVars, doctorVars
  <1>1. CASE StartCommand
    BY <1>1 DEF StartCommand, Started
  <1>2. CASE CreateJob
    BY <1>2 DEF CreateJob
  <1>3. CASE AssignJob
    BY <1>3 DEF AssignJob, CloseJob, EndJob, KillTied, KillLeader
  <1>4. CASE ResumeThread
    BY <1>4 DEF ResumeThread, CloseJob, EndJob, KillTied, KillLeader
  <1>5. CASE KillFailed
    BY <1>5 DEF KillFailed, KillLeader
  <1>6. CASE ReapFailed
    BY <1>6 DEF ReapFailed
  <1> QED
    BY <1>1, <1>2, <1>3, <1>4, <1>5, <1>6 DEF LaunchStep

(* A stop of a Simulator that is up.                                       *)
LEMMA TreeStop ==
  ASSUME TreeInv, lpc = "up", NEW ok \in BOOLEAN, ControlStop(ok),
         UNCHANGED <<setting, lpc, wpc, tied, inJob, job, released>>
  PROVE  TreeInv'
  <1> USE DEF TreeInv, LaunchPlaces, SetUp, Tied, Collected, Waited, Windows, TreeAlive, LeaderAlive,
              ControlStop
  <1>1. CASE UNCHANGED <<leader, child, stopped>>
    BY <1>1
  <1>2. CASE ok /\ ~stopped /\ Windows /\ StopFunc(ok)
    BY <1>2 DEF StopFunc, EndJob, KillTied, KillLeader
  <1>3. CASE ok /\ ~stopped /\ ~Windows /\ StopFunc(ok)
    BY <1>3 DEF StopFunc, GroupAlive, KillGroup, KillTied, KillLeader
  <1>4. CASE ~ok /\ ~stopped /\ StopFunc(ok)
    BY <1>4, <1>1 DEF StopFunc
  <1> QED
    BY <1>1, <1>2, <1>3, <1>4

LEMMA TreeStep == TreeInv /\ [Next]_vars => TreeInv'
  <1> SUFFICES ASSUME TreeInv, [Next]_vars PROVE TreeInv'
    OBVIOUS
  <1>1. CASE UNCHANGED vars
    BY <1>1 DEF TreeInv, LaunchPlaces, SetUp, Tied, Collected, Waited, Windows, TreeAlive, LeaderAlive, vars,
       processVars, treeVars, controlVars, doctorVars
  <1> SUFFICES ASSUME Step, UNCHANGED setting PROVE TreeInv'
    BY <1>1 DEF Next
  <1>2. CASE LaunchStep
    BY <1>2, TreeLaunch
  <1>3. CASE ToolStops
    <2>1. PICK ok \in BOOLEAN : ControlStop(ok)
      BY <1>3 DEF ToolStops
    <2> QED
      BY <1>3, <2>1, TreeStop DEF ToolStops
  <1>4. CASE SettledStop
    <2>1. PICK ok \in BOOLEAN : ControlStop(ok)
      BY <1>4 DEF SettledStop
    <2>2. lpc = "up"
      BY <1>4 DEF SettledStop, DGoto, TreeInv, SetUp
    <2> QED
      BY <1>4, <2>1, <2>2, TreeStop DEF SettledStop
  <1>5. CASE WaitStep
    <2>1. CASE Reap \/ Drain \/ SendDone
      BY <2>1 DEF Reap, Drain, SendDone, WGoto, TreeInv, LaunchPlaces, SetUp, Tied, Collected, Waited, Windows,
         TreeAlive, LeaderAlive, treeVars, controlVars, doctorVars
    <2>2. CASE Release
      BY <2>2 DEF Release, ReleaseFunc, CloseJob, EndJob, KillTied, KillLeader, WGoto, TreeInv,
         LaunchPlaces, SetUp, Tied, Collected, Waited, Windows, TreeAlive, LeaderAlive, doctorVars
    <2> QED
      BY <1>5, <2>1, <2>2 DEF WaitStep
  <1>6. CASE DoctorLaunched \/ ToolWaits
    BY <1>6 DEF DoctorLaunched, ToolWaits, DGoto, WGoto, TreeInv, LaunchPlaces, SetUp, Tied, Collected, Waited,
       Windows, TreeAlive, LeaderAlive, treeVars, controlVars, doctorVars
  <1>7. CASE ExitedEarly \/ StopFailed \/ CheckOutput
    BY <1>7 DEF ExitedEarly, StopFailed, CheckOutput, Return, TreeInv, LaunchPlaces, SetUp, Tied, Collected,
       Waited, Windows, TreeAlive, LeaderAlive, treeVars, controlVars
  <1>8. CASE SpawnChild
    <2>1. lpc = "up"
      BY <1>8 DEF SpawnChild, TreeInv, LaunchPlaces, SetUp
    <2>2. TreeAlive /\ ~stopped /\ ~(Windows /\ Waited) /\ tied'
      BY <1>8, <2>1 DEF SpawnChild, TreeInv, Tied, Collected, TreeAlive, LeaderAlive, Windows
    <2> QED
      BY <1>8, <2>1, <2>2 DEF SpawnChild, TreeInv, LaunchPlaces, SetUp, Tied, Collected, Waited, Windows,
         TreeAlive, LeaderAlive, controlVars, doctorVars
  <1>9. CASE ChildExits \/ LeaderExits \/ Reuse
    BY <1>9 DEF ChildExits, LeaderExits, Reuse, TreeInv, LaunchPlaces, SetUp, Tied, Collected,
       Waited, Windows, TreeAlive, LeaderAlive, controlVars, doctorVars
  <1> QED
    BY <1>2, <1>3, <1>4, <1>5, <1>6, <1>7, <1>8, <1>9 DEF Step, DoctorStep

(* A launch that fails leaves nothing, at whichever step it does.          *)
THEOREM FailedLaunchCorrect == Spec => []FailedLaunchLeavesNothing
  <1>1. TreeInv => FailedLaunchLeavesNothing
    BY DEF TreeInv, SetUp, FailedLaunchLeavesNothing, TreeAlive, LeaderAlive
  <1> QED
    BY <1>1, TreeInit, TreeStep, PTL DEF Spec

(* A stop that succeeds ends the whole tree, and on Windows so does the    *)
(* end of Wait.                                                            *)
THEOREM NothingOutlivesCorrect == Spec => []NothingOutlives
  <1>1. TreeInv => NothingOutlives
    BY DEF TreeInv, SetUp, Tied, Collected, Waited, NothingOutlives
  <1> QED
    BY <1>1, TreeInit, TreeStep, PTL DEF Spec

(* A stop that comes after Wait ends nobody who has the number since.      *)
THEOREM StrangerSparedCorrect == Spec => StrangerSpared
  <1> DEFINE Spared == stranger = "alive" /\ stranger' = "killed" => ~Waited
  <1>1. TreeInv /\ [Next]_vars => [Spared]_vars
    <2> SUFFICES ASSUME TreeInv, [Next]_vars PROVE UNCHANGED stranger \/ stranger' = "alive" \/ ~Waited
      OBVIOUS
    <2>1. CASE \E ok \in BOOLEAN : ControlStop(ok)
      BY <2>1 DEF TreeInv, Collected, ControlStop
    <2>2. CASE ToolStops \/ SettledStop
      BY <2>1, <2>2 DEF ToolStops, SettledStop
    <2>3. CASE LaunchStep
      BY <2>3 DEF LaunchStep, StartCommand, CreateJob, AssignJob, ResumeThread, KillFailed, ReapFailed
    <2>4. CASE WaitStep
      BY <2>4 DEF WaitStep, Reap, Drain, Release, SendDone, treeVars
    <2>5. CASE DoctorLaunched \/ ExitedEarly \/ StopFailed \/ CheckOutput \/ ToolWaits
      BY <2>5 DEF DoctorLaunched, ExitedEarly, StopFailed, CheckOutput, ToolWaits, treeVars
    <2>6. CASE SpawnChild \/ ChildExits \/ LeaderExits \/ Reuse
      BY <2>6 DEF SpawnChild, ChildExits, LeaderExits, Reuse
    <2>7. CASE UNCHANGED vars
      BY <2>7 DEF vars, processVars, treeVars
    <2> QED
      BY <2>2, <2>3, <2>4, <2>5, <2>6, <2>7 DEF Next, Step, DoctorStep
  <1> QED
    BY <1>1, TreeInit, TreeStep, PTL DEF Spec, StrangerSpared
=============================================================================
