--------------------------- MODULE SessionProofs ----------------------------
(***************************************************************************)
(* Theorems about Session for every number of callers, games, launches and *)
(* screenshots.                                                            *)
(***************************************************************************)
EXTENDS Session, TLAPS

(* A call that works on a launch or a screenshot has one.                  *)
AtWork ==
    /\ \A c \in Callers : pc[c] \notin {"idle", "asked", "base"} => job[c] \in Launches
    /\ \A c \in Callers : pc[c] \in {"asked", "base", "read"} => shot[c] \in Shots
    /\ sim # 0 => game # 0
    /\ \A c \in Callers : pc[c] \in {"rewait", "redrain", "rescratch", "restart"} => game # 0

TypeInv == TypeOK /\ AtWork

LEMMA TypeInit == Init => TypeInv
  <1> SUFFICES ASSUME Init PROVE TypeInv
    OBVIOUS
  <1>1. /\ 0 \in 0..MaxLaunches /\ 0 \in 0..MaxShots
    BY ConstantsAssumption
  <1>2. AtWork
    BY DEF Init, AtWork
  <1>3. TypeOK
    BY <1>1 DEF Init, TypeOK
  <1> QED
    BY <1>2, <1>3 DEF TypeInv

LEMMA Numbers ==
  ASSUME TypeOK
  PROVE  /\ launches \in Nat /\ shots \in Nat /\ MaxLaunches \in Nat /\ MaxShots \in Nat
         /\ setting.maxLaunches <= MaxLaunches /\ setting.maxLaunches \in Nat
         /\ setting.maxShots <= MaxShots /\ setting.maxShots \in Nat
         /\ \A n \in 0..MaxLaunches : n # 0 => n \in Launches
         /\ \A n \in Launches : n \in 0..MaxLaunches /\ n # 0 /\ n \in Nat
         /\ \A k \in Shots : k \in 0..MaxShots
         /\ launches < setting.maxLaunches => launches + 1 \in Launches
         /\ shots < setting.maxShots => shots + 1 \in Shots
  <1>1. setting \in Setting /\ setting.maxLaunches <= MaxLaunches /\ setting.maxShots <= MaxShots
    BY ConstantsAssumption DEF TypeOK
  <1>2. setting.maxLaunches \in Nat /\ setting.maxShots \in Nat
    BY <1>1 DEF Setting
  <1> QED
    BY <1>1, <1>2, ConstantsAssumption DEF TypeOK, Launches, Shots

LEMMA TypeLaunch ==
  ASSUME TypeInv, NEW c \in Callers, UNCHANGED setting,
         LaunchScratch(c) \/ LaunchStart(c) \/ LaunchGrace(c) \/ LaunchRecord(c)
  PROVE  TypeInv'
  <1> USE DEF TypeInv, TypeOK, AtWork, Goto, serverVars, mailVars
  <1>0. /\ \A n \in Launches : n \in 0..MaxLaunches /\ n # 0
        /\ launches < setting.maxLaunches => launches + 1 \in Launches
    BY Numbers
  <1>1. CASE LaunchScratch(c)
    BY <1>0, <1>1 DEF LaunchScratch
  <1>2. CASE LaunchStart(c)
    <2>1. job[c] \in Launches /\ UNCHANGED <<serverVars, job, shot, launches, gameOf, drained,
                                            pic, mailVars>>
      BY <1>2 DEF LaunchStart
    <2>2. CASE LaunchFails(c) /\ UNCHANGED proc
      BY <2>1, <2>2 DEF LaunchFails
    <2>3. CASE /\ Goto(c, "start", "grace") /\ proc' = [proc EXCEPT ![job[c]] = "alive"]
               /\ UNCHANGED <<dir, outcome>>
      BY <2>1, <2>3
    <2> QED
      BY <1>2, <2>2, <2>3 DEF LaunchStart
  <1>3. CASE LaunchGrace(c)
    <2>1. /\ pc' = [pc EXCEPT ![c] = pc'[c]] /\ pc'[c] \in {"idle", "record"}
          /\ UNCHANGED <<serverVars, job, shot, launches, gameOf, pic, mailVars>>
      BY <1>3 DEF LaunchGrace, LaunchFails
    <2>2. /\ proc' \in [Launches -> {"none", "alive", "dead", "reaped"}]
          /\ drained' \in [Launches -> BOOLEAN] /\ dir' \in [Launches -> BOOLEAN]
          /\ outcome' \in [Launches -> {"none", "failed", "ok"}]
          /\ pc[c] = "grace"
      BY <1>3 DEF LaunchGrace, LaunchFails
    <2> QED
      BY <2>1, <2>2
  <1>4. CASE LaunchRecord(c)
    <2>1. job[c] \in Launches /\ job[c] \in 0..MaxLaunches /\ job[c] # 0
      BY <1>0, <1>4 DEF LaunchRecord
    <2>2. outcome' \in [Launches -> {"none", "failed", "ok"}]
      BY <2>1, <1>4 DEF LaunchRecord
    <2> QED
      BY <2>1, <2>2, <1>4 DEF LaunchRecord
  <1> QED
    BY <1>1, <1>2, <1>3, <1>4

LEMMA TypeStop ==
  ASSUME TypeInv, NEW c \in Callers, UNCHANGED setting,
         StopRead(c) \/ StopKill(c) \/ StopWait(c) \/ StopDrain(c) \/ StopForget(c)
  PROVE  TypeInv'
  <1> USE DEF TypeInv, TypeOK, AtWork, Goto, serverVars, mailVars
  <1>0. \A n \in 0..MaxLaunches : n # 0 => n \in Launches
    BY Numbers
  <1>00. 0 \in 0..MaxLaunches
    BY Numbers
  <1>1. CASE StopRead(c)
    BY <1>0, <1>1 DEF StopRead, osVars
  <1>2. CASE StopKill(c)
    BY <1>2 DEF StopKill, Killed
  <1>3. CASE StopWait(c)
    BY <1>3 DEF StopWait, Reap
  <1>4. CASE StopDrain(c)
    BY <1>4 DEF StopDrain, Drain
  <1>5. CASE StopForget(c)
    BY <1>00, <1>5 DEF StopForget, Cleared
  <1> QED
    BY <1>1, <1>2, <1>3, <1>4, <1>5

LEMMA TypeRestart ==
  ASSUME TypeInv, NEW c \in Callers, UNCHANGED setting,
         RestartKill(c) \/ RestartWait(c) \/ RestartDrain(c) \/ RestartScratch(c) \/ RestartStart(c)
  PROVE  TypeInv'
  <1> USE DEF TypeInv, TypeOK, AtWork, Goto, serverVars, mailVars
  <1>0. /\ \A n \in 0..MaxLaunches : n # 0 => n \in Launches
        /\ \A n \in Launches : n \in 0..MaxLaunches /\ n # 0
        /\ launches < setting.maxLaunches => launches + 1 \in Launches
        /\ 0 \in 0..MaxLaunches
    BY Numbers
  <1>1. CASE RestartKill(c)
    BY <1>0, <1>1 DEF RestartKill, Killed
  <1>2. CASE RestartWait(c)
    BY <1>2 DEF RestartWait, Reap
  <1>3. CASE RestartDrain(c)
    BY <1>3 DEF RestartDrain, Drain
  <1>4. CASE RestartScratch(c)
    <2>1. gameOf[game] \in Games
      BY <1>0, <1>4 DEF RestartScratch
    <2>2. Cleared \in [Launches -> BOOLEAN]
      BY DEF Cleared
    <2>3. /\ launches' \in 0..MaxLaunches /\ dir' \in [Launches -> BOOLEAN]
          /\ gameOf' \in [Launches -> Games] /\ mu' \in {mu, Nobody}
          /\ job' \in [Callers -> 0..MaxLaunches]
      <3>1. CASE pc'[c] = "restart"
        <4>1. launches' \in Launches /\ launches' \in 0..MaxLaunches
          BY <1>0, <1>4, <3>1 DEF RestartScratch
        <4>2. /\ job' = [job EXCEPT ![c] = launches'] /\ UNCHANGED mu
              /\ gameOf' = [gameOf EXCEPT ![launches'] = gameOf[game]]
              /\ dir' = [Cleared EXCEPT ![launches'] = TRUE]
          BY <1>4, <3>1 DEF RestartScratch
        <4> QED
          BY <2>1, <2>2, <4>1, <4>2
      <3>2. CASE pc'[c] # "restart"
        BY <1>4, <2>2, <3>2 DEF RestartScratch
      <3> QED
        BY <3>1, <3>2
    <2>4. /\ pc' = [pc EXCEPT ![c] = pc'[c]] /\ pc'[c] \in {"idle", "restart"}
          /\ \A d \in Callers : d # c => job'[d] = job[d]
          /\ pc'[c] = "restart" => job'[c] \in Launches
      BY <1>0, <1>4 DEF RestartScratch
    <2>5. /\ sim' = 0 /\ scratchDir' = 0
          /\ UNCHANGED <<harnessMu, game, shot, proc, drained, pic, outcome, mailVars>>
      BY <1>4 DEF RestartScratch
    <2>6. TypeOK'
      BY <1>0, <2>3, <2>4, <2>5
    <2>7. game # 0
      BY <1>4 DEF RestartScratch
    <2>8. AtWork'
      BY <2>4, <2>5, <2>7
    <2> QED
      BY <2>6, <2>8
  <1>5. CASE RestartStart(c)
    <2>1. job[c] \in Launches /\ job[c] \in 0..MaxLaunches
      BY <1>0, <1>5 DEF RestartStart
    <2>2. /\ pc' = [pc EXCEPT ![c] = "idle"] /\ mu' = Nobody
          /\ UNCHANGED <<harnessMu, game, job, shot, launches, gameOf, drained, pic, mailVars>>
      BY <1>5 DEF RestartStart, LaunchFails
    <2>3. /\ sim' \in {sim, job[c]} /\ scratchDir' \in {scratchDir, job[c]}
          /\ proc' \in [Launches -> {"none", "alive", "dead", "reaped"}]
          /\ dir' \in [Launches -> BOOLEAN]
          /\ outcome' \in [Launches -> {"none", "failed", "ok"}]
      <3>1. CASE proc' = [proc EXCEPT ![job[c]] = "alive"] /\ UNCHANGED dir
                 /\ outcome' = [outcome EXCEPT ![job[c]] = "ok"]
                 /\ sim' = job[c] /\ scratchDir' = job[c]
        BY <2>1, <3>1
      <3>2. CASE LaunchFails(c) /\ UNCHANGED <<proc, sim, scratchDir>>
        BY <2>1, <3>2 DEF LaunchFails
      <3> QED
        BY <1>5, <3>1, <3>2 DEF RestartStart
    <2>4. sim' # 0 => game' # 0
      BY <1>5, <2>2 DEF RestartStart
    <2> QED
      BY <2>1, <2>2, <2>3, <2>4
  <1> QED
    BY <1>1, <1>2, <1>3, <1>4, <1>5

LEMMA TypeShot ==
  ASSUME TypeInv, NEW c \in Callers, UNCHANGED setting,
         ShotAsk(c) \/ ShotAnswered(c) \/ ShotGivesUp(c) \/ ShotBase(c) \/ ShotRead(c)
  PROVE  TypeInv'
  <1> USE DEF TypeInv, TypeOK, AtWork, Goto, osVars, mailVars
  <1>0. /\ \A n \in 0..MaxLaunches : n # 0 => n \in Launches
        /\ \A k \in Shots : k \in 0..MaxShots
        /\ shots < setting.maxShots => shots + 1 \in Shots
        /\ 0 \in 0..MaxShots
    BY Numbers
  <1>1. CASE ShotAsk(c)
    <2>1. gameOf[game] \in Games
      BY <1>0, <1>1 DEF ShotAsk
    <2> QED
      BY <1>0, <1>1, <2>1 DEF ShotAsk
  <1>2. CASE ShotAnswered(c) \/ ShotGivesUp(c)
    BY <1>2 DEF ShotAnswered, ShotGivesUp
  <1>3. CASE ShotBase(c)
    BY <1>0, <1>3 DEF ShotBase
  <1>4. CASE ShotRead(c)
    BY <1>0, <1>4 DEF ShotRead
  <1> QED
    BY <1>1, <1>2, <1>3, <1>4

LEMMA TypeStep == TypeInv /\ [Next]_vars => TypeInv'
  <1> SUFFICES ASSUME TypeInv, [Next]_vars PROVE TypeInv'
    OBVIOUS
  <1>1. CASE UNCHANGED vars
    BY <1>1 DEF TypeInv, TypeOK, AtWork, vars, sessionVars, serverVars, callVars, osVars, mailVars
  <1> SUFFICES ASSUME Step, UNCHANGED setting PROVE TypeInv'
    BY <1>1 DEF Next
  <1>2. CASE \E c \in Callers : CallStarts(c) \/ CallStep(c)
    BY <1>2, TypeLaunch, TypeStop, TypeRestart, TypeShot DEF CallStarts, CallStep
  <1>3. ASSUME NEW n \in Launches, SimulatorAnswers(n) PROVE TypeInv'
    <2>1. gameOf[n] \in Games /\ mail[gameOf[n]] \in 0..MaxShots /\ 0 \in 0..MaxShots
      BY Numbers DEF TypeInv, TypeOK
    <2>2. mail[gameOf[n]] # 0 => mail[gameOf[n]] \in Shots
      BY <2>1, Numbers DEF Shots
    <2> QED
      BY <1>3, <2>1, <2>2 DEF SimulatorAnswers, TypeInv, TypeOK, AtWork, serverVars, callVars
  <1>4. ASSUME NEW n \in Launches, SimulatorQuits(n) PROVE TypeInv'
    BY <1>4 DEF SimulatorQuits, TypeInv, TypeOK, AtWork, serverVars, callVars, mailVars
  <1> QED
    BY <1>2, <1>3, <1>4 DEF Step

(* The fields of the server, the calls and the Simulators keep their types.*)
THEOREM TypeCorrect == Spec => []TypeOK
  <1>1. TypeInv => TypeOK
    BY DEF TypeInv
  <1> QED
    BY <1>1, TypeInit, TypeStep, PTL DEF Spec

-----------------------------------------------------------------------------
Launching == {"start", "grace", "record", "restart"}

(* A launch belongs to the one call that makes it, until it is recorded or *)
(* has failed.                                                             *)
Owned ==
    /\ \A c \in Callers : pc[c] \in Launching =>
           /\ job[c] <= launches /\ outcome[job[c]] = "none"
           /\ dir[job[c]] /\ sim # job[c] /\ scratchDir # job[c]
    /\ \A c \in Callers : pc[c] \in {"start", "restart"} => proc[job[c]] = "none"
    /\ \A c, d \in Callers :
           pc[c] \in Launching /\ pc[d] \in Launching /\ job[c] = job[d] => c = d

Recorded ==
    /\ sim <= launches /\ scratchDir <= launches
    /\ sim # 0 => scratchDir = sim /\ dir[sim]
    /\ scratchDir # 0 => sim # 0

Unmade == \A n \in Launches : n > launches => proc[n] = "none" /\ outcome[n] = "none"

OwnInv == TypeInv /\ Owned /\ Recorded /\ Unmade /\ FailedLaunchLeavesNothing

LEMMA OwnInit == Init => OwnInv
  <1> SUFFICES ASSUME Init PROVE OwnInv
    OBVIOUS
  <1>1. TypeInv
    BY TypeInit
  <1>2. Owned /\ Recorded /\ Unmade /\ FailedLaunchLeavesNothing
    BY DEF Init, Owned, Launching, Recorded, Unmade, FailedLaunchLeavesNothing
  <1> QED
    BY <1>1, <1>2 DEF OwnInv

(* What the steps below need to know of types.                             *)
LEMMA OwnTypes ==
  ASSUME OwnInv
  PROVE  /\ launches \in Nat /\ sim \in Nat /\ scratchDir \in Nat
         /\ launches < setting.maxLaunches => launches + 1 \in Launches
         /\ \A n \in Launches : n \in Nat /\ n # 0
         /\ sim # 0 => sim \in Launches
         /\ \A c \in Callers : pc[c] \notin {"idle", "asked", "base"} => job[c] \in Launches
         /\ pc \in [Callers -> {"idle", "start", "grace", "record", "kill", "wait", "drain",
                                "forget", "rewait", "redrain", "rescratch", "restart", "asked",
                                "base", "read"}]
         /\ job \in [Callers -> 0..MaxLaunches]
         /\ proc \in [Launches -> {"none", "alive", "dead", "reaped"}]
         /\ dir \in [Launches -> BOOLEAN]
         /\ outcome \in [Launches -> {"none", "failed", "ok"}]
  <1>1. TypeOK
    BY DEF OwnInv, TypeInv
  <1>2. /\ launches \in Nat /\ MaxLaunches \in Nat
        /\ launches < setting.maxLaunches => launches + 1 \in Launches
        /\ \A n \in Launches : n \in Nat /\ n # 0
        /\ \A n \in 0..MaxLaunches : n # 0 => n \in Launches
    BY <1>1, Numbers
  <1>3. sim \in 0..MaxLaunches /\ scratchDir \in 0..MaxLaunches
    BY <1>1 DEF TypeOK
  <1>4. sim \in Nat /\ scratchDir \in Nat
    BY <1>2, <1>3
  <1> QED
    BY <1>1, <1>2, <1>3, <1>4 DEF OwnInv, TypeInv, TypeOK, AtWork

(* A step that neither makes nor ends a launch, nor records one.           *)
LEMMA OwnSame ==
  ASSUME OwnInv, NEW c \in Callers,
         UNCHANGED <<sim, scratchDir, launches, dir, outcome>>,
         pc[c] \notin Launching,
         pc' = [pc EXCEPT ![c] = pc'[c]], pc'[c] \notin Launching,
         \A d \in Callers : d # c => job'[d] = job[d],
         \A n \in Launches : proc'[n] = proc[n] \/ (proc[n] # "none" /\ proc'[n] = "reaped")
                                 \/ (proc[n] = "alive" /\ proc'[n] = "dead")
  PROVE  Owned' /\ Recorded' /\ Unmade' /\ FailedLaunchLeavesNothing'
  <1>1. Owned'
    BY OwnTypes DEF OwnInv, Owned, Launching
  <1>2. Recorded'
    BY DEF OwnInv, Recorded
  <1>3. Unmade' /\ FailedLaunchLeavesNothing'
    BY DEF OwnInv, Unmade, FailedLaunchLeavesNothing
  <1> QED
    BY <1>1, <1>2, <1>3

(* A launch that begins, with the recorded Simulator or without it.        *)
LEMMA OwnBegins ==
  ASSUME OwnInv, NEW c \in Callers,
         launches < setting.maxLaunches, launches' = launches + 1,
         pc' = [pc EXCEPT ![c] = pc'[c]], pc'[c] \in {"start", "restart"},
         job' = [job EXCEPT ![c] = launches'],
         dir'[launches'], UNCHANGED <<proc, outcome>>,
         \/ /\ UNCHANGED <<sim, scratchDir>>
            /\ \A n \in Launches : n # launches' => dir'[n] = dir[n]
         \/ /\ sim' = 0 /\ scratchDir' = 0
            /\ \A n \in Launches : n # launches' => dir'[n] = (dir[n] /\ n # scratchDir)
  PROVE  Owned' /\ Recorded' /\ Unmade' /\ FailedLaunchLeavesNothing'
  <1>1. launches' \in Launches /\ launches \in Nat /\ launches' > launches
    BY OwnTypes
  <1>2. proc[launches'] = "none" /\ outcome[launches'] = "none"
    BY <1>1 DEF OwnInv, Unmade
  <1>3. sim # launches' /\ scratchDir # launches' /\ sim' <= launches' /\ scratchDir' <= launches'
        /\ launches' # 0
    BY <1>1, OwnTypes DEF OwnInv, Recorded
  <1>4. \A d \in Callers : d # c /\ pc[d] \in Launching =>
            job[d] # launches' /\ job[d] <= launches' /\ dir'[job[d]]
    BY <1>1, OwnTypes DEF OwnInv, Owned, Launching
  <1>5. Owned'
    <2>1. \A d \in Callers : pc'[d] \in Launching =>
             /\ job'[d] <= launches' /\ outcome[job'[d]] = "none"
             /\ dir'[job'[d]] /\ sim' # job'[d] /\ scratchDir' # job'[d]
      BY <1>1, <1>2, <1>3, <1>4, OwnTypes DEF OwnInv, Owned, Launching
    <2>2. \A d \in Callers : pc'[d] \in {"start", "restart"} => proc[job'[d]] = "none"
      BY <1>2, OwnTypes DEF OwnInv, Owned
    <2>3. \A d, e \in Callers :
              pc'[d] \in Launching /\ pc'[e] \in Launching /\ job'[d] = job'[e] => d = e
      BY <1>4, OwnTypes DEF OwnInv, Owned, Launching
    <2> QED
      BY <2>1, <2>2, <2>3 DEF Owned
  <1>6. Recorded'
    BY <1>1, <1>3, OwnTypes DEF OwnInv, Recorded
  <1>7. Unmade'
    BY <1>1, OwnTypes DEF OwnInv, Unmade
  <1>8. FailedLaunchLeavesNothing'
    <2> SUFFICES ASSUME NEW n \in Launches, outcome[n] = "failed"
                 PROVE  proc[n] \in {"none", "reaped"} /\ ~dir'[n] /\ sim' # n /\ scratchDir' # n
      BY DEF FailedLaunchLeavesNothing
    <2>1. n # launches'
      BY <1>2
    <2>2. n # 0
      BY OwnTypes
    <2> QED
      BY <2>1, <2>2 DEF OwnInv, FailedLaunchLeavesNothing
  <1> QED
    BY <1>5, <1>6, <1>7, <1>8

(* One that fails, never started or waited for.                            *)
LEMMA OwnFails ==
  ASSUME OwnInv, NEW c \in Callers, pc[c] \in Launching, LaunchFails(c),
         UNCHANGED <<sim, scratchDir, launches, job>>,
         proc'[job[c]] \in {"none", "reaped"},
         \A n \in Launches : n # job[c] => proc'[n] = proc[n]
  PROVE  Owned' /\ Recorded' /\ Unmade' /\ FailedLaunchLeavesNothing'
  <1>1. /\ job[c] \in Launches /\ job[c] <= launches /\ sim # job[c] /\ scratchDir # job[c]
        /\ job[c] \in Nat
    BY OwnTypes DEF OwnInv, Owned, Launching
  <1>2. \A d \in Callers : d # c /\ pc[d] \in Launching =>
            job[d] # job[c] /\ job[d] \in Launches
    BY OwnTypes DEF OwnInv, Owned, Launching
  <1>3. /\ pc' = [pc EXCEPT ![c] = "idle"]
        /\ dir' = [dir EXCEPT ![job[c]] = FALSE]
        /\ outcome' = [outcome EXCEPT ![job[c]] = "failed"]
    BY DEF LaunchFails
  <1>4. Owned'
    BY <1>2, <1>3, OwnTypes DEF OwnInv, Owned, Launching
  <1>5. Recorded'
    BY <1>1, <1>3, OwnTypes DEF OwnInv, Recorded
  <1>6. Unmade'
    BY <1>1, <1>3, OwnTypes DEF OwnInv, Unmade
  <1>7. FailedLaunchLeavesNothing'
    BY <1>1, <1>3, OwnTypes DEF OwnInv, FailedLaunchLeavesNothing
  <1> QED
    BY <1>4, <1>5, <1>6, <1>7

(* One that is recorded.                                                   *)
LEMMA OwnRecords ==
  ASSUME OwnInv, NEW c \in Callers, pc[c] \in Launching,
         pc' = [pc EXCEPT ![c] = "idle"], UNCHANGED <<launches, job, dir>>,
         sim' = job[c], scratchDir' = job[c],
         outcome' = [outcome EXCEPT ![job[c]] = "ok"],
         \A n \in Launches : n # job[c] => proc'[n] = proc[n]
  PROVE  Owned' /\ Recorded' /\ Unmade' /\ FailedLaunchLeavesNothing'
  <1>1. /\ job[c] \in Launches /\ job[c] <= launches /\ dir[job[c]] /\ job[c] \in Nat
        /\ job[c] # 0
    BY OwnTypes DEF OwnInv, Owned, Launching
  <1>2. \A d \in Callers : d # c /\ pc[d] \in Launching =>
            job[d] # job[c] /\ job[d] \in Launches
    BY OwnTypes DEF OwnInv, Owned, Launching
  <1>3. Owned'
    BY <1>2, OwnTypes DEF OwnInv, Owned, Launching
  <1>4. Recorded'
    BY <1>1 DEF Recorded
  <1>5. Unmade'
    BY <1>1, OwnTypes DEF OwnInv, Unmade
  <1>6. FailedLaunchLeavesNothing'
    <2>1. outcome[job[c]] = "none"
      BY DEF OwnInv, Owned
    <2> QED
      BY <2>1, <1>1, OwnTypes DEF OwnInv, FailedLaunchLeavesNothing
  <1> QED
    BY <1>3, <1>4, <1>5, <1>6

LEMMA OwnLaunch ==
  ASSUME OwnInv, NEW c \in Callers,
         LaunchScratch(c) \/ LaunchStart(c) \/ LaunchGrace(c) \/ LaunchRecord(c)
  PROVE  Owned' /\ Recorded' /\ Unmade' /\ FailedLaunchLeavesNothing'
  <1>1. CASE LaunchScratch(c)
    <2>1. /\ launches < setting.maxLaunches /\ launches' = launches + 1
          /\ pc' = [pc EXCEPT ![c] = "start"] /\ job' = [job EXCEPT ![c] = launches']
          /\ dir' = [dir EXCEPT ![launches'] = TRUE]
          /\ UNCHANGED <<sim, scratchDir, proc, outcome>>
      BY <1>1 DEF LaunchScratch, Goto, serverVars
    <2>2. dir'[launches'] /\ \A n \in Launches : n # launches' => dir'[n] = dir[n]
      BY <2>1, OwnTypes
    <2>3. pc' = [pc EXCEPT ![c] = pc'[c]] /\ pc'[c] \in {"start", "restart"}
      BY <2>1, OwnTypes
    <2> QED
      BY <2>1, <2>2, <2>3, OwnBegins
  <1>2. CASE LaunchStart(c)
    <2>1. CASE LaunchFails(c) /\ UNCHANGED proc
      <3>1. pc[c] \in Launching /\ proc[job[c]] = "none"
        BY <1>2 DEF LaunchStart, Launching, OwnInv, Owned
      <3> QED
        BY <1>2, <2>1, <3>1, OwnFails DEF LaunchStart, serverVars
    <2>2. CASE /\ Goto(c, "start", "grace") /\ proc' = [proc EXCEPT ![job[c]] = "alive"]
               /\ UNCHANGED <<dir, outcome>>
      <3>1. /\ job[c] \in Launches /\ outcome[job[c]] = "none" /\ job[c] <= launches
            /\ pc' = [pc EXCEPT ![c] = "grace"] /\ job[c] \in Nat
            /\ UNCHANGED <<sim, scratchDir, launches, job>>
        BY <1>2, <2>2, OwnTypes DEF LaunchStart, Goto, Launching, OwnInv, Owned, serverVars
      <3>2. \A d \in Callers : d # c /\ pc[d] \in Launching => job[d] # job[c]
        BY <2>2 DEF OwnInv, Owned, Launching, Goto
      <3>3. Owned'
        BY <2>2, <3>1, <3>2, OwnTypes DEF OwnInv, Owned, Launching, Goto
      <3>4. Recorded' /\ Unmade' /\ FailedLaunchLeavesNothing'
        BY <2>2, <3>1, OwnTypes DEF OwnInv, Recorded, Unmade, FailedLaunchLeavesNothing
      <3> QED
        BY <3>3, <3>4
    <2> QED
      BY <1>2, <2>1, <2>2 DEF LaunchStart
  <1>3. CASE LaunchGrace(c)
    <2>1. CASE Exited(job[c])
      <3>1. /\ pc[c] \in Launching /\ LaunchFails(c) /\ proc' = [proc EXCEPT ![job[c]] = "reaped"]
            /\ UNCHANGED <<sim, scratchDir, launches, job>>
        BY <1>3, <2>1 DEF LaunchGrace, Launching, serverVars
      <3> QED
        BY <3>1, OwnFails, OwnTypes DEF Launching
    <2>2. CASE ~Exited(job[c])
      <3>1. /\ pc[c] = "grace" /\ pc' = [pc EXCEPT ![c] = "record"]
            /\ UNCHANGED <<sim, scratchDir, launches, job, dir, proc, outcome>>
        BY <1>3, <2>2 DEF LaunchGrace, Goto, serverVars
      <3> QED
        BY <3>1, OwnTypes DEF OwnInv, Owned, Recorded, Unmade, FailedLaunchLeavesNothing, Launching
    <2> QED
      BY <2>1, <2>2
  <1>4. CASE LaunchRecord(c)
    BY <1>4, OwnRecords DEF LaunchRecord, Goto, Launching
  <1> QED
    BY <1>1, <1>2, <1>3, <1>4

(* The recorded Simulator is forgotten, its directory goes.                *)
LEMMA OwnForgets ==
  ASSUME OwnInv, NEW c \in Callers, pc[c] \notin Launching, pc' = [pc EXCEPT ![c] = "idle"],
         UNCHANGED <<launches, job, proc, outcome>>,
         sim' = 0, scratchDir' = 0, dir' = Cleared
  PROVE  Owned' /\ Recorded' /\ Unmade' /\ FailedLaunchLeavesNothing'
  <1>1. Owned'
    BY OwnTypes DEF OwnInv, Owned, Launching, Cleared
  <1>2. Recorded' /\ Unmade'
    BY OwnTypes DEF OwnInv, Recorded, Unmade
  <1>3. FailedLaunchLeavesNothing'
    BY OwnTypes DEF OwnInv, FailedLaunchLeavesNothing, Cleared
  <1> QED
    BY <1>1, <1>2, <1>3

LEMMA OwnStop ==
  ASSUME OwnInv, NEW c \in Callers,
         StopRead(c) \/ StopKill(c) \/ StopWait(c) \/ StopDrain(c) \/ StopForget(c)
  PROVE  Owned' /\ Recorded' /\ Unmade' /\ FailedLaunchLeavesNothing'
  <1>1. CASE StopRead(c)
    BY <1>1, OwnSame, OwnTypes DEF StopRead, Goto, Launching, serverVars, osVars
  <1>2. CASE StopKill(c)
    BY <1>2, OwnSame, OwnTypes DEF StopKill, Killed, Goto, Launching, serverVars
  <1>3. CASE StopWait(c)
    BY <1>3, OwnSame, OwnTypes DEF StopWait, Reap, Goto, Launching, serverVars
  <1>4. CASE StopDrain(c)
    BY <1>4, OwnSame, OwnTypes DEF StopDrain, Drain, Goto, Launching, serverVars
  <1>5. CASE StopForget(c)
    BY <1>5, OwnForgets DEF StopForget, Goto, Launching
  <1> QED
    BY <1>1, <1>2, <1>3, <1>4, <1>5

LEMMA OwnRestart ==
  ASSUME OwnInv, NEW c \in Callers,
         RestartKill(c) \/ RestartWait(c) \/ RestartDrain(c) \/ RestartScratch(c) \/ RestartStart(c)
  PROVE  Owned' /\ Recorded' /\ Unmade' /\ FailedLaunchLeavesNothing'
  <1>1. CASE RestartKill(c)
    BY <1>1, OwnSame, OwnTypes DEF RestartKill, Killed, Goto, Launching
  <1>2. CASE RestartWait(c)
    BY <1>2, OwnSame, OwnTypes DEF RestartWait, Reap, Goto, Launching, serverVars
  <1>3. CASE RestartDrain(c)
    BY <1>3, OwnSame, OwnTypes DEF RestartDrain, Drain, Goto, Launching, serverVars
  <1>4. CASE RestartScratch(c)
    <2>1. CASE launches' = launches
      <3>1. launches \in Nat
        BY OwnTypes
      <3> QED
        BY <1>4, <2>1, <3>1, OwnForgets DEF RestartScratch, Launching
    <2>2. CASE launches' # launches
      <3>1. /\ launches < setting.maxLaunches /\ launches' = launches + 1
            /\ pc' = [pc EXCEPT ![c] = "restart"] /\ job' = [job EXCEPT ![c] = launches']
            /\ dir' = [Cleared EXCEPT ![launches'] = TRUE]
            /\ sim' = 0 /\ scratchDir' = 0 /\ UNCHANGED <<proc, outcome>>
        BY <1>4, <2>2 DEF RestartScratch
      <3>2. /\ dir'[launches']
            /\ \A n \in Launches : n # launches' => dir'[n] = (dir[n] /\ n # scratchDir)
        BY <3>1, OwnTypes DEF Cleared
      <3>3. pc' = [pc EXCEPT ![c] = pc'[c]] /\ pc'[c] \in {"start", "restart"}
        BY <3>1, OwnTypes
      <3> QED
        BY <3>1, <3>2, <3>3, OwnBegins
    <2> QED
      BY <2>1, <2>2
  <1>5. CASE RestartStart(c)
    <2>1. pc[c] \in Launching /\ proc[job[c]] = "none" /\ job[c] \in Launches
      BY <1>5, OwnTypes DEF RestartStart, Launching, OwnInv, Owned
    <2>2. CASE LaunchFails(c) /\ UNCHANGED <<proc, sim, scratchDir>>
      BY <1>5, <2>1, <2>2, OwnFails DEF RestartStart
    <2>3. CASE sim' = job[c] /\ scratchDir' = job[c] /\ UNCHANGED dir
               /\ pc' = [pc EXCEPT ![c] = "idle"]
               /\ proc' = [proc EXCEPT ![job[c]] = "alive"]
               /\ outcome' = [outcome EXCEPT ![job[c]] = "ok"]
      <3>1. \A n \in Launches : n # job[c] => proc'[n] = proc[n]
        BY <2>1, <2>3, OwnTypes
      <3>2. UNCHANGED <<launches, job>>
        BY <1>5 DEF RestartStart
      <3> QED
        BY <2>1, <2>3, <3>1, <3>2, OwnRecords
    <2> QED
      BY <1>5, <2>2, <2>3 DEF RestartStart
  <1> QED
    BY <1>1, <1>2, <1>3, <1>4, <1>5

LEMMA OwnShot ==
  ASSUME OwnInv, NEW c \in Callers,
         ShotAsk(c) \/ ShotAnswered(c) \/ ShotGivesUp(c) \/ ShotBase(c) \/ ShotRead(c)
  PROVE  Owned' /\ Recorded' /\ Unmade' /\ FailedLaunchLeavesNothing'
  BY OwnSame, OwnTypes DEF ShotAsk, ShotAnswered, ShotGivesUp, ShotBase, ShotRead, Goto, Launching,
     osVars

LEMMA OwnStep == OwnInv /\ [Next]_vars => OwnInv'
  <1> SUFFICES ASSUME OwnInv, [Next]_vars
               PROVE  Owned' /\ Recorded' /\ Unmade' /\ FailedLaunchLeavesNothing'
    BY TypeStep DEF OwnInv
  <1>1. CASE UNCHANGED vars
    BY <1>1 DEF OwnInv, Owned, Recorded, Unmade, FailedLaunchLeavesNothing, vars, sessionVars,
       serverVars, callVars, osVars
  <1>2. CASE \E c \in Callers : CallStarts(c) \/ CallStep(c)
    BY <1>2, OwnLaunch, OwnStop, OwnRestart, OwnShot DEF CallStarts, CallStep
  <1>3. ASSUME NEW n \in Launches, SimulatorAnswers(n)
        PROVE  Owned' /\ Recorded' /\ Unmade' /\ FailedLaunchLeavesNothing'
    BY <1>3 DEF SimulatorAnswers, OwnInv, Owned, Recorded, Unmade, FailedLaunchLeavesNothing,
       serverVars, callVars
  <1>4. ASSUME NEW n \in Launches, SimulatorQuits(n)
        PROVE  Owned' /\ Recorded' /\ Unmade' /\ FailedLaunchLeavesNothing'
    <2>1. /\ proc[n] = "alive" /\ proc' = [proc EXCEPT ![n] = "dead"]
          /\ UNCHANGED <<sim, scratchDir, pc, job, launches, dir, outcome>>
      BY <1>4 DEF SimulatorQuits, serverVars, callVars
    <2>2. Owned'
      BY <2>1, OwnTypes DEF OwnInv, Owned, Launching
    <2>3. Recorded' /\ Unmade' /\ FailedLaunchLeavesNothing'
      BY <2>1, OwnTypes DEF OwnInv, Recorded, Unmade, FailedLaunchLeavesNothing
    <2> QED
      BY <2>2, <2>3
  <1> QED
    BY <1>1, <1>2, <1>3, <1>4 DEF Next, Step

(* A launch or relaunch that reported failure leaves no process and no     *)
(* scratch directory, and is not what the server has recorded, whatever    *)
(* the other calls do and in whichever order the client makes them.        *)
THEOREM FailedLaunchCorrect == Spec => []FailedLaunchLeavesNothing
  <1>1. OwnInv => FailedLaunchLeavesNothing
    BY DEF OwnInv
  <1> QED
    BY <1>1, OwnInit, OwnStep, PTL DEF Spec

(* The Simulator the server has recorded was given the scratch directory   *)
(* the server has recorded, and that directory is there, though launches,  *)
(* stops and restarts overlap.                                             *)
THEOREM RecordedCorrect == Spec => []RecordedHasScratch
  <1>1. OwnInv => RecordedHasScratch
    BY DEF OwnInv, Recorded, RecordedHasScratch
  <1> QED
    BY <1>1, OwnInit, OwnStep, PTL DEF Spec

-----------------------------------------------------------------------------
(* With a careful client one call at a time launches, or the calls at work *)
(* are stops of the one Simulator recorded, or one restart.                *)
OneLaunches ==
    \A c \in Callers : pc[c] \in {"start", "grace", "record"} =>
        sim = 0 /\ \A d \in Callers : d # c => pc[d] \in {"idle", "asked", "base", "read"}

StopsAgree ==
    \A c \in Callers : pc[c] \in StopSteps => sim \in {0, job[c]}

RestartHolds ==
    \A c \in Callers : pc[c] \in {"rewait", "redrain", "rescratch", "restart"} =>
        /\ mu = c /\ sim = IF pc[c] = "restart" THEN 0 ELSE job[c]
        /\ \A d \in Callers : pc[d] \notin StopSteps

StoppedIsDead ==
    \A c \in Callers : pc[c] \in {"wait", "drain", "forget", "rewait", "redrain", "rescratch"} =>
        proc[job[c]] # "alive"

Accounted ==
    \A n \in Launches :
        /\ proc[n] = "alive" => \/ n = sim
                                \/ \E c \in Callers : pc[c] \in {"grace", "record"} /\ job[c] = n
        /\ dir[n] => \/ n = scratchDir
                     \/ \E c \in Callers : pc[c] \in Launching /\ job[c] = n

Orderly == OneLaunches /\ StopsAgree /\ RestartHolds /\ StoppedIsDead /\ Accounted

OrderlyInv == OwnInv /\ (Careful => Orderly)

LEMMA OrderlyInit == Init => OrderlyInv
  <1> SUFFICES ASSUME Init PROVE OrderlyInv
    OBVIOUS
  <1>1. OwnInv
    BY OwnInit
  <1>2. Orderly
    BY DEF Init, Orderly, OneLaunches, StopsAgree, RestartHolds, StoppedIsDead, Accounted, StopSteps
  <1> QED
    BY <1>1, <1>2 DEF OrderlyInv

(* A step of a call that is not launching and does not start to, touching  *)
(* neither what is recorded nor any directory.                             *)
LEMMA AccountedSame ==
  ASSUME OwnInv, Accounted, NEW c \in Callers,
         UNCHANGED <<sim, scratchDir, dir>>,
         pc[c] \notin Launching, pc' = [pc EXCEPT ![c] = pc'[c]],
         \A d \in Callers : d # c => job'[d] = job[d],
         \A n \in Launches : proc'[n] = "alive" => proc[n] = "alive"
  PROVE  Accounted'
  <1>1. \A d \in Callers : pc[d] \in Launching => d # c /\ pc'[d] = pc[d] /\ job'[d] = job[d]
    BY OwnTypes
  <1>2. \A n \in Launches : proc'[n] = "alive" =>
            n = sim' \/ \E d \in Callers : pc'[d] \in {"grace", "record"} /\ job'[d] = n
    BY <1>1 DEF Accounted, Launching
  <1>3. \A n \in Launches : dir'[n] =>
            n = scratchDir' \/ \E d \in Callers : pc'[d] \in Launching /\ job'[d] = n
    BY <1>1 DEF Accounted
  <1> QED
    BY <1>2, <1>3 DEF Accounted

LEMMA OrderlyLaunch ==
  ASSUME OwnInv, Orderly, ~LaunchesOverRunning, NEW c \in Callers, UNCHANGED setting,
         LaunchScratch(c) \/ LaunchStart(c) \/ LaunchGrace(c) \/ LaunchRecord(c)
  PROVE  Orderly'
  <1>1. sim = 0 /\ scratchDir = 0
    BY DEF LaunchScratch, LaunchStart, LaunchGrace, LaunchRecord, Goto, NothingUnderWay, Orderly,
       OneLaunches, OwnInv, Recorded
  <1>2. \A d \in Callers : d # c => pc[d] \in {"idle", "asked", "base", "read"}
    BY DEF LaunchScratch, LaunchStart, LaunchGrace, LaunchRecord, Goto, NothingUnderWay, Orderly,
       OneLaunches
  <1>3. /\ pc' = [pc EXCEPT ![c] = pc'[c]]
        /\ pc'[c] \in {"idle", "start", "grace", "record"}
        /\ sim' = 0 \/ pc'[c] = "idle"
    BY <1>1, OwnTypes DEF LaunchScratch, LaunchStart, LaunchGrace, LaunchRecord, LaunchFails, Goto,
       serverVars
  <1>4. \A d \in Callers : d # c => pc'[d] \in {"idle", "asked", "base", "read"}
    BY <1>2, <1>3, OwnTypes
  <1>5. OneLaunches' /\ StopsAgree' /\ RestartHolds' /\ StoppedIsDead'
    BY <1>3, <1>4 DEF OneLaunches, StopsAgree, RestartHolds, StoppedIsDead, StopSteps
  <1>6. Accounted'
    <2>1. \A n \in Launches : /\ n # 0
                              /\ proc[n] = "alive" => pc[c] \in {"grace", "record"} /\ job[c] = n
                              /\ dir[n] => pc[c] \in Launching /\ job[c] = n
      BY <1>1, <1>2, OwnTypes DEF Orderly, Accounted, Launching
    <2>2. CASE LaunchScratch(c)
      <3>1. /\ pc[c] = "idle" /\ pc'[c] = "start" /\ job'[c] = launches'
            /\ dir' = [dir EXCEPT ![launches'] = TRUE] /\ UNCHANGED proc
        BY <2>2, OwnTypes DEF LaunchScratch, Goto
      <3> QED
        BY <2>1, <3>1, OwnTypes DEF Accounted, Launching
    <2>3. CASE LaunchStart(c)
      <3>1. CASE LaunchFails(c) /\ UNCHANGED <<proc, job>>
        BY <2>1, <2>3, <3>1, OwnTypes DEF LaunchStart, LaunchFails, Accounted, Launching
      <3>2. CASE /\ Goto(c, "start", "grace") /\ proc' = [proc EXCEPT ![job[c]] = "alive"]
                 /\ UNCHANGED <<dir, job>>
        <4>1. pc[c] = "start" /\ pc'[c] = "grace"
          BY <3>2, OwnTypes DEF Goto
        <4> QED
          BY <2>1, <3>2, <4>1, OwnTypes DEF Accounted, Launching
      <3> QED
        BY <2>3, <3>1, <3>2 DEF LaunchStart
    <2>4. CASE LaunchGrace(c)
      <3>1. CASE LaunchFails(c) /\ UNCHANGED job /\ proc' = [proc EXCEPT ![job[c]] = "reaped"]
        BY <2>1, <2>4, <3>1, OwnTypes DEF LaunchGrace, LaunchFails, Accounted, Launching
      <3>2. CASE Goto(c, "grace", "record") /\ UNCHANGED <<dir, proc, job>>
        <4>1. pc[c] = "grace" /\ pc'[c] = "record"
          BY <3>2, OwnTypes DEF Goto
        <4> QED
          BY <2>1, <3>2, <4>1 DEF Accounted, Launching
      <3> QED
        BY <2>4, <3>1, <3>2 DEF LaunchGrace
    <2>5. CASE LaunchRecord(c)
      BY <2>1, <2>5 DEF LaunchRecord, Accounted
    <2> QED
      BY <2>2, <2>3, <2>4, <2>5
  <1> QED
    BY <1>5, <1>6 DEF Orderly

LEMMA OrderlyStop ==
  ASSUME OwnInv, Orderly, NEW c \in Callers, UNCHANGED setting,
         StopRead(c) \/ StopKill(c) \/ StopWait(c) \/ StopDrain(c) \/ StopForget(c)
  PROVE  Orderly'
  <1> USE DEF Orderly, Goto, StopSteps
  <1>1. CASE StopRead(c)
    <2>1. /\ mu = Nobody /\ sim # 0 /\ pc[c] = "idle"
          /\ pc' = [pc EXCEPT ![c] = "kill"] /\ job' = [job EXCEPT ![c] = sim]
          /\ UNCHANGED <<mu, sim, scratchDir, dir, proc>>
      BY <1>1 DEF StopRead, serverVars, osVars
    <2>2. OneLaunches' /\ StopsAgree' /\ StoppedIsDead'
      BY <2>1, OwnTypes DEF OneLaunches, StopsAgree, StoppedIsDead
    <2>3. RestartHolds'
      BY <2>1, OwnTypes, ConstantsAssumption DEF RestartHolds
    <2>4. Accounted'
      BY <2>1, AccountedSame, OwnTypes DEF Launching
    <2> QED
      BY <2>2, <2>3, <2>4
  <1>2. CASE StopKill(c) \/ StopWait(c) \/ StopDrain(c)
    <2>1. /\ pc[c] \in {"kill", "wait", "drain"} /\ pc' = [pc EXCEPT ![c] = pc'[c]]
          /\ pc'[c] \in {"wait", "drain", "forget"}
          /\ UNCHANGED <<mu, sim, scratchDir, job, dir>>
          /\ \A n \in Launches : proc'[n] = "alive" => proc[n] = "alive"
          /\ proc'[job[c]] # "alive"
      <3>1. CASE StopKill(c)
        BY <3>1, OwnTypes DEF StopKill, Killed, serverVars
      <3>2. CASE StopWait(c)
        BY <3>2, OwnTypes DEF StopWait, Reap, serverVars
      <3>3. CASE StopDrain(c)
        BY <3>3, OwnTypes DEF StopDrain, Drain, StoppedIsDead, serverVars
      <3> QED
        BY <1>2, <3>1, <3>2, <3>3
    <2>2. OneLaunches' /\ StopsAgree' /\ RestartHolds'
      BY <2>1, OwnTypes DEF OneLaunches, StopsAgree, RestartHolds
    <2>3. StoppedIsDead'
      BY <2>1, OwnTypes DEF StoppedIsDead
    <2>4. Accounted'
      BY <2>1, AccountedSame DEF Launching
    <2> QED
      BY <2>2, <2>3, <2>4
  <1>3. CASE StopForget(c)
    <2>1. /\ mu = Nobody /\ pc[c] = "forget" /\ pc' = [pc EXCEPT ![c] = "idle"]
          /\ sim' = 0 /\ scratchDir' = 0 /\ dir' = Cleared
          /\ UNCHANGED <<mu, job, proc>>
      BY <1>3 DEF StopForget
    <2>2. OneLaunches' /\ StopsAgree' /\ StoppedIsDead'
      BY <2>1, OwnTypes DEF OneLaunches, StopsAgree, StoppedIsDead
    <2>3. RestartHolds'
      BY <2>1, OwnTypes, ConstantsAssumption DEF RestartHolds
    <2>4. \A d \in Callers : pc[d] \in Launching => pc'[d] = pc[d]
      BY <2>1, OwnTypes DEF Launching
    <2>5. \A n \in Launches : proc[n] = "alive" => n # sim
      BY <2>1, OwnTypes DEF StopsAgree, StoppedIsDead
    <2>6. \A n \in Launches : dir'[n] => dir[n] /\ n # scratchDir
      BY <2>1 DEF Cleared
    <2> QED
      BY <2>1, <2>2, <2>3, <2>4, <2>5, <2>6 DEF Accounted, Launching
  <1> QED
    BY <1>1, <1>2, <1>3

LEMMA OrderlyRestart ==
  ASSUME OwnInv, Orderly, Careful, NEW c \in Callers, UNCHANGED setting,
         RestartKill(c) \/ RestartWait(c) \/ RestartDrain(c) \/ RestartScratch(c) \/ RestartStart(c)
  PROVE  Orderly'
  <1> USE DEF Orderly, Goto, StopSteps
  <1>0. \A d \in Callers : pc[d] \notin {"kill", "wait", "drain", "forget"}
    BY DEF RestartKill, MayRestart, Careful, RestartWait, RestartDrain, RestartScratch,
       RestartStart, Reap, Drain, RestartHolds
  <1>1. CASE RestartKill(c)
    <2>1. /\ mu = Nobody /\ mu' = c /\ sim # 0 /\ pc[c] = "idle"
          /\ pc' = [pc EXCEPT ![c] = "rewait"] /\ job' = [job EXCEPT ![c] = sim]
          /\ proc' = Killed(sim)
          /\ UNCHANGED <<sim, scratchDir, dir>>
      BY <1>1 DEF RestartKill
    <2>2. /\ proc'[sim] # "alive"
          /\ \A n \in Launches : proc'[n] = "alive" => proc[n] = "alive"
      BY <2>1, OwnTypes DEF Killed
    <2>3. \A d \in Callers : pc[d] \notin {"rewait", "redrain", "rescratch", "restart"}
      BY <2>1, ConstantsAssumption DEF RestartHolds
    <2>4. OneLaunches' /\ StopsAgree'
      BY <2>1, <1>0, OwnTypes DEF OneLaunches, StopsAgree
    <2>5. RestartHolds' /\ StoppedIsDead'
      BY <2>1, <2>2, <2>3, <1>0, OwnTypes DEF RestartHolds, StoppedIsDead
    <2>6. Accounted'
      BY <2>1, <2>2, AccountedSame, OwnTypes DEF Launching
    <2> QED
      BY <2>4, <2>5, <2>6
  <1>2. \A d \in Callers : pc[c] # "idle" /\ d # c =>
            pc[d] \notin {"rewait", "redrain", "rescratch", "restart"}
    BY DEF RestartKill, RestartWait, RestartDrain, RestartScratch, RestartStart, Reap, Drain,
       RestartHolds
  <1>3. CASE RestartWait(c) \/ RestartDrain(c)
    <2>1. /\ pc[c] \in {"rewait", "redrain"} /\ pc' = [pc EXCEPT ![c] = pc'[c]]
          /\ pc'[c] \in {"redrain", "rescratch"}
          /\ UNCHANGED <<mu, sim, scratchDir, job, dir>>
          /\ \A n \in Launches : proc'[n] = "alive" => proc[n] = "alive"
          /\ proc'[job[c]] # "alive"
      <3>1. CASE RestartWait(c)
        BY <3>1, OwnTypes DEF RestartWait, Reap, serverVars
      <3>2. CASE RestartDrain(c)
        BY <3>2, OwnTypes DEF RestartDrain, Drain, StoppedIsDead, serverVars
      <3> QED
        BY <1>3, <3>1, <3>2
    <2>2. OneLaunches' /\ StopsAgree' /\ RestartHolds'
      BY <2>1, OwnTypes DEF OneLaunches, StopsAgree, RestartHolds
    <2>3. StoppedIsDead'
      BY <2>1, OwnTypes DEF StoppedIsDead
    <2>4. Accounted'
      BY <2>1, AccountedSame DEF Launching
    <2> QED
      BY <2>2, <2>3, <2>4
  <1>4. ASSUME pc[c] \in {"rescratch", "restart"}
        PROVE  \A d \in Callers : d # c => pc[d] \in {"idle", "asked", "base", "read"}
    <2> SUFFICES ASSUME NEW d \in Callers, d # c
                 PROVE  pc[d] \in {"idle", "asked", "base", "read"}
      OBVIOUS
    <2>1. pc[d] \notin {"rewait", "redrain", "rescratch", "restart"}
      BY <1>2, <1>4
    <2>2. pc[d] \notin {"start", "grace", "record"}
      BY <1>4 DEF OneLaunches
    <2> QED
      BY <2>1, <2>2, <1>0, OwnTypes
  <1>5. CASE RestartScratch(c)
    <2>1. /\ pc[c] = "rescratch" /\ sim' = 0 /\ scratchDir' = 0 /\ UNCHANGED proc
          /\ \/ /\ pc' = [pc EXCEPT ![c] = "restart"] /\ job' = [job EXCEPT ![c] = launches']
                /\ dir' = [Cleared EXCEPT ![launches'] = TRUE] /\ UNCHANGED mu
             \/ pc' = [pc EXCEPT ![c] = "idle"] /\ dir' = Cleared /\ UNCHANGED job
      BY <1>5 DEF RestartScratch
    <2>2. /\ pc'[c] \in {"idle", "restart"}
          /\ \A d \in Callers : d # c => pc'[d] \in {"idle", "asked", "base", "read"}
      BY <1>4, <2>1, OwnTypes
    <2>3. pc'[c] = "restart" => mu' = c
      BY <2>1, OwnTypes DEF RestartHolds
    <2>4. OneLaunches' /\ StopsAgree' /\ RestartHolds' /\ StoppedIsDead'
      BY <2>1, <2>2, <2>3 DEF OneLaunches, StopsAgree, RestartHolds, StoppedIsDead
    <2>5. \A n \in Launches : proc[n] # "alive" /\ (dir[n] => n = scratchDir)
      BY <1>4, <2>1 DEF Accounted, Launching, RestartHolds, StoppedIsDead
    <2>6. \A n \in Launches : dir'[n] => pc'[c] = "restart" /\ job'[c] = n
      <3>1. Cleared = [n \in Launches |-> FALSE]
        BY <2>5, Zenon DEF Cleared
      <3>2. pc'[c] = "restart" => dir' = [Cleared EXCEPT ![launches'] = TRUE] /\ job'[c] = launches'
        BY <2>1, OwnTypes
      <3>3. pc'[c] # "restart" => dir' = Cleared
        BY <2>1, OwnTypes
      <3> QED
        BY <3>1, <3>2, <3>3
    <2>7. proc' = proc
      BY <2>1
    <2>8. Accounted'
      BY <2>5, <2>6, <2>7 DEF Accounted, Launching
    <2> QED
      BY <2>4, <2>8
  <1>6. CASE RestartStart(c)
    <2>1. /\ pc[c] = "restart" /\ pc' = [pc EXCEPT ![c] = "idle"] /\ sim = 0 /\ scratchDir = 0
          /\ job[c] \in Launches
      BY <1>6, OwnTypes DEF RestartStart, LaunchFails, RestartHolds, OwnInv, Recorded
    <2>2. \A d \in Callers : pc'[d] \in {"idle", "asked", "base", "read"}
      BY <1>4, <2>1, OwnTypes
    <2>3. OneLaunches' /\ StopsAgree' /\ RestartHolds' /\ StoppedIsDead'
      BY <2>2 DEF OneLaunches, StopsAgree, RestartHolds, StoppedIsDead
    <2>4. \A n \in Launches : n # 0 /\ proc[n] # "alive" /\ (dir[n] => n = job[c])
      BY <1>4, <2>1, OwnTypes DEF Accounted, Launching
    <2>5. CASE LaunchFails(c) /\ UNCHANGED <<proc, sim, scratchDir>>
      BY <2>1, <2>3, <2>4, <2>5, OwnTypes DEF LaunchFails, Accounted
    <2>6. CASE sim' = job[c] /\ scratchDir' = job[c] /\ UNCHANGED dir
               /\ proc' = [proc EXCEPT ![job[c]] = "alive"]
      BY <2>1, <2>3, <2>4, <2>6, OwnTypes DEF Accounted
    <2> QED
      BY <1>6, <2>5, <2>6 DEF RestartStart
  <1> QED
    BY <1>1, <1>3, <1>5, <1>6

LEMMA OrderlyShot ==
  ASSUME OwnInv, Orderly, NEW c \in Callers, UNCHANGED setting,
         ShotAsk(c) \/ ShotAnswered(c) \/ ShotGivesUp(c) \/ ShotBase(c) \/ ShotRead(c)
  PROVE  Orderly'
  <1>1. /\ pc[c] \in {"idle", "asked", "base", "read"} /\ pc' = [pc EXCEPT ![c] = pc'[c]]
        /\ pc'[c] \in {"idle", "asked", "base", "read"}
        /\ \A d \in Callers : d # c => job'[d] = job[d]
        /\ UNCHANGED <<mu, sim, scratchDir, proc, dir>>
    BY OwnTypes DEF ShotAsk, ShotAnswered, ShotGivesUp, ShotBase, ShotRead, Goto, osVars
  <1>2. OneLaunches' /\ StopsAgree'
    BY <1>1, OwnTypes DEF Orderly, OneLaunches, StopsAgree, StopSteps
  <1>3. RestartHolds' /\ StoppedIsDead'
    BY <1>1, OwnTypes DEF Orderly, RestartHolds, StoppedIsDead, StopSteps
  <1>4. Accounted'
    BY <1>1, AccountedSame DEF Orderly, Launching
  <1> QED
    BY <1>2, <1>3, <1>4 DEF Orderly

LEMMA OrderlyStep == OrderlyInv /\ [Next]_vars => OrderlyInv'
  <1> SUFFICES ASSUME OrderlyInv, [Next]_vars, Careful PROVE Orderly'
    BY OwnStep DEF OrderlyInv, Careful, LaunchesOverRunning, RestartsOverStops, Next, vars
  <1>0. OwnInv /\ Orderly /\ Careful /\ ~LaunchesOverRunning
    BY DEF OrderlyInv, Careful
  <1>1. CASE UNCHANGED vars
    BY <1>0, <1>1 DEF Orderly, OneLaunches, StopsAgree, RestartHolds, StoppedIsDead, Accounted,
       vars, sessionVars, serverVars, callVars, osVars
  <1> SUFFICES ASSUME Step, UNCHANGED setting PROVE Orderly'
    BY <1>1 DEF Next
  <1>2. CASE \E c \in Callers : CallStarts(c) \/ CallStep(c)
    BY <1>0, <1>2, OrderlyLaunch, OrderlyStop, OrderlyRestart, OrderlyShot DEF CallStarts, CallStep
  <1>3. ASSUME NEW n \in Launches, SimulatorAnswers(n) \/ SimulatorQuits(n) PROVE Orderly'
    <2>1. /\ UNCHANGED <<mu, sim, scratchDir, pc, job, dir>>
          /\ \A m \in Launches : proc'[m] = "alive" => proc[m] = "alive"
      BY <1>0, <1>3, OwnTypes DEF SimulatorAnswers, SimulatorQuits, serverVars, callVars
    <2>2. StoppedIsDead'
      BY <1>0, <2>1, OwnTypes DEF Orderly, StoppedIsDead
    <2> QED
      BY <1>0, <2>1, <2>2 DEF Orderly, OneLaunches, StopsAgree, RestartHolds, Accounted
  <1> QED
    BY <1>2, <1>3 DEF Step

(* There is never a second Simulator beside the first: concurrent tool     *)
(* calls cannot both launch, and a careful client does not restart a       *)
(* Simulator that a stop of its own is stopping.                           *)
THEOREM AtMostOneAliveCorrect == Spec => []AtMostOneAlive
  <1>1. OrderlyInv => AtMostOneAlive
    BY OwnTypes DEF OrderlyInv, Orderly, OneLaunches, Accounted, AtMostOneAlive
  <1>2. OrderlyInv /\ [Next]_vars => OrderlyInv'
    BY OrderlyStep
  <1> QED
    BY <1>1, <1>2, OrderlyInit, PTL DEF Spec

(* A Simulator that runs has the directory it was told to write            *)
(* screenshots into.                                                       *)
THEOREM ScratchWhileAliveCorrect == Spec => []ScratchWhileAlive
  <1>1. OrderlyInv => ScratchWhileAlive
    BY OwnTypes DEF OrderlyInv, OwnInv, Owned, Recorded, Launching, Orderly, Accounted,
       ScratchWhileAlive
  <1>2. OrderlyInv /\ [Next]_vars => OrderlyInv'
    BY OrderlyStep
  <1> QED
    BY <1>1, <1>2, OrderlyInit, PTL DEF Spec

(* Once no tool is at work and no Simulator is recorded, nothing is left   *)
(* of any launch: no process and no directory.                             *)
THEOREM NothingLeftCorrect == Spec => []NothingLeft
  <1>1. OrderlyInv => NothingLeft
    BY OwnTypes DEF OrderlyInv, OwnInv, Recorded, Launching, Orderly, Accounted, NothingLeft
  <1>2. OrderlyInv /\ [Next]_vars => OrderlyInv'
    BY OrderlyStep
  <1> QED
    BY <1>1, <1>2, OrderlyInit, PTL DEF Spec

-----------------------------------------------------------------------------
(* Screenshots.                                                            *)
Shooting == {"asked", "base", "read"}

(* The call that holds harnessMu asked for the last screenshot.            *)
Holding ==
    \A c \in Callers : pc[c] \in Shooting =>
        harnessMu = c /\ shot[c] = shots /\ (pc[c] = "asked" => job[c] \in Launches)

Counted ==
    /\ game <= launches
    /\ \A n \in Launches : n > launches => pic[n] = 0
    /\ \A g \in Games : answer[g] <= shots /\ mail[g] <= shots
    /\ \A n \in Launches : pic[n] <= shots

(* The last screenshot asked for was answered.                             *)
AnswerOut == shots # 0 /\ \E g \in Games : answer[g] = shots

MailOfGame ==
    \A g \in Games :
        mail[g] # 0 \/ answer[g] # 0 => \E n \in 1..launches : gameOf[n] = g

MailIsLast == \A g \in Games : mail[g] \in {0, shots}

(* Once it was, no Simulator draws until the next is asked for, so the one *)
(* scratch directory there is holds its image, or none, or one before it   *)
(* that its own could not replace.                                         *)
AnswerIsFresh ==
    AnswerOut => /\ \A g \in Games : mail[g] = 0
                 /\ \A n \in Launches : dir[n] => pic[n] \in {0, shots} \/ shots \in unwritten

OnceAnswered == \A c \in Callers : pc[c] \in {"base", "read"} => AnswerOut

ImagesOwn ==
    \A k \in Shots : image[k] \in {0, k} \/ (k \in unwritten /\ image[k] < k)

Fresh == MailOfGame /\ MailIsLast /\ AnswerIsFresh /\ OnceAnswered /\ ImagesOwn

ShotInv ==
    /\ OrderlyInv /\ Holding /\ Counted
    /\ Careful /\ OneGame => Fresh

LEMMA ShotInit == Init => ShotInv
  <1> SUFFICES ASSUME Init PROVE ShotInv
    OBVIOUS
  <1>1. OrderlyInv
    BY OrderlyInit
  <1>2. Holding /\ Counted /\ Fresh
    BY DEF Init, Holding, Shooting, Counted, Fresh, MailOfGame, MailIsLast, AnswerIsFresh,
       AnswerOut, OnceAnswered, ImagesOwn
  <1> QED
    BY <1>1, <1>2 DEF ShotInv

LEMMA ShotTypes ==
  ASSUME OrderlyInv
  PROVE  /\ OwnInv /\ launches \in Nat /\ shots \in Nat /\ game \in Nat
         /\ \A n \in Launches : n \in Nat /\ n # 0
         /\ \A n \in Nat : n # 0 /\ n <= launches => n \in Launches
         /\ shots < setting.maxShots => shots + 1 \in Shots
         /\ pc \in [Callers -> {"idle", "start", "grace", "record", "kill", "wait", "drain",
                                "forget", "rewait", "redrain", "rescratch", "restart", "asked",
                                "base", "read"}]
         /\ job \in [Callers -> 0..MaxLaunches] /\ shot \in [Callers -> 0..MaxShots]
         /\ gameOf \in [Launches -> Games]
         /\ dir \in [Launches -> BOOLEAN] /\ pic \in [Launches -> 0..MaxShots]
         /\ mail \in [Games -> Nat] /\ answer \in [Games -> Nat]
         /\ image \in [Shots -> 0..MaxShots]
         /\ \A c \in Callers : pc[c] = "read" => job[c] \in Launches
         /\ sim # 0 => game \in Launches
  <1>1. OwnInv /\ TypeOK /\ AtWork
    BY DEF OrderlyInv, OwnInv, TypeInv
  <1>2. /\ launches \in 0..MaxLaunches /\ MaxLaunches \in Nat /\ MaxShots \in Nat
        /\ shots \in 0..MaxShots /\ game \in 0..MaxLaunches
        /\ setting.maxShots <= MaxShots /\ setting.maxShots \in Nat
    BY <1>1, Numbers DEF TypeOK
  <1>3. 0..MaxShots \subseteq Nat
    BY <1>2
  <1>4. mail \in [Games -> Nat] /\ answer \in [Games -> Nat]
    BY <1>1, <1>3 DEF TypeOK
  <1>5. sim # 0 => game \in Launches
    BY <1>1, <1>2 DEF AtWork, Launches
  <1>6. /\ launches \in Nat /\ shots \in Nat /\ game \in Nat
        /\ \A n \in Launches : n \in Nat /\ n # 0
        /\ \A n \in Nat : n # 0 /\ n <= launches => n \in Launches
        /\ shots < setting.maxShots => shots + 1 \in Shots
    BY <1>2 DEF Launches, Shots
  <1> QED
    BY <1>1, <1>4, <1>5, <1>6 DEF TypeOK, AtWork

(* What the steps of launches, stops and restarts have in common.          *)
Lifecycle(c) ==
    /\ UNCHANGED <<harnessMu, shot, pic, mailVars>>
    /\ pc' = [pc EXCEPT ![c] = pc'[c]]
    /\ pc[c] \notin Shooting /\ pc'[c] \notin Shooting
    /\ \A d \in Callers : d # c => job'[d] = job[d]
    /\ game' = game \/ (game' = job[c] /\ pc[c] \in Launching)
    /\ launches' \in {launches, launches + 1}
    /\ \A n \in 1..launches : gameOf'[n] = gameOf[n]
    /\ \A n \in Launches : dir'[n] => dir[n] \/ n > launches

LEMMA LifecycleSteps ==
  ASSUME OwnInv, NEW c \in Callers,
         \/ LaunchScratch(c) \/ LaunchStart(c) \/ LaunchGrace(c) \/ LaunchRecord(c)
         \/ StopRead(c) \/ StopKill(c) \/ StopWait(c) \/ StopDrain(c) \/ StopForget(c)
         \/ RestartKill(c) \/ RestartWait(c) \/ RestartDrain(c) \/ RestartScratch(c)
         \/ RestartStart(c)
  PROVE  Lifecycle(c)
  <1> USE OwnTypes DEF Lifecycle, Goto, Shooting, Launching, serverVars
  <1>1. CASE LaunchScratch(c)
    BY <1>1 DEF LaunchScratch
  <1>2. CASE LaunchStart(c)
    BY <1>2 DEF LaunchStart, LaunchFails
  <1>3. CASE LaunchGrace(c)
    BY <1>3 DEF LaunchGrace, LaunchFails
  <1>4. CASE LaunchRecord(c)
    BY <1>4 DEF LaunchRecord
  <1>5. CASE StopRead(c)
    BY <1>5 DEF StopRead, osVars
  <1>6. CASE StopKill(c)
    BY <1>6 DEF StopKill
  <1>7. CASE StopWait(c)
    BY <1>7 DEF StopWait, Reap
  <1>8. CASE StopDrain(c)
    BY <1>8 DEF StopDrain, Drain
  <1>9. CASE StopForget(c)
    BY <1>9 DEF StopForget, Cleared
  <1>10. CASE RestartKill(c)
    BY <1>10 DEF RestartKill
  <1>11. CASE RestartWait(c)
    BY <1>11 DEF RestartWait, Reap
  <1>12. CASE RestartDrain(c)
    BY <1>12 DEF RestartDrain, Drain
  <1>13. CASE RestartScratch(c)
    <2>1. /\ pc[c] = "rescratch" /\ pc' = [pc EXCEPT ![c] = pc'[c]] /\ pc'[c] \in {"idle", "restart"}
          /\ UNCHANGED <<harnessMu, game, shot, pic, mailVars>>
          /\ \A d \in Callers : d # c => job'[d] = job[d]
      BY <1>13 DEF RestartScratch
    <2>2. CASE /\ launches < setting.maxLaunches /\ launches' = launches + 1
               /\ gameOf' = [gameOf EXCEPT ![launches'] = gameOf[game]]
               /\ dir' = [Cleared EXCEPT ![launches'] = TRUE]
      <3>1. \A n \in 1..launches : n # launches' /\ gameOf'[n] = gameOf[n]
        BY <2>2 DEF OwnInv, TypeInv, TypeOK, Launches
      <3>2. \A n \in Launches : dir'[n] => dir[n] \/ n > launches
        BY <2>2 DEF Cleared
      <3> QED
        BY <2>1, <2>2, <3>1, <3>2
    <2>3. CASE dir' = Cleared /\ UNCHANGED <<launches, job, gameOf>>
      BY <2>1, <2>3 DEF Cleared
    <2> QED
      BY <1>13, <2>2, <2>3 DEF RestartScratch
  <1>14. CASE RestartStart(c)
    BY <1>14 DEF RestartStart, LaunchFails
  <1> QED
    BY <1>1, <1>2, <1>3, <1>4, <1>5, <1>6, <1>7, <1>8, <1>9, <1>10, <1>11, <1>12, <1>13, <1>14

LEMMA ShotLifecycle ==
  ASSUME ShotInv, NEW c \in Callers, Lifecycle(c), UNCHANGED setting
  PROVE  Holding' /\ Counted' /\ (Careful' /\ OneGame' => Fresh')
  <1> USE DEF Lifecycle, mailVars
  <1>1. OrderlyInv
    BY DEF ShotInv
  <1>2. \A d \in Callers : pc'[d] \in Shooting => d # c /\ pc'[d] = pc[d] /\ job'[d] = job[d]
    BY <1>1, ShotTypes
  <1>3. Holding'
    BY <1>2 DEF ShotInv, Holding
  <1>4. launches' \in Nat /\ launches' >= launches /\ 1..launches \subseteq 1..launches'
    BY <1>1, ShotTypes
  <1>5. game' <= launches'
    <2>1. pc[c] \in Launching => job[c] <= launches /\ job[c] \in Nat
      BY <1>1, ShotTypes, OwnTypes DEF OwnInv, Owned, Launching
    <2> QED
      BY <1>1, <1>4, <2>1, ShotTypes DEF ShotInv, Counted
  <1>6. Counted'
    BY <1>1, <1>4, <1>5, ShotTypes DEF ShotInv, Counted
  <1>7. ASSUME Careful', OneGame' PROVE Fresh'
    <2>1. Careful /\ OneGame
      BY <1>4, <1>7 DEF Careful, LaunchesOverRunning, RestartsOverStops, OneGame
    <2>2. Fresh
      BY <2>1 DEF ShotInv
    <2>3. MailOfGame'
      BY <1>4, <2>2 DEF Fresh, MailOfGame
    <2>4. AnswerOut' <=> AnswerOut
      BY DEF AnswerOut
    <2>5. AnswerIsFresh'
      BY <2>2, <2>4 DEF Fresh, AnswerIsFresh, ShotInv, Counted
    <2>6. OnceAnswered'
      BY <1>2, <2>2, <2>4 DEF Fresh, OnceAnswered, Shooting
    <2> QED
      BY <2>2, <2>3, <2>5, <2>6 DEF Fresh, MailIsLast, ImagesOwn
  <1> QED
    BY <1>3, <1>6, <1>7

LEMMA ShotAsks ==
  ASSUME ShotInv, NEW c \in Callers, ShotAsk(c), UNCHANGED setting
  PROVE  Holding' /\ Counted' /\ (Careful' /\ OneGame' => Fresh')
  <1> USE DEF ShotInv
  <1>1. /\ harnessMu = Nobody /\ harnessMu' = c /\ sim # 0
        /\ shots' = shots + 1 /\ pc' = [pc EXCEPT ![c] = "asked"]
        /\ job' = [job EXCEPT ![c] = game] /\ shot' = [shot EXCEPT ![c] = shots']
        /\ mail' = [mail EXCEPT ![gameOf[game]] = shots']
        /\ answer' = [answer EXCEPT ![gameOf[game]] = 0]
        /\ UNCHANGED <<game, launches, gameOf, dir, pic, unwritten, image>>
    BY DEF ShotAsk, Goto, osVars
  <1>2. game \in Launches /\ gameOf[game] \in Games /\ game \in 1..launches
    BY <1>1, ShotTypes DEF Counted
  <1>3. \A d \in Callers : d # c => pc'[d] \notin Shooting
    BY <1>1, ShotTypes, ConstantsAssumption DEF Holding
  <1>4. Holding'
    BY <1>1, <1>2, <1>3, ShotTypes DEF Holding
  <1>5. Counted'
    BY <1>1, <1>2, ShotTypes DEF Counted
  <1>6. ASSUME Careful', OneGame' PROVE Fresh'
    <2>1. OneGame /\ Fresh
      BY <1>1, <1>6 DEF OneGame, Careful, LaunchesOverRunning, RestartsOverStops
    <2>2. \A g \in Games : g # gameOf[game] => mail[g] = 0 /\ answer[g] = 0
      BY <1>2, <2>1 DEF OneGame, Fresh, MailOfGame
    <2>3. \A g \in Games : answer'[g] = 0
      BY <1>1, <1>2, <2>2, ShotTypes
    <2>4. ~AnswerOut'
      BY <1>1, <2>3, ShotTypes DEF AnswerOut
    <2>5. MailIsLast' /\ MailOfGame'
      BY <1>1, <1>2, <2>2, <2>3, ShotTypes DEF MailIsLast, MailOfGame
    <2>6. OnceAnswered'
      BY <1>1, <1>3, ShotTypes DEF OnceAnswered, Shooting
    <2> QED
      BY <1>1, <2>1, <2>4, <2>5, <2>6 DEF Fresh, AnswerIsFresh, ImagesOwn
  <1> QED
    BY <1>4, <1>5, <1>6

LEMMA ShotGoesOn ==
  ASSUME ShotInv, NEW c \in Callers, UNCHANGED setting,
         ShotAnswered(c) \/ ShotGivesUp(c) \/ ShotBase(c) \/ ShotRead(c)
  PROVE  Holding' /\ Counted' /\ (Careful' /\ OneGame' => Fresh')
  <1> USE DEF ShotInv
  <1>1. /\ pc[c] \in Shooting /\ pc' = [pc EXCEPT ![c] = pc'[c]]
        /\ pc'[c] \in {"idle", "base", "read"} /\ (pc'[c] = "idle" \/ UNCHANGED harnessMu)
        /\ pc'[c] = "read" => pc[c] = "base"
        /\ pc'[c] = "base" => pc[c] = "asked" /\ answer[gameOf[job[c]]] = shot[c]
        /\ \A d \in Callers : d # c => job'[d] = job[d]
        /\ UNCHANGED <<shot, game, launches, gameOf, dir, pic, mail, answer, shots, unwritten>>
    BY ShotTypes DEF ShotAnswered, ShotGivesUp, ShotBase, ShotRead, Goto, Shooting, osVars, mailVars
  <1>2. /\ harnessMu = c /\ shot[c] = shots
        /\ \A d \in Callers : d # c => pc'[d] \notin Shooting /\ pc[d] \notin Shooting
    BY <1>1, ShotTypes DEF Holding
  <1>3. Holding'
    BY <1>1, <1>2, ShotTypes DEF Holding, Shooting
  <1>4. Counted'
    BY <1>1 DEF Counted
  <1>5. ASSUME Careful', OneGame' PROVE Fresh'
    <2>1. Fresh
      BY <1>1, <1>5 DEF OneGame, Careful, LaunchesOverRunning, RestartsOverStops
    <2>2. AnswerOut' <=> AnswerOut
      BY <1>1 DEF AnswerOut
    <2>3. MailOfGame' /\ MailIsLast' /\ AnswerIsFresh'
      BY <1>1, <2>1, <2>2 DEF Fresh, MailOfGame, MailIsLast, AnswerIsFresh
    <2>4. pc'[c] \in {"base", "read"} => AnswerOut
      <3>1. CASE pc'[c] = "base"
        <4>1. job[c] \in Launches /\ gameOf[job[c]] \in Games /\ answer[gameOf[job[c]]] = shots
          BY <1>1, <1>2, <3>1, ShotTypes DEF Holding
        <4>2. shots # 0
          BY <1>1, <1>2, ShotTypes DEF OwnInv, TypeInv, AtWork, Shooting, Shots
        <4> QED
          BY <4>1, <4>2 DEF AnswerOut
      <3>2. CASE pc'[c] = "read"
        BY <1>1, <2>1, <3>2 DEF Fresh, OnceAnswered
      <3> QED
        BY <3>1, <3>2
    <2>5. OnceAnswered'
      BY <1>1, <1>2, <2>2, <2>4 DEF OnceAnswered, Shooting
    <2>6. ImagesOwn'
      <3>1. CASE ShotRead(c)
        <4>1. pc[c] = "read" /\ job[c] \in Launches /\ AnswerOut
          BY <2>1, <3>1, ShotTypes DEF ShotRead, Goto, Fresh, OnceAnswered
        <4>2. image' = [image EXCEPT ![shots] = IF dir[job[c]] THEN pic[job[c]] ELSE 0]
          BY <1>2, <3>1 DEF ShotRead
        <4>3. LET i == IF dir[job[c]] THEN pic[job[c]] ELSE 0 IN
                  i \in {0, shots} \/ (shots \in unwritten /\ i < shots)
          <5>1. pic[job[c]] \in Nat /\ pic[job[c]] <= shots
            BY <4>1, ShotTypes DEF Counted, OwnInv, TypeInv, TypeOK
          <5> QED
            BY <2>1, <4>1, <5>1, ShotTypes DEF Fresh, AnswerIsFresh
        <4>4. UNCHANGED unwritten
          BY <1>1
        <4> QED
          BY <2>1, <4>2, <4>3, <4>4, ShotTypes DEF Fresh, ImagesOwn
      <3>2. CASE UNCHANGED image
        BY <1>1, <2>1, <3>2 DEF Fresh, ImagesOwn
      <3> QED
        BY <3>1, <3>2 DEF ShotAnswered, ShotGivesUp, ShotBase, mailVars
    <2> QED
      BY <2>3, <2>5, <2>6 DEF Fresh
  <1> QED
    BY <1>3, <1>4, <1>5

(* There is one scratch directory, and the Simulator that runs has it.     *)
LEMMA OneDirectory ==
  ASSUME OrderlyInv, Careful
  PROVE  /\ \A m, n \in Launches : dir[m] /\ dir[n] => m = n
         /\ \A n \in Launches : proc[n] = "alive" => dir[n] /\ n <= launches
  <1>1. OwnInv /\ Orderly
    BY DEF OrderlyInv
  <1>2. \A c \in Callers : pc[c] \in Launching =>
            scratchDir = 0 /\ \A d \in Callers : pc[d] \in Launching => d = c
    BY <1>1 DEF Orderly, OneLaunches, RestartHolds, Launching, OwnInv, Recorded
  <1>3. \A m, n \in Launches : dir[m] /\ dir[n] => m = n
    BY <1>1, <1>2, OwnTypes DEF Orderly, Accounted
  <1>4. \A n \in Launches : proc[n] = "alive" => dir[n]
    BY <1>1, OwnTypes DEF OwnInv, Owned, Recorded, Launching, Orderly, Accounted
  <1>5. \A n \in Launches : proc[n] = "alive" => n <= launches
    BY <1>1, OwnTypes DEF OwnInv, Unmade
  <1> QED
    BY <1>3, <1>4, <1>5

LEMMA ShotAnswers ==
  ASSUME ShotInv, NEW n \in Launches, SimulatorAnswers(n), UNCHANGED setting
  PROVE  Holding' /\ Counted' /\ (Careful' /\ OneGame' => Fresh')
  <1> USE DEF ShotInv
  <1> DEFINE g == gameOf[n]
  <1>1. /\ proc[n] = "alive" /\ mail[g] # 0
        /\ mail' = [mail EXCEPT ![g] = 0]
        /\ answer' = [answer EXCEPT ![g] = mail[g]]
        /\ \/ /\ pic' = (IF dir[n] THEN [pic EXCEPT ![n] = mail[g]] ELSE pic)
              /\ UNCHANGED unwritten
           \/ unwritten' = unwritten \cup {mail[g]} /\ UNCHANGED pic
        /\ UNCHANGED <<harnessMu, game, pc, job, shot, launches, gameOf, dir, shots, image>>
    BY DEF SimulatorAnswers, serverVars, callVars
  <1>2. g \in Games /\ mail[g] \in Nat /\ n <= launches /\ n \in Nat /\ n # 0
    BY <1>1, ShotTypes, OwnTypes DEF OwnInv, Unmade
  <1> HIDE DEF g
  <1>3. Holding'
    BY <1>1 DEF Holding
  <1>4. Counted'
    BY <1>1, <1>2, ShotTypes DEF Counted
  <1>5. ASSUME Careful', OneGame' PROVE Fresh'
    <2>1. OneGame /\ Fresh /\ Careful
      BY <1>1, <1>5 DEF OneGame, Careful, LaunchesOverRunning, RestartsOverStops
    <2>2. ~AnswerOut /\ mail[g] = shots
      BY <1>1, <1>2, <2>1 DEF Fresh, AnswerIsFresh, MailIsLast
    <2>3. \A h \in Games : h # g => mail[h] = 0
      BY <1>2, <2>1, ShotTypes DEF Fresh, MailOfGame, OneGame, g
    <2>4. \A h \in Games : mail'[h] = 0
      BY <1>1, <1>2, <2>3, ShotTypes
    <2>5. \A m \in Launches : dir[m] => pic'[m] = shots \/ shots \in unwritten'
      <3>1. \A m \in Launches : dir[m] => m = n /\ dir[n]
        BY <1>1, <2>1, OneDirectory
      <3> QED
        BY <1>1, <2>2, <3>1, ShotTypes
    <2>6. MailOfGame'
      <3>1. gameOf'[n] = g /\ n \in 1..launches'
        BY <1>1, <1>2, ShotTypes DEF g
      <3>2. \A h \in Games : h # g => answer'[h] = answer[h]
        BY <1>1, ShotTypes
      <3> QED
        BY <1>1, <2>1, <2>4, <3>1, <3>2 DEF Fresh, MailOfGame
    <2>7. OnceAnswered'
      BY <1>1, <2>1, <2>2 DEF Fresh, OnceAnswered
    <2> QED
      BY <1>1, <2>1, <2>4, <2>5, <2>6, <2>7 DEF Fresh, MailIsLast, AnswerIsFresh, ImagesOwn
  <1> QED
    BY <1>3, <1>4, <1>5

LEMMA ShotStep == ShotInv /\ [Next]_vars => ShotInv'
  <1> SUFFICES ASSUME ShotInv, [Next]_vars
               PROVE  Holding' /\ Counted' /\ (Careful' /\ OneGame' => Fresh')
    BY OrderlyStep DEF ShotInv
  <1>0. OwnInv
    BY DEF ShotInv, OrderlyInv
  <1>1. CASE UNCHANGED <<setting, harnessMu, game, pc, job, shot, launches, gameOf, dir, pic,
                         mail, answer, shots, unwritten, image>>
    BY <1>1 DEF ShotInv, Holding, Counted, Careful, LaunchesOverRunning, RestartsOverStops, OneGame, Fresh, MailOfGame,
       MailIsLast, AnswerIsFresh, AnswerOut, OnceAnswered, ImagesOwn
  <1>2. CASE UNCHANGED vars
    BY <1>1, <1>2 DEF vars, sessionVars, serverVars, callVars, osVars, mailVars
  <1> SUFFICES ASSUME Step, UNCHANGED setting
               PROVE  Holding' /\ Counted' /\ (Careful' /\ OneGame' => Fresh')
    BY <1>2 DEF Next
  <1>3. ASSUME NEW c \in Callers, CallStarts(c) \/ CallStep(c)
        PROVE  Holding' /\ Counted' /\ (Careful' /\ OneGame' => Fresh')
    <2>1. CASE ShotAsk(c)
      BY <2>1, ShotAsks
    <2>2. CASE ShotAnswered(c) \/ ShotGivesUp(c) \/ ShotBase(c) \/ ShotRead(c)
      BY <2>2, ShotGoesOn
    <2> QED
      BY <1>0, <1>3, <2>1, <2>2, LifecycleSteps, ShotLifecycle DEF CallStarts, CallStep
  <1>4. ASSUME NEW n \in Launches, SimulatorAnswers(n)
        PROVE  Holding' /\ Counted' /\ (Careful' /\ OneGame' => Fresh')
    BY <1>4, ShotAnswers
  <1>5. ASSUME NEW n \in Launches, SimulatorQuits(n)
        PROVE  Holding' /\ Counted' /\ (Careful' /\ OneGame' => Fresh')
    BY <1>1, <1>5 DEF SimulatorQuits, serverVars, callVars, mailVars
  <1> QED
    BY <1>3, <1>4, <1>5 DEF Step

(* The comment in getScreenshot: the image a call returns is the one drawn *)
(* for it, or none, though the directory it is read from may be removed,   *)
(* and the Simulator replaced, between the answer and the read; where its  *)
(* own was not written, an earlier one.  The lock alone does not make it   *)
(* so: two Simulators, or two games, could answer.                         *)
THEOREM ScreenshotIsOwnCorrect == Spec => []ScreenshotIsOwn
  <1>1. ShotInv => ScreenshotIsOwn
    BY DEF ShotInv, Fresh, ImagesOwn, ScreenshotIsOwn
  <1>2. ShotInv /\ [Next]_vars => ShotInv'
    BY ShotStep
  <1> QED
    BY <1>1, <1>2, ShotInit, PTL DEF Spec
=============================================================================
