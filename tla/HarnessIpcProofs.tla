-------------------------- MODULE HarnessIpcProofs --------------------------
(***************************************************************************)
(* Theorems about HarnessIpc for every number of callers and calls, both   *)
(* harnesses, and every combination of timeouts, deaths of the Simulator   *)
(* and file-system failures.                                               *)
(***************************************************************************)
EXTENDS HarnessIpc, TLAPS

(* What the types of a step's new values rest on: a caller under way is    *)
(* making a call, a harness past its poll holds a command, and one that is *)
(* about to publish holds a response.                                      *)
AtWork ==
    /\ nextID <= started
    /\ \A c \in Callers : pc[c] # "idle" => cur[c] \in Calls
    /\ hpc \in {"delete", "execute", "shoot", "publish", "inplace"} => hcmd \in Command
    /\ hpc \in {"shoot", "publish", "inplace"} => hresp \in Response
    /\ hpc = "delete" /\ ~DeleteFirst => hresp \in Response

TypeInv == TypeOK /\ AtWork

LEMMA TypeInit == Init => TypeInv
  <1> USE ConstantsAssumption
  <1> SUFFICES ASSUME Init PROVE TypeInv
    OBVIOUS
  <1>1. TypeOK
    <2>1. /\ env \in Environments
          /\ harnessMu \in Callers \cup {Nobody}
          /\ nextID \in 0..MaxCalls /\ started \in 0..MaxCalls
          /\ hpc = "poll" /\ hcmd = NoCommand /\ hresp = NoResponse /\ hlinked = FALSE
          /\ command = Absent /\ response = Absent /\ shot = Absent
      BY DEF Init
    <2>2. /\ pc = [c \in Callers |-> "idle"] /\ cur \in [Callers -> 0..MaxCalls]
          /\ got \in [Callers -> Response \cup {NoResponse}]
          /\ linked \in [Callers -> BOOLEAN]
      BY DEF Init
    <2>3. /\ idOf \in [Calls -> 0..MaxCalls]
          /\ kindOf \in [Calls -> Kinds]
          /\ runs \in [Calls -> 0..2]
          /\ unwritten \subseteq Calls
          /\ result \in [Calls -> {"none", "ok", "error", "timeout", "abandoned"}]
          /\ image \in [Calls -> Calls \cup {Absent, Torn}]
      BY DEF Init, Kinds
    <2> QED
      BY <2>1, <2>2, <2>3 DEF TypeOK
  <1>2. AtWork
    BY DEF Init, AtWork
  <1> QED
    BY <1>1, <1>2 DEF TypeInv

(* One step of a caller keeps the types.                                   *)
LEMMA TypeCaller ==
  ASSUME TypeInv, NEW c \in Callers,
         (\E k \in Kinds : Begin(c, k)) \/ CallerStep(c) \/ TimeOut(c), UNCHANGED env
  PROVE  TypeInv'
  <1> USE ConstantsAssumption DEF TypeInv, TypeOK, AtWork, DeleteFirst
  <1>1. ASSUME NEW k \in Kinds, Begin(c, k) PROVE TypeInv'
    BY <1>1 DEF Begin, Goto, Calls, fileVars, harnessVars
  <1>2. CASE ClearStaleResponse(c)
    BY <1>2 DEF ClearStaleResponse, Goto, RemoveResponse, historyVars
  <1>3. CASE TruncateCommand(c)
    BY <1>3 DEF TruncateCommand, Goto, Command, harnessVars, historyVars
  <1>4. CASE WriteCommand(c)
    BY <1>4 DEF WriteCommand, Goto, Command, harnessVars, historyVars
  <1>5. CASE SendFails(c)
    BY <1>5 DEF SendFails, Finish, fileVars, harnessVars
  <1>6. CASE ReadResponse(c)
    BY <1>6 DEF ReadResponse, Goto, fileVars, harnessVars, historyVars
  <1>7. CASE DiscardResponse(c)
    BY <1>7 DEF DiscardResponse, Goto, RemoveResponse, historyVars
  <1>8. CASE TakeResponse(c)
    BY <1>8 DEF TakeResponse, Goto, Finish, RemoveResponse, historyVars
  <1>9. CASE ReadScreenshot(c)
    BY <1>9 DEF ReadScreenshot, Finish, fileVars, harnessVars
  <1>10. CASE TimeOut(c)
    BY <1>10 DEF TimeOut, Finish, fileVars, harnessVars
  <1> QED
    BY <1>1, <1>2, <1>3, <1>4, <1>5, <1>6, <1>7, <1>8, <1>9, <1>10 DEF CallerStep

(* One step of the harness keeps them.                                     *)
LEMMA TypeHarness ==
  ASSUME TypeInv, HarnessStep, UNCHANGED env
  PROVE  TypeInv'
  <1> USE ConstantsAssumption DEF TypeInv, TypeOK, AtWork, DeleteFirst
  <1>1. CASE HarnessRead
    <2>1. hcmd' \in Command
      <3>1. command \in Command
        BY <1>1 DEF HarnessRead
      <3>2. [call |-> command.call, whole |-> FALSE] \in Command
        BY <3>1 DEF Command
      <3> QED
        BY <1>1, <3>1, <3>2 DEF HarnessRead
    <2>2. hpc' \in {"delete", "execute"} /\ (hpc' = "delete" => DeleteFirst)
      BY <1>1 DEF HarnessRead, HGoto
    <2>3. UNCHANGED <<serverVars, fileVars, hresp, hlinked, historyVars>>
      BY <1>1 DEF HarnessRead
    <2> QED
      BY <2>1, <2>2, <2>3 DEF serverVars, fileVars, historyVars
  <1>2. CASE HarnessReadFails
    BY <1>2 DEF HarnessReadFails, harnessVars, historyVars
  <1>3. CASE HarnessDelete
    BY <1>3 DEF HarnessDelete, HGoto, historyVars
  <1>4. CASE HarnessReject
    BY <1>4 DEF HarnessReject, HGoto, AfterExecute, Command, Response, serverVars,
                fileVars, historyVars
  <1>5. CASE HarnessExecute
    <2>1. PICK ok \in BOOLEAN :
            /\ hresp' = [call |-> hcmd.call, named |-> TRUE, ok |-> ok]
            /\ \/ hpc' = "shoot" /\ shot' = Torn
               \/ hpc' = AfterExecute /\ UNCHANGED shot
            /\ unwritten' \subseteq unwritten \cup {hcmd.call}
      BY <1>5 DEF HarnessExecute, GoesUnwritten
    <2>2. hcmd \in Command /\ hcmd.call \in Calls /\ hcmd' \in Command
      BY <1>5 DEF HarnessExecute, Command
    <2>3. hresp' \in Response
      BY <2>1, <2>2 DEF Response
    <2>4. runs' \in [Calls -> 0..2]
      <3> DEFINE i == IF runs[hcmd.call] = 0 THEN 1 ELSE 2
      <3>1. i \in 0..2
        OBVIOUS
      <3>2. runs' = [runs EXCEPT ![hcmd.call] = i]
        BY <1>5 DEF HarnessExecute
      <3> HIDE DEF i
      <3> QED
        BY <3>1, <3>2
    <2>5. /\ hpc' \in {"shoot", "publish", "delete"}
          /\ hpc' = "delete" => ~DeleteFirst
          /\ shot' \in Calls \cup {Absent, Torn}
          /\ unwritten' \subseteq Calls
      BY <2>1, <2>2 DEF AfterExecute
    <2>6. UNCHANGED <<serverVars, command, response, hcmd, hlinked, started, idOf, kindOf,
                      result, image>>
      BY <1>5 DEF HarnessExecute
    <2>7. TypeOK'
      BY <2>2, <2>3, <2>4, <2>5, <2>6 DEF serverVars
    <2>8. AtWork'
      BY <2>2, <2>3, <2>5, <2>6 DEF serverVars
    <2> QED
      BY <2>7, <2>8
  <1>6. CASE HarnessShoot
    BY <1>6 DEF HarnessShoot, GoesUnwritten, HGoto, AfterExecute, Command, serverVars
  <1>7. CASE HarnessPublish
    BY <1>7 DEF HarnessPublish, HGoto, serverVars, historyVars
  <1>8. CASE HarnessSaysNothing
    BY <1>8 DEF HarnessSaysNothing, HGoto, serverVars, fileVars, historyVars
  <1>9. CASE HarnessTruncateResponse
    BY <1>9 DEF HarnessTruncateResponse, HGoto, serverVars, historyVars
  <1>10. CASE HarnessWriteInPlace
    BY <1>10 DEF HarnessWriteInPlace, HGoto, serverVars, historyVars
  <1> QED
    BY <1>1, <1>2, <1>3, <1>4, <1>5, <1>6, <1>7, <1>8, <1>9, <1>10 DEF HarnessStep

LEMMA TypeStep == TypeInv /\ [Next]_vars => TypeInv'
  <1> SUFFICES ASSUME TypeInv, [Next]_vars PROVE TypeInv'
    OBVIOUS
  <1>0. CASE UNCHANGED vars
    BY <1>0 DEF TypeInv, TypeOK, AtWork, DeleteFirst, vars, ipcVars, serverVars, fileVars,
                harnessVars, historyVars
  <1> SUFFICES ASSUME Step, UNCHANGED env PROVE TypeInv'
    BY <1>0 DEF Next
  <1>1. CASE \E c \in Callers, k \in Kinds : Begin(c, k)
    BY <1>1, TypeCaller
  <1>2. CASE \E c \in Callers : CallerStep(c) \/ TimeOut(c)
    BY <1>2, TypeCaller
  <1>3. CASE RestartServer
    BY <1>3, ConstantsAssumption
       DEF TypeInv, TypeOK, AtWork, DeleteFirst, RestartServer, fileVars, harnessVars
  <1>4. CASE HarnessStep
    BY <1>4, TypeHarness
  <1>5. CASE SimulatorDies
    BY <1>5 DEF TypeInv, TypeOK, AtWork, DeleteFirst, SimulatorDies, serverVars, fileVars, historyVars
  <1>6. CASE SimulatorStarts
    BY <1>6 DEF TypeInv, TypeOK, AtWork, DeleteFirst, SimulatorStarts, HGoto, serverVars,
                fileVars, historyVars
  <1> QED
    BY <1>1, <1>2, <1>3, <1>4, <1>5, <1>6 DEF Step

(* Every variable of the mailbox keeps its type, whatever fails.           *)
THEOREM TypeCorrect == Spec => []TypeOK
  <1>1. TypeInv => TypeOK
    BY DEF TypeInv
  <1> QED
    BY <1>1, TypeInit, TypeStep, PTL DEF Spec

-----------------------------------------------------------------------------
OneServer == \A e \in Environments : ~e.restarts

(* As long as one server lives, the id of a call is its number, so equal   *)
(* ids mean equal calls.  This needs to know that whatever lies in the     *)
(* mailbox or in either side's hands comes from a call that was made.      *)
IdsAreNumbers ==
    /\ nextID = started
    /\ \A n \in Calls : n <= started => idOf[n] = n

OnlyMadeCalls ==
    /\ \A c \in Callers : cur[c] <= started /\ got[c].call <= started
    /\ command # Absent => command.call <= started
    /\ hcmd.call <= started
    /\ hresp.call <= started
    /\ response \in Response => response.call <= started

NamedInv == TypeInv /\ IdsAreNumbers /\ OnlyMadeCalls /\ NamedAnswerIsOwn

LEMMA NamedInit == Init => NamedInv
  <1> SUFFICES ASSUME Init PROVE NamedInv
    OBVIOUS
  <1>1. TypeInv
    BY TypeInit
  <1>2. IdsAreNumbers /\ NamedAnswerIsOwn
    BY DEF Init, IdsAreNumbers, NamedAnswerIsOwn, Calls
  <1>3. OnlyMadeCalls
    BY ConstantsAssumption DEF Init, OnlyMadeCalls, NoResponse, NoCommand
  <1> QED
    BY <1>1, <1>2, <1>3 DEF NamedInv

(* Whatever has a call number has a natural one.                           *)
LEMMA CallNumbers ==
  ASSUME TypeInv
  PROVE  /\ \A c \in Callers : cur[c] \in Nat /\ got[c].call \in Nat
         /\ command # Absent => command.call \in Nat
         /\ hcmd.call \in Nat /\ hresp.call \in Nat
         /\ response \in Response => response.call \in Nat
  <1> USE ConstantsAssumption DEF TypeInv, TypeOK
  <1>1. \A r \in Response \cup {NoResponse} : r.call \in Nat
    BY DEF Response, NoResponse, Calls
  <1>2. \A k \in Command \cup {NoCommand} : k.call \in Nat
    BY DEF Command, NoCommand, Calls
  <1>3. \A c \in Callers : cur[c] \in Nat /\ got[c].call \in Nat
    BY <1>1
  <1> QED
    BY <1>1, <1>2, <1>3

LEMMA NamedCaller ==
  ASSUME NamedInv, TypeInv', NEW c \in Callers,
         (\E k \in Kinds : Begin(c, k)) \/ CallerStep(c) \/ TimeOut(c)
  PROVE  IdsAreNumbers' /\ OnlyMadeCalls' /\ NamedAnswerIsOwn'
  <1> USE ConstantsAssumption
      DEF NamedInv, TypeInv, TypeOK, IdsAreNumbers, OnlyMadeCalls, NamedAnswerIsOwn
  <1>1. ASSUME NEW k \in Kinds, Begin(c, k)
        PROVE  IdsAreNumbers' /\ OnlyMadeCalls' /\ NamedAnswerIsOwn'
    <2>1. IdsAreNumbers'
      BY <1>1 DEF Begin, Calls
    <2>2. OnlyMadeCalls'
      <3>1. /\ \A d \in Callers : cur[d] \in Nat /\ got[d].call \in Nat
            /\ command # Absent => command.call \in Nat
            /\ hcmd.call \in Nat /\ hresp.call \in Nat
            /\ response \in Response => response.call \in Nat
        BY CallNumbers DEF NamedInv
      <3>2. started \in Nat /\ started' = started + 1 /\ cur' = [cur EXCEPT ![c] = started']
        BY <1>1 DEF Begin
      <3>3. UNCHANGED <<got, command, hcmd, hresp, response>>
        BY <1>1 DEF Begin, fileVars, harnessVars
      <3>4. \A d \in Callers : cur'[d] <= started'
        BY <3>1, <3>2
      <3> QED
        BY <3>1, <3>2, <3>3, <3>4
    <2>3. NamedAnswerIsOwn'
      BY <1>1 DEF Begin, Goto
    <2> QED
      BY <2>1, <2>2, <2>3
  <1>2. CASE ClearStaleResponse(c)
    BY <1>2 DEF ClearStaleResponse, Goto, RemoveResponse, historyVars
  <1>3. CASE TruncateCommand(c)
    BY <1>3 DEF TruncateCommand, Goto, harnessVars, historyVars
  <1>4. CASE WriteCommand(c)
    BY <1>4 DEF WriteCommand, Goto, harnessVars, historyVars
  <1>5. CASE SendFails(c)
    BY <1>5 DEF SendFails, Finish, fileVars, harnessVars
  <1>6. CASE ReadResponse(c)
    BY <1>6 DEF ReadResponse, OtherId, Goto, Response, AtWork, fileVars, harnessVars,
                historyVars
  <1>7. CASE DiscardResponse(c)
    BY <1>7 DEF DiscardResponse, Goto, RemoveResponse, historyVars
  <1>8. CASE TakeResponse(c)
    BY <1>8 DEF TakeResponse, Goto, Finish, RemoveResponse, historyVars
  <1>9. CASE ReadScreenshot(c)
    BY <1>9 DEF ReadScreenshot, Finish, fileVars, harnessVars
  <1>10. CASE TimeOut(c)
    BY <1>10 DEF TimeOut, Finish, fileVars, harnessVars
  <1> QED
    BY <1>1, <1>2, <1>3, <1>4, <1>5, <1>6, <1>7, <1>8, <1>9, <1>10 DEF CallerStep

LEMMA NamedHarness ==
  ASSUME NamedInv, TypeInv', HarnessStep
  PROVE  IdsAreNumbers' /\ OnlyMadeCalls' /\ NamedAnswerIsOwn'
  <1> USE DEF NamedInv, TypeInv, TypeOK, IdsAreNumbers, OnlyMadeCalls, NamedAnswerIsOwn
  <1>1. CASE HarnessRead
    BY <1>1 DEF HarnessRead, serverVars, fileVars, historyVars
  <1>2. CASE HarnessReadFails
    BY <1>2 DEF HarnessReadFails, harnessVars, historyVars
  <1>3. CASE HarnessDelete
    BY <1>3 DEF HarnessDelete, historyVars
  <1>4. CASE HarnessReject
    BY <1>4 DEF HarnessReject, serverVars, fileVars, historyVars
  <1>5. CASE HarnessExecute
    <2>1. hresp'.call = hcmd.call
      BY <1>5 DEF HarnessExecute
    <2>2. UNCHANGED <<serverVars, command, response, hcmd, started, idOf>>
      BY <1>5 DEF HarnessExecute
    <2> QED
      BY <2>1, <2>2 DEF serverVars
  <1>6. CASE HarnessShoot
    BY <1>6 DEF HarnessShoot, serverVars
  <1>7. CASE HarnessPublish
    BY <1>7 DEF HarnessPublish, serverVars, historyVars
  <1>8. CASE HarnessSaysNothing
    BY <1>8 DEF HarnessSaysNothing, serverVars, fileVars, historyVars
  <1>9. CASE HarnessTruncateResponse
    BY <1>9, ConstantsAssumption DEF HarnessTruncateResponse, serverVars, historyVars
  <1>10. CASE HarnessWriteInPlace
    BY <1>10 DEF HarnessWriteInPlace, serverVars, historyVars
  <1> QED
    BY <1>1, <1>2, <1>3, <1>4, <1>5, <1>6, <1>7, <1>8, <1>9, <1>10 DEF HarnessStep

LEMMA NamedStep ==
  ASSUME OneServer
  PROVE  NamedInv /\ [Next]_vars => NamedInv'
  <1> SUFFICES ASSUME NamedInv, [Next]_vars
               PROVE  IdsAreNumbers' /\ OnlyMadeCalls' /\ NamedAnswerIsOwn'
    BY TypeStep DEF NamedInv
  <1>0. TypeInv'
    BY TypeStep DEF NamedInv
  <1>7. CASE UNCHANGED vars
    BY <1>7 DEF NamedInv, IdsAreNumbers, OnlyMadeCalls, NamedAnswerIsOwn, vars, ipcVars,
                serverVars, fileVars, harnessVars, historyVars
  <1> SUFFICES ASSUME Step
               PROVE  IdsAreNumbers' /\ OnlyMadeCalls' /\ NamedAnswerIsOwn'
    BY <1>7 DEF Next
  <1>1. CASE \E c \in Callers, k \in Kinds : Begin(c, k)
    BY <1>0, <1>1, NamedCaller
  <1>2. CASE \E c \in Callers : CallerStep(c) \/ TimeOut(c)
    BY <1>0, <1>2, NamedCaller
  <1>3. ~RestartServer
    BY DEF OneServer, NamedInv, TypeInv, TypeOK, RestartServer, MayRestartServer
  <1>4. CASE HarnessStep
    BY <1>0, <1>4, NamedHarness
  <1>5. CASE SimulatorDies
    BY <1>5 DEF NamedInv, IdsAreNumbers, OnlyMadeCalls, NamedAnswerIsOwn, SimulatorDies,
                serverVars, fileVars, historyVars
  <1>6. CASE SimulatorStarts
    BY <1>6 DEF NamedInv, IdsAreNumbers, OnlyMadeCalls, NamedAnswerIsOwn, SimulatorStarts,
                serverVars, fileVars, historyVars
  <1> QED
    BY <1>1, <1>2, <1>3, <1>4, <1>5, <1>6 DEF Step

(* No call takes an answer that carries another call's id, as long as the  *)
(* server process is not replaced: after that ids repeat, and a call can   *)
(* take the answer to a command of the server before.                      *)
THEOREM NamedAnswerCorrect ==
  ASSUME OneServer
  PROVE  Spec => []NamedAnswerIsOwn
  <1>1. NamedInv => NamedAnswerIsOwn
    BY DEF NamedInv
  <1>2. NamedInv /\ [Next]_vars => NamedInv'
    BY NamedStep
  <1> QED
    BY <1>1, <1>2, NamedInit, PTL DEF Spec

-----------------------------------------------------------------------------
(* The lock lets one call be made at a time, the latest.                   *)
OneCall == \A c \in Callers : pc[c] # "idle" => harnessMu = c /\ cur[c] = started

(* With nothing that fails, one message at most is on its way, and it is   *)
(* of the latest call: its command, what the harness holds of it, or its   *)
(* response, which is there only once the command is gone.                 *)
NothingOnItsWay == hpc = "poll" /\ command = Absent /\ response = Absent

OneMessage ==
    /\ (\A c \in Callers : pc[c] \in {"idle", "clear", "open", "read"}) => NothingOnItsWay
    /\ command # Absent => command.call = started /\ response = Absent
    /\ hpc # "poll" => hpc \in {"delete", "execute", "shoot", "publish"}
                       /\ hcmd.call = started /\ response = Absent
    /\ hpc = "publish" \/ (DeleteFirst /\ hpc # "delete" /\ hpc # "poll") => command = Absent
    /\ hpc = "publish" \/ hpc = "shoot" \/ (~DeleteFirst /\ hpc = "delete") =>
           hresp.call = started
    /\ response # Absent => response \in Response /\ response.call = started
    /\ \A c \in Callers : linked[c] => pc[c] = "write" /\ command # Absent
    /\ \A c \in Callers : pc[c] # "discard"
    /\ \A c \in Callers : pc[c] = "take" =>
           hpc = "poll" /\ command = Absent /\ got[c].call = started

AnswerInv == TypeInv /\ OneCall /\ (Healthy => OneMessage)

LEMMA AnswerInit == Init => AnswerInv
  <1> SUFFICES ASSUME Init PROVE AnswerInv
    OBVIOUS
  <1>1. OneCall /\ OneMessage
    BY DEF Init, OneCall, OneMessage, NothingOnItsWay
  <1> QED
    BY <1>1, TypeInit DEF AnswerInv

LEMMA AnswerCaller ==
  ASSUME AnswerInv, NEW c \in Callers, UNCHANGED env,
         (\E k \in Kinds : Begin(c, k)) \/ CallerStep(c) \/ TimeOut(c)
  PROVE  OneCall' /\ (Healthy' => OneMessage')
  <1> USE ConstantsAssumption DEF OneCall, NothingOnItsWay, DeleteFirst
  <1>0. /\ OneCall /\ (Healthy => OneMessage) /\ (Healthy' <=> Healthy)
        /\ pc \in [Callers -> {"idle", "clear", "open", "write", "wait", "discard", "take", "read"}]
        /\ cur \in [Callers -> 0..MaxCalls] /\ linked \in [Callers -> BOOLEAN]
        /\ got \in [Callers -> Response \cup {NoResponse}]
        /\ response \in Response \cup {Absent, Torn}
    BY DEF AnswerInv, TypeInv, TypeOK, Healthy, MayTimeOut, MayCrash, MayFailIo, MayRestartServer
  <1>1. ASSUME NEW k \in Kinds, Begin(c, k)
        PROVE  OneCall' /\ (Healthy' => OneMessage')
    <2>1. /\ harnessMu = Nobody /\ pc' = [pc EXCEPT ![c] = "clear"] /\ harnessMu' = c
          /\ cur' = [cur EXCEPT ![c] = started']
          /\ UNCHANGED <<got, linked, command, response, hpc, hcmd, hresp>>
      BY <1>1 DEF Begin, Goto, fileVars, harnessVars
    <2>2. \A d \in Callers : pc[d] = "idle"
      BY <1>0, <2>1
    <2>3. OneCall'
      BY <1>0, <2>1, <2>2
    <2>4. Healthy => OneMessage'
      BY <1>0, <2>1, <2>2 DEF OneMessage
    <2> QED
      BY <1>0, <2>3, <2>4
  <1>2. ASSUME CallerStep(c) \/ TimeOut(c)
        PROVE  harnessMu = c /\ cur[c] = started /\ \A d \in Callers : d # c => pc[d] = "idle"
    <2>1. pc[c] # "idle"
      BY <1>2 DEF CallerStep, ClearStaleResponse, TruncateCommand, WriteCommand, SendFails,
         ReadResponse, DiscardResponse, TakeResponse, ReadScreenshot, TimeOut, Goto
    <2> QED
      BY <1>0, <2>1
  <1>3. ASSUME harnessMu = c, cur[c] = started, \A d \in Callers : d # c => pc[d] = "idle",
               CallerStep(c) \/ TimeOut(c)
        PROVE  OneCall' /\ (Healthy' => OneMessage')
    <2>1. OneCall'
      <3>1. /\ UNCHANGED <<cur, started>> /\ pc' = [pc EXCEPT ![c] = pc'[c]]
            /\ UNCHANGED harnessMu \/ pc'[c] = "idle"
        BY <1>0, <1>3 DEF CallerStep, ClearStaleResponse, TruncateCommand, WriteCommand, SendFails,
           ReadResponse, DiscardResponse, TakeResponse, ReadScreenshot, TimeOut, Goto, Finish,
           historyVars
      <3> QED
        BY <1>0, <1>3, <3>1
    <2>2. ASSUME Healthy PROVE OneMessage'
      <3>0. OneMessage /\ ~TimeOut(c) /\ ~SendFails(c)
        BY <1>0, <2>2 DEF Healthy, TimeOut, SendFails
      <3> USE DEF OneMessage
      <3>1. CASE ClearStaleResponse(c)
        BY <1>0, <1>3, <3>0, <3>1 DEF ClearStaleResponse, Goto, RemoveResponse, historyVars
      <3>2. CASE TruncateCommand(c)
        <4>1. /\ pc[c] = "open" /\ pc' = [pc EXCEPT ![c] = "write"]
              /\ command' = [call |-> cur[c], whole |-> FALSE]
              /\ linked' = [linked EXCEPT ![c] = TRUE]
              /\ UNCHANGED <<env, started, got, response, hpc, hcmd, hresp>>
          BY <3>2 DEF TruncateCommand, Goto, harnessVars, historyVars
        <4>2. NothingOnItsWay
          BY <1>3, <3>0, <4>1
        <4>3. command' # Absent
          <5>1. command' \in Command
            BY <4>1, TypeInv DEF Command, AnswerInv, TypeInv, TypeOK, AtWork
          <5> QED
            BY <5>1
        <4> QED
          BY <1>0, <1>3, <3>0, <4>1, <4>2, <4>3
      <3>3. CASE WriteCommand(c)
        <4>1. /\ pc[c] = "write" /\ pc' = [pc EXCEPT ![c] = "wait"]
              /\ command' = (IF linked[c] THEN [call |-> cur[c], whole |-> TRUE] ELSE command)
              /\ linked' = [linked EXCEPT ![c] = FALSE]
              /\ UNCHANGED <<env, started, got, response, hpc, hcmd, hresp>>
          BY <3>3 DEF WriteCommand, Goto, harnessVars, historyVars
        <4>2. linked[c] => command # Absent /\ command'.call = started
          BY <1>3, <3>0, <4>1
        <4> QED
          BY <1>0, <1>3, <3>0, <4>1, <4>2
      <3>4. CASE ReadResponse(c)
        <4>1. ~OtherId(response, cur[c])
          BY <1>0, <1>3, <3>0, <3>4 DEF ReadResponse, OtherId
        <4>2. /\ pc[c] = "wait" /\ pc' = [pc EXCEPT ![c] = "take"]
              /\ got' = [got EXCEPT ![c] = response] /\ response \in Response
              /\ UNCHANGED <<env, started, linked, command, response, hpc, hcmd, hresp>>
          BY <3>4, <4>1 DEF ReadResponse, Goto, fileVars, harnessVars, historyVars
        <4> QED
          BY <1>0, <1>3, <3>0, <4>2
      <3>5. CASE DiscardResponse(c)
        BY <3>0, <3>5 DEF DiscardResponse, Goto
      <3>6. CASE TakeResponse(c)
        <4>1. /\ pc[c] = "take" /\ pc' = [pc EXCEPT ![c] = pc'[c]] /\ pc'[c] \in {"idle", "read"}
              /\ response' = Absent
              /\ UNCHANGED <<env, started, linked, got, command, hpc, hcmd, hresp>>
          BY <1>0, <3>6 DEF TakeResponse, Goto, Finish, RemoveResponse, historyVars
        <4> QED
          BY <1>0, <1>3, <3>0, <4>1
      <3>7. CASE ReadScreenshot(c)
        <4>1. /\ pc[c] = "read" /\ pc' = [pc EXCEPT ![c] = "idle"]
              /\ UNCHANGED <<env, started, linked, got, command, response, hpc, hcmd, hresp>>
          BY <3>7 DEF ReadScreenshot, Finish, fileVars, harnessVars
        <4> QED
          BY <1>0, <1>3, <3>0, <4>1
      <3> QED
        BY <1>3, <3>0, <3>1, <3>2, <3>3, <3>4, <3>5, <3>6, <3>7 DEF CallerStep
    <2> QED
      BY <1>0, <2>1, <2>2
  <1> QED
    BY <1>1, <1>2, <1>3

LEMMA AnswerHarness ==
  ASSUME AnswerInv, UNCHANGED env, HarnessStep, Healthy
  PROVE  OneMessage'
  <1> USE ConstantsAssumption DEF OneMessage, NothingOnItsWay, DeleteFirst
  <1>0. /\ OneMessage /\ ~MayFailIo
        /\ linked \in [Callers -> BOOLEAN]
        /\ hpc = "publish" => hresp \in Response
    BY DEF AnswerInv, TypeInv, TypeOK, AtWork, Healthy
  <1>1. CASE HarnessRead
    <2>1. /\ command # Absent /\ hpc = "poll" /\ hcmd' = command
          /\ hpc' = (IF DeleteFirst THEN "delete" ELSE "execute")
          /\ UNCHANGED <<pc, got, linked, command, response, hresp, started>>
      BY <1>0, <1>1 DEF HarnessRead, HGoto, serverVars, fileVars, historyVars
    <2> QED
      BY <1>0, <2>1
  <1>2. CASE HarnessDelete
    <2>1. /\ hpc = "delete" /\ hpc' = (IF DeleteFirst THEN "execute" ELSE "publish")
          /\ command' = Absent /\ linked' = [c \in Callers |-> FALSE]
          /\ UNCHANGED <<pc, got, response, hcmd, hresp, started>>
      BY <1>2 DEF HarnessDelete, HGoto, historyVars
    <2> QED
      BY <1>0, <2>1
  <1>3. CASE HarnessReject \/ HarnessExecute
    <2>1. /\ hpc = "execute" /\ hpc' \in {"shoot", AfterExecute} /\ hresp'.call = hcmd.call
          /\ UNCHANGED <<pc, got, linked, command, response, hcmd, started>>
      <3>1. CASE HarnessReject
        BY <3>1 DEF HarnessReject, HGoto, serverVars, fileVars, historyVars
      <3>2. CASE HarnessExecute
        <4>1. hresp'.call = hcmd.call
          BY <3>2 DEF HarnessExecute
        <4>2. hpc' \in {"shoot", AfterExecute}
          BY <3>2 DEF HarnessExecute, GoesUnwritten
        <4>3. /\ hpc = "execute"
              /\ UNCHANGED <<pc, got, linked, command, response, hcmd, started>>
          BY <3>2 DEF HarnessExecute, serverVars
        <4> QED
          BY <4>1, <4>2, <4>3
      <3> QED
        BY <1>3, <3>1, <3>2
    <2> QED
      BY <1>0, <2>1 DEF AfterExecute
  <1>4. CASE HarnessShoot
    <2>1. /\ hpc = "shoot" /\ hpc' = AfterExecute
          /\ UNCHANGED <<pc, got, linked, command, response, hcmd, hresp, started>>
      BY <1>4 DEF HarnessShoot, HGoto, serverVars
    <2> QED
      BY <1>0, <2>1 DEF AfterExecute
  <1>5. CASE HarnessPublish
    <2>1. /\ hpc = "publish" /\ hpc' = "poll" /\ response' = hresp
          /\ UNCHANGED <<pc, got, linked, command, hcmd, hresp, started>>
      BY <1>5 DEF HarnessPublish, HGoto, serverVars, historyVars
    <2> QED
      BY <1>0, <2>1
  <1>6. CASE HarnessWriteInPlace
    BY <1>0, <1>6 DEF HarnessWriteInPlace, HGoto
  <1> QED
    BY <1>0, <1>1, <1>2, <1>3, <1>4, <1>5, <1>6
       DEF HarnessStep, HarnessReadFails, HarnessSaysNothing, HarnessTruncateResponse

LEMMA AnswerStep == AnswerInv /\ [Next]_vars => AnswerInv'
  <1> SUFFICES ASSUME AnswerInv, [Next]_vars
               PROVE  OneCall' /\ (Healthy' => OneMessage')
    BY TypeStep DEF AnswerInv
  <1>1. CASE UNCHANGED vars
    BY <1>1 DEF AnswerInv, OneCall, OneMessage, NothingOnItsWay, DeleteFirst, Healthy, MayTimeOut,
       MayCrash, MayFailIo, MayRestartServer, vars, ipcVars, serverVars, fileVars, harnessVars,
       historyVars
  <1> SUFFICES ASSUME Step, UNCHANGED env
               PROVE  OneCall' /\ (Healthy' => OneMessage')
    BY <1>1 DEF Next
  <1>2. CASE \E c \in Callers : (\E k \in Kinds : Begin(c, k)) \/ CallerStep(c) \/ TimeOut(c)
    BY <1>2, AnswerCaller
  <1>3. CASE RestartServer
    BY <1>3 DEF RestartServer, OneCall, Healthy, MayRestartServer
  <1>4. Healthy' <=> Healthy
    BY DEF Healthy, MayTimeOut, MayCrash, MayFailIo, MayRestartServer
  <1>5. CASE HarnessStep
    <2>1. UNCHANGED <<harnessMu, pc, cur, started>>
      BY <1>5 DEF HarnessStep, HarnessRead, HarnessReadFails, HarnessDelete, HarnessReject,
         HarnessExecute, HarnessShoot, HarnessPublish, HarnessSaysNothing,
         HarnessTruncateResponse, HarnessWriteInPlace, serverVars, historyVars
    <2>2. OneCall'
      BY <2>1 DEF AnswerInv, OneCall
    <2> QED
      BY <1>4, <1>5, <2>2, AnswerHarness
  <1>6. CASE SimulatorDies \/ SimulatorStarts
    <2>1. OneCall'
      BY <1>6 DEF SimulatorDies, SimulatorStarts, AnswerInv, OneCall, serverVars, historyVars
    <2>2. ~Healthy
      <3>1. SimulatorStarts => hpc = "down"
        BY DEF SimulatorStarts, HGoto
      <3> QED
        BY <1>6, <3>1 DEF SimulatorDies, Healthy, AnswerInv, OneMessage
    <2> QED
      BY <1>4, <2>1, <2>2
  <1> QED
    BY <1>2, <1>3, <1>5, <1>6 DEF Step

(* With a harness that answers in time, whatever the callers and the       *)
(* harness do between their steps, a call takes the answer to its own      *)
(* command, even where a torn command is answered without an id.           *)
THEOREM AnswerIsOwnCorrect == Spec => []AnswerIsOwn
  <1>1. AnswerInv => AnswerIsOwn
    BY DEF AnswerInv, OneCall, OneMessage, AnswerIsOwn
  <1> QED
    BY <1>1, AnswerInit, AnswerStep, PTL DEF Spec
=============================================================================
