------------------------ MODULE HarnessIpcRefinement ------------------------
(***************************************************************************)
(* The mailbox implements RemoteCall: for every number of callers and      *)
(* calls, calls are at most once, in order, and succeed only if their      *)
(* command ran, as long as the server is not replaced and a C harness does *)
(* not die between the execution of a command and its removal.             *)
(***************************************************************************)
EXTENDS HarnessIpcProofs

DiesSafely == \A e \in Environments : e.crashes => e.deleteFirst

(* The lock lets one call be made at a time, the latest; every other has   *)
(* returned.                                                               *)
Serial ==
    /\ \A c \in Callers : pc[c] # "idle" => /\ harnessMu = c /\ cur[c] = started
                                            /\ result[cur[c]] = "none"
    /\ \A n \in Calls : n <= started /\ result[n] = "none" =>
                            harnessMu # Nobody /\ n = started
    /\ \A n \in Calls : n > started => result[n] = "none" /\ runs[n] = 0

(* The harness holds a command that has not run, and neither has a later.  *)
HeldIsNew ==
    hpc = "execute" \/ (DeleteFirst /\ hpc = "delete") =>
        \A n \in Calls : n >= hcmd.call => runs[n] = 0

(* So does the mailbox, but for the command the C harness has executed and *)
(* is about to remove.                                                     *)
CommandIsNew ==
    command # Absent =>
        /\ \A n \in Calls : n > command.call => runs[n] = 0
        /\ runs[command.call] # 0 =>
               ~DeleteFirst /\ hpc \in {"shoot", "delete"} /\ command.call = hcmd.call

(* What is in the mailbox is never older than what the harness holds, and  *)
(* newer once the Lua harness has deleted what it read.                    *)
MailboxIsNewer ==
    command # Absent /\ hpc \in {"delete", "execute", "shoot"} =>
        /\ command.call >= hcmd.call
        /\ DeleteFirst /\ hpc # "delete" => command.call > hcmd.call

(* Before a call has written its command nothing knows of it.              *)
UnsentIsNew ==
    \A c \in Callers : pc[c] \in {"clear", "open"} =>
        /\ runs[started] = 0
        /\ command # Absent => command.call < started
        /\ hpc \in {"delete", "execute", "shoot"} => hcmd.call < started

OpenIsOwn ==
    \A c \in Callers : pc[c] = "write" /\ linked[c] =>
        command # Absent /\ command.call = cur[c]

(* A command runs once, and a success, wherever it is on its way, names a  *)
(* command that did.                                                       *)
Ran(r) == r.ok => r.named /\ runs[r.call] = 1

SuccessRan ==
    /\ \A n \in Calls : runs[n] \in {0, 1}
    /\ Ran(hresp)
    /\ response \in Response => Ran(response)
    /\ \A c \in Callers : Ran(got[c]) /\ (pc[c] = "read" => got[c].ok)

RunInv == HeldIsNew /\ CommandIsNew /\ MailboxIsNewer /\ UnsentIsNew /\ OpenIsOwn
RefInv == NamedInv /\ Serial /\ RunInv /\ SuccessRan

LEMMA RefInit == Init => RefInv
  <1> USE ConstantsAssumption
  <1> SUFFICES ASSUME Init PROVE RefInv
    OBVIOUS
  <1>1. NamedInv
    BY NamedInit
  <1>2. Serial
    BY DEF Init, Serial, Calls
  <1>3. RunInv
    BY DEF Init, RunInv, HeldIsNew, CommandIsNew, MailboxIsNewer, UnsentIsNew, OpenIsOwn
  <1>4. SuccessRan
    BY DEF Init, SuccessRan, Ran, NoResponse, Response
  <1> QED
    BY <1>1, <1>2, <1>3, <1>4 DEF RefInv

(* What the steps below need to know of the numbers.                       *)
LEMMA Numbers ==
  ASSUME NamedInv
  PROVE  /\ started \in Nat /\ started <= MaxCalls /\ MaxCalls \in Nat
         /\ \A n \in Calls : n \in Nat
         /\ command # Absent => command.call \in Calls /\ command.call <= started
         /\ hcmd.call \in Nat /\ hcmd.call <= started
         /\ hpc \in {"delete", "execute", "shoot", "publish", "inplace"} => hcmd.call \in Calls
         /\ runs \in [Calls -> 0..2]
         /\ \A c \in Callers : pc[c] # "idle" => cur[c] \in Calls
  <1> USE ConstantsAssumption DEF NamedInv, TypeInv, TypeOK, AtWork
  <1>1. hcmd.call \in Nat
    BY CallNumbers
  <1>2. command # Absent => command.call \in Calls /\ command.call <= started
    BY DEF Command, OnlyMadeCalls
  <1>3. hcmd.call <= started
    BY DEF OnlyMadeCalls
  <1>4. hpc \in {"delete", "execute", "shoot", "publish", "inplace"} => hcmd.call \in Calls
    BY DEF Command
  <1>5. \A n \in Calls : n \in Nat
    BY DEF Calls
  <1> QED
    BY <1>1, <1>2, <1>3, <1>4, <1>5

-----------------------------------------------------------------------------
(* One step of a caller.                                                   *)

LEMMA SerialCaller ==
  ASSUME RefInv, NEW c \in Callers,
         (\E k \in Kinds : Begin(c, k)) \/ CallerStep(c) \/ TimeOut(c)
  PROVE  Serial'
  <1> USE ConstantsAssumption DEF Serial
  <1>0. /\ started \in Nat /\ \A n \in Calls : n \in Nat
        /\ runs \in [Calls -> 0..2]
        /\ \A d \in Callers : pc[d] # "idle" => cur[d] \in Calls
    BY Numbers DEF RefInv
  <1>00. /\ pc \in [Callers -> {"idle", "clear", "open", "write", "wait", "discard",
                                "take", "read"}]
         /\ cur \in [Callers -> 0..MaxCalls]
         /\ result \in [Calls -> {"none", "ok", "error", "timeout", "abandoned"}]
    BY DEF RefInv, NamedInv, TypeInv, TypeOK
  <1>000. Serial
    BY DEF RefInv
  <1>1. ASSUME NEW k \in Kinds, Begin(c, k) PROVE Serial'
    <2>1. /\ harnessMu = Nobody /\ harnessMu' = c /\ started' = started + 1
          /\ pc' = [pc EXCEPT ![c] = "clear"] /\ cur' = [cur EXCEPT ![c] = started']
          /\ started' \in Calls
          /\ UNCHANGED <<result, runs>>
      BY <1>1, <1>0 DEF Begin, Goto, Calls
    <2>2. \A d \in Callers : pc[d] = "idle"
      BY <2>1, <1>000
    <2>3. result[started'] = "none"
      BY <2>1, <1>0, <1>000
    <2>4. \A n \in Calls : n <= started => result[n] # "none"
      BY <2>1, <1>000
    <2>5. \A n \in Calls : n <= started' => n <= started \/ n = started'
      BY <2>1, <1>0
    <2>6. \A n \in Calls : n > started' => n > started
      BY <2>1, <1>0
    <2> QED
      BY <1>00, <1>000, <2>1, <2>2, <2>3, <2>4, <2>5, <2>6
  <1>2. ASSUME NEW r \in {"ok", "error", "timeout"}, Finish(c, r), pc[c] # "idle"
        PROVE  Serial'
    <2>1. /\ harnessMu = c /\ cur[c] = started /\ cur[c] \in Calls
          /\ pc' = [pc EXCEPT ![c] = "idle"] /\ result' = [result EXCEPT ![started] = r]
          /\ UNCHANGED <<cur, started, runs>>
      BY <1>2, <1>0, <1>000 DEF Finish
    <2>2. \A d \in Callers : pc'[d] = "idle"
      BY <2>1, <1>00, <1>000
    <2>3. \A n \in Calls : n # started => result'[n] = result[n]
      BY <2>1, <1>00
    <2>4. result'[started] # "none"
      BY <2>1, <1>00
    <2> QED
      BY <1>0, <1>000, <2>1, <2>2, <2>3, <2>4
  <1>3. ASSUME UNCHANGED <<harnessMu, cur, started, result, runs>>, pc[c] # "idle",
               pc' = [pc EXCEPT ![c] = pc'[c]]
        PROVE  Serial'
    BY <1>3, <1>00, <1>000
  <1>4. CASE ClearStaleResponse(c) \/ TruncateCommand(c) \/ WriteCommand(c)
             \/ ReadResponse(c) \/ DiscardResponse(c)
    BY <1>4, <1>00, <1>3 DEF ClearStaleResponse, TruncateCommand, WriteCommand, ReadResponse,
       DiscardResponse, Goto, historyVars
  <1>5. CASE SendFails(c) \/ ReadScreenshot(c) \/ TimeOut(c)
    BY <1>5, <1>2 DEF SendFails, ReadScreenshot, TimeOut
  <1>6. CASE TakeResponse(c)
    BY <1>6, <1>00, <1>2, <1>3 DEF TakeResponse, Goto, historyVars
  <1> QED
    BY <1>1, <1>4, <1>5, <1>6 DEF CallerStep

(* A caller that neither begins nor touches the command.                   *)
LEMMA RunElsewhere ==
  ASSUME RefInv, NEW c \in Callers, NEW s, s \notin {"clear", "write"},
         s = "open" => pc[c] = "clear",
         pc' = [pc EXCEPT ![c] = s],
         UNCHANGED <<env, started, runs, command, hpc, hcmd, cur>>,
         \A d \in Callers : d # c => linked'[d] = linked[d]
  PROVE  RunInv'
  <1> USE DEF RunInv, DeleteFirst
  <1>1. RunInv /\ pc \in [Callers -> {"idle", "clear", "open", "write", "wait", "discard",
                                      "take", "read"}]
    BY DEF RefInv, NamedInv, TypeInv, TypeOK
  <1>2. UnsentIsNew'
    BY <1>1 DEF UnsentIsNew
  <1>3. OpenIsOwn'
    BY <1>1 DEF OpenIsOwn
  <1>4. HeldIsNew' /\ CommandIsNew' /\ MailboxIsNewer'
    BY <1>1 DEF HeldIsNew, CommandIsNew, MailboxIsNewer
  <1> QED
    BY <1>2, <1>3, <1>4

LEMMA RunOther ==
  ASSUME RefInv, NEW c \in Callers, UNCHANGED env,
         ClearStaleResponse(c) \/ ReadResponse(c) \/ DiscardResponse(c) \/ TakeResponse(c)
         \/ ReadScreenshot(c) \/ SendFails(c) \/ TimeOut(c)
  PROVE  RunInv'
  <1>1. CASE ClearStaleResponse(c)
    BY <1>1, RunElsewhere DEF ClearStaleResponse, Goto, historyVars
  <1>2. CASE ReadResponse(c)
    BY <1>2, RunElsewhere DEF ReadResponse, Goto, fileVars, harnessVars, historyVars
  <1>3. CASE DiscardResponse(c)
    BY <1>3, RunElsewhere DEF DiscardResponse, Goto, historyVars
  <1>4. CASE TakeResponse(c)
    BY <1>4, RunElsewhere DEF TakeResponse, Goto, Finish, historyVars
  <1>5. CASE ReadScreenshot(c)
    BY <1>5, RunElsewhere DEF ReadScreenshot, Finish, fileVars, harnessVars
  <1>6. CASE SendFails(c)
    <2>1. linked \in [Callers -> BOOLEAN]
      BY DEF RefInv, NamedInv, TypeInv, TypeOK
    <2> QED
      BY <1>6, <2>1, RunElsewhere DEF SendFails, Finish, fileVars, harnessVars
  <1>7. CASE TimeOut(c)
    BY <1>7, RunElsewhere DEF TimeOut, Finish, fileVars, harnessVars
  <1> QED
    BY <1>1, <1>2, <1>3, <1>4, <1>5, <1>6, <1>7

LEMMA RunCaller ==
  ASSUME RefInv, NEW c \in Callers,
         (\E k \in Kinds : Begin(c, k)) \/ CallerStep(c) \/ TimeOut(c), UNCHANGED env
  PROVE  RunInv'
  <1> USE ConstantsAssumption
      DEF RunInv, HeldIsNew, CommandIsNew, MailboxIsNewer, UnsentIsNew, OpenIsOwn, DeleteFirst
  <1>0. /\ started \in Nat /\ \A n \in Calls : n \in Nat
        /\ command # Absent => command.call \in Calls /\ command.call <= started
        /\ hcmd.call \in Nat /\ hcmd.call <= started
        /\ hpc \in {"delete", "execute", "shoot", "publish", "inplace"} => hcmd.call \in Calls
        /\ \A d \in Callers : pc[d] # "idle" => cur[d] \in Calls
    BY Numbers DEF RefInv
  <1>00. /\ pc \in [Callers -> {"idle", "clear", "open", "write", "wait", "discard",
                                "take", "read"}]
         /\ cur \in [Callers -> 0..MaxCalls]
         /\ linked \in [Callers -> BOOLEAN]
    BY DEF RefInv, NamedInv, TypeInv, TypeOK
  <1>000. RunInv /\ Serial
    BY DEF RefInv
  <1>1. ASSUME NEW k \in Kinds, Begin(c, k) PROVE RunInv'
    <2>1. /\ harnessMu = Nobody /\ started' = started + 1 /\ started' \in Calls
          /\ pc' = [pc EXCEPT ![c] = "clear"] /\ cur' = [cur EXCEPT ![c] = started']
          /\ UNCHANGED <<runs, command, hpc, hcmd, linked>>
      BY <1>1, <1>0 DEF Begin, Goto, Calls, fileVars, harnessVars
    <2>2. \A d \in Callers : pc[d] = "idle"
      BY <2>1, <1>000 DEF Serial
    <2>3. runs[started'] = 0
      BY <2>1, <1>0, <1>000 DEF Serial
    <2>4. UnsentIsNew'
      <3>1. ASSUME command # Absent PROVE command.call < started'
        <4>1. command.call \in Nat /\ command.call <= started
          BY <3>1, <1>0
        <4> QED
          BY <4>1, <2>1, <1>0
      <3>2. hcmd.call < started'
        BY <2>1, <1>0
      <3> QED
        BY <2>1, <2>3, <3>1, <3>2
    <2>5. OpenIsOwn'
      BY <2>1, <2>2, <1>00
    <2> QED
      BY <2>1, <2>4, <2>5, <1>000
  <1>3. CASE TruncateCommand(c)
    <2>1. /\ command' = [call |-> cur[c], whole |-> FALSE]
          /\ pc[c] = "open" /\ pc' = [pc EXCEPT ![c] = "write"]
          /\ cur[c] = started /\ started \in Calls
          /\ linked' = [linked EXCEPT ![c] = TRUE]
          /\ UNCHANGED <<started, runs, hpc, hcmd, cur>>
      BY <1>3, <1>0, <1>000 DEF TruncateCommand, Goto, harnessVars, historyVars, Serial
    <2>2. \A d \in Callers : d # c => pc[d] = "idle"
      BY <2>1, <1>000 DEF Serial
    <2>3. command'.call = started /\ runs[started] = 0
      BY <2>1, <1>000
    <2>4. CommandIsNew'
      BY <2>1, <2>3, <1>000 DEF Serial
    <2>5. MailboxIsNewer'
      BY <2>1, <2>3, <1>0, <1>000
    <2>6. UnsentIsNew'
      BY <2>1, <2>2, <1>00
    <2>7. OpenIsOwn'
      <3>1. command' \in Command
        BY <2>1 DEF Command
      <3> QED
        BY <2>1, <2>2, <3>1, <1>00
    <2>8. HeldIsNew'
      BY <2>1, <1>000
    <2> QED
      BY <2>4, <2>5, <2>6, <2>7, <2>8
  <1>4. CASE WriteCommand(c)
    <2>1. /\ command' = IF linked[c] THEN [call |-> cur[c], whole |-> TRUE] ELSE command
          /\ pc[c] = "write" /\ pc' = [pc EXCEPT ![c] = "wait"]
          /\ UNCHANGED <<started, runs, hpc, hcmd, cur>>
      BY <1>4 DEF WriteCommand, Goto, harnessVars, historyVars
    <2>2. \A d \in Callers : d # c => pc[d] = "idle"
      BY <2>1, <1>000 DEF Serial
    <2>3. command' # Absent => command # Absent /\ command'.call = command.call
      BY <2>1, <1>00, <1>000
    <2>4. UnsentIsNew' /\ OpenIsOwn'
      BY <2>1, <2>2, <1>00
    <2> QED
      BY <2>1, <2>3, <2>4, <1>000
  <1>5. CASE ClearStaleResponse(c) \/ ReadResponse(c) \/ DiscardResponse(c) \/ TakeResponse(c)
             \/ ReadScreenshot(c) \/ SendFails(c) \/ TimeOut(c)
    BY <1>5, RunOther
  <1> QED
    BY <1>1, <1>3, <1>4, <1>5 DEF CallerStep

LEMMA SuccessCaller ==
  ASSUME RefInv, NEW c \in Callers,
         (\E k \in Kinds : Begin(c, k)) \/ CallerStep(c) \/ TimeOut(c)
  PROVE  SuccessRan'
  <1> USE ConstantsAssumption DEF SuccessRan, Ran
  <1>0. /\ pc \in [Callers -> {"idle", "clear", "open", "write", "wait", "discard",
                                "take", "read"}]
        /\ got \in [Callers -> Response \cup {NoResponse}]
        /\ SuccessRan
    BY DEF RefInv, NamedInv, TypeInv, TypeOK
  <1>1. ASSUME UNCHANGED <<runs, got, hresp>>, response' \in {response, Absent},
               NEW s, s # "read", pc' = [pc EXCEPT ![c] = s]
        PROVE  SuccessRan'
    BY <1>1, <1>0
  <1>2. ASSUME NEW k \in Kinds, Begin(c, k) PROVE SuccessRan'
    BY <1>1, <1>2 DEF Begin, Goto, fileVars, harnessVars
  <1>3. CASE ReadResponse(c)
    <2>1. /\ response \in Response /\ got' = [got EXCEPT ![c] = response]
          /\ UNCHANGED <<runs, hresp, response>>
          /\ \A d \in Callers : pc'[d] = "read" => pc[d] = "read" /\ d # c
      BY <1>3, <1>0 DEF ReadResponse, Goto, fileVars, harnessVars, historyVars
    <2> QED
      BY <2>1, <1>0
  <1>4. CASE TakeResponse(c)
    <2>1. /\ UNCHANGED <<runs, got, hresp>> /\ response' = Absent
          /\ \A d \in Callers : pc'[d] = "read" => pc[d] = "read" \/ (d = c /\ got[c].ok)
      BY <1>4, <1>0 DEF TakeResponse, Goto, Finish, RemoveResponse, historyVars
    <2> QED
      BY <2>1, <1>0
  <1>5. CASE ClearStaleResponse(c)
    BY <1>1, <1>5 DEF ClearStaleResponse, Goto, RemoveResponse, historyVars
  <1>6. CASE TruncateCommand(c) \/ WriteCommand(c)
    BY <1>1, <1>6 DEF TruncateCommand, WriteCommand, Goto, harnessVars, historyVars
  <1>7. CASE SendFails(c) \/ ReadScreenshot(c) \/ TimeOut(c)
    BY <1>1, <1>7 DEF SendFails, ReadScreenshot, TimeOut, Finish, fileVars, harnessVars
  <1>8. CASE DiscardResponse(c)
    BY <1>1, <1>8 DEF DiscardResponse, Goto, RemoveResponse, historyVars
  <1> QED
    BY <1>2, <1>3, <1>4, <1>5, <1>6, <1>7, <1>8 DEF CallerStep

-----------------------------------------------------------------------------
(* One step of the harness.                                                *)

LEMMA SerialHarness ==
  ASSUME RefInv, HarnessStep
  PROVE  Serial'
  <1>1. UNCHANGED <<harnessMu, pc, cur, started, result>>
    BY DEF HarnessStep, HarnessRead, HarnessReadFails, HarnessDelete, HarnessReject,
       HarnessExecute, HarnessShoot, HarnessPublish, HarnessSaysNothing,
       HarnessTruncateResponse, HarnessWriteInPlace, serverVars, fileVars, historyVars
  <1>2. \A n \in Calls : n > started => runs'[n] = runs[n]
    <2>1. runs' = runs \/ runs' = [runs EXCEPT ![hcmd.call] = runs'[hcmd.call]]
      <3>1. CASE HarnessExecute
        <4>1. hcmd \in Command /\ runs \in [Calls -> 0..2]
          BY <3>1 DEF RefInv, NamedInv, TypeInv, TypeOK, AtWork, HarnessExecute
        <4>2. hcmd.call \in Calls
          BY <4>1 DEF Command
        <4> QED
          BY <3>1, <4>1, <4>2 DEF HarnessExecute
      <3> QED
        BY <3>1 DEF HarnessStep, HarnessRead, HarnessReadFails, HarnessDelete, HarnessReject,
           HarnessShoot, HarnessPublish, HarnessSaysNothing, HarnessTruncateResponse,
           HarnessWriteInPlace, historyVars
    <2>2. /\ hcmd.call \in Nat /\ hcmd.call <= started /\ started \in Nat
          /\ \A n \in Calls : n \in Nat
          /\ runs \in [Calls -> 0..2]
      BY Numbers DEF RefInv
    <2>3. \A n \in Calls : n > started => n # hcmd.call
      BY <2>2
    <2> QED
      BY <2>1, <2>2, <2>3
  <1>3. Serial
    BY DEF RefInv
  <1> QED
    BY <1>1, <1>2, <1>3 DEF Serial

LEMMA RunHarness ==
  ASSUME RefInv, HarnessStep, UNCHANGED env
  PROVE  RunInv'
  <1> USE DEF RunInv, HeldIsNew, CommandIsNew, MailboxIsNewer, UnsentIsNew, OpenIsOwn, DeleteFirst
  <1>0. /\ started \in Nat /\ \A n \in Calls : n \in Nat
        /\ command # Absent => command.call \in Calls
        /\ hcmd.call \in Nat
        /\ hpc = "execute" => hcmd.call \in Calls
        /\ runs \in [Calls -> 0..2]
    BY Numbers DEF RefInv
  <1>00. RunInv
    BY DEF RefInv
  <1>1. CASE HarnessRead
    <2>1. /\ command # Absent /\ hpc = "poll"
          /\ hpc' = IF DeleteFirst THEN "delete" ELSE "execute"
          /\ hcmd'.call = command.call
          /\ UNCHANGED <<pc, cur, linked, command, started, runs>>
      BY <1>1 DEF HarnessRead, HGoto, serverVars, fileVars, historyVars
    <2>2. \A n \in Calls : n >= command.call => runs[n] = 0
      BY <2>1, <1>0, <1>00
    <2>3. command.call >= command.call
      BY <2>1, <1>0
    <2> QED
      BY <2>1, <2>2, <2>3, <1>0, <1>00
  <1>2. CASE HarnessReadFails
    BY <1>2, <1>00 DEF HarnessReadFails, harnessVars, historyVars
  <1>3. CASE HarnessDelete
    BY <1>3, <1>00 DEF HarnessDelete, HGoto, historyVars
  <1>4. CASE HarnessReject
    BY <1>4, <1>00 DEF HarnessReject, HGoto, AfterExecute, serverVars, fileVars, historyVars
  <1>5. CASE HarnessExecute
    <2>1. /\ hpc = "execute" /\ hpc' \in {"shoot", AfterExecute}
          /\ \A n \in Calls : n # hcmd.call => runs'[n] = runs[n]
          /\ UNCHANGED <<pc, cur, linked, command, hcmd, started>>
      BY <1>5, <1>0 DEF HarnessExecute, serverVars
    <2>2. HeldIsNew'
      BY <2>1 DEF AfterExecute
    <2>3. MailboxIsNewer'
      BY <2>1, <1>00
    <2>4. CommandIsNew'
      <3> SUFFICES ASSUME command # Absent PROVE CommandIsNew'
        BY <2>1
      <3>1. command.call >= hcmd.call /\ (DeleteFirst => command.call > hcmd.call)
        BY <2>1, <1>00
      <3>2. \A n \in Calls : n > command.call => n # hcmd.call
        BY <3>1, <1>0
      <3>3. \A n \in Calls : n > command.call => runs'[n] = 0
        BY <3>2, <2>1, <1>00
      <3>4. CASE command.call = hcmd.call
        <4>1. ~DeleteFirst
          BY <3>1, <3>4, <1>0
        <4> QED
          BY <3>3, <3>4, <4>1, <2>1 DEF AfterExecute
      <3>5. CASE command.call # hcmd.call
        BY <3>3, <3>5, <2>1, <1>0, <1>00
      <3> QED
        BY <3>4, <3>5
    <2>5. UnsentIsNew'
      <3> SUFFICES ASSUME NEW d \in Callers, pc[d] \in {"clear", "open"}
                   PROVE  runs'[started] = 0
        BY <2>1, <1>00
      <3>1. hcmd.call < started /\ runs[started] = 0
        BY <2>1, <1>00
      <3>2. started \in Calls
        BY Numbers DEF RefInv, Serial
      <3> QED
        BY <3>1, <3>2, <2>1, <1>0
    <2>6. OpenIsOwn'
      BY <2>1, <1>00
    <2> QED
      BY <2>2, <2>3, <2>4, <2>5, <2>6
  <1>6. CASE HarnessShoot
    BY <1>6, <1>00 DEF HarnessShoot, HGoto, AfterExecute, serverVars, historyVars
  <1>7. CASE HarnessPublish \/ HarnessSaysNothing
    BY <1>7, <1>00 DEF HarnessPublish, HarnessSaysNothing, HGoto, serverVars, fileVars, historyVars
  <1>8. CASE HarnessTruncateResponse \/ HarnessWriteInPlace
    BY <1>8, <1>00 DEF HarnessTruncateResponse, HarnessWriteInPlace, HGoto, serverVars, historyVars
  <1> QED
    BY <1>1, <1>2, <1>3, <1>4, <1>5, <1>6, <1>7, <1>8 DEF HarnessStep

LEMMA SuccessHarness ==
  ASSUME RefInv, HarnessStep
  PROVE  SuccessRan'
  <1> USE DEF SuccessRan, Ran
  <1>0. /\ got \in [Callers -> Response \cup {NoResponse}]
        /\ hresp \in Response \cup {NoResponse}
        /\ runs \in [Calls -> 0..2]
        /\ SuccessRan
    BY DEF RefInv, NamedInv, TypeInv, TypeOK
  <1>1. CASE HarnessExecute
    <2>1. hcmd.call \in Calls /\ runs[hcmd.call] = 0
      <3>1. hcmd.call \in Calls /\ hcmd.call \in Nat
        BY <1>1, Numbers DEF RefInv, HarnessExecute
      <3> QED
        BY <1>1, <3>1 DEF RefInv, RunInv, HeldIsNew, HarnessExecute
    <2>2. /\ runs' = [runs EXCEPT ![hcmd.call] = 1]
          /\ hresp'.call = hcmd.call /\ hresp'.named = TRUE
          /\ UNCHANGED <<got, pc, response>>
      BY <1>1, <2>1 DEF HarnessExecute, serverVars
    <2>3. ASSUME NEW r \in Response \cup {NoResponse}, Ran(r), r.ok
          PROVE  r.named /\ runs'[r.call] = 1
      <3>1. r.call \in Calls
        BY <2>3 DEF Response, NoResponse
      <3> QED
        BY <2>1, <2>2, <2>3, <3>1, <1>0
    <2>4. response \in Response => Ran(response)'
      BY <2>2, <2>3, <1>0
    <2>5. \A d \in Callers : (Ran(got[d]))' /\ (pc'[d] = "read" => got'[d].ok)
      BY <2>2, <2>3, <1>0
    <2>6. Ran(hresp)'
      BY <2>1, <2>2, <1>0
    <2>7. \A n \in Calls : runs'[n] \in {0, 1}
      BY <2>1, <2>2, <1>0
    <2> QED
      BY <2>2, <2>4, <2>5, <2>6, <2>7
  <1>2. CASE HarnessRead \/ HarnessReadFails \/ HarnessDelete \/ HarnessShoot
             \/ HarnessSaysNothing
    BY <1>2, <1>0 DEF HarnessRead, HarnessReadFails, HarnessDelete, HarnessShoot,
       HarnessSaysNothing, serverVars, fileVars, harnessVars, historyVars
  <1>3. CASE HarnessReject
    BY <1>3, <1>0 DEF HarnessReject, serverVars, fileVars, historyVars
  <1>4. CASE HarnessPublish \/ HarnessWriteInPlace
    BY <1>4, <1>0 DEF HarnessPublish, HarnessWriteInPlace, serverVars, historyVars
  <1>5. CASE HarnessTruncateResponse
    <2>1. Torn \notin Response
      BY ConstantsAssumption
    <2> QED
      BY <1>5, <1>0, <2>1 DEF HarnessTruncateResponse, serverVars, historyVars
  <1> QED
    BY <1>1, <1>2, <1>3, <1>4, <1>5 DEF HarnessStep

-----------------------------------------------------------------------------
LEMMA RefStep ==
  ASSUME OneServer, DiesSafely
  PROVE  RefInv /\ [Next]_vars => RefInv'
  <1> SUFFICES ASSUME RefInv, [Next]_vars
               PROVE  Serial' /\ RunInv' /\ SuccessRan'
    BY NamedStep DEF RefInv
  <1> USE DEF RefInv
  <1>1. CASE UNCHANGED vars
    BY <1>1 DEF Serial, RunInv, HeldIsNew, CommandIsNew, MailboxIsNewer, UnsentIsNew, OpenIsOwn,
       DeleteFirst, SuccessRan, Ran, vars, ipcVars, serverVars, fileVars, harnessVars, historyVars
  <1>2. CASE (\E c \in Callers, k \in Kinds : Begin(c, k)) /\ UNCHANGED env
    BY <1>2, SerialCaller, RunCaller, SuccessCaller
  <1>3. CASE (\E c \in Callers : CallerStep(c) \/ TimeOut(c)) /\ UNCHANGED env
    BY <1>3, SerialCaller, RunCaller, SuccessCaller
  <1>4. ~RestartServer
    BY DEF OneServer, NamedInv, TypeInv, TypeOK, RestartServer, MayRestartServer
  <1>5. CASE HarnessStep /\ UNCHANGED env
    BY <1>5, SerialHarness, RunHarness, SuccessHarness
  <1>6. CASE SimulatorDies /\ UNCHANGED env
    <2>1. DeleteFirst
      BY <1>6 DEF DiesSafely, NamedInv, TypeInv, TypeOK, SimulatorDies, MayCrash, DeleteFirst
    <2>2. /\ UNCHANGED <<env, serverVars, command, response, hcmd, hresp, started, runs, result>>
          /\ hpc' = "down"
      BY <1>6 DEF SimulatorDies, fileVars, historyVars
    <2> QED
      BY <2>1, <2>2 DEF Serial, RunInv, HeldIsNew, CommandIsNew, MailboxIsNewer, UnsentIsNew,
         OpenIsOwn, DeleteFirst, SuccessRan, Ran, serverVars
  <1>7. CASE SimulatorStarts /\ UNCHANGED env
    <2>1. /\ UNCHANGED <<env, serverVars, command, response, hcmd, hresp, started, runs, result>>
          /\ hpc = "down" /\ hpc' = "poll"
      BY <1>7 DEF SimulatorStarts, HGoto, fileVars, historyVars
    <2> QED
      BY <2>1 DEF Serial, RunInv, HeldIsNew, CommandIsNew, MailboxIsNewer, UnsentIsNew,
         OpenIsOwn, DeleteFirst, SuccessRan, Ran, serverVars
  <1> QED
    BY <1>1, <1>2, <1>3, <1>4, <1>5, <1>6, <1>7 DEF Next, Step

-----------------------------------------------------------------------------
(* Every step of the mailbox is a step of RemoteCall, or none.             *)

Stutters == UNCHANGED <<started, runs, result>>

LEMMA ReturnIsReturn ==
  ASSUME RefInv, NEW c \in Callers, pc[c] # "idle", NEW r \in RC!Outcome,
         Finish(c, r), r = "ok" => runs[cur[c]] = 1
  PROVE  RC!Return(cur[c], r) /\ cur[c] \in Calls
  <1>1. cur[c] \in Calls /\ cur[c] = started /\ result[cur[c]] = "none" /\ started \in Nat
    BY Numbers DEF RefInv, Serial
  <1> QED
    BY <1>1 DEF RC!Return, RC!Open, Finish

LEMMA CallerRefines ==
  ASSUME RefInv, NEW c \in Callers,
         (\E k \in Kinds : Begin(c, k)) \/ CallerStep(c) \/ TimeOut(c)
  PROVE  RC!Next \/ Stutters
  <1>0. /\ started \in Nat /\ MaxCalls \in Nat
        /\ \A n \in Calls : n <= started /\ result[n] = "none" => harnessMu # Nobody
        /\ NamedAnswerIsOwn /\ SuccessRan
    BY Numbers DEF RefInv, Serial, NamedInv
  <1>1. ASSUME NEW k \in Kinds, Begin(c, k) PROVE RC!Begin
    <2>1. started + 1 \in Calls
      BY <1>0, <1>1 DEF Begin, Calls
    <2> QED
      BY <1>0, <1>1, <2>1 DEF RC!Begin, RC!Open, Begin
  <1>2. ASSUME NEW r \in RC!Outcome, Finish(c, r), pc[c] # "idle", r = "ok" => runs[cur[c]] = 1
        PROVE  RC!Next
    BY <1>2, ReturnIsReturn DEF RC!Next
  <1>3. CASE ClearStaleResponse(c) \/ TruncateCommand(c) \/ WriteCommand(c)
             \/ ReadResponse(c) \/ DiscardResponse(c)
    BY <1>3 DEF Stutters, ClearStaleResponse, TruncateCommand, WriteCommand, ReadResponse,
       DiscardResponse, historyVars
  <1>4. CASE SendFails(c) \/ TimeOut(c)
    BY <1>2, <1>4 DEF SendFails, TimeOut, RC!Outcome
  <1>5. CASE TakeResponse(c)
    <2>1. got[c].ok => runs[cur[c]] = 1
      BY <1>0, <1>5 DEF TakeResponse, NamedAnswerIsOwn, SuccessRan, Ran
    <2>2. Finish(c, IF got[c].ok THEN "ok" ELSE "error") \/ Stutters
      BY <1>5 DEF TakeResponse, Stutters, historyVars
    <2> QED
      BY <1>2, <1>5, <2>1, <2>2 DEF TakeResponse, RC!Outcome
  <1>6. CASE ReadScreenshot(c)
    <2>1. runs[cur[c]] = 1
      BY <1>0, <1>6 DEF ReadScreenshot, NamedAnswerIsOwn, SuccessRan, Ran
    <2> QED
      BY <1>2, <1>6, <2>1 DEF ReadScreenshot, RC!Outcome
  <1> QED
    BY <1>1, <1>3, <1>4, <1>5, <1>6 DEF CallerStep, RC!Next

LEMMA HarnessRefines ==
  ASSUME RefInv, HarnessStep
  PROVE  RC!Next \/ Stutters
  <1>1. CASE HarnessExecute
    <2>1. /\ hcmd.call \in Calls /\ hcmd.call \in Nat /\ hcmd.call <= started
          /\ \A n \in Calls : n \in Nat
          /\ runs \in [Calls -> 0..2]
      BY <1>1, Numbers DEF RefInv, HarnessExecute
    <2>2. \A n \in Calls : n >= hcmd.call => runs[n] = 0
      BY <1>1 DEF RefInv, RunInv, HeldIsNew, HarnessExecute
    <2>3. runs[hcmd.call] = 0 /\ \A m \in Calls : runs[m] > 0 => m < hcmd.call
      BY <2>1, <2>2
    <2>4. runs' = [runs EXCEPT ![hcmd.call] = 1] /\ UNCHANGED <<started, result>>
      BY <1>1, <2>3 DEF HarnessExecute
    <2>5. RC!Run(hcmd.call)
      BY <2>1, <2>3, <2>4 DEF RC!Run
    <2> QED
      BY <2>1, <2>5 DEF RC!Next
  <1> QED
    BY <1>1 DEF Stutters, HarnessStep, HarnessRead, HarnessReadFails, HarnessDelete,
       HarnessReject, HarnessShoot, HarnessPublish, HarnessSaysNothing,
       HarnessTruncateResponse, HarnessWriteInPlace, historyVars

LEMMA StepRefines ==
  ASSUME OneServer
  PROVE  RefInv /\ [Next]_vars => [RC!Next]_<<started, runs, result>>
  <1> SUFFICES ASSUME RefInv, [Next]_vars PROVE RC!Next \/ Stutters
    BY DEF Stutters
  <1>1. CASE UNCHANGED vars
    BY <1>1 DEF Stutters, vars, ipcVars, historyVars
  <1>2. CASE \E c \in Callers, k \in Kinds : Begin(c, k)
    BY <1>2, CallerRefines
  <1>3. CASE \E c \in Callers : CallerStep(c) \/ TimeOut(c)
    BY <1>3, CallerRefines
  <1>4. ~RestartServer
    BY DEF OneServer, RefInv, NamedInv, TypeInv, TypeOK, RestartServer, MayRestartServer
  <1>5. CASE HarnessStep
    BY <1>5, HarnessRefines
  <1>6. CASE SimulatorDies \/ SimulatorStarts
    BY <1>6 DEF Stutters, SimulatorDies, SimulatorStarts, historyVars
  <1> QED
    BY <1>1, <1>2, <1>3, <1>4, <1>5, <1>6 DEF Next, Step

(* The calls of the tools are at most once, in order, and successful only  *)
(* if their command ran, whichever harness is in the game and whatever     *)
(* times out or fails, as long as one server lives and only a Simulator    *)
(* with the Lua harness dies: the C harness removes a command after it has *)
(* run it, and a death in between runs it again.                           *)
THEOREM ImplementsRemoteCallCorrect ==
  ASSUME OneServer, DiesSafely
  PROVE  Spec => ImplementsRemoteCall
  <1>1. Init => RC!Init
    BY DEF Init, RC!Init
  <1>2. RefInv /\ [Next]_vars => RefInv'
    BY RefStep
  <1>3. RefInv /\ [Next]_vars => [RC!Next]_<<started, runs, result>>
    BY StepRefines
  <1> QED
    BY <1>1, <1>2, <1>3, RefInit, PTL DEF Spec, ImplementsRemoteCall, RC!Spec
-----------------------------------------------------------------------------
(* The response is the commit point of the screenshot file: for every      *)
(* number of callers and calls, the image a call returns is its own.       *)

(* The file holds the frame of the latest call, or that was not written    *)
(* and the server can tell only if the frame is a raw one.                 *)
Shown ==
    \/ shot = started
    \/ started \in unwritten /\ (DeleteFirst \/ shot = Torn)

(* That is so if r reports the frame as drawn.                             *)
Shows(r) ==
    r.ok /\ kindOf[r.call] = "screenshot" /\ r.call = started => Shown

Older(r) == r.ok => r.call < hcmd.call

(* Every success on its way shows its frame.  While the harness draws, the *)
(* successes on their way are those of earlier calls.                      *)
ShotInv ==
    /\ response \in Response => Shows(response) /\ (hpc = "shoot" => Older(response))
    /\ \A c \in Callers : Shows(got[c]) /\ (hpc = "shoot" => Older(got[c]))
    /\ hpc \in {"publish", "inplace"} \/ (hpc = "delete" /\ ~DeleteFirst) => Shows(hresp)
    /\ hpc = "shoot" => hresp.call = hcmd.call /\ shot = Torn

FrameInv == RefInv /\ ShotInv /\ ScreenshotIsOwn

LEMMA FrameInit == Init => FrameInv
  <1> SUFFICES ASSUME Init PROVE FrameInv
    OBVIOUS
  <1>1. RefInv
    BY RefInit
  <1>2. ShotInv
    BY ConstantsAssumption DEF Init, ShotInv, Shows, Older, NoResponse, Response
  <1>3. ScreenshotIsOwn
    BY DEF Init, ScreenshotIsOwn
  <1> QED
    BY <1>1, <1>2, <1>3 DEF FrameInv

(* A step that neither draws nor makes a call keeps what is shown.         *)
LEMMA ShotSame ==
  ASSUME FrameInv,
         UNCHANGED <<env, started, kindOf, unwritten, shot, hpc, hcmd, hresp>>,
         response' \in {response, Absent},
         \A c \in Callers : got'[c] \in {got[c], response},
         \A c \in Callers : got'[c] # got[c] => response \in Response
  PROVE  ShotInv'
  <1> USE DEF FrameInv, ShotInv, Shows, Shown, Older, DeleteFirst
  <1>1. Absent \notin Response
    BY ConstantsAssumption
  <1>2. \A c \in Callers : Shows(got'[c]) /\ (hpc = "shoot" => Older(got'[c]))
    OBVIOUS
  <1>3. response' \in Response => Shows(response') /\ (hpc = "shoot" => Older(response'))
    BY <1>1
  <1> QED
    BY <1>2, <1>3

LEMMA ShotCaller ==
  ASSUME FrameInv, NEW c \in Callers, UNCHANGED env,
         (\E k \in Kinds : Begin(c, k)) \/ CallerStep(c) \/ TimeOut(c)
  PROVE  ShotInv'
  <1>0. got \in [Callers -> Response \cup {NoResponse}]
    BY DEF FrameInv, RefInv, NamedInv, TypeInv, TypeOK
  <1>1. ASSUME NEW k \in Kinds, Begin(c, k) PROVE ShotInv'
    <2>1. /\ started' = started + 1 /\ kindOf' = [kindOf EXCEPT ![started'] = k]
          /\ UNCHANGED <<env, got, response, shot, hpc, hcmd, hresp>>
      BY <1>1 DEF Begin, fileVars, harnessVars
    <2>2. /\ started \in Nat /\ kindOf \in [Calls -> Kinds] /\ hresp \in Response \cup {NoResponse}
          /\ \A n \in Calls : n \in Nat
      BY Numbers DEF FrameInv, RefInv, NamedInv, TypeInv, TypeOK
    <2>3. /\ \A d \in Callers : got[d].call <= started
          /\ response \in Response => response.call <= started
          /\ hresp.call <= started
      BY DEF FrameInv, RefInv, NamedInv, OnlyMadeCalls
    <2>4. ASSUME NEW r \in Response \cup {NoResponse}, r.call <= started
          PROVE  (Shows(r))'
      <3>1. r.call \in Nat
        BY CallNumbers, <2>2 DEF Response, NoResponse
      <3>2. r.call # started'
        BY <2>1, <2>2, <2>4, <3>1
      <3> QED
        BY <3>2, <2>1 DEF Shows
    <2> QED
      BY <1>0, <2>1, <2>2, <2>3, <2>4 DEF FrameInv, ShotInv, Older, DeleteFirst
  <1>2. CASE ClearStaleResponse(c) \/ DiscardResponse(c)
    BY <1>2, ShotSame DEF ClearStaleResponse, DiscardResponse, RemoveResponse, historyVars
  <1>3. CASE TruncateCommand(c) \/ WriteCommand(c)
    BY <1>3, ShotSame DEF TruncateCommand, WriteCommand, harnessVars, historyVars
  <1>4. CASE SendFails(c) \/ ReadScreenshot(c) \/ TimeOut(c)
    BY <1>4, ShotSame DEF SendFails, ReadScreenshot, TimeOut, Finish, fileVars, harnessVars
  <1>5. CASE ReadResponse(c)
    BY <1>0, <1>5, ShotSame DEF ReadResponse, fileVars, harnessVars, historyVars
  <1>6. CASE TakeResponse(c)
    BY <1>6, ShotSame DEF TakeResponse, Finish, RemoveResponse, historyVars
  <1> QED
    BY <1>1, <1>2, <1>3, <1>4, <1>5, <1>6 DEF CallerStep

LEMMA OwnCaller ==
  ASSUME FrameInv, NEW c \in Callers, UNCHANGED env,
         (\E k \in Kinds : Begin(c, k)) \/ CallerStep(c) \/ TimeOut(c)
  PROVE  ScreenshotIsOwn'
  <1>0. /\ result \in [Calls -> {"none", "ok", "error", "timeout", "abandoned"}]
        /\ kindOf \in [Calls -> Kinds]
        /\ image \in [Calls -> Calls \cup {Absent, Torn}]
        /\ started \in Nat /\ \A n \in Calls : n \in Nat
        /\ \A n \in Calls : n > started => result[n] = "none"
        /\ pc[c] # "idle" => cur[c] = started /\ started \in Calls
        /\ ScreenshotIsOwn
    BY Numbers DEF FrameInv, RefInv, Serial, NamedInv, TypeInv, TypeOK
  <1>1. ASSUME UNCHANGED <<env, kindOf, unwritten, image>>, pc[c] # "idle",
               \/ UNCHANGED result
               \/ \E r : Finish(c, r) /\ (r = "ok" => kindOf[started] # "screenshot")
        PROVE  ScreenshotIsOwn'
    BY <1>0, <1>1 DEF ScreenshotIsOwn, Finish, DeleteFirst
  <1>2. ASSUME NEW k \in Kinds, Begin(c, k) PROVE ScreenshotIsOwn'
    <2>1. /\ started' = started + 1 /\ kindOf' = [kindOf EXCEPT ![started'] = k]
          /\ UNCHANGED <<unwritten, result, image>>
      BY <1>2 DEF Begin
    <2>2. \A n \in Calls : result[n] # "none" => n # started'
      BY <1>0, <2>1
    <2> QED
      BY <1>0, <2>1, <2>2 DEF ScreenshotIsOwn, DeleteFirst
  <1>3. CASE ClearStaleResponse(c) \/ TruncateCommand(c) \/ WriteCommand(c)
             \/ ReadResponse(c) \/ DiscardResponse(c)
    BY <1>3, <1>0 DEF ClearStaleResponse, TruncateCommand, WriteCommand, ReadResponse,
       DiscardResponse, historyVars, ScreenshotIsOwn, DeleteFirst
  <1>4. CASE SendFails(c) \/ TimeOut(c)
    <2>1. /\ UNCHANGED <<kindOf, unwritten, image>> /\ pc[c] # "idle"
          /\ \E r : Finish(c, r) /\ r # "ok"
      BY <1>4 DEF SendFails, TimeOut, Finish
    <2> QED
      BY <2>1, <1>1
  <1>5. CASE TakeResponse(c)
    <2>1. /\ UNCHANGED <<kindOf, unwritten, image>> /\ pc[c] # "idle"
          /\ \/ UNCHANGED result
             \/ /\ Finish(c, IF got[c].ok THEN "ok" ELSE "error")
                /\ got[c].ok => kindOf[cur[c]] # "screenshot"
      BY <1>5 DEF TakeResponse, Finish, historyVars
    <2> QED
      BY <2>1, <1>0, <1>1
  <1>6. CASE ReadScreenshot(c)
    <2>1. CASE Finish(c, "error") /\ UNCHANGED image
      BY <2>1, <1>6, <1>1 DEF Finish, ReadScreenshot
    <2>2. CASE Readable /\ Finish(c, "ok") /\ image' = [image EXCEPT ![cur[c]] = shot]
      <3>1. /\ result' = [result EXCEPT ![started] = "ok"]
            /\ image' = [image EXCEPT ![started] = shot]
            /\ UNCHANGED <<kindOf, unwritten>>
        BY <2>2, <1>6, <1>0 DEF ReadScreenshot, Finish
      <3>2. got[c].ok /\ got[c].call = started
        BY <1>0, <1>6 DEF FrameInv, RefInv, NamedInv, NamedAnswerIsOwn, SuccessRan, Ran, ReadScreenshot
      <3>3. kindOf[started] = "screenshot" => Shown
        BY <3>2 DEF FrameInv, ShotInv, Shows
      <3>4. kindOf[started] = "screenshot" =>
                shot = started \/ (DeleteFirst /\ started \in unwritten)
        BY <2>2, <3>3 DEF Readable, Shown
      <3> QED
        BY <3>1, <3>4, <1>0 DEF ScreenshotIsOwn, DeleteFirst
    <2> QED
      BY <1>6, <2>1, <2>2 DEF ReadScreenshot
  <1> QED
    BY <1>2, <1>3, <1>4, <1>5, <1>6 DEF CallerStep

LEMMA ShotHarness ==
  ASSUME FrameInv, HarnessStep, UNCHANGED env
  PROVE  ShotInv'
  <1> USE DEF Shows, Shown, Older, DeleteFirst
  <1>0. /\ got \in [Callers -> Response \cup {NoResponse}]
        /\ ShotInv /\ SuccessRan
        /\ started \in Nat /\ hcmd.call \in Nat /\ hcmd.call <= started
        /\ \A n \in Calls : n \in Nat
    BY Numbers DEF FrameInv, RefInv, NamedInv, TypeInv, TypeOK
  <1>1. CASE HarnessExecute
    <2>1. PICK ok \in BOOLEAN :
            /\ hresp' = [call |-> hcmd.call, named |-> TRUE, ok |-> ok]
            /\ \/ hpc' = "shoot" /\ shot' = Torn
               \/ hpc' = AfterExecute /\ UNCHANGED shot
                  /\ (ok => \/ kindOf[hcmd.call] # "screenshot"
                            \/ DeleteFirst /\ hcmd.call \in unwritten')
      BY <1>1 DEF HarnessExecute, GoesUnwritten
    <2>2. UNCHANGED <<env, got, response, started, kindOf, hcmd>>
      BY <1>1 DEF HarnessExecute, serverVars
    <2>3. \A n \in Calls : n >= hcmd.call => runs[n] = 0
      BY <1>1 DEF FrameInv, RefInv, RunInv, HeldIsNew, HarnessExecute
    <2>4. ASSUME NEW r \in Response \cup {NoResponse}, Ran(r), r.ok
          PROVE  r.call < hcmd.call /\ r.call # started
      <3>1. r.call \in Calls /\ runs[r.call] = 1
        BY <2>4 DEF Response, NoResponse, Ran
      <3> QED
        BY <3>1, <2>3, <1>0
    <2>5. \A d \in Callers : got[d].ok => got[d].call < hcmd.call /\ got[d].call # started
      BY <2>4, <1>0 DEF SuccessRan
    <2>6. response \in Response /\ response.ok =>
              response.call < hcmd.call /\ response.call # started
      BY <2>4, <1>0 DEF SuccessRan
    <2> QED
      BY <2>1, <2>2, <2>5, <2>6 DEF ShotInv, AfterExecute
  <1>2. CASE HarnessShoot
    <2>1. /\ \/ shot' = hcmd.call
             \/ hcmd.call \in unwritten' /\ shot' = Torn
          /\ hpc = "shoot" /\ hpc' # "shoot"
          /\ UNCHANGED <<env, got, response, started, kindOf, hcmd, hresp>>
      BY <1>2, <1>0 DEF HarnessShoot, GoesUnwritten, HGoto, AfterExecute, serverVars, ShotInv
    <2>2. \A d \in Callers : got[d].ok => got[d].call # started
      BY <2>1, <1>0 DEF ShotInv, Response, NoResponse
    <2>3. response \in Response /\ response.ok => response.call # started
      BY <2>1, <1>0 DEF ShotInv, Response
    <2> QED
      BY <2>1, <2>2, <2>3, <1>0 DEF ShotInv
  <1>3. CASE HarnessRead
    BY <1>3, <1>0 DEF HarnessRead, HGoto, ShotInv, serverVars, fileVars, historyVars
  <1>4. CASE HarnessReadFails
    BY <1>4, <1>0 DEF HarnessReadFails, ShotInv, harnessVars, historyVars
  <1>5. CASE HarnessDelete
    BY <1>5, <1>0 DEF HarnessDelete, HGoto, ShotInv, historyVars
  <1>6. CASE HarnessReject
    BY <1>6, <1>0 DEF HarnessReject, HGoto, AfterExecute, ShotInv, serverVars, fileVars, historyVars
  <1>7. CASE HarnessPublish \/ HarnessSaysNothing
    BY <1>7, <1>0 DEF HarnessPublish, HarnessSaysNothing, HGoto, ShotInv, serverVars, fileVars,
       historyVars
  <1>8. CASE HarnessTruncateResponse
    <2>1. Torn \notin Response
      BY ConstantsAssumption
    <2> QED
      BY <1>8, <1>0, <2>1 DEF HarnessTruncateResponse, HGoto, ShotInv, serverVars, historyVars
  <1>9. CASE HarnessWriteInPlace
    BY <1>9, <1>0 DEF HarnessWriteInPlace, HGoto, ShotInv, serverVars, historyVars
  <1> QED
    BY <1>1, <1>2, <1>3, <1>4, <1>5, <1>6, <1>7, <1>8, <1>9 DEF HarnessStep

LEMMA OwnHarness ==
  ASSUME FrameInv, HarnessStep, UNCHANGED env
  PROVE  ScreenshotIsOwn'
  BY DEF FrameInv, DeleteFirst, GoesUnwritten, ScreenshotIsOwn, HarnessStep, HarnessRead, HarnessReadFails, HarnessDelete,
     HarnessReject, HarnessExecute, HarnessShoot, HarnessPublish, HarnessSaysNothing,
     HarnessTruncateResponse, HarnessWriteInPlace, historyVars

LEMMA FrameStep ==
  ASSUME OneServer, DiesSafely
  PROVE  FrameInv /\ [Next]_vars => FrameInv'
  <1> SUFFICES ASSUME FrameInv, [Next]_vars PROVE ShotInv' /\ ScreenshotIsOwn'
    BY RefStep DEF FrameInv
  <1>1. CASE UNCHANGED vars
    BY <1>1 DEF FrameInv, ShotInv, Shows, Shown, Older, ScreenshotIsOwn, DeleteFirst, vars, ipcVars,
       serverVars, fileVars, harnessVars, historyVars
  <1>2. CASE (\E c \in Callers, k \in Kinds : Begin(c, k)) /\ UNCHANGED env
    BY <1>2, ShotCaller, OwnCaller
  <1>3. CASE (\E c \in Callers : CallerStep(c) \/ TimeOut(c)) /\ UNCHANGED env
    BY <1>3, ShotCaller, OwnCaller
  <1>4. ~RestartServer
    BY DEF OneServer, FrameInv, RefInv, NamedInv, TypeInv, TypeOK, RestartServer,
       MayRestartServer
  <1>5. CASE HarnessStep /\ UNCHANGED env
    BY <1>5, ShotHarness, OwnHarness
  <1>6. CASE (SimulatorDies \/ SimulatorStarts) /\ UNCHANGED env
    <2>1. /\ UNCHANGED <<env, got, response, shot, hcmd, hresp, historyVars>>
          /\ hpc' \in {"down", "poll"}
      BY <1>6 DEF SimulatorDies, SimulatorStarts, HGoto, serverVars, fileVars
    <2> QED
      BY <2>1 DEF FrameInv, ShotInv, Shows, Shown, Older, ScreenshotIsOwn, DeleteFirst, historyVars
  <1> QED
    BY <1>1, <1>2, <1>3, <1>4, <1>5, <1>6 DEF Next, Step

(* The image a get_screenshot call returns is the frame drawn for it,      *)
(* complete, under the conditions of the refinement: a later call's frame, *)
(* or half of one, is never taken for it.  Only of a Lua game whose image  *)
(* was not written does it return another.                                 *)
THEOREM ScreenshotIsOwnCorrect ==
  ASSUME OneServer, DiesSafely
  PROVE  Spec => []ScreenshotIsOwn
  <1>1. FrameInv => ScreenshotIsOwn
    BY DEF FrameInv
  <1>2. FrameInv /\ [Next]_vars => FrameInv'
    BY FrameStep
  <1> QED
    BY <1>1, <1>2, FrameInit, PTL DEF Spec
=============================================================================
