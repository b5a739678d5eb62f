----------------------------- MODULE HarnessIpc -----------------------------
(***************************************************************************)
(* The mailbox between the MCP server and the harness inside the game:     *)
(* mcp/command.json and mcp/response.json in the game's data directory,    *)
(* one outstanding request at a time.  Tool calls of the server (package   *)
(* internal/tools) take harnessMu and talk to the mailbox through package  *)
(* internal/harness; the harness (c-harness/mcp_harness.c or               *)
(* lua/mcp_harness.lua) polls it once a frame.  Every step below is one    *)
(* file-system operation of one side, so the two sides interleave between  *)
(* any two of them.                                                        *)
(*                                                                         *)
(* A call is named by its number, the order in which calls are made over   *)
(* the life of the game.  The number is for the reader: on the wire a      *)
(* command only carries idOf[n], which the server counts from 1 again when *)
(* it restarts.                                                            *)
(***************************************************************************)
EXTENDS Naturals

CONSTANTS
    Callers,          \* tool calls the go-sdk dispatches concurrently
    MaxCalls,         \* bound on the calls made
    Absent,           \* the file does not exist
    Torn,             \* the file exists but its content is still to come
    Nobody,           \* harnessMu is free
    Environments      \* the games and the failures considered

Calls == 1..MaxCalls

Environment == [
    deleteFirst : BOOLEAN,  \* TRUE: Lua harness, which deletes the command before
                            \* executing it.  FALSE: C harness, which does so after
    timesOut : BOOLEAN,     \* responseTimeout can pass
    crashes : BOOLEAN,      \* the Simulator can die between two steps
    failsIo : BOOLEAN,      \* an operation on a file can fail
    restarts : BOOLEAN]     \* the server process can be replaced by a new one

(* "newer" is a type that a harness vendored into the game before the type *)
(* existed does not know; "plain" is every other type but screenshot.      *)
Kinds == {"plain", "screenshot", "newer"}

(* command.json as call n leaves it: truncated by it, or written by it.    *)
Command == [call : Calls, whole : BOOLEAN]

(* A response made from the command of a call.  Only a named one carries   *)
(* the id: one to a command that did not parse does not.                   *)
Response == [call : Calls, named : BOOLEAN, ok : BOOLEAN]

ASSUME ConstantsAssumption ==
    /\ MaxCalls \in Nat
    /\ Nobody \notin Callers
    /\ Absent \notin Command \cup Response \cup {Torn}
    /\ Torn \notin Response
    /\ Environments \subseteq Environment

VARIABLES
    env,        \* the environment of this behaviour
    (* the server *)
    harnessMu,  \* the caller that holds it, or Nobody
    nextID,     \* Server.nextID
    pc,         \* where each caller is
    cur,        \* the call each caller is making
    got,        \* the response a caller has read and is about to remove
    linked,     \* the command.json a caller opened is still at its path
    (* the data directory *)
    command, response,
    shot,       \* the call whose frame the screenshot file holds, or Torn
    (* the harness *)
    hpc,
    hcmd,       \* the content it read
    hresp,      \* the response it is about to publish
    hlinked,    \* the response.json it writes in place is still at its path
    (* what happened, for the properties *)
    started,    \* how many calls were made
    idOf, kindOf,
    runs,       \* executions of each call's command: 0, 1, or 2 for more
    unwritten,  \* screenshots answered though their file was not written
    result,     \* what each call returned
    image       \* the frame a screenshot call returned

serverVars == <<harnessMu, nextID, pc, cur, got, linked>>
fileVars == <<command, response, shot>>
harnessVars == <<hpc, hcmd, hresp, hlinked>>
historyVars == <<started, idOf, kindOf, runs, unwritten, result, image>>
ipcVars == <<serverVars, fileVars, harnessVars, historyVars>>
vars == <<env, ipcVars>>

DeleteFirst == env.deleteFirst
MayTimeOut == env.timesOut
MayCrash == env.crashes
MayFailIo == env.failsIo
MayRestartServer == env.restarts

(* The harness answers within the timeout, and nothing fails.              *)
Healthy == ~MayTimeOut /\ ~MayCrash /\ ~MayFailIo /\ ~MayRestartServer

NoResponse == [call |-> 0, named |-> FALSE, ok |-> FALSE]
NoCommand == [call |-> 0, whole |-> FALSE]

Init ==
    /\ env \in Environments
    /\ harnessMu = Nobody
    /\ nextID = 0
    /\ pc = [c \in Callers |-> "idle"]
    /\ cur = [c \in Callers |-> 0]
    /\ got = [c \in Callers |-> NoResponse]
    /\ linked = [c \in Callers |-> FALSE]
    /\ command = Absent /\ response = Absent /\ shot = Absent
    /\ hpc = "poll"
    /\ hcmd = NoCommand /\ hresp = NoResponse /\ hlinked = FALSE
    /\ started = 0
    /\ idOf = [n \in Calls |-> 0]
    /\ kindOf = [n \in Calls |-> "plain"]
    /\ runs = [n \in Calls |-> 0]
    /\ unwritten = {}
    /\ result = [n \in Calls |-> "none"]
    /\ image = [n \in Calls |-> Absent]

-----------------------------------------------------------------------------
(* The server: roundTrip, SendCommand and WaitForResponse.                 *)

Goto(c, from, to) == pc[c] = from /\ pc' = [pc EXCEPT ![c] = to]

(* Mutant: calls are not serialized.                                       *)
Begin_NoLock(c, k) ==
    /\ Goto(c, "idle", "clear")
    /\ started < MaxCalls
    /\ harnessMu' = c
    /\ nextID' = nextID + 1
    /\ started' = started + 1
    /\ cur' = [cur EXCEPT ![c] = started']
    /\ idOf' = [idOf EXCEPT ![started'] = nextID']
    /\ kindOf' = [kindOf EXCEPT ![started'] = k]
    /\ UNCHANGED <<got, linked, fileVars, harnessVars, runs, unwritten, result, image>>

(* A tool call of kind k: waits for harnessMu, then takes the next id.     *)
Begin(c, k) ==
    /\ Goto(c, "idle", "clear")
    /\ harnessMu = Nobody
    /\ started < MaxCalls
    /\ harnessMu' = c
    /\ nextID' = nextID + 1
    /\ started' = started + 1
    /\ cur' = [cur EXCEPT ![c] = started']
    /\ idOf' = [idOf EXCEPT ![started'] = nextID']
    /\ kindOf' = [kindOf EXCEPT ![started'] = k]
    /\ UNCHANGED <<got, linked, fileVars, harnessVars, runs, unwritten, result, image>>

(* The call returns r and its deferred unlock runs.                        *)
Finish(c, r) ==
    /\ pc' = [pc EXCEPT ![c] = "idle"]
    /\ harnessMu' = Nobody
    /\ result' = [result EXCEPT ![cur[c]] = r]
    /\ UNCHANGED <<nextID, cur, got, started, idOf, kindOf, runs, unwritten>>

(* os.Remove("response.json"): what a writer still has open goes with it.  *)
RemoveResponse == response' = Absent /\ hlinked' = FALSE

ClearStaleResponse(c) ==
    /\ Goto(c, "clear", "open")
    /\ RemoveResponse
    /\ UNCHANGED <<harnessMu, nextID, cur, got, linked, command, shot, hpc, hcmd,
                   hresp, historyVars>>

(* os.WriteFile opens with O_CREATE|O_TRUNC, then writes.                  *)
TruncateCommand(c) ==
    /\ Goto(c, "open", "write")
    /\ command' = [call |-> cur[c], whole |-> FALSE]
    /\ linked' = [linked EXCEPT ![c] = TRUE]
    /\ UNCHANGED <<harnessMu, nextID, cur, got, response, shot, harnessVars, historyVars>>

WriteCommand(c) ==
    /\ Goto(c, "write", "wait")
    /\ command' = IF linked[c] THEN [call |-> cur[c], whole |-> TRUE] ELSE command
    /\ linked' = [linked EXCEPT ![c] = FALSE]
    /\ UNCHANGED <<harnessMu, nextID, cur, got, response, shot, harnessVars, historyVars>>

(* Any operation of SendCommand can fail; the call then returns its error  *)
(* and leaves the files as they are.                                       *)
SendFails(c) ==
    /\ MayFailIo
    /\ pc[c] \in {"clear", "open", "write"}
    /\ Finish(c, "error")
    /\ linked' = [linked EXCEPT ![c] = FALSE]
    /\ UNCHANGED <<fileVars, harnessVars, image>>

(* Mutants: ids are ignored; an empty id counts as another one.            *)
OtherId_Never(r, n) == FALSE
OtherId_EmptyToo(r, n) == ~r.named \/ idOf[r.call] # idOf[n]

(* An id that is neither empty nor the one asked for.                      *)
OtherId(r, n) == r.named /\ idOf[r.call] # idOf[n]

(* One check of WaitForResponse.  A file that is absent, empty or cut      *)
(* short is not ready.  Reading the file and removing it are two steps.    *)
ReadResponse(c) ==
    /\ response \in Response
    /\ Goto(c, "wait", IF OtherId(response, cur[c]) THEN "discard" ELSE "take")
    /\ got' = [got EXCEPT ![c] = response]
    /\ UNCHANGED <<harnessMu, nextID, cur, linked, fileVars, harnessVars, historyVars>>

DiscardResponse(c) ==
    /\ Goto(c, "discard", "wait")
    /\ RemoveResponse
    /\ UNCHANGED <<harnessMu, nextID, cur, got, linked, command, shot, hpc, hcmd,
                   hresp, historyVars>>

(* Mutant: getScreenshot gives up the lock before it reads the file.       *)
TakeResponse_Unlocks(c) ==
    /\ pc[c] = "take"
    /\ RemoveResponse
    /\ IF got[c].ok /\ kindOf[cur[c]] = "screenshot"
       THEN /\ Goto(c, "take", "read")
            /\ harnessMu' = Nobody
            /\ UNCHANGED <<nextID, cur, got, historyVars>>
       ELSE /\ Finish(c, IF got[c].ok THEN "ok" ELSE "error")
            /\ UNCHANGED image
    /\ UNCHANGED <<linked, command, shot, hpc, hcmd, hresp>>

(* A response that is not a failure ends the call, except that             *)
(* getScreenshot goes on to read the file it refers to under the same lock.*)
TakeResponse(c) ==
    /\ pc[c] = "take"
    /\ RemoveResponse
    /\ IF got[c].ok /\ kindOf[cur[c]] = "screenshot"
       THEN /\ Goto(c, "take", "read")
            /\ UNCHANGED <<harnessMu, nextID, cur, got, historyVars>>
       ELSE /\ Finish(c, IF got[c].ok THEN "ok" ELSE "error")
            /\ UNCHANGED image
    /\ UNCHANGED <<linked, command, shot, hpc, hcmd, hresp>>

(* A file that is missing is an error.  So is a raw frame cut short, which *)
(* DecodeRawToPNG refuses; the PNG of a Lua game is passed on unread.      *)
Readable == shot # Absent /\ (DeleteFirst \/ shot # Torn)

ReadScreenshot(c) ==
    /\ pc[c] = "read"
    /\ \/ /\ Readable
          /\ Finish(c, "ok")
          /\ image' = [image EXCEPT ![cur[c]] = shot]
       \/ /\ MayFailIo \/ ~Readable
          /\ Finish(c, "error")
          /\ UNCHANGED image
    /\ UNCHANGED <<linked, fileVars, harnessVars>>

(* Mutant: a call that times out is sent again.                            *)
TimeOut_Retries(c) ==
    /\ MayTimeOut
    /\ Goto(c, "wait", "clear")
    /\ UNCHANGED <<harnessMu, nextID, cur, got, linked, fileVars, harnessVars, historyVars>>

TimeOut(c) ==
    /\ MayTimeOut
    /\ pc[c] = "wait"
    /\ Finish(c, "timeout")
    /\ UNCHANGED <<linked, fileVars, harnessVars, image>>

(* A new server process: no caller survives and ids start again at 1.      *)
RestartServer ==
    /\ MayRestartServer
    /\ harnessMu' = Nobody
    /\ nextID' = 0
    /\ pc' = [c \in Callers |-> "idle"]
    /\ linked' = [c \in Callers |-> FALSE]
    /\ result' = [n \in Calls |-> IF n <= started /\ result[n] = "none"
                                  THEN "abandoned" ELSE result[n]]
    /\ UNCHANGED <<cur, got, fileVars, harnessVars, started, idOf, kindOf, runs, unwritten,
                   image>>

-----------------------------------------------------------------------------
(* The harness: mcp_harness_update / mcp.update, once a frame.             *)

HGoto(from, to) == hpc = from /\ hpc' = to

(* A frame that finds no command leaves the mailbox alone.  To the Lua     *)
(* harness a command it cannot read is one that does not parse.            *)
HarnessRead ==
    /\ command # Absent
    /\ HGoto("poll", IF DeleteFirst THEN "delete" ELSE "execute")
    /\ \/ hcmd' = command
       \/ MayFailIo /\ DeleteFirst /\ hcmd' = [call |-> command.call, whole |-> FALSE]
    /\ UNCHANGED <<serverVars, fileVars, hresp, hlinked, historyVars>>

(* The C harness unlinks a command it cannot read and answers nothing.     *)
HarnessReadFails ==
    /\ MayFailIo /\ ~DeleteFirst
    /\ hpc = "poll" /\ command # Absent
    /\ command' = Absent
    /\ linked' = [c \in Callers |-> FALSE]
    /\ UNCHANGED <<harnessMu, nextID, pc, cur, got, response, shot, harnessVars, historyVars>>

(* Mutant: the command stays where it is.                                  *)
HarnessDelete_Keeps ==
    /\ HGoto("delete", IF DeleteFirst THEN "execute" ELSE "publish")
    /\ UNCHANGED <<serverVars, fileVars, hcmd, hresp, hlinked, historyVars>>

(* Whatever is at the path now goes, whether or not it is what was read.   *)
HarnessDelete ==
    /\ HGoto("delete", IF DeleteFirst THEN "execute" ELSE "publish")
    /\ command' = Absent
    /\ linked' = [c \in Callers |-> FALSE]
    /\ UNCHANGED <<harnessMu, nextID, pc, cur, got, response, shot, hcmd, hresp, hlinked,
                   historyVars>>

(* Mutant: a state nobody handles.                                         *)
AfterExecute_Done == "done"

AfterExecute == IF DeleteFirst THEN "publish" ELSE "delete"

(* Neither harness parses a torn command.  The Lua harness names the call  *)
(* in the response to a type it does not know, the C harness does not.     *)
HarnessReject ==
    /\ HGoto("execute", AfterExecute)
    /\ ~hcmd.whole \/ kindOf[hcmd.call] = "newer"
    /\ hresp' = [call |-> hcmd.call, named |-> hcmd.whole /\ DeleteFirst, ok |-> FALSE]
    /\ UNCHANGED <<serverVars, fileVars, hcmd, hlinked, historyVars>>

(* Both harnesses ignore what the write of the image returns, and the Lua  *)
(* harness whether its file could be opened: the answer stays ok.          *)
GoesUnwritten == MayFailIo /\ unwritten' = unwritten \cup {hcmd.call} /\ UNCHANGED shot

(* A screenshot truncates its file, then fills it.  The C harness reports  *)
(* a screenshot it could not open a file for.                              *)
HarnessExecute ==
    /\ hpc = "execute" /\ hcmd.whole
    /\ kindOf[hcmd.call] # "newer"
    /\ runs' = [runs EXCEPT ![hcmd.call] = IF @ = 0 THEN 1 ELSE 2]
    /\ \E ok \in IF MayFailIo /\ ~DeleteFirst THEN BOOLEAN ELSE {TRUE} :
         /\ hresp' = [call |-> hcmd.call, named |-> TRUE, ok |-> ok]
         /\ IF kindOf[hcmd.call] = "screenshot" /\ ok
            THEN \/ hpc' = "shoot" /\ shot' = Torn /\ UNCHANGED unwritten
                 \/ DeleteFirst /\ hpc' = AfterExecute /\ GoesUnwritten
            ELSE hpc' = AfterExecute /\ UNCHANGED <<shot, unwritten>>
    /\ UNCHANGED <<serverVars, command, response, hcmd, hlinked, started, idOf, kindOf,
                   result, image>>

HarnessShoot ==
    /\ HGoto("shoot", AfterExecute)
    /\ \/ shot' = hcmd.call /\ UNCHANGED unwritten
       \/ GoesUnwritten
    /\ UNCHANGED <<serverVars, command, response, hcmd, hresp, hlinked, started, idOf,
                   kindOf, runs, result, image>>

(* Written to response.tmp.json and renamed.                               *)
HarnessPublish ==
    /\ HGoto("publish", "poll")
    /\ response' = hresp
    /\ hlinked' = FALSE
    /\ UNCHANGED <<serverVars, command, shot, hcmd, hresp, historyVars>>

(* The temporary file cannot be opened: no response.                       *)
HarnessSaysNothing ==
    /\ MayFailIo
    /\ HGoto("publish", "poll")
    /\ UNCHANGED <<serverVars, fileVars, hcmd, hresp, hlinked, historyVars>>

(* The rename fails: truncate response.json and write it in place.         *)
HarnessTruncateResponse ==
    /\ MayFailIo
    /\ HGoto("publish", "inplace")
    /\ response' = Torn
    /\ hlinked' = TRUE
    /\ UNCHANGED <<serverVars, command, shot, hcmd, hresp, historyVars>>

HarnessWriteInPlace ==
    /\ HGoto("inplace", "poll")
    /\ response' = IF hlinked THEN hresp ELSE response
    /\ hlinked' = FALSE
    /\ UNCHANGED <<serverVars, command, shot, hcmd, hresp, historyVars>>

(* The Simulator dies, or is stopped; the files stay where they are, and   *)
(* the harness of the next one starts without looking at them.             *)
SimulatorDies ==
    /\ MayCrash
    /\ hpc # "down" /\ hpc' = "down"
    /\ hlinked' = FALSE
    /\ UNCHANGED <<serverVars, fileVars, hcmd, hresp, historyVars>>

SimulatorStarts ==
    /\ HGoto("down", "poll")
    /\ UNCHANGED <<serverVars, fileVars, hcmd, hresp, hlinked, historyVars>>

-----------------------------------------------------------------------------
CallerStep(c) ==
    \/ ClearStaleResponse(c)
    \/ TruncateCommand(c)
    \/ WriteCommand(c)
    \/ SendFails(c)
    \/ ReadResponse(c)
    \/ DiscardResponse(c)
    \/ TakeResponse(c)
    \/ ReadScreenshot(c)

HarnessStep ==
    \/ HarnessRead
    \/ HarnessReadFails
    \/ HarnessDelete
    \/ HarnessReject
    \/ HarnessExecute
    \/ HarnessShoot
    \/ HarnessPublish
    \/ HarnessSaysNothing
    \/ HarnessTruncateResponse
    \/ HarnessWriteInPlace

Step ==
    \/ \E c \in Callers, k \in Kinds : Begin(c, k)
    \/ \E c \in Callers : CallerStep(c) \/ TimeOut(c)
    \/ RestartServer
    \/ HarnessStep
    \/ SimulatorDies
    \/ SimulatorStarts

Next == Step /\ UNCHANGED env

Spec == Init /\ [][Next]_vars

(* A goroutine that can go on does, the timer of a wait fires, and the     *)
(* game loop of a live Simulator keeps calling the harness.  Nothing makes *)
(* a caller call or a dead Simulator start.                                *)
Fairness ==
    /\ \A c \in Callers : WF_ipcVars(CallerStep(c)) /\ WF_ipcVars(TimeOut(c))
    /\ WF_ipcVars(HarnessStep)

FairSpec == Spec /\ Fairness
-----------------------------------------------------------------------------
TypeOK ==
    /\ env \in Environments
    /\ harnessMu \in Callers \cup {Nobody}
    /\ nextID \in 0..MaxCalls /\ started \in 0..MaxCalls
    /\ pc \in [Callers -> {"idle", "clear", "open", "write", "wait", "discard",
                           "take", "read"}]
    /\ cur \in [Callers -> 0..MaxCalls]
    /\ got \in [Callers -> Response \cup {NoResponse}]
    /\ linked \in [Callers -> BOOLEAN]
    /\ command \in Command \cup {Absent}
    /\ response \in Response \cup {Absent, Torn}
    /\ shot \in Calls \cup {Absent, Torn}
    /\ hpc \in {"down", "poll", "delete", "execute", "shoot", "publish", "inplace"}
    /\ hcmd \in Command \cup {NoCommand}
    /\ hresp \in Response \cup {NoResponse}
    /\ hlinked \in BOOLEAN
    /\ idOf \in [Calls -> 0..MaxCalls]
    /\ kindOf \in [Calls -> Kinds]
    /\ runs \in [Calls -> 0..2]
    /\ unwritten \subseteq Calls
    /\ result \in [Calls -> {"none", "ok", "error", "timeout", "abandoned"}]
    /\ image \in [Calls -> Calls \cup {Absent, Torn}]

(* A response that carries an id is only ever taken by the call whose      *)
(* command it answers: not by a later call that finds the late response of *)
(* one that timed out, nor by a concurrent one.                            *)
NamedAnswerIsOwn ==
    \A c \in Callers :
        pc[c] \in {"take", "read"} /\ got[c].named => got[c].call = cur[c]

(* The image a get_screenshot call returns is the frame drawn for that     *)
(* call, complete: the response is the commit point of the screenshot file *)
(* and nobody touches the file between the response and the read.  Only a  *)
(* Lua game whose image could not be written returns another: what the     *)
(* file held before.  The raw frame of a C game is never another's.        *)
ScreenshotIsOwn ==
    \A n \in Calls :
        result[n] = "ok" /\ kindOf[n] = "screenshot"
            => image[n] = n \/ (DeleteFirst /\ n \in unwritten)

(* With a harness that answers in time, the answer a call takes is its     *)
(* own, though a torn command is answered without an id.                   *)
AnswerIsOwn ==
    Healthy => \A c \in Callers : pc[c] = "take" => got[c].call = cur[c]

(* The comment on WaitForResponse: responses with another id are           *)
(* discarded.  It discards no other: the answer a call waits for is not    *)
(* removed by its own clean-up of a late one.                              *)
OnlyOtherIdsDiscarded ==
    [][\A c \in Callers :
        pc[c] = "discard" /\ pc'[c] = "wait" /\ response \in Response
            => response.named /\ idOf[response.call] # idOf[cur[c]]]_vars

(* With a live harness, no call needs its timeout: each gets an answer.    *)
Answered ==
    \A n \in Calls : Healthy /\ started >= n ~> result[n] \in {"ok", "error"}

(* Whatever becomes of the harness, a call returns and its lock is free.   *)
Returns ==
    \A c \in Callers : pc[c] # "idle" ~> pc[c] = "idle" /\ harnessMu # c

(* The files, the lock and the ids are left out; what remains of a state   *)
(* is the calls that were made, what ran of them and what they returned.   *)
RC == INSTANCE RemoteCall WITH
        Calls <- Calls, started <- started, runs <- runs, result <- result

(* Calls are at most once, in order, and succeed only if they ran.         *)
ImplementsRemoteCall == RC!Spec
=============================================================================
