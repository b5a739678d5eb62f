------------------------------ MODULE GameLog -------------------------------
(***************************************************************************)
(* The log of a Lua game: lua/mcp_harness.lua appends what the game prints *)
(* to mcp/game_logs.jsonl and moves the file aside when it is full;        *)
(* getGameLogs (internal/tools/gamelogs.go) reads both generations, with   *)
(* no lock and no help from the harness.  Every step of either side is one *)
(* file-system operation.                                                  *)
(*                                                                         *)
(* Entries are numbered in the order the game prints them, over all runs   *)
(* of the Simulator, so a file, which only grows at its end, is the set of *)
(* the entries in it.                                                      *)
(***************************************************************************)
EXTENDS Naturals, FiniteSetsExt

CONSTANTS
    MaxEntries,  \* bound on what the game prints
    Sizes,       \* the sizes of an entry
    Cap,         \* GAME_LOGS_MAX_BYTES, per generation
    LineMax,     \* the longest line ParseGameLogs reads, 1 MiB
    MaxRuns,     \* bound on the runs of the Simulator
    MayFail      \* the file operations of the harness that can fail

Entries == 1..MaxEntries

Absent == {0}    \* the file does not exist: no entry has the number 0

ASSUME ConstantsAssumption ==
    /\ MaxEntries \in Nat /\ Cap \in Nat /\ LineMax \in Nat /\ MaxRuns \in Nat
    /\ Sizes \subseteq Nat \ {0}
    /\ MayFail \subseteq {"rename", "open"}

VARIABLES
    (* the data directory *)
    prev, cur,     \* game_logs.1.jsonl, game_logs.jsonl
    torn,          \* the entry whose line, the last of cur, is not all there, or 0
    broken,        \* such a line of cur has others behind it
    prevBroken,    \* prev has a line that does not parse
    (* the harness *)
    pc,
    gameLogBytes,
    printed,       \* the last entry printed
    sizeOf,
    before,        \* the last entry of the run before
    runs,
    failures,      \* the operations that have failed
    (* a getGameLogs call *)
    rpc,
    older, newer,  \* what it has read of either generation
    failed         \* it found a line that does not parse, or that is too long

fileVars == <<prev, cur, torn, broken, prevBroken>>
gameVars == <<pc, gameLogBytes, printed, sizeOf, before, runs, failures>>
readVars == <<rpc, older, newer, failed>>
vars == <<fileVars, gameVars, readVars>>

Content(f) == IF f = Absent THEN {} ELSE f
Kept == Content(prev) \cup Content(cur)
SizeOf(S) == MapThenSumSet(LAMBDA n : sizeOf[n], S)

Init ==
    /\ prev = Absent /\ cur = Absent /\ torn = 0 /\ broken = FALSE /\ prevBroken = FALSE
    /\ pc = "down" /\ gameLogBytes = 0 /\ printed = 0 /\ before = 0 /\ runs = 0
    /\ failures = {}
    /\ sizeOf = [n \in Entries |-> 0]
    /\ rpc = "idle" /\ older = {} /\ newer = {} /\ failed = FALSE

Goto(from, to) == pc = from /\ pc' = to

Works == UNCHANGED failures
Fails(operation) == operation \in MayFail /\ failures' = failures \cup {operation}

(* io.open for writing; nothing is done about one that fails.              *)
Truncate ==
    \/ Works /\ cur' = {} /\ torn' = 0 /\ broken' = FALSE
    \/ Fails("open") /\ UNCHANGED <<cur, torn, broken>>
-----------------------------------------------------------------------------
(* The harness is loaded with the game: resetGameLog.                      *)

(* Mutant: the file of the run before is opened for appending.             *)
Start_Appends ==
    /\ Goto("down", "reset")
    /\ runs < MaxRuns /\ runs' = runs + 1
    /\ before' = printed
    /\ gameLogBytes' = 0
    /\ UNCHANGED <<fileVars, printed, sizeOf, failures, readVars>>

Start ==
    /\ Goto("down", "reset")
    /\ runs < MaxRuns /\ runs' = runs + 1
    /\ before' = printed
    /\ gameLogBytes' = 0
    /\ Truncate
    /\ UNCHANGED <<prev, prevBroken, printed, sizeOf, readVars>>

DeleteOldGeneration ==
    /\ Goto("reset", "run")
    /\ prev' = Absent /\ prevBroken' = FALSE
    /\ UNCHANGED <<cur, torn, broken, gameLogBytes, printed, sizeOf, before, runs, failures,
                   readVars>>

-----------------------------------------------------------------------------
(* print, or a traceback: appendGameLog.                                   *)

Full(size) == gameLogBytes + size > Cap

Log ==
    /\ printed < MaxEntries
    /\ printed' = printed + 1
    /\ \E size \in Sizes :
         /\ sizeOf' = [sizeOf EXCEPT ![printed'] = size]
         /\ Goto("run", IF Full(size) THEN "delete" ELSE "open")
    /\ UNCHANGED <<fileVars, gameLogBytes, before, runs, failures, readVars>>

RotateDelete ==
    /\ Goto("delete", "rename")
    /\ prev' = Absent /\ prevBroken' = FALSE
    /\ UNCHANGED <<cur, torn, broken, gameLogBytes, printed, sizeOf, before, runs, failures,
                   readVars>>

(* Mutant: the full file is truncated instead of moved.                    *)
RotateRename_Truncates ==
    /\ Goto("rename", "truncate")
    /\ UNCHANGED <<fileVars, gameLogBytes, printed, sizeOf, before, runs, failures, readVars>>

TooLong(S) == \E n \in S : sizeOf[n] > LineMax

(* Whether a line of cur that is not all there, or was not, stops a reader.*)
(* One cut at the end does only where what there is of it is too long.     *)
Stops == {broken} \cup (IF torn # 0 /\ TooLong({torn}) THEN {TRUE} ELSE {})

(* A rename that fails is followed by a truncation.                        *)
RotateRename ==
    /\ \/ /\ Goto("rename", "open")
          /\ cur # Absent
          /\ Works
          /\ prev' = cur /\ cur' = Absent
          /\ torn' = 0 /\ broken' = FALSE /\ prevBroken' \in Stops
          /\ gameLogBytes' = 0
       \/ /\ Goto("rename", "truncate")
          /\ (cur = Absent /\ Works) \/ Fails("rename")
          /\ UNCHANGED <<fileVars, gameLogBytes>>
    /\ UNCHANGED <<printed, sizeOf, before, runs, readVars>>

(* Mutant: a failed rename is not followed by a truncation.                *)
RotateTruncate_Not ==
    /\ Goto("truncate", "open")
    /\ gameLogBytes' = 0
    /\ UNCHANGED <<fileVars, printed, sizeOf, before, runs, failures, readVars>>

RotateTruncate ==
    /\ Goto("truncate", "open")
    /\ gameLogBytes' = 0
    /\ Truncate
    /\ UNCHANGED <<prev, prevBroken, printed, sizeOf, before, runs, readVars>>

(* The file is opened for appending, and the line begins to be written.    *)
Append ==
    /\ \/ /\ Goto("open", "write")
          /\ Works
          /\ cur' = Content(cur)
          /\ torn' = printed
          /\ broken' = (broken \/ torn # 0)
       \/ /\ Goto("open", "run")
          /\ Fails("open")
          /\ UNCHANGED <<cur, torn, broken>>
    /\ UNCHANGED <<prev, prevBroken, gameLogBytes, printed, sizeOf, before, runs, readVars>>

Written ==
    /\ Goto("write", "run")
    /\ cur' = cur \cup {printed}
    /\ torn' = 0
    /\ gameLogBytes' = gameLogBytes + sizeOf[printed]
    /\ UNCHANGED <<prev, broken, prevBroken, printed, sizeOf, before, runs, failures, readVars>>

SimulatorDies ==
    /\ pc # "down"
    /\ pc' = "down"
    /\ UNCHANGED <<fileVars, gameLogBytes, printed, sizeOf, before, runs, failures, readVars>>

-----------------------------------------------------------------------------
(* getGameLogs                                                             *)

(* Mutant: the file being written is read first.                           *)
Generation_NewestFirst(k) == IF k = 1 THEN cur ELSE prev

Generation(k) == IF k = 1 THEN prev ELSE cur

(* ParseGameLogs skips a torn line at the end of a file, not within, and   *)
(* its scanner stops at a line over LineMax; either fails the call.        *)
ReadOlder ==
    /\ rpc = "idle"
    /\ failed' = (prevBroken \/ TooLong(Content(prev)))
    /\ rpc' = IF failed' THEN "idle" ELSE "newer"
    /\ older' = IF failed' THEN {} ELSE Content(Generation(1))
    /\ newer' = {}
    /\ UNCHANGED <<fileVars, gameVars>>

ReadNewer ==
    /\ rpc = "newer"
    /\ rpc' = "idle"
    /\ failed' \in {stops \/ TooLong(Content(cur)) : stops \in Stops}
    /\ older' = IF failed' THEN {} ELSE older
    /\ newer' = IF failed' THEN {} ELSE Content(Generation(2))
    /\ UNCHANGED <<fileVars, gameVars>>

-----------------------------------------------------------------------------
Next ==
    \/ Start \/ DeleteOldGeneration \/ SimulatorDies
    \/ Log \/ RotateDelete \/ RotateRename \/ RotateTruncate \/ Append \/ Written
    \/ ReadOlder \/ ReadNewer

Spec == Init /\ [][Next]_vars

-----------------------------------------------------------------------------
TypeOK ==
    /\ prev \in (SUBSET Entries) \cup {Absent} /\ cur \in (SUBSET Entries) \cup {Absent}
    /\ torn \in 0..MaxEntries /\ broken \in BOOLEAN /\ prevBroken \in BOOLEAN
    /\ pc \in {"down", "reset", "run", "delete", "rename", "truncate", "open", "write"}
    /\ gameLogBytes \in Nat /\ printed \in 0..MaxEntries /\ before \in 0..printed
    /\ sizeOf \in [Entries -> Nat] /\ runs \in 0..MaxRuns
    /\ failures \subseteq MayFail
    /\ rpc \in {"idle", "newer"}
    /\ older \subseteq Entries /\ newer \subseteq Entries
    /\ failed \in BOOLEAN

(* The entries get_game_logs returns are in the order they were printed,   *)
(* none twice, though the files move under the two reads.                  *)
InOrder == \A m \in older, n \in newer : m < n

(* An entry of this run is only lost once what was printed from it on is   *)
(* more than a generation holds: a traceback keeps its run-up.             *)
KeepsRecent ==
    pc = "run" /\ failures = {} => \A n \in (before + 1)..printed :
        n \notin Kept => SizeOf(n..printed) > Cap

(* Neither file outgrows the cap, but by a single entry that is larger,    *)
(* over any number of rotations and runs, and of renames that fail.        *)
Bounded ==
    "open" \notin failures =>
        \A f \in {Content(prev), Content(cur)} : SizeOf(f) > Cap => Cardinality(f) = 1

(* A Simulator killed while it appends does not make the log unreadable,   *)
(* neither then nor for the runs to come.  Only one printed entry longer   *)
(* than a line may be does, and then the entries beside it are lost too.   *)
ReadsNeverFail == "open" \notin failures /\ ~TooLong(1..printed) => ~failed
=============================================================================
