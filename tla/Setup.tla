-------------------------------- MODULE Setup --------------------------------
(***************************************************************************)
(* The setup and teardown tools (internal/setup, internal/tools/setup.go): *)
(* edits of a game's own sources, one file after another, with no journal. *)
(* A call can fail, or the server can die, before any write of a file.  A  *)
(* walk over the C sources skips a file that it cannot read, and goes on.  *)
(*                                                                         *)
(* A file is the sequence of its lines that internal/setup tells apart.    *)
(* A line records whether it is code or comment (internal/scan) and, which *)
(* the program cannot see, whether it is the game's own.  A name is enough *)
(* of the one callback and of the PlaydateAPI pointers.                    *)
(***************************************************************************)
EXTENDS Naturals, SequencesExt

CONSTANTS
    CFiles,      \* the .c files of a game, in the order of a walk
    Sources,     \* the CMake arguments that are C sources
    References,  \* the ones that are ${...} and nothing else
    Games,       \* directories setup may be asked to work on
    MaxVersion,  \* bound on the versions of the server
    MaxCalls,    \* bound on the tool calls
    MaxEdits,    \* bound on the edits of the game's author
    NoFile

Harness == {"mcp.h", "mcp.c", "mcp.lua"}
Languages == {"c", "lua"}    \* hybrid is handled as lua is

ASSUME ConstantsAssumption ==
    /\ CFiles \in Seq(Sources) /\ "mcp.c" \in Sources \ ToSet(CFiles)
    /\ MaxVersion \in Nat \ {0} /\ MaxCalls \in Nat /\ MaxEdits \in Nat

VARIABLES
    disk,     \* the game, as far as it can be read: [c, cmake, lua, copies]
    hidden,   \* the C files that cannot be read, which disk shows empty
    version,  \* of the harness sources embedded in the server
    todo,     \* the writes that the call in progress has left
    call,     \* the last call: what was asked, and how it stands
    told,     \* its manual steps
    unseen,   \* the copies that it could not look up
    start,    \* the game before that call, and before the failed ones it repeats
    own,      \* what the game's author wrote
    calls, edits

vars == <<disk, hidden, version, todo, call, told, unseen, start, own, calls, edits>>

(* The game with the files that cannot be read.                            *)
WithHidden(d) ==
    [d EXCEPT !.c = [f \in ToSet(CFiles) |-> IF f \in DOMAIN hidden THEN hidden[f] ELSE @[f]]]
-----------------------------------------------------------------------------
(* Lines, and the searches in them.                                        *)

Line(t) == [t |-> t, code |-> TRUE, own |-> FALSE]
Marker(t) == [t |-> t, code |-> FALSE, own |-> FALSE]
MarkerBlock(line) == <<Marker("BEGIN"), line, Marker("END")>>

IsCode(line, types) == line.code /\ line.t \in types
Has(s, t) == \E i \in DOMAIN s : IsCode(s[i], {t})
First(s, types) == SelectInSeq(s, LAMBDA line : IsCode(line, types))
Final(s, types) == SelectLastInSeq(s, LAMBDA line : IsCode(line, types))

Insert(s, i, lines) == SubSeq(s, 1, i) \o lines \o SubSeq(s, i + 1, Len(s))

(* Mutant: a block ends at the last end marker.                            *)
StripMarkerBlocks_Greedy(s) ==
    LET from == SelectInSeq(s, LAMBDA line : line.t = "BEGIN")
        to == SelectLastInSeq(s, LAMBDA line : line.t = "END")
    IN IF from = 0 \/ to = 0 THEN s ELSE SubSeq(s, 1, from - 1) \o SubSeq(s, to + 1, Len(s))

(* The first block, from a begin marker to the next end marker.            *)
StripFirstBlock(s) ==
    LET from == SelectInSeq(s, LAMBDA line : line.t = "BEGIN")
        to == SelectInSubSeq(s, from, Len(s), LAMBDA line : line.t = "END")
    IN IF from = 0 \/ to = 0 THEN s
       ELSE SubSeq(s, 1, from - 1) \o SubSeq(s, to + 1, Len(s))

StripMarkerBlocks(s) ==
    LET strip[n \in 0..Len(s)] == IF n = 0 THEN s ELSE StripFirstBlock(strip[n - 1])
    IN strip[Len(s)]

FirstFile(c, t) == LET i == SelectInSeq(CFiles, LAMBDA f : Has(c[f], t))
                   IN IF i = 0 THEN NoFile ELSE CFiles[i]
EventHandler(c) == FirstFile(c, "eventHandler")
-----------------------------------------------------------------------------
(* CMakeLists.txt: calls with their arguments; one of no interest is a     *)
(* "call".  A call of set() is split over lines (alone) or not; project()  *)
(* has a line of its own or not.                                           *)

Commands == {"set", "add", "project", "call"}

CMakeListsContain(cmake) ==
    \E i \in DOMAIN cmake : IsCode(cmake[i], Commands) /\ "mcp.c" \in ToSet(cmake[i].args)

BuildsGame(args, game) ==
    IF game = NoFile THEN args \cap Sources # {} ELSE game \in args

(* A reference is followed one level, and given the benefit of the doubt.  *)
TargetBuildsGame(cmake, args, game) ==
    \/ BuildsGame(args, game)
    \/ \E ref \in args \cap References :
         LET i == SelectInSeq(cmake, LAMBDA item : item.t = "set" /\ item.name = ref)
             body == ToSet(cmake[i].args)
         IN i = 0 \/ body \cap References # {} \/ BuildsGame(body, game)

AddHarness(item) == [item EXCEPT !.args = Append(@, "mcp.c")]

(* The first source list, else the targets: calls are found in comments too. *)
PatchCMakeSourceList(cmake, game) ==
    LET list == SelectInSeq(cmake, LAMBDA item :
                    item.t = "set" /\ item.alone /\ BuildsGame(ToSet(item.args), game))
        Target(item) == /\ item.t = "add" /\ "mcp.c" \notin ToSet(item.args)
                        /\ TargetBuildsGame(cmake, ToSet(item.args), game)
    IN IF list # 0 THEN [cmake EXCEPT ![list] = AddHarness(@)]
       ELSE [i \in DOMAIN cmake |->
                IF Target(cmake[i]) THEN AddHarness(cmake[i]) ELSE cmake[i]]

(* Behind the first project(), and in the comment that it is in.           *)
PatchCMakeIncludeDirectories(cmake) ==
    LET project == SelectInSeq(cmake, LAMBDA item : item.t = "project" /\ item.alone)
        line == [t |-> "include_directories", code |-> cmake[project].code, own |-> FALSE]
    IN IF Has(cmake, "include_directories") \/ project = 0 THEN cmake
       ELSE Insert(cmake, project, MarkerBlock(line))

PatchCMakeLists(d) ==
    LET listed == IF CMakeListsContain(d.cmake) THEN d.cmake
                  ELSE PatchCMakeSourceList(d.cmake, EventHandler(d.c))
    IN [d EXCEPT !.cmake = PatchCMakeIncludeDirectories(listed)]

(* The white space in front of an argument goes with it; module Scan has it. *)
Without(args, arg) ==
    LET kept[n \in 0..Len(args)] ==
          IF n = 0 THEN <<>>
          ELSE IF args[n] = arg THEN kept[n - 1] ELSE Append(kept[n - 1], args[n])
    IN kept[Len(args)]

(* Arguments are dropped in code only, of every call (scan.FilterCMakeArgs). *)
TeardownCMakeLists(d) ==
    LET Filter(item) == IF ~IsCode(item, Commands) THEN item
                        ELSE [item EXCEPT !.args = Without(@, "mcp.c")]
    IN IF d.cmake = NoFile THEN d
       ELSE [d EXCEPT !.cmake = StripMarkerBlocks([i \in DOMAIN @ |-> Filter(@[i])])]
-----------------------------------------------------------------------------
(* The C sources.                                                          *)

InsertIncludeIfMissing(s) ==
    IF Has(s, "mcp.h") THEN s
    ELSE Insert(s, Final(s, {"include"}), MarkerBlock(Line("mcp.h")))

(* kEventInit, in a case label, in front of a block, or without a block.   *)
InitForms == {"case", "block", "bare"}

PatchEventHandlerInit(d) ==
    LET f == EventHandler(d.c)
        s == InsertIncludeIfMissing(d.c[f])
        at == First(s, InitForms)
    IN [d EXCEPT !.c[f] = IF Has(s, "init") \/ at = 0 \/ s[at].t = "bare" THEN s
                          ELSE Insert(s, at, MarkerBlock(Line("init")))]

InitTold(d) == LET s == d.c[EventHandler(d.c)]
                   at == First(s, InitForms)
               IN ~Has(s, "init") /\ (at = 0 \/ s[at].t = "bare")

(* The file that defines the function the event handler registers.         *)
UpdateFile(c) ==
    LET handler == EventHandler(c)
    IN IF ~Has(c[handler], "setUpdateCallback") THEN NoFile
       ELSE IF Has(c[handler], "update()") THEN handler ELSE FirstFile(c, "update()")

(* Mutant: setup does not look for a call that is there.                   *)
PatchUpdateCallback_Again(d) ==
    LET f == UpdateFile(d.c)
    IN IF f = NoFile \/ ~Has(d.c[f], "PlaydateAPI") THEN d
       ELSE [d EXCEPT !.c[f] = Insert(@, First(@, {"update()"}), MarkerBlock(Line("update")))]

PatchUpdateCallback(d) ==
    LET f == UpdateFile(d.c)
    IN IF f = NoFile \/ Has(d.c[f], "update") \/ ~Has(d.c[f], "PlaydateAPI") THEN d
       ELSE [d EXCEPT !.c[f] = Insert(@, First(@, {"update()"}), MarkerBlock(Line("update")))]

UpdateTold(d) == LET f == UpdateFile(d.c)
                 IN f = NoFile \/ ~(Has(d.c[f], "update") \/ Has(d.c[f], "PlaydateAPI"))

Renamed(s, from, to) ==
    [i \in DOMAIN s |-> IF IsCode(s[i], {from}) THEN [s[i] EXCEPT !.t = to] ELSE s[i]]

(* Mutant: the file is rewritten without the header.                       *)
PatchInputCalls_Bare(d, f) == [d EXCEPT !.c[f] = Renamed(@, "input", "wrapper")]

(* Calls in a form that is not understood ("odd") stay, and are told.      *)
PatchInputCalls(d, f) ==
    IF ~Has(d.c[f], "input") THEN d
    ELSE [d EXCEPT !.c[f] = InsertIncludeIfMissing(Renamed(@, "input", "wrapper"))]

Wrapping == {"mcp.h", "init", "update", "wrapper"}

HasUnmarkedHarnessReference(c) ==
    \E f \in ToSet(CFiles), t \in Wrapping : Has(StripMarkerBlocks(c[f]), t)
-----------------------------------------------------------------------------
(* main.lua, where the import is found in a comment too.                   *)

Imports(lua) == \E i \in DOMAIN lua : lua[i].t = "import"

PatchLuaMain(d) ==
    IF Imports(d.lua) THEN d ELSE [d EXCEPT !.lua = @ \o MarkerBlock(Line("import"))]

StripLuaMain(d) ==
    IF d.lua = NoFile THEN d ELSE [d EXCEPT !.lua = StripMarkerBlocks(@)]

KeepsLuaHarness(d) == d.lua # NoFile /\ Imports(d.lua)
-----------------------------------------------------------------------------
(* A call: the language, then the writes in their order.                   *)

DetectLanguage(d) ==
    IF d.lua \notin {NoFile, <<>>} THEN "lua"
    ELSE IF d.cmake # NoFile THEN "c" ELSE "none"

(* A write of d with its name: what it makes of the game.                  *)
After(step, d) ==
    CASE step[1] = "copy" -> [d EXCEPT !.copies[step[2]] = version]
      [] step[1] = "remove" ->
           IF step[2] = "mcp.lua" /\ KeepsLuaHarness(d) THEN d
           ELSE [d EXCEPT !.copies[step[2]] = 0]
      [] step[1] = "patch CMakeLists.txt" -> PatchCMakeLists(d)
      [] step[1] = "patch init" -> PatchEventHandlerInit(d)
      [] step[1] = "patch update" -> PatchUpdateCallback(d)
      [] step[1] = "patch input" -> PatchInputCalls(d, step[2])
      [] step[1] = "patch main.lua" -> PatchLuaMain(d)
      [] step[1] = "restore CMakeLists.txt" -> TeardownCMakeLists(d)
      [] step[1] = "strip" -> [d EXCEPT !.c[step[2]] = StripMarkerBlocks(@)]
      [] step[1] = "strip main.lua" -> StripLuaMain(d)

PerFile(name) == [i \in DOMAIN CFiles |-> <<name, CFiles[i]>>]

SetupC(d) ==
    <<<<"copy", "mcp.h">>, <<"copy", "mcp.c">>, <<"patch CMakeLists.txt">>>>
    \o IF EventHandler(d.c) = NoFile THEN <<>>
       ELSE <<<<"patch init">>, <<"patch update">>>> \o PerFile("patch input")

SetupLua == <<<<"copy", "mcp.lua">>, <<"patch main.lua">>>>

(* Mutants: the harness goes first; only the file is undone that has the
   event handler.                                                          *)
TeardownC_HarnessFirst(d) ==
    <<<<"remove", "mcp.h">>, <<"remove", "mcp.c">>, <<"restore CMakeLists.txt">>>>
    \o PerFile("strip")

TeardownC_HandlerOnly(d) ==
    IF HasUnmarkedHarnessReference(d.c) \/ EventHandler(d.c) = NoFile THEN <<>>
    ELSE <<<<"restore CMakeLists.txt">>, <<"strip", EventHandler(d.c)>>,
           <<"remove", "mcp.h">>, <<"remove", "mcp.c">>>>

TeardownC(d) ==
    IF HasUnmarkedHarnessReference(d.c) THEN <<>>
    ELSE <<<<"restore CMakeLists.txt">>>> \o PerFile("strip")
         \o <<<<"remove", "mcp.h">>, <<"remove", "mcp.c">>>>

TeardownLua == <<<<"strip main.lua">>, <<"remove", "mcp.lua">>>>

Steps(tool, language, d) ==
    CASE tool = "setup" /\ language = "c" -> SetupC(d)
      [] tool = "setup" /\ language = "lua" -> SetupLua
      [] tool = "teardown" /\ language = "c" -> TeardownC(d)
      [] tool = "teardown" /\ language = "lua" -> TeardownLua

(* The file a step has to read before it can write it.                     *)
Readable(step, d) ==
    /\ step[1] = "patch CMakeLists.txt" => d.cmake # NoFile
    /\ step[1] = "patch main.lua" => d.lua # NoFile

Told(step, d) ==
    CASE step[1] = "patch CMakeLists.txt" ->
           {s \in {"CMakeLists.txt", "eventHandler"} :
              IF s = "eventHandler" THEN EventHandler(d.c) = NoFile
              ELSE ~CMakeListsContain(PatchCMakeLists(d).cmake)}
      [] step[1] = "patch init" /\ InitTold(d) -> {"init"}
      [] step[1] = "patch update" /\ UpdateTold(d) -> {"update"}
      [] step[1] = "patch input" /\ Has(d.c[step[2]], "odd") -> {step[2]}
      [] OTHER -> {}
-----------------------------------------------------------------------------
Refers(d, name) ==
    CASE name = "mcp.h" -> \E f \in ToSet(CFiles), t \in Wrapping : Has(d.c[f], t)
      [] name = "mcp.c" -> d.cmake # NoFile /\ CMakeListsContain(d.cmake)
      [] name = "mcp.lua" -> d.lua # NoFile /\ Has(d.lua, "import")

Builds(d) == \A name \in Harness : Refers(d, name) => d.copies[name] # 0

(* The files, or the harness files, whose references miss what they refer to. *)
Dangling(d) ==
    {f \in ToSet(CFiles) : d.copies["mcp.h"] = 0 /\ \E t \in Wrapping : Has(d.c[f], t)}
    \cup {name \in {"mcp.c", "mcp.lua"} : d.copies[name] = 0 /\ Refers(d, name)}

(* The kinds of lines in the three languages, and what a file is made of.  *)
Kinds == {"BEGIN", "END", "include", "mcp.h", "PlaydateAPI", "eventHandler",
          "setUpdateCallback", "case", "block", "bare", "init", "update()", "update",
          "input", "odd", "wrapper", "import", "include_directories", "set", "add",
          "project", "call", "other"}

Lines == [t : Kinds, code : BOOLEAN, own : BOOLEAN]
CMakeCalls == [t : Kinds, name : STRING, args : Seq(Sources \cup References),
               alone : BOOLEAN, code : BOOLEAN, own : BOOLEAN]
CMakeItems == {item \in Lines \cup CMakeCalls :
                  item.t \in Commands => item \in CMakeCalls}

GameType == [c : [ToSet(CFiles) -> Seq(Lines)],
             cmake : Seq(CMakeItems) \cup {NoFile},
             lua : Seq(Lines) \cup {NoFile},
             copies : [Harness -> 0..MaxVersion]]

(* No file is not a file, and not the name of one.                         *)
ASSUME NoFileAssumption ==
    NoFile \notin Seq(Lines) /\ NoFile \notin Seq(CMakeItems) /\ NoFile \notin ToSet(CFiles)

(* What the game refers to is there before the first call, too.            *)
ASSUME GamesAssumption == \A d \in Games : d \in GameType /\ Builds(d)

(* Then every line is its author's, and none is a marker, which carries the
   name of the harness (markers.go:5); a wrapper that the author's own code
   calls is declared.                                                      *)
Authored(s) == \A i \in DOMAIN s : s[i].own /\ s[i].t \notin {"BEGIN", "END"}

ASSUME AuthorsAssumption ==
    \A d \in Games :
      /\ \A f \in ToSet(CFiles) :
           Authored(d.c[f]) /\ (Has(d.c[f], "wrapper") => Has(d.c[f], "mcp.h"))
      /\ d.cmake # NoFile => Authored(d.cmake)
      /\ d.lua # NoFile => Authored(d.lua)

(* The lists among the calls of set(), and project(), are code: setup finds one
   in a comment too, and would add to it again in each call.                *)
ListsAreCode ==
    \A d \in Games : d.cmake # NoFile =>
      \A i \in DOMAIN d.cmake :
        d.cmake[i].t \in {"set", "project"} /\ d.cmake[i].alone => d.cmake[i].code

(* What of a game is its author's: the lines of no block, as they were before
   setup rewrote them.                                                     *)
Owned(s) ==
    LET owned[n \in 0..Len(s)] ==
          IF n = 0 THEN <<>>
          ELSE IF s[n].own THEN Append(owned[n - 1], s[n]) ELSE owned[n - 1]
    IN owned[Len(s)]

Unlisted(item) == IF item.t \notin Commands THEN item
                  ELSE [item EXCEPT !.args = Without(@, "mcp.c")]

Own(d) ==
    [c |-> [f \in ToSet(CFiles) |-> Owned(Renamed(d.c[f], "wrapper", "input"))],
     cmake |-> IF d.cmake = NoFile THEN NoFile
               ELSE Owned([i \in DOMAIN d.cmake |-> Unlisted(d.cmake[i])]),
     lua |-> IF d.lua = NoFile THEN NoFile ELSE Owned(d.lua)]

NoCall == [tool |-> "none", language |-> "none", state |-> "none"]

Init ==
    /\ disk \in Games /\ hidden = [f \in {} |-> <<>>]
    /\ version = 1 /\ todo = <<>> /\ call = NoCall /\ told = {} /\ unseen = {}
    /\ start = disk /\ own = Own(disk) /\ calls = 0 /\ edits = 0

Idle == todo = <<>>

(* setup or teardown is called, with a language or with none.              *)
Call(tool, language) ==
    /\ Idle /\ calls < MaxCalls /\ calls' = calls + 1
    /\ tool = "setup" => DetectLanguage(disk) # "none"
    /\ todo' = Steps(tool, language, disk)
    /\ call' = [tool |-> tool, language |-> language,
                state |-> IF todo' = <<>> THEN "done" ELSE "running"]
    /\ told' = {} /\ unseen' = {}
    /\ start' = IF call' = [call EXCEPT !.state = call'.state] /\ call.state = "failed"
                THEN start ELSE disk
    /\ UNCHANGED <<disk, hidden, version, own, edits>>

CallDetected(tool) == DetectLanguage(disk) # "none" /\ Call(tool, DetectLanguage(disk))

(* The next write of the call.                                             *)
Step ==
    /\ todo # <<>> /\ Readable(Head(todo), disk)
    /\ disk' = After(Head(todo), disk)
    /\ told' = told \cup Told(Head(todo), disk)
    /\ todo' = Tail(todo)
    /\ call' = [call EXCEPT !.state = IF todo' = <<>> THEN "done" ELSE "running"]
    /\ UNCHANGED <<hidden, version, unseen, start, own, calls, edits>>

(* A copy counts as absent when it cannot be looked up (fileExists).       *)
Overlook ==
    /\ todo # <<>> /\ Head(todo)[1] = "remove"
    /\ unseen' = unseen \cup {Head(todo)[2]}
    /\ todo' = Tail(todo)
    /\ call' = [call EXCEPT !.state = IF todo' = <<>> THEN "done" ELSE "running"]
    /\ UNCHANGED <<disk, hidden, version, told, start, own, calls, edits>>

(* A file operation fails before it has written, or the server dies.       *)
Fail ==
    /\ todo # <<>> /\ todo' = <<>>
    /\ call' = [call EXCEPT !.state = "failed"]
    /\ UNCHANGED <<disk, hidden, version, told, unseen, start, own, calls, edits>>
-----------------------------------------------------------------------------
(* What happens to the game between the calls.                             *)

Edit(d) ==
    /\ Idle /\ edits < MaxEdits /\ edits' = edits + 1
    /\ disk' = d /\ own' = Own(WithHidden(d)) /\ call' = NoCall /\ start' = d
    /\ UNCHANGED <<hidden, version, todo, told, unseen, calls>>

OwnLine(t) == [Line(t) EXCEPT !.own = TRUE]

(* The author follows a manual step, in the event handler's file.          *)
FollowManualStep ==
    \E t \in told \cap {"init", "update"} :
      LET f == EventHandler(disk.c)
      IN f # NoFile /\ Edit([disk EXCEPT !.c[f] = Append(@, OwnLine(t))])

FollowManualCMakeStep ==
    /\ "CMakeLists.txt" \in told
    /\ LET i == First(disk.cmake, {"add"})
       IN i # 0 /\ Edit([disk EXCEPT !.cmake[i] = AddHarness(@)])

(* The wrappers are changed back, which teardown leaves to the author.     *)
UndoInputCalls ==
    /\ \E f \in ToSet(CFiles) : Has(disk.c[f], "wrapper")
    /\ Edit([disk EXCEPT !.c = [f \in ToSet(CFiles) |-> Renamed(@[f], "wrapper", "input")]])

(* Files become unreadable, or readable again.                             *)
ChangeAccess ==
    /\ Idle /\ edits < MaxEdits /\ edits' = edits + 1
    /\ \E files \in SUBSET ToSet(CFiles) \ {DOMAIN hidden} :
         /\ hidden' = [f \in files |-> WithHidden(disk).c[f]]
         /\ disk' = [disk EXCEPT !.c = [f \in ToSet(CFiles) |->
                       IF f \in files THEN <<>> ELSE WithHidden(disk).c[f]]]
    /\ call' = NoCall /\ start' = disk'
    /\ UNCHANGED <<version, todo, told, unseen, own, calls>>

UpgradeServer ==
    /\ Idle /\ version < MaxVersion /\ version' = version + 1
    /\ call' = NoCall /\ start' = disk
    /\ UNCHANGED <<disk, hidden, todo, told, unseen, own, calls, edits>>

Next ==
    \/ \E tool \in {"setup", "teardown"} : CallDetected(tool)
    \/ \E tool \in {"setup", "teardown"}, language \in Languages : Call(tool, language)
    \/ Step \/ Overlook \/ Fail
    \/ FollowManualStep \/ FollowManualCMakeStep \/ UndoInputCalls
    \/ ChangeAccess \/ UpgradeServer

Spec == Init /\ [][Next]_vars
-----------------------------------------------------------------------------
(* No step of a call loses, repeats or reorders a line that the game's author
   wrote: setup only inserts, and teardown takes no more than what setup put
   in (markers.go, scan.FilterCMakeArgs). *)
GameKept == Own(WithHidden(disk)) = own

(* Wherever a call fails or the server dies, no step leaves a reference to a
   harness file that is not there: setup copies before it refers, teardown
   (c.go:702, lua.go:56) removes after the last reference is gone that it can
   see, and keeps what the game's own code uses.  A file that could not be
   read when its harness went (c.go:813) is the one that may be left behind. *)
NothingDangling == [][Dangling(disk') \subseteq Dangling(disk) \cup DOMAIN hidden]_vars

(* The comment of teardownC, of what can be read: a teardown that ends is all or
   nothing, also when it repeats one that failed halfway.  A harness referred to
   without markers stays as it was, else no file that can be read has a trace of
   setup, and the copies are gone but for one that could not be looked up. *)
TeardownIsWhole ==
    call = [tool |-> "teardown", language |-> "c", state |-> "done"] =>
      \/ disk = start
      \/ /\ \A f \in ToSet(CFiles) :
              Authored(disk.c[f]) /\ \A t \in Wrapping : ~Has(disk.c[f], t)
         /\ disk.cmake # NoFile => Authored(disk.cmake) /\ ~CMakeListsContain(disk.cmake)
         /\ \A name \in {"mcp.h", "mcp.c"} \ unseen : disk.copies[name] = 0

(* A C setup that ends has wired each thing the harness needs, or has said to
   the caller which it has not (manual_steps); a rewritten input call always
   has its declaration.  All of it is said of the files that can be read. *)
WiredOrTold ==
    call = [tool |-> "setup", language |-> "c", state |-> "done"] =>
      LET handler == EventHandler(disk.c)
          file == UpdateFile(disk.c)
      IN /\ disk.copies["mcp.h"] = version /\ disk.copies["mcp.c"] = version
         /\ CMakeListsContain(disk.cmake) \/ "CMakeLists.txt" \in told
         /\ IF handler = NoFile THEN "eventHandler" \in told
            ELSE /\ Has(disk.c[handler], "mcp.h")
                 /\ Has(disk.c[handler], "init") \/ "init" \in told
                 /\ "update" \notin told => file # NoFile /\ Has(disk.c[file], "update")
                 /\ \A f \in ToSet(CFiles) :
                      /\ ~Has(disk.c[f], "input")
                      /\ Has(disk.c[f], "odd") => f \in told
                      /\ Has(disk.c[f], "wrapper") => Has(disk.c[f], "mcp.h")

(* The next write of a call, unless it or one before it cannot read its file. *)
Write(done, step) ==
    IF ~done.ok \/ ~Readable(step, done.d) THEN [done EXCEPT !.ok = FALSE]
    ELSE [done EXCEPT !.d = After(step, done.d)]

(* What a call makes of d when nothing fails but what cannot be read. *)
Whole(tool, language, d) ==
    LET steps == Steps(tool, language, d)
        whole[n \in 0..Len(steps)] ==
          IF n = 0 THEN [ok |-> TRUE, d |-> d] ELSE Write(whole[n - 1], steps[n])
    IN whole[Len(steps)].d

(* Every call may be repeated while the same files can be read: from wherever it
   stands, done, failed or in the middle, the same call again leads where it
   would have led at once. *)
Resumable ==
    call.state # "none" =>
      Whole(call.tool, call.language, disk) = Whole(call.tool, call.language, start)
=============================================================================
