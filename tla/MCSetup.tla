------------------------------- MODULE MCSetup -------------------------------
(* Games for setup: an ordinary one, and what differs from it in one part or  *)
(* in two.                                                                    *)
EXTENDS Setup

MCCFiles == <<"main.c", "view.c">>
MCSources == {"main.c", "view.c", "mcp.c"}
MCReferences == {"SRC", "GLOB"}

Text(types) == [i \in DOMAIN types |-> OwnLine(types[i])]
Call_(t, name, args, alone, code) ==
    [t |-> t, name |-> name, args |-> args, alone |-> alone, code |-> code, own |-> TRUE]
Project(alone) == Call_("project", "", <<>>, alone, TRUE)
Add(args) == Call_("add", "", args, TRUE, TRUE)
List(name, args, alone) == Call_("set", name, args, alone, TRUE)

Handler == Text(<<"eventHandler", "case", "setUpdateCallback">>)
Mains ==
    {Text(<<"include", "PlaydateAPI", "update()", "input", "eventHandler", form,
            "setUpdateCallback">>) : form \in {"case", "block", "bare", "other"}}
    \cup {Handler,
          Text(<<"include", "update()", "odd", "eventHandler", "case">>),
          Text(<<"include", "input">>),
          Text(<<"include", "mcp.h", "PlaydateAPI", "update()", "update", "wrapper",
                 "eventHandler", "case", "init", "setUpdateCallback">>)}
Views == {Text(t) : t \in {<<"other">>, <<"include", "input", "odd">>,
                           <<"PlaydateAPI", "update()">>,
                           <<"include", "eventHandler", "case">>}}
ByReference == <<Project(TRUE), List("SRC", <<"main.c">>, TRUE), Add(<<"SRC", "view.c">>)>>
CMakes ==
    {NoFile,
     <<Project(TRUE), Add(<<"main.c", "view.c">>)>>,
     ByReference,
     <<Project(FALSE), List("SRC", <<"GLOB">>, FALSE), Add(<<"view.c">>), Add(<<"SRC">>)>>,
     <<Project(TRUE), Add(<<"main.c">>), Call_("call", "", <<"view.c", "mcp.c">>, FALSE, TRUE)>>,
     <<Project(TRUE), [Add(<<"main.c">>) EXCEPT !.code = FALSE], Add(<<"view.c">>)>>,
     <<Project(TRUE), OwnLine("include_directories"), List("X", <<"view.c">>, TRUE), Add(<<"GLOB">>)>>}
Luas == {NoFile, <<>>, Text(<<"other">>), Text(<<"import", "other">>)}

Copies(c, cmake, lua) ==
    [name \in Harness |->
       IF CASE name = "mcp.h" -> HasUnmarkedHarnessReference(c)
            [] name = "mcp.c" -> cmake # NoFile /\ CMakeListsContain(cmake)
            [] name = "mcp.lua" -> lua # NoFile /\ Imports(lua)
       THEN 1 ELSE 0]

Game(main, view, cmake, lua) ==
    LET c == "main.c" :> main @@ "view.c" :> view
    IN [c |-> c, cmake |-> cmake, lua |-> lua, copies |-> Copies(c, cmake, lua)]

Main == Text(<<"include", "PlaydateAPI", "update()", "input", "eventHandler", "case",
               "setUpdateCallback">>)
List1 == <<Project(TRUE), Add(<<"main.c", "view.c">>)>>

MCGames ==
    {Game(main, Text(<<"other">>), List1, NoFile) : main \in Mains}
    \cup {Game(main, view, List1, NoFile) :
             main \in {Main, Text(<<"include", "input">>), Handler}, view \in Views}
    \cup {Game(Main, Text(<<"other">>), cmake, NoFile) : cmake \in CMakes}
    \cup {Game(Text(<<"include", "input">>), Text(<<"other">>), cmake, NoFile) :
             cmake \in {NoFile, ByReference}}
    \cup {Game(Main, Text(<<"other">>), cmake, lua) : cmake \in {NoFile, List1}, lua \in Luas}
=============================================================================
