-------------------------- MODULE MCInputOverride ---------------------------
(***************************************************************************)
(* Instances of InputOverride for TLC.                                     *)
(***************************************************************************)
EXTENDS InputOverride

CGame == [lua |-> FALSE, readsFirst |-> FALSE, human |-> {}]

(* The Lua wrapper always runs the game's update before the harness's.     *)
LuaGame == [lua |-> TRUE, readsFirst |-> TRUE, human |-> {}]

AllGames ==
    {CGame, LuaGame, [CGame EXCEPT !.readsFirst = TRUE]}
        \cup {[g EXCEPT !.human = {CHOOSE b \in Buttons : TRUE}] : g \in {CGame, LuaGame}}
=============================================================================
