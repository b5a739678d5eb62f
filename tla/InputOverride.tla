--------------------------- MODULE InputOverride ----------------------------
(***************************************************************************)
(* The input overrides a harness keeps for a game, and what the game reads *)
(* through it: c-harness/mcp_harness.c behind mcp_get_button_state and the *)
(* mcp_get_crank_* wrappers, lua/mcp_harness.lua behind the playdate.*     *)
(* functions it replaces.  Once a frame the harness expires overrides,     *)
(* computes the synthetic edges of the overridden buttons, and applies at  *)
(* most one command; once a frame the game reads its input.  The commands  *)
(* are those the input tools of the server (internal/tools/input.go) send. *)
(*                                                                         *)
(* Time is counted in units of one normal frame.  Instead of the absolute  *)
(* expires_at_ms an override keeps the time it has left, so time itself    *)
(* needs no bound: "now_ms >= expires_at_ms" is left = 0.                  *)
(***************************************************************************)
EXTENDS Integers

CONSTANTS
    Buttons,
    Angles,        \* crank settings (angle and delta together)
    Durations,     \* duration_ms a tool call may ask for, 0 when omitted
    DefaultPress,  \* defaultPressMs
    FrameTimes,    \* how long a frame may take
    MaxCommands,   \* bound on the commands applied
    Games          \* the games considered

Game == [
    lua : BOOLEAN,         \* TRUE: Lua harness.  FALSE: C harness
    readsFirst : BOOLEAN,  \* the game reads its input before the harness updates
    human : SUBSET Buttons]\* the real buttons that somebody uses

Docks == {"unchanged", "docked", "undocked"}

Forever == -1      \* MCP_NO_EXPIRY / NO_EXPIRY

ASSUME ConstantsAssumption ==
    /\ Durations \subseteq Nat
    /\ DefaultPress \in Nat \ {0}
    /\ FrameTimes \subseteq Nat \ {0}
    /\ MaxCommands \in Nat
    /\ Games \subseteq Game

VARIABLES
    game,
    phase,             \* whose turn it is in this frame
    real, realBefore,  \* the hardware buttons, in this frame and the last
    (* McpOverrideState *)
    active, value, left,
    lastPressed,       \* last_effective_pressed
    wasActive,         \* override_was_active_last_frame
    pushed, released,  \* pending_pushed, pending_released
    crank,
    (* what the game has seen, for the properties *)
    seen,              \* the level of each button at its last read
    edgeDown,          \* the last edge it read was a push
    overrideAtRead,    \* what the override was at its last read
    callbackDown,      \* the last callback it got was a ButtonDown (Lua)
    quiet,             \* the last update applied no command
    commands           \* how many commands were applied

overrideVars == <<active, value, left, lastPressed, wasActive, pushed, released, crank>>
seenVars == <<seen, edgeDown, overrideAtRead>>
loopVars == <<phase, real, realBefore, overrideVars, seenVars, callbackDown, quiet, commands>>
vars == <<game, loopVars>>

Lua == game.lua
ReadsFirst == game.readsFirst
HumanPlays == game.human # {}

AllUp == [b \in Buttons |-> FALSE]

Init ==
    /\ game \in Games
    /\ phase = "frame"
    /\ real = AllUp /\ realBefore = AllUp
    /\ active = AllUp /\ value = AllUp
    /\ left = [b \in Buttons |-> 0]
    /\ lastPressed = AllUp /\ wasActive = AllUp
    /\ pushed = AllUp /\ released = AllUp
    /\ \E a \in Angles :
         crank = [active |-> FALSE, angle |-> a, dock |-> "unchanged", left |-> 0]
    /\ seen = AllUp /\ edgeDown = AllUp
    /\ overrideAtRead = [b \in Buttons |-> "none"]
    /\ callbackDown = AllUp
    /\ quiet = TRUE /\ commands = 0

-----------------------------------------------------------------------------
(* The next frame: time passes and the hardware is sampled.                *)

(* Mutant: the time left runs below zero.                                  *)
LeftAfter_Unclamped(l, dt) == IF l = Forever THEN Forever ELSE l - 2 * dt

LeftAfter(l, dt) == IF l = Forever THEN Forever ELSE IF l > dt THEN l - dt ELSE 0

NewFrame ==
    /\ phase = "frame"
    /\ phase' = IF ReadsFirst THEN "read" ELSE "update"
    /\ realBefore' = real
    /\ \E down \in SUBSET game.human : real' = [b \in Buttons |-> b \in down]
    /\ \E dt \in FrameTimes :
         /\ left' = [b \in Buttons |-> LeftAfter(left[b], dt)]
         /\ crank' = [crank EXCEPT !.left = LeftAfter(@, dt)]
    /\ UNCHANGED <<active, value, lastPressed, wasActive, pushed, released, seenVars,
                   callbackDown, quiet, commands>>

-----------------------------------------------------------------------------
(* The harness's update.                                                   *)

(* Mutant: overrides never expire.                                         *)
Live_NeverExpires(b) == active[b]

Live(b) == active[b] /\ left[b] # 0

(* Mutant: the expiry of the crank override forgets its dock.              *)
LiveCrank_KeepsDock ==
    IF crank.active /\ crank.left = 0 THEN [crank EXCEPT !.active = FALSE] ELSE crank

(* mcp_override_expire of the crank takes its dock override with it.       *)
LiveCrank ==
    IF crank.active /\ crank.left = 0
    THEN [crank EXCEPT !.active = FALSE, !.dock = "unchanged"]
    ELSE crank

(* Mutant: the edge of an override that has just ended is dropped.         *)
UpdateEdges_LiveOnly ==
    LET effective(b) == IF Live(b) THEN value[b] ELSE real[b]
    IN  /\ pushed' = [b \in Buttons |-> Live(b) /\ effective(b) /\ ~lastPressed[b]]
        /\ released' = [b \in Buttons |-> Live(b) /\ ~effective(b) /\ lastPressed[b]]
        /\ lastPressed' = [b \in Buttons |-> effective(b)]
        /\ wasActive' = [b \in Buttons |-> Live(b)]
        /\ callbackDown' = [b \in Buttons |-> IF Lua /\ pushed'[b] THEN TRUE
                                              ELSE IF Lua /\ released'[b] THEN FALSE
                                              ELSE callbackDown[b]]

(* mcp_override_update_edges: runs after the expiry and before the command,*)
(* so the edge of a command shows up in the next frame.  Lua also calls    *)
(* the game's ButtonDown and ButtonUp callbacks.                           *)
UpdateEdges ==
    LET effective(b) == IF Live(b) THEN value[b] ELSE real[b]
        touched(b) == Live(b) \/ wasActive[b]
    IN  /\ pushed' = [b \in Buttons |-> touched(b) /\ effective(b) /\ ~lastPressed[b]]
        /\ released' = [b \in Buttons |-> touched(b) /\ ~effective(b) /\ lastPressed[b]]
        /\ lastPressed' = [b \in Buttons |-> effective(b)]
        /\ wasActive' = [b \in Buttons |-> Live(b)]
        /\ callbackDown' = [b \in Buttons |-> IF Lua /\ pushed'[b] THEN TRUE
                                              ELSE IF Lua /\ released'[b] THEN FALSE
                                              ELSE callbackDown[b]]

Update ==
    /\ phase = "update"
    /\ phase' = IF ReadsFirst THEN "frame" ELSE "read"
    /\ UpdateEdges
    /\ UNCHANGED <<real, realBefore, seenVars>>

NoCommand ==
    /\ Update
    /\ quiet' = TRUE
    /\ active' = [b \in Buttons |-> Live(b)]
    /\ crank' = LiveCrank
    /\ UNCHANGED <<value, left, commands>>

Command ==
    /\ Update
    /\ quiet' = FALSE
    /\ commands < MaxCommands
    /\ commands' = commands + 1

(* Both harnesses: a non-positive duration never expires.                  *)
Expiry(d) == IF d > 0 THEN d ELSE Forever

(* mcp_override_apply_press (v is TRUE) and apply_release (v is FALSE).    *)
ForceButton(b, v, d) ==
    /\ Command
    /\ active' = [x \in Buttons |-> x = b \/ Live(x)]
    /\ value' = [value EXCEPT ![b] = v]
    /\ left' = [left EXCEPT ![b] = Expiry(d)]
    /\ crank' = LiveCrank

(* Mutant: an omitted duration is passed on as 0, which never expires.     *)
Defaulted_Not(d) == d

Defaulted(d) == IF d <= 0 THEN DefaultPress ELSE d

PressButton(b, d) == ForceButton(b, TRUE, Defaulted(d))

HoldButton(b) == ForceButton(b, TRUE, 0)

ReleaseButton(b, d) == ForceButton(b, FALSE, Defaulted(d))

(* Clears only the override flags; edge tracking is kept.                  *)
ResetInput ==
    /\ Command
    /\ active' = AllUp
    /\ crank' = [LiveCrank EXCEPT !.active = FALSE, !.dock = "unchanged"]
    /\ UNCHANGED <<value, left>>

SetCrank(a, dock, d) ==
    /\ Command
    /\ active' = [b \in Buttons |-> Live(b)]
    /\ crank' = [active |-> TRUE, angle |-> a, dock |-> dock, left |-> Expiry(d)]
    /\ UNCHANGED <<value, left>>

-----------------------------------------------------------------------------
(* The game's read: getButtonState and its like.                           *)

Current(b) == IF active[b] THEN value[b] ELSE real[b]

Override(b) == IF ~active[b] THEN "none" ELSE IF value[b] THEN "down" ELSE "up"

Masked(b) == active[b] \/ wasActive[b]

(* Mutant: the real edges are never masked.                                *)
Edge_Unmasked(b, pending, hardware) == hardware \/ pending

(* C adds the pending edges whether or not the real ones are masked; Lua   *)
(* takes one or the other.                                                 *)
Edge(b, pending, hardware) ==
    IF Masked(b) THEN pending ELSE hardware \/ (~Lua /\ pending)

SeesPush(b) == Edge(b, pushed[b], real[b] /\ ~realBefore[b])
SeesRelease(b) == Edge(b, released[b], ~real[b] /\ realBefore[b])

Read ==
    /\ phase = "read"
    /\ phase' = IF ReadsFirst THEN "update" ELSE "frame"
    /\ seen' = [b \in Buttons |-> Current(b)]
    /\ edgeDown' = [b \in Buttons |-> (edgeDown[b] /\ ~SeesRelease(b)) \/ SeesPush(b)]
    /\ overrideAtRead' = [b \in Buttons |-> Override(b)]
    /\ UNCHANGED <<real, realBefore, overrideVars, callbackDown, quiet, commands>>

-----------------------------------------------------------------------------
HarnessUpdate ==
    \/ NoCommand
    \/ \E b \in Buttons, d \in Durations : PressButton(b, d) \/ ReleaseButton(b, d)
    \/ \E b \in Buttons : HoldButton(b)
    \/ ResetInput
    \/ \E a \in Angles, dock \in Docks, d \in Durations : SetCrank(a, dock, d)

Step == NewFrame \/ HarnessUpdate \/ Read

Next == Step /\ UNCHANGED game

Spec == Init /\ [][Next]_vars

(* The game loop runs as long as the Simulator does.                       *)
FairSpec == Spec /\ WF_loopVars(Step)

-----------------------------------------------------------------------------
TypeOK ==
    /\ game \in Games
    /\ phase \in {"frame", "update", "read"}
    /\ real \in [Buttons -> BOOLEAN] /\ realBefore \in [Buttons -> BOOLEAN]
    /\ active \in [Buttons -> BOOLEAN] /\ value \in [Buttons -> BOOLEAN]
    /\ left \in [Buttons -> Nat \cup {Forever}]
    /\ lastPressed \in [Buttons -> BOOLEAN] /\ wasActive \in [Buttons -> BOOLEAN]
    /\ pushed \in [Buttons -> BOOLEAN] /\ released \in [Buttons -> BOOLEAN]
    /\ crank \in [active : BOOLEAN, angle : Angles, dock : Docks,
                  left : Nat \cup {Forever}]
    /\ seen \in [Buttons -> BOOLEAN] /\ edgeDown \in [Buttons -> BOOLEAN]
    /\ overrideAtRead \in [Buttons -> {"none", "down", "up"}]
    /\ callbackDown \in [Buttons -> BOOLEAN] /\ quiet \in BOOLEAN
    /\ commands \in 0..MaxCommands

(* docs/GOTCHAS.md: a level an override causes, or one that has just        *)
(* expired, comes with its edge.  So a read one frame or more after the    *)
(* last command shows each button at the level its edges add up to.        *)
EdgesAddUp ==
    phase = (IF ReadsFirst THEN "update" ELSE "frame") /\ quiet =>
        \A b \in Buttons : edgeDown[b] = seen[b]

(* In a C game with nobody at the real buttons they do, wherever in its    *)
(* frame it calls the harness: no press, release, reset or expiry changes  *)
(* a level without its edge.                                               *)
EdgesExplainLevel == ~Lua /\ ~HumanPlays => EdgesAddUp

(* The same for the callbacks of a Lua game: once nothing is overridden    *)
(* and the edges are computed, the last callback was a ButtonUp.           *)
CallbacksSettle ==
    ~HumanPlays => \A b \in Buttons : ~active[b] /\ ~wasActive[b] => ~callbackDown[b]

(* No button is forced up without an end: after a release_button the       *)
(* player can always use the button again.                                 *)
NeverDeaf == \A b \in Buttons : active[b] /\ left[b] = Forever => value[b]

(* While a release stays in force, no press of the person at the real      *)
(* buttons leaks through: from one read to the next, with no command       *)
(* between them, the game sees the button up and is told of no push.       *)
NoLeakWhileReleased ==
    phase = "read" /\ quiet =>
        \A b \in Buttons : overrideAtRead[b] = "up" /\ Override(b) = "up" =>
            ~Current(b) /\ ~SeesPush(b)

(* A tap or a release ends: once commands stop, only holds remain.         *)
TimedOverridesEnd == <>[](\A b \in Buttons : active[b] => left[b] = Forever)

(* A dock override never outlives the crank override it came with.         *)
DockNeedsCrank == crank.dock # "unchanged" => crank.active

=============================================================================
