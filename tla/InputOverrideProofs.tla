------------------------- MODULE InputOverrideProofs -------------------------
(***************************************************************************)
(* Theorems about InputOverride for any buttons, crank settings and        *)
(* durations, both harnesses, and any number of commands.                  *)
(***************************************************************************)
EXTENDS InputOverride, TLAPS

CrankType ==
    [active : BOOLEAN, angle : Angles, dock : Docks, left : Nat \cup {Forever}]

LEMMA LeftType ==
  ASSUME NEW l \in Nat \cup {Forever}, NEW dt \in Nat
  PROVE  /\ LeftAfter(l, dt) \in Nat \cup {Forever}
         /\ LeftAfter(l, dt) = Forever => l = Forever
  BY DEF LeftAfter, Forever

LEMMA ExpiryType ==
  ASSUME NEW d \in Nat
  PROVE  /\ Expiry(d) \in Nat \cup {Forever}
         /\ Defaulted(d) \in Nat
         /\ Expiry(Defaulted(d)) # Forever
  BY ConstantsAssumption DEF Expiry, Defaulted, Forever

(* What the expiry of the crank override makes of a crank.                 *)
LEMMA LiveCrankType ==
  ASSUME TypeOK
  PROVE  /\ LiveCrank \in CrankType
         /\ DockNeedsCrank => (LiveCrank.dock # "unchanged" => LiveCrank.active)
  <1>1. crank \in CrankType
    BY DEF TypeOK, CrankType
  <1>2. [crank EXCEPT !.active = FALSE, !.dock = "unchanged"] \in CrankType
    BY <1>1 DEF CrankType, Docks
  <1>3. [crank EXCEPT !.active = FALSE, !.dock = "unchanged"].dock = "unchanged"
    BY <1>1 DEF CrankType
  <1> QED
    BY <1>1, <1>2, <1>3 DEF LiveCrank, DockNeedsCrank

LEMMA TypeInit == Init => TypeOK
  <1> SUFFICES ASSUME Init PROVE TypeOK
    OBVIOUS
  <1>1. crank \in CrankType
    BY DEF Init, CrankType, Docks
  <1>2. commands \in 0..MaxCommands
    BY ConstantsAssumption DEF Init
  <1> QED
    <2>1. AllUp \in [Buttons -> BOOLEAN] /\ left \in [Buttons -> Nat \cup {Forever}]
      BY DEF Init, AllUp
    <2>2. overrideAtRead \in [Buttons -> {"none", "down", "up"}]
      BY DEF Init
    <2>3. /\ game \in Games /\ phase = "frame" /\ quiet = TRUE
          /\ real = AllUp /\ realBefore = AllUp /\ active = AllUp /\ value = AllUp
          /\ lastPressed = AllUp /\ wasActive = AllUp /\ pushed = AllUp /\ released = AllUp
          /\ seen = AllUp /\ edgeDown = AllUp /\ callbackDown = AllUp
      BY DEF Init
    <2> QED
      BY <1>1, <1>2, <2>1, <2>2, <2>3 DEF TypeOK, CrankType

(* What an update changes beside the overrides keeps its type.             *)
LEMMA UpdateTypes ==
  ASSUME TypeOK, Update, UNCHANGED game
  PROVE  /\ game' \in Games
         /\ phase' \in {"frame", "update", "read"}
         /\ real' \in [Buttons -> BOOLEAN] /\ realBefore' \in [Buttons -> BOOLEAN]
         /\ lastPressed' \in [Buttons -> BOOLEAN] /\ wasActive' \in [Buttons -> BOOLEAN]
         /\ pushed' \in [Buttons -> BOOLEAN] /\ released' \in [Buttons -> BOOLEAN]
         /\ seen' \in [Buttons -> BOOLEAN] /\ edgeDown' \in [Buttons -> BOOLEAN]
         /\ overrideAtRead' \in [Buttons -> {"none", "down", "up"}]
         /\ callbackDown' \in [Buttons -> BOOLEAN]
  <1> USE DEF TypeOK
  <1>1. \A b \in Buttons : Live(b) \in BOOLEAN
    BY DEF Live
  <1> DEFINE effective(b) == IF Live(b) THEN value[b] ELSE real[b]
  <1>2. \A b \in Buttons : effective(b) \in BOOLEAN
    BY <1>1
  <1>3. /\ pushed' \in [Buttons -> BOOLEAN] /\ released' \in [Buttons -> BOOLEAN]
        /\ lastPressed' \in [Buttons -> BOOLEAN] /\ wasActive' \in [Buttons -> BOOLEAN]
    BY <1>1, <1>2 DEF Update, UpdateEdges
  <1>4. callbackDown' \in [Buttons -> BOOLEAN]
    BY <1>3 DEF Update, UpdateEdges
  <1> QED
    BY <1>3, <1>4 DEF Update, seenVars

(* No override that forces a button up is for ever, and a dock comes with  *)
(* its crank: the state the harness's update leaves.                       *)
SafeInv == TypeOK /\ NeverDeaf /\ DockNeedsCrank

LEMMA UpdateSafe ==
  ASSUME SafeInv, HarnessUpdate, UNCHANGED game
  PROVE  SafeInv'
  <1> USE DEF SafeInv
  <1>0. Update /\ quiet' \in BOOLEAN /\ commands' \in 0..MaxCommands
    <2>1. CASE NoCommand
      BY <2>1 DEF NoCommand, TypeOK
    <2>2. CASE Command
      <3>1. commands \in 0..MaxCommands /\ MaxCommands \in Nat
        BY ConstantsAssumption DEF TypeOK
      <3>2. commands < MaxCommands /\ commands' = commands + 1 /\ quiet' = FALSE /\ Update
        BY <2>2 DEF Command
      <3>3. commands' \in 0..MaxCommands
        BY <3>1, <3>2
      <3> QED
        BY <3>2, <3>3
    <2> QED
      BY <2>1, <2>2
         DEF HarnessUpdate, PressButton, ReleaseButton, HoldButton, ForceButton, ResetInput, SetCrank
  <1>1. /\ active' \in [Buttons -> BOOLEAN] /\ value' \in [Buttons -> BOOLEAN]
        /\ left' \in [Buttons -> Nat \cup {Forever}]
        /\ crank' \in CrankType
        /\ NeverDeaf' /\ DockNeedsCrank'
        => SafeInv'
    BY <1>0, UpdateTypes DEF TypeOK, CrankType
  <1>2. \A b \in Buttons : Live(b) \in BOOLEAN /\ (Live(b) => active[b])
    BY DEF Live, TypeOK
  <1>3. CASE NoCommand
    <2>1. DockNeedsCrank'
      BY <1>3, LiveCrankType DEF NoCommand, DockNeedsCrank
    <2> QED
      BY <1>1, <1>2, <1>3, <2>1, LiveCrankType DEF NoCommand, TypeOK, NeverDeaf
  <1>4. ASSUME NEW b \in Buttons, NEW v \in BOOLEAN, NEW d \in Nat, ForceButton(b, v, d),
               v \/ Expiry(d) # Forever
        PROVE  SafeInv'
    <2>1. DockNeedsCrank'
      BY <1>4, LiveCrankType DEF ForceButton, DockNeedsCrank
    <2>2. NeverDeaf'
      BY <1>2, <1>4 DEF ForceButton, TypeOK, NeverDeaf
    <2> QED
      BY <1>1, <1>2, <1>4, <2>1, <2>2, ExpiryType, LiveCrankType DEF ForceButton, TypeOK
  <1>5. ASSUME NEW b \in Buttons, NEW d \in Durations, PressButton(b, d) \/ ReleaseButton(b, d)
        PROVE  SafeInv'
    <2>1. d \in Nat
      BY ConstantsAssumption
    <2> QED
      BY <1>4, <1>5, <2>1, ExpiryType DEF PressButton, ReleaseButton
  <1>6. ASSUME NEW b \in Buttons, HoldButton(b) PROVE SafeInv'
    BY <1>4, <1>6 DEF HoldButton
  <1>7. CASE ResetInput
    <2>1. LiveCrank \in CrankType
      BY LiveCrankType
    <2>2. /\ crank' \in CrankType
          /\ crank'.dock = "unchanged"
      BY <1>7, <2>1 DEF ResetInput, CrankType, Docks
    <2> QED
      BY <1>1, <1>7, <2>2 DEF ResetInput, TypeOK, NeverDeaf, DockNeedsCrank, AllUp
  <1>8. ASSUME NEW a \in Angles, NEW dock \in Docks, NEW d \in Durations, SetCrank(a, dock, d)
        PROVE  SafeInv'
    <2>1. d \in Nat
      BY ConstantsAssumption
    <2>2. crank' \in CrankType /\ crank'.active
      BY <1>8, <2>1, ExpiryType DEF SetCrank, CrankType
    <2> QED
      BY <1>1, <1>2, <1>8, <2>2 DEF SetCrank, TypeOK, NeverDeaf, DockNeedsCrank
  <1> QED
    BY <1>3, <1>5, <1>6, <1>7, <1>8 DEF HarnessUpdate

LEMMA SafeStep == SafeInv /\ [Next]_vars => SafeInv'
  <1> SUFFICES ASSUME SafeInv, [Next]_vars PROVE SafeInv'
    OBVIOUS
  <1> USE DEF SafeInv
  <1>1. CASE UNCHANGED vars
    BY <1>1 DEF TypeOK, NeverDeaf, DockNeedsCrank, vars, loopVars, overrideVars, seenVars
  <1> SUFFICES ASSUME Step, UNCHANGED game PROVE SafeInv'
    BY <1>1 DEF Next
  <1>2. CASE NewFrame
    <2>1. PICK dt \in FrameTimes :
            /\ left' = [b \in Buttons |-> LeftAfter(left[b], dt)]
            /\ crank' = [crank EXCEPT !.left = LeftAfter(@, dt)]
      BY <1>2 DEF NewFrame
    <2>2. dt \in Nat
      BY ConstantsAssumption
    <2>3. /\ left' \in [Buttons -> Nat \cup {Forever}]
          /\ \A b \in Buttons : left'[b] = Forever => left[b] = Forever
      BY <2>1, <2>2, LeftType DEF TypeOK
    <2>4. crank' \in CrankType /\ crank'.dock = crank.dock /\ crank'.active = crank.active
      <3>1. crank \in CrankType
        BY DEF TypeOK, CrankType
      <3>2. LeftAfter(crank.left, dt) \in Nat \cup {Forever}
        BY <2>2, <3>1, LeftType DEF CrankType
      <3> QED
        BY <2>1, <3>1, <3>2 DEF CrankType
    <2>5. /\ phase' \in {"frame", "update", "read"}
          /\ real' \in [Buttons -> BOOLEAN] /\ realBefore' \in [Buttons -> BOOLEAN]
      BY <1>2 DEF NewFrame, TypeOK
    <2>6. UNCHANGED <<active, value, lastPressed, wasActive, pushed, released, seenVars,
                      callbackDown, quiet, commands>>
      BY <1>2 DEF NewFrame
    <2> QED
      BY <2>3, <2>4, <2>5, <2>6 DEF TypeOK, NeverDeaf, DockNeedsCrank, CrankType, seenVars
  <1>3. CASE HarnessUpdate
    BY <1>3, UpdateSafe
  <1>4. CASE Read
    <2>1. /\ seen' \in [Buttons -> BOOLEAN] /\ edgeDown' \in [Buttons -> BOOLEAN]
          /\ overrideAtRead' \in [Buttons -> {"none", "down", "up"}]
          /\ phase' \in {"frame", "update", "read"}
      BY <1>4 DEF Read, TypeOK, Current, Override
    <2> QED
      BY <1>4, <2>1 DEF Read, TypeOK, NeverDeaf, DockNeedsCrank, overrideVars
  <1> QED
    BY <1>2, <1>3, <1>4 DEF Step

LEMMA SafeInit == Init => SafeInv
  <1> SUFFICES ASSUME Init PROVE SafeInv
    OBVIOUS
  <1>1. NeverDeaf /\ DockNeedsCrank
    BY DEF Init, NeverDeaf, DockNeedsCrank, AllUp
  <1> QED
    BY <1>1, TypeInit DEF SafeInv

(* Every variable of the overrides keeps its type under every sequence of  *)
(* commands, expiries and reads.                                           *)
THEOREM TypeCorrect == Spec => []TypeOK
  <1>1. SafeInv => TypeOK
    BY DEF SafeInv
  <1> QED
    BY <1>1, SafeInit, SafeStep, PTL DEF Spec

(* No sequence of presses, holds, releases, resets and expiries leaves a   *)
(* button forced up without an end, whatever durations the tools are asked *)
(* for, 0 included: the player can always use it again.                    *)
THEOREM NeverDeafCorrect == Spec => []NeverDeaf
  <1>1. SafeInv => NeverDeaf
    BY DEF SafeInv
  <1> QED
    BY <1>1, SafeInit, SafeStep, PTL DEF Spec

(* No sequence of crank commands, expiries and resets leaves the dock      *)
(* overridden after the crank override it came with.                       *)
THEOREM DockCorrect == Spec => []DockNeedsCrank
  <1>1. SafeInv => DockNeedsCrank
    BY DEF SafeInv
  <1> QED
    BY <1>1, SafeInit, SafeStep, PTL DEF Spec

-----------------------------------------------------------------------------
(* The edges.  What is known of a button between two updates:              *)

AfterRead == IF ReadsFirst THEN "update" ELSE "frame"

(* The game has not yet read the edges of the last update.                 *)
EdgesPending == IF ReadsFirst THEN phase # "update" ELSE phase = "read"

HardwareUp == ~HumanPlays => real = AllUp /\ realBefore = AllUp

(* With nobody at the real buttons only an override holds one down.        *)
LevelNeedsOverride ==
    ~HumanPlays => \A b \in Buttons : lastPressed[b] => wasActive[b]

CallbackIsLevel ==
    ~HumanPlays => \A b \in Buttons : callbackDown[b] => Lua /\ lastPressed[b]

(* The edges the game has read, and those it is about to read, add up to   *)
(* the level of the last update.                                           *)
EdgesReachLevel ==
    ~Lua /\ ~HumanPlays =>
        \A b \in Buttons :
            lastPressed[b] <=> (IF EdgesPending
                                THEN (edgeDown[b] /\ ~released[b]) \/ pushed[b]
                                ELSE edgeDown[b])

(* Without a command that level is the one the game sees.                  *)
LevelSettles ==
    ~HumanPlays /\ quiet => \A b \in Buttons : Current(b) <=> lastPressed[b]

SeenIsCurrent ==
    phase = AfterRead => \A b \in Buttons : seen[b] <=> Current(b)

(* No push is pending of a button whose release an update left in force.   *)
ReleaseHasNoPush ==
    quiet => \A b \in Buttons : active[b] /\ ~value[b] => ~pushed[b]

EdgeInv ==
    /\ SafeInv
    /\ HardwareUp /\ LevelNeedsOverride /\ CallbackIsLevel /\ EdgesReachLevel
    /\ LevelSettles /\ SeenIsCurrent /\ ReleaseHasNoPush

LEMMA EdgeInit == Init => EdgeInv
  <1> SUFFICES ASSUME Init PROVE EdgeInv
    OBVIOUS
  <1>1. SafeInv
    BY SafeInit
  <1>2. \A b \in Buttons : AllUp[b] = FALSE
    BY DEF AllUp
  <1>3. /\ real = AllUp /\ realBefore = AllUp /\ active = AllUp
        /\ lastPressed = AllUp /\ pushed = AllUp /\ released = AllUp
        /\ seen = AllUp /\ edgeDown = AllUp /\ callbackDown = AllUp
    BY DEF Init
  <1> QED
    BY <1>1, <1>2, <1>3
       DEF EdgeInv, HardwareUp, LevelNeedsOverride, CallbackIsLevel, EdgesReachLevel,
           LevelSettles, SeenIsCurrent, ReleaseHasNoPush, Current

(* What an update makes of one button.                                     *)
LEMMA UpdatedButton ==
  ASSUME TypeOK, Update, NEW b \in Buttons,
         NEW level, level = (IF Live(b) THEN value[b] ELSE real[b])
  PROVE  /\ level \in BOOLEAN /\ Live(b) \in BOOLEAN
         /\ lastPressed'[b] = level
         /\ wasActive'[b] = Live(b)
         /\ pushed'[b] = ((Live(b) \/ wasActive[b]) /\ level /\ ~lastPressed[b])
         /\ released'[b] = ((Live(b) \/ wasActive[b]) /\ ~level /\ lastPressed[b])
         /\ callbackDown'[b] = (IF Lua /\ pushed'[b] THEN TRUE
                                ELSE IF Lua /\ released'[b] THEN FALSE
                                ELSE callbackDown[b])
  BY DEF TypeOK, Update, UpdateEdges, Live

LEMMA UpdateEdgeInv ==
  ASSUME EdgeInv, HarnessUpdate, UNCHANGED game
  PROVE  EdgeInv'
  <1>1. SafeInv' /\ TypeOK /\ TypeOK'
    BY UpdateSafe DEF EdgeInv, SafeInv
  <1>2. Update /\ (quiet' => NoCommand)
    BY DEF HarnessUpdate, NoCommand, Command, PressButton, ReleaseButton, HoldButton,
           ForceButton, ResetInput, SetCrank
  <1>3. /\ UNCHANGED <<real, realBefore, seenVars>>
        /\ phase = "update" /\ phase' = (IF ReadsFirst THEN "frame" ELSE "read")
        /\ (ReadsFirst <=> ReadsFirst') /\ (Lua <=> Lua') /\ (HumanPlays <=> HumanPlays')
    BY <1>2 DEF Update, ReadsFirst, Lua, HumanPlays
  <1>4. HardwareUp'
    BY <1>3 DEF EdgeInv, HardwareUp
  <1>5. SeenIsCurrent'
    BY <1>3 DEF SeenIsCurrent, AfterRead
  <1>6. ASSUME ~HumanPlays, NEW b \in Buttons
        PROVE  real[b] = FALSE
    BY <1>6 DEF EdgeInv, HardwareUp, AllUp
  <1>7. LevelNeedsOverride'
    <2>1. ASSUME ~HumanPlays, NEW b \in Buttons
          PROVE  lastPressed'[b] => wasActive'[b]
      BY <1>1, <1>2, <1>6, <2>1, UpdatedButton
    <2> QED
      BY <1>3, <2>1 DEF LevelNeedsOverride
  <1>8. CallbackIsLevel'
    <2>1. ASSUME ~HumanPlays, NEW b \in Buttons
          PROVE  callbackDown'[b] => Lua /\ lastPressed'[b]
      <3>1. /\ callbackDown[b] => lastPressed[b]
            /\ lastPressed[b] => wasActive[b]
            /\ callbackDown[b] => Lua
        BY <2>1 DEF EdgeInv, CallbackIsLevel, LevelNeedsOverride
      <3> QED
        BY <1>1, <1>2, <3>1, UpdatedButton
    <2> QED
      BY <1>3, <2>1 DEF CallbackIsLevel
  <1>9. EdgesReachLevel'
    <2>1. ASSUME ~Lua, ~HumanPlays, NEW b \in Buttons
          PROVE  lastPressed'[b] <=> ((edgeDown[b] /\ ~released'[b]) \/ pushed'[b])
      <3>1. /\ lastPressed[b] <=> edgeDown[b]
            /\ lastPressed[b] => wasActive[b]
        BY <1>3, <2>1 DEF EdgeInv, EdgesReachLevel, EdgesPending, LevelNeedsOverride
      <3>2. lastPressed[b] \in BOOLEAN /\ edgeDown[b] \in BOOLEAN /\ wasActive[b] \in BOOLEAN
        BY <1>1 DEF TypeOK
      <3> QED
        BY <1>1, <1>2, <1>6, <2>1, <3>1, <3>2, UpdatedButton
    <2>2. EdgesPending' /\ edgeDown' = edgeDown
      BY <1>3 DEF EdgesPending, seenVars
    <2> QED
      BY <1>3, <2>1, <2>2 DEF EdgesReachLevel
  <1>10. LevelSettles' /\ ReleaseHasNoPush'
    <2>1. ASSUME quiet' PROVE active' = [b \in Buttons |-> Live(b)] /\ value' = value
      BY <1>2, <2>1 DEF NoCommand
    <2>2. ASSUME quiet', NEW b \in Buttons
          PROVE  /\ Current(b)' = lastPressed'[b]
                 /\ active'[b] /\ ~value'[b] => ~pushed'[b]
      <3>1. Current(b)' = (IF Live(b) THEN value[b] ELSE real[b])
        BY <1>3, <2>1, <2>2 DEF Current
      <3>2. active'[b] = Live(b) /\ value'[b] = value[b]
        BY <2>1, <2>2
      <3> QED
        BY <1>1, <1>2, <3>1, <3>2, UpdatedButton
    <2> QED
      BY <2>2 DEF LevelSettles, ReleaseHasNoPush
  <1> QED
    BY <1>1, <1>4, <1>5, <1>7, <1>8, <1>9, <1>10 DEF EdgeInv

LEMMA EdgeStep == EdgeInv /\ [Next]_vars => EdgeInv'
  <1> SUFFICES ASSUME EdgeInv, [Next]_vars PROVE EdgeInv'
    OBVIOUS
  <1>0. SafeInv' /\ TypeOK
    BY SafeStep DEF EdgeInv, SafeInv
  <1> USE DEF EdgeInv, HardwareUp, LevelNeedsOverride, CallbackIsLevel, EdgesReachLevel,
              LevelSettles, SeenIsCurrent, ReleaseHasNoPush, EdgesPending, AfterRead,
              ReadsFirst, Lua, HumanPlays, Current
  <1>1. CASE UNCHANGED vars
    BY <1>0, <1>1 DEF vars, loopVars, overrideVars, seenVars
  <1> SUFFICES ASSUME Step, UNCHANGED game PROVE EdgeInv'
    BY <1>1 DEF Next
  <1>2. CASE NewFrame
    <2>1. /\ UNCHANGED <<active, value, lastPressed, wasActive, pushed, released, seenVars,
                         callbackDown, quiet>>
          /\ phase = "frame" /\ phase' = (IF ReadsFirst THEN "read" ELSE "update")
          /\ realBefore' = real
      BY <1>2 DEF NewFrame
    <2>2. ~HumanPlays => real' = AllUp
      <3> SUFFICES ASSUME ~HumanPlays PROVE real' = AllUp
        OBVIOUS
      <3>1. PICK down \in SUBSET game.human : real' = [b \in Buttons |-> b \in down]
        BY <1>2 DEF NewFrame
      <3>2. \A b \in Buttons : (b \in down) = FALSE
        OBVIOUS
      <3> QED
        BY <3>1, <3>2, Zenon DEF AllUp
    <2>3. \A b \in Buttons : ~HumanPlays => (Current(b)' <=> Current(b))
      BY <2>1, <2>2
    <2> QED
      BY <1>0, <2>1, <2>2, <2>3 DEF seenVars
  <1>3. CASE HarnessUpdate
    BY <1>3, UpdateEdgeInv
  <1>4. CASE Read
    <2>1. /\ UNCHANGED <<real, realBefore, overrideVars, callbackDown, quiet>>
          /\ phase = "read" /\ phase' = AfterRead
          /\ seen' = [b \in Buttons |-> Current(b)]
          /\ edgeDown' = [b \in Buttons |-> (edgeDown[b] /\ ~SeesRelease(b)) \/ SeesPush(b)]
      BY <1>4 DEF Read
    <2>2. ASSUME ~Lua, ~HumanPlays, NEW b \in Buttons
          PROVE  SeesPush(b) = pushed[b] /\ SeesRelease(b) = released[b]
      <3>1. pushed[b] \in BOOLEAN /\ released[b] \in BOOLEAN
        BY <1>0 DEF TypeOK
      <3>2. real[b] = FALSE /\ realBefore[b] = FALSE
        BY <2>2 DEF AllUp
      <3> QED
        BY <2>2, <3>1, <3>2 DEF SeesPush, SeesRelease, Edge
    <2>3. EdgesReachLevel'
      <3>1. ASSUME ~Lua, ~HumanPlays, NEW b \in Buttons
            PROVE  lastPressed'[b] <=> edgeDown'[b]
        BY <2>1, <2>2, <3>1 DEF overrideVars
      <3> QED
        BY <2>1, <3>1
    <2> QED
      BY <1>0, <2>1, <2>3 DEF overrideVars
  <1> QED
    BY <1>2, <1>3, <1>4 DEF Step

(* docs/GOTCHAS.md, for a C game with nobody at the real buttons: whatever *)
(* the presses, holds, releases, resets and expiries, and on whichever     *)
(* side of its own read the game calls the harness, a read that follows an *)
(* update without a command shows every button at the level the edges add  *)
(* up to.                                                                  *)
THEOREM EdgesCorrect == Spec => []EdgesExplainLevel
  <1>1. EdgeInv => EdgesExplainLevel
    <2> SUFFICES ASSUME EdgeInv, ~Lua, ~HumanPlays, quiet, phase = AfterRead,
                        NEW b \in Buttons
                 PROVE  edgeDown[b] = seen[b]
      BY DEF EdgesExplainLevel, EdgesAddUp, AfterRead
    <2>1. ~EdgesPending
      BY DEF EdgesPending, AfterRead
    <2>2. edgeDown[b] <=> seen[b]
      BY <2>1 DEF EdgeInv, EdgesReachLevel, LevelSettles, SeenIsCurrent
    <2> QED
      BY <2>2 DEF EdgeInv, SafeInv, TypeOK
  <1> QED
    BY <1>1, EdgeInit, EdgeStep, PTL DEF Spec

(* The callbacks of the Lua harness end with a ButtonUp: with nobody at    *)
(* the real buttons, a button that is not overridden and was not in the    *)
(* last frame got no ButtonDown after its last ButtonUp.                   *)
THEOREM CallbacksCorrect == Spec => []CallbacksSettle
  <1>1. EdgeInv => CallbacksSettle
    BY DEF EdgeInv, LevelNeedsOverride, CallbackIsLevel, CallbacksSettle
  <1> QED
    BY <1>1, EdgeInit, EdgeStep, PTL DEF Spec

(* A release that is in force masks the real button in both harnesses,     *)
(* whoever plays: no read without a command since the last one shows the   *)
(* button down or a push of it.                                            *)
THEOREM NoLeakCorrect == Spec => []NoLeakWhileReleased
  <1>1. EdgeInv => NoLeakWhileReleased
    <2> SUFFICES ASSUME EdgeInv, quiet, NEW b \in Buttons, Override(b) = "up"
                 PROVE  ~Current(b) /\ ~SeesPush(b)
      BY DEF NoLeakWhileReleased
    <2>1. active[b] /\ ~value[b]
      BY DEF Override
    <2> QED
      BY <2>1 DEF EdgeInv, ReleaseHasNoPush, Current, SeesPush, Edge, Masked
  <1> QED
    BY <1>1, EdgeInit, EdgeStep, PTL DEF Spec
=============================================================================
