----------------------------- MODULE RemoteCall -----------------------------
(***************************************************************************)
(* What a tool call promises its caller, with the mailbox left out: calls  *)
(* are made one at a time, a call's command reaches the game at most once  *)
(* and in the order the calls were made, and a call only succeeds if its   *)
(* command did reach the game.  A call may fail at any moment, before or   *)
(* after its command ran, and a command may still run after its call gave  *)
(* up: the caller of a failed call knows nothing.                          *)
(***************************************************************************)
EXTENDS Naturals

CONSTANT Calls      \* the calls, numbered in the order they are made

VARIABLES started,  \* how many calls have been made
          runs,     \* how often the game executed each call's command
          result    \* what each call returned

Outcome == {"ok", "error", "timeout", "abandoned"}

Open(n) == n <= started /\ result[n] = "none"

Init ==
    /\ started = 0
    /\ runs = [n \in Calls |-> 0]
    /\ result = [n \in Calls |-> "none"]

Begin ==
    /\ \A n \in Calls : ~Open(n)
    /\ started + 1 \in Calls
    /\ started' = started + 1
    /\ UNCHANGED <<runs, result>>

Run(n) ==
    /\ n <= started
    /\ runs[n] = 0
    /\ \A m \in Calls : runs[m] > 0 => m < n
    /\ runs' = [runs EXCEPT ![n] = 1]
    /\ UNCHANGED <<started, result>>

Return(n, r) ==
    /\ Open(n)
    /\ r = "ok" => runs[n] = 1
    /\ result' = [result EXCEPT ![n] = r]
    /\ UNCHANGED <<started, runs>>

Next ==
    \/ Begin
    \/ \E n \in Calls : Run(n)
    \/ \E n \in Calls, r \in Outcome : Return(n, r)

Spec == Init /\ [][Next]_<<started, runs, result>>
=============================================================================
