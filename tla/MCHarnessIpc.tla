---------------------------- MODULE MCHarnessIpc ----------------------------
(***************************************************************************)
(* Instances of HarnessIpc for TLC.                                        *)
(***************************************************************************)
EXTENDS HarnessIpc, TLC

(* Callers are interchangeable.                                            *)
CallerSymmetry == Permutations(Callers)

Lua == [deleteFirst |-> TRUE, timesOut |-> FALSE, crashes |-> FALSE,
        failsIo |-> FALSE, restarts |-> FALSE]
C == [Lua EXCEPT !.deleteFirst = FALSE]

(* One server.  A C harness that dies between execution and unlink runs    *)
(* the command again, so only the Lua harness may die.                     *)
FailingEnvironments ==
    {[Lua EXCEPT !.timesOut = TRUE, !.crashes = TRUE],
     [Lua EXCEPT !.timesOut = TRUE, !.failsIo = TRUE],
     [C EXCEPT !.timesOut = TRUE, !.failsIo = TRUE]}

(* Either harness with nothing that fails, or with much that can.          *)
LiveEnvironments ==
    {Lua, C,
     [Lua EXCEPT !.timesOut = TRUE, !.crashes = TRUE, !.restarts = TRUE],
     [C EXCEPT !.timesOut = TRUE, !.failsIo = TRUE]}

LateEnvironments == {[Lua EXCEPT !.timesOut = TRUE]}
=============================================================================
