----------------------------- MODULE MCSession ------------------------------
(***************************************************************************)
(* Instances of Session for TLC.                                           *)
(***************************************************************************)
EXTENDS Session

(* A client that launches when nothing runs and does not restart over a    *)
(* stop, with a Simulator that may quit.                                   *)
Client == [tools |-> {"launch", "stop", "restart"}, launchesOverRunning |-> FALSE,
           stopsOverlap |-> TRUE, restartsOverStops |-> FALSE, mayQuit |-> TRUE,
           maxLaunches |-> 3, maxShots |-> 2, seesUnreaped |-> FALSE]

(* On Unix, and on Windows with fewer screenshots.                         *)
CarefulSettings == {Client, [Client EXCEPT !.seesUnreaped = TRUE, !.maxShots = 1]}

(* Every tool at any moment, but stops one at a time.                      *)
AnyOrderSettings ==
    {[Client EXCEPT !.launchesOverRunning = TRUE, !.stopsOverlap = FALSE, !.seesUnreaped = w,
                    !.maxLaunches = 2, !.maxShots = 1] : w \in BOOLEAN}

MCSettings == CarefulSettings \cup AnyOrderSettings

(* One that also restarts a Simulator which another call is stopping.      *)
OverlapSettings == {[Client EXCEPT !.restartsOverStops = TRUE]}
=============================================================================
