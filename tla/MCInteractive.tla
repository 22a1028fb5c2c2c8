---------------------------- MODULE MCInteractive -----------------------------
(***************************************************************************)
(* Instance of Interactive: one or two processes of the solution, with     *)
(* and without extra files, all kinds of executors, limits that are        *)
(* missing, given and switched off.                                        *)
(***************************************************************************)
EXTENDS Interactive

Plain == [num |-> 2, executor |-> "sio2jail", extra |-> TRUE, execTimeLimit |-> 1,
          execReal |-> None, interactorTime |-> None, interactorReal |-> None]

MCJobs == {
    Plain,
    [Plain EXCEPT !.num = 1, !.executor = "detailed", !.interactorReal = 3],
    [Plain EXCEPT !.num = 1, !.executor = "detailed", !.extra = FALSE, !.execReal = 0],
    [Plain EXCEPT !.num = 1, !.execReal = 7, !.interactorTime = 1],
    [Plain EXCEPT !.num = 1, !.executor = "realtime", !.extra = FALSE, !.execReal = 0]}
=============================================================================
