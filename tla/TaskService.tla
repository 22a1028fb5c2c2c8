----------------------------- MODULE TaskService ------------------------------
(***************************************************************************)
(* What sioworkersd promises to its clients and its workers, without       *)
(* queues, managers, connections and handlers: an accepted group is        *)
(* answered once, when each of its tasks has ended once; a task is with at *)
(* most one worker at a time, goes to a worker again only after it was     *)
(* lost there, and a worker is never given more than it can take.          *)
(*                                                                         *)
(* Sioworkersd implements this specification.                              *)
(***************************************************************************)
EXTENDS Naturals, FiniteSets

CONSTANTS
    Workers, Tasks, Groups,
    Members,        \* [Groups -> SUBSET Tasks], disjoint
    Concurrency,    \* [Workers -> Nat]
    CpuEnabled,     \* [Workers -> BOOLEAN]: the worker takes real-cpu tasks
    RealCpu,        \* [Tasks -> BOOLEAN]
    Outcomes,       \* how a task ends
    None

VARIABLES
    pending,        \* groups accepted and not answered
    result,         \* [Tasks -> Outcomes or None]: of the tasks of pending groups
    at              \* [Tasks -> Workers or None]: where the task is executed

serviceVars == <<pending, result, at>>

ServiceInit ==
    /\ pending = {}
    /\ result = [t \in Tasks |-> None]
    /\ at = [t \in Tasks |-> None]

Submit(g) ==
    /\ g \notin pending
    /\ pending' = pending \cup {g}
    /\ UNCHANGED <<result, at>>

\* The tasks a worker has fit it: its slots, and a real-cpu task alone.
Fits(w, load) ==
    /\ Cardinality(load) <= Concurrency[w]
    /\ \A t \in load : RealCpu[t] => CpuEnabled[w] /\ load = {t}

\* Tasks that are due start.
Assign ==
    /\ at' \in [Tasks -> Workers \cup {None}]
    /\ \A t \in Tasks : at'[t] # at[t] =>
          /\ at[t] = None /\ result[t] = None
          /\ \E g \in pending : t \in Members[g]
    /\ \A w \in Workers : Fits(w, {t \in Tasks : at'[t] = w})
    /\ UNCHANGED <<pending, result>>

\* The worker of a task is lost; the task is due again.
Lose(t) ==
    /\ at[t] # None
    /\ at' = [at EXCEPT ![t] = None]
    /\ UNCHANGED <<pending, result>>

Finish(t, o) ==
    /\ at[t] # None
    /\ at' = [at EXCEPT ![t] = None]
    /\ result' = [result EXCEPT ![t] = o]
    /\ UNCHANGED pending

Answer(g) ==
    /\ g \in pending
    /\ \A t \in Members[g] : result[t] # None
    /\ pending' = pending \ {g}
    /\ result' = [t \in Tasks |-> IF t \in Members[g] THEN None ELSE result[t]]
    /\ UNCHANGED at

ServiceNext ==
    \/ \E g \in Groups : Submit(g) \/ Answer(g)
    \/ Assign
    \/ \E t \in Tasks : Lose(t) \/ \E o \in Outcomes : Finish(t, o)

ServiceSpec == ServiceInit /\ [][ServiceNext]_serviceVars
=============================================================================
