---------------------------- MODULE MCApiService ----------------------------
(***************************************************************************)
(* One API process for TLC: the loop, a few requests and two runs.         *)
(***************************************************************************)
EXTENDS ApiService, TLC

CONSTANTS j1, j2, r1, lp, q1, q2, c1, c2, ka, kb, kx

Ask(route, key) == [route |-> route, key |-> key, valid |-> TRUE, cluster |-> c1]

MCJobs     == {j1, j2}
MCJobOf    == [n \in RunIds |-> IF n = 1 THEN j1 ELSE j2]
MCKnows    == [n \in RunIds |-> IF n = 1 THEN {c1} ELSE {c2}]
MCReplicas == {r1}
MCKeys     == {ka, kb}

MCThreads   == {lp, q1, q2}
MCReplicaOf == [t \in Threads |-> r1]

\* Reads whose answers differ between the two runs, by two callers with keys; one with a
\* wrong key, one without, and one whose body is invalid.
MCCalls ==
    {Ask("hotspot", ka), Ask("hotspot", kb), Ask("map", kb), Ask("leaderboard", kx),
     Ask("kpis", NoKey), [Ask("predict", ka) EXCEPT !.valid = FALSE]}

MCProbes == {Ask("health", NoKey), Ask("predict", ka), Ask("kpis", kx)}
=============================================================================
