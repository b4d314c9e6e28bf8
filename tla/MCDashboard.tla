---------------------------- MODULE MCDashboard ----------------------------
(***************************************************************************)
(* Two sessions for TLC, one or two replicas of the API, and two runs that *)
(* give one cluster id to two places.  The page treats its three cached    *)
(* paths alike: one is enough where sessions race for an entry, all are    *)
(* there where one page is read.                                           *)
(***************************************************************************)
EXTENDS Dashboard, TLC

CONSTANTS s1, s2, api1, api2, id1, id2, junctionA, junctionB

MCSessions    == {s1, s2}
MCOneSession  == {s1}
MCLoads       == s1 :> 2 @@ s2 :> 1
MCTwoLoads    == s1 :> 2
MCOneReplica  == {{api1}}
MCReplicas    == {{api1}, {api1, api2}}
MCFaults      == {api1} :> {"refusing", "failing"} @@ {api1, api2} :> {}
MCNoFaults    == {api1} :> {}
MCFetched     == <<"leaderboard">>
MCPaths       == <<"kpis", "leaderboard", "importance">>
MCPlace       == <<(id1 :> junctionA @@ id2 :> junctionB), id1 :> junctionB>>
MCRenamed     == <<id1 :> junctionA, id2 :> junctionA>>
=============================================================================
