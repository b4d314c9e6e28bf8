------------------------------ MODULE MCServing ------------------------------
(***************************************************************************)
(* Instances of Serving for TLC: two jobs and one replica with one or two  *)
(* request threads.                                                        *)
(***************************************************************************)
EXTENDS Serving, TLC

CONSTANTS j1, j2, j3, t1, t2, r1

MCTwoJobs   == {j1, j2}
MCThreeJobs == {j1, j2, j3}

MCTwoIds   == j1 :> 1 @@ j2 :> 2
MCThreeIds == j1 :> 1 @@ j2 :> 2 @@ j3 :> 3

\* j1 and j2 start within the same second.
MCCollidingIds == j1 :> 1 @@ j2 :> 1

MCNobody == {}
MCForced == {j1}
MCKilled == {j2}
MCBad    == {j3}

MCOneThread   == {t1}
MCItsReplica  == t1 :> r1

MCThreads     == {t1, t2}
MCOneReplica  == {r1}
MCSameReplica == t1 :> r1 @@ t2 :> r1

\* 10 -> 11 is exactly at the ceiling of a 10% tolerance, 10 -> 12 is above it.
\* Two or one are enough where the gate's arithmetic is not the question.
MCMaes    == {10, 11, 12}
MCTwoMaes == {10, 12}
MCOneMae  == {10}
=============================================================================
