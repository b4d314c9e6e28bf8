--------------------------- MODULE MCTrainPipeline ---------------------------
(***************************************************************************)
(* Two jobs for TLC.  Run ids are numbers, the seconds when jobs start.     *)
(***************************************************************************)
EXTENDS TrainPipeline, TLC

CONSTANTS j1, j2

MCTwoJobs == {j1, j2}
MCTwoIds  == j1 :> 1 @@ j2 :> 2
MCNobody  == {}

\* 10 -> 11 is exactly at the ceiling of a 10% tolerance, 10 -> 12 is above it,
\* and 0 is a perfect model.
MCMaes     == {0, 10, 11, 12}
MCMaesSome == {10, 11, 12}
=============================================================================
