-------------------------- MODULE ArtifactRegistry --------------------------
(***************************************************************************)
(* The model registry: the directory artifacts/ that the training pipeline *)
(* writes and the API replicas read.  It is the only thing the two halves  *)
(* of the system share (docker-compose.yml mounts it read-write in one and *)
(* read-only in the other), so it is all they can disagree about.          *)
(*                                                                         *)
(*   disk     for every run directory, what each of its files holds        *)
(*   pointer  what artifacts/latest.json holds                             *)
(*                                                                         *)
(* A file's bytes are abstracted to WHICH job wrote them and whether that  *)
(* writer is finished; the pointer's to the run directory it names.        *)
(***************************************************************************)
EXTENDS Integers, Sequences

CONSTANTS
    Jobs,          \* executions of run_pipeline, each at most once
    RunIds,        \* run directory names, run_<UTC second>
    NoJob,         \* "nobody": the writer of a file that does not exist
    NoPointer,     \* latest.json does not exist
    TornPointer    \* latest.json is truncated and not yet written

ASSUME RegistryAssumption ==
    /\ NoJob \notin Jobs
    /\ NoPointer \notin RunIds
    /\ TornPointer \notin RunIds
    /\ NoPointer # TornPointer

VARIABLES disk, pointer

(***************************************************************************)
(* The files of a run, in the order run_pipeline writes them.              *)
(***************************************************************************)
WriteOrder == <<"heatmap", "forecast_model", "cluster_encoder", "leaderboard",
                "leaderboard_csv", "feature_importance", "metrics">>

NFiles == 7

Files == {WriteOrder[k] : k \in 1..NFiles}

(***************************************************************************)
(* The files ArtifactStore requires, in the order it loads them.  The      *)
(* heatmap is served from disk at request time and leaderboard.csv is for  *)
(* people: neither is loaded.                                              *)
(***************************************************************************)
LoadOrder == <<"forecast_model", "cluster_encoder", "leaderboard",
               "feature_importance", "metrics">>

NRequired == 5

Required == {LoadOrder[k] : k \in 1..NRequired}

(***************************************************************************)
(* What a file holds.  Two jobs that write the same path at once leave it  *)
(* garbled, or with the bytes of whichever flushed last.                   *)
(***************************************************************************)
Absent     == [state |-> "absent",  by |-> NoJob]
Open(j)    == [state |-> "open",    by |-> j]
Done(j)    == [state |-> "done",    by |-> j]
Garbled(j) == [state |-> "garbled", by |-> j]

Contents == {Absent} \cup [state : {"open", "done", "garbled"}, by : Jobs]

Readable(content) == content.state = "done"

Flushed(content, j) == IF content = Open(j) THEN {Done(j)} ELSE {Done(j), Garbled(j)}

EmptyRunDir == [f \in Files |-> Absent]

(***************************************************************************)
(* path.exists(): a file exists from the moment a writer opens it.         *)
(***************************************************************************)
Exists(id, f) == disk[id][f] # Absent

PointsAtRun == pointer \in RunIds

RegistryTypeOK ==
    /\ disk \in [RunIds -> [Files -> Contents]]
    /\ pointer \in RunIds \cup {NoPointer, TornPointer}

RegistryInit ==
    /\ disk = [id \in RunIds |-> EmptyRunDir]
    /\ pointer = NoPointer
=============================================================================
