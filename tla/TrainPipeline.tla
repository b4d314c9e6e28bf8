---------------------------- MODULE TrainPipeline ----------------------------
(***************************************************************************)
(* pipeline/train_pipeline.py: the training jobs that fill the registry.   *)
(*                                                                         *)
(* One action per step of run_pipeline at which another job, an API        *)
(* replica or a crash could come between.  A job is an operating-system    *)
(* process; several may run at once, as nothing in the code prevents it.   *)
(* The numeric content of a run is its forecast MAE, in whole units.       *)
(***************************************************************************)
EXTENDS ArtifactRegistry

CONSTANTS
    IdOf,               \* the run_id each job computes: its UTC start second
    NChunks,            \* chunks of the feed that a job's gateway yields
    MaeValues,          \* forecast errors a trained model can have
    NoMae,              \* "no baseline"
    ForcedJobs,         \* jobs started with --force-promote
    BadFeeds,           \* jobs whose feed fails the data quality gate
    RequireGate,        \* settings.require_promotion_gate
    MaxRegressionPct,   \* settings.max_mae_regression_pct
    Serial,             \* the scheduler never overlaps two jobs
    MayCrash            \* jobs that may die between any two steps

ASSUME PipelineAssumption ==
    /\ IdOf \in [Jobs -> RunIds]
    /\ NChunks \in Nat \ {0}
    /\ MaeValues \subseteq Nat
    /\ NoMae \notin MaeValues
    /\ ForcedJobs \subseteq Jobs
    /\ BadFeeds \subseteq Jobs
    /\ RequireGate \in BOOLEAN
    /\ MaxRegressionPct \in Nat
    /\ Serial \in BOOLEAN
    /\ MayCrash \subseteq Jobs

VARIABLES
    pc,          \* where each job stands in run_pipeline
    target,      \* the run that _read_previous_metrics found in the pointer
    baseline,    \* prev_metrics["forecast_mae"], or NoMae
    chunk,       \* chunks written to clean_data so far
    parts,       \* clean_data of every run directory: who wrote each chunk
    assigned,    \* cluster_assignments: the chunks they were computed from
    trained,     \* whose rows the job's features and model are made of
    mae,         \* forecast_artifact.mae
    verdict,     \* what _check_promotion_gate answered
    file,        \* index in WriteOrder of the next file to write
    promotions   \* history: the jobs that updated latest.json, in order

locals    == <<target, baseline, chunk, trained, mae, verdict, file>>
trainVars == <<disk, pointer, pc, locals, parts, assigned, promotions>>

Labels == {"idle", "pointer", "metrics", "ingest", "quality", "cluster",
           "features", "train", "write", "writing", "gate", "cleanup",
           "publish", "publishing", "promoted", "rejected", "failed"}

Ended == {"promoted", "rejected", "failed"}

Active(j) == pc[j] \notin Ended \cup {"idle"}

Goto(j, label) == pc' = [pc EXCEPT ![j] = label]

Move(j, from, to) == pc[j] = from /\ Goto(j, to)

NoParts == [n \in 1..NChunks |-> NoJob]

(***************************************************************************)
(* artifact_root / run_id, created with exist_ok=True.  (SharedRunDir, and *)
(* every other operator named for what it leaves out or gets wrong, is a   *)
(* mutation of the definition that follows it: no action uses it.)         *)
(***************************************************************************)
SharedRunDir(j) == IdOf[CHOOSE k \in Jobs : TRUE]

RunDir(j) == IdOf[j]

TrainInit ==
    /\ RegistryInit
    /\ pc         = [j \in Jobs |-> "idle"]
    /\ target     = [j \in Jobs |-> NoPointer]
    /\ baseline   = [j \in Jobs |-> NoMae]
    /\ chunk      = [j \in Jobs |-> 0]
    /\ parts      = [id \in RunIds |-> NoParts]
    /\ assigned   = [id \in RunIds |-> NoParts]
    /\ trained    = [j \in Jobs |-> NoParts]
    /\ mae        = [j \in Jobs |-> NoMae]
    /\ verdict    = [j \in Jobs |-> "none"]
    /\ file       = [j \in Jobs |-> 1]
    /\ promotions = << >>

(***************************************************************************)
(* The job starts: it names its run directory and makes it.                *)
(***************************************************************************)
Start(j) ==
    /\ Serial => \A k \in Jobs : ~Active(k)
    /\ Move(j, "idle", "pointer")
    /\ UNCHANGED <<disk, pointer, locals, parts, assigned, promotions>>

(***************************************************************************)
(* _read_previous_metrics, first half: no pointer, or one that does not    *)
(* parse, means "no baseline".                                             *)
(***************************************************************************)
ReadPointerOrFail(j) ==
    /\ IF PointsAtRun
         THEN /\ Move(j, "pointer", "metrics")
              /\ target' = [target EXCEPT ![j] = pointer]
         ELSE /\ Move(j, "pointer", IF pointer = TornPointer THEN "failed" ELSE "ingest")
              /\ UNCHANGED target
    /\ UNCHANGED <<disk, pointer, baseline, chunk, trained, mae, verdict, file,
                   parts, assigned, promotions>>

ReadPointer(j) ==
    /\ IF PointsAtRun
         THEN /\ Move(j, "pointer", "metrics")
              /\ target' = [target EXCEPT ![j] = pointer]
         ELSE /\ Move(j, "pointer", "ingest")
              /\ UNCHANGED target
    /\ UNCHANGED <<disk, pointer, baseline, chunk, trained, mae, verdict, file,
                   parts, assigned, promotions>>

(***************************************************************************)
(* _read_previous_metrics, second half: the metrics of that run, if they   *)
(* are there and parse.                                                    *)
(***************************************************************************)
ReadPrevMetrics(j) ==
    /\ Move(j, "metrics", "ingest")
    /\ LET metrics == disk[target[j]]["metrics"]
       IN  baseline' = [baseline EXCEPT ![j] =
                          IF Readable(metrics) THEN mae[metrics.by] ELSE NoMae]
    /\ UNCHANGED <<disk, pointer, target, chunk, trained, mae, verdict, file,
                   parts, assigned, promotions>>

(***************************************************************************)
(* One clean chunk goes to its part files, named by a counter that starts  *)
(* at 0 in every job.                                                      *)
(***************************************************************************)
WriteChunk(j) ==
    /\ pc[j] = "ingest"
    /\ Goto(j, IF chunk[j] + 1 = NChunks THEN "quality" ELSE "ingest")
    /\ chunk' = [chunk EXCEPT ![j] = @ + 1]
    /\ parts' = [parts EXCEPT ![RunDir(j)][chunk[j] + 1] = j]
    /\ UNCHANGED <<disk, pointer, target, baseline, trained, mae, verdict, file,
                   assigned, promotions>>

(***************************************************************************)
(* The quality gate, after the whole feed is on disk.                      *)
(***************************************************************************)
QualityGateWithoutRaise(j) ==
    /\ Move(j, "quality", "cluster")
    /\ UNCHANGED <<disk, pointer, locals, parts, assigned, promotions>>

QualityGate(j) ==
    /\ Move(j, "quality", IF j \in BadFeeds THEN "failed" ELSE "cluster")
    /\ UNCHANGED <<disk, pointer, locals, parts, assigned, promotions>>

(***************************************************************************)
(* run_partitioned_clustering reads every part and writes assignments; it  *)
(* raises when there is no partition to read.                              *)
(***************************************************************************)
Cluster(j) ==
    LET id == RunDir(j)
    IN  /\ IF parts[id] = NoParts
             THEN /\ Move(j, "cluster", "failed")
                  /\ UNCHANGED assigned
             ELSE /\ Move(j, "cluster", "features")
                  /\ assigned' = [assigned EXCEPT ![id] = parts[id]]
        /\ UNCHANGED <<disk, pointer, locals, parts, promotions>>

(***************************************************************************)
(* The partitions are read again and joined with the assignments: rows     *)
(* without one become noise, which no feature or model is made of.         *)
(***************************************************************************)
Features(j) ==
    LET id == RunDir(j)
    IN  /\ Move(j, "features", "train")
        /\ trained' = [trained EXCEPT ![j] =
                         [n \in 1..NChunks |-> IF assigned[id][n] = parts[id][n]
                                               THEN parts[id][n] ELSE NoJob]]
        /\ UNCHANGED <<disk, pointer, target, baseline, chunk, mae, verdict,
                       file, parts, assigned, promotions>>

(***************************************************************************)
(* train_forecast_model: some MAE, or ValueError when there is no history. *)
(***************************************************************************)
Train(j) ==
    /\ IF trained[j] = NoParts
         THEN /\ Move(j, "train", "failed")
              /\ UNCHANGED mae
         ELSE /\ Move(j, "train", "write")
              /\ \E m \in MaeValues : mae' = [mae EXCEPT ![j] = m]
    /\ UNCHANGED <<disk, pointer, target, baseline, chunk, trained, verdict,
                   file, parts, assigned, promotions>>

(***************************************************************************)
(* Every artifact is opened (created or truncated) and then written.  The  *)
(* heatmap comes first, then the gate, then the six others.                *)
(***************************************************************************)
OpenFile(j) ==
    /\ Move(j, "write", "writing")
    /\ disk' = [disk EXCEPT ![RunDir(j)][WriteOrder[file[j]]] = Open(j)]
    /\ UNCHANGED <<pointer, locals, parts, assigned, promotions>>

AfterFileWithoutMetrics(n) ==
    IF n = 1 THEN "gate" ELSE IF n = NFiles - 1 THEN "cleanup" ELSE "write"

AfterFile(n) ==
    IF n = 1 THEN "gate" ELSE IF n = NFiles THEN "cleanup" ELSE "write"

CloseFile(j) ==
    LET id == RunDir(j)
        f  == WriteOrder[file[j]]
    IN  /\ Move(j, "writing", AfterFile(file[j]))
        /\ \E content \in Flushed(disk[id][f], j) :
             disk' = [disk EXCEPT ![id][f] = content]
        /\ file' = [file EXCEPT ![j] = @ + 1]
        /\ UNCHANGED <<pointer, target, baseline, chunk, trained, mae, verdict,
                       parts, assigned, promotions>>

(***************************************************************************)
(* _check_promotion_gate.  The ceiling is prev * (1 + pct/100), written    *)
(* here without the division; the percentage in the reason divides by the  *)
(* baseline, so a zero baseline that is met raises.                        *)
(***************************************************************************)
WithinTolerance(new, prev) == 100 * new <= prev * (100 + MaxRegressionPct)

GateBypassed(j) == j \in ForcedJobs \/ ~RequireGate \/ baseline[j] = NoMae

GateAlwaysPromotes(j) == "promote"

GateVerdict(j) ==
    IF GateBypassed(j) THEN "promote"
    ELSE IF ~WithinTolerance(mae[j], baseline[j]) THEN "reject"
    ELSE IF baseline[j] = 0 THEN "error"
    ELSE "promote"

Gate(j) ==
    /\ Move(j, "gate", IF GateVerdict(j) = "error" THEN "failed" ELSE "write")
    /\ verdict' = [verdict EXCEPT ![j] = GateVerdict(j)]
    /\ UNCHANGED <<disk, pointer, target, baseline, chunk, trained, mae, file,
                   parts, assigned, promotions>>

(***************************************************************************)
(* Both intermediate trees are removed; the verdict then picks the branch. *)
(***************************************************************************)
CleanupPrunesOldRuns(j) ==
    /\ Move(j, "cleanup", IF verdict[j] = "promote" THEN "publish" ELSE "rejected")
    /\ disk' = [id \in RunIds |-> IF id = RunDir(j) THEN disk[id] ELSE EmptyRunDir]
    /\ UNCHANGED <<pointer, locals, parts, assigned, promotions>>

Cleanup(j) ==
    /\ Move(j, "cleanup", IF verdict[j] = "promote" THEN "publish" ELSE "rejected")
    /\ parts'    = [parts    EXCEPT ![RunDir(j)] = NoParts]
    /\ assigned' = [assigned EXCEPT ![RunDir(j)] = NoParts]
    /\ UNCHANGED <<disk, pointer, locals, promotions>>

(***************************************************************************)
(* latest.json is written in place: truncated, then filled.                *)
(***************************************************************************)
OpenPointer(j) ==
    /\ Move(j, "publish", "publishing")
    /\ pointer' = TornPointer
    /\ UNCHANGED <<disk, locals, parts, assigned, promotions>>

WritePointer(j) ==
    /\ Move(j, "publishing", "promoted")
    /\ pointer' = RunDir(j)
    /\ promotions' = Append(promotions, j)
    /\ UNCHANGED <<disk, locals, parts, assigned>>

(***************************************************************************)
(* An exception or a kill between any two steps: what is on disk stays.    *)
(***************************************************************************)
Crash(j) ==
    /\ j \in MayCrash /\ Active(j)
    /\ Goto(j, "failed")
    /\ UNCHANGED <<disk, pointer, locals, parts, assigned, promotions>>

Step(j) ==
    \/ ReadPointer(j) \/ ReadPrevMetrics(j)
    \/ WriteChunk(j)  \/ QualityGate(j)
    \/ Cluster(j)     \/ Features(j)
    \/ Train(j)       \/ Gate(j)
    \/ OpenFile(j)    \/ CloseFile(j)
    \/ Cleanup(j)     \/ OpenPointer(j) \/ WritePointer(j)

TrainNext == \E j \in Jobs : Start(j) \/ Step(j) \/ Crash(j)

TrainSpec == TrainInit /\ [][TrainNext]_trainVars

(***************************************************************************)
(*                               Properties                                *)
(***************************************************************************)
\* Type invariant: every variable of run_pipeline's model has its type.
TrainTypeOK ==
    /\ RegistryTypeOK
    /\ pc \in [Jobs -> Labels]
    /\ target \in [Jobs -> RunIds \cup {NoPointer}]
    /\ baseline \in [Jobs -> MaeValues \cup {NoMae}]
    /\ chunk \in [Jobs -> 0..NChunks]
    /\ parts \in [RunIds -> [1..NChunks -> Jobs \cup {NoJob}]]
    /\ assigned \in [RunIds -> [1..NChunks -> Jobs \cup {NoJob}]]
    /\ trained \in [Jobs -> [1..NChunks -> Jobs \cup {NoJob}]]
    /\ mae \in [Jobs -> MaeValues \cup {NoMae}]
    /\ verdict \in [Jobs -> {"none", "promote", "reject", "error"}]
    /\ file \in [Jobs -> 1..(NFiles + 1)]
    /\ promotions \in Seq(Jobs)

Complete(id, j) == \A f \in Files : disk[id][f] = Done(j)

\* The run that latest.json names is whole: one job wrote every one of its
\* files to the end.  This is what lets ArtifactStore trust a pointer it can
\* parse, however the jobs interleave and wherever they crash.
PromotedRunComplete ==
    PointsAtRun => \E j \in Jobs : /\ RunDir(j) = pointer
                                   /\ pc[j] = "promoted"
                                   /\ Complete(pointer, j)

\* A published run is immutable: no later step of any job touches a file of a
\* run directory that latest.json has ever named.
PromotedRunImmutable ==
    [][\A i \in 1..Len(promotions) :
          LET id == RunDir(promotions[i]) IN disk'[id] = disk[id]]_trainVars

\* A run that was ever promoted passed the quality gate on its own feed, and its
\* features and model are made of every chunk of that feed and of no other job's
\* rows, although part files and assignments go through the file system.
PromotedRunTrainedOnOwnFeed ==
    \A i \in 1..Len(promotions) :
        LET j == promotions[i]
        IN  j \notin BadFeeds /\ trained[j] = [n \in 1..NChunks |-> j]

\* The promotion gate as config/settings.py states it: unless forced, a run is
\* promoted only if its MAE is within tolerance of the run it replaces.
NeverPromotesRegression ==
    RequireGate =>
        \A i \in 2..Len(promotions) :
            \/ promotions[i] \in ForcedJobs
            \/ WithinTolerance(mae[promotions[i]], mae[promotions[i - 1]])

\* "The run artifacts are always written to disk - only the latest.json pointer
\* update is blocked" (config/settings.py): a job that reached the promotion gate
\* does not end without its artifacts.
GatedRunKeepsArtifacts ==
    \A j \in Jobs :
        verdict[j] # "none" /\ pc[j] \in Ended => Complete(RunDir(j), j)

\* Whichever jobs overlap and whichever are killed, an unforced run whose job found
\* latest.json pointing at a run when it started is within tolerance of that run: what
\* switches the gate off is a missing or a torn pointer, never a run half written.
ClearedWhatItRead ==
    RequireGate =>
        \A j \in Jobs \ ForcedJobs :
            pc[j] = "promoted" /\ target[j] # NoPointer =>
                \E k \in Jobs : /\ pc[k] = "promoted" /\ RunDir(k) = target[j]
                               /\ WithinTolerance(mae[j], mae[k])

\* A job killed while it wrote latest.json leaves it torn for good, and a job that finds
\* it so is neither stopped by it nor by its gate: unless the data quality gate fails
\* its feed or it is killed too, the pointer is filled in.
TornPointerIsReplaced ==
    \A j \in Jobs \ (BadFeeds \cup MayCrash) :
        pointer = TornPointer /\ pc[j] = "pointer" ~> PointsAtRun

(***************************************************************************)
(* The inductive invariant behind PromotedRunComplete, PromotedRunIm-      *)
(* mutable and PromotedRunTrainedOnOwnFeed: runs have names of their own.  *)
(***************************************************************************)
DistinctRunIds == \A j, k \in Jobs : IdOf[j] = IdOf[k] => j = k

BeforeFeed  == {"idle", "pointer", "metrics", "ingest"}
BeforeFiles == BeforeFeed \cup {"quality", "cluster", "features", "train"}
AfterFiles  == {"cleanup", "publish", "publishing", "promoted", "rejected"}
Modelled    == {"train", "write", "writing", "gate"} \cup AfterFiles

\* How far a job is, told by its counters.
ControlInv(j) ==
    /\ pc[j] = "metrics" => target[j] \in RunIds
    /\ pc[j] \in BeforeFeed => chunk[j] < NChunks
    /\ pc[j] \in {"quality", "cluster", "features"} => chunk[j] = NChunks
    /\ pc[j] \in BeforeFiles => file[j] = 1
    /\ pc[j] \in {"write", "writing"} => file[j] <= NFiles
    /\ pc[j] = "gate" => file[j] = 2
    /\ pc[j] \in AfterFiles => file[j] = NFiles + 1

\* The files behind the counter are whole and the job's own.
FilesInv(j) ==
    /\ \A k \in 1..NFiles :
          k < file[j] => disk[RunDir(j)][WriteOrder[k]] = Done(j)
    /\ pc[j] = "writing" => disk[RunDir(j)][WriteOrder[file[j]]] = Open(j)

\* So are the chunks, up to the model.
FeedInv(j) ==
    /\ pc[j] \in BeforeFiles \ {"train"} =>
          \A n \in 1..NChunks : n <= chunk[j] => parts[RunDir(j)][n] = j
    /\ pc[j] = "features" => assigned[RunDir(j)] = parts[RunDir(j)]
    /\ pc[j] \in Modelled => trained[j] = [n \in 1..NChunks |-> j]
    /\ pc[j] \in {"cluster", "features"} \cup Modelled => j \notin BadFeeds

\* The pointer and the history only name jobs that ended promoted.
PointerInv ==
    /\ \A i \in 1..Len(promotions) : pc[promotions[i]] = "promoted"
    /\ PointsAtRun => \E j \in Jobs : RunDir(j) = pointer /\ pc[j] = "promoted"

TrainInv ==
    /\ TrainTypeOK
    /\ \A j \in Jobs : ControlInv(j) /\ FilesInv(j) /\ FeedInv(j)
    /\ PointerInv

(***************************************************************************)
(* The inductive invariant behind ClearedWhatItRead: a job that found a    *)
(* published run holds its error until the gate.                           *)
(***************************************************************************)
Cleared(j) == GateBypassed(j) \/ WithinTolerance(mae[j], baseline[j])

Replaces(j, k) ==
    /\ pc[k] = "promoted" /\ RunDir(k) = target[j]
    /\ pc[j] \notin {"metrics", "failed"} => baseline[j] = mae[k]

BaselineInv(j) ==
    /\ pc[j] \in {"idle", "pointer"} => target[j] = NoPointer
    /\ target[j] # NoPointer => \E k \in Jobs : Replaces(j, k)
    /\ pc[j] \in Modelled \ {"train"} => mae[j] \in MaeValues
    /\ verdict[j] = "promote" => pc[j] \notin BeforeFiles /\ Cleared(j)
    /\ pc[j] \in {"publish", "publishing", "promoted"} => verdict[j] = "promote"

BaselinesInv == \A j \in Jobs : BaselineInv(j)

(***************************************************************************)
(* The inductive invariant behind NeverPromotesRegression, which holds of  *)
(* jobs that neither overlap nor crash: the baseline a job has read is the *)
(* error of the run it is about to replace.                                *)
(***************************************************************************)
Newest == promotions[Len(promotions)]

GateInv(j) ==
    /\ pc[j] \in {"idle", "pointer", "metrics"} => baseline[j] = NoMae
    /\ pc[j] = "metrics" => promotions # << >> /\ target[j] = RunDir(Newest)
    /\ Active(j) /\ pc[j] \notin {"pointer", "metrics"} =>
          baseline[j] = IF promotions = << >> THEN NoMae ELSE mae[Newest]
    /\ pc[j] \in Modelled \ {"train"} => mae[j] \in MaeValues
    /\ verdict[j] = "promote" => pc[j] \notin BeforeFiles /\ Cleared(j)
    /\ pc[j] \in {"publish", "publishing"} => verdict[j] = "promote"

SerialInv ==
    /\ \A j, k \in Jobs : Active(j) /\ Active(k) => j = k
    /\ \A j \in Jobs : GateInv(j)
    /\ (\A j \in Jobs : pc[j] # "publishing") =>
          pointer = IF promotions = << >> THEN NoPointer ELSE RunDir(Newest)
    /\ NeverPromotesRegression
=============================================================================
