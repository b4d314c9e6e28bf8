------------------------------- MODULE Serving -------------------------------
(***************************************************************************)
(* The whole serving path: training jobs on one side, API replicas on the  *)
(* other, with nothing between them but the registry.                      *)
(***************************************************************************)
EXTENDS TrainPipeline, ArtifactStore

pipelineVars == <<pc, locals, parts, assigned, promotions>>

servingVars == <<trainVars, storeVars>>

ServingInit == TrainInit /\ StoreInit

ServingNext ==
    \/ TrainNext /\ UNCHANGED storeVars
    \/ StoreNext /\ UNCHANGED pipelineVars

ServingSpec == ServingInit /\ [][ServingNext]_servingVars

(***************************************************************************)
(* Fairness.  Jobs and loads run to their end; time passes; requests keep  *)
(* coming to every replica (docker-compose.yml probes /health every 15 s). *)
(* A threading.Lock is not fair between threads: whenever the lock can be  *)
(* taken SOME waiting thread takes it, no particular one must.             *)
(***************************************************************************)
StoreStep(action) == action /\ UNCHANGED pipelineVars

ServingFairness ==
    /\ \A j \in Jobs : WF_servingVars(Step(j) /\ UNCHANGED storeVars)
    /\ \A t \in Threads : WF_servingVars(StoreStep(Load(t)))
    /\ \A r \in Replicas :
         LET mine == {t \in Threads : ReplicaOf[t] = r}
         IN  /\ WF_servingVars(StoreStep(\E t \in mine : Call(t)))
             /\ WF_servingVars(StoreStep(\E t \in mine : Enter(t)))
    /\ WF_servingVars(StoreStep(Tick))

ServingFairSpec == ServingSpec /\ ServingFairness

(***************************************************************************)
(*                               Properties                                *)
(***************************************************************************)
Promoted(j) == \E i \in 1..Len(promotions) : promotions[i] = j

MadeBy(bundle, j) ==
    /\ bundle.id = RunDir(j)
    /\ \A f \in Required : bundle.part[f] = j

\* Whatever a replica caches is one run: its model, encoder, leaderboard, feature
\* importance and metrics were written by one job, and that job was promoted.
\* get() reads the pointer and the five files in six separate steps, with the
\* pipeline writing next to it.
ServedBundleIsOneRun ==
    \A r \in Replicas :
        cached[r] # NoBundle => \E j \in Jobs : Promoted(j) /\ MadeBy(cached[r], j)

\* /api/v1/map serves the heatmap from disk by the run_dir of the cached bundle,
\* without a load: the file is there, is whole, and is of the same run as the
\* leaderboard and the model, long after latest.json has moved on.
MapMatchesServedRun ==
    \A r \in Replicas :
        cached[r] # NoBundle =>
            disk[cached[r].id]["heatmap"] = Done(cached[r].part["metrics"])

\* "A temporarily broken pointer shouldn't take a healthy API down": once a replica
\* has served a run, no get() of that process ends in an error again, whatever
\* happens to latest.json.
NoErrorOnceServed ==
    [][\A t \in Threads :
          Mine(t) # NoBundle /\ reply'[t] # reply[t] => reply'[t] # LoadError]_servingVars

\* A promoted run reaches every replica: when latest.json stays at a run, every
\* replica ends up serving that run.
NewRunEventuallyServed ==
    \A r \in Replicas : \A id \in RunIds :
        <>[](pointer = id) => <>[](cached[r] # NoBundle /\ cached[r].id = id)

\* The encoder is "serialized alongside the model, so inference always uses the
\* exact mapping the model was trained on" (pipeline/forecasting.py).
ModelAndEncoderTogether ==
    \A r \in Replicas :
        cached[r] # NoBundle =>
            cached[r].part["forecast_model"] = cached[r].part["cluster_encoder"]

(***************************************************************************)
(* The refinement: what a replica serves is the position of its cached run *)
(* in the history of promotions; a run that was never published has none,  *)
(* and no step of ServedModel leads to it.                                 *)
(***************************************************************************)
PositionsOf(id) == {i \in 1..Len(promotions) : RunDir(promotions[i]) = id}

Unpublished == -1

Position(bundle) ==
    IF bundle = NoBundle THEN 0
    ELSE IF PositionsOf(bundle.id) = {} THEN Unpublished
    ELSE CHOOSE i \in PositionsOf(bundle.id) : TRUE

PublishedRuns   == [i \in 1..Len(promotions) |-> RunDir(promotions[i])]
ServedPositions == [r \in Replicas |-> Position(cached[r])]

Promises == INSTANCE ServedModel WITH
    Runs      <- RunIds,
    published <- PublishedRuns,
    served    <- ServedPositions

\* The registry and the stores together implement ServedModel: a replica only ever
\* serves published runs and never steps back to an older one.
ServesPublishedRunsInOrder == Promises!Spec

(***************************************************************************)
(* The inductive invariant behind these properties.                        *)
(***************************************************************************)
\* No job is promoted twice, and a pointer that parses names the newest run.
HistoryInv ==
    /\ \A i, k \in 1..Len(promotions) : promotions[i] = promotions[k] => i = k
    /\ PointsAtRun => promotions # << >> /\ pointer = RunDir(Newest)

\* The bundle of the i-th published run.
BundleOf(i) ==
    [id |-> RunDir(promotions[i]), part |-> [f \in Required |-> promotions[i]]]

CacheInv(r) ==
    cached[r] # NoBundle => \E i \in 1..Len(promotions) : cached[r] = BundleOf(i)

\* A load is of one published run, no older than the one its replica serves.
LoadInv(t) ==
    at[t] \in {"check", "load", "install"} =>
        \E i \in 1..Len(promotions) :
            /\ found[t] = RunDir(promotions[i])
            /\ \A n \in 1..Len(loaded[t]) : loaded[t][n] = promotions[i]
            /\ \A k \in 1..Len(promotions) : Mine(t) = BundleOf(k) => k <= i

ServingInv ==
    /\ TrainInv
    /\ StoreTypeOK
    /\ \A t \in Threads : LoadControlInv(t) /\ LoadInv(t)
    /\ \A r \in Replicas : CacheInv(r)
    /\ HistoryInv
=============================================================================
