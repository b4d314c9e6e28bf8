---------------------------- MODULE ServingProofs ----------------------------
(***************************************************************************)
(* What the serving path guarantees, for any number of jobs, replicas and  *)
(* request threads, with jobs that overlap and crash and replicas that are *)
(* restarted at any time.  Types and the absence of errors hold as they    *)
(* stand; what is said of runs needs jobs with distinct run ids.           *)
(***************************************************************************)
EXTENDS Serving, TrainPipelineProofs, ArtifactStoreProofs

(***************************************************************************)
(* The two halves of the system: a store only reads the registry, and a    *)
(* job does not know of stores.                                            *)
(***************************************************************************)
LEMMA TrainHalf == [ServingNext]_servingVars => [TrainNext]_trainVars
<1> SUFFICES ASSUME [ServingNext]_servingVars PROVE [TrainNext]_trainVars
  OBVIOUS
<1>1. CASE TrainNext
  BY <1>1
<1>2. CASE StoreNext /\ UNCHANGED pipelineVars
  BY <1>2, StoreOnlyReads DEF registryVars, pipelineVars, trainVars
<1>3. CASE UNCHANGED servingVars
  BY <1>3 DEF servingVars
<1>4. QED
  BY <1>1, <1>2, <1>3 DEF ServingNext

(***************************************************************************)
(* Types of both halves.                                                   *)
(***************************************************************************)
LEMMA AllTypesInit == ServingInit => TypeInv /\ StoreTypeInv
BY TypeInit, StoreTypeInit DEF ServingInit

LEMMA AllTypesStep ==
    TypeInv /\ StoreTypeInv /\ [ServingNext]_servingVars => TypeInv' /\ StoreTypeInv'
<1> SUFFICES ASSUME TypeInv, StoreTypeInv, [ServingNext]_servingVars
             PROVE  TypeInv' /\ StoreTypeInv'
  OBVIOUS
<1>1. TypeInv'
  BY TrainHalf, TypeStep
<1>2. CASE StoreNext
  BY <1>1, <1>2, StoreTypeStep DEF TypeInv, TrainTypeOK
<1>3. CASE UNCHANGED storeVars
  BY <1>1, <1>3 DEF storeVars, StoreTypeInv, StoreTypeOK, LoadControlInv
<1>4. QED
  BY <1>1, <1>2, <1>3 DEF ServingNext, servingVars

\* The store's type invariant holds of every behaviour: a thread loads only while
\* it holds its replica's lock, and what it caches or returns is a bundle.
THEOREM StoreTypeCorrect == ServingSpec => []StoreTypeOK
<1>1. TypeInv /\ StoreTypeInv => StoreTypeOK
  BY DEF StoreTypeInv
<1>2. QED
  BY AllTypesInit, AllTypesStep, <1>1, PTL DEF ServingSpec

\* "A temporarily broken pointer shouldn't take a healthy API down": whatever jobs do
\* to the registry, a replica that has a bundle answers no get() with an error.
THEOREM HealthyReplicasStayHealthy == ServingSpec => NoErrorOnceServed
<1>1. TypeInv /\ StoreTypeInv /\ [ServingNext]_servingVars =>
        [\A t \in Threads :
            Mine(t) # NoBundle /\ reply'[t] # reply[t] => reply'[t] # LoadError]_servingVars
  <2> SUFFICES ASSUME StoreTypeInv, ServingNext, NEW t \in Threads,
                      Mine(t) # NoBundle, reply'[t] # reply[t]
               PROVE  reply'[t] # LoadError
    OBVIOUS
  <2>1. StoreNext
    BY DEF ServingNext, storeVars
  <2>2. QED
    BY <2>1, ReplyIsNoError
<1>2. QED
  BY AllTypesInit, AllTypesStep, <1>1, PTL DEF ServingSpec, NoErrorOnceServed

(***************************************************************************)
(* What the history of promotions says of the registry, when jobs have     *)
(* distinct run ids: every published run is whole, and stays whole.        *)
(***************************************************************************)
LEMMA PublishedRunIsWhole ==
    ASSUME TrainInv, NEW i \in 1..Len(promotions)
    PROVE  /\ promotions[i] \in Jobs /\ pc[promotions[i]] = "promoted"
           /\ RunDir(promotions[i]) \in RunIds
           /\ \A f \in Files : disk[RunDir(promotions[i])][f] = Done(promotions[i])
<1>1. promotions[i] \in Jobs /\ pc[promotions[i]] = "promoted"
  BY DEF TrainInv, TrainTypeOK, PointerInv
<1>2. file[promotions[i]] = NFiles + 1
  BY <1>1 DEF TrainInv, ControlInv, AfterFiles
<1>3. ASSUME NEW f \in Files PROVE disk[RunDir(promotions[i])][f] = Done(promotions[i])
  <2>1. PICK k \in 1..NFiles : f = WriteOrder[k]
    BY DEF Files
  <2>2. k < file[promotions[i]]
    BY <1>2 DEF NFiles
  <2>3. QED
    BY <1>1, <2>1, <2>2 DEF TrainInv, FilesInv
<1>4. QED
  BY <1>1, <1>3, RunDirType

LEMMA SameRunSamePlace ==
    ASSUME TrainInv, HistoryInv, DistinctRunIds, NEW i \in 1..Len(promotions),
           NEW k \in 1..Len(promotions), RunDir(promotions[i]) = RunDir(promotions[k])
    PROVE  i = k
<1>1. promotions[i] \in Jobs /\ promotions[k] \in Jobs
  BY PublishedRunIsWhole
<1>2. QED
  BY <1>1 DEF DistinctRunIds, RunDir, HistoryInv

LEMMA HistoryStep ==
    ASSUME TrainInv, HistoryInv, [TrainNext]_trainVars
    PROVE  /\ HistoryInv'
           /\ \/ promotions' = promotions
              \/ \E j \in Jobs : /\ promotions' = Append(promotions, j)
                                 /\ \A i \in 1..Len(promotions) : promotions[i] # j
<1> USE RegistryAssumption
<1> promotions \in Seq(Jobs)
  BY DEF TrainInv, TrainTypeOK
<1>1. ASSUME NEW j \in Jobs, WritePointer(j)
      PROVE  /\ HistoryInv' /\ promotions' = Append(promotions, j)
             /\ \A i \in 1..Len(promotions) : promotions[i] # j
  <2>1. /\ promotions' = Append(promotions, j) /\ pointer' = RunDir(j)
        /\ pc[j] = "publishing"
    BY <1>1 DEF WritePointer, Move
  <2>2. ASSUME NEW i \in 1..Len(promotions) PROVE promotions[i] # j
    BY <2>1, PublishedRunIsWhole
  <2>3. /\ Len(promotions') = Len(promotions) + 1 /\ promotions'[Len(promotions')] = j
        /\ \A i \in 1..Len(promotions) : promotions'[i] = promotions[i]
    BY <2>1, AppendProperties
  <2>4. \A i, k \in 1..Len(promotions') : promotions'[i] = promotions'[k] => i = k
    BY <2>2, <2>3, LenProperties DEF HistoryInv
  <2>5. promotions' # << >> /\ pointer' = RunDir(Newest)'
    BY <2>1, <2>3 DEF Newest, RunDir
  <2>6. QED
    BY <2>1, <2>2, <2>4, <2>5 DEF HistoryInv
<1>2. ASSUME NEW j \in Jobs, Start(j) \/ Crash(j) \/ (Step(j) /\ ~WritePointer(j))
      PROVE  promotions' = promotions /\ (pointer' = pointer \/ pointer' = TornPointer)
  BY <1>2 DEF Start, Crash, Step, ReadPointer, ReadPrevMetrics, WriteChunk, QualityGate, Cluster,
     Features, Train, OpenFile, CloseFile, Gate, Cleanup, OpenPointer
<1>3. CASE promotions' = promotions /\ (pointer' = pointer \/ pointer' = TornPointer)
  BY <1>3 DEF HistoryInv, PointsAtRun, Newest, RunDir
<1>4. CASE UNCHANGED trainVars
  BY <1>3, <1>4 DEF trainVars
<1>5. QED
  BY <1>1, <1>2, <1>3, <1>4 DEF TrainNext, Step

LEMMA HistoryOnlyGrows ==
    ASSUME TrainInv, HistoryInv, [TrainNext]_trainVars
    PROVE  /\ Len(promotions) \in Nat /\ Len(promotions') \in Nat
           /\ Len(promotions) <= Len(promotions')
           /\ \A i \in 1..Len(promotions) : promotions'[i] = promotions[i]
<1> promotions \in Seq(Jobs)
  BY DEF TrainInv, TrainTypeOK
<1>1. CASE promotions' = promotions
  BY <1>1, LenProperties
<1>2. ASSUME NEW j \in Jobs, promotions' = Append(promotions, j)
      PROVE  /\ Len(promotions) \in Nat /\ Len(promotions') = Len(promotions) + 1
             /\ \A i \in 1..Len(promotions) : promotions'[i] = promotions[i]
  BY <1>2, AppendProperties, LenProperties
<1>3. QED
  BY <1>1, <1>2, HistoryStep

(***************************************************************************)
(* Caches and loads stay of published runs: while jobs work, and while     *)
(* threads do.                                                             *)
(***************************************************************************)
LEMMA ReadsSurviveTraining ==
    ASSUME ServingInv, DistinctRunIds, [TrainNext]_trainVars, UNCHANGED storeVars
    PROVE  /\ \A r \in Replicas : CacheInv(r)'
           /\ \A t \in Threads : LoadInv(t)'
<1>0. TrainInv /\ HistoryInv
  BY DEF ServingInv
<1>1. /\ Len(promotions) \in Nat /\ Len(promotions') \in Nat
      /\ Len(promotions) <= Len(promotions')
      /\ \A i \in 1..Len(promotions) : promotions'[i] = promotions[i]
  BY <1>0, HistoryOnlyGrows
<1>2. ASSUME NEW i \in 1..Len(promotions)
      PROVE  i \in 1..Len(promotions') /\ BundleOf(i)' = BundleOf(i)
  BY <1>1 DEF BundleOf, RunDir
<1>3. TrainInv' /\ HistoryInv'
  BY <1>0, InvStep, HistoryStep
<1>4. ASSUME NEW r \in Replicas PROVE CacheInv(r)'
  BY <1>2 DEF ServingInv, CacheInv, storeVars
<1>5. ASSUME NEW t \in Threads PROVE LoadInv(t)'
  <2> SUFFICES ASSUME at[t] \in {"check", "load", "install"}
               PROVE  LoadInv(t)'
    BY DEF LoadInv, storeVars
  <2>1. PICK i \in 1..Len(promotions) :
              /\ found[t] = RunDir(promotions[i])
              /\ \A n \in 1..Len(loaded[t]) : loaded[t][n] = promotions[i]
              /\ \A k \in 1..Len(promotions) : Mine(t) = BundleOf(k) => k <= i
    BY DEF ServingInv, LoadInv
  <2>2. ASSUME NEW k \in 1..Len(promotions'), Mine(t)' = BundleOf(k)' PROVE k <= i
    <3>1. Mine(t)' = Mine(t)
      BY DEF Mine, storeVars
    <3>2. promotions'[k] \in Jobs
      BY <1>3 DEF TrainInv, TrainTypeOK
    <3>3. BundleOf(k)' \in Bundles
      BY <3>2, RunDirType DEF BundleOf, Bundles, RunDir
    <3>4. PICK m \in 1..Len(promotions) : Mine(t) = BundleOf(m)
      BY <2>2, <3>1, <3>3, StoreAssumption DEF ServingInv, CacheInv, Mine
    <3>5. /\ RunDir(promotions'[k]) = RunDir(promotions'[m])
          /\ m \in 1..Len(promotions') /\ promotions'[m] \in Jobs
      <4>1. m \in 1..Len(promotions') /\ promotions'[m] = promotions[m]
        BY <1>1, <1>2, <1>3, <3>4
      <4>2. promotions'[m] \in Jobs
        BY <1>3, <4>1 DEF TrainInv, TrainTypeOK
      <4>3. BundleOf(k)'.id = BundleOf(m).id
        BY <2>2, <3>1, <3>4
      <4>4. QED
        BY <4>1, <4>2, <4>3 DEF BundleOf, RunDir
    <3>6. k = m
      BY <1>3, <3>2, <3>5 DEF DistinctRunIds, RunDir, HistoryInv
    <3>7. QED
      BY <2>1, <3>4, <3>6
  <2>3. QED
    BY <1>1, <2>1, <2>2 DEF LoadInv, storeVars, RunDir
<1>6. QED
  BY <1>4, <1>5

LEMMA OthersStand ==
    ASSUME NEW t \in Threads, Call(t) \/ Enter(t) \/ Load(t), NEW u \in Threads, u # t,
           StoreTypeOK
    PROVE  at'[u] = at[u] /\ found'[u] = found[u] /\ loaded'[u] = loaded[u]
BY DEF Call, Enter, Load, LoadPointer, CheckRequired, LoadFile, Install, Fail, Return, At,
   StoreTypeOK

LEMMA LoadStands ==
    ASSUME NEW u \in Threads, LoadInv(u), UNCHANGED trainVars,
           at'[u] = at[u], found'[u] = found[u], loaded'[u] = loaded[u],
           cached'[ReplicaOf[u]] = cached[ReplicaOf[u]]
    PROVE  LoadInv(u)'
BY DEF LoadInv, Mine, BundleOf, RunDir, trainVars

LEMMA ReadsSurviveReading ==
    ASSUME ServingInv, DistinctRunIds, StoreNext, UNCHANGED trainVars
    PROVE  /\ \A r \in Replicas : CacheInv(r)'
           /\ \A t \in Threads : LoadInv(t)'
<1> USE StoreAssumption
<1>0. /\ TrainInv /\ StoreTypeOK /\ HistoryInv /\ UNCHANGED promotions
      /\ \A u \in Threads : LoadControlInv(u) /\ LoadInv(u)
      /\ \A i \in 1..Len(promotions) : BundleOf(i)' = BundleOf(i)
  BY DEF ServingInv, BundleOf, RunDir, trainVars
<1>1. ASSUME UNCHANGED cached PROVE \A r \in Replicas : CacheInv(r)'
  BY <1>0, <1>1 DEF ServingInv, CacheInv
<1>2. ASSUME NEW t \in Threads, Call(t) \/ Enter(t) \/ Load(t), UNCHANGED cached, LoadInv(t)'
      PROVE  /\ \A r \in Replicas : CacheInv(r)'
             /\ \A u \in Threads : LoadInv(u)'
  BY <1>0, <1>1, <1>2, OthersStand, LoadStands
<1>3. ASSUME NEW t \in Threads, Call(t) PROVE UNCHANGED cached /\ LoadInv(t)'
  BY <1>0, <1>3 DEF Call, At, LoadInv, StoreTypeOK
<1>4. ASSUME NEW t \in Threads, Enter(t) PROVE UNCHANGED cached /\ LoadInv(t)'
  BY <1>0, <1>4 DEF Enter, Return, At, LoadInv, StoreTypeOK
<1>5. ASSUME NEW t \in Threads, NEW from, Fail(t, from) PROVE UNCHANGED cached /\ LoadInv(t)'
  BY <1>0, <1>5 DEF Fail, Return, At, LoadInv, StoreTypeOK
<1>6. ASSUME NEW t \in Threads, LoadPointer(t) PROVE UNCHANGED cached /\ LoadInv(t)'
  <2>1. CASE PointsAtRun
    <3> DEFINE i == Len(promotions)
    <3>1. /\ at[t] = "pointer" /\ at' = [at EXCEPT ![t] = "check"]
          /\ found' = [found EXCEPT ![t] = pointer]
          /\ UNCHANGED <<cached, loaded>>
      BY <1>6, <2>1 DEF LoadPointer, At
    <3>2. i \in 1..Len(promotions) /\ \A k \in 1..Len(promotions) : k <= i
      BY <1>0, <2>1 DEF HistoryInv, TrainInv, TrainTypeOK
    <3>3. loaded'[t] = << >> /\ found'[t] = RunDir(promotions[i])'
      BY <1>0, <2>1, <3>1 DEF LoadControlInv, HistoryInv, Newest, StoreTypeOK, RunDir
    <3>4. LoadInv(t)'
      BY <1>0, <3>2, <3>3 DEF LoadInv
    <3>5. QED
      BY <3>1, <3>4
  <2>2. CASE ~PointsAtRun
    BY <1>5, <1>6, <2>2 DEF LoadPointer
  <2>3. QED
    BY <2>1, <2>2
<1>7. ASSUME NEW t \in Threads, CheckRequired(t) PROVE UNCHANGED cached /\ LoadInv(t)'
  <2>1. CASE \A f \in Required : Exists(found[t], f)
    <3>1. at[t] = "check" /\ UNCHANGED <<cached, found, loaded>>
      BY <1>7, <2>1 DEF CheckRequired
    <3>2. QED
      BY <1>0, <3>1 DEF LoadInv, Mine
  <2>2. CASE ~\A f \in Required : Exists(found[t], f)
    BY <1>5, <1>7, <2>2 DEF CheckRequired
  <2>3. QED
    BY <2>1, <2>2
<1>8. ASSUME NEW t \in Threads, LoadFile(t) PROVE UNCHANGED cached /\ LoadInv(t)'
  <2> DEFINE n       == Len(loaded[t]) + 1
             content == disk[found[t]][LoadOrder[n]]
  <2>1. /\ at[t] = "load" /\ loaded[t] \in Writers /\ Len(loaded[t]) < NRequired
    BY <1>0, <1>8 DEF LoadFile, StoreTypeOK, LoadControlInv, Writers
  <2>2. PICK i \in 1..Len(promotions) :
              /\ found[t] = RunDir(promotions[i])
              /\ \A m \in 1..Len(loaded[t]) : loaded[t][m] = promotions[i]
              /\ \A k \in 1..Len(promotions) : Mine(t) = BundleOf(k) => k <= i
    BY <1>0, <2>1 DEF LoadInv
  <2>3. n \in 1..NRequired
    BY <2>1, WritersAreSequences DEF NRequired
  <2>4. content = Done(promotions[i]) /\ promotions[i] \in Jobs
    BY <1>0, <2>2, <2>3, PublishedRunIsWhole, LoadOrderInRequired, RequiredInFiles
  <2>5. Readable(content) /\ content.by = promotions[i]
    BY <2>4 DEF Readable, Done
  <2>6. /\ loaded' = [loaded EXCEPT ![t] = Append(loaded[t], promotions[i])]
        /\ UNCHANGED <<cached, found>>
    BY <1>8, <2>5 DEF LoadFile
  <2>7. loaded'[t] = Append(loaded[t], promotions[i])
    BY <1>0, <2>6 DEF StoreTypeOK
  <2>8. ASSUME NEW m \in 1..Len(loaded'[t]) PROVE loaded'[t][m] = promotions[i]
    <3>1. loaded[t] \in Seq(Jobs)
      BY <2>1, WritersAreSequences
    <3>2. QED
      BY <2>2, <2>4, <2>7, <3>1, AppendProperties, LenProperties
  <2>9. QED
    BY <1>0, <2>2, <2>6, <2>8 DEF LoadInv, Mine, RunDir
<1>9. ASSUME NEW t \in Threads, Install(t)
      PROVE  /\ \A r \in Replicas : CacheInv(r)'
             /\ \A u \in Threads : LoadInv(u)'
  <2>1. /\ at[t] = "install" /\ at'[t] = "idle"
        /\ cached' = [cached EXCEPT ![ReplicaOf[t]] = Bundle(found[t], loaded[t])]
    BY <1>0, <1>9 DEF Install, Return, At, StoreTypeOK
  <2>2. /\ loaded[t] \in Writers /\ Len(loaded[t]) = NRequired /\ lock[ReplicaOf[t]] = t
    BY <1>0, <2>1 DEF StoreTypeOK, LoadControlInv, Writers, Loading
  <2>3. PICK i \in 1..Len(promotions) :
              /\ found[t] = RunDir(promotions[i])
              /\ \A n \in 1..Len(loaded[t]) : loaded[t][n] = promotions[i]
    BY <1>0, <2>1 DEF LoadInv
  <2>4. Bundle(found[t], loaded[t]) = BundleOf(i)
    <3>1. \A n \in 1..NRequired : loaded[t][n] = promotions[i]
      BY <2>2, <2>3
    <3>2. Bundle(found[t], loaded[t]) = [id |-> found[t], part |-> [f \in Required |-> promotions[i]]]
      BY <2>2, <3>1, BundleOfOneWriter
    <3>3. QED
      BY <2>3, <3>2 DEF BundleOf
  <2>5. ASSUME NEW r \in Replicas PROVE CacheInv(r)'
    <3>1. CASE r = ReplicaOf[t]
      BY <1>0, <2>1, <2>4, <3>1 DEF CacheInv, StoreTypeOK
    <3>2. CASE r # ReplicaOf[t]
      BY <1>0, <2>1, <3>2 DEF ServingInv, CacheInv, StoreTypeOK
    <3>3. QED
      BY <3>1, <3>2
  <2>6. ASSUME NEW u \in Threads PROVE LoadInv(u)'
    <3>1. CASE u = t
      BY <2>1, <3>1 DEF LoadInv
    <3>2. CASE u # t /\ at[u] \in Loading
      <4>1. ReplicaOf[u] # ReplicaOf[t]
        BY <1>0, <2>2, <3>2 DEF StoreTypeOK
      <4>2. cached'[ReplicaOf[u]] = cached[ReplicaOf[u]]
        BY <1>0, <2>1, <4>1 DEF StoreTypeOK
      <4>3. QED
        BY <1>0, <1>9, <3>2, <4>2, OthersStand, LoadStands DEF Load
    <3>3. CASE u # t /\ at[u] \notin Loading
      <4>1. at'[u] = at[u]
        BY <1>0, <1>9, <3>3, OthersStand DEF Load
      <4>2. QED
        BY <3>3, <4>1 DEF LoadInv, Loading
    <3>4. QED
      BY <3>1, <3>2, <3>3
  <2>7. QED
    BY <2>5, <2>6
<1>10. ASSUME Tick
       PROVE  /\ \A r \in Replicas : CacheInv(r)'
              /\ \A u \in Threads : LoadInv(u)'
  BY <1>0, <1>1, <1>10, LoadStands DEF Tick
<1>11. ASSUME NEW r \in Replicas, Restart(r)
       PROVE  /\ \A s \in Replicas : CacheInv(s)'
              /\ \A u \in Threads : LoadInv(u)'
  <2>1. ASSUME NEW s \in Replicas PROVE CacheInv(s)'
    BY <1>0, <1>11 DEF Restart, ServingInv, CacheInv, StoreTypeOK
  <2>2. ASSUME NEW u \in Threads PROVE LoadInv(u)'
    <3>1. CASE ReplicaOf[u] = r
      BY <1>11, <3>1 DEF Restart, Reset, LoadInv
    <3>2. CASE ReplicaOf[u] # r
      <4>1. /\ at'[u] = at[u] /\ found'[u] = found[u] /\ loaded'[u] = loaded[u]
            /\ cached'[ReplicaOf[u]] = cached[ReplicaOf[u]]
        BY <1>0, <1>11, <3>2 DEF Restart, Reset, StoreTypeOK
      <4>2. QED
        BY <1>0, <4>1, LoadStands
    <3>3. QED
      BY <3>1, <3>2
  <2>3. QED
    BY <2>1, <2>2
<1>12. QED
  BY <1>2, <1>3, <1>4, <1>6, <1>7, <1>8, <1>9, <1>10, <1>11 DEF StoreNext, Load

(***************************************************************************)
(* The invariant of the whole serving path.                                *)
(***************************************************************************)
LEMMA ServingInvInit == ServingInit => ServingInv
<1> SUFFICES ASSUME ServingInit PROVE ServingInv
  OBVIOUS
<1>1. TrainInv /\ StoreTypeInv
  BY InvInit, StoreTypeInit DEF ServingInit
<1>2. HistoryInv
  BY RegistryAssumption
     DEF ServingInit, TrainInit, RegistryInit, HistoryInv, PointsAtRun
<1>3. /\ \A r \in Replicas : CacheInv(r)
      /\ \A t \in Threads : LoadInv(t)
  BY DEF ServingInit, StoreInit, CacheInv, LoadInv
<1>4. QED
  BY <1>1, <1>2, <1>3 DEF ServingInv, StoreTypeInv

LEMMA ServingInvStep ==
    ServingInv /\ DistinctRunIds /\ [ServingNext]_servingVars => ServingInv'
<1> SUFFICES ASSUME ServingInv, DistinctRunIds, [ServingNext]_servingVars PROVE ServingInv'
  OBVIOUS
<1>1. TrainInv /\ TypeInv /\ StoreTypeInv /\ HistoryInv /\ [TrainNext]_trainVars
  BY TrainHalf DEF ServingInv, StoreTypeInv, TrainInv, TypeInv
<1>2. TrainInv' /\ HistoryInv' /\ StoreTypeInv'
  BY <1>1, InvStep, HistoryStep, AllTypesStep
<1>3. /\ \A r \in Replicas : CacheInv(r)'
      /\ \A t \in Threads : LoadInv(t)'
  <2>1. CASE UNCHANGED storeVars
    BY <1>1, <2>1, ReadsSurviveTraining
  <2>2. CASE StoreNext /\ UNCHANGED pipelineVars
    <3>1. UNCHANGED trainVars
      BY <2>2, StoreOnlyReads DEF registryVars, pipelineVars, trainVars
    <3>2. QED
      BY <2>2, <3>1, ReadsSurviveReading
  <2>3. QED
    BY <2>1, <2>2 DEF ServingNext, servingVars
<1>4. QED
  BY <1>2, <1>3 DEF ServingInv, StoreTypeInv

\* The inductive invariant holds of every behaviour of jobs with distinct run ids.
THEOREM ServingInvariant == DistinctRunIds => (ServingSpec => []ServingInv)
<1> SUFFICES ASSUME DistinctRunIds PROVE ServingSpec => []ServingInv
  OBVIOUS
<1>1. ServingInv /\ [ServingNext]_servingVars => ServingInv'
  BY ServingInvStep
<1>2. QED
  BY ServingInvInit, <1>1, PTL DEF ServingSpec

\* A cached bundle is one promoted job's: get() reads the pointer and five files one
\* by one, while jobs write, crash and promote, and never mixes two runs.
THEOREM BundlesAreNeverMixed == DistinctRunIds => (ServingSpec => []ServedBundleIsOneRun)
<1>1. ServingInv => ServedBundleIsOneRun
  <2> SUFFICES ASSUME ServingInv, NEW r \in Replicas, cached[r] # NoBundle
               PROVE  \E j \in Jobs : Promoted(j) /\ MadeBy(cached[r], j)
    BY DEF ServedBundleIsOneRun
  <2>1. PICK i \in 1..Len(promotions) : cached[r] = BundleOf(i)
    BY DEF ServingInv, CacheInv
  <2>2. promotions[i] \in Jobs
    BY PublishedRunIsWhole DEF ServingInv
  <2>3. QED
    BY <2>1, <2>2 DEF Promoted, MadeBy, BundleOf
<1>2. QED
  BY ServingInvariant, <1>1, PTL

\* The heatmap read from disk at request time is whole and of the served run, however
\* long ago that run was replaced in latest.json.
THEOREM MapIsOfTheServedRun == DistinctRunIds => (ServingSpec => []MapMatchesServedRun)
<1>1. ServingInv => MapMatchesServedRun
  <2> SUFFICES ASSUME ServingInv, NEW r \in Replicas, cached[r] # NoBundle
               PROVE  disk[cached[r].id]["heatmap"] = Done(cached[r].part["metrics"])
    BY DEF MapMatchesServedRun
  <2>1. PICK i \in 1..Len(promotions) : cached[r] = BundleOf(i)
    BY DEF ServingInv, CacheInv
  <2>2. "heatmap" \in Files /\ "metrics" \in Required
    <3>1. WriteOrder[1] = "heatmap" /\ LoadOrder[5] = "metrics"
      BY DEF WriteOrder, LoadOrder
    <3>2. QED
      BY <3>1 DEF Files, Required, NFiles, NRequired
  <2>3. disk[RunDir(promotions[i])]["heatmap"] = Done(promotions[i])
    BY <2>2, PublishedRunIsWhole DEF ServingInv
  <2>4. QED
    BY <2>1, <2>2, <2>3 DEF BundleOf
<1>2. QED
  BY ServingInvariant, <1>1, PTL

(***************************************************************************)
(* The refinement of ServedModel.  A published run has one place in the    *)
(* history, so what a replica serves has one, and a bundle's place never   *)
(* changes.                                                                *)
(***************************************************************************)
LEMMA PlaceOfABundle ==
    TrainInv /\ HistoryInv /\ DistinctRunIds =>
        \A i \in 1..Len(promotions) : BundleOf(i) # NoBundle /\ Position(BundleOf(i)) = i
<1> SUFFICES ASSUME TrainInv, HistoryInv, DistinctRunIds, NEW i \in 1..Len(promotions)
             PROVE  BundleOf(i) # NoBundle /\ Position(BundleOf(i)) = i
  OBVIOUS
<1>1. BundleOf(i) \in Bundles
  BY PublishedRunIsWhole DEF BundleOf, Bundles
<1>2. BundleOf(i).id = RunDir(promotions[i])
  BY DEF BundleOf
<1>3. PositionsOf(BundleOf(i).id) = {i}
  BY <1>2, SameRunSamePlace DEF PositionsOf
<1>4. QED
  BY <1>1, <1>3, StoreAssumption DEF Position

LEMMA PlaceOfABundleNext ==
    (TrainInv /\ HistoryInv /\ DistinctRunIds)' =>
        (\A i \in 1..Len(promotions) : BundleOf(i) # NoBundle /\ Position(BundleOf(i)) = i)'
BY PlaceOfABundle, PTL

LEMMA PlaceOfNothing == Position(NoBundle) = 0
BY DEF Position

\* A step that neither promotes nor caches is invisible.
LEMMA SamePlaces ==
    ASSUME UNCHANGED <<promotions, cached>>
    PROVE  UNCHANGED <<PublishedRuns, ServedPositions>>
BY DEF PublishedRuns, ServedPositions, Position, PositionsOf, RunDir

LEMMA PromotionPublishes ==
    ASSUME ServingInv, ServingInv', DistinctRunIds, UNCHANGED cached, NEW j \in Jobs,
           promotions' = Append(promotions, j)
    PROVE  Promises!Publish
<1>1. promotions \in Seq(Jobs) /\ TrainInv /\ HistoryInv /\ TrainInv' /\ HistoryInv'
  BY DEF ServingInv, TrainInv, TrainTypeOK
<1>2. /\ Len(promotions) \in Nat /\ Len(promotions') = Len(promotions) + 1
      /\ \A i \in 1..Len(promotions) : promotions'[i] = promotions[i]
      /\ promotions'[Len(promotions) + 1] = j
  BY <1>1, AppendProperties, LenProperties
<1>3. PublishedRuns' = Append(PublishedRuns, RunDir(j))
  <2>1. /\ PublishedRuns \in Seq(RunIds) /\ Len(PublishedRuns) = Len(promotions)
        /\ RunDir(j) \in RunIds
    <3>1. \A i \in 1..Len(promotions) : RunDir(promotions[i]) \in RunIds
      BY <1>1, PublishedRunIsWhole
    <3>2. QED
      BY <1>2, <3>1, RunDirType DEF PublishedRuns
  <2>2. /\ PublishedRuns' \in Seq(RunIds) /\ Len(PublishedRuns') = Len(promotions) + 1
        /\ \A i \in 1..(Len(promotions) + 1) : PublishedRuns'[i] = RunDir(promotions'[i])
    <3>1. \A i \in 1..Len(promotions') : promotions'[i] \in Jobs
      BY <1>1 DEF TrainInv, TrainTypeOK
    <3>2. QED
      BY <1>2, <3>1, RunDirType DEF PublishedRuns, RunDir
  <2>3. /\ Append(PublishedRuns, RunDir(j)) \in Seq(RunIds)
        /\ Len(Append(PublishedRuns, RunDir(j))) = Len(promotions) + 1
        /\ \A i \in 1..(Len(promotions) + 1) :
              Append(PublishedRuns, RunDir(j))[i] = RunDir(promotions'[i])
    BY <1>2, <2>1, AppendProperties DEF PublishedRuns
  <2>4. QED
    BY <1>2, <2>2, <2>3, SeqEqual
<1>4. ASSUME NEW r \in Replicas PROVE Position(cached[r])' = Position(cached[r])
  <2>1. CASE cached[r] = NoBundle
    BY <2>1 DEF Position
  <2>2. CASE cached[r] # NoBundle
    <3>1. PICK i \in 1..Len(promotions) : cached[r] = BundleOf(i)
      BY <2>2 DEF ServingInv, CacheInv
    <3>2. i \in 1..Len(promotions') /\ BundleOf(i)' = BundleOf(i)
      BY <1>2 DEF BundleOf, RunDir
    <3>3. Position(BundleOf(i)) = i
      BY <1>1, PlaceOfABundle
    <3>4. (\A k \in 1..Len(promotions) : BundleOf(k) # NoBundle /\ Position(BundleOf(k)) = k)'
      BY <1>1, PlaceOfABundleNext DEF DistinctRunIds
    <3>5. Position(BundleOf(i))' = i
      BY <3>2, <3>4
    <3>6. QED
      BY <3>1, <3>2, <3>3, <3>5
  <2>3. QED
    BY <2>1, <2>2
<1>5. ServedPositions' = ServedPositions
  BY <1>4 DEF ServedPositions
<1>6. QED
  BY <1>3, <1>5, RunDirType DEF Promises!Publish

LEMMA InstallRefreshes ==
    ASSUME ServingInv, DistinctRunIds, NEW t \in Threads, Install(t), UNCHANGED promotions
    PROVE  Promises!Refresh(ReplicaOf[t])
<1> USE StoreAssumption
<1>0. /\ TrainInv /\ HistoryInv /\ StoreTypeOK /\ LoadControlInv(t) /\ LoadInv(t)
      /\ promotions \in Seq(Jobs)
  BY DEF ServingInv, TrainInv, TrainTypeOK
<1>1. /\ at[t] = "install"
      /\ cached' = [cached EXCEPT ![ReplicaOf[t]] = Bundle(found[t], loaded[t])]
  BY <1>0 DEF Install, Return, At
<1>2. /\ loaded[t] \in Writers /\ Len(loaded[t]) = NRequired
  BY <1>0, <1>1 DEF StoreTypeOK, LoadControlInv, Writers
<1>3. PICK i \in 1..Len(promotions) :
            /\ found[t] = RunDir(promotions[i])
            /\ \A n \in 1..Len(loaded[t]) : loaded[t][n] = promotions[i]
            /\ \A k \in 1..Len(promotions) : Mine(t) = BundleOf(k) => k <= i
  BY <1>0, <1>1 DEF LoadInv
<1>4. Bundle(found[t], loaded[t]) = BundleOf(i)
  BY <1>2, <1>3, BundleOfOneWriter DEF BundleOf
<1>5. Position(BundleOf(i)) = i
  BY <1>0, PlaceOfABundle
<1>6. \A b : Position(b)' = Position(b)
  BY DEF Position, PositionsOf, RunDir
<1>7. ServedPositions' = [ServedPositions EXCEPT ![ReplicaOf[t]] = i]
  BY <1>0, <1>1, <1>4, <1>5, <1>6 DEF ServedPositions, StoreTypeOK
<1>8. Position(Mine(t)) <= i
  <2>1. CASE Mine(t) = NoBundle
    BY <1>0, <1>3, <2>1, PlaceOfNothing
  <2>2. CASE Mine(t) # NoBundle
    <3>1. PICK k \in 1..Len(promotions) : Mine(t) = BundleOf(k)
      BY <2>2 DEF ServingInv, CacheInv, Mine
    <3>2. QED
      BY <1>0, <1>3, <3>1, PlaceOfABundle
  <2>3. QED
    BY <2>1, <2>2
<1>9. ServedPositions[ReplicaOf[t]] = Position(Mine(t)) /\ Len(PublishedRuns) = Len(promotions)
  BY <1>0 DEF ServedPositions, PublishedRuns, Mine
<1>10. PublishedRuns' = PublishedRuns
  BY DEF PublishedRuns, RunDir
<1>11. i \in 1..Len(PublishedRuns) /\ i >= ServedPositions[ReplicaOf[t]]
  BY <1>3, <1>8, <1>9
<1>12. QED
  BY <1>7, <1>10, <1>11 DEF Promises!Refresh

LEMMA RestartForgets ==
    ASSUME ServingInv, NEW r \in Replicas, Restart(r), UNCHANGED promotions
    PROVE  Promises!Forget(r)
<1>1. cached' = [cached EXCEPT ![r] = NoBundle] /\ cached \in [Replicas -> Bundles \cup {NoBundle}]
  BY DEF Restart, ServingInv, StoreTypeOK
<1>2. \A b : Position(b)' = Position(b)
  BY DEF Position, PositionsOf, RunDir
<1>3. ServedPositions' = [ServedPositions EXCEPT ![r] = 0]
  BY <1>1, <1>2, PlaceOfNothing DEF ServedPositions
<1>4. PublishedRuns' = PublishedRuns
  BY DEF PublishedRuns, RunDir
<1>5. QED
  BY <1>3, <1>4 DEF Promises!Forget

LEMMA PromisesInit == ServingInit => Promises!Init
<1> SUFFICES ASSUME ServingInit PROVE Promises!Init
  OBVIOUS
<1>1. promotions = << >> /\ cached = [r \in Replicas |-> NoBundle]
  BY DEF ServingInit, TrainInit, StoreInit
<1>2. PublishedRuns = << >>
  BY <1>1 DEF PublishedRuns
<1>3. ServedPositions = [r \in Replicas |-> 0]
  BY <1>1, PlaceOfNothing DEF ServedPositions
<1>4. QED
  BY <1>2, <1>3 DEF Promises!Init

LEMMA PromisesStep ==
    ServingInv /\ ServingInv' /\ DistinctRunIds /\ [ServingNext]_servingVars =>
        [Promises!Next]_<<PublishedRuns, ServedPositions>>
<1> SUFFICES ASSUME ServingInv, ServingInv', DistinctRunIds, [ServingNext]_servingVars
             PROVE  [Promises!Next]_<<PublishedRuns, ServedPositions>>
  OBVIOUS
<1>1. CASE TrainNext /\ UNCHANGED storeVars
  <2>1. \/ promotions' = promotions
        \/ \E j \in Jobs : promotions' = Append(promotions, j)
    BY <1>1, HistoryStep DEF ServingInv
  <2>2. UNCHANGED cached
    BY <1>1 DEF storeVars
  <2>3. QED
    BY <2>1, <2>2, SamePlaces, PromotionPublishes DEF Promises!Next
<1>2. CASE StoreNext /\ UNCHANGED pipelineVars
  <2>1. UNCHANGED promotions
    BY <1>2 DEF pipelineVars
  <2>2. ASSUME NEW t \in Threads, Install(t) PROVE Promises!Next
    BY <2>1, <2>2, InstallRefreshes, StoreAssumption DEF Promises!Next
  <2>3. ASSUME NEW r \in Replicas, Restart(r) PROVE Promises!Next
    BY <2>1, <2>3, RestartForgets DEF Promises!Next
  <2>4. CASE \/ Tick
             \/ \E t \in Threads : \/ Call(t) \/ Enter(t) \/ LoadPointer(t)
                                   \/ CheckRequired(t) \/ LoadFile(t)
    <3>1. UNCHANGED cached
      BY <2>4 DEF Tick, Call, Enter, LoadPointer, CheckRequired, LoadFile, Fail
    <3>2. QED
      BY <2>1, <3>1, SamePlaces
  <2>5. QED
    BY <1>2, <2>2, <2>3, <2>4 DEF StoreNext, Load
<1>3. CASE UNCHANGED servingVars
  <2>1. UNCHANGED <<promotions, cached>>
    BY <1>3 DEF servingVars, trainVars, storeVars
  <2>2. QED
    BY <2>1, SamePlaces
<1>4. QED
  BY <1>1, <1>2, <1>3 DEF ServingNext

\* The registry and the stores implement ServedModel, for any number of jobs, replicas
\* and threads: a replica only ever serves published runs, and never an older one than
\* it served before, until it is restarted.
THEOREM ServingImplementsServedModel ==
    DistinctRunIds => (ServingSpec => ServesPublishedRunsInOrder)
<1> SUFFICES ASSUME DistinctRunIds PROVE ServingSpec => ServesPublishedRunsInOrder
  OBVIOUS
<1>1. ServingInv /\ ServingInv' /\ [ServingNext]_servingVars =>
        [Promises!Next]_<<PublishedRuns, ServedPositions>>
  BY PromisesStep
<1>2. QED
  BY ServingInvariant, PromisesInit, <1>1, PTL
     DEF ServingSpec, ServesPublishedRunsInOrder, Promises!Spec, Promises!servedModelVars
=============================================================================
