------------------------- MODULE TrainPipelineProofs -------------------------
(***************************************************************************)
(* What run_pipeline guarantees, for any number of jobs, chunks and errors *)
(* and with jobs that overlap and crash anywhere.  The one hypothesis, and *)
(* only where it is stated, is that no two jobs share a run id; the last   *)
(* part, on the promotion gate, needs two more.                            *)
(***************************************************************************)
EXTENDS TrainPipeline, TLAPS

(***************************************************************************)
(* Facts about the order of files and about what a file may hold.          *)
(***************************************************************************)
LEMMA WriteOrderInjective ==
    \A k, m \in 1..NFiles : WriteOrder[k] = WriteOrder[m] => k = m
BY DEF WriteOrder, NFiles

LEMMA WriteOrderInFiles == \A k \in 1..NFiles : WriteOrder[k] \in Files
BY DEF Files

LEMMA ContentsMembers ==
    \A j \in Jobs : Open(j) \in Contents /\ Done(j) \in Contents /\ Garbled(j) \in Contents
BY DEF Contents, Open, Done, Garbled

LEMMA FlushedInContents ==
    ASSUME NEW j \in Jobs, NEW content
    PROVE  Flushed(content, j) \subseteq Contents
BY ContentsMembers DEF Flushed

LEMMA ReadableWriter ==
    ASSUME NEW content \in Contents, Readable(content)
    PROVE  content.by \in Jobs
BY DEF Contents, Readable, Absent

LEMMA MetricsInFiles == "metrics" \in Files
<1>1. WriteOrder[7] = "metrics"
  BY DEF WriteOrder
<1>2. QED
  BY <1>1 DEF Files, NFiles

LEMMA RunDirType == \A j \in Jobs : RunDir(j) \in RunIds
BY PipelineAssumption DEF RunDir

(***************************************************************************)
(* Types, and where the counters of a job stand.                           *)
(***************************************************************************)
TypeInv == TrainTypeOK /\ \A j \in Jobs : ControlInv(j)

LEMMA TypeInit == TrainInit => TypeInv
BY PipelineAssumption, RegistryAssumption
   DEF TrainInit, RegistryInit, TypeInv, TrainTypeOK, RegistryTypeOK, ControlInv,
       EmptyRunDir, Contents, NoParts, Labels, NFiles, BeforeFeed, BeforeFiles, AfterFiles

LEMMA TypeStep == TypeInv /\ [TrainNext]_trainVars => TypeInv'
<1> SUFFICES ASSUME TypeInv, [TrainNext]_trainVars PROVE TypeInv'
  OBVIOUS
<1> USE PipelineAssumption, RegistryAssumption, RunDirType
<1>1. CASE UNCHANGED trainVars
  BY <1>1 DEF trainVars, locals, TypeInv, TrainTypeOK, RegistryTypeOK, ControlInv
<1>2. ASSUME NEW j \in Jobs, Start(j) PROVE TypeInv'
  BY <1>2 DEF Start, Move, Goto, locals, TypeInv, TrainTypeOK, RegistryTypeOK, ControlInv,
     Labels, BeforeFeed, BeforeFiles, AfterFiles, NFiles
<1>3. ASSUME NEW j \in Jobs, ReadPointer(j) PROVE TypeInv'
  <2>1. PICK label \in {"metrics", "ingest"} :
           /\ pc[j] = "pointer" /\ pc' = [pc EXCEPT ![j] = label]
           /\ \/ label = "ingest" /\ target' = target
              \/ pointer \in RunIds /\ target' = [target EXCEPT ![j] = pointer]
    BY <1>3 DEF ReadPointer, Move, Goto, PointsAtRun
  <2>2. UNCHANGED <<disk, pointer, baseline, chunk, trained, mae, verdict, file,
                    parts, assigned, promotions>>
    BY <1>3 DEF ReadPointer
  <2>3. TrainTypeOK'
    <3>1. pc \in [Jobs -> Labels] /\ target \in [Jobs -> RunIds \cup {NoPointer}]
      BY DEF TypeInv, TrainTypeOK
    <3>2. pc' \in [Jobs -> Labels]
      BY <2>1, <3>1 DEF Labels
    <3>3. target' \in [Jobs -> RunIds \cup {NoPointer}]
      BY <2>1, <3>1
    <3>4. QED
      BY <2>2, <3>2, <3>3 DEF TypeInv, TrainTypeOK, RegistryTypeOK
  <2>4. ASSUME NEW k \in Jobs PROVE ControlInv(k)'
    BY <2>1, <2>2 DEF TypeInv, TrainTypeOK, ControlInv,
       Labels, BeforeFeed, BeforeFiles, AfterFiles, NFiles
  <2>5. QED
    BY <2>3, <2>4 DEF TypeInv
<1>4. ASSUME NEW j \in Jobs, ReadPrevMetrics(j) PROVE TypeInv'
  BY <1>4, ReadableWriter, MetricsInFiles DEF ReadPrevMetrics, Move, Goto, TypeInv, TrainTypeOK, RegistryTypeOK, ControlInv,
     Labels, BeforeFeed, BeforeFiles, AfterFiles, NFiles
<1>5. ASSUME NEW j \in Jobs, WriteChunk(j) PROVE TypeInv'
  <2>1. chunk[j] \in 0..NChunks /\ chunk[j] < NChunks /\ NChunks \in Nat
    BY <1>5 DEF WriteChunk, TypeInv, TrainTypeOK, ControlInv, BeforeFeed
  <2>2. chunk' \in [Jobs -> 0..NChunks]
    BY <1>5, <2>1 DEF WriteChunk, TypeInv, TrainTypeOK
  <2>3. parts' \in [RunIds -> [1..NChunks -> Jobs \cup {NoJob}]]
    BY <1>5, <2>1 DEF WriteChunk, TypeInv, TrainTypeOK
  <2>4. TrainTypeOK'
    BY <1>5, <2>2, <2>3 DEF WriteChunk, Goto, TypeInv, TrainTypeOK, RegistryTypeOK, Labels
  <2>5. ASSUME NEW k \in Jobs PROVE ControlInv(k)'
    BY <1>5, <2>1 DEF WriteChunk, Goto, TypeInv, TrainTypeOK, ControlInv,
       Labels, BeforeFeed, BeforeFiles, AfterFiles, NFiles
  <2>6. QED
    BY <2>4, <2>5 DEF TypeInv
<1>6. ASSUME NEW j \in Jobs, QualityGate(j) PROVE TypeInv'
  BY <1>6 DEF QualityGate, Move, Goto, locals, TypeInv, TrainTypeOK, RegistryTypeOK, ControlInv,
     Labels, BeforeFeed, BeforeFiles, AfterFiles, NFiles
<1>7. ASSUME NEW j \in Jobs, Cluster(j) PROVE TypeInv'
  <2>1. PICK label \in {"features", "failed"} :
           /\ pc[j] = "cluster" /\ pc' = [pc EXCEPT ![j] = label]
           /\ \/ assigned' = assigned
              \/ assigned' = [assigned EXCEPT ![RunDir(j)] = parts[RunDir(j)]]
    BY <1>7 DEF Cluster, Move, Goto
  <2>2. UNCHANGED <<disk, pointer, target, baseline, chunk, trained, mae, verdict,
                    file, parts, promotions>>
    BY <1>7 DEF Cluster, locals
  <2>3. TrainTypeOK'
    BY <2>1, <2>2 DEF TypeInv, TrainTypeOK, RegistryTypeOK, Labels
  <2>4. ASSUME NEW k \in Jobs PROVE ControlInv(k)'
    BY <2>1, <2>2 DEF TypeInv, TrainTypeOK, ControlInv,
       Labels, BeforeFeed, BeforeFiles, AfterFiles, NFiles
  <2>5. QED
    BY <2>3, <2>4 DEF TypeInv
<1>8. ASSUME NEW j \in Jobs, Features(j) PROVE TypeInv'
  BY <1>8 DEF Features, Move, Goto, TypeInv, TrainTypeOK, RegistryTypeOK, ControlInv,
     Labels, BeforeFeed, BeforeFiles, AfterFiles, NFiles
<1>9. ASSUME NEW j \in Jobs, Train(j) PROVE TypeInv'
  <2>1. PICK label \in {"write", "failed"} :
           pc[j] = "train" /\ pc' = [pc EXCEPT ![j] = label]
    BY <1>9 DEF Train, Move, Goto
  <2>2. mae' = mae \/ \E m \in MaeValues : mae' = [mae EXCEPT ![j] = m]
    BY <1>9 DEF Train
  <2>3. UNCHANGED <<disk, pointer, target, baseline, chunk, trained, verdict, file,
                    parts, assigned, promotions>>
    BY <1>9 DEF Train
  <2>4. TrainTypeOK'
    <3>1. pc \in [Jobs -> Labels] /\ mae \in [Jobs -> MaeValues \cup {NoMae}]
      BY DEF TypeInv, TrainTypeOK
    <3>2. pc' \in [Jobs -> Labels]
      BY <2>1, <3>1 DEF Labels
    <3>3. mae' \in [Jobs -> MaeValues \cup {NoMae}]
      BY <2>2, <3>1
    <3>4. QED
      BY <2>3, <3>2, <3>3 DEF TypeInv, TrainTypeOK, RegistryTypeOK
  <2>5. ASSUME NEW k \in Jobs PROVE ControlInv(k)'
    BY <2>1, <2>3 DEF TypeInv, TrainTypeOK, ControlInv,
       Labels, BeforeFeed, BeforeFiles, AfterFiles, NFiles
  <2>6. QED
    BY <2>4, <2>5 DEF TypeInv
<1>10. ASSUME NEW j \in Jobs, OpenFile(j) PROVE TypeInv'
  <2>1. file[j] \in 1..NFiles
    BY <1>10 DEF OpenFile, Move, TypeInv, TrainTypeOK, ControlInv, NFiles
  <2>2. disk' \in [RunIds -> [Files -> Contents]]
    BY <1>10, <2>1, ContentsMembers, WriteOrderInFiles
       DEF OpenFile, TypeInv, TrainTypeOK, RegistryTypeOK
  <2>3. TrainTypeOK'
    BY <1>10, <2>2 DEF OpenFile, Move, Goto, locals, TypeInv, TrainTypeOK, RegistryTypeOK, Labels
  <2>4. ASSUME NEW k \in Jobs PROVE ControlInv(k)'
    BY <1>10, <2>1 DEF OpenFile, Move, Goto, locals, TypeInv, TrainTypeOK, ControlInv,
       Labels, BeforeFeed, BeforeFiles, AfterFiles, NFiles
  <2>5. QED
    BY <2>3, <2>4 DEF TypeInv
<1>11. ASSUME NEW j \in Jobs, CloseFile(j) PROVE TypeInv'
  <2>1. file[j] \in 1..NFiles /\ pc[j] = "writing"
    BY <1>11 DEF CloseFile, Move, TypeInv, TrainTypeOK, ControlInv, NFiles
  <2>2. disk' \in [RunIds -> [Files -> Contents]]
    BY <1>11, <2>1, FlushedInContents, WriteOrderInFiles
       DEF CloseFile, TypeInv, TrainTypeOK, RegistryTypeOK
  <2>3. /\ file' = [file EXCEPT ![j] = file[j] + 1]
        /\ pc' = [pc EXCEPT ![j] = AfterFile(file[j])]
        /\ UNCHANGED <<pointer, target, baseline, chunk, trained, mae, verdict,
                       parts, assigned, promotions>>
    BY <1>11 DEF CloseFile, Move, Goto
  <2>4. TrainTypeOK'
    BY <2>1, <2>2, <2>3 DEF AfterFile, TypeInv, TrainTypeOK, RegistryTypeOK, Labels, NFiles
  <2>5. ASSUME NEW k \in Jobs PROVE ControlInv(k)'
    BY <2>1, <2>3 DEF AfterFile, TypeInv, TrainTypeOK, ControlInv,
       Labels, BeforeFeed, BeforeFiles, AfterFiles, NFiles
  <2>6. QED
    BY <2>4, <2>5 DEF TypeInv
<1>12. ASSUME NEW j \in Jobs, Gate(j) PROVE TypeInv'
  BY <1>12 DEF Gate, GateVerdict, Move, Goto, TypeInv, TrainTypeOK, RegistryTypeOK, ControlInv,
     Labels, BeforeFeed, BeforeFiles, AfterFiles, NFiles
<1>13. ASSUME NEW j \in Jobs, Cleanup(j) PROVE TypeInv'
  BY <1>13 DEF Cleanup, NoParts, Move, Goto, locals, TypeInv, TrainTypeOK, RegistryTypeOK, ControlInv,
     Labels, BeforeFeed, BeforeFiles, AfterFiles, NFiles
<1>14. ASSUME NEW j \in Jobs, OpenPointer(j) PROVE TypeInv'
  BY <1>14 DEF OpenPointer, Move, Goto, locals, TypeInv, TrainTypeOK, RegistryTypeOK, ControlInv,
     Labels, BeforeFeed, BeforeFiles, AfterFiles, NFiles
<1>15. ASSUME NEW j \in Jobs, WritePointer(j) PROVE TypeInv'
  BY <1>15 DEF WritePointer, Move, Goto, locals, TypeInv, TrainTypeOK, RegistryTypeOK, ControlInv,
     Labels, BeforeFeed, BeforeFiles, AfterFiles, NFiles
<1>16. ASSUME NEW j \in Jobs, Crash(j) PROVE TypeInv'
  BY <1>16 DEF Crash, Goto, locals, TypeInv, TrainTypeOK, RegistryTypeOK, ControlInv,
     Labels, BeforeFeed, BeforeFiles, AfterFiles, NFiles
<1> QED
  BY <1>1, <1>2, <1>3, <1>4, <1>5, <1>6, <1>7, <1>8, <1>9, <1>10, <1>11, <1>12, <1>13,
     <1>14, <1>15, <1>16 DEF TrainNext, Step

THEOREM TrainTypeCorrect == TrainSpec => []TrainTypeOK
<1>1. TypeInv => TrainTypeOK
  BY DEF TypeInv
<1>2. QED
  BY TypeInit, TypeStep, <1>1, PTL DEF TrainSpec

(***************************************************************************)
(* With run ids of their own, jobs do not touch each other: a step of one  *)
(* leaves the counters and the directory of every other as they are.       *)
(***************************************************************************)
JobStep(j) == Start(j) \/ Step(j) \/ Crash(j)

LEMMA OthersUntouched ==
    ASSUME TypeInv, DistinctRunIds, NEW j \in Jobs, JobStep(j), NEW k \in Jobs, k # j
    PROVE  /\ pc'[k] = pc[k] /\ file'[k] = file[k] /\ chunk'[k] = chunk[k]
           /\ trained'[k] = trained[k] /\ mae'[k] = mae[k]
           /\ disk'[RunDir(k)] = disk[RunDir(k)]
           /\ parts'[RunDir(k)] = parts[RunDir(k)]
           /\ assigned'[RunDir(k)] = assigned[RunDir(k)]
<1> USE RunDirType
<1>0. RunDir(j) # RunDir(k)
  BY DEF DistinctRunIds, RunDir
<1>1. pc'[k] = pc[k]
  BY DEF JobStep, Step, Start, Crash, ReadPointer, ReadPrevMetrics, WriteChunk, QualityGate,
     Cluster, Features, Train, OpenFile, CloseFile, Gate, Cleanup, OpenPointer, WritePointer,
     Move, Goto, TypeInv, TrainTypeOK
<1>2. file'[k] = file[k] /\ chunk'[k] = chunk[k]
  BY DEF JobStep, Step, Start, Crash, ReadPointer, ReadPrevMetrics, WriteChunk, QualityGate,
     Cluster, Features, Train, OpenFile, CloseFile, Gate, Cleanup, OpenPointer, WritePointer,
     locals, TypeInv, TrainTypeOK
<1>3. trained'[k] = trained[k] /\ mae'[k] = mae[k]
  BY DEF JobStep, Step, Start, Crash, ReadPointer, ReadPrevMetrics, WriteChunk, QualityGate,
     Cluster, Features, Train, OpenFile, CloseFile, Gate, Cleanup, OpenPointer, WritePointer,
     locals, TypeInv, TrainTypeOK
<1>4. disk'[RunDir(k)] = disk[RunDir(k)]
  BY <1>0 DEF JobStep, Step, Start, Crash, ReadPointer, ReadPrevMetrics, WriteChunk, QualityGate,
     Cluster, Features, Train, OpenFile, CloseFile, Gate, Cleanup, OpenPointer, WritePointer,
     TypeInv, TrainTypeOK, RegistryTypeOK
<1>5. parts'[RunDir(k)] = parts[RunDir(k)]
  BY <1>0 DEF JobStep, Step, Start, Crash, ReadPointer, ReadPrevMetrics, WriteChunk, QualityGate,
     Cluster, Features, Train, OpenFile, CloseFile, Gate, Cleanup, OpenPointer, WritePointer,
     TypeInv, TrainTypeOK, RegistryTypeOK
<1>6. assigned'[RunDir(k)] = assigned[RunDir(k)]
  BY <1>0 DEF JobStep, Step, Start, Crash, ReadPointer, ReadPrevMetrics, WriteChunk, QualityGate,
     Cluster, Features, Train, OpenFile, CloseFile, Gate, Cleanup, OpenPointer, WritePointer,
     TypeInv, TrainTypeOK, RegistryTypeOK
<1> QED
  BY <1>1, <1>2, <1>3, <1>4, <1>5, <1>6

(***************************************************************************)
(* The files behind a job's counter stay whole.                            *)
(***************************************************************************)
LEMMA FilesStep ==
    ASSUME TypeInv, TypeInv', DistinctRunIds, NEW j \in Jobs, JobStep(j),
           \A k \in Jobs : FilesInv(k)
    PROVE  \A k \in Jobs : FilesInv(k)'
<1> USE RunDirType
<1>1. ASSUME NEW k \in Jobs, k # j PROVE FilesInv(k)'
  BY <1>1, OthersUntouched DEF FilesInv, RunDir
<1>2. FilesInv(j)'
  <2>1. CASE OpenFile(j)
    <3>1. file[j] \in 1..NFiles /\ file' = file
      BY <2>1 DEF OpenFile, Move, locals, TypeInv, TrainTypeOK, ControlInv, NFiles
    <3>2. disk'[RunDir(j)][WriteOrder[file[j]]] = Open(j)
      BY <2>1, <3>1, WriteOrderInFiles DEF OpenFile, TypeInv, TrainTypeOK, RegistryTypeOK
    <3>3. ASSUME NEW n \in 1..NFiles, n < file[j]
          PROVE  disk'[RunDir(j)][WriteOrder[n]] = Done(j)
      <4>1. WriteOrder[n] # WriteOrder[file[j]]
        BY <3>1, <3>3, WriteOrderInjective DEF NFiles
      <4>2. disk[RunDir(j)][WriteOrder[n]] = Done(j)
        BY <3>3 DEF FilesInv
      <4>3. QED
        BY <2>1, <4>1, <4>2, WriteOrderInFiles DEF OpenFile, TypeInv, TrainTypeOK, RegistryTypeOK
    <3>4. QED
      BY <3>1, <3>2, <3>3 DEF FilesInv, RunDir
  <2>2. CASE CloseFile(j)
    <3>1. file[j] \in 1..NFiles /\ pc[j] = "writing" /\ file'[j] = file[j] + 1
      BY <2>2 DEF CloseFile, Move, TypeInv, TrainTypeOK, ControlInv, NFiles
    <3>2. disk' = [disk EXCEPT ![RunDir(j)][WriteOrder[file[j]]] = Done(j)]
      BY <2>2, <3>1 DEF CloseFile, FilesInv, Flushed
    <3>3. ASSUME NEW n \in 1..NFiles, n < file[j] + 1
          PROVE  disk'[RunDir(j)][WriteOrder[n]] = Done(j)
      <4>1. n = file[j] \/ disk[RunDir(j)][WriteOrder[n]] = Done(j)
        BY <3>1, <3>3 DEF FilesInv, NFiles
      <4>2. QED
        BY <3>1, <3>2, <4>1, WriteOrderInFiles DEF TypeInv, TrainTypeOK, RegistryTypeOK
    <3>4. pc'[j] # "writing"
      BY <2>2 DEF CloseFile, Move, Goto, AfterFile, TypeInv, TrainTypeOK
    <3>5. QED
      BY <3>1, <3>3, <3>4 DEF FilesInv, RunDir
  <2>3. CASE ~OpenFile(j) /\ ~CloseFile(j)
    <3>1. UNCHANGED <<disk, file>>
      BY <2>3 DEF JobStep, Step, Start, Crash, ReadPointer, ReadPrevMetrics, WriteChunk, QualityGate,
         Cluster, Features, Train, Gate, Cleanup, OpenPointer, WritePointer, locals
    <3>2. pc'[j] # "writing"
      BY <2>3 DEF JobStep, Step, Start, Crash, ReadPointer, ReadPrevMetrics, WriteChunk, QualityGate,
         Cluster, Features, Train, Gate, Cleanup, OpenPointer, WritePointer, Move, Goto,
         TypeInv, TrainTypeOK
    <3>3. QED
      BY <3>1, <3>2 DEF FilesInv, RunDir
  <2>4. QED
    BY <2>1, <2>2, <2>3
<1>3. QED
  BY <1>1, <1>2

(***************************************************************************)
(* So do its chunks, its assignments and its model.                        *)
(***************************************************************************)
LEMMA FeedStep ==
    ASSUME TypeInv, TypeInv', DistinctRunIds, NEW j \in Jobs, JobStep(j),
           \A k \in Jobs : FeedInv(k)
    PROVE  \A k \in Jobs : FeedInv(k)'
<1> USE RunDirType
<1>1. ASSUME NEW k \in Jobs, k # j PROVE FeedInv(k)'
  <2>1. /\ pc'[k] = pc[k] /\ chunk'[k] = chunk[k] /\ trained'[k] = trained[k]
        /\ parts'[RunDir(k)] = parts[RunDir(k)]
        /\ assigned'[RunDir(k)] = assigned[RunDir(k)]
    BY <1>1, OthersUntouched
  <2>2. FeedInv(k)
    OBVIOUS
  <2>3. QED
    BY <2>1, <2>2 DEF FeedInv, RunDir
<1>2. FeedInv(j)'
  <2>1. CASE WriteChunk(j)
    <3>1. pc[j] = "ingest" /\ pc'[j] \in {"ingest", "quality"}
      BY <2>1 DEF WriteChunk, Goto, TypeInv, TrainTypeOK
    <3>2. chunk[j] \in Nat /\ chunk[j] < NChunks /\ chunk'[j] = chunk[j] + 1
      BY <2>1, <3>1, PipelineAssumption
         DEF WriteChunk, TypeInv, TrainTypeOK, ControlInv, BeforeFeed
    <3>3. \A n \in 1..NChunks : n <= chunk[j] => parts[RunDir(j)][n] = j
      BY <3>1 DEF FeedInv, BeforeFeed, BeforeFiles
    <3>4. \A n \in 1..NChunks :
             parts'[RunDir(j)][n] = IF n = chunk[j] + 1 THEN j ELSE parts[RunDir(j)][n]
      BY <2>1 DEF WriteChunk, TypeInv, TrainTypeOK
    <3>5. \A n \in 1..NChunks : n <= chunk'[j] => parts'[RunDir(j)][n] = j
      BY <3>2, <3>3, <3>4, PipelineAssumption
    <3>6. QED
      BY <3>1, <3>5 DEF FeedInv, RunDir, BeforeFeed, BeforeFiles, AfterFiles, Modelled
  <2>2. CASE QualityGate(j)
    BY <2>2 DEF QualityGate, Move, Goto, locals, FeedInv, RunDir, TypeInv, TrainTypeOK,
       BeforeFeed, BeforeFiles, AfterFiles, Modelled
  <2>3. CASE Cluster(j)
    <3>1. PICK label \in {"features", "failed"} :
             /\ pc[j] = "cluster" /\ pc' = [pc EXCEPT ![j] = label]
             /\ label = "features" => assigned' = [assigned EXCEPT ![RunDir(j)] = parts[RunDir(j)]]
      BY <2>3 DEF Cluster, Move, Goto
    <3>2. UNCHANGED <<chunk, parts, trained>>
      BY <2>3 DEF Cluster, locals
    <3>3. QED
      BY <3>1, <3>2 DEF FeedInv, RunDir, TypeInv, TrainTypeOK,
         BeforeFeed, BeforeFiles, AfterFiles, Modelled
  <2>4. CASE Features(j)
    <3>1. pc[j] = "features" /\ pc' = [pc EXCEPT ![j] = "train"]
      BY <2>4 DEF Features, Move, Goto
    <3>2. \A n \in 1..NChunks : parts[RunDir(j)][n] = j /\ assigned[RunDir(j)][n] = j
      <4>1. chunk[j] = NChunks /\ NChunks \in Nat
        BY <3>1, PipelineAssumption DEF TypeInv, ControlInv
      <4>2. QED
        BY <3>1, <4>1 DEF FeedInv, BeforeFiles
    <3>3. trained'[j] = [n \in 1..NChunks |-> j]
      BY <2>4, <3>2 DEF Features, TypeInv, TrainTypeOK
    <3>4. QED
      BY <3>1, <3>3 DEF FeedInv, TypeInv, TrainTypeOK, BeforeFeed, BeforeFiles, AfterFiles, Modelled
  <2>5. CASE Start(j) \/ ReadPointer(j) \/ ReadPrevMetrics(j)
    <3>1. UNCHANGED <<chunk, parts, trained, assigned>>
      BY <2>5 DEF Start, ReadPointer, ReadPrevMetrics, locals
    <3>2. pc[j] \in BeforeFeed /\ pc'[j] \in BeforeFeed
      BY <2>5 DEF Start, ReadPointer, ReadPrevMetrics, Move, Goto, TypeInv, TrainTypeOK, BeforeFeed
    <3>3. QED
      BY <3>1, <3>2 DEF FeedInv, RunDir, BeforeFeed, BeforeFiles, AfterFiles, Modelled
  <2>6. CASE Train(j) \/ OpenFile(j) \/ CloseFile(j) \/ Gate(j) \/ Cleanup(j)
             \/ OpenPointer(j) \/ WritePointer(j)
    <3>1. trained' = trained
      BY <2>6 DEF Train, OpenFile, CloseFile, Gate, Cleanup, OpenPointer, WritePointer, locals
    <3>2. pc[j] \in Modelled
      BY <2>6 DEF Train, OpenFile, CloseFile, Gate, Cleanup, OpenPointer, WritePointer, Move,
         Modelled, AfterFiles
    <3>3. pc'[j] \in (Modelled \ {"train"}) \cup {"failed"}
      BY <2>6 DEF Train, OpenFile, CloseFile, AfterFile, Gate, Cleanup, OpenPointer, WritePointer,
         Move, Goto, Modelled, AfterFiles, TypeInv, TrainTypeOK
    <3>4. QED
      BY <3>1, <3>2, <3>3 DEF FeedInv, BeforeFeed, BeforeFiles, AfterFiles, Modelled
  <2>7. CASE Crash(j)
    BY <2>7 DEF Crash, Goto, FeedInv, TypeInv, TrainTypeOK, BeforeFeed, BeforeFiles, AfterFiles, Modelled
  <2>8. QED
    BY <2>1, <2>2, <2>3, <2>4, <2>5, <2>6, <2>7 DEF JobStep, Step
<1>3. QED
  BY <1>1, <1>2

(***************************************************************************)
(* A promoted job takes no step; the pointer and the history name only     *)
(* promoted jobs.                                                          *)
(***************************************************************************)
LEMMA PromotedIsOver ==
    ASSUME TypeInv, NEW j \in Jobs, JobStep(j)
    PROVE  pc[j] # "promoted"
BY DEF JobStep, Step, Start, Crash, Active, Ended, ReadPointer, ReadPrevMetrics, WriteChunk,
   QualityGate, Cluster, Features, Train, OpenFile, CloseFile, Gate, Cleanup, OpenPointer,
   WritePointer, Move

LEMMA PromotedStays ==
    ASSUME TypeInv, DistinctRunIds, NEW j \in Jobs, JobStep(j), NEW k \in Jobs, pc[k] = "promoted"
    PROVE  pc'[k] = "promoted" /\ k # j
BY OthersUntouched, PromotedIsOver

LEMMA PointerStep ==
    ASSUME TypeInv, DistinctRunIds, NEW j \in Jobs, JobStep(j), PointerInv
    PROVE  PointerInv'
<1> USE RunDirType, RegistryAssumption
<1>1. CASE WritePointer(j)
  <2>1. /\ pointer' = RunDir(j)
        /\ pc'[j] = "promoted"
        /\ promotions' = Append(promotions, j)
        /\ promotions \in Seq(Jobs)
    BY <1>1 DEF WritePointer, Move, Goto, TypeInv, TrainTypeOK
  <2>2. ASSUME NEW i \in 1..Len(promotions') PROVE pc'[promotions'[i]] = "promoted"
    <3>1. CASE i = Len(promotions) + 1
      BY <2>1, <3>1
    <3>2. CASE i \in 1..Len(promotions)
      <4>1. promotions'[i] = promotions[i] /\ promotions[i] \in Jobs
        BY <2>1, <3>2
      <4>2. QED
        BY <3>2, <4>1, PromotedStays DEF PointerInv
    <3>3. QED
      BY <2>1, <3>1, <3>2
  <2>3. \E k \in Jobs : RunDir(k) = pointer' /\ pc'[k] = "promoted"
    BY <2>1
  <2>4. QED
    BY <2>2, <2>3 DEF PointerInv, RunDir
<1>2. CASE ~WritePointer(j)
  <2>1. promotions' = promotions
    BY <1>2 DEF JobStep, Step, Start, Crash, ReadPointer, ReadPrevMetrics, WriteChunk,
       QualityGate, Cluster, Features, Train, OpenFile, CloseFile, Gate, Cleanup, OpenPointer
  <2>2. pointer' = pointer \/ pointer' = TornPointer
    BY <1>2 DEF JobStep, Step, Start, Crash, ReadPointer, ReadPrevMetrics, WriteChunk,
       QualityGate, Cluster, Features, Train, OpenFile, CloseFile, Gate, Cleanup, OpenPointer
  <2>3. ASSUME NEW i \in 1..Len(promotions) PROVE pc'[promotions[i]] = "promoted"
    <3>1. promotions[i] \in Jobs
      BY DEF TypeInv, TrainTypeOK
    <3>2. QED
      BY <3>1, PromotedStays DEF PointerInv
  <2>4. PointsAtRun' => \E k \in Jobs : RunDir(k) = pointer' /\ pc'[k] = "promoted"
    BY <2>2, PromotedStays DEF PointerInv, PointsAtRun
  <2>5. QED
    BY <2>1, <2>3, <2>4 DEF PointerInv, RunDir
<1>3. QED
  BY <1>1, <1>2

(***************************************************************************)
(* The invariant as a whole.                                               *)
(***************************************************************************)
LEMMA InvInit == TrainInit => TrainInv
<1> SUFFICES ASSUME TrainInit PROVE TrainInv
  OBVIOUS
<1>1. TypeInv
  BY TypeInit
<1>2. ASSUME NEW j \in Jobs PROVE FilesInv(j) /\ FeedInv(j)
  BY PipelineAssumption DEF TrainInit, FilesInv, FeedInv, NFiles, BeforeFeed, BeforeFiles,
     AfterFiles, Modelled
<1>3. PointerInv
  BY RegistryAssumption DEF TrainInit, RegistryInit, PointerInv, PointsAtRun
<1>4. QED
  BY <1>1, <1>2, <1>3 DEF TypeInv, TrainInv

LEMMA InvStep == TrainInv /\ DistinctRunIds /\ [TrainNext]_trainVars => TrainInv'
<1> SUFFICES ASSUME TrainInv, DistinctRunIds, [TrainNext]_trainVars PROVE TrainInv'
  OBVIOUS
<1>1. TypeInv /\ TypeInv'
  BY TypeStep DEF TrainInv, TypeInv
<1>2. CASE UNCHANGED trainVars
  <2>1. ASSUME NEW k \in Jobs PROVE FilesInv(k)' /\ FeedInv(k)'
    BY <1>2 DEF TrainInv, trainVars, locals, FilesInv, FeedInv, RunDir,
       BeforeFeed, BeforeFiles, AfterFiles, Modelled
  <2>2. PointerInv'
    BY <1>2 DEF TrainInv, trainVars, PointerInv, PointsAtRun, RunDir
  <2>3. QED
    BY <1>1, <2>1, <2>2 DEF TrainInv, TypeInv
<1>3. CASE TrainNext
  <2>1. PICK j \in Jobs : JobStep(j)
    BY <1>3 DEF TrainNext, JobStep
  <2>2. \A k \in Jobs : FilesInv(k)'
    BY <1>1, <2>1, FilesStep DEF TrainInv
  <2>3. \A k \in Jobs : FeedInv(k)'
    BY <1>1, <2>1, FeedStep DEF TrainInv
  <2>4. PointerInv'
    BY <1>1, <2>1, PointerStep DEF TrainInv
  <2>5. QED
    BY <1>1, <2>2, <2>3, <2>4 DEF TrainInv, TypeInv
<1>4. QED
  BY <1>2, <1>3

\* The inductive invariant holds in every behaviour of jobs with distinct run ids.
THEOREM TrainInvariant == DistinctRunIds => (TrainSpec => []TrainInv)
<1> SUFFICES ASSUME DistinctRunIds PROVE TrainSpec => []TrainInv
  OBVIOUS
<1>1. TrainInv /\ [TrainNext]_trainVars => TrainInv'
  BY InvStep
<1>2. QED
  BY InvInit, <1>1, PTL DEF TrainSpec

\* Whatever latest.json names is a run whose seven files one job wrote to the end,
\* for any number of overlapping and crashing jobs that have distinct run ids.
THEOREM PointerNamesCompleteRun == DistinctRunIds => (TrainSpec => []PromotedRunComplete)
<1>1. TrainInv => PromotedRunComplete
  <2> SUFFICES ASSUME TrainInv, PointsAtRun PROVE PromotedRunComplete
    BY DEF PromotedRunComplete
  <2>1. PICK j \in Jobs : RunDir(j) = pointer /\ pc[j] = "promoted"
    BY DEF TrainInv, PointerInv
  <2>2. file[j] = NFiles + 1
    BY <2>1 DEF TrainInv, ControlInv, AfterFiles
  <2>3. \A k \in 1..NFiles : disk[RunDir(j)][WriteOrder[k]] = Done(j)
    BY <2>2 DEF TrainInv, FilesInv, NFiles
  <2>4. Complete(pointer, j)
    BY <2>1, <2>3 DEF Complete, Files
  <2>5. QED
    BY <2>1, <2>4 DEF PromotedRunComplete
<1>2. QED
  BY TrainInvariant, <1>1, PTL

\* Every promoted run passed the quality gate and was trained on its own feed only.
THEOREM PromotedRunIsItsFeeds == DistinctRunIds => (TrainSpec => []PromotedRunTrainedOnOwnFeed)
<1>1. TrainInv => PromotedRunTrainedOnOwnFeed
  <2> SUFFICES ASSUME TrainInv, NEW i \in 1..Len(promotions)
               PROVE  /\ promotions[i] \notin BadFeeds
                      /\ trained[promotions[i]] = [n \in 1..NChunks |-> promotions[i]]
    BY DEF PromotedRunTrainedOnOwnFeed
  <2>1. promotions[i] \in Jobs /\ pc[promotions[i]] = "promoted"
    BY DEF TrainInv, TrainTypeOK, PointerInv
  <2>2. QED
    BY <2>1 DEF TrainInv, FeedInv, Modelled, AfterFiles
<1>2. QED
  BY TrainInvariant, <1>1, PTL

\* No step of any job changes a file of a run that was ever promoted.
THEOREM PromotedRunsNeverChange == DistinctRunIds => (TrainSpec => PromotedRunImmutable)
<1> SUFFICES ASSUME DistinctRunIds PROVE TrainSpec => PromotedRunImmutable
  OBVIOUS
<1>1. TrainInv /\ [TrainNext]_trainVars =>
        [\A i \in 1..Len(promotions) :
            LET id == RunDir(promotions[i]) IN disk'[id] = disk[id]]_trainVars
  <2> SUFFICES ASSUME TrainInv, TrainNext, NEW i \in 1..Len(promotions)
               PROVE  disk'[RunDir(promotions[i])] = disk[RunDir(promotions[i])]
    OBVIOUS
  <2>1. PICK j \in Jobs : JobStep(j)
    BY DEF TrainNext, JobStep
  <2>2. TypeInv
    BY DEF TrainInv, TypeInv
  <2>3. promotions[i] \in Jobs /\ pc[promotions[i]] = "promoted"
    BY DEF TrainInv, TrainTypeOK, PointerInv
  <2>4. QED
    BY <2>1, <2>2, <2>3, PromotedIsOver, OthersUntouched
<1>2. QED
  BY TrainInvariant, <1>1, PTL DEF TrainSpec, PromotedRunImmutable

(***************************************************************************)
(* The promotion gate does what config/settings.py says of it as long as   *)
(* jobs neither overlap nor crash.  Both hypotheses are needed: the run    *)
(* train_overlap_regression breaks it with jobs that overlap, and a job    *)
(* killed inside its write of latest.json leaves the next one no baseline. *)
(*                                                                         *)
(* A step of a job is a start, with nobody else active, or a step of the   *)
(* one active job; it leaves the gate's inputs of every other job alone.   *)
(***************************************************************************)
Scheduled == Serial /\ MayCrash = {}

LEMMA OneJobMoves ==
    ASSUME Scheduled, SerialInv, NEW j \in Jobs, JobStep(j), NEW k \in Jobs, k # j
    PROVE  ~Active(k)
<1>1. CASE Start(j)
  BY <1>1 DEF Start, Scheduled
<1>2. CASE Step(j) \/ Crash(j)
  <2>1. Active(j)
    BY <1>2 DEF Step, Crash, ReadPointer, ReadPrevMetrics, WriteChunk, QualityGate, Cluster,
       Features, Train, OpenFile, CloseFile, Gate, Cleanup, OpenPointer, WritePointer, Move,
       Active, Ended
  <2>2. QED
    BY <2>1 DEF SerialInv
<1>3. QED
  BY <1>1, <1>2 DEF JobStep

LEMMA GateInputsUntouched ==
    ASSUME TypeInv, NEW j \in Jobs, JobStep(j), NEW k \in Jobs, k # j
    PROVE  /\ baseline'[k] = baseline[k]
           /\ target'[k] = target[k]
           /\ verdict'[k] = verdict[k]
BY DEF JobStep, Step, Start, Crash, ReadPointer, ReadPrevMetrics, WriteChunk, QualityGate,
   Cluster, Features, Train, OpenFile, CloseFile, Gate, Cleanup, OpenPointer, WritePointer,
   locals, TypeInv, TrainTypeOK

LEMMA OthersGateInv ==
    ASSUME Scheduled, TrainInv, DistinctRunIds, SerialInv,
           NEW j \in Jobs, JobStep(j), NEW k \in Jobs, k # j
    PROVE  GateInv(k)' /\ ~Active(k)'
<1>1. TypeInv
  BY DEF TrainInv, TypeInv
<1>2. /\ pc'[k] = pc[k] /\ mae'[k] = mae[k] /\ baseline'[k] = baseline[k]
      /\ target'[k] = target[k] /\ verdict'[k] = verdict[k]
  BY <1>1, OthersUntouched, GateInputsUntouched
<1>3. ~Active(k)
  BY OneJobMoves
<1>4. ~Active(k)' /\ Cleared(k)' = Cleared(k)
  BY <1>2, <1>3 DEF Active, Ended, Cleared, GateBypassed, WithinTolerance
<1>5. GateInv(k)
  BY DEF SerialInv
<1>6. pc[k] \notin {"metrics", "publish", "publishing"}
  BY <1>3 DEF Active, Ended
<1>7. QED
  BY <1>2, <1>4, <1>5, <1>6 DEF GateInv, Modelled, BeforeFiles, BeforeFeed, AfterFiles

(***************************************************************************)
(* The run that latest.json names is the last one promoted, and its        *)
(* metrics are on disk.                                                    *)
(***************************************************************************)
LEMMA NewestIsComplete ==
    ASSUME TrainInv, promotions # << >>
    PROVE  /\ Newest \in Jobs
           /\ pc[Newest] = "promoted"
           /\ disk[RunDir(Newest)]["metrics"] = Done(Newest)
<1>1. Len(promotions) \in 1..Len(promotions) /\ promotions \in Seq(Jobs)
  BY DEF TrainInv, TrainTypeOK
<1>2. Newest \in Jobs /\ pc[Newest] = "promoted"
  BY <1>1 DEF Newest, TrainInv, PointerInv
<1>3. file[Newest] = NFiles + 1
  BY <1>2 DEF TrainInv, ControlInv, AfterFiles
<1>4. disk[RunDir(Newest)][WriteOrder[7]] = Done(Newest)
  BY <1>2, <1>3 DEF TrainInv, FilesInv, NFiles
<1>5. WriteOrder[7] = "metrics"
  BY DEF WriteOrder
<1>6. QED
  BY <1>2, <1>4, <1>5

(***************************************************************************)
(* Before the pointer is written, the history is what it was.              *)
(***************************************************************************)
LEMMA MoverGateInv ==
    ASSUME Scheduled, TrainInv, TrainInv', DistinctRunIds, SerialInv,
           NEW j \in Jobs, JobStep(j), ~WritePointer(j)
    PROVE  GateInv(j)'
<1> USE RegistryAssumption, PipelineAssumption
<1>1. GateInv(j) /\ TrainTypeOK /\ TrainTypeOK'
  BY DEF SerialInv, TrainInv
<1>2. promotions' = promotions
  BY DEF JobStep, Step, Start, Crash, ReadPointer, ReadPrevMetrics, WriteChunk, QualityGate,
     Cluster, Features, Train, OpenFile, CloseFile, Gate, Cleanup, OpenPointer
<1>3. promotions # << >> => pc[Newest] = "promoted" /\ Newest \in Jobs /\ mae[Newest] \in MaeValues
  <2> SUFFICES ASSUME promotions # << >>
               PROVE  pc[Newest] = "promoted" /\ Newest \in Jobs /\ mae[Newest] \in MaeValues
    OBVIOUS
  <2>1. pc[Newest] = "promoted" /\ Newest \in Jobs
    BY NewestIsComplete
  <2>2. QED
    BY <2>1 DEF SerialInv, GateInv, Modelled, AfterFiles
<1>4. promotions # << >> => Newest' = Newest /\ mae'[Newest] = mae[Newest]
  <2>1. TypeInv
    BY DEF TrainInv, TypeInv
  <2>2. QED
    BY <1>2, <1>3, <2>1, PromotedIsOver, OthersUntouched DEF Newest
<1>5. CASE Start(j)
  <2>1. pc[j] = "idle" /\ pc'[j] = "pointer" /\ UNCHANGED <<baseline, verdict>>
    BY <1>1, <1>5 DEF Start, Move, Goto, locals, TrainTypeOK
  <2>2. QED
    BY <1>1, <2>1 DEF GateInv, Modelled, BeforeFiles, BeforeFeed, AfterFiles
<1>6. CASE ReadPointer(j)
  <2>1. pc[j] = "pointer" /\ UNCHANGED <<baseline, verdict>>
    BY <1>6 DEF ReadPointer, Move
  <2>2. pointer = IF promotions = << >> THEN NoPointer ELSE RunDir(Newest)
    <3>1. Active(j)
      BY <2>1 DEF Active, Ended
    <3>2. \A k \in Jobs : pc[k] # "publishing"
      BY <2>1, <3>1 DEF SerialInv, Active, Ended
    <3>3. QED
      BY <3>2 DEF SerialInv
  <2>3. CASE promotions = << >>
    <3>1. pc'[j] = "ingest"
      BY <1>1, <1>6, <2>2, <2>3 DEF ReadPointer, Move, Goto, PointsAtRun, TrainTypeOK
    <3>2. QED
      BY <1>1, <1>2, <2>1, <2>3, <3>1 DEF GateInv, Modelled, BeforeFiles, BeforeFeed, AfterFiles
  <2>4. CASE promotions # << >>
    <3>1. pc'[j] = "metrics" /\ target'[j] = RunDir(Newest)
      BY <1>1, <1>3, <1>6, <2>2, <2>4, RunDirType
         DEF ReadPointer, Move, Goto, PointsAtRun, TrainTypeOK
    <3>2. RunDir(Newest)' = RunDir(Newest)
      BY <1>4, <2>4 DEF RunDir
    <3>3. QED
      BY <1>1, <1>2, <2>1, <2>4, <3>1, <3>2
         DEF GateInv, Modelled, BeforeFiles, BeforeFeed, AfterFiles
  <2>5. QED
    BY <2>3, <2>4
<1>7. CASE ReadPrevMetrics(j)
  <2>1. pc[j] = "metrics" /\ pc'[j] = "ingest" /\ verdict' = verdict
    BY <1>1, <1>7 DEF ReadPrevMetrics, Move, Goto, TrainTypeOK
  <2>2. promotions # << >> /\ target[j] = RunDir(Newest)
    BY <1>1, <2>1 DEF GateInv
  <2>3. disk[target[j]]["metrics"] = Done(Newest)
    BY <2>2, NewestIsComplete
  <2>4. baseline'[j] = mae[Newest]
    BY <1>1, <1>7, <2>3 DEF ReadPrevMetrics, Readable, Done, TrainTypeOK
  <2>5. QED
    BY <1>1, <1>2, <1>4, <2>1, <2>2, <2>4
       DEF GateInv, Modelled, BeforeFiles, BeforeFeed, AfterFiles
<1>8. CASE WriteChunk(j) \/ QualityGate(j) \/ Cluster(j) \/ Features(j)
  <2>1. UNCHANGED <<baseline, verdict>>
    BY <1>8 DEF WriteChunk, QualityGate, Cluster, Features, locals
  <2>2. /\ pc[j] \in BeforeFiles \ {"idle", "pointer", "metrics"}
        /\ pc'[j] \in (BeforeFiles \ {"idle", "pointer", "metrics"}) \cup {"failed"}
    BY <1>1, <1>8 DEF WriteChunk, QualityGate, Cluster, Features, Move, Goto, TrainTypeOK,
       BeforeFiles, BeforeFeed
  <2>3. QED
    BY <1>1, <1>2, <1>4, <2>1, <2>2
       DEF GateInv, Modelled, BeforeFiles, BeforeFeed, AfterFiles, Active, Ended
<1>9. CASE Train(j)
  <2>1. UNCHANGED <<baseline, verdict>> /\ pc[j] = "train"
    BY <1>9 DEF Train, Move
  <2>2. \/ pc'[j] = "failed"
        \/ pc'[j] = "write" /\ mae'[j] \in MaeValues
    BY <1>1, <1>9 DEF Train, Move, Goto, TrainTypeOK
  <2>3. verdict[j] # "promote"
    BY <1>1, <2>1 DEF GateInv, BeforeFiles
  <2>4. QED
    BY <1>1, <1>2, <1>4, <2>1, <2>2, <2>3
       DEF GateInv, Modelled, BeforeFiles, BeforeFeed, AfterFiles, Active, Ended
<1>10. CASE OpenFile(j) \/ CloseFile(j) \/ OpenPointer(j) \/ Cleanup(j)
  <2>1. UNCHANGED <<baseline, verdict, mae>>
    BY <1>10 DEF OpenFile, CloseFile, OpenPointer, Cleanup, locals
  <2>2. /\ pc[j] \in {"write", "writing", "cleanup", "publish"}
        /\ pc'[j] \in {"write", "writing", "gate", "cleanup", "publish", "publishing", "rejected"}
        /\ pc'[j] \in {"publish", "publishing"} => verdict[j] = "promote"
    BY <1>1, <1>10 DEF OpenFile, CloseFile, AfterFile, OpenPointer, Cleanup, Move, Goto,
       TrainTypeOK, GateInv
  <2>3. Cleared(j)' = Cleared(j)
    BY <2>1 DEF Cleared, GateBypassed, WithinTolerance
  <2>4. QED
    BY <1>1, <1>2, <1>4, <2>1, <2>2, <2>3
       DEF GateInv, Modelled, BeforeFiles, BeforeFeed, AfterFiles, Active, Ended
<1>11. CASE Gate(j)
  <2>1. /\ UNCHANGED <<baseline, mae>> /\ pc[j] = "gate" /\ pc'[j] \in {"write", "failed"}
        /\ verdict'[j] = GateVerdict(j)
    BY <1>1, <1>11 DEF Gate, Move, Goto, TrainTypeOK
  <2>2. GateVerdict(j) = "promote" => Cleared(j)
    BY DEF GateVerdict, Cleared
  <2>3. Cleared(j)' = Cleared(j)
    BY <2>1 DEF Cleared, GateBypassed, WithinTolerance
  <2>4. QED
    BY <1>1, <1>2, <1>4, <2>1, <2>2, <2>3
       DEF GateInv, Modelled, BeforeFiles, BeforeFeed, AfterFiles, Active, Ended
<1>12. QED
  BY <1>5, <1>6, <1>7, <1>8, <1>9, <1>10, <1>11 DEF JobStep, Step, Crash, Scheduled

(***************************************************************************)
(* At most one job is active after the step, too.                          *)
(***************************************************************************)
LEMMA AtMostOneActive ==
    ASSUME Scheduled, TrainInv, DistinctRunIds, SerialInv, NEW j \in Jobs, JobStep(j)
    PROVE  \A k, m \in Jobs : Active(k)' /\ Active(m)' => k = m
BY OthersGateInv

(***************************************************************************)
(* Publishing extends the history by a run that cleared the run before it. *)
(***************************************************************************)
LEMMA PublishStep ==
    ASSUME Scheduled, TrainInv, TrainInv', DistinctRunIds, SerialInv,
           NEW j \in Jobs, WritePointer(j)
    PROVE  SerialInv'
<1> USE RegistryAssumption, PipelineAssumption
<1> DEFINE n == Len(promotions)
<1>1. /\ pc[j] = "publishing" /\ pc'[j] = "promoted"
      /\ pointer' = RunDir(j)
      /\ promotions' = Append(promotions, j)
      /\ UNCHANGED <<mae, baseline, verdict>>
  BY DEF WritePointer, Move, Goto, locals, TrainInv, TrainTypeOK
<1>2. promotions \in Seq(Jobs) /\ n \in Nat
  BY DEF TrainInv, TrainTypeOK
<1>3. /\ promotions' # << >> /\ Len(promotions') = n + 1 /\ promotions'[n + 1] = j
      /\ \A i \in 1..n : promotions'[i] = promotions[i]
  BY <1>1, <1>2
<1>4. Newest' = j
  BY <1>3 DEF Newest
<1>5. JobStep(j)
  BY DEF JobStep, Step
<1>6. GateInv(j) /\ GateInv(j)'
  <2>1. GateInv(j)
    BY DEF SerialInv
  <2>2. Cleared(j)' = Cleared(j)
    BY <1>1 DEF Cleared, GateBypassed, WithinTolerance
  <2>3. QED
    BY <1>1, <2>1, <2>2 DEF GateInv, Active, Ended, Modelled, BeforeFiles, BeforeFeed, AfterFiles
<1>7. \A k \in Jobs : GateInv(k)'
  BY <1>5, <1>6, OthersGateInv
<1>8. pointer' = RunDir(Newest')
  BY <1>1, <1>4
<1>9. ASSUME RequireGate, n >= 1
      PROVE  j \in ForcedJobs \/ WithinTolerance(mae[j], mae[promotions[n]])
  <2>1. verdict[j] = "promote" /\ Cleared(j)
    BY <1>1, <1>6 DEF GateInv
  <2>2. promotions # << >> /\ Newest = promotions[n]
    BY <1>2, <1>9 DEF Newest
  <2>3. baseline[j] = mae[Newest]
    BY <1>1, <1>6, <2>2 DEF GateInv, Active, Ended
  <2>4. mae[Newest] \in MaeValues
    BY <2>2, NewestIsComplete DEF SerialInv, GateInv, Modelled, AfterFiles
  <2>5. QED
    BY <1>9, <2>1, <2>2, <2>3, <2>4 DEF Cleared, GateBypassed
<1>10. NeverPromotesRegression'
  <2> SUFFICES ASSUME RequireGate, NEW i \in 2..(n + 1)
               PROVE  \/ promotions'[i] \in ForcedJobs
                      \/ WithinTolerance(mae[promotions'[i]], mae[promotions'[i - 1]])
    BY <1>1, <1>3 DEF NeverPromotesRegression, WithinTolerance
  <2>1. CASE i = n + 1
    BY <1>2, <1>3, <1>9, <2>1
  <2>2. CASE i \in 2..n
    <3>1. promotions'[i] = promotions[i] /\ promotions'[i - 1] = promotions[i - 1]
      BY <1>2, <1>3, <2>2
    <3>2. QED
      BY <2>2, <3>1 DEF SerialInv, NeverPromotesRegression
  <2>3. QED
    BY <1>2, <2>1, <2>2
<1>11. QED
  BY <1>3, <1>5, <1>7, <1>8, <1>10, AtMostOneActive DEF SerialInv, RunDir

(***************************************************************************)
(* Every other step leaves the history alone, and latest.json until it is  *)
(* truncated.                                                              *)
(***************************************************************************)
LEMMA WorkStep ==
    ASSUME Scheduled, TrainInv, TrainInv', DistinctRunIds, SerialInv,
           NEW j \in Jobs, JobStep(j), ~WritePointer(j)
    PROVE  SerialInv'
<1>1. promotions' = promotions
  BY DEF JobStep, Step, Start, Crash, ReadPointer, ReadPrevMetrics, WriteChunk, QualityGate,
     Cluster, Features, Train, OpenFile, CloseFile, Gate, Cleanup, OpenPointer
<1>2. \A k \in Jobs : GateInv(k)'
  BY MoverGateInv, OthersGateInv
<1>3. TypeInv
  BY DEF TrainInv, TypeInv
<1>4. ASSUME NEW k \in Jobs, pc[k] = "promoted" PROVE mae'[k] = mae[k]
  BY <1>3, <1>4, PromotedIsOver, OthersUntouched
<1>5. NeverPromotesRegression'
  <2> SUFFICES ASSUME RequireGate, NEW i \in 2..Len(promotions)
               PROVE  \/ promotions[i] \in ForcedJobs
                      \/ WithinTolerance(mae'[promotions[i]], mae'[promotions[i - 1]])
    BY <1>1 DEF NeverPromotesRegression, WithinTolerance
  <2>1. i \in 1..Len(promotions) /\ i - 1 \in 1..Len(promotions)
    BY DEF TrainInv, TrainTypeOK
  <2>2. promotions[i] \in Jobs /\ promotions[i - 1] \in Jobs
    BY <2>1 DEF TrainInv, TrainTypeOK
  <2>3. mae'[promotions[i]] = mae[promotions[i]] /\ mae'[promotions[i - 1]] = mae[promotions[i - 1]]
    BY <1>4, <2>1, <2>2 DEF TrainInv, PointerInv
  <2>4. QED
    BY <2>3 DEF SerialInv, NeverPromotesRegression
<1>6. (\A k \in Jobs : pc'[k] # "publishing") =>
         pointer' = IF promotions' = << >> THEN NoPointer ELSE RunDir(Newest')
  <2> SUFFICES ASSUME \A k \in Jobs : pc'[k] # "publishing"
               PROVE  pointer' = IF promotions = << >> THEN NoPointer ELSE RunDir(Newest)
    BY <1>1 DEF Newest, RunDir
  <2>1. ~OpenPointer(j)
    BY <1>3 DEF OpenPointer, Move, Goto, TypeInv, TrainTypeOK
  <2>2. pc[j] # "publishing" /\ pointer' = pointer
    BY <2>1 DEF JobStep, Step, Start, Crash, ReadPointer, ReadPrevMetrics, WriteChunk,
       QualityGate, Cluster, Features, Train, OpenFile, CloseFile, Gate, Cleanup, Move, Scheduled
  <2>3. \A k \in Jobs : pc[k] # "publishing"
    BY <1>3, <2>2, OthersUntouched
  <2>4. QED
    BY <2>2, <2>3 DEF SerialInv
<1>7. QED
  BY <1>2, <1>5, <1>6, AtMostOneActive DEF SerialInv, RunDir

LEMMA SerialInit == TrainInit => SerialInv
BY PipelineAssumption, RegistryAssumption
   DEF TrainInit, RegistryInit, SerialInv, GateInv, Active, Ended, NeverPromotesRegression,
       Modelled, BeforeFiles, BeforeFeed, AfterFiles

LEMMA SerialStep ==
    ASSUME Scheduled, DistinctRunIds, TrainInv, TrainInv', SerialInv, [TrainNext]_trainVars
    PROVE  SerialInv'
<1>1. CASE UNCHANGED trainVars
  <2>1. UNCHANGED <<pc, target, baseline, mae, verdict, pointer, promotions>>
    BY <1>1 DEF trainVars, locals
  <2>2. \A k \in Jobs : GateInv(k)' /\ Active(k)' = Active(k)
    BY <2>1 DEF SerialInv, GateInv, Cleared, GateBypassed, WithinTolerance, Active, Ended,
       Newest, RunDir, Modelled, BeforeFiles, BeforeFeed, AfterFiles
  <2>3. NeverPromotesRegression'
    BY <2>1 DEF SerialInv, NeverPromotesRegression, WithinTolerance
  <2>4. QED
    BY <2>1, <2>2, <2>3 DEF SerialInv, Newest, RunDir
<1>2. CASE TrainNext
  <2>1. PICK j \in Jobs : JobStep(j)
    BY <1>2 DEF TrainNext, JobStep
  <2>2. QED
    BY <2>1, PublishStep, WorkStep
<1>3. QED
  BY <1>1, <1>2

\* When jobs neither overlap nor crash and have distinct run ids, no run is ever
\* promoted over a better one than the tolerance allows, unless forced.
THEOREM GateNeverPromotesRegression ==
    Scheduled /\ DistinctRunIds => (TrainSpec => []NeverPromotesRegression)
<1> SUFFICES ASSUME Scheduled, DistinctRunIds PROVE TrainSpec => []NeverPromotesRegression
  OBVIOUS
<1>1. TrainInv /\ TrainInv' /\ SerialInv /\ [TrainNext]_trainVars => SerialInv'
  BY SerialStep
<1>2. SerialInv => NeverPromotesRegression
  BY DEF SerialInv
<1>3. TrainSpec => []TrainInv
  BY TrainInvariant
<1>4. QED
  BY SerialInit, <1>1, <1>2, <1>3, PTL DEF TrainSpec

(***************************************************************************)
(* What the gate compares with, whichever jobs overlap and whichever are   *)
(* killed.  A job that found a published run keeps its error, as that job  *)
(* is over and its metrics are on disk.                                    *)
(***************************************************************************)
LEMMA MetricsOfPublished ==
    ASSUME TrainInv, NEW k \in Jobs, pc[k] = "promoted"
    PROVE  disk[RunDir(k)]["metrics"] = Done(k)
<1>1. file[k] = NFiles + 1
  BY DEF TrainInv, ControlInv, AfterFiles
<1>2. disk[RunDir(k)][WriteOrder[7]] = Done(k)
  BY <1>1 DEF TrainInv, FilesInv, NFiles
<1>3. QED
  BY <1>2 DEF WriteOrder

\* A job that is over stays as it is.
LEMMA StillReplaces ==
    ASSUME TrainInv, DistinctRunIds, NEW j \in Jobs, JobStep(j),
           NEW m \in Jobs, NEW k \in Jobs, Replaces(m, k),
           target'[m] = target[m], baseline'[m] = baseline[m],
           pc[m] \in {"metrics", "failed"} => pc'[m] \in {"metrics", "failed"}
    PROVE  Replaces(m, k)'
<1>1. TypeInv
  BY DEF TrainInv, TypeInv
<1>2. pc[k] = "promoted"
  BY DEF Replaces
<1>3. pc'[k] = pc[k] /\ mae'[k] = mae[k]
  BY <1>1, <1>2, PromotedIsOver, OthersUntouched
<1>4. QED
  BY <1>3 DEF Replaces, RunDir

LEMMA OthersBaselineInv ==
    ASSUME TrainInv, DistinctRunIds, BaselinesInv,
           NEW j \in Jobs, JobStep(j), NEW m \in Jobs, m # j
    PROVE  BaselineInv(m)'
<1>1. TypeInv /\ BaselineInv(m)
  BY DEF TrainInv, TypeInv, BaselinesInv
<1>2. /\ pc'[m] = pc[m] /\ mae'[m] = mae[m] /\ baseline'[m] = baseline[m]
      /\ target'[m] = target[m] /\ verdict'[m] = verdict[m]
  BY <1>1, OthersUntouched, GateInputsUntouched
<1>3. target'[m] # NoPointer => \E k \in Jobs : Replaces(m, k)'
  <2> SUFFICES ASSUME target'[m] # NoPointer PROVE \E k \in Jobs : Replaces(m, k)'
    OBVIOUS
  <2>1. PICK k \in Jobs : Replaces(m, k)
    BY <1>1, <1>2 DEF BaselineInv
  <2>2. QED
    BY <1>2, <2>1, StillReplaces
<1>4. Cleared(m)' = Cleared(m)
  BY <1>2 DEF Cleared, GateBypassed, WithinTolerance
<1>5. QED
  BY <1>1, <1>2, <1>3, <1>4 DEF BaselineInv

\* A step that neither reads nor decides moves the job on with what it holds.
LEMMA MovesOn ==
    ASSUME TrainInv, DistinctRunIds, BaselinesInv, NEW j \in Jobs, JobStep(j),
           UNCHANGED <<target, baseline, mae, verdict>>,
           pc[j] # "promoted", pc[j] # "metrics" \/ pc'[j] = "failed",
           pc'[j] \in {"idle", "pointer"} => pc[j] \in {"idle", "pointer"},
           pc'[j] \in Modelled \ {"train"} => pc[j] \in Modelled \ {"train"},
           pc'[j] \in BeforeFiles => pc[j] \in BeforeFiles,
           pc'[j] \in {"publish", "publishing", "promoted"} => verdict[j] = "promote"
    PROVE  BaselineInv(j)'
<1>1. BaselineInv(j)
  BY DEF BaselinesInv
<1>2. target'[j] # NoPointer => \E k \in Jobs : Replaces(j, k)'
  <2> SUFFICES ASSUME target'[j] # NoPointer PROVE \E k \in Jobs : Replaces(j, k)'
    OBVIOUS
  <2>1. PICK k \in Jobs : Replaces(j, k)
    BY <1>1 DEF BaselineInv
  <2>2. pc[j] # "failed"
    BY DEF JobStep, Step, Start, Crash, ReadPointer, ReadPrevMetrics, WriteChunk, QualityGate,
       Cluster, Features, Train, OpenFile, CloseFile, Gate, Cleanup, OpenPointer, WritePointer,
       Move, Active, Ended
  <2>3. pc[j] \in {"metrics", "failed"} => pc'[j] \in {"metrics", "failed"}
    BY <2>2
  <2>4. QED
    BY <2>1, <2>3, StillReplaces
<1>3. Cleared(j)' = Cleared(j)
  BY DEF Cleared, GateBypassed, WithinTolerance
<1>4. QED
  BY <1>1, <1>2, <1>3 DEF BaselineInv

LEMMA MoverBaselineInv ==
    ASSUME TrainInv, DistinctRunIds, BaselinesInv, NEW j \in Jobs, JobStep(j)
    PROVE  BaselineInv(j)'
<1> USE RegistryAssumption, PipelineAssumption
<1>1. BaselineInv(j) /\ TrainTypeOK
  BY DEF BaselinesInv, TrainInv
<1>2. TypeInv
  BY DEF TrainInv, TypeInv
<1>3. CASE ReadPointer(j)
  <2>1. pc[j] = "pointer" /\ UNCHANGED <<baseline, verdict, mae>>
    BY <1>3 DEF ReadPointer, Move
  <2>2. target[j] = NoPointer /\ verdict[j] # "promote"
    BY <1>1, <2>1 DEF BaselineInv, BeforeFiles, BeforeFeed
  <2>3. CASE PointsAtRun
    <3>1. pc'[j] = "metrics" /\ target'[j] = pointer
      BY <1>1, <1>3, <2>3 DEF ReadPointer, Move, Goto, TrainTypeOK
    <3>2. PICK k \in Jobs : pc[k] = "promoted" /\ RunDir(k) = pointer
      BY <2>3 DEF TrainInv, PointerInv
    <3>3. pc'[k] = "promoted"
      BY <1>2, <3>2, PromotedIsOver, OthersUntouched
    <3>4. Replaces(j, k)'
      BY <3>1, <3>2, <3>3 DEF Replaces, RunDir
    <3>5. QED
      BY <2>1, <2>2, <3>1, <3>4 DEF BaselineInv, Modelled, AfterFiles
  <2>4. CASE ~PointsAtRun
    <3>1. pc'[j] = "ingest" /\ target' = target
      BY <1>1, <1>3, <2>4 DEF ReadPointer, Move, Goto, TrainTypeOK
    <3>2. QED
      BY <2>1, <2>2, <3>1 DEF BaselineInv, Modelled, AfterFiles
  <2>5. QED
    BY <2>3, <2>4
<1>4. CASE ReadPrevMetrics(j)
  <2>1. /\ pc[j] = "metrics" /\ pc'[j] = "ingest" /\ UNCHANGED <<target, verdict, mae>>
    BY <1>1, <1>4 DEF ReadPrevMetrics, Move, Goto, TrainTypeOK
  <2>2. target[j] # NoPointer
    BY <1>2, <2>1 DEF TypeInv, ControlInv
  <2>3. PICK k \in Jobs : Replaces(j, k)
    BY <1>1, <2>2 DEF BaselineInv
  <2>4. pc[k] = "promoted" /\ RunDir(k) = target[j]
    BY <2>3 DEF Replaces
  <2>5. disk[target[j]]["metrics"] = Done(k)
    BY <2>4, MetricsOfPublished
  <2>6. baseline'[j] = mae[k]
    BY <1>1, <1>4, <2>5 DEF ReadPrevMetrics, Readable, Done, TrainTypeOK
  <2>7. pc'[k] = "promoted"
    BY <1>2, <2>4, PromotedIsOver, OthersUntouched
  <2>8. Replaces(j, k)'
    BY <2>1, <2>4, <2>6, <2>7 DEF Replaces, RunDir
  <2>9. verdict[j] # "promote"
    BY <1>1, <2>1 DEF BaselineInv, BeforeFiles, BeforeFeed
  <2>10. QED
    BY <2>1, <2>8, <2>9 DEF BaselineInv, Modelled, AfterFiles
<1>5. CASE Start(j)
  <2>1. pc[j] = "idle" /\ pc'[j] = "pointer" /\ UNCHANGED <<target, baseline, mae, verdict>>
    BY <1>1, <1>5 DEF Start, Move, Goto, locals, TrainTypeOK
  <2>2. QED
    BY <2>1, MovesOn DEF Modelled, AfterFiles, BeforeFiles, BeforeFeed
<1>6. CASE WriteChunk(j) \/ QualityGate(j) \/ Cluster(j)
  <2>1. UNCHANGED <<target, baseline, mae, verdict>>
    BY <1>6 DEF WriteChunk, QualityGate, Cluster, locals
  <2>2. /\ pc[j] \in {"ingest", "quality", "cluster"}
        /\ pc'[j] \in {"ingest", "quality", "cluster", "features", "failed"}
    BY <1>1, <1>6 DEF WriteChunk, QualityGate, Cluster, Move, Goto, TrainTypeOK
  <2>3. QED
    BY <2>1, <2>2, MovesOn DEF Modelled, AfterFiles, BeforeFiles, BeforeFeed
<1>7. CASE Features(j)
  <2>1. pc[j] = "features" /\ pc'[j] = "train" /\ UNCHANGED <<target, baseline, mae, verdict>>
    BY <1>1, <1>7 DEF Features, Move, Goto, TrainTypeOK
  <2>2. QED
    BY <2>1, MovesOn DEF Modelled, AfterFiles, BeforeFiles, BeforeFeed
<1>8. CASE Train(j)
  <2>1. pc[j] = "train" /\ UNCHANGED <<target, baseline, verdict>>
    BY <1>8 DEF Train, Move
  <2>2. \/ pc'[j] = "failed"
        \/ pc'[j] = "write" /\ mae'[j] \in MaeValues
    BY <1>1, <1>8 DEF Train, Move, Goto, TrainTypeOK
  <2>3. verdict[j] # "promote"
    BY <1>1, <2>1 DEF BaselineInv, BeforeFiles
  <2>4. target'[j] # NoPointer => \E k \in Jobs : Replaces(j, k)'
    <3> SUFFICES ASSUME target'[j] # NoPointer PROVE \E k \in Jobs : Replaces(j, k)'
      OBVIOUS
    <3>1. PICK k \in Jobs : Replaces(j, k)
      BY <1>1, <2>1 DEF BaselineInv
    <3>2. QED
      BY <2>1, <3>1, StillReplaces
  <2>5. QED
    BY <2>1, <2>2, <2>3, <2>4 DEF BaselineInv, Modelled, AfterFiles
<1>9. CASE OpenFile(j) \/ CloseFile(j) \/ Cleanup(j) \/ OpenPointer(j) \/ WritePointer(j)
  <2>1. UNCHANGED <<target, baseline, mae, verdict>>
    BY <1>9 DEF OpenFile, CloseFile, Cleanup, OpenPointer, WritePointer, locals
  <2>2. pc[j] \in {"write", "writing", "cleanup", "publish", "publishing"}
    BY <1>9 DEF OpenFile, CloseFile, Cleanup, OpenPointer, WritePointer, Move
  <2>3. pc'[j] \in {"write", "writing", "gate", "cleanup", "publish", "publishing",
                    "promoted", "rejected"}
    BY <1>1, <1>9 DEF OpenFile, CloseFile, AfterFile, Cleanup, OpenPointer, WritePointer, Move,
       Goto, TrainTypeOK
  <2>4. pc'[j] \in {"publish", "publishing", "promoted"} => verdict[j] = "promote"
    BY <1>1, <1>9 DEF OpenFile, CloseFile, AfterFile, Cleanup, OpenPointer, WritePointer, Move,
       Goto, TrainTypeOK, BaselineInv
  <2>5. QED
    BY <2>1, <2>2, <2>3, <2>4, MovesOn DEF Modelled, AfterFiles, BeforeFiles, BeforeFeed
<1>10. CASE Gate(j)
  <2>1. /\ UNCHANGED <<target, baseline, mae>> /\ pc[j] = "gate" /\ pc'[j] \in {"write", "failed"}
        /\ verdict'[j] = GateVerdict(j)
    BY <1>1, <1>10 DEF Gate, Move, Goto, TrainTypeOK
  <2>2. GateVerdict(j) = "promote" => Cleared(j)
    BY DEF GateVerdict, Cleared
  <2>3. Cleared(j)' = Cleared(j)
    BY <2>1 DEF Cleared, GateBypassed, WithinTolerance
  <2>4. target'[j] # NoPointer => \E k \in Jobs : Replaces(j, k)'
    <3> SUFFICES ASSUME target'[j] # NoPointer PROVE \E k \in Jobs : Replaces(j, k)'
      OBVIOUS
    <3>1. PICK k \in Jobs : Replaces(j, k)
      BY <1>1, <2>1 DEF BaselineInv
    <3>2. QED
      BY <2>1, <3>1, StillReplaces
  <2>5. mae[j] \in MaeValues
    BY <1>1, <2>1 DEF BaselineInv, Modelled
  <2>6. QED
    BY <2>1, <2>2, <2>3, <2>4, <2>5 DEF BaselineInv, Modelled, BeforeFiles, BeforeFeed, AfterFiles
<1>11. CASE Crash(j)
  <2>1. /\ pc'[j] = "failed" /\ pc[j] # "promoted"
        /\ UNCHANGED <<target, baseline, mae, verdict>>
    BY <1>1, <1>11 DEF Crash, Active, Ended, Goto, locals, TrainTypeOK
  <2>2. QED
    BY <2>1, MovesOn DEF Modelled, AfterFiles, BeforeFiles, BeforeFeed
<1>12. QED
  BY <1>3, <1>4, <1>5, <1>6, <1>7, <1>8, <1>9, <1>10, <1>11 DEF JobStep, Step

LEMMA BaselinesStep ==
    ASSUME TrainInv, DistinctRunIds, BaselinesInv, [TrainNext]_trainVars
    PROVE  BaselinesInv'
<1>1. CASE UNCHANGED trainVars
  <2>1. UNCHANGED <<pc, target, baseline, mae, verdict>>
    BY <1>1 DEF trainVars, locals
  <2>2. ASSUME NEW m \in Jobs PROVE BaselineInv(m)'
    BY <2>1 DEF BaselinesInv, BaselineInv, Replaces, RunDir, Cleared, GateBypassed,
       WithinTolerance
  <2>3. QED
    BY <2>2 DEF BaselinesInv
<1>2. CASE TrainNext
  <2>1. PICK j \in Jobs : JobStep(j)
    BY <1>2 DEF TrainNext, JobStep
  <2>2. QED
    BY <2>1, MoverBaselineInv, OthersBaselineInv DEF BaselinesInv
<1>3. QED
  BY <1>1, <1>2

LEMMA BaselinesClear == TrainInv /\ BaselinesInv => ClearedWhatItRead
<1> SUFFICES ASSUME TrainInv, BaselinesInv, RequireGate, NEW j \in Jobs \ ForcedJobs,
                    pc[j] = "promoted", target[j] # NoPointer
             PROVE  \E k \in Jobs : /\ pc[k] = "promoted" /\ RunDir(k) = target[j]
                                    /\ WithinTolerance(mae[j], mae[k])
  BY DEF ClearedWhatItRead
<1>1. BaselineInv(j) /\ TypeInv
  BY DEF BaselinesInv, TrainInv, TypeInv
<1>2. PICK k \in Jobs : Replaces(j, k)
  BY <1>1 DEF BaselineInv
<1>3. pc[k] = "promoted" /\ RunDir(k) = target[j] /\ baseline[j] = mae[k]
  BY <1>2 DEF Replaces
<1>4. mae[k] \in MaeValues
  BY <1>3 DEF BaselinesInv, BaselineInv, Modelled, AfterFiles
<1>5. Cleared(j)
  BY <1>1 DEF BaselineInv
<1>6. QED
  BY <1>3, <1>4, <1>5, PipelineAssumption DEF Cleared, GateBypassed

\* An unforced run whose job found latest.json pointing at a run is within tolerance of
\* that run, whatever overlaps and whoever is killed.
THEOREM GateHoldsForWhatItRead == DistinctRunIds => (TrainSpec => []ClearedWhatItRead)
<1> SUFFICES ASSUME DistinctRunIds PROVE TrainSpec => []ClearedWhatItRead
  OBVIOUS
<1>1. TrainInit => BaselinesInv
  BY PipelineAssumption, RegistryAssumption
     DEF TrainInit, BaselinesInv, BaselineInv, Modelled, AfterFiles
<1>2. TrainInv /\ BaselinesInv /\ [TrainNext]_trainVars => BaselinesInv'
  BY BaselinesStep
<1>3. TrainSpec => []TrainInv
  BY TrainInvariant
<1>4. QED
  BY <1>1, <1>2, <1>3, BaselinesClear, PTL DEF TrainSpec
=============================================================================
