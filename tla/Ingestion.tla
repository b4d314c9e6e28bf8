------------------------------ MODULE Ingestion ------------------------------
(***************************************************************************)
(* The data phases of one training run (pipeline/validation.py,            *)
(* data_gateway.py, storage.py, geospatial.py and the partition loop of    *)
(* train_pipeline.py): a feed is read chunk by chunk, every chunk is       *)
(* validated and written to the partition of each police station, the      *)
(* partitions are clustered in parallel and joined with their clusters.    *)
(*                                                                         *)
(* A row is known by its position <<chunk, line>> in the feed, so a report *)
(* is kept as the sets of rows the code counts.  A coordinate or a text is *)
(* the class the checks can tell apart.  Module Scoring goes on from the   *)
(* joined partitions.                                                      *)
(*                                                                         *)
(* An operator named for what it leaves out or gets wrong is a mutation of *)
(* the definition that follows it: no action uses it.                      *)
(***************************************************************************)
EXTENDS Integers, Sequences, FiniteSets

CONSTANTS
    Inputs,             \* what a run may read: chunks of rows, and where from
    Stations,           \* police stations after normalisation
    SafeKey,            \* what _safe_key makes of each station
    MaxRejectedPct,     \* settings.max_row_rejection_rate, in percent
    MinClusterSize,     \* settings.hdbscan_min_cluster_size
    MaxClusters,        \* bound: clusters HDBSCAN finds in one partition
    MaxParts            \* bound: part files of one partition

\* What a latitude or longitude can be: inside the geofence or outside it, zero, not
\* finite, or not a number.
CoordinateClasses == {"in", "out", "zero", "inf", "null"}

\* A time is the hour since some midnight; NoTime is text that no timestamp can be read
\* from.
NoTime == -1

IsRow(row) ==
    /\ {row.lat, row.lon} \subseteq CoordinateClasses
    /\ row.time \in Nat \cup {NoTime}
    /\ row.station \in Stations \cup {"missing", "NULL"}

\* Groups, and so part files, that n chunks can come to.
GroupsOf(n) == n * Cardinality(Stations)

IsFeed(chunks) ==
    /\ Len(chunks) \in Nat
    /\ GroupsOf(Len(chunks)) <= MaxParts
    /\ \A c \in 1..Len(chunks) :
         /\ Len(chunks[c]) \in Nat
         /\ \A i \in 1..Len(chunks[c]) : IsRow(chunks[c][i])

ASSUME IngestionAssumption ==
    /\ \A input \in Inputs :
         /\ input.source \in {"file", "no file", "bad columns", "table"}
         /\ IsFeed(input.chunks)
    /\ IsFiniteSet(Stations) /\ "Unknown" \in Stations
    /\ DOMAIN SafeKey = Stations
    /\ MaxParts \in Nat
    /\ MaxRejectedPct \in 0..100
    /\ MinClusterSize \in Nat \ {0}
    /\ MaxClusters \in Nat

VARIABLES
    feed,       \* the feed of this run
    source,     \* its CSV file (dask) or table (postgis), or why it has none
    phase,
    next,       \* the chunk to read next
    clean,      \* the rows of the chunk just validated
    groups,     \* its stations that write_chunk has not written yet
    seen,       \* total_rows_seen, over all chunk reports
    valid,      \* valid_rows
    reasons,    \* rejection_reasons
    counters,   \* _part_counters
    parts,      \* the rows in every part file; {} for no file
    assigned,   \* assignments.parquet of every partition: the label of each row
    joined      \* the rows of every partition with the assignment row each matched

sourceVars == <<feed, source>>
reportVars == <<seen, valid, reasons>>
writerVars == <<counters, parts>>
ingestVars == <<sourceVars, phase, next, clean, groups, reportVars, writerVars,
                assigned, joined>>

(***************************************************************************)
(* Rows.                                                                   *)
(***************************************************************************)
Positions == UNION {{<<c, i>> : i \in 1..Len(feed[c])} : c \in 1..Len(feed)}

Row(p) == feed[p[1]][p[2]]

\* Rows that reach the validator.  read_csv drops a line with too many fields
\* (on_bad_lines="warn"); PostGIS sends what lies inside the envelope.
Arrives(row) ==
    IF source = "table" THEN row.lat = "in" /\ row.lon = "in" ELSE row.line = "ok"

Chunk(c) == {<<c, i>> : i \in {k \in 1..Len(feed[c]) : Arrives(feed[c][k])}}

(***************************************************************************)
(* validate_and_clean_chunk: one mask per reason, each over the raw chunk. *)
(***************************************************************************)
Coordinates(row) == {row.lat, row.lon}

NullCoords(row) == "null" \in Coordinates(row)
Finite(row)     == Coordinates(row) \cap {"null", "inf"} = {}
ZeroIsland(row) == "zero" \in Coordinates(row)
InBounds(row)   == Coordinates(row) = {"in"}
BadTime(row)    == row.time = NoTime

KeepGeo(row) == ~NullCoords(row) /\ Finite(row) /\ ~ZeroIsland(row) /\ InBounds(row)

\* df["id"].duplicated(keep="first"), over every row of the chunk.
Duplicate(p) ==
    \E q \in Chunk(p[1]) : q[2] < p[2] /\ Row(q).id = Row(p).id

Reasons == {"missing_or_non_numeric_coordinates", "non_finite_coordinates",
            "null_island_coordinates", "outside_service_geofence",
            "unparseable_timestamp", "duplicate_id"}

RejectedWithoutTimestamps(p, reason) ==
    LET row == Row(p)
    IN  CASE reason = "missing_or_non_numeric_coordinates" -> NullCoords(row)
          [] reason = "non_finite_coordinates" -> ~Finite(row) /\ ~NullCoords(row)
          [] reason = "null_island_coordinates" -> ZeroIsland(row) /\ ~NullCoords(row)
          [] reason = "outside_service_geofence" ->
               ~InBounds(row) /\ ~NullCoords(row) /\ ~ZeroIsland(row)
          [] reason = "unparseable_timestamp" -> FALSE
          [] reason = "duplicate_id" -> Duplicate(p) /\ KeepGeo(row) /\ ~BadTime(row)

Rejected(p, reason) ==
    LET row == Row(p)
    IN  CASE reason = "missing_or_non_numeric_coordinates" -> NullCoords(row)
          [] reason = "non_finite_coordinates" -> ~Finite(row) /\ ~NullCoords(row)
          [] reason = "null_island_coordinates" -> ZeroIsland(row) /\ ~NullCoords(row)
          [] reason = "outside_service_geofence" ->
               ~InBounds(row) /\ ~NullCoords(row) /\ ~ZeroIsland(row)
          [] reason = "unparseable_timestamp" -> BadTime(row) /\ KeepGeo(row)
          [] reason = "duplicate_id" -> Duplicate(p) /\ KeepGeo(row) /\ ~BadTime(row)

KeepDuplicates(p) == KeepGeo(Row(p)) /\ ~BadTime(Row(p))

Keep(p) == KeepGeo(Row(p)) /\ ~BadTime(Row(p)) /\ ~Duplicate(p)

\* Text columns: strip, then "NULL" and a missing value become the default; an
\* empty junction does too.  Only the station matters to what follows; its text is
\* taken after strip().
CleanStation(text) == IF text \in {"missing", "NULL"} THEN "Unknown" ELSE text

(***************************************************************************)
(* The run.  The writer makes its root before anything is read.            *)
(***************************************************************************)
Keys == {SafeKey[s] : s \in Stations}

StationOf(p) == CleanStation(Row(p).station)

PartNumbers == 0..(MaxParts - 1)

NotAssigned == [p \in {} |-> 0]

IngestInit ==
    /\ \E input \in Inputs : feed = input.chunks /\ source = input.source
    /\ phase    = "read"
    /\ next     = 1
    /\ clean    = {}
    /\ groups   = {}
    /\ seen     = {}
    /\ valid    = {}
    /\ reasons  = [r \in Reasons |-> {}]
    /\ counters = [k \in Keys |-> 0]
    /\ parts    = [k \in Keys |-> [n \in PartNumbers |-> {}]]
    /\ assigned = [k \in Keys |-> NotAssigned]
    /\ joined   = [k \in Keys |-> {}]

(***************************************************************************)
(* iter_clean_chunks up to its yield: an empty chunk is skipped, any other *)
(* is validated and reported, and yielded when some row is left.  A        *)
(* missing file or column ends the run.                                    *)
(***************************************************************************)
ReportedIfYielded(c) == IF \A p \in Chunk(c) : ~Keep(p) THEN {} ELSE Chunk(c)

\* The rows of a chunk that its report counts: all, also when none is left to yield.
Reported(c) == Chunk(c)

ReadChunk ==
    /\ phase = "read"
    /\ next <= Len(feed)
    /\ \/ source \in {"file", "table"}
       \/ source = "bad columns" /\ Chunk(next) = {}
    /\ LET chunk == Chunk(next)
           kept  == {p \in chunk : Keep(p)}
       IN  /\ seen'    = seen \cup Reported(next)
           /\ valid'   = valid \cup kept
           /\ reasons' = [r \in Reasons |->
                            reasons[r] \cup {p \in Reported(next) : Rejected(p, r)}]
           /\ clean'   = kept
           /\ groups'  = {StationOf(p) : p \in kept}
           /\ phase'   = IF kept = {} THEN "read" ELSE "write"
    /\ next' = next + 1
    /\ UNCHANGED <<sourceVars, writerVars, assigned, joined>>

ReadFails ==
    /\ phase = "read"
    /\ \/ source = "no file"
       \/ source = "bad columns" /\ next <= Len(feed) /\ Chunk(next) # {}
    /\ phase' = "failed"
    /\ UNCHANGED <<sourceVars, next, clean, groups, reportVars, writerVars,
                   assigned, joined>>

(***************************************************************************)
(* One group of write_chunk: the rows of one station go to the next part   *)
(* of its partition, which other stations with the same safe key share.    *)
(***************************************************************************)
WriteGroupWithoutCounter(s) ==
    LET k == SafeKey[s]
    IN  /\ phase = "write" /\ s \in groups
        /\ parts'    = [parts EXCEPT ![k][next - 2] = {p \in clean : StationOf(p) = s}]
        /\ groups'   = groups \ {s}
        /\ phase'    = IF groups' = {} THEN "read" ELSE "write"
        /\ UNCHANGED <<sourceVars, next, clean, reportVars, counters, assigned, joined>>

WriteGroupOfRawChunk(s) ==
    LET k == SafeKey[s]
    IN  /\ phase = "write" /\ s \in groups
        /\ parts'    = [parts EXCEPT ![k][counters[k]] =
                          {p \in Chunk(next - 1) : StationOf(p) = s}]
        /\ counters' = [counters EXCEPT ![k] = @ + 1]
        /\ groups'   = groups \ {s}
        /\ phase'    = IF groups' = {} THEN "read" ELSE "write"
        /\ UNCHANGED <<sourceVars, next, clean, reportVars, assigned, joined>>

WriteGroup(s) ==
    LET k == SafeKey[s]
    IN  /\ phase = "write" /\ s \in groups
        /\ parts'    = [parts EXCEPT ![k][counters[k]] = {p \in clean : StationOf(p) = s}]
        /\ counters' = [counters EXCEPT ![k] = @ + 1]
        /\ groups'   = groups \ {s}
        /\ phase'    = IF groups' = {} THEN "read" ELSE "write"
        /\ UNCHANGED <<sourceVars, next, clean, reportVars, assigned, joined>>

(***************************************************************************)
(* ingestion_report and passed_quality_gate: no report at all, or a rate   *)
(* above the limit, ends the run.  Then run_partitioned_clustering, which  *)
(* wants a partition.                                                      *)
(***************************************************************************)
PassedQualityGate ==
    100 * Cardinality(seen \ valid) <= MaxRejectedPct * Cardinality(seen)

PartRows(k)      == UNION {parts[k][n] : n \in PartNumbers}
ListedPartitions == {k \in Keys : counters[k] > 0}

Report ==
    /\ phase = "read"
    /\ source # "no file"
    /\ next > Len(feed)
    /\ phase' = IF seen # {} /\ PassedQualityGate /\ ListedPartitions # {}
                THEN "cluster" ELSE "failed"
    /\ UNCHANGED <<sourceVars, next, clean, groups, reportVars, writerVars,
                   assigned, joined>>

(***************************************************************************)
(* _cluster_one_partition, one dask task per partition.  A partition too   *)
(* small to hold a cluster is all noise (label 0); otherwise HDBSCAN       *)
(* (external) numbers clusters of at least MinClusterSize rows without gap. *)
(***************************************************************************)
Labellings(rows) ==
    IF Cardinality(rows) < MinClusterSize
      THEN {[p \in rows |-> 0]}
      ELSE {l \in [rows -> 0..MaxClusters] :
              \E n \in 0..MaxClusters :
                 /\ \A p \in rows : l[p] <= n
                 /\ \A c \in 1..n : Cardinality({p \in rows : l[p] = c}) >= MinClusterSize}

Clustered(k) == assigned[k] # NotAssigned

Cluster(k) ==
    /\ phase = "cluster" /\ k \in ListedPartitions /\ ~Clustered(k)
    /\ \E labels \in Labellings(PartRows(k)) :
         assigned' = [assigned EXCEPT ![k] = labels]
    /\ UNCHANGED <<sourceVars, phase, next, clean, groups, reportVars, writerVars,
                   joined>>

\* dask.compute returns when every task has.
ClusteredWithoutBarrier ==
    /\ phase = "cluster"
    /\ phase' = "join"
    /\ UNCHANGED <<sourceVars, next, clean, groups, reportVars, writerVars,
                   assigned, joined>>

AllClustered ==
    /\ phase = "cluster"
    /\ \A k \in ListedPartitions : Clustered(k)
    /\ phase' = "join"
    /\ UNCHANGED <<sourceVars, next, clean, groups, reportVars, writerVars,
                   assigned, joined>>

(***************************************************************************)
(* df.merge(assignments, on="id", how="left"): a row meets every           *)
(* assignment row with its id; without one it becomes noise.               *)
(***************************************************************************)
Matches(k, p) == {q \in DOMAIN assigned[k] : Row(q).id = Row(p).id}

Unmatched == <<0, 0>>

Merge(k) ==
    UNION {{<<p, q>> : q \in IF Matches(k, p) = {} THEN {Unmatched} ELSE Matches(k, p)} :
             p \in PartRows(k)}

Join(k) ==
    /\ phase = "join" /\ k \in ListedPartitions /\ joined[k] = {}
    /\ joined' = [joined EXCEPT ![k] = Merge(k)]
    /\ phase'  = IF \A other \in ListedPartitions \ {k} : joined[other] # {}
                 THEN "train" ELSE "join"
    /\ UNCHANGED <<sourceVars, next, clean, groups, reportVars, writerVars, assigned>>

IngestNext ==
    \/ ReadChunk \/ ReadFails \/ Report \/ AllClustered
    \/ \E s \in Stations : WriteGroup(s)
    \/ \E k \in Keys : Cluster(k) \/ Join(k)

IngestSpec == IngestInit /\ [][IngestNext]_ingestVars

(***************************************************************************)
(*                               Properties                                *)
(***************************************************************************)
\* Type invariant of the run's data phases; what follows "train" is in Scoring.
IngestTypeOK ==
    /\ phase \in {"read", "write", "cluster", "join", "failed"}
                  \cup {"train", "rank", "render", "done"}
    /\ next \in 1..(Len(feed) + 1)
    /\ clean \subseteq valid
    /\ groups \subseteq Stations
    /\ seen \subseteq Positions
    /\ valid \subseteq seen
    /\ reasons \in [Reasons -> SUBSET seen]
    /\ counters \in [Keys -> 0..MaxParts]
    /\ parts \in [Keys -> [PartNumbers -> SUBSET valid]]
    /\ DOMAIN assigned = Keys /\ \A k \in Keys : DOMAIN assigned[k] \subseteq valid
    /\ DOMAIN joined = Keys

\* "Every dropped row is accounted for in an IngestionReport": a row the validator
\* saw is kept, or counted under some reason, and never both, although each of the
\* six masks is computed apart from the one that decides what is kept.
EveryDropHasAReason ==
    /\ seen = valid \cup UNION {reasons[r] : r \in Reasons}
    /\ \A r \in Reasons : valid \cap reasons[r] = {}

\* Once a chunk is written, every valid row read so far is in exactly one part file,
\* in the partition of its own station: no part overwrites another, also when the
\* names of two stations collapse to one directory.
EveryValidRowIsStoredOnce ==
    phase # "write" =>
        \A p \in valid : \E n \in PartNumbers :
            {h \in Keys \X PartNumbers : p \in parts[h[1]][h[2]]}
                = {<<SafeKey[StationOf(p)], n>>}

\* Every row of the feed that reaches the validator, and every row of a part file.
Arrived == UNION {Chunk(c) : c \in 1..Len(feed)}
Stored  == UNION {PartRows(k) : k \in Keys}

AfterGate == {"cluster", "join", "train", "rank", "render", "done"}

\* Nothing is clustered or trained on unless, of all rows the feed delivers, the share
\* that is in no part file is within the rejection limit.  The gate adds up reports, one
\* for each chunk: it is right only if every chunk was read and reported, also one that
\* yields nothing, and if what the reports call valid is what write_chunk stored.
OnlyGoodFeedsGoOn ==
    phase \in AfterGate =>
        100 * Cardinality(Arrived \ Stored) <= MaxRejectedPct * Cardinality(Arrived)

\* The parallel clustering is over before its results are joined: every row meets
\* its own assignment, and none becomes noise because its partition's file was not
\* there yet.
EveryRowMeetsItsAssignment ==
    \A k \in Keys : joined[k] # {} =>
        \A p \in PartRows(k) : <<p, p>> \in joined[k]

\* Duplicates are looked for inside a chunk only; in PostGIS ids are a primary key.
NoIdInTwoChunks ==
    \A p, q \in valid : Row(p).id = Row(q).id => p[1] = q[1]

\* A violation is counted once, although its id may come several times in a chunk and
\* other masks may reject some of the copies: unless the id survived in two chunks, the
\* join on id gives as many rows as the partition holds.
NoRowIsCountedTwice ==
    NoIdInTwoChunks =>
        \A k \in Keys : \A pair, other \in joined[k] :
            pair[1] = other[1] => pair = other

(***************************************************************************)
(* The inductive invariant behind these properties.  The reports are a     *)
(* function of the chunks read so far.                                     *)
(***************************************************************************)
ReportInv ==
    /\ seen = UNION {Chunk(c) : c \in 1..(next - 1)}
    /\ valid = {p \in seen : Keep(p)}
    /\ reasons = [r \in Reasons |-> {p \in seen : Rejected(p, r)}]

\* A row of the last chunk whose group is not written yet.
Pending(p) == phase = "write" /\ p \in clean /\ StationOf(p) \in groups

\* Every valid row is pending or in one part of its partition, never both; there are
\* never more parts than groups.
WriterInv ==
    /\ phase = "write" => clean = {p \in Chunk(next - 1) : Keep(p)}
    /\ \A k \in Keys : counters[k] + Cardinality(groups) <= GroupsOf(next - 1)
    /\ \A k \in Keys : \A n \in PartNumbers :
         /\ n >= counters[k] => parts[k][n] = {}
         /\ \A p \in parts[k][n] :
              /\ ~Pending(p) /\ k = SafeKey[StationOf(p)]
              /\ \A m \in PartNumbers : p \in parts[k][m] => m = n
    /\ \A p \in valid : Pending(p) \/ p \in PartRows(SafeKey[StationOf(p)])

\* Assignments cover the whole partition, and a join is of a clustered partition.
JoinInv ==
    /\ phase \in {"read", "write"} => \A k \in Keys : assigned[k] = NotAssigned
    /\ phase \in {"read", "write", "cluster"} => \A k \in Keys : joined[k] = {}
    /\ phase \notin {"read", "write", "cluster", "failed"} =>
          \A k \in ListedPartitions : Clustered(k)
    /\ \A k \in Keys : Clustered(k) => DOMAIN assigned[k] = PartRows(k)
    /\ \A k \in Keys : joined[k] # {} => Clustered(k) /\ joined[k] = Merge(k)

\* Past the gate the feed is read to its end, and its reports have passed.
QualityInv ==
    phase \in AfterGate => next > Len(feed) /\ PassedQualityGate

IngestInv ==
    /\ IsFeed(feed)
    /\ IngestTypeOK
    /\ ReportInv
    /\ WriterInv
    /\ JoinInv
    /\ QualityInv
=============================================================================
