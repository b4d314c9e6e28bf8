--------------------------- MODULE IngestionProofs ---------------------------
(***************************************************************************)
(* What the data phases guarantee of every feed, of any number of chunks,  *)
(* rows, stations and partitions: no row is lost, stored twice, dropped    *)
(* without a reason, or met by another row's assignment.                   *)
(*                                                                         *)
(* The steps of Scoring that follow the join change nothing here but the   *)
(* phase, so the invariant is proved of both: what ScoringProofs needs.    *)
(***************************************************************************)
EXTENDS Ingestion, FiniteSetTheorems, TLAPS

LaterStep ==
    /\ phase \in {"train", "rank", "render"}
    /\ phase' \in {"rank", "render", "done", "failed"}
    /\ UNCHANGED <<sourceVars, next, clean, groups, reportVars, writerVars, assigned, joined>>

RunStep == [IngestNext]_ingestVars \/ LaterStep

(***************************************************************************)
(* The feed does not change while it is read, nor what the masks say of    *)
(* its rows.                                                               *)
(***************************************************************************)
LEMMA FeedStays == RunStep => UNCHANGED sourceVars
BY DEF RunStep, LaterStep, IngestNext, ReadChunk, ReadFails, Report, AllClustered, WriteGroup,
   Cluster, Join, ingestVars

LEMMA SameFeed ==
    ASSUME UNCHANGED sourceVars
    PROVE  /\ Positions' = Positions
           /\ \A c : Chunk(c)' = Chunk(c)
           /\ \A p : Row(p)' = Row(p)
           /\ \A p : Keep(p)' <=> Keep(p)
           /\ \A p : StationOf(p)' = StationOf(p)
           /\ \A p : \A r \in Reasons : Rejected(p, r)' <=> Rejected(p, r)
<1>1. \A p : Row(p)' = Row(p)
  BY DEF Row, sourceVars
<1>2. \A c : Chunk(c)' = Chunk(c)
  BY DEF Chunk, Arrives, sourceVars
<1>3. \A p : Duplicate(p)' <=> Duplicate(p)
  BY <1>1, <1>2 DEF Duplicate
<1>4. \A p : Keep(p)' <=> Keep(p)
  BY <1>1, <1>3 DEF Keep, KeepGeo, BadTime, NullCoords, Finite, ZeroIsland, InBounds, Coordinates
<1>5. \A p : StationOf(p)' = StationOf(p)
  BY <1>1 DEF StationOf, CleanStation
<1>6. \A p : \A r \in Reasons : Rejected(p, r)' <=> Rejected(p, r)
  BY <1>1, <1>3 DEF Rejected, Reasons, KeepGeo, BadTime, NullCoords, Finite, ZeroIsland,
     InBounds, Coordinates
<1>7. Positions' = Positions
  BY DEF Positions, sourceVars
<1>8. QED
  BY <1>1, <1>2, <1>4, <1>5, <1>6, <1>7

LEMMA FeedLength == IsFeed(feed) => Len(feed) \in Nat
BY DEF IsFeed

(***************************************************************************)
(* Rows of a chunk.                                                        *)
(***************************************************************************)
LEMMA ChunkRows ==
    ASSUME IsFeed(feed), NEW c \in 1..Len(feed), NEW p \in Chunk(c)
    PROVE  /\ p = <<c, p[2]>> /\ p[1] = c /\ p[2] \in 1..Len(feed[c])
           /\ p \in Positions /\ IsRow(Row(p)) /\ StationOf(p) \in Stations
<1>1. PICK i \in 1..Len(feed[c]) : p = <<c, i>>
  BY DEF Chunk
<1>2. IsRow(Row(p))
  BY <1>1 DEF IsFeed, Row
<1>3. StationOf(p) \in Stations
  BY <1>2, IngestionAssumption DEF IsRow, StationOf, CleanStation
<1>4. p \in Positions
  BY <1>1 DEF Positions
<1>5. QED
  BY <1>1, <1>2, <1>3, <1>4

\* The six masks and the mask of what is kept are computed apart; they agree.
LEMMA KeptOrRejected ==
    \A p : /\ Keep(p) \/ \E r \in Reasons : Rejected(p, r)
           /\ \A r \in Reasons : ~(Keep(p) /\ Rejected(p, r))
<1> SUFFICES ASSUME NEW p
             PROVE  /\ Keep(p) \/ \E r \in Reasons : Rejected(p, r)
                    /\ \A r \in Reasons : ~(Keep(p) /\ Rejected(p, r))
  OBVIOUS
<1> DEFINE row == Row(p)
<1>1. /\ Rejected(p, "missing_or_non_numeric_coordinates") <=> NullCoords(row)
      /\ Rejected(p, "non_finite_coordinates") <=> ~Finite(row) /\ ~NullCoords(row)
      /\ Rejected(p, "null_island_coordinates") <=> ZeroIsland(row) /\ ~NullCoords(row)
      /\ Rejected(p, "outside_service_geofence") <=>
           ~InBounds(row) /\ ~NullCoords(row) /\ ~ZeroIsland(row)
      /\ Rejected(p, "unparseable_timestamp") <=> BadTime(row) /\ KeepGeo(row)
      /\ Rejected(p, "duplicate_id") <=> Duplicate(p) /\ KeepGeo(row) /\ ~BadTime(row)
  BY DEF Rejected
<1>2. InBounds(row) => ~NullCoords(row) /\ Finite(row) /\ ~ZeroIsland(row)
  BY DEF InBounds, NullCoords, Finite, ZeroIsland
<1>3. KeepGeo(row) <=> InBounds(row)
  BY <1>2 DEF KeepGeo
<1>4. QED
  BY <1>1, <1>2, <1>3 DEF Keep, Reasons

\* How many groups there can be, chunk after chunk.
LEMMA GroupsPerChunk ==
    ASSUME NEW n \in Nat
    PROVE  /\ GroupsOf(n) \in Nat /\ GroupsOf(n + 1) = GroupsOf(n) + Cardinality(Stations)
           /\ Cardinality(Stations) \in Nat
<1>1. Cardinality(Stations) \in Nat
  BY IngestionAssumption, FS_CardinalityType
<1>2. (n + 1) * Cardinality(Stations) = n * Cardinality(Stations) + Cardinality(Stations)
  BY <1>1
<1>3. n * Cardinality(Stations) \in Nat
  BY <1>1
<1>4. QED
  BY <1>1, <1>2, <1>3 DEF GroupsOf

LEMMA GroupsGrow ==
    ASSUME NEW m \in Nat, NEW n \in Nat, m <= n
    PROVE  GroupsOf(m) <= GroupsOf(n)
<1>1. Cardinality(Stations) \in Nat
  BY GroupsPerChunk
<1>2. m * Cardinality(Stations) <= n * Cardinality(Stations)
  BY <1>1
<1>3. QED
  BY <1>2 DEF GroupsOf

\* df["id"].duplicated(keep="first") leaves one row of an id in a chunk.
LEMMA OneKeptPerId ==
    ASSUME IsFeed(feed), NEW c \in 1..Len(feed), NEW p \in Chunk(c), NEW q \in Chunk(c),
           Keep(p), Keep(q), Row(p).id = Row(q).id
    PROVE  p = q
<1>1. p[1] = c /\ q[1] = c /\ p = <<c, p[2]>> /\ q = <<c, q[2]>>
  BY ChunkRows
<1>2. p[2] \in Int /\ q[2] \in Int
  BY ChunkRows
<1>3. ~(p[2] < q[2]) /\ ~(q[2] < p[2])
  BY <1>1 DEF Keep, Duplicate
<1>4. QED
  BY <1>1, <1>2, <1>3

\* Reading one more chunk adds exactly its rows, none of which was read before.
LEMMA OneMoreChunk ==
    ASSUME NEW n \in Nat \ {0}
    PROVE  UNION {Chunk(c) : c \in 1..((n + 1) - 1)}
             = (UNION {Chunk(c) : c \in 1..(n - 1)}) \cup Chunk(n)
<1>1. 1..((n + 1) - 1) = 1..(n - 1) \cup {n}
  OBVIOUS
<1>2. QED
  BY <1>1

LEMMA ChunksAreDisjoint ==
    ASSUME IngestInv, next <= Len(feed), NEW p \in Chunk(next)
    PROVE  p \notin seen
<1>1. next \in 1..Len(feed) /\ Len(feed) \in Nat
  BY DEF IngestInv, IngestTypeOK, IsFeed
<1>2. p[1] = next
  BY <1>1, ChunkRows DEF IngestInv
<1>3. ASSUME NEW c \in 1..(next - 1), p \in Chunk(c) PROVE FALSE
  <2>1. c \in 1..Len(feed) /\ c # next
    BY <1>1
  <2>2. QED
    BY <1>2, <1>3, <2>1, ChunkRows DEF IngestInv
<1>4. QED
  BY <1>3 DEF IngestInv, ReportInv

\* A valid row was kept by the masks of its own chunk.
LEMMA ValidRows ==
    ASSUME IngestInv, NEW p \in valid
    PROVE  /\ p[1] \in 1..Len(feed) /\ p \in Chunk(p[1]) /\ Keep(p)
           /\ StationOf(p) \in Stations /\ SafeKey[StationOf(p)] \in Keys
<1>1. p \in seen /\ Keep(p)
  BY DEF IngestInv, ReportInv
<1>2. PICK c \in 1..(next - 1) : p \in Chunk(c)
  BY <1>1 DEF IngestInv, ReportInv
<1>3. c \in 1..Len(feed)
  BY DEF IngestInv, IngestTypeOK, IsFeed
<1>4. QED
  BY <1>1, <1>2, <1>3, ChunkRows DEF IngestInv, Keys

(***************************************************************************)
(* The invariant at the start.                                             *)
(***************************************************************************)
LEMMA NothingStored == \A k \in Keys : IngestInit => PartRows(k) = {}
BY DEF IngestInit, PartRows

LEMMA IngestInvInit == IngestInit => IngestInv
<1> SUFFICES ASSUME IngestInit PROVE IngestInv
  OBVIOUS
<1>1. IsFeed(feed) /\ source \in {"file", "no file", "bad columns", "table"}
  BY IngestionAssumption DEF IngestInit
<1>2. IngestTypeOK
  <2>1. 1 \in 1..(Len(feed) + 1)
    <3>1. Len(feed) \in Nat
      BY <1>1, FeedLength
    <3>2. QED
      BY <3>1
  <2>2. \A k \in Keys : DOMAIN assigned[k] \subseteq valid
    BY DEF IngestInit, NotAssigned
  <2>3. QED
    <3>1. /\ counters \in [Keys -> 0..MaxParts]
          /\ parts \in [Keys -> [PartNumbers -> SUBSET valid]]
          /\ reasons \in [Reasons -> SUBSET seen]
      <4>1. MaxParts \in Nat
        BY IngestionAssumption
      <4>2. QED
        BY <4>1 DEF IngestInit
    <3>2. /\ phase = "read" /\ next = 1 /\ clean = {} /\ groups = {} /\ seen = {} /\ valid = {}
          /\ DOMAIN assigned = Keys /\ DOMAIN joined = Keys
      BY DEF IngestInit
    <3>3. QED
      BY <2>1, <2>2, <3>1, <3>2 DEF IngestTypeOK
<1>3. ReportInv
  BY DEF IngestInit, ReportInv
<1>4. WriterInv
  <2>1. Cardinality({}) = 0 /\ GroupsOf(1 - 1) \in Nat
    BY FS_EmptySet, GroupsPerChunk
  <2>2. QED
    BY <2>1 DEF IngestInit, WriterInv, Pending
<1>5. JoinInv
  BY NothingStored DEF IngestInit, JoinInv, Clustered
<1>6. QED
  BY <1>1, <1>2, <1>3, <1>4, <1>5 DEF IngestInit, IngestInv, QualityInv, AfterGate

(***************************************************************************)
(* The steps.  Reading a chunk changes the reports and nothing on disk.    *)
(***************************************************************************)
LEMMA ReadChunkKeeps == ASSUME IngestInv, ReadChunk PROVE IngestInv'
<1> DEFINE chunk == Chunk(next)
           kept  == {p \in chunk : Keep(p)}
<1>a. /\ next <= Len(feed) /\ next' = next + 1 /\ UNCHANGED sourceVars
      /\ seen' = seen \cup chunk /\ valid' = valid \cup kept /\ clean' = kept
      /\ reasons' = [r \in Reasons |-> reasons[r] \cup {p \in chunk : Rejected(p, r)}]
      /\ groups' = {StationOf(p) : p \in kept}
      /\ phase = "read" /\ phase' = (IF kept = {} THEN "read" ELSE "write")
  BY DEF ReadChunk, Reported
<1>b. UNCHANGED <<counters, parts, assigned, joined>>
  BY DEF ReadChunk, writerVars
<1>c. phase' \in {"read", "write"} /\ (kept # {} => phase' = "write")
  BY <1>a
<1>d. next \in 1..Len(feed) /\ next \in Nat \ {0} /\ Len(feed) \in Nat
  BY <1>a, FeedLength DEF IngestInv, IngestTypeOK
<1>0. /\ IsFeed(feed) /\ IngestTypeOK /\ ReportInv /\ WriterInv /\ JoinInv
  BY DEF IngestInv
<1> HIDE DEF chunk, kept
<1>e. /\ Positions' = Positions /\ \A c : Chunk(c)' = Chunk(c)
      /\ \A p : Keep(p)' <=> Keep(p)
      /\ \A p : StationOf(p)' = StationOf(p)
      /\ \A p : \A r \in Reasons : Rejected(p, r)' <=> Rejected(p, r)
  BY <1>a, SameFeed
<1>f. \A p : p \in kept <=> p \in chunk /\ Keep(p)
  BY DEF kept
<1>g. \A p \in chunk : p \in Positions /\ StationOf(p) \in Stations /\ p \notin seen
  BY <1>0, <1>a, <1>d, ChunkRows, ChunksAreDisjoint DEF chunk
<1>1. IsFeed(feed)'
  BY <1>0, <1>a DEF IsFeed, IsRow, sourceVars
<1>2. IngestTypeOK'
  <2>1. next' \in 1..(Len(feed) + 1) /\ feed' = feed
    BY <1>a, <1>d DEF sourceVars
  <2>2. groups' \subseteq Stations /\ seen' \subseteq Positions /\ valid' \subseteq seen'
        /\ clean' \subseteq valid'
    BY <1>0, <1>a, <1>f, <1>g DEF IngestTypeOK
  <2>3. reasons' \in [Reasons -> SUBSET seen']
    BY <1>0, <1>a DEF IngestTypeOK
  <2>4. parts' \in [Keys -> [PartNumbers -> SUBSET valid']]
    BY <1>0, <1>a, <1>b DEF IngestTypeOK
  <2>5. QED
    BY <1>0, <1>a, <1>b, <1>c, <1>e, <2>1, <2>2, <2>3, <2>4 DEF IngestTypeOK
<1>3. ReportInv'
  <2>1. seen' = UNION {Chunk(c) : c \in 1..(next' - 1)}
    BY <1>0, <1>a, <1>d, OneMoreChunk DEF ReportInv, chunk
  <2>2. ASSUME NEW p PROVE p \in valid' <=> p \in seen' /\ Keep(p)'
    BY <1>0, <1>a, <1>e, <1>f DEF ReportInv
  <2>3. ASSUME NEW r \in Reasons PROVE reasons'[r] = {p \in seen' : Rejected(p, r)'}
    BY <1>0, <1>a, <1>e DEF ReportInv
  <2>4. reasons' = [r \in Reasons |-> {p \in seen' : Rejected(p, r)'}]
    BY <1>a, <2>3
  <2>5. QED
    BY <1>e, <2>1, <2>2, <2>4 DEF ReportInv
<1>4. WriterInv'
  <2>1. clean' = {p \in Chunk(next - 1)' : Keep(p)'}
    <3>1. next' - 1 = next
      BY <1>a, <1>d
    <3>2. Chunk(next - 1)' = chunk
      BY <1>e, <3>1 DEF chunk
    <3>3. QED
      BY <1>a, <1>e, <1>f, <3>2
  <2>2. ASSUME NEW k \in Keys
        PROVE  counters'[k] + Cardinality(groups') <= GroupsOf(next' - 1)
    <3>1. /\ Cardinality(groups') \in Nat /\ Cardinality(groups) \in Nat
          /\ Cardinality(groups') <= Cardinality(Stations)
      <4>1. groups' \subseteq Stations /\ groups \subseteq Stations
        BY <1>0, <1>2 DEF IngestTypeOK
      <4>2. QED
        BY <4>1, FS_Subset, FS_CardinalityType, IngestionAssumption
    <3>2. counters[k] + Cardinality(groups) <= GroupsOf(next - 1)
      BY <1>0 DEF WriterInv
    <3>3. /\ GroupsOf(next) = GroupsOf(next - 1) + Cardinality(Stations)
          /\ GroupsOf(next - 1) \in Nat /\ Cardinality(Stations) \in Nat
      <4>1. next - 1 \in Nat /\ (next - 1) + 1 = next
        BY <1>d
      <4>2. QED
        BY <4>1, GroupsPerChunk
    <3>4. counters[k] \in 0..MaxParts /\ counters' = counters
      BY <1>0, <1>b DEF IngestTypeOK
    <3>5. next' - 1 = next
      BY <1>a, <1>d
    <3>6. QED
      BY <3>1, <3>2, <3>3, <3>4, <3>5
  <2>3. ASSUME NEW k \in Keys, NEW n \in PartNumbers, NEW p \in parts[k][n]
        PROVE  ~Pending(p)'
    <3>1. p \in seen
      BY <1>0 DEF IngestTypeOK
    <3>2. p \notin kept
      BY <1>f, <1>g, <3>1
    <3>3. QED
      BY <1>a, <3>2 DEF Pending
  <2>4. ASSUME NEW p \in valid' PROVE Pending(p)' \/ p \in PartRows(SafeKey[StationOf(p)])'
    <3>1. CASE p \in kept
      <4>1. StationOf(p) \in groups' /\ phase' = "write" /\ p \in clean'
        BY <1>a, <3>1
      <4>2. QED
        BY <1>e, <4>1 DEF Pending
    <3>2. CASE p \in valid
      <4>1. p \in PartRows(SafeKey[StationOf(p)])
        BY <1>0, <1>a, <3>2 DEF WriterInv, Pending
      <4>2. QED
        BY <1>b, <1>e, <4>1 DEF PartRows
    <3>3. QED
      BY <1>a, <3>1, <3>2
  <2>5. ASSUME NEW k \in Keys, NEW n \in PartNumbers
        PROVE  /\ n >= counters'[k] => parts'[k][n] = {}
               /\ \A p \in parts'[k][n] :
                    /\ ~Pending(p)' /\ k = SafeKey[StationOf(p)']
                    /\ \A m \in PartNumbers : p \in parts'[k][m] => m = n
    BY <1>0, <1>b, <1>e, <2>3 DEF WriterInv
  <2>6. QED
    BY <2>1, <2>2, <2>4, <2>5 DEF WriterInv, Keys, PartNumbers
<1>5. JoinInv'
  BY <1>0, <1>a, <1>b, <1>c DEF JoinInv, Clustered
<1>6. QualityInv'
  BY <1>c DEF QualityInv, AfterGate
<1>7. QED
  BY <1>1, <1>2, <1>3, <1>4, <1>5, <1>6 DEF IngestInv

\* Writing a group moves its rows from pending to a part that was empty.
LEMMA WriteGroupKeeps == ASSUME IngestInv, NEW s \in Stations, WriteGroup(s) PROVE IngestInv'
<1> DEFINE k    == SafeKey[s]
           n    == counters[k]
           rows == {p \in clean : StationOf(p) = s}
<1>0. /\ IsFeed(feed) /\ IngestTypeOK /\ ReportInv /\ WriterInv /\ JoinInv
  BY DEF IngestInv
<1>a. /\ phase = "write" /\ s \in groups /\ groups' = groups \ {s}
      /\ parts' = [parts EXCEPT ![k][n] = rows]
      /\ counters' = [counters EXCEPT ![k] = @ + 1]
      /\ phase' = (IF groups' = {} THEN "read" ELSE "write")
  BY DEF WriteGroup
<1>b. UNCHANGED <<feed, source, next, clean, seen, valid, reasons, assigned, joined>>
  BY DEF WriteGroup, sourceVars, reportVars
<1>c. /\ \A c : Chunk(c)' = Chunk(c) /\ \A p : (Keep(p)' <=> Keep(p)) /\ Positions' = Positions
      /\ \A p : StationOf(p)' = StationOf(p)
      /\ \A p : \A r \in Reasons : Rejected(p, r)' <=> Rejected(p, r)
  BY <1>b, SameFeed DEF sourceVars
<1>d. k \in Keys /\ counters[k] \in Nat
  BY <1>0 DEF Keys, IngestTypeOK
<1> HIDE DEF k, n, rows
<1>1. /\ Cardinality(groups) \in Nat /\ Cardinality(groups') = Cardinality(groups) - 1
      /\ Cardinality(groups) >= 1
  <2>1. IsFiniteSet(groups)
    BY <1>0, FS_Subset, IngestionAssumption DEF IngestTypeOK
  <2>2. Cardinality(groups') = Cardinality(groups) - 1 /\ IsFiniteSet(groups')
    BY <1>a, <2>1, FS_RemoveElement
  <2>3. Cardinality(groups) \in Nat /\ Cardinality(groups') \in Nat
    BY <2>1, <2>2, FS_CardinalityType
  <2>4. QED
    BY <2>2, <2>3
<1>2. n \in PartNumbers /\ n = counters[k]
  <2>1. counters[k] + Cardinality(groups) <= GroupsOf(next - 1)
    BY <1>0, <1>d DEF WriterInv
  <2>2. Len(feed) \in Nat /\ next \in 1..(Len(feed) + 1)
    BY <1>0, FeedLength DEF IngestTypeOK
  <2>3. next - 1 \in Nat /\ next - 1 <= Len(feed)
    BY <2>2
  <2>4. GroupsOf(next - 1) <= GroupsOf(Len(feed)) /\ GroupsOf(Len(feed)) <= MaxParts
    BY <1>0, <2>2, <2>3, GroupsGrow DEF IsFeed
  <2>5. GroupsOf(next - 1) \in Nat /\ GroupsOf(Len(feed)) \in Nat /\ MaxParts \in Nat
    BY <2>2, <2>3, GroupsPerChunk, IngestionAssumption
  <2>6. counters[k] <= MaxParts - 1
    BY <1>1, <1>d, <2>1, <2>4, <2>5
  <2>7. QED
    BY <1>d, <2>5, <2>6 DEF PartNumbers, n
<1>3. /\ parts[k][n] = {}
      /\ \A h \in Keys : \A m \in PartNumbers :
           parts'[h][m] = IF h = k /\ m = n THEN rows ELSE parts[h][m]
  BY <1>0, <1>a, <1>d, <1>2 DEF IngestTypeOK, WriterInv
<1>4. \A p : Pending(p)' <=> Pending(p) /\ StationOf(p) # s
  BY <1>a, <1>b, <1>c DEF Pending
<1>5. \A p : p \in rows <=> p \in clean /\ StationOf(p) = s
  BY DEF rows
<1>6. \A p \in rows : Pending(p) /\ p \in valid
  BY <1>0, <1>a, <1>5 DEF Pending, IngestTypeOK
<1>7. IngestTypeOK'
  <2>1. counters' \in [Keys -> 0..MaxParts]
    <3>1. n + 1 \in 0..MaxParts /\ n = counters[k]
      <4>1. MaxParts \in Nat
        BY IngestionAssumption
      <4>2. QED
        BY <1>2, <4>1 DEF PartNumbers
    <3>2. QED
      BY <1>0, <1>a, <3>1 DEF IngestTypeOK
  <2>2. parts' \in [Keys -> [PartNumbers -> SUBSET valid]]
    BY <1>0, <1>a, <1>6 DEF IngestTypeOK
  <2>3. phase' \in {"read", "write"} /\ groups' \subseteq Stations
    BY <1>0, <1>a DEF IngestTypeOK
  <2>4. QED
    BY <1>0, <1>b, <1>c, <2>1, <2>2, <2>3 DEF IngestTypeOK
<1>8. ReportInv'
  BY <1>0, <1>b, <1>c DEF ReportInv
<1>9. WriterInv'
  <2>1. phase' = "write" => clean' = {p \in Chunk(next - 1)' : Keep(p)'}
    BY <1>0, <1>a, <1>b, <1>c DEF WriterInv
  <2>2. ASSUME NEW h \in Keys
        PROVE  counters'[h] + Cardinality(groups') <= GroupsOf(next - 1)
    <3>1. counters[h] + Cardinality(groups) <= GroupsOf(next - 1) /\ counters[h] \in Nat
      BY <1>0 DEF WriterInv, IngestTypeOK
    <3>2. counters'[h] <= counters[h] + 1 /\ counters'[h] \in Nat
      BY <1>0, <1>a, <3>1 DEF IngestTypeOK
    <3>3. GroupsOf(next - 1) \in Nat
      <4>1. next - 1 \in Nat
        BY <1>0, FeedLength DEF IngestTypeOK
      <4>2. QED
        BY <4>1, GroupsPerChunk
    <3>4. QED
      BY <1>1, <3>1, <3>2, <3>3
  <2>3. ASSUME NEW h \in Keys, NEW m \in PartNumbers, m >= counters'[h]
        PROVE  parts'[h][m] = {}
    <3>1. CASE h = k
      <4>1. counters'[h] = n + 1 /\ n \in Nat /\ m \in Nat
        BY <1>0, <1>2, <1>a, <3>1 DEF IngestTypeOK, PartNumbers
      <4>2. m # n /\ m >= counters[k]
        BY <1>2, <2>3, <4>1
      <4>3. QED
        BY <1>0, <1>3, <3>1, <4>2 DEF WriterInv
    <3>2. CASE h # k
      BY <1>0, <1>3, <1>a, <2>3, <3>2 DEF WriterInv, IngestTypeOK
    <3>3. QED
      BY <3>1, <3>2
  <2>4. ASSUME NEW h \in Keys, NEW m \in PartNumbers, NEW p \in parts'[h][m]
        PROVE  /\ ~Pending(p)' /\ h = SafeKey[StationOf(p)']
               /\ \A i \in PartNumbers : p \in parts'[h][i] => i = m
    <3>1. CASE h = k /\ m = n
      <4>1. p \in rows /\ Pending(p) /\ StationOf(p) = s
        BY <1>3, <1>5, <1>6, <3>1
      <4>2. ASSUME NEW i \in PartNumbers, p \in parts[k][i] PROVE FALSE
        BY <1>0, <1>d, <4>1, <4>2 DEF WriterInv
      <4>3. \A i \in PartNumbers : p \in parts'[h][i] => i = m
        BY <1>3, <3>1, <4>2
      <4>4. h = SafeKey[StationOf(p)']
        BY <1>c, <3>1, <4>1 DEF k
      <4>5. QED
        BY <1>4, <4>1, <4>3, <4>4
    <3>2. CASE ~(h = k /\ m = n)
      <4>1. /\ p \in parts[h][m] /\ ~Pending(p) /\ h = SafeKey[StationOf(p)]
            /\ \A i \in PartNumbers : p \in parts[h][i] => i = m
        BY <1>0, <1>3, <3>2 DEF WriterInv
      <4>2. p \notin rows
        BY <1>6, <4>1
      <4>3. QED
        BY <1>3, <1>4, <1>c, <4>1, <4>2
    <3>3. QED
      BY <3>1, <3>2
  <2>5. ASSUME NEW p \in valid PROVE Pending(p)' \/ p \in PartRows(SafeKey[StationOf(p)])'
    <3>1. CASE Pending(p) /\ StationOf(p) = s
      <4>1. p \in parts'[k][n] /\ SafeKey[StationOf(p)'] = k
        BY <1>3, <1>5, <1>c, <1>d, <1>2, <3>1 DEF Pending, k
      <4>2. QED
        BY <1>2, <4>1 DEF PartRows, PartNumbers
    <3>2. CASE Pending(p) /\ StationOf(p) # s
      BY <1>4, <3>2
    <3>3. CASE p \in PartRows(SafeKey[StationOf(p)])
      <4>1. PICK m \in PartNumbers : p \in parts[SafeKey[StationOf(p)]][m]
        BY <3>3 DEF PartRows
      <4>2. SafeKey[StationOf(p)] \in Keys
        BY ValidRows
      <4>3. p \in parts'[SafeKey[StationOf(p)]][m]
        BY <1>3, <4>1, <4>2
      <4>4. QED
        BY <1>c, <4>1, <4>3 DEF PartRows, PartNumbers
    <3>4. QED
      BY <1>0, <3>1, <3>2, <3>3 DEF WriterInv
  <2>6. QED
    BY <1>b, <2>1, <2>2, <2>3, <2>4, <2>5 DEF WriterInv, Keys, PartNumbers
<1>10. JoinInv'
  BY <1>0, <1>a, <1>b DEF JoinInv, Clustered
<1>11. IsFeed(feed)' /\ QualityInv'
  BY <1>0, <1>a, <1>b DEF IsFeed, IsRow, QualityInv, AfterGate
<1>12. QED
  BY <1>7, <1>8, <1>9, <1>10, <1>11 DEF IngestInv

(***************************************************************************)
(* After the feed is read only the phase, the assignments and the joins    *)
(* change.                                                                 *)
(***************************************************************************)
LEMMA AfterFeed ==
    ASSUME IngestInv, UNCHANGED <<sourceVars, next, clean, groups, reportVars, writerVars>>,
           phase' # "write", phase # "write",
           phase' \in {"read", "cluster", "join", "failed", "train", "rank", "render", "done"},
           DOMAIN assigned' = Keys, DOMAIN joined' = Keys,
           JoinInv', QualityInv'
    PROVE  IngestInv'
<1>0. /\ IsFeed(feed) /\ IngestTypeOK /\ ReportInv /\ WriterInv
  BY DEF IngestInv
<1>a. UNCHANGED <<feed, source, next, clean, groups, seen, valid, reasons, counters, parts>>
  BY DEF sourceVars, reportVars, writerVars
<1>b. /\ \A c : Chunk(c)' = Chunk(c) /\ \A p : (Keep(p)' <=> Keep(p)) /\ Positions' = Positions
      /\ \A p : StationOf(p)' = StationOf(p)
      /\ \A p : \A r \in Reasons : Rejected(p, r)' <=> Rejected(p, r)
  BY SameFeed
<1>1. IsFeed(feed)'
  BY <1>0, <1>a DEF IsFeed, IsRow
<1>2. \A k \in Keys : PartRows(k)' = PartRows(k) /\ PartRows(k) \subseteq valid
  <2>1. ASSUME NEW k \in Keys PROVE PartRows(k)' = PartRows(k)
    BY <1>a DEF PartRows, PartNumbers
  <2>2. ASSUME NEW k \in Keys, NEW p \in PartRows(k) PROVE p \in valid
    BY <1>0 DEF PartRows, IngestTypeOK
  <2>3. QED
    BY <2>1, <2>2
<1>3. ASSUME NEW k \in Keys PROVE DOMAIN assigned'[k] \subseteq valid
  <2>1. CASE assigned'[k] = NotAssigned
    BY <2>1 DEF NotAssigned
  <2>2. CASE assigned'[k] # NotAssigned
    BY <1>2, <2>2 DEF JoinInv, Clustered
  <2>3. QED
    BY <2>1, <2>2
<1>4. IngestTypeOK'
  BY <1>0, <1>a, <1>b, <1>3 DEF IngestTypeOK
<1>5. ReportInv'
  BY <1>0, <1>a, <1>b DEF ReportInv
<1>6. \A p : ~Pending(p) /\ ~Pending(p)'
  BY DEF Pending
<1>7. WriterInv'
  <2>1. \A p \in valid : SafeKey[StationOf(p)] \in Keys
    BY ValidRows
  <2>2. \A p \in valid' : p \in PartRows(SafeKey[StationOf(p)])'
    BY <1>0, <1>2, <1>6, <1>a, <1>b, <2>1 DEF WriterInv, PartRows
  <2>3. ASSUME NEW k \in Keys, NEW n \in PartNumbers
        PROVE  /\ n >= counters'[k] => parts'[k][n] = {}
               /\ \A p \in parts'[k][n] :
                    /\ k = SafeKey[StationOf(p)']
                    /\ \A m \in PartNumbers : p \in parts'[k][m] => m = n
    BY <1>0, <1>a, <1>b DEF WriterInv
  <2>4. ASSUME NEW k \in Keys
        PROVE  counters'[k] + Cardinality(groups') <= GroupsOf(next' - 1)
    BY <1>0, <1>a DEF WriterInv
  <2>5. QED
    BY <1>6, <2>2, <2>3, <2>4 DEF WriterInv, Keys, PartNumbers
<1>8. QED
  BY <1>1, <1>4, <1>5, <1>7 DEF IngestInv

LEMMA ReadFailsKeeps == ASSUME IngestInv, ReadFails PROVE IngestInv'
<1>1. JoinInv'
  BY DEF ReadFails, writerVars, IngestInv, JoinInv, Clustered
<1>2. QualityInv'
  BY DEF ReadFails, QualityInv, AfterGate
<1>3. DOMAIN assigned' = Keys /\ DOMAIN joined' = Keys
  BY DEF ReadFails, IngestInv, IngestTypeOK
<1>4. QED
  BY <1>1, <1>2, <1>3, AfterFeed DEF ReadFails

LEMMA ReportKeeps == ASSUME IngestInv, Report PROVE IngestInv'
<1>0. /\ phase = "read" /\ phase' \in {"cluster", "failed"}
      /\ phase' = "cluster" => next > Len(feed) /\ PassedQualityGate
      /\ UNCHANGED <<sourceVars, next, clean, groups, reportVars, writerVars, assigned, joined>>
  BY DEF Report
<1>1. JoinInv'
  BY <1>0 DEF IngestInv, JoinInv, Clustered
<1>2. QualityInv'
  BY <1>0 DEF QualityInv, AfterGate, PassedQualityGate, reportVars, sourceVars
<1>3. DOMAIN assigned' = Keys /\ DOMAIN joined' = Keys
  BY <1>0 DEF IngestInv, IngestTypeOK
<1>4. QED
  BY <1>0, <1>1, <1>2, <1>3, AfterFeed

LEMMA LabellingsOfRows ==
    ASSUME NEW rows, NEW labels \in Labellings(rows)
    PROVE  DOMAIN labels = rows
BY DEF Labellings

LEMMA ClusterKeeps == ASSUME IngestInv, NEW k \in Keys, Cluster(k) PROVE IngestInv'
<1>0. /\ phase = "cluster" /\ phase' = phase
      /\ UNCHANGED <<sourceVars, next, clean, groups, reportVars, writerVars, joined>>
  BY DEF Cluster
<1>1. PICK labels \in Labellings(PartRows(k)) : assigned' = [assigned EXCEPT ![k] = labels]
  BY DEF Cluster
<1>2. DOMAIN labels = PartRows(k)
  BY LabellingsOfRows
<1>3. DOMAIN assigned' = Keys /\ DOMAIN joined' = Keys
  BY <1>0, <1>1 DEF IngestInv, IngestTypeOK
<1>4. \A h \in Keys : PartRows(h)' = PartRows(h)
  BY <1>0 DEF PartRows, PartNumbers, writerVars
<1>5. \A h \in Keys : Clustered(h)' => DOMAIN assigned'[h] = PartRows(h)
  BY <1>1, <1>2 DEF IngestInv, IngestTypeOK, JoinInv, Clustered
<1>6. JoinInv'
  BY <1>0, <1>4, <1>5 DEF IngestInv, JoinInv
<1>7. QualityInv'
  BY <1>0 DEF IngestInv, QualityInv, AfterGate, PassedQualityGate, reportVars, sourceVars
<1>8. QED
  BY <1>0, <1>3, <1>6, <1>7, AfterFeed

\* What a join reads does not change while other partitions are joined.
LEMMA SameMerge ==
    ASSUME UNCHANGED <<sourceVars, parts, assigned>>
    PROVE  /\ \A k \in Keys : Merge(k)' = Merge(k) /\ PartRows(k)' = PartRows(k)
           /\ \A k \in Keys : Clustered(k)' <=> Clustered(k)
<1>1. \A k \in Keys : PartRows(k)' = PartRows(k)
  BY DEF PartRows, PartNumbers
<1>2. \A p : Row(p)' = Row(p)
  BY SameFeed
<1>3. \A k, p : Matches(k, p)' = Matches(k, p)
  BY <1>2 DEF Matches
<1>4. \A k \in Keys : Merge(k)' = Merge(k)
  BY <1>1, <1>3 DEF Merge
<1>5. QED
  BY <1>1, <1>4 DEF Clustered

LEMMA AllClusteredKeeps == ASSUME IngestInv, AllClustered PROVE IngestInv'
<1>0. /\ phase = "cluster" /\ phase' = "join"
      /\ \A k \in ListedPartitions : Clustered(k)
      /\ UNCHANGED <<sourceVars, next, clean, groups, reportVars, writerVars, assigned, joined>>
  BY DEF AllClustered
<1>1. ListedPartitions' = ListedPartitions
  BY <1>0 DEF ListedPartitions, writerVars, Keys
<1>2. /\ \A k \in Keys : PartRows(k)' = PartRows(k)
      /\ \A k \in Keys : Clustered(k)' <=> Clustered(k)
  BY <1>0, SameMerge DEF writerVars
<1>3. ListedPartitions \subseteq Keys
  BY DEF ListedPartitions
<1>4. JoinInv'
  BY <1>0, <1>1, <1>2, <1>3 DEF IngestInv, JoinInv
<1>5. QualityInv'
  BY <1>0 DEF IngestInv, QualityInv, AfterGate, PassedQualityGate, reportVars, sourceVars
<1>6. DOMAIN assigned' = Keys /\ DOMAIN joined' = Keys
  BY <1>0 DEF IngestInv, IngestTypeOK
<1>7. QED
  BY <1>0, <1>4, <1>5, <1>6, AfterFeed

LEMMA JoinKeeps == ASSUME IngestInv, NEW k \in Keys, Join(k) PROVE IngestInv'
<1>0. /\ phase = "join" /\ phase' \in {"train", "join"} /\ k \in ListedPartitions
      /\ joined' = [joined EXCEPT ![k] = Merge(k)]
      /\ UNCHANGED <<sourceVars, next, clean, groups, reportVars, writerVars, assigned>>
  BY DEF Join
<1>1. ListedPartitions' = ListedPartitions
  BY <1>0 DEF ListedPartitions, writerVars, Keys
<1>2. /\ \A h \in Keys : Merge(h)' = Merge(h) /\ PartRows(h)' = PartRows(h)
      /\ \A h \in Keys : Clustered(h)' <=> Clustered(h)
  BY <1>0, SameMerge DEF writerVars
<1>3. Clustered(k) /\ ListedPartitions \subseteq Keys
  BY <1>0 DEF IngestInv, JoinInv, ListedPartitions
<1>4. \A h \in Keys : joined'[h] # {} => Clustered(h) /\ joined'[h] = Merge(h)
  BY <1>0, <1>3 DEF IngestInv, IngestTypeOK, JoinInv
<1>5. JoinInv'
  BY <1>0, <1>1, <1>2, <1>3, <1>4 DEF IngestInv, JoinInv
<1>6. QualityInv'
  BY <1>0 DEF IngestInv, QualityInv, AfterGate, PassedQualityGate, reportVars, sourceVars
<1>7. DOMAIN assigned' = Keys /\ DOMAIN joined' = Keys
  BY <1>0 DEF IngestInv, IngestTypeOK
<1>8. QED
  BY <1>0, <1>5, <1>6, <1>7, AfterFeed

LEMMA LaterStepKeeps == ASSUME IngestInv, LaterStep PROVE IngestInv'
<1>0. /\ phase \in {"train", "rank", "render"}
      /\ phase' \in {"rank", "render", "done", "failed"}
      /\ UNCHANGED <<sourceVars, next, clean, groups, reportVars, writerVars, assigned, joined>>
  BY DEF LaterStep
<1>1. ListedPartitions' = ListedPartitions /\ ListedPartitions \subseteq Keys
  BY <1>0 DEF ListedPartitions, writerVars, Keys
<1>2. /\ \A k \in Keys : Merge(k)' = Merge(k) /\ PartRows(k)' = PartRows(k)
      /\ \A k \in Keys : Clustered(k)' <=> Clustered(k)
  BY <1>0, SameMerge DEF writerVars
<1>3. JoinInv'
  BY <1>0, <1>1, <1>2 DEF IngestInv, JoinInv
<1>4. QualityInv'
  BY <1>0 DEF IngestInv, QualityInv, AfterGate, PassedQualityGate, reportVars, sourceVars
<1>5. DOMAIN assigned' = Keys /\ DOMAIN joined' = Keys
  BY <1>0 DEF IngestInv, IngestTypeOK
<1>6. QED
  BY <1>0, <1>3, <1>4, <1>5, AfterFeed

LEMMA StandingStillKeeps == ASSUME IngestInv, UNCHANGED ingestVars PROVE IngestInv'
<1>0. UNCHANGED <<feed, source, phase, next, clean, groups, seen, valid, reasons, counters, parts,
                  assigned, joined>>
  BY DEF ingestVars, sourceVars, reportVars, writerVars
<1>1. /\ \A c : Chunk(c)' = Chunk(c) /\ \A p : (Keep(p)' <=> Keep(p)) /\ Positions' = Positions
      /\ \A p : StationOf(p)' = StationOf(p)
      /\ \A p : \A r \in Reasons : Rejected(p, r)' <=> Rejected(p, r)
  BY <1>0, SameFeed DEF sourceVars
<1>2. /\ \A k \in Keys : Merge(k)' = Merge(k) /\ PartRows(k)' = PartRows(k)
      /\ \A k \in Keys : Clustered(k)' <=> Clustered(k)
  BY <1>0, SameMerge DEF sourceVars
<1>3. ReportInv'
  BY <1>0, <1>1 DEF IngestInv, ReportInv
<1>4. WriterInv'
  <2>1. \A p : Pending(p)' <=> Pending(p)
    BY <1>0, <1>1 DEF Pending
  <2>2. \A p \in valid : PartRows(SafeKey[StationOf(p)])' = PartRows(SafeKey[StationOf(p)])
    BY <1>1, <1>2, ValidRows
  <2>3. QED
    BY <1>0, <1>1, <2>1, <2>2 DEF IngestInv, WriterInv, PartNumbers, Keys
<1>5. JoinInv'
  BY <1>0, <1>2 DEF IngestInv, JoinInv, ListedPartitions, Keys
<1>6. IsFeed(feed)' /\ IngestTypeOK' /\ QualityInv'
  BY <1>0, <1>1 DEF IngestInv, IngestTypeOK, IsFeed, IsRow, QualityInv, AfterGate, PassedQualityGate
<1>7. QED
  BY <1>3, <1>4, <1>5, <1>6 DEF IngestInv

LEMMA IngestInvStep == IngestInv /\ RunStep => IngestInv'
BY ReadChunkKeeps, WriteGroupKeeps, ReadFailsKeeps, ReportKeeps, ClusterKeeps, AllClusteredKeeps,
   JoinKeeps, LaterStepKeeps, StandingStillKeeps
   DEF RunStep, IngestNext

(***************************************************************************)
(* What the invariant says of every reachable state.                       *)
(***************************************************************************)
LEMMA DropsHaveReasons == IngestInv => EveryDropHasAReason
BY KeptOrRejected DEF IngestInv, ReportInv, EveryDropHasAReason

LEMMA StoredOnce == IngestInv => EveryValidRowIsStoredOnce
<1> SUFFICES ASSUME IngestInv, phase # "write", NEW p \in valid
             PROVE  \E n \in PartNumbers :
                      {h \in Keys \X PartNumbers : p \in parts[h[1]][h[2]]}
                        = {<<SafeKey[StationOf(p)], n>>}
  BY DEF EveryValidRowIsStoredOnce
<1>1. SafeKey[StationOf(p)] \in Keys
  BY ValidRows
<1>2. PICK n \in PartNumbers : p \in parts[SafeKey[StationOf(p)]][n]
  BY DEF IngestInv, WriterInv, Pending, PartRows
<1>3. ASSUME NEW k \in Keys, NEW m \in PartNumbers, p \in parts[k][m]
      PROVE  k = SafeKey[StationOf(p)] /\ m = n
  BY <1>2, <1>3 DEF IngestInv, WriterInv
<1>4. QED
  BY <1>1, <1>2, <1>3

LEMMA OwnAssignment == IngestInv => EveryRowMeetsItsAssignment
<1> SUFFICES ASSUME IngestInv, NEW k \in Keys, joined[k] # {}, NEW p \in PartRows(k)
             PROVE  <<p, p>> \in joined[k]
  BY DEF EveryRowMeetsItsAssignment
<1>1. joined[k] = Merge(k) /\ DOMAIN assigned[k] = PartRows(k)
  BY DEF IngestInv, JoinInv
<1>2. p \in Matches(k, p)
  BY <1>1 DEF Matches
<1>3. QED
  BY <1>1, <1>2 DEF Merge

LEMMA RowsOfOnePartition ==
    ASSUME IngestInv, NEW k \in Keys, NEW p \in PartRows(k)
    PROVE  p \in valid
BY DEF IngestInv, IngestTypeOK, PartRows

LEMMA CountedOnce == IngestInv => NoRowIsCountedTwice
<1> SUFFICES ASSUME IngestInv, NoIdInTwoChunks, NEW k \in Keys,
                    NEW pair \in joined[k], NEW other \in joined[k], pair[1] = other[1]
             PROVE  pair = other
  BY DEF NoRowIsCountedTwice
<1>1. joined[k] = Merge(k) /\ DOMAIN assigned[k] = PartRows(k)
  BY DEF IngestInv, JoinInv
<1>2. ASSUME NEW m \in Merge(k)
      PROVE  \E p \in PartRows(k) : \E q \in Matches(k, p) : m = <<p, q>>
  <2>1. PICK p \in PartRows(k) :
               m \in {<<p, q>> : q \in IF Matches(k, p) = {} THEN {Unmatched} ELSE Matches(k, p)}
    BY DEF Merge
  <2>2. Matches(k, p) # {}
    BY <1>1 DEF Matches
  <2>3. QED
    BY <2>1, <2>2
<1>3. PICK p \in PartRows(k) : \E q \in Matches(k, p) : pair = <<p, q>>
  BY <1>1, <1>2
<1>4. PICK q \in Matches(k, p) : pair = <<p, q>>
  BY <1>3
<1>5. PICK r \in Matches(k, p) : other = <<p, r>>
  BY <1>1, <1>2, <1>4
<1>6. q \in valid /\ r \in valid /\ Row(q).id = Row(r).id
  BY <1>1, RowsOfOnePartition DEF Matches
<1>7. q[1] = r[1]
  BY <1>6 DEF NoIdInTwoChunks
<1>8. q = r
  BY <1>6, <1>7, ValidRows, OneKeptPerId DEF IngestInv
<1>9. QED
  BY <1>4, <1>5, <1>8

\* The reports speak of the whole feed, and of what is stored.
LEMMA GateSpeaksOfTheFeed == IngestInv => OnlyGoodFeedsGoOn
<1> SUFFICES ASSUME IngestInv, phase \in AfterGate
             PROVE  100 * Cardinality(Arrived \ Stored) <= MaxRejectedPct * Cardinality(Arrived)
  BY DEF OnlyGoodFeedsGoOn
<1>1. seen = Arrived
  <2>1. next - 1 = Len(feed)
    <3>1. next > Len(feed) /\ next \in 1..(Len(feed) + 1) /\ Len(feed) \in Nat
      BY FeedLength DEF IngestInv, QualityInv, IngestTypeOK
    <3>2. QED
      BY <3>1
  <2>2. QED
    BY <2>1 DEF IngestInv, ReportInv, Arrived
<1>2. valid = Stored
  <2>1. ASSUME NEW p \in valid PROVE p \in Stored
    <3>1. ~Pending(p)
      BY DEF Pending, AfterGate
    <3>2. p \in PartRows(SafeKey[StationOf(p)]) /\ SafeKey[StationOf(p)] \in Keys
      BY <3>1, ValidRows DEF IngestInv, WriterInv
    <3>3. QED
      BY <3>2 DEF Stored
  <2>2. ASSUME NEW p \in Stored PROVE p \in valid
    BY <2>2, RowsOfOnePartition DEF Stored
  <2>3. QED
    BY <2>1, <2>2
<1>3. QED
  BY <1>1, <1>2 DEF IngestInv, QualityInv, PassedQualityGate

LEMMA IngestInvMeans ==
    IngestInv => /\ IngestTypeOK /\ EveryDropHasAReason /\ EveryValidRowIsStoredOnce
                 /\ OnlyGoodFeedsGoOn /\ EveryRowMeetsItsAssignment /\ NoRowIsCountedTwice
BY DropsHaveReasons, StoredOnce, GateSpeaksOfTheFeed, OwnAssignment, CountedOnce DEF IngestInv

\* The inductive invariant holds of every run, whatever its feed.
THEOREM IngestInvariant == IngestSpec => []IngestInv
<1>1. IngestInv /\ [IngestNext]_ingestVars => IngestInv'
  BY IngestInvStep DEF RunStep
<1>2. QED
  BY IngestInvInit, <1>1, PTL DEF IngestSpec
=============================================================================
