---------------------------- MODULE ScoringProofs ----------------------------
(***************************************************************************)
(* What a whole training run guarantees of every feed: the guarantees of   *)
(* the data phases, that the leaderboard is the one a single pass over the *)
(* feed would give, that its hotspots are those the model knows, that a    *)
(* dispatch status is true of the feed, and that the heatmap keeps its     *)
(* limit.  How a hotspot's rows are summed up plays no part in the first   *)
(* two: Summary and Rates are opened for the statuses and the types only.  *)
(***************************************************************************)
EXTENDS Scoring, IngestionProofs

(***************************************************************************)
(* A step of the run is a step of the data phases, or a later one.         *)
(***************************************************************************)
LEMMA RunSteps == [ScoreNext]_runVars => RunStep
<1>1. CASE PrepareData
  BY <1>1 DEF PrepareData, RunStep, IngestNext
<1>2. ASSUME NEW k \in Keys, ScorePartition(k) PROVE RunStep
  BY <1>2 DEF ScorePartition, RunStep, IngestNext
<1>3. CASE TrainModel \/ BuildLeaderboard \/ GenerateHeatmap
  BY <1>3 DEF TrainModel, BuildLeaderboard, GenerateHeatmap, RunStep, LaterStep
<1>4. CASE UNCHANGED runVars
  BY <1>4 DEF runVars, RunStep
<1>5. QED
  BY <1>1, <1>2, <1>3, <1>4 DEF ScoreNext

LEMMA DataPhases == ScoreSpec => []IngestInv
<1>1. ScoreInit => IngestInv
  BY IngestInvInit DEF ScoreInit
<1>2. IngestInv /\ [ScoreNext]_runVars => IngestInv'
  BY RunSteps, IngestInvStep
<1>3. QED
  BY <1>1, <1>2, PTL DEF ScoreSpec

\* The data phases keep their types.
THEOREM IngestTypeCorrect == ScoreSpec => []IngestTypeOK
BY DataPhases, IngestInvMeans, PTL

\* No row is dropped without a reason, and none is kept with one.
THEOREM NoSilentDrop == ScoreSpec => []EveryDropHasAReason
BY DataPhases, IngestInvMeans, PTL

\* Part files neither lose nor repeat a valid row.
THEOREM PartitionsHoldTheFeed == ScoreSpec => []EveryValidRowIsStoredOnce
BY DataPhases, IngestInvMeans, PTL

\* No model is trained unless the whole feed was read and, of its rows, those that are
\* in no part file stay within the rejection limit.
THEOREM BadFeedsStop == ScoreSpec => []OnlyGoodFeedsGoOn
BY DataPhases, IngestInvMeans, PTL

\* However the parallel clustering is scheduled, the join finds every assignment.
THEOREM JoinsComeAfterClusters == ScoreSpec => []EveryRowMeetsItsAssignment
BY DataPhases, IngestInvMeans, PTL

\* The join on id repeats no row, as long as ids do not survive in two chunks.
THEOREM JoinsDoNotMultiply == ScoreSpec => []NoRowIsCountedTwice
BY DataPhases, IngestInvMeans, PTL

(***************************************************************************)
(* While assignments and part files stay, so do the hotspots, their rows,  *)
(* and whatever is computed from them.                                     *)
(***************************************************************************)
LEMMA SameHotspots ==
    ASSUME UNCHANGED <<sourceVars, writerVars, assigned>>
    PROVE  /\ \A k \in Keys : Merge(k)' = Merge(k)
           /\ \A k \in Keys : Hotspots(k)' = Hotspots(k)
           /\ \A h \in Keys \X UNION {Hotspots(k) : k \in Keys} :
                /\ SummaryOf(h)' = SummaryOf(h) /\ RatesOf(h)' = RatesOf(h)
                /\ TrendsOf(h)' = TrendsOf(h)
           /\ ListedPartitions' = ListedPartitions
<1>1. /\ \A k \in Keys : Merge(k)' = Merge(k) /\ PartRows(k)' = PartRows(k)
      /\ \A p : Row(p)' = Row(p)
  BY SameMerge, SameFeed DEF writerVars
<1>2. \A k \in Keys : Hotspots(k)' = Hotspots(k)
  BY <1>1 DEF Hotspots, InHotspot
<1>3. \A k \in Keys : \A l : HotspotRows(k, l)' = HotspotRows(k, l)
  BY <1>1 DEF HotspotRows, InHotspot
<1>4. ListedPartitions' = ListedPartitions /\ ListedPartitions \subseteq Keys
  BY DEF ListedPartitions, writerVars, Keys
<1>5. \A k \in Keys : Times(k)' = Times(k)
  BY <1>1 DEF Times
<1>6. MinTime' = MinTime /\ MaxTime' = MaxTime
  BY <1>4, <1>5 DEF MinTime, MaxTime
<1>7. \A pair : Time(pair)' = Time(pair) /\ Hour(pair)' = Hour(pair)
  BY <1>1 DEF Time, Hour
<1>8. \A id, rows : Summary(id, rows)' = Summary(id, rows)
  <2>1. \A rows, hour : InHour(rows, hour)' = InHour(rows, hour)
    BY <1>7 DEF InHour
  <2>2. ASSUME NEW rows PROVE TwiceMedian(rows)' = TwiceMedian(rows)
    <3>1. {Hour(pair)' : pair \in rows} = {Hour(pair) : pair \in rows}
      BY <1>7
    <3>2. QED
      BY <2>1, <3>1 DEF TwiceMedian
  <2>3. \A rows, pair : Impact(rows, pair)' = Impact(rows, pair)
    BY <1>1, <1>7, <2>1, <2>2 DEF Impact, RushFactor
  <2>4. QED
    BY <1>1, <2>3 DEF Summary
<1>9. \A id, rows : Rates(id, rows)' = Rates(id, rows)
  BY <1>6, <1>7 DEF Rates, Recency, Growth, Older
<1>10. QED
  BY <1>1, <1>2, <1>3, <1>4, <1>7, <1>8, <1>9 DEF SummaryOf, RatesOf, TrendsOf

LEMMA HotspotsOfKeys ==
    ASSUME NEW h \in ScoredHotspots
    PROVE  /\ h = <<h[1], h[2]>> /\ h[1] \in Keys /\ joined[h[1]] # {} /\ h[2] \in Hotspots(h[1])
           /\ h \in Keys \X UNION {Hotspots(k) : k \in Keys}
BY DEF ScoredHotspots

(***************************************************************************)
(* The rollups, step by step.                                              *)
(***************************************************************************)
LEMMA ScoreInvInit == ScoreInit => ScoreInv
<1> SUFFICES ASSUME ScoreInit PROVE ScoreInv
  OBVIOUS
<1>1. IngestInv
  BY IngestInvInit DEF ScoreInit
<1>2. phase = "read" /\ joined = [k \in Keys |-> {}]
  BY DEF ScoreInit, IngestInit
<1>3. ScoredHotspots = {}
  BY <1>2 DEF ScoredHotspots
<1>4. RollupInv
  BY <1>2, <1>3 DEF RollupInv, ScoreInit
<1>5. QED
  BY <1>1, <1>2, <1>4 DEF ScoreInv

LEMMA PrepareDataKeeps ==
    ASSUME ScoreInv, IngestInv', PrepareData, UNCHANGED scoreVars
    PROVE  ScoreInv'
<1>1. phase \in {"read", "write", "cluster"} /\ UNCHANGED joined
  BY DEF PrepareData, ReadChunk, ReadFails, Report, AllClustered, WriteGroup, Cluster
<1>2. phase' \in {"read", "write", "cluster", "join", "failed"}
  BY DEF PrepareData, ReadChunk, ReadFails, Report, AllClustered, WriteGroup, Cluster
<1>3. \A k \in Keys : joined[k] = {} /\ joined'[k] = {}
  BY <1>1 DEF ScoreInv, IngestInv, JoinInv
<1>4. ScoredHotspots = {} /\ ScoredHotspots' = {}
  BY <1>3 DEF ScoredHotspots, Keys
<1>5. RollupInv'
  <2>1. summaries' = {} /\ rates' = {} /\ trends' = {}
    BY <1>4 DEF ScoreInv, RollupInv, scoreVars
  <2>2. QED
    BY <1>2, <1>3, <1>4, <2>1 DEF RollupInv, Keys
<1>6. QED
  BY <1>2, <1>5 DEF ScoreInv

LEMMA ScorePartitionKeeps ==
    ASSUME ScoreInv, IngestInv', NEW k \in Keys, ScorePartition(k)
    PROVE  ScoreInv'
<1> DEFINE new == {<<k, l>> : l \in Hotspots(k)}
<1>0. /\ phase = "join" /\ phase' \in {"join", "train"} /\ k \in ListedPartitions
      /\ joined[k] = {} /\ joined' = [joined EXCEPT ![k] = Merge(k)]
      /\ phase' = "train" => \A other \in ListedPartitions \ {k} : joined[other] # {}
      /\ UNCHANGED <<sourceVars, writerVars, assigned>>
  BY DEF ScorePartition, Join
<1>1. /\ \A h \in Keys : Merge(h)' = Merge(h)
      /\ \A h \in Keys : Hotspots(h)' = Hotspots(h)
      /\ \A h \in Keys \X UNION {Hotspots(m) : m \in Keys} :
           /\ SummaryOf(h)' = SummaryOf(h) /\ RatesOf(h)' = RatesOf(h)
           /\ TrendsOf(h)' = TrendsOf(h)
      /\ ListedPartitions' = ListedPartitions
  BY <1>0, SameHotspots
<1>2. DOMAIN joined = Keys /\ Keys' = Keys
  BY DEF ScoreInv, IngestInv, IngestTypeOK, Keys
<1>3. \A h \in Keys : joined'[h] = IF h = k THEN Merge(k) ELSE joined[h]
  BY <1>0, <1>2
<1>4. Merge(k) = {} => Hotspots(k) = {}
  BY DEF Hotspots
<1>5. ScoredHotspots' = ScoredHotspots \cup new
  BY <1>0, <1>1, <1>2, <1>3, <1>4 DEF ScoredHotspots
<1>6. \A h \in new : h[1] = k /\ h[2] \in Hotspots(k)
                     /\ h \in Keys \X UNION {Hotspots(m) : m \in Keys}
  OBVIOUS
<1>7. \A h \in ScoredHotspots' : SummaryOf(h)' = SummaryOf(h) /\ RatesOf(h)' = RatesOf(h)
                                 /\ TrendsOf(h)' = TrendsOf(h)
  BY <1>1, <1>5, <1>6, HotspotsOfKeys
<1>8. summaries' = {SummaryOf(h) : h \in ScoredHotspots} \cup {SummaryOf(h) : h \in new}
  <2>1. \A l : SummaryOf(<<k, l>>) = Summary(ClusterId(k, l), HotspotRows(k, l))
    BY DEF SummaryOf
  <2>2. {SummaryOf(h) : h \in new}
          = {Summary(ClusterId(k, l), HotspotRows(k, l)) : l \in Hotspots(k)}
    BY <2>1
  <2>3. QED
    BY <2>2 DEF ScorePartition, ScoreInv, RollupInv
<1>9. rates' = {RatesOf(h) : h \in ScoredHotspots} \cup {RatesOf(h) : h \in new}
  <2>1. \A l : RatesOf(<<k, l>>) = Rates(ClusterId(k, l), HotspotRows(k, l))
    BY DEF RatesOf
  <2>2. {RatesOf(h) : h \in new} = {Rates(ClusterId(k, l), HotspotRows(k, l)) : l \in Hotspots(k)}
    BY <2>1
  <2>3. QED
    BY <2>2 DEF ScorePartition, ScoreInv, RollupInv
<1>10. trends' = (UNION {TrendsOf(h) : h \in ScoredHotspots}) \cup UNION {TrendsOf(h) : h \in new}
  <2> DEFINE counts(l) == {<<Time(pair) \div 24, ClusterId(k, l), Hour(pair)>> :
                             pair \in HotspotRows(k, l)}
  <2>1. \A l : TrendsOf(<<k, l>>) = counts(l)
    BY DEF TrendsOf
  <2>2. trends' = trends \cup UNION {counts(l) : l \in Hotspots(k)}
    BY DEF ScorePartition
  <2> HIDE DEF counts
  <2>3. {TrendsOf(h) : h \in new} = {counts(l) : l \in Hotspots(k)}
    BY <2>1
  <2>4. QED
    BY <2>2, <2>3 DEF ScoreInv, RollupInv
<1> HIDE DEF new
<1>11. /\ summaries' = {SummaryOf(h)' : h \in ScoredHotspots'}
       /\ rates' = {RatesOf(h)' : h \in ScoredHotspots'}
       /\ trends' = UNION {TrendsOf(h)' : h \in ScoredHotspots'}
  <2>1. summaries' = {SummaryOf(h)' : h \in ScoredHotspots'}
    BY <1>5, <1>7, <1>8
  <2>2. rates' = {RatesOf(h)' : h \in ScoredHotspots'}
    BY <1>5, <1>7, <1>9
  <2>3. \A h \in ScoredHotspots' : TrendsOf(h)' = TrendsOf(h)
    BY <1>7
  <2>4. trends' = UNION {TrendsOf(h)' : h \in ScoredHotspots'}
    BY <1>5, <1>10, <2>3
  <2>5. QED
    BY <2>1, <2>2, <2>4
<1>12. \A h \in Keys : joined'[h] # {} => h \in ListedPartitions
  BY <1>0, <1>3 DEF ScoreInv, RollupInv
<1>13. phase' = "train" => \A h \in ListedPartitions : joined'[h] = Merge(h)
  BY <1>0, <1>3 DEF ScoreInv, IngestInv, JoinInv, ListedPartitions
<1>14. ListedPartitions \subseteq Keys
  BY DEF ListedPartitions
<1>15. RollupInv'
  BY <1>0, <1>1, <1>2, <1>11, <1>12, <1>13, <1>14 DEF RollupInv
<1>16. QED
  BY <1>0, <1>15 DEF ScoreInv

\* After the join the rollups stay as they are.
LEMMA RollupsStay ==
    ASSUME ScoreInv,
           UNCHANGED <<sourceVars, writerVars, assigned, joined, summaries, rates, trends>>,
           \/ phase' = phase
           \/ phase \in {"train", "rank", "render"}
    PROVE  RollupInv' /\ ScoredHotspots' = ScoredHotspots
<1>1. /\ \A k \in Keys : Merge(k)' = Merge(k)
      /\ \A k \in Keys : Hotspots(k)' = Hotspots(k)
      /\ \A h \in Keys \X UNION {Hotspots(k) : k \in Keys} :
           /\ SummaryOf(h)' = SummaryOf(h) /\ RatesOf(h)' = RatesOf(h)
           /\ TrendsOf(h)' = TrendsOf(h)
      /\ ListedPartitions' = ListedPartitions /\ Keys' = Keys
      /\ ListedPartitions \subseteq Keys
  BY SameHotspots DEF Keys, ListedPartitions
<1>2. ScoredHotspots' = ScoredHotspots
  BY <1>1 DEF ScoredHotspots
<1>3. \A h \in ScoredHotspots : SummaryOf(h)' = SummaryOf(h) /\ RatesOf(h)' = RatesOf(h)
                                /\ TrendsOf(h)' = TrendsOf(h)
  BY <1>1, HotspotsOfKeys
<1>4. /\ summaries' = {SummaryOf(h)' : h \in ScoredHotspots'}
      /\ rates' = {RatesOf(h)' : h \in ScoredHotspots'}
      /\ trends' = UNION {TrendsOf(h)' : h \in ScoredHotspots'}
  BY <1>2, <1>3 DEF ScoreInv, RollupInv
<1>5. RollupInv'
  BY <1>1, <1>4 DEF ScoreInv, RollupInv
<1>6. QED
  BY <1>2, <1>5

LEMMA LaterPhasesKeep ==
    ASSUME ScoreInv, IngestInv', TrainModel \/ BuildLeaderboard \/ GenerateHeatmap
    PROVE  ScoreInv'
<1>1. /\ phase \in {"train", "rank", "render"}
      /\ UNCHANGED <<sourceVars, writerVars, assigned, joined, summaries, rates, trends>>
  BY DEF TrainModel, BuildLeaderboard, GenerateHeatmap
<1>2. RollupInv' /\ Entries' = Entries
  BY <1>1, RollupsStay DEF Entries
<1>3. phase' \in {"rank", "render", "done"} => encoder' = {t[2] : t \in trends'}
  BY <1>1 DEF ScoreInv, TrainModel, BuildLeaderboard, GenerateHeatmap
<1>4. phase' \in {"render", "done"} =>
        /\ leaderboard' \in [1..Cardinality(Entries') -> Entries']
        /\ RankedByPriority(leaderboard')
  BY <1>2 DEF ScoreInv, TrainModel, BuildLeaderboard, GenerateHeatmap
<1>5. RankedByPriority(leaderboard)' <=> RankedByPriority(leaderboard')
  BY DEF RankedByPriority
<1>6. QED
  BY <1>2, <1>3, <1>4, <1>5 DEF ScoreInv

LEMMA ScoreInvStep == ScoreInv /\ [ScoreNext]_runVars => ScoreInv'
<1> SUFFICES ASSUME ScoreInv, [ScoreNext]_runVars PROVE ScoreInv'
  OBVIOUS
<1>1. IngestInv'
  BY RunSteps, IngestInvStep DEF ScoreInv
<1>2. CASE UNCHANGED runVars
  <2>1. /\ UNCHANGED <<sourceVars, writerVars, assigned, joined, summaries, rates, trends>>
        /\ UNCHANGED <<phase, encoder, leaderboard>>
    BY <1>2 DEF runVars, ingestVars, scoreVars
  <2>2. RollupInv' /\ Entries' = Entries
    BY <2>1, RollupsStay DEF Entries
  <2>3. QED
    BY <1>1, <2>1, <2>2 DEF ScoreInv, RankedByPriority
<1>3. QED
  BY <1>1, <1>2, PrepareDataKeeps, ScorePartitionKeeps, LaterPhasesKeep DEF ScoreNext

\* The inductive invariant holds of every run, whatever its feed.
THEOREM ScoreInvariant == ScoreSpec => []ScoreInv
BY ScoreInvInit, ScoreInvStep, PTL DEF ScoreSpec

(***************************************************************************)
(* Everything is finite, so a ranking without repetition is of all it      *)
(* ranks.                                                                  *)
(***************************************************************************)
LEMMA FiniteImage ==
    ASSUME NEW S, IsFiniteSet(S), NEW f, DOMAIN f = S
    PROVE  IsFiniteSet({f[x] : x \in S})
<1> DEFINE T == {f[x] : x \in S}
           g == [x \in S |-> f[x]]
<1>1. g \in Surjection(S, T)
  BY DEF Surjection
<1>2. QED
  BY <1>1, FS_Surjection

LEMMA FiniteFeed == ASSUME IngestInv PROVE IsFiniteSet(Positions)
<1> DEFINE line(c) == [i \in 1..Len(feed[c]) |-> <<c, i>>]
           lines   == [c \in 1..Len(feed) |-> {<<c, i>> : i \in 1..Len(feed[c])}]
<1>0. IsFeed(feed) /\ Len(feed) \in Nat
  BY FeedLength DEF IngestInv
<1>1. ASSUME NEW c \in 1..Len(feed) PROVE IsFiniteSet(lines[c])
  <2>1. Len(feed[c]) \in Nat
    BY <1>0 DEF IsFeed
  <2>2. IsFiniteSet(1..Len(feed[c])) /\ DOMAIN line(c) = 1..Len(feed[c])
    BY <2>1, FS_Interval
  <2>3. IsFiniteSet({line(c)[i] : i \in 1..Len(feed[c])})
    BY <2>2, FiniteImage
  <2>4. {line(c)[i] : i \in 1..Len(feed[c])} = {<<c, i>> : i \in 1..Len(feed[c])}
    OBVIOUS
  <2>5. QED
    BY <2>3, <2>4
<1>2. IsFiniteSet({lines[c] : c \in 1..Len(feed)})
  <2>1. IsFiniteSet(1..Len(feed)) /\ DOMAIN lines = 1..Len(feed)
    BY <1>0, FS_Interval
  <2>2. QED
    BY <2>1, FiniteImage
<1>3. IsFiniteSet(UNION {lines[c] : c \in 1..Len(feed)})
  BY <1>1, <1>2, FS_UNION
<1>4. Positions = UNION {lines[c] : c \in 1..Len(feed)}
  BY DEF Positions
<1>5. QED
  BY <1>3, <1>4

LEMMA FinitePartRows ==
    ASSUME IngestInv, NEW k \in Keys
    PROVE  IsFiniteSet(PartRows(k))
<1>1. PartRows(k) \subseteq Positions
  BY RowsOfOnePartition DEF IngestInv, IngestTypeOK
<1>2. QED
  BY <1>1, FiniteFeed, FS_Subset

LEMMA FiniteMerge ==
    ASSUME IngestInv, NEW k \in Keys
    PROVE  IsFiniteSet(Merge(k))
<1> DEFINE rows  == PartRows(k)
           pairs == rows \X (rows \cup DOMAIN assigned[k] \cup {Unmatched})
<1>1. IsFiniteSet(rows) /\ IsFiniteSet(DOMAIN assigned[k])
  <2>1. IsFiniteSet(rows)
    BY FinitePartRows
  <2>2. CASE assigned[k] = NotAssigned
    BY <2>1, <2>2, FS_EmptySet DEF NotAssigned
  <2>3. CASE assigned[k] # NotAssigned
    BY <2>1, <2>3 DEF IngestInv, JoinInv, Clustered
  <2>4. QED
    BY <2>2, <2>3
<1>2. IsFiniteSet(rows \cup DOMAIN assigned[k] \cup {Unmatched})
  BY <1>1, FS_Union, FS_Singleton
<1>3. IsFiniteSet(pairs)
  BY <1>1, <1>2, FS_Product
<1>4. Merge(k) \subseteq pairs
  BY DEF Merge, Matches
<1>5. QED
  BY <1>3, <1>4, FS_Subset

LEMMA FiniteKeys == IsFiniteSet(Keys)
BY FiniteImage, IngestionAssumption DEF Keys

LEMMA FiniteHotspots == ASSUME IngestInv PROVE IsFiniteSet(ScoredHotspots)
<1> DEFINE of(k)  == {<<k, l>> : l \in Hotspots(k)}
           family == [k \in Keys |-> of(k)]
<1>1. ASSUME NEW k \in Keys PROVE IsFiniteSet(family[k])
  <2> DEFINE id == [pair \in Merge(k) |-> <<k, assigned[k][pair[2]]>>]
  <2>1. of(k) \subseteq {id[pair] : pair \in Merge(k)}
    BY DEF Hotspots
  <2>2. IsFiniteSet(Merge(k)) /\ DOMAIN id = Merge(k)
    BY FiniteMerge
  <2>3. IsFiniteSet({id[pair] : pair \in Merge(k)})
    <3> HIDE DEF id
    <3>1. QED
      BY <2>2, FiniteImage
  <2>4. QED
    BY <2>1, <2>3, FS_Subset
<1>2. IsFiniteSet(Keys)
  BY FiniteKeys
<1>3. IsFiniteSet({family[k] : k \in Keys})
  BY <1>2, FiniteImage
<1>4. IsFiniteSet(UNION {family[k] : k \in Keys})
  BY <1>1, <1>3, FS_UNION
<1>5. ScoredHotspots \subseteq UNION {family[k] : k \in Keys}
  BY DEF ScoredHotspots
<1>6. QED
  BY <1>4, <1>5, FS_Subset

(***************************************************************************)
(* The leaderboard's entries: one for each hotspot, as a hotspot's id      *)
(* holds its partition.                                                    *)
(***************************************************************************)
EntryOf(h) == Entry(SummaryOf(h), RatesOf(h))

LEMMA IdsAreDistinct ==
    /\ \A h : /\ SummaryOf(h).id = ClusterId(h[1], h[2]) /\ RatesOf(h).id = ClusterId(h[1], h[2])
              /\ EntryOf(h).id = ClusterId(h[1], h[2])
    /\ \A g, h \in ScoredHotspots : ClusterId(g[1], g[2]) = ClusterId(h[1], h[2]) => g = h
<1>1. \A h : /\ SummaryOf(h).id = ClusterId(h[1], h[2])
             /\ RatesOf(h).id = ClusterId(h[1], h[2])
  BY DEF SummaryOf, RatesOf, Summary, Rates
<1>2. \A h : EntryOf(h).id = ClusterId(h[1], h[2])
  BY <1>1 DEF EntryOf, Entry
<1>3. ASSUME NEW g \in ScoredHotspots, NEW h \in ScoredHotspots,
             ClusterId(g[1], g[2]) = ClusterId(h[1], h[2])
      PROVE  g = h
  <2>1. g[1] = h[1] /\ g[2] = h[2]
    BY <1>3 DEF ClusterId
  <2>2. QED
    BY <2>1, HotspotsOfKeys
<1>4. QED
  BY <1>1, <1>2, <1>3

LEMMA EntriesOfHotspots == ScoreInv => Entries = {EntryOf(h) : h \in ScoredHotspots}
<1> SUFFICES ASSUME ScoreInv PROVE Entries = {EntryOf(h) : h \in ScoredHotspots}
  OBVIOUS
<1>1. summaries = {SummaryOf(h) : h \in ScoredHotspots} /\ rates = {RatesOf(h) : h \in ScoredHotspots}
  BY DEF ScoreInv, RollupInv
<1>2. ASSUME NEW e \in Entries PROVE \E h \in ScoredHotspots : e = EntryOf(h)
  <2>1. PICK m \in summaries \X rates : m[1].id = m[2].id /\ e = Entry(m[1], m[2])
    BY DEF Entries
  <2>2. PICK g \in ScoredHotspots : m[1] = SummaryOf(g)
    BY <1>1
  <2>3. PICK h \in ScoredHotspots : m[2] = RatesOf(h)
    BY <1>1
  <2>4. g = h
    BY <2>1, <2>2, <2>3, IdsAreDistinct
  <2>5. QED
    BY <2>1, <2>2, <2>3, <2>4 DEF EntryOf
<1>3. ASSUME NEW h \in ScoredHotspots PROVE EntryOf(h) \in Entries
  <2>1. <<SummaryOf(h), RatesOf(h)>> \in summaries \X rates /\ SummaryOf(h).id = RatesOf(h).id
    BY <1>1, IdsAreDistinct
  <2>2. QED
    BY <2>1 DEF EntryOf, Entries
<1>4. QED
  BY <1>2, <1>3

\* There are as many entries as hotspots.
LEMMA EntriesAreFinite ==
    ASSUME ScoreInv
    PROVE  IsFiniteSet(Entries) /\ Cardinality(Entries) = Cardinality(ScoredHotspots)
<1> DEFINE f == [h \in ScoredHotspots |-> EntryOf(h)]
<1>1. ASSUME NEW g \in ScoredHotspots, NEW h \in ScoredHotspots, EntryOf(g) = EntryOf(h)
      PROVE  g = h
  <2>1. ClusterId(g[1], g[2]) = ClusterId(h[1], h[2])
    BY <1>1, IdsAreDistinct
  <2>2. QED
    BY <2>1, IdsAreDistinct
<1>2. f \in Bijection(ScoredHotspots, Entries)
  <2>1. Entries = {EntryOf(h) : h \in ScoredHotspots}
    BY EntriesOfHotspots
  <2>2. f \in [ScoredHotspots -> Entries] /\ \A h \in ScoredHotspots : f[h] = EntryOf(h)
    BY <2>1
  <2>3. \A g, h \in ScoredHotspots : f[g] = f[h] => g = h
    BY <1>1, <2>2
  <2>4. \A e \in Entries : \E h \in ScoredHotspots : f[h] = e
    BY <2>1, <2>2
  <2> HIDE DEF f
  <2>5. QED
    BY <2>2, <2>3, <2>4 DEF Bijection, Injection, Surjection, IsInjective
<1>3. ExistsBijection(ScoredHotspots, Entries)
  BY <1>2 DEF ExistsBijection
<1>4. IsFiniteSet(ScoredHotspots)
  BY FiniteHotspots DEF ScoreInv
<1>5. QED
  BY <1>3, <1>4, FS_Bijection

\* A leaderboard without repetition, as long as there are entries, has them all.
LEMMA LeaderboardHasAll ==
    ASSUME ScoreInv, phase \in {"render", "done"}
    PROVE  /\ DOMAIN leaderboard = 1..Cardinality(Entries)
           /\ {leaderboard[i] : i \in DOMAIN leaderboard} = Entries
           /\ Cardinality(Entries) \in Nat
<1> DEFINE n == Cardinality(Entries)
<1>1. leaderboard \in [1..n -> Entries] /\ RankedByPriority(leaderboard)
  BY DEF ScoreInv
<1>2. n \in Nat /\ IsFiniteSet(Entries)
  BY EntriesAreFinite, FS_CardinalityType
<1>3. Cardinality(1..n) = n
  BY <1>2, FS_Interval
<1>4. \A i, j \in 1..n : leaderboard[i] = leaderboard[j] => i = j
  <2>1. \A i, j \in 1..n : i < j => leaderboard[i] # leaderboard[j]
    BY <1>1 DEF RankedByPriority
  <2>2. QED
    BY <1>2, <2>1
<1>5. leaderboard \in Injection(1..n, Entries)
  <2> HIDE DEF n
  <2>1. QED
    BY <1>1, <1>4 DEF Injection, IsInjective
<1>6. leaderboard \in Surjection(1..n, Entries)
  BY <1>2, <1>3, <1>5, FS_Injection
<1>7. {leaderboard[i] : i \in 1..n} = Entries
  <2> HIDE DEF n
  <2>1. QED
    BY <1>1, <1>6 DEF Surjection
<1>8. QED
  BY <1>1, <1>2, <1>7

(***************************************************************************)
(* The model knows what is ranked.                                         *)
(***************************************************************************)
LEMMA CountedHotspots ==
    ASSUME NEW h \in ScoredHotspots
    PROVE  /\ \E t \in TrendsOf(h) : t[2] = ClusterId(h[1], h[2])
           /\ \A t \in TrendsOf(h) : t[2] = ClusterId(h[1], h[2])
<1>1. h[2] \in Hotspots(h[1])
  BY HotspotsOfKeys
<1>2. PICK pair \in HotspotRows(h[1], h[2]) : TRUE
  BY <1>1 DEF Hotspots, HotspotRows
<1>3. <<Time(pair) \div 24, ClusterId(h[1], h[2]), Hour(pair)>> \in TrendsOf(h)
  BY <1>2 DEF TrendsOf
<1>4. \A t \in TrendsOf(h) : t[2] = ClusterId(h[1], h[2])
  BY DEF TrendsOf
<1>5. QED
  BY <1>3, <1>4

LEMMA KnownIsRanked == ScoreInv => EveryRankedHotspotCanBeForecast
<1> SUFFICES ASSUME ScoreInv, phase \in {"render", "done"}
             PROVE  {leaderboard[i].id : i \in DOMAIN leaderboard} = encoder
  BY DEF EveryRankedHotspotCanBeForecast
<1>1. {leaderboard[i] : i \in DOMAIN leaderboard} = {EntryOf(h) : h \in ScoredHotspots}
  BY LeaderboardHasAll, EntriesOfHotspots
<1>2. encoder = {t[2] : t \in UNION {TrendsOf(h) : h \in ScoredHotspots}}
  BY DEF ScoreInv, RollupInv
<1>3. ASSUME NEW i \in DOMAIN leaderboard PROVE leaderboard[i].id \in encoder
  <2>1. PICK h \in ScoredHotspots : leaderboard[i] = EntryOf(h)
    BY <1>1
  <2>2. PICK t \in TrendsOf(h) : t[2] = ClusterId(h[1], h[2])
    BY CountedHotspots
  <2>3. leaderboard[i].id = t[2]
    BY <2>1, <2>2, IdsAreDistinct
  <2>4. t \in UNION {TrendsOf(g) : g \in ScoredHotspots}
    BY <2>2
  <2>5. QED
    BY <1>2, <2>3, <2>4
<1>4. ASSUME NEW id \in encoder PROVE \E i \in DOMAIN leaderboard : leaderboard[i].id = id
  <2>1. PICK t \in UNION {TrendsOf(h) : h \in ScoredHotspots} : id = t[2]
    BY <1>2
  <2>2. PICK h \in ScoredHotspots : t \in TrendsOf(h)
    BY <2>1
  <2>3. id = EntryOf(h).id
    BY <2>1, <2>2, CountedHotspots, IdsAreDistinct
  <2>4. PICK i \in DOMAIN leaderboard : leaderboard[i] = EntryOf(h)
    BY <1>1
  <2>5. QED
    BY <2>3, <2>4
<1>5. QED
  BY <1>3, <1>4

\* Whatever the feed, a hotspot that the run ranks is one its model can forecast.
THEOREM RankedHotspotsAreKnown == ScoreSpec => []EveryRankedHotspotCanBeForecast
BY ScoreInvariant, KnownIsRanked, PTL

(***************************************************************************)
(* The leaderboard of the whole feed.  Unless an id came in two chunks, a  *)
(* row meets its own assignment and no other, so what each rollup saw of a *)
(* hotspot is what the whole feed holds of it.                             *)
(***************************************************************************)
LEMMA EachMeetsItsOwn ==
    ASSUME IngestInv, NoIdInTwoChunks, NEW k \in Keys, Clustered(k)
    PROVE  Merge(k) = {<<p, p>> : p \in PartRows(k)}
<1>1. DOMAIN assigned[k] = PartRows(k)
  BY DEF IngestInv, JoinInv
<1>2. ASSUME NEW p \in PartRows(k) PROVE Matches(k, p) = {p}
  <2>1. p \in Matches(k, p)
    BY <1>1 DEF Matches
  <2>2. ASSUME NEW q \in Matches(k, p) PROVE q = p
    <3>1. q \in valid /\ p \in valid /\ Row(q).id = Row(p).id
      BY <1>1, RowsOfOnePartition DEF Matches
    <3>2. p[1] = q[1]
      BY <3>1 DEF NoIdInTwoChunks
    <3>3. /\ p[1] \in 1..Len(feed) /\ p \in Chunk(p[1]) /\ Keep(p)
          /\ q \in Chunk(p[1]) /\ Keep(q)
      BY <3>1, <3>2, ValidRows
    <3>4. QED
      BY <3>1, <3>3, OneKeptPerId DEF IngestInv
  <2>3. QED
    BY <2>1, <2>2
<1>3. QED
  BY <1>2 DEF Merge

\* Rows of the feed are not the row that stands for no match.
LEMMA RowsAreMatched == ASSUME IngestInv, NEW p \in valid PROVE p # Unmatched
<1>1. p[1] \in 1..Len(feed)
  BY ValidRows
<1>2. QED
  BY <1>1, FeedLength DEF IngestInv, Unmatched

LEMMA OwnHotspots ==
    ASSUME ScoreInv, NoIdInTwoChunks, NEW k \in Keys, Clustered(k)
    PROVE  /\ Hotspots(k) = {assigned[k][p] : p \in PartRows(k)} \ {0}
           /\ \A l : l # 0 => HotspotRows(k, l)
                                 = {<<p, p>> : p \in {q \in PartRows(k) : assigned[k][q] = l}}
<1>1. Merge(k) = {<<p, p>> : p \in PartRows(k)}
  BY EachMeetsItsOwn DEF ScoreInv
<1>2. \A p \in PartRows(k) : p # Unmatched
  BY RowsOfOnePartition, RowsAreMatched DEF ScoreInv
<1>3. \A p \in PartRows(k) : InHotspot(k, <<p, p>>) <=> assigned[k][p] # 0
  BY <1>2 DEF InHotspot
<1>4. Hotspots(k) = {assigned[k][p] : p \in PartRows(k)} \ {0}
  <2>1. \A m \in Merge(k) : \E p \in PartRows(k) : m = <<p, p>>
    BY <1>1
  <2>2. \A l \in Hotspots(k) : l # 0 /\ \E p \in PartRows(k) : l = assigned[k][p]
    BY <1>3, <2>1 DEF Hotspots, InHotspot
  <2>3. ASSUME NEW p \in PartRows(k), assigned[k][p] # 0 PROVE assigned[k][p] \in Hotspots(k)
    <3>1. <<p, p>> \in {m \in Merge(k) : InHotspot(k, m)}
      BY <1>1, <1>3, <2>3
    <3>2. QED
      BY <3>1 DEF Hotspots
  <2>4. QED
    BY <2>2, <2>3
<1>5. ASSUME NEW l, l # 0
      PROVE  HotspotRows(k, l) = {<<p, p>> : p \in {q \in PartRows(k) : assigned[k][q] = l}}
  BY <1>1, <1>3, <1>5 DEF HotspotRows
<1>6. QED
  BY <1>4, <1>5

LEMMA AllAreScored ==
    ASSUME ScoreInv, NoIdInTwoChunks, phase \in {"render", "done"}
    PROVE  /\ ScoredHotspots = AllHotspots
           /\ \A h \in ScoredHotspots : HotspotRows(h[1], h[2]) = OwnRows(h)
<1>1. \A k \in ListedPartitions :
        k \in Keys /\ Clustered(k) /\ joined[k] = Merge(k) /\ DOMAIN assigned[k] = PartRows(k)
  BY DEF ScoreInv, IngestInv, JoinInv, RollupInv, ListedPartitions
<1>2. \A k \in Keys : joined[k] # {} => k \in ListedPartitions
  BY DEF ScoreInv, RollupInv
<1>3. \A k \in ListedPartitions :
        Hotspots(k) = {assigned[k][p] : p \in DOMAIN assigned[k]} \ {0}
  BY <1>1, OwnHotspots
<1>4. ASSUME NEW h \in ScoredHotspots
      PROVE  h \in AllHotspots /\ HotspotRows(h[1], h[2]) = OwnRows(h)
  <2>1. /\ h = <<h[1], h[2]>> /\ h[1] \in ListedPartitions /\ h[1] \in Keys
        /\ h[2] \in Hotspots(h[1])
    BY <1>1, <1>2, HotspotsOfKeys
  <2>2. h[2] # 0 /\ \E p \in DOMAIN assigned[h[1]] : h[2] = assigned[h[1]][p]
    BY <1>3, <2>1
  <2>3. h \in UNION {{<<k, assigned[k][p]>> : p \in DOMAIN assigned[k]} : k \in ListedPartitions}
    BY <2>1, <2>2
  <2>4. h \notin Keys \X {0}
    BY <2>2
  <2>5. HotspotRows(h[1], h[2]) = OwnRows(h)
    BY <1>1, <2>1, <2>2, OwnHotspots DEF OwnRows
  <2>6. QED
    BY <2>3, <2>4, <2>5 DEF AllHotspots
<1>5. ASSUME NEW h \in AllHotspots PROVE h \in ScoredHotspots
  <2>1. PICK k \in ListedPartitions :
          h \in {<<k, assigned[k][p]>> : p \in DOMAIN assigned[k]}
    BY DEF AllHotspots
  <2>2. PICK p \in DOMAIN assigned[k] : h = <<k, assigned[k][p]>>
    BY <2>1
  <2>3. k \in Keys /\ assigned[k][p] # 0
    <3>1. k \in Keys /\ h \notin Keys \X {0}
      BY <1>1 DEF AllHotspots
    <3>2. QED
      BY <2>2, <3>1
  <2>4. assigned[k][p] \in Hotspots(k)
    BY <1>3, <2>3
  <2>5. joined[k] # {}
    BY <1>1, <2>4 DEF Hotspots
  <2>6. QED
    BY <2>2, <2>3, <2>4, <2>5 DEF ScoredHotspots
<1>6. QED
  BY <1>4, <1>5

LEMMA WholeFeed == ScoreInv => LeaderboardOfWholeFeed
<1> DEFINE Figures(h) == LET id == ClusterId(h[1], h[2])
                         IN  Entry(Summary(id, OwnRows(h)), Rates(id, OwnRows(h)))
<1> SUFFICES ASSUME ScoreInv, phase \in {"render", "done"}, NoIdInTwoChunks
             PROVE  /\ {leaderboard[i] : i \in DOMAIN leaderboard}
                         = {Figures(h) : h \in AllHotspots}
                    /\ Len(leaderboard) = Cardinality(AllHotspots)
                    /\ \A i, j \in DOMAIN leaderboard :
                         i # j /\ Below(leaderboard[j].priority, leaderboard[i].priority) => i < j
  BY DEF LeaderboardOfWholeFeed
<1>1. /\ ScoredHotspots = AllHotspots
      /\ \A h \in ScoredHotspots : HotspotRows(h[1], h[2]) = OwnRows(h)
  BY AllAreScored
<1>2. \A h \in ScoredHotspots : EntryOf(h) = Figures(h)
  BY <1>1 DEF EntryOf, SummaryOf, RatesOf
<1> HIDE DEF Figures
<1>3. {leaderboard[i] : i \in DOMAIN leaderboard} = {Figures(h) : h \in AllHotspots}
  <2>1. {leaderboard[i] : i \in DOMAIN leaderboard} = {EntryOf(h) : h \in ScoredHotspots}
    BY LeaderboardHasAll, EntriesOfHotspots
  <2>2. QED
    BY <1>1, <1>2, <2>1
<1>4. /\ DOMAIN leaderboard = 1..Cardinality(Entries) /\ Cardinality(Entries) \in Nat
      /\ leaderboard \in [1..Cardinality(Entries) -> Entries]
      /\ Cardinality(Entries) = Cardinality(AllHotspots)
  BY <1>1, LeaderboardHasAll, EntriesAreFinite DEF ScoreInv
<1>5. Len(leaderboard) = Cardinality(AllHotspots)
  <2>1. leaderboard \in Seq(Entries)
    BY <1>4
  <2>2. QED
    BY <1>4, <2>1
<1>6. ASSUME NEW i \in DOMAIN leaderboard, NEW j \in DOMAIN leaderboard, i # j,
             Below(leaderboard[j].priority, leaderboard[i].priority)
      PROVE  i < j
  <2>1. \A m, n \in DOMAIN leaderboard :
          m < n => ~Below(leaderboard[m].priority, leaderboard[n].priority)
    BY DEF ScoreInv, RankedByPriority
  <2>2. ~(j < i)
    BY <1>6, <2>1
  <2>3. i \in Int /\ j \in Int
    BY <1>4
  <2>4. QED
    BY <1>6, <2>2, <2>3
<1>7. QED
  BY <1>3, <1>5, <1>6

\* Partition by partition, the run computes the leaderboard of the whole feed.
THEOREM RollupsLoseNothing == ScoreSpec => []LeaderboardOfWholeFeed
BY ScoreInvariant, WholeFeed, PTL

(***************************************************************************)
(* Largest numbers.  The numbers above each member of a finite set are a   *)
(* subset, and one of these subsets is minimal: it is empty.               *)
(***************************************************************************)
LEMMA SubsetsAreWellFounded ==
    ASSUME NEW S, IsFiniteSet(S)
    PROVE  IsWellFoundedOn(StrictSubsetOrdering(S), SUBSET S)
<1>1. FiniteSubsetsOf(S) = SUBSET S
  BY FS_FiniteSubsetsOfFinite
<1>2. QED
  BY <1>1, FS_StrictSubsetOrderingWellFounded

LEMMA LargestOfFinite ==
    ASSUME NEW S \in SUBSET Int, IsFiniteSet(S), S # {}
    PROVE  Max(S) \in S /\ \A k \in S : k <= Max(S)
<1> DEFINE Above(m) == {k \in S : k > m}
           Uppers   == {Above(m) : m \in S}
<1>1. IsWellFoundedOn(StrictSubsetOrdering(S), SUBSET S)
  BY SubsetsAreWellFounded
<1>2. Uppers \subseteq SUBSET S /\ Uppers # {}
  OBVIOUS
<1>3. PICK T \in Uppers : \A U \in Uppers : <<U, T>> \notin StrictSubsetOrdering(S)
  <2> HIDE DEF Uppers
  <2>1. QED
    BY <1>1, <1>2, WFMin
<1>4. PICK m \in S : T = Above(m)
  OBVIOUS
<1>5. ASSUME NEW k \in S, k > m PROVE FALSE
  <2>1. \A x \in S : x \in Int
    OBVIOUS
  <2>2. Above(k) \subseteq T /\ k \in T /\ k \notin Above(k)
    <3>1. \A x \in S : x > k => x > m
      BY <1>5, <2>1
    <3>2. ~(k > k)
      BY <2>1
    <3>3. QED
      BY <1>4, <1>5, <3>1, <3>2
  <2>3. <<Above(k), T>> \in StrictSubsetOrdering(S)
    BY <1>2, <2>2 DEF StrictSubsetOrdering
  <2>4. QED
    BY <1>3, <2>3
<1>6. \A k \in S : m >= k
  BY <1>5
<1>7. Max(S) \in S /\ \A k \in S : Max(S) >= k
  BY <1>6 DEF Max
<1>8. QED
  BY <1>7

\* What is above a ratio of at least 1 is above 1.
LEMMA AboveOne ==
    ASSUME NEW a1 \in Nat \ {0}, NEW a2 \in Nat \ {0}, NEW b1 \in Nat, NEW b2 \in Nat \ {0},
           a1 >= a2, a1 * b2 < b1 * a2
    PROVE  b1 > b2
<1>1. a2 * b2 <= a1 * b2
  OBVIOUS
<1>2. b1 <= b2 => b1 * a2 <= b2 * a2
  OBVIOUS
<1>3. a2 * b2 = b2 * a2 /\ {a2 * b2, a1 * b2, b1 * a2} \subseteq Int
  OBVIOUS
<1>4. QED
  BY <1>1, <1>2, <1>3

(***************************************************************************)
(* The dispatch decision.  Growth above the urgent threshold means more    *)
(* rows in the later half than in the earlier, which has some.             *)
(***************************************************************************)
LEMMA UrgentGrowthIsReal ==
    ASSUME ThresholdsAreMeant, NEW rows, IsFiniteSet(rows), Below(UrgentGrowth, Growth(rows))
    PROVE  /\ Cardinality(Older(rows)) # 0
           /\ Cardinality(rows) - Cardinality(Older(rows)) > Cardinality(Older(rows))
<1> DEFINE older == Cardinality(Older(rows))
           later == Cardinality(rows) - older
           rate  == IF older = 0 THEN <<1, 1>> ELSE <<later, older>>
<1>1. older \in Nat /\ later \in Nat
  <2>1. Older(rows) \subseteq rows
    BY DEF Older
  <2>2. IsFiniteSet(Older(rows)) /\ older <= Cardinality(rows)
    BY <2>1, FS_Subset
  <2>3. older \in Nat /\ Cardinality(rows) \in Nat
    BY <2>2, FS_CardinalityType
  <2>4. QED
    BY <2>2, <2>3
<1>2. Growth(rows) = Clip(rate)
  BY DEF Growth
<1> HIDE DEF older, later
<1>3. rate[1] \in Nat /\ rate[2] \in Nat \ {0}
  BY <1>1
<1>4. /\ UrgentGrowth[1] \in Nat \ {0} /\ UrgentGrowth[2] \in Nat \ {0}
      /\ GrowthMax[1] \in Nat \ {0} /\ GrowthMax[2] \in Nat \ {0}
      /\ UrgentGrowth[1] >= UrgentGrowth[2]
  BY ScoringAssumption DEF ThresholdsAreMeant
<1> HIDE DEF rate
<1>5. rate[1] > rate[2]
  <2>1. CASE Below(rate, GrowthMin)
    BY <1>2, <2>1 DEF Clip, ThresholdsAreMeant
  <2>2. CASE ~Below(rate, GrowthMin) /\ Below(GrowthMax, rate)
    <3>1. Below(UrgentGrowth, GrowthMax)
      BY <1>2, <2>2 DEF Clip
    <3>2. GrowthMax[1] > GrowthMax[2]
      BY <1>4, <3>1, AboveOne DEF Below
    <3>3. GrowthMax[1] >= GrowthMax[2]
      BY <1>4, <3>2
    <3>4. QED
      BY <1>3, <1>4, <2>2, <3>3, AboveOne DEF Below
  <2>3. CASE ~Below(rate, GrowthMin) /\ ~Below(GrowthMax, rate)
    <3>1. Below(UrgentGrowth, rate)
      BY <1>2, <2>3 DEF Clip
    <3>2. QED
      BY <1>3, <1>4, <3>1, AboveOne DEF Below
  <2>4. QED
    BY <2>1, <2>2, <2>3
<1>6. older # 0 /\ later > older
  <2>1. CASE older = 0
    BY <1>5, <2>1 DEF rate
  <2>2. CASE older # 0
    BY <1>5, <2>2 DEF rate
  <2>3. QED
    BY <2>1, <2>2
<1>7. QED
  BY <1>6 DEF older, later

\* A high recency means that at most three hours lie between the last row and the end.
LEMMA HighRecencyIsRecent ==
    ASSUME ThresholdsAreMeant, NEW age \in Int, Below(HighRecency, <<24, 24 + age>>)
    PROVE  age <= 3
<1>1. /\ HighRecency[1] \in Nat \ {0} /\ HighRecency[2] \in Nat \ {0}
      /\ 28 * HighRecency[1] >= 24 * HighRecency[2]
      /\ HighRecency[1] * (24 + age) < 24 * HighRecency[2]
  BY ScoringAssumption DEF ThresholdsAreMeant, Below
<1>2. \A h \in Nat : age >= 4 => h * (24 + age) >= h * 28
  OBVIOUS
<1>3. QED
  BY <1>1, <1>2

(***************************************************************************)
(* The feed's times, as the partitions have them.                          *)
(***************************************************************************)
LEMMA TimesAreHours == ASSUME IngestInv, NEW p \in valid PROVE Row(p).time \in Nat
<1>1. p[1] \in 1..Len(feed) /\ p \in Chunk(p[1]) /\ Keep(p)
  BY ValidRows
<1>2. PICK i \in 1..Len(feed[p[1]]) : p = <<p[1], i>>
  BY <1>1 DEF Chunk
<1>3. IsRow(Row(p))
  BY <1>1, <1>2 DEF IngestInv, IsFeed, Row
<1>4. Row(p).time # NoTime
  BY <1>1 DEF Keep, BadTime
<1>5. QED
  BY <1>3, <1>4 DEF IsRow

LEMMA ValidIsFinite == IngestInv => IsFiniteSet(valid)
<1>1. IngestInv => valid \subseteq Positions
  BY DEF IngestInv, IngestTypeOK
<1>2. QED
  BY <1>1, FiniteFeed, FS_Subset

LEMMA EveryRowIsListed ==
    ASSUME IngestInv, phase # "write", NEW p \in valid
    PROVE  \E k \in ListedPartitions : p \in PartRows(k)
<1> DEFINE k == SafeKey[StationOf(p)]
<1>1. k \in Keys /\ p \in PartRows(k)
  BY ValidRows DEF IngestInv, WriterInv, Pending
<1>2. PICK n \in PartNumbers : p \in parts[k][n]
  BY <1>1 DEF PartRows
<1>3. n \in Nat /\ counters[k] \in Int /\ ~(n >= counters[k])
  <2>1. n \in Nat /\ counters[k] \in Int
    <3>1. MaxParts \in Nat /\ counters \in [Keys -> 0..MaxParts]
      BY IngestionAssumption DEF IngestInv, IngestTypeOK
    <3>2. n \in Nat
      BY <3>1 DEF PartNumbers
    <3>3. counters[k] \in 0..MaxParts
      BY <1>1, <3>1
    <3>4. QED
      BY <3>1, <3>2, <3>3
  <2>2. n >= counters[k] => parts[k][n] = {}
    BY <1>1 DEF IngestInv, WriterInv
  <2>3. QED
    BY <1>2, <2>1, <2>2
<1>4. k \in ListedPartitions
  BY <1>1, <1>3 DEF ListedPartitions
<1>5. QED
  BY <1>1, <1>4

LEMMA TimesOfTheFeed ==
    ASSUME IngestInv, phase # "write"
    PROVE  UNION {Times(k) : k \in ListedPartitions} = {Row(p).time : p \in valid}
<1>1. ASSUME NEW k \in ListedPartitions, NEW t \in Times(k)
      PROVE  t \in {Row(p).time : p \in valid}
  <2>1. k \in Keys
    BY DEF ListedPartitions
  <2>2. QED
    BY <2>1, RowsOfOnePartition DEF Times
<1>2. ASSUME NEW p \in valid
      PROVE  Row(p).time \in UNION {Times(k) : k \in ListedPartitions}
  <2>1. PICK k \in ListedPartitions : p \in PartRows(k)
    BY EveryRowIsListed
  <2>2. Row(p).time \in Times(k)
    BY <2>1 DEF Times
  <2>3. QED
    BY <2>2
<1>3. QED
  BY <1>1, <1>2

\* The last hour of any rows of the feed.
LEMMA LastHour ==
    ASSUME IngestInv, NEW rows \in SUBSET valid, rows # {}
    PROVE  LET times == {Row(p).time : p \in rows}
           IN  /\ times \in SUBSET Nat /\ IsFiniteSet(times)
               /\ Max(times) \in times /\ \A t \in times : t <= Max(times)
<1> DEFINE times == {Row(p).time : p \in rows}
           time  == [p \in rows |-> Row(p).time]
<1>1. times \in SUBSET Nat /\ times # {}
  BY TimesAreHours
<1>2. IsFiniteSet(rows)
  BY ValidIsFinite, FS_Subset
<1>3. IsFiniteSet({time[p] : p \in rows})
  <2>1. DOMAIN time = rows
    OBVIOUS
  <2> HIDE DEF time
  <2>2. QED
    BY <1>2, <2>1, FiniteImage
<1>4. {time[p] : p \in rows} = times
  OBVIOUS
<1>5. times \in SUBSET Int /\ IsFiniteSet(times)
  BY <1>1, <1>3, <1>4
<1> HIDE DEF times
<1>6. Max(times) \in times /\ \A t \in times : t <= Max(times)
  BY <1>1, <1>5, LargestOfFinite
<1>7. QED
  BY <1>1, <1>5, <1>6 DEF times

(***************************************************************************)
(* Rows of a hotspot and the pairs that the join makes of them.            *)
(***************************************************************************)
LEMMA Diagonal ==
    ASSUME NEW S, IsFiniteSet(S)
    PROVE  /\ IsFiniteSet({<<p, p>> : p \in S})
           /\ Cardinality({<<p, p>> : p \in S}) = Cardinality(S)
<1> DEFINE D == {<<p, p>> : p \in S}
           f == [p \in S |-> <<p, p>>]
<1>1. f \in [S -> D] /\ \A p \in S : f[p] = <<p, p>>
  OBVIOUS
<1>2. /\ \A p, q \in S : f[p] = f[q] => p = q
      /\ \A d \in D : \E p \in S : f[p] = d
  OBVIOUS
<1> HIDE DEF f
<1>3. f \in Bijection(S, D)
  <2> HIDE DEF D
  <2>1. QED
    BY <1>1, <1>2 DEF Bijection, Injection, Surjection, IsInjective
<1>4. ExistsBijection(S, D)
  BY <1>3 DEF ExistsBijection
<1>5. QED
  BY <1>4, FS_Bijection

LEMMA DispatchIsTrue == ThresholdsAreMeant => (ScoreInv => DispatchMatchesActivity)
<1> DEFINE times == {Row(p).time : p \in valid}
           Of(i) == CHOOSE h \in AllHotspots : ClusterId(h[1], h[2]) = leaderboard[i].id
           early == {p \in valid : 2 * Row(p).time <= Min(times) + Max(times)}
           own(h) == {q \in PartRows(h[1]) : assigned[h[1]][q] = h[2]}
<1> SUFFICES ASSUME ThresholdsAreMeant, ScoreInv, phase \in {"render", "done"},
                    NoIdInTwoChunks, NEW i \in DOMAIN leaderboard
             PROVE  LET rows == {pair[1] : pair \in OwnRows(Of(i))}
                    IN  CASE leaderboard[i].status = "URGENT_DISPATCH" ->
                               /\ rows \cap early # {}
                               /\ Cardinality(rows \ early) > Cardinality(rows \cap early)
                          [] leaderboard[i].status = "HIGH_PRIORITY" ->
                               Max(times) - Max({Row(p).time : p \in rows}) <= 3
                          [] OTHER -> TRUE
  BY DEF DispatchMatchesActivity
<1>0. IngestInv
  BY DEF ScoreInv
<1>1. PICK h \in ScoredHotspots : leaderboard[i] = EntryOf(h)
  BY LeaderboardHasAll, EntriesOfHotspots
<1>2. /\ ScoredHotspots = AllHotspots
      /\ HotspotRows(h[1], h[2]) = OwnRows(h)
  BY AllAreScored
<1>3. Of(i) = h
  <2>1. leaderboard[i].id = ClusterId(h[1], h[2])
    BY <1>1, IdsAreDistinct
  <2>2. ASSUME NEW g \in AllHotspots
        PROVE  ClusterId(g[1], g[2]) = leaderboard[i].id <=> g = h
    <3>1. g \in ScoredHotspots
      BY <1>2
    <3>2. ClusterId(g[1], g[2]) = ClusterId(h[1], h[2]) => g = h
      BY <3>1, IdsAreDistinct, Zenon
    <3>3. QED
      BY <2>1, <3>2
  <2>3. h \in AllHotspots
    BY <1>2
  <2>4. QED
    BY <2>2, <2>3
<1>4. own(h) \subseteq valid /\ own(h) # {} /\ IsFiniteSet(own(h))
  <2>1. h[1] \in Keys /\ h[2] \in Hotspots(h[1])
    BY HotspotsOfKeys
  <2>2. own(h) \subseteq valid
    BY <1>0, <2>1, RowsOfOnePartition
  <2>3. HotspotRows(h[1], h[2]) # {}
    BY <2>1 DEF Hotspots, HotspotRows
  <2>4. OwnRows(h) = {<<p, p>> : p \in own(h)}
    BY DEF OwnRows
  <2>5. QED
    BY <1>0, <1>2, <2>2, <2>3, <2>4, ValidIsFinite, FS_Subset
<1>5. OwnRows(h) = {<<p, p>> : p \in own(h)} /\ {pair[1] : pair \in OwnRows(h)} = own(h)
  <2>1. OwnRows(h) = {<<p, p>> : p \in own(h)}
    BY DEF OwnRows
  <2> HIDE DEF own
  <2>2. {pair[1] : pair \in {<<p, p>> : p \in own(h)}} = own(h)
    <3>1. \A p : <<p, p>>[1] = p
      OBVIOUS
    <3>2. QED
      BY <3>1, Zenon
  <2>3. QED
    BY <2>1, <2>2
<1>6. /\ MinTime = Min(times) /\ MaxTime = Max(times)
      /\ {Time(pair) : pair \in OwnRows(h)} = {Row(p).time : p \in own(h)}
      /\ Older(OwnRows(h)) = {<<p, p>> : p \in own(h) \cap early}
  <2>1. MinTime = Min(times) /\ MaxTime = Max(times)
    BY <1>0, TimesOfTheFeed DEF MinTime, MaxTime
  <2>2. \A p : Time(<<p, p>>) = Row(p).time
    BY DEF Time
  <2>3. {Time(pair) : pair \in OwnRows(h)} = {Row(p).time : p \in own(h)}
    BY <1>5, <2>2
  <2>4. \A p \in own(h) : 2 * Time(<<p, p>>) <= MinTime + MaxTime <=> p \in early
    BY <1>4, <2>1, <2>2
  <2>5. Older(OwnRows(h)) = {<<p, p>> : p \in own(h) \cap early}
    <3>1. Older(OwnRows(h)) =
            {pair \in {<<p, p>> : p \in own(h)} : 2 * Time(pair) <= MinTime + MaxTime}
      BY <1>5 DEF Older
    <3> HIDE DEF own, early
    <3>2. QED
      BY <2>4, <3>1
  <2>6. QED
    BY <2>1, <2>3, <2>5
<1>7. Max(times) \in Nat /\ Max({Row(p).time : p \in own(h)}) \in Nat
  <2>1. valid \in SUBSET valid /\ valid # {}
    BY <1>4
  <2>2. QED
    BY <1>0, <1>4, <2>1, LastHour
<1>8. leaderboard[i].status = Status(RatesOf(h))
  BY <1>1 DEF EntryOf, Entry
<1>9. /\ RatesOf(h).growth = Growth(OwnRows(h)) /\ RatesOf(h).recency = Recency(OwnRows(h))
  BY <1>2 DEF RatesOf, Rates
<1>10. ASSUME leaderboard[i].status = "URGENT_DISPATCH"
       PROVE  /\ own(h) \cap early # {}
              /\ Cardinality(own(h) \ early) > Cardinality(own(h) \cap early)
  <2>1. Below(UrgentGrowth, Growth(OwnRows(h)))
    BY <1>8, <1>9, <1>10 DEF Status
  <2>2. IsFiniteSet(OwnRows(h)) /\ Cardinality(OwnRows(h)) = Cardinality(own(h))
    BY <1>4, <1>5, Diagonal
  <2>3. /\ IsFiniteSet(own(h) \cap early)
        /\ Cardinality(Older(OwnRows(h))) = Cardinality(own(h) \cap early)
    BY <1>4, <1>6, Diagonal, FS_Intersection
  <2>4. /\ Cardinality(own(h) \cap early) # 0
        /\ Cardinality(own(h)) - Cardinality(own(h) \cap early) > Cardinality(own(h) \cap early)
    BY <2>1, <2>2, <2>3, UrgentGrowthIsReal
  <2>5. Cardinality(own(h) \ early) = Cardinality(own(h)) - Cardinality(own(h) \cap early)
    BY <1>4, FS_Difference
  <2>6. QED
    BY <2>4, <2>5, FS_EmptySet
<1>11. ASSUME leaderboard[i].status = "HIGH_PRIORITY"
       PROVE  Max(times) - Max({Row(p).time : p \in own(h)}) <= 3
  <2>1. Below(HighRecency, Recency(OwnRows(h)))
    BY <1>8, <1>9, <1>11 DEF Status
  <2>2. Recency(OwnRows(h)) = <<24, 24 + Max(times) - Max({Row(p).time : p \in own(h)})>>
    BY <1>6 DEF Recency
  <2> DEFINE age == Max(times) - Max({Row(p).time : p \in own(h)})
  <2>3. age \in Int /\ 24 + Max(times) - Max({Row(p).time : p \in own(h)}) = 24 + age
    BY <1>7
  <2> HIDE DEF age
  <2>4. age <= 3
    BY <2>1, <2>2, <2>3, HighRecencyIsRecent
  <2>5. QED
    BY <2>4 DEF age
<1> HIDE DEF times, early, own, Of
<1>12. QED
  BY <1>3, <1>5, <1>10, <1>11

\* What an officer is told is true of the feed, for every feed and for any thresholds that
\* mean what the statuses say.
THEOREM DispatchesMatchActivity ==
    ThresholdsAreMeant => (ScoreSpec => []DispatchMatchesActivity)
<1>1. SUFFICES ASSUME ThresholdsAreMeant PROVE ScoreSpec => []DispatchMatchesActivity
  OBVIOUS
<1>2. ScoreInv => DispatchMatchesActivity
  BY <1>1, DispatchIsTrue
<1>3. QED
  BY <1>2, ScoreInvariant, PTL

(***************************************************************************)
(* Sums.  Total folds a finite set element by element.  That such a fold   *)
(* exists is shown by the number of elements, what it comes to by the set  *)
(* of subsets for which it does.                                           *)
(***************************************************************************)
First(s) == CHOOSE x \in s : TRUE

Sums(f) ==
    CHOOSE sum : sum = [s \in SUBSET DOMAIN f |->
        IF s = {} THEN 0 ELSE f[First(s)] + sum[s \ {First(s)}]]

LEMMA TotalIsSum == \A f : Total(f) = Sums(f)[DOMAIN f]
BY DEF Total, MapThenSumSet, MapThenFoldSet, Sums, First

LEMMA SumsExist ==
    ASSUME NEW f, IsFiniteSet(DOMAIN f)
    PROVE  /\ DOMAIN Sums(f) = SUBSET DOMAIN f
           /\ Sums(f)[{}] = 0
           /\ \A s \in SUBSET DOMAIN f : s # {} =>
                 /\ First(s) \in s
                 /\ Sums(f)[s] = f[First(s)] + Sums(f)[s \ {First(s)}]
<1> DEFINE S     == DOMAIN f
           Up(n) == {s \in SUBSET S : Cardinality(s) <= n}
           IsSum(sum, dom) == \A s \in dom :
              sum[s] = IF s = {} THEN 0 ELSE f[First(s)] + sum[s \ {First(s)}]
           Good  == {n \in 0..Cardinality(S) : \E sum : DOMAIN sum = Up(n) /\ IsSum(sum, Up(n))}
<1>0. Cardinality(S) \in Nat /\ \A s \in SUBSET S :
        /\ IsFiniteSet(s) /\ Cardinality(s) \in Nat /\ Cardinality(s) <= Cardinality(S)
  BY FS_CardinalityType, FS_Subset
<1>1. \A s \in SUBSET S : s # {} =>
        First(s) \in s /\ Cardinality(s \ {First(s)}) = Cardinality(s) - 1
  <2>1. ASSUME NEW s \in SUBSET S, s # {}
        PROVE  First(s) \in s /\ Cardinality(s \ {First(s)}) = Cardinality(s) - 1
    <3>1. First(s) \in s
      BY <2>1 DEF First
    <3>2. QED
      BY <1>0, <2>1, <3>1, FS_RemoveElement
  <2>2. QED
    BY <2>1
<1>2. 0 \in Good
  <2> DEFINE sum == [s \in Up(0) |-> 0]
  <2>1. \A s \in Up(0) : s = {}
    BY <1>0, FS_EmptySet
  <2>2. DOMAIN sum = Up(0) /\ IsSum(sum, Up(0))
    BY <2>1
  <2>3. 0 \in 0..Cardinality(S)
    BY <1>0
  <2> HIDE DEF sum, Up, IsSum
  <2>4. QED
    BY <2>2, <2>3
<1>3. ASSUME NEW n \in Good, n < Cardinality(S) PROVE n + 1 \in Good
  <2>1. PICK old : DOMAIN old = Up(n) /\ IsSum(old, Up(n))
    OBVIOUS
  <2> DEFINE sum == [s \in Up(n + 1) |->
                       IF s = {} THEN 0 ELSE f[First(s)] + old[s \ {First(s)}]]
  <2>2. n \in Nat /\ n + 1 \in 0..Cardinality(S)
    BY <1>0, <1>3
  <2>3. \A s \in Up(n) : s \in Up(n + 1) /\ sum[s] = old[s]
    BY <1>0, <2>1, <2>2
  <2>4. ASSUME NEW s \in Up(n + 1), s # {} PROVE s \ {First(s)} \in Up(n)
    <3>1. Cardinality(s \ {First(s)}) = Cardinality(s) - 1 /\ Cardinality(s) \in Nat
      BY <1>0, <1>1, <2>4
    <3>2. Cardinality(s) <= n + 1
      OBVIOUS
    <3>3. QED
      BY <2>2, <3>1, <3>2
  <2>5. IsSum(sum, Up(n + 1))
    BY <2>3, <2>4
  <2>6. DOMAIN sum = Up(n + 1)
    OBVIOUS
  <2> HIDE DEF sum, Up, IsSum
  <2>7. QED
    BY <2>2, <2>5, <2>6
<1>4. Cardinality(S) \in Good
  <2> HIDE DEF Up, IsSum
  <2>1. Good \in SUBSET Int /\ Good # {} /\ \A n \in Good : n \in Nat /\ n <= Cardinality(S)
    <3>1. \A n \in Good : n \in 0..Cardinality(S)
      OBVIOUS
    <3> HIDE DEF Good
    <3>2. QED
      BY <1>0, <1>2, <3>1
  <2>2. IsFiniteSet(Good)
    <3>1. Good \subseteq 0..Cardinality(S) /\ IsFiniteSet(0..Cardinality(S))
      BY <1>0, FS_Interval
    <3> HIDE DEF Good
    <3>2. QED
      BY <3>1, FS_Subset
  <2> HIDE DEF Good
  <2>3. PICK m \in Good : \A n \in Good : n <= m
    BY <2>1, <2>2, LargestOfFinite
  <2>4. m \in Nat /\ m <= Cardinality(S)
    BY <2>1
  <2>5. CASE m < Cardinality(S)
    <3>1. m + 1 \in Good
      BY <1>3, <2>5
    <3>2. QED
      BY <2>3, <2>4, <3>1
  <2>6. CASE m = Cardinality(S)
    BY <2>6
  <2>7. QED
    BY <1>0, <2>4, <2>5, <2>6
<1>5. Up(Cardinality(S)) = SUBSET S
  BY <1>0
<1>6. PICK sum : DOMAIN sum = SUBSET S /\ IsSum(sum, SUBSET S)
  <2> HIDE DEF Up, IsSum
  <2>1. QED
    BY <1>4, <1>5
<1>7. PICK fun : fun = [s \in SUBSET DOMAIN f |->
                          IF s = {} THEN 0 ELSE f[First(s)] + fun[s \ {First(s)}]]
  <2> DEFINE fun == [s \in SUBSET S |-> sum[s]]
  <2>1. \A s \in SUBSET S : s \ {First(s)} \in SUBSET S
    OBVIOUS
  <2>2. \A s \in SUBSET S :
          fun[s] = IF s = {} THEN 0 ELSE f[First(s)] + fun[s \ {First(s)}]
    BY <1>6, <2>1
  <2>3. fun = [s \in SUBSET S |-> IF s = {} THEN 0 ELSE f[First(s)] + fun[s \ {First(s)}]]
    BY <2>2
  <2>4. QED
    BY <2>3
<1>8. Sums(f) = [s \in SUBSET DOMAIN f |->
                   IF s = {} THEN 0 ELSE f[First(s)] + Sums(f)[s \ {First(s)}]]
  BY <1>7 DEF Sums
<1>9. QED
  BY <1>1, <1>8

\* What holds of no element and stays when the first is put back holds of every subset.
LEMMA EverySubset ==
    ASSUME NEW S, IsFiniteSet(S), NEW Q \in SUBSET SUBSET S, {} \in Q,
           \A s \in SUBSET S : s # {} /\ s \ {First(s)} \in Q => s \in Q
    PROVE  Q = SUBSET S
<1> DEFINE bad == (SUBSET S) \ Q
<1> SUFFICES ASSUME bad # {} PROVE FALSE
  OBVIOUS
<1>1. PICK s \in bad : \A t \in bad : <<t, s>> \notin StrictSubsetOrdering(S)
  <2>1. bad \subseteq SUBSET S /\ bad # {}
    OBVIOUS
  <2>2. IsWellFoundedOn(StrictSubsetOrdering(S), SUBSET S)
    BY SubsetsAreWellFounded
  <2> HIDE DEF bad
  <2>3. QED
    BY <2>1, <2>2, WFMin
<1>2. s # {} /\ First(s) \in s
  BY DEF First
<1>3. <<s \ {First(s)}, s>> \in StrictSubsetOrdering(S)
  BY <1>2 DEF StrictSubsetOrdering
<1>4. s \ {First(s)} \in Q
  BY <1>1, <1>3
<1>5. QED
  BY <1>2, <1>4

LEMMA SumsAreNumbers ==
    ASSUME NEW f, IsFiniteSet(DOMAIN f), \A x \in DOMAIN f : f[x] \in Nat
    PROVE  \A s \in SUBSET DOMAIN f : Sums(f)[s] \in Nat
<1> DEFINE Q == {s \in SUBSET DOMAIN f : Sums(f)[s] \in Nat}
<1>1. {} \in Q
  <2>1. Sums(f)[{}] = 0 /\ 0 \in Nat /\ {} \in SUBSET DOMAIN f
    BY SumsExist
  <2>2. QED
    BY <2>1
<1>2. ASSUME NEW s \in SUBSET DOMAIN f, s # {}, s \ {First(s)} \in Q PROVE s \in Q
  <2>1. First(s) \in s /\ Sums(f)[s] = f[First(s)] + Sums(f)[s \ {First(s)}]
    BY <1>2, SumsExist
  <2>2. f[First(s)] \in Nat /\ Sums(f)[s \ {First(s)}] \in Nat
    BY <1>2, <2>1
  <2>3. QED
    BY <2>1, <2>2
<1>3. Q \in SUBSET SUBSET DOMAIN f
  OBVIOUS
<1>4. Q = SUBSET DOMAIN f
  <2> HIDE DEF Q
  <2>1. QED
    BY <1>1, <1>2, <1>3, EverySubset
<1>5. QED
  BY <1>4

\* A sum of numbers above 0 is above 0.
LEMMA TotalIsPositive ==
    ASSUME NEW f, IsFiniteSet(DOMAIN f), DOMAIN f # {},
           \A x \in DOMAIN f : f[x] \in Nat \ {0}
    PROVE  Total(f) \in Nat \ {0}
<1> DEFINE s == DOMAIN f
<1>1. First(s) \in s /\ Sums(f)[s] = f[First(s)] + Sums(f)[s \ {First(s)}]
  BY SumsExist
<1>2. f[First(s)] \in Nat \ {0} /\ Sums(f)[s \ {First(s)}] \in Nat
  BY <1>1, SumsAreNumbers
<1>3. QED
  BY <1>1, <1>2, TotalIsSum

\* A sum that is smaller term by term is smaller, and equal only if all its terms are.
LEMMA TotalsCompare ==
    ASSUME NEW f, NEW g, IsFiniteSet(DOMAIN f), DOMAIN g = DOMAIN f,
           \A x \in DOMAIN f : f[x] \in Nat /\ g[x] \in Nat /\ f[x] <= g[x]
    PROVE  /\ Total(f) \in Nat /\ Total(g) \in Nat /\ Total(f) <= Total(g)
           /\ Total(f) = Total(g) => \A x \in DOMAIN f : f[x] = g[x]
<1> DEFINE Q == {s \in SUBSET DOMAIN f :
                   /\ Sums(f)[s] <= Sums(g)[s]
                   /\ Sums(f)[s] = Sums(g)[s] => \A x \in s : f[x] = g[x]}
<1>1. \A s \in SUBSET DOMAIN f : Sums(f)[s] \in Nat /\ Sums(g)[s] \in Nat
  BY SumsAreNumbers
<1>2. {} \in Q
  <2>1. Sums(f)[{}] = 0
    BY SumsExist
  <2>2. Sums(g)[{}] = 0
    <3>1. IsFiniteSet(DOMAIN g)
      OBVIOUS
    <3>2. QED
      BY <3>1, SumsExist
  <2>3. QED
    BY <2>1, <2>2
<1>3. ASSUME NEW s \in SUBSET DOMAIN f, s # {}, s \ {First(s)} \in Q PROVE s \in Q
  <2> DEFINE x    == First(s)
             rest == s \ {x}
  <2>1. /\ x \in s /\ Sums(f)[s] = f[x] + Sums(f)[rest] /\ Sums(g)[s] = g[x] + Sums(g)[rest]
    BY <1>3, SumsExist
  <2>2. /\ f[x] \in Nat /\ g[x] \in Nat /\ f[x] <= g[x]
        /\ Sums(f)[rest] \in Nat /\ Sums(g)[rest] \in Nat
    BY <1>1, <2>1
  <2>3. /\ Sums(f)[rest] <= Sums(g)[rest]
        /\ Sums(f)[rest] = Sums(g)[rest] => \A y \in rest : f[y] = g[y]
    BY <1>3
  <2>4. s = rest \cup {x}
    BY <2>1
  <2> HIDE DEF x, rest
  <2>5. Sums(f)[s] <= Sums(g)[s]
    BY <2>1, <2>2, <2>3
  <2>6. ASSUME Sums(f)[s] = Sums(g)[s] PROVE \A y \in s : f[y] = g[y]
    <3>1. f[x] = g[x] /\ Sums(f)[rest] = Sums(g)[rest]
      BY <2>1, <2>2, <2>3, <2>6
    <3>2. QED
      BY <2>3, <2>4, <3>1
  <2>7. QED
    BY <2>5, <2>6
<1>4. Q \in SUBSET SUBSET DOMAIN f
  OBVIOUS
<1>5. Q = SUBSET DOMAIN f
  <2> HIDE DEF Q
  <2>1. QED
    BY <1>2, <1>3, <1>4, EverySubset
<1>6. DOMAIN f \in Q
  BY <1>5
<1>7. QED
  BY <1>1, <1>6, TotalIsSum

\* A sum of numbers up to b, of which those outside L are 0.
LEMMA TotalIsBounded ==
    ASSUME NEW f, IsFiniteSet(DOMAIN f), NEW b \in Nat, NEW L \in SUBSET DOMAIN f,
           \A x \in DOMAIN f : f[x] \in Nat /\ f[x] <= b,
           \A x \in (DOMAIN f) \ L : f[x] = 0
    PROVE  Total(f) <= b * Cardinality(L)
<1> DEFINE Q == {s \in SUBSET DOMAIN f : Sums(f)[s] <= b * Cardinality(s \cap L)}
<1>1. \A s \in SUBSET DOMAIN f : Sums(f)[s] \in Nat
  BY SumsAreNumbers
<1>2. {} \in Q
  <2>1. {} \cap L = {} /\ Sums(f)[{}] = 0 /\ Cardinality({}) = 0
    BY SumsExist, FS_EmptySet
  <2>2. b * 0 = 0
    OBVIOUS
  <2>3. QED
    BY <2>1, <2>2
<1>3. ASSUME NEW s \in SUBSET DOMAIN f, s # {}, s \ {First(s)} \in Q PROVE s \in Q
  <2> DEFINE x    == First(s)
             rest == s \ {x}
             n    == Cardinality(rest \cap L)
  <2>1. x \in s /\ Sums(f)[s] = f[x] + Sums(f)[rest]
    BY <1>3, SumsExist
  <2>2. f[x] \in Nat /\ f[x] <= b /\ Sums(f)[rest] \in Nat /\ Sums(f)[rest] <= b * n
    BY <1>1, <1>3, <2>1
  <2>3. IsFiniteSet(rest \cap L) /\ n \in Nat
    BY FS_Subset, FS_CardinalityType
  <2>4. CASE x \in L
    <3>1. s \cap L = (rest \cap L) \cup {x} /\ x \notin rest \cap L
      BY <2>1, <2>4
    <3>2. Cardinality(s \cap L) = n + 1
      BY <2>3, <3>1, FS_AddElement
    <3> HIDE DEF x, rest, n
    <3>3. b * (n + 1) = b * n + b /\ b * n \in Nat
      BY <2>3
    <3>4. Sums(f)[s] <= b * Cardinality(s \cap L)
      BY <2>1, <2>2, <3>2, <3>3
    <3>5. QED
      BY <3>4
  <2>5. CASE x \notin L
    <3>1. s \cap L = rest \cap L
      BY <2>1, <2>5
    <3>2. f[x] = 0
      BY <2>1, <2>5
    <3>3. Cardinality(s \cap L) = n
      BY <3>1
    <3> HIDE DEF x, rest, n
    <3>4. Sums(f)[s] = Sums(f)[rest]
      BY <2>1, <2>2, <3>2
    <3>5. Sums(f)[s] <= b * Cardinality(s \cap L)
      BY <2>2, <3>3, <3>4
    <3>6. QED
      BY <3>5
  <2>6. QED
    BY <2>4, <2>5
<1>4. Q \in SUBSET SUBSET DOMAIN f
  OBVIOUS
<1>5. Q = SUBSET DOMAIN f
  <2> HIDE DEF Q
  <2>1. QED
    BY <1>2, <1>3, <1>4, EverySubset
<1>6. DOMAIN f \in Q /\ DOMAIN f \cap L = L
  BY <1>5
<1>7. QED
  BY <1>6, TotalIsSum

(***************************************************************************)
(* The sample that each partition gives to the heatmap.                    *)
(***************************************************************************)
LEMMA MinOfTwo ==
    ASSUME NEW a \in Int, NEW b \in Int
    PROVE  Min({a, b}) = (IF a <= b THEN a ELSE b)
BY DEF Min

LEMMA MaxOfTwo ==
    ASSUME NEW a \in Int, NEW b \in Int
    PROVE  Max({a, b}) = (IF a >= b THEN a ELSE b)
BY DEF Max

LEMMA Quotient ==
    ASSUME NEW a \in Nat, NEW d \in Nat \ {0}
    PROVE  /\ a \div d \in Nat
           /\ d * (a \div d) <= a
           /\ a < d * (a \div d) + d
<1>1. a \div d \in Nat
  OBVIOUS
<1>2. d * (a \div d) <= a /\ a < d * (a \div d) + d
  OBVIOUS
<1>3. QED
  BY <1>1, <1>2

LEMMA BudgetIsWithinLimit ==
    /\ IsFiniteSet(ListedPartitions) /\ Cardinality(ListedPartitions) \in Nat
    /\ PointBudget \in 1..MaxPoints
    /\ Cardinality(ListedPartitions) <= MaxPoints =>
          PointBudget * Cardinality(ListedPartitions) <= MaxPoints
<1> DEFINE n == Cardinality(ListedPartitions)
           d == Max({1, n})
           q == MaxPoints \div d
<1>1. IsFiniteSet(ListedPartitions) /\ n \in Nat
  <2>1. ListedPartitions \subseteq Keys
    BY DEF ListedPartitions
  <2>2. QED
    BY <2>1, FiniteKeys, FS_Subset, FS_CardinalityType
<1>2. MaxPoints \in Nat \ {0}
  BY ScoringAssumption
<1>3. PointBudget = Max({1, q})
  BY DEF PointBudget
<1> HIDE DEF n
<1>4. d \in Nat \ {0} /\ d = IF n = 0 THEN 1 ELSE n
  BY <1>1, MaxOfTwo
<1> HIDE DEF d
<1>5. q \in Nat /\ q * d \in Nat /\ q * d <= MaxPoints /\ MaxPoints < q * d + d
  <2>1. q \in Nat
    BY <1>2, <1>4, Quotient
  <2>2. d * q <= MaxPoints /\ MaxPoints < d * q + d
    BY <1>2, <1>4, Quotient
  <2> HIDE DEF q
  <2>3. d * q = q * d /\ q * d \in Nat
    BY <1>4, <2>1
  <2>4. QED
    BY <2>1, <2>2, <2>3
<1> HIDE DEF q
<1>6. PointBudget = IF q = 0 THEN 1 ELSE q
  BY <1>3, <1>5, MaxOfTwo
<1>7. q <= q * d
  BY <1>4, <1>5
<1>8. PointBudget \in 1..MaxPoints
  BY <1>2, <1>5, <1>6, <1>7
<1>9. ASSUME n <= MaxPoints PROVE PointBudget * n <= MaxPoints
  <2>1. CASE n = 0
    BY <1>2, <1>8, <2>1
  <2>2. CASE n # 0
    <3>1. d = n /\ q # 0
      <4>1. q = 0 => q * d + d = d
        BY <1>4
      <4>2. QED
        BY <1>1, <1>2, <1>4, <1>5, <1>9, <2>2, <4>1
    <3>2. QED
      BY <1>5, <1>6, <3>1
  <2>3. QED
    BY <2>1, <2>2
<1>10. QED
  BY <1>1, <1>8, <1>9 DEF n

LEMMA PartsHoldRowsStep ==
    ASSUME IngestInv, IngestInv', PartsHoldRows, RunStep
    PROVE  PartsHoldRows'
<1>0. UNCHANGED sourceVars /\ Keys' = Keys /\ \A p : StationOf(p)' = StationOf(p)
  BY FeedStays, SameFeed DEF Keys
<1>1. CASE ReadChunk
  <2>1. groups' \subseteq {StationOf(p) : p \in clean'} /\ UNCHANGED <<counters, parts>>
    BY <1>1 DEF ReadChunk, writerVars
  <2>2. \A k \in Keys : PartRows(k)' = PartRows(k)
    BY <2>1 DEF PartRows, PartNumbers
  <2>3. QED
    BY <1>0, <2>1, <2>2 DEF PartsHoldRows
<1>2. ASSUME NEW s \in Stations, WriteGroup(s) PROVE PartsHoldRows'
  <2>1. /\ phase = "write" /\ s \in groups /\ groups' = groups \ {s}
        /\ UNCHANGED <<clean, valid>>
        /\ parts' = [parts EXCEPT ![SafeKey[s]][counters[SafeKey[s]]]
                        = {p \in clean : StationOf(p) = s}]
        /\ counters' = [counters EXCEPT ![SafeKey[s]] = @ + 1]
    BY <1>2 DEF WriteGroup, reportVars
  <2>2. PICK p \in clean : StationOf(p) = s
    BY <2>1 DEF PartsHoldRows
  <2>3. p \in valid' /\ StationOf(p)' = s /\ s \notin groups'
    BY <1>0, <2>1, <2>2 DEF IngestInv, IngestTypeOK
  <2>4. p \in PartRows(SafeKey[s])'
    BY <2>3 DEF IngestInv, WriterInv, Pending
  <2>5. ASSUME NEW k \in Keys, k # SafeKey[s], counters'[k] > 0 PROVE PartRows(k)' # {}
    <3>1. counters'[k] = counters[k] /\ parts'[k] = parts[k]
      BY <2>1, <2>5 DEF IngestInv, IngestTypeOK
    <3>2. PartRows(k)' = PartRows(k)
      BY <3>1 DEF PartRows, PartNumbers
    <3>3. QED
      BY <2>5, <3>1, <3>2 DEF PartsHoldRows
  <2>6. groups' \subseteq {StationOf(q)' : q \in clean'}
    BY <1>0, <2>1 DEF PartsHoldRows
  <2>7. \A k \in Keys : counters'[k] > 0 => PartRows(k)' # {}
    BY <2>4, <2>5
  <2>8. QED
    BY <1>0, <2>6, <2>7 DEF PartsHoldRows
<1>3. ASSUME UNCHANGED <<clean, groups, counters, parts>>, phase' = "write" => phase = "write"
      PROVE  PartsHoldRows'
  <2>1. \A k \in Keys : PartRows(k)' = PartRows(k)
    BY <1>3 DEF PartRows, PartNumbers
  <2>2. QED
    BY <1>0, <1>3, <2>1 DEF PartsHoldRows
<1>4. CASE \/ ReadFails \/ Report \/ AllClustered \/ LaterStep \/ UNCHANGED ingestVars
           \/ \E k \in Keys : Cluster(k) \/ Join(k)
  BY <1>3, <1>4 DEF ReadFails, Report, AllClustered, LaterStep, Cluster, Join, ingestVars, writerVars
<1>5. QED
  BY <1>1, <1>2, <1>4 DEF RunStep, IngestNext

LEMMA MergeHoldsRows ==
    ASSUME NEW k \in Keys, PartRows(k) # {}
    PROVE  Merge(k) # {}
<1>1. PICK p \in PartRows(k) : TRUE
  OBVIOUS
<1>2. PICK q \in IF Matches(k, p) = {} THEN {Unmatched} ELSE Matches(k, p) : TRUE
  OBVIOUS
<1>3. <<p, q>> \in Merge(k)
  BY <1>1, <1>2 DEF Merge
<1>4. QED
  BY <1>3

LEMMA SampleInvStep ==
    ASSUME ScoreInv, PartsHoldRows, SampleInv, [ScoreNext]_runVars
    PROVE  SampleInv'
<1> DEFINE share(k) == IF joined[k] = {} THEN 0
                       ELSE Min({PointBudget, Cardinality(joined[k])})
<1>0. Keys' = Keys /\ sampled = [k \in Keys |-> share(k)]
  BY DEF Keys, SampleInv
<1>1. CASE PrepareData /\ UNCHANGED scoreVars
  <2>1. phase \in {"read", "write", "cluster"} /\ UNCHANGED joined
    BY <1>1 DEF PrepareData, ReadChunk, ReadFails, Report, AllClustered, WriteGroup, Cluster
  <2>2. phase # "done" /\ phase' # "done"
    BY <1>1 DEF PrepareData, ReadChunk, ReadFails, Report, AllClustered, WriteGroup, Cluster
  <2>3. \A k \in Keys : joined[k] = {} /\ joined'[k] = {}
    BY <2>1 DEF ScoreInv, IngestInv, JoinInv
  <2>4. \A k \in Keys : share(k) = 0 /\ share(k)' = 0
    BY <2>3
  <2> HIDE DEF share
  <2>5. sampled' = [k \in Keys |-> share(k)']
    BY <1>0, <1>1, <2>4 DEF scoreVars
  <2>6. QED
    BY <1>0, <1>1, <2>2, <2>5 DEF SampleInv, scoreVars, share
<1>2. ASSUME NEW k \in Keys, ScorePartition(k) PROVE SampleInv'
  <2>1. /\ phase = "join" /\ phase' # "done" /\ k \in ListedPartitions
        /\ joined' = [joined EXCEPT ![k] = Merge(k)]
        /\ sampled' = [sampled EXCEPT ![k] = Min({PointBudget, Cardinality(Merge(k))})]
        /\ UNCHANGED <<counters, encoder, points>> /\ trends \subseteq trends'
    BY <1>2 DEF ScorePartition, Join, writerVars
  <2>2. PointBudget' = PointBudget
    BY <1>0, <2>1 DEF PointBudget, ListedPartitions
  <2>3. Merge(k) # {}
    BY <2>1, MergeHoldsRows DEF ListedPartitions, PartsHoldRows
  <2>4. DOMAIN joined = Keys
    BY DEF ScoreInv, IngestInv, IngestTypeOK
  <2>5. ASSUME NEW m \in Keys
        PROVE  sampled'[m] = share(m)'
    <3>1. CASE m = k
      <4>1. joined'[m] = Merge(k)
        BY <2>1, <2>4, <3>1
      <4>2. sampled'[m] = Min({PointBudget, Cardinality(Merge(k))})
        BY <1>0, <2>1, <3>1
      <4>3. share(m)' = Min({PointBudget, Cardinality(Merge(k))})
        BY <2>2, <2>3, <4>1
      <4>4. QED
        BY <4>2, <4>3
    <3>2. CASE m # k
      <4>1. joined'[m] = joined[m] /\ sampled'[m] = sampled[m]
        BY <2>1, <3>2
      <4>2. share(m)' = share(m)
        BY <2>2, <4>1
      <4> HIDE DEF share
      <4>3. QED
        BY <1>0, <4>1, <4>2
    <3>3. QED
      BY <3>1, <3>2
  <2>6. DOMAIN sampled' = Keys
    BY <1>0, <2>1
  <2>7. sampled' = [m \in Keys |-> share(m)']
    <3> HIDE DEF share
    <3>1. QED
      BY <1>0, <2>1, <2>5, <2>6
  <2>8. encoder' \subseteq {t[2] : t \in trends'}
    BY <2>1 DEF SampleInv
  <2> HIDE DEF share
  <2>9. QED
    BY <1>0, <2>1, <2>7, <2>8 DEF SampleInv, share
<1>3. ASSUME UNCHANGED <<sampled, joined, counters>>,
             IF phase' = "done" THEN points' \in Drawn' ELSE points' = [k \in Keys |-> 0],
             encoder' \subseteq {t[2] : t \in trends'}
      PROVE  SampleInv'
  <2>1. PointBudget' = PointBudget
    BY <1>0, <1>3 DEF PointBudget, ListedPartitions
  <2>2. QED
    BY <1>0, <1>3, <2>1 DEF SampleInv
<1>4. UNCHANGED sampled => Drawn' = Drawn
  BY DEF Drawn
<1>5. CASE TrainModel \/ BuildLeaderboard
  <2>1. /\ UNCHANGED <<sampled, joined, counters, points, trends>>
        /\ phase # "done" /\ phase' # "done"
        /\ encoder' = encoder \/ encoder' = {t[2] : t \in trends}
    BY <1>5 DEF TrainModel, BuildLeaderboard, writerVars
  <2>2. QED
    BY <1>3, <2>1 DEF SampleInv
<1>6. CASE GenerateHeatmap
  <2>1. /\ UNCHANGED <<sampled, joined, counters, encoder, trends>>
        /\ phase' = "done" /\ points' \in Drawn
    BY <1>6 DEF GenerateHeatmap, writerVars
  <2>2. QED
    BY <1>3, <1>4, <2>1 DEF SampleInv
<1>7. CASE UNCHANGED runVars
  <2>1. UNCHANGED <<sampled, joined, counters, encoder, trends, points, phase>>
    BY <1>7 DEF runVars, ingestVars, writerVars, scoreVars
  <2>2. QED
    BY <1>3, <1>4, <2>1 DEF SampleInv
<1>8. QED
  BY <1>1, <1>2, <1>5, <1>6, <1>7 DEF ScoreNext

LEMMA SampleInvariant == ScoreSpec => [](ScoreInv /\ PartsHoldRows /\ SampleInv)
<1>1. ScoreInit => PartsHoldRows /\ SampleInv
  <2> SUFFICES ASSUME ScoreInit PROVE PartsHoldRows /\ SampleInv
    OBVIOUS
  <2>1. /\ phase = "read" /\ counters = [k \in Keys |-> 0] /\ joined = [k \in Keys |-> {}]
        /\ sampled = [k \in Keys |-> 0] /\ points = [k \in Keys |-> 0] /\ encoder = {}
    BY DEF ScoreInit, IngestInit
  <2>2. QED
    BY <2>1 DEF PartsHoldRows, SampleInv
<1>2. ScoreInv /\ PartsHoldRows /\ SampleInv /\ [ScoreNext]_runVars
        => (PartsHoldRows /\ SampleInv)'
  BY RunSteps, ScoreInvStep, PartsHoldRowsStep, SampleInvStep DEF ScoreInv
<1>3. QED
  BY <1>1, <1>2, ScoreInvInit, ScoreInvStep, PTL DEF ScoreSpec

(***************************************************************************)
(* The heatmap.                                                            *)
(***************************************************************************)
LEMMA SampleSizes ==
    ASSUME ScoreInv, SampleInv
    PROVE  /\ sampled \in [Keys -> 0..MaxPoints]
           /\ \A k \in Keys : sampled[k] <= PointBudget
           /\ \A k \in Keys : sampled[k] = 0 <=> joined[k] = {}
<1>0. sampled = [k \in Keys |-> IF joined[k] = {} THEN 0
                                ELSE Min({PointBudget, Cardinality(joined[k])})]
  BY DEF SampleInv
<1>1. PointBudget \in 1..MaxPoints /\ MaxPoints \in Nat
  BY BudgetIsWithinLimit, ScoringAssumption
<1>2. ASSUME NEW k \in Keys
      PROVE  /\ sampled[k] \in 0..MaxPoints /\ sampled[k] <= PointBudget
             /\ sampled[k] = 0 <=> joined[k] = {}
  <2>1. CASE joined[k] = {}
    BY <1>0, <1>1, <2>1
  <2>2. CASE joined[k] # {}
    <3>1. joined[k] = Merge(k) /\ IsFiniteSet(Merge(k))
      BY <2>2, FiniteMerge DEF ScoreInv, IngestInv, JoinInv
    <3>2. Cardinality(joined[k]) \in Nat \ {0}
      BY <2>2, <3>1, FS_CardinalityType, FS_EmptySet
    <3> DEFINE n == Cardinality(joined[k])
    <3>3. sampled[k] = Min({PointBudget, n})
      BY <1>0, <2>2
    <3> HIDE DEF n
    <3>4. n \in Nat \ {0}
      BY <3>2 DEF n
    <3>5. sampled[k] = IF PointBudget <= n THEN PointBudget ELSE n
      BY <1>1, <3>3, <3>4, MinOfTwo
    <3>6. QED
      BY <1>1, <2>2, <3>4, <3>5
  <2>3. QED
    BY <2>1, <2>2
<1>3. QED
  BY <1>0, <1>2

LEMMA HeatmapKeepsItsLimit ==
    ASSUME ScoreInv, PartsHoldRows, SampleInv
    PROVE  HeatmapIsBounded
<1> SUFFICES ASSUME phase = "done"
             PROVE  /\ Total(points) <= MaxPoints
                    /\ Cardinality(ListedPartitions) <= MaxPoints =>
                         \A k \in ListedPartitions : points[k] > 0
  BY DEF HeatmapIsBounded
<1>0. IsFiniteSet(Keys) /\ MaxPoints \in Nat /\ ListedPartitions \subseteq Keys
  BY FiniteKeys, ScoringAssumption DEF ListedPartitions
<1>1. /\ points \in [Keys -> 0..MaxPoints] /\ \A k \in Keys : points[k] <= sampled[k]
      /\ Total(points) = Min({MaxPoints, Total(sampled)})
  BY DEF SampleInv, Drawn
<1>2. sampled \in [Keys -> 0..MaxPoints] /\ \A k \in Keys : sampled[k] <= PointBudget
  BY SampleSizes
<1>3. /\ DOMAIN points = Keys /\ DOMAIN sampled = Keys
      /\ \A k \in Keys : points[k] \in Nat /\ sampled[k] \in Nat
  BY <1>0, <1>1, <1>2
<1>4. /\ Total(points) \in Nat /\ Total(sampled) \in Nat
      /\ Total(points) = Total(sampled) => \A k \in Keys : points[k] = sampled[k]
  BY <1>0, <1>1, <1>3, TotalsCompare
<1>5. Total(points) = IF MaxPoints <= Total(sampled) THEN MaxPoints ELSE Total(sampled)
  BY <1>0, <1>1, <1>4, MinOfTwo
<1>6. ASSUME Cardinality(ListedPartitions) <= MaxPoints, NEW k \in ListedPartitions
      PROVE  points[k] > 0
  <2>1. \A m \in Keys \ ListedPartitions : sampled[m] = 0
    BY SampleSizes DEF ScoreInv, RollupInv
  <2>2. PointBudget \in Nat /\ PointBudget * Cardinality(ListedPartitions) <= MaxPoints
    BY <1>0, <1>6, BudgetIsWithinLimit
  <2>3. Total(sampled) <= PointBudget * Cardinality(ListedPartitions)
    BY <1>0, <1>2, <1>3, <2>1, <2>2, TotalIsBounded
  <2>4. Cardinality(ListedPartitions) \in Nat
    BY BudgetIsWithinLimit
  <2>5. Total(sampled) <= MaxPoints
    <3>1. PointBudget * Cardinality(ListedPartitions) \in Nat
      BY <2>2, <2>4
    <3>2. QED
      BY <1>0, <1>4, <2>2, <2>3, <3>1
  <2>6. points[k] = sampled[k]
    BY <1>0, <1>4, <1>5, <2>5
  <2>7. joined[k] # {}
    <3>1. joined[k] = Merge(k) /\ k \in Keys /\ counters[k] > 0
      BY DEF ScoreInv, RollupInv, ListedPartitions
    <3>2. QED
      BY <3>1, MergeHoldsRows DEF PartsHoldRows
  <2>8. QED
    BY <1>0, <1>3, <2>6, <2>7, SampleSizes
<1>7. QED
  BY <1>0, <1>4, <1>5, <1>6

\* The heatmap never holds more points than the limit, whatever the partitions are, and
\* forgets none of them that it has room for.
THEOREM HeatmapsKeepTheirLimit == ScoreSpec => []HeatmapIsBounded
BY SampleInvariant, HeatmapKeepsItsLimit, PTL

(***************************************************************************)
(* The figures of a hotspot: a count and an impact above 0, a recency up   *)
(* to 1, and a growth within its clip.                                     *)
(***************************************************************************)
LEMMA SeveritiesArePositive == ASSUME NEW row PROVE SeverityOf(row) \in Nat \ {0}
<1> DEFINE known == row.offences \cap DOMAIN Severity
           f     == [o \in known |-> Severity[o]]
           found == {Severity[o] : o \in known}
           all   == {DefaultSeverity} \cup found
<1>1. IsFiniteSet(known)
  BY ScoringAssumption, FS_Subset
<1>2. IsFiniteSet({f[o] : o \in known})
  <2>1. DOMAIN f = known
    OBVIOUS
  <2> HIDE DEF f
  <2>2. QED
    BY <1>1, <2>1, FiniteImage
<1>3. {f[o] : o \in known} = found
  OBVIOUS
<1>4. IsFiniteSet(all)
  <2>1. IsFiniteSet(found)
    BY <1>2, <1>3
  <2> HIDE DEF found
  <2>2. QED
    BY <2>1, FS_Singleton, FS_Union
<1>5. all \subseteq Nat \ {0} /\ all # {}
  BY ScoringAssumption
<1>6. Max(all) \in all
  <2>1. all \in SUBSET Int
    BY <1>5
  <2> HIDE DEF all
  <2>2. QED
    BY <1>4, <1>5, <2>1, LargestOfFinite
<1>7. SeverityOf(row) = Max(all)
  BY DEF SeverityOf
<1> HIDE DEF all
<1>8. QED
  BY <1>5, <1>6, <1>7

LEMMA ProductIsPositive ==
    ASSUME NEW a \in Nat \ {0}, NEW b \in Nat \ {0}
    PROVE  a * b \in Nat \ {0}
OBVIOUS

LEMMA ImpactsArePositive ==
    ASSUME NEW rows, IsFiniteSet(rows), rows # {}, NEW pair
    PROVE  Impact(rows, pair) \in Nat \ {0}
<1> DEFINE size     == Cardinality(rows)
           severity == SeverityOf(Row(pair[1]))
           weight   == WeightOf(Row(pair[1]))
           rush     == RushFactor(rows, pair)
<1>1. size \in Nat \ {0}
  BY FS_CardinalityType, FS_EmptySet
<1>2. severity \in Nat \ {0}
  BY SeveritiesArePositive
<1>3. weight \in Nat \ {0}
  BY ScoringAssumption DEF WeightOf
<1>4. rush \in Nat \ {0}
  BY DEF RushFactor
<1>5. Impact(rows, pair) = size * severity * weight * rush
  BY DEF Impact
<1> HIDE DEF size, severity, weight, rush
<1>6. size * severity \in Nat \ {0}
  BY <1>1, <1>2, ProductIsPositive
<1>7. size * severity * weight \in Nat \ {0}
  BY <1>3, <1>6, ProductIsPositive
<1>8. size * severity * weight * rush \in Nat \ {0}
  BY <1>4, <1>7, ProductIsPositive
<1>9. QED
  BY <1>5, <1>8

LEMMA SummaryOfRows ==
    ASSUME NEW id, NEW rows, IsFiniteSet(rows), rows # {}
    PROVE  LET s == Summary(id, rows)
           IN  {s.total, s.impact} \subseteq Nat \ {0} /\ s.high <= s.total
<1> DEFINE s    == Summary(id, rows)
           f    == [pair \in rows |-> Impact(rows, pair)]
           high == {pair \in rows : SeverityOf(Row(pair[1])) >= 4}
<1>1. s.total = Cardinality(rows) /\ s.impact = Total(f) /\ s.high = Cardinality(high)
  BY DEF Summary
<1>2. Cardinality(rows) \in Nat \ {0}
  BY FS_CardinalityType, FS_EmptySet
<1>3. Cardinality(high) <= Cardinality(rows)
  <2>1. high \subseteq rows
    OBVIOUS
  <2> HIDE DEF high
  <2>2. QED
    BY <2>1, FS_Subset
<1>4. Total(f) \in Nat \ {0}
  <2>1. DOMAIN f = rows /\ \A pair \in rows : f[pair] \in Nat \ {0}
    BY ImpactsArePositive
  <2> HIDE DEF f
  <2>2. QED
    BY <2>1, TotalIsPositive
<1> HIDE DEF s, f, high
<1>5. {s.total, s.impact} \subseteq Nat \ {0} /\ s.high <= s.total
  BY <1>1, <1>2, <1>3, <1>4
<1>6. QED
  BY <1>5 DEF s

\* The rows of a hotspot are some of the feed.
LEMMA RowsOfAHotspot ==
    ASSUME ScoreInv, NEW h \in ScoredHotspots
    PROVE  /\ phase # "write"
           /\ HotspotRows(h[1], h[2]) # {} /\ IsFiniteSet(HotspotRows(h[1], h[2]))
           /\ \A pair \in HotspotRows(h[1], h[2]) : pair[1] \in valid
<1>1. /\ h[1] \in Keys /\ joined[h[1]] # {} /\ h[2] \in Hotspots(h[1]) /\ IngestInv
  BY HotspotsOfKeys DEF ScoreInv
<1>2. phase # "write"
  BY <1>1 DEF IngestInv, JoinInv
<1>3. HotspotRows(h[1], h[2]) # {}
  BY <1>1 DEF Hotspots, HotspotRows
<1>4. HotspotRows(h[1], h[2]) \subseteq Merge(h[1])
  BY DEF HotspotRows
<1>5. IsFiniteSet(HotspotRows(h[1], h[2]))
  BY <1>1, <1>4, FiniteMerge, FS_Subset
<1>6. ASSUME NEW pair \in Merge(h[1]) PROVE pair[1] \in PartRows(h[1])
  BY DEF Merge
<1>7. \A pair \in HotspotRows(h[1], h[2]) : pair[1] \in valid
  BY <1>1, <1>4, <1>6, RowsOfOnePartition
<1>8. QED
  BY <1>2, <1>3, <1>5, <1>7

LEMMA RecencyIsWithinOne ==
    ASSUME IngestInv, phase # "write", NEW rows, rows # {},
           \A pair \in rows : pair[1] \in valid
    PROVE  LET r == Recency(rows) IN IsRatio(r) /\ r[1] > 0 /\ r[1] <= r[2]
<1> DEFINE own   == {pair[1] : pair \in rows}
           times == {Row(p).time : p \in own}
           all   == {Row(p).time : p \in valid}
<1>1. own \in SUBSET valid /\ own # {} /\ valid # {}
  OBVIOUS
<1>2. {Time(pair) : pair \in rows} = times
  BY DEF Time
<1>3. MaxTime = Max(all)
  BY TimesOfTheFeed DEF MaxTime
<1>4. Max(times) \in times /\ times \in SUBSET Nat
  <2> HIDE DEF own
  <2>1. QED
    BY <1>1, LastHour
<1>5. Max(all) \in all /\ all \in SUBSET Nat /\ \A t \in all : t <= Max(all)
  <2>1. valid \in SUBSET valid
    OBVIOUS
  <2>2. QED
    BY <1>1, <2>1, LastHour
<1>6. times \subseteq all
  BY <1>1
<1>7. Recency(rows) = <<24, 24 + MaxTime - Max(times)>>
  BY <1>2 DEF Recency
<1> HIDE DEF own, times, all
<1>8. Max(times) \in Nat /\ MaxTime \in Nat /\ Max(times) <= MaxTime
  BY <1>3, <1>4, <1>5, <1>6
<1> DEFINE age == 24 + MaxTime - Max(times)
<1>9. age \in Nat \ {0} /\ 24 <= age
  BY <1>8
<1>10. Recency(rows) = <<24, age>>
  BY <1>7
<1> HIDE DEF age
<1>11. QED
  BY <1>9, <1>10 DEF IsRatio

LEMMA NotBelowItself == ASSUME NEW a \in Nat \X Nat PROVE ~Below(a, a)
<1>1. a[1] * a[2] \in Nat
  OBVIOUS
<1>2. QED
  BY <1>1 DEF Below

LEMMA GrowthIsClipped ==
    ASSUME ClipIsInterval, NEW rows, IsFiniteSet(rows)
    PROVE  LET r == Growth(rows)
           IN  IsRatio(r) /\ ~Below(r, GrowthMin) /\ ~Below(GrowthMax, r)
<1> DEFINE older == Cardinality(Older(rows))
           later == Cardinality(rows) - older
           rate  == IF older = 0 THEN <<1, 1>> ELSE <<later, older>>
<1>1. older \in Nat /\ later \in Nat
  <2>1. Older(rows) \subseteq rows
    BY DEF Older
  <2>2. IsFiniteSet(Older(rows)) /\ older <= Cardinality(rows)
    BY <2>1, FS_Subset
  <2>3. older \in Nat /\ Cardinality(rows) \in Nat
    BY <2>2, FS_CardinalityType
  <2>4. QED
    BY <2>2, <2>3
<1>2. Growth(rows) = Clip(rate)
  BY DEF Growth
<1> HIDE DEF older, later
<1>3. IsRatio(rate)
  <2>1. CASE older = 0
    BY <2>1 DEF IsRatio
  <2>2. CASE older # 0
    BY <1>1, <2>2 DEF IsRatio
  <2>3. QED
    BY <2>1, <2>2
<1> HIDE DEF rate
<1>4. /\ IsRatio(GrowthMin) /\ IsRatio(GrowthMax)
      /\ GrowthMin \in Nat \X Nat /\ GrowthMax \in Nat \X Nat
  BY ScoringAssumption DEF IsRatio
<1>5. ~Below(GrowthMin, GrowthMin) /\ ~Below(GrowthMax, GrowthMax)
  BY <1>4, NotBelowItself
<1>6. LET r == Clip(rate) IN IsRatio(r) /\ ~Below(r, GrowthMin) /\ ~Below(GrowthMax, r)
  BY <1>3, <1>4, <1>5 DEF Clip, ClipIsInterval
<1>7. QED
  BY <1>2, <1>6

LEMMA ScoreTypes ==
    ASSUME ClipIsInterval, ScoreInv, SampleInv
    PROVE  ScoreTypeOK
<1>1. ASSUME NEW s \in summaries
      PROVE  {s.total, s.impact} \subseteq Nat \ {0} /\ s.high <= s.total
  <2>1. PICK h \in ScoredHotspots : s = SummaryOf(h)
    BY DEF ScoreInv, RollupInv
  <2>2. QED
    BY <2>1, RowsOfAHotspot, SummaryOfRows DEF SummaryOf
<1>2. ASSUME NEW r \in rates
      PROVE  /\ IsRatio(r.recency) /\ r.recency[1] > 0 /\ r.recency[1] <= r.recency[2]
             /\ IsRatio(r.growth) /\ ~Below(r.growth, GrowthMin)
             /\ ~Below(GrowthMax, r.growth)
  <2>1. PICK h \in ScoredHotspots : r = RatesOf(h)
    BY DEF ScoreInv, RollupInv
  <2> DEFINE rows == HotspotRows(h[1], h[2])
  <2>2. r.recency = Recency(rows) /\ r.growth = Growth(rows)
    BY <2>1 DEF RatesOf, Rates
  <2>3. /\ IngestInv /\ phase # "write" /\ rows # {} /\ IsFiniteSet(rows)
        /\ \A pair \in rows : pair[1] \in valid
    BY RowsOfAHotspot DEF ScoreInv
  <2> HIDE DEF rows
  <2>4. IsRatio(r.recency) /\ r.recency[1] > 0 /\ r.recency[1] <= r.recency[2]
    BY <2>2, <2>3, RecencyIsWithinOne
  <2>5. IsRatio(r.growth) /\ ~Below(r.growth, GrowthMin) /\ ~Below(GrowthMax, r.growth)
    BY <2>2, <2>3, GrowthIsClipped
  <2>6. QED
    BY <2>4, <2>5
<1>3. sampled \in [Keys -> 0..MaxPoints]
  BY SampleSizes
<1>4. points \in [Keys -> 0..MaxPoints]
  <2>1. CASE phase = "done"
    BY <2>1 DEF SampleInv, Drawn
  <2>2. CASE phase # "done"
    BY <2>2, ScoringAssumption DEF SampleInv
  <2>3. QED
    BY <2>1, <2>2
<1>5. encoder \subseteq {t[2] : t \in trends}
  BY DEF SampleInv
<1>6. QED
  BY <1>1, <1>2, <1>3, <1>4, <1>5 DEF ScoreTypeOK

\* The figures keep their types for every feed: an impact and a count are above 0, a
\* recency is at most 1, and a growth is within its clip, if that is an interval.
THEOREM ScoreTypeCorrect == ClipIsInterval => (ScoreSpec => []ScoreTypeOK)
<1>1. SUFFICES ASSUME ClipIsInterval PROVE ScoreSpec => []ScoreTypeOK
  OBVIOUS
<1>2. ScoreInv /\ SampleInv => ScoreTypeOK
  BY <1>1, ScoreTypes
<1>3. QED
  BY <1>2, SampleInvariant, PTL
=============================================================================
