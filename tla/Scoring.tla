------------------------------ MODULE Scoring ------------------------------
(***************************************************************************)
(* From the joined partitions of Ingestion to the leaderboard              *)
(* (pipeline/temporal.py, impact_scoring.py, forecasting.py,               *)
(* enforcement_engine.py, the caps of heatmap.py and the second half of    *)
(* run_pipeline): each partition is reduced to one summary per hotspot,    *)
(* apart from the others, and only the summaries meet.                     *)
(*                                                                         *)
(* A ratio is a pair <<numerator, denominator>> of integers, compared by   *)
(* cross-multiplication; rounding of floats is left out.  Severities count *)
(* halves and an impact counts quarters, so both are integers.             *)
(*                                                                         *)
(* An operator named for what it leaves out or gets wrong is a mutation of *)
(* the definition that follows it: no action uses it.                      *)
(***************************************************************************)
EXTENDS Ingestion, FiniteSetsExt

CONSTANTS
    Severity,           \* settings.severity_mapping, in halves
    DefaultSeverity,    \* settings.default_severity, in halves
    Weight,             \* settings.vehicle_weight_mapping
    DefaultWeight,      \* settings.default_vehicle_weight
    GrowthMin,          \* settings.growth_rate_clip_min, a ratio
    GrowthMax,          \* settings.growth_rate_clip_max
    UrgentGrowth,       \* settings.urgent_growth_threshold
    HighRecency,        \* settings.high_priority_recency_threshold
    MaxPoints           \* settings.heatmap_max_points

ASSUME ScoringAssumption ==
    /\ IsFiniteSet(DOMAIN Severity)
    /\ \A offence \in DOMAIN Severity : Severity[offence] \in Nat \ {0}
    /\ \A vehicle \in DOMAIN Weight : Weight[vehicle] \in Nat \ {0}
    /\ {DefaultSeverity, DefaultWeight, MaxPoints} \subseteq Nat \ {0}
    /\ {GrowthMin, GrowthMax, UrgentGrowth, HighRecency}
         \subseteq (Nat \ {0}) \X (Nat \ {0})

VARIABLES
    summaries,      \* hotspot_summaries: the impact of every hotspot
    rates,          \* recency_growth_parts
    trends,         \* hourly_counts_parts: date, hotspot and hour of each count
    sampled,        \* heatmap_samples: how many rows of every partition
    encoder,        \* the cluster ids the forecasting model was trained on
    leaderboard,
    points          \* how many points of every partition the heatmap draws

scoreVars == <<summaries, rates, trends, sampled, encoder, leaderboard, points>>
runVars   == <<ingestVars, scoreVars>>

Below(a, b) == a[1] * b[2] < b[1] * a[2]

(***************************************************************************)
(* The rows of a hotspot, out of a joined partition: pairs of a row and    *)
(* the assignment it met.                                                  *)
(***************************************************************************)
ClusterIdWithoutStation(k, label) == [station |-> "any", label |-> label]

ClusterId(k, label) == [station |-> k, label |-> label]

InHotspot(k, pair) == pair[2] # Unmatched /\ assigned[k][pair[2]] # 0

Hotspots(k) == {assigned[k][pair[2]] : pair \in {m \in Merge(k) : InHotspot(k, m)}}

HotspotRows(k, label) ==
    {pair \in Merge(k) : InHotspot(k, pair) /\ assigned[k][pair[2]] = label}

Time(pair) == Row(pair[1]).time
Hour(pair) == Time(pair) % 24

(***************************************************************************)
(* compute_global_time_bounds: over every partition.                       *)
(***************************************************************************)
Times(k) == {Row(p).time : p \in PartRows(k)}

MinTime == Min(UNION {Times(k) : k \in ListedPartitions})

MaxTimeOfOnePartition ==
    Max(Times(CHOOSE k \in ListedPartitions : TRUE))

MaxTime == Max(UNION {Times(k) : k \in ListedPartitions})

(***************************************************************************)
(* add_rush_hour_factor: rush hour is an hour of the day with more rows    *)
(* than the median of the hotspot's hours.  Factors 1.5 and 1, in halves.  *)
(***************************************************************************)
InHour(rows, hour) == Cardinality({pair \in rows : Hour(pair) = hour})

TwiceMedian(rows) ==
    LET hours  == {Hour(pair) : pair \in rows}
        half   == Cardinality(hours)
        AtMost(h)  == {g \in hours : InHour(rows, g) <= InHour(rows, h)}
        AtLeast(h) == {g \in hours : InHour(rows, g) >= InHour(rows, h)}
    IN  Min({InHour(rows, h) : h \in {g \in hours : 2 * Cardinality(AtMost(g)) >= half}})
          + Max({InHour(rows, h) :
                   h \in {g \in hours : 2 * Cardinality(AtLeast(g)) >= half}})

RushFactor(rows, pair) ==
    IF 2 * InHour(rows, Hour(pair)) > TwiceMedian(rows) THEN 3 ELSE 2

(***************************************************************************)
(* add_severity, add_impact_score: the worst offence that the text of the  *)
(* row mentions, times vehicle, rush hour and size of the hotspot.         *)
(***************************************************************************)
SeverityOf(row) ==
    Max({DefaultSeverity} \cup {Severity[o] : o \in row.offences \cap DOMAIN Severity})

WeightOf(row) ==
    IF row.vehicle \in DOMAIN Weight THEN Weight[row.vehicle] ELSE DefaultWeight

Impact(rows, pair) ==
    Cardinality(rows) * SeverityOf(Row(pair[1])) * WeightOf(Row(pair[1]))
        * RushFactor(rows, pair)

Total(f) == MapThenSumSet(LAMBDA x : f[x], DOMAIN f)

Summary(id, rows) ==
    [id     |-> id,
     total  |-> Cardinality(rows),
     impact |-> Total([pair \in rows |-> Impact(rows, pair)]),
     high   |-> Cardinality({pair \in rows : SeverityOf(Row(pair[1])) >= 4})]

(***************************************************************************)
(* compute_cluster_recency_and_growth: both are relative to the bounds of  *)
(* the whole feed.                                                         *)
(***************************************************************************)
Recency(rows) == <<24, 24 + MaxTime - Max({Time(pair) : pair \in rows})>>

Older(rows) == {pair \in rows : 2 * Time(pair) <= MinTime + MaxTime}

Clip(rate) ==
    IF Below(rate, GrowthMin) THEN GrowthMin
    ELSE IF Below(GrowthMax, rate) THEN GrowthMax ELSE rate

GrowthWithoutDefault(rows) ==
    LET older == Cardinality(Older(rows))
    IN  Clip(IF older = 0 THEN GrowthMax ELSE <<Cardinality(rows) - older, older>>)

Growth(rows) ==
    LET older == Cardinality(Older(rows))
    IN  Clip(IF older = 0 THEN <<1, 1>> ELSE <<Cardinality(rows) - older, older>>)

Rates(id, rows) == [id |-> id, recency |-> Recency(rows), growth |-> Growth(rows)]

(***************************************************************************)
(* One turn of the loop over partitions: the join and the rollups.         *)
(***************************************************************************)
ScoreInit ==
    /\ IngestInit
    /\ summaries   = {}
    /\ rates       = {}
    /\ trends      = {}
    /\ sampled     = [k \in Keys |-> 0]
    /\ encoder     = {}
    /\ leaderboard = <<>>
    /\ points      = [k \in Keys |-> 0]

PointBudget == Max({1, MaxPoints \div Max({1, Cardinality(ListedPartitions)})})

ScorePartition(k) ==
    /\ Join(k)
    /\ summaries' = summaries \cup
         {Summary(ClusterId(k, l), HotspotRows(k, l)) : l \in Hotspots(k)}
    /\ rates' = rates \cup {Rates(ClusterId(k, l), HotspotRows(k, l)) : l \in Hotspots(k)}
    /\ trends' = trends \cup
         UNION {{<<Time(pair) \div 24, ClusterId(k, l), Hour(pair)>> :
                   pair \in HotspotRows(k, l)} : l \in Hotspots(k)}
    /\ sampled' = [sampled EXCEPT ![k] = Min({PointBudget, Cardinality(Merge(k))})]
    /\ UNCHANGED <<encoder, leaderboard, points>>

(***************************************************************************)
(* train_forecast_model: the encoder knows the hotspots of all counts, not *)
(* only of those the model is fitted to.  Fewer than two end the run.      *)
(***************************************************************************)
TrainModelOnSplit ==
    /\ phase = "train"
    /\ IF Cardinality({t[2] : t \in trends}) < 2
         THEN phase' = "failed" /\ UNCHANGED encoder
         ELSE /\ phase' = "rank"
              /\ \E held_out \in trends : encoder' = {t[2] : t \in trends \ {held_out}}
    /\ UNCHANGED <<sourceVars, next, clean, groups, reportVars, writerVars, assigned,
                   joined, summaries, rates, trends, sampled, leaderboard, points>>

TrainModel ==
    /\ phase = "train"
    /\ IF Cardinality({t[2] : t \in trends}) < 2
         THEN phase' = "failed" /\ UNCHANGED encoder
         ELSE phase' = "rank" /\ encoder' = {t[2] : t \in trends}
    /\ UNCHANGED <<sourceVars, next, clean, groups, reportVars, writerVars, assigned,
                   joined, summaries, rates, trends, sampled, leaderboard, points>>

(***************************************************************************)
(* build_leaderboard: an inner join of the rollups, sorted by priority;    *)
(* the sort leaves hotspots of equal priority in any order.                *)
(***************************************************************************)
Status(rate) ==
    CASE Below(UrgentGrowth, rate.growth) -> "URGENT_DISPATCH"
      [] ~Below(UrgentGrowth, rate.growth) /\ Below(HighRecency, rate.recency) ->
           "HIGH_PRIORITY"
      [] OTHER -> "ROUTINE_PATROL"

Entry(summary, rate) ==
    [id       |-> summary.id,
     total    |-> summary.total,
     high     |-> summary.high,
     priority |-> <<summary.impact * rate.recency[1] * rate.growth[1],
                    rate.recency[2] * rate.growth[2]>>,
     status   |-> Status(rate)]

Entries ==
    {Entry(m[1], m[2]) : m \in {n \in summaries \X rates : n[1].id = n[2].id}}

RankedByPriority(ranking) ==
    \A i, j \in DOMAIN ranking :
       i < j => /\ ranking[i] # ranking[j]
                /\ ~Below(ranking[i].priority, ranking[j].priority)

BuildLeaderboard ==
    /\ phase = "rank"
    /\ phase' = "render"
    /\ \E ranking \in [1..Cardinality(Entries) -> Entries] :
         RankedByPriority(ranking) /\ leaderboard' = ranking
    /\ UNCHANGED <<sourceVars, next, clean, groups, reportVars, writerVars, assigned,
                   joined, summaries, rates, trends, sampled, encoder, points>>

(***************************************************************************)
(* generate_heatmap: the samples of the partitions together are cut down   *)
(* once more, at random.                                                   *)
(***************************************************************************)
DrawnSamples == {sampled}

Drawn ==
    {f \in [Keys -> 0..MaxPoints] :
       /\ \A k \in Keys : f[k] <= sampled[k]
       /\ Total(f) = Min({MaxPoints, Total(sampled)})}

GenerateHeatmap ==
    /\ phase = "render"
    /\ phase' = "done"
    /\ points' \in Drawn
    /\ UNCHANGED <<sourceVars, next, clean, groups, reportVars, writerVars, assigned,
                   joined, summaries, rates, trends, sampled, encoder, leaderboard>>

PrepareData ==
    \/ ReadChunk \/ ReadFails \/ Report \/ AllClustered
    \/ \E s \in Stations : WriteGroup(s)
    \/ \E k \in Keys : Cluster(k)

ScoreNext ==
    \/ PrepareData /\ UNCHANGED scoreVars
    \/ \E k \in Keys : ScorePartition(k)
    \/ TrainModel \/ BuildLeaderboard \/ GenerateHeatmap

ScoreSpec == ScoreInit /\ [][ScoreNext]_runVars

(***************************************************************************)
(*                               Properties                                *)
(***************************************************************************)
IsRatio(r) == r \in Nat \X (Nat \ {0})

\* Type invariant of the scoring phases; a recency is above 0 and at most 1, since no
\* hotspot is newer than the feed, and a growth lies within its clip.
ScoreTypeOK ==
    /\ \A s \in summaries : {s.total, s.impact} \subseteq Nat \ {0} /\ s.high <= s.total
    /\ \A r \in rates :
         /\ IsRatio(r.recency) /\ r.recency[1] > 0 /\ r.recency[1] <= r.recency[2]
         /\ IsRatio(r.growth) /\ ~Below(r.growth, GrowthMin) /\ ~Below(GrowthMax, r.growth)
    /\ sampled \in [Keys -> 0..MaxPoints] /\ points \in [Keys -> 0..MaxPoints]
    /\ encoder \subseteq {t[2] : t \in trends}

\* Every hotspot of the run, as <<partition, label>>.
AllHotspots ==
    (UNION {{<<k, assigned[k][p]>> : p \in DOMAIN assigned[k]} : k \in ListedPartitions})
      \ (Keys \X {0})

OwnRows(h) ==
    {<<p, p>> : p \in {q \in PartRows(h[1]) : assigned[h[1]][q] = h[2]}}

\* "No cluster ever spans two partitions", so rollups that see one partition each give
\* what one pass over the whole feed would: the leaderboard holds every hotspot once,
\* with the figures of exactly its own rows, wherever in the feed they came, and in the
\* order of its priorities.
LeaderboardOfWholeFeed ==
    phase \in {"render", "done"} /\ NoIdInTwoChunks =>
        /\ {leaderboard[i] : i \in DOMAIN leaderboard} =
             {LET id == ClusterId(h[1], h[2])
              IN  Entry(Summary(id, OwnRows(h)), Rates(id, OwnRows(h))) : h \in AllHotspots}
        /\ Len(leaderboard) = Cardinality(AllHotspots)
        /\ \A i, j \in DOMAIN leaderboard :
             i # j /\ Below(leaderboard[j].priority, leaderboard[i].priority) => i < j

\* A hotspot that the run ranks is one its own model can forecast, although ids of the
\* two come through different rollups: /predict never answers 422 for an id that
\* /leaderboard of the same run lists.
EveryRankedHotspotCanBeForecast ==
    phase \in {"render", "done"} =>
        {leaderboard[i].id : i \in DOMAIN leaderboard} = encoder

\* What an officer is told is true of the feed: "violations accelerating" only where
\* the later half of the feed's span has more of the hotspot's rows than the earlier
\* half, which has some; "active within the past few hours" only where the last row is
\* within three hours of the newest row of all.
DispatchMatchesActivity ==
    phase \in {"render", "done"} /\ NoIdInTwoChunks =>
        LET times == {Row(p).time : p \in valid}
            Of(i) == CHOOSE h \in AllHotspots : ClusterId(h[1], h[2]) = leaderboard[i].id
            early == {p \in valid : 2 * Row(p).time <= Min(times) + Max(times)}
        IN  \A i \in DOMAIN leaderboard :
              LET rows == {pair[1] : pair \in OwnRows(Of(i))}
              IN  CASE leaderboard[i].status = "URGENT_DISPATCH" ->
                         /\ rows \cap early # {}
                         /\ Cardinality(rows \ early) > Cardinality(rows \cap early)
                    [] leaderboard[i].status = "HIGH_PRIORITY" ->
                         Max(times) - Max({Row(p).time : p \in rows}) <= 3
                    [] OTHER -> TRUE

\* The heatmap is a bounded sample, also when there are more partitions than points and
\* each still gives its one; when there are not, no partition is missing from it.
HeatmapIsBounded ==
    phase = "done" =>
        /\ Total(points) <= MaxPoints
        /\ Cardinality(ListedPartitions) <= MaxPoints =>
             \A k \in ListedPartitions : points[k] > 0

\* What settings have to be for this, as settings.py:149-152 has them: the clip is an
\* interval, growth is urgent only above 1, and recency high only within three hours.
ClipIsInterval == ~Below(GrowthMax, GrowthMin)

ThresholdsAreMeant ==
    /\ UrgentGrowth[1] >= UrgentGrowth[2]
    /\ ~Below(UrgentGrowth, GrowthMin)
    /\ 28 * HighRecency[1] >= 24 * HighRecency[2]

(***************************************************************************)
(* The inductive invariant behind LeaderboardOfWholeFeed and EveryRanked-  *)
(* HotspotCanBeForecast: every rollup holds exactly the hotspots of the    *)
(* partitions that were joined.                                            *)
(***************************************************************************)
ScoredHotspots ==
    UNION {{<<k, l>> : l \in Hotspots(k)} : k \in {h \in Keys : joined[h] # {}}}

SummaryOf(h) == Summary(ClusterId(h[1], h[2]), HotspotRows(h[1], h[2]))
RatesOf(h)   == Rates(ClusterId(h[1], h[2]), HotspotRows(h[1], h[2]))
TrendsOf(h)  == {<<Time(pair) \div 24, ClusterId(h[1], h[2]), Hour(pair)>> :
                   pair \in HotspotRows(h[1], h[2])}

RollupInv ==
    /\ summaries = {SummaryOf(h) : h \in ScoredHotspots}
    /\ rates = {RatesOf(h) : h \in ScoredHotspots}
    /\ trends = UNION {TrendsOf(h) : h \in ScoredHotspots}
    /\ \A k \in Keys : joined[k] # {} => k \in ListedPartitions
    /\ phase \in {"train", "rank", "render", "done"} =>
          \A k \in ListedPartitions : joined[k] = Merge(k)

ScoreInv ==
    /\ IngestInv
    /\ RollupInv
    /\ phase \in {"rank", "render", "done"} => encoder = {t[2] : t \in trends}
    /\ phase \in {"render", "done"} =>
          /\ leaderboard \in [1..Cardinality(Entries) -> Entries]
          /\ RankedByPriority(leaderboard)

(***************************************************************************)
(* The inductive invariant behind HeatmapIsBounded, next to ScoreInv:      *)
(* every listed partition holds rows, so that each joined partition has    *)
(* its sample.                                                             *)
(***************************************************************************)
PartsHoldRows ==
    /\ phase = "write" => groups \subseteq {StationOf(p) : p \in clean}
    /\ \A k \in Keys : counters[k] > 0 => PartRows(k) # {}

SampleInv ==
    /\ sampled = [k \in Keys |-> IF joined[k] = {} THEN 0
                                 ELSE Min({PointBudget, Cardinality(joined[k])})]
    /\ IF phase = "done" THEN points \in Drawn ELSE points = [k \in Keys |-> 0]
    /\ encoder \subseteq {t[2] : t \in trends}
=============================================================================
