---------------------------- MODULE MCIngestion ----------------------------
(***************************************************************************)
(* Feeds for TLC: two chunks of at most two rows, from a few rows that     *)
(* each fail, or pass, for a reason of their own; and one chunk of good    *)
(* rows at different times, for scoring.                                   *)
(***************************************************************************)
EXTENDS Scoring, TLC

Good(id, station) ==
    [id |-> id, lat |-> "in", lon |-> "in", time |-> 8, station |-> station,
     line |-> "ok", offences |-> {}, vehicle |-> "unlisted"]

\* "MG-Road" and "MG Road" are two stations with one directory, MG_Road.
MCSafeKey == "MG-Road" :> "MG_Road" @@ "MG Road" :> "MG_Road" @@ "Unknown" :> "Unknown"
             @@ "HSR" :> "HSR"
MCStations == DOMAIN MCSafeKey

MCChunks(rows, n) == UNION {[1..k -> rows] : k \in 0..n}

MCBadRows ==
    {[Good(1, "MG Road") EXCEPT !.lat = "null"],
     [Good(2, "MG Road") EXCEPT !.lon = "inf"],
     [Good(1, "missing") EXCEPT !.lat = "inf", !.lon = "zero"],
     [Good(2, "MG-Road") EXCEPT !.lat = "out"],
     [Good(1, "MG-Road") EXCEPT !.time = NoTime]}

MCGoodRows == {Good(1, "MG-Road"), Good(1, "MG Road"), Good(2, "missing")}

MCMalformed == [Good(2, "MG Road") EXCEPT !.line = "malformed"]

MCFrom(sources, feeds) == {[source |-> s, chunks |-> f] : s \in sources, f \in feeds}

\* Two chunks, any rows: ids repeat inside and across chunks.
MCFeeds ==
    {<<a, b>> : a \in MCChunks(MCGoodRows \cup MCBadRows, 2),
                b \in MCChunks(MCGoodRows \cup MCBadRows, 2)}

\* One chunk with lines that read_csv skips.
MCFeedsWithBadLines == {<<a>> : a \in MCChunks(MCGoodRows \cup {MCMalformed}, 3)}

\* What the table of PostGIS can hold: ids are a key, nothing is null.
MCTable ==
    LET a == {Good(1, "MG Road"), [Good(1, "MG Road") EXCEPT !.lat = "out"]}
        b == {Good(2, "MG-Road"), [Good(2, "missing") EXCEPT !.lon = "zero"]}
        c == {Good(3, "MG Road"), Good(3, "missing")}
        d == {Good(4, "MG-Road"), Good(4, "MG Road")}
    IN  {<< <<x, y>>, <<z, w>> >> : x \in a, y \in b, z \in c, w \in d}
          \cup {<< <<x, y>>, <<z>> >> : x \in a, y \in b, z \in c}
          \cup {<<>>}

\* Four rows of one station, two of another and perhaps one of a third, within 25
\* hours: times in either half of the span, the same hour on two days, two hours before
\* the newest row and long before it.
MCAt(row, time) == [row EXCEPT !.time = time]

MCScored ==
    LET a == [Good(1, "MG Road") EXCEPT !.offences = {"NO PARKING", "FOOTPATH"}]
        b == [Good(2, "MG Road") EXCEPT !.vehicle = "BUS"]
        last == {<<>>, <<MCAt(Good(6, "HSR"), 1)>>}
    IN  {<< <<MCAt(a, t[1]), MCAt(b, t[2]), MCAt(Good(3, "MG Road"), t[3]),
              MCAt(Good(4, "missing"), u[1]), MCAt(Good(5, "missing"), u[2]),
              MCAt(Good(7, "MG Road"), 25)>> \o l >> :
           t \in [1..3 -> {1, 23, 25}], u \in {<<1, 1>>, <<1, 25>>, <<25, 23>>}, l \in last}

MCInputs ==
    MCFrom({"file", "no file", "bad columns"}, MCFeeds)
      \cup MCFrom({"file"}, MCFeedsWithBadLines \cup MCScored)
      \cup MCFrom({"table"}, MCTable)

\* settings.py, of its mappings one entry each; severities in halves.
MCSeverity    == "FOOTPATH" :> 5 @@ "NO PARKING" :> 3
MCWeight      == "BUS" :> 4
MCGrowthMin   == <<1, 2>>
MCGrowthMax   == <<3, 1>>
MCUrgent      == <<6, 5>>
MCHighRecency == <<9, 10>>

ASSUME MCThresholds == ClipIsInterval /\ ThresholdsAreMeant
=============================================================================
