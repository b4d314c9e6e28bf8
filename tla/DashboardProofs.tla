--------------------------- MODULE DashboardProofs ---------------------------
(***************************************************************************)
(* What the page shows, for any number of sessions, sections, replicas,    *)
(* runs and faults: never a run that was replaced everywhere TTL ticks     *)
(* ago, never an older run after a newer one unless replicas differed, and *)
(* without a change for TTL ticks what the replicas answer.                *)
(***************************************************************************)
EXTENDS Dashboard, SequenceTheorems, TLAPS

Ends == {"closed", "done", "stopped"}

(***************************************************************************)
(* The order of the sections.                                              *)
(***************************************************************************)
LEMMA SectionOrder ==
    /\ Len(Sections) = Len(Fetched) + 3 /\ Len(Fetched) \in Nat
    /\ DOMAIN Sections = 1..Len(Sections)
    /\ Sections[1] = "health"
    /\ \A i \in 1..Len(Fetched) : Sections[i + 1] = Fetched[i]
    /\ Sections[Len(Fetched) + 2] = "predict" /\ Sections[Len(Fetched) + 3] = "map"
<1>1. Fetched \in Seq(Cached) /\ Len(Fetched) \in Nat
  BY DashboardAssumption DEF Cached
<1> DEFINE top == <<"health">> \o Fetched
           all == Cached \cup {"health", "predict", "map"}
<1>2. <<"health">> \in Seq(all) /\ Fetched \in Seq(all) /\ <<"predict", "map">> \in Seq(all)
  BY <1>1
<1>3. /\ top \in Seq(all) /\ Len(top) = Len(Fetched) + 1
      /\ top[1] = "health" /\ \A i \in 1..Len(Fetched) : top[i + 1] = Fetched[i]
  BY <1>1, <1>2
<1> HIDE DEF top
<1>4. Sections = top \o <<"predict", "map">>
  BY DEF Sections, top
<1>5. QED
  BY <1>1, <1>2, <1>3, <1>4

LEMMA SectionSet ==
    /\ ToSet(Sections) = Cached \cup {"health", "predict", "map"}
    /\ ToSet(Sections) \cap Ends = {}
    /\ \A i, j \in DOMAIN Sections : Sections[i] = Sections[j] => i = j
<1>1. \A c \in Cached : \E i \in 1..Len(Fetched) : Fetched[i] = c
  BY DashboardAssumption DEF Cached, ToSet
<1>2. \A i \in 1..Len(Fetched) : Fetched[i] \in Cached
  BY DashboardAssumption DEF Cached, ToSet
<1>3. Cached \cap {"health", "predict", "map", "closed", "done", "stopped"} = {}
  BY DashboardAssumption DEF Cached
<1>4. \A i \in DOMAIN Sections : \/ i = 1
                                 \/ i - 1 \in 1..Len(Fetched) /\ Sections[i] = Fetched[i - 1]
                                 \/ i = Len(Fetched) + 2
                                 \/ i = Len(Fetched) + 3
  <2>1. ASSUME NEW i \in DOMAIN Sections, i - 1 \in 1..Len(Fetched)
        PROVE  Sections[i] = Fetched[i - 1]
    <3>1. Sections[(i - 1) + 1] = Fetched[i - 1] /\ i \in Int
      BY <2>1, SectionOrder
    <3>2. (i - 1) + 1 = i
      BY <3>1
    <3>3. QED
      BY <3>1, <3>2
  <2>2. QED
    BY <2>1, SectionOrder
<1>5. \A i \in DOMAIN Sections : Sections[i] \in Cached \cup {"health", "predict", "map"}
  BY <1>2, <1>4, SectionOrder
<1>6. \A c \in Cached : \E i \in DOMAIN Sections : Sections[i] = c
  <2>1. \A i \in 1..Len(Fetched) : i + 1 \in DOMAIN Sections
    BY SectionOrder
  <2>2. QED
    BY <1>1, <2>1, SectionOrder
<1>7. \A c \in {"health", "predict", "map"} : \E i \in DOMAIN Sections : Sections[i] = c
  <2>1. {1, Len(Fetched) + 2, Len(Fetched) + 3} \subseteq DOMAIN Sections
    BY SectionOrder
  <2>2. QED
    BY <2>1, SectionOrder
<1>8. ToSet(Sections) = Cached \cup {"health", "predict", "map"}
  BY <1>5, <1>6, <1>7 DEF ToSet
<1>9. ASSUME NEW i \in DOMAIN Sections, NEW j \in DOMAIN Sections, Sections[i] = Sections[j]
      PROVE  i = j
  <2>1. DOMAIN Fetched = 1..Len(Fetched)
    BY DashboardAssumption
  <2>2. CASE i - 1 \in 1..Len(Fetched) /\ j - 1 \in 1..Len(Fetched)
    <3>1. Sections[i] = Fetched[i - 1] /\ Sections[j] = Fetched[j - 1]
      BY <2>2, SectionOrder, <1>3, <1>4
    <3>2. i - 1 = j - 1
      BY <1>9, <2>1, <2>2, <3>1, DashboardAssumption
    <3>3. i \in Int /\ j \in Int
      BY SectionOrder
    <3>4. QED
      BY <3>2, <3>3
  <2>3. CASE i - 1 \notin 1..Len(Fetched) /\ j - 1 \notin 1..Len(Fetched)
    BY <1>4, <1>9, <2>3, SectionOrder
  <2>4. CASE i - 1 \in 1..Len(Fetched) /\ j - 1 \notin 1..Len(Fetched)
    BY <1>2, <1>3, <1>4, <1>9, <2>4, SectionOrder
  <2>5. CASE i - 1 \notin 1..Len(Fetched) /\ j - 1 \in 1..Len(Fetched)
    BY <1>2, <1>3, <1>4, <1>9, <2>5, SectionOrder
  <2>6. QED
    BY <2>2, <2>3, <2>4, <2>5
<1>10. QED
  BY <1>3, <1>8, <1>9 DEF Ends

LEMMA PositionOf ==
    ASSUME NEW c \in ToSet(Sections)
    PROVE  /\ Position(c) \in 1..Len(Sections) /\ Sections[Position(c)] = c
           /\ \A i \in DOMAIN Sections : Sections[i] = c => i = Position(c)
<1>1. \E n \in DOMAIN Sections : Sections[n] = c
  BY DEF ToSet
<1>2. Position(c) \in DOMAIN Sections /\ Sections[Position(c)] = c
  BY <1>1 DEF Position
<1>3. QED
  BY <1>2, SectionOrder, SectionSet

\* The section after c comes right after it; only after "map" there is none.
LEMMA FollowingSection ==
    ASSUME NEW c \in ToSet(Sections)
    PROVE  /\ Following(c) \in ToSet(Sections) \cup {"done"} /\ Following(c) # "health"
           /\ Following(c) = "done" => Position(c) = Len(Sections)
           /\ Following(c) # "done" => Position(Following(c)) = Position(c) + 1
           /\ Following(c) = "predict" => /\ Position("map") = Position(c) + 2
                                          /\ Sections[Position(c) + 1] = "predict"
<1>1. /\ Position(c) \in 1..Len(Sections) /\ Sections[Position(c)] = c
      /\ Len(Sections) \in Nat /\ DOMAIN Sections = 1..Len(Sections)
  BY PositionOf, SectionOrder
<1>2. CASE Position(c) = Len(Sections)
  BY <1>1, <1>2 DEF Following
<1>3. CASE Position(c) # Len(Sections)
  <2> DEFINE n == Position(c) + 1
  <2>1. n \in DOMAIN Sections /\ Following(c) = Sections[n] /\ n # 1
    BY <1>1, <1>3 DEF Following
  <2> HIDE DEF n
  <2>2. Sections[n] \in ToSet(Sections)
    BY <2>1 DEF ToSet
  <2>3. Sections[n] # "health" /\ Sections[n] # "done"
    BY <2>1, <2>2, SectionOrder, SectionSet DEF Ends
  <2>4. Position(Sections[n]) = n
    BY <2>1, <2>2, PositionOf
  <2>5. ASSUME Sections[n] = "predict" PROVE Position("map") = n + 1
    <3>1. n = Len(Fetched) + 2 /\ Len(Fetched) + 3 \in DOMAIN Sections
      <4>1. Len(Fetched) + 2 \in DOMAIN Sections /\ Len(Fetched) + 3 \in DOMAIN Sections
        BY SectionOrder
      <4>2. QED
        BY <2>1, <2>5, <4>1, SectionOrder, SectionSet
    <3>2. Position("map") = Len(Fetched) + 3
      BY <3>1, SectionOrder, SectionSet, PositionOf
    <3>3. QED
      BY <3>1, <3>2, SectionOrder
  <2>6. QED
    BY <1>1, <2>1, <2>2, <2>3, <2>4, <2>5 DEF n
<1>4. QED
  BY <1>2, <1>3

(***************************************************************************)
(* What Show does: the section it has come to shows the value, the other   *)
(* sections keep theirs or, when the page stops, are blank.                *)
(***************************************************************************)
Stops(s, value) == at[s] = "health" /\ value \notin Runs

LEMMA ShowEffects ==
    ASSUME DashTypeOK, NEW s \in Sessions, at[s] \in ToSet(Sections),
           NEW value \in {0} \cup Answers, Show(s, value)
    PROVE  /\ attempt' \in [Sessions -> 0..(MaxAttempts - 1)]
           /\ at' \in [Sessions -> ToSet(Sections) \cup Ends]
           /\ shown' \in [Sessions -> [ToSet(Sections) -> {0} \cup Answers]]
           /\ \A t \in Sessions \ {s} : at'[t] = at[t] /\ shown'[t] = shown[t]
           /\ shown'[s][at[s]] = value
           /\ Stops(s, value) =>
                /\ at'[s] = "stopped"
                /\ \A d \in ToSet(Sections) \ {at[s]} : shown'[s][d] = NotShown
           /\ ~Stops(s, value) =>
                /\ \A d \in ToSet(Sections) \ {at[s]} : shown'[s][d] = shown[s][d]
                /\ \/ at'[s] = Following(at[s])
                   \/ Following(at[s]) = "predict" /\ at'[s] = "map"
<1>0. /\ at \in [Sessions -> ToSet(Sections) \cup Ends]
      /\ shown \in [Sessions -> [ToSet(Sections) -> {0} \cup Answers]]
      /\ attempt \in [Sessions -> 0..(MaxAttempts - 1)] /\ NotShown \in Answers
  BY DEF DashTypeOK, Ends, Answers
<1>1. attempt' \in [Sessions -> 0..(MaxAttempts - 1)]
  <2>1. attempt' = [attempt EXCEPT ![s] = 0] /\ 0 \in 0..(MaxAttempts - 1)
    BY DashboardAssumption DEF Show
  <2>2. QED
    BY <1>0, <2>1
<1>2. Following(at[s]) \in ToSet(Sections) \cup {"done"} /\ "map" \in ToSet(Sections)
  BY FollowingSection, SectionSet
<1>3. CASE Stops(s, value)
  <2>1. /\ at' = [at EXCEPT ![s] = "stopped"]
        /\ shown' = [shown EXCEPT ![s] =
                       [d \in DOMAIN shown[s] |-> IF d = at[s] THEN value ELSE NotShown]]
    BY <1>3 DEF Show, Stops
  <2>2. DOMAIN shown[s] = ToSet(Sections)
    BY <1>0
  <2>3. shown'[s] = [d \in ToSet(Sections) |-> IF d = at[s] THEN value ELSE NotShown]
    BY <1>0, <2>1, <2>2
  <2>4. shown'[s] \in [ToSet(Sections) -> {0} \cup Answers]
    BY <1>0, <2>3
  <2>5. shown' \in [Sessions -> [ToSet(Sections) -> {0} \cup Answers]]
    BY <1>0, <2>1, <2>3, <2>4
  <2>6. at' \in [Sessions -> ToSet(Sections) \cup Ends] /\ at'[s] = "stopped"
    BY <1>0, <2>1 DEF Ends
  <2>7. \A t \in Sessions \ {s} : at'[t] = at[t] /\ shown'[t] = shown[t]
    BY <1>0, <2>1
  <2>8. QED
    BY <1>1, <1>3, <2>3, <2>5, <2>6, <2>7
<1>4. CASE ~Stops(s, value)
  <2>1. shown' = [shown EXCEPT ![s][at[s]] = value] /\ Advance(s, at[s])
    BY <1>4 DEF Show, Stops
  <2>2. \/ at' = [at EXCEPT ![s] = Following(at[s])]
        \/ Following(at[s]) = "predict" /\ at' = [at EXCEPT ![s] = "map"]
    BY <2>1 DEF Advance
  <2>3. at' \in [Sessions -> ToSet(Sections) \cup Ends]
    BY <1>0, <1>2, <2>2 DEF Ends
  <2>4. \/ at'[s] = Following(at[s])
        \/ Following(at[s]) = "predict" /\ at'[s] = "map"
    BY <1>0, <2>2
  <2>5. shown' \in [Sessions -> [ToSet(Sections) -> {0} \cup Answers]]
    BY <1>0, <2>1
  <2>6. \A t \in Sessions \ {s} : at'[t] = at[t] /\ shown'[t] = shown[t]
    BY <1>0, <2>1, <2>2
  <2>7. shown'[s][at[s]] = value
        /\ \A d \in ToSet(Sections) \ {at[s]} : shown'[s][d] = shown[s][d]
    BY <1>0, <2>1
  <2>8. QED
    BY <1>1, <1>4, <2>3, <2>4, <2>5, <2>6, <2>7
<1>5. QED
  BY <1>3, <1>4

LEMMA Distinct ==
    /\ ErrorAnswer \notin Runs /\ NotShown \notin Runs /\ ErrorAnswer # NotShown
    /\ ErrorAnswer # 0 /\ NotShown # 0 /\ NRuns \in Nat /\ Runs \subseteq Int
    /\ 0 \notin Runs /\ \A n \in 0..NRuns : n # 0 => n \in Runs
<1>1. {ErrorAnswer, NotShown} \cap (0..NRuns) = {} /\ ErrorAnswer # NotShown /\ NRuns \in Nat
  BY DashboardAssumption
<1>2. Runs = 1..NRuns
  BY DEF Runs
<1>3. /\ Runs \subseteq 0..NRuns /\ 0 \in 0..NRuns /\ Runs \subseteq Int /\ 0 \notin Runs
      /\ \A n \in 0..NRuns : n # 0 => n \in Runs
  BY <1>1, <1>2
<1>4. ErrorAnswer \notin 0..NRuns /\ NotShown \notin 0..NRuns
  BY <1>1
<1>5. QED
  BY <1>1, <1>3, <1>4

LEMMA Numbers ==
    ASSUME DashTypeOK
    PROVE  /\ TTL \in Nat \ {0} /\ 1 \in 1..TTL /\ TTL \in 1..TTL
           /\ calm \in 0..TTL /\ united \in 0..TTL /\ calm \in Int /\ united \in Int
           /\ \A r \in Replicas : served[r] \in 0..NRuns /\ served[r] \in Int
           /\ \A n \in 1..TTL : \A r \in Replicas : past[n][r] \in Int
<1>1. TTL \in Nat \ {0} /\ NRuns \in Nat
  BY DashboardAssumption, Distinct
<1>2. \A r \in Replicas : served[r] \in 0..NRuns
  BY DEF DashTypeOK
<1>3. \A n \in 1..TTL : \A r \in Replicas : past[n][r] \in 0..NRuns
  <2>1. past \in [1..TTL -> [Replicas -> 0..NRuns]]
    BY DEF DashTypeOK
  <2>2. ASSUME NEW n \in 1..TTL PROVE past[n] \in [Replicas -> 0..NRuns]
    BY <2>1
  <2>3. QED
    BY <2>2
<1>4. 0..NRuns \subseteq Int /\ 0..TTL \subseteq Int
  BY <1>1
<1>5. calm \in 0..TTL /\ united \in 0..TTL
  BY DEF DashTypeOK
<1>6. 1 \in 1..TTL /\ TTL \in 1..TTL
  BY <1>1
<1>7. QED
  BY <1>1, <1>2, <1>3, <1>4, <1>5, <1>6

\* What the replicas answer now.
LEMMA CurrentRuns ==
    ASSUME DashTypeOK
    PROVE  /\ \A v \in CurrentAnswers :
                /\ v \in Answers /\ v # NotShown
                /\ v \in Runs => network = "up" /\ \E r \in Replicas : v = served[r]
           /\ \A r \in Replicas : network = "up" /\ served[r] \in Runs =>
                served[r] \in CurrentAnswers
<1>1. ASSUME NEW v \in CurrentAnswers
      PROVE  /\ v \in Answers /\ v # NotShown
             /\ v \in Runs => network = "up" /\ \E r \in Replicas : v = served[r]
  <2>1. PICK r \in Replicas :
               v = IF network = "up" /\ served[r] # 0 THEN served[r] ELSE ErrorAnswer
    BY DEF CurrentAnswers
  <2>2. served[r] # 0 => served[r] \in Runs
    BY Numbers, Distinct
  <2>3. QED
    BY <2>1, <2>2, Distinct DEF Answers
<1>2. ASSUME NEW r \in Replicas, network = "up", served[r] \in Runs
      PROVE  served[r] \in CurrentAnswers
  <2>1. served[r] # 0
    BY <1>2, Distinct
  <2>2. QED
    BY <1>2, <2>1 DEF CurrentAnswers
<1>3. QED
  BY <1>1, <1>2

LEMMA SameApi ==
    ASSUME UNCHANGED apiVars
    PROVE  /\ UNCHANGED <<served, network, past, calm, united>>
           /\ Replicas' = Replicas /\ CurrentAnswers' = CurrentAnswers
           /\ \A n, v : ServedWithin(n, v)' <=> ServedWithin(n, v)
<1>1. UNCHANGED <<served, network, past, calm, united>>
  BY DEF apiVars
<1>2. Replicas' = Replicas
  BY <1>1 DEF Replicas
<1>3. CurrentAnswers' = CurrentAnswers
  BY <1>1, <1>2 DEF CurrentAnswers
<1>4. \A n, v : ServedWithin(n, v)' <=> ServedWithin(n, v)
  BY <1>1, <1>2 DEF ServedWithin
<1>5. QED
  BY <1>1, <1>2, <1>3, <1>4

\* While all replicas serve one run, nobody has seen a later one.
LEMMA UnitedAnswer ==
    ASSUME DashTypeOK, PastInv, ShownInv, united > 0, NEW r \in Replicas,
           NEW c \in ToSet(Sections)
    PROVE  NoLaterShown(c, served[r])
<1> SUFFICES ASSUME NEW s \in Sessions, shown[s][c] \in Runs PROVE shown[s][c] <= served[r]
  BY DEF NoLaterShown
<1>1. PICK q \in Replicas : shown[s][c] <= served[q]
  BY DEF ShownInv
<1>2. served[q] = served[r]
  BY DEF PastInv, Agree
<1>3. QED
  BY <1>1, <1>2

\* No later run is shown after the step, if the value is not one.
LEMMA StillNoLater ==
    ASSUME DashTypeOK, NEW s \in Sessions, at[s] \in ToSet(Sections),
           NEW value \in {0} \cup Answers, Show(s, value),
           NEW c \in ToSet(Sections), NEW bound, NoLaterShown(c, bound),
           c = at[s] /\ value \in Runs => value <= bound
    PROVE  \A t \in Sessions : shown'[t][c] \in Runs => shown'[t][c] <= bound
<1>1. ASSUME NEW t \in Sessions \ {s} PROVE shown'[t][c] \in Runs => shown'[t][c] <= bound
  BY ShowEffects DEF NoLaterShown
<1>2. c = at[s] => (shown'[s][c] \in Runs => shown'[s][c] <= bound)
  BY ShowEffects
<1>3. c # at[s] => (shown'[s][c] \in Runs => shown'[s][c] <= bound)
  <2>1. c # at[s] => shown'[s][c] \in {shown[s][c], NotShown}
    BY ShowEffects
  <2>2. QED
    BY <2>1, Distinct DEF NoLaterShown
<1>4. QED
  BY <1>1, <1>2, <1>3

\* A settled page that shows current answers goes on to be one.
LEMMA PagesAfterShow ==
    ASSUME DashInv, NEW s \in Sessions, at[s] \in ToSet(Sections),
           NEW value \in {0} \cup Answers, Show(s, value), UNCHANGED <<apiVars, settled>>,
           settled[s] /\ Stops(s, value) => network # "up" \/ \E r \in Replicas : served[r] = 0,
           settled[s] /\ ~Stops(s, value) /\ at[s] # "predict" =>
              network = "up" /\ value \in CurrentAnswers
    PROVE  \A t \in Sessions : PageInv(t)'
<1>0. /\ DashTypeOK /\ UNCHANGED <<served, network, calm, settled>>
      /\ Replicas' = Replicas /\ CurrentAnswers' = CurrentAnswers
  BY SameApi DEF DashInv
<1>1. ASSUME NEW t \in Sessions \ {s} PROVE PageInv(t)'
  <2>1. at'[t] = at[t] /\ shown'[t] = shown[t] /\ PageInv(t)
    BY <1>0, ShowEffects DEF DashInv
  <2>2. \A n : ShowsCurrent(t, n) => ShowsCurrent(t, n)'
    BY <1>0, <2>1 DEF ShowsCurrent
  <2>3. at[t] \in ToSet(Sections) => (ShowsCurrent(t, Position(at[t]) - 1)
                                        => ShowsCurrent(t, Position(at[t]) - 1)')
    BY <1>0, <2>1 DEF ShowsCurrent
  <2>4. QED
    BY <1>0, <2>1, <2>2, <2>3 DEF PageInv
<1>2. ASSUME settled[s], Stops(s, value) PROVE PageInv(s)'
  <2>1. at'[s] = "stopped" /\ "stopped" \notin ToSet(Sections)
    BY <1>0, <1>2, ShowEffects, SectionSet DEF Ends
  <2>2. QED
    BY <1>0, <1>2, <2>1 DEF PageInv, DashInv
<1>3. ASSUME settled[s], ~Stops(s, value) PROVE PageInv(s)'
  <2>0. PICK m \in 1..Len(Sections) : m = Position(at[s]) /\ Sections[m] = at[s]
    BY PositionOf
  <2>1. PageInv(s) /\ Len(Sections) \in Nat /\ DOMAIN Sections = 1..Len(Sections)
    BY SectionOrder DEF DashInv
  <2>2. network = "up" /\ (at[s] # "predict" => value \in CurrentAnswers)
    <3>1. CASE at[s] = "health"
      BY <1>3, <3>1 DEF Stops
    <3>2. CASE at[s] # "health"
      BY <1>3, <2>1, <3>2 DEF PageInv
    <3>3. QED
      BY <3>1, <3>2
  <2>3. \A i \in 1..(m - 1) : Sections[i] # "predict" => shown[s][Sections[i]] \in CurrentAnswers
    BY <1>3, <2>0, <2>1 DEF PageInv, ShowsCurrent
  <2>4. \A i \in 1..m : Sections[i] # "predict" => shown'[s][Sections[i]] \in CurrentAnswers
    <3>1. ASSUME NEW i \in 1..(m - 1), Sections[i] # "predict"
          PROVE  shown'[s][Sections[i]] \in CurrentAnswers
      <4>1. i \in DOMAIN Sections /\ i # m /\ m \in DOMAIN Sections
        BY <2>0, <2>1
      <4>2. Sections[i] \in ToSet(Sections) /\ Sections[i] # at[s]
        BY <2>0, <4>1, SectionSet DEF ToSet
      <4>3. DashTypeOK /\ value \in {0} \cup Answers
        BY DEF DashInv
      <4>4. shown'[s][Sections[i]] = shown[s][Sections[i]]
        BY <1>3, <4>2, <4>3, ShowEffects
      <4>5. QED
        BY <2>3, <3>1, <4>4
    <3>2. at[s] # "predict" => shown'[s][Sections[m]] \in CurrentAnswers
      <4>1. shown'[s][at[s]] = value
        BY <1>0, ShowEffects
      <4>2. QED
        BY <2>0, <2>2, <4>1
    <3>3. \A i \in 1..m : i = m \/ i \in 1..(m - 1)
      BY <2>0
    <3>4. QED
      BY <2>0, <3>1, <3>2, <3>3
  <2>5. at'[s] \in (ToSet(Sections) \ {"health"}) \cup {"done"} /\ at'[s] # "stopped"
        /\ "done" \notin ToSet(Sections)
    BY <1>0, <1>3, ShowEffects, FollowingSection, SectionSet DEF Ends
  <2>6. at'[s] = "done" => ShowsCurrent(s, Len(Sections))'
    <3>1. at'[s] = "done" => m = Len(Sections)
      <4>1. at'[s] = Following(at[s]) \/ at'[s] = "map"
        BY <1>0, <1>3, ShowEffects
      <4>2. Following(at[s]) = "done" => Position(at[s]) = Len(Sections)
        BY FollowingSection
      <4>3. QED
        BY <2>0, <4>1, <4>2
    <3>2. QED
      BY <1>0, <2>4, <3>1 DEF ShowsCurrent
  <2>7. at'[s] \in ToSet(Sections) => ShowsCurrent(s, Position(at[s]) - 1)'
    <3>1. CASE at'[s] = Following(at[s]) /\ at'[s] # "done"
      <4>1. Position(at'[s]) = m + 1
        BY <2>0, <3>1, FollowingSection
      <4>2. Position(at'[s]) - 1 = m
        BY <4>1
      <4>3. QED
        BY <1>0, <2>4, <4>2 DEF ShowsCurrent, Position
    <3>2. CASE Following(at[s]) = "predict" /\ at'[s] = "map"
      <4>1. Position(at'[s]) = m + 2 /\ Sections[m + 1] = "predict"
        BY <2>0, <3>2, FollowingSection
      <4>2. Position(at'[s]) - 1 = m + 1
        BY <4>1
      <4>3. \A i \in 1..(m + 1) : Sections[i] # "predict" => shown'[s][Sections[i]] \in CurrentAnswers
        <5>1. \A i \in 1..(m + 1) : i \in 1..m \/ i = m + 1
          BY <2>0
        <5>2. QED
          BY <2>4, <4>1, <5>1
      <4>4. QED
        BY <1>0, <4>2, <4>3 DEF ShowsCurrent, Position
    <3>3. QED
      BY <1>0, <1>3, <2>5, <3>1, <3>2, ShowEffects
  <2>8. QED
    BY <1>0, <1>3, <2>1, <2>2, <2>5, <2>6, <2>7 DEF PageInv
<1>4. ASSUME ~settled[s] PROVE PageInv(s)'
  BY <1>0, <1>4 DEF PageInv
<1>5. QED
  BY <1>1, <1>2, <1>3, <1>4

(***************************************************************************)
(* A section is shown: from the cache, from an answer that is now cached,  *)
(* or, past the cache, from the API.                                       *)
(***************************************************************************)
LEMMA SectionShown ==
    ASSUME DashInv, NEW s \in Sessions, at[s] \in ToSet(Sections),
           NEW value \in {0} \cup Answers, Show(s, value), UNCHANGED <<apiVars, settled>>,
           value \in Runs => \E r \in Replicas : value <= served[r],
           settled[s] /\ Stops(s, value) => network # "up" \/ \E r \in Replicas : served[r] = 0,
           settled[s] /\ ~Stops(s, value) /\ at[s] # "predict" =>
              network = "up" /\ value \in CurrentAnswers,
           answer' \in [Sessions -> Answers], answer'[s] = NotShown,
           \A t \in Sessions \ {s} : answer'[t] = answer[t],
           cache' \in [Cached -> [value : Answers, age : 0..TTL]],
           lock' \in [Cached -> Sessions \cup {Nobody}],
           \A d \in Cached \ {at[s]} : cache'[d] = cache[d] /\ lock'[d] = lock[d],
           at[s] \in Cached =>
              /\ lock'[at[s]] = Nobody /\ lock[at[s]] \in {Nobody, s}
              /\ cache'[at[s]].value = value /\ value # NotShown /\ cache'[at[s]].age < TTL
              /\ value \in Runs =>
                    /\ ServedWithin(cache'[at[s]].age + 1, value)
                    /\ cache'[at[s]].age < united => NoLaterShown(at[s], value)
              /\ cache'[at[s]].age < calm => value \in CurrentAnswers
    PROVE  DashInv'
<1>0. /\ DashTypeOK /\ UNCHANGED <<served, network, past, calm, united, settled>>
      /\ Replicas' = Replicas
      /\ Cached \subseteq ToSet(Sections) /\ Cached' = Cached /\ ToSet(Sections)' = ToSet(Sections)
  BY SectionSet, SameApi DEF DashInv
<1>1. /\ CurrentAnswers' = CurrentAnswers
      /\ \A n, v : ServedWithin(n, v)' <=> ServedWithin(n, v)
  BY SameApi
<1>2. ASSUME NEW t \in Sessions \ {s} PROVE at'[t] = at[t] /\ shown'[t] = shown[t]
  BY <1>0, ShowEffects
<1>3. ASSUME NEW d \in Cached, lock'[d] # Nobody PROVE at'[lock'[d]] = d /\ cache'[d] = NoEntry
  <2>1. d # at[s] /\ lock'[d] = lock[d] /\ cache'[d] = cache[d]
    BY <1>3
  <2>2. at[lock[d]] = d /\ cache[d] = NoEntry /\ lock[d] \in Sessions
    BY <1>0, <1>3, <2>1 DEF DashTypeOK
  <2>3. lock[d] # s
    BY <2>1, <2>2
  <2>4. QED
    BY <1>2, <2>1, <2>2, <2>3
<1>4. DashTypeOK'
  <2>1. /\ attempt' \in [Sessions -> 0..(MaxAttempts - 1)]
        /\ at' \in [Sessions -> ToSet(Sections) \cup {"closed", "done", "stopped"}]
        /\ shown' \in [Sessions -> [ToSet(Sections) -> {0} \cup Answers]]
    BY <1>0, ShowEffects DEF Ends
  <2>2. /\ Replicas' \in Deployments /\ served' \in [Replicas' -> 0..NRuns]
        /\ network' \in {"up"} \cup Faults[Replicas']
        /\ past' \in [1..TTL -> [Replicas' -> 0..NRuns]]
        /\ calm' \in 0..TTL /\ united' \in 0..TTL /\ settled' \in [Sessions -> BOOLEAN]
    BY <1>0 DEF DashTypeOK
  <2>3. QED
    BY <1>3, <2>1, <2>2 DEF DashTypeOK
<1>5. PastInv'
  BY <1>0 DEF DashInv, PastInv, Agree
<1>6. ShownInv'
  <2>1. ASSUME NEW t \in Sessions, NEW c \in ToSet(Sections), shown'[t][c] \in Runs
        PROVE  \E r \in Replicas : shown'[t][c] <= served[r]
    <3>1. shown'[t][c] \in {shown[t][c], value, NotShown}
      <4>1. c = at[s] /\ t = s => shown'[t][c] = value
        <5>1. shown'[s][at[s]] = value
          BY <1>0, ShowEffects
        <5>2. QED
          BY <5>1
      <4>2. c # at[s] /\ t = s => shown'[t][c] \in {shown[t][c], NotShown}
        BY <1>0, ShowEffects
      <4>3. QED
        BY <1>2, <4>1, <4>2
    <3>2. CASE shown'[t][c] = shown[t][c]
      BY <2>1, <3>2 DEF DashInv, ShownInv
    <3>3. QED
      BY <2>1, <3>1, <3>2, Distinct
  <2>2. QED
    BY <1>0, <2>1 DEF ShownInv
<1>7. ASSUME NEW d \in Cached PROVE EntryInv(d)'
  <2>1. CASE d = at[s]
    <3>1. cache'[d].value = value /\ value # NotShown /\ cache'[d].age < TTL
      BY <2>1
    <3>2. cache'[d].age < calm => value \in CurrentAnswers
      BY <2>1
    <3>3. ASSUME value \in Runs
          PROVE  /\ ServedWithin(cache'[d].age + 1, value)
                 /\ cache'[d].age < united =>
                      \A t \in Sessions : shown'[t][d] \in Runs => shown'[t][d] <= value
      <4>1. /\ ServedWithin(cache'[d].age + 1, value)
            /\ cache'[d].age < united => NoLaterShown(d, value)
        BY <2>1, <3>3
      <4>2. ASSUME cache'[d].age < united
            PROVE  \A t \in Sessions : shown'[t][d] \in Runs => shown'[t][d] <= value
        <5>1. value <= value
          BY <3>3, Distinct
        <5>2. QED
          BY <1>0, <4>1, <4>2, <5>1, StillNoLater
      <4>3. QED
        BY <4>1, <4>2
    <3>4. QED
      BY <1>0, <1>1, <3>1, <3>2, <3>3 DEF EntryInv, NoLaterShown
  <2>2. CASE d # at[s]
    <3>1. EntryInv(d) /\ cache'[d] = cache[d]
      BY <2>2 DEF DashInv
    <3>2. ASSUME cache[d].value # NotShown, cache[d].value \in Runs, cache[d].age < united
          PROVE  \A t \in Sessions : shown'[t][d] \in Runs => shown'[t][d] <= cache[d].value
      <4>1. NoLaterShown(d, cache[d].value)
        BY <3>1, <3>2 DEF EntryInv
      <4>2. QED
        BY <1>0, <2>2, <4>1, StillNoLater
    <3>3. QED
      BY <1>0, <1>1, <3>1, <3>2 DEF EntryInv, NoLaterShown, NoEntry
  <2>3. QED
    BY <2>1, <2>2
<1>8. ASSUME NEW t \in Sessions PROVE AnswerInv(t)'
  <2>1. CASE t = s
    BY <2>1 DEF AnswerInv
  <2>2. CASE t # s
    <3>1. AnswerInv(t) /\ answer'[t] = answer[t] /\ at'[t] = at[t]
      BY <1>2, <2>2 DEF DashInv
    <3>2. CASE answer[t] = NotShown
      BY <3>1, <3>2 DEF AnswerInv
    <3>3. CASE answer[t] # NotShown
      <4>1. at[t] \in Cached /\ lock[at[t]] = t
        BY <3>1, <3>3 DEF AnswerInv
      <4>2. at[t] # at[s]
        <5>1. t \notin {Nobody, s}
          BY <2>2, DashboardAssumption
        <5>2. QED
          BY <4>1, <5>1
      <4>3. lock'[at[t]] = t
        BY <4>1, <4>2
      <4>4. ASSUME answer[t] \in Runs, united > 0
            PROVE  \A u \in Sessions : shown'[u][at[t]] \in Runs => shown'[u][at[t]] <= answer[t]
        <5>1. NoLaterShown(at[t], answer[t])
          BY <3>1, <3>3, <4>4 DEF AnswerInv
        <5>2. QED
          BY <1>0, <4>1, <4>2, <5>1, StillNoLater
      <4>5. QED
        BY <1>0, <1>1, <3>1, <3>3, <4>1, <4>3, <4>4 DEF AnswerInv, NoLaterShown
    <3>4. QED
      BY <3>2, <3>3
  <2>3. QED
    BY <2>1, <2>2
<1>9. \A t \in Sessions : PageInv(t)'
  BY PagesAfterShow
<1>10. QED
  BY <1>0, <1>4, <1>5, <1>6, <1>7, <1>8, <1>9 DEF DashInv

(***************************************************************************)
(* A request goes out: its answer, if there is one by now, is the API's.   *)
(***************************************************************************)
LEMMA RequestSent ==
    ASSUME DashInv, NEW s \in Sessions, MayAsk(s), TakeLock(s),
           UNCHANGED <<apiVars, cache, at, shown, settled>>,
           attempt' \in [Sessions -> 0..(MaxAttempts - 1)],
           answer' \in [Sessions -> Answers], \A t \in Sessions \ {s} : answer'[t] = answer[t],
           answer'[s] = NotShown \/ (at[s] \in Cached /\ answer'[s] \in CurrentAnswers)
    PROVE  DashInv'
<1>0. /\ DashTypeOK
      /\ UNCHANGED <<served, network, past, calm, united, cache, at, shown, settled>>
      /\ Replicas' = Replicas
      /\ Cached \subseteq ToSet(Sections) /\ Cached' = Cached /\ ToSet(Sections)' = ToSet(Sections)
  BY SectionSet, SameApi DEF DashInv
<1>1. /\ CurrentAnswers' = CurrentAnswers
      /\ \A n, v : ServedWithin(n, v)' <=> ServedWithin(n, v)
  BY SameApi
<1>2. /\ lock' \in [Cached -> Sessions \cup {Nobody}]
      /\ \A d \in Cached : lock'[d] = IF d = at[s] THEN s ELSE lock[d]
  BY <1>0 DEF TakeLock, DashTypeOK
<1>3. ASSUME NEW d \in Cached, lock'[d] # Nobody PROVE at'[lock'[d]] = d /\ cache'[d] = NoEntry
  <2>1. CASE d = at[s]
    BY <1>0, <1>2, <2>1 DEF MayAsk, DashInv, EntryInv
  <2>2. CASE d # at[s]
    BY <1>0, <1>2, <1>3, <2>2 DEF DashTypeOK
  <2>3. QED
    BY <2>1, <2>2
<1>4. DashTypeOK'
  BY <1>0, <1>2, <1>3 DEF DashTypeOK
<1>5. PastInv' /\ ShownInv'
  BY <1>0 DEF DashInv, PastInv, Agree, ShownInv
<1>6. \A c \in Cached : EntryInv(c)'
  BY <1>0, <1>1 DEF DashInv, EntryInv, NoLaterShown, NoEntry
<1>7. ASSUME NEW t \in Sessions PROVE AnswerInv(t)'
  <2>1. CASE t = s
    <3>1. CASE answer'[s] = NotShown
      BY <2>1, <3>1 DEF AnswerInv
    <3>2. CASE answer'[s] # NotShown
      <4>1. at[s] \in Cached /\ lock'[at[s]] = s /\ answer'[s] \in CurrentAnswers
        BY <1>2, <3>2
      <4>2. ASSUME answer'[s] \in Runs
            PROVE  /\ ServedWithin(1, answer'[s])
                   /\ united > 0 => NoLaterShown(at[s], answer'[s])
        <5>1. PICK r \in Replicas : answer'[s] = served[r]
          BY <1>0, <4>1, <4>2, CurrentRuns
        <5>2. past[1][r] <= served[r] /\ served[r] <= served[r]
          BY <1>0, Numbers DEF DashInv, PastInv
        <5>3. united > 0 => NoLaterShown(at[s], served[r])
          BY <1>0, <4>1, UnitedAnswer DEF DashInv
        <5>4. QED
          BY <5>1, <5>2, <5>3 DEF ServedWithin
      <4>3. QED
        BY <1>0, <1>1, <2>1, <4>1, <4>2 DEF AnswerInv, NoLaterShown
    <3>3. QED
      BY <3>1, <3>2
  <2>2. CASE t # s
    <3>1. AnswerInv(t) /\ answer'[t] = answer[t]
      BY <2>2 DEF DashInv
    <3>2. ASSUME answer[t] # NotShown PROVE lock'[at[t]] = t
      <4>1. at[t] \in Cached /\ lock[at[t]] = t
        BY <3>1, <3>2 DEF AnswerInv
      <4>2. at[t] # at[s]
        BY <2>2, <4>1, DashboardAssumption DEF MayAsk
      <4>3. QED
        BY <1>2, <4>1, <4>2
    <3>3. QED
      BY <1>0, <1>1, <3>1, <3>2 DEF AnswerInv, NoLaterShown
  <2>3. QED
    BY <2>1, <2>2
<1>8. \A t \in Sessions : PageInv(t)'
  BY <1>0, <1>1 DEF DashInv, PageInv, ShowsCurrent, Position
<1>9. QED
  BY <1>0, <1>4, <1>5, <1>6, <1>7, <1>8 DEF DashInv

(***************************************************************************)
(* The steps of a session.                                                 *)
(***************************************************************************)
LEMMA CacheHitKeeps == ASSUME DashInv, NEW s \in Sessions, CacheHit(s) PROVE DashInv'
<1> DEFINE c == at[s]
           value == cache[c].value
<1>0. /\ DashTypeOK /\ c \in Cached /\ c \in ToSet(Sections) /\ c # "health" /\ c # "predict"
      /\ Show(s, value) /\ value # NotShown /\ lock[c] # s
      /\ UNCHANGED <<apiVars, cache, lock, answer, settled, loads>>
  <2>1. c \in Cached
    BY DEF CacheHit
  <2>2. c \in ToSet(Sections) /\ c # "health" /\ c # "predict"
    BY <2>1, SectionSet, DashboardAssumption DEF Cached
  <2>3. QED
    BY <2>1, <2>2 DEF CacheHit, DashInv
<1>1. EntryInv(c) /\ PageInv(s) /\ AnswerInv(s)
  BY <1>0 DEF DashInv
<1>2. /\ value \in Answers /\ cache[c].age < TTL
      /\ cache[c].age < calm => value \in CurrentAnswers
      /\ value \in Runs => /\ ServedWithin(cache[c].age + 1, value)
                           /\ cache[c].age < united => NoLaterShown(c, value)
  BY <1>0, <1>1 DEF EntryInv, DashTypeOK
<1>3. lock[c] = Nobody
  <2>1. lock[c] # Nobody => cache[c] = NoEntry
    BY <1>0 DEF DashTypeOK
  <2>2. QED
    BY <1>0, <2>1 DEF NoEntry
<1>4. answer[s] = NotShown
  BY <1>0, <1>1 DEF AnswerInv
<1>5. ~Stops(s, value)
  BY <1>0 DEF Stops
<1>6. settled[s] => network = "up" /\ value \in CurrentAnswers
  <2>1. settled[s] => calm = TTL /\ network = "up"
    BY <1>0, <1>1 DEF PageInv
  <2>2. QED
    BY <1>2, <2>1
<1>7. /\ answer' \in [Sessions -> Answers] /\ answer'[s] = NotShown
      /\ \A t \in Sessions \ {s} : answer'[t] = answer[t]
      /\ cache' \in [Cached -> [value : Answers, age : 0..TTL]] /\ cache' = cache
      /\ lock' \in [Cached -> Sessions \cup {Nobody}] /\ lock' = lock
  BY <1>0, <1>4 DEF DashTypeOK
<1>8. value \in Runs => \E r \in Replicas : value <= served[r]
  BY <1>2 DEF ServedWithin
<1> HIDE DEF value
<1>9. QED
  BY <1>0, <1>2, <1>3, <1>5, <1>6, <1>7, <1>8, SectionShown DEF value

\* What a replica answers, in terms of what a page may show.
LEMMA ApiAnswers ==
    ASSUME DashTypeOK, NEW s \in Sessions, NEW r \in Replicas, network # "refusing"
    PROVE  /\ ApiAnswer(s, r) \in {0} \cup Answers
           /\ ApiAnswer(s, r) \in Runs => ApiAnswer(s, r) = served[r]
           /\ at[s] \in Cached \cup {"map"} => ApiAnswer(s, r) \in CurrentAnswers
           /\ at[s] = "health" => ApiAnswer(s, r) = IF network = "up" THEN served[r] ELSE ErrorAnswer
<1>1. network \in {"up", "failing"} /\ served[r] \in 0..NRuns
  BY DashboardAssumption DEF DashTypeOK
<1>2. served[r] \in {0} \cup Runs
  BY <1>1, Distinct
<1>3. at[s] \in Cached \cup {"map"} => at[s] \notin {"health", "predict"}
  BY DashboardAssumption DEF Cached
<1>4. ApiAnswer(s, r) \in {served[r], ErrorAnswer}
  BY <1>1 DEF ApiAnswer
<1>5. at[s] \in Cached \cup {"map"} =>
        ApiAnswer(s, r) = IF network = "up" /\ served[r] # 0 THEN served[r] ELSE ErrorAnswer
  BY <1>1, <1>3 DEF ApiAnswer
<1>6. at[s] \in Cached \cup {"map"} => ApiAnswer(s, r) \in CurrentAnswers
  BY <1>5 DEF CurrentAnswers
<1>7. at[s] = "health" => ApiAnswer(s, r) = IF network = "up" THEN served[r] ELSE ErrorAnswer
  BY <1>1 DEF ApiAnswer
<1>8. QED
  BY <1>2, <1>4, <1>6, <1>7, Distinct DEF Answers

\* A section past the cache, shown at once.
LEMMA UncachedShown ==
    ASSUME DashInv, NEW s \in Sessions, MayAsk(s), TakeLock(s), at[s] \notin Cached,
           NEW value \in {0} \cup Answers, Show(s, value),
           UNCHANGED <<apiVars, cache, settled, answer>>,
           value \in Runs => \E r \in Replicas : value = served[r],
           at[s] = "health" =>
              IF network = "up" THEN \E r \in Replicas : value = served[r] ELSE value = ErrorAnswer,
           at[s] = "map" => value \in CurrentAnswers
    PROVE  DashInv'
<1>0. /\ DashTypeOK /\ at[s] \in ToSet(Sections) /\ answer[s] = NotShown
      /\ lock' = lock /\ at[s] \in {"health", "predict", "map"}
  BY SectionSet DEF DashInv, MayAsk, TakeLock
<1>1. value \in Runs => \E r \in Replicas : value <= served[r]
  <2>1. \A r \in Replicas : served[r] <= served[r]
    BY <1>0, Numbers
  <2>2. QED
    BY <2>1
<1>2. settled[s] /\ Stops(s, value) => network # "up" \/ \E r \in Replicas : served[r] = 0
  <2>1. \A r \in Replicas : served[r] \in {0} \cup Runs
    BY <1>0, Numbers, Distinct
  <2>2. QED
    BY <2>1 DEF Stops
<1>3. settled[s] /\ ~Stops(s, value) /\ at[s] # "predict" =>
        network = "up" /\ value \in CurrentAnswers
  <2>1. CASE at[s] = "health"
    <3>1. ASSUME ~Stops(s, value) PROVE network = "up" /\ value \in CurrentAnswers
      <4>1. value \in Runs /\ network = "up"
        BY <2>1, <3>1, Distinct DEF Stops
      <4>2. PICK r \in Replicas : value = served[r]
        BY <4>1
      <4>3. QED
        BY <1>0, <4>1, <4>2, CurrentRuns
    <3>2. QED
      BY <3>1
  <2>2. CASE at[s] = "map"
    <3>1. PageInv(s)
      BY DEF DashInv
    <3>2. settled[s] => network = "up"
      BY <1>0, <2>2, <3>1 DEF PageInv
    <3>3. QED
      BY <2>2, <3>2
  <2>3. QED
    BY <1>0, <2>1, <2>2
<1>4. /\ answer' \in [Sessions -> Answers] /\ answer'[s] = NotShown
      /\ cache' \in [Cached -> [value : Answers, age : 0..TTL]] /\ cache' = cache
      /\ lock' \in [Cached -> Sessions \cup {Nobody}]
  BY <1>0 DEF DashTypeOK
<1>5. QED
  BY <1>0, <1>1, <1>2, <1>3, <1>4, SectionShown

LEMMA AskKeeps == ASSUME DashInv, NEW s \in Sessions, Ask(s) PROVE DashInv'
<1>0. /\ DashTypeOK /\ MayAsk(s) /\ network # "refusing"
      /\ TakeLock(s) /\ UNCHANGED <<apiVars, cache, settled, loads>>
  BY DEF Ask, DashInv
<1>1. PICK r \in Replicas : Answered(s, ApiAnswer(s, r))
  BY DEF Ask
<1>2. /\ ApiAnswer(s, r) \in {0} \cup Answers
      /\ ApiAnswer(s, r) \in Runs => ApiAnswer(s, r) = served[r]
      /\ at[s] \in Cached \cup {"map"} => ApiAnswer(s, r) \in CurrentAnswers
      /\ at[s] = "health" => ApiAnswer(s, r) = IF network = "up" THEN served[r] ELSE ErrorAnswer
  BY <1>0, ApiAnswers
<1>3. CASE at[s] \in Cached
  <2>1. /\ answer' = [answer EXCEPT ![s] = ApiAnswer(s, r)]
        /\ UNCHANGED <<at, clicked, attempt, shown, choice>>
    BY <1>1, <1>3 DEF Answered
  <2>2. ApiAnswer(s, r) \in CurrentAnswers /\ ApiAnswer(s, r) \in Answers
    BY <1>0, <1>2, <1>3, CurrentRuns
  <2>3. /\ answer' \in [Sessions -> Answers] /\ answer'[s] \in CurrentAnswers
        /\ \A t \in Sessions \ {s} : answer'[t] = answer[t]
        /\ attempt' \in [Sessions -> 0..(MaxAttempts - 1)]
    BY <1>0, <2>1, <2>2 DEF DashTypeOK
  <2>4. QED
    BY <1>0, <1>3, <2>1, <2>3, RequestSent
<1>4. CASE at[s] \notin Cached
  <2> DEFINE value == ApiAnswer(s, r)
  <2>1. Show(s, value) /\ UNCHANGED answer
    BY <1>1, <1>4 DEF Answered
  <2>2. /\ value \in Runs => \E q \in Replicas : value = served[q]
        /\ at[s] = "health" =>
              IF network = "up" THEN \E q \in Replicas : value = served[q] ELSE value = ErrorAnswer
        /\ at[s] = "map" => value \in CurrentAnswers
        /\ value \in {0} \cup Answers
    BY <1>2
  <2> HIDE DEF value
  <2>3. QED
    BY <1>0, <1>4, <2>1, <2>2, UncachedShown
<1>5. QED
  BY <1>3, <1>4

LEMMA ConnectionFailsKeeps == ASSUME DashInv, NEW s \in Sessions, ConnectionFails(s) PROVE DashInv'
<1>0. /\ DashTypeOK /\ MayAsk(s) /\ network = "refusing" /\ answer[s] = NotShown
      /\ TakeLock(s) /\ UNCHANGED <<apiVars, cache, settled, loads>>
  BY DEF ConnectionFails, MayAsk, DashInv
<1>1. ErrorAnswer \in CurrentAnswers /\ ErrorAnswer \in Answers
  <2>1. PICK r \in Replicas : TRUE
    <3>1. Replicas \in Deployments /\ {} \notin Deployments
      BY <1>0, DashboardAssumption DEF DashTypeOK
    <3>2. Replicas # {}
      BY <3>1
    <3>3. QED
      BY <3>2
  <2>2. QED
    BY <1>0, <2>1 DEF CurrentAnswers, Answers
<1>2. CASE attempt[s] + 1 < MaxAttempts
  <2>1. /\ attempt' = [attempt EXCEPT ![s] = @ + 1]
        /\ UNCHANGED <<at, clicked, answer, shown, choice>>
    BY <1>2 DEF ConnectionFails
  <2>2. attempt[s] + 1 \in 0..(MaxAttempts - 1)
    BY <1>0, <1>2, DashboardAssumption DEF DashTypeOK
  <2>3. attempt' \in [Sessions -> 0..(MaxAttempts - 1)]
    BY <1>0, <2>1, <2>2 DEF DashTypeOK
  <2>4. /\ answer' \in [Sessions -> Answers] /\ answer'[s] = NotShown
        /\ \A t \in Sessions \ {s} : answer'[t] = answer[t]
    BY <1>0, <2>1 DEF DashTypeOK
  <2>5. QED
    BY <1>0, <2>1, <2>3, <2>4, RequestSent
<1>3. CASE ~(attempt[s] + 1 < MaxAttempts) /\ at[s] \in Cached
  <2>1. /\ answer' = [answer EXCEPT ![s] = ErrorAnswer]
        /\ UNCHANGED <<at, clicked, attempt, shown, choice>>
    BY <1>3 DEF ConnectionFails, Answered
  <2>2. /\ answer' \in [Sessions -> Answers] /\ answer'[s] \in CurrentAnswers
        /\ \A t \in Sessions \ {s} : answer'[t] = answer[t]
        /\ attempt' \in [Sessions -> 0..(MaxAttempts - 1)]
    BY <1>0, <1>1, <2>1 DEF DashTypeOK
  <2>3. QED
    BY <1>0, <1>3, <2>1, <2>2, RequestSent
<1>4. CASE ~(attempt[s] + 1 < MaxAttempts) /\ at[s] \notin Cached
  <2>1. Show(s, ErrorAnswer) /\ UNCHANGED answer
    BY <1>4 DEF ConnectionFails, Answered
  <2>2. QED
    BY <1>0, <1>1, <1>4, <2>1, UncachedShown, Distinct
<1>5. QED
  BY <1>2, <1>3, <1>4

LEMMA ReturnKeeps == ASSUME DashInv, NEW s \in Sessions, Return(s) PROVE DashInv'
<1> DEFINE c == at[s]
           value == answer[s]
<1>0. /\ DashTypeOK /\ value # NotShown /\ answer' = [answer EXCEPT ![s] = NotShown]
      /\ cache' = [cache EXCEPT ![c] = [value |-> value, age |-> 0]]
      /\ lock' = [lock EXCEPT ![c] = Nobody] /\ Show(s, value)
      /\ UNCHANGED <<apiVars, settled, loads>>
  BY DEF Return, DashInv
<1>1. /\ c \in Cached /\ lock[c] = s
      /\ value \in Runs => ServedWithin(1, value) /\ (united > 0 => NoLaterShown(c, value))
      /\ calm > 0 => value \in CurrentAnswers
  BY <1>0 DEF DashInv, AnswerInv
<1>2. c \in ToSet(Sections) /\ c # "health" /\ c # "predict" /\ value \in Answers
  BY <1>0, <1>1, SectionSet, DashboardAssumption DEF Cached, DashTypeOK
<1>3. ~Stops(s, value)
  BY <1>2 DEF Stops
<1>4. settled[s] => network = "up" /\ value \in CurrentAnswers
  <2>1. settled[s] => calm = TTL /\ network = "up"
    BY <1>2 DEF PageInv, DashInv
  <2>2. QED
    BY <1>1, <2>1, DashboardAssumption
<1>5. /\ answer' \in [Sessions -> Answers] /\ answer'[s] = NotShown
      /\ \A t \in Sessions \ {s} : answer'[t] = answer[t]
      /\ lock' \in [Cached -> Sessions \cup {Nobody}] /\ lock'[c] = Nobody
  BY <1>0, <1>1 DEF DashTypeOK, Answers
<1>6. 0 \in 0..TTL /\ 0 < TTL
  BY DashboardAssumption
<1>7. /\ cache' \in [Cached -> [value : Answers, age : 0..TTL]]
      /\ cache'[c].value = value /\ cache'[c].age = 0
  BY <1>0, <1>1, <1>2, <1>6 DEF DashTypeOK
<1>8. \A d \in Cached \ {c} : cache'[d] = cache[d] /\ lock'[d] = lock[d]
  BY <1>0 DEF DashTypeOK
<1>9. value \in Runs => /\ ServedWithin(cache'[c].age + 1, value)
                        /\ cache'[c].age < united => NoLaterShown(c, value)
  <2>1. 0 + 1 = 1 /\ cache'[c].age = 0
    BY <1>7
  <2>2. QED
    BY <1>1, <2>1
<1>10. cache'[c].age < calm => value \in CurrentAnswers
  BY <1>1, <1>7
<1>11. value \in Runs => \E r \in Replicas : value <= served[r]
  BY <1>1 DEF ServedWithin
<1> HIDE DEF value
<1>12. QED
  BY <1>0, <1>1, <1>2, <1>3, <1>4, <1>5, <1>6, <1>7, <1>8, <1>9, <1>10, <1>11, SectionShown
     DEF value

LEMMA OpenKeeps == ASSUME DashInv, NEW s \in Sessions, Open(s) PROVE DashInv'
<1>0. /\ DashTypeOK /\ at[s] \in Ends
      /\ at' = [at EXCEPT ![s] = "health"]
      /\ shown' = [shown EXCEPT ![s]["predict"] = NotShown]
      /\ settled' = [settled EXCEPT ![s] = calm = TTL]
      /\ UNCHANGED <<apiVars, cache, lock, attempt, answer>>
      /\ "health" \in ToSet(Sections) /\ Position("health") = 1 /\ NotShown \in Answers
  <2>1. "health" \in ToSet(Sections) /\ 1 \in DOMAIN Sections
    BY SectionSet, SectionOrder
  <2>2. Position("health") = 1
    BY <2>1, SectionOrder, PositionOf
  <2>3. QED
    BY <2>1, <2>2 DEF Open, DashInv, Ends, Answers
<1>a. /\ UNCHANGED <<served, network, past, calm, united>>
      /\ Replicas' = Replicas /\ CurrentAnswers' = CurrentAnswers
      /\ \A n, v : ServedWithin(n, v)' <=> ServedWithin(n, v)
  BY <1>0, SameApi
<1>1. /\ at' \in [Sessions -> ToSet(Sections) \cup {"closed", "done", "stopped"}]
      /\ shown' \in [Sessions -> [ToSet(Sections) -> {0} \cup Answers]]
      /\ settled' \in [Sessions -> BOOLEAN]
  BY <1>0 DEF DashTypeOK
<1>2. ASSUME NEW t \in Sessions \ {s}
      PROVE  at'[t] = at[t] /\ shown'[t] = shown[t] /\ settled'[t] = settled[t]
  BY <1>0 DEF DashTypeOK
<1>3. at'[s] = "health" /\ (settled'[s] <=> calm = TTL)
  BY <1>0 DEF DashTypeOK
<1>4. \A t \in Sessions, c \in ToSet(Sections) : shown'[t][c] \in {shown[t][c], NotShown}
  BY <1>0 DEF DashTypeOK
<1>5. ASSUME NEW c \in Cached, lock[c] # Nobody PROVE at'[lock[c]] = c /\ cache[c] = NoEntry
  <2>1. at[lock[c]] = c /\ cache[c] = NoEntry /\ lock[c] \in Sessions
    BY <1>0, <1>5 DEF DashTypeOK
  <2>2. c \notin Ends
    BY SectionSet
  <2>3. QED
    BY <1>0, <1>2, <2>1, <2>2
<1>6. DashTypeOK'
  BY <1>0, <1>a, <1>1, <1>5 DEF DashTypeOK, NoEntry
<1>7. \A c \in ToSet(Sections) : \A bound : NoLaterShown(c, bound) =>
         \A t \in Sessions : shown'[t][c] \in Runs => shown'[t][c] <= bound
  BY <1>4, Distinct DEF NoLaterShown
<1>8. Cached \subseteq ToSet(Sections)
  BY SectionSet
<1>9. PastInv' /\ ShownInv'
  <2>1. PastInv'
    BY <1>a DEF DashInv, PastInv, Agree
  <2>2. ShownInv'
    BY <1>4, <1>a, Distinct DEF DashInv, ShownInv
  <2>3. QED
    BY <2>1, <2>2
<1>10. \A c \in Cached : EntryInv(c)'
  <2>1. ASSUME NEW c \in Cached, cache[c].value # NotShown, cache[c].value \in Runs,
               cache[c].age < united
        PROVE  \A t \in Sessions : shown'[t][c] \in Runs => shown'[t][c] <= cache[c].value
    BY <1>7, <1>8, <2>1 DEF DashInv, EntryInv
  <2>2. QED
    BY <1>0, <1>a, <2>1 DEF DashInv, EntryInv, NoLaterShown, NoEntry
<1>11. ASSUME NEW t \in Sessions PROVE AnswerInv(t)'
  <2>1. AnswerInv(t)
    BY DEF DashInv
  <2>2. CASE answer[t] = NotShown
    BY <1>0, <2>2 DEF AnswerInv
  <2>3. CASE answer[t] # NotShown
    <3>1. at[t] \in Cached /\ t # s
      BY <1>0, <1>8, <2>1, <2>3, SectionSet DEF AnswerInv
    <3>2. at'[t] = at[t]
      BY <1>2, <3>1
    <3>3. answer[t] \in Runs /\ united > 0 =>
            \A u \in Sessions : shown'[u][at[t]] \in Runs => shown'[u][at[t]] <= answer[t]
      BY <1>7, <1>8, <2>1, <2>3, <3>1 DEF AnswerInv
    <3>4. QED
      BY <1>0, <1>a, <2>1, <2>3, <3>2, <3>3 DEF AnswerInv, NoLaterShown
  <2>4. QED
    BY <2>2, <2>3
<1>12. ASSUME NEW t \in Sessions PROVE PageInv(t)'
  <2>1. CASE t = s
    <3>1. "health" \notin {"done", "stopped"} /\ (Position(at[s]) - 1)' = 0
      BY <1>0, <1>3 DEF Position
    <3>2. ShowsCurrent(s, Position(at[s]) - 1)'
      BY <3>1 DEF ShowsCurrent
    <3>3. QED
      BY <1>a, <1>3, <2>1, <3>1, <3>2 DEF PageInv
  <2>2. CASE t # s
    BY <1>a, <1>2, <2>2 DEF DashInv, PageInv, ShowsCurrent, Position
  <2>3. QED
    BY <2>1, <2>2
<1>13. QED
  BY <1>0, <1>6, <1>9, <1>10, <1>11, <1>12 DEF DashInv

(***************************************************************************)
(* The steps of the API, the network and the clock.                        *)
(***************************************************************************)
LEMMA ChangesKeep ==
    ASSUME DashInv, NetworkChanges \/ \E r \in Replicas : Refresh(r)
    PROVE  DashInv'
<1>a. /\ DashTypeOK /\ calm' = 0 /\ settled' = [s \in Sessions |-> FALSE]
      /\ UNCHANGED <<past, cache, lock, at, attempt, answer, shown>>
  BY DEF DashInv, NetworkChanges, Refresh, Changed
<1>b. /\ Replicas' = Replicas /\ served' \in [Replicas -> 0..NRuns]
      /\ \A q \in Replicas : served[q] <= served'[q]
      /\ network' \in {"up"} \cup Faults[Replicas]
      /\ united' \in {united, 0} /\ (united' > 0 => Agree')
  <2>1. CASE NetworkChanges
    <3>1. UNCHANGED <<served, united>> /\ network' \in {"up"} \cup Faults[Replicas]
      BY <2>1 DEF NetworkChanges
    <3>2. Replicas' = Replicas
      BY <3>1 DEF Replicas
    <3>3. served' \in [Replicas -> 0..NRuns] /\ \A q \in Replicas : served[q] <= served'[q]
      BY <1>a, <3>1, Numbers DEF DashTypeOK
    <3>4. united' > 0 => Agree'
      BY <3>1, <3>2 DEF DashInv, PastInv, Agree
    <3>5. QED
      BY <3>1, <3>2, <3>3, <3>4
  <2>2. ASSUME NEW r \in Replicas, Refresh(r)
        PROVE  /\ Replicas' = Replicas /\ served' \in [Replicas -> 0..NRuns]
               /\ \A q \in Replicas : served[q] <= served'[q]
               /\ network' \in {"up"} \cup Faults[Replicas]
               /\ united' \in {united, 0} /\ (united' > 0 => Agree')
    <3>1. PICK run \in Runs : run > served[r] /\ served' = [served EXCEPT ![r] = run]
      BY <2>2 DEF Refresh
    <3>2. Replicas' = Replicas
      BY <3>1 DEF Replicas
    <3>3. run \in 0..NRuns /\ run \in Int
      BY Distinct DEF Runs
    <3>4. served \in [Replicas -> 0..NRuns]
      BY <1>a DEF DashTypeOK
    <3>5. served' \in [Replicas -> 0..NRuns]
      BY <3>1, <3>3, <3>4
    <3>6. \A q \in Replicas : served[q] <= served'[q]
      BY <1>a, <3>1, <3>3, <3>4, Numbers
    <3>7. /\ united' = IF Replicas = {r} THEN united ELSE 0
          /\ network' \in {"up"} \cup Faults[Replicas]
      BY <1>a, <2>2 DEF Refresh, DashTypeOK
    <3>8. united' > 0 => Agree'
      BY <3>2, <3>7 DEF Agree
    <3>9. QED
      BY <3>2, <3>5, <3>6, <3>7, <3>8
  <2>3. QED
    BY <2>1, <2>2
<1>0. /\ united \in 0..TTL /\ united' \in 0..TTL /\ (united' > 0 => united > 0)
      /\ \A n : n \in 0..TTL /\ n < united' => n < united
  BY <1>a, <1>b, Numbers
<1>c. /\ \A v \in Int : \A r \in Replicas : v <= served[r] => v <= served'[r]
      /\ \A n : \A v \in Runs : ServedWithin(n, v) => ServedWithin(n, v)'
  <2>1. \A v \in Int : \A r \in Replicas : v <= served[r] => v <= served'[r]
    <3>1. \A r \in Replicas : served[r] \in Int /\ served'[r] \in Int
      <4>1. 0..NRuns \subseteq Int
        BY Distinct
      <4>2. QED
        BY <1>a, <1>b, <4>1, Numbers
    <3>2. QED
      BY <1>b, <3>1
  <2>2. QED
    BY <1>a, <1>b, <2>1, Distinct DEF ServedWithin
<1>1. DashTypeOK'
  <2>1. 0 \in 0..TTL
    BY DashboardAssumption
  <2>2. past' \in [1..TTL -> [Replicas' -> 0..NRuns]] /\ served' \in [Replicas' -> 0..NRuns]
        /\ Replicas' \in Deployments /\ network' \in {"up"} \cup Faults[Replicas']
    BY <1>a, <1>b DEF DashTypeOK
  <2>3. QED
    BY <1>0, <1>a, <2>1, <2>2 DEF DashTypeOK, NoEntry
<1>3. PastInv'
  <2>1. \A n \in 1..TTL : \A r \in Replicas : past[n][r] \in Int
    BY <1>a, Numbers
  <2>2. \A n \in 1..TTL : \A r \in Replicas : past[n][r] <= served'[r]
    BY <1>c, <2>1 DEF DashInv, PastInv
  <2>3. QED
    BY <1>a, <1>b, <2>2 DEF DashInv, PastInv
<1>4. ShownInv'
  BY <1>a, <1>b, <1>c, Distinct DEF DashInv, ShownInv
<1>5. ASSUME NEW c \in Cached PROVE EntryInv(c)'
  <2>1. cache[c].age \in 0..TTL /\ ~(cache[c].age < 0) /\ cache'[c] = cache[c]
    BY <1>a DEF DashTypeOK
  <2>2. EntryInv(c)
    BY DEF DashInv
  <2>3. ~(cache'[c].age < calm')
    BY <1>a, <2>1
  <2>4. cache'[c].age < united' => cache[c].age < united
    BY <1>0, <2>1
  <2>5. cache[c].value \in Runs /\ ServedWithin(cache[c].age + 1, cache[c].value) =>
          ServedWithin(cache[c].age + 1, cache[c].value)'
    <3>1. ASSUME NEW n, NEW v \in Runs, ServedWithin(n, v), n = cache[c].age + 1, v = cache[c].value
          PROVE  ServedWithin(cache[c].age + 1, cache[c].value)'
      BY <1>a, <1>b, <1>c, <3>1, Distinct DEF ServedWithin
    <3>2. QED
      BY <3>1
  <2>6. QED
    BY <1>a, <2>1, <2>2, <2>3, <2>4, <2>5 DEF EntryInv, NoLaterShown, NoEntry
<1>6. ASSUME NEW s \in Sessions PROVE AnswerInv(s)'
  <2>1. AnswerInv(s) /\ answer'[s] = answer[s] /\ at'[s] = at[s]
    BY <1>a DEF DashInv
  <2>2. ~(calm' > 0)
    BY <1>a
  <2>3. answer[s] \in Runs /\ ServedWithin(1, answer[s]) => ServedWithin(1, answer[s])'
    BY <1>a, <1>b, <1>c, Distinct DEF ServedWithin
  <2>4. QED
    BY <1>0, <1>a, <2>1, <2>2, <2>3 DEF AnswerInv, NoLaterShown
<1>7. \A s \in Sessions : PageInv(s)'
  BY <1>a DEF PageInv
<1>8. QED
  BY <1>1, <1>3, <1>4, <1>5, <1>6, <1>7 DEF DashInv

LEMMA TickKeeps == ASSUME DashInv, Tick PROVE DashInv'
<1>0. /\ DashTypeOK /\ \A s \in Sessions : answer[s] = NotShown
      /\ past' = [n \in 1..TTL |-> IF n = 1 THEN served ELSE past[n - 1]]
      /\ calm' = (IF calm < TTL THEN calm + 1 ELSE calm)
      /\ united' = (IF Agree /\ united < TTL THEN united + 1 ELSE united)
      /\ \A c \in Cached : cache'[c] = IF cache[c].age + 1 < TTL
                                         THEN [cache[c] EXCEPT !.age = @ + 1] ELSE NoEntry
      /\ DOMAIN cache' = Cached
      /\ cache' = [c \in Cached |-> cache'[c]]
      /\ UNCHANGED <<served, network, lock, at, attempt, answer, shown, settled>>
  BY DEF Tick, CountTick, DashInv, pageVars
<1>a. Replicas' = Replicas /\ CurrentAnswers' = CurrentAnswers /\ (Agree' <=> Agree)
  BY <1>0 DEF Replicas, CurrentAnswers, Agree
<1>1. /\ TTL \in Nat \ {0} /\ served \in [Replicas -> 0..NRuns] /\ NRuns \in Nat
      /\ past \in [1..TTL -> [Replicas -> 0..NRuns]] /\ calm \in 0..TTL /\ united \in 0..TTL
      /\ \A c \in Cached : /\ cache[c] \in [value : Answers, age : 0..TTL]
                           /\ cache[c].value \in Answers /\ cache[c].age \in 0..TTL
  BY <1>0, DashboardAssumption, Distinct DEF DashTypeOK
<1>2. ASSUME NEW c \in Cached
      PROVE  /\ cache'[c] \in [value : Answers, age : 0..TTL]
             /\ cache[c] = NoEntry => cache'[c] = NoEntry
             /\ \/ cache'[c] = NoEntry
                \/ /\ cache'[c].value = cache[c].value /\ cache'[c].age = cache[c].age + 1
                   /\ cache[c].age + 1 < TTL
  <2>1. CASE cache[c].age + 1 < TTL
    <3>1. cache'[c] = [cache[c] EXCEPT !.age = @ + 1] /\ cache[c].age + 1 \in 0..TTL
      BY <1>0, <1>1, <2>1
    <3>2. cache'[c].value = cache[c].value /\ cache'[c].age = cache[c].age + 1
      BY <1>1, <3>1
    <3>3. cache[c] # NoEntry
      BY <1>1, <2>1 DEF NoEntry
    <3>4. cache'[c] \in [value : Answers, age : 0..TTL]
      BY <1>1, <3>1
    <3>5. QED
      BY <2>1, <3>2, <3>3, <3>4
  <2>2. CASE ~(cache[c].age + 1 < TTL)
    BY <1>0, <1>1, <2>2 DEF NoEntry, Answers
  <2>3. QED
    BY <2>1, <2>2
<1>3. past' \in [1..TTL -> [Replicas -> 0..NRuns]] /\ PastInv'
  <2>1. \A n \in 1..TTL : past'[n] = IF n = 1 THEN served ELSE past[n - 1]
    BY <1>0
  <2>2. \A n \in 1..TTL : n # 1 => n - 1 \in 1..TTL
    BY <1>1
  <2>3. \A n \in 1..TTL : past'[n] \in [Replicas -> 0..NRuns]
    BY <1>1, <2>1, <2>2
  <2>4. past' \in [1..TTL -> [Replicas -> 0..NRuns]]
    <3>1. past' = [n \in 1..TTL |-> past'[n]]
      BY <1>0
    <3>2. QED
      BY <2>3, <3>1
  <2>5. ASSUME NEW n \in 1..TTL, NEW r \in Replicas PROVE past'[n][r] <= served[r]
    <3>1. CASE n = 1
      BY <1>0, <2>1, <3>1, Numbers
    <3>2. CASE n # 1
      BY <2>1, <2>2, <3>2 DEF DashInv, PastInv
    <3>3. QED
      BY <3>1, <3>2
  <2>6. ASSUME NEW m \in 1..TTL, NEW n \in 1..TTL, NEW r \in Replicas, m <= n
        PROVE  past'[n][r] <= past'[m][r]
    <3>1. CASE m = 1
      BY <2>1, <2>5, <3>1
    <3>2. CASE m # 1
      <4>1. n # 1 /\ m - 1 <= n - 1
        BY <1>1, <2>6, <3>2
      <4>2. past[n - 1][r] <= past[m - 1][r]
        BY <2>2, <3>2, <4>1 DEF DashInv, PastInv
      <4>3. QED
        BY <2>1, <3>2, <4>1, <4>2
    <3>3. QED
      BY <3>1, <3>2
  <2>7. united' > 0 => Agree'
    BY <1>0, <1>a DEF DashInv, PastInv
  <2>8. QED
    BY <1>0, <1>a, <2>4, <2>5, <2>6, <2>7 DEF PastInv
<1>4. calm' \in 0..TTL /\ (calm = TTL => calm' = TTL) /\ united' \in 0..TTL
  BY <1>0, <1>1
<1>5. DashTypeOK'
  <2>1. cache' \in [Cached -> [value : Answers, age : 0..TTL]]
    BY <1>0, <1>2
  <2>2. \A c \in Cached : lock'[c] # Nobody => at'[lock'[c]] = c /\ cache'[c] = NoEntry
    BY <1>0, <1>2 DEF DashTypeOK
  <2>3. QED
    BY <1>0, <1>a, <1>3, <1>4, <2>1, <2>2 DEF DashTypeOK, NoEntry
<1>7. ASSUME NEW c \in Cached PROVE EntryInv(c)'
  <2>1. CASE cache'[c] = NoEntry
    BY <1>0, <2>1 DEF EntryInv, NoEntry
  <2>2. CASE cache'[c] # NoEntry
    <3> DEFINE a == cache[c].age
    <3>1. /\ cache'[c].value = cache[c].value /\ cache'[c].age = a + 1
          /\ a + 1 < TTL /\ a \in Nat
      BY <1>1, <1>2, <2>2
    <3>2. EntryInv(c) /\ cache[c] # NoEntry
      BY <1>2, <2>2 DEF DashInv
    <3>3. cache[c].value # NotShown
      BY <3>2 DEF EntryInv
    <3>4. past'[cache'[c].age + 1] = past[a + 1]
      <4>1. (a + 1) + 1 \in 1..TTL /\ (a + 1) + 1 # 1 /\ ((a + 1) + 1) - 1 = a + 1
        BY <1>1, <3>1
      <4>2. QED
        BY <1>0, <3>1, <4>1
    <3>5. /\ cache'[c].age < calm' => a < calm
          /\ cache'[c].age < united' => a < united
      BY <1>0, <1>1, <3>1
    <3>6. cache'[c].age < calm' => cache'[c].value \in CurrentAnswers
      BY <3>1, <3>2, <3>3, <3>5 DEF EntryInv
    <3>7. cache[c].value \in Runs => /\ ServedWithin(a + 1, cache[c].value)
                                     /\ a < united => NoLaterShown(c, cache[c].value)
      BY <3>2, <3>3 DEF EntryInv
    <3>8. ServedWithin(a + 1, cache[c].value) =>
            \E r \in Replicas : /\ past'[cache'[c].age + 1][r] <= cache'[c].value
                                /\ cache'[c].value <= served[r]
      BY <3>1, <3>4 DEF ServedWithin
    <3> HIDE DEF a
    <3>9. NoLaterShown(c, cache[c].value) =>
            \A t \in Sessions : shown'[t][c] \in Runs => shown'[t][c] <= cache'[c].value
      BY <1>0, <3>1 DEF NoLaterShown
    <3>10. cache'[c].value \in Runs => /\ ServedWithin(cache[c].age + 1, cache[c].value)'
                                       /\ cache'[c].age < united' => NoLaterShown(c, cache[c].value)'
      <4>1. ServedWithin(a + 1, cache[c].value) => ServedWithin(cache[c].age + 1, cache[c].value)'
        BY <1>0, <1>a, <3>8 DEF ServedWithin
      <4>2. NoLaterShown(c, cache[c].value) => NoLaterShown(c, cache[c].value)'
        BY <3>9 DEF NoLaterShown
      <4>3. QED
        BY <3>1, <3>5, <3>7, <4>1, <4>2
    <3>11. QED
      BY <1>a, <3>1, <3>3, <3>6, <3>10 DEF EntryInv
  <2>3. QED
    BY <2>1, <2>2
<1>8. ShownInv'
  BY <1>0, <1>a DEF DashInv, ShownInv
<1>9. \A s \in Sessions : AnswerInv(s)'
  BY <1>0 DEF AnswerInv
<1>10. \A s \in Sessions : PageInv(s)'
  BY <1>0, <1>a, <1>4 DEF DashInv, PageInv, ShowsCurrent, Position
<1>11. QED
  BY <1>3, <1>5, <1>7, <1>8, <1>9, <1>10 DEF DashInv

(***************************************************************************)
(* The invariant, and what it says of every state and step.                *)
(***************************************************************************)
LEMMA DashInvInit == DashInit => DashInv
<1> SUFFICES ASSUME DashInit PROVE DashInv
  OBVIOUS
<1>0. TTL \in Nat \ {0} /\ MaxAttempts \in Nat \ {0} /\ NRuns \in Nat /\ Nobody \notin Sessions
  BY DashboardAssumption
<1>1. NotShown \in Answers /\ NoEntry \in [value : Answers, age : 0..TTL]
  BY <1>0 DEF Answers, NoEntry
<1>2. /\ network = "up" /\ past = [n \in 1..TTL |-> served] /\ calm = 0 /\ united = TTL
      /\ cache = [c \in Cached |-> NoEntry] /\ lock = [c \in Cached |-> Nobody]
      /\ at = [s \in Sessions |-> "closed"] /\ attempt = [s \in Sessions |-> 0]
      /\ answer = [s \in Sessions |-> NotShown]
      /\ shown = [s \in Sessions |-> [c \in ToSet(Sections) |-> NotShown]]
      /\ settled = [s \in Sessions |-> FALSE]
  BY DEF DashInit
<1>a. PICK replicas \in Deployments : served = [r \in replicas |-> 0]
  BY DEF DashInit
<1>b. /\ Replicas = replicas /\ served \in [Replicas -> 0..NRuns]
      /\ \A r \in Replicas : served[r] = 0
  BY <1>0, <1>a DEF Replicas
<1>3. DashTypeOK
  <2>1. past \in [1..TTL -> [Replicas -> 0..NRuns]] /\ Replicas \in Deployments
    BY <1>2, <1>b
  <2>2. calm \in 0..TTL /\ united \in 0..TTL /\ attempt \in [Sessions -> 0..(MaxAttempts - 1)]
    BY <1>0, <1>2
  <2>3. QED
    BY <1>0, <1>1, <1>2, <1>b, <2>1, <2>2 DEF DashTypeOK
<1>4. PastInv
  <2>1. \A n \in 1..TTL : past[n] = served
    BY <1>2
  <2>2. \A r \in Replicas : served[r] <= served[r]
    BY <1>b
  <2>3. QED
    BY <1>b, <2>1, <2>2 DEF PastInv, Agree
<1>5. ShownInv
  BY <1>2, Distinct DEF ShownInv
<1>6. \A c \in Cached : EntryInv(c)
  BY <1>2 DEF EntryInv, NoEntry
<1>7. \A s \in Sessions : AnswerInv(s) /\ PageInv(s)
  BY <1>2 DEF AnswerInv, PageInv
<1>8. QED
  BY <1>3, <1>4, <1>5, <1>6, <1>7 DEF DashInv

LEMMA DashInvStep == DashInv /\ [DashNext]_dashVars => DashInv'
<1> SUFFICES ASSUME DashInv, [DashNext]_dashVars PROVE DashInv'
  OBVIOUS
<1>1. CASE UNCHANGED dashVars
  BY <1>1 DEF dashVars, apiVars, pageVars, DashInv, DashTypeOK, PastInv, Agree, ShownInv,
              NoLaterShown, ServedWithin, Replicas, EntryInv, AnswerInv, PageInv, ShowsCurrent,
              CurrentAnswers, NoEntry, Position
<1>2. ASSUME NEW s \in Sessions, Open(s) \/ RunScript(s) PROVE DashInv'
  BY <1>2, OpenKeeps, CacheHitKeeps, AskKeeps, ConnectionFailsKeeps, ReturnKeeps DEF RunScript
<1>3. QED
  BY <1>1, <1>2, ChangesKeep, TickKeeps DEF DashNext

\* The inductive invariant holds however sessions, cache, API and network interleave.
THEOREM DashInvariant == DashSpec => []DashInv
BY DashInvInit, DashInvStep, PTL DEF DashSpec

\* The dashboard keeps its types, and a lock is held only while its answer is computed.
THEOREM DashTypeCorrect == DashSpec => []DashTypeOK
BY DashInvariant, PTL DEF DashInv

LEMMA SettledIsCurrent == DashInv => RecoveredPagesAreCurrent
<1> SUFFICES ASSUME DashInv, NEW s \in Sessions, settled[s]
             PROVE  /\ at[s] = "done" =>
                         \A c \in Cached \cup {"health", "map"} : shown[s][c] \in CurrentAnswers
                    /\ at[s] = "stopped" => network # "up" \/ \E r \in Replicas : served[r] = 0
  BY DEF RecoveredPagesAreCurrent
<1>1. PageInv(s)
  BY DEF DashInv
<1>2. ASSUME at[s] = "done", NEW c \in Cached \cup {"health", "map"} 
      PROVE  shown[s][c] \in CurrentAnswers
  <2>1. c \in ToSet(Sections) /\ c # "predict"
    BY SectionSet, DashboardAssumption DEF Cached
  <2>2. Position(c) \in 1..Len(Sections) /\ Sections[Position(c)] = c
    BY <2>1, PositionOf
  <2>3. ShowsCurrent(s, Len(Sections))
    BY <1>1, <1>2 DEF PageInv
  <2>4. QED
    BY <2>1, <2>2, <2>3 DEF ShowsCurrent
<1>3. QED
  BY <1>1, <1>2 DEF PageInv

\* A page loaded TTL ticks after the last change shows what the replicas answer now, in all
\* its sections: no error or run is left of an outage, or of before a publication.
THEOREM OutagesAreForgotten == DashSpec => []RecoveredPagesAreCurrent
BY DashInvariant, SettledIsCurrent, PTL

(***************************************************************************)
(* A run that a step brings up on a page.                                  *)
(***************************************************************************)
LEMMA ValueShown ==
    ASSUME DashInv, NEW s \in Sessions, at[s] \in ToSet(Sections),
           NEW value \in {0} \cup Answers, Show(s, value),
           value \in Runs => /\ \E r \in Replicas : past[TTL][r] <= value
                             /\ united = TTL => NoLaterShown(at[s], value),
           NEW t \in Sessions, NEW c \in ToSet(Sections),
           shown'[t][c] # shown[t][c], shown'[t][c] \in Runs
    PROVE  /\ \E r \in Replicas : past[TTL][r] <= shown'[t][c]
           /\ united = TTL /\ shown[t][c] \in Runs => shown[t][c] <= shown'[t][c]
<1>1. DashTypeOK
  BY DEF DashInv
<1>2. t = s
  BY <1>1, ShowEffects
<1>3. c = at[s]
  <2>1. c # at[s] => shown'[s][c] \in {shown[s][c], NotShown}
    BY <1>1, ShowEffects
  <2>2. QED
    BY <1>2, <2>1, Distinct
<1>4. shown'[s][at[s]] = value
  BY <1>1, ShowEffects
<1>5. QED
  BY <1>2, <1>3, <1>4 DEF NoLaterShown

LEMMA NewRuns ==
    ASSUME DashInv, [DashNext]_dashVars, NEW t \in Sessions, NEW c \in ToSet(Sections),
           shown'[t][c] # shown[t][c], shown'[t][c] \in Runs
    PROVE  /\ \E r \in Replicas : past[TTL][r] <= shown'[t][c]
           /\ united = TTL /\ shown[t][c] \in Runs => shown[t][c] <= shown'[t][c]
<1>0. DashTypeOK /\ PastInv /\ ShownInv /\ Cached \subseteq ToSet(Sections)
  BY SectionSet DEF DashInv
<1>a. \A n \in 1..TTL : \A v \in Runs : ServedWithin(n, v) => \E r \in Replicas : past[TTL][r] <= v
  <2> SUFFICES ASSUME NEW n \in 1..TTL, NEW v \in Runs, NEW r \in Replicas, past[n][r] <= v
               PROVE  past[TTL][r] <= v
    BY DEF ServedWithin
  <2>1. TTL \in 1..TTL /\ n <= TTL /\ past[n][r] \in Int /\ past[TTL][r] \in Int
    BY <1>0, Numbers
  <2>2. past[TTL][r] <= past[n][r]
    BY <1>0, <2>1 DEF PastInv
  <2>3. QED
    BY <2>1, <2>2, Distinct
<1>1. ASSUME NEW s \in Sessions, CacheHit(s)
      PROVE  /\ \E r \in Replicas : past[TTL][r] <= shown'[t][c]
             /\ united = TTL /\ shown[t][c] \in Runs => shown[t][c] <= shown'[t][c]
  <2>1. /\ at[s] \in Cached /\ Show(s, cache[at[s]].value) /\ cache[at[s]].value # NotShown
        /\ cache[at[s]].value \in {0} \cup Answers
    BY <1>0, <1>1 DEF CacheHit, DashTypeOK
  <2>2. /\ cache[at[s]].age + 1 \in 1..TTL
        /\ cache[at[s]].value \in Runs =>
              /\ ServedWithin(cache[at[s]].age + 1, cache[at[s]].value)
              /\ united = TTL => NoLaterShown(at[s], cache[at[s]].value)
    <3>1. EntryInv(at[s]) /\ cache[at[s]].age \in 0..TTL
      BY <1>0, <2>1 DEF DashInv, DashTypeOK
    <3>2. cache[at[s]].age < TTL
      BY <2>1, <3>1 DEF EntryInv
    <3>3. cache[at[s]].age + 1 \in 1..TTL
      BY <1>0, <3>1, <3>2, Numbers
    <3>4. QED
      BY <2>1, <3>1, <3>2, <3>3 DEF EntryInv
  <2>3. cache[at[s]].value \in Runs => \E r \in Replicas : past[TTL][r] <= cache[at[s]].value
    BY <1>a, <2>2
  <2>4. QED
    BY <1>0, <2>1, <2>2, <2>3, ValueShown
<1>2. ASSUME NEW s \in Sessions, Return(s)
      PROVE  /\ \E r \in Replicas : past[TTL][r] <= shown'[t][c]
             /\ united = TTL /\ shown[t][c] \in Runs => shown[t][c] <= shown'[t][c]
  <2>1. answer[s] # NotShown /\ Show(s, answer[s]) /\ answer[s] \in {0} \cup Answers
    BY <1>0, <1>2 DEF Return, DashTypeOK
  <2>2. /\ at[s] \in Cached
        /\ answer[s] \in Runs => /\ ServedWithin(1, answer[s])
                                 /\ united > 0 => NoLaterShown(at[s], answer[s])
    BY <2>1 DEF DashInv, AnswerInv
  <2>3. answer[s] \in Runs => /\ \E r \in Replicas : past[TTL][r] <= answer[s]
                              /\ united = TTL => NoLaterShown(at[s], answer[s])
    <3>1. 1 \in 1..TTL /\ (united = TTL => united > 0)
      BY <1>0, Numbers
    <3>2. QED
      BY <1>a, <2>2, <3>1
  <2>4. QED
    BY <1>0, <2>1, <2>2, <2>3, ValueShown
<1>3. ASSUME NEW s \in Sessions, Ask(s)
      PROVE  /\ \E r \in Replicas : past[TTL][r] <= shown'[t][c]
             /\ united = TTL /\ shown[t][c] \in Runs => shown[t][c] <= shown'[t][c]
  <2>1. PICK r \in Replicas : Answered(s, ApiAnswer(s, r))
    BY <1>3 DEF Ask
  <2>2. /\ ApiAnswer(s, r) \in {0} \cup Answers
        /\ ApiAnswer(s, r) \in Runs => ApiAnswer(s, r) = served[r]
    BY <1>0, <1>3, ApiAnswers DEF Ask
  <2>3. at[s] \in ToSet(Sections) /\ Show(s, ApiAnswer(s, r))
    BY <1>3, <2>1 DEF Ask, MayAsk, Answered
  <2>4. /\ past[TTL][r] <= served[r]
        /\ united = TTL => NoLaterShown(at[s], served[r])
    <3>1. TTL \in 1..TTL /\ (united = TTL => united > 0)
      BY <1>0, Numbers
    <3>2. QED
      BY <1>0, <2>3, <3>1, UnitedAnswer DEF PastInv
  <2>5. ApiAnswer(s, r) \in Runs => /\ \E q \in Replicas : past[TTL][q] <= ApiAnswer(s, r)
                                    /\ united = TTL => NoLaterShown(at[s], ApiAnswer(s, r))
    BY <2>2, <2>4
  <2>6. QED
    BY <2>2, <2>3, <2>5, ValueShown
<1>4. ASSUME NEW s \in Sessions, ConnectionFails(s)
      PROVE  /\ \E r \in Replicas : past[TTL][r] <= shown'[t][c]
             /\ united = TTL /\ shown[t][c] \in Runs => shown[t][c] <= shown'[t][c]
  <2>1. Show(s, ErrorAnswer) /\ at[s] \in ToSet(Sections)
    BY <1>4 DEF ConnectionFails, Answered, MayAsk
  <2>2. ErrorAnswer \in {0} \cup Answers /\ ErrorAnswer \notin Runs
    BY Distinct DEF Answers
  <2>3. QED
    BY <2>1, <2>2, ValueShown
<1>5. ASSUME NEW s \in Sessions, Open(s) PROVE FALSE
  <2>1. shown' = [shown EXCEPT ![s]["predict"] = NotShown]
    BY <1>5 DEF Open
  <2>2. shown'[t][c] \in {shown[t][c], NotShown}
    BY <1>0, <2>1 DEF DashTypeOK
  <2>3. QED
    BY <2>2, Distinct
<1>6. ASSUME NetworkChanges \/ Tick \/ UNCHANGED dashVars \/ \E r \in Replicas : Refresh(r)
      PROVE  FALSE
  BY <1>6 DEF Refresh, NetworkChanges, Changed, Tick, dashVars, pageVars
<1>7. QED
  BY <1>1, <1>2, <1>3, <1>4, <1>5, <1>6 DEF DashNext, RunScript

\* No page brings up a run that all replicas had already replaced TTL ticks ago.
THEOREM NothingOlderThanTTL == DashSpec => ShownWithinTTL
<1> DEFINE Fresh == \A s \in Sessions, c \in ToSet(Sections) :
                       shown'[s][c] # shown[s][c] /\ shown'[s][c] \in Runs =>
                          \E r \in Replicas : past[TTL][r] <= shown'[s][c]
<1>1. DashInv /\ [DashNext]_dashVars => Fresh
  BY NewRuns
<1>2. DashInv /\ [DashNext]_dashVars => [Fresh]_dashVars
  BY <1>1
<1>3. QED
  BY <1>2, DashInvariant, PTL DEF DashSpec, ShownWithinTTL

\* A section of a session goes back to an older run only if replicas served different runs
\* within the TTL; the cache that sessions share never does it, nor does a single replica.
THEOREM OnlyReplicasTurnPagesBack == DashSpec => SessionsGoForward
<1> DEFINE Forward == united = TTL =>
                         \A s \in Sessions, c \in ToSet(Sections) :
                           {shown[s][c], shown'[s][c]} \subseteq Runs =>
                              shown'[s][c] >= shown[s][c]
<1>1. DashInv /\ [DashNext]_dashVars => Forward
  <2> SUFFICES ASSUME DashInv, [DashNext]_dashVars, united = TTL,
                      NEW s \in Sessions, NEW c \in ToSet(Sections),
                      shown[s][c] \in Runs, shown'[s][c] \in Runs
               PROVE  shown'[s][c] >= shown[s][c]
    OBVIOUS
  <2>1. shown'[s][c] # shown[s][c] => shown[s][c] <= shown'[s][c]
    BY NewRuns
  <2>2. shown[s][c] \in Int /\ shown'[s][c] \in Int
    BY Distinct
  <2>3. QED
    BY <2>1, <2>2
<1>2. DashInv /\ [DashNext]_dashVars => [Forward]_dashVars
  BY <1>1
<1>3. QED
  BY <1>2, DashInvariant, PTL DEF DashSpec, SessionsGoForward
=============================================================================
