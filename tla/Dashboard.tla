----------------------------- MODULE Dashboard -----------------------------
(***************************************************************************)
(* The dashboard process (dashboard/app.py): browser sessions that run the *)
(* page's script from top to bottom, one request after the other, over one *)
(* st.cache_data cache that they share.                                    *)
(*                                                                         *)
(* Behind the API's address is one replica, or several that a load         *)
(* balancer chooses from for each request.  A replica is what ApiService   *)
(* shows it to be: it serves no run (0) or one, and never goes back to an  *)
(* older one; but each reads latest.json when its own cache is too old, so *)
(* that replicas may serve different runs.  An answer is the run it is of. *)
(* Streamlit (external) computes a missing entry of the cache under a lock *)
(* of its own for each path, and drops it when it is TTL old.              *)
(*                                                                         *)
(* An operator named for what it leaves out or gets wrong is a mutation of *)
(* the definition that follows it: no action uses it.                      *)
(***************************************************************************)
EXTENDS Integers, Sequences, SequencesExt

CONSTANTS
    Sessions,
    Deployments,    \* the replicas that the API may consist of
    Fetched,        \* the paths the page reads through fetch_json, in order
    Place,          \* the place that a cluster id names, in every run
    TTL,            \* CACHE_TTL, in ticks
    Faults,         \* per deployment, how its network may fail: "refusing", "failing"
    MaxAttempts,    \* stop_after_attempt
    MaxLoads,       \* bound, per session: how often its page is loaded
    ErrorAnswer, NotShown, Nobody

NRuns == Len(Place)
Runs  == 1..NRuns

ASSUME DashboardAssumption ==
    /\ Fetched \in Seq(ToSet(Fetched)) /\ "leaderboard" \in ToSet(Fetched)
    /\ \A i, j \in DOMAIN Fetched : Fetched[i] = Fetched[j] => i = j
    /\ ToSet(Fetched) \cap {"health", "predict", "map", "closed", "done", "stopped"} = {}
    /\ NRuns \in Nat
    /\ {} \notin Deployments
    /\ \A replicas \in Deployments : Faults[replicas] \subseteq {"refusing", "failing"}
    /\ TTL \in Nat \ {0} /\ MaxAttempts \in Nat \ {0} /\ MaxLoads \in [Sessions -> Nat]
    /\ {ErrorAnswer, NotShown} \cap (0..NRuns) = {} /\ ErrorAnswer # NotShown
    /\ Nobody \notin Sessions

\* The sections of the page from top to bottom; "predict" only after a click.
Cached   == ToSet(Fetched)
Sections == <<"health">> \o Fetched \o <<"predict", "map">>

VARIABLES
    served,     \* per replica: the run that it answers from
    network,    \* how a request to the API fares
    past,       \* served, at the last TTL ticks, newest first
    calm,       \* ticks since served or network last changed, at most TTL
    united,     \* ticks since two replicas served different runs, at most TTL
    cache,      \* per cached path: the answer and its age
    lock,       \* per cached path: the session that computes the answer
    at,         \* per session: the section it has come to, or how the page ended
    clicked,    \* "Predict violation volume" was pressed, and is not yet acted on
    attempt,    \* failed connections of the request under way
    answer,     \* what the request of a cached path returned
    shown,      \* per session and section: what the browser shows
    choice,     \* the cluster id that was chosen for the prediction
    settled,    \* the page was loaded TTL ticks after the last change, and none since
    loads       \* per session: how often its page was loaded

apiVars  == <<served, network, past, calm, united>>
pageVars == <<at, clicked, attempt, answer, shown, choice, settled, loads>>
dashVars == <<apiVars, cache, lock, pageVars>>

\* What is cached; a page may also show that no run is served (0).
Answers == Runs \cup {ErrorAnswer, NotShown}
NoEntry == [value |-> NotShown, age |-> TTL]

Replicas == DOMAIN served
Agree    == \A r, q \in Replicas : served[r] = served[q]

DashInit ==
    /\ \E replicas \in Deployments : served = [r \in replicas |-> 0]
    /\ network = "up"
    /\ past    = [n \in 1..TTL |-> served]
    /\ calm    = 0
    /\ united  = TTL
    /\ cache   = [c \in Cached |-> NoEntry]
    /\ lock    = [c \in Cached |-> Nobody]
    /\ at      = [s \in Sessions |-> "closed"]
    /\ clicked = [s \in Sessions |-> FALSE]
    /\ attempt = [s \in Sessions |-> 0]
    /\ answer  = [s \in Sessions |-> NotShown]
    /\ shown   = [s \in Sessions |-> [c \in ToSet(Sections) |-> NotShown]]
    /\ choice  = [s \in Sessions |-> NotShown]
    /\ settled = [s \in Sessions |-> FALSE]
    /\ loads   = [s \in Sessions |-> 0]

(***************************************************************************)
(* A replica takes up a later run, before or after the others; the network *)
(* refuses connections (or lets them time out), lets a request time out or *)
(* fail, or is up; time passes, though an answer reaches its page within   *)
(* the tick.                                                               *)
(***************************************************************************)
Changed ==
    /\ calm' = 0
    /\ settled' = [s \in Sessions |-> FALSE]
    /\ UNCHANGED <<past, cache, lock, at, clicked, attempt, answer, shown, choice, loads>>

Refresh(r) ==
    /\ \E run \in Runs : run > served[r] /\ served' = [served EXCEPT ![r] = run]
    /\ united' = IF Replicas = {r} THEN united ELSE 0
    /\ Changed
    /\ UNCHANGED network

NetworkChanges ==
    /\ network' \in ({"up"} \cup Faults[Replicas]) \ {network}
    /\ Changed
    /\ UNCHANGED <<served, united>>

CountTick ==
    /\ calm'   = IF calm < TTL THEN calm + 1 ELSE calm
    /\ united' = IF Agree /\ united < TTL THEN united + 1 ELSE united

TickKeepsErrors ==
    /\ \A s \in Sessions : answer[s] = NotShown
    /\ past'  = [n \in 1..TTL |-> IF n = 1 THEN served ELSE past[n - 1]]
    /\ CountTick
    /\ cache' = [c \in Cached |->
                   IF cache[c].value = ErrorAnswer THEN cache[c] ELSE NoEntry]
    /\ UNCHANGED <<served, network, lock, pageVars>>

TickWithoutExpiry ==
    /\ \A s \in Sessions : answer[s] = NotShown
    /\ past'  = [n \in 1..TTL |-> IF n = 1 THEN served ELSE past[n - 1]]
    /\ CountTick
    /\ UNCHANGED <<served, network, cache, lock, pageVars>>

Tick ==
    /\ \A s \in Sessions : answer[s] = NotShown
    /\ past'  = [n \in 1..TTL |-> IF n = 1 THEN served ELSE past[n - 1]]
    /\ CountTick
    /\ cache' = [c \in Cached |->
                   IF cache[c].age + 1 < TTL
                     THEN [cache[c] EXCEPT !.age = @ + 1] ELSE NoEntry]
    /\ UNCHANGED <<served, network, lock, pageVars>>

(***************************************************************************)
(* The page is loaded, or reloaded by a click on a button it shows: the    *)
(* script starts over, and what it showed stays until it is replaced.      *)
(***************************************************************************)
Open(s) ==
    /\ at[s] \in {"closed", "done", "stopped"} /\ loads[s] < MaxLoads[s]
    /\ \E click \in BOOLEAN :
         /\ click => shown[s]["leaderboard"] \in Runs
         /\ clicked' = [clicked EXCEPT ![s] = click]
    /\ at'      = [at EXCEPT ![s] = "health"]
    /\ shown'   = [shown EXCEPT ![s]["predict"] = NotShown]
    /\ choice'  = [choice EXCEPT ![s] = NotShown]
    /\ settled' = [settled EXCEPT ![s] = calm = TTL]
    /\ loads'   = [loads EXCEPT ![s] = @ + 1]
    /\ UNCHANGED <<apiVars, cache, lock, attempt, answer>>

(***************************************************************************)
(* The section after c.  The forecast is only asked for after a click and  *)
(* over a leaderboard, of which one hotspot is chosen.                     *)
(***************************************************************************)
Position(c) == CHOOSE n \in DOMAIN Sections : Sections[n] = c

Following(c) ==
    IF Position(c) = Len(Sections) THEN "done" ELSE Sections[Position(c) + 1]

Advance(s, c) ==
    IF Following(c) # "predict"
      THEN at' = [at EXCEPT ![s] = Following(c)] /\ UNCHANGED <<clicked, choice>>
      ELSE /\ clicked' = [clicked EXCEPT ![s] = FALSE]
           /\ IF clicked[s] /\ shown'[s]["leaderboard"] \in Runs
                THEN /\ at' = [at EXCEPT ![s] = "predict"]
                     /\ \E id \in DOMAIN Place[shown'[s]["leaderboard"]] :
                          choice' = [choice EXCEPT ![s] = id]
                ELSE at' = [at EXCEPT ![s] = "map"] /\ UNCHANGED choice

\* A page that finds no API, or one that has no run, ends at the banner.
Show(s, value) ==
    LET c == at[s]
    IN  /\ attempt' = [attempt EXCEPT ![s] = 0]
        /\ IF c = "health" /\ value \notin Runs
             THEN /\ at'      = [at EXCEPT ![s] = "stopped"]
                  /\ clicked' = [clicked EXCEPT ![s] = FALSE]
                  /\ shown'   = [shown EXCEPT ![s] =
                                   [d \in DOMAIN @ |-> IF d = c THEN value ELSE NotShown]]
                  /\ UNCHANGED choice
             ELSE shown' = [shown EXCEPT ![s][c] = value] /\ Advance(s, c)

(***************************************************************************)
(* fetch_json: an entry that is there is shown.  Otherwise the API is      *)
(* asked while the lock of the path is held, and so it is, without cache   *)
(* and lock, for the other sections.  A failed connection is tried again,  *)
(* anything else that goes wrong is an error at once.                      *)
(***************************************************************************)
CacheHit(s) ==
    LET c == at[s]
    IN  /\ c \in Cached /\ lock[c] # s
        /\ cache[c].value # NotShown
        /\ Show(s, cache[c].value)
        /\ UNCHANGED <<apiVars, cache, lock, answer, settled, loads>>

MayAskWithoutLock(s) ==
    /\ at[s] \in ToSet(Sections) /\ answer[s] = NotShown
    /\ at[s] \in Cached => cache[at[s]].value = NotShown

MayAsk(s) ==
    /\ at[s] \in ToSet(Sections) /\ answer[s] = NotShown
    /\ at[s] \in Cached => cache[at[s]].value = NotShown /\ lock[at[s]] \in {Nobody, s}

TakeLock(s) ==
    lock' = IF at[s] \in Cached THEN [lock EXCEPT ![at[s]] = s] ELSE lock

\* What replica r answers.
ApiAnswer(s, r) ==
    IF network = "failing" THEN ErrorAnswer
    ELSE IF at[s] = "health" THEN served[r]
    ELSE IF \/ served[r] = 0
            \/ at[s] = "predict" /\ choice[s] \notin DOMAIN Place[served[r]]
      THEN ErrorAnswer ELSE served[r]

Answered(s, value) ==
    IF at[s] \in Cached
      THEN /\ answer' = [answer EXCEPT ![s] = value]
           /\ UNCHANGED <<at, clicked, attempt, shown, choice>>
      ELSE Show(s, value) /\ UNCHANGED answer

Ask(s) ==
    /\ MayAsk(s) /\ network # "refusing"
    /\ \E r \in Replicas : Answered(s, ApiAnswer(s, r))
    /\ TakeLock(s)
    /\ UNCHANGED <<apiVars, cache, settled, loads>>

ConnectionFails(s) ==
    /\ MayAsk(s) /\ network = "refusing"
    /\ IF attempt[s] + 1 < MaxAttempts
         THEN /\ attempt' = [attempt EXCEPT ![s] = @ + 1]
              /\ UNCHANGED <<at, clicked, answer, shown, choice>>
         ELSE Answered(s, ErrorAnswer)
    /\ TakeLock(s)
    /\ UNCHANGED <<apiVars, cache, settled, loads>>

(***************************************************************************)
(* fetch_json returns: its answer, good or not, is cached and shown.       *)
(***************************************************************************)
ReturnKeepsLock(s) ==
    /\ answer[s] # NotShown
    /\ answer' = [answer EXCEPT ![s] = NotShown]
    /\ cache'  = [cache EXCEPT ![at[s]] = [value |-> answer[s], age |-> 0]]
    /\ lock'   = IF answer[s] = ErrorAnswer THEN lock ELSE [lock EXCEPT ![at[s]] = Nobody]
    /\ Show(s, answer[s])
    /\ UNCHANGED <<apiVars, settled, loads>>

Return(s) ==
    /\ answer[s] # NotShown
    /\ answer' = [answer EXCEPT ![s] = NotShown]
    /\ cache'  = [cache EXCEPT ![at[s]] = [value |-> answer[s], age |-> 0]]
    /\ lock'   = [lock EXCEPT ![at[s]] = Nobody]
    /\ Show(s, answer[s])
    /\ UNCHANGED <<apiVars, settled, loads>>

RunScript(s) == CacheHit(s) \/ Ask(s) \/ ConnectionFails(s) \/ Return(s)

DashNext ==
    \/ NetworkChanges \/ Tick
    \/ \E r \in Replicas : Refresh(r)
    \/ \E s \in Sessions : Open(s) \/ RunScript(s)

(***************************************************************************)
(* Fairness: a script that can go on goes on.  Nobody has to open a page,  *)
(* the network need not come back, and no run has to be published.         *)
(***************************************************************************)
DashSpec ==
    /\ DashInit /\ [][DashNext]_dashVars
    /\ \A s \in Sessions : WF_dashVars(RunScript(s))

(***************************************************************************)
(*                               Properties                                *)
(***************************************************************************)
\* Type invariant; the lock of a path is held only while its answer is computed.
DashTypeOK ==
    /\ Replicas \in Deployments
    /\ served \in [Replicas -> 0..NRuns] /\ network \in {"up"} \cup Faults[Replicas]
    /\ past \in [1..TTL -> [Replicas -> 0..NRuns]]
    /\ calm \in 0..TTL /\ united \in 0..TTL
    /\ cache \in [Cached -> [value : Answers, age : 0..TTL]]
    /\ lock \in [Cached -> Sessions \cup {Nobody}]
    /\ \A c \in Cached : lock[c] # Nobody => at[lock[c]] = c /\ cache[c] = NoEntry
    /\ at \in [Sessions -> ToSet(Sections) \cup {"closed", "done", "stopped"}]
    /\ attempt \in [Sessions -> 0..(MaxAttempts - 1)]
    /\ answer \in [Sessions -> Answers]
    /\ shown \in [Sessions -> [ToSet(Sections) -> {0} \cup Answers]]
    /\ settled \in [Sessions -> BOOLEAN]

\* A section never shows a run that all replicas had already replaced TTL ticks ago,
\* whoever filled the cache and however the fill and its expiry interleave with
\* publications: a session that is sent to a replica that is behind is not behind
\* further than that replica was then.
ShownWithinTTL ==
    [][\A s \in Sessions, c \in ToSet(Sections) :
         shown'[s][c] # shown[s][c] /\ shown'[s][c] \in Runs =>
             \E r \in Replicas : past[TTL][r] <= shown'[s][c]]_dashVars

\* Only replicas that served different runs within the TTL can throw a section of a
\* session back to an older run; behind one replica it never is.  The cache does not:
\* an answer that one session waited long for never replaces a newer one that another
\* session cached, and what was cached while replicas differed does not outlive the TTL.
SessionsGoForward ==
    [][united = TTL =>
         \A s \in Sessions, c \in ToSet(Sections) :
           {shown[s][c], shown'[s][c]} \subseteq Runs => shown'[s][c] >= shown[s][c]]_dashVars

\* What the replicas answer now, of a section that needs a run.
CurrentAnswers ==
    {IF network = "up" /\ served[r] # 0 THEN served[r] ELSE ErrorAnswer : r \in Replicas}

\* Errors are cached like answers, yet no outage outlives the TTL: a page loaded TTL
\* ticks after the last change shows, in every section, what some replica answers now,
\* and ends at the banner only if a replica has nothing to serve or there is no API.
RecoveredPagesAreCurrent ==
    \A s \in Sessions : settled[s] =>
        /\ at[s] = "done" =>
             \A c \in Cached \cup {"health", "map"} : shown[s][c] \in CurrentAnswers
        /\ at[s] = "stopped" => network # "up" \/ \E r \in Replicas : served[r] = 0

\* Every page that is opened comes to its end, although sessions wait for one another
\* at the cache and the API may be down.
EveryPageEnds ==
    \A s \in Sessions : at[s] = "health" ~> at[s] \in {"done", "stopped"}

\* "Inference always uses the exact mapping the model was trained on, and an unseen
\* cluster_id is a clear, explicit validation error rather than silently wrong output":
\* a prediction that is shown is one for the hotspot that was chosen on the page.
PredictionIsForTheChosenHotspot ==
    \A s \in Sessions : shown[s]["predict"] \in Runs =>
        Place[shown[s]["predict"]][choice[s]] = Place[shown[s]["leaderboard"]][choice[s]]

(***************************************************************************)
(* The inductive invariant: how old what is on its way, cached and shown   *)
(* may be, in ticks; and, without a change for long enough, that it is     *)
(* what the API answers now.                                               *)
(***************************************************************************)
PastInv ==
    /\ \A n \in 1..TTL : \A r \in Replicas : past[n][r] <= served[r]
    /\ \A m, n \in 1..TTL : \A r \in Replicas : m <= n => past[n][r] <= past[m][r]
    /\ united > 0 => Agree

\* Nobody sees a later run of the section than value.
NoLaterShown(c, value) ==
    \A s \in Sessions : shown[s][c] \in Runs => shown[s][c] <= value

\* Some replica answers from the run now, or went past it within the last n ticks.
ServedWithin(n, run) == \E r \in Replicas : past[n][r] <= run /\ run <= served[r]

AnswerInv(s) ==
    answer[s] # NotShown =>
        /\ at[s] \in Cached /\ lock[at[s]] = s
        /\ answer[s] \in Runs => /\ ServedWithin(1, answer[s])
                                 /\ united > 0 => NoLaterShown(at[s], answer[s])
        /\ calm > 0 => answer[s] \in CurrentAnswers

EntryInv(c) ==
    /\ cache[c].value = NotShown => cache[c] = NoEntry
    /\ cache[c].value # NotShown =>
          /\ cache[c].age < TTL
          /\ cache[c].value \in Runs =>
                /\ ServedWithin(cache[c].age + 1, cache[c].value)
                /\ cache[c].age < united => NoLaterShown(c, cache[c].value)
          /\ cache[c].age < calm => cache[c].value \in CurrentAnswers

\* A run that is shown was served.
ShownInv ==
    \A s \in Sessions, c \in ToSet(Sections) :
        shown[s][c] \in Runs => \E r \in Replicas : shown[s][c] <= served[r]

\* The sections of the first n that a load of the page always fills show current answers.
ShowsCurrent(s, n) ==
    \A i \in 1..n : Sections[i] # "predict" => shown[s][Sections[i]] \in CurrentAnswers

PageInv(s) ==
    settled[s] =>
        /\ calm = TTL
        /\ at[s] \in ToSet(Sections) => ShowsCurrent(s, Position(at[s]) - 1)
        /\ at[s] = "done" => ShowsCurrent(s, Len(Sections))
        /\ at[s] \in (ToSet(Sections) \ {"health"}) \cup {"done"} => network = "up"
        /\ at[s] = "stopped" => network # "up" \/ \E r \in Replicas : served[r] = 0

DashInv ==
    /\ DashTypeOK
    /\ PastInv
    /\ ShownInv
    /\ \A c \in Cached : EntryInv(c)
    /\ \A s \in Sessions : AnswerInv(s) /\ PageInv(s)
=============================================================================
