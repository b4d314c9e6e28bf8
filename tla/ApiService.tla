----------------------------- MODULE ApiService -----------------------------
(***************************************************************************)
(* One API process (inference/api.py, service.py, auth.py, rate_limit.py,  *)
(* metrics.py): an event loop that starts up, authenticates, scrapes       *)
(* gauges and sends answers, and a pool of worker threads that run the     *)
(* synchronous handlers, all of them over one ArtifactStore.               *)
(*                                                                         *)
(* Every request is a thread of ArtifactStore, and so is the loop, which   *)
(* calls get() itself at start-up and before a scrape.  The registry is    *)
(* what Serving shows it to be: whole runs, published one after the other, *)
(* with a pointer that may be torn in between.                             *)
(*                                                                         *)
(* An operator named for what it leaves out or gets wrong is a mutation of *)
(* the definition that follows it: no action uses it.                      *)
(***************************************************************************)
EXTENDS ArtifactStore, FiniteSets

CONSTANTS
    TheReplica,      \* the one replica
    Loop,            \* the event loop's thread; the other threads are requests
    RequestKinds,    \* records [route, key, valid, cluster]
    ApiKeys,         \* settings.api_keys; empty in development mode
    NoKey,           \* no X-API-Key header
    Limit,           \* requests per window, for every limited route
    PoolSize,        \* worker threads
    JobOf,           \* the job that made each run
    Knows,           \* the clusters of each run
    MaxScrapes       \* bound on /metrics scrapes

Protected == {"leaderboard", "hotspot", "predict", "feature_importance", "kpis", "map"}

Requests == Threads \ {Loop}

NRuns == Cardinality(RunIds)

ASSUME ApiAssumption ==
    /\ Replicas = {TheReplica}
    /\ Loop \in Threads
    /\ \A kind \in RequestKinds : kind.route \in Protected \cup {"health"}
    /\ NoKey \notin ApiKeys
    /\ Limit \in Nat \ {0} /\ PoolSize \in Nat \ {0} /\ MaxScrapes \in Nat
    /\ NRuns \in Nat /\ RunIds = 1..NRuns
    /\ JobOf \in [RunIds -> Jobs]
    /\ DOMAIN Knows = RunIds

VARIABLES
    published,    \* how many runs were published: run n is the n-th
    loop,         \* what the event loop is doing
    request,      \* what each request asks
    stage,        \* how far it got
    status,       \* its HTTP status; 0 before there is one
    answered,     \* the run its answer is made of; 0 for none
    floor,        \* the newest run answered before it arrived
    bucket,       \* requests counted per route and caller in this window
    rejections,   \* auth_rejections, by reason
    gauges,       \* the run the Prometheus gauges show; 0 for none
    scrapes

requestVars == <<request, stage, status, answered, floor>>
limitVars   == <<bucket, rejections>>
meterVars   == <<gauges, scrapes>>
apiVars     == <<disk, pointer, storeVars, published, loop, requestVars, limitVars,
                 meterVars>>

Route(t) == request[t].route

\* _rate_limit_key: the header, or the caller's address (one address here).
Caller(t) == request[t].key

Buckets == {<<kind.route, kind.key>> : kind \in RequestKinds}
             \cup {<<kind.route, NoKey>> : kind \in RequestKinds}

Newest ==
    LET sent == {0} \cup {answered[t] : t \in {u \in Requests : stage[u] = "sent"}}
    IN  CHOOSE n \in sent : \A m \in sent : m <= n

ApiInit ==
    /\ RegistryInit
    /\ StoreInit
    /\ published  = 0
    /\ loop       = "down"
    /\ request    \in [Requests -> RequestKinds]
    /\ stage      = [t \in Requests |-> "coming"]
    /\ status     = [t \in Requests |-> 0]
    /\ answered   = [t \in Requests |-> 0]
    /\ floor      = [t \in Threads |-> 0]
    /\ bucket     = [b \in Buckets |-> 0]
    /\ rejections = [reason \in {"missing_key", "invalid_key"} |-> 0]
    /\ gauges     = 0
    /\ scrapes    = 0

(***************************************************************************)
(* The registry, as the training jobs leave it (see Serving).              *)
(***************************************************************************)
OpenNextPointer ==
    /\ published < NRuns /\ pointer # TornPointer
    /\ disk' = [disk EXCEPT ![published + 1] =
                  [f \in Files |-> Done(JobOf[published + 1])]]
    /\ pointer' = TornPointer
    /\ UNCHANGED <<storeVars, published, loop, requestVars, limitVars, meterVars>>

WriteNextPointer ==
    /\ pointer = TornPointer
    /\ pointer' = published + 1
    /\ published' = published + 1
    /\ UNCHANGED <<disk, storeVars, loop, requestVars, limitVars, meterVars>>

(***************************************************************************)
(* _lifespan: the cache is warmed before the first request is taken; a     *)
(* load error is logged and the process starts all the same.               *)
(***************************************************************************)
LoopAnswered == at[Loop] = "idle" /\ reply[Loop] # NoBundle

WarmUp ==
    /\ loop = "down"
    /\ loop' = "starting"
    /\ Call(Loop)
    /\ UNCHANGED <<published, requestVars, limitVars, meterVars>>

Started ==
    /\ loop = "starting" /\ LoopAnswered
    /\ loop' = "free"
    /\ UNCHANGED <<registryVars, storeVars, published, requestVars, limitVars, meterVars>>

(***************************************************************************)
(* _refresh_model_metrics_on_scrape calls the blocking get() on the loop:  *)
(* until it returns, the loop takes, authenticates and sends nothing.      *)
(***************************************************************************)
Scrape ==
    /\ loop = "free" /\ scrapes < MaxScrapes
    /\ loop' = "scraping"
    /\ scrapes' = scrapes + 1
    /\ floor' = [floor EXCEPT ![Loop] = Newest]
    /\ Call(Loop)
    /\ UNCHANGED <<published, request, stage, status, answered, limitVars, gauges>>

ScrapedOnce ==
    /\ loop = "scraping" /\ LoopAnswered
    /\ loop' = "free"
    /\ gauges' = IF reply[Loop] = LoadError \/ gauges # 0 THEN gauges ELSE reply[Loop].id
    /\ UNCHANGED <<registryVars, storeVars, published, requestVars, limitVars, scrapes>>

Scraped ==
    /\ loop = "scraping" /\ LoopAnswered
    /\ loop' = "free"
    /\ gauges' = IF reply[Loop] = LoadError THEN gauges ELSE reply[Loop].id
    /\ UNCHANGED <<registryVars, storeVars, published, requestVars, limitVars, scrapes>>

(***************************************************************************)
(* A request comes in; when the loop is free it is authenticated, and then *)
(* its parameters are validated.                                           *)
(***************************************************************************)
Answer(t, code, run) ==
    /\ stage'    = [stage    EXCEPT ![t] = "done"]
    /\ status'   = [status   EXCEPT ![t] = code]
    /\ answered' = [answered EXCEPT ![t] = run]

Arrive(t) ==
    /\ stage[t] = "coming"
    /\ stage' = [stage EXCEPT ![t] = "arrived"]
    /\ floor' = [floor EXCEPT ![t] = Newest]
    /\ UNCHANGED <<registryVars, storeVars, published, loop, request, status, answered,
                   limitVars, meterVars>>

AuthEnabled == ApiKeys # {}

Authorized(t) == Route(t) \notin Protected \/ ~AuthEnabled \/ Caller(t) \in ApiKeys

Reject(t) ==
    /\ stage[t] = "arrived" /\ loop = "free"
    /\ ~Authorized(t)
    /\ IF Caller(t) = NoKey
         THEN /\ Answer(t, 401, 0)
              /\ rejections' = [rejections EXCEPT !["missing_key"] = @ + 1]
         ELSE /\ Answer(t, 403, 0)
              /\ rejections' = [rejections EXCEPT !["invalid_key"] = @ + 1]
    /\ UNCHANGED <<registryVars, storeVars, published, loop, request, floor, bucket,
                   meterVars>>

Accept(t) ==
    /\ stage[t] = "arrived" /\ loop = "free"
    /\ Authorized(t)
    /\ IF request[t].valid
         THEN stage' = [stage EXCEPT ![t] = "queued"] /\ UNCHANGED <<status, answered>>
         ELSE Answer(t, 422, 0)
    /\ UNCHANGED <<registryVars, storeVars, published, loop, request, floor, limitVars,
                   meterVars>>

(***************************************************************************)
(* A worker picks the request up.  The limit is checked in the decorator   *)
(* of the handler, so only here; then the handler calls get().             *)
(***************************************************************************)
Running == {t \in Requests : stage[t] = "running"}

BucketOfAddress(t) == <<Route(t), NoKey>>

Bucket(t) == <<Route(t), Caller(t)>>

OverLimitByOne(t) == Route(t) \in Protected /\ bucket[Bucket(t)] > Limit

OverLimit(t) == Route(t) \in Protected /\ bucket[Bucket(t)] >= Limit

Limited(t) ==
    /\ stage[t] = "queued" /\ Cardinality(Running) < PoolSize
    /\ OverLimit(t)
    /\ Answer(t, 429, 0)
    /\ UNCHANGED <<registryVars, storeVars, published, loop, request, floor, limitVars,
                   meterVars>>

StartHandler(t) ==
    /\ stage[t] = "queued" /\ Cardinality(Running) < PoolSize
    /\ ~OverLimit(t)
    /\ stage' = [stage EXCEPT ![t] = "running"]
    /\ IF Route(t) \in Protected
         THEN bucket' = [bucket EXCEPT ![Bucket(t)] = @ + 1]
         ELSE UNCHANGED bucket
    /\ Call(t)
    /\ UNCHANGED <<published, loop, request, status, answered, floor, rejections,
                   meterVars>>

WindowEnds(b) ==
    /\ bucket[b] > 0
    /\ bucket' = [bucket EXCEPT ![b] = 0]
    /\ UNCHANGED <<registryVars, storeVars, published, loop, requestVars, rejections,
                   meterVars>>

(***************************************************************************)
(* get() came back: the handler makes its answer of the bundle, or maps    *)
(* the error it got.  /health answers 200 either way.                      *)
(***************************************************************************)
StatusHealthUnavailable(t) ==
    LET bundle == reply[t]
    IN  CASE bundle = LoadError -> 503
          [] Route(t) = "hotspot" /\ request[t].cluster \notin Knows[bundle.id] -> 404
          [] Route(t) = "predict" /\ request[t].cluster \notin Knows[bundle.id] -> 422
          [] Route(t) = "map" /\ ~Exists(bundle.id, "heatmap") -> 404
          [] OTHER -> 200

StatusOf(t) ==
    LET bundle == reply[t]
    IN  CASE Route(t) = "health" -> 200
          [] bundle = LoadError -> 503
          [] Route(t) = "hotspot" /\ request[t].cluster \notin Knows[bundle.id] -> 404
          [] Route(t) = "predict" /\ request[t].cluster \notin Knows[bundle.id] -> 422
          [] Route(t) = "map" /\ ~Exists(bundle.id, "heatmap") -> 404
          [] OTHER -> 200

Finish(t) ==
    /\ stage[t] = "running"
    /\ at[t] = "idle" /\ reply[t] # NoBundle
    /\ Answer(t, StatusOf(t), IF reply[t] = LoadError THEN 0 ELSE reply[t].id)
    /\ UNCHANGED <<registryVars, storeVars, published, loop, request, floor, limitVars,
                   meterVars>>

Send(t) ==
    /\ stage[t] = "done" /\ loop = "free"
    /\ stage' = [stage EXCEPT ![t] = "sent"]
    /\ UNCHANGED <<registryVars, storeVars, published, loop, request, status, answered,
                   floor, limitVars, meterVars>>

ServeRequest(t) ==
    \/ Reject(t) \/ Accept(t) \/ Limited(t) \/ StartHandler(t) \/ Finish(t) \/ Send(t)

StoreWork ==
    /\ (\E t \in Threads : Enter(t) \/ Load(t)) \/ Tick
    /\ UNCHANGED <<published, loop, requestVars, limitVars, meterVars>>

ApiNext ==
    \/ OpenNextPointer \/ WriteNextPointer
    \/ WarmUp \/ Started \/ Scrape \/ Scraped
    \/ \E t \in Requests : Arrive(t) \/ ServeRequest(t)
    \/ \E b \in Buckets : WindowEnds(b)
    \/ StoreWork

ApiSpec == ApiInit /\ [][ApiNext]_apiVars

(***************************************************************************)
(* Fairness: the loop and the workers run on; of the threads that wait for *)
(* the store's lock some one gets it.  Nothing makes a client ask, a       *)
(* window end, a scraper come or a run be published.                       *)
(***************************************************************************)
OnlyStore == UNCHANGED <<published, loop, requestVars, limitVars, meterVars>>

ApiFairness ==
    /\ WF_apiVars(WarmUp) /\ WF_apiVars(Started) /\ WF_apiVars(Scraped)
    /\ \A t \in Requests : WF_apiVars(ServeRequest(t))
    /\ \A t \in Threads : WF_apiVars(Load(t) /\ OnlyStore)
    /\ WF_apiVars((\E t \in Threads : Enter(t)) /\ OnlyStore)

ApiFairSpec == ApiSpec /\ ApiFairness

(***************************************************************************)
(*                               Properties                                *)
(***************************************************************************)
\* Type invariant of the process.
ApiTypeOK ==
    /\ published \in 0..NRuns
    /\ loop \in {"down", "starting", "free", "scraping"}
    /\ request \in [Requests -> RequestKinds]
    /\ stage \in [Requests -> {"coming", "arrived", "queued", "running", "done", "sent"}]
    /\ status \in [Requests -> {0, 200, 401, 403, 404, 422, 429, 503}]
    /\ answered \in [Requests -> 0..NRuns]
    /\ floor \in [Threads -> 0..NRuns]
    /\ bucket \in [Buckets -> 0..Limit]
    /\ gauges \in 0..NRuns
    /\ scrapes \in 0..MaxScrapes

\* Readers see time move forward: a request is answered from a run at least as new
\* as any answer sent before it came in, and once a run was served no later request
\* is turned away for want of one.
AnswersNeverGoBack ==
    \A t \in Requests : stage[t] \in {"done", "sent"} /\ floor[t] > 0 =>
        /\ status[t] # 503
        /\ status[t] \in {200, 404} => answered[t] >= floor[t]

\* The requests of a caller that the limit of a route let through.
PassedLimit(t) ==
    \/ stage[t] = "running"
    \/ status[t] \in {200, 404, 503}
    \/ status[t] = 422 /\ request[t].valid

LetThrough(route, key) ==
    {t \in Requests : Route(t) = route /\ Caller(t) = key /\ PassedLimit(t)}

\* "One misbehaving client hitting their limit doesn't affect other key holders": a
\* request is only turned away with 429 when Limit requests of its own key on its own
\* route were let through, and rejected or invalid ones do not count.
LimitedByOwnRequestsOnly ==
    \A t \in Requests : status[t] = 429 =>
        Cardinality(LetThrough(Route(t), Caller(t))) >= Limit

\* The gauges are refreshed "so Grafana always sees the current artifact state, not
\* just startup values": a scrape shows a run no older than any answer sent before it.
ScrapeShowsCurrentRun ==
    [][loop = "scraping" /\ loop' = "free" => gauges' >= floor[Loop]]_apiVars

\* The probe is "always public, never rate-limited" and has to say 200 whatever the
\* artifacts: a /health request ends with 200, although the loop blocks in get() during
\* a scrape and the workers may all be waiting for the store.
HealthAnswers ==
    \A t \in Requests :
        stage[t] = "arrived" /\ Route(t) = "health" ~> stage[t] = "sent" /\ status[t] = 200

\* Every request is answered: loop, workers and store never wait for one another in a
\* circle.
EveryRequestIsAnswered ==
    \A t \in Requests : stage[t] = "arrived" ~> stage[t] = "sent"

(***************************************************************************)
(* The inductive invariant behind these properties.                        *)
(***************************************************************************)
\* Published runs are whole, the one being published is too, and a pointer that
\* parses names the newest.
WholeRuns == 1..(IF pointer = TornPointer THEN published + 1 ELSE published)

RegistryInv ==
    /\ RegistryTypeOK
    /\ WholeRuns \subseteq RunIds
    /\ \A n \in WholeRuns : \A f \in Files : disk[n][f] = Done(JobOf[n])
    /\ PointsAtRun => pointer = published

\* The position of what the process serves: 0 for nothing.
Served == IF cached[TheReplica] = NoBundle THEN 0 ELSE cached[TheReplica].id

LoadingInv(t) ==
    at[t] \in {"check", "load", "install"} => found[t] \in Served..published

\* What get() returned is no older than the caller's floor, and nothing is newer than
\* what is served: a caller with a floor got no error.
ReplyInv(t) ==
    /\ floor[t] <= Served
    /\ reply[t] = LoadError => floor[t] = 0
    /\ reply[t] \in Bundles => reply[t].id \in floor[t]..Served

RequestInv(t) ==
    /\ stage[t] = "coming" => at[t] = "idle" /\ reply[t] = NoBundle
    /\ stage[t] \in {"coming", "arrived", "queued", "running"} => status[t] = 0
    /\ stage[t] \in {"queued", "running"} => request[t].valid
    /\ answered[t] <= Served

\* A bucket never counts more than was let through.
LimitInv ==
    \A b \in Buckets :
        /\ IsFiniteSet(LetThrough(b[1], b[2]))
        /\ bucket[b] <= Cardinality(LetThrough(b[1], b[2]))

ApiInv ==
    /\ ApiTypeOK
    /\ StoreTypeInv
    /\ RegistryInv
    /\ Served <= published
    /\ \A t \in Threads : LoadingInv(t) /\ ReplyInv(t)
    /\ \A t \in Requests : RequestInv(t)
    /\ AnswersNeverGoBack
    /\ LimitInv
    /\ LimitedByOwnRequestsOnly
=============================================================================
