-------------------------- MODULE ApiServiceProofs --------------------------
(***************************************************************************)
(* What one API process promises its callers, for any number of requests,  *)
(* worker threads, callers, keys and runs, any limit and any TTL.          *)
(***************************************************************************)
EXTENDS ApiService, ArtifactStoreProofs, FiniteSetTheorems

(***************************************************************************)
(* A nonempty set of numbers with a bound has a largest one: the numbers   *)
(* above each member are a finite set, and one of these sets is minimal.   *)
(***************************************************************************)
LEMMA LargestOf ==
    ASSUME NEW S \in SUBSET Nat, S # {}, NEW n \in Nat, \A s \in S : s <= n
    PROVE  \E m \in S : \A k \in S : k <= m
<1> DEFINE Above(m) == {k \in S : k > m}
           Uppers   == {Above(m) : m \in S}
<1>1. IsFiniteSet(S)
  BY FS_BoundedSetOfNaturals
<1>2. FiniteSubsetsOf(S) = SUBSET S
  BY <1>1, FS_FiniteSubsetsOfFinite
<1>3. IsWellFoundedOn(StrictSubsetOrdering(S), SUBSET S)
  BY <1>2, FS_StrictSubsetOrderingWellFounded
<1>4. Uppers \subseteq SUBSET S /\ Uppers # {}
  OBVIOUS
<1>5. PICK T \in Uppers : \A U \in Uppers : <<U, T>> \notin StrictSubsetOrdering(S)
  <2> HIDE DEF Uppers
  <2>1. QED
    BY <1>3, <1>4, WFMin
<1>6. PICK m \in S : T = Above(m)
  OBVIOUS
<1>7. ASSUME NEW k \in S, k > m PROVE FALSE
  <2>0. \A x \in S : x \in Nat
    OBVIOUS
  <2>1. Above(k) \subseteq T /\ k \in T /\ k \notin Above(k)
    <3>1. \A x \in S : x > k => x > m
      BY <1>7, <2>0
    <3>2. ~(k > k)
      BY <2>0
    <3>3. QED
      BY <1>6, <1>7, <3>1, <3>2
  <2>2. <<Above(k), T>> \in StrictSubsetOrdering(S)
    BY <1>4, <2>1 DEF StrictSubsetOrdering
  <2>3. QED
    BY <1>5, <2>2
<1>8. QED
  BY <1>7

(***************************************************************************)
(* What is served, and what the newest answer sent so far is.              *)
(***************************************************************************)
LEMMA OneReplica == \A t \in Threads : ReplicaOf[t] = TheReplica /\ Mine(t) = cached[TheReplica]
BY StoreAssumption, ApiAssumption DEF Mine

LEMMA BundleIds == \A bundle \in Bundles : bundle.id \in 1..NRuns
BY ApiAssumption DEF Bundles

LEMMA NothingIsNoBundle ==
    NoBundle \notin Bundles /\ LoadError \notin Bundles /\ LoadError # NoBundle
BY StoreAssumption

LEMMA ServedType ==
    ASSUME StoreTypeInv
    PROVE  /\ Served \in 0..NRuns
           /\ cached[TheReplica] = NoBundle => Served = 0
           /\ cached[TheReplica] # NoBundle => /\ cached[TheReplica] \in Bundles
                                               /\ Served = cached[TheReplica].id
                                               /\ Served > 0
<1>1. cached[TheReplica] \in Bundles \cup {NoBundle}
  BY ApiAssumption DEF StoreTypeInv, StoreTypeOK
<1>2. NRuns \in Nat
  BY ApiAssumption
<1>3. QED
  BY <1>1, <1>2, BundleIds DEF Served

LEMMA NewestType ==
    ASSUME ApiTypeOK, StoreTypeInv, \A t \in Requests : RequestInv(t)
    PROVE  Newest \in 0..NRuns /\ Newest <= Served
<1> DEFINE sent == {0} \cup {answered[t] : t \in {u \in Requests : stage[u] = "sent"}}
<1>1. NRuns \in Nat /\ Served \in 0..NRuns
  BY ApiAssumption, ServedType
<1>2. \A s \in sent : s \in 0..NRuns /\ s <= Served
  BY <1>1 DEF ApiTypeOK, RequestInv
<1>3. sent \in SUBSET Nat /\ sent # {} /\ \A s \in sent : s <= NRuns
  BY <1>1, <1>2
<1>4. \E m \in sent : \A k \in sent : k <= m
  <2> HIDE DEF sent
  <2>1. QED
    BY <1>1, <1>3, LargestOf
<1>5. Newest \in sent
  BY <1>4 DEF Newest
<1>6. QED
  BY <1>2, <1>5

(***************************************************************************)
(* A step publishes, reads through the store, or leaves both alone.        *)
(***************************************************************************)
Publishes == OpenNextPointer \/ WriteNextPointer
Reads     == (\E t \in Threads : Call(t) \/ Enter(t) \/ Load(t)) \/ Tick

LEMMA ReadsIsStoreStep == Reads => StoreNext /\ UNCHANGED registryVars
BY StoreOnlyReads DEF Reads, StoreNext

LEMMA StepKinds ==
    ASSUME ApiNext
    PROVE  \/ Publishes /\ UNCHANGED storeVars
           \/ Reads /\ UNCHANGED <<registryVars, published>>
           \/ UNCHANGED <<registryVars, storeVars, published>>
<1>0. Loop \in Threads /\ Requests \subseteq Threads
  BY ApiAssumption DEF Requests
<1>1. CASE Publishes
  BY <1>1 DEF Publishes, OpenNextPointer, WriteNextPointer
<1>2. CASE WarmUp \/ Scrape
  BY <1>0, <1>2, ReadsIsStoreStep DEF WarmUp, Scrape, Reads
<1>3. CASE Started \/ Scraped \/ \E b \in Buckets : WindowEnds(b)
  BY <1>3 DEF Started, Scraped, WindowEnds
<1>4. ASSUME NEW t \in Requests, StartHandler(t)
      PROVE  Reads /\ UNCHANGED <<registryVars, published>>
  BY <1>0, <1>4, ReadsIsStoreStep DEF StartHandler, Reads
<1>5. ASSUME NEW t \in Requests,
             Arrive(t) \/ Reject(t) \/ Accept(t) \/ Limited(t) \/ Finish(t) \/ Send(t)
      PROVE  UNCHANGED <<registryVars, storeVars, published>>
  BY <1>5 DEF Arrive, Reject, Accept, Limited, Finish, Send
<1>6. CASE StoreWork
  BY <1>6, ReadsIsStoreStep DEF StoreWork, Reads
<1>7. QED
  BY <1>1, <1>2, <1>3, <1>4, <1>5, <1>6 DEF ApiNext, ServeRequest, Publishes

LEMMA RegistryStep ==
    ASSUME RegistryInv, ApiTypeOK, ApiNext
    PROVE  RegistryInv' /\ published' \in 0..NRuns /\ published <= published'
<1> USE RegistryAssumption, ApiAssumption
<1>0. published \in 0..NRuns /\ NRuns \in Nat
  BY DEF ApiTypeOK
<1>1. CASE OpenNextPointer
  <2> DEFINE next == published + 1
  <2>1. /\ next \in RunIds /\ pointer # TornPointer
        /\ disk' = [disk EXCEPT ![next] = [f \in Files |-> Done(JobOf[next])]]
        /\ pointer' = TornPointer /\ published' = published
    BY <1>0, <1>1 DEF OpenNextPointer
  <2>2. \A f \in Files : Done(JobOf[next]) \in Contents
    BY <2>1 DEF Contents, Done
  <2>3. RegistryTypeOK'
    BY <2>1, <2>2 DEF RegistryInv, RegistryTypeOK
  <2>4. WholeRuns' = 1..next /\ WholeRuns = 1..published
    BY <2>1 DEF WholeRuns
  <2>5. WholeRuns' \subseteq RunIds
    BY <1>0, <2>1, <2>4
  <2>6. ASSUME NEW n \in WholeRuns', NEW f \in Files PROVE disk'[n][f] = Done(JobOf[n])
    <3>1. CASE n = next
      BY <2>1, <3>1 DEF RegistryInv, RegistryTypeOK
    <3>2. CASE n # next
      <4>1. n \in WholeRuns
        BY <1>0, <2>4, <3>2
      <4>2. disk'[n] = disk[n]
        BY <2>1, <2>5, <3>2 DEF RegistryInv, RegistryTypeOK
      <4>3. QED
        BY <4>1, <4>2 DEF RegistryInv
    <3>3. QED
      BY <3>1, <3>2
  <2>7. ~PointsAtRun'
    BY <2>1 DEF PointsAtRun
  <2>8. QED
    BY <1>0, <2>1, <2>3, <2>5, <2>6, <2>7 DEF RegistryInv
<1>2. CASE WriteNextPointer
  <2>1. /\ pointer = TornPointer /\ pointer' = published + 1
        /\ published' = published + 1 /\ disk' = disk
    BY <1>2 DEF WriteNextPointer
  <2>2. WholeRuns = 1..(published + 1)
    BY <2>1 DEF WholeRuns
  <2>3. published + 1 \in RunIds
    BY <1>0, <2>2 DEF RegistryInv
  <2>4. WholeRuns' = WholeRuns
    BY <2>1, <2>2, <2>3 DEF WholeRuns
  <2>5. RegistryTypeOK'
    BY <2>1, <2>3 DEF RegistryInv, RegistryTypeOK
  <2>6. published' \in 0..NRuns /\ published <= published'
    BY <1>0, <2>1, <2>3
  <2>7. QED
    BY <2>1, <2>4, <2>5, <2>6 DEF RegistryInv
<1>3. CASE UNCHANGED <<registryVars, published>>
  BY <1>0, <1>3 DEF RegistryInv, RegistryTypeOK, WholeRuns, PointsAtRun, registryVars
<1>4. QED
  BY <1>1, <1>2, <1>3, StepKinds DEF Publishes

LEMMA StoreTypesStep ==
    ASSUME RegistryTypeOK, StoreTypeInv, ApiNext
    PROVE  StoreTypeInv'
<1>1. CASE Reads
  BY <1>1, ReadsIsStoreStep, StoreTypeStep
<1>2. CASE UNCHANGED storeVars
  BY <1>2 DEF storeVars, StoreTypeInv, StoreTypeOK, LoadControlInv
<1>3. QED
  BY <1>1, <1>2, StepKinds

(***************************************************************************)
(* Reading: what the process serves only moves forward, and what a get()   *)
(* returns is what is served then, or an error while nothing was.          *)
(***************************************************************************)
LEMMA InstallEffect ==
    ASSUME StoreTypeInv, NEW t \in Threads, Install(t)
    PROVE  /\ found[t] \in RunIds
           /\ cached' = [cached EXCEPT ![TheReplica] = Bundle(found[t], loaded[t])]
           /\ cached'[TheReplica] = Bundle(found[t], loaded[t])
           /\ Bundle(found[t], loaded[t]) \in Bundles
           /\ Served' = found[t]
           /\ reply' = [reply EXCEPT ![t] = Bundle(found[t], loaded[t])]
           /\ at[t] = "install" /\ at' = [at EXCEPT ![t] = "idle"]
<1>1. /\ at[t] = "install" /\ at' = [at EXCEPT ![t] = "idle"]
      /\ reply' = [reply EXCEPT ![t] = Bundle(found[t], loaded[t])]
      /\ cached' = [cached EXCEPT ![ReplicaOf[t]] = Bundle(found[t], loaded[t])]
  BY DEF Install, Return, At
<1>2. found[t] \in RunIds /\ loaded[t] \in Writers /\ Len(loaded[t]) = NRequired
  BY <1>1 DEF StoreTypeInv, StoreTypeOK, LoadControlInv, Writers
<1>3. Bundle(found[t], loaded[t]) \in Bundles
  BY <1>2, BundleType
<1>4. cached'[TheReplica] = Bundle(found[t], loaded[t])
  BY <1>1, OneReplica, ApiAssumption DEF StoreTypeInv, StoreTypeOK
<1>5. Bundle(found[t], loaded[t]).id = found[t]
  BY DEF Bundle
<1>6. Served' = found[t]
  BY <1>3, <1>4, <1>5, NothingIsNoBundle DEF Served
<1>7. QED
  BY <1>1, <1>2, <1>3, <1>4, <1>6, OneReplica

LEMMA OneLoader ==
    ASSUME StoreTypeInv, NEW t \in Threads, at[t] \in Loading,
           NEW u \in Threads, at[u] \in Loading
    PROVE  u = t
BY OneReplica DEF StoreTypeInv, StoreTypeOK

LEMMA ServedStep ==
    ASSUME StoreTypeInv, RegistryInv, published \in 0..NRuns, Served <= published,
           \A t \in Threads : LoadingInv(t), Reads, published' = published
    PROVE  /\ Served <= Served'
           /\ Served' <= published'
           /\ \A u \in Threads : LoadingInv(u)'
<1>0. Served \in 0..NRuns /\ NRuns \in Nat
  BY ServedType, ApiAssumption
<1> DEFINE Goal == /\ Served <= Served'
                   /\ Served' <= published'
                   /\ \A u \in Threads : LoadingInv(u)'
<1>1. ASSUME cached' = cached,
             \A u \in Threads : at'[u] \in {"check", "load", "install"} =>
                \/ at[u] \in {"check", "load", "install"} /\ found'[u] = found[u]
                \/ found'[u] = published
      PROVE  Goal
  <2>1. Served' = Served
    BY <1>1 DEF Served
  <2>2. ASSUME NEW u \in Threads, at'[u] \in {"check", "load", "install"}
        PROVE  found'[u] \in Served..published
    BY <1>0, <1>1, <2>2 DEF LoadingInv
  <2>3. \A u \in Threads : LoadingInv(u)'
    BY <2>1, <2>2 DEF LoadingInv
  <2>4. QED
    BY <1>0, <2>1, <2>3
<1>2. ASSUME NEW t \in Threads, NEW from, Fail(t, from) PROVE Goal
  <2>1. /\ cached' = cached /\ at' = [at EXCEPT ![t] = "idle"]
        /\ found' = [found EXCEPT ![t] = NoPointer]
    BY <1>2 DEF Fail, Return, At
  <2>2. QED
    BY <1>1, <2>1 DEF StoreTypeInv, StoreTypeOK
<1>3. ASSUME NEW t \in Threads, Call(t) PROVE Goal
  <2>1. /\ cached' = cached /\ at' = [at EXCEPT ![t] = "waiting"] /\ found' = found
    BY <1>3 DEF Call, At
  <2>2. QED
    BY <1>1, <2>1 DEF StoreTypeInv, StoreTypeOK
<1>4. ASSUME NEW t \in Threads, Enter(t) PROVE Goal
  <2>1. /\ cached' = cached
        /\ \/ at' = [at EXCEPT ![t] = "pointer"] /\ found' = found
           \/ at' = [at EXCEPT ![t] = "idle"] /\ found' = [found EXCEPT ![t] = NoPointer]
    BY <1>4 DEF Enter, Return, At
  <2>2. QED
    BY <1>1, <2>1 DEF StoreTypeInv, StoreTypeOK
<1>5. ASSUME NEW t \in Threads, LoadPointer(t) PROVE Goal
  <2>1. CASE PointsAtRun
    <3>1. /\ cached' = cached /\ at' = [at EXCEPT ![t] = "check"]
          /\ found' = [found EXCEPT ![t] = pointer] /\ pointer = published
      BY <1>5, <2>1 DEF LoadPointer, At, RegistryInv
    <3>2. QED
      BY <1>1, <3>1 DEF StoreTypeInv, StoreTypeOK
  <2>2. CASE ~PointsAtRun
    BY <1>2, <1>5, <2>2 DEF LoadPointer
  <2>3. QED
    BY <2>1, <2>2
<1>6. ASSUME NEW t \in Threads, CheckRequired(t) PROVE Goal
  <2>1. CASE \A f \in Required : Exists(found[t], f)
    <3>1. /\ cached' = cached /\ at[t] = "check"
          /\ at' = [at EXCEPT ![t] = "load"] /\ found' = found
      BY <1>6, <2>1 DEF CheckRequired, At
    <3>2. QED
      BY <1>1, <3>1 DEF StoreTypeInv, StoreTypeOK
  <2>2. CASE ~\A f \in Required : Exists(found[t], f)
    BY <1>2, <1>6, <2>2 DEF CheckRequired
  <2>3. QED
    BY <2>1, <2>2
<1>7. ASSUME NEW t \in Threads, LoadFile(t) PROVE Goal
  <2> DEFINE content == disk[found[t]][LoadOrder[Len(loaded[t]) + 1]]
  <2>1. CASE Readable(content)
    <3>1. /\ cached' = cached /\ at[t] = "load" /\ found' = found
          /\ \/ at' = [at EXCEPT ![t] = "install"]
             \/ at' = [at EXCEPT ![t] = "load"]
      BY <1>7, <2>1 DEF LoadFile, At
    <3>2. QED
      BY <1>1, <3>1 DEF StoreTypeInv, StoreTypeOK
  <2>2. CASE ~Readable(content)
    BY <1>2, <1>7, <2>2 DEF LoadFile
  <2>3. QED
    BY <2>1, <2>2
<1>8. ASSUME NEW t \in Threads, Install(t) PROVE Goal
  <2>1. /\ Served' = found[t] /\ at[t] = "install" /\ at' = [at EXCEPT ![t] = "idle"]
    BY <1>8, InstallEffect
  <2>2. found[t] \in Served..published
    BY <2>1 DEF LoadingInv
  <2>3. ASSUME NEW u \in Threads PROVE LoadingInv(u)'
    <3>1. CASE u = t
      BY <2>1, <3>1 DEF LoadingInv, StoreTypeInv, StoreTypeOK
    <3>2. CASE u # t
      <4>1. at[u] \notin Loading
        BY <2>1, <3>2, OneLoader DEF Loading
      <4>2. at'[u] = at[u]
        BY <2>1, <3>2 DEF StoreTypeInv, StoreTypeOK
      <4>3. QED
        BY <4>1, <4>2 DEF LoadingInv, Loading
    <3>3. QED
      BY <3>1, <3>2
  <2>4. QED
    BY <1>0, <2>1, <2>2, <2>3
<1>9. CASE Tick
  BY <1>1, <1>9 DEF Tick
<1>10. QED
  BY <1>3, <1>4, <1>5, <1>6, <1>7, <1>8, <1>9 DEF Reads, Load

LEMMA RepliesOfReads ==
    ASSUME StoreTypeInv, Reads, NEW t \in Threads
    PROVE  \/ reply'[t] = reply[t]
           \/ reply'[t] = NoBundle
           \/ reply'[t] = cached'[TheReplica]
           \/ reply'[t] = LoadError /\ cached[TheReplica] = NoBundle
<1> DEFINE Goal == \/ reply'[t] = reply[t]
                   \/ reply'[t] = NoBundle
                   \/ reply'[t] = cached'[TheReplica]
                   \/ reply'[t] = LoadError /\ cached[TheReplica] = NoBundle
<1>1. reply \in [Threads -> Bundles \cup {NoBundle, LoadError}]
  BY DEF StoreTypeInv, StoreTypeOK
<1>2. ASSUME NEW u \in Threads, NEW from, Fail(u, from) PROVE Goal
  BY <1>1, <1>2, OneReplica DEF Fail, Return
<1>3. ASSUME NEW u \in Threads, Call(u) PROVE Goal
  BY <1>1, <1>3 DEF Call
<1>4. ASSUME NEW u \in Threads, Enter(u) PROVE Goal
  BY <1>1, <1>4, OneReplica DEF Enter, Return
<1>5. ASSUME NEW u \in Threads, LoadPointer(u) \/ CheckRequired(u) \/ LoadFile(u) PROVE Goal
  BY <1>2, <1>5 DEF LoadPointer, CheckRequired, LoadFile
<1>6. ASSUME NEW u \in Threads, Install(u) PROVE Goal
  BY <1>1, <1>6, InstallEffect
<1>7. CASE Tick
  BY <1>7 DEF Tick
<1>8. QED
  BY <1>3, <1>4, <1>5, <1>6, <1>7 DEF Reads, Load

(***************************************************************************)
(* Types of the process.                                                   *)
(***************************************************************************)
LEMMA StatusType ==
    ASSUME NEW t
    PROVE  /\ StatusOf(t) \in {200, 404, 422, 503}
           /\ StatusOf(t) = 503 => reply[t] = LoadError
BY DEF StatusOf

LEMMA BucketType ==
    ASSUME ApiTypeOK, NEW t \in Requests
    PROVE  Bucket(t) \in Buckets
<1>1. request[t] \in RequestKinds
  BY DEF ApiTypeOK
<1>2. <<request[t].route, request[t].key>> \in Buckets
  BY <1>1 DEF Buckets
<1>3. QED
  BY <1>2 DEF Bucket, Route, Caller

\* The run a request or the loop got is a run.
LEMMA ReplyIds ==
    ASSUME StoreTypeInv, NEW t \in Threads, reply[t] # NoBundle, reply[t] # LoadError
    PROVE  reply[t] \in Bundles /\ reply[t].id \in 1..NRuns
<1>1. reply[t] \in Bundles
  BY DEF StoreTypeInv, StoreTypeOK
<1>2. QED
  BY <1>1, BundleIds

RequestTypeOK ==
    /\ stage \in [Requests -> {"coming", "arrived", "queued", "running", "done", "sent"}]
    /\ status \in [Requests -> {0, 200, 401, 403, 404, 422, 429, 503}]
    /\ answered \in [Requests -> 0..NRuns]

LEMMA AnswerType ==
    ASSUME RequestTypeOK, NEW t \in Requests,
           NEW code \in {200, 401, 403, 404, 422, 429, 503}, NEW run \in 0..NRuns,
           Answer(t, code, run)
    PROVE  RequestTypeOK'
BY DEF RequestTypeOK, Answer

LEMMA RequestTypeStep ==
    ASSUME ApiTypeOK, StoreTypeInv, ApiNext
    PROVE  RequestTypeOK'
<1>0. /\ RequestTypeOK /\ Requests \subseteq Threads
      /\ NRuns \in Nat /\ 0 \in 0..NRuns
  BY ApiAssumption DEF ApiTypeOK, RequestTypeOK, Requests
<1>1. ASSUME UNCHANGED <<stage, status, answered>> PROVE RequestTypeOK'
  BY <1>0, <1>1 DEF RequestTypeOK
<1>2. CASE OpenNextPointer \/ WriteNextPointer \/ WarmUp \/ Started \/ Scrape \/ Scraped \/ StoreWork
  BY <1>1, <1>2 DEF OpenNextPointer, WriteNextPointer, WarmUp, Started, Scrape, Scraped,
     StoreWork, requestVars
<1>3. CASE \E b \in Buckets : WindowEnds(b)
  BY <1>1, <1>3 DEF WindowEnds, requestVars
<1>4. ASSUME NEW t \in Requests, Arrive(t) \/ StartHandler(t) \/ Send(t) PROVE RequestTypeOK'
  BY <1>0, <1>4 DEF Arrive, StartHandler, Send, RequestTypeOK
<1>5. ASSUME NEW t \in Requests, Reject(t) PROVE RequestTypeOK'
  BY <1>0, <1>5, AnswerType DEF Reject
<1>6. ASSUME NEW t \in Requests, Accept(t) PROVE RequestTypeOK'
  <2>1. CASE Answer(t, 422, 0)
    BY <1>0, <2>1, AnswerType
  <2>2. CASE stage' = [stage EXCEPT ![t] = "queued"] /\ UNCHANGED <<status, answered>>
    BY <1>0, <2>2 DEF RequestTypeOK
  <2>3. QED
    BY <1>6, <2>1, <2>2 DEF Accept
<1>7. ASSUME NEW t \in Requests, Limited(t) PROVE RequestTypeOK'
  BY <1>0, <1>7, AnswerType DEF Limited
<1>8. ASSUME NEW t \in Requests, Finish(t) PROVE RequestTypeOK'
  <2> DEFINE run == IF reply[t] = LoadError THEN 0 ELSE reply[t].id
  <2>1. reply[t] # NoBundle /\ Answer(t, StatusOf(t), run)
    BY <1>8 DEF Finish
  <2>2. run \in 0..NRuns
    BY <1>0, <2>1, ReplyIds
  <2>3. StatusOf(t) \in {200, 401, 403, 404, 422, 429, 503}
    BY StatusType
  <2> HIDE DEF run
  <2>4. QED
    BY <1>0, <2>1, <2>2, <2>3, AnswerType
<1>9. QED
  BY <1>2, <1>3, <1>4, <1>5, <1>6, <1>7, <1>8 DEF ApiNext, ServeRequest

LEMMA RestTypeStep ==
    ASSUME ApiTypeOK, StoreTypeInv, \A t \in Requests : RequestInv(t), ApiNext
    PROVE  /\ request' = request
           /\ loop' \in {"down", "starting", "free", "scraping"}
           /\ floor' \in [Threads -> 0..NRuns]
           /\ bucket' \in [Buckets -> 0..Limit]
           /\ gauges' \in 0..NRuns
           /\ scrapes' \in 0..MaxScrapes
<1>0. /\ Requests \subseteq Threads /\ Loop \in Threads
      /\ NRuns \in Nat /\ Limit \in Nat /\ MaxScrapes \in Nat
      /\ Newest \in 0..NRuns
  BY ApiAssumption, NewestType DEF Requests
<1> DEFINE Goal == /\ request' = request
                   /\ loop' \in {"down", "starting", "free", "scraping"}
                   /\ floor' \in [Threads -> 0..NRuns]
                   /\ bucket' \in [Buckets -> 0..Limit]
                   /\ gauges' \in 0..NRuns
                   /\ scrapes' \in 0..MaxScrapes
<1>1. CASE OpenNextPointer \/ WriteNextPointer \/ StoreWork
  BY <1>1 DEF OpenNextPointer, WriteNextPointer, StoreWork, requestVars, limitVars, meterVars,
     ApiTypeOK
<1>2. CASE WarmUp \/ Started
  BY <1>2 DEF WarmUp, Started, requestVars, limitVars, meterVars, ApiTypeOK
<1>3. CASE Scrape
  BY <1>0, <1>3 DEF Scrape, limitVars, ApiTypeOK
<1>4. CASE Scraped
  <2>1. reply[Loop] # LoadError => reply[Loop].id \in 0..NRuns
    BY <1>0, <1>4, ReplyIds DEF Scraped, LoopAnswered
  <2>2. gauges' \in 0..NRuns
    BY <1>4, <2>1 DEF Scraped, ApiTypeOK
  <2>3. QED
    BY <1>4, <2>2 DEF Scraped, requestVars, limitVars, ApiTypeOK
<1>5. ASSUME NEW b \in Buckets, WindowEnds(b) PROVE Goal
  BY <1>0, <1>5 DEF WindowEnds, requestVars, meterVars, ApiTypeOK
<1>6. ASSUME NEW t \in Requests, Arrive(t) PROVE Goal
  BY <1>0, <1>6 DEF Arrive, limitVars, meterVars, ApiTypeOK
<1>7. ASSUME NEW t \in Requests, Reject(t) \/ Accept(t) \/ Limited(t) \/ Finish(t) \/ Send(t)
      PROVE  Goal
  BY <1>7 DEF Reject, Accept, Limited, Finish, Send, limitVars, meterVars, ApiTypeOK
<1>8. ASSUME NEW t \in Requests, StartHandler(t) PROVE Goal
  <2>1. CASE Route(t) \in Protected
    <3>1. bucket' = [bucket EXCEPT ![Bucket(t)] = @ + 1] /\ ~(bucket[Bucket(t)] >= Limit)
      BY <1>8, <2>1 DEF StartHandler, OverLimit
    <3>2. bucket[Bucket(t)] \in 0..Limit
      BY BucketType DEF ApiTypeOK
    <3>3. bucket[Bucket(t)] + 1 \in 0..Limit
      BY <1>0, <3>1, <3>2
    <3>4. bucket' \in [Buckets -> 0..Limit]
      BY <3>1, <3>3 DEF ApiTypeOK
    <3>5. QED
      BY <1>8, <3>4 DEF StartHandler, meterVars, ApiTypeOK
  <2>2. CASE Route(t) \notin Protected
    BY <1>8, <2>2 DEF StartHandler, meterVars, ApiTypeOK
  <2>3. QED
    BY <2>1, <2>2
<1>9. QED
  BY <1>1, <1>2, <1>3, <1>4, <1>5, <1>6, <1>7, <1>8 DEF ApiNext, ServeRequest

LEMMA ApiTypeStep ==
    ASSUME ApiTypeOK, StoreTypeInv, RegistryInv, \A t \in Requests : RequestInv(t), ApiNext
    PROVE  ApiTypeOK'
BY RequestTypeStep, RestTypeStep, RegistryStep DEF ApiTypeOK, RequestTypeOK

(***************************************************************************)
(* What is served moves forward, and so do the replies of get().           *)
(***************************************************************************)
\* The part of the invariant that the store and the registry keep up.
ReadInv ==
    /\ ApiTypeOK
    /\ StoreTypeInv
    /\ RegistryInv
    /\ Served <= published
    /\ \A t \in Threads : LoadingInv(t) /\ ReplyInv(t)
    /\ \A t \in Requests : RequestInv(t)

LEMMA NumbersOf ==
    ASSUME ReadInv
    PROVE  /\ Served \in 0..NRuns /\ published \in 0..NRuns /\ NRuns \in Nat
           /\ \A t \in Threads : floor[t] \in 0..NRuns
           /\ \A t \in Requests : answered[t] \in 0..NRuns
           /\ Requests \subseteq Threads /\ Loop \in Threads /\ Loop \notin Requests
           /\ Newest \in 0..NRuns /\ Newest <= Served
BY ServedType, NewestType, ApiAssumption DEF ReadInv, ApiTypeOK, Requests

LEMMA ForwardStep ==
    ASSUME ReadInv, ApiNext
    PROVE  /\ Served' \in 0..NRuns
           /\ Served <= Served'
           /\ Served' <= published'
           /\ \A t \in Threads : LoadingInv(t)'
<1>0. /\ Served \in 0..NRuns /\ published \in 0..NRuns /\ NRuns \in Nat
      /\ published' \in 0..NRuns /\ published <= published'
  BY NumbersOf, RegistryStep DEF ReadInv
<1>2. Served' \in 0..NRuns
  <2>1. StoreTypeInv'
    BY StoreTypesStep DEF ReadInv, RegistryInv
  <2>2. cached'[TheReplica] \in Bundles \cup {NoBundle}
    BY <2>1, ApiAssumption DEF StoreTypeInv, StoreTypeOK
  <2>3. QED
    BY <1>0, <2>2, BundleIds DEF Served
<1>3. CASE Reads /\ published' = published
  BY <1>0, <1>2, <1>3, ServedStep DEF ReadInv
<1>4. CASE UNCHANGED storeVars
  <2>1. Served' = Served
    BY <1>4 DEF storeVars, Served
  <2>2. ASSUME NEW t \in Threads PROVE LoadingInv(t)'
    BY <1>0, <1>4, <2>1 DEF ReadInv, LoadingInv, storeVars
  <2>3. QED
    BY <1>0, <1>2, <2>1, <2>2 DEF ReadInv
<1>5. QED
  BY <1>3, <1>4, StepKinds

\* A floor is set when a request arrives or a scrape begins: get() was not called yet.
LEMMA FloorsOf ==
    ASSUME ReadInv, ApiNext, NEW t \in Threads
    PROVE  \/ floor'[t] = floor[t]
           \/ /\ floor'[t] = Newest
              /\ reply'[t] = NoBundle
<1>1. CASE floor' = floor
  BY <1>1
<1>2. CASE Scrape
  <2>1. floor' = [floor EXCEPT ![Loop] = Newest] /\ reply' = [reply EXCEPT ![Loop] = NoBundle]
    BY <1>2 DEF Scrape, Call
  <2>2. QED
    BY <2>1 DEF ReadInv, ApiTypeOK, StoreTypeInv, StoreTypeOK
<1>3. ASSUME NEW u \in Requests, Arrive(u)
      PROVE  floor'[t] = floor[t] \/ (floor'[t] = Newest /\ reply'[t] = NoBundle)
  <2>1. floor' = [floor EXCEPT ![u] = Newest] /\ reply' = reply /\ reply[u] = NoBundle
    BY <1>3 DEF Arrive, storeVars, ReadInv, RequestInv
  <2>2. QED
    BY <2>1 DEF ReadInv, ApiTypeOK
<1>4. CASE OpenNextPointer \/ WriteNextPointer \/ WarmUp \/ Started \/ Scraped \/ StoreWork
  BY <1>1, <1>4 DEF OpenNextPointer, WriteNextPointer, WarmUp, Started, Scraped, StoreWork,
     requestVars
<1>5. CASE \E b \in Buckets : WindowEnds(b)
  BY <1>1, <1>5 DEF WindowEnds, requestVars
<1>6. CASE \E u \in Requests : ServeRequest(u)
  BY <1>1, <1>6 DEF ServeRequest, Reject, Accept, Limited, StartHandler, Finish, Send
<1>7. QED
  BY <1>2, <1>3, <1>4, <1>5, <1>6 DEF ApiNext

LEMMA ReplyStep ==
    ASSUME ReadInv, ApiNext, NEW t \in Threads
    PROVE  ReplyInv(t)'
<1>0. /\ Served \in 0..NRuns /\ Newest \in 0..NRuns /\ floor[t] \in 0..NRuns
      /\ NRuns \in Nat /\ Newest <= Served
      /\ Served' \in 0..NRuns /\ Served <= Served'
  BY NumbersOf, ForwardStep
<1>1. ReplyInv(t)
  BY DEF ReadInv
<1>2. /\ floor'[t] \in 0..NRuns /\ floor'[t] <= Served
      /\ floor'[t] = floor[t] \/ reply'[t] = NoBundle
  BY <1>0, <1>1, FloorsOf DEF ReplyInv
<1>3. CASE reply'[t] = NoBundle
  BY <1>0, <1>2, <1>3, NothingIsNoBundle DEF ReplyInv
<1>4. CASE reply'[t] = reply[t] /\ floor'[t] = floor[t]
  <2>1. reply'[t] \in Bundles => reply'[t].id \in 1..NRuns
    BY BundleIds
  <2>2. QED
    BY <1>0, <1>1, <1>4, <2>1 DEF ReplyInv
<1>5. CASE reply'[t] = cached'[TheReplica] /\ cached'[TheReplica] # NoBundle
  <2>1. reply'[t] \in Bundles /\ Served' = reply'[t].id
    <3>1. StoreTypeInv'
      BY StoreTypesStep DEF ReadInv, RegistryInv
    <3>2. cached'[TheReplica] \in Bundles
      BY <1>5, <3>1, ApiAssumption DEF StoreTypeInv, StoreTypeOK
    <3>3. QED
      BY <1>5, <3>2 DEF Served
  <2>2. QED
    BY <1>0, <1>2, <2>1, NothingIsNoBundle DEF ReplyInv
<1>6. CASE reply'[t] = LoadError /\ cached[TheReplica] = NoBundle
  <2>1. Served = 0
    BY <1>6 DEF Served
  <2>2. floor'[t] = 0
    BY <1>0, <1>2, <2>1
  <2>3. QED
    BY <1>0, <1>6, <2>2, NothingIsNoBundle DEF ReplyInv
<1>7. \/ reply'[t] = reply[t]
      \/ reply'[t] = NoBundle
      \/ reply'[t] = cached'[TheReplica]
      \/ reply'[t] = LoadError /\ cached[TheReplica] = NoBundle
  <2>1. CASE Reads
    BY <2>1, RepliesOfReads DEF ReadInv
  <2>2. CASE UNCHANGED storeVars
    BY <2>2 DEF storeVars
  <2>3. QED
    BY <2>1, <2>2, StepKinds
<1>8. QED
  BY <1>2, <1>3, <1>4, <1>5, <1>6, <1>7

(***************************************************************************)
(* Requests.  AnswerInv is what AnswersNeverGoBack says of one of them.    *)
(***************************************************************************)
AnswerInv(t) ==
    stage[t] \in {"done", "sent"} /\ floor[t] > 0 =>
        /\ status[t] # 503
        /\ status[t] \in {200, 404} => answered[t] >= floor[t]

\* A thread that is not inside get() gets nothing from the store.
LEMMA IdleStays ==
    ASSUME StoreTypeInv, NEW t \in Threads, at[t] = "idle",
           (\E u \in Threads : Enter(u) \/ Load(u)) \/ Tick
    PROVE  at'[t] = at[t] /\ reply'[t] = reply[t]
<1> DEFINE Goal == at'[t] = at[t] /\ reply'[t] = reply[t]
<1>0. at \in [Threads -> {"idle", "waiting"} \cup Loading]
      /\ reply \in [Threads -> Bundles \cup {NoBundle, LoadError}]
  BY DEF StoreTypeInv, StoreTypeOK
<1>1. ASSUME NEW u \in Threads, NEW from, from # "idle", Fail(u, from) PROVE Goal
  BY <1>0, <1>1 DEF Fail, Return, At
<1>2. ASSUME NEW u \in Threads, Enter(u) PROVE Goal
  BY <1>0, <1>2 DEF Enter, Return, At
<1>3. ASSUME NEW u \in Threads, LoadPointer(u) \/ CheckRequired(u) \/ LoadFile(u) PROVE Goal
  BY <1>0, <1>1, <1>3 DEF LoadPointer, CheckRequired, LoadFile, At
<1>4. ASSUME NEW u \in Threads, Install(u) PROVE Goal
  BY <1>0, <1>4, InstallEffect
<1>5. CASE Tick
  BY <1>5 DEF Tick
<1>6. QED
  BY <1>2, <1>3, <1>4, <1>5 DEF Load

LEMMA BystanderStep ==
    ASSUME ReadInv, ApiNext, NEW t \in Requests, AnswerInv(t),
           stage'[t] = stage[t], status'[t] = status[t], answered'[t] = answered[t],
           floor'[t] = floor[t],
           stage[t] = "coming" => at'[t] = at[t] /\ reply'[t] = reply[t]
    PROVE  RequestInv(t)' /\ AnswerInv(t)'
<1>1. /\ Served \in 0..NRuns /\ Served' \in 0..NRuns /\ Served <= Served' /\ NRuns \in Nat
      /\ answered[t] \in 0..NRuns
      /\ request' = request
  BY NumbersOf, ForwardStep, RestTypeStep DEF ReadInv
<1>2. RequestInv(t)
  BY DEF ReadInv
<1>3. answered'[t] <= Served'
  BY <1>1, <1>2 DEF RequestInv
<1>4. QED
  BY <1>1, <1>2, <1>3 DEF RequestInv, AnswerInv

\* The request that moves: its stage is past "coming" afterwards.
LEMMA MoverStep ==
    ASSUME ReadInv, ApiNext, NEW t \in Requests, AnswerInv(t), Arrive(t) \/ ServeRequest(t)
    PROVE  RequestInv(t)' /\ AnswerInv(t)'
<1>0. /\ Served \in 0..NRuns /\ Served' \in 0..NRuns /\ Served <= Served' /\ NRuns \in Nat
      /\ answered[t] \in 0..NRuns /\ floor[t] \in 0..NRuns
      /\ request' = request /\ t \in Threads
      /\ RequestInv(t) /\ ReplyInv(t) /\ RequestTypeOK
      /\ answered[t] <= Served'
  BY NumbersOf, ForwardStep, RestTypeStep DEF ReadInv, RequestInv, RequestTypeOK, ApiTypeOK
<1>1. ASSUME NEW code \in {401, 403, 422, 429}, Answer(t, code, 0) PROVE RequestInv(t)' /\ AnswerInv(t)'
  <2>1. stage'[t] = "done" /\ status'[t] = code /\ answered'[t] = 0
    BY <1>0, <1>1 DEF Answer, RequestTypeOK
  <2>2. QED
    BY <1>0, <2>1 DEF RequestInv, AnswerInv
<1>2. CASE Arrive(t)
  <2>1. stage[t] = "coming" /\ stage'[t] = "arrived" /\ status' = status /\ answered' = answered
    BY <1>0, <1>2 DEF Arrive, RequestTypeOK
  <2>2. QED
    BY <1>0, <2>1 DEF RequestInv, AnswerInv
<1>3. CASE Reject(t)
  BY <1>1, <1>3 DEF Reject
<1>4. CASE Accept(t)
  <2>1. CASE request[t].valid
    <3>1. /\ stage[t] = "arrived" /\ stage'[t] = "queued"
          /\ status' = status /\ answered' = answered
      BY <1>0, <1>4, <2>1 DEF Accept, RequestTypeOK
    <3>2. QED
      BY <1>0, <2>1, <3>1 DEF RequestInv, AnswerInv
  <2>2. CASE ~request[t].valid
    BY <1>1, <1>4, <2>2 DEF Accept
  <2>3. QED
    BY <2>1, <2>2
<1>5. CASE Limited(t)
  BY <1>1, <1>5 DEF Limited
<1>6. CASE StartHandler(t)
  <2>1. stage[t] = "queued" /\ stage'[t] = "running" /\ status' = status /\ answered' = answered
    BY <1>0, <1>6 DEF StartHandler, RequestTypeOK
  <2>2. QED
    BY <1>0, <2>1 DEF RequestInv, AnswerInv
<1>7. CASE Finish(t)
  <2> DEFINE run == IF reply[t] = LoadError THEN 0 ELSE reply[t].id
  <2>1. /\ stage'[t] = "done" /\ status'[t] = StatusOf(t) /\ answered'[t] = run
        /\ floor' = floor /\ reply[t] # NoBundle
    BY <1>0, <1>7 DEF Finish, Answer, RequestTypeOK
  <2>2. CASE reply[t] = LoadError
    <3>1. floor'[t] = 0 /\ answered'[t] = 0
      BY <1>0, <2>1, <2>2 DEF ReplyInv
    <3>2. QED
      BY <1>0, <2>1, <3>1 DEF RequestInv, AnswerInv
  <2>3. CASE reply[t] # LoadError
    <3>1. reply[t] \in Bundles /\ reply[t].id \in floor[t]..Served /\ run = reply[t].id
      BY <1>0, <2>1, <2>3, ReplyIds DEF ReplyInv, ReadInv
    <3>2. StatusOf(t) # 503
      BY <2>3, StatusType
    <3>3. answered'[t] >= floor'[t] /\ answered'[t] <= Served'
      <4>1. run \in Int /\ run >= floor[t] /\ run <= Served
        BY <1>0, <3>1
      <4> HIDE DEF run
      <4>2. QED
        BY <1>0, <2>1, <4>1
    <3>4. QED
      BY <2>1, <3>2, <3>3 DEF RequestInv, AnswerInv
  <2>4. QED
    BY <2>2, <2>3
<1>8. CASE Send(t)
  <2>1. /\ stage[t] = "done" /\ stage'[t] = "sent"
        /\ status' = status /\ answered' = answered /\ floor' = floor
    BY <1>0, <1>8 DEF Send, RequestTypeOK
  <2>2. QED
    BY <1>0, <2>1 DEF RequestInv, AnswerInv
<1>9. QED
  BY <1>2, <1>3, <1>4, <1>5, <1>6, <1>7, <1>8 DEF ServeRequest

LEMMA RequestStep ==
    ASSUME ReadInv, ApiNext, NEW t \in Requests, AnswerInv(t)
    PROVE  RequestInv(t)' /\ AnswerInv(t)'
<1> DEFINE Goal == RequestInv(t)' /\ AnswerInv(t)'
<1>0. /\ t \in Threads /\ t # Loop /\ StoreTypeInv /\ ApiTypeOK
      /\ stage[t] = "coming" => at[t] = "idle"
  BY NumbersOf DEF ReadInv, RequestInv
<1>1. CASE UNCHANGED storeVars /\ UNCHANGED requestVars
  BY <1>1, BystanderStep DEF storeVars, requestVars
<1>2. CASE OpenNextPointer \/ WriteNextPointer \/ Started \/ Scraped
  BY <1>1, <1>2 DEF OpenNextPointer, WriteNextPointer, Started, Scraped
<1>3. CASE \E b \in Buckets : WindowEnds(b)
  BY <1>1, <1>3 DEF WindowEnds
<1>4. CASE WarmUp
  <2>1. /\ UNCHANGED requestVars
        /\ at' = [at EXCEPT ![Loop] = "waiting"] /\ reply' = [reply EXCEPT ![Loop] = NoBundle]
    BY <1>4 DEF WarmUp, Call, At
  <2>2. at'[t] = at[t] /\ reply'[t] = reply[t]
    BY <1>0, <2>1 DEF StoreTypeInv, StoreTypeOK
  <2>3. QED
    BY <2>1, <2>2, BystanderStep DEF requestVars
<1>5. CASE Scrape
  <2>1. /\ UNCHANGED <<request, stage, status, answered>>
        /\ floor' = [floor EXCEPT ![Loop] = Newest]
        /\ at' = [at EXCEPT ![Loop] = "waiting"] /\ reply' = [reply EXCEPT ![Loop] = NoBundle]
    BY <1>5 DEF Scrape, Call, At
  <2>2. at'[t] = at[t] /\ reply'[t] = reply[t] /\ floor'[t] = floor[t]
    BY <1>0, <2>1 DEF StoreTypeInv, StoreTypeOK, ApiTypeOK
  <2>3. QED
    BY <2>1, <2>2, BystanderStep
<1>6. CASE StoreWork
  <2>1. UNCHANGED requestVars /\ ((\E u \in Threads : Enter(u) \/ Load(u)) \/ Tick)
    BY <1>6 DEF StoreWork
  <2>2. stage[t] = "coming" => at'[t] = at[t] /\ reply'[t] = reply[t]
    BY <1>0, <2>1, IdleStays
  <2>3. QED
    BY <2>1, <2>2, BystanderStep DEF requestVars
<1>7. ASSUME NEW u \in Requests, u # t, Arrive(u) \/ ServeRequest(u) PROVE Goal
  <2>1. u \in Threads /\ RequestTypeOK
    BY NumbersOf DEF ReadInv, ApiTypeOK, RequestTypeOK
  <2>2. CASE StartHandler(u)
    <3>1. /\ UNCHANGED <<status, answered, floor>> /\ stage' = [stage EXCEPT ![u] = "running"]
          /\ at' = [at EXCEPT ![u] = "waiting"] /\ reply' = [reply EXCEPT ![u] = NoBundle]
      BY <2>2 DEF StartHandler, Call, At
    <3>2. at'[t] = at[t] /\ reply'[t] = reply[t] /\ stage'[t] = stage[t]
      BY <1>0, <1>7, <2>1, <3>1 DEF StoreTypeInv, StoreTypeOK, RequestTypeOK
    <3>3. QED
      BY <3>1, <3>2, BystanderStep
  <2>3. CASE Arrive(u) \/ Send(u) \/ Accept(u) \/ Reject(u) \/ Limited(u) \/ Finish(u)
    <3>1. UNCHANGED storeVars
      BY <2>3 DEF Arrive, Send, Accept, Reject, Limited, Finish
    <3>2. /\ stage'[t] = stage[t] /\ status'[t] = status[t] /\ answered'[t] = answered[t]
          /\ floor'[t] = floor[t]
      BY <1>0, <1>7, <2>1, <2>3 DEF Arrive, Send, Accept, Reject, Limited, Finish, Answer,
         RequestTypeOK, ApiTypeOK
    <3>3. QED
      BY <3>1, <3>2, BystanderStep DEF storeVars
  <2>4. QED
    BY <1>7, <2>2, <2>3 DEF ServeRequest
<1>8. QED
  BY <1>2, <1>3, <1>4, <1>5, <1>6, <1>7, MoverStep DEF ApiNext

(***************************************************************************)
(* Limits: only a handler that starts is let through, and it stays so.     *)
(***************************************************************************)
LEMMA PassedStep ==
    ASSUME ReadInv, ApiNext, NEW u \in Requests, ~StartHandler(u)
    PROVE  PassedLimit(u)' <=> PassedLimit(u)
<1> DEFINE Goal == PassedLimit(u)' <=> PassedLimit(u)
<1>0. /\ RequestTypeOK /\ request' = request /\ RequestInv(u) /\ StoreTypeInv
      /\ u \in Threads
  BY NumbersOf, RestTypeStep DEF ReadInv, ApiTypeOK, RequestTypeOK
<1>1. CASE stage'[u] = stage[u] /\ status'[u] = status[u]
  BY <1>0, <1>1 DEF PassedLimit
<1>2. CASE OpenNextPointer \/ WriteNextPointer \/ WarmUp \/ Started \/ Scrape \/ Scraped \/ StoreWork
  BY <1>1, <1>2 DEF OpenNextPointer, WriteNextPointer, WarmUp, Started, Scrape, Scraped,
     StoreWork, requestVars
<1>3. CASE \E b \in Buckets : WindowEnds(b)
  BY <1>1, <1>3 DEF WindowEnds, requestVars
<1>4. ASSUME NEW t \in Requests, t # u, Arrive(t) \/ ServeRequest(t) PROVE Goal
  <2>1. stage'[u] = stage[u] /\ status'[u] = status[u]
    BY <1>0, <1>4 DEF Arrive, ServeRequest, Reject, Accept, Limited, StartHandler, Finish, Send,
       Answer, RequestTypeOK
  <2>2. QED
    BY <1>1, <2>1
<1>5. ASSUME NEW code \in {401, 403, 429}, Answer(u, code, 0), stage[u] \in {"arrived", "queued"}
      PROVE  Goal
  <2>1. stage'[u] = "done" /\ status'[u] = code /\ status[u] = 0
    BY <1>0, <1>5 DEF Answer, RequestTypeOK, RequestInv
  <2>2. QED
    BY <1>5, <2>1 DEF PassedLimit
<1>6. CASE Arrive(u)
  <2>1. stage[u] = "coming" /\ stage'[u] = "arrived" /\ status' = status
    BY <1>0, <1>6 DEF Arrive, RequestTypeOK
  <2>2. QED
    BY <1>0, <2>1 DEF PassedLimit
<1>7. CASE Reject(u)
  BY <1>5, <1>7 DEF Reject
<1>8. CASE Accept(u)
  <2>1. CASE request[u].valid
    <3>1. stage[u] = "arrived" /\ stage'[u] = "queued" /\ status' = status
      BY <1>0, <1>8, <2>1 DEF Accept, RequestTypeOK
    <3>2. QED
      BY <1>0, <3>1 DEF PassedLimit
  <2>2. CASE ~request[u].valid
    <3>1. /\ stage[u] = "arrived" /\ stage'[u] = "done"
          /\ status'[u] = 422 /\ status[u] = 0
      BY <1>0, <1>8, <2>2 DEF Accept, Answer, RequestTypeOK, RequestInv
    <3>2. QED
      BY <1>0, <2>2, <3>1 DEF PassedLimit
  <2>3. QED
    BY <2>1, <2>2
<1>9. CASE Limited(u)
  BY <1>5, <1>9 DEF Limited
<1>10. CASE Finish(u)
  <2>1. stage[u] = "running" /\ status'[u] = StatusOf(u) /\ request[u].valid
    BY <1>0, <1>10 DEF Finish, Answer, RequestTypeOK, RequestInv
  <2>2. StatusOf(u) \in {200, 404, 422, 503}
    BY StatusType
  <2>3. QED
    BY <1>0, <2>1, <2>2 DEF PassedLimit
<1>11. CASE Send(u)
  <2>1. stage[u] = "done" /\ stage'[u] = "sent" /\ status' = status
    BY <1>0, <1>11 DEF Send, RequestTypeOK
  <2>2. QED
    BY <1>0, <2>1 DEF PassedLimit
<1>12. QED
  BY <1>2, <1>3, <1>4, <1>6, <1>7, <1>8, <1>9, <1>10, <1>11 DEF ApiNext, ServeRequest

LEMMA HandlerPasses ==
    ASSUME ReadInv, ApiNext, NEW t \in Requests, StartHandler(t)
    PROVE  /\ ~PassedLimit(t) /\ PassedLimit(t)'
           /\ \A u \in Requests : u # t => ~StartHandler(u)
<1>0. RequestTypeOK /\ RequestInv(t)
  BY DEF ReadInv, ApiTypeOK, RequestTypeOK
<1>1. stage[t] = "queued" /\ stage' = [stage EXCEPT ![t] = "running"] /\ status[t] = 0
  BY <1>0 DEF StartHandler, RequestInv
<1>2. ~PassedLimit(t) /\ PassedLimit(t)'
  BY <1>0, <1>1 DEF PassedLimit, RequestTypeOK
<1>3. ASSUME NEW u \in Requests, u # t PROVE ~StartHandler(u)
  <2>1. stage'[u] = stage[u]
    BY <1>0, <1>1, <1>3 DEF RequestTypeOK
  <2>2. StartHandler(u) => stage[u] = "queued" /\ stage'[u] = "running"
    BY <1>0 DEF StartHandler, RequestTypeOK
  <2>3. QED
    BY <2>1, <2>2
<1>4. QED
  BY <1>2, <1>3

\* Who was let through stays so, and a bucket that grows has let one more through.
LEMMA LetThroughStep ==
    ASSUME ReadInv, ApiNext, NEW route, NEW key, IsFiniteSet(LetThrough(route, key))
    PROVE  /\ IsFiniteSet(LetThrough(route, key)')
           /\ Cardinality(LetThrough(route, key)) \in Nat
           /\ Cardinality(LetThrough(route, key)') \in Nat
           /\ Cardinality(LetThrough(route, key)) <= Cardinality(LetThrough(route, key)')
           /\ \A t \in Requests : StartHandler(t) /\ Bucket(t) = <<route, key>> =>
                Cardinality(LetThrough(route, key)') = Cardinality(LetThrough(route, key)) + 1
<1> DEFINE before == LetThrough(route, key)
           after  == LetThrough(route, key)'
<1>0. request' = request /\ IsFiniteSet(before) /\ Cardinality(before) \in Nat
  BY RestTypeStep, FS_CardinalityType DEF ReadInv
<1>1. ASSUME NEW t \in Requests, StartHandler(t), Bucket(t) = <<route, key>>
      PROVE  after = before \cup {t} /\ t \notin before
  <2>1. Route(t) = route /\ Caller(t) = key
    BY <1>1 DEF Bucket
  <2>2. \A u \in Requests : u # t => (PassedLimit(u)' <=> PassedLimit(u))
    BY <1>1, HandlerPasses, PassedStep
  <2>3. ~PassedLimit(t) /\ PassedLimit(t)'
    BY <1>1, HandlerPasses
  <2>4. QED
    BY <1>0, <2>1, <2>2, <2>3 DEF LetThrough, Route, Caller
<1>2. ASSUME NEW t \in Requests, StartHandler(t), Bucket(t) # <<route, key>>
      PROVE  after = before
  <2>1. ~(Route(t) = route /\ Caller(t) = key)
    BY <1>2 DEF Bucket
  <2>2. \A u \in Requests : u # t => (PassedLimit(u)' <=> PassedLimit(u))
    BY <1>2, HandlerPasses, PassedStep
  <2>3. QED
    BY <1>0, <2>1, <2>2 DEF LetThrough, Route, Caller
<1>3. ASSUME \A t \in Requests : ~StartHandler(t) PROVE after = before
  <2>1. \A u \in Requests : PassedLimit(u)' <=> PassedLimit(u)
    BY <1>3, PassedStep
  <2>2. QED
    BY <1>0, <2>1 DEF LetThrough, Route, Caller
<1> HIDE DEF before, after
<1>4. ASSUME NEW t \in Requests, after = before \cup {t}, t \notin before
      PROVE  IsFiniteSet(after) /\ Cardinality(after) = Cardinality(before) + 1
  BY <1>0, <1>4, FS_AddElement
<1>5. /\ IsFiniteSet(after)
      /\ \/ Cardinality(after) = Cardinality(before)
         \/ Cardinality(after) = Cardinality(before) + 1
  BY <1>0, <1>1, <1>2, <1>3, <1>4
<1>6. Cardinality(after) \in Nat /\ Cardinality(before) <= Cardinality(after)
  BY <1>0, <1>5
<1>7. QED
  BY <1>0, <1>1, <1>4, <1>5, <1>6 DEF before, after

LEMMA OnlyLimitedGets429 ==
    ASSUME ReadInv, ApiNext, NEW t \in Requests, status'[t] = 429
    PROVE  status[t] = 429 \/ Limited(t)
<1> DEFINE Goal == status[t] = 429 \/ Limited(t)
<1>0. RequestTypeOK
  BY DEF ReadInv, ApiTypeOK, RequestTypeOK
<1>1. CASE status'[t] = status[t]
  BY <1>1
<1>2. CASE OpenNextPointer \/ WriteNextPointer \/ WarmUp \/ Started \/ Scrape \/ Scraped \/ StoreWork
  BY <1>1, <1>2 DEF OpenNextPointer, WriteNextPointer, WarmUp, Started, Scrape, Scraped,
     StoreWork, requestVars
<1>3. CASE \E b \in Buckets : WindowEnds(b)
  BY <1>1, <1>3 DEF WindowEnds, requestVars
<1>4. ASSUME NEW u \in Requests, u # t, Arrive(u) \/ ServeRequest(u) PROVE Goal
  <2>1. status'[t] = status[t]
    BY <1>0, <1>4 DEF Arrive, ServeRequest, Reject, Accept, Limited, StartHandler, Finish, Send,
       Answer, RequestTypeOK
  <2>2. QED
    BY <1>1, <2>1
<1>5. CASE Arrive(t) \/ StartHandler(t) \/ Send(t)
  BY <1>1, <1>5 DEF Arrive, StartHandler, Send
<1>6. CASE Reject(t) \/ Accept(t)
  BY <1>0, <1>1, <1>6 DEF Reject, Accept, Answer, RequestTypeOK
<1>7. CASE Finish(t)
  <2>1. status'[t] = StatusOf(t)
    BY <1>0, <1>7 DEF Finish, Answer, RequestTypeOK
  <2>2. QED
    BY <2>1, StatusType
<1>8. QED
  BY <1>2, <1>3, <1>4, <1>5, <1>6, <1>7 DEF ApiNext, ServeRequest

\* A bucket stays, is emptied, or counts one handler that starts.
LEMMA BucketStep ==
    ASSUME ReadInv, ApiNext, NEW b \in Buckets
    PROVE  \/ bucket'[b] = bucket[b]
           \/ bucket'[b] = 0
           \/ /\ bucket'[b] = bucket[b] + 1
              /\ \E t \in Requests : StartHandler(t) /\ Bucket(t) = b
<1> DEFINE Goal == \/ bucket'[b] = bucket[b]
                   \/ bucket'[b] = 0
                   \/ /\ bucket'[b] = bucket[b] + 1
                      /\ \E t \in Requests : StartHandler(t) /\ Bucket(t) = b
<1>0. bucket \in [Buckets -> 0..Limit]
  BY DEF ReadInv, ApiTypeOK
<1>1. CASE bucket' = bucket
  BY <1>1
<1>2. CASE OpenNextPointer \/ WriteNextPointer \/ WarmUp \/ Started \/ Scrape \/ Scraped \/ StoreWork
  BY <1>1, <1>2 DEF OpenNextPointer, WriteNextPointer, WarmUp, Started, Scrape, Scraped,
     StoreWork, limitVars
<1>3. ASSUME NEW c \in Buckets, WindowEnds(c) PROVE Goal
  BY <1>0, <1>3 DEF WindowEnds
<1>4. ASSUME NEW t \in Requests, Arrive(t) \/ Reject(t) \/ Accept(t) \/ Limited(t) \/ Finish(t) \/ Send(t)
      PROVE  Goal
  BY <1>1, <1>4 DEF Arrive, Reject, Accept, Limited, Finish, Send, limitVars
<1>5. ASSUME NEW t \in Requests, StartHandler(t) PROVE Goal
  <2>1. \/ bucket' = bucket
        \/ bucket' = [bucket EXCEPT ![Bucket(t)] = @ + 1]
    BY <1>5 DEF StartHandler
  <2>2. QED
    BY <1>0, <1>5, <2>1
<1>6. QED
  BY <1>2, <1>3, <1>4, <1>5 DEF ApiNext, ServeRequest

LEMMA LimitStep ==
    ASSUME ReadInv, LimitInv, LimitedByOwnRequestsOnly, ApiNext
    PROVE  LimitInv' /\ LimitedByOwnRequestsOnly'
<1>0. bucket \in [Buckets -> 0..Limit] /\ Limit \in Nat /\ request' = request
  BY ApiAssumption, RestTypeStep DEF ReadInv, ApiTypeOK
<1>1. ASSUME NEW b \in Buckets
      PROVE  /\ IsFiniteSet(LetThrough(b[1], b[2])')
             /\ bucket'[b] <= Cardinality(LetThrough(b[1], b[2])')
  <2> DEFINE before == LetThrough(b[1], b[2])
             after  == LetThrough(b[1], b[2])'
  <2>1. IsFiniteSet(before) /\ bucket[b] <= Cardinality(before) /\ bucket[b] \in 0..Limit
    BY <1>0 DEF LimitInv
  <2>2. b = <<b[1], b[2]>>
    BY DEF Buckets
  <2>3. /\ IsFiniteSet(after)
        /\ Cardinality(before) \in Nat /\ Cardinality(after) \in Nat
        /\ Cardinality(before) <= Cardinality(after)
        /\ \A t \in Requests : StartHandler(t) /\ Bucket(t) = b =>
             Cardinality(after) = Cardinality(before) + 1
    BY <2>1, <2>2, LetThroughStep
  <2> HIDE DEF before, after
  <2>4. bucket'[b] <= Cardinality(after)
    BY <1>0, <2>1, <2>3, BucketStep
  <2>5. QED
    BY <2>3, <2>4 DEF after
<1>2. LimitInv'
  BY <1>1 DEF LimitInv
<1>3. ASSUME NEW t \in Requests, status'[t] = 429
      PROVE  Cardinality(LetThrough(Route(t), Caller(t))') >= Limit
  <2>1. PICK b \in Buckets : b = Bucket(t)
    BY BucketType DEF ReadInv
  <2>2. Route(t) = b[1] /\ Caller(t) = b[2]
    BY <2>1 DEF Bucket
  <2> DEFINE before == LetThrough(b[1], b[2])
             after  == LetThrough(b[1], b[2])'
  <2>3. IsFiniteSet(before) /\ bucket[b] <= Cardinality(before) /\ bucket[b] \in 0..Limit
    BY <1>0 DEF LimitInv
  <2>4. /\ Cardinality(before) \in Nat /\ Cardinality(after) \in Nat
        /\ Cardinality(before) <= Cardinality(after)
    BY <2>3, LetThroughStep
  <2>5. Cardinality(before) >= Limit
    <3>1. CASE status[t] = 429
      BY <2>2, <3>1 DEF LimitedByOwnRequestsOnly
    <3>2. CASE Limited(t)
      <4>1. bucket[b] >= Limit
        BY <2>1, <3>2 DEF Limited, OverLimit
      <4> HIDE DEF before
      <4>2. QED
        BY <1>0, <2>3, <2>4, <4>1
    <3>3. QED
      BY <1>3, <3>1, <3>2, OnlyLimitedGets429
  <2>6. LetThrough(Route(t), Caller(t))' = after
    BY <1>0, <2>2 DEF LetThrough, Route, Caller
  <2> HIDE DEF before, after
  <2>7. Cardinality(after) >= Limit
    BY <1>0, <2>4, <2>5
  <2>8. QED
    BY <2>6, <2>7
<1>4. LimitedByOwnRequestsOnly'
  BY <1>3 DEF LimitedByOwnRequestsOnly
<1>5. QED
  BY <1>2, <1>4

(***************************************************************************)
(* The invariant, and what it says.                                        *)
(***************************************************************************)
LEMMA AnswersOf == AnswersNeverGoBack <=> \A t \in Requests : AnswerInv(t)
BY DEF AnswersNeverGoBack, AnswerInv

LEMMA ApiInvInit == ApiInit => ApiInv
<1> SUFFICES ASSUME ApiInit PROVE ApiInv
  OBVIOUS
<1> USE ApiAssumption, RegistryAssumption
<1>0. 0 \in 0..NRuns /\ 0 \in 0..MaxScrapes /\ 0 \in 0..Limit /\ Requests \subseteq Threads
  BY DEF Requests
<1>1. StoreTypeInv
  BY StoreTypeInit DEF ApiInit
<1>2. ApiTypeOK
  BY <1>0 DEF ApiInit, ApiTypeOK
<1>3. RegistryInv
  BY DEF ApiInit, RegistryInit, RegistryInv, RegistryTypeOK, WholeRuns, PointsAtRun, EmptyRunDir,
     Contents
<1>4. Served = 0 /\ published = 0
  BY DEF ApiInit, StoreInit, Served
<1>5. ASSUME NEW t \in Threads PROVE LoadingInv(t) /\ ReplyInv(t)
  BY <1>4, NothingIsNoBundle DEF ApiInit, StoreInit, LoadingInv, ReplyInv
<1>6. ASSUME NEW t \in Requests PROVE RequestInv(t)
  BY <1>0, <1>4 DEF ApiInit, StoreInit, RequestInv
<1>7. AnswersNeverGoBack /\ LimitedByOwnRequestsOnly
  BY DEF ApiInit, AnswersNeverGoBack, LimitedByOwnRequestsOnly
<1>8. \A route, key : LetThrough(route, key) = {}
  BY DEF ApiInit, LetThrough, PassedLimit
<1>9. LimitInv
  <2>1. IsFiniteSet({}) /\ Cardinality({}) = 0
    BY FS_EmptySet
  <2>2. \A b \in Buckets : bucket[b] = 0
    BY DEF ApiInit
  <2>3. \A b \in Buckets : IsFiniteSet(LetThrough(b[1], b[2]))
                            /\ bucket[b] <= Cardinality(LetThrough(b[1], b[2]))
    BY <1>8, <2>1, <2>2
  <2>4. QED
    BY <2>3 DEF LimitInv
<1>10. QED
  BY <1>1, <1>2, <1>3, <1>4, <1>5, <1>6, <1>7, <1>9 DEF ApiInv

LEMMA ApiInvStep == ApiInv /\ [ApiNext]_apiVars => ApiInv'
<1> SUFFICES ASSUME ApiInv, [ApiNext]_apiVars PROVE ApiInv'
  OBVIOUS
<1>1. CASE ApiNext
  <2>1. ReadInv /\ AnswersNeverGoBack /\ LimitInv /\ LimitedByOwnRequestsOnly
    BY DEF ApiInv, ReadInv
  <2>2. ApiTypeOK'
    BY <1>1, <2>1, ApiTypeStep DEF ReadInv
  <2>3. StoreTypeInv' /\ RegistryInv'
    BY <1>1, <2>1, StoreTypesStep, RegistryStep DEF ReadInv, RegistryInv
  <2>4. Served' <= published' /\ \A t \in Threads : LoadingInv(t)'
    BY <1>1, <2>1, ForwardStep
  <2>5. \A t \in Threads : ReplyInv(t)'
    BY <1>1, <2>1, ReplyStep
  <2>6. \A t \in Requests : RequestInv(t)' /\ AnswerInv(t)'
    BY <1>1, <2>1, RequestStep, AnswersOf
  <2>7. AnswersNeverGoBack'
    BY <2>6 DEF AnswersNeverGoBack, AnswerInv
  <2>8. LimitInv' /\ LimitedByOwnRequestsOnly'
    BY <1>1, <2>1, LimitStep
  <2>9. QED
    BY <2>2, <2>3, <2>4, <2>5, <2>6, <2>7, <2>8 DEF ApiInv
<1>2. CASE UNCHANGED apiVars
  <2>1. UNCHANGED <<disk, pointer, cached, age, lock, at, force, found, loaded, reply>>
    BY <1>2 DEF apiVars, storeVars
  <2>2. UNCHANGED <<published, loop, request, stage, status, answered, floor, bucket, gauges,
                    scrapes>>
    BY <1>2 DEF apiVars, requestVars, limitVars, meterVars
  <2>3. ApiTypeOK' /\ StoreTypeInv' /\ RegistryInv'
    BY <2>1, <2>2 DEF ApiInv, ApiTypeOK, StoreTypeInv, StoreTypeOK, LoadControlInv, RegistryInv,
       RegistryTypeOK, WholeRuns, PointsAtRun
  <2>4. /\ Served' <= published'
        /\ \A t \in Threads : LoadingInv(t)' /\ ReplyInv(t)'
        /\ \A t \in Requests : RequestInv(t)'
    BY <2>1, <2>2 DEF ApiInv, Served, LoadingInv, ReplyInv, RequestInv
  <2>5. AnswersNeverGoBack'
    BY <2>2 DEF ApiInv, AnswersNeverGoBack
  <2>6. \A route, key : LetThrough(route, key)' = LetThrough(route, key)
    BY <2>2 DEF LetThrough, PassedLimit, Route, Caller
  <2>7. LimitInv'
    BY <2>2, <2>6 DEF ApiInv, LimitInv
  <2>8. LimitedByOwnRequestsOnly'
    BY <2>2, <2>6 DEF ApiInv, LimitedByOwnRequestsOnly, Route, Caller
  <2>9. QED
    BY <2>3, <2>4, <2>5, <2>7, <2>8 DEF ApiInv
<1>3. QED
  BY <1>1, <1>2

\* The inductive invariant of the process holds in every behaviour.
THEOREM ApiInvariant == ApiSpec => []ApiInv
BY ApiInvInit, ApiInvStep, PTL DEF ApiSpec

\* The state of the process keeps its types; no bucket counts past its limit.
THEOREM ApiTypeCorrect == ApiSpec => []ApiTypeOK
<1>1. ApiInv => ApiTypeOK
  BY DEF ApiInv
<1>2. QED
  BY ApiInvariant, <1>1, PTL

\* No request is answered from an older run than one that was answered before it came,
\* nor refused for want of artifacts once any was answered from them.
THEOREM ReadersSeeTimeMoveForward == ApiSpec => []AnswersNeverGoBack
<1>1. ApiInv => AnswersNeverGoBack
  BY DEF ApiInv
<1>2. QED
  BY ApiInvariant, <1>1, PTL

\* A 429 is always due to Limit requests of the same key on the same route.
THEOREM LimitsAreOnesOwn == ApiSpec => []LimitedByOwnRequestsOnly
<1>1. ApiInv => LimitedByOwnRequestsOnly
  BY DEF ApiInv
<1>2. QED
  BY ApiInvariant, <1>1, PTL

\* A scrape leaves the gauges at a run no older than any answer sent before it.
THEOREM ScrapesAreCurrent == ApiSpec => ScrapeShowsCurrentRun
<1>1. ApiInv /\ [ApiNext]_apiVars =>
        [loop = "scraping" /\ loop' = "free" => gauges' >= floor[Loop]]_apiVars
  <2> SUFFICES ASSUME ApiInv, ApiNext, loop = "scraping", loop' = "free"
               PROVE  gauges' >= floor[Loop]
    OBVIOUS
  <2>0. ReadInv
    BY DEF ApiInv, ReadInv
  <2>1. Scraped
    BY DEF ApiNext, ServeRequest, OpenNextPointer, WriteNextPointer, WarmUp, Started, Scrape,
       Arrive, Reject, Accept, Limited, StartHandler, Finish, Send, WindowEnds, StoreWork
  <2>2. /\ reply[Loop] # NoBundle /\ ReplyInv(Loop) /\ floor[Loop] \in 0..NRuns
        /\ NRuns \in Nat /\ gauges \in 0..NRuns /\ Served \in 0..NRuns
    BY <2>0, <2>1, NumbersOf DEF Scraped, LoopAnswered, ReadInv, ApiTypeOK
  <2>3. CASE reply[Loop] = LoadError
    BY <2>1, <2>2, <2>3 DEF Scraped, ReplyInv
  <2>4. CASE reply[Loop] # LoadError
    <3>1. reply[Loop] \in Bundles
      BY <2>0, <2>2, <2>4, NumbersOf, ReplyIds DEF ReadInv
    <3>2. reply[Loop].id \in floor[Loop]..Served /\ gauges' = reply[Loop].id
      BY <2>1, <2>2, <2>4, <3>1 DEF Scraped, ReplyInv
    <3>3. QED
      BY <2>2, <3>2
  <2>5. QED
    BY <2>3, <2>4
<1>2. QED
  BY ApiInvariant, <1>1, PTL DEF ApiSpec, ScrapeShowsCurrentRun
=============================================================================
