------------------------- MODULE ArtifactStoreProofs -------------------------
(***************************************************************************)
(* What get() keeps to by itself, whoever writes the registry: used by     *)
(* ServingProofs, where jobs write it, and by ApiServiceProofs, where one  *)
(* process reads it for its handlers.                                      *)
(***************************************************************************)
EXTENDS ArtifactStore, SequenceTheorems, TLAPS

(***************************************************************************)
(* Facts about the files a store loads, and the bundles it makes of them.  *)
(***************************************************************************)
LEMMA LoadOrderInjective ==
    \A k, m \in 1..NRequired : LoadOrder[k] = LoadOrder[m] => k = m
BY DEF LoadOrder, NRequired

LEMMA LoadOrderInRequired == \A k \in 1..NRequired : LoadOrder[k] \in Required
BY DEF Required

LEMMA RequiredInFiles == Required \subseteq Files
<1> SUFFICES ASSUME NEW k \in 1..NRequired PROVE LoadOrder[k] \in Files
  BY DEF Required
<1>1. /\ LoadOrder[1] = WriteOrder[2] /\ LoadOrder[2] = WriteOrder[3]
      /\ LoadOrder[3] = WriteOrder[4] /\ LoadOrder[4] = WriteOrder[6]
      /\ LoadOrder[5] = WriteOrder[7]
  BY DEF LoadOrder, WriteOrder
<1>2. k \in {1, 2, 3, 4, 5}
  BY DEF NRequired
<1>3. QED
  BY <1>1, <1>2 DEF Files, NFiles

\* What a thread has loaded is a sequence of writers, no longer than there are files.
Writers == UNION {[1..n -> Jobs] : n \in 0..NRequired}

LEMMA WritersAreSequences ==
    ASSUME NEW w \in Writers
    PROVE  /\ w \in Seq(Jobs)
           /\ Len(w) \in 0..NRequired
           /\ w \in [1..Len(w) -> Jobs]
<1>1. PICK n \in 0..NRequired : w \in [1..n -> Jobs]
  BY DEF Writers
<1>2. w \in Seq(Jobs)
  BY <1>1 DEF NRequired
<1>3. QED
  BY <1>1, <1>2 DEF NRequired

LEMMA OneMoreWriter ==
    ASSUME NEW w \in Writers, Len(w) < NRequired, NEW j \in Jobs
    PROVE  Append(w, j) \in Writers /\ Len(Append(w, j)) = Len(w) + 1
<1>1. w \in Seq(Jobs) /\ Len(w) \in 0..NRequired
  BY WritersAreSequences
<1>2. Append(w, j) \in [1..(Len(w) + 1) -> Jobs]
  BY <1>1, AppendProperties, LenProperties
<1>3. Len(w) + 1 \in 0..NRequired
  BY <1>1 DEF NRequired
<1>4. QED
  BY <1>1, <1>2, <1>3 DEF Writers

LEMMA BundleType ==
    ASSUME NEW id \in RunIds, NEW w \in Writers, Len(w) = NRequired
    PROVE  Bundle(id, w) \in Bundles
<1>1. w \in [1..NRequired -> Jobs]
  BY WritersAreSequences
<1>2. ASSUME NEW f \in Required
      PROVE  w[CHOOSE k \in 1..NRequired : LoadOrder[k] = f] \in Jobs
  <2>1. \E k \in 1..NRequired : LoadOrder[k] = f
    BY DEF Required
  <2>2. (CHOOSE k \in 1..NRequired : LoadOrder[k] = f) \in 1..NRequired
    BY <2>1
  <2>3. QED
    BY <1>1, <2>2
<1>3. QED
  BY <1>2 DEF Bundle, Bundles

LEMMA BundleOfOneWriter ==
    ASSUME NEW id, NEW w \in Writers, Len(w) = NRequired,
           NEW j, \A n \in 1..NRequired : w[n] = j
    PROVE  Bundle(id, w) = [id |-> id, part |-> [f \in Required |-> j]]
<1>1. ASSUME NEW f \in Required
      PROVE  w[CHOOSE k \in 1..NRequired : LoadOrder[k] = f] = j
  <2>1. \E k \in 1..NRequired : LoadOrder[k] = f
    BY DEF Required
  <2>2. (CHOOSE k \in 1..NRequired : LoadOrder[k] = f) \in 1..NRequired
    BY <2>1
  <2>3. QED
    BY <2>2
<1>2. QED
  BY <1>1 DEF Bundle

(***************************************************************************)
(* Types of the store, and what a thread's place in get() says.            *)
(***************************************************************************)
LEMMA NothingLoaded == << >> \in Writers
<1>1. << >> \in [1..0 -> Jobs] /\ 0 \in 0..NRequired
  BY DEF NRequired
<1>2. QED
  BY <1>1 DEF Writers

LEMMA StoreTypeInit == StoreInit => StoreTypeInv
BY StoreAssumption, NothingLoaded
   DEF StoreInit, StoreTypeInv, StoreTypeOK, LoadControlInv, Loading, Writers

\* get() returns: nobody else of the replica is loading, and the thread is done.
LEMMA ReturnType ==
    ASSUME StoreTypeInv, NEW t \in Threads, NEW from,
           NEW value \in Bundles \cup {NoBundle, LoadError},
           Return(t, from, value), lock[ReplicaOf[t]] \in {t, NoThread}, UNCHANGED force,
           cached' \in [Replicas -> Bundles \cup {NoBundle}],
           age' \in [Replicas -> 0..(TTL + 1)]
    PROVE  StoreTypeInv'
<1> USE StoreAssumption
<1>1. /\ lock' \in [Replicas -> Threads \cup {NoThread}]
      /\ at' \in [Threads -> {"idle", "waiting"} \cup Loading]
      /\ found' \in [Threads -> RunIds \cup {NoPointer}]
      /\ reply' \in [Threads -> Bundles \cup {NoBundle, LoadError}]
  BY DEF Return, At, StoreTypeInv, StoreTypeOK
<1>2. loaded' \in [Threads -> Writers]
  BY NothingLoaded DEF Return, StoreTypeInv, StoreTypeOK, Writers
<1>3. ASSUME NEW u \in Threads PROVE at'[u] \in Loading => lock'[ReplicaOf[u]] = u
  BY DEF Return, At, StoreTypeInv, StoreTypeOK, Loading
<1>4. ASSUME NEW u \in Threads PROVE LoadControlInv(u)'
  BY DEF Return, At, StoreTypeInv, StoreTypeOK, LoadControlInv, Loading
<1>5. QED
  BY <1>1, <1>2, <1>3, <1>4 DEF StoreTypeInv, StoreTypeOK, Writers

LEMMA FailType ==
    ASSUME StoreTypeInv, NEW t \in Threads, NEW from, Fail(t, from),
           lock[ReplicaOf[t]] \in {t, NoThread}
    PROVE  StoreTypeInv'
<1>1. Mine(t) \in Bundles \cup {NoBundle}
  BY StoreAssumption DEF Mine, StoreTypeInv, StoreTypeOK
<1>2. QED
  BY <1>1, ReturnType DEF Fail, StoreTypeInv, StoreTypeOK

LEMMA StoreTypeStep ==
    ASSUME RegistryTypeOK, StoreTypeInv, StoreNext
    PROVE  StoreTypeInv'
<1> USE StoreAssumption
<1>1. ASSUME NEW t \in Threads, Call(t) PROVE StoreTypeInv'
  <2>1. /\ at[t] = "idle" /\ at' = [at EXCEPT ![t] = "waiting"]
        /\ reply' = [reply EXCEPT ![t] = NoBundle]
        /\ UNCHANGED <<cached, age, lock, found, loaded>>
    BY <1>1 DEF Call, At
  <2>2. PICK flag \in ForceFlags : force' = [force EXCEPT ![t] = flag]
    BY <1>1 DEF Call
  <2>3. force' \in [Threads -> BOOLEAN]
    BY <2>2 DEF StoreTypeInv, StoreTypeOK
  <2>4. ASSUME NEW u \in Threads PROVE LoadControlInv(u)'
    BY <2>1 DEF StoreTypeInv, StoreTypeOK, LoadControlInv
  <2>5. /\ at' \in [Threads -> {"idle", "waiting"} \cup Loading]
        /\ reply' \in [Threads -> Bundles \cup {NoBundle, LoadError}]
        /\ \A u \in Threads : at'[u] \in Loading => at[u] \in Loading
    BY <2>1 DEF StoreTypeInv, StoreTypeOK, Loading
  <2>6. StoreTypeOK'
    BY <2>1, <2>3, <2>5 DEF StoreTypeInv, StoreTypeOK
  <2>7. QED
    BY <2>4, <2>6 DEF StoreTypeInv
<1>2. ASSUME NEW t \in Threads, Enter(t) PROVE StoreTypeInv'
  <2>1. CASE Stale(t)
    <3>1. /\ at[t] = "waiting" /\ at' = [at EXCEPT ![t] = "pointer"]
          /\ lock[ReplicaOf[t]] = NoThread /\ lock' = [lock EXCEPT ![ReplicaOf[t]] = t]
          /\ UNCHANGED <<cached, age, force, found, loaded, reply>>
      BY <1>2, <2>1 DEF Enter, At
    <3>2. ASSUME NEW u \in Threads PROVE LoadControlInv(u)'
      BY <3>1 DEF StoreTypeInv, StoreTypeOK, LoadControlInv
    <3>3. ASSUME NEW u \in Threads PROVE at'[u] \in Loading => lock'[ReplicaOf[u]] = u
      BY <3>1 DEF StoreTypeInv, StoreTypeOK, Loading
    <3>4. StoreTypeOK'
      BY <3>1, <3>3 DEF StoreTypeInv, StoreTypeOK, Loading
    <3>5. QED
      BY <3>2, <3>4 DEF StoreTypeInv
  <2>2. CASE ~Stale(t)
    <3>1. Mine(t) \in Bundles \cup {NoBundle, LoadError}
      BY DEF Mine, StoreTypeInv, StoreTypeOK
    <3>2. QED
      BY <1>2, <2>2, <3>1, ReturnType DEF Enter, StoreTypeInv, StoreTypeOK
  <2>3. QED
    BY <2>1, <2>2
<1>3. ASSUME NEW t \in Threads, LoadPointer(t) PROVE StoreTypeInv'
  <2>1. CASE PointsAtRun
    <3>1. /\ at[t] = "pointer" /\ at' = [at EXCEPT ![t] = "check"]
          /\ found' = [found EXCEPT ![t] = pointer] /\ pointer \in RunIds
          /\ UNCHANGED <<cached, age, lock, force, loaded, reply>>
      BY <1>3, <2>1 DEF LoadPointer, PointsAtRun, At
    <3>2. ASSUME NEW u \in Threads PROVE LoadControlInv(u)'
      BY <3>1 DEF StoreTypeInv, StoreTypeOK, LoadControlInv
    <3>3. StoreTypeOK'
      BY <3>1 DEF StoreTypeInv, StoreTypeOK, Loading
    <3>4. QED
      BY <3>2, <3>3 DEF StoreTypeInv
  <2>2. CASE ~PointsAtRun
    <3>1. Fail(t, "pointer") /\ lock[ReplicaOf[t]] = t
      BY <1>3, <2>2 DEF LoadPointer, Fail, Return, At, StoreTypeInv, StoreTypeOK, Loading
    <3>2. QED
      BY <3>1, FailType
  <2>3. QED
    BY <2>1, <2>2
<1>4. ASSUME NEW t \in Threads, CheckRequired(t) PROVE StoreTypeInv'
  <2>1. CASE ~\A f \in Required : Exists(found[t], f)
    <3>1. Fail(t, "check") /\ lock[ReplicaOf[t]] = t
      BY <1>4, <2>1 DEF CheckRequired, StoreTypeInv, StoreTypeOK, Loading
    <3>2. QED
      BY <3>1, FailType
  <2>2. CASE \A f \in Required : Exists(found[t], f)
    <3>1. /\ at[t] = "check" /\ at' = [at EXCEPT ![t] = "load"]
          /\ UNCHANGED <<cached, age, lock, force, found, loaded, reply>>
      BY <1>4, <2>2 DEF CheckRequired, At
    <3>2. ASSUME NEW u \in Threads PROVE LoadControlInv(u)'
      BY <3>1 DEF StoreTypeInv, StoreTypeOK, LoadControlInv, NRequired
    <3>3. StoreTypeOK'
      BY <3>1 DEF StoreTypeInv, StoreTypeOK, Loading
    <3>4. QED
      BY <3>2, <3>3 DEF StoreTypeInv
  <2>3. QED
    BY <2>1, <2>2
<1>5. ASSUME NEW t \in Threads, LoadFile(t) PROVE StoreTypeInv'
  <2> DEFINE n       == Len(loaded[t]) + 1
             content == disk[found[t]][LoadOrder[n]]
  <2>1. /\ at[t] = "load" /\ lock[ReplicaOf[t]] = t /\ found[t] \in RunIds
        /\ loaded[t] \in Writers /\ Len(loaded[t]) < NRequired
    BY <1>5 DEF LoadFile, StoreTypeInv, StoreTypeOK, LoadControlInv, Loading, Writers
  <2>2. n \in 1..NRequired
    BY <2>1, WritersAreSequences DEF NRequired
  <2>3. content \in Contents
    BY <2>1, <2>2, LoadOrderInRequired, RequiredInFiles DEF RegistryTypeOK
  <2>4. CASE Readable(content)
    <3>1. content.by \in Jobs
      BY <2>3, <2>4 DEF Contents, Readable, Absent
    <3>2. Append(loaded[t], content.by) \in Writers /\ Len(Append(loaded[t], content.by)) = n
      BY <2>1, <3>1, OneMoreWriter
    <3>3. /\ at' = [at EXCEPT ![t] = IF n = NRequired THEN "install" ELSE "load"]
          /\ loaded' = [loaded EXCEPT ![t] = Append(@, content.by)]
          /\ UNCHANGED <<cached, age, lock, force, found, reply>>
      BY <1>5, <2>4 DEF LoadFile, At
    <3>4. loaded' \in [Threads -> Writers] /\ Len(loaded'[t]) = n
      BY <3>2, <3>3 DEF StoreTypeInv, StoreTypeOK, Writers
    <3>5. StoreTypeOK'
      BY <2>1, <3>3, <3>4 DEF StoreTypeInv, StoreTypeOK, Loading, Writers
    <3>6. ASSUME NEW u \in Threads PROVE LoadControlInv(u)'
      BY <2>1, <2>2, <3>3, <3>4 DEF StoreTypeInv, StoreTypeOK, LoadControlInv, NRequired
    <3>7. QED
      BY <3>5, <3>6 DEF StoreTypeInv
  <2>5. CASE ~Readable(content)
    BY <1>5, <2>1, <2>5, FailType DEF LoadFile
  <2>6. QED
    BY <2>4, <2>5
<1>6. ASSUME NEW t \in Threads, Install(t) PROVE StoreTypeInv'
  <2>1. /\ at[t] = "install" /\ lock[ReplicaOf[t]] = t /\ found[t] \in RunIds
        /\ loaded[t] \in Writers /\ Len(loaded[t]) = NRequired
    BY <1>6 DEF Install, Return, At, StoreTypeInv, StoreTypeOK, LoadControlInv, Loading, Writers
  <2>2. Bundle(found[t], loaded[t]) \in Bundles
    BY <2>1, BundleType
  <2>3. /\ cached' \in [Replicas -> Bundles \cup {NoBundle}]
        /\ age' \in [Replicas -> 0..(TTL + 1)]
    BY <1>6, <2>2 DEF Install, StoreTypeInv, StoreTypeOK
  <2>4. QED
    BY <1>6, <2>1, <2>2, <2>3, ReturnType DEF Install
<1>7. CASE Tick
  BY <1>7 DEF Tick, Ageing, StoreTypeInv, StoreTypeOK, LoadControlInv, Loading
<1>8. ASSUME NEW r \in Replicas, Restart(r) PROVE StoreTypeInv'
  <2>1. ASSUME NEW t \in Threads
        PROVE  /\ at'[t] \in Loading => lock'[ReplicaOf[t]] = t
               /\ LoadControlInv(t)'
    BY <1>8 DEF Restart, Reset, StoreTypeInv, StoreTypeOK, LoadControlInv, Loading
  <2>2. loaded' \in [Threads -> Writers]
    BY <1>8, NothingLoaded DEF Restart, Reset, StoreTypeInv, StoreTypeOK, Writers
  <2>3. /\ cached' \in [Replicas -> Bundles \cup {NoBundle}]
        /\ age' \in [Replicas -> 0..(TTL + 1)]
    BY <1>8 DEF Restart, StoreTypeInv, StoreTypeOK
  <2>4. lock' \in [Replicas -> Threads \cup {NoThread}]
    BY <1>8 DEF Restart, StoreTypeInv, StoreTypeOK
  <2>5. /\ at' \in [Threads -> {"idle", "waiting"} \cup Loading]
        /\ force' \in [Threads -> BOOLEAN]
    BY <1>8 DEF Restart, Reset, StoreTypeInv, StoreTypeOK
  <2>6. /\ found' \in [Threads -> RunIds \cup {NoPointer}]
        /\ reply' \in [Threads -> Bundles \cup {NoBundle, LoadError}]
    BY <1>8 DEF Restart, Reset, StoreTypeInv, StoreTypeOK
  <2>7. QED
    BY <2>1, <2>2, <2>3, <2>4, <2>5, <2>6 DEF StoreTypeInv, StoreTypeOK, Writers
<1>9. QED
  BY <1>1, <1>2, <1>3, <1>4, <1>5, <1>6, <1>7, <1>8 DEF StoreNext, Load

\* A store only reads the registry.
LEMMA StoreOnlyReads == StoreNext => UNCHANGED registryVars
BY DEF StoreNext, Call, Enter, Load, LoadPointer, CheckRequired, LoadFile, Install, Fail, Tick,
   Restart, registryVars

(***************************************************************************)
(* Once served, no error.  Only Fail answers with LoadError, and only for  *)
(* a replica whose cache is empty.                                         *)
(***************************************************************************)
LEMMA ReplyIsNoError ==
    ASSUME StoreTypeInv, StoreNext, NEW t \in Threads,
           Mine(t) # NoBundle, reply'[t] # reply[t]
    PROVE  reply'[t] # LoadError
<1> USE StoreAssumption
<1> /\ reply \in [Threads -> Bundles \cup {NoBundle, LoadError}]
    /\ cached \in [Replicas -> Bundles \cup {NoBundle}]
  BY DEF StoreTypeInv, StoreTypeOK
<1>1. Mine(t) # LoadError
  BY DEF Mine
<1>2. ASSUME NEW u \in Threads, NEW from, Fail(u, from) PROVE reply'[t] # LoadError
  BY <1>1, <1>2 DEF Fail, Return
<1>3. ASSUME NEW u \in Threads, Call(u) PROVE reply'[t] # LoadError
  BY <1>3 DEF Call
<1>4. ASSUME NEW u \in Threads, Enter(u) PROVE reply'[t] # LoadError
  BY <1>1, <1>4 DEF Enter, Return
<1>5. ASSUME NEW u \in Threads, LoadPointer(u) \/ CheckRequired(u) \/ LoadFile(u)
      PROVE  reply'[t] # LoadError
  BY <1>2, <1>5 DEF LoadPointer, CheckRequired, LoadFile
<1>6. ASSUME NEW u \in Threads, Install(u) PROVE reply'[t] # LoadError
  <2>1. /\ at[u] = "install" /\ reply' = [reply EXCEPT ![u] = Bundle(found[u], loaded[u])]
    BY <1>6 DEF Install, Return, At
  <2>2. /\ found[u] \in RunIds /\ loaded[u] \in Writers /\ Len(loaded[u]) = NRequired
    BY <2>1 DEF StoreTypeInv, StoreTypeOK, LoadControlInv, Writers
  <2>3. Bundle(found[u], loaded[u]) # LoadError
    BY <2>2, BundleType
  <2>4. QED
    BY <2>1, <2>3
<1>7. ASSUME NEW r \in Replicas, Restart(r) PROVE reply'[t] # LoadError
  BY <1>7 DEF Restart, Reset
<1>8. CASE Tick
  BY <1>8 DEF Tick
<1>9. QED
  BY <1>3, <1>4, <1>5, <1>6, <1>7, <1>8 DEF StoreNext, Load
=============================================================================
