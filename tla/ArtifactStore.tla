---------------------------- MODULE ArtifactStore ----------------------------
(***************************************************************************)
(* inference/artifact_store.py: the cache through which an API replica     *)
(* sees the registry.  Each replica is a process with one store, one lock  *)
(* and several request threads; every request calls get() once.            *)
(*                                                                         *)
(* This module only reads disk and pointer.  The lock covers the whole of  *)
(* get(), but not the pipeline, so every file access is a step of its own. *)
(*                                                                         *)
(* Time is counted in ticks.  All the code compares is the age of a cache, *)
(* so age, capped just above the TTL, stands for the clock.                *)
(*                                                                         *)
(* An operator named for what it leaves out or gets wrong is a mutation of *)
(* the definition that follows it: no action uses it.                      *)
(***************************************************************************)
EXTENDS ArtifactRegistry

CONSTANTS
    Replicas,
    Threads,           \* request threads, over all replicas
    ReplicaOf,         \* the process each thread belongs to
    NoThread,
    NoBundle,          \* "nothing": an empty cache, or no reply yet
    LoadError,         \* ArtifactLoadError reached the caller
    TTL,               \* settings.cache_ttl_seconds, in ticks
    ForceFlags,        \* values callers pass for force_refresh
    RestartsAllowed    \* a replica may be restarted at any time

Bundles == [id : RunIds, part : [Required -> Jobs]]

ASSUME StoreAssumption ==
    /\ NoBundle \notin Bundles
    /\ LoadError \notin Bundles \cup {NoBundle}
    /\ ReplicaOf \in [Threads -> Replicas]
    /\ NoThread \notin Threads
    /\ TTL \in Nat
    /\ ForceFlags \subseteq BOOLEAN
    /\ RestartsAllowed \in BOOLEAN

VARIABLES
    cached,    \* _cached of every replica: a bundle or NoBundle
    age,       \* time.time() - _cached.loaded_at, in ticks, at most TTL + 1
    lock,      \* _lock: the thread inside get(), or NoThread
    at,        \* where each thread stands in get()
    force,     \* its force_refresh argument
    found,     \* the run directory it read from the pointer
    loaded,    \* the writers of the files it has loaded, in LoadOrder
    reply      \* what its last get() returned

storeVars == <<cached, age, lock, at, force, found, loaded, reply>>
registryVars == <<disk, pointer>>

Loading == {"pointer", "check", "load", "install"}

Mine(t) == cached[ReplicaOf[t]]

StoreInit ==
    /\ cached = [r \in Replicas |-> NoBundle]
    /\ age    = [r \in Replicas |-> 0]
    /\ lock   = [r \in Replicas |-> NoThread]
    /\ at     = [t \in Threads |-> "idle"]
    /\ force  = [t \in Threads |-> FALSE]
    /\ found  = [t \in Threads |-> NoPointer]
    /\ loaded = [t \in Threads |-> << >>]
    /\ reply  = [t \in Threads |-> NoBundle]

At(t, from, to) == at[t] = from /\ at' = [at EXCEPT ![t] = to]

(***************************************************************************)
(* get() returns (or raises): the lock is released and the thread is free. *)
(***************************************************************************)
Return(t, from, value) ==
    /\ At(t, from, "idle")
    /\ reply'  = [reply  EXCEPT ![t] = value]
    /\ lock'   = [lock   EXCEPT ![ReplicaOf[t]] = NoThread]
    /\ found'  = [found  EXCEPT ![t] = NoPointer]
    /\ loaded' = [loaded EXCEPT ![t] = << >>]

(***************************************************************************)
(* A request arrives and its handler calls get().                          *)
(***************************************************************************)
Call(t) ==
    /\ At(t, "idle", "waiting")
    /\ \E flag \in ForceFlags : force' = [force EXCEPT ![t] = flag]
    /\ reply' = [reply EXCEPT ![t] = NoBundle]
    /\ UNCHANGED <<registryVars, cached, age, lock, found, loaded>>

(***************************************************************************)
(* The lock is taken and the cache is judged: a fresh one is returned at   *)
(* once, a stale one is reloaded.                                          *)
(***************************************************************************)
StaleOnlyWhenEmpty(t) == Mine(t) = NoBundle \/ force[t]

Stale(t) ==
    \/ Mine(t) = NoBundle
    \/ force[t]
    \/ age[ReplicaOf[t]] > TTL

EnterWithoutLock(t) ==
    /\ IF Stale(t)
         THEN /\ At(t, "waiting", "pointer")
              /\ lock' = [lock EXCEPT ![ReplicaOf[t]] = t]
              /\ UNCHANGED <<found, loaded, reply>>
         ELSE Return(t, "waiting", Mine(t))
    /\ UNCHANGED <<registryVars, cached, age, force>>

Enter(t) ==
    /\ lock[ReplicaOf[t]] = NoThread
    /\ IF Stale(t)
         THEN /\ At(t, "waiting", "pointer")
              /\ lock' = [lock EXCEPT ![ReplicaOf[t]] = t]
              /\ UNCHANGED <<found, loaded, reply>>
         ELSE Return(t, "waiting", Mine(t))
    /\ UNCHANGED <<registryVars, cached, age, force>>

(***************************************************************************)
(* ArtifactLoadError inside get(): the stale cache is the answer if there  *)
(* is one.  Its loaded_at stays, so the next get() tries again.            *)
(***************************************************************************)
FailAlwaysRaises(t, from) ==
    /\ Return(t, from, LoadError)
    /\ UNCHANGED <<registryVars, cached, age, force>>

FailKeepsLock(t, from) ==
    /\ At(t, from, "idle")
    /\ reply' = [reply EXCEPT ![t] = LoadError]
    /\ UNCHANGED <<registryVars, cached, age, lock, force, found, loaded>>

Fail(t, from) ==
    /\ Return(t, from, IF Mine(t) = NoBundle THEN LoadError ELSE Mine(t))
    /\ UNCHANGED <<registryVars, cached, age, force>>

(***************************************************************************)
(* _read_pointer: a missing or unparsable latest.json is a load error.     *)
(***************************************************************************)
LoadPointerFromListing(t) ==
    \E id \in RunIds :
        /\ \A f \in Required : Exists(id, f)
        /\ At(t, "pointer", "check")
        /\ found' = [found EXCEPT ![t] = id]
        /\ UNCHANGED <<registryVars, cached, age, lock, force, loaded, reply>>

LoadPointer(t) ==
    IF PointsAtRun
      THEN /\ At(t, "pointer", "check")
           /\ found' = [found EXCEPT ![t] = pointer]
           /\ UNCHANGED <<registryVars, cached, age, lock, force, loaded, reply>>
      ELSE Fail(t, "pointer")

(***************************************************************************)
(* All five files must exist before any is opened.                         *)
(***************************************************************************)
CheckRequired(t) ==
    /\ at[t] = "check"
    /\ IF \A f \in Required : Exists(found[t], f)
         THEN /\ At(t, "check", "load")
              /\ UNCHANGED <<registryVars, cached, age, lock, force, found,
                             loaded, reply>>
         ELSE Fail(t, "check")

(***************************************************************************)
(* The next file is read; one that is being written, or was written by two *)
(* jobs at once, does not deserialize.                                     *)
(***************************************************************************)
LoadFileOfCurrentRun(t) ==
    /\ at[t] = "load"
    /\ PointsAtRun
    /\ LET n       == Len(loaded[t]) + 1
           content == disk[pointer][LoadOrder[n]]
       IN  /\ Readable(content)
           /\ At(t, "load", IF n = NRequired THEN "install" ELSE "load")
           /\ loaded' = [loaded EXCEPT ![t] = Append(@, content.by)]
           /\ UNCHANGED <<registryVars, cached, age, lock, force, found, reply>>

LoadFile(t) ==
    /\ at[t] = "load"
    /\ LET n       == Len(loaded[t]) + 1
           content == disk[found[t]][LoadOrder[n]]
       IN  IF Readable(content)
             THEN /\ At(t, "load", IF n = NRequired THEN "install" ELSE "load")
                  /\ loaded' = [loaded EXCEPT ![t] = Append(@, content.by)]
                  /\ UNCHANGED <<registryVars, cached, age, lock, force, found,
                                 reply>>
             ELSE Fail(t, "load")

(***************************************************************************)
(* loaded_at is stamped and the new bundle replaces the cached one whole.  *)
(***************************************************************************)
Bundle(id, writers) ==
    [id   |-> id,
     part |-> [f \in Required |->
                 writers[CHOOSE k \in 1..NRequired : LoadOrder[k] = f]]]

Install(t) ==
    LET bundle == Bundle(found[t], loaded[t])
    IN  /\ Return(t, "install", bundle)
        /\ cached' = [cached EXCEPT ![ReplicaOf[t]] = bundle]
        /\ age'    = [age    EXCEPT ![ReplicaOf[t]] = 0]
        /\ UNCHANGED <<registryVars, force>>

(***************************************************************************)
(* Time passes for every cache; the cap is the bound of the model.         *)
(***************************************************************************)
Ageing(r) == cached[r] # NoBundle /\ age[r] <= TTL

Tick ==
    /\ \E r \in Replicas : Ageing(r)
    /\ age' = [r \in Replicas |-> IF Ageing(r) THEN age[r] + 1 ELSE age[r]]
    /\ UNCHANGED <<registryVars, cached, lock, at, force, found, loaded, reply>>

(***************************************************************************)
(* The process is replaced: its cache, its lock and its requests are gone. *)
(***************************************************************************)
Reset(fun, r, value) ==
    [t \in Threads |-> IF ReplicaOf[t] = r THEN value ELSE fun[t]]

Restart(r) ==
    /\ RestartsAllowed
    /\ cached' = [cached EXCEPT ![r] = NoBundle]
    /\ age'    = [age    EXCEPT ![r] = 0]
    /\ lock'   = [lock   EXCEPT ![r] = NoThread]
    /\ at'     = Reset(at, r, "idle")
    /\ force'  = Reset(force, r, FALSE)
    /\ found'  = Reset(found, r, NoPointer)
    /\ loaded' = Reset(loaded, r, << >>)
    /\ reply'  = Reset(reply, r, NoBundle)
    /\ UNCHANGED registryVars

Load(t) == LoadPointer(t) \/ CheckRequired(t) \/ LoadFile(t) \/ Install(t)

StoreNext ==
    \/ \E t \in Threads : Call(t) \/ Enter(t) \/ Load(t)
    \/ Tick
    \/ \E r \in Replicas : Restart(r)

\* Type invariant of the store's state; a thread loads only while it holds the lock.
StoreTypeOK ==
    /\ cached \in [Replicas -> Bundles \cup {NoBundle}]
    /\ age \in [Replicas -> 0..(TTL + 1)]
    /\ lock \in [Replicas -> Threads \cup {NoThread}]
    /\ at \in [Threads -> {"idle", "waiting"} \cup Loading]
    /\ force \in [Threads -> BOOLEAN]
    /\ found \in [Threads -> RunIds \cup {NoPointer}]
    /\ loaded \in [Threads -> UNION {[1..n -> Jobs] : n \in 0..NRequired}]
    /\ reply \in [Threads -> Bundles \cup {NoBundle, LoadError}]
    /\ \A t \in Threads : at[t] \in Loading => lock[ReplicaOf[t]] = t

\* Where a thread stands in get() says what it has read so far.
LoadControlInv(t) ==
    /\ at[t] \in {"check", "load", "install"} => found[t] \in RunIds
    /\ at[t] \notin {"load", "install"} => loaded[t] = << >>
    /\ at[t] = "load" => Len(loaded[t]) < NRequired
    /\ at[t] = "install" => Len(loaded[t]) = NRequired

StoreTypeInv == StoreTypeOK /\ \A t \in Threads : LoadControlInv(t)
=============================================================================
