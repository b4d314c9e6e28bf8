------------------------------ MODULE Settings ------------------------------
(***************************************************************************)
(* How processes come by their settings (config/settings.py and            *)
(* config/secrets.py).  An API replica builds them when inference.api is   *)
(* imported and dies if that fails, to be started again; a training job    *)
(* builds them when run_pipeline begins, and runs once.  Both keep what    *)
(* they built (lru_cache) while, around them, secrets are rotated, the     *)
(* secrets backend comes and goes and the rules file is edited.            *)
(*                                                                         *)
(* An operator named for what it leaves out or gets wrong is a mutation of *)
(* the definition that follows it: no action uses it.                      *)
(***************************************************************************)
EXTENDS Integers, Sequences

CONSTANTS
    Replicas, Jobs,
    Deployments,    \* how the system may be configured, see below
    Rules,          \* the rules that a readable business_rules.yaml may hold
    MaxKills,       \* bound: how often a replica is stopped and started again
    Keys, NoField, Defaults

Processes == Replicas \cup Jobs

(***************************************************************************)
(* A deployment: its secrets backend; how PCI_API_KEYS is written, and     *)
(* what it holds when another backend is used; and the successive versions *)
(* of the secrets (of the environment, when that is the backend).  A       *)
(* version's keys are a text, as get() promises; {} is one that is not     *)
(* empty but lists nothing, blanks or commas.                              *)
(*                                                                         *)
(* PCI_API_KEYS is a JSON array ("list"), a JSON string with the keys      *)
(* between commas ("string"), or as auth.py says, the keys between commas  *)
(* and no more ("comma").                                                  *)
(*                                                                         *)
(* Every image has its copy of business_rules.yaml; no property relates    *)
(* what two processes read in it, so one stands for all.  One that sets    *)
(* only one of the mappings is among the Rules.  A missing, empty or       *)
(* malformed one is "unreadable"; one whose mappings or numbers are none   *)
(* is "bad".                                                               *)
(***************************************************************************)
Backends == {"env", "remote"}
Forms    == {"unset", "list", "string", "comma"}
Contents == Rules \cup {"unreadable", "bad"}
DSNs     == (UNION {{d.secrets[n].dsn : n \in DOMAIN d.secrets} : d \in Deployments}) \ {NoField}
Secrets  == [keys : {NoField} \cup SUBSET Keys, dsn : {NoField} \cup DSNs]

ASSUME SettingsAssumption ==
    /\ Replicas \cap Jobs = {} /\ MaxKills \in Nat
    /\ {Defaults, "unreadable", "bad"} \cap Rules = {} /\ NoField \notin Keys
    /\ \A d \in Deployments :
         /\ d.backend \in Backends /\ d.form \in Forms /\ d.envKeys \subseteq Keys
         /\ d.secrets \in Seq(Secrets) /\ d.secrets # <<>>

VARIABLES
    deployment,
    current,    \* the version of the secrets that is in place
    reachable,  \* the secrets backend answers
    rules,      \* what business_rules.yaml holds
    client,     \* the key that the API's clients use
    pc,         \* how far a process has come
    started,    \* replicas started since the secrets last changed
    loader,     \* SecretsLoader._cache: a version, or 0
    keys, dsn,  \* settings.api_keys and settings.postgis_dsn
    obeyed,     \* the rules in settings' two mappings
    kills

world   == <<deployment, current, reachable, rules, client>>
process == <<pc, started, loader, keys, dsn, obeyed, kills>>
setVars == <<world, process>>

(***************************************************************************)
(* The environment source.  pydantic-settings (external) decodes the value *)
(* of a set-valued field as JSON before any validator sees it, so that the *)
(* comma-separated form, like an empty value, raises.  _parse_api_keys     *)
(* splits a string; a list is none of the types it knows, and becomes the  *)
(* empty set.                                                              *)
(***************************************************************************)
Given(new, old) == IF new = NoField THEN old ELSE new

\* What PCI_API_KEYS lists under a version, and what is made of it.
Listed(n) ==
    CASE deployment.form = "unset"  -> {}
      [] deployment.backend = "env" -> Given(deployment.secrets[n].keys, {})
      [] OTHER                      -> deployment.envKeys

KeysFromEnvironment(n) == IF deployment.form = "list" THEN {} ELSE Listed(n)

DsnFromEnvironment(n) ==
    IF deployment.backend = "env" THEN Given(deployment.secrets[n].dsn, Defaults) ELSE Defaults

\* The keys that a process ends up with under a version.
KeysOf(n) ==
    IF deployment.backend = "env" THEN KeysFromEnvironment(n)
    ELSE Given(deployment.secrets[n].keys, KeysFromEnvironment(n))

\* The keys that operators wrote for it, whatever the code makes of them; clients are
\* given one of these, and any key will do if there is none.
Written(n) ==
    IF deployment.backend = "env" \/ deployment.secrets[n].keys \in {NoField, {}}
      THEN Listed(n) ELSE deployment.secrets[n].keys

KeysInForce(n) == IF Written(n) = {} THEN Keys ELSE Written(n)

SettingsInit ==
    /\ deployment \in Deployments
    /\ current   = 1
    /\ reachable = TRUE
    /\ rules \in Rules
    /\ client \in KeysInForce(1)
    /\ pc       = [p \in Processes |-> "down"]
    /\ started  = {}
    /\ loader   = [p \in Processes |-> 0]
    /\ keys     = [p \in Processes |-> {}]
    /\ dsn      = [p \in Processes |-> Defaults]
    /\ obeyed   = [p \in Processes |-> Defaults]
    /\ kills    = 0

\* The process ends, and what it held is gone.
End(p, how) ==
    /\ pc'     = [pc EXCEPT ![p] = how]
    /\ loader' = [loader EXCEPT ![p] = 0]
    /\ keys'   = [keys EXCEPT ![p] = {}]
    /\ dsn'    = [dsn EXCEPT ![p] = Defaults]
    /\ obeyed' = [obeyed EXCEPT ![p] = Defaults]

Fail(p) == End(p, "failed")

Begin(p) ==
    /\ IF deployment.form = "comma"
         THEN Fail(p)
         ELSE /\ pc'     = [pc EXCEPT ![p] = IF deployment.backend = "env" THEN "rules" ELSE "keys"]
              /\ keys'   = [keys EXCEPT ![p] = KeysFromEnvironment(current)]
              /\ dsn'    = [dsn EXCEPT ![p] = DsnFromEnvironment(current)]
              /\ UNCHANGED <<loader, obeyed>>
    /\ started' = started \cup ({p} \cap Replicas)
    /\ UNCHANGED <<world, kills>>

\* A replica that failed to start is started again; a job that failed is not.
StartWithoutRestart(p) == pc[p] = "down" /\ Begin(p)

Start(p) ==
    /\ pc[p] = "down" \/ (p \in Replicas /\ pc[p] = "failed")
    /\ Begin(p)

(***************************************************************************)
(* _load_from_secrets_backend: two fields are got from a loader, which     *)
(* fetches the secrets when it has none, or raises SecretsLoadError.       *)
(***************************************************************************)
FetchEveryTime(p) == IF reachable THEN current ELSE 0

Load(p) ==
    IF loader[p] # 0 THEN loader[p] ELSE IF reachable THEN current ELSE 0

OverriddenUnlessSet(p, new) == IF keys[p] # {} THEN keys[p] ELSE Given(new, {})

Overridden(p, new) == Given(new, keys[p])

OutageIgnored(p) ==
    pc' = [pc EXCEPT ![p] = "rules"] /\ UNCHANGED <<loader, keys, dsn, obeyed>>

Outage(p) == Fail(p)

GetKeys(p) ==
    /\ pc[p] = "keys"
    /\ IF Load(p) = 0
         THEN Outage(p)
         ELSE /\ loader' = [loader EXCEPT ![p] = Load(p)]
              /\ keys'   = [keys EXCEPT ![p] =
                              Overridden(p, deployment.secrets[Load(p)].keys)]
              /\ pc'     = [pc EXCEPT ![p] = "dsn"]
              /\ UNCHANGED <<dsn, obeyed>>
    /\ UNCHANGED <<world, started, kills>>

GetDsn(p) ==
    /\ pc[p] = "dsn"
    /\ IF Load(p) = 0
         THEN Outage(p)
         ELSE /\ loader' = [loader EXCEPT ![p] = 0]
              /\ dsn'    = [dsn EXCEPT ![p] = Given(deployment.secrets[Load(p)].dsn, @)]
              /\ pc'     = [pc EXCEPT ![p] = "rules"]
              /\ UNCHANGED <<keys, obeyed>>
    /\ UNCHANGED <<world, started, kills>>

(***************************************************************************)
(* _load_business_rules: what cannot be read is a warning and leaves the   *)
(* defaults, what is read but makes no sense raises.                       *)
(***************************************************************************)
MappingsAsRead == rules

Mappings == IF rules \in Rules THEN rules ELSE Defaults

ReadRules(p) ==
    /\ pc[p] = "rules"
    /\ IF rules = "bad"
         THEN Fail(p)
         ELSE /\ obeyed' = [obeyed EXCEPT ![p] = Mappings]
              /\ pc'     = [pc EXCEPT ![p] = "up"]
              /\ UNCHANGED <<loader, keys, dsn>>
    /\ UNCHANGED <<world, started, kills>>

\* verify_api_key, by the settings of the replica that is asked.
Accepts(r, key) == keys[r] = {} \/ key \in keys[r]

(***************************************************************************)
(* Around the processes.  Keys are rotated as auth.py says: the new key is *)
(* added, replicas are started again, clients change over once every       *)
(* replica was, and only then is the old key removed.                      *)
(***************************************************************************)
Kill(r) ==
    /\ pc[r] \notin {"down", "failed"} /\ kills < MaxKills
    /\ kills' = kills + 1
    /\ End(r, "down")
    /\ UNCHANGED <<world, started>>

Rotate ==
    /\ current < Len(deployment.secrets)
    /\ client \in KeysInForce(current + 1)
    /\ current' = current + 1
    /\ started' = {}
    /\ UNCHANGED <<deployment, reachable, rules, client, pc, loader, keys, dsn, obeyed, kills>>

ChangeOver ==
    /\ \A r \in Replicas : pc[r] \in {"down", "failed"} \/ r \in started
    /\ \E key \in KeysInForce(current) \ {client} : client' = key
    /\ UNCHANGED <<deployment, current, reachable, rules, process>>

BackendChanges ==
    /\ deployment.backend = "remote"
    /\ reachable' = ~reachable
    /\ UNCHANGED <<deployment, current, rules, client, process>>

EditRules ==
    /\ rules' \in Contents \ {rules}
    /\ UNCHANGED <<deployment, current, reachable, client, process>>

StartUp(p) == Start(p) \/ GetKeys(p) \/ GetDsn(p) \/ ReadRules(p)

SettingsNext ==
    \/ \E p \in Processes : StartUp(p)
    \/ \E r \in Replicas : Kill(r)
    \/ Rotate \/ ChangeOver \/ BackendChanges \/ EditRules

(***************************************************************************)
(* Fairness: a replica that is not up is started, and its start goes on    *)
(* (restart: unless-stopped).  Nothing around it has to happen.            *)
(***************************************************************************)
SettingsSpec ==
    /\ SettingsInit /\ [][SettingsNext]_setVars
    /\ \A r \in Replicas : WF_setVars(StartUp(r))

(***************************************************************************)
(*                               Properties                                *)
(***************************************************************************)
\* Type invariant: only a file that could be read is obeyed, else the defaults are.
SettingsTypeOK ==
    /\ current \in 1..Len(deployment.secrets) /\ reachable \in BOOLEAN
    /\ rules \in Contents /\ client \in Keys
    /\ pc \in [Processes -> {"down", "failed", "keys", "dsn", "rules", "up"}]
    /\ started \subseteq Replicas /\ loader \in [Processes -> 0..current]
    /\ keys \in [Processes -> SUBSET Keys] /\ dsn \in [Processes -> DSNs \cup {Defaults}]
    /\ obeyed \in [Processes -> Rules \cup {Defaults}]

\* Secrets that are rotated while a process reads them, field by field, are never mixed:
\* its keys and its DSN are those of one version.
SecretsFromOneVersion ==
    \A p \in Processes :
        deployment.backend = "remote" /\ pc[p] = "up" =>
            \E n \in 1..current :
                /\ keys[p] = Given(deployment.secrets[n].keys, KeysFromEnvironment(n))
                /\ dsn[p]  = Given(deployment.secrets[n].dsn, Defaults)

\* No outage, kill or rotation opens a replica: one that is up without authentication
\* resolved some version of the secrets, whole, and that version resolves to no keys.
NoOutageOpensReplica ==
    \A r \in Replicas : pc[r] = "up" /\ keys[r] = {} => \E n \in 1..current : KeysOf(n) = {}

\* "if PCI_API_KEYS is empty (not set), all requests pass through" (auth.py), and only
\* then: a replica without authentication is one for which no keys were written.
WrittenKeysAreEnforced ==
    \A r \in Replicas : pc[r] = "up" /\ keys[r] = {} => \E n \in 1..current : Written(n) = {}

\* Keys are rotated without downtime: replicas that start at any time, before, between or
\* after the changes, and whatever old keys their environment still holds, do not refuse
\* the key that clients were given; and one started since a key was removed no longer
\* takes it.  It speaks of replicas that come up (with the keys in the "comma" form of
\* auth.py none does) and of keys that are resolved (a "list" is not).
KeyRotationHasNoDowntime ==
    \A r \in Replicas : pc[r] = "up" =>
        /\ Accepts(r, client)
        /\ r \in started /\ KeysOf(current) # {} =>
              \A key \in Keys \ KeysOf(current) : ~Accepts(r, key)

\* Unless PCI_API_KEYS is in the form that cannot be parsed, a replica recovers from any
\* outage of the backend and from any edit of the rules that is put right.
ReplicaComesUp ==
    deployment.form # "comma" =>
        \A r \in Replicas :
            <>[](reachable /\ rules # "bad") => <>[](pc[r] = "up")

(***************************************************************************)
(* The inductive invariant: what a process holds is of one version, whose  *)
(* keys admit the client, and which is the current one if the process was  *)
(* started since the last rotation.                                        *)
(***************************************************************************)
DsnOf(n) ==
    IF deployment.backend = "env" THEN DsnFromEnvironment(n)
    ELSE Given(deployment.secrets[n].dsn, Defaults)

IsVersionOf(p, n) ==
    /\ n \in 1..current
    /\ keys[p] = KeysOf(n)
    /\ p \in Replicas => KeysOf(n) = {} \/ client \in KeysOf(n)
    /\ p \in started => n = current

HoldsOneVersion(p) ==
    /\ pc[p] \notin {"down", "failed"} => deployment.form # "comma"
    /\ pc[p] \in {"keys", "dsn"} => deployment.backend = "remote" /\ dsn[p] = Defaults
    /\ pc[p] # "dsn" => loader[p] = 0
    /\ pc[p] = "keys" => keys[p] = KeysFromEnvironment(current)
    /\ pc[p] = "dsn" => IsVersionOf(p, loader[p])
    /\ pc[p] \in {"rules", "up"} => \E n \in 1..current : IsVersionOf(p, n) /\ dsn[p] = DsnOf(n)

SettingsInv ==
    /\ SettingsTypeOK
    /\ deployment \in Deployments
    /\ client \in KeysInForce(current)
    /\ \A p \in Processes : HoldsOneVersion(p)
=============================================================================
