---------------------------- MODULE SettingsProofs ----------------------------
(***************************************************************************)
(* What start-up guarantees of every deployment, whatever its backend, its *)
(* secrets and their rotations: a process that is up obeys the secrets of  *)
(* one version, whatever the code makes of them; no outage takes its keys  *)
(* away; and a rotation done in auth.py's order locks no client out.  The secrets a deployment has *)
(* never change during a behaviour, only which version is in place.        *)
(***************************************************************************)
EXTENDS Settings, TLAPS

LEMMA DeploymentStays == [SettingsNext]_setVars => deployment' = deployment
BY DEF SettingsNext, StartUp, Start, Begin, GetKeys, GetDsn, ReadRules, Kill, Rotate, ChangeOver,
       BackendChanges, EditRules, setVars, world

LEMMA SameVersions ==
    ASSUME deployment' = deployment
    PROVE  \A n : /\ KeysFromEnvironment(n)' = KeysFromEnvironment(n)
                  /\ KeysOf(n)' = KeysOf(n) /\ KeysInForce(n)' = KeysInForce(n)
                  /\ DsnOf(n)' = DsnOf(n)
<1>0. \A n : Listed(n)' = Listed(n)
  BY DEF Listed
<1>1. \A n : KeysFromEnvironment(n)' = KeysFromEnvironment(n)
  BY <1>0 DEF KeysFromEnvironment
<1>2. \A n : KeysOf(n)' = KeysOf(n)
  BY <1>1 DEF KeysOf
<1>3. \A n : KeysInForce(n)' = KeysInForce(n)
  BY <1>0 DEF KeysInForce, Written
<1>4. \A n : DsnOf(n)' = DsnOf(n)
  BY DEF DsnOf, DsnFromEnvironment
<1>5. QED
  BY <1>1, <1>2, <1>3, <1>4

LEMMA Versions ==
    ASSUME deployment \in Deployments
    PROVE  /\ deployment.backend \in Backends /\ deployment.form \in Forms
           /\ deployment.envKeys \subseteq Keys
           /\ Len(deployment.secrets) \in Nat \ {0}
           /\ \A n \in 1..Len(deployment.secrets) : deployment.secrets[n] \in Secrets
<1>1. /\ deployment.secrets \in Seq(Secrets) /\ deployment.secrets # <<>>
      /\ deployment.backend \in Backends /\ deployment.form \in Forms
      /\ deployment.envKeys \subseteq Keys
  BY SettingsAssumption
<1>2. QED
  BY <1>1

\* What a version gives to a process that reads it.
LEMMA VersionTypes ==
    ASSUME deployment \in Deployments, NEW n \in 1..Len(deployment.secrets)
    PROVE  /\ KeysFromEnvironment(n) \subseteq Keys /\ KeysOf(n) \subseteq Keys
           /\ KeysInForce(n) \subseteq Keys
           /\ DsnOf(n) \in DSNs \cup {Defaults} /\ DsnFromEnvironment(n) \in DSNs \cup {Defaults}
           /\ deployment.backend = "remote" => \A m : KeysFromEnvironment(m) = KeysFromEnvironment(n)
<1>1. /\ deployment.secrets[n].keys \in {NoField} \cup SUBSET Keys
      /\ deployment.secrets[n].dsn \in {NoField} \cup DSNs
  BY Versions DEF Secrets
<1>2. Given(deployment.secrets[n].keys, {}) \subseteq Keys
  BY <1>1 DEF Given
<1>3. Listed(n) \subseteq Keys /\ KeysFromEnvironment(n) \subseteq Keys
  <2>1. Listed(n) \subseteq Keys
    BY <1>2, Versions DEF Listed
  <2>2. QED
    BY <2>1 DEF KeysFromEnvironment
<1>4. KeysOf(n) \subseteq Keys
  BY <1>1, <1>3 DEF KeysOf, Given
<1>5. KeysInForce(n) \subseteq Keys
  <2>1. Written(n) \subseteq Keys
    BY <1>1, <1>3 DEF Written
  <2>2. QED
    BY <2>1 DEF KeysInForce
<1>6. DsnOf(n) \in DSNs \cup {Defaults} /\ DsnFromEnvironment(n) \in DSNs \cup {Defaults}
  BY <1>1 DEF DsnOf, DsnFromEnvironment, Given
<1>7. deployment.backend = "remote" => \A m : KeysFromEnvironment(m) = KeysFromEnvironment(n)
  BY DEF KeysFromEnvironment, Listed
<1>8. QED
  BY <1>3, <1>4, <1>5, <1>6, <1>7

\* A process ends up with what was written, or with nothing: a client of the version is
\* not refused either way.
LEMMA ReadAsWritten == \A n : KeysOf(n) = {} \/ KeysOf(n) = Written(n)
<1> SUFFICES ASSUME NEW n PROVE KeysOf(n) = {} \/ KeysOf(n) = Written(n)
  OBVIOUS
<1>1. KeysFromEnvironment(n) = {} \/ KeysFromEnvironment(n) = Listed(n)
  BY DEF KeysFromEnvironment
<1>2. CASE deployment.backend = "env"
  BY <1>1, <1>2 DEF KeysOf, Written
<1>3. CASE deployment.backend # "env"
  <2>1. CASE deployment.secrets[n].keys = NoField
    BY <1>1, <1>3, <2>1 DEF KeysOf, Written, Given
  <2>2. CASE deployment.secrets[n].keys = {} /\ deployment.secrets[n].keys # NoField
    BY <1>3, <2>2 DEF KeysOf, Given
  <2>3. CASE deployment.secrets[n].keys \notin {NoField, {}}
    BY <1>3, <2>3 DEF KeysOf, Written, Given
  <2>4. QED
    BY <2>1, <2>2, <2>3
<1>4. QED
  BY <1>2, <1>3

LEMMA ClientsAreTaken ==
    ASSUME NEW n, client \in KeysInForce(n) PROVE KeysOf(n) = {} \/ client \in KeysOf(n)
BY ReadAsWritten DEF KeysInForce

LEMMA SettingsInvInit == SettingsInit => SettingsInv
<1> SUFFICES ASSUME SettingsInit PROVE SettingsInv
  OBVIOUS
<1>1. deployment \in Deployments /\ current = 1 /\ client \in KeysInForce(1)
  BY DEF SettingsInit
<1>2. 1 \in 1..Len(deployment.secrets)
  BY <1>1, Versions
<1>3. client \in Keys
  BY <1>1, <1>2, VersionTypes
<1>4. SettingsTypeOK
  BY <1>1, <1>2, <1>3 DEF SettingsInit, SettingsTypeOK, Contents
<1>5. \A p \in Processes : HoldsOneVersion(p)
  BY DEF SettingsInit, HoldsOneVersion
<1>6. QED
  BY <1>1, <1>4, <1>5 DEF SettingsInv

(***************************************************************************)
(* A step of one process leaves what the others hold.                      *)
(***************************************************************************)
LEMMA OneProcessMoves ==
    ASSUME SettingsInv, NEW p \in Processes, UNCHANGED world, SettingsTypeOK',
           \A q \in Processes \ {p} :
              /\ pc'[q] = pc[q] /\ loader'[q] = loader[q] /\ keys'[q] = keys[q]
              /\ dsn'[q] = dsn[q] /\ (q \in started' <=> q \in started),
           HoldsOneVersion(p)'
    PROVE  SettingsInv'
<1>1. deployment' = deployment /\ current' = current /\ client' = client
  BY DEF world
<1>2. ASSUME NEW q \in Processes \ {p} PROVE HoldsOneVersion(q)'
  <2>1. HoldsOneVersion(q)
    BY DEF SettingsInv
  <2>2. /\ pc'[q] = pc[q] /\ loader'[q] = loader[q] /\ keys'[q] = keys[q]
        /\ dsn'[q] = dsn[q] /\ (q \in started' <=> q \in started)
    OBVIOUS
  <2>3. QED
    BY <1>1, <2>1, <2>2, SameVersions DEF HoldsOneVersion, IsVersionOf
<1>3. client' \in KeysInForce(current)'
  BY <1>1, SameVersions DEF SettingsInv
<1>4. Processes' = Processes
  BY DEF Processes
<1>5. \A q \in Processes : HoldsOneVersion(q)'
  BY <1>2
<1>6. QED
  BY <1>1, <1>3, <1>5 DEF SettingsInv

\* A process that ended holds nothing.
LEMMA Ending ==
    ASSUME SettingsInv, NEW p \in Processes, NEW how \in {"down", "failed"}, End(p, how),
           UNCHANGED world, started' \subseteq Replicas
    PROVE  /\ SettingsTypeOK' /\ HoldsOneVersion(p)'
           /\ \A q \in Processes \ {p} : /\ pc'[q] = pc[q] /\ loader'[q] = loader[q]
                                         /\ keys'[q] = keys[q] /\ dsn'[q] = dsn[q]
<1>1. SettingsTypeOK
  BY DEF SettingsInv
<1>2. /\ pc' \in [Processes -> {"down", "failed", "keys", "dsn", "rules", "up"}]
      /\ loader' \in [Processes -> 0..current] /\ keys' \in [Processes -> SUBSET Keys]
      /\ dsn' \in [Processes -> DSNs \cup {Defaults}]
      /\ obeyed' \in [Processes -> Rules \cup {Defaults}]
  <2>1. 0 \in 0..current
    BY <1>1, Versions DEF SettingsInv, SettingsTypeOK
  <2>2. QED
    BY <1>1, <2>1 DEF End, SettingsTypeOK
<1>3. SettingsTypeOK'
  BY <1>1, <1>2 DEF SettingsTypeOK, world, Processes, DSNs, Contents
<1>4. pc'[p] = how /\ loader'[p] = 0
  BY <1>1 DEF End, SettingsTypeOK
<1>5. HoldsOneVersion(p)'
  BY <1>4 DEF HoldsOneVersion
<1>6. QED
  BY <1>1, <1>3, <1>5 DEF End, SettingsTypeOK

LEMMA StartKeeps == ASSUME SettingsInv, NEW p \in Processes, Start(p) PROVE SettingsInv'
<1>0. /\ Begin(p) /\ UNCHANGED world /\ started' = started \cup ({p} \cap Replicas)
      /\ pc[p] \in {"down", "failed"} /\ UNCHANGED kills
  BY DEF Start, Begin
<1>1. SettingsTypeOK /\ started' \subseteq Replicas /\ HoldsOneVersion(p)
  BY <1>0 DEF SettingsInv, SettingsTypeOK
<1>2. CASE deployment.form = "comma"
  <2>1. End(p, "failed")
    BY <1>0, <1>2 DEF Begin, Fail
  <2>2. QED
    BY <1>0, <1>1, <2>1, Ending, OneProcessMoves
<1>3. CASE deployment.form # "comma"
  <2>1. /\ pc' = [pc EXCEPT ![p] = IF deployment.backend = "env" THEN "rules" ELSE "keys"]
        /\ keys' = [keys EXCEPT ![p] = KeysFromEnvironment(current)]
        /\ dsn' = [dsn EXCEPT ![p] = DsnFromEnvironment(current)]
        /\ UNCHANGED <<loader, obeyed>>
    BY <1>0, <1>3 DEF Begin
  <2>2. current \in 1..Len(deployment.secrets) /\ deployment \in Deployments
        /\ current \in 1..current
    BY <1>1, Versions DEF SettingsInv, SettingsTypeOK
  <2>3. /\ KeysFromEnvironment(current) \in SUBSET Keys
        /\ DsnFromEnvironment(current) \in DSNs \cup {Defaults}
    BY <2>2, VersionTypes
  <2>4. SettingsTypeOK'
    BY <1>0, <1>1, <2>1, <2>3 DEF SettingsTypeOK, world, Processes, DSNs, Contents
  <2>5. /\ pc'[p] = IF deployment.backend = "env" THEN "rules" ELSE "keys"
        /\ keys'[p] = KeysFromEnvironment(current) /\ dsn'[p] = DsnFromEnvironment(current)
        /\ loader'[p] = 0
    BY <1>0, <1>1, <2>1 DEF SettingsTypeOK, HoldsOneVersion
  <2>6. deployment' = deployment /\ current' = current /\ client' = client
    BY <1>0 DEF world
  <2>7. HoldsOneVersion(p)'
    <3>1. CASE deployment.backend = "env"
      <4>1. keys'[p] = KeysOf(current) /\ dsn'[p] = DsnOf(current)
        BY <2>5, <3>1 DEF KeysOf, DsnOf
      <4>2. IsVersionOf(p, current)'
        BY <2>2, <2>6, <4>1, SameVersions, ClientsAreTaken DEF IsVersionOf, SettingsInv
      <4>3. dsn'[p] = DsnOf(current)'
        BY <2>6, <4>1, SameVersions
      <4>4. pc'[p] = "rules"
        BY <2>5, <3>1
      <4>5. QED
        BY <1>3, <2>2, <2>5, <2>6, <4>2, <4>3, <4>4 DEF HoldsOneVersion
    <3>2. CASE deployment.backend = "remote"
      <4>1. pc'[p] = "keys" /\ dsn'[p] = Defaults
        BY <2>5, <3>2 DEF DsnFromEnvironment
      <4>2. keys'[p] = KeysFromEnvironment(current)'
        BY <2>5, <2>6, SameVersions
      <4>3. QED
        BY <1>3, <2>5, <2>6, <3>2, <4>1, <4>2 DEF HoldsOneVersion
    <3>3. QED
      BY <2>2, <3>1, <3>2, Versions DEF Backends
  <2>8. \A q \in Processes \ {p} :
              /\ pc'[q] = pc[q] /\ loader'[q] = loader[q] /\ keys'[q] = keys[q]
              /\ dsn'[q] = dsn[q] /\ (q \in started' <=> q \in started)
    BY <1>0, <1>1, <2>1 DEF SettingsTypeOK
  <2>9. QED
    BY <1>0, <2>4, <2>7, <2>8, OneProcessMoves
<1>4. QED
  BY <1>2, <1>3

LEMMA Loading ==
    ASSUME SettingsInv, NEW p \in Processes, Load(p) # 0, pc[p] \in {"keys", "dsn"}
    PROVE  /\ Load(p) \in 1..current /\ Load(p) \in 1..Len(deployment.secrets)
           /\ deployment.secrets[Load(p)] \in Secrets
           /\ loader[p] = 0 => Load(p) = current
<1>1. /\ current \in 1..Len(deployment.secrets) /\ deployment \in Deployments
      /\ loader[p] \in 0..current
  BY DEF SettingsInv, SettingsTypeOK
<1>2. Len(deployment.secrets) \in Nat
  BY <1>1, Versions
<1>3. Load(p) \in 1..current /\ (loader[p] = 0 => Load(p) = current)
  BY <1>1, <1>2 DEF Load
<1>4. Load(p) \in 1..Len(deployment.secrets)
  BY <1>1, <1>2, <1>3
<1>5. QED
  BY <1>1, <1>3, <1>4, Versions

LEMMA GetKeysKeeps == ASSUME SettingsInv, NEW p \in Processes, GetKeys(p) PROVE SettingsInv'
<1>0. pc[p] = "keys" /\ UNCHANGED <<world, started, kills>>
  BY DEF GetKeys
<1>1. SettingsTypeOK /\ HoldsOneVersion(p) /\ started' \subseteq Replicas
  BY <1>0 DEF SettingsInv, SettingsTypeOK
<1>2. CASE Load(p) = 0
  <2>1. End(p, "failed")
    BY <1>2 DEF GetKeys, Outage, Fail
  <2>2. QED
    BY <1>0, <1>1, <2>1, Ending, OneProcessMoves
<1>3. CASE Load(p) # 0
  <2>1. PICK n \in 1..current : /\ n = Load(p) /\ n \in 1..Len(deployment.secrets)
                                /\ deployment.secrets[n] \in Secrets /\ n = current
    BY <1>0, <1>1, <1>3, Loading DEF HoldsOneVersion
  <2>2. /\ loader' = [loader EXCEPT ![p] = n]
        /\ keys' = [keys EXCEPT ![p] = Given(deployment.secrets[n].keys, keys[p])]
        /\ pc' = [pc EXCEPT ![p] = "dsn"] /\ UNCHANGED <<dsn, obeyed>>
    BY <1>3, <2>1 DEF GetKeys, Overridden
  <2>3. /\ keys[p] = KeysFromEnvironment(current) /\ deployment.backend = "remote"
        /\ deployment.form # "comma" /\ dsn[p] = Defaults
    BY <1>0, <1>1 DEF HoldsOneVersion
  <2>4. Given(deployment.secrets[n].keys, keys[p]) = KeysOf(n)
    BY <2>1, <2>3 DEF KeysOf
  <2>5. KeysOf(n) \in SUBSET Keys
    BY <2>1, VersionTypes DEF SettingsInv
  <2>6. SettingsTypeOK'
    BY <1>0, <1>1, <2>1, <2>2, <2>4, <2>5 DEF SettingsTypeOK, world, Processes, DSNs, Contents
  <2>7. deployment' = deployment /\ current' = current /\ client' = client
    BY <1>0 DEF world
  <2>8. pc'[p] = "dsn" /\ loader'[p] = n /\ keys'[p] = KeysOf(n) /\ dsn'[p] = Defaults
    BY <1>1, <2>2, <2>3, <2>4 DEF SettingsTypeOK
  <2>9. /\ keys'[p] = KeysOf(n)'
        /\ KeysOf(n)' = {} \/ client' \in KeysOf(n)'
    BY <2>1, <2>7, <2>8, SameVersions, ClientsAreTaken DEF SettingsInv
  <2>10. HoldsOneVersion(p)'
    BY <2>1, <2>3, <2>7, <2>8, <2>9 DEF HoldsOneVersion, IsVersionOf
  <2>11. \A q \in Processes \ {p} :
              /\ pc'[q] = pc[q] /\ loader'[q] = loader[q] /\ keys'[q] = keys[q]
              /\ dsn'[q] = dsn[q] /\ (q \in started' <=> q \in started)
    BY <1>0, <1>1, <2>2 DEF SettingsTypeOK
  <2>12. QED
    BY <1>0, <2>6, <2>10, <2>11, OneProcessMoves
<1>4. QED
  BY <1>2, <1>3

LEMMA GetDsnKeeps == ASSUME SettingsInv, NEW p \in Processes, GetDsn(p) PROVE SettingsInv'
<1>0. pc[p] = "dsn" /\ UNCHANGED <<world, started, kills>>
  BY DEF GetDsn
<1>1. SettingsTypeOK /\ HoldsOneVersion(p) /\ started' \subseteq Replicas
  BY <1>0 DEF SettingsInv, SettingsTypeOK
<1>2. CASE Load(p) = 0
  <2>1. End(p, "failed")
    BY <1>2 DEF GetDsn, Outage, Fail
  <2>2. QED
    BY <1>0, <1>1, <2>1, Ending, OneProcessMoves
<1>3. CASE Load(p) # 0
  <2>0. IsVersionOf(p, loader[p]) /\ loader[p] # 0
    BY <1>0, <1>1 DEF HoldsOneVersion, IsVersionOf, SettingsTypeOK
  <2>1. PICK n \in 1..current : /\ n = Load(p) /\ n \in 1..Len(deployment.secrets) /\ n = loader[p]
                                /\ deployment.secrets[n] \in Secrets
    BY <1>0, <1>3, <2>0, Loading DEF Load
  <2>2. /\ loader' = [loader EXCEPT ![p] = 0]
        /\ dsn' = [dsn EXCEPT ![p] = Given(deployment.secrets[n].dsn, dsn[p])]
        /\ pc' = [pc EXCEPT ![p] = "rules"] /\ UNCHANGED <<keys, obeyed>>
    BY <1>3, <2>1 DEF GetDsn
  <2>3. /\ deployment.backend = "remote" /\ deployment.form # "comma" /\ dsn[p] = Defaults
        /\ IsVersionOf(p, n)
    BY <1>0, <1>1, <2>0, <2>1 DEF HoldsOneVersion
  <2>4. Given(deployment.secrets[n].dsn, dsn[p]) = DsnOf(n)
    BY <2>3 DEF DsnOf
  <2>5. DsnOf(n) \in DSNs \cup {Defaults}
    BY <2>1, VersionTypes DEF SettingsInv
  <2>6. SettingsTypeOK'
    <3>1. 0 \in 0..current
      BY <1>1, Versions DEF SettingsInv, SettingsTypeOK
    <3>2. QED
      BY <1>0, <1>1, <2>2, <2>4, <2>5, <3>1
         DEF SettingsTypeOK, world, Processes, DSNs, Contents
  <2>7. deployment' = deployment /\ current' = current /\ client' = client
    BY <1>0 DEF world
  <2>8. /\ pc'[p] = "rules" /\ loader'[p] = 0 /\ keys'[p] = keys[p] /\ dsn'[p] = DsnOf(n)
        /\ started' = started
    BY <1>0, <1>1, <2>2, <2>4 DEF SettingsTypeOK
  <2>9. IsVersionOf(p, n)' /\ dsn'[p] = DsnOf(n)'
    BY <2>3, <2>7, <2>8, SameVersions DEF IsVersionOf
  <2>10. HoldsOneVersion(p)'
    BY <2>1, <2>3, <2>7, <2>8, <2>9 DEF HoldsOneVersion
  <2>11. \A q \in Processes \ {p} :
              /\ pc'[q] = pc[q] /\ loader'[q] = loader[q] /\ keys'[q] = keys[q]
              /\ dsn'[q] = dsn[q] /\ (q \in started' <=> q \in started)
    BY <1>0, <1>1, <2>2 DEF SettingsTypeOK
  <2>12. QED
    BY <1>0, <2>6, <2>10, <2>11, OneProcessMoves
<1>4. QED
  BY <1>2, <1>3

LEMMA ReadRulesKeeps == ASSUME SettingsInv, NEW p \in Processes, ReadRules(p) PROVE SettingsInv'
<1>0. pc[p] = "rules" /\ UNCHANGED <<world, started, kills>>
  BY DEF ReadRules
<1>1. SettingsTypeOK /\ HoldsOneVersion(p) /\ started' \subseteq Replicas
  BY <1>0 DEF SettingsInv, SettingsTypeOK
<1>2. CASE rules = "bad"
  <2>1. End(p, "failed")
    BY <1>2 DEF ReadRules, Fail
  <2>2. QED
    BY <1>0, <1>1, <2>1, Ending, OneProcessMoves
<1>3. CASE rules # "bad"
  <2>1. /\ obeyed' = [obeyed EXCEPT ![p] = Mappings]
        /\ pc' = [pc EXCEPT ![p] = "up"] /\ UNCHANGED <<loader, keys, dsn>>
    BY <1>3 DEF ReadRules
  <2>2. Mappings \in Rules \cup {Defaults}
    BY DEF Mappings
  <2>3. SettingsTypeOK'
    BY <1>0, <1>1, <2>1, <2>2 DEF SettingsTypeOK, world, Processes, DSNs, Contents
  <2>4. deployment' = deployment /\ current' = current /\ client' = client
    BY <1>0 DEF world
  <2>5. PICK n \in 1..current : IsVersionOf(p, n) /\ dsn[p] = DsnOf(n)
    BY <1>0, <1>1 DEF HoldsOneVersion
  <2>6. pc'[p] = "up" /\ UNCHANGED <<loader, keys, dsn, started>>
    BY <1>0, <1>1, <2>1 DEF SettingsTypeOK
  <2>7. IsVersionOf(p, n)' /\ dsn'[p] = DsnOf(n)'
    BY <2>4, <2>5, <2>6, SameVersions DEF IsVersionOf
  <2>8. HoldsOneVersion(p)'
    BY <1>0, <1>1, <2>4, <2>5, <2>6, <2>7 DEF HoldsOneVersion
  <2>9. \A q \in Processes \ {p} :
              /\ pc'[q] = pc[q] /\ loader'[q] = loader[q] /\ keys'[q] = keys[q]
              /\ dsn'[q] = dsn[q] /\ (q \in started' <=> q \in started)
    BY <1>0, <1>1, <2>1 DEF SettingsTypeOK
  <2>10. QED
    BY <1>0, <2>3, <2>8, <2>9, OneProcessMoves
<1>4. QED
  BY <1>2, <1>3

LEMMA KillKeeps == ASSUME SettingsInv, NEW r \in Replicas, Kill(r) PROVE SettingsInv'
<1>1. End(r, "down") /\ UNCHANGED <<world, started>> /\ r \in Processes
  BY DEF Kill, Processes
<1>2. started' \subseteq Replicas
  BY <1>1 DEF SettingsInv, SettingsTypeOK
<1>3. QED
  BY <1>1, <1>2, Ending, OneProcessMoves

(***************************************************************************)
(* Steps around the processes.                                             *)
(***************************************************************************)
LEMMA RotateKeeps == ASSUME SettingsInv, Rotate PROVE SettingsInv'
<1>0. /\ current < Len(deployment.secrets) /\ current' = current + 1 /\ started' = {}
      /\ client \in KeysInForce(current + 1)
      /\ UNCHANGED <<deployment, reachable, rules, client, pc, loader, keys, dsn, obeyed, kills>>
  BY DEF Rotate
<1>1. SettingsTypeOK /\ current \in Nat /\ Len(deployment.secrets) \in Nat
  BY Versions DEF SettingsInv, SettingsTypeOK
<1>2. SettingsTypeOK'
  <2>1. current + 1 \in 1..Len(deployment.secrets)
    BY <1>0, <1>1 DEF SettingsTypeOK
  <2>2. loader \in [Processes -> 0..(current + 1)]
    <3>1. \A p \in Processes : loader[p] \in 0..(current + 1)
      BY <1>1 DEF SettingsTypeOK
    <3>2. QED
      BY <1>1, <3>1 DEF SettingsTypeOK
  <2>3. QED
    BY <1>0, <1>1, <2>1, <2>2 DEF SettingsTypeOK, Processes, DSNs, Contents
<1>3. client' \in KeysInForce(current)'
  BY <1>0 DEF KeysInForce, Written, Listed
<1>4. ASSUME NEW p \in Processes PROVE HoldsOneVersion(p)'
  <2>1. HoldsOneVersion(p) /\ p \notin started'
    BY <1>0 DEF SettingsInv
  <2>2. ASSUME NEW n, IsVersionOf(p, n) PROVE IsVersionOf(p, n)' /\ n \in 1..current'
    BY <1>0, <1>1, <2>1, <2>2, SameVersions DEF IsVersionOf
  <2>3. pc[p] = "dsn" => IsVersionOf(p, loader[p])'
    BY <1>0, <1>1, <2>1, SameVersions DEF HoldsOneVersion, IsVersionOf
  <2>4. pc[p] \in {"rules", "up"} => \E n \in 1..current' : IsVersionOf(p, n)' /\ dsn'[p] = DsnOf(n)'
    BY <1>0, <2>1, <2>2, SameVersions DEF HoldsOneVersion
  <2>5. pc[p] = "keys" => keys'[p] = KeysFromEnvironment(current)'
    <3>1. pc[p] = "keys" => deployment.backend = "remote" /\ keys[p] = KeysFromEnvironment(current)
      BY <2>1 DEF HoldsOneVersion
    <3>2. QED
      BY <1>0, <3>1 DEF KeysFromEnvironment, Listed
  <2>6. QED
    BY <1>0, <2>1, <2>3, <2>4, <2>5 DEF HoldsOneVersion
<1>5. Processes' = Processes /\ Deployments' = Deployments
  BY DEF Processes
<1>6. QED
  BY <1>0, <1>2, <1>3, <1>4, <1>5 DEF SettingsInv

LEMMA ChangeOverKeeps == ASSUME SettingsInv, ChangeOver PROVE SettingsInv'
<1>0. /\ \A r \in Replicas : pc[r] \in {"down", "failed"} \/ r \in started
      /\ client' \in KeysInForce(current)
      /\ UNCHANGED <<deployment, current, reachable, rules, process>>
  BY DEF ChangeOver
<1>1. SettingsTypeOK /\ current \in 1..Len(deployment.secrets)
  BY DEF SettingsInv, SettingsTypeOK
<1>2. SettingsTypeOK'
  <2>1. client' \in Keys
    BY <1>0, <1>1, VersionTypes DEF SettingsInv
  <2>2. QED
    BY <1>0, <1>1, <2>1 DEF SettingsTypeOK, process, Processes, DSNs, Contents
<1>3. ASSUME NEW p \in Processes PROVE HoldsOneVersion(p)'
  <2>1. /\ HoldsOneVersion(p)
        /\ UNCHANGED <<deployment, current, pc, loader, keys, dsn, started>>
    BY <1>0 DEF SettingsInv, process
  <2>2. ASSUME NEW n, IsVersionOf(p, n), pc[p] \notin {"down", "failed"}
        PROVE  IsVersionOf(p, n)'
    <3>1. p \in Replicas => n = current
      BY <1>0, <2>2 DEF IsVersionOf
    <3>2. p \in Replicas => KeysOf(n)' = {} \/ client' \in KeysOf(n)'
      <4>1. client' \in KeysInForce(current) => KeysOf(current) = {} \/ client' \in KeysOf(current)
        BY ReadAsWritten DEF KeysInForce
      <4>2. QED
        BY <1>0, <2>1, <3>1, <4>1, SameVersions
    <3>3. QED
      BY <2>1, <2>2, <3>2, SameVersions DEF IsVersionOf
  <2>3. pc[p] = "dsn" => IsVersionOf(p, loader[p])'
    <3>1. pc[p] = "dsn" => \E n \in 1..current : n = loader[p] /\ IsVersionOf(p, n)
      BY <2>1 DEF HoldsOneVersion, IsVersionOf
    <3>2. QED
      BY <2>1, <2>2, <3>1 DEF IsVersionOf
  <2>4. pc[p] \in {"rules", "up"} => \E n \in 1..current : IsVersionOf(p, n)' /\ dsn'[p] = DsnOf(n)'
    BY <2>1, <2>2, SameVersions DEF HoldsOneVersion
  <2>5. QED
    BY <2>1, <2>3, <2>4, SameVersions DEF HoldsOneVersion
<1>4. Processes' = Processes /\ KeysInForce(current)' = KeysInForce(current)
  BY <1>0, SameVersions DEF Processes
<1>5. QED
  BY <1>0, <1>2, <1>3, <1>4 DEF SettingsInv

\* The backend, the rules file, and standing still.
LEMMA SurroundingsKeep ==
    ASSUME SettingsInv, UNCHANGED <<deployment, current, client, process>>,
           reachable' \in BOOLEAN, rules' \in Contents
    PROVE  SettingsInv'
<1>1. SettingsTypeOK'
  BY DEF SettingsInv, SettingsTypeOK, process, Processes, DSNs, Contents
<1>2. ASSUME NEW p \in Processes PROVE HoldsOneVersion(p)'
  BY SameVersions DEF SettingsInv, HoldsOneVersion, IsVersionOf, process
<1>3. Processes' = Processes /\ KeysInForce(current)' = KeysInForce(current)
  BY SameVersions DEF Processes
<1>4. QED
  BY <1>1, <1>2, <1>3 DEF SettingsInv

LEMMA SettingsInvStep == SettingsInv /\ [SettingsNext]_setVars => SettingsInv'
<1> SUFFICES ASSUME SettingsInv, [SettingsNext]_setVars PROVE SettingsInv'
  OBVIOUS
<1>1. reachable \in BOOLEAN /\ rules \in Contents
  BY DEF SettingsInv, SettingsTypeOK
<1>2. ASSUME NEW p \in Processes, StartUp(p) PROVE SettingsInv'
  BY <1>2, StartKeeps, GetKeysKeeps, GetDsnKeeps, ReadRulesKeeps DEF StartUp
<1>3. CASE BackendChanges \/ EditRules \/ UNCHANGED setVars
  <2>1. /\ UNCHANGED <<deployment, current, client, process>>
        /\ reachable' \in BOOLEAN /\ rules' \in Contents
    BY <1>1, <1>3 DEF BackendChanges, EditRules, setVars, world
  <2>2. QED
    BY <2>1, SurroundingsKeep
<1>4. QED
  BY <1>2, <1>3, KillKeeps, RotateKeeps, ChangeOverKeeps DEF SettingsNext

\* The inductive invariant holds of every deployment.
THEOREM SettingsInvariant == SettingsSpec => []SettingsInv
BY SettingsInvInit, SettingsInvStep, PTL DEF SettingsSpec

(***************************************************************************)
(* What it says of every reachable state.                                  *)
(***************************************************************************)
LEMMA UpIsOneVersion ==
    ASSUME SettingsInv, NEW p \in Processes, pc[p] = "up"
    PROVE  \E n \in 1..current : IsVersionOf(p, n) /\ dsn[p] = DsnOf(n)
BY DEF SettingsInv, HoldsOneVersion

LEMMA NeverMixed == SettingsInv => SecretsFromOneVersion
<1> SUFFICES ASSUME SettingsInv, NEW p \in Processes, deployment.backend = "remote", pc[p] = "up"
             PROVE  \E n \in 1..current :
                       /\ keys[p] = Given(deployment.secrets[n].keys, KeysFromEnvironment(n))
                       /\ dsn[p]  = Given(deployment.secrets[n].dsn, Defaults)
  BY DEF SecretsFromOneVersion
<1>1. PICK n \in 1..current : IsVersionOf(p, n) /\ dsn[p] = DsnOf(n)
  BY UpIsOneVersion
<1>2. KeysOf(n) = Given(deployment.secrets[n].keys, KeysFromEnvironment(n))
      /\ DsnOf(n) = Given(deployment.secrets[n].dsn, Defaults)
  BY DEF KeysOf, DsnOf
<1>3. QED
  BY <1>1, <1>2 DEF IsVersionOf

LEMMA NeverOpened == SettingsInv => NoOutageOpensReplica
<1> SUFFICES ASSUME SettingsInv, NEW r \in Replicas, pc[r] = "up", keys[r] = {}
             PROVE  \E n \in 1..current : KeysOf(n) = {}
  BY DEF NoOutageOpensReplica
<1>1. r \in Processes
  BY DEF Processes
<1>2. PICK n \in 1..current : IsVersionOf(r, n)
  BY <1>1, UpIsOneVersion
<1>3. QED
  BY <1>2 DEF IsVersionOf

LEMMA NoDowntime == SettingsInv => KeyRotationHasNoDowntime
<1> SUFFICES ASSUME SettingsInv, NEW r \in Replicas, pc[r] = "up"
             PROVE  /\ Accepts(r, client)
                    /\ r \in started /\ KeysOf(current) # {} =>
                          \A key \in Keys \ KeysOf(current) : ~Accepts(r, key)
  BY DEF KeyRotationHasNoDowntime
<1>1. PICK n \in 1..current : IsVersionOf(r, n)
  BY UpIsOneVersion DEF Processes
<1>2. /\ keys[r] = KeysOf(n)
      /\ KeysOf(n) = {} \/ client \in KeysOf(n)
      /\ r \in started => n = current
  BY <1>1 DEF IsVersionOf
<1>3. QED
  BY <1>2 DEF Accepts

\* Start-up keeps its types: what is obeyed is a file that could be read, or the defaults.
THEOREM SettingsTypeCorrect == SettingsSpec => []SettingsTypeOK
BY SettingsInvariant, PTL DEF SettingsInv

\* Secrets rotated while they are read are never mixed.
THEOREM SecretsAreNeverMixed == SettingsSpec => []SecretsFromOneVersion
BY SettingsInvariant, NeverMixed, PTL

\* A replica without authentication resolved a version that resolves to no keys: no
\* outage, kill or rotation during its start takes them away.
THEOREM OutagesOpenNothing == SettingsSpec => []NoOutageOpensReplica
BY SettingsInvariant, NeverOpened, PTL

\* A rotation done in the documented order locks no client out of a replica that comes
\* up, and a key that was removed is refused by those started since.
THEOREM RotationsLockNobodyOut == SettingsSpec => []KeyRotationHasNoDowntime
BY SettingsInvariant, NoDowntime, PTL
=============================================================================
