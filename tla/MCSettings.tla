----------------------------- MODULE MCSettings -----------------------------
(***************************************************************************)
(* Two replicas and a job for TLC, with a key rotation from ka to kb.      *)
(***************************************************************************)
EXTENDS Settings, TLC

CONSTANTS r1, r2, j1, ka, kb, dsn1, dsn2, dsn3, rulesA

MCReplicas == {r1, r2}
MCJobs     == {j1}
MCKeys     == {ka, kb}
MCRules    == {rulesA}

MCRotation ==
    <<[keys |-> {ka}, dsn |-> dsn1], [keys |-> {ka, kb}, dsn |-> dsn2],
      [keys |-> {kb}, dsn |-> dsn3]>>

\* Secrets without keys at first, while the environment has one, and then without a DSN.
MCPartial ==
    <<[keys |-> NoField, dsn |-> dsn1], [keys |-> {ka, kb}, dsn |-> NoField],
      [keys |-> {kb}, dsn |-> dsn3]>>

\* A version whose keys are a text of blanks, while the environment has a key.
MCBlank ==
    <<[keys |-> {ka}, dsn |-> dsn1], [keys |-> {}, dsn |-> dsn2]>>

Deploy(backend, form, envKeys, secrets) ==
    [backend |-> backend, form |-> form, envKeys |-> envKeys, secrets |-> secrets]

MCDeployments ==
    {Deploy("env", "string", {}, MCRotation), Deploy("env", "comma", {}, MCRotation),
     Deploy("env", "list", {}, MCRotation), Deploy("env", "unset", {}, MCPartial),
     Deploy("remote", "unset", {}, MCRotation), Deploy("remote", "string", {ka}, MCPartial),
     Deploy("remote", "string", {ka}, MCBlank)}

\* Keys written as a JSON array, as pydantic-settings asks for a set in the environment.
MCListed == {Deploy("env", "list", {}, MCRotation)}
=============================================================================
