----------------------------- MODULE ServedModel -----------------------------
(***************************************************************************)
(* What the system promises its users, with no files, locks or timers:     *)
(* runs are published one after the other, and every replica serves one    *)
(* published run, never an older one than it served before, until it is    *)
(* restarted.  "A new training run lands automatically on the next refresh *)
(* window, with zero downtime" (inference/artifact_store.py).              *)
(***************************************************************************)
EXTENDS Integers, Sequences

CONSTANTS Runs, Replicas

VARIABLES
    published,   \* the runs published so far
    served       \* the index in published of what each replica serves; 0: nothing

servedModelVars == <<published, served>>

Init ==
    /\ published = << >>
    /\ served = [r \in Replicas |-> 0]

Publish ==
    /\ \E run \in Runs : published' = Append(published, run)
    /\ UNCHANGED served

Refresh(r) ==
    /\ \E n \in 1..Len(published) :
          n >= served[r] /\ served' = [served EXCEPT ![r] = n]
    /\ UNCHANGED published

Forget(r) ==
    /\ served' = [served EXCEPT ![r] = 0]
    /\ UNCHANGED published

Next == Publish \/ \E r \in Replicas : Refresh(r) \/ Forget(r)

Spec == Init /\ [][Next]_servedModelVars
=============================================================================
