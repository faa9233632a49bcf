------------------------------ MODULE ScopeLedger ------------------------------
(***************************************************************************)
(* What the scope and attestation tables promise to the rest of the app,   *)
(* with every request atomic: adding a scope entry retires every current   *)
(* attestation, an attestation covers exactly the entries that are enabled *)
(* when it is recorded, and an active job sends its first request only if  *)
(* some attestation covered an entry that allows its target, and follows a *)
(* redirect only to a host that such an entry allows.                      *)
(***************************************************************************)
CONSTANTS
    Entries,    \* scope entry rows (one per POST .../scope request)
    Records,    \* authorization records (one per POST .../attestation request)
    Jobs,       \* active jobs
    Targets,    \* hosts a job may be pointed at or redirected to
    Target,     \* Target[j]: the host that job j was started against
    Aims,       \* Aims[j]: the hosts that its first request may go to
    Allowing    \* Allowing[x]: the rows of Entries whose value allows host x

VARIABLES
    scope,      \* enabled entries
    current,    \* records not invalidated
    covers,     \* covers[r]: the entries enabled when r was recorded
    contacted   \* contacted[j]: hosts job j has sent traffic to

vars == <<scope, current, covers, contacted>>

Init ==
    /\ scope = {}
    /\ current = {}
    /\ covers = [r \in Records |-> {}]
    /\ contacted = [j \in Jobs |-> {}]

Add(e) ==
    /\ e \notin scope
    /\ scope' = scope \cup {e}
    /\ current' = {}
    /\ UNCHANGED <<covers, contacted>>

Attest(r) ==
    /\ scope # {}
    /\ covers[r] = {}
    /\ current' = current \cup {r}
    /\ covers' = [covers EXCEPT ![r] = scope]
    /\ UNCHANGED <<scope, contacted>>

Attested(x) == \E r \in Records : covers[r] \cap Allowing[x] # {}

Contact(j, x) ==
    /\ contacted' = [contacted EXCEPT ![j] = @ \cup {x}]
    /\ UNCHANGED <<scope, current, covers>>

Ask(j, x) ==
    /\ contacted[j] = {}
    /\ Attested(Target[j])
    /\ x \in Aims[j]
    /\ Contact(j, x)

Follow(j, x) ==
    /\ contacted[j] # {}
    /\ Attested(x)
    /\ Contact(j, x)

Next ==
    \/ \E e \in Entries : Add(e)
    \/ \E r \in Records : Attest(r)
    \/ \E j \in Jobs, x \in Targets : Ask(j, x) \/ Follow(j, x)

Spec == Init /\ [][Next]_vars
================================================================================
