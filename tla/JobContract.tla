------------------------------ MODULE JobContract ------------------------------
(***************************************************************************)
(* What a background job promises to whoever watches it.  Its row is       *)
(* written once, with the job's outcome, and never changes.  Its event log *)
(* announces one verdict: the outcome of a row that is already durable, or *)
(* an error, after which no row is ever written.  A restart of the app     *)
(* loses the announcements, not the rows.                                  *)
(***************************************************************************)
CONSTANTS
    Jobs,
    Outcomes,   \* statuses a job can end with
    None, Error \* no row or verdict yet; the verdict of a crashed job

VARIABLES
    row,        \* row[j]: the committed status of job j
    verdict,    \* verdict[j]: what its terminal event announced
    dead        \* jobs whose thread is gone

vars == <<row, verdict, dead>>

Init ==
    /\ row = [j \in Jobs |-> None]
    /\ verdict = [j \in Jobs |-> None]
    /\ dead = {}

Record(j) ==
    /\ row[j] = None
    /\ verdict[j] = None
    /\ j \notin dead
    /\ \E s \in Outcomes : row' = [row EXCEPT ![j] = s]
    /\ UNCHANGED <<verdict, dead>>

Announce(j) ==
    /\ row[j] # None
    /\ verdict[j] = None
    /\ j \notin dead
    /\ verdict' = [verdict EXCEPT ![j] = row[j]]
    /\ dead' = dead \cup {j}
    /\ UNCHANGED row

GiveUp(j) ==
    /\ row[j] = None
    /\ verdict[j] = None
    /\ j \notin dead
    /\ verdict' = [verdict EXCEPT ![j] = Error]
    /\ dead' = dead \cup {j}
    /\ UNCHANGED row

Restart ==
    /\ verdict' = [j \in Jobs |-> None]
    /\ \E D \in SUBSET Jobs : dead' = dead \cup D
    /\ UNCHANGED row

Next ==
    \/ \E j \in Jobs : Record(j) \/ Announce(j) \/ GiveUp(j)
    \/ Restart

Spec == Init /\ [][Next]_vars
================================================================================
