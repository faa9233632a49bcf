-------------------------------- MODULE EventLog --------------------------------
(***************************************************************************)
(* What a watcher of a job may rely on: it sees the events of the job's    *)
(* log in order, each exactly once, and is told that the log is over only  *)
(* after it has seen the terminal event.                                   *)
(***************************************************************************)
EXTENDS Naturals

CONSTANTS Watchers, None

VARIABLES
    length,     \* events appended so far
    verdictAt,  \* index of the first terminal event, or None
    seen,       \* seen[w]: how many events watcher w has seen
    over        \* watchers that were told the log is over

vars == <<length, verdictAt, seen, over>>

Init ==
    /\ length = 0
    /\ verdictAt = None
    /\ seen = [w \in Watchers |-> 0]
    /\ over = {}

Append ==
    /\ length' = length + 1
    /\ verdictAt' \in {verdictAt} \cup IF verdictAt = None THEN {length'} ELSE {}
    /\ UNCHANGED <<seen, over>>

See(w) ==
    /\ seen[w] < length
    /\ seen' = [seen EXCEPT ![w] = @ + 1]
    /\ UNCHANGED <<length, verdictAt, over>>

Close(w) ==
    /\ verdictAt # None
    /\ verdictAt <= seen[w]
    /\ over' = over \cup {w}
    /\ UNCHANGED <<length, verdictAt, seen>>

(* A watcher may ask again; events can follow the terminal one. *)
Reopen(w) ==
    /\ over' = over \ {w}
    /\ UNCHANGED <<length, verdictAt, seen>>

Next == Append \/ \E w \in Watchers : See(w) \/ Close(w) \/ Reopen(w)

Spec == Init /\ [][Next]_vars
================================================================================
