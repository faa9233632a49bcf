--------------------------------- MODULE MCJobs ---------------------------------
(***************************************************************************)
(* Three components behind a background job, which share no state here:    *)
(* its path through the manager and the runner, the stream of its events   *)
(* and the supervision of its process.  A behaviour is of one of them; the *)
(* run checks all.                                                         *)
(***************************************************************************)
EXTENDS JobLifecycle, EventStream, ProcessSupervisor

VARIABLE part

parts == <<vars, streamVars, processVars, part>>

MCInit ==
    /\ part \in {"job", "stream", "process"}
    /\ Init /\ StreamInit /\ ProcessInit
    /\ cancel => part = "process"

MCNext ==
    \/ part = "job" /\ Next /\ UNCHANGED <<streamVars, processVars, part>>
    \/ part = "stream" /\ StreamNext /\ UNCHANGED <<vars, processVars, part>>
    \/ part = "process" /\ ProcessNext /\ UNCHANGED <<vars, streamVars, part>>

(* The fairness of each component, in the behaviours that are of it: a job  *)
(* that nobody submits has nothing to do in the others.                    *)
MCFairness ==
    /\ Fairness
    /\ \A w \in Watchers : /\ WF_streamVars(StreamStep(w))
                          /\ WF_streamVars(part = "stream" /\ BrowserStep(w))
    /\ WF_processVars(part = "process" /\ Supervise)
    /\ \A s \in Streams : WF_processVars(Read(s))

MCSpec == MCInit /\ [][MCNext]_parts /\ MCFairness
================================================================================
