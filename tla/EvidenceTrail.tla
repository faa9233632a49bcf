----------------------------- MODULE EvidenceTrail -----------------------------
(***************************************************************************)
(* One transaction per job (jobs/runner, jobs/active_runner, jobs/persist, *)
(* evidence/store, findings/repository): the row of the job, then its      *)
(* evidence blobs, to files at once and to rows in the transaction, then   *)
(* its findings, upserted by key, then its status and its activity line.   *)
(* The INSERT of the row takes the SQLite write lock until the commit      *)
(* (JobLifecycle), so that only one transaction is open; a SELECT of       *)
(* anyone else sees the last commit (ProjectReports).                      *)
(***************************************************************************)
EXTENDS Naturals, Sequences, FiniteSets, FiniteSetsExt

CONSTANTS
    Jobs,
    Hints,      \* jobs of asset_hints, which reads what others have found
    Given,      \* Given[j]: the "candidates" j's config may have, None for none
    Target,     \* Target[j]: the host that j was started for
    Blobs,      \* Blobs[j]: evidence of j's result, a sequence of [name, size]
    Facts,      \* Facts[j]: its findings, a sequence of [key, name, conf]
    Flagged,    \* hosts whose name matches a rule of asset_hints
    Limit,      \* PER_JOB_LIMIT_BYTES
    None        \* no evidence; nobody holds the lock

(* Blobs have names and facts may lack one. *)
ASSUME TrailAssumption ==
    /\ Limit \in Nat
    /\ None \notin Jobs /\ Hints \subseteq Jobs
    /\ IsFiniteSet(Flagged)
    /\ \A j \in Jobs :
          /\ Blobs[j] \in Seq({Blobs[j][i] : i \in DOMAIN Blobs[j]})
          /\ \A i \in DOMAIN Blobs[j] : Blobs[j][i].name # None /\ Blobs[j][i].size \in Nat
          /\ Facts[j] \in Seq({Facts[j][i] : i \in DOMAIN Facts[j]})

VARIABLES
    pc,         \* where each job is
    files,      \* files on disk: [job, name, copy, size]
    db,         \* the committed tables
    writer,     \* the job whose transaction is open
    candidates, \* the names that its config brings
    draft,      \* the tables as the open transaction has them
    result,     \* the ModuleRunResult that is being stored
    remaining,  \* what is left of the job's byte budget
    ids,        \* evidence_id_by_name: the row of each name stored so far
    next        \* the blob, then the finding, that is stored next

disk == <<files, db>>
transaction == <<writer, candidates, draft, result, remaining, ids, next>>
vars == <<pc, disk, transaction>>

Empty == [jobs |-> {}, log |-> {}, evidence |-> {}, findings |-> {}]

NoResult == [status |-> "failed", blobs |-> <<>>, facts |-> <<>>]

Init ==
    /\ pc = [j \in Jobs |-> "idle"]
    /\ files = {}
    /\ db = Empty
    /\ writer = None
    /\ candidates = None
    /\ draft = Empty
    /\ result = NoResult
    /\ remaining = 0
    /\ ids = {}
    /\ next = 1

Goto(j, from, to) ==
    /\ pc[j] = from
    /\ pc' = [pc EXCEPT ![j] = to]

--------------------------------------------------------------------------------
(* The INSERT of the job's row, and the flush that takes the write lock. *)
Begin(j) ==
    /\ Goto(j, "idle", "gate")
    /\ writer = None
    /\ writer' = j
    /\ candidates' \in Given[j]
    /\ draft' = [db EXCEPT !.jobs = @ \cup {[job |-> j, status |-> "running"]}]
    /\ result' = NoResult
    /\ remaining' = Limit
    /\ ids' = {}
    /\ next' = 1
    /\ UNCHANGED disk

(* Another transaction holds the lock for longer than the driver waits. *)
LockTimeout(j) ==
    /\ Goto(j, "idle", "failed")
    /\ writer # None
    /\ UNCHANGED <<disk, transaction>>

Line(j, status, blocked) ==
    [job |-> j, status |-> status, blocked |-> blocked,
     evidence |-> Len(result.blobs), findings |-> Len(result.facts)]

(* The final status of the row, and the line of the activity log. *)
Finished(j, status, blocked) ==
    [draft EXCEPT !.jobs = {r \in @ : r.job # j} \cup {[job |-> j, status |-> status]},
                  !.log = @ \cup {Line(j, status, blocked)}]

(* Broken variant: the refusal is returned before it is logged. *)
BlockedUnlogged(j) ==
    /\ Goto(j, "gate", "finished")
    /\ draft' = [draft EXCEPT !.jobs = {r \in @ : r.job # j}
                                         \cup {[job |-> j, status |-> "failed"]}]
    /\ UNCHANGED <<disk, writer, candidates, result, remaining, ids, next>>

(* The gate refuses, or an active job's target does not resolve. *)
Blocked(j) ==
    /\ Goto(j, "gate", "finished")
    /\ draft' = Finished(j, "failed", TRUE)
    /\ UNCHANGED <<disk, writer, candidates, result, remaining, ids, next>>

CandidateTypes == {"candidate_hostname", "ptr_name"}

(* Broken variant: names from reverse DNS are forgotten. *)
KnownHostnames(j) ==
    {f.key.value : f \in {g \in draft.findings : g.key.type = "candidate_hostname"}}

(* _known_candidates, in the job's own transaction. *)
Known(j) ==
    {f.key.value : f \in {g \in draft.findings : g.key.type \in CandidateTypes}}

(* The candidates of asset_hints: the request's own, or else the known ones. *)
NamesFor(j) == IF candidates # None THEN candidates ELSE Known(j)

(* asset_hints: a hint for every name with a rule, of the candidates, or of *)
(* the target if there are none.                                           *)
HintFacts(j) ==
    LET names == IF NamesFor(j) = {} THEN {Target[j]} ELSE NamesFor(j)
    IN  {[key |-> [type |-> "asset_hint", value |-> h], name |-> None,
          conf |-> "derived-hint"] : h \in names \cap Flagged}

Orders(S) == {s \in [1..Cardinality(S) -> S] : \A x \in S : \E i \in DOMAIN s : s[i] = x}

FactsOf(j) == IF j \in Hints THEN Orders(HintFacts(j)) ELSE {Facts[j]}

(* The module runs: it succeeds, or fails with or without evidence.        *)
Run(j) ==
    /\ Goto(j, "gate", "evidence")
    /\ \/ \E facts \in FactsOf(j) :
             result' = [status |-> "succeeded", blobs |-> Blobs[j], facts |-> facts]
       \/ result' = [NoResult EXCEPT !.blobs = Blobs[j]]
       \/ result' = NoResult
    /\ UNCHANGED <<disk, writer, candidates, draft, remaining, ids, next>>

(* Broken variant: a second blob of the same name overwrites the first. *)
FirstCopy(j, name) == 0

(* The first of name, name-1, name-1-2, ... that is no file of the job yet. *)
FreeCopy(j, name) ==
    Min({c \in 0..next : ~\E f \in files : f.job = j /\ f.name = name /\ f.copy = c})

(* Broken variant: only an exhausted budget cuts a blob. *)
KeptUnlessSpent(size) == IF remaining > 0 THEN size ELSE 0

Kept(size) == IF size <= remaining THEN size ELSE remaining

(* EvidenceStore.write, then the row: cut to the budget, never clobbering. *)
StoreBlob(j) ==
    /\ pc[j] = "evidence"
    /\ next <= Len(result.blobs)
    /\ LET blob == result.blobs[next]
           file == [job |-> j, name |-> blob.name,
                    copy |-> FreeCopy(j, blob.name), size |-> Kept(blob.size)]
           row == [file |-> file, truncated |-> blob.size > remaining \/ remaining = 0]
       IN  /\ files' = {f \in files : <<f.job, f.name, f.copy>> #
                                      <<file.job, file.name, file.copy>>} \cup {file}
           /\ draft' = [draft EXCEPT !.evidence = @ \cup {row}]
           /\ ids' = {e \in ids : e.file.name # blob.name} \cup {row}
           /\ remaining' = remaining - file.size
    /\ next' = next + 1
    /\ UNCHANGED <<pc, db, writer, candidates, result>>

EvidenceStored(j) ==
    /\ Goto(j, "evidence", "findings")
    /\ next = Len(result.blobs) + 1
    /\ next' = 1
    /\ UNCHANGED <<disk, writer, candidates, draft, result, remaining, ids>>

(* Broken variant: names are looked up among the evidence of all jobs. *)
EvidenceForAnyJob(name) ==
    LET named == {e \in draft.evidence : e.file.name = name}
    IN  IF named = {} THEN None ELSE CHOOSE e \in named : TRUE

(* evidence_id_by_name.get: of two blobs with one name the later counts. *)
EvidenceFor(name) ==
    LET named == {e \in ids : e.file.name = name}
    IN  IF named = {} THEN None ELSE CHOOSE e \in named : TRUE

(* Broken variant: without autoflush the job's own additions are not seen. *)
ExistingCommitted(key) == {f \in db.findings : f.key = key}

(* The rows the SELECT of upsert_findings returns: the session autoflushes, *)
(* so it sees the findings this job has added before.                       *)
Existing(key) == {f \in draft.findings : f.key = key}

(* Broken variant: a run without evidence clears the link. *)
UpdatedAlways(f, j, evidence) == [f EXCEPT !.job = j, !.evidence = evidence]

(* An update keeps the target and the confidence of the INSERT, and takes   *)
(* the job, and the evidence if there is any.                               *)
Updated(f, j, evidence) ==
    [f EXCEPT !.job = j, !.evidence = IF evidence = None THEN @ ELSE evidence]

Upsert(j) ==
    /\ pc[j] = "findings"
    /\ next <= Len(result.facts)
    /\ LET fact == result.facts[next]
           evidence == EvidenceFor(fact.name)
           old == Existing(fact.key)
           new == IF old = {}
                  THEN {[key |-> fact.key, job |-> j, target |-> Target[j],
                         conf |-> fact.conf, evidence |-> evidence]}
                  ELSE {Updated(f, j, evidence) : f \in old}
       IN  /\ Cardinality(old) <= 1   \* one_or_none raises otherwise
           /\ draft' = [draft EXCEPT !.findings = (@ \ old) \cup new]
    /\ next' = next + 1
    /\ UNCHANGED <<pc, disk, writer, candidates, result, remaining, ids>>

Finish(j) ==
    /\ Goto(j, "findings", "finished")
    /\ next = Len(result.facts) + 1
    /\ draft' = Finished(j, result.status, FALSE)
    /\ UNCHANGED <<disk, writer, candidates, result, remaining, ids, next>>

Commit(j) ==
    /\ Goto(j, "finished", "done")
    /\ db' = draft
    /\ writer' = None
    /\ draft' = Empty
    /\ UNCHANGED <<files, candidates, result, remaining, ids, next>>

(* A full disk, a database error, or the process is killed: the transaction *)
(* is gone, the files stay.                                                 *)
Abort(j) ==
    /\ writer = j
    /\ pc' = [pc EXCEPT ![j] = "failed"]
    /\ writer' = None
    /\ draft' = Empty
    /\ UNCHANGED <<disk, candidates, result, remaining, ids, next>>

Next ==
    \E j \in Jobs : \/ Begin(j) \/ LockTimeout(j) \/ Blocked(j) \/ Run(j)
                    \/ StoreBlob(j) \/ EvidenceStored(j) \/ Upsert(j)
                    \/ Finish(j) \/ Commit(j) \/ Abort(j)

Spec == Init /\ [][Next]_vars

--------------------------------------------------------------------------------
RowsOf(F) == [file : F, truncated : BOOLEAN]

(* Type invariant: rows are of files that exist, findings of rows.         *)
TypeOK ==
    /\ pc \in [Jobs -> {"idle", "gate", "evidence", "findings", "finished",
                        "done", "failed"}]
    /\ writer \in Jobs \cup {None}
    /\ remaining \in 0..Limit
    /\ \A t \in {db, draft} :
          /\ t.jobs \subseteq [job : Jobs, status : {"running", "succeeded", "failed"}]
          /\ t.evidence \subseteq RowsOf(files)
          /\ \A f \in t.findings :
                f.job \in Jobs /\ f.evidence \in t.evidence \cup {None}

(* "The database keeps only metadata": whatever fails in between, every     *)
(* evidence row a SELECT can return has a file of its own with the content  *)
(* it describes, although files are written outside the transaction and two *)
(* blobs of a job may have one name.                                        *)
RowsHaveFiles ==
    \A e \in db.evidence :
        /\ e.file \in files
        /\ \A d \in db.evidence :
              <<d.file.job, d.file.name, d.file.copy>> =
              <<e.file.job, e.file.name, e.file.copy>> => d = e

(* The bytes on disk that are j's: each is one of some file of j. *)
Bytes(j) == UNION {{f} \X (1..f.size) : f \in {g \in files : g.job = j}}

(* "A per-job budget bounds total retained bytes": the files of a job      *)
(* together stay within it, over all its blobs and also when it aborts.    *)
BudgetIsKept == \A j \in Jobs : Cardinality(Bytes(j)) <= Limit

FilesAreAccountedFor == RowsHaveFiles /\ BudgetIsKept

(* "Findings are upserted by (project_id, finding_type, value)": there is   *)
(* never a second row for a key, also for a key that a job reports twice    *)
(* or that several jobs report, so one_or_none never raises.                *)
OneFindingPerKey ==
    \A F \in {db.findings, draft.findings} :
        \A f, g \in F : f.key = g.key => f = g

(* "Re-running a module updates a finding's last_seen without destroying    *)
(* earlier evidence": evidence rows and files stay, and a finding that has  *)
(* evidence goes on having some.                                            *)
EvidenceIsKept ==
    [][/\ db.evidence \subseteq db'.evidence
       /\ files \subseteq files'
       /\ \A f \in db.findings : \E g \in db'.findings :
             g.key = f.key /\ (f.evidence # None => g.evidence # None)]_vars

(* "A normalized observation linked to its evidence": the evidence of a     *)
(* finding is of a job that reported the finding's key from that evidence,  *)
(* also after updates by other jobs that had none.                          *)
EvidenceBacksFinding ==
    \A f \in db.findings : f.evidence # None =>
        \E i \in DOMAIN Facts[f.evidence.file.job] :
            LET fact == Facts[f.evidence.file.job][i]
            IN  fact.key = f.key /\ fact.name = f.evidence.file.name

(* The job list, the activity log and the tables of results tell one story: *)
(* a job whose row can be read has ended, has one line in the log, with its *)
(* status and the number of its evidence rows, and a refused one has left   *)
(* neither evidence nor findings.                                           *)
JobsAreLogged ==
    /\ {line.job : line \in db.log} = {row.job : row \in db.jobs}
    /\ \A line \in db.log :
          /\ \A other \in db.log : other.job = line.job => other = line
          /\ line.status # "running"
          /\ \A row \in db.jobs : row.job = line.job => row.status = line.status
          /\ Cardinality({e \in db.evidence : e.file.job = line.job}) = line.evidence
          /\ line.blocked => \A f \in db.findings : f.job # line.job

Candidates(F) == {f.key.value : f \in {g \in F : g.key.type \in CandidateTypes}}
Hinted(F) == {f.key.value : f \in {g \in F : g.key.type = "asset_hint"}}

(* What a job of asset_hints is to classify, its request's own names if any. *)
Classified(F) == IF candidates = None THEN Candidates(F) ELSE candidates

(* asset_hints "looks at hostnames already discovered": when its job has    *)
(* succeeded, every flagged name that is committed by then has its hint:    *)
(* none is missed because another job commits names while hints are made.   *)
(* If the request brings names of its own these have theirs, and nothing is *)
(* said of the others.                                                     *)
HintsAreComplete ==
    [][\A j \in Hints :
          [job |-> j, status |-> "succeeded"] \in db'.jobs \ db.jobs =>
              Classified(db'.findings) \cap Flagged \subseteq Hinted(db'.findings)]_vars

(* "Every finding line cites its source and the evidence file that backs    *)
(* it": the line's target and confidence are those that the job of the      *)
(* evidence reported.  Violated: the key has no host in it, and an update   *)
(* takes job and evidence but neither target nor confidence.                *)
LinesAreBacked ==
    \A f \in db.findings : f.evidence # None =>
        LET job == f.evidence.file.job
        IN  /\ f.target = Target[job]
            /\ \E i \in DOMAIN Facts[job] :
                  Facts[job][i] = [key |-> f.key, name |-> f.evidence.file.name,
                                   conf |-> f.conf]
================================================================================
