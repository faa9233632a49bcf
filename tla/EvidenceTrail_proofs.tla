-------------------------- MODULE EvidenceTrail_proofs --------------------------
(***************************************************************************)
(* Proofs about EvidenceTrail for any jobs, evidence and findings.  The    *)
(* inductive invariant says what the open transaction may differ in from   *)
(* the committed tables, which files the job has written by then, and what *)
(* of its result is already in its draft.                                  *)
(***************************************************************************)
EXTENDS EvidenceTrail, FiniteSetTheorems, WellFoundedInduction, TLAPS

Places == {"idle", "gate", "evidence", "findings", "finished", "done", "failed"}
Busy == {"gate", "evidence", "findings", "finished"}
Ends == {"succeeded", "failed"}

Name(file) == <<file.job, file.name, file.copy>>

(* A job is in its transaction exactly while it holds the lock. *)
TurnInv ==
    /\ pc \in [Jobs -> Places]
    /\ writer \in Jobs \cup {None}
    /\ \A j \in Jobs : pc[j] \in Busy <=> writer = j
    /\ remaining \in 0..Limit
    /\ next \in Nat \ {0}

HintList(facts) ==
    /\ facts \in Seq({facts[i] : i \in DOMAIN facts})
    /\ \A i \in DOMAIN facts : facts[i].name = None /\ facts[i].key.type = "asset_hint"

(* The result that is stored is the job's, or empty. *)
ResultInv ==
    writer # None =>
        /\ result.status \in Ends
        /\ pc[writer] = "gate" => result = NoResult /\ next = 1
        /\ result.blobs \in {<<>>, Blobs[writer]}
        /\ \/ result.facts = <<>>
           \/ writer \notin Hints /\ result.facts = Facts[writer]
           \/ writer \in Hints /\ HintList(result.facts)

(* Only a job that has passed its gate has files, and the open transaction  *)
(* has used no copy number yet that it has not counted up to.               *)
FilesInv ==
    /\ \A f \in files :
          /\ f.job \in Jobs /\ f.copy \in Nat
          /\ pc[f.job] \notin {"idle", "gate"}
          /\ f.job = writer /\ pc[writer] = "evidence" => f.copy < next
    /\ \A f, g \in files : Name(f) = Name(g) => f = g

Rows(t) ==
    /\ t.evidence \subseteq RowsOf(files)
    /\ \A d, e \in t.evidence : Name(d.file) = Name(e.file) => d = e

Mine == {e \in draft.evidence : e.file.job = writer}

(* The draft's evidence is what is committed and the writer's own rows. *)
RowsInv ==
    /\ Rows(db) /\ Rows(draft)
    /\ \A e \in db.evidence : pc[e.file.job] = "done"
    /\ writer # None =>
          /\ db.evidence \subseteq draft.evidence
          /\ \A e \in draft.evidence : e \in db.evidence \/ e.file.job = writer
          /\ ids \subseteq Mine
          /\ \A e \in ids : e.file.name # None
          /\ IsFiniteSet(Mine)
          /\ Cardinality(Mine) = IF pc[writer] = "gate" THEN 0
                                 ELSE IF pc[writer] = "evidence" THEN next - 1
                                 ELSE Len(result.blobs)

Backs(e, key) ==
    \E i \in DOMAIN Facts[e.file.job] :
        Facts[e.file.job][i].key = key /\ Facts[e.file.job][i].name = e.file.name

Row(f) == [key |-> f.key, job |-> f.job, target |-> f.target, conf |-> f.conf,
           evidence |-> f.evidence]

Findings(t) ==
    /\ \A f \in t.findings :
          /\ f = Row(f) /\ f.job \in Jobs
          /\ f.evidence # None => f.evidence \in t.evidence /\ Backs(f.evidence, f.key)
    /\ \A f, g \in t.findings : f.key = g.key => f = g

Keeps(f, g) == g.key = f.key /\ (f.evidence # None => g.evidence # None)

FindingsInv ==
    /\ Findings(db) /\ Findings(draft)
    /\ \A f \in db.findings : pc[f.job] = "done"
    /\ writer # None =>
          /\ \A f \in draft.findings : f.job = writer \/ pc[f.job] = "done"
          /\ \A f \in db.findings : \E g \in draft.findings : Keeps(f, g)
          /\ pc[writer] = "gate" => draft.findings = db.findings

(* The draft's rows of jobs and log differ in those of the writer. *)
LogInv ==
    /\ db = [jobs |-> db.jobs, log |-> db.log, evidence |-> db.evidence,
             findings |-> db.findings]
    /\ \A r \in db.jobs :
          r.job \in Jobs /\ r.status \in Ends /\ r = [job |-> r.job, status |-> r.status]
    /\ \A r \in db.jobs : pc[r.job] = "done"
    /\ JobsAreLogged
    /\ writer # None =>
          \A line \in db.log : line.blocked => \A f \in draft.findings : f.job # line.job

DraftInv ==
    /\ writer = None => draft = Empty
    /\ writer # None =>
          /\ draft = [jobs |-> draft.jobs, log |-> draft.log, evidence |-> draft.evidence,
                      findings |-> draft.findings]
          /\ pc[writer] # "finished" =>
                /\ draft.jobs = db.jobs \cup {[job |-> writer, status |-> "running"]}
                /\ draft.log = db.log
          /\ pc[writer] = "finished" =>
                \E status \in Ends, blocked \in BOOLEAN :
                    /\ draft.jobs = db.jobs \cup {[job |-> writer, status |-> status]}
                    /\ draft.log = db.log \cup {Line(writer, status, blocked)}
                    /\ status = "succeeded" => result.status = "succeeded"
                    /\ blocked => draft.findings = db.findings

HasHint(i) == \E f \in draft.findings : f.key = result.facts[i].key

(* A successful run of asset_hints has a hint for every flagged name, and   *)
(* those it has counted up to are in its draft.                             *)
HintsInv ==
    writer \in Hints /\ pc[writer] # "gate" /\ result.status = "succeeded" =>
        /\ HintList(result.facts)
        /\ \A h \in Classified(draft.findings) \cap Flagged :
              \E i \in DOMAIN result.facts :
                  result.facts[i].key = [type |-> "asset_hint", value |-> h]
        /\ pc[writer] = "findings" => \A i \in DOMAIN result.facts : i < next => HasHint(i)
        /\ pc[writer] = "finished" => \A i \in DOMAIN result.facts : HasHint(i)

IInv ==
    TurnInv /\ ResultInv /\ FilesInv /\ RowsInv /\ FindingsInv /\ LogInv /\ DraftInv /\ HintsInv
--------------------------------------------------------------------------------
(* Where a step leaves the jobs. *)
LEMMA Moved ==
    ASSUME TurnInv, NEW j \in Jobs, NEW p \in Places, pc' = [pc EXCEPT ![j] = p]
    PROVE  /\ pc' \in [Jobs -> Places]
           /\ pc'[j] = p
           /\ \A k \in Jobs \ {j} : pc'[k] = pc[k]
BY DEF TurnInv

(* What is committed is not the writer's, and stays as it is while the      *)
(* writer moves.                                                           *)
LEMMA Committed ==
    ASSUME IInv, NEW j \in Jobs, NEW p \in Places, pc[j] \in Busy,
           pc' = [pc EXCEPT ![j] = p]
    PROVE  /\ writer = j /\ j # None
           /\ pc' \in [Jobs -> Places] /\ pc'[j] = p
           /\ \A k \in Jobs \ {j} : pc'[k] = pc[k]
           /\ \A e \in db.evidence : e.file.job # j /\ pc'[e.file.job] = "done"
           /\ \A f \in db.findings : f.job # j /\ pc'[f.job] = "done"
           /\ \A f \in draft.findings : f.job = j \/ pc'[f.job] = "done"
           /\ \A r \in db.jobs : r.job # j /\ pc'[r.job] = "done"
<1>1. writer = j /\ j # None /\ pc[j] # "done"
  BY TrailAssumption DEF IInv, TurnInv, Busy
<1>2. /\ pc' \in [Jobs -> Places] /\ pc'[j] = p
      /\ \A k \in Jobs \ {j} : pc'[k] = pc[k]
  BY Moved DEF IInv
<1>3. ASSUME NEW e \in db.evidence
      PROVE  e.file.job # j /\ pc'[e.file.job] = "done"
  <2>1. e.file.job \in Jobs /\ pc[e.file.job] = "done"
    BY DEF IInv, RowsInv, Rows, RowsOf, FilesInv
  <2>2. QED
    BY <1>1, <1>2, <2>1
<1>4. ASSUME NEW f \in db.findings
      PROVE  f.job # j /\ pc'[f.job] = "done"
  <2>1. f.job \in Jobs /\ pc[f.job] = "done"
    BY DEF IInv, FindingsInv, Findings
  <2>2. QED
    BY <1>1, <1>2, <2>1
<1>5. ASSUME NEW f \in draft.findings, f.job # j
      PROVE  pc'[f.job] = "done"
  <2>1. f.job \in Jobs /\ pc[f.job] = "done"
    BY <1>1, <1>5 DEF IInv, FindingsInv, Findings
  <2>2. QED
    BY <1>2, <1>5, <2>1
<1>6. ASSUME NEW r \in db.jobs
      PROVE  r.job # j /\ pc'[r.job] = "done"
  <2>1. r.job \in Jobs /\ pc[r.job] = "done"
    BY DEF IInv, LogInv
  <2>2. QED
    BY <1>1, <1>2, <2>1
<1>7. QED
  BY <1>1, <1>2, <1>3, <1>4, <1>5, <1>6

LEMMA Start == Init => IInv
<1> SUFFICES ASSUME Init PROVE IInv
  OBVIOUS
<1> USE DEF Init, Empty, NoResult
<1>1. TurnInv
  BY TrailAssumption DEF TurnInv, Places, Busy
<1>2. ResultInv /\ FilesInv /\ RowsInv /\ FindingsInv
  BY DEF ResultInv, FilesInv, RowsInv, Rows, FindingsInv, Findings
<1>3. LogInv /\ DraftInv
  BY DEF LogInv, DraftInv, JobsAreLogged
<1>4. HintsInv
  BY TrailAssumption, <1>1 DEF HintsInv, TurnInv, Busy
<1>5. QED
  BY <1>1, <1>2, <1>3, <1>4 DEF IInv

LEMMA BeginKeeps ==
    ASSUME IInv, NEW j \in Jobs, Begin(j)
    PROVE  IInv'
<1> USE DEF Begin, Goto, disk
<1>1. /\ pc' \in [Jobs -> Places]
      /\ pc'[j] = "gate" /\ pc[j] = "idle"
      /\ \A k \in Jobs \ {j} : pc'[k] = pc[k]
  BY Moved DEF IInv, Places, TurnInv
<1>2. j # None /\ writer' = j
  BY TrailAssumption
<1>3. TurnInv'
  BY <1>1, <1>2, TrailAssumption DEF IInv, TurnInv, Busy
<1>4. ResultInv'
  BY <1>1, <1>2 DEF ResultInv, NoResult, Ends
<1>5. FilesInv'
  BY <1>1, <1>2 DEF IInv, FilesInv, Name
<1>6. draft' = [jobs |-> db.jobs \cup {[job |-> j, status |-> "running"]},
                log |-> db.log, evidence |-> db.evidence, findings |-> db.findings]
  BY DEF IInv, LogInv
<1>7. RowsInv'
  <2>1. \A e \in db.evidence : e.file.job \in Jobs
    BY DEF IInv, RowsInv, Rows, RowsOf, FilesInv
  <2>2. \A e \in db.evidence : pc'[e.file.job] = "done" /\ e.file.job # j
    BY <1>1, <2>1 DEF IInv, RowsInv
  <2>3. Mine' = {}
    BY <1>2, <1>6, <2>2 DEF Mine
  <2>4. Rows(db)' /\ Rows(draft)'
    BY <1>6 DEF IInv, RowsInv, Rows, RowsOf, Name
  <2>5. QED
    BY <1>1, <1>2, <1>6, <2>2, <2>3, <2>4, FS_EmptySet DEF RowsInv
<1>8. FindingsInv'
  <2>1. Findings(db)' /\ Findings(draft)'
    BY <1>6 DEF IInv, FindingsInv, Findings, Backs, Row
  <2>2. \A f \in db.findings : f.job \in Jobs /\ pc'[f.job] = "done"
    BY <1>1 DEF IInv, FindingsInv, Findings
  <2>3. QED
    BY <1>1, <1>2, <1>6, <2>1, <2>2 DEF FindingsInv, Keeps
<1>9. LogInv'
  BY <1>1, <1>6 DEF IInv, LogInv, JobsAreLogged
<1>10. DraftInv'
  BY <1>1, <1>2, <1>6 DEF DraftInv
<1>11. HintsInv'
  BY <1>1, <1>2 DEF HintsInv
<1>12. QED
  BY <1>3, <1>4, <1>5, <1>7, <1>8, <1>9, <1>10, <1>11 DEF IInv

LEMMA LockTimeoutKeeps ==
    ASSUME IInv, NEW j \in Jobs, LockTimeout(j)
    PROVE  IInv'
<1> USE DEF LockTimeout, Goto, disk, transaction
<1>1. /\ pc' \in [Jobs -> Places]
      /\ pc'[j] = "failed" /\ pc[j] = "idle"
      /\ \A k \in Jobs \ {j} : pc'[k] = pc[k]
  BY Moved DEF IInv, Places, TurnInv
<1>2. writer # j /\ writer \in Jobs /\ pc'[writer] = pc[writer]
  BY <1>1 DEF IInv, TurnInv, Busy
<1>3. TurnInv'
  BY <1>1, <1>2 DEF IInv, TurnInv, Busy
<1>4. ResultInv' /\ DraftInv' /\ HintsInv'
  BY <1>2 DEF IInv, ResultInv, DraftInv, HintsInv, HintList, HasHint, Classified,
              Candidates, CandidateTypes, Line, Empty, NoResult
<1>5. FilesInv'
  BY <1>1, <1>2 DEF IInv, FilesInv, Name
<1>6. RowsInv'
  <2>1. \A e \in db.evidence : e.file.job \in Jobs
    BY DEF IInv, RowsInv, Rows, RowsOf, FilesInv
  <2>2. \A e \in db.evidence : pc'[e.file.job] = "done"
    BY <1>1, <2>1 DEF IInv, RowsInv
  <2>3. Mine' = Mine /\ Rows(db)' /\ Rows(draft)'
    BY DEF IInv, RowsInv, Rows, RowsOf, Name, Mine
  <2>4. QED
    BY <1>2, <2>2, <2>3 DEF IInv, RowsInv
<1>7. FindingsInv'
  <2>1. Findings(db)' /\ Findings(draft)'
    BY DEF IInv, FindingsInv, Findings, Backs, Row
  <2>2. \A f \in db.findings \cup draft.findings : f.job \in Jobs
    BY DEF IInv, FindingsInv, Findings
  <2>3. \A f \in db.findings \cup draft.findings : pc[f.job] = "done" => pc'[f.job] = "done"
    BY <1>1, <2>2
  <2>4. QED
    BY <1>2, <2>1, <2>3 DEF IInv, FindingsInv, Keeps
<1>8. LogInv'
  BY <1>1 DEF IInv, LogInv, JobsAreLogged
<1>9. QED
  BY <1>3, <1>4, <1>5, <1>6, <1>7, <1>8 DEF IInv

LEMMA BlockedKeeps ==
    ASSUME IInv, NEW j \in Jobs, Blocked(j)
    PROVE  IInv'
<1>1. /\ pc[j] = "gate" /\ pc' = [pc EXCEPT ![j] = "finished"]
      /\ files' = files /\ db' = db /\ writer' = writer /\ candidates' = candidates /\ result' = result
      /\ remaining' = remaining /\ ids' = ids /\ next' = next
      /\ draft' = Finished(j, "failed", TRUE)
  BY DEF Blocked, Goto, disk
<1>2. /\ writer = j /\ j # None
      /\ pc' \in [Jobs -> Places] /\ pc'[j] = "finished"
      /\ \A k \in Jobs \ {j} : pc'[k] = pc[k]
      /\ \A e \in db.evidence : pc'[e.file.job] = "done"
      /\ \A f \in db.findings : pc'[f.job] = "done"
      /\ \A f \in draft.findings : f.job = j \/ pc'[f.job] = "done"
      /\ \A r \in db.jobs : r.job # j /\ pc'[r.job] = "done"
  BY <1>1, Committed DEF Busy, Places
<1>3. result = NoResult /\ draft.findings = db.findings
  BY <1>1, <1>2 DEF IInv, ResultInv, FindingsInv
<1>4. PICK line : line = Line(j, "failed", TRUE)
  OBVIOUS
<1>5. /\ draft' = [jobs |-> draft'.jobs, log |-> draft'.log,
                   evidence |-> draft'.evidence, findings |-> draft'.findings]
      /\ draft'.jobs = db.jobs \cup {[job |-> j, status |-> "failed"]}
      /\ draft'.log = db.log \cup {line}
      /\ draft'.evidence = draft.evidence
      /\ draft'.findings = draft.findings
  <2>1. /\ draft = [jobs |-> draft.jobs, log |-> draft.log, evidence |-> draft.evidence,
                    findings |-> draft.findings]
        /\ draft.jobs = db.jobs \cup {[job |-> j, status |-> "running"]}
        /\ draft.log = db.log
    BY <1>1, <1>2 DEF IInv, DraftInv
  <2>2. {r \in draft.jobs : r.job # j} = db.jobs
    BY <1>2, <2>1
  <2>3. draft' = [jobs |-> db.jobs \cup {[job |-> j, status |-> "failed"]},
                  log |-> db.log \cup {line},
                  evidence |-> draft.evidence, findings |-> draft.findings]
    BY <1>1, <1>4, <2>1, <2>2 DEF Finished
  <2>4. QED
    BY <2>3
<1>6. TurnInv'
  BY <1>1, <1>2 DEF IInv, TurnInv, Busy
<1>7. ResultInv'
  BY <1>1, <1>2 DEF IInv, ResultInv, HintList
<1>8. FilesInv'
  BY <1>1, <1>2 DEF IInv, FilesInv, Name
<1>9. RowsInv'
  <2>1. Rows(db)' /\ Rows(draft)' /\ Mine' = Mine
    BY <1>1, <1>5 DEF IInv, RowsInv, Rows, RowsOf, Name, Mine
  <2>2. QED
    BY <1>1, <1>2, <1>3, <1>5, <2>1 DEF IInv, RowsInv, NoResult
<1>10. FindingsInv'
  <2>1. Findings(db)' /\ Findings(draft)'
    BY <1>1, <1>5 DEF IInv, FindingsInv, Findings, Backs, Row
  <2>2. QED
    BY <1>1, <1>2, <1>5, <2>1 DEF IInv, FindingsInv, Keeps
<1>11. LogInv'
  BY <1>1, <1>2, <1>5 DEF IInv, LogInv, JobsAreLogged
<1>12. DraftInv'
  <2>1. line = Line(j, "failed", TRUE)'
    BY <1>1, <1>4 DEF Line
  <2>2. QED
    BY <1>1, <1>2, <1>3, <1>5, <2>1 DEF DraftInv, Ends
<1>13. HintsInv'
  BY <1>1, <1>3 DEF HintsInv, NoResult
<1>14. QED
  BY <1>6, <1>7, <1>8, <1>9, <1>10, <1>11, <1>12, <1>13 DEF IInv

(* What asset_hints makes of the names it finds, in whatever order. *)
LEMMA HintsFound ==
    ASSUME NEW j \in Jobs, NEW facts \in Orders(HintFacts(j))
    PROVE  /\ HintList(facts)
           /\ \A h \in Classified(draft.findings) \cap Flagged :
                 \E i \in DOMAIN facts : facts[i].key = [type |-> "asset_hint", value |-> h]
<1> DEFINE names == IF NamesFor(j) = {} THEN {Target[j]} ELSE NamesFor(j)
           Hint(h) == [key |-> [type |-> "asset_hint", value |-> h], name |-> None,
                       conf |-> "derived-hint"]
           hints == [h \in names \cap Flagged |-> Hint(h)]
           S == HintFacts(j)
<1>1. S = {Hint(h) : h \in names \cap Flagged}
  BY DEF HintFacts
<1>2. IsFiniteSet(S)
  <2>1. IsFiniteSet(names \cap Flagged)
    BY TrailAssumption, FS_Subset
  <2>2. hints \in Surjection(names \cap Flagged, S)
    BY <1>1 DEF Surjection
  <2>3. QED
    BY <2>1, <2>2, FS_Surjection
<1>3. PICK n \in Nat : n = Cardinality(S)
  BY <1>2, FS_CardinalityType
<1>4. facts \in [1..n -> S] /\ \A x \in S : \E i \in DOMAIN facts : facts[i] = x
  BY <1>3 DEF Orders
<1>5. HintList(facts)
  <2>1. \A i \in DOMAIN facts : facts[i].name = None /\ facts[i].key.type = "asset_hint"
    BY <1>1, <1>4
  <2>2. facts \in [1..n -> {facts[i] : i \in DOMAIN facts}]
    BY <1>4
  <2>3. QED
    BY <2>1, <2>2 DEF HintList
<1>6. ASSUME NEW h \in Classified(draft.findings) \cap Flagged
      PROVE  \E i \in DOMAIN facts : facts[i].key = [type |-> "asset_hint", value |-> h]
  <2>1. h \in names \cap Flagged
    BY DEF Classified, Candidates, NamesFor, Known
  <2>2. Hint(h) \in S /\ Hint(h).key = [type |-> "asset_hint", value |-> h]
    BY <1>1, <2>1
  <2>3. QED
    BY <1>4, <2>2
<1>7. QED
  BY <1>5, <1>6

LEMMA RunKeeps ==
    ASSUME IInv, NEW j \in Jobs, Run(j)
    PROVE  IInv'
<1> USE DEF Run, Goto, disk
<1>1. pc[j] = "gate" /\ pc[j] \in Busy /\ "evidence" \in Places
  BY DEF Busy, Places
<1>2. /\ writer = j /\ j # None
      /\ pc' \in [Jobs -> Places] /\ pc'[j] = "evidence"
      /\ \A k \in Jobs \ {j} : pc'[k] = pc[k]
      /\ \A e \in db.evidence : pc'[e.file.job] = "done"
      /\ \A f \in db.findings : pc'[f.job] = "done"
      /\ \A f \in draft.findings : f.job = j \/ pc'[f.job] = "done"
      /\ \A r \in db.jobs : r.job # j /\ pc'[r.job] = "done"
  BY <1>1, Committed
<1>3. next = 1
  BY <1>1, <1>2 DEF IInv, ResultInv
<1>4. TurnInv'
  BY <1>1, <1>2 DEF IInv, TurnInv, Busy
<1>5. ResultInv' /\ HintsInv'
  <2>1. CASE \E facts \in FactsOf(j) :
                result' = [status |-> "succeeded", blobs |-> Blobs[j], facts |-> facts]
    <3>1. PICK facts \in FactsOf(j) :
                result' = [status |-> "succeeded", blobs |-> Blobs[j], facts |-> facts]
      BY <2>1
    <3>2. CASE j \in Hints
      <4>1. /\ HintList(facts)
            /\ \A h \in Classified(draft.findings) \cap Flagged :
                 \E i \in DOMAIN facts : facts[i].key = [type |-> "asset_hint", value |-> h]
        BY <3>2, HintsFound DEF FactsOf
      <4>2. QED
        BY <1>2, <3>1, <3>2, <4>1 DEF ResultInv, HintsInv, HintList, Ends, Classified,
                                      Candidates, CandidateTypes
    <3>3. CASE j \notin Hints
      BY <1>2, <3>1, <3>3 DEF ResultInv, HintsInv, FactsOf, Ends
    <3>4. QED
      BY <3>2, <3>3
  <2>2. CASE result' = [NoResult EXCEPT !.blobs = Blobs[j]]
    BY <1>2, <2>2 DEF ResultInv, HintsInv, NoResult, Ends
  <2>3. CASE result' = NoResult
    BY <1>2, <2>3 DEF ResultInv, HintsInv, NoResult, Ends
  <2>4. QED
    BY <2>1, <2>2, <2>3
<1>6. FilesInv'
  BY <1>1, <1>2 DEF IInv, FilesInv, Name
<1>7. RowsInv'
  <2>1. Rows(db)' /\ Rows(draft)' /\ Mine' = Mine
    BY DEF IInv, RowsInv, Rows, RowsOf, Name, Mine
  <2>2. QED
    BY <1>1, <1>2, <1>3, <2>1 DEF IInv, RowsInv
<1>8. FindingsInv'
  <2>1. Findings(db)' /\ Findings(draft)'
    BY DEF IInv, FindingsInv, Findings, Backs, Row
  <2>2. QED
    BY <1>2, <2>1 DEF IInv, FindingsInv, Keeps
<1>9. LogInv' /\ DraftInv'
  BY <1>1, <1>2 DEF IInv, LogInv, JobsAreLogged, DraftInv
<1>10. QED
  BY <1>4, <1>5, <1>6, <1>7, <1>8, <1>9 DEF IInv

(* Some of finitely many numbers is the least. *)
LEMMA LeastIsThere ==
    ASSUME NEW n \in Nat, NEW S \in SUBSET (0..n), S # {}
    PROVE  Min(S) \in S
<1> DEFINE T == {0..x : x \in S}
<1>1. IsFiniteSet(0..n)
  BY FS_Interval
<1>2. T \subseteq SUBSET (0..n)
  OBVIOUS
<1>3. T \subseteq FiniteSubsetsOf(0..n)
  BY <1>1, <1>2, FS_Subset DEF FiniteSubsetsOf
<1>4. PICK t \in T : \A u \in T : ~(<<u, t>> \in StrictSubsetOrdering(0..n))
  <2>1. T # {}
    OBVIOUS
  <2> HIDE DEF T
  <2>2. IsWellFoundedOn(StrictSubsetOrdering(0..n), FiniteSubsetsOf(0..n))
    BY FS_StrictSubsetOrderingWellFounded
  <2> QED
    BY <1>3, <2>1, <2>2, WFMin
<1>5. PICK x \in S : t = 0..x
  OBVIOUS
<1>6. ASSUME NEW y \in S, ~(x <= y)
      PROVE  FALSE
  <2>1. 0..y \in T /\ 0..y \in SUBSET (0..n) /\ t \in SUBSET (0..n)
    BY <1>2
  <2>2. 0..y \subseteq 0..x /\ x \in 0..x /\ x \notin 0..y
    BY <1>6
  <2> QED
    BY <1>4, <1>5, <2>1, <2>2 DEF StrictSubsetOrdering
<1>7. QED
  BY <1>6 DEF Min

(* A file that is written has a name of its own: nothing is overwritten. *)
LEMMA FreshCopy ==
    ASSUME IInv, NEW j \in Jobs, pc[j] = "evidence", NEW name
    PROVE  /\ FreeCopy(j, name) \in 0..next
           /\ \A f \in files : Name(f) # <<j, name, FreeCopy(j, name)>>
<1> DEFINE S == {c \in 0..next : ~\E f \in files : f.job = j /\ f.name = name /\ f.copy = c}
<1>1. writer = j /\ next \in Nat
  BY DEF IInv, TurnInv, Busy
<1>2. \A f \in files : f.job = j => f.copy < next /\ f.copy \in Nat
  BY <1>1 DEF IInv, FilesInv
<1>3. next \in S
  BY <1>1, <1>2
<1>4. Min(S) \in S
  BY <1>1, <1>3, LeastIsThere
<1>5. FreeCopy(j, name) \in S
  BY <1>4 DEF FreeCopy
<1>6. QED
  BY <1>5 DEF Name

LEMMA StoreBlobKeeps ==
    ASSUME IInv, NEW j \in Jobs, StoreBlob(j)
    PROVE  IInv'
<1> DEFINE blob == result.blobs[next]
           copy == FreeCopy(j, blob.name)
           file == [job |-> j, name |-> blob.name, copy |-> copy, size |-> Kept(blob.size)]
           row == [file |-> file, truncated |-> blob.size > remaining \/ remaining = 0]
<1>1. /\ pc[j] = "evidence" /\ next <= Len(result.blobs)
      /\ files' = {f \in files : Name(f) # Name(file)} \cup {file}
      /\ draft' = [draft EXCEPT !.evidence = @ \cup {row}]
      /\ ids' = {e \in ids : e.file.name # blob.name} \cup {row}
      /\ remaining' = remaining - Kept(blob.size)
      /\ next' = next + 1
      /\ pc' = pc /\ db' = db /\ writer' = writer /\ candidates' = candidates /\ result' = result
  BY DEF StoreBlob, Name
<1>2. writer = j /\ j # None /\ next \in Nat \ {0} /\ remaining \in 0..Limit
  BY <1>1, TrailAssumption DEF IInv, TurnInv, Busy
<1>3. /\ next \in DOMAIN Blobs[j] /\ blob.name # None /\ blob.size \in Nat
  <2>1. result.blobs = Blobs[j]
    BY <1>1, <1>2 DEF IInv, ResultInv
  <2>2. next \in DOMAIN Blobs[j]
    BY <1>1, <1>2, <2>1, TrailAssumption
  <2>3. QED
    BY <2>1, <2>2, TrailAssumption
<1>4. copy \in 0..next /\ \A f \in files : Name(f) # Name(file)
  BY <1>1, FreshCopy DEF Name
<1>5. /\ Kept(blob.size) \in 0..remaining
      /\ remaining' \in 0..Limit
  BY <1>1, <1>2, <1>3, TrailAssumption DEF Kept
<1> HIDE DEF blob, copy
<1>6. PICK f0, r0 : /\ f0 = file /\ r0 = row
                   /\ f0.job = j /\ f0.name = blob.name /\ f0.copy = copy
                   /\ r0.file = f0 /\ r0 \in [file : {f0}, truncated : BOOLEAN]
  <2>1. /\ file.job = j /\ file.name = blob.name /\ file.copy = copy
        /\ row.file = file /\ row \in [file : {file}, truncated : BOOLEAN]
    OBVIOUS
  <2> HIDE DEF file, row
  <2>2. QED
    BY <2>1
<1>7. files' = files \cup {f0} /\ \A f \in files : Name(f) # Name(f0)
  BY <1>1, <1>4, <1>6
<1>8. /\ draft'.evidence = draft.evidence \cup {r0}
      /\ draft'.jobs = draft.jobs /\ draft'.log = draft.log
      /\ draft'.findings = draft.findings
      /\ draft' = [jobs |-> draft'.jobs, log |-> draft'.log,
                   evidence |-> draft'.evidence, findings |-> draft'.findings]
  <2>1. draft = [jobs |-> draft.jobs, log |-> draft.log, evidence |-> draft.evidence,
                 findings |-> draft.findings]
    BY <1>2 DEF IInv, DraftInv
  <2>2. draft' = [draft EXCEPT !.evidence = @ \cup {r0}]
    BY <1>1, <1>6
  <2>3. draft' = [jobs |-> draft.jobs, log |-> draft.log,
                  evidence |-> draft.evidence \cup {r0}, findings |-> draft.findings]
    BY <2>1, <2>2
  <2>4. QED
    BY <2>3
<1>9. ids' \subseteq ids \cup {r0}
  BY <1>1, <1>6
<1> HIDE DEF file, row
<1>10. TurnInv'
  BY <1>1, <1>2, <1>5 DEF IInv, TurnInv
<1>11. ResultInv'
  BY <1>1, <1>2 DEF IInv, ResultInv, HintList
<1>12. FilesInv'
  <2>1. ASSUME NEW f \in files'
        PROVE  /\ f.job \in Jobs /\ f.copy \in Nat
               /\ pc'[f.job] \notin {"idle", "gate"}
               /\ f.job = writer' /\ pc'[writer'] = "evidence" => f.copy < next'
    BY <1>1, <1>2, <1>4, <1>6, <1>7 DEF IInv, FilesInv
  <2>2. QED
    BY <1>1, <1>7, <2>1 DEF IInv, FilesInv
<1>13. RowsInv'
  <2>1. Rows(db)'
    BY <1>1, <1>7 DEF IInv, RowsInv, Rows, RowsOf
  <2>2. \A e \in draft.evidence : e.file \in files
    BY DEF IInv, RowsInv, Rows, RowsOf
  <2>3. Rows(draft)'
    BY <1>6, <1>7, <1>8, <2>2 DEF IInv, RowsInv, Rows, RowsOf
  <2>4. Mine' = Mine \cup {r0} /\ r0 \notin Mine
    BY <1>1, <1>2, <1>6, <1>7, <1>8, <2>2 DEF Mine
  <2>5. IsFiniteSet(Mine) /\ Cardinality(Mine) = next - 1
    BY <1>1, <1>2 DEF IInv, RowsInv
  <2>6. IsFiniteSet(Mine') /\ Cardinality(Mine') = next
    BY <1>2, <2>4, <2>5, FS_AddElement
  <2>7. ids' \subseteq Mine' /\ \A e \in ids' : e.file.name # None
    BY <1>2, <1>3, <1>6, <1>9, <2>4 DEF IInv, RowsInv
  <2>8. QED
    BY <1>1, <1>2, <1>6, <1>8, <2>1, <2>3, <2>6, <2>7 DEF IInv, RowsInv
<1>14. FindingsInv'
  <2>1. Findings(db)' /\ Findings(draft)'
    BY <1>1, <1>8 DEF IInv, FindingsInv, Findings, Backs, Row
  <2>2. QED
    BY <1>1, <1>2, <1>8, <2>1 DEF IInv, FindingsInv, Keeps
<1>15. LogInv'
  BY <1>1, <1>8 DEF IInv, LogInv, JobsAreLogged
<1>16. DraftInv'
  BY <1>1, <1>2, <1>8 DEF IInv, DraftInv
<1>17. HintsInv'
  BY <1>1, <1>2, <1>8 DEF IInv, HintsInv, HintList, Classified, Candidates, CandidateTypes
<1>18. QED
  BY <1>10, <1>11, <1>12, <1>13, <1>14, <1>15, <1>16, <1>17 DEF IInv

LEMMA EvidenceStoredKeeps ==
    ASSUME IInv, NEW j \in Jobs, EvidenceStored(j)
    PROVE  IInv'
<1>1. /\ pc[j] = "evidence" /\ pc' = [pc EXCEPT ![j] = "findings"]
      /\ next = Len(result.blobs) + 1 /\ next' = 1
      /\ files' = files /\ db' = db /\ writer' = writer /\ candidates' = candidates /\ result' = result
      /\ remaining' = remaining /\ ids' = ids /\ draft' = draft
  BY DEF EvidenceStored, Goto, disk
<1>2. /\ writer = j /\ j # None
      /\ pc' \in [Jobs -> Places] /\ pc'[j] = "findings"
      /\ \A k \in Jobs \ {j} : pc'[k] = pc[k]
      /\ \A e \in db.evidence : pc'[e.file.job] = "done"
      /\ \A f \in db.findings : pc'[f.job] = "done"
      /\ \A f \in draft.findings : f.job = j \/ pc'[f.job] = "done"
      /\ \A r \in db.jobs : r.job # j /\ pc'[r.job] = "done"
  BY <1>1, Committed DEF Busy, Places
<1>3. TurnInv' /\ ResultInv'
  BY <1>1, <1>2 DEF IInv, TurnInv, Busy, ResultInv, HintList
<1>4. FilesInv'
  BY <1>1, <1>2 DEF IInv, FilesInv, Name
<1>5. RowsInv'
  <2>1. Rows(db)' /\ Rows(draft)' /\ Mine' = Mine
    BY <1>1 DEF IInv, RowsInv, Rows, RowsOf, Name, Mine
  <2>2. Len(result.blobs) = next - 1
    <3>1. result.blobs = <<>> \/ result.blobs = Blobs[j]
      BY <1>2 DEF IInv, ResultInv
    <3>2. Len(result.blobs) \in Nat
      BY <3>1, TrailAssumption
    <3>3. QED
      BY <1>1, <3>2
  <2>3. QED
    BY <1>1, <1>2, <2>1, <2>2 DEF IInv, RowsInv
<1>6. FindingsInv'
  <2>1. Findings(db)' /\ Findings(draft)'
    BY <1>1 DEF IInv, FindingsInv, Findings, Backs, Row
  <2>2. QED
    BY <1>1, <1>2, <2>1 DEF IInv, FindingsInv, Keeps
<1>7. LogInv' /\ DraftInv'
  BY <1>1, <1>2 DEF IInv, LogInv, JobsAreLogged, DraftInv
<1>8. HintsInv'
  <2>1. ASSUME HintList(result.facts), NEW i \in DOMAIN result.facts
        PROVE  ~(i < 1)
    <3>1. DOMAIN result.facts = 1..Len(result.facts)
      BY <2>1 DEF HintList
    <3>2. QED
      BY <2>1, <3>1
  <2>2. QED
    BY <1>1, <1>2, <2>1 DEF IInv, HintsInv, HintList, Classified, Candidates, CandidateTypes
<1>9. QED
  BY <1>3, <1>4, <1>5, <1>6, <1>7, <1>8 DEF IInv

(* What an upsert puts in the place of the row it finds, if any. *)
LEMMA UpsertedRow ==
    ASSUME IInv, NEW j \in Jobs, Upsert(j)
    PROVE  LET key == result.facts[next].key
           IN  \E n : /\ draft' = [draft EXCEPT !.findings =
                                     {f \in @ : f.key # key} \cup {n}]
                      /\ n = Row(n) /\ n.key = key /\ n.job = j
                      /\ n.evidence # None => /\ n.evidence \in draft.evidence
                                              /\ Backs(n.evidence, key)
                      /\ \A f \in draft.findings : f.key = key => Keeps(f, n)
<1> DEFINE fact == result.facts[next]
           ev == EvidenceFor(fact.name)
           old == Existing(fact.key)
           first == [key |-> fact.key, job |-> j, target |-> Target[j],
                     conf |-> fact.conf, evidence |-> ev]
           new == IF old = {} THEN {first} ELSE {Updated(f, j, ev) : f \in old}
<1>1. /\ pc[j] = "findings" /\ next <= Len(result.facts)
      /\ draft' = [draft EXCEPT !.findings = (@ \ old) \cup new]
  BY DEF Upsert
<1>2. writer = j /\ j # None /\ next \in Nat \ {0}
  BY <1>1, TrailAssumption DEF IInv, TurnInv, Busy
<1>3. ev # None => ev \in draft.evidence /\ Backs(ev, fact.key)
  <2> DEFINE named == {e \in ids : e.file.name = fact.name}
  <2>1. ASSUME ev # None PROVE ev \in ids /\ ev.file.name = fact.name
    BY <2>1 DEF EvidenceFor
  <2>2. ASSUME ev # None PROVE ev \in Mine /\ fact.name # None
    BY <1>2, <2>1, <2>2 DEF IInv, RowsInv
  <2>3. ASSUME ev # None PROVE fact = Facts[j][next] /\ next \in DOMAIN Facts[j]
    <3>1. result.facts # <<>>
      BY <1>1, <1>2
    <3>2. CASE j \in Hints
      <4>1. HintList(result.facts)
        BY <1>2, <3>1, <3>2 DEF IInv, ResultInv
      <4>2. next \in DOMAIN result.facts
        BY <1>1, <1>2, <4>1 DEF HintList
      <4>3. QED
        BY <2>2, <2>3, <4>1, <4>2 DEF HintList
    <3>3. CASE j \notin Hints
      <4>1. result.facts = Facts[j]
        BY <1>2, <3>1, <3>3 DEF IInv, ResultInv
      <4>2. QED
        BY <1>1, <1>2, <4>1, TrailAssumption
    <3>4. QED
      BY <3>2, <3>3
  <2> HIDE DEF ev, fact
  <2>4. QED
    BY <1>2, <2>1, <2>2, <2>3 DEF Backs, Mine
<1>4. /\ old = {f \in draft.findings : f.key = fact.key}
      /\ draft.findings \ old = {f \in draft.findings : f.key # fact.key}
  BY DEF Existing
<1> HIDE DEF ev, fact
<1>5. \E n : /\ new = {n} /\ n = Row(n) /\ n.key = fact.key /\ n.job = j
             /\ n.evidence # None => /\ n.evidence \in draft.evidence
                                     /\ Backs(n.evidence, fact.key)
             /\ \A f \in old : Keeps(f, n)
  <2>1. CASE old = {}
    <3>1. new = {first} /\ first = Row(first)
      BY <2>1 DEF Row
    <3>2. first.key = fact.key /\ first.job = j /\ first.evidence = ev
      OBVIOUS
    <3> HIDE DEF first, new, old
    <3>3. QED
      BY <1>3, <2>1, <3>1, <3>2
  <2>2. CASE old # {}
    <3>1. PICK f \in old : TRUE
      BY <2>2
    <3>2. /\ f = Row(f) /\ f.key = fact.key
          /\ f.evidence # None => f.evidence \in draft.evidence /\ Backs(f.evidence, fact.key)
          /\ \A g \in old : g = f
      BY <1>4 DEF IInv, FindingsInv, Findings
    <3>3. PICK n : n = Updated(f, j, ev)
      OBVIOUS
    <3>4. new = {n}
      BY <2>2, <3>1, <3>2, <3>3
    <3>5. /\ n = Row(n) /\ n.key = fact.key /\ n.job = j
          /\ n.evidence = IF ev = None THEN f.evidence ELSE ev
      <4>1. n = [key |-> f.key, job |-> j, target |-> f.target, conf |-> f.conf,
                 evidence |-> IF ev = None THEN f.evidence ELSE ev]
        BY <3>2, <3>3 DEF Updated, Row
      <4>2. QED
        BY <3>2, <4>1 DEF Row
    <3> HIDE DEF new, old
    <3>6. Keeps(f, n)
      BY <3>2, <3>5 DEF Keeps
    <3>7. QED
      BY <1>3, <3>2, <3>4, <3>5, <3>6
  <2>3. QED
    BY <2>1, <2>2
<1> HIDE DEF new
<1>6. PICK n : /\ new = {n} /\ n = Row(n) /\ n.key = fact.key /\ n.job = j
               /\ n.evidence # None => /\ n.evidence \in draft.evidence
                                       /\ Backs(n.evidence, fact.key)
               /\ \A f \in old : Keeps(f, n)
  BY <1>5
<1>7. draft' = [draft EXCEPT !.findings = {f \in @ : f.key # fact.key} \cup {n}]
  BY <1>1, <1>4, <1>6
<1>8. \A f \in draft.findings : f.key = fact.key => Keeps(f, n)
  BY <1>4, <1>6
<1>9. QED
  BY <1>6, <1>7, <1>8 DEF fact

LEMMA UpsertKeeps ==
    ASSUME IInv, NEW j \in Jobs, Upsert(j)
    PROVE  IInv'
<1> DEFINE key == result.facts[next].key
<1>1. /\ pc[j] = "findings" /\ next <= Len(result.facts) /\ next' = next + 1
      /\ pc' = pc /\ files' = files /\ db' = db /\ writer' = writer /\ candidates' = candidates /\ result' = result
      /\ remaining' = remaining /\ ids' = ids
  BY DEF Upsert, disk
<1>2. writer = j /\ j # None /\ j \in Jobs /\ next \in Nat \ {0}
  BY <1>1, TrailAssumption DEF IInv, TurnInv, Busy
<1>3. PICK n : /\ draft' = [draft EXCEPT !.findings = {f \in @ : f.key # key} \cup {n}]
               /\ n = Row(n) /\ n.key = key /\ n.job = j
               /\ n.evidence # None => n.evidence \in draft.evidence /\ Backs(n.evidence, key)
               /\ \A f \in draft.findings : f.key = key => Keeps(f, n)
  BY UpsertedRow
<1> HIDE DEF key
<1>4. /\ draft'.findings = {f \in draft.findings : f.key # key} \cup {n}
      /\ draft'.jobs = draft.jobs /\ draft'.log = draft.log
      /\ draft'.evidence = draft.evidence
      /\ draft' = [jobs |-> draft'.jobs, log |-> draft'.log,
                   evidence |-> draft'.evidence, findings |-> draft'.findings]
  <2>1. draft = [jobs |-> draft.jobs, log |-> draft.log, evidence |-> draft.evidence,
                 findings |-> draft.findings]
    BY <1>2 DEF IInv, DraftInv
  <2>2. draft' = [jobs |-> draft.jobs, log |-> draft.log, evidence |-> draft.evidence,
                  findings |-> {f \in draft.findings : f.key # key} \cup {n}]
    BY <1>3, <2>1
  <2>3. QED
    BY <2>2
<1>5. TurnInv' /\ ResultInv'
  BY <1>1, <1>2 DEF IInv, TurnInv, ResultInv, HintList
<1>6. FilesInv'
  BY <1>1, <1>2 DEF IInv, FilesInv, Name
<1>7. RowsInv'
  <2>1. Rows(db)' /\ Rows(draft)' /\ Mine' = Mine
    BY <1>1, <1>4 DEF IInv, RowsInv, Rows, RowsOf, Name, Mine
  <2>2. QED
    BY <1>1, <1>2, <1>4, <2>1 DEF IInv, RowsInv
<1>8. FindingsInv'
  <2>1. Findings(db)'
    BY <1>1 DEF IInv, FindingsInv, Findings, Backs, Row
  <2>2. Findings(draft)'
    <3>1. \A f \in draft'.findings : f = n \/ (f \in draft.findings /\ f.key # key)
      BY <1>4
    <3>2. QED
      BY <1>2, <1>3, <1>4, <3>1 DEF IInv, FindingsInv, Findings, Backs, Row
  <2>3. ASSUME NEW f \in db.findings
        PROVE  \E g \in draft'.findings : Keeps(f, g)
    <3>1. PICK g \in draft.findings : Keeps(f, g)
      BY <1>2 DEF IInv, FindingsInv
    <3>2. QED
      BY <1>3, <1>4, <3>1 DEF Keeps
  <2>4. QED
    BY <1>1, <1>2, <1>3, <1>4, <2>1, <2>2, <2>3 DEF IInv, FindingsInv, Keeps
<1>9. LogInv'
  <2>1. \A r \in db.jobs : r.job # j
    BY <1>1, <1>2 DEF IInv, LogInv
  <2>2. \A line \in db.log : line.job # j
    BY <2>1 DEF IInv, LogInv, JobsAreLogged
  <2>3. \A line \in db.log : line.blocked => \A f \in draft'.findings : f.job # line.job
    BY <1>2, <1>3, <1>4, <2>2 DEF IInv, LogInv
  <2>4. QED
    BY <1>1, <2>3 DEF IInv, LogInv, JobsAreLogged
<1>10. DraftInv'
  BY <1>1, <1>2, <1>4 DEF IInv, DraftInv
<1>11. HintsInv'
  <2> SUFFICES ASSUME j \in Hints, result.status = "succeeded"
               PROVE  HintsInv'
    BY <1>1, <1>2 DEF HintsInv
  <2>1. /\ HintList(result.facts)
        /\ \A h \in Classified(draft.findings) \cap Flagged :
              \E i \in DOMAIN result.facts :
                  result.facts[i].key = [type |-> "asset_hint", value |-> h]
        /\ \A i \in DOMAIN result.facts : i < next => HasHint(i)
    BY <1>1, <1>2 DEF IInv, HintsInv
  <2>2. DOMAIN result.facts = 1..Len(result.facts)
    BY <2>1 DEF HintList
  <2>3. key.type = "asset_hint"
    BY <1>1, <1>2, <2>1, <2>2 DEF HintList, key
  <2>4. Classified(draft.findings)' \subseteq Classified(draft.findings)
    BY <1>1, <1>3, <1>4, <2>3 DEF Classified, Candidates, CandidateTypes
  <2>5. ASSUME NEW i \in DOMAIN result.facts, i < next + 1
        PROVE  \E f \in draft'.findings : f.key = result.facts[i].key
    <3>1. CASE i < next
      BY <1>3, <1>4, <2>1, <3>1 DEF HasHint
    <3>2. CASE i = next
      BY <1>3, <1>4, <3>2 DEF key
    <3>3. QED
      BY <1>2, <2>2, <2>5, <3>1, <3>2
  <2>6. QED
    BY <1>1, <1>2, <2>1, <2>4, <2>5 DEF HintsInv, HintList, HasHint
<1>12. QED
  BY <1>5, <1>6, <1>7, <1>8, <1>9, <1>10, <1>11 DEF IInv

LEMMA FinishKeeps ==
    ASSUME IInv, NEW j \in Jobs, Finish(j)
    PROVE  IInv'
<1>1. /\ pc[j] = "findings" /\ pc' = [pc EXCEPT ![j] = "finished"]
      /\ next = Len(result.facts) + 1
      /\ files' = files /\ db' = db /\ writer' = writer /\ candidates' = candidates /\ result' = result
      /\ remaining' = remaining /\ ids' = ids /\ next' = next
      /\ draft' = Finished(j, result.status, FALSE)
  BY DEF Finish, Goto, disk
<1>2. /\ writer = j /\ j # None
      /\ pc' \in [Jobs -> Places] /\ pc'[j] = "finished"
      /\ \A k \in Jobs \ {j} : pc'[k] = pc[k]
      /\ \A e \in db.evidence : pc'[e.file.job] = "done"
      /\ \A f \in db.findings : pc'[f.job] = "done"
      /\ \A f \in draft.findings : f.job = j \/ pc'[f.job] = "done"
      /\ \A r \in db.jobs : r.job # j /\ pc'[r.job] = "done"
  BY <1>1, Committed DEF Busy, Places
<1>3. PICK line : line = Line(j, result.status, FALSE)
  OBVIOUS
<1>4. PICK status \in Ends : status = result.status
  BY <1>2 DEF IInv, ResultInv
<1>5. /\ draft' = [jobs |-> draft'.jobs, log |-> draft'.log,
                   evidence |-> draft'.evidence, findings |-> draft'.findings]
      /\ draft'.jobs = db.jobs \cup {[job |-> j, status |-> status]}
      /\ draft'.log = db.log \cup {line}
      /\ draft'.evidence = draft.evidence
      /\ draft'.findings = draft.findings
  <2>1. /\ draft = [jobs |-> draft.jobs, log |-> draft.log, evidence |-> draft.evidence,
                    findings |-> draft.findings]
        /\ draft.jobs = db.jobs \cup {[job |-> j, status |-> "running"]}
        /\ draft.log = db.log
    BY <1>1, <1>2 DEF IInv, DraftInv
  <2>2. {r \in draft.jobs : r.job # j} = db.jobs
    BY <1>2, <2>1
  <2>3. draft' = [jobs |-> db.jobs \cup {[job |-> j, status |-> status]},
                  log |-> db.log \cup {line},
                  evidence |-> draft.evidence, findings |-> draft.findings]
    BY <1>1, <1>3, <1>4, <2>1, <2>2 DEF Finished
  <2>4. QED
    BY <2>3
<1>6. TurnInv' /\ ResultInv'
  BY <1>1, <1>2 DEF IInv, TurnInv, Busy, ResultInv, HintList
<1>7. FilesInv'
  BY <1>1, <1>2 DEF IInv, FilesInv, Name
<1>8. RowsInv'
  <2>1. Rows(db)' /\ Rows(draft)' /\ Mine' = Mine
    BY <1>1, <1>5 DEF IInv, RowsInv, Rows, RowsOf, Name, Mine
  <2>2. QED
    BY <1>1, <1>2, <1>5, <2>1 DEF IInv, RowsInv
<1>9. FindingsInv'
  <2>1. Findings(db)' /\ Findings(draft)'
    BY <1>1, <1>5 DEF IInv, FindingsInv, Findings, Backs, Row
  <2>2. QED
    BY <1>1, <1>2, <1>5, <2>1 DEF IInv, FindingsInv, Keeps
<1>10. LogInv'
  BY <1>1, <1>2, <1>5 DEF IInv, LogInv, JobsAreLogged
<1>11. DraftInv'
  <2>1. line = Line(j, status, FALSE)'
    BY <1>1, <1>3, <1>4 DEF Line
  <2>2. QED
    BY <1>1, <1>2, <1>4, <1>5, <2>1 DEF DraftInv
<1>12. HintsInv'
  <2>1. ASSUME HintList(result.facts), NEW i \in DOMAIN result.facts
        PROVE  i < next
    <3>1. Len(result.facts) \in Nat /\ DOMAIN result.facts = 1..Len(result.facts)
      BY <2>1 DEF HintList
    <3>2. QED
      BY <1>1, <2>1, <3>1
  <2> SUFFICES ASSUME j \in Hints, result.status = "succeeded"
               PROVE  HintsInv'
    BY <1>1, <1>2 DEF HintsInv
  <2>2. /\ HintList(result.facts)
        /\ \A h \in Classified(draft.findings) \cap Flagged :
              \E i \in DOMAIN result.facts :
                  result.facts[i].key = [type |-> "asset_hint", value |-> h]
        /\ \A i \in DOMAIN result.facts : i < next => HasHint(i)
    BY <1>1, <1>2 DEF IInv, HintsInv
  <2>3. \A i \in DOMAIN result.facts : HasHint(i)'
    BY <1>1, <1>5, <2>1, <2>2 DEF HasHint
  <2>4. Classified(draft.findings)' = Classified(draft.findings)
    BY <1>1, <1>5 DEF Classified, Candidates
  <2>5. HintList(result.facts)'
    BY <1>1, <2>2 DEF HintList
  <2>6. QED
    BY <1>1, <1>2, <2>2, <2>3, <2>4, <2>5 DEF HintsInv
<1>13. QED
  BY <1>6, <1>7, <1>8, <1>9, <1>10, <1>11, <1>12 DEF IInv

(* The line that is committed with a job's row tells of its evidence. *)
LEMMA CommitLogs ==
    ASSUME IInv, NEW j \in Jobs, Commit(j)
    PROVE  LogInv'
<1>1. /\ pc[j] = "finished" /\ pc' = [pc EXCEPT ![j] = "done"]
      /\ files' = files /\ db' = draft /\ writer' = None
  BY DEF Commit, Goto
<1>2. /\ writer = j /\ j # None
      /\ pc' \in [Jobs -> Places] /\ pc'[j] = "done"
      /\ \A k \in Jobs \ {j} : pc'[k] = pc[k]
      /\ \A e \in db.evidence : e.file.job # j /\ pc'[e.file.job] = "done"
      /\ \A f \in db.findings : f.job # j /\ pc'[f.job] = "done"
      /\ \A r \in db.jobs : r.job # j /\ pc'[r.job] = "done"
  BY <1>1, Committed DEF Busy, Places
<1>3. PICK status \in Ends, blocked \in BOOLEAN :
          /\ draft.jobs = db.jobs \cup {[job |-> j, status |-> status]}
          /\ draft.log = db.log \cup {Line(j, status, blocked)}
          /\ blocked => draft.findings = db.findings
  BY <1>1, <1>2 DEF IInv, DraftInv
<1>4. PICK line : line = Line(j, status, blocked)
  OBVIOUS
<1>5. /\ draft.jobs = db.jobs \cup {[job |-> j, status |-> status]}
      /\ draft.log = db.log \cup {line}
      /\ line.job = j /\ line.status = status /\ line.evidence = Len(result.blobs)
      /\ line.blocked => draft.findings = db.findings
  <2>1. draft.jobs = db.jobs \cup {[job |-> j, status |-> status]}
    BY <1>3
  <2>2. draft.log = db.log \cup {line}
    BY <1>3, <1>4
  <2>3. line.job = j /\ line.status = status /\ line.evidence = Len(result.blobs)
    BY <1>4 DEF Line
  <2>4. CASE blocked = TRUE
    BY <1>3, <2>1, <2>2, <2>3, <2>4
  <2>5. CASE blocked = FALSE
    <3>1. line.blocked = FALSE
      BY <1>4, <2>5 DEF Line
    <3>2. QED
      BY <2>1, <2>2, <2>3, <3>1
  <2>6. QED
    BY <2>4, <2>5
<1>6. \A old \in db.log : old.job # j
  BY <1>2 DEF IInv, LogInv, JobsAreLogged
<1>7. ASSUME NEW old \in db.log
      PROVE  Cardinality({e \in draft.evidence : e.file.job = old.job}) = old.evidence
  <2>1. {e \in draft.evidence : e.file.job = old.job} = {e \in db.evidence : e.file.job = old.job}
    BY <1>2, <1>6 DEF IInv, RowsInv
  <2>2. QED
    BY <2>1 DEF IInv, LogInv, JobsAreLogged
<1>8. Cardinality({e \in draft.evidence : e.file.job = j}) = line.evidence
  BY <1>1, <1>2, <1>5 DEF IInv, RowsInv, Mine
<1>9. \A old \in db.log : old.blocked => \A f \in draft.findings : f.job # old.job
  BY <1>2 DEF IInv, LogInv
<1>10. line.blocked => \A f \in draft.findings : f.job # j
  BY <1>2, <1>5
<1>11. JobsAreLogged'
  <2> SUFFICES /\ {l.job : l \in draft.log} = {row.job : row \in draft.jobs}
               /\ \A l \in draft.log :
                     /\ \A other \in draft.log : other.job = l.job => other = l
                     /\ l.status # "running"
                     /\ \A row \in draft.jobs : row.job = l.job => row.status = l.status
                     /\ Cardinality({e \in draft.evidence : e.file.job = l.job}) = l.evidence
                     /\ l.blocked => \A f \in draft.findings : f.job # l.job
    BY <1>1 DEF JobsAreLogged
  <2>1. {l.job : l \in draft.log} = {row.job : row \in draft.jobs}
    <3>1. {l.job : l \in db.log} = {row.job : row \in db.jobs}
      BY DEF IInv, LogInv, JobsAreLogged
    <3>2. {l.job : l \in draft.log} = {l.job : l \in db.log} \cup {j}
      BY <1>5
    <3>3. PICK own : own = [job |-> j, status |-> status]
      OBVIOUS
    <3>4. draft.jobs = db.jobs \cup {own} /\ own.job = j
      BY <1>5, <3>3
    <3>5. {row.job : row \in draft.jobs} = {row.job : row \in db.jobs} \cup {j}
      BY <3>4
    <3>6. QED
      BY <3>1, <3>2, <3>5
  <2>2. ASSUME NEW l \in draft.log
        PROVE  /\ \A other \in draft.log : other.job = l.job => other = l
               /\ l.status # "running"
               /\ \A row \in draft.jobs : row.job = l.job => row.status = l.status
               /\ l.blocked => \A f \in draft.findings : f.job # l.job
    <3>1. CASE l = line
      BY <1>2, <1>5, <1>6, <1>10, <3>1 DEF Ends
    <3>2. CASE l \in db.log
      <4>1. /\ \A other \in db.log : other.job = l.job => other = l
            /\ l.status # "running"
            /\ \A row \in db.jobs : row.job = l.job => row.status = l.status
        BY <3>2 DEF IInv, LogInv, JobsAreLogged
      <4>2. l.job # j
        BY <1>6, <3>2
      <4>3. \A row \in draft.jobs : row.job = l.job => row.status = l.status
        BY <1>5, <4>1, <4>2
      <4>4. QED
        BY <1>5, <1>9, <3>2, <4>1, <4>2, <4>3
    <3>3. QED
      BY <1>5, <3>1, <3>2
  <2>3. QED
    BY <1>5, <1>7, <1>8, <2>1, <2>2
<1>12. /\ draft = [jobs |-> draft.jobs, log |-> draft.log, evidence |-> draft.evidence,
                   findings |-> draft.findings]
       /\ \A r \in draft.jobs : /\ r.job \in Jobs /\ r.status \in Ends
                                 /\ r = [job |-> r.job, status |-> r.status]
                                 /\ pc'[r.job] = "done"
  BY <1>2, <1>5 DEF IInv, LogInv, DraftInv
<1>13. QED
  BY <1>1, <1>11, <1>12 DEF LogInv

LEMMA CommitKeeps ==
    ASSUME IInv, NEW j \in Jobs, Commit(j)
    PROVE  IInv'
<1>1. /\ pc[j] = "finished" /\ pc' = [pc EXCEPT ![j] = "done"]
      /\ files' = files /\ db' = draft /\ writer' = None /\ draft' = Empty
      /\ remaining' = remaining /\ next' = next
  BY DEF Commit, Goto
<1>2. /\ writer = j /\ j # None
      /\ pc' \in [Jobs -> Places] /\ pc'[j] = "done"
      /\ \A k \in Jobs \ {j} : pc'[k] = pc[k]
      /\ \A e \in db.evidence : pc'[e.file.job] = "done"
      /\ \A f \in draft.findings : f.job = j \/ pc'[f.job] = "done"
  BY <1>1, Committed DEF Busy, Places
<1>3. TurnInv'
  BY <1>1, <1>2, TrailAssumption DEF IInv, TurnInv, Busy
<1>4. ResultInv' /\ DraftInv' /\ HintsInv'
  BY <1>1, TrailAssumption DEF ResultInv, DraftInv, HintsInv, Empty
<1>5. FilesInv'
  BY <1>1, <1>2, TrailAssumption DEF IInv, FilesInv, Name
<1>6. RowsInv'
  <2>1. Rows(db)' /\ Rows(draft)'
    BY <1>1 DEF IInv, RowsInv, Rows, RowsOf, Name, Empty
  <2>2. QED
    BY <1>1, <1>2, <2>1 DEF IInv, RowsInv
<1>7. FindingsInv'
  <2>1. Findings(db)' /\ Findings(draft)'
    BY <1>1 DEF IInv, FindingsInv, Findings, Backs, Row, Empty
  <2>2. QED
    BY <1>1, <1>2, <2>1 DEF FindingsInv
<1>8. QED
  BY <1>3, <1>4, <1>5, <1>6, <1>7, CommitLogs DEF IInv

LEMMA AbortKeeps ==
    ASSUME IInv, NEW j \in Jobs, Abort(j)
    PROVE  IInv'
<1>1. /\ pc' = [pc EXCEPT ![j] = "failed"]
      /\ files' = files /\ db' = db /\ writer = j /\ writer' = None /\ draft' = Empty
      /\ remaining' = remaining /\ next' = next
  BY DEF Abort, disk
<1>2. pc[j] \in Busy
  BY <1>1 DEF IInv, TurnInv
<1>3. /\ j # None
      /\ pc' \in [Jobs -> Places] /\ pc'[j] = "failed"
      /\ \A k \in Jobs \ {j} : pc'[k] = pc[k]
      /\ \A e \in db.evidence : pc'[e.file.job] = "done"
      /\ \A f \in db.findings : pc'[f.job] = "done"
      /\ \A r \in db.jobs : pc'[r.job] = "done"
  BY <1>1, <1>2, Committed DEF Places
<1>4. TurnInv'
  BY <1>1, <1>3, TrailAssumption DEF IInv, TurnInv, Busy
<1>5. ResultInv' /\ DraftInv' /\ HintsInv'
  BY <1>1, TrailAssumption DEF ResultInv, DraftInv, HintsInv, Empty
<1>6. FilesInv'
  BY <1>1, <1>3, TrailAssumption DEF IInv, FilesInv, Name
<1>7. RowsInv'
  <2>1. Rows(db)' /\ Rows(draft)'
    BY <1>1 DEF IInv, RowsInv, Rows, RowsOf, Name, Empty
  <2>2. QED
    BY <1>1, <1>3, <2>1 DEF RowsInv
<1>8. FindingsInv'
  <2>1. Findings(db)' /\ Findings(draft)'
    BY <1>1 DEF IInv, FindingsInv, Findings, Backs, Row, Empty
  <2>2. QED
    BY <1>1, <1>3, <2>1 DEF FindingsInv
<1>9. LogInv'
  BY <1>1, <1>3 DEF IInv, LogInv, JobsAreLogged
<1>10. QED
  BY <1>4, <1>5, <1>6, <1>7, <1>8, <1>9 DEF IInv

LEMMA StutterKeeps ==
    ASSUME IInv, UNCHANGED vars
    PROVE  IInv'
<1> USE DEF vars, disk, transaction
<1>1. TurnInv' /\ ResultInv' /\ HintsInv'
  BY DEF IInv, TurnInv, ResultInv, HintsInv, HintList, HasHint, Classified, Candidates, CandidateTypes
<1>2. FilesInv' /\ RowsInv'
  BY DEF IInv, FilesInv, RowsInv, Rows, RowsOf, Name, Mine
<1>3. FindingsInv'
  BY DEF IInv, FindingsInv, Findings, Backs, Row, Keeps
<1>4. LogInv' /\ DraftInv'
  BY DEF IInv, LogInv, JobsAreLogged, DraftInv, Line, Empty
<1>5. QED
  BY <1>1, <1>2, <1>3, <1>4 DEF IInv

LEMMA NextKeeps == IInv /\ [Next]_vars => IInv'
<1> SUFFICES ASSUME IInv, Next \/ UNCHANGED vars PROVE IInv'
  OBVIOUS
<1>1. ASSUME NEW j \in Jobs,
             \/ Begin(j) \/ LockTimeout(j) \/ Blocked(j) \/ Run(j)
             \/ StoreBlob(j) \/ EvidenceStored(j) \/ Upsert(j)
             \/ Finish(j) \/ Commit(j) \/ Abort(j)
      PROVE  IInv'
  BY <1>1, BeginKeeps, LockTimeoutKeeps, BlockedKeeps, RunKeeps, StoreBlobKeeps,
     EvidenceStoredKeeps, UpsertKeeps, FinishKeeps, CommitKeeps, AbortKeeps
<1>2. QED
  BY <1>1, StutterKeeps DEF Next
--------------------------------------------------------------------------------
(* In every reachable state the open transaction, the files on disk and the *)
(* committed tables fit together as the parts of IInv say.                  *)
THEOREM Inductive == Spec => []IInv
<1>1. Init => IInv
  BY Start
<1>2. IInv /\ [Next]_vars => IInv'
  BY NextKeeps
<1>3. QED
  BY <1>1, <1>2, PTL DEF Spec

(* The rows that a transaction holds or has committed are of files that     *)
(* exist, and its findings of rows that it can see.                         *)
THEOREM TypeCorrect == Spec => []TypeOK
<1>1. IInv => TypeOK
  <2> SUFFICES ASSUME IInv PROVE TypeOK
    OBVIOUS
  <2>1. /\ pc \in [Jobs -> Places] /\ writer \in Jobs \cup {None}
        /\ remaining \in 0..Limit
    BY DEF IInv, TurnInv
  <2>2. db.jobs \subseteq [job : Jobs, status : {"running", "succeeded", "failed"}]
    BY DEF IInv, LogInv, Ends
  <2>3. draft.jobs \subseteq [job : Jobs, status : {"running", "succeeded", "failed"}]
    <3>1. CASE writer = None
      BY <3>1 DEF IInv, DraftInv, Empty
    <3>2. CASE writer # None
      <4>1. PICK status \in {"running", "succeeded", "failed"} :
                draft.jobs = db.jobs \cup {[job |-> writer, status |-> status]}
        BY <3>2 DEF IInv, DraftInv, Ends
      <4>2. QED
        BY <2>1, <2>2, <3>2, <4>1
    <3>3. QED
      BY <3>1, <3>2
  <2>4. \A t \in {db, draft} : t.evidence \subseteq RowsOf(files)
    BY DEF IInv, RowsInv, Rows
  <2>5. \A t \in {db, draft} : \A f \in t.findings :
            f.job \in Jobs /\ f.evidence \in t.evidence \cup {None}
    BY DEF IInv, FindingsInv, Findings
  <2>6. QED
    BY <2>1, <2>2, <2>3, <2>4, <2>5 DEF TypeOK, Places
<1>2. QED
  BY <1>1, Inductive, PTL

(* What the writer has left of its budget is what its files leave of it. *)
BudgetInv ==
    /\ \A f \in files : f.size \in Nat
    /\ \A j \in Jobs : IsFiniteSet(Bytes(j)) /\ Cardinality(Bytes(j)) <= Limit
    /\ writer # None => Cardinality(Bytes(writer)) + remaining = Limit

(* A step that writes no file leaves every job the bytes it has. *)
LEMMA SameBytes ==
    ASSUME files' = files, NEW j
    PROVE  Bytes(j)' = Bytes(j)
BY DEF Bytes

(* A new file of a job has the bytes of its size, none of which was there. *)
LEMMA BytesOfFile ==
    ASSUME NEW f, f.size \in Nat, f \notin files, files' = files \cup {f}, NEW j,
           IsFiniteSet(Bytes(j))
    PROVE  /\ IsFiniteSet(Bytes(j)')
           /\ Cardinality(Bytes(j)') =
                Cardinality(Bytes(j)) + IF f.job = j THEN f.size ELSE 0
<1>1. CASE f.job # j
  <2>1. Bytes(j)' = Bytes(j)
    BY <1>1 DEF Bytes
  <2>2. Cardinality(Bytes(j)) \in Nat
    BY FS_CardinalityType
  <2>3. QED
    BY <1>1, <2>1, <2>2
<1>2. CASE f.job = j
  <2> DEFINE New == {f} \X (1..f.size)
  <2>1. IsFiniteSet(New) /\ Cardinality(New) = f.size
    <3>1. PICK S, T : S = {f} /\ T = 1..f.size /\ New = S \X T
      OBVIOUS
    <3>2. IsFiniteSet(S) /\ Cardinality(S) = 1
      BY <3>1, FS_Singleton
    <3>3. IsFiniteSet(T) /\ Cardinality(T) = f.size
      BY <3>1, FS_Interval
    <3> HIDE DEF New
    <3>4. IsFiniteSet(New) /\ Cardinality(New) = Cardinality(S) * Cardinality(T)
      BY <3>1, <3>2, <3>3, FS_Product
    <3>5. QED
      BY <3>2, <3>3, <3>4
  <2>2. Bytes(j)' = Bytes(j) \cup New
    BY <1>2 DEF Bytes
  <2>3. Bytes(j) \cap New = {}
    BY DEF Bytes
  <2>4. Cardinality(Bytes(j) \cap New) = 0 /\ Cardinality(Bytes(j)) \in Nat
    BY <2>3, FS_EmptySet, FS_CardinalityType
  <2> HIDE DEF New
  <2>5. /\ IsFiniteSet(Bytes(j) \cup New)
        /\ Cardinality(Bytes(j) \cup New) = Cardinality(Bytes(j)) + f.size - 0
    BY <2>1, <2>4, FS_Union
  <2>6. QED
    BY <1>2, <2>2, <2>4, <2>5
<1>3. QED
  BY <1>1, <1>2

LEMMA BeginKeepsBudget ==
    ASSUME IInv, BudgetInv, NEW j \in Jobs, Begin(j)
    PROVE  BudgetInv'
<1>1. files' = files /\ writer' = j /\ remaining' = Limit /\ pc[j] = "idle"
  BY DEF Begin, Goto, disk
<1>2. Bytes(j) = {}
  BY <1>1 DEF IInv, FilesInv, Bytes
<1>3. \A k : Bytes(k)' = Bytes(k)
  BY <1>1, SameBytes
<1>4. Bytes(writer)' = {}
  BY <1>1, <1>2 DEF Bytes
<1>5. Cardinality(Bytes(writer)') + remaining' = Limit
  BY <1>1, <1>4, FS_EmptySet, TrailAssumption
<1>6. QED
  BY <1>1, <1>3, <1>5 DEF BudgetInv

LEMMA StoreBlobKeepsBudget ==
    ASSUME IInv, BudgetInv, NEW j \in Jobs, StoreBlob(j)
    PROVE  BudgetInv'
<1> DEFINE blob == result.blobs[next]
           copy == FreeCopy(j, blob.name)
           file == [job |-> j, name |-> blob.name, copy |-> copy, size |-> Kept(blob.size)]
<1>1. /\ pc[j] = "evidence" /\ next <= Len(result.blobs) /\ writer' = writer
      /\ files' = {f \in files : Name(f) # Name(file)} \cup {file}
      /\ remaining' = remaining - Kept(blob.size)
  BY DEF StoreBlob, Name
<1>2. writer = j /\ j # None /\ remaining \in 0..Limit /\ next \in Nat \ {0}
  BY <1>1, TrailAssumption DEF IInv, TurnInv, Busy
<1>3. blob.size \in Nat
  <2>1. result.blobs = Blobs[j]
    BY <1>1, <1>2 DEF IInv, ResultInv
  <2>2. next \in DOMAIN Blobs[j]
    BY <1>1, <1>2, <2>1, TrailAssumption
  <2>3. QED
    BY <2>1, <2>2, TrailAssumption
<1>4. Kept(blob.size) \in 0..remaining
  BY <1>2, <1>3, TrailAssumption DEF Kept
<1>5. \A f \in files : Name(f) # Name(file)
  BY <1>1, FreshCopy DEF Name
<1> HIDE DEF blob, copy
<1>6. PICK f0 : f0 = file /\ f0.job = j /\ f0.size = Kept(blob.size)
  <2>1. file.job = j /\ file.size = Kept(blob.size)
    OBVIOUS
  <2> HIDE DEF file
  <2>2. QED
    BY <2>1
<1>7. files' = files \cup {f0} /\ f0 \notin files
  BY <1>1, <1>5, <1>6
<1> HIDE DEF file
<1>8. \A f \in files' : f.size \in Nat
  BY <1>2, <1>4, <1>6, <1>7, TrailAssumption DEF BudgetInv
<1>9. ASSUME NEW k \in Jobs
      PROVE  /\ IsFiniteSet(Bytes(k)')
             /\ Cardinality(Bytes(k)') =
                   Cardinality(Bytes(k)) + IF k = j THEN Kept(blob.size) ELSE 0
  BY <1>6, <1>7, <1>8, BytesOfFile DEF BudgetInv
<1>10. ASSUME NEW k \in Jobs
       PROVE  Cardinality(Bytes(k)) \in Nat /\ Cardinality(Bytes(k)) <= Limit
  BY FS_CardinalityType DEF BudgetInv
<1>11. Cardinality(Bytes(j)) + remaining = Limit
  BY <1>2 DEF BudgetInv
<1>12. Cardinality(Bytes(writer)') + remaining' = Limit
  BY <1>1, <1>2, <1>4, <1>9, <1>10, <1>11, TrailAssumption
<1>13. \A k \in Jobs : Cardinality(Bytes(k)') <= Limit
  BY <1>2, <1>4, <1>9, <1>10, <1>11, TrailAssumption
<1>14. QED
  BY <1>1, <1>8, <1>9, <1>12, <1>13 DEF BudgetInv

LEMMA NextKeepsBudget == IInv /\ BudgetInv /\ [Next]_vars => BudgetInv'
<1> SUFFICES ASSUME IInv, BudgetInv, [Next]_vars PROVE BudgetInv'
  OBVIOUS
<1>1. CASE \E j \in Jobs : Begin(j) \/ StoreBlob(j)
  BY <1>1, BeginKeepsBudget, StoreBlobKeepsBudget
<1>2. CASE ~\E j \in Jobs : Begin(j) \/ StoreBlob(j)
  <2>1. files' = files /\ remaining' = remaining /\ writer' \in {writer, None}
    BY <1>2 DEF Next, vars, disk, transaction, LockTimeout, Blocked, Run, EvidenceStored,
                Upsert, Finish, Commit, Abort
  <2>2. \A k : Bytes(k)' = Bytes(k)
    BY <2>1, SameBytes
  <2>3. QED
    BY <2>1, <2>2 DEF BudgetInv
<1>3. QED
  BY <1>1, <1>2

(* "The database keeps only metadata", "a per-job budget bounds total      *)
(* retained bytes": whatever aborts, a committed evidence row has a file of *)
(* its own (persist writes it before the row, the store under a name that   *)
(* no other file has), and the files of a job stay within its budget.       *)
THEOREM FilesAccounted == Spec => []FilesAreAccountedFor
<1>1. Init => BudgetInv
  <2> SUFFICES ASSUME Init PROVE BudgetInv
    OBVIOUS
  <2>1. files = {} /\ writer = None
    BY DEF Init
  <2>2. \A j : Bytes(j) = {}
    BY <2>1 DEF Bytes
  <2>3. ASSUME NEW j PROVE IsFiniteSet(Bytes(j)) /\ Cardinality(Bytes(j)) <= Limit
    <3>1. Bytes(j) = {}
      BY <2>2
    <3>2. QED
      BY <3>1, FS_EmptySet, TrailAssumption
  <2>4. QED
    BY <2>1, <2>3 DEF BudgetInv
<1>2. IInv /\ BudgetInv /\ [Next]_vars => BudgetInv'
  BY NextKeepsBudget
<1>3. IInv /\ BudgetInv => FilesAreAccountedFor
  BY DEF IInv, RowsInv, Rows, RowsOf, RowsHaveFiles, Name, BudgetInv, BudgetIsKept,
         FilesAreAccountedFor
<1>4. QED
  BY <1>1, <1>2, <1>3, Inductive, PTL DEF Spec

(* upsert_findings never finds two rows, for any results and jobs. *)
THEOREM KeysAreUnique == Spec => []OneFindingPerKey
<1>1. IInv => OneFindingPerKey
  BY DEF IInv, FindingsInv, Findings, OneFindingPerKey
<1>2. QED
  BY <1>1, Inductive, PTL

(* The evidence that a finding links to reported the finding. *)
THEOREM LinksAreBacked == Spec => []EvidenceBacksFinding
<1>1. IInv => EvidenceBacksFinding
  BY DEF IInv, FindingsInv, Findings, Backs, EvidenceBacksFinding
<1>2. QED
  BY <1>1, Inductive, PTL

(* Jobs, activity log and results agree, whatever was refused or failed. *)
THEOREM LogTellsTheStory == Spec => []JobsAreLogged
<1>1. IInv => JobsAreLogged
  BY DEF IInv, LogInv
<1>2. QED
  BY <1>1, Inductive, PTL

(* What a commit adds to what was there: only the commit touches the tables. *)
LEMMA TablesGrow ==
    ASSUME IInv, [Next]_vars
    PROVE  db' = db \/ \E j \in Jobs : Commit(j)
BY DEF Next, vars, Begin, LockTimeout, Blocked, Run, StoreBlob, EvidenceStored, Upsert,
       Finish, Abort, disk

LEMMA FilesGrow ==
    ASSUME IInv, [Next]_vars
    PROVE  files \subseteq files'
<1>1. CASE \E j \in Jobs : StoreBlob(j)
  <2>1. PICK j \in Jobs : StoreBlob(j)
    BY <1>1
  <2>2. \A f \in files : \A name : <<f.job, f.name, f.copy>> # <<j, name, FreeCopy(j, name)>>
    BY <2>1, FreshCopy DEF StoreBlob, Name
  <2>3. QED
    BY <2>1, <2>2 DEF StoreBlob
<1>2. CASE ~\E j \in Jobs : StoreBlob(j)
  BY <1>2 DEF Next, vars, Begin, LockTimeout, Blocked, Run, EvidenceStored, Upsert,
              Finish, Commit, Abort, disk
<1>3. QED
  BY <1>1, <1>2

(* The draft that a job commits: it is past its module, and what it adds to *)
(* the jobs is a row of its own.                                            *)
LEMMA CommittedDraft ==
    ASSUME IInv, NEW j \in Jobs, Commit(j)
    PROVE  /\ writer = j /\ j # None /\ pc[j] = "finished" /\ db' = draft
           /\ db.log \subseteq draft.log
           /\ \E status \in Ends :
                 /\ draft.jobs = db.jobs \cup {[job |-> j, status |-> status]}
                 /\ status = "succeeded" => result.status = "succeeded"
<1>1. pc[j] = "finished" /\ db' = draft
  BY DEF Commit, Goto
<1>2. writer = j /\ j # None
  BY <1>1, TrailAssumption DEF IInv, TurnInv, Busy
<1>3. QED
  BY <1>1, <1>2 DEF IInv, DraftInv

(* "Re-running a module updates a finding's last_seen without destroying    *)
(* earlier evidence", for any jobs and results.                             *)
THEOREM NothingIsLost == Spec => EvidenceIsKept
<1> DEFINE Held == /\ db.evidence \subseteq db'.evidence
                   /\ files \subseteq files'
                   /\ \A f \in db.findings : \E g \in db'.findings :
                         g.key = f.key /\ (f.evidence # None => g.evidence # None)
<1>1. IInv /\ [Next]_vars => [Held]_vars
  <2> SUFFICES ASSUME IInv, [Next]_vars PROVE Held
    OBVIOUS
  <2>1. CASE db' = db
    BY <2>1, FilesGrow
  <2>2. CASE \E j \in Jobs : Commit(j)
    BY <2>2, CommittedDraft, FilesGrow DEF IInv, RowsInv, FindingsInv, Keeps
  <2>3. QED
    BY <2>1, <2>2, TablesGrow
<1>2. QED
  BY <1>1, Inductive, PTL DEF Spec, EvidenceIsKept

(* asset_hints "looks at hostnames already discovered": none is missed. *)
THEOREM NoHintIsMissed == Spec => HintsAreComplete
<1> DEFINE Complete ==
        \A j \in Hints :
            [job |-> j, status |-> "succeeded"] \in db'.jobs \ db.jobs =>
                Classified(db'.findings) \cap Flagged \subseteq Hinted(db'.findings)
<1>1. IInv /\ [Next]_vars => [Complete]_vars
  <2> SUFFICES ASSUME IInv, [Next]_vars, NEW j \in Hints,
                      [job |-> j, status |-> "succeeded"] \in db'.jobs \ db.jobs
               PROVE  Classified(db'.findings) \cap Flagged \subseteq Hinted(db'.findings)
    OBVIOUS
  <2>1. PICK k \in Jobs : Commit(k)
    BY TablesGrow
  <2>2. /\ writer = k /\ pc[k] = "finished" /\ db' = draft
        /\ \E status \in Ends :
              /\ draft.jobs = db.jobs \cup {[job |-> k, status |-> status]}
              /\ status = "succeeded" => result.status = "succeeded"
    BY <2>1, CommittedDraft
  <2>3. k = j /\ result.status = "succeeded"
    BY <2>2
  <2>4. ASSUME NEW h \in Classified(draft.findings) \cap Flagged
        PROVE  h \in Hinted(draft.findings)
    <3>1. PICK i \in DOMAIN result.facts :
              result.facts[i].key = [type |-> "asset_hint", value |-> h]
      BY <2>2, <2>3 DEF IInv, HintsInv
    <3>2. PICK f \in draft.findings : f.key = [type |-> "asset_hint", value |-> h]
      BY <2>2, <2>3, <3>1 DEF IInv, HintsInv, HasHint
    <3>3. f.key.type = "asset_hint" /\ f.key.value = h
      BY <3>2
    <3>4. QED
      BY <3>3 DEF Hinted
  <2>5. QED
    BY <2>2, <2>4
<1>2. QED
  BY <1>1, Inductive, PTL DEF Spec, HintsAreComplete
================================================================================
