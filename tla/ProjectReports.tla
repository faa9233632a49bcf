----------------------------- MODULE ProjectReports ----------------------------
(***************************************************************************)
(* What is read while jobs commit (reporting/builder, the report and list  *)
(* requests of api/router): a report or a list reads its tables one SELECT *)
(* after the other, with no transaction around them, so that each sees the *)
(* commits so far; a report then records what it counted.                  *)
(***************************************************************************)
EXTENDS EvidenceTrail

CONSTANT
    Requests    \* GET .../report.md, .../report.zip or .../findings

VARIABLES
    at,         \* where each request is
    text,       \* text[q]: what report.md, or the list of findings, is made of
    zip,        \* zip[r]: what the archive and its manifest are made of
    counted     \* counted[r]: the jobs and findings its snapshot row counts

reading == <<at, text, zip, counted>>
allVars == <<vars, reading>>

(* cited are the rows that findings are shown with, bare the findings whose *)
(* evidence is not among the rows that were read.                           *)
NoText == [jobs |-> {}, findings |-> {}, cited |-> {}, bare |-> {}, timeline |-> {}]
NoZip == [jobs |-> {}, findings |-> {}, rows |-> {}]

ReadInit ==
    /\ at = [q \in Requests |-> "idle"]
    /\ text = [q \in Requests |-> NoText]
    /\ zip = [q \in Requests |-> NoZip]
    /\ counted = [q \in Requests |-> [jobs |-> {}, findings |-> {}]]

Advance(q, from, to) ==
    /\ at[q] = from
    /\ at' = [at EXCEPT ![q] = to]

JobsIn(rows) == {row.job : row \in rows}
Backed(findings) == {f \in findings : f.evidence # None}

(* The evidence column of q's findings, from the evidence rows it read. *)
Cite(q, rows) ==
    LET backed == Backed(text[q].findings)
    IN  [text EXCEPT ![q].cited = {f.evidence : f \in backed} \cap rows,
                     ![q].bare = {f \in backed : f.evidence \notin rows}]

--------------------------------------------------------------------------------
(* build_markdown_report; build_report_zip loads the tables once more.      *)

LoadJobs(r) ==
    /\ \/ /\ Advance(r, "idle", "md: jobs")
          /\ text' = [text EXCEPT ![r].jobs = db.jobs]
          /\ UNCHANGED zip
       \/ /\ Advance(r, "md: done", "zip: jobs")
          /\ zip' = [zip EXCEPT ![r].jobs = db.jobs]
          /\ UNCHANGED text
    /\ UNCHANGED counted

LoadFindings(r) ==
    /\ \/ /\ Advance(r, "md: jobs", "md: findings")
          /\ text' = [text EXCEPT ![r].findings = db.findings]
          /\ UNCHANGED zip
       \/ /\ Advance(r, "zip: jobs", "zip: findings")
          /\ zip' = [zip EXCEPT ![r].findings = db.findings]
          /\ UNCHANGED text
    /\ UNCHANGED counted

(* SELECT the evidence of the jobs that were read first. *)
EvidenceOf(jobs) == {e \in db.evidence : e.file.job \in jobs}

LoadEvidence(r) ==
    /\ Advance(r, "md: findings", "md: evidence")
    /\ text' = Cite(r, EvidenceOf(JobsIn(text[r].jobs)))
    /\ UNCHANGED <<zip, counted>>

LoadActivity(r) ==
    /\ Advance(r, "md: evidence", "md: done")
    /\ text' = [text EXCEPT ![r].timeline = db.log]
    /\ UNCHANGED <<zip, counted>>

(* A file that cannot be read is left out. *)
PackEvidence(r) ==
    /\ Advance(r, "zip: findings", "packed")
    /\ zip' = [zip EXCEPT ![r].rows =
                 {e \in EvidenceOf(JobsIn(zip[r].jobs)) : e.file \in files}]
    /\ UNCHANGED <<text, counted>>

(* Broken variant: the snapshot counts what the archive has. *)
CountBackedJobs(r) ==
    /\ \/ Advance(r, "packed", "counted jobs")
       \/ Advance(r, "md: done", "counted jobs")
    /\ counted' = [counted EXCEPT ![r].jobs = {e.file.job : e \in zip[r].rows}]
    /\ UNCHANGED <<text, zip>>

(* _record_snapshot counts the rows of both tables again, after the archive *)
(* or, for report.md, after its text.                                       *)
CountJobs(r) ==
    /\ \/ Advance(r, "packed", "counted jobs")
       \/ Advance(r, "md: done", "counted jobs")
    /\ counted' = [counted EXCEPT ![r].jobs = JobsIn(db.jobs)]
    /\ UNCHANGED <<text, zip>>

CountFindings(r) ==
    /\ Advance(r, "counted jobs", "counted")
    /\ counted' = [counted EXCEPT ![r].findings = {f.key : f \in db.findings}]
    /\ UNCHANGED <<text, zip>>

(* The INSERT of the snapshot needs the write lock; get_session commits. *)
RecordSnapshot(r) ==
    /\ Advance(r, "counted", "done")
    /\ writer = None
    /\ UNCHANGED <<text, zip, counted>>

(* An active job holds the lock longer than the timeout: the report fails. *)
SnapshotTimeout(r) ==
    /\ Advance(r, "counted", "failed")
    /\ writer # None
    /\ UNCHANGED <<text, zip, counted>>

--------------------------------------------------------------------------------
(* list_findings: the findings, then the evidence that they link to.       *)

SelectFindings(q) ==
    /\ Advance(q, "idle", "list: findings")
    /\ text' = [text EXCEPT ![q].findings = db.findings]
    /\ UNCHANGED <<zip, counted>>

(* Broken variant: the evidence of the jobs that the findings now belong to. *)
NamedByJob(findings) ==
    {e \in db.evidence : e.file.job \in {f.job : f \in findings}}

Named(findings) == {e \in db.evidence : e \in {f.evidence : f \in findings}}

SelectNames(q) ==
    /\ Advance(q, "list: findings", "listed")
    /\ text' = Cite(q, Named(text[q].findings))
    /\ UNCHANGED <<zip, counted>>

ReadNext ==
    \E r \in Requests : \/ LoadJobs(r) \/ LoadFindings(r) \/ LoadEvidence(r)
                        \/ LoadActivity(r) \/ PackEvidence(r)
                        \/ CountJobs(r) \/ CountFindings(r)
                        \/ RecordSnapshot(r) \/ SnapshotTimeout(r)
                        \/ SelectFindings(r) \/ SelectNames(r)

ReportsInit == Init /\ ReadInit

ReportsNext ==
    \/ Next /\ UNCHANGED reading
    \/ ReadNext /\ UNCHANGED vars

ReportsSpec == ReportsInit /\ [][ReportsNext]_allVars

--------------------------------------------------------------------------------
(* A report that is recorded is whole, although jobs commit between its     *)
(* loads: every job of the text has its line in the timeline, with the same *)
(* status; the archive holds the file of every evidence row that the text   *)
(* cites; and the snapshot row, "Audit record of a generated report",       *)
(* counts every job and finding of text and manifest.  They are counted     *)
(* anew, after the report, so it may count more.                            *)
RecordedReportsAreWhole ==
    \A r \in Requests : at[r] = "done" =>
        /\ \A row \in text[r].jobs : \E line \in text[r].timeline :
              line.job = row.job /\ line.status = row.status
        /\ JobsIn(text[r].jobs \cup zip[r].jobs) \subseteq counted[r].jobs
        /\ {f.key : f \in text[r].findings \cup zip[r].findings} \subseteq counted[r].findings
        /\ zip[r] # NoZip => text[r].cited \subseteq zip[r].rows

(* A finding's evidence can be named: always in the list of findings, and   *)
(* in report.md unless its job committed after the report had read the      *)
(* jobs; that job is then missing from the report as well.                  *)
EvidenceIsShown ==
    \A r \in Requests : \A f \in text[r].bare :
        /\ at[r] # "listed"
        /\ f.evidence.file.job \notin JobsIn(text[r].jobs)
================================================================================
