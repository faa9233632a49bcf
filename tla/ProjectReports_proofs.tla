------------------------- MODULE ProjectReports_proofs -------------------------
(***************************************************************************)
(* Proofs about ProjectReports for any jobs and requests: what a request   *)
(* has read was in the tables when it read, and the tables only grow       *)
(* (EvidenceTrail_proofs).  The invariant says which of two reads sees at  *)
(* least what the other one saw.                                           *)
(***************************************************************************)
EXTENDS ProjectReports, EvidenceTrail_proofs

Written == {"md: done", "zip: jobs", "zip: findings", "packed",
            "counted jobs", "counted", "done", "failed"}

ShapeInv ==
    /\ at = [q \in Requests |-> at[q]]
    /\ text = [q \in Requests |-> text[q]]
    /\ zip = [q \in Requests |-> zip[q]]
    /\ counted = [q \in Requests |-> counted[q]]
    /\ \A q \in Requests :
          /\ text[q] = [jobs |-> text[q].jobs, findings |-> text[q].findings,
                        cited |-> text[q].cited, bare |-> text[q].bare,
                        timeline |-> text[q].timeline]
          /\ zip[q] = [jobs |-> zip[q].jobs, findings |-> zip[q].findings,
                       rows |-> zip[q].rows]
          /\ counted[q] = [jobs |-> counted[q].jobs, findings |-> counted[q].findings]

Keys(F) == {f.key : f \in F}

(* What q has read is still in the tables. *)
ReadInv(q) ==
    /\ text[q].jobs \cup zip[q].jobs \subseteq db.jobs
    /\ Keys(text[q].findings \cup zip[q].findings) \subseteq Keys(db.findings)
    /\ \A f \in Backed(text[q].findings) : f.evidence \in db.evidence
    /\ text[q].cited \subseteq db.evidence

(* What is shown is of jobs that were read before. *)
ShownInv(q) ==
    /\ at[q] = "idle" => text[q] = NoText
    /\ at[q] = "listed" => text[q].bare = {}
    /\ \A f \in text[q].bare : f.evidence.file.job \notin JobsIn(text[q].jobs)
    /\ at[q] # "listed" => \A e \in text[q].cited : e.file.job \in JobsIn(text[q].jobs)
    /\ at[q] \in Written =>
          \A row \in text[q].jobs : \E line \in text[q].timeline :
              line.job = row.job /\ line.status = row.status

(* The archive and the counts come after the text. *)
PackedInv(q) ==
    /\ at[q] \in {"idle", "md: jobs", "md: findings", "md: evidence", "md: done"} =>
          zip[q] = NoZip
    /\ at[q] \in {"zip: jobs", "zip: findings"} =>
          JobsIn(text[q].jobs) \subseteq JobsIn(zip[q].jobs)
    /\ at[q] \in {"packed", "counted jobs", "counted", "done"} /\ zip[q] # NoZip =>
          text[q].cited \subseteq zip[q].rows
    /\ at[q] \in {"counted jobs", "counted", "done"} =>
          JobsIn(text[q].jobs \cup zip[q].jobs) \subseteq counted[q].jobs
    /\ at[q] \in {"counted", "done"} =>
          Keys(text[q].findings \cup zip[q].findings) \subseteq counted[q].findings

RInv ==
    /\ ShapeInv
    /\ \A q \in Requests : ReadInv(q) /\ ShownInv(q) /\ PackedInv(q)
--------------------------------------------------------------------------------
LEMMA StartReading == ReadInit => RInv
BY DEF ReadInit, RInv, ShapeInv, ReadInv, ShownInv, PackedInv, NoText, NoZip,
       JobsIn, Backed, Keys, Written

LEMMA NothingRead ==
    /\ NoText.findings = {} /\ NoText.cited = {} /\ NoText.bare = {}
    /\ NoZip.findings = {}
BY DEF NoText, NoZip

(* Where a step leaves the requests. *)
LEMMA Advanced ==
    ASSUME ShapeInv, NEW r \in Requests, NEW from, NEW to, Advance(r, from, to)
    PROVE  /\ at[r] = from /\ at'[r] = to
           /\ \A q \in Requests \ {r} : at'[q] = at[q]
           /\ at' = [q \in Requests |-> at'[q]]
BY DEF ShapeInv, Advance

(* One place of a function is replaced. *)
LEMMA Replaced ==
    ASSUME NEW f, f = [q \in Requests |-> f[q]], NEW r \in Requests, NEW x, NEW g,
           g = [f EXCEPT ![r] = x]
    PROVE  /\ g = [q \in Requests |-> g[q]]
           /\ \A q \in Requests \ {r} : g[q] = f[q]
           /\ g[r] = x
OBVIOUS

(* Where a read leaves what was read: one field of one request changes. *)
LEMMA TextJobs ==
    ASSUME ShapeInv, NEW r \in Requests, NEW x, text' = [text EXCEPT ![r].jobs = x]
    PROVE  /\ text' = [q \in Requests |-> text'[q]]
           /\ \A q \in Requests \ {r} : text'[q] = text[q]
           /\ text'[r] = [jobs |-> text'[r].jobs,
                           findings |-> text'[r].findings,
                           cited |-> text'[r].cited,
                           bare |-> text'[r].bare,
                           timeline |-> text'[r].timeline]
           /\ text'[r].jobs = x
           /\ text'[r].findings = text[r].findings
           /\ text'[r].cited = text[r].cited
           /\ text'[r].bare = text[r].bare
           /\ text'[r].timeline = text[r].timeline
<1>1. [text[r] EXCEPT !.jobs = x]
      = [jobs |-> x,
          findings |-> text[r].findings,
          cited |-> text[r].cited,
          bare |-> text[r].bare,
          timeline |-> text[r].timeline]
  BY DEF ShapeInv
<1>2. text' = [text EXCEPT ![r] = [text[r] EXCEPT !.jobs = x]]
  OBVIOUS
<1>3. /\ text' = [q \in Requests |-> text'[q]]
      /\ \A q \in Requests \ {r} : text'[q] = text[q]
      /\ text'[r] = [jobs |-> x,
            findings |-> text[r].findings,
            cited |-> text[r].cited,
            bare |-> text[r].bare,
            timeline |-> text[r].timeline]
  BY <1>1, <1>2, Replaced DEF ShapeInv
<1>4. QED
  BY <1>3

LEMMA TextFindings ==
    ASSUME ShapeInv, NEW r \in Requests, NEW x, text' = [text EXCEPT ![r].findings = x]
    PROVE  /\ text' = [q \in Requests |-> text'[q]]
           /\ \A q \in Requests \ {r} : text'[q] = text[q]
           /\ text'[r] = [jobs |-> text'[r].jobs,
                           findings |-> text'[r].findings,
                           cited |-> text'[r].cited,
                           bare |-> text'[r].bare,
                           timeline |-> text'[r].timeline]
           /\ text'[r].jobs = text[r].jobs
           /\ text'[r].findings = x
           /\ text'[r].cited = text[r].cited
           /\ text'[r].bare = text[r].bare
           /\ text'[r].timeline = text[r].timeline
<1>1. [text[r] EXCEPT !.findings = x]
      = [jobs |-> text[r].jobs,
          findings |-> x,
          cited |-> text[r].cited,
          bare |-> text[r].bare,
          timeline |-> text[r].timeline]
  BY DEF ShapeInv
<1>2. text' = [text EXCEPT ![r] = [text[r] EXCEPT !.findings = x]]
  OBVIOUS
<1>3. /\ text' = [q \in Requests |-> text'[q]]
      /\ \A q \in Requests \ {r} : text'[q] = text[q]
      /\ text'[r] = [jobs |-> text[r].jobs,
            findings |-> x,
            cited |-> text[r].cited,
            bare |-> text[r].bare,
            timeline |-> text[r].timeline]
  BY <1>1, <1>2, Replaced DEF ShapeInv
<1>4. QED
  BY <1>3

LEMMA TextTimeline ==
    ASSUME ShapeInv, NEW r \in Requests, NEW x, text' = [text EXCEPT ![r].timeline = x]
    PROVE  /\ text' = [q \in Requests |-> text'[q]]
           /\ \A q \in Requests \ {r} : text'[q] = text[q]
           /\ text'[r] = [jobs |-> text'[r].jobs,
                           findings |-> text'[r].findings,
                           cited |-> text'[r].cited,
                           bare |-> text'[r].bare,
                           timeline |-> text'[r].timeline]
           /\ text'[r].jobs = text[r].jobs
           /\ text'[r].findings = text[r].findings
           /\ text'[r].cited = text[r].cited
           /\ text'[r].bare = text[r].bare
           /\ text'[r].timeline = x
<1>1. [text[r] EXCEPT !.timeline = x]
      = [jobs |-> text[r].jobs,
          findings |-> text[r].findings,
          cited |-> text[r].cited,
          bare |-> text[r].bare,
          timeline |-> x]
  BY DEF ShapeInv
<1>2. text' = [text EXCEPT ![r] = [text[r] EXCEPT !.timeline = x]]
  OBVIOUS
<1>3. /\ text' = [q \in Requests |-> text'[q]]
      /\ \A q \in Requests \ {r} : text'[q] = text[q]
      /\ text'[r] = [jobs |-> text[r].jobs,
            findings |-> text[r].findings,
            cited |-> text[r].cited,
            bare |-> text[r].bare,
            timeline |-> x]
  BY <1>1, <1>2, Replaced DEF ShapeInv
<1>4. QED
  BY <1>3

LEMMA ZipJobs ==
    ASSUME ShapeInv, NEW r \in Requests, NEW x, zip' = [zip EXCEPT ![r].jobs = x]
    PROVE  /\ zip' = [q \in Requests |-> zip'[q]]
           /\ \A q \in Requests \ {r} : zip'[q] = zip[q]
           /\ zip'[r] = [jobs |-> zip'[r].jobs,
                          findings |-> zip'[r].findings,
                          rows |-> zip'[r].rows]
           /\ zip'[r].jobs = x
           /\ zip'[r].findings = zip[r].findings
           /\ zip'[r].rows = zip[r].rows
<1>1. [zip[r] EXCEPT !.jobs = x]
      = [jobs |-> x,
          findings |-> zip[r].findings,
          rows |-> zip[r].rows]
  BY DEF ShapeInv
<1>2. zip' = [zip EXCEPT ![r] = [zip[r] EXCEPT !.jobs = x]]
  OBVIOUS
<1>3. /\ zip' = [q \in Requests |-> zip'[q]]
      /\ \A q \in Requests \ {r} : zip'[q] = zip[q]
      /\ zip'[r] = [jobs |-> x,
            findings |-> zip[r].findings,
            rows |-> zip[r].rows]
  BY <1>1, <1>2, Replaced DEF ShapeInv
<1>4. QED
  BY <1>3

LEMMA ZipFindings ==
    ASSUME ShapeInv, NEW r \in Requests, NEW x, zip' = [zip EXCEPT ![r].findings = x]
    PROVE  /\ zip' = [q \in Requests |-> zip'[q]]
           /\ \A q \in Requests \ {r} : zip'[q] = zip[q]
           /\ zip'[r] = [jobs |-> zip'[r].jobs,
                          findings |-> zip'[r].findings,
                          rows |-> zip'[r].rows]
           /\ zip'[r].jobs = zip[r].jobs
           /\ zip'[r].findings = x
           /\ zip'[r].rows = zip[r].rows
<1>1. [zip[r] EXCEPT !.findings = x]
      = [jobs |-> zip[r].jobs,
          findings |-> x,
          rows |-> zip[r].rows]
  BY DEF ShapeInv
<1>2. zip' = [zip EXCEPT ![r] = [zip[r] EXCEPT !.findings = x]]
  OBVIOUS
<1>3. /\ zip' = [q \in Requests |-> zip'[q]]
      /\ \A q \in Requests \ {r} : zip'[q] = zip[q]
      /\ zip'[r] = [jobs |-> zip[r].jobs,
            findings |-> x,
            rows |-> zip[r].rows]
  BY <1>1, <1>2, Replaced DEF ShapeInv
<1>4. QED
  BY <1>3

LEMMA ZipRows ==
    ASSUME ShapeInv, NEW r \in Requests, NEW x, zip' = [zip EXCEPT ![r].rows = x]
    PROVE  /\ zip' = [q \in Requests |-> zip'[q]]
           /\ \A q \in Requests \ {r} : zip'[q] = zip[q]
           /\ zip'[r] = [jobs |-> zip'[r].jobs,
                          findings |-> zip'[r].findings,
                          rows |-> zip'[r].rows]
           /\ zip'[r].jobs = zip[r].jobs
           /\ zip'[r].findings = zip[r].findings
           /\ zip'[r].rows = x
<1>1. [zip[r] EXCEPT !.rows = x]
      = [jobs |-> zip[r].jobs,
          findings |-> zip[r].findings,
          rows |-> x]
  BY DEF ShapeInv
<1>2. zip' = [zip EXCEPT ![r] = [zip[r] EXCEPT !.rows = x]]
  OBVIOUS
<1>3. /\ zip' = [q \in Requests |-> zip'[q]]
      /\ \A q \in Requests \ {r} : zip'[q] = zip[q]
      /\ zip'[r] = [jobs |-> zip[r].jobs,
            findings |-> zip[r].findings,
            rows |-> x]
  BY <1>1, <1>2, Replaced DEF ShapeInv
<1>4. QED
  BY <1>3

LEMMA CountedJobs ==
    ASSUME ShapeInv, NEW r \in Requests, NEW x, counted' = [counted EXCEPT ![r].jobs = x]
    PROVE  /\ counted' = [q \in Requests |-> counted'[q]]
           /\ \A q \in Requests \ {r} : counted'[q] = counted[q]
           /\ counted'[r] = [jobs |-> counted'[r].jobs,
                              findings |-> counted'[r].findings]
           /\ counted'[r].jobs = x
           /\ counted'[r].findings = counted[r].findings
<1>1. [counted[r] EXCEPT !.jobs = x]
      = [jobs |-> x,
          findings |-> counted[r].findings]
  BY DEF ShapeInv
<1>2. counted' = [counted EXCEPT ![r] = [counted[r] EXCEPT !.jobs = x]]
  OBVIOUS
<1>3. /\ counted' = [q \in Requests |-> counted'[q]]
      /\ \A q \in Requests \ {r} : counted'[q] = counted[q]
      /\ counted'[r] = [jobs |-> x,
            findings |-> counted[r].findings]
  BY <1>1, <1>2, Replaced DEF ShapeInv
<1>4. QED
  BY <1>3

LEMMA CountedFindings ==
    ASSUME ShapeInv, NEW r \in Requests, NEW x, counted' = [counted EXCEPT ![r].findings = x]
    PROVE  /\ counted' = [q \in Requests |-> counted'[q]]
           /\ \A q \in Requests \ {r} : counted'[q] = counted[q]
           /\ counted'[r] = [jobs |-> counted'[r].jobs,
                              findings |-> counted'[r].findings]
           /\ counted'[r].jobs = counted[r].jobs
           /\ counted'[r].findings = x
<1>1. [counted[r] EXCEPT !.findings = x]
      = [jobs |-> counted[r].jobs,
          findings |-> x]
  BY DEF ShapeInv
<1>2. counted' = [counted EXCEPT ![r] = [counted[r] EXCEPT !.findings = x]]
  OBVIOUS
<1>3. /\ counted' = [q \in Requests |-> counted'[q]]
      /\ \A q \in Requests \ {r} : counted'[q] = counted[q]
      /\ counted'[r] = [jobs |-> counted[r].jobs,
            findings |-> x]
  BY <1>1, <1>2, Replaced DEF ShapeInv
<1>4. QED
  BY <1>3

Cited(q, rows) == {f.evidence : f \in Backed(text[q].findings)} \cap rows
Bare(q, rows) == {f \in Backed(text[q].findings) : f.evidence \notin rows}

LEMMA TextCited ==
    ASSUME ShapeInv, NEW r \in Requests, NEW rows, text' = Cite(r, rows)
    PROVE  /\ text' = [q \in Requests |-> text'[q]]
           /\ \A q \in Requests \ {r} : text'[q] = text[q]
           /\ text'[r] = [jobs |-> text'[r].jobs,
                           findings |-> text'[r].findings,
                           cited |-> text'[r].cited,
                           bare |-> text'[r].bare,
                           timeline |-> text'[r].timeline]
           /\ text'[r].jobs = text[r].jobs
           /\ text'[r].findings = text[r].findings
           /\ text'[r].cited = Cited(r, rows)
           /\ text'[r].bare = Bare(r, rows)
           /\ text'[r].timeline = text[r].timeline
<1>. DEFINE x == [jobs |-> text[r].jobs, findings |-> text[r].findings,
                   cited |-> Cited(r, rows), bare |-> text[r].bare,
                   timeline |-> text[r].timeline]
             y == [jobs |-> text[r].jobs, findings |-> text[r].findings,
                   cited |-> Cited(r, rows), bare |-> Bare(r, rows),
                   timeline |-> text[r].timeline]
             f == [text EXCEPT ![r] = x]
<1>1. [text[r] EXCEPT !.cited = Cited(r, rows)] = x
  BY DEF ShapeInv
<1>2. text' = [f EXCEPT ![r].bare = Bare(r, rows)]
  BY <1>1 DEF Cite, Cited, Bare
<1>3. [x EXCEPT !.bare = Bare(r, rows)] = y
  OBVIOUS
<1>4. f[r] = x /\ f = [q \in Requests |-> f[q]] /\ \A q \in Requests \ {r} : f[q] = text[q]
  BY Replaced DEF ShapeInv
<1> HIDE DEF f
<1>5. text' = [f EXCEPT ![r] = y]
  BY <1>2, <1>3, <1>4
<1>6. /\ text' = [q \in Requests |-> text'[q]]
      /\ \A q \in Requests \ {r} : text'[q] = text[q]
      /\ text'[r] = y
  BY <1>4, <1>5, Replaced
<1>7. QED
  BY <1>6

LEMMA TextShape ==
    ASSUME ShapeInv, NEW r \in Requests, at' = [q \in Requests |-> at'[q]],
           text' = [q \in Requests |-> text'[q]],
           \A q \in Requests \ {r} : text'[q] = text[q],
           text'[r] = [jobs |-> text'[r].jobs, findings |-> text'[r].findings,
                       cited |-> text'[r].cited, bare |-> text'[r].bare,
                       timeline |-> text'[r].timeline],
           zip' = zip, counted' = counted
    PROVE  ShapeInv'
BY DEF ShapeInv

LEMMA ZipShape ==
    ASSUME ShapeInv, NEW r \in Requests, at' = [q \in Requests |-> at'[q]],
           zip' = [q \in Requests |-> zip'[q]],
           \A q \in Requests \ {r} : zip'[q] = zip[q],
           zip'[r] = [jobs |-> zip'[r].jobs, findings |-> zip'[r].findings,
                      rows |-> zip'[r].rows],
           text' = text, counted' = counted
    PROVE  ShapeInv'
BY DEF ShapeInv

LEMMA CountedShape ==
    ASSUME ShapeInv, NEW r \in Requests, at' = [q \in Requests |-> at'[q]],
           counted' = [q \in Requests |-> counted'[q]],
           \A q \in Requests \ {r} : counted'[q] = counted[q],
           counted'[r] = [jobs |-> counted'[r].jobs, findings |-> counted'[r].findings],
           text' = text, zip' = zip
    PROVE  ShapeInv'
BY DEF ShapeInv

LEMMA TablesOnlyGrow ==
    ASSUME IInv, [Next]_vars
    PROVE  /\ db.jobs \subseteq db'.jobs
           /\ db.evidence \subseteq db'.evidence
           /\ Keys(db.findings) \subseteq Keys(db'.findings)
<1>1. CASE db' = db
  BY <1>1
<1>2. CASE \E j \in Jobs : Commit(j)
  <2>1. PICK j \in Jobs : Commit(j)
    BY <1>2
  <2>2. /\ writer # None /\ db' = draft
        /\ \E status \in Ends : draft.jobs = db.jobs \cup {[job |-> j, status |-> status]}
    BY <2>1, CommittedDraft
  <2>3. db.evidence \subseteq draft.evidence
    BY <2>2 DEF IInv, RowsInv
  <2>4. \A f \in db.findings : \E g \in draft.findings : g.key = f.key
    BY <2>2 DEF IInv, FindingsInv, Keeps
  <2>5. QED
    BY <2>2, <2>3, <2>4 DEF Keys
<1>3. QED
  BY <1>1, <1>2, TablesGrow

(* A request that stands still keeps what it has, while the tables grow. *)
LEMMA QuietKeeps ==
    ASSUME RInv, NEW q \in Requests,
           db.jobs \subseteq db'.jobs, db.evidence \subseteq db'.evidence,
           Keys(db.findings) \subseteq Keys(db'.findings),
           at'[q] = at[q], text'[q] = text[q], zip'[q] = zip[q], counted'[q] = counted[q]
    PROVE  ReadInv(q)' /\ ShownInv(q)' /\ PackedInv(q)'
<1>1. ReadInv(q)'
  BY DEF RInv, ReadInv, Backed
<1>2. ShownInv(q)'
  BY DEF RInv, ShownInv, JobsIn
<1>3. PackedInv(q)'
  BY DEF RInv, PackedInv, JobsIn, Keys
<1>4. QED
  BY <1>1, <1>2, <1>3

(* To see that a read keeps RInv it is enough to look at the request. *)
LEMMA ReadKeeps ==
    ASSUME RInv, NEW r \in Requests, db' = db, ShapeInv',
           \A q \in Requests \ {r} : at'[q] = at[q] /\ text'[q] = text[q]
                                       /\ zip'[q] = zip[q] /\ counted'[q] = counted[q],
           ReadInv(r)', ShownInv(r)', PackedInv(r)'
    PROVE  RInv'
<1>1. ASSUME NEW q \in Requests \ {r} PROVE ReadInv(q)' /\ ShownInv(q)' /\ PackedInv(q)'
  BY QuietKeeps
<1>2. QED
  BY <1>1 DEF RInv
--------------------------------------------------------------------------------
LEMMA LoadJobsKeeps ==
    ASSUME IInv, RInv, UNCHANGED vars, NEW r \in Requests, LoadJobs(r)
    PROVE  RInv'
<1>1. db' = db /\ counted' = counted
  BY DEF vars, disk, LoadJobs
<1>2. CASE Advance(r, "idle", "md: jobs") /\ text' = [text EXCEPT ![r].jobs = db.jobs]
             /\ zip' = zip
  <2>1. /\ at[r] = "idle" /\ at'[r] = "md: jobs"
        /\ \A q \in Requests \ {r} : at'[q] = at[q]
        /\ at' = [q \in Requests |-> at'[q]]
    BY <1>2, Advanced DEF RInv
  <2>2. /\ text' = [q \in Requests |-> text'[q]]
        /\ \A q \in Requests \ {r} : text'[q] = text[q]
        /\ text'[r] = [jobs |-> text'[r].jobs, findings |-> text'[r].findings,
                       cited |-> text'[r].cited, bare |-> text'[r].bare,
                       timeline |-> text'[r].timeline]
        /\ text'[r].jobs = db.jobs
        /\ text'[r].findings = text[r].findings
        /\ text'[r].cited = text[r].cited
        /\ text'[r].bare = text[r].bare
    BY <1>2, TextJobs DEF RInv
  <2>3. text[r].findings = {} /\ text[r].cited = {} /\ text[r].bare = {}
    BY <2>1, NothingRead DEF RInv, ShownInv
  <2>4. ShapeInv'
    BY <1>1, <1>2, <2>1, <2>2, TextShape DEF RInv
  <2>5. ReadInv(r)'
    BY <1>1, <1>2, <2>2, <2>3 DEF RInv, ReadInv, Backed, Keys
  <2>6. ShownInv(r)'
    BY <2>1, <2>2, <2>3 DEF ShownInv, Written
  <2>7. PackedInv(r)'
    BY <1>2, <2>1 DEF RInv, PackedInv
  <2>8. QED
    BY <1>1, <1>2, <2>1, <2>2, <2>4, <2>5, <2>6, <2>7, ReadKeeps
<1>3. CASE Advance(r, "md: done", "zip: jobs") /\ zip' = [zip EXCEPT ![r].jobs = db.jobs]
             /\ text' = text
  <2>1. /\ at[r] = "md: done" /\ at'[r] = "zip: jobs"
        /\ \A q \in Requests \ {r} : at'[q] = at[q]
        /\ at' = [q \in Requests |-> at'[q]]
    BY <1>3, Advanced DEF RInv
  <2>2. /\ zip' = [q \in Requests |-> zip'[q]]
        /\ \A q \in Requests \ {r} : zip'[q] = zip[q]
        /\ zip'[r] = [jobs |-> zip'[r].jobs, findings |-> zip'[r].findings,
                      rows |-> zip'[r].rows]
        /\ zip'[r].jobs = db.jobs
        /\ zip'[r].findings = zip[r].findings
    BY <1>3, ZipJobs DEF RInv
  <2>3. ShapeInv'
    BY <1>1, <1>3, <2>1, <2>2, ZipShape DEF RInv
  <2>4. ReadInv(r)'
    BY <1>1, <1>3, <2>2 DEF RInv, ReadInv, Keys
  <2>5. ShownInv(r)'
    BY <1>3, <2>1 DEF RInv, ShownInv, Written
  <2>6. JobsIn(text[r].jobs) \subseteq JobsIn(db.jobs)
    BY DEF RInv, ReadInv, JobsIn
  <2>7. PackedInv(r)'
    BY <1>3, <2>1, <2>2, <2>6 DEF PackedInv, JobsIn
  <2>8. QED
    BY <1>1, <1>3, <2>1, <2>2, <2>3, <2>4, <2>5, <2>7, ReadKeeps
<1>4. QED
  BY <1>2, <1>3 DEF LoadJobs

LEMMA LoadFindingsKeeps ==
    ASSUME IInv, RInv, UNCHANGED vars, NEW r \in Requests, LoadFindings(r)
    PROVE  RInv'
<1>1. db' = db /\ counted' = counted
  BY DEF vars, disk, LoadFindings
<1>2. CASE Advance(r, "md: jobs", "md: findings") /\ zip' = zip
             /\ text' = [text EXCEPT ![r].findings = db.findings]
  <2>1. /\ at[r] = "md: jobs" /\ at'[r] = "md: findings"
        /\ \A q \in Requests \ {r} : at'[q] = at[q]
        /\ at' = [q \in Requests |-> at'[q]]
    BY <1>2, Advanced DEF RInv
  <2>2. /\ text' = [q \in Requests |-> text'[q]]
        /\ \A q \in Requests \ {r} : text'[q] = text[q]
        /\ text'[r] = [jobs |-> text'[r].jobs, findings |-> text'[r].findings,
                       cited |-> text'[r].cited, bare |-> text'[r].bare,
                       timeline |-> text'[r].timeline]
        /\ text'[r].jobs = text[r].jobs
        /\ text'[r].findings = db.findings
        /\ text'[r].cited = text[r].cited
        /\ text'[r].bare = text[r].bare
    BY <1>2, TextFindings DEF RInv
  <2>3. ShapeInv'
    BY <1>1, <1>2, <2>1, <2>2, TextShape DEF RInv
  <2>4. ReadInv(r)'
    <3>1. \A f \in Backed(db.findings) : f.evidence \in db.evidence
      BY DEF IInv, FindingsInv, Findings, Backed
    <3>2. zip[r].findings = {}
      BY <2>1, NothingRead DEF RInv, PackedInv
    <3>3. QED
      BY <1>1, <1>2, <2>2, <3>1, <3>2 DEF RInv, ReadInv, Keys
  <2>5. ShownInv(r)'
    BY <2>1, <2>2 DEF RInv, ShownInv, Written
  <2>6. PackedInv(r)'
    BY <1>2, <2>1 DEF RInv, PackedInv
  <2>7. QED
    BY <1>1, <1>2, <2>1, <2>2, <2>3, <2>4, <2>5, <2>6, ReadKeeps
<1>3. CASE Advance(r, "zip: jobs", "zip: findings") /\ text' = text
             /\ zip' = [zip EXCEPT ![r].findings = db.findings]
  <2>1. /\ at[r] = "zip: jobs" /\ at'[r] = "zip: findings"
        /\ \A q \in Requests \ {r} : at'[q] = at[q]
        /\ at' = [q \in Requests |-> at'[q]]
    BY <1>3, Advanced DEF RInv
  <2>2. /\ zip' = [q \in Requests |-> zip'[q]]
        /\ \A q \in Requests \ {r} : zip'[q] = zip[q]
        /\ zip'[r] = [jobs |-> zip'[r].jobs, findings |-> zip'[r].findings,
                      rows |-> zip'[r].rows]
        /\ zip'[r].jobs = zip[r].jobs
        /\ zip'[r].findings = db.findings
    BY <1>3, ZipFindings DEF RInv
  <2>3. ShapeInv'
    BY <1>1, <1>3, <2>1, <2>2, ZipShape DEF RInv
  <2>4. ReadInv(r)'
    <3>1. Keys(text[r].findings) \subseteq Keys(db.findings)
      BY DEF RInv, ReadInv, Keys
    <3>2. Keys(text[r].findings \cup db.findings) \subseteq Keys(db.findings)
      BY <3>1 DEF Keys
    <3>3. QED
      BY <1>1, <1>3, <2>2, <3>2 DEF RInv, ReadInv
  <2>5. ShownInv(r)'
    BY <1>3, <2>1 DEF RInv, ShownInv, Written
  <2>6. PackedInv(r)'
    BY <1>3, <2>1, <2>2 DEF RInv, PackedInv
  <2>7. QED
    BY <1>1, <1>3, <2>1, <2>2, <2>3, <2>4, <2>5, <2>6, ReadKeeps
<1>4. QED
  BY <1>2, <1>3 DEF LoadFindings

LEMMA LoadEvidenceKeeps ==
    ASSUME IInv, RInv, UNCHANGED vars, NEW r \in Requests, LoadEvidence(r)
    PROVE  RInv'
<1>. DEFINE rows == EvidenceOf(JobsIn(text[r].jobs))
<1>1. db' = db /\ counted' = counted /\ zip' = zip
  BY DEF vars, disk, LoadEvidence
<1>2. /\ at[r] = "md: findings" /\ at'[r] = "md: evidence"
      /\ \A q \in Requests \ {r} : at'[q] = at[q]
      /\ at' = [q \in Requests |-> at'[q]]
  BY Advanced DEF RInv, LoadEvidence
<1>3. /\ text' = [q \in Requests |-> text'[q]]
      /\ \A q \in Requests \ {r} : text'[q] = text[q]
      /\ text'[r] = [jobs |-> text'[r].jobs, findings |-> text'[r].findings,
                     cited |-> text'[r].cited, bare |-> text'[r].bare,
                     timeline |-> text'[r].timeline]
      /\ text'[r].jobs = text[r].jobs
      /\ text'[r].findings = text[r].findings
      /\ text'[r].cited = Cited(r, rows)
      /\ text'[r].bare = Bare(r, rows)
  BY TextCited DEF RInv, LoadEvidence
<1>4. ShapeInv'
  BY <1>1, <1>2, <1>3, TextShape DEF RInv
<1>5. ReadInv(r)'
  <2>1. Cited(r, rows) \subseteq db.evidence
    BY DEF Cited, EvidenceOf
  <2>2. QED
    BY <1>1, <1>3, <2>1 DEF RInv, ReadInv
<1>6. ShownInv(r)'
  <2>1. \A f \in Bare(r, rows) : f.evidence.file.job \notin JobsIn(text[r].jobs)
    BY DEF RInv, ReadInv, Bare, EvidenceOf
  <2>2. \A e \in Cited(r, rows) : e.file.job \in JobsIn(text[r].jobs)
    BY DEF Cited, EvidenceOf
  <2>3. QED
    BY <1>2, <1>3, <2>1, <2>2 DEF ShownInv, Written
<1>7. PackedInv(r)'
  BY <1>1, <1>2 DEF RInv, PackedInv
<1>8. QED
  BY <1>1, <1>2, <1>3, <1>4, <1>5, <1>6, <1>7, ReadKeeps

LEMMA LoadActivityKeeps ==
    ASSUME IInv, RInv, UNCHANGED vars, NEW r \in Requests, LoadActivity(r)
    PROVE  RInv'
<1>1. db' = db /\ counted' = counted /\ zip' = zip
  BY DEF vars, disk, LoadActivity
<1>2. /\ at[r] = "md: evidence" /\ at'[r] = "md: done"
      /\ \A q \in Requests \ {r} : at'[q] = at[q]
      /\ at' = [q \in Requests |-> at'[q]]
  BY Advanced DEF RInv, LoadActivity
<1>3. /\ text' = [q \in Requests |-> text'[q]]
      /\ \A q \in Requests \ {r} : text'[q] = text[q]
      /\ text'[r] = [jobs |-> text'[r].jobs, findings |-> text'[r].findings,
                     cited |-> text'[r].cited, bare |-> text'[r].bare,
                     timeline |-> text'[r].timeline]
      /\ text'[r].jobs = text[r].jobs
      /\ text'[r].findings = text[r].findings
      /\ text'[r].cited = text[r].cited
      /\ text'[r].bare = text[r].bare
      /\ text'[r].timeline = db.log
  BY TextTimeline DEF RInv, LoadActivity
<1>4. ShapeInv'
  BY <1>1, <1>2, <1>3, TextShape DEF RInv
<1>5. ReadInv(r)'
  BY <1>1, <1>3 DEF RInv, ReadInv
<1>6. ShownInv(r)'
  <2>1. ASSUME NEW row \in db.jobs
        PROVE  \E line \in db.log : line.job = row.job /\ line.status = row.status
    <3>1. row.job \in {line.job : line \in db.log}
      BY DEF IInv, LogInv, JobsAreLogged
    <3>2. PICK line \in db.log : line.job = row.job
      BY <3>1
    <3>3. row.status = line.status
      BY <3>2 DEF IInv, LogInv, JobsAreLogged
    <3>4. QED
      BY <3>2, <3>3
  <2>2. text[r].jobs \subseteq db.jobs
    BY DEF RInv, ReadInv
  <2>3. QED
    BY <1>2, <1>3, <2>1, <2>2 DEF RInv, ShownInv
<1>7. PackedInv(r)'
  BY <1>1, <1>2, <1>3 DEF RInv, PackedInv
<1>8. QED
  BY <1>1, <1>2, <1>3, <1>4, <1>5, <1>6, <1>7, ReadKeeps

LEMMA PackEvidenceKeeps ==
    ASSUME IInv, RInv, UNCHANGED vars, NEW r \in Requests, PackEvidence(r)
    PROVE  RInv'
<1>1. db' = db /\ counted' = counted /\ text' = text
  BY DEF vars, disk, PackEvidence
<1>2. /\ at[r] = "zip: findings" /\ at'[r] = "packed"
      /\ \A q \in Requests \ {r} : at'[q] = at[q]
      /\ at' = [q \in Requests |-> at'[q]]
  BY Advanced DEF RInv, PackEvidence
<1>3. /\ zip' = [q \in Requests |-> zip'[q]]
      /\ \A q \in Requests \ {r} : zip'[q] = zip[q]
      /\ zip'[r] = [jobs |-> zip'[r].jobs, findings |-> zip'[r].findings,
                    rows |-> zip'[r].rows]
      /\ zip'[r].jobs = zip[r].jobs
      /\ zip'[r].findings = zip[r].findings
      /\ zip'[r].rows = {e \in EvidenceOf(JobsIn(zip[r].jobs)) : e.file \in files}
  BY ZipRows DEF RInv, PackEvidence
<1>4. ShapeInv'
  BY <1>1, <1>2, <1>3, ZipShape DEF RInv
<1>5. ReadInv(r)'
  BY <1>1, <1>3 DEF RInv, ReadInv
<1>6. ShownInv(r)'
  BY <1>1, <1>2 DEF RInv, ShownInv, Written
<1>7. PackedInv(r)'
  <2>1. ASSUME NEW e \in text[r].cited PROVE e \in zip'[r].rows
    <3>1. e \in db.evidence /\ e.file.job \in JobsIn(text[r].jobs)
      BY <1>2 DEF RInv, ReadInv, ShownInv
    <3>2. e.file.job \in JobsIn(zip[r].jobs)
      BY <1>2, <3>1 DEF RInv, PackedInv
    <3>3. e.file \in files
      BY <3>1 DEF IInv, RowsInv, Rows, RowsOf
    <3>4. QED
      BY <1>3, <3>1, <3>2, <3>3 DEF EvidenceOf
  <2>2. QED
    BY <1>1, <1>2, <2>1 DEF PackedInv
<1>8. QED
  BY <1>1, <1>2, <1>3, <1>4, <1>5, <1>6, <1>7, ReadKeeps

LEMMA CountJobsKeeps ==
    ASSUME IInv, RInv, UNCHANGED vars, NEW r \in Requests, CountJobs(r)
    PROVE  RInv'
<1>1. db' = db /\ zip' = zip /\ text' = text
  BY DEF vars, disk, CountJobs
<1>2. /\ at[r] \in {"packed", "md: done"} /\ at'[r] = "counted jobs"
      /\ \A q \in Requests \ {r} : at'[q] = at[q]
      /\ at' = [q \in Requests |-> at'[q]]
  BY Advanced DEF RInv, CountJobs
<1>3. /\ counted' = [q \in Requests |-> counted'[q]]
      /\ \A q \in Requests \ {r} : counted'[q] = counted[q]
      /\ counted'[r] = [jobs |-> counted'[r].jobs, findings |-> counted'[r].findings]
      /\ counted'[r].jobs = JobsIn(db.jobs)
  BY CountedJobs DEF RInv, CountJobs
<1>4. ShapeInv'
  BY <1>1, <1>2, <1>3, CountedShape DEF RInv
<1>5. ReadInv(r)'
  BY <1>1 DEF RInv, ReadInv
<1>6. ShownInv(r)'
  BY <1>1, <1>2 DEF RInv, ShownInv, Written
<1>7. PackedInv(r)'
  <2>1. JobsIn(text[r].jobs \cup zip[r].jobs) \subseteq JobsIn(db.jobs)
    BY DEF RInv, ReadInv, JobsIn
  <2>2. zip[r] # NoZip => text[r].cited \subseteq zip[r].rows
    BY <1>2 DEF RInv, PackedInv
  <2>3. QED
    BY <1>1, <1>2, <1>3, <2>1, <2>2 DEF PackedInv
<1>8. QED
  BY <1>1, <1>2, <1>3, <1>4, <1>5, <1>6, <1>7, ReadKeeps

LEMMA CountFindingsKeeps ==
    ASSUME IInv, RInv, UNCHANGED vars, NEW r \in Requests, CountFindings(r)
    PROVE  RInv'
<1>1. db' = db /\ zip' = zip /\ text' = text
  BY DEF vars, disk, CountFindings
<1>2. /\ at[r] = "counted jobs" /\ at'[r] = "counted"
      /\ \A q \in Requests \ {r} : at'[q] = at[q]
      /\ at' = [q \in Requests |-> at'[q]]
  BY Advanced DEF RInv, CountFindings
<1>3. /\ counted' = [q \in Requests |-> counted'[q]]
      /\ \A q \in Requests \ {r} : counted'[q] = counted[q]
      /\ counted'[r] = [jobs |-> counted'[r].jobs, findings |-> counted'[r].findings]
      /\ counted'[r].jobs = counted[r].jobs
      /\ counted'[r].findings = Keys(db.findings)
  BY CountedFindings DEF RInv, CountFindings, Keys
<1>4. ShapeInv'
  BY <1>1, <1>2, <1>3, CountedShape DEF RInv
<1>5. ReadInv(r)'
  BY <1>1 DEF RInv, ReadInv
<1>6. ShownInv(r)'
  BY <1>1, <1>2 DEF RInv, ShownInv, Written
<1>7. PackedInv(r)'
  <2>1. Keys(text[r].findings \cup zip[r].findings) \subseteq Keys(db.findings)
    BY DEF RInv, ReadInv
  <2>2. QED
    BY <1>1, <1>2, <1>3, <2>1 DEF RInv, PackedInv
<1>8. QED
  BY <1>1, <1>2, <1>3, <1>4, <1>5, <1>6, <1>7, ReadKeeps

LEMMA SnapshotKeeps ==
    ASSUME IInv, RInv, UNCHANGED vars, NEW r \in Requests,
           RecordSnapshot(r) \/ SnapshotTimeout(r)
    PROVE  RInv'
<1>1. db' = db /\ zip' = zip /\ text' = text /\ counted' = counted
  BY DEF vars, disk, RecordSnapshot, SnapshotTimeout
<1>2. /\ at[r] = "counted" /\ at'[r] \in {"done", "failed"}
      /\ \A q \in Requests \ {r} : at'[q] = at[q]
      /\ at' = [q \in Requests |-> at'[q]]
  BY Advanced DEF RInv, RecordSnapshot, SnapshotTimeout
<1>3. ShapeInv'
  BY <1>1, <1>2 DEF RInv, ShapeInv
<1>4. ReadInv(r)'
  BY <1>1 DEF RInv, ReadInv
<1>5. ShownInv(r)'
  BY <1>1, <1>2 DEF RInv, ShownInv, Written
<1>6. PackedInv(r)'
  BY <1>1, <1>2 DEF RInv, PackedInv
<1>7. QED
  BY <1>1, <1>2, <1>3, <1>4, <1>5, <1>6, ReadKeeps

LEMMA SelectFindingsKeeps ==
    ASSUME IInv, RInv, UNCHANGED vars, NEW r \in Requests, SelectFindings(r)
    PROVE  RInv'
<1>1. db' = db /\ counted' = counted /\ zip' = zip
  BY DEF vars, disk, SelectFindings
<1>2. /\ at[r] = "idle" /\ at'[r] = "list: findings"
      /\ \A q \in Requests \ {r} : at'[q] = at[q]
      /\ at' = [q \in Requests |-> at'[q]]
  BY Advanced DEF RInv, SelectFindings
<1>3. /\ text' = [q \in Requests |-> text'[q]]
      /\ \A q \in Requests \ {r} : text'[q] = text[q]
      /\ text'[r] = [jobs |-> text'[r].jobs, findings |-> text'[r].findings,
                     cited |-> text'[r].cited, bare |-> text'[r].bare,
                     timeline |-> text'[r].timeline]
      /\ text'[r].jobs = text[r].jobs
      /\ text'[r].findings = db.findings
      /\ text'[r].cited = text[r].cited
      /\ text'[r].bare = text[r].bare
  BY TextFindings DEF RInv, SelectFindings
<1>4. ShapeInv'
  BY <1>1, <1>2, <1>3, TextShape DEF RInv
<1>5. ReadInv(r)'
  <2>1. \A f \in Backed(db.findings) : f.evidence \in db.evidence
    BY DEF IInv, FindingsInv, Findings, Backed
  <2>2. zip[r].findings = {}
    BY <1>2, NothingRead DEF RInv, PackedInv
  <2>3. QED
    BY <1>1, <1>3, <2>1, <2>2 DEF RInv, ReadInv, Keys
<1>6. ShownInv(r)'
  <2>1. text[r].cited = {} /\ text[r].bare = {}
    BY <1>2, NothingRead DEF RInv, ShownInv
  <2>2. QED
    BY <1>2, <1>3, <2>1 DEF ShownInv, Written
<1>7. PackedInv(r)'
  BY <1>2 DEF PackedInv
<1>8. QED
  BY <1>1, <1>2, <1>3, <1>4, <1>5, <1>6, <1>7, ReadKeeps

LEMMA SelectNamesKeeps ==
    ASSUME IInv, RInv, UNCHANGED vars, NEW r \in Requests, SelectNames(r)
    PROVE  RInv'
<1>. DEFINE rows == Named(text[r].findings)
<1>1. db' = db /\ counted' = counted /\ zip' = zip
  BY DEF vars, disk, SelectNames
<1>2. /\ at[r] = "list: findings" /\ at'[r] = "listed"
      /\ \A q \in Requests \ {r} : at'[q] = at[q]
      /\ at' = [q \in Requests |-> at'[q]]
  BY Advanced DEF RInv, SelectNames
<1>3. /\ text' = [q \in Requests |-> text'[q]]
      /\ \A q \in Requests \ {r} : text'[q] = text[q]
      /\ text'[r] = [jobs |-> text'[r].jobs, findings |-> text'[r].findings,
                     cited |-> text'[r].cited, bare |-> text'[r].bare,
                     timeline |-> text'[r].timeline]
      /\ text'[r].jobs = text[r].jobs
      /\ text'[r].findings = text[r].findings
      /\ text'[r].cited = Cited(r, rows)
      /\ text'[r].bare = Bare(r, rows)
  BY TextCited DEF RInv, SelectNames
<1>4. ShapeInv'
  BY <1>1, <1>2, <1>3, TextShape DEF RInv
<1>5. ReadInv(r)'
  <2>1. Cited(r, rows) \subseteq db.evidence
    BY DEF Cited, Named
  <2>2. QED
    BY <1>1, <1>3, <2>1 DEF RInv, ReadInv
<1>6. ShownInv(r)'
  <2>1. Bare(r, rows) = {}
    BY DEF RInv, ReadInv, Bare, Backed, Named
  <2>2. QED
    BY <1>2, <1>3, <2>1 DEF ShownInv, Written
<1>7. PackedInv(r)'
  BY <1>2 DEF PackedInv
<1>8. QED
  BY <1>1, <1>2, <1>3, <1>4, <1>5, <1>6, <1>7, ReadKeeps
--------------------------------------------------------------------------------
(* A step of a job leaves every request where it is. *)
LEMMA JobStepKeeps ==
    ASSUME IInv, RInv, [Next]_vars, UNCHANGED reading
    PROVE  RInv'
<1>1. at' = at /\ text' = text /\ zip' = zip /\ counted' = counted
  BY DEF reading
<1>2. ASSUME NEW q \in Requests PROVE ReadInv(q)' /\ ShownInv(q)' /\ PackedInv(q)'
  BY <1>1, TablesOnlyGrow, QuietKeeps
<1>3. ShapeInv'
  BY <1>1 DEF RInv, ShapeInv
<1>4. QED
  BY <1>2, <1>3 DEF RInv

LEMMA ReadStepKeeps == IInv /\ RInv /\ ReadNext /\ UNCHANGED vars => RInv'
<1> SUFFICES ASSUME IInv, RInv, UNCHANGED vars, NEW r \in Requests,
                    \/ LoadJobs(r) \/ LoadFindings(r) \/ LoadEvidence(r)
                    \/ LoadActivity(r) \/ PackEvidence(r)
                    \/ CountJobs(r) \/ CountFindings(r)
                    \/ RecordSnapshot(r) \/ SnapshotTimeout(r)
                    \/ SelectFindings(r) \/ SelectNames(r)
             PROVE  RInv'
  BY DEF ReadNext
<1>1. QED
  BY LoadJobsKeeps, LoadFindingsKeeps, LoadEvidenceKeeps, LoadActivityKeeps,
     PackEvidenceKeeps, CountJobsKeeps, CountFindingsKeeps, SnapshotKeeps,
     SelectFindingsKeeps, SelectNamesKeeps

(* What the tables promise, and what a request has read of them, are kept   *)
(* by every step of a job and of a request.                                 *)
THEOREM ReportsInductive == ReportsSpec => [](IInv /\ RInv)
<1>1. ReportsInit => IInv /\ RInv
  BY Start, StartReading DEF ReportsInit
<1>2. IInv /\ RInv /\ [ReportsNext]_allVars => IInv' /\ RInv'
  <2> SUFFICES ASSUME IInv, RInv, [ReportsNext]_allVars PROVE IInv' /\ RInv'
    OBVIOUS
  <2>1. CASE [Next]_vars /\ UNCHANGED reading
    BY <2>1, NextKeeps, JobStepKeeps
  <2>2. CASE ReadNext /\ UNCHANGED vars
    BY <2>2, NextKeeps, ReadStepKeeps
  <2>3. QED
    BY <2>1, <2>2 DEF ReportsNext, allVars
<1>3. QED
  BY <1>1, <1>2, PTL DEF ReportsSpec

(* A finding without an evidence name in report.md is of a job that the     *)
(* report does not list; in the list of findings there is none.             *)
THEOREM EvidenceIsNamed == ReportsSpec => []EvidenceIsShown
<1>1. RInv => EvidenceIsShown
  BY DEF RInv, ShownInv, EvidenceIsShown
<1>2. QED
  BY <1>1, ReportsInductive, PTL

(* A recorded report has a timeline, an archive and counts that cover what  *)
(* its text shows, whatever commits between its loads.                      *)
THEOREM ReportsAreWhole == ReportsSpec => []RecordedReportsAreWhole
<1>1. RInv => RecordedReportsAreWhole
  BY DEF RInv, ShownInv, PackedInv, RecordedReportsAreWhole, Keys, Written
<1>2. QED
  BY <1>1, ReportsInductive, PTL
================================================================================
