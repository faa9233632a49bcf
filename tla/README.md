# Formal model of ReconScope

TLA+ modules that model the backend of ReconScope (`src/reconscope`), TLC
configurations that check them on small instances, and proofs, checked by
TLAPS, of what holds for every instance.

ReconScope is a local web application: a FastAPI process, an SQLite database, a
directory of evidence files, threads that run active jobs and the external
processes they start. It has one user, but not one thread: every synchronous
handler runs in a thread pool with a database session of its own, background
jobs have threads of their own, and the browser follows them over connections
that come and go.

## 1. The system

| Component | State | Operations | Interacts with |
|---|---|---|---|
| Scope and attestation requests (`api/router.py`) | `scope_entries`, `authorization_records` | `add_scope`, `attest`, listings | the gate reads the two tables |
| Authorization gate (`modules/gate.py`, `scope/service.py`, `scope/canonical.py`) | none | `authorize_job`, `evaluate` | called by both runners with rows read before |
| Active job manager (`jobs/manager.py`) | handles: event log, cancel Event, terminal flag | `submit`, `cancel`, `_run` | one thread per job, one session per thread |
| Active job runner (`jobs/active_runner.py`) | `jobs` row, `_ACTIVE_LOCK` | `run`: flush, gate, pin, execute, store, finish | gate, resolver, modules, evidence store |
| Restart recovery (`jobs/recovery.py`) | `jobs` rows | `recover_interrupted_jobs` | runs before requests are served |
| Event stream (`active_job_events`) | a cursor per connection | replay, follow, end | reads a handle under its lock |
| Subprocess supervisor (`jobs/process.py`) | a process group, two reader threads | `run`, `_kill_tree`, `_reader` | the scan modules; the cancel Event |
| Evidence store, findings (`evidence/store.py`, `jobs/persist.py`, `findings/repository.py`) | files, `evidence`, `findings` | `write`, `store_evidence_and_findings`, `upsert_findings` | inside a job's transaction; files outside of it |
| Reports, list of findings (`reporting/builder.py`, `list_findings`) | `report_snapshots` | Markdown, ZIP, JSON | read the tables one by one while jobs commit |
| Passive job runner (`jobs/runner.py`, `POST .../jobs`) | `jobs`, `activity_log` rows | `run`: gate, candidates, module, store, log line | gate, modules, evidence store; also runs active modules that are posted to it |
| Passive modules, providers (`modules/passive`, `social`, `providers`) | provider cache | `run`, HTTP with retries, DNS queries | third-party services |
| Active modules (`modules/active`) | none | `run`: nmap scans, HTTP overview, TLS review | supervisor, XML parser, HTTP and TLS clients |
| Recommendations, explanation of arguments (`reporting/recommendations.py`, `argv_explain.py`) | none | next steps from findings, a command word by word | open the forms of scans; read a scan's record |
| Worksheets (`put_worksheet`) | one `assignment_worksheets` row per project | save | - |
| Session guard (`security/session.py`) | bootstrap token, CSRF token | exchange, check | wired to no route |
| Projects, seeds, subjects, comparison, education, launcher, configuration | single rows or none | CRUD, text | - |

What is hard here:

* **SQLite transactions as the driver runs them.** A SELECT is outside of any
  transaction and sees the latest commit; the first INSERT of a session takes
  the only write lock, until commit. A check and the write it guards are two
  steps, and a job that flushed its row stops every other writer until it ends.
* **Two locks.** A job holds the write lock and then takes `_ACTIVE_LOCK`.
* **State that is read and used later**: the entries and the attestation a job
  read before its transaction, the scope an attestation is granted for, the jobs
  a report read before its findings.
* **Announcements and durability**: a verdict is emitted to a log that another
  thread streams, around a commit that may fail.
* **Processes**: the group kill races with processes that exit or fork; the pipes
  may be kept open by a process nobody waits for; the kernel takes its time.
* **Caches and retries**: what a provider said is kept, readable or not, and asked for
  again when it expires; a tool that is stopped leaves a part of its output.
* **Restarts**: threads, handles and open transactions are lost; files stay.

## 2. Modules

| Module | What it is |
|---|---|
| `AttestedScope` | `add_scope`, `attest` and active jobs as sessions on one database |
| `ScopeLedger` | the same tables with atomic requests; `AttestedScope` implements it |
| `ScopeRules` | canonical forms of entries and targets, and what entries allow |
| `ScopeDecisions` | a user who writes entries, asks about targets and respells them |
| `ScanCommands` | from findings to recommended steps, forms, nmap's arguments and their explanation |
| `Worksheets` | concurrent saves of the project's worksheet |
| `Workbench_proofs` | theorems about these three modules and `ScopeRules` |
| `MCAttestedScope` | instances of `AttestedScope` for TLC, with the decisions of `ScopeRules` |
| `AttestedScope_proofs` | theorems about `AttestedScope` |
| `JobLifecycle` | background jobs from submit to verdict, cancel, kill, recovery |
| `JobContract` | what a watcher of a job may rely on; `JobLifecycle` implements it |
| `JobLifecycle_proofs` | theorems about `JobLifecycle` |
| `EventStream` | the handle's log, the SSE endpoint, reconnecting watchers |
| `EventLog` | a log that everybody reads in order; `EventStream` implements it |
| `EventStream_proofs` | theorems about `EventStream` |
| `ProcessSupervisor` | `SubprocessRunner.run`, its readers and the process tree |
| `ProcessSupervisor_proofs` | theorems about `ProcessSupervisor` |
| `EvidenceTrail` | a job's transaction: gate, module, evidence, findings, activity line |
| `EvidenceTrail_proofs` | theorems about `EvidenceTrail` |
| `ProjectReports` | `EvidenceTrail` with the reports and lists that are read meanwhile |
| `ProjectReports_proofs` | theorems about `ProjectReports` |
| `MCEvidenceTrail` | instances of both for TLC |
| `ModuleRuns` | what each of the ten recon modules makes of its tool or provider |
| `ModuleRuns_proofs` | theorems about `ModuleRuns` |
| `MCWorkbench` | instances of `ScopeDecisions`, `ScanCommands`, `Worksheets` and `ModuleRuns` for TLC: a run in four parts that share no state |
| `MCJobs` | instances of `JobLifecycle`, `EventStream` and `ProcessSupervisor` for TLC: a run in three parts that share no state |

The definitions named "Broken variant" are not part of the specifications. Each
is a plausible mistake in the code next to the action it would break, and shows
that a property would notice it.

### AttestedScope

Each request is a process with a program counter; `writer` is SQLite's write
lock; `scope` and `current` are the committed rows. A row is identified with the
request that inserts it. `found`, `entries` and `basis` are what a
request's SELECTs returned and what it goes on to use. `covers`, `first` and
`contacted` are history: what was enabled when an attestation was committed, where a
job's first request went, and all hosts that received its traffic.

`AddSelect`/`AddRefused` are the duplicate check of `add_scope`. `AddInsert` is
the autoflush that the SELECT in `_invalidate_attestation` triggers: the lock is
taken before the records are read (`AddInvalidate`), and this order is what makes
`AttestationCoversScope` true. A job's SELECTs come before its flush
(`JobReadEntries`, `JobReadAttestation`, `JobFlush`); the gate decides on what was
read (`Authorized`). The first request goes to one of `Aims[j]` (`Ask`): for most modules
that is the target, but `http_overview` writes a URL with the scheme and the
port of the job's config around it, which nobody reads again, so that the URL may
name another host. So `ContactsAreAttested` says that a job contacts nobody unless its
target was attested, and that every host it is redirected to was attested
itself; that the first host was attested too, `ContactsAreInScope`, is false of the
code. `JobFollow` is a redirect that `http_overview` follows
after its own scope check. `PostReadAttestation`, `PostReadEntries` and
`PostContact` are an active job that was handed to `POST .../jobs`, whose runner accepts it:
it reads the record before the entries, resolves and pins nothing, and follows no
redirect. A wait for the lock may time out, any step of a job may
raise, and the process may be killed; each rolls the transaction back.

To the proofs the scope rules are any relation `Allowed` between hosts and
values: they need only that the decision is a function of the entries. The runs
take values, targets and decisions from `ScopeRules` (`MCAttestedScope`): two
requests that post one wildcard in two spellings, one that posts a range, a job
against a subdomain whose first URL may name the wildcard's apex, and redirects to
an IPv4-mapped address of the range and to the apex.

### ScopeRules

The functions of `scope/canonical.py` and `scope/service.py` as operators. What a
user writes is a record of the characters that decide its treatment (labels,
trailing dots, brackets, wildcard, prefix); the IDNA mapping of a label is the
constant `Fold`, and a spelling it does not map (URLs, ports, control
characters) is `Invalid`. Address and octet widths are constants, so that every
address of a family can be enumerated. `ScopeDecisions` puts them to use: a user
enables entries, asks about a target, and asks again with other notations of the
same host. `DecisionsFollowMeaning` compares
`Evaluate`, which works on canonical forms, suffixes and masked numbers, with
`Denotes`, which says of an entry as it was written which hosts it stands for.
Length limits and the splitting of labels that IDNA itself does are left out.

### JobLifecycle

One thread per job. `log[j]` is the handle's list of events, `result[j]` and
`evidence[j]` what its session holds, `row[j]` the committed status. `Flush` takes
the write lock and `Commit` or `Rollback` gives it back; `Acquire` and `Execute`
are the `with _ACTIVE_LOCK` block. `CancelSet` and `CancelEmit` are the two
steps of `cancel`. `Kill` loses threads, handles and transactions; `Recover` is the
next start. A module's run is one step with any status (its processes are
`ProcessSupervisor`'s subject, the rest of it that of `ModuleRuns`).

### EventStream

`Snapshot` reads events and flag at one instant, as `JobHandle.snapshot` does
under the handle's lock; `Yield` sends one event. The watcher is the browser's
EventSource: it reconnects with the last identifier it received, and a lost
connection loses what it carried. The front end's own code is not in the
repository.

### ProcessSupervisor

The POSIX path of `SubprocessRunner.run`: poll, cancel, deadline, kill, the two
waits and the joins; a reader per stream that takes bytes from a pipe of bounded
capacity, in chunks, into a sink of bounded size. A process is unborn, alive,
dying (SIGKILL is pending) or dead, and may fork while it is alive.
A `stream.read(n)` on the buffered pipe returns fewer than n bytes only at
the end of the stream, so a reader may hold part of a chunk (`held`).

### EvidenceTrail and ProjectReports

One job's transaction after the other: `Begin` flushes the row and takes the
lock, `Blocked` is a refusal by the gate, `Run` the module's result, then a blob and
a finding per step, and `Finish` writes the status and the line of the activity
log. Files appear at once (`files`), rows in the transaction (`draft`) and then
for everybody (`db`). An `asset_hints` job makes its findings of the
candidates that its request brings (`Given`, `candidates`) or, if it brings none, of those
that are known in its own transaction (`Known`, `NamesFor`), and of its target if that
leaves nothing. File names are reduced to a name and
the number of the copy that the store appends when the name exists.

`ProjectReports` composes it with readers that hold no lock: report.md loads jobs,
findings, evidence and the timeline, the archive loads its tables once more, and the
snapshot row counts both tables again and needs the write lock to be recorded;
`list_findings` reads findings and then the evidence they link to. `Next` and
`ReadNext` interleave; no step is of both.

### ModuleRuns

One run of one module after the other: a job holds the write lock while its module runs
(`RunsAlone` in `JobLifecycle`, `Begin` in `EvidenceTrail`). The provider cache and the
clock outlive a run. The scans see what is left of nmap's XML, whose head, ports and
tail are written piece by piece, when nmap exits, is stopped or has filled the sink;
`Parsed` is the parser, which takes a whole document or none. `http_overview` asks a
host after the other, the first of which its config may have chosen (`FirstHosts`), and
the HTTP client makes one attempt after the other. A response comes in parts
(`PartArrives`, `ReadOn`) until it ends or fails (`ResponseEnds`): the client's timeout
is for each wait by itself and the body is read to its end, so nothing in the code
limits the whole. `dns_records` makes a query per step; `tls_review` makes two
handshakes, of which the first one verifies (`Handshakes`). A DNS answer is one of the
statuses that the client makes of an exception (`DnsStatuses`). A provider's document
may be JSON null or one that the code after it trips over; `CacheSet` comes before
either is noticed, as in the code. `reverse_dns` makes one query; `asset_hints` and
`social_footprint` ask nobody, and the latter's searches are platforms times terms.
`Raises` is the runners' `except Exception`. The result of a run is what `EvidenceTrail`
stores and the status that `JobLifecycle` announces. `RequestsWithinBudget` counts calls
of the HTTP client. For a provider the client lets httpx follow redirects, so that one
call may be several requests on the wire, which the model does not count.

### ScanCommands

The findings so far recommend steps (`NextSteps`), a step or the user opens a form
(`OpenStep`, `FillIn`), `ParsePortSpec` reads its port field, `TcpScanArguments` puts
nmap's arguments together, what nmap answers becomes findings (`ScanAnswers`), and
`ExplainArgv` says of each word of the recorded command what it is.

A port field is a sequence of segments (between commas) of pieces (between hyphens)
of words (between blanks). A word is a number with the power of ten that is one
digit longer, or it has something else in it. `Number` is what deleting
blanks does to a piece: its words become one number, so that `80 81` is 8081.
`PortsAreAsMeant` says of a field without such blanks that nmap is asked for just what
it means, and of any field that only ports are asked for, in order; that blanks are
rejected, `BlanksAreRejected`, is false of the code. In the same way nmap's path is the
sequence of the words between its blanks (`Paths`), and `Recorded` the words that
the record of a command falls into when it is split again. `CommandsAreExplained` says that the
arguments behind the path are explained as what they were, wherever it ends, and that no
word of the path passes for a value, the target or the user's. What it does not say, for
it is false, is that a path of several words is explained as one executable (section 4).

### Worksheets

`put_worksheet` reads the row, sets every field and flushes: an INSERT of
everything if there was no row, which the unique constraint on the project may
refuse, or an UPDATE of the fields that differ from what was read (`Written`).

## 3. Runs

`pass` runs end without an error; `violation` runs show that the code does
not keep what a document, comment or test of the repository says.

| Run | Expect | Shows |
|---|---|---|
| `AttestedScope` | pass | a current attestation covers every entry (`AttestationCoversScope`); the active runner sends traffic only for a target that was attested, and follows redirects only to hosts that were (`ContactsAreAttested`); the lock is always freed (`LockIsFreed`); the requests implement atomic ones (`ImplementsLedger`) |
| `StaleGate` | violation | a job contacts a host although no attestation is current any more, with the active runner and with `POST .../jobs` |
| `ConfiguredUrl` | violation | the first request of `http_overview` goes to a host that its config names and nobody attested |
| `Workbench` | pass | *scope:* an entry allows what it stands for and nothing else (`DecisionsFollowMeaning`), notations of one host are decided alike (`NotationsCollapse`), and no entry allows more addresses than its floor (`BreadthIsBounded`). *Commands:* nmap is asked for the ports that a field means, and a recommended step for those open when it was chosen (`PortsAreAsMeant`); the recorded arguments are explained as what they were (`CommandsAreExplained`). *Worksheet:* no save is undone but by a newer one (`FieldsAreOfLastSaves`). *Runs of modules:* results are of one piece, never call a stopped scan a success, report all that nmap found or nothing and lose no DNS answer to a query that fails (`ResultContract`); redirects stay in scope and within their number (`WalkStaysInScope`); answers are no older than the cache allows, readable or not (`AnswersAreFresh`), and are asked for no more often than promised (`RequestsWithinBudget`); every run ends, if the servers end what they send (`EveryRunEnds`) |
| `SpacedPorts` | violation | a blank between two numbers of a port field makes one port of them |
| `EndlessBody` | violation | a response that goes on keeps `http_overview` running |
| `PartialScans` | violation | a stopped scan that has found ports and reports none |
| `Jobs` | pass | *jobs:* one verdict, followed at most by a late cancel event (`OneVerdict`); jobs run alone and cannot deadlock (`RunsAlone`); a verdict is announced after it is durable, an error only without a row (`ImplementsContract`); every submitted job gets a verdict (`EveryJobEnds`). *Stream:* events 0, 1, 2, ... exactly once across reconnects (`InOrderExactlyOnce`); the end only after the terminal event (`ImplementsEventLog`); every stream ends (`EveryStreamEnds`). *Process:* the truncation flag is exact (`TruncationIsFlagged`); `run` returns with all the output of what it ran (`ResultIsComplete`), always ends (`RunEnds`) and never blocks a talkative process (`OutputNeverBlocks`) |
| `LostJobs` | violation | a killed job leaves nothing to recover |
| `ProcessTree` | violation | a child outlives a cancelled job |
| `EvidenceTrail` | pass | every row has its file and the files stay within the budget (`FilesAreAccountedFor`); one finding per key (`OneFindingPerKey`), backed by evidence that reported it (`EvidenceBacksFinding`), which later runs keep (`EvidenceIsKept`); jobs, log, evidence and findings tell one story, refusals included (`JobsAreLogged`); hints miss none of the names that a job is to classify (`HintsAreComplete`); a recorded report is whole (`RecordedReportsAreWhole`); a list names the evidence of each finding, a report that of each job it has (`EvidenceIsShown`) |
| `StaleFindings` | violation | a finding's line shows the host of one job with the evidence of another |

`Workbench` and `Jobs` put components together that share no state and are
checked faster in one run than in several: a variable says at the start which of them a
behaviour is of, and the others keep still. The type invariants are those of
`ModuleRuns` and `JobLifecycle` (`TypeOK`), `EventStream` (`StreamTypeOK`) and
`ProcessSupervisor` (`ProcessTypeOK`); those of `AttestedScope` and `EvidenceTrail`
are in their own runs.

### Bounds

* `AttestedScope`: three scope requests, two of them with one value, so that
  duplicates, an invalidation and an expansion after it can happen in one run; two
  attestations, because invalidating one of two is a possible mistake; one job and
  three hosts: its own, one that another entry allows and one that nothing
  allows, which its first URL may name; it may take either runner. Two jobs against each
  other are `JobLifecycle`'s subject.
* `Workbench`, scope: seven spellings of labels (two of one label, two of them octets,
  one with a leading zero, one invalid), names of one to three labels, quads of two octets of
  two bits, IPv6 addresses of six bits, a quarter of which are IPv4-mapped, every
  prefix from 0 to one above the width, and floors in the middle: a range meets
  its floor, its neighbours, the other family and the mapped block. The rules
  compare labels, masks and prefixes and know no other lengths; 8, 4, 128, 16 and
  112 change how many addresses there are, not the cases. One entry
  (`MaxEntries`) is enough, for `evaluate` asks of each entry by itself.
* `Jobs`, jobs: two of them (one holds what the other waits for), one cancel
  request per run, one kill (`MaxKills`). Every job ends at most once between
  kills, so a log is bounded by its thread's steps and the cancels.
* `Jobs`, stream: three events (before, at and after the terminal one), two lost
  connections, two watchers that share only the log.
* `Jobs`, process: a limit of 3 with chunks of 2 and up to 6 bytes of output gives a
  chunk that fits, one that is cut, a partial last chunk, and nothing left of the room
  but output left to drain; a pipe of one byte blocks its writer whenever nobody reads.
* `Workbench`, commands: three ports, one each for HTTP and HTTPS, two presets that
  differ and one for all; port fields of up to two segments of up to three pieces,
  a piece being nothing, zero, a port, a number above the last, something with junk
  in it or two words, which are in binary here, so that `1 1` is the third port.
  Segments are read one by one, so two show what one does to the other. nmap's path has
  one word or, as on Windows, three.
* `Workbench`, worksheet: three saves, of which two share a field and one leaves a field
  out: a first save beside another, and a save beside two.
* `EvidenceTrail`: two scans of different hosts that report the same port and the same
  names, one whose two blobs have one name and exceed the budget (`Limit` is 3) and
  which reports a key twice, one that names evidence it does not have; an
  `asset_hints` job with or without candidates of its own, which leave out a flagged name
  that the scans find; one request, which becomes a report, an archive or a list.
  Requests share nothing that a request writes.
* `Workbench`, runs: two ports, one with a service, so that a document has up to four
  pieces, of which the sink keeps three (`OutputLimit`): documents with no port and
  with one may be whole, one with two is always cut; three hosts, one out of scope,
  and two redirects (`MaxRedirects`; the code's three in `EndlessBody` and `PartialScans`),
  which make a walk that ends before, at and beyond its number; the code's one retry
  (`MaxRetries`); two DNS queries: all, some and none conclusive; one subject, two
  platforms, one link; a cache life and a clock of two ticks (`Ttl`, `MaxTime`),
  with three runs (`MaxRuns`): an answer is fetched, served before its end, and
  fetched again at it.

`CHECK_DEADLOCK FALSE` is set everywhere: requests, jobs, streams and reports
end, and the system may then stop.

### Fairness

* `AttestedScope`: a request that has arrived goes on. The waits for the lock, for
  the resolver and for processes are bounded (SQLite's busy timeout, the resolver's
  and the supervisor's limits); that a module's run returns is assumed, which for HTTP means
  that the servers end their responses. Nothing forces a request to arrive or
  the process to be killed.
* `Jobs`, jobs: a job's thread goes on; the same waits are bounded, and the same is
  assumed of a module's run. Nothing forces a restart after a kill.
* `Jobs`, stream: the event loop runs every generator and a browser reads and
  reconnects; nothing forces an event or a drop.
* `Jobs`, process: the supervising thread and the readers go on. That the
  deadline passes, or that the process does its work, is a premise of the one
  property that needs it; processes and kernel may hang for ever.
* `Workbench`, runs: a run goes on (`Step`), because each single wait has a timeout: the
  supervisor's deadline, the HTTP client's, the resolver's. nmap need not write or
  end, no one need cancel, and no exception need come to the rescue. `ServedSpec` adds
  strong fairness of `ResponseEnds`: a response does not arrive in parts for ever. The code
  does not see to that, and `EndlessBody` has the counterexample without it; so
  `EveryRunEnds`, `EveryJobEnds` and `LockIsFreed` hold as far as servers are that kind.
* The other parts of `Workbench`, and `EvidenceTrail`, have no liveness property and
  assume no fairness.

`MCWorkbench` and `MCJobs` restate the fairness of each part so that it binds only the
behaviours that are of it.

## 4. Divergences between code and documentation

Each but the last has a run, whose counterexample shows the steps.

* `StaleGate`: README "Active modules are refused unless ... Current authorization
  attestation exists". The attestation is read before the job's transaction begins, by
  the active runner and by `POST .../jobs` (of which `runner.py` says "Passive modules
  pass; an active module here would be blocked"). What does hold for the active runner
  is `ContactsAreAttested`, and `GatedEntriesAreAttested` (a theorem): its job has only
  entries that the attestations it found had covered, because the entries are read
  first; the other runner reads them last.
* `ConfiguredUrl`: `http_overview.py` "one bounded, scope-checked request", README "you can
  only actively probe targets you have declared and attested". The first URL is
  put together from the config's scheme and port and the target; neither the
  runner nor the client compares the host of the URL with the target or the scope. What
  holds is `ContactsAreAttested`.
* `LostJobs`: `main.py` and `recovery.py` promise to reconcile jobs left
  running. A job's row is committed when the job has ended, so there is none.
* `ProcessTree`: `process.py` "the whole process tree is terminated on
  cancellation or timeout". `_kill_tree` does nothing if the main process has
  exited since the poll.
* `StaleFindings`: `builder.py` "Every finding line cites its source and the
  evidence file that backs it". A finding's key has no host in it, and an update takes
  the new job and its evidence but keeps the old target and confidence, so that a
  line about one host may cite a file about another.
* `PartialScans`: `tcp_scan.py` "Timed-out or cancelled scans are marked partial
  if some ports were already observed". What was written before the stop is parsed
  as a whole document, and rejected unless nmap had closed it; the test for this
  case uses a complete one.
* `EndlessBody`: `http_overview.py` "1 MiB body cap, 10s connect / 20s total timeout". The
  client has httpx's timeouts, which are for each wait, and reads the whole body; the run
  keeps the database's write lock as long as the body goes on. What holds is
  `EveryRunEnds`, under the assumption that it ends.
* `SpacedPorts`: `ports.py` "Any other character (a space, a shell metacharacter, a flag) is
  rejected". Blanks are deleted before the characters are looked at. What holds is
  `PortsAreAsMeant`.
* No run: `argv_explain.py` "Maps each token of a tool command to a plain-language
  meaning". The arguments are recorded with blanks between them and split at blanks again,
  so that a path such as `C:\Program Files (x86)\Nmap\nmap.exe`, which `test_capability.py`
  uses, is explained as an executable and some flags. `Workbench` has such a
  path, and `CommandsAreExplained` says what holds of it.

Seen while modelling and stated by the properties in the form that does hold: an entry
added between an `attest`'s check of the entries and its INSERT finds no record to
invalidate, so that the record is then current for an entry the request had not read
(what holds is `AttestationCoversScope`: it was there when the record was committed); a
cancel request may append its event after the terminal one (`OneVerdict`); `run` may
return while a reader still waits for a pipe that a surviving child keeps open
(`ResultIsComplete` has the premise); the snapshot row may count more than the report
(`RecordedReportsAreWhole`). Two concurrent adds of one value can both pass the
duplicate check, which no constraint backs; both rows are in `AttestedScope`, and every
property is checked with them. A second job waits for the write lock rather than for
`_ACTIVE_LOCK`, and fails with "database is locked" when the driver's timeout passes; it
then gets its verdict like any other (`EveryJobEnds`). A range of IPv4-mapped IPv6
addresses is accepted but allows nothing, because the addresses themselves are folded to
IPv4 and ranges are not; and `canonical_domain` alone does not refuse a dotted quad, so
a caller who types an address as a hostname gets a hostname, which only a wildcard or
domain entry could allow. A provider's document is cached before it is read, so one that
the module cannot read fails every run until it expires (`AnswersAreFresh` bounds it). A
walk that ends after its last redirect reports success without a final URL. A finding
keeps the `module_id` of the module that found it first, and recommendations are made
from the findings of all hosts together. A report may show a finding without its
evidence when the finding's job committed after the report had read the jobs
(`EvidenceIsShown` says that this is the only case). Hints of `asset_hints` and links of
`social_footprint` cite no evidence at all (`OfOnePiece` names them). `tls.py` says of
its fetch that it never raises, but the certificate is parsed outside of the `try`
(`Raises` covers it). `extract_social_links` looks for a platform's host anywhere in a
link, so that a host that ends in `x.com` is taken for one of X. Two saves of a
worksheet at a time may leave some fields of the one and some of the other, because an
UPDATE names only what differs from what its request read (`FieldsAreOfLastSaves`).
`explain_argv` takes the last word of the record for the target; a record that the
evidence budget cut has another last word, which the model leaves out.

## 5. Proofs

Each theorem holds for every value of the constants that satisfies the named assumptions
of its module, which TLC evaluates on the instances of the runs. In every proofs module
a theorem `Inductive` (`ReportsInductive`, `ScopeInductive`, `CommandsInductive`,
`SheetInductive`, `RunsInductive`) proves an invariant of named parts, of which the
properties alone are not inductive; its lemmas have one step per action, or are one per
action, and the other theorems follow from it.

`AttestedScope_proofs` assumes `RequestsAssumption` (the kinds of request are
disjoint) and `DataAssumption` (the data are functions of the right type; of the
hosts that a first request may go to, `Aims`, nothing more), and
proves `TypeOK`, `AttestationCoversScope`, `GatedEntriesAreAttested`,
`ContactsAreAttested`, `AuthorizationFrozenWhileRunning` and `ImplementsLedger`.
`IInv` adds: the lock is held by exactly the request whose transaction is open
(`LockInv`); a row is committed if and only if its request is done (`RowsInv`);
between an `add_scope`'s SELECT of the records and its commit no other record
becomes current (`FoundInv`, which needs the lock); and what a job read was
committed, with records that cover its entries (`JobInv`, which needs that
entries are read before records, and that a record that is current covers the
scope, and which says until when a job has contacted nobody). The refinement maps
`AddCommit`, `AttestCommit`, `JobContact` (the attestation of the target allows it,
whichever host the request goes to) and `JobFollow` (that of the host) to the steps of
`ScopeLedger` and everything else, `PostContact` too, to a stutter.

`JobLifecycle_proofs` assumes `JobsAssumption` (no job has the name of a marker,
the bound is a number) and `MarkersAssumption` (distinct markers), and proves `TypeOK`,
`OneVerdict`, `RunsAlone`, `OutcomesAreFinal` and `ImplementsContract`. `IInv`
adds: each lock belongs to the thread that is at a position where it holds it
(`LockInv`); a committed row is the outcome of a job past its commit (`RowInv`);
and a thread's log has no verdict before its last step and afterwards exactly
one, which announces the committed row, or an error when there is none, with
nothing but cancel events behind it (`LogInv`). The refinement maps a row to
what is durable and the first verdict of a log to what was told (`Told`); a
lemma shows that a cancel event behind a verdict does not change it.

`EventStream_proofs` assumes `BoundsAssumption` (bounds that are numbers) and
proves `StreamTypeOK`, `InOrderExactlyOnce` and `ImplementsEventLog`. `IInv` follows an
event on its way: what a watcher received, what is on the wire and what the
generator still has to send are consecutive numbers, each part starting where
the one before ends (`InFlight`, `BatchInv`); the handle's flag is set exactly when
the log has a terminal event (`FlagInv`); and a stream that ends has one behind it
(`EndInv`).

`ProcessSupervisor_proofs` assumes `SupervisorAssumption` (bounds that are
numbers, a chunk and a capacity above zero, a main process) and proves `ProcessTypeOK`,
`SignalReachesTheTree`, `ReturnsReaped`, `TruncationIsFlagged` and
`ResultIsComplete`. `IInv` adds: nothing is signalled before the launch
(`SignalInv`); the main process is dead wherever `run` joins or has returned
(`ReapedInv`); a reader that has ended leaves an empty pipe that no process can
write to any more (`DrainedInv`, stable because only a living process forks or
writes); and no stream has more bytes read than written, some of them dropped
exactly when the flag says so (`LossInv`).

`EvidenceTrail_proofs` assumes `TrailAssumption` (blobs and facts are sequences, blobs
have names and sizes; of the candidates that requests bring, nothing) and proves
`TypeOK`, `OneFindingPerKey`, `EvidenceBacksFinding`, `JobsAreLogged`, `EvidenceIsKept`,
`HintsAreComplete` and `FilesAreAccountedFor`, of whose second half `BudgetInv` is the
invariant: the bytes of the files of the job that runs, and what is left of its budget,
make up the limit. `IInv` adds: a job past its flush and before its end is the writer
(`TurnInv`), what its result is made of (`ResultInv`), that a job's copy numbers stay
below the blobs it has stored, so that there is always a free one (`FilesInv`), that
rows and findings are of jobs that have begun (`RowsInv`, `FindingsInv`), and what the
draft has beyond the committed tables (`LogInv`, `DraftInv`, `HintsInv`). Hints are
complete because nobody else commits between the read of the candidates and the job's
commit, and because a job that brings candidates makes a hint for each of those.

`ProjectReports_proofs` needs no further assumption and proves
`RecordedReportsAreWhole` and `EvidenceIsShown`. Its argument is that the tables only
grow (a consequence of `EvidenceIsKept` and `IInv`): of two reads the later one saw at
least what the earlier one did. `RInv` says so of each pair of reads that a property
compares: what was read is still there (`ReadInv`), the citations are of jobs that
were read before (`ShownInv`), and archive and counts come after the text
(`PackedInv`).

`Workbench_proofs` has the theorems of scope decisions, commands and the worksheet. It
begins with what the prover has to be told about numbers: powers of two are the
sizes of sets of subsets, which gives that they are above zero, that they
multiply and that they grow (`Powers`, `PowersAdd`, `PowersGrow`); a value that is
defined by recursion over places exists and is the only one that fits, because there
is no least place where it is not (`LeastNumber`, `Digits`, `KindsAre`).

* *Scope decisions* assume `RulesAssumption` (widths and floors are numbers, an octet
  fits into its bits and is a label that folds to itself), `NotationsAssumption` (what
  is written has the form of a notation, an IPv6 literal the bits of its family)
  and `NothingAssumption` (a marker), and prove `DecisionsFollowMeaning`,
  `BreadthIsBounded` and `NotationsCollapse`. `ScopeInv` is small: each row is of an
  entry that has a canonical form, because only such are stored. The work
  is in the functions: two numbers cut down by a power are equal exactly if their
  quotients are (`Cut`), a name is below another exactly if some of its labels
  behind the first are the other (`BelowIs`), a quad writes a number of its bits
  (`QuadIsBounded`). So each kind of entry covers what it denotes
  (`EntryDenotes`); every allowed address is at a place of an entry, of which there
  are no more than its size at the floor (`AllowedAreAt`); and two notations of one
  host have one canonical target (`SameHostSameTarget`).
* *Commands* assume `CommandsAssumption` (ports are numbers, each with a power of ten
  above it, a port text has segments of pieces of words, a path has words, of which none
  is a flag's name, a marker) and prove `PortsAreAsMeant` and `CommandsAreExplained`.
  `CommandsInv` follows a form on its way: one that a step filled in has the text of the
  ports that were open then, a run the ports that its form asks for, an explanation the
  arguments of its run. `AscendingOrders` says that the sorted sequence has the elements
  of its set, in order; `Parsed` that parsing gives what a text means or refuses it;
  `JoinedMeans` that joined ports mean themselves; `ReadableIsExplained` that reading a
  command from left to right gives back every part, if each word's part follows from the
  word before, as in every command the presets make, with every path (`ScanIsReadable`).
* The *worksheet* assumes `WorksheetAssumption` (bodies are worksheets) and proves
  `FieldsAreOfLastSaves`. A save leaves a field alone if it sends what it has read; so
  the invariant says where the value of a field comes from that is not what a
  waiting request has read: from a save committed after that request began
  (`OriginInv`).

`ModuleRuns_proofs` assumes `ModulesAssumption` (finitely many ports, bounds that are
numbers, markers that are none of the data) and proves `TypeOK`, `ResultContract`,
`WalkStaysInScope`, `AnswersAreFresh` and `RequestsWithinBudget`. `RunsInv` adds where
the run of each kind of module can be, in the middle of a response or not (`PlaceInv`),
whom the walk will ask next and will still ask when a part has arrived (`WalkInv`), and
that a provider's last answer is in the cache until it is `Ttl` old (`LookupInv`), which
is what bounds the requests.

Some theorems state what no run repeats, to keep the runs to one property per
question: `GatedEntriesAreAttested`, `AuthorizationFrozenWhileRunning`,
`OutcomesAreFinal`, `ReturnsReaped` and `SignalReachesTheTree`.

Only model-checked: liveness (`LockIsFreed`, `EveryJobEnds`, `EveryStreamEnds`,
`RunEnds`, `OutputNeverBlocks`, `EveryRunEnds`), which is out of the prover's reach.
Every other property of the passing runs is a theorem. The properties of the runs
that expect a violation are false, and have what does hold beside them.

## 6. Not modelled, and the plan

* Session guard: the class is wired to no route; when it is, the bootstrap
  exchange (once, with an expiry) and the CSRF check deserve a module.
* Projects, seeds, subjects and comparison: handlers of one INSERT or one
  SELECT, and a comparison of two lists.
* Education: static tables and text. Launcher and configuration: start-up I/O.
* The discovery of nmap (`tools/capability.py`), the wiring of the provider
  services, and DNS, TLS and HTTP I/O below the clients.
* The Windows branch of the supervisor.
* The text of reports and notes, the fields of provider answers and of nmap's XML,
  length limits of names, and the splitting of labels that IDNA does.

What is left to prove: that the interleaved jobs of `EvidenceTrail` implement
jobs that are one step each, as the requests of `AttestedScope` do for `ScopeLedger`;
`IInv` has what the mapping needs.
