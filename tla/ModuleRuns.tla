------------------------------ MODULE ModuleRuns ------------------------------
(***************************************************************************)
(* What a recon module makes of its tool or provider: the run methods of   *)
(* modules/active and modules/passive, the nmap XML parser, the HTTP       *)
(* client's retries and the provider cache.  A run ends with the           *)
(* ModuleRunResult that the job runners store (EvidenceTrail) and announce *)
(* (JobLifecycle).  Runs follow each other, as a job holds the database    *)
(* lock while its module runs; the cache and the clock outlive them.       *)
(*                                                                         *)
(* nmap writes its XML piece by piece: a head, an element per port, a tail.*)
(* What is left of it when nmap is stopped is cut off (ProcessSupervisor). *)
(***************************************************************************)
EXTENDS Naturals, Sequences, FiniteSets, FiniteSetsExt, Functions

CONSTANTS
    Ports,         \* ports a scan may find, numbers
    Identified,    \* ports for which nmap names a service
    OutputLimit,   \* pieces of output that the supervisor keeps
    AllHosts, Target, \* hosts, and the one the job runs against
    InScope,       \* hosts that the job's scope entries allow (ScopeRules)
    MaxRedirects,  \* _MAX_REDIRECTS
    MaxRetries,    \* HttpClient's max_retries
    Queries,       \* how many record types dns_records asks for
    Subjects,      \* research subjects that social_footprint may be given
    Platforms,     \* PLATFORMS
    Links,         \* URLs of collected pages with a platform's host in them
    Ttl,           \* _CACHE_TTL, in clock ticks
    MaxRuns, MaxTime, \* bounds: runs and clock ticks
    None

Scans == {"tcp_scan", "service_detection"}
Providers == {"rdap", "cert_transparency"}
Lookups == {"dns_records", "reverse_dns"}
Local == {"asset_hints", "social_footprint"}
Modules == Scans \cup Providers \cup Lookups \cup Local \cup {"http_overview", "tls_review"}

Codes == {"module_error", "nmap_unavailable", "runner_unavailable", "invalid_ports",
          "invalid_preset", "nmap_parse_failed", "cancelled", "timeout", "network_error",
          "tls_unavailable", "tls_handshake_failed", "provider_error", "invalid_json",
          "provider_unavailable", "resolver_unavailable", "dns_unreachable", "refused",
          "error"}

Documents == {"data", "null", "malformed"}

(* What the provider cache may hold. *)
Entries == [doc : Documents, expires : 0..MaxTime + Ttl]

(* Bounds are numbers, and None is no code and no entry. *)
ASSUME ModulesAssumption ==
    /\ Ports \subseteq Nat /\ IsFiniteSet(Ports)
    /\ Target \in AllHosts
    /\ OutputLimit \in Nat /\ MaxRedirects \in Nat /\ MaxRetries \in Nat
    /\ Ttl \in Nat \ {0}
    /\ MaxRuns \in Nat /\ MaxTime \in Nat
    /\ None \notin Codes /\ None \notin Entries

VARIABLES
    clock,     \* time.monotonic
    cache,     \* cache[m]: the provider cache's entry for module m and the target
    runs,      \* how many runs there have been
    module,    \* the module of this run
    started,     \* history: when this run began
    stage,     \* where the run is
    found,     \* the ports that nmap finds
    printed,   \* pieces of XML that nmap has written
    alive,     \* nmap runs
    stop,      \* why the supervisor stopped it: "cancelled", "timeout"
    url,       \* the host of the next request
    hops,      \* hosts of the requests made
    tries,     \* provider requests made
    answer,    \* the provider's document, and when it was fetched
    statuses,  \* the statuses of the DNS queries made
    answered,  \* history: answered[m]: when provider m's last document was fetched
    result     \* the ModuleRunResult

nmap == <<found, printed, alive, stop>>
http == <<url, hops>>
lookup == <<tries, answer>>
web == <<http, lookup, statuses>>
run == <<runs, module, started>>
store == <<clock, cache, answered>>
runVars == <<store, run, stage, nmap, web, result>>

Result(status, code, findings, evidence) ==
    [status |-> status, code |-> code, findings |-> findings, evidence |-> evidence]

(* ModuleRunResult.failed *)
Failed(code) == Result("failed", code, {}, {})

Finding(what, name) == [what |-> what, evidence |-> name]
Blob(name, content) == [name |-> name, content |-> content]

RunsInit ==
    /\ clock = 0
    /\ cache = [m \in Providers |-> None]
    /\ runs = 0
    /\ module = None
    /\ started = 0
    /\ stage = "done"
    /\ found = {} /\ printed = 0 /\ alive = FALSE /\ stop = None
    /\ url = Target /\ hops = <<>> /\ tries = 0 /\ answer = None /\ statuses = <<>>
    /\ answered = [m \in Providers |-> None]
    /\ result = None

(* http_overview puts the scheme and the port of the job's config around the *)
(* target, unread: what stands before an @ in them is no host any more.     *)
FirstHosts(m) == IF m = "http_overview" THEN AllHosts ELSE {Target}

(* A job calls module.run. *)
Begin(m) ==
    /\ stage = "done"
    /\ runs < MaxRuns
    /\ runs' = runs + 1
    /\ module' = m
    /\ started' = clock
    /\ \/ m \in Scans /\ stage' = "checking"
       \/ m \in Providers /\ stage' = "lookup"
       \/ m \notin Scans \cup Providers /\ stage' = "asking"
    /\ found' = {} /\ printed' = 0 /\ alive' = FALSE /\ stop' = None
    /\ url' \in FirstHosts(m)
    /\ hops' = <<>> /\ tries' = 0 /\ answer' = None /\ statuses' = <<>>
    /\ result' = None
    /\ UNCHANGED store

In(m, p) == module = m /\ stage = p

Return(r) ==
    /\ stage' = "done"
    /\ result' = r

(* An exception leaves run(): the job runner makes it a failed result. *)
Raises ==
    /\ stage # "done"
    /\ alive' = FALSE
    /\ Return(Failed("module_error"))
    /\ UNCHANGED <<store, run, found, printed, stop, web>>
--------------------------------------------------------------------------------
(* tcp_scan, service_detection *)

Refusals(m) ==
    {"nmap_unavailable", "runner_unavailable", "invalid_ports"}
      \cup (IF m = "tcp_scan" THEN {"invalid_preset"} ELSE {})

ScanRefused(m) ==
    /\ In(m, "checking")
    /\ \E code \in Refusals(m) : Return(Failed(code))
    /\ UNCHANGED <<store, run, nmap, web>>

Launch(m) ==
    /\ In(m, "checking")
    /\ stage' = "scanning"
    /\ found' \in SUBSET Ports
    /\ alive' = TRUE
    /\ UNCHANGED <<store, run, printed, stop, web, result>>

Pieces == Cardinality(found) + 2

(* nmap writes on, or ends, at the end of its document or before it. *)
NmapWrites ==
    /\ alive /\ printed < Pieces
    /\ printed' = printed + 1
    /\ UNCHANGED <<store, run, stage, found, alive, stop, web, result>>

NmapEnds ==
    /\ alive
    /\ alive' = FALSE
    /\ UNCHANGED <<store, run, stage, found, printed, stop, web, result>>

(* The supervisor finds nmap ended. *)
SeeExit ==
    /\ stage = "scanning" /\ ~alive
    /\ stage' = "parsing"
    /\ UNCHANGED <<store, run, nmap, web, result>>

(* Broken variant: the deadline is not looked at. *)
StopNmapIfAsked(why) ==
    /\ stage = "scanning" /\ why = "cancelled"
    /\ stage' = "parsing"
    /\ stop' = why
    /\ alive' = FALSE
    /\ UNCHANGED <<store, run, found, printed, web, result>>

(* A cancel, or the deadline, between two polls: nmap may just have ended. *)
StopNmap(why) ==
    /\ stage = "scanning"
    /\ stage' = "parsing"
    /\ stop' = why
    /\ alive' = FALSE
    /\ UNCHANGED <<store, run, found, printed, web, result>>

Kept == Min({printed, OutputLimit})

(* The ports whose elements are among the first n pieces. *)
PortsIn(n) == {p \in found : Cardinality({q \in found : q <= p}) < n}

(* Broken variant: a parser that makes do with an unfinished document. *)
ParsedSoFar == IF Kept = 0 THEN None ELSE PortsIn(Kept)

(* parse_nmap_xml: the document's ports, or ValueError if it is cut off. *)
Parsed == IF Kept = Pieces THEN PortsIn(Kept) ELSE None

(* Broken variant: the reason is taken for the status. *)
StoppedResultNamed(findings, evidence) == Result(stop, stop, findings, evidence)

StoppedResult(findings, evidence) ==
    Result(IF findings = {} THEN "failed" ELSE "partial", stop, findings, evidence)

TcpScanResult ==
    LET evidence == {Blob("nmap.xml", Kept), Blob("nmap.command.txt", None)}
        findings == IF Parsed = None THEN {} ELSE {Finding(p, "nmap.xml") : p \in Parsed}
    IN  IF stop # None THEN StoppedResult(findings, evidence)
        ELSE IF Parsed = None THEN Result("failed", "nmap_parse_failed", {}, evidence)
        ELSE Result("succeeded", None, findings, evidence)

(* Here the parser is asked first: what is cut off has no other code. *)
ServiceDetectionResult ==
    LET evidence == {Blob("nmap_sv.xml", Kept)}
        findings == {Finding(p, "nmap_sv.xml") : p \in Parsed \cap Identified}
    IN  IF Parsed = None THEN Result("failed", "nmap_parse_failed", {}, evidence)
        ELSE IF stop # None THEN StoppedResult(findings, evidence)
        ELSE Result("succeeded", None, findings, evidence)

Parse(m) ==
    /\ In(m, "parsing")
    /\ Return(IF m = "tcp_scan" THEN TcpScanResult ELSE ServiceDetectionResult)
    /\ UNCHANGED <<store, run, nmap, web>>
--------------------------------------------------------------------------------
(* HttpClient, of http_overview, rdap and cert_transparency: httpx has a     *)
(* timeout for each wait, and reads the body to its end, however long it is. *)

(* A part of the response arrives. *)
PartArrives ==
    /\ stage = "asking" /\ module \in Providers \cup {"http_overview"}
    /\ stage' = "receiving"
    /\ UNCHANGED <<store, run, nmap, web, result>>

(* It was not the last, and the wait for the next one begins anew. *)
ReadOn ==
    /\ stage = "receiving"
    /\ stage' = "asking"
    /\ UNCHANGED <<store, run, nmap, web, result>>
--------------------------------------------------------------------------------
(* http_overview: a request, and one for each of at most MaxRedirects       *)
(* redirects.  hops' ends with the host that is asked.                      *)

AskHost ==
    /\ In("http_overview", "asking")
    /\ hops' = Append(hops, url)

(* The last response is reported, with the final host unless it redirects. *)
HttpResult(final, blocked) ==
    Result("succeeded", None,
           {Finding(<<"status", final>>, "http.txt")}
             \cup {Finding(<<"blocked", b>>, None) : b \in blocked},
           {Blob("http.txt", hops')})

HttpFails ==
    /\ AskHost
    /\ \E code \in {"timeout", "network_error"} : Return(Failed(code))
    /\ UNCHANGED <<store, run, nmap, url, lookup, statuses>>

HttpAnswers ==
    /\ AskHost
    /\ Return(HttpResult(url, {}))
    /\ UNCHANGED <<store, run, nmap, url, lookup, statuses>>

(* A Location with credentials in it, or one out of scope. *)
HttpBlocked(h) ==
    /\ AskHost
    /\ \E reason \in {"credentials_in_url", "out_of_scope"} :
          /\ reason = "out_of_scope" => h \notin InScope
          /\ Return(HttpResult(None, {<<h, reason>>}))
    /\ UNCHANGED <<store, run, nmap, url, lookup, statuses>>

(* Broken variant: the scope is asked about the host that redirects. *)
HttpFollowUnchecked(h) ==
    /\ AskHost
    /\ url \in InScope
    /\ url' = h
    /\ IF Len(hops) < MaxRedirects
       THEN UNCHANGED <<stage, result>>
       ELSE Return(HttpResult(None, {}))
    /\ UNCHANGED <<store, run, nmap, lookup, statuses>>

(* A redirect in scope: the loop goes round again, or is at its end. *)
HttpFollow(h) ==
    /\ AskHost
    /\ h \in InScope
    /\ url' = h
    /\ IF Len(hops) < MaxRedirects
       THEN UNCHANGED <<stage, result>>
       ELSE Return(HttpResult(None, {}))
    /\ UNCHANGED <<store, run, nmap, lookup, statuses>>
--------------------------------------------------------------------------------
(* tls_review: a handshake for the certificate, another that validates it. *)

TlsUnavailable ==
    /\ In("tls_review", "asking")
    /\ Return(Failed("tls_unavailable"))
    /\ UNCHANGED <<store, run, nmap, web>>

(* default_tls_fetch: a validation that fails for a reason of the network  *)
(* says nothing of the certificate.                                        *)
Handshakes == {"failed", "valid", "invalid", "unvalidated"}

TlsReport ==
    /\ In("tls_review", "asking")
    /\ \E h \in Handshakes :
          Return(IF h = "failed" THEN Failed("tls_handshake_failed")
                 ELSE Result("succeeded", None,
                             {Finding("certificate", "tls.json")}
                               \cup {Finding(i, "tls.json") : i \in {h} \cap {"invalid"}},
                             {Blob("tls.json", h)}))
    /\ UNCHANGED <<store, run, nmap, web>>
--------------------------------------------------------------------------------
(* rdap, cert_transparency: an answer from the cache, or a request and a    *)
(* retry.  A document may be one that the code after it cannot read.        *)

(* cert_transparency reads whatever is no list, null too, as an empty one. *)
Read(m, doc) == IF m = "cert_transparency" /\ doc = "null" THEN "data" ELSE doc

(* Broken variant: an entry outlives its ttl by a tick. *)
CachedAtTtl(m) ==
    cache[m] # None /\ clock <= cache[m].expires /\ cache[m].doc # "null"

(* MemoryTTLCache.get; a cached null is no different from a miss. *)
Cached(m) ==
    cache[m] # None /\ clock < cache[m].expires /\ cache[m].doc # "null"

CacheHit(m) ==
    /\ In(m, "lookup")
    /\ Cached(m)
    /\ stage' = "reading"
    /\ answer' = [doc |-> cache[m].doc, at |-> cache[m].expires - Ttl]
    /\ UNCHANGED <<store, run, nmap, http, tries, statuses, result>>

CacheMiss(m) ==
    /\ In(m, "lookup")
    /\ ~Cached(m)
    /\ stage' = "asking"
    /\ cache' = [cache EXCEPT ![m] =
                    IF @ # None /\ clock >= @.expires THEN None ELSE @]
    /\ UNCHANGED <<clock, answered, run, nmap, web, result>>

(* Broken variant: the entry starts to age when the run does. *)
CacheSetAged(m, doc) ==
    cache' = [cache EXCEPT ![m] = [doc |-> doc, expires |-> started + Ttl]]

(* MemoryTTLCache.set, before anything has read the document. *)
CacheSet(m, doc) ==
    cache' = [cache EXCEPT ![m] = [doc |-> doc, expires |-> clock + Ttl]]

ProviderAnswers(m) ==
    /\ In(m, "asking")
    /\ \E doc \in Documents :
          /\ answer' = [doc |-> Read(m, doc), at |-> clock]
          /\ CacheSet(m, Read(m, doc))
          /\ answered' = IF Read(m, doc) = "null" THEN answered
                         ELSE [answered EXCEPT ![m] = clock]
    /\ stage' = "reading"
    /\ tries' = tries + 1
    /\ UNCHANGED <<clock, run, nmap, http, statuses, result>>

(* A status below 500, or a body that is not JSON: there is no retry. *)
ProviderRefuses(m) ==
    /\ In(m, "asking")
    /\ tries' = tries + 1
    /\ \E code \in {"provider_error", "invalid_json"} : Return(Failed(code))
    /\ UNCHANGED <<store, run, nmap, http, answer, statuses>>

ProviderFails(m) ==
    /\ In(m, "asking")
    /\ tries' = tries + 1
    /\ \E code \in {"timeout", "network_error", "provider_unavailable"} :
          IF tries < MaxRetries THEN UNCHANGED <<stage, result>>
                                ELSE Return(Failed(code))
    /\ UNCHANGED <<store, run, nmap, http, answer, statuses>>

(* What the document says is stored with the document. *)
Report(m) ==
    /\ In(m, "reading")
    /\ answer.doc # "malformed"
    /\ Return(Result("succeeded", None,
                     IF answer.doc = "data" THEN {Finding(m, "answer.json")} ELSE {},
                     {Blob("answer.json", answer)}))
    /\ UNCHANGED <<store, run, nmap, web>>

(* The code trips over the document; the cache keeps it all the same. *)
Unreadable(m) ==
    /\ In(m, "reading")
    /\ answer.doc = "malformed"
    /\ Return(Failed("module_error"))
    /\ UNCHANGED <<store, run, nmap, web>>
--------------------------------------------------------------------------------
(* dns_records: one query per record type.  reverse_dns: one query.        *)

Conclusive == {"ok", "nxdomain", "nodata"}

(* What DnspythonResolver makes of an answer, or of an exception. *)
DnsStatuses == Conclusive \cup {"timeout", "refused", "error"}

DnsUnavailable(m) ==
    /\ In(m, "asking")
    /\ statuses = <<>>
    /\ Return(Failed("resolver_unavailable"))
    /\ UNCHANGED <<store, run, nmap, web>>

DnsQuery ==
    /\ In("dns_records", "asking")
    /\ Len(statuses) < Queries
    /\ \E status \in DnsStatuses : statuses' = Append(statuses, status)
    /\ UNCHANGED <<store, run, stage, nmap, http, lookup, result>>

(* The queries, by number, whose records a module reports. *)
Answers(said, name) == {Finding(i, name) : i \in {j \in DOMAIN said : said[j] = "ok"}}

DnsReport ==
    /\ In("dns_records", "asking")
    /\ Len(statuses) = Queries
    /\ LET evidence == {Blob("dns.txt", statuses)}
       IN  Return(IF Range(statuses) \cap Conclusive = {}
                  THEN Result("failed", "dns_unreachable", {}, evidence)
                  ELSE Result("succeeded", None, Answers(statuses, "dns.txt"), evidence))
    /\ UNCHANGED <<store, run, nmap, web>>

(* The error code of a failure names the status. *)
ReverseDns ==
    /\ In("reverse_dns", "asking")
    /\ \E status \in DnsStatuses :
          LET evidence == {Blob("reverse_dns.txt", status)}
          IN  /\ statuses' = <<status>>
              /\ Return(IF status \in Conclusive
                        THEN Result("succeeded", None,
                                    Answers(<<status>>, "reverse_dns.txt"), evidence)
                        ELSE Result("failed", status, {}, evidence))
    /\ UNCHANGED <<store, run, nmap, http, lookup>>
--------------------------------------------------------------------------------
(* asset_hints, social_footprint: nobody is asked.                         *)

(* A hint for each candidate with a label that a rule knows: the first rule *)
(* that fits is the only one that says something of the host.              *)
AssetHints ==
    /\ In("asset_hints", "asking")
    /\ \E named \in SUBSET AllHosts :
          Return(Result("succeeded", None, {Finding(h, None) : h \in named}, {}))
    /\ UNCHANGED <<store, run, nmap, web>>

(* build_queries: a search per platform and term, once. *)
Searches(terms) == Platforms \X terms

(* The searches for the target, unless it is left out, and the subjects;    *)
(* and the links of a page that the request came with, if any.             *)
SocialFootprint ==
    /\ In("social_footprint", "asking")
    /\ \E terms \in SUBSET (Subjects \cup {Target}), links \in SUBSET Links :
          Return(Result("succeeded", None,
                        {Finding(s, "social_queries.json") : s \in Searches(terms)}
                          \cup {Finding(<<l>>, None) : l \in links},
                        {Blob("social_queries.json", Searches(terms))}))
    /\ UNCHANGED <<store, run, nmap, web>>
--------------------------------------------------------------------------------
Tick ==
    /\ clock < MaxTime
    /\ clock' = clock + 1
    /\ UNCHANGED <<cache, answered, run, stage, nmap, web, result>>

(* The last part of a response, or no part for longer than the timeout. *)
ResponseEnds ==
    \/ HttpFails \/ HttpAnswers \/ \E h \in AllHosts : HttpBlocked(h) \/ HttpFollow(h)
    \/ \E m \in Providers : ProviderAnswers(m) \/ ProviderRefuses(m) \/ ProviderFails(m)

(* What a run goes through: each of its waits has a timeout.  Nothing else   *)
(* need happen: nmap may hang, no one has to cancel the job.                *)
Step ==
    \/ \E m \in Scans : ScanRefused(m) \/ Launch(m) \/ Parse(m)
    \/ SeeExit \/ StopNmap("timeout")
    \/ PartArrives \/ ReadOn \/ ResponseEnds
    \/ TlsUnavailable \/ TlsReport
    \/ \E m \in Providers : CacheHit(m) \/ CacheMiss(m) \/ Report(m) \/ Unreadable(m)
    \/ (\E m \in Lookups : DnsUnavailable(m)) \/ DnsQuery \/ DnsReport \/ ReverseDns
    \/ AssetHints \/ SocialFootprint

RunsNext ==
    \/ \E m \in Modules : Begin(m)
    \/ Step
    \/ NmapWrites \/ NmapEnds
    \/ StopNmap("cancelled")
    \/ Raises
    \/ Tick

RunsSpec == RunsInit /\ [][RunsNext]_runVars

FairSpec == RunsSpec /\ WF_runVars(Step)

(* The servers end what they send: this the code does not see to. *)
ServedSpec == FairSpec /\ SF_runVars(ResponseEnds)
--------------------------------------------------------------------------------
Statuses == {"succeeded", "partial", "failed"}
Done == stage = "done" /\ result # None
Succeeded(ms) == Done /\ module \in ms /\ result.status = "succeeded"
What == {f.what : f \in result.findings}

(* Type invariant of a run, of nmap's output and of the provider cache. *)
TypeOK ==
    /\ clock \in 0..MaxTime /\ started \in 0..clock
    /\ cache \in [Providers -> Entries \cup {None}]
    /\ answered \in [Providers -> (0..MaxTime) \cup {None}]
    /\ runs \in 0..MaxRuns
    /\ module \in Modules \cup {None}
    /\ stage \in {"done", "checking", "scanning", "parsing", "asking", "receiving",
                  "lookup", "reading"}
    /\ found \subseteq Ports /\ printed \in 0..(Cardinality(Ports) + 2)
    /\ alive \in BOOLEAN /\ stop \in {None, "cancelled", "timeout"}
    /\ url \in AllHosts /\ hops \in Seq(AllHosts)
    /\ tries \in Nat /\ statuses \in Seq(DnsStatuses)
    /\ result # None => result.status \in Statuses

(* A result is of one piece, whichever module makes it: only a success has *)
(* no error code, a failure has no findings, a partial result has some,    *)
(* and what a finding cites is in the result's evidence, so that the job   *)
(* runner finds it (a blocked redirect, a hint and a link that was found in *)
(* a page cite nothing).                                                   *)
OfOnePiece ==
    /\ result.status = "succeeded" <=> result.code = None
    /\ result.status = "failed" => result.findings = {}
    /\ result.status = "partial" => result.findings # {}
    /\ \A f \in result.findings :
          \/ \E b \in result.evidence : b.name = f.evidence
          \/ f.evidence = None /\ module \in Local \cup {"http_overview"}

(* A stopped scan is never a success, and none but such a scan is partial. *)
StopIsTold ==
    module \in Scans =>
        /\ stop # None => result.status # "succeeded"
        /\ result.status = "partial" => stop # None

(* One DNS query that fails loses nothing of what the others say.          *)
DnsKeepsWhatItLearns ==
    module \in Lookups /\ result.code \notin {"module_error", "resolver_unavailable"} =>
        /\ result.status = "failed" => Range(statuses) \cap Conclusive = {}
        /\ What = {i \in DOMAIN statuses : statuses[i] = "ok"}

(* A scan reports every port that nmap found, or every one it named a      *)
(* service for, or none: never what happened to be in the output that the  *)
(* supervisor had kept when nmap stopped.                                  *)
ScanIsWhole ==
    module \in Scans /\ result.findings # {} =>
        What = IF module = "tcp_scan" THEN found ELSE found \cap Identified

(* What the runners may rely on: the result is of one piece, and it says   *)
(* what the tool and the queries behind it did: no part of a scan passes   *)
(* for the whole, no silence for an answer.                                *)
ResultContract ==
    Done => OfOnePiece /\ StopIsTold /\ DnsKeepsWhatItLearns /\ ScanIsWhole

(* http_overview makes at most MaxRedirects + 1 requests, each but the     *)
(* first to a host that the scope allows, and its finding names the last   *)
(* host asked, or none if the walk ended at a redirect.                    *)
WalkStaysInScope ==
    /\ Len(hops) <= MaxRedirects + 1
    /\ \A i \in 2..Len(hops) : hops[i] \in InScope
    /\ Succeeded({"http_overview"}) =>
          \E h \in {None, hops[Len(hops)]} : <<"status", h>> \in What

(* The document that a provider module reads was fetched in this run or     *)
(* less than Ttl before it began, so that neither stale data nor a document *)
(* the module cannot read stays longer; and it is what a success reports.   *)
AnswersAreFresh ==
    module \in Providers /\ answer # None =>
        /\ answer.at + Ttl > started
        /\ Succeeded(Providers) => \A b \in result.evidence : b.content = answer

(* The budget that the provider modules state: one request and at most one *)
(* retry, and none while a document fetched less than Ttl ago is there.    *)
RequestsWithinBudget ==
    module \in Providers /\ tries > 0 =>
        /\ tries <= MaxRetries + 1
        /\ \/ answered[module] = None
           \/ answered[module] >= started
           \/ answered[module] + Ttl <= clock

(* Every run ends, whether nmap, the hosts and the providers answer or not,  *)
(* if none of their responses goes on and on.                              *)
EveryRunEnds == [](stage # "done" => <>(stage = "done"))

(* http_overview's manifest: "1 MiB body cap, 10s connect / 20s total        *)
(* timeout".  Violated, if nothing is assumed of the server: each part of   *)
(* the body is waited for anew, and there is no limit on them all.          *)
OverviewsEnd ==
    [](module = "http_overview" /\ stage # "done" => <>(stage = "done"))

(* tcp_scan's manifest: a scan that is stopped is marked partial if some   *)
(* ports were already observed.                                            *)
PartialScans ==
    Done /\ module = "tcp_scan" /\ stop # None /\ PortsIn(Kept) # {} =>
        result.status = "partial"
===============================================================================
