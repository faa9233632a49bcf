--------------------------- MODULE ModuleRuns_proofs ---------------------------
(***************************************************************************)
(* Proofs about ModuleRuns for any ports, hosts, limits and number of runs.*)
(* A part of the invariant for each kind of module: where its runs can be, *)
(* what nmap has found and the result says of it, whom http_overview has   *)
(* asked, and how what a provider module reads relates to its last answer. *)
(***************************************************************************)
EXTENDS ModuleRuns, FiniteSetTheorems, TLAPS

(* Where the run of a module can be. *)
PlaceInv ==
    /\ alive => stage = "scanning"
    /\ module \in Scans => stage \in {"done", "checking", "scanning", "parsing"}
    /\ module \in Providers =>
          stage \in {"done", "lookup", "asking", "receiving", "reading"}
    /\ module \in Modules \ (Scans \cup Providers) =>
          stage \in {"done", "asking", "receiving"}

WalkInv ==
    /\ WalkStaysInScope
    /\ In("http_overview", "asking") \/ In("http_overview", "receiving") =>
          /\ Len(hops) <= MaxRedirects
          /\ hops # <<>> => url \in InScope

(* A provider's last answer is in the cache until it is Ttl old. *)
Remembered(m) ==
    \/ answered[m] = None
    \/ answered[m] + Ttl <= clock
    \/ /\ cache[m] # None
       /\ cache[m].expires = answered[m] + Ttl /\ cache[m].doc # "null"

LookupInv ==
    /\ \A m \in Providers : Remembered(m)
    /\ module \in Providers =>
          /\ stage = "lookup" => tries = 0
          /\ stage \in {"asking", "receiving"} =>
                /\ tries <= MaxRetries
                /\ answered[module] = None \/ answered[module] + Ttl <= clock
          /\ RequestsWithinBudget
          /\ AnswersAreFresh

RunsInv == TypeOK /\ PlaceInv /\ ResultContract /\ WalkInv /\ LookupInv
--------------------------------------------------------------------------------
LEMMA StartRuns == RunsInit => RunsInv
<1> SUFFICES ASSUME RunsInit PROVE RunsInv
  OBVIOUS
<1> USE ModulesAssumption DEF RunsInit
<1>1. TypeOK
  <2>1. Cardinality(Ports) \in Nat
    BY FS_CardinalityType
  <2>2. clock \in 0..MaxTime /\ started \in 0..clock /\ runs \in 0..MaxRuns
        /\ printed \in 0..(Cardinality(Ports) + 2)
    BY <2>1
  <2>3. /\ cache \in [Providers -> Entries \cup {None}]
        /\ answered \in [Providers -> (0..MaxTime) \cup {None}]
    OBVIOUS
  <2>4. hops \in Seq(AllHosts) /\ statuses \in Seq(DnsStatuses)
    OBVIOUS
  <2>5. QED
    BY <2>2, <2>3, <2>4 DEF TypeOK
<1>2. PlaceInv
  BY DEF PlaceInv
<1>3. ResultContract
  BY DEF ResultContract, Done
<1>4. WalkInv
  BY DEF WalkInv, WalkStaysInScope, Succeeded, Done
<1>5. LookupInv
  BY DEF LookupInv, Remembered, RequestsWithinBudget, AnswersAreFresh
<1>6. QED
  BY <1>1, <1>2, <1>3, <1>4, <1>5 DEF RunsInv

(* What is kept of a module's run is not touched by the runs of others. *)
LEMMA WalkIsOthers ==
    ASSUME WalkInv, UNCHANGED <<url, hops, module>>, module # "http_overview"
    PROVE  WalkInv'
BY DEF WalkInv, WalkStaysInScope, Succeeded, In

LEMMA LookupIsOthers ==
    ASSUME LookupInv, UNCHANGED <<clock, cache, answered, module>>,
           module \notin Providers
    PROVE  LookupInv'
BY DEF LookupInv, Remembered

(* A document that is complete has every port. *)
LEMMA WholeDocument ==
    ASSUME TypeOK
    PROVE  Parsed = None \/ Parsed = found
<1>1. IsFiniteSet(found) /\ Cardinality(found) \in Nat
  BY ModulesAssumption, FS_Subset, FS_CardinalityType DEF TypeOK
<1>2. ASSUME NEW p \in found
      PROVE  Cardinality({q \in found : q <= p}) < Pieces
  <2>1. Cardinality({q \in found : q <= p}) \in Nat
        /\ Cardinality({q \in found : q <= p}) <= Cardinality(found)
    BY <1>1, FS_Subset, FS_CardinalityType
  <2>2. QED
    BY <1>1, <2>1 DEF Pieces
<1>3. QED
  BY <1>2 DEF Parsed, PortsIn

(* A success that cites evidence of its own. *)
LEMMA SuccessKept ==
    ASSUME NEW F, NEW E, Return(Result("succeeded", None, F, E)),
           module' = module, module \notin Scans \cup Lookups,
           \A f \in F : \/ \E b \in E : b.name = f.evidence
                        \/ f.evidence = None /\ module \in Local \cup {"http_overview"}
    PROVE  ResultContract'
<1>1. stage' = "done" /\ result'.status = "succeeded" /\ result'.code = None
      /\ result'.findings = F /\ result'.evidence = E
  BY DEF Return, Result
<1>2. OfOnePiece'
  BY <1>1 DEF OfOnePiece
<1>3. QED
  BY <1>2 DEF ResultContract, StopIsTold, DnsKeepsWhatItLearns, ScanIsWhole

(* A failure without findings. *)
LEMMA FailureKept ==
    ASSUME NEW code \in Codes, NEW E, Return(Result("failed", code, {}, E)),
           module' = module, module \notin Lookups
    PROVE  ResultContract'
<1>1. stage' = "done" /\ result'.status = "failed" /\ result'.code = code
      /\ result'.findings = {} /\ code # None
  BY ModulesAssumption DEF Return, Result
<1>2. QED
  BY <1>1 DEF ResultContract, OfOnePiece, StopIsTold, DnsKeepsWhatItLearns, ScanIsWhole

LEMMA WhatIsFound ==
    ASSUME NEW S, NEW name, NEW F, \A s \in S : Finding(s, name) \in F,
           \A f \in F : \E s \in S : f = Finding(s, name)
    PROVE  {f.what : f \in F} = S /\ \A f \in F : f.evidence = name
<1>1. \A s \in S : Finding(s, name).what = s /\ Finding(s, name).evidence = name
  BY DEF Finding
<1>2. QED
  BY <1>1

(* nmap's runs: a scan is refused or launched, nmap writes, ends or is stopped. *)
LEMMA ScanRefusedKeeps ==
    ASSUME RunsInv, NEW m \in Scans, ScanRefused(m)
    PROVE  RunsInv'
<1>1. TypeOK'
  BY DEF RunsInv, TypeOK, ScanRefused, store, run, nmap, web, http, lookup, Return,
     Result, Failed, Statuses
<1>2. PlaceInv'
  BY DEF RunsInv, PlaceInv, ScanRefused, In, nmap, Return
<1>3. ResultContract'
  BY ModulesAssumption DEF ScanRefused, Refusals, In, run, Return, Result, Failed,
     Codes, Scans, Lookups, ResultContract, OfOnePiece, StopIsTold,
     DnsKeepsWhatItLearns, ScanIsWhole
<1>4. WalkInv'
  BY WalkIsOthers DEF RunsInv, ScanRefused, In, run, web, http, Scans
<1>5. LookupInv'
  BY LookupIsOthers DEF RunsInv, PlaceInv, ScanRefused, In, store, run
<1>6. QED
  BY <1>1, <1>2, <1>3, <1>4, <1>5 DEF RunsInv

LEMMA LaunchKeeps ==
    ASSUME RunsInv, NEW m \in Scans, Launch(m)
    PROVE  RunsInv'
<1>1. TypeOK'
  BY DEF RunsInv, TypeOK, Launch, store, run, web, http, lookup
<1>2. PlaceInv'
  BY DEF RunsInv, PlaceInv, Launch, In, run
<1>3. ResultContract'
  BY DEF Launch, ResultContract, Done
<1>4. WalkInv'
  BY WalkIsOthers DEF RunsInv, Launch, In, run, web, http, Scans
<1>5. LookupInv'
  BY LookupIsOthers DEF RunsInv, PlaceInv, Launch, In, store, run
<1>6. QED
  BY <1>1, <1>2, <1>3, <1>4, <1>5 DEF RunsInv

LEMMA NmapWritesKeeps ==
    ASSUME RunsInv, NmapWrites
    PROVE  RunsInv'
<1>1. TypeOK'
  <2>1. /\ Cardinality(found) \in Nat /\ Cardinality(Ports) \in Nat
        /\ Cardinality(found) <= Cardinality(Ports)
    BY ModulesAssumption, FS_Subset, FS_CardinalityType DEF RunsInv, TypeOK
  <2>2. printed' \in 0..(Cardinality(Ports) + 2)
    BY <2>1 DEF RunsInv, TypeOK, NmapWrites, Pieces
  <2>3. QED
    BY <2>2 DEF RunsInv, TypeOK, NmapWrites, store, run, web, http, lookup
<1>2. PlaceInv'
  BY DEF RunsInv, PlaceInv, NmapWrites, run
<1>3. ResultContract'
  BY DEF RunsInv, PlaceInv, NmapWrites, ResultContract, Done
<1>4. WalkInv'
  BY WalkIsOthers DEF RunsInv, PlaceInv, NmapWrites, run, web, http, Modules, Scans
<1>5. LookupInv'
  BY LookupIsOthers DEF RunsInv, PlaceInv, NmapWrites, store, run
<1>6. QED
  BY <1>1, <1>2, <1>3, <1>4, <1>5 DEF RunsInv

LEMMA NmapEndsKeeps ==
    ASSUME RunsInv, NmapEnds
    PROVE  RunsInv'
<1>1. TypeOK'
  BY DEF RunsInv, TypeOK, NmapEnds, store, run, web, http, lookup
<1>2. PlaceInv'
  BY DEF RunsInv, PlaceInv, NmapEnds, run
<1>3. ResultContract'
  BY DEF RunsInv, PlaceInv, NmapEnds, ResultContract, Done
<1>4. WalkInv'
  BY WalkIsOthers DEF RunsInv, PlaceInv, NmapEnds, run, web, http, Modules, Scans
<1>5. LookupInv'
  BY LookupIsOthers DEF RunsInv, PlaceInv, NmapEnds, store, run
<1>6. QED
  BY <1>1, <1>2, <1>3, <1>4, <1>5 DEF RunsInv

LEMMA SeeExitKeeps ==
    ASSUME RunsInv, SeeExit
    PROVE  RunsInv'
<1>1. TypeOK'
  BY DEF RunsInv, TypeOK, SeeExit, store, run, nmap, web, http, lookup
<1>2. PlaceInv'
  BY DEF RunsInv, PlaceInv, SeeExit, run, nmap
<1>3. ResultContract'
  BY DEF SeeExit, ResultContract, Done
<1>4. WalkInv'
  BY WalkIsOthers DEF RunsInv, PlaceInv, SeeExit, run, web, http, Modules, Scans
<1>5. LookupInv'
  BY LookupIsOthers DEF RunsInv, PlaceInv, SeeExit, store, run
<1>6. QED
  BY <1>1, <1>2, <1>3, <1>4, <1>5 DEF RunsInv

LEMMA StopNmapKeeps ==
    ASSUME RunsInv, NEW why \in {"timeout", "cancelled"}, StopNmap(why)
    PROVE  RunsInv'
<1>1. TypeOK'
  BY DEF RunsInv, TypeOK, StopNmap, store, run, web, http, lookup
<1>2. PlaceInv'
  BY DEF RunsInv, PlaceInv, StopNmap, run
<1>3. ResultContract'
  BY DEF StopNmap, ResultContract, Done
<1>4. WalkInv'
  BY WalkIsOthers DEF RunsInv, PlaceInv, StopNmap, run, web, http, Modules, Scans
<1>5. LookupInv'
  BY LookupIsOthers DEF RunsInv, PlaceInv, StopNmap, store, run
<1>6. QED
  BY <1>1, <1>2, <1>3, <1>4, <1>5 DEF RunsInv

LEMMA ParseKeeps ==
    ASSUME RunsInv, NEW m \in Scans, Parse(m)
    PROVE  RunsInv'
<1>1. TypeOK'
  BY DEF RunsInv, TypeOK, Parse, TcpScanResult, ServiceDetectionResult,
     StoppedResult, store, run, nmap, web, http, lookup, Return, Result, Statuses
<1>2. PlaceInv'
  BY DEF RunsInv, PlaceInv, Parse, In, nmap, Return
<1>3. ResultContract'
  <2>1. /\ module = m /\ module' = m /\ stop' = stop /\ found' = found /\ stage' = "done"
        /\ stop \in {None, "cancelled", "timeout"}
        /\ None \notin {"cancelled", "timeout", "nmap_parse_failed"}
        /\ m \notin Lookups /\ m \in {"tcp_scan", "service_detection"}
    BY ModulesAssumption DEF RunsInv, TypeOK, Parse, In, Return, nmap, run, Codes,
       Scans, Lookups
  <2>2. Parsed = None \/ Parsed = found
    BY WholeDocument DEF RunsInv
  <2>3. CASE m = "tcp_scan"
    <3>. DEFINE F == IF Parsed = None THEN {} ELSE {Finding(p, "nmap.xml") : p \in Parsed}
                E == {Blob("nmap.xml", Kept), Blob("nmap.command.txt", None)}
    <3>1. \A f \in F : \E b \in E : b.name = f.evidence
      BY DEF Finding, Blob
    <3>2. F # {} => {f.what : f \in F} = found
      <4>1. CASE Parsed = None
        BY <4>1
      <4>2. CASE Parsed # None
        <5>1. /\ \A p \in found : Finding(p, "nmap.xml") \in F
              /\ \A f \in F : \E p \in found : f = Finding(p, "nmap.xml")
          BY <2>2, <4>2
        <5> HIDE DEF F
        <5>2. QED
          BY <5>1, WhatIsFound
      <4>3. QED
        BY <4>1, <4>2
    <3>3. result' = IF stop # None
                    THEN Result(IF F = {} THEN "failed" ELSE "partial", stop, F, E)
                    ELSE IF Parsed = None THEN Result("failed", "nmap_parse_failed", {}, E)
                    ELSE Result("succeeded", None, F, E)
      BY <2>3 DEF Parse, Return, TcpScanResult, StoppedResult
    <3> HIDE DEF F, E
    <3>4. /\ result'.findings \in {{}, F} /\ result'.evidence = E
          /\ result'.status = "succeeded" <=> result'.code = None
          /\ result'.status = "failed" => result'.findings = {}
          /\ result'.status = "partial" => result'.findings # {} /\ stop # None
          /\ stop # None => result'.status # "succeeded"
      BY <2>1, <3>3 DEF Result
    <3>5. OfOnePiece'
      BY <3>1, <3>4 DEF OfOnePiece
    <3>6. StopIsTold' /\ ScanIsWhole'
      BY <2>1, <2>3, <3>2, <3>4 DEF StopIsTold, ScanIsWhole, What
    <3>7. QED
      BY <2>1, <3>5, <3>6 DEF ResultContract, DnsKeepsWhatItLearns
  <2>4. CASE m = "service_detection"
    <3>. DEFINE F == {Finding(p, "nmap_sv.xml") : p \in Parsed \cap Identified}
                E == {Blob("nmap_sv.xml", Kept)}
    <3>1. \A f \in F : \E b \in E : b.name = f.evidence
      BY DEF Finding, Blob
    <3>2. Parsed = found => {f.what : f \in F} = found \cap Identified
      <4>1. ASSUME Parsed = found
            PROVE  /\ \A p \in found \cap Identified : Finding(p, "nmap_sv.xml") \in F
                   /\ \A f \in F : \E p \in found \cap Identified : f = Finding(p, "nmap_sv.xml")
        BY <4>1
      <4> HIDE DEF F
      <4>2. QED
        BY <4>1, WhatIsFound
    <3>3. result' = IF Parsed = None THEN Result("failed", "nmap_parse_failed", {}, E)
                    ELSE IF stop # None
                    THEN Result(IF F = {} THEN "failed" ELSE "partial", stop, F, E)
                    ELSE Result("succeeded", None, F, E)
      BY <2>4 DEF Parse, Return, ServiceDetectionResult, StoppedResult
    <3> HIDE DEF F, E
    <3>4. /\ result'.findings \in {{}, F} /\ result'.evidence = E
          /\ result'.findings # {} => Parsed = found
          /\ result'.status = "succeeded" <=> result'.code = None
          /\ result'.status = "failed" => result'.findings = {}
          /\ result'.status = "partial" => result'.findings # {} /\ stop # None
          /\ stop # None => result'.status # "succeeded"
      BY <2>1, <2>2, <3>3 DEF Result
    <3>5. OfOnePiece'
      BY <3>1, <3>4 DEF OfOnePiece
    <3>6. StopIsTold' /\ ScanIsWhole'
      BY <2>1, <2>4, <3>2, <3>4 DEF StopIsTold, ScanIsWhole, What
    <3>7. QED
      BY <2>1, <3>5, <3>6 DEF ResultContract, DnsKeepsWhatItLearns
  <2>5. QED
    BY <2>1, <2>3, <2>4
<1>4. WalkInv'
  BY WalkIsOthers DEF RunsInv, Parse, In, run, web, http, Scans
<1>5. LookupInv'
  BY LookupIsOthers DEF RunsInv, PlaceInv, Parse, In, store, run
<1>6. QED
  BY <1>1, <1>2, <1>3, <1>4, <1>5 DEF RunsInv

(* The parts of a response: the module waits, with what it had. *)
LEMMA ReceivesKeeps ==
    ASSUME RunsInv, PartArrives \/ ReadOn
    PROVE  RunsInv'
<1>1. /\ stage \in {"asking", "receiving"} /\ stage' \in {"asking", "receiving"}
      /\ UNCHANGED <<clock, cache, answered, runs, module, started, found, printed, alive,
                     stop, url, hops, tries, answer, statuses, result>>
  BY DEF PartArrives, ReadOn, store, run, nmap, web, http, lookup
<1>2. TypeOK'
  BY <1>1 DEF RunsInv, TypeOK
<1>3. PlaceInv'
  BY <1>1 DEF RunsInv, PlaceInv
<1>4. ResultContract'
  BY <1>1 DEF ResultContract, Done
<1>5. WalkInv'
  BY <1>1 DEF RunsInv, WalkInv, WalkStaysInScope, Succeeded, Done, In
<1>6. LookupInv'
  BY <1>1 DEF RunsInv, LookupInv, Remembered, RequestsWithinBudget, AnswersAreFresh,
     Succeeded, Done
<1>7. QED
  BY <1>2, <1>3, <1>4, <1>5, <1>6 DEF RunsInv

(* A request of http_overview. *)
LEMMA Asked ==
    ASSUME RunsInv, AskHost
    PROVE  /\ module = "http_overview" /\ hops' \in Seq(AllHosts)
           /\ Len(hops') = Len(hops) + 1 /\ hops'[Len(hops')] = url
           /\ Len(hops') <= MaxRedirects + 1
           /\ \A i \in 2..Len(hops') : hops'[i] \in InScope
<1>1. /\ module = "http_overview" /\ hops' = Append(hops, url) /\ url \in AllHosts
      /\ hops \in Seq(AllHosts) /\ Len(hops) \in Nat /\ Len(hops) <= MaxRedirects
      /\ hops # <<>> => url \in InScope
      /\ \A i \in 2..Len(hops) : hops[i] \in InScope
  BY DEF RunsInv, TypeOK, WalkInv, WalkStaysInScope, AskHost, In
<1>2. /\ hops' \in Seq(AllHosts) /\ Len(hops') = Len(hops) + 1
      /\ \A i \in 1..Len(hops) : hops'[i] = hops[i]
      /\ hops'[Len(hops) + 1] = url
  BY <1>1
<1>3. ASSUME NEW i \in 2..Len(hops') PROVE hops'[i] \in InScope
  <2>1. CASE i = Len(hops) + 1
    BY <1>1, <1>2, <2>1
  <2>2. CASE i \in 2..Len(hops)
    BY <1>1, <1>2, <2>2
  <2>3. QED
    BY <1>1, <1>2, <2>1, <2>2
<1>4. QED
  BY <1>1, <1>2, <1>3, ModulesAssumption

(* The end of a walk: what it reports is of one piece and of the last host. *)
LEMMA WalkEnds ==
    ASSUME RunsInv, AskHost, NEW final \in {url, None}, NEW blocked, module' = module,
           Return(HttpResult(final, blocked))
    PROVE  ResultContract' /\ WalkInv'
<1>. DEFINE F == {Finding(<<"status", final>>, "http.txt")}
                   \cup {Finding(<<"blocked", b>>, None) : b \in blocked}
            E == {Blob("http.txt", hops')}
<1>1. /\ Return(Result("succeeded", None, F, E))
      /\ result'.findings = F /\ stage' = "done"
  BY DEF HttpResult, Return, Result
<1>2. \A f \in F : \/ \E b \in E : b.name = f.evidence
                   \/ f.evidence = None
  BY DEF Finding, Blob
<1>3. <<"status", final>> \in {f.what : f \in F}
  <2>1. Finding(<<"status", final>>, "http.txt") \in F
        /\ Finding(<<"status", final>>, "http.txt").what = <<"status", final>>
    BY DEF Finding
  <2>2. QED
    BY <2>1
<1> HIDE DEF F, E
<1>4. ResultContract'
  BY <1>1, <1>2, Asked, SuccessKept DEF Scans, Lookups
<1>5. <<"status", final>> \in What' /\ final \in {None, hops'[Len(hops')]}
  BY <1>1, <1>3, Asked DEF What
<1>6. WalkStaysInScope'
  BY <1>5, Asked DEF WalkStaysInScope
<1>7. QED
  BY <1>1, <1>4, <1>6 DEF WalkInv, In

(* http_overview's walk: a request fails, is answered, or redirects. *)
LEMMA HttpFailsKeeps ==
    ASSUME RunsInv, HttpFails
    PROVE  RunsInv'
<1>1. TypeOK'
  BY DEF RunsInv, TypeOK, HttpFails, AskHost, store, run, nmap, lookup, Return, Result,
     Failed, Statuses
<1>2. PlaceInv'
  BY DEF RunsInv, PlaceInv, HttpFails, AskHost, In, nmap, Return
<1>3. ResultContract'
  BY ModulesAssumption DEF HttpFails, AskHost, In, run, Return, Result, Failed, Codes,
     Lookups, ResultContract, OfOnePiece, StopIsTold, DnsKeepsWhatItLearns, ScanIsWhole
<1>4. WalkInv'
  BY ModulesAssumption DEF RunsInv, HttpFails, AskHost, WalkInv, WalkStaysInScope, In,
     Succeeded, Return, Result, Failed
<1>5. LookupInv'
  BY LookupIsOthers DEF RunsInv, HttpFails, AskHost, In, store, run, Providers
<1>6. QED
  BY <1>1, <1>2, <1>3, <1>4, <1>5 DEF RunsInv

LEMMA HttpAnswersKeeps ==
    ASSUME RunsInv, HttpAnswers
    PROVE  RunsInv'
<1>1. TypeOK'
  BY DEF RunsInv, TypeOK, HttpAnswers, AskHost, HttpResult, store, run, nmap, lookup,
     Return, Result, Statuses
<1>2. PlaceInv'
  BY DEF RunsInv, PlaceInv, HttpAnswers, AskHost, In, nmap, Return
<1>3. /\ AskHost /\ module' = module /\ Return(HttpResult(url, {}))
  BY DEF HttpAnswers, run
<1>4. ResultContract' /\ WalkInv'
  BY <1>3, WalkEnds
<1>5. LookupInv'
  BY LookupIsOthers DEF RunsInv, HttpAnswers, AskHost, In, store, run, Providers
<1>6. QED
  BY <1>1, <1>2, <1>4, <1>5 DEF RunsInv

LEMMA HttpBlockedKeeps ==
    ASSUME RunsInv, NEW h \in AllHosts, HttpBlocked(h)
    PROVE  RunsInv'
<1>1. TypeOK'
  BY DEF RunsInv, TypeOK, HttpBlocked, AskHost, HttpResult, store, run, nmap, lookup,
     Return, Result, Statuses
<1>2. PlaceInv'
  BY DEF RunsInv, PlaceInv, HttpBlocked, AskHost, In, nmap, Return
<1>3. /\ AskHost /\ module' = module
      /\ \E reason \in {"credentials_in_url", "out_of_scope"} :
            Return(HttpResult(None, {<<h, reason>>}))
  BY DEF HttpBlocked, run
<1>4. ResultContract' /\ WalkInv'
  BY <1>3, WalkEnds
<1>5. LookupInv'
  BY LookupIsOthers DEF RunsInv, HttpBlocked, AskHost, In, store, run, Providers
<1>6. QED
  BY <1>1, <1>2, <1>4, <1>5 DEF RunsInv

LEMMA HttpFollowKeeps ==
    ASSUME RunsInv, NEW h \in AllHosts, HttpFollow(h)
    PROVE  RunsInv'
<1>1. TypeOK'
  BY DEF RunsInv, TypeOK, HttpFollow, AskHost, HttpResult, store, run, nmap, lookup,
     Return, Result, Statuses
<1>2. PlaceInv'
  BY DEF RunsInv, PlaceInv, HttpFollow, AskHost, In, run, nmap, Return
<1>3. /\ AskHost /\ module' = module /\ module = "http_overview"
      /\ h \in InScope /\ url' = h
  BY DEF HttpFollow, run, AskHost, In
<1>4. ResultContract' /\ WalkInv'
  <2>1. CASE Len(hops) < MaxRedirects /\ UNCHANGED <<stage, result>>
    <3>1. stage' = "asking"
      BY <2>1 DEF HttpFollow, AskHost, In
    <3>2. ResultContract'
      BY <3>1 DEF ResultContract, Done
    <3>3. WalkInv'
      <4>1. Len(hops') <= MaxRedirects /\ url' \in InScope
        BY <1>3, <2>1, Asked, ModulesAssumption
      <4>2. QED
        BY <1>3, <3>1, <4>1, Asked DEF WalkInv, WalkStaysInScope, Succeeded, Done
    <3>4. QED
      BY <3>2, <3>3
  <2>2. CASE Return(HttpResult(None, {}))
    BY <1>3, <2>2, WalkEnds
  <2>3. QED
    BY <2>1, <2>2 DEF HttpFollow
<1>5. LookupInv'
  BY LookupIsOthers DEF RunsInv, HttpFollow, AskHost, In, store, run, Providers
<1>6. QED
  BY <1>1, <1>2, <1>4, <1>5 DEF RunsInv

(* tls_review's handshakes. *)
LEMMA TlsUnavailableKeeps ==
    ASSUME RunsInv, TlsUnavailable
    PROVE  RunsInv'
<1>1. TypeOK'
  BY DEF RunsInv, TypeOK, TlsUnavailable, store, run, nmap, web, http, lookup,
     Return, Result, Failed, Statuses
<1>2. PlaceInv'
  BY DEF RunsInv, PlaceInv, TlsUnavailable, In, nmap, Return
<1>3. ResultContract'
  BY ModulesAssumption DEF TlsUnavailable, In, run, Return, Result, Failed, Codes,
     Lookups, ResultContract, OfOnePiece, StopIsTold, DnsKeepsWhatItLearns, ScanIsWhole
<1>4. WalkInv'
  BY WalkIsOthers DEF RunsInv, TlsUnavailable, In, run, web, http
<1>5. LookupInv'
  BY LookupIsOthers DEF RunsInv, TlsUnavailable, In, store, run, Providers
<1>6. QED
  BY <1>1, <1>2, <1>3, <1>4, <1>5 DEF RunsInv

LEMMA TlsReportKeeps ==
    ASSUME RunsInv, TlsReport
    PROVE  RunsInv'
<1>1. TypeOK'
  BY DEF RunsInv, TypeOK, TlsReport, store, run, nmap, web, http, lookup, Return,
     Result, Failed, Statuses
<1>2. PlaceInv'
  BY DEF RunsInv, PlaceInv, TlsReport, In, nmap, Return
<1>3. ResultContract'
  <2>1. module' = module /\ module = "tls_review"
    BY DEF TlsReport, In, run
  <2>2. PICK h \in Handshakes :
          Return(IF h = "failed" THEN Failed("tls_handshake_failed")
                 ELSE Result("succeeded", None,
                             {Finding("certificate", "tls.json")}
                               \cup {Finding(i, "tls.json") : i \in {h} \cap {"invalid"}},
                             {Blob("tls.json", h)}))
    BY DEF TlsReport
  <2>3. CASE h = "failed"
    BY <2>1, <2>2, <2>3, FailureKept DEF Failed, Codes, Lookups
  <2>4. CASE h # "failed"
    <3>. DEFINE F == {Finding("certificate", "tls.json")}
                       \cup {Finding(i, "tls.json") : i \in {h} \cap {"invalid"}}
                E == {Blob("tls.json", h)}
    <3>1. \A f \in F : \E b \in E : b.name = f.evidence
      BY DEF Finding, Blob
    <3>2. Return(Result("succeeded", None, F, E))
      BY <2>2, <2>4
    <3> HIDE DEF F, E
    <3>3. QED
      BY <2>1, <3>1, <3>2, SuccessKept DEF Scans, Lookups
  <2>5. QED
    BY <2>3, <2>4
<1>4. WalkInv'
  BY WalkIsOthers DEF RunsInv, TlsReport, In, run, web, http
<1>5. LookupInv'
  BY LookupIsOthers DEF RunsInv, TlsReport, In, store, run, Providers
<1>6. QED
  BY <1>1, <1>2, <1>3, <1>4, <1>5 DEF RunsInv

(* A provider's answer, of the cache or of a request. *)
LEMMA CacheHitKeeps ==
    ASSUME RunsInv, NEW m \in Providers, CacheHit(m)
    PROVE  RunsInv'
<1>1. TypeOK'
  BY DEF RunsInv, TypeOK, CacheHit, store, run, nmap, http
<1>2. PlaceInv'
  BY DEF RunsInv, PlaceInv, CacheHit, In, run, nmap
<1>3. ResultContract'
  BY DEF CacheHit, ResultContract, Done
<1>4. WalkInv'
  BY WalkIsOthers DEF RunsInv, CacheHit, In, run, http, Providers
<1>5. LookupInv'
  BY ModulesAssumption DEF RunsInv, TypeOK, CacheHit, store, run, LookupInv,
     Remembered, RequestsWithinBudget, AnswersAreFresh, Succeeded, Done, Entries, Cached
<1>6. QED
  BY <1>1, <1>2, <1>3, <1>4, <1>5 DEF RunsInv

LEMMA CacheMissKeeps ==
    ASSUME RunsInv, NEW m \in Providers, CacheMiss(m)
    PROVE  RunsInv'
<1>1. TypeOK'
  BY DEF RunsInv, TypeOK, CacheMiss, run, nmap, web, http, lookup
<1>2. PlaceInv'
  BY DEF RunsInv, PlaceInv, CacheMiss, In, run, nmap
<1>3. ResultContract'
  BY DEF CacheMiss, ResultContract, Done
<1>4. WalkInv'
  BY WalkIsOthers DEF RunsInv, CacheMiss, In, run, web, http, Providers
<1>5. LookupInv'
  <2>1. /\ module = m /\ stage = "lookup" /\ stage' = "asking" /\ ~Cached(m)
        /\ UNCHANGED <<clock, answered, module, started, tries, answer>>
        /\ clock \in Nat /\ \A k \in Providers : answered[k] \in Nat \cup {None}
    BY DEF RunsInv, TypeOK, CacheMiss, In, run, web, lookup
  <2>2. /\ \A k \in Providers \ {m} : cache'[k] = cache[k]
        /\ cache'[m] = cache[m] \/ cache'[m] = None
    BY DEF RunsInv, TypeOK, CacheMiss
  <2>3. Remembered(m) /\ tries = 0 /\ RequestsWithinBudget /\ AnswersAreFresh
    BY <2>1 DEF RunsInv, LookupInv
  <2>4. answered[m] = None \/ answered[m] + Ttl <= clock
    BY <2>1, <2>3, ModulesAssumption DEF Remembered, Cached
  <2>5. \A k \in Providers : Remembered(k)'
    BY <2>1, <2>2, <2>4 DEF RunsInv, LookupInv, Remembered
  <2>6. RequestsWithinBudget' /\ AnswersAreFresh'
    BY <2>1, <2>3 DEF RequestsWithinBudget, AnswersAreFresh, Succeeded, Done
  <2>7. QED
    BY <2>1, <2>3, <2>4, <2>5, <2>6, ModulesAssumption DEF LookupInv
<1>6. QED
  BY <1>1, <1>2, <1>3, <1>4, <1>5 DEF RunsInv

LEMMA ProviderAnswersKeeps ==
    ASSUME RunsInv, NEW m \in Providers, ProviderAnswers(m)
    PROVE  RunsInv'
<1>1. TypeOK'
  BY ModulesAssumption DEF RunsInv, TypeOK, ProviderAnswers, CacheSet, run, nmap,
     http, Entries, Documents, Read
<1>2. PlaceInv'
  BY DEF RunsInv, PlaceInv, ProviderAnswers, In, run, nmap
<1>3. ResultContract'
  BY DEF ProviderAnswers, ResultContract, Done
<1>4. WalkInv'
  BY WalkIsOthers DEF RunsInv, ProviderAnswers, In, run, http, Providers
<1>5. LookupInv'
  <2>1. /\ module = m /\ stage = "asking" /\ stage' = "reading"
        /\ UNCHANGED <<clock, module, started>> /\ tries' = tries + 1
        /\ clock \in Nat /\ started \in Nat /\ started <= clock /\ tries \in Nat
        /\ tries <= MaxRetries
        /\ answered[m] = None \/ answered[m] + Ttl <= clock
    BY DEF RunsInv, TypeOK, LookupInv, ProviderAnswers, In, run
  <2>2. PICK doc \in Documents :
          /\ answer' = [doc |-> Read(m, doc), at |-> clock]
          /\ cache' = [cache EXCEPT ![m] = [doc |-> Read(m, doc), expires |-> clock + Ttl]]
          /\ answered' = IF Read(m, doc) = "null" THEN answered
                         ELSE [answered EXCEPT ![m] = clock]
    BY DEF ProviderAnswers, CacheSet
  <2>3. /\ \A k \in Providers \ {m} : cache'[k] = cache[k] /\ answered'[k] = answered[k]
        /\ cache'[m] = [doc |-> Read(m, doc), expires |-> clock + Ttl]
        /\ answered'[m] = IF Read(m, doc) = "null" THEN answered[m] ELSE clock
    BY <2>2 DEF RunsInv, TypeOK
  <2>4. cache'[m] # None
    BY <1>1, <2>2, <2>3, ModulesAssumption DEF TypeOK, Entries, Documents, Read, RunsInv
  <2>5. ASSUME NEW k \in Providers PROVE Remembered(k)'
    <3>1. CASE k = m
      <4>1. CASE Read(m, doc) = "null"
        BY <2>1, <2>3, <3>1, <4>1 DEF Remembered
      <4>2. CASE Read(m, doc) # "null"
        BY <2>1, <2>3, <2>4, <3>1, <4>2 DEF Remembered
      <4>3. QED
        BY <4>1, <4>2
    <3>2. CASE k # m
      BY <2>1, <2>3, <3>2 DEF RunsInv, LookupInv, Remembered
    <3>3. QED
      BY <3>1, <3>2
  <2>6. RequestsWithinBudget'
    BY <2>1, <2>3, ModulesAssumption DEF RequestsWithinBudget
  <2>7. AnswersAreFresh'
    <3>1. answer'.at + Ttl > started'
      BY <2>1, <2>2, ModulesAssumption
    <3>2. QED
      BY <2>1, <3>1 DEF AnswersAreFresh, Succeeded, Done
  <2>8. QED
    BY <2>1, <2>5, <2>6, <2>7 DEF LookupInv
<1>6. QED
  BY <1>1, <1>2, <1>3, <1>4, <1>5 DEF RunsInv

LEMMA ProviderRefusesKeeps ==
    ASSUME RunsInv, NEW m \in Providers, ProviderRefuses(m)
    PROVE  RunsInv'
<1>1. TypeOK'
  BY DEF RunsInv, TypeOK, ProviderRefuses, store, run, nmap, http, Return, Result,
     Failed, Statuses
<1>2. PlaceInv'
  BY DEF RunsInv, PlaceInv, ProviderRefuses, In, nmap, Return
<1>3. ResultContract'
  BY ModulesAssumption DEF ProviderRefuses, In, run, Return, Result, Failed, Codes,
     Providers, Lookups, ResultContract, OfOnePiece, StopIsTold, DnsKeepsWhatItLearns,
     ScanIsWhole
<1>4. WalkInv'
  BY WalkIsOthers DEF RunsInv, ProviderRefuses, In, run, http, Providers
<1>5. LookupInv'
  BY ModulesAssumption DEF RunsInv, TypeOK, ProviderRefuses, store, run, LookupInv,
     Remembered, RequestsWithinBudget, AnswersAreFresh, In, Return, Result, Failed
<1>6. QED
  BY <1>1, <1>2, <1>3, <1>4, <1>5 DEF RunsInv

LEMMA ProviderFailsKeeps ==
    ASSUME RunsInv, NEW m \in Providers, ProviderFails(m)
    PROVE  RunsInv'
<1>1. TypeOK'
  BY DEF RunsInv, TypeOK, ProviderFails, store, run, nmap, http, Return, Result,
     Failed, Statuses
<1>2. PlaceInv'
  BY DEF RunsInv, PlaceInv, ProviderFails, In, run, nmap, Return
<1>3. ResultContract'
  BY ModulesAssumption DEF ProviderFails, In, run, Return, Result, Failed, Codes,
     Providers, Lookups, ResultContract, Done, OfOnePiece, StopIsTold,
     DnsKeepsWhatItLearns, ScanIsWhole
<1>4. WalkInv'
  BY WalkIsOthers DEF RunsInv, ProviderFails, In, run, http, Providers
<1>5. LookupInv'
  BY ModulesAssumption DEF RunsInv, TypeOK, ProviderFails, store, run, LookupInv,
     Remembered, RequestsWithinBudget, AnswersAreFresh, In, Succeeded, Done, Return,
     Result, Failed
<1>6. QED
  BY <1>1, <1>2, <1>3, <1>4, <1>5 DEF RunsInv

LEMMA ReportKeeps ==
    ASSUME RunsInv, NEW m \in Providers, Report(m)
    PROVE  RunsInv'
<1>1. TypeOK'
  BY DEF RunsInv, TypeOK, Report, store, run, nmap, web, http, lookup, Return,
     Result, Statuses
<1>2. PlaceInv'
  BY DEF RunsInv, PlaceInv, Report, In, nmap, Return
<1>3. ResultContract'
  <2>. DEFINE F == IF answer.doc = "data" THEN {Finding(m, "answer.json")} ELSE {}
              E == {Blob("answer.json", answer)}
  <2>1. module' = module /\ module \in Providers /\ Return(Result("succeeded", None, F, E))
    BY DEF Report, In, run
  <2>2. \A f \in F : \E b \in E : b.name = f.evidence
    BY DEF Finding, Blob
  <2> HIDE DEF F, E
  <2>3. QED
    BY <2>1, <2>2, SuccessKept DEF Providers, Scans, Lookups
<1>4. WalkInv'
  BY WalkIsOthers DEF RunsInv, Report, In, run, web, http, Providers
<1>5. LookupInv'
  <2>1. /\ module \in Providers /\ stage' = "done"
        /\ UNCHANGED <<clock, cache, answered, module, started, tries, answer>>
        /\ result'.evidence = {Blob("answer.json", answer)}
    BY DEF Report, In, store, run, web, lookup, Return, Result
  <2>2. \A b \in result'.evidence : b.content = answer
    BY <2>1 DEF Blob
  <2>3. AnswersAreFresh'
    BY <2>1, <2>2 DEF RunsInv, LookupInv, AnswersAreFresh
  <2>4. QED
    BY <2>1, <2>3 DEF RunsInv, LookupInv, Remembered, RequestsWithinBudget
<1>6. QED
  BY <1>1, <1>2, <1>3, <1>4, <1>5 DEF RunsInv

LEMMA UnreadableKeeps ==
    ASSUME RunsInv, NEW m \in Providers, Unreadable(m)
    PROVE  RunsInv'
<1>1. TypeOK'
  BY DEF RunsInv, TypeOK, Unreadable, store, run, nmap, web, http, lookup, Return,
     Result, Failed, Statuses
<1>2. PlaceInv'
  BY DEF RunsInv, PlaceInv, Unreadable, In, nmap, Return
<1>3. ResultContract'
  BY ModulesAssumption DEF Unreadable, Return, Result, Failed, Codes, ResultContract,
     OfOnePiece, StopIsTold, DnsKeepsWhatItLearns, ScanIsWhole
<1>4. WalkInv'
  BY WalkIsOthers DEF RunsInv, Unreadable, In, run, web, http, Providers
<1>5. LookupInv'
  <2>1. /\ module \in Providers /\ stage' = "done" /\ result'.status = "failed"
        /\ UNCHANGED <<clock, cache, answered, module, started, tries, answer>>
    BY DEF Unreadable, In, store, run, web, lookup, Return, Failed, Result
  <2>2. AnswersAreFresh'
    BY <2>1 DEF RunsInv, LookupInv, AnswersAreFresh, Succeeded
  <2>3. QED
    BY <2>1, <2>2 DEF RunsInv, LookupInv, Remembered, RequestsWithinBudget
<1>6. QED
  BY <1>1, <1>2, <1>3, <1>4, <1>5 DEF RunsInv

(* The queries of dns_records and reverse_dns. *)
LEMMA DnsUnavailableKeeps ==
    ASSUME RunsInv, NEW m \in Lookups, DnsUnavailable(m)
    PROVE  RunsInv'
<1>1. TypeOK'
  BY DEF RunsInv, TypeOK, DnsUnavailable, store, run, nmap, web, http, lookup,
     Return, Result, Failed, Statuses
<1>2. PlaceInv'
  BY DEF RunsInv, PlaceInv, DnsUnavailable, In, nmap, Return
<1>3. ResultContract'
  BY ModulesAssumption DEF DnsUnavailable, Return, Result, Failed, Codes,
     ResultContract, OfOnePiece, StopIsTold, DnsKeepsWhatItLearns, ScanIsWhole
<1>4. WalkInv'
  BY WalkIsOthers DEF RunsInv, DnsUnavailable, In, run, web, http, Lookups
<1>5. LookupInv'
  BY LookupIsOthers DEF RunsInv, DnsUnavailable, In, store, run, Providers, Lookups
<1>6. QED
  BY <1>1, <1>2, <1>3, <1>4, <1>5 DEF RunsInv

LEMMA DnsQueryKeeps ==
    ASSUME RunsInv, DnsQuery
    PROVE  RunsInv'
<1>1. TypeOK'
  BY DEF RunsInv, TypeOK, DnsQuery, store, run, nmap, http, lookup
<1>2. PlaceInv'
  BY DEF RunsInv, PlaceInv, DnsQuery, run, nmap
<1>3. ResultContract'
  BY DEF DnsQuery, In, ResultContract, Done
<1>4. WalkInv'
  BY WalkIsOthers DEF RunsInv, DnsQuery, In, run, http
<1>5. LookupInv'
  BY LookupIsOthers DEF RunsInv, DnsQuery, In, store, run, Providers
<1>6. QED
  BY <1>1, <1>2, <1>3, <1>4, <1>5 DEF RunsInv

LEMMA AnswersToldOf ==
    ASSUME NEW said, NEW name
    PROVE  /\ {f.what : f \in Answers(said, name)} = {i \in DOMAIN said : said[i] = "ok"}
           /\ \A f \in Answers(said, name) : f.evidence = name
<1>. DEFINE S == {i \in DOMAIN said : said[i] = "ok"}
<1>1. \A i \in S : Finding(i, name) \in Answers(said, name)
  BY DEF Answers
<1>2. \A f \in Answers(said, name) : \E i \in S : f = Finding(i, name)
  BY DEF Answers
<1> HIDE DEF S
<1>3. {f.what : f \in Answers(said, name)} = S
      /\ \A f \in Answers(said, name) : f.evidence = name
  BY <1>1, <1>2, WhatIsFound
<1>4. QED
  BY <1>3 DEF S

LEMMA DnsReportKeeps ==
    ASSUME RunsInv, DnsReport
    PROVE  RunsInv'
<1>1. TypeOK'
  BY DEF RunsInv, TypeOK, DnsReport, store, run, nmap, web, http, lookup, Return,
     Result, Statuses
<1>2. PlaceInv'
  BY DEF RunsInv, PlaceInv, DnsReport, In, nmap, Return
<1>3. ResultContract'
  <2>. DEFINE F == Answers(statuses, "dns.txt")
              E == {Blob("dns.txt", statuses)}
  <2>1. /\ module' = module /\ module = "dns_records" /\ statuses' = statuses
        /\ result' = IF Range(statuses) \cap Conclusive = {}
                     THEN Result("failed", "dns_unreachable", {}, E)
                     ELSE Result("succeeded", None, F, E)
    BY DEF DnsReport, In, run, web, Return
  <2>2. /\ \A f \in F : \E b \in E : b.name = f.evidence
        /\ {f.what : f \in F} = {i \in DOMAIN statuses : statuses[i] = "ok"}
    BY AnswersToldOf DEF Blob
  <2>3. "dns_unreachable" # None
    BY ModulesAssumption DEF Codes
  <2>4. CASE Range(statuses) \cap Conclusive = {}
    <3>1. result'.status = "failed" /\ result'.code = "dns_unreachable" /\ result'.findings = {}
      BY <2>1, <2>4 DEF Result
    <3>2. {i \in DOMAIN statuses : statuses[i] = "ok"} = {}
      BY <2>4 DEF Range, Conclusive
    <3>3. What' = {}
      BY <3>1 DEF What
    <3>4. QED
      BY <2>1, <2>3, <2>4, <3>1, <3>2, <3>3 DEF ResultContract, OfOnePiece,
         StopIsTold, DnsKeepsWhatItLearns, ScanIsWhole
  <2>5. CASE Range(statuses) \cap Conclusive # {}
    <3> HIDE DEF F, E
    <3>1. /\ result'.status = "succeeded" /\ result'.code = None
          /\ result'.findings = F /\ result'.evidence = E
      BY <2>1, <2>5 DEF Result
    <3>2. OfOnePiece'
      BY <2>2, <3>1 DEF OfOnePiece
    <3>3. DnsKeepsWhatItLearns'
      BY <2>1, <2>2, <3>1 DEF DnsKeepsWhatItLearns, What
    <3>4. QED
      BY <2>1, <3>2, <3>3 DEF ResultContract, StopIsTold, ScanIsWhole, Scans
  <2>6. QED
    BY <2>4, <2>5
<1>4. WalkInv'
  BY WalkIsOthers DEF RunsInv, DnsReport, In, run, web, http
<1>5. LookupInv'
  BY LookupIsOthers DEF RunsInv, DnsReport, In, store, run, Providers
<1>6. QED
  BY <1>1, <1>2, <1>3, <1>4, <1>5 DEF RunsInv

LEMMA ReverseDnsKeeps ==
    ASSUME RunsInv, ReverseDns
    PROVE  RunsInv'
<1>1. TypeOK'
  BY DEF RunsInv, TypeOK, ReverseDns, store, run, nmap, http, lookup, Return, Result,
     Statuses
<1>2. PlaceInv'
  BY DEF RunsInv, PlaceInv, ReverseDns, In, nmap, Return
<1>3. ResultContract'
  <2>1. module' = module /\ module = "reverse_dns"
    BY DEF ReverseDns, In, run
  <2>2. PICK status \in DnsStatuses :
          /\ statuses' = <<status>>
          /\ result' = IF status \in Conclusive
                       THEN Result("succeeded", None, Answers(<<status>>, "reverse_dns.txt"),
                                   {Blob("reverse_dns.txt", status)})
                       ELSE Result("failed", status, {}, {Blob("reverse_dns.txt", status)})
    BY DEF ReverseDns, Return
  <2>. DEFINE F == Answers(<<status>>, "reverse_dns.txt")
              E == {Blob("reverse_dns.txt", status)}
  <2>3. /\ \A f \in F : \E b \in E : b.name = f.evidence
        /\ {f.what : f \in F} = {i \in DOMAIN statuses' : statuses'[i] = "ok"}
    BY <2>2, AnswersToldOf DEF Blob
  <2>4. CASE status \in Conclusive
    <3>1. result' = Result("succeeded", None, F, E)
      BY <2>2, <2>4
    <3> HIDE DEF F, E
    <3>2. /\ result'.status = "succeeded" /\ result'.code = None
          /\ result'.findings = F /\ result'.evidence = E
      BY <3>1 DEF Result
    <3>3. OfOnePiece'
      BY <2>3, <3>2 DEF OfOnePiece
    <3>4. DnsKeepsWhatItLearns'
      BY <2>1, <2>3, <3>2 DEF DnsKeepsWhatItLearns, What
    <3>5. QED
      BY <2>1, <3>3, <3>4 DEF ResultContract, StopIsTold, ScanIsWhole, Scans
  <2>5. CASE status \notin Conclusive
    <3>1. status \in Codes
      BY <2>5 DEF DnsStatuses, Codes
    <3>2. result'.status = "failed" /\ result'.code # None /\ result'.findings = {}
      BY <2>2, <2>5, <3>1, ModulesAssumption DEF Result
    <3>3. /\ Range(statuses') \cap Conclusive = {}
          /\ {i \in DOMAIN statuses' : statuses'[i] = "ok"} = {}
      BY <2>2, <2>5 DEF Range, Conclusive
    <3>4. What' = {}
      BY <3>2 DEF What
    <3>5. QED
      BY <2>1, <3>2, <3>3, <3>4 DEF ResultContract, OfOnePiece, StopIsTold,
         DnsKeepsWhatItLearns, ScanIsWhole
  <2>6. QED
    BY <2>4, <2>5
<1>4. WalkInv'
  BY WalkIsOthers DEF RunsInv, ReverseDns, In, run, http
<1>5. LookupInv'
  BY LookupIsOthers DEF RunsInv, ReverseDns, In, store, run, Providers
<1>6. QED
  BY <1>1, <1>2, <1>3, <1>4, <1>5 DEF RunsInv

(* The modules that ask nobody. *)
LEMMA AssetHintsKeeps ==
    ASSUME RunsInv, AssetHints
    PROVE  RunsInv'
<1>1. TypeOK'
  BY DEF RunsInv, TypeOK, AssetHints, store, run, nmap, web, http, lookup, Return,
     Result, Statuses
<1>2. PlaceInv'
  BY DEF RunsInv, PlaceInv, AssetHints, In, nmap, Return
<1>3. ResultContract'
  BY DEF RunsInv, PlaceInv, AssetHints, Finding, In, run, Return, Result, Lookups,
     Local, ResultContract, OfOnePiece, StopIsTold, DnsKeepsWhatItLearns, ScanIsWhole
<1>4. WalkInv'
  BY WalkIsOthers DEF RunsInv, AssetHints, In, run, web, http
<1>5. LookupInv'
  BY LookupIsOthers DEF RunsInv, AssetHints, In, store, run, Providers
<1>6. QED
  BY <1>1, <1>2, <1>3, <1>4, <1>5 DEF RunsInv

LEMMA SocialFootprintKeeps ==
    ASSUME RunsInv, SocialFootprint
    PROVE  RunsInv'
<1>1. TypeOK'
  BY DEF RunsInv, TypeOK, SocialFootprint, store, run, nmap, web, http, lookup,
     Return, Result, Statuses
<1>2. PlaceInv'
  BY DEF RunsInv, PlaceInv, SocialFootprint, In, nmap, Return
<1>3. ResultContract'
  <2>1. module' = module /\ module = "social_footprint"
    BY DEF SocialFootprint, In, run
  <2>2. PICK terms \in SUBSET (Subjects \cup {Target}), links \in SUBSET Links :
          Return(Result("succeeded", None,
                        {Finding(s, "social_queries.json") : s \in Searches(terms)}
                          \cup {Finding(<<l>>, None) : l \in links},
                        {Blob("social_queries.json", Searches(terms))}))
    BY DEF SocialFootprint
  <2>. DEFINE F == {Finding(s, "social_queries.json") : s \in Searches(terms)}
                     \cup {Finding(<<l>>, None) : l \in links}
              E == {Blob("social_queries.json", Searches(terms))}
  <2>3. \A f \in F : (\E b \in E : b.name = f.evidence) \/ f.evidence = None
    BY DEF Finding, Blob
  <2>4. Return(Result("succeeded", None, F, E))
    BY <2>2
  <2> HIDE DEF F, E
  <2>5. QED
    BY <2>1, <2>3, <2>4, SuccessKept DEF Scans, Lookups, Local
<1>4. WalkInv'
  BY WalkIsOthers DEF RunsInv, SocialFootprint, In, run, web, http
<1>5. LookupInv'
  BY LookupIsOthers DEF RunsInv, SocialFootprint, In, store, run, Providers
<1>6. QED
  BY <1>1, <1>2, <1>3, <1>4, <1>5 DEF RunsInv

LEMMA BeginKeeps ==
    ASSUME RunsInv, NEW m \in Modules, Begin(m)
    PROVE  RunsInv'
<1>1. TypeOK'
  <2>1. Cardinality(Ports) \in Nat
    BY ModulesAssumption, FS_CardinalityType
  <2>2. /\ runs' \in 0..MaxRuns /\ started' \in 0..clock' /\ clock' \in 0..MaxTime
        /\ printed' \in 0..(Cardinality(Ports) + 2) /\ tries' \in Nat
    BY <2>1, ModulesAssumption DEF RunsInv, TypeOK, Begin, store
  <2>3. /\ module' \in Modules
        /\ stage' \in {"checking", "lookup", "asking"}
        /\ found' = {} /\ alive' = FALSE /\ stop' = None /\ url' \in AllHosts
        /\ result' = None
    BY ModulesAssumption DEF Begin, FirstHosts
  <2>4. hops' \in Seq(AllHosts) /\ statuses' \in Seq(DnsStatuses)
    BY DEF Begin
  <2>5. cache' = cache /\ answered' = answered
    BY DEF Begin, store
  <2>6. QED
    BY <2>2, <2>3, <2>4, <2>5 DEF RunsInv, TypeOK
<1>2. PlaceInv'
  <2>1. /\ module' = m /\ alive' = FALSE /\ m \in Modules
        /\ m \in Scans => stage' = "checking"
        /\ m \in Providers => stage' = "lookup"
        /\ m \notin Scans \cup Providers => stage' = "asking"
    BY DEF Begin, Scans, Providers
  <2>2. m \notin Scans \/ m \notin Providers
    BY DEF Scans, Providers
  <2>3. QED
    BY <2>1, <2>2 DEF PlaceInv
<1>3. stage' # "done" /\ ResultContract'
  BY DEF Begin, ResultContract, Done
<1>4. WalkInv'
  BY <1>3, ModulesAssumption DEF Begin, WalkInv, WalkStaysInScope, Succeeded, Done
<1>5. LookupInv'
  BY DEF RunsInv, Begin, store, LookupInv, Remembered, RequestsWithinBudget,
     AnswersAreFresh
<1>6. QED
  BY <1>1, <1>2, <1>3, <1>4, <1>5 DEF RunsInv

LEMMA RaisesKeeps ==
    ASSUME RunsInv, Raises
    PROVE  RunsInv'
<1>1. /\ stage' = "done" /\ result' = Failed("module_error") /\ alive' = FALSE
      /\ UNCHANGED <<clock, cache, answered, runs, module, started, found, printed, stop,
                     url, hops, tries, answer, statuses>>
  BY DEF Raises, Return, store, run, web, http, lookup
<1>2. /\ result'.status = "failed" /\ result'.code = "module_error" /\ result'.findings = {}
      /\ "module_error" # None
  BY <1>1, ModulesAssumption DEF Failed, Result, Codes
<1>3. TypeOK'
  BY <1>1, <1>2 DEF RunsInv, TypeOK, Statuses
<1>4. PlaceInv'
  BY <1>1 DEF PlaceInv
<1>5. ResultContract'
  BY <1>2 DEF ResultContract, OfOnePiece, StopIsTold, DnsKeepsWhatItLearns, ScanIsWhole
<1>6. WalkInv'
  BY <1>1, <1>2 DEF RunsInv, WalkInv, WalkStaysInScope, Succeeded, In
<1>7. LookupInv'
  BY <1>1, <1>2 DEF RunsInv, LookupInv, Remembered, RequestsWithinBudget,
     AnswersAreFresh, Succeeded
<1>8. QED
  BY <1>3, <1>4, <1>5, <1>6, <1>7 DEF RunsInv

LEMMA TickKeeps ==
    ASSUME RunsInv, Tick
    PROVE  RunsInv'
<1>1. /\ clock' = clock + 1 /\ clock \in Nat /\ clock < MaxTime
      /\ UNCHANGED <<cache, answered, runs, module, started, stage, found, printed, alive,
                     stop, url, hops, tries, answer, statuses, result>>
  BY DEF RunsInv, TypeOK, Tick, run, nmap, web, http, lookup
<1>2. TypeOK'
  BY <1>1, ModulesAssumption DEF RunsInv, TypeOK
<1>3. PlaceInv' /\ ResultContract'
  BY <1>1 DEF RunsInv, PlaceInv, ResultContract, Done, OfOnePiece, StopIsTold,
     DnsKeepsWhatItLearns, ScanIsWhole, What
<1>4. WalkInv'
  BY <1>1 DEF RunsInv, WalkInv, WalkStaysInScope, Succeeded, Done, In, What
<1>5. LookupInv'
  <2>1. \A m \in Providers : answered[m] \in Nat \cup {None}
    BY ModulesAssumption DEF RunsInv, TypeOK
  <2>2. \A m \in Providers : Remembered(m)'
    BY <1>1, <2>1, ModulesAssumption DEF RunsInv, LookupInv, Remembered
  <2>3. module \in Providers => RequestsWithinBudget' /\ AnswersAreFresh'
    BY <1>1, <2>1, ModulesAssumption DEF RunsInv, LookupInv, RequestsWithinBudget,
       AnswersAreFresh, Succeeded, Done
  <2>4. QED
    BY <1>1, <2>1, <2>2, <2>3, ModulesAssumption DEF RunsInv, LookupInv
<1>6. QED
  BY <1>2, <1>3, <1>4, <1>5 DEF RunsInv

LEMMA StutterKeeps == RunsInv /\ UNCHANGED runVars => RunsInv'
<1> SUFFICES ASSUME RunsInv, UNCHANGED runVars PROVE RunsInv'
  OBVIOUS
<1> USE DEF runVars, store, run, nmap, web, http, lookup
<1>1. TypeOK' /\ PlaceInv'
  BY DEF RunsInv, TypeOK, PlaceInv
<1>2. ResultContract'
  BY DEF RunsInv, ResultContract, Done, OfOnePiece, StopIsTold, DnsKeepsWhatItLearns,
     ScanIsWhole, What
<1>3. WalkInv'
  BY DEF RunsInv, WalkInv, WalkStaysInScope, Succeeded, Done, In, What
<1>4. LookupInv'
  BY DEF RunsInv, LookupInv, Remembered, RequestsWithinBudget, AnswersAreFresh,
     Succeeded, Done
<1>5. QED
  BY <1>1, <1>2, <1>3, <1>4 DEF RunsInv
--------------------------------------------------------------------------------
LEMMA NextKeepsRuns == RunsInv /\ [RunsNext]_runVars => RunsInv'
<1> SUFFICES ASSUME RunsInv, RunsNext PROVE RunsInv'
  BY StutterKeeps
<1>1. CASE Step
  BY <1>1, ScanRefusedKeeps, LaunchKeeps, ParseKeeps, SeeExitKeeps, StopNmapKeeps,
     ReceivesKeeps, HttpFailsKeeps, HttpAnswersKeeps, HttpBlockedKeeps, HttpFollowKeeps,
     TlsUnavailableKeeps, TlsReportKeeps, CacheHitKeeps, CacheMissKeeps,
     ProviderAnswersKeeps, ProviderRefusesKeeps, ProviderFailsKeeps, ReportKeeps,
     UnreadableKeeps, DnsUnavailableKeeps, DnsQueryKeeps, DnsReportKeeps,
     ReverseDnsKeeps, AssetHintsKeeps, SocialFootprintKeeps DEF Step, ResponseEnds
<1>2. QED
  BY <1>1, BeginKeeps, NmapWritesKeeps, NmapEndsKeeps, StopNmapKeeps, RaisesKeeps,
     TickKeeps DEF RunsNext

(* The invariant of a module's run and of the provider cache holds in every *)
(* reachable state, for any instance of the constants.                      *)
THEOREM RunsInductive == RunsSpec => []RunsInv
BY StartRuns, NextKeepsRuns, PTL DEF RunsSpec

(* Type correctness: whatever a run did, clock, cache and result keep their *)
(* types for the next one.                                                  *)
THEOREM RunsTypeCorrect == RunsSpec => []TypeOK
<1>1. RunsInv => TypeOK
  BY DEF RunsInv
<1>2. QED
  BY <1>1, RunsInductive, PTL

(* What the module returns to the job runners is of one piece and says what *)
(* the tool and the queries behind it did, for any ports, limits and number *)
(* of queries.                                                              *)
THEOREM ResultsKeepTheContract == RunsSpec => []ResultContract
<1>1. RunsInv => ResultContract
  BY DEF RunsInv
<1>2. QED
  BY <1>1, RunsInductive, PTL

(* http_overview asks no host out of scope after its first request, and     *)
(* makes no more than MaxRedirects + 1, whatever the servers answer.        *)
THEOREM RedirectsStayInScope == RunsSpec => []WalkStaysInScope
<1>1. RunsInv => WalkStaysInScope
  BY DEF RunsInv, WalkInv
<1>2. QED
  BY <1>1, RunsInductive, PTL

(* No provider module reads a document that was as old as the cache's life  *)
(* when its run began.                                                      *)
THEOREM NoAnswerIsStale == RunsSpec => []AnswersAreFresh
<1>1. RunsInv => AnswersAreFresh
  BY DEF RunsInv, LookupInv, AnswersAreFresh
<1>2. QED
  BY <1>1, RunsInductive, PTL

(* No provider is asked more than MaxRetries + 1 times in a run, nor at all *)
(* while its last document is younger than Ttl.                             *)
THEOREM BudgetOfRequests == RunsSpec => []RequestsWithinBudget
<1>1. RunsInv => RequestsWithinBudget
  BY DEF RunsInv, LookupInv, RequestsWithinBudget
<1>2. QED
  BY <1>1, RunsInductive, PTL
================================================================================
