------------------------------ MODULE MCWorkbench ------------------------------
(***************************************************************************)
(* Four components which share no state: scope entries, the commands of    *)
(* scans, the runs of modules and the worksheet.  A behaviour is of one of *)
(* them; the run checks all.                                               *)
(*                                                                         *)
(* ScopeDecisions has quads of two octets of two bits and IPv6 addresses   *)
(* of six bits, of which 01.... are IPv4-mapped; ScanCommands three ports. *)
(***************************************************************************)
EXTENDS ScopeDecisions, ScanCommands, Worksheets, ModuleRuns

CONSTANTS q1, q2, q3

VARIABLE part

parts == <<vars, commandVars, sheetVars, runVars, part>>

BenchInit ==
    /\ part \in {"scope", "commands", "worksheet", "runs"}
    /\ Init /\ CommandsInit /\ WorksheetsInit /\ RunsInit

BenchNext ==
    \/ /\ part = "scope" /\ Next
       /\ UNCHANGED <<commandVars, sheetVars, runVars, part>>
    \/ /\ part = "commands" /\ CommandsNext
       /\ UNCHANGED <<vars, sheetVars, runVars, part>>
    \/ /\ part = "worksheet" /\ WorksheetsNext
       /\ UNCHANGED <<vars, commandVars, runVars, part>>
    \/ /\ part = "runs" /\ RunsNext
       /\ UNCHANGED <<vars, commandVars, sheetVars, part>>

(* ModuleRuns' fairness: it asks nothing before a run begins. *)
BenchSpec ==
    BenchInit /\ [][BenchNext]_parts /\ WF_runVars(Step) /\ SF_runVars(ResponseEnds)

MCFold == [s \in {"a", "A", "b", "1", "2", "01", "?"} |->
    CASE s = "A" -> "a" [] s = "?" -> Invalid [] OTHER -> s]

MCOctet == [s \in {"1", "2"} |-> IF s = "1" THEN 1 ELSE 2]

Quad12 == Dotted(<<"1", "2">>, 0)
Mapped12 == Colons(16 + 6)

Names ==
    {Dotted(<<k>>, 0) : k \in {"a", "1"}}
      \cup {Dotted(<<k, l>>, dots) : k \in {"a", "A", "b", "1"}, l \in {"a", "A", "1"}, dots \in 0..2}
      \cup {Dotted(<<k, l, m>>, 0) : k \in {"a", "b"}, l \in {"a", "A", "b"}, m \in {"a", "b"}}
      \cup {Dotted(<<"?", "a">>, 0), Dotted(<<"01", "2">>, 0)}

MCNotations ==
    Names
      \cup {Dotted(<<k, l>>, 0) : k, l \in {"1", "2"}}
      \cup {Colons(n) : n \in 0..31} \cup {[Colons(22) EXCEPT !.zone = TRUE]}
      \cup {Brackets(raw) : raw \in {Colons(5), Mapped12, Quad12, Dotted(<<"a", "b">>, 0)}}
      \cup {Wildcard(raw) : raw \in Names}
      \cup {Slash(raw, prefix) : raw \in {Quad12, Colons(5), Mapped12, Brackets(Colons(5)), Dotted(<<"a", "b">>, 0)},
                                 prefix \in 0..7}

MCTopPorts == [preset \in {"quick", "standard", "thorough"} |->
    CASE preset = "quick" -> {2} [] preset = "standard" -> {2, 3} [] OTHER -> 1..3]

MCShift == [p \in AllPorts |-> IF p = 1 THEN 2 ELSE 4]

(* Pieces in binary: nothing, junk, 0, the ports, one beyond them, "1 1". *)
Numeral(n, shift) == [number |-> n, shift |-> shift]
PortPieces ==
    {<<>>, <<Numeral(0, 0)>>, <<Numeral(0, 2)>>, <<Numeral(4, 8)>>,
     <<Numeral(1, 2), Numeral(1, 2)>>} \cup {<<Word(p)>> : p \in AllPorts}

Segments == {<<p>> : p \in PortPieces} \cup {<<p, q>> : p, q \in PortPieces}
              \cup {<<<<Word(1)>>, <<Word(2)>>, <<Word(3)>>>>}

(* Of two segments, the second is one of a few. *)
MCSpecs == {<<s>> : s \in Segments}
             \cup {<<s, t>> : s \in Segments, t \in {<<<<>>>>, <<<<Word(2)>>, <<Word(3)>>>>}}

(* A path of one word, and one as on Windows. *)
MCPaths == {<<"nmap">>, <<"C:/Program", "Files", "(x86)/Nmap/nmap.exe">>}

MCBody == [q \in Puts |-> [f \in Fields |->
    CASE q = q1 -> "a" [] q = q2 -> IF f = "title" THEN "b" ELSE "a" [] OTHER ->
         IF f = "title" THEN Null ELSE "b"]]
================================================================================
