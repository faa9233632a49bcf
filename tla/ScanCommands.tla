------------------------------ MODULE ScanCommands ------------------------------
(***************************************************************************)
(* How a scan comes about: the project's findings recommend steps          *)
(* (reporting/recommendations), a step or the user fills in a form, the    *)
(* module reads its ports (modules/active/ports) and puts nmap's arguments *)
(* together, nmap's answer becomes findings, and the recorded command is   *)
(* explained word by word (reporting/argv_explain).  The record is taken   *)
(* to fit into the evidence budget.                                        *)
(***************************************************************************)
EXTENDS Naturals, Sequences, FiniteSets, SequencesExt

CONSTANTS
    MaxPort,              \* 65535
    HttpPort, HttpsPort,  \* 80, 443
    Shift,                \* Shift[p]: the least power of ten above port p
    Paths,                \* nmap's path, as the words between its blanks
    TopPorts,             \* ports[preset]: what nmap takes for the most common
    Specs,                \* what is written into a form's port field
    Absent                \* no form, no scan, nothing shown

VARIABLES
    types,    \* the types of findings there are besides tcp_port
    seen,     \* seen[p]: the state in the finding of port p
    form,     \* the module form that is open
    scan,     \* the last scan: its form, its ports, nmap's path then
    shown     \* the explanation of its command

commandVars == <<types, seen, form, scan, shown>>

AllPorts == 1..MaxPort

(* A text has segments, a segment pieces, a piece words; see ParsePortSpec. *)
Words == [number : Nat, shift : Nat]
PortTexts == Seq(Seq(Seq(Words)) \ {<<>>})

(* explain_argv's _NMAP_FLAGS *)
NmapFlags ==
    {"-sT", "-sV", "-Pn", "-O", "-sn", "-oX", "--version-light", "--top-ports",
     "--max-rate", "-p", "-p-"}

(* No directory has the name of a flag with blanks around it. *)
ASSUME CommandsAssumption ==
    /\ MaxPort \in Nat
    /\ Shift \in [AllPorts -> Nat \ {0}]
    /\ \A path \in Paths : /\ path \in Seq(STRING) \ {<<>>}
                           /\ \A i \in DOMAIN path : path[i] \notin NmapFlags
    /\ Specs \subseteq PortTexts \ {<<>>}
    /\ Absent \notin Seq(AllPorts)

CommandsInit ==
    /\ types = {}
    /\ seen = [p \in AllPorts |-> "unseen"]
    /\ form = Absent
    /\ scan = Absent
    /\ shown = Absent
--------------------------------------------------------------------------------
(* parse_port_spec.  A specification is the sequence of its segments, split *)
(* at commas; a segment that of its pieces, split at hyphens; a piece that  *)
(* of its words, split at blanks.  A word is a number, with the power of    *)
(* ten that has one digit more, or if anything else is in it the shift 0.   *)

(* replace(" ", ""): the words of a piece are read as one number. *)
Number(piece) ==
    LET upto[i \in DOMAIN piece] ==
            IF i = 1 THEN piece[1].number
                     ELSE upto[i - 1] * piece[i].shift + piece[i].number
    IN  upto[Len(piece)]

IsNumber(piece) == piece # <<>> /\ \A i \in DOMAIN piece : piece[i].shift > 0

Refused(segment) ==
    \/ Len(segment) > 2
    \/ \E i \in DOMAIN segment : ~IsNumber(segment[i]) \/ Number(segment[i]) \notin AllPorts
    \/ Number(segment[1]) > Number(Last(segment))

(* Broken variant: the end of a range is left out, as range() does. *)
PortsBefore(segment) ==
    IF Len(segment) = 1 THEN {Number(segment[1])}
                        ELSE Number(segment[1])..(Number(segment[2]) - 1)

PortsOf(segment) == Number(segment[1])..Number(Last(segment))

(* The ports of a set, each at the place that counts those up to it. *)
Ascending(ports) ==
    [i \in 1..Cardinality(ports) |->
        CHOOSE p \in ports : Cardinality({q \in ports : q <= p}) = i]

(* The ports in ascending order, or a PortSpecError. *)
ParsePortSpec(spec) ==
    IF \E i \in DOMAIN spec : Refused(spec[i])
    THEN Absent
    ELSE Ascending(UNION {PortsOf(spec[i]) : i \in DOMAIN spec})
--------------------------------------------------------------------------------
(* recommend_next_steps: the forms that the recommended steps open; what it *)
(* says besides is text.                                                   *)

OpenPorts == {p \in AllPorts : seen[p] = "open"}

Word(port) == [number |-> port, shift |-> Shift[port]]

(* ",".join of the ports *)
Joined(ports) == [i \in DOMAIN Ascending(ports) |-> <<<<Word(Ascending(ports)[i])>>>>]

Form(module, preset, spec) ==
    [module |-> module, preset |-> preset, spec |-> spec, step |-> FALSE, open |-> {}]

StepsIf(condition, steps) == IF condition THEN steps ELSE {}

NextSteps ==
    IF types = {} /\ \A p \in AllPorts : seen[p] = "unseen"
    THEN {Form("passive.rdap", "", <<>>)}
    ELSE StepsIf(HttpPort \in OpenPorts, {Form("active.http_overview", "http", <<>>)})
           \cup StepsIf(HttpsPort \in OpenPorts,
                   {Form(module, "https", <<>>) :
                       module \in {"active.tls_review", "active.http_overview"}})
           \cup StepsIf(OpenPorts # {} /\ "service" \notin types,
                   {Form("active.service_detection", "", Joined(OpenPorts))})

OpenStep ==
    /\ \E step \in NextSteps : form' = [step EXCEPT !.step = TRUE, !.open = OpenPorts]
    /\ UNCHANGED <<types, seen, scan, shown>>

Presets == {"quick", "standard", "thorough", "custom"}

(* Bound: the user's own form is the first; steps follow it. *)
FillIn ==
    /\ scan = Absent
    /\ \/ \E preset \in Presets \ {"custom"} : form' = Form("active.tcp_scan", preset, <<>>)
       \/ \E spec \in Specs : \/ form' = Form("active.tcp_scan", "custom", spec)
                              \/ form' = Form("active.service_detection", "", spec)
    /\ UNCHANGED <<types, seen, scan, shown>>
--------------------------------------------------------------------------------
(* The arguments behind nmap's path, each with what it is, and whose it is: *)
(* fixed, or the user's; the recorded text keeps the words only.            *)

Argument(word, kind, whose) == [word |-> word, kind |-> kind, whose |-> whose]
Flag(word) == Argument(word, "flag", "tool")
Fixed(word) == Argument(word, "value", "tool")
Chosen(word) == Argument(word, "value", "user")

PortArguments(preset) ==
    CASE preset = "quick"    -> <<Flag("--top-ports"), Chosen("100")>>
      [] preset = "standard" -> <<Flag("--top-ports"), Chosen("1000")>>
      [] preset = "thorough" -> <<Flag("-p-")>>
      [] preset = "custom"   -> <<Flag("-p"), Chosen("ports")>>

MaxRate(preset) ==
    CASE preset = "quick" -> "100" [] preset = "thorough" -> "200" [] OTHER -> "150"

TcpScanArguments(preset) ==
    <<Flag("-sT"), Flag("-Pn"), Flag("--max-rate"), Fixed(MaxRate(preset))>>
      \o PortArguments(preset)
      \o <<Flag("-oX"), Fixed("-"), Argument("target", "target", "user")>>

(* The recorded text split at blanks: a path with blanks is several words. *)
Recorded(path, argv) == path \o [i \in DOMAIN argv |-> argv[i].word]

(* explain_argv *)

(* Broken variant: -p is not known to take a value. *)
ValueFlagsButPorts == {"-oX", "--top-ports", "--max-rate"}

ValueFlags == {"-oX", "--top-ports", "--max-rate", "-p"}

UserFlags == {"-p", "--top-ports"}

(* What each word is: the value of a flag that takes one and comes before   *)
(* it, or else a flag, or the target.                                       *)
Kinds(words) ==
    LET kind[i \in DOMAIN words] ==
            IF i = 1 THEN "executable"
            ELSE IF kind[i - 1] = "flag" /\ words[i - 1] \in ValueFlags THEN "value"
            ELSE IF i = Len(words) /\ words[i] \notin NmapFlags THEN "target"
            ELSE "flag"
    IN  kind

ExplainArgv(words) ==
    LET kinds == Kinds(words)
        Whose(i) == IF \/ kinds[i] = "target"
                       \/ kinds[i] = "value" /\ words[i - 1] \in UserFlags
                    THEN "user" ELSE "tool"
    IN  [i \in DOMAIN words |-> Argument(words[i], kinds[i], Whose(i))]
--------------------------------------------------------------------------------
(* The module of the form runs: a scan reads its ports, or the preset has   *)
(* them; the other modules have no ports.                                  *)

PortsAsked(f) ==
    IF f.preset \in Presets \ {"custom"} THEN Ascending(TopPorts[f.preset])
                                         ELSE ParsePortSpec(f.spec)

RunForm ==
    /\ form # Absent
    /\ form.module \in {"active.tcp_scan", "active.service_detection"}
    /\ \E path \in Paths :
          scan' = [form |-> form, ports |-> PortsAsked(form), path |-> path]
    /\ form' = Absent
    /\ shown' = Absent
    /\ UNCHANGED <<types, seen>>

(* Some of the ports are reported, others left out as nmap sees fit. *)
ScanAnswers ==
    /\ scan # Absent /\ scan.form.module = "active.tcp_scan" /\ scan.ports # Absent
    /\ \E reported \in SUBSET Range(scan.ports) :
          \E state \in [reported -> {"open", "closed"}] :
             seen' = [p \in AllPorts |-> IF p \in reported THEN state[p] ELSE seen[p]]
    /\ UNCHANGED <<types, form, scan, shown>>

(* A service is named, or a module without ports finds something. *)
OtherFindings(type) ==
    /\ type = "service" => /\ scan # Absent /\ scan.ports # Absent
                           /\ scan.form.module = "active.service_detection"
    /\ types' = types \cup {type}
    /\ UNCHANGED <<seen, form, scan, shown>>

(* GET .../command: the evidence of a TCP scan is read, split and explained. *)
JobCommand ==
    /\ scan # Absent /\ scan.form.module = "active.tcp_scan" /\ scan.ports # Absent
    /\ shown' = ExplainArgv(Recorded(scan.path, TcpScanArguments(scan.form.preset)))
    /\ UNCHANGED <<types, seen, form, scan>>

CommandsNext ==
    \/ OpenStep \/ FillIn \/ RunForm \/ ScanAnswers \/ JobCommand
    \/ \E type \in {"service", "other"} : OtherFindings(type)

CommandsSpec == CommandsInit /\ [][CommandsNext]_commandVars
--------------------------------------------------------------------------------
(* What a segment means to who writes it: a port, or two with those between, *)
(* each of them one number.                                                 *)
Means(segment, p) ==
    LET n == Len(segment)
    IN  /\ n \in 1..2
        /\ \A i \in 1..n : /\ Len(segment[i]) = 1
                           /\ segment[i][1].shift > 0
                           /\ segment[i][1].number \in AllPorts
        /\ segment[1][1].number <= p /\ p <= segment[n][1].number

(* Somewhere in the text there are blanks between two words of a piece. *)
Spaced(spec) == \E i \in DOMAIN spec : \E j \in DOMAIN spec[i] : Len(spec[i][j]) > 1

(* "A custom port list is data": if no blanks part its numbers, nmap is     *)
(* asked for just the ports that the field means, or the form is refused,   *)
(* if a segment means none; whatever the text, for ports only, each once    *)
(* and in order; and a recommended form is never refused: it asks for the   *)
(* ports that were open when the step was chosen, through the joining, the  *)
(* form and the parsing, whatever is found meanwhile.                       *)
PortsAreAsMeant ==
    scan # Absent /\ scan.form.preset \in {"", "custom"} =>
        LET spec == scan.form.spec
            meant == {p \in AllPorts : \E i \in DOMAIN spec : Means(spec[i], p)}
        IN  /\ ~Spaced(spec) =>
                  /\ scan.ports # Absent <=>
                        \A i \in DOMAIN spec : \E p \in AllPorts : Means(spec[i], p)
                  /\ scan.ports # Absent => Range(scan.ports) = meant
            /\ scan.ports # Absent =>
                  /\ Range(scan.ports) \subseteq AllPorts
                  /\ \A i, j \in DOMAIN scan.ports : i < j => scan.ports[i] < scan.ports[j]
            /\ scan.form.step => scan.ports # Absent /\ Range(scan.ports) = scan.form.open

(* ports.py: "Any other character (a space, ...) is rejected".  Violated:   *)
(* blanks are deleted first, and the numbers on both sides become one.      *)
BlanksAreRejected ==
    scan # Absent /\ scan.form.preset \in {"", "custom"} /\ Spaced(scan.form.spec) =>
        scan.ports = Absent

(* "Explain every argument": from the words of the recorded command alone,  *)
(* each argument is given back its part, wherever nmap's path ends: the     *)
(* flags with the values that they take, which of them is the user's, and   *)
(* the target.  The path's first word is the executable, and none of the    *)
(* others passes for a value, for the target or for the user's.             *)
CommandsAreExplained ==
    shown # Absent =>
        LET arguments == TcpScanArguments(scan.form.preset)
            n == Len(scan.path)
        IN  /\ Len(shown) = n + Len(arguments)
            /\ \A i \in DOMAIN arguments : shown[n + i] = arguments[i]
            /\ shown[1] = Argument(scan.path[1], "executable", "tool")
            /\ \A i \in 2..n : shown[i].kind = "flag" /\ shown[i].whose = "tool"
================================================================================
