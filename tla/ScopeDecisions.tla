---------------------------- MODULE ScopeDecisions ----------------------------
(***************************************************************************)
(* The scope rules in use: a user writes scope entries, of which the valid *)
(* ones are enabled, then asks about a target, and asks again with other   *)
(* notations of the same host.                                             *)
(***************************************************************************)
EXTENDS ScopeRules

CONSTANTS
    Notations,   \* what users write
    MaxEntries,  \* bound: enabled entries
    Nothing      \* no target asked about yet

Literals ==
    [form : {"dotted"}, labels : Seq(DOMAIN Fold), dots : Nat]
      \cup [form : {"colons"}, number : 0..(2^Bits6 - 1), zone : BOOLEAN]

Hosts == Literals \cup [form : {"brackets"}, inside : Literals]

ASSUME NotationsAssumption ==
    Notations \subseteq Hosts \cup [form : {"wildcard"}, base : Hosts]
                              \cup [form : {"range"}, base : Hosts, prefix : Nat]

VARIABLES
    written,  \* the enabled entries, as they were written
    asked     \* the target, as it was written, and its type

vars == <<written, asked>>

Types == {"hostname", "ip"}

ASSUME NothingAssumption == Nothing \notin [raw : Notations, type : Types]

Init ==
    /\ written = <<>>
    /\ asked = Nothing

(* An entry that has a canonical form is stored. *)
Enable(raw) ==
    /\ asked = Nothing
    /\ Len(written) < MaxEntries
    /\ CanonicalEntry(raw) # Invalid
    /\ written' = Append(written, raw)
    /\ UNCHANGED asked

Ask(raw, type) ==
    /\ asked = Nothing
    /\ asked' = [raw |-> raw, type |-> type]
    /\ UNCHANGED written

(* The same host and type, written in another way. *)
Respell(raw) ==
    /\ asked # Nothing
    /\ SameHost(asked.raw, raw)
    /\ asked' = [asked EXCEPT !.raw = raw]
    /\ UNCHANGED written

Next ==
    \/ \E raw \in Notations : Enable(raw) \/ Respell(raw)
    \/ \E raw \in Notations, type \in Types : Ask(raw, type)

Spec == Init /\ [][Next]_vars
--------------------------------------------------------------------------------
(* The rows: _enabled_canonical_entries. *)
Enabled == [i \in DOMAIN written |-> CanonicalEntry(written[i])]

Decision == Evaluate(asked.raw, asked.type, Enabled)

(* A target is allowed exactly if it is a valid one and some entry stands   *)
(* for it: no look-alike, no apex of a wildcard, no address of the other    *)
(* family or next to a range.                                               *)
DecisionsFollowMeaning ==
    asked # Nothing =>
        LET host == CanonicalTarget(asked.raw, asked.type)
        IN  Decision = "in_scope" <=>
                /\ host # Invalid
                /\ \E i \in DOMAIN written : Denotes(written[i], asked.type, host.value)

(* Notations of one host are decided alike, unless one is no valid target   *)
(* at all.                                                                  *)
NotationsCollapse ==
    [][asked # Nothing /\ "invalid_target" \notin {Decision, Decision'} =>
           Decision' = Decision]_vars

AllowedAddresses ==
    {CanonicalIp(raw) : raw \in {raw \in Notations : Allows(raw, "ip", Enabled)}}

Widest(raw) ==
    LET version == Literal(raw.base).version
    IN  IF raw.form = "range" THEN 2^(Width(version) - MinPrefix(version)) ELSE 1

(* The entries together allow no more addresses than each of them may, to   *)
(* be added up: a range at the floor of its family, or one.                 *)
BreadthIsBounded ==
    asked = Nothing /\ written # <<>> =>
        Cardinality(AllowedAddresses)
          <= Cardinality(UNION {{i} \X (1..Widest(written[i])) : i \in DOMAIN written})
===============================================================================
