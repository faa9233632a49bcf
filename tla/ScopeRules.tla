------------------------------ MODULE ScopeRules ------------------------------
(***************************************************************************)
(* scope/canonical.py and scope/service.py: how what a user wrote becomes  *)
(* a canonical scope entry or target, and whether entries allow a target.  *)
(*                                                                         *)
(* A notation is a record, by the characters that decide its treatment:    *)
(*   [form |-> "dotted", labels, dots]   labels, and trailing dots         *)
(*   [form |-> "colons", number, zone]   an IPv6 literal, with a %zone?    *)
(*   [form |-> "brackets", inside]       [...]                             *)
(*   [form |-> "wildcard", base]         *....                             *)
(*   [form |-> "range", base, prefix]    .../prefix                        *)
(* A label is spelled in many ways (case, IDNA); characters that no label  *)
(* has (URLs, ports, control characters) make an Invalid spelling.  An     *)
(* IPv4 literal is a dotted notation whose labels are plain octets.        *)
(***************************************************************************)
EXTENDS Naturals, Sequences, FiniteSets, SequencesExt

CONSTANTS
    Fold,       \* Fold[s]: the ASCII label that spelling s maps to, or Invalid
    Octet,      \* Octet[s]: the number that s writes in a dotted quad
    OctetBits,  \* bits of an octet (8)
    Octets,     \* labels of a dotted quad (4)
    Bits6,      \* bits of an IPv6 address (128)
    MappedTop,  \* the leading bits of IPv4-mapped addresses (::ffff:0:0/96)
    MinPrefix4, \* MIN_IPV4_PREFIX
    MinPrefix6, \* MIN_IPV6_PREFIX
    Invalid     \* CanonicalizationError

Dotted(labels, dots) == [form |-> "dotted", labels |-> labels, dots |-> dots]
Colons(number) == [form |-> "colons", number |-> number, zone |-> FALSE]
Brackets(raw) == [form |-> "brackets", inside |-> raw]
Wildcard(raw) == [form |-> "wildcard", base |-> raw]
Slash(raw, prefix) == [form |-> "range", base |-> raw, prefix |-> prefix]

Bits4 == Octets * OctetBits

(* An octet fits into its bits and is a label that folds to itself. *)
ASSUME RulesAssumption ==
    /\ OctetBits \in Nat /\ Octets \in Nat /\ Bits6 \in Nat /\ MappedTop \in Nat
    /\ MinPrefix4 \in 0..Bits4 /\ MinPrefix6 \in 0..Bits6
    /\ \A s \in DOMAIN Octet : Octet[s] \in 0..(2^OctetBits - 1) /\ Fold[s] = s

Width(version) == IF version = 4 THEN Bits4 ELSE Bits6
MinPrefix(version) == IF version = 4 THEN MinPrefix4 ELSE MinPrefix6

(* The labels, folded; at least two, all valid, one trailing dot at most. *)
CanonicalDomain(raw) ==
    LET labels == [i \in DOMAIN raw.labels |-> Fold[raw.labels[i]]]
    IN  IF /\ raw.form = "dotted"
           /\ raw.dots <= 1
           /\ Len(raw.labels) >= 2
           /\ \A i \in DOMAIN labels : labels[i] # Invalid
        THEN labels
        ELSE Invalid

(* The number that a dotted quad writes. *)
QuadValue(labels) ==
    LET value[n \in 0..Octets] ==
            IF n = 0 THEN 0 ELSE value[n - 1] * (2^OctetBits) + Octet[labels[n]]
    IN  value[Octets]

(* ipaddress.ip_address: the strict parser. *)
Literal(raw) ==
    CASE /\ raw.form = "dotted"
         /\ raw.dots = 0
         /\ Len(raw.labels) = Octets
         /\ \A i \in 1..Octets : raw.labels[i] \in DOMAIN Octet
            -> [version |-> 4, number |-> QuadValue(raw.labels)]
      [] raw.form = "colons" /\ ~raw.zone -> [version |-> 6, number |-> raw.number]
      [] OTHER -> Invalid

(* Broken variant: an IPv4-mapped address stays an IPv6 address. *)
CanonicalIpUnfolded(raw) == Literal(IF raw.form = "brackets" THEN raw.inside ELSE raw)

(* A single address; brackets are stripped and IPv4-mapped addresses are    *)
(* the IPv4 address.                                                        *)
CanonicalIp(raw) ==
    LET a == Literal(IF raw.form = "brackets" THEN raw.inside ELSE raw)
    IN  IF a # Invalid /\ a.version = 6 /\ a.number \div (2^Bits4) = MappedTop
        THEN [version |-> 4, number |-> a.number % (2^Bits4)]
        ELSE a

(* Broken variant: a range one bit broader than the floor is accepted. *)
AcceptedPrefixesBelowFloor(version) == (MinPrefix(version) - 1)..Width(version)

(* The floor of the breadth check is the widest range accepted. *)
AcceptedPrefixes(version) == MinPrefix(version)..Width(version)

(* A range not broader than its floor, with its host bits cleared. *)
CanonicalCidr(raw) ==
    LET a == Literal(raw.base)
        size == 2^(Width(a.version) - raw.prefix)
    IN  IF a # Invalid /\ raw.prefix \in AcceptedPrefixes(a.version)
        THEN [version |-> a.version, number |-> a.number - (a.number % size), size |-> size]
        ELSE Invalid

Typed(type, value) == IF value = Invalid THEN Invalid ELSE [type |-> type, value |-> value]

(* canonicalize_scope_entry: the type follows from the notation. *)
CanonicalEntry(raw) ==
    CASE raw.form = "wildcard" -> Typed("wildcard_domain", CanonicalDomain(raw.base))
      [] raw.form = "range" -> Typed("cidr", CanonicalCidr(raw))
      [] OTHER -> IF CanonicalIp(raw) # Invalid
                  THEN Typed("ip", CanonicalIp(raw))
                  ELSE Typed("domain", CanonicalDomain(raw))

(* canonicalize_target: the caller says which type it is. *)
CanonicalTarget(raw, type) ==
    Typed(type, IF type = "ip" THEN CanonicalIp(raw) ELSE CanonicalDomain(raw))

(* _host_target_type: how http_overview types the host of a redirect. *)
HostTargetType(raw) == IF CanonicalIp(raw) # Invalid THEN "ip" ELSE "hostname"

(* Broken variant: a wildcard allows its apex. *)
BelowOrApex(host, base) == IsSuffix(base, host)

(* The canonical host is a subdomain of base, at any depth. *)
Below(host, base) == host # base /\ IsSuffix(base, host)

(* The canonical address is one of the range. *)
Within(address, range) ==
    /\ address.version = range.version
    /\ address.number - (address.number % range.size) = range.number

(* The canonical entry allows the canonical target: the bodies of the loops *)
(* of _hostname_allowed and _ip_allowed.                                    *)
Covers(entry, target) ==
    \/ target.type = "hostname" /\ entry.type = "domain" /\ target.value = entry.value
    \/ target.type = "hostname" /\ entry.type = "wildcard_domain" /\ Below(target.value, entry.value)
    \/ target.type = "ip" /\ entry.type = "ip" /\ target.value = entry.value
    \/ target.type = "ip" /\ entry.type = "cidr" /\ Within(target.value, entry.value)

(* evaluate: the decision's reason, for a sequence of enabled entries. *)
Evaluate(raw, type, enabled) ==
    LET target == CanonicalTarget(raw, type)
    IN  CASE target = Invalid -> "invalid_target"
          [] target # Invalid /\ enabled = <<>> -> "no_scope_entries"
          [] OTHER -> IF \E i \in DOMAIN enabled : Covers(enabled[i], target)
                      THEN "in_scope"
                      ELSE "target_out_of_scope"

Allows(raw, type, enabled) == Evaluate(raw, type, enabled) = "in_scope"
--------------------------------------------------------------------------------
(* What the notation of an entry stands for, from what the README and the   *)
(* test suites say of it: an address, the addresses that share the first    *)
(* prefix bits with the one given, a host name, or the names that have the  *)
(* one given behind at least one more label.                                *)
Denotes(entry, type, host) ==
    LET names(raw) == [i \in DOMAIN raw.labels |-> Fold[raw.labels[i]]]
        range == 2^(Width(host.version) - entry.prefix)
    IN  CASE entry.form = "wildcard" ->
                /\ type = "hostname"
                /\ \E n \in 1..Len(host) - 1 : SubSeq(host, n + 1, Len(host)) = names(entry.base)
          [] entry.form = "range" ->
                /\ type = "ip"
                /\ Literal(entry.base).version = host.version
                /\ Literal(entry.base).number \div range = host.number \div range
          [] entry.form # "range" /\ CanonicalIp(entry) # Invalid ->
                type = "ip" /\ CanonicalIp(entry) = host
          [] OTHER -> type = "hostname" /\ names(entry) = host

(* Two notations of one host: other spellings of its labels, or an IPv4     *)
(* address and its IPv4-mapped form.                                        *)
SameHost(t, u) ==
    \/ /\ t.form = "dotted" /\ u.form = "dotted"
       /\ Len(t.labels) = Len(u.labels)
       /\ \A i \in DOMAIN t.labels : Fold[t.labels[i]] = Fold[u.labels[i]]
    \/ /\ t.form = "dotted" /\ u.form = "colons"
       /\ Literal(t) # Invalid
       /\ u.number = MappedTop * (2^Bits4) + Literal(t).number
===============================================================================
