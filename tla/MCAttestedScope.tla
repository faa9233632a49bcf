---------------------------- MODULE MCAttestedScope ----------------------------
(***************************************************************************)
(* Instances of AttestedScope for TLC, with the values and the decisions   *)
(* of ScopeRules on small addresses: quads of two octets of two bits, IPv6 *)
(* addresses of six bits, of which 01.... are IPv4-mapped.  Two scope      *)
(* requests post one wildcard in two spellings; one posts a range.         *)
(***************************************************************************)
EXTENDS AttestedScope, ScopeRules

CONSTANTS a1, a2, a3, t1, t2, j1

MCFold == [s \in {"a", "A", "b", "1", "2"} |-> IF s = "A" THEN "a" ELSE s]
MCOctet == [s \in {"1", "2"} |-> IF s = "1" THEN 1 ELSE 2]

Quad12 == Dotted(<<"1", "2">>, 0)
Mapped12 == Colons(16 + 6)

MCPosted == [a \in Adders |->
    CanonicalEntry(CASE a = a1 -> Wildcard(Dotted(<<"A", "b">>, 1))
                     [] a = a2 -> Wildcard(Dotted(<<"a", "b">>, 0))
                     [] OTHER  -> Slash(Quad12, 2))]

MCValues == {MCPosted[a] : a \in Adders}

(* A job's subdomain; an address of the range and the apex as redirect hosts. *)
Subdomain == [raw |-> Dotted(<<"b", "A", "b">>, 0), type |-> "hostname"]
RedirectHost(raw) == [raw |-> raw, type |-> HostTargetType(raw)]
Address == RedirectHost(Mapped12)
Apex == RedirectHost(Dotted(<<"a", "b">>, 1))

MCTargets == {Subdomain, Address, Apex}

MCTarget == [j \in Jobs |-> Subdomain]

(* With a config of its own the job's first URL may name the apex. *)
MCAims == [j \in Jobs |-> {Subdomain, Apex}]

MCAccepted == {Subdomain, Address}

MCAllowed == [x \in Targets |-> {v \in Values : Allows(x.raw, x.type, <<v>>)}]
================================================================================
