---------------------------- MODULE MCEvidenceTrail ----------------------------
(***************************************************************************)
(* Instances of EvidenceTrail and ProjectReports for TLC.  The scan j1 has *)
(* two blobs of one name that exceed its budget and reports a port twice,  *)
(* once without evidence, and two names, without; j2 scans another host    *)
(* and finds the same port, filtered, and the same names, one of them      *)
(* citing a blob it has not; j3 hints at the names known then, or at the   *)
(* two of its request.  Modules of this commit cite evidence for all or    *)
(* none of the findings of a type; the upsert does not need it.            *)
(***************************************************************************)
EXTENDS ProjectReports

CONSTANTS j1, j2, j3, xml, txt, dev, admin, www

Port == [type |-> "tcp_port", value |-> "80/tcp"]
Hostname(h) == [type |-> "candidate_hostname", value |-> h]
Ptr(h) == [type |-> "ptr_name", value |-> h]
Fact(key, name, conf) == [key |-> key, name |-> name, conf |-> conf]

MCTarget == [j \in Jobs |-> IF j = j1 THEN www ELSE dev]

MCGiven == [j \in Jobs |-> IF j \in Hints THEN {None, {admin, www}} ELSE {None}]

MCBlobs == [j \in Jobs |->
    CASE j = j1 -> <<[name |-> xml, size |-> 2], [name |-> xml, size |-> 2]>>
      [] j = j2 -> <<[name |-> txt, size |-> 1]>>
      [] OTHER  -> <<>>]

MCFacts == [j \in Jobs |->
    CASE j = j1 -> <<Fact(Port, xml, "confirmed-by-response"),
                     Fact(Port, None, "confirmed-by-response"),
                     Fact(Ptr(admin), None, "confirmed-by-response"),
                     Fact(Hostname(dev), None, "tool-inferred")>>
      [] j = j2 -> <<Fact(Port, txt, "tool-inferred"),
                     Fact(Ptr(admin), txt, "confirmed-by-response"),
                     Fact(Hostname(dev), xml, "tool-inferred")>>
      [] OTHER  -> <<>>]
================================================================================
