------------------------------ MODULE Interop ------------------------------
(***************************************************************************)
(* The exports of a ledger entry (ledger/interop.py), as functions of the  *)
(* entries of Entries.  Identifiers, timestamps and severities are left    *)
(* out.                                                                    *)
(***************************************************************************)
EXTENDS Entries

(* int(confidence * 100)                                                   *)
Percent(c) == (100 * c.n) \div c.of

ConfidenceId(percent) ==
    Cardinality({bar \in {1, 50, 80} : percent >= bar})

Hashes(ref) ==
    {a \in {"SHA-256", "BLAKE3"} : IF a = "SHA-256" THEN ref.sha256 # None ELSE ref.blake3}

(* to_ocsf_detection_finding                                               *)
OcsfFinding(e) ==
    [confidence |-> Percent(e.confidence), confidenceId |-> ConfidenceId(Percent(e.confidence)),
     title |-> e.artifactKey, attacks |-> e.mitre,
     resources |-> [i \in DOMAIN e.evidence |->
                       [uid |-> e.evidence[i].uri, type |-> e.evidence[i].type,
                        hashes |-> Hashes(e.evidence[i])]]]

(* _STIX_OBSERVABLE_TYPE; a match or a memory region is an artifact.       *)
ObservableType(type) ==
    IF type \in {"yara-match", "memory-region"} THEN "artifact" ELSE type

(* to_stix_bundle: an indicator that compares the value of each artifact   *)
(* with its URI, what was observed, and a sighting that ties the two.      *)
StixBundle(e) ==
    LET Observed(ref) ==
            [type |-> ObservableType(ref.type),
             value |-> IF ref.type \in {"ipv4-addr", "domain-name", "url", "file"}
                       THEN ref.uri ELSE None,
             hashed |-> ref.sha256 # None]
    IN  [pattern |-> [i \in DOMAIN e.evidence |->
                         [otype |-> ObservableType(e.evidence[i].type),
                          value |-> e.evidence[i].uri]],
         confidence |-> Percent(e.confidence),
         objects |-> [i \in DOMAIN e.evidence |-> Observed(e.evidence[i])]]
=============================================================================
