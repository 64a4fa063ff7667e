---- MODULE MCIngest ----
(* Instances of Evidence for TLC: a prompt and a slow source and the flat  *)
(* validation format.                                                      *)
EXTENDS Evidence

Lateness == [s \in Sources |-> IF s = "yara" THEN 2 ELSE 1]

Raw(source, body) == [source |-> source, sensor |-> "s1", host |-> "h1", body |-> body]

Hash(form) == [hash |-> "sha", form |-> form]

(* The creation of a process, with the hash of its image in upper case.    *)
ProcessCreated(typeField, pid) ==
    Raw("sysmon", typeField :> 1 @@ [ProcessId |-> pid, Hashes |-> Hash("upper")])

(* A hit on the same file, in the flat format and with an event id.        *)
FlatYaraHit ==
    Raw("yara", [indicator_key |-> [scheme |-> "sha256", value |-> Hash("lower")],
                 confidence |-> 30, techniques |-> <<[name |-> "T1055", form |-> "attack"]>>, event_guid |-> "g"])

Malformed == Raw("sysmon", <<>>)

Sample == {ProcessCreated("EventID", 7), FlatYaraHit, Malformed}

(* Sysmon with the number of the event type in event_id, as in             *)
(* tests/test_parsers.py:16.                                               *)
SysmonSample == {ProcessCreated("event_id", 7), ProcessCreated("event_id", 8)}

Encoded == {Encode(raw) : raw \in Raws}
====
