---- MODULE MCSwarm ----
(* Windows of one address, parsed and grouped by Parsers, as the inputs of *)
(* Fusion, and findings of pivots.                                         *)
EXTENDS Decisions, Interop, DiamondGraph, Resources

CONSTANTS
    MaxDecided,     \* bound: events in a window, of agents that are sure
    MaxAssorted     \* bound: events in a window, of all kinds

Raw(source, sensor, body) ==
    [source |-> source, sensor |-> sensor, host |-> "h1", body |-> body]

Attack(name) == [name |-> name, form |-> "attack"]

Edr(sensor, score, techniques) ==
    Raw("edr", sensor, [indicators |-> [ip |-> "x"], score |-> score,
                        techniques |-> techniques])

Flat(sensor, confidence) ==
    Raw("yara", sensor, [indicator_key |-> [scheme |-> "ipv4-addr", value |-> "x"],
                         confidence |-> confidence,
                         mitre_technique |-> <<Attack("T1055")>>,
                         techniques |-> <<[name |-> "Trojan", form |-> "tactic"],
                                          Attack("T1055"), Attack("T1071.001")>>])

(* One event of every parser that finds an address, some sure of it.       *)
Assorted ==
    {Raw("zeek", "s1", "kind" :> "conn" @@ "id.resp_h" :> "x"),
     Raw("zeek", "s1", "kind" :> "ssl" @@ "id.resp_h" :> "x" @@
                       "validation_status" :> "expired"),
     Raw("suricata", "long", [kind |-> "alert", dest_ip |-> "x", severity |-> 1]),
     Raw("sysmon", "s2", [EventID |-> 3, DestinationIp |-> "x", ProcessId |-> 7]),
     Flat("s2", 10), Flat("s2", 20),
     Edr("s2", 9, <<>>), Edr("s1", 20, <<Attack("T1059.001"), Attack("T1105")>>),
     Edr("s1", 20, <<[name |-> "beacon", form |-> "word"], Attack("T1036")>>),
     Edr("s3", 20, <<[name |-> "TA0011", form |-> "tactic"]>>), Edr("s2", 0, <<>>)}

LongAgentSample == {<<"suricata", "long">>}

Decided == {Edr(sensor, score, <<>>) : sensor \in {"s1", "s2", "s3", "s4"}, score \in {0, 20}}

ParsedOf(raws) == UNION {Parse(raw) : raw \in raws}

Windows ==
    UNION {[1 .. n -> ParsedOf(Decided)] : n \in 1 .. MaxDecided} \cup
    UNION {[1 .. n -> ParsedOf(Assorted)] : n \in 1 .. MaxAssorted}

ReportLists == {ReportsOf(window, Key("ip", "x")) : window \in Windows}

Sha256(form) == [hash |-> "sha", form |-> form]

KeySample ==
    {Key("ip", "x"), Key("domain", "d"), Key("domain", "long"), Key("hash", Sha256("lower")),
     Key("proc", [host |-> "h1", pid |-> 7]), Key("proc", [host |-> "h1", pid |-> None])}
    \cup {Key("raw", <<scheme, "x">>) : scheme \in {"user", "reg", "task", "url", "file"}}

(* Whatever the parser, an event is aggregated under the keys of the       *)
(* windows it goes to.                                                     *)
ASSUME KeysAgree ==
    \A raw \in Assorted \cup Decided : \A ev \in Parse(raw) : AggKeys(ev) = Keyer(ev)

Findings ==
    [refs : {<<[exhibitId |-> id, sha256 |-> sha]>> : id \in {"ex1", "ex2", "other"},
                                                      sha \in {None, Sha256("lower")}},
     artifactType : {"file", "process"}, artifactUri : {"", "ip"} \X {"x", "long"},
     confidence : {[n |-> 1, of |-> 2]},
     mitre : {<<>>, <<Attack("T1055"), [name |-> "word", form |-> "word"]>>,
              <<[name |-> "TA0011", form |-> "tactic"]>>}]

ExhibitSample ==
    {[exhibitId |-> "ex1", sha256 |-> None], [exhibitId |-> "ex2", sha256 |-> Sha256("junk")]}

(* A finding is refused for its long artifact, for a technique like those  *)
(* of an EDR sensor, or for the hash of an exhibit that is none; never for *)
(* a file without a hash (agent.py:118-148).                               *)
ASSUME FindingsFit ==
    \A finding \in Findings :
        EntryFits(FindingEntry(finding, ExhibitSample)) <=>
            /\ finding.artifactUri[2] \notin LongNames
            /\ \A i \in DOMAIN finding.mitre : finding.mitre[i].form # "tactic"
            /\ finding.refs[1].exhibitId = "ex2" => finding.refs[1].sha256 # None

ReportSample ==
    {<<[n |-> n, of |-> 20, agent |-> <<"edr", "s1">>, sensor |-> "s1", ignorance |-> 3,
        techniques |-> <<Attack("T1055")>>]>> : n \in 0 .. 20}

SampleEntries(key) ==
    UNION {{FrameEntries([key |-> key, reports |-> rs, belief |-> rs[1].n, of |-> 20,
                          plausibility |-> 20])[i] : i \in 1 .. 2} : rs \in ReportSample}

(* Exports keep what the entry says: every artifact with its hash, every   *)
(* technique, and confidence in the order it had (interop.py:36-158).      *)
ASSUME ExportsKeep ==
    \A key \in KeySample :
        /\ \A e \in SampleEntries(key) :
               /\ OcsfFinding(e).attacks = e.mitre
               /\ \A i \in DOMAIN e.evidence :
                      /\ e.evidence[i].type = "file" => OcsfFinding(e).resources[i].hashes # {}
                      /\ StixBundle(e).objects[i].hashed = ("SHA-256" \in OcsfFinding(e).resources[i].hashes)
        /\ \A d, e \in SampleEntries(key) :
               d.confidence.n <= e.confidence.n =>
                   OcsfFinding(d).confidenceId <= OcsfFinding(e).confidenceId

Row(id, entry) == [id |-> id, host |-> "h1", entry |-> entry]

FindingSample ==
    {e \in {FindingEntry(finding, ExhibitSample) : finding \in Findings} : EntryFits(e)}

(* Every edge ends at vertices, a row with a technique ties the adversary  *)
(* to its host, and of frames and findings of pivots only the latter have  *)
(* infrastructure: the artifact of a frame begins with "pher"              *)
(* (diamond.py:17-81, events.py:171 and 207; test_cti_for578.py:92-94).    *)
ASSUME DiamondClosed ==
    \A d \in SampleEntries(Key("ip", "x")) \cup FindingSample, e \in FindingSample :
        LET graph == RefreshDiamondGraph(<<Row(0, d), Row(1, d), Row(2, e)>>, 2)
            Joined(u, v, id) == \E i \in DOMAIN graph.edges :
                                    graph.edges[i] = [src |-> u, dst |-> v, id |-> id]
            adversary == Vertex("adversary", "unattributed")
        IN  /\ \A i \in DOMAIN graph.edges :
                   {graph.edges[i].src, graph.edges[i].dst} \subseteq graph.nodes
            /\ \A row \in {Row(1, d), Row(2, e)} : row.entry.mitre # <<>> =>
                   \E v \in graph.nodes : v.kind = "capability"
                       /\ Joined(adversary, v, row.id) /\ Joined(v, Victim(row), row.id)
            /\ {v.label : v \in {u \in graph.nodes : u.kind = "infrastructure"}} =
                   {a \in {d.artifactKey, e.artifactKey} : a[1] = "ip"}

Trails == {[tau |-> 300, bel |-> 700, pl |-> 900, conflict |-> 100, diversity |-> 2, version |-> 1]}

Boards ==
    UNION {{<<"pher", key>> :> trail @@ <<"sensors", key>> :> {"s1"} :
                trail \in Trails} : key \in KeySample}

(* A client that is told of a change and reads again is shown the new      *)
(* state, of every pheromone with a name that fits and of the focus; the   *)
(* sets of sensors are announced and cannot be read, and are no pheromones *)
(* in a snapshot (server.py:94-204, 247-289, 363-380).                     *)
ASSUME AnnouncedIsRead ==
    \A board \in Boards : \A key \in DOMAIN board :
        /\ key[1] = "pher" =>
               Snapshot(board, key[2][1]) = IF key[2][1] = "raw" THEN {} ELSE {key}
        /\ \A uri \in KeyToUri(key) :
               /\ ResourceKey(uri) = key
               /\ Answer(board, uri) =
                      IF key[1] = "pher" /\ NameFits(key[2][1], key[2][2]) THEN board[key] ELSE Raises
        /\ \A kind \in {"ip", "process"} :
               LET focused == SetFocus(board, kind, "x", "analyst")
               IN  /\ \A uri \in KeyToUri(<<"focus", None>>) :
                          Answer(focused, uri) = [kind |-> kind, value |-> "x", setBy |-> "analyst"]
                   /\ \A other \in DOMAIN board : focused[other] = board[other]
====
