------------------------------ MODULE Entries ------------------------------
(***************************************************************************)
(* The ledger entries that a frame and a pivot's finding become            *)
(* (ledger/events.py, fractal/agent.py), and what LedgerEntry accepts      *)
(* (ledger/schema.py): an entry that it refuses is never appended, and the *)
(* callers swallow the error.                                              *)
(*                                                                         *)
(* A name in LongNames is longer than 512 characters or, of a finding,     *)
(* blank; the others fit.  The artifact of an entry is <<"pher", key>> for *)
(* a key of the blackboard, or a name behind the prefix before its first   *)
(* colon.  A confidence is n/of, and so are the masses of a frame.  The    *)
(* agent of a report is the source and the sensor that a producer named,   *)
(* joined by a slash into the id of its entry; for those in LongAgents     *)
(* that is longer than 128 characters.                                     *)
(***************************************************************************)
EXTENDS Response

CONSTANTS LongNames, LongAgents

(* The name in a key.                                                      *)
NameIn(key) ==
    CASE key[1] = "hash" -> key[2].hash
      [] key[1] = "proc" -> key[2].host
      [] key[1] = "raw"  -> key[2][2]
      [] OTHER            -> key[2]

(* The name in the artifact of an entry.                                   *)
Named(artifact) ==
    IF artifact[1] = "pher" THEN NameIn(artifact[2]) ELSE artifact[2]

(* Those of some techniques that begin with a T.                           *)
Technical(ts) == Kept(ts, {i \in DOMAIN ts : ts[i].form # "word"})

-----------------------------------------------------------------------------
(* ledger/schema.py                                                        *)

(* A file is identified by a hash.                                         *)
ArtifactRefFits(ref) ==
    /\ ref.sha256 = None \/ ref.sha256.form = "lower"
    /\ ref.type = "file" => ref.sha256 # None \/ ref.blake3

ConsensusFits(c) ==
    /\ Len(c.contributing) \in 1 .. 16
    /\ 0 <= c.belief /\ c.belief <= c.plausibility /\ c.plausibility <= c.of

(* The lengths and patterns of LedgerEntry and its validators.  What is    *)
(* left out is short in every entry of a caller, whose other fields are    *)
(* its own or the deployment's, or is short when these are: a claim and    *)
(* the URIs of the evidence of a frame hold the agent and the key.         *)
EntryFits(e) ==
    /\ e.agents \cap LongAgents = {}
    /\ Len(e.evidence) \in 1 .. 64
    /\ \A i \in DOMAIN e.evidence : ArtifactRefFits(e.evidence[i])
    /\ Named(e.artifactKey) \notin LongNames
    /\ 0 <= e.confidence.n /\ e.confidence.n <= e.confidence.of
    /\ Len(e.mitre) <= 32
    /\ \A i \in DOMAIN e.mitre : e.mitre[i].form = "attack"
    /\ e.consensus # None => ConsensusFits(e.consensus) /\ e.custody # <<>>

-----------------------------------------------------------------------------
(* Frames.                                                                 *)

(* artifact_for_pher_key: the name in a URI, behind what it is a name of.  *)
ArtifactForPherKey(key) ==
    LET Of(type, prefix, sha256, blake3) ==
            [type |-> type, uri |-> <<prefix, NameIn(key)>>, sha256 |-> sha256, blake3 |-> blake3]
        Ref(type) == Of(type, type, None, FALSE)
        Raw(scheme) ==
            CASE scheme = "user"             -> Ref("user-account")
              [] scheme \in {"reg", "task"} -> Ref("windows-registry-key")
              [] scheme = "url"              -> Ref("url")
              [] scheme = "file"             -> Of("file", "file", None, TRUE)
              [] OTHER -> Of("network-traffic", "pheromone", None, FALSE)
    IN  CASE key[1] = "ip"     -> Ref("ipv4-addr")
          [] key[1] = "domain" -> Ref("domain-name")
          [] key[1] = "hash"   -> Of("file", "sha256", key[2], FALSE)
          [] key[1] = "proc"   -> Ref("process")
          [] OTHER             -> Raw(key[2][1])

(* Mutation: whatever the events mention.                                  *)
TechniquesAsTheyAre(mentioned) == Distinct(mentioned)

(* _techniques_from_events, cut after 32; here in the order in which the   *)
(* reports show the techniques of the events.                              *)
TechniquesFromEvents(mentioned) ==
    LET found == Distinct(Technical(mentioned))
    IN  SubSeq(found, 1, IF Len(found) < 32 THEN Len(found) ELSE 32)

(* append_consensus_frame: the entry of each report, in the name of its    *)
(* agent, and the fused one, in that of the swarm.                         *)
FrameEntries(frame) ==
    LET reports == SubSeq(frame.reports, 1, IF Len(frame.reports) < 16 THEN Len(frame.reports) ELSE 16)
        Entry(agents, n, of) ==
            [agents |-> agents,
             evidence |-> <<ArtifactForPherKey(frame.key)>>, artifactKey |-> <<"pher", frame.key>>,
             confidence |-> [n |-> n, of |-> of], consensus |-> None, custody |-> <<>>,
             mitre |-> TechniquesFromEvents(Mentioned(frame.reports))]
        parents == [i \in DOMAIN reports |-> i]
        consensus == [contributing |-> parents, belief |-> frame.belief,
                      plausibility |-> frame.plausibility, of |-> frame.of]
    IN  Append([i \in DOMAIN reports |-> Entry({reports[i].agent}, reports[i].n, reports[i].of)],
               [Entry({}, frame.belief, frame.of) EXCEPT !.consensus = consensus, !.custody = parents])

(* All of its entries are accepted.                                        *)
FrameFits(frame) ==
    \A i \in DOMAIN FrameEntries(frame) : EntryFits(FrameEntries(frame)[i])

-----------------------------------------------------------------------------
(* Findings of pivots.                                                     *)

(* _refs_from_finding: the hash that the citation or its exhibit gives     *)
(* makes it a file; a file without one counts as a match.                  *)
RefsFromFinding(finding, exhibits) ==
    LET Ref(sha) ==
            [type |-> IF sha # None THEN "file"
                      ELSE IF finding.artifactType = "file" THEN "yara-match"
                      ELSE finding.artifactType,
             uri |-> finding.artifactUri, sha256 |-> sha, blake3 |-> FALSE]
        ShaOf(id) == IF \E x \in exhibits : x.exhibitId = id
                     THEN (CHOOSE x \in exhibits : x.exhibitId = id).sha256 ELSE None
    IN  [i \in DOMAIN finding.refs |->
            Ref(Or(finding.refs[i].sha256, ShaOf(finding.refs[i].exhibitId)))]

(* _append_finding                                                         *)
FindingEntry(finding, exhibits) ==
    [agents |-> {}, evidence |-> RefsFromFinding(finding, exhibits), artifactKey |-> finding.artifactUri,
     confidence |-> finding.confidence, consensus |-> None, custody |-> <<>>,
     mitre |-> Technical(finding.mitre)]
=============================================================================
