------------------------------ MODULE Response ------------------------------
(***************************************************************************)
(* What follows from the decision on a window: the frame (ingest/flow.py), *)
(* the playbook that answers it (cacao/factory.py, schema.py, executor.py, *)
(* swarm/attck_map.py), and the pivot that looks further                   *)
(* (fractal/scoped_prompt.py), as functions of the reports.                *)
(*                                                                         *)
(* A key is that of Parsers.  The process of a proc:// URI is [host, pid], *)
(* with pid None when what follows the host is no number.  A signature is  *)
(* the key pair that made it and what it was made over.                    *)
(***************************************************************************)
EXTENDS Parsers, SequencesExt

CONSTANTS
    Raises,     \* what a function gives that ends in an exception
    CacaoKey    \* the key pair of the deployment

-----------------------------------------------------------------------------
(* The frame.                                                              *)

(* techniques_by_sensor of the events of a window.                         *)
TechniquesBySensor(events) ==
    LET Of(s) == Kept(events, {i \in DOMAIN events : events[i].sensor = s})
    IN  [s \in {events[i].sensor : i \in DOMAIN events} |->
            Distinct(FlattenSeq([i \in DOMAIN Of(s) |-> Of(s)[i].techniques]))]

(* The techniques that the reports of a frame mention, in order.           *)
Mentioned(reports) == FlattenSeq([i \in DOMAIN reports |-> reports[i].techniques])

-----------------------------------------------------------------------------
(* The playbook.                                                           *)

(* lookup: cacao_actions of ATTCK_MAP.  Every entry has some.              *)
CacaoActions(name) ==
    CASE name = "T1059.001" -> <<"edr.kill_process", "edr.network_isolate">>
      [] name = "T1003.001" -> <<"edr.kill_process", "iam.force_reset", "yara.block_hash">>
      [] name = "T1055"     -> <<"edr.acquire_memory", "edr.network_isolate">>
      [] name = "T1071.001" -> <<"edr.block_domain", "edr.sinkhole">>
      [] name = "T1105"     -> <<"edr.block_url", "yara.quarantine">>
      [] name = "T1486"     -> <<"edr.network_isolate", "edr.snapshot_disk">>
      [] name = "T1547.001" -> <<"edr.remove_persistence">>
      [] name = "T1053.005" -> <<"edr.delete_scheduled_task">>
      [] name = "T1078"     -> <<"iam.disable_account">>
      [] name = "T1566.001" -> <<"yara.quarantine_file">>
      [] name = "T1562.001" -> <<"edr.reenable_defender">>
      [] name = "T1036"     -> <<"yara.quarantine", "yara.block_hash">>
      [] OTHER              -> <<>>

(* Mutation: the last technique that the map has.                          *)
LastKnown(reports) ==
    LET known == SelectSeq(Mentioned(reports), LAMBDA t : CacaoActions(t.name) # <<>>)
    IN  IF known = <<>> THEN None ELSE Last(known)

(* The first technique of the first report that mentions any.              *)
PlaybookTechnique(reports) ==
    LET mentioning == {i \in DOMAIN reports : reports[i].techniques # <<>>}
    IN  IF mentioning = {} THEN None ELSE reports[Min(mentioning)].techniques[1]

Actuators(technique) ==
    IF technique # None /\ CacaoActions(technique.name) # <<>>
    THEN CacaoActions(technique.name) ELSE <<"analyst.review">>

(* One step for each actuator and an end step: on_success leads to the     *)
(* next one, and so does on_failure, but for the last actuator.            *)
Workflow(actuators, target) ==
    LET n == Len(actuators)
    IN  [i \in 1 .. n + 1 |->
            IF i <= n
            THEN [actuator |-> actuators[i], commands |-> <<target>>,
                  onSuccess |-> i + 1, onFailure |-> IF i < n THEN i + 1 ELSE None]
            ELSE [actuator |-> "findevil.end", commands |-> <<>>,
                  onSuccess |-> None, onFailure |-> None]]

(* sign_playbook: the signature covers everything but itself and its key.  *)
Signed(body, key) == [body |-> body, signature |-> [by |-> key, over |-> body], signer |-> key]

(* build_playbook                                                          *)
BuildPlaybook(frame, target) ==
    LET technique == PlaybookTechnique(frame.reports)
    IN  Signed([workflowStart |-> 1, workflow |-> Workflow(Actuators(technique), target),
                technique |-> technique, parent |-> frame.parent], CacaoKey)

(* verify_playbook                                                         *)
VerifyPlaybook(pb, expected) ==
    /\ pb.signature # None /\ pb.signer # None
    /\ expected # None => pb.signer = expected
    /\ pb.signature = [by |-> pb.signer, over |-> pb.body]

(* _target_from_pher_key                                                   *)
Target(key) ==
    CASE key[1] = "ip"     -> [type |-> "ipv4-addr", value |-> key[2]]
      [] key[1] = "hash"   -> [type |-> "file", value |-> key[2]]
      [] key[1] = "domain" -> [type |-> "domain-name", value |-> key[2]]
      [] key[1] = "proc"   -> IF key[2].pid = None THEN Raises
                               ELSE [type |-> "process", value |-> key[2]]
      [] OTHER              -> None

(* The steps that execute_playbook runs when those in `failing` fail.      *)
StepsRun(pb, failing) ==
    LET steps == pb.body.workflow
        at[n \in 0 .. Len(steps)] ==
            LET s == at[n - 1] IN
            IF n = 0 THEN pb.body.workflowStart
            ELSE IF s = None THEN None
            ELSE IF s \in failing THEN steps[s].onFailure ELSE steps[s].onSuccess
    IN  {s \in {at[n] : n \in DOMAIN at} \ {None} : steps[s].actuator # "findevil.end"}

-----------------------------------------------------------------------------
(* The pivot.                                                              *)

(* The first technique that a report mentions and that begins with a T.    *)
SeedTechnique(reports) ==
    LET Found(i) == {k \in DOMAIN reports[i].techniques :
                        reports[i].techniques[k].form # "word"}
        first    == Min({i \in DOMAIN reports : Found(i) # {}})
    IN  IF \A i \in DOMAIN reports : Found(i) = {} THEN None
        ELSE reports[first].techniques[Min(Found(first))]

(* make_exhibits: an exhibit is named by a hash of what it holds.          *)
Exhibits(items) == [i \in DOMAIN items |-> [holds |-> items[i], exhibitId |-> items[i]]]

(* consensus_frame_to_pivot_spawn, with what its prompt says of the seed.  *)
PivotSpawn(frame) ==
    LET seed == SeedTechnique(frame.reports)
        shown == SubSeq(frame.reports, 1, IF Len(frame.reports) < 8 THEN Len(frame.reports) ELSE 8)
    IN  [seed |-> seed,
         hint |-> seed # None /\ CacaoActions(seed.name) # <<>>,
         exhibits |-> Exhibits(<<[kind |-> "consensus_frame", of |-> frame.key]>> \o
                         [i \in DOMAIN shown |-> [kind |-> "agent_report", of |-> shown[i]]]),
         depth |-> 0]
=============================================================================
