----------------------------- MODULE Resources -----------------------------
(***************************************************************************)
(* The resources and the tools of the MCP server over Valkey               *)
(* (mcp_server/server.py, resources.py), as functions of what a key holds. *)
(*                                                                         *)
(* A key of Valkey is <<family, name>>: "pher" with the hash of a          *)
(* pheromone, whose name is a key of Parsers, "sensors" with the set of    *)
(* its sensors, and "processes", "path", "focus", "instance" and "diamond" *)
(* with the documents of those resources.  A URI is <<resource, name>>.    *)
(* A store maps the keys it has to what they hold; the fields of a hash    *)
(* are those a writer has set, beliefs in thousandths.                     *)
(***************************************************************************)
EXTENDS Entries

-----------------------------------------------------------------------------
(* Keys and URIs.                                                          *)

IocKinds == {"ip", "hash", "domain"}

Families == {"processes", "path", "focus", "instance", "diamond"}

(* The key that a resource reads.                                          *)
ResourceKey(uri) == IF uri[1] \in IocKinds THEN <<"pher", uri>> ELSE uri

(* _key_to_uri: the URIs whose clients are told that a key has changed.    *)
(* The key of a set of sensors begins like that of its pheromone and is    *)
(* taken for one with a longer name; its URI has the set's family here.    *)
KeyToUri(key) ==
    CASE key[1] = "pher" /\ key[2][1] \in IocKinds    -> {key[2]}
      [] key[1] = "sensors" /\ key[2][1] \in IocKinds -> {key}
      [] key[1] \in Families \ {"diamond"}            -> {key}
      [] OTHER                                         -> {}

-----------------------------------------------------------------------------
(* Answers; Raises for a value that the type of the resource refuses, and  *)
(* for a key that does not hold a hash.                                    *)

(* What HGETALL gives, nothing for a key that is not there.                *)
Held(store, key) == IF key \in DOMAIN store THEN store[key] ELSE <<>>

(* The name of a pheromone as its resource accepts it.                     *)
NameFits(kind, name) ==
    CASE kind = "hash"   -> name.form = "lower"
      [] kind = "domain" -> name \notin LongNames
      [] OTHER            -> TRUE

(* ioc_ip, ioc_hash, ioc_domain                                            *)
Ioc(store, kind, name) ==
    LET answer == Held(store, <<"pher", <<kind, name>>>>) @@
                      [tau |-> 0, bel |-> 0, pl |-> 1000, conflict |-> 0,
                       diversity |-> 0, version |-> 0]
    IN  IF NameFits(kind, name) /\ {answer.bel, answer.pl, answer.conflict} \subseteq 0 .. 1000
        THEN answer ELSE Raises

Statuses == {"pending", "running", "succeeded", "failed", "rolled_back"}

(* host_processes, attack_path, control_focus, cacao_instance, cti_diamond *)
Document(store, uri) ==
    LET blank == CASE uri[1] = "processes" -> [pids |-> <<>>, flagged |-> <<>>]
                   [] uri[1] = "path"      -> [techniques |-> <<>>]
                   [] uri[1] = "focus"     -> [kind |-> None, value |-> None, setBy |-> None]
                   [] uri[1] = "instance"  -> [playbook |-> None, status |-> "pending",
                                               cursor |-> 0, errors |-> <<>>]
                   [] uri[1] = "diamond"   -> [nodes |-> {}, edges |-> <<>>]
        answer == Held(store, uri) @@ blank
    IN  IF \/ uri[1] = "processes" /\ (Len(answer.pids) > 512 \/ Len(answer.flagged) > 512)
           \/ uri[1] = "path" /\ Len(answer.techniques) > 32
           \/ uri[1] = "instance" /\ answer.status \notin Statuses
        THEN Raises ELSE answer

Answer(store, uri) ==
    CASE uri[1] \in IocKinds  -> Ioc(store, uri[1], uri[2])
      [] uri[1] = "sensors"   -> Raises
      [] OTHER                -> Document(store, uri)

-----------------------------------------------------------------------------
(* Tools.                                                                  *)

(* swarm.pheromone_snapshot: the keys it lists of a store that has no more *)
(* than it would list.                                                     *)
Snapshot(store, kind) ==
    IF kind \in IocKinds \cup {"proc"}
    THEN {key \in DOMAIN store : key[1] = "pher" /\ key[2][1] = kind} ELSE {}

(* control.set_focus: all the fields of the focus in one transaction.      *)
SetFocus(store, kind, value, setBy) ==
    IF kind \notin {"ip", "hash", "domain", "process", "host"} THEN Raises
    ELSE <<"focus", None>> :> [kind |-> kind, value |-> value, setBy |-> setBy] @@ store
=============================================================================
