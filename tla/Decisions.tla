----------------------------- MODULE Decisions -----------------------------
(***************************************************************************)
(* A window from its events to what is done about it: the reports of       *)
(* Parsers, their fusion and the action of Fusion, and the playbook, the   *)
(* pivot and the ledger entries of Response and Entries.  The name of the  *)
(* artifact plays no part in the fusion, so the properties are about       *)
(* every key in Keys.                                                      *)
(***************************************************************************)
EXTENDS Attribution, Entries

CONSTANTS
    Keys,       \* the keys that a window may have
    Resolution  \* a part of a mass below 1/Resolution can be lost in rounding

ASSUME ResolutionAssumption == Resolution \in Nat \ {0}

(* A key of a hash has one.                                                *)
KeyFits(key) == key[1] = "hash" => key[2] # None /\ key[2].form = "lower"

ASSUME KeysAssumption == \A key \in Keys : KeyFits(key)

(* Only EDR events mention what is no ATT&CK id; the report of their agent *)
(* shows what all the reports of the sensor show.                          *)
TacticsByEdr(rs) ==
    \A i \in DOMAIN rs : \A k \in DOMAIN rs[i].techniques :
        rs[i].techniques[k].form # "attack" =>
            \E j \in DOMAIN rs : rs[j].agent[1] = "edr" /\ rs[j].techniques = rs[i].techniques

ASSUME TacticsAssumption == \A rs \in Inputs : TacticsByEdr(rs)

(* The reports of a window for a key, with their techniques.               *)
ReportsOf(window, key) ==
    LET rs == Reports(window, key)
        Shown(r) == [agent |-> r.agent, sensor |-> r.sensor,
                     n |-> Lowest(r.confidence).n, of |-> Lowest(r.confidence).of,
                     ignorance |-> r.ignorance,
                     techniques |-> TechniquesBySensor(window)[r.sensor]]
    IN  [i \in DOMAIN rs |-> Shown(rs[i])]

(* What belief and ignorance may add up to.  Floating point makes it a     *)
(* little more than one where hardly anything is left to the benign side,  *)
(* as for three EDR sensors that are sure and name no technique, of whom   *)
(* fuse() says 1.0000000000000002 (ds_fusion.py:151-156).                  *)
Plausibilities(x) ==
    {x.evil + x.theta} \cup
        IF x.benign = 0 \/ x.of \div x.benign >= Resolution THEN {x.of + 1} ELSE {}

(* The frame of the window, with belief and plausibility as they are       *)
(* before the floor, which moves as much from one to the other's side.     *)
FrameOf(key, plausibility) ==
    [key |-> key, reports |-> reports, parent |-> Len(reports) + 1,
     belief |-> m.evil, plausibility |-> plausibility, of |-> m.of]

-----------------------------------------------------------------------------

(* A playbook that the executor accepts, that runs every action of one     *)
(* technique, or asks for a review, whichever of its steps fail, and that  *)
(* nobody without the key can have changed.  It is about the technique     *)
(* into which the pivot of the same frame looks, unless the reports begin  *)
(* with a word that is no technique.                                       *)
Answers(pb, spawn) ==
    LET steps == 1 .. Len(pb.body.workflow) - 1
        Forged(i) == [pb.body EXCEPT !.workflow[i].actuator = "another"]
    IN  /\ VerifyPlaybook(pb, CacaoKey)
        /\ \A i \in DOMAIN pb.body.workflow :
               /\ ~VerifyPlaybook([pb EXCEPT !.body = Forged(i)], CacaoKey)
               /\ ~VerifyPlaybook(Signed(Forged(i), "another key"), CacaoKey)
        /\ \A failing \in SUBSET steps : StepsRun(pb, failing) = steps
        /\ \/ spawn.seed = pb.body.technique
           \/ pb.body.technique # None /\ pb.body.technique.form = "word"
        /\ \A i, j \in DOMAIN spawn.exhibits :
               spawn.exhibits[i].exhibitId = spawn.exhibits[j].exhibitId => i = j

(* A mitigation whose frame the executor receives is answered, unless the  *)
(* key is of a scheme that no parser classifies, for which it runs no      *)
(* playbook, or of a process without a number, of which its daemon dies;   *)
(* PLATFORM.md:77 names no such exception (factory.py:58-147,              *)
(* schema.py:144-179, flow.py:162-213, executor.py:297-324).               *)
Answered ==
    action = "mitigate" => \A key \in Keys :
        IF Target(key) \in {None, Raises}
        THEN /\ key[1] \notin {"ip", "hash", "domain"}
             /\ key[1] = "proc" => key[2].pid = None
        ELSE \A pl \in Plausibilities(m) :
                 LET frame == FrameOf(key, pl)
                 IN  Answers(BuildPlaybook(frame, Target(key)), PivotSpawn(frame))

(* The ledger refuses a frame for four reasons only: the key is too long,  *)
(* so is the id of an agent, which is what a producer calls itself and its *)
(* sensor, an EDR sensor mentions something that begins with a T and is no *)
(* ATT&CK id, or the plausibility has been rounded to more than one.  What *)
(* is cut off does no harm: agents behind the first 16 and techniques      *)
(* behind the first 32.  No order of reports, mixture of rules or          *)
(* ignorance floor is a reason (flow.py:128-160 and 363-376,               *)
(* threshold.py:52-54, events.py:132-239, schema.py:50-188).               *)
Recordable ==
    LET mentioned == UNION {Range(reports[i].techniques) : i \in DOMAIN reports}
        named     == \A i \in DOMAIN reports : i <= 16 => reports[i].agent \notin LongAgents
        accepted  == \A i \in DOMAIN reports : reports[i].agent[1] = "edr" =>
                         \A t \in Range(reports[i].techniques) : t.form # "tactic"
    IN  action \notin {"none", "total_conflict"} =>
            \A key \in Keys : \A pl \in Plausibilities(m) :
                /\ NameIn(key) \notin LongNames /\ named /\ accepted /\ pl <= m.of =>
                       FrameFits(FrameOf(key, pl))
                /\ FrameFits(FrameOf(key, pl)) =>
                       /\ NameIn(key) \notin LongNames /\ named /\ pl <= m.of
                       /\ Cardinality({t \in mentioned : t.form # "word"}) <= 32 => accepted
=============================================================================
