---- MODULE InferenceFacade ----
(* The requests of pivots and debates through the inference facade, with   *)
(* what it reads from an answer, its repairs and its second attempt:       *)
(* src/src/findevil/inference/facade.py, outlines_schemas.py.               *)
EXTENDS InferenceLock, ModelAnswer

CONSTANTS
    Script,         \* the roles of a task's requests, in order
    Answers,        \* what the facade may hear from the model in a role
    Objects,        \* the object the model is writing in a role
    None

VARIABLES
    part,           \* the request of its script a task is at
    attempt,        \* 0, or 1 after an answer that does not fit the schema
    heard,          \* the answer to its request, None for an error of the server
    outcome         \* how the script of a task ends

facadeVars == <<lockVars, part, attempt, heard, outcome>>

(* The fields read from a text, and the number of those it completes.      *)
Heard(text) ==
    [complete |-> Cardinality(AtDepth(text, ",", 1) \cup AtDepth(text, "}", 0)),
     fields |-> LET read == Read(text) IN IF IsObject(read) THEN Fields(read) ELSE Junk]

Role(c) == Script[c][part[c]]

Names(fs) == {fs[k].name : k \in DOMAIN fs}

Value(fs, name) == fs[CHOOSE k \in DOMAIN fs : fs[k].name = name].value

Begins(fs, name, token) == name \in Names(fs) /\ Value(fs, name)[1] = token

IsText(fs, name) == Begins(fs, name, Quote) /\ Len(Value(fs, name)) > 2

Cited == <<"[", "{", Quote, "exhibit_id", Quote, ":", Quote, "ex1", Quote, "}", "]">>

(* pivot_infer: the first exhibit is cited if there are no evidence_refs.  *)
FindingFits(fs) ==
    /\ IsText(fs, "artifact_uri") /\ IsText(fs, "reasoning")
    /\ "evidence_refs" \in Names(fs) => Value(fs, "evidence_refs") \in {<<"[", "]">>, Cited}
    /\ Names(fs) \subseteq {"artifact_uri", "reasoning", "evidence_refs", "follow_ups"}

(* debate_argument: role and citations are replaced, a missing text gets a *)
(* default, and the schema forbids any other field.                        *)
ArgumentFits(fs) ==
    Names(fs) \subseteq {"role", "text", "exhibit_ids_cited", "claimed_technique"}

(* judge_verdict: only guilty has no default.                              *)
VerdictFits(fs) ==
    /\ Begins(fs, "guilty", "tru")
    /\ Names(fs) \subseteq
          {"guilty", "score", "winning_argument", "rationale", "exhibit_ids_cited"}

Fits(role, fs) ==
    CASE role = "pivot" -> FindingFits(fs)
      [] role \in {"prosecutor", "defense"} -> ArgumentFits(fs)
      [] OTHER -> VerdictFits(fs)

(* The score of a verdict, in tenths.                                      *)
ScoreOf(fs) == IF "score" \in Names(fs) /\ Value(fs, "score") = <<"0", ".4">> THEN 4 ELSE 0

FacadeInit ==
    /\ LockInit
    /\ part = [c \in Callers |-> 1]
    /\ attempt = [c \in Callers |-> 0]
    /\ heard = [c \in Callers |-> None]
    /\ outcome = [c \in Callers |-> "open"]

Request(c) ==
    /\ outcome[c] = "open" /\ part[c] \in DOMAIN Script[c]
    /\ Chat(c)
    /\ UNCHANGED <<part, attempt, heard, outcome>>

Respond(c) ==
    /\ Posted(c)
    /\ \E h \in Answers[Role(c)] \cup {None} : heard' = [heard EXCEPT ![c] = h]
    /\ UNCHANGED <<part, attempt, outcome>>

Raised(c) == heard[c] = None \/ heard[c].fields = Junk

Fitting(c) == ~Raised(c) /\ Fits(Role(c), heard[c].fields)

(* Tasks end early, and what they had got is gone.                         *)
End(tasks) ==
    /\ part' = [c \in Callers |-> IF c \in tasks THEN 1 ELSE part[c]]
    /\ attempt' = [c \in Callers |-> IF c \in tasks THEN 0 ELSE attempt[c]]
    /\ heard' = [c \in Callers |-> IF c \in tasks THEN None ELSE heard[c]]
    /\ outcome' = [c \in Callers |-> IF c \in tasks THEN "ended" ELSE outcome[c]]

(* The request has its answer and the lock is free again.  An error ends   *)
(* the script; an answer that does not fit does so the second time.        *)
Return(c) ==
    /\ Unlocked(c)
    /\ IF stage[c] = "gone" THEN UNCHANGED <<part, attempt, heard, outcome>>
       ELSE IF ~Fitting(c) /\ (Raised(c) \/ attempt[c] = 1) THEN End({c})
       ELSE /\ part' = [part EXCEPT ![c] = IF Fitting(c) THEN @ + 1 ELSE @]
            /\ attempt' = [attempt EXCEPT ![c] = IF Fitting(c) THEN 0 ELSE 1]
            /\ heard' = [heard EXCEPT ![c] = None]
            /\ outcome' = [outcome EXCEPT ![c] =
                  IF Fitting(c) /\ Role(c) = "pivot" THEN "told" ELSE @]

(* A debate or pivot has used up its time.                                 *)
Expire(c) ==
    /\ outcome[c] = "open" /\ part[c] \in DOMAIN Script[c]
    /\ Cancel(c)
    /\ End({c})

LockStep ==
    /\ \/ \E p \in Processes : TakeJob(p)
       \/ \E c \in Callers : Locked(c) \/ Dropped(c)
    /\ UNCHANGED <<part, attempt, heard, outcome>>

(* Whatever was cut off, the fields read are the first ones of the object  *)
(* the model was writing: every field it completed, unchanged, and at most *)
(* one more, of which the beginning is read (facade.py:99-134).            *)
ReadsBeginning ==
    \A c \in Callers : heard[c] # None /\ heard[c].fields # Junk =>
        LET whole == Fields(Objects[Role(c)])
            got == heard[c].fields
            Bare(v) == Upto(v, Max({0} \cup {i \in DOMAIN v : v[i] \notin {Quote, "]", "}"}}))
        IN  /\ Len(got) \in {heard[c].complete, heard[c].complete + 1}
            /\ \A k \in DOMAIN got :
                   /\ got[k].name = whole[k].name
                   /\ IF k <= heard[c].complete THEN got[k].value = whole[k].value
                      ELSE IsPrefix(Bare(got[k].value), whole[k].value)
====
