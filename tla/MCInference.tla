---- MODULE MCInference ----
(* An instance of Narrator for TLC: what a model writes is an object of    *)
(* its role, cut off anywhere.                                             *)
EXTENDS Narrator, TLC

HomeOf == [c \in Callers |-> IF c \in Debates THEN "narrator" ELSE "watcher"]

Threads == [p \in Processes |-> IF p = "narrator" THEN 2 ELSE 1]

ScriptOf == [c \in Callers |-> IF c \in Debates
                               THEN <<"prosecutor", "defense", "judge", "swapped">>
                               ELSE <<"pivot">>]

String(words) == <<Quote>> \o words \o <<Quote>>

Field(name, value) == String(<<name>>) \o <<":">> \o value

Object(fields) ==
    <<"{">> \o FoldLeft(LAMBDA text, f : text \o <<",">> \o f, fields[1], Tail(fields)) \o <<"}">>

(* An argument of escapes, commas and brackets.                            *)
Argument == Object(<<Field("text", String(<<"x", Escape, Quote, ",", "{">>))>>)

Judgement == Object(<<Field("guilty", <<"tru", "e">>), Field("score", <<"0", ".4">>)>>)

Finding ==
    Object(<<Field("artifact_uri", String(<<"a">>)), Field("reasoning", String(<<"x">>)),
             Field("evidence_refs", Cited)>>)

(* Prose before, or a fence around the object.                             *)
Texts(object) ==
    {Upto(<<"x">> \o object \o <<"x">>, n) : n \in 0 .. Len(object) + 2} \cup
    {Upto(<<Fence, "json">> \o object \o <<Fence>>, n) : n \in 0 .. Len(object) + 3}

Cuts(object) == {Heard(text) : text \in Texts(object)}

ArgumentCuts == Cuts(Argument)
JudgementCuts == Cuts(Judgement)
FindingCuts == Cuts(Finding)

Roles == {"prosecutor", "defense", "judge", "swapped", "pivot"}

AnswersOf ==
    [role \in Roles |-> CASE role = "pivot" -> FindingCuts
                          [] role \in {"judge", "swapped"} -> JudgementCuts
                          [] OTHER -> ArgumentCuts]

ObjectsOf ==
    [role \in Roles |-> CASE role = "pivot" -> Finding
                          [] role \in {"judge", "swapped"} -> Judgement
                          [] OTHER -> Argument]
====
