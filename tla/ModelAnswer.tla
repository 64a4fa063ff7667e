---- MODULE ModelAnswer ----
(* How the inference facade reads the text of a small model that stops in  *)
(* the middle of its JSON object: src/src/findevil/inference/facade.py and  *)
(* outlines_schemas.py.  A text is a sequence of tokens: the marks of JSON, *)
(* fences, and words inside or outside of strings.                         *)
EXTENDS Integers, Sequences, FiniteSets, FiniteSetsExt, SequencesExt

CONSTANTS Junk      \* nothing that can be read

Quote == "q"
Escape == "e"
Fence == "fence"

Opening == [token \in {"{", "["} |-> IF token = "{" THEN "}" ELSE "]"]

Upto(text, n) == SubSeq(text, 1, n)

(* Where a scanner is after a text: the brackets to close, and whether it  *)
(* is in a string or behind a backslash.                                   *)
Scanned(text) ==
    LET Step(s, token) ==
            IF s.quoted
            THEN [s EXCEPT !.escaped = ~s.escaped /\ token = Escape,
                           !.quoted = s.escaped \/ token # Quote]
            ELSE [s EXCEPT !.quoted = token = Quote,
                           !.open = IF token \in DOMAIN Opening
                                    THEN Append(@, Opening[token])
                                    ELSE IF token \in {"}", "]"} /\ @ # <<>> THEN Front(@)
                                    ELSE @]
    IN  FoldLeft(Step, [open |-> <<>>, quoted |-> FALSE, escaped |-> FALSE], text)

(* The positions of a token outside of strings, with n brackets open.      *)
AtDepth(text, token, n) ==
    {i \in DOMAIN text :
        /\ text[i] = token
        /\ LET s == Scanned(Upto(text, i)) IN ~s.quoted /\ Len(s.open) = n}

(* The first fenced part that begins an object, if there is one.           *)
Unfenced(text) ==
    LET cuts == {i \in DOMAIN text : text[i] = Fence} \cup {0, Len(text) + 1}
        Begin(i) == IF i + 1 \in DOMAIN text /\ text[i + 1] = "json" THEN i + 2 ELSE i + 1
        objects == {i \in cuts : Begin(i) \in DOMAIN text /\ text[Begin(i)] = "{"}
    IN  IF Cardinality(cuts) = 2 \/ objects = {} THEN text
        ELSE LET i == Min(objects)
             IN  SubSeq(text, Begin(i), Min({j \in cuts : j > i}) - 1)

(* The object that begins at the first brace, up to its end if it has one. *)
UpToItsEnd(object) == Upto(object, Min({Len(object)} \cup AtDepth(object, "}", 0)))

FirstObject(text) ==
    IF \A i \in DOMAIN text : text[i] # "{" THEN text
    ELSE UpToItsEnd(SubSeq(text, Min({i \in DOMAIN text : text[i] = "{"}), Len(text)))

FirstJsonObject(content) == FirstObject(Unfenced(content))

(* An open string is closed, then the brackets from the inside out.        *)
CloseOpenBrackets(text) ==
    LET s == Scanned(text)
    IN  text \o (IF s.quoted THEN <<Quote>> ELSE <<>>) \o Reverse(s.open)

(* The variant that cuts at the first of them.                             *)
FirstTopLevelComma(text) ==
    IF AtDepth(text, ",", 1) = {} THEN 0 ELSE Min(AtDepth(text, ",", 1))

(* The last comma between two fields.                                      *)
LastTopLevelComma(text) == Max({0} \cup AtDepth(text, ",", 1))

Stripped(text) == Upto(text, Max({0} \cup {i \in DOMAIN text : text[i] \notin {",", ":"}}))

(* json.loads: what may follow what, as a pushdown automaton.  Words       *)
(* outside of strings are the pieces of numbers and literals.              *)
Literals == {<<"0">>, <<"0", ".4">>, <<"tru", "e">>}

Accepts(text) ==
    LET Word(token) == \E w \in Literals : \E i \in DOMAIN w : w[i] = token
        Ended(s) ==
            IF s.word = <<>> THEN s
            ELSE [s EXCEPT !.word = <<>>, !.next = IF s.word \in Literals THEN "comma" ELSE "no"]
        Outside(s, token) ==
            LET e == Ended(s)
                inObject == s.open # <<>> /\ Last(s.open) = "}"
            IN  CASE Word(token) /\ s.next \in {"value", "value or end", "word"} ->
                        [s EXCEPT !.word = Append(@, token), !.next = "word"]
                  [] token = Quote /\ e.next \in {"value", "value or end"} ->
                        [e EXCEPT !.quoted = TRUE, !.next = "comma"]
                  [] token = Quote /\ e.next \in {"name", "name or end"} ->
                        [e EXCEPT !.quoted = TRUE, !.next = "colon"]
                  [] token = ":" /\ e.next = "colon" -> [e EXCEPT !.next = "value"]
                  [] token \in DOMAIN Opening /\ e.next \in {"value", "value or end"} ->
                        [e EXCEPT !.open = Append(@, Opening[token]),
                                  !.next = IF token = "{" THEN "name or end" ELSE "value or end"]
                  [] token = "," /\ e.next = "comma" /\ e.open # <<>> ->
                        [e EXCEPT !.next = IF inObject THEN "name" ELSE "value"]
                  [] token \in {"}", "]"} /\ e.open # <<>> /\ Last(e.open) = token /\
                     e.next \in {"comma", IF inObject THEN "name or end" ELSE "value or end"} ->
                        [e EXCEPT !.open = Front(@), !.next = "comma"]
                  [] OTHER -> [e EXCEPT !.next = "no"]
        Step(s, token) ==
            IF s.quoted
            THEN [s EXCEPT !.escaped = ~s.escaped /\ token = Escape,
                           !.quoted = s.escaped \/ token # Quote]
            ELSE Outside(s, token)
        Done(s) == s.open = <<>> /\ ~s.quoted /\ Ended(s).next = "comma"
    IN  Done(FoldLeft(Step, [open |-> <<>>, quoted |-> FALSE, escaped |-> FALSE,
                             word |-> <<>>, next |-> "value"], text))

WithoutLastField(body) == Stripped(Upto(body, LastTopLevelComma(body) - 1))

(* The body is cut back, a field at a time, until it can be closed.        *)
CutBack(body, tries) ==
    LET Cut(bodies, n) == Append(bodies, WithoutLastField(Last(bodies)))
        bodies == FoldLeft(Cut, <<body>>, [n \in 1 .. tries |-> n])
        closed == [n \in DOMAIN bodies |-> CloseOpenBrackets(bodies[n])]
    IN  Head(Append(SelectSeq(closed, Accepts), <<"{", "}">>))

Repaired(body) ==
    IF \A i \in DOMAIN body : body[i] # "{" THEN body ELSE CutBack(body, 12)

RepairTruncatedJson(content) == Repaired(Stripped(FirstJsonObject(content)))

FirstOf(texts) == IF texts = <<>> THEN Junk ELSE Head(texts)

(* What _openai_chat returns, or Junk when json.loads raises to the end.   *)
Read(content) ==
    FirstOf(SelectSeq(<<content, FirstJsonObject(content), RepairTruncatedJson(content)>>,
                      Accepts))

IsObject(text) == text # Junk /\ text[1] = "{"

(* The fields of an object, in order, with their values as text.           *)
Fields(text) ==
    LET ends == AtDepth(text, ",", 1) \cup {Len(text)}
        Begin(end) == Max({0} \cup {i \in ends : i < end}) + (IF end = Min(ends) THEN 2 ELSE 1)
        Field(end) == SubSeq(text, Begin(end), end - 1)
        Colon(f) == Min(AtDepth(f, ":", 0))
    IN  IF Len(text) = 2 THEN <<>>
        ELSE [k \in 1 .. Cardinality(ends) |->
                LET f == Field(SetToSortSeq(ends, <)[k])
                IN  [name |-> f[2], value |-> SubSeq(f, Colon(f) + 1, Len(f))]]
====
