---- MODULE MCBlackboard ----
(* An instance of Blackboard for TLC: a window that clears the address and *)
(* one that is acted on, and a bundle whose indicators meet at its key.    *)
EXTENDS Blackboard

Site == [dim |-> "domain", id |-> "x"]

Window(bel, pl, action, sensors) ==
    [bel |-> bel, pl |-> pl, action |-> action, sensors |-> sensors]

WindowOutcomes ==
    {Window(20, 960, "observe", {"s1"}),
     Window(520, 940, "observe", {"s1", "s2"})}

Indicator(patternType, revoked, confidence, pattern) ==
    [type |-> "indicator", revoked |-> revoked, patternType |-> patternType,
     confidence |-> confidence, pattern |-> pattern]

Found(otype, value) == [otype |-> otype, value |-> value]

SmallBundle ==
    <<Indicator("stix", FALSE, 120, <<Found("url", "x")>>),
      Indicator("sigma", FALSE, 100, <<Found("domain-name", "x")>>),
      Indicator("stix", TRUE, 100, <<Found("domain-name", "x")>>),
      Indicator("stix", FALSE, 50, <<Found("domain-name", "x")>>)>>

OneBundle == {SmallBundle}

MostOfIt == <<3, 4>>
====
