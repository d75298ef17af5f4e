----------------------------- MODULE MCDecisions -----------------------------
EXTENDS Decisions

MCCatalog ==
    [talk_script |-> [agent |-> "coach", threshold |-> 7000],
     tag_review  |-> [agent |-> "ops", threshold |-> 7200],
     chitchat    |-> [agent |-> "orchestrator", threshold |-> 6000]]
MCRules ==
    <<[key |-> "label", intent |-> "tag_review", locked |-> TRUE],
      [key |-> "script", intent |-> "talk_script", locked |-> TRUE],
      [key |-> "hello", intent |-> "chitchat", locked |-> FALSE]>>
MCKeys == {"label", "script", "hello"}
MCEmbs == [{"talk_script", "tag_review", "chitchat"} -> {0, 60, 100}]
MCRaised == {[i \in {"talk_script", "tag_review", "chitchat"} |-> IF i = j THEN 100 ELSE 0] :
             j \in {"talk_script", "none"}}
MCConfs == {60, 100}
MCLength == <<2, 3, 6>>
==============================================================================
