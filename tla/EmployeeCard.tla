---------------------------- MODULE EmployeeCard ----------------------------
(***************************************************************************)
(* HitlConfirm seen from the employee's side panel (ProfilePanel.tsx and   *)
(* TagPanel.tsx): the panel polls the pending proposals every ten seconds, *)
(* shows a card for each, and the buttons of a card send nothing but the   *)
(* identifier of its proposal.  The agent cannot tell which field list was *)
(* on the card.                                                            *)
(***************************************************************************)
EXTENDS HitlConfirm

VARIABLE
  view  \* proposal -> the field list on its card, None without a card

cardVars == <<vars, view>>

CardInit ==
  /\ Init
  /\ view = [p \in Proposals |-> None]

\* A poll replaces every card.
Poll ==
  /\ ListProposals
  /\ view' = [p \in Proposals |-> IF proposals'[p].status = "pending"
                                    THEN proposals'[p].fields ELSE None]

\* A button of the card of p.
Press(p) ==
  /\ view[p] # None
  /\ EndpointStart(p)
  /\ UNCHANGED view

\* Everything the panel does not see.
Elsewhere ==
  /\ \/ \E c \in Customers, f \in Extracted : Propose(c, f)
     \/ EndpointStep
     \/ \E p \in Proposals :
          \/ ProposalDue(p) \/ ApprovalLapses(p)
          \/ GatewayStep(p) \/ BusinessStep(p) \/ WriteAborts(p)
     \/ AgentCrash
     \/ GatewayCrash
  /\ UNCHANGED view

CardNext == Poll \/ (\E p \in Proposals : Press(p)) \/ Elsewhere

CardSpec == CardInit /\ [][CardNext]_cardVars

\* The panel is under no obligation: the fairness is that of HitlConfirm.
FairCardSpec == CardSpec /\ Fairness

\* Conflicting values are shown to the employee and never overwritten silently:
\* what a confirmation is about to write was on the card that was confirmed.
ConfirmsWhatWasShown ==
  endpoint.step = "issue" =>
    \A k \in KeysOf(endpoint.fields) :
      endpoint.fields[k] = view[endpoint.pid][k]

OnProfile(p) == proposals[p].tool = "update_profile_field"

\* No field on the card of a profile gets lost on its way: it is in what the confirmation
\* is about to write, and written when the agent is about to call it confirmed.  Refreshes
\* in other threads, an edit of the row and any failure of the write lie in between; they
\* may replace a value on the card but take no field away (_merge_fields;
\* edit_tag_proposal refuses a profile).
ShownIsWritten ==
  LET p == endpoint.pid
  IN  /\ endpoint.step = "issue" /\ OnProfile(p) => KeysOf(view[p]) \subseteq KeysOf(endpoint.fields)
      /\ endpoint.step = "resolve" /\ OnProfile(p) => \A k \in KeysOf(view[p]) : written[p][k] = 1

\* Why: a card belongs to a row, whose list has grown since if it is a profile's; whoever
\* pressed a button had a card, which stays until the endpoint is done.
CardInv ==
  /\ view \in [Proposals -> Fields \cup {None}]
  /\ \A p \in Proposals : view[p] # None =>
       /\ proposals[p].status # "none"
       /\ proposals[p].status = "pending" /\ OnProfile(p) => KeysOf(view[p]) \subseteq KeysOf(proposals[p].fields)
  /\ endpoint.step # "idle" =>
       LET p == endpoint.pid
       IN  /\ view[p] # None
           /\ endpoint.step = "edit" => ~OnProfile(p)
           /\ endpoint.step = "issue" /\ OnProfile(p) => KeysOf(view[p]) \subseteq KeysOf(endpoint.fields)
           /\ endpoint.step \in {"send", "await", "resolve"} /\ OnProfile(p) =>
                KeysOf(view[p]) \subseteq KeysOf(sent[p])

=============================================================================
