---------------------------- MODULE HitlConfirm ----------------------------
(***************************************************************************)
(* The human-in-the-loop write path of SalesPilot, end to end: a proposal  *)
(* in the sale agent's table, the employee who reads and confirms it, the  *)
(* approval voucher of business-mock, the write call through the tool      *)
(* gateway, and the rows business-mock changes one statement at a time.    *)
(*                                                                         *)
(* Processes.  The AI endpoints of the agent are "async def" functions     *)
(* that block: the event loop serves one at a time, and endpoint is the    *)
(* one being served.  A follow-up event starts a thread of its own, which  *)
(* reaches the table between any two steps of an endpoint.  The gateway    *)
(* and business-mock serve each call on a thread; a caller that gave up    *)
(* (5 s in the agent, 2 s in the gateway) leaves the callee running.       *)
(*                                                                         *)
(* Every message may be lost or answered too late, each process may crash  *)
(* between two steps (at most MaxFaults crashes and statement failures in  *)
(* a behaviour), and no process learns what became of a lost call.         *)
(***************************************************************************)
EXTENDS ProposalStore

CONSTANTS
  UnknownKeys,  \* keys business-mock has no field or active tag for
  MaxFaults     \* bound on crashes and failing SQL statements

ASSUME UnknownKeysAssumption == UnknownKeys \subseteq Keys
ASSUME MaxFaultsAssumption == MaxFaults \in Nat

VARIABLES
  proposals,  \* the agent's table (SQLite: survives a crash)
  endpoint,   \* the AI endpoint the agent's event loop is serving
  approval,   \* proposal -> status of the voucher keyed "proposal:{id}"
  sent,       \* proposal -> field list the write call carries
  gateway,    \* proposal -> progress of its write call in mcp-server
  write,      \* proposal -> progress of its PUT handler in business-mock
  crm,        \* customer -> tool -> stored fields or tags (MySQL)
  written,    \* proposal -> key -> times the key was written for it
  faults      \* crashes and statement failures so far

agentVars == <<proposals, endpoint>>
crmVars == <<approval, write, crm, written>>
vars == <<proposals, endpoint, approval, sent, gateway, write, crm,
          written, faults>>

(***************************************************************************)
(* The field lists a proposal starts from: the extractor and the tag rules *)
(* produce a non-empty list of known keys (an empty diff proposes nothing);*)
(* what it holds depends on facts and a language model, so it is any.      *)
(***************************************************************************)
Extracted ==
  {f \in Fields : KeysOf(f) # {} /\ KeysOf(f) \cap UnknownKeys = {}}

EndpointSteps ==
  {"idle", "issue", "send", "await", "resolve", "review", "reject", "edit"}

Idle == [step |-> "idle", pid |-> None, fields |-> NoFields]

Serving(step, p, fields) == [step |-> step, pid |-> p, fields |-> fields]

(***************************************************************************)
(* A handler of business-mock: its step and the keys still to be written.  *)
(***************************************************************************)
WriteSteps == {"none", "arrived", "clear", "upsert", "ok", "failed"}

Handler == [step : WriteSteps, left : SUBSET Keys]

NoHandler == [step |-> "none", left |-> {}]

TypeOK ==
  /\ RowsOK(proposals)
  /\ endpoint \in [step : EndpointSteps, pid : Proposals \cup {None},
                   fields : Fields]
  /\ endpoint.step # "idle" =>
       /\ endpoint.pid \in Proposals
       /\ proposals[endpoint.pid].status # "none"
  /\ approval \in [Proposals -> {"none", "pending", "consumed", "lapsed"}]
  /\ sent \in [Proposals -> Fields]
  /\ gateway \in [Proposals -> {"none", "gate", "put", "ok", "error"}]
  /\ write \in [Proposals -> Handler]
  /\ crm \in [Customers -> [Tools -> Fields]]
  /\ written \in [Proposals -> [Keys -> Nat]]
  /\ faults \in 0..MaxFaults

Init ==
  /\ proposals = [p \in Proposals |-> NoRow]
  /\ endpoint = Idle
  /\ approval = [p \in Proposals |-> "none"]
  /\ sent = [p \in Proposals |-> NoFields]
  /\ gateway = [p \in Proposals |-> "none"]
  /\ write = [p \in Proposals |-> NoHandler]
  /\ crm = [c \in Customers |-> [t \in Tools |-> NoFields]]
  /\ written = [p \in Proposals |-> [k \in Keys |-> 0]]
  /\ faults = 0

----------------------------------------------------------------------------
(***************************************************************************)
(* Clocks.                                                                 *)
(***************************************************************************)

\* Thirty minutes pass since p was created or last merged into.
ProposalDue(p) ==
  /\ proposals[p].status = "pending"
  /\ ~proposals[p].due
  /\ proposals' = [proposals EXCEPT ![p].due = TRUE]
  /\ UNCHANGED <<endpoint, sent, gateway, faults, crmVars>>

\* Thirty minutes pass since the voucher of p was issued.
ApprovalLapses(p) ==
  /\ approval[p] = "pending"
  /\ approval' = [approval EXCEPT ![p] = "lapsed"]
  /\ UNCHANGED <<agentVars, sent, gateway, write, crm, written, faults>>

----------------------------------------------------------------------------
(***************************************************************************)
(* Proposals arrive.  A profile refresh runs in a follow-up thread or in   *)
(* the event loop; it may run at any time, and touches the table once.     *)
(***************************************************************************)
ProfileRefresh(c, fields) ==
  /\ proposals' \in CreateOrMerge(proposals, c, "update_profile_field", fields)
  /\ UNCHANGED <<endpoint, sent, gateway, faults, crmVars>>

\* POST /tags/review runs in the event loop.
TagReview(c, fields) ==
  /\ endpoint = Idle
  /\ proposals' \in CreateOrMerge(proposals, c, "save_tags", fields)
  /\ UNCHANGED <<endpoint, sent, gateway, faults, crmVars>>

----------------------------------------------------------------------------
\* GET /proposals, which the employee's panels poll: lists what is pending.
ListProposals ==
  /\ endpoint = Idle
  /\ proposals' = ExpireDue(proposals)
  /\ UNCHANGED <<endpoint, sent, gateway, faults, crmVars>>

(***************************************************************************)
(* POST /proposals/{id}/confirm: the field list written is the one read    *)
(* here, by get.                                                           *)
(***************************************************************************)
ConfirmGet(p) ==
  /\ endpoint = Idle
  /\ proposals[p].status # "none"
  /\ proposals' = ExpireDue(proposals)
  /\ endpoint' = IF proposals'[p].status = "pending"
                   THEN Serving("issue", p, proposals'[p].fields)
                   ELSE Idle   \* 409
  /\ UNCHANGED <<sent, gateway, faults, crmVars>>

\* ApprovalRepository.save: idempotency_key is UNIQUE.
CanIssueAgain(p) == approval[p] \in {"none", "consumed", "lapsed", "pending"}

CanIssue(p) == approval[p] = "none"

\* issue_approval: the voucher is inserted, the answer arrives or is lost.
IssueApproval ==
  LET p == endpoint.pid IN
  /\ endpoint.step = "issue"
  /\ CanIssue(p)
  /\ approval' = [approval EXCEPT ![p] = "pending"]
  /\ sent' = [sent EXCEPT ![p] = endpoint.fields]
  /\ endpoint' \in {Serving("send", p, NoFields), Idle}
  /\ UNCHANGED <<proposals, gateway, write, crm, written, faults>>

\* business-mock is down, the customer is no longer the employee's, or the
\* key was used before: McpError leaves confirm_proposal.
IssueRefused ==
  /\ endpoint.step = "issue"
  /\ endpoint' = Idle
  /\ UNCHANGED <<proposals, sent, gateway, faults, crmVars>>

\* The write call reaches the gateway.  A key the gateway has answered before
\* is answered again from its memory.
SendWrite ==
  LET p == endpoint.pid IN
  /\ endpoint.step = "send"
  /\ gateway' = [gateway EXCEPT ![p] = IF @ = "ok" THEN "ok" ELSE "gate"]
  /\ endpoint' = [endpoint EXCEPT !.step = "await"]
  /\ UNCHANGED <<proposals, sent, faults, crmVars>>

\* The call's success reaches the agent.
WriteAcknowledgedEarly ==
  /\ endpoint.step = "await"
  /\ gateway[endpoint.pid] \in {"put", "ok"}
  /\ endpoint' = [endpoint EXCEPT !.step = "resolve"]
  /\ UNCHANGED <<proposals, sent, gateway, faults, crmVars>>

WriteAcknowledged ==
  /\ endpoint.step = "await"
  /\ gateway[endpoint.pid] = "ok"
  /\ endpoint' = [endpoint EXCEPT !.step = "resolve"]
  /\ UNCHANGED <<proposals, sent, gateway, faults, crmVars>>

\* The call fails, its answer is lost, or 5 s pass: the proposal stays.
WriteGivenUpOnError ==
  /\ endpoint.step \in {"send", "await"}
  /\ gateway[endpoint.pid] = "error"
  /\ endpoint' = Idle
  /\ UNCHANGED <<proposals, sent, gateway, faults, crmVars>>

WriteGivenUp ==
  /\ endpoint.step \in {"send", "await"}
  /\ endpoint' = Idle
  /\ UNCHANGED <<proposals, sent, gateway, faults, crmVars>>

\* resolve(id, "confirmed"); a confirmed profile is followed by a tag review.
ResolveConfirmed ==
  LET p == endpoint.pid IN
  /\ endpoint.step = "resolve"
  /\ proposals' = Resolve(proposals, p, "confirmed")
  /\ endpoint' = IF proposals[p].tool = "update_profile_field"
                   THEN [endpoint EXCEPT !.step = "review"] ELSE Idle
  /\ UNCHANGED <<sent, gateway, faults, crmVars>>

\* ops_subgraph.review: proposes tags, finds none, or fails; never raises.
ReviewAfterConfirm ==
  /\ endpoint.step = "review"
  /\ \/ \E f \in Extracted :
          proposals' \in CreateOrMerge(proposals,
                           proposals[endpoint.pid].customer, "save_tags", f)
     \/ UNCHANGED proposals
  /\ endpoint' = Idle
  /\ UNCHANGED <<sent, gateway, faults, crmVars>>

----------------------------------------------------------------------------
(***************************************************************************)
(* POST /proposals/{id}/reject and /proposals/{id}/tags: each reads the    *)
(* row and changes it in a second critical section.                        *)
(***************************************************************************)
RejectGet(p) ==
  /\ endpoint = Idle
  /\ proposals[p].status # "none"
  /\ proposals' = ExpireDue(proposals)
  /\ endpoint' = IF proposals'[p].status = "pending"
                   THEN Serving("reject", p, NoFields)
                   ELSE Idle   \* 409
  /\ UNCHANGED <<sent, gateway, faults, crmVars>>

RejectResolve ==
  /\ endpoint.step = "reject"
  /\ proposals' = Resolve(proposals, endpoint.pid, "rejected")
  /\ endpoint' = Idle
  /\ UNCHANGED <<sent, gateway, faults, crmVars>>

EditGet(p) ==
  /\ endpoint = Idle
  /\ proposals[p].status # "none"
  /\ proposals' = ExpireDue(proposals)
  /\ endpoint' = IF proposals[p].tool = "save_tags"
                   THEN Serving("edit", p, NoFields)
                   ELSE Idle   \* 422
  /\ UNCHANGED <<sent, gateway, faults, crmVars>>

\* The employee typed the new list: its keys may be unknown, or it is empty.
EditReplace(fields) ==
  /\ endpoint.step = "edit"
  /\ proposals' = ReplaceFields(proposals, endpoint.pid, fields)
  /\ endpoint' = Idle
  /\ UNCHANGED <<sent, gateway, faults, crmVars>>

----------------------------------------------------------------------------
(***************************************************************************)
(* mcp-server: ToolGateway._call_write, one thread per call.               *)
(***************************************************************************)

\* The ownership gate passes and the PUT leaves for business-mock.
GatewayForward(p) ==
  /\ gateway[p] = "gate"
  /\ KeysOf(sent[p]) # {}
  /\ gateway' = [gateway EXCEPT ![p] = "put"]
  /\ write' = [write EXCEPT ![p] = [step |-> "arrived", left |-> {}]]
  /\ UNCHANGED <<agentVars, approval, sent, crm, written, faults>>

\* The answer is stored under the key, then returned.
GatewayDone(p) ==
  /\ gateway[p] = "put"
  /\ write[p].step = "ok"
  /\ gateway' = [gateway EXCEPT ![p] = "ok"]
  /\ UNCHANGED <<agentVars, crmVars, sent, faults>>

\* Gate refused, empty list, error answer, or 2 s without one.
GatewayFails(p) ==
  /\ gateway[p] \in {"gate", "put"}
  /\ gateway' = [gateway EXCEPT ![p] = "error"]
  /\ UNCHANGED <<agentVars, crmVars, sent, faults>>

----------------------------------------------------------------------------
(***************************************************************************)
(* business-mock: ProfileService.applyUpdates and TagService.saveTags.     *)
(* No transaction: each SQL statement commits on its own.                  *)
(***************************************************************************)

\* The compare-and-set of ApprovalRepository.consume.
TokenUsable(p) == approval[p] = "pending"

\* Ownership and keys are checked, then the voucher is consumed.
ConsumeApproval(p) ==
  /\ write[p].step = "arrived"
  /\ KeysOf(sent[p]) \cap UnknownKeys = {}
  /\ TokenUsable(p)
  /\ approval' = [approval EXCEPT ![p] = "consumed"]
  /\ write' = [write EXCEPT ![p] =
                 [step |-> IF proposals[p].tool = "save_tags"
                             THEN "clear" ELSE "upsert",
                  left |-> KeysOf(sent[p])]]
  /\ UNCHANGED <<agentVars, sent, gateway, crm, written, faults>>

\* 403 or 400 before the voucher is touched.
RefuseWrite(p) ==
  /\ write[p].step = "arrived"
  /\ write' = [write EXCEPT ![p].step = "failed"]
  /\ UNCHANGED <<agentVars, approval, sent, gateway, crm, written, faults>>

\* CustomerTagRepository.replace: DELETE.
ClearTags(p) ==
  /\ write[p].step = "clear"
  /\ crm' = [crm EXCEPT ![proposals[p].customer]["save_tags"] = NoFields]
  /\ write' = [write EXCEPT ![p].step = "upsert"]
  /\ UNCHANGED <<agentVars, approval, sent, gateway, written, faults>>

\* A tag the customer already has: customer_tag is UNIQUE per customer and tag.
HasTag(p, k) ==
  /\ proposals[p].tool = "save_tags"
  /\ crm[proposals[p].customer]["save_tags"][k] # None

\* One upsert of a profile field, or one INSERT of a tag.
WriteField(p, k) ==
  /\ write[p].step = "upsert"
  /\ k \in write[p].left
  /\ ~HasTag(p, k)
  /\ crm' = [crm EXCEPT ![proposals[p].customer][proposals[p].tool][k] =
                           sent[p][k]]
  /\ written' = [written EXCEPT ![p][k] = @ + 1]
  /\ write' = [write EXCEPT ![p].left = @ \ {k}]
  /\ UNCHANGED <<agentVars, approval, sent, gateway, faults>>

\* The INSERT of a tag another handler wrote after this one's DELETE fails.
DuplicateTag(p, k) ==
  /\ write[p].step = "upsert"
  /\ k \in write[p].left
  /\ HasTag(p, k)
  /\ write' = [write EXCEPT ![p].step = "failed"]
  /\ UNCHANGED <<agentVars, approval, sent, gateway, crm, written, faults>>

FinishWriteEarly(p) ==
  /\ write[p].step = "upsert"
  /\ write' = [write EXCEPT ![p].step = "ok"]
  /\ UNCHANGED <<agentVars, approval, sent, gateway, crm, written, faults>>

FinishWrite(p) ==
  /\ write[p].step = "upsert"
  /\ write[p].left = {}
  /\ write' = [write EXCEPT ![p].step = "ok"]
  /\ UNCHANGED <<agentVars, approval, sent, gateway, crm, written, faults>>

----------------------------------------------------------------------------
(***************************************************************************)
(* Faults.                                                                 *)
(***************************************************************************)

\* A statement fails, or business-mock stops, before or after the voucher.
WriteAborts(p) ==
  /\ faults < MaxFaults
  /\ write[p].step \in {"arrived", "clear", "upsert"}
  /\ write' = [write EXCEPT ![p].step = "failed"]
  /\ faults' = faults + 1
  /\ UNCHANGED <<agentVars, approval, sent, gateway, crm, written>>

\* The agent restarts: the table survives, the endpoint being served is lost.
AgentCrash ==
  /\ faults < MaxFaults
  /\ endpoint # Idle
  /\ endpoint' = Idle
  /\ faults' = faults + 1
  /\ UNCHANGED <<proposals, sent, gateway, crmVars>>

\* mcp-server restarts: calls in progress fail, stored answers are forgotten.
GatewayCrash ==
  /\ faults < MaxFaults
  /\ gateway' = [p \in Proposals |->
                   IF gateway[p] = "none" THEN "none" ELSE "error"]
  /\ gateway' # gateway
  /\ faults' = faults + 1
  /\ UNCHANGED <<agentVars, crmVars, sent>>

----------------------------------------------------------------------------
EndpointStep ==
  \/ IssueApproval \/ IssueRefused \/ SendWrite \/ WriteAcknowledged
  \/ WriteGivenUp \/ ResolveConfirmed \/ ReviewAfterConfirm
  \/ RejectResolve \/ \E f \in Fields : EditReplace(f)

EndpointStart(p) == ConfirmGet(p) \/ RejectGet(p) \/ EditGet(p)

GatewayStep(p) == GatewayForward(p) \/ GatewayDone(p) \/ GatewayFails(p)

BusinessStep(p) ==
  \/ ConsumeApproval(p) \/ RefuseWrite(p) \/ ClearTags(p)
  \/ (\E k \in Keys : WriteField(p, k) \/ DuplicateTag(p, k))
  \/ FinishWrite(p)

Propose(c, f) == ProfileRefresh(c, f) \/ TagReview(c, f)

Next ==
  \/ \E c \in Customers, f \in Extracted : Propose(c, f)
  \/ ListProposals
  \/ EndpointStep
  \/ \E p \in Proposals :
       \/ ProposalDue(p) \/ ApprovalLapses(p) \/ EndpointStart(p)
       \/ GatewayStep(p) \/ BusinessStep(p) \/ WriteAborts(p)
  \/ AgentCrash
  \/ GatewayCrash

Spec == Init /\ [][Next]_vars

(***************************************************************************)
(* Fairness: HTTP timeouts bound every wait of an endpoint, so the one     *)
(* being served always takes another step; a handler of business-mock that *)
(* is running keeps running.                                               *)
(***************************************************************************)
Fairness ==
  /\ WF_vars(EndpointStep)
  /\ \A p \in Proposals : WF_vars(BusinessStep(p))

----------------------------------------------------------------------------
(***************************************************************************)
(* Properties that hold.                                                   *)
(***************************************************************************)

\* A customer has at most one pending proposal per tool, though refreshes run
\* in several threads at once: create_or_merge looks the row up and inserts it
\* in one critical section, after expiring the rows that are overdue.
SinglePending ==
  \A p, q \in Proposals :
    /\ proposals[p].status = "pending" /\ proposals[q].status = "pending"
    /\ proposals[p].customer = proposals[q].customer
    /\ proposals[p].tool = proposals[q].tool
    => p = q

\* No retry, late answer, crash or second confirmation writes a field of the
\* same proposal twice: one voucher per proposal, consumed once.
AppliedAtMostOnce ==
  \A p \in Proposals, k \in Keys : written[p][k] <= 1

\* Every field the write call of p carries is in the CRM's history.
FullyWritten(p) == \A k \in KeysOf(sent[p]) : written[p][k] = 1

\* A proposal is confirmed only when all that its confirmation sent has been
\* written: no answer that was lost, late or an error confirms it.
ConfirmedIsWritten ==
  \A p \in Proposals :
    proposals[p].status = "confirmed" => approval[p] = "consumed" /\ FullyWritten(p)

\* Where the proposal p counts as done: in a handler of business-mock, in the
\* gateway, in the endpoint that is about to confirm it, in the table.
Done(p) ==
  \/ write[p].step = "ok"
  \/ gateway[p] = "ok"
  \/ endpoint.step = "resolve" /\ endpoint.pid = p
  \/ proposals[p].status = "confirmed"

\* Each place that knows how far the write of p has come is right about it:
\* nothing is written before the voucher is consumed, a handler at work has
\* written the keys it no longer holds and no others, and "done" travels back
\* from business-mock to the table only when every key has been written.
VoucherAt(p) ==
  /\ approval[p] # "none" => proposals[p].status # "none"
  /\ approval[p] # "consumed" =>
       /\ write[p].step \in {"none", "arrived", "failed"}
       /\ \A k \in Keys : written[p][k] = 0
  /\ write[p].step = "clear" =>
       /\ proposals[p].tool = "save_tags"
       /\ write[p].left = KeysOf(sent[p])
       /\ \A k \in Keys : written[p][k] = 0
  /\ write[p].step = "upsert" =>
       /\ write[p].left \subseteq KeysOf(sent[p])
       /\ \A k \in Keys : written[p][k] =
            IF k \in KeysOf(sent[p]) \ write[p].left THEN 1 ELSE 0
  /\ \A k \in Keys : written[p][k] \in {0, 1}
  /\ Done(p) => approval[p] = "consumed" /\ FullyWritten(p)

VoucherInv == \A p \in Proposals : VoucherAt(p)

\* Confirmed, rejected and expired are final: an endpoint that read "pending"
\* before the row expired in a thread does not resolve it afterwards.
FinalStatusesStick ==
  [][\A p \in Proposals : proposals[p].status \in FinalStatuses =>
       proposals'[p].status = proposals[p].status]_vars

\* The endpoint being served always returns, so the event loop serves the next
\* one, whatever happens to the calls it makes.
EndpointReturns == endpoint # Idle ~> endpoint = Idle

\* Where nothing crashes, a consumed voucher becomes a complete write, even when
\* every caller has given up on it; the exception is a tag that another handler
\* of the same customer inserted in between.
ConsumedIsCarriedOut ==
  \A p \in Proposals :
    approval[p] = "consumed" ~>
      \/ FullyWritten(p)
      \/ faults > 0
      \/ write[p].step = "failed" /\ \E k \in write[p].left : HasTag(p, k)

\* The write path implements HumanGate: the voucher of a proposal is its grant.
Gate == INSTANCE HumanGate WITH
  granted <- [p \in Proposals |->
                IF approval[p] = "none" THEN None
                ELSE [customer |-> proposals[p].customer,
                      tool |-> proposals[p].tool, fields |-> sent[p]]],
  applied <- {pk \in Proposals \X Keys : written[pk[1]][pk[2]] > 0},
  record <- crm

ImplementsHumanGate == Gate!GateSpec

----------------------------------------------------------------------------
(***************************************************************************)
(* What the documents say and the code does not do.                        *)
(***************************************************************************)

\* "A proposal whose write failed stays pending and can be retried": the next
\* confirmation of a pending proposal can obtain its voucher.
PendingIsRetryable ==
  \A p \in Proposals :
    proposals[p].status = "pending" /\ endpoint.pid # p => CanIssue(p)

=============================================================================
