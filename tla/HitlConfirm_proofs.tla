------------------------- MODULE HitlConfirm_proofs -------------------------
(***************************************************************************)
(* Theorems about HitlConfirm and, at the end, about EmployeeCard, for     *)
(* every set of proposals, customers, keys and values, and every number of *)
(* faults.                                                                 *)
(***************************************************************************)
EXTENDS EmployeeCard, TLAPS

----------------------------------------------------------------------------
(***************************************************************************)
(* The methods of the proposal table.                                      *)
(***************************************************************************)

\* Rows in use stay in use, for the same customer and tool, and keep a final
\* status.
Extending(t, u) ==
  \A p \in Proposals :
    /\ t[p].status # "none" =>
         /\ u[p].status # "none"
         /\ u[p].customer = t[p].customer
         /\ u[p].tool = t[p].tool
    /\ t[p].status \in FinalStatuses => u[p].status = t[p].status

\* No row becomes confirmed or stops being so.
SameConfirmed(t, u) ==
  \A p \in Proposals : t[p].status = "confirmed" <=> u[p].status = "confirmed"

\* At most one pending row per customer and tool.
OnePending(t) ==
  \A p, q \in Proposals :
    /\ t[p].status = "pending" /\ t[q].status = "pending"
    /\ t[p].customer = t[q].customer
    /\ t[p].tool = t[q].tool
    => p = q

\* _expire_locked keeps the table well formed and only turns pending rows into
\* expired ones.
LEMMA ExpireDueLemma ==
  ASSUME NEW t, RowsOK(t)
  PROVE  /\ RowsOK(ExpireDue(t))
         /\ Extending(t, ExpireDue(t))
         /\ SameConfirmed(t, ExpireDue(t))
         /\ OnePending(t) => OnePending(ExpireDue(t))
<1> DEFINE u == ExpireDue(t)
<1>1. ASSUME NEW p \in Proposals
      PROVE  /\ u[p] \in Row
             /\ u[p].customer = t[p].customer
             /\ u[p].tool = t[p].tool
             /\ \/ u[p].status = t[p].status
                \/ /\ t[p].status = "pending"
                   /\ u[p].status = "expired"
  BY DEF ExpireDue, RowsOK, Table, Row, Statuses
<1>2. u \in Table
  BY <1>1 DEF ExpireDue, Table
<1>3. QED
  <2>1. "pending" \notin FinalStatuses
    BY DEF FinalStatuses
  <2>2. QED
    BY <1>1, <1>2, <2>1 DEF RowsOK, Extending, SameConfirmed, OnePending

\* _merge_fields of two field lists is a field list.
LEMMA MergeFieldsType ==
  ASSUME NEW f \in Fields, NEW g \in Fields
  PROVE  MergeFields(f, g) \in Fields
BY DEF MergeFields, Fields

\* create_or_merge keeps the table well formed, confirms nothing, and leaves at
\* most one pending row per customer and tool.
LEMMA CreateOrMergeLemma ==
  ASSUME NEW t, RowsOK(t), NEW c \in Customers, NEW tool \in Tools,
         NEW f \in Fields, NEW u \in CreateOrMerge(t, c, tool, f)
  PROVE  /\ RowsOK(u)
         /\ Extending(t, u)
         /\ SameConfirmed(t, u)
         /\ OnePending(t) => OnePending(u)
<1> DEFINE live == ExpireDue(t)
           open == PendingFor(live, c, tool)
<1>1. /\ RowsOK(live)
      /\ Extending(t, live)
      /\ SameConfirmed(t, live)
      /\ OnePending(t) => OnePending(live)
  BY ExpireDueLemma
<1> HIDE DEF live
<1>2. CASE open = {}
  <2>1. PICK p \in Unused(live) : u = Insert(live, p, c, tool, f)
    BY <1>2 DEF CreateOrMerge, live
  <2>2. p \in Proposals /\ live[p].status = "none"
    BY <2>1 DEF Unused
  <2>3. ASSUME NEW q \in Proposals
        PROVE  u[q] = IF q = p
                        THEN [customer |-> c, tool |-> tool, fields |-> f,
                              status |-> "pending", due |-> FALSE]
                        ELSE live[q]
    BY <2>1, <2>2, <1>1 DEF Insert, RowsOK, Table
  <2>4. u \in Table
    BY <2>1, <2>2, <2>3, <1>1 DEF Insert, RowsOK, Table, Row, Statuses
  <2>5. RowsOK(u) /\ Extending(live, u) /\ SameConfirmed(live, u)
    <3>1. "none" \notin FinalStatuses
      BY DEF FinalStatuses
    <3>2. QED
      BY <2>2, <2>3, <2>4, <3>1, <1>1 DEF RowsOK, Extending, SameConfirmed
  <2>6. OnePending(live) => OnePending(u)
    BY <1>2, <2>2, <2>3 DEF OnePending, PendingFor
  <2>7. QED
    BY <1>1, <2>5, <2>6 DEF Extending, SameConfirmed
<1>3. CASE open # {}
  <2>1. PICK p \in open : u = Merge(live, p, f)
    BY <1>3 DEF CreateOrMerge, live
  <2>2. p \in Proposals /\ live[p].status = "pending"
    BY <2>1 DEF PendingFor
  <2>3. live[p] \in Row /\ MergeFields(live[p].fields, f) \in Fields
    BY <2>2, <1>1, MergeFieldsType DEF RowsOK, Table, Row
  <2>4. ASSUME NEW q \in Proposals
        PROVE  u[q] = IF q = p
                        THEN [live[p] EXCEPT
                                !.fields = MergeFields(live[p].fields, f),
                                !.due = FALSE]
                        ELSE live[q]
    BY <2>1, <2>2, <1>1 DEF Merge, RowsOK, Table
  <2>5. u \in Table
    <3>1. u = [live EXCEPT ![p] = [live[p] EXCEPT
                                !.fields = MergeFields(live[p].fields, f),
                                !.due = FALSE]]
      BY <2>1, <2>2, <1>1 DEF Merge, RowsOK, Table
    <3>2. [live[p] EXCEPT !.fields = MergeFields(live[p].fields, f),
                          !.due = FALSE] \in Row
      BY <2>3 DEF Row
    <3>3. QED
      BY <3>1, <3>2, <1>1 DEF RowsOK, Table
  <2>6. ASSUME NEW q \in Proposals
        PROVE  /\ u[q].status = live[q].status
               /\ u[q].customer = live[q].customer
               /\ u[q].tool = live[q].tool
    BY <2>3, <2>4 DEF Row
  <2>7. /\ RowsOK(u) /\ Extending(live, u) /\ SameConfirmed(live, u)
        /\ OnePending(live) => OnePending(u)
    BY <2>5, <2>6, <1>1 DEF RowsOK, Extending, SameConfirmed, OnePending
  <2>8. QED
    BY <1>1, <2>7 DEF Extending, SameConfirmed
<1>4. QED
  BY <1>2, <1>3

\* resolve keeps the table well formed; only a pending row may become confirmed.
LEMMA ResolveLemma ==
  ASSUME NEW t, RowsOK(t), NEW p \in Proposals,
         NEW s \in FinalStatuses, NEW u, u = Resolve(t, p, s)
  PROVE  /\ RowsOK(u)
         /\ Extending(t, u)
         /\ \A q \in Proposals \ {p} : u[q] = t[q]
         /\ u[p].status = t[p].status \/ u[p].status = s
         /\ OnePending(t) => OnePending(u)
<1>1. CASE t[p].status # "pending"
  BY <1>1 DEF Resolve, Extending
<1>2. CASE t[p].status = "pending"
  <2>1. t[p] \in Row /\ t \in Table
    BY DEF RowsOK, Table
  <2>2. u = [t EXCEPT ![p] = [t[p] EXCEPT !.status = s, !.due = FALSE]]
    BY <1>2, <2>1 DEF Resolve, Table
  <2>3. [t[p] EXCEPT !.status = s, !.due = FALSE] \in Row
    BY <2>1 DEF Row, Statuses, FinalStatuses
  <2>4. u \in Table /\ \A q \in Proposals \ {p} : u[q] = t[q]
    BY <2>1, <2>2, <2>3 DEF Table
  <2>5. /\ u[p].status = s
        /\ u[p].customer = t[p].customer
        /\ u[p].tool = t[p].tool
    BY <2>1, <2>2 DEF Row, Table
  <2>6. Extending(t, u)
    BY <1>2, <2>4, <2>5 DEF Extending, FinalStatuses
  <2>7. RowsOK(u)
    BY <1>2, <2>4, <2>5 DEF RowsOK
  <2>8. OnePending(t) => OnePending(u)
    BY <2>4, <2>5 DEF OnePending, FinalStatuses
  <2>9. QED
    BY <2>4, <2>5, <2>6, <2>7, <2>8
<1>3. QED
  BY <1>1, <1>2

\* replace_fields keeps everything but the field list of a pending row.
LEMMA ReplaceFieldsLemma ==
  ASSUME NEW t, RowsOK(t), NEW p \in Proposals, NEW f \in Fields
  PROVE  /\ RowsOK(ReplaceFields(t, p, f))
         /\ Extending(t, ReplaceFields(t, p, f))
         /\ SameConfirmed(t, ReplaceFields(t, p, f))
         /\ OnePending(t) => OnePending(ReplaceFields(t, p, f))
<1> DEFINE u == ReplaceFields(t, p, f)
<1>1. CASE t[p].status # "pending"
  BY <1>1 DEF ReplaceFields, Extending, SameConfirmed
<1>2. CASE t[p].status = "pending"
  <2>1. [t[p] EXCEPT !.fields = f] \in Row
    BY DEF RowsOK, Table, Row
  <2>2. u \in Table
    BY <1>2, <2>1 DEF ReplaceFields, RowsOK, Table
  <2>3. ASSUME NEW q \in Proposals
        PROVE  /\ u[q].status = t[q].status
               /\ u[q].customer = t[q].customer
               /\ u[q].tool = t[q].tool
    BY <1>2 DEF ReplaceFields, RowsOK, Table, Row
  <2>4. QED
    BY <2>2, <2>3 DEF RowsOK, Extending, SameConfirmed, OnePending
<1>3. QED
  BY <1>1, <1>2

----------------------------------------------------------------------------
(***************************************************************************)
(* What a step does to the proposal table, whichever step it is.           *)
(***************************************************************************)

\* A profile refresh or a tag review proposes through create_or_merge.
LEMMA ProposeTable ==
  ASSUME TypeOK, NEW c \in Customers, NEW f \in Extracted, Propose(c, f)
  PROVE  /\ RowsOK(proposals')
         /\ Extending(proposals, proposals')
         /\ SameConfirmed(proposals, proposals')
         /\ OnePending(proposals) => OnePending(proposals')
<1>1. f \in Fields /\ RowsOK(proposals)
  BY DEF Extracted, TypeOK
<1>2. PICK tool \in Tools :
        proposals' \in CreateOrMerge(proposals, c, tool, f)
  BY DEF Propose, ProfileRefresh, TagReview, Tools
<1>3. QED
  BY <1>1, <1>2, CreateOrMergeLemma

\* The requests that only read or open an endpoint expire the overdue rows.
LEMMA ReadTable ==
  ASSUME TypeOK, NEW p \in Proposals, ListProposals \/ EndpointStart(p)
  PROVE  /\ RowsOK(proposals')
         /\ Extending(proposals, proposals')
         /\ SameConfirmed(proposals, proposals')
         /\ OnePending(proposals) => OnePending(proposals')
<1>1. RowsOK(proposals) /\ proposals' = ExpireDue(proposals)
  BY DEF TypeOK, ListProposals, EndpointStart, ConfirmGet, RejectGet, EditGet
<1>2. QED
  BY <1>1, ExpireDueLemma

\* An endpoint confirms a proposal only in its step "resolve".
LEMMA EndpointTable ==
  ASSUME TypeOK, EndpointStep
  PROVE  /\ RowsOK(proposals')
         /\ Extending(proposals, proposals')
         /\ OnePending(proposals) => OnePending(proposals')
         /\ \A p \in Proposals :
              proposals'[p].status = "confirmed" =>
                \/ proposals[p].status = "confirmed"
                \/ endpoint.step = "resolve" /\ endpoint.pid = p
<1> DEFINE e == endpoint.pid
<1>1. RowsOK(proposals)
  BY DEF TypeOK
<1>2. CASE UNCHANGED proposals
  BY <1>1, <1>2 DEF Extending
<1>3. CASE ResolveConfirmed
  <2>1. e \in Proposals /\ proposals' = Resolve(proposals, e, "confirmed")
    BY <1>3 DEF ResolveConfirmed, TypeOK
  <2>2. endpoint.step = "resolve" /\ "confirmed" \in FinalStatuses
    BY <1>3 DEF ResolveConfirmed, FinalStatuses
  <2>3. /\ RowsOK(proposals')
        /\ Extending(proposals, proposals')
        /\ \A q \in Proposals \ {e} : proposals'[q] = proposals[q]
        /\ OnePending(proposals) => OnePending(proposals')
    BY <1>1, <2>1, <2>2, ResolveLemma
  <2>4. QED
    BY <2>2, <2>3
<1>4. CASE ReviewAfterConfirm /\ ~UNCHANGED proposals
  <2>1. /\ e \in Proposals
        /\ proposals[e].customer \in Customers
    BY <1>4 DEF ReviewAfterConfirm, TypeOK, RowsOK
  <2>2. PICK f \in Extracted :
          proposals' \in CreateOrMerge(proposals, proposals[e].customer,
                                       "save_tags", f)
    BY <1>4 DEF ReviewAfterConfirm
  <2>3. f \in Fields /\ "save_tags" \in Tools
    BY DEF Extracted, Tools
  <2>4. QED
    BY <1>1, <2>1, <2>2, <2>3, CreateOrMergeLemma DEF SameConfirmed
<1>5. CASE RejectResolve
  <2>1. /\ e \in Proposals /\ "rejected" \in FinalStatuses
        /\ proposals' = Resolve(proposals, e, "rejected")
    BY <1>5 DEF RejectResolve, TypeOK, FinalStatuses
  <2>2. /\ RowsOK(proposals')
        /\ Extending(proposals, proposals')
        /\ \A q \in Proposals \ {e} : proposals'[q] = proposals[q]
        /\ \/ proposals'[e].status = proposals[e].status
           \/ proposals'[e].status = "rejected"
        /\ OnePending(proposals) => OnePending(proposals')
    BY <1>1, <2>1, ResolveLemma
  <2>3. QED
    BY <2>1, <2>2
<1>6. ASSUME NEW f \in Fields, EditReplace(f)
      PROVE  /\ RowsOK(proposals')
             /\ Extending(proposals, proposals')
             /\ SameConfirmed(proposals, proposals')
             /\ OnePending(proposals) => OnePending(proposals')
  <2>1. e \in Proposals /\ proposals' = ReplaceFields(proposals, e, f)
    BY <1>6 DEF EditReplace, TypeOK
  <2>2. QED
    BY <1>1, <2>1, ReplaceFieldsLemma
<1>7. QED
  BY <1>2, <1>3, <1>4, <1>5, <1>6
  DEF EndpointStep, IssueApproval, IssueRefused, SendWrite,
      WriteAcknowledged, WriteGivenUp, SameConfirmed

\* The clock makes a pending row due and changes nothing else.
LEMMA DueTable ==
  ASSUME TypeOK, NEW p \in Proposals, ProposalDue(p)
  PROVE  /\ RowsOK(proposals')
         /\ Extending(proposals, proposals')
         /\ SameConfirmed(proposals, proposals')
         /\ OnePending(proposals) => OnePending(proposals')
<1>1. RowsOK(proposals) /\ proposals' = [proposals EXCEPT ![p].due = TRUE]
  BY DEF TypeOK, ProposalDue
<1>2. [proposals[p] EXCEPT !.due = TRUE] \in Row
  BY <1>1 DEF RowsOK, Table, Row
<1>3. proposals' \in Table
  BY <1>1, <1>2 DEF RowsOK, Table
<1>4. ASSUME NEW q \in Proposals
      PROVE  /\ proposals'[q].status = proposals[q].status
             /\ proposals'[q].customer = proposals[q].customer
             /\ proposals'[q].tool = proposals[q].tool
  BY <1>1 DEF RowsOK, Table, Row
<1>5. QED
  BY <1>1, <1>3, <1>4 DEF RowsOK, Extending, SameConfirmed, OnePending

\* Every other step leaves the table alone.
OtherStep ==
  \/ \E p \in Proposals :
       ApprovalLapses(p) \/ GatewayStep(p) \/ BusinessStep(p) \/ WriteAborts(p)
  \/ AgentCrash
  \/ GatewayCrash

LEMMA OtherTable ==
  ASSUME OtherStep
  PROVE  proposals' = proposals
BY DEF OtherStep, ApprovalLapses, GatewayStep, GatewayForward, GatewayDone,
       GatewayFails, BusinessStep, ConsumeApproval, RefuseWrite, ClearTags,
       WriteField, DuplicateTag, FinishWrite, WriteAborts, AgentCrash,
       GatewayCrash, agentVars

\* A step of the system keeps the table well formed, with one pending row per
\* customer and tool, and confirms only what the endpoint is resolving.
LEMMA TableStep ==
  ASSUME TypeOK, [Next]_vars
  PROVE  /\ RowsOK(proposals')
         /\ Extending(proposals, proposals')
         /\ OnePending(proposals) => OnePending(proposals')
         /\ \A p \in Proposals :
              proposals'[p].status = "confirmed" =>
                \/ proposals[p].status = "confirmed"
                \/ endpoint.step = "resolve" /\ endpoint.pid = p
<1>1. CASE UNCHANGED proposals
  BY <1>1 DEF TypeOK, Extending
<1>2. CASE \E c \in Customers, f \in Extracted : Propose(c, f)
  BY <1>2, ProposeTable DEF SameConfirmed
<1>3. CASE ListProposals
  <2>1. RowsOK(proposals) /\ proposals' = ExpireDue(proposals)
    BY <1>3 DEF TypeOK, ListProposals
  <2>2. QED
    BY <2>1, ExpireDueLemma DEF SameConfirmed
<1>4. CASE EndpointStep
  BY <1>4, EndpointTable
<1>5. CASE \E p \in Proposals : EndpointStart(p)
  BY <1>5, ReadTable DEF SameConfirmed
<1>6. CASE \E p \in Proposals : ProposalDue(p)
  BY <1>6, DueTable DEF SameConfirmed
<1>7. CASE OtherStep
  BY <1>1, <1>7, OtherTable
<1>8. QED
  BY <1>1, <1>2, <1>3, <1>4, <1>5, <1>6, <1>7 DEF Next, OtherStep, vars

----------------------------------------------------------------------------
(***************************************************************************)
(* Type correctness.                                                       *)
(***************************************************************************)

LEMMA NoFieldsType == NoFields \in Fields /\ KeysOf(NoFields) = {}
BY DEF NoFields, Fields, KeysOf

LEMMA InitType == Init => TypeOK
<1> SUFFICES ASSUME Init PROVE TypeOK
  OBVIOUS
<1>1. RowsOK(proposals)
  BY NoFieldsType DEF Init, RowsOK, Table, NoRow, Row, Statuses
<1>2. /\ endpoint.step = "idle"
      /\ endpoint \in [step : EndpointSteps, pid : Proposals \cup {None},
                      fields : Fields]
  BY NoFieldsType DEF Init, Idle, EndpointSteps
<1>3. write \in [Proposals -> Handler] /\ faults \in 0..MaxFaults
  BY MaxFaultsAssumption DEF Init, NoHandler, Handler, WriteSteps
<1>4. QED
  BY <1>1, <1>2, <1>3, NoFieldsType DEF Init, TypeOK

\* The types of what the CRM side keeps.
CrmTypes ==
  /\ approval \in [Proposals -> {"none", "pending", "consumed", "lapsed"}]
  /\ write \in [Proposals -> Handler]
  /\ crm \in [Customers -> [Tools -> Fields]]
  /\ written \in [Proposals -> [Keys -> Nat]]

\* The type of the endpoint being served.
EndpointType ==
  /\ endpoint \in [step : EndpointSteps, pid : Proposals \cup {None},
                   fields : Fields]
  /\ endpoint.step # "idle" =>
       /\ endpoint.pid \in Proposals
       /\ proposals[endpoint.pid].status # "none"

LEMMA IdleType == ASSUME endpoint = Idle PROVE EndpointType
BY NoFieldsType DEF EndpointType, Idle, EndpointSteps

LEMMA EndpointTypeStep ==
  ASSUME TypeOK, [Next]_vars
  PROVE  EndpointType'
<1>1. RowsOK(proposals) /\ RowsOK(proposals') /\ Extending(proposals, proposals')
  BY TableStep DEF TypeOK
<1>2. EndpointType
  BY DEF TypeOK, EndpointType
<1>3. CASE endpoint' = Idle
  BY <1>3, NoFieldsType DEF EndpointType, Idle, EndpointSteps
<1>4. CASE endpoint' = endpoint
  BY <1>1, <1>2, <1>4 DEF EndpointType, Extending
<1>5. CASE \E s \in EndpointSteps : endpoint' = [endpoint EXCEPT !.step = s]
                                  /\ endpoint.step # "idle"
  BY <1>1, <1>2, <1>5 DEF EndpointType, Extending
<1>6. CASE \E s \in EndpointSteps, p \in Proposals, f \in Fields :
             /\ endpoint' = Serving(s, p, f)
             /\ proposals[p].status # "none"
  BY <1>1, <1>6 DEF EndpointType, Extending, Serving
<1>7. CASE EndpointStep
  <2>1. CASE IssueApproval
    <3>1. /\ endpoint.pid \in Proposals
          /\ proposals[endpoint.pid].status # "none"
      BY <1>2, <2>1 DEF IssueApproval, EndpointType
    <3>2. "send" \in EndpointSteps
      BY DEF EndpointSteps
    <3>3. QED
      BY <1>3, <1>6, <2>1, <3>1, <3>2, NoFieldsType DEF IssueApproval
  <2>2. CASE SendWrite \/ WriteAcknowledged \/ ResolveConfirmed
    BY <1>3, <1>5, <2>2
    DEF SendWrite, WriteAcknowledged, ResolveConfirmed, EndpointSteps
  <2>3. QED
    BY <1>3, <1>7, <2>1, <2>2
    DEF EndpointStep, IssueRefused, WriteGivenUp, ReviewAfterConfirm,
        RejectResolve, EditReplace
<1>8. ASSUME NEW p \in Proposals, EndpointStart(p)
      PROVE  EndpointType'
  <2>1. proposals[p].status # "none" /\ NoFields \in Fields
    BY <1>8, NoFieldsType DEF EndpointStart, ConfirmGet, RejectGet, EditGet
  <2>2. proposals'[p].fields \in Fields
    BY <1>1 DEF RowsOK, Table, Row
  <2>3. {"issue", "reject", "edit"} \subseteq EndpointSteps
    BY DEF EndpointSteps
  <2>4. QED
    BY <1>3, <1>6, <1>8, <2>1, <2>2, <2>3
    DEF EndpointStart, ConfirmGet, RejectGet, EditGet
<1>9. QED
  BY <1>3, <1>4, <1>7, <1>8
  DEF Next, vars, Propose, ProfileRefresh, TagReview, ListProposals,
      ProposalDue, ApprovalLapses, GatewayStep, GatewayForward, GatewayDone,
      GatewayFails, BusinessStep, ConsumeApproval, RefuseWrite, ClearTags,
      WriteField, DuplicateTag, FinishWrite, WriteAborts, AgentCrash,
      GatewayCrash, agentVars

\* A step of a handler of business-mock, or of a voucher's clock.
LEMMA CrmTypesStep ==
  ASSUME TypeOK, NEW p \in Proposals,
         \/ ApprovalLapses(p) \/ GatewayStep(p)
         \/ BusinessStep(p) \/ WriteAborts(p)
  PROVE  CrmTypes'
<1>0. /\ CrmTypes /\ sent \in [Proposals -> Fields]
      /\ NoFields \in Fields
  BY NoFieldsType DEF TypeOK, CrmTypes
<1>1. CASE ApprovalLapses(p)
  BY <1>0, <1>1 DEF CrmTypes, ApprovalLapses
<1>2. CASE GatewayStep(p)
  <2>1. CASE GatewayForward(p)
    <3>1. [step |-> "arrived", left |-> {}] \in Handler
      BY DEF Handler, WriteSteps
    <3>2. write' \in [Proposals -> Handler]
      BY <1>0, <2>1, <3>1 DEF CrmTypes, GatewayForward
    <3>3. QED
      BY <1>0, <2>1, <3>2 DEF CrmTypes, GatewayForward
  <2>2. CASE UNCHANGED crmVars
    BY <1>0, <2>2 DEF CrmTypes, crmVars
  <2>3. QED
    BY <1>2, <2>1, <2>2 DEF GatewayStep, GatewayDone, GatewayFails
<1>3. CASE ConsumeApproval(p)
  BY <1>0, <1>3 DEF CrmTypes, ConsumeApproval, Handler, WriteSteps, KeysOf
<1>4. CASE RefuseWrite(p) \/ FinishWrite(p) \/ WriteAborts(p)
  <2>1. "failed" \in WriteSteps /\ "ok" \in WriteSteps
    BY DEF WriteSteps
  <2>2. PICK s \in WriteSteps : write' = [write EXCEPT ![p].step = s]
    BY <1>4, <2>1 DEF RefuseWrite, FinishWrite, WriteAborts
  <2>3. write' \in [Proposals -> Handler]
    BY <1>0, <2>2 DEF CrmTypes, Handler
  <2>4. QED
    BY <1>0, <1>4, <2>3 DEF CrmTypes, RefuseWrite, FinishWrite, WriteAborts
<1>5. CASE ClearTags(p)
  <2>1. "save_tags" \in Tools
    BY DEF Tools
  <2>2. crm' \in [Customers -> [Tools -> Fields]]
    BY <1>0, <1>5, <2>1 DEF CrmTypes, ClearTags
  <2>3. write' \in [Proposals -> Handler]
    BY <1>0, <1>5 DEF CrmTypes, ClearTags, Handler, WriteSteps
  <2>4. QED
    BY <1>0, <1>5, <2>2, <2>3 DEF CrmTypes, ClearTags
<1>6. ASSUME NEW k \in Keys, WriteField(p, k)
      PROVE  CrmTypes'
  <2> DEFINE c == proposals[p].customer
             t == proposals[p].tool
  <2>1. sent[p][k] \in Values \cup {None}
    BY <1>0 DEF Fields
  <2>2. crm' \in [Customers -> [Tools -> Fields]]
    <3>1. crm' = [crm EXCEPT ![c][t][k] = sent[p][k]]
      BY <1>6 DEF WriteField
    <3>2. ASSUME NEW d \in Customers, NEW u \in Tools
          PROVE  crm'[d][u] \in Fields
      <4>1. crm[d][u] \in Fields
        BY <1>0 DEF CrmTypes
      <4>2. [crm[d][u] EXCEPT ![k] = sent[p][k]] \in Fields
        BY <2>1, <4>1 DEF Fields
      <4>3. crm'[d][u] = IF d = c /\ u = t
                           THEN [crm[d][u] EXCEPT ![k] = sent[p][k]]
                           ELSE crm[d][u]
        BY <1>0, <3>1 DEF CrmTypes
      <4>4. QED
        BY <4>1, <4>2, <4>3
    <3>3. QED
      BY <1>0, <3>1, <3>2 DEF CrmTypes
  <2>3. written' \in [Proposals -> [Keys -> Nat]]
    BY <1>0, <1>6 DEF CrmTypes, WriteField
  <2>4. write' \in [Proposals -> Handler]
    BY <1>0, <1>6 DEF CrmTypes, WriteField, Handler
  <2>5. QED
    BY <1>0, <1>6, <2>2, <2>3, <2>4 DEF CrmTypes, WriteField
<1>7. ASSUME NEW k \in Keys, DuplicateTag(p, k)
      PROVE  CrmTypes'
  BY <1>0, <1>7 DEF CrmTypes, DuplicateTag, Handler, WriteSteps
<1>8. QED
  BY <1>1, <1>2, <1>3, <1>4, <1>5, <1>6, <1>7 DEF BusinessStep

LEMMA TypeStep == TypeOK /\ [Next]_vars => TypeOK'
<1> SUFFICES ASSUME TypeOK, [Next]_vars PROVE TypeOK'
  OBVIOUS
<1>1. RowsOK(proposals') /\ EndpointType'
  BY TableStep, EndpointTypeStep
<1>2. CrmTypes'
  <2>1. CASE UNCHANGED crmVars
    BY <2>1 DEF TypeOK, CrmTypes, crmVars
  <2>2. CASE IssueApproval
    BY <2>2 DEF TypeOK, CrmTypes, IssueApproval
  <2>3. CASE EndpointStep /\ ~IssueApproval
    BY <2>1, <2>3
    DEF EndpointStep, IssueRefused, SendWrite, WriteAcknowledged, WriteGivenUp,
        ResolveConfirmed, ReviewAfterConfirm, RejectResolve, EditReplace
  <2>4. QED
    BY <2>1, <2>2, <2>3, CrmTypesStep
    DEF Next, vars, crmVars, Propose, ProfileRefresh, TagReview, ListProposals,
        EndpointStart, ConfirmGet, RejectGet, EditGet, ProposalDue, AgentCrash,
        GatewayCrash
<1>3. sent' \in [Proposals -> Fields]
  <2>1. CASE IssueApproval
    BY <2>1 DEF TypeOK, IssueApproval
  <2>2. CASE UNCHANGED sent
    BY <2>2 DEF TypeOK
  <2>3. QED
    BY <2>1, <2>2
    DEF Next, vars, Propose, ProfileRefresh, TagReview, ListProposals,
        EndpointStep, IssueRefused, SendWrite, WriteAcknowledged, WriteGivenUp,
        ResolveConfirmed, ReviewAfterConfirm, RejectResolve, EditReplace,
        EndpointStart, ConfirmGet, RejectGet, EditGet, ProposalDue,
        ApprovalLapses, GatewayStep, GatewayForward, GatewayDone, GatewayFails,
        BusinessStep, ConsumeApproval, RefuseWrite, ClearTags, WriteField,
        DuplicateTag, FinishWrite, WriteAborts, AgentCrash, GatewayCrash
<1>4. gateway' \in [Proposals -> {"none", "gate", "put", "ok", "error"}]
  <2>1. CASE UNCHANGED gateway
    BY <2>1 DEF TypeOK
  <2>2. CASE SendWrite
    BY <2>2 DEF TypeOK, SendWrite
  <2>3. CASE GatewayCrash
    BY <2>3 DEF TypeOK, GatewayCrash
  <2>4. ASSUME NEW p \in Proposals, GatewayStep(p)
        PROVE  gateway' \in [Proposals -> {"none", "gate", "put", "ok", "error"}]
    BY <2>4 DEF TypeOK, GatewayStep, GatewayForward, GatewayDone, GatewayFails
  <2>5. QED
    BY <2>1, <2>2, <2>3, <2>4
    DEF Next, vars, Propose, ProfileRefresh, TagReview, ListProposals,
        EndpointStep, IssueApproval, IssueRefused, WriteAcknowledged,
        WriteGivenUp, ResolveConfirmed, ReviewAfterConfirm, RejectResolve,
        EditReplace, EndpointStart, ConfirmGet, RejectGet, EditGet,
        ProposalDue, ApprovalLapses, BusinessStep, ConsumeApproval,
        RefuseWrite, ClearTags, WriteField, DuplicateTag, FinishWrite,
        WriteAborts, AgentCrash
<1>5. faults' \in 0..MaxFaults
  <2>1. faults \in 0..MaxFaults /\ MaxFaults \in Nat
    BY MaxFaultsAssumption DEF TypeOK
  <2>2. faults' = faults \/ (faults < MaxFaults /\ faults' = faults + 1)
    BY DEF Next, vars, Propose, ProfileRefresh, TagReview, ListProposals,
        EndpointStep, IssueApproval, IssueRefused, SendWrite,
        WriteAcknowledged, WriteGivenUp, ResolveConfirmed, ReviewAfterConfirm,
        RejectResolve, EditReplace, EndpointStart, ConfirmGet, RejectGet,
        EditGet, ProposalDue, ApprovalLapses, GatewayStep, GatewayForward,
        GatewayDone, GatewayFails, BusinessStep, ConsumeApproval, RefuseWrite,
        ClearTags, WriteField, DuplicateTag, FinishWrite, WriteAborts,
        AgentCrash, GatewayCrash
  <2>3. QED
    BY <2>1, <2>2
<1>6. QED
  BY <1>1, <1>2, <1>3, <1>4, <1>5 DEF TypeOK, EndpointType, CrmTypes

\* The table, the vouchers, the calls and the CRM keep their types whatever
\* crashes, is lost or is late.
THEOREM TypeCorrect == Spec => []TypeOK
BY InitType, TypeStep, PTL DEF Spec

\* However many refreshes run at once, a customer has at most one pending
\* proposal per tool.
THEOREM OnePendingProposal == Spec => []SinglePending
<1>1. Init => SinglePending
  BY DEF Init, SinglePending, NoRow
<1>2. TypeOK /\ SinglePending /\ [Next]_vars => SinglePending'
  BY TableStep DEF SinglePending, OnePending
<1>3. QED
  BY <1>1, <1>2, TypeCorrect, PTL DEF Spec

----------------------------------------------------------------------------
(***************************************************************************)
(* The voucher invariant: it is inductive relative to TypeOK.              *)
(***************************************************************************)

LEMMA VoucherInit == Init => VoucherInv
<1> SUFFICES ASSUME Init, NEW p \in Proposals PROVE VoucherAt(p)
  BY DEF VoucherInv
<1>1. /\ approval[p] = "none" /\ gateway[p] = "none"
      /\ write[p].step = "none" /\ proposals[p].status = "none"
      /\ endpoint.step = "idle"
      /\ \A k \in Keys : written[p][k] = 0
  BY DEF Init, NoHandler, NoRow, Idle
<1>2. ~Done(p)
  BY <1>1 DEF Done
<1>3. QED
  BY <1>1, <1>2 DEF VoucherAt

\* "Done" is only learnt from a place that knew it; the first is the handler
\* that finishes.
LEMMA DoneStep ==
  ASSUME TypeOK, [Next]_vars, NEW p \in Proposals, Done(p)'
  PROVE  Done(p) \/ FinishWrite(p)
<1>1. ASSUME proposals'[p].status = "confirmed" PROVE Done(p)
  BY <1>1, TableStep DEF Done
<1>2. ASSUME endpoint'.step = "resolve", endpoint'.pid = p PROVE Done(p)
  <2>1. CASE UNCHANGED endpoint
    BY <1>2, <2>1 DEF Done
  <2>2. CASE WriteAcknowledged
    BY <1>2, <2>2 DEF WriteAcknowledged, Done, TypeOK
  <2>3. ASSUME endpoint'.step # "resolve" PROVE FALSE
    BY <1>2, <2>3
  <2>4. Idle.step # "resolve"
    BY DEF Idle
  <2>5. CASE EndpointStep /\ ~WriteAcknowledged
    BY <2>3, <2>4, <2>5
    DEF EndpointStep, IssueApproval, IssueRefused, SendWrite, WriteGivenUp,
        ResolveConfirmed, ReviewAfterConfirm, RejectResolve, EditReplace,
        Serving, TypeOK
  <2>6. ASSUME NEW q \in Proposals, EndpointStart(q) PROVE FALSE
    BY <2>3, <2>4, <2>6 DEF EndpointStart, ConfirmGet, RejectGet, EditGet, Serving
  <2>7. CASE AgentCrash
    BY <2>3, <2>4, <2>7 DEF AgentCrash
  <2>8. QED
    BY <2>1, <2>2, <2>5, <2>6, <2>7
    DEF Next, vars, Propose, ProfileRefresh, TagReview, ListProposals,
        ProposalDue, ApprovalLapses, GatewayStep, GatewayForward, GatewayDone,
        GatewayFails, BusinessStep, ConsumeApproval, RefuseWrite, ClearTags,
        WriteField, DuplicateTag, FinishWrite, WriteAborts, GatewayCrash,
        agentVars
<1>3. ASSUME gateway'[p] = "ok" PROVE Done(p)
  <2>1. CASE UNCHANGED gateway
    BY <1>3, <2>1 DEF Done
  <2>2. CASE SendWrite
    BY <1>3, <2>2 DEF SendWrite, Done, TypeOK
  <2>3. CASE GatewayCrash
    BY <1>3, <2>3 DEF GatewayCrash
  <2>4. ASSUME NEW q \in Proposals, GatewayStep(q) PROVE Done(p)
    BY <1>3, <2>4
    DEF GatewayStep, GatewayForward, GatewayDone, GatewayFails, Done, TypeOK
  <2>5. QED
    BY <2>1, <2>2, <2>3, <2>4
    DEF Next, vars, Propose, ProfileRefresh, TagReview, ListProposals,
        EndpointStep, IssueApproval, IssueRefused, WriteAcknowledged,
        WriteGivenUp, ResolveConfirmed, ReviewAfterConfirm, RejectResolve,
        EditReplace, EndpointStart, ConfirmGet, RejectGet, EditGet,
        ProposalDue, ApprovalLapses, BusinessStep, ConsumeApproval,
        RefuseWrite, ClearTags, WriteField, DuplicateTag, FinishWrite,
        WriteAborts, AgentCrash
<1>4. ASSUME write'[p].step = "ok" PROVE Done(p) \/ FinishWrite(p)
  <2>1. CASE UNCHANGED write
    BY <1>4, <2>1 DEF Done
  <2>2. write \in [Proposals -> Handler]
    BY DEF TypeOK
  <2>3. ASSUME NEW q \in Proposals,
               \/ GatewayForward(q) \/ BusinessStep(q) \/ WriteAborts(q)
        PROVE  Done(p) \/ FinishWrite(p)
    <3>1. CASE GatewayForward(q)
      BY <1>4, <2>2, <3>1 DEF GatewayForward, Done
    <3>2. CASE ConsumeApproval(q)
      BY <1>4, <2>2, <3>2 DEF ConsumeApproval, Done
    <3>3. CASE RefuseWrite(q) \/ WriteAborts(q)
      BY <1>4, <2>2, <3>3 DEF RefuseWrite, WriteAborts, Done, Handler
    <3>4. CASE ClearTags(q) \/ FinishWrite(q)
      BY <1>4, <2>2, <3>4 DEF ClearTags, FinishWrite, Done, Handler
    <3>5. ASSUME NEW k \in Keys, WriteField(q, k) PROVE Done(p)
      BY <1>4, <2>2, <3>5 DEF WriteField, Done, Handler
    <3>6. ASSUME NEW k \in Keys, DuplicateTag(q, k) PROVE Done(p)
      BY <1>4, <2>2, <3>6 DEF DuplicateTag, Done, Handler
    <3>7. QED
      BY <2>3, <3>1, <3>2, <3>3, <3>4, <3>5, <3>6 DEF BusinessStep
  <2>4. QED
    BY <2>1, <2>3
    DEF Next, vars, crmVars, Propose, ProfileRefresh, TagReview, ListProposals,
        EndpointStep, IssueApproval, IssueRefused, SendWrite,
        WriteAcknowledged, WriteGivenUp, ResolveConfirmed, ReviewAfterConfirm,
        RejectResolve, EditReplace, EndpointStart, ConfirmGet, RejectGet,
        EditGet, ProposalDue, ApprovalLapses, GatewayStep, GatewayDone,
        GatewayFails, AgentCrash, GatewayCrash
<1>5. QED
  BY <1>1, <1>2, <1>3, <1>4 DEF Done

\* A step that writes nothing for p, and either leaves its voucher and its
\* handler alone or does no more than begin or fail.
LEMMA VoucherFrame ==
  ASSUME NEW p \in Proposals, VoucherAt(p), Extending(proposals, proposals'),
         written'[p] = written[p],
         \/ approval'[p] = approval[p] /\ sent'[p] = sent[p]
         \/ /\ approval[p] # "consumed" /\ approval'[p] # "consumed"
            /\ proposals[p].status # "none",
         write'[p] = write[p] \/ write'[p].step \in {"arrived", "failed"},
         Done(p)' => Done(p)
  PROVE  VoucherAt(p)'
<1>1. /\ approval'[p] # "none" => proposals'[p].status # "none"
      /\ proposals[p].status # "none" => proposals'[p].tool = proposals[p].tool
  BY DEF VoucherAt, Extending
<1>2. write'[p].step \in {"arrived", "failed"} \/ write'[p] = write[p]
  OBVIOUS
<1>3. approval[p] = "consumed" => approval'[p] = "consumed" /\ sent'[p] = sent[p]
  OBVIOUS
<1>4. approval'[p] = "consumed" => approval[p] = "consumed"
  OBVIOUS
<1>5. approval[p] # "consumed" => write'[p].step \in {"none", "arrived", "failed"}
  BY <1>2 DEF VoucherAt
<1>6. Done(p)' => approval'[p] = "consumed" /\ FullyWritten(p)'
  BY <1>3 DEF VoucherAt, FullyWritten
<1>7. write'[p].step \in {"clear", "upsert"} =>
        /\ write'[p] = write[p]
        /\ approval[p] = "consumed"
        /\ proposals[p].status # "none"
  BY <1>2, <1>5 DEF VoucherAt
<1>8. QED
  BY <1>1, <1>3, <1>4, <1>5, <1>6, <1>7 DEF VoucherAt

\* The handler of p consumes the voucher: all keys are still to be written.
LEMMA ConsumeVoucher ==
  ASSUME TypeOK, [Next]_vars, VoucherInv, NEW p \in Proposals, ConsumeApproval(p)
  PROVE  VoucherAt(p)'
<1>1. /\ approval[p] = "pending" /\ approval'[p] = "consumed"
      /\ sent' = sent /\ written' = written /\ proposals' = proposals
  BY DEF ConsumeApproval, TokenUsable, TypeOK, agentVars
<1>2. /\ write'[p].left = KeysOf(sent[p])
      /\ proposals[p].tool = "save_tags" => write'[p].step = "clear"
      /\ proposals[p].tool # "save_tags" => write'[p].step = "upsert"
  BY DEF ConsumeApproval, TypeOK
<1>3. /\ \A k \in Keys : written[p][k] = 0
      /\ proposals[p].status # "none"
  BY <1>1 DEF VoucherInv, VoucherAt
<1>4. Done(p) => approval[p] = "consumed"
  BY DEF VoucherInv, VoucherAt
<1>5. ~Done(p)'
  BY <1>1, <1>4, DoneStep DEF ConsumeApproval, FinishWrite
<1>6. QED
  BY <1>1, <1>2, <1>3, <1>5 DEF VoucherAt

\* The DELETE: nothing of p was written, and nothing is.
LEMMA ClearVoucher ==
  ASSUME TypeOK, [Next]_vars, VoucherInv, NEW p \in Proposals, ClearTags(p)
  PROVE  VoucherAt(p)'
<1>1. /\ approval' = approval /\ sent' = sent /\ written' = written
      /\ proposals' = proposals
  BY DEF ClearTags, agentVars
<1>2. /\ write[p].step = "clear" /\ write'[p].step = "upsert"
      /\ write'[p].left = write[p].left
  BY DEF ClearTags, TypeOK, Handler
<1>3. /\ approval[p] = "consumed"
      /\ write[p].left = KeysOf(sent[p])
      /\ \A k \in Keys : written[p][k] = 0
      /\ proposals[p].status # "none"
  BY <1>2 DEF VoucherInv, VoucherAt
<1>4. Done(p)' => FullyWritten(p)
  BY <1>2, DoneStep DEF VoucherInv, VoucherAt, FinishWrite
<1>5. QED
  BY <1>1, <1>2, <1>3, <1>4 DEF VoucherAt, FullyWritten

\* One key moves from those the handler holds to those that are written.
LEMMA WriteVoucher ==
  ASSUME TypeOK, [Next]_vars, VoucherInv, NEW p \in Proposals, NEW k \in Keys,
         WriteField(p, k)
  PROVE  VoucherAt(p)'
<1>1. approval' = approval /\ sent' = sent /\ proposals' = proposals
  BY DEF WriteField, agentVars
<1>2. /\ write[p].step = "upsert" /\ write'[p].step = "upsert"
      /\ write'[p].left = write[p].left \ {k}
      /\ k \in write[p].left
  BY DEF WriteField, TypeOK, Handler
<1>3. /\ approval[p] = "consumed"
      /\ write[p].left \subseteq KeysOf(sent[p])
      /\ \A j \in Keys : written[p][j] =
           IF j \in KeysOf(sent[p]) \ write[p].left THEN 1 ELSE 0
      /\ proposals[p].status # "none"
  BY <1>2 DEF VoucherInv, VoucherAt
<1>4. \A j \in Keys : written'[p][j] = IF j = k THEN written[p][j] + 1
                                                ELSE written[p][j]
  BY DEF WriteField, TypeOK
<1>5. \A j \in Keys : written'[p][j] =
        IF j \in KeysOf(sent[p]) \ write'[p].left THEN 1 ELSE 0
  BY <1>2, <1>3, <1>4
<1>6. ~Done(p)'
  <2>1. written[p][k] = 0 /\ k \in KeysOf(sent[p])
    BY <1>2, <1>3
  <2>2. ~Done(p)
    BY <2>1 DEF VoucherInv, VoucherAt, FullyWritten
  <2>3. ~FinishWrite(p)
    BY <1>2 DEF FinishWrite
  <2>4. QED
    BY <2>2, <2>3, DoneStep
<1>7. write'[p].left \subseteq KeysOf(sent[p])
  BY <1>2, <1>3
<1>8. \A j \in Keys : written'[p][j] \in {0, 1}
  BY <1>5
<1>9. QED
  BY <1>1, <1>2, <1>3, <1>5, <1>6, <1>7, <1>8 DEF VoucherAt

\* A handler that holds no key any more has written them all.
LEMMA FinishVoucher ==
  ASSUME TypeOK, [Next]_vars, VoucherInv, NEW p \in Proposals, FinishWrite(p)
  PROVE  VoucherAt(p)'
<1>1. /\ approval' = approval /\ sent' = sent /\ written' = written
      /\ proposals' = proposals
  BY DEF FinishWrite, agentVars
<1>2. write[p].step = "upsert" /\ write[p].left = {} /\ write'[p].step = "ok"
  BY DEF FinishWrite, TypeOK, Handler
<1>3. /\ approval[p] = "consumed" /\ proposals[p].status # "none"
      /\ FullyWritten(p)
      /\ \A k \in Keys : written[p][k] \in {0, 1}
  BY <1>2 DEF VoucherInv, VoucherAt, FullyWritten, KeysOf
<1>4. QED
  BY <1>1, <1>2, <1>3 DEF VoucherAt, FullyWritten

LEMMA VoucherStep == TypeOK /\ VoucherInv /\ [Next]_vars => VoucherInv'
<1> SUFFICES ASSUME TypeOK, VoucherInv, [Next]_vars, NEW p \in Proposals
             PROVE  VoucherAt(p)'
  BY DEF VoucherInv
<1>1. VoucherAt(p) /\ Extending(proposals, proposals')
  BY TableStep DEF VoucherInv
<1>2. write \in [Proposals -> Handler]
  BY DEF TypeOK
<1>3. ASSUME written'[p] = written[p],
             \/ approval'[p] = approval[p] /\ sent'[p] = sent[p]
             \/ /\ approval[p] # "consumed" /\ approval'[p] # "consumed"
                /\ proposals[p].status # "none",
             write'[p] = write[p] \/ write'[p].step \in {"arrived", "failed"},
             ~FinishWrite(p)
      PROVE  VoucherAt(p)'
  <2>1. Done(p)' => Done(p)
    BY <1>3, DoneStep
  <2>2. QED
    BY <1>1, <1>3, <2>1, VoucherFrame
<1>4. CASE FinishWrite(p)
  BY <1>4, FinishVoucher
<1>5. CASE UNCHANGED <<crmVars, sent>> /\ ~FinishWrite(p)
  BY <1>3, <1>5 DEF crmVars
<1>6. CASE IssueApproval
  <2>1. /\ endpoint.pid \in Proposals
        /\ proposals[endpoint.pid].status # "none"
        /\ approval[endpoint.pid] = "none"
    BY <1>6 DEF IssueApproval, CanIssue, TypeOK
  <2>2. /\ approval' = [approval EXCEPT ![endpoint.pid] = "pending"]
        /\ sent' = [sent EXCEPT ![endpoint.pid] = endpoint.fields]
        /\ write' = write /\ written' = written
    BY <1>6 DEF IssueApproval
  <2>3. \/ approval'[p] = approval[p] /\ sent'[p] = sent[p]
        \/ /\ approval[p] # "consumed" /\ approval'[p] # "consumed"
           /\ proposals[p].status # "none"
    <3>1. CASE p = endpoint.pid
      BY <2>1, <2>2, <3>1 DEF TypeOK
    <3>2. CASE p # endpoint.pid
      BY <2>2, <3>2 DEF TypeOK
    <3>3. QED
      BY <3>1, <3>2
  <2>4. QED
    BY <1>3, <1>4, <2>2, <2>3
<1>7. ASSUME NEW q \in Proposals, ApprovalLapses(q)
      PROVE  VoucherAt(p)'
  <2>1. /\ written' = written /\ write' = write /\ sent' = sent
        /\ approval' = [approval EXCEPT ![q] = "lapsed"]
        /\ approval[q] = "pending"
    BY <1>7 DEF ApprovalLapses
  <2>2. \/ approval'[p] = approval[p] /\ sent'[p] = sent[p]
        \/ /\ approval[p] # "consumed" /\ approval'[p] # "consumed"
           /\ proposals[p].status # "none"
    <3>1. CASE p = q
      BY <1>1, <2>1, <3>1 DEF TypeOK, VoucherAt
    <3>2. CASE p # q
      BY <2>1, <3>2 DEF TypeOK
    <3>3. QED
      BY <3>1, <3>2
  <2>3. QED
    BY <1>3, <1>4, <2>1, <2>2
<1>8. ASSUME NEW q \in Proposals, GatewayStep(q)
      PROVE  VoucherAt(p)'
  <2>1. CASE GatewayForward(q)
    <3>1. /\ written' = written /\ approval' = approval /\ sent' = sent
          /\ write' = [write EXCEPT ![q] = [step |-> "arrived", left |-> {}]]
      BY <2>1 DEF GatewayForward
    <3>2. write'[p] = write[p] \/ write'[p].step \in {"arrived", "failed"}
      BY <1>2, <3>1
    <3>3. QED
      BY <1>3, <1>4, <3>1, <3>2
  <2>2. QED
    BY <1>4, <1>5, <1>8, <2>1 DEF GatewayStep, GatewayDone, GatewayFails
<1>9. ASSUME NEW q \in Proposals, RefuseWrite(q) \/ WriteAborts(q)
      PROVE  VoucherAt(p)'
  <2>1. /\ written' = written /\ approval' = approval /\ sent' = sent
        /\ write' = [write EXCEPT ![q].step = "failed"]
    BY <1>9 DEF RefuseWrite, WriteAborts
  <2>2. write'[p] = write[p] \/ write'[p].step \in {"arrived", "failed"}
    BY <1>2, <2>1 DEF Handler
  <2>3. QED
    BY <1>3, <1>4, <2>1, <2>2
<1>10. ASSUME NEW q \in Proposals, NEW k \in Keys, DuplicateTag(q, k)
       PROVE  VoucherAt(p)'
  <2>1. /\ written' = written /\ approval' = approval /\ sent' = sent
        /\ write' = [write EXCEPT ![q].step = "failed"]
    BY <1>10 DEF DuplicateTag
  <2>2. write'[p] = write[p] \/ write'[p].step \in {"arrived", "failed"}
    BY <1>2, <2>1 DEF Handler
  <2>3. QED
    BY <1>3, <1>4, <2>1, <2>2
<1>11. ASSUME NEW q \in Proposals, ConsumeApproval(q)
       PROVE  VoucherAt(p)'
  <2>1. CASE q = p
    BY <1>11, <2>1, ConsumeVoucher
  <2>2. CASE q # p
    <3>1. /\ written' = written /\ sent' = sent
          /\ approval'[p] = approval[p] /\ write'[p] = write[p]
      BY <1>11, <2>2 DEF ConsumeApproval, TypeOK
    <3>2. QED
      BY <1>3, <1>4, <3>1
  <2>3. QED
    BY <2>1, <2>2
<1>12. ASSUME NEW q \in Proposals, ClearTags(q)
       PROVE  VoucherAt(p)'
  <2>1. CASE q = p
    BY <1>12, <2>1, ClearVoucher
  <2>2. CASE q # p
    <3>1. /\ written' = written /\ sent' = sent
          /\ approval' = approval /\ write'[p] = write[p]
      BY <1>2, <1>12, <2>2 DEF ClearTags
    <3>2. QED
      BY <1>3, <1>4, <3>1
  <2>3. QED
    BY <2>1, <2>2
<1>13. ASSUME NEW q \in Proposals, NEW k \in Keys, WriteField(q, k)
       PROVE  VoucherAt(p)'
  <2>1. CASE q = p
    BY <1>13, <2>1, WriteVoucher
  <2>2. CASE q # p
    <3>1. /\ written'[p] = written[p] /\ sent' = sent
          /\ approval' = approval /\ write'[p] = write[p]
      BY <1>13, <2>2 DEF WriteField, TypeOK
    <3>2. QED
      BY <1>3, <1>4, <3>1
  <2>3. QED
    BY <2>1, <2>2
<1>14. ASSUME NEW q \in Proposals, FinishWrite(q)
       PROVE  VoucherAt(p)'
  <2>1. CASE q = p
    BY <1>4, <1>14, <2>1
  <2>2. CASE q # p
    <3>1. /\ written' = written /\ sent' = sent
          /\ approval' = approval /\ write'[p] = write[p]
      BY <1>2, <1>14, <2>2 DEF FinishWrite
    <3>2. QED
      BY <1>3, <1>4, <3>1
  <2>3. QED
    BY <2>1, <2>2
<1>15. ASSUME EndpointStep, ~IssueApproval
       PROVE  UNCHANGED <<crmVars, sent>>
  BY <1>15
  DEF EndpointStep, IssueRefused, SendWrite, WriteAcknowledged, WriteGivenUp,
      ResolveConfirmed, ReviewAfterConfirm, RejectResolve, EditReplace
<1>16. ASSUME NEW q \in Proposals, BusinessStep(q)
       PROVE  VoucherAt(p)'
  BY <1>9, <1>10, <1>11, <1>12, <1>13, <1>14, <1>16 DEF BusinessStep
<1>17. QED
  BY <1>4, <1>5, <1>6, <1>7, <1>8, <1>9, <1>15, <1>16
  DEF Next, vars, crmVars, Propose, ProfileRefresh, TagReview, ListProposals,
      EndpointStart, ConfirmGet, RejectGet, EditGet, ProposalDue, AgentCrash,
      GatewayCrash

\* Each place that knows how far a write has come is right about it, at every moment.
THEOREM VoucherInvariant == Spec => []VoucherInv
BY VoucherInit, VoucherStep, TypeCorrect, PTL DEF Spec

\* Whatever is retried, late, duplicated by an employee's second click or lost,
\* no field of a proposal is written twice.
THEOREM AtMostOnce == Spec => []AppliedAtMostOnce
<1>1. VoucherInv => AppliedAtMostOnce
  BY DEF VoucherInv, VoucherAt, AppliedAtMostOnce
<1>2. QED
  BY <1>1, VoucherInvariant, PTL

\* A confirmed proposal has been written completely.
THEOREM ConfirmedMeansWritten == Spec => []ConfirmedIsWritten
<1>1. VoucherInv => ConfirmedIsWritten
  BY DEF VoucherInv, VoucherAt, Done, ConfirmedIsWritten
<1>2. QED
  BY <1>1, VoucherInvariant, PTL

\* Once confirmed, rejected or expired, a proposal stays so, though an endpoint
\* may have read it while it was pending.
THEOREM FinalStatusesAreFinal == Spec => FinalStatusesStick
<1>1. TypeOK /\ [Next]_vars =>
        [\A p \in Proposals : proposals[p].status \in FinalStatuses =>
           proposals'[p].status = proposals[p].status]_vars
  BY TableStep DEF Extending
<1>2. QED
  BY <1>1, TypeCorrect, PTL DEF Spec, FinalStatusesStick

-----------------------------------------------------------------------------
(***************************************************************************)
(* The write path implements HumanGate, for every set of proposals,        *)
(* customers, keys and values, and every number of faults.                 *)
(***************************************************************************)
\* The grant of p under the refinement mapping, and the written pairs.
GrantOf(p) ==
  IF approval[p] = "none" THEN None
  ELSE [customer |-> proposals[p].customer, tool |-> proposals[p].tool,
        fields |-> sent[p]]

AllGrants == [p \in Proposals |-> GrantOf(p)]

Applied == {pk \in Proposals \X Keys : written[pk[1]][pk[2]] > 0}

LEMMA GateMapping ==
  /\ Gate!GateInit <=>
       /\ AllGrants = [p \in Proposals |-> None]
       /\ Applied = {}
       /\ crm = [c \in Customers |-> [t \in Tools |-> [k \in Keys |-> None]]]
  /\ UNCHANGED <<AllGrants, Applied, crm>> => UNCHANGED Gate!gateVars
BY DEF Gate!GateInit, Gate!gateVars, AllGrants, GrantOf, Applied

LEMMA GateInitially == Init => Gate!GateInit
<1> SUFFICES ASSUME Init PROVE Gate!GateInit
  OBVIOUS
<1>1. AllGrants = [p \in Proposals |-> None]
  BY DEF Init, AllGrants, GrantOf
<1>2. Applied = {}
  BY DEF Init, Applied
<1>3. QED
  BY <1>1, <1>2, GateMapping DEF Init, NoFields

\* A grant stays what it is while its voucher exists and its field list is kept.
LEMMA GrantKept ==
  ASSUME TypeOK, VoucherInv, [Next]_vars, NEW p \in Proposals,
         approval'[p] = "none" <=> approval[p] = "none",
         sent'[p] = sent[p]
  PROVE  GrantOf(p)' = GrantOf(p)
<1>1. CASE approval[p] = "none"
  BY <1>1 DEF GrantOf
<1>2. CASE approval[p] # "none"
  <2>1. proposals[p].status # "none"
    BY <1>2 DEF VoucherInv, VoucherAt
  <2>2. /\ proposals'[p].customer = proposals[p].customer
        /\ proposals'[p].tool = proposals[p].tool
    BY <2>1, TableStep DEF Extending
  <2>3. QED
    BY <1>2, <2>2 DEF GrantOf
<1>3. QED
  BY <1>1, <1>2

\* Issuing a voucher is Grant.
LEMMA IssueIsGrant ==
  ASSUME TypeOK, IssueApproval
  PROVE  Gate!GateNext
<1>1. PICK e \in Proposals : e = endpoint.pid /\ proposals[e].status # "none"
  BY DEF IssueApproval, TypeOK
<1>2. /\ approval[e] = "none"
      /\ approval' = [approval EXCEPT ![e] = "pending"]
      /\ sent' = [sent EXCEPT ![e] = endpoint.fields]
      /\ proposals' = proposals /\ crm' = crm /\ written' = written
  BY <1>1 DEF IssueApproval, CanIssue
<1>3. PICK g \in Gate!Grants :
        g = [customer |-> proposals[e].customer, tool |-> proposals[e].tool,
             fields |-> endpoint.fields]
  BY <1>1 DEF Gate!Grants, TypeOK, RowsOK, Fields
<1>4. AllGrants[e] = None
  BY <1>1, <1>2 DEF AllGrants, GrantOf
<1>5. AllGrants' = [AllGrants EXCEPT ![e] = g]
  <2>1. ASSUME NEW q \in Proposals
        PROVE  GrantOf(q)' = IF q = e THEN g ELSE GrantOf(q)
    <3>1. CASE q = e
      BY <1>1, <1>2, <1>3, <3>1 DEF GrantOf, TypeOK
    <3>2. CASE q # e
      BY <1>1, <1>2, <3>2 DEF GrantOf, TypeOK
    <3>3. QED
      BY <3>1, <3>2
  <2>2. QED
    BY <2>1 DEF AllGrants
<1>6. Gate!Grant(e, g)
  BY <1>2, <1>4, <1>5 DEF Gate!Grant, AllGrants, GrantOf
<1>7. QED
  BY <1>6 DEF Gate!GateNext

\* The DELETE of a handler is Clear.
LEMMA ClearIsClear ==
  ASSUME TypeOK, VoucherInv, [Next]_vars, NEW p \in Proposals, ClearTags(p)
  PROVE  Gate!GateNext
<1>1. /\ approval' = approval /\ sent' = sent /\ written' = written
      /\ write[p].step = "clear"
      /\ crm' = [crm EXCEPT ![proposals[p].customer]["save_tags"] = NoFields]
  BY DEF ClearTags
<1>2. /\ approval[p] # "none"
      /\ proposals[p].tool = "save_tags"
      /\ \A k \in Keys : written[p][k] = 0
  BY <1>1 DEF VoucherInv, VoucherAt
<1>3. AllGrants' = AllGrants /\ Applied' = Applied
  BY <1>1, GrantKept DEF AllGrants, Applied
<1>4. /\ AllGrants[p] = [customer |-> proposals[p].customer,
                         tool |-> proposals[p].tool, fields |-> sent[p]]
      /\ AllGrants[p] # None
  <2>1. AllGrants[p] = [customer |-> proposals[p].customer,
                        tool |-> proposals[p].tool, fields |-> sent[p]]
    BY <1>2 DEF AllGrants, GrantOf
  <2>2. /\ proposals[p].customer \in Customers
        /\ proposals[p].tool \in Tools
        /\ sent[p] \in Fields
    BY <1>2 DEF TypeOK, RowsOK, VoucherInv, VoucherAt
  <2>3. QED
    BY <2>1, <2>2, NoneAssumption
<1>5. \A k \in Keys : <<p, k>> \notin Applied
  BY <1>2 DEF Applied
<1>6. Gate!Clear(p)
  BY <1>1, <1>2, <1>3, <1>4, <1>5
  DEF Gate!Clear, AllGrants, GrantOf, Applied, NoFields
<1>7. QED
  BY <1>6 DEF Gate!GateNext

\* One upsert or INSERT of a handler is Apply.
LEMMA WriteIsApply ==
  ASSUME TypeOK, VoucherInv, [Next]_vars, NEW p \in Proposals, NEW k \in Keys,
         WriteField(p, k)
  PROVE  Gate!GateNext
<1>1. /\ approval' = approval /\ sent' = sent
      /\ write[p].step = "upsert" /\ k \in write[p].left
      /\ crm' = [crm EXCEPT ![proposals[p].customer][proposals[p].tool][k] =
                              sent[p][k]]
      /\ written' = [written EXCEPT ![p][k] = @ + 1]
  BY DEF WriteField
<1>2. /\ approval[p] # "none"
      /\ k \in KeysOf(sent[p])
      /\ written[p][k] = 0
  BY <1>1 DEF VoucherInv, VoucherAt
<1>3. AllGrants' = AllGrants
  BY <1>1, GrantKept DEF AllGrants
<1>4. Applied' = Applied \cup {<<p, k>>}
  <2>1. ASSUME NEW q \in Proposals, NEW j \in Keys
        PROVE  written'[q][j] > 0 <=> written[q][j] > 0 \/ (q = p /\ j = k)
    BY <1>1, <1>2 DEF TypeOK
  <2>2. QED
    BY <2>1 DEF Applied
<1>5. /\ AllGrants[p] = [customer |-> proposals[p].customer,
                         tool |-> proposals[p].tool, fields |-> sent[p]]
      /\ AllGrants[p] # None
  <2>1. AllGrants[p] = [customer |-> proposals[p].customer,
                        tool |-> proposals[p].tool, fields |-> sent[p]]
    BY <1>2 DEF AllGrants, GrantOf
  <2>2. /\ proposals[p].customer \in Customers
        /\ proposals[p].tool \in Tools
        /\ sent[p] \in Fields
    BY <1>2 DEF TypeOK, RowsOK, VoucherInv, VoucherAt
  <2>3. QED
    BY <2>1, <2>2, NoneAssumption
<1>6. <<p, k>> \notin Applied
  BY <1>2 DEF Applied
<1>7. sent[p][k] # None
  BY <1>2 DEF KeysOf
<1>8. Gate!Apply(p, k)
  BY <1>1, <1>3, <1>4, <1>5, <1>6, <1>7
  DEF Gate!Apply, AllGrants, GrantOf, Applied
<1>9. QED
  BY <1>8 DEF Gate!GateNext

\* Every other step is a stutter.
LEMMA OtherwiseStutter ==
  ASSUME TypeOK, VoucherInv, [Next]_vars, ~IssueApproval,
         \A p \in Proposals : ~ClearTags(p),
         \A p \in Proposals, k \in Keys : ~WriteField(p, k)
  PROVE  UNCHANGED <<AllGrants, Applied, crm>>
<1>1. sent' = sent /\ crm' = crm /\ written' = written
  BY DEF Next, vars, crmVars, Propose, ProfileRefresh, TagReview,
      ListProposals, EndpointStep, IssueRefused, SendWrite, WriteAcknowledged,
      WriteGivenUp, ResolveConfirmed, ReviewAfterConfirm, RejectResolve,
      EditReplace, EndpointStart, ConfirmGet, RejectGet, EditGet, ProposalDue,
      ApprovalLapses, GatewayStep, GatewayForward, GatewayDone, GatewayFails,
      BusinessStep, ConsumeApproval, RefuseWrite, DuplicateTag, FinishWrite,
      WriteAborts, AgentCrash, GatewayCrash
<1>2. ASSUME NEW p \in Proposals
      PROVE  approval'[p] = "none" <=> approval[p] = "none"
  <2>1. CASE UNCHANGED approval
    BY <2>1
  <2>2. ASSUME NEW q \in Proposals, ApprovalLapses(q) \/ ConsumeApproval(q)
        PROVE  approval'[p] = "none" <=> approval[p] = "none"
    BY <2>2 DEF ApprovalLapses, ConsumeApproval, TokenUsable, TypeOK
  <2>3. QED
    BY <2>1, <2>2
    DEF Next, vars, crmVars, Propose, ProfileRefresh, TagReview, ListProposals,
      EndpointStep, IssueRefused, SendWrite, WriteAcknowledged,
      WriteGivenUp, ResolveConfirmed, ReviewAfterConfirm, RejectResolve,
      EditReplace, EndpointStart, ConfirmGet, RejectGet, EditGet, ProposalDue,
      GatewayStep, GatewayForward, GatewayDone, GatewayFails,
      BusinessStep, RefuseWrite, DuplicateTag, FinishWrite,
      WriteAborts, AgentCrash, GatewayCrash
<1>3. AllGrants' = AllGrants
  BY <1>1, <1>2, GrantKept DEF AllGrants
<1>4. QED
  BY <1>1, <1>3 DEF Applied

\* The CRM changes only to carry out, once per field, what was granted to an
\* employee's confirmation.
THEOREM ImplementsGate == Spec => ImplementsHumanGate
<1>1. TypeOK /\ VoucherInv /\ [Next]_vars => [Gate!GateNext]_(Gate!gateVars)
  BY IssueIsGrant, ClearIsClear, WriteIsApply, OtherwiseStutter, GateMapping
<1>2. QED
  BY <1>1, GateInitially, TypeCorrect, VoucherInvariant, PTL
  DEF Spec, ImplementsHumanGate, Gate!GateSpec

-----------------------------------------------------------------------------
(***************************************************************************)
(* The employee's panel (EmployeeCard): all of the above holds of a write  *)
(* path that is driven by its cards, and what a card shows is written.     *)
(***************************************************************************)

LEMMA CardStepIsStep ==
  ASSUME [CardNext]_cardVars
  PROVE  [Next]_vars
BY DEF CardNext, Poll, Press, Elsewhere, Next, cardVars, vars

\* The panel asks for nothing that HitlConfirm does not allow.
THEOREM CardIsWritePath == CardSpec => Spec
<1>1. CardInit => Init
  BY DEF CardInit
<1>2. QED
  BY <1>1, CardStepIsStep, PTL DEF CardSpec, Spec

\* A row that is pending was so before or is new, and a profile's list has lost no key.
Grown(t, u) ==
  \A p \in Proposals : u[p].status = "pending" /\ t[p].status # "none" =>
    /\ t[p].status = "pending"
    /\ t[p].tool = "update_profile_field" => KeysOf(t[p].fields) \subseteq KeysOf(u[p].fields)

LEMMA ExpireDueGrown ==
  ASSUME NEW t
  PROVE  Grown(t, ExpireDue(t))
<1> DEFINE u == ExpireDue(t)
<1>1. ASSUME NEW p \in Proposals
      PROVE  u[p] = IF t[p].status = "pending" /\ t[p].due
                      THEN [t[p] EXCEPT !.status = "expired", !.due = FALSE] ELSE t[p]
  BY DEF ExpireDue
<1> HIDE DEF u
<1>2. ASSUME NEW p \in Proposals, u[p].status = "pending"
      PROVE  u[p] = t[p]
  <2>1. CASE t[p].status = "pending" /\ t[p].due
    <3>1. u[p] = [t[p] EXCEPT !.status = "expired", !.due = FALSE]
      BY <1>1, <2>1
    <3>2. u[p].status # "pending"
      BY <2>1, <3>1
    <3>3. QED
      BY <1>2, <3>2
  <2>2. QED
    BY <1>1, <2>1
<1>3. QED
  BY <1>2 DEF Grown, u

LEMMA CreateOrMergeGrown ==
  ASSUME NEW t, RowsOK(t), NEW c \in Customers, NEW tool \in Tools,
         NEW f \in Fields, NEW u \in CreateOrMerge(t, c, tool, f)
  PROVE  Grown(t, u)
<1> DEFINE live == ExpireDue(t)
           open == PendingFor(live, c, tool)
<1>1. RowsOK(live) /\ Extending(t, live) /\ Grown(t, live)
  BY ExpireDueLemma, ExpireDueGrown
<1>2. ASSUME NEW p \in Proposals, t[p].status # "none"
      PROVE  live[p].tool = t[p].tool /\ live[p].status # "none"
  BY <1>1, <1>2 DEF Extending
<1>3. u \in IF open = {} THEN {Insert(live, p, c, tool, f) : p \in Unused(live)}
                         ELSE {Merge(live, p, f) : p \in open}
  BY DEF CreateOrMerge
<1> HIDE DEF live
<1>4. CASE open = {}
  <2>1. PICK p \in Unused(live) : u = Insert(live, p, c, tool, f)
    BY <1>3, <1>4
  <2>2. p \in Proposals /\ live[p].status = "none" /\ live \in Table
    BY <1>1, <2>1 DEF Unused, RowsOK
  <2>3. \A q \in Proposals \ {p} : u[q] = live[q]
    BY <2>1, <2>2 DEF Insert, Table
  <2>4. t[p].status = "none"
    BY <1>2, <2>2
  <2>5. QED
    BY <1>1, <2>3, <2>4 DEF Grown
<1>5. CASE open # {}
  <2>1. PICK p \in open : u = Merge(live, p, f)
    BY <1>3, <1>5
  <2>2. p \in Proposals /\ live[p].status = "pending" /\ live \in Table
    BY <1>1, <2>1 DEF PendingFor, RowsOK
  <2>3. \A q \in Proposals \ {p} : u[q] = live[q]
    BY <2>1, <2>2 DEF Merge, Table
  <2>4. live[p] \in Row
    BY <2>2 DEF Table
  <2>5. u[p] = [live[p] EXCEPT !.fields = MergeFields(live[p].fields, f), !.due = FALSE]
    BY <2>1, <2>2 DEF Merge, Table
  <2>6. u[p].fields = MergeFields(live[p].fields, f)
    BY <2>4, <2>5 DEF Row
  <2>7. KeysOf(live[p].fields) \subseteq KeysOf(u[p].fields)
    BY <2>6 DEF MergeFields, KeysOf
  <2>8. ASSUME NEW q \in Proposals, u[q].status = "pending", t[q].status # "none"
        PROVE  /\ t[q].status = "pending"
               /\ t[q].tool = "update_profile_field" => KeysOf(t[q].fields) \subseteq KeysOf(u[q].fields)
    <3>1. CASE q = p
      BY <1>1, <2>2, <2>7, <2>8, <3>1 DEF Grown
    <3>2. CASE q # p
      BY <1>1, <2>3, <2>8, <3>2 DEF Grown
    <3>3. QED
      BY <3>1, <3>2
  <2>9. QED
    BY <2>8 DEF Grown
<1>6. QED
  BY <1>4, <1>5

LEMMA ResolveGrown ==
  ASSUME NEW t \in Table, NEW p \in Proposals, NEW s \in FinalStatuses
  PROVE  Grown(t, Resolve(t, p, s))
<1>1. CASE t[p].status # "pending"
  BY <1>1 DEF Resolve, Grown
<1>2. CASE t[p].status = "pending"
  <2>1. t[p] \in Row
    BY DEF Table
  <2>2. Resolve(t, p, s) = [t EXCEPT ![p] = [t[p] EXCEPT !.status = s, !.due = FALSE]]
    BY <1>2 DEF Resolve, Table
  <2>3. Resolve(t, p, s)[p].status = s /\ \A q \in Proposals \ {p} : Resolve(t, p, s)[q] = t[q]
    BY <2>1, <2>2 DEF Table, Row
  <2>4. QED
    BY <2>3 DEF Grown, FinalStatuses
<1>3. QED
  BY <1>1, <1>2

\* An edit may take keys away, from a list of tags.
LEMMA ReplaceGrown ==
  ASSUME NEW t \in Table, NEW p \in Proposals, t[p].tool # "update_profile_field", NEW f \in Fields
  PROVE  Grown(t, ReplaceFields(t, p, f))
<1>1. CASE t[p].status # "pending"
  BY <1>1 DEF ReplaceFields, Grown
<1>2. CASE t[p].status = "pending"
  <2>1. \A q \in Proposals \ {p} : ReplaceFields(t, p, f)[q] = t[q]
    BY <1>2 DEF ReplaceFields, Table
  <2>2. QED
    BY <1>2, <2>1 DEF Grown
<1>3. QED
  BY <1>1, <1>2

LEMMA GrownStep ==
  ASSUME TypeOK, CardInv, [Next]_vars
  PROVE  Grown(proposals, proposals')
<1>1. RowsOK(proposals) /\ proposals \in Table
  BY DEF TypeOK, RowsOK
<1>2. CASE UNCHANGED proposals
  BY <1>2 DEF Grown
<1>3. ASSUME NEW c \in Customers, NEW f \in Extracted, Propose(c, f)
      PROVE  Grown(proposals, proposals')
  <2>1. PICK tool \in Tools : proposals' \in CreateOrMerge(proposals, c, tool, f)
    BY <1>3 DEF Propose, ProfileRefresh, TagReview, Tools
  <2>2. f \in Fields
    BY DEF Extracted
  <2>3. QED
    BY <1>1, <2>1, <2>2, CreateOrMergeGrown
<1>4. CASE ListProposals \/ \E p \in Proposals : EndpointStart(p)
  <2>1. proposals' = ExpireDue(proposals)
    BY <1>4 DEF ListProposals, EndpointStart, ConfirmGet, RejectGet, EditGet
  <2>2. QED
    BY <2>1, ExpireDueGrown
<1>5. CASE EndpointStep
  <2>1. CASE ResolveConfirmed \/ RejectResolve
    <3>1. PICK s \in FinalStatuses : proposals' = Resolve(proposals, endpoint.pid, s)
      BY <2>1 DEF ResolveConfirmed, RejectResolve, FinalStatuses
    <3>2. endpoint.pid \in Proposals
      BY <2>1 DEF ResolveConfirmed, RejectResolve, TypeOK
    <3>3. QED
      BY <1>1, <3>1, <3>2, ResolveGrown
  <2>2. CASE ReviewAfterConfirm /\ ~UNCHANGED proposals
    <3>1. PICK f \in Extracted :
            proposals' \in CreateOrMerge(proposals, proposals[endpoint.pid].customer, "save_tags", f)
      BY <2>2 DEF ReviewAfterConfirm
    <3>2. f \in Fields /\ "save_tags" \in Tools
      BY DEF Extracted, Tools
    <3>3. proposals[endpoint.pid].customer \in Customers
      BY <1>1, <2>2 DEF ReviewAfterConfirm, TypeOK, RowsOK
    <3>4. QED
      BY <1>1, <3>1, <3>2, <3>3, CreateOrMergeGrown
  <2>3. ASSUME NEW f \in Fields, EditReplace(f)
        PROVE  Grown(proposals, proposals')
    <3>1. endpoint.step = "edit" /\ proposals' = ReplaceFields(proposals, endpoint.pid, f)
      BY <2>3 DEF EditReplace
    <3>2. endpoint.pid \in Proposals /\ proposals[endpoint.pid].tool # "update_profile_field"
      BY <3>1 DEF TypeOK, CardInv, OnProfile
    <3>3. QED
      BY <1>1, <3>1, <3>2, ReplaceGrown
  <2>4. QED
    BY <1>2, <1>5, <2>1, <2>2, <2>3
    DEF EndpointStep, IssueApproval, IssueRefused, SendWrite, WriteAcknowledged, WriteGivenUp
<1>6. ASSUME NEW p \in Proposals, ProposalDue(p)
      PROVE  Grown(proposals, proposals')
  <2>1. proposals' = [proposals EXCEPT ![p].due = TRUE]
    BY <1>6 DEF ProposalDue
  <2>2. \A q \in Proposals : /\ proposals'[q].status = proposals[q].status
                             /\ proposals'[q].fields = proposals[q].fields
    BY <1>1, <2>1 DEF Table, Row
  <2>3. QED
    BY <2>2 DEF Grown
<1>7. CASE OtherStep
  BY <1>2, <1>7, OtherTable
<1>8. QED
  BY <1>2, <1>3, <1>4, <1>5, <1>6, <1>7 DEF Next, OtherStep, vars

\* What a step of an endpoint leaves of the confirmation it serves.
LEMMA ServingKept ==
  ASSUME TypeOK, Elsewhere \/ UNCHANGED cardVars, endpoint'.step # "idle"
  PROVE  /\ endpoint.step # "idle" /\ endpoint'.pid = endpoint.pid
         /\ endpoint'.step = "edit" => endpoint.step = "edit"
         /\ endpoint'.step = "issue" => endpoint.step = "issue" /\ endpoint'.fields = endpoint.fields
         /\ endpoint'.step \in {"send", "await", "resolve"} =>
              \/ endpoint.step = "issue" /\ sent'[endpoint.pid] = endpoint.fields
              \/ endpoint.step \in {"send", "await", "resolve"} /\ sent'[endpoint.pid] = sent[endpoint.pid]
<1>1. CASE UNCHANGED <<endpoint, sent>>
  BY <1>1
<1>2. CASE IssueApproval
  <2>1. endpoint.pid \in Proposals /\ sent \in [Proposals -> Fields]
    BY <1>2 DEF IssueApproval, TypeOK
  <2>2. /\ endpoint.step = "issue"
        /\ sent' = [sent EXCEPT ![endpoint.pid] = endpoint.fields]
        /\ endpoint' = Serving("send", endpoint.pid, NoFields) \/ endpoint' = Idle
    BY <1>2 DEF IssueApproval
  <2>3. endpoint' = Serving("send", endpoint.pid, NoFields)
    BY <2>2 DEF Idle
  <2>4. QED
    BY <2>1, <2>2, <2>3 DEF Serving
<1>3. CASE SendWrite \/ WriteAcknowledged \/ ResolveConfirmed
  BY <1>3 DEF SendWrite, WriteAcknowledged, ResolveConfirmed, TypeOK, Idle
<1>4. CASE endpoint' = Idle
  BY <1>4 DEF Idle
<1>5. QED
  BY <1>1, <1>2, <1>3, <1>4
  DEF Elsewhere, cardVars, vars, crmVars, agentVars, Propose, ProfileRefresh, TagReview, EndpointStep,
      IssueRefused, WriteGivenUp, ReviewAfterConfirm, RejectResolve, EditReplace,
      ProposalDue, ApprovalLapses, GatewayStep, GatewayForward, GatewayDone, GatewayFails,
      BusinessStep, ConsumeApproval, RefuseWrite, ClearTags, WriteField, DuplicateTag,
      FinishWrite, WriteAborts, AgentCrash, GatewayCrash

LEMMA CardInitially == CardInit => CardInv
BY DEF CardInit, Init, CardInv, Idle

LEMMA CardInvStep == TypeOK /\ CardInv /\ [CardNext]_cardVars => CardInv'
<1> SUFFICES ASSUME TypeOK, CardInv, [CardNext]_cardVars PROVE CardInv'
  OBVIOUS
<1>1. [Next]_vars /\ RowsOK(proposals') /\ Extending(proposals, proposals') /\ Grown(proposals, proposals')
  BY CardStepIsStep, TableStep, GrownStep
<1>2. \A p \in Proposals : proposals'[p].fields \in Fields /\ proposals[p].fields \in Fields
  BY <1>1 DEF RowsOK, Table, Row, TypeOK
<1>3. endpoint.step # "idle" => endpoint.pid \in Proposals /\ proposals[endpoint.pid].status # "none"
  BY DEF TypeOK
<1>4. CASE Poll
  <2>1. endpoint' = Idle /\ endpoint'.step = "idle"
    BY <1>4 DEF Poll, ListProposals, Idle
  <2>2. view' = [p \in Proposals |-> IF proposals'[p].status = "pending" THEN proposals'[p].fields ELSE None]
    BY <1>4 DEF Poll
  <2>3. view' \in [Proposals -> Fields \cup {None}]
    BY <1>2, <2>2
  <2>4. QED
    BY <2>1, <2>2, <2>3 DEF CardInv
<1>5. CASE view' = view
  <2>1. ASSUME NEW p \in Proposals, view[p] # None
        PROVE  /\ proposals'[p].status # "none"
               /\ proposals'[p].tool = proposals[p].tool
               /\ proposals'[p].status = "pending" /\ OnProfile(p)' =>
                    KeysOf(view[p]) \subseteq KeysOf(proposals'[p].fields)
    <3>1. proposals[p].status # "none"
      BY <2>1 DEF CardInv
    <3>2. proposals'[p].status # "none" /\ proposals'[p].tool = proposals[p].tool
      BY <1>1, <3>1 DEF Extending
    <3>3. QED
      BY <1>1, <2>1, <3>1, <3>2 DEF Grown, CardInv, OnProfile
  <2>2. ASSUME NEW p \in Proposals, Press(p)
        PROVE  CardInv'
    <3>1. view[p] # None /\ EndpointStart(p)
      BY <2>2 DEF Press
    <3>2. CASE endpoint' = Idle
      BY <1>5, <2>1, <3>2 DEF CardInv, Idle
    <3>3. CASE /\ proposals'[p].status = "pending"
               /\ endpoint' = Serving("issue", p, proposals'[p].fields)
      <4>1. endpoint'.step = "issue" /\ endpoint'.pid = p /\ endpoint'.fields = proposals'[p].fields
        BY <3>3 DEF Serving
      <4>2. QED
        BY <1>5, <2>1, <3>1, <3>3, <4>1 DEF CardInv
    <3>4. CASE endpoint' = Serving("reject", p, NoFields)
      <4>1. endpoint'.step = "reject" /\ endpoint'.pid = p
        BY <3>4 DEF Serving
      <4>2. QED
        BY <1>5, <2>1, <3>1, <4>1 DEF CardInv
    <3>5. CASE proposals[p].tool = "save_tags" /\ endpoint' = Serving("edit", p, NoFields)
      <4>1. endpoint'.step = "edit" /\ endpoint'.pid = p
        BY <3>5 DEF Serving
      <4>2. proposals'[p].tool = "save_tags"
        BY <2>1, <3>1, <3>5
      <4>3. QED
        BY <1>5, <2>1, <3>1, <4>1, <4>2 DEF CardInv, OnProfile
    <3>6. QED
      BY <3>1, <3>2, <3>3, <3>4, <3>5 DEF EndpointStart, ConfirmGet, RejectGet, EditGet
  <2>3. CASE Elsewhere \/ UNCHANGED cardVars
    <3>1. CASE endpoint'.step = "idle"
      BY <1>5, <2>1, <3>1 DEF CardInv
    <3>2. CASE endpoint'.step # "idle"
      <4> DEFINE q == endpoint.pid
      <4>1. /\ endpoint.step # "idle" /\ endpoint'.pid = q
            /\ endpoint'.step = "edit" => endpoint.step = "edit"
            /\ endpoint'.step = "issue" => endpoint.step = "issue" /\ endpoint'.fields = endpoint.fields
            /\ endpoint'.step \in {"send", "await", "resolve"} =>
                 \/ endpoint.step = "issue" /\ sent'[q] = endpoint.fields
                 \/ endpoint.step \in {"send", "await", "resolve"} /\ sent'[q] = sent[q]
        BY <2>3, <3>2, ServingKept
      <4>2. q \in Proposals /\ view[q] # None
        BY <1>3, <4>1 DEF CardInv
      <4>3. OnProfile(q)' <=> OnProfile(q)
        BY <2>1, <4>1, <4>2 DEF OnProfile
      <4>4. /\ endpoint.step = "edit" => ~OnProfile(q)
            /\ endpoint.step = "issue" /\ OnProfile(q) => KeysOf(view[q]) \subseteq KeysOf(endpoint.fields)
            /\ endpoint.step \in {"send", "await", "resolve"} /\ OnProfile(q) =>
                 KeysOf(view[q]) \subseteq KeysOf(sent[q])
        BY <4>1 DEF CardInv
      <4>5. QED
        BY <1>5, <2>1, <4>1, <4>2, <4>3, <4>4 DEF CardInv, OnProfile
    <3>3. QED
      BY <3>1, <3>2
  <2>4. CASE Poll
    BY <1>4, <2>4
  <2>5. QED
    BY <2>2, <2>3, <2>4 DEF CardNext
<1>6. QED
  BY <1>4, <1>5 DEF CardNext, Press, Elsewhere, cardVars

\* Under every interleaving of refreshes, clicks, retries and crashes, for any number of
\* proposals and fields: what a profile's card shows is written before it counts as done.
THEOREM ShownMeansWritten == CardSpec => []ShownIsWritten
<1>1. CardSpec => []TypeOK /\ []VoucherInv
  BY CardIsWritePath, TypeCorrect, VoucherInvariant, PTL
<1>2. CardSpec => []CardInv
  BY <1>1, CardInitially, CardInvStep, PTL DEF CardSpec
<1>3. TypeOK /\ VoucherInv /\ CardInv => ShownIsWritten
  <2> SUFFICES ASSUME TypeOK, VoucherInv, CardInv PROVE ShownIsWritten
    OBVIOUS
  <2>1. CASE endpoint.step = "issue"
    BY <2>1 DEF ShownIsWritten, CardInv
  <2>2. CASE endpoint.step = "resolve"
    <3> DEFINE p == endpoint.pid
    <3>1. p \in Proposals
      BY <2>2 DEF TypeOK
    <3>2. FullyWritten(p)
      BY <2>2, <3>1 DEF VoucherInv, VoucherAt, Done
    <3>3. OnProfile(p) => KeysOf(view[p]) \subseteq KeysOf(sent[p])
      BY <2>2 DEF CardInv
    <3>4. QED
      BY <2>2, <3>2, <3>3 DEF ShownIsWritten, FullyWritten
  <2>3. QED
    BY <2>1, <2>2 DEF ShownIsWritten
<1>4. QED
  BY <1>1, <1>2, <1>3, PTL
=============================================================================
