--------------------------- MODULE FollowUpRefresh ---------------------------
(***************************************************************************)
(* From a saved follow-up to a profile proposal: FollowUpService and       *)
(* AiEventNotifier of business-mock, POST /events/follow_up_created,       *)
(* POST /profile/refresh and profile/subgraph.py of the agent, and the     *)
(* gateway's cache between them, for one customer; and what moves the      *)
(* customer meanwhile, CustomerService.transfer and softDelete.  An event  *)
(* waits in the memory of business-mock, is sent once by one thread, and   *)
(* becomes a thread of the agent; a refresh that an employee asks for runs *)
(* in the event loop.  Refreshes interleave at the calls they make, and a  *)
(* call goes on in the gateway when the refresh has given up waiting.      *)
(*                                                                         *)
(* The extraction is a function of the follow-ups read; of the profile one *)
(* field is followed.  What a confirmation writes through is HitlConfirm.  *)
(***************************************************************************)
EXTENDS Naturals, Sequences, FiniteSets

CONSTANTS Requests,    \* threads of business-mock
          Employees,
          Managers,    \* employees with the manager role
          Sellers,     \* employees who write follow-ups and ask for refreshes
          FirstOwner,  \* the employee the customer belongs to at first
          Values,      \* values of the field
          Says,        \* Says[n]: what the first n follow-ups say of the field
          MinRecords,  \* MIN_RECORDS (3)
          MaxRecords,  \* bound on the follow-ups
          MaxAsked,    \* bound on the refreshes an employee asks for
          MaxExtra     \* bound on what happens beside the follow-ups and their events

ASSUME FollowUpAssumption ==
    /\ IsFiniteSet(Requests) /\ Managers \subseteq Employees
    /\ Sellers \subseteq Employees /\ FirstOwner \in Employees
    /\ MinRecords \in Nat \ {0}
    /\ MaxRecords \in Nat /\ MaxAsked \in Nat /\ MaxExtra \in Nat
    /\ Says \in [1..MaxRecords -> Values]

VARIABLES owner,     \* customer.owner_id, or Deleted
          desk,      \* what each thread of business-mock does
          rows,      \* the number of rows of follow_up
          queue,     \* the notifier's queue
          refresh,   \* what has become of the event of each row, and of each refresh asked for
          call,      \* the gateway's call for the list of follow-ups of each
          cache,     \* the list it keeps for each employee: how long it is, at most one
          profile,   \* the confirmed value
          had,       \* the values it has had
          proposal,  \* the pending proposal: value, and how many records it rests on
          apart,     \* history: "yes" as long as no refresh overlapped another or read a kept list
          audit,     \* customer_transfer_audit
          moves,     \* history: the changes of owner
          faults

shopVars == <<owner, desk, rows, queue, audit, moves>>
agentVars == <<refresh, profile, had, proposal, apart>>
vars == <<shopVars, agentVars, call, cache, faults>>

None == "none"
Deleted == "deleted"
Records == 1..MaxRecords                            \* refreshes of events
Asked == (MaxRecords + 1)..(MaxRecords + MaxAsked)  \* refreshes asked for
Threads == Records \cup Asked
Active == {"follow_ups", "purchases", "profile", "extract"}
Settled == {"checklist", "no_change", "proposal", "failed", "lost"}
Fields == Values \cup {None}
Refreshes == [at : {None, "saved", "queued"} \cup Active \cup Settled, by : Employees,
              seen : 0..MaxRecords, current : Fields, raced : BOOLEAN]
Calls == [step : {"idle", "pop", "get", "store"}, by : Employees, seen : 0..MaxRecords,
          raced : BOOLEAN]  \* history: when it dropped what was kept, an older list was to be stored
Desk == [at : {"idle", "save", "submit", "update", "audit"}, row : 0..MaxRecords,
         by : Employees, from : Employees, to : Employees]
Move == [from : Employees, to : Employees, by : Employees]

Running == {n \in Threads : refresh[n].at \in Active}
LoopFree == Running \cap Asked = {}

\* A bound: so many changes of owner, refreshes asked for and faults have room together.
Room ==
    LET transfers == Len(moves) + Cardinality({r \in Requests : desk[r].at = "update"})
        deletions == IF owner = Deleted THEN 1 ELSE 0
        asked == Cardinality({n \in Asked : refresh[n].at # None})
    IN  transfers + deletions + asked + faults < MaxExtra

Owns(e) == owner # Deleted /\ (e = owner \/ e \in Managers)
Idle == [at |-> "idle", row |-> 0, by |-> FirstOwner, from |-> FirstOwner, to |-> FirstOwner]
NoCall == [step |-> "idle", by |-> FirstOwner, seen |-> 0, raced |-> FALSE]
Nothing == [value |-> None, rests |-> 0]

\* A refresh that has ended, or is not yet begun: of what it knew only that which a
\* proposal rests on is followed.
Ended(how, seen) == [at |-> how, by |-> FirstOwner, seen |-> seen, current |-> None, raced |-> FALSE]

Init ==
    /\ owner = FirstOwner
    /\ desk = [r \in Requests |-> Idle]
    /\ rows = 0
    /\ queue = <<>>
    /\ refresh = [n \in Threads |-> Ended(None, 0)]
    /\ call = [n \in Threads |-> NoCall]
    /\ cache = [e \in Employees |-> {}]
    /\ profile = None /\ had = {None}
    /\ proposal = Nothing
    /\ apart = "yes"
    /\ audit = <<>> /\ moves = <<>>
    /\ faults = 0

At(n, place) == refresh[n].at = place
Goto(n, place) == refresh' = [refresh EXCEPT ![n].at = place]
End(n, how) == refresh' = [refresh EXCEPT ![n] = Ended(how, 0)]

-----------------------------------------------------------------------------
(* business-mock                                                           *)

\* FollowUpService.create: the owner is checked, the row inserted, the event submitted.
Create(r, e) ==
    /\ desk[r] = Idle /\ Owns(e)
    /\ rows + Cardinality({q \in Requests : desk[q].at = "save"}) < MaxRecords
    /\ desk' = [desk EXCEPT ![r].at = "save", ![r].by = e]
    /\ UNCHANGED <<owner, rows, queue, audit, moves, agentVars, call, cache, faults>>

Save(r) ==
    /\ desk[r].at = "save"
    /\ rows < MaxRecords
    /\ rows' = rows + 1
    /\ desk' = [desk EXCEPT ![r].at = "submit", ![r].row = rows + 1]
    /\ refresh' = [refresh EXCEPT ![rows + 1].at = "saved", ![rows + 1].by = desk[r].by]
    /\ UNCHANGED <<owner, queue, audit, moves, profile, had, proposal, apart, call, cache, faults>>

Submit(r) ==
    /\ desk[r].at = "submit"
    /\ queue' = Append(queue, desk[r].row)
    /\ Goto(desk[r].row, "queued")
    /\ desk' = [desk EXCEPT ![r] = Idle]
    /\ UNCHANGED <<owner, rows, audit, moves, profile, had, proposal, apart, call, cache, faults>>

\* A refresh begins: a thread of its own, or the event loop.
Begin ==
    /\ LoopFree
    /\ apart' = IF Running = {} THEN apart ELSE "no"
    /\ UNCHANGED <<profile, had, proposal, call, cache, faults>>

\* Mutant: one delivery empties the queue.
DeliverAll ==
    /\ queue # <<>>
    /\ queue' = <<>>
    /\ Begin
    /\ Goto(Head(queue), "follow_ups")
    /\ UNCHANGED <<owner, desk, rows, audit, moves>>

\* The event arrives and starts a thread of the agent.
Deliver ==
    /\ queue # <<>>
    /\ queue' = Tail(queue)
    /\ Begin
    /\ Goto(Head(queue), "follow_ups")
    /\ UNCHANGED <<owner, desk, rows, audit, moves>>

\* The agent cannot be reached; it is logged and not tried again.
Drop ==
    /\ queue # <<>>
    /\ Room
    /\ faults' = faults + 1
    /\ queue' = Tail(queue)
    /\ End(Head(queue), "lost")
    /\ UNCHANGED <<owner, desk, rows, audit, moves, profile, had, proposal, apart, call, cache>>

\* CustomerService.transfer: the owner is read, changed if it still is the one read, and
\* the change is audited whether or not it took place.
ReadOwner(r, e, to) ==
    /\ desk[r] = Idle /\ e \in Managers
    /\ owner # Deleted /\ to # owner
    /\ Room
    /\ desk' = [desk EXCEPT ![r] = [at |-> "update", row |-> 0, by |-> e, from |-> owner, to |-> to]]
    /\ UNCHANGED <<owner, rows, queue, audit, moves, agentVars, call, cache, faults>>

\* Mutant: the owner that was read is taken for the owner.
MoveBlind(r) ==
    /\ desk[r].at = "update"
    /\ IF owner # Deleted
       THEN /\ owner' = desk[r].to
            /\ moves' = Append(moves, [from |-> owner, to |-> desk[r].to, by |-> desk[r].by])
       ELSE UNCHANGED <<owner, moves>>
    /\ desk' = [desk EXCEPT ![r].at = "audit"]
    /\ UNCHANGED <<rows, queue, audit, agentVars, call, cache, faults>>

MoveOwner(r) ==
    /\ desk[r].at = "update"
    /\ IF owner = desk[r].from
       THEN /\ owner' = desk[r].to
            /\ moves' = Append(moves, [from |-> owner, to |-> desk[r].to, by |-> desk[r].by])
       ELSE UNCHANGED <<owner, moves>>
    /\ desk' = [desk EXCEPT ![r].at = "audit"]
    /\ UNCHANGED <<rows, queue, audit, agentVars, call, cache, faults>>

Audit(r) ==
    /\ desk[r].at = "audit"
    /\ audit' = Append(audit, [from |-> desk[r].from, to |-> desk[r].to, by |-> desk[r].by])
    /\ desk' = [desk EXCEPT ![r] = Idle]
    /\ UNCHANGED <<owner, rows, queue, moves, agentVars, call, cache, faults>>

SoftDelete(e) ==
    /\ Owns(e) /\ Room
    /\ owner' = Deleted
    /\ UNCHANGED <<desk, rows, queue, audit, moves, agentVars, call, cache, faults>>

\* The process stops: the queue was in its memory.
ShopRestarts ==
    /\ Room
    /\ faults' = faults + 1
    /\ queue' = <<>>
    /\ desk' = [r \in Requests |-> Idle]
    /\ refresh' = [n \in Threads |->
                      IF refresh[n].at \in {"saved", "queued"} THEN Ended("lost", 0) ELSE refresh[n]]
    /\ UNCHANGED <<owner, rows, audit, moves, profile, had, proposal, apart, call, cache>>

-----------------------------------------------------------------------------
(* The gateway's call for the list of follow-ups, ToolGateway              *)

\* What a refresh that waits for its call gets from it.
Answer(n, seen) ==
    /\ call' = [call EXCEPT ![n] = NoCall]
    /\ refresh' = IF At(n, "follow_ups")
                  THEN [refresh EXCEPT ![n].at = "purchases", ![n].seen = seen, ![n].raced = call[n].raced]
                  ELSE refresh

\* It is refused, and the refresh ends as after any other error.
Refuse(n) ==
    /\ call' = [call EXCEPT ![n] = NoCall]
    /\ IF At(n, "follow_ups") THEN End(n, "failed") ELSE UNCHANGED refresh

\* The gate asks whose customer it is; only an event's refresh has the kept list dropped.
CallFor(n, step) ==
    /\ At(n, "follow_ups") /\ call[n] = NoCall
    /\ IF Owns(refresh[n].by)
       THEN /\ call' = [call EXCEPT ![n].step = step, ![n].by = refresh[n].by]
            /\ UNCHANGED refresh
       ELSE Refuse(n)
    /\ UNCHANGED <<shopVars, profile, had, proposal, apart, cache, faults>>

\* Mutant: the refresh of an event is content with what is kept.
CallKept(n) == CallFor(n, "get")

Call(n) == CallFor(n, IF n \in Records THEN "pop" ELSE "get")

Pop(n) ==
    /\ call[n].step = "pop"
    /\ cache' = [cache EXCEPT ![call[n].by] = {}]
    /\ call' = [call EXCEPT ![n].step = "get",
                            ![n].raced = \E m \in Threads : /\ call[m].step = "store" /\ call[m].by = call[n].by
                                                            /\ call[m].seen < n]
    /\ UNCHANGED <<shopVars, agentVars, faults>>

Hit(n) ==
    /\ call[n].step = "get"
    /\ \E kept \in cache[call[n].by] : Answer(n, kept)
    /\ apart' = "no"
    /\ UNCHANGED <<shopVars, profile, had, proposal, cache, faults>>

\* Nothing is kept, or its lifetime is over: business-mock, which asks for the owner as
\* well, answers with the list it has by then.
Fetch(n) ==
    /\ call[n].step = "get"
    /\ IF Owns(call[n].by)
       THEN /\ call' = [call EXCEPT ![n].step = "store", ![n].seen = rows]
            /\ UNCHANGED refresh
       ELSE Refuse(n)
    /\ UNCHANGED <<shopVars, profile, had, proposal, apart, cache, faults>>

Store(n) ==
    /\ call[n].step = "store"
    /\ cache' = [cache EXCEPT ![call[n].by] = {call[n].seen}]
    /\ Answer(n, call[n].seen)
    /\ UNCHANGED <<shopVars, profile, had, proposal, apart, faults>>

-----------------------------------------------------------------------------
(* ProfileSubgraph.refresh                                                 *)

\* POST /profile/refresh: the event loop does nothing else until it has ended.
AskFor(n, e) ==
    /\ At(n, None) /\ Room
    /\ Begin
    /\ refresh' = [refresh EXCEPT ![n].at = "follow_ups", ![n].by = e]
    /\ UNCHANGED shopVars

\* The other reads ask the gate too.  What was bought is not followed; the profile read is
\* the present one or, when the gateway kept it, one the customer had before.
Read(n, from, to, current) ==
    /\ At(n, from)
    /\ refresh' = [refresh EXCEPT ![n] = IF Owns(@.by) THEN [@ EXCEPT !.at = to, !.current = current]
                                                      ELSE Ended("failed", 0)]
    /\ UNCHANGED <<shopVars, profile, had, proposal, apart, call, cache, faults>>

ReadPurchases(n) == Read(n, "purchases", "profile", None)
ReadProfile(n) == \E current \in had : Read(n, "profile", "extract", current)

\* Mutant: the pending proposal is kept.
ConcludeKeeps(n) ==
    /\ At(n, "extract")
    /\ LET seen == refresh[n].seen
           outcome == IF seen < MinRecords THEN "checklist"
                      ELSE IF Says[seen] = refresh[n].current THEN "no_change" ELSE "proposal"
       IN  /\ refresh' = [refresh EXCEPT ![n] = Ended(outcome, IF outcome = "proposal" THEN seen ELSE 0)]
           /\ proposal' = IF outcome = "proposal" /\ proposal = Nothing THEN [value |-> Says[seen], rests |-> seen] ELSE proposal
    /\ UNCHANGED <<shopVars, profile, had, apart, call, cache, faults>>

\* Extract, compare with the profile as it was read, and create the proposal or put the
\* value over the one of the pending proposal.
Conclude(n) ==
    /\ At(n, "extract")
    /\ LET seen == refresh[n].seen
           outcome == IF seen < MinRecords THEN "checklist"
                      ELSE IF Says[seen] = refresh[n].current THEN "no_change" ELSE "proposal"
       IN  /\ refresh' = [refresh EXCEPT ![n] = Ended(outcome, IF outcome = "proposal" THEN seen ELSE 0)]
           /\ proposal' = IF outcome = "proposal" THEN [value |-> Says[seen], rests |-> seen] ELSE proposal
    /\ UNCHANGED <<shopVars, profile, had, apart, call, cache, faults>>

\* A call fails or is waited for too long; the gateway may go on with it.
RefreshFails(n) ==
    /\ n \in Running
    /\ Room
    /\ faults' = faults + 1
    /\ End(n, "failed")
    /\ UNCHANGED <<shopVars, profile, had, proposal, apart, call, cache>>

\* Daemon threads end with the process.
AgentRestarts ==
    /\ Room
    /\ faults' = faults + 1
    /\ refresh' = [n \in Threads |-> IF n \in Running THEN Ended("lost", 0) ELSE refresh[n]]
    /\ UNCHANGED <<shopVars, profile, had, proposal, apart, call, cache>>

\* The employee confirms the proposal or rejects it.
Decide ==
    /\ proposal # Nothing /\ LoopFree
    /\ profile' \in {profile, proposal.value}
    /\ had' = had \cup {profile'}
    /\ proposal' = Nothing
    /\ UNCHANGED <<shopVars, refresh, apart, call, cache, faults>>

Clerk(r) == Save(r) \/ Submit(r) \/ MoveOwner(r) \/ Audit(r)
Gateway(n) == Call(n) \/ Pop(n) \/ Hit(n) \/ Fetch(n) \/ Store(n)
Refresh(n) == Gateway(n) \/ ReadPurchases(n) \/ ReadProfile(n) \/ Conclude(n)

Next ==
    \/ \E r \in Requests : \/ Clerk(r)
                           \/ \E e \in Sellers : Create(r, e)
                           \/ \E e, to \in Employees : ReadOwner(r, e, to)
    \/ \E e \in Employees : SoftDelete(e)
    \/ \E e \in Sellers, n \in Asked : AskFor(n, e)
    \/ Deliver \/ Drop \/ ShopRestarts
    \/ \E n \in Threads : Refresh(n) \/ RefreshFails(n)
    \/ AgentRestarts \/ Decide

\* Threads run on: those of business-mock, the notifier's, each refresh and the gateway's
\* for it.
Spec == /\ Init /\ [][Next]_vars
        /\ \A r \in Requests : WF_vars(Clerk(r))
        /\ WF_vars(Deliver)
        /\ \A n \in Threads : WF_vars(Refresh(n))

-----------------------------------------------------------------------------
(* Properties                                                              *)

TypeOK ==
    /\ owner \in Employees \cup {Deleted}
    /\ desk \in [Requests -> Desk]
    /\ rows \in 0..MaxRecords
    /\ queue \in Seq(Records)
    /\ refresh \in [Threads -> Refreshes]
    /\ call \in [Threads -> Calls]
    /\ cache \in [Employees -> SUBSET (0..MaxRecords)]
    /\ profile \in Fields /\ had \in SUBSET Fields
    /\ proposal \in [value : Fields, rests : 0..MaxRecords]
    /\ apart \in {"yes", "no"}
    /\ audit \in Seq(Move) /\ moves \in Seq(Move)
    /\ faults \in 0..MaxExtra

\* A saved follow-up is refreshed or fails visibly (AiEventNotifier, "30s"); it is lost
\* only to a restart or an agent that cannot be reached.
EveryEventSettles ==
    \A n \in Records : At(n, "saved") ~> refresh[n].at \in Settled /\ (At(n, "lost") => faults > 0)

\* A refresh reads the follow-up that caused it, however many refreshes, of events or
\* asked for, share the gateway's cache (tools.py:150: the extraction gets the latest
\* facts): unless an older list was fetched before it dropped what was kept and stored
\* behind that.
EventIsKnown ==
    \A n \in Records : refresh[n].at \in {"purchases", "profile", "extract"}
                           => refresh[n].seen >= n \/ refresh[n].raced

\* The pending proposal rests on all that the refreshes before it knew, as long as they
\* came one after the other and none was content with a list the gateway kept: a refresh
\* that overlaps a later one can come to its end after it and put the older value over
\* the newer, and one that is asked for can read an older list.
NewestWhenApart ==
    (apart = "yes" /\ proposal # Nothing) =>
        \A n \in Threads : At(n, "proposal") => refresh[n].seen <= proposal.rests

\* Every change of owner is in the audit, once its request is over: unless the process
\* stopped between the two statements.
Count(seq, x) == Cardinality({k \in DOMAIN seq : seq[k] = x})
MovesAreAudited ==
    faults = 0 =>
        \A k \in DOMAIN moves :
            LET m == moves[k]
                midway == {r \in Requests : /\ desk[r].at = "audit" /\ desk[r].by = m.by
                                            /\ desk[r].from = m.from /\ desk[r].to = m.to}
            IN  Count(audit, m) + Cardinality(midway) >= Count(moves, m)
=============================================================================
