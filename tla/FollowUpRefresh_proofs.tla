---------------------- MODULE FollowUpRefresh_proofs ----------------------
(***************************************************************************)
(* Theorems about FollowUpRefresh, for any employees, requests, values,    *)
(* follow-ups, refreshes asked for, moves and faults.                      *)
(***************************************************************************)
EXTENDS FollowUpRefresh, FiniteSetTheorems, TLAPS

-----------------------------------------------------------------------------
(* The invariant                                                           *)

Reading == {"purchases", "profile", "extract"}
Unborn == {None, "saved", "queued"}

\* Events are filed one after the other: none twice, and none has a call before it runs.
Filed ==
    /\ \A n \in Records : n > rows => At(n, None)
    /\ \A r \in Requests : desk[r].at = "submit" => desk[r].row \in Records /\ At(desk[r].row, "saved")
    /\ \A r, q \in Requests : desk[r].at = "submit" /\ desk[q].at = "submit" /\ desk[r].row = desk[q].row => r = q
    /\ \A k \in DOMAIN queue : At(queue[k], "queued")
    /\ \A j, k \in DOMAIN queue : queue[j] = queue[k] => j = k
    /\ \A n \in Threads : refresh[n].at \in Unborn => call[n] = NoCall

\* No list is longer than the table.
Lists ==
    /\ \A n \in Threads : refresh[n].seen <= rows /\ call[n].seen <= rows
    /\ \A e \in Employees : \A kept \in cache[e] : kept <= rows

\* What an event's call can still find or holds already has the event's follow-up.
Fresh ==
    \A n \in Records : ~call[n].raced =>
        /\ call[n].step = "store" => n <= call[n].seen
        /\ call[n].step = "get" =>
              /\ \A kept \in cache[call[n].by] : n <= kept
              /\ \A m \in Threads : call[m].step = "store" /\ call[m].by = call[n].by => n <= call[m].seen

\* The only refresh that runs, and what it knows by now or is about to.
Alone ==
    apart = "yes" =>
        /\ \A m, n \in Threads : refresh[m].at \in Active /\ refresh[n].at \in Active => m = n
        /\ \A m, n \in Threads : At(m, "proposal") /\ refresh[n].at \in Reading => refresh[m].seen <= refresh[n].seen
        /\ \A m, n \in Threads : At(m, "proposal") /\ At(n, "follow_ups") /\ call[n].step = "store"
                                     => refresh[m].seen <= call[n].seen

Latest == Alone /\ NewestWhenApart

Inv == TypeOK /\ Filed /\ Lists /\ Fresh /\ EventIsKnown /\ Latest

LEMMA Numbers ==
  /\ MaxRecords \in Nat /\ MaxAsked \in Nat /\ MaxExtra \in Nat
  /\ Threads \subseteq Nat /\ Records \subseteq Threads
  /\ \A n \in Asked : n \notin Records
BY FollowUpAssumption DEF Threads, Records, Asked

\* Fields of what a thread or a call is.
LEMMA Shapes ==
  ASSUME TypeOK, NEW n \in Threads
  PROVE  /\ refresh[n] \in Refreshes /\ call[n] \in Calls
         /\ refresh[n].seen \in 0..MaxRecords /\ refresh[n].seen \in Nat /\ refresh[n].by \in Employees
         /\ call[n].seen \in 0..MaxRecords /\ call[n].seen \in Nat /\ call[n].by \in Employees
         /\ call[n].raced \in BOOLEAN
BY Numbers DEF TypeOK, Refreshes, Calls

LEMMA EndedIs ==
  ASSUME NEW how \in {None} \cup Settled, NEW seen \in 0..MaxRecords
  PROVE  /\ Ended(how, seen) \in Refreshes
         /\ Ended(how, seen).at = how /\ Ended(how, seen).seen = seen
BY FollowUpAssumption DEF Ended, Refreshes, Fields

LEMMA NoCallIs == NoCall \in Calls /\ NoCall.step = "idle" /\ NoCall.seen = 0 /\ ~NoCall.raced
BY Numbers, FollowUpAssumption DEF NoCall, Calls

LEMMA Places ==
  /\ Reading \subseteq Active /\ Unborn \cap Active = {} /\ Unborn \cap Settled = {} /\ Active \cap Settled = {}
  /\ "follow_ups" \in Active \ Reading /\ "proposal" \in Settled
  /\ "purchases" \in Reading /\ "profile" \in Reading /\ "extract" \in Reading
  /\ "saved" \in Unborn /\ "queued" \in Unborn /\ None \in Unborn
BY DEF Reading, Active, Unborn, Settled, None

\* A fault counts as long as there is room for it.
LEMMA RoomIs == ASSUME TypeOK, Room PROVE faults + 1 \in 0..MaxExtra
<1>. DEFINE moving == {r \in Requests : desk[r].at = "update"}
            begun == {n \in Asked : refresh[n].at # None}
            gone == IF owner = Deleted THEN 1 ELSE 0
<1>1. Cardinality(moving) \in Nat
  <2>1. IsFiniteSet(moving)
    BY FollowUpAssumption, FS_Subset
  <2>. QED  BY <2>1, FS_CardinalityType
<1>2. Cardinality(begun) \in Nat
  <2>1. IsFiniteSet(Asked)
    BY Numbers, FS_Interval DEF Asked
  <2>2. IsFiniteSet(begun)
    BY <2>1, FS_Subset
  <2>. QED  BY <2>2, FS_CardinalityType
<1>3. Len(moves) \in Nat /\ gone \in Nat /\ faults \in Nat
  BY Numbers DEF TypeOK
<1>4. Len(moves) + Cardinality(moving) + gone + Cardinality(begun) + faults < MaxExtra
  BY DEF Room
<1>. HIDE DEF moving, begun, gone
<1>. QED  BY <1>1, <1>2, <1>3, <1>4, Numbers

-----------------------------------------------------------------------------
(* Steps that leave a part of the invariant alone                          *)

\* No event is filed or begins.
LEMMA FiledKept ==
  ASSUME TypeOK, Filed, rows' = rows, queue' = queue,
         \A r \in Requests : desk'[r].at = "submit" => desk'[r] = desk[r],
         \A n \in Threads : \/ refresh'[n].at = refresh[n].at
                            \/ refresh[n].at \notin Unborn /\ refresh'[n].at \notin Unborn,
         \A n \in Threads : refresh[n].at \in Unborn => call'[n] = call[n]
  PROVE  Filed'
<1>1. \A n \in Threads : refresh[n].at \in Unborn => refresh'[n].at = refresh[n].at
  OBVIOUS
<1>2. \A n \in Threads : refresh'[n].at \in Unborn => refresh[n].at \in Unborn
  OBVIOUS
<1>3. \A n \in Records : n > rows' => refresh'[n].at = None
  BY <1>1, Numbers, Places DEF Filed, At
<1>4. \A r \in Requests : desk'[r].at = "submit" => desk'[r].row \in Records /\ refresh'[desk'[r].row].at = "saved"
  <2>. TAKE r \in Requests
  <2>. HAVE desk'[r].at = "submit"
  <2>1. desk'[r] = desk[r] /\ desk[r].row \in Records /\ refresh[desk[r].row].at = "saved"
    BY DEF Filed, At
  <2>2. desk[r].row \in Threads
    BY <2>1, Numbers
  <2>. QED  BY <1>1, <2>1, <2>2, Places
<1>5. \A k \in DOMAIN queue : refresh'[queue[k]].at = "queued"
  <2>. TAKE k \in DOMAIN queue
  <2>1. queue[k] \in Records
    BY DEF TypeOK
  <2>2. queue[k] \in Threads
    BY <2>1, Numbers
  <2>3. refresh[queue[k]].at = "queued"
    BY DEF Filed, At
  <2>. QED  BY <1>1, <2>2, <2>3, Places
<1>6. \A n \in Threads : refresh'[n].at \in Unborn => call'[n] = NoCall
  BY <1>2 DEF Filed
<1>7. \A r, q \in Requests : desk'[r].at = "submit" /\ desk'[q].at = "submit" /\ desk'[r].row = desk'[q].row => r = q
  BY DEF Filed
<1>. QED  BY <1>3, <1>4, <1>5, <1>6, <1>7 DEF Filed, At

\* No list becomes longer.
LEMMA ListsKept ==
  ASSUME TypeOK, Lists, rows' \in Nat, rows' >= rows,
         \A n \in Threads : refresh'[n].seen \in {refresh[n].seen, 0} /\ call'[n].seen \in {call[n].seen, 0},
         \A e \in Employees : cache'[e] \subseteq cache[e]
  PROVE  Lists'
<1>0. rows \in Nat
  BY Numbers DEF TypeOK
<1>1. ASSUME NEW n \in Threads PROVE refresh'[n].seen <= rows' /\ call'[n].seen <= rows'
  BY <1>0, Shapes DEF Lists
<1>2. ASSUME NEW e \in Employees, NEW kept \in cache'[e] PROVE kept <= rows'
  <2>1. kept \in cache[e] /\ kept <= rows /\ kept \in Nat
    BY <1>2, Numbers DEF Lists, TypeOK
  <2>. QED  BY <1>0, <2>1
<1>. QED  BY <1>1, <1>2 DEF Lists

\* Calls end or begin, and nothing new is kept.
LEMMA FreshKept ==
  ASSUME TypeOK, Fresh,
         \A n \in Threads : \/ call'[n] = call[n] \/ call'[n].step \in {"idle", "pop"}
                            \/ n \notin Records /\ call'[n].step = "get",
         \A e \in Employees : cache'[e] \subseteq cache[e]
  PROVE  Fresh'
<1>. SUFFICES ASSUME NEW n \in Records, ~call'[n].raced
              PROVE  /\ call'[n].step = "store" => n <= call'[n].seen
                     /\ call'[n].step = "get" =>
                           /\ \A kept \in cache'[call'[n].by] : n <= kept
                           /\ \A m \in Threads : call'[m].step = "store" /\ call'[m].by = call'[n].by => n <= call'[m].seen
  BY DEF Fresh
<1>0. n \in Threads
  BY Numbers
<1>1. CASE call'[n] = call[n]
  <2>1. call[n].by \in Employees
    BY <1>0, Shapes
  <2>2. \A m \in Threads : call'[m].step = "store" => call'[m] = call[m]
    OBVIOUS
  <2>. QED  BY <1>1, <2>1, <2>2 DEF Fresh
<1>2. CASE call'[n].step \in {"idle", "pop"}
  BY <1>2
<1>3. CASE n \notin Records
  BY <1>3
<1>. QED  BY <1>0, <1>1, <1>2, <1>3

\* No refresh goes on reading.
LEMMA KnownKept ==
  ASSUME EventIsKnown, \A n \in Threads : refresh'[n] = refresh[n] \/ refresh'[n].at \notin Reading
  PROVE  EventIsKnown'
BY Numbers DEF EventIsKnown, Reading

\* No refresh begins, goes on or proposes.
LEMMA LatestKept ==
  ASSUME Latest, apart' = "yes" => apart = "yes", proposal' \in {proposal, Nothing},
         \A n \in Threads : refresh'[n] = refresh[n] \/ refresh'[n].at \notin Active \cup {"proposal"},
         \A n \in Threads : call'[n] = call[n] \/ call'[n].step # "store"
  PROVE  Latest'
<1>1. \A n \in Threads : refresh'[n].at \in Active \cup {"proposal"} => refresh'[n] = refresh[n]
  OBVIOUS
<1>2. \A n \in Threads : call'[n].step = "store" => call'[n] = call[n]
  OBVIOUS
<1>3. Alone'
  BY <1>1, <1>2, Places DEF Latest, Alone, At
<1>4. NewestWhenApart'
  <2>. SUFFICES ASSUME apart' = "yes", proposal' # Nothing, NEW n \in Threads, refresh'[n].at = "proposal"
                PROVE  refresh'[n].seen <= proposal'.rests
    BY DEF NewestWhenApart, At
  <2>1. proposal' = proposal /\ refresh'[n] = refresh[n]
    BY <1>1
  <2>. QED  BY <2>1 DEF Latest, NewestWhenApart, At
<1>. QED  BY <1>3, <1>4 DEF Latest

\* After an overlap nothing is claimed.
LEMMA LatestGone == ASSUME apart' = "no" PROVE Latest'
BY DEF Latest, Alone, NewestWhenApart

-----------------------------------------------------------------------------
(* The steps of business-mock                                              *)

\* A thread takes a case up or puts it down: no event is touched.
LEMMA DeskStep ==
  ASSUME Inv, NEW r \in Requests, NEW d \in Desk, desk' = [desk EXCEPT ![r] = d], d.at # "submit",
         UNCHANGED <<rows, queue, agentVars, call, cache, faults>>,
         owner' \in Employees \cup {Deleted}, audit' \in Seq(Move), moves' \in Seq(Move)
  PROVE  Inv'
<1>1. TypeOK'
  BY DEF Inv, TypeOK, agentVars
<1>2. \A q \in Requests : desk'[q].at = "submit" => desk'[q] = desk[q]
  BY DEF Inv, TypeOK
<1>3. Filed'
  BY <1>2, FiledKept DEF Inv, agentVars
<1>4. rows \in Nat /\ rows' >= rows
  BY Numbers DEF Inv, TypeOK
<1>5. Lists'
  BY <1>4, ListsKept DEF Inv, agentVars
<1>6. Fresh' /\ EventIsKnown' /\ Latest'
  BY FreshKept, KnownKept, LatestKept DEF Inv, agentVars
<1>. QED  BY <1>1, <1>3, <1>5, <1>6 DEF Inv

LEMMA IdleDesk == Idle \in Desk /\ Idle.at = "idle"
BY FollowUpAssumption DEF Idle, Desk

LEMMA CreateStep == ASSUME Inv, NEW r \in Requests, NEW e \in Sellers, Create(r, e) PROVE Inv'
<1>. DEFINE d == [Idle EXCEPT !.at = "save", !.by = e]
<1>1. d \in Desk /\ d.at # "submit"
  BY IdleDesk, FollowUpAssumption DEF Desk
<1>2. desk' = [desk EXCEPT ![r] = d]
  BY DEF Create, Inv, TypeOK
<1>. HIDE DEF d
<1>. QED  BY <1>1, <1>2, DeskStep DEF Create, Inv, TypeOK

LEMMA ReadOwnerStep ==
  ASSUME Inv, NEW r \in Requests, NEW e \in Employees, NEW to \in Employees, ReadOwner(r, e, to) PROVE Inv'
<1>. DEFINE d == [at |-> "update", row |-> 0, by |-> e, from |-> owner, to |-> to]
<1>1. d \in Desk /\ d.at # "submit"
  BY FollowUpAssumption DEF ReadOwner, Desk, Inv, TypeOK
<1>2. desk' = [desk EXCEPT ![r] = d]
  BY DEF ReadOwner
<1>. HIDE DEF d
<1>. QED  BY <1>1, <1>2, DeskStep DEF ReadOwner, Inv, TypeOK

LEMMA MoveOwnerStep == ASSUME Inv, NEW r \in Requests, MoveOwner(r) PROVE Inv'
<1>. PICK old \in Desk : old = desk[r]
  BY DEF Inv, TypeOK
<1>. DEFINE d == [old EXCEPT !.at = "audit"]
<1>1. d \in Desk /\ d.at # "submit"
  BY DEF Desk
<1>2. desk' = [desk EXCEPT ![r] = d]
  BY DEF MoveOwner, Inv, TypeOK
<1>3. owner' \in Employees \cup {Deleted} /\ moves' \in Seq(Move)
  <2>1. old.to \in Employees /\ old.by \in Employees /\ old.from \in Employees
    BY DEF Desk
  <2>2. CASE owner = old.from
    <3>. PICK move \in Move : move = [from |-> owner, to |-> old.to, by |-> old.by]
      BY <2>1, <2>2 DEF Move
    <3>1. owner' = old.to /\ moves' = Append(moves, move)
      BY <2>2 DEF MoveOwner
    <3>. QED  BY <2>1, <3>1 DEF Inv, TypeOK
  <2>3. CASE owner # old.from
    BY <2>3 DEF MoveOwner, Inv, TypeOK
  <2>. QED  BY <2>2, <2>3
<1>. HIDE DEF d
<1>. QED  BY <1>1, <1>2, <1>3, DeskStep DEF MoveOwner, Inv, TypeOK

LEMMA AuditStep == ASSUME Inv, NEW r \in Requests, Audit(r) PROVE Inv'
<1>. PICK move \in Move : move = [from |-> desk[r].from, to |-> desk[r].to, by |-> desk[r].by]
  BY DEF Inv, TypeOK, Desk, Move
<1>1. audit' = Append(audit, move) /\ desk' = [desk EXCEPT ![r] = Idle]
  BY DEF Audit
<1>2. audit' \in Seq(Move)
  BY <1>1 DEF Inv, TypeOK
<1>. QED  BY <1>1, <1>2, IdleDesk, DeskStep DEF Audit, Inv, TypeOK

LEMMA SoftDeleteStep == ASSUME Inv, NEW e \in Employees, SoftDelete(e) PROVE Inv'
<1>1. TypeOK'
  BY DEF SoftDelete, agentVars, Inv, TypeOK
<1>2. UNCHANGED <<desk, rows, queue, agentVars, call, cache>>
  BY DEF SoftDelete
<1>3. Filed' /\ Lists' /\ Fresh' /\ EventIsKnown' /\ Latest'
  BY <1>2 DEF agentVars, Inv, Filed, Lists, Fresh, EventIsKnown, Latest, Alone, NewestWhenApart, At
<1>. QED  BY <1>1, <1>3 DEF Inv

LEMMA SaveStep == ASSUME Inv, NEW r \in Requests, Save(r) PROVE Inv'
<1>. PICK n \in Records : n = rows + 1
  BY Numbers DEF Save, Inv, TypeOK, Records
<1>. PICK old \in Desk : old = desk[r]
  BY DEF Inv, TypeOK
<1>. PICK was \in Refreshes : was = refresh[n] /\ n \in Threads
  BY Numbers, Shapes DEF Inv
<1>. DEFINE d == [old EXCEPT !.at = "submit", !.row = n]
            e == [was EXCEPT !.at = "saved", !.by = old.by]
<1>0. rows \in Nat /\ n \in Nat /\ was.at = None /\ call[n] = NoCall
  BY Numbers, Places DEF Inv, TypeOK, Filed, At
<1>1. d \in Desk /\ d.at = "submit" /\ d.row = n
  <2>1. n \in 0..MaxRecords
    BY Numbers DEF Records
  <2>. QED  BY <2>1 DEF Desk
<1>2. e \in Refreshes /\ e.at = "saved" /\ e.seen = was.seen
  BY DEF Refreshes, Desk
<1>3. desk' = [desk EXCEPT ![r] = d] /\ refresh' = [refresh EXCEPT ![n] = e] /\ rows' = n
  BY DEF Save, Inv, TypeOK
<1>4. UNCHANGED <<owner, queue, audit, moves, profile, had, proposal, apart, call, cache, faults>>
  BY DEF Save
<1>. HIDE DEF d, e
<1>5. TypeOK'
  <2>1. rows' \in 0..MaxRecords
    BY <1>3, Numbers DEF Records
  <2>. QED  BY <1>1, <1>2, <1>3, <1>4, <2>1 DEF Inv, TypeOK
<1>6. /\ refresh'[n] = e /\ \A m \in Threads \ {n} : refresh'[m] = refresh[m]
      /\ desk'[r] = d /\ \A q \in Requests \ {r} : desk'[q] = desk[q]
  BY <1>3 DEF Inv, TypeOK
<1>7. Filed'
  <2>1. \A m \in Records : m > n => refresh'[m].at = None
    BY <1>0, <1>6, Numbers DEF Inv, Filed, At
  <2>2. \A q \in Requests \ {r} : desk[q].at = "submit" => desk[q].row \in Records \ {n} /\ refresh[desk[q].row].at = "saved"
    BY <1>0, Places DEF Inv, Filed, At, None
  <2>3. \A q \in Requests : desk'[q].at = "submit" => desk'[q].row \in Records /\ refresh'[desk'[q].row].at = "saved"
    <3>. TAKE q \in Requests
    <3>1. CASE q = r
      BY <1>1, <1>2, <1>6, <3>1
    <3>2. CASE q # r
      <4>1. desk'[q] = desk[q]
        BY <1>6, <3>2
      <4>. HAVE desk'[q].at = "submit"
      <4>2. desk[q].row \in Records \ {n} /\ refresh[desk[q].row].at = "saved"
        BY <2>2, <3>2, <4>1
      <4>3. refresh'[desk[q].row] = refresh[desk[q].row]
        BY <1>6, <4>2, Numbers
      <4>. QED  BY <4>1, <4>2, <4>3
    <3>. QED  BY <3>1, <3>2
  <2>4. \A q, p \in Requests : desk'[q].at = "submit" /\ desk'[p].at = "submit" /\ desk'[q].row = desk'[p].row => q = p
    BY <1>1, <1>6, <2>2 DEF Inv, Filed
  <2>5. \A k \in DOMAIN queue : refresh'[queue[k]].at = "queued"
    <3>. TAKE k \in DOMAIN queue
    <3>1. queue[k] \in Records /\ refresh[queue[k]].at = "queued"
      BY DEF Inv, TypeOK, Filed, At
    <3>2. queue[k] # n
      BY <1>0, <3>1 DEF None
    <3>. QED  BY <1>6, <3>1, <3>2, Numbers
  <2>6. \A m \in Threads : refresh'[m].at \in Unborn => call'[m] = NoCall
    BY <1>0, <1>4, <1>6 DEF Inv, Filed
  <2>. QED  BY <1>3, <1>4, <2>1, <2>3, <2>4, <2>5, <2>6 DEF Inv, Filed, At
<1>8. Lists'
  <2>1. rows' \in Nat /\ rows' >= rows
    BY <1>0, <1>3
  <2>2. \A m \in Threads : refresh'[m].seen = refresh[m].seen
    BY <1>2, <1>6
  <2>. QED  BY <1>4, <2>1, <2>2, ListsKept DEF Inv
<1>9. \A m \in Threads : refresh'[m] = refresh[m] \/ refresh'[m].at = "saved"
  BY <1>2, <1>6
<1>10. Fresh' /\ EventIsKnown' /\ Latest'
  <2>1. Fresh'
    BY <1>4, FreshKept DEF Inv
  <2>2. EventIsKnown'
    BY <1>9, KnownKept DEF Inv, Reading
  <2>3. Latest'
    BY <1>4, <1>9, LatestKept DEF Inv, Active
  <2>. QED  BY <2>1, <2>2, <2>3
<1>. QED  BY <1>5, <1>7, <1>8, <1>10 DEF Inv

LEMMA SubmitStep == ASSUME Inv, NEW r \in Requests, Submit(r) PROVE Inv'
<1>. PICK n \in Records : n = desk[r].row /\ refresh[n].at = "saved" /\ n \in Threads
  BY Numbers DEF Submit, Inv, Filed, At
<1>. PICK was \in Refreshes : was = refresh[n]
  BY Shapes DEF Inv
<1>. DEFINE e == [was EXCEPT !.at = "queued"]
<1>1. e \in Refreshes /\ e.at = "queued" /\ e.seen = was.seen
  BY DEF Refreshes
<1>2. refresh' = [refresh EXCEPT ![n] = e]
  BY DEF Submit, Goto, Inv, TypeOK
<1>3. queue' = Append(queue, n) /\ desk' = [desk EXCEPT ![r] = Idle]
  BY DEF Submit
<1>4. UNCHANGED <<owner, rows, audit, moves, profile, had, proposal, apart, call, cache, faults>>
  BY DEF Submit
<1>. HIDE DEF e
<1>5. TypeOK'
  BY <1>1, <1>2, <1>3, <1>4, IdleDesk DEF Inv, TypeOK
<1>6. /\ refresh'[n] = e /\ \A m \in Threads \ {n} : refresh'[m] = refresh[m]
      /\ desk'[r].at = "idle" /\ \A q \in Requests \ {r} : desk'[q] = desk[q]
  BY <1>2, <1>3, IdleDesk DEF Inv, TypeOK
<1>7. Filed'
  <2>1. \A m \in Records : m > rows => refresh'[m].at = None
    <3>. TAKE m \in Records
    <3>. HAVE m > rows
    <3>1. refresh[m].at = None
      BY DEF Inv, Filed, At
    <3>2. m # n
      BY <3>1 DEF None
    <3>. QED  BY <1>6, <3>1, <3>2, Numbers
  <2>2. ASSUME NEW q \in Requests, desk'[q].at = "submit"
        PROVE  q # r /\ desk'[q] = desk[q] /\ desk[q].row \in Records \ {n} /\ refresh'[desk[q].row].at = "saved"
    <3>1. q # r /\ desk'[q] = desk[q]
      BY <1>6, <2>2
    <3>2. desk[q].row \in Records /\ refresh[desk[q].row].at = "saved"
      BY <2>2, <3>1 DEF Inv, Filed, At
    <3>3. desk[q].row # n
      BY <2>2, <3>1 DEF Inv, Filed, Submit
    <3>. QED  BY <1>6, <3>1, <3>2, <3>3, Numbers
  <2>3. \A q, p \in Requests : desk'[q].at = "submit" /\ desk'[p].at = "submit" /\ desk'[q].row = desk'[p].row => q = p
    BY <2>2 DEF Inv, Filed
  <2>4. \A k \in DOMAIN queue : queue[k] \in Records /\ refresh[queue[k]].at = "queued" /\ queue[k] # n
    BY DEF Inv, TypeOK, Filed, At
  <2>5. /\ DOMAIN queue' = 1..(Len(queue) + 1) /\ DOMAIN queue = 1..Len(queue) /\ Len(queue) \in Nat
        /\ queue'[Len(queue) + 1] = n /\ \A k \in DOMAIN queue : queue'[k] = queue[k]
    BY <1>3 DEF Inv, TypeOK
  <2>6. \A k \in DOMAIN queue' : refresh'[queue'[k]].at = "queued"
    <3>. TAKE k \in DOMAIN queue'
    <3>1. CASE k = Len(queue) + 1
      BY <1>1, <1>6, <2>5, <3>1
    <3>2. CASE k \in DOMAIN queue
      <4>1. queue'[k] = queue[k] /\ queue[k] \in Records /\ refresh[queue[k]].at = "queued" /\ queue[k] # n
        BY <2>4, <2>5, <3>2
      <4>2. refresh'[queue[k]] = refresh[queue[k]]
        BY <1>6, <4>1, Numbers
      <4>. QED  BY <4>1, <4>2
    <3>. QED  BY <2>5, <3>1, <3>2
  <2>7. \A j, k \in DOMAIN queue' : queue'[j] = queue'[k] => j = k
    <3>. TAKE j, k \in DOMAIN queue'
    <3>1. CASE j \in DOMAIN queue /\ k \in DOMAIN queue
      BY <2>5, <3>1 DEF Inv, Filed
    <3>2. CASE j = Len(queue) + 1 \/ k = Len(queue) + 1
      BY <2>4, <2>5, <3>2
    <3>. QED  BY <2>5, <3>1, <3>2
  <2>8. \A m \in Threads : refresh'[m].at \in Unborn => call'[m] = NoCall
    BY <1>4, <1>6, Places DEF Inv, Filed
  <2>. QED  BY <1>4, <2>1, <2>2, <2>3, <2>6, <2>7, <2>8 DEF Filed, At
<1>8. Lists'
  <2>1. rows' \in Nat /\ rows' >= rows
    BY <1>4, Numbers DEF Inv, TypeOK
  <2>2. \A m \in Threads : refresh'[m].seen = refresh[m].seen
    BY <1>1, <1>6
  <2>. QED  BY <1>4, <2>1, <2>2, ListsKept DEF Inv
<1>9. \A m \in Threads : refresh'[m] = refresh[m] \/ refresh'[m].at = "queued"
  BY <1>1, <1>6
<1>10. Fresh' /\ EventIsKnown' /\ Latest'
  <2>1. Fresh'
    BY <1>4, FreshKept DEF Inv
  <2>2. EventIsKnown'
    BY <1>9, KnownKept DEF Inv, Reading
  <2>3. Latest'
    BY <1>4, <1>9, LatestKept DEF Inv, Active
  <2>. QED  BY <2>1, <2>2, <2>3
<1>. QED  BY <1>5, <1>7, <1>8, <1>10 DEF Inv

\* What is taken off the queue.
LEMMA HeadTail ==
  ASSUME Inv, queue # <<>>
  PROVE  /\ Head(queue) \in Records /\ Head(queue) \in Threads /\ At(Head(queue), "queued")
         /\ Tail(queue) \in Seq(Records)
         /\ \A k \in DOMAIN Tail(queue) : Tail(queue)[k] # Head(queue) /\ At(Tail(queue)[k], "queued")
         /\ \A j, k \in DOMAIN Tail(queue) : Tail(queue)[j] = Tail(queue)[k] => j = k
<1>1. /\ queue \in Seq(Records) /\ \A k \in DOMAIN queue : At(queue[k], "queued")
      /\ \A j, k \in DOMAIN queue : queue[j] = queue[k] => j = k
  BY DEF Inv, TypeOK, Filed
<1>2. Head(queue) = queue[1] /\ 1 \in DOMAIN queue
  BY <1>1
<1>3. /\ Tail(queue) \in Seq(Records) /\ DOMAIN Tail(queue) \subseteq Nat \ {0}
      /\ \A k \in DOMAIN Tail(queue) : k + 1 \in DOMAIN queue /\ k + 1 # 1 /\ Tail(queue)[k] = queue[k + 1]
  BY <1>1
<1>4. Head(queue) \in Records /\ Head(queue) \in Threads /\ At(Head(queue), "queued")
  <2>1. queue[1] \in Records /\ At(queue[1], "queued")
    BY <1>1, <1>2
  <2>2. Head(queue) \in Records
    BY <1>2, <2>1
  <2>. QED  BY <1>2, <2>1, <2>2, Numbers DEF At
<1>5. \A k \in DOMAIN Tail(queue) : Tail(queue)[k] # Head(queue) /\ At(Tail(queue)[k], "queued")
  BY <1>1, <1>2, <1>3
<1>6. \A j, k \in DOMAIN Tail(queue) : Tail(queue)[j] = Tail(queue)[k] => j = k
  <2>. TAKE j, k \in DOMAIN Tail(queue)
  <2>. HAVE Tail(queue)[j] = Tail(queue)[k]
  <2>1. j + 1 = k + 1
    BY <1>1, <1>3
  <2>. QED  BY <1>3, <2>1
<1>. QED  BY <1>3, <1>4, <1>5, <1>6

\* An event leaves the queue: the others are still filed.
LEMMA OffQueue ==
  ASSUME Inv, queue # <<>>, queue' = Tail(queue), UNCHANGED <<rows, desk, call>>,
         NEW e \in Refreshes, e.at \notin Unborn, refresh' = [refresh EXCEPT ![Head(queue)] = e]
  PROVE  Filed'
<1>. PICK n \in Records : n = Head(queue) /\ n \in Threads /\ refresh[n].at = "queued"
  BY HeadTail DEF At
<1>1. refresh'[n] = e /\ \A m \in Threads \ {n} : refresh'[m] = refresh[m]
  BY DEF Inv, TypeOK
<1>2. \A m \in Records : m > rows => refresh'[m].at = None
  <2>. TAKE m \in Records
  <2>. HAVE m > rows
  <2>1. refresh[m].at = None
    BY DEF Inv, Filed, At
  <2>2. m # n
    BY <2>1 DEF None
  <2>. QED  BY <1>1, <2>1, <2>2, Numbers
<1>3. \A r \in Requests : desk[r].at = "submit" => desk[r].row \in Records /\ refresh'[desk[r].row].at = "saved"
  <2>. TAKE r \in Requests
  <2>. HAVE desk[r].at = "submit"
  <2>1. desk[r].row \in Records /\ refresh[desk[r].row].at = "saved"
    BY DEF Inv, Filed, At
  <2>2. desk[r].row # n
    BY <2>1
  <2>. QED  BY <1>1, <2>1, <2>2, Numbers
<1>4. \A k \in DOMAIN Tail(queue) : refresh'[Tail(queue)[k]].at = "queued"
  <2>. TAKE k \in DOMAIN Tail(queue)
  <2>1. Tail(queue)[k] \in Records
    BY HeadTail
  <2>. QED  BY <1>1, <2>1, HeadTail, Numbers DEF At
<1>5. \A m \in Threads : refresh'[m].at \in Unborn => call[m] = NoCall
  BY <1>1 DEF Inv, Filed
<1>6. \A r, q \in Requests : desk[r].at = "submit" /\ desk[q].at = "submit" /\ desk[r].row = desk[q].row => r = q
  BY DEF Inv, Filed
<1>7. \A j, k \in DOMAIN Tail(queue) : Tail(queue)[j] = Tail(queue)[k] => j = k
  BY HeadTail
<1>. QED  BY <1>2, <1>3, <1>4, <1>5, <1>6, <1>7 DEF Filed, At

\* A refresh begins on its own, or the claim about the newest is given up.
LEMMA BeginStep ==
  ASSUME Inv, Begin, NEW n \in Threads, call[n] = NoCall, refresh[n].at \in Unborn,
         NEW e \in Refreshes, e.at = "follow_ups", e.seen = refresh[n].seen, refresh' = [refresh EXCEPT ![n] = e],
         UNCHANGED <<rows>>
  PROVE  Lists' /\ Fresh' /\ EventIsKnown' /\ Latest'
<1>1. refresh'[n] = e /\ \A m \in Threads \ {n} : refresh'[m] = refresh[m]
  BY DEF Inv, TypeOK
<1>2. UNCHANGED <<profile, had, proposal, call, cache, faults>>
  BY DEF Begin
<1>3. Lists'
  <2>1. rows' \in Nat /\ rows' >= rows
    BY Numbers DEF Inv, TypeOK
  <2>2. \A m \in Threads : refresh'[m].seen = refresh[m].seen
    BY <1>1
  <2>. QED  BY <1>2, <2>1, <2>2, ListsKept DEF Inv
<1>4. Fresh'
  BY <1>2, FreshKept DEF Inv
<1>5. EventIsKnown'
  <2>1. \A m \in Threads : refresh'[m] = refresh[m] \/ refresh'[m].at = "follow_ups"
    BY <1>1
  <2>. QED  BY <2>1, KnownKept DEF Inv, Reading
<1>6. Latest'
  <2>1. CASE apart' = "no"
    BY <2>1, LatestGone
  <2>2. CASE apart' # "no"
    <3>1. apart' = apart /\ Running = {}
      BY <2>2 DEF Begin
    <3>2. \A m \in Threads : refresh[m].at \notin Active
      BY <3>1 DEF Running
    <3>3. \A m \in Threads : refresh'[m].at \in Active => m = n
      BY <1>1, <3>2
    <3>4. \A m \in Threads : refresh'[m].at \notin Reading
      BY <1>1, <3>2, Places
    <3>5. \A m \in Threads : refresh'[m].at = "follow_ups" => m = n /\ call'[m].step # "store"
      BY <1>2, <3>3, NoCallIs, Places
    <3>6. \A m \in Threads : refresh'[m].at = "proposal" => refresh'[m] = refresh[m]
      BY <1>1
    <3>7. Alone'
      BY <3>3, <3>4, <3>5 DEF Alone, At
    <3>8. NewestWhenApart'
      BY <1>2, <3>1, <3>6 DEF Inv, Latest, NewestWhenApart, At
    <3>. QED  BY <3>7, <3>8 DEF Latest
  <2>. QED  BY <2>1, <2>2
<1>. QED  BY <1>3, <1>4, <1>5, <1>6

LEMMA BeginTypes == ASSUME Inv, Begin PROVE apart' \in {"yes", "no"}
BY DEF Begin, Inv, TypeOK

LEMMA DeliverStep == ASSUME Inv, Deliver PROVE Inv'
<1>. PICK n \in Records : n = Head(queue) /\ n \in Threads /\ refresh[n].at = "queued"
  BY HeadTail DEF Deliver, At
<1>. PICK was \in Refreshes : was = refresh[n]
  BY Shapes DEF Inv
<1>. DEFINE e == [was EXCEPT !.at = "follow_ups"]
<1>1. e \in Refreshes /\ e.at = "follow_ups" /\ e.seen = was.seen /\ e.at \notin Unborn
  BY DEF Refreshes, Active, Unborn, None
<1>2. refresh' = [refresh EXCEPT ![n] = e] /\ queue' = Tail(queue)
  BY DEF Deliver, Goto, Inv, TypeOK
<1>. HIDE DEF e
<1>3. call[n] = NoCall /\ refresh[n].at \in Unborn
  BY Places DEF Inv, Filed
<1>4. UNCHANGED <<owner, desk, rows, audit, moves, profile, had, proposal, call, cache, faults>> /\ Begin
  BY DEF Deliver, Begin
<1>5. TypeOK'
  BY <1>1, <1>2, <1>4, BeginTypes, HeadTail DEF Deliver, Inv, TypeOK
<1>6. Filed'
  BY <1>1, <1>2, <1>4, OffQueue DEF Deliver
<1>7. Lists' /\ Fresh' /\ EventIsKnown' /\ Latest'
  BY <1>1, <1>2, <1>3, <1>4, BeginStep
<1>. QED  BY <1>5, <1>6, <1>7 DEF Inv

LEMMA AskForStep == ASSUME Inv, NEW n \in Asked, NEW by \in Sellers, AskFor(n, by) PROVE Inv'
<1>. PICK was \in Refreshes : was = refresh[n] /\ n \in Threads /\ n \notin Records
  BY Shapes, Numbers DEF Inv, Threads
<1>. DEFINE e == [was EXCEPT !.at = "follow_ups", !.by = by]
<1>1. e \in Refreshes /\ e.at = "follow_ups" /\ e.seen = was.seen
  BY FollowUpAssumption DEF Refreshes, Active
<1>2. refresh' = [refresh EXCEPT ![n] = e]
  BY DEF AskFor, Inv, TypeOK
<1>. HIDE DEF e
<1>3. call[n] = NoCall /\ refresh[n].at \in Unborn
  BY Places DEF Inv, Filed, AskFor, At
<1>4. UNCHANGED <<owner, desk, rows, queue, audit, moves, profile, had, proposal, call, cache, faults>> /\ Begin
  BY DEF AskFor, Begin, shopVars
<1>5. TypeOK'
  BY <1>1, <1>2, <1>4, BeginTypes DEF Inv, TypeOK
<1>6. refresh'[n] = e /\ \A m \in Threads \ {n} : refresh'[m] = refresh[m]
  BY <1>2 DEF Inv, TypeOK
<1>7. Filed'
  <2>1. \A m \in Records : refresh'[m] = refresh[m]
    BY <1>6, Numbers
  <2>2. \A k \in DOMAIN queue : queue[k] \in Records
    BY DEF Inv, TypeOK
  <2>3. \A m \in Threads : refresh'[m].at \in Unborn => call[m] = NoCall
    BY <1>1, <1>6 DEF Inv, Filed, Unborn, None
  <2>. QED  BY <1>4, <2>1, <2>2, <2>3 DEF Inv, Filed, At
<1>8. Lists' /\ Fresh' /\ EventIsKnown' /\ Latest'
  BY <1>1, <1>2, <1>3, <1>4, BeginStep
<1>. QED  BY <1>5, <1>7, <1>8 DEF Inv

-----------------------------------------------------------------------------
(* Refreshes that end without a result                                     *)

\* Threads that go on and threads that end: what is known of the others stays true.
LEMMA EndStep ==
  ASSUME Inv, rows' = rows, cache' = cache, apart' = apart, proposal' = proposal,
         \A n \in Threads : refresh'[n] = refresh[n] \/ \E how \in {"failed", "lost"} : refresh'[n] = Ended(how, 0),
         \A n \in Threads : call'[n] \in {call[n], NoCall}
  PROVE  Lists' /\ Fresh' /\ EventIsKnown' /\ Latest'
<1>1. \A n \in Threads : refresh'[n] # refresh[n] => refresh'[n].at \in {"failed", "lost"} /\ refresh'[n].seen = 0
  BY DEF Ended
<1>2. rows' \in Nat /\ rows' >= rows
  BY Numbers DEF Inv, TypeOK
<1>3. Lists'
  BY <1>1, <1>2, NoCallIs, ListsKept DEF Inv
<1>4. Fresh'
  BY NoCallIs, FreshKept DEF Inv
<1>5. EventIsKnown'
  BY <1>1, KnownKept DEF Inv, Reading
<1>6. Latest'
  BY <1>1, NoCallIs, LatestKept DEF Inv, Active
<1>. QED  BY <1>3, <1>4, <1>5, <1>6

LEMMA DropStep == ASSUME Inv, Drop PROVE Inv'
<1>. PICK n \in Records : n = Head(queue) /\ n \in Threads
  BY HeadTail DEF Drop
<1>1. Ended("lost", 0) \in Refreshes /\ Ended("lost", 0).at = "lost"
  BY EndedIs, Numbers DEF Settled
<1>2. refresh' = [refresh EXCEPT ![n] = Ended("lost", 0)] /\ queue' = Tail(queue) /\ queue # <<>>
  BY DEF Drop, End
<1>3. UNCHANGED <<owner, desk, rows, audit, moves, profile, had, proposal, apart, call, cache>> /\ faults' \in 0..MaxExtra
  BY RoomIs DEF Drop, Inv
<1>4. TypeOK'
  BY <1>1, <1>2, <1>3, HeadTail DEF Inv, TypeOK
<1>5. Filed'
  BY <1>1, <1>2, <1>3, OffQueue DEF Unborn, None
<1>6. \A m \in Threads : refresh'[m] = refresh[m] \/ refresh'[m] = Ended("lost", 0)
  BY <1>2 DEF Inv, TypeOK
<1>7. Lists' /\ Fresh' /\ EventIsKnown' /\ Latest'
  BY <1>3, <1>6, EndStep
<1>. QED  BY <1>4, <1>5, <1>7 DEF Inv

LEMMA ShopRestartsStep == ASSUME Inv, ShopRestarts PROVE Inv'
<1>1. Ended("lost", 0) \in Refreshes /\ Ended("lost", 0).at = "lost"
  BY EndedIs, Numbers DEF Settled
<1>2. UNCHANGED <<owner, rows, audit, moves, profile, had, proposal, apart, call, cache>> /\ faults' \in 0..MaxExtra
  BY RoomIs DEF ShopRestarts, Inv
<1>3. \A m \in Threads : refresh'[m] = IF refresh[m].at \in {"saved", "queued"} THEN Ended("lost", 0) ELSE refresh[m]
  BY DEF ShopRestarts
<1>4. queue' = <<>> /\ desk' = [r \in Requests |-> Idle]
  BY DEF ShopRestarts
<1>5. refresh' \in [Threads -> Refreshes]
  BY <1>1 DEF ShopRestarts, Inv, TypeOK
<1>6. TypeOK'
  BY <1>2, <1>4, <1>5, IdleDesk DEF Inv, TypeOK
<1>7. Filed'
  <2>1. \A m \in Records : m > rows => refresh'[m].at = None
    <3>. TAKE m \in Records
    <3>. HAVE m > rows
    <3>1. refresh[m].at = None
      BY DEF Inv, Filed, At
    <3>. QED  BY <1>3, <3>1, Numbers DEF None
  <2>2. \A r \in Requests : desk'[r].at # "submit"
    BY <1>4, IdleDesk
  <2>3. \A m \in Threads : refresh'[m].at \in Unborn => call'[m] = NoCall
    BY <1>1, <1>2, <1>3 DEF Inv, Filed, Unborn, None
  <2>. QED  BY <1>2, <1>4, <2>1, <2>2, <2>3 DEF Filed, At
<1>8. Lists' /\ Fresh' /\ EventIsKnown' /\ Latest'
  BY <1>2, <1>3, EndStep
<1>. QED  BY <1>6, <1>7, <1>8 DEF Inv

\* Refreshes that run come to an end.
LEMMA RunningEnd ==
  ASSUME Inv, UNCHANGED <<shopVars, profile, had, proposal, apart, cache>>, faults' \in 0..MaxExtra,
         refresh' \in [Threads -> Refreshes], call' \in [Threads -> Calls],
         \A n \in Threads : \/ refresh'[n] = refresh[n]
                            \/ refresh[n].at \in Active /\ \E how \in {"failed", "lost"} : refresh'[n] = Ended(how, 0),
         \A n \in Threads : call'[n] \in {call[n], NoCall}
  PROVE  Inv'
<1>1. TypeOK'
  BY DEF shopVars, Inv, TypeOK
<1>2. \A n \in Threads : \/ refresh'[n].at = refresh[n].at
                         \/ refresh[n].at \notin Unborn /\ refresh'[n].at \notin Unborn
  BY Places DEF Ended, Unborn, None
<1>3. \A n \in Threads : refresh[n].at \in Unborn => call'[n] = call[n]
  BY DEF Inv, Filed
<1>4. Filed'
  BY <1>2, <1>3, FiledKept DEF shopVars, Inv
<1>5. Lists' /\ Fresh' /\ EventIsKnown' /\ Latest'
  BY EndStep DEF shopVars
<1>. QED  BY <1>1, <1>4, <1>5 DEF Inv

LEMMA FailedIs == Ended("failed", 0) \in Refreshes /\ Ended("lost", 0) \in Refreshes
BY EndedIs, Numbers DEF Settled

LEMMA RefreshFailsStep == ASSUME Inv, NEW n \in Threads, RefreshFails(n) PROVE Inv'
<1>1. refresh' = [refresh EXCEPT ![n] = Ended("failed", 0)] /\ refresh[n].at \in Active
  BY DEF RefreshFails, End, Running
<1>2. refresh' \in [Threads -> Refreshes] /\ call' \in [Threads -> Calls]
  BY <1>1, FailedIs DEF RefreshFails, Inv, TypeOK
<1>3. \A m \in Threads : refresh'[m] # refresh[m] => m = n /\ refresh'[m] = Ended("failed", 0)
  BY <1>1 DEF Inv, TypeOK
<1>4. faults' \in 0..MaxExtra
  BY RoomIs DEF RefreshFails, Inv
<1>. QED  BY <1>1, <1>2, <1>3, <1>4, RunningEnd DEF RefreshFails

LEMMA AgentRestartsStep == ASSUME Inv, AgentRestarts PROVE Inv'
<1>1. \A m \in Threads : refresh'[m] = IF refresh[m].at \in Active THEN Ended("lost", 0) ELSE refresh[m]
  BY DEF AgentRestarts, Running
<1>2. refresh' \in [Threads -> Refreshes] /\ call' \in [Threads -> Calls]
  BY FailedIs DEF AgentRestarts, Inv, TypeOK
<1>3. faults' \in 0..MaxExtra
  BY RoomIs DEF AgentRestarts, Inv
<1>. QED  BY <1>1, <1>2, <1>3, RunningEnd DEF AgentRestarts

-----------------------------------------------------------------------------
(* The gateway's call                                                      *)

LEMMA RefuseStep ==
  ASSUME Inv, NEW n \in Threads, Refuse(n), UNCHANGED <<shopVars, profile, had, proposal, apart, cache, faults>>
  PROVE  Inv'
<1>1. call' \in [Threads -> Calls] /\ \A m \in Threads : call'[m] \in {call[m], NoCall}
  BY NoCallIs DEF Refuse, Inv, TypeOK
<1>2. refresh' \in [Threads -> Refreshes]
  BY FailedIs DEF Refuse, End, Inv, TypeOK
<1>3. \A m \in Threads : refresh'[m] # refresh[m] => refresh[m].at \in Active /\ refresh'[m] = Ended("failed", 0)
  BY Places DEF Refuse, End, At, Inv, TypeOK
<1>4. faults' \in 0..MaxExtra
  BY DEF Inv, TypeOK
<1>. QED  BY <1>1, <1>2, <1>3, <1>4, RunningEnd

LEMMA CallStep == ASSUME Inv, NEW n \in Threads, Call(n) PROVE Inv'
<1>. DEFINE step == IF n \in Records THEN "pop" ELSE "get"
<1>0. step \in {"pop", "get"} /\ (step = "get" => n \notin Records) /\ CallFor(n, step)
  BY DEF Call
<1>. HIDE DEF step
<1>1. CASE Refuse(n)
  BY <1>0, <1>1, RefuseStep DEF CallFor
<1>2. CASE Owns(refresh[n].by)
  <2>. PICK was \in Calls : was = call[n]
    BY Shapes DEF Inv
  <2>. DEFINE c == [was EXCEPT !.step = step, !.by = refresh[n].by]
  <2>1. c \in Calls /\ c.step = step /\ c.seen = was.seen
    BY <1>0, Shapes DEF Inv, Calls
  <2>2. call' = [call EXCEPT ![n] = c]
    BY <1>0, <1>2 DEF CallFor, Inv, TypeOK
  <2>. HIDE DEF c
  <2>3. refresh' = refresh /\ refresh[n].at = "follow_ups" /\ UNCHANGED <<shopVars, profile, had, proposal, apart, cache, faults>>
    BY <1>0, <1>2 DEF CallFor, At
  <2>4. \A m \in Threads : call'[m] = IF m = n THEN c ELSE call[m]
    BY <2>2 DEF Inv, TypeOK
  <2>5. TypeOK'
    BY <2>1, <2>2, <2>3 DEF shopVars, Inv, TypeOK
  <2>6. \A m \in Threads : refresh[m].at \in Unborn => call'[m] = call[m]
    BY <2>3, <2>4 DEF Unborn, None
  <2>7. Filed'
    BY <2>3, <2>6, FiledKept DEF shopVars, Inv
  <2>8. Lists'
    <3>1. rows' \in Nat /\ rows' >= rows
      BY <2>3, Numbers DEF shopVars, Inv, TypeOK
    <3>. QED  BY <2>1, <2>3, <2>4, <3>1, ListsKept DEF Inv
  <2>9. Fresh'
    BY <1>0, <2>1, <2>3, <2>4, FreshKept DEF Inv
  <2>10. EventIsKnown' /\ Latest'
    BY <1>0, <2>1, <2>3, <2>4, KnownKept, LatestKept DEF Inv
  <2>. QED  BY <2>5, <2>7, <2>8, <2>9, <2>10 DEF Inv
<1>. QED  BY <1>0, <1>1, <1>2 DEF CallFor

LEMMA PopStep == ASSUME Inv, NEW n \in Threads, Pop(n) PROVE Inv'
<1>. DEFINE raced == \E m \in Threads : call[m].step = "store" /\ call[m].by = call[n].by /\ call[m].seen < n
<1>. PICK was \in Calls : was = call[n] /\ was.step = "pop"
  BY Shapes DEF Inv, Pop
<1>. DEFINE c == [was EXCEPT !.step = "get", !.raced = raced]
<1>1. c \in Calls /\ c.step = "get" /\ c.by = was.by /\ c.seen = was.seen /\ c.raced = raced
  BY DEF Calls
<1>2. call' = [call EXCEPT ![n] = c] /\ cache' = [cache EXCEPT ![was.by] = {}]
  BY DEF Pop, Inv, TypeOK
<1>. HIDE DEF c
<1>3. UNCHANGED <<shopVars, agentVars, faults>>
  BY DEF Pop
<1>4. \A m \in Threads : call'[m] = IF m = n THEN c ELSE call[m]
  BY <1>2 DEF Inv, TypeOK
<1>5. /\ cache' \in [Employees -> SUBSET (0..MaxRecords)] /\ was.by \in Employees /\ cache'[was.by] = {}
      /\ \A e \in Employees : cache'[e] \subseteq cache[e]
  BY <1>2 DEF Inv, TypeOK, Calls
<1>6. TypeOK'
  BY <1>1, <1>2, <1>3, <1>5 DEF shopVars, agentVars, Inv, TypeOK
<1>7. Filed'
  <2>1. \A m \in Threads : refresh[m].at \in Unborn => call'[m] = call[m]
    BY <1>4, NoCallIs DEF Inv, Filed
  <2>. QED  BY <1>3, <2>1, FiledKept DEF shopVars, agentVars, Inv
<1>8. Lists'
  <2>1. rows' \in Nat /\ rows' >= rows
    BY <1>3, Numbers DEF shopVars, Inv, TypeOK
  <2>. QED  BY <1>1, <1>3, <1>4, <1>5, <2>1, ListsKept DEF agentVars, Inv
<1>9. Fresh'
  <2>. SUFFICES ASSUME NEW k \in Records, ~call'[k].raced
                PROVE  /\ call'[k].step = "store" => k <= call'[k].seen
                       /\ call'[k].step = "get" =>
                             /\ \A kept \in cache'[call'[k].by] : k <= kept
                             /\ \A m \in Threads : call'[m].step = "store" /\ call'[m].by = call'[k].by => k <= call'[m].seen
    BY DEF Fresh
  <2>0. \A m \in Threads : call'[m].step = "store" => m # n /\ call'[m] = call[m]
    BY <1>1, <1>4
  <2>1. CASE k = n
    <3>1. \A m \in Threads : call[m].step = "store" /\ call[m].by = was.by => ~(call[m].seen < n)
      BY <1>1, <1>4, <2>1
    <3>2. \A m \in Threads : call[m].seen \in Nat /\ n \in Nat
      BY Shapes, Numbers DEF Inv
    <3>3. \A m \in Threads : call[m].step = "store" /\ call[m].by = was.by => n <= call[m].seen
      BY <3>1, <3>2
    <3>. QED  BY <1>1, <1>4, <1>5, <2>0, <2>1, <3>3
  <2>2. CASE k # n
    <3>1. call'[k] = call[k] /\ call[k].by \in Employees
      BY <1>4, <2>2, Numbers, Shapes DEF Inv
    <3>. QED  BY <1>5, <2>0, <3>1 DEF Inv, Fresh
  <2>. QED  BY <2>1, <2>2
<1>10. EventIsKnown' /\ Latest'
  BY <1>1, <1>3, <1>4, KnownKept, LatestKept DEF agentVars, Inv
<1>. QED  BY <1>6, <1>7, <1>8, <1>9, <1>10 DEF Inv

\* A call that has begun belongs to a refresh that has; the event's row is there.
LEMMA Begun ==
  ASSUME Inv, NEW n \in Threads, call[n].step # "idle"
  PROVE  refresh[n].at \notin Unborn /\ (n \in Records => n <= rows)
<1>1. refresh[n].at \notin Unborn
  BY NoCallIs DEF Inv, Filed
<1>2. ASSUME n \in Records PROVE ~(n > rows)
  BY <1>1, <1>2, Places DEF Inv, Filed, At
<1>3. n \in Nat /\ rows \in Nat
  BY Numbers DEF Inv, TypeOK
<1>. QED  BY <1>1, <1>2, <1>3

\* The refresh gets a list that has its follow-up and, while it is alone, all that any
\* proposal rests on.
LEMMA AnswerStep ==
  ASSUME Inv, NEW n \in Threads, NEW seen \in 0..MaxRecords, seen <= rows, Answer(n, seen),
         call[n].step # "idle", n \in Records /\ ~call[n].raced => n <= seen,
         UNCHANGED <<shopVars, profile, had, proposal, faults>>,
         cache' \in [Employees -> SUBSET (0..MaxRecords)],
         \A e \in Employees : \A kept \in cache'[e] : kept <= rows,
         \/ apart' = "no"
         \/ apart' = apart /\ call[n].step = "store" /\ seen = call[n].seen
  PROVE  TypeOK' /\ Filed' /\ Lists' /\ EventIsKnown' /\ Latest'
<1>. PICK was \in Refreshes : was = refresh[n]
  BY Shapes DEF Inv
<1>. DEFINE e == [was EXCEPT !.at = "purchases", !.seen = seen, !.raced = call[n].raced]
<1>1. e \in Refreshes /\ e.at = "purchases" /\ e.seen = seen /\ e.raced = call[n].raced
  BY Shapes DEF Inv, Refreshes, Active
<1>2. refresh' = IF At(n, "follow_ups") THEN [refresh EXCEPT ![n] = e] ELSE refresh
  BY DEF Answer, Inv, TypeOK
<1>. HIDE DEF e
<1>3. \A m \in Threads : call'[m] = IF m = n THEN NoCall ELSE call[m]
  BY DEF Answer, Inv, TypeOK
<1>4. TypeOK'
  <2>1. call' \in [Threads -> Calls]
    BY NoCallIs DEF Answer, Inv, TypeOK
  <2>2. refresh' \in [Threads -> Refreshes]
    BY <1>1, <1>2 DEF Inv, TypeOK
  <2>3. apart' \in {"yes", "no"}
    BY DEF Inv, TypeOK
  <2>. QED  BY <2>1, <2>2, <2>3 DEF shopVars, Inv, TypeOK
<1>5. \A m \in Threads : refresh'[m] # refresh[m] => m = n /\ At(n, "follow_ups") /\ refresh'[m] = e
  BY <1>2 DEF Inv, TypeOK
<1>6. Filed'
  <2>1. \A m \in Threads : refresh[m].at \in Unborn => call'[m] = call[m]
    BY <1>3, Begun
  <2>2. e.at \notin Unborn
    BY <1>1, Places
  <2>3. \A m \in Threads : refresh'[m].at = refresh[m].at \/ (refresh[m].at \notin Unborn /\ refresh'[m].at \notin Unborn)
    BY <1>5, <2>2, Places DEF At
  <2>. QED  BY <2>1, <2>3, FiledKept DEF shopVars, Inv
<1>7. Lists'
  <2>1. \A m \in Threads : refresh'[m].seen <= rows
    BY <1>1, <1>5 DEF Inv, Lists
  <2>2. \A m \in Threads : call'[m].seen <= rows
    BY <1>3, NoCallIs, Numbers DEF Inv, Lists, TypeOK
  <2>. QED  BY <2>1, <2>2 DEF Lists, shopVars
<1>8. EventIsKnown'
  BY <1>1, <1>5, Shapes, Numbers DEF Inv, EventIsKnown
<1>9. Latest'
  <2>1. CASE apart' = "no"
    BY <2>1, LatestGone
  <2>2. CASE ~At(n, "follow_ups") /\ apart' = apart
    BY <1>3, <1>5, <2>2, NoCallIs, LatestKept DEF Inv
  <2>3. CASE At(n, "follow_ups") /\ apart' = apart /\ call[n].step = "store" /\ seen = call[n].seen
    <3>. SUFFICES ASSUME apart = "yes" PROVE Latest'
      BY <2>3 DEF Latest, Alone, NewestWhenApart
    <3>0. refresh'[n] = e
      BY <1>2, <2>3 DEF Inv, TypeOK
    <3>1. \A m \in Threads : refresh[m].at \in Active => m = n
      BY <2>3, Places DEF Inv, Latest, Alone, At
    <3>2. \A m \in Threads : refresh'[m].at \in Active => m = n
      BY <1>5, <3>1
    <3>3. \A m \in Threads : refresh'[m].at # "follow_ups"
      BY <1>1, <3>0, <3>2, Places
    <3>4. \A m \in Threads : refresh'[m].at = "proposal" => m # n /\ refresh'[m] = refresh[m]
      BY <1>1, <1>5, <3>0
    <3>5. \A m \in Threads : refresh'[m].at = "proposal" => refresh'[m].seen <= seen
      BY <2>3, <3>4 DEF Inv, Latest, Alone, At
    <3>6. \A m, k \in Threads : refresh'[m].at = "proposal" /\ refresh'[k].at \in Reading
                                    => refresh'[m].seen <= refresh'[k].seen
      BY <1>1, <3>0, <3>2, <3>5, Places
    <3>7. Alone'
      BY <3>2, <3>3, <3>6 DEF Alone, At
    <3>8. NewestWhenApart'
      BY <2>3, <3>4 DEF Inv, Latest, NewestWhenApart, At
    <3>. QED  BY <3>7, <3>8 DEF Latest
  <2>. QED  BY <2>1, <2>2, <2>3
<1>. QED  BY <1>4, <1>6, <1>7, <1>8, <1>9

LEMMA HitStep == ASSUME Inv, NEW n \in Threads, Hit(n) PROVE Inv'
<1>. PICK seen \in cache[call[n].by] : Answer(n, seen)
  BY DEF Hit
<1>1. seen \in 0..MaxRecords /\ seen <= rows /\ call[n].by \in Employees
  BY Shapes DEF Inv, TypeOK, Lists
<1>2. n \in Records /\ ~call[n].raced => n <= seen
  BY DEF Hit, Inv, Fresh
<1>3. /\ UNCHANGED <<shopVars, profile, had, proposal, cache, faults>> /\ apart' = "no"
      /\ call[n].step = "get"
  BY DEF Hit
<1>4. TypeOK' /\ Filed' /\ Lists' /\ EventIsKnown' /\ Latest'
  BY <1>1, <1>2, <1>3, AnswerStep DEF Inv, TypeOK, Lists
<1>5. Fresh'
  <2>1. \A m \in Threads : call'[m] \in {call[m], NoCall}
    BY DEF Answer, Inv, TypeOK
  <2>. QED  BY <1>3, <2>1, NoCallIs, FreshKept DEF Inv
<1>. QED  BY <1>4, <1>5 DEF Inv

LEMMA StoreStep == ASSUME Inv, NEW n \in Threads, Store(n) PROVE Inv'
<1>. PICK mine \in Calls : mine = call[n] /\ mine.step = "store"
  BY Shapes DEF Inv, Store
<1>0. mine.by \in Employees /\ mine.seen \in 0..MaxRecords /\ mine.seen <= rows
  BY DEF Calls, Inv, Lists
<1>1. Answer(n, mine.seen) /\ UNCHANGED <<shopVars, profile, had, proposal, apart, faults>>
  BY DEF Store
<1>2. cache' = [cache EXCEPT ![mine.by] = {mine.seen}]
  BY DEF Store
<1>3. /\ cache' \in [Employees -> SUBSET (0..MaxRecords)]
      /\ \A e \in Employees : cache'[e] = IF e = mine.by THEN {mine.seen} ELSE cache[e]
  BY <1>0, <1>2 DEF Inv, TypeOK
<1>4. n \in Records /\ ~call[n].raced => n <= mine.seen
  BY DEF Inv, Fresh
<1>5. \A e \in Employees : \A kept \in cache'[e] : kept <= rows
  BY <1>0, <1>3 DEF Inv, Lists
<1>6. TypeOK' /\ Filed' /\ Lists' /\ EventIsKnown' /\ Latest'
  BY <1>0, <1>1, <1>3, <1>4, <1>5, AnswerStep
<1>7. Fresh'
  <2>. SUFFICES ASSUME NEW k \in Records, ~call'[k].raced
                PROVE  /\ call'[k].step = "store" => k <= call'[k].seen
                       /\ call'[k].step = "get" =>
                             /\ \A kept \in cache'[call'[k].by] : k <= kept
                             /\ \A m \in Threads : call'[m].step = "store" /\ call'[m].by = call'[k].by => k <= call'[m].seen
    BY DEF Fresh
  <2>1. \A m \in Threads : call'[m] = IF m = n THEN NoCall ELSE call[m]
    BY <1>1 DEF Answer, Inv, TypeOK
  <2>2. \A m \in Threads : call'[m].step = "store" => m # n /\ call'[m] = call[m]
    BY <2>1, NoCallIs
  <2>3. CASE k = n
    BY <2>1, <2>3, Numbers, NoCallIs
  <2>4. CASE k # n
    <3>1. call'[k] = call[k] /\ call[k].by \in Employees /\ k \in Threads
      BY <2>1, <2>4, Numbers, Shapes DEF Inv
    <3>2. call[k].step = "store" => k <= call[k].seen
      BY <3>1 DEF Inv, Fresh
    <3>3. ASSUME call[k].step = "get", NEW kept \in cache'[call[k].by] PROVE k <= kept
      BY <1>3, <3>1, <3>3 DEF Inv, Fresh
    <3>4. ASSUME call[k].step = "get", NEW m \in Threads, call'[m].step = "store", call'[m].by = call[k].by
          PROVE  k <= call'[m].seen
      BY <2>2, <3>1, <3>4 DEF Inv, Fresh
    <3>. QED  BY <3>1, <3>2, <3>3, <3>4
  <2>. QED  BY <2>3, <2>4
<1>. QED  BY <1>6, <1>7 DEF Inv

LEMMA FetchStep == ASSUME Inv, NEW n \in Threads, Fetch(n) PROVE Inv'
<1>1. CASE Refuse(n)
  BY <1>1, RefuseStep DEF Fetch
<1>2. CASE Owns(call[n].by)
  <2>. PICK was \in Calls : was = call[n] /\ was.step = "get"
    BY Shapes DEF Inv, Fetch
  <2>. DEFINE c == [was EXCEPT !.step = "store", !.seen = rows]
  <2>0. rows \in 0..MaxRecords /\ rows \in Nat
    BY Numbers DEF Inv, TypeOK
  <2>1. c \in Calls /\ c.step = "store" /\ c.seen = rows /\ c.by = was.by /\ c.raced = was.raced
    BY <2>0 DEF Calls
  <2>2. call' = [call EXCEPT ![n] = c]
    BY <1>2 DEF Fetch, Inv, TypeOK
  <2>. HIDE DEF c
  <2>3. UNCHANGED <<shopVars, agentVars, cache, faults>>
    BY <1>2 DEF Fetch, agentVars
  <2>4. \A m \in Threads : call'[m] = IF m = n THEN c ELSE call[m]
    BY <2>2 DEF Inv, TypeOK
  <2>5. TypeOK'
    BY <2>1, <2>2, <2>3 DEF shopVars, agentVars, Inv, TypeOK
  <2>6. Filed'
    <3>1. \A m \in Threads : refresh[m].at \in Unborn => call'[m] = call[m]
      BY <2>4, NoCallIs DEF Inv, Filed
    <3>. QED  BY <2>3, <3>1, FiledKept DEF shopVars, agentVars, Inv
  <2>7. Lists'
    BY <2>0, <2>1, <2>3, <2>4 DEF shopVars, agentVars, Inv, Lists
  <2>8. Fresh'
    <3>. SUFFICES ASSUME NEW k \in Records, ~call'[k].raced
                  PROVE  /\ call'[k].step = "store" => k <= call'[k].seen
                         /\ call'[k].step = "get" =>
                               /\ \A kept \in cache'[call'[k].by] : k <= kept
                               /\ \A m \in Threads : call'[m].step = "store" /\ call'[m].by = call'[k].by => k <= call'[m].seen
      BY DEF Fresh
    <3>0. k \in Threads /\ (call[k].step # "idle" => k <= rows)
      BY Begun, Numbers
    <3>1. CASE k = n
      BY <2>1, <2>4, <3>0, <3>1
    <3>2. CASE k # n
      <4>1. call'[k] = call[k]
        BY <2>4, <3>0, <3>2
      <4>2. call[k].step = "store" => k <= call[k].seen
        BY <4>1 DEF Inv, Fresh
      <4>3. call[k].step = "get" => \A kept \in cache[call[k].by] : k <= kept
        BY <4>1 DEF Inv, Fresh
      <4>4. ASSUME call[k].step = "get", NEW m \in Threads, call'[m].step = "store", call'[m].by = call[k].by
            PROVE  k <= call'[m].seen
        <5>1. CASE m = n
          BY <2>1, <2>4, <3>0, <4>4, <5>1
        <5>2. CASE m # n
          BY <2>4, <4>1, <4>4, <5>2 DEF Inv, Fresh
        <5>. QED  BY <5>1, <5>2
      <4>. QED  BY <2>3, <4>1, <4>2, <4>3, <4>4
    <3>. QED  BY <3>1, <3>2
  <2>9. EventIsKnown'
    BY <2>3, KnownKept DEF agentVars, Inv
  <2>10. Latest'
    <3>1. ASSUME apart = "yes", NEW m \in Threads, NEW k \in Threads, At(m, "proposal"), At(k, "follow_ups"),
                 call'[k].step = "store"
          PROVE  refresh[m].seen <= call'[k].seen
      <4>1. CASE k = n
        BY <2>1, <2>4, <4>1 DEF Inv, Lists
      <4>2. CASE k # n
        BY <2>4, <3>1, <4>2 DEF Inv, Latest, Alone
      <4>. QED  BY <4>1, <4>2
    <3>2. Alone'
      BY <2>3, <3>1 DEF agentVars, Inv, Latest, Alone, At
    <3>3. NewestWhenApart'
      BY <2>3 DEF agentVars, Inv, Latest, NewestWhenApart, At
    <3>. QED  BY <3>2, <3>3 DEF Latest
  <2>. QED  BY <2>5, <2>6, <2>7, <2>8, <2>9, <2>10 DEF Inv
<1>. QED  BY <1>1, <1>2 DEF Fetch

-----------------------------------------------------------------------------
(* ProfileSubgraph.refresh                                                 *)

LEMMA ReadStep ==
  ASSUME Inv, NEW n \in Threads, NEW from \in Reading, NEW to \in Reading, NEW current \in Fields,
         Read(n, from, to, current)
  PROVE  Inv'
<1>. PICK was \in Refreshes : was = refresh[n] /\ was.at = from
  BY Shapes DEF Inv, Read, At
<1>. DEFINE e == [was EXCEPT !.at = to, !.current = current]
<1>1. e \in Refreshes /\ e.at = to /\ e.seen = was.seen /\ e.raced = was.raced
  BY Places DEF Refreshes, Fields
<1>2. refresh' = [refresh EXCEPT ![n] = IF Owns(was.by) THEN e ELSE Ended("failed", 0)]
  BY DEF Read, Inv, TypeOK
<1>. HIDE DEF e
<1>3. UNCHANGED <<shopVars, profile, had, proposal, apart, call, cache, faults>> /\ faults \in 0..MaxExtra
  BY DEF Read, Inv, TypeOK
<1>4. refresh' \in [Threads -> Refreshes] /\ call' \in [Threads -> Calls]
  BY <1>1, <1>2, <1>3, FailedIs DEF Inv, TypeOK
<1>5. CASE ~Owns(was.by)
  <2>1. \A m \in Threads : refresh'[m] = IF m = n THEN Ended("failed", 0) ELSE refresh[m]
    BY <1>2, <1>5 DEF Inv, TypeOK
  <2>2. refresh[n].at \in Active
    BY Places
  <2>. QED  BY <1>3, <1>4, <2>1, <2>2, RunningEnd
<1>6. CASE Owns(was.by)
  <2>1. \A m \in Threads : refresh'[m] = IF m = n THEN e ELSE refresh[m]
    BY <1>2, <1>6 DEF Inv, TypeOK
  <2>2. TypeOK'
    BY <1>3, <1>4 DEF shopVars, Inv, TypeOK
  <2>3. Filed'
    <3>1. from \notin Unborn /\ to \notin Unborn
      BY Places
    <3>. QED  BY <1>1, <1>3, <2>1, <3>1, FiledKept DEF shopVars, Inv
  <2>4. Lists'
    <3>1. rows' \in Nat /\ rows' >= rows
      BY <1>3, Numbers DEF shopVars, Inv, TypeOK
    <3>. QED  BY <1>1, <1>3, <2>1, <3>1, ListsKept DEF Inv
  <2>5. Fresh'
    BY <1>3, FreshKept DEF Inv
  <2>6. EventIsKnown'
    BY <1>1, <2>1, Numbers DEF Inv, EventIsKnown, Reading
  <2>7. Latest'
    <3>1. \A m \in Threads : /\ refresh'[m].at \in Active <=> refresh[m].at \in Active
                             /\ refresh'[m].at \in Reading <=> refresh[m].at \in Reading
                             /\ refresh'[m].at = "follow_ups" => refresh[m].at = "follow_ups"
                             /\ refresh'[m].at = "proposal" => refresh[m].at = "proposal"
                             /\ refresh'[m].seen = refresh[m].seen
      BY <1>1, <2>1, Places
    <3>2. Alone'
      BY <1>3, <3>1 DEF Inv, Latest, Alone, At
    <3>3. NewestWhenApart'
      BY <1>3, <3>1 DEF Inv, Latest, NewestWhenApart, At
    <3>. QED  BY <3>2, <3>3 DEF Latest
  <2>. QED  BY <2>2, <2>3, <2>4, <2>5, <2>6, <2>7 DEF Inv
<1>. QED  BY <1>5, <1>6

LEMMA ConcludeStep == ASSUME Inv, NEW n \in Threads, Conclude(n) PROVE Inv'
<1>. PICK seen \in 0..MaxRecords : seen = refresh[n].seen
  BY Shapes DEF Inv
<1>. PICK outcome \in {"checklist", "no_change", "proposal"} :
       /\ outcome = "proposal" => ~(seen < MinRecords)
       /\ refresh' = [refresh EXCEPT ![n] = Ended(outcome, IF outcome = "proposal" THEN seen ELSE 0)]
       /\ proposal' = IF outcome = "proposal" THEN [value |-> Says[seen], rests |-> seen] ELSE proposal
  <2>. DEFINE o == IF seen < MinRecords THEN "checklist"
                   ELSE IF Says[seen] = refresh[n].current THEN "no_change" ELSE "proposal"
  <2>1. o \in {"checklist", "no_change", "proposal"} /\ (o = "proposal" => ~(seen < MinRecords))
    OBVIOUS
  <2>2. /\ refresh' = [refresh EXCEPT ![n] = Ended(o, IF o = "proposal" THEN seen ELSE 0)]
        /\ proposal' = IF o = "proposal" THEN [value |-> Says[seen], rests |-> seen] ELSE proposal
    BY DEF Conclude
  <2>. HIDE DEF o
  <2>. QED  BY <2>1, <2>2
<1>0. UNCHANGED <<shopVars, profile, had, apart, call, cache, faults>> /\ At(n, "extract")
  BY DEF Conclude
<1>. DEFINE knew == IF outcome = "proposal" THEN seen ELSE 0
            e == Ended(outcome, knew)
<1>1. knew \in 0..MaxRecords /\ knew \in {seen, 0} /\ e \in Refreshes /\ e.at = outcome /\ e.seen = knew
  BY EndedIs, Numbers DEF Settled
<1>2. refresh' = [refresh EXCEPT ![n] = e]
  OBVIOUS
<1>. HIDE DEF e
<1>3. \A m \in Threads : refresh'[m] = IF m = n THEN e ELSE refresh[m]
  BY <1>2 DEF Inv, TypeOK
<1>4. outcome = "proposal" => Says[seen] \in Fields
  BY Numbers, FollowUpAssumption DEF Fields
<1>5. TypeOK'
  <2>1. refresh' \in [Threads -> Refreshes]
    BY <1>1, <1>2 DEF Inv, TypeOK
  <2>2. proposal' \in [value : Fields, rests : 0..MaxRecords]
    BY <1>4 DEF Inv, TypeOK
  <2>. QED  BY <1>0, <2>1, <2>2 DEF shopVars, Inv, TypeOK
<1>6. Filed'
  <2>1. e.at \notin Unborn /\ refresh[n].at \notin Unborn
    BY <1>0, <1>1 DEF At, Unborn, None
  <2>. QED  BY <1>0, <1>3, <2>1, FiledKept DEF shopVars, Inv
<1>7. Lists'
  <2>1. rows' \in Nat /\ rows' >= rows
    BY <1>0, Numbers DEF shopVars, Inv, TypeOK
  <2>. QED  BY <1>0, <1>1, <1>3, <2>1, ListsKept DEF Inv
<1>8. Fresh' /\ EventIsKnown'
  BY <1>0, <1>1, <1>3, FreshKept, KnownKept DEF Inv, Reading
<1>9. Latest'
  <2>1. CASE outcome # "proposal"
    BY <1>0, <1>1, <1>3, <2>1, LatestKept DEF Inv, Active
  <2>2. CASE outcome = "proposal"
    <3>. SUFFICES ASSUME apart = "yes" PROVE Latest'
      BY <1>0 DEF Latest, Alone, NewestWhenApart
    <3>1. \A m \in Threads : refresh[m].at \in Active => m = n
      BY <1>0, Places DEF Inv, Latest, Alone, At
    <3>2. \A m \in Threads : refresh'[m].at \notin Active
      BY <1>1, <1>3, <2>2, <3>1, Places
    <3>3. Alone'
      BY <3>2, Places DEF Alone, At
    <3>4. ASSUME NEW m \in Threads, refresh'[m].at = "proposal" PROVE refresh'[m].seen <= seen
      <4>1. CASE m = n
        BY <1>1, <1>3, <2>2, <4>1
      <4>2. CASE m # n
        BY <1>0, <1>3, <3>4, <4>2, Places DEF Inv, Latest, Alone, At
      <4>. QED  BY <4>1, <4>2
    <3>5. NewestWhenApart'
      BY <2>2, <3>4 DEF NewestWhenApart, At
    <3>. QED  BY <3>3, <3>5 DEF Latest
  <2>. QED  BY <2>1, <2>2
<1>. QED  BY <1>5, <1>6, <1>7, <1>8, <1>9 DEF Inv

LEMMA DecideStep == ASSUME Inv, Decide PROVE Inv'
<1>0. UNCHANGED <<shopVars, refresh, apart, call, cache, faults>> /\ proposal' = Nothing
  BY DEF Decide
<1>1. TypeOK'
  <2>1. profile' \in Fields /\ had' \in SUBSET Fields
    BY DEF Decide, Inv, TypeOK
  <2>2. Nothing \in [value : Fields, rests : 0..MaxRecords]
    BY Numbers DEF Nothing, Fields
  <2>. QED  BY <1>0, <2>1, <2>2 DEF shopVars, Inv, TypeOK
<1>2. Filed' /\ Lists' /\ Fresh' /\ EventIsKnown'
  BY <1>0 DEF shopVars, Inv, Filed, Lists, Fresh, EventIsKnown, At
<1>3. Latest'
  BY <1>0, LatestKept DEF Inv
<1>. QED  BY <1>1, <1>2, <1>3 DEF Inv

-----------------------------------------------------------------------------
(* The specification                                                       *)

LEMMA InitInv == ASSUME Init PROVE Inv
<1>1. \A n \in Threads : refresh[n] = Ended(None, 0) /\ call[n] = NoCall
  BY DEF Init
<1>2. Ended(None, 0) \in Refreshes /\ Ended(None, 0).at = None /\ Ended(None, 0).seen = 0
  BY EndedIs, Numbers
<1>3. TypeOK
  <2>1. Nothing \in [value : Fields, rests : 0..MaxRecords] /\ None \in Fields
    BY Numbers DEF Nothing, Fields
  <2>. QED  BY <1>2, <2>1, IdleDesk, NoCallIs, Numbers, FollowUpAssumption DEF Init, TypeOK
<1>4. Filed
  <2>1. \A r \in Requests : desk[r].at # "submit"
    BY IdleDesk DEF Init
  <2>2. \A n \in Records : At(n, None)
    BY <1>1, <1>2, Numbers DEF At
  <2>3. queue = <<>>
    BY DEF Init
  <2>. QED  BY <1>1, <2>1, <2>2, <2>3 DEF Filed
<1>5. Lists
  BY <1>1, <1>2, NoCallIs DEF Init, Lists
<1>6. Fresh
  BY <1>1, NoCallIs, Numbers DEF Fresh
<1>7. EventIsKnown
  BY <1>1, <1>2, Numbers DEF EventIsKnown, None
<1>8. Latest
  BY <1>1, <1>2, Places DEF Init, Latest, Alone, NewestWhenApart, At, Unborn, None
<1>. QED  BY <1>3, <1>4, <1>5, <1>6, <1>7, <1>8 DEF Inv

LEMMA RefreshStep == ASSUME Inv, NEW n \in Threads, Refresh(n) PROVE Inv'
<1>1. CASE Gateway(n)
  BY <1>1, CallStep, PopStep, HitStep, FetchStep, StoreStep DEF Gateway
<1>2. CASE ReadPurchases(n)
  <2>1. None \in Fields
    BY DEF Fields
  <2>. QED  BY <1>2, <2>1, Places, ReadStep DEF ReadPurchases
<1>3. CASE ReadProfile(n)
  <2>. PICK current \in had : Read(n, "profile", "extract", current)
    BY <1>3 DEF ReadProfile
  <2>1. current \in Fields
    BY DEF Inv, TypeOK
  <2>. QED  BY <2>1, Places, ReadStep
<1>4. CASE Conclude(n)
  BY <1>4, ConcludeStep
<1>. QED  BY <1>1, <1>2, <1>3, <1>4 DEF Refresh

LEMMA NextInv == ASSUME Inv, [Next]_vars PROVE Inv'
<1>1. ASSUME NEW r \in Requests, Clerk(r) PROVE Inv'
  BY <1>1, SaveStep, SubmitStep, MoveOwnerStep, AuditStep DEF Clerk
<1>2. ASSUME NEW r \in Requests, \E e \in Sellers : Create(r, e) PROVE Inv'
  BY <1>2, CreateStep
<1>3. ASSUME NEW r \in Requests, \E e, to \in Employees : ReadOwner(r, e, to) PROVE Inv'
  BY <1>3, ReadOwnerStep
<1>4. CASE \E e \in Employees : SoftDelete(e)
  BY <1>4, SoftDeleteStep
<1>5. CASE \E e \in Sellers, n \in Asked : AskFor(n, e)
  BY <1>5, AskForStep
<1>6. CASE Deliver \/ Drop \/ ShopRestarts
  BY <1>6, DeliverStep, DropStep, ShopRestartsStep
<1>7. ASSUME NEW n \in Threads, Refresh(n) \/ RefreshFails(n) PROVE Inv'
  BY <1>7, RefreshStep, RefreshFailsStep
<1>8. CASE AgentRestarts \/ Decide
  BY <1>8, AgentRestartsStep, DecideStep
<1>9. CASE UNCHANGED vars
  BY <1>9 DEF vars, shopVars, agentVars, Inv, TypeOK, Filed, Lists, Fresh, EventIsKnown, Latest,
              Alone, NewestWhenApart, At
<1>. QED  BY <1>1, <1>2, <1>3, <1>4, <1>5, <1>6, <1>7, <1>8, <1>9 DEF Next

\* The inductive invariant holds of every follow-up, refresh, call and transfer.
THEOREM Invariance == Spec => []Inv
BY InitInv, NextInv, PTL DEF Spec

-----------------------------------------------------------------------------
(* The audit of the moves                                                  *)

LEMMA CountAppend ==
  ASSUME NEW S, NEW seq \in Seq(S), NEW x, NEW y \in S, NEW longer, longer = Append(seq, y)
  PROVE  /\ Count(seq, x) \in Nat
         /\ x = y => Count(longer, x) = Count(seq, x) + 1
         /\ x # y => Count(longer, x) = Count(seq, x)
<1>. DEFINE places == {k \in DOMAIN seq : seq[k] = x}
            more == {k \in DOMAIN longer : longer[k] = x}
<1>1. IsFiniteSet(places) /\ Cardinality(places) \in Nat
  <2>1. DOMAIN seq = 1..Len(seq) /\ Len(seq) \in Nat
    OBVIOUS
  <2>2. IsFiniteSet(1..Len(seq))
    BY <2>1, FS_Interval
  <2>. QED  BY <2>1, <2>2, FS_Subset, FS_CardinalityType
<1>2. /\ DOMAIN seq = 1..Len(seq) /\ Len(seq) \in Nat
      /\ DOMAIN longer = 1..(Len(seq) + 1) /\ longer[Len(seq) + 1] = y
      /\ \A k \in 1..Len(seq) : longer[k] = seq[k]
  OBVIOUS
<1>3. CASE x = y
  <2>1. more = places \cup {Len(seq) + 1} /\ Len(seq) + 1 \notin places
    BY <1>2, <1>3
  <2>. HIDE DEF places, more
  <2>2. Cardinality(more) = Cardinality(places) + 1
    BY <1>1, <2>1, FS_AddElement
  <2>. QED  BY <1>1, <1>3, <2>2 DEF Count, places, more
<1>4. CASE x # y
  <2>1. more = places
    BY <1>2, <1>4
  <2>. HIDE DEF places, more
  <2>2. Count(seq, x) = Cardinality(places) /\ Count(longer, x) = Cardinality(more)
    BY DEF Count, places, more
  <2>. QED  BY <1>1, <1>4, <2>1, <2>2
<1>. QED  BY <1>3, <1>4

LEMMA CountIs == ASSUME NEW S, NEW seq \in Seq(S), NEW x PROVE Count(seq, x) \in Nat
<1>1. DOMAIN seq = 1..Len(seq) /\ Len(seq) \in Nat
  OBVIOUS
<1>2. IsFiniteSet(1..Len(seq))
  BY <1>1, FS_Interval
<1>. QED  BY <1>1, <1>2, FS_Subset, FS_CardinalityType DEF Count

\* The requests that have yet to write this row.
Midway(m) == {r \in Requests : /\ desk[r].at = "audit" /\ desk[r].by = m.by
                               /\ desk[r].from = m.from /\ desk[r].to = m.to}

Ledger == faults = 0 => \A m \in Move : Count(audit, m) + Cardinality(Midway(m)) >= Count(moves, m)

LEMMA MidwayFinite == \A m : IsFiniteSet(Midway(m)) /\ Cardinality(Midway(m)) \in Nat
BY FS_Subset, FS_CardinalityType, FollowUpAssumption DEF Midway

\* A request that is about to write a row, or has written it.
LEMMA MidwayStep ==
  ASSUME TypeOK, NEW r \in Requests, NEW d \in Desk, desk' = [desk EXCEPT ![r] = d], NEW m \in Move
  PROVE  /\ desk[r].at # "audit" /\ d.at # "audit" => Midway(m)' = Midway(m)
         /\ desk[r].at # "audit" /\ d.at = "audit" =>
                /\ m = [from |-> d.from, to |-> d.to, by |-> d.by] => Cardinality(Midway(m)') = Cardinality(Midway(m)) + 1
                /\ m # [from |-> d.from, to |-> d.to, by |-> d.by] => Cardinality(Midway(m)') = Cardinality(Midway(m))
         /\ desk[r].at = "audit" /\ d.at # "audit" =>
                /\ m = [from |-> desk[r].from, to |-> desk[r].to, by |-> desk[r].by] => Cardinality(Midway(m)) = Cardinality(Midway(m)') + 1
                /\ m # [from |-> desk[r].from, to |-> desk[r].to, by |-> desk[r].by] => Cardinality(Midway(m)) = Cardinality(Midway(m)')
<1>1. desk'[r] = d /\ \A q \in Requests \ {r} : desk'[q] = desk[q]
  BY DEF TypeOK
<1>2. ASSUME NEW x \in Desk
      PROVE  m = [from |-> x.from, to |-> x.to, by |-> x.by] <=> x.by = m.by /\ x.from = m.from /\ x.to = m.to
  BY DEF Move
<1>. PICK old \in Desk : old = desk[r]
  BY DEF TypeOK
<1>. PICK before : before = Midway(m) /\ IsFiniteSet(before) /\ Cardinality(before) \in Nat
  BY MidwayFinite
<1>. PICK after : after = Midway(m)' /\ IsFiniteSet(after) /\ Cardinality(after) \in Nat
  <2>1. IsFiniteSet(Midway(m)')
    BY FS_Subset, FollowUpAssumption DEF Midway
  <2>. QED  BY <2>1, FS_CardinalityType
<1>3. CASE old.at # "audit" /\ d.at # "audit"
  <2>1. after = before
    BY <1>1, <1>3 DEF Midway
  <2>. QED  BY <1>3, <2>1
<1>4. CASE old.at # "audit" /\ d.at = "audit"
  <2>1. CASE m = [from |-> d.from, to |-> d.to, by |-> d.by]
    <3>0. d.by = m.by /\ d.from = m.from /\ d.to = m.to
      BY <1>2, <2>1
    <3>1. after = before \cup {r} /\ r \notin before
      BY <1>1, <1>4, <3>0 DEF Midway
    <3>2. Cardinality(after) = Cardinality(before) + 1
      BY <3>1, FS_AddElement
    <3>. QED  BY <1>4, <2>1, <3>2
  <2>2. CASE m # [from |-> d.from, to |-> d.to, by |-> d.by]
    <3>0. ~(d.by = m.by /\ d.from = m.from /\ d.to = m.to)
      BY <1>2, <2>2
    <3>1. after = before
      BY <1>1, <1>4, <3>0 DEF Midway
    <3>. QED  BY <1>4, <2>2, <3>1
  <2>. QED  BY <2>1, <2>2
<1>5. CASE old.at = "audit" /\ d.at # "audit"
  <2>1. CASE m = [from |-> old.from, to |-> old.to, by |-> old.by]
    <3>0. old.by = m.by /\ old.from = m.from /\ old.to = m.to
      BY <1>2, <2>1
    <3>1. before = after \cup {r} /\ r \notin after
      BY <1>1, <1>5, <3>0 DEF Midway
    <3>2. Cardinality(before) = Cardinality(after) + 1
      BY <3>1, FS_AddElement
    <3>. QED  BY <1>5, <2>1, <3>2
  <2>2. CASE m # [from |-> old.from, to |-> old.to, by |-> old.by]
    <3>0. ~(old.by = m.by /\ old.from = m.from /\ old.to = m.to)
      BY <1>2, <2>2
    <3>1. after = before
      BY <1>1, <1>5, <3>0 DEF Midway
    <3>. QED  BY <1>5, <2>2, <3>1
  <2>. QED  BY <2>1, <2>2
<1>. QED  BY <1>3, <1>4, <1>5

LEMMA OtherDesk ==
  ASSUME Inv, Ledger, NEW r \in Requests, NEW d \in Desk, desk' = [desk EXCEPT ![r] = d],
         desk[r].at # "audit", d.at # "audit", UNCHANGED <<audit, moves, faults>>
  PROVE  Ledger'
<1>1. \A m \in Move : Midway(m)' = Midway(m)
  BY MidwayStep DEF Inv
<1>. QED  BY <1>1 DEF Ledger

LEMMA SameDesk == ASSUME Ledger, UNCHANGED <<desk, audit, moves, faults>> PROVE Ledger'
<1>1. \A m \in Move : Midway(m)' = Midway(m)
  BY DEF Midway
<1>. QED  BY <1>1 DEF Ledger

LEMMA Faulty == ASSUME Inv, faults' = faults + 1 PROVE Ledger'
BY Numbers DEF Inv, TypeOK, Ledger

LEMMA LedgerMoves == ASSUME Inv, Ledger, NEW r \in Requests, MoveOwner(r) PROVE Ledger'
<1>. PICK old \in Desk : old = desk[r] /\ old.at = "update"
  BY DEF Inv, TypeOK, MoveOwner
<1>. PICK move \in Move : move = [from |-> old.from, to |-> old.to, by |-> old.by]
  BY DEF Desk, Move
<1>. DEFINE d == [old EXCEPT !.at = "audit"]
<1>1. d \in Desk /\ d.at = "audit" /\ d.from = old.from /\ d.to = old.to /\ d.by = old.by
  BY DEF Desk
<1>2. desk' = [desk EXCEPT ![r] = d] /\ audit' = audit /\ faults' = faults
  BY DEF MoveOwner, Inv, TypeOK
<1>. HIDE DEF d
<1>3. moves' = moves \/ moves' = Append(moves, move)
  BY DEF MoveOwner
<1>4. ASSUME NEW m \in Move, faults = 0
      PROVE  Count(audit', m) + Cardinality(Midway(m)') >= Count(moves', m)
  <2>0. /\ move = [from |-> d.from, to |-> d.to, by |-> d.by] /\ desk[r].at # "audit"
        /\ moves \in Seq(Move) /\ audit \in Seq(Move) /\ TypeOK
    BY <1>1 DEF Inv, TypeOK
  <2>1. /\ m = move => Cardinality(Midway(m)') = Cardinality(Midway(m)) + 1
        /\ m # move => Cardinality(Midway(m)') = Cardinality(Midway(m))
    BY <1>1, <1>2, <2>0, MidwayStep
  <2>2. /\ moves' = Append(moves, move) /\ m = move => Count(moves', m) = Count(moves, m) + 1
        /\ moves' = Append(moves, move) /\ m # move => Count(moves', m) = Count(moves, m)
    BY <2>0, CountAppend
  <2>6. Count(moves, m) \in Nat /\ Count(audit, m) \in Nat
    BY <2>0, CountIs
  <2>3. Count(audit, m) + Cardinality(Midway(m)) >= Count(moves, m) /\ Cardinality(Midway(m)) \in Nat
    BY <1>4, MidwayFinite DEF Ledger
  <2>4. CASE moves' = moves
    BY <1>2, <2>1, <2>2, <2>3, <2>4, <2>6
  <2>5. CASE moves' = Append(moves, move)
    BY <1>2, <2>1, <2>2, <2>3, <2>5, <2>6
  <2>. QED  BY <1>3, <2>4, <2>5
<1>. QED  BY <1>2, <1>4 DEF Ledger

LEMMA LedgerAudits == ASSUME Inv, Ledger, NEW r \in Requests, Audit(r) PROVE Ledger'
<1>. PICK old \in Desk : old = desk[r] /\ old.at = "audit"
  BY DEF Inv, TypeOK, Audit
<1>. PICK move \in Move : move = [from |-> old.from, to |-> old.to, by |-> old.by]
  BY DEF Desk, Move
<1>1. audit' = Append(audit, move) /\ desk' = [desk EXCEPT ![r] = Idle] /\ UNCHANGED <<moves, faults>>
  BY DEF Audit
<1>2. Idle \in Desk /\ Idle.at # "audit"
  BY IdleDesk
<1>3. ASSUME NEW m \in Move, faults = 0
      PROVE  Count(audit', m) + Cardinality(Midway(m)') >= Count(moves, m)
  <2>0. moves \in Seq(Move) /\ audit \in Seq(Move) /\ TypeOK
    BY DEF Inv, TypeOK
  <2>1. /\ m = move => Cardinality(Midway(m)) = Cardinality(Midway(m)') + 1
        /\ m # move => Cardinality(Midway(m)) = Cardinality(Midway(m)')
    BY <1>1, <1>2, <2>0, MidwayStep
  <2>2. /\ m = move => Count(audit', m) = Count(audit, m) + 1
        /\ m # move => Count(audit', m) = Count(audit, m)
    <3>1. /\ audit' = Append(audit, move) /\ m = move => Count(audit', m) = Count(audit, m) + 1
          /\ audit' = Append(audit, move) /\ m # move => Count(audit', m) = Count(audit, m)
      BY <2>0, CountAppend
    <3>. QED  BY <1>1, <3>1
  <2>5. Count(audit, m) \in Nat
    BY <2>0, CountIs
  <2>3. Count(audit, m) + Cardinality(Midway(m)) >= Count(moves, m) /\ Count(moves, m) \in Nat
    <3>1. Count(moves, m) \in Nat
      BY <2>0, CountIs
    <3>. QED  BY <1>3, <3>1 DEF Ledger
  <2>4. Cardinality(Midway(m)') \in Nat
    <3>1. IsFiniteSet(Midway(m)')
      BY FS_Subset, FollowUpAssumption DEF Midway
    <3>. QED  BY <3>1, FS_CardinalityType
  <2>. QED  BY <2>1, <2>2, <2>3, <2>4, <2>5
<1>. QED  BY <1>1, <1>3 DEF Ledger

LEMMA LedgerNext == ASSUME Inv, Ledger, [Next]_vars PROVE Ledger'
<1>1. ASSUME NEW r \in Requests, Clerk(r) PROVE Ledger'
  <2>. PICK old \in Desk : old = desk[r]
    BY DEF Inv, TypeOK
  <2>1. CASE Save(r)
    <3>. PICK n \in 0..MaxRecords : n = rows + 1
      BY <2>1, Numbers DEF Save, Inv, TypeOK
    <3>. DEFINE d == [old EXCEPT !.at = "submit", !.row = n]
    <3>1. d \in Desk /\ d.at # "audit" /\ old.at # "audit"
      BY <2>1 DEF Save, Desk
    <3>2. desk' = [desk EXCEPT ![r] = d]
      BY <2>1 DEF Save, Inv, TypeOK
    <3>. HIDE DEF d
    <3>. QED  BY <2>1, <3>1, <3>2, OtherDesk DEF Save
  <2>2. CASE Submit(r)
    <3>1. Idle \in Desk /\ Idle.at # "audit"
      BY IdleDesk
    <3>. QED  BY <2>2, <3>1, OtherDesk DEF Submit
  <2>. QED  BY <1>1, <2>1, <2>2, LedgerMoves, LedgerAudits DEF Clerk
<1>2. ASSUME NEW r \in Requests, NEW e \in Sellers, Create(r, e) PROVE Ledger'
  <2>. DEFINE d == [Idle EXCEPT !.at = "save", !.by = e]
  <2>1. d \in Desk /\ d.at # "audit"
    BY IdleDesk, FollowUpAssumption DEF Desk
  <2>2. desk' = [desk EXCEPT ![r] = d]
    BY <1>2 DEF Create, Inv, TypeOK
  <2>3. desk[r].at # "audit"
    BY <1>2, IdleDesk DEF Create
  <2>. HIDE DEF d
  <2>. QED  BY <1>2, <2>1, <2>2, <2>3, OtherDesk DEF Create
<1>3. ASSUME NEW r \in Requests, NEW e \in Employees, NEW to \in Employees, ReadOwner(r, e, to) PROVE Ledger'
  <2>. DEFINE d == [at |-> "update", row |-> 0, by |-> e, from |-> owner, to |-> to]
  <2>1. d \in Desk /\ d.at # "audit"
    BY <1>3, FollowUpAssumption DEF ReadOwner, Desk, Inv, TypeOK
  <2>2. desk' = [desk EXCEPT ![r] = d] /\ desk[r].at # "audit"
    BY <1>3, IdleDesk DEF ReadOwner
  <2>. HIDE DEF d
  <2>. QED  BY <1>3, <2>1, <2>2, OtherDesk DEF ReadOwner
<1>4. ASSUME NEW e \in Employees, SoftDelete(e) PROVE Ledger'
  BY <1>4, SameDesk DEF SoftDelete
<1>5. CASE Deliver \/ Drop \/ ShopRestarts
  BY <1>5, SameDesk, Faulty DEF Deliver, Begin, Drop, ShopRestarts
<1>6. ASSUME NEW n \in Asked, NEW e \in Sellers, AskFor(n, e) PROVE Ledger'
  BY <1>6, SameDesk DEF AskFor, Begin, shopVars
<1>7. ASSUME NEW n \in Threads, Refresh(n) PROVE Ledger'
  <2>1. UNCHANGED <<shopVars, faults>>
    BY <1>7 DEF Refresh, Gateway, Call, CallFor, Pop, Hit, Fetch, Store, ReadPurchases, ReadProfile, Read, Conclude
  <2>. QED  BY <2>1, SameDesk DEF shopVars
<1>8. ASSUME NEW n \in Threads, RefreshFails(n) PROVE Ledger'
  BY <1>8, Faulty DEF RefreshFails
<1>9. CASE AgentRestarts \/ Decide
  BY <1>9, SameDesk, Faulty DEF AgentRestarts, Decide, shopVars
<1>10. CASE UNCHANGED vars
  BY <1>10, SameDesk DEF vars, shopVars
<1>. QED  BY <1>1, <1>2, <1>3, <1>4, <1>5, <1>6, <1>7, <1>8, <1>9, <1>10 DEF Next

LEMMA LedgerInit == ASSUME Init PROVE Ledger
<1>1. ASSUME NEW m \in Move PROVE Count(audit, m) + Cardinality(Midway(m)) >= Count(moves, m)
  <2>1. Count(<<>>, m) = 0
    <3>1. {k \in DOMAIN <<>> : <<>>[k] = m} = {}
      OBVIOUS
    <3>. QED  BY <3>1, FS_EmptySet DEF Count
  <2>. QED  BY <2>1, MidwayFinite DEF Init
<1>. QED  BY <1>1 DEF Ledger

-----------------------------------------------------------------------------
(* Theorems                                                                *)

\* Every variable stays within its type: no thread of the agent and no list the gateway
\* keeps knows of more follow-ups than can be saved, and what is queued is an event of
\* some row (AiEventNotifier.java, tools.py).
THEOREM TypeCorrect == Spec => []TypeOK
<1>1. Inv => TypeOK
  BY DEF Inv
<1>. QED  BY <1>1, Invariance, PTL

\* A refresh knows the follow-up whose event started it, whatever refreshes, of events or
\* asked for, and calls whose refresh has given up share the cache with it: unless, when
\* it dropped the list that was kept, an older one had been fetched and was still to be
\* stored (tools.py, profile/subgraph.py).
THEOREM EventKnown == Spec => []EventIsKnown
<1>1. Inv => EventIsKnown
  BY DEF Inv
<1>. QED  BY <1>1, Invariance, PTL

\* As long as refreshes do not overlap and none reads a list that was kept, the pending
\* proposal rests on the newest records a refresh has proposed from (profile/subgraph.py,
\* router.py).
THEOREM NewestProposed == Spec => []NewestWhenApart
<1>1. Inv => NewestWhenApart
  BY DEF Inv, Latest
<1>. QED  BY <1>1, Invariance, PTL

\* No change of owner goes without its row in the audit as long as no process stops
\* between the two statements (CustomerService.java, transfer).
THEOREM MovesAudited == Spec => []MovesAreAudited
<1>1. Inv /\ Ledger => MovesAreAudited
  BY DEF Inv, TypeOK, Ledger, Midway, MovesAreAudited
<1>2. Init => Ledger
  BY LedgerInit
<1>3. Inv /\ Ledger /\ [Next]_vars => Ledger'
  BY LedgerNext
<1>. QED  BY <1>1, <1>2, <1>3, Invariance, PTL DEF Spec
=============================================================================
