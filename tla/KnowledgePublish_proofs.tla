------------------------ MODULE KnowledgePublish_proofs ------------------------
(***************************************************************************)
(* Theorems about KnowledgePublish: for any processes on one database what *)
(* a search returns and what a publish never revives; for the service      *)
(* alone that the index follows, that what was published is found, and     *)
(* that a publish is one switch of ActiveVersion.                          *)
(***************************************************************************)
EXTENDS KnowledgePublish, WellFoundedInduction, TLAPS

-----------------------------------------------------------------------------
(* Least and greatest numbers                                              *)

LEMMA Least ==
  ASSUME NEW S \in SUBSET Nat, S # {}
  PROVE  \E m \in S : \A k \in S : m <= k
<1>1. IsWellFoundedOn(OpToRel(<, Nat), Nat)
  BY NatLessThanWellFounded
<1>2. PICK m \in S : \A k \in S : ~(<<k, m>> \in OpToRel(<, Nat))
  BY <1>1, WFMin
<1>3. \A k \in S : ~(k < m)
  BY <1>2, Zenon DEF OpToRel
<1>4. m \in Nat /\ \A k \in S : k \in Nat
  OBVIOUS
<1>. QED  BY <1>3, <1>4

LEMMA Greatest ==
  ASSUME NEW n \in Nat, NEW S \in SUBSET (0..n), S # {}
  PROVE  \E m \in S : \A k \in S : k <= m
<1>. DEFINE Back == {n - k : k \in S}
<1>1. Back \in SUBSET Nat /\ Back # {}
  <2>1. \A k \in S : k \in Nat /\ k <= n
    OBVIOUS
  <2>2. \A k \in S : n - k \in Nat
    BY <2>1
  <2>. QED  BY <2>2
<1>2. PICK b \in Back : \A c \in Back : b <= c
  BY <1>1, Least
<1>3. PICK m \in S : b = n - m
  BY <1>2
<1>4. \A k \in S : n - m <= n - k
  BY <1>2, <1>3
<1>. QED  BY <1>4

LEMMA OldestIsIn ==
  ASSUME NEW S \in SUBSET DocIds, S # {}
  PROVE  Oldest(S) \in S
<1>1. S \in SUBSET Nat
  BY DEF DocIds
<1>2. \E i \in S : \A j \in S : i <= j
  BY <1>1, Least
<1>. QED  BY <1>2, Zenon DEF Oldest

-----------------------------------------------------------------------------
(* Types                                                                   *)

\* The versions given so far are bounded by the number of documents.
Versions ==
    /\ \A i \in DOMAIN docs : docs[i].version <= i
    /\ \A p \in Procs : At(p, "insert") => proc[p].version <= Len(docs) + 1

LEMMA DocsFacts ==
  ASSUME TypeOK
  PROVE  /\ DOMAIN docs = 1..Len(docs) /\ Len(docs) \in Nat /\ Len(docs) <= MaxDocs
         /\ MaxDocs \in Nat \ {0} /\ DOMAIN docs \subseteq DocIds
         /\ \A i \in DOMAIN docs : docs[i] \in Doc
         /\ Ready \in SUBSET DocIds /\ \A s, status : With(s, status) \in SUBSET DocIds
<1>1. docs \in Seq(Doc) /\ Len(docs) <= MaxDocs /\ MaxDocs \in Nat \ {0}
  BY KnowledgeAssumption DEF TypeOK
<1>2. DOMAIN docs = 1..Len(docs) /\ Len(docs) \in Nat /\ DOMAIN docs \subseteq DocIds
  BY <1>1 DEF DocIds
<1>3. \A i \in DOMAIN docs : docs[i] \in Doc
  BY <1>1
<1>4. Ready \in SUBSET DocIds /\ \A s, status : With(s, status) \in SUBSET DocIds
  BY <1>2 DEF Ready, With
<1>. QED  BY <1>1, <1>2, <1>3, <1>4

LEMMA IdleType == Idle \in Op
<1>1. (CHOOSE s \in Sources : TRUE) \in Sources
  <2>1. PICK d \in Domains, n \in Names : TRUE
    BY KnowledgeAssumption
  <2>2. <<d, n>> \in Sources
    BY DEF Sources
  <2>. QED  BY <2>2
<1>2. 1 \in DocIds
  BY KnowledgeAssumption DEF DocIds
<1>. QED  BY <1>1, <1>2 DEF Idle, Op, Steps

\* What a document becomes in a switch is a document again.
LEMMA SwitchedType ==
  ASSUME TypeOK, NEW s
  PROVE  Switched(s) \in Seq(Doc) /\ Len(Switched(s)) = Len(docs)
<1>1. \A i \in DOMAIN docs : Switched(s)[i] \in Doc
  BY DocsFacts DEF Switched, Doc
<1>2. Switched(s) \in [1..Len(docs) -> Doc]
  BY <1>1, DocsFacts DEF Switched
<1>3. Len(docs) \in Nat
  BY DocsFacts
<1>. QED  BY <1>2, <1>3

Begun(s, publish, v) ==
    [Idle EXCEPT !.pc = "insert", !.source = s, !.publish = publish, !.version = v]

\* The highest version of a source exists and is at most the number of documents.
LEMMA NextVersionType ==
  ASSUME TypeOK, Versions, NEW p \in Procs, NEW s \in Sources, NEW publish \in {"yes", "no"},
         NextVersion(p, s, publish)
  PROVE  \E v \in 1..(Len(docs) + 1) :
            proc' = [proc EXCEPT ![p] = Begun(s, publish, v)]
<1>. DEFINE versions == {0} \cup {docs[i].version : i \in {d \in DOMAIN docs : docs[d].source = s}}
            top == CHOOSE v \in versions : \A w \in versions : w <= v
<1>1. versions \in SUBSET (0..Len(docs)) /\ versions # {}
  BY DocsFacts DEF Versions, Doc
<1>2. \E v \in versions : \A w \in versions : w <= v
  BY <1>1, DocsFacts, Greatest
<1>3. top \in versions
  BY <1>2, Zenon
<1>4. 1 + top \in 1..(Len(docs) + 1)
  <2>1. top \in 0..Len(docs)
    BY <1>1, <1>3
  <2>2. Len(docs) \in Nat
    BY DocsFacts
  <2>. HIDE DEF top
  <2>. QED  BY <2>1, <2>2
<1>5. proc' = [proc EXCEPT ![p] = Begun(s, publish, 1 + top)]
  BY DEF NextVersion, Begun
<1>. HIDE DEF top
<1>. QED  BY <1>4, <1>5

LEMMA InitType == Init => TypeOK /\ Versions
<1>. SUFFICES ASSUME Init PROVE TypeOK /\ Versions
  OBVIOUS
<1>1. docs \in Seq(Doc) /\ Len(docs) = 0 /\ DOMAIN docs = {}
  BY DEF Init
<1>2. proc \in [Procs -> Op] /\ \A p \in Procs : proc[p].pc = "idle"
  BY IdleType DEF Init, Idle
<1>3. rows \in [DocIds -> Nat] /\ faults \in 0..MaxFaults
  BY KnowledgeAssumption DEF Init
<1>. QED  BY <1>1, <1>2, <1>3, KnowledgeAssumption DEF TypeOK, Versions, At

\* An operation stays one when some of its fields are set.
LEMMA OpTypes ==
  ASSUME NEW op \in Op, NEW S \in SUBSET DocIds, NEW step \in Steps
  PROVE  /\ [op EXCEPT !.pc = step, !.old = S] \in Op
         /\ [op EXCEPT !.pc = step, !.new = S] \in Op
         /\ [op EXCEPT !.pc = step, !.hits = S] \in Op
         /\ [op EXCEPT !.new = S] \in Op
         /\ [op EXCEPT !.old = S] \in Op
         /\ \A w \in DocIds : [op EXCEPT !.pc = step, !.want = w, !.seen = S] \in Op
         /\ \A s \in Sources, publish \in {"yes", "no"}, v \in Nat :
               [op EXCEPT !.pc = step, !.source = s, !.publish = publish, !.version = v] \in Op
BY DEF Op

LEMMA StepNames ==
  /\ "idle" \in Steps /\ "insert" \in Steps /\ "readReady" \in Steps /\ "readStaging" \in Steps
  /\ "switch" \in Steps /\ "probe" \in Steps /\ "sync" \in Steps /\ "dense" \in Steps /\ "answered" \in Steps
BY DEF Steps

LEMMA OpOf ==
  ASSUME TypeOK, NEW p \in Procs
  PROVE  /\ proc[p] \in Op /\ proc[p].source \in Sources /\ proc[p].version \in Nat /\ proc[p].pc \in Steps
         /\ proc[p].new \in SUBSET DocIds /\ proc[p].old \in SUBSET DocIds
         /\ proc[p].seen \in SUBSET DocIds /\ proc[p].hits \in SUBSET DocIds /\ proc[p].want \in DocIds
<1>1. proc[p] \in Op
  BY DEF TypeOK
<1>. QED  BY <1>1 DEF Op

\* A process that only moves on keeps the type of its operation.
LEMMA MoveType ==
  ASSUME TypeOK, NEW p \in Procs, NEW step \in Steps
  PROVE  /\ proc[p] \in Op
         /\ [proc[p] EXCEPT !.pc = step] \in Op
         /\ Goto(p, step) => proc' = [proc EXCEPT ![p] = [proc[p] EXCEPT !.pc = step]]
<1>1. proc \in [Procs -> Op] /\ proc[p] \in Op
  BY DEF TypeOK
<1>2. [proc[p] EXCEPT !.pc = step] \in Op
  BY <1>1 DEF Op
<1>. QED  BY <1>1, <1>2 DEF Goto

\* Every action changes the operation of one process, into an operation.
OneOp(p) == \E op \in Op : proc' = [proc EXCEPT ![p] = op]

LEMMA OneOpType ==
  ASSUME TypeOK, NEW p \in Procs, OneOp(p)
  PROVE  proc' \in [Procs -> Op]
BY DEF TypeOK, OneOp

LEMMA GotoOneOp ==
  ASSUME TypeOK, NEW p \in Procs, NEW step \in Steps, Goto(p, step)
  PROVE  OneOp(p)
BY MoveType DEF OneOp

LEMMA IdleOneOp ==
  ASSUME NEW p \in Procs, proc' = [proc EXCEPT ![p] = Idle]
  PROVE  OneOp(p)
BY IdleType DEF OneOp

LEMMA UploadOneOp ==
  ASSUME TypeOK, Versions, NEW p \in Procs, Upload(p)
  PROVE  OneOp(p)
<1>0. /\ proc[p] \in Op /\ proc[p].new \in SUBSET DocIds /\ proc[p].old \in SUBSET DocIds
      /\ \A s, status : With(s, status) \in SUBSET DocIds
  BY OpOf, DocsFacts
<1>1. CASE \E s \in Sources, publish \in {"yes", "no"} : NextVersion(p, s, publish)
  <2>1. PICK s \in Sources, publish \in {"yes", "no"} : NextVersion(p, s, publish)
    BY <1>1
  <2>2. PICK v \in 1..(Len(docs) + 1) :
            proc' = [proc EXCEPT ![p] = Begun(s, publish, v)]
    BY <2>1, NextVersionType
  <2>3. v \in Nat
    BY <2>2, DocsFacts
  <2>4. Begun(s, publish, v) \in Op
    BY <2>1, <2>3, IdleType, OpTypes, StepNames DEF Begun
  <2>. QED  BY <2>2, <2>4 DEF OneOp
<1>2. CASE Ingest(p)
  BY <1>2, GotoOneOp DEF Ingest, Steps
<1>3. CASE ReadReady(p)
  <2>1. [proc[p] EXCEPT !.pc = "readStaging", !.old = With(proc[p].source, "ready")] \in Op
    BY <1>0, OpTypes, StepNames
  <2>2. proc' = [proc EXCEPT ![p] = [proc[p] EXCEPT !.pc = "readStaging", !.old = With(proc[p].source, "ready")]]
    BY <1>3 DEF ReadReady, TypeOK
  <2>. QED  BY <2>1, <2>2 DEF OneOp
<1>4. CASE ReadStaging(p)
  <2>1. [proc[p] EXCEPT !.pc = "switch", !.new = With(proc[p].source, "staging")] \in Op
    BY <1>0, OpTypes, StepNames
  <2>2. proc' = [proc EXCEPT ![p] = [proc[p] EXCEPT !.pc = "switch", !.new = With(proc[p].source, "staging")]]
    BY <1>4 DEF ReadStaging, TypeOK
  <2>. QED  BY <2>1, <2>2 DEF OneOp
<1>5. CASE Switch(p)
  BY <1>5, GotoOneOp DEF Switch, Steps
<1>6. CASE Probe(p)
  BY <1>6, GotoOneOp DEF Probe, Steps
<1>7. CASE Upsert(p)
  <2>. DEFINE i == Oldest(proc[p].new)
  <2>1. [proc[p] EXCEPT !.new = @ \ {i}] \in Op
    BY <1>0, OpTypes, StepNames
  <2>2. proc' = [proc EXCEPT ![p] = [proc[p] EXCEPT !.new = @ \ {i}]]
    BY <1>7 DEF Upsert, TypeOK
  <2>. QED  BY <2>1, <2>2 DEF OneOp
<1>8. CASE DeleteDoc(p)
  <2>. DEFINE i == Oldest(proc[p].old)
  <2>1. [proc[p] EXCEPT !.old = @ \ {i}] \in Op
    BY <1>0, OpTypes, StepNames
  <2>2. proc' = [proc EXCEPT ![p] = [proc[p] EXCEPT !.old = @ \ {i}]]
    BY <1>8 DEF DeleteDoc, TypeOK
  <2>. QED  BY <2>1, <2>2 DEF OneOp
<1>9. CASE Synced(p) \/ SyncFails(p)
  BY <1>9, IdleOneOp DEF Synced, SyncFails
<1>. QED  BY <1>1, <1>2, <1>3, <1>4, <1>5, <1>6, <1>7, <1>8, <1>9 DEF Upload

LEMMA SearchOneOp ==
  ASSUME TypeOK, NEW p \in Procs, Search(p) \/ Stop(p)
  PROVE  OneOp(p)
<1>0. proc[p] \in Op /\ proc[p].seen \in SUBSET DocIds /\ Ready \in SUBSET DocIds
  BY OpOf, DocsFacts
<1>1. CASE \E want \in Ready, asked \in {{d} : d \in Domains} \cup {Domains} : Snapshot(p, want, asked)
  <2>1. PICK want \in Ready, asked \in {{d} : d \in Domains} \cup {Domains} : Snapshot(p, want, asked)
    BY <1>1
  <2>. DEFINE seen == {i \in Ready : DomainOf(i) \in asked}
  <2>2. seen \in SUBSET DocIds /\ want \in DocIds
    BY <1>0
  <2>3. proc' = [proc EXCEPT ![p] = [Idle EXCEPT !.pc = "dense", !.want = want, !.seen = seen]]
    BY <2>1 DEF Snapshot
  <2>. HIDE DEF seen
  <2>4. [Idle EXCEPT !.pc = "dense", !.want = want, !.seen = seen] \in Op
    BY <2>2, IdleType, OpTypes, StepNames
  <2>. QED  BY <2>3, <2>4 DEF OneOp
<1>2. ASSUME NEW H \in SUBSET DocIds, proc' = [proc EXCEPT ![p].pc = "answered", ![p].hits = H]
      PROVE  OneOp(p)
  <2>1. [proc[p] EXCEPT !.pc = "answered", !.hits = H] \in Op
    BY <1>0, <1>2, OpTypes, StepNames
  <2>2. proc' = [proc EXCEPT ![p] = [proc[p] EXCEPT !.pc = "answered", !.hits = H]]
    BY <1>2 DEF TypeOK
  <2>. QED  BY <2>1, <2>2 DEF OneOp
<1>4. CASE Dense(p)
  <2>1. \E H \in SUBSET DocIds : proc' = [proc EXCEPT ![p].pc = "answered", ![p].hits = H]
    BY <1>0, <1>4 DEF Dense, Lite
  <2>. QED  BY <1>2, <2>1
<1>5. CASE DenseFails(p)
  <2>1. \E H \in SUBSET DocIds : proc' = [proc EXCEPT ![p].pc = "answered", ![p].hits = H]
    BY <1>0, <1>5 DEF DenseFails, Lite
  <2>. QED  BY <1>2, <2>1
<1>6. CASE Return(p) \/ Stop(p)
  BY <1>6, IdleOneOp DEF Return, Stop
<1>. QED  BY <1>1, <1>4, <1>5, <1>6 DEF Search

LEMMA NextOneOp ==
  ASSUME TypeOK, Versions, Next
  PROVE  \E p \in Procs : OneOp(p) /\ (Upload(p) \/ Search(p) \/ Stop(p))
BY UploadOneOp, SearchOneOp DEF Next

\* What happens to the table, the index and the number of faults.
LEMMA TableStep ==
  ASSUME TypeOK, Versions, NEW p \in Procs, Upload(p) \/ Search(p) \/ Stop(p)
  PROVE  \/ docs' = docs
         \/ Ingest(p)
         \/ Switch(p)
BY DEF Upload, NextVersion, ReadReady, ReadStaging, Probe, Upsert, DeleteDoc, Synced, SyncFails,
       Search, Snapshot, Dense, DenseFails, Return, Stop

LEMMA DocsType ==
  ASSUME TypeOK, Versions, NEW p \in Procs, Upload(p) \/ Search(p) \/ Stop(p)
  PROVE  docs' \in Seq(Doc) /\ Len(docs') <= MaxDocs
<1>. USE DocsFacts
<1>1. CASE docs' = docs
  BY <1>1 DEF TypeOK
<1>2. CASE Ingest(p)
  <2>. DEFINE d == [source |-> proc[p].source, version |-> proc[p].version, status |-> "staging"]
  <2>1. d \in Doc
    BY OpOf DEF Doc
  <2>2. docs' = Append(docs, d) /\ Len(docs) < MaxDocs
    BY <1>2 DEF Ingest
  <2>3. docs \in Seq(Doc)
    BY DEF TypeOK
  <2>4. docs' \in Seq(Doc) /\ Len(docs') = Len(docs) + 1
    <3>. HIDE DEF d
    <3>. QED  BY <2>1, <2>2, <2>3
  <2>. QED  BY <2>2, <2>4
<1>3. CASE Switch(p)
  BY <1>3, SwitchedType DEF Switch
<1>. QED  BY <1>1, <1>2, <1>3, TableStep

LEMMA RowsType ==
  ASSUME TypeOK, NEW p \in Procs, Upload(p) \/ Search(p) \/ Stop(p)
  PROVE  rows' \in [DocIds -> Nat]
<1>1. CASE rows' = rows
  BY <1>1 DEF TypeOK
<1>2. CASE Upsert(p)
  <2>. DEFINE i == Oldest(proc[p].new)
  <2>1. rows' = [rows EXCEPT ![i] = @ + 1] /\ i \in DocIds
    BY <1>2, OpOf, OldestIsIn DEF Upsert
  <2>. HIDE DEF i
  <2>. QED  BY <2>1 DEF TypeOK
<1>3. CASE DeleteDoc(p)
  BY <1>3 DEF DeleteDoc, TypeOK
<1>. QED  BY <1>1, <1>2, <1>3 DEF Upload, NextVersion, Ingest, Switch, ReadReady, ReadStaging, Probe, Synced,
       SyncFails, Search, Snapshot, Dense, DenseFails, Return, Stop

LEMMA FaultsType ==
  ASSUME TypeOK, NEW p \in Procs, Upload(p) \/ Search(p) \/ Stop(p)
  PROVE  faults' \in 0..MaxFaults /\ (faults' = 0 => faults = 0)
<1>1. faults \in 0..MaxFaults /\ MaxFaults \in Nat
  BY KnowledgeAssumption DEF TypeOK
<1>2. faults' = faults \/ (faults < MaxFaults /\ faults' = faults + 1)
  BY DEF Upload, NextVersion, Ingest, Switch, ReadReady, ReadStaging, Probe, Upsert, DeleteDoc, Synced,
       SyncFails, Search, Snapshot, Dense, DenseFails, Return, Stop
<1>. QED  BY <1>1, <1>2

\* What a step makes of each document.
LEMMA DocStep ==
  ASSUME TypeOK, Versions, NEW p \in Procs, Upload(p) \/ Search(p) \/ Stop(p)
  PROVE  /\ Len(docs') \in Nat /\ Len(docs) <= Len(docs') /\ DOMAIN docs' = 1..Len(docs')
         /\ \A i \in DOMAIN docs :
              /\ i \in DOMAIN docs'
              /\ docs'[i].version = docs[i].version
              /\ docs'[i].source = docs[i].source
              /\ docs[i].status = "archived" => docs'[i].status = "archived"
         /\ \A i \in DOMAIN docs' : i \notin DOMAIN docs =>
              /\ Ingest(p) /\ i = Len(docs) + 1
              /\ docs'[i] = [source |-> proc[p].source, version |-> proc[p].version, status |-> "staging"]
<1>. USE DocsFacts
<1>1. docs \in Seq(Doc) /\ docs' \in Seq(Doc)
  BY DocsType DEF TypeOK
<1>2. CASE docs' = docs
  BY <1>2
<1>3. CASE Ingest(p)
  <2>. DEFINE d == [source |-> proc[p].source, version |-> proc[p].version, status |-> "staging"]
  <2>1. docs' = Append(docs, d)
    BY <1>3 DEF Ingest
  <2>. HIDE DEF d
  <2>2. /\ Len(docs') = Len(docs) + 1 /\ DOMAIN docs' = 1..(Len(docs) + 1)
        /\ docs'[Len(docs) + 1] = d
        /\ \A i \in 1..Len(docs) : docs'[i] = docs[i]
    BY <1>1, <2>1
  <2>3. \A i \in DOMAIN docs' : i \notin DOMAIN docs => i = Len(docs) + 1
    BY <2>2
  <2>. QED  BY <1>3, <2>2, <2>3 DEF d
<1>4. CASE Switch(p)
  <2>1. docs' = Switched(proc[p].source) /\ DOMAIN docs' = DOMAIN docs /\ Len(docs') = Len(docs)
    BY <1>4, SwitchedType DEF Switch, Switched
  <2>2. \A i \in DOMAIN docs : /\ docs'[i].version = docs[i].version
                               /\ docs'[i].source = docs[i].source
                               /\ docs[i].status = "archived" => docs'[i].status = "archived"
    BY <2>1 DEF Switched, Doc
  <2>. QED  BY <2>1, <2>2
<1>. QED  BY <1>2, <1>3, <1>4, TableStep

\* Who is at a step at which documents are inserted, and where it came from.
LEMMA InsertStep ==
  ASSUME TypeOK, Versions, NEW p \in Procs, Upload(p) \/ Search(p) \/ Stop(p),
         proc'[p].pc = "insert"
  PROVE  proc'[p].version <= Len(docs) + 1
<1>1. CASE \E s \in Sources, publish \in {"yes", "no"} : NextVersion(p, s, publish)
  <2>1. PICK s \in Sources, publish \in {"yes", "no"} : NextVersion(p, s, publish)
    BY <1>1
  <2>2. PICK v \in 1..(Len(docs) + 1) : proc' = [proc EXCEPT ![p] = Begun(s, publish, v)]
    BY <2>1, NextVersionType
  <2>3. proc'[p] = Begun(s, publish, v)
    BY <2>2 DEF TypeOK
  <2>4. Begun(s, publish, v).version = v
    BY IdleType DEF Begun, Op
  <2>5. v <= Len(docs) + 1
    BY <2>2, DocsFacts
  <2>. QED  BY <2>3, <2>4, <2>5
<1>2. CASE ~\E s \in Sources, publish \in {"yes", "no"} : NextVersion(p, s, publish)
  <2>1. proc \in [Procs -> Op] /\ Idle.pc = "idle"
    BY DEF TypeOK, Idle
  <2>2. CASE Ingest(p) \/ ReadReady(p) \/ ReadStaging(p) \/ Switch(p)
    BY <2>1, <2>2 DEF Ingest, ReadReady, ReadStaging, Switch, Goto, Op
  <2>3. CASE Probe(p) \/ Upsert(p) \/ DeleteDoc(p) \/ Synced(p) \/ SyncFails(p)
    BY <2>1, <2>3 DEF Probe, Upsert, DeleteDoc, Synced, SyncFails, Goto, At, Op
  <2>4. CASE Search(p) \/ Stop(p)
    <3>1. CASE \E want \in Ready, asked \in {{d} : d \in Domains} \cup {Domains} : Snapshot(p, want, asked)
      <4>1. \E w, S : proc' = [proc EXCEPT ![p] = [Idle EXCEPT !.pc = "dense", !.want = w, !.seen = S]]
        BY <3>1 DEF Snapshot
      <4>. QED  BY <2>1, <4>1, IdleType DEF Op
    <3>2. CASE Dense(p) \/ DenseFails(p)
      <4>1. \E H : proc' = [proc EXCEPT ![p].pc = "answered", ![p].hits = H]
        BY <3>2 DEF Dense, DenseFails
      <4>. QED  BY <2>1, <4>1 DEF Op
    <3>3. CASE Return(p) \/ Stop(p)
      BY <2>1, <3>3, IdleType DEF Return, Stop, Op
    <3>. QED  BY <2>4, <3>1, <3>2, <3>3 DEF Search
  <2>. QED  BY <1>2, <2>2, <2>3, <2>4 DEF Upload
<1>. QED  BY <1>1, <1>2

LEMMA TypeStep ==
  ASSUME TypeOK, Versions, [Next]_vars
  PROVE  TypeOK' /\ Versions'
<1>1. CASE UNCHANGED vars
  BY <1>1 DEF vars, TypeOK, Versions, At
<1>2. CASE Next
  <2>1. PICK p \in Procs : OneOp(p) /\ (Upload(p) \/ Search(p) \/ Stop(p))
    BY <1>2, NextOneOp
  <2>2. TypeOK'
    BY <2>1, OneOpType, DocsType, RowsType, FaultsType DEF TypeOK
  <2>3. ASSUME NEW i \in DOMAIN docs' PROVE docs'[i].version <= i
    <3>1. CASE i \in DOMAIN docs
      BY <2>1, <3>1, DocStep DEF Versions
    <3>2. CASE i \notin DOMAIN docs
      <4>1. /\ Ingest(p) /\ i = Len(docs) + 1
            /\ docs'[i] = [source |-> proc[p].source, version |-> proc[p].version, status |-> "staging"]
        BY <2>1, <3>2, <2>3, DocStep
      <4>. QED  BY <4>1 DEF Ingest, Versions, At
    <3>. QED  BY <3>1, <3>2
  <2>4. ASSUME NEW q \in Procs, At(q, "insert")' PROVE proc'[q].version <= Len(docs') + 1
    <3>0. Len(docs) \in Nat /\ Len(docs') \in Nat /\ Len(docs) <= Len(docs') /\ proc'[q].version \in Nat
      BY <2>1, <2>2, DocStep, DocsFacts DEF TypeOK, Op
    <3>1. proc'[q].version <= Len(docs) + 1
      <4>1. CASE q = p
        BY <2>1, <2>4, <4>1, InsertStep DEF At
      <4>2. CASE q # p
        BY <2>1, <2>4, <4>2 DEF OneOp, TypeOK, At, Versions
      <4>. QED  BY <4>1, <4>2
    <3>. QED  BY <3>0, <3>1
  <2>. QED  BY <2>2, <2>3, <2>4 DEF Versions
<1>. QED  BY <1>1, <1>2

\* Every variable has its type, with any number of processes, documents and faults.
THEOREM TypeCorrect == Spec => []TypeOK
<1>1. Spec => [](TypeOK /\ Versions)
  BY InitType, TypeStep, PTL DEF Spec
<1>. QED  BY <1>1, PTL

LEMMA TypesAndVersions == Spec => [](TypeOK /\ Versions)
BY InitType, TypeStep, PTL DEF Spec

\* However many processes publish the same source, no publish brings an archived
\* document back (kb/store.py publish).
THEOREM NothingIsRevived == Spec => NothingRevived
<1>. DEFINE Kept == \A i \in DOMAIN docs : docs[i].status = "archived" => docs'[i].status = "archived"
<1>1. TypeOK /\ Versions /\ [Next]_vars => [Kept]_vars
  <2>1. ASSUME TypeOK, Versions, Next PROVE Kept
    BY <2>1, NextOneOp, DocStep
  <2>. HIDE DEF Kept
  <2>. QED  BY <2>1
<1>. QED  BY <1>1, TypesAndVersions, PTL DEF NothingRevived, Spec

\* Whatever the index keeps of archived documents, and whatever fails, a search
\* returns only documents that were ready at one moment of it (rag/pipeline.py _dense).
LEMMA AnsweredStep ==
  ASSUME TypeOK, NEW p \in Procs, Upload(p) \/ Search(p) \/ Stop(p), proc'[p].pc = "answered"
  PROVE  /\ Dense(p) \/ DenseFails(p)
         /\ proc'[p].seen = proc[p].seen /\ proc'[p].want = proc[p].want
         /\ proc'[p].hits \subseteq proc[p].seen
<1>1. proc \in [Procs -> Op] /\ Idle.pc = "idle"
  BY DEF TypeOK, Idle
<1>2. Dense(p) \/ DenseFails(p)
  <2>1. CASE Upload(p)
    <3>1. CASE \E s \in Sources, publish \in {"yes", "no"} : NextVersion(p, s, publish)
      BY <1>1, <3>1, IdleType DEF NextVersion, Op
    <3>2. CASE Ingest(p) \/ ReadReady(p) \/ ReadStaging(p) \/ Switch(p)
      BY <1>1, <3>2 DEF Ingest, ReadReady, ReadStaging, Switch, Goto, Op
    <3>3. CASE Probe(p) \/ Upsert(p) \/ DeleteDoc(p) \/ Synced(p) \/ SyncFails(p)
      BY <1>1, <3>3 DEF Probe, Upsert, DeleteDoc, Synced, SyncFails, Goto, At, Op
    <3>. QED  BY <2>1, <3>1, <3>2, <3>3 DEF Upload
  <2>2. CASE Search(p) \/ Stop(p)
    <3>1. CASE \E want \in Ready, asked \in {{d} : d \in Domains} \cup {Domains} : Snapshot(p, want, asked)
      <4>1. \E w, S : proc' = [proc EXCEPT ![p] = [Idle EXCEPT !.pc = "dense", !.want = w, !.seen = S]]
        BY <3>1 DEF Snapshot
      <4>. QED  BY <1>1, <4>1, IdleType DEF Op
    <3>2. CASE Return(p) \/ Stop(p)
      BY <1>1, <3>2, IdleType DEF Return, Stop, Op
    <3>. QED  BY <2>2, <3>1, <3>2 DEF Search
  <2>. QED  BY <2>1, <2>2
<1>3. \E H \in SUBSET proc[p].seen : proc' = [proc EXCEPT ![p].pc = "answered", ![p].hits = H]
  BY <1>2 DEF Dense, DenseFails, Lite
<1>4. PICK H \in SUBSET proc[p].seen : proc' = [proc EXCEPT ![p].pc = "answered", ![p].hits = H]
  BY <1>3
<1>5. proc'[p] = [proc[p] EXCEPT !.pc = "answered", !.hits = H] /\ proc[p] \in Op
  BY <1>1, <1>4
<1>. QED  BY <1>2, <1>5 DEF Op

\* A search returns documents that were ready at some moment of it, whatever the index
\* still holds and whoever publishes meanwhile (the valid_ids filter of _dense).
THEOREM FindsOnlyReady == Spec => []OnlyReadyIsFound
<1>1. Init => OnlyReadyIsFound
  BY DEF Init, OnlyReadyIsFound, At, Idle
<1>2. TypeOK /\ Versions /\ OnlyReadyIsFound /\ [Next]_vars => OnlyReadyIsFound'
  <2>1. ASSUME TypeOK, Versions, OnlyReadyIsFound, Next, NEW q \in Procs, At(q, "answered")'
        PROVE  proc'[q].hits \subseteq proc'[q].seen
    <3>1. PICK p \in Procs : OneOp(p) /\ (Upload(p) \/ Search(p) \/ Stop(p))
      BY <2>1, NextOneOp
    <3>2. CASE q = p
      BY <2>1, <3>1, <3>2, AnsweredStep DEF At
    <3>3. CASE q # p
      BY <2>1, <3>1, <3>3 DEF OneOp, TypeOK, OnlyReadyIsFound, At
    <3>. QED  BY <3>2, <3>3
  <2>2. CASE UNCHANGED vars
    BY <2>2 DEF vars, OnlyReadyIsFound, At
  <2>. QED  BY <2>1, <2>2 DEF OnlyReadyIsFound
<1>. QED  BY <1>1, <1>2, TypesAndVersions, PTL DEF Spec

-----------------------------------------------------------------------------
(* The service alone                                                       *)

\* What becomes ready in a switch is younger than what it replaces.
Order ==
    \A i, j \in DOMAIN docs :
        (docs[i].source = docs[j].source /\ docs[i].status = "ready" /\ docs[j].status = "staging") => i < j

\* What a publish read is what its switch will find.
Reads ==
    LET op == proc[Service]
    IN  /\ op.pc \in {"readReady", "readStaging", "switch"} => With(op.source, "staging") # {}
        /\ op.pc \in {"readStaging", "switch"} => op.old = With(op.source, "ready")
        /\ op.pc = "switch" => op.new = With(op.source, "staging")

\* How far the index is behind the table while it is brought after.
Behind ==
    LET op == proc[Service]
    IN  IF op.pc \in {"probe", "sync"}
        THEN /\ op.new \subseteq Ready /\ op.old \cap Ready = {}
             /\ \A i \in DocIds : rows[i] = IF i \in op.new THEN 0 ELSE IF i \in op.old \cup Ready THEN 1 ELSE 0
        ELSE \A i \in DocIds : rows[i] = IF i \in Ready THEN 1 ELSE 0

\* A search looks for a document that is ready, and has it once it is answered.
Finds ==
    LET op == proc[Service]
    IN  /\ op.pc = "dense" => op.seen \subseteq Ready /\ op.want \in op.seen
        /\ op.pc = "answered" /\ DomainOf(op.want) = Searched(op.seen) => op.want \in op.hits

AloneInv == Order /\ Reads /\ (faults = 0 => Behind /\ Finds)

\* The rows of the table after a step that leaves it, adds a document or switches.
LEMMA SameWith ==
  ASSUME docs' = docs
  PROVE  Ready' = Ready /\ \A s, status : With(s, status)' = With(s, status)
BY DEF Ready, With

LEMMA IngestWith ==
  ASSUME TypeOK, Versions, NEW p \in Procs, Ingest(p)
  PROVE  /\ Ready' = Ready
         /\ \A s : With(s, "ready")' = With(s, "ready")
         /\ \A s : With(s, "staging")' =
                     With(s, "staging") \cup (IF s = proc[p].source THEN {Len(docs) + 1} ELSE {})
<1>. DEFINE d == [source |-> proc[p].source, version |-> proc[p].version, status |-> "staging"]
<1>1. docs \in Seq(Doc) /\ docs' = Append(docs, d)
  BY DEF Ingest, TypeOK
<1>2. d.source = proc[p].source /\ d.status = "staging"
  OBVIOUS
<1>. HIDE DEF d
<1>3. /\ DOMAIN docs = 1..Len(docs) /\ DOMAIN docs' = 1..(Len(docs) + 1) /\ Len(docs) \in Nat
      /\ docs'[Len(docs) + 1] = d
      /\ \A i \in DOMAIN docs : docs'[i] = docs[i]
  BY <1>1
<1>4. \A i : i \in DOMAIN docs' <=> i \in DOMAIN docs \/ i = Len(docs) + 1
  BY <1>3
<1>5. Ready' = Ready
  BY <1>2, <1>3, <1>4 DEF Ready
<1>6. ASSUME NEW s PROVE With(s, "ready")' = With(s, "ready")
  BY <1>2, <1>3, <1>4 DEF With
<1>7. ASSUME NEW s
      PROVE  With(s, "staging")' = With(s, "staging") \cup (IF s = proc[p].source THEN {Len(docs) + 1} ELSE {})
  BY <1>2, <1>3, <1>4 DEF With
<1>. QED  BY <1>5, <1>6, <1>7

LEMMA SwitchWith ==
  ASSUME TypeOK, NEW p \in Procs, Switch(p), NEW s, s = proc[p].source
  PROVE  /\ DOMAIN docs' = DOMAIN docs
         /\ Ready' = (Ready \ With(s, "ready")) \cup With(s, "staging")
         /\ With(s, "staging")' = {}
         /\ With(s, "ready")' = With(s, "staging")
         /\ \A r, status : r # s => With(r, status)' = With(r, status)
<1>1. docs' = Switched(s) /\ DOMAIN docs' = DOMAIN docs
  BY DEF Switch, Switched
<1>2. \A i \in DOMAIN docs :
         /\ docs'[i].source = docs[i].source
         /\ docs[i].source # s => docs'[i] = docs[i]
         /\ docs[i].source = s /\ docs[i].status = "ready" => docs'[i].status = "archived"
         /\ docs[i].source = s /\ docs[i].status = "staging" => docs'[i].status = "ready"
         /\ docs[i].source = s /\ docs[i].status = "archived" => docs'[i].status = "archived"
         /\ docs[i].status \in {"staging", "ready", "archived"}
  BY <1>1, DocsFacts DEF Switched, Doc
<1>3. Ready' = (Ready \ With(s, "ready")) \cup With(s, "staging")
  BY <1>1, <1>2 DEF Ready, With
<1>4. With(s, "staging")' = {} /\ With(s, "ready")' = With(s, "staging")
  BY <1>1, <1>2 DEF With
<1>5. ASSUME NEW r, NEW status, r # s PROVE With(r, status)' = With(r, status)
  BY <1>1, <1>2, <1>5 DEF With
<1>. QED  BY <1>1, <1>3, <1>4, <1>5

LEMMA AloneInit == Init /\ Procs = {Service} => AloneInv
<1>. SUFFICES ASSUME Init, Procs = {Service} PROVE AloneInv
  OBVIOUS
<1>1. DOMAIN docs = {} /\ Ready = {} /\ proc[Service] = Idle /\ Idle.pc = "idle"
  BY DEF Init, Ready, Idle
<1>2. \A i \in DocIds : rows[i] = 0
  BY DEF Init
<1>. QED  BY <1>1, <1>2 DEF AloneInv, Order, Reads, Behind, Finds

LEMMA OrderStep ==
  ASSUME Procs = {Service}, TypeOK, Versions, AloneInv, NEW p \in Procs, Upload(p) \/ Search(p) \/ Stop(p)
  PROVE  Order'
<1>1. CASE docs' = docs
  BY <1>1 DEF AloneInv, Order
<1>2. CASE Ingest(p)
  <2>. SUFFICES ASSUME NEW r, NEW i \in DOMAIN docs', NEW j \in DOMAIN docs',
                       docs'[i].source = r, docs'[j].source = r,
                       docs'[i].status = "ready", docs'[j].status = "staging"
                PROVE  i < j
    BY DEF Order
  <2>1. i \in Ready' /\ Ready' = Ready
    BY <1>2, IngestWith DEF Ready
  <2>2. i \in DOMAIN docs /\ docs[i].source = docs'[i].source /\ docs[i].status = "ready"
    BY <1>2, <2>1, DocStep DEF Ready
  <2>3. CASE j \in DOMAIN docs
    <3>1. j \in With(r, "staging")'
      BY DEF With
    <3>2. j \in With(r, "staging")
      BY <1>2, <2>3, <3>1, IngestWith, DocsFacts
    <3>. QED  BY <2>2, <3>2, <2>3 DEF AloneInv, Order, With
  <2>4. CASE j \notin DOMAIN docs
    <3>1. j = Len(docs) + 1
      BY <1>2, <2>4, DocStep
    <3>. QED  BY <2>2, <3>1, DocsFacts
  <2>. QED  BY <2>3, <2>4
<1>3. CASE Switch(p)
  <2>0. PICK s : s = proc[p].source
    OBVIOUS
  <2>. SUFFICES ASSUME NEW r, NEW i \in DOMAIN docs', NEW j \in DOMAIN docs',
                       docs'[i].source = r, docs'[j].source = r,
                       docs'[i].status = "ready", docs'[j].status = "staging"
                PROVE  i < j
    BY DEF Order
  <2>1. i \in With(r, "ready")' /\ j \in With(r, "staging")'
    BY DEF With
  <2>2. r # s
    BY <1>3, <2>0, <2>1, SwitchWith
  <2>3. i \in With(r, "ready") /\ j \in With(r, "staging")
    BY <1>3, <2>0, <2>1, <2>2, SwitchWith
  <2>. QED  BY <2>3 DEF AloneInv, Order, With
<1>. QED  BY <1>1, <1>2, <1>3, TableStep

\* How the invariant survives the steps that leave the table alone.
LEMMA AloneQuietStep ==
  ASSUME Procs = {Service}, TypeOK, Versions, AloneInv, docs' = docs, rows' = rows,
         NEW from \in Op, from = proc[Service], NEW to \in Op, to = proc'[Service],
         to.pc \in {"idle", "insert", "answered", "dense"},
         faults' = 0 => /\ faults = 0
                        /\ from.pc \in {"probe", "sync"} => from.new = {} /\ from.old = {}
                        /\ to.pc = "dense" => to.seen \subseteq Ready /\ to.want \in to.seen
                        /\ to.pc = "answered" /\ DomainOf(to.want) = Searched(to.seen) => to.want \in to.hits
  PROVE  Reads' /\ (faults' = 0 => Behind' /\ Finds')
<1>1. Ready' = Ready
  BY SameWith
<1>2. Reads'
  BY DEF Reads
<1>3. ASSUME faults' = 0 PROVE Behind' /\ Finds'
  <2>1. \A i \in DocIds : rows[i] = IF i \in Ready THEN 1 ELSE 0
    BY <1>3 DEF AloneInv, Behind
  <2>2. Behind'
    BY <1>1, <2>1 DEF Behind
  <2>3. Finds'
    BY <1>1, <1>3 DEF Finds, Searched, DomainOf
  <2>. QED  BY <2>2, <2>3
<1>. QED  BY <1>2, <1>3

LEMMA AloneUpload ==
  ASSUME Procs = {Service}, TypeOK, Versions, AloneInv, Upload(Service)
  PROVE  Reads' /\ (faults' = 0 => Behind' /\ Finds')
<1>0. Service \in Procs /\ proc \in [Procs -> Op] /\ proc[Service] \in Op
  BY KnowledgeAssumption DEF TypeOK
<1>. PICK from \in Op : from = proc[Service]
  BY <1>0
<1>1. Upload(Service) => OneOp(Service)
  BY <1>0, UploadOneOp
<1>. PICK to \in Op : to = proc'[Service]
  BY <1>0, <1>1 DEF OneOp
<1>f. faults' = 0 => faults = 0
  BY <1>0, FaultsType
<1>q. \A i \in DocIds : i \in Ready => i \in DOMAIN docs
  BY DEF Ready
<1>2. CASE \E s \in Sources, publish \in {"yes", "no"} : NextVersion(Service, s, publish)
  <2>1. docs' = docs /\ rows' = rows /\ from.pc = "idle"
    BY <1>2 DEF NextVersion, At
  <2>2. to.pc = "insert"
    <3>1. PICK s \in Sources, publish \in {"yes", "no"} : NextVersion(Service, s, publish)
      BY <1>2
    <3>2. PICK v \in 1..(Len(docs) + 1) : proc' = [proc EXCEPT ![Service] = Begun(s, publish, v)]
      BY <1>0, <3>1, NextVersionType
    <3>. QED  BY <1>0, <3>2, IdleType DEF Begun, Op
  <2>. QED  BY <2>1, <2>2, <1>f, AloneQuietStep
<1>3. CASE Ingest(Service)
  <2>1. /\ from.pc = "insert" /\ rows' = rows /\ to = [from EXCEPT !.pc = to.pc]
        /\ to.pc \in {"readReady", "idle"}
    BY <1>0, <1>3 DEF Ingest, Goto, At, Op
  <2>2. to.source = from.source
    BY <2>1 DEF Op
  <2>3. With(from.source, "staging")' # {}
    BY <1>0, <1>3, IngestWith
  <2>4. Reads'
    BY <2>1, <2>2, <2>3 DEF Reads, With
  <2>5. ASSUME faults' = 0 PROVE Behind' /\ Finds'
    <3>1. Ready' = Ready
      BY <1>0, <1>3, IngestWith
    <3>2. \A i \in DocIds : rows[i] = IF i \in Ready THEN 1 ELSE 0
      BY <2>1, <2>5, <1>f DEF AloneInv, Behind
    <3>. QED  BY <2>1, <3>1, <3>2 DEF Behind, Finds
  <2>. QED  BY <2>4, <2>5
<1>4. CASE ReadReady(Service)
  <2>1. /\ from.pc = "readReady" /\ rows' = rows /\ docs' = docs
        /\ to = [from EXCEPT !.pc = "readStaging", !.old = With(from.source, "ready")]
    BY <1>0, <1>4 DEF ReadReady, At, Op
  <2>2. to.pc = "readStaging" /\ to.source = from.source /\ to.old = With(from.source, "ready")
    BY <2>1 DEF Op
  <2>3. Reads'
    BY <2>1, <2>2 DEF AloneInv, Reads, With
  <2>4. ASSUME faults' = 0 PROVE Behind' /\ Finds'
    BY <2>1, <2>2, <2>4, <1>f, SameWith DEF AloneInv, Behind, Finds
  <2>. QED  BY <2>3, <2>4
<1>5. CASE ReadStaging(Service)
  <2>1. /\ from.pc = "readStaging" /\ rows' = rows /\ docs' = docs
        /\ to = [from EXCEPT !.pc = "switch", !.new = With(from.source, "staging")]
    BY <1>0, <1>5 DEF ReadStaging, At, Op
  <2>2. /\ to.pc = "switch" /\ to.source = from.source /\ to.old = from.old
        /\ to.new = With(from.source, "staging")
    BY <2>1 DEF Op
  <2>3. Reads'
    BY <2>1, <2>2 DEF AloneInv, Reads, With
  <2>4. ASSUME faults' = 0 PROVE Behind' /\ Finds'
    BY <2>1, <2>2, <2>4, <1>f, SameWith DEF AloneInv, Behind, Finds
  <2>. QED  BY <2>3, <2>4
<1>6. CASE Switch(Service)
  <2>0. PICK s : s = from.source
    OBVIOUS
  <2>1. /\ from.pc = "switch" /\ rows' = rows
        /\ from.new = With(s, "staging") /\ from.old = With(s, "ready") /\ from.new # {}
    BY <1>6, <2>0 DEF Switch, At, AloneInv, Reads
  <2>2. to = [from EXCEPT !.pc = "probe"]
    BY <1>0, <1>6, <2>0, <2>1 DEF Switch, Goto
  <2>3. to.pc = "probe" /\ to.new = from.new /\ to.old = from.old
    BY <2>2 DEF Op
  <2>4. Reads'
    BY <2>3 DEF Reads
  <2>5. Ready' = (Ready \ from.old) \cup from.new /\ from.new \cap Ready = {} /\ from.old \subseteq Ready
    <3>1. Ready' = (Ready \ With(s, "ready")) \cup With(s, "staging")
      BY <1>0, <1>6, <2>0, SwitchWith
    <3>2. With(s, "staging") \cap Ready = {} /\ With(s, "ready") \subseteq Ready
      BY DEF With, Ready
    <3>. QED  BY <2>1, <3>1, <3>2
  <2>6. ASSUME faults' = 0 PROVE Behind' /\ Finds'
    <3>1. \A i \in DocIds : rows[i] = IF i \in Ready THEN 1 ELSE 0
      BY <2>1, <2>6, <1>f DEF AloneInv, Behind
    <3>2. to.old \cap Ready' = {} /\ to.new \subseteq Ready'
      BY <2>3, <2>5
    <3>3. \A i \in DocIds : rows'[i] = IF i \in to.new THEN 0 ELSE IF i \in to.old \cup Ready' THEN 1 ELSE 0
      BY <2>1, <2>3, <2>5, <3>1
    <3>. QED  BY <2>3, <3>2, <3>3 DEF Behind, Finds
  <2>. QED  BY <2>4, <2>6
<1>7. CASE Probe(Service)
  <2>1. from.pc = "probe" /\ rows' = rows /\ docs' = docs /\ to = [from EXCEPT !.pc = "sync"]
    BY <1>0, <1>7 DEF Probe, Goto, At
  <2>2. to.pc = "sync" /\ to.new = from.new /\ to.old = from.old
    BY <2>1 DEF Op
  <2>3. Reads'
    BY <2>2 DEF Reads
  <2>4. ASSUME faults' = 0 PROVE Behind' /\ Finds'
    BY <2>1, <2>2, <2>4, <1>f, SameWith DEF AloneInv, Behind, Finds
  <2>. QED  BY <2>3, <2>4
<1>8. CASE Upsert(Service)
  <2>0. PICK i : i = Oldest(from.new)
    OBVIOUS
  <2>1. /\ from.pc = "sync" /\ docs' = docs /\ i \in from.new /\ i \in DocIds
        /\ rows' = [rows EXCEPT ![i] = @ + 1] /\ to = [from EXCEPT !.new = @ \ {i}]
    BY <1>0, <1>8, <2>0, OldestIsIn DEF Upsert, At, Op
  <2>2. to.pc = "sync" /\ to.new = from.new \ {i} /\ to.old = from.old
    BY <2>1 DEF Op
  <2>3. Reads'
    BY <2>2 DEF Reads
  <2>4. ASSUME faults' = 0 PROVE Behind' /\ Finds'
    <3>1. Ready' = Ready
      BY <2>1, SameWith
    <3>2. /\ from.new \subseteq Ready /\ from.old \cap Ready = {}
          /\ \A k \in DocIds : rows[k] = IF k \in from.new THEN 0 ELSE IF k \in from.old \cup Ready THEN 1 ELSE 0
      BY <2>1, <2>4, <1>f DEF AloneInv, Behind
    <3>3. \A k \in DocIds : rows'[k] = IF k \in to.new THEN 0 ELSE IF k \in to.old \cup Ready THEN 1 ELSE 0
      BY <2>1, <2>2, <3>2 DEF TypeOK
    <3>. QED  BY <2>2, <3>1, <3>2, <3>3 DEF Behind, Finds
  <2>. QED  BY <2>3, <2>4
<1>9. CASE DeleteDoc(Service)
  <2>0. PICK i : i = Oldest(from.old)
    OBVIOUS
  <2>1. /\ from.pc = "sync" /\ docs' = docs /\ i \in from.old /\ i \in DocIds /\ from.new = {}
        /\ rows' = [rows EXCEPT ![i] = 0] /\ to = [from EXCEPT !.old = @ \ {i}]
    BY <1>0, <1>9, <2>0, OldestIsIn DEF DeleteDoc, At, Op
  <2>2. to.pc = "sync" /\ to.new = from.new /\ to.old = from.old \ {i}
    BY <2>1 DEF Op
  <2>3. Reads'
    BY <2>2 DEF Reads
  <2>4. ASSUME faults' = 0 PROVE Behind' /\ Finds'
    <3>1. Ready' = Ready
      BY <2>1, SameWith
    <3>2. /\ from.old \cap Ready = {}
          /\ \A k \in DocIds : rows[k] = IF k \in from.new THEN 0 ELSE IF k \in from.old \cup Ready THEN 1 ELSE 0
      BY <2>1, <2>4, <1>f DEF AloneInv, Behind
    <3>3. \A k \in DocIds : rows'[k] = IF k \in to.new THEN 0 ELSE IF k \in to.old \cup Ready THEN 1 ELSE 0
      BY <2>1, <2>2, <3>2 DEF TypeOK
    <3>. QED  BY <2>1, <2>2, <3>1, <3>2, <3>3 DEF Behind, Finds
  <2>. QED  BY <2>3, <2>4
<1>10. CASE Synced(Service)
  <2>1. docs' = docs /\ rows' = rows /\ from.new = {} /\ from.old = {} /\ to = Idle
    BY <1>0, <1>10 DEF Synced
  <2>2. to.pc = "idle"
    BY <2>1 DEF Idle
  <2>. QED  BY <2>1, <2>2, <1>f, AloneQuietStep
<1>11. CASE SyncFails(Service)
  <2>1. docs' = docs /\ rows' = rows /\ to = Idle /\ faults' = faults + 1 /\ faults \in Nat
    BY <1>0, <1>11 DEF SyncFails, TypeOK
  <2>2. to.pc = "idle" /\ faults' # 0
    BY <2>1 DEF Idle
  <2>. QED  BY <2>1, <2>2, AloneQuietStep
<1>. QED  BY <1>2, <1>3, <1>4, <1>5, <1>6, <1>7, <1>8, <1>9, <1>10, <1>11 DEF Upload

LEMMA AloneSearch ==
  ASSUME Procs = {Service}, TypeOK, Versions, AloneInv, Search(Service) \/ Stop(Service)
  PROVE  Reads' /\ (faults' = 0 => Behind' /\ Finds')
<1>0. Service \in Procs /\ proc \in [Procs -> Op] /\ proc[Service] \in Op /\ faults \in Nat
  BY KnowledgeAssumption DEF TypeOK
<1>. PICK from \in Op : from = proc[Service]
  BY <1>0
<1>1. OneOp(Service)
  BY <1>0, SearchOneOp
<1>. PICK to \in Op : to = proc'[Service]
  BY <1>0, <1>1 DEF OneOp
<1>f. faults' = 0 => faults = 0
  BY <1>0, FaultsType
<1>2. CASE \E want \in Ready, asked \in {{d} : d \in Domains} \cup {Domains} : Snapshot(Service, want, asked)
  <2>1. PICK want \in Ready, asked \in {{d} : d \in Domains} \cup {Domains} : Snapshot(Service, want, asked)
    BY <1>2
  <2>. DEFINE seen == {i \in Ready : DomainOf(i) \in asked}
  <2>2. /\ docs' = docs /\ rows' = rows /\ from.pc = "idle" /\ want \in seen
        /\ proc' = [proc EXCEPT ![Service] = [Idle EXCEPT !.pc = "dense", !.want = want, !.seen = seen]]
    BY <2>1 DEF Snapshot, At
  <2>3. seen \subseteq Ready
    OBVIOUS
  <2>. HIDE DEF seen
  <2>4. to = [Idle EXCEPT !.pc = "dense", !.want = want, !.seen = seen]
    BY <1>0, <2>2
  <2>5. to.pc = "dense" /\ to.want = want /\ to.seen = seen
    BY <2>4, IdleType DEF Op
  <2>. QED  BY <2>2, <2>3, <2>5, <1>f, AloneQuietStep
<1>3. CASE Dense(Service)
  <2>1. PICK M \in Matches(from.want, Searched(from.seen)) :
           \E H \in IF M \cap from.seen # {} THEN {M \cap from.seen} ELSE Lite(Service) :
              proc' = [proc EXCEPT ![Service].pc = "answered", ![Service].hits = H]
    BY <1>3 DEF Dense
  <2>2. PICK H \in IF M \cap from.seen # {} THEN {M \cap from.seen} ELSE Lite(Service) :
              proc' = [proc EXCEPT ![Service].pc = "answered", ![Service].hits = H]
    BY <2>1
  <2>3. docs' = docs /\ rows' = rows /\ from.pc = "dense" /\ to = [from EXCEPT !.pc = "answered", !.hits = H]
    BY <1>0, <1>3, <2>2 DEF Dense, At
  <2>4. to.pc = "answered" /\ to.want = from.want /\ to.seen = from.seen /\ to.hits = H
    BY <2>3 DEF Op
  <2>5. faults' = 0 /\ DomainOf(from.want) = Searched(from.seen) => from.want \in H
    <3>. SUFFICES ASSUME faults' = 0, DomainOf(from.want) = Searched(from.seen) PROVE from.want \in H
      OBVIOUS
    <3>1. from.want \in from.seen /\ from.want \in Ready /\ from.want \in DocIds /\ rows[from.want] = 1
      BY <1>f, <2>3 DEF AloneInv, Behind, Finds, Op
    <3>2. from.want \in M
      BY <3>1 DEF Matches, InCollection, Ready
    <3>. QED  BY <2>2, <3>1, <3>2
  <2>. QED  BY <2>3, <2>4, <2>5, <1>f, AloneQuietStep
<1>4. CASE DenseFails(Service)
  <2>1. PICK H \in Lite(Service) : proc' = [proc EXCEPT ![Service].pc = "answered", ![Service].hits = H]
    BY <1>4 DEF DenseFails
  <2>2. /\ docs' = docs /\ rows' = rows /\ faults' = faults + 1
        /\ to = [from EXCEPT !.pc = "answered", !.hits = H]
    BY <1>0, <1>4, <2>1 DEF DenseFails
  <2>3. to.pc = "answered" /\ faults' # 0
    BY <1>0, <2>2 DEF Op
  <2>. QED  BY <2>2, <2>3, AloneQuietStep
<1>5. CASE Return(Service)
  <2>1. docs' = docs /\ rows' = rows /\ from.pc = "answered" /\ to = Idle
    BY <1>0, <1>5 DEF Return, At
  <2>2. to.pc = "idle"
    BY <2>1 DEF Idle
  <2>. QED  BY <2>1, <2>2, <1>f, AloneQuietStep
<1>6. CASE Stop(Service)
  <2>1. docs' = docs /\ rows' = rows /\ to = Idle /\ faults' = faults + 1
    BY <1>0, <1>6 DEF Stop
  <2>2. to.pc = "idle" /\ faults' # 0
    BY <1>0, <2>1 DEF Idle
  <2>. QED  BY <2>1, <2>2, AloneQuietStep
<1>. QED  BY <1>2, <1>3, <1>4, <1>5, <1>6 DEF Search

LEMMA AloneStep ==
  ASSUME Procs = {Service}, TypeOK, Versions, AloneInv, [Next]_vars
  PROVE  AloneInv'
<1>1. CASE UNCHANGED vars
  BY <1>1, SameWith DEF vars, AloneInv, Order, Reads, Behind, Finds, Searched, DomainOf, With
<1>2. CASE Next
  <2>1. Service \in Procs /\ (Upload(Service) \/ Search(Service) \/ Stop(Service))
    BY <1>2 DEF Next
  <2>2. Order'
    BY <2>1, OrderStep
  <2>3. Reads' /\ (faults' = 0 => Behind' /\ Finds')
    BY <2>1, AloneUpload, AloneSearch
  <2>. QED  BY <2>2, <2>3 DEF AloneInv
<1>. QED  BY <1>1, <1>2

LEMMA AloneInvariance == ASSUME Procs = {Service} PROVE Spec => [](TypeOK /\ Versions /\ AloneInv)
<1>1. Init => TypeOK /\ Versions /\ AloneInv
  BY InitType, AloneInit
<1>2. (TypeOK /\ Versions /\ AloneInv) /\ [Next]_vars => (TypeOK /\ Versions /\ AloneInv)'
  BY TypeStep, AloneStep
<1>. QED  BY <1>1, <1>2, PTL DEF Spec

\* Without a second process and without a failure the index of a system at rest has one
\* row of every ready document and none of the others (kb/store.py _sync_vectors).
THEOREM IndexIsSynchronised == ASSUME Procs = {Service} PROVE Spec => []IndexFollows
<1>1. AloneInv => IndexFollows
  <2>. SUFFICES ASSUME AloneInv, faults = 0, proc[Service].pc \in {"idle", "insert", "dense", "answered"}
                PROVE  \A i \in DocIds : rows[i] = (IF i \in Ready THEN 1 ELSE 0)
    BY KnowledgeAssumption DEF IndexFollows
  <2>. QED  BY DEF AloneInv, Behind
<1>. QED  BY <1>1, AloneInvariance, PTL

\* Without a second process and without a failure a search for the text of a published
\* document finds it in its domain, however few rows the index returns (POST /kb/upload,
\* publish); a search in every domain finds it when the oldest ready document shares its domain.
THEOREM PublishedIsFound == ASSUME Procs = {Service} PROVE Spec => []FoundWithoutFaults
<1>1. AloneInv => FoundWithoutFaults
  BY DEF AloneInv, Finds, FoundWithoutFaults, At, Searched
<1>. QED  BY <1>1, AloneInvariance, PTL

-----------------------------------------------------------------------------
(* Refinement: a publish of the service is one switch of ActiveVersion.    *)

LEMMA SwitchIsSwitch ==
  ASSUME Procs = {Service}, TypeOK, Versions, AloneInv, Switch(Service)
  PROVE  Active!Next
<1>0. Service \in Procs
  OBVIOUS
<1>1. PICK s : s = proc[Service].source /\ s \in Sources
  BY <1>0, OpOf
<1>. DEFINE new == With(s, "staging")
<1>2. new # {} /\ new \in SUBSET DocIds
  BY <1>1, DocsFacts DEF Switch, At, AloneInv, Reads
<1>3. \A n \in new, o \in With(s, "ready") : n > o
  BY DocsFacts DEF AloneInv, Order, With
<1>4. With(s, "ready")' = new /\ \A r : r # s => With(r, "ready")' = With(r, "ready")
  BY <1>0, <1>1, SwitchWith
<1>5. new \in (SUBSET (1..MaxDocs)) \ {{}}
  <2>. HIDE DEF new
  <2>1. new \in SUBSET (1..MaxDocs)
    BY <1>2 DEF DocIds
  <2>2. new \notin {{}}
    BY <1>2
  <2>. QED  BY <2>1, <2>2
<1>6. \A n \in new, o \in [r \in Sources |-> With(r, "ready")][s] : n > o
  BY <1>1, <1>3
<1>7. [r \in Sources |-> With(r, "ready")]' = [[r \in Sources |-> With(r, "ready")] EXCEPT ![s] = new]
  BY <1>1, <1>4
<1>8. Active!Switch(s)
  <2>. HIDE DEF new
  <2>. QED  BY <1>5, <1>6, <1>7 DEF Active!Switch
<1>. QED  BY <1>1, <1>8 DEF Active!Next

\* Seen by a reader, whatever fails, a publish of the service replaces the documents of
\* a source by newer ones in one step, and nothing else changes what is shown.
THEOREM PublishIsAtomic == ASSUME Procs = {Service} PROVE Spec => ImplementsActive
<1>1. Init => Active!Init
  BY DEF Init, Active!Init, With
<1>2. TypeOK /\ Versions /\ AloneInv /\ [Next]_vars => [Active!Next]_([s \in Sources |-> With(s, "ready")])
  <2>. SUFFICES ASSUME TypeOK, Versions, AloneInv, [Next]_vars
                PROVE  \/ Active!Next
                       \/ [s \in Sources |-> With(s, "ready")]' = [s \in Sources |-> With(s, "ready")]
    OBVIOUS
  <2>1. CASE docs' = docs
    BY <2>1, SameWith
  <2>2. CASE Next
    <3>1. Service \in Procs /\ (Upload(Service) \/ Search(Service) \/ Stop(Service))
      BY <2>2 DEF Next
    <3>2. CASE Ingest(Service)
      BY <3>1, <3>2, IngestWith
    <3>3. CASE Switch(Service)
      BY <3>3, SwitchIsSwitch
    <3>. QED  BY <3>1, <3>2, <3>3, <2>1, TableStep
  <2>. QED  BY <2>1, <2>2 DEF vars
<1>. QED  BY <1>1, <1>2, AloneInvariance, PTL DEF Spec, ImplementsActive, Active!Spec
==============================================================================
