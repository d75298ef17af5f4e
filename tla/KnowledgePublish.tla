-------------------------- MODULE KnowledgePublish --------------------------
(***************************************************************************)
(* The knowledge base (kb/store.py, kb/vector_store.py, the /kb endpoints, *)
(* kb/seed_data.py) and the reads of rag/pipeline.py: documents are        *)
(* ingested as staging, a publish archives the ready ones of the source    *)
(* and makes its staging ones ready, then brings the vector index after.   *)
(* The service and the command `make seed` are processes on one SQLite     *)
(* file and one Milvus; a process does one operation at a time (its        *)
(* endpoints block the event loop), processes interleave between SQLite    *)
(* transactions and between the calls of Milvus.                           *)
(*                                                                         *)
(* A document has one chunk; a search is described by the document its     *)
(* text repeats.  Milvus has a collection per domain and returns the       *)
(* nearest rows of the one it is asked for, the document first.            *)
(***************************************************************************)
EXTENDS Naturals, FiniteSets, Sequences

CONSTANTS Procs,      \* processes on one database: the service, the seed command
          Service,    \* the process whose callers may keep a document in staging
          Domains,    \* domains of documents, each with a collection of Milvus
          Names,      \* names of sources within a domain
          TopK,       \* rows Milvus returns
          MaxDocs,    \* bound on the rows of knowledge_doc
          MaxFaults   \* bound on failed calls of Milvus and stopped processes

ASSUME KnowledgeAssumption ==
    /\ Service \in Procs /\ Domains # {} /\ Names # {}
    /\ TopK \in Nat \ {0} /\ MaxDocs \in Nat \ {0} /\ MaxFaults \in Nat

VARIABLES docs,       \* knowledge_doc: the row with id i is docs[i]
          rows,       \* Milvus: how many rows each document has
          proc,       \* the operation each process executes
          faults

vars == <<docs, rows, proc, faults>>

Sources == Domains \X Names    \* a document is kept under its domain and the name of its source
DocIds == 1..MaxDocs
Doc == [source : Sources, version : Nat, status : {"staging", "ready", "archived"}]
Steps == {"idle", "insert", "readReady", "readStaging", "switch", "probe", "sync", "dense", "answered"}
Op == [pc : Steps, source : Sources, publish : {"yes", "no"}, version : Nat,
       new : SUBSET DocIds, old : SUBSET DocIds,    \* ids to bring to the index / to remove from it
       want : DocIds, seen : SUBSET DocIds, hits : SUBSET DocIds]

With(s, status) == {i \in DOMAIN docs : docs[i].source = s /\ docs[i].status = status}
Ready == {i \in DOMAIN docs : docs[i].status = "ready"}
DomainOf(i) == docs[i].source[1]
InCollection(d) == {i \in DOMAIN docs : DomainOf(i) = d /\ rows[i] > 0}
Oldest(S) == CHOOSE i \in S : \A j \in S : i <= j
At(p, step) == proc[p].pc = step
Goto(p, step) == proc' = [proc EXCEPT ![p].pc = step]
Idle == [pc |-> "idle", source |-> CHOOSE s \in Sources : TRUE, publish |-> "no", version |-> 0,
         new |-> {}, old |-> {}, want |-> 1, seen |-> {}, hits |-> {}]

Init ==
    /\ docs = <<>>
    /\ rows = [i \in DocIds |-> 0]
    /\ proc = [p \in Procs |-> Idle]
    /\ faults = 0

-----------------------------------------------------------------------------
(* POST /kb/upload, and each pair ingest, publish of load_seed.            *)

\* SELECT MAX(version) runs before the transaction of the INSERT begins.
NextVersion(p, s, publish) ==
    /\ At(p, "idle")
    /\ publish = "yes" \/ p = Service
    /\ LET versions == {0} \cup {docs[i].version : i \in {d \in DOMAIN docs : docs[d].source = s}}
       IN  proc' = [proc EXCEPT ![p] = [Idle EXCEPT !.pc = "insert", !.source = s, !.publish = publish,
                        !.version = 1 + (CHOOSE v \in versions : \A w \in versions : w <= v)]]
    /\ UNCHANGED <<docs, rows, faults>>

Ingest(p) ==
    /\ At(p, "insert")
    /\ Len(docs) < MaxDocs
    /\ docs' = Append(docs, [source |-> proc[p].source, version |-> proc[p].version, status |-> "staging"])
    /\ Goto(p, IF proc[p].publish = "yes" THEN "readReady" ELSE "idle")
    /\ UNCHANGED <<rows, faults>>

ReadReady(p) ==
    /\ At(p, "readReady")
    /\ proc' = [proc EXCEPT ![p].pc = "readStaging", ![p].old = With(proc[p].source, "ready")]
    /\ UNCHANGED <<docs, rows, faults>>

\* Mutant: only one staging document is brought to the index.
ReadStagingOne(p) ==
    /\ At(p, "readStaging")
    /\ LET staging == With(proc[p].source, "staging")
       IN  proc' = [proc EXCEPT ![p].pc = "switch",
                                ![p].new = IF staging = {} THEN {} ELSE {Oldest(staging)}]
    /\ UNCHANGED <<docs, rows, faults>>

ReadStaging(p) ==
    /\ At(p, "readStaging")
    /\ proc' = [proc EXCEPT ![p].pc = "switch", ![p].new = With(proc[p].source, "staging")]
    /\ UNCHANGED <<docs, rows, faults>>

\* Mutant: nothing is archived.
SwitchedKeepsOld(s) ==
    [i \in DOMAIN docs |->
        IF docs[i].source = s /\ docs[i].status = "staging" THEN [docs[i] EXCEPT !.status = "ready"]
                                                           ELSE docs[i]]

\* Both UPDATEs are committed before the row count is looked at.
Switched(s) ==
    [i \in DOMAIN docs |->
        CASE docs[i].source = s /\ docs[i].status = "ready"   -> [docs[i] EXCEPT !.status = "archived"]
          [] docs[i].source = s /\ docs[i].status = "staging" -> [docs[i] EXCEPT !.status = "ready"]
          [] OTHER -> docs[i]]

Switch(p) ==
    /\ At(p, "switch")
    /\ docs' = Switched(proc[p].source)
    /\ Goto(p, IF With(proc[p].source, "staging") = {} THEN "idle" ELSE "probe")
    /\ UNCHANGED <<rows, faults>>

\* backend.is_available()
Probe(p) ==
    /\ At(p, "probe")
    /\ Goto(p, "sync")
    /\ UNCHANGED <<docs, rows, faults>>

\* backend.upsert inserts a row (the key is automatic).
Upsert(p) ==
    /\ At(p, "sync")
    /\ proc[p].new # {}
    /\ LET i == Oldest(proc[p].new)
       IN  /\ rows' = [rows EXCEPT ![i] = @ + 1]
           /\ proc' = [proc EXCEPT ![p].new = @ \ {i}]
    /\ UNCHANGED <<docs, faults>>

\* Mutant: the rows of what was archived stay.
DeleteDocKeeps(p) ==
    /\ At(p, "sync")
    /\ proc[p].new = {} /\ proc[p].old # {}
    /\ proc' = [proc EXCEPT ![p].old = {}]
    /\ UNCHANGED <<docs, rows, faults>>

DeleteDoc(p) ==
    /\ At(p, "sync")
    /\ proc[p].new = {} /\ proc[p].old # {}
    /\ LET i == Oldest(proc[p].old)
       IN  /\ rows' = [rows EXCEPT ![i] = 0]
           /\ proc' = [proc EXCEPT ![p].old = @ \ {i}]
    /\ UNCHANGED <<docs, faults>>

Synced(p) ==
    /\ At(p, "sync")
    /\ proc[p].new = {} /\ proc[p].old = {}
    /\ proc' = [proc EXCEPT ![p] = Idle]
    /\ UNCHANGED <<docs, rows, faults>>

\* The index cannot be reached or embedding fails: the rest of the synchronisation
\* is dropped and the caller is told that the document is ready.
SyncFails(p) ==
    /\ proc[p].pc \in {"probe", "sync"}
    /\ faults < MaxFaults
    /\ faults' = faults + 1
    /\ proc' = [proc EXCEPT ![p] = Idle]
    /\ UNCHANGED <<docs, rows>>

-----------------------------------------------------------------------------
(* RAGPipeline.retrieve: the snapshot of the ready chunks, then the dense  *)
(* ranking; a chunk without a dense rank has score 0 and is dropped.       *)

Snapshot(p, want, asked) ==
    /\ At(p, "idle")
    /\ LET seen == {i \in Ready : DomainOf(i) \in asked}
       IN  /\ want \in seen
           /\ proc' = [proc EXCEPT ![p] = [Idle EXCEPT !.pc = "dense", !.want = want, !.seen = seen]]
    /\ UNCHANGED <<docs, rows, faults>>

\* Only the collection of the first chunk's domain is searched, also when the caller
\* asked for every domain.
Searched(seen) == DomainOf(Oldest(seen))

Matches(want, domain) ==
    LET there == InCollection(domain)
    IN  {M \in SUBSET there : /\ Cardinality(M) <= TopK
                              /\ M = {} <=> there = {}
                              /\ want \in there => want \in M}

\* The bigram cosine over the snapshot: the document itself and whatever else is alike.
Lite(p) == {H \in SUBSET proc[p].seen : proc[p].want \in H}

\* Mutant: what the index returns is not filtered.
DenseUnfiltered(p) ==
    /\ At(p, "dense")
    /\ \E M \in Matches(proc[p].want, Searched(proc[p].seen)) :
         \E H \in IF M # {} THEN {M} ELSE Lite(p) :
            proc' = [proc EXCEPT ![p].pc = "answered", ![p].hits = H]
    /\ UNCHANGED <<docs, rows, faults>>

\* Matches outside the snapshot are dropped; without a valid one the search is lite.
Dense(p) ==
    /\ At(p, "dense")
    /\ \E M \in Matches(proc[p].want, Searched(proc[p].seen)) :
         \E H \in IF M \cap proc[p].seen # {} THEN {M \cap proc[p].seen} ELSE Lite(p) :
            proc' = [proc EXCEPT ![p].pc = "answered", ![p].hits = H]
    /\ UNCHANGED <<docs, rows, faults>>

DenseFails(p) ==
    /\ At(p, "dense")
    /\ faults < MaxFaults
    /\ faults' = faults + 1
    /\ \E H \in Lite(p) : proc' = [proc EXCEPT ![p].pc = "answered", ![p].hits = H]
    /\ UNCHANGED <<docs, rows>>

Return(p) ==
    /\ At(p, "answered")
    /\ proc' = [proc EXCEPT ![p] = Idle]
    /\ UNCHANGED <<docs, rows, faults>>

\* The process stops; an open transaction is rolled back.
Stop(p) ==
    /\ ~At(p, "idle")
    /\ faults < MaxFaults
    /\ faults' = faults + 1
    /\ proc' = [proc EXCEPT ![p] = Idle]
    /\ UNCHANGED <<docs, rows>>

Upload(p) ==
    \/ \E s \in Sources, publish \in {"yes", "no"} : NextVersion(p, s, publish)
    \/ Ingest(p) \/ ReadReady(p) \/ ReadStaging(p) \/ Switch(p)
    \/ Probe(p) \/ Upsert(p) \/ DeleteDoc(p) \/ Synced(p) \/ SyncFails(p)

Search(p) ==
    \/ \E want \in Ready, asked \in {{d} : d \in Domains} \cup {Domains} : Snapshot(p, want, asked)
    \/ Dense(p) \/ DenseFails(p) \/ Return(p)

Next == \E p \in Procs : Upload(p) \/ Search(p) \/ Stop(p)

Spec == Init /\ [][Next]_vars

-----------------------------------------------------------------------------
TypeOK ==
    /\ docs \in Seq(Doc) /\ Len(docs) <= MaxDocs
    /\ rows \in [DocIds -> Nat]
    /\ proc \in [Procs -> Op]
    /\ faults \in 0..MaxFaults

\* A search returns nothing that was not ready at one moment of it, whatever the
\* index still holds of archived versions (the valid_ids filter of _dense).
OnlyReadyIsFound == \A p \in Procs : At(p, "answered") => proc[p].hits \subseteq proc[p].seen

\* What is archived is never shown again and what is ready was never archived: a
\* publish decides with the statuses of its own transaction, not with what it read.
NothingRevived == [][\A i \in DOMAIN docs : docs[i].status = "archived" => docs'[i].status = "archived"]_vars

\* As long as nothing failed, the index of an idle system has one row of every
\* ready document and none of the others (kb/store.py _sync_vectors).
IndexFollows ==
    (faults = 0 /\ \A p \in Procs : proc[p].pc \in {"idle", "insert", "dense", "answered"})
        => \A i \in DocIds : rows[i] = (IF i \in Ready THEN 1 ELSE 0)

\* As long as nothing failed, a document that was published is found by a search for
\* its text in its domain, also when the index returns few rows (kb_upload: searchable
\* at once).  A search in every domain finds what lies in the domain of its oldest ready
\* document: only that collection is asked (rag/pipeline.py _dense).
FoundWithoutFaults ==
    \A p \in Procs :
        (At(p, "answered") /\ faults = 0 /\ DomainOf(proc[p].want) = DomainOf(Oldest(proc[p].seen)))
            => proc[p].want \in proc[p].hits

\* Seen by a reader, every publish replaces the documents of a source in one step by
\* newer ones: no gap, no return to an old version, no trace of what stays staging.
Active == INSTANCE ActiveVersion WITH shown <- [s \in Sources |-> With(s, "ready")]
ImplementsActive == Active!Spec

\* seed_data.py:176 "retrieval is not interrupted": a source that shows a document
\* always shows one.
NoInterruption == [][\A s \in Sources : With(s, "ready") # {} => With(s, "ready")' # {}]_vars
==============================================================================
