# SalesPilot: specifications, model checking and proofs

TLA+ modules for SalesPilot, an AI sales assistant: a Python agent
(`src/sale-agent`), a tool gateway (`src/mcp-server`), a Java CRM
(`src/business-mock`) and a React front end (`src/frontend-web`).  The modules
are translated from the source; `PROJECT.json` maps each definition to the
lines it stands for.

## 1. Inventory

### 1.1 Processes and how they interact

| process | threads | state that survives a restart | state that does not |
|---|---|---|---|
| sale-agent (FastAPI) | one event loop; every `/api/ai` and `/internal/v1` endpoint is `async def` and blocks it; one daemon thread per follow-up event; one worker thread for runs | `proposals.db`, `suggestions.db`, `kb.db`, `trace.db`, `runs.json`, `runs.json.tasks`, one output directory per project | `Host.lifecycle`, the event queues, the in-memory fall-back of the chat context, the LLM gateway's counters |
| mcp-server (FastAPI) | one thread-pool thread per call, no locks | the audit file | the read cache, the idempotency map |
| business-mock (Spring) | one thread per request, no `@Transactional`: every SQL statement commits alone | MySQL | nothing that matters |
| browser | one tab | nothing | React Query cache: the proposals it polled |

A sales employee works in the browser.  The browser calls the agent for chat,
suggestions, proposals and runs, and business-mock for customers and
follow-ups.  The agent reads and writes the CRM only through mcp-server, except
that it asks business-mock itself for an approval voucher.  business-mock tells
the agent of a new follow-up by a fire-and-forget HTTP call.

### 1.2 Components

The names are those of `PROJECT.json`, which gives the files of each.

**proposal table** (`hitl/store.py`).  *State*: rows of SQLite with a status
pending, confirmed, rejected or expired, a field list and a time to live.
*Operations*: `create_or_merge`, `resolve`, `replace_fields`, `get`, `list`,
expiry inside each of them; one lock.  *Users*: profile refresh (follow-up
threads and the event loop), ops subgraph, tag review, the confirmation
endpoints.  *Hard*: rows change between an endpoint's read and its resolve.
*Correct when*: one pending proposal per customer and tool, final statuses stay.

**HITL confirmation flow** (`hitl/flow.py`, `ai/router.py`,
`profile/mcp_client.py`).  *State*: only the request being served.
*Operations*: confirm (read, ask for a voucher, call the write tool, resolve),
reject, edit of a tag proposal.  *Hard*: answers lost or late, crashes between
any two steps, a second press.  *Correct when*: the CRM changes only by what an
employee confirmed, and at most once.

**tool gateway write path** (`mcp-server/sale_server/tools.py`).  *State*: an
idempotency map in memory.  *Operations*: ownership gate, forward, answer.
*Hard*: callers that gave up, a restart that forgets the map.  *Correct when*: a
repeated call does not write again.

**business-mock approvals, profile fields and tags** (Java).  *State*: the
`approval`, `profile_field` and `customer_tag` tables.  *Operations*: issue a
voucher (UNIQUE key), consume it (compare and set), upsert fields one by one,
replace tags (delete, then insert one by one).  *Hard*: no transaction, so
handlers interleave statement by statement and stop half way.  *Correct when*:
nothing is written without a consumed voucher, and a consumed one is carried out.

**employee panels** (`ProfilePanel.tsx`, `TagPanel.tsx`).  *State*: the
proposals of the last poll.  *Operations*: poll every ten seconds, confirm,
reject, edit.  *Hard*: the card is older than the row.  *Correct when*: what is
confirmed is what was shown.

**run management** (`internal_api/`).  *State*: sessions and tasks, in memory
and in two files.  *Operations*: create, resume, pause, cancel, instructions;
the worker thread claims, executes and ends tasks; restore after a restart.
*Hard*: event loop and worker change a run's session, host and files without a
common lock; the two files and the memory change one after the other.  *Correct
when*: one task of a run at a time, each one ends, cancel sticks, the status the
API shows is true.

**host and section pipeline** (`host/`, `agents/orchestrator/langgraph/`,
`tools/commit_section.py`, `store/`).  *State*: `Host.lifecycle`, and per
project the texts, `progress.json`, the checkpoint log, the pause file, the
saved instruction.  *Operations*: start, resume, continue, steer, abort; nodes
that load, generate, commit, checkpoint.  *Hard*: a commit is three writes; two
runs of one project share the files.  *Correct when*: sections are committed in
order, and what progress says is on disk.

**event queue and event stream** (`store/runtime.py`, `internal_api/routes.py`).
*State*: `queue.jsonl` and, per host, the next number.  *Operations*: append,
reset, replay after a cursor, stream, pages.  *Hard*: restarts, resets while a
client holds a cursor, two hosts that number one queue.  *Correct when*: a
client gets each event once, in order, and misses none.

**tool gateway read path** (`tools.py`).  *State*: a cache with a lifetime per
tool, no lock.  *Operations*: ownership gate, drop for `no_cache`, lookup,
request, store.  *Hard*: thread-pool threads interleave between any two steps.
*Correct when*: nobody reads another's customer, no answer is too old.

**profile refresh** (`profile/`).  *State*: the thread of a refresh.
*Operations*: read follow-ups, purchases and profile through the gateway (past its
cache for an event, from it when an employee asks), extract, compare, propose.  *Hard*: the event that starts it may be lost, several
refreshes of a customer overlap, the customer may be transferred between two
reads, a call goes on when its refresh has given up.  *Correct when*: a refresh knows
the follow-up that caused it, and the pending proposal rests on the newest records.

**chat graph, context and trace** (`ai/graph.py`, `ai/router.py`,
`context_store.py`, `trace.py`).  *State*: the last messages of a session, in
Redis or in memory; the intent of the last turn; the status of each run in
`trace.db`.  *Operations*: accept, load, route, respond, save, stream, finish.
*Hard*: a client that leaves in mid-stream, trace calls that raise anywhere in the
graph, a question saved without its answer, an expired or trimmed context.
*Correct when*: the run tells what became of the turn, the context is bounded and
a dialogue, the intent kept is the one of the last classified turn.

**suggestion cards** (`suggestion/store.py`, `coach/subgraph.py`).  *State*:
cards and their action log.  *Operations*: create, adopt, modify, reject,
regenerate at most twice.  *Correct when*: one final action per card, the log
tells the card's story.

**knowledge base** (`kb/`).  *State*: versions staging, ready, archived; a
vector index.  *Operations*: ingest, publish, synchronise, search; the seed
command does the same from another process.  *Hard*: the index changes after
the commit, its failures are swallowed.  *Correct when*: a publish is one switch to newer
documents, and nothing else is ever found.

**LLM gateway** (`ai/gateway.py`).  Attempts, retries, the ledger of calls,
reordering of hits.  *Correct when*: only what may pass is tried again, each
answered chat is recorded once, no hit is lost.

**intent router** (`intent/`).  Menu, rules, sample library and model, fused
into a routing decision.  *Correct when*: no single classifier and no repeated
context is enough for a direct answer.

**coach and RAG** (`coach/`, `rag/pipeline.py`).  Two rankings fused, thresholds,
injection budget, citations.  *Correct when*: the citations are the first hits.

**business-mock customers** and **follow-ups, purchases and notifier** (Java).
*State*: MySQL rows, an event queue in memory.  *Operations*: create a follow-up
and submit its event, transfer, delete.  *Hard*: two statements without a
transaction (transfer and audit), events sent once.  *Correct when*: every change
of owner is in the audit, an event is handled or fails visibly.

**ops subgraph** is modelled as a step of a chat turn and as the source of a
proposal.  **Project service**, **authentication**, **gateway audit**,
**configuration and assembly**, **evaluation**, **front-end pages** and **seed data
generator** have little or no state of their own; section 7 says why each is
left out.

## 2. Modules

| module | extends or instances | models |
|---|---|---|
| `ProposalStore` | | the proposal table: its operations as operators on the table |
| `HitlConfirm` | `ProposalStore` | the write path through agent, gateway and business-mock |
| `HumanGate` | | abstract: what the write path promises |
| `EmployeeCard` | `HitlConfirm` | the write path together with the employee's panel |
| `SectionProgress` | | `progress.json` and its transitions, as operators |
| `RunService` | `SectionProgress` | requests, worker, host, pipeline and files of runs |
| `SectionPlan` | | abstract: what the pipeline promises of a directory |
| `GatewayCache` | | the read path of the gateway, with transfers and deletions |
| `EventQueue` | | the queue file, its writers and one client |
| `KnowledgePublish` | | uploads, publishes and searches of several processes on one database and one index |
| `ActiveVersion` | | abstract: what a reader of the knowledge base is promised |
| `SuggestionCard` | | suggestion cards and their log |
| `ChatTurn` | `SuggestionCard` | chat turns, contexts, runs, and the cards the turns leave |
| `FollowUpRefresh` | | from a saved follow-up to a pending proposal, and transfers meanwhile |
| `IntentFusion` | | the routing decision, as operators |
| `RagRank` | | ranking, reordering and injection, as operators |
| `Decisions` | `IntentFusion`, `RagRank` | one computation of the agent at a time, requests to the model with their retries |
| `MC...` | the module named | constants and symmetry for TLC |
| `..._proofs` | the module named, `TLAPS` | theorems about it |

### 2.1 HitlConfirm

`proposals` is the SQLite table and survives `AgentCrash`.  `endpoint` is the
request the event loop is serving; as the endpoints are `async def` and block,
there is one.  Its steps are the calls of `confirm_proposal`: `ConfirmGet`,
`IssueApproval` (or `IssueRefused`), `SendWrite`, `WriteAcknowledged` or
`WriteGivenUp`, `ResolveConfirmed`, and for tags `ReviewAfterConfirm`.
`approval` is the voucher with the key `proposal:{id}`; `gateway` is the write
call in mcp-server, `write` its handler in business-mock, one SQL statement per
step.  `crm` is what is stored; `written` counts, for the properties only, how
often a field was written for a proposal.

Abstractions.  Values are opaque.  Time is two facts that may become true: a row
is `due`, a voucher lapses.  A call that is lost, late or refused looks the same
to its caller (`WriteGivenUp`), while the callee keeps running.  A voucher
inserted after the agent gave up waiting for it counts as a lost answer.  The
gateway may refuse at any time, which stands for the ownership gate and for
errors of its own.  `expire_pending` has no caller outside the tests.  A tag
list that an employee edits into one with the same tag twice is not represented;
business-mock refuses it at its UNIQUE key, as `DuplicateTag` does.

`HumanGate` says what this must amount to: the CRM changes only to carry out a
field list that was granted to an employee's confirmation, for the granted
customer and tool, each field at most once.  The refinement mapping takes the
voucher for the grant.

### 2.2 EmployeeCard

`view` holds the card per proposal.  `Poll` replaces all cards by the pending
rows; `Press` starts an endpoint for a card that is there; everything else
leaves the cards alone.  The field lists of the model keep their keys apart, so that
`ShownIsWritten` can follow a field from the card to the CRM.

### 2.3 RunService

`session` and `row` are a run's `state_override` in memory and in `runs.json`;
`tasks` is the task table, where `saved` tells whether `runs.json.tasks` has the
status; `lifecycle` and `logSeq` belong to the run's host; `planned`,
`progress`, `texts`, `log`, `pause` and `steer` are the files of a project
directory, which runs share through `DirOf`.  `api` is the request being
served, `worker` the thread.  `torn` is a history variable: the directories a start
has begun to reset.

A request that tests and then acts is split where the worker can come between:
`Abort` after the test, `ConsumeSteer` after the load, `SetOutcome` after
`TestCanceled`.  A start is `BeginStart` (the new progress) and `ResetLog` (the log
of the checkpoints, the pause and what follows); a commit is `SaveText`, `MarkDone`,
`LogCheckpoint`.  Any file operation of the worker may fail and then leaves its file
as it was: `StepFails` raises in the host, usually before it says that it no longer
runs, `ReturnFails` after it has said so, and `BookkeepingFails` (`ClaimFails`,
`PersistFails`) ends the thread, as these writes are outside the `try` or in the
`finally` of `worker.py`; the step is then "dead" until a restart.  `Restart` keeps
the files and rows, forgets the rest, and puts a running task back into the queue.

Abstractions.  Texts, prompts and models are left out, so `generate` is one
step.  `is_busy` is derived from the task statuses in memory; what `report` reads
is read in one step.  A write of an endpoint does not fail.  The flag that
`Host.abort` sets is cleared when a call of the pipeline begins and read once,
before its first node (`core.py:86`): an abort between the two makes the pipeline
return at once, any other changes only the lifecycle and the events.  The revision
flow and `switch_model` have no caller.

`SectionPlan` is the abstract plan of a directory: begin anew, commit the next
section, complete with the last.

### 2.4 GatewayCache

`call` is a thread of the pool with its step, key and data; `cache` maps a key
(employee, tool, customer) to an entry and its expiry.  `owner` and `facts` are
business-mock's, changed by `Transfer`, `SoftDelete` and `Change` at any time.
Data carries the moment it was read, a call the moment it began; these and
`entitled` are there for the properties.  `Patience` is an assumption: no call
takes longer (the gateway's HTTP client gives up after 2 s per socket
operation).  `search_customers`, which is not cached, and the audit are left out.

### 2.5 EventQueue

`queue` is the file, `store` a host's loaded number, `worker` the thread in
`start_prepared` (whose `reset` is three steps, as it takes no lock) or in
`resume`.  `Steer`, `PauseRun` and `CancelRun` append from the event loop.  The
client reads pages or a stream, `Limit` events at a time, and keeps a cursor.
`Break` cuts a round of the stream anywhere.  A continue task does to the queue
what a resume task does.  One client is enough, as clients do not interact.  The
asyncio queues of `Host` have no reader.  `id`, `era`, `tangled` and `slipped`
are there for the properties.

### 2.6 KnowledgePublish

`docs` is the table `knowledge_doc`, `rows` the number of rows Milvus has for a
document, `proc` the operation each process executes.  An upload is `NextVersion`
(its SELECT is before the transaction), `Ingest`, and for a publish `ReadReady`,
`ReadStaging`, `Switch` (both UPDATEs and the commit), `Probe`, then one `Upsert`
or `DeleteDoc` per document.  `SyncFails` is any failure of the index, which the
code swallows; `Stop` is a stop of the process at any step.  A search takes a
`Snapshot` of the ready chunks and ranks with the index (`Dense`) or, when that
fails or finds nothing valid, with bigrams.  A source is a pair of domain and name;
Milvus has a collection per domain.  A caller asks for one domain or for all, and
`Searched` is the collection that is asked: always that of the first ready chunk.
A document has one chunk; `Matches` says what of Milvus is relied upon: nearest rows
of that collection, the same text first.

`ActiveVersion` says what this amounts to for a reader: the shown documents of a
source are replaced in one step by newer ones.  It holds for the service alone;
with a second process the counterexample of `kb_gap` breaks it too.

### 2.7 ChatTurn and SuggestionCard

`turn` is a request with its place in the stream, `run` the status in
`trace.db`, `store` the contexts in Redis and in the process, `backend` the one
chosen at start-up, `last` the intent kept for the next classification.  The four
nodes of the graph block the event loop, so `Run` is one step with everything
that is caught in it.  `start_span` and the `finish_span` of an `except` are outside
the `try` blocks of the nodes: an exception there leaves the graph before
the classification (`RaisesUnclassified`) or behind it with whatever was done by
then (`Raises`); `finish_run` fails likewise (`FinishFails`).  The handler then
marks the run failed, or fails to and the stream breaks.  Turns interleave where
the stream yields (`Finish`, `End`), and there `Leave` may end them.  `SavedWith` is `save_context`: two
appends, of which none, one or both happen, each trimmed.  `Expire` is the
lifetime of a Redis key, `Restart` forgets memory and `last` and chooses a backend
anew.

A card belongs to the run that generated it.  `Adopt`, `Reject` and `Regenerate`
are single steps, as their endpoints do not await.  What a generation cites and
its wording are left out: no property reads them.  A failing statement inside a
transaction of SQLite is not modelled.

### 2.8 FollowUpRefresh

One customer.  `desk` is a thread of business-mock: `Create`, `Save`, `Submit` for
a follow-up, `ReadOwner`, `MoveOwner`, `Audit` for a transfer, each a SQL
statement.  `queue` is the notifier's; `Deliver` starts a thread of the agent,
`Drop` is an agent that cannot be reached.  `AskFor` is `POST /profile/refresh`,
which keeps the event loop busy until it ends (`LoopFree`).  `refresh` follows each
event, and each refresh asked for, through its reads to its outcome.

The list of follow-ups is read through the gateway, as in `GatewayCache` step by step:
`Call` (the gate), `Pop` (for an event only), then `Hit`, or `Fetch` and `Store`.
`cache` is the list kept for each employee; `Fetch` may happen although one is kept,
which is one whose lifetime is over.  `call` is not part of the refresh: when this
gives up or its process stops, the gateway goes on and still stores what it fetched.
A gateway that restarts shows nothing more: its calls fail, which are refreshes that
fail and whose calls then stand still, and its lists are gone, as when they expire.
Reads of the list by other subgraphs (`coach`, `ops`) are like a refresh asked for
that ends when it has read.  The other two reads ask the gate as well; purchases are
not followed, and a read of the profile answers with any value it has had, which has
whatever the cache can do to it.

`Conclude` compares what the records say (`Says`, a function of the records read)
with the profile as it was read, and creates or overwrites the proposal.
`apart`, `moves` and `raced` (an older list was still to be stored when a call
dropped the kept one) are there for the properties.

### 2.9 Decisions

`IntentFusion` computes the set of decisions that are possible for a message,
since intents of equal score keep the order of a set of strings.  Scores are integers
in ten thousandths.  `RagRank` fuses two rankings, filters, reorders by the
indices a model names, and injects hit by hit as `_inject` does; `Chars`, the sum
its property compares with, is no part of the loop.  `Decisions` runs one
of them, or a request to the model with every sequence of answers a provider may
give, as a job of the event loop.

## 3. Runs

Every bound is named in the module and set in the `.cfg`.

| run | bounds | question and answer |
|---|---|---|
| `hitl_small` | 2 proposals of 1 customer, 1 key, 1 value, 1 fault | do competing proposals keep the table, the tags and the CRM in order?  `SinglePending`, `AppliedAtMostOnce`, `FinalStatusesStick` and the refinement of `HumanGate` hold |
| `hitl_keys` | the panel's cards, 1 proposal, 2 known keys, 1 unknown, 1 fault, fairness | half-written lists and lost fields: `ConfirmedIsWritten`, `ShownIsWritten` and the two liveness properties hold |
| `hitl_retry` | 1 proposal, 1 key, no fault | can a proposal whose write failed be retried?  No: finding 1 |
| `card_shown` | 1 proposal, 1 key, 2 values | is the card what is written?  No: finding 2 |
| `run_single` | 1 run, 2 tasks, plans of up to 2 sections, 2 faults, fairness | files, tasks and shown status of one run: `CommittedIsOnDisk`, `OneActiveTask`, `StatusIsTrue`, `CancelSticks`, the refinement of `SectionPlan` and `TasksEnd` hold |
| `cache_reads` | 2 calls of an employee and a manager, 1 customer, lifetime 2, patience 1, clock to 4, 1 change | `OwnDataOnly`, `BoundedStaleness`, `RefreshNearlyFresh` hold |
| `events_one` | 1 host, rounds of 2, 4 events, 2 resets, 1 break or restart, fairness | `NumbersGrow`, `InOrderOnce`, `NothingSkipped`, `StreamDelivers` hold |
| `kb_service` | 1 process, 2 domains with a source each, 4 documents, 1 row per answer of the index, 2 faults | uploads, publishes and searches of the service: `OnlyReadyIsFound`, `IndexFollows`, `FoundWithoutFaults` and the refinement of `ActiveVersion` hold |
| `kb_gap` | service and seed command, 1 source, 3 documents, no fault | can the seed command be rerun without a gap?  Not beside another publish: finding 3 |
| `decisions` | 3 intents, 3 rules, 3 chunks, 3 named indices, 2 retries | every message, every pair of rankings, every answer of the reranking model and of a provider: `TwoVoices`, `StickyBreaksTies`, `RerankLosesNothing`, `CitedIsPrefix`, `RetriesAreTransient`, `EveryJobEnds` hold |
| `chat_turn` | 2 turns of 1 session, contexts of 3 messages, 2 failing steps or restarts, fairness | `StatusTells`, `ContextIsDialogue`, `CardStory`, `StickyIsLatest`, `TurnEnds` hold |
| `follow_up` | 2 follow-ups by 1 of 3 employees, 2 threads of business-mock, 1 refresh asked for, any two of transfers, deletion, that refresh and faults (`MaxExtra`), fairness | `EventIsKnown`, `NewestWhenApart`, `MovesAreAudited`, `EveryEventSettles` hold |

Why the bounds are enough to meet the cases that matter:

- Two proposals of one customer are the least that can compete for the pending
  row and for the tags; two known keys the least that can be half written, an
  unknown third the least that can be refused.  One fault suffices for each
  crash window, since every window is a single stop; the theorems cover any
  number of proposals, keys and faults.
- Two sections are the least with an order; two tasks of one run are a start and
  a resume, whose checks and outcomes overlap.  Two faults are a restart of a
  restarted task, or one behind an operation that failed.  Runs that share a directory are in the theorems, which hold
  for any `Runs` and `DirOf`.
- Two calls are the least that overlap.  Staleness adds up over the call that
  stored and the call that reads, no third is involved.  The clock reaches
  the value at which `BoundedStaleness` would fail.
- Rounds of two with four events need two rounds; two resets leave a cursor from
  an older queue.
- Four documents are two versions of two sources, or two staging rows published
  together behind an archived one; an index that returns one row is the one that
  can hide a valid document behind an invalid one.
- Contexts of three messages are trimmed between a question and its answer by the
  second turn.  Two faults are a turn that breaks off and a restart.
- Two follow-ups are the least whose refreshes overlap, and two refreshes the least of
  which one stores what the other should not find; the one asked for reads what they
  kept.  `MinRecords` is 1, so that a single record already leads to a proposal;
  "checklist" is what a refresh asked for before the first comes to.  `MaxExtra` = 2
  has two threads race for one transfer, a failed refresh followed by a restart, and
  each pair of a fault, a transfer, the deletion and the refresh asked for.
- Scores 0, 60 and 100 of the sample library lie below, between and above the
  thresholds; the intents carry the thresholds of the catalog.  Chunks of lengths 2,
  3 and 6 with a budget of 5 make each budget the one that stops the injection.
  The reranking model names up to three indices, as many as there are hits, in and out
  of range and repeated; the theorem has lists of any length.

The type invariants are theorems (section 6) and are not run.

Fairness.  `hitl_keys`: weak fairness of the endpoint being served, since HTTP
time-outs bound each of its waits, and of each handler of business-mock, since a
Java thread that runs keeps running; none of the gateway, of the clocks, of an
employee or of a fault.  `run_single`: weak fairness of the request being served
and of the worker as long as it lives: a failed write of its own bookkeeping ends it
(no step of it is then enabled) and nothing but a restart starts another
(`app.py`).  `events_one`: weak fairness of
the two steps of an open stream, since the event loop runs its generator again.
`chat_turn`: weak fairness of each turn, since the event loop resumes a stream
whose client reads on.  `follow_up`: weak fairness of the threads of business-mock,
of the notifier's and of each refresh with the gateway's call for it, whose HTTP clients
have time-outs.  The notifier's has none of its own: that it goes on to the next event
needs an agent that answers, which it does as soon as its event loop is free, and a
refresh that keeps the loop ends.  `decisions`: weak fairness of the job the
event loop has begun; the time-outs of the model's client are per socket operation, so
that a provider who keeps sending bytes would have to stop in the end.

## 4. Hard properties

- `ConsumedIsCarriedOut`: once the voucher is consumed the list is written, though
  every caller may have given up; the one exception is a tag another handler of
  that customer inserted in between.
- `ShownIsWritten`: a merge may change what an employee saw (`card_shown`), but
  between the poll and the acknowledged write no refresh, edit, retry or crash makes
  a field of a profile's card disappear.
- `StatusIsTrue`: the status the API shows is put together from the task table,
  the pause file, the session and the host, which change one after the other.  It
  is true all the same; "waiting" is claimed without faults only, since after a
  restart a complete run may be shown as waiting.
- `CommittedIsOnDisk`: text, progress and log of a directory, written one after the
  other, agree after any stop or failed write; the one exception is a start between
  its first two writes (`torn`).
- `TasksEnd`: every task of the table ends, unless the worker's thread has been lost
  to a write of its own.
- `CancelSticks`: names the two windows in which the code loses a cancellation.
- `OwnDataOnly`: the gate is asked before the cache, so a former owner's entries
  never leak; `RefreshNearlyFresh` says how stale a refresh may be.
- `NumbersGrow`: with one host only an event that slips into an unlocked `reset`
  can tangle the numbers.  `InOrderOnce` holds for streams even then.
- `ImplementsActive`: seen by a reader a publish is one switch to newer documents,
  wherever the service stops or the index fails.  It needs that no second process
  publishes, as the code archives before it knows whether anything is staged
  (`kb_gap`).  `FoundWithoutFaults`: the filter behind the index
  and the fall-back together hide no published document of the domain asked for; a
  search in all domains asks one collection and may miss the documents of the others.
- `ContextIsDialogue`: trimming message by message, a question saved without its
  answer, expiry and a change of backend never put an answer behind the wrong
  question.
- `CardStory`: log, status and counter agree after any sequence of clicks.
- `StickyIsLatest`: the intent is set in the middle of a node whose later steps may
  raise; it never lags behind a turn that was classified and then broke off.
- `CitedIsPrefix`: the loop of `_inject` stops at the first hit that does not fit
  instead of trying the next, so that label and hit stay together.
- `EventIsKnown`: the drop of the kept list and the lookup behind it are two steps of a
  thread.  An older list that another call stores in between is the one way in which a
  refresh misses its follow-up, and that call may be one nobody waits for any more.
- `NewestWhenApart`: names the two ways in which an older value replaces a newer one:
  refreshes that overlap, and a refresh asked for that reads a kept list.
- `MovesAreAudited`: two transfers that read the same owner write two rows for one
  move; no move is without its row.
- `TwoVoices`: weights, bonus and thresholds together rule out that one classifier
  decides alone.

`PROJECT.json` lists every hazard of the code at its line with the properties
that would catch it, and a reason where none does.

## 5. Findings

Each is a run that ends with a counterexample.

1. `hitl_retry`: the voucher of a proposal has a fixed UNIQUE key, so after a
   write that failed the next confirmation is refused its voucher.  `README.md:89`
   says such a proposal can be retried.
2. `card_shown`: `create_or_merge` overwrites fields of a pending proposal, the
   confirm request carries only its identifier; what is written may never have
   been on the card.  Requirement E10 (`docs/SAGT-需求文档.md:453`) rules out
   silent overwriting.
3. `kb_gap`: `publish` looks at the number of rows it made ready after its commit.
   Of two seed runs one can publish the staging row of the other, whose own
   publish then archives everything and leaves the source empty.
   `kb/seed_data.py:176` promises retrieval without interruption.

What else the modelled code does, without a run of its own.

Against a text of the repository:

- A task whose section was committed before a restart is executed again and
  commits the next section without the pause (`registry.py:156`,
  `assets/prompts/coordinator.md:8`).
- A call that is still under way, also one whose refresh has given up, can store an
  older list between a refresh's drop and its lookup, and the extraction then goes
  without the follow-up that caused it (`tools.py:153`; `tools.py:150` wants the latest
  facts).
- A search without a domain ranks with the collection of the oldest ready document
  alone; while that has a valid row, a document of the other domain is not found by its
  vector, and no fault is needed for it (`pipeline.py:98`, `router.py:259`;
  `router.py:238` wants what was uploaded to be found at once).
- A start resets the queue and its numbers; a client that reconnects with its old
  cursor never gets the first events (`runtime.py:80`, requirement E7 at
  `docs/SAGT-需求文档.md:450`).
- The bonus for agreement is never given in the fall-back without a model
  (`fusion.py:124`, `:174`).
- Hits with a dense score between the lowest threshold and the hedging one are
  injected without the remark (`pipeline.py:19`).

Without one:

- A field merged between the read and the resolve of a confirmation ends in a
  confirmed row and is never written; a tag write that was given up may replace
  the tags of a newer confirmation; an instruction saved before a start is read by
  nothing.
- A start that ends between the new progress and the emptied log leaves a log of
  checkpoints whose sections are not done (`host.py:176`, `:179`).
- A write of the task table that fails in `claim_next_task` or behind a task ends the
  only worker thread; later tasks wait for the next restart (`worker.py:29`, `:44`).
- A document whose upsert failed cannot be found while the index answers with
  other valid rows (`kb/store.py:165`).
- The run of a client that left, or whose end could not be written, stays
  "running"; the intent kept for a session is
  lost at a restart; the backend of the context is fixed at start-up.
- The error of a tag review that was asked for is told as a result without changes,
  and the run is completed.
- A card is adopted without a check of the version the employee saw.  A regeneration
  takes the chunks of the version before out of the hits that were kept, so that a
  question with product documents may have none left.
- A turn that fails behind the commit of its card leaves a card its client never hears of.
- Of two refreshes that overlap the one that read less can end later, and one asked for
  can read a kept list; either puts an older value over a newer one (`router.py:430`).
- A follow-up that is inserted but cannot be read back gives no event (`Save` is the
  insertion and the reading back).
- A transfer writes its audit row also when its UPDATE changed nothing.
- The bonus of the last intent can turn a direct answer into "unknown" (the higher
  threshold of the intent it lifts).  Calls for embeddings are not in the ledger.

## 6. Proofs

All theorems hold for every value of the constants under the named assumptions of
the modules; the bounds are any numbers, so they bound nothing.

| module | theorems | argument |
|---|---|---|
| `HitlConfirm_proofs` | `TypeCorrect`, `OnePendingProposal`, `VoucherInvariant`, `AtMostOnce`, `ConfirmedMeansWritten`, `FinalStatusesAreFinal`, `ImplementsGate`, `CardIsWritePath`, `ShownMeansWritten` | `VoucherInv` is inductive together with `TypeOK`.  "Confirmed means written" alone is not: the step that confirms trusts the endpoint, which trusts the gateway, which trusts the handler, so each must be known to be right.  For the refinement every step is a grant (voucher issued), a clear, an apply, or a stutter; `VoucherInv` gives the guards of the abstract step.  `EmployeeCard` only restricts `HitlConfirm` (`CardIsWritePath`), so all of this holds there; `CardInv` adds that a pending profile's list only grows (`Grown`, for every method of the table) and what an endpoint carries includes its card |
| `RunService_proofs` | `TypeCorrect`, `PlanRefinement`, `CommitsOnDisk`, `CancelIsKept`, `OneTask`, `StatusTrue` | `IInv` = types, `WorkerInv` (what the worker holds of the section it works on agrees with progress) and `PlanInv` (sections 1..n are done); `DiskInv` adds what is on disk between the three writes of a commit and the two of a start (`torn`).  `TableInv` counts the tasks: only the one the worker has just ended is unsaved, so a restart brings back at most that one.  `FirstInv`: a run that starts executes its first task, so no earlier one of it can have left its host completed.  `HostInv` says when a host may call itself running, `WaitInv` that a pending pause is behind a committed section and that a run that starts has none |
| `GatewayCache_proofs` | `TypeCorrect`, `OwnData`, `Staleness`, `Refresh` | `IInv` adds per call: it is within its patience, entitled once past the gate, and how old what it holds may be; per key: no entry outlives its data by more than a lifetime and a call |
| `KnowledgePublish_proofs` | `TypeCorrect`, `NothingIsRevived`, `FindsOnlyReady`, `IndexIsSynchronised`, `PublishedIsFound`, `PublishIsAtomic` | for any processes on one database (`Versions`: a row's number never exceeds its place in the table): a publish revives no archived version and a search returns ready documents only.  The rest needs the service alone (`Procs = {Service}`) and the invariant `AloneInv`: the ready document of a source is older than its staging ones, which makes every switch a step of `ActiveVersion`, and what an operation has still to bring to the index or to remove is exactly what separates the rows from the ready documents.  With a second process the refinement is false (`kb_gap`) |
| `ChatTurn_proofs` | `TypeCorrect`, `RunTells`, `DialogueKept`, `LatestSticks`, `StoryTold` | a turn's place determines its run (`Courses`); a context is a dialogue of turns the graph has run, so that a new question is newer than all of it; trimming keeps a dialogue one; a turn that breaks off behind its classification is the latest all the same |
| `FollowUpRefresh_proofs` | `TypeCorrect`, `EventKnown`, `NewestProposed`, `MovesAudited` | an event is submitted after its row (`Filed`), so what is fetched for it has the row; unless `raced`, the same is true of every list it can still find kept or that another call is about to store (`Fresh`), so of what it gets.  While refreshes do not overlap and none reads a kept list, what a running one has read or is about to store is at least what any proposal rests on (`Alone`); per move, audit rows and requests about to write one are counted together |
| `EventQueue_proofs` | `TypeCorrect`, `NothingTwice`, `NothingLost`, `NumbersAlwaysGrow` | for a directory with one host (`NumbersAlwaysGrow`) the host's next number is ahead of the file, unless an event slipped between the last steps of a reset.  The others hold for any number of hosts by `ClientInv`: the client's events are ascending and older than what is still to be appended and, while the numbers grow and the cursor belongs to the queue on disk, every line up to the cursor is among them.  A page behind a cursor is read line by line; that it has every line of a greater number once and in order is shown for the least line that would break it |
| `Decisions_proofs` | `JobsAreJobs`, `TwoVoicesSpeak`, `StickyOnlyBreaksTies`, `RerankKeepsTheHits`, `CitationsAreTheFirstHits`, `RetriesTransient` | `JobOK` says what a job is: the result of one of the computations for some input, or a request that may be repeated.  Two voices: without the model the scores of an intent add up to 4500 at most, with the model and the context alone to 6500, below 7000.  Last intent: without its bonus the winner is another one only if the bonus lifted it, and then by no more.  Reordering: the positions named first and the rest form a bijection.  Citations: the sums of the parts are numbers, and after each round of the loop the hits cited are the first ones, what they need is what was counted, and a loop that has stopped had met a hit that did not fit (the first round of which this fails would follow from the one before) |

`NothingIsRevived` is a property that no run lists: it follows in `kb_service` from
`ImplementsActive`.  `LatestSticks` backs the input `sticky` of `Decisions`.

A sort is an ordered enumeration that is chosen; that there is one, that every sum
along a sequence exists and that a recursive function of a sequence has a value is
shown with the least counterexample (`Least`), as the induction rules of the library
cannot be used.  That is induction over one number, enough for one property of one
function at a time.

What the theorems assume of the constants, and why the code gives it:
`CatalogAssumption` (thresholds are numbers, every rule names an intent of the catalog:
`rule.py:11` and the seeded catalog of `schema.py:214`, from which nothing is ever
deleted), `FollowUpAssumption` (`MIN_RECORDS` of `profile/subgraph.py` is 3; it must not
be 0, as nothing would be said of no records), `BudgetAssumption` (the limits of `pipeline.py:26` are numbers),
`DecisionsAssumption` (scores and confidences are clipped to 0..1 in `embedding.py:68`
and `llm.py:59`; a chunk has a length).

Only model-checked: liveness (`EndpointReturns`, `ConsumedIsCarriedOut`,
`TasksEnd`, `StreamDelivers`, `TurnEnds`, `EveryEventSettles`, `EveryJobEnds`), which
with ENABLED is out of the prover's reach; the counterexamples.  Every invariant and
action property of a passing run is a theorem.

## 7. Not modelled

- **project service**: single endpoints that write one file; what a run takes from
  it, the number of sections, is an input of `RunService`.
- **authentication**: checks of a signed token, without state.
- **gateway audit**: one INSERT per call, never read back by the program.
- **configuration and assembly**, **evaluation**, **front-end pages** but for the
  confirmation card, **seed data generator**: start-up, batch or display code.

Within the modelled components: wording, prompts, the splitting of documents, the
extraction rules and the choice of tags are functions of their inputs; what the spans of the
trace record is a log; `search_customers` only filters; creating and updating a customer's
master data and recording a purchase are single statements; the revision flow,
`switch_model` and `expire_pending` have no caller.  The comparison of floats at
the very threshold is replaced by one of integers.

## 8. Plan

Done, in this order: write path, runs, read path, event queue; then knowledge base,
chat turn and cards, follow-up and transfer, the pure functions; proofs of all of
them, ending with the event queue's client and with `Decisions`.  What would add most
next:

1. The composition of `FollowUpRefresh` with `ProposalStore`, so that a refresh that
   overlaps a confirmation is in one model.
2. `FoundWithoutFaults` for documents of several chunks.

## 9. Running

In this directory: `tlc -workers 2 -config hitl_small.cfg MCHitlConfirm` checks a
run, `tlapm HitlConfirm_proofs.tla` the proofs of a module.
