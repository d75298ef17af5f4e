----------------------------- MODULE EventQueue -----------------------------
(***************************************************************************)
(* The event queue of a project directory (meta/runtime/queue.jsonl) and   *)
(* one client that follows a run by its event stream or its event pages.   *)
(*                                                                         *)
(* The worker thread and the event loop append through the RuntimeStore of *)
(* a run's host, under the lock of that host; two runs of one project have *)
(* two hosts and no common lock.  RuntimeStore.reset takes no lock at all. *)
(* The client reconnects with the last number it has seen.                 *)
(*                                                                         *)
(* "id" (the order in which events were appended), "era" (how often the    *)
(* queue was reset), "tangled" and "slipped" are not in the code.          *)
(***************************************************************************)
EXTENDS Naturals, Sequences, SequencesExt, FiniteSets

CONSTANTS
    Hosts,      \* the hosts of the runs that share the directory
    Limit,      \* events per request: 200 of the stream, "limit" of a page
    MaxEvents,  \* bound: events appended
    MaxEras,    \* bound: resets of the queue
    MaxBreaks   \* bound: connections lost, restarts included

ASSUME HostsAssumption == IsFiniteSet(Hosts) /\ Hosts # {}
ASSUME LimitAssumption == Limit \in Nat \ {0}
ASSUME BoundsAssumption == MaxEvents \in Nat /\ MaxEras \in Nat /\ MaxBreaks \in Nat

VARIABLES
    queue,      \* queue.jsonl
    store,      \* host -> RuntimeStore._seq_loaded, _next_seq
    lifecycle,  \* host -> Host.lifecycle
    override,   \* host -> does state_override say failed or canceled?
    task,       \* host -> the task of its run: waiting, taken by the worker, or done
    worker,     \* what the worker thread does, and for which host
    client,     \* the client and its connection
    appended,   \* events appended so far
    era,        \* resets so far
    tangled,    \* has a number been given that is not above the last one?
    slipped,    \* has an event been appended between the last steps of a reset?
    breaks      \* connections lost so far

hostVars == <<lifecycle, override, task>>
ghosts == <<appended, tangled, slipped>>
vars == <<queue, store, lifecycle, override, task, worker, client, appended, era,
          tangled, slipped, breaks>>

NoStore == [loaded |-> "no", next |-> 0]
Idle == [at |-> "idle", host |-> CHOOSE h \in Hosts : TRUE]

Init ==
    /\ queue = <<>>
    /\ store = [h \in Hosts |-> NoStore]
    /\ lifecycle = [h \in Hosts |-> "idle"]
    /\ override = [h \in Hosts |-> "no"]
    /\ task = [h \in Hosts |-> "start"]
    /\ worker = Idle
    /\ \E h \in Hosts, kind \in {"stream", "page"} :
         client = [at |-> "away", kind |-> kind, host |-> h, cursor |-> 0,
                   era |-> 0, got |-> <<>>]
    /\ appended = 0
    /\ era = 0
    /\ tangled = "no"
    /\ slipped = "no"
    /\ breaks = 0

-----------------------------------------------------------------------------
(* RuntimeStore                                                            *)

LastSeq(q) == IF q = <<>> THEN 0 ELSE Last(q).seq

\* Mutant: after a restart the numbers start from one again.
LoadNothing(s) == s.next

\* _ensure_seq_loaded_locked: the last number in the file is read once, then counted.
Loaded(s) == IF s.loaded = "yes" THEN s.next ELSE LastSeq(queue)

\* append_queue, from the worker (the pipeline) or from the event loop (steer, abort).
AppendQueue(h) ==
    LET seq == Loaded(store[h]) + 1 IN
    /\ appended < MaxEvents
    /\ store' = [store EXCEPT ![h] = [loaded |-> "yes", next |-> seq]]
    /\ queue' = Append(queue, [seq |-> seq, id |-> appended + 1])
    /\ appended' = appended + 1
    /\ tangled' = IF seq > LastSeq(queue) THEN tangled ELSE "yes"
    /\ slipped' = IF worker.at = "zero" /\ worker.host = h THEN "yes" ELSE slipped

\* Mutant: the event of the last request is sent again.
ItemsFrom(cursor) == SelectSeq(queue, LAMBDA item : item.seq >= cursor)

\* Mutant: without a cursor there is nothing to continue.
ItemsOfCursor(cursor) ==
    SelectSeq(queue, LAMBDA item : cursor > 0 /\ item.seq > cursor)

\* load_queue_after, line by line: a function rather than SelectSeq, which the proofs
\* could not unfold.
ItemsAfter(cursor) ==
    LET after[n \in 0..Len(queue)] ==
          IF n = 0 THEN <<>>
          ELSE IF queue[n].seq > cursor THEN Append(after[n - 1], queue[n]) ELSE after[n - 1]
    IN  after[Len(queue)]

-----------------------------------------------------------------------------
(* The worker: Host.start_prepared, resume and _mark_idle_or_complete      *)

WorkerAt(step, h) == worker = [at |-> step, host |-> h]

\* reset, first step: the file is gone.
ResetUnlink(h) ==
    /\ worker = Idle
    /\ task[h] = "start" /\ lifecycle[h] # "running"
    /\ era < MaxEras
    /\ task' = [task EXCEPT ![h] = "starting"]
    /\ queue' = <<>>
    /\ era' = era + 1
    /\ worker' = [at |-> "unload", host |-> h]
    /\ UNCHANGED <<store, lifecycle, override, client, ghosts, breaks>>

\* reset, then: _seq_loaded = False ...
ResetUnload(h) ==
    /\ WorkerAt("unload", h)
    /\ store' = [store EXCEPT ![h].loaded = "no"]
    /\ worker' = [at |-> "zero", host |-> h]
    /\ UNCHANGED <<queue, hostVars, client, ghosts, era, breaks>>

\* ... and _next_seq = 0.  An event appended in between is numbered, and forgotten.
ResetZero(h) ==
    /\ WorkerAt("zero", h)
    /\ store' = [store EXCEPT ![h].next = 0]
    /\ worker' = [at |-> "begin", host |-> h]
    /\ UNCHANGED <<queue, hostVars, client, ghosts, era, breaks>>

Begin(h) ==
    /\ WorkerAt("begin", h)
    /\ lifecycle' = [lifecycle EXCEPT ![h] = "running"]
    /\ worker' = [at |-> "run", host |-> h]
    /\ UNCHANGED <<queue, store, override, task, client, ghosts, era, breaks>>

\* A resume task: the queue goes on where it is.
Resume(h) ==
    /\ worker = Idle
    /\ task[h] = "resume" /\ lifecycle[h] # "running"
    /\ task' = [task EXCEPT ![h] = "resuming"]
    /\ lifecycle' = [lifecycle EXCEPT ![h] = "running"]
    /\ worker' = [at |-> "run", host |-> h]
    /\ UNCHANGED <<queue, store, override, client, ghosts, era, breaks>>

\* Nothing is left to resume, or the host is still called running after a failure.
NoResume(h) ==
    /\ worker = Idle
    /\ task[h] = "resume"
    /\ task' = [task EXCEPT ![h] = "done"]
    /\ override' = IF lifecycle[h] = "running" THEN [override EXCEPT ![h] = "yes"] ELSE override
    /\ UNCHANGED <<queue, store, lifecycle, worker, client, ghosts, era, breaks>>

Emit(h) ==
    /\ WorkerAt("run", h)
    /\ AppendQueue(h)
    /\ UNCHANGED <<hostVars, worker, client, era, breaks>>

\* The lifecycle is set before the event that announces it.
Mark(h) ==
    /\ WorkerAt("run", h)
    /\ \E end \in {"completed", "paused", "idle"} :
         lifecycle' = [lifecycle EXCEPT ![h] = end]
    /\ worker' = [at |-> "announce", host |-> h]
    /\ UNCHANGED <<queue, store, override, task, client, ghosts, era, breaks>>

Announce(h) ==
    /\ WorkerAt("announce", h)
    /\ AppendQueue(h)
    /\ task' = [task EXCEPT ![h] = "done"]
    /\ worker' = Idle
    /\ UNCHANGED <<lifecycle, override, client, era, breaks>>

\* WorkerManager._execute catches whatever a step raised; lifecycle stays as it is.
Fail(h) ==
    /\ worker.host = h /\ worker # Idle
    /\ override' = [override EXCEPT ![h] = "yes"]
    /\ task' = [task EXCEPT ![h] = "done"]
    /\ worker' = Idle
    /\ UNCHANGED <<queue, store, lifecycle, client, ghosts, era, breaks>>

-----------------------------------------------------------------------------
(* Requests about a run: instructions, pause, cancel, resume               *)

Steer(h) ==
    /\ AppendQueue(h)
    /\ UNCHANGED <<hostVars, worker, client, era, breaks>>

Abort(h) ==
    /\ lifecycle[h] = "running"
    /\ lifecycle' = [lifecycle EXCEPT ![h] = "paused"]
    /\ AppendQueue(h)
    /\ UNCHANGED <<task, worker, client, era, breaks>>

PauseRun(h) == Abort(h) /\ UNCHANGED override

CancelRun(h) ==
    /\ override' = [override EXCEPT ![h] = "yes"]
    /\ \/ Abort(h)
       \/ /\ lifecycle[h] # "running"
          /\ UNCHANGED <<queue, store, lifecycle, task, worker, client, ghosts, era, breaks>>

ResumeRun(h) ==
    /\ task[h] = "done"
    /\ task' = [task EXCEPT ![h] = "resume"]
    /\ override' = [override EXCEPT ![h] = "no"]
    /\ UNCHANGED <<queue, store, lifecycle, worker, client, ghosts, era, breaks>>

-----------------------------------------------------------------------------
(* The client: stream_events and get_events, for the run of client.host    *)

ClientAt(step, kind) == client.at = step /\ client.kind = kind

\* The client takes the first n of the events it was sent.
Take(items, n, cursor) ==
    [client EXCEPT !.got = @ \o [i \in 1..n |-> items[i].id],
                   !.cursor = cursor,
                   !.era = IF client.cursor = 0 THEN era ELSE @]

\* Mutant: a cut answer moves the client past what was cut off.
StreamCursorAtEnd(items, n) == IF n = 0 THEN client.cursor ELSE LastSeq(queue)

\* The stream remembers the highest number it has sent.
StreamCursor(items, n) ==
    IF n = 0 THEN client.cursor
    ELSE CHOOSE top \in {client.cursor} \cup {items[i].seq : i \in 1..n} :
           /\ top >= client.cursor
           /\ \A i \in 1..n : top >= items[i].seq

\* A page names the number of its last event.
PageCursor(items) == IF items = <<>> THEN client.cursor ELSE Last(items).seq

Connect ==
    /\ ClientAt("away", "stream")
    /\ client' = [client EXCEPT !.at = "open"]
    /\ UNCHANGED <<queue, store, hostVars, worker, ghosts, era, breaks>>

Batch ==
    LET items == ItemsAfter(client.cursor)
    IN  SubSeq(items, 1, IF Len(items) < Limit THEN Len(items) ELSE Limit)

\* One round of the stream: everything that was read is sent, then lifecycle is read.
Stream ==
    /\ ClientAt("open", "stream")
    /\ LET n == Len(Batch) IN
         client' = [Take(Batch, n, StreamCursor(Batch, n)) EXCEPT !.at = "sent"]
    /\ UNCHANGED <<queue, store, hostVars, worker, ghosts, era, breaks>>

Ended(h) == lifecycle[h] \in {"completed", "paused"} \/ override[h] = "yes"

StreamOn ==
    /\ ClientAt("sent", "stream")
    /\ client' = [client EXCEPT !.at = IF Ended(client.host) THEN "away" ELSE "open"]
    /\ UNCHANGED <<queue, store, hostVars, worker, ghosts, era, breaks>>

\* The connection breaks, in the middle of a round or between two.
Break ==
    /\ breaks < MaxBreaks
    /\ client.kind = "stream" /\ client.at # "away"
    /\ \E n \in IF client.at = "open" THEN 0..Len(Batch) ELSE {0} :
         client' = [Take(Batch, n, StreamCursor(Batch, n)) EXCEPT !.at = "away"]
    /\ breaks' = breaks + 1
    /\ UNCHANGED <<queue, store, hostVars, worker, ghosts, era>>

Page ==
    /\ ClientAt("away", "page")
    /\ client' = Take(Batch, Len(Batch), PageCursor(Batch))
    /\ UNCHANGED <<queue, store, hostVars, worker, ghosts, era, breaks>>

Requeued(t) == CASE t = "starting" -> "start" [] t = "resuming" -> "resume" [] OTHER -> t

\* The process stops and starts again: a task that was taken is queued again.
Restart ==
    /\ breaks < MaxBreaks
    /\ store' = [h \in Hosts |-> NoStore]
    /\ lifecycle' = [h \in Hosts |-> "idle"]
    /\ task' = [h \in Hosts |-> Requeued(task[h])]
    /\ worker' = Idle
    /\ client' = [client EXCEPT !.at = "away"]
    /\ breaks' = breaks + 1
    /\ UNCHANGED <<queue, override, ghosts, era>>

HostStep(h) ==
    \/ ResetUnlink(h)
    \/ ResetUnload(h)
    \/ ResetZero(h)
    \/ Begin(h)
    \/ Resume(h)
    \/ NoResume(h)
    \/ Emit(h)
    \/ Mark(h)
    \/ Announce(h)
    \/ Fail(h)
    \/ Steer(h)
    \/ PauseRun(h)
    \/ CancelRun(h)
    \/ ResumeRun(h)

Next ==
    \/ \E h \in Hosts : HostStep(h)
    \/ Connect
    \/ Stream
    \/ StreamOn
    \/ Break
    \/ Page
    \/ Restart

\* The event loop runs a connection's generator again and again.
Spec == Init /\ [][Next]_vars /\ WF_vars(Stream) /\ WF_vars(StreamOn)

-----------------------------------------------------------------------------
Item == [seq : Nat, id : 1..MaxEvents]
Store == [loaded : {"yes", "no"}, next : Nat]
Worker == [at : {"idle", "unload", "zero", "begin", "run", "announce"}, host : Hosts]
Client == [at : {"away", "open", "sent"}, kind : {"stream", "page"}, host : Hosts,
           cursor : Nat, era : 0..MaxEras, got : Seq(1..MaxEvents)]

\* Every variable has the type the code gives it.
TypeOK ==
    /\ queue \in Seq(Item)
    /\ store \in [Hosts -> Store]
    /\ lifecycle \in [Hosts -> {"idle", "running", "completed", "paused"}]
    /\ override \in [Hosts -> {"yes", "no"}]
    /\ task \in [Hosts -> {"start", "starting", "resume", "resuming", "done"}]
    /\ worker \in Worker
    /\ client \in Client
    /\ appended \in 0..MaxEvents /\ era \in 0..MaxEras /\ breaks \in 0..MaxBreaks
    /\ tangled \in {"yes", "no"} /\ slipped \in {"yes", "no"}

\* With one host the numbers of the queue grow, also across restarts and with requests and
\* the worker appending at once; only an event that slips into a reset can tangle them.
NumbersGrow ==
    Cardinality(Hosts) = 1 /\ tangled = "yes" => slipped = "yes"

\* However often the connection breaks and the queue is reset, a client gets no event twice
\* and none before an earlier one; pages promise that only while the numbers grow.
InOrderOnce ==
    client.kind = "stream" \/ tangled = "no" =>
        \A i, j \in DOMAIN client.got : i < j => client.got[i] < client.got[j]

\* A cursor from before a reset.
StaleCursor == client.cursor > 0 /\ client.era # era

Got(item) == \E i \in DOMAIN client.got : client.got[i] = item.id

\* A client whose cursor belongs to this queue has got every event up to its cursor.
NothingSkipped ==
    tangled = "no" /\ ~StaleCursor =>
        \A i \in DOMAIN queue : queue[i].seq <= client.cursor => Got(queue[i])

\* An open stream sends every event of the queue, or it is closed.
StreamDelivers ==
    \A id \in 1..MaxEvents :
        (client.at = "open" /\ \E i \in DOMAIN queue : queue[i].id = id) ~>
            \/ \E i \in DOMAIN client.got : client.got[i] = id
            \/ client.at = "away" \/ StaleCursor \/ tangled = "yes"
            \/ \A i \in DOMAIN queue : queue[i].id # id
=============================================================================
