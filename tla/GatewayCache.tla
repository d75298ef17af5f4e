---------------------------- MODULE GatewayCache ----------------------------
(***************************************************************************)
(* The read path of the tool gateway (mcp-server): ownership gate, cache   *)
(* lookup, request to business-mock, cache store.  A call runs in a thread *)
(* of FastAPI's pool; the cache is a dict without a lock, so calls         *)
(* interleave between any two of those steps.                              *)
(*                                                                         *)
(* Two facts are not in the code: data carries the moment it was read from *)
(* business-mock ("read"), and a call remembers whether its employee was   *)
(* entitled to the customer at some moment since it began ("entitled") and *)
(* which version of the facts was current when a refresh began ("floor").  *)
(***************************************************************************)
EXTENDS Naturals

CONSTANTS
    Calls,        \* threads of the pool that may serve a read at once
    Employees,
    Managers,     \* employees who see every customer
    Customers,
    Deleted,      \* the "owner" of a soft-deleted customer
    Tools,        \* the read tools that have a TTL
    TTL,          \* lifetime of an entry of a tool's cache
    Patience,     \* bound: how long one call may take
    MaxChanges,   \* bound: changes of one tool's facts of one customer
    MaxNow        \* bound: the clock

ASSUME PeopleAssumption == Managers \subseteq Employees /\ Deleted \notin Employees
ASSUME TimeAssumption ==
    TTL \in [Tools -> Nat \ {0}] /\ Patience \in Nat /\ MaxChanges \in Nat /\ MaxNow \in Nat

VARIABLES
    owner,   \* business-mock: customer -> its owner, or Deleted
    facts,   \* business-mock: tool, customer -> version of what the tool reads
    now,     \* time.monotonic()
    cache,   \* ToolGateway._cache
    call     \* the calls in progress
vars == <<owner, facts, now, cache, call>>

Key == [who : Employees, tool : Tools, customer : Customers]
Data == [version : Nat, read : Nat]
NoData == [version |-> 0, read |-> 0]
NoEntry == [expires |-> 0, data |-> NoData]
Steps == {"idle", "gate", "drop", "lookup", "fetch", "store", "answered"}

\* A free thread; nothing of its last call but the key is kept, and nobody reads that.
Idle(key) == [at |-> "idle", key |-> key, noCache |-> "no", since |-> 0,
              floor |-> 0, entitled |-> "no", data |-> NoData]

\* CustomerService.requireOwned: employees see their own customers, managers all.
Visible(e, k) == owner[k] # Deleted /\ (e \in Managers \/ owner[k] = e)

Init ==
    /\ owner \in [Customers -> Employees]
    /\ facts = [f \in Tools \X Customers |-> 0]
    /\ now = 0
    /\ cache = [key \in Key |-> NoEntry]
    /\ \E key \in Key : call = [c \in Calls |-> Idle(key)]

At(c, step) == call[c].at = step
Goto(c, step) == call' = [call EXCEPT ![c].at = step]
Release(c) == call' = [call EXCEPT ![c] = Idle(call[c].key)]
Answer(c, data) == call' = [call EXCEPT ![c].at = "answered", ![c].data = data]

-----------------------------------------------------------------------------
(* business-mock: facts change, customers change hands or are deleted      *)

Change(t, k) ==
    /\ facts[<<t, k>>] < MaxChanges
    /\ facts' = [facts EXCEPT ![<<t, k>>] = @ + 1]
    /\ UNCHANGED <<owner, now, cache, call>>

\* The calls of the new owner become legitimate while they are under way.
Transfer(k, e) ==
    /\ owner[k] # Deleted
    /\ owner' = [owner EXCEPT ![k] = e]
    /\ call' = [c \in Calls |->
                  IF ~At(c, "idle") /\ call[c].key.customer = k /\ call[c].key.who = e
                  THEN [call[c] EXCEPT !.entitled = "yes"] ELSE call[c]]
    /\ UNCHANGED <<facts, now, cache>>

SoftDelete(k) ==
    /\ owner' = [owner EXCEPT ![k] = Deleted]
    /\ UNCHANGED <<facts, now, cache, call>>

-----------------------------------------------------------------------------
(* ToolGateway._call_readonly, a thread of the pool                        *)

Start(c, key, noCache) ==
    /\ At(c, "idle")
    /\ call' = [call EXCEPT ![c] =
                  [at |-> "gate", key |-> key, noCache |-> noCache, since |-> now,
                   floor |-> IF noCache = "yes" THEN facts[<<key.tool, key.customer>>] ELSE 0,
                   entitled |-> IF Visible(key.who, key.customer) THEN "yes" ELSE "no",
                   data |-> NoData]]
    /\ UNCHANGED <<owner, facts, now, cache>>

\* Mutant: a cached answer is given without asking business-mock.
GateUnlessCached(c) ==
    /\ At(c, "gate")
    /\ Visible(call[c].key.who, call[c].key.customer) \/ cache[call[c].key].expires > now
    /\ Goto(c, IF call[c].noCache = "yes" THEN "drop" ELSE "lookup")
    /\ UNCHANGED <<owner, facts, now, cache>>

\* The gate asks business-mock on every call, also when the answer is cached.
Gate(c) ==
    /\ At(c, "gate")
    /\ Visible(call[c].key.who, call[c].key.customer)
    /\ Goto(c, IF call[c].noCache = "yes" THEN "drop" ELSE "lookup")
    /\ UNCHANGED <<owner, facts, now, cache>>

\* Mutant: no_cache leaves the entry where it is.
DropNothing(c) ==
    /\ At(c, "drop")
    /\ Goto(c, "lookup")
    /\ UNCHANGED <<owner, facts, now, cache>>

DropEntry(c) ==
    /\ At(c, "drop")
    /\ cache' = [cache EXCEPT ![call[c].key] = NoEntry]
    /\ Goto(c, "lookup")
    /\ UNCHANGED <<owner, facts, now>>

\* Mutant: an entry is used as long as it is there.
LiveWhilePresent(entry) == entry.expires > 0

Live(entry) == entry.expires > now

Hit(c) ==
    /\ At(c, "lookup")
    /\ Live(cache[call[c].key])
    /\ Answer(c, cache[call[c].key].data)
    /\ UNCHANGED <<owner, facts, now, cache>>

Miss(c) ==
    /\ At(c, "lookup")
    /\ ~Live(cache[call[c].key])
    /\ Goto(c, "fetch")
    /\ UNCHANGED <<owner, facts, now, cache>>

\* business-mock checks the ownership again before it answers.
Fetch(c) ==
    LET key == call[c].key IN
    /\ At(c, "fetch")
    /\ Visible(key.who, key.customer)
    /\ call' = [call EXCEPT ![c].at = "store",
                            ![c].data = [version |-> facts[<<key.tool, key.customer>>], read |-> now]]
    /\ UNCHANGED <<owner, facts, now, cache>>

\* The lifetime is counted from the store, not from the moment the data was read.
Store(c) ==
    LET key == call[c].key IN
    /\ At(c, "store")
    /\ cache' = [cache EXCEPT ![key] = [expires |-> now + TTL[key.tool], data |-> call[c].data]]
    /\ Answer(c, call[c].data)
    /\ UNCHANGED <<owner, facts, now>>

\* 403, 404, a time-out or an error of business-mock ends the call.
Refused(c) ==
    /\ call[c].at \in {"gate", "fetch"}
    /\ Release(c)
    /\ UNCHANGED <<owner, facts, now, cache>>

Finish(c) ==
    /\ At(c, "answered")
    /\ Release(c)
    /\ UNCHANGED <<owner, facts, now, cache>>

\* A restart of the gateway: the cache and the calls in progress are gone.
Restart ==
    /\ cache' = [key \in Key |-> NoEntry]
    /\ call' = [c \in Calls |-> Idle(call[c].key)]
    /\ UNCHANGED <<owner, facts, now>>

\* Time passes, but no call takes longer than Patience.
Tick ==
    /\ now < MaxNow
    /\ \A c \in Calls : ~At(c, "idle") => now < call[c].since + Patience
    /\ now' = now + 1
    /\ UNCHANGED <<owner, facts, cache, call>>

Business ==
    \/ \E t \in Tools, k \in Customers : Change(t, k)
    \/ \E k \in Customers, e \in Employees : Transfer(k, e)
    \/ \E k \in Customers : SoftDelete(k)

Readonly(c) ==
    \/ \E key \in Key, noCache \in {"yes", "no"} : Start(c, key, noCache)
    \/ Gate(c)
    \/ DropEntry(c)
    \/ Hit(c)
    \/ Miss(c)
    \/ Fetch(c)
    \/ Store(c)
    \/ Refused(c)
    \/ Finish(c)

Next == Business \/ (\E c \in Calls : Readonly(c)) \/ Restart \/ Tick

Spec == Init /\ [][Next]_vars

-----------------------------------------------------------------------------
Call == [at : Steps, key : Key, noCache : {"yes", "no"}, since : Nat, floor : Nat,
         entitled : {"yes", "no"}, data : Data]

\* Every variable has the type the code gives it; an entry is never without its data.
TypeOK ==
    /\ owner \in [Customers -> Employees \cup {Deleted}]
    /\ facts \in [Tools \X Customers -> Nat]
    /\ now \in Nat
    /\ cache \in [Key -> [expires : Nat, data : Data]]
    /\ call \in [Calls -> Call]

\* No employee gets data, cached or not, of a customer who was not theirs at any moment
\* since the call began: not after a transfer, and not after a deletion.
OwnDataOnly ==
    \A c \in Calls : At(c, "answered") => call[c].entitled = "yes"

\* Whatever stores and lookups overlap, an answer is younger than the lifetime of its
\* tool's entries plus the time of two calls: the one that stored it and this one.
BoundedStaleness ==
    \A c \in Calls : At(c, "answered") =>
        now < call[c].data.read + TTL[call[c].key.tool] + 2 * Patience

\* A refresh (no_cache) may hit an entry that another call stored after the drop, but
\* never one from before: its answer was read at most the time of one call before it began.
RefreshNearlyFresh ==
    \A c \in Calls : At(c, "answered") /\ call[c].noCache = "yes" =>
        call[c].since <= call[c].data.read + Patience

=============================================================================
