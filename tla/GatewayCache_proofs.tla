------------------------- MODULE GatewayCache_proofs -------------------------
(***************************************************************************)
(* Theorems about GatewayCache, for any calls, people, customers, tools,   *)
(* lifetimes and bounds.                                                   *)
(***************************************************************************)
EXTENDS GatewayCache, TLAPS

PastGate == {"drop", "lookup", "fetch", "store", "answered"}

\* A call lasts no longer than Patience.
InTime(d) ==
    /\ call[d].since <= now
    /\ call[d].at # "idle" => now <= call[d].since + Patience

\* Who can see the customer now was entitled during the call, and so was whoever
\* passed the gate.
Entitled(d) ==
    /\ call[d].at # "idle" /\ Visible(call[d].key.who, call[d].key.customer) =>
         call[d].entitled = "yes"
    /\ call[d].at \in PastGate => call[d].entitled = "yes"

\* What a refresh may find after its drop was stored by a call that overlaps it.
Dropped(d) ==
    call[d].at = "lookup" /\ call[d].noCache = "yes" =>
      \/ cache[call[d].key].expires = 0
      \/ call[d].since <= cache[call[d].key].data.read + Patience

\* The age of what a call holds, measured from the moment it began.
Aged(d) ==
    /\ call[d].at = "store" => call[d].since <= call[d].data.read
    /\ call[d].at = "answered" =>
         call[d].since < call[d].data.read + TTL[call[d].key.tool] + Patience
    /\ call[d].at = "answered" /\ call[d].noCache = "yes" =>
         call[d].since <= call[d].data.read + Patience

\* No entry outlives the read of its data by more than its lifetime and one call.
Bounded(key) ==
    cache[key].expires <= cache[key].data.read + TTL[key.tool] + Patience

CallInv == \A d \in Calls : InTime(d) /\ Entitled(d) /\ Dropped(d) /\ Aged(d)
CacheInv == \A key \in Key : Bounded(key)

IInv == TypeOK /\ CallInv /\ CacheInv

-----------------------------------------------------------------------------
LEMMA InitIInv == Init => IInv
<1>. SUFFICES ASSUME Init PROVE IInv
  OBVIOUS
<1>1. TypeOK
  BY DEF Init, TypeOK, Idle, Call, Steps, NoEntry, NoData, Data
<1>2. CallInv
  BY TimeAssumption
  DEF Init, CallInv, InTime, Entitled, Dropped, Aged, Idle, PastGate
<1>3. CacheInv
  <2>. SUFFICES ASSUME NEW key \in Key PROVE Bounded(key)
    BY DEF CacheInv
  <2>1. TTL[key.tool] \in Nat /\ Patience \in Nat
    BY TimeAssumption DEF Key
  <2>2. cache[key] = NoEntry
    BY DEF Init
  <2>. QED  BY <2>1, <2>2 DEF Bounded, NoEntry, NoData
<1>. QED  BY <1>1, <1>2, <1>3 DEF IInv

\* The ways a call is changed keep its type.
LEMMA CallTypes ==
  ASSUME TypeOK, NEW c \in Calls
  PROVE  /\ \A step \in Steps : Goto(c, step) => call' \in [Calls -> Call]
         /\ \A data \in Data : Answer(c, data) => call' \in [Calls -> Call]
         /\ Release(c) => call' \in [Calls -> Call]
<1>1. call \in [Calls -> Call] /\ call[c] \in Call /\ call[c].key \in Key
  BY DEF TypeOK, Call
<1>2. ASSUME NEW step \in Steps, Goto(c, step) PROVE call' \in [Calls -> Call]
  <2>1. [call[c] EXCEPT !.at = step] \in Call
    BY <1>1 DEF Call
  <2>2. call' = [call EXCEPT ![c] = [call[c] EXCEPT !.at = step]]
    BY <1>2 DEF Goto
  <2>. QED  BY <1>1, <2>1, <2>2
<1>3. ASSUME NEW data \in Data, Answer(c, data) PROVE call' \in [Calls -> Call]
  <2>1. [call[c] EXCEPT !.at = "answered", !.data = data] \in Call
    BY <1>1 DEF Call, Steps
  <2>2. call' = [call EXCEPT ![c] = [call[c] EXCEPT !.at = "answered", !.data = data]]
    BY <1>1, <1>3 DEF Answer
  <2>. QED  BY <1>1, <2>1, <2>2
<1>4. Idle(call[c].key) \in Call
  BY <1>1 DEF Idle, Call, Steps, NoData, Data
<1>. QED  BY <1>1, <1>2, <1>3, <1>4 DEF Release

\* Types are kept by every action.
LEMMA TypeStep == TypeOK /\ [Next]_vars => TypeOK'
<1>. SUFFICES ASSUME TypeOK, [Next]_vars PROVE TypeOK'
  OBVIOUS
<1>. USE DEF TypeOK
<1>1. ASSUME NEW t \in Tools, NEW k \in Customers, Change(t, k) PROVE TypeOK'
  BY <1>1 DEF Change
<1>2. ASSUME NEW k \in Customers, NEW e \in Employees, Transfer(k, e) PROVE TypeOK'
  BY <1>2 DEF Transfer, Call
<1>3. ASSUME NEW k \in Customers, SoftDelete(k) PROVE TypeOK'
  BY <1>3 DEF SoftDelete
<1>4. ASSUME NEW c \in Calls, NEW key \in Key, NEW noCache \in {"yes", "no"},
             Start(c, key, noCache)
      PROVE  TypeOK'
  <2>1. facts[<<key.tool, key.customer>>] \in Nat
    BY DEF Key
  <2>. QED  BY <1>4, <2>1 DEF Start, Call, Steps, Data, NoData
<1>5. ASSUME NEW c \in Calls, Gate(c) PROVE TypeOK'
  BY <1>5, CallTypes DEF Gate, Steps
<1>6. ASSUME NEW c \in Calls, DropEntry(c) PROVE TypeOK'
  <2>1. call' \in [Calls -> Call]
    BY <1>6, CallTypes DEF DropEntry, Steps
  <2>2. NoEntry \in [expires : Nat, data : Data]
    BY DEF NoEntry, NoData, Data
  <2>. QED  BY <1>6, <2>1, <2>2 DEF DropEntry
<1>7. ASSUME NEW c \in Calls, Hit(c) PROVE TypeOK'
  <2>1. cache[call[c].key].data \in Data
    BY DEF Call
  <2>. QED  BY <1>7, <2>1, CallTypes DEF Hit
<1>8. ASSUME NEW c \in Calls, Miss(c) PROVE TypeOK'
  BY <1>8, CallTypes DEF Miss, Steps
<1>9. ASSUME NEW c \in Calls, Fetch(c) PROVE TypeOK'
  <2>1. facts[<<call[c].key.tool, call[c].key.customer>>] \in Nat
    BY DEF Call, Key
  <2>2. [version |-> facts[<<call[c].key.tool, call[c].key.customer>>], read |-> now] \in Data
    BY <2>1 DEF Data
  <2>3. \A data \in Data : [call[c] EXCEPT !.at = "store", !.data = data] \in Call
    BY DEF Call, Steps
  <2>4. PICK data \in Data :
          call' = [call EXCEPT ![c] = [call[c] EXCEPT !.at = "store", !.data = data]]
    BY <1>9, <2>2 DEF Fetch
  <2>. QED  BY <1>9, <2>3, <2>4 DEF Fetch
<1>10. ASSUME NEW c \in Calls, Store(c) PROVE TypeOK'
  <2>1. now + TTL[call[c].key.tool] \in Nat /\ call[c].data \in Data
    BY TimeAssumption DEF Call, Key
  <2>2. cache' \in [Key -> [expires : Nat, data : Data]]
    BY <1>10, <2>1 DEF Store, Call
  <2>. QED  BY <1>10, <2>1, <2>2, CallTypes DEF Store
<1>11. ASSUME NEW c \in Calls, Refused(c) \/ Finish(c) PROVE TypeOK'
  BY <1>11, CallTypes DEF Refused, Finish
<1>12. CASE Restart
  BY <1>12 DEF Restart, Idle, Call, Steps, NoEntry, NoData, Data
<1>13. CASE Tick
  BY <1>13 DEF Tick
<1>14. CASE UNCHANGED vars
  BY <1>14 DEF vars
<1>. QED
  BY <1>1, <1>2, <1>3, <1>4, <1>5, <1>6, <1>7, <1>8, <1>9, <1>10, <1>11, <1>12,
     <1>13, <1>14
  DEF Next, Business, Readonly

\* Numbers the steps below compare.
LEMMA Numbers ==
  ASSUME TypeOK, NEW d \in Calls
  PROVE  /\ call[d].since \in Nat /\ call[d].data.read \in Nat /\ call[d].key \in Key
         /\ now \in Nat /\ Patience \in Nat /\ TTL[call[d].key.tool] \in Nat
         /\ cache[call[d].key].expires \in Nat /\ cache[call[d].key].data.read \in Nat
         /\ TTL[call[d].key.tool] >= 1
<1>1. call[d] \in Call /\ call[d].key \in Key /\ call[d].key.tool \in Tools
  BY DEF TypeOK, Call, Key
<1>2. TTL[call[d].key.tool] \in Nat \ {0} /\ Patience \in Nat
  BY <1>1, TimeAssumption
<1>3. TTL[call[d].key.tool] \in Nat /\ TTL[call[d].key.tool] >= 1
  BY <1>2
<1>. QED  BY <1>1, <1>2, <1>3 DEF TypeOK, Call, Data

\* No entry outlives its bound.
LEMMA CacheStep == IInv /\ [Next]_vars => CacheInv'
<1>. SUFFICES ASSUME IInv, [Next]_vars, NEW key \in Key PROVE Bounded(key)'
  BY DEF CacheInv
<1>1. Bounded(key) /\ TypeOK /\ TTL[key.tool] \in Nat /\ Patience \in Nat
  BY TimeAssumption DEF IInv, CacheInv, Key
<1>2. CASE cache'[key] = cache[key]
  BY <1>1, <1>2 DEF Bounded
<1>3. CASE cache'[key] = NoEntry
  BY <1>1, <1>3 DEF Bounded, NoEntry, NoData
<1>4. ASSUME NEW c \in Calls, Store(c), call[c].key = key PROVE Bounded(key)'
  <2>1. cache'[key] = [expires |-> now + TTL[key.tool], data |-> call[c].data]
    BY <1>1, <1>4 DEF Store, TypeOK
  <2>2. now <= call[c].since + Patience /\ call[c].since <= call[c].data.read
    BY <1>4 DEF IInv, CallInv, InTime, Aged, Store, At
  <2>. QED  BY <1>1, <2>1, <2>2, Numbers DEF Bounded
<1>5. cache'[key] = cache[key] \/ cache'[key] = NoEntry
        \/ \E c \in Calls : Store(c) /\ call[c].key = key
  BY <1>1 DEF TypeOK, Next, vars, Business, Readonly, Change, Transfer, SoftDelete, Start,
         Gate, DropEntry, Hit, Miss, Fetch, Store, Refused, Finish, Restart, Tick
<1>. QED  BY <1>2, <1>3, <1>4, <1>5

\* A call that does not take part in a step keeps its invariant; the entry it is about
\* to look up may change, but not into an old one.
LEMMA Bystander ==
  ASSUME IInv, NEW d \in Calls, call'[d] = call[d], now' = now, owner' = owner,
         \/ cache'[call[d].key] = cache[call[d].key]
         \/ cache'[call[d].key] = NoEntry
         \/ \E c \in Calls : Store(c) /\ call[c].key = call[d].key
  PROVE  (InTime(d) /\ Entitled(d) /\ Dropped(d) /\ Aged(d))'
<1>. USE DEF IInv
<1>1. InTime(d) /\ Entitled(d) /\ Dropped(d) /\ Aged(d)
  BY DEF CallInv
<1>2. InTime(d)' /\ Entitled(d)' /\ Aged(d)'
  BY <1>1 DEF InTime, Entitled, Aged, Visible
<1>3. CASE cache'[call[d].key] = cache[call[d].key]
  BY <1>1, <1>2, <1>3 DEF Dropped
<1>4. CASE cache'[call[d].key] = NoEntry
  BY <1>2, <1>4 DEF Dropped, NoEntry
<1>5. ASSUME NEW c \in Calls, Store(c), call[c].key = call[d].key PROVE Dropped(d)'
  <2>1. cache'[call[d].key].data = call[c].data
    BY <1>5, Numbers DEF Store, TypeOK
  <2>2. call[c].since <= call[c].data.read /\ now <= call[c].since + Patience
    BY <1>5 DEF CallInv, InTime, Aged, Store, At
  <2>3. call[d].since <= now
    BY <1>1 DEF InTime
  <2>4. call[d].since <= call[c].data.read + Patience
    BY <2>2, <2>3, Numbers
  <2>. QED  BY <2>1, <2>4 DEF Dropped
<1>. QED  BY <1>2, <1>3, <1>4, <1>5

\* Every action keeps the invariant of every call.
LEMMA CallStep == IInv /\ [Next]_vars => CallInv'
<1>. SUFFICES ASSUME IInv, [Next]_vars, NEW d \in Calls
              PROVE  (InTime(d) /\ Entitled(d) /\ Dropped(d) /\ Aged(d))'
  BY DEF CallInv
<1>. DEFINE Fine == (InTime(d) /\ Entitled(d) /\ Dropped(d) /\ Aged(d))'
<1>a. TypeOK /\ InTime(d) /\ Entitled(d) /\ Dropped(d) /\ Aged(d)
  BY DEF IInv, CallInv
<1>b. /\ call \in [Calls -> Call] /\ call[d] \in Call
      /\ now \in Nat /\ Patience \in Nat /\ TTL[call[d].key.tool] \in Nat
      /\ call[d].since \in Nat
  BY <1>a, Numbers DEF TypeOK
<1>c. ASSUME NEW key \in Key, call'[d] = Idle(key), now' = now PROVE Fine
  BY <1>b, <1>c DEF Idle, InTime, Entitled, Dropped, Aged, PastGate
<1>1. ASSUME NEW t \in Tools, NEW k \in Customers, Change(t, k) PROVE Fine
  BY <1>1, Bystander DEF Change
<1>2. ASSUME NEW k \in Customers, NEW e \in Employees, Transfer(k, e) PROVE Fine
  <2>1. CASE call[d].at # "idle" /\ call[d].key.customer = k /\ call[d].key.who = e
    <3>1. call'[d] = [call[d] EXCEPT !.entitled = "yes"]
      BY <1>2, <2>1 DEF Transfer, At
    <3>2. /\ call'[d].entitled = "yes" /\ call'[d].at = call[d].at
          /\ call'[d].key = call[d].key /\ call'[d].since = call[d].since
          /\ call'[d].noCache = call[d].noCache /\ call'[d].data = call[d].data
      BY <1>b, <3>1 DEF Call
    <3>. QED
      BY <1>2, <1>a, <3>2 DEF Transfer, InTime, Entitled, Dropped, Aged
  <2>2. CASE ~(call[d].at # "idle" /\ call[d].key.customer = k /\ call[d].key.who = e)
    <3>1. call'[d] = call[d]
      BY <1>2, <2>2 DEF Transfer, At
    <3>2. /\ call[d].at # "idle" /\ Visible(call[d].key.who, call[d].key.customer)'
               => Visible(call[d].key.who, call[d].key.customer)
      BY <1>2, <1>a, <2>2 DEF Transfer, Visible, TypeOK
    <3>3. Entitled(d)'
      BY <1>a, <3>1, <3>2 DEF Entitled, Visible
    <3>. QED  BY <1>2, <1>a, <3>1, <3>3 DEF Transfer, InTime, Dropped, Aged
  <2>. QED  BY <2>1, <2>2
<1>3. ASSUME NEW k \in Customers, SoftDelete(k) PROVE Fine
  <2>1. Visible(call[d].key.who, call[d].key.customer)'
          => Visible(call[d].key.who, call[d].key.customer)
    BY <1>3, <1>a, PeopleAssumption DEF SoftDelete, Visible, TypeOK
  <2>2. Entitled(d)'
    BY <1>3, <1>a, <2>1 DEF SoftDelete, Entitled, Visible
  <2>. QED  BY <1>3, <1>a, <2>2 DEF SoftDelete, InTime, Dropped, Aged
<1>4. ASSUME NEW c \in Calls, c # d, Readonly(c) PROVE Fine
  <2>1. call'[d] = call[d] /\ now' = now /\ owner' = owner
    BY <1>4, <1>b
    DEF Readonly, Start, Gate, DropEntry, Hit, Miss, Fetch, Store, Refused, Finish,
        Goto, Answer, Release
  <2>2. \/ cache'[call[d].key] = cache[call[d].key]
        \/ cache'[call[d].key] = NoEntry
        \/ Store(c) /\ call[c].key = call[d].key
    BY <1>4, <1>a, Numbers
    DEF Readonly, Start, Gate, DropEntry, Hit, Miss, Fetch, Store, Refused, Finish, TypeOK
  <2>. QED  BY <2>1, <2>2, Bystander
<1>5. ASSUME NEW key \in Key, NEW noCache \in {"yes", "no"}, Start(d, key, noCache)
      PROVE  Fine
  <2>1. /\ call'[d].at = "gate" /\ call'[d].key = key /\ call'[d].since = now
        /\ call'[d].entitled = IF Visible(key.who, key.customer) THEN "yes" ELSE "no"
    BY <1>5, <1>b DEF Start
  <2>. QED
    BY <1>5, <1>b, <2>1
    DEF Start, InTime, Entitled, Dropped, Aged, PastGate, Visible
<1>6. CASE Gate(d)
  <2>1. \E step \in {"drop", "lookup"} :
          /\ call'[d] = [call[d] EXCEPT !.at = step]
          /\ step = "lookup" => call[d].noCache # "yes"
    BY <1>6, <1>b DEF Gate, Goto
  <2>2. /\ call'[d].at \in {"drop", "lookup"} /\ call'[d].key = call[d].key
        /\ call'[d].at = "lookup" => call'[d].noCache # "yes"
        /\ call'[d].since = call[d].since /\ call'[d].entitled = call[d].entitled
    BY <1>b, <2>1 DEF Call
  <2>3. call[d].at = "gate" /\ call[d].entitled = "yes" /\ now' = now
    BY <1>6, <1>a DEF Gate, At, Entitled
  <2>. QED
    BY <1>a, <2>2, <2>3 DEF InTime, Entitled, Dropped, Aged
<1>7. CASE DropEntry(d)
  <2>1. call'[d] = [call[d] EXCEPT !.at = "lookup"] /\ cache'[call[d].key] = NoEntry
    BY <1>7, <1>a, <1>b, Numbers DEF DropEntry, Goto, TypeOK
  <2>2. /\ call'[d].at = "lookup" /\ call'[d].key = call[d].key
        /\ call'[d].since = call[d].since /\ call'[d].entitled = call[d].entitled
    BY <1>b, <2>1 DEF Call
  <2>3. call[d].at = "drop" /\ now' = now
    BY <1>7 DEF DropEntry, At
  <2>. QED
    BY <1>a, <2>1, <2>2, <2>3 DEF InTime, Entitled, Dropped, Aged, PastGate, NoEntry
<1>8. CASE Hit(d)
  <2>1. call'[d] = [call[d] EXCEPT !.at = "answered", !.data = cache[call[d].key].data]
    BY <1>8, <1>b DEF Hit, Answer
  <2>2. /\ call'[d].at = "answered" /\ call'[d].key = call[d].key
        /\ call'[d].data = cache[call[d].key].data
        /\ call'[d].since = call[d].since /\ call'[d].entitled = call[d].entitled
        /\ call'[d].noCache = call[d].noCache
    BY <1>b, <2>1 DEF Call
  <2>3. /\ call[d].at = "lookup" /\ now' = now
        /\ now < cache[call[d].key].expires
    BY <1>8, <1>a, Numbers DEF Hit, At, Live
  <2>4. call[d].since < cache[call[d].key].data.read + TTL[call[d].key.tool] + Patience
    <3>1. Bounded(call[d].key)
      BY <1>a, Numbers DEF IInv, CacheInv
    <3>. QED  BY <1>a, <2>3, <3>1, Numbers DEF Bounded, InTime
  <2>5. call[d].noCache = "yes" =>
          call[d].since <= cache[call[d].key].data.read + Patience
    BY <1>a, <2>3, Numbers DEF Dropped
  <2>. QED
    BY <1>a, <2>2, <2>3, <2>4, <2>5 DEF InTime, Entitled, Dropped, Aged, PastGate
<1>9. CASE Miss(d)
  <2>1. call'[d] = [call[d] EXCEPT !.at = "fetch"]
    BY <1>9, <1>b DEF Miss, Goto
  <2>2. /\ call'[d].at = "fetch" /\ call'[d].key = call[d].key
        /\ call'[d].since = call[d].since /\ call'[d].entitled = call[d].entitled
    BY <1>b, <2>1 DEF Call
  <2>3. call[d].at = "lookup" /\ now' = now
    BY <1>9 DEF Miss, At
  <2>. QED
    BY <1>a, <2>2, <2>3 DEF InTime, Entitled, Dropped, Aged, PastGate
<1>10. CASE Fetch(d)
  <2>1. /\ call'[d].at = "store" /\ call'[d].key = call[d].key
        /\ call'[d].data.read = now
        /\ call'[d].since = call[d].since /\ call'[d].entitled = call[d].entitled
    BY <1>10, <1>b DEF Fetch, Call
  <2>2. call[d].at = "fetch" /\ now' = now
    BY <1>10 DEF Fetch, At
  <2>. QED
    BY <1>a, <2>1, <2>2 DEF InTime, Entitled, Dropped, Aged, PastGate
<1>11. CASE Store(d)
  <2>1. call'[d] = [call[d] EXCEPT !.at = "answered", !.data = call[d].data]
    BY <1>11, <1>b DEF Store, Answer
  <2>2. /\ call'[d].at = "answered" /\ call'[d].key = call[d].key
        /\ call'[d].data = call[d].data
        /\ call'[d].since = call[d].since /\ call'[d].entitled = call[d].entitled
    BY <1>b, <2>1 DEF Call
  <2>3. call[d].at = "store" /\ now' = now
    BY <1>11 DEF Store, At
  <2>4. /\ call[d].since < call[d].data.read + TTL[call[d].key.tool] + Patience
        /\ call[d].since <= call[d].data.read + Patience
    BY <1>a, <2>3, Numbers DEF Aged
  <2>. QED
    BY <1>a, <2>2, <2>3, <2>4 DEF InTime, Entitled, Dropped, Aged, PastGate
<1>12. CASE Refused(d) \/ Finish(d)
  <2>1. call'[d] = Idle(call[d].key) /\ now' = now
    BY <1>12, <1>b DEF Refused, Finish, Release
  <2>. QED  BY <1>a, <1>c, <2>1, Numbers
<1>13. CASE Restart
  BY <1>13, <1>a, <1>c, Numbers DEF Restart
<1>14. CASE Tick
  <2>1. InTime(d)'
    BY <1>14, <1>a, <1>b DEF Tick, InTime, At
  <2>. QED  BY <1>14, <1>a, <2>1 DEF Tick, Entitled, Dropped, Aged, Visible
<1>15. CASE UNCHANGED vars
  BY <1>15, Bystander DEF vars
<1>. QED
  BY <1>1, <1>2, <1>3, <1>4, <1>5, <1>6, <1>7, <1>8, <1>9, <1>10, <1>11, <1>12,
     <1>13, <1>14, <1>15
  DEF Next, Business, Readonly

-----------------------------------------------------------------------------
LEMMA Invariance == Spec => []IInv
<1>1. IInv /\ [Next]_vars => IInv'
  BY TypeStep, CallStep, CacheStep DEF IInv
<1>. QED  BY InitIInv, <1>1, PTL DEF Spec

\* Type correctness of the gateway's read path, for all values of the constants.
THEOREM TypeCorrect == Spec => []TypeOK
<1>1. IInv => TypeOK
  BY DEF IInv
<1>. QED  BY Invariance, <1>1, PTL

\* The gate before the cache: nobody reads a customer who was not theirs during the call.
THEOREM OwnData == Spec => []OwnDataOnly
<1>1. IInv => OwnDataOnly
  BY DEF IInv, CallInv, Entitled, PastGate, OwnDataOnly, At
<1>. QED  BY Invariance, <1>1, PTL

\* However stores and lookups overlap, an answer is less than a lifetime and two calls old.
THEOREM Staleness == Spec => []BoundedStaleness
<1>1. IInv => BoundedStaleness
  <2>. SUFFICES ASSUME IInv, NEW c \in Calls, At(c, "answered")
                PROVE  now < call[c].data.read + TTL[call[c].key.tool] + 2 * Patience
    BY DEF BoundedStaleness
  <2>1. /\ now <= call[c].since + Patience
        /\ call[c].since < call[c].data.read + TTL[call[c].key.tool] + Patience
    BY DEF IInv, CallInv, InTime, Aged, At
  <2>. QED  BY <2>1, Numbers DEF IInv
<1>. QED  BY Invariance, <1>1, PTL

\* A refresh answers with nothing that was read more than one call before it began.
THEOREM Refresh == Spec => []RefreshNearlyFresh
<1>1. IInv => RefreshNearlyFresh
  BY DEF IInv, CallInv, Aged, At, RefreshNearlyFresh
<1>. QED  BY Invariance, <1>1, PTL
=============================================================================
