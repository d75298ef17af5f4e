--------------------------- MODULE EventQueue_proofs ---------------------------
(***************************************************************************)
(* Theorems about EventQueue, for any hosts, limits, events, resets and    *)
(* broken connections: its types, what a client gets, how events are       *)
(* numbered.                                                               *)
(***************************************************************************)
EXTENDS EventQueue, SequenceTheorems, FiniteSetTheorems, WellFoundedInduction, TLAPS

-----------------------------------------------------------------------------
(* What is read behind a cursor, and the highest of its numbers            *)

LEMMA Least ==
  ASSUME NEW S \in SUBSET Nat, S # {}
  PROVE  \E m \in S : \A k \in S : m <= k
<1>1. IsWellFoundedOn(OpToRel(<, Nat), Nat)
  BY NatLessThanWellFounded
<1>2. PICK m \in S : \A k \in S : ~(<<k, m>> \in OpToRel(<, Nat))
  BY <1>1, WFMin
<1>3. \A k \in S : ~(k < m)
  BY <1>2, Zenon DEF OpToRel
<1>4. m \in Nat /\ \A k \in S : k \in Nat
  OBVIOUS
<1>. QED  BY <1>3, <1>4

\* f[n] is what the first n lines of q contribute to an answer behind cursor c.
Scan(f, q, c, m) ==
    f = [n \in 0..m |-> IF n = 0 THEN <<>>
                        ELSE IF q[n].seq > c THEN Append(f[n - 1], q[n]) ELSE f[n - 1]]

\* There is such a function: otherwise take the least m without one.
LEMMA ScanExists ==
  ASSUME NEW q, NEW c, NEW m \in Nat
  PROVE  \E f : Scan(f, q, c, m)
<1>. DEFINE Bad == {k \in Nat : ~\E f : Scan(f, q, c, k)}
<1>1. SUFFICES ASSUME Bad # {} PROVE FALSE
  OBVIOUS
<1>2. PICK k \in Bad : \A l \in Bad : k <= l
  BY <1>1, Least
<1>3. k # 0
  <2>. DEFINE f == [n \in 0..0 |-> <<>>]
  <2>0. \A n \in 0..0 : n = 0
    OBVIOUS
  <2>1. \A n \in 0..0 : f[n] = IF n = 0 THEN <<>> ELSE IF q[n].seq > c THEN Append(f[n - 1], q[n]) ELSE f[n - 1]
    BY <2>0
  <2>2. f = [n \in 0..0 |-> f[n]]
    OBVIOUS
  <2>3. Scan(f, q, c, 0)
    <3>. HIDE DEF f
    <3>. QED  BY <2>1, <2>2, Zenon DEF Scan
  <2>. QED  BY <1>2, <2>3
<1>4. k \in Nat /\ k - 1 \in Nat /\ k - 1 \notin Bad
  BY <1>2, <1>3
<1>5. PICK g : Scan(g, q, c, k - 1)
  BY <1>4
<1>. DEFINE f == [n \in 0..k |-> IF n = k THEN IF q[k].seq > c THEN Append(g[k - 1], q[k]) ELSE g[k - 1]
                                          ELSE g[n]]
<1>6. \A n \in 0..k : f[n] = IF n = 0 THEN <<>> ELSE IF q[n].seq > c THEN Append(f[n - 1], q[n]) ELSE f[n - 1]
  <2>1. \A n \in 0..(k - 1) : /\ g[n] = IF n = 0 THEN <<>> ELSE IF q[n].seq > c THEN Append(g[n - 1], q[n]) ELSE g[n - 1]
                              /\ f[n] = g[n]
    <3>1. g = [n \in 0..(k - 1) |-> IF n = 0 THEN <<>> ELSE IF q[n].seq > c THEN Append(g[n - 1], q[n]) ELSE g[n - 1]]
      BY <1>5, Zenon DEF Scan
    <3>2. \A n \in 0..(k - 1) : g[n] = IF n = 0 THEN <<>> ELSE IF q[n].seq > c THEN Append(g[n - 1], q[n]) ELSE g[n - 1]
      BY <3>1, Zenon
    <3>3. \A n \in 0..(k - 1) : f[n] = g[n]
      BY <1>4
    <3>. QED  BY <3>2, <3>3
  <2>2. f[k] = IF q[k].seq > c THEN Append(g[k - 1], q[k]) ELSE g[k - 1]
    BY <1>4
  <2>3. f[k - 1] = g[k - 1]
    BY <1>4, <2>1
  <2>. HIDE DEF f
  <2>4. ASSUME NEW n \in 0..k, n # k, n # 0 
        PROVE f[n] = IF q[n].seq > c THEN Append(f[n - 1], q[n]) ELSE f[n - 1]
    <3>1. n \in 0..(k - 1) /\ n - 1 \in 0..(k - 1)
      BY <1>4, <2>4
    <3>. QED  BY <2>1, <2>4, <3>1
  <2>. QED  BY <1>3, <1>4, <2>1, <2>2, <2>3, <2>4
<1>7. Scan(f, q, c, k)
  <2>1. f = [n \in 0..k |-> f[n]]
    OBVIOUS
  <2>. HIDE DEF f
  <2>. QED  BY <1>6, <2>1, Zenon DEF Scan
<1>. QED  BY <1>7

\* An answer consists of the lines behind the cursor, each once, in the order of the file.
Selects(items, pos, q, c, m) ==
    /\ items \in Seq(Item)
    /\ pos \in [DOMAIN items -> 1..m]
    /\ \A i \in DOMAIN items : items[i] = q[pos[i]] /\ items[i].seq > c
    /\ \A i, j \in DOMAIN items : i < j => pos[i] < pos[j]
    /\ \A k \in 1..m : q[k].seq > c => \E i \in DOMAIN items : pos[i] = k

LEMMA ScanSelects ==
  ASSUME NEW q \in Seq(Item), NEW c \in Nat, NEW f, Scan(f, q, c, Len(q))
  PROVE  \E pos : Selects(f[Len(q)], pos, q, c, Len(q))
<1>. DEFINE Bad == {k \in 0..Len(q) : ~\E pos : Selects(f[k], pos, q, c, k)}
<1>0. Len(q) \in Nat /\ \A k \in 1..Len(q) : q[k] \in Item
  OBVIOUS
<1>1. SUFFICES ASSUME Bad # {} PROVE FALSE
  BY <1>0
<1>b. Bad \in SUBSET Nat
  BY <1>0
<1>2. PICK k \in Bad : \A l \in Bad : k <= l
  <2>. HIDE DEF Bad
  <2>. QED  BY <1>b, <1>1, Least
<1>3. k # 0
  <2>1. f[0] = <<>>
    BY <1>0 DEF Scan
  <2>. DEFINE pos == <<>>
  <2>2. Selects(<<>>, <<>>, q, c, 0)
    BY DEF Selects
  <2>. QED  BY <2>1, <2>2
<1>4. k \in 1..Len(q) /\ k - 1 \in 0..Len(q) /\ k - 1 \notin Bad
  BY <1>0, <1>2, <1>3
<1>5. PICK old : Selects(f[k - 1], old, q, c, k - 1)
  BY <1>4
<1>6. f[k] = IF q[k].seq > c THEN Append(f[k - 1], q[k]) ELSE f[k - 1]
  <2>1. k \in 0..Len(q) /\ k # 0
    BY <1>0, <1>4
  <2>2. f = [n \in 0..Len(q) |-> IF n = 0 THEN <<>> ELSE IF q[n].seq > c THEN Append(f[n - 1], q[n]) ELSE f[n - 1]]
    BY Zenon DEF Scan
  <2>. QED  BY <2>1, <2>2, Zenon
<1>. PICK prior \in Seq(Item) : prior = f[k - 1]
  BY <1>5 DEF Selects
<1>. PICK item \in Item : item = q[k]
  BY <1>0, <1>4
<1>7. CASE item.seq > c
  <2>0. Append(prior, item) \in Seq(Item)
    OBVIOUS
  <2>. PICK items \in Seq(Item) : items = Append(prior, item)
    BY <2>0
  <2>1. /\ Len(items) = Len(prior) + 1 /\ items[Len(items)] = item /\ Len(prior) \in Nat
        /\ \A i \in 1..Len(prior) : items[i] = prior[i]
        /\ DOMAIN items = 1..(Len(prior) + 1) /\ DOMAIN prior = 1..Len(prior)
    OBVIOUS
  <2>. DEFINE pos == [i \in DOMAIN items |-> IF i = Len(items) THEN k ELSE old[i]]
  <2>2. Selects(items, pos, q, c, k)
    <3>1. pos \in [DOMAIN items -> 1..k]
      BY <1>4, <1>5, <2>1 DEF Selects
    <3>2. \A i \in DOMAIN items : items[i] = q[pos[i]] /\ items[i].seq > c
      BY <1>5, <1>7, <2>1 DEF Selects
    <3>3. \A i, j \in DOMAIN items : i < j => pos[i] < pos[j]
      <4>. SUFFICES ASSUME NEW i \in DOMAIN items, NEW j \in DOMAIN items, i < j PROVE pos[i] < pos[j]
        OBVIOUS
      <4>1. i \in DOMAIN prior /\ pos[i] = old[i] /\ old[i] \in 1..(k - 1)
        BY <1>5, <2>1 DEF Selects
      <4>2. CASE j = Len(items)
        BY <1>4, <4>1, <4>2
      <4>3. CASE j # Len(items)
        BY <1>5, <2>1, <4>1, <4>3 DEF Selects
      <4>. QED  BY <4>2, <4>3
    <3>4. \A l \in 1..k : q[l].seq > c => \E i \in DOMAIN items : pos[i] = l
      <4>. SUFFICES ASSUME NEW l \in 1..k, q[l].seq > c PROVE \E i \in DOMAIN items : pos[i] = l
        OBVIOUS
      <4>1. CASE l = k
        <5>1. Len(items) \in DOMAIN items /\ pos[Len(items)] = k
          BY <2>1
        <5>. QED  BY <4>1, <5>1
      <4>2. CASE l # k
        <5>1. PICK i \in DOMAIN prior : old[i] = l
          BY <1>4, <1>5, <4>2 DEF Selects
        <5>. QED  BY <2>1, <5>1
      <4>. QED  BY <4>1, <4>2
    <3>. QED  BY <3>1, <3>2, <3>3, <3>4 DEF Selects
  <2>. QED  BY <1>6, <1>7, <2>2
<1>8. CASE ~(item.seq > c)
  <2>1. Selects(prior, old, q, c, k)
    BY <1>4, <1>5, <1>8 DEF Selects
  <2>. QED  BY <1>6, <1>8, <2>1
<1>. QED  BY <1>7, <1>8

\* What a client is sent is the beginning of such an answer.
LEMMA BatchSelects ==
  ASSUME queue \in Seq(Item), client.cursor \in Nat
  PROVE  \E items, pos : /\ Selects(items, pos, queue, client.cursor, Len(queue))
                         /\ Batch \in Seq(Item) /\ Len(Batch) <= Len(items)
                         /\ \A i \in 1..Len(Batch) : Batch[i] = items[i]
<1>. PICK q \in Seq(Item) : q = queue
  OBVIOUS
<1>. PICK c \in Nat : c = client.cursor
  OBVIOUS
<1>. DEFINE g == CHOOSE f : Scan(f, q, c, Len(q))
<1>1. Scan(g, q, c, Len(q))
  <2>0. Len(q) \in Nat
    OBVIOUS
  <2>1. \E f : Scan(f, q, c, Len(q))
    BY <2>0, ScanExists
  <2>. QED  BY <2>1, Zenon
<1>2. ItemsAfter(c) = g[Len(q)]
  BY Zenon DEF Scan, ItemsAfter
<1>. HIDE DEF g
<1>3. PICK pos : Selects(g[Len(q)], pos, q, c, Len(q))
  BY <1>1, ScanSelects
<1>. PICK items \in Seq(Item) : items = g[Len(q)]
  BY <1>3 DEF Selects
<1>. PICK n \in Nat : n <= Len(items) /\ n = IF Len(items) < Limit THEN Len(items) ELSE Limit
  BY LimitAssumption
<1>4. Batch = SubSeq(items, 1, n)
  BY <1>2 DEF Batch
<1>5. SubSeq(items, 1, n) \in Seq(Item) /\ Len(SubSeq(items, 1, n)) = n /\ \A i \in 1..n : SubSeq(items, 1, n)[i] = items[i]
  OBVIOUS
<1>. QED  BY <1>3, <1>4, <1>5

\* The highest of c and the numbers s[1] .. s[m].
Highest(t, c, s, m) ==
    t \in Nat /\ t >= c /\ (\A i \in 1..m : t >= s[i]) /\ (t = c \/ \E i \in 1..m : t = s[i])

LEMMA HighestExists ==
  ASSUME NEW n \in Nat, NEW s \in [1..n -> Nat], NEW c \in Nat
  PROVE  \E t : Highest(t, c, s, n)
<1>. DEFINE Bad == {m \in 0..n : ~\E t : Highest(t, c, s, m)}
<1>. SUFFICES ASSUME Bad # {} PROVE FALSE
  OBVIOUS
<1>1. Bad \in SUBSET Nat
  OBVIOUS
<1>2. PICK m \in Bad : \A l \in Bad : m <= l
  <2>. HIDE DEF Bad
  <2>. QED  BY <1>1, Least
<1>3. m # 0
  <2>1. Highest(c, c, s, 0)
    BY DEF Highest
  <2>. QED  BY <2>1
<1>4. m \in 1..n /\ m - 1 \in 0..n /\ ~(m <= m - 1)
  BY <1>3
<1>5. m - 1 \notin Bad
  <2>. HIDE DEF Bad
  <2>. QED  BY <1>2, <1>4
<1>6. PICK t : Highest(t, c, s, m - 1)
  BY <1>4, <1>5
<1>7. CASE t >= s[m]
  <2>1. Highest(t, c, s, m)
    BY <1>4, <1>6, <1>7 DEF Highest
  <2>. QED  BY <2>1
<1>8. CASE ~(t >= s[m])
  <2>1. s[m] \in Nat /\ t \in Nat
    BY <1>4, <1>6 DEF Highest
  <2>2. \A i \in 1..m : i = m \/ i \in 1..(m - 1)
    BY <1>4
  <2>3. \A i \in 1..m : s[m] >= s[i]
    BY <1>6, <1>8, <2>1, <2>2 DEF Highest
  <2>4. Highest(s[m], c, s, m)
    BY <1>4, <1>6, <1>8, <2>1, <2>3 DEF Highest
  <2>. QED  BY <2>4
<1>. QED  BY <1>7, <1>8

\* The stream's cursor is the highest number it has sent.
LEMMA StreamCursorIs ==
  ASSUME client.cursor \in Nat, NEW items \in Seq(Item), NEW n \in 0..Len(items)
  PROVE  LET top == StreamCursor(items, n)
         IN  /\ top \in Nat /\ top >= client.cursor /\ \A i \in 1..n : top >= items[i].seq
             /\ top = client.cursor \/ \E i \in 1..n : top = items[i].seq
             /\ n = 0 => top = client.cursor
<1>. PICK c \in Nat : c = client.cursor
  OBVIOUS
<1>. DEFINE s == [i \in 1..n |-> items[i].seq]
            top == CHOOSE t \in {c} \cup {items[i].seq : i \in 1..n} : t >= c /\ \A i \in 1..n : t >= items[i].seq
<1>1. n \in Nat /\ \A i \in 1..n : items[i] \in Item
  OBVIOUS
<1>2. s \in [1..n -> Nat] /\ \A i \in 1..n : s[i] = items[i].seq
  BY <1>1 DEF Item
<1>. HIDE DEF s
<1>3. PICK t : Highest(t, c, s, n)
  BY <1>1, <1>2, HighestExists
<1>4. t \in {c} \cup {items[i].seq : i \in 1..n} /\ t >= c /\ \A i \in 1..n : t >= items[i].seq
  BY <1>2, <1>3 DEF Highest
<1>5. top \in {c} \cup {items[i].seq : i \in 1..n} /\ top >= c /\ \A i \in 1..n : top >= items[i].seq
  BY <1>4, Zenon
<1>6. n # 0 => StreamCursor(items, n) = top
  BY DEF StreamCursor
<1>7. n = 0 => StreamCursor(items, n) = c
  BY DEF StreamCursor
<1>. HIDE DEF top
<1>8. top \in Nat /\ (top = c \/ \E i \in 1..n : top = items[i].seq)
  BY <1>1, <1>5 DEF Item
<1>. QED  BY <1>1, <1>5, <1>6, <1>7, <1>8

-----------------------------------------------------------------------------
(* Types                                                                   *)

LEMMA LastSeqIs ==
  ASSUME NEW q \in Seq(Item)
  PROVE  /\ LastSeq(q) \in Nat
         /\ \A item \in Item : LastSeq(Append(q, item)) = item.seq
         /\ LastSeq(<<>>) = 0
<1>1. LastSeq(q) \in Nat
  <2>1. CASE q = <<>>
    BY <2>1 DEF LastSeq
  <2>2. CASE q # <<>>
    <3>1. Len(q) \in DOMAIN q /\ q[Len(q)] \in Item
      BY <2>2
    <3>. QED  BY <2>2, <3>1 DEF LastSeq, Last, Item
  <2>. QED  BY <2>1, <2>2
<1>2. ASSUME NEW item \in Item PROVE LastSeq(Append(q, item)) = item.seq
  <2>0. Append(q, item) \in Seq(Item)
    OBVIOUS
  <2>1. PICK r \in Seq(Item) : r = Append(q, item)
    BY <2>0
  <2>2. r # <<>> /\ r[Len(r)] = item
    BY <2>1
  <2>. QED  BY <2>1, <2>2 DEF LastSeq, Last
<1>3. LastSeq(<<>>) = 0
  BY DEF LastSeq
<1>. QED  BY <1>1, <1>2, <1>3

LEMMA LastSeqOf ==
  ASSUME NEW q \in Seq(Item), q # <<>>
  PROVE  Len(q) \in DOMAIN q /\ LastSeq(q) = q[Len(q)].seq
BY DEF LastSeq, Last

LEMMA IdleWorker == Idle \in Worker /\ Idle.at = "idle"
<1>. PICK h \in Hosts : h = CHOOSE g \in Hosts : TRUE
  BY HostsAssumption
<1>1. Idle = [at |-> "idle", host |-> h]
  BY DEF Idle
<1>. QED  BY <1>1 DEF Worker

LEMMA Listed == \A S : \A n \in Nat : [1..n -> S] \subseteq Seq(S)
BY SeqDef, Zenon

\* The client gets no more than the first n events of a batch, and a cursor.
LEMMA TakeTyped ==
  ASSUME TypeOK, NEW n \in 0..Len(Batch), NEW top \in Nat
  PROVE  LET next == Take(Batch, n, top)
         IN  /\ next \in Client
             /\ next.kind = client.kind /\ next.cursor = top /\ next.at = client.at
             /\ next.era = IF client.cursor = 0 THEN era ELSE client.era
             /\ next.got = client.got \o [i \in 1..n |-> Batch[i].id]
<1>. PICK c \in Client : c = client
  BY DEF TypeOK, Client
<1>. PICK batch \in Seq(Item) : batch = Batch
  BY BatchSelects DEF TypeOK, Client
<1>. DEFINE more == [i \in 1..n |-> batch[i].id]
            now == IF c.cursor = 0 THEN era ELSE c.era
<1>1. n \in Nat /\ \A i \in 1..n : batch[i] \in Item
  OBVIOUS
<1>2. more \in [1..n -> 1..MaxEvents]
  BY <1>1 DEF Item
<1>3. more \in Seq(1..MaxEvents)
  BY <1>1, <1>2, Listed
<1>4. now \in 0..MaxEras
  BY DEF TypeOK, Client
<1>5. more = [i \in 1..n |-> Batch[i].id] /\ now = IF client.cursor = 0 THEN era ELSE client.era
  OBVIOUS
<1>6. Take(Batch, n, top) = [c EXCEPT !.got = c.got \o more, !.cursor = top, !.era = now]
  BY DEF Take
<1>. HIDE DEF more, now
<1>7. c.got \o more \in Seq(1..MaxEvents)
  BY <1>3 DEF Client
<1>. PICK got \in Seq(1..MaxEvents) : got = c.got \o more
  BY <1>7
<1>. DEFINE next == [c EXCEPT !.got = got, !.cursor = top, !.era = now]
<1>8. /\ next \in Client /\ next.kind = c.kind /\ next.cursor = top /\ next.at = c.at
      /\ next.era = now /\ next.got = got
  BY <1>4 DEF Client
<1>9. next = Take(Batch, n, top)
  BY <1>6
<1>. HIDE DEF next
<1>. QED  BY <1>5, <1>8, <1>9

\* What an append does to the file, whoever appends.
LEMMA AppendFacts ==
  ASSUME TypeOK, NEW h \in Hosts, AppendQueue(h)
  PROVE  /\ store' \in [Hosts -> Store] /\ slipped' \in {"yes", "no"}
         /\ appended < MaxEvents /\ appended' = appended + 1
         /\ \E item \in Item : /\ queue' = Append(queue, item)
                               /\ item.id = appended + 1 /\ item.seq >= 1
                               /\ tangled' = IF item.seq > LastSeq(queue) THEN tangled ELSE "yes"
<1>. USE DEF TypeOK
<1>. PICK s \in Store : s = store[h]
  OBVIOUS
<1>. PICK last \in Nat : last = LastSeq(queue)
  BY LastSeqIs
<1>1. Loaded(s) \in Nat
  BY DEF Loaded, Store
<1>. PICK seq \in Nat : seq = Loaded(s) + 1 /\ seq >= 1
  BY <1>1
<1>. PICK id \in 1..MaxEvents : id = appended + 1
  BY BoundsAssumption DEF AppendQueue
<1>. PICK item \in Item : item = [seq |-> seq, id |-> id]
  BY DEF Item
<1>. PICK t \in Store : t = [loaded |-> "yes", next |-> seq]
  BY DEF Store
<1>2. /\ queue' = Append(queue, item) /\ store' = [store EXCEPT ![h] = t] /\ appended' = appended + 1
      /\ appended < MaxEvents
      /\ tangled' = IF seq > last THEN tangled ELSE "yes"
      /\ slipped' = IF worker.at = "zero" /\ worker.host = h THEN "yes" ELSE slipped
  BY DEF AppendQueue
<1>3. item.id = appended + 1 /\ item.seq = seq
  OBVIOUS
<1>. QED  BY <1>2, <1>3

LEMMA AppendTyped ==
  ASSUME TypeOK, NEW h \in Hosts, AppendQueue(h)
  PROVE  /\ queue' \in Seq(Item) /\ store' \in [Hosts -> Store]
         /\ appended' \in 0..MaxEvents /\ tangled' \in {"yes", "no"} /\ slipped' \in {"yes", "no"}
<1>. PICK item \in Item : /\ queue' = Append(queue, item)
                          /\ tangled' = IF item.seq > LastSeq(queue) THEN tangled ELSE "yes"
  BY AppendFacts
<1>. QED  BY AppendFacts, BoundsAssumption DEF TypeOK

LEMMA InitTyped == Init => TypeOK
<1>. SUFFICES ASSUME Init PROVE TypeOK
  OBVIOUS
<1>1. client \in Client
  <2>1. 0 \in 0..MaxEras
    BY BoundsAssumption
  <2>. QED  BY <2>1 DEF Init, Client
<1>2. NoStore \in Store
  BY DEF NoStore, Store
<1>. QED  BY <1>1, <1>2, IdleWorker, BoundsAssumption DEF Init, TypeOK

LEMMA HostTyped ==
  ASSUME TypeOK, NEW h \in Hosts, HostStep(h)
  PROVE  TypeOK'
<1>. USE DEF TypeOK
<1>1. CASE ResetUnlink(h)
  BY <1>1, BoundsAssumption DEF ResetUnlink, ghosts, Worker
<1>2. CASE ResetUnload(h) \/ ResetZero(h)
  <2>. PICK s \in Store : s = store[h]
    OBVIOUS
  <2>1. [s EXCEPT !.loaded = "no"] \in Store /\ [s EXCEPT !.next = 0] \in Store
    BY DEF Store
  <2>2. store' = [store EXCEPT ![h] = [s EXCEPT !.loaded = "no"]] \/ store' = [store EXCEPT ![h] = [s EXCEPT !.next = 0]]
    BY <1>2 DEF ResetUnload, ResetZero
  <2>3. store' \in [Hosts -> Store]
    BY <2>1, <2>2
  <2>4. worker' \in Worker
    BY <1>2 DEF ResetUnload, ResetZero, Worker
  <2>. QED  BY <1>2, <2>3, <2>4 DEF ResetUnload, ResetZero, hostVars, ghosts
<1>3. CASE Begin(h) \/ Resume(h) \/ Mark(h)
  <2>1. worker' \in Worker
    BY <1>3 DEF Begin, Resume, Mark, Worker
  <2>. QED  BY <1>3, <2>1 DEF Begin, Resume, Mark, ghosts
<1>4. CASE NoResume(h) \/ ResumeRun(h)
  BY <1>4 DEF NoResume, ResumeRun, ghosts
<1>5. CASE Fail(h)
  BY <1>5, IdleWorker DEF Fail, ghosts
<1>6. CASE Emit(h) \/ Steer(h) \/ Announce(h)
  <2>1. AppendQueue(h)
    BY <1>6 DEF Emit, Steer, Announce
  <2>. QED  BY <1>6, <2>1, AppendTyped, IdleWorker DEF Emit, Steer, Announce, hostVars
<1>7. CASE PauseRun(h) \/ CancelRun(h)
  <2>1. CASE Abort(h)
    <3>1. AppendQueue(h)
      BY <2>1 DEF Abort
    <3>2. override' \in [Hosts -> {"yes", "no"}]
      BY <1>7 DEF PauseRun, CancelRun
    <3>. QED  BY <2>1, <3>1, <3>2, AppendTyped DEF Abort
  <2>2. CASE ~Abort(h)
    BY <1>7, <2>2 DEF PauseRun, CancelRun, ghosts
  <2>. QED  BY <2>1, <2>2
<1>. QED  BY <1>1, <1>2, <1>3, <1>4, <1>5, <1>6, <1>7 DEF HostStep

\* What a request can hand to the client: the first n events of the batch, and a cursor.
Offered(n, top) ==
    /\ n \in 0..Len(Batch) /\ top \in Nat
    /\ top = client.cursor \/ \E i \in 1..n : top = Batch[i].seq
    /\ \/ client.kind = "stream" /\ top >= client.cursor /\ \A i \in 1..n : top >= Batch[i].seq
       \/ client.kind = "page" /\ (n = 0 => top = client.cursor) /\ (n > 0 => top = Batch[n].seq)

\* A step of the client takes the beginning of a batch, or nothing at all.
LEMMA ClientStep ==
  ASSUME TypeOK, Connect \/ Stream \/ StreamOn \/ Break \/ Page
  PROVE  /\ UNCHANGED <<queue, store, hostVars, worker, ghosts, era>>
         /\ \E at \in {"away", "open", "sent"} :
               \/ client' = [client EXCEPT !.at = at]
               \/ \E n, top : Offered(n, top) /\ client' = [Take(Batch, n, top) EXCEPT !.at = at]
<1>. USE DEF Offered
<1>. PICK c \in Client : c = client
  BY DEF TypeOK
<1>0. c.cursor \in Nat /\ c.at \in {"away", "open", "sent"} /\ c.kind \in {"stream", "page"}
  BY DEF Client
<1>. PICK batch \in Seq(Item) : batch = Batch
  BY <1>0, BatchSelects DEF TypeOK
<1>1. CASE Connect \/ StreamOn
  BY <1>1 DEF Connect, StreamOn
<1>2. CASE Stream
  <2>1. Len(batch) \in 0..Len(batch)
    OBVIOUS
  <2>. QED  BY <1>0, <1>2, <2>1, StreamCursorIs DEF Stream, ClientAt
<1>3. CASE Break
  <2>. PICK n \in IF client.at = "open" THEN 0..Len(Batch) ELSE {0} :
               client' = [Take(Batch, n, StreamCursor(Batch, n)) EXCEPT !.at = "away"]
    BY <1>3 DEF Break
  <2>1. n \in 0..Len(batch)
    OBVIOUS
  <2>. QED  BY <1>0, <1>3, <2>1, StreamCursorIs DEF Break, hostVars, ghosts
<1>4. CASE Page
  <2>. DEFINE n == Len(batch)
              top == PageCursor(batch)
  <2>1. n \in 0..Len(batch) /\ (n = 0 <=> batch = <<>>) /\ (n > 0 => n \in DOMAIN batch /\ n \in 1..n)
    OBVIOUS
  <2>2. (n = 0 => top = c.cursor) /\ (n > 0 => top = batch[n].seq)
    BY <2>1 DEF PageCursor, Last
  <2>3. top \in Nat
    <3>1. \A i \in DOMAIN batch : batch[i] \in Item
      OBVIOUS
    <3>. QED  BY <1>0, <2>1, <2>2, <3>1 DEF Item
  <2>4. Take(Batch, n, top) = [Take(Batch, n, top) EXCEPT !.at = "away"]
    <3>. PICK next \in Client : next = Take(Batch, n, top) /\ next.at = "away"
      BY <1>4, <2>1, <2>3, TakeTyped DEF Page, ClientAt
    <3>1. next = [next EXCEPT !.at = "away"]
      BY DEF Client
    <3>. QED  BY <3>1
  <2>5. client' = [Take(Batch, n, top) EXCEPT !.at = "away"] /\ client.kind = "page"
    BY <1>4, <2>4 DEF Page, ClientAt
  <2>. HIDE DEF top
  <2>6. top = c.cursor \/ \E i \in 1..n : top = batch[i].seq
    BY <2>1, <2>2
  <2>. QED  BY <1>4, <2>1, <2>2, <2>3, <2>5, <2>6 DEF Page
<1>. QED  BY <1>1, <1>2, <1>3, <1>4

LEMMA ClientTyped ==
  ASSUME TypeOK, Connect \/ Stream \/ StreamOn \/ Break \/ Page
  PROVE  TypeOK'
<1>1. client' \in Client
  <2>. PICK at \in {"away", "open", "sent"} :
               \/ client' = [client EXCEPT !.at = at]
               \/ \E n \in 0..Len(Batch), top \in Nat : client' = [Take(Batch, n, top) EXCEPT !.at = at]
    BY ClientStep DEF Offered
  <2>1. \A c \in Client : [c EXCEPT !.at = at] \in Client
    BY DEF Client
  <2>. QED  BY <2>1, TakeTyped DEF TypeOK
<1>2. breaks' \in 0..MaxBreaks
  BY BoundsAssumption DEF Connect, Stream, StreamOn, Break, Page, TypeOK
<1>. QED  BY <1>1, <1>2, ClientStep DEF hostVars, ghosts, TypeOK

LEMMA RestartTyped ==
  ASSUME TypeOK, Restart
  PROVE  TypeOK'
<1>1. NoStore \in Store
  BY DEF NoStore, Store
<1>2. \A c \in Client : [c EXCEPT !.at = "away"] \in Client
  BY DEF Client
<1>3. \A h \in Hosts : Requeued(task[h]) \in {"start", "starting", "resume", "resuming", "done"}
  BY DEF Requeued, TypeOK
<1>4. breaks' \in 0..MaxBreaks
  BY BoundsAssumption DEF Restart, TypeOK
<1>. QED  BY <1>1, <1>2, <1>3, <1>4, IdleWorker DEF Restart, ghosts, TypeOK

LEMMA TypeStep == TypeOK /\ [Next]_vars => TypeOK'
<1>. SUFFICES ASSUME TypeOK, [Next]_vars PROVE TypeOK'
  OBVIOUS
<1>1. CASE UNCHANGED vars
  BY <1>1 DEF vars, TypeOK
<1>. QED  BY <1>1, HostTyped, ClientTyped, RestartTyped DEF Next

\* Every variable keeps the type the code gives it, whatever hosts share the directory.
THEOREM TypeCorrect == Spec => []TypeOK
BY InitTyped, TypeStep, PTL DEF Spec

-----------------------------------------------------------------------------
(* What the client gets                                                    *)

\* Events are numbered from one, in the order of their appending.
Ids ==
    /\ \A i \in DOMAIN queue : queue[i].id <= appended /\ queue[i].seq >= 1
    /\ \A i, j \in DOMAIN queue : i < j => queue[i].id < queue[j].id
    /\ \A k \in DOMAIN client.got : client.got[k] <= appended

Growing ==
    tangled = "no" => \A i, j \in DOMAIN queue : i < j => queue[i].seq < queue[j].seq

\* What the client got is in order; what is behind cursor c is newer; what is not is there.
Ascending(got) == \A a, b \in DOMAIN got : a < b => got[a] < got[b]
Fresh(q, c, got) == \A k \in DOMAIN q : q[k].seq > c => \A a \in DOMAIN got : got[a] < q[k].id
Covered(q, c, got) == \A k \in DOMAIN q : q[k].seq <= c => \E a \in DOMAIN got : got[a] = q[k].id

\* Nothing comes twice, as all that is behind the cursor is newer than what the client got.
InSequence ==
    client.kind = "stream" \/ tangled = "no" =>
        Ascending(client.got) /\ Fresh(queue, client.cursor, client.got)

\* The cursor of this queue is no higher than its last number: what is appended is behind it.
Complete ==
    tangled = "no" /\ ~StaleCursor =>
        client.cursor <= LastSeq(queue) /\ Covered(queue, client.cursor, client.got)

ClientInv == Ids /\ Growing /\ InSequence /\ Complete /\ client.era <= era

LEMMA AppendInv ==
  ASSUME TypeOK, ClientInv, NEW h \in Hosts, AppendQueue(h), UNCHANGED <<client, era>>
  PROVE  ClientInv'
<1>. PICK q \in Seq(Item) : q = queue
  BY DEF TypeOK
<1>. PICK c \in Client : c = client
  BY DEF TypeOK
<1>. PICK last \in Nat : last = LastSeq(q)
  BY LastSeqIs
<1>. PICK item \in Item : /\ queue' = Append(q, item) /\ item.id = appended + 1 /\ item.seq >= 1
                          /\ tangled' = IF item.seq > last THEN tangled ELSE "yes"
  BY AppendFacts
<1>1. Append(q, item) \in Seq(Item)
  OBVIOUS
<1>. PICK r \in Seq(Item) : r = Append(q, item)
  BY <1>1
<1>2. /\ DOMAIN r = 1..(Len(q) + 1) /\ DOMAIN q = 1..Len(q) /\ Len(q) \in Nat
      /\ r[Len(q) + 1] = item /\ \A i \in DOMAIN q : r[i] = q[i]
  OBVIOUS
<1>3. /\ \A i \in DOMAIN q : q[i].id \in Nat /\ q[i].seq \in Nat
      /\ \A k \in DOMAIN c.got : c.got[k] \in Nat
      /\ c.cursor \in Nat /\ appended \in Nat /\ item.seq \in Nat
  <2>1. \A i \in DOMAIN q : q[i] \in Item
    OBVIOUS
  <2>. PICK got \in Seq(1..MaxEvents) : got = c.got
    BY DEF Client
  <2>2. \A k \in DOMAIN c.got : c.got[k] \in 1..MaxEvents
    <3>1. \A k \in DOMAIN got : got[k] \in 1..MaxEvents
      BY LenProperties, ElementOfSeq
    <3>. QED  BY <3>1
  <2>. QED  BY <2>1, <2>2, BoundsAssumption DEF Item, Client, TypeOK
<1>4. queue' = r /\ client' = c /\ appended' = appended + 1 /\ era' = era
  BY AppendFacts
<1>5. tangled' = "no" => tangled = "no" /\ item.seq > last
  OBVIOUS
<1>6. tangled = "no" => \A i \in DOMAIN q : q[i].seq <= last
  <2>1. q # <<>> => last = q[Len(q)].seq /\ Len(q) \in DOMAIN q
    BY LastSeqOf
  <2>2. tangled = "no" => \A i, j \in DOMAIN q : i < j => q[i].seq < q[j].seq
    BY DEF ClientInv, Growing
  <2>. SUFFICES ASSUME tangled = "no", NEW i \in DOMAIN q
                PROVE  q[i].seq <= last
    OBVIOUS
  <2>3. q # <<>> /\ i <= Len(q) /\ i \in Nat
    BY <1>2
  <2>4. CASE i = Len(q)
    BY <1>3, <2>1, <2>3, <2>4
  <2>5. CASE i < Len(q)
    BY <1>3, <2>1, <2>2, <2>3, <2>5
  <2>. QED  BY <1>2, <2>3, <2>4, <2>5
<1>7. Ids'
  BY <1>2, <1>3, <1>4 DEF ClientInv, Ids
<1>8. Growing'
  BY <1>2, <1>3, <1>4, <1>5, <1>6 DEF ClientInv, Growing
<1>9. InSequence'
  <2>1. client.kind = "stream" \/ tangled' = "no" => client.kind = "stream" \/ tangled = "no"
    BY <1>5
  <2>2. \A k \in DOMAIN c.got : c.got[k] < appended + 1
    BY <1>3 DEF ClientInv, Ids
  <2>. QED  BY <1>2, <1>3, <1>4, <2>1, <2>2 DEF ClientInv, InSequence, Ascending, Fresh
<1>10. Complete'
  <2>. SUFFICES ASSUME tangled' = "no", ~StaleCursor'
                PROVE  c.cursor <= item.seq /\ Covered(r, c.cursor, c.got)
    <3>1. LastSeq(r) = item.seq
      BY LastSeqIs
    <3>. QED  BY <1>4, <3>1 DEF Complete
  <2>1. ~StaleCursor
    BY <1>4 DEF StaleCursor
  <2>2. c.cursor <= last /\ Covered(q, c.cursor, c.got)
    BY <1>5, <2>1 DEF ClientInv, Complete
  <2>3. c.cursor < item.seq
    BY <1>3, <1>5, <2>2
  <2>4. \A i \in DOMAIN r : r[i].seq <= c.cursor => i \in DOMAIN q
    BY <1>2, <1>3, <2>3
  <2>. QED  BY <1>2, <1>3, <1>4, <2>2, <2>3, <2>4 DEF Covered
<1>. QED  BY <1>4, <1>7, <1>8, <1>9, <1>10 DEF ClientInv

\* A new queue is behind every cursor but zero, and empty.
LEMMA ResetInv ==
  ASSUME TypeOK, ClientInv, queue' = <<>>, era' = era + 1, UNCHANGED <<client, appended, tangled>>
  PROVE  ClientInv'
<1>1. client.era \in Nat /\ era \in Nat /\ client.cursor \in Nat
  BY DEF TypeOK, Client
<1>2. Ids' /\ Growing' /\ InSequence'
  BY DEF ClientInv, Ids, Growing, InSequence, Fresh
<1>3. Complete'
  <2>1. client.cursor > 0 => StaleCursor'
    BY <1>1 DEF ClientInv, StaleCursor
  <2>2. LastSeq(<<>>) = 0
    BY DEF LastSeq
  <2>. QED  BY <1>1, <2>1, <2>2 DEF Complete, Covered
<1>. QED  BY <1>1, <1>2, <1>3 DEF ClientInv

\* A step that leaves the queue and what the client has seen.
LEMMA StillInv ==
  ASSUME ClientInv, UNCHANGED <<queue, appended, tangled, era>>,
         client'.got = client.got, client'.cursor = client.cursor,
         client'.era = client.era, client'.kind = client.kind
  PROVE  ClientInv'
BY DEF ClientInv, Ids, Growing, InSequence, Complete, StaleCursor, LastSeq

Ordered(items, pos, q, c, n) ==
    /\ \A i \in DOMAIN items : pos[i] \in Nat /\ i \in Nat
    /\ \A i \in DOMAIN items : pos[i] \in DOMAIN q /\ q[pos[i]] = items[i] /\ items[i].seq > c
    /\ \A i, j \in DOMAIN items : i < j => pos[i] < pos[j]
    /\ \A k \in DOMAIN q : q[k].seq > c => \E i \in DOMAIN items : pos[i] = k
    /\ \A i \in 1..n : i \in DOMAIN items
    /\ \A i \in DOMAIN items : i <= n => i \in 1..n

LEMMA SelectsFacts ==
  ASSUME NEW q \in Seq(Item), NEW c \in Nat, NEW items, NEW pos, Selects(items, pos, q, c, Len(q)),
         NEW n \in Nat, n <= Len(items)
  PROVE  Ordered(items, pos, q, c, n)
<1>1. items \in Seq(Item) /\ pos \in [DOMAIN items -> 1..Len(q)]
  BY DEF Selects
<1>2. DOMAIN items = 1..Len(items) /\ Len(items) \in Nat /\ DOMAIN q = 1..Len(q) /\ Len(q) \in Nat
  BY <1>1
<1>3. \A i \in DOMAIN items : pos[i] \in 1..Len(q)
  BY <1>1
<1>. QED  BY <1>2, <1>3 DEF Selects, Ordered

\* The client's list after n events more.
Joins(got, old, items, n) ==
    /\ \A k \in DOMAIN old : k \in DOMAIN got /\ got[k] = old[k]
    /\ \A i \in 1..n : Len(old) + i \in DOMAIN got /\ got[Len(old) + i] = items[i].id
    /\ \A k \in DOMAIN got : k \in DOMAIN old \/ \E i \in 1..n : k = Len(old) + i

LEMMA JoinsIs ==
  ASSUME NEW T, NEW old \in Seq(T), NEW n \in Nat, NEW items, \A i \in 1..n : items[i].id \in T
  PROVE  Joins(old \o [i \in 1..n |-> items[i].id], old, items, n)
<1>. DEFINE more == [i \in 1..n |-> items[i].id]
<1>1. more \in [1..n -> T] /\ \A i \in 1..n : more[i] = items[i].id
  OBVIOUS
<1>2. more \in Seq(T)
  BY <1>1, Listed
<1>3. DOMAIN more = 1..n
  OBVIOUS
<1>. HIDE DEF more
<1>4. Len(more) = n
  BY <1>2, <1>3
<1>5. /\ old \o more \in Seq(T) /\ Len(old \o more) = Len(old) + n /\ Len(old) \in Nat
      /\ \A k \in 1..(Len(old) + n) : (old \o more)[k] = IF k <= Len(old) THEN old[k] ELSE more[k - Len(old)]
  <2>. HIDE <1>1
  <2>. QED  BY <1>2, <1>4
<1>. PICK got \in Seq(T) : got = old \o more
  BY <1>5
<1>6. /\ Len(got) = Len(old) + n /\ DOMAIN got = 1..Len(got) /\ DOMAIN old = 1..Len(old) /\ Len(old) \in Nat
      /\ \A k \in 1..Len(got) : got[k] = IF k <= Len(old) THEN old[k] ELSE more[k - Len(old)]
  BY <1>5
<1>7. \A k \in DOMAIN old : k \in DOMAIN got /\ got[k] = old[k]
  BY <1>6
<1>8. ASSUME NEW i \in 1..n PROVE Len(old) + i \in DOMAIN got /\ got[Len(old) + i] = items[i].id
  <2>1. Len(old) + i \in 1..Len(got) /\ ~(Len(old) + i <= Len(old)) /\ (Len(old) + i) - Len(old) = i
    BY <1>6
  <2>. QED  BY <1>1, <1>6, <2>1
<1>9. ASSUME NEW k \in DOMAIN got, k \notin DOMAIN old PROVE \E i \in 1..n : k = Len(old) + i
  <2>1. k - Len(old) \in 1..n /\ k = Len(old) + (k - Len(old))
    BY <1>6, <1>9
  <2>. QED  BY <2>1
<1>10. Joins(got, old, items, n)
  BY <1>7, <1>8, <1>9 DEF Joins
<1>. QED  BY <1>10 DEF more

\* A cursor that does not fall and is no lower than what was taken.
Reaches(top, c, items, n) == top >= c /\ \A i \in 1..n : top >= items[i].seq

\* Taking the beginning of an answer keeps the list in order, and what is left behind it.
LEMMA TakeInOrder ==
  ASSUME NEW q \in Seq(Item), NEW c \in Nat, NEW items, NEW pos, Selects(items, pos, q, c, Len(q)),
         NEW n \in Nat, n <= Len(items), NEW top \in Nat, Reaches(top, c, items, n),
         NEW old \in Seq(1..MaxEvents), NEW got, Joins(got, old, items, n),
         \A i, j \in DOMAIN q : i < j => q[i].id < q[j].id,
         Ascending(old), Fresh(q, c, old)
  PROVE  Ascending(got) /\ Fresh(q, top, got)
<1>. USE DEF Ascending, Fresh, Reaches
<1>0. Ordered(items, pos, q, c, n)
  BY SelectsFacts
<1>1. \A i \in DOMAIN q : q[i].seq \in Nat /\ q[i].id \in Nat
  <2>1. \A i \in DOMAIN q : q[i] \in Item
    OBVIOUS
  <2>. QED  BY <2>1, BoundsAssumption DEF Item
<1>2. Len(old) \in Nat /\ DOMAIN old = 1..Len(old)
  OBVIOUS
<1>3. \A i \in 1..n : i \in DOMAIN items /\ pos[i] \in DOMAIN q /\ got[Len(old) + i] = q[pos[i]].id /\ q[pos[i]].seq > c
  BY <1>0 DEF Joins, Ordered
<1>n. DOMAIN got \subseteq Nat
  BY <1>2 DEF Joins
<1>4. ASSUME NEW a \in DOMAIN got, NEW b \in DOMAIN got, a < b PROVE got[a] < got[b]
  <2>0. a \in Nat /\ b \in Nat
    BY <1>n
  <2>1. CASE b \in DOMAIN old
    <3>1. a \notin DOMAIN old => \E i \in 1..n : a = Len(old) + i
      BY DEF Joins
    <3>2. a \in DOMAIN old
      BY <1>2, <1>4, <2>0, <2>1, <3>1
    <3>. QED  BY <1>4, <2>1, <3>2 DEF Joins
  <2>2. ASSUME NEW j \in 1..n, b = Len(old) + j PROVE got[a] < got[b]
    <3>1. CASE a \in DOMAIN old
      BY <1>3, <2>2, <3>1 DEF Joins
    <3>2. ASSUME NEW i \in 1..n, a = Len(old) + i PROVE got[a] < got[b]
      <4>1. i < j
        BY <1>2, <1>4, <2>2, <3>2
      <4>2. pos[i] < pos[j]
        BY <1>0, <1>3, <4>1 DEF Ordered
      <4>. QED  BY <1>3, <2>2, <3>2, <4>2
    <3>. QED  BY <3>1, <3>2 DEF Joins
  <2>. QED  BY <2>1, <2>2 DEF Joins
<1>5. ASSUME NEW k \in DOMAIN q, q[k].seq > top, NEW a \in DOMAIN got PROVE got[a] < q[k].id
  <2>1. q[k].seq > c
    BY <1>1, <1>5
  <2>2. CASE a \in DOMAIN old
    BY <2>1, <2>2 DEF Joins
  <2>3. ASSUME NEW i \in 1..n, a = Len(old) + i PROVE got[a] < q[k].id
    <3>1. PICK l \in DOMAIN items : pos[l] = k
      BY <1>0, <2>1 DEF Ordered
    <3>2. l \notin 1..n
      <4>1. items[l] = q[k]
        BY <1>0, <3>1 DEF Ordered
      <4>2. l \in 1..n => top >= q[k].seq
        BY <4>1
      <4>. QED  BY <1>1, <1>5, <4>2
    <3>3. l \in Nat /\ ~(l <= n)
      BY <1>0, <3>1, <3>2 DEF Ordered
    <3>4. pos[i] < k
      <4>1. i < l
        BY <3>3
      <4>. QED  BY <1>0, <1>3, <3>1, <4>1 DEF Ordered
    <3>. QED  BY <1>3, <2>3, <3>4
  <2>. QED  BY <2>2, <2>3 DEF Joins
<1>. QED  BY <1>4, <1>5

\* While the numbers grow, no line up to the cursor is left out.
LEMMA TakeComplete ==
  ASSUME NEW q \in Seq(Item), NEW c \in Nat, NEW items, NEW pos, Selects(items, pos, q, c, Len(q)),
         NEW n \in Nat, n <= Len(items), NEW top, top = c \/ \E i \in 1..n : top = items[i].seq,
         NEW old \in Seq(1..MaxEvents), NEW got, Joins(got, old, items, n),
         \A i, j \in DOMAIN q : i < j => q[i].seq < q[j].seq,
         c <= LastSeq(q), Covered(q, c, old)
  PROVE  top <= LastSeq(q) /\ Covered(q, top, got)
<1>. USE DEF Covered
<1>0. Ordered(items, pos, q, c, n)
  BY SelectsFacts
<1>1. \A i \in DOMAIN q : q[i].seq \in Nat /\ i \in Nat
  <2>1. \A i \in DOMAIN q : q[i] \in Item
    OBVIOUS
  <2>. QED  BY <2>1 DEF Item
<1>2. \A i \in 1..n : i \in DOMAIN items /\ pos[i] \in DOMAIN q /\ items[i] = q[pos[i]]
  BY <1>0 DEF Ordered
<1>3. \A k \in DOMAIN q : q[k].seq <= LastSeq(q)
  <2>. SUFFICES ASSUME NEW k \in DOMAIN q PROVE q[k].seq <= LastSeq(q)
    OBVIOUS
  <2>1. LastSeq(q) = q[Len(q)].seq /\ Len(q) \in DOMAIN q
    BY LastSeqOf
  <2>2. k = Len(q) \/ k < Len(q)
    OBVIOUS
  <2>. QED  BY <1>1, <2>1, <2>2
<1>4. top <= LastSeq(q)
  BY <1>2, <1>3
<1>5. ASSUME NEW k \in DOMAIN q, q[k].seq <= top PROVE \E a \in DOMAIN got : got[a] = q[k].id
  <2>1. CASE q[k].seq <= c
    BY <2>1 DEF Joins
  <2>2. CASE ~(q[k].seq <= c)
    <3>1. PICK i \in 1..n : top = q[pos[i]].seq
      BY <1>2, <1>5, <2>2
    <3>2. PICK l \in DOMAIN items : pos[l] = k
      <4>1. q[k].seq > c
        BY <1>1, <2>2
      <4>. QED  BY <1>0, <4>1 DEF Ordered
    <3>3. ~(pos[i] < k)
      <4>1. pos[i] \in DOMAIN q /\ q[pos[i]].seq \in Nat /\ q[k].seq \in Nat
        BY <1>1, <1>2
      <4>2. pos[i] < k => q[pos[i]].seq < q[k].seq
        BY <4>1
      <4>. QED  BY <1>5, <3>1, <4>1, <4>2
    <3>4. ~(i < l)
      BY <1>0, <1>2, <3>2, <3>3 DEF Ordered
    <3>5. l \in 1..n
      <4>1. l \in Nat
        BY <1>0 DEF Ordered
      <4>2. l <= n
        BY <3>4, <4>1
      <4>. QED  BY <1>0, <4>2 DEF Ordered
    <3>6. got[Len(old) + l] = q[k].id /\ Len(old) + l \in DOMAIN got
      BY <1>2, <3>2, <3>5 DEF Joins
    <3>. QED  BY <3>6
  <2>. QED  BY <2>1, <2>2
<1>. QED  BY <1>4, <1>5

Takes(n, top) ==
    /\ client'.got = client.got \o [i \in 1..n |-> Batch[i].id]
    /\ client'.cursor = top /\ client'.kind = client.kind
    /\ client'.era = IF client.cursor = 0 THEN era ELSE client.era

\* The client takes the beginning of a batch.
LEMMA TakeInv ==
  ASSUME TypeOK, ClientInv, UNCHANGED <<queue, appended, tangled, era>>,
         NEW n, NEW top, Offered(n, top), Takes(n, top)
  PROVE  ClientInv'
<1>. USE DEF Offered, Takes
<1>. PICK q \in Seq(Item) : q = queue
  BY DEF TypeOK
<1>. PICK c \in Nat : c = client.cursor
  BY DEF TypeOK, Client
<1>. PICK old \in Seq(1..MaxEvents) : old = client.got
  BY DEF TypeOK, Client
<1>. PICK items, pos : /\ Selects(items, pos, q, c, Len(q))
                       /\ Batch \in Seq(Item) /\ Len(Batch) <= Len(items)
                       /\ \A i \in 1..Len(Batch) : Batch[i] = items[i]
  BY BatchSelects
<1>0. n \in Nat /\ n <= Len(items) /\ \A i \in 1..n : Batch[i] = items[i]
  <2>1. Len(Batch) \in Nat /\ Len(items) \in Nat
    BY DEF Selects
  <2>. QED  BY <2>1
<1>1. Ordered(items, pos, q, c, n)
  BY <1>0, SelectsFacts
<1>2. \A i \in DOMAIN q : q[i].seq \in Nat /\ q[i].id \in 1..MaxEvents
  <2>1. \A i \in DOMAIN q : q[i] \in Item
    OBVIOUS
  <2>. QED  BY <2>1 DEF Item
<1>3. \A i \in 1..n : items[i].id \in 1..MaxEvents /\ items[i].seq \in Nat /\ items[i].seq > c
  BY <1>1, <1>2 DEF Ordered
<1>. DEFINE got == old \o [i \in 1..n |-> items[i].id]
<1>4. client'.got = got
  BY <1>0
<1>5. Joins(got, old, items, n)
  BY <1>0, <1>3, JoinsIs
<1>. HIDE DEF got
<1>7. \A i, j \in DOMAIN q : i < j => q[i].id < q[j].id
  BY DEF ClientInv, Ids
<1>8. tangled = "no" => \A i, j \in DOMAIN q : i < j => q[i].seq < q[j].seq
  BY DEF ClientInv, Growing
\* The cursor does not fall, and is no lower than what was taken.
<1>9. ASSUME client.kind = "stream" \/ tangled = "no"
      PROVE  Reaches(top, c, items, n)
  <2>. USE DEF Reaches
  <2>1. CASE client.kind = "stream"
    BY <1>0, <2>1
  <2>2. CASE client.kind = "page" /\ n = 0
    BY <2>2
  <2>3. CASE client.kind = "page" /\ n > 0
    <3>1. n \in 1..n /\ top = items[n].seq
      BY <1>0, <2>3
    <3>2. ASSUME NEW i \in 1..n PROVE items[i].seq <= top
      <4>1. i = n \/ i < n
        BY <1>0
      <4>2. i < n => pos[i] < pos[n]
        BY <1>1, <3>1 DEF Ordered
      <4>3. /\ pos[i] \in DOMAIN q /\ pos[n] \in DOMAIN q
            /\ q[pos[i]] = items[i] /\ q[pos[n]] = items[n]
        BY <1>1, <3>1 DEF Ordered
      <4>4. i < n => items[i].seq < items[n].seq
        BY <1>8, <1>9, <2>3, <4>2, <4>3
      <4>. QED  BY <1>3, <3>1, <4>1, <4>4
    <3>. QED  BY <1>3, <3>1, <3>2
  <2>. QED  BY <1>0, <2>1, <2>2, <2>3
<1>10. Ids'
  <2>1. \A i \in DOMAIN q : q[i].id <= appended
    BY DEF ClientInv, Ids
  <2>2. \A i \in 1..n : items[i].id <= appended
    BY <1>1, <2>1 DEF Ordered
  <2>3. \A k \in DOMAIN old : old[k] <= appended
    BY DEF ClientInv, Ids
  <2>4. \A k \in DOMAIN got : got[k] <= appended
    <3>1. \A k \in DOMAIN old : got[k] <= appended
      BY <1>5, <2>3 DEF Joins
    <3>2. \A i \in 1..n : got[Len(old) + i] <= appended
      BY <1>5, <2>2 DEF Joins
    <3>. QED  BY <1>5, <3>1, <3>2 DEF Joins
  <2>. QED  BY <1>4, <2>4 DEF ClientInv, Ids
<1>11. Growing'
  BY DEF ClientInv, Growing
<1>12. InSequence'
  <2>. SUFFICES ASSUME client.kind = "stream" \/ tangled = "no"
                PROVE  Ascending(got) /\ Fresh(q, top, got)
    BY <1>4 DEF InSequence
  <2>1. Ascending(old) /\ Fresh(q, c, old)
    BY DEF ClientInv, InSequence
  <2>2. Reaches(top, c, items, n)
    BY <1>9
  <2>. QED  BY <1>0, <1>5, <1>7, <2>1, <2>2, TakeInOrder
<1>13. Complete'
  <2>. SUFFICES ASSUME tangled = "no", ~StaleCursor'
                PROVE  top <= LastSeq(q) /\ Covered(q, top, got)
    BY <1>4 DEF Complete
  <2>1. ~StaleCursor
    BY <1>9 DEF StaleCursor, Reaches
  <2>2. c <= LastSeq(q) /\ Covered(q, c, old)
    BY <2>1 DEF ClientInv, Complete
  <2>3. top = c \/ \E i \in 1..n : top = items[i].seq
    BY <1>0
  <2>4. \A i, j \in DOMAIN q : i < j => q[i].seq < q[j].seq
    BY <1>8
  <2>. QED  BY <1>0, <1>5, <2>2, <2>3, <2>4, TakeComplete
<1>14. client'.era <= era'
  BY DEF ClientInv, TypeOK
<1>. QED  BY <1>10, <1>11, <1>12, <1>13, <1>14 DEF ClientInv

LEMMA ClientInvStep ==
  ASSUME TypeOK, ClientInv, [Next]_vars
  PROVE  ClientInv'
<1>1. ASSUME NEW h \in Hosts, HostStep(h) PROVE ClientInv'
  <2>1. CASE AppendQueue(h) /\ UNCHANGED <<client, era>>
    BY <2>1, AppendInv
  <2>2. CASE ResetUnlink(h)
    <3>1. queue' = <<>> /\ era' = era + 1 /\ UNCHANGED <<client, appended, tangled>>
      BY <2>2 DEF ResetUnlink, ghosts
    <3>. QED  BY <3>1, ResetInv
  <2>3. CASE UNCHANGED <<queue, client, era, ghosts>>
    BY <2>3, StillInv DEF ghosts
  <2>4. \/ AppendQueue(h) /\ UNCHANGED <<client, era>>
        \/ ResetUnlink(h)
        \/ UNCHANGED <<queue, client, era, ghosts>>
    <3>1. CASE ResetUnload(h) \/ ResetZero(h) \/ Begin(h) \/ Resume(h) \/ NoResume(h) \/ Mark(h) \/ Fail(h) \/ ResumeRun(h)
      BY <3>1 DEF ResetUnload, ResetZero, Begin, Resume, NoResume, Mark, Fail, ResumeRun
    <3>2. CASE Emit(h) \/ Announce(h) \/ Steer(h)
      BY <3>2 DEF Emit, Announce, Steer
    <3>3. CASE PauseRun(h) \/ CancelRun(h)
      BY <3>3 DEF PauseRun, CancelRun, Abort
    <3>. QED  BY <1>1, <3>1, <3>2, <3>3 DEF HostStep
  <2>. QED  BY <2>1, <2>2, <2>3, <2>4
<1>2. CASE Connect \/ Stream \/ StreamOn \/ Break \/ Page
  <2>1. UNCHANGED <<queue, appended, tangled, era>>
    BY <1>2, ClientStep DEF ghosts
  <2>. PICK c \in Client : c = client
    BY DEF TypeOK
  <2>. PICK at \in {"away", "open", "sent"} :
               \/ client' = [client EXCEPT !.at = at]
               \/ \E n, top : Offered(n, top) /\ client' = [Take(Batch, n, top) EXCEPT !.at = at]
    BY <1>2, ClientStep
  <2>2. CASE client' = [client EXCEPT !.at = at]
    <3>1. \A x \in Client : LET y == [x EXCEPT !.at = at]
                            IN  y.got = x.got /\ y.cursor = x.cursor /\ y.era = x.era /\ y.kind = x.kind
      BY DEF Client
    <3>. QED  BY <2>1, <2>2, <3>1, StillInv
  <2>3. ASSUME NEW n, NEW top, Offered(n, top), client' = [Take(Batch, n, top) EXCEPT !.at = at]
        PROVE  ClientInv'
    <3>. PICK next \in Client :
               /\ next = Take(Batch, n, top)
               /\ next.kind = client.kind /\ next.cursor = top
               /\ next.era = IF client.cursor = 0 THEN era ELSE client.era
               /\ next.got = client.got \o [i \in 1..n |-> Batch[i].id]
      <4>1. n \in 0..Len(Batch) /\ top \in Nat
        BY <2>3 DEF Offered
      <4>. QED  BY <4>1, TakeTyped
    <3>1. Takes(n, top)
      BY <2>3 DEF Client, Takes
    <3>. QED  BY <2>1, <2>3, <3>1, TakeInv
  <2>. QED  BY <2>2, <2>3
<1>3. CASE Restart
  <2>. PICK c \in Client : c = client
    BY DEF TypeOK
  <2>1. UNCHANGED <<queue, appended, tangled, era>> /\ client' = [c EXCEPT !.at = "away"]
    BY <1>3 DEF Restart, ghosts
  <2>2. client'.got = c.got /\ client'.cursor = c.cursor /\ client'.era = c.era /\ client'.kind = c.kind
    BY <2>1 DEF Client
  <2>. QED  BY <2>1, <2>2, StillInv
<1>4. CASE UNCHANGED vars
  BY <1>4, StillInv DEF vars
<1>. QED  BY <1>1, <1>2, <1>3, <1>4 DEF Next

LEMMA InitClientInv == Init => ClientInv
<1>. SUFFICES ASSUME Init PROVE ClientInv
  OBVIOUS
<1>1. queue = <<>> /\ client.got = <<>> /\ client.cursor = 0 /\ client.era = 0 /\ era = 0
  BY DEF Init
<1>2. LastSeq(queue) = 0
  BY <1>1 DEF LastSeq
<1>. QED  BY <1>1, <1>2 DEF ClientInv, Ids, Growing, InSequence, Complete, Ascending, Fresh, Covered

LEMMA ClientInvariance == Spec => []ClientInv
BY InitTyped, TypeStep, InitClientInv, ClientInvStep, PTL DEF Spec


\* However many hosts append to the directory, restart and reset the queue: a stream sends
\* no event twice and none out of order, and neither do pages while the numbers grow
\* (internal_api/routes.py stream_events, get_events).
THEOREM NothingTwice == Spec => []InOrderOnce
<1>1. ClientInv => InOrderOnce
  BY DEF ClientInv, InSequence, InOrderOnce, Ascending
<1>. QED  BY <1>1, ClientInvariance, PTL

\* While the numbers grow, a client whose cursor is of this queue has every event up to
\* it: batches, limits, breaks and reconnections skip none.
THEOREM NothingLost == Spec => []NothingSkipped
<1>1. ClientInv => NothingSkipped
  BY DEF ClientInv, Complete, NothingSkipped, Covered, Got
<1>. QED  BY <1>1, ClientInvariance, PTL

-----------------------------------------------------------------------------
(* How events are numbered                                                 *)

\* A host never lags behind the file, unless an event slipped into a reset; before
\* the last step of a reset it has nothing loaded.
Ahead(h) ==
    /\ store[h].loaded = "yes" => store[h].next >= LastSeq(queue)
    /\ worker = [at |-> "zero", host |-> h] => store[h].loaded = "no"

Numbering(h) == slipped = "no" => tangled = "no" /\ Ahead(h)

\* An event is appended by the host whose numbering it is.
LEMMA AppendStep ==
  ASSUME TypeOK, NEW h \in Hosts, Numbering(h), AppendQueue(h), worker' = worker \/ worker' = Idle
  PROVE  Numbering(h)'
<1>. PICK s \in Store : s = store[h]
  BY DEF TypeOK
<1>. PICK last \in Nat : last = LastSeq(queue)
  BY LastSeqIs DEF TypeOK
<1>. PICK seq \in Nat : seq = Loaded(s) + 1 /\ (s.loaded = "yes" => seq = s.next + 1) /\ (s.loaded = "no" => seq = last + 1)
  BY DEF Loaded, Store
<1>. PICK id \in 1..MaxEvents : id = appended + 1
  BY BoundsAssumption DEF AppendQueue, TypeOK
<1>. PICK item \in Item : item = [seq |-> seq, id |-> id]
  BY DEF Item
<1>. PICK t \in Store : t = [loaded |-> "yes", next |-> seq]
  BY DEF Store
<1>1. /\ queue' = Append(queue, item) /\ store' = [store EXCEPT ![h] = t]
      /\ tangled' = IF seq > last THEN tangled ELSE "yes"
      /\ slipped' = IF worker.at = "zero" /\ worker.host = h THEN "yes" ELSE slipped
  BY DEF AppendQueue
<1>2. LastSeq(queue') = seq
  BY <1>1, LastSeqIs DEF TypeOK
<1>3. ASSUME slipped' = "no" PROVE tangled' = "no" /\ Ahead(h)'
  <2>1. slipped = "no" /\ ~(worker.at = "zero" /\ worker.host = h)
    BY <1>1, <1>3 DEF TypeOK
  <2>2. seq > last
    <3>1. s.loaded = "yes" => s.next >= last
      BY <2>1 DEF Numbering, Ahead
    <3>2. s.loaded \in {"yes", "no"} /\ s.next \in Nat
      BY DEF Store
    <3>. QED  BY <3>1, <3>2
  <2>3. tangled' = "no"
    BY <1>1, <2>1, <2>2 DEF Numbering
  <2>4. store'[h] = t
    BY <1>1 DEF TypeOK
  <2>5. worker' # [at |-> "zero", host |-> h]
    BY <2>1 DEF Idle
  <2>. QED  BY <1>2, <2>3, <2>4, <2>5 DEF Ahead
<1>. QED  BY <1>3 DEF Numbering

\* A step that appends nothing and leaves the file and the store as they are.
LEMMA OtherStep ==
  ASSUME NEW h \in Hosts, Numbering(h), UNCHANGED <<queue, store, ghosts>>,
         worker' = worker \/ worker'.at # "zero"
  PROVE  Numbering(h)'
BY DEF Numbering, Ahead, ghosts

LEMMA InitNumbering == ASSUME Init, NEW h \in Hosts PROVE Numbering(h)
BY DEF Init, NoStore, Numbering, Ahead

\* Every step of the only host.
LEMMA HostNumbering ==
  ASSUME NEW h \in Hosts, TypeOK, Numbering(h), HostStep(h)
  PROVE  Numbering(h)'
<1>1. CASE ResetUnlink(h)
  <2>1. queue' = <<>> /\ UNCHANGED <<store, ghosts>> /\ worker' = [at |-> "unload", host |-> h]
    BY <1>1 DEF ResetUnlink
  <2>2. LastSeq(queue') = 0 /\ store[h].next \in Nat
    BY <2>1, LastSeqIs DEF TypeOK, Store
  <2>. QED  BY <2>1, <2>2 DEF Numbering, Ahead, ghosts
<1>2. CASE ResetUnload(h)
  <2>1. store'[h].loaded = "no" /\ UNCHANGED <<queue, ghosts>>
    BY <1>2 DEF ResetUnload, TypeOK, Store
  <2>. QED  BY <2>1 DEF Numbering, Ahead, ghosts
<1>3. CASE ResetZero(h)
  <2>1. worker' = [at |-> "begin", host |-> h] /\ UNCHANGED <<queue, ghosts>>
    BY <1>3 DEF ResetZero
  <2>2. store'[h].loaded = store[h].loaded
    BY <1>3 DEF ResetZero, TypeOK, Store
  <2>3. slipped = "no" => store[h].loaded = "no"
    BY <1>3 DEF ResetZero, WorkerAt, Numbering, Ahead
  <2>. QED  BY <2>1, <2>2, <2>3 DEF Numbering, Ahead, ghosts
<1>4. CASE Begin(h) \/ Resume(h) \/ Mark(h)
  <2>1. UNCHANGED <<queue, store, ghosts>> /\ worker'.at # "zero"
    BY <1>4 DEF Begin, Resume, Mark
  <2>. QED  BY <2>1, OtherStep
<1>5. CASE NoResume(h) \/ ResumeRun(h)
  <2>1. UNCHANGED <<queue, store, ghosts, worker>>
    BY <1>5 DEF NoResume, ResumeRun
  <2>. QED  BY <2>1, OtherStep
<1>6. CASE Fail(h)
  <2>1. UNCHANGED <<queue, store, ghosts>> /\ worker' = Idle
    BY <1>6 DEF Fail
  <2>. QED  BY <2>1, OtherStep, IdleWorker
<1>7. CASE Emit(h) \/ Steer(h) \/ Announce(h)
  <2>1. AppendQueue(h) /\ (worker' = worker \/ worker' = Idle)
    BY <1>7 DEF Emit, Steer, Announce
  <2>. QED  BY <2>1, AppendStep
<1>8. CASE PauseRun(h) \/ CancelRun(h)
  <2>1. (AppendQueue(h) /\ worker' = worker) \/ UNCHANGED <<queue, store, ghosts, worker>>
    BY <1>8 DEF PauseRun, CancelRun, Abort
  <2>. QED  BY <2>1, AppendStep, OtherStep
<1>. QED  BY <1>1, <1>2, <1>3, <1>4, <1>5, <1>6, <1>7, <1>8 DEF HostStep

LEMMA NextNumbering ==
  ASSUME NEW h \in Hosts, Hosts = {h}, TypeOK, Numbering(h), [Next]_vars
  PROVE  Numbering(h)'
<1>1. CASE HostStep(h)
  BY <1>1, HostNumbering
<1>2. CASE Connect \/ Stream \/ StreamOn \/ Break \/ Page
  <2>1. UNCHANGED <<queue, store, ghosts, worker>>
    BY <1>2 DEF Connect, Stream, StreamOn, Break, Page
  <2>. QED  BY <2>1, OtherStep
<1>3. CASE Restart
  <2>1. store'[h].loaded = "no" /\ UNCHANGED <<queue, ghosts>>
    BY <1>3 DEF Restart, NoStore
  <2>. QED  BY <2>1 DEF Numbering, Ahead, ghosts
<1>4. CASE UNCHANGED vars
  BY <1>4, OtherStep DEF vars, ghosts
<1>. QED  BY <1>1, <1>2, <1>3, <1>4 DEF Next

\* A run that has its project directory to itself numbers its events in growing order,
\* over restarts, resumes and requests that append beside the worker; only an event
\* appended between the last two steps of a reset breaks that (store/runtime.py:79).
THEOREM NumbersAlwaysGrow == Spec => []NumbersGrow
<1>1. CASE Cardinality(Hosts) # 1
  <2>1. NumbersGrow
    BY <1>1 DEF NumbersGrow
  <2>. QED  BY <2>1, PTL
<1>2. CASE Cardinality(Hosts) = 1
  <2>. PICK h : Hosts = {h}
    BY <1>2, FS_Singleton, HostsAssumption
  <2>1. Init => Numbering(h)
    BY InitNumbering
  <2>2. TypeOK /\ Numbering(h) /\ [Next]_vars => Numbering(h)'
    BY NextNumbering
  <2>3. TypeOK /\ Numbering(h) => NumbersGrow
    BY DEF TypeOK, Numbering, NumbersGrow
  <2>. QED  BY <2>1, <2>2, <2>3, TypeCorrect, PTL DEF Spec
<1>. QED  BY <1>1, <1>2
=============================================================================
