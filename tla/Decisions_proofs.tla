-------------------------- MODULE Decisions_proofs --------------------------
(***************************************************************************)
(* Theorems about Decisions, for every catalog of intents, every knowledge *)
(* base and budget, and any number of retries.                             *)
(***************************************************************************)
EXTENDS Decisions, FiniteSetTheorems, FunctionTheorems, NaturalsInduction, WellFoundedInduction, TLAPS

-----------------------------------------------------------------------------
(* Numbers: least and greatest members.                                    *)

LEMMA Least ==
  ASSUME NEW S \in SUBSET Nat, S # {}
  PROVE  \E m \in S : \A k \in S : m <= k
<1>1. IsWellFoundedOn(OpToRel(<, Nat), Nat)
  BY NatLessThanWellFounded
<1>2. PICK m \in S : \A k \in S : ~(<<k, m>> \in OpToRel(<, Nat))
  BY <1>1, WFMin
<1>3. \A k \in S : ~(k < m)
  BY <1>2, Zenon DEF OpToRel
<1>4. m \in Nat /\ \A k \in S : k \in Nat
  OBVIOUS
<1>. QED  BY <1>3, <1>4

LEMMA MinOfTwo ==
  ASSUME NEW a \in Int, NEW b \in Int
  PROVE  Min({a, b}) = IF a <= b THEN a ELSE b
<1>. DEFINE m == IF a <= b THEN a ELSE b
<1>1. m \in {a, b} /\ \A y \in {a, b} : m =< y
  OBVIOUS
<1>2. Min({a, b}) \in {a, b} /\ \A y \in {a, b} : Min({a, b}) =< y
  <2>. HIDE DEF m
  <2>1. Min({a, b}) = CHOOSE x \in {a, b} : \A y \in {a, b} : x =< y
    BY DEF Min
  <2>. QED  BY <1>1, <2>1, Zenon
<1>. QED  BY <1>1, <1>2

LEMMA Listed == \A S : \A n \in Nat : [1..n -> S] \subseteq Seq(S)
<1>1. \A S : Seq(S) = UNION {[1..n -> S] : n \in Nat}
  OBVIOUS
<1>. QED  BY <1>1, Zenon

LEMMA Beginning ==
  ASSUME NEW S, NEW s \in Seq(S), NEW n \in 0..Len(s)
  PROVE  /\ SubSeq(s, 1, n) \in Seq(S) /\ Len(SubSeq(s, 1, n)) = n
         /\ DOMAIN SubSeq(s, 1, n) = 1..n
         /\ \A i \in 1..n : SubSeq(s, 1, n)[i] = s[i]
OBVIOUS

LEMMA AttemptsIs ==
  Attempts = IF MaxRetries + 1 >= 1 THEN MaxRetries + 1 ELSE 1
<1>. DEFINE m == IF MaxRetries + 1 >= 1 THEN MaxRetries + 1 ELSE 1
            S == {1, MaxRetries + 1}
<1>1. m \in S /\ \A y \in S : m >= y
  BY DecisionsAssumption
<1>2. Attempts = CHOOSE x \in S : \A y \in S : x >= y
  BY DEF Attempts, Max
<1>3. Attempts \in S /\ \A y \in S : Attempts >= y
  <2>. HIDE DEF m, S
  <2>. QED  BY <1>1, <1>2, Zenon
<1>. QED  BY <1>1, <1>3, DecisionsAssumption

-----------------------------------------------------------------------------
(* Sorting.  SetToSeqs and CHOOSE are the model's sort: that there is an    *)
(* order is induction over the size of the set.                            *)

\* The sequences of SetToSeqs have every member of the set.
LEMMA SeqsCover ==
  ASSUME NEW S, IsFiniteSet(S), NEW o \in SetToSeqs(S)
  PROVE  /\ Cardinality(S) \in Nat
         /\ o \in [1..Cardinality(S) -> S] /\ Len(o) = Cardinality(S) /\ o \in Seq(S)
         /\ \A i, j \in DOMAIN o : i # j => o[i] # o[j]
         /\ \A x \in S : \E i \in DOMAIN o : o[i] = x
         /\ ToSet(o) = S
<1>. DEFINE n == Cardinality(S)
<1>1. n \in Nat
  BY FS_CardinalityType
<1>2. o \in [1..n -> S] /\ \A i, j \in 1..n : i # j => o[i] # o[j]
  BY DEF SetToSeqs
<1>3. o \in Injection(1..n, S)
  BY <1>2, Zenon DEF Injection, IsInjective
<1>4. Cardinality(1..n) = n
  BY <1>1, FS_Interval
<1>5. o \in Surjection(1..n, S)
  BY <1>3, <1>4, FS_Injection
<1>6. \A x \in S : \E i \in 1..n : o[i] = x
  BY <1>5, Zenon DEF Surjection
<1>7. DOMAIN o = 1..n /\ Len(o) = n /\ o \in Seq(S)
  <2>. HIDE DEF n
  <2>. QED  BY <1>1, <1>2
<1>8. ToSet(o) = S
  <2>. HIDE DEF n
  <2>. QED  BY <1>2, <1>6, <1>7 DEF ToSet
<1>. QED  BY <1>1, <1>2, <1>6, <1>7, <1>8

\* o lists S with R between any two.
Sorted(o, S, R) ==
    o \in SetToSeqs(S) /\ \A i, j \in DOMAIN o : i < j => <<o[i], o[j]>> \in R

Ordering(S, R) ==
    /\ \A x, y, z \in S : <<x, y>> \in R /\ <<y, z>> \in R => <<x, z>> \in R
    /\ \A x, y \in S : x # y => <<x, y>> \in R \/ <<y, x>> \in R

\* A member that comes after all others is appended to a list of them.
LEMMA SortedAppend ==
  ASSUME NEW S, IsFiniteSet(S), NEW R, NEW x \in S, NEW o, Sorted(o, S \ {x}, R),
         \A y \in S \ {x} : <<y, x>> \in R
  PROVE  \E p : Sorted(p, S, R)
<1>. DEFINE n == Cardinality(S)
            p == [i \in 1..n |-> IF i = n THEN x ELSE o[i]]
<1>1. n \in Nat /\ IsFiniteSet(S \ {x}) /\ Cardinality(S \ {x}) = n - 1
  BY FS_CardinalityType, FS_RemoveElement
<1>2. /\ o \in [1..(n - 1) -> S \ {x}]
      /\ \A i, j \in 1..(n - 1) : /\ i # j => o[i] # o[j]
                                  /\ i < j => <<o[i], o[j]>> \in R
  <2>1. o \in SetToSeqs(S \ {x}) /\ \A i, j \in DOMAIN o : i < j => <<o[i], o[j]>> \in R
    BY DEF Sorted
  <2>. QED  BY <1>1, <2>1 DEF SetToSeqs
<1>3. n - 1 \in Nat
  BY <1>1, FS_CardinalityType
<1>4. \A i \in 1..n : /\ i = n => p[i] = x
                      /\ i # n => i \in 1..(n - 1) /\ p[i] = o[i] /\ o[i] \in S /\ o[i] # x
  <2>. HIDE DEF n
  <2>. QED  BY <1>1, <1>2, <1>3
<1>5. p \in [1..n -> S] /\ DOMAIN p = 1..n
  BY <1>4
<1>6. \A i, j \in 1..n : i # j => p[i] # p[j]
  <2>. HIDE DEF n, p
  <2>. QED  BY <1>2, <1>4
<1>7. \A i, j \in 1..n : i < j => <<p[i], p[j]>> \in R
  <2>. HIDE DEF n, p
  <2>. TAKE i, j \in 1..n
  <2>. HAVE i < j
  <2>1. i \in 1..(n - 1) /\ p[i] = o[i] /\ o[i] \in S \ {x}
    BY <1>1, <1>4
  <2>2. CASE j = n
    BY <1>4, <2>1, <2>2
  <2>3. CASE j # n
    BY <1>2, <1>4, <2>1, <2>3
  <2>. QED  BY <2>2, <2>3
<1>8. Sorted(p, S, R)
  <2>1. p \in SetToSeqs(S)
    BY <1>5, <1>6 DEF SetToSeqs
  <2>. QED  BY <1>5, <1>7, <2>1 DEF Sorted
<1>. QED  BY <1>8

LEMMA SortExists ==
  ASSUME NEW S, IsFiniteSet(S), NEW R, Ordering(S, R)
  PROVE  \E o : Sorted(o, S, R)
<1>. DEFINE Bad == {k \in Nat : \E T \in SUBSET S : Cardinality(T) = k /\ ~\E o : Sorted(o, T, R)}
<1>1. SUFFICES ASSUME Bad # {} PROVE FALSE
  BY FS_CardinalityType
<1>2. PICK k \in Bad : \A l \in Bad : k <= l
  <2>1. Bad \in SUBSET Nat
    OBVIOUS
  <2>. HIDE DEF Bad
  <2>. QED  BY <1>1, <2>1, Least
<1>3. PICK T \in SUBSET S : Cardinality(T) = k /\ ~\E o : Sorted(o, T, R)
  BY <1>2
<1>4. IsFiniteSet(T) /\ k \in Nat
  BY <1>2, FS_Subset
<1>5. \A x \in T : \E o : Sorted(o, T \ {x}, R)
  <2>. SUFFICES ASSUME NEW x \in T, ~\E o : Sorted(o, T \ {x}, R) PROVE FALSE
    OBVIOUS
  <2>0. IsFiniteSet(T \ {x}) /\ Cardinality(T \ {x}) = k - 1
    BY <1>3, <1>4, FS_RemoveElement
  <2>1. IsFiniteSet(T \ {x}) /\ Cardinality(T \ {x}) = k - 1 /\ k - 1 \in Nat
    BY <2>0, FS_CardinalityType
  <2>2. k - 1 \in Bad
    BY <2>1
  <2>. HIDE DEF Bad
  <2>. QED  BY <1>2, <1>4, <2>1, <2>2
<1>6. T # {}
  <2>. SUFFICES ASSUME T = {} PROVE FALSE
    OBVIOUS
  <2>1. Cardinality(T) = 0
    BY FS_EmptySet
  <2>2. Sorted(<<>>, T, R)
    BY <2>1 DEF Sorted, SetToSeqs
  <2>. QED  BY <1>3, <2>2
<1>7. \E l \in T : \A y \in T \ {l} : <<y, l>> \in R
  <2>1. PICK x \in T : TRUE
    BY <1>6
  <2>2. PICK o : Sorted(o, T \ {x}, R)
    BY <1>5
  <2>3. IsFiniteSet(T \ {x})
    BY <1>4, FS_RemoveElement
  <2>4. /\ o \in [1..Cardinality(T \ {x}) -> T \ {x}] /\ Cardinality(T \ {x}) \in Nat
        /\ \A y \in T \ {x} : \E i \in DOMAIN o : o[i] = y
        /\ \A i, j \in DOMAIN o : i < j => <<o[i], o[j]>> \in R
    BY <2>2, <2>3, SeqsCover DEF Sorted
  <2>. DEFINE n == Cardinality(T \ {x})
  <2>n. n \in Nat /\ o \in [1..n -> T \ {x}]
    BY <2>4
  <2>5. CASE n = 0
    <3>1. DOMAIN o = {}
      <4>. HIDE DEF n
      <4>. QED  BY <2>n, <2>5
    <3>. QED  BY <2>1, <2>4, <3>1
  <2>6. CASE n # 0
    <3>1. n \in 1..n /\ o[n] \in T \ {x}
      <4>. HIDE DEF n
      <4>. QED  BY <2>n, <2>6
    <3>2. \A y \in T \ {x} : y = o[n] \/ <<y, o[n]>> \in R
      <4>. TAKE y \in T \ {x}
      <4>1. PICK i \in 1..n : o[i] = y
        BY <2>4
      <4>2. i = n \/ i < n
        BY <2>4, <4>1
      <4>. QED  BY <2>4, <3>1, <4>1, <4>2
    <3>3. CASE <<o[n], x>> \in R
      <4>1. \A y \in T \ {x} : <<y, x>> \in R
        BY <2>1, <3>1, <3>2, <3>3 DEF Ordering
      <4>. QED  BY <2>1, <4>1
    <3>4. CASE <<o[n], x>> \notin R
      <4>1. <<x, o[n]>> \in R
        BY <2>1, <3>1, <3>4 DEF Ordering
      <4>. QED  BY <3>1, <3>2, <4>1
    <3>. QED  BY <3>3, <3>4
  <2>. QED  BY <2>5, <2>6
<1>8. PICK l \in T : \A y \in T \ {l} : <<y, l>> \in R
  BY <1>7
<1>9. PICK o : Sorted(o, T \ {l}, R)
  BY <1>5
<1>10. \E p : Sorted(p, T, R)
  BY <1>4, <1>8, <1>9, SortedAppend
<1>. QED  BY <1>3, <1>10

-----------------------------------------------------------------------------
(* The jobs: what a job can be, said of the job alone.  Every action makes  *)
(* one of these out of one of them.                                         *)

IsRouted(j) ==
    \E q \in Questions : \E d \in Route(q) : j = [kind |-> "routed", q |-> q, decision |-> d]

IsRanked(j) ==
    \E dense, sparse \in Rankings : j = [kind |-> "ranked", dense |-> dense, ranked |-> Ranked(dense, sparse)]

\* What the reranking model may name.
Namings == UNION {[1..m -> Nat] : m \in Nat}

IsCited(j) ==
    \E dense, sparse \in Rankings, named \in Namings :
        LET hits == Reordered(Ranked(dense, sparse), named)
        IN  j = [kind |-> "cited", dense |-> dense, ranked |-> Ranked(dense, sparse), hits |-> hits,
                 cited |-> Injected(dense, hits)]

\* While a request goes on, all its attempts have failed for a reason that may pass, and
\* there is one left.
IsPost(j) ==
    /\ j \in [kind : {"post", "answered", "failed"}, sort : {"chat", "embed"}, seen : Seq(Answers), recorded : Nat]
    /\ Len(j.seen) <= Attempts
    /\ \A k \in 1..(Len(j.seen) - 1) : j.seen[k] = "transient"
    /\ j.kind = "post" =>
         /\ Len(j.seen) < Attempts /\ j.recorded = 0
         /\ \A k \in 1..Len(j.seen) : j.seen[k] = "transient"
    /\ j.kind = "failed" => j.recorded = 0 /\ (j.seen[Len(j.seen)] = "transient" => Len(j.seen) = Attempts)
    /\ j.kind = "answered" => j.recorded = IF j.sort = "chat" THEN 1 ELSE 0

JobOK == job = Idle \/ IsRouted(job) \/ IsRanked(job) \/ IsCited(job) \/ IsPost(job)

LEMMA KindTells ==
  ASSUME JobOK
  PROVE  /\ job.kind = "routed" => IsRouted(job)
         /\ job.kind = "ranked" => IsRanked(job)
         /\ job.kind = "cited" => IsCited(job)
         /\ job.kind \in {"post", "answered", "failed"} => IsPost(job)
<1>1. job = Idle => job.kind = "idle"
  BY DEF Idle
<1>2. IsRouted(job) => job.kind = "routed"
  BY DEF IsRouted
<1>3. IsRanked(job) => job.kind = "ranked"
  BY DEF IsRanked
<1>4. IsCited(job) => job.kind = "cited"
  BY DEF IsCited
<1>5. IsPost(job) => job.kind \in {"post", "answered", "failed"}
  BY DEF IsPost
<1>. QED  BY <1>1, <1>2, <1>3, <1>4, <1>5 DEF JobOK

LEMMA CallIsPost == ASSUME Call PROVE IsPost(job')
<1>1. PICK sort \in {"chat", "embed"} : job' = [kind |-> "post", sort |-> sort, seen |-> <<>>, recorded |-> 0]
  BY DEF Call
<1>2. Attempts \in Nat /\ 0 < Attempts
  BY AttemptsIs, DecisionsAssumption
<1>3. job' \in [kind : {"post", "answered", "failed"}, sort : {"chat", "embed"}, seen : Seq(Answers), recorded : Nat]
  BY <1>1
<1>4. job'.kind = "post" /\ job'.seen = <<>> /\ job'.recorded = 0
  BY <1>1
<1>. QED  BY <1>2, <1>3, <1>4 DEF IsPost

\* The case that matters is a reason that may pass on the last attempt but one.
LEMMA PostIsPost ==
  ASSUME IsPost(job), NEW answer \in Answers, Post(answer)
  PROVE  IsPost(job')
<1>. DEFINE n == Len(job.seen)
<1>1. /\ job \in [kind : {"post", "answered", "failed"}, sort : {"chat", "embed"}, seen : Seq(Answers), recorded : Nat]
      /\ job.kind = "post" /\ n < Attempts /\ job.recorded = 0
      /\ \A k \in 1..n : job.seen[k] = "transient"
  BY DEF IsPost, Post
<1>2. n \in Nat /\ Attempts \in Nat
  BY <1>1, AttemptsIs, DecisionsAssumption
<1>3. /\ job'.seen = Append(job.seen, answer)
      /\ job'.sort = job.sort
      /\ job'.recorded = IF answer = "ok" /\ job.sort = "chat" THEN 1 ELSE 0
      /\ job'.kind = CASE answer = "ok" -> "answered"
                       [] answer = "transient" /\ n + 1 < Attempts -> "post"
                       [] OTHER -> "failed"
      /\ DOMAIN job' = DOMAIN job
  BY <1>1 DEF Post
<1>4. job' = [kind |-> job'.kind, sort |-> job'.sort, seen |-> job'.seen, recorded |-> job'.recorded]
  BY <1>1 DEF Post
<1>5. job'.kind \in {"post", "answered", "failed"}
  BY <1>3
<1>6. job'.seen \in Seq(Answers) /\ Len(job'.seen) = n + 1 /\ job'.seen[n + 1] = answer
      /\ \A k \in 1..n : job'.seen[k] = job.seen[k]
  BY <1>1, <1>3
<1>7. job' \in [kind : {"post", "answered", "failed"}, sort : {"chat", "embed"}, seen : Seq(Answers), recorded : Nat]
  BY <1>1, <1>3, <1>4, <1>5, <1>6
<1>8. \A k \in 1..(n + 1 - 1) : job'.seen[k] = "transient"
  BY <1>1, <1>2, <1>6
<1>9. ASSUME job'.kind = "post"
      PROVE  n + 1 < Attempts /\ job'.recorded = 0 /\ \A k \in 1..(n + 1) : job'.seen[k] = "transient"
  <2>1. answer = "transient" /\ n + 1 < Attempts
    BY <1>3, <1>9 DEF Answers
  <2>. QED  BY <2>1, <1>2, <1>3, <1>6, <1>8
<1>10. ASSUME job'.kind = "failed"
       PROVE  job'.recorded = 0 /\ (job'.seen[n + 1] = "transient" => n + 1 = Attempts)
  <2>1. answer # "ok" /\ ~(answer = "transient" /\ n + 1 < Attempts)
    BY <1>3, <1>10 DEF Answers
  <2>. QED  BY <2>1, <1>1, <1>2, <1>3, <1>6
<1>11. ASSUME job'.kind = "answered"
       PROVE  job'.recorded = IF job'.sort = "chat" THEN 1 ELSE 0
  <2>1. answer = "ok"
    BY <1>3, <1>11 DEF Answers
  <2>. QED  BY <2>1, <1>3
<1>12. n + 1 <= Attempts
  BY <1>1, <1>2
<1>. HIDE DEF n
<1>13. Len(job'.seen) = n + 1 /\ n + 1 - 1 = n
  BY <1>2, <1>6
<1>14. Len(job'.seen) <= Attempts
  BY <1>12, <1>13
<1>15. \A k \in 1..(Len(job'.seen) - 1) : job'.seen[k] = "transient"
  <2>1. Len(job'.seen) - 1 = n
    BY <1>2, <1>13
  <2>2. \A k \in 1..n : job'.seen[k] = "transient"
    BY <1>1, <1>6
  <2>. QED  BY <2>1, <2>2, Zenon
<1>16. job'.kind = "post" =>
         /\ Len(job'.seen) < Attempts /\ job'.recorded = 0
         /\ \A k \in 1..Len(job'.seen) : job'.seen[k] = "transient"
  BY <1>9, <1>13
<1>17. job'.kind = "failed" =>
         job'.recorded = 0 /\ (job'.seen[Len(job'.seen)] = "transient" => Len(job'.seen) = Attempts)
  BY <1>10, <1>13
<1>. QED  BY <1>7, <1>11, <1>14, <1>15, <1>16, <1>17, Zenon DEF IsPost

LEMMA RerankIsCited == ASSUME IsRanked(job), Rerank PROVE IsCited(job')
<1>1. PICK dense \in Rankings, sparse \in Rankings :
        job = [kind |-> "ranked", dense |-> dense, ranked |-> Ranked(dense, sparse)]
  BY DEF IsRanked
<1>2. PICK named \in BoundedSeq(0..Cardinality(Chunks), MaxNamed) :
        job' = [kind |-> "cited", dense |-> job.dense, ranked |-> job.ranked, hits |-> Reordered(job.ranked, named),
                cited |-> Injected(job.dense, Reordered(job.ranked, named))]
  BY Zenon DEF Rerank
<1>3. named \in Namings
  BY FS_CardinalityType, DecisionsAssumption DEF BoundedSeq, SeqOf, Namings
<1>4. job.dense = dense /\ job.ranked = Ranked(dense, sparse)
  BY <1>1
<1>5. job' = [kind |-> "cited", dense |-> dense, ranked |-> Ranked(dense, sparse), hits |-> Reordered(Ranked(dense, sparse), named),
                cited |-> Injected(dense, Reordered(Ranked(dense, sparse), named))]
  BY <1>2, <1>4
<1>. QED  BY <1>3, <1>5, Zenon DEF IsCited

LEMMA JobStep == JobOK /\ [Next]_job => JobOK'
<1>. SUFFICES ASSUME JobOK, [Next]_job PROVE JobOK'
  OBVIOUS
<1>1. CASE Ask
  <2>1. IsRouted(job')
    BY <1>1, Zenon DEF Ask, IsRouted
  <2>. QED  BY <2>1 DEF JobOK
<1>2. CASE Retrieve
  <2>1. IsRanked(job')
    BY <1>2, Zenon DEF Retrieve, IsRanked
  <2>. QED  BY <2>1 DEF JobOK
<1>3. CASE Call
  BY <1>3, CallIsPost DEF JobOK
<1>4. CASE Rerank
  <2>1. IsRanked(job)
    BY <1>4, KindTells DEF Rerank
  <2>. QED  BY <1>4, <2>1, RerankIsCited DEF JobOK
<1>5. ASSUME NEW answer \in Answers, Post(answer) PROVE JobOK'
  <2>1. IsPost(job)
    BY <1>5, KindTells DEF Post
  <2>. QED  BY <1>5, <2>1, PostIsPost DEF JobOK
<1>6. CASE Return
  BY <1>6 DEF Return, JobOK
<1>7. CASE UNCHANGED job
  BY <1>7 DEF JobOK
<1>. QED  BY <1>1, <1>2, <1>3, <1>4, <1>5, <1>6, <1>7 DEF Next, Compute

\* A job is what one of the computations makes of some input, at every moment.
THEOREM JobsAreJobs == Spec => []JobOK
<1>1. Init => JobOK
  BY DEF Init, JobOK
<1>. QED  BY <1>1, JobStep, PTL DEF Spec

\* Only what may pass is tried again, at most Attempts times, and what failed so has used
\* all of them; the ledger has one record of an answered chat (ai/gateway.py:218).
THEOREM RetriesTransient == Spec => []RetriesAreTransient
<1>1. JobOK => RetriesAreTransient
  <2>. SUFFICES ASSUME IsPost(job) PROVE RetriesAreTransient
    BY KindTells DEF RetriesAreTransient
  <2>. QED  BY DEF IsPost, RetriesAreTransient
<1>. QED  BY <1>1, JobsAreJobs, PTL

-----------------------------------------------------------------------------
(* What a decision is made from                                            *)

LEMMA VerdictIs ==
  ASSUME NEW direct, NEW o, NEW score
  PROVE  LET v == Verdict(direct, o, score)
             short == Threshold(o[1]) - score[o[1]]
             path == IF short <= 0 THEN direct ELSE IF short <= Margin THEN "CLARIFY" ELSE "UNKNOWN"
         IN  /\ v.path = path
             /\ v.primary = IF path = "UNKNOWN" THEN "unknown" ELSE o[1]
             /\ v.score = score[o[1]]
BY DEF Verdict, Decision

LEMMA DecisionIs ==
  ASSUME NEW path, NEW primary, NEW secondary, NEW score
  PROVE  LET d == Decision(path, primary, secondary, score)
         IN  d.path = path /\ d.primary = primary /\ d.score = score
BY DEF Decision

Scores == [DOMAIN Catalog -> 0..100]

LEMMA QuestionTyped ==
  ASSUME NEW q \in Questions
  PROVE  /\ q.emb \in Scores /\ q.more \in Scores
         /\ q.llm.intent # None => q.llm.intent \in Names /\ q.llm.conf \in 0..100
<1>1. /\ q.emb \in Embs /\ q.more \in Raised
      /\ q.llm \in [intent : Names, conf : Confs] \cup {[intent |-> None]}
  BY DEF Questions
<1>2. q.llm.intent # None => q.llm \in [intent : Names, conf : Confs]
  BY <1>1
<1>. QED  BY <1>1, <1>2, DecisionsAssumption DEF Scores

LEMMA EmbTyped ==
  ASSUME NEW q \in Questions
  PROVE  Emb(q) \in Scores
BY QuestionTyped DEF Emb, Scores

\* The hint of the rules is an intent of the catalog.
LEMMA ClassifyIs ==
  ASSUME NEW keys
  PROVE  Classify(keys) \in DOMAIN Catalog \cup {None}
<1>. DEFINE hits == {n \in DOMAIN Rules : Rules[n].key \in keys}
<1>1. CASE hits = {}
  BY <1>1 DEF Classify
<1>2. CASE hits # {}
  <2>1. hits \in SUBSET Nat
    BY CatalogAssumption
  <2>2. \E n \in hits : \A m \in hits : n <= m
    <3>. HIDE DEF hits
    <3>. QED  BY <1>2, <2>1, Least
  <2>3. Classify(keys) = Rules[CHOOSE n \in hits : \A m \in hits : n <= m].intent
    BY <1>2 DEF Classify
  <2>4. (CHOOSE n \in hits : \A m \in hits : n <= m) \in hits
    <3>. HIDE DEF hits
    <3>. QED  BY <2>2, Zenon
  <2>5. (CHOOSE n \in hits : \A m \in hits : n <= m) \in DOMAIN Rules
    BY <2>4
  <2>. QED  BY <2>3, <2>5, CatalogAssumption
<1>. QED  BY <1>1, <1>2

LEMMA HintIs ==
  ASSUME NEW q
  PROVE  Hint(q) \in DOMAIN Catalog \cup {None}
BY ClassifyIs DEF Hint

\* The candidates of the sample library are intents of the catalog with a score.
LEMMA TopIs ==
  ASSUME NEW emb \in Scores, NEW top \in Top(emb)
  PROVE  /\ Len(top) \in Nat /\ DOMAIN top = 1..Len(top)
         /\ ToSet(top) \subseteq DOMAIN Catalog /\ IsFiniteSet(ToSet(top))
         /\ \A n \in DOMAIN top : emb[top[n]] > 0
         /\ top # <<>> => 1 \in DOMAIN top
<1>. DEFINE S == {i \in DOMAIN emb : emb[i] > 0}
<1>1. PICK o \in Orders(S, emb) : top = SubSeq(o, 1, Min({EmbTop, Len(o)}))
  BY Zenon DEF Top
<1>2. S \subseteq DOMAIN Catalog /\ IsFiniteSet(S)
  BY CatalogAssumption, FS_Subset DEF Scores
<1>3. Cardinality(S) \in Nat /\ o \in [1..Cardinality(S) -> S] /\ Len(o) = Cardinality(S) /\ o \in Seq(S)
  <2>1. o \in SetToSeqs(S)
    BY <1>1 DEF Orders
  <2>. HIDE DEF S
  <2>. QED  BY <1>2, <2>1, SeqsCover
<1>. DEFINE l == Min({EmbTop, Len(o)})
<1>4. l \in Nat /\ l <= Len(o)
  <2>. HIDE DEF S
  <2>. QED  BY <1>3, MinOfTwo, CatalogAssumption
<1>5. Len(top) = l /\ DOMAIN top = 1..l /\ top \in Seq(S)
  <2>. HIDE DEF S, l
  <2>1. l \in 0..Len(o)
    BY <1>3, <1>4
  <2>2. top = SubSeq(o, 1, l)
    BY <1>1 DEF l
  <2>. QED  BY <1>3, <2>1, <2>2, Beginning
<1>6. \A n \in DOMAIN top : top[n] \in S
  <2>. HIDE DEF S, l
  <2>. QED  BY <1>4, <1>5
<1>7. ToSet(top) \subseteq S
  BY <1>6 DEF ToSet
<1>8. ToSet(top) \subseteq DOMAIN Catalog /\ IsFiniteSet(ToSet(top))
  <2>. HIDE DEF S
  <2>. QED  BY <1>2, <1>7, FS_Subset
<1>9. \A n \in DOMAIN top : emb[top[n]] > 0
  BY <1>6
<1>10. Len(top) \in Nat /\ DOMAIN top = 1..Len(top) /\ (top # <<>> => 1 \in DOMAIN top)
  <2>. HIDE DEF S, l
  <2>. QED  BY <1>4, <1>5
<1>. QED  BY <1>8, <1>9, <1>10

\* The fused score of a candidate is a sum of at most five parts.
Bounded(score, q, emb) ==
    /\ q.llm.intent \in DOMAIN score /\ DOMAIN score \subseteq Names /\ IsFiniteSet(DOMAIN score)
    /\ \A i \in DOMAIN score :
         /\ score[i] \in Nat
         /\ i # q.llm.intent => score[i] <= 4500
         /\ i = q.llm.intent /\ i \notin DOMAIN Catalog => score[i] <= 6500
         /\ i = q.llm.intent /\ i \in DOMAIN Catalog /\ ~(emb[i] > 0) /\ Hint(q) # i => score[i] <= 6500

LEMMA FusedIs ==
  ASSUME NEW q \in Questions, q.llm.intent # None, NEW emb \in Scores, NEW top \in Top(emb)
  PROVE  Bounded(Fused(q, emb, top), q, emb)
<1>. DEFINE score == Fused(q, emb, top)
<1>1. q.llm.intent \in Names /\ q.llm.conf \in 0..100
  BY QuestionTyped
<1>2. /\ ToSet(top) \subseteq DOMAIN Catalog /\ IsFiniteSet(ToSet(top)) /\ \A n \in DOMAIN top : emb[top[n]] > 0
      /\ top # <<>> => 1 \in DOMAIN top
  BY TopIs
<1>3. DOMAIN score = {q.llm.intent} \cup ToSet(top)
  BY DEF Fused
<1>4. DOMAIN score \subseteq Names /\ IsFiniteSet(DOMAIN score)
  <2>. HIDE DEF score
  <2>1. IsFiniteSet(ToSet(top) \cup {q.llm.intent})
    BY <1>2, FS_AddElement
  <2>2. DOMAIN score = ToSet(top) \cup {q.llm.intent}
    BY <1>3
  <2>. QED  BY <1>1, <1>2, <2>1, <2>2 DEF Names
<1>5. ASSUME NEW i \in DOMAIN score
      PROVE  /\ score[i] \in Nat
             /\ i # q.llm.intent => score[i] <= 4500
             /\ i = q.llm.intent /\ i \notin DOMAIN Catalog => score[i] <= 6500
             /\ i = q.llm.intent /\ i \in DOMAIN Catalog /\ ~(emb[i] > 0) /\ Hint(q) # i => score[i] <= 6500
  <2>. DEFINE x == IF i = q.llm.intent THEN 60 * q.llm.conf ELSE 0
              y == IF i \in DOMAIN emb THEN 30 * emb[i] ELSE 0
              z == IF i = Hint(q) THEN 1000 ELSE 0
              t == IF top # <<>> /\ top[1] = i /\ i = q.llm.intent THEN Agreement ELSE 0
              s == IF i = q.sticky THEN Sticky ELSE 0
  <2>1. score[i] = x + y + z + t + s
    BY <1>3 DEF Fused
  <2>2. x \in Nat /\ x <= 6000 /\ (i # q.llm.intent => x = 0)
    BY <1>1
  <2>3. DOMAIN emb = DOMAIN Catalog /\ (i \in DOMAIN Catalog => emb[i] \in 0..100)
    BY DEF Scores
  <2>4. y \in Nat /\ y <= 3000 /\ (i \notin DOMAIN Catalog \/ ~(emb[i] > 0) => y = 0)
    BY <2>3
  <2>5. z \in Nat /\ z <= 1000 /\ (i # Hint(q) => z = 0)
    OBVIOUS
  <2>6. t \in Nat /\ t <= 500 /\ (t # 0 => i = q.llm.intent /\ i \in DOMAIN Catalog /\ emb[i] > 0)
    <3>1. top # <<>> /\ top[1] = i => i \in DOMAIN Catalog /\ emb[i] > 0
      BY <1>2 DEF ToSet
    <3>. QED  BY <3>1 DEF Agreement
  <2>7. s \in Nat /\ s <= 500
    BY DEF Sticky
  <2>8. Hint(q) \in DOMAIN Catalog \cup {None} /\ i # None
    BY HintIs, <1>4, CatalogAssumption
  <2>. HIDE DEF x, y, z, t, s, score
  <2>. QED  BY <2>1, <2>2, <2>4, <2>5, <2>6, <2>7, <2>8
<1>. HIDE DEF score
<1>6. Bounded(score, q, emb)
  BY <1>3, <1>4, <1>5 DEF Bounded
<1>. QED  BY <1>6 DEF score

\* A decision of the fusion is the verdict over an order of the candidates.
LEMMA FuseIs ==
  ASSUME NEW q, NEW emb, NEW d
  PROVE  d \in Fuse(q, emb) <=>
           \E top \in Top(emb) :
             \E o \in Orders(DOMAIN Fused(q, emb, top), Fused(q, emb, top)) : d = Verdict("FUSED", o, Fused(q, emb, top))
<1>. DEFINE Of(top) == {Verdict("FUSED", o, Fused(q, emb, top)) : o \in Orders(DOMAIN Fused(q, emb, top), Fused(q, emb, top))}
<1>1. Fuse(q, emb) = UNION {Of(top) : top \in Top(emb)}
  BY Zenon DEF Fuse
<1>2. \A top : d \in Of(top) <=>
                  \E o \in Orders(DOMAIN Fused(q, emb, top), Fused(q, emb, top)) : d = Verdict("FUSED", o, Fused(q, emb, top))
  OBVIOUS
<1>. HIDE DEF Of
<1>. QED  BY <1>1, <1>2

LEMMA OrderIs ==
  ASSUME NEW S, IsFiniteSet(S), S # {}, NEW score, NEW o \in Orders(S, score)
  PROVE  o[1] \in S
<1>1. o \in SetToSeqs(S)
  BY DEF Orders
<1>2. Cardinality(S) \in Nat /\ o \in [1..Cardinality(S) -> S] /\ \A x \in S : \E i \in DOMAIN o : o[i] = x
  BY <1>1, SeqsCover
<1>3. 1 \in 1..Cardinality(S)
  BY <1>2
<1>. QED  BY <1>2, <1>3

LEMMA ThresholdTyped == \A i : Threshold(i) \in Int
BY CatalogAssumption DEF Threshold

\* Only the fusion enters an intent as FUSED.
LEMMA FusedPath ==
  ASSUME NEW q \in Questions, NEW d \in Route(q), d.path = "FUSED"
  PROVE  q.llm.intent # None /\ d \in Fuse(q, Emb(q))
<1>1. CASE q.menu # None
  <2>1. d = Decision("MENU", q.menu, None, 10000)
    BY <1>1 DEF Route
  <2>. QED  BY <2>1 DEF Decision
<1>2. CASE q.menu = None /\ Locked(q.keys)
  <2>1. d = Decision("RULE_LOCKED", Classify(q.keys), None, 9500)
    BY <1>2 DEF Route
  <2>. QED  BY <2>1 DEF Decision
<1>3. CASE q.menu = None /\ ~Locked(q.keys) /\ Locked(Text(q))
  <2>1. d = Decision("RULE_LOCKED", Classify(Text(q)), None, 9500)
    BY <1>3 DEF Route
  <2>. QED  BY <2>1 DEF Decision
<1>4. CASE q.menu = None /\ ~Locked(q.keys) /\ ~Locked(Text(q)) /\ q.llm.intent = None
  <2>1. d \in EmbFallback(q, Emb(q))
    BY <1>4 DEF Route
  <2>2. \/ d = Decision("UNKNOWN", "unknown", None, 0)
        \/ \E o, score : d = Verdict("EMB_FALLBACK", o, score)
    BY <2>1 DEF EmbFallback
  <2>. QED  BY <2>2, DecisionIs, VerdictIs
<1>5. CASE q.menu = None /\ ~Locked(q.keys) /\ ~Locked(Text(q)) /\ q.llm.intent # None
  BY <1>5 DEF Route
<1>. QED  BY <1>1, <1>2, <1>3, <1>4, <1>5

\* A direct answer of the fusion has two classifiers behind it, the model one of them:
\* without the model a score is at most 4500, with the model and the context alone 6500.
THEOREM TwoVoicesSpeak == Spec => []TwoVoices
<1>1. ASSUME JobOK, Routed, job.decision.path = "FUSED", Threshold(job.decision.primary) >= 7000
      PROVE  LET i == job.decision.primary
             IN  i = job.q.llm.intent /\ i \in DOMAIN Catalog /\ (Emb(job.q)[i] > 0 \/ Hint(job.q) = i)
  <2>1. PICK q \in Questions : \E d \in Route(q) : job = [kind |-> "routed", q |-> q, decision |-> d]
    BY <1>1, KindTells DEF Routed, IsRouted
  <2>2. PICK d \in Route(q) : job = [kind |-> "routed", q |-> q, decision |-> d]
    BY <2>1
  <2>3. job.q = q /\ job.decision = d
    BY <2>2
  <2>4. q.llm.intent # None /\ d \in Fuse(q, Emb(q))
    BY <1>1, <2>3, FusedPath
  <2>5. PICK emb \in Scores : emb = Emb(q)
    BY EmbTyped
  <2>6. PICK top \in Top(emb) :
          \E o \in Orders(DOMAIN Fused(q, emb, top), Fused(q, emb, top)) : d = Verdict("FUSED", o, Fused(q, emb, top))
    BY <2>4, <2>5, FuseIs
  <2>7. PICK score : score = Fused(q, emb, top)
    OBVIOUS
  <2>v. PICK o \in Orders(DOMAIN score, score) : d = Verdict("FUSED", o, score)
    BY <2>6, <2>7, Zenon
  <2>8. /\ q.llm.intent \in DOMAIN score /\ IsFiniteSet(DOMAIN score)
        /\ \A i \in DOMAIN score :
             /\ score[i] \in Nat
             /\ i # q.llm.intent => score[i] <= 4500
             /\ i = q.llm.intent /\ i \notin DOMAIN Catalog => score[i] <= 6500
             /\ i = q.llm.intent /\ i \in DOMAIN Catalog /\ ~(emb[i] > 0) /\ Hint(q) # i => score[i] <= 6500
    BY <2>4, <2>7, FusedIs DEF Bounded
  <2>9. o[1] \in DOMAIN score
    BY <2>v, <2>8, OrderIs
  <2>10. d.primary = o[1] /\ Threshold(o[1]) - score[o[1]] <= 0
    BY <1>1, <2>3, <2>v, VerdictIs
  <2>11. score[o[1]] >= 7000 /\ score[o[1]] \in Nat
    BY <1>1, <2>3, <2>8, <2>9, <2>10, ThresholdTyped
  <2>12. o[1] = q.llm.intent
    BY <2>8, <2>9, <2>11
  <2>13. o[1] \in DOMAIN Catalog
    BY <2>8, <2>9, <2>11, <2>12
  <2>14. emb[o[1]] > 0 \/ Hint(q) = o[1]
    BY <2>8, <2>9, <2>11, <2>12, <2>13
  <2>. QED  BY <2>3, <2>5, <2>10, <2>12, <2>13, <2>14
<1>2. JobOK => TwoVoices
  BY <1>1 DEF TwoVoices
<1>. QED  BY <1>2, JobsAreJobs, PTL

-----------------------------------------------------------------------------
(* The bonus of the last intent                                            *)

\* There is an order by falling score, and any best member may be its first.
LEMMA OrderFrom ==
  ASSUME NEW S, IsFiniteSet(S), NEW score, \A i \in S : score[i] \in Int,
         NEW x \in S, \A i \in S : score[x] >= score[i]
  PROVE  \E o \in Orders(S, score) : o[1] = x
<1>. DEFINE R == {p \in S \X S : p[1] = x \/ (p[2] # x /\ score[p[1]] >= score[p[2]])}
<1>1. \A i, j \in S : <<i, j>> \in R <=> i = x \/ (j # x /\ score[i] >= score[j])
  OBVIOUS
<1>2. Ordering(S, R)
  <2>. HIDE DEF R
  <2>. QED  BY <1>1 DEF Ordering
<1>3. PICK o : Sorted(o, S, R)
  <2>. HIDE DEF R
  <2>. QED  BY <1>2, SortExists
<1>. HIDE DEF R
<1>4. o \in SetToSeqs(S) /\ \A i, j \in DOMAIN o : i < j => <<o[i], o[j]>> \in R
  BY <1>3 DEF Sorted
<1>5. /\ Cardinality(S) \in Nat /\ o \in [1..Cardinality(S) -> S]
      /\ \A y \in S : \E i \in DOMAIN o : o[i] = y
  BY <1>4, SeqsCover
<1>6. \A i, j \in DOMAIN o : i < j => score[o[i]] >= score[o[j]]
  BY <1>1, <1>4, <1>5
<1>7. o[1] = x
  <2>1. PICK k \in 1..Cardinality(S) : o[k] = x
    BY <1>5
  <2>2. CASE k = 1
    BY <2>1, <2>2
  <2>3. CASE k # 1
    <3>1. 1 \in 1..Cardinality(S) /\ 1 < k
      BY <1>5, <2>1, <2>3
    <3>2. <<o[1], o[k]>> \in R /\ o[1] \in S
      BY <1>4, <1>5, <2>1, <3>1
    <3>. QED  BY <1>1, <2>1, <3>2
  <2>. QED  BY <2>2, <2>3
<1>. QED  BY <1>4, <1>6, <1>7 DEF Orders

\* The first of an order has the best score.
LEMMA FirstIsBest ==
  ASSUME NEW S, IsFiniteSet(S), S # {}, NEW score, \A i \in S : score[i] \in Int, NEW o \in Orders(S, score)
  PROVE  o[1] \in S /\ \A i \in S : score[o[1]] >= score[i]
<1>1. o \in SetToSeqs(S) /\ \A m, n \in DOMAIN o : m < n => score[o[m]] >= score[o[n]]
  BY DEF Orders
<1>2. /\ Cardinality(S) \in Nat /\ o \in [1..Cardinality(S) -> S]
      /\ \A y \in S : \E i \in DOMAIN o : o[i] = y
  BY <1>1, SeqsCover
<1>3. 1 \in 1..Cardinality(S)
  BY <1>2
<1>4. ASSUME NEW i \in S PROVE score[o[1]] >= score[i]
  <2>1. PICK k \in 1..Cardinality(S) : o[k] = i
    BY <1>2
  <2>2. CASE k = 1
    BY <2>1, <2>2
  <2>3. CASE k # 1
    BY <1>1, <1>2, <1>3, <2>1, <2>3
  <2>. QED  BY <2>2, <2>3
<1>. QED  BY <1>2, <1>3, <1>4

LEMMA BestExists ==
  ASSUME NEW S, IsFiniteSet(S), S # {}, NEW score, \A i \in S : score[i] \in Int
  PROVE  \E x \in S : \A i \in S : score[x] >= score[i]
<1>. DEFINE R == {p \in S \X S : score[p[1]] >= score[p[2]]}
<1>1. \A i, j \in S : <<i, j>> \in R <=> score[i] >= score[j]
  OBVIOUS
<1>2. Ordering(S, R)
  <2>. HIDE DEF R
  <2>. QED  BY <1>1 DEF Ordering
<1>3. PICK o : Sorted(o, S, R)
  <2>. HIDE DEF R
  <2>. QED  BY <1>2, SortExists
<1>. HIDE DEF R
<1>4. o \in Orders(S, score)
  <2>1. o \in SetToSeqs(S) /\ \A i, j \in DOMAIN o : i < j => <<o[i], o[j]>> \in R
    BY <1>3 DEF Sorted
  <2>2. Cardinality(S) \in Nat /\ o \in [1..Cardinality(S) -> S]
    BY <2>1, SeqsCover
  <2>. QED  BY <1>1, <2>1, <2>2 DEF Orders
<1>. QED  BY <1>4, FirstIsBest

\* How a decision with the bonus and one without it differ.
NearTie(d, e, sticky) ==
    d.score - e.score \in 0..Sticky /\ d.primary \in {e.primary, sticky, "unknown"}

\* The intent of the last turn either wins, or the winner wins without it, too.
LEMMA Bonus ==
  ASSUME NEW S, IsFiniteSet(S), S # {}, NEW sticky, NEW direct, NEW plain, NEW boosted,
         \A i \in S : plain[i] \in Int /\ boosted[i] = plain[i] + IF i = sticky THEN Sticky ELSE 0,
         NEW o \in Orders(S, boosted)
  PROVE  \E p \in Orders(S, plain) : NearTie(Verdict(direct, o, boosted), Verdict(direct, p, plain), sticky)
<1>1. \A i \in S : plain[i] \in Int /\ boosted[i] \in Int /\ plain[i] <= boosted[i]
                   /\ boosted[i] <= plain[i] + Sticky /\ (i # sticky => boosted[i] = plain[i])
  BY DEF Sticky
<1>2. o[1] \in S /\ \A i \in S : boosted[o[1]] >= boosted[i]
  BY <1>1, FirstIsBest
<1>3. CASE o[1] = sticky
  <2>1. PICK x \in S : \A i \in S : plain[x] >= plain[i]
    BY <1>1, BestExists
  <2>2. PICK p \in Orders(S, plain) : p[1] = x
    BY <1>1, <2>1, OrderFrom
  <2>3. boosted[o[1]] - plain[p[1]] \in 0..Sticky
    <3>1. /\ plain[x] \in Int /\ boosted[x] \in Int /\ plain[x] <= boosted[x]
          /\ plain[o[1]] \in Int /\ boosted[o[1]] \in Int /\ boosted[o[1]] <= plain[o[1]] + Sticky
          /\ boosted[o[1]] >= boosted[x] /\ plain[x] >= plain[o[1]]
      BY <1>1, <1>2, <2>1
    <3>. QED  BY <2>2, <3>1 DEF Sticky
  <2>4. NearTie(Verdict(direct, o, boosted), Verdict(direct, p, plain), sticky)
    BY <1>3, <2>3, VerdictIs DEF NearTie
  <2>. QED  BY <2>4
<1>4. CASE o[1] # sticky
  <2>1. boosted[o[1]] = plain[o[1]]
    BY <1>1, <1>2, <1>4
  <2>2. \A i \in S : plain[o[1]] >= plain[i]
    <3>. TAKE i \in S
    <3>1. plain[o[1]] >= boosted[i] /\ boosted[i] >= plain[i] /\ plain[o[1]] \in Int /\ boosted[i] \in Int /\ plain[i] \in Int
      BY <1>1, <1>2, <2>1
    <3>. QED  BY <3>1
  <2>3. PICK p \in Orders(S, plain) : p[1] = o[1]
    BY <1>1, <1>2, <2>2, OrderFrom
  <2>4. boosted[o[1]] - plain[p[1]] = 0
    BY <1>1, <1>2, <2>1, <2>3
  <2>5. Verdict(direct, o, boosted).primary \in {Verdict(direct, p, plain).primary, "unknown"}
    BY <2>1, <2>3, VerdictIs
  <2>6. NearTie(Verdict(direct, o, boosted), Verdict(direct, p, plain), sticky)
    BY <2>4, <2>5, VerdictIs DEF NearTie, Sticky
  <2>. QED  BY <2>6
<1>. QED  BY <1>3, <1>4

Plain(q) == [q EXCEPT !.sticky = None]

LEMMA PlainIs ==
  ASSUME NEW q \in Questions
  PROVE  /\ Plain(q) \in Questions
         /\ Plain(q).menu = q.menu /\ Plain(q).keys = q.keys /\ Plain(q).llm = q.llm /\ Plain(q).sticky = None
         /\ Text(Plain(q)) = Text(q) /\ Hint(Plain(q)) = Hint(q) /\ Emb(Plain(q)) = Emb(q)
<1>1. /\ Plain(q).menu = q.menu /\ Plain(q).keys = q.keys /\ Plain(q).llm = q.llm /\ Plain(q).sticky = None
      /\ Plain(q).vague = q.vague /\ Plain(q).history = q.history /\ Plain(q).emb = q.emb /\ Plain(q).more = q.more
  BY DEF Plain, Questions
<1>2. Text(Plain(q)) = Text(q)
  BY <1>1 DEF Text, Rewritten
<1>3. Plain(q) \in Questions
  BY DEF Plain, Questions
<1>. QED  BY <1>1, <1>2, <1>3 DEF Hint, Emb, Rewritten

EmbScore(q, emb) == [i \in DOMAIN emb |-> 100 * emb[i] + IF i = q.sticky THEN Sticky ELSE 0]

LEMMA EmbFallbackIs ==
  ASSUME NEW q, NEW emb, NEW d
  PROVE  d \in EmbFallback(q, emb) <=>
           \E top \in Top(emb) :
             IF top = <<>> THEN d = Decision("UNKNOWN", "unknown", None, 0)
             ELSE \E o \in Orders(ToSet(top), EmbScore(q, emb)) : d = Verdict("EMB_FALLBACK", o, EmbScore(q, emb))
<1>. DEFINE Of(top) ==
        IF top = <<>> THEN {Decision("UNKNOWN", "unknown", None, 0)}
        ELSE {Verdict("EMB_FALLBACK", o, EmbScore(q, emb)) : o \in Orders(ToSet(top), EmbScore(q, emb))}
<1>1. EmbFallback(q, emb) = UNION {Of(top) : top \in Top(emb)}
  BY Zenon DEF EmbFallback, EmbScore
<1>2. \A top : d \in Of(top) <=>
                  IF top = <<>> THEN d = Decision("UNKNOWN", "unknown", None, 0)
                  ELSE \E o \in Orders(ToSet(top), EmbScore(q, emb)) : d = Verdict("EMB_FALLBACK", o, EmbScore(q, emb))
  OBVIOUS
<1>. HIDE DEF Of
<1>. QED  BY <1>1, <1>2

LEMMA BonusOfFallback ==
  ASSUME NEW q \in Questions, NEW emb \in Scores, NEW d \in EmbFallback(q, emb)
  PROVE  \E e \in EmbFallback(Plain(q), emb) : NearTie(d, e, q.sticky)
<1>1. PICK top \in Top(emb) :
        IF top = <<>> THEN d = Decision("UNKNOWN", "unknown", None, 0)
        ELSE \E o \in Orders(ToSet(top), EmbScore(q, emb)) : d = Verdict("EMB_FALLBACK", o, EmbScore(q, emb))
  BY EmbFallbackIs
<1>2. CASE top = <<>>
  <2>1. d = Decision("UNKNOWN", "unknown", None, 0)
    BY <1>1, <1>2
  <2>2. d \in EmbFallback(Plain(q), emb)
    BY <1>2, <2>1, EmbFallbackIs
  <2>3. NearTie(d, d, q.sticky)
    BY <2>1, DecisionIs DEF NearTie, Sticky
  <2>. QED  BY <2>2, <2>3
<1>3. CASE top # <<>>
  <2>. DEFINE plain == EmbScore(Plain(q), emb)
              boosted == EmbScore(q, emb)
  <2>1. PICK o \in Orders(ToSet(top), boosted) : d = Verdict("EMB_FALLBACK", o, boosted)
    BY <1>1, <1>3
  <2>2. ToSet(top) \subseteq DOMAIN Catalog /\ IsFiniteSet(ToSet(top)) /\ ToSet(top) # {}
    BY <1>3, TopIs DEF ToSet
  <2>3. ASSUME NEW i \in ToSet(top)
        PROVE  plain[i] \in Int /\ boosted[i] = plain[i] + IF i = q.sticky THEN Sticky ELSE 0
    <3>1. i \in DOMAIN emb /\ emb[i] \in 0..100 /\ i # None
      BY <2>2, CatalogAssumption DEF Scores, Names
    <3>2. plain[i] = 100 * emb[i]
      BY <3>1, PlainIs DEF EmbScore
    <3>3. boosted[i] = 100 * emb[i] + IF i = q.sticky THEN Sticky ELSE 0
      BY <3>1 DEF EmbScore
    <3>. QED  BY <3>1, <3>2, <3>3
  <2>4. PICK p \in Orders(ToSet(top), plain) :
          NearTie(Verdict("EMB_FALLBACK", o, boosted), Verdict("EMB_FALLBACK", p, plain), q.sticky)
    <3>. HIDE DEF plain, boosted
    <3>. QED  BY <2>2, <2>3, Bonus
  <2>5. Verdict("EMB_FALLBACK", p, plain) \in EmbFallback(Plain(q), emb)
    BY <1>3, <2>4, EmbFallbackIs
  <2>. QED  BY <2>1, <2>4, <2>5
<1>. QED  BY <1>2, <1>3

LEMMA BonusOfFusion ==
  ASSUME NEW q \in Questions, q.llm.intent # None, NEW emb \in Scores, NEW d \in Fuse(q, emb)
  PROVE  \E e \in Fuse(Plain(q), emb) : NearTie(d, e, q.sticky)
<1>1. PICK top \in Top(emb) :
        \E o \in Orders(DOMAIN Fused(q, emb, top), Fused(q, emb, top)) : d = Verdict("FUSED", o, Fused(q, emb, top))
  BY FuseIs
<1>. DEFINE plain == Fused(Plain(q), emb, top)
            boosted == Fused(q, emb, top)
            S == {q.llm.intent} \cup ToSet(top)
<1>2. PICK o \in Orders(DOMAIN boosted, boosted) : d = Verdict("FUSED", o, boosted)
  BY <1>1
<1>3. DOMAIN boosted = S /\ DOMAIN plain = S
  BY PlainIs DEF Fused
<1>4. Bounded(plain, Plain(q), emb)
  BY PlainIs, FusedIs
<1>5. IsFiniteSet(S) /\ S # {} /\ S \subseteq Names /\ \A i \in S : plain[i] \in Nat
  <2>. HIDE DEF plain
  <2>. QED  BY <1>3, <1>4 DEF Bounded
<1>6. ASSUME NEW i \in S
      PROVE  plain[i] \in Int /\ boosted[i] = plain[i] + IF i = q.sticky THEN Sticky ELSE 0
  <2>. DEFINE x == (IF i = q.llm.intent THEN 60 * q.llm.conf ELSE 0)
                 + (IF i \in DOMAIN emb THEN 30 * emb[i] ELSE 0)
                 + (IF i = Hint(q) THEN 1000 ELSE 0)
                 + (IF top # <<>> /\ top[1] = i /\ i = q.llm.intent THEN Agreement ELSE 0)
  <2>1. i # None
    BY <1>5, CatalogAssumption
  <2>2. plain[i] = x + (IF i = Plain(q).sticky THEN Sticky ELSE 0)
    BY PlainIs DEF Fused
  <2>3. boosted[i] = x + (IF i = q.sticky THEN Sticky ELSE 0)
    BY DEF Fused
  <2>4. x \in Int
    <3>1. q.llm.conf \in 0..100
      BY QuestionTyped
    <3>2. i \in DOMAIN emb => emb[i] \in 0..100
      BY DEF Scores
    <3>3. /\ (IF i = q.llm.intent THEN 60 * q.llm.conf ELSE 0) \in Int
          /\ (IF i \in DOMAIN emb THEN 30 * emb[i] ELSE 0) \in Int
          /\ (IF i = Hint(q) THEN 1000 ELSE 0) \in Int
          /\ (IF top # <<>> /\ top[1] = i /\ i = q.llm.intent THEN Agreement ELSE 0) \in Int
      BY <3>1, <3>2 DEF Agreement
    <3>. QED  BY <3>3
  <2>5. plain[i] = x
    <3>. HIDE DEF x, plain, boosted
    <3>. QED  BY <2>1, <2>2, <2>4, PlainIs
  <2>. HIDE DEF x, plain, boosted
  <2>. QED  BY <2>3, <2>4, <2>5
<1>7. PICK p \in Orders(S, plain) : NearTie(Verdict("FUSED", o, boosted), Verdict("FUSED", p, plain), q.sticky)
  <2>1. o \in Orders(S, boosted)
    BY <1>2, <1>3
  <2>. HIDE DEF plain, boosted, S
  <2>. QED  BY <1>5, <1>6, <2>1, Bonus
<1>8. Verdict("FUSED", p, plain) \in Fuse(Plain(q), emb)
  <2>1. p \in Orders(DOMAIN plain, plain)
    BY <1>3, <1>7
  <2>. QED  BY <2>1, FuseIs
<1>. QED  BY <1>2, <1>7, <1>8

\* With the last intent and without it a message takes the same way, up to the bonus.
LEMMA BonusOfRoute ==
  ASSUME NEW q \in Questions, NEW d \in Route(q)
  PROVE  \E e \in Route(Plain(q)) : NearTie(d, e, q.sticky)
<1>. DEFINE easy == d \in Route(Plain(q)) /\ d.score \in Int
<1>0. easy => NearTie(d, d, q.sticky)
  BY DEF NearTie, Sticky
<1>1. CASE q.menu # None
  <2>1. d = Decision("MENU", q.menu, None, 10000)
    BY <1>1 DEF Route
  <2>2. d \in Route(Plain(q)) /\ d.score \in Int
    BY <1>1, <2>1, PlainIs, DecisionIs DEF Route
  <2>. QED  BY <1>0, <2>2
<1>2. CASE q.menu = None /\ Locked(q.keys)
  <2>1. d = Decision("RULE_LOCKED", Classify(q.keys), None, 9500)
    BY <1>2 DEF Route
  <2>2. d \in Route(Plain(q)) /\ d.score \in Int
    BY <1>2, <2>1, PlainIs, DecisionIs DEF Route
  <2>. QED  BY <1>0, <2>2
<1>3. CASE q.menu = None /\ ~Locked(q.keys) /\ Locked(Text(q))
  <2>1. d = Decision("RULE_LOCKED", Classify(Text(q)), None, 9500)
    BY <1>3 DEF Route
  <2>2. d \in Route(Plain(q)) /\ d.score \in Int
    BY <1>3, <2>1, PlainIs, DecisionIs DEF Route
  <2>. QED  BY <1>0, <2>2
<1>4. CASE q.menu = None /\ ~Locked(q.keys) /\ ~Locked(Text(q)) /\ q.llm.intent = None
  <2>1. Route(q) = EmbFallback(q, Emb(q))
    BY <1>4 DEF Route
  <2>2. Route(Plain(q)) = EmbFallback(Plain(q), Emb(q))
    BY <1>4, PlainIs DEF Route
  <2>. QED  BY <2>1, <2>2, EmbTyped, BonusOfFallback
<1>5. CASE q.menu = None /\ ~Locked(q.keys) /\ ~Locked(Text(q)) /\ q.llm.intent # None
  <2>1. Route(q) = Fuse(q, Emb(q))
    BY <1>5 DEF Route
  <2>2. Route(Plain(q)) = Fuse(Plain(q), Emb(q))
    BY <1>5, PlainIs DEF Route
  <2>. QED  BY <1>5, <2>1, <2>2, EmbTyped, BonusOfFusion
<1>. QED  BY <1>1, <1>2, <1>3, <1>4, <1>5

\* The intent of the last turn decides near ties only: it adds its bonus at most, and where
\* the answer is another one than without it, it has won or spoilt it (fusion.py:21).
THEOREM StickyOnlyBreaksTies == Spec => []StickyBreaksTies
<1>1. ASSUME JobOK, Routed, job.q.sticky # None
      PROVE  \E plain \in Route([job.q EXCEPT !.sticky = None]) :
               /\ job.decision.score - plain.score \in 0..Sticky
               /\ job.decision.primary \in {plain.primary, job.q.sticky, "unknown"}
  <2>1. PICK q \in Questions : \E d \in Route(q) : job = [kind |-> "routed", q |-> q, decision |-> d]
    BY <1>1, KindTells DEF Routed, IsRouted
  <2>2. PICK d \in Route(q) : job = [kind |-> "routed", q |-> q, decision |-> d]
    BY <2>1
  <2>3. job.q = q /\ job.decision = d
    BY <2>2
  <2>4. PICK e \in Route(Plain(q)) : NearTie(d, e, q.sticky)
    BY BonusOfRoute
  <2>. QED  BY <2>3, <2>4 DEF NearTie, Plain
<1>2. JobOK => StickyBreaksTies
  BY <1>1 DEF StickyBreaksTies
<1>. QED  BY <1>2, JobsAreJobs, PTL

-----------------------------------------------------------------------------
(* Ranking and reordering                                                  *)

LEMMA RankingIs ==
  ASSUME NEW r \in Rankings
  PROVE  /\ r \in Seq(Chunks) /\ Len(r) \in Nat /\ DOMAIN r = 1..Len(r)
         /\ ToSet(r) \subseteq Chunks /\ IsFiniteSet(ToSet(r))
         /\ \A c \in ToSet(r) : Position(r, c) \in DOMAIN r /\ r[Position(r, c)] = c
<1>1. PICK S \in SUBSET Chunks : r \in SetToSeqs(S)
  BY DEF Rankings
<1>2. IsFiniteSet(S)
  BY FS_Subset, DecisionsAssumption
<1>3. /\ Cardinality(S) \in Nat /\ r \in [1..Cardinality(S) -> S] /\ Len(r) = Cardinality(S) /\ r \in Seq(S)
      /\ ToSet(r) = S
  BY <1>1, <1>2, SeqsCover
<1>4. r \in Seq(Chunks) /\ DOMAIN r = 1..Len(r)
  BY <1>3
<1>5. ASSUME NEW c \in ToSet(r) PROVE Position(r, c) \in DOMAIN r /\ r[Position(r, c)] = c
  <2>1. \E n \in DOMAIN r : r[n] = c
    BY DEF ToSet
  <2>. QED  BY <2>1, Zenon DEF Position
<1>. QED  BY <1>2, <1>3, <1>4, <1>5

\* What survives the threshold is in the dense ranking, and it has an order.
LEMMA RankedIs ==
  ASSUME NEW dense \in Rankings, NEW sparse \in Rankings
  PROVE  Ranked(dense, sparse) \in Seq(Chunks)
<1>. DEFINE kept == {c \in ToSet(dense) : Position(dense, c) <= LastKept}
            Before(c, d) == \/ Rrf(dense, sparse, c) > Rrf(dense, sparse, d)
                            \/ /\ Rrf(dense, sparse, c) = Rrf(dense, sparse, d)
                               /\ Position(dense, c) < Position(dense, d)
            R == {p \in kept \X kept : Before(p[1], p[2])}
            Good(o) == o \in SetToSeqs(kept) /\ \A m, n \in DOMAIN o : m < n => Before(o[m], o[n])
<1>1. kept \subseteq ToSet(dense) /\ kept \subseteq Chunks /\ IsFiniteSet(kept)
  BY RankingIs, FS_Subset
<1>2. \A c \in kept : Rrf(dense, sparse, c) \in Int
  <2>1. \A c \in ToSet(dense) : Position(dense, c) \in Nat /\ 100000000 \div (60 + Position(dense, c)) \in Int
    BY RankingIs
  <2>2. \A c \in ToSet(sparse) : Position(sparse, c) \in Nat /\ 100000000 \div (60 + Position(sparse, c)) \in Int
    BY RankingIs
  <2>. QED  BY <1>1, <2>1, <2>2 DEF Rrf
<1>3. \A c, d \in kept : /\ Position(dense, c) \in Nat
                         /\ c # d => Position(dense, c) # Position(dense, d)
  BY <1>1, RankingIs
<1>4. \A c, d \in kept : <<c, d>> \in R <=> Before(c, d)
  OBVIOUS
<1>5. Ordering(kept, R)
  <2>1. \A c, d, e \in kept : Before(c, d) /\ Before(d, e) => Before(c, e)
    <3>. HIDE DEF kept
    <3>. QED  BY <1>2, <1>3
  <2>2. \A c, d \in kept : c # d => Before(c, d) \/ Before(d, c)
    <3>. HIDE DEF kept
    <3>. QED  BY <1>2, <1>3
  <2>. HIDE DEF kept, Before, R
  <2>. QED  BY <1>4, <2>1, <2>2 DEF Ordering
<1>6. \E o : Good(o)
  <2>1. PICK o : Sorted(o, kept, R)
    <3>. HIDE DEF kept, R
    <3>. QED  BY <1>1, <1>5, SortExists
  <2>2. o \in SetToSeqs(kept) /\ \A i, j \in DOMAIN o : i < j => <<o[i], o[j]>> \in R
    <3>. HIDE DEF kept, R
    <3>. QED  BY <2>1 DEF Sorted
  <2>3. \A i, j \in DOMAIN o : i < j => Before(o[i], o[j])
    <3>1. \A i \in DOMAIN o : o[i] \in kept
      <4>. HIDE DEF kept, R
      <4>. QED  BY <1>1, <2>2, SeqsCover
    <3>. HIDE DEF kept, R, Before
    <3>. QED  BY <1>4, <2>2, <3>1
  <2>4. Good(o)
    BY <2>2, <2>3
  <2>. QED  BY <2>4
<1>7. Ranked(dense, sparse) = CHOOSE o \in SetToSeqs(kept) : \A m, n \in DOMAIN o : m < n => Before(o[m], o[n])
  BY DEF Ranked
<1>8. Ranked(dense, sparse) \in SetToSeqs(kept)
  <2>. HIDE DEF kept, Before
  <2>. QED  BY <1>6, <1>7, Zenon DEF Good
<1>9. Ranked(dense, sparse) \in Seq(kept)
  <2>. HIDE DEF kept
  <2>. QED  BY <1>1, <1>8, SeqsCover
<1>. HIDE DEF kept
<1>. QED  BY <1>1, <1>9

LEMMA AscendingIs ==
  ASSUME NEW S \in SUBSET Nat, IsFiniteSet(S)
  PROVE  Ascending(S) \in SetToSeqs(S)
<1>. DEFINE R == {p \in S \X S : p[1] < p[2]}
<1>1. \A i, j \in S : <<i, j>> \in R <=> i < j
  OBVIOUS
<1>2. Ordering(S, R)
  <2>. HIDE DEF R
  <2>. QED  BY <1>1 DEF Ordering
<1>3. PICK o : Sorted(o, S, R)
  <2>. HIDE DEF R
  <2>. QED  BY <1>2, SortExists
<1>. HIDE DEF R
<1>4. o \in SetToSeqs(S) /\ \A i, j \in DOMAIN o : i < j => <<o[i], o[j]>> \in R
  BY <1>3 DEF Sorted
<1>5. \A i \in DOMAIN o : o[i] \in S
  BY <1>4, SeqsCover
<1>6. \A m, n \in DOMAIN o : m < n => o[m] < o[n]
  BY <1>1, <1>4, <1>5
<1>. QED  BY <1>4, <1>6, Zenon DEF Ascending

\* The positions of the reordered hits: each one named, where it is named first, and then
\* the others.
LEMMA OrderIsBijection ==
  ASSUME NEW hits \in Seq(Chunks), NEW named \in Namings
  PROVE  \E order : /\ Reordered(hits, named) = [n \in DOMAIN hits |-> hits[order[n]]]
                    /\ order \in [1..Len(hits) -> 1..Len(hits)]
                    /\ \A k \in 1..Len(hits) : \E n \in 1..Len(hits) : order[n] = k
<1>. DEFINE A == {n \in DOMAIN named : named[n] \in DOMAIN hits /\ \A m \in 1..(n - 1) : named[m] # named[n]}
            B == DOMAIN hits \ ToSet(named)
            first == Ascending(A)
            rest == Ascending(B)
            order == [n \in DOMAIN first |-> named[first[n]]] \o rest
            l == Len(hits)
            a == Cardinality(A)
            b == Cardinality(B)
<1>0. Reordered(hits, named) = [n \in DOMAIN hits |-> hits[order[n]]]
  BY Zenon DEF Reordered
<1>1. PICK m \in Nat : named \in [1..m -> Nat]
  BY DEF Namings
<1>2. l \in Nat /\ DOMAIN hits = 1..l
  OBVIOUS
<1>3. A \subseteq 1..m /\ IsFiniteSet(A) /\ A \in SUBSET Nat
  BY <1>1, FS_Interval, FS_Subset
<1>4. B \subseteq 1..l /\ IsFiniteSet(B) /\ B \in SUBSET Nat
  <2>1. B \subseteq 1..l
    BY <1>2
  <2>2. IsFiniteSet(1..l)
    <3>. HIDE DEF l
    <3>. QED  BY <1>2, FS_Interval
  <2>. HIDE DEF B, l
  <2>3. 1..l \subseteq Nat
    BY <1>2
  <2>. QED  BY <2>1, <2>2, <2>3, FS_Subset
<1>5. /\ a \in Nat /\ first \in [1..a -> A]
      /\ \A i, j \in 1..a : i # j => first[i] # first[j]
      /\ \A n \in A : \E i \in 1..a : first[i] = n
  <2>1. first \in SetToSeqs(A)
    <3>. HIDE DEF A
    <3>. QED  BY <1>3, AscendingIs
  <2>. HIDE DEF A, first
  <2>. QED  BY <1>3, <2>1, SeqsCover
<1>6. /\ b \in Nat /\ rest \in [1..b -> B] /\ Len(rest) = b
      /\ \A i, j \in 1..b : i # j => rest[i] # rest[j]
      /\ \A n \in B : \E i \in 1..b : rest[i] = n
  <2>1. rest \in SetToSeqs(B)
    <3>. HIDE DEF B
    <3>. QED  BY <1>4, AscendingIs
  <2>. HIDE DEF B, rest
  <2>. QED  BY <1>4, <2>1, SeqsCover
<1>7. \A n \in A : n \in 1..m /\ named[n] \in 1..l /\ named[n] \in ToSet(named)
                   /\ \A k \in 1..(n - 1) : named[k] # named[n]
  BY <1>1, <1>2 DEF ToSet
<1>8. \A i \in 1..(a + b) : order[i] = IF i <= a THEN named[first[i]] ELSE rest[i - a]
  <2>. DEFINE v == [n \in DOMAIN first |-> named[first[n]]]
  <2>1. DOMAIN v = 1..a /\ \A i \in 1..a : v[i] = named[first[i]]
    <3>. HIDE DEF A, first, a
    <3>. QED  BY <1>5
  <2>2. Len(v) = a /\ order = v \o rest
    <3>. HIDE DEF A, first, a
    <3>. QED  BY <1>5, <2>1
  <2>3. v \in Seq(1..l) /\ rest \in Seq(1..l)
    <3>. HIDE DEF A, B, first, rest, a, b, l
    <3>1. \A i \in 1..a : v[i] \in 1..l
      BY <1>5, <1>7, <2>1
    <3>2. v = [i \in 1..a |-> v[i]]
      BY <1>5
    <3>. HIDE DEF v
    <3>3. v \in [1..a -> 1..l]
      BY <3>1, <3>2
    <3>4. rest \in [1..b -> 1..l]
      BY <1>4, <1>6
    <3>5. v \in Seq(1..l)
      BY <1>5, <3>3, Listed
    <3>6. rest \in Seq(1..l)
      BY <1>6, <3>4, Listed
    <3>. QED  BY <3>5, <3>6
  <2>. HIDE DEF A, B, first, rest, a, b, l, v, order
  <2>. QED  BY <1>5, <1>6, <2>1, <2>2, <2>3
<1>. HIDE DEF order
<1>9. \A i \in 1..(a + b) : order[i] \in 1..l
  <2>. HIDE DEF A, B, first, rest, a, b, l
  <2>. TAKE i \in 1..(a + b)
  <2>1. CASE i <= a
    <3>1. i \in 1..a /\ first[i] \in A
      BY <1>5, <1>6, <2>1
    <3>. QED  BY <1>7, <1>8, <2>1, <3>1
  <2>2. CASE ~(i <= a)
    <3>1. i - a \in 1..b
      BY <1>5, <1>6, <2>2
    <3>2. rest[i - a] \in B
      BY <1>6, <3>1
    <3>. QED  BY <1>4, <1>8, <2>2, <3>2
  <2>. QED  BY <2>1, <2>2
<1>10. \A i, j \in 1..(a + b) : order[i] = order[j] => i = j
  <2>. TAKE i, j \in 1..(a + b)
  <2>. HAVE order[i] = order[j]
  <2>1. \A x, y \in 1..a : named[first[x]] = named[first[y]] => x = y
    <3>. TAKE x, y \in 1..a
    <3>. HAVE named[first[x]] = named[first[y]]
    <3>1. first[x] \in 1..m /\ first[y] \in 1..m /\ first[x] \in A /\ first[y] \in A
      <4>. HIDE DEF A, first, a
      <4>. QED  BY <1>5, <1>7
    <3>2. ~(first[x] < first[y]) /\ ~(first[y] < first[x])
      <4>. HIDE DEF A, first, a
      <4>. QED  BY <1>7, <3>1
    <3>. HIDE DEF A, first, a
    <3>. QED  BY <1>5, <3>1, <3>2
  <2>2. \A x \in 1..a : named[first[x]] \in ToSet(named)
    <3>. HIDE DEF A, first, a
    <3>. QED  BY <1>5, <1>7
  <2>3. \A x \in 1..b : rest[x] \notin ToSet(named)
    <3>. HIDE DEF rest, b
    <3>. QED  BY <1>6
  <2>. HIDE DEF A, B, first, rest, a, b, l
  <2>4. CASE i <= a /\ j <= a
    BY <1>5, <1>6, <1>8, <2>1, <2>4
  <2>5. CASE i <= a /\ ~(j <= a)
    <3>1. i \in 1..a /\ j - a \in 1..b
      BY <1>5, <1>6, <2>5
    <3>. QED  BY <1>8, <2>2, <2>3, <2>5, <3>1
  <2>6. CASE ~(i <= a) /\ j <= a
    <3>1. j \in 1..a /\ i - a \in 1..b
      BY <1>5, <1>6, <2>6
    <3>. QED  BY <1>8, <2>2, <2>3, <2>6, <3>1
  <2>7. CASE ~(i <= a) /\ ~(j <= a)
    <3>1. i - a \in 1..b /\ j - a \in 1..b /\ rest[i - a] = rest[j - a]
      BY <1>5, <1>6, <1>8, <2>7
    <3>2. i - a = j - a
      BY <1>6, <3>1
    <3>. QED  BY <1>5, <1>6, <3>2
  <2>. QED  BY <2>4, <2>5, <2>6, <2>7
<1>11. \A k \in 1..l : \E i \in 1..(a + b) : order[i] = k
  <2>. TAKE k \in 1..l
  <2>1. CASE k \in ToSet(named)
    <3>. DEFINE P == {n \in 1..m : named[n] = k}
    <3>1. P \in SUBSET Nat /\ P # {}
      BY <1>1, <2>1 DEF ToSet
    <3>2. PICK n \in P : \A p \in P : n <= p
      <4>. HIDE DEF P
      <4>. QED  BY <3>1, Least
    <3>3. n \in 1..m /\ named[n] = k /\ \A p \in 1..(n - 1) : named[p] # k
      <4>1. \A p \in 1..(n - 1) : p \in 1..m /\ ~(n <= p)
        BY <1>1, <3>2
      <4>. QED  BY <3>2, <4>1
    <3>4. n \in A
      BY <1>1, <1>2, <3>3
    <3>5. PICK i \in 1..a : first[i] = n
      <4>. HIDE DEF A, first, a
      <4>. QED  BY <1>5, <3>4
    <3>. HIDE DEF A, B, first, rest, a, b, l
    <3>6. i \in 1..(a + b) /\ i <= a
      BY <1>5, <1>6
    <3>. QED  BY <1>8, <3>3, <3>5, <3>6
  <2>2. CASE k \notin ToSet(named)
    <3>1. k \in B
      BY <1>2, <2>2
    <3>. HIDE DEF A, B, first, rest, a, b, l
    <3>2. PICK i \in 1..b : rest[i] = k
      BY <1>6, <3>1
    <3>3. i + a \in 1..(a + b) /\ ~(i + a <= a) /\ (i + a) - a = i
      BY <1>5, <1>6
    <3>4. order[i + a] = k
      BY <1>8, <3>2, <3>3
    <3>. QED  BY <3>3, <3>4
  <2>. QED  BY <2>1, <2>2
<1>12. a + b = l
  <2>. DEFINE f == [i \in 1..(a + b) |-> order[i]]
  <2>. HIDE DEF A, B, first, rest, a, b, l
  <2>1. f \in Bijection(1..(a + b), 1..l)
    <3>1. f \in [1..(a + b) -> 1..l]
      BY <1>9
    <3>2. \A i, j \in 1..(a + b) : f[i] = f[j] => i = j
      BY <1>10
    <3>3. \A k \in 1..l : \E i \in 1..(a + b) : f[i] = k
      BY <1>11
    <3>. HIDE DEF f
    <3>. QED  BY <3>1, <3>2, <3>3 DEF Bijection, Injection, Surjection, IsInjective
  <2>2. ExistsBijection(1..(a + b), 1..l)
    BY <2>1, Zenon DEF ExistsBijection
  <2>3. a + b \in Nat
    BY <1>5, <1>6
  <2>4. Cardinality(1..l) = a + b
    BY <2>2, <2>3, FS_CountingElements, Zenon
  <2>5. Cardinality(1..l) = l
    BY <1>2, FS_Interval
  <2>. QED  BY <2>4, <2>5
<1>. DEFINE g == [i \in 1..l |-> order[i]]
<1>13. /\ g \in [1..l -> 1..l] /\ \A k \in 1..l : \E n \in 1..l : g[n] = k
       /\ [n \in DOMAIN hits |-> hits[order[n]]] = [n \in DOMAIN hits |-> hits[g[n]]]
  <2>. HIDE DEF A, B, first, rest, a, b, l
  <2>. QED  BY <1>2, <1>9, <1>11, <1>12
<1>. HIDE DEF A, B, first, rest, a, b, g
<1>. QED  BY <1>0, <1>13

\* Whatever order the model names, the hits stay the same.
LEMMA ReorderedIs ==
  ASSUME NEW hits \in Seq(Chunks), NEW named \in Namings
  PROVE  /\ Reordered(hits, named) \in Seq(Chunks)
         /\ Len(Reordered(hits, named)) = Len(hits)
         /\ ToSet(Reordered(hits, named)) = ToSet(hits)
<1>1. PICK order : /\ Reordered(hits, named) = [n \in DOMAIN hits |-> hits[order[n]]]
                   /\ order \in [1..Len(hits) -> 1..Len(hits)]
                   /\ \A k \in 1..Len(hits) : \E n \in 1..Len(hits) : order[n] = k
  BY OrderIsBijection
<1>2. Len(hits) \in Nat /\ DOMAIN hits = 1..Len(hits) /\ \A n \in 1..Len(hits) : hits[n] \in Chunks
  OBVIOUS
<1>. DEFINE h == [n \in 1..Len(hits) |-> hits[order[n]]]
<1>3. Reordered(hits, named) = h
  BY <1>1, <1>2
<1>4. h \in [1..Len(hits) -> Chunks] /\ \A n \in 1..Len(hits) : h[n] = hits[order[n]]
  BY <1>1, <1>2
<1>. HIDE DEF h
<1>5. h \in Seq(Chunks)
  BY <1>2, <1>4, Listed
<1>6. DOMAIN h = 1..Len(hits) /\ Len(h) = Len(hits)
  BY <1>2, <1>4, <1>5
<1>7. ToSet(h) = ToSet(hits)
  <2>1. \A n \in 1..Len(hits) : \E k \in 1..Len(hits) : h[n] = hits[k]
    BY <1>1, <1>4
  <2>2. \A k \in 1..Len(hits) : \E n \in 1..Len(hits) : h[n] = hits[k]
    BY <1>1, <1>4
  <2>3. ToSet(h) = {h[n] : n \in 1..Len(hits)} /\ ToSet(hits) = {hits[k] : k \in 1..Len(hits)}
    BY <1>2, <1>6, Zenon DEF ToSet
  <2>. QED  BY <2>1, <2>2, <2>3, Zenon
<1>. QED  BY <1>3, <1>5, <1>6, <1>7

\* LLMGateway.rerank: no hit is lost, none is there twice, for every
\* knowledge base and whatever the model answers.
THEOREM RerankKeepsTheHits == Spec => []RerankLosesNothing
<1>1. ASSUME JobOK, job.kind = "cited"
      PROVE  ToSet(job.hits) = ToSet(job.ranked) /\ Len(job.hits) = Len(job.ranked)
  <2>1. PICK dense \in Rankings, sparse \in Rankings, named \in Namings :
          job = [kind |-> "cited", dense |-> dense, ranked |-> Ranked(dense, sparse),
                 hits |-> Reordered(Ranked(dense, sparse), named),
                 cited |-> Injected(dense, Reordered(Ranked(dense, sparse), named))]
    BY <1>1, KindTells, Zenon DEF IsCited
  <2>2. job.ranked = Ranked(dense, sparse) /\ job.hits = Reordered(Ranked(dense, sparse), named)
    BY <2>1
  <2>. QED  BY <2>2, RankedIs, ReorderedIs
<1>2. JobOK => RerankLosesNothing
  BY <1>1 DEF RerankLosesNothing
<1>. QED  BY <1>2, JobsAreJobs, PTL

-----------------------------------------------------------------------------
(* What the citations add up to                                            *)

\* f[n] is what the first n hits add to the knowledge zone.
Sums(f, dense, hits, m) ==
    f = [n \in 0..m |-> IF n = 0 THEN 0 ELSE f[n - 1] + Part(dense, hits[n])]

LEMMA SumsAt ==
  ASSUME NEW f, NEW dense, NEW hits, NEW m \in Nat, Sums(f, dense, hits, m)
  PROVE  f[0] = 0 /\ \A n \in 1..m : f[n] = f[n - 1] + Part(dense, hits[n])
<1>1. f = [n \in 0..m |-> IF n = 0 THEN 0 ELSE f[n - 1] + Part(dense, hits[n])]
  BY Zenon DEF Sums
<1>2. \A n \in 0..m : f[n] = IF n = 0 THEN 0 ELSE f[n - 1] + Part(dense, hits[n])
  BY <1>1, Zenon
<1>3. 0 \in 0..m /\ \A n \in 1..m : n \in 0..m /\ n # 0
  OBVIOUS
<1>. QED  BY <1>2, <1>3, Zenon

\* There is such a function: otherwise take the least m without one.
LEMMA SumsExist ==
  ASSUME NEW dense, NEW hits, NEW m \in Nat
  PROVE  \E f : Sums(f, dense, hits, m)
<1>. DEFINE Bad == {k \in Nat : ~\E f : Sums(f, dense, hits, k)}
<1>1. SUFFICES ASSUME Bad # {} PROVE FALSE
  OBVIOUS
<1>2. PICK k \in Bad : \A l \in Bad : k <= l
  <2>1. Bad \in SUBSET Nat
    OBVIOUS
  <2>. HIDE DEF Bad
  <2>. QED  BY <1>1, <2>1, Least
<1>3. k # 0
  <2>. DEFINE f == [n \in 0..0 |-> 0]
  <2>1. \A n \in 0..0 : n = 0
    OBVIOUS
  <2>2. \A n \in 0..0 : f[n] = IF n = 0 THEN 0 ELSE f[n - 1] + Part(dense, hits[n])
    BY <2>1
  <2>3. f = [n \in 0..0 |-> f[n]]
    OBVIOUS
  <2>4. Sums(f, dense, hits, 0)
    <3>. HIDE DEF f
    <3>. QED  BY <2>2, <2>3, Zenon DEF Sums
  <2>. QED  BY <1>2, <2>4
<1>4. k \in Nat /\ k - 1 \in Nat /\ k - 1 \notin Bad
  BY <1>2, <1>3
<1>5. PICK g : Sums(g, dense, hits, k - 1)
  BY <1>4
<1>. DEFINE f == [n \in 0..k |-> IF n = k THEN g[k - 1] + Part(dense, hits[k]) ELSE g[n]]
<1>6. \A n \in 0..k : f[n] = IF n = 0 THEN 0 ELSE f[n - 1] + Part(dense, hits[n])
  <2>1. g[0] = 0 /\ \A n \in 1..(k - 1) : g[n] = g[n - 1] + Part(dense, hits[n])
    BY <1>4, <1>5, SumsAt
  <2>2. f[k] = g[k - 1] + Part(dense, hits[k]) /\ \A n \in 0..(k - 1) : f[n] = g[n]
    BY <1>4
  <2>. HIDE DEF f
  <2>3. f[k] = f[k - 1] + Part(dense, hits[k])
    BY <1>4, <2>2
  <2>4. ASSUME NEW n \in 1..(k - 1) PROVE f[n] = f[n - 1] + Part(dense, hits[n])
    <3>1. n \in 0..(k - 1) /\ n - 1 \in 0..(k - 1)
      BY <1>4
    <3>. QED  BY <2>1, <2>2, <3>1
  <2>. QED  BY <1>3, <1>4, <2>1, <2>2, <2>3, <2>4
<1>7. Sums(f, dense, hits, k)
  <2>1. f = [n \in 0..k |-> f[n]]
    OBVIOUS
  <2>. HIDE DEF f
  <2>. QED  BY <1>6, <2>1, Zenon DEF Sums
<1>. QED  BY <1>2, <1>7

LEMMA PartIs == ASSUME NEW dense, NEW c \in Chunks PROVE Part(dense, c) \in Nat
BY DecisionsAssumption, BudgetAssumption DEF Part

LEMMA CharsIs ==
  ASSUME NEW dense, NEW hits \in Seq(Chunks)
  PROVE  /\ Chars(dense, hits, 0) = 0
         /\ \A n \in 1..Len(hits) : Chars(dense, hits, n) = Chars(dense, hits, n - 1) + Part(dense, hits[n])
         /\ \A n \in 0..Len(hits) : Chars(dense, hits, n) \in Nat
<1>. DEFINE l == Len(hits)
            g == CHOOSE f : Sums(f, dense, hits, l)
<1>1. l \in Nat /\ \A n \in 1..l : hits[n] \in Chunks
  OBVIOUS
<1>2. \A n : Chars(dense, hits, n) = g[n]
  BY Zenon DEF Chars, Sums
<1>. HIDE DEF l
<1>3. Sums(g, dense, hits, l)
  <2>1. \E f : Sums(f, dense, hits, l)
    BY <1>1, SumsExist
  <2>. QED  BY <2>1, Zenon
<1>. HIDE DEF g
<1>4. g[0] = 0 /\ \A n \in 1..l : g[n] = g[n - 1] + Part(dense, hits[n])
  BY <1>1, <1>3, SumsAt
<1>5. \A n \in 0..l : g[n] \in Nat
  <2>. DEFINE Bad == {n \in 0..l : g[n] \notin Nat}
  <2>1. SUFFICES ASSUME Bad # {} PROVE FALSE
    OBVIOUS
  <2>2. PICK k \in Bad : \A n \in Bad : k <= n
    <3>1. Bad \in SUBSET Nat
      BY <1>1
    <3>. HIDE DEF Bad
    <3>. QED  BY <2>1, <3>1, Least
  <2>3. k \in 0..l /\ g[k] \notin Nat /\ k # 0
    BY <1>4, <2>2
  <2>4. k \in 1..l /\ k - 1 \in 0..l /\ ~(k <= k - 1)
    BY <1>1, <2>3
  <2>5. g[k - 1] \in Nat
    BY <2>2, <2>4
  <2>6. Part(dense, hits[k]) \in Nat
    BY <1>1, <2>4, PartIs
  <2>. QED  BY <1>4, <2>3, <2>4, <2>5, <2>6
<1>. QED  BY <1>2, <1>4, <1>5 DEF l

\* f[n] is the state of _inject after n rounds.
After(s, dense, n, c) ==
    IF s.open /\ s.used + Part(dense, c) <= MaxChars
    THEN Cites(s, dense, n, c)
    ELSE [s EXCEPT !.open = FALSE]

Rounds(f, dense, hits, m) ==
    f = [n \in 0..m |-> IF n = 0 THEN Start ELSE After(f[n - 1], dense, n, hits[n])]

LEMMA RoundsAt ==
  ASSUME NEW f, NEW dense, NEW hits, NEW m \in Nat, Rounds(f, dense, hits, m)
  PROVE  f[0] = Start /\ \A n \in 1..m : f[n] = After(f[n - 1], dense, n, hits[n])
<1>1. f = [n \in 0..m |-> IF n = 0 THEN Start ELSE After(f[n - 1], dense, n, hits[n])]
  BY Zenon DEF Rounds
<1>2. \A n \in 0..m : f[n] = IF n = 0 THEN Start ELSE After(f[n - 1], dense, n, hits[n])
  BY <1>1, Zenon
<1>3. 0 \in 0..m /\ \A n \in 1..m : n \in 0..m /\ n # 0
  OBVIOUS
<1>. QED  BY <1>2, <1>3, Zenon

LEMMA RoundsExist ==
  ASSUME NEW dense, NEW hits, NEW m \in Nat
  PROVE  \E f : Rounds(f, dense, hits, m)
<1>. DEFINE Bad == {k \in Nat : ~\E f : Rounds(f, dense, hits, k)}
<1>1. SUFFICES ASSUME Bad # {} PROVE FALSE
  OBVIOUS
<1>2. PICK k \in Bad : \A l \in Bad : k <= l
  <2>1. Bad \in SUBSET Nat
    OBVIOUS
  <2>. HIDE DEF Bad
  <2>. QED  BY <1>1, <2>1, Least
<1>3. k # 0
  <2>. DEFINE f == [n \in 0..0 |-> Start]
  <2>1. \A n \in 0..0 : n = 0
    OBVIOUS
  <2>2. \A n \in 0..0 : f[n] = IF n = 0 THEN Start ELSE After(f[n - 1], dense, n, hits[n])
    BY <2>1
  <2>3. f = [n \in 0..0 |-> f[n]]
    OBVIOUS
  <2>4. Rounds(f, dense, hits, 0)
    <3>. HIDE DEF f
    <3>. QED  BY <2>2, <2>3, Zenon DEF Rounds
  <2>. QED  BY <1>2, <2>4
<1>4. k \in Nat /\ k - 1 \in Nat /\ k - 1 \notin Bad
  BY <1>2, <1>3
<1>5. PICK g : Rounds(g, dense, hits, k - 1)
  BY <1>4
<1>. DEFINE f == [n \in 0..k |-> IF n = k THEN After(g[k - 1], dense, k, hits[k]) ELSE g[n]]
<1>6. \A n \in 0..k : f[n] = IF n = 0 THEN Start ELSE After(f[n - 1], dense, n, hits[n])
  <2>1. g[0] = Start /\ \A n \in 1..(k - 1) : g[n] = After(g[n - 1], dense, n, hits[n])
    BY <1>4, <1>5, RoundsAt
  <2>2. f[k] = After(g[k - 1], dense, k, hits[k]) /\ \A n \in 0..(k - 1) : f[n] = g[n]
    BY <1>4
  <2>. HIDE DEF f
  <2>3. f[k] = After(f[k - 1], dense, k, hits[k])
    BY <1>4, <2>2
  <2>4. ASSUME NEW n \in 1..(k - 1) PROVE f[n] = After(f[n - 1], dense, n, hits[n])
    <3>1. n \in 0..(k - 1) /\ n - 1 \in 0..(k - 1)
      BY <1>4
    <3>. QED  BY <2>1, <2>2, <3>1
  <2>. QED  BY <1>3, <1>4, <2>1, <2>2, <2>3, <2>4
<1>7. Rounds(f, dense, hits, k)
  <2>1. f = [n \in 0..k |-> f[n]]
    OBVIOUS
  <2>. HIDE DEF f
  <2>. QED  BY <1>6, <2>1, Zenon DEF Rounds
<1>. QED  BY <1>2, <1>7

\* After n rounds: the first hits are cited, each with its place, and what they need is
\* counted; the loop is open as long as every hit was cited, and after it the next hit
\* would not have fitted.
States == [cited : Seq([label : Nat, chunk : Chunks]), used : Nat, open : BOOLEAN]

Good(s, dense, hits, n) ==
    \E k \in 0..n :
        /\ s \in States /\ Len(s.cited) = k /\ s.used = Chars(dense, hits, k) /\ (s.open <=> k = n)
        /\ \A i \in 1..k : s.cited[i] = [label |-> i, chunk |-> hits[i]]
        /\ Chars(dense, hits, k) <= MaxChars
        /\ k < n => Chars(dense, hits, k + 1) > MaxChars

LEMMA RoundIsGood ==
  ASSUME NEW dense, NEW hits \in Seq(Chunks), NEW n \in 1..Len(hits), NEW s, Good(s, dense, hits, n - 1)
  PROVE  Good(After(s, dense, n, hits[n]), dense, hits, n)
<1>. DEFINE c == hits[n]
            t == After(s, dense, n, c)
<1>1. PICK k \in 0..(n - 1) :
        /\ s \in States /\ Len(s.cited) = k /\ s.used = Chars(dense, hits, k) /\ (s.open <=> k = n - 1)
        /\ \A i \in 1..k : s.cited[i] = [label |-> i, chunk |-> hits[i]]
        /\ Chars(dense, hits, k) <= MaxChars
        /\ k < n - 1 => Chars(dense, hits, k + 1) > MaxChars
  BY DEF Good
<1>2. n \in Nat /\ n - 1 \in 0..Len(hits) /\ c \in Chunks
  OBVIOUS
<1>3. /\ Chars(dense, hits, n) = Chars(dense, hits, n - 1) + Part(dense, c)
      /\ Chars(dense, hits, n - 1) \in Nat
  BY <1>2, CharsIs
<1>. HIDE DEF c
<1>4. Part(dense, c) \in Nat
  BY <1>2, PartIs
<1>5. CASE s.open /\ s.used + Part(dense, c) <= MaxChars
  <2>. DEFINE r == [label |-> n, chunk |-> c]
  <2>1. t = [s EXCEPT !.cited = Append(@, r), !.used = @ + Part(dense, c)] /\ k = n - 1
    BY <1>1, <1>5 DEF After, Cites
  <2>2. r \in [label : Nat, chunk : Chunks] /\ r = [label |-> n, chunk |-> hits[n]]
    BY <1>2 DEF c
  <2>. HIDE DEF r, t
  <2>3. s.cited \in Seq([label : Nat, chunk : Chunks]) /\ s.used = Chars(dense, hits, n - 1) /\ s.open
    BY <1>1, <1>5, <2>1 DEF States
  <2>4. t.cited = Append(s.cited, r) /\ t.used = Chars(dense, hits, n) /\ t.open = s.open /\ t \in States
    <3>1. t = [cited |-> Append(s.cited, r), used |-> s.used + Part(dense, c), open |-> s.open]
      BY <1>1, <2>1 DEF States
    <3>2. Append(s.cited, r) \in Seq([label : Nat, chunk : Chunks])
      BY <2>2, <2>3
    <3>3. s.used + Part(dense, c) = Chars(dense, hits, n) /\ s.used + Part(dense, c) \in Nat
      BY <1>3, <1>4, <2>3
    <3>. QED  BY <2>3, <3>1, <3>2, <3>3 DEF States
  <2>5. /\ Len(t.cited) = n /\ t.cited[n] = r
        /\ \A i \in 1..(n - 1) : t.cited[i] = s.cited[i]
    BY <1>1, <1>2, <2>1, <2>2, <2>3, <2>4
  <2>6. \A i \in 1..n : t.cited[i] = [label |-> i, chunk |-> hits[i]]
    <3>. TAKE i \in 1..n
    <3>1. CASE i = n
      BY <2>2, <2>5, <3>1
    <3>2. CASE i # n
      <4>1. i \in 1..(n - 1)
        BY <1>2, <3>2
      <4>. QED  BY <1>1, <2>1, <2>5, <4>1
    <3>. QED  BY <3>1, <3>2
  <2>7. Chars(dense, hits, n) <= MaxChars
    BY <1>3, <1>5, <2>3
  <2>8. n \in 0..n /\ ~(n < n)
    BY <1>2
  <2>. QED  BY <2>3, <2>4, <2>5, <2>6, <2>7, <2>8 DEF Good, t, c
<1>6. CASE ~(s.open /\ s.used + Part(dense, c) <= MaxChars)
  <2>1. t = [s EXCEPT !.open = FALSE]
    BY <1>6 DEF After
  <2>. HIDE DEF t
  <2>2. t \in States /\ t.cited = s.cited /\ t.used = s.used /\ ~t.open
    BY <1>1, <2>1 DEF States
  <2>3. k \in 0..n /\ k < n /\ k # n
    BY <1>1, <1>2
  <2>4. Chars(dense, hits, k + 1) > MaxChars
    <3>1. CASE k = n - 1
      <4>1. k + 1 = n /\ ~(Chars(dense, hits, n - 1) + Part(dense, c) <= MaxChars)
        BY <1>1, <1>2, <1>6, <3>1
      <4>. QED  BY <1>3, <1>4, <4>1, BudgetAssumption
    <3>2. CASE k # n - 1
      BY <1>1, <1>2, <3>2
    <3>. QED  BY <3>1, <3>2
  <2>. QED  BY <1>1, <2>2, <2>3, <2>4 DEF Good, t, c
<1>. QED  BY <1>5, <1>6

\* What the loop returns: the first hits, as many as both budgets allow.
LEMMA InjectedIs ==
  ASSUME NEW dense, NEW hits \in Seq(Chunks)
  PROVE  LET cited == Injected(dense, hits)
             n == Len(cited)
         IN  /\ n <= Len(hits) /\ n <= MaxChunks
             /\ \A k \in 1..n : cited[k] = [label |-> k, chunk |-> hits[k]]
             /\ Chars(dense, hits, n) <= MaxChars
             /\ n < Min({MaxChunks, Len(hits)}) => Chars(dense, hits, n + 1) > MaxChars
<1>. DEFINE top == Min({MaxChunks, Len(hits)})
            g == CHOOSE f : Rounds(f, dense, hits, top)
            cited == g[top].cited
<1>0. Injected(dense, hits) = cited
  BY Zenon DEF Injected, Rounds, After
<1>1. top \in Nat /\ top <= MaxChunks /\ top <= Len(hits) /\ Len(hits) \in Nat
  BY MinOfTwo, BudgetAssumption
<1>. HIDE DEF top
<1>2. Rounds(g, dense, hits, top)
  <2>1. \E f : Rounds(f, dense, hits, top)
    BY <1>1, RoundsExist
  <2>. QED  BY <2>1, Zenon
<1>. HIDE DEF g
<1>3. g[0] = Start /\ \A n \in 1..top : g[n] = After(g[n - 1], dense, n, hits[n])
  BY <1>1, <1>2, RoundsAt
<1>4. Good(g[0], dense, hits, 0)
  <2>1. Chars(dense, hits, 0) = 0 /\ 0 <= MaxChars
    BY CharsIs, BudgetAssumption
  <2>2. g[0] = [cited |-> <<>>, used |-> 0, open |-> TRUE]
    BY <1>3 DEF Start
  <2>3. g[0] \in States /\ g[0].cited = <<>> /\ g[0].used = 0 /\ g[0].open
    BY <2>2 DEF States
  <2>. QED  BY <2>1, <2>3 DEF Good
<1>5. \A n \in 0..top : Good(g[n], dense, hits, n)
  <2>. DEFINE Bad == {n \in 0..top : ~Good(g[n], dense, hits, n)}
  <2>1. SUFFICES ASSUME Bad # {} PROVE FALSE
    OBVIOUS
  <2>2. PICK n \in Bad : \A i \in Bad : n <= i
    <3>1. Bad \in SUBSET Nat
      BY <1>1
    <3>. HIDE DEF Bad
    <3>. QED  BY <2>1, <3>1, Least
  <2>3. n \in 0..top /\ ~Good(g[n], dense, hits, n) /\ n # 0
    BY <1>4, <2>2
  <2>4. n \in 1..top /\ n \in 1..Len(hits) /\ n - 1 \in 0..top /\ ~(n <= n - 1)
    BY <1>1, <2>3
  <2>5. Good(g[n - 1], dense, hits, n - 1)
    BY <2>2, <2>4
  <2>. QED  BY <1>3, <2>3, <2>4, <2>5, RoundIsGood
<1>6. PICK k \in 0..top :
        /\ Len(cited) = k
        /\ \A i \in 1..k : cited[i] = [label |-> i, chunk |-> hits[i]]
        /\ Chars(dense, hits, k) <= MaxChars
        /\ k < top => Chars(dense, hits, k + 1) > MaxChars
  <2>1. top \in 0..top /\ Good(g[top], dense, hits, top)
    BY <1>1, <1>5
  <2>. QED  BY <2>1 DEF Good
<1>7. k <= MaxChunks /\ k <= Len(hits)
  BY <1>1, BudgetAssumption
<1>. HIDE DEF cited
<1>. QED  BY <1>0, <1>6, <1>7 DEF top

\* _inject: citation n is hit n with label c<n>, and the loop stops where a budget is used
\* up, for every budget and every length of the chunks.
THEOREM CitationsAreTheFirstHits == Spec => []CitedIsPrefix
<1>1. ASSUME JobOK, job.kind = "cited"
      PROVE  /\ job.hits \in Seq(Chunks)
             /\ job.cited = Injected(job.dense, job.hits)
  <2>1. PICK dense \in Rankings, sparse \in Rankings, named \in Namings :
          job = [kind |-> "cited", dense |-> dense, ranked |-> Ranked(dense, sparse),
                 hits |-> Reordered(Ranked(dense, sparse), named),
                 cited |-> Injected(dense, Reordered(Ranked(dense, sparse), named))]
    BY <1>1, KindTells, Zenon DEF IsCited
  <2>2. /\ job.dense = dense /\ job.hits = Reordered(Ranked(dense, sparse), named)
        /\ job.cited = Injected(dense, job.hits)
    BY <2>1
  <2>. QED  BY <2>2, RankedIs, ReorderedIs
<1>2. JobOK => CitedIsPrefix
  <2>. SUFFICES ASSUME JobOK, job.kind = "cited" PROVE CitedIsPrefix
    BY DEF CitedIsPrefix
  <2>1. job.hits \in Seq(Chunks) /\ job.cited = Injected(job.dense, job.hits)
    BY <1>1
  <2>. QED  BY <2>1, InjectedIs DEF CitedIsPrefix
<1>. QED  BY <1>2, JobsAreJobs, PTL

=============================================================================
