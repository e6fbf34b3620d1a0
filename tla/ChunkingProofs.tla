---------------------------- MODULE ChunkingProofs ----------------------------
(***************************************************************************)
(* What the functions of module Chunking compute, for every recording and  *)
(* every transcript.  They are recursive; a fact about every step of one   *)
(* is proved by looking at the first step that would break it.             *)
(***************************************************************************)
EXTENDS Chunking, SequenceTheorems, FiniteSetTheorems, TLAPS

-----------------------------------------------------------------------------
(* Induction, and functions defined by it.                                  *)

LEMMA LeastNumber ==
  ASSUME NEW T \in SUBSET Nat, T # {}
  PROVE  \E n \in T : \A m \in T : n <= m
<1> DEFINE R == OpToRel(<, Nat)
<1>1. IsWellFoundedOn(R, Nat)
  BY NatLessThanWellFounded
<1>2. \A i, j \in Nat : i < j => <<i, j>> \in R
  BY DEF OpToRel
<1> HIDE DEF R
<1>3. PICK n \in T : \A m \in T : ~(<<m, n>> \in R)
  BY <1>1, WFMin
<1>4. \A m \in T : m \in Nat /\ n \in Nat /\ ~(m < n)
  BY <1>2, <1>3
<1>5. \A m \in T : n <= m
  BY <1>4
<1>6. QED BY <1>5

LEMMA GreatestNumber ==
  ASSUME NEW T \in SUBSET Nat, T # {}, NEW b \in Nat, \A n \in T : n <= b
  PROVE  \E n \in T : \A m \in T : m <= n
<1> DEFINE U == {b - n : n \in T}
<1>1. U \in SUBSET Nat /\ U # {}
  <2>1. \A n \in T : b - n \in Nat
    OBVIOUS
  <2>2. QED BY <2>1
<1>2. PICK k \in U : \A m \in U : k <= m
  BY <1>1, LeastNumber
<1>3. PICK n \in T : k = b - n
  OBVIOUS
<1>4. \A m \in T : b - n <= b - m
  BY <1>2, <1>3
<1>5. QED BY <1>4

LEMMA MinOfNumbers ==
  ASSUME NEW T \in SUBSET Nat, T # {}
  PROVE  Min(T) \in T /\ \A m \in T : Min(T) <= m
BY LeastNumber, Zenon DEF Min

LEMMA MaxOfNumbers ==
  ASSUME NEW T \in SUBSET Nat, T # {}, NEW b \in Nat, \A n \in T : n <= b
  PROVE  Max(T) \in T /\ \A m \in T : m <= Max(T)
<1>1. PICK n \in T : \A m \in T : m <= n
  BY GreatestNumber
<1>2. \E x \in T : \A y \in T : x >= y
  BY <1>1
<1>3. Max(T) \in T /\ \A y \in T : Max(T) >= y
  BY <1>2, Zenon DEF Max
<1>4. QED BY <1>3

(* `step[i]` takes what is accumulated before step i to what is after it.   *)
Accumulates(f, n, a, step) == f[0] = a /\ \A i \in 1..n : f[i] = step[i][f[i - 1]]

LEMMA AccumulatorExists ==
  ASSUME NEW A, NEW a \in A, NEW n \in Nat, NEW step \in [1..n -> [A -> A]]
  PROVE  \E f \in [0..n -> A] : Accumulates(f, n, a, step)
<1> DEFINE Has(k) == \E f \in [0..k -> A] : Accumulates(f, k, a, step)
           T == {k \in 0..n : ~Has(k)}
<1>1. SUFFICES ASSUME T # {} PROVE FALSE
  OBVIOUS
<1>2. PICK k \in T : \A m \in T : k <= m
  <2>1. T \in SUBSET Nat
    OBVIOUS
  <2> HIDE DEF T
  <2>2. QED BY <1>1, <2>1, LeastNumber
<1>3. k # 0
  <2>1. [i \in 0..0 |-> a] \in [0..0 -> A] /\ Accumulates([i \in 0..0 |-> a], 0, a, step)
    BY DEF Accumulates
  <2>2. Has(0)
    BY <2>1
  <2>3. QED BY <2>2
<1>4. Has(k - 1) /\ k \in 1..n
  BY <1>2, <1>3
<1>5. PICK f \in [0..k - 1 -> A] : Accumulates(f, k - 1, a, step)
  BY <1>4
<1> DEFINE g == [i \in 0..k |-> IF i = k THEN step[k][f[k - 1]] ELSE f[i]]
<1>6. g \in [0..k -> A]
  BY <1>4
<1>7. Accumulates(g, k, a, step)
  BY <1>4, <1>5 DEF Accumulates
<1>8. QED BY <1>6, <1>7

(* Whatever is so at the start and stays so is so at the end.               *)
LEMMA Induction ==
  ASSUME NEW n \in Nat, NEW Good, 0 \in Good, \A i \in 1..n : i - 1 \in Good => i \in Good
  PROVE  0..n \subseteq Good
<1> DEFINE T == (0..n) \ Good
<1>1. SUFFICES ASSUME T # {} PROVE FALSE
  OBVIOUS
<1>2. PICK k \in T : \A m \in T : k <= m
  <2>1. T \in SUBSET Nat
    OBVIOUS
  <2> HIDE DEF T
  <2>2. QED BY <1>1, <2>1, LeastNumber
<1>3. k \in 1..n /\ k - 1 \in 0..n /\ k - 1 < k
  OBVIOUS
<1>4. k - 1 \notin T
  BY <1>2, <1>3
<1>5. QED BY <1>3, <1>4

-----------------------------------------------------------------------------
(* What is left of a sequence, and the words of a recording.                *)

(* The function inside Without.                                             *)
Keeps(s, unwanted, kept) ==
  /\ kept[0] = <<>>
  /\ \A n \in 1..Len(s) :
       kept[n] = IF s[n] \in unwanted THEN kept[n - 1] ELSE Append(kept[n - 1], s[n])

LEMMA WithoutIs ==
  ASSUME NEW S, NEW s \in Seq(S), NEW unwanted
  PROVE  \E kept \in [0..Len(s) -> Seq(S)] :
           Keeps(s, unwanted, kept) /\ Without(s, unwanted) = kept[Len(s)]
<1> DEFINE n == Len(s)
           step == [i \in 1..n |-> [t \in Seq(S) |->
                      IF s[i] \in unwanted THEN t ELSE Append(t, s[i])]]
           Is(f) == f = [i \in 0..n |->
                           IF i = 0 THEN <<>>
                           ELSE IF s[i] \in unwanted THEN f[i - 1] ELSE Append(f[i - 1], s[i])]
<1>1. n \in Nat /\ \A i \in 1..n : s[i] \in S
  BY ElementOfSeq, LenProperties
<1>2. \A i \in 1..n, t \in Seq(S) : Append(t, s[i]) \in Seq(S)
  BY <1>1, AppendProperties
<1>3. step \in [1..n -> [Seq(S) -> Seq(S)]]
  BY <1>2
<1>4. PICK f \in [0..n -> Seq(S)] : Accumulates(f, n, <<>>, step)
  BY <1>1, <1>3, EmptySeq, AccumulatorExists
<1>5. \A i \in 1..n : f[i] = IF s[i] \in unwanted THEN f[i - 1] ELSE Append(f[i - 1], s[i])
  <2>1. \A i \in 1..n, t \in Seq(S) :
          step[i][t] = IF s[i] \in unwanted THEN t ELSE Append(t, s[i])
    OBVIOUS
  <2> HIDE DEF step
  <2>2. \A i \in 1..n : i - 1 \in 0..n
    BY <1>1
  <2>3. QED BY <1>4, <2>1, <2>2 DEF Accumulates
<1>6. Is(f)
  <2>1. f[0] = <<>> /\ f = [i \in 0..n |-> f[i]]
    BY <1>4 DEF Accumulates
  <2>2. \A i \in 0..n : i # 0 => i \in 1..n
    BY <1>1
  <2>3. \A i \in 0..n :
          f[i] = IF i = 0 THEN <<>>
                 ELSE IF s[i] \in unwanted THEN f[i - 1] ELSE Append(f[i - 1], s[i])
    BY <1>5, <2>1, <2>2
  <2>4. QED BY <2>1, <2>3
<1> DEFINE h == CHOOSE h : Is(h)
<1>7. Is(h) /\ Without(s, unwanted) = h[n]
  BY <1>6, Zenon DEF Without
<1> HIDE DEF h
<1>8. /\ h[0] = <<>> /\ h = [i \in 0..n |-> h[i]]
      /\ \A i \in 1..n : h[i] = IF s[i] \in unwanted THEN h[i - 1] ELSE Append(h[i - 1], s[i])
  <2>1. h = [i \in 0..n |-> IF i = 0 THEN <<>>
                            ELSE IF s[i] \in unwanted THEN h[i - 1] ELSE Append(h[i - 1], s[i])]
    BY <1>7
  <2>2. 0 \in 0..n /\ \A i \in 1..n : i \in 0..n /\ i # 0
    BY <1>1
  <2>3. h[0] = <<>>
    BY <2>1, <2>2
  <2>4. \A i \in 1..n : h[i] = IF s[i] \in unwanted THEN h[i - 1] ELSE Append(h[i - 1], s[i])
    BY <2>1, <2>2
  <2>5. DOMAIN h = 0..n
    BY <2>1
  <2>6. h = [i \in 0..n |-> h[i]]
    BY <2>1, <2>5
  <2>7. QED BY <2>3, <2>4, <2>6
<1> DEFINE Typed == {i \in Nat : h[i] \in Seq(S)}
<1>9. 0..n \subseteq Typed
  <2>1. 0 \in Typed
    BY <1>8, EmptySeq
  <2>2. \A i \in 1..n : i - 1 \in Typed => i \in Typed
    <3>1. \A i \in 1..n : i \in Nat
      BY <1>1
    <3>2. QED BY <1>2, <1>8, <3>1
  <2> HIDE DEF Typed
  <2>3. QED BY <1>1, <2>1, <2>2, Induction
<1>10. h \in [0..n -> Seq(S)] /\ Keeps(s, unwanted, h)
  BY <1>8, <1>9 DEF Keeps
<1>11. QED BY <1>7, <1>10

LEMMA WithoutIsASequence ==
  ASSUME NEW S, NEW s \in Seq(S), NEW unwanted
  PROVE  Without(s, unwanted) \in Seq(S)
<1>1. PICK kept \in [0..Len(s) -> Seq(S)] : Without(s, unwanted) = kept[Len(s)]
  BY WithoutIs
<1>2. Len(s) \in 0..Len(s)
  BY LenProperties
<1>3. QED BY <1>1, <1>2

(* The words of a recording are a sequence of what it is made of.           *)
LEMMA WordsAreASequence ==
  ASSUME NEW S, NEW audio \in Seq(S)
  PROVE  Words(audio) \in Seq(S)
BY WithoutIsASequence DEF Words

-----------------------------------------------------------------------------
(* The seam of two transcripts.                                             *)

(* How many words of `next` are left out.                                   *)
Repeated(prev, next) ==
  {l \in 0..Min({SeamWords, Len(prev), Len(next)}) : IsSuffix(SubSeq(next, 1, l), prev)}

LEMMA RepeatedIs ==
  ASSUME NEW S, NEW prev \in Seq(S), NEW next \in Seq(S)
  PROVE  /\ DedupSeam(prev, next) = SubSeq(next, Max(Repeated(prev, next)) + 1, Len(next))
         /\ Max(Repeated(prev, next)) \in Repeated(prev, next)
         /\ \A l \in Repeated(prev, next) : l <= Max(Repeated(prev, next))
         /\ Repeated(prev, next) = {l \in 0..Len(next) :
                                      /\ l <= SeamWords /\ l <= Len(prev)
                                      /\ IsSuffix(SubSeq(next, 1, l), prev)}
<1> DEFINE cap == Min({SeamWords, Len(prev), Len(next)})
<1>1. SeamWords \in Nat /\ Len(prev) \in Nat /\ Len(next) \in Nat
  BY ChunkingAssumption, LenProperties
<1>2. /\ cap \in {SeamWords, Len(prev), Len(next)}
      /\ \A m \in {SeamWords, Len(prev), Len(next)} : cap <= m
  <2>1. {SeamWords, Len(prev), Len(next)} \in SUBSET Nat
    BY <1>1
  <2>2. QED BY <2>1, MinOfNumbers
<1> HIDE DEF cap
<1>3. 0 \in Repeated(prev, next)
  <2>1. SubSeq(next, 1, 0) = <<>>
    BY SubSeqEmpty
  <2>2. Len(Reverse(<<>>)) = 0 /\ IsPrefix(Reverse(<<>>), Reverse(prev))
    BY DEF Reverse, IsPrefix
  <2>3. IsSuffix(SubSeq(next, 1, 0), prev)
    BY <2>1, <2>2, Zenon DEF IsSuffix
  <2>4. 0 \in 0..cap
    BY <1>1, <1>2
  <2>5. QED BY <2>3, <2>4 DEF Repeated, cap
<1>4. Repeated(prev, next) \in SUBSET Nat /\ cap \in Nat /\ \A l \in Repeated(prev, next) : l <= cap
  BY <1>1, <1>2 DEF Repeated, cap
<1>5. /\ Max(Repeated(prev, next)) \in Repeated(prev, next)
      /\ \A l \in Repeated(prev, next) : l <= Max(Repeated(prev, next))
  BY <1>3, <1>4, MaxOfNumbers
<1>6. \A l \in Nat : l <= cap <=> l <= SeamWords /\ l <= Len(prev) /\ l <= Len(next)
  BY <1>1, <1>2
<1>7. DedupSeam(prev, next) = SubSeq(next, Max(Repeated(prev, next)) + 1, Len(next))
  BY DEF DedupSeam, Repeated
<1>8. Repeated(prev, next) = {l \in 0..cap : IsSuffix(SubSeq(next, 1, l), prev)}
  BY DEF Repeated, cap
<1>9. \A l : l \in 0..cap <=> l \in 0..Len(next) /\ l <= SeamWords /\ l <= Len(prev)
  BY <1>1, <1>2
<1>10. QED BY <1>5, <1>7, <1>8, <1>9

LEMMA DedupIsASequence ==
  ASSUME NEW S, NEW prev \in Seq(S), NEW next \in Seq(S)
  PROVE  DedupSeam(prev, next) \in Seq(S)
<1>1. PICK l \in 0..Len(next) : DedupSeam(prev, next) = SubSeq(next, l + 1, Len(next))
  BY RepeatedIs
<1>2. \A i \in l + 1..Len(next) : next[i] \in S
  BY <1>1, ElementOfSeq, LenProperties
<1>3. QED BY <1>1, <1>2, LenProperties, SubSeqProperties

-----------------------------------------------------------------------------
(* Assembling the transcripts of chunks.                                    *)

(* The functions inside Assemble.                                           *)
Adds(plans, texts, added) ==
  \A i \in 1..Len(plans) :
    added[i] = IF plans[i].needs_dedup THEN DedupSeam(added[i - 1], texts[i]) ELSE texts[i]
Joins(n, added, joined) ==
  joined[0] = <<>> /\ \A i \in 1..n : joined[i] = joined[i - 1] \o added[i]

LEMMA AssembleJoins ==
  ASSUME NEW S, NEW plans, Len(plans) \in Nat, NEW texts \in [1..Len(plans) -> Seq(S)]
  PROVE  \E added, joined \in [0..Len(plans) -> Seq(S)] :
           /\ added[0] = <<>> /\ Adds(plans, texts, added) /\ Joins(Len(plans), added, joined)
           /\ Assemble(plans, texts) = joined[Len(plans)]
<1> DEFINE n == Len(plans)
           Adding(f) == f = [i \in 0..n |->
                               IF i = 0 THEN <<>>
                               ELSE IF plans[i].needs_dedup THEN DedupSeam(f[i - 1], texts[i])
                                                            ELSE texts[i]]
           added == CHOOSE f : Adding(f)
           Joining(f) == f = [i \in 0..n |-> IF i = 0 THEN <<>> ELSE f[i - 1] \o added[i]]
           joined == CHOOSE f : Joining(f)
           Next(i, t) == IF plans[i].needs_dedup THEN DedupSeam(t, texts[i]) ELSE texts[i]
<1>1. 0 \in 0..n /\ n \in 0..n /\ \A i \in 1..n : i \in Nat /\ i \in 0..n /\ i # 0 /\ i - 1 \in 0..n
  OBVIOUS
<1>2. \A i \in 0..n : i # 0 => i \in 1..n
  OBVIOUS
<1>3. \E f : Adding(f)
  <2> DEFINE step == [i \in 1..n |-> [t \in Seq(S) |-> Next(i, t)]]
  <2>1. \A i \in 1..n, t \in Seq(S) : Next(i, t) \in Seq(S)
    BY DedupIsASequence
  <2> HIDE DEF Next
  <2>2. step \in [1..n -> [Seq(S) -> Seq(S)]]
    BY <2>1
  <2>3. \A i \in 1..n, t \in Seq(S) : step[i][t] = Next(i, t)
    OBVIOUS
  <2> HIDE DEF step
  <2>4. PICK f \in [0..n -> Seq(S)] : Accumulates(f, n, <<>>, step)
    BY <2>2, EmptySeq, AccumulatorExists
  <2>5. f[0] = <<>> /\ \A i \in 1..n : f[i] = Next(i, f[i - 1])
    BY <1>1, <2>3, <2>4 DEF Accumulates
  <2>6. \A i \in 0..n : f[i] = IF i = 0 THEN <<>> ELSE Next(i, f[i - 1])
    BY <1>2, <2>5
  <2>7. f = [i \in 0..n |-> f[i]]
    OBVIOUS
  <2>8. f = [i \in 0..n |-> IF i = 0 THEN <<>> ELSE Next(i, f[i - 1])]
    BY <2>6, <2>7
  <2>9. QED BY <2>8 DEF Next
<1>4. Adding(added)
  BY <1>3, Zenon
<1> HIDE DEF added
<1>5. /\ added = [i \in 0..n |-> added[i]] /\ added[0] = <<>>
      /\ \A i \in 1..n : added[i] = Next(i, added[i - 1])
  <2>1. added = [i \in 0..n |-> IF i = 0 THEN <<>> ELSE Next(i, added[i - 1])]
    BY <1>4
  <2> HIDE DEF Next
  <2>2. DOMAIN added = 0..n /\ added[0] = <<>>
    BY <1>1, <2>1
  <2>3. \A i \in 1..n : added[i] = Next(i, added[i - 1])
    BY <1>1, <2>1
  <2>4. added = [i \in 0..n |-> added[i]]
    BY <2>1, <2>2
  <2>5. QED BY <2>2, <2>3, <2>4
<1>6. added \in [0..n -> Seq(S)]
  <2> DEFINE Typed == {i \in Nat : added[i] \in Seq(S)}
  <2>1. 0 \in Typed
    BY <1>5, EmptySeq
  <2>2. ASSUME NEW i \in 1..n, i - 1 \in Typed PROVE i \in Typed
    <3>1. added[i - 1] \in Seq(S) /\ texts[i] \in Seq(S) /\ i \in Nat
      BY <2>2
    <3>2. Next(i, added[i - 1]) \in Seq(S)
      BY <3>1, DedupIsASequence
    <3>3. added[i] = Next(i, added[i - 1])
      BY <1>5
    <3> HIDE DEF Next
    <3>4. QED BY <3>1, <3>2, <3>3
  <2> HIDE DEF Typed
  <2>3. 0..n \subseteq Typed
    BY <2>1, <2>2, Induction
  <2>4. \A i \in 0..n : added[i] \in Seq(S)
    BY <2>3 DEF Typed
  <2>5. QED BY <1>5, <2>4
<1>7. \E f : Joining(f)
  <2> DEFINE step == [i \in 1..n |-> [t \in Seq(S) |-> t \o added[i]]]
  <2>1. \A i \in 1..n, t \in Seq(S) : t \o added[i] \in Seq(S)
    BY <1>1, <1>6, ConcatProperties
  <2>2. step \in [1..n -> [Seq(S) -> Seq(S)]]
    BY <2>1
  <2>3. \A i \in 1..n, t \in Seq(S) : step[i][t] = t \o added[i]
    OBVIOUS
  <2> HIDE DEF step
  <2>4. PICK f \in [0..n -> Seq(S)] : Accumulates(f, n, <<>>, step)
    BY <2>2, EmptySeq, AccumulatorExists
  <2>5. f[0] = <<>> /\ \A i \in 1..n : f[i] = f[i - 1] \o added[i]
    BY <1>1, <2>3, <2>4 DEF Accumulates
  <2>6. \A i \in 0..n : f[i] = IF i = 0 THEN <<>> ELSE f[i - 1] \o added[i]
    BY <1>2, <2>5
  <2>7. f = [i \in 0..n |-> f[i]]
    OBVIOUS
  <2>8. QED BY <2>6, <2>7
<1>8. Joining(joined)
  BY <1>7, Zenon
<1>9. Assemble(plans, texts) = joined[n]
  BY Zenon DEF Assemble, added
<1> HIDE DEF joined
<1>10. /\ joined = [i \in 0..n |-> joined[i]] /\ joined[0] = <<>>
       /\ \A i \in 1..n : joined[i] = joined[i - 1] \o added[i]
  <2>1. joined = [i \in 0..n |-> IF i = 0 THEN <<>> ELSE joined[i - 1] \o added[i]]
    BY <1>8
  <2>2. DOMAIN joined = 0..n /\ joined[0] = <<>>
    BY <1>1, <2>1
  <2>3. \A i \in 1..n : joined[i] = joined[i - 1] \o added[i]
    BY <1>1, <2>1
  <2>4. joined = [i \in 0..n |-> joined[i]]
    BY <2>1, <2>2
  <2>5. QED BY <2>2, <2>3, <2>4
<1>11. joined \in [0..n -> Seq(S)]
  <2> DEFINE Typed == {i \in Nat : joined[i] \in Seq(S)}
  <2>1. 0 \in Typed
    BY <1>10, EmptySeq
  <2>2. \A i \in 1..n : i - 1 \in Typed => i \in Typed
    BY <1>1, <1>6, <1>10, ConcatProperties
  <2> HIDE DEF Typed
  <2>3. 0..n \subseteq Typed
    BY <2>1, <2>2, Induction
  <2>4. \A i \in 0..n : joined[i] \in Seq(S)
    BY <2>3 DEF Typed
  <2>5. QED BY <1>10, <2>4
<1>12. Adds(plans, texts, added)
  BY <1>5 DEF Adds
<1>13. Joins(n, added, joined)
  BY <1>10 DEF Joins
<1>14. QED BY <1>5, <1>6, <1>9, <1>11, <1>12, <1>13

LEMMA AssembleIsASequence ==
  ASSUME NEW S, NEW plans, Len(plans) \in Nat, NEW texts \in [1..Len(plans) -> Seq(S)]
  PROVE  Assemble(plans, texts) \in Seq(S)
<1>1. Len(plans) \in 0..Len(plans)
  OBVIOUS
<1>2. QED BY <1>1, AssembleJoins

-----------------------------------------------------------------------------
(* Planning the chunks of a recording.                                      *)

(* What a cut is, whatever the audio: it is within the window, and the      *)
(* rest begins later than the chunk does.                                   *)
LEMMA CutIs ==
  ASSUME NEW buf
  PROVE  /\ PlanCut(buf).at \in 1..SinglePassMax /\ PlanCut(buf).kind \in {"Silence", "Hard"}
         /\ Advance(PlanCut(buf)) \in 1..SinglePassMax
         /\ Advance(PlanCut(buf)) <= PlanCut(buf).at
         /\ PlanCut(buf).kind = "Hard" =>
              PlanCut(buf).at = SinglePassMax /\ Advance(PlanCut(buf)) = SinglePassMax - Overlap
         /\ PlanCut(buf).kind = "Silence" => Advance(PlanCut(buf)) = PlanCut(buf).at
<1> DEFINE quiet == {i \in CutWindowMin + 1 .. SinglePassMax : buf[i] = Quiet}
<1> USE ChunkingAssumption
<1>1. CASE quiet = {}
  <2>1. PlanCut(buf) = [at |-> SinglePassMax, kind |-> "Hard"]
    BY <1>1 DEF PlanCut
  <2>2. QED BY <2>1 DEF Advance
<1>2. CASE quiet # {}
  <2>1. PlanCut(buf) = [at |-> Min(quiet), kind |-> "Silence"]
    BY <1>2 DEF PlanCut
  <2>2. Min(quiet) \in quiet
    BY <1>2, MinOfNumbers
  <2>3. QED BY <2>1, <2>2 DEF Advance
<1>3. QED BY <1>1, <1>2

(* The plans of what is left of the recording from `pos` on.                *)
Rest(audio, pos) == SubSeq(audio, pos + 1, Len(audio))
Remaining(audio, pos, dedup, from) ==
  IF pos = Len(audio) THEN <<>>
  ELSE IF Len(audio) - pos <= SinglePassMax THEN <<Plan(pos, Len(audio) - pos, dedup)>>
  ELSE LET cut == PlanCut(SubSeq(audio, pos + 1, Len(audio)))
       IN  <<Plan(pos, cut.at, dedup)>> \o from[pos + Advance(cut)][cut.kind = "Hard"]

(* What is planned from `pos` on depends on what is planned from later on.  *)
LEMMA RemainingAgrees ==
  ASSUME NEW audio, Len(audio) \in Nat, NEW pos \in 0..Len(audio), NEW dedup \in BOOLEAN,
         NEW f, NEW g, \A later \in pos + 1 .. Len(audio) : f[later] = g[later]
  PROVE  Remaining(audio, pos, dedup, f) = Remaining(audio, pos, dedup, g)
<1>1. CASE Len(audio) - pos <= SinglePassMax
  BY <1>1 DEF Remaining
<1>2. CASE ~(Len(audio) - pos <= SinglePassMax)
  <2> DEFINE cut == PlanCut(SubSeq(audio, pos + 1, Len(audio)))
  <2>1. Advance(cut) \in 1..SinglePassMax
    BY CutIs
  <2>2. pos + Advance(cut) \in pos + 1 .. Len(audio)
    BY <1>2, <2>1, ChunkingAssumption
  <2>3. f[pos + Advance(cut)] = g[pos + Advance(cut)]
    BY <2>2
  <2>4. QED BY <1>2, <2>3 DEF Remaining
<1>3. QED BY <1>1, <1>2

IsPlanner(audio, from) ==
  \A pos \in 0..Len(audio), dedup \in BOOLEAN :
    from[pos][dedup] = Remaining(audio, pos, dedup, from)

LEMMA PlansRemain ==
  ASSUME NEW audio, Len(audio) \in Nat
  PROVE  \E from : IsPlanner(audio, from) /\ PlanChunks(audio) = from[0][FALSE]
<1> DEFINE n == Len(audio)
           Is(f) == f = [pos \in 0..n |-> [dedup \in BOOLEAN |-> Remaining(audio, pos, dedup, f)]]
           From(k, f) == f = [pos \in n - k .. n |->
                                [dedup \in BOOLEAN |-> Remaining(audio, pos, dedup, f)]]
           Has(k) == \E f : From(k, f)
           T == {k \in 0..n : ~Has(k)}
<1>1. \E f : Is(f)
  <2>1. SUFFICES ASSUME T # {} PROVE FALSE
    <3>1. SUFFICES ASSUME Has(n) PROVE \E f : Is(f)
      OBVIOUS
    <3>2. n - n = 0
      OBVIOUS
    <3>3. QED BY <3>1, <3>2
  <2>2. PICK k \in T : \A m \in T : k <= m
    <3>1. T \in SUBSET Nat
      OBVIOUS
    <3> HIDE DEF T
    <3>2. QED BY <2>1, <3>1, LeastNumber
  <2>3. k # 0
    <3> DEFINE f == [pos \in n - 0 .. n |-> [dedup \in BOOLEAN |-> <<>>]]
    <3>1. \A pos \in n - 0 .. n, dedup \in BOOLEAN : Remaining(audio, pos, dedup, f) = <<>>
      BY DEF Remaining
    <3>2. From(0, f)
      BY <3>1
    <3>3. Has(0)
      BY <3>2
    <3>4. QED BY <3>3
  <2>4. k \in 1..n /\ k - 1 \in 0..n /\ k - 1 < k
    BY <2>3
  <2>5. Has(k - 1)
    <3> HIDE DEF Has
    <3>1. \A m \in 0..n : Has(m) \/ k <= m
      BY <2>2
    <3>2. ~(k <= k - 1)
      BY <2>4
    <3>3. QED BY <2>4, <3>1, <3>2
  <2>6. PICK f : From(k - 1, f)
    BY <2>5
  <2> DEFINE g == [pos \in n - k .. n |->
                     [dedup \in BOOLEAN |-> Remaining(audio, pos, dedup, f)]]
  <2>7. \A pos \in n - (k - 1) .. n : g[pos] = f[pos]
    <3>1. \A pos \in n - (k - 1) .. n : pos \in n - k .. n
      BY <2>4
    <3>2. QED BY <2>6, <3>1
  <2>8. \A pos \in n - k .. n, dedup \in BOOLEAN :
          Remaining(audio, pos, dedup, f) = Remaining(audio, pos, dedup, g)
    <3> SUFFICES ASSUME NEW pos \in n - k .. n, NEW dedup \in BOOLEAN
                 PROVE  Remaining(audio, pos, dedup, f) = Remaining(audio, pos, dedup, g)
      OBVIOUS
    <3>1. pos \in 0..n /\ \A later \in pos + 1 .. n : later \in n - (k - 1) .. n
      BY <2>4
    <3>2. \A later \in pos + 1 .. n : f[later] = g[later]
      BY <2>7, <3>1
    <3> HIDE DEF g
    <3>3. QED BY <3>1, <3>2, RemainingAgrees
  <2>9. g = [pos \in n - k .. n |-> [dedup \in BOOLEAN |-> Remaining(audio, pos, dedup, g)]]
    <3> DEFINE Inner(pos, h) == [dedup \in BOOLEAN |-> Remaining(audio, pos, dedup, h)]
    <3>1. \A pos \in n - k .. n : Inner(pos, f) = Inner(pos, g)
      BY <2>8
    <3>2. g = [pos \in n - k .. n |-> Inner(pos, f)]
      OBVIOUS
    <3> HIDE DEF g, Inner
    <3>3. g = [pos \in n - k .. n |-> Inner(pos, g)]
      BY <3>1, <3>2
    <3>4. QED BY <3>3 DEF Inner
  <2>10. From(k, g)
    BY <2>9
  <2> HIDE DEF g
  <2>11. QED BY <2>10
<1> DEFINE from == CHOOSE f : Is(f)
<1>2. Is(from)
  BY <1>1, Zenon
<1>3. PlanChunks(audio) = from[0][FALSE]
  BY Zenon DEF PlanChunks, Remaining
<1> HIDE DEF from
<1>4. IsPlanner(audio, from)
  BY <1>2 DEF IsPlanner
<1>5. QED BY <1>3, <1>4

(* The plans from `pos` on, said without recursion: each but the last is    *)
(* cut where plan_cut says, and the last has what is left.                  *)
PlanRecords == [start : Nat, len : Nat, needs_dedup : BOOLEAN]
CutTo(audio, p, start, dedup) ==
  LET cut == PlanCut(Rest(audio, p.start))
  IN  /\ Len(audio) - p.start > SinglePassMax
      /\ p.len = cut.at /\ start = p.start + Advance(cut) /\ dedup = (cut.kind = "Hard")
Follows(audio, p, q) == CutTo(audio, p, q.start, q.needs_dedup)
IsLast(audio, p) ==
  /\ p.start < Len(audio) /\ Len(audio) - p.start <= SinglePassMax
  /\ p.len = Len(audio) - p.start
Planned(audio, pos, dedup, plans) ==
  /\ plans \in Seq(PlanRecords) /\ Len(plans) > 0
  /\ plans[1].start = pos /\ plans[1].needs_dedup = dedup
  /\ \A i \in 1 .. Len(plans) - 1 : Follows(audio, plans[i], plans[i + 1])
  /\ IsLast(audio, plans[Len(plans)])

(* One more chunk before those planned.                                     *)
LEMMA PlannedOneMore ==
  ASSUME NEW audio, Len(audio) \in Nat, NEW p \in PlanRecords, NEW plans,
         NEW pos, NEW dedup, Planned(audio, pos, dedup, plans), CutTo(audio, p, pos, dedup)
  PROVE  Planned(audio, p.start, p.needs_dedup, <<p>> \o plans)
<1> DEFINE all == <<p>> \o plans
<1>1. /\ plans \in Seq(PlanRecords) /\ Len(plans) \in Nat /\ Len(plans) > 0
      /\ <<p>> \in Seq(PlanRecords) /\ Len(<<p>>) = 1 /\ <<p>>[1] = p
  BY LenProperties DEF Planned
<1>2. /\ all \in Seq(PlanRecords) /\ Len(all) = 1 + Len(plans)
      /\ \A i \in 1 .. 1 + Len(plans) : all[i] = IF i <= 1 THEN <<p>>[i] ELSE plans[i - 1]
  BY <1>1, ConcatProperties
<1>3. all[1] = p /\ \A i \in 1..Len(plans) : all[i + 1] = plans[i]
  BY <1>1, <1>2
<1>4. IsLast(audio, all[Len(all)])
  BY <1>1, <1>2, <1>3 DEF Planned
<1>5. ASSUME NEW i \in 1 .. Len(all) - 1
      PROVE  Follows(audio, all[i], all[i + 1])
  <2>1. CASE i = 1
    <3>1. plans[1].start = pos /\ plans[1].needs_dedup = dedup
      BY DEF Planned
    <3>2. all[1] = p /\ all[1 + 1] = plans[1]
      BY <1>1, <1>3
    <3> HIDE DEF all
    <3>3. QED BY <2>1, <3>1, <3>2 DEF Follows
  <2>2. CASE i # 1
    <3>1. i - 1 \in 1 .. Len(plans) - 1 /\ i - 1 \in 1..Len(plans) /\ i \in 1..Len(plans)
      BY <1>1, <1>2, <2>2
    <3>2. all[i] = plans[i - 1] /\ all[i + 1] = plans[(i - 1) + 1]
      BY <1>3, <3>1
    <3> HIDE DEF all
    <3>3. QED BY <3>1, <3>2 DEF Planned
  <2>3. QED BY <2>1, <2>2
<1> HIDE DEF all
<1>6. Planned(audio, p.start, p.needs_dedup, all)
  BY <1>1, <1>2, <1>3, <1>4, <1>5 DEF Planned
<1>7. QED BY <1>6 DEF all

LEMMA RemainingIsPlanned ==
  ASSUME NEW audio, Len(audio) \in Nat, NEW from, IsPlanner(audio, from)
  PROVE  \A pos \in 0 .. Len(audio) - 1, dedup \in BOOLEAN :
            Planned(audio, pos, dedup, from[pos][dedup])
<1> DEFINE n == Len(audio)
           Good == {k \in Nat : \A pos \in 0 .. n - 1, dedup \in BOOLEAN :
                      n - pos <= k => Planned(audio, pos, dedup, from[pos][dedup])}
<1>1. 0 \in Good
  OBVIOUS
<1>2. ASSUME NEW k \in 1..n, k - 1 \in Good
      PROVE  k \in Good
  <2> SUFFICES ASSUME NEW pos \in 0 .. n - 1, NEW dedup \in BOOLEAN, n - pos <= k
               PROVE  Planned(audio, pos, dedup, from[pos][dedup])
    OBVIOUS
  <2> DEFINE plans == from[pos][dedup]
             cut == PlanCut(SubSeq(audio, pos + 1, n))
             here == pos + Advance(cut)
  <2>1. plans = Remaining(audio, pos, dedup, from) /\ pos # n
    BY DEF IsPlanner
  <2> HIDE DEF plans
  <2>2. CASE n - pos <= SinglePassMax
    <3> DEFINE p == Plan(pos, n - pos, dedup)
    <3>1. plans = <<p>>
      BY <2>1, <2>2 DEF Remaining
    <3>2. p \in PlanRecords /\ p.start = pos /\ p.len = n - pos /\ p.needs_dedup = dedup
      BY DEF Plan, PlanRecords
    <3> HIDE DEF p
    <3>3. plans \in Seq(PlanRecords) /\ Len(plans) = 1 /\ plans[1] = p
      BY <3>1, <3>2
    <3>4. IsLast(audio, p)
      BY <2>2, <3>2 DEF IsLast
    <3>5. Planned(audio, pos, dedup, plans)
      BY <3>2, <3>3, <3>4 DEF Planned
    <3>6. QED BY <3>5 DEF plans
  <2>3. CASE ~(n - pos <= SinglePassMax)
    <3> DEFINE p == Plan(pos, cut.at, dedup)
               hard == (cut.kind = "Hard")
    <3>1. plans = <<p>> \o from[here][hard]
      BY <2>1, <2>3 DEF Remaining
    <3>2. cut.at \in Nat /\ Advance(cut) \in 1..SinglePassMax
      BY CutIs
    <3>3. here \in 0 .. n - 1 /\ n - here <= k - 1
      BY <2>3, <3>2, ChunkingAssumption
    <3>4. Planned(audio, here, hard, from[here][hard])
      BY <1>2, <3>3
    <3>5. p \in PlanRecords /\ p.start = pos /\ p.len = cut.at /\ p.needs_dedup = dedup
      BY <3>2 DEF Plan, PlanRecords
    <3>6. CutTo(audio, p, here, hard)
      BY <2>3, <3>5, ChunkingAssumption DEF CutTo, Rest
    <3> HIDE DEF p, here, hard
    <3>7. Planned(audio, pos, dedup, plans)
      BY <3>1, <3>4, <3>5, <3>6, PlannedOneMore
    <3>8. QED BY <3>7 DEF plans
  <2>4. QED BY <2>2, <2>3
<1> HIDE DEF Good
<1>3. 0..n \subseteq Good
  BY <1>1, <1>2, Induction
<1>4. n \in Good
  BY <1>3
<1>5. QED BY <1>4 DEF Good

(* What plan_chunks gives is planned.                                       *)
LEMMA PlanChunksPlans ==
  ASSUME NEW audio, Len(audio) \in Nat
  PROVE  /\ Len(audio) > 0 => Planned(audio, 0, FALSE, PlanChunks(audio))
         /\ Len(audio) = 0 => PlanChunks(audio) = <<>>
<1>1. PICK from : IsPlanner(audio, from) /\ PlanChunks(audio) = from[0][FALSE]
  BY PlansRemain
<1>2. Len(audio) > 0 => Planned(audio, 0, FALSE, from[0][FALSE])
  <2>1. SUFFICES ASSUME Len(audio) > 0 PROVE Planned(audio, 0, FALSE, from[0][FALSE])
    OBVIOUS
  <2>2. 0 \in 0 .. Len(audio) - 1 /\ FALSE \in BOOLEAN
    BY <2>1
  <2>3. \A pos \in 0 .. Len(audio) - 1, dedup \in BOOLEAN :
          Planned(audio, pos, dedup, from[pos][dedup])
    BY <1>1, RemainingIsPlanned
  <2>4. QED BY <2>2, <2>3
<1>3. Len(audio) = 0 => from[0][FALSE] = <<>>
  <2>1. 0 \in 0..Len(audio) /\ FALSE \in BOOLEAN
    OBVIOUS
  <2>2. from[0][FALSE] = Remaining(audio, 0, FALSE, from)
    BY <1>1, <2>1 DEF IsPlanner
  <2>3. QED BY <2>2 DEF Remaining
<1>4. QED BY <1>1, <1>2, <1>3

LEMMA SamePlan ==
  ASSUME NEW p \in PlanRecords, NEW q \in PlanRecords,
         p.start = q.start, p.len = q.len, p.needs_dedup = q.needs_dedup
  PROVE  p = q
BY DEF PlanRecords

(* There is one way to plan a recording.                                    *)
LEMMA PlanIsUnique ==
  ASSUME NEW audio, Len(audio) \in Nat, NEW pos, NEW dedup, NEW p, NEW q,
         Planned(audio, pos, dedup, p), Planned(audio, pos, dedup, q)
  PROVE  p = q
<1>1. /\ p \in Seq(PlanRecords) /\ Len(p) \in Nat /\ Len(p) > 0
      /\ q \in Seq(PlanRecords) /\ Len(q) \in Nat /\ Len(q) > 0
  BY LenProperties DEF Planned
<1>2. \A i \in 1..Len(p) : p[i] \in PlanRecords
  BY <1>1, ElementOfSeq
<1>3. \A i \in 1..Len(q) : q[i] \in PlanRecords
  BY <1>1, ElementOfSeq
<1> DEFINE Same(i) == p[i].start = q[i].start /\ p[i].needs_dedup = q[i].needs_dedup
           Good == {i \in Nat : i + 1 <= Len(p) => i + 1 <= Len(q) /\ Same(i + 1)}
<1>4. ASSUME NEW i \in 1..Len(p), i <= Len(q), Same(i)
      PROVE  /\ p[i] = q[i] /\ (i = Len(p) <=> i = Len(q))
             /\ i < Len(p) => Same(i + 1)
  <2>1. CASE i = Len(p)
    <3>1. IsLast(audio, p[i])
      BY <2>1 DEF Planned
    <3>2. i = Len(q)
      <4>1. SUFFICES ASSUME i \in 1 .. Len(q) - 1 PROVE FALSE
        BY <1>1, <1>4
      <4>2. Follows(audio, q[i], q[i + 1])
        BY <4>1 DEF Planned
      <4>3. QED BY <1>2, <1>3, <1>4, <3>1, <4>2, ChunkingAssumption DEF IsLast, Follows, CutTo, PlanRecords
    <3>3. IsLast(audio, q[i])
      BY <3>2 DEF Planned
    <3>4. p[i] = q[i]
      BY <1>1, <1>2, <1>3, <1>4, <3>1, <3>2, <3>3, SamePlan DEF IsLast
    <3>5. QED BY <1>1, <2>1, <3>2, <3>4
  <2>2. CASE i < Len(p)
    <3>1. Follows(audio, p[i], p[i + 1])
      BY <1>1, <2>2 DEF Planned
    <3>2. i < Len(q)
      <4>1. SUFFICES ASSUME i = Len(q) PROVE FALSE
        BY <1>1, <1>4
      <4>2. IsLast(audio, q[i])
        BY <4>1 DEF Planned
      <4>3. QED BY <1>1, <1>2, <1>3, <1>4, <3>1, <4>1, <4>2, ChunkingAssumption DEF IsLast, Follows, CutTo, PlanRecords
    <3>3. Follows(audio, q[i], q[i + 1])
      BY <1>1, <3>2 DEF Planned
    <3>4. p[i].len = q[i].len /\ Same(i + 1)
      BY <1>4, <3>1, <3>3 DEF Follows, CutTo
    <3>5. p[i] = q[i]
      BY <1>1, <1>2, <1>3, <1>4, <3>2, <3>4, SamePlan
    <3>6. QED BY <1>1, <2>2, <3>2, <3>4, <3>5
  <2>3. QED BY <1>1, <2>1, <2>2
<1> HIDE DEF Same
<1>5. Same(1)
  BY DEF Planned, Same
<1>6. 0 \in Good
  BY <1>1, <1>5
<1>7. \A i \in 1..Len(p) : i - 1 \in Good => i \in Good
  <2> SUFFICES ASSUME NEW i \in 1..Len(p), i - 1 \in Good PROVE i \in Good
    OBVIOUS
  <2>1. i <= Len(q) /\ Same(i)
    BY <1>1
  <2>2. (i = Len(p) <=> i = Len(q)) /\ (i < Len(p) => Same(i + 1))
    BY <1>4, <2>1
  <2>3. QED BY <1>1, <2>1, <2>2
<1>8. 0..Len(p) \subseteq Good
  <2> HIDE DEF Good
  <2>1. QED BY <1>1, <1>6, <1>7, Induction
<1>9. \A i \in 1..Len(p) : i <= Len(q) /\ Same(i)
  <2> SUFFICES ASSUME NEW i \in 1..Len(p) PROVE i <= Len(q) /\ Same(i)
    OBVIOUS
  <2>1. i - 1 \in 0..Len(p) /\ (i - 1) + 1 = i
    BY <1>1
  <2>2. i - 1 \in Good
    BY <1>8, <2>1
  <2>3. QED BY <1>1, <2>1, <2>2
<1>10. Len(p) = Len(q) /\ \A i \in 1..Len(p) : p[i] = q[i]
  BY <1>1, <1>4, <1>9
<1>11. QED BY <1>1, <1>10, SeqEqual
-----------------------------------------------------------------------------
(* Sequences of numbers that grow, as the words of a recording do when each *)
(* has a number of its own.                                                 *)

Increasing(s) == \A i, j \in 1..Len(s) : i < j => s[i] < s[j]

LEMMA SortedIs == ASSUME NEW s PROVE IsSorted(s, <) <=> Increasing(s)
BY DEF IsSorted, Increasing

LEMMA ToSetIs ==
  ASSUME NEW S, NEW s \in Seq(S)
  PROVE  /\ ToSet(s) \subseteq S /\ ToSet(s) = {s[i] : i \in 1..Len(s)} /\ Len(s) \in Nat
         /\ \A i \in 1..Len(s) : s[i] \in ToSet(s) /\ s[i] \in S
         /\ \A x \in ToSet(s) : \E i \in 1..Len(s) : s[i] = x
BY LenProperties, ElementOfSeq DEF ToSet

LEMMA ToSetOfAppend ==
  ASSUME NEW S, NEW s \in Seq(S), NEW x \in S
  PROVE  ToSet(Append(s, x)) = ToSet(s) \cup {x}
<1>1. /\ Len(s) \in Nat /\ DOMAIN s = 1..Len(s) /\ DOMAIN Append(s, x) = 1 .. Len(s) + 1
      /\ \A i \in 1..Len(s) : Append(s, x)[i] = s[i]
      /\ Append(s, x)[Len(s) + 1] = x
  BY AppendProperties, LenProperties
<1>2. QED BY <1>1 DEF ToSet

LEMMA ToSetOfConcat ==
  ASSUME NEW S, NEW s \in Seq(S), NEW t \in Seq(S)
  PROVE  ToSet(s \o t) = ToSet(s) \cup ToSet(t)
<1>1. /\ Len(s) \in Nat /\ Len(t) \in Nat /\ DOMAIN s = 1..Len(s) /\ DOMAIN t = 1..Len(t)
      /\ DOMAIN (s \o t) = 1 .. Len(s) + Len(t)
      /\ \A i \in 1 .. Len(s) + Len(t) :
           (s \o t)[i] = IF i <= Len(s) THEN s[i] ELSE t[i - Len(s)]
  BY ConcatProperties, LenProperties
<1>2. \A i \in 1..Len(s) : i \in 1 .. Len(s) + Len(t) /\ (s \o t)[i] = s[i]
  BY <1>1
<1>3. \A i \in 1..Len(t) : Len(s) + i \in 1 .. Len(s) + Len(t) /\ (s \o t)[Len(s) + i] = t[i]
  BY <1>1
<1>4. \A i \in 1 .. Len(s) + Len(t) : i \in 1..Len(s) \/ i - Len(s) \in 1..Len(t)
  BY <1>1
<1>5. ToSet(s \o t) \subseteq ToSet(s) \cup ToSet(t)
  BY <1>1, <1>4 DEF ToSet
<1>6. ToSet(s) \subseteq ToSet(s \o t)
  BY <1>1, <1>2 DEF ToSet
<1>7. ToSet(t) \subseteq ToSet(s \o t)
  <2>1. \A i \in 1..Len(t) : t[i] \in ToSet(s \o t)
    BY <1>1, <1>3 DEF ToSet
  <2>2. QED BY <1>1, <2>1 DEF ToSet
<1>8. QED BY <1>5, <1>6, <1>7

(* Two that grow, the second from beyond the first, grow together.          *)
LEMMA IncreasingConcat ==
  ASSUME NEW s \in Seq(Nat), NEW t \in Seq(Nat), Increasing(s), Increasing(t),
         \A x \in ToSet(s), y \in ToSet(t) : x < y
  PROVE  Increasing(s \o t)
<1>1. /\ Len(s) \in Nat /\ Len(t) \in Nat
      /\ Len(s \o t) = Len(s) + Len(t)
      /\ \A i \in 1 .. Len(s) + Len(t) :
           (s \o t)[i] = IF i <= Len(s) THEN s[i] ELSE t[i - Len(s)]
      /\ \A i \in 1..Len(s) : s[i] \in ToSet(s)
      /\ \A i \in 1..Len(t) : t[i] \in ToSet(t)
  BY ConcatProperties, LenProperties, ToSetIs
<1> SUFFICES ASSUME NEW i \in 1 .. Len(s) + Len(t), NEW j \in 1 .. Len(s) + Len(t), i < j
             PROVE  (s \o t)[i] < (s \o t)[j]
  BY <1>1 DEF Increasing
<1>2. CASE j <= Len(s)
  <2>1. i \in 1..Len(s) /\ j \in 1..Len(s) /\ (s \o t)[i] = s[i] /\ (s \o t)[j] = s[j]
    BY <1>1, <1>2
  <2>2. QED BY <2>1 DEF Increasing
<1>3. CASE i <= Len(s) /\ ~(j <= Len(s))
  <2>1. i \in 1..Len(s) /\ j - Len(s) \in 1..Len(t) /\ (s \o t)[i] = s[i]
        /\ (s \o t)[j] = t[j - Len(s)]
    BY <1>1, <1>3
  <2>2. QED BY <1>1, <2>1
<1>4. CASE ~(i <= Len(s))
  <2>1. i - Len(s) \in 1..Len(t) /\ j - Len(s) \in 1..Len(t) /\ (s \o t)[i] = t[i - Len(s)]
        /\ (s \o t)[j] = t[j - Len(s)] /\ i - Len(s) < j - Len(s)
    BY <1>1, <1>4
  <2>2. QED BY <2>1 DEF Increasing
<1>5. QED BY <1>2, <1>3, <1>4

(* Part of one that grows.                                                  *)
LEMMA IncreasingPart ==
  ASSUME NEW s \in Seq(Nat), Increasing(s), NEW m \in 1 .. Len(s) + 1, NEW n \in 0..Len(s)
  PROVE  /\ SubSeq(s, m, n) \in Seq(Nat) /\ Increasing(SubSeq(s, m, n))
         /\ Len(SubSeq(s, m, n)) = IF m <= n THEN n - m + 1 ELSE 0
         /\ \A i \in 1 .. n - m + 1 : SubSeq(s, m, n)[i] = s[m + i - 1]
         /\ ToSet(SubSeq(s, m, n)) = {s[i] : i \in m..n}
<1>1. Len(s) \in Nat /\ m \in Int /\ n \in Int
  BY LenProperties
<1>2. \A i \in m..n : s[i] \in Nat
  BY <1>1, ElementOfSeq
<1> DEFINE part == SubSeq(s, m, n)
<1>3. /\ part \in Seq(Nat)
      /\ Len(part) = IF m <= n THEN n - m + 1 ELSE 0
      /\ \A i \in 1 .. n - m + 1 : part[i] = s[m + i - 1]
  BY <1>1, <1>2, SubSeqProperties
<1> HIDE DEF part
<1>4. Increasing(part)
  <2> SUFFICES ASSUME NEW i \in 1..Len(part), NEW j \in 1..Len(part), i < j
               PROVE  part[i] < part[j]
    BY DEF Increasing
  <2>1. /\ m + i - 1 \in 1..Len(s) /\ m + j - 1 \in 1..Len(s) /\ m + i - 1 < m + j - 1
        /\ i \in 1 .. n - m + 1 /\ j \in 1 .. n - m + 1
    BY <1>1, <1>3
  <2>2. QED BY <1>3, <2>1 DEF Increasing
<1>5. ToSet(part) = {s[i] : i \in m..n}
  <2>1. ToSet(part) = {part[i] : i \in 1..Len(part)}
    BY <1>3, ToSetIs
  <2>2. \A i \in 1..Len(part) : part[i] = s[m + i - 1] /\ m + i - 1 \in m..n
    BY <1>1, <1>3
  <2>3. \A i \in m..n : i - m + 1 \in 1..Len(part) /\ part[i - m + 1] = s[i]
    <3> SUFFICES ASSUME NEW i \in m..n
                 PROVE  i - m + 1 \in 1..Len(part) /\ part[i - m + 1] = s[i]
      OBVIOUS
    <3>1. i - m + 1 \in 1 .. n - m + 1 /\ m + (i - m + 1) - 1 = i /\ i - m + 1 \in 1..Len(part)
      BY <1>1, <1>3
    <3>2. QED BY <1>3, <3>1
  <2>4. \A x \in ToSet(part) : x \in {s[i] : i \in m..n}
    BY <2>1, <2>2
  <2>5. \A i \in m..n : s[i] \in ToSet(part)
    BY <2>1, <2>3
  <2>6. QED BY <2>4, <2>5
<1>6. QED BY <1>3, <1>4, <1>5 DEF part

(* One that grows is told by what is in it.                                 *)
LEMMA IncreasingAgree ==
  ASSUME NEW s \in Seq(Nat), NEW t \in Seq(Nat), Increasing(s), Increasing(t),
         ToSet(s) = ToSet(t), NEW i \in 1..Len(s)
  PROVE  i <= Len(t) /\ s[i] = t[i]
<1> DEFINE Agree(k) == k <= Len(t) /\ s[k] = t[k]
           T == {k \in Nat : k \in 1..Len(s) /\ ~Agree(k)}
<1>1. /\ Len(s) \in Nat /\ Len(t) \in Nat
      /\ \A k \in 1..Len(s) : s[k] \in Nat /\ s[k] \in ToSet(s)
      /\ \A k \in 1..Len(t) : t[k] \in Nat /\ t[k] \in ToSet(t)
      /\ \A x \in ToSet(s) : \E k \in 1..Len(s) : s[k] = x
      /\ \A x \in ToSet(t) : \E k \in 1..Len(t) : t[k] = x
  BY ToSetIs
<1>2. SUFFICES ASSUME T # {} PROVE FALSE
  <2>1. i \in Nat
    OBVIOUS
  <2>2. i \in T \/ Agree(i)
    BY <2>1
  <2>3. QED BY <2>2
<1>3. PICK k \in T : \A m \in T : k <= m
  <2>1. T \in SUBSET Nat
    OBVIOUS
  <2> HIDE DEF T
  <2>2. QED BY <1>2, <2>1, LeastNumber
<1>4. k \in 1..Len(s) /\ ~Agree(k) /\ \A m \in 1 .. k - 1 : Agree(m)
  BY <1>1, <1>3
<1>5. PICK q \in 1..Len(t) : t[q] = s[k]
  BY <1>1, <1>4
<1>6. q >= k
  <2> SUFFICES ASSUME q < k PROVE FALSE
    BY <1>1, <1>4
  <2>1. q \in 1 .. k - 1 /\ q \in 1..Len(s)
    BY <1>1, <1>4
  <2>2. s[q] = t[q] /\ s[q] < s[k]
    BY <1>4, <2>1 DEF Increasing
  <2>3. QED BY <1>1, <1>4, <1>5, <2>2
<1>7. k \in 1..Len(t) /\ t[k] <= s[k]
  <2>1. k \in 1..Len(t)
    BY <1>1, <1>4, <1>6
  <2>2. k = q \/ t[k] < t[q]
    BY <1>1, <1>6, <2>1 DEF Increasing
  <2>3. t[k] \in Nat /\ t[q] \in Nat
    BY <1>1, <2>1
  <2>4. t[k] <= t[q]
    BY <2>2, <2>3
  <2>5. QED BY <1>5, <2>1, <2>4
<1>8. PICK p \in 1..Len(s) : s[p] = t[k]
  BY <1>1, <1>7
<1>9. p >= k
  <2> SUFFICES ASSUME p < k PROVE FALSE
    BY <1>1, <1>4
  <2>1. p \in 1 .. k - 1 /\ p \in 1..Len(t)
    BY <1>1, <1>4, <1>7
  <2>2. s[p] = t[p] /\ t[p] < t[k]
    BY <1>4, <1>7, <2>1 DEF Increasing
  <2>3. QED BY <1>1, <1>7, <1>8, <2>2
<1>10. s[k] <= t[k]
  <2>1. k = p \/ s[k] < s[p]
    BY <1>1, <1>4, <1>9 DEF Increasing
  <2>2. s[k] \in Nat /\ s[p] \in Nat
    BY <1>1, <1>4
  <2>3. QED BY <1>8, <2>1, <2>2
<1>11. s[k] \in Nat /\ t[k] \in Nat /\ k <= Len(t)
  <2>1. s[k] \in Nat
    BY <1>1, <1>4
  <2>2. t[k] \in Nat
    BY <1>1, <1>7
  <2>3. k <= Len(t)
    BY <1>1, <1>7
  <2>4. QED BY <2>1, <2>2, <2>3
<1>12. s[k] = t[k]
  BY <1>7, <1>10, <1>11
<1>13. QED BY <1>4, <1>11, <1>12

LEMMA IncreasingEqual ==
  ASSUME NEW s \in Seq(Nat), NEW t \in Seq(Nat), Increasing(s), Increasing(t),
         ToSet(s) = ToSet(t)
  PROVE  s = t
<1>1. \A i \in 1..Len(s) : i <= Len(t) /\ s[i] = t[i]
  BY IncreasingAgree
<1>2. \A i \in 1..Len(t) : i <= Len(s)
  BY IncreasingAgree
<1>3. Len(s) \in Nat /\ Len(t) \in Nat
  BY LenProperties
<1>4. Len(s) = Len(t)
  BY <1>1, <1>2, <1>3
<1>5. QED BY <1>1, <1>4, SeqEqual
-----------------------------------------------------------------------------
(* What the seam removes, and what it leaves.                               *)

LEMMA ReverseIs ==
  ASSUME NEW S, NEW s \in Seq(S)
  PROVE  /\ Reverse(s) \in Seq(S) /\ Len(Reverse(s)) = Len(s)
         /\ \A i \in 1..Len(s) : Reverse(s)[i] = s[(Len(s) - i) + 1]
<1>1. Len(s) \in Nat
  BY LenProperties
<1>2. \A i \in 1..Len(s) : s[(Len(s) - i) + 1] \in S
  <2>1. \A i \in 1..Len(s) : (Len(s) - i) + 1 \in 1..Len(s)
    BY <1>1
  <2>2. QED BY <2>1, ElementOfSeq
<1>3. Reverse(s) \in [1..Len(s) -> S]
  BY <1>2 DEF Reverse
<1>4. Reverse(s) \in Seq(S)
  BY <1>1, <1>3, IsASeq
<1>5. Len(Reverse(s)) = Len(s)
  BY <1>1, <1>3, <1>4, LenProperties
<1>6. QED BY <1>4, <1>5 DEF Reverse

LEMMA SuffixIs ==
  ASSUME NEW S, NEW s \in Seq(S), NEW t \in Seq(S)
  PROVE  IsSuffix(s, t) <=> /\ Len(s) <= Len(t)
                            /\ \A i \in 1..Len(s) : s[i] = t[Len(t) - Len(s) + i]
<1> DEFINE m == Len(s)
           n == Len(t)
           rs == Reverse(s)
           rt == Reverse(t)
<1>1. /\ m \in Nat /\ n \in Nat
      /\ rs \in Seq(S) /\ Len(rs) = m /\ \A i \in 1..m : rs[i] = s[(m - i) + 1]
      /\ rt \in Seq(S) /\ Len(rt) = n /\ \A i \in 1..n : rt[i] = t[(n - i) + 1]
  BY ReverseIs, LenProperties
<1>2. IsSuffix(s, t) <=> m <= n /\ SubSeq(rs, 1, m) = SubSeq(rt, 1, m)
  BY <1>1, Zenon DEF IsSuffix, IsPrefix
<1> HIDE DEF rs, rt
<1>3. SubSeq(rs, 1, m) = rs
  BY <1>1, SubSeqFull
<1>4. ASSUME m <= n
      PROVE  rs = SubSeq(rt, 1, m) <=> \A i \in 1..m : s[i] = t[n - m + i]
  <2> DEFINE first == SubSeq(rt, 1, m)
  <2>1. first \in Seq(S) /\ Len(first) = m /\ \A i \in 1..m : first[i] = rt[i]
    <3>1. \A i \in 1..m : rt[i] \in S
      <4>1. \A i \in 1..m : i \in 1..Len(rt)
        BY <1>1, <1>4
      <4>2. QED BY <1>1, <4>1, ElementOfSeq
    <3>2. /\ first \in Seq(S) /\ Len(first) = IF 1 <= m THEN m - 1 + 1 ELSE 0
          /\ \A i \in 1 .. m - 1 + 1 : first[i] = rt[1 + i - 1]
      BY <1>1, <3>1, SubSeqProperties
    <3>3. m - 1 + 1 = m /\ \A i \in 1..m : 1 + i - 1 = i
      BY <1>1
    <3> HIDE DEF first
    <3>4. QED BY <1>1, <3>2, <3>3
  <2> HIDE DEF first
  <2>2. \A i \in 1..m : (m - i) + 1 \in 1..m /\ (m - ((m - i) + 1)) + 1 = i
                        /\ (n - ((m - i) + 1)) + 1 = n - m + i /\ i \in 1..n
                        /\ (n - i) + 1 = n - m + ((m - i) + 1)
    BY <1>1, <1>4
  <2>3. ASSUME rs = first, NEW i \in 1..m
        PROVE  s[i] = t[n - m + i]
    <3>1. rs[(m - i) + 1] = rt[(m - i) + 1]
      BY <2>1, <2>2, <2>3
    <3> DEFINE j == (m - i) + 1
    <3>2. j \in 1..m /\ j \in 1..n /\ (m - j) + 1 = i /\ (n - j) + 1 = n - m + i
      BY <1>1, <1>4, <2>2
    <3>3. rs[j] = rt[j]
      BY <3>1
    <3> HIDE DEF j
    <3>4. rs[j] = s[(m - j) + 1] /\ rt[j] = t[(n - j) + 1]
      BY <1>1, <3>2
    <3>5. QED BY <3>2, <3>3, <3>4
  <2>4. ASSUME \A i \in 1..m : s[i] = t[n - m + i]
        PROVE  rs = first
    <3>1. \A i \in 1..m : rs[i] = first[i]
      <4> SUFFICES ASSUME NEW i \in 1..m PROVE rs[i] = first[i]
        OBVIOUS
      <4>1. rs[i] = s[(m - i) + 1] /\ first[i] = rt[i] /\ rt[i] = t[(n - i) + 1]
        BY <1>1, <2>1, <2>2
      <4>2. s[(m - i) + 1] = t[n - m + ((m - i) + 1)]
        BY <2>2, <2>4
      <4>3. QED BY <2>2, <4>1, <4>2
    <3>2. QED BY <1>1, <2>1, <3>1, SeqEqual
  <2>5. QED BY <2>3, <2>4 DEF first
<1>5. QED BY <1>2, <1>3, <1>4

(* What is left of `next` is its end; what is gone ended `prev`.            *)
LEMMA DedupLeaves ==
  ASSUME NEW S, NEW prev \in Seq(S), NEW next \in Seq(S)
  PROVE  \E l \in 0..Len(next) :
           /\ DedupSeam(prev, next) = SubSeq(next, l + 1, Len(next))
           /\ l <= Len(prev) /\ \A i \in 1..l : next[i] = prev[Len(prev) - l + i]
           /\ \A k \in Repeated(prev, next) : k <= l
<1> DEFINE l == Max(Repeated(prev, next))
<1>1. /\ DedupSeam(prev, next) = SubSeq(next, l + 1, Len(next))
      /\ l \in Repeated(prev, next) /\ \A k \in Repeated(prev, next) : k <= l
      /\ l \in 0..Len(next) /\ l <= Len(prev) /\ IsSuffix(SubSeq(next, 1, l), prev)
  BY RepeatedIs
<1> HIDE DEF l
<1>2. SubSeq(next, 1, l) \in Seq(S) /\ Len(SubSeq(next, 1, l)) = l
      /\ \A i \in 1..l : SubSeq(next, 1, l)[i] = next[i]
  <2>1. \A i \in 1..l : next[i] \in S
    <3>1. \A i \in 1..l : i \in 1..Len(next)
      BY <1>1, LenProperties
    <3>2. QED BY <3>1, ElementOfSeq
  <2> DEFINE first == SubSeq(next, 1, l)
  <2>2. /\ first \in Seq(S) /\ Len(first) = IF 1 <= l THEN l - 1 + 1 ELSE 0
        /\ \A i \in 1 .. l - 1 + 1 : first[i] = next[1 + i - 1]
    BY <1>1, <2>1, SubSeqProperties
  <2>3. l - 1 + 1 = l /\ \A i \in 1..l : 1 + i - 1 = i
    BY <1>1
  <2> HIDE DEF first
  <2>4. Len(first) = l
    BY <1>1, <2>2, <2>3
  <2>5. \A i \in 1..l : first[i] = next[i]
    BY <2>2, <2>3
  <2>6. QED BY <2>2, <2>4, <2>5 DEF first
<1>3. \A i \in 1..l : SubSeq(next, 1, l)[i] = prev[Len(prev) - l + i]
  <2> DEFINE first == SubSeq(next, 1, l)
  <2> HIDE DEF first
  <2>1. first \in Seq(S) /\ Len(first) = l /\ IsSuffix(first, prev)
    BY <1>1, <1>2 DEF first
  <2>2. \A i \in 1..Len(first) : first[i] = prev[Len(prev) - Len(first) + i]
    BY <2>1, SuffixIs
  <2>3. QED BY <2>1, <2>2 DEF first
<1>4. QED BY <1>1, <1>2, <1>3

(* No word is gone that `prev` does not have.                               *)
LEMMA DedupKeeps ==
  ASSUME NEW S, NEW prev \in Seq(S), NEW next \in Seq(S)
  PROVE  /\ ToSet(DedupSeam(prev, next)) \subseteq ToSet(next)
         /\ ToSet(next) \subseteq ToSet(DedupSeam(prev, next)) \cup ToSet(prev)
<1>1. PICK l \in 0..Len(next) :
        /\ DedupSeam(prev, next) = SubSeq(next, l + 1, Len(next))
        /\ l <= Len(prev) /\ \A i \in 1..l : next[i] = prev[Len(prev) - l + i]
        /\ \A k \in Repeated(prev, next) : k <= l
  BY DedupLeaves
<1> DEFINE left == SubSeq(next, l + 1, Len(next))
<1>2. /\ Len(prev) \in Nat /\ Len(next) \in Nat
      /\ \A i \in 1..Len(next) : next[i] \in ToSet(next)
      /\ \A i \in 1..Len(prev) : prev[i] \in ToSet(prev)
  BY ToSetIs
<1>3. /\ left \in Seq(S) /\ Len(left) = IF l + 1 <= Len(next) THEN Len(next) - (l + 1) + 1 ELSE 0
      /\ \A i \in 1 .. Len(next) - (l + 1) + 1 : left[i] = next[(l + 1) + i - 1]
  <2>1. \A i \in l + 1 .. Len(next) : next[i] \in S
    <3>1. \A i \in l + 1 .. Len(next) : i \in 1..Len(next)
      BY <1>2
    <3>2. QED BY <3>1, ElementOfSeq
  <2>2. QED BY <1>2, <2>1, SubSeqProperties
<1> HIDE DEF left
<1>4. \A i \in 1..Len(left) : left[i] \in ToSet(next)
  <2>1. \A i \in 1..Len(left) : /\ (l + 1) + i - 1 \in 1..Len(next)
                                /\ i \in 1 .. Len(next) - (l + 1) + 1
    BY <1>2, <1>3
  <2>2. QED BY <1>2, <1>3, <2>1
<1>5. \A i \in 1..Len(next) : next[i] \in ToSet(left) \cup ToSet(prev)
  <2> SUFFICES ASSUME NEW i \in 1..Len(next)
               PROVE  next[i] \in ToSet(left) \cup ToSet(prev)
    OBVIOUS
  <2>1. CASE i <= l
    <3>1. i \in 1..l /\ Len(prev) - l + i \in 1..Len(prev)
      BY <1>1, <1>2, <2>1
    <3>2. QED BY <1>1, <1>2, <3>1
  <2>2. CASE ~(i <= l)
    <3>1. /\ i - l \in 1 .. Len(next) - (l + 1) + 1 /\ i - l \in 1..Len(left)
          /\ (l + 1) + (i - l) - 1 = i
      BY <1>2, <1>3, <2>2
    <3>2. left[i - l] = next[i]
      BY <1>3, <3>1
    <3>3. left[i - l] \in ToSet(left)
      BY <1>3, <3>1, ToSetIs
    <3>4. QED BY <3>2, <3>3
  <2>3. QED BY <2>1, <2>2
<1>6. ToSet(left) \subseteq ToSet(next)
  BY <1>3, <1>4, ToSetIs
<1>7. ToSet(next) \subseteq ToSet(left) \cup ToSet(prev)
  BY <1>5, ToSetIs
<1>8. QED BY <1>1, <1>6, <1>7 DEF left
(* Numbers beyond m that grow are soon far beyond it.                       *)
LEMMA GrowsAtLeast ==
  ASSUME NEW s \in Seq(Nat), Increasing(s), NEW m \in Nat, \A x \in ToSet(s) : m < x
  PROVE  \A i \in 1..Len(s) : m + i <= s[i]
<1> DEFINE Good == {i \in Nat : i \in 1..Len(s) => m + i <= s[i]}
<1>1. Len(s) \in Nat /\ \A i \in 1..Len(s) : s[i] \in Nat /\ m < s[i]
  BY ToSetIs
<1>2. 0 \in Good
  OBVIOUS
<1>3. ASSUME NEW i \in 1..Len(s), i - 1 \in Good
      PROVE  i \in Good
  <2>1. CASE i = 1
    BY <1>1, <2>1
  <2>2. CASE i # 1
    <3>1. i - 1 \in 1..Len(s) /\ i - 1 < i
      BY <1>1, <2>2
    <3>2. m + (i - 1) <= s[i - 1] /\ s[i - 1] < s[i]
      BY <1>3, <3>1 DEF Increasing
    <3>3. QED BY <1>1, <3>1, <3>2
  <2>3. QED BY <2>1, <2>2
<1> HIDE DEF Good
<1>4. 0..Len(s) \subseteq Good
  BY <1>1, <1>2, <1>3, Induction
<1>5. \A i \in 1..Len(s) : i \in 0..Len(s) /\ i \in Nat
  BY <1>1
<1>6. QED BY <1>4, <1>5 DEF Good

(* `prev` was heard up to `to`, `next` from beyond `from`, and what both    *)
(* heard they agree on, or one of them said nothing of it.                  *)
SeamAgrees(prev, next, from, to) ==
  \/ {x \in ToSet(prev) : x > from} = {x \in ToSet(next) : x <= to}
  \/ {x \in ToSet(prev) : x > from} = {}
  \/ {x \in ToSet(next) : x <= to} = {}

(* The words heard twice at such a seam are removed, all of them.           *)
LEMMA SeamRemovesRepeats ==
  ASSUME NEW prev \in Seq(Nat), NEW next \in Seq(Nat), Increasing(prev), Increasing(next),
         NEW from \in Nat, NEW to \in Nat, to - from <= SeamWords,
         \A x \in ToSet(prev) : x <= to, \A x \in ToSet(next) : from < x,
         SeamAgrees(prev, next, from, to)
  PROVE  /\ DedupSeam(prev, next) \in Seq(Nat) /\ Increasing(DedupSeam(prev, next))
         /\ \A x \in ToSet(prev), y \in ToSet(DedupSeam(prev, next)) : x < y
<1>1. PICK l \in 0..Len(next) :
        /\ DedupSeam(prev, next) = SubSeq(next, l + 1, Len(next))
        /\ l <= Len(prev) /\ \A i \in 1..l : next[i] = prev[Len(prev) - l + i]
        /\ \A k \in Repeated(prev, next) : k <= l
  BY DedupLeaves
<1>2. /\ Len(prev) \in Nat /\ Len(next) \in Nat /\ SeamWords \in Nat
      /\ \A i \in 1..Len(next) : next[i] \in Nat /\ next[i] \in ToSet(next)
      /\ \A i \in 1..Len(prev) : prev[i] \in Nat /\ prev[i] \in ToSet(prev)
      /\ ToSet(prev) \subseteq Nat /\ ToSet(next) \subseteq Nat
      /\ \A x \in ToSet(next) : \E i \in 1..Len(next) : next[i] = x
      /\ \A x \in ToSet(prev) : \E i \in 1..Len(prev) : prev[i] = x
  BY ToSetIs, ChunkingAssumption
<1> DEFINE left == SubSeq(next, l + 1, Len(next))
<1>3. /\ left \in Seq(Nat) /\ Increasing(left)
      /\ ToSet(left) = {next[i] : i \in l + 1 .. Len(next)}
  <2>1. l + 1 \in 1 .. Len(next) + 1 /\ Len(next) \in 0..Len(next)
    BY <1>2
  <2>2. QED BY <2>1, IncreasingPart
<1> HIDE DEF left
<1>4. SUFFICES ASSUME NEW x \in ToSet(prev), NEW k \in l + 1 .. Len(next)
               PROVE  x < next[k]
  BY <1>1, <1>3 DEF left
<1>5. k \in 1..Len(next) /\ x \in Nat /\ next[k] \in Nat /\ next[k] \in ToSet(next) /\ x <= to
  <2>1. k \in 1..Len(next)
    BY <1>2
  <2>2. QED BY <1>2, <2>1
<1>6. CASE {z \in ToSet(prev) : z > from} = {}
  <2>1. ~(x > from) /\ from < next[k]
    BY <1>5, <1>6
  <2>2. QED BY <1>5, <2>1
<1>7. CASE {z \in ToSet(next) : z <= to} = {}
  <2>1. ~(next[k] <= to)
    BY <1>5, <1>7
  <2>2. QED BY <1>5, <2>1
<1>8. CASE /\ {z \in ToSet(prev) : z > from} = {z \in ToSet(next) : z <= to}
           /\ {z \in ToSet(next) : z <= to} # {}
  <2> DEFINE both == {z \in ToSet(next) : z <= to}
             A == {i \in 1..Len(prev) : prev[i] > from}
             W == {i \in 1..Len(next) : next[i] <= to}
  <2>1. A \in SUBSET Nat /\ A # {} /\ W \in SUBSET Nat /\ W # {}
    <3>1. PICK z \in ToSet(next) : z <= to
      BY <1>8
    <3>2. z \in ToSet(prev) /\ z > from
      BY <1>8, <3>1
    <3>3. PICK i \in 1..Len(prev) : prev[i] = z
      BY <1>2, <3>2
    <3>4. PICK j \in 1..Len(next) : next[j] = z
      BY <1>2, <3>1
    <3>5. prev[i] > from /\ next[j] <= to
      BY <3>1, <3>2, <3>3, <3>4
    <3>6. i \in A
      BY <3>5
    <3>7. j \in W
      BY <3>5
    <3>8. A \in SUBSET Nat
      OBVIOUS
    <3>9. W \in SUBSET Nat
      OBVIOUS
    <3> HIDE DEF A, W
    <3>10. QED BY <3>6, <3>7, <3>8, <3>9
  <2>2. PICK a \in A : \A i \in A : a <= i
    <3> HIDE DEF A
    <3>1. QED BY <2>1, LeastNumber
  <2>3. PICK w \in W : \A i \in W : i <= w
    <3>1. \A i \in W : i <= Len(next)
      BY <1>2
    <3> HIDE DEF W
    <3>2. QED BY <1>2, <2>1, <3>1, GreatestNumber
  <2>4. a \in 1..Len(prev) /\ prev[a] > from /\ w \in 1..Len(next) /\ next[w] <= to
    BY <2>2, <2>3
  <2> HIDE DEF A, W, both
  <2> DEFINE end == SubSeq(prev, a, Len(prev))
             start == SubSeq(next, 1, w)
  <2>5. /\ end \in Seq(Nat) /\ Increasing(end) /\ Len(end) = Len(prev) - a + 1
        /\ \A i \in 1 .. Len(prev) - a + 1 : end[i] = prev[a + i - 1]
        /\ ToSet(end) = {prev[i] : i \in a..Len(prev)}
    <3>1. a \in 1 .. Len(prev) + 1 /\ Len(prev) \in 0..Len(prev) /\ a <= Len(prev)
      BY <1>2, <2>4
    <3>2. QED BY <3>1, IncreasingPart
  <2>6. /\ start \in Seq(Nat) /\ Increasing(start) /\ Len(start) = w
        /\ ToSet(start) = {next[i] : i \in 1..w}
    <3>1. 1 \in 1 .. Len(next) + 1 /\ w \in 0..Len(next) /\ 1 <= w /\ w - 1 + 1 = w
      BY <1>2, <2>4
    <3>2. QED BY <3>1, IncreasingPart
  <2> HIDE DEF end, start
  <2>7. ToSet(end) = both
    <3>1. \A i \in a..Len(prev) : prev[i] > from
      <4> SUFFICES ASSUME NEW i \in a..Len(prev) PROVE prev[i] > from
        OBVIOUS
      <4>1. i \in 1..Len(prev) /\ (i = a \/ a < i)
        BY <1>2, <2>4
      <4>2. i = a \/ prev[a] < prev[i]
        BY <2>4, <4>1 DEF Increasing
      <4>3. prev[i] \in Nat /\ prev[a] \in Nat
        BY <1>2, <2>4, <4>1
      <4>4. prev[a] > from
        BY <2>4
      <4>5. \A m, n \in Nat : n > from /\ n < m => m > from
        OBVIOUS
      <4>6. QED BY <4>2, <4>3, <4>4, <4>5
    <3>2. \A i \in a..Len(prev) : prev[i] \in ToSet(prev)
      <4>1. \A i \in a..Len(prev) : i \in 1..Len(prev)
        BY <1>2, <2>4
      <4>2. QED BY <1>2, <4>1
    <3>3. \A z \in ToSet(prev) : z > from => \E i \in a..Len(prev) : prev[i] = z
      <4> SUFFICES ASSUME NEW z \in ToSet(prev), z > from
                   PROVE  \E i \in a..Len(prev) : prev[i] = z
        OBVIOUS
      <4>1. PICK i \in 1..Len(prev) : prev[i] = z
        BY <1>2
      <4>2. a <= i
        BY <2>2, <4>1 DEF A
      <4>3. i \in a..Len(prev)
        BY <1>2, <2>4, <4>1, <4>2
      <4>4. QED BY <4>1, <4>3
    <3>4. ToSet(end) = {z \in ToSet(prev) : z > from}
      BY <2>5, <3>1, <3>2, <3>3
    <3>5. QED BY <1>8, <3>4 DEF both
  <2>8. ToSet(start) = both
    <3>1. \A i \in 1..w : next[i] <= to /\ next[i] \in ToSet(next)
      <4> SUFFICES ASSUME NEW i \in 1..w PROVE next[i] <= to /\ next[i] \in ToSet(next)
        OBVIOUS
      <4>0. w \in Nat /\ w <= Len(next) /\ Len(next) \in Nat
        BY <1>2, <2>4
      <4>1. i \in 1..Len(next) /\ (i = w \/ i < w)
        BY <4>0
      <4>2. i = w \/ next[i] < next[w]
        BY <2>4, <4>1 DEF Increasing
      <4>3. next[i] \in Nat /\ next[w] \in Nat /\ next[i] \in ToSet(next)
        BY <1>2, <2>4, <4>1
      <4>4. next[w] <= to
        BY <2>4
      <4>5. QED BY <4>2, <4>3, <4>4
    <3>2. \A z \in ToSet(next) : z <= to => \E i \in 1..w : next[i] = z
      <4> SUFFICES ASSUME NEW z \in ToSet(next), z <= to
                   PROVE  \E i \in 1..w : next[i] = z
        OBVIOUS
      <4>1. PICK i \in 1..Len(next) : next[i] = z
        BY <1>2
      <4>2. i <= w
        BY <2>3, <4>1 DEF W
      <4>3. i \in 1..w
        BY <1>2, <2>4, <4>1, <4>2
      <4>4. QED BY <4>1, <4>3
    <3>3. QED BY <2>6, <3>1, <3>2 DEF both
  <2>9. start = end
    BY <2>5, <2>6, <2>7, <2>8, IncreasingEqual
  <2>10. w \in Repeated(prev, next)
    <3>1. w = Len(prev) - a + 1
      BY <2>5, <2>6, <2>9
    <3>2. w <= Len(prev)
      BY <1>2, <2>4, <3>1
    <3>3. w <= SeamWords
      <4>1. from + w <= next[w]
        BY <2>4, GrowsAtLeast
      <4>2. next[w] \in Nat /\ w \in Nat
        BY <1>2, <2>4
      <4>3. next[w] <= to /\ SeamWords \in Nat
        BY <1>2, <2>4
      <4>4. \A n \in Nat : from + w <= n /\ n <= to => w <= to - from
        BY <4>2
      <4>5. w <= to - from
        BY <4>1, <4>2, <4>3, <4>4
      <4>6. QED BY <4>2, <4>3, <4>5
    <3>4. IsSuffix(start, prev)
      <4>1. \A i \in 1..w : start[i] = prev[Len(prev) - w + i]
        <5>1. \A i \in 1..w : /\ i \in 1 .. Len(prev) - a + 1
                              /\ Len(prev) - w + i = a + i - 1
          BY <1>2, <2>4, <3>1
        <5>2. QED BY <2>5, <2>9, <5>1
      <4>2. QED BY <2>6, <3>2, <4>1, SuffixIs
    <3>5. w \in 0..Len(next)
      BY <2>4
    <3>6. Repeated(prev, next) = {i \in 0..Len(next) :
                                    /\ i <= SeamWords /\ i <= Len(prev)
                                    /\ IsSuffix(SubSeq(next, 1, i), prev)}
      BY RepeatedIs
    <3>7. IsSuffix(SubSeq(next, 1, w), prev)
      BY <3>4 DEF start
    <3>8. QED BY <3>2, <3>3, <3>5, <3>6, <3>7
  <2>11. ~(next[k] <= to)
    <3>1. w <= l
      BY <1>1, <2>10
    <3>2. w < k
      BY <1>5, <2>4, <3>1
    <3>3. ~(k \in W)
      BY <1>5, <2>3, <2>4, <3>2
    <3>4. QED BY <1>5, <3>3 DEF W
  <2>12. QED BY <1>5, <2>11
<1>9. QED BY <1>6, <1>7, <1>8 DEF SeamAgrees
-----------------------------------------------------------------------------
(* The words of a recording are those of its units that are not quiet.      *)
LEMMA WithoutKeeps ==
  ASSUME NEW S, NEW s \in Seq(S), NEW unwanted
  PROVE  ToSet(Without(s, unwanted)) = {s[k] : k \in 1..Len(s)} \ unwanted
<1>1. PICK kept \in [0..Len(s) -> Seq(S)] :
        Keeps(s, unwanted, kept) /\ Without(s, unwanted) = kept[Len(s)]
  BY WithoutIs
<1>2. Len(s) \in Nat /\ \A i \in 1..Len(s) : s[i] \in S
  BY ToSetIs
<1> DEFINE Upto(n) == {s[k] : k \in 1..n} \ unwanted
           Good == {n \in 0..Len(s) : ToSet(kept[n]) = Upto(n)}
<1>3. 0 \in Good
  <2>1. kept[0] = <<>> /\ 0 \in 0..Len(s)
    BY <1>1, <1>2 DEF Keeps
  <2>2. ToSet(kept[0]) = {}
    BY <2>1 DEF ToSet
  <2>3. Upto(0) = {}
    OBVIOUS
  <2>4. QED BY <2>1, <2>2, <2>3
<1>4. ASSUME NEW n \in 1..Len(s), n - 1 \in Good
      PROVE  n \in Good
  <2>1. /\ n \in 0..Len(s) /\ n - 1 \in 0..Len(s) /\ kept[n - 1] \in Seq(S)
        /\ kept[n] = IF s[n] \in unwanted THEN kept[n - 1] ELSE Append(kept[n - 1], s[n])
    BY <1>1, <1>2 DEF Keeps
  <2>2. ToSet(kept[n]) = IF s[n] \in unwanted THEN ToSet(kept[n - 1])
                          ELSE ToSet(kept[n - 1]) \cup {s[n]}
    <3>1. CASE s[n] \in unwanted
      BY <2>1, <3>1
    <3>2. CASE s[n] \notin unwanted
      <4>1. s[n] \in S /\ kept[n] = Append(kept[n - 1], s[n])
        BY <1>2, <2>1, <3>2
      <4>2. ToSet(kept[n]) = ToSet(kept[n - 1]) \cup {s[n]}
        BY <2>1, <4>1, ToSetOfAppend
      <4>3. QED BY <3>2, <4>2
    <3>3. QED BY <3>1, <3>2
  <2>3. 1..n = 1 .. n - 1 \cup {n}
    BY <2>1
  <2>4. {s[k] : k \in 1..n} = {s[k] : k \in 1 .. n - 1} \cup {s[n]}
    BY <2>3
  <2>5. ToSet(kept[n - 1]) = {s[k] : k \in 1 .. n - 1} \ unwanted
    BY <1>4
  <2>6. ToSet(kept[n]) = {s[k] : k \in 1..n} \ unwanted
    BY <2>2, <2>4, <2>5
  <2>7. QED BY <2>1, <2>6
<1>5. 0..Len(s) \subseteq Good
  <2> HIDE DEF Good
  <2>1. QED BY <1>2, <1>3, <1>4, Induction
<1>6. QED BY <1>1, <1>2, <1>5

LEMMA WordsAreThoseSaid ==
  ASSUME NEW S, NEW audio \in Seq(S)
  PROVE  ToSet(Words(audio)) = {audio[k] : k \in 1..Len(audio)} \ {Quiet}
BY WithoutKeeps DEF Words

LEMMA IncreasingAppend ==
  ASSUME NEW s \in Seq(Nat), NEW x \in Nat, Increasing(s), \A y \in ToSet(s) : y < x
  PROVE  Increasing(Append(s, x))
<1>1. /\ Len(s) \in Nat /\ Len(Append(s, x)) = Len(s) + 1
      /\ \A i \in 1..Len(s) : Append(s, x)[i] = s[i] /\ s[i] < x
      /\ Append(s, x)[Len(s) + 1] = x
  BY AppendProperties, LenProperties, ToSetIs
<1> SUFFICES ASSUME NEW i \in 1 .. Len(s) + 1, NEW j \in 1 .. Len(s) + 1, i < j
             PROVE  Append(s, x)[i] < Append(s, x)[j]
  BY <1>1 DEF Increasing
<1>2. i \in 1..Len(s)
  BY <1>1
<1>3. CASE j = Len(s) + 1
  BY <1>1, <1>2, <1>3
<1>4. CASE j # Len(s) + 1
  <2>1. j \in 1..Len(s)
    BY <1>1, <1>4
  <2>2. QED BY <1>1, <1>2, <2>1 DEF Increasing
<1>5. QED BY <1>3, <1>4

(* What is left of a sequence grows if no two of it are the wrong way.      *)
LEMMA WithoutGrows ==
  ASSUME NEW s \in Seq(Nat), NEW unwanted,
         \A i, j \in 1..Len(s) :
           i < j /\ s[i] \notin unwanted /\ s[j] \notin unwanted => s[i] < s[j]
  PROVE  Increasing(Without(s, unwanted))
<1>1. PICK kept \in [0..Len(s) -> Seq(Nat)] :
        Keeps(s, unwanted, kept) /\ Without(s, unwanted) = kept[Len(s)]
  BY WithoutIs
<1>2. Len(s) \in Nat /\ \A i \in 1..Len(s) : s[i] \in Nat
  BY ToSetIs
<1> DEFINE Before(n) == {s[k] : k \in 1..n} \ unwanted
           Good == {n \in 0..Len(s) : Increasing(kept[n]) /\ ToSet(kept[n]) \subseteq Before(n)}
<1>3. 0 \in Good
  <2>1. kept[0] = <<>> /\ 0 \in 0..Len(s)
    BY <1>1, <1>2 DEF Keeps
  <2>2. ToSet(kept[0]) = {} /\ Increasing(kept[0])
    BY <2>1 DEF ToSet, Increasing
  <2>3. QED BY <2>1, <2>2
<1>4. ASSUME NEW n \in 1..Len(s), n - 1 \in Good
      PROVE  n \in Good
  <2>1. /\ n \in 0..Len(s) /\ n - 1 \in 0..Len(s) /\ kept[n - 1] \in Seq(Nat)
        /\ kept[n] = IF s[n] \in unwanted THEN kept[n - 1] ELSE Append(kept[n - 1], s[n])
    <3>1. n \in 0..Len(s) /\ n - 1 \in 0..Len(s)
      BY <1>2
    <3>2. kept[n - 1] \in Seq(Nat)
      BY <1>1, <3>1
    <3>3. kept[n] = IF s[n] \in unwanted THEN kept[n - 1] ELSE Append(kept[n - 1], s[n])
      BY <1>1 DEF Keeps
    <3>4. QED BY <3>1, <3>2, <3>3
  <2>2. Increasing(kept[n - 1]) /\ ToSet(kept[n - 1]) \subseteq Before(n - 1)
    BY <1>4
  <2>3. \A k \in 1 .. n - 1 : k \in 1..n /\ k \in 1..Len(s) /\ k < n
    BY <1>2
  <2>4. Before(n - 1) \subseteq Before(n)
    BY <2>3
  <2>5. CASE s[n] \in unwanted
    BY <2>1, <2>2, <2>4, <2>5
  <2>6. CASE s[n] \notin unwanted
    <3>1. \A y \in ToSet(kept[n - 1]) : y < s[n]
      BY <2>2, <2>3, <2>6
    <3>2. s[n] \in Nat /\ s[n] \in Before(n) /\ kept[n] = Append(kept[n - 1], s[n])
      BY <1>2, <2>1, <2>6
    <3> HIDE DEF Before
    <3>3. Increasing(Append(kept[n - 1], s[n]))
      BY <2>1, <2>2, <3>1, <3>2, IncreasingAppend
    <3>4. ToSet(Append(kept[n - 1], s[n])) = ToSet(kept[n - 1]) \cup {s[n]}
      BY <2>1, <3>2, ToSetOfAppend
    <3>5. Increasing(kept[n])
      BY <3>2, <3>3
    <3>6. ToSet(kept[n]) \subseteq Before(n)
      BY <2>2, <2>4, <3>2, <3>4
    <3>7. QED BY <2>1, <3>5, <3>6
  <2>7. QED BY <2>5, <2>6
<1>5. 0..Len(s) \subseteq Good
  <2> HIDE DEF Good
  <2>1. QED BY <1>2, <1>3, <1>4, Induction
<1>6. QED BY <1>1, <1>2, <1>5

(* When each word is the number of its unit, beyond m, words grow.          *)
LEMMA WordsGrow ==
  ASSUME NEW audio \in Seq(Nat), NEW m \in Nat,
         \A k \in 1..Len(audio) : audio[k] = Quiet \/ audio[k] = m + k
  PROVE  Words(audio) \in Seq(Nat) /\ Increasing(Words(audio))
<1>1. Len(audio) \in Nat
  BY LenProperties
<1>2. \A i, j \in 1..Len(audio) :
        i < j /\ audio[i] \notin {Quiet} /\ audio[j] \notin {Quiet} => audio[i] < audio[j]
  BY <1>1
<1>3. QED BY <1>2, WithoutIsASequence, WithoutGrows DEF Words

-----------------------------------------------------------------------------
(* What is said in an assembled transcript.                                 *)

(* No word of a chunk's transcript is lost where chunks are joined, and     *)
(* none is added.                                                           *)
LEMMA AssembleKeeps ==
  ASSUME NEW S, NEW plans, Len(plans) \in Nat, NEW texts \in [1..Len(plans) -> Seq(S)]
  PROVE  ToSet(Assemble(plans, texts)) = UNION {ToSet(texts[i]) : i \in 1..Len(plans)}
<1>1. PICK added, joined \in [0..Len(plans) -> Seq(S)] :
        /\ added[0] = <<>> /\ Adds(plans, texts, added) /\ Joins(Len(plans), added, joined)
        /\ Assemble(plans, texts) = joined[Len(plans)]
  BY AssembleJoins
<1> DEFINE n == Len(plans)
           Upto(i) == UNION {ToSet(texts[k]) : k \in 1..i}
           Good == {i \in 0..n : /\ ToSet(joined[i]) = Upto(i)
                                 /\ ToSet(added[i]) \subseteq ToSet(joined[i])}
<1>2. 0 \in Good
  <2>1. joined[0] = <<>> /\ added[0] = <<>>
    BY <1>1 DEF Joins
  <2>2. ToSet(joined[0]) = {} /\ ToSet(added[0]) = {}
    BY <2>1 DEF ToSet
  <2>3. Upto(0) = {}
    OBVIOUS
  <2>4. QED BY <2>2, <2>3
<1>3. ASSUME NEW i \in 1..n, i - 1 \in Good
      PROVE  i \in Good
  <2>1. i \in 0..n /\ i - 1 \in 0..n
    OBVIOUS
  <2>2. /\ added[i - 1] \in Seq(S) /\ added[i] \in Seq(S) /\ joined[i - 1] \in Seq(S)
        /\ joined[i] = joined[i - 1] \o added[i] /\ texts[i] \in Seq(S)
    BY <1>1, <2>1 DEF Joins
  <2>3. added[i] = IF plans[i].needs_dedup THEN DedupSeam(added[i - 1], texts[i]) ELSE texts[i]
    BY <1>1 DEF Adds
  <2>4. /\ ToSet(joined[i - 1]) = Upto(i - 1)
        /\ ToSet(added[i - 1]) \subseteq ToSet(joined[i - 1])
    BY <1>3
  <2>5. /\ ToSet(added[i]) \subseteq ToSet(texts[i])
        /\ ToSet(texts[i]) \subseteq ToSet(added[i]) \cup ToSet(added[i - 1])
    <3>1. CASE plans[i].needs_dedup
      <4>1. added[i] = DedupSeam(added[i - 1], texts[i])
        BY <2>3, <3>1
      <4>2. QED BY <2>2, <4>1, DedupKeeps
    <3>2. CASE ~plans[i].needs_dedup
      BY <2>3, <3>2
    <3>3. QED BY <3>1, <3>2
  <2>6. ToSet(joined[i]) = ToSet(joined[i - 1]) \cup ToSet(added[i])
    BY <2>2, ToSetOfConcat
  <2>7. Upto(i) = Upto(i - 1) \cup ToSet(texts[i])
    <3>1. 1..i = 1 .. i - 1 \cup {i}
      OBVIOUS
    <3>2. {ToSet(texts[k]) : k \in 1..i} = {ToSet(texts[k]) : k \in 1 .. i - 1} \cup {ToSet(texts[i])}
      BY <3>1
    <3>3. QED BY <3>2
  <2> HIDE DEF Upto
  <2>8. ToSet(joined[i]) = Upto(i) /\ ToSet(added[i]) \subseteq ToSet(joined[i])
    BY <2>4, <2>5, <2>6, <2>7
  <2>9. QED BY <2>1, <2>8
<1>4. n \in 0..n /\ 0..n \subseteq Good
  <2>1. n \in Nat /\ n \in 0..n
    OBVIOUS
  <2> HIDE DEF Good, n
  <2>2. QED BY <1>2, <1>3, <2>1, Induction
<1>5. QED BY <1>1, <1>4

(* Where one chunk ends, and how the next lies to it: beyond it, or over    *)
(* its last Overlap units, which are not its first ones as well.            *)
End(p) == p.start + p.len
LiesAfter(p, q) ==
  IF q.needs_dedup
  THEN /\ q.start + Overlap = End(p) /\ p.start + Overlap <= q.start
       /\ Overlap <= q.len
  ELSE q.start = End(p)
Laid(plans) == /\ plans # <<>> => ~plans[1].needs_dedup
               /\ \A i \in 1 .. Len(plans) - 1 : LiesAfter(plans[i], plans[i + 1])

(* The transcripts say the words of their chunks in order, and two agree on *)
(* what both heard, or one of them did not hear it.                         *)
SaysOwn(plans, texts) ==
  \A i \in 1..Len(plans) :
    /\ Increasing(texts[i])
    /\ \A x \in ToSet(texts[i]) : plans[i].start < x /\ x <= End(plans[i])
Agree(plans, texts) ==
  \A i \in 1 .. Len(plans) - 1 :
    plans[i + 1].needs_dedup =>
      SeamAgrees(texts[i], texts[i + 1], plans[i + 1].start, End(plans[i]))

(* Then no word is said twice or out of order in the transcript of all.     *)
LEMMA AssembleGrows ==
  ASSUME NEW plans \in Seq(PlanRecords), NEW texts \in [1..Len(plans) -> Seq(Nat)],
         Laid(plans), SaysOwn(plans, texts), Agree(plans, texts), Overlap <= SeamWords
  PROVE  Increasing(Assemble(plans, texts))
<1> DEFINE n == Len(plans)
<1>1. /\ n \in Nat /\ Overlap \in Nat /\ SeamWords \in Nat
      /\ \A i \in 1..n : /\ plans[i] \in PlanRecords /\ plans[i].start \in Nat
                         /\ plans[i].len \in Nat /\ End(plans[i]) \in Nat
                         /\ End(plans[i]) = plans[i].start + plans[i].len
                         /\ texts[i] \in Seq(Nat) /\ ToSet(texts[i]) \subseteq Nat
  <2>1. n \in Nat /\ \A i \in 1..n : plans[i] \in PlanRecords
    BY ToSetIs
  <2>2. \A i \in 1..n : plans[i].start \in Nat /\ plans[i].len \in Nat
    BY <2>1 DEF PlanRecords
  <2>3. \A i \in 1..n : End(plans[i]) \in Nat /\ End(plans[i]) = plans[i].start + plans[i].len
    BY <2>2 DEF End
  <2>4. \A i \in 1..n : texts[i] \in Seq(Nat)
    OBVIOUS
  <2>5. \A i \in 1..n : ToSet(texts[i]) \subseteq Nat
    BY <2>4, ToSetIs
  <2>6. QED BY <2>1, <2>2, <2>3, <2>4, <2>5, ChunkingAssumption
<1>2. PICK added, joined \in [0..n -> Seq(Nat)] :
        /\ added[0] = <<>> /\ Adds(plans, texts, added) /\ Joins(n, added, joined)
        /\ Assemble(plans, texts) = joined[n]
  BY <1>1, AssembleJoins
<1> DEFINE Adding(i) ==
             /\ Increasing(added[i]) /\ ToSet(added[i]) \subseteq ToSet(texts[i])
             /\ \A x \in ToSet(texts[i]) : x > plans[i].start + Overlap => x \in ToSet(added[i])
           Joining(i) ==
             /\ Increasing(joined[i])
             /\ \A x \in ToSet(joined[i]) :
                  x <= End(plans[i]) /\ (x \in ToSet(added[i]) \/ x <= plans[i].start + Overlap)
           Good == {i \in 0..n : i = 0 \/ (Adding(i) /\ Joining(i))}
<1>3. \A i \in 1..n : /\ added[i] \in Seq(Nat) /\ joined[i] \in Seq(Nat)
                      /\ ToSet(added[i]) \subseteq Nat /\ ToSet(joined[i]) \subseteq Nat
  <2>1. \A i \in 1..n : added[i] \in Seq(Nat) /\ joined[i] \in Seq(Nat)
    <3>1. \A i \in 1..n : i \in 0..n
      BY <1>1
    <3>2. QED BY <3>1
  <2>2. QED BY <2>1, ToSetIs
<1>4. \A i \in 1..n : /\ joined[i] = joined[i - 1] \o added[i]
                      /\ plans[i].needs_dedup => added[i] = DedupSeam(added[i - 1], texts[i])
                      /\ ~plans[i].needs_dedup => added[i] = texts[i]
  BY <1>2 DEF Adds, Joins
<1>5. ASSUME NEW i \in 1..n, i = 1
      PROVE  Adding(i) /\ Joining(i)
  <2>1. plans # <<>> /\ ~plans[1].needs_dedup
    <3>1. plans # <<>>
      BY <1>1, LenProperties
    <3>2. QED BY <3>1 DEF Laid
  <2>2. joined[0] = <<>>
    BY <1>2 DEF Joins
  <2>3. added[1] = texts[1] /\ joined[1] = <<>> \o added[1] /\ i - 1 = 0
    <3>1. 1 \in 1..n /\ 1 - 1 = 0 /\ i - 1 = 0
      BY <1>5
    <3>2. joined[1] = joined[1 - 1] \o added[1] /\ added[1] = texts[1]
      BY <1>4, <2>1, <3>1
    <3>3. QED BY <2>2, <3>1, <3>2
  <2>4. joined[1] = added[1]
    BY <1>3, <1>5, <2>3, ConcatEmptySeq
  <2>5. QED BY <1>5, <2>3, <2>4 DEF SaysOwn
<1>6. ASSUME NEW i \in 1..n, i # 1, Adding(i - 1) /\ Joining(i - 1), ~plans[i].needs_dedup
      PROVE  Adding(i) /\ Joining(i)
  <2>1. i - 1 \in 1..n /\ i - 1 \in 1 .. n - 1 /\ (i - 1) + 1 = i
    BY <1>1, <1>6
  <2>2. plans[i].start = End(plans[i - 1])
    BY <1>6, <2>1 DEF Laid, LiesAfter
  <2>3. added[i] = texts[i] /\ joined[i] = joined[i - 1] \o added[i]
    BY <1>4, <1>6
  <2>4. Increasing(added[i]) /\ \A y \in ToSet(added[i]) : plans[i].start < y /\ y <= End(plans[i])
    BY <2>3 DEF SaysOwn
  <2>5. /\ Increasing(joined[i - 1]) /\ \A x \in ToSet(joined[i - 1]) : x <= plans[i].start
    BY <1>6, <2>2
  <2>6. /\ added[i] \in Seq(Nat) /\ joined[i - 1] \in Seq(Nat) /\ ToSet(added[i]) \subseteq Nat
        /\ ToSet(joined[i - 1]) \subseteq Nat
    BY <1>3, <2>1
  <2>7. \A x \in ToSet(joined[i - 1]), y \in ToSet(added[i]) : x < y
    <3>1. plans[i].start \in Nat
      BY <1>1
    <3>2. QED BY <2>4, <2>5, <2>6, <3>1
  <2>8. Increasing(joined[i]) /\ ToSet(joined[i]) = ToSet(joined[i - 1]) \cup ToSet(added[i])
    BY <2>3, <2>4, <2>5, <2>6, <2>7, IncreasingConcat, ToSetOfConcat
  <2>9. \A x \in ToSet(joined[i - 1]) : x <= End(plans[i]) /\ x <= plans[i].start + Overlap
    <3>1. /\ plans[i].start \in Nat /\ plans[i].len \in Nat
          /\ End(plans[i]) = plans[i].start + plans[i].len
      BY <1>1
    <3>2. \A x \in Nat : x <= plans[i].start =>
                           x <= plans[i].start + plans[i].len /\ x <= plans[i].start + Overlap
      <4> DEFINE s == plans[i].start
                 l == plans[i].len
      <4>1. s \in Nat /\ l \in Nat /\ Overlap \in Nat
        BY <1>1, <3>1
      <4> HIDE DEF s, l
      <4>2. \A x \in Nat : x <= s => x <= s + l /\ x <= s + Overlap
        BY <4>1
      <4>3. QED BY <4>2 DEF s, l
    <3>3. QED BY <2>5, <2>6, <3>1, <3>2
  <2>10. QED BY <2>3, <2>4, <2>8, <2>9
<1>7. ASSUME NEW i \in 1..n, i # 1, Adding(i - 1) /\ Joining(i - 1), plans[i].needs_dedup
      PROVE  Adding(i) /\ Joining(i)
  <2> DEFINE from == plans[i].start
             to == End(plans[i - 1])
             prev == added[i - 1]
  <2>1. i - 1 \in 1..n /\ i - 1 \in 1 .. n - 1 /\ (i - 1) + 1 = i
    BY <1>1, <1>7
  <2>2. LiesAfter(plans[i - 1], plans[i]) /\ SeamAgrees(texts[i - 1], texts[i], from, to)
    BY <1>7, <2>1 DEF Laid, Agree
  <2>3. /\ from \in Nat /\ to \in Nat /\ plans[i - 1].start \in Nat
        /\ from + Overlap = to /\ plans[i - 1].start + Overlap <= from
        /\ to <= End(plans[i]) /\ End(plans[i]) \in Nat
    <3>1. from + Overlap = to /\ plans[i - 1].start + Overlap <= from /\ Overlap <= plans[i].len
      BY <1>7, <2>2 DEF LiesAfter
    <3>2. /\ from \in Nat /\ to \in Nat /\ plans[i - 1].start \in Nat /\ plans[i].len \in Nat
          /\ End(plans[i]) \in Nat /\ End(plans[i]) = from + plans[i].len
      BY <1>1, <2>1
    <3>3. QED BY <1>1, <3>1, <3>2
  <2>4. added[i] = DedupSeam(prev, texts[i]) /\ joined[i] = joined[i - 1] \o added[i]
    BY <1>4, <1>7
  <2>5. /\ prev \in Seq(Nat) /\ texts[i] \in Seq(Nat) /\ joined[i - 1] \in Seq(Nat)
        /\ added[i] \in Seq(Nat) /\ ToSet(prev) \subseteq Nat /\ ToSet(joined[i - 1]) \subseteq Nat
        /\ ToSet(texts[i - 1]) \subseteq Nat /\ ToSet(texts[i]) \subseteq Nat
        /\ ToSet(added[i]) \subseteq Nat
    BY <1>1, <1>3, <2>1
  <2>6. /\ Increasing(prev) /\ ToSet(prev) \subseteq ToSet(texts[i - 1])
        /\ \A x \in ToSet(texts[i - 1]) : x > plans[i - 1].start + Overlap => x \in ToSet(prev)
    BY <1>7
  <2>7. /\ Increasing(joined[i - 1]) /\ \A x \in ToSet(joined[i - 1]) : x <= to
        /\ \A x \in ToSet(joined[i - 1]) : x \in ToSet(prev) \/ x <= plans[i - 1].start + Overlap
    BY <1>7
  <2>8. /\ Increasing(texts[i]) /\ \A x \in ToSet(texts[i]) : from < x /\ x <= End(plans[i])
        /\ \A x \in ToSet(prev) : x <= to
    <3>1. Increasing(texts[i]) /\ \A x \in ToSet(texts[i]) : from < x /\ x <= End(plans[i])
      BY DEF SaysOwn
    <3>2. \A x \in ToSet(texts[i - 1]) : x <= to
      BY <2>1 DEF SaysOwn
    <3>3. QED BY <2>6, <3>1, <3>2
  <2> HIDE DEF from, to, prev, Adding, Joining, Good
  <2>9. SeamAgrees(prev, texts[i], from, to)
    <3>1. \A x \in ToSet(texts[i - 1]) : x > from => x > plans[i - 1].start + Overlap
      BY <1>1, <2>3, <2>5
    <3>2. {x \in ToSet(prev) : x > from} = {x \in ToSet(texts[i - 1]) : x > from}
      BY <2>6, <3>1
    <3>3. QED BY <2>2, <3>2 DEF SeamAgrees
  <2>10. to - from <= SeamWords
    BY <1>1, <2>3
  <2>11. Increasing(added[i]) /\ \A x \in ToSet(prev), y \in ToSet(added[i]) : x < y
    BY <2>3, <2>4, <2>5, <2>6, <2>8, <2>9, <2>10, SeamRemovesRepeats
  <2>12. /\ ToSet(added[i]) \subseteq ToSet(texts[i])
         /\ ToSet(texts[i]) \subseteq ToSet(added[i]) \cup ToSet(prev)
    BY <2>4, <2>5, DedupKeeps
  <2>13. \A x \in ToSet(joined[i - 1]), y \in ToSet(added[i]) : x < y
    <3> SUFFICES ASSUME NEW x \in ToSet(joined[i - 1]), NEW y \in ToSet(added[i]) PROVE x < y
      OBVIOUS
    <3>1. CASE x \in ToSet(prev)
      BY <2>11, <3>1
    <3>2. CASE x <= plans[i - 1].start + Overlap
      <4>1. from < y
        BY <2>8, <2>12
      <4>2. x \in Nat /\ y \in Nat
        BY <2>5
      <4>3. QED BY <1>1, <2>3, <3>2, <4>1, <4>2
    <3>3. QED BY <2>7, <3>1, <3>2
  <2>14. Increasing(joined[i]) /\ ToSet(joined[i]) = ToSet(joined[i - 1]) \cup ToSet(added[i])
    BY <2>4, <2>5, <2>7, <2>11, <2>13, IncreasingConcat, ToSetOfConcat
  <2>15. Joining(i)
    <3>1. \A x \in ToSet(joined[i - 1]) : x <= End(plans[i]) /\ x <= from + Overlap
      BY <2>3, <2>5, <2>7
    <3>2. \A x \in ToSet(added[i]) : x <= End(plans[i])
      BY <2>8, <2>12
    <3>3. QED BY <2>14, <3>1, <3>2 DEF Joining, from
  <2>16. Adding(i)
    <3>1. \A x \in ToSet(texts[i]) : x > from + Overlap => ~(x \in ToSet(prev))
      BY <2>3, <2>5, <2>8
    <3>2. \A x \in ToSet(texts[i]) : x > from + Overlap => x \in ToSet(added[i])
      BY <2>12, <3>1
    <3>3. QED BY <2>11, <2>12, <3>2 DEF Adding, from
  <2>17. QED BY <2>15, <2>16
<1>8. \A i \in 1..n : i - 1 \in Good => i \in Good
  <2> SUFFICES ASSUME NEW i \in 1..n, i - 1 \in Good PROVE i \in Good
    OBVIOUS
  <2>1. i \in 0..n /\ (i # 1 => i - 1 # 0)
    BY <1>1
  <2>2. i # 1 => Adding(i - 1) /\ Joining(i - 1)
    BY <2>1
  <2>3. Adding(i) /\ Joining(i)
    <3> HIDE DEF Adding, Joining, Good
    <3>1. QED BY <1>5, <1>6, <1>7, <2>2
  <2> HIDE DEF Adding, Joining
  <2>4. QED BY <2>1, <2>3
<1>9. 0..n \subseteq Good /\ n \in 0..n
  <2>1. n \in Nat /\ n \in 0..n /\ 0 \in 0..n
    BY <1>1
  <2>2. 0 \in Good
    <3> HIDE DEF Adding, Joining, n
    <3>1. QED BY <2>1
  <2> HIDE DEF Good, n
  <2>3. QED BY <1>8, <2>1, <2>2, Induction
<1>10. n = 0 \/ Joining(n)
  BY <1>9
<1>11. CASE n = 0
  <2>1. joined[0] = <<>>
    BY <1>2 DEF Joins
  <2>2. QED BY <1>2, <1>11, <2>1 DEF Increasing
<1>12. CASE Joining(n)
  BY <1>2, <1>12
<1>13. QED BY <1>10, <1>11, <1>12

-----------------------------------------------------------------------------
(* What is said.  Pieces of a recording, and the words between two points.  *)
Piece(heard, from, to) == SubSeq(heard, from + 1, to)
Between(heard, from, to) == {heard[k] : k \in from + 1 .. to} \ {Quiet}

LEMMA PieceIs ==
  ASSUME NEW S, NEW heard \in Seq(S), NEW from \in Nat, NEW to \in Nat,
         from <= to, to <= Len(heard)
  PROVE  /\ Piece(heard, from, to) \in Seq(S) /\ Len(Piece(heard, from, to)) = to - from
         /\ \A i \in 1 .. to - from : Piece(heard, from, to)[i] = heard[from + i]
<1>1. Len(heard) \in Nat
  BY LenProperties
<1>2. \A i \in from + 1 .. to : heard[i] \in S
  <2>1. \A i \in from + 1 .. to : i \in 1..Len(heard)
    BY <1>1
  <2>2. QED BY <2>1, ElementOfSeq
<1>3. /\ SubSeq(heard, from + 1, to) \in Seq(S)
      /\ Len(SubSeq(heard, from + 1, to)) = IF from + 1 <= to THEN to - (from + 1) + 1 ELSE 0
      /\ \A i \in 1 .. to - (from + 1) + 1 : SubSeq(heard, from + 1, to)[i] = heard[from + 1 + i - 1]
  <2>1. from + 1 \in Int /\ to \in Int
    OBVIOUS
  <2>2. QED BY <1>2, <2>1, SubSeqProperties
<1>4. /\ to - (from + 1) + 1 = to - from /\ (from + 1 <= to \/ to - from = 0)
      /\ \A i \in 1 .. to - from : from + 1 + i - 1 = from + i
  OBVIOUS
<1>5. \A i \in 1 .. to - from : SubSeq(heard, from + 1, to)[i] = heard[from + i]
  <2> SUFFICES ASSUME NEW i \in 1 .. to - from
               PROVE  SubSeq(heard, from + 1, to)[i] = heard[from + i]
    OBVIOUS
  <2>1. i \in 1 .. to - (from + 1) + 1 /\ from + 1 + i - 1 = from + i
    BY <1>4
  <2>2. SubSeq(heard, from + 1, to)[i] = heard[from + 1 + i - 1]
    BY <1>3, <2>1
  <2>3. QED BY <2>1, <2>2
<1>6. Len(SubSeq(heard, from + 1, to)) = to - from
  BY <1>3, <1>4
<1>7. QED BY <1>3, <1>5, <1>6 DEF Piece

LEMMA PieceOfPiece ==
  ASSUME NEW S, NEW heard \in Seq(S), NEW from \in Nat, NEW to \in Nat,
         from <= to, to <= Len(heard),
         NEW a \in Nat, NEW b \in Nat, a <= b, b <= to - from
  PROVE  Piece(Piece(heard, from, to), a, b) = Piece(heard, from + a, from + b)
<1> DEFINE piece == Piece(heard, from, to)
<1>1. /\ piece \in Seq(S) /\ Len(piece) = to - from
      /\ \A i \in 1 .. to - from : piece[i] = heard[from + i]
  BY PieceIs
<1>2. Len(heard) \in Nat
  BY LenProperties
<1>3. /\ from + a \in Nat /\ from + b \in Nat /\ from + a <= from + b /\ from + b <= Len(heard)
      /\ (from + b) - (from + a) = b - a /\ b <= Len(piece)
  BY <1>1, <1>2
<1>4. /\ Piece(heard, from + a, from + b) \in Seq(S)
      /\ Len(Piece(heard, from + a, from + b)) = (from + b) - (from + a)
      /\ \A i \in 1 .. (from + b) - (from + a) :
           Piece(heard, from + a, from + b)[i] = heard[(from + a) + i]
  <2> DEFINE lo == from + a
             hi == from + b
  <2>1. lo \in Nat /\ hi \in Nat /\ lo <= hi /\ hi <= Len(heard)
    BY <1>3
  <2> HIDE DEF lo, hi
  <2>2. /\ Piece(heard, lo, hi) \in Seq(S) /\ Len(Piece(heard, lo, hi)) = hi - lo
        /\ \A i \in 1 .. hi - lo : Piece(heard, lo, hi)[i] = heard[lo + i]
    BY <2>1, PieceIs
  <2>3. QED BY <2>2 DEF lo, hi
<1> HIDE DEF piece
<1>5. /\ Piece(piece, a, b) \in Seq(S) /\ Len(Piece(piece, a, b)) = b - a
      /\ \A i \in 1 .. b - a : Piece(piece, a, b)[i] = piece[a + i]
  <2>1. piece \in Seq(S) /\ b <= Len(piece)
    BY <1>1, <1>3
  <2>2. QED BY <2>1, PieceIs
<1>6. \A i \in 1 .. b - a : a + i \in 1 .. to - from /\ from + (a + i) = (from + a) + i
  OBVIOUS
<1>7. \A i \in 1 .. b - a : Piece(piece, a, b)[i] = Piece(heard, from + a, from + b)[i]
  <2> SUFFICES ASSUME NEW i \in 1 .. b - a
               PROVE  Piece(piece, a, b)[i] = Piece(heard, from + a, from + b)[i]
    OBVIOUS
  <2>1. i \in 1 .. (from + b) - (from + a) /\ a + i \in 1 .. to - from
        /\ from + (a + i) = (from + a) + i
    BY <1>3, <1>6
  <2>2. Piece(piece, a, b)[i] = heard[from + (a + i)]
    BY <1>1, <1>5, <2>1
  <2>3. Piece(heard, from + a, from + b)[i] = heard[(from + a) + i]
    BY <1>4, <2>1
  <2>4. QED BY <2>1, <2>2, <2>3
<1>8. Piece(piece, a, b) = Piece(heard, from + a, from + b)
  <2>1. Len(Piece(piece, a, b)) = Len(Piece(heard, from + a, from + b))
    BY <1>3, <1>4, <1>5
  <2>2. \A i \in 1..Len(Piece(piece, a, b)) :
          Piece(piece, a, b)[i] = Piece(heard, from + a, from + b)[i]
    BY <1>5, <1>7
  <2>3. QED BY <1>4, <1>5, <2>1, <2>2, SeqEqual
<1>9. QED BY <1>8 DEF piece

LEMMA PieceStays ==
  ASSUME NEW S, NEW heard \in Seq(S), NEW u \in S, NEW from \in Nat, NEW to \in Nat,
         from <= to, to <= Len(heard)
  PROVE  /\ Piece(Append(heard, u), from, to) = Piece(heard, from, to)
         /\ Between(Append(heard, u), from, to) = Between(heard, from, to)
<1> DEFINE more == Append(heard, u)
<1>1. /\ more \in Seq(S) /\ Len(more) = Len(heard) + 1 /\ Len(heard) \in Nat
      /\ \A i \in 1..Len(heard) : more[i] = heard[i]
  BY AppendProperties, LenProperties
<1> HIDE DEF more
<1>2. to <= Len(more)
  BY <1>1
<1>3. /\ Piece(more, from, to) \in Seq(S) /\ Len(Piece(more, from, to)) = to - from
      /\ \A i \in 1 .. to - from : Piece(more, from, to)[i] = more[from + i]
  <2>1. more \in Seq(S)
    BY <1>1
  <2>2. QED BY <1>2, <2>1, PieceIs
<1>4. /\ Piece(heard, from, to) \in Seq(S) /\ Len(Piece(heard, from, to)) = to - from
      /\ \A i \in 1 .. to - from : Piece(heard, from, to)[i] = heard[from + i]
  BY PieceIs
<1>5. \A i \in 1 .. to - from : from + i \in 1..Len(heard)
  BY <1>1
<1>6. \A i \in 1 .. to - from : Piece(more, from, to)[i] = Piece(heard, from, to)[i]
  BY <1>1, <1>3, <1>4, <1>5
<1>7. Piece(more, from, to) = Piece(heard, from, to)
  BY <1>3, <1>4, <1>6, SeqEqual
<1>8. \A k \in from + 1 .. to : k \in 1..Len(heard)
  BY <1>1
<1>9. \A k \in from + 1 .. to : more[k] = heard[k]
  BY <1>1, <1>8
<1>10. Between(more, from, to) = Between(heard, from, to)
  BY <1>9 DEF Between
<1>11. QED BY <1>7, <1>10 DEF more

(* The words of a piece; when each word is the number of its unit, they     *)
(* grow.                                                                    *)
Distinct(heard) == \A k \in 1..Len(heard) : heard[k] \in {Quiet, k}

LEMMA PieceSays ==
  ASSUME NEW heard \in Seq(Nat), NEW from \in Nat, NEW to \in Nat,
         from <= to, to <= Len(heard)
  PROVE  /\ Words(Piece(heard, from, to)) \in Seq(Nat)
         /\ ToSet(Words(Piece(heard, from, to))) = Between(heard, from, to)
         /\ Distinct(heard) => Increasing(Words(Piece(heard, from, to)))
<1> DEFINE piece == Piece(heard, from, to)
<1>1. /\ piece \in Seq(Nat) /\ Len(piece) = to - from
      /\ \A i \in 1 .. to - from : piece[i] = heard[from + i]
  BY PieceIs
<1> HIDE DEF piece
<1>2. Words(piece) \in Seq(Nat)
  BY <1>1, WordsAreASequence
<1>3. ToSet(Words(piece)) = Between(heard, from, to)
  <2>1. ToSet(Words(piece)) = {piece[i] : i \in 1 .. to - from} \ {Quiet}
    BY <1>1, WordsAreThoseSaid
  <2>2. \A i \in 1 .. to - from : from + i \in from + 1 .. to
    OBVIOUS
  <2>3. \A k \in from + 1 .. to : k - from \in 1 .. to - from /\ from + (k - from) = k
    OBVIOUS
  <2>4. {piece[i] : i \in 1 .. to - from} \subseteq {heard[k] : k \in from + 1 .. to}
    BY <1>1, <2>2
  <2>5. {heard[k] : k \in from + 1 .. to} \subseteq {piece[i] : i \in 1 .. to - from}
    <3> SUFFICES ASSUME NEW k \in from + 1 .. to
                 PROVE  heard[k] \in {piece[i] : i \in 1 .. to - from}
      OBVIOUS
    <3>1. piece[k - from] = heard[from + (k - from)]
      BY <1>1, <2>3
    <3>2. QED BY <2>3, <3>1
  <2>6. QED BY <2>1, <2>4, <2>5 DEF Between
<1>4. ASSUME Distinct(heard) PROVE Increasing(Words(piece))
  <2>1. \A i \in 1 .. to - from : from + i \in 1..Len(heard)
    <3>1. Len(heard) \in Nat
      BY LenProperties
    <3>2. QED BY <3>1
  <2>2. \A i \in 1..Len(piece) : piece[i] = Quiet \/ piece[i] = from + i
    BY <1>1, <1>4, <2>1 DEF Distinct
  <2>3. QED BY <1>1, <2>2, WordsGrow
<1>5. QED BY <1>2, <1>3, <1>4 DEF piece

LEMMA BetweenIs ==
  ASSUME NEW heard \in Seq(Nat), NEW from \in Nat, NEW to \in Nat, to <= Len(heard)
  PROVE  /\ Between(heard, from, to) \subseteq Nat
         /\ Distinct(heard) =>
              \A x \in Between(heard, from, to) :
                 from < x /\ x <= to /\ x \in 1..Len(heard) /\ x = heard[x] /\ x # Quiet
<1>1. Len(heard) \in Nat /\ \A k \in 1..Len(heard) : heard[k] \in Nat
  BY ToSetIs
<1>2. \A k \in from + 1 .. to : k \in 1..Len(heard) /\ from < k /\ k <= to
  BY <1>1
<1>3. Between(heard, from, to) \subseteq Nat
  BY <1>1, <1>2 DEF Between
<1>4. ASSUME Distinct(heard), NEW x \in Between(heard, from, to)
      PROVE  from < x /\ x <= to /\ x \in 1..Len(heard) /\ x = heard[x] /\ x # Quiet
  <2>1. PICK k \in from + 1 .. to : heard[k] = x /\ x # Quiet
    BY DEF Between
  <2>2. x = k
    BY <1>2, <1>4, <2>1 DEF Distinct
  <2>3. QED BY <1>2, <2>1, <2>2
<1>5. QED BY <1>3, <1>4

LEMMA BetweenJoins ==
  ASSUME NEW heard, NEW from \in Nat, NEW mid \in Nat, NEW to \in Nat, from <= mid, mid <= to
  PROVE  Between(heard, from, to) = Between(heard, from, mid) \cup Between(heard, mid, to)
<1>1. from + 1 .. to = from + 1 .. mid \cup mid + 1 .. to
  OBVIOUS
<1>2. QED BY <1>1 DEF Between

(* A word between two points lies between any two points around it.         *)
LEMMA BetweenHas ==
  ASSUME NEW heard \in Seq(Nat), Distinct(heard), NEW from \in Nat, NEW to \in Nat,
         to <= Len(heard), NEW x \in Between(heard, from, to),
         NEW a \in Nat, NEW b \in Nat, a < x, x <= b
  PROVE  x \in Between(heard, a, b)
<1>1. x = heard[x] /\ x # Quiet /\ x \in 1..Len(heard)
  BY BetweenIs
<1>2. x \in a + 1 .. b
  BY <1>1
<1>3. QED BY <1>1, <1>2 DEF Between

-----------------------------------------------------------------------------
(* How the chunks planned lie to each other.                                *)

LEMMA CutIsLate ==
  ASSUME NEW buf
  PROVE  CutWindowMin < PlanCut(buf).at
<1> DEFINE quiet == {i \in CutWindowMin + 1 .. SinglePassMax : buf[i] = Quiet}
<1> USE ChunkingAssumption
<1>1. CASE quiet = {}
  <2>1. PlanCut(buf) = [at |-> SinglePassMax, kind |-> "Hard"]
    BY <1>1 DEF PlanCut
  <2>2. QED BY <2>1
<1>2. CASE quiet # {}
  <2>1. PlanCut(buf) = [at |-> Min(quiet), kind |-> "Silence"]
    BY <1>2 DEF PlanCut
  <2>2. Min(quiet) \in quiet
    BY <1>2, MinOfNumbers
  <2>3. QED BY <2>1, <2>2
<1>3. QED BY <1>1, <1>2

(* A chunk begins where the one before it ends, or in its overlap.          *)
LEMMA NextLies ==
  ASSUME NEW heard, Len(heard) \in Nat, NEW p \in PlanRecords, NEW q \in PlanRecords,
         Follows(heard, p, q), 2 * Overlap <= SinglePassMax,
         IsLast(heard, q) \/ \E start, dedup : CutTo(heard, q, start, dedup)
  PROVE  LiesAfter(p, q) /\ Overlap <= p.len
<1> DEFINE cut == PlanCut(Rest(heard, p.start))
           a == p.start
           b == q.start
           l == p.len
           m == q.len
           n == Len(heard)
           at == cut.at
           adv == Advance(cut)
<1>1. /\ n - a > SinglePassMax /\ l = at /\ b = a + adv
      /\ q.needs_dedup = (cut.kind = "Hard")
  BY DEF Follows, CutTo
<1>2. a \in Nat /\ b \in Nat /\ l \in Nat /\ m \in Nat /\ n \in Nat
  BY DEF PlanRecords
<1>3. /\ at \in 1..SinglePassMax /\ CutWindowMin < at /\ cut.kind \in {"Silence", "Hard"}
      /\ adv \in 1..SinglePassMax
      /\ cut.kind = "Hard" => at = SinglePassMax /\ adv = SinglePassMax - Overlap
      /\ cut.kind = "Silence" => adv = at
  BY CutIs, CutIsLate
<1>4. (m = n - b /\ b < n) \/ CutWindowMin < m
  BY CutIsLate DEF IsLast, CutTo
<1>5. End(p) = a + l /\ End(q) = b + m
  BY DEF End
<1> HIDE DEF cut, a, b, l, m, n, at, adv
<1>6. Overlap <= l
  BY <1>1, <1>2, <1>3, ChunkingAssumption
<1>7. CASE cut.kind = "Hard"
  <2>1. b + Overlap = a + l /\ a + Overlap <= b
    BY <1>1, <1>2, <1>3, <1>7, ChunkingAssumption
  <2>2. Overlap <= m
    <3>1. n > a + l
      BY <1>1, <1>2, <1>3, <1>7, ChunkingAssumption
    <3>2. QED BY <1>2, <1>4, <2>1, <3>1, ChunkingAssumption
  <2>3. q.needs_dedup
    BY <1>1, <1>7
  <2>4. p.start = a /\ q.start = b /\ q.len = m /\ p.len = l
    BY DEF a, b, m, l
  <2>5. QED BY <1>5, <1>6, <2>1, <2>2, <2>3, <2>4 DEF LiesAfter
<1>8. CASE cut.kind # "Hard"
  <2>1. b = a + l
    BY <1>1, <1>3, <1>8
  <2>2. ~q.needs_dedup
    BY <1>1, <1>8
  <2>3. QED BY <1>5, <1>6, <2>1, <2>2 DEF LiesAfter, a, b, l
<1>9. QED BY <1>7, <1>8

LEMMA PlannedAreLaid ==
  ASSUME NEW heard, Len(heard) \in Nat, NEW made, Planned(heard, 0, FALSE, made),
         2 * Overlap <= SinglePassMax
  PROVE  /\ Laid(made) /\ made \in Seq(PlanRecords)
         /\ \A i \in 1 .. Len(made) - 1 : Overlap <= made[i].len
<1>1. /\ made \in Seq(PlanRecords) /\ Len(made) \in Nat /\ Len(made) > 0
      /\ made[1].needs_dedup = FALSE
      /\ \A i \in 1 .. Len(made) - 1 : Follows(heard, made[i], made[i + 1])
      /\ IsLast(heard, made[Len(made)])
  BY LenProperties DEF Planned
<1>2. ASSUME NEW i \in 1 .. Len(made) - 1
      PROVE  LiesAfter(made[i], made[i + 1]) /\ Overlap <= made[i].len
  <2>1. i \in 1..Len(made) /\ i + 1 \in 1..Len(made)
    BY <1>1
  <2>2. made[i] \in PlanRecords /\ made[i + 1] \in PlanRecords
    BY <1>1, <2>1, ElementOfSeq
  <2>3. IsLast(heard, made[i + 1]) \/ \E start, dedup : CutTo(heard, made[i + 1], start, dedup)
    <3>1. CASE i + 1 = Len(made)
      BY <1>1, <3>1
    <3>2. CASE i + 1 # Len(made)
      <4>1. i + 1 \in 1 .. Len(made) - 1
        BY <1>1, <2>1, <3>2
      <4>2. Follows(heard, made[i + 1], made[(i + 1) + 1])
        BY <1>1, <4>1
      <4>3. QED BY <4>2 DEF Follows
    <3>3. QED BY <3>1, <3>2
  <2>4. Follows(heard, made[i], made[i + 1])
    BY <1>1
  <2> DEFINE p == made[i]
             q == made[i + 1]
  <2>5. /\ p \in PlanRecords /\ q \in PlanRecords /\ Follows(heard, p, q)
        /\ (IsLast(heard, q) \/ \E start, dedup : CutTo(heard, q, start, dedup))
    BY <2>2, <2>3, <2>4
  <2> HIDE DEF p, q
  <2>6. LiesAfter(p, q) /\ Overlap <= p.len
    BY <2>5, NextLies
  <2>7. QED BY <2>6 DEF p, q
<1>3. QED BY <1>1, <1>2 DEF Laid

(* Every unit of the recording is in a chunk.                               *)
LEMMA PlannedCover ==
  ASSUME NEW heard, Len(heard) \in Nat, NEW made, Planned(heard, 0, FALSE, made),
         NEW k \in 1..Len(heard)
  PROVE  \E i \in 1..Len(made) : made[i].start < k /\ k <= End(made[i])
<1>1. /\ made \in Seq(PlanRecords) /\ Len(made) \in Nat /\ Len(made) > 0
      /\ made[1].start = 0
      /\ \A i \in 1 .. Len(made) - 1 : Follows(heard, made[i], made[i + 1])
      /\ IsLast(heard, made[Len(made)])
  BY LenProperties DEF Planned
<1>2. \A i \in 1..Len(made) : /\ made[i].start \in Nat /\ made[i].len \in Nat
                              /\ End(made[i]) = made[i].start + made[i].len
  <2>1. \A i \in 1..Len(made) : made[i] \in PlanRecords
    BY <1>1, ElementOfSeq
  <2>2. QED BY <2>1 DEF PlanRecords, End
<1> DEFINE T == {i \in 1..Len(made) : made[i].start < k}
<1>3. T \in SUBSET Nat /\ 1 \in T
  BY <1>1
<1>4. PICK i \in T : \A j \in T : j <= i
  <2>1. T # {} /\ \A j \in T : j <= Len(made)
    BY <1>3
  <2> HIDE DEF T
  <2>2. QED BY <1>1, <1>3, <2>1, GreatestNumber
<1>5. i \in 1..Len(made) /\ made[i].start < k
  OBVIOUS
<1>6. CASE i = Len(made)
  <2>1. made[i].len = Len(heard) - made[i].start
    BY <1>1, <1>6 DEF IsLast
  <2>2. k <= End(made[i])
    BY <1>2, <1>5, <2>1
  <2>3. QED BY <1>5, <2>2
<1>7. CASE i # Len(made)
  <2>1. i \in 1 .. Len(made) - 1 /\ i + 1 \in 1..Len(made) /\ i + 1 > i
    BY <1>1, <1>5, <1>7
  <2>2. ~(made[i + 1].start < k)
    <3>1. i + 1 \notin T
      BY <1>4, <2>1
    <3>2. QED BY <2>1, <3>1
  <2> DEFINE cut == PlanCut(Rest(heard, made[i].start))
  <2>3. made[i].len = cut.at /\ made[i + 1].start = made[i].start + Advance(cut)
    BY <1>1, <2>1 DEF Follows, CutTo
  <2>4. Advance(cut) <= cut.at /\ Advance(cut) \in Nat
    BY CutIs
  <2> HIDE DEF cut
  <2> DEFINE a == made[i].start
             b == made[i + 1].start
             l == made[i].len
             adv == Advance(cut)
  <2>5. /\ a \in Nat /\ b \in Nat /\ l \in Nat /\ adv \in Nat /\ b = a + adv /\ adv <= l
        /\ ~(b < k) /\ End(made[i]) = a + l
    BY <1>2, <1>5, <2>1, <2>2, <2>3, <2>4
  <2> HIDE DEF a, b, l, adv
  <2>6. k <= a + l
    BY <2>5
  <2>7. QED BY <1>5, <2>5, <2>6
<1>8. QED BY <1>6, <1>7

(* What a chunk's text may be: words of the chunk, all of them but those    *)
(* unheard, and all or none of those a seam may share.                      *)
SaysItsOwn(text, p, heard) == ToSet(text) \subseteq Between(heard, p.start, End(p))
SaysAll(text, p, heard, deaf) == Between(heard, p.start, End(p)) \subseteq ToSet(text) \cup deaf
SaysWholeSeams(text, p, heard) ==
  /\ \/ Between(heard, p.start, p.start + Overlap) \subseteq ToSet(text)
     \/ \A x \in ToSet(text) : p.start + Overlap < x
  /\ \/ Between(heard, End(p) - Overlap, End(p)) \subseteq ToSet(text)
     \/ \A x \in ToSet(text) : x <= End(p) - Overlap

(* Two chunks' texts agree where they overlap.                              *)
LEMMA WholeSeamsAgree ==
  ASSUME NEW heard \in Seq(Nat), Distinct(heard), NEW p \in PlanRecords, NEW q \in PlanRecords,
         LiesAfter(p, q), q.needs_dedup, Overlap <= p.len,
         End(p) <= Len(heard), End(q) <= Len(heard),
         NEW prev, SaysItsOwn(prev, p, heard), SaysWholeSeams(prev, p, heard),
         NEW next, SaysItsOwn(next, q, heard), SaysWholeSeams(next, q, heard)
  PROVE  SeamAgrees(prev, next, q.start, End(p))
<1> DEFINE from == q.start
           to == End(p)
<1>1. /\ from \in Nat /\ to \in Nat /\ p.start \in Nat /\ End(q) \in Nat
      /\ End(q) <= Len(heard) /\ to <= Len(heard) /\ heard \in Seq(Nat)
      /\ from + Overlap = to /\ p.start <= from /\ Overlap \in Nat
      /\ Overlap <= p.len /\ Overlap <= q.len /\ to <= End(q)
  <2>1. LiesAfter(p, q) /\ q.needs_dedup /\ Overlap <= p.len
    OBVIOUS
  <2>2. from + Overlap = to /\ p.start + Overlap <= from /\ Overlap <= q.len
    BY <2>1 DEF LiesAfter
  <2>3. /\ from \in Nat /\ to \in Nat /\ p.start \in Nat /\ End(q) \in Nat
        /\ End(q) <= Len(heard) /\ to <= Len(heard) /\ heard \in Seq(Nat) /\ q.len \in Nat
        /\ End(q) = from + q.len /\ Overlap \in Nat
    BY ChunkingAssumption DEF PlanRecords, End
  <2>4. p.start <= from /\ to <= End(q)
    <3> DEFINE a == p.start
               b == q.start
               m == q.len
    <3>1. /\ a \in Nat /\ b \in Nat /\ m \in Nat /\ Overlap \in Nat /\ b + Overlap = to
          /\ a + Overlap <= b /\ Overlap <= m /\ End(q) = b + m /\ from = b
      BY <2>2, <2>3
    <3> HIDE DEF a, b, m, from, to
    <3>2. a <= b /\ b + Overlap <= b + m
      BY <3>1
    <3>3. a <= from /\ to <= End(q)
      BY <3>1, <3>2
    <3>4. QED BY <3>3 DEF a
  <2>5. QED BY <2>1, <2>2, <2>3, <2>4
<1>2. /\ ToSet(prev) \subseteq Between(heard, p.start, to)
      /\ SaysWholeSeams(prev, p, heard)
  BY DEF SaysItsOwn
<1>3. /\ ToSet(next) \subseteq Between(heard, from, End(q))
      /\ SaysWholeSeams(next, q, heard)
  BY DEF SaysItsOwn
<1>4. to - Overlap = from
  BY <1>1
<1>5. \/ Between(heard, from, to) \subseteq ToSet(prev)
      \/ \A x \in ToSet(prev) : x <= from
  BY <1>2, <1>4 DEF SaysWholeSeams
<1>6. \/ Between(heard, from, to) \subseteq ToSet(next)
      \/ \A x \in ToSet(next) : to < x
  BY <1>1, <1>3 DEF SaysWholeSeams
<1>7. /\ \A x \in Between(heard, p.start, to) : x \in Nat /\ x <= to
      /\ \A x \in Between(heard, from, End(q)) : x \in Nat /\ from < x
      /\ \A x \in Between(heard, from, to) : x \in Nat /\ from < x /\ x <= to
  <2> HIDE DEF from, to
  <2>1. QED BY <1>1, BetweenIs
<1>8. CASE \A x \in ToSet(prev) : x <= from
  <2>1. {x \in ToSet(prev) : x > from} = {}
    BY <1>1, <1>2, <1>7, <1>8
  <2>2. QED BY <2>1 DEF SeamAgrees
<1>9. CASE \A x \in ToSet(next) : to < x
  <2>1. {x \in ToSet(next) : x <= to} = {}
    BY <1>1, <1>3, <1>7, <1>9
  <2>2. QED BY <2>1 DEF SeamAgrees
<1>10. CASE Between(heard, from, to) \subseteq ToSet(prev) \cap ToSet(next)
  <2>1. {x \in ToSet(prev) : x > from} = Between(heard, from, to)
    <3>1. \A x \in Between(heard, p.start, to) : x > from => x \in Between(heard, from, to)
      <4> HIDE DEF from, to
      <4>1. QED BY <1>1, <1>7, BetweenHas
    <3>2. \A x \in ToSet(prev) : x > from => x \in Between(heard, from, to)
      BY <1>2, <3>1
    <3>3. \A x \in Between(heard, from, to) : x \in ToSet(prev) /\ x > from
      BY <1>1, <1>7, <1>10
    <3> HIDE DEF from, to
    <3>4. QED BY <3>2, <3>3
  <2>2. {x \in ToSet(next) : x <= to} = Between(heard, from, to)
    <3>1. \A x \in Between(heard, from, End(q)) : x <= to => x \in Between(heard, from, to)
      <4> HIDE DEF from, to
      <4>1. QED BY <1>1, <1>7, BetweenHas
    <3>2. \A x \in ToSet(next) : x <= to => x \in Between(heard, from, to)
      BY <1>3, <3>1
    <3>3. \A x \in Between(heard, from, to) : x \in ToSet(next) /\ x <= to
      BY <1>1, <1>7, <1>10
    <3> HIDE DEF from, to
    <3>4. QED BY <3>2, <3>3
  <2>3. QED BY <2>1, <2>2 DEF SeamAgrees
<1>11. QED BY <1>5, <1>6, <1>8, <1>9, <1>10

-----------------------------------------------------------------------------
(* The batch path: the whole recording planned, transcribed and assembled.  *)

(* No chunk goes beyond the recording.                                      *)
LEMMA PlannedWithin ==
  ASSUME NEW heard, Len(heard) \in Nat, NEW made, Planned(heard, 0, FALSE, made),
         NEW i \in 1..Len(made)
  PROVE  /\ made[i] \in PlanRecords /\ made[i].start \in Nat /\ made[i].len \in Nat
         /\ End(made[i]) = made[i].start + made[i].len /\ End(made[i]) <= Len(heard)
<1>1. /\ made \in Seq(PlanRecords) /\ Len(made) \in Nat
      /\ \A k \in 1 .. Len(made) - 1 : Follows(heard, made[k], made[k + 1])
      /\ IsLast(heard, made[Len(made)])
  BY LenProperties DEF Planned
<1>2. made[i] \in PlanRecords
  BY <1>1, ElementOfSeq
<1>3. /\ made[i].start \in Nat /\ made[i].len \in Nat
      /\ End(made[i]) = made[i].start + made[i].len
  BY <1>2 DEF PlanRecords, End
<1>4. CASE i = Len(made)
  BY <1>1, <1>3, <1>4 DEF IsLast
<1>5. CASE i # Len(made)
  <2>1. i \in 1 .. Len(made) - 1
    BY <1>1, <1>5
  <2>2. CutTo(heard, made[i], made[i + 1].start, made[i + 1].needs_dedup)
    BY <1>1, <2>1 DEF Follows
  <2> DEFINE cut == PlanCut(Rest(heard, made[i].start))
  <2>3. made[i].len = cut.at /\ Len(heard) - made[i].start > SinglePassMax
    BY <2>2 DEF CutTo
  <2>4. cut.at \in 1..SinglePassMax
    BY CutIs
  <2> HIDE DEF cut
  <2>5. QED BY <1>2, <1>3, <2>3, <2>4, ChunkingAssumption
<1>6. QED BY <1>2, <1>3, <1>4, <1>5

(* The words of a chunk are its own, all of them, in order.                 *)
LEMMA ChunkSays ==
  ASSUME NEW audio \in Seq(Nat), NEW p \in PlanRecords, End(p) <= Len(audio), NEW deaf,
         NEW text, \/ text = Words(Span(audio, p))
                   \/ text = <<>> /\ ToSet(Words(Span(audio, p))) \subseteq deaf
  PROVE  /\ text \in Seq(Nat) /\ SaysItsOwn(text, p, audio) /\ SaysAll(text, p, audio, deaf)
         /\ Distinct(audio) => Increasing(text)
         /\ Overlap <= p.len => SaysWholeSeams(text, p, audio)
<1>1. /\ p.start \in Nat /\ p.len \in Nat /\ End(p) \in Nat /\ End(p) = p.start + p.len
      /\ p.start <= End(p) /\ Overlap \in Nat
  BY ChunkingAssumption DEF PlanRecords, End
<1>2. Span(audio, p) = Piece(audio, p.start, End(p))
  BY DEF Span, Piece, End
<1>3. /\ Words(Span(audio, p)) \in Seq(Nat)
      /\ ToSet(Words(Span(audio, p))) = Between(audio, p.start, End(p))
      /\ Distinct(audio) => Increasing(Words(Span(audio, p)))
  BY <1>1, <1>2, PieceSays
<1>4. CASE text = Words(Span(audio, p))
  <2>1. SaysItsOwn(text, p, audio) /\ SaysAll(text, p, audio, deaf)
    BY <1>3, <1>4 DEF SaysItsOwn, SaysAll
  <2>2. ASSUME Overlap <= p.len PROVE SaysWholeSeams(text, p, audio)
    <3>1. /\ p.start + Overlap \in Nat /\ p.start + Overlap <= End(p)
          /\ End(p) - Overlap \in Nat /\ p.start <= End(p) - Overlap
      BY <1>1, <2>2
    <3>2. p.start + 1 .. p.start + Overlap \subseteq p.start + 1 .. End(p)
      BY <1>1, <3>1
    <3>3. (End(p) - Overlap) + 1 .. End(p) \subseteq p.start + 1 .. End(p)
      BY <1>1, <3>1
    <3>4. Between(audio, p.start, p.start + Overlap) \subseteq Between(audio, p.start, End(p))
      BY <3>2 DEF Between
    <3>5. Between(audio, End(p) - Overlap, End(p)) \subseteq Between(audio, p.start, End(p))
      BY <3>3 DEF Between
    <3>6. QED BY <1>3, <1>4, <3>4, <3>5 DEF SaysWholeSeams
  <2>3. QED BY <1>3, <1>4, <2>1, <2>2
<1>5. CASE text = <<>> /\ ToSet(Words(Span(audio, p))) \subseteq deaf
  <2>1. ToSet(text) = {} /\ Increasing(text) /\ text \in Seq(Nat)
    BY <1>5, EmptySeq DEF ToSet, Increasing
  <2>2. QED BY <1>3, <1>5, <2>1 DEF SaysItsOwn, SaysAll, SaysWholeSeams
<1>6. QED BY <1>4, <1>5

(* When the chunks of a recording are transcribed each to its own words, or *)
(* to nothing, their transcripts assembled are the words of the recording,  *)
(* those in chunks that gave nothing aside: the seams lose none and repeat  *)
(* none (plan_chunks, assemble; words differ, a chunk is longer than two    *)
(* overlaps and a seam is compared over as many words as one may hold).     *)
THEOREM BatchIsWhole ==
  ASSUME 2 * Overlap <= SinglePassMax, Overlap <= SeamWords,
         NEW audio \in Seq(Nat), Distinct(audio), NEW deaf,
         NEW texts \in [1..Len(PlanChunks(audio)) -> Seq(Nat)],
         \A i \in 1..Len(PlanChunks(audio)) :
           \/ texts[i] = Words(Span(audio, PlanChunks(audio)[i]))
           \/ texts[i] = <<>> /\ ToSet(Words(Span(audio, PlanChunks(audio)[i]))) \subseteq deaf
  PROVE  Without(Assemble(PlanChunks(audio), texts), deaf) = Without(Words(audio), deaf)
<1> DEFINE plans == PlanChunks(audio)
           n == Len(plans)
           text == Assemble(plans, texts)
           spoken == {audio[k] : k \in 1..Len(audio)} \ {Quiet}
<1>1. Len(audio) \in Nat /\ \A k \in 1..Len(audio) : audio[k] \in Nat
  BY ToSetIs
<1>2. /\ Len(audio) > 0 => Planned(audio, 0, FALSE, plans)
      /\ Len(audio) = 0 => plans = <<>>
  BY <1>1, PlanChunksPlans
<1>3. plans \in Seq(PlanRecords) /\ n \in Nat /\ Laid(plans)
      /\ \A i \in 1 .. n - 1 : Overlap <= plans[i].len
  <2>1. CASE Len(audio) > 0
    <3>1. Planned(audio, 0, FALSE, plans)
      BY <1>2, <2>1
    <3> HIDE DEF plans
    <3>2. QED BY <1>1, <3>1, PlannedAreLaid, LenProperties
  <2>2. CASE Len(audio) = 0
    <3>1. plans = <<>> /\ n = 0
      BY <1>2, <2>2
    <3>2. QED BY <3>1, EmptySeq DEF Laid
  <2>3. QED BY <1>1, <2>1, <2>2
<1>4. \A i \in 1..n : plans[i] \in PlanRecords /\ plans[i].start \in Nat
                      /\ End(plans[i]) \in Nat /\ End(plans[i]) <= Len(audio)
  <2> SUFFICES ASSUME NEW i \in 1..n
               PROVE  plans[i] \in PlanRecords /\ plans[i].start \in Nat
                      /\ End(plans[i]) \in Nat /\ End(plans[i]) <= Len(audio)
    OBVIOUS
  <2>1. Planned(audio, 0, FALSE, plans)
    <3>1. plans # <<>>
      BY <1>3
    <3>2. Len(audio) > 0
      BY <1>1, <1>2, <3>1
    <3>3. QED BY <1>2, <3>2
  <2>2. i \in 1..Len(plans)
    OBVIOUS
  <2> HIDE DEF plans
  <2>3. /\ plans[i] \in PlanRecords /\ plans[i].start \in Nat /\ plans[i].len \in Nat
        /\ End(plans[i]) = plans[i].start + plans[i].len /\ End(plans[i]) <= Len(audio)
    BY <1>1, <2>1, <2>2, PlannedWithin
  <2>4. QED BY <2>3
<1>5. \A i \in 1..n :
        /\ texts[i] \in Seq(Nat) /\ SaysItsOwn(texts[i], plans[i], audio)
        /\ SaysAll(texts[i], plans[i], audio, deaf) /\ Increasing(texts[i])
        /\ Overlap <= plans[i].len => SaysWholeSeams(texts[i], plans[i], audio)
  <2> SUFFICES ASSUME NEW i \in 1..n
               PROVE  /\ texts[i] \in Seq(Nat) /\ SaysItsOwn(texts[i], plans[i], audio)
                      /\ SaysAll(texts[i], plans[i], audio, deaf) /\ Increasing(texts[i])
                      /\ Overlap <= plans[i].len => SaysWholeSeams(texts[i], plans[i], audio)
    OBVIOUS
  <2>1. \/ texts[i] = Words(Span(audio, plans[i]))
        \/ texts[i] = <<>> /\ ToSet(Words(Span(audio, plans[i]))) \subseteq deaf
    OBVIOUS
  <2> HIDE DEF plans, n
  <2>2. QED BY <1>4, <2>1, ChunkSays
<1> HIDE DEF plans
<1>6. texts \in [1..Len(plans) -> Seq(Nat)]
  BY DEF plans
<1>7. Increasing(text)
  <2>1. SaysOwn(plans, texts)
    <3> SUFFICES ASSUME NEW i \in 1..Len(plans)
                 PROVE  /\ Increasing(texts[i])
                        /\ \A x \in ToSet(texts[i]) : plans[i].start < x /\ x <= End(plans[i])
      BY DEF SaysOwn
    <3>1. \A x \in Between(audio, plans[i].start, End(plans[i])) :
            plans[i].start < x /\ x <= End(plans[i])
      BY <1>4, BetweenIs
    <3>2. QED BY <1>5, <3>1 DEF SaysItsOwn
  <2>2. Agree(plans, texts)
    <3> SUFFICES ASSUME NEW i \in 1 .. Len(plans) - 1, plans[i + 1].needs_dedup
                 PROVE  SeamAgrees(texts[i], texts[i + 1], plans[i + 1].start, End(plans[i]))
      BY DEF Agree
    <3> DEFINE p == plans[i]
               q == plans[i + 1]
               prev == texts[i]
               next == texts[i + 1]
    <3>1. i \in 1..n /\ i + 1 \in 1..n
      BY <1>3
    <3>2. LiesAfter(p, q) /\ q.needs_dedup /\ Overlap <= p.len
      BY <1>3 DEF Laid
    <3>3. Overlap <= q.len
      BY <3>2 DEF LiesAfter
    <3>4. /\ p \in PlanRecords /\ End(p) <= Len(audio)
          /\ q \in PlanRecords /\ End(q) <= Len(audio)
      BY <1>4, <3>1
    <3>5. /\ SaysItsOwn(prev, p, audio) /\ SaysWholeSeams(prev, p, audio)
          /\ SaysItsOwn(next, q, audio) /\ SaysWholeSeams(next, q, audio)
      BY <1>5, <3>1, <3>2, <3>3
    <3> HIDE DEF p, q, prev, next
    <3>6. SeamAgrees(prev, next, q.start, End(p))
      BY <3>2, <3>4, <3>5, WholeSeamsAgree
    <3>7. QED BY <3>6 DEF p, q, prev, next
  <2>3. QED BY <1>3, <1>6, <2>1, <2>2, AssembleGrows
<1>8. text \in Seq(Nat) /\ ToSet(text) = UNION {ToSet(texts[i]) : i \in 1..n}
  BY <1>3, <1>6, AssembleKeeps, AssembleIsASequence
<1>9. ToSet(Words(audio)) = spoken /\ Words(audio) \in Seq(Nat) /\ Increasing(Words(audio))
  <2>1. \A k \in 1..Len(audio) : audio[k] = Quiet \/ audio[k] = 0 + k
    BY <1>1 DEF Distinct
  <2>2. 0 \in Nat
    OBVIOUS
  <2>3. QED BY <2>1, <2>2, WordsGrow, WordsAreThoseSaid
<1>10. ToSet(text) \subseteq spoken
  <2>1. ASSUME NEW i \in 1..n PROVE ToSet(texts[i]) \subseteq spoken
    <3>1. plans[i].start + 1 .. End(plans[i]) \subseteq 1..Len(audio)
      BY <1>1, <1>4
    <3>2. Between(audio, plans[i].start, End(plans[i])) \subseteq spoken
      BY <3>1 DEF Between
    <3>3. QED BY <1>5, <3>2 DEF SaysItsOwn
  <2>2. QED BY <1>8, <2>1
<1>11. spoken \subseteq ToSet(text) \cup deaf
  <2> SUFFICES ASSUME NEW k \in 1..Len(audio), audio[k] # Quiet
               PROVE  audio[k] \in ToSet(text) \cup deaf
    OBVIOUS
  <2>1. Planned(audio, 0, FALSE, plans)
    <3>1. Len(audio) > 0
      BY <1>1
    <3>2. QED BY <1>2, <3>1 DEF plans
  <2>2. PICK i \in 1..n : plans[i].start < k /\ k <= End(plans[i])
    BY <1>1, <2>1, PlannedCover
  <2>3. k \in plans[i].start + 1 .. End(plans[i])
    BY <1>1, <1>4, <2>2
  <2>4. audio[k] \in Between(audio, plans[i].start, End(plans[i]))
    BY <2>3 DEF Between
  <2>5. audio[k] \in ToSet(texts[i]) \cup deaf
    BY <1>5, <2>4 DEF SaysAll
  <2>6. QED BY <1>8, <2>5
<1> HIDE DEF text, spoken
<1>12. ASSUME NEW s \in Seq(Nat), Increasing(s)
       PROVE  /\ Without(s, deaf) \in Seq(Nat) /\ Increasing(Without(s, deaf))
              /\ ToSet(Without(s, deaf)) = ToSet(s) \ deaf
  <2>1. \A i, j \in 1..Len(s) : i < j /\ s[i] \notin deaf /\ s[j] \notin deaf => s[i] < s[j]
    BY <1>12 DEF Increasing
  <2>2. ToSet(s) = {s[k] : k \in 1..Len(s)}
    BY ToSetIs
  <2>3. QED BY <2>1, <2>2, WithoutIsASequence, WithoutKeeps, WithoutGrows
<1>13. ToSet(text) \ deaf = ToSet(Words(audio)) \ deaf
  BY <1>9, <1>10, <1>11
<1>14. Without(text, deaf) = Without(Words(audio), deaf)
  BY <1>7, <1>8, <1>9, <1>12, <1>13, IncreasingEqual
<1>15. QED BY <1>14 DEF text, plans
=============================================================================
