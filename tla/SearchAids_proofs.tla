------------------------- MODULE SearchAids_proofs -------------------------
(***************************************************************************)
(* search_aids answers with the best matches of the default corpus, for    *)
(* every corpus, query, weight of a title and number of results.           *)
(***************************************************************************)
EXTENDS SearchAids, FiniteSetTheorems, SequenceTheorems, TLAPS

-----------------------------------------------------------------------------
(* Recursion on the positions of a corpus. *)

(* Some number of a set of numbers is the least.                           *)
LEMMA LeastNumber ==
  ASSUME NEW S \in SUBSET Nat, S # {}
  PROVE  \E i \in S : \A j \in S : i <= j
<1> DEFINE less == OpToRel(<, Nat)
<1>1. \A i, j \in Nat : i < j => <<i, j>> \in less
  BY DEF OpToRel
<1>2. IsWellFoundedOn(less, Nat)
  BY NatLessThanWellFounded
<1> HIDE DEF less
<1>3. PICK i \in S : \A j \in S : ~(<<j, i>> \in less)
  BY <1>2, WFMin
<1>4. \A j \in S : ~(j < i)
  BY <1>1, <1>3
<1> QED
  BY <1>4

(* Numbers none of which is the first are no numbers at all.               *)
LEMMA NoFirstOne ==
  ASSUME NEW S \in SUBSET Nat, 0 \notin S, \A n \in Nat : n + 1 \in S => n \in S
  PROVE  S = {}
<1> SUFFICES ASSUME S # {} PROVE FALSE
  OBVIOUS
<1>1. PICK i \in S : \A j \in S : i <= j
  BY LeastNumber
<1>2. i - 1 \in Nat /\ (i - 1) + 1 = i
  OBVIOUS
<1>3. i - 1 \in S
  BY <1>2
<1> QED
  BY <1>1, <1>2, <1>3

(* f has the first value base and each next one from the last by step.     *)
RecursionOn(f, N, S, base, step) ==
    /\ f \in [0..N -> S]
    /\ f[0] = base /\ \A n \in 1..N : f[n] = step[<<n, f[n - 1]>>]

(* Recursion up to a number defines a function.                            *)
LEMMA DefinedUpTo ==
  ASSUME NEW N \in Nat, NEW S, NEW base \in S, NEW step \in [(1..N) \X S -> S]
  PROVE  \E f : RecursionOn(f, N, S, base, step)
<1> DEFINE Defines(f, n) ==
             f[0] = base /\ \A i \in 1..n : f[i] = step[<<i, f[i - 1]>>]
           undefined == {n \in 0..N : ~ \E f \in [0..n -> S] : Defines(f, n)}
<1>1. 0 \notin undefined
  <2> DEFINE f == [i \in 0..0 |-> base]
  <2>1. f \in [0..0 -> S] /\ Defines(f, 0)
    OBVIOUS
  <2> QED
    BY <2>1
<1>2. ASSUME NEW n \in Nat, n + 1 \in undefined
      PROVE  n \in undefined
  <2> SUFFICES ASSUME NEW f \in [0..n -> S], Defines(f, n)
               PROVE  FALSE
    BY <1>2
  <2>1. n + 1 \in 1..N /\ n \in 0..n
    BY <1>2
  <2> DEFINE g == [i \in 0..(n + 1) |-> IF i = n + 1 THEN step[<<n + 1, f[n]>>] ELSE f[i]]
  <2>2. step[<<n + 1, f[n]>>] \in S
    BY <2>1
  <2>3. g \in [0..(n + 1) -> S]
    BY <2>2
  <2>4. ASSUME NEW i \in 1..(n + 1)
        PROVE  g[i] = step[<<i, g[i - 1]>>]
    <3>1. CASE i = n + 1
      <4>1. g[n + 1] = step[<<n + 1, f[n]>>] /\ g[n] = f[n] /\ i - 1 = n
        BY <3>1
      <4> QED
        BY <3>1, <4>1
    <3>2. CASE i # n + 1
      <4>1. i \in 1..n /\ i - 1 \in 0..n
        BY <3>2
      <4>2. g[i] = f[i] /\ g[i - 1] = f[i - 1]
        BY <4>1
      <4> QED
        BY <4>1, <4>2
    <3> QED
      BY <3>1, <3>2
  <2>5. g[0] = base
    OBVIOUS
  <2> HIDE DEF g
  <2>6. Defines(g, n + 1)
    BY <2>4, <2>5
  <2> QED
    BY <1>2, <2>3, <2>6
<1>3. undefined = {}
  <2>1. undefined \in SUBSET Nat
    OBVIOUS
  <2> HIDE DEF undefined
  <2> QED
    BY <1>1, <1>2, <2>1, NoFirstOne
<1>4. N \notin undefined
  <2> HIDE DEF undefined
  <2> QED
    BY <1>3
<1>5. N \in 0..N
  OBVIOUS
<1> QED
  BY <1>4, <1>5 DEF RecursionOn

-----------------------------------------------------------------------------
(* The ranking. *)

(* The score of a record is a number.                                      *)
LEMMA ScoreType ==
  ASSUME NEW record \in AidRecord, NEW query
  PROVE  /\ IsFiniteSet(query \intersect record.title)
         /\ IsFiniteSet(query \intersect record.body)
         /\ Score(record, query) \in Nat
<1>1. record.title \in SUBSET Token /\ record.body \in SUBSET Token
  BY DEF AidRecord
<1>2. /\ query \intersect record.title \in SUBSET Token
      /\ query \intersect record.body \in SUBSET Token
  BY <1>1
<1>3. /\ IsFiniteSet(query \intersect record.title)
      /\ IsFiniteSet(query \intersect record.body)
  BY <1>2, TokenAssumption, FS_Subset
<1>4. /\ Cardinality(query \intersect record.title) \in Nat
      /\ Cardinality(query \intersect record.body) \in Nat
  BY <1>3, FS_CardinalityType
<1> QED
  BY <1>3, <1>4, NumbersAssumption DEF Score

(* What InsertAt gives.                                                    *)
LEMMA InsertAtProperties ==
  ASSUME NEW S, NEW s \in Seq(S), NEW p \in 1..(Len(s) + 1), NEW e \in S
  PROVE  /\ InsertAt(s, p, e) \in Seq(S)
         /\ Len(InsertAt(s, p, e)) = Len(s) + 1
         /\ \A r \in 1..(Len(s) + 1) :
              InsertAt(s, p, e)[r] = IF r < p THEN s[r] ELSE IF r = p THEN e ELSE s[r - 1]
<1> DEFINE before == SubSeq(s, 1, p - 1)
           after == SubSeq(s, p, Len(s))
<1>1. Len(s) \in Nat /\ \A r \in 1..Len(s) : s[r] \in S
  BY LenProperties
<1>2. /\ before \in Seq(S) /\ Len(before) = p - 1
      /\ \A r \in 1..(p - 1) : before[r] = s[r]
  <2>1. \A r \in 1..(p - 1) : s[r] \in S
    BY <1>1
  <2>2. /\ before \in Seq(S)
        /\ Len(before) = IF 1 <= p - 1 THEN (p - 1) - 1 + 1 ELSE 0
        /\ \A r \in 1..((p - 1) - 1 + 1) : before[r] = s[1 + r - 1]
    BY <1>1, <2>1, SubSeqProperties
  <2> HIDE DEF before
  <2>3. ASSUME NEW r \in 1..(p - 1)
        PROVE  before[r] = s[r]
    <3>1. r \in 1..((p - 1) - 1 + 1) /\ 1 + r - 1 = r
      BY <1>1
    <3> QED
      BY <2>2, <3>1
  <2>4. (IF 1 <= p - 1 THEN (p - 1) - 1 + 1 ELSE 0) = p - 1
    BY <1>1
  <2> QED
    BY <2>2, <2>3, <2>4
<1>3. /\ after \in Seq(S) /\ Len(after) = Len(s) - p + 1
      /\ \A r \in 1..(Len(s) - p + 1) : after[r] = s[p + r - 1]
  <2>1. \A r \in p..Len(s) : s[r] \in S
    BY <1>1
  <2>2. /\ after \in Seq(S)
        /\ Len(after) = IF p <= Len(s) THEN Len(s) - p + 1 ELSE 0
        /\ \A r \in 1..(Len(s) - p + 1) : after[r] = s[p + r - 1]
    BY <1>1, <2>1, SubSeqProperties
  <2>3. (IF p <= Len(s) THEN Len(s) - p + 1 ELSE 0) = Len(s) - p + 1
    BY <1>1
  <2> QED
    BY <2>2, <2>3
<1> HIDE DEF before, after
<1>4. <<e>> \in Seq(S) /\ Len(<<e>>) = 1 /\ <<e>>[1] = e
  OBVIOUS
<1>5. /\ before \o <<e>> \in Seq(S) /\ Len(before \o <<e>>) = p
      /\ \A r \in 1..p : (before \o <<e>>)[r] = IF r < p THEN s[r] ELSE e
  <2>1. /\ before \o <<e>> \in Seq(S)
        /\ Len(before \o <<e>>) = Len(before) + Len(<<e>>)
        /\ \A r \in 1..(Len(before) + Len(<<e>>)) : (before \o <<e>>)[r] =
              IF r <= Len(before) THEN before[r] ELSE <<e>>[r - Len(before)]
    BY <1>2, <1>4, ConcatProperties
  <2>2. Len(before) + Len(<<e>>) = p
    BY <1>1, <1>2, <1>4
  <2>3. ASSUME NEW r \in 1..p
        PROVE  (before \o <<e>>)[r] = IF r < p THEN s[r] ELSE e
    <3>1. CASE r < p
      <4>1. r \in 1..(p - 1) /\ r <= Len(before)
        BY <1>1, <1>2, <3>1
      <4> QED
        BY <1>2, <2>1, <2>2, <3>1, <4>1
    <3>2. CASE r = p
      <4>1. ~(r <= Len(before)) /\ r - Len(before) = 1
        BY <1>1, <1>2, <3>2
      <4>2. (before \o <<e>>)[r] = <<e>>[r - Len(before)]
        BY <2>1, <2>2, <4>1
      <4> QED
        BY <1>1, <1>4, <3>2, <4>1, <4>2
    <3>3. r < p \/ r = p
      BY <1>1
    <3> QED
      BY <3>1, <3>2, <3>3
  <2> QED
    BY <2>1, <2>2, <2>3
<1> DEFINE front == before \o <<e>>
<1>6. InsertAt(s, p, e) = front \o after
  BY DEF InsertAt, before, after
<1>7. front \in Seq(S) /\ Len(front) = p
  BY <1>5
<1>8. \A r \in 1..p : front[r] = IF r < p THEN s[r] ELSE e
  BY <1>5
<1> HIDE DEF front
<1>9. /\ front \o after \in Seq(S)
      /\ Len(front \o after) = Len(front) + Len(after)
      /\ \A r \in 1..(Len(front) + Len(after)) : (front \o after)[r] =
            IF r <= Len(front) THEN front[r] ELSE after[r - Len(front)]
  BY <1>3, <1>7, ConcatProperties
<1>10. Len(front) + Len(after) = Len(s) + 1
  BY <1>1, <1>3, <1>7
<1>11. ASSUME NEW r \in 1..(Len(s) + 1)
       PROVE  (front \o after)[r] = IF r < p THEN s[r] ELSE IF r = p THEN e ELSE s[r - 1]
  <2>1. CASE r <= p
    <3>1. r \in 1..p /\ (front \o after)[r] = front[r]
      BY <1>1, <1>7, <1>9, <1>10, <2>1
    <3> QED
      BY <1>1, <1>8, <2>1, <3>1
  <2>2. CASE r > p
    <3>1. /\ r - p \in 1..(Len(s) - p + 1) /\ p + (r - p) - 1 = r - 1
          /\ ~(r <= Len(front)) /\ r - Len(front) = r - p
      BY <1>1, <1>7, <2>2
    <3>2. (front \o after)[r] = after[r - p]
      BY <1>9, <1>10, <3>1
    <3>3. after[r - p] = s[r - 1]
      BY <1>3, <3>1
    <3> QED
      BY <1>1, <2>2, <3>2, <3>3
  <2>3. r <= p \/ r > p
    BY <1>1
  <2> QED
    BY <2>1, <2>2, <2>3
<1> QED
  BY <1>6, <1>9, <1>10, <1>11

(* Record i of a corpus is better than record j, or as good and earlier.   *)
Ahead(corpus, query, i, j) ==
    \/ Score(corpus[i], query) > Score(corpus[j], query)
    \/ Score(corpus[i], query) = Score(corpus[j], query) /\ i < j

(* A ranking of the first n records has those that match, best first.      *)
IsRanking(ranked, n, corpus, query, category) ==
    /\ ranked \in Seq(1..n)
    /\ \A i \in 1..n : Matched(corpus[i], query, category)
                          <=> \E r \in 1..Len(ranked) : ranked[r] = i
    /\ \A r, s \in 1..Len(ranked) : r < s => Ahead(corpus, query, ranked[r], ranked[s])

(* A record is put before the first that scores lower.                     *)
LEMMA PlacedBeforeLower ==
  ASSUME NEW corpus, NEW query, NEW ranked \in Seq(Nat), NEW i \in Nat
  PROVE  \E p \in 1..(Len(ranked) + 1) :
            /\ Placed(ranked, i, corpus, query) = InsertAt(ranked, p, i)
            /\ p <= Len(ranked) =>
                  Score(corpus[ranked[p]], query) < Score(corpus[i], query)
            /\ \A r \in 1..(p - 1) :
                  ~(Score(corpus[ranked[r]], query) < Score(corpus[i], query))
<1> DEFINE lower == {r \in DOMAIN ranked :
                      Score(corpus[ranked[r]], query) < Score(corpus[i], query)}
           places == {Len(ranked) + 1} \union lower
<1>1. Len(ranked) \in Nat /\ DOMAIN ranked = 1..Len(ranked)
  BY LenProperties
<1>2. places \in SUBSET (1..(Len(ranked) + 1)) /\ Len(ranked) + 1 \in places
  BY <1>1
<1>3. \E p \in places : \A q \in places : p <= q
  <2>1. places \in SUBSET Nat /\ places # {}
    BY <1>1, <1>2
  <2> HIDE DEF places
  <2> QED
    BY <2>1, LeastNumber
<1>4. Min(places) \in places /\ \A q \in places : Min(places) <= q
  BY <1>3 DEF Min
<1>5. Placed(ranked, i, corpus, query) = InsertAt(ranked, Min(places), i)
  BY DEF Placed
<1>6. PICK p : p = Min(places)
  OBVIOUS
<1>7. /\ p \in 1..(Len(ranked) + 1) /\ p \in places
      /\ \A q \in places : p <= q
  BY <1>2, <1>4, <1>6
<1>8. p <= Len(ranked) => p \in lower
  BY <1>1, <1>7
<1>9. ASSUME NEW r \in 1..(p - 1)
      PROVE  r \notin lower /\ r \in DOMAIN ranked
  BY <1>1, <1>7
<1> QED
  BY <1>5, <1>6, <1>7, <1>8, <1>9

(* The next record, if it matches, is put where it belongs.                *)
LEMMA PlacedRanks ==
  ASSUME NEW corpus \in Seq(AidRecord), NEW query, NEW category,
         NEW n \in 1..Len(corpus), NEW ranked,
         IsRanking(ranked, n - 1, corpus, query, category),
         Matched(corpus[n], query, category)
  PROVE  IsRanking(Placed(ranked, n, corpus, query), n, corpus, query, category)
<1> DEFINE score(i) == Score(corpus[i], query)
           longer == Placed(ranked, n, corpus, query)
<1>1. /\ Len(corpus) \in Nat /\ n \in Nat /\ n - 1 \in Nat
      /\ \A i \in 1..n : score(i) \in Nat
  <2>1. Len(corpus) \in Nat /\ \A i \in 1..Len(corpus) : corpus[i] \in AidRecord
    BY LenProperties
  <2>2. /\ n \in Nat /\ n - 1 \in Nat
        /\ \A i \in 1..n : i \in 1..Len(corpus)
    BY <2>1
  <2> QED
    BY <2>1, <2>2, ScoreType
<1>2. /\ ranked \in Seq(1..(n - 1)) /\ Len(ranked) \in Nat
      /\ \A r \in 1..Len(ranked) : ranked[r] \in 1..(n - 1)
  BY LenProperties DEF IsRanking
<1>3. ranked \in Seq(Nat) /\ ranked \in Seq(1..n)
  <2>1. 1..(n - 1) \subseteq Nat /\ 1..(n - 1) \subseteq 1..n
    BY <1>1
  <2> QED
    BY <1>2, <2>1, SeqMonotonic
<1>4. PICK p \in 1..(Len(ranked) + 1) :
        /\ longer = InsertAt(ranked, p, n)
        /\ p <= Len(ranked) => score(ranked[p]) < score(n)
        /\ \A r \in 1..(p - 1) : ~(score(ranked[r]) < score(n))
  BY <1>1, <1>3, PlacedBeforeLower
<1>5. /\ longer \in Seq(1..n) /\ Len(longer) = Len(ranked) + 1
      /\ \A r \in 1..(Len(ranked) + 1) :
            longer[r] = IF r < p THEN ranked[r] ELSE IF r = p THEN n ELSE ranked[r - 1]
  <2>1. n \in 1..n
    BY <1>1
  <2> QED
    BY <1>3, <1>4, <2>1, InsertAtProperties
<1> HIDE DEF longer
<1>6. ASSUME NEW i \in 1..n
      PROVE  Matched(corpus[i], query, category)
                <=> \E r \in 1..Len(longer) : longer[r] = i
  <2>1. CASE i = n
    <3>1. p \in 1..Len(longer) /\ longer[p] = n
      BY <1>2, <1>5
    <3> QED
      BY <2>1, <3>1
  <2>2. CASE i # n
    <3>1. i \in 1..(n - 1)
      BY <1>1, <2>2
    <3>2. ASSUME NEW r \in 1..Len(ranked), ranked[r] = i
          PROVE  \E q \in 1..Len(longer) : longer[q] = i
      <4>1. CASE r < p
        <5>1. r \in 1..(Len(ranked) + 1)
          BY <1>2
        <5> QED
          BY <1>5, <3>2, <4>1, <5>1
      <4>2. CASE ~(r < p)
        <5>1. /\ r + 1 \in 1..(Len(ranked) + 1) /\ (r + 1) - 1 = r
              /\ ~(r + 1 < p) /\ r + 1 # p
          BY <1>2, <4>2
        <5> QED
          BY <1>5, <3>2, <5>1
      <4> QED
        BY <4>1, <4>2
    <3>3. ASSUME NEW q \in 1..Len(longer), longer[q] = i
          PROVE  \E r \in 1..Len(ranked) : ranked[r] = i
      <4>1. CASE q < p
        <5>1. q \in 1..Len(ranked) /\ q \in 1..(Len(ranked) + 1)
          BY <1>2, <1>5, <4>1
        <5> QED
          BY <1>5, <3>3, <4>1, <5>1
      <4>2. CASE q > p
        <5>1. q - 1 \in 1..Len(ranked) /\ ~(q < p) /\ q # p
          BY <1>2, <1>5, <4>2
        <5> QED
          BY <1>5, <3>3, <5>1
      <4>3. q # p
        BY <1>5, <2>2, <3>3
      <4> QED
        BY <1>2, <1>5, <4>1, <4>2, <4>3
    <3> QED
      BY <3>1, <3>2, <3>3 DEF IsRanking
  <2> QED
    BY <2>1, <2>2
<1>7. ASSUME NEW r \in 1..Len(longer), NEW s \in 1..Len(longer), r < s
      PROVE  Ahead(corpus, query, longer[r], longer[s])
  <2>0. /\ Len(ranked) \in Nat /\ p \in 1..(Len(ranked) + 1)
        /\ r \in 1..(Len(ranked) + 1) /\ s \in 1..(Len(ranked) + 1) /\ r < s
    BY <1>2, <1>5, <1>7
  <2>1. \A a, b \in 1..Len(ranked) : a < b =>
          \/ score(ranked[a]) > score(ranked[b])
          \/ score(ranked[a]) = score(ranked[b]) /\ ranked[a] < ranked[b]
    BY DEF IsRanking, Ahead
  <2>2. \A a \in 1..Len(ranked) :
          score(ranked[a]) \in Nat /\ ranked[a] \in Nat /\ ranked[a] < n
    <3>1. \A i \in 1..(n - 1) : i \in 1..n /\ i \in Nat /\ i < n
      BY <1>1
    <3> HIDE DEF score
    <3> QED
      BY <1>1, <1>2, <3>1
  <2>3. score(n) \in Nat
    BY <1>1
  <2> HIDE DEF score
  <2>4. CASE s < p
    <3>1. r \in 1..Len(ranked) /\ s \in 1..Len(ranked) /\ r < p
      BY <2>0, <2>4
    <3>2. longer[r] = ranked[r] /\ longer[s] = ranked[s]
      BY <1>5, <2>4, <3>1
    <3> QED
      BY <2>0, <2>1, <3>1, <3>2 DEF Ahead, score
  <2>5. CASE s = p
    <3>1. r \in 1..Len(ranked) /\ r \in 1..(p - 1) /\ r < p
      BY <2>0, <2>5
    <3>2. longer[r] = ranked[r] /\ longer[s] = n
      BY <1>5, <2>5, <3>1
    <3>3. ~(score(ranked[r]) < score(n)) /\ ranked[r] < n
      BY <1>4, <2>2, <3>1
    <3>4. score(ranked[r]) > score(n) \/ score(ranked[r]) = score(n)
      BY <2>2, <2>3, <3>1, <3>3
    <3> QED
      BY <3>2, <3>3, <3>4 DEF Ahead, score
  <2>6. CASE s > p /\ r = p
    <3>1. s - 1 \in 1..Len(ranked) /\ p \in 1..Len(ranked) /\ p <= s - 1 /\ p <= Len(ranked)
      BY <2>0, <2>6
    <3>2. longer[r] = n /\ longer[s] = ranked[s - 1]
      BY <1>5, <2>6
    <3>3. score(ranked[p]) < score(n)
      BY <1>4, <3>1
    <3>4. /\ score(ranked[p]) \in Nat /\ score(ranked[s - 1]) \in Nat
          /\ p \in Nat /\ s - 1 \in Nat
      BY <1>2, <2>2, <3>1
    <3>5. p < s - 1 \/ p = s - 1
      BY <3>1, <3>4
    <3>6. score(ranked[p]) >= score(ranked[s - 1])
      <4>1. CASE p < s - 1
        <5>1. \/ score(ranked[p]) > score(ranked[s - 1])
              \/ score(ranked[p]) = score(ranked[s - 1])
          BY <2>1, <3>1, <4>1
        <5> QED
          BY <3>4, <5>1
      <4>2. CASE p = s - 1
        BY <3>4, <4>2
      <4> QED
        BY <3>5, <4>1, <4>2
    <3>7. score(n) > score(ranked[s - 1])
      BY <2>3, <3>3, <3>4, <3>6
    <3> QED
      BY <3>2, <3>7 DEF Ahead, score
  <2>7. CASE s > p /\ r < p
    <3>1. s - 1 \in 1..Len(ranked) /\ r \in 1..Len(ranked) /\ r < s - 1
      BY <2>0, <2>7
    <3>2. longer[r] = ranked[r] /\ longer[s] = ranked[s - 1]
      BY <1>5, <2>7
    <3> QED
      BY <2>1, <3>1, <3>2 DEF Ahead, score
  <2>8. CASE r > p
    <3>1. s - 1 \in 1..Len(ranked) /\ r - 1 \in 1..Len(ranked) /\ r - 1 < s - 1 /\ s > p
      BY <2>0, <2>8
    <3>2. longer[r] = ranked[r - 1] /\ longer[s] = ranked[s - 1]
      BY <1>5, <2>8, <3>1
    <3>3. \/ score(ranked[r - 1]) > score(ranked[s - 1])
          \/ score(ranked[r - 1]) = score(ranked[s - 1]) /\ ranked[r - 1] < ranked[s - 1]
      BY <2>1, <3>1
    <3> QED
      BY <3>2, <3>3 DEF Ahead, score
  <2> QED
    BY <2>0, <2>4, <2>5, <2>6, <2>7, <2>8
<1> QED
  BY <1>5, <1>6, <1>7 DEF IsRanking, longer

(* The next record, if it does not match, changes nothing.                 *)
LEMMA PassedOverRanks ==
  ASSUME NEW corpus, NEW query, NEW category, NEW n \in Nat \ {0}, NEW ranked,
         IsRanking(ranked, n - 1, corpus, query, category),
         ~Matched(corpus[n], query, category)
  PROVE  IsRanking(ranked, n, corpus, query, category)
<1>1. ranked \in Seq(1..n)
  <2>1. 1..(n - 1) \subseteq 1..n
    OBVIOUS
  <2> QED
    BY <2>1, SeqMonotonic DEF IsRanking
<1>2. \A r \in 1..Len(ranked) : ranked[r] \in 1..(n - 1)
  BY LenProperties DEF IsRanking
<1>3. ASSUME NEW i \in 1..n
      PROVE  Matched(corpus[i], query, category)
                <=> \E r \in 1..Len(ranked) : ranked[r] = i
  <2>1. CASE i = n
    BY <1>2, <2>1
  <2>2. CASE i # n
    <3>1. i \in 1..(n - 1)
      BY <2>2
    <3> QED
      BY <3>1 DEF IsRanking
  <2> QED
    BY <2>1, <2>2
<1> QED
  BY <1>1, <1>3 DEF IsRanking

(* The recursive definition of the ranking defines a function.             *)
LEMMA RankedIsDefined ==
  ASSUME NEW corpus \in Seq(AidRecord), NEW query, NEW category
  PROVE  LET ranked == RankedUpTo(corpus, query, category)
         IN  /\ ranked[0] = <<>>
             /\ \A n \in 1..Len(corpus) : ranked[n] =
                  IF Matched(corpus[n], query, category)
                  THEN Placed(ranked[n - 1], n, corpus, query)
                  ELSE ranked[n - 1]
<1> DEFINE N == Len(corpus)
           next(n, ranked) == IF Matched(corpus[n], query, category)
                              THEN Placed(ranked, n, corpus, query)
                              ELSE ranked
           step == [x \in (1..N) \X Seq(Nat) |-> next(x[1], x[2])]
           Equation(f) == f = [n \in 0..N |-> IF n = 0 THEN <<>> ELSE next(n, f[n - 1])]
<1>1. N \in Nat
  BY LenProperties
<1> HIDE DEF N
<1>2. ASSUME NEW n \in 1..N, NEW ranked \in Seq(Nat)
      PROVE  next(n, ranked) \in Seq(Nat)
  <2>1. n \in Nat
    BY <1>1
  <2>2. Placed(ranked, n, corpus, query) \in Seq(Nat)
    <3>1. PICK p \in 1..(Len(ranked) + 1) :
            /\ Placed(ranked, n, corpus, query) = InsertAt(ranked, p, n)
            /\ p <= Len(ranked) =>
                  Score(corpus[ranked[p]], query) < Score(corpus[n], query)
            /\ \A r \in 1..(p - 1) :
                  ~(Score(corpus[ranked[r]], query) < Score(corpus[n], query))
      BY <2>1, PlacedBeforeLower
    <3> QED
      BY <2>1, <3>1, InsertAtProperties
  <2> QED
    BY <2>2
<1> HIDE DEF next
<1>3. step \in [(1..N) \X Seq(Nat) -> Seq(Nat)]
  BY <1>2
<1>4. <<>> \in Seq(Nat)
  OBVIOUS
<1> HIDE DEF step
<1>5. PICK f \in [0..N -> Seq(Nat)] :
        f[0] = <<>> /\ \A n \in 1..N : f[n] = step[<<n, f[n - 1]>>]
  <2> DEFINE T == Seq(Nat)
             base == <<>>
  <2>1. base \in T /\ step \in [(1..N) \X T -> T]
    BY <1>3, <1>4
  <2> HIDE DEF T, base
  <2>2. \E f : RecursionOn(f, N, T, base, step)
    BY <1>1, <2>1, DefinedUpTo
  <2> QED
    BY <2>2 DEF T, base, RecursionOn
<1>6. ASSUME NEW n \in 1..N
      PROVE  f[n] = next(n, f[n - 1])
  <2>1. f[n - 1] \in Seq(Nat)
    <3>1. n - 1 \in 0..N
      BY <1>1
    <3> QED
      BY <3>1
  <2>2. step[<<n, f[n - 1]>>] = next(n, f[n - 1])
    BY <2>1 DEF step
  <2> QED
    BY <1>5, <2>2
<1>7. Equation(f)
  <2>1. \A n \in 0..N : f[n] = IF n = 0 THEN <<>> ELSE next(n, f[n - 1])
    BY <1>1, <1>5, <1>6
  <2> QED
    BY <2>1
<1> HIDE DEF Equation
<1> DEFINE g == RankedUpTo(corpus, query, category)
<1>8. g = CHOOSE h : Equation(h)
  BY DEF RankedUpTo, Equation, next, N
<1>9. Equation(g)
  BY <1>7, <1>8
<1> HIDE DEF g
<1>10. g[0] = <<>> /\ \A n \in 1..N : g[n] = next(n, g[n - 1])
  BY <1>1, <1>9 DEF Equation
<1> QED
  BY <1>10 DEF g, next, N

(* sorted(matched, reverse=True) ranks the records that match.             *)
LEMMA RankedIsRanking ==
  ASSUME NEW corpus \in Seq(AidRecord), NEW query, NEW category
  PROVE  IsRanking(Ranked(corpus, query, category), Len(corpus), corpus, query, category)
<1> DEFINE ranked == RankedUpTo(corpus, query, category)
           Ranks(n) == IsRanking(ranked[n], n, corpus, query, category)
           unranked == {n \in 0..Len(corpus) : ~Ranks(n)}
<1>1. Len(corpus) \in Nat
  BY LenProperties
<1>2. ranked[0] = <<>>
  BY RankedIsDefined
<1>3. \A n \in 1..Len(corpus) : ranked[n] =
                  IF Matched(corpus[n], query, category)
                  THEN Placed(ranked[n - 1], n, corpus, query)
                  ELSE ranked[n - 1]
  BY RankedIsDefined
<1> HIDE DEF ranked
<1>4. Ranks(0)
  <2>1. <<>> \in Seq(1..0) /\ Len(<<>>) = 0
    OBVIOUS
  <2> QED
    BY <1>2, <2>1 DEF IsRanking
<1>5. ASSUME NEW n \in 1..Len(corpus), Ranks(n - 1)
      PROVE  Ranks(n)
  <2>1. CASE Matched(corpus[n], query, category)
    BY <1>3, <1>5, <2>1, PlacedRanks
  <2>2. CASE ~Matched(corpus[n], query, category)
    <3>1. n \in Nat \ {0}
      BY <1>1
    <3> QED
      BY <1>3, <1>5, <2>2, <3>1, PassedOverRanks
  <2> QED
    BY <2>1, <2>2
<1> HIDE DEF Ranks
<1>6. ASSUME NEW n \in Nat, n + 1 \in unranked PROVE n \in unranked
  <2>1. n + 1 \in 1..Len(corpus) /\ (n + 1) - 1 = n /\ n \in 0..Len(corpus)
    BY <1>1, <1>6
  <2>2. ~Ranks(n + 1)
    BY <1>6
  <2> QED
    BY <1>5, <2>1, <2>2
<1>7. unranked = {}
  <2>1. unranked \in SUBSET Nat /\ 0 \notin unranked
    BY <1>4
  <2> HIDE DEF unranked
  <2> QED
    BY <1>6, <2>1, NoFirstOne
<1>8. Len(corpus) \in 0..Len(corpus) /\ Len(corpus) \notin unranked
  <2> HIDE DEF unranked
  <2> QED
    BY <1>1, <1>7
<1>9. Ranks(Len(corpus))
  BY <1>8
<1> QED
  BY <1>9 DEF Ranks, ranked, Ranked

-----------------------------------------------------------------------------
(* The answer. *)

(* The first MAX_RESULTS of the ranking.                                   *)
LEMMA FirstOfRanking ==
  ASSUME NEW corpus \in Seq(AidRecord), NEW query, NEW category
  PROVE  LET ranked == Ranked(corpus, query, category)
             rows == SearchAidsCorpus(corpus, query, category)
         IN  /\ rows \in Seq(1..Len(corpus))
             /\ Len(rows) <= MAX_RESULTS
             /\ Len(rows) <= Len(ranked)
             /\ Len(rows) < Len(ranked) => Len(rows) = MAX_RESULTS
             /\ \A r \in 1..Len(rows) : rows[r] = ranked[r]
<1> DEFINE ranked == Ranked(corpus, query, category)
           rows == SearchAidsCorpus(corpus, query, category)
           first == SubSeq(ranked, 1, MAX_RESULTS)
<1>1. rows = IF Len(ranked) <= MAX_RESULTS THEN ranked ELSE first
  BY DEF SearchAidsCorpus
<1>2. ranked \in Seq(1..Len(corpus))
  BY RankedIsRanking DEF IsRanking
<1> HIDE DEF ranked, rows
<1>3. /\ Len(ranked) \in Nat /\ MAX_RESULTS \in Nat
      /\ \A r \in 1..Len(ranked) : ranked[r] \in 1..Len(corpus)
  BY <1>2, LenProperties, NumbersAssumption
<1>4. CASE Len(ranked) <= MAX_RESULTS
  BY <1>1, <1>2, <1>3, <1>4 DEF ranked, rows
<1>5. CASE ~(Len(ranked) <= MAX_RESULTS)
  <2>1. \A r \in 1..MAX_RESULTS : ranked[r] \in 1..Len(corpus)
    BY <1>3, <1>5
  <2>2. /\ first \in Seq(1..Len(corpus))
        /\ Len(first) = IF 1 <= MAX_RESULTS THEN MAX_RESULTS - 1 + 1 ELSE 0
        /\ \A r \in 1..(MAX_RESULTS - 1 + 1) : first[r] = ranked[1 + r - 1]
    BY <1>3, <2>1, SubSeqProperties
  <2> HIDE DEF first
  <2>3. Len(first) = MAX_RESULTS
    BY <1>3, <2>2
  <2>4. ASSUME NEW r \in 1..MAX_RESULTS
        PROVE  first[r] = ranked[r]
    <3>1. r \in 1..(MAX_RESULTS - 1 + 1) /\ 1 + r - 1 = r
      BY <1>3
    <3> QED
      BY <2>2, <3>1
  <2>5. rows = first
    BY <1>1, <1>5
  <2> QED
    BY <1>3, <1>5, <2>2, <2>3, <2>4, <2>5 DEF ranked, rows
<1> QED
  BY <1>4, <1>5

(* The words counted one by one are the score.                             *)
LEMMA WeightIsScore ==
  ASSUME NEW i, answer.corpus[i] \in AidRecord
  PROVE  Weight(i) = Score(answer.corpus[i], answer.query)
<1> DEFINE titles == answer.query \intersect answer.corpus[i].title
           bodies == answer.query \intersect answer.corpus[i].body
           W == TITLE_MATCH_WEIGHT
           counted == titles \X (1..W)
           once == bodies \X {0}
<1>1. IsFiniteSet(titles) /\ IsFiniteSet(bodies)
  BY ScoreType
<1>2. W \in Nat
  BY NumbersAssumption
<1>3. Weight(i) = Cardinality(counted \union once)
  BY DEF Weight
<1>4. Score(answer.corpus[i], answer.query) = W * Cardinality(titles) + Cardinality(bodies)
  BY DEF Score
<1> HIDE DEF titles, bodies, W
<1>5. Cardinality(titles) \in Nat /\ Cardinality(bodies) \in Nat
  BY <1>1, FS_CardinalityType
<1>6. IsFiniteSet(1..W) /\ Cardinality(1..W) = W
  BY <1>2, FS_Interval
<1>7. IsFiniteSet(counted) /\ Cardinality(counted) = Cardinality(titles) * Cardinality(1..W)
  BY <1>1, <1>6, FS_Product
<1>8. IsFiniteSet({0}) /\ Cardinality({0}) = 1
  BY FS_Singleton
<1>9. IsFiniteSet(once) /\ Cardinality(once) = Cardinality(bodies) * Cardinality({0})
  BY <1>1, <1>8, FS_Product
<1>10. counted \intersect once = {}
  BY <1>2
<1> HIDE DEF counted, once
<1>11. Cardinality(counted \union once) =
         Cardinality(counted) + Cardinality(once) - Cardinality(counted \intersect once)
  BY <1>7, <1>9, FS_Union
<1>12. Cardinality(counted \intersect once) = 0
  BY <1>10, FS_EmptySet
<1>13. /\ Cardinality(counted) = W * Cardinality(titles)
       /\ Cardinality(once) = Cardinality(bodies)
  BY <1>2, <1>5, <1>6, <1>7, <1>8, <1>9
<1>14. W * Cardinality(titles) \in Nat
  BY <1>2, <1>5
<1> QED
  BY <1>3, <1>4, <1>5, <1>11, <1>12, <1>13, <1>14

(* The last answer is what the ranking gives for some query on some        *)
(* content the default file may have.                                      *)
Answered ==
    \E query \in SUBSET Token, category \in Category \union {AnyCategory}, corpus \in Corpora :
        answer = [query |-> query, category |-> category, corpus |-> corpus,
                  rows |-> SearchAidsCorpus(corpus, query, category)]

(* The entry kept under the default path was read from the default file.   *)
IInv ==
    /\ file \in Corpora
    /\ Hit => cache.corpus \in Corpora
    /\ answer = NoAnswer \/ Answered

LEMMA InitIInv == Init => IInv
BY DEF Init, IInv, Hit, Empty

LEMMA NextIInv == IInv /\ [Next]_vars => IInv'
<1> SUFFICES ASSUME IInv, [Next]_vars PROVE IInv'
  OBVIOUS
<1> USE DEF IInv
<1>1. ASSUME NEW query \in SUBSET Token, NEW category \in Category \union {AnyCategory},
             Search(query, category)
      PROVE  IInv'
  <2>1. PICK corpus : corpus = IF Hit THEN cache.corpus ELSE file
    OBVIOUS
  <2>2. corpus \in Corpora
    BY <2>1
  <2>3. /\ cache' = [key |-> "default", corpus |-> corpus]
        /\ answer' = [query |-> query, category |-> category, corpus |-> corpus,
                      rows |-> SearchAidsCorpus(corpus, query, category)]
        /\ file' = file
    BY <1>1, <2>1 DEF Search
  <2>4. Answered'
    BY <2>2, <2>3 DEF Answered
  <2> QED
    BY <2>2, <2>3, <2>4
<1>2. CASE LoadOther
  BY <1>2 DEF LoadOther, Hit, Answered
<1>3. CASE CacheClear
  BY <1>3 DEF CacheClear, Empty, Hit, Answered
<1>4. CASE Edit
  BY <1>4 DEF Edit, Hit, Answered
<1>5. CASE UNCHANGED vars
  BY <1>5 DEF vars, Hit, Answered
<1> QED
  BY <1>1, <1>2, <1>3, <1>4, <1>5 DEF Next

LEMMA SpecIInv == Spec => []IInv
BY InitIInv, NextIInv, PTL DEF Spec

(* The tool answers from the default file, never from another corpus that  *)
(* _load_corpus was given.                                                 *)
THEOREM AnswersAreFromDefault == Spec => []AnswersFromDefault
<1>1. IInv => AnswersFromDefault
  BY DEF IInv, Answered, AnswersFromDefault
<1> QED
  BY <1>1, SpecIInv, PTL

(* search_aids_corpus answers with the best matches.                       *)
LEMMA AnsweredBest == Answered => BestMatches
<1> SUFFICES ASSUME NEW query, NEW category, NEW corpus \in Corpora,
                    answer = [query |-> query, category |-> category, corpus |-> corpus,
                              rows |-> SearchAidsCorpus(corpus, query, category)]
             PROVE  BestMatches
  BY DEF Answered
<1> DEFINE rows == SearchAidsCorpus(corpus, query, category)
           ranked == Ranked(corpus, query, category)
           Before(i, j) == Weight(i) > Weight(j) \/ (Weight(i) = Weight(j) /\ i < j)
           eligible == {i \in DOMAIN answer.corpus :
               /\ Weight(i) > 0
               /\ answer.category \in {AnyCategory} \union answer.corpus[i].category}
<1>1. /\ answer.query = query /\ answer.category = category
      /\ answer.corpus = corpus /\ answer.rows = rows
  OBVIOUS
<1>2. corpus \in Seq(AidRecord)
  BY CorpusAssumption
<1>3. /\ DOMAIN corpus = 1..Len(corpus)
      /\ \A i \in 1..Len(corpus) : corpus[i] \in AidRecord
  BY <1>2, LenProperties
<1>4. \A i \in 1..Len(corpus) : Weight(i) = Score(corpus[i], query)
  BY <1>1, <1>3, WeightIsScore
<1>5. \A i : i \in eligible <=> i \in 1..Len(corpus) /\ Matched(corpus[i], query, category)
  BY <1>1, <1>3, <1>4 DEF Matched, MatchesCategory
<1>6. IsRanking(ranked, Len(corpus), corpus, query, category)
  BY <1>2, RankedIsRanking
<1>7. /\ ranked \in Seq(1..Len(corpus))
      /\ \A i \in 1..Len(corpus) : Matched(corpus[i], query, category)
                                      <=> \E r \in 1..Len(ranked) : ranked[r] = i
      /\ \A r, s \in 1..Len(ranked) :
            r < s => Ahead(corpus, query, ranked[r], ranked[s])
  BY <1>6 DEF IsRanking
<1>8. /\ rows \in Seq(1..Len(corpus))
      /\ Len(rows) <= MAX_RESULTS
      /\ Len(rows) <= Len(ranked)
      /\ Len(rows) < Len(ranked) => Len(rows) = MAX_RESULTS
      /\ \A r \in 1..Len(rows) : rows[r] = ranked[r]
  BY <1>2, FirstOfRanking
<1> HIDE DEF ranked, rows, eligible
<1>9. /\ Len(ranked) \in Nat /\ Len(rows) \in Nat /\ DOMAIN rows = 1..Len(rows)
      /\ \A r \in 1..Len(ranked) : ranked[r] \in 1..Len(corpus)
  BY <1>7, <1>8, LenProperties
<1>10. ASSUME NEW r \in 1..Len(ranked), NEW s \in 1..Len(ranked), r < s
       PROVE  Before(ranked[r], ranked[s])
  <2>1. Ahead(corpus, query, ranked[r], ranked[s])
    BY <1>7, <1>10
  <2>2. ranked[r] \in 1..Len(corpus) /\ ranked[s] \in 1..Len(corpus)
    BY <1>9
  <2> QED
    BY <1>4, <2>1, <2>2 DEF Ahead
<1> HIDE DEF Before
<1>11. \A r \in 1..Len(rows) : r \in 1..Len(ranked)
  BY <1>8, <1>9
<1>12. Range(rows) \subseteq eligible
  BY <1>5, <1>7, <1>8, <1>9, <1>11 DEF Range
<1>13. \A r, s \in DOMAIN rows : r < s => Before(rows[r], rows[s])
  BY <1>8, <1>9, <1>10, <1>11
<1>14. ASSUME NEW i \in eligible \ Range(rows)
       PROVE  Len(rows) = MAX_RESULTS /\ \A r \in DOMAIN rows : Before(rows[r], i)
  <2>1. PICK p \in 1..Len(ranked) : ranked[p] = i
    BY <1>5, <1>7
  <2>2. p \notin 1..Len(rows)
    BY <1>8, <1>9, <2>1 DEF Range
  <2>3. Len(rows) < Len(ranked) /\ \A r \in 1..Len(rows) : r < p
    BY <1>9, <2>2
  <2> QED
    BY <1>8, <1>9, <1>10, <1>11, <2>1, <2>3
<1> QED
  BY <1>1, <1>8, <1>12, <1>13, <1>14 DEF BestMatches, Before, eligible

THEOREM AnswersAreBest == Spec => []BestMatches
<1>1. answer = NoAnswer => BestMatches
  <2>1. /\ Len(<<>>) = 0 /\ DOMAIN <<>> = {}
        /\ Range(<<>>) = {}
    BY DEF Range
  <2> QED
    BY <2>1, NumbersAssumption DEF NoAnswer, BestMatches
<1>2. IInv => BestMatches
  BY <1>1, AnsweredBest DEF IInv
<1> QED
  BY <1>2, SpecIInv, PTL
=============================================================================
