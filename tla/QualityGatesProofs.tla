-------------------------- MODULE QualityGatesProofs --------------------------
(* Proofs that hold for every file, every K, percentile and number of lines. *)
EXTENDS QualityGates, FiniteSetTheorems, WellFoundedInduction, TLAPS

-----------------------------------------------------------------------------
(* Numbers.                                                                *)

LEMMA LeastNatural ==
  ASSUME NEW S, S \subseteq Nat, S # {}
  PROVE  \E least \in S : \A n \in S : least <= n
  <1> DEFINE Less == {ss \in Nat \X Nat : ss[1] < ss[2]}
  <1>1. IsWellFoundedOn(Less, Nat)
    BY NatLessThanWellFounded DEF OpToRel
  <1>2. \A m, n \in Nat : m < n => <<m, n>> \in Less
    OBVIOUS
  <1> HIDE DEF Less
  <1>3. PICK least \in S : \A n \in S : <<n, least>> \notin Less
    BY <1>1, WFMin
  <1>4. ASSUME NEW n \in S PROVE least <= n
    <2>1. least \in Nat /\ n \in Nat
      OBVIOUS
    <2>2. ~(n < least)
      BY <1>2, <1>3, <2>1, Zenon
    <2> QED BY <2>1, <2>2
  <1> QED BY <1>4

LEMMA GreatestNatural ==
  ASSUME NEW S, S \subseteq Nat, S # {}, IsFiniteSet(S)
  PROVE  \E greatest \in S : \A n \in S : n <= greatest
  <1> DEFINE From(m) == {n \in S : m <= n}
             Sizes == {Cardinality(From(m)) : m \in S}
  <1>1. ASSUME NEW m \in S
        PROVE  IsFiniteSet(From(m)) /\ Cardinality(From(m)) \in Nat
    <2>1. From(m) \in SUBSET S
      OBVIOUS
    <2> QED BY <2>1, FS_Subset, FS_CardinalityType
  <1>2. PICK greatest \in S : \A m \in S : Cardinality(From(greatest)) <= Cardinality(From(m))
    <2>1. Sizes \subseteq Nat /\ Sizes # {}
      BY <1>1
    <2>2. PICK least \in Sizes : \A size \in Sizes : least <= size
      BY <2>1, LeastNatural
    <2> QED BY <2>2
  <1>3. ASSUME NEW n \in S, ~(n <= greatest) PROVE FALSE
    <2>1. n \in Nat /\ greatest \in Nat /\ greatest < n
      BY <1>3
    <2>2. \A m \in S : n <= m => greatest <= m
      BY <2>1
    <2>3. /\ From(n) \in SUBSET From(greatest)
          /\ greatest \in From(greatest)
          /\ greatest \notin From(n)
      <3>1. \A m \in From(n) : m \in From(greatest)
        BY <2>2
      <3>2. greatest <= greatest /\ ~(n <= greatest)
        BY <2>1
      <3> QED BY <3>1, <3>2
    <2> HIDE DEF From
    <2>4. Cardinality(From(n)) < Cardinality(From(greatest))
      BY <1>1, <2>3, FS_Subset
    <2> QED BY <1>1, <1>2, <2>4
  <1> QED BY <1>3

LEMMA OneIsPositive == 1 \in Nat \ {0}
  OBVIOUS

LEMMA MultipleOfNext ==
  ASSUME NEW n \in Int, NEW s \in Int
  PROVE  (n + 1) * s = n * s + s
  OBVIOUS

LEMMA MultiplesGrow ==
  ASSUME NEW m \in Nat, NEW n \in Nat, NEW q \in Nat, n <= m
  PROVE  /\ n * q <= m * q
         /\ n < m => n * q + q <= m * q
  <1>1. PICK d \in Nat : m = n + d
    <2>1. m - n \in Nat /\ m = n + (m - n)
      OBVIOUS
    <2> QED BY <2>1
  <1>2. m * q = n * q + d * q
    BY <1>1
  <1>3. d * q \in Nat /\ n * q \in Nat
    OBVIOUS
  <1>4. d # 0 => d * q >= q
    OBVIOUS
  <1> QED BY <1>1, <1>2, <1>3, <1>4

LEMMA QuotientBound ==
  ASSUME NEW s \in Nat, NEW m \in Nat \ {0}
  PROVE  s \div m \in Nat /\ m * (s \div m) <= s
  OBVIOUS

\* A share of s in m-ths reaches s only with all of them.
LEMMA ShareBound ==
  ASSUME NEW s \in Nat \ {0}, NEW m \in Nat \ {0}, NEW n \in 0 .. m
  PROVE  /\ n * (s \div m) \in 0 .. s
         /\ n * (s \div m) = s => n = m
  <1>1. PICK q \in Nat : q = s \div m /\ m * q <= s
    BY QuotientBound
  <1>2. n * q <= m * q /\ (n < m => n * q + q <= m * q)
    BY MultiplesGrow
  <1>3. n * q \in Nat /\ m * q \in Nat
    OBVIOUS
  <1>4. ASSUME n * q = s PROVE n = m
    <2>1. q # 0
      BY <1>4
    <2> QED BY <1>1, <1>2, <1>3, <1>4, <2>1
  <1> QED BY <1>1, <1>2, <1>3, <1>4

LEMMA Division ==
  ASSUME NEW s \in Nat, NEW m \in Nat \ {0}
  PROVE  /\ m <= s => s \div m \in Nat \ {0}
         /\ s < m => s % m = s
  OBVIOUS

LEMMA PrefixDomain ==
  ASSUME NEW S, NEW s \in Seq(S), NEW k \in 0 .. Len(s)
  PROVE  DOMAIN SubSeq(s, 1, k) = 1 .. k /\ Len(SubSeq(s, 1, k)) = k
  OBVIOUS

\* A scale that m divides has m-ths.
LEMMA ShareOfScale ==
  ASSUME NEW m \in 1 .. K
  PROVE  Scale \div m \in Nat \ {0}
  <1>1. Scale \in Nat \ {0} /\ Scale % m = 0 /\ m \in Nat \ {0}
    BY QualityGatesAssumption
  <1>2. m <= Scale
    BY <1>1, Division
  <1> QED BY <1>1, <1>2, Division

-----------------------------------------------------------------------------
(* One case.                                                               *)

LEMMA FileDomain ==
  ASSUME NEW file, IsFile(file)
  PROVE  /\ Len(file) \in Nat
         /\ DOMAIN file = 1 .. Len(file)
         /\ file = <<>> <=> Len(file) = 0
  BY DEF IsFile

LEMMA TopDomain ==
  ASSUME NEW ranked, IsFile(ranked)
  PROVE  /\ DOMAIN TopK(ranked) = 1 .. K \cap DOMAIN ranked
         /\ Len(TopK(ranked)) \in 0 .. K
         /\ ranked # <<>> => Len(TopK(ranked)) \in 1 .. K
  <1>1. K \in Nat \ {0}
    BY QualityGatesAssumption
  <1>2. /\ Len(ranked) \in Nat
        /\ DOMAIN ranked = 1 .. Len(ranked)
        /\ ranked = <<>> <=> Len(ranked) = 0
    BY FileDomain
  <1>3. ranked \in Seq({ranked[n] : n \in DOMAIN ranked})
    BY DEF IsFile
  <1> DEFINE k == IF Len(ranked) < K THEN Len(ranked) ELSE K
  <1>4. /\ k \in 0 .. Len(ranked) /\ k \in 0 .. K
        /\ 1 .. k = 1 .. K \cap DOMAIN ranked
        /\ Len(ranked) # 0 => k # 0
    <2>1. CASE Len(ranked) < K
      BY <1>1, <1>2, <2>1
    <2>2. CASE ~(Len(ranked) < K)
      BY <1>1, <1>2, <2>2
    <2> QED BY <2>1, <2>2
  <1>5. TopK(ranked) = SubSeq(ranked, 1, k)
    BY DEF TopK
  <1> HIDE DEF k
  <1>6. DOMAIN TopK(ranked) = 1 .. k /\ Len(TopK(ranked)) = k
    BY <1>3, <1>4, <1>5, PrefixDomain
  <1> QED BY <1>1, <1>2, <1>4, <1>6

\* Recall is full only if every relevant chunk is among the first K.
LEMMA RecallFull ==
  ASSUME NEW c, IsFiniteSet(c.relevant), NEW ranked, IsFile(ranked)
  PROVE  /\ Recall(c, ranked) \in 0 .. Scale
         /\ Recall(c, ranked) = Scale => c.relevant # {} /\ c.relevant \subseteq Top(ranked)
  <1>1. Scale \in Nat \ {0}
    BY QualityGatesAssumption
  <1>2. CASE c.relevant = {}
    BY <1>1, <1>2 DEF Recall
  <1>3. CASE c.relevant # {}
    <2> DEFINE Found == {ranked[n] : n \in Hits(ranked, c.relevant)}
    <2>1. Found \subseteq c.relevant /\ Found \subseteq Top(ranked)
      BY TopDomain DEF Hits, Top
    <2>2. PICK found \in Nat, wanted \in Nat \ {0} :
                found = Cardinality(Found) /\ wanted = Cardinality(c.relevant)
      BY <1>3, <2>1, FS_Subset, FS_CardinalityType, FS_EmptySet
    <2>3. found <= wanted /\ (found = wanted => Found = c.relevant)
      BY <2>1, <2>2, FS_Subset
    <2>4. Recall(c, ranked) = found * (Scale \div wanted)
      BY <1>3, <2>2 DEF Recall
    <2> HIDE DEF Found
    <2> QED BY <1>1, <1>3, <2>1, <2>2, <2>3, <2>4, ShareBound
  <1> QED BY <1>2, <1>3

\* The rate is zero only without a forbidden chunk among the first K.
LEMMA ForbiddenNone ==
  ASSUME NEW c, NEW ranked, IsFile(ranked)
  PROVE  /\ ForbiddenRate(c, ranked) \in Nat
         /\ ForbiddenRate(c, ranked) = 0 => Top(ranked) \cap c.forbidden = {}
  <1>1. CASE ranked = <<>>
    BY <1>1, FileDomain DEF ForbiddenRate, Top
  <1>2. CASE ranked # <<>>
    <2>1. PICK q \in Nat \ {0} : q = Scale \div Len(TopK(ranked))
      BY <1>2, TopDomain, ShareOfScale
    <2>2. Hits(ranked, c.forbidden) \subseteq 1 .. K
      BY TopDomain DEF Hits
    <2>3. IsFiniteSet(Hits(ranked, c.forbidden))
      <3>1. IsFiniteSet(1 .. K)
        BY FS_Interval, QualityGatesAssumption
      <3> QED BY <2>2, <3>1, FS_Subset
    <2>4. PICK hits \in Nat : hits = Cardinality(Hits(ranked, c.forbidden))
      BY <2>3, FS_CardinalityType
    <2>5. ForbiddenRate(c, ranked) = hits * q
      BY <1>2, <2>1, <2>4 DEF ForbiddenRate
    <2>6. hits * q \in Nat /\ (hits * q = 0 => hits = 0)
      OBVIOUS
    <2>7. hits = 0 => Hits(ranked, c.forbidden) = {}
      BY <2>3, <2>4, FS_EmptySet
    <2>8. Hits(ranked, c.forbidden) = {} => Top(ranked) \cap c.forbidden = {}
      BY TopDomain DEF Hits, Top
    <2> QED BY <2>5, <2>6, <2>7, <2>8
  <1> QED BY <1>1, <1>2

-----------------------------------------------------------------------------
(* The percentile.                                                         *)

LEMMA RoundedUp ==
  ASSUME NEW x \in Nat, NEW n \in Nat
  PROVE  LET rank == (x + 99) \div 100 IN
         /\ rank \in Nat
         /\ 100 * rank >= x
         /\ x >= 1 => rank >= 1
         /\ x <= 100 * n => rank <= n
  OBVIOUS

LEMMA RankBounds ==
  ASSUME NEW n \in Nat \ {0}
  PROVE  /\ RankOfP95(n) \in 1 .. n
         /\ 100 * RankOfP95(n) >= Percentile * n
  <1>1. Percentile \in Nat /\ 1 <= Percentile /\ Percentile <= 100
    BY QualityGatesAssumption
  <1>2. 1 * n <= Percentile * n /\ Percentile * n <= 100 * n /\ Percentile * n \in Nat
    BY <1>1, MultiplesGrow
  <1>3. PICK x \in Nat : x = Percentile * n
    BY <1>2
  <1>4. x >= 1 /\ x <= 100 * n /\ RankOfP95(n) = (x + 99) \div 100
    BY <1>2, <1>3 DEF RankOfP95
  <1> QED BY <1>3, <1>4, RoundedUp

\* Among numbers, the latency the code picks exists, and as many cases as the
\* percentile says are not slower.
LEMMA PercentileExact ==
  ASSUME IsFile(cases), cases # <<>>, \A c \in DOMAIN cases : Latency(c) \in Nat
  PROVE  /\ P95Values # {}
         /\ \A p95 \in P95Values :
                /\ p95 \in Nat
                /\ Cardinality({c \in DOMAIN cases : Latency(c) <= p95})
                        >= RankOfP95(Len(cases))
  <1> DEFINE AtMost(v) == {c \in DOMAIN cases : Latency(c) <= v}
             Below(v) == {c \in DOMAIN cases : Latency(c) < v}
             rank == RankOfP95(Len(cases))
  <1>1. Len(cases) \in Nat \ {0} /\ DOMAIN cases = 1 .. Len(cases)
    BY FileDomain
  <1>2. rank \in Nat /\ 1 <= rank /\ rank <= Len(cases)
    BY <1>1, RankBounds
  <1>3. IsFiniteSet(DOMAIN cases) /\ Cardinality(DOMAIN cases) = Len(cases)
    BY <1>1, FS_Interval
  <1>4. \A v : /\ IsFiniteSet(AtMost(v)) /\ Cardinality(AtMost(v)) \in Nat
               /\ IsFiniteSet(Below(v)) /\ Cardinality(Below(v)) \in Nat
    <2>1. \A v : AtMost(v) \in SUBSET DOMAIN cases /\ Below(v) \in SUBSET DOMAIN cases
      OBVIOUS
    <2> HIDE DEF AtMost, Below
    <2> QED BY <1>3, <2>1, FS_Subset, FS_CardinalityType
  <1> HIDE DEF rank
  <1>5. Latencies \subseteq Nat /\ Latencies # {} /\ NaN \notin Latencies
    BY <1>1, FilesAssumption DEF Latencies
  <1>6. ASSUME NEW D \in SUBSET DOMAIN cases, D # {}
        PROVE  \E c \in D : \A d \in D : Latency(d) <= Latency(c)
    <2> DEFINE Image == {Latency(c) : c \in D}
    <2>1. IsFiniteSet(Image)
      <3>1. IsFiniteSet(D)
        BY <1>3, FS_Subset
      <3>2. PICK f : f = [c \in D |-> Latency(c)]
        OBVIOUS
      <3>3. f \in Surjection(D, Image)
        BY <3>2 DEF Surjection
      <3> QED BY <3>1, <3>3, FS_Surjection
    <2>2. Image \subseteq Nat /\ Image # {}
      <3>1. \A c \in D : Latency(c) \in Nat
        OBVIOUS
      <3>2. PICK c \in D : TRUE
        BY <1>6
      <3> QED BY <3>1, <3>2
    <2>3. PICK greatest \in Image : \A l \in Image : l <= greatest
      BY <2>1, <2>2, GreatestNatural
    <2> QED BY <2>3
  <1>7. PICK v \in Latencies : /\ Cardinality(AtMost(v)) >= rank
                               /\ \A u \in Latencies :
                                    Cardinality(AtMost(u)) >= rank => v <= u
    <2> DEFINE Enough == {u \in Latencies : Cardinality(AtMost(u)) >= rank}
    <2>1. PICK c \in DOMAIN cases : \A d \in DOMAIN cases : Latency(d) <= Latency(c)
      <3>1. DOMAIN cases # {}
        BY <1>1
      <3> QED BY <1>6, <3>1
    <2>2. AtMost(Latency(c)) = DOMAIN cases
      BY <2>1
    <2>3. Latency(c) \in Enough
      BY <1>2, <1>3, <2>2 DEF Latencies
    <2>4. PICK least \in Enough : \A u \in Enough : least <= u
      BY <1>5, <2>3, LeastNatural
    <2> QED BY <2>4
  <1>8. Cardinality(Below(v)) < rank
    <2>1. CASE Below(v) = {}
      BY <1>2, <2>1, FS_EmptySet
    <2>2. CASE Below(v) # {}
      <3>1. PICK c \in Below(v) : \A d \in Below(v) : Latency(d) <= Latency(c)
        BY <1>6, <2>2
      <3>2. Latency(c) \in Latencies /\ Latency(c) < v
        BY DEF Latencies
      <3>3. Below(v) = AtMost(Latency(c))
        BY <1>5, <3>1, <3>2 DEF Latencies
      <3>4. ~(v <= Latency(c))
        BY <1>5, <3>2
      <3> HIDE DEF AtMost, Below
      <3>5. ~(Cardinality(AtMost(Latency(c))) >= rank)
        BY <1>7, <3>2, <3>4
      <3> QED BY <1>2, <1>4, <3>3, <3>5
    <2> QED BY <2>1, <2>2
  <1>9. P95Values =
            {u \in Latencies : Cardinality(Below(u)) < rank /\ Cardinality(AtMost(u)) >= rank}
    BY <1>5 DEF P95Values, rank
  <1> HIDE DEF AtMost, Below
  <1>10. P95Values # {}
    BY <1>7, <1>8, <1>9
  <1>11. \A p95 \in P95Values : p95 \in Nat /\ Cardinality(AtMost(p95)) >= rank
    BY <1>5, <1>9
  <1> QED BY <1>10, <1>11 DEF AtMost, rank

-----------------------------------------------------------------------------
(* The inductive invariant.                                                *)

LEMMA InitGates == Init => GatesInv
  <1> SUFFICES ASSUME Init PROVE GatesInv
    OBVIOUS
  <1>1. IsFile(cases) /\ IsFile(lines) /\ IsFile(checks)
    BY DEF Init, IsFile
  <1>2. TypeOK
    BY <1>1 DEF Init, TypeOK
  <1> QED BY <1>2 DEF Init, GatesInv, LinesParsed, CountsFresh, PredictionsExact, SumsExact,
    RetrievalPassed, ChecksExact, GreenHasNoFailure

\* What the dictionary of predictions gives once it is complete.
LEMMA PredictionRead ==
  ASSUME GatesInv, step \notin {"cases", "predictions", "red"},
         NEW c \in DOMAIN cases, PredictionOf(c) # 0
  PROVE  /\ cases[c].id \in CaseIds
         /\ PredictionOf(c) \in DOMAIN lines
         /\ lines[PredictionOf(c)].case = cases[c].id
         /\ IsFile(RankedOf(c))
         /\ Latency(c) \in Nat \cup {NaN}
         /\ \A m \in DOMAIN lines : lines[m].case = cases[c].id => m = PredictionOf(c)
  <1>1. cases[c].id \in CaseIds
    BY DEF GatesInv, LinesParsed
  <1>2. PredictionOf(c) \in DOMAIN lines /\ lines[PredictionOf(c)].case = cases[c].id
    BY <1>1 DEF GatesInv, PredictionsExact, Loaded, PredictionOf
  <1>3. \A m \in DOMAIN lines : lines[m] # Invalid /\ predictions[lines[m].case] = m
    BY DEF GatesInv, PredictionsExact, Loaded
  <1>4. IsFile(RankedOf(c)) /\ Latency(c) \in Nat \cup {NaN}
    BY <1>2, <1>3 DEF GatesInv, LinesParsed, RankedOf, Latency
  <1> QED BY <1>1, <1>2, <1>3, <1>4 DEF PredictionOf

LEMMA CaseScores ==
  ASSUME GatesInv, step \notin {"cases", "predictions", "red"},
         NEW c \in DOMAIN cases, PredictionOf(c) # 0
  PROVE  /\ Recall(cases[c], RankedOf(c)) \in 0 .. Scale
         /\ ForbiddenRate(cases[c], RankedOf(c)) \in Nat
  BY PredictionRead, RecallFull, ForbiddenNone DEF GatesInv, LinesParsed

LEMMA StepLoadCases ==
  ASSUME GatesInv, LoadCases
  PROVE  GatesInv'
  <1>1. cases' \in CaseFiles /\ lines' \in PredictionFiles
    BY DEF LoadCases
  <1>2. IsFile(cases)' /\ IsFile(lines)' /\ IsFile(checks)'
    BY <1>1, FilesAssumption DEF LoadCases, GatesInv, TypeOK, IsFile
  <1>3. CASE step' = "red"
    BY <1>2, <1>3 DEF LoadCases, Stop, Proceed, GatesInv, TypeOK, LinesParsed, CountsFresh,
       PredictionsExact, SumsExact, RetrievalPassed, ChecksExact, GreenHasNoFailure
  <1>4. CASE step' # "red"
    <2>1. ~HasInvalid(cases') /\ step' = "predictions" /\ next' = 1
      BY <1>4 DEF LoadCases, Stop, Proceed
    <2>2. \A c \in DOMAIN cases' : cases'[c] # Invalid
      BY <2>1 DEF HasInvalid
    <2>3. LinesParsed'
      BY <1>1, <2>2, FilesAssumption DEF LinesParsed, IsFile
    <2>4. TypeOK'
      BY <1>2, <2>1 DEF LoadCases, GatesInv, TypeOK
    <2>5. PredictionsExact'
      <3>1. Loaded' = {} /\ predictions' = [id \in CaseIds |-> 0]
        BY <2>1 DEF Loaded, LoadCases, GatesInv, CountsFresh
      <3> QED BY <3>1 DEF PredictionsExact
    <2> QED BY <2>1, <2>3, <2>4, <2>5 DEF LoadCases, GatesInv, CountsFresh, SumsExact,
      RetrievalPassed, ChecksExact, GreenHasNoFailure
  <1> QED BY <1>3, <1>4

LEMMA StepLoadPrediction ==
  ASSUME GatesInv, LoadPrediction
  PROVE  GatesInv'
  <1>1. /\ step = "predictions" /\ next \in 1 .. Len(lines) /\ next \in DOMAIN lines
        /\ UNCHANGED <<cases, lines, checks, recall, forbidden, failures>>
    BY FileDomain DEF LoadPrediction, files, GatesInv, TypeOK
  <1>2. IsFile(cases)' /\ IsFile(lines)' /\ IsFile(checks)'
    BY <1>1 DEF GatesInv, TypeOK, IsFile
  <1>3. CASE step' = "red"
    <2>1. UNCHANGED <<predictions, next>>
      BY <1>1, <1>3 DEF LoadPrediction, Stop
    <2> QED BY <1>1, <1>2, <1>3, <2>1 DEF GatesInv, TypeOK, LinesParsed, CountsFresh,
       PredictionsExact, SumsExact, RetrievalPassed, ChecksExact, GreenHasNoFailure
  <1>4. CASE step' # "red"
    <2>1. /\ lines[next] # Invalid /\ predictions[lines[next].case] = 0
          /\ predictions' = [predictions EXCEPT ![lines[next].case] = next]
          /\ next' = next + 1 /\ step' = step
      BY <1>4 DEF LoadPrediction, Stop
    <2>2. lines[next].case \in CaseIds
      BY <1>1, <2>1 DEF GatesInv, LinesParsed
    <2>3. TypeOK'
      <3>1. next \in Nat \ {0} /\ predictions \in [CaseIds -> Nat]
        BY DEF GatesInv, TypeOK
      <3>2. next' \in Nat \ {0}
        BY <2>1, <3>1
      <3>3. predictions' \in [CaseIds -> Nat]
        BY <2>1, <3>1
      <3> QED BY <1>1, <1>2, <2>1, <3>2, <3>3 DEF GatesInv, TypeOK
    <2>4. LinesParsed'
      BY <1>1, <2>1 DEF GatesInv, LinesParsed, IsFile
    <2>5. PredictionsExact'
      <3>1. Loaded = 1 .. next - 1 /\ Loaded' = Loaded \cup {next} /\ next \notin Loaded
        <4>1. next \in Nat \ {0}
          BY DEF GatesInv, TypeOK
        <4>2. Loaded = 1 .. next - 1 /\ Loaded' = 1 .. next
          BY <1>1, <2>1, <4>1 DEF Loaded
        <4> QED BY <4>1, <4>2
      <3>2. \A id \in CaseIds :
                predictions'[id] = IF id = lines[next].case THEN next ELSE predictions[id]
        BY <2>1 DEF GatesInv, TypeOK
      <3>3. \A n \in Loaded' \cap DOMAIN lines :
                lines[n] # Invalid /\ predictions'[lines[n].case] = n
        <4> SUFFICES ASSUME NEW n \in Loaded' \cap DOMAIN lines
                     PROVE  lines[n] # Invalid /\ predictions'[lines[n].case] = n
          OBVIOUS
        <4>1. CASE n = next
          BY <2>1, <2>2, <3>2, <4>1
        <4>2. CASE n # next
          <5>1. n \in Loaded /\ n # 0 /\ lines[n] # Invalid /\ predictions[lines[n].case] = n
            BY <1>1, <3>1, <4>2 DEF GatesInv, PredictionsExact
          <5>2. lines[n].case \in CaseIds /\ lines[n].case # lines[next].case
            BY <1>1, <2>1, <5>1 DEF GatesInv, LinesParsed
          <5> QED BY <3>2, <5>1, <5>2
        <4> QED BY <4>1, <4>2
      <3>4. \A id \in CaseIds : predictions'[id] # 0 =>
                /\ predictions'[id] \in Loaded' \cap DOMAIN lines
                /\ lines[predictions'[id]].case = id
        BY <1>1, <3>1, <3>2 DEF GatesInv, PredictionsExact
      <3> QED BY <1>1, <3>3, <3>4 DEF PredictionsExact
    <2> QED BY <1>1, <2>1, <2>3, <2>4, <2>5 DEF GatesInv, CountsFresh, SumsExact,
      RetrievalPassed, ChecksExact, GreenHasNoFailure
  <1> QED BY <1>3, <1>4

LEMMA StepEndPredictions ==
  ASSUME GatesInv, EndPredictions
  PROVE  GatesInv'
  <1>1. /\ step = "predictions" /\ step' = "retrieval" /\ next > Len(lines) /\ next' = 1
        /\ UNCHANGED <<cases, lines, checks, predictions, recall, forbidden, failures>>
    BY DEF EndPredictions, Proceed, files
  <1>2. TypeOK'
    BY <1>1 DEF GatesInv, TypeOK, IsFile
  <1>3. LinesParsed'
    BY <1>1 DEF GatesInv, LinesParsed, IsFile
  <1>4. PredictionsExact'
    <2>1. Loaded \cap DOMAIN lines = DOMAIN lines /\ Loaded' \cap DOMAIN lines' = DOMAIN lines
      <3>1. DOMAIN lines = 1 .. Len(lines) /\ Len(lines) \in Nat /\ next \in Nat
        BY FileDomain DEF GatesInv, TypeOK
      <3>2. Loaded = 1 .. next - 1 /\ Loaded' = DOMAIN lines
        BY <1>1 DEF Loaded
      <3>3. \A n \in DOMAIN lines : n \in 1 .. next - 1
        BY <1>1, <3>1
      <3> QED BY <1>1, <3>2, <3>3
    <2> QED BY <1>1, <2>1 DEF GatesInv, PredictionsExact
  <1>5. SumsExact'
    <2>1. recall' = 0 /\ forbidden' = 0 /\ Len(cases) \in Nat /\ 1 .. next' - 1 = {}
      BY <1>1, FileDomain DEF GatesInv, CountsFresh, TypeOK
    <2>2. (next' - 1) * Scale = 0
      BY <1>1, QualityGatesAssumption
    <2> QED BY <1>1, <2>1, <2>2 DEF SumsExact
  <1> QED BY <1>1, <1>2, <1>3, <1>4, <1>5 DEF GatesInv, CountsFresh, RetrievalPassed,
    ChecksExact, GreenHasNoFailure

\* The sum after n cases can be full only if it was full before the last.
LEMMA SumStep ==
  ASSUME NEW n \in Nat, NEW s \in Nat \ {0}, NEW sum \in Nat, NEW x \in 0 .. s, sum <= n * s
  PROVE  /\ sum + x <= (n + 1) * s
         /\ sum + x = (n + 1) * s => sum = n * s /\ x = s
  <1>1. (n + 1) * s = n * s + s /\ n * s \in Nat
    BY MultipleOfNext
  <1> QED BY <1>1

LEMMA StepEvaluateCase ==
  ASSUME GatesInv, EvaluateCase
  PROVE  GatesInv'
  <1>1. /\ step = "retrieval" /\ step' = "retrieval"
        /\ next' = next + 1
        /\ UNCHANGED <<cases, lines, checks, predictions, failures>>
    BY DEF EvaluateCase, files
  <1>2. /\ next \in Nat \ {0} /\ next \in DOMAIN cases /\ next <= Len(cases)
        /\ Len(cases) \in Nat /\ DOMAIN cases = 1 .. Len(cases)
    BY FileDomain DEF EvaluateCase, GatesInv, TypeOK
  <1>3. PICK x \in 0 .. Scale, y \in Nat :
            /\ recall' = recall + x /\ forbidden' = forbidden + y
            /\ x = Scale => PredictionOf(next) # 0 /\ Recall(cases[next], RankedOf(next)) = Scale
            /\ y = 0 /\ PredictionOf(next) # 0 => ForbiddenRate(cases[next], RankedOf(next)) = 0
    <2>1. Scale \in Nat \ {0} /\ recall \in Nat /\ forbidden \in Nat
      BY QualityGatesAssumption DEF GatesInv, TypeOK
    <2>2. CASE PredictionOf(next) = 0
      <3>1. 0 \in 0 .. Scale /\ recall' = recall + 0 /\ forbidden' = forbidden + 0 /\ 0 # Scale
        BY <2>1, <2>2 DEF EvaluateCase
      <3> QED BY <2>2, <3>1
    <2>3. CASE PredictionOf(next) # 0
      <3>1. /\ recall' = recall + Recall(cases[next], RankedOf(next))
            /\ forbidden' = forbidden + ForbiddenRate(cases[next], RankedOf(next))
        BY <2>3 DEF EvaluateCase, RankedOf
      <3>2. /\ Recall(cases[next], RankedOf(next)) \in 0 .. Scale
            /\ ForbiddenRate(cases[next], RankedOf(next)) \in Nat
        BY <1>1, <1>2, <2>3, CaseScores
      <3> QED BY <2>3, <3>1, <3>2
    <2> QED BY <2>2, <2>3
  <1>4. TypeOK'
    <2>1. recall' \in Nat /\ forbidden' \in Nat /\ next' \in Nat \ {0}
      BY <1>1, <1>2, <1>3, QualityGatesAssumption DEF GatesInv, TypeOK
    <2> QED BY <1>1, <2>1 DEF GatesInv, TypeOK, IsFile
  <1>5. LinesParsed'
    BY <1>1 DEF GatesInv, LinesParsed, IsFile
  <1>6. PredictionsExact'
    BY <1>1 DEF GatesInv, PredictionsExact, Loaded
  <1>7. SumsExact'
    <2>1. PICK n \in Nat : n = next - 1 /\ next' - 1 = n + 1 /\ 1 .. next' - 1 = 1 .. n \cup {next}
      BY <1>1, <1>2
    <2>2. /\ recall <= n * Scale
          /\ recall = n * Scale =>
                \A c \in 1 .. n : PredictionOf(c) # 0 /\ Recall(cases[c], RankedOf(c)) = Scale
          /\ forbidden = 0 =>
                \A c \in 1 .. n : PredictionOf(c) # 0 =>
                    ForbiddenRate(cases[c], RankedOf(c)) = 0
      BY <1>1, <2>1 DEF GatesInv, SumsExact
    <2>3. recall \in Nat /\ forbidden \in Nat /\ Scale \in Nat \ {0}
      BY QualityGatesAssumption DEF GatesInv, TypeOK
    <2>4. /\ recall' <= (n + 1) * Scale
          /\ recall' = (n + 1) * Scale => recall = n * Scale /\ recall' = recall + Scale
      BY <1>3, <2>2, <2>3, SumStep
    <2>5. recall' = recall + Scale =>
            PredictionOf(next) # 0 /\ Recall(cases[next], RankedOf(next)) = Scale
      BY <1>3, <2>3
    <2>6. forbidden' = 0 =>
            /\ forbidden = 0
            /\ PredictionOf(next) # 0 => ForbiddenRate(cases[next], RankedOf(next)) = 0
      BY <1>3, <2>3
    <2>7. next' <= Len(cases) + 1
      BY <1>1, <1>2
    <2>8. recall' = (next' - 1) * Scale =>
            \A c \in 1 .. next' - 1 : PredictionOf(c) # 0 /\ Recall(cases[c], RankedOf(c)) = Scale
      BY <2>1, <2>2, <2>4, <2>5
    <2>9. forbidden' = 0 =>
            \A c \in 1 .. next' - 1 : PredictionOf(c) # 0 =>
                ForbiddenRate(cases[c], RankedOf(c)) = 0
      BY <2>1, <2>2, <2>6
    <2>10. recall' <= (next' - 1) * Scale
      BY <2>1, <2>4
    <2> QED BY <1>1, <2>7, <2>8, <2>9, <2>10 DEF SumsExact, RankedOf, PredictionOf
  <1> QED BY <1>1, <1>4, <1>5, <1>6, <1>7 DEF GatesInv, CountsFresh, RetrievalPassed,
    ChecksExact, GreenHasNoFailure

\* A step that ends the job in red, or that leaves the retrieval results alone,
\* keeps what they say.
LEMMA RetrievalKept ==
  ASSUME GatesInv, UNCHANGED <<cases, lines, predictions, recall, forbidden>>,
         step \in {"security cases", "security"},
         step' \in {"security cases", "security", "green", "red"}
  PROVE  /\ LinesParsed' /\ PredictionsExact' /\ SumsExact' /\ RetrievalPassed'
  <1>1. LinesParsed'
    BY DEF GatesInv, LinesParsed, IsFile
  <1>2. PredictionsExact'
    BY DEF GatesInv, PredictionsExact, Loaded
  <1>3. RetrievalPassed'
    <2>1. P95Values' = P95Values
      BY DEF P95Values, Latencies, Latency, PredictionOf
    <2> QED BY <2>1 DEF GatesInv, RetrievalPassed, RankedOf, PredictionOf
  <1> QED BY <1>1, <1>2, <1>3 DEF SumsExact

LEMMA StepGateRetrieval ==
  ASSUME GatesInv, GateRetrieval
  PROVE  GatesInv'
  <1>1. /\ step = "retrieval" /\ next > Len(cases)
        /\ UNCHANGED <<cases, lines, checks, predictions, recall, forbidden, failures>>
    BY DEF GateRetrieval, files
  <1>2. CASE step' = "red"
    <2>1. next' = next
      BY <1>2 DEF GateRetrieval, Stop, Proceed
    <2> QED BY <1>1, <1>2, <2>1 DEF GatesInv, TypeOK, IsFile, LinesParsed, CountsFresh,
       PredictionsExact, SumsExact, RetrievalPassed, ChecksExact, GreenHasNoFailure
  <1>3. CASE step' # "red"
    <2>1. /\ step' = "security cases" /\ next' = 1
          /\ cases # <<>> /\ (\A c \in DOMAIN cases : PredictionOf(c) # 0)
          /\ \E p95 \in P95Values : RetrievalPasses(p95)
      BY <1>3 DEF GateRetrieval, Stop, Proceed
    <2>2. /\ next \in Nat \ {0} /\ next <= Len(cases) + 1
          /\ Len(cases) \in Nat /\ DOMAIN cases = 1 .. Len(cases)
      BY <1>1, FileDomain DEF GatesInv, TypeOK, SumsExact
    <2>3. PICK n \in Nat : n = next - 1 /\ n = Len(cases) /\ 1 .. next - 1 = DOMAIN cases
      <3>1. next - 1 = Len(cases)
        BY <1>1, <2>2
      <3> QED BY <2>2, <3>1
    <2>4. recall \in Nat /\ forbidden \in Nat /\ Scale \in Nat
      BY QualityGatesAssumption DEF GatesInv, TypeOK
    <2>5. recall = n * Scale
      <3>1. PICK full \in Nat : full = n * Scale
        BY <2>4
      <3>2. recall <= full
        BY <1>1, <2>3, <3>1 DEF GatesInv, SumsExact
      <3>3. 100 * n * Scale = 100 * full
        BY <2>3, <2>4, <3>1
      <3>4. 100 * recall >= 100 * full
        BY <2>1, <2>3, <3>3 DEF RetrievalPasses, MinRecall
      <3> QED BY <2>4, <3>1, <3>2, <3>4
    <2>6. forbidden = 0
      <3>1. 0 * n * Scale = 0
        BY <2>3, <2>4
      <3>2. 100 * forbidden <= 0
        BY <2>1, <2>3, <3>1 DEF RetrievalPasses, MaxForbidden
      <3> QED BY <2>4, <3>2
    <2>7. RetrievalPassed
        /\ \A c \in DOMAIN cases : /\ PredictionOf(c) # 0
                                   /\ Recall(cases[c], RankedOf(c)) = Scale
                                   /\ ForbiddenRate(cases[c], RankedOf(c)) = 0
      BY <1>1, <2>1, <2>3, <2>5, <2>6 DEF GatesInv, SumsExact, RetrievalPassed
    <2>8. P95Values' = P95Values
      BY <1>1 DEF P95Values, Latencies, Latency, PredictionOf
    <2>9. RetrievalPassed'
      BY <1>1, <2>1, <2>7, <2>8 DEF RetrievalPassed, RetrievalPasses, RankedOf, PredictionOf
    <2>10. PredictionsExact'
      BY <1>1, <2>1 DEF GatesInv, PredictionsExact, Loaded
    <2>11. TypeOK'
      <3>1. next' \in Nat \ {0}
        BY <2>1, OneIsPositive, Zenon
      <3> QED BY <1>1, <2>1, <3>1 DEF GatesInv, TypeOK, IsFile
    <2>12. LinesParsed'
      BY <1>1, <2>1 DEF GatesInv, LinesParsed, IsFile
    <2> QED BY <1>1, <2>1, <2>9, <2>10, <2>11, <2>12 DEF GatesInv, CountsFresh, SumsExact,
       ChecksExact, GreenHasNoFailure
  <1> QED BY <1>2, <1>3

LEMMA StepLoadSecurityCases ==
  ASSUME GatesInv, LoadSecurityCases
  PROVE  GatesInv'
  <1>1. /\ step = "security cases" /\ step' \in {"security", "red"}
        /\ checks' \in SecurityFiles
        /\ step' = "security" => next' = 1
        /\ next' \in {1, next}
        /\ UNCHANGED <<cases, lines, predictions, recall, forbidden, failures>>
    BY DEF LoadSecurityCases, Stop, Proceed
  <1>2. TypeOK'
    <2>1. IsFile(checks)'
      BY <1>1, FilesAssumption DEF IsFile
    <2>2. next' \in Nat \ {0}
      <3>1. next \in Nat \ {0}
        BY DEF GatesInv, TypeOK
      <3>2. next' = 1 \/ next' = next
        BY <1>1
      <3> QED BY <3>1, <3>2, OneIsPositive, Zenon
    <2> QED BY <1>1, <2>1, <2>2 DEF GatesInv, TypeOK, IsFile
  <1>3. ChecksExact'
    <2>1. 1 .. 1 - 1 = {}
      OBVIOUS
    <2> QED BY <1>1, <2>1 DEF ChecksExact, Checked
  <1> QED BY <1>1, <1>2, <1>3, RetrievalKept DEF GatesInv, CountsFresh, GreenHasNoFailure

LEMMA StepEvaluateCheck ==
  ASSUME GatesInv, EvaluateCheck
  PROVE  GatesInv'
  <1>1. /\ step = "security" /\ step' \in {"security", "red"}
        /\ UNCHANGED <<cases, lines, checks, predictions, recall, forbidden>>
        /\ next \in Nat \ {0} /\ next \in DOMAIN checks
    BY FileDomain DEF EvaluateCheck, Stop, files, GatesInv, TypeOK
  <1>2. CASE step' = "red"
    <2>1. UNCHANGED <<next, failures>>
      BY <1>1, <1>2 DEF EvaluateCheck, Stop
    <2>2. TypeOK'
      BY <1>1, <1>2, <2>1 DEF GatesInv, TypeOK, IsFile
    <2> QED BY <1>1, <1>2, <2>2, RetrievalKept DEF GatesInv, CountsFresh, ChecksExact,
       GreenHasNoFailure
  <1>3. CASE step' # "red"
    <2>1. /\ ~Raises(checks[next])
          /\ failures' = failures \cup {n \in {next} : ~Passes(checks[n])}
          /\ next' = next + 1 /\ step' = "security"
      BY <1>1, <1>3 DEF EvaluateCheck, Stop
    <2>2. TypeOK'
      <3>1. next' \in Nat \ {0}
        BY <1>1, <2>1
      <3>2. failures \subseteq Nat /\ {n \in {next} : ~Passes(checks[n])} \subseteq {next}
        BY DEF GatesInv, TypeOK
      <3>3. failures' \subseteq Nat
        BY <1>1, <2>1, <3>2
      <3> QED BY <1>1, <2>1, <3>1, <3>3 DEF GatesInv, TypeOK, IsFile
    <2>3. ChecksExact'
      <3>1. \A n \in 1 .. next' - 1 : n = next \/ n \in 1 .. next - 1
        BY <1>1, <2>1
      <3>2. \A n \in 1 .. next' - 1 \cap DOMAIN checks :
                /\ ~Raises(checks[n])
                /\ Passes(checks[n]) \/ n \in failures'
        BY <1>1, <2>1, <3>1 DEF GatesInv, ChecksExact, Checked
      <3> QED BY <1>1, <2>1, <3>2 DEF ChecksExact, Checked
    <2> QED BY <1>1, <2>1, <2>2, <2>3, RetrievalKept DEF GatesInv, CountsFresh, GreenHasNoFailure
  <1> QED BY <1>2, <1>3

LEMMA StepGateSecurity ==
  ASSUME GatesInv, GateSecurity
  PROVE  GatesInv'
  <1>1. /\ step = "security" /\ next > Len(checks)
        /\ step' \in {"green", "red"} /\ (step' = "green" => failures = {})
        /\ UNCHANGED <<cases, lines, checks, next, predictions, recall, forbidden, failures>>
    BY DEF GateSecurity, files
  <1>2. TypeOK'
    BY <1>1 DEF GatesInv, TypeOK, IsFile
  <1>3. ChecksExact'
    <2>1. /\ DOMAIN checks = 1 .. Len(checks) /\ Len(checks) \in Nat /\ next \in Nat
      BY FileDomain DEF GatesInv, TypeOK
    <2>2. \A n \in DOMAIN checks : n \in 1 .. next - 1
      BY <1>1, <2>1
    <2>3. \A n \in DOMAIN checks : /\ ~Raises(checks[n])
                                   /\ Passes(checks[n]) \/ n \in failures
      BY <1>1, <2>2 DEF GatesInv, ChecksExact, Checked
    <2> QED BY <1>1, <2>3 DEF ChecksExact, Checked
  <1> QED BY <1>1, <1>2, <1>3, RetrievalKept DEF GatesInv, CountsFresh, GreenHasNoFailure

\* The inductive invariant of the CI job: what has been read, summed and checked
\* so far says all of the lines it was read from.
THEOREM GatesInvariant == Spec => []GatesInv
  <1>1. GatesInv /\ [Next]_vars => GatesInv'
    <2> SUFFICES ASSUME GatesInv, [Next]_vars PROVE GatesInv'
      OBVIOUS
    <2>1. CASE UNCHANGED vars
      <3>1. TypeOK'
        BY <2>1 DEF vars, GatesInv, TypeOK, IsFile
      <3>6. LinesParsed'
        BY <2>1 DEF vars, files, GatesInv, LinesParsed
      <3>2. PredictionsExact' /\ ChecksExact'
        BY <2>1 DEF vars, GatesInv, PredictionsExact, Loaded, ChecksExact, Checked
      <3>3. SumsExact'
        BY <2>1 DEF vars, GatesInv, SumsExact, RankedOf, PredictionOf
      <3>4. P95Values' = P95Values
        BY <2>1 DEF vars, P95Values, Latencies, Latency, PredictionOf
      <3>5. RetrievalPassed'
        BY <2>1, <3>4 DEF vars, GatesInv, RetrievalPassed, RankedOf, PredictionOf
      <3> QED BY <2>1, <3>1, <3>2, <3>3, <3>5, <3>6 DEF vars, GatesInv, CountsFresh, GreenHasNoFailure
    <2> QED BY <2>1, StepLoadCases, StepLoadPrediction, StepEndPredictions, StepEvaluateCase,
      StepGateRetrieval, StepLoadSecurityCases, StepEvaluateCheck, StepGateSecurity DEF Next
  <1> QED BY <1>1, InitGates, PTL DEF Spec

\* Files, counters and results keep their types.
THEOREM TypeCorrect == Spec => []TypeOK
  <1>1. GatesInv => TypeOK
    BY DEF GatesInv
  <1> QED BY <1>1, GatesInvariant, PTL

\* Averages hide no case: a green retrieval gate has found, for every case, all
\* its relevant chunks and no forbidden one in its only prediction.
THEOREM NoCaseHidden == Spec => []GreenIsSafe
  <1>1. ASSUME GatesInv PROVE GreenIsSafe
    <2> SUFFICES ASSUME step = "green",
                        NEW c \in DOMAIN cases
                 PROVE  /\ cases # <<>>
                        /\ \E n \in DOMAIN lines :
                            /\ {m \in DOMAIN lines : lines[m].case = cases[c].id} = {n}
                            /\ Top(lines[n].ranked) \cap cases[c].forbidden = {}
                            /\ cases[c].relevant # {}
                            /\ cases[c].relevant \subseteq Top(lines[n].ranked)
      BY <1>1 DEF GreenIsSafe, GatesInv, RetrievalPassed
    <2>1. /\ cases # <<>>
          /\ PredictionOf(c) # 0
          /\ Recall(cases[c], RankedOf(c)) = Scale
          /\ ForbiddenRate(cases[c], RankedOf(c)) = 0
          /\ IsFiniteSet(cases[c].relevant)
      BY <1>1 DEF GatesInv, RetrievalPassed, LinesParsed
    <2>2. /\ PredictionOf(c) \in DOMAIN lines
          /\ IsFile(RankedOf(c))
          /\ {m \in DOMAIN lines : lines[m].case = cases[c].id} = {PredictionOf(c)}
      BY <1>1, <2>1, PredictionRead
    <2>3. /\ Top(RankedOf(c)) \cap cases[c].forbidden = {}
          /\ cases[c].relevant # {}
          /\ cases[c].relevant \subseteq Top(RankedOf(c))
      BY <2>1, <2>2, RecallFull, ForbiddenNone
    <2> QED BY <2>1, <2>2, <2>3 DEF RankedOf
  <1> QED BY <1>1, GatesInvariant, PTL

\* The rank the code computes never stops short of the percentile, for any
\* number of cases whose latencies are numbers.
THEOREM PercentileNotShort == Spec => []GreenIsFast
  <1>1. ASSUME GatesInv, step = "green", NaN \notin Latencies
        PROVE  100 * Cardinality(Within) >= Percentile * Len(cases)
    <2> DEFINE AtMost(v) == {c \in DOMAIN cases : Latency(c) <= v}
    <2>1. /\ IsFile(cases) /\ cases # <<>>
          /\ \A c \in DOMAIN cases : Latency(c) \in Nat
      BY <1>1, PredictionRead DEF GatesInv, RetrievalPassed, TypeOK, Latencies
    <2>2. Len(cases) \in Nat \ {0} /\ DOMAIN cases = 1 .. Len(cases)
      BY <2>1, FileDomain
    <2>3. PICK p95 \in Nat : /\ p95 <= MaxLatency
                             /\ Cardinality(AtMost(p95)) >= RankOfP95(Len(cases))
      <3>1. PICK p95 \in P95Values : ~Exceeds(p95, MaxLatency)
        BY <1>1 DEF GatesInv, RetrievalPassed
      <3>2. p95 \in Nat /\ Cardinality(AtMost(p95)) >= RankOfP95(Len(cases))
        BY <2>1, PercentileExact
      <3>3. p95 # NaN
        BY <3>2, FilesAssumption
      <3> HIDE DEF AtMost
      <3> QED BY <3>1, <3>2, <3>3 DEF Exceeds, MaxLatency
    <2>4. AtMost(p95) \in SUBSET Within
      BY <2>1, <2>3, FilesAssumption DEF Within, MaxLatency
    <2>5. Within \in SUBSET DOMAIN cases /\ IsFiniteSet(DOMAIN cases)
      BY <2>2, FS_Interval DEF Within
    <2> HIDE DEF AtMost
    <2>6. IsFiniteSet(Within)
      BY <2>5, FS_Subset
    <2>7. /\ Cardinality(AtMost(p95)) <= Cardinality(Within)
          /\ Cardinality(AtMost(p95)) \in Nat /\ Cardinality(Within) \in Nat
      BY <2>4, <2>6, FS_Subset, FS_CardinalityType
    <2>8. /\ RankOfP95(Len(cases)) \in Nat
          /\ 100 * RankOfP95(Len(cases)) >= Percentile * Len(cases)
          /\ Percentile * Len(cases) \in Nat
      <3>1. PICK n \in Nat \ {0} : n = Len(cases)
        BY <2>2
      <3>2. Percentile \in Nat /\ Percentile * n \in Nat
        BY QualityGatesAssumption
      <3> QED BY <3>1, <3>2, RankBounds
    <2> QED BY <2>3, <2>7, <2>8
  <1>2. GatesInv => GreenIsFast
    BY <1>1 DEF GreenIsFast
  <1> QED BY <1>2, GatesInvariant, PTL

\* No failed security case is lost, of whatever category and wherever it is in the
\* file, and none that cannot be evaluated.
THEOREM NoCheckHidden == Spec => []GreenIsSecure
  <1>1. ASSUME GatesInv PROVE GreenIsSecure
    <2> SUFFICES ASSUME step = "green", NEW check, NEW n \in DOMAIN checks, check = checks[n],
                        NEW shared, shared = check.allowed_roles \cap check.roles
                 PROVE  /\ check.category \in Supported
                        /\ check.category = "pii" => ~check.leaked /\ check.marked
                        /\ check.category = "prompt_injection" => check.expected = check.detected
                        /\ check.category = "acl" => check.retrieved \cap check.forbidden = {}
                        /\ check.category = "tool_authorization" =>
                            /\ check.expected \in {"allowed", "approval_required", "denied"}
                            /\ check.expected = "denied" <=> shared = {}
                            /\ check.expected = "allowed" => check.capability = "read_only"
                            /\ check.expected = "approval_required" => check.capability = "write"
      BY DEF GreenIsSecure
    <2>1. Passes(check) /\ ~Raises(check)
      BY <1>1 DEF GatesInv, ChecksExact, Checked, GreenHasNoFailure
    <2>2. check.category \in Supported
      BY <2>1 DEF Raises
    <2>3. CASE check.category = "pii"
      BY <2>1, <2>2, <2>3 DEF Passes
    <2>4. CASE check.category = "prompt_injection"
      BY <2>1, <2>2, <2>4 DEF Passes
    <2>5. CASE check.category = "acl"
      BY <2>1, <2>2, <2>5 DEF Passes
    <2>6. CASE check.category = "tool_authorization"
      <3>1. Authorize(check) = check.expected
        BY <2>1, <2>6 DEF Passes
      <3>2. check.capability \in {"read_only", "write"}
        BY <2>1, <2>6 DEF Raises, ToolCapability
      <3> QED BY <2>2, <2>6, <3>1, <3>2 DEF Authorize
    <2> QED BY <2>2, <2>3, <2>4, <2>5, <2>6 DEF Supported
  <1> QED BY <1>1, GatesInvariant, PTL
===============================================================================
