--------------------------- MODULE ReleaseGateProofs ---------------------------
(* A release that is passed is warranted by the evidence of its two runs, and *)
(* by the production feedback as it was during the call.                      *)
(*                                                                            *)
(* The rates are fractions that are compared by cross-multiplication.  What   *)
(* was read of them is compared with the least and the greatest rate of the   *)
(* moments of the call: the links that were read are those of the moment      *)
(* unless some were added or purged, and if some were added, a rate of all or *)
(* nothing of the links of the moment is a rate of all or nothing of those.   *)
EXTENDS ReleaseGate, FiniteSetTheorems, TLAPS

------------------------------------------------------------------------------
(* Fractions.                                                                 *)

Fractions == [part : Nat, whole : Nat \ {0}]

LEMMA RateFields ==
  ASSUME NEW p, NEW w
  PROVE  Rate(p, w).part = p /\ Rate(p, w).whole = w
BY DEF Rate

LEMMA Constants == Zero \in Fractions /\ One \in Fractions /\ AtMost(Zero, One)
BY DEF Zero, One, Rate, Fractions, AtMost

\* What is left after the division of an inequality by a positive number.
LEMMA Divide ==
  ASSUME NEW a \in Int, NEW b \in Int, NEW d \in Nat \ {0}, a * d <= b * d
  PROVE  a <= b
<1> SUFFICES ASSUME b < a PROVE FALSE
  OBVIOUS
<1>1. (a - b) * d > 0
  OBVIOUS
<1>2. QED
  BY <1>1

LEMMA Times ==
  ASSUME NEW a \in Int, NEW b \in Int, NEW d \in Nat, a <= b
  PROVE  a * d <= b * d
<1>1. (b - a) * d >= 0
  OBVIOUS
<1>2. QED
  BY <1>1

LEMMA AtMostTotal ==
  ASSUME NEW x \in Fractions, NEW y \in Fractions, ~AtMost(x, y)
  PROVE  AtMost(y, x)
<1>1. x.part * y.whole \in Int /\ y.part * x.whole \in Int
  BY DEF Fractions
<1>2. QED
  BY <1>1 DEF AtMost, Fractions

LEMMA AtMostReflexive == \A x \in Fractions : AtMost(x, x)
<1> SUFFICES ASSUME NEW x \in Fractions PROVE AtMost(x, x)
  OBVIOUS
<1>1. x.part * x.whole \in Int
  BY DEF Fractions
<1>2. QED
  BY <1>1 DEF AtMost

LEMMA AtMostTransitive ==
  ASSUME NEW x \in Fractions, NEW y \in Fractions, NEW z \in Fractions, AtMost(x, y), AtMost(y, z)
  PROVE  AtMost(x, z)
<1> DEFINE a == x.part  b == x.whole  c == y.part  d == y.whole  e == z.part  f == z.whole
<1>1. /\ a \in Nat /\ b \in Nat \ {0} /\ c \in Nat /\ d \in Nat \ {0}
      /\ e \in Nat /\ f \in Nat \ {0}
      /\ a * d <= c * b /\ c * f <= e * d
  BY DEF Fractions, AtMost
<1> HIDE DEF a, b, c, d, e, f
<1>2. a * d \in Int /\ c * b \in Int /\ c * f \in Int /\ e * d \in Int /\ a * f \in Int /\ e * b \in Int
  BY <1>1
<1>3. (a * d) * f <= (c * b) * f /\ (c * f) * b <= (e * d) * b
  BY <1>1, <1>2, Times
<1>4. (a * f) * d <= (e * b) * d
  BY <1>1, <1>3
<1>5. a * f <= e * b
  BY <1>1, <1>2, <1>4, Divide
<1>6. QED
  BY <1>5 DEF AtMost, a, b, e, f

\* An increase that is allowed from y to x is allowed from more than y to less
\* than x.
LEMMA WithinLess ==
  ASSUME NEW x \in Fractions, NEW y \in Fractions, NEW less \in Fractions, NEW more \in Fractions,
         NEW limit \in Nat, AtMost(less, x), AtMost(y, more), WithinIncrease(x, y, limit)
  PROVE  WithinIncrease(less, more, limit)
<1> DEFINE a == x.part     b == x.whole     c == y.part     d == y.whole
           k == less.part  l == less.whole  m == more.part  n == more.whole
           s == Scale
<1>1. /\ a \in Nat /\ b \in Nat \ {0} /\ c \in Nat /\ d \in Nat \ {0}
      /\ k \in Nat /\ l \in Nat \ {0} /\ m \in Nat /\ n \in Nat \ {0} /\ s \in Nat \ {0}
      /\ k * b <= a * l /\ c * n <= m * d
      /\ (a * d - c * b) * s <= limit * b * d
  BY ScaleAssumption DEF Fractions, AtMost, WithinIncrease
<1> HIDE DEF a, b, c, d, k, l, m, n, s
<1>2. /\ k * b \in Int /\ a * l \in Int /\ c * n \in Int /\ m * d \in Int /\ d * n \in Nat
      /\ l * b \in Nat /\ l * n \in Nat /\ s * (l * n) \in Nat /\ b * d \in Nat \ {0}
      /\ a * d - c * b \in Int /\ k * n - m * l \in Int /\ (k * n - m * l) * s \in Int
      /\ limit * b * d \in Int /\ (a * d - c * b) * s \in Int /\ limit * l * n \in Int
  BY <1>1
<1>3. (k * b) * (d * n) <= (a * l) * (d * n) /\ (c * n) * (l * b) <= (m * d) * (l * b)
  BY <1>1, <1>2, Times
<1>4. (k * n - m * l) * (b * d) <= (a * d - c * b) * (l * n)
  <2>1. (k * n - m * l) * (b * d) = (k * b) * (d * n) - (m * d) * (l * b)
    BY <1>1
  <2>2. (a * d - c * b) * (l * n) = (a * l) * (d * n) - (c * n) * (l * b)
    BY <1>1
  <2>3. /\ (k * b) * (d * n) \in Int /\ (m * d) * (l * b) \in Int
        /\ (a * l) * (d * n) \in Int /\ (c * n) * (l * b) \in Int
    BY <1>1
  <2>4. QED
    BY <1>3, <2>1, <2>2, <2>3
<1>5. ((k * n - m * l) * (b * d)) * s <= ((a * d - c * b) * (l * n)) * s
  BY <1>1, <1>2, <1>4, Times
<1>6. ((a * d - c * b) * s) * (l * n) <= (limit * b * d) * (l * n)
  BY <1>1, <1>2, Times
<1>7. ((k * n - m * l) * s) * (b * d) <= (limit * l * n) * (b * d)
  <2>1. ((k * n - m * l) * (b * d)) * s = ((k * n - m * l) * s) * (b * d)
    BY <1>1
  <2>2. ((a * d - c * b) * (l * n)) * s = ((a * d - c * b) * s) * (l * n)
    BY <1>1
  <2>3. (limit * b * d) * (l * n) = (limit * l * n) * (b * d)
    BY <1>1
  <2>4. /\ ((k * n - m * l) * s) * (b * d) \in Int /\ ((a * d - c * b) * s) * (l * n) \in Int
        /\ (limit * l * n) * (b * d) \in Int
    BY <1>1
  <2>5. QED
    BY <1>5, <1>6, <2>1, <2>2, <2>3, <2>4
<1>8. (k * n - m * l) * s <= limit * l * n
  BY <1>1, <1>2, <1>7, Divide
<1>9. QED
  BY <1>8 DEF WithinIncrease, k, l, m, n, s

------------------------------------------------------------------------------
(* The rate of a set of links, of which feedback is in which state.           *)

Counted(at, links, states) ==
  {pair \in links \X Items : TraceOf[pair[1]] = TraceOf[pair[2]] /\ at[pair[2]] \in states}

RateOf(at, links) ==
  IF Counted(at, links, {"open", "low"}) = {} THEN Zero
  ELSE Rate(Cardinality(Counted(at, links, {"low"})),
            Cardinality(Counted(at, links, {"open", "low"})))

\* The links of a run, as they are stored.
LinksIn(taken, pairs, id) == {i \in taken : <<i, id>> \in pairs}

LEMMA LinkedRateIs ==
  /\ \A links : LinkedRate(links) = RateOf(item, links)
  /\ \A id : LinksOf(id) = LinksIn(promoted, linked, id)
BY DEF LinkedRate, RateOf, Counted, LinksOf, LinksIn

LEMMA CountedFinite ==
  ASSUME NEW at, NEW links \in SUBSET Items
  PROVE  /\ IsFiniteSet(Counted(at, links, {"low"}))
         /\ IsFiniteSet(Counted(at, links, {"open", "low"}))
         /\ Counted(at, links, {"low"}) \subseteq Counted(at, links, {"open", "low"})
<1>1. IsFiniteSet(Items) /\ IsFiniteSet(links)
  BY GateAssumption, FS_Subset
<1>2. IsFiniteSet(links \X Items)
  BY <1>1, FS_Product
<1>3. /\ Counted(at, links, {"low"}) \subseteq links \X Items
      /\ Counted(at, links, {"open", "low"}) \subseteq links \X Items
  BY DEF Counted
<1>4. Counted(at, links, {"low"}) \subseteq Counted(at, links, {"open", "low"})
  BY DEF Counted
<1>5. QED
  BY <1>2, <1>3, <1>4, FS_Subset

LEMMA RateOfType ==
  ASSUME NEW at, NEW links \in SUBSET Items
  PROVE  RateOf(at, links) \in Fractions /\ AtMost(RateOf(at, links), One)
<1> DEFINE low == Counted(at, links, {"low"})  all == Counted(at, links, {"open", "low"})
<1>1. IsFiniteSet(low) /\ IsFiniteSet(all) /\ low \subseteq all
  BY CountedFinite
<1> HIDE DEF low, all
<1>2. Cardinality(low) \in Nat /\ Cardinality(all) \in Nat /\ Cardinality(low) <= Cardinality(all)
  BY <1>1, FS_CardinalityType, FS_Subset
<1>3. CASE all = {}
  <2>1. RateOf(at, links) = Zero
    BY <1>3 DEF RateOf, all
  <2>2. QED
    BY <2>1, Constants
<1>4. CASE all # {}
  <2>1. Cardinality(all) # 0
    BY <1>1, <1>4, FS_EmptySet
  <2>2. RateOf(at, links) = Rate(Cardinality(low), Cardinality(all))
    BY <1>4 DEF RateOf, low, all
  <2>3. QED
    BY <1>2, <2>1, <2>2 DEF Fractions, Rate, One, AtMost
<1>5. QED
  BY <1>3, <1>4

LEMMA NoLinks == \A at : RateOf(at, {}) = Zero
BY DEF RateOf, Counted

\* If all the feedback about the links is low quality, so is that about some of
\* them.
LEMMA AllLow ==
  ASSUME NEW at, NEW links \in SUBSET Items, NEW some \in SUBSET links,
         AtMost(One, RateOf(at, links)), NEW i \in some, at[i] \in {"open", "low"}
  PROVE  AtMost(One, RateOf(at, some))
<1> DEFINE low == Counted(at, links, {"low"})  all == Counted(at, links, {"open", "low"})
<1>1. IsFiniteSet(low) /\ IsFiniteSet(all) /\ low \subseteq all
  BY CountedFinite
<1>2. all # {}
  <2>1. i \in links /\ i \in Items
    OBVIOUS
  <2>2. <<i, i>> \in all
    BY <2>1 DEF Counted
  <2>3. QED
    BY <2>2
<1>3. RateOf(at, links) = Rate(Cardinality(low), Cardinality(all))
  BY <1>2 DEF RateOf
<1> HIDE DEF low, all
<1>4. Cardinality(low) \in Nat /\ Cardinality(all) \in Nat
  BY <1>1, FS_CardinalityType
<1>5. Cardinality(all) <= Cardinality(low)
  BY <1>3, <1>4 DEF AtMost, One, Rate
<1>6. low = all
  BY <1>1, <1>4, <1>5, FS_Subset
<1>7. Counted(at, some, {"open", "low"}) = Counted(at, some, {"low"})
  BY <1>6 DEF low, all, Counted
<1>8. IsFiniteSet(Counted(at, some, {"low"})) /\ <<i, i>> \in Counted(at, some, {"open", "low"})
  <2>1. some \in SUBSET Items
    OBVIOUS
  <2>2. QED
    BY <2>1, CountedFinite DEF Counted
<1>9. Cardinality(Counted(at, some, {"low"})) \in Nat
  BY <1>8, FS_CardinalityType
<1>10. RateOf(at, some) = Rate(Cardinality(Counted(at, some, {"low"})),
                               Cardinality(Counted(at, some, {"low"})))
  BY <1>7, <1>8 DEF RateOf
<1>11. QED
  BY <1>9, <1>10 DEF AtMost, One, Rate

\* If none of it is, none about some of them is.
LEMMA NoneLow ==
  ASSUME NEW at, NEW links \in SUBSET Items, NEW some \in SUBSET links,
         AtMost(RateOf(at, links), Zero)
  PROVE  AtMost(RateOf(at, some), Zero)
<1> DEFINE low == Counted(at, links, {"low"})  all == Counted(at, links, {"open", "low"})
<1>1. IsFiniteSet(low) /\ IsFiniteSet(all) /\ low \subseteq all
  BY CountedFinite
<1>2. low = {}
  <2>1. CASE all = {}
    BY <1>1, <2>1
  <2>2. CASE all # {}
    <3>1. RateOf(at, links) = Rate(Cardinality(low), Cardinality(all))
      BY <2>2 DEF RateOf
    <3> HIDE DEF low, all
    <3>2. Cardinality(low) \in Nat
      BY <1>1, FS_CardinalityType
    <3>3. Cardinality(low) = 0
      BY <3>1, <3>2, FS_CardinalityType, <1>1 DEF AtMost, Zero, Rate
    <3>4. QED
      BY <1>1, <3>3, FS_EmptySet
  <2>3. QED
    BY <2>1, <2>2
<1>3. Counted(at, some, {"low"}) = {}
  BY <1>2 DEF low, Counted
<1>4. CASE Counted(at, some, {"open", "low"}) = {}
  BY <1>4, Constants, AtMostReflexive DEF RateOf
<1>5. CASE Counted(at, some, {"open", "low"}) # {}
  <2>1. RateOf(at, some) = Rate(0, Cardinality(Counted(at, some, {"open", "low"})))
    BY <1>3, <1>5, FS_EmptySet DEF RateOf
  <2>2. some \in SUBSET Items
    OBVIOUS
  <2>3. Cardinality(Counted(at, some, {"open", "low"})) \in Nat
    BY <2>2, CountedFinite, FS_CardinalityType
  <2>4. QED
    BY <2>1, <2>3 DEF AtMost, Zero, Rate
<1>6. QED
  BY <1>4, <1>5

------------------------------------------------------------------------------
(* The invariant.                                                             *)

Places == {"candidate links", "candidate rows", "baseline links", "baseline rows", "recount",
           "saved"}

Rates == 0..Scale

Calls == [at : Places, baseline : DOMAIN StoredRuns, candidate : DOMAIN StoredRuns,
          policy : {c.policy : c \in Comparisons}, links : SUBSET Items,
          candidateRate : Fractions, baselineRate : Fractions, linkedCount : Nat, passed : BOOLEAN]

\* What is linked is promoted, what is promoted has a verdict.
FeedbackSound ==
  /\ item \in [Items -> ItemState]
  /\ promoted \subseteq Items
  /\ linked \subseteq promoted \X Linkable
  /\ \A i \in promoted : item[i] \in {"open", "low"}

CallSound ==
  /\ gate.at \in {"idle", "refused"} \cup Places
  /\ gate.at \in Places =>
       gate \in Calls /\ Admitted(StoredRuns[gate.baseline], StoredRuns[gate.candidate])
  /\ gate.at \in {"candidate links", "candidate rows"} => gate.candidateRate = Zero
  /\ gate.at \in {"candidate links", "candidate rows", "baseline links", "baseline rows"} =>
       gate.baselineRate = Zero
  /\ seen \in [least : Fractions, most : Fractions, writes : Nat, relinked : BOOLEAN,
               purged : BOOLEAN]
  /\ AtMost(seen.least, One)

\* The present is one of the moments that are remembered.
PresentSeen ==
  Reading => /\ AtMost(seen.least, RateOf(item, LinksIn(promoted, linked, gate.candidate)))
             /\ AtMost(RateOf(item, LinksIn(promoted, linked, gate.baseline)), seen.most)

\* Links that were read still stand, and are all there are unless some were added.
LinksStand ==
  gate.at \in {"candidate rows", "baseline rows"} /\ ~seen.purged =>
    LET now == LinksIn(promoted, linked,
                       IF gate.at = "candidate rows" THEN gate.candidate ELSE gate.baseline)
    IN  gate.links # {} /\ gate.links \subseteq now /\ (seen.relinked \/ gate.links = now)

\* When what was read tells of the moments of the call.
Telling ==
  ~seen.purged /\ (~seen.relinked \/ (AtMost(One, seen.least) /\ AtMost(seen.most, Zero)))

RatesRead ==
  Telling =>
    /\ gate.at \in {"baseline links", "baseline rows", "recount", "saved"} =>
         AtMost(seen.least, gate.candidateRate)
    /\ gate.at \in {"recount", "saved"} => AtMost(gate.baselineRate, seen.most)

\* A verdict is that of all the checks.
Judged ==
  gate.at = "saved" /\ gate.passed =>
    \A name \in DOMAIN ReleaseChecks(StoredRuns[gate.baseline], StoredRuns[gate.candidate],
                                     gate.policy, gate.candidateRate, gate.baselineRate) :
       ReleaseChecks(StoredRuns[gate.baseline], StoredRuns[gate.candidate],
                     gate.policy, gate.candidateRate, gate.baselineRate)[name]

ReleaseInv == FeedbackSound /\ CallSound /\ PresentSeen /\ LinksStand /\ RatesRead /\ Judged

LEMMA ReleaseInitInv == ReleaseInit => ReleaseInv
<1> SUFFICES ASSUME ReleaseInit PROVE ReleaseInv
  OBVIOUS
<1>1. FeedbackSound
  BY DEF ReleaseInit, FeedbackSound, ItemState
<1>2. gate.at = "idle" /\ seen.least = One
  BY DEF ReleaseInit
<1>3. CallSound
  <2>1. seen \in [least : Fractions, most : Fractions, writes : Nat, relinked : BOOLEAN,
                 purged : BOOLEAN]
    BY Constants DEF ReleaseInit
  <2>2. QED
    BY <1>2, <2>1, Constants, AtMostReflexive DEF CallSound, Places
<1>4. PresentSeen /\ LinksStand /\ RatesRead /\ Judged
  BY <1>2 DEF PresentSeen, LinksStand, RatesRead, Judged, Reading
<1>5. QED
  BY <1>1, <1>3, <1>4 DEF ReleaseInv

------------------------------------------------------------------------------
(* The reads of the call: nothing changes but the call.                       *)

LEMMA LinksInType ==
  \A taken, pairs, id : taken \subseteq Items => LinksIn(taken, pairs, id) \in SUBSET Items
BY DEF LinksIn

\* Two runs are taken up that the gate may compare.
LEMMA ValidateKeeps ==
  ASSUME ReleaseInv, NEW c \in Comparisons, Validate(c.baseline, c.candidate, c.policy)
  PROVE  ReleaseInv'
<1>0. FeedbackSound /\ CallSound
  BY DEF ReleaseInv
<1>1. CASE ~(c.baseline # c.candidate /\ Admitted(StoredRuns[c.baseline], StoredRuns[c.candidate]))
  <2>0. gate' = [at |-> "refused"] /\ UNCHANGED <<seen, item, promoted, linked>>
    BY <1>1, Zenon DEF Validate
  <2>1. gate'.at = "refused" /\ UNCHANGED <<seen, item, promoted, linked>>
    BY <2>0
  <2>2. FeedbackSound'
    BY <1>0, <2>1 DEF FeedbackSound
  <2>3. CallSound'
    BY <1>0, <2>1 DEF CallSound, Places
  <2>4. PresentSeen' /\ LinksStand' /\ RatesRead' /\ Judged'
    BY <2>1 DEF PresentSeen, LinksStand, RatesRead, Judged, Reading
  <2>5. QED
    BY <2>2, <2>3, <2>4 DEF ReleaseInv
<1>2. CASE c.baseline # c.candidate /\ Admitted(StoredRuns[c.baseline], StoredRuns[c.candidate])
  <2> DEFINE least == RateOf(item, LinksIn(promoted, linked, c.candidate))
             most  == RateOf(item, LinksIn(promoted, linked, c.baseline))
  <2>1. /\ gate' = [at |-> "candidate links", baseline |-> c.baseline, candidate |-> c.candidate,
                    policy |-> c.policy, links |-> {}, candidateRate |-> Zero,
                    baselineRate |-> Zero, linkedCount |-> 0, passed |-> FALSE]
        /\ seen' = [seen EXCEPT !.least = least, !.most = most]
        /\ UNCHANGED <<item, promoted, linked>>
    BY <1>2, LinkedRateIs, Zenon DEF Validate
  <2>2. /\ least \in Fractions /\ AtMost(least, One) /\ most \in Fractions
    BY <1>0, RateOfType, LinksInType DEF FeedbackSound
  <2>3. /\ gate'.at = "candidate links" /\ gate'.baseline = c.baseline
        /\ gate'.candidate = c.candidate /\ gate'.candidateRate = Zero /\ gate'.baselineRate = Zero
    BY <2>1
  <2>4. gate' \in Calls
    BY <2>1, Constants, ComparedAssumption DEF Calls, Places
  <2>7. /\ RateOf(item', LinksIn(promoted', linked', gate'.candidate)) = least
        /\ RateOf(item', LinksIn(promoted', linked', gate'.baseline)) = most
    BY <2>1, <2>3
  <2> HIDE DEF least, most
  <2>5. /\ seen' \in [least : Fractions, most : Fractions, writes : Nat, relinked : BOOLEAN,
                      purged : BOOLEAN]
        /\ seen'.least = least /\ seen'.most = most
    BY <1>0, <2>1, <2>2 DEF CallSound
  <2>6. CallSound'
    BY <1>2, <2>2, <2>3, <2>4, <2>5 DEF CallSound, Places
  <2>8. PresentSeen'
    BY <2>2, <2>5, <2>7, AtMostReflexive DEF PresentSeen
  <2>9. LinksStand' /\ RatesRead' /\ Judged'
    BY <2>3 DEF LinksStand, RatesRead, Judged
  <2>10. QED
    BY <1>0, <2>1, <2>6, <2>8, <2>9 DEF ReleaseInv, FeedbackSound
<1>3. QED
  BY <1>1, <1>2

\* What a read leaves alone.
LEMMA ReadKeeps ==
  ASSUME ReleaseInv, UNCHANGED <<item, promoted, linked, seen>>, gate.at \in Places, gate' \in Calls,
         gate'.baseline = gate.baseline, gate'.candidate = gate.candidate,
         gate'.at \in Places \ {"candidate links"}, Reading,
         gate'.at = "candidate rows" => gate'.candidateRate = Zero,
         gate'.at \in {"candidate rows", "baseline links", "baseline rows"} =>
           gate'.baselineRate = Zero
  PROVE  FeedbackSound' /\ CallSound' /\ PresentSeen'
<1>1. FeedbackSound' /\ CallSound'
  BY DEF ReleaseInv, FeedbackSound, CallSound
<1>2. PresentSeen'
  BY DEF ReleaseInv, PresentSeen
<1>3. QED
  BY <1>1, <1>2

LEMMA ReadCandidateLinksKeeps ==
  ASSUME ReleaseInv, ReadCandidateLinks
  PROVE  ReleaseInv'
<1> DEFINE links == LinksIn(promoted, linked, gate.candidate)
           where == IF links = {} THEN "baseline links" ELSE "candidate rows"
<1>0. FeedbackSound /\ CallSound /\ PresentSeen
  BY DEF ReleaseInv
<1>1. /\ gate.at = "candidate links" /\ UNCHANGED <<item, promoted, linked, seen>>
      /\ gate' = [gate EXCEPT !.links = links, !.at = where]
  BY LinkedRateIs, Zenon DEF ReadCandidateLinks, ReadStep
<1>2. gate.at \in Places /\ where \in Places /\ links \in SUBSET Items /\ gate \in Calls
  BY <1>0, <1>1, LinksInType DEF Places, FeedbackSound, CallSound
<1> HIDE DEF links, where
<1>3. gate' \in Calls
  BY <1>1, <1>2 DEF Calls
<1>4. /\ gate'.at = where /\ gate'.links = links /\ gate'.candidate = gate.candidate
      /\ gate'.baseline = gate.baseline /\ gate'.candidateRate = Zero /\ gate'.baselineRate = Zero
  BY <1>0, <1>1, <1>2 DEF Calls, CallSound
<1>5. FeedbackSound' /\ CallSound' /\ PresentSeen'
  <2>1. where \in Places \ {"candidate links"}
    BY DEF Places, where
  <2>2. QED
    BY <1>1, <1>2, <1>3, <1>4, <2>1, ReadKeeps DEF Reading
<1>6. LinksStand'
  <2>1. LinksIn(promoted', linked', gate'.candidate) = links
    BY <1>1, <1>4 DEF links
  <2>2. gate'.at # "baseline rows" /\ (gate'.at = "candidate rows" => links # {})
    BY <1>4 DEF where
  <2>3. QED
    BY <1>4, <2>1, <2>2 DEF LinksStand
<1>7. RatesRead'
  <2>1. CASE links = {}
    <3>1. AtMost(seen.least, RateOf(item, links))
      BY <1>0, <1>1 DEF PresentSeen, Reading, links
    <3>2. AtMost(seen'.least, gate'.candidateRate) /\ gate'.at = "baseline links"
      BY <1>1, <1>4, <2>1, <3>1, NoLinks DEF where
    <3>3. QED
      BY <3>2 DEF RatesRead
  <2>2. CASE links # {}
    BY <1>4, <2>2 DEF RatesRead, where
  <2>3. QED
    BY <2>1, <2>2
<1>8. Judged'
  BY <1>4 DEF Judged, where
<1>9. QED
  BY <1>5, <1>6, <1>7, <1>8 DEF ReleaseInv

LEMMA ReadBaselineLinksKeeps ==
  ASSUME ReleaseInv, ReadBaselineLinks
  PROVE  ReleaseInv'
<1> DEFINE links == LinksIn(promoted, linked, gate.baseline)
           where == IF links = {} THEN "recount" ELSE "baseline rows"
<1>0. FeedbackSound /\ CallSound /\ PresentSeen
  BY DEF ReleaseInv
<1>1. /\ gate.at = "baseline links" /\ UNCHANGED <<item, promoted, linked, seen>>
      /\ gate' = [gate EXCEPT !.links = links, !.at = where]
  BY LinkedRateIs, Zenon DEF ReadBaselineLinks, ReadStep
<1>2. gate.at \in Places /\ where \in Places /\ links \in SUBSET Items /\ gate \in Calls
  BY <1>0, <1>1, LinksInType DEF Places, FeedbackSound, CallSound
<1> HIDE DEF links, where
<1>3. gate' \in Calls
  BY <1>1, <1>2 DEF Calls
<1>4. /\ gate'.at = where /\ gate'.links = links /\ gate'.candidate = gate.candidate
      /\ gate'.baseline = gate.baseline /\ gate'.candidateRate = gate.candidateRate
      /\ gate'.baselineRate = Zero
  BY <1>0, <1>1, <1>2 DEF Calls, CallSound
<1>5. FeedbackSound' /\ CallSound' /\ PresentSeen'
  <2>1. where \in Places \ {"candidate links", "candidate rows"}
    BY DEF Places, where
  <2>2. QED
    BY <1>1, <1>2, <1>3, <1>4, <2>1, ReadKeeps DEF Reading
<1>6. LinksStand'
  <2>1. LinksIn(promoted', linked', gate'.baseline) = links
    BY <1>1, <1>4 DEF links
  <2>2. gate'.at # "candidate rows" /\ (gate'.at = "baseline rows" => links # {})
    BY <1>4 DEF where
  <2>3. QED
    BY <1>4, <2>1, <2>2 DEF LinksStand
<1>7. RatesRead'
  <2>1. Telling' => AtMost(seen'.least, gate'.candidateRate)
    BY <1>1, <1>4 DEF ReleaseInv, RatesRead, Telling
  <2>2. CASE links = {}
    <3>1. AtMost(RateOf(item, links), seen.most)
      BY <1>0, <1>1 DEF PresentSeen, Reading, links
    <3>2. AtMost(gate'.baselineRate, seen'.most)
      BY <1>1, <1>4, <2>2, <3>1, NoLinks
    <3>3. QED
      BY <2>1, <3>2 DEF RatesRead
  <2>3. CASE links # {}
    BY <1>4, <2>1, <2>3 DEF RatesRead, where
  <2>4. QED
    BY <2>2, <2>3
<1>8. Judged'
  BY <1>4 DEF Judged, where
<1>9. QED
  BY <1>5, <1>6, <1>7, <1>8 DEF ReleaseInv

\* The rows are read for links that still stand: if more were added, and all of
\* them are low quality, so are these.
LEMMA ReadCandidateRowsKeeps ==
  ASSUME ReleaseInv, ReadCandidateRows
  PROVE  ReleaseInv'
<1> DEFINE rate == RateOf(item, gate.links)
           now  == LinksIn(promoted, linked, gate.candidate)
<1>0. FeedbackSound /\ CallSound /\ PresentSeen /\ LinksStand
  BY DEF ReleaseInv
<1>1. /\ gate.at = "candidate rows" /\ UNCHANGED <<item, promoted, linked, seen>>
      /\ gate' = [gate EXCEPT !.at = "baseline links", !.links = {}, !.candidateRate = rate]
  BY LinkedRateIs, Zenon DEF ReadCandidateRows, ReadStep
<1>2. gate.at \in Places /\ gate \in Calls /\ gate.links \in SUBSET Items
  BY <1>0, <1>1 DEF Places, CallSound, Calls
<1>3. rate \in Fractions
  BY <1>2, RateOfType
<1> HIDE DEF rate
<1>4. /\ gate'.at = "baseline links" /\ gate'.candidate = gate.candidate
      /\ gate'.baseline = gate.baseline /\ gate'.candidateRate = rate
      /\ gate'.baselineRate = Zero
  BY <1>0, <1>1, <1>2 DEF Calls, CallSound
<1>5. gate' \in Calls
  BY <1>1, <1>2, <1>3 DEF Calls, Places
<1>6. FeedbackSound' /\ CallSound' /\ PresentSeen'
  BY <1>1, <1>2, <1>4, <1>5, ReadKeeps DEF Reading, Places
<1>7. LinksStand' /\ Judged'
  BY <1>4 DEF LinksStand, Judged
<1>8. RatesRead'
  <2>1. ASSUME Telling PROVE AtMost(seen.least, rate)
    <3>1. /\ gate.links # {} /\ gate.links \subseteq now /\ (seen.relinked \/ gate.links = now)
          /\ now \in SUBSET Items
      BY <1>0, <1>1, <2>1, LinksInType DEF LinksStand, Telling, FeedbackSound
    <3>2. AtMost(seen.least, RateOf(item, now))
      BY <1>0, <1>1 DEF PresentSeen, Reading
    <3>3. CASE gate.links = now
      BY <3>2, <3>3 DEF rate
    <3>4. CASE seen.relinked
      <4>1. AtMost(One, seen.least) /\ AtMost(seen.least, One) /\ seen.least \in Fractions
        BY <1>0, <2>1, <3>4 DEF Telling, CallSound
      <4>2. AtMost(One, RateOf(item, now))
        BY <3>1, <3>2, <4>1, AtMostTransitive, Constants, RateOfType
      <4>3. PICK i \in gate.links : item[i] \in {"open", "low"}
        BY <1>0, <3>1 DEF FeedbackSound, LinksIn
      <4>4. AtMost(One, rate)
        BY <3>1, <4>2, <4>3, AllLow DEF rate
      <4>5. QED
        BY <1>3, <4>1, <4>4, AtMostTransitive, Constants
    <3>5. QED
      BY <3>1, <3>3, <3>4
  <2>2. Telling' => Telling
    BY <1>1 DEF Telling
  <2>3. QED
    BY <1>1, <1>4, <2>1, <2>2 DEF RatesRead
<1>9. QED
  BY <1>6, <1>7, <1>8 DEF ReleaseInv

LEMMA ReadBaselineRowsKeeps ==
  ASSUME ReleaseInv, ReadBaselineRows
  PROVE  ReleaseInv'
<1> DEFINE rate == RateOf(item, gate.links)
           now  == LinksIn(promoted, linked, gate.baseline)
<1>0. FeedbackSound /\ CallSound /\ PresentSeen /\ LinksStand
  BY DEF ReleaseInv
<1>1. /\ gate.at = "baseline rows" /\ UNCHANGED <<item, promoted, linked, seen>>
      /\ gate' = [gate EXCEPT !.at = "recount", !.links = {}, !.baselineRate = rate]
  BY LinkedRateIs, Zenon DEF ReadBaselineRows, ReadStep
<1>2. gate.at \in Places /\ gate \in Calls /\ gate.links \in SUBSET Items
  BY <1>0, <1>1 DEF Places, CallSound, Calls
<1>3. rate \in Fractions
  BY <1>2, RateOfType
<1> HIDE DEF rate
<1>4. /\ gate'.at = "recount" /\ gate'.candidate = gate.candidate
      /\ gate'.baseline = gate.baseline /\ gate'.candidateRate = gate.candidateRate
      /\ gate'.baselineRate = rate
  BY <1>0, <1>1, <1>2 DEF Calls, CallSound
<1>5. gate' \in Calls
  BY <1>1, <1>2, <1>3 DEF Calls, Places
<1>6. FeedbackSound' /\ CallSound' /\ PresentSeen'
  BY <1>1, <1>2, <1>4, <1>5, ReadKeeps DEF Reading, Places
<1>7. LinksStand' /\ Judged'
  BY <1>4 DEF LinksStand, Judged
<1>8. RatesRead'
  <2>1. ASSUME Telling PROVE AtMost(rate, seen.most)
    <3>1. /\ gate.links \subseteq now /\ (seen.relinked \/ gate.links = now)
          /\ now \in SUBSET Items
      BY <1>0, <1>1, <2>1, LinksInType DEF LinksStand, Telling, FeedbackSound
    <3>2. AtMost(RateOf(item, now), seen.most) /\ seen.most \in Fractions
      BY <1>0, <1>1 DEF PresentSeen, Reading, CallSound
    <3>3. CASE gate.links = now
      BY <3>2, <3>3 DEF rate
    <3>4. CASE seen.relinked
      <4>1. AtMost(seen.most, Zero)
        BY <2>1, <3>4 DEF Telling
      <4>2. AtMost(RateOf(item, now), Zero)
        BY <3>1, <3>2, <4>1, AtMostTransitive, Constants, RateOfType
      <4>3. AtMost(rate, Zero)
        BY <3>1, <4>2, NoneLow DEF rate
      <4>4. AtMost(Zero, seen.most)
        BY <3>2 DEF AtMost, Zero, Rate, Fractions
      <4>5. QED
        BY <1>3, <3>2, <4>3, <4>4, AtMostTransitive, Constants
    <3>5. QED
      BY <3>1, <3>3, <3>4
  <2>2. Telling' => Telling /\ AtMost(seen'.least, gate'.candidateRate)
    BY <1>1, <1>4 DEF ReleaseInv, RatesRead, Telling
  <2>3. QED
    BY <1>1, <1>4, <2>1, <2>2 DEF RatesRead
<1>9. QED
  BY <1>6, <1>7, <1>8 DEF ReleaseInv

LEMMA RecountKeeps ==
  ASSUME ReleaseInv, RecountAndSave
  PROVE  ReleaseInv'
<1> DEFINE checks  == ReleaseChecks(StoredRuns[gate.baseline], StoredRuns[gate.candidate],
                                    gate.policy, gate.candidateRate, gate.baselineRate)
           verdict == \A name \in DOMAIN checks : checks[name]
           count   == Cardinality(LinksIn(promoted, linked, gate.candidate))
<1>0. FeedbackSound /\ CallSound
  BY DEF ReleaseInv
<1>1. /\ gate.at = "recount" /\ UNCHANGED <<item, promoted, linked, seen>>
      /\ gate' = [gate EXCEPT !.at = "saved", !.linkedCount = count, !.passed = verdict]
  BY LinkedRateIs, Zenon DEF RecountAndSave, ReadStep, Decision
<1>2. gate.at \in Places /\ gate \in Calls /\ verdict \in BOOLEAN /\ count \in Nat
  <2>1. IsFiniteSet(LinksIn(promoted, linked, gate.candidate))
    BY <1>0, LinksInType, GateAssumption, FS_Subset DEF FeedbackSound
  <2>2. QED
    BY <1>0, <1>1, <2>1, FS_CardinalityType DEF Places, CallSound
<1> HIDE DEF count
<1>3. gate' \in Calls
  <2> HIDE DEF verdict
  <2>1. QED
    BY <1>1, <1>2, Zenon DEF Calls, Places
<1>4. /\ gate'.at = "saved" /\ gate'.baseline = gate.baseline /\ gate'.candidate = gate.candidate
      /\ gate'.policy = gate.policy /\ gate'.candidateRate = gate.candidateRate
      /\ gate'.baselineRate = gate.baselineRate /\ (gate'.passed <=> verdict)
  <2> HIDE DEF verdict
  <2>1. gate'.passed = verdict
    BY <1>1, <1>2, Zenon DEF Calls
  <2>2. QED
    BY <1>1, <1>2, <2>1, Zenon DEF Calls
<1>5. FeedbackSound' /\ CallSound' /\ PresentSeen'
  BY <1>1, <1>2, <1>3, <1>4, ReadKeeps DEF Reading, Places
<1>6. LinksStand' /\ RatesRead'
  BY <1>1, <1>4 DEF ReleaseInv, LinksStand, RatesRead, Telling
<1>7. Judged'
  <2>1. verdict => \A name \in DOMAIN checks : checks[name]
    OBVIOUS
  <2>2. checks = ReleaseChecks(StoredRuns[gate'.baseline], StoredRuns[gate'.candidate],
                               gate'.policy, gate'.candidateRate, gate'.baselineRate)
    BY <1>4
  <2> HIDE DEF checks
  <2>3. QED
    BY <1>4, <2>1, <2>2 DEF Judged
<1>8. QED
  BY <1>5, <1>6, <1>7 DEF ReleaseInv

------------------------------------------------------------------------------
(* The writes of others.                                                      *)

\* What is remembered after a write: a least that is no more, and a greatest
\* that is no less, than before and than now.
LEMMA Remembered ==
  ASSUME CallSound, Reading, UNCHANGED gate, promoted' \subseteq Items,
         NEW relinks \in BOOLEAN, NEW purges \in BOOLEAN, Observe(1, relinks, purges)
  PROVE  LET candidate == RateOf(item', LinksIn(promoted', linked', gate.candidate))
             baseline  == RateOf(item', LinksIn(promoted', linked', gate.baseline))
         IN  /\ AtMost(seen'.least, candidate) /\ AtMost(seen'.least, seen.least)
             /\ AtMost(baseline, seen'.most) /\ AtMost(seen.most, seen'.most)
             /\ seen'.relinked = (seen.relinked \/ relinks)
             /\ seen'.purged = (seen.purged \/ purges)
             /\ seen' \in [least : Fractions, most : Fractions, writes : Nat, relinked : BOOLEAN,
                           purged : BOOLEAN]
             /\ AtMost(seen'.least, One)
<1> DEFINE candidate == RateOf(item', LinksIn(promoted', linked', gate.candidate))
           baseline  == RateOf(item', LinksIn(promoted', linked', gate.baseline))
           least == IF AtMost(seen.least, candidate) THEN seen.least ELSE candidate
           most  == IF AtMost(baseline, seen.most) THEN seen.most ELSE baseline
<1>1. /\ LinkedRate(LinksOf(gate.candidate))' = candidate
      /\ LinkedRate(LinksOf(gate.baseline))' = baseline
  BY DEF LinkedRate, LinksOf, RateOf, Counted, LinksIn
<1>2. seen' = [least |-> least, most |-> most, writes |-> seen.writes + 1,
               relinked |-> seen.relinked \/ relinks, purged |-> seen.purged \/ purges]
  BY <1>1 DEF Observe
<1>3. /\ candidate \in Fractions /\ baseline \in Fractions /\ AtMost(candidate, One)
  BY LinksInType, RateOfType
<1> HIDE DEF candidate, baseline
<1>4. /\ seen.least \in Fractions /\ seen.most \in Fractions /\ seen.writes \in Nat
      /\ seen.relinked \in BOOLEAN /\ seen.purged \in BOOLEAN /\ AtMost(seen.least, One)
  BY DEF CallSound
<1>5. /\ least \in Fractions /\ AtMost(least, candidate) /\ AtMost(least, seen.least)
      /\ AtMost(least, One)
  BY <1>3, <1>4, AtMostTotal, AtMostReflexive
<1>6. most \in Fractions /\ AtMost(baseline, most) /\ AtMost(seen.most, most)
  BY <1>3, <1>4, AtMostTotal, AtMostReflexive
<1> HIDE DEF least, most
<1>7. /\ seen'.least = least /\ seen'.most = most
      /\ seen'.relinked = (seen.relinked \/ relinks) /\ seen'.purged = (seen.purged \/ purges)
  BY <1>2, Zenon
<1>8. seen' \in [least : Fractions, most : Fractions, writes : Nat, relinked : BOOLEAN,
                purged : BOOLEAN]
  BY <1>2, <1>4, <1>5, <1>6
<1>9. QED
  BY <1>5, <1>6, <1>7, <1>8 DEF candidate, baseline

\* A write before the call, or during it: links stand unless it purges, and are
\* all there are unless it links.
LEMMA OtherKeeps ==
  ASSUME ReleaseInv, FeedbackSound', NEW relinks \in BOOLEAN, NEW purges \in BOOLEAN,
         Other(relinks, purges),
         ~purges => \A id : LinksIn(promoted, linked, id) \subseteq LinksIn(promoted', linked', id),
         ~purges /\ ~relinks =>
           \A id : LinksIn(promoted, linked, id) = LinksIn(promoted', linked', id)
  PROVE  ReleaseInv'
<1>0. CallSound /\ LinksStand /\ RatesRead /\ Judged
  BY DEF ReleaseInv
<1>1. CASE gate.at = "idle" /\ UNCHANGED <<gate, seen>>
  <2>1. CallSound'
    BY <1>0, <1>1 DEF CallSound
  <2>2. PresentSeen' /\ LinksStand' /\ RatesRead' /\ Judged'
    BY <1>1 DEF PresentSeen, LinksStand, RatesRead, Judged, Reading
  <2>3. QED
    BY <2>1, <2>2 DEF ReleaseInv
<1>2. CASE Reading /\ UNCHANGED gate /\ Observe(1, relinks, purges)
  <2> DEFINE candidate == RateOf(item', LinksIn(promoted', linked', gate.candidate))
             baseline  == RateOf(item', LinksIn(promoted', linked', gate.baseline))
  <2>1. /\ AtMost(seen'.least, candidate) /\ AtMost(seen'.least, seen.least)
        /\ AtMost(baseline, seen'.most) /\ AtMost(seen.most, seen'.most)
        /\ seen'.relinked = (seen.relinked \/ relinks)
        /\ seen'.purged = (seen.purged \/ purges)
        /\ seen' \in [least : Fractions, most : Fractions, writes : Nat, relinked : BOOLEAN,
                      purged : BOOLEAN]
        /\ AtMost(seen'.least, One)
    BY <1>0, <1>2, Remembered DEF FeedbackSound
  <2>2. CallSound'
    BY <1>0, <1>2, <2>1 DEF CallSound
  <2>3. PresentSeen'
    BY <1>2, <2>1 DEF PresentSeen
  <2>4. LinksStand'
    BY <1>0, <1>2, <2>1 DEF LinksStand
  <2>5. RatesRead'
    <3>1. /\ seen.least \in Fractions /\ seen'.least \in Fractions /\ seen.most \in Fractions
          /\ seen'.most \in Fractions
          /\ gate.candidateRate \in Fractions /\ gate.baselineRate \in Fractions
      BY <1>0, <1>2, <2>1 DEF CallSound, Reading, Places, Calls
    <3>2. Telling' => Telling
      BY <2>1, <3>1, AtMostTransitive, Constants DEF Telling
    <3>3. QED
      BY <1>0, <1>2, <2>1, <3>1, <3>2, AtMostTransitive DEF RatesRead
  <2>6. Judged'
    BY <1>2 DEF Judged, Reading
  <2>7. QED
    BY <2>2, <2>3, <2>4, <2>5, <2>6 DEF ReleaseInv
<1>3. QED
  BY <1>1, <1>2 DEF Other

LEMMA JudgesKeep ==
  ASSUME ReleaseInv, NEW i \in Items, Give(i) \/ Judge(i)
  PROVE  ReleaseInv'
<1>0. FeedbackSound
  BY DEF ReleaseInv
<1>1. /\ \E verdict \in {"open", "low"} : item' = [item EXCEPT ![i] = verdict]
      /\ UNCHANGED <<promoted, linked>> /\ Other(FALSE, FALSE)
  BY DEF Give, Judge
<1>2. FeedbackSound'
  BY <1>0, <1>1 DEF FeedbackSound, ItemState
<1>3. QED
  BY <1>1, <1>2, OtherKeeps

LEMMA PromoteKeeps ==
  ASSUME ReleaseInv, NEW i \in Items, Promote(i)
  PROVE  ReleaseInv'
<1>0. FeedbackSound
  BY DEF ReleaseInv
<1>1. /\ promoted' = promoted \cup {i} /\ item[i] = "low" /\ i \notin promoted
      /\ UNCHANGED <<item, linked>> /\ Other(FALSE, FALSE)
  BY DEF Promote
<1>2. FeedbackSound'
  BY <1>0, <1>1 DEF FeedbackSound
<1>3. \A id : LinksIn(promoted, linked, id) = LinksIn(promoted', linked', id)
  BY <1>0, <1>1 DEF LinksIn, FeedbackSound
<1>4. QED
  BY <1>1, <1>2, <1>3, OtherKeeps

LEMMA LinkKeeps ==
  ASSUME ReleaseInv, NEW i \in Items, NEW id \in Linkable, Link(i, id)
  PROVE  ReleaseInv'
<1>0. FeedbackSound
  BY DEF ReleaseInv
<1>1. /\ linked' = linked \cup {<<i, id>>} /\ i \in promoted
      /\ UNCHANGED <<item, promoted>> /\ Other(TRUE, FALSE)
  BY DEF Link
<1>2. FeedbackSound'
  BY <1>0, <1>1 DEF FeedbackSound
<1>3. \A run : LinksIn(promoted, linked, run) \subseteq LinksIn(promoted', linked', run)
  BY <1>1 DEF LinksIn
<1>4. QED
  BY <1>1, <1>2, <1>3, OtherKeeps

LEMMA PurgeKeeps ==
  ASSUME ReleaseInv, NEW t, Purge(t)
  PROVE  ReleaseInv'
<1> DEFINE gone == {i \in Items : TraceOf[i] = t}
<1>0. FeedbackSound
  BY DEF ReleaseInv
<1>1. /\ item' = [i \in Items |-> IF i \in gone THEN "purged" ELSE item[i]]
      /\ promoted' = promoted \ gone
      /\ linked' = {pair \in linked : pair[1] \notin gone}
      /\ Other(FALSE, TRUE)
  BY DEF Purge
<1> HIDE DEF gone
<1>2. FeedbackSound'
  BY <1>0, <1>1 DEF FeedbackSound, ItemState
<1>3. QED
  BY <1>1, <1>2, OtherKeeps

LEMMA ReleaseNextInv == ReleaseInv /\ [ReleaseNext]_releaseVars => ReleaseInv'
<1> SUFFICES ASSUME ReleaseInv, [ReleaseNext]_releaseVars PROVE ReleaseInv'
  OBVIOUS
<1>1. CASE UNCHANGED releaseVars
  BY <1>1 DEF releaseVars, ReleaseInv, FeedbackSound, CallSound, PresentSeen, LinksStand, RatesRead,
              Judged, Telling, Reading
<1>2. CASE ReleaseNext
  BY <1>2, ValidateKeeps, ReadCandidateLinksKeeps, ReadCandidateRowsKeeps, ReadBaselineLinksKeeps,
     ReadBaselineRowsKeeps, RecountKeeps, JudgesKeep, PromoteKeeps, LinkKeeps, PurgeKeeps
     DEF ReleaseNext
<1>3. QED
  BY <1>1, <1>2

LEMMA ReleaseInvariant == ReleaseSpec => []ReleaseInv
<1>1. QED
  BY ReleaseInitInv, ReleaseNextInv, PTL DEF ReleaseSpec

------------------------------------------------------------------------------
(* What a passed release stands for.                                          *)

\* What the checks of a passed release say.
LEMMA ChecksOfRelease ==
  ASSUME ReleaseInv, Released
  PROVE  LET candidate == StoredRuns[gate.candidate]
         IN  /\ Admitted(StoredRuns[gate.baseline], candidate)
             /\ gate.policy.requireComplete => candidate.run.gate
             /\ WithinIncrease(FailureRate(candidate.run), Zero, gate.policy.failureRate)
             /\ WithinIncrease(gate.candidateRate, gate.baselineRate, gate.policy.lowIncrease)
             /\ gate \in Calls
<1> DEFINE checks == ReleaseChecks(StoredRuns[gate.baseline], StoredRuns[gate.candidate],
                                   gate.policy, gate.candidateRate, gate.baselineRate)
<1>1. gate.at = "saved" /\ gate.passed
  BY DEF Released
<1>2. \A name \in DOMAIN checks : checks[name]
  BY <1>1 DEF ReleaseInv, Judged
<1>3. {"candidate_complete", "candidate_failure_rate", "low_quality_rate_increase"} \subseteq DOMAIN checks
  BY DEF ReleaseChecks
<1>4. /\ checks["candidate_complete"] /\ checks["candidate_failure_rate"]
      /\ checks["low_quality_rate_increase"]
  BY <1>2, <1>3
<1>5. /\ gate.policy.requireComplete => StoredRuns[gate.candidate].run.gate
      /\ WithinIncrease(FailureRate(StoredRuns[gate.candidate].run), Zero, gate.policy.failureRate)
      /\ RateIncrease(gate.candidateRate, gate.baselineRate, gate.policy.lowIncrease)
  BY <1>4 DEF ReleaseChecks
<1>6. QED
  BY <1>1, <1>5 DEF ReleaseInv, CallSound, Places, RateIncrease

\* A run that may be released is complete, and if its gate is open or nothing in
\* it failed, everything in it passed.
LEMMA EligibleContent ==
  ASSUME NEW run, ValidRun(run), ReleaseEligible(run)
  PROVE  /\ run.verification = "verified_v2"
         /\ \A id \in run.ids : Content(run.evidence)[id].complete
         /\ run.gate \/ run.failed = 0 => \A id \in run.ids : Content(run.evidence)[id].passed
<1> DEFINE rows == Content(run.evidence)  passing == {id \in run.ids : rows[id].passed}
<1>1. /\ run.verification = "verified_v2" /\ run.complete
      /\ DOMAIN rows = run.ids
      /\ run.complete = \A id \in DOMAIN rows : rows[id].complete
      /\ run.passed = Cardinality({id \in DOMAIN rows : rows[id].passed})
      /\ run.total = Cardinality(DOMAIN rows)
      /\ run.gate = (run.complete /\ run.passed = run.total)
  BY Zenon DEF ReleaseEligible, ValidRun, StoredAccepted
<1>2. \A id \in run.ids : rows[id].complete
  BY <1>1, Zenon
<1>3. ASSUME run.gate \/ run.failed = 0
      PROVE  \A id \in run.ids : rows[id].passed
  <2>1. run.passed = Cardinality(passing) /\ run.total = Cardinality(run.ids)
    BY <1>1
  <2>2. run.passed = run.total
    <3>1. CASE run.gate
      BY <1>1, <3>1, Zenon
    <3>2. CASE run.failed = 0
      <4>1. run.passed \in Nat /\ run.total = run.passed + run.failed
        BY DEF ValidRun
      <4>2. QED
        BY <3>2, <4>1
    <3>3. QED
      BY <1>3, <3>1, <3>2
  <2>3. passing = run.ids
    <3>1. IsFiniteSet(run.ids) /\ passing \subseteq run.ids
      BY DEF ValidRun
    <3> HIDE DEF passing
    <3>2. QED
      BY <2>1, <2>2, <3>1, FS_Subset
  <2>4. QED
    BY <2>3
<1>4. QED
  BY <1>1, <1>2, <1>3

\* A release is passed only on two runs checked against one manifest, in which
\* every scenario was judged, and met what the policy does not tolerate failing
\* (engine.py:171 and 202), for any stored runs, policies and writes of others.
THEOREM ReleaseAlwaysSound == ReleaseSpec => []ReleaseSound
<1>1. ASSUME ReleaseInv PROVE ReleaseSound
  <2> SUFFICES ASSUME Released
               PROVE  Warranted(StoredRuns[gate.baseline].run, StoredRuns[gate.candidate].run,
                                gate.policy)
    BY DEF ReleaseSound
  <2> DEFINE baseline == StoredRuns[gate.baseline].run  candidate == StoredRuns[gate.candidate].run
  <2>1. /\ ReleaseEligible(baseline) /\ ReleaseEligible(candidate)
        /\ baseline.assets = candidate.assets
        /\ gate.policy.requireComplete => candidate.gate
        /\ WithinIncrease(FailureRate(candidate), Zero, gate.policy.failureRate)
        /\ gate \in Calls
    BY <1>1, ChecksOfRelease DEF Admitted
  <2>2. ValidRun(baseline) /\ ValidRun(candidate)
    BY <2>1, ComparedAssumption DEF Calls
  <2>3. ASSUME gate.policy.failureRate = 0 PROVE candidate.failed = 0
    <3>1. candidate.failed \in Nat /\ candidate.total \in Nat
      BY <2>2 DEF ValidRun
    <3>2. CASE candidate.total = 0
      <4>1. FailureRate(candidate) = One
        BY <3>2 DEF FailureRate
      <4>2. FALSE
        BY <2>1, <2>3, <4>1, ScaleAssumption DEF WithinIncrease, One, Zero, Rate
      <4>3. QED
        BY <4>2
    <3>3. CASE candidate.total # 0
      <4>1. FailureRate(candidate) = Rate(candidate.failed, candidate.total)
        BY <3>3 DEF FailureRate
      <4>2. (candidate.failed * 1 - 0 * candidate.total) * Scale <= 0 * candidate.total * 1
        BY <2>1, <2>3, <4>1 DEF WithinIncrease, Zero, Rate
      <4>3. QED
        BY <3>1, <4>2, ScaleAssumption
    <3>4. QED
      BY <3>2, <3>3
  <2>4. ASSUME gate.policy.requireComplete \/ gate.policy.failureRate = 0
        PROVE  \A id \in candidate.ids : Content(candidate.evidence)[id].passed
    BY <2>1, <2>2, <2>3, <2>4, EligibleContent
  <2>5. \A report \in {baseline, candidate} :
           /\ report.verification = "verified_v2"
           /\ \A id \in report.ids : Content(report.evidence)[id].complete
    BY <2>1, <2>2, EligibleContent
  <2> HIDE DEF baseline, candidate
  <2>6. Warranted(baseline, candidate, gate.policy)
    BY <2>1, <2>4, <2>5 DEF Warranted
  <2>7. QED
    BY <2>6 DEF baseline, candidate
<1>2. QED
  BY <1>1, ReleaseInvariant, PTL

\* No candidate is passed whose linked production feedback was, at every moment
\* of the call and compared with every other, worse than the policy allows
\* (engine.py:144 and 198), unless traces were purged or, but for all or nothing,
\* links were made meanwhile; for any number of items, traces and writes.
THEOREM RegressionAlwaysBlocks == ReleaseSpec => []RegressionBlocks
<1>1. ASSUME ReleaseInv PROVE RegressionBlocks
  <2> SUFFICES ASSUME Released, ~seen.purged,
                      ~seen.relinked \/ (seen.least = One /\ seen.most = Zero)
               PROVE  WithinIncrease(seen.least, seen.most, gate.policy.lowIncrease)
    BY DEF RegressionBlocks
  <2>1. Telling
    BY Constants, AtMostReflexive DEF Telling
  <2>2. AtMost(seen.least, gate.candidateRate) /\ AtMost(gate.baselineRate, seen.most)
    BY <1>1, <2>1 DEF ReleaseInv, RatesRead, Released
  <2>3. /\ WithinIncrease(gate.candidateRate, gate.baselineRate, gate.policy.lowIncrease)
        /\ gate.candidateRate \in Fractions /\ gate.baselineRate \in Fractions
        /\ gate.policy \in {c.policy : c \in Comparisons}
    BY <1>1, ChecksOfRelease DEF Calls
  <2>4. gate.policy.lowIncrease \in Nat
    BY <2>3, ComparedAssumption, ScaleAssumption
  <2>5. seen.least \in Fractions /\ seen.most \in Fractions
    BY <1>1 DEF ReleaseInv, CallSound
  <2>6. QED
    BY <2>2, <2>3, <2>4, <2>5, WithinLess
<1>2. QED
  BY <1>1, ReleaseInvariant, PTL
=============================================================================
