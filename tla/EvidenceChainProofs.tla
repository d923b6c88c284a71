-------------------------- MODULE EvidenceChainProofs --------------------------
(* What a report may be relied on for: whatever a run ends in, its report is  *)
(* one its readers accept with the runner's own conclusions, and nothing is   *)
(* accepted as a pass that the evidence does not earn.  The first part is     *)
(* about the reader alone, of any row; the second about the rows the two      *)
(* runners hand out, which the invariant ReportInv keeps.                     *)
EXTENDS EvidenceChain, AsyncRunnerProofs, WellFoundedInduction, NaturalsInduction,
        SequenceTheorems, FiniteSetTheorems, TLAPS

------------------------------------------------------------------------------
(* Lists.  What a list is made of is of no concern: a list is one over the    *)
(* set of its items.                                                          *)

ItemsOf(list) == {list[i] : i \in 1..Len(list)}

LEMMA SequenceOfItems ==
    ASSUME NEW list, IsSequence(list)
    PROVE  list \in Seq(ItemsOf(list)) /\ DOMAIN list = 1..Len(list) /\ Len(list) \in Nat
<1>1. Len(list) \in Nat
  BY DEF IsSequence
<1>2. [i \in 1..Len(list) |-> list[i]] \in [1..Len(list) -> ItemsOf(list)]
  BY DEF ItemsOf
<1>3. list \in [1..Len(list) -> ItemsOf(list)]
  BY <1>2 DEF IsSequence
<1>4. \A n \in Nat : [1..n -> ItemsOf(list)] \subseteq Seq(ItemsOf(list))
  BY SeqDef
<1>5. list \in Seq(ItemsOf(list))
  BY <1>1, <1>3, <1>4
<1> QED BY <1>1, <1>3, <1>5

LEMMA SequenceOver ==
    ASSUME NEW base, NEW list \in Seq(base)
    PROVE  IsSequence(list)
<1>1. Len(list) \in Nat /\ list \in [1..Len(list) -> base]
  BY LenProperties
<1> QED BY <1>1 DEF IsSequence

LEMMA NoItems == IsSequence(<<>>) /\ AllPassed(<<>>) /\ Len(<<>>) = 0
<1>1. <<>> \in Seq({}) /\ Len(<<>>) = 0
  BY EmptySeq
<1>2. DOMAIN <<>> = 1..0
  BY <1>1
<1>3. IsSequence(<<>>)
  BY <1>1, SequenceOver
<1> QED BY <1>1, <1>2, <1>3 DEF AllPassed

LEMMA OneItem ==
    ASSUME NEW x
    PROVE  IsSequence(<<x>>) /\ Len(<<x>>) = 1 /\ <<x>>[1] = x /\ DOMAIN <<x>> = 1..1
<1>1. <<x>> \in Seq({x}) /\ Len(<<x>>) = 1 /\ <<x>>[1] = x
  OBVIOUS
<1>2. DOMAIN <<x>> = 1..1
  BY <1>1
<1>3. IsSequence(<<x>>)
  BY <1>1, SequenceOver
<1> QED BY <1>1, <1>2, <1>3

LEMMA Tabled ==
    ASSUME NEW n \in Nat, NEW f, f = [i \in 1..n |-> f[i]]
    PROVE  IsSequence(f) /\ Len(f) = n /\ DOMAIN f = 1..n
<1> DEFINE base == {f[i] : i \in 1..n}
<1>1. f \in [1..n -> base]
  OBVIOUS
<1>2. f \in Seq(base) /\ Len(f) = n
  BY <1>1
<1> QED BY <1>1, <1>2, SequenceOver

LEMMA Joined ==
    ASSUME NEW a, NEW b, IsSequence(a), IsSequence(b)
    PROVE  /\ IsSequence(a \o b) /\ Len(a \o b) = Len(a) + Len(b)
           /\ \A i \in 1..Len(a) : (a \o b)[i] = a[i]
           /\ \A i \in 1..Len(b) : (a \o b)[Len(a) + i] = b[i]
           /\ ItemsOf(a \o b) = ItemsOf(a) \cup ItemsOf(b)
<1> DEFINE base == ItemsOf(a) \cup ItemsOf(b)
<1>1. a \in Seq(base) /\ b \in Seq(base)
  BY SequenceOfItems, SeqMonotonic, Zenon
<1>1a. /\ DOMAIN a = 1..Len(a) /\ DOMAIN b = 1..Len(b)
       /\ Len(a) \in Nat /\ Len(b) \in Nat
  BY SequenceOfItems
<1> HIDE DEF base
<1>2. /\ a \o b \in Seq(base) /\ Len(a \o b) = Len(a) + Len(b)
      /\ \A i \in 1..(Len(a) + Len(b)) :
            (a \o b)[i] = IF i <= Len(a) THEN a[i] ELSE b[i - Len(a)]
  BY <1>1, ConcatProperties
<1>3. \A i \in 1..Len(a) : (a \o b)[i] = a[i]
  BY <1>1a, <1>2
<1>4. \A i \in 1..Len(b) : (a \o b)[Len(a) + i] = b[i]
  BY <1>1a, <1>2
<1>5. ItemsOf(a \o b) = ItemsOf(a) \cup ItemsOf(b)
  <2>1. \A i \in 1..Len(b) : Len(a) + i \in 1..(Len(a) + Len(b))
    BY <1>1a
  <2>2. \A i \in 1..Len(a) : i \in 1..(Len(a) + Len(b))
    BY <1>1a
  <2>3. ASSUME NEW i \in 1..(Len(a) + Len(b))
        PROVE  (a \o b)[i] \in ItemsOf(a) \cup ItemsOf(b)
    <3>1. CASE i <= Len(a)
      <4>1. i \in 1..Len(a)
        BY <1>1a, <3>1
      <4> QED BY <4>1, <1>3 DEF ItemsOf
    <3>2. CASE ~(i <= Len(a))
      <4>1. i - Len(a) \in 1..Len(b) /\ (a \o b)[i] = b[i - Len(a)]
        BY <1>1a, <1>2, <3>2
      <4> QED BY <4>1 DEF ItemsOf
    <3> QED BY <3>1, <3>2
  <2>4. ItemsOf(a \o b) \subseteq ItemsOf(a) \cup ItemsOf(b)
    BY <1>2, <2>3 DEF ItemsOf
  <2>5. \A i \in 1..Len(a) : a[i] \in ItemsOf(a \o b)
    BY <1>2, <1>3, <2>2 DEF ItemsOf
  <2>6. \A i \in 1..Len(b) : b[i] \in ItemsOf(a \o b)
    BY <1>2, <1>4, <2>1 DEF ItemsOf
  <2> QED BY <2>4, <2>5, <2>6 DEF ItemsOf
<1> QED BY <1>2, <1>3, <1>4, <1>5, SequenceOver

LEMMA LeastNumber ==
    ASSUME NEW chosen \in SUBSET Nat, chosen # {}
    PROVE  \E x \in chosen : \A y \in chosen : x <= y
<1>1. PICK x \in chosen : \A y \in chosen : ~(<<y, x>> \in OpToRel(<, Nat))
  BY NatLessThanWellFounded, WFMin
<1>2. \A y \in chosen : x <= y
  <2> TAKE y \in chosen
  <2>1. ~(<<y, x>> \in {ss \in Nat \X Nat : ss[1] < ss[2]})
    BY <1>1 DEF OpToRel
  <2>2. ~(y < x)
    BY <2>1
  <2> QED BY <2>2
<1> QED BY <1>2

LEMMA Appended ==
    ASSUME NEW list, IsSequence(list), NEW x
    PROVE  /\ IsSequence(Append(list, x)) /\ Len(Append(list, x)) = Len(list) + 1
           /\ \A i \in 1..Len(list) : Append(list, x)[i] = list[i]
           /\ Append(list, x)[Len(list) + 1] = x
<1> DEFINE base == ItemsOf(list) \cup {x}
<1>1. list \in Seq(base) /\ x \in base
  BY SequenceOfItems, SeqMonotonic, Zenon
<1> HIDE DEF base
<1>2. /\ Append(list, x) \in Seq(base) /\ Len(Append(list, x)) = Len(list) + 1
      /\ \A i \in 1..Len(list) : Append(list, x)[i] = list[i]
      /\ Append(list, x)[Len(list) + 1] = x
  BY <1>1, AppendProperties
<1> QED BY <1>2, SequenceOver

LEMMA SameItems ==
    ASSUME NEW a, NEW b, IsSequence(a), IsSequence(b), Len(a) = Len(b),
           \A i \in 1..Len(a) : a[i] = b[i]
    PROVE  a = b
<1>1. a = [i \in 1..Len(a) |-> a[i]] /\ b = [i \in 1..Len(a) |-> b[i]]
  BY DEF IsSequence
<1> QED BY <1>1

LEMMA JoinedWithNone ==
    ASSUME NEW list, IsSequence(list)
    PROVE  list \o <<>> = list /\ <<>> \o list = list
<1>1. list \in Seq(ItemsOf(list))
  BY SequenceOfItems
<1> QED BY <1>1, ConcatEmptySeq

\* What is behind the first item of a list.
LEMMA BehindFirst ==
    ASSUME NEW x, NEW list, IsSequence(list)
    PROVE  /\ <<x>> \o list # <<>> /\ (<<x>> \o list)[1] = x
           /\ Tail(<<x>> \o list) = list
<1> DEFINE base == ItemsOf(list) \cup {x}
<1>1. list \in Seq(base) /\ <<x>> \in Seq(base) /\ Len(<<x>>) = 1 /\ <<x>>[1] = x
  BY SequenceOfItems, SeqMonotonic, OneItem
<1> DEFINE whole == <<x>> \o list
<1>2. Len(list) \in Nat
  BY DEF IsSequence
<1> HIDE DEF base
<1>3. /\ whole \in Seq(base) /\ Len(whole) = 1 + Len(list)
      /\ \A i \in 1..(1 + Len(list)) : whole[i] = IF i <= 1 THEN <<x>>[i] ELSE list[i - 1]
  BY <1>1, ConcatProperties
<1>4. whole # <<>> /\ whole[1] = x
  BY <1>1, <1>2, <1>3, EmptySeq
<1> HIDE DEF whole
<1>5. /\ Tail(whole) \in Seq(base) /\ Len(Tail(whole)) = Len(list)
      /\ \A i \in 1..Len(list) : Tail(whole)[i] = whole[i + 1]
  BY <1>2, <1>3, <1>4, HeadTailProperties
<1>6. \A i \in 1..Len(list) : Tail(whole)[i] = list[i]
  BY <1>2, <1>3, <1>5
<1>7. Tail(whole) = list
  BY <1>5, <1>6, SameItems, SequenceOver
<1> QED BY <1>4, <1>7 DEF whole

------------------------------------------------------------------------------
(* A list of lists, flattened.                                                *)

Flattening(seqs, f) ==
    f = [i \in 1..Len(seqs) |-> IF i = 1 THEN seqs[i] ELSE f[i - 1] \o seqs[i]]

\* The recursion has a solution: a least length at which it had none would be
\* one more than a length at which it has.
LEMMA FlatteningExists ==
    ASSUME NEW seqs, NEW n \in Nat
    PROVE  \E f : f = [i \in 1..n |-> IF i = 1 THEN seqs[i] ELSE f[i - 1] \o seqs[i]]
<1> DEFINE Solves(f, k) == f = [i \in 1..k |-> IF i = 1 THEN seqs[i] ELSE f[i - 1] \o seqs[i]]
           bad == {k \in Nat : ~\E f : Solves(f, k)}
<1> SUFFICES ASSUME bad # {} PROVE FALSE
  OBVIOUS
<1>1. PICK k \in bad : \A m \in bad : k <= m
  <2> HIDE DEF bad
  <2>1. bad \in SUBSET Nat
    BY DEF bad
  <2> QED BY <2>1, LeastNumber
<1>2. k # 0
  <2>1. Solves([i \in 1..0 |-> 0], 0)
    OBVIOUS
  <2> QED BY <2>1
<1>3. k \in Nat /\ k - 1 \in Nat /\ k - 1 \notin bad
  <2>1. k \in Nat
    OBVIOUS
  <2>2. k - 1 \in Nat /\ ~(k <= k - 1)
    BY <1>2, <2>1
  <2> HIDE DEF bad
  <2> QED BY <1>1, <2>1, <2>2
<1>4. PICK f : Solves(f, k - 1)
  BY <1>3
<1> DEFINE g == [i \in 1..k |-> IF i = k THEN (IF k = 1 THEN seqs[k] ELSE f[k - 1] \o seqs[k])
                                ELSE f[i]]
<1>5. ASSUME NEW i \in 1..k
      PROVE  g[i] = IF i = 1 THEN seqs[i] ELSE g[i - 1] \o seqs[i]
  <2>1. CASE i = k
    <3>1. k # 1 => g[k - 1] = f[k - 1]
      BY <1>3
    <3> QED BY <2>1, <3>1, <1>3
  <2>2. CASE i # k
    <3>1. i \in 1..(k - 1)
      BY <2>2, <1>3
    <3>2. f[i] = IF i = 1 THEN seqs[i] ELSE f[i - 1] \o seqs[i]
      BY <1>4, <3>1
    <3>3. g[i] = f[i] /\ (i # 1 => g[i - 1] = f[i - 1])
      BY <2>2, <3>1, <1>3
    <3> QED BY <3>2, <3>3
  <2> QED BY <2>1, <2>2
<1>6. Solves(g, k)
  <2>1. [i \in 1..k |-> g[i]] = [i \in 1..k |-> IF i = 1 THEN seqs[i] ELSE g[i - 1] \o seqs[i]]
    <3> HIDE DEF g
    <3> QED BY <1>5
  <2>2. g = [i \in 1..k |-> g[i]]
    OBVIOUS
  <2> HIDE DEF g
  <2> QED BY <2>1, <2>2
<1> QED BY <1>1, <1>6

LEMMA FlattenSteps ==
    ASSUME NEW seqs, IsSequence(seqs), seqs # <<>>
    PROVE  /\ Len(seqs) \in Nat \ {0}
           /\ \E f : Flattening(seqs, f) /\ FlattenSeq(seqs) = f[Len(seqs)]
<1>1. Len(seqs) \in Nat \ {0}
  BY SequenceOfItems, EmptySeq
<1> DEFINE flatten == CHOOSE f : Flattening(seqs, f)
<1>2. FlattenSeq(seqs) = flatten[Len(seqs)]
  BY <1>1 DEF FlattenSeq, Flattening
<1>3. \E f : Flattening(seqs, f)
  BY <1>1, FlatteningExists DEF Flattening
<1>4. Flattening(seqs, flatten)
  BY <1>3
<1> QED BY <1>1, <1>2, <1>4

LEMMA FlattenNone == FlattenSeq(<<>>) = <<>>
BY EmptySeq DEF FlattenSeq

LEMMA FlattenedPrefix ==
    ASSUME NEW s, NEW t, NEW f, NEW g, Flattening(s, f), Flattening(t, g),
           Len(s) \in Nat, Len(t) \in Nat, Len(s) <= Len(t),
           \A i \in 1..Len(s) : s[i] = t[i], NEW n \in 1..Len(s)
    PROVE  f[n] = g[n]
<1> DEFINE bad == {i \in 1..Len(s) : f[i] # g[i]}
<1> SUFFICES ASSUME bad # {} PROVE FALSE
  OBVIOUS
<1>1. PICK i \in bad : \A j \in bad : i <= j
  <2>1. bad \in SUBSET Nat
    OBVIOUS
  <2> HIDE DEF bad
  <2> QED BY <2>1, LeastNumber
<1>2. i \in 1..Len(s) /\ i \in 1..Len(t)
  OBVIOUS
<1>3. /\ f[i] = IF i = 1 THEN s[i] ELSE f[i - 1] \o s[i]
      /\ g[i] = IF i = 1 THEN t[i] ELSE g[i - 1] \o t[i]
  BY <1>2 DEF Flattening
<1>4. i # 1 => f[i - 1] = g[i - 1]
  BY <1>1, <1>2
<1> QED BY <1>1, <1>2, <1>3, <1>4

LEMMA FlattenAppended ==
    ASSUME NEW seqs, IsSequence(seqs), NEW x, IsSequence(x)
    PROVE  FlattenSeq(Append(seqs, x)) = FlattenSeq(seqs) \o x
<1> DEFINE more == Append(seqs, x)
<1>1. /\ IsSequence(more) /\ Len(more) = Len(seqs) + 1 /\ more[Len(seqs) + 1] = x
      /\ \A i \in 1..Len(seqs) : more[i] = seqs[i]
  BY Appended
<1>2. Len(seqs) \in Nat
  BY DEF IsSequence
<1> HIDE DEF more
<1>3. more # <<>>
  BY <1>1, <1>2, EmptySeq
<1>4. PICK g : Flattening(more, g) /\ FlattenSeq(more) = g[Len(more)]
  BY <1>1, <1>3, FlattenSteps
<1>5. g[Len(more)] = IF Len(more) = 1 THEN x ELSE g[Len(seqs)] \o x
  <2>1. Len(more) \in 1..Len(more) /\ Len(more) - 1 = Len(seqs)
    BY <1>1, <1>2
  <2>2. g[Len(more)] = IF Len(more) = 1 THEN more[Len(more)]
                       ELSE g[Len(more) - 1] \o more[Len(more)]
    BY <1>4, <2>1 DEF Flattening
  <2> QED BY <1>1, <2>1, <2>2
<1>6. CASE seqs = <<>>
  <2>1. FlattenSeq(seqs) = <<>> /\ Len(more) = 1
    BY <1>1, <1>6, FlattenNone, EmptySeq
  <2> QED BY <2>1, <1>4, <1>5, JoinedWithNone DEF more
<1>7. CASE seqs # <<>>
  <2>1. PICK f : Flattening(seqs, f) /\ FlattenSeq(seqs) = f[Len(seqs)]
    BY <1>7, FlattenSteps
  <2>2. Len(seqs) \in Nat \ {0}
    BY <1>7, FlattenSteps
  <2>3. f[Len(seqs)] = g[Len(seqs)]
    BY <1>1, <1>4, <2>1, <2>2, FlattenedPrefix
  <2> QED BY <1>1, <1>4, <1>5, <2>1, <2>2, <2>3 DEF more
<1> QED BY <1>6, <1>7

LEMMA FlattenedItems ==
    ASSUME NEW seqs, IsSequence(seqs), \A i \in 1..Len(seqs) : IsSequence(seqs[i])
    PROVE  /\ IsSequence(FlattenSeq(seqs))
           /\ \A x : x \in ItemsOf(FlattenSeq(seqs)) <=>
                 \E i \in 1..Len(seqs) : x \in ItemsOf(seqs[i])
<1>1. CASE seqs = <<>>
  <2>1. FlattenSeq(seqs) = <<>> /\ Len(seqs) = 0
    BY <1>1, FlattenNone, EmptySeq
  <2> QED BY <2>1, NoItems DEF ItemsOf
<1>2. CASE seqs # <<>>
  <2>1. PICK f : Flattening(seqs, f) /\ FlattenSeq(seqs) = f[Len(seqs)]
    BY <1>2, FlattenSteps
  <2>2. Len(seqs) \in Nat \ {0}
    BY <1>2, FlattenSteps
  <2> DEFINE Good(n) == /\ IsSequence(f[n])
                        /\ \A x : x \in ItemsOf(f[n]) <=> \E i \in 1..n : x \in ItemsOf(seqs[i])
             bad == {n \in 1..Len(seqs) : ~Good(n)}
  <2>3. bad = {}
    <3> SUFFICES ASSUME bad # {} PROVE FALSE
      OBVIOUS
    <3>1. PICK n \in bad : \A m \in bad : n <= m
      <4>1. bad \in SUBSET Nat
        OBVIOUS
      <4> HIDE DEF bad
      <4> QED BY <4>1, LeastNumber
    <3>2. n \in 1..Len(seqs) /\ ~Good(n)
      OBVIOUS
    <3>3. f[n] = IF n = 1 THEN seqs[n] ELSE f[n - 1] \o seqs[n]
      BY <2>1, <3>2 DEF Flattening
    <3>4. CASE n = 1
      <4>1. 1..1 = {1}
        OBVIOUS
      <4> QED BY <3>2, <3>3, <3>4, <4>1
    <3>5. CASE n # 1
      <4>1. n - 1 \in 1..Len(seqs) /\ ~(n <= n - 1)
        BY <2>2, <3>2, <3>5
      <4>2. Good(n - 1)
        BY <3>1, <4>1
      <4>3. /\ IsSequence(f[n])
            /\ ItemsOf(f[n]) = ItemsOf(f[n - 1]) \cup ItemsOf(seqs[n])
        BY <3>2, <3>3, <3>5, <4>2, Joined
      <4>4. 1..n = (1..(n - 1)) \cup {n}
        BY <2>2, <3>2, <3>5
      <4>5. \A x : (\E i \in 1..n : x \in ItemsOf(seqs[i])) <=>
                  (\E i \in 1..(n - 1) : x \in ItemsOf(seqs[i])) \/ x \in ItemsOf(seqs[n])
        BY <4>4
      <4> QED BY <3>2, <4>2, <4>3, <4>5
    <3> QED BY <3>4, <3>5
  <2>4. Good(Len(seqs))
    BY <2>2, <2>3
  <2> QED BY <2>1, <2>4
<1> QED BY <1>1, <1>2

------------------------------------------------------------------------------
(* The order of tool calls: the fold of the runner finds an expected name     *)
(* behind the one before, so what it has found is an increasing row of calls. *)

LEMMA NextFound ==
    ASSUME NEW names, IsSequence(names), NEW cursor \in Nat, NEW name
    PROVE  LET next == NextOccurrence(names, cursor, name) IN
           /\ next \in Nat
           /\ next <= Len(names) =>
                 next \in DOMAIN names /\ names[next] = name /\ cursor < next
<1> DEFINE found == {i \in DOMAIN names : i > cursor /\ names[i] = name}
<1>1. Len(names) \in Nat /\ DOMAIN names = 1..Len(names)
  BY SequenceOfItems
<1>2. CASE found = {}
  <2>1. NextOccurrence(names, cursor, name) = Len(names) + 1
    BY <1>2 DEF NextOccurrence
  <2> QED BY <1>1, <2>1
<1>3. CASE found # {}
  <2>1. \E i \in found : \A j \in found : i <= j
    <3>1. found \in SUBSET Nat
      BY <1>1
    <3> HIDE DEF found
    <3> QED BY <1>3, <3>1, LeastNumber
  <2>2. NextOccurrence(names, cursor, name) \in found
    <3>1. NextOccurrence(names, cursor, name) = CHOOSE i \in found : \A j \in found : i <= j
      BY <1>3 DEF NextOccurrence
    <3> HIDE DEF found
    <3> QED BY <2>1, <3>1
  <2> QED BY <1>1, <2>2
<1> QED BY <1>2, <1>3

\* It is the first such position.
LEMMA NextIsFirst ==
    ASSUME NEW names, IsSequence(names), NEW cursor \in Nat, NEW name,
           NEW k \in DOMAIN names, cursor < k, names[k] = name
    PROVE  NextOccurrence(names, cursor, name) <= k
<1> DEFINE found == {i \in DOMAIN names : i > cursor /\ names[i] = name}
<1>1. Len(names) \in Nat /\ DOMAIN names = 1..Len(names)
  BY SequenceOfItems
<1>2. k \in found
  BY <1>1
<1>3. found \in SUBSET Nat
  BY <1>1
<1>4. NextOccurrence(names, cursor, name) = CHOOSE i \in found : \A j \in found : i <= j
  BY <1>2 DEF NextOccurrence
<1> HIDE DEF found
<1>5. \E i \in found : \A j \in found : i <= j
  BY <1>2, <1>3, LeastNumber
<1> QED BY <1>2, <1>4, <1>5

Cursors(names, expected, n, f) ==
    f = [s \in SUBSET (1..n) |->
            IF s = {} THEN 0 ELSE NextOccurrence(names, f[s \ {Max(s)}], expected[Max(s)])]

LEMMA GreatestOf ==
    ASSUME NEW n \in Nat, NEW s \in SUBSET (1..n), n \in s
    PROVE  Max(s) = n
<1>1. \A y \in s : n >= y
  OBVIOUS
<1>2. \A x \in s : (\A y \in s : x >= y) => x = n
  <2> SUFFICES ASSUME NEW x \in s, \A y \in s : x >= y PROVE x = n
    OBVIOUS
  <2>1. x >= n /\ n >= x
    BY <1>1
  <2> QED BY <2>1
<1>3. Max(s) = CHOOSE x \in s : \A y \in s : x >= y
  BY DEF Max
<1> QED BY <1>1, <1>2, <1>3

LEMMA CursorsExist ==
    ASSUME NEW names, NEW expected, NEW n \in Nat
    PROVE  \E f : Cursors(names, expected, n, f)
<1> DEFINE bad == {k \in Nat : ~\E f : Cursors(names, expected, k, f)}
<1> SUFFICES ASSUME bad # {} PROVE FALSE
  OBVIOUS
<1>1. PICK k \in bad : \A m \in bad : k <= m
  <2>1. bad \in SUBSET Nat
    OBVIOUS
  <2> HIDE DEF bad
  <2> QED BY <2>1, LeastNumber
<1>2. k # 0
  <2> DEFINE none == [s \in SUBSET (1..0) |-> 0]
  <2>1. SUBSET (1..0) = {{}}
    OBVIOUS
  <2>2. Cursors(names, expected, 0, none)
    BY <2>1 DEF Cursors
  <2> QED BY <2>2
<1>3. k \in Nat /\ k - 1 \in Nat /\ k - 1 \notin bad
  <2>1. k \in Nat
    OBVIOUS
  <2>2. k - 1 \in Nat /\ ~(k <= k - 1)
    BY <1>2, <2>1
  <2> HIDE DEF bad
  <2> QED BY <1>1, <2>1, <2>2
<1>4. PICK f : Cursors(names, expected, k - 1, f)
  BY <1>3
<1> DEFINE g == [s \in SUBSET (1..k) |->
                    IF k \in s THEN NextOccurrence(names, f[s \ {k}], expected[k]) ELSE f[s]]
           Next1(h, s) == IF s = {} THEN 0
                          ELSE NextOccurrence(names, h[s \ {Max(s)}], expected[Max(s)])
<1>5. ASSUME NEW s \in SUBSET (1..k) PROVE g[s] = Next1(g, s)
  <2>1. CASE k \in s
    <3>1. Max(s) = k
      BY <1>3, <2>1, GreatestOf
    <3>2. s \ {k} \in SUBSET (1..k) /\ k \notin s \ {k}
      OBVIOUS
    <3>3. g[s \ {k}] = f[s \ {k}]
      BY <3>2
    <3>4. g[s] = NextOccurrence(names, f[s \ {k}], expected[k])
      BY <2>1
    <3> HIDE DEF g
    <3> QED BY <2>1, <3>1, <3>3, <3>4
  <2>2. CASE k \notin s
    <3>1. s \in SUBSET (1..(k - 1))
      BY <1>3, <2>2
    <3>2. f[s] = Next1(f, s)
      BY <1>4, <3>1 DEF Cursors
    <3>3. g[s] = f[s] /\ g[s \ {Max(s)}] = f[s \ {Max(s)}]
      BY <2>2
    <3> HIDE DEF g
    <3> QED BY <3>2, <3>3
  <2> QED BY <2>1, <2>2
<1>6. Cursors(names, expected, k, g)
  <2>1. g = [s \in SUBSET (1..k) |-> g[s]]
    OBVIOUS
  <2> HIDE DEF g
  <2>2. [s \in SUBSET (1..k) |-> g[s]] = [s \in SUBSET (1..k) |-> Next1(g, s)]
    BY <1>5
  <2>3. g = [s \in SUBSET (1..k) |-> Next1(g, s)]
    BY <2>1, <2>2
  <2> QED BY <2>3 DEF Cursors
<1> QED BY <1>1, <1>6

LEMMA CursorSteps ==
    ASSUME NEW names, NEW expected, IsSequence(expected)
    PROVE  \E c :
             /\ c[0] = 0
             /\ \A i \in 1..Len(expected) : c[i] = NextOccurrence(names, c[i - 1], expected[i])
             /\ FoundInOrder(names, expected) <=> c[Len(expected)] <= Len(names)
<1> DEFINE n == Len(expected)
           f == CHOOSE h : Cursors(names, expected, n, h)
<1>1. n \in Nat /\ DOMAIN expected = 1..n
  BY SequenceOfItems
<1>2. Cursors(names, expected, n, f)
  BY <1>1, CursorsExist
<1>3. FoundInOrder(names, expected) <=> f[1..n] <= Len(names)
  <2>1. FoldLeft(LAMBDA cursor, name : NextOccurrence(names, cursor, name), 0, expected) = f[1..n]
    BY <1>1 DEF FoldLeft, MapThenFoldSet, Cursors
  <2> QED BY <2>1 DEF FoundInOrder
<1> HIDE DEF f
<1> DEFINE c == [i \in 0..n |-> f[1..i]]
<1>4. c[0] = 0
  <2>1. 1..0 = {} /\ {} \in SUBSET (1..n)
    OBVIOUS
  <2>2. f[{}] = 0
    BY <1>2, <2>1 DEF Cursors
  <2> QED BY <1>1, <2>1, <2>2
<1>5. ASSUME NEW i \in 1..n PROVE c[i] = NextOccurrence(names, c[i - 1], expected[i])
  <2>1. 1..i \in SUBSET (1..n) /\ 1..i # {} /\ i \in 1..i /\ (1..i) \ {i} = 1..(i - 1) /\ i \in Nat
    BY <1>1
  <2>2. Max(1..i) = i
    BY <2>1, GreatestOf
  <2>3. f[1..i] = NextOccurrence(names, f[(1..i) \ {Max(1..i)}], expected[Max(1..i)])
    BY <1>2, <2>1 DEF Cursors
  <2>4. c[i] = f[1..i] /\ c[i - 1] = f[1..(i - 1)]
    BY <1>1
  <2> HIDE DEF c
  <2> QED BY <2>1, <2>2, <2>3, <2>4
<1>6. c[n] = f[1..n]
  BY <1>1
<1> HIDE DEF c
<1> QED BY <1>3, <1>4, <1>5, <1>6

LEMMA OrderFound ==
    ASSUME NEW names, IsSequence(names), NEW expected, IsSequence(expected),
           FoundInOrder(names, expected)
    PROVE  \E at \in [DOMAIN expected -> DOMAIN names] :
              /\ \A i \in DOMAIN at : names[at[i]] = expected[i]
              /\ \A i, j \in DOMAIN at : i < j => at[i] < at[j]
<1>1. Len(names) \in Nat /\ DOMAIN names = 1..Len(names)
      /\ Len(expected) \in Nat /\ DOMAIN expected = 1..Len(expected)
  BY SequenceOfItems
<1>2. PICK c : /\ c[0] = 0
               /\ \A i \in 1..Len(expected) : c[i] = NextOccurrence(names, c[i - 1], expected[i])
               /\ c[Len(expected)] <= Len(names)
  BY CursorSteps
<1> DEFINE n == Len(expected)
<1>3. \A i \in 0..n : c[i] \in Nat
  <2> DEFINE bad == {i \in 0..n : c[i] \notin Nat}
  <2> SUFFICES ASSUME bad # {} PROVE FALSE
    OBVIOUS
  <2>1. PICK i \in bad : \A j \in bad : i <= j
    <3>1. bad \in SUBSET Nat
      OBVIOUS
    <3> HIDE DEF bad
    <3> QED BY <3>1, LeastNumber
  <2>2. i # 0 /\ i \in 1..n /\ i - 1 \in 0..n /\ ~(i <= i - 1)
    BY <1>1, <1>2
  <2>3. c[i - 1] \in Nat
    BY <2>1, <2>2
  <2>4. c[i] \in Nat
    BY <1>2, <2>2, <2>3, NextFound
  <2> QED BY <2>1, <2>4
<1>4. ASSUME NEW i \in 1..n, c[i] <= Len(names)
      PROVE  c[i] \in DOMAIN names /\ names[c[i]] = expected[i] /\ c[i - 1] < c[i]
  <2>1. c[i - 1] \in Nat
    BY <1>1, <1>3
  <2> QED BY <1>2, <1>4, <2>1, NextFound
<1>5. \A i \in 0..n : c[i] <= Len(names)
  <2> DEFINE bad == {k \in 0..n : ~(c[n - k] <= Len(names))}
  <2>1. bad = {}
    <3> SUFFICES ASSUME bad # {} PROVE FALSE
      OBVIOUS
    <3>1. PICK k \in bad : \A j \in bad : k <= j
      <4>1. bad \in SUBSET Nat
        OBVIOUS
      <4> HIDE DEF bad
      <4> QED BY <4>1, LeastNumber
    <3>2. k # 0
      <4>1. n - 0 = n /\ ~(c[n - k] <= Len(names))
        BY <1>1
      <4> QED BY <4>1, <1>2
    <3>2a. k \in 1..n /\ k - 1 \in 0..n /\ ~(k <= k - 1)
      <4>1. k \in 0..n
        OBVIOUS
      <4> HIDE DEF bad
      <4> QED BY <1>1, <3>2, <4>1
    <3>3. c[n - (k - 1)] <= Len(names)
      BY <3>1, <3>2a
    <3>4. n - (k - 1) \in 1..n /\ (n - (k - 1)) - 1 = n - k /\ n - k \in 0..n
      BY <1>1, <3>2a
    <3>5. c[n - k] < c[n - (k - 1)]
      BY <1>4, <3>3, <3>4
    <3>6. c[n - k] \in Nat /\ c[n - (k - 1)] \in Nat
      BY <1>1, <1>3, <3>4
    <3>7. c[n - k] <= Len(names)
      BY <1>1, <3>3, <3>5, <3>6
    <3> QED BY <3>7
  <2> QED
    <3> TAKE i \in 0..n
    <3>1. n - i \in 0..n /\ n - (n - i) = i
      BY <1>1
    <3> QED BY <2>1, <3>1
<1>6. ASSUME NEW i \in 1..n, NEW j \in 1..n, i < j PROVE c[i] < c[j]
  <2> DEFINE bad == {k \in 1..n : i < k /\ ~(c[i] < c[k])}
  <2> SUFFICES ASSUME bad # {} PROVE FALSE
    BY <1>6
  <2>1. PICK k \in bad : \A m \in bad : k <= m
    <3>1. bad \in SUBSET Nat
      OBVIOUS
    <3> HIDE DEF bad
    <3> QED BY <3>1, LeastNumber
  <2>2. k \in 1..n /\ i < k /\ k - 1 \in 1..n /\ k - 1 \in 0..n /\ ~(k <= k - 1)
    BY <1>1
  <2>3. k - 1 = i \/ c[i] < c[k - 1]
    BY <1>1, <2>1, <2>2
  <2>4. c[k - 1] < c[k]
    BY <1>1, <1>4, <1>5, <2>2
  <2>5. c[i] \in Nat /\ c[k] \in Nat /\ c[k - 1] \in Nat
    BY <1>1, <1>3, <2>2
  <2>6. c[i] < c[k]
    BY <2>3, <2>4, <2>5
  <2> QED BY <2>6
<1> DEFINE at == [i \in 1..n |-> c[i]]
<1>7. \A i \in 1..n : c[i] \in DOMAIN names /\ names[c[i]] = expected[i]
  BY <1>1, <1>4, <1>5
<1>8. at \in [DOMAIN expected -> DOMAIN names]
  BY <1>1, <1>7
<1>9. \A i \in DOMAIN at : names[at[i]] = expected[i]
  BY <1>7
<1>10. \A i, j \in DOMAIN at : i < j => at[i] < at[j]
  BY <1>6
<1> HIDE DEF at
<1> QED BY <1>8, <1>9, <1>10

\* And where such a row exists it finds one, never behind it.
LEMMA OrderFindable ==
    ASSUME NEW names, IsSequence(names), NEW expected, IsSequence(expected),
           NEW at \in [DOMAIN expected -> DOMAIN names],
           \A i \in DOMAIN at : names[at[i]] = expected[i],
           \A i, j \in DOMAIN at : i < j => at[i] < at[j]
    PROVE  FoundInOrder(names, expected)
<1> DEFINE n == Len(expected)
<1>1. /\ Len(names) \in Nat /\ DOMAIN names = 1..Len(names)
      /\ n \in Nat /\ DOMAIN expected = 1..n /\ DOMAIN at = 1..n
  BY SequenceOfItems
<1>2. PICK c : /\ c[0] = 0
               /\ \A i \in 1..n : c[i] = NextOccurrence(names, c[i - 1], expected[i])
               /\ FoundInOrder(names, expected) <=> c[n] <= Len(names)
  BY CursorSteps
<1>3. \A i \in 1..n : at[i] \in 1..Len(names)
  BY <1>1
<1>4. \A i \in 0..n : c[i] \in Nat /\ (i # 0 => c[i] <= at[i])
  <2> DEFINE bad == {i \in 0..n : ~(c[i] \in Nat /\ (i # 0 => c[i] <= at[i]))}
  <2> SUFFICES ASSUME bad # {} PROVE FALSE
    OBVIOUS
  <2>1. PICK i \in bad : \A j \in bad : i <= j
    <3>1. bad \in SUBSET Nat
      OBVIOUS
    <3> HIDE DEF bad
    <3> QED BY <3>1, LeastNumber
  <2>2. i # 0 /\ i \in 1..n /\ i - 1 \in 0..n /\ ~(i <= i - 1)
    BY <1>1, <1>2
  <2>3. c[i - 1] \in Nat /\ (i - 1 # 0 => c[i - 1] <= at[i - 1])
    BY <2>1, <2>2
  <2>4. c[i - 1] < at[i]
    <3>1. CASE i - 1 = 0
      BY <1>1, <1>2, <1>3, <2>2, <3>1
    <3>2. CASE i - 1 # 0
      <4>1. i - 1 \in 1..n /\ i - 1 < i
        BY <1>1, <2>2, <3>2
      <4>2. at[i - 1] < at[i]
        BY <1>1, <2>2, <4>1
      <4> QED BY <1>1, <1>3, <2>2, <2>3, <3>2, <4>1, <4>2
    <3> QED BY <3>1, <3>2
  <2>5. at[i] \in DOMAIN names /\ names[at[i]] = expected[i]
    BY <1>1, <2>2
  <2>6. c[i] \in Nat /\ c[i] <= at[i]
    BY <1>2, <2>2, <2>3, <2>4, <2>5, NextFound, NextIsFirst
  <2> QED BY <2>1, <2>6
<1>5. c[n] <= Len(names)
  <2>1. CASE n = 0
    BY <1>1, <1>2, <2>1
  <2>2. CASE n # 0
    BY <1>1, <1>3, <1>4, <2>2
  <2> QED BY <2>1, <2>2
<1> QED BY <1>2, <1>5

------------------------------------------------------------------------------
(* Results have all passed exactly where the expectation is met.              *)

\* A list of assertion results.
ResultList(list) ==
    IsSequence(list) /\ \A i \in 1..Len(list) : "passed" \in DOMAIN list[i]

LEMMA NoResults == ResultList(<<>>) /\ AllPassed(<<>>)
BY NoItems DEF ResultList

LEMMA OnePassed ==
    ASSUME NEW x, "passed" \in DOMAIN x
    PROVE  ResultList(<<x>>) /\ (AllPassed(<<x>>) <=> x.passed)
BY OneItem DEF AllPassed, ResultList

LEMMA TwoPassed ==
    ASSUME NEW x, NEW y, "passed" \in DOMAIN x, "passed" \in DOMAIN y
    PROVE  ResultList(<<x, y>>) /\ (AllPassed(<<x, y>>) <=> x.passed /\ y.passed)
<1>1. <<x, y>> \in Seq({x, y})
  OBVIOUS
<1>2. DOMAIN <<x, y>> = 1..2 /\ Len(<<x, y>>) = 2 /\ <<x, y>>[1] = x /\ <<x, y>>[2] = y
  OBVIOUS
<1>3. IsSequence(<<x, y>>)
  BY <1>1, SequenceOver
<1>4. AllPassed(<<x, y>>) <=> x.passed /\ y.passed
  <2>1. 1..2 = {1, 2}
    OBVIOUS
  <2> QED BY <2>1, <1>2 DEF AllPassed
<1>5. \A i \in 1..2 : "passed" \in DOMAIN <<x, y>>[i]
  <2>1. 1..2 = {1, 2}
    OBVIOUS
  <2> QED BY <1>2, <2>1
<1> QED BY <1>2, <1>3, <1>4, <1>5 DEF ResultList

LEMMA PassedItems ==
    ASSUME NEW list, IsSequence(list)
    PROVE  /\ AllPassed(list) <=> \A x \in ItemsOf(list) : x.passed
           /\ ResultList(list) <=> \A x \in ItemsOf(list) : "passed" \in DOMAIN x
BY SequenceOfItems DEF AllPassed, ItemsOf, ResultList

LEMMA JoinedResults ==
    ASSUME NEW a, NEW b, ResultList(a), ResultList(b)
    PROVE  ResultList(a \o b) /\ (AllPassed(a \o b) <=> AllPassed(a) /\ AllPassed(b))
<1>1. IsSequence(a) /\ IsSequence(b)
  BY DEF ResultList
<1>2. IsSequence(a \o b) /\ ItemsOf(a \o b) = ItemsOf(a) \cup ItemsOf(b)
  BY <1>1, Joined
<1> QED BY <1>1, <1>2, PassedItems

\* A list of lists of results holds throughout exactly where each of them does.
LEMMA FlattenedPassed ==
    ASSUME NEW seqs, IsSequence(seqs), \A i \in 1..Len(seqs) : ResultList(seqs[i])
    PROVE  /\ ResultList(FlattenSeq(seqs))
           /\ AllPassed(FlattenSeq(seqs)) <=> \A i \in 1..Len(seqs) : AllPassed(seqs[i])
<1>1. \A i \in 1..Len(seqs) : IsSequence(seqs[i])
  BY DEF ResultList
<1>2. /\ IsSequence(FlattenSeq(seqs))
      /\ \A x : x \in ItemsOf(FlattenSeq(seqs)) <=>
            \E i \in 1..Len(seqs) : x \in ItemsOf(seqs[i])
  BY <1>1, FlattenedItems
<1>3. \A i \in 1..Len(seqs) :
        /\ AllPassed(seqs[i]) <=> \A x \in ItemsOf(seqs[i]) : x.passed
        /\ \A x \in ItemsOf(seqs[i]) : "passed" \in DOMAIN x
  BY <1>1, PassedItems
<1>4. /\ AllPassed(FlattenSeq(seqs)) <=> \A x \in ItemsOf(FlattenSeq(seqs)) : x.passed
      /\ ResultList(FlattenSeq(seqs)) <=> \A x \in ItemsOf(FlattenSeq(seqs)) : "passed" \in DOMAIN x
  BY <1>2, PassedItems
<1> QED BY <1>2, <1>3, <1>4

ContractHolds(call, name, argumentsSchema, resultSchema) ==
    /\ Declared(argumentsSchema) => call.arguments \in Content(argumentsSchema)
    /\ Declared(resultSchema) /\ call.status = "succeeded" => call.result \in Content(resultSchema)

LEMMA ContractMet ==
    ASSUME NEW call, NEW name, NEW argumentsSchema, NEW resultSchema, NEW position
    PROVE  LET list == ToolContractResults(call, name, argumentsSchema, resultSchema, position) IN
           /\ ResultList(list)
           /\ AllPassed(list) <=> /\ call.name = name
                                   /\ ContractHolds(call, name, argumentsSchema, resultSchema)
<1> DEFINE list == ToolContractResults(call, name, argumentsSchema, resultSchema, position)
           named == Result("tool_name", position, name, TRUE)
           judged == ~Declared(argumentsSchema) \/ call.arguments \in Content(argumentsSchema)
           shaped == call.result \in Content(resultSchema)
           arguments == Result("tool_arguments_schema", position, "", judged)
           result == Result("tool_result_schema", position, "", shaped)
           tail == IF Declared(resultSchema) /\ call.status = "succeeded" THEN <<result>> ELSE <<>>
<1>1. CASE call.name # name
  <2>1. list = <<Result("tool_name", position, name, FALSE)>>
    BY <1>1 DEF ToolContractResults
  <2>2. ~Result("tool_name", position, name, FALSE).passed
        /\ "passed" \in DOMAIN Result("tool_name", position, name, FALSE)
    BY DEF Result
  <2> QED BY <1>1, <2>1, <2>2, OnePassed
<1>2. CASE call.name = name
  <2>1. list = <<named, arguments>> \o tail
    BY <1>2 DEF ToolContractResults
  <2>2. (arguments.passed <=> judged) /\ (result.passed <=> shaped)
        /\ "passed" \in DOMAIN named /\ "passed" \in DOMAIN arguments
        /\ "passed" \in DOMAIN result
    BY DEF Result
  <2>2a. named.passed
    BY DEF Result
  <2>3. ResultList(<<named, arguments>>) /\ (AllPassed(<<named, arguments>>) <=> arguments.passed)
    BY <2>2, <2>2a, TwoPassed
  <2>4. /\ ResultList(tail)
        /\ AllPassed(tail) <=> (Declared(resultSchema) /\ call.status = "succeeded" => result.passed)
    BY <2>2, OnePassed, NoResults
  <2> HIDE DEF tail, named, arguments, result
  <2>5. ResultList(list) /\ (AllPassed(list) <=> AllPassed(<<named, arguments>>) /\ AllPassed(tail))
    BY <2>1, <2>3, <2>4, JoinedResults
  <2> QED BY <1>2, <2>2, <2>3, <2>4, <2>5 DEF ContractHolds
<1> QED BY <1>1, <1>2

ToolHolds(tool, calls, i) ==
    /\ i <= Len(calls)
    /\ calls[i].name = tool.name /\ calls[i].status = tool.status
    /\ Compare(tool.arguments, calls[i].arguments, TRUE)
    /\ ContractHolds(calls[i], tool.name, tool.argumentsSchema, tool.resultSchema)

LEMMA ToolMet ==
    ASSUME NEW tool, NEW calls, IsSequence(calls), NEW i \in Nat \ {0}
    PROVE  /\ ResultList(ToolResults(tool, calls, i))
           /\ AllPassed(ToolResults(tool, calls, i)) <=> ToolHolds(tool, calls, i)
<1> DEFINE list == ToolResults(tool, calls, i)
<1>0. Len(calls) \in Nat
  BY DEF IsSequence
<1>1. CASE i > Len(calls)
  <2>1. list = <<Result("tool_name", i, tool.name, FALSE)>>
    BY <1>1 DEF ToolResults
  <2>2. ~Result("tool_name", i, tool.name, FALSE).passed
        /\ "passed" \in DOMAIN Result("tool_name", i, tool.name, FALSE)
    BY DEF Result
  <2>3. ~ToolHolds(tool, calls, i)
    <3>1. ~(i <= Len(calls))
      BY <1>0, <1>1
    <3> QED BY <3>1, Zenon DEF ToolHolds
  <2> QED BY <2>1, <2>2, <2>3, OnePassed
<1>2. CASE ~(i > Len(calls))
  <2> DEFINE call == calls[i]
             misnamed == Result("tool_name", i, tool.name, FALSE)
             head == IF call.name # tool.name THEN <<misnamed>> ELSE <<>>
             arguments == ToolArgumentsResult(call, tool.arguments, i)
             ended == ToolStatusResult(call, tool.status, i)
             contract == ToolContractResults(call, tool.name, tool.argumentsSchema,
                                             tool.resultSchema, i)
             tail == IF Declared(tool.argumentsSchema) \/ Declared(tool.resultSchema)
                     THEN contract ELSE <<>>
             met == Compare(tool.arguments, call.arguments, TRUE)
  <2>1. list = (head \o <<arguments, ended>>) \o tail
    BY <1>2 DEF ToolResults
  <2>2. ResultList(head) /\ (AllPassed(head) <=> call.name = tool.name)
    <3>1. ~misnamed.passed /\ "passed" \in DOMAIN misnamed
      BY DEF Result
    <3> HIDE DEF misnamed
    <3> QED BY <3>1, OnePassed, NoResults
  <2>2a. "passed" \in DOMAIN arguments /\ "passed" \in DOMAIN ended
    BY DEF Result, ToolArgumentsResult, ToolStatusResult
  <2>3. /\ ResultList(<<arguments, ended>>)
        /\ AllPassed(<<arguments, ended>>) <=> arguments.passed /\ ended.passed
    BY TwoPassed, <2>2a
  <2>4. (arguments.passed <=> met) /\ (ended.passed <=> (call.status = tool.status))
    BY DEF Result, ToolArgumentsResult, ToolStatusResult
  <2>5. /\ ResultList(tail)
        /\ call.name = tool.name =>
              (AllPassed(tail) <=> ContractHolds(call, tool.name, tool.argumentsSchema, tool.resultSchema))
    <3> HIDE DEF call
    <3>1. CASE Declared(tool.argumentsSchema) \/ Declared(tool.resultSchema)
      <4>1. tail = contract
        BY <3>1
      <4> HIDE DEF tail
      <4> QED BY <4>1, ContractMet
    <3>2. CASE ~(Declared(tool.argumentsSchema) \/ Declared(tool.resultSchema))
      BY <3>2, NoResults DEF ContractHolds
    <3> QED BY <3>1, <3>2
  <2> HIDE DEF head, arguments, ended, tail, met, call
  <2>6. /\ ResultList(head \o <<arguments, ended>>)
        /\ AllPassed(head \o <<arguments, ended>>) <=> AllPassed(head) /\ AllPassed(<<arguments, ended>>)
    BY <2>2, <2>3, JoinedResults
  <2>7. /\ ResultList(list)
        /\ AllPassed(list) <=> AllPassed(head \o <<arguments, ended>>) /\ AllPassed(tail)
    BY <2>1, <2>5, <2>6, JoinedResults
  <2>8. i <= Len(calls)
    BY <1>0, <1>2
  <2>9. AllPassed(list) <=> /\ call.name = tool.name /\ met /\ call.status = tool.status
                            /\ ContractHolds(call, tool.name, tool.argumentsSchema, tool.resultSchema)
    BY <2>2, <2>3, <2>4, <2>5, <2>6, <2>7
  <2> QED BY <2>7, <2>8, <2>9 DEF ToolHolds, call, met
<1> QED BY <1>1, <1>2

ResponseHolds(expect, response) ==
    /\ \A i \in DOMAIN expect.contains : expect.contains[i] \in response.answer
    /\ \A i \in DOMAIN expect.excludes : expect.excludes[i] \notin response.answer
    /\ \A i \in DOMAIN expect.sources : (response.sources # "none") = expect.sources[i]

LEMMA ExpectationLists ==
    ASSUME NEW expect, ValidExpectation(expect)
    PROVE  /\ IsSequence(expect.contains) /\ IsSequence(expect.excludes)
           /\ IsSequence(expect.sources) /\ IsSequence(expect.tools)
           /\ IsSequence(expect.order) /\ IsSequence(expect.state)
<1>1. \A part \in {"contains", "excludes", "sources", "tools", "order", "state"} :
        IsSequence(expect[part])
  BY DEF ValidExpectation
<1>2. IsSequence(expect["contains"]) /\ IsSequence(expect["excludes"])
      /\ IsSequence(expect["sources"]) /\ IsSequence(expect["tools"])
      /\ IsSequence(expect["order"]) /\ IsSequence(expect["state"])
  BY <1>1
<1> QED BY <1>2

LEMMA ResponseMet ==
    ASSUME NEW expect, ValidExpectation(expect), NEW response, NEW error
    PROVE  LET list == ResponseResults(expect, response, error) IN
           /\ ResultList(list)
           /\ Declared(response) => (AllPassed(list) <=> ResponseHolds(expect, Content(response)))
<1> DEFINE list == ResponseResults(expect, response, error)
           judged == Declared(response)
           Answer == Content(response).answer
           Check(type, phrase, holds) == Result(type, 0, phrase, judged /\ holds)
           contains == [i \in DOMAIN expect.contains |->
                           Check("response_contains", expect.contains[i],
                                 judged => expect.contains[i] \in Answer)]
           excludes == [i \in DOMAIN expect.excludes |->
                           Check("response_not_contains", expect.excludes[i],
                                 judged => expect.excludes[i] \notin Answer)]
           sources  == [i \in DOMAIN expect.sources |->
                           Check("sources_present", "",
                                 judged => SourcesPresent(Content(response)) = expect.sources[i])]
<1>1. list = IF judged \/ error # "" THEN (contains \o excludes) \o sources ELSE <<>>
  BY DEF ResponseResults
<1>2. /\ IsSequence(expect.contains) /\ IsSequence(expect.excludes) /\ IsSequence(expect.sources)
  BY ExpectationLists
<1>2a. /\ DOMAIN expect.contains = 1..Len(expect.contains) /\ Len(expect.contains) \in Nat
       /\ DOMAIN expect.excludes = 1..Len(expect.excludes) /\ Len(expect.excludes) \in Nat
       /\ DOMAIN expect.sources = 1..Len(expect.sources) /\ Len(expect.sources) \in Nat
  BY <1>2, SequenceOfItems
<1>3. ResultList(contains) /\ ResultList(excludes) /\ ResultList(sources)
  <2>1. /\ IsSequence(contains) /\ Len(contains) = Len(expect.contains)
        /\ IsSequence(excludes) /\ Len(excludes) = Len(expect.excludes)
        /\ IsSequence(sources) /\ Len(sources) = Len(expect.sources)
    BY <1>2a, Tabled
  <2> QED BY <1>2a, <2>1 DEF ResultList, Result
<1>4. judged => (AllPassed(contains) <=>
                   \A i \in DOMAIN expect.contains : expect.contains[i] \in Answer)
  BY DEF AllPassed, Result
<1>5. judged => (AllPassed(excludes) <=>
                   \A i \in DOMAIN expect.excludes : expect.excludes[i] \notin Answer)
  BY DEF AllPassed, Result
<1>6. judged => (AllPassed(sources) <=>
                   \A i \in DOMAIN expect.sources :
                      (Content(response).sources # "none") = expect.sources[i])
  BY DEF AllPassed, Result, SourcesPresent
<1> HIDE DEF contains, excludes, sources
<1>7. /\ ResultList(contains \o excludes)
      /\ AllPassed(contains \o excludes) <=> AllPassed(contains) /\ AllPassed(excludes)
  BY <1>3, JoinedResults
<1>8. /\ ResultList((contains \o excludes) \o sources)
      /\ AllPassed((contains \o excludes) \o sources)
            <=> AllPassed(contains \o excludes) /\ AllPassed(sources)
  BY <1>3, <1>7, JoinedResults
<1>9. ResultList(list)
  BY <1>1, <1>8, NoResults
<1>10. ASSUME judged
       PROVE  AllPassed(list) <=> ResponseHolds(expect, Content(response))
  <2>1. AllPassed(list) <=> AllPassed(contains) /\ AllPassed(excludes) /\ AllPassed(sources)
    BY <1>1, <1>7, <1>8, <1>10
  <2> QED BY <1>4, <1>5, <1>6, <1>10, <2>1 DEF ResponseHolds
<1> QED BY <1>9, <1>10

LEMMA ToolsMet ==
    ASSUME NEW expect, ValidExpectation(expect), NEW calls, IsSequence(calls)
    PROVE  LET list == FlattenSeq([i \in DOMAIN expect.tools |->
                                      ToolResults(expect.tools[i], calls, i)]) IN
           /\ ResultList(list)
           /\ AllPassed(list) <=> \A i \in DOMAIN expect.tools : ToolHolds(expect.tools[i], calls, i)
<1> DEFINE lists == [i \in DOMAIN expect.tools |-> ToolResults(expect.tools[i], calls, i)]
<1>1. IsSequence(expect.tools)
  BY ExpectationLists
<1>2. DOMAIN expect.tools = 1..Len(expect.tools) /\ Len(expect.tools) \in Nat
  BY <1>1, SequenceOfItems
<1>3. IsSequence(lists) /\ Len(lists) = Len(expect.tools)
  BY <1>2, Tabled
<1>4. ASSUME NEW i \in 1..Len(lists)
      PROVE  /\ ResultList(lists[i])
             /\ AllPassed(lists[i]) <=> ToolHolds(expect.tools[i], calls, i)
  <2>1. i \in Nat \ {0} /\ lists[i] = ToolResults(expect.tools[i], calls, i)
    BY <1>2, <1>3
  <2> HIDE DEF lists
  <2> QED BY <2>1, ToolMet
<1> HIDE DEF lists
<1>5. /\ ResultList(FlattenSeq(lists))
      /\ AllPassed(FlattenSeq(lists)) <=> \A i \in 1..Len(lists) : AllPassed(lists[i])
  BY <1>3, <1>4, FlattenedPassed
<1>6. /\ ResultList(FlattenSeq(lists))
      /\ AllPassed(FlattenSeq(lists)) <=> \A i \in DOMAIN expect.tools : ToolHolds(expect.tools[i], calls, i)
  BY <1>2, <1>3, <1>4, <1>5
<1> QED BY <1>6 DEF lists

StateMet(expect, response) ==
    \A i \in DOMAIN expect.state :
        StateHolds(expect.state[i].operator, Lookup(AsJson(response), expect.state[i].path),
                   expect.state[i].value)

LEMMA StatesMet ==
    ASSUME NEW expect, ValidExpectation(expect), NEW response, NEW error
    PROVE  LET list == StateResults(expect, response, error) IN
           /\ ResultList(list)
           /\ Declared(response) => (AllPassed(list) <=> StateMet(expect, Content(response)))
<1> DEFINE list == StateResults(expect, response, error)
<1>1. IsSequence(expect.state)
  BY ExpectationLists
<1>2. DOMAIN expect.state = 1..Len(expect.state) /\ Len(expect.state) \in Nat
  BY <1>1, SequenceOfItems
<1>3. CASE Declared(response)
  <2> DEFINE listed == [i \in DOMAIN expect.state |->
                  BusinessStateResult(AsJson(Content(response)), expect.state[i], i)]
  <2>1. list = listed
    BY <1>3 DEF StateResults
  <2>2. ResultList(listed)
    <3>1. IsSequence(listed) /\ Len(listed) = Len(expect.state)
      BY <1>2, Tabled
    <3> QED BY <1>2, <3>1 DEF ResultList, BusinessStateResult, Result
  <2>3. AllPassed(listed) <=> StateMet(expect, Content(response))
    BY DEF AllPassed, BusinessStateResult, Result, StateMet
  <2> HIDE DEF listed
  <2> QED BY <2>1, <2>2, <2>3
<1>4. CASE ~Declared(response)
  <2> DEFINE listed == [i \in DOMAIN expect.state |-> Result("business_state", i, "", FALSE)]
  <2>1. list = listed \/ list = <<>>
    BY <1>4 DEF StateResults
  <2>2. ResultList(listed)
    <3>1. IsSequence(listed) /\ Len(listed) = Len(expect.state)
      BY <1>2, Tabled
    <3> QED BY <1>2, <3>1 DEF ResultList, Result
  <2> HIDE DEF listed
  <2> QED BY <1>4, <2>1, <2>2, NoResults
<1> QED BY <1>3, <1>4

OrderHolds(expect, calls) ==
    expect.order # <<>> =>
        LET names == [i \in DOMAIN calls |-> calls[i].name] IN
        IF expect.strict THEN names = expect.order
        ELSE \E at \in [DOMAIN expect.order -> DOMAIN names] :
                 /\ \A i \in DOMAIN at : names[at[i]] = expect.order[i]
                 /\ \A i, j \in DOMAIN at : i < j => at[i] < at[j]

LEMMA OrderMet ==
    ASSUME NEW expect, ValidExpectation(expect), NEW calls, IsSequence(calls)
    PROVE  LET list == IF expect.order # <<>>
                       THEN <<ToolOrderResult(calls, expect.order, expect.strict)>> ELSE <<>> IN
           /\ ResultList(list)
           /\ AllPassed(list) <=> OrderHolds(expect, calls)
<1> DEFINE result == ToolOrderResult(calls, expect.order, expect.strict)
           names == [i \in DOMAIN calls |-> calls[i].name]
<1>1. IsSequence(expect.order)
  BY ExpectationLists
<1>2. IsSequence(names)
  BY SequenceOfItems, Tabled
<1>3. result.passed <=> IF expect.strict THEN names = expect.order ELSE FoundInOrder(names, expect.order)
  BY DEF ToolOrderResult, Result
<1>4. ResultList(<<result>>) /\ (AllPassed(<<result>>) <=> result.passed)
  <2>1. "passed" \in DOMAIN result
    BY DEF ToolOrderResult, Result
  <2> HIDE DEF result
  <2> QED BY <2>1, OnePassed
<1>5. ASSUME expect.order # <<>> PROVE result.passed <=> OrderHolds(expect, calls)
  <2>1. CASE expect.strict
    BY <1>3, <1>5, <2>1 DEF OrderHolds
  <2>2. CASE ~expect.strict
    <3>1. result.passed <=> FoundInOrder(names, expect.order)
      BY <1>3, <2>2
    <3> HIDE DEF names, result
    <3>2. FoundInOrder(names, expect.order) <=>
          \E at \in [DOMAIN expect.order -> DOMAIN names] :
              /\ \A i \in DOMAIN at : names[at[i]] = expect.order[i]
              /\ \A i, j \in DOMAIN at : i < j => at[i] < at[j]
      BY <1>1, <1>2, OrderFound, OrderFindable
    <3> QED BY <1>5, <2>2, <3>1, <3>2 DEF OrderHolds, names
  <2> QED BY <2>1, <2>2
<1> HIDE DEF result
<1>6. CASE expect.order # <<>>
  BY <1>4, <1>5, <1>6 DEF result
<1>7. CASE expect.order = <<>>
  BY <1>7, NoResults DEF OrderHolds
<1> QED BY <1>6, <1>7

\* What the checks of an expectation conclude of a response that was given.
LEMMA PassedSatisfies ==
    ASSUME NEW expect, ValidExpectation(expect), NEW response, NEW error,
           NEW calls, IsSequence(calls)
    PROVE  /\ ResultList(CheckExpectation(expect, response, calls, error))
           /\ Declared(response) =>
                 (AllPassed(CheckExpectation(expect, response, calls, error))
                    <=> Satisfies(expect, Content(response), calls))
<1> DEFINE whole == CheckExpectation(expect, response, calls, error)
           one   == ResponseResults(expect, response, error)
           two   == FlattenSeq([i \in DOMAIN expect.tools |-> ToolResults(expect.tools[i], calls, i)])
           three == IF expect.order # <<>>
                    THEN <<ToolOrderResult(calls, expect.order, expect.strict)>> ELSE <<>>
           four  == StateResults(expect, response, error)
<1>1. whole = ((one \o two) \o three) \o four
  BY DEF CheckExpectation
<1>2. /\ ResultList(one)
      /\ Declared(response) => (AllPassed(one) <=> ResponseHolds(expect, Content(response)))
  BY ResponseMet
<1>3. /\ ResultList(two)
      /\ AllPassed(two) <=> \A i \in DOMAIN expect.tools : ToolHolds(expect.tools[i], calls, i)
  BY ToolsMet
<1>4. ResultList(three) /\ (AllPassed(three) <=> OrderHolds(expect, calls))
  BY OrderMet
<1>5. /\ ResultList(four)
      /\ Declared(response) => (AllPassed(four) <=> StateMet(expect, Content(response)))
  BY StatesMet
<1> HIDE DEF one, two, three, four
<1>6. ResultList(one \o two) /\ (AllPassed(one \o two) <=> AllPassed(one) /\ AllPassed(two))
  BY <1>2, <1>3, JoinedResults
<1>7. /\ ResultList((one \o two) \o three)
      /\ AllPassed((one \o two) \o three) <=> AllPassed(one \o two) /\ AllPassed(three)
  BY <1>4, <1>6, JoinedResults
<1>8. /\ ResultList(whole)
      /\ AllPassed(whole) <=> AllPassed((one \o two) \o three) /\ AllPassed(four)
  BY <1>1, <1>5, <1>7, JoinedResults
<1>9. ASSUME Declared(response)
      PROVE  AllPassed(whole) <=> Satisfies(expect, Content(response), calls)
  <2>1. AllPassed(whole) <=>
        /\ ResponseHolds(expect, Content(response)) /\ StateMet(expect, Content(response))
        /\ OrderHolds(expect, calls)
        /\ \A i \in DOMAIN expect.tools : ToolHolds(expect.tools[i], calls, i)
    BY <1>2, <1>3, <1>4, <1>5, <1>6, <1>7, <1>8, <1>9
  <2>2. Satisfies(expect, Content(response), calls) <=>
        /\ ResponseHolds(expect, Content(response)) /\ StateMet(expect, Content(response))
        /\ OrderHolds(expect, calls)
        /\ \A i \in DOMAIN expect.tools : ToolHolds(expect.tools[i], calls, i)
    BY DEF Satisfies, ResponseHolds, StateMet, OrderHolds, ToolHolds, ContractHolds
  <2> QED BY <2>1, <2>2
<1> QED BY <1>8, <1>9

------------------------------------------------------------------------------
(* The strict reader.                                                         *)

\* What the reader checks of the types of a row before anything else.
ReadableRow(row) ==
    /\ IsSequence(row.steps)
    /\ \A i \in DOMAIN row.steps :
           Declared(row.steps[i].response) => ValidResponse(Content(row.steps[i].response))

LEMMA CallsListed ==
    ASSUME NEW turns, IsSequence(turns),
           \A i \in DOMAIN turns : Declared(turns[i].response) => ValidResponse(Content(turns[i].response))
    PROVE  IsSequence(CallsOf(turns))
<1> DEFINE lists == [i \in DOMAIN turns |->
                        IF Declared(turns[i].response) THEN Content(turns[i].response).calls ELSE <<>>]
<1>1. DOMAIN turns = 1..Len(turns) /\ Len(turns) \in Nat
  BY SequenceOfItems
<1>2. IsSequence(lists) /\ Len(lists) = Len(turns)
  BY <1>1, Tabled
<1>3. \A i \in 1..Len(lists) : IsSequence(lists[i])
  BY <1>1, <1>2, NoItems DEF ValidResponse
<1> HIDE DEF lists
<1>4. IsSequence(FlattenSeq(lists))
  BY <1>2, <1>3, FlattenedItems
<1> QED BY <1>4 DEF CallsOf, lists

\* Whatever a report claims: a row that the strict reader accepts as passed is
\* one whose dialogue was answered to its end, each turn as the scenario
\* expects of it and the whole as it expects of the whole, with every metric
\* scored on the right side of its threshold and the execution settled.
LEMMA AcceptedPassIsEarned ==
    ASSUME NEW row, NEW plan, NEW policy, ValidScenario(plan), ReadableRow(row),
           RowAgrees(row, plan, policy), row.passed
    PROVE  Earned(row, plan)
<1> DEFINE n == Len(row.steps)
           Answer(i) == Content(row.steps[i].response)
<1>1. /\ RowComplete(row, plan) /\ AllPassed(ReportedFinal(row)) /\ ChecksPassed(row.checks)
      /\ \A i \in DOMAIN row.steps : row.steps[i].status = "passed"
  BY DEF RowAgrees, RowPassed
<1>2. /\ n = Len(plan.conversation)
      /\ ChecksComplete(row.checks) /\ ExecutionSettled(row.execution)
      /\ StepsDone(row.steps, Len(plan.conversation))
  BY <1>1 DEF RowComplete, StepsDone
<1>3. DOMAIN row.steps = 1..n /\ n \in Nat /\ IsSequence(row.steps)
  BY SequenceOfItems DEF ReadableRow
<1>4. n \in 1..n
  BY <1>2, <1>3 DEF RowAgrees
<1>5. ASSUME NEW i \in 1..n
      PROVE  LET turn == plan.conversation[i] IN
             /\ Declared(row.steps[i].response) /\ IsSequence(Answer(i).calls)
             /\ Declared(turn.expect) => Satisfies(Content(turn.expect), Answer(i), Answer(i).calls)
  <2> DEFINE turn == plan.conversation[i]
             step == row.steps[i]
  <2>1. StepAgrees(step, turn, i, row.steps) /\ step.status = "passed"
    BY <1>1, <1>3 DEF RowAgrees
  <2>2. /\ Declared(step.response) /\ step.assertions = StepResults(turn, Content(step.response))
        /\ AllPassed(step.assertions)
    BY <2>1 DEF StepAgrees
  <2>3. IsSequence(Answer(i).calls)
    BY <1>3, <2>2 DEF ReadableRow, ValidResponse
  <2>4. ASSUME Declared(turn.expect)
        PROVE  Satisfies(Content(turn.expect), Answer(i), Answer(i).calls)
    <3>1. ValidExpectation(Content(turn.expect))
      <4>1. i \in DOMAIN plan.conversation
        BY <1>2, SequenceOfItems DEF ValidScenario
      <4> QED BY <2>4, <4>1 DEF ValidScenario
    <3>2. AllPassed(CheckExpectation(Content(turn.expect), <<Answer(i)>>, Answer(i).calls, ""))
      BY <2>2, <2>4 DEF StepResults
    <3>3. Declared(<<Answer(i)>>) /\ Content(<<Answer(i)>>) = Answer(i)
      BY DEF Declared, Content
    <3> QED BY <2>3, <3>1, <3>2, <3>3, PassedSatisfies
  <2> QED BY <2>2, <2>3, <2>4
<1>6. Satisfies(plan.expect, Answer(n), CallsOf(row.steps))
  <2>1. Last(row.steps) = row.steps[n] /\ row.steps[n].status # "error"
    BY <1>1, <1>3, <1>4 DEF Last
  <2>2. ~AdapterFailed(row.steps)
    BY <1>1, <1>3, <1>4 DEF AdapterFailed
  <2>3. AllPassed(CheckExpectation(plan.expect, row.steps[n].response, CallsOf(row.steps),
                                   row.steps[n].error))
    BY <1>1, <2>1, <2>2 DEF RowAgrees, FinalResults
  <2>4. ValidExpectation(plan.expect) /\ IsSequence(CallsOf(row.steps))
    BY <1>3, CallsListed DEF ValidScenario, ReadableRow
  <2> QED BY <1>4, <1>5, <2>3, <2>4, PassedSatisfies
<1>7. ASSUME NEW m \in DOMAIN plan.metrics
      PROVE  /\ row.checks[m].score # <<>>
             /\ Meets(m, Content(row.checks[m].score), plan.metrics[m])
             /\ m \in Grounded => HasContext(Answer(n))
  <2>1. m \in DOMAIN row.checks /\ row.checks[m].metric = m
        /\ ScoreAgrees(row.checks[m], plan.metrics[m])
    BY DEF RowAgrees, ChecksAccepted
  <2>2. row.checks[m].status = "passed" /\ row.checks[m].status \in Concluded
    BY <1>1, <1>2, <2>1 DEF ChecksPassed, ChecksComplete
  <2>3. /\ row.checks[m].score # <<>>
        /\ Meets(m, Content(row.checks[m].score), plan.metrics[m])
    BY <2>1, <2>2 DEF ScoreAgrees, Content
  <2>4. ASSUME m \in Grounded PROVE HasContext(Answer(n))
    <3>1. Last(row.steps) = row.steps[n]
      BY DEF Last
    <3>2. HasContext(Content(Last(row.steps).response)) \/
          \A k \in DOMAIN row.checks \cap Grounded : row.checks[k].status \notin Concluded
      BY <1>2 DEF RowAgrees, JudgedAccepted
    <3> QED BY <2>1, <2>2, <2>4, <3>1, <3>2
  <2> QED BY <2>3, <2>4
<1>8. row.execution # <<>> => /\ Content(row.execution).status = "completed"
                              /\ ~Content(row.execution).unknown
                              /\ Content(row.execution).cleanup \in {"closed", "borrowed"}
  BY <1>2 DEF ExecutionSettled, ExecutionComplete
<1> QED BY <1>2, <1>3, <1>5, <1>6, <1>7, <1>8 DEF Earned

\* And what is earned the reader finds passed.
LEMMA EarnedPasses ==
    ASSUME NEW row, NEW plan, NEW policy, ValidScenario(plan), ReadableRow(row),
           RowAgrees(row, plan, policy), Earned(row, plan)
    PROVE  row.passed
<1> DEFINE n == Len(row.steps)
           Answer(i) == Content(row.steps[i].response)
<1>1. /\ n = Len(plan.conversation)
      /\ \A i \in DOMAIN row.steps : Declared(row.steps[i].response)
  BY DEF Earned
<1>2. DOMAIN row.steps = 1..n /\ n \in Nat /\ IsSequence(row.steps)
  BY SequenceOfItems DEF ReadableRow
<1>3. n \in 1..n
  BY <1>1, <1>2 DEF RowAgrees
<1>4. ASSUME NEW i \in 1..n
      PROVE  row.steps[i].status = "passed" /\ IsSequence(Answer(i).calls)
  <2> DEFINE turn == plan.conversation[i]
             step == row.steps[i]
  <2>1. StepAgrees(step, turn, i, row.steps) /\ Declared(step.response)
    BY <1>1, <1>2 DEF RowAgrees
  <2>2. /\ step.status \in StepStatus /\ step.status # "error"
        /\ step.assertions = StepResults(turn, Content(step.response))
        /\ (step.status = "passed") = AllPassed(step.assertions)
    BY <2>1 DEF StepAgrees, Declared
  <2>3. IsSequence(Answer(i).calls)
    BY <1>2, <2>1 DEF ReadableRow, ValidResponse
  <2>4. AllPassed(StepResults(turn, Answer(i)))
    <3>1. CASE Declared(turn.expect)
      <4>1. i \in DOMAIN plan.conversation
        BY <1>1, SequenceOfItems DEF ValidScenario
      <4>2. ValidExpectation(Content(turn.expect))
        BY <3>1, <4>1 DEF ValidScenario
      <4>3. Satisfies(Content(turn.expect), Answer(i), Answer(i).calls)
        BY <1>2, <3>1 DEF Earned
      <4>4. Declared(<<Answer(i)>>) /\ Content(<<Answer(i)>>) = Answer(i)
        BY DEF Declared, Content
      <4>5. AllPassed(CheckExpectation(Content(turn.expect), <<Answer(i)>>, Answer(i).calls, ""))
        BY <2>3, <4>2, <4>3, <4>4, PassedSatisfies
      <4> QED BY <3>1, <4>5 DEF StepResults
    <3>2. CASE ~Declared(turn.expect)
      BY <3>2, NoResults DEF StepResults
    <3> QED BY <3>1, <3>2
  <2> QED BY <2>2, <2>3, <2>4
<1>5. AllPassed(ReportedFinal(row))
  <2>1. Last(row.steps) = row.steps[n] /\ row.steps[n].status # "error"
    BY <1>3, <1>4 DEF Last
  <2>2. ~AdapterFailed(row.steps)
    BY <1>2, <1>3, <1>4 DEF AdapterFailed
  <2>3. Satisfies(plan.expect, Answer(n), CallsOf(row.steps))
    BY DEF Earned
  <2>4. ValidExpectation(plan.expect) /\ IsSequence(CallsOf(row.steps))
    BY <1>2, CallsListed DEF ValidScenario, ReadableRow
  <2>5. AllPassed(CheckExpectation(plan.expect, row.steps[n].response, CallsOf(row.steps),
                                   row.steps[n].error))
    BY <1>1, <1>2, <1>3, <2>3, <2>4, PassedSatisfies
  <2> QED BY <2>1, <2>2, <2>5 DEF RowAgrees, FinalResults
<1>6. ASSUME NEW m \in DOMAIN row.checks
      PROVE  row.checks[m].status = "passed"
  <2>1. m \in DOMAIN plan.metrics /\ row.checks[m].metric = m
        /\ ScoreAgrees(row.checks[m], plan.metrics[m])
    BY DEF RowAgrees, ChecksAccepted
  <2>2. /\ row.checks[m].score # <<>>
        /\ Meets(m, Content(row.checks[m].score), plan.metrics[m])
    BY <2>1 DEF Earned
  <2> QED BY <2>1, <2>2 DEF ScoreAgrees, Content
<1>7. ChecksPassed(row.checks) /\ ChecksComplete(row.checks)
  BY <1>6 DEF ChecksPassed, ChecksComplete, Concluded
<1>8. ExecutionSettled(row.execution)
  BY DEF Earned, ExecutionSettled, ExecutionComplete
<1>9. StepsDone(row.steps, Len(plan.conversation))
  BY <1>1, <1>2, <1>4 DEF StepsDone
<1>10. RowPassed(row, plan)
  BY <1>2, <1>4, <1>5, <1>7, <1>8, <1>9 DEF RowPassed, RowComplete
<1> QED BY <1>10 DEF RowAgrees

LEMMA AgreedIsEarned ==
    ASSUME NEW row, NEW plan, NEW policy, ValidScenario(plan), ReadableRow(row),
           RowAgrees(row, plan, policy)
    PROVE  row.passed <=> Earned(row, plan)
BY AcceptedPassIsEarned, EarnedPasses

\* What a report means: of the rows the strict reader accepts, whoever wrote
\* them, those are passed, and only those, in which the dialogue was answered to
\* its end, each turn and the whole as the scenario expects, every metric is on
\* the right side of its threshold and the execution is settled.
THEOREM AcceptedIsEarned ==
    ASSUME NEW row, NEW plan, NEW policy, ValidScenario(plan), ReadableRow(row),
           RowAccepted(row, plan, policy)
    PROVE  row.passed <=> Earned(row, plan)
BY AgreedIsEarned DEF RowAccepted

RowFields  == {"id", "steps", "final", "checks", "execution", "complete", "passed"}
StepFields == {"index", "user", "response", "assertions", "error", "status"}

\* A step and a row as the runners write them.
WrittenStep(step) == step = [field \in StepFields |-> step[field]]
RowShaped(row)    == row = [field \in RowFields |-> row[field]]

WrittenRow(row) ==
    /\ RowShaped(row)
    /\ ReadableRow(row)
    /\ \A i \in DOMAIN row.steps : WrittenStep(row.steps[i])

\* Steps may be exchanged one at a time for readable ones.
LEMMA ExchangedStep ==
    ASSUME NEW list, IsSequence(list), NEW i \in DOMAIN list, NEW step,
           \A j \in DOMAIN list : Declared(list[j].response) => ValidResponse(Content(list[j].response)),
           Declared(step.response) => ValidResponse(Content(step.response)),
           NEW other, other = [list EXCEPT ![i] = step]
    PROVE  /\ IsSequence(other)
           /\ \A j \in DOMAIN other : Declared(other[j].response) => ValidResponse(Content(other[j].response))
<1>1. DOMAIN list = 1..Len(list) /\ Len(list) \in Nat
  BY SequenceOfItems
<1>2. other = [j \in 1..Len(list) |-> IF j = i THEN step ELSE list[j]]
  BY <1>1
<1>3. other = [j \in 1..Len(list) |-> other[j]]
  BY <1>2
<1>4. IsSequence(other) /\ DOMAIN other = 1..Len(list)
  BY <1>1, <1>3, Tabled
<1>5. \A j \in 1..Len(list) : other[j] = IF j = i THEN step ELSE list[j]
  BY <1>2
<1> QED BY <1>1, <1>4, <1>5

LEMMA AlteredReadable ==
    ASSUME NEW row, WrittenRow(row), NEW other \in Altered(row)
    PROVE  /\ ReadableRow(other)
           /\ DOMAIN other = RowFields
<1> DEFINE Readable(list) ==
        /\ IsSequence(list)
        /\ \A j \in DOMAIN list : Declared(list[j].response) => ValidResponse(Content(list[j].response))
<1>0. /\ Readable(row.steps) /\ DOMAIN row = RowFields
      /\ \A i \in DOMAIN row.steps : DOMAIN row.steps[i] = StepFields
  BY DEF WrittenRow, RowShaped, WrittenStep, ReadableRow
<1>1. ASSUME NEW list \in AlteredSteps(row.steps) PROVE Readable(list)
  <2>1. PICK i \in DOMAIN row.steps :
          \/ \E verdict \in StepStatus : list = [row.steps EXCEPT ![i].status = verdict]
          \/ \E r \in Responses : list = [row.steps EXCEPT ![i].response = <<r>>]
          \/ list = [row.steps EXCEPT ![i].assertions = <<>>]
          \/ list = [row.steps EXCEPT ![i].assertions =
                        [j \in DOMAIN @ |-> [@[j] EXCEPT !.passed = TRUE]]]
    BY DEF AlteredSteps
  <2> DEFINE step == row.steps[i]
             allPassed == [j \in DOMAIN step.assertions |-> [step.assertions[j] EXCEPT !.passed = TRUE]]
  <2>2. PICK new : /\ list = [row.steps EXCEPT ![i] = new]
                   /\ \/ \E verdict \in StepStatus : new = [step EXCEPT !.status = verdict]
                      \/ \E r \in Responses : new = [step EXCEPT !.response = <<r>>]
                      \/ new = [step EXCEPT !.assertions = <<>>]
                      \/ new = [step EXCEPT !.assertions = allPassed]
    BY <2>1
  <2>3. Declared(new.response) => ValidResponse(Content(new.response))
    <3> HIDE DEF allPassed
    <3>1. CASE \E r \in Responses : new = [step EXCEPT !.response = <<r>>]
      <4>1. PICK r \in Responses : new = [step EXCEPT !.response = <<r>>]
        BY <3>1
      <4>2. "response" \in DOMAIN step
        BY <1>0 DEF StepFields
      <4>3. new.response = <<r>> /\ ValidResponse(r)
        BY <4>1, <4>2, ScenarioAssumption
      <4> QED BY <4>3 DEF Content
    <3>2. CASE \/ \E verdict \in StepStatus : new = [step EXCEPT !.status = verdict]
               \/ new = [step EXCEPT !.assertions = <<>>]
               \/ new = [step EXCEPT !.assertions = allPassed]
      <4>1. new.response = step.response
        <5>1. "response" \in DOMAIN step
          BY <1>0 DEF StepFields
        <5> HIDE DEF step
        <5> QED BY <3>2, <5>1
      <4> QED BY <1>0, <4>1
    <3> QED BY <2>2, <3>1, <3>2
  <2> QED BY <1>0, <2>2, <2>3, ExchangedStep
<1>2. \/ other = row
      \/ \E s \in AlteredSteps(row.steps) : other = [row EXCEPT !.steps = s]
      \/ \E k \in AlteredChecks(row.checks) : other = [row EXCEPT !.checks = k]
      \/ \E e \in AlteredExecution(row.execution) : other = [row EXCEPT !.execution = e]
      \/ \E f : other = [row EXCEPT !.final = f]
  <2> HIDE DEF Readable
  <2>1. \/ other = row
        \/ \E s \in AlteredSteps(row.steps) : other = [row EXCEPT !.steps = s]
        \/ \E k \in AlteredChecks(row.checks) : other = [row EXCEPT !.checks = k]
        \/ \E e \in AlteredExecution(row.execution) : other = [row EXCEPT !.execution = e]
        \/ other = [row EXCEPT !.final = [j \in DOMAIN @ |-> [@[j] EXCEPT !.passed = TRUE]]]
        \/ row.final # <<>> /\ other = [row EXCEPT !.final = Tail(@)]
    BY DEF Altered
  <2>2. ASSUME other = [row EXCEPT !.final = [j \in DOMAIN @ |-> [@[j] EXCEPT !.passed = TRUE]]]
        PROVE  \E f : other = [row EXCEPT !.final = f]
    <3> DEFINE f == [j \in DOMAIN row.final |-> [row.final[j] EXCEPT !.passed = TRUE]]
    <3>1. other = [row EXCEPT !.final = f]
      BY <2>2
    <3> HIDE DEF f
    <3> QED BY <3>1
  <2>3. ASSUME other = [row EXCEPT !.final = Tail(@)]
        PROVE  \E f : other = [row EXCEPT !.final = f]
    BY <2>3
  <2> QED BY <2>1, <2>2, <2>3
<1>3. DOMAIN other = RowFields
  BY <1>0, <1>2 DEF RowFields
<1>4. other.steps = row.steps \/ \E s \in AlteredSteps(row.steps) : other.steps = s
  BY <1>0, <1>2 DEF RowFields
<1>5. Readable(other.steps)
  BY <1>0, <1>1, <1>4
<1> QED BY <1>3, <1>5 DEF ReadableRow

\* No change of a single piece of evidence gets a pass accepted that is not earned.
LEMMA ClaimsAreEarned ==
    ASSUME NEW row, WrittenRow(row), NEW plan, ValidScenario(plan), NEW policy
    PROVE  ClaimsEarned(row, plan, policy)
<1> SUFFICES ASSUME NEW other \in Altered(row)
             PROVE  LET claim == [other EXCEPT !.complete = TRUE, !.passed = TRUE]
                    IN  RowAccepted(claim, plan, policy) => Earned(claim, plan)
  BY DEF ClaimsEarned
<1> DEFINE claim == [other EXCEPT !.complete = TRUE, !.passed = TRUE]
<1>1. ReadableRow(other) /\ DOMAIN other = RowFields
  BY AlteredReadable
<1>2. claim.steps = other.steps /\ claim.passed
  BY <1>1 DEF RowFields
<1>3. ReadableRow(claim)
  BY <1>1, <1>2 DEF ReadableRow
<1> HIDE DEF claim
<1>4. RowAccepted(claim, plan, policy) => Earned(claim, plan)
  BY <1>2, <1>3, AcceptedIsEarned
<1> QED BY <1>4 DEF claim

------------------------------------------------------------------------------
(* The quality checks of a result are ones the reader accepts.                *)

LEMMA PendingAccepted ==
    ASSUME NEW metrics, NEW verdict \in CheckStatus \ Concluded, NEW reason
    PROVE  LET checks == Pending(metrics, verdict, reason) IN
           /\ ChecksAccepted(checks, metrics)
           /\ \A m \in DOMAIN checks : checks[m].status = verdict
<1> DEFINE checks == Pending(metrics, verdict, reason)
<1>1. DOMAIN checks = DOMAIN metrics
  BY DEF Pending
<1>3. ASSUME NEW m \in DOMAIN metrics
      PROVE  /\ checks[m].metric = m /\ checks[m].required /\ checks[m].expectation = metrics[m]
             /\ checks[m].threshold = <<metrics[m]>> /\ checks[m].status = verdict
             /\ checks[m].score = <<>>
  BY DEF Pending
<1> HIDE DEF checks
<1>4. ASSUME NEW m \in DOMAIN metrics
      PROVE  ScoreAgrees(checks[m], metrics[m])
  BY <1>3 DEF ScoreAgrees
<1>5. ChecksAccepted(checks, metrics)
  BY <1>1, <1>3, <1>4 DEF ChecksAccepted
<1> QED BY <1>1, <1>3, <1>5 DEF checks

LEMMA BoundAccepted ==
    ASSUME NEW metrics, NEW values, CallbackAccepted(metrics, values),
           \A i \in DOMAIN values : DOMAIN values[i] = CheckFields
    PROVE  ChecksAccepted(BoundResults(metrics, values), metrics)
<1> DEFINE checks == BoundResults(metrics, values)
<1>1. DOMAIN checks = DOMAIN metrics
  BY DEF BoundResults
<1>2. ASSUME NEW m \in DOMAIN metrics
      PROVE  /\ checks[m].metric = m
             /\ checks[m].required
             /\ checks[m].expectation = metrics[m]
             /\ checks[m].threshold = <<metrics[m]>>
             /\ checks[m].status \in CheckStatus
             /\ ScoreAgrees(checks[m], metrics[m])
  <2> DEFINE given == {values[i] : i \in DOMAIN values}
             check == CHOOSE c \in given : c.metric = m
  <2>1. \E c \in given : c.metric = m
    <3>1. m \in {values[i].metric : i \in DOMAIN values}
      BY DEF CallbackAccepted
    <3> QED BY <3>1
  <2>2. check \in given /\ check.metric = m
    BY <2>1
  <2>3. checks[m] = [check EXCEPT !.threshold = <<metrics[m]>>,
                                  !.reason = IF @ = "" THEN "evaluator" ELSE @]
    BY DEF BoundResults
  <2> HIDE DEF checks, check
  <2>4. PICK i \in DOMAIN values : check = values[i]
    BY <2>2
  <2>5. /\ check.required
        /\ check.expectation = metrics[m]
        /\ check.status \in CheckStatus
        /\ ScoreAgrees(check, metrics[m])
    BY <2>2, <2>4 DEF CallbackAccepted
  <2>6. DOMAIN check = CheckFields
    BY <2>4
  <2>7. PICK reason : checks[m] = [check EXCEPT !.threshold = <<metrics[m]>>, !.reason = reason]
    BY <2>3
  <2>8. /\ checks[m].metric = check.metric /\ checks[m].required = check.required
        /\ checks[m].expectation = check.expectation /\ checks[m].status = check.status
        /\ checks[m].score = check.score /\ checks[m].threshold = <<metrics[m]>>
    BY <2>6, <2>7 DEF CheckFields
  <2>9. ScoreAgrees(checks[m], metrics[m])
    BY <2>5, <2>8 DEF ScoreAgrees
  <2> QED BY <2>2, <2>5, <2>8, <2>9
<1> QED BY <1>1, <1>2 DEF ChecksAccepted

\* Checks of some of the metrics, the others inconclusive.
LEMMA CallbackQualityAccepted ==
    ASSUME NEW metrics, DOMAIN metrics \subseteq Metrics, NEW hasContext, NEW answer \in Answers
    PROVE  LET checks == CallbackQuality(metrics, hasContext, answer) IN
           /\ ChecksAccepted(checks, metrics)
           /\ hasContext \/ \A m \in DOMAIN checks \cap Grounded : checks[m].status \notin Concluded
<1> DEFINE eligible  == IF hasContext THEN metrics ELSE Restriction(metrics, Metrics \ Grounded)
           evaluated == IF answer.raises THEN Pending(eligible, "error", "evaluator_error")
                        ELSE IF CallbackAccepted(eligible, answer.values)
                             THEN BoundResults(eligible, answer.values)
                             ELSE Pending(eligible, "error", "invalid_evaluator_result")
           others    == Pending(metrics, "inconclusive", "missing_grounding_context")
           checks    == CallbackQuality(metrics, hasContext, answer)
<1>1. checks = [m \in DOMAIN metrics |-> IF m \in DOMAIN eligible THEN evaluated[m] ELSE others[m]]
  BY DEF CallbackQuality
<1>2. /\ DOMAIN eligible \subseteq DOMAIN metrics
      /\ \A m \in DOMAIN eligible : eligible[m] = metrics[m]
      /\ hasContext \/ DOMAIN eligible \cap Grounded = {}
  BY DEF Restriction
<1>3. ChecksAccepted(evaluated, eligible)
  <2> HIDE DEF eligible
  <2>1. "error" \in CheckStatus \ Concluded
    BY DEF CheckStatus, Concluded
  <2>2. CASE answer.raises
    BY <2>1, <2>2, PendingAccepted
  <2>3. CASE ~answer.raises /\ CallbackAccepted(eligible, answer.values)
    BY <2>3, BoundAccepted, ScenarioAssumption
  <2>4. CASE ~answer.raises /\ ~CallbackAccepted(eligible, answer.values)
    BY <2>1, <2>4, PendingAccepted
  <2> QED BY <2>2, <2>3, <2>4
<1>4. /\ ChecksAccepted(others, metrics)
      /\ \A m \in DOMAIN others : others[m].status = "inconclusive"
  <2>1. "inconclusive" \in CheckStatus \ Concluded
    BY DEF CheckStatus, Concluded
  <2> QED BY <2>1, PendingAccepted
<1> HIDE DEF eligible, evaluated, others, checks
<1>5. DOMAIN checks = DOMAIN metrics
  BY <1>1
<1>6. ASSUME NEW m \in DOMAIN metrics
      PROVE  /\ checks[m].metric = m
             /\ checks[m].required
             /\ checks[m].expectation = metrics[m]
             /\ checks[m].threshold = <<metrics[m]>>
             /\ checks[m].status \in CheckStatus
             /\ ScoreAgrees(checks[m], metrics[m])
             /\ hasContext \/ m \notin Grounded \/ checks[m].status \notin Concluded
  <2>1. CASE m \in DOMAIN eligible
    <3>1. checks[m] = evaluated[m] /\ eligible[m] = metrics[m]
      BY <1>1, <1>2, <2>1
    <3>2. m \in DOMAIN evaluated
      BY <1>3, <2>1 DEF ChecksAccepted
    <3> QED BY <1>2, <1>3, <2>1, <3>1, <3>2 DEF ChecksAccepted
  <2>2. CASE m \notin DOMAIN eligible
    <3>1. checks[m] = others[m]
      BY <1>1, <2>2
    <3>2. m \in DOMAIN others
      BY <1>4 DEF ChecksAccepted
    <3>3. others[m].status \notin Concluded
      BY <1>4, <3>2 DEF Concluded
    <3> QED BY <1>4, <3>1, <3>2, <3>3 DEF ChecksAccepted
  <2> QED BY <2>1, <2>2
<1> QED BY <1>5, <1>6 DEF ChecksAccepted, checks

LEMMA FinalChecksAccepted ==
    ASSUME NEW metrics, ValidDeclaration(metrics), NEW response, NEW error, NEW answer \in Answers
    PROVE  LET checks == FinalChecks(metrics, response, error, answer) IN
           /\ ChecksAccepted(checks, metrics)
           /\ error # "" \/ ~Declared(response) =>
                 \A m \in DOMAIN checks : checks[m].status = "not_executed"
           /\ \/ HasContext(Content(response))
              \/ \A m \in DOMAIN checks \cap Grounded : checks[m].status \notin Concluded
<1> DEFINE checks == FinalChecks(metrics, response, error, answer)
           waiting(reason) == Pending(metrics, "not_executed", reason)
<1>1. ASSUME NEW reason, checks = waiting(reason)
      PROVE  /\ ChecksAccepted(checks, metrics)
             /\ \A m \in DOMAIN checks : checks[m].status = "not_executed"
             /\ \A m \in DOMAIN checks \cap Grounded : checks[m].status \notin Concluded
  <2>1. "not_executed" \in CheckStatus \ Concluded
    BY DEF CheckStatus, Concluded
  <2>2. /\ ChecksAccepted(waiting(reason), metrics)
        /\ \A m \in DOMAIN waiting(reason) : waiting(reason)[m].status = "not_executed"
    BY <2>1, PendingAccepted
  <2> HIDE DEF checks, waiting
  <2> QED BY <1>1, <2>1, <2>2
<1>2. CASE error # "" \/ ~Declared(response)
  <2>1. checks = waiting("execution_incomplete")
    BY <1>2 DEF FinalChecks
  <2> HIDE DEF waiting
  <2> QED BY <1>1, <2>1
<1>3. CASE error = "" /\ Declared(response) /\ (DOMAIN metrics = {} \/ ~HasEvaluator)
  <2>1. checks = waiting("evaluator_not_configured")
    BY <1>3 DEF FinalChecks
  <2> HIDE DEF waiting
  <2> QED BY <1>1, <1>3, <2>1
<1>4. CASE error = "" /\ Declared(response) /\ ~(DOMAIN metrics = {} \/ ~HasEvaluator)
  <2> DEFINE known == HasContext(Content(response))
  <2>1. checks = CallbackQuality(metrics, known, answer)
    BY <1>4 DEF FinalChecks
  <2>2. DOMAIN metrics \subseteq Metrics
    BY DEF ValidDeclaration
  <2> HIDE DEF known, checks
  <2>3. /\ ChecksAccepted(checks, metrics)
        /\ known \/ \A m \in DOMAIN checks \cap Grounded : checks[m].status \notin Concluded
    BY <2>1, <2>2, CallbackQualityAccepted
  <2> QED BY <1>4, <2>3 DEF known, checks
<1> QED BY <1>2, <1>3, <1>4

------------------------------------------------------------------------------
(* Rows that the strict reader takes for results, and what becomes of a       *)
(* report of them.                                                            *)

\* A row that is what the strict reader takes for a result of the scenario, if
\* it can rebuild the expectations it comes to.
HonestRow(row, plan, policy) ==
    /\ WrittenRow(row)
    /\ row.id = plan.id
    /\ RowAgrees(row, plan, policy)

LEMMA SameCount ==
    ASSUME NEW S, IsFiniteSet(S), NEW f, \A i, j \in S : f[i] = f[j] => i = j
    PROVE  LET T == {f[i] : i \in S} IN IsFiniteSet(T) /\ Cardinality(T) = Cardinality(S)
<1> DEFINE T == {f[i] : i \in S}
           g == [i \in S |-> f[i]]
<1>1. g \in [S -> T] /\ \A t \in T : \E i \in S : g[i] = t
  OBVIOUS
<1>2. \A i, j \in S : g[i] = g[j] => i = j
  OBVIOUS
<1> HIDE DEF g, T
<1>3. g \in Bijection(S, T)
  BY <1>1, <1>2 DEF Bijection, Injection, Surjection, IsInjective
<1>4. ExistsBijection(S, T)
  BY <1>3 DEF ExistsBijection
<1>5. IsFiniteSet(T) /\ Cardinality(T) = Cardinality(S)
  BY <1>4, FS_Bijection
<1> QED BY <1>5 DEF T

\* The conclusions of an honest row.
LEMMA HonestConclusions ==
    ASSUME NEW plan, ValidScenario(plan), NEW policy, NEW row, HonestRow(row, plan, policy)
    PROVE  /\ row.complete \in BOOLEAN /\ row.passed \in BOOLEAN
           /\ row.complete <=> RowComplete(row, plan)
           /\ row.passed <=> RowPassed(row, plan)
           /\ row.passed => row.complete
           /\ row.passed <=> Earned(row, plan)
           /\ IsSequence(row.steps) /\ row.steps # <<>> /\ DOMAIN row.steps = 1..Len(row.steps)
           /\ \A i \in DOMAIN row.steps :
                 StepAgrees(row.steps[i], plan.conversation[i], i, row.steps)
           /\ SummaryAccepted(row)
<1>1. /\ RowAgrees(row, plan, policy) /\ ReadableRow(row)
  BY DEF HonestRow, WrittenRow
<1>2. /\ row.complete = RowComplete(row, plan) /\ row.passed = RowPassed(row, plan)
      /\ \A i \in DOMAIN row.steps : StepAgrees(row.steps[i], plan.conversation[i], i, row.steps)
      /\ Len(row.steps) \in 1..Len(plan.conversation)
  BY <1>1 DEF RowAgrees
<1>3. RowComplete(row, plan) \in BOOLEAN /\ RowPassed(row, plan) \in BOOLEAN
  BY DEF RowComplete, RowPassed
<1>4. /\ row.complete \in BOOLEAN /\ row.passed \in BOOLEAN
      /\ row.complete <=> RowComplete(row, plan)
      /\ row.passed <=> RowPassed(row, plan)
  BY <1>2, <1>3
<1>5. RowPassed(row, plan) => RowComplete(row, plan)
  BY DEF RowPassed
<1>6. row.passed <=> Earned(row, plan)
  BY <1>1, AgreedIsEarned
<1>7. IsSequence(row.steps) /\ DOMAIN row.steps = 1..Len(row.steps) /\ Len(row.steps) \in Nat
  BY <1>1, SequenceOfItems DEF ReadableRow
<1>8. row.steps # <<>>
  <2>1. Len(row.steps) # 0
    BY <1>2
  <2> QED BY <2>1, EmptySeq
<1>9. SummaryAccepted(row)
  <2>1. ASSUME \/ \E i \in DOMAIN row.steps : row.steps[i].status = "error"
               \/ \E m \in DOMAIN row.checks : row.checks[m].status \notin Concluded
        PROVE  ~RowComplete(row, plan)
    BY <2>1 DEF RowComplete, StepsDone, ChecksComplete
  <2>2. ASSUME RowPassed(row, plan)
        PROVE  /\ \A i \in DOMAIN row.steps : row.steps[i].status # "failed"
               /\ \A m \in DOMAIN row.checks : row.checks[m].status # "failed"
    BY <2>2 DEF RowPassed, ChecksPassed
  <2> QED BY <1>4, <1>5, <2>1, <2>2 DEF SummaryAccepted
<1> QED BY <1>2, <1>4, <1>5, <1>6, <1>7, <1>8, <1>9

\* The projection of an honest row passes the recheck.
LEMMA StoredHonest ==
    ASSUME NEW plan, ValidScenario(plan), NEW policy, NEW row, HonestRow(row, plan, policy)
    PROVE  /\ StoredRowAccepted(StoredRow(row, plan))
           /\ StoredRow(row, plan).complete = row.complete
           /\ StoredRow(row, plan).passed = row.passed
<1> DEFINE stored == StoredRow(row, plan)
           kept == [i \in DOMAIN row.steps |->
                       [index |-> row.steps[i].index, status |-> row.steps[i].status,
                        assertionsPassed |-> AllPassed(row.steps[i].assertions)]]
           good == AllPassed(ReportedFinal(row))
<1>1. /\ stored.expected = Len(plan.conversation) /\ stored.steps = kept
      /\ stored.checks = row.checks /\ stored.policies = plan.metrics
      /\ stored.execution = row.execution /\ stored.complete = row.complete
      /\ stored.passed = row.passed
      /\ stored.finalPassed <=> good
  BY DEF StoredRow
<1>2. /\ row.complete \in BOOLEAN /\ row.passed \in BOOLEAN
      /\ row.complete <=> RowComplete(row, plan)
      /\ row.passed <=> RowPassed(row, plan)
      /\ IsSequence(row.steps) /\ row.steps # <<>> /\ DOMAIN row.steps = 1..Len(row.steps)
      /\ \A i \in DOMAIN row.steps : StepAgrees(row.steps[i], plan.conversation[i], i, row.steps)
  BY HonestConclusions
<1>3. RowAgrees(row, plan, policy)
  BY DEF HonestRow
<1>4. Len(row.steps) \in Nat
  BY <1>2 DEF IsSequence
<1>5. DOMAIN kept = DOMAIN row.steps /\ Len(kept) = Len(row.steps) /\ kept # <<>>
  <2>1. Len(kept) = Len(row.steps)
    BY <1>2, <1>4, Tabled
  <2>2. Len(row.steps) # 0
    BY <1>3 DEF RowAgrees
  <2> QED BY <2>1, <2>2, EmptySeq
<1>6. ASSUME NEW i \in DOMAIN row.steps
      PROVE  /\ kept[i].index = i - 1 /\ kept[i].status = row.steps[i].status
             /\ kept[i].status \in StepStatus
             /\ kept[i].status = "passed" => kept[i].assertionsPassed
  <2>1. /\ kept[i].index = row.steps[i].index /\ kept[i].status = row.steps[i].status
        /\ kept[i].assertionsPassed <=> AllPassed(row.steps[i].assertions)
    OBVIOUS
  <2>2. StepAgrees(row.steps[i], plan.conversation[i], i, row.steps)
    BY <1>2
  <2> HIDE DEF kept
  <2> QED BY <2>1, <2>2 DEF StepAgrees
<1>7. [i \in DOMAIN kept |-> kept[i].status] = [i \in DOMAIN row.steps |-> row.steps[i].status]
  <2>1. \A i \in DOMAIN row.steps : kept[i].status = row.steps[i].status
    BY <1>6
  <2> HIDE DEF kept
  <2> QED BY <1>5, <2>1
<1> HIDE DEF stored, kept, good
<1> DEFINE policy1 == IF stored.execution = <<>> THEN <<>> ELSE <<Content(stored.execution).policy>>
           complete == /\ Len(stored.steps) = stored.expected
                       /\ \A i \in DOMAIN stored.steps : stored.steps[i].status # "error"
                       /\ ChecksComplete(stored.checks)
                       /\ ExecutionSettled(stored.execution)
<1>8. complete <=> RowComplete(row, plan)
  BY <1>1, <1>5, <1>6 DEF RowComplete, StepsDone
<1>9. ExecutionAccepted(stored.execution, policy1, stored.steps)
  <2>1. ExecutionAccepted(row.execution, policy, row.steps)
    BY <1>3 DEF RowAgrees
  <2> QED BY <1>1, <1>7, <2>1 DEF ExecutionAccepted
<1>10. /\ ChecksAccepted(stored.checks, stored.policies)
       /\ stored.steps # <<>>
       /\ \A i \in DOMAIN stored.steps : /\ stored.steps[i].index = i - 1
                                         /\ stored.steps[i].status \in StepStatus
  BY <1>1, <1>3, <1>5, <1>6 DEF RowAgrees
<1>11. RowPassed(row, plan) <=>
         /\ complete
         /\ \A i \in DOMAIN stored.steps : /\ stored.steps[i].status = "passed"
                                           /\ stored.steps[i].assertionsPassed
         /\ stored.finalPassed
         /\ ChecksPassed(stored.checks)
  BY <1>1, <1>5, <1>6, <1>8 DEF RowPassed, good
<1>12. StoredRowAccepted(stored)
  BY <1>1, <1>2, <1>8, <1>9, <1>10, <1>11 DEF StoredRowAccepted
<1> QED BY <1>1, <1>12 DEF stored

\* A report of honest rows, one for each scenario of its manifest.
HonestBatch(rows, scenarios, policy) ==
    /\ IsSequence(scenarios) /\ Freezable(scenarios)
    /\ \A i \in 1..Len(scenarios) : ValidScenario(scenarios[i])
    /\ IsSequence(rows) /\ Len(rows) = Len(scenarios)
    /\ \A i \in 1..Len(rows) : HonestRow(rows[i], scenarios[i], policy)

LEMMA BatchRows ==
    ASSUME NEW rows, NEW scenarios, NEW policy, HonestBatch(rows, scenarios, policy)
    PROVE  /\ Len(rows) \in Nat \ {0}
           /\ DOMAIN rows = 1..Len(rows) /\ DOMAIN scenarios = 1..Len(rows)
           /\ rows # <<>>
           /\ \A i \in 1..Len(rows) : /\ ValidScenario(scenarios[i])
                                      /\ HonestRow(rows[i], scenarios[i], policy)
                                      /\ rows[i].id = scenarios[i].id
           /\ \A i, j \in 1..Len(rows) : rows[i].id = rows[j].id => i = j
           /\ PlanIds(Frozen(scenarios, policy)) = {rows[i].id : i \in 1..Len(rows)}
           /\ \A i \in 1..Len(rows) : Plan(Frozen(scenarios, policy), rows[i].id) = scenarios[i]
<1> DEFINE n == Len(rows)
           manifest == Frozen(scenarios, policy)
<1>1. n \in Nat /\ DOMAIN rows = 1..n /\ DOMAIN scenarios = 1..n
  BY SequenceOfItems DEF HonestBatch
<1>2. n # 0 /\ rows # <<>>
  <2>1. scenarios # <<>> /\ IsSequence(scenarios) /\ Len(scenarios) = n
    BY DEF HonestBatch, Freezable
  <2>2. scenarios \in Seq(ItemsOf(scenarios))
    BY <2>1, SequenceOfItems
  <2>3. n # 0
    BY <2>1, <2>2, EmptySeq
  <2> QED BY <2>3, EmptySeq
<1>3. \A i \in 1..n : /\ ValidScenario(scenarios[i])
                      /\ HonestRow(rows[i], scenarios[i], policy)
                      /\ rows[i].id = scenarios[i].id
  BY DEF HonestBatch, HonestRow
<1>4. \A i, j \in 1..n : scenarios[i].id = scenarios[j].id => i = j
  BY <1>1 DEF HonestBatch, Freezable
<1>5. \A i, j \in 1..n : rows[i].id = rows[j].id => i = j
  BY <1>3, <1>4
<1>6. manifest.plans = {scenarios[i] : i \in 1..n}
  BY <1>1 DEF Frozen
<1> HIDE DEF manifest
<1>7. PlanIds(manifest) = {rows[i].id : i \in 1..n}
  <2>1. \A x : x \in PlanIds(manifest) <=> \E i \in 1..n : x = scenarios[i].id
    BY <1>6 DEF PlanIds
  <2>2. \A x : x \in PlanIds(manifest) <=> x \in {rows[i].id : i \in 1..n}
    BY <1>3, <2>1
  <2>3. PlanIds(manifest) = {plan.id : plan \in manifest.plans}
    BY DEF PlanIds
  <2> QED BY <2>2, <2>3
<1>8. ASSUME NEW i \in 1..n PROVE Plan(manifest, rows[i].id) = scenarios[i]
  <2>1. scenarios[i] \in manifest.plans /\ scenarios[i].id = rows[i].id
    BY <1>3, <1>6
  <2>2. \A plan \in manifest.plans : plan.id = rows[i].id => plan = scenarios[i]
    BY <1>3, <1>4, <1>6
  <2> QED BY <2>1, <2>2 DEF Plan
<1> QED BY <1>1, <1>2, <1>3, <1>5, <1>7, <1>8 DEF manifest

LEMMA BatchCounts ==
    ASSUME NEW rows, NEW scenarios, NEW policy, HonestBatch(rows, scenarios, policy)
    PROVE  /\ Cardinality(PassedRows(rows)) \in 0..Len(rows)
           /\ Cardinality(PassedRows(rows)) = Len(rows)
                 <=> \A i \in 1..Len(rows) : rows[i].passed
<1> DEFINE n == Len(rows)
<1>1. n \in Nat \ {0} /\ DOMAIN rows = 1..n
  BY BatchRows
<1>2. IsFiniteSet(1..n) /\ Cardinality(1..n) = n
  BY <1>1, FS_Interval
<1>3. PassedRows(rows) \in SUBSET (1..n)
  BY <1>1 DEF PassedRows
<1>4. /\ IsFiniteSet(PassedRows(rows)) /\ Cardinality(PassedRows(rows)) <= n
      /\ n = Cardinality(PassedRows(rows)) => 1..n = PassedRows(rows)
  BY <1>2, <1>3, FS_Subset
<1>5. Cardinality(PassedRows(rows)) \in Nat
  BY <1>4, FS_CardinalityType
<1>6. (\A i \in 1..n : rows[i].passed) <=> PassedRows(rows) = 1..n
  BY <1>1 DEF PassedRows
<1> QED BY <1>1, <1>2, <1>4, <1>5, <1>6

LEMMA BatchBuilt ==
    ASSUME NEW rows, NEW scenarios, NEW policy, HonestBatch(rows, scenarios, policy)
    PROVE  LET content  == Frozen(scenarios, policy)
               manifest == <<content>>
               report   == Assembled(rows, manifest)
               read     == \A i \in DOMAIN rows : Rebuilt(rows[i], Plan(content, rows[i].id)) IN
           /\ ReportBuilt(rows, manifest) <=> read
           /\ read => Parsable(report, manifest)
<1> DEFINE n == Len(rows)
           content == Frozen(scenarios, policy)
           manifest == <<content>>
           report == Assembled(rows, manifest)
           passed == Cardinality(PassedRows(rows))
           complete == rows # <<>> /\ \A i \in DOMAIN rows : rows[i].complete
<1>1. /\ report.manifest = manifest /\ report.rows = rows /\ report.total = n
      /\ report.passed = passed /\ report.failed = n - passed
      /\ report.complete <=> complete
      /\ report.gate <=> complete /\ passed = n
  BY DEF Assembled
<1>2. /\ n \in Nat \ {0} /\ DOMAIN rows = 1..n /\ rows # <<>>
      /\ \A i \in 1..n : /\ ValidScenario(scenarios[i])
                         /\ HonestRow(rows[i], scenarios[i], policy)
                         /\ rows[i].id = scenarios[i].id
      /\ \A i, j \in 1..n : rows[i].id = rows[j].id => i = j
      /\ PlanIds(content) = {rows[i].id : i \in 1..n}
      /\ \A i \in 1..n : Plan(content, rows[i].id) = scenarios[i]
  BY BatchRows
<1>3. passed \in 0..n
  BY BatchCounts
<1>4. Declared(manifest) /\ Content(manifest) = content /\ content.policy = policy
  BY DEF Declared, Content, Frozen
<1>5. TotalsAccepted(report)
  <2>1. Assembled(report.rows, report.manifest) = report
    BY <1>1
  <2> QED BY <2>1 DEF TotalsAccepted
<1> HIDE DEF manifest, content, report
<1> DEFINE read == \A i \in DOMAIN rows : Rebuilt(rows[i], Plan(content, rows[i].id))
<1>6. (\A i \in 1..n : RowAccepted(rows[i], Plan(content, rows[i].id), content.policy)) <=> read
  BY <1>2, <1>4 DEF HonestRow, RowAccepted
<1> HIDE DEF read
<1>7. V2Accepted(report, manifest) <=> read
  BY <1>1, <1>2, <1>4, <1>5, <1>6 DEF V2Accepted
<1>8. ReportBuilt(rows, manifest) <=> read
  BY <1>2, <1>4, <1>7 DEF ReportBuilt, report
<1>9. \A i \in 1..n : SummaryAccepted(rows[i])
  BY <1>2, HonestConclusions
<1>10. report.gate = (report.failed = 0 /\ \A i \in DOMAIN report.rows : report.rows[i].complete)
  <2> DEFINE all == \A i \in DOMAIN rows : rows[i].complete
  <2>1. report.gate \in BOOLEAN
    BY DEF Assembled, report
  <2>2. passed = n <=> n - passed = 0
    BY <1>2, <1>3
  <2>3. report.gate <=> (report.failed = 0 /\ all)
    <3> HIDE DEF all
    <3>1. complete <=> all
      BY <1>2 DEF all
    <3> HIDE DEF complete, passed
    <3> QED BY <1>1, <2>2, <3>1
  <2> QED BY <1>1, <2>1, <2>3
<1>11. read => Parsable(report, manifest)
  BY <1>1, <1>2, <1>4, <1>7, <1>9, <1>10 DEF Parsable
<1> QED BY <1>8, <1>11 DEF manifest, content, report, read

LEMMA BatchStored ==
    ASSUME NEW rows, NEW scenarios, NEW policy, HonestBatch(rows, scenarios, policy)
    PROVE  LET manifest == <<Frozen(scenarios, policy)>>
               stored   == OfflineRun(Assembled(rows, manifest), manifest) IN
           /\ ValidRun(stored)
           /\ \A i \in 1..Len(rows) : Content(stored.evidence)[rows[i].id].passed = rows[i].passed
           /\ ReleaseEligible(stored) = \A i \in DOMAIN rows : rows[i].complete
<1> DEFINE n == Len(rows)
           content == Frozen(scenarios, policy)
           manifest == <<content>>
           report == Assembled(rows, manifest)
           stored == OfflineRun(report, manifest)
           passed == Cardinality(PassedRows(rows))
           complete == \A i \in 1..n : rows[i].complete
           evidence == [id \in PlanIds(content) |-> StoredRow(RowOfId(rows, id), Plan(content, id))]
           ids == {rows[i].id : i \in 1..n}
<1>1. /\ n \in Nat \ {0} /\ DOMAIN rows = 1..n /\ rows # <<>>
      /\ \A i \in 1..n : /\ ValidScenario(scenarios[i])
                         /\ HonestRow(rows[i], scenarios[i], policy)
                         /\ rows[i].id = scenarios[i].id
      /\ \A i, j \in 1..n : rows[i].id = rows[j].id => i = j
      /\ PlanIds(content) = ids
      /\ \A i \in 1..n : Plan(content, rows[i].id) = scenarios[i]
  BY BatchRows
<1>2. passed \in 0..n
  BY BatchCounts
<1>3. /\ report.manifest = manifest /\ report.rows = rows /\ report.total = n
      /\ report.passed = passed /\ report.failed = n - passed
      /\ report.complete <=> complete
      /\ report.gate <=> complete /\ passed = n
  BY <1>1 DEF Assembled
<1>4. Declared(manifest) /\ Content(manifest) = content
  BY DEF Declared, Content
<1> HIDE DEF report, content
<1>5. /\ stored.verification = "verified_v2"
      /\ stored.total = n /\ stored.passed = passed /\ stored.failed = n - passed
      /\ stored.ids = ids /\ stored.evidence = <<evidence>>
      /\ stored.complete <=> complete
      /\ stored.gate <=> complete /\ passed = n
      /\ stored.complete \in BOOLEAN /\ stored.gate \in BOOLEAN
  <2>1. stored.verification = "verified_v2"
    BY <1>3, <1>4 DEF OfflineRun
  <2>2. stored.total = n /\ stored.passed = passed /\ stored.failed = n - passed
    BY <1>3 DEF OfflineRun
  <2>3. stored.ids = ids
    BY <1>1, <1>3 DEF OfflineRun
  <2>4. stored.evidence = <<evidence>>
    BY <1>3, <1>4 DEF OfflineRun
  <2>5. (stored.complete <=> complete) /\ stored.complete \in BOOLEAN
    BY <1>3, <1>4 DEF OfflineRun
  <2>6. stored.gate = report.gate /\ report.gate \in BOOLEAN
    BY DEF OfflineRun, Assembled, report
  <2> QED BY <1>3, <2>1, <2>2, <2>3, <2>4, <2>5, <2>6
<1> HIDE DEF stored, complete
<1>6. ASSUME NEW i \in 1..n
      PROVE  /\ evidence[rows[i].id] = StoredRow(rows[i], scenarios[i])
             /\ StoredRowAccepted(evidence[rows[i].id])
             /\ evidence[rows[i].id].complete = rows[i].complete
             /\ evidence[rows[i].id].passed = rows[i].passed
  <2>1. RowOfId(rows, rows[i].id) = rows[i]
    <3> DEFINE all == {rows[j] : j \in DOMAIN rows}
    <3>1. rows[i] \in all /\ \A row \in all : row.id = rows[i].id => row = rows[i]
      BY <1>1
    <3>2. RowOfId(rows, rows[i].id) = CHOOSE row \in all : row.id = rows[i].id
      BY DEF RowOfId
    <3> HIDE DEF all
    <3> QED BY <3>1, <3>2
  <2>2. rows[i].id \in PlanIds(content)
    BY <1>1
  <2>3. evidence[rows[i].id] = StoredRow(rows[i], scenarios[i])
    BY <1>1, <2>1, <2>2
  <2> HIDE DEF evidence
  <2> QED BY <1>1, <2>3, StoredHonest
<1>7. DOMAIN evidence = ids
  BY <1>1
<1> HIDE DEF evidence
<1>8. IsFiniteSet(ids) /\ Cardinality(ids) = n /\ ids # {}
  <2> DEFINE f == [i \in 1..n |-> rows[i].id]
  <2>1. IsFiniteSet(1..n) /\ Cardinality(1..n) = n
    BY <1>1, FS_Interval
  <2>2. \A i, j \in 1..n : f[i] = f[j] => i = j
    BY <1>1
  <2>3. ids = {f[i] : i \in 1..n}
    OBVIOUS
  <2>4. 1 \in 1..n
    BY <1>1
  <2>5. ids # {}
    BY <2>4
  <2> DEFINE S == 1..n
  <2> HIDE DEF f, S, ids, n
  <2>6. IsFiniteSet(S) /\ Cardinality(S) = n /\ \A i, j \in S : f[i] = f[j] => i = j
    BY <2>1, <2>2 DEF S
  <2>8. IsFiniteSet({f[i] : i \in S}) /\ Cardinality({f[i] : i \in S}) = Cardinality(S)
    BY <2>6, SameCount
  <2>7. ids = {f[i] : i \in S}
    BY <2>3 DEF S
  <2> QED BY <2>5, <2>6, <2>7, <2>8
<1>9. Cardinality({id \in DOMAIN evidence : evidence[id].passed}) = passed
  <2> DEFINE f == [i \in 1..n |-> rows[i].id]
             S == PassedRows(rows)
             T == {id \in DOMAIN evidence : evidence[id].passed}
  <2>1. S \subseteq 1..n /\ \A i \in 1..n : i \in S <=> rows[i].passed
    BY <1>1 DEF PassedRows
  <2>2. IsFiniteSet(S)
    <3>1. IsFiniteSet(1..n)
      BY <1>1, FS_Interval
    <3> HIDE DEF S
    <3> QED BY <2>1, <3>1, FS_Subset
  <2>3. \A i, j \in S : f[i] = f[j] => i = j
    BY <1>1, <2>1
  <2>4. T = {f[i] : i \in S}
    <3>1. \A i \in S : f[i] = rows[i].id
      BY <2>1
    <3>2. \A x : x \in T <=> \E i \in 1..n : x = rows[i].id /\ rows[i].passed
      BY <1>6, <1>7
    <3>3. \A x : x \in {f[i] : i \in S} <=> \E i \in S : x = rows[i].id
      <4> HIDE DEF S, f
      <4> QED BY <3>1
    <3> HIDE DEF S, T, f
    <3>4. \A x : x \in T <=> x \in {f[i] : i \in S}
      BY <2>1, <3>2, <3>3
    <3> QED BY <3>4 DEF T
  <2> HIDE DEF f, S
  <2>5. Cardinality({f[i] : i \in S}) = Cardinality(S)
    BY <2>2, <2>3, SameCount
  <2> QED BY <2>4, <2>5 DEF S
<1>10. complete <=> \A id \in DOMAIN evidence : evidence[id].complete
  BY <1>6, <1>7 DEF complete
<1>11. StoredAccepted(stored)
  <2>1. stored.verification # "legacy_unverified" /\ Content(stored.evidence) = evidence
    BY <1>5 DEF Content
  <2>2. DOMAIN evidence # {} /\ DOMAIN evidence = stored.ids
    BY <1>5, <1>7, <1>8
  <2>3. \A id \in DOMAIN evidence : StoredRowAccepted(evidence[id])
    BY <1>6, <1>7
  <2>4. stored.complete = \A id \in DOMAIN evidence : evidence[id].complete
    BY <1>5, <1>10
  <2>5. /\ stored.passed = Cardinality({id \in DOMAIN evidence : evidence[id].passed})
        /\ stored.total = Cardinality(DOMAIN evidence)
    BY <1>5, <1>7, <1>8, <1>9
  <2>6. stored.gate = (stored.complete /\ stored.passed = stored.total)
    BY <1>5
  <2> QED BY <2>1, <2>2, <2>3, <2>4, <2>5, <2>6 DEF StoredAccepted
<1>12. ValidRun(stored)
  <2>1. passed \in Nat /\ n - passed \in Nat /\ n = passed + (n - passed)
    BY <1>1, <1>2
  <2> HIDE DEF passed
  <2> QED BY <1>5, <1>8, <1>11, <2>1 DEF ValidRun
<1>13. \A i \in 1..n : Content(stored.evidence)[rows[i].id].passed = rows[i].passed
  BY <1>5, <1>6 DEF Content
<1>14. ReleaseEligible(stored) = \A i \in DOMAIN rows : rows[i].complete
  BY <1>1, <1>5 DEF ReleaseEligible, complete
<1> QED BY <1>12, <1>13, <1>14 DEF stored, report, content

\* A report of honest rows that the reader can read is built, imported and found
\* good, and the gate that ran them says what the rows say.
LEMMA HonestFaithful ==
    ASSUME NEW rows, NEW scenarios, NEW policy, HonestBatch(rows, scenarios, policy)
    PROVE  Faithful(rows, Frozen(scenarios, policy))
<1> DEFINE n == Len(rows)
           content == Frozen(scenarios, policy)
           manifest == <<content>>
           report == Assembled(rows, manifest)
           stored == OfflineRun(report, manifest)
           good == \A i \in DOMAIN rows : rows[i].passed
           passed == Cardinality(PassedRows(rows))
<1>1. /\ n \in Nat \ {0} /\ DOMAIN rows = 1..n /\ rows # <<>>
      /\ \A i \in 1..n : /\ ValidScenario(scenarios[i])
                         /\ HonestRow(rows[i], scenarios[i], policy)
      /\ \A i \in 1..n : Plan(content, rows[i].id) = scenarios[i]
  BY BatchRows
<1>2. ASSUME NEW i \in 1..n
      PROVE  /\ rows[i].passed => rows[i].complete
             /\ rows[i].passed <=> Earned(rows[i], Plan(content, rows[i].id))
  BY <1>1, HonestConclusions
<1>3. report.gate <=> good
  <2> DEFINE complete == rows # <<>> /\ \A i \in DOMAIN rows : rows[i].complete
  <2>1. report.gate <=> complete /\ passed = n
    BY DEF Assembled
  <2>2. passed = n <=> good
    BY <1>1, BatchCounts
  <2>3. good => complete
    BY <1>1, <1>2
  <2> HIDE DEF complete, good, passed, report
  <2> QED BY <2>1, <2>2, <2>3
<1> DEFINE read == \A i \in DOMAIN rows : Rebuilt(rows[i], Plan(content, rows[i].id))
<1>4. (ReportBuilt(rows, manifest) <=> read) /\ (read => Parsable(report, manifest))
  BY BatchBuilt
<1>5. /\ ValidRun(stored)
      /\ \A i \in 1..n : Content(stored.evidence)[rows[i].id].passed = rows[i].passed
      /\ ReleaseEligible(stored) = \A i \in DOMAIN rows : rows[i].complete
  BY BatchStored
<1> HIDE DEF content, stored, read
<1>6. read => V1Exit(rows, manifest) = <<IF good THEN 0 ELSE 1>>
  BY <1>3, <1>4 DEF V1Exit
<1> QED BY <1>1, <1>2, <1>4, <1>5, <1>6 DEF Faithful, content, stored, read

LEMMA RedactedPassed ==
    ASSUME NEW list, ResultList(list)
    PROVE  AllPassed(RedactedResults(list)) <=> AllPassed(list)
<1> DEFINE shown == RedactedResults(list)
<1>1. DOMAIN shown = DOMAIN list
  BY DEF RedactedResults
<1>2. DOMAIN list = 1..Len(list) /\ \A i \in DOMAIN list : "passed" \in DOMAIN list[i]
  BY SequenceOfItems DEF ResultList
<1>3. ASSUME NEW i \in DOMAIN list
      PROVE  shown[i].passed <=> list[i].passed
  <2>1. shown[i] = [list[i] EXCEPT !.about = "[REDACTED]"]
    BY DEF RedactedResults
  <2> HIDE DEF shown
  <2>2. shown[i].passed = list[i].passed
    BY <1>2, <2>1
  <2> QED BY <2>2
<1> HIDE DEF shown
<1>4. AllPassed(shown) <=> AllPassed(list)
  BY <1>1, <1>3 DEF AllPassed
<1> QED BY <1>4 DEF shown

\* A redacted step still shows why it passed or did not.
LEMMA RedactedStepShows ==
    ASSUME NEW row, NEW plan, NEW policy, ValidScenario(plan), HonestRow(row, plan, policy),
           NEW i \in DOMAIN row.steps
    PROVE  LET shown == RedactedStep(row.steps[i]) IN
           (shown.status = "passed") =
               (Declared(shown.response) /\ AllPassed(shown.assertions))
<1> DEFINE step == row.steps[i]
           turn == plan.conversation[i]
           shown == RedactedStep(step)
<1>1. StepAgrees(step, turn, i, row.steps) /\ DOMAIN row.steps = 1..Len(row.steps)
  BY HonestConclusions
<1>2. /\ WrittenStep(step)
      /\ Declared(step.response) => ValidResponse(Content(step.response))
  BY DEF HonestRow, WrittenRow, ReadableRow
<1>3. DOMAIN step = StepFields
  BY <1>2 DEF WrittenStep
<1>4. /\ shown.status = step.status
      /\ Declared(shown.response) <=> Declared(step.response)
      /\ shown.assertions = RedactedResults(step.assertions)
  <2> HIDE DEF step
  <2> DEFINE response == IF Declared(step.response) THEN <<RedactedResponse(Content(step.response))>>
                         ELSE step.response
             results_ == RedactedResults(step.assertions)
  <2>1. PICK error : shown = [step EXCEPT !.user = "[REDACTED]", !.error = error,
                                          !.response = response, !.assertions = results_]
    BY DEF RedactedStep
  <2>2. Declared(response) <=> Declared(step.response)
    BY DEF Declared
  <2> HIDE DEF response, results_, shown
  <2>3. /\ shown.status = step.status /\ shown.response = response
        /\ shown.assertions = results_
    BY <1>3, <2>1 DEF StepFields
  <2> QED BY <2>2, <2>3 DEF results_
<1>5. CASE step.status = "error"
  <2>1. ~Declared(step.response)
    BY <1>1, <1>5 DEF StepAgrees, Declared
  <2> HIDE DEF shown, step
  <2> QED BY <1>4, <1>5, <2>1 DEF shown, step
<1>6. CASE step.status # "error"
  <2>1. /\ Declared(step.response)
        /\ step.assertions = StepResults(turn, Content(step.response))
        /\ (step.status = "passed") = AllPassed(step.assertions)
    BY <1>1, <1>6 DEF StepAgrees
  <2>2. ResultList(step.assertions)
    <3>1. CASE Declared(turn.expect)
      <4>1. Len(row.steps) \in 1..Len(plan.conversation) /\ IsSequence(plan.conversation)
        BY DEF HonestRow, RowAgrees, ValidScenario
      <4>2. i \in DOMAIN plan.conversation
        BY <1>1, <4>1, SequenceOfItems
      <4>3. ValidExpectation(Content(turn.expect))
        BY <3>1, <4>2 DEF ValidScenario
      <4>4. IsSequence(Content(step.response).calls)
        BY <1>2, <2>1 DEF ValidResponse
      <4>5. step.assertions = CheckExpectation(Content(turn.expect), <<Content(step.response)>>,
                                               Content(step.response).calls, "")
        BY <2>1, <3>1 DEF StepResults
      <4> HIDE DEF step, turn
      <4> QED BY <4>3, <4>4, <4>5, PassedSatisfies
    <3>2. CASE ~Declared(turn.expect)
      BY <2>1, <3>2, NoResults DEF StepResults
    <3> QED BY <3>1, <3>2
  <2>3. AllPassed(RedactedResults(step.assertions)) <=> AllPassed(step.assertions)
    BY <2>2, RedactedPassed
  <2> HIDE DEF shown, step
  <2>4. AllPassed(shown.assertions) <=> AllPassed(step.assertions)
    BY <1>4, <2>3
  <2>5. shown.status = "passed" <=> Declared(shown.response) /\ AllPassed(shown.assertions)
    BY <1>4, <2>1, <2>4
  <2>6. AllPassed(shown.assertions) \in BOOLEAN
    BY DEF AllPassed
  <2> QED BY <2>5, <2>6 DEF shown, step
<1> QED BY <1>5, <1>6

LEMMA HonestDify ==
    ASSUME NEW rows, NEW scenarios, NEW policy, HonestBatch(rows, scenarios, policy)
    PROVE  DifyFaithful(rows)
<1> DEFINE n == Len(rows)
           report == Assembled(rows, <<>>)
           dify == DifyReport(rows)
           good == \A i \in DOMAIN rows : rows[i].passed
           complete == \A i \in DOMAIN rows : rows[i].complete
<1>1. /\ n \in Nat \ {0} /\ DOMAIN rows = 1..n /\ rows # <<>>
      /\ \A i \in 1..n : /\ ValidScenario(scenarios[i])
                         /\ HonestRow(rows[i], scenarios[i], policy)
      /\ \A i, j \in 1..n : rows[i].id = rows[j].id => i = j
  BY BatchRows
<1>2. dify.gate = report.gate /\ dify.rows = [i \in 1..n |-> Redacted(rows[i])]
  <2>1. report.rows = rows
    BY DEF Assembled
  <2>2. dify = [report EXCEPT !.rows = [i \in DOMAIN rows |-> Redacted(rows[i])]]
    BY <2>1 DEF DifyReport
  <2>3. DOMAIN report = {"manifest", "rows", "total", "passed", "failed", "complete", "gate"}
    BY DEF Assembled
  <2> HIDE DEF dify, report
  <2> QED BY <1>1, <2>2, <2>3
<1>3. report.gate <=> good
  <2> DEFINE all == rows # <<>> /\ complete
             passed == Cardinality(PassedRows(rows))
  <2>1. report.gate <=> all /\ passed = n
    BY DEF Assembled
  <2>2. passed = n <=> good
    BY <1>1, BatchCounts
  <2>3. good => all
    BY <1>1, HonestConclusions
  <2> HIDE DEF all, good, passed, report
  <2> QED BY <2>1, <2>2, <2>3
<1>4. ASSUME NEW i \in 1..n
      PROVE  /\ dify.rows[i].complete <=> rows[i].complete
             /\ DOMAIN dify.rows[i].steps = DOMAIN rows[i].steps
             /\ \A j \in DOMAIN rows[i].steps : dify.rows[i].steps[j] = RedactedStep(rows[i].steps[j])
  <2> DEFINE row == rows[i]
             list == [j \in DOMAIN row.steps |-> RedactedStep(row.steps[j])]
             final == RedactedResults(row.final)
  <2>1. dify.rows[i] = Redacted(row)
    BY <1>2
  <2>2. DOMAIN row = RowFields
    BY <1>1 DEF HonestRow, WrittenRow, RowShaped
  <2>3. Redacted(row) = [row EXCEPT !.steps = list, !.final = final]
    BY DEF Redacted
  <2> HIDE DEF row, list, final, dify
  <2>4. Redacted(row).complete = row.complete /\ Redacted(row).steps = list
    BY <2>2, <2>3 DEF RowFields
  <2> QED BY <2>1, <2>4 DEF row, list
<1>5. ReportBuilt(rows, <<>>)
  BY <1>1 DEF ReportBuilt, Declared
<1> HIDE DEF dify, report
<1>6. DifyExit(rows) = IF good THEN 0 ELSE IF complete THEN 3 ELSE 1
  BY <1>1, <1>2, <1>3, <1>4, <1>5 DEF DifyExit, dify
<1>7. ASSUME NEW i \in DOMAIN rows, NEW j \in DOMAIN dify.rows[i].steps
      PROVE  LET step == dify.rows[i].steps[j] IN
             (step.status = "passed") = (Declared(step.response) /\ AllPassed(step.assertions))
  <2>1. /\ j \in DOMAIN rows[i].steps
        /\ dify.rows[i].steps[j] = RedactedStep(rows[i].steps[j])
    BY <1>1, <1>4
  <2>2. LET shown == RedactedStep(rows[i].steps[j]) IN
        (shown.status = "passed") = (Declared(shown.response) /\ AllPassed(shown.assertions))
    BY <1>1, <2>1, RedactedStepShows
  <2> QED BY <2>1, <2>2
<1> QED BY <1>6, <1>7 DEF DifyFaithful, dify

------------------------------------------------------------------------------
(* The results of the synchronous runner are honest rows.                     *)

LEMMA CallsNone == CallsOf(<<>>) = <<>>
<1> DEFINE lists == [i \in DOMAIN <<>> |->
                        IF Declared(<<>>[i].response) THEN Content(<<>>[i].response).calls ELSE <<>>]
<1>1. DOMAIN <<>> = 1..0
  BY EmptySeq
<1>2. lists = [i \in 1..0 |-> lists[i]]
  BY <1>1
<1> HIDE DEF lists
<1>3. IsSequence(lists) /\ Len(lists) = 0
  BY <1>2, Tabled
<1>4. lists \in Seq(ItemsOf(lists))
  BY <1>3, SequenceOfItems
<1>5. lists = <<>>
  BY <1>3, <1>4, EmptySeq
<1> QED BY <1>5, FlattenNone DEF CallsOf, lists

\* The calls of a dialogue grow by those of its last response.
LEMMA CallsAppended ==
    ASSUME NEW turns, IsSequence(turns), NEW step,
           Declared(step.response) => ValidResponse(Content(step.response))
    PROVE  CallsOf(Append(turns, step))
             = CallsOf(turns) \o (IF Declared(step.response) THEN Content(step.response).calls ELSE <<>>)
<1> DEFINE more == Append(turns, step)
           Calls(list, i) == IF Declared(list[i].response) THEN Content(list[i].response).calls ELSE <<>>
           last == IF Declared(step.response) THEN Content(step.response).calls ELSE <<>>
           old == [i \in DOMAIN turns |-> Calls(turns, i)]
           new == [i \in DOMAIN more |-> Calls(more, i)]
           n == Len(turns)
<1>1. /\ n \in Nat /\ DOMAIN turns = 1..n
      /\ IsSequence(more) /\ Len(more) = n + 1 /\ more[n + 1] = step
      /\ \A i \in 1..n : more[i] = turns[i]
  BY Appended, SequenceOfItems
<1>2. DOMAIN more = 1..(n + 1)
  BY <1>1, SequenceOfItems
<1>3. IsSequence(last)
  BY NoItems DEF ValidResponse
<1>4. \A i \in 1..n : old[i] = Calls(turns, i)
  BY <1>1
<1>5. \A i \in 1..(n + 1) : new[i] = Calls(more, i)
  BY <1>2
<1>6. Calls(more, n + 1) = last /\ \A i \in 1..n : Calls(more, i) = Calls(turns, i)
  BY <1>1
<1>7. IsSequence(old) /\ Len(old) = n
  <2>1. old = [i \in 1..n |-> old[i]]
    BY <1>1
  <2> HIDE DEF old
  <2> QED BY <1>1, <2>1, Tabled
<1>8. IsSequence(new) /\ Len(new) = n + 1
  <2>1. new = [i \in 1..(n + 1) |-> new[i]]
    BY <1>2
  <2>2. n + 1 \in Nat
    BY <1>1
  <2> HIDE DEF new
  <2> QED BY <2>1, <2>2, Tabled
<1> HIDE DEF old, new, last, Calls, more, n
<1>9. new = Append(old, last)
  <2>1. /\ IsSequence(Append(old, last)) /\ Len(Append(old, last)) = n + 1
        /\ \A i \in 1..n : Append(old, last)[i] = old[i]
        /\ Append(old, last)[n + 1] = last
    BY <1>7, Appended
  <2>2. \A i \in 1..(n + 1) : i \in 1..n \/ i = n + 1
    BY <1>1
  <2>3. ASSUME NEW i \in 1..(n + 1) PROVE new[i] = Append(old, last)[i]
    BY <1>4, <1>5, <1>6, <2>1, <2>2
  <2> QED BY <1>8, <2>1, <2>3, SameItems
<1>10. FlattenSeq(Append(old, last)) = FlattenSeq(old) \o last
  BY <1>3, <1>7, FlattenAppended
<1>11. CallsOf(more) = FlattenSeq(new) /\ CallsOf(turns) = FlattenSeq(old)
  BY DEF CallsOf, new, old, Calls
<1> QED BY <1>9, <1>10, <1>11 DEF more, last

\* A turn that was answered, and one that was not, as the reader takes them.
AnsweredAs(step, turn, i, turns, r) ==
    /\ WrittenStep(step)
    /\ StepAgrees(step, turn, i, turns)
    /\ step.response = <<r>> /\ Declared(step.response) /\ Content(step.response) = r
    /\ step.status \in {"passed", "failed"} /\ step.error = ""
    /\ step.status = "passed" <=> AllPassed(StepResults(turn, r))

UnansweredAs(step, turn, i, turns, user, error) ==
    /\ WrittenStep(step)
    /\ StepAgrees(step, turn, i, turns)
    /\ ~Declared(step.response) /\ step.status = "error" /\ step.error = error
    /\ step.user = user /\ step.response = <<>>

LEMMA AnsweredAccepted ==
    ASSUME NEW turn, NEW i \in Nat \ {0}, NEW k, k = i - 1, NEW r, ValidResponse(r), NEW turns
    PROVE  AnsweredAs(AnsweredStep(turn, k, r), turn, i, turns, r)
<1> DEFINE step == AnsweredStep(turn, k, r)
           list == StepResults(turn, r)
<1>1. /\ step.index = k /\ step.user = turn.user /\ step.response = <<r>>
      /\ step.assertions = list /\ step.error = ""
      /\ step.status = IF AllPassed(list) THEN "passed" ELSE "failed"
      /\ WrittenStep(step)
  BY DEF AnsweredStep, StepFields, WrittenStep
<1>2. Declared(<<r>>) /\ Content(<<r>>) = r
  BY DEF Declared, Content
<1>3. AllPassed(list) \in BOOLEAN
  BY DEF AllPassed
<1> HIDE DEF step, list
<1>4. step.status \in {"passed", "failed"} /\ (step.status = "passed" <=> AllPassed(list))
  BY <1>1
<1>5. StepAgrees(step, turn, i, turns)
  BY <1>1, <1>2, <1>3, <1>4 DEF StepAgrees, UserAccepted, StepStatus, list
<1> QED BY <1>1, <1>2, <1>4, <1>5 DEF step, list, AnsweredAs

LEMMA ErrorAccepted ==
    ASSUME NEW turn, NEW i \in Nat \ {0}, NEW k, k = i - 1, NEW user, NEW error, NEW turns, i = Len(turns),
           user = turn.user \/ (i = 1 /\ user = "")
    PROVE  UnansweredAs(ErrorStep(k, user, error), turn, i, turns, user, error)
<1> DEFINE step == ErrorStep(k, user, error)
<1>1. /\ step.index = k /\ step.user = user /\ step.response = <<>>
      /\ step.assertions = <<>> /\ step.error = error /\ step.status = "error"
      /\ WrittenStep(step)
  BY DEF ErrorStep, StepFields, WrittenStep
<1> HIDE DEF step
<1>2. StepAgrees(step, turn, i, turns)
  BY <1>1 DEF StepAgrees, UserAccepted, StepStatus
<1> QED BY <1>1, <1>2 DEF step, Declared, UnansweredAs

\* The runner's conclusions are the reader's.
ConcludedAs(row, plan) ==
    /\ row.complete = (/\ StepsDone(row.steps, Len(plan.conversation))
                       /\ \A m \in DOMAIN row.checks : Evaluated(row.checks[m])
                       /\ ExecutionSettled(row.execution))
    /\ row.passed = (row.complete /\ ResultPassed(row.steps, row.final, row.checks))

LEMMA ConclusionsAgree ==
    ASSUME NEW row, NEW plan, ChecksAccepted(row.checks, plan.metrics),
           IsSequence(row.steps), row.steps # <<>>, ConcludedAs(row, plan)
    PROVE  row.complete = RowComplete(row, plan) /\ row.passed = RowPassed(row, plan)
<1>1. ASSUME NEW m \in DOMAIN row.checks
      PROVE  Evaluated(row.checks[m]) <=> row.checks[m].status \in Concluded
  BY DEF ChecksAccepted, ScoreAgrees, Evaluated
<1>2. row.complete <=> RowComplete(row, plan)
  BY <1>1 DEF ConcludedAs, RowComplete, ChecksComplete
<1>3. row.complete = RowComplete(row, plan)
  BY <1>2 DEF ConcludedAs, RowComplete
<1>4. ASSUME RowComplete(row, plan)
      PROVE  /\ ReportedFinal(row) = row.final
             /\ ResultPassed(row.steps, row.final, row.checks) <=>
                   /\ \A i \in DOMAIN row.steps : row.steps[i].status = "passed"
                   /\ AllPassed(row.final)
                   /\ ChecksPassed(row.checks)
  <2>1. Len(row.steps) \in DOMAIN row.steps
    BY SequenceOfItems, EmptySeq
  <2>2. Last(row.steps).status # "error"
    BY <1>4, <2>1 DEF Last, RowComplete, StepsDone
  <2>3. ReportedFinal(row) = row.final
    BY <2>2 DEF ReportedFinal
  <2>4. \A m \in DOMAIN row.checks : Evaluated(row.checks[m])
    BY <1>1, <1>4 DEF RowComplete, ChecksComplete
  <2> QED BY <2>3, <2>4 DEF ResultPassed, ChecksPassed
<1>5. row.passed <=> RowPassed(row, plan)
  BY <1>3, <1>4 DEF RowPassed, ConcludedAs
<1>6. row.passed \in BOOLEAN /\ RowPassed(row, plan) \in BOOLEAN
  BY DEF RowPassed, ConcludedAs
<1> QED BY <1>3, <1>5, <1>6

TrialFields == {"at", "scenario", "steps", "calls", "final", "error"}

\* The first n turns were answered and checked.
AnsweredTurns(turns, scenario, n) ==
    \A i \in 1..n : \E r \in Responses : turns[i] = AnsweredStep(scenario.conversation[i], i - 1, r)

\* A dialogue that is going on or answered to its end, and one interrupted.
Going(held) ==
    /\ AnsweredTurns(held.steps, held.scenario, Len(held.steps))
    /\ held.final = <<>> /\ held.error = ""

Broken(held) ==
    LET n == Len(held.steps) IN
    /\ n # 0
    /\ AnsweredTurns(held.steps, held.scenario, n - 1)
    /\ held.steps[n] = ErrorStep(n - 1, held.scenario.conversation[n].user, held.error)
    /\ held.final = <<ExecutionFailed(n)>>

\* A scenario on its way.
IsTrial(held) == held = [field \in TrialFields |-> held[field]]

TrialOk(held) ==
    LET turns == Len(held.scenario.conversation) IN
    /\ IsTrial(held)
    /\ held.at \in {"setup", "dialogue", "ending"}
    /\ IsSequence(held.steps) /\ Len(held.steps) <= turns
    /\ held.at = "ending" => held.steps # <<>>
    /\ held.at # "ending" => Going(held)
    /\ held.at = "setup" => held.steps = <<>>
    /\ held.at = "dialogue" => Len(held.steps) < turns
    /\ held.at = "ending" => Broken(held) \/ (Going(held) /\ Len(held.steps) = turns)
    /\ held.calls = CallsOf(held.steps)

\* Every result is what the reader takes for one.
RunnerInv ==
    /\ IsSequence(results) /\ Len(results) <= Len(Batch)
    /\ \A i \in 1..Len(results) : HonestRow(results[i], Batch[i], <<>>)
    /\ IF Len(results) = Len(Batch) THEN trial = Idle
       ELSE TrialOk(trial) /\ trial.scenario = Batch[Len(results) + 1]

LEMMA TurnsCounted ==
    ASSUME NEW plan, ValidScenario(plan)
    PROVE  /\ Len(plan.conversation) \in Nat \ {0}
           /\ \A i \in 1..Len(plan.conversation) : plan.conversation[i].user # ""
<1>1. IsSequence(plan.conversation) /\ plan.conversation # <<>>
  BY DEF ValidScenario
<1>2. Len(plan.conversation) \in Nat \ {0} /\ DOMAIN plan.conversation = 1..Len(plan.conversation)
  BY <1>1, SequenceOfItems, EmptySeq
<1> QED BY <1>2 DEF ValidScenario

LEMMA PreparedOk ==
    ASSUME NEW plan, ValidScenario(plan)
    PROVE  TrialOk(Prepared(plan)) /\ Prepared(plan).scenario = plan
<1> DEFINE held == Prepared(plan)
<1>1. /\ held.at = "setup" /\ held.scenario = plan /\ held.steps = <<>> /\ held.calls = <<>>
      /\ held.final = <<>> /\ held.error = ""
      /\ IsTrial(held)
  BY DEF Prepared, TrialFields, IsTrial
<1>2. Len(plan.conversation) \in Nat \ {0}
  BY TurnsCounted
<1> HIDE DEF held
<1>3. Going(held)
  <2>1. Len(held.steps) = 0
    BY <1>1, NoItems
  <2>2. AnsweredTurns(held.steps, held.scenario, 0)
    BY DEF AnsweredTurns
  <2> QED BY <1>1, <2>1, <2>2 DEF Going
<1>4. TrialOk(held)
  <2>1. Len(held.steps) = 0 /\ IsSequence(held.steps) /\ held.calls = CallsOf(held.steps)
    BY <1>1, NoItems, CallsNone
  <2>2. Len(held.steps) <= Len(held.scenario.conversation)
    <3>1. held.scenario = plan
      BY <1>1
    <3> QED BY <1>2, <2>1, <3>1
  <2>3. held.at \in {"setup", "dialogue", "ending"} /\ held.at # "dialogue" /\ held.at # "ending"
    BY <1>1
  <2> QED BY <1>1, <1>3, <2>1, <2>2, <2>3 DEF TrialOk
<1> QED BY <1>1, <1>4 DEF held

\* What the runner keeps of the dialogue while it is sent.
LEMMA AnsweredReadable ==
    ASSUME NEW turns, IsSequence(turns), NEW plan, AnsweredTurns(turns, plan, Len(turns))
    PROVE  /\ \A i \in DOMAIN turns :
                 /\ WrittenStep(turns[i])
                 /\ Declared(turns[i].response) /\ ValidResponse(Content(turns[i].response))
                 /\ turns[i].status # "error" /\ turns[i].error = ""
                 /\ StepAgrees(turns[i], plan.conversation[i], i, turns)
           /\ IsSequence(CallsOf(turns))
<1>1. DOMAIN turns = 1..Len(turns) /\ Len(turns) \in Nat
  BY SequenceOfItems
<1>2. ASSUME NEW i \in 1..Len(turns)
      PROVE  /\ WrittenStep(turns[i])
             /\ Declared(turns[i].response) /\ ValidResponse(Content(turns[i].response))
             /\ turns[i].status # "error" /\ turns[i].error = ""
             /\ StepAgrees(turns[i], plan.conversation[i], i, turns)
  <2>1. PICK r \in Responses : turns[i] = AnsweredStep(plan.conversation[i], i - 1, r)
    BY DEF AnsweredTurns
  <2>2. ValidResponse(r) /\ i \in Nat \ {0}
    BY <1>1, ScenarioAssumption
  <2>3. AnsweredAs(AnsweredStep(plan.conversation[i], i - 1, r), plan.conversation[i], i, turns, r)
    BY <2>2, AnsweredAccepted
  <2> QED BY <2>1, <2>2, <2>3 DEF AnsweredAs
<1>3. IsSequence(CallsOf(turns))
  BY <1>1, <1>2, CallsListed
<1> QED BY <1>1, <1>2, <1>3

\* The dialogue after a response, and after an exception.
Sent(held, r) ==
    [held EXCEPT !.at = IF Len(held.steps) + 1 = Len(held.scenario.conversation)
                        THEN "ending" ELSE @,
                 !.steps = Append(@, AnsweredStep(held.scenario.conversation[Len(held.steps) + 1],
                                                  Len(@), r)),
                 !.calls = CallsSoFar(@, r)]

Unsent(held, error) ==
    [held EXCEPT !.at = "ending",
                 !.steps = Append(@, ErrorStep(Len(@),
                               held.scenario.conversation[Len(held.steps) + 1].user, error)),
                 !.final = <<ExecutionFailed(Len(held.steps) + 1)>>,
                 !.error = error]

LEMMA SentReturns ==
    ASSUME NEW held, TrialOk(held), held.at = "dialogue", ValidScenario(held.scenario),
           NEW r \in Responses, NEW next, next = Sent(held, r)
    PROVE  TrialOk(next) /\ next.scenario = held.scenario
<1> DEFINE n == Len(held.steps)
           plan == held.scenario
           turns == Len(plan.conversation)
           step == AnsweredStep(plan.conversation[n + 1], n, r)
           more == Append(held.steps, step)
           calls == CallsSoFar(held.calls, r)
           at == IF n + 1 = turns THEN "ending" ELSE held.at
<1>1. /\ IsTrial(held)
      /\ IsSequence(held.steps) /\ n < turns /\ n \in Nat /\ turns \in Nat
      /\ Going(held) /\ held.calls = CallsOf(held.steps)
  BY TurnsCounted DEF TrialOk, IsSequence
<1>2. next = [held EXCEPT !.at = at, !.steps = more, !.calls = calls]
  BY DEF Sent
<1>3. /\ IsSequence(more) /\ Len(more) = n + 1 /\ more[n + 1] = step
      /\ \A i \in 1..n : more[i] = held.steps[i]
  BY <1>1, Appended
<1>4. /\ ValidResponse(r) /\ step.response = <<r>>
      /\ Declared(step.response) /\ Content(step.response) = r
  BY ScenarioAssumption DEF AnsweredStep, Declared, Content
<1>5. calls = CallsOf(more)
  BY <1>1, <1>4, CallsAppended DEF CallsSoFar
<1>6. \A i \in 1..n : \E x \in Responses : held.steps[i] = AnsweredStep(plan.conversation[i], i - 1, x)
  BY <1>1 DEF Going, AnsweredTurns
<1>7. AnsweredTurns(more, plan, n + 1)
  <2> SUFFICES ASSUME NEW i \in 1..(n + 1)
               PROVE  \E x \in Responses : more[i] = AnsweredStep(plan.conversation[i], i - 1, x)
    BY DEF AnsweredTurns
  <2>1. CASE i = n + 1
    <3>1. (n + 1) - 1 = n
      BY <1>1
    <3>2. more[i] = AnsweredStep(plan.conversation[i], i - 1, r)
      BY <1>3, <2>1, <3>1
    <3> QED BY <3>2
  <2>2. CASE i # n + 1
    <3>1. i \in 1..n
      BY <1>1, <2>2
    <3> QED BY <1>3, <1>6, <3>1
  <2> QED BY <2>1, <2>2
<1> HIDE DEF more, calls, at, step
<1>8. /\ next.at = at /\ next.steps = more /\ next.calls = calls
      /\ next.scenario = plan /\ next.final = held.final /\ next.error = held.error
      /\ IsTrial(next)
  BY <1>1, <1>2 DEF TrialFields, IsTrial
<1>9. Going(next)
  BY <1>1, <1>3, <1>7, <1>8 DEF Going
<1>10. more # <<>>
  BY <1>1, <1>3, EmptySeq
<1>11. IF n + 1 = turns THEN at = "ending" ELSE at = "dialogue"
  BY DEF at
<1>12. TrialOk(next)
  <2>1. n + 1 <= turns /\ (n + 1 # turns => n + 1 < turns)
    BY <1>1
  <2> HIDE DEF n, turns
  <2>2. /\ next.at \in {"setup", "dialogue", "ending"}
        /\ next.at = "ending" => Len(next.steps) = Len(next.scenario.conversation)
        /\ next.at = "dialogue" => Len(next.steps) < Len(next.scenario.conversation)
        /\ next.at # "setup"
        /\ Len(next.steps) <= Len(next.scenario.conversation)
    BY <1>3, <1>8, <1>11, <2>1 DEF turns
  <2> QED BY <1>3, <1>5, <1>8, <1>9, <1>10, <2>2 DEF TrialOk
<1> QED BY <1>8, <1>12

LEMMA SentRaises ==
    ASSUME NEW held, TrialOk(held), held.at = "dialogue", ValidScenario(held.scenario),
           NEW error, NEW next, next = Unsent(held, error)
    PROVE  TrialOk(next) /\ next.scenario = held.scenario
<1> DEFINE n == Len(held.steps)
           plan == held.scenario
           turns == Len(plan.conversation)
           step == ErrorStep(n, plan.conversation[n + 1].user, error)
           more == Append(held.steps, step)
           final == <<ExecutionFailed(n + 1)>>
<1>1. /\ IsTrial(held)
      /\ IsSequence(held.steps) /\ n < turns /\ n \in Nat /\ turns \in Nat
      /\ Going(held) /\ held.calls = CallsOf(held.steps)
  BY TurnsCounted DEF TrialOk, IsSequence
<1>2. next = [held EXCEPT !.at = "ending", !.steps = more, !.final = final, !.error = error]
  BY DEF Unsent
<1>3. /\ IsSequence(more) /\ Len(more) = n + 1 /\ more[n + 1] = step
      /\ \A i \in 1..n : more[i] = held.steps[i]
  BY <1>1, Appended
<1>4. ~Declared(step.response)
  BY DEF ErrorStep, Declared
<1>5. CallsOf(more) = held.calls
  <2>1. IsSequence(CallsOf(held.steps))
    BY <1>1, AnsweredReadable DEF Going
  <2>2. CallsOf(more) = CallsOf(held.steps) \o <<>>
    BY <1>1, <1>4, CallsAppended
  <2> QED BY <1>1, <2>1, <2>2, JoinedWithNone
<1>6. \A i \in 1..n : \E x \in Responses : held.steps[i] = AnsweredStep(plan.conversation[i], i - 1, x)
  BY <1>1 DEF Going, AnsweredTurns
<1>7. AnsweredTurns(more, plan, n)
  BY <1>3, <1>6 DEF AnsweredTurns
<1>8. (n + 1) - 1 = n /\ n + 1 # 0
  BY <1>1
<1> HIDE DEF more, final
<1>9. /\ next.at = "ending" /\ next.steps = more /\ next.calls = held.calls
      /\ next.scenario = plan /\ next.final = final /\ next.error = error
      /\ IsTrial(next)
  BY <1>1, <1>2 DEF TrialFields, IsTrial
<1>10. Broken(next)
  BY <1>3, <1>7, <1>8, <1>9 DEF Broken, final
<1>11. more # <<>>
  BY <1>1, <1>3, EmptySeq
<1>12. TrialOk(next)
  <2>1. n + 1 <= turns
    BY <1>1
  <2>2. Len(next.steps) <= Len(next.scenario.conversation)
    BY <1>3, <1>9, <2>1
  <2> QED BY <1>3, <1>5, <1>9, <1>10, <1>11, <2>2 DEF TrialOk
<1> QED BY <1>9, <1>12

LEMMA Readied ==
    ASSUME NEW held, TrialOk(held), held.at = "setup", ValidScenario(held.scenario),
           NEW next, next = [held EXCEPT !.at = "dialogue"]
    PROVE  TrialOk(next) /\ next.scenario = held.scenario
<1>1. /\ IsTrial(held)
      /\ IsSequence(held.steps) /\ held.steps = <<>> /\ Going(held)
      /\ held.calls = CallsOf(held.steps)
  BY DEF TrialOk
<1>2. /\ next.at = "dialogue" /\ next.scenario = held.scenario /\ next.steps = held.steps
      /\ next.calls = held.calls /\ next.final = held.final /\ next.error = held.error
      /\ IsTrial(next)
  BY <1>1 DEF TrialFields, IsTrial
<1>3. Len(held.steps) = 0 /\ Len(held.scenario.conversation) \in Nat \ {0}
  BY <1>1, NoItems, TurnsCounted
<1>4. Going(next)
  BY <1>1, <1>2 DEF Going
<1>5. Len(next.steps) < Len(next.scenario.conversation)
  BY <1>2, <1>3, <1>1
<1>6. Len(next.steps) <= Len(next.scenario.conversation)
  BY <1>2, <1>3, <1>1
<1> QED BY <1>1, <1>2, <1>4, <1>5, <1>6 DEF TrialOk

\* A result of the synchronous runner with its conclusions.
ResultAs(row, plan, turns, final, checks) ==
    /\ row.id = plan.id /\ row.steps = turns /\ row.final = final /\ row.checks = checks
    /\ row.execution = <<>>
    /\ ConcludedAs(row, plan)
    /\ RowShaped(row)

LEMMA ResultFields ==
    ASSUME NEW plan, NEW turns, NEW final, NEW checks
    PROVE  ResultAs(ResultOf(plan, turns, final, checks), plan, turns, final, checks)
BY DEF ResultOf, ResultAs, RowFields, RowShaped, ConcludedAs, ResultComplete, ExecutionSettled

\* What makes a row of a synchronous result, or of an asynchronous one, honest.
LEMMA RowAssembled ==
    ASSUME NEW row, NEW plan, NEW policy,
           RowShaped(row), row.id = plan.id,
           IsSequence(row.steps), Len(row.steps) \in 1..Len(plan.conversation),
           \A i \in 1..Len(row.steps) :
               /\ WrittenStep(row.steps[i])
               /\ Declared(row.steps[i].response) => ValidResponse(Content(row.steps[i].response))
               /\ StepAgrees(row.steps[i], plan.conversation[i], i, row.steps),
           ExecutionAccepted(row.execution, policy, row.steps),
           EndAccepted(row, plan), ReportedFinal(row) = FinalResults(plan, row.steps),
           ChecksAccepted(row.checks, plan.metrics), JudgedAccepted(row, plan), ConcludedAs(row, plan)
    PROVE  HonestRow(row, plan, policy)
<1>1. DOMAIN row.steps = 1..Len(row.steps)
  BY SequenceOfItems
<1>2. row.steps # <<>>
  BY EmptySeq
<1>3. row.complete = RowComplete(row, plan) /\ row.passed = RowPassed(row, plan)
  BY <1>2, ConclusionsAgree
<1>4. RowAgrees(row, plan, policy)
  BY <1>1, <1>3 DEF RowAgrees
<1>5. ReadableRow(row)
  BY <1>1 DEF ReadableRow
<1>6. WrittenRow(row)
  BY <1>1, <1>5 DEF WrittenRow
<1> QED BY <1>4, <1>6 DEF HonestRow

\* No adapter: one step without a user.
LEMMA FailedIsHonest ==
    ASSUME NEW plan, ValidScenario(plan), NEW error
    PROVE  HonestRow(ResultOf(plan, <<ErrorStep(0, "", error)>>, <<ExecutionFailed(0)>>,
                              Pending(plan.metrics, "not_executed", "execution_incomplete")),
                     plan, <<>>)
<1> DEFINE step == ErrorStep(0, "", error)
           turns == <<step>>
           final == <<ExecutionFailed(0)>>
           checks == Pending(plan.metrics, "not_executed", "execution_incomplete")
           row == ResultOf(plan, turns, final, checks)
<1>1. /\ IsSequence(turns) /\ Len(turns) = 1 /\ turns[1] = step /\ DOMAIN turns = 1..1
      /\ final # <<>> /\ final[1] = ExecutionFailed(0) /\ Tail(final) = <<>>
  <2>1. /\ IsSequence(turns) /\ Len(turns) = 1 /\ turns[1] = step /\ DOMAIN turns = 1..1
    BY OneItem
  <2>2. /\ IsSequence(final) /\ IsSequence(<<>>)
    BY OneItem, NoItems
  <2>3. final \o <<>> = final
    BY <2>2, JoinedWithNone
  <2>4. final \o <<>> # <<>> /\ (final \o <<>>)[1] = ExecutionFailed(0) /\ Tail(final \o <<>>) = <<>>
    BY <2>2, BehindFirst
  <2> QED BY <2>1, <2>3, <2>4
<1>2. UnansweredAs(step, plan.conversation[1], 1, turns, "", error)
  <2> HIDE DEF turns
  <2>1. 0 = 1 - 1 /\ 1 \in Nat \ {0}
    OBVIOUS
  <2>2. 1 = Len(turns)
    BY <1>1
  <2> QED BY <2>1, <2>2, ErrorAccepted
<1>3. ChecksAccepted(checks, plan.metrics) /\ \A m \in DOMAIN checks : checks[m].status = "not_executed"
  <2>1. "not_executed" \in CheckStatus \ Concluded
    BY DEF CheckStatus, Concluded
  <2> QED BY <2>1, PendingAccepted
<1>4. ExecutionFailed(0).type = "execution" /\ ~ExecutionFailed(0).passed
  BY DEF ExecutionFailed, Result
<1>5. /\ row.id = plan.id /\ row.steps = turns /\ row.final = final /\ row.checks = checks
      /\ row.execution = <<>>
      /\ ConcludedAs(row, plan) /\ RowShaped(row)
  BY ResultFields DEF ResultAs
<1>6. Len(plan.conversation) \in Nat \ {0}
  BY TurnsCounted
<1>7. Last(turns) = step /\ step.status = "error" /\ step.user = ""
  BY <1>1, <1>2 DEF Last, UnansweredAs
<1> HIDE DEF row, final, checks, step, turns
<1>8. EndAccepted(row, plan)
  BY <1>1, <1>4, <1>5, <1>7 DEF EndAccepted
<1>9. ReportedFinal(row) = FinalResults(plan, row.steps)
  BY <1>1, <1>5, <1>7 DEF ReportedFinal, FinalResults, AdapterFailed
<1>10. JudgedAccepted(row, plan)
  <2>1. 1 \in DOMAIN turns /\ turns[1].status = "error"
    <3>1. 1 \in 1..1
      OBVIOUS
    <3>2. DOMAIN turns = 1..1 /\ turns[1] = step
      BY <1>1
    <3> QED BY <1>7, <3>1, <3>2
  <2>2. ~StepsDone(row.steps, Len(plan.conversation))
    BY <1>5, <2>1 DEF StepsDone
  <2> QED BY <1>3, <1>5, <2>2 DEF JudgedAccepted
<1>11. ExecutionAccepted(row.execution, <<>>, row.steps)
  BY <1>5 DEF ExecutionAccepted
<1>12. \A i \in 1..Len(row.steps) :
          /\ WrittenStep(row.steps[i])
          /\ Declared(row.steps[i].response) => ValidResponse(Content(row.steps[i].response))
          /\ StepAgrees(row.steps[i], plan.conversation[i], i, row.steps)
  <2>1. \A i \in 1..1 : i = 1
    OBVIOUS
  <2> QED BY <1>1, <1>2, <1>5, <2>1 DEF UnansweredAs
<1>13. IsSequence(row.steps) /\ Len(row.steps) \in 1..Len(plan.conversation)
  <2>1. 1 \in 1..Len(plan.conversation)
    BY <1>6
  <2> QED BY <1>1, <1>5, <2>1
<1>14. HonestRow(row, plan, <<>>)
  BY <1>3, <1>5, <1>8, <1>9, <1>10, <1>11, <1>12, <1>13, RowAssembled
<1> QED BY <1>14 DEF row, final, checks, step, turns

\* The end of run().
LEMMA ConcludedIsHonest ==
    ASSUME NEW held, TrialOk(held), held.at = "ending", ValidScenario(held.scenario),
           NEW answer \in Answers
    PROVE  LET plan     == held.scenario
               response == Last(held.steps).response
               final    == held.final \o CheckExpectation(plan.expect, response, held.calls, held.error)
               checks   == FinalChecks(plan.metrics, response, held.error, answer)
           IN  HonestRow(ResultOf(plan, held.steps, final, checks), plan, <<>>)
<1> DEFINE plan == held.scenario
           turns == held.steps
           n == Len(turns)
           last == Last(turns)
           given == CheckExpectation(plan.expect, last.response, held.calls, held.error)
           final == held.final \o given
           checks == FinalChecks(plan.metrics, last.response, held.error, answer)
           row == ResultOf(plan, turns, final, checks)
<1>1. /\ IsSequence(turns) /\ n <= Len(plan.conversation) /\ turns # <<>>
      /\ Broken(held) \/ (Going(held) /\ n = Len(plan.conversation))
      /\ held.calls = CallsOf(turns)
  BY DEF TrialOk
<1>2. /\ n \in Nat \ {0} /\ n \in 1..Len(plan.conversation) /\ DOMAIN turns = 1..n
      /\ last = turns[n]
  <2>1. n \in Nat /\ DOMAIN turns = 1..n
    BY <1>1, SequenceOfItems
  <2>2. n # 0
    <3>1. turns \in Seq(ItemsOf(turns))
      BY <1>1, SequenceOfItems
    <3> QED BY <1>1, <3>1, EmptySeq
  <2>3. Len(plan.conversation) \in Nat
    BY TurnsCounted
  <2> QED BY <1>1, <2>1, <2>2, <2>3 DEF Last
<1>3. /\ ChecksAccepted(checks, plan.metrics)
      /\ held.error # "" \/ ~Declared(last.response) =>
             \A m \in DOMAIN checks : checks[m].status = "not_executed"
      /\ \/ HasContext(Content(last.response))
         \/ \A m \in DOMAIN checks \cap Grounded : checks[m].status \notin Concluded
  <2>1. ValidDeclaration(plan.metrics)
    BY DEF ValidScenario
  <2> HIDE DEF plan, last
  <2> QED BY <2>1, FinalChecksAccepted
<1>4. /\ row.id = plan.id /\ row.steps = turns /\ row.final = final /\ row.checks = checks
      /\ row.execution = <<>>
      /\ ConcludedAs(row, plan) /\ RowShaped(row)
  <2> HIDE DEF plan, turns, final, checks
  <2>1. ResultAs(row, plan, turns, final, checks)
    BY ResultFields
  <2> HIDE DEF row
  <2> QED BY <2>1 DEF ResultAs
<1>5. ExecutionAccepted(row.execution, <<>>, row.steps)
  BY <1>4 DEF ExecutionAccepted
<1> HIDE DEF row, checks, final, last, given
<1>6. \A i \in 1..n : /\ WrittenStep(turns[i])
                      /\ Declared(turns[i].response) => ValidResponse(Content(turns[i].response))
                      /\ StepAgrees(turns[i], plan.conversation[i], i, turns)
  <2>1. CASE Going(held)
    BY <1>1, <1>2, <2>1, AnsweredReadable DEF Going
  <2>2. CASE Broken(held)
    <3> SUFFICES ASSUME NEW i \in 1..n
                 PROVE  /\ WrittenStep(turns[i])
                        /\ Declared(turns[i].response) => ValidResponse(Content(turns[i].response))
                        /\ StepAgrees(turns[i], plan.conversation[i], i, turns)
      OBVIOUS
    <3> DEFINE k == i - 1
    <3>1. CASE i = n
      <4>1. turns[i] = ErrorStep(k, plan.conversation[i].user, held.error)
        BY <2>2, <3>1 DEF Broken
      <4>2. UnansweredAs(ErrorStep(k, plan.conversation[i].user, held.error), plan.conversation[i],
                         i, turns, plan.conversation[i].user, held.error)
        BY <1>2, <3>1, ErrorAccepted
      <4> QED BY <4>1, <4>2 DEF UnansweredAs
    <3>2. CASE i # n
      <4>1. i \in 1..(n - 1) /\ i \in Nat \ {0}
        BY <1>2, <3>2
      <4>2. PICK r \in Responses : turns[i] = AnsweredStep(plan.conversation[i], k, r)
        BY <2>2, <4>1 DEF Broken, AnsweredTurns
      <4>3. ValidResponse(r)
        BY ScenarioAssumption
      <4>4. AnsweredAs(AnsweredStep(plan.conversation[i], k, r), plan.conversation[i], i, turns, r)
        BY <4>1, <4>3, AnsweredAccepted
      <4> QED BY <4>2, <4>3, <4>4 DEF AnsweredAs
    <3> QED BY <3>1, <3>2
  <2> QED BY <1>1, <2>1, <2>2
<1>7. IsSequence(CallsOf(turns)) /\ IsSequence(given)
  <2>1. IsSequence(CallsOf(turns))
    BY <1>1, <1>2, <1>6, CallsListed
  <2>2. ValidExpectation(plan.expect)
    BY DEF ValidScenario
  <2>3. ResultList(given)
    BY <1>1, <2>1, <2>2, PassedSatisfies DEF given
  <2> QED BY <2>1, <2>3 DEF ResultList
<1>8. CASE Going(held) /\ n = Len(plan.conversation)
  <2>1. \A i \in 1..n : turns[i].status # "error" /\ turns[i].error = "" /\ Declared(turns[i].response)
    BY <1>1, <1>2, <1>8, AnsweredReadable DEF Going
  <2>2. /\ last.status # "error" /\ last.error = "" /\ Declared(last.response)
        /\ held.error = "" /\ held.final = <<>>
    BY <1>2, <1>8, <2>1 DEF Going
  <2>3. final = given
    BY <1>7, <2>2, JoinedWithNone DEF final
  <2>4. StepsDone(row.steps, Len(plan.conversation))
    BY <1>2, <1>4, <1>8, <2>1 DEF StepsDone
  <2>5. EndAccepted(row, plan)
    BY <1>4, <2>2, <2>4 DEF EndAccepted, last
  <2>6. ~AdapterFailed(turns)
    <3>1. ASSUME n = 1 PROVE turns[1].status # "error"
      <4>1. n \in 1..n
        BY <1>2
      <4>2. turns[n].status # "error"
        BY <2>1, <4>1
      <4> QED BY <3>1, <4>2
    <3> QED BY <3>1 DEF AdapterFailed
  <2>7. ReportedFinal(row) = FinalResults(plan, row.steps)
    BY <1>1, <1>4, <2>2, <2>3, <2>6 DEF ReportedFinal, FinalResults, last, given
  <2>8. JudgedAccepted(row, plan)
    BY <1>3, <1>4, <2>4 DEF JudgedAccepted, last
  <2> QED BY <1>1, <1>2, <1>3, <1>4, <1>5, <1>6, <2>5, <2>7, <2>8, RowAssembled
             DEF row, checks, final, last, given
<1>9. CASE Broken(held)
  <2>1. /\ last.status = "error" /\ last.error = held.error /\ last.response = <<>>
        /\ last.user # "" /\ ~Declared(last.response)
        /\ held.final = <<ExecutionFailed(n)>>
    <3>1. last = ErrorStep(n - 1, plan.conversation[n].user, held.error)
      BY <1>2, <1>9 DEF Broken
    <3>2. plan.conversation[n].user # ""
      BY <1>2, TurnsCounted
    <3> QED BY <1>9, <3>1, <3>2 DEF Broken, ErrorStep, Declared
  <2>2. /\ final # <<>> /\ final[1] = ExecutionFailed(n) /\ Tail(final) = given
    <3> DEFINE x == ExecutionFailed(n)
    <3>1. final = <<x>> \o given
      BY <2>1 DEF final
    <3> HIDE DEF x
    <3>2. <<x>> \o given # <<>> /\ (<<x>> \o given)[1] = x /\ Tail(<<x>> \o given) = given
      BY <1>7, BehindFirst
    <3> QED BY <3>1, <3>2 DEF x
  <2>3. ExecutionFailed(n).type = "execution" /\ ~ExecutionFailed(n).passed
    BY DEF ExecutionFailed, Result
  <2>4. ~StepsDone(row.steps, Len(plan.conversation))
    BY <1>2, <1>4, <2>1 DEF StepsDone
  <2>5. EndAccepted(row, plan)
    BY <1>4, <2>1, <2>2, <2>3 DEF EndAccepted, last
  <2>6. ~AdapterFailed(turns)
    <3>1. ASSUME n = 1 PROVE turns[1].user # ""
      BY <1>2, <2>1, <3>1
    <3> QED BY <3>1 DEF AdapterFailed
  <2>7. ReportedFinal(row) = FinalResults(plan, row.steps)
    BY <1>1, <1>4, <2>1, <2>2, <2>6 DEF ReportedFinal, FinalResults, last, given
  <2>8. JudgedAccepted(row, plan)
    BY <1>3, <1>4, <2>1, <2>4 DEF JudgedAccepted
  <2> QED BY <1>1, <1>2, <1>3, <1>4, <1>5, <1>6, <2>5, <2>7, <2>8, RowAssembled
             DEF row, checks, final, last, given
<1> QED BY <1>1, <1>8, <1>9

LEMMA BatchListed ==
    /\ IsSequence(Batch) /\ Len(Batch) \in Nat \ {0}
    /\ \A i \in 1..Len(Batch) : ValidScenario(Batch[i])
    /\ Manifest = Frozen(Batch, <<>>)
<1>1. IsSequence(Batch) /\ \A i \in DOMAIN Batch : ValidScenario(Batch[i])
  BY ScenarioAssumption
<1>2. Batch # <<>>
  BY FrozenAssumption DEF Freezable
<1>3. DOMAIN Batch = 1..Len(Batch) /\ Len(Batch) \in Nat
  BY <1>1, SequenceOfItems
<1>4. Len(Batch) # 0
  <2>1. Batch \in Seq(ItemsOf(Batch))
    BY <1>1, SequenceOfItems
  <2> QED BY <1>2, <2>1, EmptySeq
<1>5. Manifest = Frozen(Batch, <<>>)
  BY <1>2 DEF Manifest, V1Manifest, Content
<1> QED BY <1>1, <1>3, <1>4, <1>5

LEMMA RunnerStarts == RunnerInit => RunnerInv
<1> SUFFICES ASSUME RunnerInit PROVE RunnerInv
  OBVIOUS
<1>1. results = <<>> /\ trial = Upcoming(<<>>)
  BY DEF RunnerInit
<1>2. IsSequence(<<>>) /\ Len(<<>>) = 0
  BY NoItems
<1>3. Len(Batch) \in Nat \ {0}
  BY BatchListed
<1>4. trial = Prepared(Batch[1])
  <2>1. Upcoming(<<>>) = Prepared(Batch[0 + 1])
    BY <1>2, <1>3 DEF Upcoming
  <2> QED BY <1>1, <2>1
<1>5. 1 \in 1..Len(Batch)
  BY <1>3
<1>6. TrialOk(Prepared(Batch[1])) /\ Prepared(Batch[1]).scenario = Batch[1]
  BY <1>5, BatchListed, PreparedOk
<1>7. Len(results) = 0 /\ IsSequence(results) /\ Len(results) + 1 = 1 /\ Len(results) # Len(Batch)
  BY <1>1, <1>2, <1>3
<1>8. \A i \in 1..Len(results) : HonestRow(results[i], Batch[i], <<>>)
  BY <1>7
<1>9. Len(results) <= Len(Batch)
  BY <1>3, <1>7
<1> QED BY <1>4, <1>6, <1>7, <1>8, <1>9 DEF RunnerInv

\* A result that is an honest row is returned.
LEMMA Returns ==
    ASSUME RunnerInv, Len(results) # Len(Batch), NEW row,
           HonestRow(row, Batch[Len(results) + 1], <<>>), Return(row)
    PROVE  RunnerInv'
<1> DEFINE n == Len(results)
           more == Append(results, row)
<1>1. /\ IsSequence(results) /\ n \in Nat /\ n <= Len(Batch)
      /\ \A i \in 1..n : HonestRow(results[i], Batch[i], <<>>)
  BY DEF RunnerInv, IsSequence
<1>2. Len(Batch) \in Nat \ {0}
  BY BatchListed
<1>3. n < Len(Batch)
  BY <1>1, <1>2
<1>4. results' = more /\ trial' = Upcoming(more)
  BY DEF Return
<1>5. /\ IsSequence(more) /\ Len(more) = n + 1
      /\ \A i \in 1..n : more[i] = results[i]
      /\ more[n + 1] = row
  <2>1. PICK list : list = results
    OBVIOUS
  <2>2. /\ IsSequence(Append(list, row)) /\ Len(Append(list, row)) = Len(list) + 1
        /\ \A i \in 1..Len(list) : Append(list, row)[i] = list[i]
        /\ Append(list, row)[Len(list) + 1] = row
    BY <1>1, <2>1, Appended
  <2> QED BY <2>1, <2>2
<1> HIDE DEF more
<1>6. ASSUME NEW i \in 1..(n + 1) PROVE HonestRow(more[i], Batch[i], <<>>)
  <2>1. CASE i = n + 1
    BY <1>5, <2>1
  <2>2. CASE i # n + 1
    <3>1. i \in 1..n
      BY <1>1, <2>2
    <3> QED BY <1>1, <1>5, <3>1
  <2> QED BY <2>1, <2>2
<1>7. CASE n + 1 = Len(Batch)
  <2>1. Upcoming(more) = Idle
    BY <1>2, <1>5, <1>7 DEF Upcoming
  <2> QED BY <1>4, <1>5, <1>6, <1>7, <1>2, <2>1 DEF RunnerInv
<1>8. CASE n + 1 # Len(Batch)
  <2>1. n + 1 < Len(Batch) /\ n + 1 <= Len(Batch) /\ (n + 1) + 1 \in 1..Len(Batch)
    BY <1>1, <1>2, <1>3, <1>8
  <2>2. Upcoming(more) = Prepared(Batch[(n + 1) + 1])
    BY <1>5, <2>1 DEF Upcoming
  <2>3. PICK plan : plan = Batch[(n + 1) + 1]
    OBVIOUS
  <2>4. ValidScenario(plan)
    BY <2>1, <2>3, BatchListed
  <2>5. TrialOk(Prepared(plan)) /\ Prepared(plan).scenario = plan
    BY <2>4, PreparedOk
  <2>6. trial' = Prepared(plan)
    BY <1>4, <2>2, <2>3
  <2>7. TrialOk(trial)' /\ trial'.scenario = Batch[Len(results') + 1]
    <3>1. PICK next : next = trial'
      OBVIOUS
    <3>2. TrialOk(next) /\ next.scenario = plan
      BY <2>5, <2>6, <3>1
    <3> QED BY <1>4, <1>5, <2>3, <3>1, <3>2 DEF TrialOk, Going, Broken, AnsweredTurns, IsTrial
  <2> QED BY <1>4, <1>5, <1>6, <1>8, <2>1, <2>7 DEF RunnerInv
<1> QED BY <1>7, <1>8

LEMMA TrialHeld ==
    ASSUME RunnerInv, trial.at # "idle"
    PROVE  /\ Len(results) # Len(Batch) /\ TrialOk(trial)
           /\ trial.scenario = Batch[Len(results) + 1] /\ ValidScenario(trial.scenario)
<1>1. Len(results) # Len(Batch)
  BY DEF RunnerInv, Idle
<1>2. TrialOk(trial) /\ trial.scenario = Batch[Len(results) + 1]
  BY <1>1 DEF RunnerInv
<1>3. Len(results) \in Nat /\ Len(results) <= Len(Batch) /\ Len(Batch) \in Nat
  BY BatchListed DEF RunnerInv, IsSequence
<1>4. Len(results) + 1 \in 1..Len(Batch)
  BY <1>1, <1>3
<1>5. ValidScenario(Batch[Len(results) + 1])
  BY <1>4, BatchListed
<1> QED BY <1>1, <1>2, <1>5

\* The scenario is moved on.
LEMMA TrialMoves ==
    ASSUME RunnerInv, trial.at # "idle", UNCHANGED results,
           NEW next, trial' = next, TrialOk(next), next.scenario = trial.scenario
    PROVE  RunnerInv'
<1>1. /\ Len(results) # Len(Batch) /\ trial.scenario = Batch[Len(results) + 1]
      /\ IsSequence(results) /\ Len(results) <= Len(Batch)
      /\ \A i \in 1..Len(results) : HonestRow(results[i], Batch[i], <<>>)
  BY TrialHeld DEF RunnerInv
<1>2. TrialOk(trial)'
  BY DEF TrialOk, Going, Broken, AnsweredTurns, IsTrial
<1>3. trial'.scenario = Batch[Len(results') + 1] /\ results' = results
  BY <1>1
<1> QED BY <1>1, <1>2, <1>3 DEF RunnerInv

LEMMA BatchMoves ==
    ASSUME RunnerInv, [RunnerNext]_runnerVars
    PROVE  RunnerInv'
<1>1. CASE UNCHANGED runnerVars
  BY <1>1 DEF RunnerInv, runnerVars, TrialOk, Going, Broken, AnsweredTurns, IsTrial
<1>2. ASSUME NEW error \in ErrorTexts, FactoryFails(error) PROVE RunnerInv'
  <2>1. trial.at = "setup"
    BY <1>2 DEF FactoryFails
  <2>2. /\ Len(results) # Len(Batch) /\ TrialOk(trial)
        /\ trial.scenario = Batch[Len(results) + 1] /\ ValidScenario(trial.scenario)
    BY <2>1, TrialHeld
  <2>3. PICK plan : plan = trial.scenario
    OBVIOUS
  <2>4. PICK row : row = ResultOf(plan, <<ErrorStep(0, "", error)>>, <<ExecutionFailed(0)>>,
                                  Pending(plan.metrics, "not_executed", "execution_incomplete"))
    OBVIOUS
  <2>5. HonestRow(row, plan, <<>>)
    BY <2>2, <2>3, <2>4, FailedIsHonest
  <2>6. Return(row)
    BY <1>2, <2>3, <2>4 DEF FactoryFails
  <2> QED BY <2>2, <2>3, <2>5, <2>6, Returns
<1>3. ASSUME NEW error \in ErrorTexts, SendRaises(error) PROVE RunnerInv'
  <2>1. /\ trial.at = "dialogue"
        /\ UNCHANGED results
    BY <1>3 DEF SendRaises
  <2>2. TrialOk(trial) /\ ValidScenario(trial.scenario)
    BY <2>1, TrialHeld
  <2>3. PICK held : held = trial
    OBVIOUS
  <2>4. PICK next : next = trial'
    OBVIOUS
  <2>5. next = Unsent(held, error)
    BY <1>3, <2>3, <2>4 DEF SendRaises, Turn, Unsent
  <2>6. TrialOk(held) /\ held.at = "dialogue" /\ ValidScenario(held.scenario)
    BY <2>1, <2>2, <2>3
  <2>7. TrialOk(next) /\ next.scenario = held.scenario
    BY <2>5, <2>6, SentRaises
  <2> QED BY <2>1, <2>3, <2>4, <2>7, TrialMoves
<1>4. ASSUME FactoryReturns PROVE RunnerInv'
  <2>1. trial.at = "setup" /\ UNCHANGED results
    BY <1>4 DEF FactoryReturns
  <2>2. TrialOk(trial) /\ ValidScenario(trial.scenario)
    BY <2>1, TrialHeld
  <2>3. PICK held : held = trial
    OBVIOUS
  <2>4. PICK next : next = trial'
    OBVIOUS
  <2>5. next = [held EXCEPT !.at = "dialogue"]
    BY <1>4, <2>3, <2>4 DEF FactoryReturns
  <2>6. TrialOk(held) /\ held.at = "setup" /\ ValidScenario(held.scenario)
    BY <2>1, <2>2, <2>3
  <2>7. TrialOk(next) /\ next.scenario = held.scenario
    BY <2>5, <2>6, Readied
  <2> QED BY <2>1, <2>3, <2>4, <2>7, TrialMoves
<1>5. ASSUME NEW response \in Responses, SendReturns(response) PROVE RunnerInv'
  <2>1. trial.at = "dialogue" /\ UNCHANGED results
    BY <1>5 DEF SendReturns
  <2>2. TrialOk(trial) /\ ValidScenario(trial.scenario)
    BY <2>1, TrialHeld
  <2>3. PICK held : held = trial
    OBVIOUS
  <2>4. PICK next : next = trial'
    OBVIOUS
  <2>5. next = Sent(held, response)
    BY <1>5, <2>3, <2>4 DEF SendReturns, Turn, Turns, Sent
  <2>6. TrialOk(held) /\ held.at = "dialogue" /\ ValidScenario(held.scenario)
    BY <2>1, <2>2, <2>3
  <2>7. TrialOk(next) /\ next.scenario = held.scenario
    BY <2>5, <2>6, SentReturns
  <2> QED BY <2>1, <2>3, <2>4, <2>7, TrialMoves
<1>6. ASSUME NEW answer \in Answers, Conclude(answer) PROVE RunnerInv'
  <2>1. trial.at = "ending"
    BY <1>6 DEF Conclude
  <2>2. /\ Len(results) # Len(Batch) /\ TrialOk(trial)
        /\ trial.scenario = Batch[Len(results) + 1] /\ ValidScenario(trial.scenario)
    BY <2>1, TrialHeld
  <2>3. PICK held : held = trial
    OBVIOUS
  <2> DEFINE response == Last(held.steps).response
             final == held.final \o CheckExpectation(held.scenario.expect, response, held.calls, held.error)
             checks == FinalChecks(held.scenario.metrics, response, held.error, answer)
  <2>4. PICK row : row = ResultOf(held.scenario, held.steps, final, checks)
    OBVIOUS
  <2>5. HonestRow(row, held.scenario, <<>>)
    BY <2>1, <2>2, <2>3, <2>4, ConcludedIsHonest
  <2>6. Return(row)
    BY <1>6, <2>3, <2>4 DEF Conclude
  <2> QED BY <2>2, <2>3, <2>5, <2>6, Returns
<1>7. CASE RunnerNext
  <2>1. \/ \E error \in ErrorTexts : FactoryFails(error) \/ SendRaises(error)
        \/ FactoryReturns
        \/ \E response \in Responses : SendReturns(response)
        \/ \E answer \in Answers : Conclude(answer)
    BY <1>7 DEF RunnerNext
  <2> QED BY <1>2, <1>3, <1>4, <1>5, <1>6, <2>1
<1> QED BY <1>1, <1>7

\* The results of a batch that is done.
LEMMA BatchIsHonest ==
    ASSUME RunnerInv, BatchDone
    PROVE  HonestBatch(results, Batch, <<>>)
<1>1. Len(results) = Len(Batch)
  BY DEF RunnerInv, BatchDone, TrialOk
<1> QED BY <1>1, BatchListed, FrozenAssumption DEF RunnerInv, HonestBatch

------------------------------------------------------------------------------
(* An asynchronous case that is over.                                         *)

\* What it shows: every turn answered, or the one that was not at the end and
\* nothing evaluated.
Shown(verdict, verdicts, result) ==
    verdict # "running" =>
        /\ \A i \in 1..(Len(verdicts) - 1) : verdicts[i] # "error"
        /\ IF AllAnswered(verdicts) THEN Len(verdicts) = ExpectedSteps ELSE result = "pending"

ShownInv == \A c \in Cases : Shown(status[c], steps[c], quality[c])

LEMMA AnsweredShown ==
    ASSUME NEW verdict, NEW verdicts \in Seq(StepStatus), NEW result,
           AllAnswered(verdicts), Len(verdicts) = ExpectedSteps
    PROVE  Shown(verdict, verdicts, result)
<1>1. Len(verdicts) \in Nat
  OBVIOUS
<1>2. \A i \in 1..(Len(verdicts) - 1) : i \in 1..Len(verdicts)
  BY <1>1
<1> QED BY <1>2 DEF Shown, AllAnswered

LEMMA AbortShown ==
    ASSUME TypeOK, NEW c \in Cases, CaseTrail(c), status[c] \in {"running", "completed"},
           NEW verdict, Abort(c, verdict)
    PROVE  Shown(status[c], steps[c], quality[c])'
<1>1. /\ steps[c] \in Seq(StepStatus) /\ Len(steps[c]) \in Nat
      /\ DOMAIN steps = Cases /\ DOMAIN quality = Cases
  BY DEF TypeOK
<1>2. Len(steps[c]) <= ExpectedSteps /\ AllAnswered(steps[c])
  BY DEF CaseTrail, TrailOf, Trail
<1>3. quality'[c] = "pending"
  BY <1>1 DEF Abort
<1>4. CASE Len(steps[c]) < ExpectedSteps
  <2>1. steps'[c] = Append(steps[c], "error") /\ "error" \in StepStatus
    BY <1>1, <1>4 DEF Abort, StepStatus
  <2>2. /\ Len(steps'[c]) = Len(steps[c]) + 1
        /\ \A i \in 1..Len(steps[c]) : steps'[c][i] = steps[c][i]
        /\ steps'[c][Len(steps[c]) + 1] = "error"
    BY <1>1, <2>1
  <2>3. \A i \in 1..(Len(steps'[c]) - 1) : steps'[c][i] # "error"
    BY <1>1, <1>2, <2>2 DEF AllAnswered
  <2>4. ~AllAnswered(steps'[c])
    <3>1. Len(steps[c]) + 1 \in 1..Len(steps'[c])
      BY <1>1, <2>2
    <3> QED BY <2>2, <3>1 DEF AllAnswered
  <2> QED BY <1>3, <2>3, <2>4 DEF Shown
<1>5. CASE ~(Len(steps[c]) < ExpectedSteps)
  <2>1. steps'[c] = steps[c] /\ Len(steps[c]) = ExpectedSteps
    BY <1>1, <1>2, <1>5, EvidenceAssumption DEF Abort
  <2>2. PICK list : list = steps[c]
    OBVIOUS
  <2>3. \A verdict1, result : Shown(verdict1, list, result)
    BY <1>1, <1>2, <2>1, <2>2, AnsweredShown
  <2>4. steps'[c] = list
    BY <2>1, <2>2
  <2> QED BY <2>3, <2>4 DEF Shown
<1> QED BY <1>4, <1>5

LEMMA SameShown ==
    ASSUME NEW c \in Cases, Shown(status[c], steps[c], quality[c]),
           status[c] # "running" \/ status'[c] = "running",
           steps'[c] = steps[c], quality'[c] = quality[c]
    PROVE  Shown(status[c], steps[c], quality[c])'
BY DEF Shown

LEMMA WorkerShown ==
    ASSUME TypeOK, TypeOK', NEW c \in Cases, CaseInv(c), CaseTrail(c)',
           Shown(status[c], steps[c], quality[c]), WorkerStep(c)
    PROVE  Shown(status[c], steps[c], quality[c])'
<1>1. Goes(c)
  BY WorkerGoes
<1>2. CASE Interruption(c)
  BY <1>2, InterruptedWorker, SameShown DEF Interruption
<1>3. CASE ~Interruption(c)
  <2>1. status[c] = "running"
    BY <1>1, <1>3 DEF Interruption, CaseInv, TypeOK, FinalStatus, Goes, Awaits, Callbacks
  <2>2. status'[c] \in {"running", "completed"}
    BY <1>1, <2>1 DEF Goes
  <2>3. CASE status'[c] = "running"
    BY <2>3 DEF Shown
  <2>4. CASE status'[c] = "completed"
    <3>1. AllAnswered(steps'[c]) /\ Len(steps'[c]) = ExpectedSteps
      BY <2>4 DEF CaseTrail, TrailOf, Trail
    <3>2. steps'[c] \in Seq(StepStatus)
      BY DEF TypeOK
    <3>3. PICK list : list = steps'[c]
      OBVIOUS
    <3>4. \A verdict, result : Shown(verdict, list, result)
      BY <3>1, <3>2, <3>3, AnsweredShown
    <3> QED BY <3>3, <3>4 DEF Shown
  <2> QED BY <2>2, <2>3, <2>4
<1> QED BY <1>2, <1>3

LEMMA CleanupShown ==
    ASSUME TypeOK, NEW c \in Cases, CaseInv(c), CaseTrail(c), Unsettled(c),
           Shown(status[c], steps[c], quality[c]), RunnerStep(c)
    PROVE  Shown(status[c], steps[c], quality[c])'
<1>1. ASSUME NEW verdict, Abort(c, verdict), run[c] \in {"start", "waiting"}
      PROVE  Shown(status[c], steps[c], quality[c])'
  <2>1. status[c] \in {"running", "completed"}
    BY <1>1 DEF CaseInv
  <2> QED BY <1>1, <2>1, AbortShown
<1>2. CASE Start(c) \/ Wake(c) \/ Interrupted(c)
  <2>1. run[c] \in {"start", "waiting"}
    BY <1>2 DEF Start, Wake, Interrupted
  <2>2. UNCHANGED recordVars \/ \E verdict : Abort(c, verdict)
    BY <1>2 DEF Start, Wake, Interrupted
  <2>3. CASE UNCHANGED recordVars
    BY <2>3, SameShown DEF recordVars
  <2> QED BY <1>1, <2>1, <2>2, <2>3
<1>3. CASE Abandon(c) \/ BeginCleanup(c) \/ CloseStalls(c)
  BY <1>3, SameShown DEF Abandon, BeginCleanup, CloseStalls, recordVars
<1>4. CASE Drained(c) \/ DrainExpires(c) \/ CloseReturns(c) \/ CloseFails(c) \/ CloseAbandoned(c)
  <2>1. run[c] \in {"draining", "closing", "closeDraining"}
    BY <1>4 DEF Drained, DrainExpires, CloseReturns, CloseFails, CloseAbandoned
  <2>2. status[c] # "running"
    BY <2>1 DEF Unsettled
  <2>3. UNCHANGED <<steps, quality>>
    BY <1>4 DEF Drained, DrainExpires, CloseReturns, CloseFails, CloseAbandoned, Finish, recordVars
  <2> QED BY <2>2, <2>3, SameShown
<1> QED BY <1>2, <1>3, <1>4 DEF RunnerStep

LEMMA ShownStep ==
    ASSUME TypeOK, TypeOK', PermitInv, EvidenceInv, TrailInv, TrailInv', ShownInv, [Next]_vars
    PROVE  ShownInv'
<1> SUFFICES ASSUME NEW d \in Cases PROVE Shown(status[d], steps[d], quality[d])'
  BY DEF ShownInv
<1>0. \A c \in Cases : /\ CaseInv(c) /\ CaseTrail(c) /\ Unsettled(c) /\ CaseTrail(c)'
                       /\ Shown(status[c], steps[c], quality[c])
  BY DEF TrailInv, EvidenceInv, ShownInv
<1>1. ASSUME UNCHANGED <<status, steps, quality>> PROVE Shown(status[d], steps[d], quality[d])'
  BY <1>0, <1>1, SameShown
<1>2. CASE SetCancelEvent \/ CancelBatch \/ UNCHANGED vars \/ \E c \in Cases : Expire(c)
  BY <1>1, <1>2 DEF SetCancelEvent, CancelBatch, Expire, vars, recordVars
<1>3. ASSUME NEW c \in Cases, WorkerStep(c) PROVE Shown(status[d], steps[d], quality[d])'
  <2>1. CASE c = d
    BY <1>0, <1>3, <2>1, WorkerShown
  <2>2. CASE c # d
    BY <1>0, <1>3, <2>2, WorkerIsLocal, SameShown DEF SameEvidence
  <2> QED BY <2>1, <2>2
<1>4. ASSUME NEW c \in Cases, RunnerStep(c) PROVE Shown(status[d], steps[d], quality[d])'
  <2>1. CASE c = d
    BY <1>0, <1>4, <2>1, CleanupShown
  <2>2. CASE c # d
    BY <1>0, <1>4, <2>2, RunnerLeavesOthers, SameShown DEF SameCase
  <2> QED BY <2>1, <2>2
<1> QED BY <1>2, <1>3, <1>4 DEF Next

LEMMA ShownInit == Init => ShownInv
BY DEF Init, ShownInv, Shown

------------------------------------------------------------------------------
(* The row of a case whose result was returned is an honest one.              *)

\* What the row is made from.
CaseOver(c) ==
    /\ IsSequence(steps[c]) /\ Len(steps[c]) \in 1..ExpectedSteps /\ DOMAIN steps[c] = 1..Len(steps[c])
    /\ \A i \in 1..Len(steps[c]) : steps[c][i] \in StepStatus
    /\ \A i \in 1..Len(steps[c]) : steps[c][i] = "error" => i = Len(steps[c])
    /\ IF steps[c][Len(steps[c])] = "error" THEN quality[c] = "pending"
       ELSE Len(steps[c]) = ExpectedSteps
    /\ status[c] # ""
    /\ quality[c] \in {"pending", "passed", "failed", "error"}
    /\ ValidExecution(status[c], unknown[c], cleanup[c], attempts[c], steps[c])

LEMMA ReturnedIsOver ==
    ASSUME TypeOK, NEW c \in Cases, CaseInv(c), CaseTrail(c), Unsettled(c), Returned(c),
           Shown(status[c], steps[c], quality[c])
    PROVE  CaseOver(c)
<1> DEFINE n == Len(steps[c])
<1>1. /\ steps[c] \in Seq(StepStatus) /\ DOMAIN steps[c] = 1..n /\ n \in Nat
      /\ quality[c] \in {"pending", "passed", "failed", "error"}
  BY DEF TypeOK
<1>2. status[c] # "running"
  BY DEF Returned, Unsettled
<1>3. ValidExecution(status[c], unknown[c], cleanup[c], attempts[c], steps[c])
  BY SettledAccepted
<1>4. n <= ExpectedSteps /\ steps[c] # <<>> /\ status[c] \in FinalStatus
  BY <1>3 DEF ValidExecution
<1>5. n # 0
  BY <1>1, <1>4
<1>6. /\ \A i \in 1..(n - 1) : steps[c][i] # "error"
      /\ IF AllAnswered(steps[c]) THEN n = ExpectedSteps ELSE quality[c] = "pending"
  BY <1>2 DEF Shown
<1>7. \A i \in 1..n : i # n => i \in 1..(n - 1)
  BY <1>1
<1>8. \A i \in 1..n : steps[c][i] = "error" => i = n
  BY <1>6, <1>7
<1>9. IF steps[c][n] = "error" THEN quality[c] = "pending" ELSE n = ExpectedSteps
  <2>1. n \in 1..n
    BY <1>1, <1>5
  <2>2. CASE steps[c][n] = "error"
    BY <1>6, <2>1, <2>2 DEF AllAnswered
  <2>3. CASE steps[c][n] # "error"
    <3>1. AllAnswered(steps[c])
      BY <1>8, <2>3 DEF AllAnswered
    <3> QED BY <1>6, <2>3, <3>1
  <2> QED BY <2>2, <2>3
<1>10. status[c] # ""
  BY <1>4 DEF FinalStatus
<1>11. n \in 1..ExpectedSteps /\ \A i \in 1..n : steps[c][i] \in StepStatus
  BY <1>1, <1>4, <1>5, EvidenceAssumption
<1>12. IsSequence(steps[c])
  BY <1>1, SequenceOver
<1> QED BY <1>1, <1>3, <1>8, <1>9, <1>10, <1>11, <1>12 DEF CaseOver

\* Turn i as the row shows it.
LEMMA CaseStepShown ==
    ASSUME NEW c \in Cases, CaseOver(c), NEW i \in 1..Len(steps[c])
    PROVE  LET turn == CaseScenario.conversation[i]
               user == IF i = 1 /\ attempts[c] = <<>> THEN "" ELSE turn.user IN
           /\ CaseStep(c, i).status = steps[c][i]
           /\ IF steps[c][i] = "error"
              THEN UnansweredAs(CaseStep(c, i), turn, i, CaseSteps(c), user, status[c])
              ELSE /\ AnsweredAs(CaseStep(c, i), turn, i, CaseSteps(c), CaseResponse[steps[c][i]])
                   /\ ValidResponse(CaseResponse[steps[c][i]])
                   /\ HasContext(CaseResponse[steps[c][i]])
<1> DEFINE turn == CaseScenario.conversation[i]
           user == IF i = 1 /\ attempts[c] = <<>> THEN "" ELSE turn.user
           k == i - 1
           n == Len(steps[c])
<1>1. i \in Nat \ {0} /\ n \in Nat /\ i <= n /\ i \in 1..ExpectedSteps
  <2>1. n \in 1..ExpectedSteps
    BY DEF CaseOver
  <2> QED BY <2>1, EvidenceAssumption
<1>2. Len(CaseSteps(c)) = n
  <2> DEFINE list == CaseSteps(c)
  <2>1. list = [j \in 1..n |-> CaseStep(c, j)]
    BY DEF CaseOver, CaseSteps
  <2>2. list = [j \in 1..n |-> list[j]]
    BY <2>1
  <2> HIDE DEF list
  <2>3. Len(list) = n
    BY <1>1, <2>2, Tabled
  <2> QED BY <2>3 DEF list
<1>3. CASE steps[c][i] = "error"
  <2>1. CaseStep(c, i) = ErrorStep(k, user, status[c])
    BY <1>3 DEF CaseStep
  <2>2. i = Len(CaseSteps(c))
    BY <1>2, <1>3 DEF CaseOver
  <2>3. user = turn.user \/ (i = 1 /\ user = "")
    OBVIOUS
  <2> HIDE DEF user, turn
  <2>4. UnansweredAs(ErrorStep(k, user, status[c]), turn, i, CaseSteps(c), user, status[c])
    BY <1>1, <2>2, <2>3, ErrorAccepted
  <2> QED BY <1>3, <2>1, <2>4 DEF UnansweredAs, user, turn
<1>4. CASE steps[c][i] # "error"
  <2> DEFINE r == CaseResponse[steps[c][i]]
  <2>1. CaseStep(c, i) = AnsweredStep(turn, k, r)
    BY <1>4 DEF CaseStep
  <2>2. steps[c][i] \in {"passed", "failed"}
    BY <1>4 DEF CaseOver, StepStatus
  <2>3. /\ ValidResponse(r) /\ HasContext(r)
        /\ AllPassed(StepResults(turn, r)) <=> steps[c][i] = "passed"
    BY <1>1, <2>2, CaseAssumption
  <2> HIDE DEF r, turn
  <2>4. AnsweredAs(AnsweredStep(turn, k, r), turn, i, CaseSteps(c), r)
    BY <1>1, <2>3, AnsweredAccepted
  <2>5. CaseStep(c, i).status = steps[c][i]
    BY <2>1, <2>2, <2>3, <2>4 DEF AnsweredAs
  <2> QED BY <1>4, <2>1, <2>3, <2>4, <2>5 DEF r, turn
<1> QED BY <1>3, <1>4

LEMMA CaseStepsShown ==
    ASSUME NEW c \in Cases, CaseOver(c)
    PROVE  LET turns == CaseSteps(c) IN
           /\ IsSequence(turns) /\ Len(turns) = Len(steps[c]) /\ DOMAIN turns = 1..Len(steps[c])
           /\ turns # <<>>
           /\ \A i \in 1..Len(steps[c]) :
                 /\ turns[i] = CaseStep(c, i) /\ turns[i].status = steps[c][i]
                 /\ WrittenStep(turns[i])
                 /\ Declared(turns[i].response) => ValidResponse(Content(turns[i].response))
                 /\ StepAgrees(turns[i], CaseScenario.conversation[i], i, turns)
           /\ [i \in DOMAIN turns |-> turns[i].status] = steps[c]
<1> DEFINE turns == CaseSteps(c)
           n == Len(steps[c])
           shown == [i \in DOMAIN turns |-> turns[i].status]
<1>1. n \in Nat \ {0} /\ DOMAIN steps[c] = 1..n /\ IsSequence(steps[c])
  <2>1. n \in 1..ExpectedSteps /\ DOMAIN steps[c] = 1..n /\ IsSequence(steps[c])
    BY DEF CaseOver
  <2> QED BY <2>1, EvidenceAssumption
<1>2. turns = [i \in 1..n |-> CaseStep(c, i)]
  BY DEF CaseOver, CaseSteps
<1>3. /\ turns = [i \in 1..n |-> turns[i]]
      /\ \A i \in 1..n : turns[i] = CaseStep(c, i)
  BY <1>2
<1> HIDE DEF turns
<1>4. IsSequence(turns) /\ Len(turns) = n /\ DOMAIN turns = 1..n
  BY <1>1, <1>3, Tabled
<1>5. turns # <<>>
  BY <1>1, <1>4, EmptySeq
<1>6. ASSUME NEW i \in 1..n
      PROVE  /\ turns[i].status = steps[c][i]
             /\ WrittenStep(turns[i])
             /\ Declared(turns[i].response) => ValidResponse(Content(turns[i].response))
             /\ StepAgrees(turns[i], CaseScenario.conversation[i], i, turns)
  <2> DEFINE turn == CaseScenario.conversation[i]
             user == IF i = 1 /\ attempts[c] = <<>> THEN "" ELSE turn.user
             step == CaseStep(c, i)
             r == CaseResponse[steps[c][i]]
  <2>1. /\ step.status = steps[c][i]
        /\ IF steps[c][i] = "error" THEN UnansweredAs(step, turn, i, turns, user, status[c])
           ELSE AnsweredAs(step, turn, i, turns, r) /\ ValidResponse(r)
    BY CaseStepShown DEF turns
  <2>2. turns[i] = step
    BY <1>3
  <2> HIDE DEF step, turn, user, r
  <2>3. /\ WrittenStep(step) /\ StepAgrees(step, turn, i, turns)
        /\ Declared(step.response) => ValidResponse(Content(step.response))
    BY <2>1 DEF AnsweredAs, UnansweredAs
  <2> QED BY <2>1, <2>2, <2>3 DEF turn
<1>7. shown = steps[c]
  <2>1. steps[c] = [i \in 1..n |-> steps[c][i]]
    BY <1>1 DEF IsSequence
  <2> QED BY <1>4, <1>6, <2>1
<1> QED BY <1>3, <1>4, <1>5, <1>6, <1>7 DEF turns

Fraction(score) == score.whole \in Nat \ {0} /\ score.part \in 0..score.whole

LEMMA ScoredCheck ==
    ASSUME NEW metrics, ValidDeclaration(metrics), NEW m \in DOMAIN metrics,
           NEW score, Fraction(score), NEW check,
           check = Pending(metrics, "not_executed", "execution_incomplete")[m]
    PROVE  LET scored == Scored(check, score) IN
           /\ scored.metric = m /\ scored.required /\ scored.expectation = metrics[m]
           /\ scored.threshold = <<metrics[m]>>
           /\ scored.status \in CheckStatus
           /\ ScoreAgrees(scored, metrics[m])
<1> DEFINE scored == Scored(check, score)
           met == Meets(check.metric, score, check.expectation)
<1>1. /\ check.metric = m /\ check.required /\ check.expectation = metrics[m]
      /\ check.threshold = <<metrics[m]>>
      /\ DOMAIN check = CheckFields
  BY DEF Pending, CheckFields
<1>2. PICK verdict, reason : /\ verdict = IF met THEN "passed" ELSE "failed"
                             /\ scored = [check EXCEPT !.score = <<score>>, !.status = verdict, !.reason = reason]
  BY DEF Scored
<1> HIDE DEF scored, met
<1>3. /\ scored.metric = m /\ scored.required /\ scored.expectation = metrics[m]
      /\ scored.threshold = <<metrics[m]>> /\ scored.score = <<score>>
      /\ scored.status = verdict
  BY <1>1, <1>2 DEF CheckFields
<1>4. met <=> Meets(m, score, metrics[m])
  BY <1>1 DEF met
<1>5. verdict \in Concluded /\ (verdict = "passed" <=> Meets(m, score, metrics[m]))
  BY <1>2, <1>4 DEF Concluded
<1>6. <<score>> # <<>> /\ <<score>>[1] = score
  OBVIOUS
<1>7. Meets(m, score, metrics[m]) \in BOOLEAN
  <2>1. metrics[m] \in Nat /\ score.part \in Nat /\ score.whole \in Nat /\ Scale \in Nat
    BY ScaleAssumption DEF ValidDeclaration, Fraction
  <2>2. PICK x \in Nat : x = score.part * Scale
    BY <2>1
  <2>3. PICK y \in Nat : y = metrics[m] * score.whole
    BY <2>1
  <2>4. (x <= y) \in BOOLEAN /\ (x >= y) \in BOOLEAN
    OBVIOUS
  <2>5. Meets(m, score, metrics[m]) = IF m = "hallucination" THEN x <= y ELSE x >= y
    BY <2>2, <2>3 DEF Meets
  <2> QED BY <2>4, <2>5
<1>7a. InUnit(score)
  BY DEF InUnit, Fraction
<1>8. ScoreAgrees(scored, metrics[m])
  BY <1>7a, <1>3, <1>5, <1>6, <1>7 DEF ScoreAgrees
<1>9. scored.status \in CheckStatus
  BY <1>3, <1>5 DEF Concluded, CheckStatus
<1> QED BY <1>3, <1>8, <1>9 DEF scored

LEMMA CaseChecksAccepted ==
    ASSUME NEW c \in Cases, CaseOver(c)
    PROVE  /\ ChecksAccepted(CaseChecks(c), CaseScenario.metrics)
           /\ quality[c] = "pending" =>
                  \A m \in DOMAIN CaseChecks(c) : CaseChecks(c)[m].status = "not_executed"
<1> DEFINE metrics == CaseScenario.metrics
           pending == Pending(metrics, "not_executed", "execution_incomplete")
           best    == [part |-> 1, whole |-> 1]
           worst   == [part |-> 0, whole |-> 1]
           score(m) == IF (quality[c] = "passed") = (m # "hallucination") THEN best ELSE worst
           checks == CaseChecks(c)
<1>1. CASE quality[c] = "pending"
  <2>1. checks = pending
    BY <1>1 DEF CaseChecks
  <2>2. "not_executed" \in CheckStatus \ Concluded
    BY DEF CheckStatus, Concluded
  <2>3. ChecksAccepted(pending, metrics) /\ \A m \in DOMAIN pending : pending[m].status = "not_executed"
    BY <2>2, PendingAccepted
  <2> HIDE DEF pending, checks
  <2>4. ChecksAccepted(checks, metrics) /\ \A m \in DOMAIN checks : checks[m].status = "not_executed"
    BY <2>1, <2>3
  <2> QED BY <2>4 DEF checks
<1>2. CASE quality[c] = "error"
  <2>1. checks = Pending(metrics, "error", "evaluator_error")
    BY <1>2 DEF CaseChecks
  <2>2. "error" \in CheckStatus \ Concluded
    BY DEF CheckStatus, Concluded
  <2>3. ChecksAccepted(Pending(metrics, "error", "evaluator_error"), metrics)
    BY <2>2, PendingAccepted
  <2> QED BY <1>2, <2>1, <2>3
<1>3. CASE quality[c] \notin {"pending", "error"}
  <2>1. checks = [m \in DOMAIN pending |-> Scored(pending[m], score(m))]
    BY <1>3 DEF CaseChecks
  <2>2. DOMAIN pending = DOMAIN metrics
    BY DEF Pending
  <2>3. Fraction(best) /\ Fraction(worst)
    BY DEF Fraction
  <2>4. ASSUME NEW m \in DOMAIN metrics
        PROVE  /\ checks[m].metric = m /\ checks[m].required /\ checks[m].expectation = metrics[m]
               /\ checks[m].threshold = <<metrics[m]>>
               /\ checks[m].status \in CheckStatus
               /\ ScoreAgrees(checks[m], metrics[m])
    <3>1. PICK s : s = score(m)
      OBVIOUS
    <3>2. Fraction(s)
      BY <2>3, <3>1
    <3>3. PICK check : check = pending[m]
      OBVIOUS
    <3>4. checks[m] = Scored(check, s)
      BY <2>1, <2>2, <3>1, <3>3
    <3>5. check = Pending(metrics, "not_executed", "execution_incomplete")[m]
      BY <3>3
    <3>5a. ValidDeclaration(metrics)
      BY CaseAssumption DEF ValidScenario
    <3> HIDE DEF checks, metrics, pending
    <3>6. LET scored == Scored(check, s) IN
          /\ scored.metric = m /\ scored.required /\ scored.expectation = metrics[m]
          /\ scored.threshold = <<metrics[m]>>
          /\ scored.status \in CheckStatus
          /\ ScoreAgrees(scored, metrics[m])
      BY <3>2, <3>5, <3>5a, ScoredCheck
    <3> QED BY <3>4, <3>6
  <2>5. DOMAIN checks = DOMAIN metrics
    BY <2>1, <2>2
  <2> HIDE DEF checks, metrics
  <2>6. ChecksAccepted(checks, metrics)
    BY <2>4, <2>5 DEF ChecksAccepted
  <2> QED BY <1>3, <2>6 DEF checks, metrics
<1> QED BY <1>1, <1>2, <1>3

LEMMA CaseRowFields ==
    ASSUME NEW c
    PROVE  LET row == CaseRow(c) IN
           /\ RowShaped(row)
           /\ row.id = CaseScenario.id /\ row.steps = CaseSteps(c) /\ row.final = CaseFinal(c)
           /\ row.checks = CaseChecks(c) /\ row.execution = <<CaseExecution(c)>>
           /\ row.complete = ResultComplete(CaseSteps(c), ExpectedSteps, CaseChecks(c),
                                 ExecutionComplete(status[c], unknown[c], cleanup[c]))
           /\ row.passed = (row.complete /\ ResultPassed(CaseSteps(c), CaseFinal(c), CaseChecks(c)))
BY DEF CaseRow, RowShaped, RowFields

LEMMA CaseExecutionShown ==
    ASSUME NEW c \in Cases, CaseOver(c)
    PROVE  LET evidence == <<CaseExecution(c)>> IN
           /\ ExecutionAccepted(evidence, <<CasePolicy>>, CaseSteps(c))
           /\ ExecutionSettled(evidence) <=> ExecutionComplete(status[c], unknown[c], cleanup[c])
<1> DEFINE execution == CaseExecution(c)
           evidence == <<execution>>
           shown == [i \in DOMAIN CaseSteps(c) |-> CaseSteps(c)[i].status]
<1>1. /\ execution.policy = CasePolicy /\ execution.status = status[c]
      /\ execution.unknown = unknown[c] /\ execution.cleanup = cleanup[c]
      /\ execution.attempts = attempts[c]
  BY DEF CaseExecution
<1> HIDE DEF execution
<1>2. evidence # <<>> /\ Content(evidence) = execution
  BY DEF Content
<1> HIDE DEF evidence
<1>3. shown = steps[c]
  BY CaseStepsShown
<1>4. ValidExecution(status[c], unknown[c], cleanup[c], attempts[c], shown)
  BY <1>3 DEF CaseOver
<1> HIDE DEF shown
<1>5. ExecutionAccepted(evidence, <<CasePolicy>>, CaseSteps(c))
  BY <1>1, <1>2, <1>4 DEF ExecutionAccepted, shown
<1>6. ExecutionSettled(evidence) <=> ExecutionComplete(status[c], unknown[c], cleanup[c])
  BY <1>1, <1>2 DEF ExecutionSettled
<1> QED BY <1>5, <1>6 DEF evidence, execution

LEMMA CaseFinalShown ==
    ASSUME NEW c \in Cases, CaseOver(c), NEW row, row.steps = CaseSteps(c), row.final = CaseFinal(c)
    PROVE  EndAccepted(row, CaseScenario) /\ ReportedFinal(row) = FinalResults(CaseScenario, row.steps)
<1> DEFINE plan == CaseScenario
           turns == CaseSteps(c)
           n == Len(turns)
           last == turns[n]
           calls == CallsOf(turns)
           final == CaseFinal(c)
           failed == ExecutionFailed(0)
           given == CheckExpectation(plan.expect, last.response, calls, last.error)
           user == IF n = 1 /\ attempts[c] = <<>> THEN "" ELSE plan.conversation[n].user
<1>1. /\ IsSequence(turns) /\ n = Len(steps[c]) /\ n \in Nat \ {0} /\ n \in 1..n
      /\ turns[n] = CaseStep(c, n) /\ n \in 1..ExpectedSteps
      /\ \A i \in 1..n : /\ turns[i].status = steps[c][i]
                         /\ Declared(turns[i].response) => ValidResponse(Content(turns[i].response))
  <2>1. n = Len(steps[c]) /\ n \in 1..ExpectedSteps
    BY CaseStepsShown DEF CaseOver
  <2>2. n \in Nat \ {0} /\ n \in 1..n
    BY <2>1, EvidenceAssumption
  <2> QED BY <2>1, <2>2, CaseStepsShown
<1>2. /\ Len(plan.conversation) = ExpectedSteps /\ ValidScenario(plan)
  BY CaseAssumption
<1>3. IsSequence(calls) /\ ResultList(given)
  <2>0. DOMAIN turns = 1..n
    BY <1>1, SequenceOfItems
  <2>1. IsSequence(calls)
    BY <1>1, <2>0, CallsListed
  <2>2. ValidExpectation(plan.expect)
    BY <1>2 DEF ValidScenario
  <2> HIDE DEF last, plan, calls, turns
  <2> QED BY <2>1, <2>2, PassedSatisfies
<1>4. Last(turns) = last
  BY DEF Last
<1>5. IF steps[c][n] = "error"
      THEN /\ last.status = "error" /\ last.response = <<>> /\ last.user = user
           /\ ~Declared(last.response)
      ELSE last.status # "error" /\ last.error = "" /\ Declared(last.response)
  <2> DEFINE turn == plan.conversation[n]
  <2>1. /\ CaseStep(c, n).status = steps[c][n]
        /\ IF steps[c][n] = "error"
           THEN UnansweredAs(CaseStep(c, n), turn, n, turns, user, status[c])
           ELSE AnsweredAs(CaseStep(c, n), turn, n, turns, CaseResponse[steps[c][n]])
    <3>1. n \in 1..Len(steps[c])
      BY <1>1
    <3> QED BY <3>1, CaseStepShown
  <2> HIDE DEF turn, turns, user, plan
  <2> QED BY <1>1, <2>1 DEF UnansweredAs, AnsweredAs
<1>6. final = IF last.status # "error" THEN CheckExpectation(plan.expect, last.response, calls, "")
              ELSE <<failed>> \o (IF last.user = "" THEN <<>>
                                  ELSE CheckExpectation(plan.expect, <<>>, calls, last.error))
  BY <1>4 DEF CaseFinal
<1>7. failed.type = "execution" /\ ~failed.passed
  BY DEF ExecutionFailed, Result
<1>8. \A i \in 1..n : steps[c][i] = "error" => i = n
  BY <1>1 DEF CaseOver
<1>9. /\ steps[c][n] # "error" => StepsDone(turns, Len(plan.conversation))
  <2>1. steps[c][n] # "error" => n = ExpectedSteps
    BY <1>1 DEF CaseOver
  <2>2. DOMAIN turns = 1..n
    BY <1>1, SequenceOfItems
  <2>3. ASSUME steps[c][n] # "error", NEW i \in 1..n PROVE turns[i].status # "error"
    BY <1>1, <1>8, <2>3
  <2> QED BY <1>2, <2>1, <2>2, <2>3 DEF StepsDone
<1> HIDE DEF last, calls, final, turns, failed, given
<1>10. CASE steps[c][n] # "error"
  <2>1. last.status # "error" /\ last.error = "" /\ final = given
    BY <1>5, <1>6, <1>10 DEF given
  <2>2. ~AdapterFailed(turns)
    <3>1. n = 1 => turns[1].status # "error"
      BY <2>1 DEF last
    <3> QED BY <3>1 DEF AdapterFailed
  <2>3. EndAccepted(row, plan)
    BY <1>4, <1>9, <1>10, <2>1 DEF EndAccepted, turns
  <2>4. ReportedFinal(row) = given
    BY <1>4, <2>1 DEF ReportedFinal, turns, final
  <2>5. FinalResults(plan, turns) = given
    BY <1>4, <2>2 DEF FinalResults, given, calls
  <2> QED BY <2>3, <2>4, <2>5 DEF turns
<1>11. CASE steps[c][n] = "error"
  <2> DEFINE rest == IF last.user = "" THEN <<>> ELSE given
  <2>1. /\ last.status = "error" /\ last.response = <<>> /\ last.user = user
        /\ final = <<failed>> \o rest
    BY <1>5, <1>6, <1>11 DEF given
  <2>2. IsSequence(rest)
    BY <1>3, NoItems DEF ResultList
  <2> HIDE DEF rest
  <2>3. final # <<>> /\ final[1] = failed /\ Tail(final) = rest
    <3>1. <<failed>> \o rest # <<>> /\ (<<failed>> \o rest)[1] = failed /\ Tail(<<failed>> \o rest) = rest
      BY <2>2, BehindFirst
    <3> QED BY <2>1, <3>1
  <2>4. EndAccepted(row, plan)
    BY <1>4, <1>7, <2>1, <2>3 DEF EndAccepted, turns, final
  <2>5. ReportedFinal(row) = rest
    BY <1>4, <2>1, <2>3 DEF ReportedFinal, turns, final
  <2>6. AdapterFailed(turns) <=> last.user = ""
    <3>1. plan.conversation[n].user # ""
      BY <1>1, <1>2, TurnsCounted
    <3>2. last.user = "" => n = 1
      BY <2>1, <3>1
    <3>3. n = 1 => last = turns[1]
      BY DEF last
    <3> QED BY <2>1, <3>2, <3>3 DEF AdapterFailed
  <2>7. FinalResults(plan, turns) = rest
    BY <1>4, <2>6 DEF FinalResults, given, calls, rest
  <2> QED BY <2>4, <2>5, <2>7 DEF turns
<1> QED BY <1>10, <1>11

LEMMA CaseJudged ==
    ASSUME NEW c \in Cases, CaseOver(c), NEW row, row.steps = CaseSteps(c), row.checks = CaseChecks(c)
    PROVE  JudgedAccepted(row, CaseScenario)
<1> DEFINE turns == CaseSteps(c)
           n == Len(turns)
           last == turns[n]
           checks == CaseChecks(c)
<1>1. /\ n = Len(steps[c]) /\ n \in 1..n /\ last = CaseStep(c, n)
      /\ DOMAIN turns = 1..n
      /\ \A i \in 1..n : turns[i].status = steps[c][i]
  <2>1. n = Len(steps[c]) /\ n \in 1..ExpectedSteps
    BY CaseStepsShown DEF CaseOver
  <2>2. n \in 1..n
    BY <2>1, EvidenceAssumption
  <2> QED BY <2>1, <2>2, CaseStepsShown
<1>2. Last(turns) = last
  BY DEF Last
<1>3. CASE steps[c][n] # "error"
  <2>1. last.response = <<CaseResponse[steps[c][n]]>> /\ HasContext(CaseResponse[steps[c][n]])
    <3>1. n \in 1..Len(steps[c])
      BY <1>1
    <3> DEFINE r == CaseResponse[steps[c][n]]
               turn == CaseScenario.conversation[n]
    <3>2. AnsweredAs(CaseStep(c, n), turn, n, turns, r) /\ HasContext(r)
      BY <1>3, <3>1, CaseStepShown
    <3> HIDE DEF r, turn, turns
    <3>3. CaseStep(c, n).response = <<r>>
      BY <3>2 DEF AnsweredAs
    <3> QED BY <1>1, <3>2, <3>3 DEF r
  <2> HIDE DEF last, turns
  <2>2. HasContext(Content(last.response))
    BY <2>1 DEF Content
  <2>3. StepsDone(turns, Len(CaseScenario.conversation))
    <3>1. \A i \in 1..n : steps[c][i] # "error"
      BY <1>1, <1>3 DEF CaseOver
    <3>2. n = ExpectedSteps
      BY <1>1, <1>3 DEF CaseOver
    <3> QED BY <1>1, <3>1, <3>2, CaseAssumption DEF StepsDone
  <2> QED BY <1>2, <2>2, <2>3 DEF JudgedAccepted, turns
<1>4. CASE steps[c][n] = "error"
  <2>1. quality[c] = "pending"
    BY <1>1, <1>4 DEF CaseOver
  <2>2. \A m \in DOMAIN checks : checks[m].status = "not_executed"
    BY <2>1, CaseChecksAccepted
  <2>3. ~StepsDone(turns, Len(CaseScenario.conversation))
    BY <1>1, <1>4 DEF StepsDone
  <2> QED BY <2>2, <2>3 DEF JudgedAccepted
<1> QED BY <1>3, <1>4

LEMMA CaseIsHonest ==
    ASSUME NEW c \in Cases, CaseOver(c)
    PROVE  HonestRow(CaseRow(c), CaseScenario, <<CasePolicy>>)
<1> DEFINE row == CaseRow(c)
           plan == CaseScenario
<1>1. /\ RowShaped(row)
      /\ row.id = plan.id /\ row.steps = CaseSteps(c) /\ row.final = CaseFinal(c)
      /\ row.checks = CaseChecks(c) /\ row.execution = <<CaseExecution(c)>>
      /\ row.complete = ResultComplete(CaseSteps(c), ExpectedSteps, CaseChecks(c),
                            ExecutionComplete(status[c], unknown[c], cleanup[c]))
      /\ row.passed = (row.complete /\ ResultPassed(CaseSteps(c), CaseFinal(c), CaseChecks(c)))
  BY CaseRowFields
<1> HIDE DEF row
<1>2. Len(plan.conversation) = ExpectedSteps
  BY CaseAssumption
<1>3. /\ ExecutionAccepted(row.execution, <<CasePolicy>>, row.steps)
      /\ ExecutionSettled(row.execution) <=> ExecutionComplete(status[c], unknown[c], cleanup[c])
  BY <1>1, CaseExecutionShown
<1>4. ConcludedAs(row, plan)
  BY <1>1, <1>2, <1>3 DEF ConcludedAs, ResultComplete
<1>5. EndAccepted(row, plan) /\ ReportedFinal(row) = FinalResults(plan, row.steps)
  BY <1>1, CaseFinalShown
<1>6. JudgedAccepted(row, plan)
  BY <1>1, CaseJudged
<1>7. ChecksAccepted(row.checks, plan.metrics)
  BY <1>1, CaseChecksAccepted
<1>8. /\ IsSequence(row.steps) /\ Len(row.steps) \in 1..Len(plan.conversation)
      /\ \A i \in 1..Len(row.steps) :
            /\ WrittenStep(row.steps[i])
            /\ Declared(row.steps[i].response) => ValidResponse(Content(row.steps[i].response))
            /\ StepAgrees(row.steps[i], plan.conversation[i], i, row.steps)
  BY <1>1, <1>2, CaseStepsShown DEF CaseOver
<1> HIDE DEF plan
<1>9. HonestRow(row, plan, <<CasePolicy>>)
  BY <1>1, <1>3, <1>4, <1>5, <1>6, <1>7, <1>8, RowAssembled
<1> QED BY <1>9 DEF row, plan

\* One row, taken for the batch it is.
LEMMA LoneRow ==
    ASSUME NEW row, NEW plan, NEW policy, ValidScenario(plan), HonestRow(row, plan, policy)
    PROVE  HonestBatch(<<row>>, <<plan>>, policy)
<1> DEFINE rows == <<row>>
           plans == <<plan>>
<1>1. /\ IsSequence(rows) /\ Len(rows) = 1 /\ rows[1] = row
      /\ IsSequence(plans) /\ Len(plans) = 1 /\ plans[1] = plan /\ DOMAIN plans = 1..1
  BY OneItem
<1>2. plans # <<>>
  OBVIOUS
<1> HIDE DEF rows, plans
<1>3. \A i \in 1..1 : i = 1
  OBVIOUS
<1>4. plan.conversation # <<>>
  BY DEF ValidScenario
<1>5. Freezable(plans)
  BY <1>1, <1>2, <1>3, <1>4 DEF Freezable
<1>6. HonestBatch(rows, plans, policy)
  BY <1>1, <1>3, <1>5 DEF HonestBatch
<1> QED BY <1>6 DEF rows, plans

------------------------------------------------------------------------------
(* The invariant of the whole, and what it says of the reports.               *)

CasesInv == TypeOK /\ PermitInv /\ EvidenceInv /\ TrailInv /\ ShownInv

ReportInv ==
    /\ half = "async" => CasesInv
    /\ half = "sync" => RunnerInv

LEMMA ReportInvStarts == ReportsInit => ReportInv
BY InitHolds, EvidenceInit, TrailInit, ShownInit, RunnerStarts
   DEF ReportsInit, ReportInv, CasesInv

LEMMA CasesInvHolds ==
    ASSUME CasesInv, [Next]_vars
    PROVE  CasesInv'
<1>1. TypeOK' /\ PermitInv'
  BY TypeStep, PermitStep DEF CasesInv
<1>2. EvidenceInv'
  BY <1>1, EvidenceStep DEF CasesInv
<1>3. TrailInv'
  BY <1>2, TrailStep DEF CasesInv
<1>4. ShownInv'
  BY <1>1, <1>3, ShownStep DEF CasesInv
<1> QED BY <1>1, <1>2, <1>3, <1>4 DEF CasesInv

LEMMA ReportInvHolds ==
    ASSUME ReportInv, [ReportsNext]_<<half, vars, runnerVars, releaseVars>>
    PROVE  ReportInv'
<1>1. half' = half
  BY DEF ReportsNext
<1>2. CASE half = "async"
  <2>1. [Next]_vars
    BY <1>2 DEF ReportsNext
  <2>2. CasesInv'
    BY <1>2, <2>1, CasesInvHolds DEF ReportInv
  <2> QED BY <1>1, <1>2, <2>2 DEF ReportInv
<1>3. CASE half = "sync"
  <2>1. [RunnerNext]_runnerVars
    BY <1>3 DEF ReportsNext
  <2>2. RunnerInv'
    BY <1>3, <2>1, BatchMoves DEF ReportInv
  <2> QED BY <1>1, <1>3, <2>2 DEF ReportInv
<1>4. CASE half \notin {"async", "sync"}
  BY <1>1, <1>4 DEF ReportInv
<1> QED BY <1>2, <1>3, <1>4

LEMMA BatchExact ==
    ASSUME RunnerInv, BatchDone
    PROVE  /\ Faithful(results, Manifest)
           /\ DifyFaithful(results)
           /\ \A i \in DOMAIN results :
                  /\ Faithful(<<results[i]>>, Frozen(<<Batch[i]>>, <<>>))
                  /\ ClaimsEarned(results[i], Plan(Manifest, results[i].id), <<>>)
<1>1. HonestBatch(results, Batch, <<>>)
  BY BatchIsHonest
<1>2. Manifest = Frozen(Batch, <<>>)
  BY BatchListed
<1>3. Faithful(results, Manifest) /\ DifyFaithful(results)
  BY <1>1, <1>2, HonestFaithful, HonestDify
<1>4. ASSUME NEW i \in DOMAIN results
      PROVE  /\ Faithful(<<results[i]>>, Frozen(<<Batch[i]>>, <<>>))
             /\ ClaimsEarned(results[i], Plan(Manifest, results[i].id), <<>>)
  <2>1. i \in 1..Len(results)
    BY <1>1, BatchRows
  <2>2. /\ HonestRow(results[i], Batch[i], <<>>) /\ ValidScenario(Batch[i])
        /\ Plan(Manifest, results[i].id) = Batch[i]
    BY <1>1, <1>2, <2>1, BatchRows
  <2>3. WrittenRow(results[i])
    BY <2>2 DEF HonestRow
  <2>4. Faithful(<<results[i]>>, Frozen(<<Batch[i]>>, <<>>))
    BY <2>2, LoneRow, HonestFaithful
  <2> QED BY <2>2, <2>3, <2>4, ClaimsAreEarned
<1> QED BY <1>3, <1>4

LEMMA CaseExact ==
    ASSUME CasesInv, NEW c \in Cases, Returned(c)
    PROVE  /\ Faithful(<<CaseRow(c)>>, CaseManifest)
           /\ ClaimsEarned(CaseRow(c), CaseScenario, <<CasePolicy>>)
<1>1. CaseOver(c)
  BY ReturnedIsOver DEF CasesInv, EvidenceInv, TrailInv, ShownInv
<1>2. HonestRow(CaseRow(c), CaseScenario, <<CasePolicy>>) /\ ValidScenario(CaseScenario)
  BY <1>1, CaseIsHonest, CaseAssumption
<1>3. Faithful(<<CaseRow(c)>>, CaseManifest)
  BY <1>2, LoneRow, HonestFaithful DEF CaseManifest
<1>4. ClaimsEarned(CaseRow(c), CaseScenario, <<CasePolicy>>)
  BY <1>2, ClaimsAreEarned DEF HonestRow
<1> QED BY <1>3, <1>4

\* Whatever a run ends in, of whatever scenarios, adapters and evaluators: a
\* scenario passes exactly if what the service did earns it; its report is one
\* that build_run_report builds, and that the strict reader and the recheck of
\* what is stored accept with the conclusions of the runner, but for the reports
\* whose reader comes to an expectation that asks for the shape of a tool's
\* result and not of its arguments, all of which are refused; and no change of
\* one piece of evidence gets a pass accepted that was not earned (runner.py and
\* async_runner.py of workflow_runner, run_report.py and integrity.py of
\* reporting, models.py of quality_loop).
THEOREM ReportAlwaysExact == ReportsSpec => []ReportExact
<1>1. ReportInv => ReportExact
  BY BatchExact, CaseExact DEF ReportInv, ReportExact
<1>2. ReportInv /\ [ReportsNext]_<<half, vars, runnerVars, releaseVars>> => ReportInv'
  BY ReportInvHolds
<1> QED BY <1>1, <1>2, ReportInvStarts, PTL DEF ReportsSpec
================================================================================
