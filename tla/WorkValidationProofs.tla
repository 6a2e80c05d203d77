------------------------ MODULE WorkValidationProofs ------------------------
(***************************************************************************)
(* For every job, every payload that may reach the gate and every limit:   *)
(* the gate accepts what the runner computes and nothing else, the credit  *)
(* follows its verdict, and the outputs of the text workloads say of their *)
(* input what they are for.                                                *)
(*                                                                         *)
(* The last needs what the recursive builders compute, for every input. An *)
(* induction over data is out of reach here, so such a function is shown   *)
(* to exist, and to be the only one, by the least place where it could     *)
(* fail (LeastNumber).                                                     *)
(***************************************************************************)
EXTENDS WorkValidationProperties, FiniteSetTheorems, SequenceTheorems,
        WellFoundedInduction, TLAPS

-----------------------------------------------------------------------------
(* Numbers, lists, and sets put in order.                                  *)

LEMMA LeastNumber ==
    ASSUME NEW S, S \subseteq Nat, S # {}
    PROVE  \E x \in S : \A y \in S : x <= y
<1>. DEFINE Less == {ss \in Nat \X Nat : ss[1] < ss[2]}
<1>1. IsWellFoundedOn(Less, Nat)
  <2>1. OpToRel(<, Nat) = Less
    BY Zenon DEF OpToRel
  <2>. QED BY <2>1, NatLessThanWellFounded, Zenon
<1>2. PICK x \in S : \A y \in S : ~(<<y, x>> \in Less)
  <2>. HIDE DEF Less
  <2>. QED BY <1>1, WFMin
<1>3. ASSUME NEW y \in S PROVE x <= y
  <2>1. <<y, x>> \in Nat \X Nat /\ <<y, x>>[1] = y /\ <<y, x>>[2] = x
    OBVIOUS
  <2>2. ~(y < x)
    BY <1>2, <2>1, Zenon
  <2>. QED BY <2>2
<1>. QED BY <1>3

LEMMA GreatestNumber ==
    ASSUME NEW most \in Nat, NEW S, S \subseteq 0 .. most, S # {}
    PROVE  \E x \in S : \A y \in S : y <= x
<1>. DEFINE gaps == {most - x : x \in S}
<1>1. gaps \subseteq Nat /\ gaps # {}
  <2>1. \A x \in S : x \in 0 .. most
    OBVIOUS
  <2>2. \A x \in S : most - x \in Nat
    BY <2>1
  <2>. QED BY <2>2
<1>2. PICK g \in gaps : \A h \in gaps : g <= h
  <2>. HIDE DEF gaps
  <2>. QED BY <1>1, LeastNumber
<1>3. PICK x \in S : g = most - x
  BY <1>2
<1>4. ASSUME NEW y \in S PROVE y <= x
  <2>1. most - x <= most - y
    BY <1>2, <1>3
  <2>2. x \in Int /\ y \in Int
    OBVIOUS
  <2>. QED BY <2>1, <2>2
<1>. QED BY <1>4

LEMMA ListOf ==
    ASSUME NEW n \in Nat, NEW s, s = [i \in 1 .. n |-> s[i]]
    PROVE  IsList(s) /\ Len(s) = n /\ DOMAIN s = 1 .. n
<1>. DEFINE T == {s[i] : i \in 1 .. n}
<1>1. \A i \in 1 .. n : s[i] \in T
  OBVIOUS
<1>2. s \in [1 .. n -> T]
  <2>. HIDE DEF T
  <2>. QED BY <1>1
<1>3. Len(s) = n /\ DOMAIN s = 1 .. n
  BY <1>2
<1>. QED BY <1>3 DEF IsList

LEMMA ListIsSeq ==
    ASSUME NEW s, IsList(s)
    PROVE  s \in Seq(ToSet(s)) /\ DOMAIN s = 1 .. Len(s)
<1>1. DOMAIN s = 1 .. Len(s)
  BY DEF IsList
<1>2. \A i \in 1 .. Len(s) : s[i] \in ToSet(s)
  BY <1>1 DEF ToSet
<1>3. s \in [1 .. Len(s) -> ToSet(s)]
  BY <1>2 DEF IsList
<1>. QED BY <1>1, <1>3 DEF IsList

LEMMA SeqIsList ==
    ASSUME NEW S, NEW s \in Seq(S)
    PROVE  IsList(s)
BY DEF IsList

LEMMA OneOK ==
    ASSUME NEW a
    PROVE  IsList(<<a>>) /\ Len(<<a>>) = 1 /\ DOMAIN <<a>> = 1 .. 1 /\ <<a>>[1] = a
<1>1. <<a>> \in Seq({a})
  OBVIOUS
<1>2. IsList(<<a>>)
  BY <1>1, SeqIsList
<1>. QED BY <1>2

LEMMA TwoOK ==
    ASSUME NEW a, NEW b
    PROVE  /\ IsList(<<a, b>>) /\ Len(<<a, b>>) = 2 /\ DOMAIN <<a, b>> = 1 .. 2
           /\ <<a, b>>[1] = a /\ <<a, b>>[2] = b
<1>1. <<a, b>> \in Seq({a, b})
  OBVIOUS
<1>2. IsList(<<a, b>>)
  BY <1>1, SeqIsList
<1>. QED BY <1>2

LEMMA ThreeOK ==
    ASSUME NEW a, NEW b, NEW c
    PROVE  /\ IsList(<<a, b, c>>) /\ Len(<<a, b, c>>) = 3 /\ DOMAIN <<a, b, c>> = 1 .. 3
           /\ <<a, b, c>>[1] = a /\ <<a, b, c>>[2] = b /\ <<a, b, c>>[3] = c
<1>1. <<a, b, c>> \in Seq({a, b, c})
  OBVIOUS
<1>2. IsList(<<a, b, c>>)
  BY <1>1, SeqIsList
<1>. QED BY <1>2

LEMMA ConcatOfLists ==
    ASSUME NEW s, IsList(s), NEW t, IsList(t)
    PROVE  /\ IsList(s \o t) /\ Len(s \o t) = Len(s) + Len(t)
           /\ DOMAIN (s \o t) = 1 .. Len(s) + Len(t)
           /\ \A i \in 1 .. Len(s) + Len(t) :
                 (s \o t)[i] = IF i <= Len(s) THEN s[i] ELSE t[i - Len(s)]
<1>. DEFINE S == ToSet(s) \cup ToSet(t)
<1>1. s \in Seq(S) /\ t \in Seq(S)
  <2>1. s \in Seq(ToSet(s)) /\ t \in Seq(ToSet(t))
    BY ListIsSeq
  <2>2. ToSet(s) \subseteq S /\ ToSet(t) \subseteq S
    OBVIOUS
  <2>. HIDE DEF S
  <2>. QED BY <2>1, <2>2, SeqMonotonic
<1>. HIDE DEF S
<1>2. s \o t \in Seq(S)
  BY <1>1
<1>3. IsList(s \o t)
  BY <1>2, SeqIsList
<1>4. Len(s \o t) = Len(s) + Len(t) /\ DOMAIN (s \o t) = 1 .. Len(s) + Len(t)
  BY <1>1
<1>5. \A i \in 1 .. Len(s) + Len(t) :
          (s \o t)[i] = IF i <= Len(s) THEN s[i] ELSE t[i - Len(s)]
  BY <1>1
<1>. QED BY <1>3, <1>4, <1>5

(* What is cut from the front of a list of known length is a list.         *)
LEMMA FirstIsList ==
    ASSUME NEW s, IsList(s), NEW n \in Nat
    PROVE  /\ Len(FirstOf(s, n)) \in Nat /\ Len(FirstOf(s, n)) <= Len(s)
           /\ DOMAIN FirstOf(s, n) = 1 .. Len(FirstOf(s, n))
           /\ \A i \in DOMAIN FirstOf(s, n) : i \in 1 .. Len(s) /\ FirstOf(s, n)[i] = s[i]
<1>1. s \in Seq(ToSet(s)) /\ Len(s) \in Nat
  BY ListIsSeq DEF IsList
<1>. QED BY <1>1 DEF FirstOf

(* As many different values as places.                                     *)
LEMMA DistinctValues ==
    ASSUME NEW n \in Nat, NEW s, \A i, k \in 1 .. n : i < k => s[i] # s[k]
    PROVE  /\ IsFiniteSet({s[i] : i \in 1 .. n})
           /\ Cardinality({s[i] : i \in 1 .. n}) = n
<1>. DEFINE S == {s[i] : i \in 1 .. n}
            f == [i \in 1 .. n |-> s[i]]
<1>1. f \in Bijection(1 .. n, S)
  <2>1. \A i, k \in 1 .. n : f[i] = f[k] => i = k
    <3>1. \A i, k \in 1 .. n : i < k \/ k < i \/ i = k
      OBVIOUS
    <3>. QED BY <3>1
  <2>. QED BY <2>1 DEF Bijection, Injection, Surjection, IsInjective
<1>2. IsFiniteSet(1 .. n) /\ Cardinality(1 .. n) = n
  <2>1. 1 \in Int /\ n \in Int
    OBVIOUS
  <2>2. IsFiniteSet(1 .. n) /\ Cardinality(1 .. n) = IF 1 > n THEN 0 ELSE n - 1 + 1
    BY <2>1, FS_Interval
  <2>. QED BY <2>2
<1>3. ExistsBijection(1 .. n, S)
  BY <1>1 DEF ExistsBijection
<1>. HIDE DEF S
<1>4. IsFiniteSet(S) /\ Cardinality(S) = n
  BY <1>2, <1>3, FS_Bijection
<1>. QED BY <1>4 DEF S

(* A running total is the only one.                                        *)
Sums(f, n, len) == f = [i \in 0 .. n |-> IF i = 0 THEN 0 ELSE f[i - 1] + len[i]]
LEMMA SameTotals ==
    ASSUME NEW n \in Nat, NEW len, NEW e, NEW f, Sums(e, n, len), Sums(f, n, len)
    PROVE  f = e
<1>. DEFINE Differ == {i \in 0 .. n : e[i] # f[i]}
<1>1. Differ = {}
  <2>. SUFFICES ASSUME Differ # {} PROVE FALSE
    OBVIOUS
  <2>1. PICK i \in Differ : \A k \in Differ : i <= k
    <3>1. Differ \subseteq Nat
      OBVIOUS
    <3>. HIDE DEF Differ
    <3>. QED BY <3>1, LeastNumber
  <2>2. i \in 0 .. n /\ e[i] # f[i]
    BY <2>1
  <2>3. CASE i = 0
    <3>1. e[0] = 0 /\ f[0] = 0
      BY DEF Sums
    <3>. QED BY <2>2, <2>3, <3>1
  <2>4. CASE i # 0
    <3>1. i - 1 \in 0 .. n /\ ~(i <= i - 1)
      BY <2>2, <2>4
    <3>2. e[i - 1] = f[i - 1]
      BY <2>1, <3>1
    <3>3. e[i] = e[i - 1] + len[i] /\ f[i] = f[i - 1] + len[i]
      BY <2>2, <2>4 DEF Sums
    <3>. QED BY <2>2, <3>2, <3>3
  <2>. QED BY <2>3, <2>4
<1>2. \A i \in 0 .. n : e[i] = f[i]
  BY <1>1
<1>. QED BY <1>2 DEF Sums

StrictlyOrders(R, S) ==
    /\ R \subseteq S \X S
    /\ \A x \in S : <<x, x>> \notin R
    /\ \A x, y, z \in S : <<x, y>> \in R /\ <<y, z>> \in R => <<x, z>> \in R
    /\ \A x, y \in S : x = y \/ <<x, y>> \in R \/ <<y, x>> \in R
Rank(x, R, S) == Cardinality({y \in S : <<y, x>> \in R})

LEMMA RankGrows ==
    ASSUME NEW S, IsFiniteSet(S), NEW R, StrictlyOrders(R, S), NEW x \in S
    PROVE  /\ Rank(x, R, S) \in 0 .. Cardinality(S) - 1
           /\ \A y \in S : <<y, x>> \in R <=> Rank(y, R, S) < Rank(x, R, S)
<1>. DEFINE Below(u) == {y \in S : <<y, u>> \in R}
<1>1. ASSUME NEW u \in S
      PROVE  IsFiniteSet(Below(u)) /\ Cardinality(Below(u)) \in Nat /\ u \notin Below(u)
  <2>1. Below(u) \in SUBSET S
    OBVIOUS
  <2>. QED BY <2>1, FS_Subset, FS_CardinalityType DEF StrictlyOrders
<1>2. ASSUME NEW u \in S, NEW T, IsFiniteSet(T), Below(u) \subseteq T, u \in T
      PROVE  Cardinality(Below(u)) < Cardinality(T)
  <2>1. Cardinality(Below(u)) <= Cardinality(T) /\ Cardinality(Below(u)) # Cardinality(T)
    BY <1>1, <1>2, FS_Subset
  <2>2. Cardinality(Below(u)) \in Nat /\ Cardinality(T) \in Nat
    BY <1>1, <1>2, FS_CardinalityType
  <2>. HIDE DEF Below
  <2>. QED BY <2>1, <2>2
<1>3. \A u \in S : Rank(u, R, S) = Cardinality(Below(u))
  BY DEF Rank
<1>4. Cardinality(Below(x)) < Cardinality(S)
  BY <1>2
<1>5. ASSUME NEW y \in S, NEW z \in S, <<y, z>> \in R
      PROVE  Cardinality(Below(y)) < Cardinality(Below(z))
  <2>1. Below(y) \subseteq Below(z) /\ y \in Below(z)
    BY <1>5 DEF StrictlyOrders
  <2>2. IsFiniteSet(Below(z))
    BY <1>1
  <2>. HIDE DEF Below
  <2>. QED BY <1>2, <2>1, <2>2
<1>6. ASSUME NEW y \in S PROVE <<y, x>> \in R <=> Rank(y, R, S) < Rank(x, R, S)
  <2>1. Cardinality(Below(x)) \in Nat /\ Cardinality(Below(y)) \in Nat
    BY <1>1
  <2>2. x = y \/ <<x, y>> \in R \/ <<y, x>> \in R
    BY DEF StrictlyOrders
  <2>3. x = y => <<y, x>> \notin R
    BY DEF StrictlyOrders
  <2>4. /\ <<x, y>> \in R => Cardinality(Below(x)) < Cardinality(Below(y))
        /\ <<y, x>> \in R => Cardinality(Below(y)) < Cardinality(Below(x))
    BY <1>5
  <2>. HIDE DEF Below
  <2>. QED BY <1>3, <2>1, <2>2, <2>3, <2>4
<1>7. Cardinality(Below(x)) \in Nat /\ Cardinality(S) \in Nat
  BY <1>1, FS_CardinalityType
<1>. HIDE DEF Below
<1>. QED BY <1>3, <1>4, <1>6, <1>7

(* Each place of the order is taken.                                       *)
LEMMA RankTaken ==
    ASSUME NEW S, IsFiniteSet(S), NEW R, StrictlyOrders(R, S),
           NEW n \in 0 .. Cardinality(S) - 1
    PROVE  \E x \in S : Rank(x, R, S) = n
<1>. DEFINE Places == 0 .. Cardinality(S) - 1
            f == [x \in S |-> Rank(x, R, S)]
<1>1. Cardinality(S) \in Nat
  BY FS_CardinalityType
<1>2. f \in [S -> Places]
  BY RankGrows
<1>3. ASSUME NEW x \in S, NEW y \in S, f[x] = f[y] PROVE x = y
  <2>1. Rank(x, R, S) \in Int /\ Rank(x, R, S) = Rank(y, R, S)
    BY <1>3, RankGrows
  <2>2. <<x, y>> \notin R /\ <<y, x>> \notin R
    BY <2>1, RankGrows
  <2>. QED BY <2>2 DEF StrictlyOrders
<1>4. f \in Injection(S, Places)
  <2>. HIDE DEF f
  <2>. QED BY <1>2, <1>3 DEF Injection, IsInjective
<1>5. IsFiniteSet(Places) /\ Cardinality(Places) = Cardinality(S)
  <2>1. 0 \in Int /\ Cardinality(S) - 1 \in Int
    BY <1>1
  <2>. QED BY <1>1, <2>1, FS_Interval
<1>6. f \in Surjection(S, Places)
  <2>. HIDE DEF f, Places
  <2>. QED BY <1>4, <1>5, FS_Injection
<1>7. PICK x \in S : f[x] = n
  <2>. HIDE DEF f
  <2>. QED BY <1>6 DEF Surjection
<1>. QED BY <1>7

Ranks(s, S, R) ==
    /\ s = [n \in 1 .. Cardinality(S) |-> s[n]]
    /\ \A n \in 1 .. Cardinality(S) :
          (\E x \in S : Rank(x, R, S) = n - 1) => s[n] \in S /\ Rank(s[n], R, S) = n - 1

(* A set put in order is a list of its elements, each listed once.         *)
LEMMA InOrder ==
    ASSUME NEW S, IsFiniteSet(S), NEW R, StrictlyOrders(R, S),
           NEW s, Ranks(s, S, R)
    PROVE  /\ s \in Seq(S) /\ Len(s) = Cardinality(S)
           /\ \A i, k \in DOMAIN s : <<s[i], s[k]>> \in R <=> i < k
           /\ \A i, k \in DOMAIN s : s[i] = s[k] => i = k
           /\ \A x \in S : \E i \in DOMAIN s : s[i] = x
<1>1. Cardinality(S) \in Nat
  BY FS_CardinalityType
<1>2. ASSUME NEW n \in 1 .. Cardinality(S)
      PROVE  s[n] \in S /\ Rank(s[n], R, S) = n - 1
  <2>1. n - 1 \in 0 .. Cardinality(S) - 1
    BY <1>1
  <2>2. \E x \in S : Rank(x, R, S) = n - 1
    BY <2>1, RankTaken
  <2>. QED BY <2>2 DEF Ranks
<1>3. s \in [1 .. Cardinality(S) -> S]
  <2>1. s = [n \in 1 .. Cardinality(S) |-> s[n]]
    BY DEF Ranks
  <2>. QED BY <1>2, <2>1
<1>4. s \in Seq(S) /\ Len(s) = Cardinality(S) /\ DOMAIN s = 1 .. Cardinality(S)
  BY <1>1, <1>3
<1>5. ASSUME NEW i \in DOMAIN s, NEW k \in DOMAIN s
      PROVE  /\ <<s[i], s[k]>> \in R <=> i < k
             /\ s[i] = s[k] => i = k
  <2>1. i \in 1 .. Cardinality(S) /\ k \in 1 .. Cardinality(S)
    BY <1>4
  <2>2. <<s[i], s[k]>> \in R <=> Rank(s[i], R, S) < Rank(s[k], R, S)
    BY <1>2, <2>1, RankGrows
  <2>3. Rank(s[i], R, S) = i - 1 /\ Rank(s[k], R, S) = k - 1
    BY <1>2, <2>1
  <2>. QED BY <1>1, <2>1, <2>2, <2>3
<1>6. ASSUME NEW x \in S PROVE \E i \in DOMAIN s : s[i] = x
  <2>1. Rank(x, R, S) \in 0 .. Cardinality(S) - 1
    BY RankGrows
  <2>2. PICK i \in 1 .. Cardinality(S) : i - 1 = Rank(x, R, S)
    <3>1. ASSUME NEW r \in 0 .. Cardinality(S) - 1
          PROVE  r + 1 \in 1 .. Cardinality(S) /\ (r + 1) - 1 = r
      BY <1>1
    <3>. QED BY <2>1, <3>1, Zenon
  <2>3. s[i] \in S /\ Rank(s[i], R, S) = Rank(x, R, S)
    BY <1>2, <2>2
  <2>4. <<s[i], x>> \notin R /\ <<x, s[i]>> \notin R
    BY <2>1, <2>3, RankGrows
  <2>. QED BY <1>4, <2>3, <2>4 DEF StrictlyOrders
<1>. QED BY <1>4, <1>5, <1>6

-----------------------------------------------------------------------------
(* Texts: what the runs of a text are, and their order.                    *)

LEMMA RunsAreTexts ==
    ASSUME NEW t \in Seq(Int), NEW kept
    PROVE  Runs(t, kept) \in Seq(Seq(Int))
<1>. DEFINE starts == {i \in DOMAIN t : t[i] \in kept /\ (i > 1 => t[i - 1] \notin kept)}
            Ends(i, j) == /\ \A k \in i .. j : t[k] \in kept
                          /\ j = Len(t) \/ t[j + 1] \notin kept
            end(i) == CHOOSE j \in i .. Len(t) : Ends(i, j)
            R == {p \in starts \X starts : p[1] < p[2]}
            s == Ordered(starts, <)
<1>1. Len(t) \in Nat /\ DOMAIN t = 1 .. Len(t)
  OBVIOUS
<1>2. ASSUME NEW i \in starts PROVE end(i) \in i .. Len(t)
  <2>1. i \in 1 .. Len(t) /\ t[i] \in kept
    BY <1>1
  <2>. DEFINE E == {j \in i .. Len(t) : j = Len(t) \/ t[j + 1] \notin kept}
  <2>2. Len(t) \in E /\ E \subseteq Nat
    BY <1>1, <2>1
  <2>3. PICK j \in E : \A k \in E : j <= k
    <3>. HIDE DEF E
    <3>. QED BY <2>2, LeastNumber
  <2>4. ASSUME NEW k \in i .. j PROVE t[k] \in kept
    <3>1. CASE k = i
      BY <2>1, <3>1
    <3>2. CASE k # i
      <4>1. k - 1 \in i .. Len(t) /\ ~(j <= k - 1) /\ k - 1 # Len(t) /\ (k - 1) + 1 = k
        <5>1. i \in Int /\ j \in i .. Len(t) /\ k \in i .. j
          BY <2>1, <2>3, <2>4
        <5>. HIDE DEF starts, E, R
        <5>. QED BY <1>1, <3>2, <5>1
      <4>2. k - 1 \notin E
        BY <2>3, <4>1
      <4>. QED BY <4>1, <4>2
    <3>. QED BY <3>1, <3>2
  <2>5. Ends(i, j) /\ j \in i .. Len(t)
    BY <2>3, <2>4
  <2>. HIDE DEF Ends, E
  <2>. QED BY <2>5
<1>3. IsFiniteSet(starts) /\ starts \subseteq Int
  <2>1. IsFiniteSet(1 .. Len(t))
    BY <1>1, FS_Interval
  <2>2. starts \in SUBSET (1 .. Len(t))
    BY <1>1
  <2>. HIDE DEF starts, R, s
  <2>3. IsFiniteSet(starts)
    BY <2>1, <2>2, FS_Subset
  <2>. QED BY <2>2, <2>3
<1>4. StrictlyOrders(R, starts)
  <2>. HIDE DEF starts
  <2>. QED BY <1>3 DEF StrictlyOrders
<1>5. Ranks(s, starts, R)
  <2>. DEFINE Under(x) == {y \in starts : y < x}
              e(n) == CHOOSE x \in starts : Cardinality(Under(x)) = n - 1
  <2>1. \A x \in starts : Under(x) = {y \in starts : <<y, x>> \in R}
    <3>. HIDE DEF starts
    <3>. QED OBVIOUS
  <2>2. \A x \in starts : Cardinality(Under(x)) = Rank(x, R, starts)
    BY <2>1 DEF Rank
  <2>3. s = [n \in 1 .. Cardinality(starts) |-> e(n)]
    BY Zenon DEF Ordered
  <2>4. ASSUME NEW n, NEW x \in starts, Cardinality(Under(x)) = n - 1
        PROVE  e(n) \in starts /\ Cardinality(Under(e(n))) = n - 1
    <3>. HIDE DEF starts, Under
    <3>. QED BY <2>4
  <2>. HIDE DEF starts, R, s, Under, e
  <2>. QED BY <2>2, <2>3, <2>4 DEF Ranks
<1>6. s \in Seq(starts)
  <2>. HIDE DEF starts, R, s
  <2>. QED BY <1>3, <1>4, <1>5, InOrder
<1>7. Runs(t, kept) = [n \in DOMAIN s |-> SubSeq(t, s[n], end(s[n]))]
  BY Zenon DEF Runs
<1>8. \A i \in starts : SubSeq(t, i, end(i)) \in Seq(Int)
  <2>1. \A i \in starts : i \in 1 .. Len(t)
    BY <1>1
  <2>. HIDE DEF starts, end
  <2>. QED BY <1>1, <1>2, <2>1
<1>. HIDE DEF starts, s, end, R
<1>9. Len(s) \in Nat /\ DOMAIN s = 1 .. Len(s) /\ \A n \in DOMAIN s : s[n] \in starts
  BY <1>6
<1>. QED BY <1>7, <1>8, <1>9

LEMMA TokensAreTexts ==
    ASSUME NEW t \in Seq(Int)
    PROVE  /\ Tokens(t) \in Seq(Seq(Int))
           /\ Len(Tokens(t)) \in Nat /\ DOMAIN Tokens(t) = 1 .. Len(Tokens(t))
           /\ IsFiniteSet(DOMAIN Tokens(t))
           /\ \A i \in DOMAIN Tokens(t) : Tokens(t)[i] \in Seq(Int)
           /\ IsFiniteSet(ToSet(Tokens(t))) /\ ToSet(Tokens(t)) \subseteq Seq(Int)
<1>1. Tokens(t) \in Seq(Seq(Int))
  BY RunsAreTexts DEF Tokens
<1>2. /\ Len(Tokens(t)) \in Nat /\ DOMAIN Tokens(t) = 1 .. Len(Tokens(t))
      /\ \A i \in DOMAIN Tokens(t) : Tokens(t)[i] \in Seq(Int)
  BY <1>1
<1>3. IsFiniteSet(DOMAIN Tokens(t))
  <2>1. 1 \in Int /\ Len(Tokens(t)) \in Int
    BY <1>2
  <2>. QED BY <1>2, <2>1, FS_Interval
<1>4. Tokens(t) \in Surjection(DOMAIN Tokens(t), ToSet(Tokens(t)))
  BY <1>1 DEF Surjection, ToSet
<1>5. IsFiniteSet(ToSet(Tokens(t)))
  BY <1>3, <1>4, FS_Surjection
<1>6. ToSet(Tokens(t)) \subseteq Seq(Int)
  BY <1>2 DEF ToSet
<1>. QED BY <1>1, <1>2, <1>3, <1>5, <1>6

(* Texts in the order of Python: the first position at which they differ.  *)
Before(a, b, i) ==
    /\ i \in 1 .. Len(b) /\ i - 1 <= Len(a)
    /\ \A k \in 1 .. i - 1 : a[k] = b[k]
    /\ i <= Len(a) => a[i] < b[i]

LEMMA TextLessAt ==
    ASSUME NEW a \in Seq(Int), NEW b \in Seq(Int)
    PROVE  TextLess(a, b) <=> \E i \in 1 .. Len(b) : Before(a, b, i)
<1>0. Len(a) \in Nat /\ Len(b) \in Nat
  OBVIOUS
<1>1. ASSUME Len(a) < Len(b), a = SubSeq(b, 1, Len(a))
      PROVE  \E i \in 1 .. Len(b) : Before(a, b, i)
  <2>1. \A k \in 1 .. Len(a) : a[k] = b[k]
    BY <1>1
  <2>2. Len(a) + 1 \in 1 .. Len(b) /\ (Len(a) + 1) - 1 = Len(a) /\ ~(Len(a) + 1 <= Len(a))
    BY <1>0, <1>1
  <2>3. Before(a, b, Len(a) + 1)
    BY <2>1, <2>2, <1>0 DEF Before
  <2>. QED BY <2>2, <2>3
<1>2. ASSUME NEW i \in 1 .. Len(a), i <= Len(b), a[i] < b[i],
             \A k \in 1 .. i - 1 : a[k] = b[k]
      PROVE  i \in 1 .. Len(b) /\ Before(a, b, i)
  BY <1>0, <1>2 DEF Before
<1>3. ASSUME NEW i \in 1 .. Len(b), Before(a, b, i) PROVE TextLess(a, b)
  <2>1. CASE i <= Len(a)
    BY <1>0, <1>3, <2>1 DEF Before, TextLess
  <2>2. CASE ~(i <= Len(a))
    <3>1. i = Len(a) + 1 /\ Len(a) < Len(b) /\ i - 1 = Len(a)
      BY <1>0, <1>3, <2>2 DEF Before
    <3>2. \A k \in 1 .. Len(a) : a[k] = b[k]
      BY <1>3, <3>1 DEF Before
    <3>3. a = SubSeq(b, 1, Len(a))
      BY <1>0, <3>1, <3>2
    <3>. QED BY <3>1, <3>3 DEF TextLess
  <2>. QED BY <2>1, <2>2
<1>. QED BY <1>1, <1>2, <1>3 DEF TextLess

LEMMA TextOrder ==
    ASSUME NEW a \in Seq(Int), NEW b \in Seq(Int), NEW c \in Seq(Int)
    PROVE  /\ ~TextLess(a, a)
           /\ TextLess(a, b) /\ TextLess(b, c) => TextLess(a, c)
           /\ a = b \/ TextLess(a, b) \/ TextLess(b, a)
<1>0. Len(a) \in Nat /\ Len(b) \in Nat /\ Len(c) \in Nat
      /\ (\A i \in 1 .. Len(a) : a[i] \in Int) /\ (\A i \in 1 .. Len(b) : b[i] \in Int)
      /\ (\A i \in 1 .. Len(c) : c[i] \in Int)
  OBVIOUS
<1>1. ~TextLess(a, a)
  <2>1. ~ \E i \in 1 .. Len(a) : Before(a, a, i)
    BY <1>0 DEF Before
  <2>. QED BY <2>1, TextLessAt
<1>2. ASSUME TextLess(a, b), TextLess(b, c) PROVE TextLess(a, c)
  <2>1. PICK i \in 1 .. Len(b) : Before(a, b, i)
    BY <1>2, TextLessAt
  <2>2. PICK j \in 1 .. Len(c) : Before(b, c, j)
    BY <1>2, TextLessAt
  <2>0. /\ i - 1 <= Len(a) /\ (\A k \in 1 .. i - 1 : a[k] = b[k])
        /\ j - 1 <= Len(b) /\ (\A k \in 1 .. j - 1 : b[k] = c[k])
        /\ (i <= Len(a) => a[i] < b[i]) /\ (j <= Len(b) => b[j] < c[j])
    BY <2>1, <2>2 DEF Before
  <2>3. CASE i < j
    <3>1. i \in 1 .. Len(c) /\ i - 1 <= Len(a) /\ i \in 1 .. j - 1 /\ b[i] = c[i]
      BY <2>0, <2>3
    <3>2. ASSUME NEW k \in 1 .. i - 1 PROVE a[k] = c[k]
      <4>1. k \in 1 .. j - 1
        BY <2>3
      <4>. QED BY <2>0, <4>1
    <3>3. Before(a, c, i)
      BY <2>0, <3>1, <3>2 DEF Before
    <3>. QED BY <3>1, <3>3, TextLessAt
  <2>4. CASE i = j
    <3>1. i \in 1 .. Len(c) /\ i - 1 <= Len(a)
      BY <2>0, <2>4
    <3>2. ASSUME i <= Len(a) PROVE a[i] < c[i]
      <4>1. a[i] < b[i] /\ b[i] < c[i] /\ i \in 1 .. Len(a)
        BY <1>0, <2>0, <2>4, <3>2
      <4>2. a[i] \in Int /\ b[i] \in Int /\ c[i] \in Int
        BY <1>0, <3>1, <4>1
      <4>3. \A x, y, z \in Int : x < y /\ y < z => x < z
        OBVIOUS
      <4>. QED BY <4>1, <4>2, <4>3, Zenon
    <3>3. \A k \in 1 .. i - 1 : a[k] = c[k]
      BY <2>0, <2>4
    <3>4. Before(a, c, i)
      BY <3>1, <3>2, <3>3 DEF Before
    <3>. QED BY <3>1, <3>4, TextLessAt
  <2>5. CASE j < i
    <3>1. j - 1 <= Len(a) /\ j <= Len(b)
      <4>1. i - 1 <= Len(a) /\ i <= Len(b)
        BY <2>0
      <4>2. i \in Int /\ j \in Int /\ Len(a) \in Int /\ Len(b) \in Int
        BY <1>0
      <4>3. \A x, y, p, q \in Int : x < y /\ y - 1 <= p /\ y <= q => x - 1 <= p /\ x <= q
        OBVIOUS
      <4>. QED BY <2>5, <4>1, <4>2, <4>3, Zenon
    <3>2. a[j] = b[j] /\ b[j] < c[j]
      <4>1. j \in 1 .. i - 1
        BY <2>5
      <4>. QED BY <2>0, <3>1, <4>1
    <3>3. ASSUME NEW k \in 1 .. j - 1 PROVE a[k] = c[k]
      <4>1. k \in 1 .. i - 1
        BY <2>5
      <4>. QED BY <2>0, <4>1
    <3>4. Before(a, c, j)
      BY <3>1, <3>2, <3>3 DEF Before
    <3>. QED BY <3>4, TextLessAt
  <2>. QED BY <2>3, <2>4, <2>5
<1>3. ASSUME a # b PROVE TextLess(a, b) \/ TextLess(b, a)
  <2>. DEFINE most == IF Len(a) < Len(b) THEN Len(a) ELSE Len(b)
              Differ == {k \in 1 .. most : a[k] # b[k]}
  <2>1. most \in Nat /\ most <= Len(a) /\ most <= Len(b)
    BY <1>0
  <2>2. CASE Differ = {}
    <3>1. \A k \in 1 .. most : a[k] = b[k]
      BY <2>2
    <3>2. CASE Len(a) < Len(b)
      <4>1. a = SubSeq(b, 1, Len(a))
        BY <1>0, <3>1, <3>2
      <4>. QED BY <3>2, <4>1 DEF TextLess
    <3>3. CASE Len(b) < Len(a)
      <4>1. b = SubSeq(a, 1, Len(b))
        BY <1>0, <3>1, <3>3
      <4>. QED BY <3>3, <4>1 DEF TextLess
    <3>4. CASE Len(a) = Len(b)
      <4>1. a = [k \in 1 .. Len(a) |-> a[k]] /\ b = [k \in 1 .. Len(b) |-> b[k]]
        OBVIOUS
      <4>2. \A k \in 1 .. Len(a) : a[k] = b[k]
        BY <3>1, <3>4
      <4>. HIDE DEF most, Differ
      <4>3. a = b
        BY <3>4, <4>1, <4>2
      <4>. QED BY <1>3, <4>3
    <3>. QED BY <1>0, <3>2, <3>3, <3>4
  <2>3. CASE Differ # {}
    <3>1. PICK i \in Differ : \A k \in Differ : i <= k
      <4>1. Differ \subseteq Nat
        BY <2>1
      <4>. HIDE DEF Differ
      <4>. QED BY <2>3, <4>1, LeastNumber
    <3>2. i \in 1 .. Len(a) /\ i \in 1 .. Len(b) /\ a[i] # b[i]
      BY <1>0, <2>1, <3>1
    <3>3. \A k \in 1 .. i - 1 : a[k] = b[k]
      <4>1. ASSUME NEW k \in 1 .. i - 1 PROVE k \in 1 .. most /\ ~(i <= k)
        BY <2>1, <3>1
      <4>. QED BY <3>1, <4>1
    <3>. HIDE DEF Differ, most
    <3>4. a[i] < b[i] \/ b[i] < a[i]
      BY <1>0, <3>2
    <3>5. a[i] < b[i] => Before(a, b, i)
      BY <1>0, <3>2, <3>3 DEF Before
    <3>6. b[i] < a[i] => Before(b, a, i)
      BY <1>0, <3>2, <3>3 DEF Before
    <3>. QED BY <3>2, <3>4, <3>5, <3>6, TextLessAt
  <2>. QED BY <2>2, <2>3
<1>. QED BY <1>1, <1>2, <1>3

(* Texts are ordered by any number first, then by themselves.              *)
LEMMA NumberThenText ==
    ASSUME NEW S, S \subseteq Seq(Int), NEW c \in [S -> Int]
    PROVE  StrictlyOrders({q \in S \X S : \/ c[q[1]] > c[q[2]]
                                          \/ c[q[1]] = c[q[2]] /\ TextLess(q[1], q[2])}, S)
<1>. DEFINE R == {q \in S \X S : \/ c[q[1]] > c[q[2]]
                                 \/ c[q[1]] = c[q[2]] /\ TextLess(q[1], q[2])}
<1>1. \A x, y \in S : <<x, y>> \in R <=> \/ c[x] > c[y]
                                         \/ c[x] = c[y] /\ TextLess(x, y)
  OBVIOUS
<1>2. R \subseteq S \X S
  OBVIOUS
<1>3. \A x \in S : c[x] \in Int /\ x \in Seq(Int)
  OBVIOUS
<1>. HIDE DEF R
<1>4. ASSUME NEW x \in S PROVE <<x, x>> \notin R
  BY <1>1, <1>3, TextOrder
<1>5. ASSUME NEW x \in S, NEW y \in S, NEW z \in S, <<x, y>> \in R, <<y, z>> \in R
      PROVE  <<x, z>> \in R
  <2>1. x \in Seq(Int) /\ y \in Seq(Int) /\ z \in Seq(Int)
    BY <1>3
  <2>2. TextLess(x, y) /\ TextLess(y, z) => TextLess(x, z)
    BY <2>1, TextOrder
  <2>3. c[x] \in Int /\ c[y] \in Int /\ c[z] \in Int
    BY <1>3
  <2>4. /\ c[x] > c[y] \/ (c[x] = c[y] /\ TextLess(x, y))
        /\ c[y] > c[z] \/ (c[y] = c[z] /\ TextLess(y, z))
    BY <1>1, <1>5
  <2>5. c[x] > c[z] \/ (c[x] = c[z] /\ TextLess(x, z))
    BY <2>2, <2>3, <2>4
  <2>. QED BY <1>1, <2>5
<1>6. ASSUME NEW x \in S, NEW y \in S PROVE x = y \/ <<x, y>> \in R \/ <<y, x>> \in R
  <2>1. x \in Seq(Int) /\ y \in Seq(Int) /\ c[x] \in Int /\ c[y] \in Int
    BY <1>3
  <2>2. x = y \/ TextLess(x, y) \/ TextLess(y, x)
    BY <2>1, TextOrder
  <2>. QED BY <1>1, <2>1, <2>2
<1>7. StrictlyOrders(R, S)
  BY <1>2, <1>4, <1>5, <1>6 DEF StrictlyOrders
<1>. QED BY <1>7 DEF R

(* Documents are ordered by their matches first, then by their IDs.        *)
LEMMA NumberThenId ==
    ASSUME NEW S, NEW c \in [S -> Int],
           \A x, y \in S : x.id \in Int /\ (x.id = y.id => x = y)
    PROVE  StrictlyOrders({q \in S \X S : \/ c[q[1]] > c[q[2]]
                                          \/ c[q[1]] = c[q[2]] /\ q[1].id < q[2].id}, S)
<1>. DEFINE R == {q \in S \X S : \/ c[q[1]] > c[q[2]]
                                 \/ c[q[1]] = c[q[2]] /\ q[1].id < q[2].id}
<1>1. \A x, y \in S : <<x, y>> \in R <=> \/ c[x] > c[y]
                                         \/ c[x] = c[y] /\ x.id < y.id
  OBVIOUS
<1>2. R \subseteq S \X S
  OBVIOUS
<1>3. \A x \in S : c[x] \in Int /\ x.id \in Int
  OBVIOUS
<1>. HIDE DEF R
<1>4. \A x \in S : <<x, x>> \notin R
  BY <1>1, <1>3
<1>5. \A x, y, z \in S : <<x, y>> \in R /\ <<y, z>> \in R => <<x, z>> \in R
  BY <1>1, <1>3
<1>6. ASSUME NEW x \in S, NEW y \in S PROVE x = y \/ <<x, y>> \in R \/ <<y, x>> \in R
  <2>1. x = y \/ x.id < y.id \/ y.id < x.id
    BY <1>3
  <2>. QED BY <1>1, <1>3, <2>1
<1>7. StrictlyOrders(R, S)
  BY <1>2, <1>4, <1>5, <1>6 DEF StrictlyOrders
<1>. QED BY <1>7 DEF R

-----------------------------------------------------------------------------
(* What the builders compute from a usable payload.                        *)

LEMMA Limits ==
    /\ MaxLimit \in Nat \ {0} /\ MaxDimensions \in Nat \ {0} /\ MaxChars \in Nat \ {0}
    /\ MinDimensions \in Nat \ {0} /\ DefaultLimit \in Nat \ {0}
    /\ DefaultDimensions \in Nat \ {0} /\ DefaultMaxChars \in Nat \ {0}
BY LimitsAssumption DEF LimitsAssumption

LEMMA UsableNumber ==
    ASSUME NEW v, MaybeNumber(v), NEW default \in Int, NEW low \in Nat, NEW high \in Int,
           Within(OrDefault(v, default), low, high)
    PROVE  OrDefault(v, default) \in Nat /\ OrDefault(v, default) \in low .. high
BY DEF MaybeNumber, OrDefault, Within

LEMMA UsableLimit ==
    ASSUME NEW v, MaybeNumber(v), NEW default \in Int, NEW high \in Int,
           Within(OrDefault(v, default), 1, high)
    PROVE  OrDefault(v, default) \in Nat \ {0}
BY DEF MaybeNumber, OrDefault, Within

LEMMA UsableText ==
    ASSUME NEW t, MaybeText(t), HasWords(t)
    PROVE  t \in Seq(Int)
BY DEF MaybeText, HasWords, IsText

(* The terms of a text, and how often one occurs.                          *)
Kept(t) == {i \in DOMAIN Tokens(t) : Tokens(t)[i] \notin Stopwords}
Terms(t) == {Tokens(t)[i] : i \in Kept(t)}
Often(w, t) == Cardinality({i \in DOMAIN Tokens(t) : Tokens(t)[i] = w})

(* A keyword job lists the first n of the distinct terms s of a text, the  *)
(* frequent ones first.                                                    *)
KeywordsOf(out, t, s, n) ==
    /\ s \in Seq(Terms(t)) /\ n \in Nat /\ n <= Len(s)
    /\ \A i, k \in 1 .. Len(s) : i < k => s[i] # s[k] /\ Often(s[k], t) <= Often(s[i], t)
    /\ \A w \in Terms(t) : \E i \in 1 .. Len(s) : s[i] = w
    /\ out = [keywords |-> [i \in 1 .. n |-> <<Str(s[i]), Num(Often(s[i], t))>>],
              unique_terms |-> Scalar(Num(Cardinality(Terms(t)))),
              total_terms |-> Scalar(Num(Cardinality(Kept(t))))]
LEMMA KeywordsBuilt ==
    ASSUME NEW p, PayloadOK("keyword_extract", p), BuildKeywordExtract(p) # Malformed
    PROVE  \E s, n : KeywordsOf(BuildKeywordExtract(p), p.text, s, n)
<1>. DEFINE limit == OrDefault(p.limit, DefaultLimit)
            tokens == Tokens(p.text)
            kept == {i \in DOMAIN tokens : tokens[i] \notin Stopwords}
            terms == {tokens[i] : i \in kept}
            count(t) == Cardinality({i \in kept : tokens[i] = t})
            before(a, b) == \/ count(a) > count(b)
                            \/ count(a) = count(b) /\ TextLess(a, b)
            ordered == Ordered(terms, before)
            listed == FirstOf(ordered, limit)
            rows == [i \in DOMAIN listed |-> <<Str(listed[i]), Num(count(listed[i]))>>]
            c == [w \in terms |-> count(w)]
            R == {q \in terms \X terms : \/ c[q[1]] > c[q[2]]
                                         \/ c[q[1]] = c[q[2]] /\ TextLess(q[1], q[2])}
<1>1. /\ HasWords(p.text) /\ Within(limit, 1, MaxLimit)
      /\ BuildKeywordExtract(p) =
            [keywords |-> rows, unique_terms |-> Scalar(Num(Cardinality(terms))),
             total_terms |-> Scalar(Num(Cardinality(kept)))]
  BY Zenon DEF BuildKeywordExtract
<1>0. HasWords(p.text) /\ Within(OrDefault(p.limit, DefaultLimit), 1, MaxLimit)
  BY <1>1
<1>2. p.text \in Seq(Int) /\ limit \in Nat
  <2>1. MaybeText(p.text) /\ MaybeNumber(p.limit)
    BY DEF PayloadOK, ScaledTypes
  <2>2. p.text \in Seq(Int)
    BY <1>0, <2>1, UsableText
  <2>3. limit \in Nat
    BY <1>0, <2>1, UsableLimit, Limits
  <2>. QED BY <2>2, <2>3
<1>3. IsFiniteSet(DOMAIN tokens) /\ IsFiniteSet(ToSet(tokens)) /\ ToSet(tokens) \subseteq Seq(Int)
  BY <1>2, TokensAreTexts
<1>4. IsFiniteSet(terms) /\ terms \subseteq Seq(Int)
  <2>2. terms \in SUBSET ToSet(tokens)
    <3>. HIDE DEF tokens
    <3>. QED BY DEF ToSet
  <2>. HIDE DEF terms, tokens
  <2>. QED BY <1>3, <2>2, FS_Subset
<1>5. \A w : count(w) \in Nat
  <2>1. \A w : {i \in kept : tokens[i] = w} \in SUBSET DOMAIN tokens
    OBVIOUS
  <2>. HIDE DEF kept, tokens
  <2>. QED BY <1>3, <2>1, FS_Subset, FS_CardinalityType
<1>6. \A w \in terms : count(w) = Often(w, p.text)
  <2>1. \A w \in terms : {i \in kept : tokens[i] = w} = {i \in DOMAIN tokens : tokens[i] = w}
    <3>. HIDE DEF tokens
    <3>. QED OBVIOUS
  <2>. HIDE DEF terms, kept
  <2>. QED BY <2>1 DEF Often
<1>18. c \in [terms -> Int] /\ \A w \in terms : c[w] = Often(w, p.text)
  <2>1. \A w \in terms : c[w] = count(w)
    <3>. HIDE DEF terms, count
    <3>. QED OBVIOUS
  <2>2. c \in [terms -> Int]
    <3>. HIDE DEF terms, count
    <3>. QED BY <1>5
  <2>. HIDE DEF terms, count, c
  <2>. QED BY <1>6, <2>1, <2>2
<1>7. StrictlyOrders(R, terms)
  <2>. HIDE DEF terms, c
  <2>. QED BY <1>4, <1>18, NumberThenText
<1>8. Ranks(ordered, terms, R)
  <2>. DEFINE Under(x) == {y \in terms : before(y, x)}
              e(n) == CHOOSE x \in terms : Cardinality(Under(x)) = n - 1
  <2>1. \A x \in terms : Under(x) = {y \in terms : <<y, x>> \in R}
    <3>. HIDE DEF terms, count
    <3>. QED OBVIOUS
  <2>2. \A x \in terms : Cardinality(Under(x)) = Rank(x, R, terms)
    BY <2>1 DEF Rank
  <2>3. ordered = [n \in 1 .. Cardinality(terms) |-> e(n)]
    BY Zenon DEF Ordered
  <2>4. ASSUME NEW n, NEW x \in terms, Cardinality(Under(x)) = n - 1
        PROVE  e(n) \in terms /\ Cardinality(Under(e(n))) = n - 1
    <3>. HIDE DEF terms, Under
    <3>. QED BY <2>4
  <2>. HIDE DEF terms, R, ordered, Under, e
  <2>. QED BY <2>2, <2>3, <2>4 DEF Ranks
<1>9. /\ ordered \in Seq(terms)
      /\ \A i, k \in DOMAIN ordered : <<ordered[i], ordered[k]>> \in R <=> i < k
      /\ \A x \in terms : \E i \in DOMAIN ordered : ordered[i] = x
  <2>. HIDE DEF terms, R, ordered
  <2>. QED BY <1>4, <1>7, <1>8, InOrder
<1>10. /\ Len(ordered) \in Nat /\ DOMAIN ordered = 1 .. Len(ordered) /\ IsList(ordered)
       /\ \A i \in 1 .. Len(ordered) : ordered[i] \in terms
  <2>. HIDE DEF terms, ordered
  <2>. QED BY <1>9, SeqIsList
<1>11. ASSUME NEW i \in 1 .. Len(ordered), NEW k \in 1 .. Len(ordered), i < k
       PROVE  ordered[i] # ordered[k] /\ Often(ordered[k], p.text) <= Often(ordered[i], p.text)
  <2>1. /\ ordered[i] \in terms /\ ordered[k] \in terms
        /\ <<ordered[i], ordered[k]>> \in R /\ <<ordered[k], ordered[i]>> \notin R
    <3>1. i \in DOMAIN ordered /\ k \in DOMAIN ordered /\ ~(k < i)
      <4>. HIDE DEF ordered
      <4>. QED BY <1>10, <1>11
    <3>. HIDE DEF terms, ordered, R
    <3>. QED BY <1>9, <1>10, <1>11, <3>1
  <2>2. \A x, y \in terms : <<x, y>> \in R => c[y] <= c[x]
    <3>. HIDE DEF terms, c, ordered
    <3>. QED BY <1>18
  <2>. HIDE DEF terms, ordered, R, c
  <2>. QED BY <1>18, <2>1, <2>2
<1>12. /\ DOMAIN listed = 1 .. Len(listed) /\ Len(listed) \in Nat /\ Len(listed) <= Len(ordered)
       /\ \A i \in 1 .. Len(listed) : i \in 1 .. Len(ordered) /\ listed[i] = ordered[i]
  <2>. HIDE DEF ordered, limit
  <2>1. /\ Len(listed) \in Nat /\ Len(listed) <= Len(ordered)
        /\ DOMAIN listed = 1 .. Len(listed)
        /\ \A i \in DOMAIN listed : i \in 1 .. Len(ordered) /\ listed[i] = ordered[i]
    BY <1>2, <1>10, FirstIsList
  <2>. HIDE DEF listed
  <2>. QED BY <1>10, <2>1
<1>13. rows = [i \in 1 .. Len(listed) |-> <<Str(ordered[i]), Num(Often(ordered[i], p.text))>>]
  <2>. HIDE DEF ordered, limit, listed, count, terms
  <2>. QED BY <1>6, <1>10, <1>12
<1>14. terms = Terms(p.text) /\ kept = Kept(p.text)
  BY DEF Terms, Kept
<1>15. KeywordsOf(BuildKeywordExtract(p), p.text, ordered, Len(listed))
  <2>1. ordered \in Seq(Terms(p.text))
    BY <1>9, <1>14
  <2>2. \A w \in Terms(p.text) : \E i \in 1 .. Len(ordered) : ordered[i] = w
    BY <1>9, <1>10, <1>14
  <2>3. BuildKeywordExtract(p) =
          [keywords |-> [i \in 1 .. Len(listed) |->
                            <<Str(ordered[i]), Num(Often(ordered[i], p.text))>>],
           unique_terms |-> Scalar(Num(Cardinality(Terms(p.text)))),
           total_terms |-> Scalar(Num(Cardinality(Kept(p.text))))]
    BY <1>1, <1>13, <1>14
  <2>. HIDE DEF ordered, listed
  <2>. QED BY <1>11, <1>12, <2>1, <2>2, <2>3 DEF KeywordsOf
<1>. HIDE DEF ordered, listed
<1>. QED BY <1>15

(* What a feature vector has of each bucket.                               *)
Bucket(t, size, i) == Digest(Tokens(t)[i]) % size
InBucket(t, size, d) == Cardinality({i \in DOMAIN Tokens(t) : Bucket(t, size, i) = d - 1})
VectorOf(out, t, size) ==
    /\ t \in Seq(Int) /\ IsText(t) /\ size \in Nat \ {0}
    /\ out = [dimensions |-> Scalar(Num(size)),
              token_count |-> Scalar(Num(Len(Tokens(t)))),
              unique_terms |-> Scalar(Num(Cardinality(ToSet(Tokens(t))))),
              vector |-> [d \in 1 .. size |-> <<Num(InBucket(t, size, d))>>]]
LEMMA EmbedBuilt ==
    ASSUME NEW p, PayloadOK("text_embed", p), BuildTextEmbed(p) # Malformed
    PROVE  \E size : VectorOf(BuildTextEmbed(p), p.text, size)
<1>. DEFINE dimensions == OrDefault(p.dimensions, DefaultDimensions)
            tokens == Tokens(p.text)
            bucket(i) == Digest(tokens[i]) % dimensions
            count(d) == Cardinality({i \in DOMAIN tokens : bucket(i) = d - 1})
            rows == [d \in 1 .. dimensions |-> <<Num(count(d))>>]
<1>1. /\ HasWords(p.text) /\ Within(dimensions, MinDimensions, MaxDimensions)
      /\ BuildTextEmbed(p) =
            [dimensions |-> Scalar(Num(dimensions)), token_count |-> Scalar(Num(Len(tokens))),
             unique_terms |-> Scalar(Num(Cardinality(ToSet(tokens)))), vector |-> rows]
  BY Zenon DEF BuildTextEmbed
<1>2. dimensions \in Nat \ {0}
  <2>1. MaybeNumber(p.dimensions)
    BY DEF PayloadOK
  <2>2. dimensions \in MinDimensions .. MaxDimensions
    BY <1>1, <2>1, UsableNumber, Limits
  <2>. HIDE DEF dimensions
  <2>. QED BY <2>2, Limits
<1>3. p.text \in Seq(Int) /\ IsText(p.text)
  BY <1>1, UsableText DEF PayloadOK, ScaledTypes, HasWords
<1>4. rows = [d \in 1 .. dimensions |-> <<Num(InBucket(p.text, dimensions, d))>>]
  BY DEF InBucket, Bucket
<1>. HIDE DEF rows, dimensions
<1>5. VectorOf(BuildTextEmbed(p), p.text, dimensions)
  BY <1>1, <1>2, <1>3, <1>4 DEF VectorOf
<1>. QED BY <1>5

Matched(p, d) == Cardinality(ToSet(Tokens(p.query)) \cap ToSet(Tokens(d.text)))
RankingOf(out, p, s, n) ==
    /\ s \in Seq(ToSet(p.documents)) /\ n \in Nat /\ n <= Len(s)
    /\ \A d \in ToSet(p.documents) : \E i \in 1 .. Len(s) : s[i] = d
    /\ \A i, k \in 1 .. Len(s) :
          i < k => s[i].id # s[k].id /\ Matched(p, s[k]) <= Matched(p, s[i])
    /\ \A d, e \in ToSet(p.documents) : d.id = e.id => d = e
    /\ Len(out.matches) = n /\ DOMAIN out.matches = 1 .. n
    /\ \A i \in 1 .. n : out.matches[i][1].val = s[i].id
LEMMA RetrieveBuilt ==
    ASSUME NEW p, PayloadOK("text_retrieve", p), BuildTextRetrieve(p) # Malformed
    PROVE  \E s, n : RankingOf(BuildTextRetrieve(p), p, s, n)
<1>. DEFINE queried == ToSet(Tokens(p.query))
            terms == Ordered(queried, TextLess)
            limit == OrDefault(p.limit, Len(p.documents))
            found(d) == queried \cap ToSet(Tokens(d.text))
            matched(d) == Cardinality(found(d))
            texts(d) == [i \in 1 .. matched(d) |-> Str(Ordered(found(d), TextLess)[i])]
            row(d) == <<Str(d.id), Leaf("float", matched(d)), Num(matched(d))>> \o texts(d)
            before(a, b) == \/ matched(a) > matched(b)
                            \/ matched(a) = matched(b) /\ a.id < b.id
            ranked == Ordered(ToSet(p.documents), before)
            listed == FirstOf(ranked, limit)
            asked == [i \in DOMAIN terms |-> <<Str(terms[i])>>]
            rows == [i \in DOMAIN listed |-> row(listed[i])]
            D == ToSet(p.documents)
            c == [d \in D |-> matched(d)]
            R == {q \in D \X D : \/ c[q[1]] > c[q[2]]
                                 \/ c[q[1]] = c[q[2]] /\ q[1].id < q[2].id}
<1>1. /\ HasWords(p.query) /\ Within(limit, 1, Len(p.documents))
      /\ \A i \in DOMAIN p.documents :
            /\ HasWords(p.documents[i].text)
            /\ \A k \in 1 .. i - 1 : p.documents[k].id # p.documents[i].id
      /\ BuildTextRetrieve(p) = [query_terms |-> asked, matches |-> rows]
  BY Zenon DEF BuildTextRetrieve
<1>0. /\ HasWords(p.query)
      /\ Within(OrDefault(p.limit, Len(p.documents)), 1, Len(p.documents))
  BY <1>1
<1>2. p.query \in Seq(Int) /\ limit \in Nat /\ IsList(p.documents)
  <2>1. MaybeText(p.query) /\ MaybeNumber(p.limit) /\ IsList(p.documents)
    BY DEF PayloadOK
  <2>2. Len(p.documents) \in Nat
    BY <2>1 DEF IsList
  <2>3. p.query \in Seq(Int)
    BY <1>0, <2>1, UsableText
  <2>4. limit \in Nat
    BY <1>0, <2>1, <2>2, UsableLimit
  <2>. QED BY <2>1, <2>3, <2>4
<1>3. IsFiniteSet(queried)
  BY <1>2, TokensAreTexts
<1>4. \A d : IsFiniteSet(found(d)) /\ matched(d) \in Nat
  <2>1. \A d : found(d) \in SUBSET queried
    OBVIOUS
  <2>. HIDE DEF queried, found
  <2>2. \A d : IsFiniteSet(found(d))
    BY <1>3, <2>1, FS_Subset
  <2>. QED BY <2>2, FS_CardinalityType
<1>5. p.documents \in Seq(D) /\ DOMAIN p.documents = 1 .. Len(p.documents)
      /\ Len(p.documents) \in Nat
  <2>. HIDE DEF ranked, terms, limit
  <2>. QED BY <1>2, ListIsSeq DEF IsList
<1>6. IsFiniteSet(D)
  <2>. HIDE DEF ranked, terms, limit
  <2>1. Len(p.documents) \in Int /\ 1 \in Int
    BY <1>5
  <2>2. IsFiniteSet(DOMAIN p.documents)
    BY <1>5, <2>1, FS_Interval
  <2>3. p.documents \in Surjection(DOMAIN p.documents, D)
    <3>1. p.documents \in [DOMAIN p.documents -> D]
      BY <1>5
    <3>. QED BY <3>1 DEF Surjection, ToSet
  <2>. HIDE DEF D
  <2>. QED BY <2>2, <2>3, FS_Surjection
<1>7. ASSUME NEW d \in D, NEW e \in D PROVE d.id \in Int /\ (d.id = e.id => d = e)
  <2>. HIDE DEF ranked, terms, limit, rows, listed, before
  <2>1. PICK i \in DOMAIN p.documents : p.documents[i] = d
    BY DEF ToSet
  <2>2. PICK k \in DOMAIN p.documents : p.documents[k] = e
    BY DEF ToSet
  <2>3. d.id \in Int
    BY <2>1 DEF PayloadOK
  <2>4. i < k \/ k < i \/ i = k
    BY <1>5
  <2>5. i < k => i \in 1 .. k - 1
    BY <1>5
  <2>6. k < i => k \in 1 .. i - 1
    BY <1>5
  <2>. HIDE DEF D
  <2>. QED BY <1>1, <2>1, <2>2, <2>3, <2>4, <2>5, <2>6
<1>8. c \in [D -> Int] /\ \A d \in D : c[d] = Matched(p, d)
  <2>. HIDE DEF ranked, terms, D
  <2>1. \A d \in D : c[d] = matched(d)
    <3>. HIDE DEF matched
    <3>. QED OBVIOUS
  <2>2. \A d : matched(d) = Matched(p, d)
    BY DEF Matched
  <2>3. c \in [D -> Int]
    <3>. HIDE DEF matched, texts, before, rows, listed, row, found, queried, asked
    <3>. QED BY <1>4
  <2>. HIDE DEF c, matched
  <2>. QED BY <2>1, <2>2, <2>3
<1>9. StrictlyOrders(R, D)
  <2>. HIDE DEF D, c, ranked, terms
  <2>. QED BY <1>7, <1>8, NumberThenId
<1>10. Ranks(ranked, D, R)
  <2>. HIDE DEF terms
  <2>. DEFINE Under(x) == {y \in D : before(y, x)}
              e(n) == CHOOSE x \in D : Cardinality(Under(x)) = n - 1
  <2>3. ranked = [n \in 1 .. Cardinality(D) |-> e(n)]
    BY Zenon DEF Ordered
  <2>. HIDE DEF ranked
  <2>1. \A x \in D : Under(x) = {y \in D : <<y, x>> \in R}
    <3>. HIDE DEF D, matched
    <3>. QED OBVIOUS
  <2>2. \A x \in D : Cardinality(Under(x)) = Rank(x, R, D)
    <3>. HIDE DEF Under, R, D
    <3>. QED BY <2>1 DEF Rank
  <2>4. ASSUME NEW n, NEW x \in D, Cardinality(Under(x)) = n - 1
        PROVE  e(n) \in D /\ Cardinality(Under(e(n))) = n - 1
    <3>. HIDE DEF D, Under
    <3>. QED BY <2>4
  <2>. HIDE DEF D, R, Under, e
  <2>. QED BY <2>2, <2>3, <2>4 DEF Ranks
<1>. HIDE DEF terms, ranked, D, R, limit
<1>11. /\ ranked \in Seq(D)
       /\ \A i, k \in DOMAIN ranked : <<ranked[i], ranked[k]>> \in R <=> i < k
       /\ \A i, k \in DOMAIN ranked : ranked[i] = ranked[k] => i = k
       /\ \A x \in D : \E i \in DOMAIN ranked : ranked[i] = x
  BY <1>6, <1>9, <1>10, InOrder
<1>12. /\ Len(ranked) \in Nat /\ DOMAIN ranked = 1 .. Len(ranked) /\ IsList(ranked)
       /\ \A i \in 1 .. Len(ranked) : ranked[i] \in D
  BY <1>11, SeqIsList
<1>13. ASSUME NEW i \in 1 .. Len(ranked), NEW k \in 1 .. Len(ranked), i < k
       PROVE  ranked[i].id # ranked[k].id /\ Matched(p, ranked[k]) <= Matched(p, ranked[i])
  <2>. HIDE DEF texts, before, rows, listed, row, found, queried, asked, matched, c
  <2>0. i \in DOMAIN ranked /\ k \in DOMAIN ranked
    BY <1>12
  <2>1. /\ ranked[i] \in D /\ ranked[k] \in D /\ i # k
        /\ <<ranked[i], ranked[k]>> \in R
    <3>1. ranked[i] \in D /\ ranked[k] \in D
      BY <1>12
    <3>2. Len(ranked) \in Nat
      BY <1>12
    <3>3. i # k
      BY <1>13, <3>2
    <3>4. <<ranked[i], ranked[k]>> \in R
      BY <1>11, <1>13, <2>0
    <3>. QED BY <3>1, <3>3, <3>4
  <2>2. ranked[i] # ranked[k]
    BY <1>11, <2>0, <2>1
  <2>3. \A x, y \in D : <<x, y>> \in R => c[y] <= c[x]
    <3>. QED BY <1>8 DEF R
  <2>. QED BY <1>7, <1>8, <2>1, <2>2, <2>3
<1>14. /\ DOMAIN listed = 1 .. Len(listed) /\ Len(listed) \in Nat /\ Len(listed) <= Len(ranked)
       /\ \A i \in 1 .. Len(listed) : i \in 1 .. Len(ranked) /\ listed[i] = ranked[i]
  <2>1. /\ Len(listed) \in Nat /\ Len(listed) <= Len(ranked)
        /\ DOMAIN listed = 1 .. Len(listed)
        /\ \A i \in DOMAIN listed : i \in 1 .. Len(ranked) /\ listed[i] = ranked[i]
    BY <1>2, <1>12, FirstIsList
  <2>. HIDE DEF listed
  <2>. QED BY <1>12, <2>1
<1>15. Len(rows) = Len(listed) /\ DOMAIN rows = 1 .. Len(listed)
  <2>. HIDE DEF listed, row
  <2>1. rows = [i \in 1 .. Len(listed) |-> rows[i]]
    BY <1>14
  <2>. HIDE DEF rows
  <2>. QED BY <1>14, <2>1, ListOf
<1>16. ASSUME NEW d PROVE row(d)[1].val = d.id
  <2>1. texts(d) = [i \in 1 .. matched(d) |-> texts(d)[i]]
    <3>. HIDE DEF matched
    <3>. QED OBVIOUS
  <2>2. matched(d) \in Nat
    BY <1>4
  <2>3. IsList(texts(d)) /\ Len(texts(d)) = matched(d)
    <3>. HIDE DEF texts, matched
    <3>. QED BY <2>1, <2>2, ListOf
  <2>. DEFINE head == <<Str(d.id), Leaf("float", matched(d)), Num(matched(d))>>
  <2>4. IsList(head) /\ Len(head) = 3 /\ head[1] = Str(d.id)
    BY ThreeOK
  <2>5. Str(d.id).val = d.id
    BY DEF Str, Leaf
  <2>. HIDE DEF head, texts, matched
  <2>6. \A i \in 1 .. Len(head) + Len(texts(d)) :
           (head \o texts(d))[i] = IF i <= Len(head) THEN head[i] ELSE texts(d)[i - Len(head)]
    BY <2>3, <2>4, ConcatOfLists
  <2>7. 1 \in 1 .. Len(head) + Len(texts(d)) /\ 1 <= Len(head)
    BY <2>2, <2>3, <2>4
  <2>8. (head \o texts(d))[1] = Str(d.id)
    BY <2>4, <2>6, <2>7
  <2>. QED BY <2>5, <2>8 DEF head
<1>17. \A i \in 1 .. Len(listed) : rows[i][1].val = ranked[i].id
  <2>1. \A i \in 1 .. Len(listed) : rows[i] = row(listed[i])
    <3>. HIDE DEF listed, row
    <3>. QED BY <1>14
  <2>. HIDE DEF listed, row, rows
  <2>. QED BY <1>14, <1>16, <2>1
<1>18. BuildTextRetrieve(p).matches = rows
  <2>. HIDE DEF rows, asked
  <2>. QED BY <1>1
<1>. HIDE DEF rows, listed
<1>19. RankingOf(BuildTextRetrieve(p), p, ranked, Len(listed))
  <2>1. ranked \in Seq(ToSet(p.documents))
    BY <1>11 DEF D
  <2>2. \A d \in ToSet(p.documents) : \E i \in 1 .. Len(ranked) : ranked[i] = d
    BY <1>11, <1>12 DEF D
  <2>3. \A d, e \in ToSet(p.documents) : d.id = e.id => d = e
    BY <1>7 DEF D
  <2>. QED BY <1>13, <1>14, <1>15, <1>17, <1>18, <2>1, <2>2, <2>3 DEF RankingOf
<1>. QED BY <1>19

(* A chunk ends after it began, is not too long, and ends where its rule   *)
(* wants it to end.                                                        *)
LEMMA SplitRule ==
    ASSUME NEW t \in Seq(Int), NEW most \in Nat \ {0}, NEW start \in 0 .. Len(t) - 1
    PROVE  LET end == Split(t, most, start)
           IN  /\ end \in start + 1 .. Len(t) /\ end <= start + most
               /\ \/ end = Len(t)
                  \/ {t[end], t[end + 1]} \cap Space # {}
                  \/ \A i \in start + 1 .. end : t[i] \notin Space
<1>. DEFINE end == Split(t, most, start)
<1>1. Len(t) \in Nat
  OBVIOUS
<1>2. CASE start + most >= Len(t)
  <2>1. end = Len(t)
    BY <1>2 DEF Split
  <2>. HIDE DEF end
  <2>2. end \in start + 1 .. Len(t) /\ end <= start + most
    BY <1>1, <1>2, <2>1
  <2>. QED BY <2>1, <2>2 DEF end
<1>3. CASE ~(start + most >= Len(t))
  <2>. DEFINE hardEnd == start + most
              spaces == {i \in start + 1 .. hardEnd : t[i] \in Space}
              last == CHOOSE i \in spaces : \A k \in spaces : k <= i
  <2>1. hardEnd \in start + 1 .. Len(t)
    BY <1>1, <1>3
  <2>2. end = IF t[hardEnd + 1] \in Space \/ spaces = {} THEN hardEnd ELSE last
    BY <1>3 DEF Split, PreferredSplit
  <2>3. CASE t[hardEnd + 1] \in Space \/ spaces = {}
    <3>1. end = hardEnd
      BY <2>2, <2>3
    <3>. HIDE DEF end
    <3>2. end \in start + 1 .. Len(t) /\ end <= start + most
      BY <2>1, <3>1
    <3>. HIDE DEF hardEnd
    <3>. QED BY <2>3, <3>1, <3>2 DEF end
  <2>4. CASE ~(t[hardEnd + 1] \in Space \/ spaces = {})
    <3>1. end = last
      BY <2>2, <2>4
    <3>2. PICK i \in spaces : \A k \in spaces : k <= i
      <4>1. hardEnd \in Nat /\ spaces \subseteq 0 .. hardEnd
        BY <2>1
      <4>. HIDE DEF spaces, hardEnd
      <4>. QED BY <2>4, <4>1, GreatestNumber
    <3>3. last \in spaces
      <4>. HIDE DEF spaces
      <4>. QED BY <3>2
    <3>. HIDE DEF end, last
    <3>4. end \in start + 1 .. hardEnd /\ t[end] \in Space
      BY <3>1, <3>3
    <3>5. end \in start + 1 .. Len(t) /\ end <= start + most
      <4>. HIDE DEF spaces
      <4>. QED BY <1>1, <2>1, <3>4
    <3>. HIDE DEF hardEnd, spaces
    <3>. QED BY <3>4, <3>5 DEF end
  <2>. QED BY <2>3, <2>4
<1>. QED BY <1>2, <1>3

LEMMA SplitBeyond ==
    ASSUME NEW t \in Seq(Int), NEW most \in Nat \ {0}, NEW start \in 0 .. Len(t) - 1
    PROVE  Split(t, most, start) \in start + 1 .. Len(t)
BY SplitRule

(* The chunks from each position exist: each is made from those after it.  *)
LEMMA ChunksUnfold ==
    ASSUME NEW t \in Seq(Int), NEW most \in Nat \ {0}, NEW start \in 0 .. Len(t)
    PROVE  ChunksFrom(t, most)[start] =
               IF start = Len(t) THEN <<>>
               ELSE <<SubSeq(t, start + 1, Split(t, most, start))>>
                        \o ChunksFrom(t, most)[Split(t, most, start)]
<1>. DEFINE L == Len(t)
            split(s) == Split(t, most, s)
            More(s, rest) == <<SubSeq(t, s + 1, split(s))>> \o rest
            Chunking(g, n) ==
                g = [s \in L - n .. L |-> IF s = L THEN <<>> ELSE More(s, g[split(s)])]
            Without == {n \in 0 .. L : ~ \E g : Chunking(g, n)}
<1>1. L \in Nat
  OBVIOUS
<1>2. \A s \in 0 .. L - 1 : split(s) \in s + 1 .. L
  BY SplitBeyond
<1>. HIDE DEF L, split, More
<1>3. Without = {}
  <2>. SUFFICES ASSUME Without # {} PROVE FALSE
    OBVIOUS
  <2>1. PICK n \in Without : \A k \in Without : n <= k
    <3>1. Without \subseteq Nat
      BY <1>1
    <3>. HIDE DEF Without
    <3>. QED BY <3>1, LeastNumber
  <2>2. n \in 0 .. L /\ ~ \E g : Chunking(g, n)
    BY <2>1
  <2>3. CASE n = 0
    <3>. DEFINE g == [s \in L - 0 .. L |-> <<>>]
    <3>1. g = [s \in L - 0 .. L |-> IF s = L THEN <<>> ELSE More(s, g[split(s)])]
      BY <1>1
    <3>. HIDE DEF g
    <3>. QED BY <2>2, <2>3, <3>1
  <2>4. CASE n # 0
    <3>1. n - 1 \in 0 .. L /\ ~(n <= n - 1) /\ L - (n - 1) = L - n + 1 /\ L - n \in 0 .. L - 1
      BY <1>1, <2>2, <2>4
    <3>2. PICK g : Chunking(g, n - 1)
      <4>1. n - 1 \notin Without
        BY <2>1, <3>1
      <4>. QED BY <3>1, <4>1
    <3>. DEFINE b == L - n
                h == [s \in b .. L |-> IF s = b THEN More(b, g[split(b)]) ELSE g[s]]
    <3>3. split(b) \in b + 1 .. L
      BY <1>2, <3>1
    <3>4. ASSUME NEW s \in b .. L
          PROVE  h[s] = IF s = L THEN <<>> ELSE More(s, h[split(s)])
      <4>. HIDE DEF Without
      <4>0. b \in Int /\ b # L
        BY <1>1, <3>1
      <4>1. CASE s = b
        <5>1. h[s] = More(b, g[split(b)])
          BY <4>1
        <5>2. h[split(b)] = g[split(b)]
          BY <3>3, <4>0, <1>1
        <5>. QED BY <4>0, <4>1, <5>1, <5>2
      <4>2. CASE s # b
        <5>1. s \in b + 1 .. L /\ h[s] = g[s]
          BY <1>1, <4>0, <4>2
        <5>2. s # L => split(s) \in b + 1 .. L
          <6>1. s # L => s \in 0 .. L - 1
            BY <1>1, <3>1, <5>1
          <6>. QED BY <1>1, <1>2, <4>0, <5>1, <6>1
        <5>3. s # L => h[split(s)] = g[split(s)]
          BY <1>1, <4>0, <5>2
        <5>4. g[s] = IF s = L THEN <<>> ELSE More(s, g[split(s)])
          BY <3>1, <3>2, <5>1
        <5>. HIDE DEF h
        <5>. QED BY <5>1, <5>3, <5>4
      <4>. QED BY <4>1, <4>2
    <3>5. Chunking(h, n)
      <4>1. h = [s \in b .. L |-> h[s]]
        OBVIOUS
      <4>. HIDE DEF h, Without
      <4>. QED BY <3>4, <4>1
    <3>. QED BY <2>2, <3>5
  <2>. QED BY <2>3, <2>4
<1>4. PICK g : Chunking(g, L)
  <2>1. L \in 0 .. L
    BY <1>1
  <2>. HIDE DEF Chunking
  <2>. QED BY <1>3, <2>1
<1>5. L - L = 0
  BY <1>1
<1>6. Chunking(ChunksFrom(t, most), L)
  <2>. DEFINE Whole(c) == c = [s \in 0 .. L |-> IF s = L THEN <<>> ELSE More(s, c[split(s)])]
  <2>1. ChunksFrom(t, most) = CHOOSE chunks : Whole(chunks)
    BY Zenon DEF ChunksFrom, L, split, More
  <2>2. Whole(g)
    BY <1>4, <1>5
  <2>3. Whole(ChunksFrom(t, most))
    <3>. HIDE DEF Whole
    <3>. QED BY <2>1, <2>2
  <2>. QED BY <1>5, <2>3
<1>7. ChunksFrom(t, most)[start] =
          IF start = L THEN <<>> ELSE More(start, ChunksFrom(t, most)[split(start)])
  <2>1. start \in 0 .. L
    BY DEF L
  <2>. QED BY <1>5, <1>6, <2>1
<1>. QED BY <1>7, Zenon DEF L, split, More

(* The chunks c of t after position start end at the positions e.          *)
CutAt(c, e, t, most, start) ==
    /\ IsList(c)
    /\ e \in [0 .. Len(c) -> start .. Len(t)] /\ e[0] = start /\ e[Len(c)] = Len(t)
    /\ \A i \in 1 .. Len(c) :
          /\ e[i - 1] < Len(t) /\ e[i] = Split(t, most, e[i - 1])
          /\ c[i] = SubSeq(t, e[i - 1] + 1, e[i])

LEMMA OneMoreCut ==
    ASSUME NEW t \in Seq(Int), NEW most \in Nat \ {0}, NEW start \in 0 .. Len(t) - 1,
           NEW c, NEW e, CutAt(c, e, t, most, Split(t, most, start))
    PROVE  \E g : CutAt(<<SubSeq(t, start + 1, Split(t, most, start))>> \o c, g, t, most, start)
<1>. DEFINE L == Len(t)
            end == Split(t, most, start)
            x == SubSeq(t, start + 1, end)
            d == <<x>> \o c
            g == [i \in 0 .. Len(c) + 1 |-> IF i = 0 THEN start ELSE e[i - 1]]
<1>1. L \in Nat /\ end \in start + 1 .. L /\ start \in 0 .. L - 1
  BY SplitBeyond
<1>2. IsList(<<x>>) /\ Len(<<x>>) = 1 /\ <<x>>[1] = x
  BY OneOK
<1>3. IsList(c) /\ Len(c) \in Nat
  BY DEF CutAt, IsList
<1>4. /\ IsList(d) /\ Len(d) = 1 + Len(c)
      /\ \A i \in 1 .. 1 + Len(c) : d[i] = IF i <= 1 THEN x ELSE c[i - 1]
  <2>. HIDE DEF x
  <2>1. /\ IsList(d) /\ Len(d) = Len(<<x>>) + Len(c)
        /\ \A i \in 1 .. Len(<<x>>) + Len(c) :
              d[i] = IF i <= Len(<<x>>) THEN <<x>>[i] ELSE c[i - Len(<<x>>)]
    BY <1>2, <1>3, ConcatOfLists
  <2>2. \A i \in 1 .. 1 + Len(c) : i <= 1 => i = 1
    BY <1>3
  <2>. HIDE DEF d
  <2>. QED BY <1>2, <2>1, <2>2
<1>5. /\ e \in [0 .. Len(c) -> end .. L] /\ e[0] = end /\ e[Len(c)] = L
      /\ \A i \in 1 .. Len(c) :
            /\ e[i - 1] < L /\ e[i] = Split(t, most, e[i - 1])
            /\ c[i] = SubSeq(t, e[i - 1] + 1, e[i])
  BY DEF CutAt
<1>. HIDE DEF L, end
<1>6. g \in [0 .. Len(d) -> start .. L]
  <2>1. ASSUME NEW i \in 0 .. Len(c) + 1 PROVE g[i] \in start .. L
    <3>1. CASE i = 0
      BY <1>1, <3>1
    <3>2. CASE i # 0
      <4>1. i - 1 \in 0 .. Len(c) /\ g[i] = e[i - 1]
        BY <1>3, <3>2
      <4>2. e[i - 1] \in end .. L
        BY <1>5, <4>1
      <4>. HIDE DEF g
      <4>. QED BY <1>1, <4>1, <4>2
    <3>. QED BY <3>1, <3>2
  <2>2. Len(d) = Len(c) + 1
    <3>. HIDE DEF d
    <3>. QED BY <1>3, <1>4
  <2>. HIDE DEF d
  <2>. QED BY <2>1, <2>2
<1>7. g[0] = start /\ \A i \in 1 .. Len(c) + 1 : g[i] = e[i - 1]
  BY <1>3
<1>8. ASSUME NEW i \in 1 .. Len(d)
      PROVE  /\ g[i - 1] < L /\ g[i] = Split(t, most, g[i - 1])
             /\ d[i] = SubSeq(t, g[i - 1] + 1, g[i])
  <2>0. i \in 1 .. 1 + Len(c)
    <3>. HIDE DEF d
    <3>. QED BY <1>4
  <2>1. CASE i = 1
    <3>1. g[0] = start /\ g[1] = end /\ 1 \in 1 .. Len(c) + 1
      BY <1>3, <1>5, <1>7
    <3>2. d[1] = x
      <4>1. 1 \in 1 .. 1 + Len(c) /\ 1 <= 1
        BY <1>3
      <4>. HIDE DEF d, x
      <4>. QED BY <1>4, <4>1
    <3>3. start < L /\ end = Split(t, most, start) /\ i - 1 = 0
      BY <1>1, <2>1 DEF end
    <3>. HIDE DEF g, d
    <3>. QED BY <2>1, <3>1, <3>2, <3>3 DEF x
  <2>2. CASE i # 1
    <3>1. i - 1 \in 1 .. Len(c) /\ i - 1 # 0 /\ i \in 1 .. Len(c) + 1 /\ ~(i <= 1)
          /\ i - 1 \in 1 .. Len(c) + 1
      BY <1>3, <2>0, <2>2
    <3>2. g[i] = e[i - 1] /\ g[i - 1] = e[(i - 1) - 1] /\ d[i] = c[i - 1]
      <4>. HIDE DEF g, d
      <4>. QED BY <1>4, <1>7, <2>0, <3>1
    <3>. HIDE DEF g, d
    <3>. QED BY <1>5, <3>1, <3>2
  <2>. QED BY <2>1, <2>2
<1>9. g[Len(d)] = L
  <2>1. Len(d) = 1 + Len(c) /\ Len(d) \in 1 .. Len(c) + 1 /\ Len(d) - 1 = Len(c)
    <3>. HIDE DEF d
    <3>. QED BY <1>3, <1>4
  <2>. HIDE DEF d, g
  <2>. QED BY <1>5, <1>7, <2>1
<1>10. CutAt(d, g, t, most, start)
  <2>. HIDE DEF d, g
  <2>. QED BY <1>4, <1>6, <1>7, <1>8, <1>9 DEF CutAt, L
<1>. QED BY <1>10 DEF end

LEMMA ChunksAreCut ==
    ASSUME NEW t \in Seq(Int), NEW most \in Nat \ {0}, NEW start \in 0 .. Len(t)
    PROVE  \E e : CutAt(ChunksFrom(t, most)[start], e, t, most, start)
<1>. DEFINE L == Len(t)
            chunks(s) == ChunksFrom(t, most)[s]
            Cut(s) == \E e : CutAt(chunks(s), e, t, most, s)
            Uncut == {n \in 0 .. L : ~ Cut(L - n)}
<1>1. L \in Nat
  OBVIOUS
<1>2. Uncut = {}
  <2>. SUFFICES ASSUME Uncut # {} PROVE FALSE
    OBVIOUS
  <2>1. PICK n \in Uncut : \A k \in Uncut : n <= k
    <3>1. Uncut \subseteq Nat
      BY <1>1
    <3>. HIDE DEF Uncut
    <3>. QED BY <3>1, LeastNumber
  <2>. DEFINE s == L - n
  <2>2. n \in 0 .. L /\ s \in 0 .. L /\ ~Cut(s)
    BY <1>1, <2>1
  <2>3. CASE s = L
    <3>1. chunks(s) = <<>>
      BY <2>2, <2>3, ChunksUnfold
    <3>. DEFINE e == [i \in 0 .. 0 |-> L]
    <3>2. <<>> \in Seq({}) /\ Len(<<>>) = 0
      OBVIOUS
    <3>3. IsList(<<>>)
      BY <3>2, SeqIsList
    <3>4. e \in [0 .. 0 -> L .. L] /\ e[0] = L
      BY <1>1
    <3>. HIDE DEF e, chunks
    <3>5. CutAt(<<>>, e, t, most, L)
      BY <3>2, <3>3, <3>4 DEF CutAt
    <3>. QED BY <2>2, <2>3, <3>1, <3>5
  <2>4. CASE s # L
    <3>. DEFINE e == Split(t, most, s)  x == SubSeq(t, s + 1, e)
    <3>1. e \in s + 1 .. L /\ s \in 0 .. L - 1
      BY <1>1, <2>2, <2>4, SplitBeyond
    <3>2. chunks(s) = <<x>> \o chunks(e)
      BY <2>2, <2>4, ChunksUnfold
    <3>3. Cut(e)
      <4>1. L - e \in 0 .. L /\ ~(n <= L - e) /\ L - (L - e) = e
        BY <1>1, <2>2, <3>1
      <4>2. L - e \notin Uncut
        BY <2>1, <4>1
      <4>. QED BY <4>1, <4>2
    <3>4. \E g : CutAt(<<x>> \o chunks(e), g, t, most, s)
      <4>1. PICK h : CutAt(chunks(e), h, t, most, e)
        BY <3>3
      <4>. HIDE DEF chunks, s
      <4>. QED BY <3>1, <4>1, OneMoreCut
    <3>. QED BY <2>2, <3>2, <3>4
  <2>. QED BY <2>3, <2>4
<1>3. L - start \in 0 .. L /\ L - (L - start) = start
  BY <1>1
<1>4. L - start \notin Uncut
  BY <1>2
<1>. QED BY <1>3, <1>4

LEMMA ChunksBuilt ==
    ASSUME NEW p, PayloadOK("text_chunk", p), BuildTextChunk(p) # Malformed
    PROVE  /\ p.text \in Seq(Int) /\ OrDefault(p.max_chars, DefaultMaxChars) \in Nat \ {0}
           /\ \E c, e :
                 /\ CutAt(c, e, p.text, OrDefault(p.max_chars, DefaultMaxChars), 0)
                 /\ BuildTextChunk(p) =
                      [chunks |-> [i \in 1 .. Len(c) |->
                                      <<Num(i - 1), Str(c[i]), Num(Len(c[i]))>>],
                       chunk_count |-> Scalar(Num(Len(c))),
                       character_count |-> Scalar(Num(Len(p.text)))]
<1>. DEFINE most == OrDefault(p.max_chars, DefaultMaxChars)
            chunks == ChunksFrom(p.text, most)[0]
            rows == [i \in DOMAIN chunks |-> <<Num(i - 1), Str(chunks[i]), Num(Len(chunks[i]))>>]
<1>1. /\ IsText(p.text)
      /\ Within(OrDefault(p.max_chars, DefaultMaxChars), 1, MaxChars)
      /\ BuildTextChunk(p) =
            [chunks |-> rows, chunk_count |-> Scalar(Num(Len(chunks))),
             character_count |-> Scalar(Num(Len(p.text)))]
  BY Zenon DEF BuildTextChunk
<1>2. MaybeText(p.text) /\ MaybeNumber(p.max_chars)
  BY DEF PayloadOK, ScaledTypes
<1>3. p.text \in Seq(Int)
  BY <1>1, <1>2 DEF MaybeText, IsText
<1>4. most \in Nat \ {0}
  <2>1. Within(OrDefault(p.max_chars, DefaultMaxChars), 1, MaxChars)
    BY <1>1
  <2>. QED BY <1>2, <2>1, UsableLimit, Limits
<1>5. PICK e : CutAt(chunks, e, p.text, most, 0)
  <2>1. 0 \in 0 .. Len(p.text)
    BY <1>3
  <2>. HIDE DEF most
  <2>. QED BY <1>3, <1>4, <2>1, ChunksAreCut
<1>6. DOMAIN chunks = 1 .. Len(chunks)
  BY <1>5, ListIsSeq DEF CutAt
<1>7. rows = [i \in 1 .. Len(chunks) |-> <<Num(i - 1), Str(chunks[i]), Num(Len(chunks[i]))>>]
  BY <1>6
<1>. HIDE DEF rows, chunks, most
<1>8. \E c, d : /\ CutAt(c, d, p.text, most, 0)
                /\ BuildTextChunk(p) =
                      [chunks |-> [i \in 1 .. Len(c) |->
                                      <<Num(i - 1), Str(c[i]), Num(Len(c[i]))>>],
                       chunk_count |-> Scalar(Num(Len(c))),
                       character_count |-> Scalar(Num(Len(p.text)))]
  BY <1>1, <1>5, <1>7
<1>. QED BY <1>3, <1>4, <1>8 DEF most

LEMMA PartOfText ==
    ASSUME NEW t \in Seq(Int), NEW a \in 0 .. Len(t) - 1, NEW b \in a + 1 .. Len(t)
    PROVE  /\ SubSeq(t, a + 1, b) \in Seq(Int) /\ Len(SubSeq(t, a + 1, b)) = b - a
           /\ \A k \in 1 .. Len(SubSeq(t, a + 1, b)) : SubSeq(t, a + 1, b)[k] = t[a + k]
<1>1. Len(t) \in Nat
  OBVIOUS
<1>2. SubSeq(t, a + 1, b) \in Seq(Int) /\ Len(SubSeq(t, a + 1, b)) = b - a
  BY <1>1
<1>3. \A k \in 1 .. b - a : SubSeq(t, a + 1, b)[k] = t[a + k]
  BY <1>1
<1>. QED BY <1>2, <1>3

(* The running totals exist: each is made from the one before it.          *)
LEMMA TotalsUnfold ==
    ASSUME NEW op, NEW operands, Len(operands) \in Nat, NEW i \in 0 .. Len(operands)
    PROVE  Totals(op, operands)[i] =
               IF i = 0 THEN Num(IF op = "add" THEN 0 ELSE 1)
               ELSE IF Totals(op, operands)[i - 1] \in {Raised, Malformed}
                    THEN Totals(op, operands)[i - 1]
               ELSE Checked(Combine(op, Totals(op, operands)[i - 1], operands[i]))
<1>. DEFINE Zero == Num(IF op = "add" THEN 0 ELSE 1)
            Add(t, k) == IF t \in {Raised, Malformed} THEN t
                         ELSE Checked(Combine(op, t, operands[k]))
            Total(g, n) == g = [k \in 0 .. n |-> IF k = 0 THEN Zero ELSE Add(g[k - 1], k)]
            Without == {n \in Nat : ~ \E g : Total(g, n)}
<1>1. Without = {}
  <2>. SUFFICES ASSUME Without # {} PROVE FALSE
    OBVIOUS
  <2>1. PICK n \in Without : \A k \in Without : n <= k
    <3>1. Without \subseteq Nat
      OBVIOUS
    <3>. HIDE DEF Without
    <3>. QED BY <3>1, LeastNumber
  <2>2. n \in Nat /\ ~ \E g : Total(g, n)
    BY <2>1
  <2>3. CASE n = 0
    <3>. DEFINE g == [k \in 0 .. 0 |-> Zero]
    <3>1. g = [k \in 0 .. 0 |-> IF k = 0 THEN Zero ELSE Add(g[k - 1], k)]
      <4>. HIDE DEF Zero, Add
      <4>. QED OBVIOUS
    <3>. HIDE DEF g, Zero, Add
    <3>. QED BY <2>2, <2>3, <3>1
  <2>4. CASE n # 0
    <3>1. n - 1 \in Nat /\ ~(n <= n - 1)
      BY <2>2, <2>4
    <3>2. PICK g : Total(g, n - 1)
      <4>1. n - 1 \notin Without
        BY <2>1, <3>1
      <4>. QED BY <3>1, <4>1
    <3>. DEFINE h == [k \in 0 .. n |-> IF k = n THEN Add(g[n - 1], n) ELSE g[k]]
    <3>3. ASSUME NEW k \in 0 .. n PROVE h[k] = IF k = 0 THEN Zero ELSE Add(h[k - 1], k)
      <4>. HIDE DEF Zero, Add, Without
      <4>1. CASE k = n
        <5>1. h[k] = Add(g[n - 1], n)
          BY <4>1
        <5>2. h[n - 1] = g[n - 1]
          BY <3>1, <2>2
        <5>. QED BY <2>4, <4>1, <5>1, <5>2
      <4>2. CASE k # n
        <5>1. k \in 0 .. n - 1 /\ h[k] = g[k]
          BY <2>2, <4>2
        <5>2. k # 0 => h[k - 1] = g[k - 1]
          BY <2>2, <5>1
        <5>. QED BY <3>2, <5>1, <5>2
      <4>. QED BY <4>1, <4>2
    <3>4. Total(h, n)
      <4>1. h = [k \in 0 .. n |-> h[k]]
        OBVIOUS
      <4>. HIDE DEF h, Zero, Add, Without
      <4>. QED BY <3>3, <4>1
    <3>. QED BY <2>2, <3>4
  <2>. QED BY <2>3, <2>4
<1>2. PICK g : Total(g, Len(operands))
  <2>. HIDE DEF Total
  <2>. QED BY <1>1
<1>3. Total(Totals(op, operands), Len(operands))
  <2>1. Totals(op, operands) = CHOOSE total : Total(total, Len(operands))
    BY Zenon DEF Totals
  <2>. HIDE DEF Total
  <2>. QED BY <1>2, <2>1
<1>. HIDE DEF Zero, Add
<1>4. Totals(op, operands)[i] =
          IF i = 0 THEN Zero ELSE Add(Totals(op, operands)[i - 1], i)
  BY <1>3
<1>. QED BY <1>4, Zenon DEF Zero, Add

-----------------------------------------------------------------------------
(* The schema the gate checks an output against is the shape its builder gives it. *)

RowOK(row, schema) ==
    IsList(row) /\ RowFits(row, schema) /\ \A k \in DOMAIN row : IsLeaf(row[k])
FieldOK(field, schema) ==
    /\ IsList(field)
    /\ schema.many \/ Len(field) = 1
    /\ \A i \in DOMAIN field : RowOK(field[i], schema)
OutputOK(out, schema) ==
    /\ out # Malformed /\ DOMAIN out = DOMAIN schema
    /\ \A f \in DOMAIN schema : FieldOK(out[f], schema[f])

LEMMA LeafOK ==
    ASSUME NEW kind, NEW val
    PROVE  IsLeaf(Leaf(kind, val)) /\ Leaf(kind, val).kind = kind
BY DEF IsLeaf, Leaf

LEMMA RowFit ==
    ASSUME NEW row, IsList(row), NEW kinds, NEW n \in Nat,
           Len(row) = n, DOMAIN row = 1 .. n, Len(kinds) = n, DOMAIN kinds = 1 .. n,
           \A i \in 1 .. n : IsLeaf(row[i]) /\ Accepts(kinds[i], row[i])
    PROVE  RowOK(row, Many(kinds, "none"))
<1>. DEFINE schema == Many(kinds, "none")
<1>1. schema.kinds = kinds /\ schema.rest = "none"
  BY DEF Many
<1>. HIDE DEF schema
<1>2. \A i \in DOMAIN row :
          Accepts(IF i \in DOMAIN schema.kinds THEN schema.kinds[i] ELSE schema.rest, row[i])
  BY <1>1, Zenon
<1>3. RowFits(row, schema)
  BY <1>1, <1>2 DEF RowFits
<1>4. RowOK(row, schema)
  BY <1>3 DEF RowOK
<1>. QED BY <1>4 DEF schema

LEMMA ScalarOK ==
    ASSUME NEW leaf, IsLeaf(leaf), NEW kind, Accepts(kind, leaf)
    PROVE  FieldOK(Scalar(leaf), One(kind))
<1>. DEFINE row == <<leaf>>
<1>0. /\ One(kind).kinds = <<kind>> /\ One(kind).rest = "none"
  BY DEF One
<1>1. RowOK(row, One(kind))
  <2>1. IsList(row) /\ Len(row) = 1 /\ DOMAIN row = 1 .. 1 /\ row[1] = leaf
    BY OneOK
  <2>2. Len(<<kind>>) = 1 /\ DOMAIN <<kind>> = 1 .. 1 /\ <<kind>>[1] = kind
    BY OneOK
  <2>. HIDE DEF row
  <2>. QED BY <1>0, <2>1, <2>2 DEF RowOK, RowFits
<1>2. IsList(<<row>>) /\ Len(<<row>>) = 1 /\ DOMAIN <<row>> = 1 .. 1 /\ <<row>>[1] = row
  BY OneOK
<1>3. Scalar(leaf) = <<row>>
  BY DEF Scalar
<1>. HIDE DEF row
<1>. QED BY <1>1, <1>2, <1>3 DEF FieldOK

LEMMA PairOK ==
    ASSUME NEW a, NEW b, IsLeaf(a), IsLeaf(b),
           NEW j, NEW k, Accepts(j, a), Accepts(k, b)
    PROVE  RowOK(<<a, b>>, Many(<<j, k>>, "none"))
<1>. DEFINE row == <<a, b>>  kinds == <<j, k>>
<1>1. /\ IsList(row) /\ Len(row) = 2 /\ DOMAIN row = 1 .. 2 /\ row[1] = a /\ row[2] = b
      /\ Len(kinds) = 2 /\ DOMAIN kinds = 1 .. 2 /\ kinds[1] = j /\ kinds[2] = k
  BY TwoOK
<1>. HIDE DEF row, kinds
<1>2. \A n \in 1 .. 2 : n = 1 \/ n = 2
  OBVIOUS
<1>3. \A n \in 1 .. 2 : IsLeaf(row[n]) /\ Accepts(kinds[n], row[n])
  BY <1>1, <1>2
<1>4. RowOK(row, Many(kinds, "none"))
  BY <1>1, <1>3, RowFit
<1>. QED BY <1>4 DEF row, kinds

LEMMA TripleOK ==
    ASSUME NEW a, NEW b, NEW c, IsLeaf(a), IsLeaf(b), IsLeaf(c),
           NEW j, NEW k, NEW l, Accepts(j, a), Accepts(k, b), Accepts(l, c)
    PROVE  RowOK(<<a, b, c>>, Many(<<j, k, l>>, "none"))
<1>. DEFINE row == <<a, b, c>>  kinds == <<j, k, l>>
<1>1. /\ IsList(row) /\ Len(row) = 3 /\ DOMAIN row = 1 .. 3
      /\ row[1] = a /\ row[2] = b /\ row[3] = c
      /\ Len(kinds) = 3 /\ DOMAIN kinds = 1 .. 3
      /\ kinds[1] = j /\ kinds[2] = k /\ kinds[3] = l
  BY ThreeOK
<1>. HIDE DEF row, kinds
<1>2. \A n \in 1 .. 3 : n = 1 \/ n = 2 \/ n = 3
  OBVIOUS
<1>3. \A n \in 1 .. 3 : IsLeaf(row[n]) /\ Accepts(kinds[n], row[n])
  BY <1>1, <1>2
<1>4. RowOK(row, Many(kinds, "none"))
  BY <1>1, <1>3, RowFit
<1>. QED BY <1>4 DEF row, kinds

LEMMA SingleOK ==
    ASSUME NEW a, IsLeaf(a), NEW j, Accepts(j, a)
    PROVE  RowOK(<<a>>, Many(<<j>>, "none"))
<1>. DEFINE row == <<a>>  kinds == <<j>>
<1>1. /\ IsList(row) /\ Len(row) = 1 /\ DOMAIN row = 1 .. 1 /\ row[1] = a
      /\ Len(kinds) = 1 /\ DOMAIN kinds = 1 .. 1 /\ kinds[1] = j
  BY OneOK
<1>. HIDE DEF row, kinds
<1>2. \A n \in 1 .. 1 : IsLeaf(row[n]) /\ Accepts(kinds[n], row[n])
  BY <1>1
<1>3. RowOK(row, Many(kinds, "none"))
  BY <1>1, <1>2, RowFit
<1>. QED BY <1>3 DEF row, kinds

LEMMA ManyOK ==
    ASSUME NEW field, NEW n \in Nat, field = [i \in 1 .. n |-> field[i]],
           NEW kinds, NEW rest, \A i \in 1 .. n : RowOK(field[i], Many(kinds, rest))
    PROVE  FieldOK(field, Many(kinds, rest)) /\ Len(field) = n
<1>1. IsList(field) /\ Len(field) = n /\ DOMAIN field = 1 .. n
  BY ListOf
<1>2. Many(kinds, rest).many
  BY DEF Many
<1>. QED BY <1>1, <1>2 DEF FieldOK

(* The leaves builders write are of the kinds the schemas name.            *)
LEMMA KindsOK ==
    ASSUME NEW v
    PROVE  /\ IsLeaf(Str(v)) /\ Accepts("str", Str(v))
           /\ IsLeaf(Num(v)) /\ Accepts("int", Num(v)) /\ Accepts("number", Num(v))
           /\ IsLeaf(Leaf("float", v)) /\ Accepts("number", Leaf("float", v))
BY LeafOK DEF Accepts, Str, Num

LEMMA EchoFits ==
    ASSUME NEW p, IsText(p.message), EchoOutput(p) # Malformed
    PROVE  OutputOK(EchoOutput(p), [value |-> One("str")])
<1>1. EchoOutput(p) = [value |-> Scalar(Str(p.message))]
  BY DEF EchoOutput, IsText
<1>2. FieldOK(Scalar(Str(p.message)), One("str"))
  BY KindsOK, ScalarOK
<1>. QED BY <1>1, <1>2 DEF OutputOK

LEMMA HashFits ==
    ASSUME NEW p, BuildHash(p) # Malformed
    PROVE  OutputOK(BuildHash(p), [algorithm |-> One("str"), digest |-> One("str")])
<1>1. BuildHash(p) = [algorithm |-> Scalar(Str("sha256")), digest |-> Scalar(Str(p.value))]
  BY DEF BuildHash
<1>2. \A v : FieldOK(Scalar(Str(v)), One("str"))
  BY KindsOK, ScalarOK
<1>. QED BY <1>1, <1>2 DEF OutputOK

LEMMA StatsFits ==
    ASSUME NEW p, BuildTextStats(p) # Malformed
    PROVE  OutputOK(BuildTextStats(p),
               [character_count |-> One("int"), word_count |-> One("int"),
                line_count |-> One("int"), normalized_preview |-> One("str")])
<1>1. PICK a, b, c, d :
          BuildTextStats(p) = [character_count |-> Scalar(Num(a)), word_count |-> Scalar(Num(b)),
                               line_count |-> Scalar(Num(c)),
                               normalized_preview |-> Scalar(Str(d))]
  BY DEF BuildTextStats
<1>2. \A v : FieldOK(Scalar(Str(v)), One("str")) /\ FieldOK(Scalar(Num(v)), One("int"))
  BY KindsOK, ScalarOK
<1>. QED BY <1>1, <1>2 DEF OutputOK

LEMMA TransformFits ==
    ASSUME NEW p, PayloadOK("schema_transform", p),
           BuildSchemaTransform(p) # Malformed, BuildSchemaTransform(p) # Raised
    PROVE  OutputOK(BuildSchemaTransform(p),
                    [f \in DOMAIN p.fields |-> One(DeclaredKind[p.fields[f]])])
<1>1. /\ BuildSchemaTransform(p) = [f \in DOMAIN p.fields |-> Scalar(p.record[f])]
      /\ p.record # Bad /\ DOMAIN p.record = DOMAIN p.fields
      /\ \A f \in DOMAIN p.fields : p.fields[f] \in DOMAIN DeclaredKind
      /\ \A f \in DOMAIN p.fields : p.record[f].kind = DeclaredKind[p.fields[f]]
  BY DEF BuildSchemaTransform
<1>2. \A f \in DOMAIN p.record : IsLeaf(p.record[f])
  BY <1>1 DEF PayloadOK
<1>3. DeclaredKind = [string |-> "str", integer |-> "int", boolean |-> "bool"]
  BY DEF DeclaredKind
<1>4. ASSUME NEW f \in DOMAIN p.fields
      PROVE  FieldOK(Scalar(p.record[f]), One(DeclaredKind[p.fields[f]]))
  <2>1. p.fields[f] \in {"string", "integer", "boolean"}
    BY <1>1, <1>3
  <2>2. DeclaredKind[p.fields[f]] # "number"
    BY <1>3, <2>1
  <2>3. Accepts(DeclaredKind[p.fields[f]], p.record[f])
    BY <1>1, <2>2 DEF Accepts
  <2>. QED BY <1>1, <1>2, <2>3, ScalarOK
<1>. QED BY <1>1, <1>4 DEF OutputOK

LEMMA ComputeFits ==
    ASSUME NEW p, PayloadOK("basic_compute", p),
           BuildBasicCompute(p) # Malformed, BuildBasicCompute(p) # Raised
    PROVE  OutputOK(BuildBasicCompute(p), [operation |-> One("str"), result |-> One("number")])
<1>. DEFINE total == Totals(p.operation, p.operands)[Len(p.operands)]
            refused == {i \in DOMAIN p.operands : Checked(p.operands[i]) \in {Raised, Malformed}}
            first == CHOOSE i \in refused : \A k \in refused : i <= k
<1>1. /\ p.operands # Bad /\ Len(p.operands) \in 1 .. MaxOperands
      /\ BuildBasicCompute(p) =
            IF refused # {} THEN Checked(p.operands[first])
            ELSE IF total \in {Raised, Malformed} THEN total
            ELSE [operation |-> Scalar(Str(p.operation)), result |-> Scalar(total)]
  <2>. HIDE DEF total, refused, first
  <2>. QED BY DEF BuildBasicCompute, total, refused, first
<1>2. IsList(p.operands)
  BY <1>1 DEF PayloadOK
<1>3. refused = {}
  <2>. SUFFICES ASSUME refused # {} PROVE FALSE
    OBVIOUS
  <2>1. refused \subseteq Nat
    BY <1>2, ListIsSeq
  <2>2. \E i \in refused : \A k \in refused : i <= k
    <3>. HIDE DEF refused
    <3>. QED BY <2>1, LeastNumber
  <2>3. first \in refused
    <3>. HIDE DEF refused
    <3>. QED BY <2>2
  <2>4. Checked(p.operands[first]) \in {Raised, Malformed}
    <3>. HIDE DEF first
    <3>. QED BY <2>3
  <2>. HIDE DEF first, refused, total
  <2>. QED BY <1>1, <2>4
<1>. HIDE DEF refused, first
<1>4. /\ total \notin {Raised, Malformed}
      /\ BuildBasicCompute(p) = [operation |-> Scalar(Str(p.operation)), result |-> Scalar(total)]
  <2>. HIDE DEF total
  <2>. QED BY <1>1, <1>3
<1>5. IsLeaf(total) /\ Accepts("number", total)
  <2>. DEFINE n == Len(p.operands)
              before == Totals(p.operation, p.operands)[n - 1]
  <2>1. n \in Nat /\ n # 0 /\ n \in 0 .. n
    BY <1>1, <1>2 DEF IsList
  <2>2. total = IF before \in {Raised, Malformed} THEN before
                ELSE Checked(Combine(p.operation, before, p.operands[n]))
    <3>1. Len(p.operands) \in Nat /\ Len(p.operands) \in 0 .. Len(p.operands)
      BY <2>1
    <3>2. Len(p.operands) # 0
      BY <2>1
    <3>. QED BY <3>1, <3>2, TotalsUnfold
  <2>. HIDE DEF total, before, n
  <2>3. total = Checked(Combine(p.operation, before, p.operands[n]))
    BY <1>4, <2>2
  <2>4. total = Combine(p.operation, before, p.operands[n])
    BY <1>4, <2>3 DEF Checked
  <2>5. PICK kind, val : total = Leaf(kind, val) /\ kind \in {"int", "float"}
    BY <2>4 DEF Combine
  <2>. QED BY <2>5, LeafOK DEF Accepts
<1>6. FieldOK(Scalar(total), One("number")) /\ FieldOK(Scalar(Str(p.operation)), One("str"))
  <2>. HIDE DEF total
  <2>. QED BY <1>5, KindsOK, ScalarOK
<1>. HIDE DEF total
<1>. QED BY <1>4, <1>6 DEF OutputOK

LEMMA KeywordsFit ==
    ASSUME NEW p, PayloadOK("keyword_extract", p), BuildKeywordExtract(p) # Malformed
    PROVE  OutputOK(BuildKeywordExtract(p),
               [keywords |-> Many(<<"str", "int">>, "none"),
                unique_terms |-> One("int"), total_terms |-> One("int")])
<1>1. PICK s, n : KeywordsOf(BuildKeywordExtract(p), p.text, s, n)
  BY KeywordsBuilt
<1>. DEFINE rows == [i \in 1 .. n |-> <<Str(s[i]), Num(Often(s[i], p.text))>>]
<1>2. /\ n \in Nat
      /\ BuildKeywordExtract(p) =
            [keywords |-> rows, unique_terms |-> Scalar(Num(Cardinality(Terms(p.text)))),
             total_terms |-> Scalar(Num(Cardinality(Kept(p.text))))]
  BY <1>1 DEF KeywordsOf
<1>3. FieldOK(rows, Many(<<"str", "int">>, "none"))
  <2>1. \A i \in 1 .. n : RowOK(rows[i], Many(<<"str", "int">>, "none"))
    BY KindsOK, PairOK
  <2>2. rows = [i \in 1 .. n |-> rows[i]]
    OBVIOUS
  <2>. HIDE DEF rows
  <2>. QED BY <1>2, <2>1, <2>2, ManyOK
<1>4. \A v : FieldOK(Scalar(Num(v)), One("int"))
  BY KindsOK, ScalarOK
<1>. HIDE DEF rows
<1>. QED BY <1>2, <1>3, <1>4 DEF OutputOK

LEMMA EmbedFits ==
    ASSUME NEW p, PayloadOK("text_embed", p), BuildTextEmbed(p) # Malformed
    PROVE  OutputOK(BuildTextEmbed(p),
               [dimensions |-> One("int"), token_count |-> One("int"),
                unique_terms |-> One("int"), vector |-> Many(<<"int">>, "none")])
<1>1. PICK size : VectorOf(BuildTextEmbed(p), p.text, size)
  BY EmbedBuilt
<1>. DEFINE rows == [d \in 1 .. size |-> <<Num(InBucket(p.text, size, d))>>]
<1>2. /\ size \in Nat
      /\ BuildTextEmbed(p) =
            [dimensions |-> Scalar(Num(size)), token_count |-> Scalar(Num(Len(Tokens(p.text)))),
             unique_terms |-> Scalar(Num(Cardinality(ToSet(Tokens(p.text))))), vector |-> rows]
  BY <1>1 DEF VectorOf
<1>3. FieldOK(rows, Many(<<"int">>, "none"))
  <2>1. \A i \in 1 .. size : RowOK(rows[i], Many(<<"int">>, "none"))
    BY KindsOK, SingleOK
  <2>2. rows = [i \in 1 .. size |-> rows[i]]
    OBVIOUS
  <2>. HIDE DEF rows
  <2>. QED BY <1>2, <2>1, <2>2, ManyOK
<1>4. \A v : FieldOK(Scalar(Num(v)), One("int"))
  BY KindsOK, ScalarOK
<1>. HIDE DEF rows
<1>. QED BY <1>2, <1>3, <1>4 DEF OutputOK

(* A match has its texts after the fields of every match.                  *)
LEMMA LongRowOK ==
    ASSUME NEW a, NEW b, NEW c, IsLeaf(a), IsLeaf(b), IsLeaf(c),
           Accepts("str", a), Accepts("number", b), Accepts("int", c),
           NEW m \in Nat, NEW tail, IsList(tail), Len(tail) = m,
           \A i \in 1 .. m : \E v : tail[i] = Str(v)
    PROVE  RowOK(<<a, b, c>> \o tail, Many(<<"str", "number", "int">>, "str"))
<1>. DEFINE head == <<a, b, c>>
            kinds == <<"str", "number", "int">>
            both == head \o tail
            schema == Many(kinds, "str")
<1>1. IsList(head) /\ 3 = Len(head) /\ head[1] = a /\ head[2] = b /\ head[3] = c
  BY ThreeOK
<1>2. /\ kinds[1] = "str" /\ kinds[2] = "number" /\ kinds[3] = "int"
      /\ Len(kinds) = 3 /\ DOMAIN kinds = 1 .. 3
  BY ThreeOK
<1>3. schema.kinds = kinds /\ schema.rest = "str"
  BY DEF Many
<1>. HIDE DEF head, kinds, schema
<1>4. /\ IsList(both) /\ Len(both) = 3 + m /\ DOMAIN both = 1 .. 3 + m
      /\ \A i \in 1 .. 3 + m : both[i] = IF i <= 3 THEN head[i] ELSE tail[i - 3]
  <2>1. /\ IsList(both) /\ Len(both) = Len(head) + Len(tail)
        /\ DOMAIN both = 1 .. Len(head) + Len(tail)
        /\ \A i \in 1 .. Len(head) + Len(tail) :
              both[i] = IF i <= Len(head) THEN head[i] ELSE tail[i - Len(head)]
    BY <1>1, ConcatOfLists
  <2>. HIDE DEF both
  <2>. QED BY <1>1, <2>1
<1>. HIDE DEF both
<1>5. ASSUME NEW i \in 1 .. 3 + m
      PROVE  /\ IsLeaf(both[i])
             /\ Accepts(IF i \in 1 .. 3 THEN kinds[i] ELSE "str", both[i])
  <2>1. CASE i \in 1 .. 3
    <3>1. both[i] = head[i] /\ (i = 1 \/ i = 2 \/ i = 3)
      BY <1>4, <2>1
    <3>. QED BY <1>1, <1>2, <2>1, <3>1
  <2>2. CASE i \notin 1 .. 3
    <3>1. i - 3 \in 1 .. m /\ both[i] = tail[i - 3]
      BY <1>4, <2>2
    <3>2. PICK v : both[i] = Str(v)
      BY <3>1
    <3>. QED BY <2>2, <3>2, KindsOK
  <2>. QED BY <2>1, <2>2
<1>6. \A i \in DOMAIN both :
          Accepts(IF i \in DOMAIN schema.kinds THEN schema.kinds[i] ELSE schema.rest, both[i])
  BY <1>2, <1>3, <1>4, <1>5, Zenon
<1>7. Len(both) >= Len(schema.kinds) /\ schema.rest # "none"
  <2>1. Len(both) = 3 + m /\ Len(schema.kinds) = 3 /\ schema.rest = "str"
    BY <1>2, <1>3, <1>4
  <2>. QED BY <2>1
<1>8. RowFits(both, schema)
  BY <1>6, <1>7 DEF RowFits
<1>9. RowOK(both, schema)
  BY <1>4, <1>5, <1>8 DEF RowOK
<1>. QED BY <1>9 DEF both, head, schema, kinds

LEMMA RetrieveFits ==
    ASSUME NEW p, PayloadOK("text_retrieve", p), BuildTextRetrieve(p) # Malformed
    PROVE  OutputOK(BuildTextRetrieve(p),
               [query_terms |-> Many(<<"str">>, "none"),
                matches |-> Many(<<"str", "number", "int">>, "str")])
<1>. DEFINE queried == ToSet(Tokens(p.query))
            terms == Ordered(queried, TextLess)
            limit == OrDefault(p.limit, Len(p.documents))
            found(d) == queried \cap ToSet(Tokens(d.text))
            matched(d) == Cardinality(found(d))
            texts(d) == [i \in 1 .. matched(d) |-> Str(Ordered(found(d), TextLess)[i])]
            row(d) == <<Str(d.id), Leaf("float", matched(d)), Num(matched(d))>> \o texts(d)
            before(a, b) == \/ matched(a) > matched(b)
                            \/ matched(a) = matched(b) /\ a.id < b.id
            ranked == Ordered(ToSet(p.documents), before)
            listed == FirstOf(ranked, limit)
            asked == [i \in DOMAIN terms |-> <<Str(terms[i])>>]
            rows == [i \in DOMAIN listed |-> row(listed[i])]
            schema == Many(<<"str", "number", "int">>, "str")
<1>1. /\ HasWords(p.query) /\ Within(limit, 1, Len(p.documents))
      /\ BuildTextRetrieve(p) = [query_terms |-> asked, matches |-> rows]
  BY Zenon DEF BuildTextRetrieve
<1>0. /\ HasWords(p.query)
      /\ Within(OrDefault(p.limit, Len(p.documents)), 1, Len(p.documents))
  BY <1>1
<1>2. p.query \in Seq(Int) /\ limit \in Nat /\ IsList(p.documents)
  <2>1. MaybeText(p.query) /\ MaybeNumber(p.limit) /\ IsList(p.documents)
    BY DEF PayloadOK
  <2>2. Len(p.documents) \in Nat
    BY <2>1 DEF IsList
  <2>3. p.query \in Seq(Int)
    BY <1>0, <2>1, UsableText
  <2>4. limit \in Nat
    BY <1>0, <2>1, <2>2, UsableLimit
  <2>. QED BY <2>1, <2>3, <2>4
<1>3. IsFiniteSet(queried)
  BY <1>2, TokensAreTexts
<1>4. \A d : IsFiniteSet(found(d)) /\ matched(d) \in Nat
  <2>1. \A d : found(d) \in SUBSET queried
    OBVIOUS
  <2>. HIDE DEF queried, found
  <2>2. \A d : IsFiniteSet(found(d))
    BY <1>3, <2>1, FS_Subset
  <2>. QED BY <2>2, FS_CardinalityType
<1>5. FieldOK(asked, Many(<<"str">>, "none"))
  <2>. DEFINE e(n) == CHOOSE x \in queried :
                          Cardinality({y \in queried : TextLess(y, x)}) = n - 1
  <2>1. terms = [n \in 1 .. Cardinality(queried) |-> e(n)]
    BY Zenon DEF Ordered
  <2>2. Cardinality(queried) \in Nat
    BY <1>3, FS_CardinalityType
  <2>. HIDE DEF e, queried, terms
  <2>3. DOMAIN terms = 1 .. Cardinality(queried)
    BY <2>1
  <2>4. \A i \in 1 .. Cardinality(queried) : RowOK(asked[i], Many(<<"str">>, "none"))
    BY <2>3, KindsOK, SingleOK
  <2>5. asked = [i \in 1 .. Cardinality(queried) |-> asked[i]]
    BY <2>3
  <2>. HIDE DEF asked
  <2>. QED BY <2>2, <2>4, <2>5, ManyOK
<1>6. IsFiniteSet(ToSet(p.documents))
  <2>1. Len(p.documents) \in Int /\ 1 \in Int
    BY <1>2 DEF IsList
  <2>2. IsFiniteSet(DOMAIN p.documents)
    BY <1>2, <2>1, ListIsSeq, FS_Interval
  <2>3. p.documents \in Surjection(DOMAIN p.documents, ToSet(p.documents))
    <3>1. p.documents \in Seq(ToSet(p.documents)) /\ DOMAIN p.documents = 1 .. Len(p.documents)
      BY <1>2, ListIsSeq
    <3>2. p.documents \in [DOMAIN p.documents -> ToSet(p.documents)]
      BY <3>1
    <3>. QED BY <3>2 DEF Surjection, ToSet
  <2>. QED BY <2>2, <2>3, FS_Surjection
<1>7. Len(listed) \in Nat /\ DOMAIN listed = 1 .. Len(listed)
  <2>. DEFINE D == ToSet(p.documents)
              e(n) == CHOOSE x \in D : Cardinality({y \in D : before(y, x)}) = n - 1
  <2>1. ranked = [n \in 1 .. Cardinality(D) |-> e(n)]
    BY Zenon DEF Ordered
  <2>2. Cardinality(D) \in Nat
    BY <1>6, FS_CardinalityType
  <2>. HIDE DEF e, D, before, ranked
  <2>3. IsList(ranked)
    BY <2>1, <2>2, ListOf
  <2>. HIDE DEF limit
  <2>. QED BY <1>2, <2>3, FirstIsList
<1>8. ASSUME NEW d PROVE RowOK(row(d), schema)
  <2>1. /\ texts(d) = [i \in 1 .. matched(d) |-> texts(d)[i]]
        /\ \A i \in 1 .. matched(d) : \E v : texts(d)[i] = Str(v)
    <3>. HIDE DEF found, matched
    <3>. QED OBVIOUS
  <2>2. matched(d) \in Nat
    <3>. HIDE DEF matched
    <3>. QED BY <1>4
  <2>3. IsList(texts(d)) /\ Len(texts(d)) = matched(d)
    <3>. HIDE DEF texts, matched
    <3>. QED BY <2>1, <2>2, ListOf
  <2>. HIDE DEF texts, matched
  <2>. QED BY <2>1, <2>2, <2>3, KindsOK, LongRowOK
<1>9. FieldOK(rows, schema)
  <2>. HIDE DEF listed, row
  <2>1. \A i \in 1 .. Len(listed) : RowOK(rows[i], schema)
    <3>. HIDE DEF schema
    <3>. QED BY <1>7, <1>8
  <2>2. rows = [i \in 1 .. Len(listed) |-> rows[i]]
    BY <1>7
  <2>. HIDE DEF rows
  <2>. QED BY <1>7, <2>1, <2>2, ManyOK
<1>. HIDE DEF rows, asked
<1>. QED BY <1>1, <1>5, <1>9 DEF OutputOK

LEMMA ChunksFit ==
    ASSUME NEW p, PayloadOK("text_chunk", p), BuildTextChunk(p) # Malformed
    PROVE  OutputOK(BuildTextChunk(p),
               [chunks |-> Many(<<"int", "str", "int">>, "none"),
                chunk_count |-> One("int"), character_count |-> One("int")])
<1>1. PICK c, e :
         /\ CutAt(c, e, p.text, OrDefault(p.max_chars, DefaultMaxChars), 0)
         /\ BuildTextChunk(p) = [chunks |-> [i \in 1 .. Len(c) |->
                                                <<Num(i - 1), Str(c[i]), Num(Len(c[i]))>>],
                                 chunk_count |-> Scalar(Num(Len(c))),
                                 character_count |-> Scalar(Num(Len(p.text)))]
  BY ChunksBuilt
<1>. DEFINE rows == [i \in 1 .. Len(c) |-> <<Num(i - 1), Str(c[i]), Num(Len(c[i]))>>]
<1>2. Len(c) \in Nat
  BY <1>1 DEF CutAt, IsList
<1>3. FieldOK(rows, Many(<<"int", "str", "int">>, "none"))
  <2>1. \A i \in 1 .. Len(c) : RowOK(rows[i], Many(<<"int", "str", "int">>, "none"))
    BY KindsOK, TripleOK
  <2>2. rows = [i \in 1 .. Len(c) |-> rows[i]]
    OBVIOUS
  <2>. HIDE DEF rows
  <2>. QED BY <1>2, <2>1, <2>2, ManyOK
<1>4. \A v : FieldOK(Scalar(Num(v)), One("int"))
  BY KindsOK, ScalarOK
<1>5. BuildTextChunk(p) = [chunks |-> rows, chunk_count |-> Scalar(Num(Len(c))),
                           character_count |-> Scalar(Num(Len(p.text)))]
  BY <1>1
<1>. HIDE DEF rows
<1>. QED BY <1>3, <1>4, <1>5 DEF OutputOK

(* What the runner builds from a payload the service stores fits the       *)
(* schema the gate declares for its type.                                  *)
LEMMA ExpectedFits ==
    ASSUME NEW j, PayloadOK(j.type, j.payload),
           Expected(j) # Malformed, Expected(j) # Raised
    PROVE  OutputOK(Expected(j), OutputSchema(j))
<1>. DEFINE p == j.payload
<1>1. CASE j.type = "echo"
  <2>1. Expected(j) = EchoOutput(p) /\ IsText(p.message)
    BY <1>1 DEF Expected
  <2>2. OutputSchema(j) = [value |-> One("str")]
    BY <1>1, Zenon DEF OutputSchema
  <2>. QED BY <2>1, <2>2, EchoFits
<1>2. CASE j.type = "hash"
  <2>1. Expected(j) = BuildHash(p)
    BY <1>2, Zenon DEF Expected, Build
  <2>2. OutputSchema(j) = [algorithm |-> One("str"), digest |-> One("str")]
    BY <1>2, Zenon DEF OutputSchema
  <2>. QED BY <2>1, <2>2, HashFits
<1>3. CASE j.type = "basic_compute"
  <2>1. Expected(j) = BuildBasicCompute(p)
    BY <1>3, Zenon DEF Expected, Build
  <2>2. OutputSchema(j) = [operation |-> One("str"), result |-> One("number")]
    BY <1>3, Zenon DEF OutputSchema
  <2>. QED BY <1>3, <2>1, <2>2, ComputeFits
<1>4. CASE j.type = "schema_transform"
  <2>1. Expected(j) = BuildSchemaTransform(p)
    BY <1>4, Zenon DEF Expected, Build
  <2>2. OutputSchema(j) = [f \in DOMAIN p.fields |-> One(DeclaredKind[p.fields[f]])]
    BY <1>4, Zenon DEF OutputSchema
  <2>. QED BY <1>4, <2>1, <2>2, TransformFits
<1>5. CASE j.type = "text_stats"
  <2>1. Expected(j) = BuildTextStats(p)
    BY <1>5, Zenon DEF Expected, Build
  <2>2. OutputSchema(j) = [character_count |-> One("int"), word_count |-> One("int"),
                           line_count |-> One("int"), normalized_preview |-> One("str")]
    BY <1>5, Zenon DEF OutputSchema
  <2>. QED BY <2>1, <2>2, StatsFits
<1>6. CASE j.type = "keyword_extract"
  <2>1. Expected(j) = BuildKeywordExtract(p)
    BY <1>6, Zenon DEF Expected, Build
  <2>2. OutputSchema(j) = [keywords |-> Many(<<"str", "int">>, "none"),
                           unique_terms |-> One("int"), total_terms |-> One("int")]
    BY <1>6, Zenon DEF OutputSchema
  <2>. QED BY <1>6, <2>1, <2>2, KeywordsFit
<1>7. CASE j.type = "text_chunk"
  <2>1. Expected(j) = BuildTextChunk(p)
    BY <1>7, Zenon DEF Expected, Build
  <2>2. OutputSchema(j) = [chunks |-> Many(<<"int", "str", "int">>, "none"),
                           chunk_count |-> One("int"), character_count |-> One("int")]
    BY <1>7, Zenon DEF OutputSchema
  <2>. QED BY <1>7, <2>1, <2>2, ChunksFit
<1>8. CASE j.type = "text_embed"
  <2>1. Expected(j) = BuildTextEmbed(p)
    BY <1>8, Zenon DEF Expected, Build
  <2>2. OutputSchema(j) = [dimensions |-> One("int"), token_count |-> One("int"),
                           unique_terms |-> One("int"), vector |-> Many(<<"int">>, "none")]
    BY <1>8, Zenon DEF OutputSchema
  <2>. QED BY <1>8, <2>1, <2>2, EmbedFits
<1>9. CASE j.type = "text_retrieve"
  <2>1. Expected(j) = BuildTextRetrieve(p)
    BY <1>9, Zenon DEF Expected, Build
  <2>2. OutputSchema(j) = [query_terms |-> Many(<<"str">>, "none"),
                           matches |-> Many(<<"str", "number", "int">>, "str")]
    BY <1>9, Zenon DEF OutputSchema
  <2>. QED BY <1>9, <2>1, <2>2, RetrieveFits
<1>10. CASE j.type \notin TypeNames
  <2>1. j.type \notin {"echo", "hash", "basic_compute", "schema_transform", "text_stats",
                       "keyword_extract", "text_chunk", "text_embed", "text_retrieve"}
    BY <1>10 DEF TypeNames
  <2>2. Expected(j) = Malformed
    BY <2>1, Zenon DEF Expected, Build
  <2>. QED BY <2>2
<1>. QED BY <1>1, <1>2, <1>3, <1>4, <1>5, <1>6, <1>7, <1>8, <1>9, <1>10 DEF TypeNames

LEMMA BuiltTypes ==
    ASSUME NEW j, Expected(j) # Malformed
    PROVE  j.type \in TypeNames
<1>1. SUFFICES ASSUME j.type \notin TypeNames PROVE Expected(j) = Malformed
  OBVIOUS
<1>2. j.type \notin {"echo", "hash", "basic_compute", "schema_transform", "text_stats",
                     "keyword_extract", "text_chunk", "text_embed", "text_retrieve"}
  BY <1>1 DEF TypeNames
<1>. QED BY <1>2, Zenon DEF Expected, Build

LEMMA OutputFits ==
    ASSUME NEW out, NEW schema, OutputOK(out, schema)
    PROVE  FitsSchema(out, schema) /\ EqualOutputs(out, out)
<1>1. FitsSchema(out, schema)
  BY DEF OutputOK, FieldOK, RowOK, IsList, FitsSchema
<1>2. EqualOutputs(out, out)
  BY Zenon DEF EqualOutputs
<1>. QED BY <1>1, <1>2

-----------------------------------------------------------------------------
(* The gate: what it accepted, and of what.                                *)

USE WorkAssumption

Shaped(r) == r = [job |-> r.job, node |-> r.node, status |-> r.status, output |-> r.output,
                  units |-> r.units]

(* The runner completes with one unit or fails with none.                  *)
LEMMA OwnShape ==
    ASSUME Own # Raised
    PROVE  /\ Shaped(Own) /\ Own.job = job.id /\ Own.node = Node
           /\ \/ Own.status = "completed" /\ Own.units = 1
              \/ Own.status = "failed" /\ Own.units = 0 /\ Own.output = Malformed
BY DEF Own, RunJob, Reported, Result, Shaped

LEMMA ShapedUnits ==
    ASSUME NEW r, Shaped(r), NEW u
    PROVE  /\ [r EXCEPT !.units = u] =
                 [job |-> r.job, node |-> r.node, status |-> r.status, output |-> r.output,
                  units |-> u]
           /\ Shaped([r EXCEPT !.units = u])
BY DEF Shaped

LEMMA AlterationsShaped ==
    ASSUME NEW r, Shaped(r), NEW a \in Alterations(r)
    PROVE  Shaped(a)
BY DEF Alterations, Shaped

(* What an accepted result was checked for.                                *)
LEMMA AcceptedChecks ==
    ASSUME NEW r, NEW node, ValidateJobResult(job, r, node) = "ok"
    PROVE  /\ r.status = "completed" /\ r.job = job.id
           /\ node = AnyNode \/ r.node = node
           /\ Expected(job) # Raised /\ Expected(job) # Malformed
           /\ FitsSchema(r.output, OutputSchema(job))
           /\ EqualOutputs(r.output, Expected(job))
<1>. DEFINE e == Expected(job)
<1>1. Verdict(job, r, node, e) = "ok"
  BY DEF ValidateJobResult
<1>2. Raised # "ok"
  BY DEF WorkAssumption, Reasons
<1>. HIDE DEF e
<1>. QED BY <1>1, <1>2 DEF Verdict, e

(* What the gate compares with is what the runner itself returns.          *)
LEMMA ExpectedIsOwn ==
    ASSUME Expected(job) # Raised, Expected(job) # Malformed
    PROVE  Own.output = Expected(job)
BY DEF Expected, Own, RunJob, Reported, Result

(* An unedited report is the runner's result with the credited units, and  *)
(* an unedited result of an executor is the runner's.                      *)
ReportInv ==
    phase = "reported" =>
        /\ Shaped(result)
        /\ ~altered => /\ Own # Raised
                       /\ verdict = ValidateJobResult(job, Own, Node)
                       /\ result = [Own EXCEPT !.units =
                                       IF verdict = "ok" THEN Score(job, Own) ELSE 0]

(* Who accepted a result, and as what, while it is still the same result.  *)
AcceptInv ==
    /\ phase = "received" /\ verdict = "ok" =>
          result.node = Node /\ ValidateJobResult(job, result, AnyNode) = "ok"
    /\ phase = "received" /\ ~altered =>
          /\ Own # Raised /\ result = Own
          /\ verdict = ValidateJobResult(job, Own, AnyNode)
    /\ phase = "replayed" => Shaped(result)
    /\ phase = "replayed" /\ replayed = "ok" =>
          ValidateJobResult(job, ForOutputValidation(result), Node) = "ok"

GateInv == job \in Jobs /\ ReportInv /\ ReplayRepeatsVerdict /\ AcceptInv

LEMMA InitGate == Init => GateInv
BY DEF Init, GateInv, ReportInv, ReplayRepeatsVerdict, AcceptInv

LEMMA ReceiveGate ==
    ASSUME NEW r, NEW raised, Receive(r, raised), job \in Jobs
    PROVE  GateInv'
<1>1. phase' = "aborted" \/ phase' = "received"
  BY Zenon DEF Receive
<1>2. ASSUME phase' = "received", verdict' = "ok"
      PROVE  result'.node = Node /\ ValidateJobResult(job', result', AnyNode) = "ok"
  BY <1>2 DEF Receive
<1>3. job' = job /\ Own' = Own
  BY DEF Receive, Own
<1>4. ASSUME phase' = "received", ~altered'
      PROVE  /\ Own # Raised /\ result' = Own
             /\ verdict' = ValidateJobResult(job, Own, AnyNode)
  <2>1. Own # Raised /\ r = Own /\ result' = r
    BY <1>4, Zenon DEF Receive
  <2>2. r.node = Node
    BY <2>1, OwnShape
  <2>3. verdict' = ValidateJobResult(job, r, AnyNode)
    BY <1>4, <2>2, Zenon DEF Receive
  <2>. QED BY <2>1, <2>3
<1>. QED BY <1>1, <1>2, <1>3, <1>4 DEF GateInv, ReportInv, ReplayRepeatsVerdict, AcceptInv

LEMMA NextGate == GateInv /\ [Next]_vars => GateInv'
<1>. SUFFICES ASSUME GateInv, [Next]_vars PROVE GateInv'
  OBVIOUS
<1>1. CASE ProcessAssignment
  <2>1. /\ phase' = "reported" /\ Own # Raised /\ job' = job /\ Own' = Own
        /\ verdict' = ValidateJobResult(job, Own, Node)
        /\ result' = [Own EXCEPT !.units = IF verdict' = "ok" THEN Score(job, Own) ELSE 0]
    BY <1>1 DEF ProcessAssignment, Own
  <2>2. Shaped(result')
    BY <2>1, OwnShape, ShapedUnits
  <2>. QED BY <2>1, <2>2 DEF GateInv, ReportInv, ReplayRepeatsVerdict, AcceptInv
<1>2. CASE ProcessingRaises \/ ReplayRefuses
  BY <1>2 DEF ProcessingRaises, ReplayRefuses, GateInv, ReportInv, ReplayRepeatsVerdict, AcceptInv
<1>3. CASE Execute
  BY <1>3, ReceiveGate DEF Execute, GateInv
<1>4. CASE ExecuteRaises
  BY <1>4, ReceiveGate DEF ExecuteRaises, GateInv
<1>5. CASE AlterReport
  <2>1. PICK r \in Alterations(result) : result' = r /\ altered' = (r # result)
    BY <1>5 DEF AlterReport
  <2>2. phase = "reported" /\ phase' = "reported" /\ ~altered /\ UNCHANGED <<job, verdict>>
    BY <1>5 DEF AlterReport
  <2>3. Shaped(result')
    BY <2>1, <2>2, AlterationsShaped DEF GateInv, ReportInv
  <2>4. ~altered' => result' = result
    BY <2>1
  <2>5. Own' = Own
    BY <2>2 DEF Own
  <2>6. ReportInv'
    BY <2>2, <2>3, <2>4, <2>5 DEF GateInv, ReportInv
  <2>. QED BY <2>2, <2>6 DEF GateInv, ReplayRepeatsVerdict, AcceptInv
<1>6. CASE Replay
  <2>1. /\ phase = "reported" /\ phase' = "replayed"
        /\ replayed' = ValidateJobResult(job, ForOutputValidation(result), Node)
        /\ UNCHANGED <<job, result, verdict, altered>>
    BY <1>6 DEF Replay
  <2>2. ASSUME ~altered PROVE ForOutputValidation(result) = Own
    <3>. DEFINE u == IF verdict = "ok" THEN Score(job, Own) ELSE 0
    <3>1. result = [Own EXCEPT !.units = u]
      BY <2>1, <2>2 DEF GateInv, ReportInv
    <3>2. Own # Raised /\ verdict = ValidateJobResult(job, Own, Node)
      BY <2>1, <2>2 DEF GateInv, ReportInv
    <3>6. Own.status # "completed" => u = 0
      BY <3>2, AcceptedChecks
    <3>. HIDE DEF u
    <3>3. result = [job |-> Own.job, node |-> Own.node, status |-> Own.status,
                    output |-> Own.output, units |-> u]
      BY <3>1, <3>2, OwnShape, ShapedUnits
    <3>4. CASE Own.status = "completed"
      <4>1. Own.units = 1
        BY <3>2, <3>4, OwnShape
      <4>2. [result EXCEPT !.units = 1] =
               [job |-> Own.job, node |-> Own.node, status |-> Own.status,
                output |-> Own.output, units |-> 1]
        BY <3>3
      <4>. QED BY <3>2, <3>3, <3>4, <4>1, <4>2, OwnShape DEF ForOutputValidation, Shaped
    <3>5. CASE Own.status # "completed"
      BY <3>1, <3>2, <3>3, <3>5, <3>6, OwnShape DEF ForOutputValidation, Shaped
    <3>. QED BY <3>4, <3>5
  <2>3. ReplayRepeatsVerdict'
    BY <2>1, <2>2 DEF GateInv, ReportInv, ReplayRepeatsVerdict
  <2>4. AcceptInv'
    BY <2>1 DEF GateInv, ReportInv, AcceptInv, ForOutputValidation
  <2>. QED BY <2>1, <2>3, <2>4 DEF GateInv, ReportInv
<1>7. CASE UNCHANGED vars
  BY <1>7 DEF vars, Own, GateInv, ReportInv, ReplayRepeatsVerdict, AcceptInv
<1>. QED BY <1>1, <1>2, <1>3, <1>4, <1>5, <1>6, <1>7 DEF Next

(* A completed run has the output the gate computes again, except that of  *)
(* an echo without a message.                                              *)
LEMMA OwnIsExpected ==
    ASSUME Own # Raised, Own.status = "completed", ~NeedsMessage
    PROVE  /\ Own.output = Expected(job)
           /\ Expected(job) # Raised /\ Expected(job) # Malformed
<1>. DEFINE o == IF job.type = "echo" THEN EchoOutput(job.payload) ELSE Build(job)
<1>1. Own = Reported(job, Node, o)
  BY DEF Own, RunJob
<1>2. Expected(job) = o
  BY DEF Expected, NeedsMessage
<1>. HIDE DEF o
<1>3. Reported(job, Node, o) \in {Raised, Result(job, Node, "failed", Malformed, 0),
                                  Result(job, Node, "completed", o, 1)}
  BY Zenon DEF Reported
<1>4. o = Raised => Reported(job, Node, o) \in {Raised, Result(job, Node, "failed", Malformed, 0)}
  BY Zenon DEF Reported
<1>5. o = Malformed =>
          Reported(job, Node, o) \in {Raised, Result(job, Node, "failed", Malformed, 0)}
  BY Zenon DEF Reported
<1>6. Result(job, Node, "failed", Malformed, 0).status = "failed"
  BY DEF Result
<1>7. o # Raised /\ o # Malformed
  BY <1>1, <1>4, <1>5, <1>6
<1>8. Own = Result(job, Node, "completed", o, 1)
  BY <1>1, <1>3, <1>6
<1>9. Own.output = o
  BY <1>8 DEF Result
<1>. QED BY <1>2, <1>7, <1>9

LEMMA OwnAccepted ==
    ASSUME job \in Jobs, Own # Raised, Own.status = "completed", ~NeedsMessage,
           NEW node \in {Node, AnyNode}
    PROVE  ValidateJobResult(job, Own, node) = "ok"
<1>1. /\ Own.output = Expected(job)
      /\ Expected(job) # Raised /\ Expected(job) # Malformed
  BY OwnIsExpected
<1>2. PayloadOK(job.type, job.payload)
  BY JobsAssumption DEF JobsAssumption
<1>3. OutputOK(Expected(job), OutputSchema(job))
  BY <1>1, <1>2, ExpectedFits
<1>4. FitsSchema(Own.output, OutputSchema(job)) /\ EqualOutputs(Own.output, Expected(job))
  BY <1>1, <1>3, OutputFits
<1>5. job.type \in TypeNames
  BY <1>1, BuiltTypes
<1>6. Own.job = job.id /\ Own.node = Node /\ Own.units = 1
  BY OwnShape
<1>. QED BY <1>1, <1>4, <1>5, <1>6 DEF ValidateJobResult, Verdict

(* Runner and gate compute an output twice and check it against a schema   *)
(* written a third time; for every job an unedited completed result is     *)
(* accepted, and a replay of its report gives the worker's verdict again.  *)
THEOREM HonestWorkPasses == Spec => []HonestIsAccepted
<1>1. ASSUME GateInv PROVE HonestIsAccepted
  <2>1. ASSUME ~altered, phase \in {"reported", "received"}, result.status = "completed",
               ~NeedsMessage
        PROVE  verdict = "ok"
    <3>1. CASE phase = "received"
      <4>1. /\ Own # Raised /\ result = Own
            /\ verdict = ValidateJobResult(job, Own, AnyNode)
        BY <1>1, <2>1, <3>1 DEF GateInv, AcceptInv
      <4>. QED BY <1>1, <2>1, <4>1, OwnAccepted DEF GateInv
    <3>2. CASE phase = "reported"
      <4>1. /\ Own # Raised /\ verdict = ValidateJobResult(job, Own, Node)
            /\ result = [Own EXCEPT !.units =
                            IF verdict = "ok" THEN Score(job, Own) ELSE 0]
        BY <1>1, <2>1, <3>2 DEF GateInv, ReportInv
      <4>2. result.status = Own.status
        BY <4>1, OwnShape, ShapedUnits
      <4>. QED BY <1>1, <2>1, <4>1, <4>2, OwnAccepted DEF GateInv
    <3>. QED BY <2>1, <3>1, <3>2
  <2>. QED BY <1>1, <2>1 DEF GateInv, HonestIsAccepted
<1>. QED BY <1>1, InitGate, NextGate, PTL DEF Spec

-----------------------------------------------------------------------------
(* What whoever alters a result may leave of its output.                   *)

(* Whatever becomes of a result, its output is made of lists of leaves.    *)
LeavesOK(out) ==
    \A f \in DOMAIN out :
        /\ IsList(out[f])
        /\ \A i \in DOMAIN out[f] :
              IsList(out[f][i]) /\ \A k \in DOMAIN out[f][i] : IsLeaf(out[f][i][k])
ResultInv ==
    /\ job \in Jobs /\ Shaped(result)
    /\ result.output # Malformed => LeavesOK(result.output)

LEMMA LookalikesAreLeaves ==
    ASSUME NEW leaf, NEW like \in Lookalikes(leaf)
    PROVE  IsLeaf(like)
<1>1. like = Leaf(like.kind, like.val)
  <2>1. \E kind, val : like = Leaf(kind, val)
    <3>1. CASE like = Leaf(leaf.kind, Other)
      BY <3>1
    <3>2. CASE leaf.kind = "int" /\ like \in {Leaf("float", leaf.val)} \cup
                               {Leaf("bool", n) : n \in {0, 1} \cap {leaf.val}}
      BY <3>2
    <3>3. CASE like = Leaf("int", leaf.val) \/ like = Num(leaf.val) \/ like = Leaf("null", Bad)
      BY <3>3 DEF Num
    <3>4. leaf.kind = "int" => Lookalikes(leaf) = {Leaf(leaf.kind, Other)} \cup
               ({Leaf("float", leaf.val)} \cup {Leaf("bool", n) : n \in {0, 1} \cap {leaf.val}})
      BY Zenon DEF Lookalikes
    <3>5. leaf.kind = "float" => Lookalikes(leaf) = {Leaf(leaf.kind, Other)} \cup
               {Leaf("int", leaf.val)}
      BY Zenon DEF Lookalikes
    <3>6. leaf.kind = "bool" => Lookalikes(leaf) = {Leaf(leaf.kind, Other)} \cup
               {Num(leaf.val)}
      BY Zenon DEF Lookalikes
    <3>7. leaf.kind \notin {"int", "float", "bool"} =>
               Lookalikes(leaf) = {Leaf(leaf.kind, Other)} \cup {Leaf("null", Bad)}
      BY Zenon DEF Lookalikes
    <3>. QED BY <3>1, <3>2, <3>3, <3>4, <3>5, <3>6, <3>7
  <2>2. PICK kind, val : like = Leaf(kind, val)
    BY <2>1
  <2>. QED BY <2>2 DEF Leaf
<1>. QED BY <1>1 DEF IsLeaf

LEMMA ChangedLeavesOK ==
    ASSUME NEW out, LeavesOK(out), NEW o \in ChangedLeaves(out)
    PROVE  LeavesOK(o)
<1>1. PICK f \in DOMAIN out : \E i \in DOMAIN out[f] : \E k \in DOMAIN out[f][i] :
          \E leaf \in Lookalikes(out[f][i][k]) : o = [out EXCEPT ![f][i][k] = leaf]
  BY DEF ChangedLeaves
<1>2. PICK i \in DOMAIN out[f] : \E k \in DOMAIN out[f][i] :
          \E leaf \in Lookalikes(out[f][i][k]) : o = [out EXCEPT ![f][i][k] = leaf]
  BY <1>1
<1>10. PICK k \in DOMAIN out[f][i] :
          \E leaf \in Lookalikes(out[f][i][k]) : o = [out EXCEPT ![f][i][k] = leaf]
  BY <1>2
<1>3. PICK leaf \in Lookalikes(out[f][i][k]) : o = [out EXCEPT ![f][i][k] = leaf]
  BY <1>10
<1>4. IsLeaf(leaf)
  BY LookalikesAreLeaves
<1>. DEFINE row == [out[f][i] EXCEPT ![k] = leaf]
            field == [out[f] EXCEPT ![i] = row]
<1>5. IsList(row) /\ \A n \in DOMAIN row : IsLeaf(row[n])
  <2>1. Len(out[f][i]) \in Nat /\ out[f][i] = [n \in 1 .. Len(out[f][i]) |-> out[f][i][n]]
    BY DEF LeavesOK, IsList
  <2>2. row = [n \in 1 .. Len(out[f][i]) |-> row[n]]
    BY <2>1
  <2>3. \A n \in DOMAIN row : IsLeaf(row[n])
    BY <1>4 DEF LeavesOK
  <2>. HIDE DEF row
  <2>. QED BY <2>1, <2>2, <2>3, ListOf
<1>6. DOMAIN o = DOMAIN out /\ o = [g \in DOMAIN out |-> IF g = f THEN field ELSE out[g]]
  BY <1>3
<1>. HIDE DEF row
<1>7. IsList(field) /\ DOMAIN field = DOMAIN out[f]
  <2>1. Len(out[f]) \in Nat /\ out[f] = [n \in 1 .. Len(out[f]) |-> out[f][n]]
    BY DEF LeavesOK, IsList
  <2>2. field = [n \in 1 .. Len(out[f]) |-> field[n]]
    BY <2>1
  <2>. HIDE DEF field
  <2>. QED BY <2>1, <2>2, ListOf
<1>8. \A n \in DOMAIN field :
          IsList(field[n]) /\ \A m \in DOMAIN field[n] : IsLeaf(field[n][m])
  BY <1>5 DEF LeavesOK
<1>. HIDE DEF field
<1>9. \A g \in DOMAIN out : o[g] = IF g = f THEN field ELSE out[g]
  BY <1>6
<1>. QED BY <1>6, <1>7, <1>8, <1>9 DEF LeavesOK

LEMMA ChangedRowsOK ==
    ASSUME NEW out, LeavesOK(out), NEW o \in ChangedRows(out)
    PROVE  LeavesOK(o)
<1>1. PICK f \in DOMAIN out :
          /\ out[f] # <<>>
          /\ \/ o = [out EXCEPT ![f] = Front(out[f])]
             \/ o = [out EXCEPT ![f] = Append(out[f], Last(out[f]))]
             \/ o = [out EXCEPT ![f] = Reverse(out[f])]
  BY DEF ChangedRows
<1>. DEFINE s == out[f]
<1>2. /\ IsList(s)
      /\ \A i \in DOMAIN s : IsList(s[i]) /\ \A k \in DOMAIN s[i] : IsLeaf(s[i][k])
  BY DEF LeavesOK
<1>3. s \in Seq(ToSet(s)) /\ DOMAIN s = 1 .. Len(s) /\ Len(s) \in Nat /\ s # <<>>
  BY <1>1, <1>2, ListIsSeq DEF IsList
<1>. HIDE DEF s
<1>4. Len(s) # 0
  BY <1>3
<1>5. Front(s) \in Seq(ToSet(s)) /\ Append(s, Last(s)) \in Seq(ToSet(s))
      /\ Reverse(s) \in Seq(ToSet(s))
  <2>1. Last(s) \in ToSet(s)
    BY <1>3, <1>4 DEF Last, ToSet
  <2>2. Front(s) \in Seq(ToSet(s))
    BY <1>3, <1>4 DEF Front
  <2>3. Reverse(s) = [i \in 1 .. Len(s) |-> s[(Len(s) - i) + 1]]
    BY DEF Reverse
  <2>4. \A i \in 1 .. Len(s) : s[(Len(s) - i) + 1] \in ToSet(s)
    BY <1>3 DEF ToSet
  <2>. QED BY <1>3, <2>1, <2>2, <2>3, <2>4
<1>6. ASSUME NEW t \in Seq(ToSet(s)), o = [out EXCEPT ![f] = t] PROVE LeavesOK(o)
  <2>1. IsList(t)
    BY SeqIsList
  <2>2. \A i \in DOMAIN t : t[i] \in ToSet(s)
    OBVIOUS
  <2>3. \A i \in DOMAIN t : IsList(t[i]) /\ \A k \in DOMAIN t[i] : IsLeaf(t[i][k])
    BY <1>2, <2>2 DEF ToSet
  <2>4. DOMAIN o = DOMAIN out /\ \A g \in DOMAIN out : o[g] = IF g = f THEN t ELSE out[g]
    BY <1>6
  <2>. QED BY <2>1, <2>3, <2>4 DEF LeavesOK
<1>. QED BY <1>1, <1>5, <1>6 DEF s

LEMMA ScalarLeaves ==
    ASSUME NEW leaf, IsLeaf(leaf)
    PROVE  /\ IsList(Scalar(leaf))
           /\ \A i \in DOMAIN Scalar(leaf) :
                 /\ IsList(Scalar(leaf)[i])
                 /\ \A k \in DOMAIN Scalar(leaf)[i] : IsLeaf(Scalar(leaf)[i][k])
<1>. DEFINE row == <<leaf>>
<1>1. IsList(row) /\ DOMAIN row = 1 .. 1 /\ row[1] = leaf
  BY OneOK
<1>2. IsList(<<row>>) /\ DOMAIN <<row>> = 1 .. 1 /\ <<row>>[1] = row
  BY OneOK
<1>3. Scalar(leaf) = <<row>>
  BY DEF Scalar
<1>. HIDE DEF row
<1>. QED BY <1>1, <1>2, <1>3

LEMMA ChangedFieldsOK ==
    ASSUME NEW out, LeavesOK(out), NEW o \in ChangedFields(out)
    PROVE  LeavesOK(o)
<1>. DEFINE more == Scalar(Str(Other))
<1>1. \/ \E f \in DOMAIN out : o = [g \in DOMAIN out \ {f} |-> out[g]]
      \/ o = [g \in DOMAIN out \cup {"more"} |-> IF g = "more" THEN more ELSE out[g]]
  BY DEF ChangedFields
<1>2. /\ IsList(more)
      /\ \A i \in DOMAIN more :
            IsList(more[i]) /\ \A k \in DOMAIN more[i] : IsLeaf(more[i][k])
  BY ScalarLeaves, KindsOK
<1>. HIDE DEF more
<1>3. ASSUME NEW f, o = [g \in DOMAIN out \ {f} |-> out[g]] PROVE LeavesOK(o)
  BY <1>3 DEF LeavesOK
<1>4. ASSUME o = [g \in DOMAIN out \cup {"more"} |-> IF g = "more" THEN more ELSE out[g]]
      PROVE  LeavesOK(o)
  <2>1. DOMAIN o = DOMAIN out \cup {"more"}
        /\ \A g \in DOMAIN o : IF g = "more" THEN o[g] = more ELSE g \in DOMAIN out /\ o[g] = out[g]
    BY <1>4
  <2>. QED BY <1>2, <2>1 DEF LeavesOK
<1>. QED BY <1>1, <1>3, <1>4

LEMMA AlterationsKeepLeaves ==
    ASSUME NEW r, Shaped(r), r.output # Malformed => LeavesOK(r.output),
           NEW a \in Alterations(r), a.output # Malformed
    PROVE  LeavesOK(a.output)
<1>1. a.output = r.output \/ a.output \in ChangedOutputs(r.output)
  BY DEF Alterations, Shaped
<1>2. CASE a.output = r.output
  BY <1>2
<1>3. CASE a.output \in ChangedOutputs(r.output)
  <2>1. r.output # Malformed
    BY <1>3 DEF ChangedOutputs
  <2>2. a.output \in ChangedLeaves(r.output) \cup ChangedRows(r.output)
                        \cup ChangedFields(r.output)
    BY <1>3, <2>1 DEF ChangedOutputs
  <2>. QED BY <2>1, <2>2, ChangedLeavesOK, ChangedRowsOK, ChangedFieldsOK
<1>. QED BY <1>1, <1>2, <1>3

LEMMA OutputLeaves ==
    ASSUME NEW out, NEW schema, OutputOK(out, schema)
    PROVE  LeavesOK(out)
BY DEF OutputOK, FieldOK, RowOK, LeavesOK

LEMMA OwnLeaves ==
    ASSUME job \in Jobs, Own # Raised, Own.output # Malformed
    PROVE  LeavesOK(Own.output)
<1>1. Own.status = "completed"
  BY OwnShape
<1>2. CASE ~NeedsMessage
  <2>1. /\ Own.output = Expected(job)
        /\ Expected(job) # Raised /\ Expected(job) # Malformed
    BY <1>1, <1>2, OwnIsExpected
  <2>2. PayloadOK(job.type, job.payload)
    BY JobsAssumption DEF JobsAssumption
  <2>. QED BY <2>1, <2>2, ExpectedFits, OutputLeaves
<1>3. CASE NeedsMessage
  <2>1. Own = Reported(job, Node, EchoOutput(job.payload))
    BY <1>3 DEF Own, RunJob, NeedsMessage
  <2>2. Own \in {Raised, Result(job, Node, "failed", Malformed, 0),
                 Result(job, Node, "completed", EchoOutput(job.payload), 1)}
    BY <2>1, Zenon DEF Reported
  <2>3. Own.output = EchoOutput(job.payload)
    BY <2>2 DEF Result
  <2>4. PICK leaf : IsLeaf(leaf) /\ EchoOutput(job.payload) = [value |-> Scalar(leaf)]
    BY KindsOK, LeafOK DEF EchoOutput
  <2>. QED BY <2>3, <2>4, ScalarLeaves DEF LeavesOK
<1>. QED BY <1>2, <1>3

LEMMA InitResult == Init => ResultInv
BY DEF Init, ResultInv, FailedResult, Result, Shaped

LEMMA NextResult == ResultInv /\ [Next]_vars => ResultInv'
<1>. SUFFICES ASSUME ResultInv, [Next]_vars PROVE ResultInv'
  OBVIOUS
<1>0. Shaped(FailedResult) /\ FailedResult.output = Malformed
  BY DEF FailedResult, Result, Shaped
<1>1. CASE ProcessAssignment
  <2>1. /\ Own # Raised /\ job' = job
        /\ result' = [Own EXCEPT !.units = IF verdict' = "ok" THEN Score(job, Own) ELSE 0]
    BY <1>1 DEF ProcessAssignment
  <2>3. PICK u : result' = [Own EXCEPT !.units = u]
    BY <2>1
  <2>4. Shaped(Own)
    BY <2>1, OwnShape
  <2>5. result' = [job |-> Own.job, node |-> Own.node, status |-> Own.status,
                   output |-> Own.output, units |-> u]
    BY <2>3, <2>4, ShapedUnits
  <2>2. Shaped(result') /\ result'.output = Own.output
    BY <2>5 DEF Shaped
  <2>. QED BY <2>1, <2>2, OwnLeaves DEF ResultInv
<1>2. CASE ProcessingRaises \/ ReplayRefuses \/ Replay
  BY <1>2 DEF ProcessingRaises, ReplayRefuses, Replay, ResultInv
<1>3. ASSUME NEW r, NEW raised, Receive(r, raised), Shaped(r),
             r.output # Malformed => LeavesOK(r.output)
      PROVE  ResultInv'
  <2>1. job' = job /\ result' \in {r, result}
    BY <1>3, Zenon DEF Receive
  <2>. QED BY <1>3, <2>1 DEF ResultInv
<1>4. CASE Execute
  <2>. DEFINE honest == IF Own = Raised
                        THEN [FailedResult EXCEPT !.status = "completed", !.units = 1]
                        ELSE Own
  <2>1. PICK r \in {honest} \cup Alterations(honest) : Receive(r, FALSE)
    BY <1>4 DEF Execute
  <2>2. Shaped(honest) /\ (honest.output # Malformed => LeavesOK(honest.output))
    <3>1. CASE Own = Raised
      BY <1>0, <3>1 DEF Shaped
    <3>2. CASE Own # Raised
      BY <3>2, OwnShape, OwnLeaves DEF ResultInv
    <3>. QED BY <3>1, <3>2
  <2>. HIDE DEF honest
  <2>3. Shaped(r) /\ (r.output # Malformed => LeavesOK(r.output))
    BY <2>2, AlterationsShaped, AlterationsKeepLeaves
  <2>. QED BY <1>3, <2>1, <2>3
<1>5. CASE ExecuteRaises
  BY <1>0, <1>3, <1>5 DEF ExecuteRaises
<1>6. CASE AlterReport
  <2>1. PICK r \in Alterations(result) : result' = r
    BY <1>6 DEF AlterReport
  <2>2. job' = job
    BY <1>6 DEF AlterReport
  <2>. QED BY <2>1, <2>2, AlterationsShaped, AlterationsKeepLeaves DEF ResultInv
<1>7. CASE UNCHANGED vars
  BY <1>7 DEF vars, ResultInv
<1>. QED BY <1>1, <1>2, <1>4, <1>5, <1>6, <1>7 DEF Next

(* Leaves of one declared kind are the same when they are equal in Python, *)
(* unless a plain number is asked for.                                     *)
LEMMA EqualLeaves ==
    ASSUME NEW a, NEW b, IsLeaf(a), IsLeaf(b), NEW kind,
           Accepts(kind, a), Accepts(kind, b), Plain(a) = Plain(b)
    PROVE  SameLeaf(a, b, kind)
<1>1. CASE kind = "number"
  BY <1>1 DEF SameLeaf
<1>2. CASE kind # "number"
  <2>1. a.kind = b.kind
    BY <1>2 DEF Accepts
  <2>2. a.val = b.val
    BY DEF Plain
  <2>3. a = [kind |-> a.kind, val |-> a.val] /\ b = [kind |-> b.kind, val |-> b.val]
    BY DEF IsLeaf, Leaf
  <2>4. a = b
    BY <2>1, <2>2, <2>3
  <2>. QED BY <2>4 DEF SameLeaf
<1>. QED BY <1>1, <1>2

LEMMA EqualOutputsAreSame ==
    ASSUME NEW out, NEW own, NEW schema, LeavesOK(out), OutputOK(own, schema),
           FitsSchema(out, schema), EqualOutputs(out, own)
    PROVE  SameOutput(out, own, schema)
<1>1. DOMAIN out = DOMAIN own /\ DOMAIN out = DOMAIN schema
  BY DEF FitsSchema, EqualOutputs
<1>2. ASSUME NEW f \in DOMAIN out
      PROVE  /\ Len(out[f]) = Len(own[f])
             /\ \A i \in DOMAIN out[f] :
                   /\ Len(out[f][i]) = Len(own[f][i])
                   /\ \A k \in DOMAIN out[f][i] :
                         SameLeaf(out[f][i][k], own[f][i][k], KindAt(schema[f], k))
  <2>1. Len(out[f]) = Len(own[f])
    BY DEF EqualOutputs
  <2>2. ASSUME NEW i \in DOMAIN out[f]
        PROVE  /\ Len(out[f][i]) = Len(own[f][i])
               /\ \A k \in DOMAIN out[f][i] :
                     SameLeaf(out[f][i][k], own[f][i][k], KindAt(schema[f], k))
    <3>. DEFINE row == out[f][i]  mine == own[f][i]
    <3>1. /\ Len(row) = Len(mine)
          /\ \A k \in DOMAIN row : Plain(row[k]) = Plain(mine[k])
      BY DEF EqualOutputs
    <3>2. IsList(out[f]) /\ DOMAIN out[f] = 1 .. Len(out[f])
      BY DEF LeavesOK, IsList
    <3>3. FieldOK(own[f], schema[f])
      BY <1>1 DEF OutputOK
    <3>4. DOMAIN own[f] = 1 .. Len(own[f])
      BY <3>3 DEF FieldOK, IsList
    <3>5. i \in DOMAIN own[f]
      BY <2>1, <3>2, <3>4
    <3>6. RowOK(mine, schema[f])
      BY <3>3, <3>5 DEF FieldOK
    <3>7. RowFits(row, schema[f])
      BY <1>1 DEF FitsSchema
    <3>. DEFINE kind(k) == KindAt(schema[f], k)
    <3>8. \A k \in DOMAIN row : Accepts(kind(k), row[k])
      BY <3>7, Zenon DEF RowFits, KindAt
    <3>9. DOMAIN mine = 1 .. Len(mine)
          /\ \A k \in DOMAIN mine : Accepts(kind(k), mine[k]) /\ IsLeaf(mine[k])
      BY <3>6, Zenon DEF RowOK, RowFits, KindAt, IsList
    <3>10. DOMAIN row = 1 .. Len(row) /\ \A k \in DOMAIN row : IsLeaf(row[k])
      BY DEF LeavesOK, IsList
    <3>11. DOMAIN row = DOMAIN mine
      BY <3>1, <3>9, <3>10
    <3>. HIDE DEF row, mine, kind
    <3>12. \A k \in DOMAIN row : SameLeaf(row[k], mine[k], kind(k))
      BY <3>1, <3>8, <3>9, <3>10, <3>11, EqualLeaves
    <3>. QED BY <3>1, <3>12 DEF row, mine, kind
  <2>. QED BY <2>1, <2>2
<1>. QED BY <1>1, <1>2 DEF SameOutput

(* Whatever another runner returned and whatever was edited into a report, *)
(* an accepted result is the assigned job's and node's, and its output is  *)
(* the workload's to the type of every field but a plain number: the       *)
(* equality the gate computes and the schema it checks leave nothing else. *)
THEOREM AcceptedOutputIsExact == Spec => []AcceptedIsExact
<1>. DEFINE fits(r) == /\ r.status = "completed" /\ r.job = job.id
                       /\ Expected(job) # Raised /\ Expected(job) # Malformed
                       /\ FitsSchema(r.output, OutputSchema(job))
                       /\ EqualOutputs(r.output, Expected(job))
<1>1. ASSUME GateInv, ResultInv, Accepted PROVE fits(result) /\ result.node = Node
  <2>1. CASE phase = "received" /\ verdict = "ok"
    BY <1>1, <2>1, AcceptedChecks DEF GateInv, AcceptInv
  <2>2. CASE phase = "replayed" /\ replayed = "ok"
    <3>. PICK r : r = ForOutputValidation(result)
      OBVIOUS
    <3>1. ValidateJobResult(job, r, Node) = "ok"
      BY <1>1, <2>2 DEF GateInv, AcceptInv
    <3>2. /\ r.job = result.job /\ r.node = result.node /\ r.status = result.status
          /\ r.output = result.output
      BY <1>1, ShapedUnits DEF ForOutputValidation, Shaped, ResultInv
    <3>3. Node # AnyNode
      BY DEF WorkAssumption
    <3>. QED BY <3>1, <3>2, <3>3, AcceptedChecks
  <2>. QED BY <1>1, <2>1, <2>2 DEF Accepted
<1>2. ASSUME GateInv, ResultInv, Accepted PROVE AcceptedIsExact
  <2>1. fits(result) /\ result.node = Node
    BY <1>1, <1>2
  <2>2. LeavesOK(result.output)
    BY <1>2, <2>1 DEF ResultInv, FitsSchema
  <2>3. PayloadOK(job.type, job.payload)
    BY <1>2, JobsAssumption DEF JobsAssumption, ResultInv
  <2>4. OutputOK(Expected(job), OutputSchema(job)) /\ Expected(job) = Own.output
    BY <2>1, <2>3, ExpectedFits, ExpectedIsOwn
  <2>5. SameOutput(result.output, Own.output, OutputSchema(job))
    BY <2>1, <2>2, <2>4, EqualOutputsAreSame
  <2>. QED BY <2>1, <2>5 DEF AcceptedIsExact
<1>3. GateInv /\ ResultInv => AcceptedIsExact
  BY <1>2 DEF AcceptedIsExact
<1>. QED BY <1>3, InitGate, NextGate, InitResult, NextResult, PTL DEF Spec

-----------------------------------------------------------------------------
(* The score of an accepted result.                                        *)

(* What a score is capped and counted from.                                *)
LEMMA CappedUnits ==
    ASSUME NEW type, UnitCap[type] \in Nat \ {0}, NEW units \in Nat \ {0}
    PROVE  Capped(type, units) \in 1 .. UnitCap[type]
BY DEF Capped

LEMMA UnitsOfSize ==
    ASSUME NEW n \in Nat, NEW size \in Nat \ {0}
    PROVE  CeilDiv(n, size) \in Nat
BY DEF CeilDiv

LEMMA ScalarValue ==
    ASSUME NEW n
    PROVE  Scalar(Num(n))[1][1].val = n
<1>1. Scalar(Num(n)) = <<<<Num(n)>>>>
  BY DEF Scalar
<1>. QED BY <1>1 DEF Num, Leaf

(* The output the gate computes is its builder's.                          *)
LEMMA ExpectedIsBuilt ==
    ASSUME NEW j
    PROVE  /\ j.type = "text_stats" => Expected(j) = BuildTextStats(j.payload)
           /\ j.type = "keyword_extract" => Expected(j) = BuildKeywordExtract(j.payload)
           /\ j.type = "text_chunk" => Expected(j) = BuildTextChunk(j.payload)
           /\ j.type = "text_embed" => Expected(j) = BuildTextEmbed(j.payload)
           /\ j.type = "text_retrieve" => Expected(j) = BuildTextRetrieve(j.payload)
<1>1. j.type = "text_stats" => Expected(j) = BuildTextStats(j.payload)
  BY Zenon DEF Expected, Build
<1>2. j.type = "keyword_extract" => Expected(j) = BuildKeywordExtract(j.payload)
  BY Zenon DEF Expected, Build
<1>3. j.type = "text_chunk" => Expected(j) = BuildTextChunk(j.payload)
  BY Zenon DEF Expected, Build
<1>4. j.type = "text_embed" => Expected(j) = BuildTextEmbed(j.payload)
  BY Zenon DEF Expected, Build
<1>5. j.type = "text_retrieve" => Expected(j) = BuildTextRetrieve(j.payload)
  BY Zenon DEF Expected, Build
<1>. QED BY <1>1, <1>2, <1>3, <1>4, <1>5

LEMMA UnitsByType ==
    ASSUME NEW type \in ScaledTypes, NEW n \in Nat, NEW more \in Nat
    PROVE  Capped(type, 1 + CeilDiv(n, PerUnit[type]) + more) \in 1 .. UnitCap[type]
<1>1. PerUnit[type] \in Nat \ {0} /\ UnitCap[type] \in Nat \ {0}
  BY LimitsAssumption DEF LimitsAssumption
<1>2. CeilDiv(n, PerUnit[type]) \in Nat
  BY <1>1, UnitsOfSize
<1>. DEFINE units == 1 + CeilDiv(n, PerUnit[type]) + more
<1>3. units \in Nat \ {0}
  BY <1>2
<1>. HIDE DEF units
<1>4. Capped(type, units) \in 1 .. UnitCap[type]
  BY <1>1, <1>3, CappedUnits
<1>. QED BY <1>4 DEF units

LEMMA UnitsBySize ==
    ASSUME NEW type \in ScaledTypes, NEW n \in Nat
    PROVE  Capped(type, 1 + CeilDiv(n, PerUnit[type])) \in 1 .. UnitCap[type]
<1>1. PerUnit[type] \in Nat \ {0} /\ UnitCap[type] \in Nat \ {0}
  BY LimitsAssumption DEF LimitsAssumption
<1>2. CeilDiv(n, PerUnit[type]) \in Nat
  BY <1>1, UnitsOfSize
<1>. DEFINE units == 1 + CeilDiv(n, PerUnit[type])
<1>3. units \in Nat \ {0}
  BY <1>2
<1>. HIDE DEF units
<1>4. Capped(type, units) \in 1 .. UnitCap[type]
  BY <1>1, <1>3, CappedUnits
<1>. QED BY <1>4 DEF units

(* What a keyword, a chunk and an embedding job count agrees with what     *)
(* their outputs list, so that the scorer never refuses an honest one.     *)
LEMMA StatsScore ==
    ASSUME NEW j, NEW r, j.type = "text_stats", PayloadOK(j.type, j.payload),
           BuildTextStats(j.payload) # Malformed, r.output = BuildTextStats(j.payload)
    PROVE  Score(j, r) \in 1 .. UnitCap[j.type]
<1>1. MaybeText(j.payload.text) /\ IsText(j.payload.text)
  BY DEF PayloadOK, ScaledTypes, BuildTextStats
<1>2. Len(j.payload.text) \in Nat
  BY <1>1 DEF MaybeText, IsText
<1>3. r.output.character_count = Scalar(Num(Len(j.payload.text)))
  BY <1>1 DEF BuildTextStats
<1>4. Value(r.output, "character_count") = Len(j.payload.text)
  BY <1>3, ScalarValue DEF Value
<1>5. Score(j, r) = Capped(j.type, 1 + CeilDiv(Value(r.output, "character_count"), PerUnit[j.type]))
  BY Zenon DEF Score
<1>6. j.type \in ScaledTypes
  BY DEF ScaledTypes
<1>. QED BY <1>2, <1>4, <1>5, <1>6, UnitsBySize

LEMMA KeywordScore ==
    ASSUME NEW j, NEW r, j.type = "keyword_extract", PayloadOK(j.type, j.payload),
           BuildKeywordExtract(j.payload) # Malformed, r.output = BuildKeywordExtract(j.payload)
    PROVE  Score(j, r) \in 1 .. UnitCap[j.type]
<1>. DEFINE rows == r.output.keywords
            terms == {rows[i][1].val : i \in DOMAIN rows}
<1>1. PICK s, n : KeywordsOf(r.output, j.payload.text, s, n)
  BY KeywordsBuilt
<1>2. /\ n \in Nat /\ n <= Len(s) /\ Len(s) \in Nat
      /\ \A i, k \in 1 .. Len(s) : i < k => s[i] # s[k]
      /\ rows = [i \in 1 .. n |-> <<Str(s[i]), Num(Often(s[i], j.payload.text))>>]
  BY <1>1 DEF KeywordsOf
<1>3. Len(rows) = n /\ DOMAIN rows = 1 .. n
  <2>1. rows = [i \in 1 .. n |-> rows[i]]
    BY <1>2
  <2>. HIDE DEF rows
  <2>. QED BY <1>2, <2>1, ListOf
<1>4. \A i \in 1 .. n : rows[i][1].val = s[i]
  <2>1. \A i \in 1 .. n : rows[i] = <<Str(s[i]), Num(Often(s[i], j.payload.text))>>
    BY <1>2
  <2>2. \A i \in 1 .. n : rows[i][1] = Str(s[i])
    <3>. HIDE DEF rows
    <3>. QED BY <2>1, TwoOK
  <2>3. \A v : Str(v).val = v
    BY DEF Str, Leaf
  <2>. HIDE DEF rows
  <2>. QED BY <2>2, <2>3
<1>. HIDE DEF rows
<1>5. terms = {s[i] : i \in 1 .. n}
  BY <1>3, <1>4
<1>6. Cardinality(terms) = n
  <2>1. \A i, k \in 1 .. n : i < k => s[i] # s[k]
    BY <1>2
  <2>2. Cardinality({s[i] : i \in 1 .. n}) = n
    BY <1>2, <2>1, DistinctValues
  <2>. QED BY <1>5, <2>2
<1>7. Score(j, r) = IF Cardinality(terms) # Len(rows) THEN 0
                    ELSE Capped(j.type, 1 + CeilDiv(Cardinality(terms), PerUnit[j.type]))
  BY Zenon DEF Score, rows
<1>. HIDE DEF terms
<1>8. j.type \in ScaledTypes
  BY DEF ScaledTypes
<1>. QED BY <1>2, <1>3, <1>6, <1>7, <1>8, UnitsBySize

LEMMA ChunkScore ==
    ASSUME NEW j, NEW r, j.type = "text_chunk", PayloadOK(j.type, j.payload),
           BuildTextChunk(j.payload) # Malformed, r.output = BuildTextChunk(j.payload)
    PROVE  Score(j, r) \in 1 .. UnitCap[j.type]
<1>. DEFINE chunks == r.output.chunks
<1>1. PICK c, e :
         /\ CutAt(c, e, j.payload.text, OrDefault(j.payload.max_chars, DefaultMaxChars), 0)
         /\ r.output = [chunks |-> [i \in 1 .. Len(c) |->
                                       <<Num(i - 1), Str(c[i]), Num(Len(c[i]))>>],
                        chunk_count |-> Scalar(Num(Len(c))),
                        character_count |-> Scalar(Num(Len(j.payload.text)))]
  BY ChunksBuilt
<1>2. Len(c) \in Nat
  BY <1>1 DEF CutAt, IsList
<1>3. Len(chunks) = Len(c)
  <2>1. chunks = [i \in 1 .. Len(c) |-> chunks[i]]
    BY <1>1
  <2>. HIDE DEF chunks
  <2>. QED BY <1>2, <2>1, ListOf
<1>4. Value(r.output, "chunk_count") = Len(c)
  <2>1. r.output.chunk_count = Scalar(Num(Len(c)))
    BY <1>1
  <2>. QED BY <2>1, ScalarValue DEF Value
<1>5. Score(j, r) = IF Len(chunks) # Value(r.output, "chunk_count") THEN 0
                    ELSE Capped(j.type, 1 + CeilDiv(Value(r.output, "chunk_count"),
                                                    PerUnit[j.type]))
  BY Zenon DEF Score
<1>6. j.type \in ScaledTypes
  BY DEF ScaledTypes
<1>. HIDE DEF chunks
<1>. QED BY <1>2, <1>3, <1>4, <1>5, <1>6, UnitsBySize

LEMMA EmbedScore ==
    ASSUME NEW j, NEW r, j.type = "text_embed", PayloadOK(j.type, j.payload),
           BuildTextEmbed(j.payload) # Malformed, r.output = BuildTextEmbed(j.payload)
    PROVE  Score(j, r) \in 1 .. UnitCap[j.type]
<1>. DEFINE vector == r.output.vector
            tokens == Tokens(j.payload.text)
<1>1. PICK size : VectorOf(r.output, j.payload.text, size)
  BY EmbedBuilt
<1>2. /\ size \in Nat \ {0} /\ j.payload.text \in Seq(Int)
      /\ r.output.dimensions = Scalar(Num(size))
      /\ r.output.token_count = Scalar(Num(Len(tokens)))
      /\ vector = [d \in 1 .. size |-> <<Num(InBucket(j.payload.text, size, d))>>]
  BY <1>1 DEF VectorOf
<1>3. Len(vector) = size
  <2>1. vector = [d \in 1 .. size |-> vector[d]]
    BY <1>2
  <2>2. size \in Nat
    BY <1>2
  <2>. HIDE DEF vector
  <2>. QED BY <2>1, <2>2, ListOf
<1>4. Value(r.output, "dimensions") = size /\ Value(r.output, "token_count") = Len(tokens)
  BY <1>2, ScalarValue DEF Value
<1>5. Len(tokens) \in Nat
  BY <1>2, TokensAreTexts
<1>. DEFINE more == CeilDiv(Value(r.output, "dimensions"), PerUnit.dimensions)
<1>6. more \in Nat
  <2>1. PerUnit["dimensions"] \in Nat \ {0}
    BY LimitsAssumption DEF LimitsAssumption
  <2>. QED BY <1>2, <1>4, <2>1, UnitsOfSize
<1>7. Score(j, r) = IF Len(vector) # Value(r.output, "dimensions") THEN 0
                    ELSE Capped(j.type, 1 + CeilDiv(Value(r.output, "token_count"),
                                                    PerUnit[j.type]) + more)
  BY Zenon DEF Score
<1>8. j.type \in ScaledTypes
  BY DEF ScaledTypes
<1>. HIDE DEF vector, tokens, more
<1>. QED BY <1>3, <1>4, <1>5, <1>6, <1>7, <1>8, UnitsByType

LEMMA AcceptedScore ==
    ASSUME NEW j, NEW r, PayloadOK(j.type, j.payload), Expected(j) # Malformed,
           r.output = Expected(j), j.type \in TypeNames
    PROVE  Score(j, r) \in IF j.type \in Scored THEN 1 .. UnitCap[j.type] ELSE {0}
<1>1. CASE j.type \in {"echo", "text_retrieve"}
  <2>1. Score(j, r) = 1
    BY <1>1, Zenon DEF Score
  <2>2. UnitCap[j.type] \in Nat \ {0}
    BY <1>1, LimitsAssumption DEF LimitsAssumption
  <2>3. j.type \in Scored
    BY <1>1 DEF Scored, TypeNames
  <2>. QED BY <2>1, <2>2, <2>3
<1>2. CASE j.type \in ScaledTypes
  <2>1. j.type \in Scored
    BY <1>2 DEF Scored, ScaledTypes, TypeNames
  <2>2. CASE j.type = "text_stats"
    BY <2>1, <2>2, ExpectedIsBuilt, StatsScore
  <2>3. CASE j.type = "keyword_extract"
    BY <2>1, <2>3, ExpectedIsBuilt, KeywordScore
  <2>4. CASE j.type = "text_chunk"
    BY <2>1, <2>4, ExpectedIsBuilt, ChunkScore
  <2>5. CASE j.type = "text_embed"
    BY <2>1, <2>5, ExpectedIsBuilt, EmbedScore
  <2>. QED BY <1>2, <2>2, <2>3, <2>4, <2>5 DEF ScaledTypes
<1>3. CASE j.type \in {"hash", "basic_compute", "schema_transform"}
  <2>1. Score(j, r) = 0
    BY <1>3, Zenon DEF Score
  <2>. QED BY <1>3, <2>1 DEF Scored
<1>. QED BY <1>1, <1>2, <1>3 DEF TypeNames, ScaledTypes

(* A worker credits what it accepted and nothing else: for every job, at   *)
(* least one unit and at most the cap of its type when the gate accepted   *)
(* its output and the scorer knows the type, and none otherwise.           *)
THEOREM CreditIsCapped == Spec => []CreditFollowsVerdict
<1>1. ASSUME GateInv, phase = "reported", ~altered
      PROVE  result.units \in IF verdict = "ok" /\ job.type \in Scored
                              THEN 1 .. UnitCap[job.type] ELSE {0}
  <2>1. /\ Own # Raised /\ verdict = ValidateJobResult(job, Own, Node)
        /\ result = [Own EXCEPT !.units = IF verdict = "ok" THEN Score(job, Own) ELSE 0]
    BY <1>1 DEF GateInv, ReportInv
  <2>. DEFINE u == IF verdict = "ok" THEN Score(job, Own) ELSE 0
  <2>2. result.units = u
    <3>1. Shaped(Own) /\ result = [Own EXCEPT !.units = u]
      BY <2>1, OwnShape
    <3>. HIDE DEF u
    <3>2. result = [job |-> Own.job, node |-> Own.node, status |-> Own.status,
                    output |-> Own.output, units |-> u]
      BY <3>1, ShapedUnits
    <3>. QED BY <3>2
  <2>3. CASE verdict # "ok"
    BY <2>2, <2>3
  <2>4. CASE verdict = "ok"
    <3>1. Expected(job) # Raised /\ Expected(job) # Malformed
      BY <2>1, <2>4, AcceptedChecks
    <3>2. Own.output = Expected(job) /\ job.type \in TypeNames
      BY <3>1, ExpectedIsOwn, BuiltTypes
    <3>3. PayloadOK(job.type, job.payload)
      BY <1>1, JobsAssumption DEF JobsAssumption, GateInv
    <3>4. Score(job, Own) \in IF job.type \in Scored THEN 1 .. UnitCap[job.type] ELSE {0}
      BY <3>1, <3>2, <3>3, AcceptedScore
    <3>. QED BY <2>2, <2>4, <3>4
  <2>. QED BY <2>3, <2>4
<1>2. GateInv => CreditFollowsVerdict
  BY <1>1 DEF CreditFollowsVerdict
<1>. QED BY <1>2, InitGate, NextGate, PTL DEF Spec

-----------------------------------------------------------------------------
(* What the outputs of the text workloads say of their input.              *)

LEMMA ChunksCover ==
    ASSUME PayloadOK("text_chunk", job.payload), BuildTextChunk(job.payload) # Malformed,
           result.output = BuildTextChunk(job.payload)
    PROVE  ChunksCoverText
<1>. DEFINE text == job.payload.text
            most == OrDefault(job.payload.max_chars, DefaultMaxChars)
            chunks == result.output.chunks
            Adds(f) == f = [i \in 0 .. Len(chunks) |->
                               IF i = 0 THEN 0 ELSE f[i - 1] + Len(ChunkText(i))]
            before == CHOOSE f : Adds(f)
<1>1. PICK c, e :
         /\ CutAt(c, e, text, most, 0)
         /\ result.output = [chunks |-> [i \in 1 .. Len(c) |->
                                            <<Num(i - 1), Str(c[i]), Num(Len(c[i]))>>],
                             chunk_count |-> Scalar(Num(Len(c))),
                             character_count |-> Scalar(Num(Len(text)))]
  BY ChunksBuilt
<1>2. text \in Seq(Int) /\ most \in Nat \ {0}
  BY ChunksBuilt
<1>. DEFINE n == Len(c)
            len == [i \in 1 .. n |-> Len(c[i])]
<1>3. n \in Nat /\ IsList(c)
  BY <1>1 DEF CutAt, IsList
<1>4. chunks = [i \in 1 .. n |-> <<Num(i - 1), Str(c[i]), Num(Len(c[i]))>>]
  BY <1>1
<1>5. Len(chunks) = n /\ DOMAIN chunks = 1 .. n
  <2>1. chunks = [i \in 1 .. n |-> chunks[i]]
    BY <1>4
  <2>. HIDE DEF chunks, n
  <2>. QED BY <1>3, <2>1, ListOf
<1>6. \A i \in 1 .. n : ChunkText(i) = c[i]
  <2>1. \A i \in 1 .. n : chunks[i] = <<Num(i - 1), Str(c[i]), Num(Len(c[i]))>>
    BY <1>4
  <2>2. \A i \in 1 .. n : chunks[i][2] = Str(c[i])
    <3>. HIDE DEF chunks
    <3>. QED BY <2>1, ThreeOK
  <2>3. \A v : Str(v).val = v
    BY DEF Str, Leaf
  <2>4. \A i : ChunkText(i) = chunks[i][2].val
    BY DEF ChunkText
  <2>. HIDE DEF n, chunks
  <2>. QED BY <2>2, <2>3, <2>4
<1>. HIDE DEF most, text
<1>7. /\ e \in [0 .. n -> 0 .. Len(text)] /\ e[0] = 0 /\ e[n] = Len(text)
      /\ \A i \in 1 .. n :
            /\ e[i - 1] < Len(text) /\ e[i] = Split(text, most, e[i - 1])
            /\ c[i] = SubSeq(text, e[i - 1] + 1, e[i])
  BY <1>1 DEF CutAt
<1>. HIDE DEF n, chunks
<1>8. ASSUME NEW i \in 1 .. n
      PROVE  /\ e[i - 1] \in 0 .. Len(text) - 1 /\ e[i] \in e[i - 1] + 1 .. Len(text)
             /\ e[i] <= e[i - 1] + most
             /\ \/ e[i] = Len(text)
                \/ {text[e[i]], text[e[i] + 1]} \cap Space # {}
                \/ \A k \in e[i - 1] + 1 .. e[i] : text[k] \notin Space
             /\ c[i] \in Seq(Int) /\ Len(c[i]) = e[i] - e[i - 1]
             /\ \A k \in 1 .. Len(c[i]) : c[i][k] = text[e[i - 1] + k]
  <2>1. i - 1 \in 0 .. n /\ Len(text) \in Nat
    BY <1>2, <1>3
  <2>2. e[i - 1] \in 0 .. Len(text) - 1
    <3>1. e[i - 1] \in 0 .. Len(text) /\ e[i - 1] < Len(text)
      BY <1>7, <2>1
    <3>. QED BY <2>1, <3>1
  <2>3. /\ e[i] \in e[i - 1] + 1 .. Len(text) /\ e[i] <= e[i - 1] + most
        /\ \/ e[i] = Len(text)
           \/ {text[e[i]], text[e[i] + 1]} \cap Space # {}
           \/ \A k \in e[i - 1] + 1 .. e[i] : text[k] \notin Space
    <3>1. e[i] = Split(text, most, e[i - 1])
      BY <1>7
    <3>. QED BY <1>2, <2>2, <3>1, SplitRule
  <2>4. c[i] = SubSeq(text, e[i - 1] + 1, e[i])
    BY <1>7
  <2>5. /\ c[i] \in Seq(Int) /\ Len(c[i]) = e[i] - e[i - 1]
        /\ \A k \in 1 .. Len(c[i]) : c[i][k] = text[e[i - 1] + k]
    <3>. DEFINE part == SubSeq(text, e[i - 1] + 1, e[i])
    <3>1. e[i] \in e[i - 1] + 1 .. Len(text)
      BY <2>3
    <3>2. /\ part \in Seq(Int) /\ Len(part) = e[i] - e[i - 1]
          /\ \A k \in 1 .. Len(part) : part[k] = text[e[i - 1] + k]
      BY <1>2, <2>2, <3>1, PartOfText
    <3>. HIDE DEF part
    <3>3. c[i] = part
      BY <2>4 DEF part
    <3>. QED BY <3>2, <3>3
  <2>. QED BY <2>2, <2>3, <2>5
<1>9. before = e
  <2>1. e = [i \in 0 .. n |-> IF i = 0 THEN 0 ELSE e[i - 1] + Len(c[i])]
    <3>1. ASSUME NEW i \in 1 .. n PROVE e[i] = e[i - 1] + Len(c[i])
      <4>1. e[i - 1] \in Int /\ e[i] \in Int /\ Len(c[i]) = e[i] - e[i - 1]
        BY <1>2, <1>8
      <4>. QED BY <4>1
    <3>2. \A i \in 0 .. n : i # 0 => i \in 1 .. n
      BY <1>3
    <3>. QED BY <1>7, <3>1, <3>2
  <2>2. \A f : Adds(f) <=> Sums(f, n, len)
    <3>1. ASSUME NEW f PROVE
             [i \in 0 .. n |-> IF i = 0 THEN 0 ELSE f[i - 1] + Len(ChunkText(i))]
           = [i \in 0 .. n |-> IF i = 0 THEN 0 ELSE f[i - 1] + len[i]]
      <4>1. \A i \in 0 .. n : i # 0 => i \in 1 .. n
        BY <1>3
      <4>. QED BY <1>6, <4>1
    <3>. QED BY <1>5, <3>1, Zenon DEF Sums
  <2>3. Sums(e, n, len)
    <3>1. \A i \in 0 .. n : i # 0 => i \in 1 .. n
      BY <1>3
    <3>2. [i \in 0 .. n |-> IF i = 0 THEN 0 ELSE e[i - 1] + Len(c[i])]
        = [i \in 0 .. n |-> IF i = 0 THEN 0 ELSE e[i - 1] + len[i]]
      BY <3>1
    <3>. QED BY <2>1, <3>2, Zenon DEF Sums
  <2>. HIDE DEF len, Adds
  <2>4. Adds(before)
    BY <2>2, <2>3
  <2>. QED BY <1>3, <2>2, <2>3, <2>4, SameTotals
<1>10. ASSUME NEW i \in 1 .. n
       PROVE  /\ ChunkText(i) = SubSeq(text, e[i - 1] + 1, e[i])
              /\ Len(ChunkText(i)) \in 1 .. most
              /\ \/ i = n
                 \/ {text[e[i]], text[e[i] + 1]} \cap Space # {}
                 \/ ToSet(ChunkText(i)) \cap Space = {}
  <2>1. ChunkText(i) = c[i]
    BY <1>6
  <2>2. ChunkText(i) = SubSeq(text, e[i - 1] + 1, e[i])
    BY <1>7, <2>1
  <2>3. Len(c[i]) \in 1 .. most
    <3>1. e[i - 1] \in Int /\ e[i] \in Int /\ Len(c[i]) = e[i] - e[i - 1]
          /\ e[i] <= e[i - 1] + most /\ e[i - 1] + 1 <= e[i]
      BY <1>2, <1>8
    <3>. QED BY <1>2, <3>1
  <2>4. ASSUME i # n PROVE e[i] # Len(text)
    <3>1. i + 1 \in 1 .. n /\ (i + 1) - 1 = i
      BY <1>3, <2>4
    <3>2. e[i] < Len(text) /\ e[i] \in Int
      BY <1>7, <1>8, <3>1
    <3>3. Len(text) \in Nat
      BY <1>2
    <3>. QED BY <3>2, <3>3
  <2>5. ASSUME \A k \in e[i - 1] + 1 .. e[i] : text[k] \notin Space
        PROVE  ToSet(c[i]) \cap Space = {}
    <3>1. e[i - 1] \in Int /\ e[i] \in Int /\ Len(c[i]) = e[i] - e[i - 1]
      BY <1>2, <1>8
    <3>2. \A k \in 1 .. Len(c[i]) : c[i][k] = text[e[i - 1] + k]
      BY <1>8
    <3>3. \A k \in 1 .. Len(c[i]) : e[i - 1] + k \in e[i - 1] + 1 .. e[i]
      BY <3>1
    <3>4. DOMAIN c[i] = 1 .. Len(c[i])
      <4>1. c[i] \in Seq(Int)
        BY <1>8
      <4>. QED BY <4>1
    <3>. QED BY <2>5, <3>2, <3>3, <3>4 DEF ToSet
  <2>6. \/ e[i] = Len(text)
        \/ {text[e[i]], text[e[i] + 1]} \cap Space # {}
        \/ \A k \in e[i - 1] + 1 .. e[i] : text[k] \notin Space
    BY <1>8
  <2>. QED BY <2>1, <2>2, <2>3, <2>4, <2>5, <2>6
<1>11. /\ before[Len(chunks)] = Len(text)
       /\ \A i \in DOMAIN chunks :
             /\ ChunkText(i) = SubSeq(text, before[i - 1] + 1, before[i])
             /\ Len(ChunkText(i)) \in 1 .. most
             /\ \/ i = Len(chunks)
                \/ {text[before[i]], text[before[i] + 1]} \cap Space # {}
                \/ ToSet(ChunkText(i)) \cap Space = {}
  <2>. HIDE DEF before
  <2>. QED BY <1>5, <1>7, <1>9, <1>10
<1>. QED BY <1>11, Zenon DEF ChunksCoverText, chunks, text, most

LEMMA BestIsKept ==
    ASSUME PayloadOK("text_retrieve", job.payload),
           BuildTextRetrieve(job.payload) # Malformed,
           result.output = BuildTextRetrieve(job.payload)
    PROVE  RankingKeepsBest
<1>. DEFINE documents == ToSet(job.payload.documents)
            matches == result.output.matches
            listed(i) == CHOOSE d \in documents : d.id = matches[i][1].val
            shown == {listed(i) : i \in DOMAIN matches}
<1>1. PICK s, n : RankingOf(result.output, job.payload, s, n)
  BY RetrieveBuilt
<1>2. /\ s \in Seq(documents) /\ n \in Nat /\ n <= Len(s)
      /\ \A d \in documents : \E i \in 1 .. Len(s) : s[i] = d
      /\ \A i, k \in 1 .. Len(s) :
            i < k => s[i].id # s[k].id /\ Overlap(s[k]) <= Overlap(s[i])
      /\ \A d, e \in documents : d.id = e.id => d = e
      /\ Len(matches) = n /\ DOMAIN matches = 1 .. n
      /\ \A i \in 1 .. n : matches[i][1].val = s[i].id
  BY <1>1 DEF RankingOf, Matched, Overlap
<1>. HIDE DEF documents, matches
<1>3. Len(s) \in Nat /\ \A i \in 1 .. Len(s) : s[i] \in documents
  BY <1>2
<1>4. \A i \in 1 .. n : i \in 1 .. Len(s)
  <2>1. n \in Nat /\ n <= Len(s)
    BY <1>2
  <2>. QED BY <1>3, <2>1
<1>5. ASSUME NEW i \in 1 .. n PROVE listed(i) = s[i]
  <2>1. s[i] \in documents /\ matches[i][1].val = s[i].id
    BY <1>2, <1>3, <1>4
  <2>2. listed(i) \in documents /\ listed(i).id = s[i].id
    BY <2>1
  <2>. HIDE DEF listed
  <2>. QED BY <1>2, <2>1, <2>2
<1>6. shown = {s[i] : i \in 1 .. n}
  <2>1. DOMAIN matches = 1 .. n
    BY <1>2
  <2>2. shown = {listed(i) : i \in 1 .. n}
    BY <2>1
  <2>. HIDE DEF listed, shown
  <2>. QED BY <1>5, <2>2
<1>. HIDE DEF listed, shown
<1>7. Cardinality(shown) = Len(matches)
  <2>1. ASSUME NEW i \in 1 .. n, NEW k \in 1 .. n, i < k PROVE s[i] # s[k]
    <3>1. i \in 1 .. Len(s) /\ k \in 1 .. Len(s)
      BY <1>4
    <3>2. s[i].id # s[k].id
      BY <1>2, <2>1, <3>1
    <3>. QED BY <3>2
  <2>2. n \in Nat
    BY <1>2
  <2>3. Cardinality({s[i] : i \in 1 .. n}) = n
    BY <2>1, <2>2, DistinctValues
  <2>. QED BY <1>2, <1>6, <2>3
<1>8. \A d \in documents : Overlap(d) \in Nat
  <2>1. IsFiniteSet(ToSet(Tokens(job.payload.query)))
    <3>1. job.payload.query \in Seq(Int)
      <4>1. HasWords(job.payload.query)
        BY Zenon DEF BuildTextRetrieve
      <4>. QED BY <4>1, UsableText DEF PayloadOK
    <3>. QED BY <3>1, TokensAreTexts
  <2>2. \A d : ToSet(Tokens(job.payload.query)) \cap ToSet(Tokens(d.text))
                  \in SUBSET ToSet(Tokens(job.payload.query))
    OBVIOUS
  <2>. QED BY <2>1, <2>2, FS_Subset, FS_CardinalityType DEF Overlap
<1>9. ASSUME NEW i \in DOMAIN matches, NEW k \in DOMAIN matches, i < k
      PROVE  Overlap(listed(i)) >= Overlap(listed(k))
  <2>1. i \in 1 .. n /\ k \in 1 .. n
    BY <1>2
  <2>2. Overlap(s[k]) <= Overlap(s[i])
    BY <1>2, <1>4, <1>9, <2>1
  <2>3. Overlap(s[i]) \in Nat /\ Overlap(s[k]) \in Nat
    BY <1>3, <1>4, <1>8, <2>1
  <2>4. listed(i) = s[i] /\ listed(k) = s[k]
    BY <1>5, <2>1
  <2>. QED BY <2>2, <2>3, <2>4
<1>10. ASSUME NEW d \in documents \ shown, NEW e \in shown PROVE Overlap(d) <= Overlap(e)
  <2>1. PICK k \in 1 .. Len(s) : s[k] = d
    BY <1>2
  <2>2. PICK i \in 1 .. n : s[i] = e
    BY <1>6
  <2>3. k \notin 1 .. n
    BY <1>6, <2>1
  <2>4. i < k /\ i \in 1 .. Len(s)
    <3>1. n \in Nat
      BY <1>2
    <3>. QED BY <1>3, <1>4, <2>3, <3>1
  <2>. QED BY <1>2, <2>1, <2>2, <2>4
<1>. QED BY <1>7, <1>9, <1>10, Zenon DEF RankingKeepsBest, documents, matches, listed, shown

LEMMA KeywordsAreFrequent ==
    ASSUME PayloadOK("keyword_extract", job.payload),
           BuildKeywordExtract(job.payload) # Malformed,
           result.output = BuildKeywordExtract(job.payload)
    PROVE  KeywordsAreMostFrequent
<1>. DEFINE text == job.payload.text
            rows == result.output.keywords
            tokens == Tokens(text)
            terms == ToSet(tokens) \ Stopwords
            listed == {rows[i][1].val : i \in DOMAIN rows}
<1>0. PICK s, n : KeywordsOf(result.output, text, s, n)
  BY KeywordsBuilt
<1>1. /\ s \in Seq(Terms(text)) /\ n \in Nat /\ n <= Len(s)
      /\ \A i, k \in 1 .. Len(s) : i < k => s[i] # s[k] /\ Often(s[k], text) <= Often(s[i], text)
      /\ \A w \in Terms(text) : \E i \in 1 .. Len(s) : s[i] = w
      /\ rows = [i \in 1 .. n |-> <<Str(s[i]), Num(Often(s[i], text))>>]
  BY <1>0 DEF KeywordsOf
<1>2. DOMAIN rows = 1 .. n
      /\ \A i \in 1 .. n : rows[i][1].val = s[i] /\ rows[i][2].val = Often(s[i], text)
  <2>1. DOMAIN rows = 1 .. n /\ \A i \in 1 .. n : rows[i] = <<Str(s[i]), Num(Often(s[i], text))>>
    BY <1>1
  <2>2. \A v : Str(v).val = v /\ Num(v).val = v
    BY DEF Str, Num, Leaf
  <2>. HIDE DEF rows, text
  <2>. QED BY <2>1, <2>2, TwoOK
<1>3. terms = Terms(text) /\ \A w : Count(w, tokens) = Often(w, text)
  <2>1. \A w : Count(w, tokens) = Often(w, text)
    BY DEF Count, Often
  <2>. QED BY <2>1 DEF Terms, Kept, ToSet
<1>4. Len(s) \in Nat /\ \A i \in 1 .. Len(s) : s[i] \in Terms(text)
  BY <1>1
<1>5. listed = {s[i] : i \in 1 .. n} /\ \A i \in 1 .. n : i \in 1 .. Len(s)
  <2>1. \A i \in 1 .. n : i \in 1 .. Len(s)
    <3>1. n \in Nat /\ n <= Len(s)
      BY <1>1
    <3>. QED BY <1>4, <3>1
  <2>. HIDE DEF rows, text
  <2>. QED BY <1>2, <2>1
<1>. HIDE DEF rows, text, tokens, terms, listed
<1>6. listed \subseteq terms
  BY <1>3, <1>4, <1>5
<1>7. \A i \in DOMAIN rows : rows[i][2].val = Count(rows[i][1].val, tokens)
  BY <1>2, <1>3
<1>8. ASSUME NEW t \in terms \ listed, NEW u \in listed PROVE Count(t, tokens) <= Count(u, tokens)
  <2>1. PICK i \in 1 .. n : s[i] = u
    BY <1>5
  <2>2. PICK k \in 1 .. Len(s) : s[k] = t
    BY <1>1, <1>3
  <2>3. k \notin 1 .. n
    BY <1>5, <2>2
  <2>4. i < k /\ i \in 1 .. Len(s)
    <3>1. n \in Nat
      BY <1>1
    <3>. QED BY <1>4, <1>5, <2>3, <3>1
  <2>5. Often(s[k], text) <= Often(s[i], text)
    BY <1>1, <2>4
  <2>. QED BY <1>3, <2>1, <2>2, <2>5
<1>. QED BY <1>6, <1>7, <1>8, Zenon DEF KeywordsAreMostFrequent, rows, text, tokens, terms, listed

LEMMA VectorCounts ==
    ASSUME job \in Jobs, job.type = "text_embed",
           BuildTextEmbed(job.payload) # Malformed,
           result.output = BuildTextEmbed(job.payload)
    PROVE  VectorCountsTokens
<1>. DEFINE text == job.payload.text
            tokens == Tokens(text)
            vector == result.output.vector
            Adds(f) == f = [d \in 0 .. Len(vector) |->
                               IF d = 0 THEN 0 ELSE f[d - 1] + vector[d][1].val]
            counted == CHOOSE f : Adds(f)
<1>1. PayloadOK("text_embed", job.payload)
  BY JobsAssumption DEF JobsAssumption
<1>2. PICK size \in Nat \ {0} : VectorOf(result.output, text, size)
  BY <1>1, EmbedBuilt DEF VectorOf
<1>3. /\ text \in Seq(Int) /\ IsText(text)
      /\ vector = [d \in 1 .. size |-> <<Num(InBucket(text, size, d))>>]
  BY <1>2 DEF VectorOf
<1>. DEFINE bucket(i) == Bucket(text, size, i)
            under(d) == {i \in DOMAIN tokens : bucket(i) < d}
            at(d) == {i \in DOMAIN tokens : bucket(i) = d - 1}
            e == [d \in 0 .. size |-> Cardinality(under(d))]
            len == [d \in 1 .. size |-> InBucket(text, size, d)]
<1>4. Len(vector) = size /\ \A d \in 1 .. size : vector[d][1].val = len[d]
  <2>1. vector = [d \in 1 .. size |-> vector[d]]
    BY <1>3
  <2>2. \A d \in 1 .. size : vector[d] = <<Num(InBucket(text, size, d))>>
    BY <1>3
  <2>3. \A v : Num(v).val = v
    BY DEF Num, Leaf
  <2>4. Len(vector) = size
    <3>. HIDE DEF vector
    <3>. QED BY <2>1, ListOf
  <2>5. \A d \in 1 .. size : vector[d][1].val = InBucket(text, size, d)
    <3>. HIDE DEF vector, text
    <3>. QED BY <2>2, <2>3, OneOK
  <2>. HIDE DEF vector
  <2>. QED BY <2>4, <2>5
<1>5. /\ Len(tokens) \in Nat /\ DOMAIN tokens = 1 .. Len(tokens)
      /\ IsFiniteSet(DOMAIN tokens)
  BY <1>3, TokensAreTexts
<1>6. \A i \in DOMAIN tokens : bucket(i) \in 0 .. size - 1
  <2>1. \A i \in DOMAIN tokens : Digest(tokens[i]) \in Nat
    BY <1>3, DigestAssumption DEF DigestAssumption
  <2>2. \A m \in Nat : m % size \in 0 .. size - 1
    BY <1>3
  <2>. QED BY <2>1, <2>2 DEF Bucket
<1>. HIDE DEF vector, text, tokens, bucket
<1>7. \A d : IsFiniteSet(under(d)) /\ IsFiniteSet(at(d))
  <2>1. \A d : under(d) \in SUBSET DOMAIN tokens /\ at(d) \in SUBSET DOMAIN tokens
    OBVIOUS
  <2>. HIDE DEF under, at
  <2>. QED BY <1>5, <2>1, FS_Subset
<1>8. ASSUME NEW d \in 1 .. size
      PROVE  Cardinality(under(d)) = Cardinality(under(d - 1)) + Cardinality(at(d))
  <2>1. under(d) = under(d - 1) \cup at(d)
    BY <1>6
  <2>2. under(d - 1) \cap at(d) = {}
    BY <1>6
  <2>3. /\ Cardinality(under(d - 1) \cup at(d)) =
            Cardinality(under(d - 1)) + Cardinality(at(d)) - Cardinality(under(d - 1) \cap at(d))
    <3>. HIDE DEF under, at
    <3>. QED BY <1>7, FS_Union
  <2>4. Cardinality({}) = 0
    BY FS_EmptySet
  <2>5. Cardinality(under(d - 1)) \in Nat /\ Cardinality(at(d)) \in Nat
    <3>. HIDE DEF under, at
    <3>. QED BY <1>7, FS_CardinalityType
  <2>6. \A a, b \in Nat : a + b - 0 = a + b
    OBVIOUS
  <2>7. Cardinality(under(d)) = Cardinality(under(d - 1)) + Cardinality(at(d)) - 0
    BY <2>1, <2>2, <2>3, <2>4
  <2>. HIDE DEF under, at
  <2>. QED BY <2>5, <2>6, <2>7
<1>9. e[0] = 0
  <2>1. under(0) = {}
    BY <1>6
  <2>2. e[0] = Cardinality(under(0))
    <3>. HIDE DEF under
    <3>. QED OBVIOUS
  <2>. QED BY <2>1, <2>2, FS_EmptySet
<1>10. e[size] = Len(tokens)
  <2>1. under(size) = DOMAIN tokens
    BY <1>6
  <2>2. e[size] = Cardinality(under(size))
    <3>. HIDE DEF under
    <3>. QED OBVIOUS
  <2>3. 1 \in Int /\ Len(tokens) \in Int
    BY <1>5
  <2>4. Cardinality(1 .. Len(tokens)) = IF 1 > Len(tokens) THEN 0 ELSE Len(tokens) - 1 + 1
    BY <2>3, FS_Interval
  <2>5. ASSUME NEW m \in Nat PROVE (IF 1 > m THEN 0 ELSE m - 1 + 1) = m
    OBVIOUS
  <2>6. Cardinality(1 .. Len(tokens)) = Len(tokens)
    BY <1>5, <2>4, <2>5
  <2>. HIDE DEF e, under
  <2>. QED BY <1>5, <2>1, <2>2, <2>6
<1>11. counted = e
  <2>1. len = [d \in 1 .. size |-> Cardinality(at(d))]
    BY DEF InBucket, tokens, bucket
  <2>2. Sums(e, size, len)
    <3>1. \A d \in 0 .. size : d # 0 => d \in 1 .. size /\ d - 1 \in 0 .. size
      OBVIOUS
    <3>2. \A d \in 1 .. size : e[d] = e[d - 1] + len[d]
      <4>1. ASSUME NEW d \in 1 .. size PROVE e[d] = e[d - 1] + len[d]
        <5>1. d \in 0 .. size /\ d - 1 \in 0 .. size
          OBVIOUS
        <5>2. e[d] = Cardinality(under(d)) /\ e[d - 1] = Cardinality(under(d - 1))
          <6>. HIDE DEF under
          <6>. QED BY <5>1
        <5>3. len[d] = Cardinality(at(d))
          <6>. HIDE DEF at, len
          <6>. QED BY <2>1
        <5>. HIDE DEF e, len, under, at
        <5>. QED BY <1>8, <5>2, <5>3
      <4>. QED BY <4>1
    <3>3. e = [d \in 0 .. size |-> e[d]]
      OBVIOUS
    <3>. HIDE DEF e, len
    <3>. QED BY <1>9, <3>1, <3>2, <3>3 DEF Sums
  <2>3. \A f : Adds(f) <=> Sums(f, size, len)
    <3>1. ASSUME NEW f PROVE
             [d \in 0 .. size |-> IF d = 0 THEN 0 ELSE f[d - 1] + vector[d][1].val]
           = [d \in 0 .. size |-> IF d = 0 THEN 0 ELSE f[d - 1] + len[d]]
      <4>1. \A d \in 0 .. size : d # 0 => d \in 1 .. size
        OBVIOUS
      <4>. HIDE DEF len
      <4>. QED BY <1>4, <4>1
    <3>2. ASSUME NEW f PROVE Adds(f) <=> Sums(f, size, len)
      <4>1. Adds(f) <=>
              f = [d \in 0 .. size |-> IF d = 0 THEN 0 ELSE f[d - 1] + vector[d][1].val]
        BY <1>4
      <4>. HIDE DEF Adds, len
      <4>. QED BY <3>1, <4>1, Zenon DEF Sums
    <3>. HIDE DEF Adds, len
    <3>. QED BY <3>2
  <2>. HIDE DEF len, Adds, e
  <2>4. Adds(counted)
    BY <2>2, <2>3
  <2>. QED BY <2>2, <2>3, <2>4, SameTotals
<1>12. counted[Len(vector)] = Len(tokens)
  <2>. HIDE DEF counted, e
  <2>. QED BY <1>4, <1>10, <1>11
<1>. QED BY <1>12, Zenon DEF VectorCountsTokens, vector, tokens, text

(* An unedited completed result of a text workload has the output its      *)
(* builder computes from the payload.                                      *)
LEMMA CompletedIsBuilt ==
    ASSUME GateInv, NEW type, Completed(type), type # "echo"
    PROVE  /\ job \in Jobs /\ job.type = type /\ PayloadOK(type, job.payload)
           /\ result.output = Expected(job) /\ Expected(job) # Malformed
<1>1. job \in Jobs /\ job.type = type /\ PayloadOK(type, job.payload)
  BY JobsAssumption DEF GateInv, Completed, JobsAssumption
<1>2. ~NeedsMessage
  BY <1>1 DEF NeedsMessage
<1>3. Own # Raised /\ result.status = Own.status /\ result.output = Own.output
  <2>1. CASE phase = "received"
    BY <2>1 DEF GateInv, AcceptInv, Completed
  <2>2. CASE phase = "reported"
    <3>1. Own # Raised /\ \E u : result = [Own EXCEPT !.units = u]
      BY <2>2 DEF GateInv, ReportInv, Completed
    <3>. QED BY <3>1, OwnShape, ShapedUnits
  <2>. QED BY <2>1, <2>2 DEF Completed
<1>4. Own.status = "completed"
  BY <1>3 DEF Completed
<1>. QED BY <1>1, <1>2, <1>3, <1>4, OwnIsExpected

(* For every text, limit and list of documents: chunks put together are    *)
(* the text, a ranking and a keyword list leave out nothing better than    *)
(* they list, and a feature vector counts every token.                     *)
THEOREM OutputsAreRight == Spec => []OutputsMeetReference
<1>1. ASSUME GateInv, Completed("text_chunk") PROVE ChunksCoverText
  <2>1. /\ job.type = "text_chunk" /\ PayloadOK("text_chunk", job.payload)
        /\ result.output = Expected(job) /\ Expected(job) # Malformed
    BY <1>1, CompletedIsBuilt
  <2>. QED BY <2>1, ExpectedIsBuilt, ChunksCover
<1>2. ASSUME GateInv, Completed("text_retrieve") PROVE RankingKeepsBest
  <2>1. /\ job.type = "text_retrieve" /\ PayloadOK("text_retrieve", job.payload)
        /\ result.output = Expected(job) /\ Expected(job) # Malformed
    BY <1>2, CompletedIsBuilt
  <2>. QED BY <2>1, ExpectedIsBuilt, BestIsKept
<1>3. ASSUME GateInv, Completed("keyword_extract") PROVE KeywordsAreMostFrequent
  <2>1. /\ job.type = "keyword_extract" /\ PayloadOK("keyword_extract", job.payload)
        /\ result.output = Expected(job) /\ Expected(job) # Malformed
    BY <1>3, CompletedIsBuilt
  <2>. QED BY <2>1, ExpectedIsBuilt, KeywordsAreFrequent
<1>4. ASSUME GateInv, Completed("text_embed") PROVE VectorCountsTokens
  <2>1. /\ job \in Jobs /\ job.type = "text_embed"
        /\ result.output = Expected(job) /\ Expected(job) # Malformed
    BY <1>4, CompletedIsBuilt
  <2>. QED BY <2>1, ExpectedIsBuilt, VectorCounts
<1>5. GateInv => OutputsMeetReference
  BY <1>1, <1>2, <1>3, <1>4 DEF OutputsMeetReference
<1>. QED BY <1>5, InitGate, NextGate, PTL DEF Spec
=============================================================================
