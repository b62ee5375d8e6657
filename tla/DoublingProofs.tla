--------------------------- MODULE DoublingProofs ---------------------------
(***************************************************************************)
(* Induction over the naturals in the form of facts about sets of numbers, *)
(* which first-order provers can use, and what follows about Doubled.      *)
(***************************************************************************)
EXTENDS Doubling, TLAPS, WellFoundedInduction

\* Every set of naturals that is not empty has a least element,
LEMMA LeastNat ==
  ASSUME NEW S \in SUBSET Nat, S # {}
  PROVE  \E x \in S : \A y \in S : x <= y
<1>1. \E x \in S : \A y \in S : <<y, x>> \notin OpToRel(<, Nat)
  BY NatLessThanWellFounded, WFMin, Zenon
<1>2. PICK x \in S : \A y \in S : <<y, x>> \notin OpToRel(<, Nat)
  BY <1>1, Zenon
<1>3. ASSUME NEW y \in S PROVE ~(y < x)
  <2>1. <<y, x>> \notin {p \in Nat \X Nat : p[1] < p[2]}
    BY <1>2, Zenon DEF OpToRel
  <2> QED
    BY <2>1
<1> QED
  BY <1>3

\* a greatest one if it is bounded,
LEMMA GreatestNat ==
  ASSUME NEW m \in Nat, NEW S \in SUBSET (0 .. m), S # {}
  PROVE  \E x \in S : \A y \in S : y <= x
<1> DEFINE T == {m - y : y \in S}
<1>1. T \in SUBSET Nat /\ T # {}
  <2>1. \A y \in S : y \in Int /\ m - y \in Nat
    OBVIOUS
  <2>2. PICK y \in S : TRUE
    OBVIOUS
  <2>3. m - y \in T
    OBVIOUS
  <2> QED
    BY <2>1, <2>3
<1>2. PICK t \in T : \A u \in T : t <= u
  <2> HIDE DEF T
  <2> QED
    BY <1>1, LeastNat
<1>3. PICK x \in S : t = m - x
  OBVIOUS
<1>4. ASSUME NEW y \in S PROVE y <= x
  <2>1. m - x <= m - y
    BY <1>2, <1>3
  <2> QED
    BY <2>1
<1> QED
  BY <1>4

\* and is all of them if it has zero and the successors of its elements.
LEMMA Induction ==
  ASSUME NEW T \in SUBSET Nat, 0 \in T, \A n \in T : n + 1 \in T
  PROVE  T = Nat
<1> SUFFICES ASSUME T # Nat PROVE FALSE
  OBVIOUS
<1>1. PICK x \in Nat \ T : \A y \in Nat \ T : x <= y
  BY LeastNat
<1>2. x # 0 /\ x - 1 \in T /\ (x - 1) + 1 = x
  BY <1>1
<1> QED
  BY <1>1, <1>2

\* The recursion that defines Doubled has a solution: one for all k is put
\* together from those up to k, which agree.
LEMMA DoubledExists ==
  ASSUME NEW first \in Nat
  PROVE  \E f : f = [k \in Nat |-> IF k = 0 THEN first ELSE 2 * f[k - 1]]
<1> DEFINE Approx(n) == {g \in [0 .. n -> Nat] : 
               \A k \in 0 .. n : g[k] = IF k = 0 THEN first ELSE 2 * g[k - 1]}
           Good == {n \in Nat : Approx(n) # {}}
<1>1. Good = Nat
  <2>1. 0 \in Good
    <3>1. [k \in 0 .. 0 |-> first] \in Approx(0)
      OBVIOUS
    <3> QED
      BY <3>1
  <2>2. ASSUME NEW n \in Good PROVE n + 1 \in Good
    <3>1. PICK g \in Approx(n) : TRUE
      OBVIOUS
    <3> DEFINE h == [k \in 0 .. n + 1 |-> IF k = n + 1 THEN 2 * g[n] ELSE g[k]]
    <3>2. h \in [0 .. n + 1 -> Nat]
      BY <3>1
    <3>3. ASSUME NEW k \in 0 .. n + 1 PROVE h[k] = IF k = 0 THEN first ELSE 2 * h[k - 1]
      <4>1. CASE k = n + 1
        <5>1. h[k] = 2 * g[n] /\ h[k - 1] = g[n] /\ k # 0
          BY <4>1
        <5> QED
          BY <5>1
      <4>2. CASE k # n + 1
        <5>1. k \in 0 .. n /\ h[k] = g[k] /\ (k # 0 => h[k - 1] = g[k - 1])
          BY <4>2
        <5>2. g[k] = IF k = 0 THEN first ELSE 2 * g[k - 1]
          BY <3>1, <5>1
        <5> QED
          BY <5>1, <5>2
      <4> QED
        BY <4>1, <4>2
    <3>4. h \in Approx(n + 1)
      BY <3>2, <3>3
    <3> QED
      <4> HIDE DEF h, Approx
      <4> QED
        BY <3>4
  <2> HIDE DEF Good
  <2> QED
    BY <2>1, <2>2, Induction DEF Good
<1>2. ASSUME NEW m \in Nat, NEW g \in Approx(m), NEW n \in Nat, NEW h \in Approx(n)
      PROVE  \A k \in Nat : k <= m /\ k <= n => g[k] = h[k]
  <2> DEFINE Same == {k \in Nat : k <= m /\ k <= n => g[k] = h[k]}
  <2>1. 0 \in Same
    OBVIOUS
  <2>2. ASSUME NEW k \in Same PROVE k + 1 \in Same
    BY <2>2
  <2>3. Same = Nat
    <3> HIDE DEF Same
    <3> QED
      BY <2>1, <2>2, Induction DEF Same
  <2> QED
    BY <2>3
<1> DEFINE G(n) == CHOOSE g \in Approx(n) : TRUE
           f == [k \in Nat |-> G(k)[k]]
<1>3. ASSUME NEW k \in Nat PROVE G(k) \in Approx(k)
  BY <1>1
<1>4. ASSUME NEW k \in Nat PROVE f[k] = IF k = 0 THEN first ELSE 2 * f[k - 1]
  <2> HIDE DEF Approx, G
  <2>1. CASE k = 0
    BY <2>1, <1>3 DEF Approx
  <2>2. CASE k # 0
    <3>1. G(k)[k - 1] = G(k - 1)[k - 1]
      BY <2>2, <1>2, <1>3
    <3>2. G(k)[k] = 2 * G(k)[k - 1]
      BY <2>2, <1>3 DEF Approx
    <3> QED
      BY <2>2, <3>1, <3>2
  <2> QED
    BY <2>1, <2>2
<1>5. f = [k \in Nat |-> IF k = 0 THEN first ELSE 2 * f[k - 1]]
  <2> HIDE DEF f
  <2>1. f = [k \in Nat |-> f[k]]
    BY DEF f
  <2> QED
    BY <1>4, <2>1
<1> QED
  BY <1>5

\* So Doubled satisfies its own definition.
LEMMA DoubledDef ==
  ASSUME NEW first \in Nat
  PROVE  \A k \in Nat : Doubled(first)[k] = IF k = 0 THEN first ELSE 2 * Doubled(first)[k - 1]
<1> DEFINE d == Doubled(first)
<1>1. d = [k \in Nat |-> IF k = 0 THEN first ELSE 2 * d[k - 1]]
  BY DoubledExists DEF Doubled
<1> HIDE DEF d
<1>2. \A k \in Nat : d[k] = IF k = 0 THEN first ELSE 2 * d[k - 1]
  BY <1>1
<1> QED
  BY <1>2 DEF d

\* Doubled starts at first and doubles, and so grows with every step.
LEMMA DoubledFacts ==
  ASSUME NEW first \in Nat \ {0}
  PROVE  /\ Doubled(first)[0] = first
         /\ \A k \in Nat : /\ Doubled(first)[k] \in Nat \ {0}
                           /\ Doubled(first)[k] >= first + k
                           /\ Doubled(first)[k + 1] = 2 * Doubled(first)[k]
<1> DEFINE d == Doubled(first)
           T == {k \in Nat : d[k] \in Nat \ {0} /\ d[k] >= first + k}
<1>1. \A k \in Nat : d[k] = IF k = 0 THEN first ELSE 2 * d[k - 1]
  BY DoubledDef
<1> HIDE DEF d
<1>2. d[0] = first /\ \A k \in Nat : d[k + 1] = 2 * d[k]
  <2>1. ASSUME NEW k \in Nat PROVE d[k + 1] = 2 * d[k]
    <3>1. k + 1 \in Nat /\ k + 1 # 0 /\ (k + 1) - 1 = k
      OBVIOUS
    <3> QED
      BY <1>1, <3>1
  <2> QED
    BY <1>1, <2>1
<1>3. 0 \in T
  BY <1>2
<1>4. ASSUME NEW k \in T PROVE k + 1 \in T
  BY <1>2
<1>5. T = Nat
  <2> HIDE DEF T
  <2> QED
    BY <1>3, <1>4, Induction DEF T
<1> QED
  BY <1>2, <1>5 DEF d

-----------------------------------------------------------------------------
\* Division with remainder.
LEMMA DivMod ==
  ASSUME NEW h \in Nat, NEW m \in Nat \ {0}
  PROVE  h \div m \in Nat /\ h % m \in 0 .. m - 1 /\ h = m * (h \div m) + (h % m)
OBVIOUS

\* The remainder is the only number that can be one.
LEMMA ModUnique ==
  ASSUME NEW h \in Nat, NEW m \in Nat \ {0}, NEW r \in 0 .. m - 1,
         \E q \in Nat : h = m * q + r
  PROVE  h % m = r
OBVIOUS

\* The remainders by 2 * m that fall together by m.
LEMMA ModDouble ==
  ASSUME NEW h \in Nat, NEW m \in Nat \ {0}, NEW r \in 0 .. m - 1,
         h % (2 * m) = r \/ h % (2 * m) = r + m
  PROVE  h % m = r
<1>1. ASSUME NEW d \in Nat \ {0} PROVE \E q \in Nat : h = d * q + (h % d)
  BY DivMod
<1>2. PICK q \in Nat : h = (2 * m) * q + (h % (2 * m))
  <2>1. 2 * m \in Nat \ {0}
    OBVIOUS
  <2> QED
    BY <2>1, <1>1
<1>3. CASE h % (2 * m) = r
  <2>1. h = m * (2 * q) + r /\ 2 * q \in Nat
    BY <1>2, <1>3
  <2> QED
    BY ONLY <2>1, r \in 0 .. m - 1, h \in Nat, m \in Nat \ {0}, ModUnique
<1>4. CASE h % (2 * m) = r + m
  <2>1. h = m * (2 * q + 1) + r /\ 2 * q + 1 \in Nat
    BY <1>2, <1>4
  <2> QED
    BY ONLY <2>1, r \in 0 .. m - 1, h \in Nat, m \in Nat \ {0}, ModUnique
<1> QED
  BY <1>3, <1>4

=============================================================================
