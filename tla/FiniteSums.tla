------------------------------ MODULE FiniteSums ------------------------------
(***************************************************************************)
(* What MapThenSumSet, which the models count and weigh with, computes for *)
(* every finite set; that a finite set has a first element in every total  *)
(* order; and how \div grows.  Induction is by the size of a subset: a set *)
(* of sets that contains a set whenever it contains that set less any one  *)
(* element contains every finite set (SubsetInduction), and a property     *)
(* becomes the set of the subsets that have it.                            *)
(***************************************************************************)
EXTENDS Integers, FiniteSets, FiniteSetsExt, FiniteSetTheorems, WellFoundedInduction, TLAPS

\* The sum of F[i] for i in S.
SumOver(F, S) == MapThenSumSet(LAMBDA i : F[i], S)

\* The fold behind it: g gives the sums over all subsets of S.
AnyOf(s) == CHOOSE x \in s : TRUE
SumStep(F, g, s) == IF s = {} THEN 0 ELSE F[AnyOf(s)] + g[s \ {AnyOf(s)}]
Sums(F, S) == CHOOSE g : g = [s \in SUBSET S |-> SumStep(F, g, s)]

LEMMA SumOverIs == ASSUME NEW F, NEW S PROVE SumOver(F, S) = Sums(F, S)[S]
  BY DEF SumOver, MapThenSumSet, MapThenFoldSet, Sums, SumStep, AnyOf

-----------------------------------------------------------------------------
(* Induction.                                                              *)

\* A set of naturals that is not empty has a least element.
LEMMA LeastOf ==
  ASSUME NEW T \in SUBSET Nat, T # {}
  PROVE  \E n \in T : \A m \in T : n <= m
<1>1. PICK n \in T : \A m \in T : ~ (<<m, n>> \in OpToRel(<, Nat))
  BY NatLessThanWellFounded, WFMin
<1>2. \A m \in T : ~ (m < n)
  BY <1>1 DEF OpToRel
<1>3. QED
  BY <1>2

LEMMA OneLess ==
  ASSUME NEW S, IsFiniteSet(S), NEW s \in SUBSET S, NEW x \in s
  PROVE  /\ s \ {x} \in SUBSET S
         /\ Cardinality(s) \in Nat /\ Cardinality(s) > 0
         /\ Cardinality(s \ {x}) = Cardinality(s) - 1
<1>1. IsFiniteSet(s)
  BY FS_Subset
<1>2. Cardinality(s) \in Nat /\ Cardinality(s) # 0
  BY <1>1, FS_CardinalityType, FS_EmptySet
<1>3. Cardinality(s \ {x}) = Cardinality(s) - 1
  BY <1>1, FS_RemoveElement
<1>4. QED
  BY <1>2, <1>3

LEMMA SubsetInduction ==
  ASSUME NEW S, IsFiniteSet(S), NEW G,
         \A s \in SUBSET S : (\A x \in s : s \ {x} \in G) => s \in G
  PROVE  \A s \in SUBSET S : s \in G
<1> DEFINE T == {n \in Nat : \E s \in SUBSET S : Cardinality(s) = n /\ s \notin G}
<1>1. ASSUME T # {} PROVE FALSE
  <2>1. PICK n \in T : \A m \in T : n <= m
    BY <1>1, LeastOf
  <2>2. PICK s \in SUBSET S : Cardinality(s) = n /\ s \notin G
    BY <2>1
  <2>3. PICK x \in s : s \ {x} \notin G
    BY <2>2
  <2>4. PICK u : u = s \ {x}
    OBVIOUS
  <2>5. u \in SUBSET S /\ Cardinality(u) = n - 1 /\ n \in Nat /\ n > 0
    BY <2>2, <2>4, OneLess
  <2>6. n - 1 \in Nat /\ n - 1 \notin T
    BY <2>1, <2>5
  <2>7. QED
    BY <2>3, <2>4, <2>5, <2>6
<1>2. ASSUME NEW s \in SUBSET S PROVE s \in G
  <2>1. Cardinality(s) \in Nat
    BY FS_Subset, FS_CardinalityType
  <2>2. QED
    BY <1>1, <2>1
<1>3. QED
  BY <1>2

-----------------------------------------------------------------------------
(* The fold is well defined.                                               *)

\* There is a function that gives the sums over the subsets of a given size.
UpTo(S, n) == {s \in SUBSET S : Cardinality(s) <= n}
HasSums(F, S, n) == \E g : g = [s \in UpTo(S, n) |-> SumStep(F, g, s)]

LEMMA StepAgrees ==
  ASSUME NEW F, NEW S, IsFiniteSet(S), NEW n \in Nat, NEW g, NEW h,
         \A u \in UpTo(S, n) : u \in UpTo(S, n + 1) => h[u] = g[u]
  PROVE  \A s \in UpTo(S, n + 1) : SumStep(F, h, s) = SumStep(F, g, s)
<1> SUFFICES ASSUME NEW s \in UpTo(S, n + 1), s # {}
             PROVE  SumStep(F, h, s) = SumStep(F, g, s)
  BY DEF SumStep
<1>1. PICK u : u = s \ {AnyOf(s)}
  OBVIOUS
<1>2. AnyOf(s) \in s /\ s \in SUBSET S /\ Cardinality(s) <= n + 1
  BY DEF AnyOf, UpTo
<1>3. u \in UpTo(S, n) /\ u \in UpTo(S, n + 1)
  BY <1>1, <1>2, OneLess DEF UpTo
<1>4. QED
  BY <1>1, <1>3 DEF SumStep

LEMMA SumsExist ==
  ASSUME NEW F, NEW S, IsFiniteSet(S)
  PROVE  \E g : g = [s \in SUBSET S |-> SumStep(F, g, s)]
<1> DEFINE T == {n \in Nat : ~HasSums(F, S, n)}
<1>1. ASSUME T # {} PROVE FALSE
  <2>1. PICK n \in T : \A m \in T : n <= m
    BY <1>1, LeastOf
  <2>2. n \in Nat /\ ~HasSums(F, S, n)
    OBVIOUS
  <2>3. n # 0
    <3>1. ASSUME NEW s \in UpTo(S, 0) PROVE s = {}
      <4>1. s \in SUBSET S /\ Cardinality(s) <= 0
        BY DEF UpTo
      <4>2. \A x \in s : Cardinality(s) \in Nat /\ Cardinality(s) > 0
        BY <4>1, OneLess
      <4>3. QED
        BY <4>1, <4>2
    <3>2. PICK g : g = [s \in UpTo(S, 0) |-> 0]
      OBVIOUS
    <3>3. \A s \in UpTo(S, 0) : SumStep(F, g, s) = 0
      BY <3>1 DEF SumStep
    <3>4. g = [s \in UpTo(S, 0) |-> SumStep(F, g, s)]
      BY <3>2, <3>3
    <3>5. QED
      BY <2>2, <3>4 DEF HasSums
  <2>4. PICK m \in Nat : n = m + 1
    BY <2>2, <2>3
  <2>5. HasSums(F, S, m)
    BY <2>1, <2>4
  <2>6. PICK g : g = [s \in UpTo(S, m) |-> SumStep(F, g, s)]
    BY <2>5 DEF HasSums
  <2>7. PICK h : h = [s \in UpTo(S, n) |-> SumStep(F, g, s)]
    OBVIOUS
  <2>8. \A u \in UpTo(S, m) : u \in UpTo(S, n) => h[u] = g[u]
    BY <2>6, <2>7
  <2>9. \A s \in UpTo(S, n) : SumStep(F, h, s) = SumStep(F, g, s)
    BY <2>4, <2>8, StepAgrees
  <2>10. h = [s \in UpTo(S, n) |-> SumStep(F, h, s)]
    BY <2>7, <2>9
  <2>11. QED
    BY <2>2, <2>10 DEF HasSums
<1>2. Cardinality(S) \in Nat
  BY FS_CardinalityType
<1>3. HasSums(F, S, Cardinality(S))
  BY <1>1, <1>2
<1>4. UpTo(S, Cardinality(S)) = SUBSET S
  BY FS_Subset DEF UpTo
<1>5. QED
  BY <1>3, <1>4 DEF HasSums

LEMMA SumsAre ==
  ASSUME NEW F, NEW S, IsFiniteSet(S)
  PROVE  \A s \in SUBSET S : Sums(F, S)[s] = SumStep(F, Sums(F, S), s)
<1>1. PICK g : g = Sums(F, S)
  OBVIOUS
<1>2. g = [s \in SUBSET S |-> SumStep(F, g, s)]
  BY <1>1, SumsExist DEF Sums
<1>3. \A s \in SUBSET S : g[s] = SumStep(F, g, s)
  BY <1>2
<1>4. QED
  BY <1>1, <1>3

SumsBy(F, S, g) == \A u \in SUBSET S : g[u] = SumStep(F, g, u)

LEMMA SumsUnique ==
  ASSUME NEW F, NEW S, IsFiniteSet(S), NEW P, P \subseteq S, NEW g, NEW h,
         SumsBy(F, S, g), SumsBy(F, P, h)
  PROVE  \A u \in SUBSET P : g[u] = h[u]
<1> DEFINE G == {u \in SUBSET P : g[u] = h[u]}
<1>1. IsFiniteSet(P)
  BY FS_Subset
<1>2. ASSUME NEW u \in SUBSET P, \A x \in u : u \ {x} \in G PROVE u \in G
  <2>1. CASE u = {}
    BY <2>1 DEF SumStep, SumsBy
  <2>2. CASE u # {}
    <3>1. PICK p, v : p = AnyOf(u) /\ v = u \ {AnyOf(u)}
      OBVIOUS
    <3>2. p \in u
      BY <2>2, <3>1 DEF AnyOf
    <3>3. v \in G
      BY <1>2, <3>1, <3>2
    <3>4. g[u] = F[p] + g[v] /\ h[u] = F[p] + h[v]
      BY <2>2, <3>1 DEF SumStep, SumsBy
    <3>5. QED
      BY <3>3, <3>4
  <2>3. QED
    BY <2>1, <2>2
<1> HIDE DEF G
<1>3. \A u \in SUBSET P : u \in G
  BY <1>1, <1>2, SubsetInduction
<1>4. QED
  BY <1>3 DEF G

\* The sums over a part do not depend on the whole.
LEMMA SumsPart ==
  ASSUME NEW F, NEW S, IsFiniteSet(S), NEW P \in SUBSET S
  PROVE  Sums(F, S)[P] = SumOver(F, P)
<1>1. IsFiniteSet(P)
  BY FS_Subset
<1>2. PICK g, h : g = Sums(F, S) /\ h = Sums(F, P)
  OBVIOUS
<1>3. SumsBy(F, S, g) /\ SumsBy(F, P, h)
  BY <1>1, <1>2, SumsAre DEF SumsBy
<1>4. \A u \in SUBSET P : g[u] = h[u]
  BY <1>3, SumsUnique
<1>5. QED
  BY <1>2, <1>4, SumOverIs

-----------------------------------------------------------------------------
(* Sums.                                                                   *)

LEMMA SumEmpty == ASSUME NEW F PROVE SumOver(F, {}) = 0
  BY SumOverIs, SumsAre, FS_EmptySet DEF SumStep

\* The sum over a set by the element that the fold takes first.
LEMMA SumFirst ==
  ASSUME NEW F, NEW S, IsFiniteSet(S), NEW s \in SUBSET S, s # {}
  PROVE  \E p \in s : SumOver(F, s) = F[p] + SumOver(F, s \ {p})
<1>1. PICK p, u : p = AnyOf(s) /\ u = s \ {AnyOf(s)}
  OBVIOUS
<1>2. p \in s /\ u \in SUBSET S
  BY <1>1 DEF AnyOf
<1>3. Sums(F, S)[s] = F[p] + Sums(F, S)[u]
  BY <1>1, SumsAre DEF SumStep
<1>4. Sums(F, S)[s] = SumOver(F, s) /\ Sums(F, S)[u] = SumOver(F, u)
  BY <1>2, SumsPart
<1>5. QED
  BY <1>1, <1>2, <1>3, <1>4

LEMMA SumInt ==
  ASSUME NEW F, NEW S, IsFiniteSet(S), \A i \in S : F[i] \in Int
  PROVE  SumOver(F, S) \in Int
<1> DEFINE G == {s \in SUBSET S : SumOver(F, s) \in Int}
<1>1. ASSUME NEW s \in SUBSET S, \A x \in s : s \ {x} \in G PROVE s \in G
  <2>1. CASE s = {}
    BY <2>1, SumEmpty
  <2>2. CASE s # {}
    <3>1. PICK p \in s : SumOver(F, s) = F[p] + SumOver(F, s \ {p})
      BY <2>2, SumFirst
    <3>2. SumOver(F, s \ {p}) \in Int
      BY <1>1
    <3>3. QED
      BY <3>1, <3>2
  <2>3. QED
    BY <2>1, <2>2
<1>2. \A s \in SUBSET S : s \in G
  <2> HIDE DEF G
  <2>1. QED
    BY <1>1, SubsetInduction
<1>3. QED
  BY <1>2

\* The order in which the elements are taken does not matter.
LEMMA SumTake ==
  ASSUME NEW F, NEW S, IsFiniteSet(S), \A i \in S : F[i] \in Int, NEW x \in S
  PROVE  SumOver(F, S) = F[x] + SumOver(F, S \ {x})
<1> DEFINE G == {s \in SUBSET S : \A y \in s : SumOver(F, s) = F[y] + SumOver(F, s \ {y})}
<1>1. ASSUME NEW s \in SUBSET S, \A y \in s : s \ {y} \in G PROVE s \in G
  <2> SUFFICES ASSUME NEW y \in s PROVE SumOver(F, s) = F[y] + SumOver(F, s \ {y})
    OBVIOUS
  <2>1. PICK p \in s : SumOver(F, s) = F[p] + SumOver(F, s \ {p})
    BY SumFirst
  <2>2. CASE p = y
    BY <2>1, <2>2
  <2>3. CASE p # y
    <3>1. PICK u, v, w : u = s \ {p} /\ v = s \ {y} /\ w = (s \ {p}) \ {y}
      OBVIOUS
    <3>2. w = u \ {y} /\ w = v \ {p} /\ y \in u /\ p \in v /\ w \in SUBSET S
      BY <2>3, <3>1
    <3>3. u \in G /\ v \in G
      BY <1>1, <3>1
    <3>4. SumOver(F, u) = F[y] + SumOver(F, w) /\ SumOver(F, v) = F[p] + SumOver(F, w)
      BY <3>2, <3>3
    <3>5. SumOver(F, w) \in Int /\ F[p] \in Int /\ F[y] \in Int
      BY <3>2, FS_Subset, SumInt
    <3>6. QED
      BY <2>1, <3>1, <3>4, <3>5
  <2>4. QED
    BY <2>2, <2>3
<1>2. \A s \in SUBSET S : s \in G
  <2> HIDE DEF G
  <2>1. QED
    BY <1>1, SubsetInduction
<1>3. QED
  BY <1>2

\* A sum over two sets that have nothing in common.
LEMMA SumUnion ==
  ASSUME NEW F, NEW P, NEW Q, IsFiniteSet(P), IsFiniteSet(Q), P \cap Q = {},
         \A i \in P \cup Q : F[i] \in Int
  PROVE  SumOver(F, P \cup Q) = SumOver(F, P) + SumOver(F, Q)
<1> DEFINE G == {s \in SUBSET Q : SumOver(F, P \cup s) = SumOver(F, P) + SumOver(F, s)}
<1>0. SumOver(F, P) \in Int
  BY SumInt
<1>1. ASSUME NEW s \in SUBSET Q, \A y \in s : s \ {y} \in G PROVE s \in G
  <2>1. CASE s = {}
    <3>1. P \cup s = P
      BY <2>1
    <3>2. SumOver(F, P \cup s) = SumOver(F, P)
      BY <3>1, Zenon
    <3>3. SumOver(F, s) = 0
      BY <2>1, SumEmpty
    <3>4. QED
      BY <1>0, <3>2, <3>3
  <2>2. CASE s # {}
    <3>1. PICK y \in s : TRUE
      BY <2>2
    <3>2. PICK u, v, w : u = s \ {y} /\ v = P \cup s /\ w = P \cup u
      OBVIOUS
    <3>3. w = v \ {y} /\ y \in v /\ u \in G /\ u \in SUBSET Q /\ v \in SUBSET (P \cup Q)
      BY <1>1, <3>2
    <3>4. IsFiniteSet(s) /\ IsFiniteSet(v) /\ IsFiniteSet(u)
      BY <3>2, <3>3, FS_Subset, FS_Union
    <3>5. SumOver(F, s) = F[y] + SumOver(F, u) /\ SumOver(F, v) = F[y] + SumOver(F, w)
      BY <3>2, <3>3, <3>4, SumTake
    <3>6. SumOver(F, w) = SumOver(F, P) + SumOver(F, u)
      BY <3>2, <3>3
    <3>7. SumOver(F, u) \in Int /\ F[y] \in Int
      BY <3>3, <3>4, SumInt
    <3>8. QED
      BY <1>0, <3>2, <3>5, <3>6, <3>7
  <2>3. QED
    BY <2>1, <2>2
<1>2. \A s \in SUBSET Q : s \in G
  <2> HIDE DEF G
  <2>1. QED
    BY <1>1, SubsetInduction
<1>3. QED
  BY <1>2

\* Sums of naturals grow with the set.
LEMMA SumNat ==
  ASSUME NEW F, NEW S, IsFiniteSet(S), \A i \in S : F[i] \in Nat
  PROVE  SumOver(F, S) \in Nat
<1> DEFINE G == {s \in SUBSET S : SumOver(F, s) \in Nat}
<1>1. ASSUME NEW s \in SUBSET S, \A x \in s : s \ {x} \in G PROVE s \in G
  <2>1. CASE s = {}
    BY <2>1, SumEmpty
  <2>2. CASE s # {}
    <3>1. PICK p \in s : SumOver(F, s) = F[p] + SumOver(F, s \ {p})
      BY <2>2, SumFirst
    <3>2. SumOver(F, s \ {p}) \in Nat
      BY <1>1
    <3>3. QED
      BY <3>1, <3>2
  <2>3. QED
    BY <2>1, <2>2
<1>2. \A s \in SUBSET S : s \in G
  <2> HIDE DEF G
  <2>1. QED
    BY <1>1, SubsetInduction
<1>3. QED
  BY <1>2

LEMMA SumPart ==
  ASSUME NEW F, NEW S, IsFiniteSet(S), NEW P \in SUBSET S, \A i \in S : F[i] \in Nat
  PROVE  SumOver(F, P) <= SumOver(F, S)
<1>1. PICK Q : Q = S \ P
  OBVIOUS
<1>2. P \cap Q = {} /\ S = P \cup Q /\ IsFiniteSet(P) /\ IsFiniteSet(Q)
  BY <1>1, FS_Subset
<1>3. SumOver(F, S) = SumOver(F, P) + SumOver(F, Q)
  BY <1>2, SumUnion
<1>4. SumOver(F, P) \in Nat /\ SumOver(F, Q) \in Nat
  BY <1>2, SumNat
<1>5. QED
  BY <1>3, <1>4

\* Functions that agree on a set have the same sum over it.
Agree(F, H, S) == \A i \in S : F[i] = H[i]

LEMMA SumSame ==
  ASSUME NEW F, NEW H, NEW S, IsFiniteSet(S), Agree(F, H, S)
  PROVE  SumOver(F, S) = SumOver(H, S)
<1>1. PICK g, h : g = Sums(F, S) /\ h = Sums(H, S)
  OBVIOUS
<1>2. SumsBy(F, S, g) /\ SumsBy(H, S, h)
  BY <1>1, SumsAre DEF SumsBy
<1>3. ASSUME NEW u \in SUBSET S PROVE SumStep(H, h, u) = SumStep(F, h, u)
  BY DEF SumStep, AnyOf, Agree
<1>4. SumsBy(F, S, h)
  BY <1>2, <1>3 DEF SumsBy
<1>5. \A u \in SUBSET S : g[u] = h[u]
  BY <1>2, <1>4, SumsUnique
<1>6. QED
  BY <1>1, <1>5, SumOverIs

\* One more at one place is one more in the sum.
LEMMA SumBump ==
  ASSUME NEW F, NEW H, NEW S, IsFiniteSet(S), NEW x \in S,
         \A i \in S : F[i] \in Int, H[x] = F[x] + 1, Agree(F, H, S \ {x})
  PROVE  SumOver(H, S) = SumOver(F, S) + 1
<1>1. PICK u : u = S \ {x}
  OBVIOUS
<1>2. IsFiniteSet(u) /\ u \in SUBSET S
  BY <1>1, FS_Subset
<1>3. \A i \in S : H[i] \in Int
  BY DEF Agree
<1>4. SumOver(F, S) = F[x] + SumOver(F, u) /\ SumOver(H, S) = H[x] + SumOver(H, u)
  BY <1>1, <1>3, SumTake
<1>5. SumOver(F, u) = SumOver(H, u)
  BY <1>1, <1>2, SumSame
<1>6. SumOver(F, u) \in Int
  BY <1>2, SumInt
<1>7. QED
  BY <1>4, <1>5, <1>6

LEMMA SumZero ==
  ASSUME NEW F, NEW S, IsFiniteSet(S), \A i \in S : F[i] = 0
  PROVE  SumOver(F, S) = 0
<1> DEFINE G == {s \in SUBSET S : SumOver(F, s) = 0}
<1>1. ASSUME NEW s \in SUBSET S, \A x \in s : s \ {x} \in G PROVE s \in G
  <2>1. CASE s = {}
    BY <2>1, SumEmpty
  <2>2. CASE s # {}
    <3>1. PICK p \in s : SumOver(F, s) = F[p] + SumOver(F, s \ {p})
      BY <2>2, SumFirst
    <3>2. SumOver(F, s \ {p}) = 0
      BY <1>1
    <3>3. QED
      BY <3>1, <3>2
  <2>3. QED
    BY <2>1, <2>2
<1>2. \A s \in SUBSET S : s \in G
  <2> HIDE DEF G
  <2>1. QED
    BY <1>1, SubsetInduction
<1>3. QED
  BY <1>2

\* What sums like the fold gives the sum.
LEMMA SumOf ==
  ASSUME NEW F, NEW S, IsFiniteSet(S), NEW h, SumsBy(F, S, h)
  PROVE  h[S] = SumOver(F, S)
<1>1. PICK g : g = Sums(F, S)
  OBVIOUS
<1>2. SumsBy(F, S, g)
  BY <1>1, SumsAre DEF SumsBy
<1>3. \A u \in SUBSET S : g[u] = h[u]
  BY <1>2, SumsUnique
<1>4. QED
  BY <1>1, <1>3, SumOverIs

\* A multiple of every term is a multiple of the sum.
LEMMA SumTimes ==
  ASSUME NEW F, NEW H, NEW S, IsFiniteSet(S), NEW k \in Int,
         \A i \in S : F[i] \in Int /\ H[i] = k * F[i]
  PROVE  SumOver(H, S) = k * SumOver(F, S)
<1> DEFINE G == {s \in SUBSET S : SumOver(H, s) = k * SumOver(F, s)}
<1>0. \A s \in SUBSET S : SumOver(F, s) \in Int /\ SumOver(H, s) \in Int
  <2>1. \A i \in S : F[i] \in Int /\ H[i] \in Int
    OBVIOUS
  <2>2. QED
    BY <2>1, FS_Subset, SumInt
<1>1. ASSUME NEW s \in SUBSET S, \A x \in s : s \ {x} \in G PROVE s \in G
  <2>1. CASE s = {}
    BY <2>1, SumEmpty
  <2>2. CASE s # {}
    <3>1. PICK p \in s : SumOver(F, s) = F[p] + SumOver(F, s \ {p})
      BY <2>2, SumFirst
    <3>2. SumOver(H, s) = H[p] + SumOver(H, s \ {p})
      <4>1. IsFiniteSet(s) /\ \A i \in s : H[i] \in Int
        BY FS_Subset
      <4>2. QED
        BY <4>1, SumTake
    <3>3. PICK u : u = s \ {p}
      OBVIOUS
    <3>4. SumOver(H, u) = k * SumOver(F, u) /\ SumOver(F, u) \in Int
      BY <1>0, <1>1, <3>3
    <3>5. PICK a \in Int : a = F[p] /\ H[p] = k * a
      OBVIOUS
    <3>6. PICK b \in Int : b = SumOver(F, u)
      BY <3>4
    <3>7. SumOver(F, s) = a + b /\ SumOver(H, s) = k * a + k * b
      BY <3>1, <3>2, <3>3, <3>4, <3>5, <3>6
    <3>8. k * (a + b) = k * a + k * b
      OBVIOUS
    <3>9. QED
      BY <3>7, <3>8
  <2>3. QED
    BY <2>1, <2>2
<1> HIDE DEF G
<1>2. \A s \in SUBSET S : s \in G
  BY <1>1, SubsetInduction
<1>3. QED
  BY <1>2 DEF G

\* The same with the hypotheses as predicates.
IntsOn(F, S) == \A i \in S : F[i] \in Int
TimesOn(k, F, H, S) == \A i \in S : F[i] \in Int /\ H[i] = k * F[i]

LEMMA SumTakeOne ==
  ASSUME NEW F, NEW S, IsFiniteSet(S), IntsOn(F, S), NEW x, x \in S
  PROVE  SumOver(F, S) = F[x] + SumOver(F, S \ {x})
  BY SumTake DEF IntsOn

LEMMA SumTimesOn ==
  ASSUME NEW F, NEW H, NEW S, IsFiniteSet(S), NEW k, k \in Int, TimesOn(k, F, H, S)
  PROVE  SumOver(H, S) = k * SumOver(F, S)
  BY SumTimes DEF TimesOn

\* A sum of n positive numbers is at least n.
LEMMA SumAtLeast ==
  ASSUME NEW F, NEW S, IsFiniteSet(S), \A i \in S : F[i] \in Nat \ {0}
  PROVE  SumOver(F, S) \in Nat /\ SumOver(F, S) >= Cardinality(S)
<1> DEFINE G == {s \in SUBSET S : SumOver(F, s) >= Cardinality(s)}
<1>0. \A s \in SUBSET S : SumOver(F, s) \in Nat
  BY FS_Subset, SumNat
<1>1. ASSUME NEW s \in SUBSET S, \A x \in s : s \ {x} \in G PROVE s \in G
  <2>1. CASE s = {}
    BY <2>1, SumEmpty, FS_EmptySet
  <2>2. CASE s # {}
    <3>1. PICK p \in s : SumOver(F, s) = F[p] + SumOver(F, s \ {p})
      BY <2>2, SumFirst
    <3>2. PICK u : u = s \ {p}
      OBVIOUS
    <3>3. u \in SUBSET S /\ Cardinality(u) = Cardinality(s) - 1 /\ Cardinality(s) \in Nat
      BY <3>2, OneLess
    <3>4. SumOver(F, u) \in Nat /\ SumOver(F, u) >= Cardinality(u) /\ F[p] \in Nat \ {0}
      BY <1>0, <1>1, <3>2, <3>3
    <3>5. SumOver(F, s) = F[p] + SumOver(F, u)
      BY <3>1, <3>2
    <3>6. QED
      BY <3>3, <3>4, <3>5
  <2>3. QED
    BY <2>1, <2>2
<1> HIDE DEF G
<1>2. \A s \in SUBSET S : s \in G
  BY <1>1, SubsetInduction
<1>3. QED
  BY <1>0, <1>2 DEF G

-----------------------------------------------------------------------------
(* The first of a finite set, and division.                                *)

\* A finite set on which a relation is total and transitive has a first
\* element, and so has every part of it that is not empty.
Total(R, S) == \A a, b \in S : a # b => <<a, b>> \in R \/ <<b, a>> \in R
Chained(R, S) == \A a, b, c \in S : <<a, b>> \in R /\ <<b, c>> \in R => <<a, c>> \in R
Leads(R, P, a) == \A b \in P \ {a} : <<a, b>> \in R

LEMMA FirstOf ==
  ASSUME NEW S, IsFiniteSet(S), NEW R, Total(R, S), Chained(R, S), S # {}
  PROVE  \E a \in S : Leads(R, S, a)
<1> DEFINE G == {P \in SUBSET S : P = {} \/ \E a \in P : Leads(R, P, a)}
<1>1. ASSUME NEW s \in SUBSET S, \A x \in s : s \ {x} \in G PROVE s \in G
  <2>1. CASE s = {}
    BY <2>1
  <2>2. CASE s # {}
    <3>1. PICK x \in s : TRUE
      BY <2>2
    <3>2. PICK u : u = s \ {x}
      OBVIOUS
    <3>3. u = {} \/ \E a \in u : Leads(R, u, a)
      BY <1>1, <3>2
    <3>4. CASE u = {}
      BY <3>1, <3>2, <3>4 DEF Leads
    <3>5. ASSUME NEW a \in u, Leads(R, u, a) PROVE \E b \in s : Leads(R, s, b)
      <4>1. a \in S /\ x \in S /\ a # x /\ a \in s
        BY <3>2
      <4>2. CASE <<a, x>> \in R
        BY <3>2, <3>5, <4>1, <4>2 DEF Leads
      <4>3. CASE <<x, a>> \in R
        <5>1. ASSUME NEW b \in s \ {x} PROVE <<x, b>> \in R
          <6>1. CASE b = a
            BY <4>3, <6>1
          <6>2. CASE b # a
            <7>1. <<a, b>> \in R
              BY <3>2, <3>5, <6>2 DEF Leads
            <7>2. QED
              BY <4>1, <4>3, <7>1 DEF Chained
          <6>3. QED
            BY <6>1, <6>2
        <5>2. QED
          BY <5>1 DEF Leads
      <4>4. QED
        BY <4>1, <4>2, <4>3 DEF Total
    <3>6. QED
      BY <3>3, <3>4, <3>5
  <2>3. QED
    BY <2>1, <2>2
<1> HIDE DEF G
<1>2. \A s \in SUBSET S : s \in G
  BY <1>1, SubsetInduction
<1>3. S \in G
  BY <1>2
<1>4. QED
  BY <1>3 DEF G

\* The least of a set of naturals.
LEMMA MinIs ==
  ASSUME NEW T \in SUBSET Nat, T # {}
  PROVE  Min(T) \in T /\ \A m \in T : Min(T) <= m
<1>1. \E n \in T : \A m \in T : n <= m
  BY LeastOf
<1>2. QED
  BY <1>1 DEF Min

LEMMA DivIs ==
  ASSUME NEW a \in Nat, NEW b \in Nat \ {0}
  PROVE  /\ a \div b \in Nat
         /\ b * (a \div b) <= a /\ a < b * (a \div b) + b
  OBVIOUS

\* The greatest number of times that b goes into a.
LEMMA DivMost ==
  ASSUME NEW a \in Nat, NEW b \in Nat \ {0}, NEW n \in Nat, b * n <= a
  PROVE  n <= a \div b
<1>1. PICK d \in Nat : d = a \div b /\ a < b * d + b
  BY DivIs
<1>2. ASSUME n >= d + 1 PROVE FALSE
  <2>1. b * (d + 1) <= b * n
    BY <1>1, <1>2
  <2>2. b * (d + 1) = b * d + b
    BY <1>1
  <2>3. QED
    BY <1>1, <2>1, <2>2
<1>3. QED
  BY <1>1, <1>2

LEMMA DivFalls ==
  ASSUME NEW a \in Nat, NEW b \in Nat \ {0}, NEW c \in Nat \ {0}, b <= c
  PROVE  a \div c <= a \div b
<1>1. PICK d \in Nat : d = a \div c /\ c * d <= a
  BY DivIs
<1>2. b * d <= c * d
  BY <1>1
<1>3. b * d \in Nat /\ c * d \in Nat
  BY <1>1
<1>4. b * d <= a
  BY <1>1, <1>2, <1>3
<1>5. QED
  BY <1>1, <1>4, DivMost
=============================================================================
