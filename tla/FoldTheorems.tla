---------------------------- MODULE FoldTheorems ----------------------------
(***************************************************************************)
(* Facts about the folds of the community modules: the sums of             *)
(* Functions.tla, SumFunctionOnSet(f, D), for the proofs about the pot and  *)
(* the exposure, and FoldLeft of SequencesExt.tla, for those about the      *)
(* journal and the web feed.  At the end, finite sets put in an order.       *)
(*                                                                         *)
(* Both are recursive functions on the subsets of a finite set.  That one   *)
(* exists, and in what order it takes the elements, is an induction done    *)
(* over a SET of naturals (NatSetInduction).                               *)
(***************************************************************************)
EXTENDS Integers, FiniteSets, Sequences, SequencesExt, FiniteSetTheorems,
        WellFoundedInduction, TLAPS

(* Induction over the naturals, for a set of them. *)
LEMMA NatSetInduction ==
  ASSUME NEW S \in SUBSET Nat, 0 \in S, \A n \in S : n + 1 \in S
  PROVE  S = Nat
<1> DEFINE R == OpToRel(<, Nat)
           T == Nat \ S
<1>1. IsWellFoundedOn(R, Nat)
  BY NatLessThanWellFounded
<1>2. \A x, y \in Nat : x < y => <<x, y>> \in R
  BY DEF OpToRel
<1> HIDE DEF R
<1>3. ASSUME T # {} PROVE FALSE
  <2>1. PICK x \in T : \A y \in T : ~(<<y, x>> \in R)
    BY <1>1, <1>3, WFMin
  <2>2. x - 1 \in Nat /\ x - 1 < x
    OBVIOUS
  <2>3. x - 1 \notin T
    BY <1>2, <2>1, <2>2
  <2> QED BY <2>2, <2>3
<1> QED BY <1>3

(* The function that sums fun over the subsets of D, one element at a time. *)
Sums(fun, D) == CHOOSE iter : iter = [s \in SUBSET D |->
  IF s = {} THEN 0 ELSE LET x == CHOOSE x \in s : TRUE IN fun[x] + iter[s \ {x}]]

SumsOf(g, fun, s) ==
  IF s = {} THEN 0 ELSE LET x == CHOOSE x \in s : TRUE IN fun[x] + g[s \ {x}]

LEMMA SumIsSums == ASSUME NEW fun, NEW D PROVE SumFunctionOnSet(fun, D) = Sums(fun, D)[D]
BY DEF SumFunctionOnSet, FoldFunctionOnSet, MapThenFoldSet, Sums

(* It exists. *)
LEMMA SumsExist ==
  ASSUME NEW D, IsFiniteSet(D), NEW fun, \A x \in D : fun[x] \in Int
  PROVE  /\ Sums(fun, D) \in [SUBSET D -> Int]
         /\ \A s \in SUBSET D : Sums(fun, D)[s] = SumsOf(Sums(fun, D), fun, s)
<1> DEFINE Good(g, n) == \A s \in SUBSET D : Cardinality(s) <= n => g[s] = SumsOf(g, fun, s)
           N == {n \in Nat : \E g \in [SUBSET D -> Int] : Good(g, n)}
<1>0. \A s \in SUBSET D : /\ IsFiniteSet(s) /\ Cardinality(s) \in Nat
                          /\ Cardinality(s) <= Cardinality(D)
                          /\ Cardinality(s) = 0 <=> s = {}
                          /\ \A x \in s : Cardinality(s \ {x}) = Cardinality(s) - 1
  BY FS_Subset, FS_CardinalityType, FS_EmptySet, FS_RemoveElement
<1>1. 0 \in N
  <2> DEFINE g == [s \in SUBSET D |-> 0]
  <2>1. Good(g, 0)
    BY <1>0 DEF SumsOf
  <2> QED BY <2>1
<1>2. \A n \in N : n + 1 \in N
  <2> SUFFICES ASSUME NEW n \in N PROVE n + 1 \in N
    OBVIOUS
  <2>1. PICK g \in [SUBSET D -> Int] : Good(g, n)
    OBVIOUS
  <2> DEFINE h == [s \in SUBSET D |-> IF Cardinality(s) <= n + 1 THEN SumsOf(g, fun, s) ELSE 0]
  <2>2. \A s \in SUBSET D : SumsOf(g, fun, s) \in Int
    <3> TAKE s \in SUBSET D
    <3>1. CASE s = {}
      BY <3>1 DEF SumsOf
    <3>2. CASE s # {}
      <4> DEFINE x == CHOOSE x \in s : TRUE
      <4>1. x \in s /\ x \in D /\ s \ {x} \in SUBSET D
        BY <3>2
      <4>2. fun[x] \in Int /\ g[s \ {x}] \in Int
        BY <4>1
      <4> HIDE DEF x
      <4>3. fun[x] + g[s \ {x}] \in Int
        BY <4>2
      <4> QED BY <3>2, <4>3 DEF SumsOf, x
    <3> QED BY <3>1, <3>2
  <2>3. h \in [SUBSET D -> Int]
    BY <2>2
  <2>4. \A s \in SUBSET D : Cardinality(s) <= n => h[s] = g[s]
    BY <1>0, <2>1
  <2>5. Good(h, n + 1)
    <3> SUFFICES ASSUME NEW s \in SUBSET D, Cardinality(s) <= n + 1
                 PROVE  h[s] = SumsOf(h, fun, s)
      OBVIOUS
    <3>1. h[s] = SumsOf(g, fun, s)
      OBVIOUS
    <3>2. CASE s = {}
      BY <3>1, <3>2 DEF SumsOf
    <3>3. CASE s # {}
      <4> DEFINE x == CHOOSE x \in s : TRUE
      <4>1. x \in s
        BY <3>3
      <4>2. s \ {x} \in SUBSET D /\ Cardinality(s \ {x}) <= n
        BY <1>0, <4>1
      <4>3. h[s \ {x}] = g[s \ {x}]
        BY <2>4, <4>2
      <4> HIDE DEF h
      <4> QED BY <3>1, <3>3, <4>3 DEF SumsOf
    <3> QED BY <3>2, <3>3
  <2> HIDE DEF h
  <2> QED BY <2>3, <2>5
<1>3. N = Nat
  <2> HIDE DEF N
  <2>1. N \in SUBSET Nat
    BY DEF N
  <2> QED BY <1>1, <1>2, <2>1, NatSetInduction
<1>4. PICK g \in [SUBSET D -> Int] : Good(g, Cardinality(D))
  <2>1. Cardinality(D) \in N
    BY <1>0, <1>3
  <2> QED BY <2>1
<1>5. \A s \in SUBSET D : g[s] = SumsOf(g, fun, s)
  BY <1>0, <1>4
<1>6. g = [s \in SUBSET D |-> SumsOf(g, fun, s)]
  BY <1>5
<1>7. Sums(fun, D) = [s \in SUBSET D |-> SumsOf(Sums(fun, D), fun, s)]
  BY <1>6 DEF Sums, SumsOf
<1>8. Sums(fun, D) \in [SUBSET D -> Int]
  <2> DEFINE S == Sums(fun, D)
             M == {n \in Nat : \A s \in SUBSET D : Cardinality(s) <= n => S[s] = g[s]}
  <2>1. \A s \in SUBSET D : S[s] = SumsOf(S, fun, s)
    BY <1>7
  <2> HIDE DEF S
  <2>2. 0 \in M
    BY <1>0, <1>5, <2>1 DEF SumsOf
  <2>3. \A n \in M : n + 1 \in M
    <3> SUFFICES ASSUME NEW n \in M, NEW s \in SUBSET D, Cardinality(s) <= n + 1
                 PROVE  S[s] = g[s]
      OBVIOUS
    <3> DEFINE x == CHOOSE x \in s : TRUE
    <3>1. CASE s = {}
      BY <3>1, <1>5, <2>1 DEF SumsOf
    <3>2. CASE s # {}
      <4>1. x \in s
        BY <3>2
      <4>2. s \ {x} \in SUBSET D /\ Cardinality(s \ {x}) <= n
        BY <1>0, <4>1
      <4>3. S[s \ {x}] = g[s \ {x}]
        BY <4>2
      <4> QED BY <3>2, <1>5, <2>1, <4>3, ZenonT(30) DEF SumsOf
    <3> QED BY <3>1, <3>2
  <2>4. M = Nat
    <3> HIDE DEF M
    <3>1. M \in SUBSET Nat
      BY DEF M
    <3> QED BY <2>2, <2>3, <3>1, NatSetInduction
  <2>5. \A s \in SUBSET D : S[s] = g[s]
    <3> SUFFICES ASSUME NEW s \in SUBSET D PROVE S[s] = g[s]
      OBVIOUS
    <3>1. Cardinality(s) \in M /\ Cardinality(s) <= Cardinality(s)
      BY <1>0, <2>4
    <3> QED BY <3>1
  <2>6. S = [s \in SUBSET D |-> SumsOf(S, fun, s)]
    BY <1>7 DEF S
  <2> QED BY <2>5, <2>6 DEF S
<1> QED BY <1>7, <1>8

(* Neither the set it was built for nor fun elsewhere matters. *)
LEMMA SumsAgree ==
  ASSUME NEW D, IsFiniteSet(D), NEW f, \A x \in D : f[x] \in Int,
         NEW E, IsFiniteSet(E), NEW g, \A x \in E : g[x] \in Int,
         NEW t, t \subseteq D, t \subseteq E, \A x \in t : f[x] = g[x]
  PROVE  Sums(f, D)[t] = Sums(g, E)[t]
<1> DEFINE F == Sums(f, D)
           G == Sums(g, E)
           M == {n \in Nat : \A s \in SUBSET t : Cardinality(s) <= n => F[s] = G[s]}
<1>1. /\ \A s \in SUBSET D : F[s] = SumsOf(F, f, s)
      /\ \A s \in SUBSET E : G[s] = SumsOf(G, g, s)
  BY SumsExist
<1> HIDE DEF F, G
<1>0. \A s \in SUBSET t : /\ Cardinality(s) \in Nat
                          /\ Cardinality(s) = 0 <=> s = {}
                          /\ \A x \in s : Cardinality(s \ {x}) = Cardinality(s) - 1
  <2>1. \A s \in SUBSET t : IsFiniteSet(s)
    BY FS_Subset
  <2> QED BY <2>1, FS_CardinalityType, FS_EmptySet, FS_RemoveElement
<1>2. 0 \in M
  BY <1>0, <1>1 DEF SumsOf
<1>3. \A n \in M : n + 1 \in M
  <2> SUFFICES ASSUME NEW n \in M, NEW s \in SUBSET t, Cardinality(s) <= n + 1
               PROVE  F[s] = G[s]
    OBVIOUS
  <2>1. F[s] = SumsOf(F, f, s) /\ G[s] = SumsOf(G, g, s)
    BY <1>1
  <2>2. CASE s = {}
    BY <2>1, <2>2 DEF SumsOf
  <2>3. CASE s # {}
    <3> DEFINE x == CHOOSE x \in s : TRUE
    <3>1. x \in s
      BY <2>3
    <3>2. s \ {x} \in SUBSET t /\ Cardinality(s \ {x}) <= n
      BY <1>0, <3>1
    <3>3. F[s \ {x}] = G[s \ {x}]
      BY <3>2
    <3>4. f[x] = g[x]
      BY <3>1
    <3> QED BY <2>1, <2>3, <3>3, <3>4 DEF SumsOf
  <2> QED BY <2>2, <2>3
<1>4. M = Nat
  <2> HIDE DEF M
  <2>1. M \in SUBSET Nat
    BY DEF M
  <2> QED BY <1>2, <1>3, <2>1, NatSetInduction
<1>5. Cardinality(t) \in M /\ Cardinality(t) <= Cardinality(t)
  BY <1>0, <1>4
<1>6. F[t] = G[t]
  BY <1>5
<1> QED BY <1>6 DEF F, G

(* Any element may be taken out first. *)
LEMMA SumsRemove ==
  ASSUME NEW D, IsFiniteSet(D), NEW f, \A x \in D : f[x] \in Int
  PROVE  \A s \in SUBSET D : \A r \in s : Sums(f, D)[s] = f[r] + Sums(f, D)[s \ {r}]
<1> DEFINE F == Sums(f, D)
           Good(s) == \A r \in s : F[s] = f[r] + F[s \ {r}]
           M == {n \in Nat : \A s \in SUBSET D : Cardinality(s) <= n => Good(s)}
<1>1. F \in [SUBSET D -> Int] /\ \A s \in SUBSET D : F[s] = SumsOf(F, f, s)
  BY SumsExist
<1> HIDE DEF F
<1>0. \A s \in SUBSET D : /\ Cardinality(s) \in Nat
                          /\ Cardinality(s) = 0 <=> s = {}
                          /\ \A x \in s : Cardinality(s \ {x}) = Cardinality(s) - 1
  <2>1. \A s \in SUBSET D : IsFiniteSet(s)
    BY FS_Subset
  <2> QED BY <2>1, FS_CardinalityType, FS_EmptySet, FS_RemoveElement
<1>2. 0 \in M
  BY <1>0
<1>3. \A n \in M : n + 1 \in M
  <2> SUFFICES ASSUME NEW n \in M, NEW s \in SUBSET D, Cardinality(s) <= n + 1, NEW r \in s
               PROVE  F[s] = f[r] + F[s \ {r}]
    OBVIOUS
  <2> DEFINE x == CHOOSE x \in s : TRUE
  <2>1. x \in s /\ s # {}
    OBVIOUS
  <2>2. F[s] = f[x] + F[s \ {x}]
    BY <1>1, <2>1 DEF SumsOf
  <2> HIDE DEF x
  <2>3. CASE r = x
    BY <2>2, <2>3
  <2>4. CASE r # x
    <3>1. /\ s \ {x} \in SUBSET D /\ Cardinality(s \ {x}) <= n /\ r \in s \ {x}
          /\ s \ {r} \in SUBSET D /\ Cardinality(s \ {r}) <= n /\ x \in s \ {r}
      BY <1>0, <2>1, <2>4
    <3>2. F[s \ {x}] = f[r] + F[(s \ {x}) \ {r}]
      BY <3>1
    <3>3. F[s \ {r}] = f[x] + F[(s \ {r}) \ {x}]
      BY <3>1
    <3>4. (s \ {x}) \ {r} = (s \ {r}) \ {x} /\ (s \ {x}) \ {r} \in SUBSET D
      OBVIOUS
    <3>5. f[r] \in Int /\ f[x] \in Int /\ F[(s \ {x}) \ {r}] \in Int
      BY <1>1, <2>1, <3>4
    <3> DEFINE c == F[(s \ {x}) \ {r}]
               a == f[r]
               b == f[x]
    <3>6. /\ F[s] = b + F[s \ {x}] /\ F[s \ {x}] = a + c /\ F[s \ {r}] = b + c
          /\ a \in Int /\ b \in Int /\ c \in Int
      BY <2>2, <3>2, <3>3, <3>4, <3>5
    <3> HIDE DEF a, b, c
    <3>7. F[s] = a + F[s \ {r}]
      BY <3>6
    <3> QED BY <3>7 DEF a
  <2> QED BY <2>3, <2>4
<1>4. M = Nat
  <2> HIDE DEF M
  <2>1. M \in SUBSET Nat
    BY DEF M
  <2> QED BY <1>2, <1>3, <2>1, NatSetInduction
<1>5. \A s \in SUBSET D : Good(s)
  <2> SUFFICES ASSUME NEW s \in SUBSET D PROVE Good(s)
    OBVIOUS
  <2>1. Cardinality(s) \in M /\ Cardinality(s) <= Cardinality(s)
    BY <1>0, <1>4
  <2> QED BY <2>1
<1> QED BY <1>5 DEF F

(* The facts about sums that proofs use. *)
LEMMA SumEmpty == ASSUME NEW f PROVE SumFunctionOnSet(f, {}) = 0
<1>1. SumFunctionOnSet(f, {}) = Sums(f, {})[{}]
  BY SumIsSums
<1>2. IsFiniteSet({}) /\ \A x \in {} : f[x] \in Int
  BY FS_EmptySet
<1>3. Sums(f, {})[{}] = SumsOf(Sums(f, {}), f, {})
  BY <1>2, SumsExist
<1> QED BY <1>1, <1>3 DEF SumsOf

LEMMA SumInt ==
  ASSUME NEW D, IsFiniteSet(D), NEW f, \A x \in D : f[x] \in Int
  PROVE  SumFunctionOnSet(f, D) \in Int
BY SumsExist, SumIsSums

LEMMA SumAdd ==
  ASSUME NEW D, IsFiniteSet(D), NEW f, \A x \in D : f[x] \in Int,
         NEW r, r \notin D, NEW g, g[r] \in Int, \A x \in D : g[x] = f[x]
  PROVE  SumFunctionOnSet(g, D \cup {r}) = SumFunctionOnSet(f, D) + g[r]
<1> DEFINE E == D \cup {r}
<1>1. IsFiniteSet(E) /\ \A x \in E : g[x] \in Int
  BY FS_AddElement
<1>2. D \subseteq E /\ E \ {r} = D /\ r \in E
  OBVIOUS
<1> HIDE DEF E
<1>3. Sums(g, E)[E] = g[r] + Sums(g, E)[D]
  BY <1>1, <1>2, SumsRemove
<1>4. Sums(g, E)[D] = Sums(f, D)[D]
  BY <1>1, <1>2, SumsAgree
<1>5. SumFunctionOnSet(f, D) \in Int
  BY SumInt
<1>6. SumFunctionOnSet(g, E) = Sums(g, E)[E] /\ SumFunctionOnSet(f, D) = Sums(f, D)[D]
  BY SumIsSums
<1>7. SumFunctionOnSet(g, E) = SumFunctionOnSet(f, D) + g[r]
  <2> DEFINE a == Sums(g, E)[E]
             b == Sums(g, E)[D]
  <2>1. a = g[r] + b /\ b = SumFunctionOnSet(f, D)
    BY <1>3, <1>4, <1>6
  <2> HIDE DEF a, b
  <2>2. a = SumFunctionOnSet(f, D) + g[r]
    BY <1>5, <2>1
  <2> QED BY <1>6, <2>2 DEF a
<1> QED BY <1>7 DEF E

LEMMA SumNat ==
  ASSUME NEW D, IsFiniteSet(D), NEW f, \A x \in D : f[x] \in Nat
  PROVE  SumFunctionOnSet(f, D) \in Nat
<1> DEFINE F == Sums(f, D)
           M == {n \in Nat : \A s \in SUBSET D : Cardinality(s) <= n => F[s] \in Nat}
<1>1. \A s \in SUBSET D : F[s] = SumsOf(F, f, s)
  <2>1. \A x \in D : f[x] \in Int
    <3> TAKE x \in D
    <3>1. f[x] \in Nat
      OBVIOUS
    <3> QED BY <3>1
  <2> QED BY <2>1, SumsExist
<1> HIDE DEF F
<1>0. \A s \in SUBSET D : /\ Cardinality(s) \in Nat
                          /\ Cardinality(s) = 0 <=> s = {}
                          /\ \A x \in s : Cardinality(s \ {x}) = Cardinality(s) - 1
  <2>1. \A s \in SUBSET D : IsFiniteSet(s)
    BY FS_Subset
  <2> QED BY <2>1, FS_CardinalityType, FS_EmptySet, FS_RemoveElement
<1>2. 0 \in M
  <2>1. ASSUME NEW s \in SUBSET D, Cardinality(s) <= 0 PROVE F[s] = 0
    <3>1. s = {}
      BY <1>0, <2>1
    <3> QED BY <1>1, <3>1 DEF SumsOf
  <2> QED BY <2>1
<1>3. \A n \in M : n + 1 \in M
  <2> SUFFICES ASSUME NEW n \in M, NEW s \in SUBSET D, Cardinality(s) <= n + 1
               PROVE  F[s] \in Nat
    OBVIOUS
  <2>1. CASE s = {}
    <3>1. F[s] = 0
      BY <1>1, <2>1 DEF SumsOf
    <3> QED BY <3>1
  <2>2. CASE s # {}
    <3> DEFINE x == CHOOSE x \in s : TRUE
    <3>1. x \in s /\ x \in D
      BY <2>2
    <3>2. s \ {x} \in SUBSET D /\ Cardinality(s \ {x}) <= n
      BY <1>0, <3>1
    <3>3. F[s] = f[x] + F[s \ {x}]
      BY <1>1, <2>2 DEF SumsOf
    <3> HIDE DEF x
    <3>4. F[s \ {x}] \in Nat /\ f[x] \in Nat
      BY <3>1, <3>2
    <3> QED BY <3>3, <3>4
  <2> QED BY <2>1, <2>2
<1>4. M = Nat
  <2> HIDE DEF M
  <2>1. M \in SUBSET Nat
    BY DEF M
  <2> QED BY <1>2, <1>3, <2>1, NatSetInduction
<1>5. Cardinality(D) \in M /\ Cardinality(D) <= Cardinality(D) /\ D \in SUBSET D
  BY <1>0, <1>4
<1>6. F[D] \in Nat
  BY <1>5
<1> QED BY <1>6, SumIsSums DEF F

-----------------------------------------------------------------------------
(* Folds over a sequence, for a step given as a function.  A run of the fold  *)
(* is the values it goes through.                                           *)
IsRun(F, base, seq, P) ==
  P = [k \in 0 .. Len(seq) |-> IF k = 0 THEN base ELSE F[<<P[k - 1], seq[k]>>]]

RunOf(F, base, seq) == CHOOSE P : IsRun(F, base, seq, P)

Folding(F, base, seq) == RunOf(F, base, seq)[Len(seq)]

IsStep(F, A, E) == F \in [A \X E -> A]

LEMMA RunExists ==
  ASSUME NEW A, NEW E, NEW F \in [A \X E -> A], NEW base \in A, NEW seq \in Seq(E)
  PROVE  /\ IsRun(F, base, seq, RunOf(F, base, seq))
         /\ RunOf(F, base, seq) \in [0 .. Len(seq) -> A]
<1> DEFINE n == Len(seq)
           Good(P, m) == \A k \in 0 .. n : k <= m =>
                           P[k] = IF k = 0 THEN base ELSE F[<<P[k - 1], seq[k]>>]
           N == {m \in Nat : \E P \in [0 .. n -> A] : Good(P, m)}
<1>0. n \in Nat /\ \A k \in 1 .. n : seq[k] \in E
  OBVIOUS
<1>1. 0 \in N
  <2> DEFINE P == [k \in 0 .. n |-> base]
  <2>1. P \in [0 .. n -> A] /\ \A k \in 0 .. n : P[k] = base
    OBVIOUS
  <2> HIDE DEF P
  <2>2. Good(P, 0)
    BY <1>0, <2>1
  <2> QED BY <2>1, <2>2
<1>2. \A m \in N : m + 1 \in N
  <2> SUFFICES ASSUME NEW m \in N PROVE m + 1 \in N
    OBVIOUS
  <2>1. PICK P \in [0 .. n -> A] : Good(P, m)
    OBVIOUS
  <2> DEFINE Q == [k \in 0 .. n |-> IF k = m + 1 THEN F[<<P[k - 1], seq[k]>>] ELSE P[k]]
  <2>0. m \in Nat /\ n \in Nat
    BY <1>0
  <2>2. \A k \in 0 .. n : k = m + 1 => F[<<P[k - 1], seq[k]>>] \in A
    <3> SUFFICES ASSUME NEW k \in 0 .. n, k = m + 1 PROVE F[<<P[k - 1], seq[k]>>] \in A
      OBVIOUS
    <3>1. k - 1 \in 0 .. n /\ k \in 1 .. n
      BY <2>0
    <3> QED BY <1>0, <3>1
  <2>3. Q \in [0 .. n -> A]
    BY <2>2
  <2>4. \A k \in 0 .. n : /\ k = m + 1 => Q[k] = F[<<P[k - 1], seq[k]>>]
                          /\ k # m + 1 => Q[k] = P[k]
    OBVIOUS
  <2> HIDE DEF Q
  <2>5. Good(Q, m + 1)
    <3> SUFFICES ASSUME NEW k \in 0 .. n, k <= m + 1
                 PROVE  Q[k] = IF k = 0 THEN base ELSE F[<<Q[k - 1], seq[k]>>]
      OBVIOUS
    <3>1. CASE k = 0
      <4>1. k # m + 1 /\ k <= m
        BY <2>0, <3>1
      <4>2. Q[k] = P[k] /\ P[k] = base
        BY <2>1, <2>4, <3>1, <4>1
      <4> QED BY <3>1, <4>2
    <3>2. CASE k # 0
      <4>1. k - 1 \in 0 .. n /\ k - 1 <= m /\ k - 1 # m + 1 /\ (k = m + 1 \/ k <= m)
        BY <2>0, <3>2
      <4>2. Q[k - 1] = P[k - 1]
        BY <2>4, <4>1
      <4>3. Q[k] = F[<<P[k - 1], seq[k]>>]
        BY <2>1, <2>4, <3>2, <4>1
      <4> QED BY <3>2, <4>2, <4>3
    <3> QED BY <3>1, <3>2
  <2>6. m + 1 \in Nat
    BY <2>0
  <2> QED BY <2>3, <2>5, <2>6
<1>3. N = Nat
  <2> HIDE DEF N
  <2>1. N \in SUBSET Nat
    BY DEF N
  <2> QED BY <1>1, <1>2, <2>1, NatSetInduction
<1>4. PICK P \in [0 .. n -> A] : Good(P, n)
  <2>1. n \in N
    BY <1>0, <1>3
  <2> QED BY <2>1
<1>5. IsRun(F, base, seq, P)
  BY <1>4 DEF IsRun
<1>6. IsRun(F, base, seq, RunOf(F, base, seq))
  BY <1>5 DEF RunOf
<1> DEFINE R == RunOf(F, base, seq)
           M == {m \in Nat : m <= n => R[m] \in A}
<1> HIDE DEF R
<1>7. \A k \in 0 .. n : R[k] = IF k = 0 THEN base ELSE F[<<R[k - 1], seq[k]>>]
  BY <1>6 DEF IsRun, R
<1>8. 0 \in M
  <2>1. 0 \in 0 .. n
    BY <1>0
  <2>2. R[0] = base
    BY <1>7, <2>1
  <2> QED BY <2>2
<1>9. \A m \in M : m + 1 \in M
  <2> SUFFICES ASSUME NEW m \in M, m + 1 <= n PROVE R[m + 1] \in A
    OBVIOUS
  <2>1. R[m] \in A /\ m + 1 \in 0 .. n /\ m + 1 \in 1 .. n /\ m + 1 # 0 /\ (m + 1) - 1 = m
    BY <1>0
  <2> QED BY <1>0, <1>7, <2>1
<1>10. M = Nat
  <2> HIDE DEF M
  <2>1. M \in SUBSET Nat
    BY DEF M
  <2> QED BY <1>8, <1>9, <2>1, NatSetInduction
<1>11. R \in [0 .. n -> A]
  <2>1. \A k \in 0 .. n : R[k] \in A
    BY <1>10
  <2>2. R = [k \in 0 .. n |-> R[k]]
    BY <1>6 DEF IsRun, R
  <2> QED BY <2>1, <2>2
<1> QED BY <1>6, <1>11 DEF R

LEMMA FoldingType ==
  ASSUME NEW A, NEW E, NEW F \in [A \X E -> A], NEW base \in A, NEW seq \in Seq(E)
  PROVE  Folding(F, base, seq) \in A
<1>1. Len(seq) \in 0 .. Len(seq)
  OBVIOUS
<1> DEFINE R == RunOf(F, base, seq)
<1>2. R \in [0 .. Len(seq) -> A]
  BY RunExists
<1> HIDE DEF R
<1>3. R[Len(seq)] \in A
  BY <1>1, <1>2
<1> QED BY <1>3 DEF Folding, R

LEMMA FoldingEmpty ==
  ASSUME NEW A, NEW E, NEW F, IsStep(F, A, E), NEW base \in A
  PROVE  Folding(F, base, <<>>) = base
<1>0. F \in [A \X E -> A]
  BY DEF IsStep
<1>1. <<>> \in Seq(E) /\ Len(<<>>) = 0
  OBVIOUS
<1>2. IsRun(F, base, <<>>, RunOf(F, base, <<>>))
  BY <1>0, <1>1, RunExists
<1> DEFINE R == RunOf(F, base, <<>>)
<1> HIDE DEF R
<1>3. R[0] = base
  BY <1>1, <1>2 DEF IsRun, R
<1> QED BY <1>1, <1>3 DEF Folding, R

(* Two runs that start alike over sequences that begin alike agree.           *)
Follows(P, F, base, s, n) ==
  \A k \in 0 .. n : P[k] = IF k = 0 THEN base ELSE F[<<P[k - 1], s[k]>>]

LEMMA RunsAgree ==
  ASSUME NEW F, NEW base, NEW s, NEW t, NEW P, NEW Q, NEW n \in Nat,
         Follows(P, F, base, s, n), Follows(Q, F, base, t, n),
         \A k \in 1 .. n : s[k] = t[k]
  PROVE  P[n] = Q[n]
<1> USE DEF Follows
<1> DEFINE M == {m \in Nat : m <= n => P[m] = Q[m]}
<1>0. 0 \in 0 .. n
  OBVIOUS
<1>1. 0 \in M
  BY <1>0
<1>2. \A m \in M : m + 1 \in M
  <2> SUFFICES ASSUME NEW m \in M, m + 1 <= n PROVE P[m + 1] = Q[m + 1]
    OBVIOUS
  <2>1. P[m] = Q[m] /\ m + 1 \in 0 .. n /\ m + 1 \in 1 .. n /\ m + 1 # 0 /\ (m + 1) - 1 = m
    OBVIOUS
  <2> QED BY <2>1
<1>3. M = Nat
  <2> HIDE DEF M
  <2>1. M \in SUBSET Nat
    BY DEF M
  <2> QED BY <1>1, <1>2, <2>1, NatSetInduction
<1> QED BY <1>3

LEMMA FoldingAppend ==
  ASSUME NEW A, NEW E, NEW F, IsStep(F, A, E), NEW base \in A, NEW seq \in Seq(E), NEW e \in E
  PROVE  Folding(F, base, Append(seq, e)) = F[<<Folding(F, base, seq), e>>]
<1>0. F \in [A \X E -> A]
  BY DEF IsStep
<1> DEFINE s == Append(seq, e)
           n == Len(seq)
           P == RunOf(F, base, seq)
           Q == RunOf(F, base, s)
<1>1. /\ n \in Nat /\ s \in Seq(E) /\ Len(s) = n + 1 /\ s[n + 1] = e
      /\ \A k \in 1 .. n : seq[k] = s[k]
  OBVIOUS
<1>2. IsRun(F, base, seq, P) /\ IsRun(F, base, s, Q)
  BY <1>0, <1>1, RunExists
<1> HIDE DEF P, Q, s, n
<1>3. /\ \A k \in 0 .. n : P[k] = IF k = 0 THEN base ELSE F[<<P[k - 1], seq[k]>>]
      /\ \A k \in 0 .. n + 1 : Q[k] = IF k = 0 THEN base ELSE F[<<Q[k - 1], s[k]>>]
  BY <1>1, <1>2 DEF IsRun, n
<1>4. \A k \in 0 .. n : Q[k] = IF k = 0 THEN base ELSE F[<<Q[k - 1], s[k]>>]
  BY <1>1, <1>3
<1>5. P[n] = Q[n]
  <2>1. Follows(P, F, base, seq, n) /\ Follows(Q, F, base, s, n)
    BY <1>3, <1>4 DEF Follows
  <2>2. n \in Nat /\ \A k \in 1 .. n : seq[k] = s[k]
    BY <1>1
  <2> QED BY <2>1, <2>2, RunsAgree
<1>6. Q[n + 1] = F[<<Q[n], e>>]
  <2>1. n + 1 \in 0 .. n + 1 /\ n + 1 # 0 /\ (n + 1) - 1 = n
    BY <1>1
  <2> QED BY <1>1, <1>3, <2>1
<1>7. Folding(F, base, s) = Q[n + 1] /\ Folding(F, base, seq) = P[n]
  BY <1>1 DEF Folding, P, Q, n
<1> QED BY <1>5, <1>6, <1>7 DEF s

LEMMA FoldingTail ==
  ASSUME NEW A, NEW E, NEW F, IsStep(F, A, E), NEW base \in A, NEW seq \in Seq(E), seq # <<>>
  PROVE  /\ F[<<base, Head(seq)>>] \in A
         /\ Folding(F, base, seq) = Folding(F, F[<<base, Head(seq)>>], Tail(seq))
<1>0. F \in [A \X E -> A]
  BY DEF IsStep
<1> DEFINE t == Tail(seq)
           b == F[<<base, Head(seq)>>]
           n == Len(t)
           P == RunOf(F, base, seq)
           Q == RunOf(F, b, t)
           S == [k \in 0 .. n |-> P[k + 1]]
<1>1. /\ n \in Nat /\ t \in Seq(E) /\ Len(seq) = n + 1 /\ Head(seq) = seq[1] /\ b \in A
      /\ \A k \in 1 .. n : t[k] = seq[k + 1]
  BY <1>0
<1>2. IsRun(F, base, seq, P) /\ IsRun(F, b, t, Q)
  BY <1>0, <1>1, RunExists
<1>3. \A k \in 0 .. n : S[k] = P[k + 1]
  OBVIOUS
<1> HIDE DEF P, Q, t, n, b, S
<1>4. /\ \A k \in 0 .. n + 1 : P[k] = IF k = 0 THEN base ELSE F[<<P[k - 1], seq[k]>>]
      /\ \A k \in 0 .. n : Q[k] = IF k = 0 THEN b ELSE F[<<Q[k - 1], t[k]>>]
  BY <1>1, <1>2 DEF IsRun, n
<1>5. S[0] = b
  <2>1. P[1] = F[<<P[0], seq[1]>>] /\ P[0] = base
    <3>1. 0 \in 0 .. n + 1 /\ 1 \in 0 .. n + 1
      BY <1>1
    <3>2. P[0] = base
      BY <1>4, <3>1
    <3>3. P[1] = F[<<P[1 - 1], seq[1]>>]
      BY <1>4, <3>1
    <3>4. 1 - 1 = 0
      OBVIOUS
    <3> QED BY <3>2, <3>3, <3>4
  <2>2. 0 \in 0 .. n /\ 0 + 1 = 1
    BY <1>1
  <2>3. S[0] = P[1]
    BY <1>3, <2>2
  <2> QED BY <1>1, <2>1, <2>3 DEF b
<1>6. \A k \in 0 .. n : S[k] = IF k = 0 THEN b ELSE F[<<S[k - 1], t[k]>>]
  <2> SUFFICES ASSUME NEW k \in 0 .. n, k # 0 PROVE S[k] = F[<<S[k - 1], t[k]>>]
    BY <1>5
  <2>1. k + 1 \in 0 .. n + 1 /\ k + 1 # 0 /\ (k + 1) - 1 = k /\ k - 1 \in 0 .. n /\ (k - 1) + 1 = k
        /\ k \in 1 .. n
    BY <1>1
  <2>2. P[k + 1] = F[<<P[k], seq[k + 1]>>]
    BY <1>4, <2>1
  <2>3. S[k] = P[k + 1] /\ S[k - 1] = P[k]
    BY <1>3, <2>1
  <2> QED BY <1>1, <2>1, <2>2, <2>3
<1>7. S[n] = Q[n]
  <2>1. Follows(S, F, b, t, n) /\ Follows(Q, F, b, t, n)
    BY <1>4, <1>6 DEF Follows
  <2>2. n \in Nat /\ \A k \in 1 .. n : t[k] = t[k]
    BY <1>1
  <2> QED BY <2>1, <2>2, RunsAgree
<1>8. Folding(F, base, seq) = P[n + 1] /\ Folding(F, b, t) = Q[n] /\ S[n] = P[n + 1]
  BY <1>1, <1>3 DEF Folding, P, Q, n
<1> QED BY <1>1, <1>7, <1>8 DEF b, t

(* A sequence is folded part by part.                                        *)
LEMMA FoldingConcat ==
  ASSUME NEW A, NEW E, NEW F, IsStep(F, A, E), NEW base \in A, NEW s \in Seq(E), NEW t \in Seq(E)
  PROVE  Folding(F, base, s \o t) = Folding(F, Folding(F, base, s), t)
<1>0. F \in [A \X E -> A]
  BY DEF IsStep
<1> DEFINE u == s \o t
           m == Len(s)
           n == Len(t)
           b == Folding(F, base, s)
           P == RunOf(F, base, u)
           Q == RunOf(F, base, s)
           R == RunOf(F, b, t)
           S == [k \in 0 .. n |-> P[m + k]]
<1>1. /\ m \in Nat /\ n \in Nat /\ u \in Seq(E) /\ Len(u) = m + n
      /\ \A k \in 1 .. m : u[k] = s[k]
      /\ \A k \in 1 .. n : u[m + k] = t[k]
  OBVIOUS
<1>2. b \in A
  BY <1>0, FoldingType
<1> HIDE DEF u, b
<1>3. IsRun(F, base, u, P) /\ IsRun(F, base, s, Q) /\ IsRun(F, b, t, R)
  BY <1>0, <1>1, <1>2, RunExists
<1>4. b = Q[m]
  BY DEF b, Folding
<1>5. \A k \in 0 .. n : S[k] = P[m + k]
  OBVIOUS
<1> HIDE DEF P, Q, R, S
<1>6. /\ \A k \in 0 .. m + n : P[k] = IF k = 0 THEN base ELSE F[<<P[k - 1], u[k]>>]
      /\ \A k \in 0 .. m : Q[k] = IF k = 0 THEN base ELSE F[<<Q[k - 1], s[k]>>]
      /\ \A k \in 0 .. n : R[k] = IF k = 0 THEN b ELSE F[<<R[k - 1], t[k]>>]
  BY <1>1, <1>3 DEF IsRun
<1> HIDE DEF m, n
<1>7. P[m] = Q[m]
  <2>1. \A k \in 0 .. m : k \in 0 .. m + n
    BY <1>1
  <2>2. Follows(P, F, base, u, m) /\ Follows(Q, F, base, s, m)
    BY <1>6, <2>1 DEF Follows
  <2>3. m \in Nat /\ \A k \in 1 .. m : u[k] = s[k]
    BY <1>1
  <2> QED BY <2>2, <2>3, RunsAgree
<1>8. \A k \in 0 .. n : S[k] = IF k = 0 THEN b ELSE F[<<S[k - 1], t[k]>>]
  <2> SUFFICES ASSUME NEW k \in 0 .. n PROVE S[k] = IF k = 0 THEN b ELSE F[<<S[k - 1], t[k]>>]
    OBVIOUS
  <2>1. CASE k = 0
    <3>1. m + 0 = m
      BY <1>1
    <3> QED BY <1>4, <1>5, <1>7, <2>1, <3>1
  <2>2. CASE k # 0
    <3>1. m + k \in 0 .. m + n /\ m + k # 0 /\ (m + k) - 1 = m + (k - 1) /\ k - 1 \in 0 .. n /\ k \in 1 .. n
      BY <1>1, <2>2
    <3>2. P[m + k] = F[<<P[m + (k - 1)], u[m + k]>>]
      BY <1>6, <3>1
    <3>3. S[k] = P[m + k] /\ S[k - 1] = P[m + (k - 1)]
      BY <1>5, <3>1
    <3>4. u[m + k] = t[k]
      BY <1>1, <3>1
    <3> QED BY <2>2, <3>2, <3>3, <3>4
  <2> QED BY <2>1, <2>2
<1>9. S[n] = R[n]
  <2>1. Follows(S, F, b, t, n) /\ Follows(R, F, b, t, n)
    BY <1>6, <1>8 DEF Follows
  <2>2. n \in Nat /\ \A k \in 1 .. n : t[k] = t[k]
    BY <1>1
  <2> QED BY <2>1, <2>2, RunsAgree
<1>10. S[n] = P[m + n]
  BY <1>1, <1>5
<1>11. Folding(F, base, u) = P[m + n] /\ Folding(F, b, t) = R[n]
  BY <1>1 DEF Folding, P, R, n
<1> QED BY <1>9, <1>10, <1>11 DEF u, b

(* The folds of short sequences.                                            *)
LEMMA FoldingOne ==
  ASSUME NEW A, NEW E, NEW F, IsStep(F, A, E), NEW base \in A, NEW a \in E
  PROVE  F[<<base, a>>] \in A /\ Folding(F, base, <<a>>) = F[<<base, a>>]
<1>0. F \in [A \X E -> A]
  BY DEF IsStep
<1> DEFINE s == <<a>>
<1>1. s \in Seq(E) /\ s # <<>> /\ Head(s) = a /\ Tail(s) = <<>>
  OBVIOUS
<1>2. F[<<base, a>>] \in A
  BY <1>0
<1> HIDE DEF s
<1>3. Folding(F, base, s) = Folding(F, F[<<base, a>>], <<>>)
  <2>1. Folding(F, base, s) = Folding(F, F[<<base, Head(s)>>], Tail(s))
    BY <1>1, FoldingTail
  <2> QED BY <1>1, <2>1
<1>4. Folding(F, F[<<base, a>>], <<>>) = F[<<base, a>>]
  BY <1>2, FoldingEmpty
<1> QED BY <1>2, <1>3, <1>4 DEF s

LEMMA FoldingTwo ==
  ASSUME NEW A, NEW E, NEW F, IsStep(F, A, E), NEW base \in A, NEW a \in E, NEW b \in E
  PROVE  Folding(F, base, <<a, b>>) = F[<<F[<<base, a>>], b>>]
<1>0. F \in [A \X E -> A]
  BY DEF IsStep
<1> DEFINE s == <<a, b>>
           t == <<b>>
           c == F[<<base, a>>]
<1>1. s \in Seq(E) /\ s # <<>> /\ Head(s) = a /\ Tail(s) = t
  OBVIOUS
<1>2. c \in A
  BY <1>0
<1> HIDE DEF s, t
<1>3. Folding(F, base, s) = Folding(F, c, t)
  <2>1. Folding(F, base, s) = Folding(F, F[<<base, Head(s)>>], Tail(s))
    BY <1>1, FoldingTail
  <2> QED BY <1>1, <2>1
<1> HIDE DEF c
<1>4. Folding(F, c, t) = F[<<c, b>>]
  BY <1>2, FoldingOne DEF t
<1> QED BY <1>3, <1>4 DEF s, c

(* A fold stays within the sets its steps stay within, one for each place.    *)
LEMMA FoldingWithin ==
  ASSUME NEW A, NEW E, NEW F, IsStep(F, A, E), NEW base \in A, NEW seq \in Seq(E),
         NEW I, base \in I[0],
         \A k \in 0 .. Len(seq) - 1 : \A a \in A \cap I[k] : F[<<a, seq[k + 1]>>] \in I[k + 1]
  PROVE  Folding(F, base, seq) \in A \cap I[Len(seq)]
<1> DEFINE n == Len(seq)
           P == RunOf(F, base, seq)
           M == {m \in Nat : m <= n => P[m] \in I[m]}
<1>0. n \in Nat
  OBVIOUS
<1>1. IsRun(F, base, seq, P) /\ P \in [0 .. n -> A]
  BY RunExists DEF IsStep
<1> HIDE DEF P
<1>2. \A k \in 0 .. n : P[k] = IF k = 0 THEN base ELSE F[<<P[k - 1], seq[k]>>]
  BY <1>1 DEF IsRun
<1>3. 0 \in M
  <2>1. 0 \in 0 .. n
    BY <1>0
  <2> QED BY <1>2, <2>1
<1>4. \A m \in M : m + 1 \in M
  <2> SUFFICES ASSUME NEW m \in Nat, m <= n => P[m] \in I[m], m + 1 <= n
               PROVE  P[m + 1] \in I[m + 1]
    OBVIOUS
  <2>1. /\ m \in 0 .. n - 1 /\ m \in 0 .. n /\ m + 1 \in 0 .. n /\ m + 1 # 0 /\ (m + 1) - 1 = m
        /\ P[m] \in I[m]
    BY <1>0
  <2>2. P[m] \in A
    BY <1>1, <2>1
  <2>3. P[m + 1] = F[<<P[m], seq[m + 1]>>]
    BY <1>2, <2>1
  <2> QED BY <2>1, <2>2, <2>3
<1>5. M = Nat
  <2> HIDE DEF M
  <2>1. M \in SUBSET Nat
    BY DEF M
  <2> QED BY <1>3, <1>4, <2>1, NatSetInduction
<1>6. P[n] \in A /\ P[n] \in I[n]
  BY <1>0, <1>1, <1>5
<1> QED BY <1>6 DEF Folding, P

-----------------------------------------------------------------------------
(* FoldLeft of SequencesExt.tla is a recursive function on the sets of        *)
(* indices, which takes the greatest index last.                            *)
LEMMA MaxOfRange ==
  ASSUME NEW n \in Nat, NEW s \in SUBSET (1 .. n), s # {}
  PROVE  Max(s) \in s /\ \A y \in s : Max(s) >= y
<1> DEFINE N == {k \in Nat : \A t \in SUBSET (1 .. k) : t # {} => \E x \in t : \A y \in t : x >= y}
<1>1. 0 \in N
  <2>1. 1 .. 0 = {}
    OBVIOUS
  <2> QED BY <2>1
<1>2. \A k \in N : k + 1 \in N
  <2> SUFFICES ASSUME NEW k \in N, NEW t \in SUBSET (1 .. k + 1), t # {}
               PROVE  \E x \in t : \A y \in t : x >= y
    OBVIOUS
  <2>1. CASE k + 1 \in t
    BY <2>1
  <2>2. CASE k + 1 \notin t
    <3>1. t \in SUBSET (1 .. k)
      BY <2>2
    <3> QED BY <3>1
  <2> QED BY <2>1, <2>2
<1>3. N = Nat
  <2> HIDE DEF N
  <2>1. N \in SUBSET Nat
    BY DEF N
  <2> QED BY <1>1, <1>2, <2>1, NatSetInduction
<1>4. \E x \in s : \A y \in s : x >= y
  BY <1>3
<1> QED BY <1>4 DEF Max

LEMMA MaxOfInterval ==
  ASSUME NEW n \in Nat, NEW k \in 0 .. n - 1
  PROVE  Max(1 .. k + 1) = k + 1 /\ (1 .. k + 1) \ {k + 1} = 1 .. k
<1>1. 1 .. k + 1 \in SUBSET (1 .. n) /\ 1 .. k + 1 # {} /\ k + 1 \in 1 .. k + 1 /\ k \in Nat
  OBVIOUS
<1>2. Max(1 .. k + 1) \in 1 .. k + 1 /\ Max(1 .. k + 1) >= k + 1
  BY <1>1, MaxOfRange
<1> QED BY <1>1, <1>2

FoldStep(g, F, base, seq, s) ==
  IF s = {} THEN base ELSE F[<<g[s \ {Max(s)}], seq[Max(s)]>>]

IsFold(g, A, F, base, seq) ==
  /\ g \in [SUBSET (1 .. Len(seq)) -> A]
  /\ \A s \in SUBSET (1 .. Len(seq)) : g[s] = FoldStep(g, F, base, seq, s)

LEMMA FoldsExist ==
  ASSUME NEW A, NEW E, NEW F \in [A \X E -> A], NEW base \in A, NEW seq \in Seq(E)
  PROVE  \E g : IsFold(g, A, F, base, seq)
<1> DEFINE n == Len(seq)
           D == SUBSET (1 .. n)
           Good(g, k) == \A s \in D : s \in SUBSET (1 .. k) => g[s] = FoldStep(g, F, base, seq, s)
           N == {k \in Nat : \E g \in [D -> A] : Good(g, k)}
<1>0. n \in Nat /\ \A k \in 1 .. n : seq[k] \in E
  OBVIOUS
<1>1. 0 \in N
  <2> DEFINE g == [s \in D |-> base]
  <2>1. \A s \in D : s \in SUBSET (1 .. 0) => s = {}
    OBVIOUS
  <2>2. Good(g, 0)
    BY <2>1 DEF FoldStep
  <2> QED BY <2>2
<1>2. \A k \in N : k + 1 \in N
  <2> SUFFICES ASSUME NEW k \in N PROVE k + 1 \in N
    OBVIOUS
  <2>1. PICK g \in [D -> A] : Good(g, k)
    OBVIOUS
  <2> DEFINE h == [s \in D |-> IF k + 1 \in s THEN F[<<g[s \ {k + 1}], seq[k + 1]>>] ELSE g[s]]
  <2>0. k \in Nat
    OBVIOUS
  <2>2. h \in [D -> A]
    <3> SUFFICES ASSUME NEW s \in D, k + 1 \in s PROVE F[<<g[s \ {k + 1}], seq[k + 1]>>] \in A
      OBVIOUS
    <3>1. k + 1 \in 1 .. n /\ s \ {k + 1} \in D
      OBVIOUS
    <3>2. seq[k + 1] \in E /\ g[s \ {k + 1}] \in A
      BY <1>0, <3>1
    <3> QED BY <3>2
  <2>3. \A s \in D : /\ k + 1 \in s => h[s] = F[<<g[s \ {k + 1}], seq[k + 1]>>]
                     /\ k + 1 \notin s => h[s] = g[s]
    OBVIOUS
  <2> HIDE DEF h
  <2>4. Good(h, k + 1)
    <3> SUFFICES ASSUME NEW s \in D, s \in SUBSET (1 .. k + 1)
                 PROVE  h[s] = FoldStep(h, F, base, seq, s)
      OBVIOUS
    <3>1. CASE k + 1 \in s
      <4>1. s # {} /\ s \ {k + 1} \in D /\ k + 1 \notin s \ {k + 1}
        BY <3>1
      <4>2. Max(s) \in s /\ \A y \in s : Max(s) >= y
        BY <1>0, <4>1, MaxOfRange
      <4>3. Max(s) = k + 1
        <5>1. Max(s) >= k + 1 /\ Max(s) \in 1 .. k + 1
          BY <3>1, <4>2
        <5> QED BY <2>0, <5>1
      <4>4. h[s \ {k + 1}] = g[s \ {k + 1}]
        BY <2>3, <4>1
      <4> QED BY <2>3, <3>1, <4>1, <4>3, <4>4 DEF FoldStep
    <3>2. CASE k + 1 \notin s
      <4>1. s \in SUBSET (1 .. k)
        BY <2>0, <3>2
      <4>2. h[s] = FoldStep(g, F, base, seq, s)
        BY <2>1, <2>3, <3>2, <4>1
      <4>3. CASE s = {}
        BY <4>2, <4>3 DEF FoldStep
      <4>4. CASE s # {}
        <5>1. s \ {Max(s)} \in D /\ k + 1 \notin s \ {Max(s)}
          BY <3>2
        <5>2. h[s \ {Max(s)}] = g[s \ {Max(s)}]
          BY <2>3, <5>1
        <5> QED BY <4>2, <4>4, <5>2 DEF FoldStep
      <4> QED BY <4>3, <4>4
    <3> QED BY <3>1, <3>2
  <2>5. k + 1 \in Nat
    BY <2>0
  <2> HIDE DEF Good
  <2> QED BY <2>2, <2>4, <2>5
<1>3. N = Nat
  <2> HIDE DEF N
  <2>1. N \in SUBSET Nat
    BY DEF N
  <2> QED BY <1>1, <1>2, <2>1, NatSetInduction
<1>4. n \in N
  BY <1>0, <1>3
<1>5. PICK g \in [D -> A] : Good(g, n)
  BY <1>4
<1>6. IsFold(g, A, F, base, seq)
  BY <1>5 DEF IsFold
<1> QED BY <1>6

(* Whatever function takes the indices in their order goes through the run.   *)
TakesInOrder(g, A, F, base, seq) ==
  /\ g[{}] = base
  /\ \A k \in 0 .. Len(seq) - 1 :
       g[1 .. k] \in A => g[1 .. k + 1] = F[<<g[1 .. k], seq[k + 1]>>]

AtEnd(g, seq) == g[1 .. Len(seq)]

LEMMA FoldReached ==
  ASSUME NEW A, NEW E, NEW F, IsStep(F, A, E), NEW base \in A, NEW seq \in Seq(E),
         NEW g, TakesInOrder(g, A, F, base, seq)
  PROVE  AtEnd(g, seq) = Folding(F, base, seq)
<1> USE DEF TakesInOrder
<1> DEFINE n == Len(seq)
           P == RunOf(F, base, seq)
           Holds(m) == m <= n => g[1 .. m] = P[m]
           M == {m \in Nat : Holds(m)}
<1>0. n \in Nat
  OBVIOUS
<1>1. IsRun(F, base, seq, P) /\ P \in [0 .. n -> A]
  BY RunExists DEF IsStep
<1> HIDE DEF P
<1>2. \A k \in 0 .. n : P[k] = IF k = 0 THEN base ELSE F[<<P[k - 1], seq[k]>>]
  BY <1>1 DEF IsRun
<1>3. 0 \in M
  <2>1. 0 \in 0 .. n /\ 1 .. 0 = {}
    BY <1>0
  <2>2. P[0] = base
    BY <1>2, <2>1
  <2> QED BY <2>1, <2>2
<1>4. \A m \in M : m + 1 \in M
  <2> SUFFICES ASSUME NEW m \in Nat, Holds(m) PROVE Holds(m + 1)
    <3> HIDE DEF Holds
    <3> QED OBVIOUS
  <2> SUFFICES ASSUME m + 1 <= n PROVE g[1 .. m + 1] = P[m + 1]
    OBVIOUS
  <2>1. /\ m \in 0 .. n - 1 /\ m \in 0 .. n /\ m + 1 \in 0 .. n /\ m + 1 # 0 /\ (m + 1) - 1 = m
        /\ g[1 .. m] = P[m]
    BY <1>0
  <2>2. g[1 .. m] \in A
    BY <1>1, <2>1
  <2>3. g[1 .. m + 1] = F[<<g[1 .. m], seq[m + 1]>>]
    BY <2>1, <2>2
  <2>4. P[m + 1] = F[<<P[m], seq[m + 1]>>]
    BY <1>2, <2>1
  <2> QED BY <2>1, <2>3, <2>4
<1>5. M = Nat
  <2> HIDE DEF M
  <2>1. M \in SUBSET Nat
    BY DEF M
  <2> QED BY <1>3, <1>4, <2>1, NatSetInduction
<1>6. g[1 .. n] = P[n]
  BY <1>0, <1>5
<1> QED BY <1>6 DEF Folding, P, AtEnd

-----------------------------------------------------------------------------
(* A strict total order of S, as a set of pairs.                             *)
IsOrderOf(R, S) ==
  /\ \A x \in S : <<x, x>> \notin R
  /\ \A x, y \in S : x # y => <<x, y>> \in R \/ <<y, x>> \in R
  /\ \A x, y, z \in S : <<x, y>> \in R /\ <<y, z>> \in R => <<x, z>> \in R

Earlier(S, R, i) == {j \in S : <<j, i>> \in R}

LEMMA OrderOfSubset ==
  ASSUME NEW S, NEW R, IsOrderOf(R, S), NEW T \in SUBSET S
  PROVE  IsOrderOf(R, T)
BY DEF IsOrderOf

(* A finite set has a last member.                                           *)
LEMMA LastExists ==
  ASSUME NEW S, IsFiniteSet(S), NEW R, IsOrderOf(R, S), S # {}
  PROVE  \E m \in S : \A j \in S \ {m} : <<j, m>> \in R
<1> DEFINE Good(T) == T # {} => \E m \in T : \A j \in T \ {m} : <<j, m>> \in R
           N == {n \in Nat : \A T \in SUBSET S : Cardinality(T) = n => Good(T)}
<1>0. \A T \in SUBSET S : /\ IsFiniteSet(T) /\ Cardinality(T) \in Nat
                          /\ Cardinality(T) = 0 <=> T = {}
                          /\ \A x \in T : Cardinality(T \ {x}) = Cardinality(T) - 1
  BY FS_Subset, FS_CardinalityType, FS_EmptySet, FS_RemoveElement
<1>1. 0 \in N
  BY <1>0
<1>2. \A n \in N : n + 1 \in N
  <2> SUFFICES ASSUME NEW n \in N, NEW T \in SUBSET S, Cardinality(T) = n + 1, T # {}
               PROVE  \E m \in T : \A j \in T \ {m} : <<j, m>> \in R
    OBVIOUS
  <2>1. PICK x \in T : TRUE
    OBVIOUS
  <2>2. T \ {x} \in SUBSET S /\ Cardinality(T \ {x}) = n
    BY <1>0, <2>1
  <2>3. CASE T \ {x} = {}
    BY <2>1, <2>3
  <2>4. CASE T \ {x} # {}
    <3>1. PICK m \in T \ {x} : \A j \in (T \ {x}) \ {m} : <<j, m>> \in R
      BY <2>2, <2>4
    <3>2. CASE <<x, m>> \in R
      BY <3>1, <3>2
    <3>3. CASE <<m, x>> \in R
      <4>1. \A j \in T \ {x} : <<j, x>> \in R
        BY <2>1, <3>1, <3>3 DEF IsOrderOf
      <4> QED BY <2>1, <4>1
    <3> QED BY <2>1, <3>1, <3>2, <3>3 DEF IsOrderOf
  <2> QED BY <2>3, <2>4
<1>3. N = Nat
  <2> HIDE DEF N
  <2>1. N \in SUBSET Nat
    BY DEF N
  <2> QED BY <1>1, <1>2, <2>1, NatSetInduction
<1>4. Cardinality(S) \in N
  BY <1>0, <1>3
<1> QED BY <1>4

(* Every number below the size of the set is the rank of one member ...       *)
LEMMA RanksReached ==
  ASSUME NEW S, IsFiniteSet(S), NEW R, IsOrderOf(R, S)
  PROVE  \A k \in 0 .. Cardinality(S) - 1 : \E i \in S : Cardinality(Earlier(S, R, i)) = k
<1> DEFINE Good(T) == \A k \in 0 .. Cardinality(T) - 1 : \E i \in T : Cardinality(Earlier(T, R, i)) = k
           N == {n \in Nat : \A T \in SUBSET S : Cardinality(T) = n => Good(T)}
<1>0. \A T \in SUBSET S : /\ IsFiniteSet(T) /\ Cardinality(T) \in Nat
                          /\ Cardinality(T) = 0 <=> T = {}
                          /\ \A x \in T : Cardinality(T \ {x}) = Cardinality(T) - 1
  BY FS_Subset, FS_CardinalityType, FS_EmptySet, FS_RemoveElement
<1>1. 0 \in N
  BY <1>0
<1>2. \A n \in N : n + 1 \in N
  <2> SUFFICES ASSUME NEW n \in N, NEW T \in SUBSET S, Cardinality(T) = n + 1,
                      NEW k \in 0 .. n
               PROVE  \E i \in T : Cardinality(Earlier(T, R, i)) = k
    OBVIOUS
  <2>0. IsOrderOf(R, T) /\ T # {} /\ IsFiniteSet(T)
    BY <1>0, OrderOfSubset
  <2>1. PICK m \in T : \A j \in T \ {m} : <<j, m>> \in R
    BY <2>0, LastExists
  <2> DEFINE U == T \ {m}
  <2>2. U \in SUBSET S /\ Cardinality(U) = n
    BY <1>0
  <2>3. \A j \in U : <<m, j>> \notin R
    BY <2>0, <2>1 DEF IsOrderOf
  <2>4. CASE k = n
    <3>1. Earlier(T, R, m) = U
      BY <2>0, <2>1 DEF IsOrderOf, Earlier
    <3> QED BY <2>2, <2>4, <3>1
  <2>5. CASE k # n
    <3>1. k \in 0 .. n - 1
      BY <2>5
    <3>2. PICK i \in U : Cardinality(Earlier(U, R, i)) = k
      BY <2>2, <3>1
    <3>3. Earlier(T, R, i) = Earlier(U, R, i)
      BY <2>3 DEF Earlier
    <3> QED BY <3>2, <3>3
  <2> QED BY <2>4, <2>5
<1>3. N = Nat
  <2> HIDE DEF N
  <2>1. N \in SUBSET Nat
    BY DEF N
  <2> QED BY <1>1, <1>2, <2>1, NatSetInduction
<1>4. Cardinality(S) \in N
  BY <1>0, <1>3
<1> QED BY <1>4

(* ... and of no other: an earlier member has a smaller rank.                 *)
LEMMA RanksIncrease ==
  ASSUME NEW S, IsFiniteSet(S), NEW R, IsOrderOf(R, S), NEW i \in S, NEW j \in S
  PROVE  /\ Cardinality(Earlier(S, R, i)) \in 0 .. Cardinality(S) - 1
         /\ <<i, j>> \in R => Cardinality(Earlier(S, R, i)) < Cardinality(Earlier(S, R, j))
<1> DEFINE A == Earlier(S, R, i)
           B == Earlier(S, R, j)
<1>0. A \subseteq S \ {i} /\ B \subseteq S
  BY DEF Earlier, IsOrderOf
<1>1. /\ IsFiniteSet(S \ {i}) /\ Cardinality(S \ {i}) = Cardinality(S) - 1
      /\ Cardinality(S) \in Nat /\ IsFiniteSet(B)
  BY <1>0, FS_Subset, FS_CardinalityType, FS_RemoveElement
<1>2. /\ IsFiniteSet(A) /\ Cardinality(A) \in Nat
      /\ Cardinality(A) <= Cardinality(S \ {i})
  BY <1>0, <1>1, FS_Subset, FS_CardinalityType
<1>3. ASSUME <<i, j>> \in R PROVE Cardinality(A) < Cardinality(B)
  <2>1. A \cup {i} \subseteq B /\ i \notin A
    BY <1>3 DEF Earlier, IsOrderOf
  <2>2. Cardinality(A \cup {i}) = Cardinality(A) + 1
    BY <1>2, <2>1, FS_AddElement
  <2>3. Cardinality(A \cup {i}) <= Cardinality(B) /\ Cardinality(B) \in Nat
    BY <1>1, <2>1, FS_Subset, FS_CardinalityType
  <2> QED BY <1>2, <2>2, <2>3
<1> QED BY <1>1, <1>2, <1>3
=============================================================================
