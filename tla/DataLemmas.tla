---------------------------- MODULE DataLemmas ----------------------------
(***************************************************************************)
(* Facts about the data of several modules: induction over naturals and    *)
(* finite sets, stated with sets in place of predicates so that every      *)
(* prover can use them; sums; and what a queue holds.                      *)
(***************************************************************************)
EXTENDS Integers, SequencesExt, FiniteSetTheorems, TLAPS

\* Induction: a set of naturals with 0 and every successor is Nat.
LEMMA NatSetInduction ==
  ASSUME NEW S \in SUBSET Nat, 0 \in S, \A n \in S : n + 1 \in S
  PROVE  S = Nat
<1> DEFINE T == Nat \ S
<1> SUFFICES ASSUME T # {} PROVE FALSE
  OBVIOUS
<1>1. PICK n \in T : \A k \in T : ~ (<<k, n>> \in OpToRel(<, Nat))
  <2> HIDE DEF T
  <2>1. T \subseteq Nat
    BY DEF T
  <2> QED BY <2>1, NatLessThanWellFounded, WFMin
<1>2. n # 0 /\ n \in Nat /\ n \notin S
  OBVIOUS
<1>3. n - 1 \in Nat /\ n - 1 < n /\ n - 1 \notin S
  BY <1>2
<1> QED BY <1>1, <1>2, <1>3 DEF OpToRel

\* Induction: a family of subsets of a finite set that has the empty set, and
\* with a set every set of one element more, has the whole set.
LEMMA FiniteSetInduction ==
  ASSUME NEW S, IsFiniteSet(S), NEW F \in SUBSET SUBSET S, {} \in F,
         \A T \in F : \A x \in S \ T : T \cup {x} \in F
  PROVE  F = SUBSET S
<1> DEFINE C == (SUBSET S) \ F
<1> SUFFICES ASSUME C # {} PROVE FALSE
  OBVIOUS
<1>1. PICK T \in C : \A U \in C : ~ (<<U, T>> \in StrictSubsetOrdering(S))
  <2> HIDE DEF C
  <2>1. C \subseteq FiniteSubsetsOf(S)
    BY FS_FiniteSubsetsOfFinite DEF C
  <2> QED BY <2>1, FS_StrictSubsetOrderingWellFounded, WFMin
<1>2. PICK x : x \in T
  OBVIOUS
<1>3. T \ {x} \in SUBSET S /\ T \ {x} # T /\ T \ {x} \subseteq T /\ T \in SUBSET S
  BY <1>2
<1>4. <<T \ {x}, T>> \in StrictSubsetOrdering(S)
  BY <1>3 DEF StrictSubsetOrdering
<1>5. T \ {x} \in F
  BY <1>1, <1>3, <1>4
<1>6. x \in S \ (T \ {x}) /\ (T \ {x}) \cup {x} = T
  BY <1>2
<1> QED BY <1>5, <1>6

\* A finite set with a total order of its elements has one that is first.
LEMMA FirstExists ==
  ASSUME NEW S, IsFiniteSet(S), S # {}, NEW R,
         \A x, y \in S : <<x, y>> \in R \/ <<y, x>> \in R,
         \A x, y, z \in S : <<x, y>> \in R /\ <<y, z>> \in R => <<x, z>> \in R
  PROVE  \E m \in S : \A o \in S : <<m, o>> \in R
<1> DEFINE F == {T \in SUBSET S : T = {} \/ \E m \in T : \A o \in T : <<m, o>> \in R}
<1>1. ASSUME NEW T \in F, NEW x \in S \ T PROVE T \cup {x} \in F
  <2>1. CASE T = {}
    BY <2>1
  <2>2. CASE T # {}
    <3>1. PICK m \in T : \A o \in T : <<m, o>> \in R
      BY <2>2
    <3>2. CASE <<m, x>> \in R
      BY <3>1, <3>2
    <3>3. CASE <<x, m>> \in R
      <4>1. \A o \in T \cup {x} : <<x, o>> \in R
        BY <3>1, <3>3
      <4> QED BY <4>1
    <3> QED BY <3>1, <3>2, <3>3
  <2> QED BY <2>1, <2>2
<1>2. {} \in F /\ F \in SUBSET SUBSET S
  OBVIOUS
<1> HIDE DEF F
<1>3. F = SUBSET S
  BY <1>1, <1>2, FiniteSetInduction
<1> QED BY <1>3 DEF F

\* A finite set of numbers has a lowest and a highest.
LEMMA MinMaxIn ==
  ASSUME NEW S \in SUBSET Int, IsFiniteSet(S), S # {}
  PROVE  /\ Min(S) \in S /\ \A o \in S : Min(S) <= o
         /\ Max(S) \in S /\ \A o \in S : Max(S) >= o
<1> DEFINE up == {p \in S \X S : p[1] <= p[2]}
           down == {p \in S \X S : p[1] >= p[2]}
<1>1. PICK l \in S : \A o \in S : <<l, o>> \in up
  <2>1. \A x, y \in S : <<x, y>> \in up \/ <<y, x>> \in up
    OBVIOUS
  <2>2. \A x, y, z \in S : <<x, y>> \in up /\ <<y, z>> \in up => <<x, z>> \in up
    OBVIOUS
  <2> HIDE DEF up
  <2> QED BY <2>1, <2>2, FirstExists
<1>2. PICK h \in S : \A o \in S : <<h, o>> \in down
  <2>1. \A x, y \in S : <<x, y>> \in down \/ <<y, x>> \in down
    OBVIOUS
  <2>2. \A x, y, z \in S : <<x, y>> \in down /\ <<y, z>> \in down => <<x, z>> \in down
    OBVIOUS
  <2> HIDE DEF down
  <2> QED BY <2>1, <2>2, FirstExists
<1>3. Min(S) \in S /\ \A o \in S : Min(S) <= o
  BY <1>1 DEF Min
<1>4. Max(S) \in S /\ \A o \in S : Max(S) >= o
  BY <1>2 DEF Max
<1> QED BY <1>3, <1>4

\* The numbers from 1 to n.
LEMMA IntervalSize ==
  ASSUME NEW n \in Nat PROVE IsFiniteSet(1..n) /\ Cardinality(1..n) = n
<1>1. 1 \in Int /\ n \in Int
  OBVIOUS
<1>2. IsFiniteSet(1..n) /\ Cardinality(1..n) = IF 1 > n THEN 0 ELSE n - 1 + 1
  BY <1>1, FS_Interval
<1>3. (IF 1 > n THEN 0 ELSE n - 1 + 1) = n
  OBVIOUS
<1> QED BY <1>2, <1>3

LEMMA UnionFinite ==
  ASSUME NEW S, IsFiniteSet(S), NEW T, IsFiniteSet(T) PROVE IsFiniteSet(S \cup T)
BY FS_Union

LEMMA TripleFinite == ASSUME NEW x, NEW y, NEW z PROVE IsFiniteSet({x, y, z})
<1>1. IsFiniteSet({x}) /\ IsFiniteSet({y}) /\ IsFiniteSet({z})
  BY FS_Singleton
<1>2. IsFiniteSet({x} \cup {y})
  BY <1>1, UnionFinite
<1>3. IsFiniteSet(({x} \cup {y}) \cup {z})
  BY <1>1, <1>2, UnionFinite
<1>4. ({x} \cup {y}) \cup {z} = {x, y, z}
  OBVIOUS
<1> QED BY <1>3, <1>4

\* What a function makes of a finite set is finite.
LEMMA ImageFinite ==
  ASSUME NEW S, IsFiniteSet(S), NEW f
  PROVE  IsFiniteSet({f[x] : x \in S})
<1> DEFINE T == {f[x] : x \in S}
           g == [x \in S |-> f[x]]
<1>1. g \in Surjection(S, T)
  BY DEF Surjection
<1> QED BY <1>1, FS_Surjection

----------------------------------------------------------------------------
(* Recursion: f[0] is z and the k-th value follows from the one before by   *)
(* d[k].  A recursive function of a module is a CHOOSE; the last lemma      *)
(* shows that there is something to choose.                                 *)

Follows(f, z, d, n) == f[0] = z /\ \A k \in 1..n : f[k] = d[k][f[k - 1]]

LEMMA FollowersAgree ==
  ASSUME NEW z, NEW d, NEW n \in Nat, NEW m \in Nat, NEW f, NEW g,
         Follows(f, z, d, n), Follows(g, z, d, m)
  PROVE  \A k \in Nat : k <= n /\ k <= m => f[k] = g[k]
<1> DEFINE S == {k \in Nat : k <= n /\ k <= m => f[k] = g[k]}
<1>1. 0 \in S
  BY DEF Follows
<1>2. ASSUME NEW k \in S PROVE k + 1 \in S
  <2> SUFFICES ASSUME k + 1 <= n, k + 1 <= m PROVE f[k + 1] = g[k + 1]
    OBVIOUS
  <2>1. k + 1 \in 1..n /\ k + 1 \in 1..m /\ (k + 1) - 1 = k /\ f[k] = g[k]
    OBVIOUS
  <2> QED BY <2>1 DEF Follows
<1>3. S \subseteq Nat
  OBVIOUS
<1> HIDE DEF S
<1>4. S = Nat
  BY <1>1, <1>2, <1>3, NatSetInduction
<1> QED BY <1>4 DEF S

LEMMA FollowersExist ==
  ASSUME NEW S, NEW z \in S, NEW d \in [Nat -> [S -> S]]
  PROVE  \A n \in Nat : \E f \in [0..n -> S] : Follows(f, z, d, n)
<1> DEFINE N == {n \in Nat : \E f \in [0..n -> S] : Follows(f, z, d, n)}
<1>1. 0 \in N
  <2> DEFINE f == [k \in 0..0 |-> z]
  <2>1. f \in [0..0 -> S] /\ Follows(f, z, d, 0)
    BY DEF Follows
  <2> HIDE DEF f
  <2> QED BY <2>1
<1>2. ASSUME NEW n \in N PROVE n + 1 \in N
  <2>1. PICK f \in [0..n -> S] : Follows(f, z, d, n)
    OBVIOUS
  <2> DEFINE g == [k \in 0..n + 1 |-> IF k = n + 1 THEN d[n + 1][f[n]] ELSE f[k]]
  <2>2. f[n] \in S /\ d[n + 1][f[n]] \in S
    OBVIOUS
  <2>3. g \in [0..n + 1 -> S]
    BY <2>2
  <2>4. g[0] = z
    BY <2>1 DEF Follows
  <2>5. g[n + 1] = d[n + 1][g[n]]
    OBVIOUS
  <2>6. ASSUME NEW k \in 1..n PROVE g[k] = d[k][g[k - 1]]
    <3>1. g[k] = f[k] /\ g[k - 1] = f[k - 1]
      OBVIOUS
    <3> QED BY <2>1, <3>1 DEF Follows
  <2>7. \A k \in 1..n + 1 : k \in 1..n \/ k = n + 1
    OBVIOUS
  <2>8. (n + 1) - 1 = n
    OBVIOUS
  <2> HIDE DEF g
  <2>9. Follows(g, z, d, n + 1)
    BY <2>4, <2>5, <2>6, <2>7, <2>8 DEF Follows
  <2> QED BY <2>3, <2>9
<1>3. N \subseteq Nat
  OBVIOUS
<1> HIDE DEF N
<1>4. N = Nat
  BY <1>1, <1>2, <1>3, NatSetInduction
<1> QED BY <1>4 DEF N

Stepwise(d, S) == d \in [Nat -> [S -> S]]

Recurs(f, S, z, d) ==
  f \in [Nat -> S] /\ f[0] = z /\ \A k \in Nat \ {0} : f[k] = d[k][f[k - 1]]

LEMMA RecursionOnNat ==
  ASSUME NEW S, NEW z \in S, NEW d, Stepwise(d, S)
  PROVE  \E f : Recurs(f, S, z, d)
<1> DEFINE of(n) == CHOOSE f : f \in [0..n -> S] /\ Follows(f, z, d, n)
           g == [n \in Nat |-> of(n)[n]]
<1>1. ASSUME NEW n \in Nat PROVE of(n) \in [0..n -> S] /\ Follows(of(n), z, d, n)
  BY FollowersExist DEF Stepwise
<1> HIDE DEF of
<1>2. ASSUME NEW n \in Nat PROVE of(n)[n] \in S
  BY <1>1
<1>3. g \in [Nat -> S]
  BY <1>2
<1>4. g[0] = z
  BY <1>1 DEF Follows
<1>5. ASSUME NEW k \in Nat \ {0} PROVE g[k] = d[k][g[k - 1]]
  <2>1. k - 1 \in Nat /\ k - 1 <= k
    OBVIOUS
  <2>2. Follows(of(k), z, d, k) /\ Follows(of(k - 1), z, d, k - 1)
    BY <1>1, <2>1
  <2>3. of(k)[k] = d[k][of(k)[k - 1]]
    BY <2>2 DEF Follows
  <2>4. of(k)[k - 1] = of(k - 1)[k - 1]
    BY <2>1, <2>2, FollowersAgree
  <2> QED BY <2>1, <2>3, <2>4
<1> HIDE DEF g
<1> QED BY <1>3, <1>4, <1>5 DEF Recurs

\* The same for a function of 0..n.
RecursTo(f, n, S, z, d) ==
  f \in [0..n -> S] /\ f[0] = z /\ \A i \in 1..n : f[i] = d[i][f[i - 1]]

LEMMA RecursionUpTo ==
  ASSUME NEW S, NEW z \in S, NEW d, Stepwise(d, S), NEW n \in Nat
  PROVE  \E f : RecursTo(f, n, S, z, d)
<1>1. PICK g : Recurs(g, S, z, d)
  BY RecursionOnNat
<1> DEFINE f == [i \in 0..n |-> g[i]]
<1>2. f \in [0..n -> S] /\ f[0] = z
  BY <1>1 DEF Recurs
<1>3. ASSUME NEW i \in 1..n PROVE f[i] = d[i][f[i - 1]]
  <2>1. i \in Nat \ {0} /\ i \in 0..n /\ i - 1 \in 0..n
    OBVIOUS
  <2>2. g[i] = d[i][g[i - 1]]
    BY <1>1, <2>1 DEF Recurs
  <2> QED BY <2>1, <2>2
<1> HIDE DEF f
<1> QED BY <1>2, <1>3 DEF RecursTo

----------------------------------------------------------------------------
(* Sums.  SumFunctionOnSet adds up in an order of its own choosing: the      *)
(* lemmas show that the recursion behind it is defined on every finite set  *)
(* and that the order does not matter.                                      *)

First(s) == CHOOSE x \in s : TRUE

\* it adds up the values of g over every subset of S.
Adds(it, g, S) ==
  /\ it \in [SUBSET S -> Nat]
  /\ \A s \in SUBSET S : it[s] = IF s = {} THEN 0 ELSE g[First(s)] + it[s \ {First(s)}]

LEMMA FirstIn == ASSUME NEW s, s # {} PROVE First(s) \in s
BY DEF First

\* What is added up over a set does not depend on the set it is a part of.
LEMMA AddsAgree ==
  ASSUME NEW g, NEW S, IsFiniteSet(S), NEW T, IsFiniteSet(T), NEW i, NEW j,
         Adds(i, g, S), Adds(j, g, T)
  PROVE  \A s \in SUBSET (S \cap T) : i[s] = j[s]
<1> DEFINE C == {s \in SUBSET (S \cap T) : i[s] # j[s]}
<1> SUFFICES ASSUME C # {} PROVE FALSE
  OBVIOUS
<1>1. IsFiniteSet(S \cap T) /\ C \subseteq FiniteSubsetsOf(S \cap T)
  <2>1. IsFiniteSet(S \cap T)
    BY FS_Subset
  <2> QED BY <2>1, FS_FiniteSubsetsOfFinite
<1>2. PICK s \in C : \A u \in C : ~ (<<u, s>> \in StrictSubsetOrdering(S \cap T))
  <2> HIDE DEF C
  <2> QED BY <1>1, FS_StrictSubsetOrderingWellFounded, WFMin
<1> DEFINE u == s \ {First(s)}
<1>3. s # {} /\ s \in SUBSET S /\ s \in SUBSET T
  BY <1>2 DEF Adds
<1>4. u \in SUBSET (S \cap T) /\ u \subseteq s /\ u # s
  BY <1>2, <1>3, FirstIn
<1>5. i[u] = j[u]
  BY <1>2, <1>4 DEF StrictSubsetOrdering
<1>6. i[s] = g[First(s)] + i[u] /\ j[s] = g[First(s)] + j[u]
  BY <1>3 DEF Adds
<1> QED BY <1>2, <1>5, <1>6

\* Every finite set can be added up over: a smallest one that cannot would be
\* its first element and a set that can.
LEMMA AddsExists ==
  ASSUME NEW S, IsFiniteSet(S), NEW g \in [S -> Nat]
  PROVE  \E it : Adds(it, g, S)
<1> DEFINE C == {T \in SUBSET S : ~ \E it : Adds(it, g, T)}
           Of(T) == CHOOSE it : Adds(it, g, T)
<1> SUFFICES ASSUME C # {} PROVE FALSE
  OBVIOUS
<1>1. PICK T \in C : \A U \in C : ~ (<<U, T>> \in StrictSubsetOrdering(S))
  <2> HIDE DEF C
  <2>1. C \subseteq FiniteSubsetsOf(S)
    BY FS_FiniteSubsetsOfFinite DEF C
  <2> QED BY <2>1, FS_StrictSubsetOrderingWellFounded, WFMin
<1>2. ASSUME NEW U \in SUBSET T, U # T PROVE Adds(Of(U), g, U) /\ IsFiniteSet(U)
  <2>1. U \in SUBSET S /\ U \notin C /\ IsFiniteSet(U)
    BY <1>1, <1>2, FS_Subset DEF StrictSubsetOrdering
  <2> QED BY <2>1
<1>3. ASSUME NEW U \in SUBSET T, U # T, U # {}
      PROVE  Of(U)[U] = g[First(U)] + Of(U \ {First(U)})[U \ {First(U)}]
  <2> DEFINE V == U \ {First(U)}
  <2>1. V \in SUBSET T /\ V # T /\ V \in SUBSET (U \cap V) /\ U \in SUBSET U
    BY <1>3, FirstIn
  <2>2. Adds(Of(U), g, U) /\ Adds(Of(V), g, V) /\ IsFiniteSet(U) /\ IsFiniteSet(V)
    BY <1>2, <1>3, <2>1
  <2>3. Of(U)[U] = g[First(U)] + Of(U)[V]
    BY <1>3, <2>1, <2>2 DEF Adds
  <2>4. Of(U)[V] = Of(V)[V]
    <3> HIDE DEF V, Of
    <3> QED BY <2>1, <2>2, AddsAgree
  <2> QED BY <2>3, <2>4
<1>4. ASSUME NEW U \in SUBSET T, U # T PROVE Of(U)[U] \in Nat
  BY <1>2, <1>4 DEF Adds
<1> DEFINE rest == T \ {First(T)}
           total == IF T = {} THEN 0 ELSE g[First(T)] + Of(rest)[rest]
           it == [s \in SUBSET T |-> IF s = T THEN total ELSE Of(s)[s]]
<1>5. T # {} => First(T) \in S /\ rest \in SUBSET T /\ rest # T
  BY <1>1, FirstIn
<1>6. total \in Nat
  <2>1. CASE T # {}
    <3>1. g[First(T)] \in Nat /\ Of(rest)[rest] \in Nat
      BY <1>4, <1>5, <2>1
    <3> HIDE DEF Of, rest
    <3> QED BY <2>1, <3>1
  <2> QED BY <2>1
<1>7. ASSUME NEW s \in SUBSET T
      PROVE  it[s] = IF s = {} THEN 0 ELSE g[First(s)] + it[s \ {First(s)}]
  <2>1. CASE s = T
    BY <1>5, <2>1
  <2>2. CASE s # T /\ s = {}
    <3>1. Adds(Of(s), g, s)
      BY <1>2, <2>2
    <3> QED BY <2>2, <3>1 DEF Adds
  <2>3. CASE s # T /\ s # {}
    <3>1. s \ {First(s)} \in SUBSET T /\ s \ {First(s)} # T
      BY <2>3, FirstIn
    <3>2. Of(s)[s] = g[First(s)] + Of(s \ {First(s)})[s \ {First(s)}]
      BY <1>3, <2>3
    <3> HIDE DEF Of, First
    <3> QED BY <2>3, <3>1, <3>2
  <2> QED BY <2>1, <2>2, <2>3
<1>8. Adds(it, g, T)
  <2> HIDE DEF Of, total
  <2>1. it \in [SUBSET T -> Nat]
    BY <1>4, <1>6
  <2> HIDE DEF it
  <2> QED BY <1>7, <2>1 DEF Adds
<1> QED BY <1>1, <1>8

\* SumFunctionOnSet is what adds up.
LEMMA SumAdds ==
  ASSUME NEW S, IsFiniteSet(S), NEW g \in [S -> Nat]
  PROVE  \E it : Adds(it, g, S) /\ SumFunctionOnSet(g, S) = it[S]
<1> DEFINE body(it) == [s \in SUBSET S |-> IF s = {} THEN 0 ELSE g[First(s)] + it[s \ {First(s)}]]
           sum == CHOOSE it : it = body(it)
<1>1. PICK i : Adds(i, g, S)
  BY AddsExists
<1>2. i = body(i)
  BY <1>1 DEF Adds
<1>3. sum = body(sum)
  <2> HIDE DEF body
  <2> QED BY <1>2
<1>4. ASSUME NEW s \in SUBSET S PROVE sum[s] \in Nat
  <2> DEFINE C == {t \in SUBSET S : sum[t] \notin Nat}
  <2> SUFFICES ASSUME C # {} PROVE FALSE
    OBVIOUS
  <2>1. PICK t \in C : \A u \in C : ~ (<<u, t>> \in StrictSubsetOrdering(S))
    <3> HIDE DEF C
    <3>1. C \subseteq FiniteSubsetsOf(S)
      BY FS_FiniteSubsetsOfFinite DEF C
    <3> QED BY <3>1, FS_StrictSubsetOrderingWellFounded, WFMin
  <2> DEFINE u == t \ {First(t)}
  <2> HIDE DEF sum
  <2>2. sum[t] = IF t = {} THEN 0 ELSE g[First(t)] + sum[u]
    BY <1>3, <2>1
  <2>3. t # {} /\ First(t) \in S /\ u \in SUBSET S /\ u # t /\ u \subseteq t
    BY <2>1, <2>2, FirstIn
  <2>4. sum[u] \in Nat
    BY <2>1, <2>3 DEF StrictSubsetOrdering
  <2> QED BY <2>1, <2>2, <2>3, <2>4
<1>5. Adds(sum, g, S)
  BY <1>3, <1>4 DEF Adds
<1>6. SumFunctionOnSet(g, S) = sum[S]
  BY DEF SumFunctionOnSet, FoldFunctionOnSet, MapThenFoldSet, First
<1> QED BY <1>5, <1>6

\* One element more.
LEMMA SumTakesOut ==
  ASSUME NEW S, IsFiniteSet(S), NEW it, NEW g \in [S -> Nat], Adds(it, g, S)
  PROVE  \A T \in SUBSET S : \A v \in T : it[T] = g[v] + it[T \ {v}]
<1> DEFINE C == {T \in SUBSET S : \E v \in T : it[T] # g[v] + it[T \ {v}]}
<1> SUFFICES ASSUME C # {} PROVE FALSE
  OBVIOUS
<1>1. PICK T \in C : \A U \in C : ~ (<<U, T>> \in StrictSubsetOrdering(S))
  <2> HIDE DEF C
  <2>1. C \subseteq FiniteSubsetsOf(S)
    BY FS_FiniteSubsetsOfFinite DEF C
  <2> QED BY <2>1, FS_StrictSubsetOrderingWellFounded, WFMin
<1>2. PICK v \in T : it[T] # g[v] + it[T \ {v}]
  BY <1>1
<1> DEFINE x == First(T)
           rest == T \ {x}
           both == T \ {v, x}
<1>3. x \in T /\ T \in SUBSET S
  BY <1>1, <1>2, FirstIn
<1>4. it[T] = g[x] + it[rest]
  BY <1>2, <1>3 DEF Adds
<1>5. x # v
  BY <1>2, <1>4
<1>6. ASSUME NEW U \in SUBSET T, U # T, NEW y \in U PROVE it[U] = g[y] + it[U \ {y}]
  BY <1>1, <1>3, <1>6 DEF StrictSubsetOrdering
<1>7. it[rest] = g[v] + it[both]
  <2>1. rest \ {v} = both /\ v \in rest /\ rest \in SUBSET T /\ rest # T
    BY <1>2, <1>3, <1>5
  <2> QED BY <1>6, <2>1
<1>8. it[T \ {v}] = g[x] + it[both]
  <2>1. (T \ {v}) \ {x} = both /\ x \in T \ {v} /\ T \ {v} \in SUBSET T /\ T \ {v} # T
    BY <1>2, <1>3, <1>5
  <2> QED BY <1>6, <2>1
<1>9. g[x] \in Nat /\ g[v] \in Nat /\ it[both] \in Nat
  BY <1>2, <1>3 DEF Adds
<1> HIDE DEF x, rest, both
<1> QED BY <1>2, <1>4, <1>7, <1>8, <1>9

\* Sums of functions that agree are equal.
LEMMA SumAgree ==
  ASSUME NEW S, IsFiniteSet(S), NEW T, IsFiniteSet(T), NEW U \in SUBSET (S \cap T),
         NEW g \in [S -> Nat], NEW h \in [T -> Nat], \A x \in U : g[x] = h[x],
         NEW i, Adds(i, g, S), NEW j, Adds(j, h, T)
  PROVE  i[U] = j[U]
<1> DEFINE k == [s \in SUBSET U |-> i[s]]
           m == [s \in SUBSET U |-> j[s]]
<1>1. \A s \in SUBSET U : s \in SUBSET S /\ s \in SUBSET T
  OBVIOUS
<1>2. ASSUME NEW s \in SUBSET U, s # {} PROVE First(s) \in U /\ s \ {First(s)} \in SUBSET U
  BY <1>2, FirstIn
<1>3. Adds(k, g, U)
  BY <1>1, <1>2 DEF Adds
<1>4. Adds(m, g, U)
  BY <1>1, <1>2 DEF Adds
<1>5. IsFiniteSet(U) /\ U \in SUBSET (U \cap U)
  BY FS_Subset
<1>6. k[U] = m[U]
  BY <1>3, <1>4, <1>5, AddsAgree
<1> QED BY <1>6

LEMMA SumType ==
  ASSUME NEW S, IsFiniteSet(S), NEW g \in [S -> Nat]
  PROVE  SumFunction(g) \in Nat /\ (S = {} => SumFunction(g) = 0)
<1>1. PICK it : Adds(it, g, S) /\ SumFunctionOnSet(g, S) = it[S]
  BY SumAdds
<1>2. SumFunction(g) = it[S]
  BY <1>1 DEF SumFunction
<1> QED BY <1>1, <1>2 DEF Adds

\* One argument less, whichever it is.
LEMMA SumTakeOut ==
  ASSUME NEW S, IsFiniteSet(S), NEW g \in [S -> Nat], NEW v \in S,
         NEW h \in [S \ {v} -> Nat], \A y \in S \ {v} : h[y] = g[y]
  PROVE  SumFunction(g) = g[v] + SumFunction(h)
<1> DEFINE R == S \ {v}
<1>1. PICK i : Adds(i, g, S) /\ SumFunctionOnSet(g, S) = i[S]
  BY SumAdds
<1>2. IsFiniteSet(R) /\ R \in SUBSET (S \cap R)
  BY FS_RemoveElement
<1>3. h \in [R -> Nat] /\ \A y \in R : g[y] = h[y]
  OBVIOUS
<1>4. PICK j : Adds(j, h, R) /\ SumFunctionOnSet(h, R) = j[R]
  <2> HIDE DEF R
  <2> QED BY <1>2, <1>3, SumAdds
<1>5. i[S] = g[v] + i[R]
  BY <1>1, SumTakesOut
<1>6. i[R] = j[R]
  <2> HIDE DEF R
  <2> QED BY <1>1, <1>2, <1>3, <1>4, SumAgree
<1>7. SumFunction(g) = i[S] /\ SumFunction(h) = j[R]
  BY <1>1, <1>4 DEF SumFunction
<1> QED BY <1>5, <1>6, <1>7

\* A sum lies between the number of its terms times a bound below and above.
LEMMA SumBetween ==
  ASSUME NEW S, IsFiniteSet(S), NEW g \in [S -> Nat], NEW lo \in Nat, NEW hi \in Nat,
         \A x \in S : lo <= g[x] /\ g[x] <= hi
  PROVE  Cardinality(S) * lo <= SumFunction(g) /\ SumFunction(g) <= Cardinality(S) * hi
<1> DEFINE part(T) == [x \in T |-> g[x]]
           F == {T \in SUBSET S : /\ Cardinality(T) * lo <= SumFunction(part(T))
                                  /\ SumFunction(part(T)) <= Cardinality(T) * hi}
<1>1. {} \in F
  <2>1. part({}) \in [{} -> Nat] /\ IsFiniteSet({}) /\ Cardinality({}) = 0
    BY FS_EmptySet
  <2>2. SumFunction(part({})) = 0
    BY <2>1, SumType
  <2> HIDE DEF part
  <2> QED BY <2>1, <2>2
<1>2. ASSUME NEW T \in F, NEW x \in S \ T PROVE T \cup {x} \in F
  <2> DEFINE U == T \cup {x}  n == Cardinality(T)  a == SumFunction(part(T))
  <2>1. T \in SUBSET S /\ n * lo <= a /\ a <= n * hi
    BY <1>2
  <2>2. IsFiniteSet(T) /\ IsFiniteSet(U) /\ n \in Nat /\ Cardinality(U) = n + 1
    BY <2>1, FS_Subset, FS_AddElement, FS_CardinalityType
  <2>3. /\ part(U) \in [U -> Nat] /\ part(T) \in [U \ {x} -> Nat] /\ part(T) \in [T -> Nat]
        /\ \A y \in U \ {x} : part(T)[y] = part(U)[y]
        /\ part(U)[x] = g[x]
    BY <2>1
  <2>4. a \in Nat
    BY <2>2, <2>3, SumType
  <2>5. x \in U /\ U \in SUBSET S
    BY <2>1
  <2> HIDE DEF part, U, n
  <2>6. SumFunction(part(U)) = g[x] + a
    BY <2>2, <2>3, <2>5, SumTakeOut
  <2>7. lo <= g[x] /\ g[x] <= hi /\ g[x] \in Nat
    OBVIOUS
  <2>8. (n + 1) * lo = n * lo + lo /\ (n + 1) * hi = n * hi + hi /\ n * lo \in Nat /\ n * hi \in Nat
    BY <2>2
  <2> HIDE DEF a
  <2>9. (n + 1) * lo <= g[x] + a /\ g[x] + a <= (n + 1) * hi
    BY <2>1, <2>4, <2>7, <2>8
  <2> QED BY <2>2, <2>5, <2>6, <2>9 DEF U
<1>3. F = SUBSET S
  <2> HIDE DEF F
  <2>1. F \in SUBSET SUBSET S
    BY DEF F
  <2> QED BY <1>1, <1>2, <2>1, FiniteSetInduction
<1>4. part(S) = g
  OBVIOUS
<1> QED BY <1>3, <1>4

\* A sum goes up by as much as its one argument that changes.
LEMMA SumChange ==
  ASSUME NEW S, IsFiniteSet(S), NEW g \in [S -> Nat], NEW v \in S, NEW h \in [S -> Nat],
         \A y \in S \ {v} : h[y] = g[y]
  PROVE  SumFunction(h) = SumFunction(g) - g[v] + h[v]
<1> DEFINE r == [y \in S \ {v} |-> g[y]]
<1>1. r \in [S \ {v} -> Nat] /\ \A y \in S \ {v} : r[y] = g[y] /\ r[y] = h[y]
  OBVIOUS
<1>2. IsFiniteSet(S \ {v})
  BY FS_RemoveElement
<1> HIDE DEF r
<1>3. SumFunction(g) = g[v] + SumFunction(r) /\ SumFunction(h) = h[v] + SumFunction(r)
  BY <1>1, SumTakeOut
<1>4. SumFunction(r) \in Nat /\ g[v] \in Nat /\ h[v] \in Nat
  BY <1>1, <1>2, SumType
<1> QED BY <1>3, <1>4

----------------------------------------------------------------------------
(* Queues *)

LEMMA SeqOfSubset ==
  ASSUME NEW T, NEW S, S \subseteq T, NEW s \in Seq(S)
  PROVE  s \in Seq(T)
OBVIOUS

LEMMA AppendAt ==
  ASSUME NEW S, NEW s \in Seq(S), NEW e \in S
  PROVE  /\ Append(s, e) \in Seq(S) /\ Len(Append(s, e)) = Len(s) + 1
         /\ Append(s, e)[Len(s) + 1] = e
         /\ \A i \in 1..Len(s) : Append(s, e)[i] = s[i]
OBVIOUS

\* What a concatenation holds.
LEMMA ConcatAt ==
  ASSUME NEW S, NEW u \in Seq(S), NEW v \in Seq(S)
  PROVE  /\ u \o v \in Seq(S) /\ Len(u \o v) = Len(u) + Len(v)
         /\ \A i \in 1..Len(u) : (u \o v)[i] = u[i]
         /\ \A i \in 1..Len(v) : (u \o v)[Len(u) + i] = v[i]
OBVIOUS

\* Appending adds the element.
LEMMA AppendToSet ==
  ASSUME NEW S, NEW s \in Seq(S), NEW e \in S
  PROVE  ToSet(Append(s, e)) = ToSet(s) \cup {e}
<1>1. ASSUME NEW x \in ToSet(s) PROVE x \in ToSet(Append(s, e))
  BY <1>1 DEF ToSet
<1>2. e \in ToSet(Append(s, e))
  <2>1. Len(s) + 1 \in DOMAIN Append(s, e) /\ Append(s, e)[Len(s) + 1] = e
    OBVIOUS
  <2> QED BY <2>1 DEF ToSet
<1>3. ASSUME NEW x \in ToSet(Append(s, e)) PROVE x \in ToSet(s) \cup {e}
  <2>1. PICK i \in DOMAIN Append(s, e) : x = Append(s, e)[i]
    BY <1>3 DEF ToSet
  <2>2. CASE i = Len(s) + 1
    BY <2>1, <2>2
  <2>3. CASE i # Len(s) + 1
    <3>1. i \in DOMAIN s /\ x = s[i]
      BY <2>1, <2>3
    <3> QED BY <3>1 DEF ToSet
  <2> QED BY <2>2, <2>3
<1> QED BY <1>1, <1>2, <1>3

\* The head is all that the tail leaves out.
LEMMA TailToSet ==
  ASSUME NEW S, NEW s \in Seq(S), s # <<>>
  PROVE  ToSet(s) = ToSet(Tail(s)) \cup {Head(s)}
<1>1. ASSUME NEW x \in ToSet(Tail(s)) PROVE x \in ToSet(s)
  <2>1. PICK i \in DOMAIN Tail(s) : x = Tail(s)[i]
    BY <1>1 DEF ToSet
  <2>2. i + 1 \in DOMAIN s /\ x = s[i + 1]
    BY <2>1
  <2> QED BY <2>2 DEF ToSet
<1>2. Head(s) \in ToSet(s)
  <2>1. 1 \in DOMAIN s /\ Head(s) = s[1]
    OBVIOUS
  <2> QED BY <2>1 DEF ToSet
<1>3. ASSUME NEW x \in ToSet(s) PROVE x \in ToSet(Tail(s)) \cup {Head(s)}
  <2>1. PICK i \in DOMAIN s : x = s[i]
    BY <1>3 DEF ToSet
  <2>2. CASE i = 1
    BY <2>1, <2>2
  <2>3. CASE i # 1
    <3>1. i - 1 \in DOMAIN Tail(s) /\ x = Tail(s)[i - 1]
      BY <2>1, <2>3
    <3> QED BY <3>1 DEF ToSet
  <2> QED BY <2>2, <2>3
<1> QED BY <1>1, <1>2, <1>3
============================================================================
