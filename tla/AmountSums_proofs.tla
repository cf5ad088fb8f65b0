-------------------------- MODULE AmountSums_proofs -------------------------
(***************************************************************************)
(* The laws of SumOver that the registry's accounting rests on.            *)
(***************************************************************************)
EXTENDS AmountSums, FiniteSetTheorems, FunctionTheorems, TLAPS

\* The units of a function of amounts are the pairs counted for its arguments.
LEMMA UnitsMember ==
  ASSUME NEW f, NEW x, NEW k
  PROVE  <<x, k>> \in Units(f) <=> x \in DOMAIN f /\ k \in 1 .. f[x]
BY DEF Units

\* Every unit is a pair of an argument and a position.
LEMMA UnitsArePairs ==
  ASSUME NEW f, NEW p \in Units(f)
  PROVE  \E x, k : x \in DOMAIN f /\ k \in 1 .. f[x] /\ p = <<x, k>>
BY DEF Units

\* A one-to-one correspondence with a finite set carries its cardinality over.
LEMMA SameCount ==
  ASSUME NEW S, NEW T, IsFiniteSet(S), NEW f \in [S -> T],
         \A p, q \in S : f[p] = f[q] => p = q,
         \A t \in T : \E p \in S : f[p] = t
  PROVE  IsFiniteSet(T) /\ Cardinality(T) = Cardinality(S)
<1>1. f \in Bijection(S, T) BY DEF Bijection, Injection, Surjection, IsInjective
<1> QED BY <1>1, FS_Bijection DEF ExistsBijection

\* Over a finite set, a function of natural amounts has finitely many units, and
\* its sum is a natural number.
LEMMA SumOverType ==
  ASSUME NEW S, IsFiniteSet(S), NEW f \in [S -> Nat]
  PROVE  /\ IsFiniteSet(Units(f))
         /\ SumOver(f) \in Nat
<1> DEFINE U(x) == {x} \X (1 .. f[x])
           g == [x \in S |-> U(x)]
           T == {U(x) : x \in S}
<1>1. \A x \in S : IsFiniteSet(U(x))
  <2> TAKE x \in S
  <2>1. IsFiniteSet(1 .. f[x]) BY FS_Interval
  <2>2. IsFiniteSet({x}) BY FS_Singleton
  <2> QED BY <2>1, <2>2, FS_Product
<1>2. IsFiniteSet(T)
  <2>1. g \in Surjection(S, T) BY DEF Surjection
  <2> QED BY <2>1, FS_Surjection
<1>3. IsFiniteSet(UNION T)
  <2>1. \A t \in T : IsFiniteSet(t) BY <1>1
  <2> QED BY <1>2, <2>1, FS_UNION
<1>4. Units(f) = UNION T BY DEF Units
<1> QED BY <1>3, <1>4, FS_CardinalityType DEF SumOver

\* Sums add up argument by argument.
LEMMA SumOverAdd ==
  ASSUME NEW S, IsFiniteSet(S), NEW f \in [S -> Nat], NEW g \in [S -> Nat]
  PROVE  SumOver([x \in S |-> f[x] + g[x]]) = SumOver(f) + SumOver(g)
<1> DEFINE h == [x \in S |-> f[x] + g[x]]
           Top == {p \in Units(h) : p \notin Units(f)}
           up == [p \in Units(g) |-> <<p[1], p[2] + f[p[1]]>>]
<1>1. h \in [S -> Nat] OBVIOUS
<1>2. /\ IsFiniteSet(Units(f)) /\ IsFiniteSet(Units(g)) /\ IsFiniteSet(Units(h))
      /\ SumOver(f) \in Nat /\ SumOver(g) \in Nat
  BY <1>1, SumOverType
<1>3. Units(f) \subseteq Units(h)
  <2> SUFFICES ASSUME NEW p \in Units(f) PROVE p \in Units(h)
    OBVIOUS
  <2>1. PICK x, k : x \in S /\ k \in 1 .. f[x] /\ p = <<x, k>> BY UnitsArePairs
  <2>2. k \in 1 .. h[x] BY <2>1
  <2> QED BY <2>1, <2>2, UnitsMember
<1>4. up \in [Units(g) -> Top]
  <2> SUFFICES ASSUME NEW p \in Units(g) PROVE up[p] \in Top
    OBVIOUS
  <2>1. PICK x, k : x \in S /\ k \in 1 .. g[x] /\ p = <<x, k>> BY UnitsArePairs
  <2>2. up[p] = <<x, k + f[x]>> BY <2>1
  <2>3. k + f[x] \in 1 .. h[x] /\ k + f[x] \notin 1 .. f[x] BY <2>1
  <2>4. up[p] \in Units(h) /\ up[p] \notin Units(f) BY <2>1, <2>2, <2>3, UnitsMember
  <2> QED BY <2>4
<1>5. ASSUME NEW p \in Units(g), NEW q \in Units(g), up[p] = up[q] PROVE p = q
  <2>1. PICK x, k : x \in S /\ k \in 1 .. g[x] /\ p = <<x, k>> BY UnitsArePairs
  <2>2. PICK y, l : y \in S /\ l \in 1 .. g[y] /\ q = <<y, l>> BY UnitsArePairs
  <2>3. up[p] = <<x, k + f[x]>> /\ up[q] = <<y, l + f[y]>> BY <2>1, <2>2
  <2>4. x = y /\ k + f[x] = l + f[x] BY <2>3, <1>5
  <2> QED BY <2>1, <2>2, <2>4
<1>6. ASSUME NEW t \in Top PROVE \E p \in Units(g) : up[p] = t
  <2>1. PICK x, k : x \in S /\ k \in 1 .. h[x] /\ t = <<x, k>> BY UnitsArePairs
  <2>2. k \notin 1 .. f[x] BY <2>1, UnitsMember
  <2>3. k - f[x] \in 1 .. g[x] BY <2>1, <2>2
  <2>4. <<x, k - f[x]>> \in Units(g) BY <2>1, <2>3, UnitsMember
  <2>5. up[<<x, k - f[x]>>] = <<x, k>> BY <2>1, <2>4
  <2> QED BY <2>1, <2>4, <2>5
<1>7. IsFiniteSet(Top) /\ Cardinality(Top) = SumOver(g)
  <2> HIDE DEF up, Top
  <2> QED BY <1>2, <1>4, <1>5, <1>6, SameCount DEF SumOver
<1>8. Units(h) = Units(f) \union Top /\ Units(f) \intersect Top = {} BY <1>3
<1>9. Cardinality(Units(h)) = Cardinality(Units(f)) + Cardinality(Top) - Cardinality({})
  <2> HIDE DEF h, Top
  <2> QED BY <1>2, <1>7, <1>8, FS_Union
<1> QED BY <1>2, <1>7, <1>9, FS_EmptySet DEF SumOver

\* A function that is d at one argument and zero elsewhere sums to d.
LEMMA SumOverPoint ==
  ASSUME NEW S, NEW a \in S, NEW d \in Nat
  PROVE  SumOver([x \in S |-> IF x = a THEN d ELSE 0]) = d
<1> DEFINE f == [x \in S |-> IF x = a THEN d ELSE 0]
           c == [k \in 1 .. d |-> <<a, k>>]
<1>1. c \in [1 .. d -> Units(f)]
  <2> SUFFICES ASSUME NEW k \in 1 .. d PROVE <<a, k>> \in Units(f)
    OBVIOUS
  <2>1. k \in 1 .. f[a] OBVIOUS
  <2> QED BY <2>1, UnitsMember
<1>2. \A k, l \in 1 .. d : c[k] = c[l] => k = l OBVIOUS
<1>3. ASSUME NEW t \in Units(f) PROVE \E k \in 1 .. d : c[k] = t
  <2>1. PICK x, k : x \in S /\ k \in 1 .. f[x] /\ t = <<x, k>> BY UnitsArePairs
  <2>2. x = a /\ k \in 1 .. d BY <2>1
  <2> QED BY <2>1, <2>2
<1>4. IsFiniteSet(1 .. d) /\ Cardinality(1 .. d) = d BY FS_Interval
<1>5. Cardinality(Units(f)) = Cardinality(1 .. d)
  <2> HIDE DEF c, f
  <2> QED BY <1>1, <1>2, <1>3, <1>4, SameCount
<1> QED BY <1>4, <1>5 DEF SumOver

\* A function that is zero everywhere sums to zero.
LEMMA SumOverZero ==
  ASSUME NEW S
  PROVE  SumOver([x \in S |-> 0]) = 0
<1>1. Units([x \in S |-> 0]) = {}
  <2> SUFFICES ASSUME NEW p \in Units([x \in S |-> 0]) PROVE FALSE
    OBVIOUS
  <2>1. PICK x, k : x \in S /\ k \in 1 .. 0 /\ p = <<x, k>> BY UnitsArePairs
  <2> QED BY <2>1
<1> QED BY <1>1, FS_EmptySet DEF SumOver

\* Changing one argument changes the sum by the difference.
LEMMA SumOverExcept ==
  ASSUME NEW S, IsFiniteSet(S), NEW f \in [S -> Nat], NEW a \in S, NEW v \in Nat
  PROVE  SumOver([f EXCEPT ![a] = v]) = SumOver(f) - f[a] + v
<1> DEFINE z == [f EXCEPT ![a] = 0]
           P(d) == [x \in S |-> IF x = a THEN d ELSE 0]
<1>1. z \in [S -> Nat] /\ P(f[a]) \in [S -> Nat] /\ P(v) \in [S -> Nat] OBVIOUS
<1>2. f = [x \in S |-> z[x] + P(f[a])[x]] OBVIOUS
<1>3. [f EXCEPT ![a] = v] = [x \in S |-> z[x] + P(v)[x]]
  <2>1. \A x \in S : [f EXCEPT ![a] = v][x] = z[x] + P(v)[x]
    <3> TAKE x \in S
    <3>1. CASE x = a BY <3>1
    <3>2. CASE x # a
      <4>1. z[x] = f[x] /\ P(v)[x] = 0 /\ [f EXCEPT ![a] = v][x] = f[x] BY <3>2
      <4> QED BY <4>1
    <3> QED BY <3>1, <3>2
  <2>2. [f EXCEPT ![a] = v] \in [S -> Nat] OBVIOUS
  <2> HIDE DEF z, P
  <2> QED BY <2>1, <2>2
<1>4. SumOver(f) = SumOver(z) + SumOver(P(f[a]))
  <2> HIDE DEF z, P
  <2> QED BY <1>1, <1>2, SumOverAdd
<1>5. SumOver([f EXCEPT ![a] = v]) = SumOver(z) + SumOver(P(v))
  <2> HIDE DEF z, P
  <2> QED BY <1>1, <1>3, SumOverAdd
<1>6. SumOver(P(f[a])) = f[a] /\ SumOver(P(v)) = v BY SumOverPoint
<1>7. SumOver(z) \in Nat
  <2> HIDE DEF z
  <2> QED BY <1>1, SumOverType
<1> HIDE DEF z, P
<1> QED BY <1>4, <1>5, <1>6, <1>7

\* One argument's amount is at most the sum.
LEMMA SumOverBound ==
  ASSUME NEW S, IsFiniteSet(S), NEW f \in [S -> Nat], NEW a \in S
  PROVE  f[a] <= SumOver(f)
<1>1. [f EXCEPT ![a] = 0] \in [S -> Nat] OBVIOUS
<1>2. SumOver([f EXCEPT ![a] = 0]) \in Nat /\ SumOver(f) \in Nat BY <1>1, SumOverType
<1>3. SumOver([f EXCEPT ![a] = 0]) = SumOver(f) - f[a] + 0
  <2>1. 0 \in Nat OBVIOUS
  <2> QED BY <2>1, SumOverExcept
<1> QED BY <1>2, <1>3

\* Summing over fewer arguments gives no more.
LEMMA SumOverSubset ==
  ASSUME NEW S, IsFiniteSet(S), NEW f \in [S -> Nat], NEW T \in SUBSET S
  PROVE  SumOver([x \in T |-> f[x]]) <= SumOver(f)
<1> DEFINE g == [x \in T |-> f[x]]
<1>1. Units(g) \subseteq Units(f)
  <2> SUFFICES ASSUME NEW p \in Units(g) PROVE p \in Units(f)
    OBVIOUS
  <2>1. PICK x, k : x \in T /\ k \in 1 .. f[x] /\ p = <<x, k>> BY UnitsArePairs
  <2> QED BY <2>1, UnitsMember
<1>2. IsFiniteSet(Units(f)) BY SumOverType
<1>3. Cardinality(Units(g)) <= Cardinality(Units(f)) BY <1>1, <1>2, FS_Subset
<1> QED BY <1>3 DEF SumOver

\* Renaming the arguments one to one leaves the sum unchanged.
LEMMA SumOverReindex ==
  ASSUME NEW S, IsFiniteSet(S), NEW T, NEW f \in [S -> Nat], NEW g \in [T -> Nat],
         NEW b \in Bijection(S, T),
         \A x \in S : f[x] = g[b[x]]
  PROVE  SumOver(f) = SumOver(g)
<1>0. /\ b \in [S -> T]
      /\ \A x, y \in S : b[x] = b[y] => x = y
      /\ \A t \in T : \E x \in S : b[x] = t
  BY DEF Bijection, Injection, Surjection, IsInjective
<1> DEFINE c == [p \in Units(f) |-> <<b[p[1]], p[2]>>]
<1>1. c \in [Units(f) -> Units(g)]
  <2> SUFFICES ASSUME NEW p \in Units(f) PROVE c[p] \in Units(g)
    OBVIOUS
  <2>1. PICK x, k : x \in S /\ k \in 1 .. f[x] /\ p = <<x, k>> BY UnitsArePairs
  <2>2. c[p] = <<b[x], k>> /\ k \in 1 .. g[b[x]] /\ b[x] \in T BY <1>0, <2>1
  <2> QED BY <2>2, UnitsMember
<1>2. ASSUME NEW p \in Units(f), NEW q \in Units(f), c[p] = c[q] PROVE p = q
  <2>1. PICK x, k : x \in S /\ k \in 1 .. f[x] /\ p = <<x, k>> BY UnitsArePairs
  <2>2. PICK y, l : y \in S /\ l \in 1 .. f[y] /\ q = <<y, l>> BY UnitsArePairs
  <2>3. c[p] = <<b[x], k>> /\ c[q] = <<b[y], l>> BY <2>1, <2>2
  <2>4. b[x] = b[y] /\ k = l BY <2>3, <1>2
  <2> QED BY <1>0, <2>1, <2>2, <2>4
<1>3. ASSUME NEW t \in Units(g) PROVE \E p \in Units(f) : c[p] = t
  <2>1. PICK y, k : y \in T /\ k \in 1 .. g[y] /\ t = <<y, k>> BY UnitsArePairs
  <2>2. PICK x \in S : b[x] = y BY <1>0, <2>1
  <2>3. <<x, k>> \in Units(f) BY <2>1, <2>2, UnitsMember
  <2>4. c[<<x, k>>] = t BY <2>1, <2>2, <2>3
  <2> QED BY <2>3, <2>4
<1>4. IsFiniteSet(Units(f)) BY SumOverType
<1> HIDE DEF c
<1> QED BY <1>1, <1>2, <1>3, <1>4, SameCount DEF SumOver

\* The part of f whose arguments have key m.
PartOf(f, key, m) == [x \in {y \in DOMAIN f : key[y] = m} |-> f[x]]

\* Summing part by part, for any finite partition by key, gives the whole sum.
LEMMA SumOverPartition ==
  ASSUME NEW S, IsFiniteSet(S), NEW f \in [S -> Nat],
         NEW M, IsFiniteSet(M), NEW key \in [S -> M],
         NEW h \in [M -> Nat], \A m \in M : h[m] = SumOver(PartOf(f, key, m))
  PROVE  SumOver(h) = SumOver(f)
<1> DEFINE Part(m) == {y \in S : key[y] = m}
           part(m) == [x \in Part(m) |-> f[x]]
           g == [m \in M |-> SumOver(part(m))]
           Count(m) == Bijection(1 .. g[m], Units(part(m)))
           nth == [m \in M |-> CHOOSE b : b \in Count(m)]
           c == [p \in Units(g) |-> nth[p[1]][p[2]]]
<1>1. \A m \in M : IsFiniteSet(Units(part(m))) /\ SumOver(part(m)) \in Nat
  <2> TAKE m \in M
  <2>1. IsFiniteSet(Part(m)) BY FS_Subset
  <2>2. part(m) \in [Part(m) -> Nat] OBVIOUS
  <2> HIDE DEF part, Part
  <2> QED BY <2>1, <2>2, SumOverType
<1>2. g \in [M -> Nat] BY <1>1
<1>3. ASSUME NEW m \in M PROVE nth[m] \in Count(m)
  <2>1. ExistsBijection(1 .. Cardinality(Units(part(m))), Units(part(m)))
    <3> HIDE DEF part
    <3> QED BY <1>1, FS_CardinalityType
  <2>2. \E b : b \in Count(m) BY <2>1 DEF ExistsBijection, SumOver
  <2> QED BY <2>2
<1>4. ASSUME NEW m \in M, NEW x, NEW k
      PROVE  <<x, k>> \in Units(part(m)) <=> x \in S /\ key[x] = m /\ k \in 1 .. f[x]
  BY UnitsMember
<1>5. \A p \in Units(g) : \E m, j : m \in M /\ j \in 1 .. g[m] /\ p = <<m, j>>
  <2>1. DOMAIN g = M OBVIOUS
  <2> HIDE DEF g
  <2> QED BY <2>1, UnitsArePairs
<1>6. ASSUME NEW m \in M, NEW j \in 1 .. g[m]
      PROVE  /\ nth[m][j] \in Units(part(m))
             /\ <<m, j>> \in Units(g) /\ c[<<m, j>>] = nth[m][j]
             /\ \E x, k : x \in S /\ key[x] = m /\ k \in 1 .. f[x] /\ nth[m][j] = <<x, k>>
  <2>1. nth[m][j] \in Units(part(m))
    <3> HIDE DEF part, g, nth
    <3> QED BY <1>3 DEF Bijection, Injection
  <2>2. <<m, j>> \in Units(g)
    <3>1. DOMAIN g = M OBVIOUS
    <3> HIDE DEF g
    <3> QED BY <3>1, UnitsMember
  <2>3. \E x, k : x \in DOMAIN part(m) /\ k \in 1 .. part(m)[x] /\ nth[m][j] = <<x, k>>
    <3> HIDE DEF part, g, nth
    <3> QED BY <2>1, UnitsArePairs
  <2>4. c[<<m, j>>] = nth[m][j]
    <3> HIDE DEF g, nth
    <3> QED BY <2>2
  <2>5. DOMAIN part(m) = Part(m) /\ \A x \in Part(m) : part(m)[x] = f[x] OBVIOUS
  <2>6. \E x, k : x \in Part(m) /\ k \in 1 .. f[x] /\ nth[m][j] = <<x, k>>
    <3> HIDE DEF part, g, nth, Part
    <3> QED BY <2>3, <2>5
  <2> QED
    <3> HIDE DEF part, g, nth, c
    <3> QED BY <2>1, <2>2, <2>4, <2>6
<1>7. ASSUME NEW m \in M
      PROVE  /\ \A i, j \in 1 .. g[m] : nth[m][i] = nth[m][j] => i = j
             /\ \A t \in Units(part(m)) : \E j \in 1 .. g[m] : nth[m][j] = t
  <2> HIDE DEF part, g, nth
  <2> QED BY <1>3 DEF Bijection, Injection, Surjection, IsInjective
<1>8. c \in [Units(g) -> Units(f)]
  <2> SUFFICES ASSUME NEW p \in Units(g) PROVE c[p] \in Units(f)
    BY DEF c
  <2> HIDE DEF g, nth, c, part, Part
  <2>1. PICK m, j : m \in M /\ j \in 1 .. g[m] /\ p = <<m, j>> BY <1>5
  <2>2. PICK x, k : x \in S /\ k \in 1 .. f[x] /\ nth[m][j] = <<x, k>> BY <1>6, <2>1
  <2> QED BY <1>6, <2>1, <2>2, UnitsMember
<1>9. ASSUME NEW p \in Units(g), NEW q \in Units(g), c[p] = c[q] PROVE p = q
  <2> HIDE DEF g, nth, c, part, Part
  <2>1. PICK m, j : m \in M /\ j \in 1 .. g[m] /\ p = <<m, j>> BY <1>5
  <2>2. PICK n, i : n \in M /\ i \in 1 .. g[n] /\ q = <<n, i>> BY <1>5
  <2>3. nth[m][j] = nth[n][i] BY <1>6, <1>9, <2>1, <2>2
  <2>4. m = n
    <3>1. PICK x, k : key[x] = m /\ nth[m][j] = <<x, k>> BY <1>6, <2>1
    <3>2. PICK y, l : key[y] = n /\ nth[n][i] = <<y, l>> BY <1>6, <2>2
    <3>3. <<x, k>> = <<y, l>> BY <2>3, <3>1, <3>2
    <3>4. x = y BY <3>3
    <3> QED BY <3>1, <3>2, <3>4
  <2>5. i = j BY <1>7, <2>1, <2>2, <2>3, <2>4
  <2> QED BY <2>1, <2>2, <2>4, <2>5
<1>10. ASSUME NEW t \in Units(f) PROVE \E p \in Units(g) : c[p] = t
  <2>1. PICK x, k : x \in S /\ k \in 1 .. f[x] /\ t = <<x, k>> BY UnitsArePairs
  <2>2. key[x] \in M /\ t \in Units(part(key[x])) BY <1>4, <2>1
  <2> HIDE DEF g, nth, c, part, Part
  <2>3. PICK j \in 1 .. g[key[x]] : nth[key[x]][j] = t BY <1>7, <2>2
  <2> QED BY <1>6, <2>2, <2>3
<1>11. IsFiniteSet(Units(g))
  <2> HIDE DEF g
  <2> QED BY <1>2, SumOverType
<1>12. Cardinality(Units(f)) = Cardinality(Units(g))
  <2> HIDE DEF c, g
  <2> QED BY <1>8, <1>9, <1>10, <1>11, SameCount
<1>13. h = g
  <2>1. \A m \in M : PartOf(f, key, m) = part(m) BY DEF PartOf
  <2> HIDE DEF part
  <2> QED BY <2>1
<1> QED BY <1>12, <1>13 DEF SumOver

\* Arguments with nothing to add may be left out of a sum.
LEMMA SumOverSupport ==
  ASSUME NEW S, NEW f \in [S -> Nat], NEW T \in SUBSET S,
         \A x \in S \ T : f[x] = 0
  PROVE  SumOver([x \in T |-> f[x]]) = SumOver(f)
<1> DEFINE g == [x \in T |-> f[x]]
<1>1. Units(g) \subseteq Units(f)
  <2> SUFFICES ASSUME NEW p \in Units(g) PROVE p \in Units(f)
    OBVIOUS
  <2>1. PICK x, k : x \in T /\ k \in 1 .. f[x] /\ p = <<x, k>> BY UnitsArePairs
  <2> QED BY <2>1, UnitsMember
<1>2. Units(f) \subseteq Units(g)
  <2> SUFFICES ASSUME NEW p \in Units(f) PROVE p \in Units(g)
    OBVIOUS
  <2>1. PICK x, k : x \in S /\ k \in 1 .. f[x] /\ p = <<x, k>> BY UnitsArePairs
  <2>2. x \in T /\ k \in 1 .. g[x] BY <2>1
  <2> QED BY <2>1, <2>2, UnitsMember
<1> QED BY <1>1, <1>2 DEF SumOver

\* The entries of a sequence have a natural sum.
LEMMA TotalType ==
  ASSUME NEW R, \A r \in R : r.amount \in Nat, NEW s \in Seq(R)
  PROVE  Total(s) \in Nat
<1>1. IsFiniteSet(DOMAIN s) BY FS_Interval
<1>2. [i \in DOMAIN s |-> s[i].amount] \in [DOMAIN s -> Nat] OBVIOUS
<1> QED BY <1>1, <1>2, SumOverType DEF Total

\* A sum does not depend on where its arguments start counting.
LEMMA SumOverShift ==
  ASSUME NEW m \in Nat, NEW n \in Nat, NEW g \in [(m + 1) .. (m + n) -> Nat]
  PROVE  SumOver([i \in 1 .. n |-> g[i + m]]) = SumOver(g)
<1> DEFINE S == 1 .. n
           T == (m + 1) .. (m + n)
           b == [i \in S |-> i + m]
           f == [i \in S |-> g[i + m]]
<1>1. IsFiniteSet(S) BY FS_Interval
<1>2. b \in Bijection(S, T)
  <2>1. b \in [S -> T] OBVIOUS
  <2>2. \A i, j \in S : b[i] = b[j] => i = j OBVIOUS
  <2>3. \A k \in T : \E i \in S : b[i] = k
    <3> TAKE k \in T
    <3>1. k - m \in S /\ b[k - m] = k OBVIOUS
    <3> QED BY <3>1
  <2> HIDE DEF S, T, b
  <2> QED BY <2>1, <2>2, <2>3 DEF Bijection, Injection, Surjection, IsInjective
<1>3. f \in [S -> Nat] /\ g \in [T -> Nat] OBVIOUS
<1>4. \A i \in S : f[i] = g[b[i]] OBVIOUS
<1>5. SumOver(f) = SumOver(g)
  <2> HIDE DEF S, T, b, f
  <2> QED BY <1>1, <1>2, <1>3, <1>4, SumOverReindex
<1> QED BY <1>5

\* Appending one schedule to another adds their totals.
LEMMA TotalConcat ==
  ASSUME NEW R, \A r \in R : r.amount \in Nat, NEW s \in Seq(R), NEW t \in Seq(R)
  PROVE  Total(s \o t) = Total(s) + Total(t)
<1> DEFINE m == Len(s)
           n == Len(t)
           D == 1 .. (m + n)
           st == s \o t
           Front == 1 .. m
           Back == (m + 1) .. (m + n)
           f == [i \in D |-> IF i \in Front THEN st[i].amount ELSE 0]
           g == [i \in D |-> IF i \in Back THEN st[i].amount ELSE 0]
           ta == [i \in 1 .. n |-> t[i].amount]
           gb == [i \in Back |-> g[i]]
<1>1. /\ m \in Nat /\ n \in Nat /\ DOMAIN s = 1 .. m /\ DOMAIN t = 1 .. n
      /\ st \in Seq(R) /\ DOMAIN st = D
      /\ \A i \in 1 .. m : st[i] = s[i] /\ s[i] \in R
      /\ \A i \in 1 .. n : st[i + m] = t[i] /\ t[i] \in R
  OBVIOUS
<1> HIDE DEF m, n, st
<1>2. \A i \in D : st[i].amount \in Nat BY <1>1
<1>3. f \in [D -> Nat] /\ g \in [D -> Nat] BY <1>2
<1>4. IsFiniteSet(D) BY <1>1, FS_Interval
<1>5. [i \in D |-> st[i].amount] = [i \in D |-> f[i] + g[i]]
  <2>1. \A i \in D : st[i].amount = f[i] + g[i] BY <1>1, <1>2
  <2> QED BY <2>1
<1>6. Total(st) = SumOver(f) + SumOver(g)
  <2>1. Total(st) = SumOver([i \in D |-> st[i].amount]) BY <1>1 DEF Total
  <2> HIDE DEF f, g, D
  <2>2. SumOver([i \in D |-> f[i] + g[i]]) = SumOver(f) + SumOver(g)
    BY <1>3, <1>4, SumOverAdd
  <2> QED BY <1>5, <2>1, <2>2
<1>7. SumOver(f) = Total(s)
  <2>1. [i \in Front |-> f[i]] = [i \in DOMAIN s |-> s[i].amount] BY <1>1
  <2>2. Front \in SUBSET D /\ \A i \in D \ Front : f[i] = 0 BY <1>1
  <2> HIDE DEF f, D, Front
  <2> QED BY SMTT(60), <1>3, <2>1, <2>2, SumOverSupport DEF Total
<1>8. SumOver(gb) = SumOver(g)
  <2>1. Back \in SUBSET D /\ \A i \in D \ Back : g[i] = 0 BY <1>1
  <2> HIDE DEF g, D, Back
  <2> QED BY <1>3, <2>1, SumOverSupport
<1>9. SumOver(ta) = SumOver(gb)
  <2>1. ta \in [1 .. n -> Nat] /\ gb \in [(m + 1) .. (m + n) -> Nat] BY <1>1, <1>2
  <2>2. ta = [i \in 1 .. n |-> gb[i + m]] BY <1>1
  <2> HIDE DEF ta, gb
  <2> QED BY <1>1, <2>1, <2>2, SumOverShift
<1>10. SumOver(ta) = Total(t) BY <1>1 DEF Total
<1> QED BY <1>6, <1>7, <1>8, <1>9, <1>10 DEF st

-----------------------------------------------------------------------------
(* Induction, in the form of a set that contains zero and is closed under  *)
(* successor: were a number left out, adding one would inject what the set *)
(* holds below it into that part without zero.                             *)

\* Induction over the numbers, of a set that holds zero and with each number the next.
LEMMA NatSetInduction ==
  ASSUME NEW S \in SUBSET Nat, 0 \in S, \A k \in S : k + 1 \in S
  PROVE  S = Nat
<1> SUFFICES ASSUME NEW n \in Nat, n \notin S PROVE FALSE
  OBVIOUS
<1> DEFINE T == S \intersect (0 .. n)
           U == T \ {0}
           up == [k \in T |-> k + 1]
<1>1. IsFiniteSet(T) /\ IsFiniteSet(U)
  <2>1. IsFiniteSet(0 .. n) /\ T \subseteq 0 .. n /\ U \subseteq 0 .. n BY FS_Interval
  <2> HIDE DEF T, U
  <2> QED BY <2>1, FS_Subset
<1>2. 0 \in T OBVIOUS
<1>3. ASSUME NEW k \in T PROVE k + 1 \in U
  <2>1. k # n /\ k <= n /\ k \in Nat OBVIOUS
  <2>2. k + 1 \in 0 .. n /\ k + 1 # 0 BY <2>1
  <2> QED BY <2>2
<1>4. up \in [T -> U] BY <1>3
<1>5. \A i, j \in T : up[i] = up[j] => i = j OBVIOUS
<1>6. Cardinality(T) <= Cardinality(U)
  <2> HIDE DEF T, U, up
  <2>1. up \in Injection(T, U) BY <1>4, <1>5 DEF Injection, IsInjective
  <2> QED BY <1>1, <2>1, FS_Injection DEF ExistsInjection
<1>7. Cardinality(U) = Cardinality(T) - 1 /\ Cardinality(T) \in Nat
  <2> HIDE DEF T
  <2> QED BY <1>1, <1>2, FS_RemoveElement, FS_CardinalityType
<1> HIDE DEF T, U
<1>8. FALSE BY <1>6, <1>7
<1> QED BY <1>8

\* Summing larger amounts gives no less.
LEMMA SumOverMonotone ==
  ASSUME NEW S, IsFiniteSet(S), NEW f \in [S -> Nat], NEW g \in [S -> Nat],
         \A x \in S : f[x] <= g[x]
  PROVE  SumOver(f) <= SumOver(g)
<1>1. Units(f) \subseteq Units(g)
  <2> SUFFICES ASSUME NEW p \in Units(f) PROVE p \in Units(g)
    OBVIOUS
  <2>1. PICK x, k : x \in S /\ k \in 1 .. f[x] /\ p = <<x, k>> BY UnitsArePairs
  <2>2. k \in 1 .. g[x] BY <2>1
  <2> QED BY <2>1, <2>2, UnitsMember
<1>2. IsFiniteSet(Units(g)) BY SumOverType
<1> QED BY <1>1, <1>2, FS_Subset DEF SumOver

\* Scaling every amount scales the sum.
LEMMA SumOverScale ==
  ASSUME NEW S, IsFiniteSet(S), NEW f \in [S -> Nat], NEW c \in Nat
  PROVE  SumOver([x \in S |-> c * f[x]]) = c * SumOver(f)
<1> DEFINE By(k) == [x \in S |-> k * f[x]]
           Good == {k \in Nat : SumOver(By(k)) = k * SumOver(f)}
<1>1. SumOver(f) \in Nat BY SumOverType
<1>2. 0 \in Good
  <2>1. By(0) = [x \in S |-> 0] OBVIOUS
  <2>2. SumOver(By(0)) = 0 BY <2>1, SumOverZero
  <2> HIDE DEF By
  <2> QED BY <1>1, <2>2
<1>3. ASSUME NEW k \in Good PROVE k + 1 \in Good
  <2>1. By(k) \in [S -> Nat] OBVIOUS
  <2>2. By(k + 1) = [x \in S |-> By(k)[x] + f[x]]
    <3>1. \A x \in S : (k + 1) * f[x] = k * f[x] + f[x] OBVIOUS
    <3> QED BY <3>1
  <2> HIDE DEF By
  <2>3. SumOver(By(k + 1)) = SumOver(By(k)) + SumOver(f) BY <2>1, <2>2, SumOverAdd
  <2>4. (k + 1) * SumOver(f) = k * SumOver(f) + SumOver(f) BY <1>1
  <2> QED BY <2>3, <2>4
<1> HIDE DEF Good
<1>4. Good \subseteq Nat BY DEF Good
<1>5. Good = Nat BY <1>2, <1>3, <1>4, NatSetInduction
<1> QED BY <1>5 DEF Good

\* Equal amounts sum to as many times the amount as there are arguments.
LEMMA SumOverSame ==
  ASSUME NEW S, IsFiniteSet(S), NEW c \in Nat
  PROVE  SumOver([x \in S |-> c]) = c * Cardinality(S)
<1> DEFINE one == [x \in S |-> 1]
           pair == [x \in S |-> <<x, 1>>]
<1>1. one \in [S -> Nat] OBVIOUS
<1>2. pair \in [S -> Units(one)]
  <2> SUFFICES ASSUME NEW x \in S PROVE <<x, 1>> \in Units(one)
    OBVIOUS
  <2> QED BY UnitsMember
<1>3. \A x, y \in S : pair[x] = pair[y] => x = y OBVIOUS
<1>4. ASSUME NEW p \in Units(one) PROVE \E x \in S : pair[x] = p
  <2>1. PICK x, k : x \in S /\ k \in 1 .. one[x] /\ p = <<x, k>> BY UnitsArePairs
  <2> QED BY <2>1
<1>5. SumOver(one) = Cardinality(S)
  <2> HIDE DEF one, pair
  <2> QED BY <1>2, <1>3, <1>4, SameCount DEF SumOver
<1>6. [x \in S |-> c] = [x \in S |-> c * one[x]] OBVIOUS
<1> HIDE DEF one
<1> QED BY <1>1, <1>5, <1>6, SumOverScale

\* A set of natural numbers that is not empty has a least one.
LEMMA LeastExists ==
  ASSUME NEW S \in SUBSET Nat, S # {}
  PROVE  \E x \in S : \A y \in S : x <= y
<1> SUFFICES ASSUME \A x \in S : \E y \in S : ~(x <= y) PROVE FALSE OBVIOUS
<1> DEFINE Free == {n \in Nat : \A m \in 0 .. n : m \notin S}
<1>1. 0 \in Free
  <2>1. 0 \notin S OBVIOUS
  <2> QED BY <2>1
<1>2. ASSUME NEW n \in Free PROVE n + 1 \in Free
  <2>1. n + 1 \notin S
    <3> SUFFICES ASSUME n + 1 \in S PROVE FALSE OBVIOUS
    <3>1. PICK y \in S : ~(n + 1 <= y) OBVIOUS
    <3>2. y \in 0 .. n BY <3>1
    <3> QED BY <3>2
  <2>2. \A m \in 0 .. n + 1 : m \in 0 .. n \/ m = n + 1 OBVIOUS
  <2> QED BY <2>1, <2>2
<1>3. Free = Nat
  <2>1. Free \in SUBSET Nat OBVIOUS
  <2> HIDE DEF Free
  <2> QED BY <1>1, <1>2, <2>1, NatSetInduction
<1>4. \A n \in Nat : n \notin S BY <1>3
<1> QED BY <1>4

\* A set of numbers that has a bound has a largest member.
LEMMA LargestExists ==
  ASSUME NEW b \in Nat, NEW S \in SUBSET (0 .. b), S # {}
  PROVE  \E x \in S : \A y \in S : y <= x
<1> DEFINE From == {b - y : y \in S}
<1>1. From \in SUBSET Nat /\ From # {}
  <2>1. \A y \in S : b - y \in Nat OBVIOUS
  <2>2. PICK y \in S : TRUE OBVIOUS
  <2>3. b - y \in From OBVIOUS
  <2> QED BY <2>1, <2>3
<1>2. PICK z \in From : \A y \in From : z <= y
  <2> HIDE DEF From
  <2> QED BY <1>1, LeastExists
<1>3. PICK x \in S : z = b - x BY <1>2
<1>4. ASSUME NEW y \in S PROVE y <= x
  <2>1. b - y \in From OBVIOUS
  <2>4. z <= b - y
    <3> HIDE DEF From
    <3>1. \A y1 \in From : z <= y1 BY <1>2
    <3> QED BY <2>1, <3>1
  <2>2. x \in Int /\ y \in Int BY <1>4
  <2> QED BY <1>3, <2>2, <2>4
<1> QED BY <1>3, <1>4

\* Adding an argument adds what it stands for.
LEMMA SumOverInsert ==
  ASSUME NEW S, IsFiniteSet(S), NEW a, a \notin S, NEW f \in [S \union {a} -> Nat]
  PROVE  SumOver(f) = SumOver([x \in S |-> f[x]]) + f[a]
<1> DEFINE T == S \union {a}
           d == f[a]
           g == [x \in T |-> IF x = a THEN 0 ELSE f[x]]
           h == [x \in T |-> IF x = a THEN d ELSE 0]
<1>1. IsFiniteSet(T) /\ a \in T /\ d \in Nat BY FS_AddElement
<1>2. g \in [T -> Nat] /\ h \in [T -> Nat] /\ \A x \in T \ S : g[x] = 0 OBVIOUS
<1>3. SumOver([x \in T |-> g[x] + h[x]]) = SumOver(g) + SumOver(h)
  <2> HIDE DEF T, g, h
  <2> QED BY <1>1, <1>2, SumOverAdd
<1>4. f = [x \in T |-> g[x] + h[x]]
  <2>1. \A x \in T : f[x] \in Nat /\ f[x] = g[x] + h[x] OBVIOUS
  <2>2. f = [x \in T |-> f[x]] OBVIOUS
  <2> HIDE DEF T, g, h
  <2> QED BY <2>1, <2>2
<1>5. SumOver(h) = d
  <2> HIDE DEF T, d
  <2> QED BY <1>1, SumOverPoint
<1>6. SumOver([x \in S |-> g[x]]) = SumOver(g)
  <2>1. S \in SUBSET T OBVIOUS
  <2> HIDE DEF T, g
  <2> QED BY <1>2, <2>1, SumOverSupport
<1>7. [x \in S |-> g[x]] = [x \in S |-> f[x]] OBVIOUS
<1>8. SumOver(f) = SumOver(g) + SumOver(h)
  <2> HIDE DEF g, h, T
  <2> QED BY <1>3, <1>4
<1> HIDE DEF g, h, T
<1> QED BY <1>5, <1>6, <1>7, <1>8 DEF d
=============================================================================
