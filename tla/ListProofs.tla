------------------------------ MODULE ListProofs ------------------------------
(***************************************************************************)
(* The services that keep lists in order: the weekly schedule, the list of *)
(* networks and the actions.                                               *)
(*                                                                         *)
(* It begins with what Ranking answers: for a finite set and a strict      *)
(* total order every element of the set once, in that order; and with what *)
(* a list that is built one element at a time has in the end.  Then each   *)
(* service has its inductive invariant, and what it says of the lists that *)
(* the service starts from, edits and loads again.                         *)
(***************************************************************************)
EXTENDS Services, Ranking, FiniteSetTheorems, SequenceTheorems,
        WellFoundedInduction, TLAPS

-----------------------------------------------------------------------------
(* Sorting and filtering *)

\* A strict total order on T.
Orders(R, D) ==
    /\ \A x \in D : <<x, x>> \notin R
    /\ \A x, y, z \in D : <<x, y>> \in R /\ <<y, z>> \in R => <<x, z>> \in R
    /\ \A x, y \in D : x # y => <<x, y>> \in R \/ <<y, x>> \in R

\* The number of predecessors tells the elements apart, and grows along R.
LEMMA RankGrows ==
  ASSUME NEW D, IsFiniteSet(D), NEW R, Orders(R, D), NEW x \in D, NEW y \in D, <<x, y>> \in R
  PROVE  Cardinality(preceding(D, R, x)) < Cardinality(preceding(D, R, y))
<1> DEFINE V == preceding(D, R, x)
           W == preceding(D, R, y)
<1>1. V \subseteq W /\ x \in W /\ x \notin V /\ W \subseteq D
  BY DEF preceding, Orders
<1> HIDE DEF V, W
<1>2. IsFiniteSet(W) /\ IsFiniteSet(V)
  BY <1>1, FS_Subset
<1>3. Cardinality(V) <= Cardinality(W) /\ Cardinality(V) # Cardinality(W)
  BY <1>1, <1>2, FS_Subset
<1>4. Cardinality(V) \in Nat /\ Cardinality(W) \in Nat
  BY <1>2, FS_CardinalityType
<1> QED BY <1>3, <1>4 DEF V, W

\* Every place up to the size of the set is the rank of one element.
LEMMA RankBijects ==
  ASSUME NEW D, IsFiniteSet(D), NEW R, Orders(R, D)
  PROVE  LET n == Cardinality(D)
             f == [x \in D |-> Cardinality(preceding(D, R, x)) + 1]
         IN f \in Bijection(D, 1 .. n) /\ n \in Nat
<1> DEFINE n == Cardinality(D)
           f == [x \in D |-> Cardinality(preceding(D, R, x)) + 1]
<1>1. n \in Nat /\ IsFiniteSet(1 .. n) /\ Cardinality(1 .. n) = n
  BY FS_CardinalityType, FS_Interval
<1>2. ASSUME NEW x \in D PROVE f[x] \in 1 .. n
  <2> DEFINE V == preceding(D, R, x)
  <2>1. V \subseteq D /\ x \notin V
    BY DEF preceding, Orders
  <2> HIDE DEF V
  <2>2. IsFiniteSet(V) /\ Cardinality(V) <= n /\ Cardinality(V) # n
    BY <2>1, FS_Subset
  <2>3. Cardinality(V) \in Nat
    BY <2>2, FS_CardinalityType
  <2>4. Cardinality(V) + 1 \in 1 .. n
    BY <1>1, <2>2, <2>3
  <2> QED BY <2>4 DEF V
<1>3. ASSUME NEW x \in D, NEW y \in D, f[x] = f[y] PROVE x = y
  <2>1. \A z \in D : Cardinality(preceding(D, R, z)) \in Nat
    <3>1. \A z \in D : preceding(D, R, z) \subseteq D
      BY DEF preceding
    <3> QED BY <3>1, FS_Subset, FS_CardinalityType
  <2>2. Cardinality(preceding(D, R, x)) = Cardinality(preceding(D, R, y))
    BY <1>3, <2>1
  <2>3. <<x, y>> \notin R /\ <<y, x>> \notin R
    BY <2>1, <2>2, RankGrows
  <2> QED BY <2>3 DEF Orders
<1>4. f \in [D -> 1 .. n]
  BY <1>2
<1> HIDE DEF f, n
<1>5. f \in Injection(D, 1 .. n)
  BY <1>3, <1>4 DEF Injection, IsInjective
<1>6. f \in Surjection(D, 1 .. n)
  BY <1>1, <1>5, FS_Injection DEF n
<1> QED BY <1>1, <1>5, <1>6 DEF Bijection, f, n

\* Every element of the set once, in order.
LEMMA ArrangedFacts ==
  ASSUME NEW D, IsFiniteSet(D), NEW R, Orders(R, D)
  PROVE  LET s == Arranged(D, R)
             n == Cardinality(D)
         IN /\ n \in Nat /\ s \in [1 .. n -> D] /\ s \in Seq(D) /\ Len(s) = n
            /\ \A i, j \in 1 .. n : i < j <=> <<s[i], s[j]>> \in R
            /\ \A i, j \in 1 .. n : s[i] = s[j] => i = j
            /\ \A x \in D : \E i \in 1 .. n : s[i] = x
<1> DEFINE s == Arranged(D, R)
           n == Cardinality(D)
           rank(x) == Cardinality(preceding(D, R, x))
           f == [x \in D |-> rank(x) + 1]
<1>1. f \in Bijection(D, 1 .. n) /\ n \in Nat
  BY RankBijects
<1>2. \A x \in D : rank(x) \in Nat
  <2>1. \A z \in D : preceding(D, R, z) \subseteq D
    BY DEF preceding
  <2> QED BY <2>1, FS_Subset, FS_CardinalityType
<1>3. \A x, y \in D : <<x, y>> \in R => rank(x) < rank(y)
  BY RankGrows
<1>4. s = [i \in 1 .. n |-> CHOOSE x \in D : rank(x) = i - 1]
  BY DEF Arranged
<1>5. ASSUME NEW i \in 1 .. n PROVE \E x \in D : rank(x) = i - 1
  <2>1. \E x \in D : f[x] = i
    <3> HIDE DEF f, n
    <3> QED BY <1>1 DEF Bijection, Surjection
  <2>2. PICK x \in D : rank(x) + 1 = i
    BY <2>1
  <2> QED BY <1>1, <1>2, <2>2
<1>6. \A x \in D : rank(x) + 1 \in 1 .. n
  <2>1. \A x \in D : f[x] \in 1 .. n
    <3> HIDE DEF f, n
    <3> QED BY <1>1 DEF Bijection, Surjection
  <2> QED BY <2>1
<1>7. \A x, y \in D : rank(x) = rank(y) => x = y
  <2> HIDE DEF rank
  <2> SUFFICES ASSUME NEW x \in D, NEW y \in D, rank(x) = rank(y) PROVE x = y
    OBVIOUS
  <2>1. <<x, y>> \notin R /\ <<y, x>> \notin R
    BY <1>2, <1>3
  <2> QED BY <2>1 DEF Orders
<1> HIDE DEF s, n, rank, f
<1>8. \A i \in 1 .. n : s[i] \in D /\ rank(s[i]) = i - 1
  BY <1>4, <1>5
<1>9. s \in [1 .. n -> D] /\ s \in Seq(D) /\ Len(s) = n
  <2>1. s \in [1 .. n -> D]
    BY <1>4, <1>8
  <2> QED BY <1>1, <2>1, IsASeq, LenProperties
<1>10. \A i, j \in 1 .. n : i < j <=> <<s[i], s[j]>> \in R
  <2> SUFFICES ASSUME NEW i \in 1 .. n, NEW j \in 1 .. n
               PROVE  i < j <=> <<s[i], s[j]>> \in R
    OBVIOUS
  <2>1. /\ s[i] \in D /\ s[j] \in D
        /\ rank(s[i]) = i - 1 /\ rank(s[j]) = j - 1 /\ n \in Nat
    BY <1>1, <1>8
  <2>2. <<s[i], s[j]>> \in R => i < j
    <3>1. <<s[i], s[j]>> \in R => rank(s[i]) < rank(s[j])
      BY <1>3, <2>1
    <3> QED BY <2>1, <3>1
  <2>3. i < j => <<s[i], s[j]>> \in R
    <3>1. i < j => rank(s[i]) < rank(s[j]) /\ s[i] # s[j]
      BY <2>1
    <3>2. i < j => ~(rank(s[j]) < rank(s[i]))
      BY <2>1
    <3>3. <<s[j], s[i]>> \in R => rank(s[j]) < rank(s[i])
      BY <1>3, <2>1
    <3> QED BY <2>1, <3>1, <3>2, <3>3 DEF Orders
  <2> QED BY <2>2, <2>3
<1>11. \A i, j \in 1 .. n : s[i] = s[j] => i = j
  <2> SUFFICES ASSUME NEW i \in 1 .. n, NEW j \in 1 .. n, s[i] = s[j] PROVE i = j
    OBVIOUS
  <2>1. i - 1 = j - 1
    BY <1>8
  <2> QED BY <1>1, <2>1
<1>12. ASSUME NEW x \in D PROVE \E i \in 1 .. n : s[i] = x
  <2> DEFINE i == rank(x) + 1
  <2>1. i \in 1 .. n /\ i - 1 = rank(x)
    BY <1>2, <1>6
  <2> HIDE DEF i
  <2>2. s[i] \in D /\ rank(s[i]) = rank(x)
    BY <1>8, <2>1
  <2> QED BY <1>7, <2>1, <2>2
<1> QED BY <1>1, <1>9, <1>10, <1>11, <1>12 DEF s, n

\* Numbers that are in order already stay where they are.
LEMMA ArrangedInPlace ==
  ASSUME NEW n \in Nat, NEW R, \A i, j \in 1 .. n : <<i, j>> \in R <=> i < j
  PROVE  Arranged(1 .. n, R) = [i \in 1 .. n |-> i]
<1>1. Cardinality(1 .. n) = n
  BY FS_Interval
<1>2. ASSUME NEW i \in 1 .. n
      PROVE  Cardinality(preceding(1 .. n, R, i)) = i - 1
  <2>1. preceding(1 .. n, R, i) = 1 .. i - 1
    BY DEF preceding
  <2>2. i - 1 \in Int /\ (IF 1 > i - 1 THEN 0 ELSE i - 1 - 1 + 1) = i - 1
    OBVIOUS
  <2> QED BY <2>1, <2>2, FS_Interval
<1>3. ASSUME NEW i \in 1 .. n
      PROVE  (CHOOSE x \in 1 .. n : Cardinality(preceding(1 .. n, R, x)) = i - 1) = i
  <2> DEFINE U(x) == Cardinality(preceding(1 .. n, R, x)) = i - 1
  <2>1. U(i) /\ \A x \in 1 .. n : U(x) => x = i
    BY <1>2
  <2> HIDE DEF U
  <2>2. (CHOOSE x \in 1 .. n : U(x)) = i
    BY <2>1
  <2> QED BY <2>2 DEF U
<1> QED BY <1>1, <1>3 DEF Arranged

\* The slice kept from e at the indices T is along order: their increasing list.
KeptBy(Z, e, D, order) ==
    LET n == Cardinality(D)
    IN /\ n \in Nat /\ n <= Len(e)
       /\ Kept(e, D) = [i \in 1 .. n |-> e[order[i]]]
       /\ Kept(e, D) \in Seq(Z) /\ Len(Kept(e, D)) = n
       /\ \A i, j \in 1 .. n : i < j => order[i] < order[j]
       /\ \A i, j \in 1 .. n : order[i] = order[j] => i = j
       /\ \A x \in D : \E i \in 1 .. n : order[i] = x

\* What is kept of a slice, in its order.
LEMMA KeptFacts ==
  ASSUME NEW Z, NEW e \in Seq(Z), NEW D, D \subseteq DOMAIN e
  PROVE  \E order \in [1 .. Cardinality(D) -> D] : KeptBy(Z, e, D, order)
<1> DEFINE R == {p \in D \X D : p[1] < p[2]}
           n == Cardinality(D)
           order == Arranged(D, R)
<1>1. DOMAIN e = 1 .. Len(e) /\ Len(e) \in Nat /\ \A i \in 1 .. Len(e) : e[i] \in Z
  BY LenProperties
<1>2. D \subseteq Nat
  BY <1>1
<1>3. IsFiniteSet(D) /\ n <= Len(e)
  <2>1. IsFiniteSet(1 .. Len(e)) /\ Cardinality(1 .. Len(e)) = Len(e)
    BY <1>1, FS_Interval
  <2> QED BY <1>1, <2>1, FS_Subset
<1>4. \A i, j \in D : <<i, j>> \in R <=> i < j
  OBVIOUS
<1>5. Orders(R, D)
  <2> HIDE DEF R
  <2> QED BY <1>2, <1>4 DEF Orders
<1> HIDE DEF R
<1>6. /\ n \in Nat /\ order \in [1 .. n -> D]
      /\ \A i, j \in 1 .. n : i < j <=> <<order[i], order[j]>> \in R
      /\ \A i, j \in 1 .. n : order[i] = order[j] => i = j
      /\ \A x \in D : \E i \in 1 .. n : order[i] = x
  BY <1>3, <1>5, ArrangedFacts
<1>7. Kept(e, D) = [i \in 1 .. n |-> e[order[i]]]
  BY <1>6 DEF Kept, R
<1> HIDE DEF order, n
<1>8. \A i \in 1 .. n : order[i] \in D /\ e[order[i]] \in Z
  BY <1>1, <1>6
<1>9. Kept(e, D) \in Seq(Z) /\ Len(Kept(e, D)) = n
  <2>1. Kept(e, D) \in [1 .. n -> Z]
    BY <1>7, <1>8
  <2> QED BY <1>6, <2>1, IsASeq, LenProperties
<1>10. \A i, j \in 1 .. n : i < j => order[i] < order[j]
  BY <1>4, <1>6, <1>8
<1> QED BY <1>3, <1>6, <1>7, <1>9, <1>10 DEF n, KeptBy

\* Nothing is lost of a slice that is kept whole.
LEMMA KeptWhole == ASSUME NEW Z, NEW e \in Seq(Z) PROVE Kept(e, DOMAIN e) = e
<1>1. DOMAIN e = 1 .. Len(e) /\ Len(e) \in Nat /\ e = [i \in 1 .. Len(e) |-> e[i]]
  BY LenProperties
<1> DEFINE n == Len(e)
           R == {p \in (1 .. n) \X (1 .. n) : p[1] < p[2]}
<1>2. \A i, j \in 1 .. n : <<i, j>> \in R <=> i < j
  OBVIOUS
<1> HIDE DEF n, R
<1>3. Arranged(1 .. n, R) = [i \in 1 .. n |-> i]
  BY <1>1, <1>2, ArrangedInPlace DEF n
<1>4. Kept(e, DOMAIN e) = [i \in DOMAIN Arranged(1 .. n, R) |-> e[Arranged(1 .. n, R)[i]]]
  BY <1>1 DEF Kept, R, n
<1>5. Kept(e, DOMAIN e) = [i \in 1 .. n |-> e[i]]
  BY <1>3, <1>4
<1> QED BY <1>1, <1>5 DEF n

-----------------------------------------------------------------------------
(* Building a list one element at a time *)

\* A set of numbers that is not empty has a least one.
LEMMA LeastNumber ==
  ASSUME NEW Q, Q \subseteq Nat, Q # {}
  PROVE  \E m \in Q : \A q \in Q : m <= q
<1> DEFINE R == {p \in Nat \X Nat : p[1] < p[2]}
<1>1. IsWellFoundedOn(R, Nat)
  BY NatLessThanWellFounded DEF OpToRel
<1>2. \E m \in Q : \A q \in Q : <<q, m>> \notin R
  <2> HIDE DEF R
  <2> QED BY <1>1, WFMin
<1>3. PICK m \in Q : \A q \in Q : <<q, m>> \notin R
  BY <1>2
<1>4. \A q \in Q : ~(q < m)
  BY <1>3
<1> QED BY <1>4

\* What holds at the start and is kept by every step holds throughout.
LEMMA Climbs ==
  ASSUME NEW n \in Nat, NEW Q, 0 \in Q, \A k \in 1 .. n : k - 1 \in Q => k \in Q
  PROVE  0 .. n \subseteq Q
<1> SUFFICES ASSUME (0 .. n) \ Q # {} PROVE FALSE
  OBVIOUS
<1>1. PICK m \in (0 .. n) \ Q : \A q \in (0 .. n) \ Q : m <= q
  <2>1. (0 .. n) \ Q \subseteq Nat
    OBVIOUS
  <2> QED BY <2>1, LeastNumber
<1>2. m # 0
  BY <1>1
<1>3. m \in 1 .. n /\ m - 1 \in 0 .. n /\ m - 1 < m
  BY <1>1, <1>2
<1>4. m - 1 \in Q
  BY <1>1, <1>3
<1> QED BY <1>1, <1>3, <1>4

\* A value made step by step: L holds what may be had after each step.
Iterated(g, n, F, first, next) ==
    /\ g = [k \in 0 .. n |-> g[k]] /\ g[0] = first
    /\ \A k \in 0 .. n : g[k] \in F[k]
    /\ \A k \in 1 .. n : g[k] = next[<<k, g[k - 1]>>]

\* What is made step by step, each step into the next of some sets, exists.
LEMMA Iterates ==
  ASSUME NEW n \in Nat, NEW F, NEW first \in F[0], NEW next,
         \A k \in 1 .. n : \A x \in F[k - 1] : next[<<k, x>>] \in F[k]
  PROVE  \E g : Iterated(g, n, F, first, next)
<1> DEFINE Upto(g, m) == Iterated(g, m, F, first, next)
           Q == {m \in 0 .. n : \E g : Upto(g, m)}
<1>1. 0 \in Q
  <2> DEFINE g == [k \in 0 .. 0 |-> first]
  <2>1. g = [k \in 0 .. 0 |-> g[k]] /\ g[0] = first
    OBVIOUS
  <2> HIDE DEF g
  <2>2. Upto(g, 0)
    BY <2>1 DEF Iterated
  <2>3. 0 \in 0 .. n
    OBVIOUS
  <2> HIDE DEF Upto
  <2> QED BY <2>2, <2>3
<1>2. ASSUME NEW m \in 1 .. n, m - 1 \in Q PROVE m \in Q
  <2>1. PICK g : Upto(g, m - 1)
    BY <1>2
  <2> DEFINE h == [k \in 0 .. m |-> IF k = m THEN next[<<m, g[m - 1]>>] ELSE g[k]]
  <2>2. next[<<m, g[m - 1]>>] \in F[m]
    BY <2>1 DEF Iterated
  <2>3. \A k \in 0 .. m - 1 : h[k] = g[k] /\ k \in 0 .. m
    OBVIOUS
  <2>4. h[m] = next[<<m, g[m - 1]>>] /\ h = [k \in 0 .. m |-> h[k]]
    OBVIOUS
  <2>5. h[0] = first /\ 0 \in 0 .. m - 1 /\ m - 1 \in 0 .. m - 1
    BY <2>1, <2>3 DEF Iterated
  <2> HIDE DEF h
  <2>6. \A k \in 0 .. m : k = m \/ k \in 0 .. m - 1
    OBVIOUS
  <2>7. \A k \in 0 .. m : h[k] \in F[k]
    BY <2>1, <2>2, <2>3, <2>4, <2>6 DEF Iterated
  <2>8. \A k \in 1 .. m : h[k] = next[<<k, h[k - 1]>>]
    <3> SUFFICES ASSUME NEW k \in 1 .. m PROVE h[k] = next[<<k, h[k - 1]>>]
      OBVIOUS
    <3>1. k - 1 \in 0 .. m - 1 /\ h[k - 1] = g[k - 1]
      BY <2>3
    <3>2. CASE k = m
      BY <2>4, <3>1, <3>2
    <3>3. CASE k # m
      <4>1. k \in 1 .. m - 1 /\ k \in 0 .. m - 1
        BY <3>3
      <4> QED BY <2>1, <2>3, <3>1, <4>1 DEF Iterated
    <3> QED BY <3>2, <3>3
  <2>9. Upto(h, m)
    BY <2>4, <2>5, <2>7, <2>8 DEF Iterated
  <2>10. m \in 0 .. n
    OBVIOUS
  <2> HIDE DEF Upto
  <2> QED BY <2>9, <2>10
<1> HIDE DEF Q
<1>3. 0 .. n \subseteq Q
  BY <1>1, <1>2, Climbs
<1>4. \E g : Upto(g, n)
  <2>1. n \in Q
    BY <1>3
  <2> QED BY <2>1 DEF Q
<1> QED BY <1>4

\* The image of the places of a list is finite, and no larger than the list.
LEMMA ImageFinite ==
  ASSUME NEW n \in Nat, NEW f, f = [i \in 1 .. n |-> f[i]], NEW Q, Q = {f[i] : i \in 1 .. n}
  PROVE  IsFiniteSet(Q) /\ Cardinality(Q) \in Nat /\ Cardinality(Q) <= n
<1>1. f \in Surjection(1 .. n, Q)
  BY DEF Surjection
<1>2. IsFiniteSet(1 .. n) /\ Cardinality(1 .. n) = n
  BY FS_Interval
<1> QED BY <1>1, <1>2, FS_Surjection, FS_CardinalityType

-----------------------------------------------------------------------------
(* The weekly scheduler: what is due, and what sticks (weekly.go) *)

\* The orders and the filters of the schedule are those of Ranking.
LEMMA SameRanking ==
  /\ \A chosen, R : S!Arranged(chosen, R) = Arranged(chosen, R)
  /\ \A e, chosen : S!Kept(e, chosen) = Kept(e, chosen)
<1>1. \A chosen, R : S!Arranged(chosen, R) = Arranged(chosen, R)
  BY DEF S!Arranged, Arranged, S!preceding, preceding, S!Cardinality, Cardinality
<1> QED BY <1>1 DEF S!Kept, Kept

\* What happens at a slot, at any rate.
At(e, i, j) == e[i].at < e[j].at \/ (e[i].at = e[j].at /\ i < j)

\* sortEntriesByTime() keeps every entry, in the order of their times.
LEMMA SortFacts ==
  ASSUME NEW E, \A x \in E : x.at \in Int, NEW e \in Seq(E)
  PROVE  LET s == S!sortEntriesByTime(e)
             n == Len(e)
         IN /\ s \in Seq(E) /\ Len(s) = n /\ S!sorted(s)
            /\ \E o \in [1 .. n -> 1 .. n] :
                 /\ s = [i \in 1 .. n |-> e[o[i]]]
                 /\ \A i, j \in 1 .. n : i < j => At(e, o[i], o[j])
                 /\ \A k \in 1 .. n : \E i \in 1 .. n : o[i] = k
<1> DEFINE n == Len(e)
           R == { p \in (1 .. n) \X (1 .. n) : At(e, p[1], p[2]) }
           o == Arranged(1 .. n, R)
           s == S!sortEntriesByTime(e)
<1>1. /\ DOMAIN e = 1 .. n /\ n \in Nat /\ \A i \in 1 .. n : e[i] \in E /\ e[i].at \in Int
      /\ IsFiniteSet(1 .. n) /\ Cardinality(1 .. n) = n
  <2>1. DOMAIN e = 1 .. n /\ n \in Nat /\ \A i \in 1 .. n : e[i] \in E
    BY LenProperties
  <2> HIDE DEF n
  <2> QED BY <2>1, FS_Interval
<1>2. \A i, j \in 1 .. n : <<i, j>> \in R <=> At(e, i, j)
  OBVIOUS
<1>3. s = [i \in 1 .. n |-> e[o[i]]]
  BY <1>1, SameRanking DEF S!sortEntriesByTime, At
<1> HIDE DEF R, s, n
<1>4. Orders(R, 1 .. n)
  <2> SUFFICES ASSUME NEW x \in 1 .. n, NEW y \in 1 .. n, NEW z \in 1 .. n
               PROVE  /\ ~At(e, x, x)
                      /\ At(e, x, y) /\ At(e, y, z) => At(e, x, z)
                      /\ x # y => At(e, x, y) \/ At(e, y, x)
    BY <1>2 DEF Orders
  <2> QED BY <1>1 DEF At
<1>5. /\ o \in [1 .. n -> 1 .. n]
      /\ \A i, j \in 1 .. n : i < j <=> <<o[i], o[j]>> \in R
      /\ \A k \in 1 .. n : \E i \in 1 .. n : o[i] = k
  <2>1. LET m == Cardinality(1 .. n)
        IN /\ o \in [1 .. m -> 1 .. n]
           /\ \A i, j \in 1 .. m : i < j <=> <<o[i], o[j]>> \in R
           /\ \A k \in 1 .. n : \E i \in 1 .. m : o[i] = k
    BY <1>1, <1>4, ArrangedFacts
  <2> QED BY <1>1, <2>1
<1> HIDE DEF o
<1>6. \A i, j \in 1 .. n : i < j => At(e, o[i], o[j])
  BY <1>2, <1>5
<1>7. s \in Seq(E) /\ Len(s) = n
  <2>1. s \in [1 .. n -> E]
    BY <1>1, <1>3, <1>5
  <2> QED BY <1>1, <2>1, IsASeq, LenProperties
<1>8. S!sorted(s)
  <2>1. DOMAIN s = 1 .. n
    BY <1>3
  <2> SUFFICES ASSUME NEW i \in 1 .. n, NEW j \in 1 .. n, i < j PROVE s[i].at <= s[j].at
    BY <2>1 DEF S!sorted
  <2>2. s[i] = e[o[i]] /\ s[j] = e[o[j]] /\ At(e, o[i], o[j])
    BY <1>3, <1>6
  <2>3. o[i] \in 1 .. n /\ o[j] \in 1 .. n
    BY <1>5
  <2> QED BY <1>1, <2>2, <2>3 DEF At
<1> QED BY <1>3, <1>5, <1>6, <1>7, <1>8 DEF s, n

\* What is sorted already stays as it is.
LEMMA SortedInPlace ==
  ASSUME NEW E, \A x \in E : x.at \in Int, NEW e \in Seq(E), S!sorted(e)
  PROVE  S!sortEntriesByTime(e) = e
<1> DEFINE n == Len(e)
           R == { p \in (1 .. n) \X (1 .. n) : At(e, p[1], p[2]) }
<1>1. /\ DOMAIN e = 1 .. n /\ n \in Nat /\ \A i \in 1 .. n : e[i] \in E /\ e[i].at \in Int
      /\ e = [i \in 1 .. n |-> e[i]]
  BY LenProperties
<1>2. \A i, j \in 1 .. n : <<i, j>> \in R <=> i < j
  BY <1>1 DEF At, S!sorted
<1>3. S!sortEntriesByTime(e) = [i \in 1 .. n |-> e[Arranged(1 .. n, R)[i]]]
  BY <1>1, SameRanking DEF S!sortEntriesByTime, At
<1> HIDE DEF R, n
<1>4. Arranged(1 .. n, R) = [i \in 1 .. n |-> i]
  BY <1>1, <1>2, ArrangedInPlace
<1> QED BY <1>1, <1>3, <1>4

\* What sanitizeEntries() keeps: entries with a time of the day and an action,
\* sorted, no more than the cap.
Slot         == 0 .. Slots - 1
CleanEntry   == [at : Slot, action : Targets \ {NoAction}]
CleanEntries == {e \in Seq(CleanEntry) : S!sorted(e) /\ Len(e) <= MaxEntries}
CleanDate    == [date : Nat, entries : CleanEntries]
CleanWindow  == {w \in Windows : w.enabled => /\ w.sleep \in Slot /\ w.wake \in Slot
                                              /\ w.sleep # w.wake}
Clean == [enabled : BOOLEAN, days : [0 .. Week - 1 -> CleanEntries],
          exceptions : Seq(CleanDate), nightly : CleanWindow]

\* The usable entries are clean ones.
LEMMA UsableFacts ==
  ASSUME NEW e \in Entries
  PROVE  S!usable(e) \in Seq(CleanEntry)
<1> DEFINE chosen == {i \in DOMAIN e : e[i].action # NoAction /\ S!parses(e[i].at)}
<1>1. e \in Seq([at : Times, action : Targets \cup {NoAction}])
  BY DEF Entries
<1>2. /\ DOMAIN e = 1 .. Len(e) /\ Len(e) \in Nat
      /\ \A i \in 1 .. Len(e) : e[i] \in [at : Times, action : Targets \cup {NoAction}]
  BY <1>1, LenProperties
<1>3. \A i \in chosen : e[i] \in CleanEntry
  <2> SUFFICES ASSUME NEW i \in chosen PROVE e[i] \in CleanEntry
    OBVIOUS
  <2>1. /\ e[i] \in [at : Times, action : Targets \cup {NoAction}]
        /\ e[i].action # NoAction /\ e[i].at # BadTime
    BY <1>2 DEF S!parses
  <2>2. e[i].at \in Slot /\ e[i].action \in Targets \ {NoAction}
        /\ e[i] = [at |-> e[i].at, action |-> e[i].action]
    BY <2>1 DEF Times, Slot
  <2> QED BY <2>2 DEF CleanEntry
<1>4. S!usable(e) = Kept(e, chosen)
  BY SameRanking DEF S!usable
<1>5. chosen \subseteq DOMAIN e
  OBVIOUS
<1> HIDE DEF chosen
<1>6. PICK order \in [1 .. Cardinality(chosen) -> chosen] :
        /\ Cardinality(chosen) \in Nat
        /\ Kept(e, chosen) = [i \in 1 .. Cardinality(chosen) |-> e[order[i]]]
  <2> DEFINE E == [at : Times, action : Targets \cup {NoAction}]
  <2> HIDE DEF E
  <2>1. PICK order \in [1 .. Cardinality(chosen) -> chosen] :
           KeptBy(E, e, chosen, order)
    BY <1>1, <1>5, KeptFacts DEF E
  <2> QED BY <2>1 DEF KeptBy
<1>7. Kept(e, chosen) \in [1 .. Cardinality(chosen) -> CleanEntry]
  BY <1>3, <1>6
<1> QED BY <1>4, <1>6, <1>7, IsASeq

\* Nothing is lost of a list that is clean.
LEMMA UsableWhole ==
  ASSUME NEW e \in Seq(CleanEntry)
  PROVE  S!usable(e) = e
<1>1. DOMAIN e = 1 .. Len(e) /\ \A i \in 1 .. Len(e) : e[i] \in CleanEntry
  BY LenProperties
<1>2. \A i \in DOMAIN e : e[i].action # NoAction /\ S!parses(e[i].at)
  <2> SUFFICES ASSUME NEW i \in DOMAIN e
               PROVE  e[i].action # NoAction /\ e[i].at # BadTime
    BY DEF S!parses
  <2>1. e[i].at \in Slot /\ e[i].action \in Targets \ {NoAction}
    BY <1>1 DEF CleanEntry
  <2> QED BY <2>1, ScheduleAssumption DEF Slot
<1>3. {i \in DOMAIN e : e[i].action # NoAction /\ S!parses(e[i].at)} = DOMAIN e
  BY <1>2
<1> QED BY <1>3, SameRanking, KeptWhole DEF S!usable

\* sanitizeEntries() cleans, and leaves alone what is clean.
LEMMA EntriesClean ==
  /\ \A e \in Entries : S!sanitizeEntries(e) \in CleanEntries
  /\ \A e \in CleanEntries : S!sanitizeEntries(e) = e
<1>1. \A x \in CleanEntry : x.at \in Int
  BY ScheduleAssumption DEF CleanEntry, Slot
<1>2. ASSUME NEW e \in Entries PROVE S!sanitizeEntries(e) \in CleanEntries
  <2> DEFINE ok == S!usable(e)
             cut == IF Len(ok) > MaxEntries THEN SubSeq(ok, 1, MaxEntries) ELSE ok
  <2>1. ok \in Seq(CleanEntry) /\ Len(ok) \in Nat
    BY UsableFacts, LenProperties
  <2>2. cut \in Seq(CleanEntry) /\ Len(cut) <= MaxEntries
    <3> HIDE DEF ok
    <3>1. CASE Len(ok) > MaxEntries
      <4>1. cut = SubSeq(ok, 1, MaxEntries)
        BY <3>1
      <4>2. \A i \in 1 .. MaxEntries : ok[i] \in CleanEntry
        BY <2>1, <3>1, LenProperties, ScheduleAssumption
      <4>3. cut = [i \in 1 .. MaxEntries |-> ok[i]]
        BY <4>1, <2>1, <3>1, ScheduleAssumption
      <4>4. cut \in [1 .. MaxEntries -> CleanEntry] /\ MaxEntries \in Nat
        BY <4>2, <4>3, ScheduleAssumption
      <4> HIDE DEF cut
      <4>5. cut \in Seq(CleanEntry) /\ DOMAIN cut = 1 .. MaxEntries
        BY <4>4, IsASeq
      <4> QED BY <4>4, <4>5, LenProperties
    <3>2. CASE ~(Len(ok) > MaxEntries)
      BY <2>1, <3>2, ScheduleAssumption
    <3> QED BY <3>1, <3>2
  <2>3. S!sanitizeEntries(e) = S!sortEntriesByTime(cut)
    BY DEF S!sanitizeEntries
  <2> HIDE DEF cut
  <2>4. /\ S!sortEntriesByTime(cut) \in Seq(CleanEntry)
        /\ Len(S!sortEntriesByTime(cut)) = Len(cut)
        /\ S!sorted(S!sortEntriesByTime(cut))
    BY <1>1, <2>2, SortFacts
  <2> QED BY <2>2, <2>3, <2>4 DEF CleanEntries
<1>3. ASSUME NEW e \in CleanEntries PROVE S!sanitizeEntries(e) = e
  <2>1. e \in Seq(CleanEntry) /\ S!sorted(e) /\ Len(e) <= MaxEntries /\ Len(e) \in Nat
    BY LenProperties DEF CleanEntries
  <2>2. S!usable(e) = e
    BY <2>1, UsableWhole
  <2>3. S!sanitizeEntries(e) = S!sortEntriesByTime(e)
    BY <2>1, <2>2, ScheduleAssumption DEF S!sanitizeEntries
  <2> QED BY <1>1, <2>1, <2>3, SortedInPlace
<1> QED BY <1>2, <1>3

\* sanitizeExceptions() cleans, and leaves alone what is clean.
LEMMA ExceptionsClean ==
  /\ \A x \in Seq([date : Nat \cup {BadTime}, entries : Entries]) :
        S!sanitizeExceptions(x) \in Seq(CleanDate)
  /\ \A x \in Seq(CleanDate) : S!sanitizeExceptions(x) = x
<1> DEFINE Dates == [date : Nat \cup {BadTime}, entries : Entries]
           dated(x) == {i \in DOMAIN x : S!parses(x[i].date)}
<1>1. \A x : S!sanitizeExceptions(x) =
          [i \in DOMAIN Kept(x, dated(x)) |->
              [Kept(x, dated(x))[i] EXCEPT !.entries = S!sanitizeEntries(@)]]
  BY SameRanking DEF S!sanitizeExceptions
<1>2. ASSUME NEW x \in Seq(Dates) PROVE S!sanitizeExceptions(x) \in Seq(CleanDate)
  <2>1. DOMAIN x = 1 .. Len(x) /\ \A i \in 1 .. Len(x) : x[i] \in Dates
    BY LenProperties
  <2>2. \A i \in dated(x) : x[i] \in Dates /\ x[i].date \in Nat
    BY <2>1 DEF S!parses
  <2>3. dated(x) \subseteq DOMAIN x
    OBVIOUS
  <2> DEFINE picked == dated(x)
  <2> HIDE DEF dated, Dates
  <2> DEFINE n == Cardinality(picked)
  <2>4. PICK order \in [1 .. n -> picked] :
          n \in Nat /\ Kept(x, picked) = [i \in 1 .. n |-> x[order[i]]]
    BY <2>3, KeptFacts DEF KeptBy
  <2>5. S!sanitizeExceptions(x) =
          [i \in 1 .. n |-> [x[order[i]] EXCEPT !.entries = S!sanitizeEntries(@)]]
    BY <1>1, <2>4
  <2> HIDE DEF n
  <2>6. ASSUME NEW i \in 1 .. n
        PROVE  [x[order[i]] EXCEPT !.entries = S!sanitizeEntries(@)] \in CleanDate
    <3>1. x[order[i]] \in Dates /\ x[order[i]].date \in Nat
      BY <2>2, <2>4
    <3>2. S!sanitizeEntries(x[order[i]].entries) \in CleanEntries
      BY <3>1, EntriesClean DEF Dates
    <3> QED BY <3>1, <3>2 DEF Dates, CleanDate
  <2>7. S!sanitizeExceptions(x) \in [1 .. n -> CleanDate]
    BY <2>5, <2>6
  <2> QED BY <2>4, <2>7, IsASeq
<1>3. ASSUME NEW x \in Seq(CleanDate) PROVE S!sanitizeExceptions(x) = x
  <2>1. /\ DOMAIN x = 1 .. Len(x) /\ \A i \in 1 .. Len(x) : x[i] \in CleanDate
        /\ x = [i \in 1 .. Len(x) |-> x[i]]
    BY LenProperties
  <2>2. \A i \in 1 .. Len(x) : S!parses(x[i].date)
    BY <2>1, ScheduleAssumption DEF CleanDate, S!parses
  <2>3. dated(x) = DOMAIN x
    BY <2>1, <2>2
  <2>4. Kept(x, dated(x)) = x
    BY <2>3, KeptWhole
  <2>5. \A i \in 1 .. Len(x) : [x[i] EXCEPT !.entries = S!sanitizeEntries(@)] = x[i]
    <3> SUFFICES ASSUME NEW i \in 1 .. Len(x)
                 PROVE  [x[i] EXCEPT !.entries = S!sanitizeEntries(@)] = x[i]
      OBVIOUS
    <3>1. x[i] \in CleanDate
      BY <2>1
    <3>2. S!sanitizeEntries(x[i].entries) = x[i].entries
      BY <3>1, EntriesClean DEF CleanDate
    <3> QED BY <3>1, <3>2 DEF CleanDate
  <2>6. S!sanitizeExceptions(x) =
          [i \in 1 .. Len(x) |-> [x[i] EXCEPT !.entries = S!sanitizeEntries(@)]]
    BY <1>1, <2>1, <2>4
  <2> QED BY <2>1, <2>5, <2>6
<1> QED BY <1>2, <1>3

\* sanitizeNightly() cleans a window, and leaves alone a clean one.
LEMMA NightlyClean ==
  /\ \A w \in Windows : S!sanitizeNightly(w) \in CleanWindow
  /\ \A w \in CleanWindow : S!sanitizeNightly(w) = w
<1>1. \A t \in Times : S!parses(t) <=> t \in Slot
  BY ScheduleAssumption DEF S!parses, Times, Slot
<1>2. ASSUME NEW w \in Windows PROVE S!sanitizeNightly(w) \in CleanWindow
  <2>1. S!sanitizeNightly(w) \in Windows
    BY DEF S!sanitizeNightly, Windows, S!parses
  <2>2. /\ S!sanitizeNightly(w).enabled => S!parses(w.sleep) /\ S!parses(w.wake)
                                           /\ w.sleep # w.wake
        /\ S!sanitizeNightly(w).sleep = w.sleep /\ S!sanitizeNightly(w).wake = w.wake
    BY DEF S!sanitizeNightly, Windows
  <2>3. w.sleep \in Times /\ w.wake \in Times
    BY DEF Windows
  <2> QED BY <1>1, <2>1, <2>2, <2>3 DEF CleanWindow
<1>3. ASSUME NEW w \in CleanWindow PROVE S!sanitizeNightly(w) = w
  <2>1. /\ w \in Windows /\ w.sleep \in Times /\ w.wake \in Times /\ w.enabled \in BOOLEAN
        /\ w.enabled => w.sleep \in Slot /\ w.wake \in Slot /\ w.sleep # w.wake
    BY DEF CleanWindow, Windows
  <2>2. w.enabled <=> (w.enabled /\ S!parses(w.sleep) /\ S!parses(w.wake)
                       /\ w.sleep # w.wake)
    BY <1>1, <2>1
  <2>3. w = [enabled |-> w.enabled, sleep |-> w.sleep, wake |-> w.wake]
    BY <2>1 DEF Windows
  <2> QED BY <2>1, <2>2, <2>3 DEF S!sanitizeNightly
<1> QED BY <1>2, <1>3

\* So does sanitize(), of a whole calendar.
LEMMA SanitizeClean ==
  /\ \A s \in Calendar : S!sanitize(s) \in Clean
  /\ \A s \in Clean : S!sanitize(s) = s
<1>1. ASSUME NEW s \in Calendar PROVE S!sanitize(s) \in Clean
  <2>1. /\ s.enabled \in BOOLEAN /\ s.days \in [0 .. Week - 1 -> Entries]
        /\ s.exceptions \in Seq([date : Nat \cup {BadTime}, entries : Entries])
        /\ s.nightly \in Windows
        /\ s = [enabled |-> s.enabled, days |-> s.days,
                exceptions |-> s.exceptions, nightly |-> s.nightly]
    BY DEF Calendar
  <2>2. S!sanitize(s) =
          [enabled |-> s.enabled,
           days |-> [d \in 0 .. Week - 1 |-> S!sanitizeEntries(s.days[d])],
           exceptions |-> S!sanitizeExceptions(s.exceptions),
           nightly |-> S!sanitizeNightly(s.nightly)]
    <3>1. DOMAIN s.days = 0 .. Week - 1
      BY <2>1
    <3> QED BY <3>1 DEF S!sanitize
  <2>3. [d \in 0 .. Week - 1 |-> S!sanitizeEntries(s.days[d])]
            \in [0 .. Week - 1 -> CleanEntries]
    BY <2>1, EntriesClean
  <2>4. S!sanitizeExceptions(s.exceptions) \in Seq(CleanDate)
    BY <2>1, ExceptionsClean
  <2>5. S!sanitizeNightly(s.nightly) \in CleanWindow
    BY <2>1, NightlyClean
  <2> QED BY <2>1, <2>2, <2>3, <2>4, <2>5 DEF Clean
<1>2. ASSUME NEW s \in Clean PROVE S!sanitize(s) = s
  <2>1. /\ s.days \in [0 .. Week - 1 -> CleanEntries]
        /\ s.exceptions \in Seq(CleanDate) /\ s.nightly \in CleanWindow
        /\ s = [enabled |-> s.enabled, days |-> s.days,
                exceptions |-> s.exceptions, nightly |-> s.nightly]
    BY DEF Clean
  <2>2. S!sanitize(s) =
          [enabled |-> s.enabled,
           days |-> [d \in 0 .. Week - 1 |-> S!sanitizeEntries(s.days[d])],
           exceptions |-> S!sanitizeExceptions(s.exceptions),
           nightly |-> S!sanitizeNightly(s.nightly)]
    <3>1. DOMAIN s.days = 0 .. Week - 1
      BY <2>1
    <3> QED BY <3>1 DEF S!sanitize
  <2>3. [d \in 0 .. Week - 1 |-> S!sanitizeEntries(s.days[d])] = s.days
    BY <2>1, EntriesClean
  <2>4. S!sanitizeExceptions(s.exceptions) = s.exceptions
    BY <2>1, ExceptionsClean
  <2>5. S!sanitizeNightly(s.nightly) = s.nightly
    BY <2>1, NightlyClean
  <2> QED BY <2>1, <2>2, <2>3, <2>4, <2>5
<1> QED BY <1>1, <1>2

\* What a day's entries are, of the date or of the weekday: clean.
LEMMA DayEntriesClean ==
  ASSUME schedule \in Clean, NEW d \in Nat
  PROVE  S!dayEntries(d) \in CleanEntries
<1> DEFINE all == schedule.exceptions
           chosen == {i \in DOMAIN all : all[i].date = d}
           ex == Kept(all, chosen)
<1>1. all \in Seq(CleanDate) /\ schedule.days \in [0 .. Week - 1 -> CleanEntries]
  BY DEF Clean
<1>2. S!dayEntries(d) = IF ex # <<>> THEN ex[1].entries ELSE schedule.days[d % Week]
  BY SameRanking DEF S!dayEntries
<1>3. chosen \subseteq DOMAIN all
  OBVIOUS
<1> HIDE DEF all, chosen
<1>4. ex \in Seq(CleanDate)
  BY <1>1, <1>3, KeptFacts DEF KeptBy
<1> HIDE DEF ex
<1>5. CASE ex # <<>>
  <2>1. ex[1] \in CleanDate
    BY <1>4, <1>5, EmptySeq, LenProperties
  <2> QED BY <1>2, <1>5, <2>1 DEF CleanDate
<1>6. CASE ex = <<>>
  <2>1. d % Week \in 0 .. Week - 1
    BY ScheduleAssumption
  <2> QED BY <1>1, <1>2, <1>6, <2>1
<1> QED BY <1>5, <1>6

\* effectiveEntries() is the transitions of the day, in the order of later.
LEMMA EffectiveFacts ==
  ASSUME schedule \in Clean, NEW d \in Nat
  PROVE  LET s == S!effectiveEntries(d)
             n == Len(s)
         IN /\ n \in Nat /\ DOMAIN s = 1 .. n
            /\ s \in Seq([at : Slot, action : Targets \cup {S!Sleep, S!Wake}])
            /\ \E x \in [1 .. n -> S!transitions(d)] :
                 /\ \A i \in 1 .. n : /\ x[i].day = d /\ x[i].at = s[i].at
                                      /\ x[i].action = s[i].action
                 /\ \A i, j \in 1 .. n : i < j => S!later(x[j], x[i])
                 /\ \A y \in S!transitions(d) : \E i \in 1 .. n : x[i] = y
<1> DEFINE E == [at : Slot, action : Targets \cup {S!Sleep, S!Wake}]
           u == S!window
           v == IF schedule.enabled THEN S!dayEntries(d) ELSE <<>>
           w == u \o v
           m == Len(u)
           n == Len(w)
           s == S!effectiveEntries(d)
           tr(k) == [day |-> d, at |-> w[k].at, rank |-> IF k <= m THEN 0 ELSE k - m,
                     action |-> w[k].action]
<1>1. u \in Seq(E) /\ \A k, l \in DOMAIN u : k # l => u[k].at # u[l].at
  <2>1. schedule.nightly \in CleanWindow
    BY DEF Clean
  <2>2. CASE schedule.nightly.enabled
    <3>1. u = <<[at |-> schedule.nightly.sleep, action |-> S!Sleep],
                [at |-> schedule.nightly.wake, action |-> S!Wake]>>
      BY <2>2 DEF S!window
    <3>2. /\ schedule.nightly.sleep \in Slot /\ schedule.nightly.wake \in Slot
          /\ schedule.nightly.sleep # schedule.nightly.wake
      BY <2>1, <2>2 DEF CleanWindow
    <3> QED BY <3>1, <3>2
  <2>3. CASE ~schedule.nightly.enabled
    BY <2>3 DEF S!window
  <2> QED BY <2>2, <2>3
<1>2. v \in Seq(E)
  <2>1. \A x \in CleanEntry : x \in E
    BY DEF CleanEntry
  <2>2. v \in Seq(CleanEntry)
    BY DayEntriesClean DEF CleanEntries
  <2> HIDE DEF v, E
  <2>3. v \in [1 .. Len(v) -> E] /\ Len(v) \in Nat
    BY <2>1, <2>2, LenProperties
  <2> QED BY <2>3, IsASeq
<1>3. s = S!sortEntriesByTime(w)
  BY DEF S!effectiveEntries
<1>4. /\ S!transitions(d) =
           { [day |-> d, at |-> u[i].at, rank |-> 0, action |-> u[i].action] :
                i \in DOMAIN u }
           \cup { [day |-> d, at |-> v[i].at, rank |-> i, action |-> v[i].action] :
                i \in DOMAIN v }
  BY DEF S!transitions
<1>5. \A x \in E : x.at \in Int /\ x.at \in Slot
  BY ScheduleAssumption DEF Slot
<1> HIDE DEF E, u, v, s
<1>6. /\ w \in Seq(E) /\ n = m + Len(v) /\ m \in Nat /\ Len(v) \in Nat /\ n \in Nat
      /\ DOMAIN u = 1 .. m /\ DOMAIN v = 1 .. Len(v) /\ DOMAIN w = 1 .. n
      /\ \A k \in 1 .. n : w[k] \in E
      /\ \A k \in 1 .. n : w[k] = IF k <= m THEN u[k] ELSE v[k - m]
  BY <1>1, <1>2, ConcatProperties, LenProperties
<1> HIDE DEF w, m, n
<1>7. \A k \in 1 .. n : tr(k) \in S!transitions(d)
  <2> SUFFICES ASSUME NEW k \in 1 .. n PROVE tr(k) \in S!transitions(d)
    OBVIOUS
  <2>1. CASE k <= m
    <3>1. k \in DOMAIN u /\ w[k] = u[k]
      BY <1>6, <2>1
    <3> QED BY <1>4, <2>1, <3>1
  <2>2. CASE ~(k <= m)
    <3>1. k - m \in DOMAIN v /\ w[k] = v[k - m]
      BY <1>6, <2>2
    <3> QED BY <1>4, <2>2, <3>1
  <2> QED BY <2>1, <2>2
<1>8. \A y \in S!transitions(d) : \E k \in 1 .. n : tr(k) = y
  <2> SUFFICES ASSUME NEW y \in S!transitions(d) PROVE \E k \in 1 .. n : tr(k) = y
    OBVIOUS
  <2>1. CASE \E i \in DOMAIN u :
               y = [day |-> d, at |-> u[i].at, rank |-> 0, action |-> u[i].action]
    <3>1. PICK i \in DOMAIN u :
               y = [day |-> d, at |-> u[i].at, rank |-> 0, action |-> u[i].action]
      BY <2>1
    <3>2. i \in 1 .. n /\ i <= m /\ w[i] = u[i]
      BY <1>6
    <3> QED BY <3>1, <3>2
  <2>2. CASE \E i \in DOMAIN v :
               y = [day |-> d, at |-> v[i].at, rank |-> i, action |-> v[i].action]
    <3>1. PICK i \in DOMAIN v :
               y = [day |-> d, at |-> v[i].at, rank |-> i, action |-> v[i].action]
      BY <2>2
    <3>2. i + m \in 1 .. n /\ ~(i + m <= m) /\ (i + m) - m = i /\ w[i + m] = v[i]
      BY <1>6
    <3> QED BY <3>1, <3>2
  <2> QED BY <1>4, <2>1, <2>2
<1>9. \A k, l \in 1 .. n : At(w, k, l) => S!later(tr(l), tr(k))
  <2> SUFFICES ASSUME NEW k \in 1 .. n, NEW l \in 1 .. n, At(w, k, l)
               PROVE  S!later(tr(l), tr(k))
    OBVIOUS
  <2>1. w[k].at \in Int /\ w[l].at \in Int
    BY <1>5, <1>6
  <2>2. CASE w[k].at < w[l].at
    BY <2>1, <2>2 DEF S!later
  <2>3. CASE w[k].at = w[l].at /\ k < l
    <3>1. ~(l <= m)
      <4> SUFFICES ASSUME l <= m PROVE FALSE
        OBVIOUS
      <4>1. k \in DOMAIN u /\ l \in DOMAIN u /\ w[k] = u[k] /\ w[l] = u[l] /\ k # l
        BY <1>6, <2>3
      <4> QED BY <1>1, <2>3, <4>1
    <3>2. tr(l).rank = l - m /\ tr(l).rank > tr(k).rank
      BY <1>6, <2>3, <3>1
    <3>3. tr(l).day = tr(k).day /\ tr(l).at = tr(k).at
      BY <2>3
    <3> HIDE DEF tr
    <3> QED BY <3>2, <3>3 DEF S!later
  <2> QED BY <2>2, <2>3 DEF At
<1>10. /\ s \in Seq(E) /\ Len(s) = n
       /\ \E o \in [1 .. n -> 1 .. n] :
             /\ s = [i \in 1 .. n |-> w[o[i]]]
             /\ \A i, j \in 1 .. n : i < j => At(w, o[i], o[j])
             /\ \A k \in 1 .. n : \E i \in 1 .. n : o[i] = k
  BY <1>3, <1>5, <1>6, SortFacts DEF n
<1>11. PICK o \in [1 .. n -> 1 .. n] :
             /\ s = [i \in 1 .. n |-> w[o[i]]]
             /\ \A i, j \in 1 .. n : i < j => At(w, o[i], o[j])
             /\ \A k \in 1 .. n : \E i \in 1 .. n : o[i] = k
  BY <1>10
<1> DEFINE x == [i \in 1 .. n |-> tr(o[i])]
<1>12. \A i \in 1 .. n : /\ x[i] = tr(o[i]) /\ o[i] \in 1 .. n /\ s[i] = w[o[i]]
  BY <1>11
<1>13. \A i \in 1 .. n : /\ x[i].day = d /\ x[i].at = s[i].at
                         /\ x[i].action = s[i].action
  BY <1>12
<1> HIDE DEF tr, x
<1>14. \A i \in 1 .. n : x[i] \in S!transitions(d)
  BY <1>7, <1>12
<1>15. x \in [1 .. n -> S!transitions(d)]
  BY <1>14 DEF x
<1>16. \A i, j \in 1 .. n : i < j => S!later(x[j], x[i])
  BY <1>9, <1>11, <1>12
<1>17. \A y \in S!transitions(d) : \E i \in 1 .. n : x[i] = y
  <2> SUFFICES ASSUME NEW y \in S!transitions(d) PROVE \E i \in 1 .. n : x[i] = y
    OBVIOUS
  <2>1. PICK k \in 1 .. n : tr(k) = y
    BY <1>8
  <2>2. PICK i \in 1 .. n : o[i] = k
    BY <1>11
  <2> QED BY <1>12, <2>1, <2>2
<1>18. DOMAIN s = 1 .. n
  BY <1>11
<1>19. \E f \in [1 .. n -> S!transitions(d)] :
          /\ \A i \in 1 .. n : /\ f[i].day = d /\ f[i].at = s[i].at
                               /\ f[i].action = s[i].action
          /\ \A i, j \in 1 .. n : i < j => S!later(f[j], f[i])
          /\ \A y \in S!transitions(d) : \E i \in 1 .. n : f[i] = y
  BY <1>13, <1>15, <1>16, <1>17
<1>20. n = Len(s) /\ n \in Nat /\ s \in Seq(E)
  BY <1>6, <1>10
<1> QED BY <1>18, <1>19, <1>20 DEF E, s

\* desiredLocked() finds the latest transition that is not in the future.
LEMMA DesiredLatest ==
  ASSUME schedule \in Clean, NEW t \in S!Instants, t.day > 0
  PROVE  S!latest(t, S!desired(t))
<1> DEFINE a == S!effectiveEntries(t.day)
           b == S!effectiveEntries(t.day - 1)
           chosen == {i \in DOMAIN a : a[i].at <= t.slot}
           due == Kept(a, chosen)
           n == Len(a)
           m == Len(b)
           c == Cardinality(chosen)
           E == [at : Slot, action : Targets \cup {S!Sleep, S!Wake}]
<1>1. t.day \in Nat /\ t.day - 1 \in Nat /\ t.slot \in Int
  BY ScheduleAssumption DEF S!Instants
<1>2. n \in Nat /\ DOMAIN a = 1 .. n /\ a \in Seq(E)
  BY <1>1, EffectiveFacts
<1>3. PICK x \in [1 .. n -> S!transitions(t.day)] :
         /\ \A i \in 1 .. n : /\ x[i].day = t.day /\ x[i].at = a[i].at
                              /\ x[i].action = a[i].action
         /\ \A i, j \in 1 .. n : i < j => S!later(x[j], x[i])
         /\ \A y \in S!transitions(t.day) : \E i \in 1 .. n : x[i] = y
  BY <1>1, EffectiveFacts
<1>4. m \in Nat /\ DOMAIN b = 1 .. m /\ b \in Seq(E)
  BY <1>1, EffectiveFacts
<1>5. PICK z \in [1 .. m -> S!transitions(t.day - 1)] :
         /\ \A i \in 1 .. m : /\ z[i].day = t.day - 1 /\ z[i].at = b[i].at
                              /\ z[i].action = b[i].action
         /\ \A i, j \in 1 .. m : i < j => S!later(z[j], z[i])
         /\ \A y \in S!transitions(t.day - 1) : \E i \in 1 .. m : z[i] = y
  BY <1>1, EffectiveFacts
<1>6. S!desired(t) = IF due # <<>> THEN S!key(t.day, due[Len(due)])
                     ELSE IF b # <<>> THEN S!key(t.day - 1, b[Len(b)])
                     ELSE S!NoKey
  BY SameRanking DEF S!desired, S!Last
<1>7. /\ chosen \subseteq DOMAIN a
      /\ \A i \in chosen : i \in 1 .. n /\ a[i].at <= t.slot
      /\ \A i \in 1 .. n : a[i].at <= t.slot => i \in chosen
  BY <1>2
<1> HIDE DEF a, b, chosen, E
<1>8. PICK order \in [1 .. c -> chosen] : KeptBy(E, a, chosen, order)
  <2>1. a \in Seq(E) /\ chosen \subseteq DOMAIN a
    BY <1>2, <1>7
  <2> HIDE DEF n, m
  <2> QED BY ONLY <2>1, KeptFacts
<1>8a. /\ c \in Nat /\ due = [i \in 1 .. c |-> a[order[i]]] /\ Len(due) = c
       /\ \A i, j \in 1 .. c : i < j => order[i] < order[j]
       /\ \A i \in chosen : \E j \in 1 .. c : order[j] = i
  BY <1>8 DEF KeptBy
<1>9. S!past(t) = { y \in S!transitions(t.day) : y.at <= t.slot }
                  \cup S!transitions(t.day - 1)
  BY DEF S!past
<1> HIDE DEF n, m, c, due
<1>10. CASE due # <<>>
  <2>1. c >= 1 /\ c \in 1 .. c
    <3>1. c # 0
      BY <1>8, <1>8a, <1>10
    <3> QED BY <1>8, <1>8a, <3>1
  <2> DEFINE k == order[c]
             top == x[k]
  <2>2. k \in chosen /\ k \in 1 .. n /\ a[k].at <= t.slot /\ due[Len(due)] = a[k]
    BY <1>7, <1>8, <1>8a, <2>1
  <2>3. /\ top \in S!transitions(t.day) /\ top.at <= t.slot /\ top.day = t.day
        /\ top.at = a[k].at /\ top.action = a[k].action
    BY <1>3, <2>2
  <2>4. top \in S!past(t)
    BY <1>9, <2>3
  <2>5. S!desired(t) = <<top.day, top.at, top.action>>
    BY <1>6, <1>10, <2>2, <2>3 DEF S!key
  <2> HIDE DEF top
  <2>6. ASSUME NEW y \in S!past(t) \ {top} PROVE S!later(top, y)
    <3>1. CASE y \in S!transitions(t.day) /\ y.at <= t.slot
      <4>1. PICK i \in 1 .. n : x[i] = y
        BY <1>3, <3>1
      <4>2. i \in chosen
        BY <1>3, <1>7, <3>1, <4>1
      <4>3. PICK j \in 1 .. c : order[j] = i
        BY <1>8, <1>8a, <4>2
      <4>4. j # c
        BY <2>6, <4>1, <4>3 DEF top
      <4>5. i < k
        BY <1>8, <1>8a, <2>1, <4>3, <4>4
      <4> QED BY <1>3, <2>2, <4>1, <4>5 DEF top
    <3>2. CASE y \in S!transitions(t.day - 1)
      <4>1. y.day = t.day - 1
        BY <1>5, <3>2
      <4> QED BY <1>1, <2>3, <4>1 DEF S!later
    <3> QED BY <1>9, <2>6, <3>1, <3>2
  <2> QED BY <2>4, <2>5, <2>6 DEF S!latest
<1>11. CASE due = <<>>
  <2>1. chosen = {}
    <3>1. c = 0
      BY <1>8, <1>8a, <1>11
    <3> QED BY <1>8, <1>8a, <3>1
  <2>2. \A y \in S!transitions(t.day) : ~(y.at <= t.slot)
    <3> SUFFICES ASSUME NEW y \in S!transitions(t.day), y.at <= t.slot PROVE FALSE
      OBVIOUS
    <3>1. PICK i \in 1 .. n : x[i] = y
      BY <1>3
    <3> QED BY <1>3, <1>7, <2>1, <3>1
  <2>3. S!past(t) = S!transitions(t.day - 1)
    BY <1>9, <2>2
  <2>4. CASE b # <<>>
    <3>1. m >= 1 /\ m \in 1 .. m
      BY <1>4, <2>4, EmptySeq DEF m
    <3> DEFINE top == z[m]
    <3>2. /\ top \in S!past(t) /\ top.day = t.day - 1
          /\ top.at = b[m].at /\ top.action = b[m].action
      BY <1>5, <2>3, <3>1
    <3>3. S!desired(t) = <<top.day, top.at, top.action>>
      BY <1>6, <1>11, <2>4, <3>2 DEF S!key, m
    <3>4. ASSUME NEW y \in S!past(t) \ {top} PROVE S!later(top, y)
      <4>1. PICK i \in 1 .. m : z[i] = y
        BY <1>5, <2>3
      <4>2. i < m
        BY <1>4, <3>4, <4>1
      <4> QED BY <1>5, <3>1, <4>1, <4>2
    <3> QED BY <3>2, <3>3, <3>4 DEF S!latest
  <2>5. CASE b = <<>>
    <3>1. m = 0
      BY <2>5 DEF m
    <3>2. S!past(t) = {}
      BY <1>5, <2>3, <3>1
    <3> QED BY <1>6, <1>11, <2>5, <3>2 DEF S!latest
  <2> QED BY <2>4, <2>5
<1> QED BY <1>10, <1>11

\* Of a day's transitions the day and the time are those of an instant.
LEMMA TransitionFacts ==
  ASSUME schedule \in Clean, NEW d \in Nat, NEW y \in S!transitions(d)
  PROVE  y.day = d /\ y.at \in Slot /\ y.rank \in Nat
<1> DEFINE s == S!effectiveEntries(d)
           n == Len(s)
           E == [at : Slot, action : Targets \cup {S!Sleep, S!Wake}]
<1>0. /\ n \in Nat /\ DOMAIN s = 1 .. n /\ s \in Seq(E)
      /\ \E x \in [1 .. n -> S!transitions(d)] :
           /\ \A i \in 1 .. n : /\ x[i].day = d /\ x[i].at = s[i].at
                                /\ x[i].action = s[i].action
           /\ \A i, j \in 1 .. n : i < j => S!later(x[j], x[i])
           /\ \A z \in S!transitions(d) : \E i \in 1 .. n : x[i] = z
  BY EffectiveFacts
<1>1. n \in Nat /\ DOMAIN s = 1 .. n /\ s \in Seq(E)
  BY <1>0
<1>2. PICK x \in [1 .. n -> S!transitions(d)] :
         /\ \A i \in 1 .. n : x[i].day = d /\ x[i].at = s[i].at
         /\ \A z \in S!transitions(d) : \E i \in 1 .. n : x[i] = z
  <2> HIDE DEF s, E
  <2> QED BY <1>0
<1>3. PICK i \in 1 .. n : x[i] = y
  BY <1>2
<1> HIDE DEF s, E
<1>4. s[i] \in E
  BY <1>1, LenProperties
<1>5. s[i].at \in Slot
  BY <1>4 DEF E
<1>6. y.rank \in Nat
  <2>1. \A v : \A k \in DOMAIN v : v \in Seq(CleanEntry) => k \in Nat
    BY LenProperties
  <2>2. S!dayEntries(d) \in Seq(CleanEntry) /\ <<>> \in Seq(CleanEntry)
    BY DayEntriesClean DEF CleanEntries
  <2> QED BY <2>1, <2>2 DEF S!transitions
<1> QED BY <1>2, <1>3, <1>5, <1>6

\* What is kept is clean and is what the file holds; the clock is past what was
\* looked at last, and lastKey is what was due then.
SchedInv ==
    /\ schedule \in Clean /\ nightlyLoaded \in BOOLEAN
    /\ scheduleFile.nightlyLoaded = nightlyLoaded
    /\ S!sanitize(scheduleFile.schedule) = schedule
    /\ now \in S!Instants /\ now.day > 0
    /\ looked \in S!Instants \cup {S!Never}
    /\ looked # S!Never => looked.day > 0 /\ ~S!before(now, looked)
    /\ \A t \in S!Instants :
          looked = t => lastKey = S!desired(t) \/ S!desired(t) = S!NoKey

\* What the rest of the node does leaves this service alone.
LEMMA SchedAlone == Spec => S!Init /\ [][S!Next]_(S!vars)
<1>1. Init => S!Init
  BY DEF Init
<1>2. [Next]_vars => [S!Next]_(S!vars)
  BY DEF Next, vars, svars, avars, pvars, yvars, bvars, lvars, cvars, gvars, nvars,
         jvars, tvars, kvars, xvars, S!vars
<1> QED BY <1>1, <1>2, PTL DEF Spec

\* What is due is a matter of the schedule.
LEMMA DesiredSame ==
  ASSUME schedule' = schedule, NEW t PROVE S!desired(t)' = S!desired(t)
  BY DEF S!desired, S!effectiveEntries, S!dayEntries, S!window

\* load() and MigrateNightly() start from a schedule that is clean, and leave one
\* in the file that is the same once it is read again.
LEMMA StartedFacts ==
  ASSUME NEW f, f.nightlyLoaded \in BOOLEAN, S!sanitize(f.schedule) \in Clean
  PROVE  /\ S!started(f).schedule \in Clean /\ S!started(f).nightlyLoaded \in BOOLEAN
         /\ S!kept(f).nightlyLoaded = S!started(f).nightlyLoaded
         /\ S!sanitize(S!kept(f).schedule) = S!started(f).schedule
         /\ f.nightlyLoaded => S!started(f).schedule = S!sanitize(f.schedule)
<1> DEFINE k == S!sanitize(f.schedule)
           migrates == ~f.nightlyLoaded /\ Legacy # NoWindow
           r == IF migrates THEN [k EXCEPT !.nightly = S!sanitizeNightly(Legacy)] ELSE k
           s == S!started(f)
<1>1. /\ s.schedule = r /\ s.saves = migrates
      /\ s.nightlyLoaded = (f.nightlyLoaded \/ migrates)
  BY DEF S!started
<1> HIDE DEF k, s
<1>2. k \in Clean
  BY DEF k
<1>3. CASE migrates
  <2>1. S!sanitizeNightly(Legacy) \in CleanWindow
    BY <1>3, ScheduleAssumption, NightlyClean
  <2>2. r \in Clean
    BY <1>2, <1>3, <2>1 DEF Clean
  <2>3. S!sanitize(r) = r
    BY <2>2, SanitizeClean
  <2> HIDE DEF r
  <2>4. S!kept(f) = [schedule |-> r, nightlyLoaded |-> TRUE]
    BY <1>1, <1>3 DEF s, S!kept
  <2>5. S!kept(f).nightlyLoaded = TRUE /\ S!kept(f).schedule = r
    BY <2>4
  <2> QED BY <1>1, <1>3, <2>2, <2>3, <2>5 DEF s
<1>4. CASE ~migrates
  <2>1. S!kept(f) = f
    BY <1>1, <1>4 DEF s, S!kept
  <2> QED BY <1>1, <1>2, <1>4, <2>1 DEF s, k
<1> QED BY <1>3, <1>4

\* Every step of the ticker, the clock, a client or a restart keeps it.
LEMMA SchedStep == SchedInv /\ [S!Next]_(S!vars) => SchedInv'
<1> SUFFICES ASSUME SchedInv, [S!Next]_(S!vars) PROVE SchedInv'
  OBVIOUS
<1> USE DEF SchedInv
<1>0. S!Never \notin S!Instants
  BY ScheduleAssumption DEF S!Never, S!Instants
<1>1. CASE S!Tick
  <2>1. /\ looked' = now /\ UNCHANGED <<schedule, nightlyLoaded, scheduleFile, now>>
        /\ S!desired(now) = S!NoKey \/ lastKey' = S!desired(now)
    BY <1>1 DEF S!Tick
  <2>2. ~S!before(now, now)
    BY ScheduleAssumption DEF S!before, S!Instants
  <2>3. ~S!before(now', looked')
    BY <2>1, <2>2 DEF S!before
  <2>4. ASSUME NEW t \in S!Instants, looked' = t
        PROVE  lastKey' = S!desired(t)' \/ S!desired(t)' = S!NoKey
    BY <2>1, <2>4, DesiredSame
  <2> QED BY <2>1, <2>3, <2>4
<1>2. CASE S!Fire
  <2>1. UNCHANGED <<schedule, nightlyLoaded, lastKey, scheduleFile, now, looked>>
    BY <1>2 DEF S!Fire
  <2>2. \A t \in S!Instants : S!desired(t)' = S!desired(t)
    BY <2>1, DesiredSame
  <2> QED BY <2>1, <2>2 DEF S!before
<1>3. CASE S!Advance
  <2>1. UNCHANGED <<schedule, nightlyLoaded, lastKey, scheduleFile, looked>>
    BY <1>3 DEF S!Advance
  <2>2. \A t \in S!Instants : S!desired(t)' = S!desired(t)
    BY <2>1, DesiredSame
  <2>3. /\ now.day \in Nat /\ now.slot \in 0 .. Slots - 1 /\ now.day < Horizon
        /\ now = [day |-> now.day, slot |-> now.slot]
    BY ScheduleAssumption DEF S!Instants
  <2>4. \/ now'.day = now.day /\ now'.slot = now.slot + 1 /\ now' \in S!Instants
        \/ now'.day = now.day + 1 /\ now'.slot = 0 /\ now' \in S!Instants
    BY <1>3, <2>3, ScheduleAssumption DEF S!Advance, S!Instants
  <2>5. now' \in S!Instants /\ now'.day > 0
    BY <2>3, <2>4
  <2>6. looked # S!Never => ~S!before(now', looked)
    <3> SUFFICES ASSUME looked # S!Never PROVE ~S!before(now', looked)
      OBVIOUS
    <3>1. looked.day \in Nat /\ looked.slot \in Nat
      BY ScheduleAssumption DEF S!Instants
    <3> QED BY <2>3, <2>4, <3>1, ScheduleAssumption DEF S!before
  <2>7. looked' # S!Never => looked'.day > 0 /\ ~S!before(now, looked)'
    BY <2>1, <2>6 DEF S!before
  <2> QED BY <2>1, <2>2, <2>5, <2>7
<1>4. CASE S!Restart
  <2>1. /\ schedule' = S!started(scheduleFile).schedule
        /\ nightlyLoaded' = S!started(scheduleFile).nightlyLoaded
        /\ scheduleFile' = S!kept(scheduleFile)
        /\ looked' = S!Never /\ now' = now
    BY <1>4 DEF S!Restart, S!Start
  <2>2. /\ schedule' \in Clean /\ nightlyLoaded' \in BOOLEAN
        /\ scheduleFile'.nightlyLoaded = nightlyLoaded'
        /\ S!sanitize(scheduleFile'.schedule) = schedule'
    BY <2>1, StartedFacts
  <2> QED BY <1>0, <2>1, <2>2
<1>5. ASSUME NEW s \in Schedules, S!Set(s) PROVE SchedInv'
  <2>1. /\ schedule' = S!sanitize(s) /\ nightlyLoaded' = TRUE /\ looked' = S!Never
        /\ scheduleFile' = [schedule |-> S!sanitize(s), nightlyLoaded |-> TRUE]
        /\ now' = now
    BY <1>5 DEF S!Set
  <2>2. S!sanitize(s) \in Clean /\ S!sanitize(S!sanitize(s)) = S!sanitize(s)
    BY ScheduleAssumption, SanitizeClean
  <2> QED BY <1>0, <2>1, <2>2
<1>6. CASE UNCHANGED S!vars
  <2>1. UNCHANGED <<schedule, nightlyLoaded, lastKey, scheduleFile, now, looked>>
    BY <1>6 DEF S!vars
  <2>2. \A t \in S!Instants : S!desired(t)' = S!desired(t)
    BY <2>1, DesiredSame
  <2> QED BY <2>1, <2>2 DEF S!before
<1> QED BY <1>1, <1>2, <1>3, <1>4, <1>5, <1>6 DEF S!Next

\* The invariant of this service holds at the start, and so throughout.
LEMMA SchedHolds == Spec => []SchedInv
<1>1. S!Init => SchedInv
  <2> SUFFICES ASSUME S!Init PROVE SchedInv
    OBVIOUS
  <2>1. PICK f \in ScheduleFiles :
          /\ schedule = S!started(f).schedule
          /\ nightlyLoaded = S!started(f).nightlyLoaded
          /\ looked = S!Never /\ now = [day |-> 1, slot |-> 0]
          /\ scheduleFile = S!kept(f)
    BY DEF S!Init
  <2>2. f.nightlyLoaded \in BOOLEAN /\ f.schedule \in Calendar
    BY ScheduleAssumption
  <2>3. S!sanitize(f.schedule) \in Clean
    BY <2>2, SanitizeClean
  <2>4. /\ schedule \in Clean /\ nightlyLoaded \in BOOLEAN
        /\ scheduleFile.nightlyLoaded = nightlyLoaded
        /\ S!sanitize(scheduleFile.schedule) = schedule
    BY <2>1, <2>2, <2>3, StartedFacts
  <2>5. now \in S!Instants /\ now.day > 0 /\ S!Never \notin S!Instants
    BY <2>1, ScheduleAssumption DEF S!Instants, S!Never
  <2> QED BY <2>1, <2>4, <2>5 DEF SchedInv
<1> QED BY <1>1, SchedStep, SchedAlone, PTL

\* The invariant contains the types.
LEMMA SchedTyped == SchedInv => S!TypeOK
<1> SUFFICES ASSUME SchedInv PROVE S!TypeOK
  OBVIOUS
<1>1. schedule.days \in [0 .. Week - 1 -> CleanEntries] /\ schedule.enabled \in BOOLEAN
  BY DEF SchedInv, Clean
<1>2. ASSUME NEW d \in 0 .. Week - 1
      PROVE  /\ S!sorted(schedule.days[d]) /\ Len(schedule.days[d]) <= MaxEntries
             /\ \A i \in DOMAIN schedule.days[d] : S!parses(schedule.days[d][i].at)
  <2> DEFINE e == schedule.days[d]
  <2>1. e \in Seq(CleanEntry) /\ S!sorted(e) /\ Len(e) <= MaxEntries
    BY <1>1 DEF CleanEntries
  <2> HIDE DEF e
  <2>2. \A i \in DOMAIN e : e[i] \in CleanEntry
    BY <2>1, LenProperties
  <2>3. \A i \in DOMAIN e : S!parses(e[i].at)
    BY <2>2, ScheduleAssumption DEF CleanEntry, Slot, S!parses
  <2> QED BY <2>1, <2>3 DEF e
<1> QED BY <1>1, <1>2 DEF SchedInv, S!TypeOK

\* While no transition falls between two instants, what was due at the first is
\* due at the second, whatever midnights lie between.
LEMMA DueSticks ==
  ASSUME schedule \in Clean, NEW s \in S!Instants, NEW t \in S!Instants,
         s.day > 0, t.day > 0, ~S!before(t, s),
         \A d \in s.day .. t.day : \A x \in S!transitions(d) : ~S!crossed(x, s, t),
         S!desired(t) # S!NoKey
  PROVE  S!desired(s) = S!desired(t)
<1>1. /\ s.day \in Nat /\ s.slot \in Nat /\ t.day \in Nat /\ t.slot \in Nat
      /\ s.day - 1 \in Nat /\ t.day - 1 \in Nat
      /\ s.slot < Slots /\ t.slot < Slots /\ Slots \in Nat
  BY ScheduleAssumption DEF S!Instants
<1>2. s.day < t.day \/ (s.day = t.day /\ s.slot <= t.slot)
  BY <1>1 DEF S!before
<1>3. PICK x \in S!past(t) : /\ S!desired(t) = <<x.day, x.at, x.action>>
                             /\ \A y \in S!past(t) \ {x} : S!later(x, y)
  BY DesiredLatest DEF S!latest
<1>4. /\ x.day = t.day \/ x.day = t.day - 1
      /\ x \in S!transitions(x.day) /\ x.day \in Nat
      /\ x.at \in Nat /\ x.at < Slots
      /\ x.day = t.day => x.at <= t.slot
  <2>1. CASE x \in S!transitions(t.day) /\ x.at <= t.slot
    <3>1. x.day = t.day /\ x.at \in Slot
      BY <1>1, <2>1, TransitionFacts
    <3> QED BY <1>1, <2>1, <3>1 DEF Slot
  <2>2. CASE x \in S!transitions(t.day - 1)
    <3>1. x.day = t.day - 1 /\ x.at \in Slot
      BY <1>1, <2>2, TransitionFacts
    <3> QED BY <1>1, <2>2, <3>1 DEF Slot
  <2> QED BY <2>1, <2>2 DEF S!past
<1>5. x.day < s.day \/ (x.day = s.day /\ x.at <= s.slot)
  <2> SUFFICES ASSUME ~(x.day < s.day \/ (x.day = s.day /\ x.at <= s.slot)) PROVE FALSE
    OBVIOUS
  <2>1. x.day \in s.day .. t.day
    BY <1>1, <1>4
  <2>2. S!crossed(x, s, t)
    BY <1>1, <1>2, <1>4 DEF S!crossed, S!before
  <2> QED BY <1>4, <2>1, <2>2
<1>6. x \in S!past(s)
  <2>1. x.day = s.day \/ x.day = s.day - 1
    BY <1>1, <1>2, <1>4, <1>5
  <2> QED BY <1>1, <1>4, <1>5, <2>1 DEF S!past
<1>7. PICK z \in S!past(s) : /\ S!desired(s) = <<z.day, z.at, z.action>>
                             /\ \A y \in S!past(s) \ {z} : S!later(z, y)
  BY <1>6, DesiredLatest DEF S!latest
<1>8. /\ z.day = s.day \/ z.day = s.day - 1
      /\ z \in S!transitions(z.day) /\ z.at \in Nat
      /\ z.day = s.day => z.at <= s.slot
  <2>1. CASE z \in S!transitions(s.day) /\ z.at <= s.slot
    <3>1. z.day = s.day /\ z.at \in Slot
      BY <1>1, <2>1, TransitionFacts
    <3> QED BY <1>1, <2>1, <3>1 DEF Slot
  <2>2. CASE z \in S!transitions(s.day - 1)
    <3>1. z.day = s.day - 1 /\ z.at \in Slot
      BY <1>1, <2>2, TransitionFacts
    <3> QED BY <1>1, <2>2, <3>1 DEF Slot
  <2> QED BY <2>1, <2>2 DEF S!past
<1>9. CASE x = z
  BY <1>3, <1>7, <1>9
<1>10. CASE x # z
  <2>1. S!later(z, x)
    BY <1>6, <1>7, <1>10
  <2>2. z.day >= x.day
    BY <1>1, <1>4, <1>8, <2>1 DEF S!later
  <2>3. z.day = t.day \/ z.day = t.day - 1
    BY <1>1, <1>2, <1>4, <1>8, <2>2
  <2>4. z.day = t.day => z.at <= t.slot
    BY <1>1, <1>2, <1>8
  <2>5. z \in S!past(t)
    BY <1>8, <2>3, <2>4 DEF S!past
  <2>6. S!later(x, z)
    BY <1>3, <1>10, <2>5
  <2>7. x.rank \in Nat /\ z.rank \in Nat
    BY <1>1, <1>4, <1>8, TransitionFacts
  <2> QED BY <1>1, <1>4, <1>8, <2>1, <2>6, <2>7 DEF S!later
<1> QED BY <1>9, <1>10

\* A tick fires when a transition was crossed, or a schedule is looked at for the
\* first time, and once the window was migrated only a client changes the schedule.
Crossing ==
    firing = NoAction /\ firing' # NoAction =>
        \/ looked = S!Never
        \/ \E d \in looked.day .. now.day : \E x \in S!transitions(d) :
               S!crossed(x, looked, now)
Chosen == nightlyLoaded /\ schedule' # schedule =>
              \E s \in Schedules : schedule' = S!sanitize(s)

\* Every step keeps to what was due, or to the switch by hand.
LEMMA SchedActs ==
  SchedInv /\ [S!Next]_(S!vars) => [Crossing]_(S!vars) /\ [Chosen]_(S!vars)
<1> SUFFICES ASSUME SchedInv, S!Next PROVE Crossing /\ Chosen
  OBVIOUS
<1>1. CASE S!Tick
  <2>1. UNCHANGED schedule
    BY <1>1 DEF S!Tick
  <2>2. ASSUME firing = NoAction, firing' # NoAction, looked # S!Never,
               \A d \in looked.day .. now.day : \A x \in S!transitions(d) :
                  ~S!crossed(x, looked, now)
        PROVE  FALSE
    <3>1. S!desired(now) # S!NoKey /\ S!desired(now) # lastKey
      BY <1>1, <2>2 DEF S!Tick
    <3>2. /\ looked \in S!Instants /\ now \in S!Instants /\ schedule \in Clean
          /\ looked.day > 0 /\ now.day > 0 /\ ~S!before(now, looked)
          /\ lastKey = S!desired(looked) \/ S!desired(looked) = S!NoKey
      BY <2>2 DEF SchedInv
    <3>3. S!desired(looked) = S!desired(now)
      BY <2>2, <3>1, <3>2, DueSticks
    <3> QED BY <3>1, <3>2, <3>3
  <2> QED BY <2>1, <2>2 DEF Crossing, Chosen
<1>2. CASE S!Fire \/ S!Advance
  BY <1>2 DEF S!Fire, S!Advance, Crossing, Chosen
<1>3. CASE S!Restart
  <2>1. schedule' = S!started(scheduleFile).schedule /\ firing' = NoAction
    BY <1>3 DEF S!Restart, S!Start
  <2>2. nightlyLoaded => schedule' = schedule
    <3> SUFFICES ASSUME nightlyLoaded PROVE schedule' = schedule
      OBVIOUS
    <3>1. /\ scheduleFile.nightlyLoaded \in BOOLEAN /\ scheduleFile.nightlyLoaded
          /\ S!sanitize(scheduleFile.schedule) = schedule /\ schedule \in Clean
      BY DEF SchedInv
    <3>2. S!started(scheduleFile).schedule = S!sanitize(scheduleFile.schedule)
      BY <3>1 DEF S!started
    <3> QED BY <2>1, <3>1, <3>2
  <2> QED BY <2>1, <2>2 DEF Crossing, Chosen
<1>4. ASSUME NEW s \in Schedules, S!Set(s) PROVE Crossing /\ Chosen
  BY <1>4 DEF S!Set, Crossing, Chosen
<1> QED BY <1>1, <1>2, <1>3, <1>4 DEF S!Next

-----------------------------------------------------------------------------
(* The list of networks: what the rows of a scan say together (net.go) *)

\* The order of the list is one of Ranking.
LEMMA SameRankingN ==
  /\ \A chosen, R : N!Arranged(chosen, R) = Arranged(chosen, R)
  /\ \A chosen : N!Cardinality(chosen) = Cardinality(chosen)
  BY DEF N!Arranged, Arranged, N!preceding, preceding, N!Cardinality, Cardinality

\* The largest of a set that has it as a bound.
LEMMA LargestFacts ==
  ASSUME NEW Q, Q \subseteq Nat, NEW m \in Q, \A q \in Q : q <= m PROVE N!Max(Q) = m
<1> DEFINE Bounds(x) == \A y \in Q : x >= y
<1>1. Bounds(m) /\ \A x \in Q : Bounds(x) => x = m
  OBVIOUS
<1> HIDE DEF Bounds
<1>2. (CHOOSE x \in Q : Bounds(x)) = m
  BY <1>1
<1> QED BY <1>2 DEF Bounds, N!Max

Network == [ssid : Cells, signal : Signals \cup {0}, security : Labels,
            active : BOOLEAN, saved : BOOLEAN]

\* SSIDs and signals are numbers.
LEMMA ScanNumbers ==
  /\ \A s \in Cells : s \in Nat /\ s # 0
  /\ \A g \in Signals : g \in Nat
  /\ \A a \in Network : /\ a.ssid \in Cells /\ a.ssid \in Nat /\ a.signal \in Nat
                        /\ a.active \in BOOLEAN /\ a.saved \in BOOLEAN
  /\ \A r \in N!Rows : r.signal \in Nat
<1>1. \A s \in Cells : s \in Nat /\ s # 0
  BY ScanAssumption
<1>2. \A g \in Signals : g \in Nat
  BY ScanAssumption
<1>3. \A a \in Network : /\ a.ssid \in Cells /\ a.signal \in Signals \cup {0}
                         /\ a.active \in BOOLEAN /\ a.saved \in BOOLEAN
  BY DEF Network
<1>4. \A r \in N!Rows : r.signal \in Signals
  BY DEF N!Rows
<1> QED BY <1>1, <1>2, <1>3, <1>4

\* What the rows say of an SSID.
Seen(s)      == \E k \in DOMAIN rows : rows[k].ssid = s
Connected(s) == \E k \in DOMAIN rows : rows[k].ssid = s /\ rows[k].active
Heard(s, g)  == \E k \in DOMAIN rows : rows[k].ssid = s /\ rows[k].signal = g
Capped(s, g) == \A k \in DOMAIN rows : rows[k].ssid = s => rows[k].signal <= g

\* What the list says of a network while it is made: what the rows say together.
Sums(a) ==
    /\ a.saved <=> a.ssid \in DOMAIN saved
    /\ a.active <=> Connected(a.ssid)
    /\ a.signal = 0 \/ Heard(a.ssid, a.signal)
    /\ Capped(a.ssid, a.signal)

Listed ==
    /\ \A a \in Network : \A i \in DOMAIN networks :
         networks[i] = a => Sums(a) /\ Seen(a.ssid)
    /\ \A i, j \in DOMAIN networks : networks[i].ssid = networks[j].ssid => i = j
    /\ \A s \in Cells : Seen(s) => \E i \in DOMAIN networks : networks[i].ssid = s
    /\ active # N!Hidden => \E i \in DOMAIN networks : networks[i].active

ScanInv ==
    /\ rows \in Seq(N!Rows) /\ Len(rows) <= MaxRows /\ done \in BOOLEAN
    /\ active \in Cells \cup {N!Hidden}
    /\ DOMAIN saved \subseteq Cells /\ \A x \in DOMAIN saved : saved[x] \in Labels
    /\ networks \in Seq(Network)
    /\ ~done => Listed
    /\ N!ScanIsSummary

\* What the rest of the node does leaves the list of networks alone.
LEMMA ScanAlone == Spec => N!Init /\ [][N!Next]_(N!vars)
<1>1. Init => N!Init
  BY DEF Init
<1>2. [Next]_vars => [N!Next]_(N!vars)
  BY DEF Next, vars, svars, avars, pvars, yvars, bvars, lvars, cvars, gvars, nvars,
         jvars, tvars, kvars, xvars, N!vars
<1> QED BY <1>1, <1>2, PTL DEF Spec

\* The order of the list tells any two networks apart.
LEMMA NetworksOrdered ==
  ASSUME NEW ns, ns \subseteq Network,
         \A a, b \in ns : a.ssid = b.ssid => a = b
  PROVE  Orders({p \in ns \X ns : N!lessNetwork(p[1], p[2])}, ns)
<1>1. \A a \in ns : /\ a.ssid \in Nat /\ a.signal \in Nat
                    /\ a.active \in BOOLEAN /\ a.saved \in BOOLEAN
  BY ScanNumbers
<1> SUFFICES ASSUME NEW a \in ns, NEW b \in ns, NEW c \in ns
             PROVE  /\ ~N!lessNetwork(a, a)
                    /\ N!lessNetwork(a, b) /\ N!lessNetwork(b, c) => N!lessNetwork(a, c)
                    /\ a # b => N!lessNetwork(a, b) \/ N!lessNetwork(b, a)
  BY DEF Orders
<1>2. ~N!lessNetwork(a, a)
  BY <1>1 DEF N!lessNetwork
<1>3. N!lessNetwork(a, b) /\ N!lessNetwork(b, c) => N!lessNetwork(a, c)
  BY <1>1 DEF N!lessNetwork
<1>4. a # b => N!lessNetwork(a, b) \/ N!lessNetwork(b, a)
  BY <1>1 DEF N!lessNetwork
<1> QED BY <1>2, <1>3, <1>4

\* One row more.
LEMMA RowStep ==
  ASSUME ScanInv, NEW r \in N!Rows, N!Scan(r) PROVE ScanInv'
<1> DEFINE n == Len(rows)
           m == Len(networks)
<1>1. /\ ~done /\ done' = done /\ n < MaxRows /\ rows' = Append(rows, r) /\ saved' = saved
      /\ Listed
  BY DEF N!Scan, ScanInv
<1>2. /\ rows \in Seq(N!Rows) /\ n \in Nat /\ DOMAIN rows = 1 .. n
      /\ \A k \in 1 .. n : rows[k] \in N!Rows
      /\ networks \in Seq(Network) /\ m \in Nat /\ DOMAIN networks = 1 .. m
      /\ \A i \in 1 .. m : networks[i] \in Network
  BY LenProperties DEF ScanInv
<1>3. /\ rows' \in Seq(N!Rows) /\ Len(rows') = n + 1 /\ DOMAIN rows' = 1 .. n + 1
      /\ \A k \in 1 .. n : rows'[k] = rows[k]
      /\ rows'[n + 1] = r
  BY <1>1, <1>2, AppendProperties
<1>4. /\ r.ssid \in Cells \cup {0} /\ r.signal \in Signals /\ r.signal \in Nat
      /\ r.active \in BOOLEAN /\ r.security \in Labels
  BY ScanAssumption DEF N!Rows, N!Hidden
<1> HIDE DEF n, m
<1>5. \A s, g : /\ Seen(s)' <=> Seen(s) \/ r.ssid = s
                /\ Connected(s)' <=> Connected(s) \/ (r.ssid = s /\ r.active)
                /\ Heard(s, g)' <=> Heard(s, g) \/ (r.ssid = s /\ r.signal = g)
                /\ Capped(s, g)' <=> Capped(s, g) /\ (r.ssid = s => r.signal <= g)
  <2>1. DOMAIN rows' = DOMAIN rows \cup {n + 1} /\ n + 1 \notin DOMAIN rows
    BY <1>2, <1>3
  <2> QED BY <1>2, <1>3, <2>1 DEF Seen, Connected, Heard, Capped
<1>6. /\ Len(rows') <= MaxRows /\ done' \in BOOLEAN
      /\ DOMAIN saved' \subseteq Cells /\ \A x \in DOMAIN saved' : saved'[x] \in Labels
  BY <1>1, <1>2, <1>3, ScanAssumption DEF ScanInv
<1>7. N!ScanIsSummary'
  BY <1>1 DEF N!ScanIsSummary
<1>8. CASE r.ssid = N!Hidden
  <2>1. UNCHANGED <<networks, active>>
    BY <1>8 DEF N!Scan
  <2>2. \A a \in Network : a.ssid # r.ssid
    BY <1>8, ScanAssumption DEF Network, N!Hidden
  <2>3. \A a \in Network : Sums(a) /\ Seen(a.ssid) => Sums(a)' /\ Seen(a.ssid)'
    BY <1>1, <1>5, <2>2 DEF Sums
  <2>4. \A s \in Cells : Seen(s)' => Seen(s)
    BY <1>5, <1>8, ScanAssumption DEF N!Hidden
  <2>5. Listed'
    BY <1>1, <2>1, <2>3, <2>4 DEF Listed
  <2> QED BY <1>1, <1>3, <1>6, <1>7, <2>1, <2>5 DEF ScanInv
<1>9. CASE r.ssid # N!Hidden /\ N!index(r) # {}
  <2>1. /\ active' = IF r.active THEN r.ssid ELSE active
        /\ networks' = [i \in DOMAIN networks |->
                           IF i \in N!index(r) THEN N!merged(networks[i], r)
                           ELSE networks[i]]
    BY <1>9 DEF N!Scan
  <2>2. PICK l \in 1 .. m : networks[l].ssid = r.ssid
    BY <1>2, <1>9 DEF N!index
  <2>3. \A i \in 1 .. m : i \in N!index(r) <=> i = l
    BY <1>1, <1>2, <2>2 DEF N!index, Listed
  <2>4. /\ networks' = [i \in 1 .. m |->
                           IF i = l THEN N!merged(networks[l], r) ELSE networks[i]]
    BY <1>2, <2>1, <2>3
  <2>5. /\ networks'[l] \in Network /\ networks'[l].ssid = r.ssid
        /\ networks'[l].saved = networks[l].saved
        /\ networks'[l].active = (networks[l].active \/ r.active)
        /\ networks'[l].signal = IF r.signal > networks[l].signal THEN r.signal
                                 ELSE networks[l].signal
    BY <1>2, <1>4, <2>2, <2>4 DEF N!merged, Network
  <2>6. \A i \in 1 .. m : i # l => networks'[i] = networks[i] /\ networks[i].ssid # r.ssid
    BY <1>1, <1>2, <2>2, <2>4 DEF Listed
  <2>7. networks' \in [1 .. m -> Network]
    BY <1>2, <2>4, <2>5, <2>6
  <2>8. networks' \in Seq(Network) /\ DOMAIN networks' = 1 .. m
    BY <1>2, <2>7, IsASeq
  <2>9. ASSUME NEW a \in Network, NEW i \in 1 .. m, networks'[i] = a
        PROVE  Sums(a)' /\ Seen(a.ssid)'
    <3>1. CASE i = l
      <4> DEFINE b == networks[l]
      <4>1. b \in Network /\ Sums(b) /\ Seen(b.ssid)
        BY <1>1, <1>2 DEF Listed
      <4>2. /\ a.ssid = r.ssid /\ b.ssid = r.ssid /\ a.saved = b.saved
            /\ a.active = (b.active \/ r.active)
            /\ a.signal = IF r.signal > b.signal THEN r.signal ELSE b.signal
        BY <2>2, <2>5, <2>9, <3>1
      <4>3. b.signal \in Nat
        BY <4>1, ScanNumbers
      <4> HIDE DEF b
      <4>4. a.signal = 0 \/ Heard(a.ssid, a.signal)'
        BY <1>5, <4>1, <4>2 DEF Sums
      <4>5. \A g \in Nat : b.signal <= g /\ Capped(b.ssid, b.signal) => Capped(b.ssid, g)
        <5>1. \A k \in DOMAIN rows : rows[k].signal \in Nat
          BY <1>2, ScanNumbers
        <5> QED BY <4>3, <5>1 DEF Capped
      <4>6. Capped(a.ssid, a.signal)'
        BY <1>4, <1>5, <4>1, <4>2, <4>3, <4>5 DEF Sums
      <4>7. /\ a.saved <=> a.ssid \in DOMAIN saved'
            /\ a.active <=> Connected(a.ssid)'
        BY <1>1, <1>5, <4>1, <4>2 DEF Sums
      <4> QED BY <1>5, <4>2, <4>4, <4>6, <4>7 DEF Sums
    <3>2. CASE i # l
      <4>1. networks[i] = a /\ a.ssid # r.ssid
        BY <2>6, <2>9, <3>2
      <4>2. Sums(a) /\ Seen(a.ssid)
        BY <1>1, <1>2, <4>1 DEF Listed
      <4> QED BY <1>1, <1>5, <4>1, <4>2 DEF Sums
    <3> QED BY <3>1, <3>2
  <2>10. \A i, j \in 1 .. m : networks'[i].ssid = networks'[j].ssid => i = j
    BY <1>1, <1>2, <2>2, <2>5, <2>6 DEF Listed
  <2>11. active' # N!Hidden => \E i \in 1 .. m : networks'[i].active
    BY <1>1, <1>2, <2>1, <2>2, <2>5, <2>6 DEF Listed
  <2>a. \A s \in Cells : Seen(s)' => \E i \in 1 .. m : networks'[i].ssid = s
    <3> SUFFICES ASSUME NEW s \in Cells, Seen(s)'
                 PROVE  \E i \in 1 .. m : networks'[i].ssid = s
      OBVIOUS
    <3>1. CASE s = r.ssid
      BY <2>5, <3>1
    <3>2. CASE s # r.ssid
      <4>1. Seen(s)
        BY <1>5, <3>2
      <4>2. PICK i \in 1 .. m : networks[i].ssid = s
        BY <1>1, <1>2, <4>1 DEF Listed
      <4> QED BY <2>2, <2>6, <3>2, <4>2
    <3> QED BY <3>1, <3>2
  <2>12. Listed'
    BY <2>8, <2>9, <2>10, <2>11, <2>a DEF Listed
  <2>13. active' \in Cells \cup {N!Hidden}
    BY <1>4, <2>1 DEF ScanInv, N!Hidden
  <2> QED BY <1>3, <1>6, <1>7, <2>8, <2>12, <2>13 DEF ScanInv
<1>10. CASE r.ssid # N!Hidden /\ N!index(r) = {}
  <2> DEFINE new == N!network(r.ssid, r.signal, r.security, r.active,
                              r.ssid \in DOMAIN saved)
  <2>1. /\ active' = IF r.active THEN r.ssid ELSE active
        /\ networks' = Append(networks, new)
    BY <1>10 DEF N!Scan
  <2>2. /\ new \in Network /\ new.ssid = r.ssid /\ new.signal = r.signal
        /\ new.active = r.active /\ new.saved = (r.ssid \in DOMAIN saved)
    BY <1>4, <1>10 DEF N!network, Network, N!Hidden
  <2> HIDE DEF new
  <2>3. /\ networks' \in Seq(Network) /\ DOMAIN networks' = 1 .. m + 1
        /\ \A i \in 1 .. m : networks'[i] = networks[i]
        /\ networks'[m + 1] = new
    BY <1>2, <2>1, <2>2, AppendProperties
  <2>4. \A i \in 1 .. m : networks[i].ssid # r.ssid
    BY <1>2, <1>10 DEF N!index
  <2>5. r.ssid \in Cells /\ ~Seen(r.ssid)
    BY <1>1, <1>2, <1>4, <1>10, <2>4 DEF Listed, N!Hidden
  <2>6. \A a : a = new => Sums(a)' /\ Seen(a.ssid)'
    <3>1. \A g : ~Heard(r.ssid, g) /\ ~Connected(r.ssid) /\ Capped(r.ssid, g)
      BY <2>5 DEF Seen, Heard, Connected, Capped
    <3> SUFFICES ASSUME NEW a, a = new PROVE Sums(a)' /\ Seen(a.ssid)'
      OBVIOUS
    <3>2. /\ a.ssid = r.ssid /\ a.signal = r.signal /\ a.active = r.active
          /\ a.saved = (r.ssid \in DOMAIN saved)
      BY <2>2
    <3>3. /\ Seen(a.ssid)' /\ Heard(a.ssid, a.signal)'
          /\ a.active <=> Connected(a.ssid)'
          /\ a.saved <=> a.ssid \in DOMAIN saved'
      BY <1>1, <1>4, <1>5, <3>1, <3>2
    <3>4. Capped(a.ssid, a.signal)'
      <4>1. r.signal <= r.signal
        BY <1>4
      <4> QED BY <1>5, <3>1, <3>2, <4>1
    <3> QED BY <3>3, <3>4 DEF Sums
  <2>7. \A a \in Network : /\ Sums(a) /\ Seen(a.ssid) /\ a.ssid # r.ssid
                           => Sums(a)' /\ Seen(a.ssid)'
    BY <1>1, <1>5 DEF Sums
  <2>8. /\ \A i \in 1 .. m + 1 : i \in 1 .. m \/ i = m + 1
        /\ \A i \in 1 .. m : i \in 1 .. m + 1
        /\ m + 1 \in 1 .. m + 1
    BY <1>2
  <2>9. active' # N!Hidden => \E i \in 1 .. m + 1 : networks'[i].active
    BY <1>1, <1>2, <2>1, <2>2, <2>3, <2>8 DEF Listed
  <2>a. ASSUME NEW a \in Network, NEW i \in 1 .. m + 1, networks'[i] = a
        PROVE  Sums(a)' /\ Seen(a.ssid)'
    <3>1. CASE i \in 1 .. m
      BY <1>1, <1>2, <2>3, <2>4, <2>7, <2>a, <3>1 DEF Listed
    <3>2. CASE i = m + 1
      <4>1. a = new
        BY <2>3, <2>a, <3>2
      <4> QED BY <4>1, <2>6
    <3> QED BY <2>8, <3>1, <3>2
  <2>b. \A i, j \in 1 .. m + 1 : networks'[i].ssid = networks'[j].ssid => i = j
    <3> SUFFICES ASSUME NEW i \in 1 .. m + 1, NEW j \in 1 .. m + 1,
                        networks'[i].ssid = networks'[j].ssid
                 PROVE  i = j
      OBVIOUS
    <3>1. CASE i \in 1 .. m /\ j \in 1 .. m
      <4>1. networks[i].ssid = networks[j].ssid
        BY <2>3, <3>1
      <4>2. \A k, l \in 1 .. m : networks[k].ssid = networks[l].ssid => k = l
        BY <1>1, <1>2 DEF Listed
      <4> QED BY <3>1, <4>1, <4>2
    <3>2. CASE i = m + 1 \/ j = m + 1
      BY <2>2, <2>3, <2>4, <2>8, <3>2
    <3> QED BY <2>8, <3>1, <3>2
  <2>c. \A s \in Cells : Seen(s)' => \E i \in 1 .. m + 1 : networks'[i].ssid = s
    <3> SUFFICES ASSUME NEW s \in Cells, Seen(s)'
                 PROVE  \E i \in 1 .. m + 1 : networks'[i].ssid = s
      OBVIOUS
    <3>1. CASE s = r.ssid
      BY <2>2, <2>3, <2>8, <3>1
    <3>2. CASE s # r.ssid
      <4>1. Seen(s)
        BY <1>5, <3>2
      <4>2. PICK i \in 1 .. m : networks[i].ssid = s
        BY <1>1, <1>2, <4>1 DEF Listed
      <4> QED BY <2>3, <2>8, <4>2
    <3> QED BY <3>1, <3>2
  <2>10. Listed'
    BY <2>3, <2>9, <2>a, <2>b, <2>c DEF Listed
  <2>11. active' \in Cells \cup {N!Hidden}
    BY <1>4, <2>1 DEF ScanInv, N!Hidden
  <2> QED BY <1>3, <1>6, <1>7, <2>3, <2>10, <2>11 DEF ScanInv
<1> QED BY <1>8, <1>9, <1>10

\* The last step: the saved networks that were not seen join, and the list is put
\* in order.
LEMMA FinishStep == ASSUME ScanInv, N!Finish PROVE ScanInv'
<1> DEFINE m == Len(networks)
           unseen == {s \in DOMAIN saved : N!index([ssid |-> s]) = {}}
           added == {N!network(s, 0, saved[s], FALSE, TRUE) : s \in unseen}
           ns == N!ToSet(networks) \cup added
           R == {p \in ns \X ns : N!lessNetwork(p[1], p[2])}
           names == N!seen \cup DOMAIN saved
<1>1. /\ ~done /\ done' = TRUE /\ Listed
      /\ UNCHANGED <<saved, rows, active>>
      /\ networks' = Arranged(ns, R)
  BY SameRankingN DEF N!Finish, ScanInv, N!sortNetworks
<1>2. /\ networks \in Seq(Network) /\ DOMAIN networks = 1 .. m
      /\ \A i \in 1 .. m : networks[i] \in Network
      /\ DOMAIN saved \subseteq Cells /\ \A s \in DOMAIN saved : saved[s] \in Labels
      /\ \A k \in DOMAIN rows : rows[k] \in N!Rows
  BY LenProperties DEF ScanInv
<1>3. N!ToSet(networks) = {networks[i] : i \in 1 .. m}
  BY <1>2 DEF N!ToSet
<1>4. \A s : s \in unseen <=> s \in DOMAIN saved /\ \A i \in 1 .. m : networks[i].ssid # s
  BY <1>2 DEF N!index
<1>5. \A s : s \in N!seen <=> s \in Cells /\ Seen(s)
  BY <1>2, ScanNumbers DEF Seen, N!seen, N!Rows, N!Hidden
<1> HIDE DEF m, unseen
<1>6. ASSUME NEW a \in added
      PROVE  /\ a \in Network /\ a.ssid \in unseen /\ a.saved = TRUE /\ a.active = FALSE
             /\ a.signal = 0 /\ a.security = saved[a.ssid]
             /\ a = N!network(a.ssid, 0, saved[a.ssid], FALSE, TRUE)
  <2>1. PICK s \in unseen : a = N!network(s, 0, saved[s], FALSE, TRUE)
    OBVIOUS
  <2>2. s \in Cells /\ saved[s] \in Labels
    BY <1>2, <1>4
  <2> QED BY <2>1, <2>2 DEF N!network, Network
<1>7. \A s \in unseen : \E a \in added : a.ssid = s
  <2> SUFFICES ASSUME NEW s \in unseen PROVE \E a \in added : a.ssid = s
    OBVIOUS
  <2>1. N!network(s, 0, saved[s], FALSE, TRUE) \in added
    OBVIOUS
  <2>2. N!network(s, 0, saved[s], FALSE, TRUE).ssid = s
    BY DEF N!network
  <2> HIDE DEF added
  <2> QED BY <2>1, <2>2
<1> HIDE DEF added
<1>8. \A a \in ns : a \in added \/ \E i \in 1 .. m : networks[i] = a
  BY <1>3
<1>9. \A a \in ns : a \in Network
  BY <1>2, <1>6, <1>8
<1>10. ASSUME NEW a \in ns, NEW b \in ns, a.ssid = b.ssid PROVE a = b
  <2>1. CASE a \in added /\ b \in added
    <3>1. a = N!network(a.ssid, 0, saved[a.ssid], FALSE, TRUE)
      BY <1>6, <2>1
    <3>2. b = N!network(b.ssid, 0, saved[b.ssid], FALSE, TRUE)
      BY <1>6, <2>1
    <3> QED BY <1>10, <3>1, <3>2
  <2>2. CASE a \in added /\ b \notin added
    BY <1>4, <1>6, <1>8, <1>10, <2>2
  <2>3. CASE a \notin added /\ b \in added
    BY <1>4, <1>6, <1>8, <1>10, <2>3
  <2>4. CASE a \notin added /\ b \notin added
    <3>1. PICK i \in 1 .. m, j \in 1 .. m : networks[i] = a /\ networks[j] = b
      BY <1>8, <2>4
    <3>2. i = j
      BY <1>1, <1>2, <1>10, <3>1 DEF Listed
    <3> QED BY <3>1, <3>2
  <2> QED BY <2>1, <2>2, <2>3, <2>4
<1>11. ASSUME NEW a \in ns PROVE a.ssid \in names /\ N!summary(a)
  <2> DEFINE Q == {r.signal : r \in N!of(a.ssid)} \cup {0}
  <2>1. /\ \A g : g \in Q <=> g = 0 \/ Heard(a.ssid, g)
        /\ Q \subseteq Nat
        /\ (\E r \in N!of(a.ssid) : r.active) <=> Connected(a.ssid)
    BY <1>2, ScanNumbers DEF Heard, Connected, N!of
  <2>2. \A g : Capped(a.ssid, g) => \A q \in Q : q = 0 \/ q <= g
    BY DEF Capped, N!of
  <2> HIDE DEF Q
  <2>3. a.signal \in Nat /\ a.active \in BOOLEAN /\ a.saved \in BOOLEAN /\ a.ssid \in Cells
    BY <1>9, ScanNumbers
  <2>4. CASE a \in added
    <3>0. a.ssid \in DOMAIN saved /\ \A i \in 1 .. m : networks[i].ssid # a.ssid
      BY <1>4, <1>6, <2>4
    <3>1. a.ssid \in DOMAIN saved /\ ~Seen(a.ssid)
      BY <1>1, <1>2, <2>3, <3>0 DEF Listed
    <3>2. ~Connected(a.ssid) /\ \A g : ~Heard(a.ssid, g)
      BY <3>1 DEF Seen, Connected, Heard
    <3>3. N!Max(Q) = 0
      BY <2>1, <3>2, LargestFacts
    <3> QED BY <1>6, <2>1, <2>4, <3>1, <3>2, <3>3 DEF Q, N!summary
  <2>5. CASE a \notin added
    <3>1. Sums(a) /\ Seen(a.ssid)
      BY <1>1, <1>2, <1>8, <1>9, <2>5 DEF Listed
    <3>2. a.signal \in Q /\ \A q \in Q : q <= a.signal
      BY <2>1, <2>2, <2>3, <3>1 DEF Sums
    <3>3. N!Max(Q) = a.signal
      BY <2>1, <3>2, LargestFacts
    <3>4. a.ssid \in N!seen
      BY <1>5, <2>3, <3>1
    <3>5. a.saved = (a.ssid \in DOMAIN saved)
      BY <2>3, <3>1 DEF Sums
    <3>6. a.active = \E r \in N!of(a.ssid) : r.active
      BY <2>1, <2>3, <3>1 DEF Sums
    <3> QED BY <3>3, <3>4, <3>5, <3>6 DEF Q, N!summary
  <2> QED BY <2>4, <2>5
<1>12. ASSUME NEW s \in names PROVE \E a \in ns : a.ssid = s
  <2>1. CASE s \in unseen
    BY <1>7, <2>1
  <2>2. CASE s \notin unseen /\ s \in DOMAIN saved
    BY <1>2, <1>3, <1>4, <2>2
  <2>3. CASE s \in N!seen
    <3>1. s \in Cells /\ Seen(s)
      BY <1>5, <2>3
    <3>2. PICK i \in 1 .. m : networks[i].ssid = s
      BY <1>1, <1>2, <3>1 DEF Listed
    <3> QED BY <1>3, <3>2
  <2> QED BY <2>1, <2>2, <2>3
<1>13. names \subseteq Cells
  BY <1>2, <1>5
<1> HIDE DEF ns, R, names
<1>14. IsFiniteSet(ns) /\ Cardinality(ns) = Cardinality(names)
  <2> DEFINE f == [a \in ns |-> a.ssid]
  <2>1. f \in [ns -> names]
    BY <1>11
  <2>2. f \in Injection(ns, names)
    BY <1>10, <2>1 DEF Injection, IsInjective
  <2>3. f \in Surjection(ns, names)
    BY <1>12, <2>1 DEF Surjection
  <2>4. IsFiniteSet(names)
    BY <1>13, ScanAssumption, FS_Subset
  <2> HIDE DEF f
  <2> QED BY <2>2, <2>3, <2>4, FS_Injection
<1>15. Orders(R, ns)
  BY <1>9, <1>10, NetworksOrdered DEF R
<1> DEFINE n == Cardinality(ns)
           t == Arranged(ns, R)
<1>16. /\ n \in Nat /\ t \in [1 .. n -> ns] /\ t \in Seq(ns) /\ Len(t) = n
       /\ \A i, j \in 1 .. n : i < j <=> <<t[i], t[j]>> \in R
       /\ \A i, j \in 1 .. n : t[i] = t[j] => i = j
       /\ \A a \in ns : \E i \in 1 .. n : t[i] = a
  BY <1>14, <1>15, ArrangedFacts
<1> HIDE DEF n, t
<1>17. \A i, j \in 1 .. n : i < j => N!lessNetwork(t[i], t[j])
  BY <1>16 DEF R
<1>18. networks' = t
  BY <1>1 DEF t
<1>19. {t[i].ssid : i \in 1 .. n} = names
  BY <1>11, <1>12, <1>16
<1>20. active # N!Hidden => t[1].active
  <2> SUFFICES ASSUME active # N!Hidden PROVE t[1].active
    OBVIOUS
  <2>1. PICK i \in 1 .. m : networks[i].active
    BY <1>1, <1>2 DEF Listed
  <2>2. networks[i] \in ns
    BY <1>3 DEF ns
  <2>3. PICK j \in 1 .. n : t[j] = networks[i]
    BY <1>16, <2>2
  <2>4. 1 \in 1 .. n /\ (j = 1 \/ 1 < j)
    BY <1>16
  <2>5. CASE j = 1
    BY <2>1, <2>3, <2>5
  <2>6. CASE 1 < j
    <3>1. N!lessNetwork(t[1], t[j]) /\ t[j].active
      BY <1>17, <2>1, <2>3, <2>4, <2>6
    <3>2. t[1].active \in BOOLEAN /\ t[j].active \in BOOLEAN
      BY <1>9, <1>16, <2>4, ScanNumbers
    <3> QED BY <3>1, <3>2 DEF N!lessNetwork
  <2> QED BY <2>4, <2>5, <2>6
<1>21. \A i \in 1 .. n : t[i] \in ns /\ N!summary(t[i])
  BY <1>11, <1>16
<1>22. DOMAIN t = 1 .. n /\ Len(t) = Cardinality(names)
  BY <1>14, <1>16 DEF n
<1>23. N!ScanIsSummary'
  <2>1. \A x : N!Cardinality(x) = Cardinality(x)
    BY SameRankingN
  <2>2. {networks'[i].ssid : i \in DOMAIN networks'} = names
    BY <1>18, <1>19, <1>22
  <2>3. /\ Len(networks') = N!Cardinality(names)
        /\ active' # N!Hidden => networks'[1].active
    BY <1>1, <1>18, <1>20, <1>22, <2>1
  <2>4. \A i \in DOMAIN t :
           /\ N!summary(t[i])
           /\ \A j \in DOMAIN t : i < j => N!lessNetwork(t[i], t[j])
    BY <1>17, <1>21, <1>22
  <2>6. names = N!seen' \cup DOMAIN saved'
    BY <1>1 DEF names, N!seen
  <2>7. \A i \in DOMAIN networks' : N!summary(networks[i])'
    <3> SUFFICES ASSUME NEW i \in DOMAIN networks' PROVE N!summary(networks[i])'
      OBVIOUS
    <3>1. N!summary(t[i])
      BY <1>18, <2>4
    <3> QED BY <1>1, <1>18, <3>1 DEF N!summary, N!of, N!seen
  <2> QED BY <1>1, <1>18, <2>2, <2>3, <2>4, <2>6, <2>7 DEF N!ScanIsSummary
<1>24. networks' \in Seq(Network)
  <2>1. t \in [1 .. n -> Network]
    BY <1>9, <1>16
  <2> QED BY <1>16, <1>18, <2>1, IsASeq
<1> QED BY <1>1, <1>23, <1>24 DEF ScanInv

\* The invariant of this service holds at the start, and so throughout.
LEMMA ScanHolds == Spec => []ScanInv
<1>1. N!Init => ScanInv
  <2> SUFFICES ASSUME N!Init PROVE ScanInv
    OBVIOUS
  <2>1. /\ rows = <<>> /\ networks = <<>> /\ active = N!Hidden /\ done = FALSE
        /\ DOMAIN saved \subseteq Cells /\ \A x \in DOMAIN saved : saved[x] \in Labels
    BY DEF N!Init
  <2>2. DOMAIN rows = {} /\ DOMAIN networks = {} /\ Len(rows) = 0
    BY <2>1
  <2>3. rows \in Seq(N!Rows) /\ networks \in Seq(Network) /\ Len(rows) <= MaxRows
    BY <2>1, <2>2, ScanAssumption
  <2>4. Listed /\ N!ScanIsSummary
    BY <2>1, <2>2 DEF Listed, Seen, N!ScanIsSummary
  <2> QED BY <2>1, <2>3, <2>4 DEF ScanInv
<1>2. ScanInv /\ [N!Next]_(N!vars) => ScanInv'
  <2> SUFFICES ASSUME ScanInv, [N!Next]_(N!vars) PROVE ScanInv'
    OBVIOUS
  <2>1. CASE N!Next
    BY <2>1, RowStep, FinishStep DEF N!Next
  <2>2. CASE UNCHANGED N!vars
    <3>1. UNCHANGED <<saved, rows, networks, active, done>>
      BY <2>2 DEF N!vars
    <3>2. Listed => Listed'
      BY <3>1 DEF Listed, Sums, Seen, Connected, Heard, Capped
    <3>3. N!ScanIsSummary' = N!ScanIsSummary
      BY <3>1 DEF N!ScanIsSummary, N!summary, N!seen, N!of
    <3> QED BY <3>1, <3>2, <3>3 DEF ScanInv
  <2> QED BY <2>1, <2>2
<1> QED BY <1>1, <1>2, ScanAlone, PTL

\* The invariant contains the types.
LEMMA ScanTyped == ScanInv => N!TypeOK
<1> SUFFICES ASSUME ScanInv PROVE N!TypeOK
  OBVIOUS
<1>1. \A i \in DOMAIN networks : networks[i] \in Network
  BY LenProperties DEF ScanInv
<1> QED BY <1>1 DEF ScanInv, N!TypeOK, Network

-----------------------------------------------------------------------------
(* The actions: what a list of them is, and what becomes of each (actions.go) *)

\* The actions are sorted as Ranking sorts.
LEMMA SameRankingA ==
  /\ \A R, D : A!Arranged(D, R) = Arranged(D, R)
  /\ \A e, D : A!Kept(e, D) = Kept(e, D)
  /\ \A D : A!Cardinality(D) = Cardinality(D)
BY DEF A!Kept, Kept, A!Arranged, Arranged, A!preceding, preceding, A!Cardinality,
   Cardinality

Part   == Nat \cup UNION {{s[i] : i \in 1 .. Len(s)} : s \in Written}
Slug   == {s \in Seq(Part) : s # <<>> /\ \E w \in Written : s[1] = w[1]}
Called == {s[1] : s \in Written}

\* Slugs that somebody wrote, and those numbered after them.
LEMMA SlugFacts ==
  /\ Written \subseteq Slug /\ <<>> \notin Slug /\ Ids \cap Slug = {}
  /\ \A x \in Called : <<x>> \in Slug
  /\ \A s \in Slug, n \in Nat : Append(s, n) \in Slug
  /\ \A s \in Slug, m, n \in Nat : Append(s, m) = Append(s, n) => m = n
<1>1. ASSUME NEW s \in Written PROVE s \in Seq(Part) /\ s # <<>> /\ s[1] \in Part
  <2>1. Len(s) \in Nat /\ s = [i \in 1 .. Len(s) |-> s[i]]
    BY ActionsAssumption
  <2>2. s # <<>>
    BY DEF Written
  <2>3. \A i \in 1 .. Len(s) : s[i] \in Part
    BY DEF Part
  <2>4. s \in Seq(Part)
    BY <2>1, <2>3, IsASeq
  <2>5. 1 \in 1 .. Len(s)
    BY <2>2, <2>4, EmptySeq, LenProperties
  <2> QED BY <2>2, <2>3, <2>4, <2>5
<1>2. Written \subseteq Slug /\ <<>> \notin Slug
  BY <1>1 DEF Slug
<1>3. ASSUME NEW s \in Slug, s \in Ids PROVE FALSE
  <2>1. PICK w \in Written : s[1] = w[1]
    BY DEF Slug
  <2> QED BY <1>3, <2>1, ActionsAssumption
<1>4. ASSUME NEW x \in Called PROVE <<x>> \in Slug
  <2>1. PICK w \in Written : x = w[1]
    BY DEF Called
  <2>2. x \in Part
    BY <1>1, <2>1
  <2>3. <<x>> \in Seq(Part) /\ <<x>> # <<>> /\ <<x>>[1] = x
    BY <2>2
  <2> QED BY <2>1, <2>3 DEF Slug
<1>5. ASSUME NEW s \in Slug, NEW n \in Nat
      PROVE  /\ Append(s, n) \in Slug
             /\ Len(Append(s, n)) = Len(s) + 1 /\ Append(s, n)[Len(s) + 1] = n
  <2>1. s \in Seq(Part) /\ s # <<>> /\ n \in Part
    BY DEF Slug, Part
  <2>2. /\ Append(s, n) \in Seq(Part) /\ Append(s, n) # <<>>
        /\ Len(Append(s, n)) = Len(s) + 1 /\ Append(s, n)[Len(s) + 1] = n
        /\ \A i \in 1 .. Len(s) : Append(s, n)[i] = s[i]
    BY <2>1, AppendProperties
  <2>3. 1 \in 1 .. Len(s)
    BY <2>1, EmptySeq, LenProperties
  <2> QED BY <2>2, <2>3 DEF Slug
<1>6. \A s \in Slug, m, n \in Nat : Append(s, m) = Append(s, n) => m = n
  BY <1>5
<1> QED BY <1>2, <1>3, <1>4, <1>5, <1>6

\* uniqueSlug ends, and what it answers is nobody else's.
LEMMA UniqueSlug ==
  ASSUME NEW s \in Slug, NEW taken, IsFiniteSet(taken)
  PROVE  /\ A!uniqueSlug(s, taken) \in Slug \ taken
         /\ s \notin taken => A!uniqueSlug(s, taken) = s
<1> DEFINE c == Cardinality(taken)
           Q == {n \in 2 .. c + 2 : Append(s, n) \notin taken}
<1>1. c \in Nat
  BY FS_CardinalityType
<1>2. Q # {}
  <2> SUFFICES ASSUME \A n \in 2 .. c + 2 : Append(s, n) \in taken PROVE FALSE
    OBVIOUS
  <2> DEFINE f == [n \in 2 .. c + 2 |-> Append(s, n)]
  <2>1. f \in [2 .. c + 2 -> taken]
    OBVIOUS
  <2>2. IsFiniteSet(2 .. c + 2) /\ Cardinality(2 .. c + 2) = c + 1
    BY <1>1, FS_Interval
  <2>3. c < Cardinality(2 .. c + 2)
    BY <1>1, <2>2
  <2>4. \A m, n \in 2 .. c + 2 : f[m] = f[n] => m = n
    <3>1. \A m \in 2 .. c + 2 : m \in Nat
      BY <1>1
    <3> QED BY <3>1, SlugFacts
  <2> HIDE DEF f
  <2>5. \E m, n \in 2 .. c + 2 : m # n /\ f[m] = f[n]
    BY <2>1, <2>2, <2>3, FS_PigeonHole
  <2> QED BY <2>4, <2>5
<1>3. PICK m \in Q : \A q \in Q : m <= q
  <2>1. Q \subseteq Nat
    BY <1>1
  <2> HIDE DEF Q
  <2> QED BY <1>2, <2>1, LeastNumber
<1>4. A!Min(Q) \in Q
  <2> HIDE DEF Q
  <2> QED BY <1>3 DEF A!Min
<1>5. A!uniqueSlug(s, taken) = IF s \notin taken THEN s ELSE Append(s, A!Min(Q))
  <2> HIDE DEF c
  <2> QED BY SameRankingA DEF A!uniqueSlug, c
<1>6. Append(s, A!Min(Q)) \in Slug \ taken
  <2>1. A!Min(Q) \in Nat /\ Append(s, A!Min(Q)) \notin taken
    BY <1>1, <1>4
  <2> HIDE DEF Q
  <2> QED BY <2>1, SlugFacts
<1> HIDE DEF Q
<1> QED BY <1>5, <1>6

Runs == Modes \cup {A!ShowMode(s) : s \in Slug}
        \cup {[show |-> <<>>, run |-> x] : x \in Called}
        \cup UNION {{f[i].mode : i \in DOMAIN f} : f \in ActionFiles}
Played == Playlists \cup {NoPlaylist}
Action == [id : Ids, slug : Slug, index : Nat, name : Called, mode : Runs,
           playlist : Played]

Apart(x, y) == x.slug # y.slug /\ x.id # y.id

\* Slugs and ids tell the actions of a list apart, in the order of their indices,
\* and what carries items plays them.
GoodLists ==
    {l \in Seq(Action) :
        /\ Len(l) <= MaxActions
        /\ \A i, j \in 1 .. Len(l) :
               /\ i # j => Apart(l[i], l[j])
               /\ i < j => l[i].index < l[j].index
        /\ \A i \in 1 .. Len(l) :
               l[i].playlist # NoPlaylist => l[i].mode = A!ShowMode(l[i].slug)}

Asked == [id : Ids \cup {NoId}, slug : Slug \cup {<<>>}, index : {0}, name : Called,
          mode : Runs, playlist : Played]

\* The slugs and the ids of a list are finitely many.
LEMMA ListNames ==
  ASSUME NEW l \in Seq(Action)
  PROVE  /\ IsFiniteSet(A!slugs(l)) /\ A!slugs(l) \subseteq Slug
         /\ IsFiniteSet(A!ids(l)) /\ A!ids(l) \subseteq Ids
         /\ Cardinality(A!ids(l)) \in Nat /\ Cardinality(A!ids(l)) <= Len(l)
<1> DEFINE n == Len(l)
           f == [i \in 1 .. n |-> l[i].slug]
           g == [i \in 1 .. n |-> l[i].id]
<1>1. n \in Nat /\ DOMAIN l = 1 .. n /\ \A i \in 1 .. n : l[i] \in Action
  BY LenProperties
<1>2. f = [i \in 1 .. n |-> f[i]] /\ A!slugs(l) = {f[i] : i \in 1 .. n}
  BY <1>1 DEF A!slugs
<1>3. g = [i \in 1 .. n |-> g[i]] /\ A!ids(l) = {g[i] : i \in 1 .. n}
  BY <1>1 DEF A!ids
<1>4. \A i \in 1 .. n : f[i] \in Slug /\ g[i] \in Ids
  BY <1>1 DEF Action
<1> HIDE DEF n, f, g
<1>5. IsFiniteSet(A!slugs(l))
  BY <1>1, <1>2, ImageFinite
<1>6. IsFiniteSet(A!ids(l)) /\ Cardinality(A!ids(l)) \in Nat /\ Cardinality(A!ids(l)) <= n
  BY <1>1, <1>3, ImageFinite
<1> QED BY <1>2, <1>3, <1>4, <1>5, <1>6 DEF n

\* There is an id that is not in use, as long as some are left.
LEMMA FreshId ==
  ASSUME NEW used, ~(Ids \subseteq used)
  PROVE  A!freshId(used) \in Ids \ used
BY DEF A!freshId

\* There is an id that no action of a short list has.
LEMMA IdsLeft ==
  ASSUME NEW used, IsFiniteSet(used), Cardinality(used) < Cardinality(Ids)
  PROVE  ~(Ids \subseteq used)
<1> SUFFICES ASSUME Ids \subseteq used PROVE FALSE
  OBVIOUS
<1>1. Cardinality(Ids) <= Cardinality(used)
  BY FS_Subset
<1>2. Cardinality(Ids) \in Nat /\ Cardinality(used) \in Nat
  BY FS_CardinalityType, ActionsAssumption
<1> QED BY <1>1, <1>2

\* The slug that is asked for.
LEMMA Wants ==
  ASSUME NEW a, a.slug \in Slug \cup {<<>>}, a.name \in Called
  PROVE  A!wanted(a) \in Slug /\ (a.slug # <<>> => A!wanted(a) = a.slug)
BY SlugFacts DEF A!wanted, A!NoSlug

\* What is good about a list.
LEMMA GoodFacts ==
  ASSUME NEW l \in GoodLists
  PROVE  /\ Len(l) \in Nat /\ DOMAIN l = 1 .. Len(l) /\ l \in Seq(Action)
         /\ Len(l) <= MaxActions /\ \A i \in 1 .. Len(l) : l[i] \in Action /\ l[i].index \in Nat
         /\ \A i, j \in 1 .. Len(l) :
               /\ i # j => Apart(l[i], l[j])
               /\ i < j => l[i].index < l[j].index
         /\ \A i \in 1 .. Len(l) :
               l[i].playlist # NoPlaylist => l[i].mode = A!ShowMode(l[i].slug)
<1>1. l \in Seq(Action)
  BY DEF GoodLists
<1>2. Len(l) \in Nat /\ DOMAIN l = 1 .. Len(l) /\ \A i \in 1 .. Len(l) : l[i] \in Action
  BY <1>1, LenProperties
<1>3. \A a \in Action : a.index \in Nat
  BY DEF Action
<1> QED BY <1>1, <1>2, <1>3 DEF GoodLists

\* The largest of a set that has it as a bound.
LEMMA LargestOf ==
  ASSUME NEW Q, Q \subseteq Nat, NEW m \in Q, \A q \in Q : q <= m PROVE A!Max(Q) = m
<1> DEFINE Bounds(x) == \A y \in Q : x >= y
<1>1. Bounds(m) /\ \A x \in Q : Bounds(x) => x = m
  OBVIOUS
<1> HIDE DEF Bounds
<1>2. (CHOOSE x \in Q : Bounds(x)) = m
  BY <1>1
<1> QED BY <1>2 DEF Bounds, A!Max

\* The next index is larger than all.
LEMMA NextIndex ==
  ASSUME NEW l \in GoodLists
  PROVE  A!nextIndex(l) \in Nat /\ \A i \in 1 .. Len(l) : l[i].index < A!nextIndex(l)
<1> DEFINE n == Len(l)
           top == l[n].index
           Q == {l[i].index : i \in DOMAIN l}
<1>1. /\ n \in Nat /\ DOMAIN l = 1 .. n /\ l \in Seq(Action)
      /\ \A i \in 1 .. n : l[i].index \in Nat
      /\ \A i, j \in 1 .. n : i < j => l[i].index < l[j].index
  BY GoodFacts
<1>2. CASE l = <<>>
  BY <1>1, <1>2 DEF A!nextIndex
<1>3. CASE l # <<>>
  <2>1. n \in 1 .. n /\ top \in Nat
    BY <1>1, <1>3, EmptySeq
  <2>2. top \in Q /\ Q \subseteq Nat
    BY <1>1, <2>1
  <2>3. \A i \in 1 .. n : l[i].index <= top
    <3> SUFFICES ASSUME NEW i \in 1 .. n PROVE l[i].index <= top
      OBVIOUS
    <3>1. l[i].index \in Nat
      BY <1>1
    <3>2. i < n => l[i].index < top
      BY <1>1, <2>1
    <3>3. i = n => l[i].index = top
      OBVIOUS
    <3>4. i = n \/ i < n
      <4>1. n \in Nat
        BY <1>1
      <4> HIDE DEF n
      <4> QED BY <4>1
    <3> DEFINE x == l[i].index
    <3> HIDE DEF top, x
    <3>5. \A a, b \in Nat : a = b \/ a < b => a <= b
      OBVIOUS
    <3> QED BY <2>1, <3>1, <3>2, <3>3, <3>4, <3>5 DEF x
  <2>4. \A q \in Q : q <= top
    BY <2>3, <1>1
  <2>5. A!nextIndex(l) = A!Max(Q) + 1
    BY <1>3 DEF A!nextIndex
  <2> HIDE DEF Q, top
  <2>6. A!Max(Q) = top
    BY <2>2, <2>4, LargestOf
  <2>7. \A i \in 1 .. n : l[i].index < top + 1
    BY <1>1, <2>1, <2>3
  <2> QED BY <2>1, <2>5, <2>6, <2>7
<1> QED BY <1>2, <1>3

\* A new action, apart from the others and after them, makes a good list.
LEMMA AppendGood ==
  ASSUME NEW l \in GoodLists, Len(l) < MaxActions, NEW a \in Action,
         a.slug \notin A!slugs(l), a.id \notin A!ids(l),
         \A i \in 1 .. Len(l) : l[i].index < a.index,
         a.playlist # NoPlaylist => a.mode = A!ShowMode(a.slug)
  PROVE  /\ Append(l, a) \in GoodLists /\ Len(Append(l, a)) = Len(l) + 1
         /\ \A i \in 1 .. Len(l) : Append(l, a)[i] = l[i]
<1> DEFINE n == Len(l)
           m == Append(l, a)
<1>1. /\ n \in Nat /\ DOMAIN l = 1 .. n /\ l \in Seq(Action)
      /\ \A i, j \in 1 .. n : /\ i # j => Apart(l[i], l[j])
                              /\ i < j => l[i].index < l[j].index
      /\ \A i \in 1 .. n : l[i].playlist # NoPlaylist => l[i].mode = A!ShowMode(l[i].slug)
  BY GoodFacts
<1>2. /\ m \in Seq(Action) /\ Len(m) = n + 1 /\ m[n + 1] = a
      /\ \A i \in 1 .. n : m[i] = l[i]
  BY <1>1, AppendProperties
<1>3. \A i \in 1 .. n : a.slug # l[i].slug /\ a.id # l[i].id
  BY <1>1 DEF A!slugs, A!ids
<1>3a. \A i \in 1 .. n : Apart(a, l[i]) /\ Apart(l[i], a)
  BY <1>3 DEF Apart
<1>4. n + 1 <= MaxActions
  BY <1>1, ActionsAssumption
<1> HIDE DEF n, m
<1>5. \A i \in 1 .. n + 1 : i = n + 1 \/ (i \in 1 .. n /\ i < n + 1)
  BY <1>1
<1>6. \A i, j \in 1 .. n + 1 :
         /\ i # j => Apart(m[i], m[j])
         /\ i < j => m[i].index < m[j].index
  <2> SUFFICES ASSUME NEW i \in 1 .. n + 1, NEW j \in 1 .. n + 1
               PROVE  /\ i # j => Apart(m[i], m[j])
                      /\ i < j => m[i].index < m[j].index
    OBVIOUS
  <2>1. CASE i \in 1 .. n /\ j \in 1 .. n
    <3>1. m[i] = l[i] /\ m[j] = l[j]
      BY <1>2, <2>1
    <3>2. /\ i # j => Apart(l[i], l[j])
          /\ i < j => l[i].index < l[j].index
      BY <1>1, <2>1
    <3> QED BY <3>1, <3>2
  <2>2. CASE i = n + 1 /\ j \in 1 .. n
    <3>1. ~(i < j)
      BY <1>1, <2>2
    <3> QED BY <1>2, <1>3a, <2>2, <3>1
  <2>3. CASE i \in 1 .. n /\ j = n + 1
    BY <1>2, <1>3a, <2>3 DEF n
  <2>4. CASE i = n + 1 /\ j = n + 1
    BY <1>1, <2>4
  <2> QED BY <1>5, <2>1, <2>2, <2>3, <2>4
<1>7. \A i \in 1 .. n + 1 :
         m[i].playlist # NoPlaylist => m[i].mode = A!ShowMode(m[i].slug)
  BY <1>1, <1>2, <1>5
<1> QED BY <1>2, <1>4, <1>6, <1>7 DEF GoodLists, m, n

\* So does another action in the place of one.
LEMMA ReplaceGood ==
  ASSUME NEW l \in GoodLists, NEW k \in 1 .. Len(l), NEW a \in Action,
         a.slug \notin {l[i].slug : i \in DOMAIN l \ {k}}, a.id = l[k].id,
         a.index = l[k].index,
         a.playlist # NoPlaylist => a.mode = A!ShowMode(a.slug)
  PROVE  /\ [l EXCEPT ![k] = a] \in GoodLists /\ Len([l EXCEPT ![k] = a]) = Len(l)
         /\ \A i \in 1 .. Len(l) : i # k => [l EXCEPT ![k] = a][i] = l[i]
<1> DEFINE n == Len(l)
           m == [l EXCEPT ![k] = a]
<1>1. /\ n \in Nat /\ DOMAIN l = 1 .. n /\ l \in Seq(Action) /\ n <= MaxActions
      /\ \A i, j \in 1 .. n : /\ i # j => Apart(l[i], l[j])
                              /\ i < j => l[i].index < l[j].index
      /\ \A i \in 1 .. n : l[i].playlist # NoPlaylist => l[i].mode = A!ShowMode(l[i].slug)
  BY GoodFacts
<1>2. /\ m \in Seq(Action) /\ Len(m) = n /\ m[k] = a
      /\ \A i \in 1 .. n : i # k => m[i] = l[i]
  BY <1>1, ExceptSeq
<1> HIDE DEF n, m
<1>3. ASSUME NEW i \in 1 .. n, i # k PROVE Apart(a, l[i]) /\ Apart(l[i], a)
  <2>1. k \in 1 .. n
    BY DEF n
  <2>2. Apart(l[i], l[k])
    BY <1>1, <1>3, <2>1
  <2>3. l[i].slug \in {l[j].slug : j \in DOMAIN l \ {k}}
    BY <1>1, <1>3
  <2> QED BY <2>2, <2>3 DEF Apart
<1>4. \A i, j \in 1 .. n :
         /\ i # j => Apart(m[i], m[j])
         /\ i < j => m[i].index < m[j].index
  <2> SUFFICES ASSUME NEW i \in 1 .. n, NEW j \in 1 .. n
               PROVE  /\ i # j => Apart(m[i], m[j])
                      /\ i < j => m[i].index < m[j].index
    OBVIOUS
  <2>1. /\ i # j => Apart(l[i], l[j])
        /\ i < j => l[i].index < l[j].index
    BY <1>1
  <2>2. m[i].index = l[i].index /\ m[j].index = l[j].index
    BY <1>2
  <2>3. i # j => Apart(m[i], m[j])
    BY <1>2, <1>3, <2>1
  <2> QED BY <2>1, <2>2, <2>3
<1>5. \A i \in 1 .. n :
         m[i].playlist # NoPlaylist => m[i].mode = A!ShowMode(m[i].slug)
  BY <1>1, <1>2
<1> QED BY <1>1, <1>2, <1>4, <1>5 DEF GoodLists, m, n

\* A record of what an action has.
Whole(in) ==
    /\ in.name \in Called /\ in.mode \in Runs /\ in.playlist \in Played
    /\ in = [id |-> in.id, slug |-> in.slug, index |-> in.index, name |-> in.name,
             mode |-> in.mode, playlist |-> in.playlist]

\* An action as it is kept: with its slug, and the mode that it plays.
Made(in, s, d, x) ==
    [in EXCEPT !.slug = s, !.mode = A!modeOf(in, s), !.id = d, !.index = x]

\* What normalizeActions() makes of an entry is an action.
LEMMA MadeAction ==
  ASSUME NEW in, Whole(in), NEW s \in Slug, NEW d \in Ids, NEW x \in Nat
  PROVE  /\ Made(in, s, d, x) \in Action /\ Made(in, s, d, x).slug = s
         /\ Made(in, s, d, x).id = d /\ Made(in, s, d, x).index = x
         /\ Made(in, s, d, x).playlist = in.playlist
         /\ in.playlist # NoPlaylist => Made(in, s, d, x).mode = A!ShowMode(s)
<1>1. A!modeOf(in, s) \in Runs
  BY DEF A!modeOf, Runs, Whole
<1>2. in.playlist # NoPlaylist => A!modeOf(in, s) = A!ShowMode(s)
  BY DEF A!modeOf
<1> QED BY <1>1, <1>2 DEF Action, Whole, Made

\* What is asked for is a record of its parts.
LEMMA AskedFacts ==
  ASSUME NEW in \in Asked
  PROVE  Whole(in) /\ A!wanted(in) \in Slug
<1>1. Whole(in) /\ in.name \in Called /\ in.slug \in Slug \cup {<<>>}
  BY DEF Asked, Whole
<1> QED BY <1>1, Wants

\* An upsert keeps a good list good, and every action but the one it names.
LEMMA UpsertGood ==
  ASSUME NEW l \in GoodLists, NEW in \in Asked, ~A!refused(l, in)
  PROVE  /\ A!upserted(l, in) \in GoodLists
         /\ Len(l) <= Len(A!upserted(l, in))
         /\ \A i \in 1 .. Len(l) : A!upserted(l, in)[i] = l[i] \/ l[i].id = in.id
<1> DEFINE n == Len(l)
           spot == A!place(l, in)
           taken == A!taken(l, in)
           slug == A!uniqueSlug(A!wanted(in), taken)
           new == [in EXCEPT !.slug = slug, !.mode = A!modeOf(in, slug)]
           p == CHOOSE p \in spot : TRUE
           edited == [new EXCEPT !.index = l[p].index]
           added == [new EXCEPT !.id = A!freshId(A!ids(l)), !.index = A!nextIndex(l)]
<1>1. /\ n \in Nat /\ DOMAIN l = 1 .. n /\ l \in Seq(Action)
      /\ \A i \in 1 .. n : l[i] \in Action
      /\ \A i, j \in 1 .. n : i # j => Apart(l[i], l[j])
  BY GoodFacts
<1>2. /\ IsFiniteSet(A!slugs(l)) /\ IsFiniteSet(A!ids(l)) /\ A!ids(l) \subseteq Ids
      /\ Cardinality(A!ids(l)) \in Nat /\ Cardinality(A!ids(l)) <= n
  BY <1>1, ListNames
<1>3. A!upserted(l, in) = IF spot # {} THEN [l EXCEPT ![p] = edited] ELSE Append(l, added)
  BY DEF A!upserted
<1>4. taken = {l[i].slug : i \in DOMAIN l \ spot} /\ spot \subseteq 1 .. n
      /\ \A i \in spot : l[i].id = in.id
  BY <1>1 DEF A!taken, A!place
<1>5. slug \in Slug /\ slug \notin taken
  <2>1. taken \subseteq A!slugs(l)
    BY <1>4 DEF A!slugs
  <2>2. IsFiniteSet(taken)
    BY <1>2, <2>1, FS_Subset
  <2> QED BY <2>2, AskedFacts, UniqueSlug
<1> HIDE DEF spot, taken, slug
<1>6. CASE spot # {}
  <2>1. p \in spot /\ p \in 1 .. n /\ l[p].id = in.id
    BY <1>4, <1>6
  <2> HIDE DEF p
  <2>2. in.id \in Ids /\ l[p].index \in Nat
    BY <1>1, <2>1 DEF Action
  <2>3. \A i \in 1 .. n : i # p => i \notin spot /\ l[i].id # in.id
    BY <1>1, <1>4, <2>1 DEF Apart
  <2>4. slug \notin {l[i].slug : i \in DOMAIN l \ {p}}
    BY <1>1, <1>4, <1>5, <2>3
  <2>5. /\ edited \in Action /\ edited.slug = slug /\ edited.id = in.id
        /\ edited.index = l[p].index
        /\ edited.playlist # NoPlaylist => edited.mode = A!ShowMode(slug)
    <3>1. edited = Made(in, slug, in.id, l[p].index)
      BY AskedFacts DEF Whole, Made
    <3> HIDE DEF edited
    <3> QED BY <1>5, <2>2, <3>1, AskedFacts, MadeAction
  <2> HIDE DEF edited
  <2>6. /\ [l EXCEPT ![p] = edited] \in GoodLists /\ Len([l EXCEPT ![p] = edited]) = n
        /\ \A i \in 1 .. n : i # p => [l EXCEPT ![p] = edited][i] = l[i]
    BY <2>1, <2>4, <2>5, ReplaceGood
  <2> QED BY <1>1, <1>3, <1>6, <2>1, <2>6
<1>7. CASE spot = {}
  <2>1. taken = A!slugs(l)
    BY <1>4, <1>7 DEF A!slugs
  <2>2. n < MaxActions
    BY <1>1, <1>7, ActionsAssumption DEF A!refused, spot
  <2>3. A!freshId(A!ids(l)) \in Ids \ A!ids(l)
    <3>1. Cardinality(A!ids(l)) < Cardinality(Ids)
      <4>1. Cardinality(Ids) \in Nat
        BY ActionsAssumption, FS_CardinalityType
      <4> QED BY <1>1, <1>2, <2>2, <4>1, ActionsAssumption
    <3> QED BY <1>2, <3>1, FreshId, IdsLeft
  <2>4. A!nextIndex(l) \in Nat /\ \A i \in 1 .. n : l[i].index < A!nextIndex(l)
    BY NextIndex
  <2>5. /\ added \in Action /\ added.slug = slug /\ added.id = A!freshId(A!ids(l))
        /\ added.index = A!nextIndex(l)
        /\ added.playlist # NoPlaylist => added.mode = A!ShowMode(slug)
    <3> DEFINE d == A!freshId(A!ids(l))
               x == A!nextIndex(l)
    <3>1. d \in Ids /\ x \in Nat
      BY <2>3, <2>4
    <3> HIDE DEF d, x
    <3>2. [new EXCEPT !.id = d, !.index = x] = Made(in, slug, d, x)
      BY AskedFacts DEF Whole, Made
    <3>3. added = Made(in, slug, d, x)
      BY <3>2 DEF d, x
    <3> HIDE DEF added
    <3>4. /\ added \in Action /\ added.slug = slug /\ added.id = d /\ added.index = x
          /\ added.playlist # NoPlaylist => added.mode = A!ShowMode(slug)
      BY <1>5, <3>1, <3>3, AskedFacts, MadeAction
    <3> QED BY <3>4 DEF d, x
  <2> HIDE DEF added
  <2>6. /\ Append(l, added) \in GoodLists /\ Len(Append(l, added)) = n + 1
        /\ \A i \in 1 .. n : Append(l, added)[i] = l[i]
    BY <1>5, <2>1, <2>2, <2>3, <2>4, <2>5, AppendGood
  <2> QED BY <1>1, <1>3, <1>7, <2>6
<1> QED BY <1>6, <1>7

\* No actions are a good list.
LEMMA NoneGood == <<>> \in GoodLists
<1>1. <<>> \in Seq(Action) /\ Len(<<>>) = 0
  OBVIOUS
<1> QED BY <1>1, ActionsAssumption DEF GoodLists

\* The custom modes make a good list.
LEMMA SeededGood == A!seeded \in GoodLists
<1> DEFINE n == Len(Customs)
           wish(k) == A!migrated(Customs[k])
           turn(l, k) == IF A!refused(l, wish(k)) THEN l ELSE A!upserted(l, wish(k))
           next == [p \in (1 .. n) \X GoodLists |-> turn(p[2], p[1])]
           F == [k \in 0 .. n |-> GoodLists]
           Seeds(g) == g = [k \in 0 .. n |-> IF k = 0 THEN <<>> ELSE turn(g[k - 1], k)]
<1>1. n \in Nat /\ DOMAIN Customs = 1 .. n
  BY ActionsAssumption
<1>2. A!seeded = (CHOOSE g : Seeds(g))[n]
  BY DEF A!seeded
<1>3. \A k \in 1 .. n : wish(k) \in Asked
  <2> SUFFICES ASSUME NEW k \in 1 .. n PROVE wish(k) \in Asked
    OBVIOUS
  <2>1. <<Customs[k]>> \in Written /\ <<Customs[k]>> # <<>>
    BY <1>1 DEF Written
  <2>2. Customs[k] \in Called
    <3>1. Customs[k] = <<Customs[k]>>[1]
      OBVIOUS
    <3> QED BY <2>1, <3>1 DEF Called
  <2>3. <<Customs[k]>> \in Slug
    BY <2>2, SlugFacts
  <2>4. [show |-> <<>>, run |-> Customs[k]] \in Runs
    BY <2>2 DEF Runs
  <2> QED BY <2>2, <2>3, <2>4 DEF A!migrated, A!NoSlug, Asked, Played
<1>4. \A k \in 1 .. n : \A x \in GoodLists : turn(x, k) \in GoodLists
  BY <1>3, UpsertGood
<1> HIDE DEF turn, n
<1>5. /\ <<>> \in F[0]
      /\ \A k \in 1 .. n : \A x \in F[k - 1] : next[<<k, x>>] = turn(x, k) /\ next[<<k, x>>] \in F[k]
  <2>1. 0 \in 0 .. n /\ \A k \in 1 .. n : k - 1 \in 0 .. n /\ k \in 0 .. n
    BY <1>1
  <2> QED BY <1>4, <2>1, NoneGood
<1> HIDE DEF next
<1> HIDE DEF F
<1>6a. PICK g : Iterated(g, n, F, <<>>, next)
  BY <1>1, <1>5, Iterates
<1>6. /\ g = [k \in 0 .. n |-> g[k]] /\ g[0] = <<>>
      /\ \A k \in 0 .. n : g[k] \in F[k]
      /\ \A k \in 1 .. n : g[k] = next[<<k, g[k - 1]>>]
  BY <1>6a DEF Iterated
<1>7. Seeds(g)
  <2>1. \A k \in 0 .. n : k = 0 \/ (k \in 1 .. n /\ k - 1 \in 0 .. n)
    BY <1>1
  <2>2. \A k \in 1 .. n : g[k] = turn(g[k - 1], k)
    <3> SUFFICES ASSUME NEW k \in 1 .. n PROVE g[k] = turn(g[k - 1], k)
      OBVIOUS
    <3>1. k - 1 \in 0 .. n
      BY <1>1
    <3> QED BY <1>5, <1>6, <3>1
  <2>3. \A k \in 0 .. n : g[k] = IF k = 0 THEN <<>> ELSE turn(g[k - 1], k)
    BY <1>6, <2>1, <2>2
  <2> QED BY <1>6, <2>3
<1>8. ASSUME NEW f, Seeds(f) PROVE f[n] \in GoodLists
  <2> DEFINE Q == {k \in 0 .. n : f[k] \in GoodLists}
  <2>1. \A k \in 0 .. n : f[k] = IF k = 0 THEN <<>> ELSE turn(f[k - 1], k)
    BY <1>8
  <2>2. 0 \in Q
    BY <1>1, <2>1, NoneGood
  <2>3. ASSUME NEW k \in 1 .. n, k - 1 \in Q PROVE k \in Q
    <3>1. k \in 0 .. n /\ k # 0 /\ f[k - 1] \in GoodLists
      BY <1>1, <2>3
    <3> QED BY <1>4, <2>1, <3>1
  <2> HIDE DEF Q
  <2>4. 0 .. n \subseteq Q
    BY <1>1, <2>2, <2>3, Climbs
  <2>5. n \in Q
    BY <1>1, <2>4
  <2> QED BY <2>5 DEF Q
<1> HIDE DEF Seeds
<1>9. Seeds(CHOOSE f : Seeds(f))
  BY <1>7
<1> QED BY <1>2, <1>8, <1>9 DEF n

Short(in) == IF Len(in) > MaxActions THEN MaxActions ELSE Len(in)

\* What holds after each action of a file that is loaded.
LEMMA NormalizedBy ==
  ASSUME NEW in, Len(in) \in Nat, NEW F, NEW U, \A k \in 0 .. Short(in) : F[k] \subseteq U,
         <<>> \in F[0],
         \A k \in 1 .. Short(in) : \A x \in F[k - 1] :
             Append(x, A!normalized(in, k, x)) \in F[k]
  PROVE  A!normalizeActions(in) \in F[Short(in)]
<1> DEFINE n == Short(in)
           turn(l, k) == Append(l, A!normalized(in, k, l))
           next == [p \in (1 .. n) \X U |-> turn(p[2], p[1])]
           Loads(g) == g = [k \in 0 .. n |-> IF k = 0 THEN <<>> ELSE turn(g[k - 1], k)]
<1>1. n \in Nat
  BY ActionsAssumption DEF Short
<1>2. A!normalizeActions(in) = (CHOOSE g : Loads(g))[n]
  BY DEF A!normalizeActions, Short
<1>3. \A k \in 1 .. n : \A x \in F[k - 1] : turn(x, k) \in F[k]
  OBVIOUS
<1> HIDE DEF turn, n
<1>4. \A k \in 1 .. n : \A x \in F[k - 1] : next[<<k, x>>] = turn(x, k) /\ next[<<k, x>>] \in F[k]
  <2>1. \A k \in 1 .. n : k - 1 \in 0 .. n
    BY <1>1
  <2>2. \A k \in 1 .. n : \A x \in F[k - 1] : x \in U
    BY <2>1 DEF n
  <2> QED BY <1>3, <2>2
<1> HIDE DEF next
<1>5. PICK g : Iterated(g, n, F, <<>>, next)
  BY <1>1, <1>4, Iterates
<1>6. Loads(g)
  <2>1. /\ g = [k \in 0 .. n |-> g[k]] /\ g[0] = <<>>
        /\ \A k \in 0 .. n : g[k] \in F[k]
        /\ \A k \in 1 .. n : g[k] = next[<<k, g[k - 1]>>]
    BY <1>5 DEF Iterated
  <2>2. \A k \in 0 .. n : k = 0 \/ (k \in 1 .. n /\ k - 1 \in 0 .. n)
    BY <1>1
  <2>3. \A k \in 1 .. n : g[k] = turn(g[k - 1], k)
    <3> SUFFICES ASSUME NEW k \in 1 .. n PROVE g[k] = turn(g[k - 1], k)
      OBVIOUS
    <3>1. k - 1 \in 0 .. n
      BY <1>1
    <3> QED BY <1>4, <2>1, <3>1
  <2>4. \A k \in 0 .. n : g[k] = IF k = 0 THEN <<>> ELSE turn(g[k - 1], k)
    BY <2>1, <2>2, <2>3
  <2> QED BY <2>1, <2>4
<1>7. ASSUME NEW f, Loads(f) PROVE f[n] \in F[n]
  <2> DEFINE Q == {k \in 0 .. n : f[k] \in F[k]}
  <2>1. \A k \in 0 .. n : f[k] = IF k = 0 THEN <<>> ELSE turn(f[k - 1], k)
    BY <1>7
  <2>2. 0 \in Q
    BY <1>1, <2>1
  <2>3. ASSUME NEW k \in 1 .. n, k - 1 \in Q PROVE k \in Q
    <3>1. k \in 0 .. n /\ k # 0 /\ f[k - 1] \in F[k - 1]
      BY <1>1, <2>3
    <3> QED BY <1>3, <2>1, <3>1
  <2> HIDE DEF Q
  <2>4. 0 .. n \subseteq Q
    BY <1>1, <2>2, <2>3, Climbs
  <2>5. n \in Q
    BY <1>1, <2>4
  <2> QED BY <2>5 DEF Q
<1> HIDE DEF Loads
<1>8. Loads(CHOOSE f : Loads(f))
  BY <1>6
<1> QED BY <1>2, <1>7, <1>8 DEF n

\* A kept action, loaded.
Renumbered(l) == [i \in 1 .. Len(l) |-> [l[i] EXCEPT !.index = i - 1]]

\* A good list stays good when it is loaded again.
LEMMA RenumberedGood ==
  ASSUME NEW l \in GoodLists PROVE Renumbered(l) \in GoodLists
<1> DEFINE n == Len(l)
           m == Renumbered(l)
<1>1. /\ n \in Nat /\ n <= MaxActions /\ \A i \in 1 .. n : l[i] \in Action
      /\ \A i, j \in 1 .. n : i # j => Apart(l[i], l[j])
      /\ \A i \in 1 .. n : l[i].playlist # NoPlaylist => l[i].mode = A!ShowMode(l[i].slug)
  BY GoodFacts
<1>2. \A i \in 1 .. n : /\ m[i] \in Action /\ m[i].index = i - 1 /\ m[i].slug = l[i].slug
                        /\ m[i].id = l[i].id /\ m[i].mode = l[i].mode
                        /\ m[i].playlist = l[i].playlist
  <2> SUFFICES ASSUME NEW i \in 1 .. n
               PROVE  /\ m[i] \in Action /\ m[i].index = i - 1 /\ m[i].slug = l[i].slug
                      /\ m[i].id = l[i].id /\ m[i].mode = l[i].mode
                      /\ m[i].playlist = l[i].playlist
    OBVIOUS
  <2>1. m[i] = [l[i] EXCEPT !.index = i - 1] /\ i - 1 \in Nat
    BY <1>1 DEF Renumbered
  <2>2. l[i] \in Action
    BY <1>1
  <2> HIDE DEF m
  <2> QED BY <2>1, <2>2 DEF Action
<1>3. m \in [1 .. n -> Action]
  BY <1>2 DEF Renumbered
<1> HIDE DEF m
<1>4. m \in Seq(Action) /\ Len(m) = n
  BY <1>1, <1>3, IsASeq, LenProperties
<1>5. \A i, j \in 1 .. n : i # j => Apart(m[i], m[j])
  BY <1>1, <1>2 DEF Apart
<1>6. \A i, j \in 1 .. n : i < j => m[i].index < m[j].index
  <2> HIDE DEF n
  <2> QED BY <1>1, <1>2
<1>7. \A i \in 1 .. n : m[i].playlist # NoPlaylist => m[i].mode = A!ShowMode(m[i].slug)
  BY <1>1, <1>2
<1> QED BY <1>1, <1>4, <1>5, <1>6, <1>7 DEF GoodLists, m

\* What was saved is loaded as it was, but for the numbers.
LEMMA NormalizedSaved ==
  ASSUME NEW in \in GoodLists PROVE A!normalizeActions(in) = Renumbered(in)
<1> DEFINE n == Len(in)
           part(k) == [i \in 1 .. k |-> [in[i] EXCEPT !.index = i - 1]]
           F == [k \in 0 .. n |-> {part(k)}]
<1>1. /\ n \in Nat /\ n <= MaxActions /\ \A i \in 1 .. n : in[i] \in Action
      /\ \A i, j \in 1 .. n : i # j => Apart(in[i], in[j])
      /\ \A i \in 1 .. n : in[i].playlist # NoPlaylist => in[i].mode = A!ShowMode(in[i].slug)
  BY GoodFacts
<1>2. Short(in) = n
  BY <1>1, ActionsAssumption DEF Short
<1>3. ASSUME NEW k \in 1 .. n PROVE Append(part(k - 1), A!normalized(in, k, part(k - 1))) = part(k)
  <2> DEFINE x == part(k - 1)
             a == in[k]
             b == [a EXCEPT !.index = k - 1]
  <2>1. a \in Action /\ a.slug \in Slug /\ a.slug # <<>> /\ a.id \in Ids /\ a.id # NoId
    BY <1>1, SlugFacts, ActionsAssumption DEF Action
  <2>2. DOMAIN x = 1 .. k - 1 /\ \A i \in 1 .. k - 1 : x[i] = [in[i] EXCEPT !.index = i - 1]
    OBVIOUS
  <2>3. \A i \in 1 .. k - 1 : i \in 1 .. n /\ i # k
    BY <1>1
  <2>4. \A i \in 1 .. k - 1 : x[i] \in Action /\ x[i].slug = in[i].slug
    <3> SUFFICES ASSUME NEW i \in 1 .. k - 1 PROVE x[i] \in Action /\ x[i].slug = in[i].slug
      OBVIOUS
    <3>1. x[i] = [in[i] EXCEPT !.index = i - 1] /\ in[i] \in Action /\ i - 1 \in Nat
      BY <1>1, <2>2, <2>3
    <3> HIDE DEF x
    <3> QED BY <3>1 DEF Action
  <2>5. x \in [1 .. k - 1 -> Action] /\ k - 1 \in Nat
    <3>1. x = [i \in 1 .. k - 1 |-> x[i]]
      OBVIOUS
    <3> HIDE DEF x
    <3> QED BY <1>1, <2>4, <3>1
  <2> HIDE DEF x
  <2>6. x \in Seq(Action) /\ Len(x) = k - 1
    BY <2>5, IsASeq, LenProperties
  <2>7. IsFiniteSet(A!slugs(x)) /\ a.slug \notin A!slugs(x)
    <3>1. \A i \in 1 .. k - 1 : x[i].slug # a.slug
      BY <1>1, <2>3, <2>4 DEF Apart
    <3>2. A!slugs(x) = {x[i].slug : i \in 1 .. k - 1}
      BY <2>2 DEF A!slugs
    <3> QED BY <2>6, <3>1, <3>2, ListNames
  <2>8. A!wanted(a) = a.slug
    BY <2>1 DEF A!wanted, A!NoSlug
  <2>9. A!uniqueSlug(A!wanted(a), A!slugs(x)) = a.slug
    BY <2>1, <2>7, <2>8, UniqueSlug
  <2>10. A!modeOf(a, a.slug) = a.mode
    BY <1>1 DEF A!modeOf
  <2>11. A!normalized(in, k, x) = b
    BY <2>1, <2>9, <2>10 DEF A!normalized, Action
  <2>12. b \in Action
    BY <1>1, <2>1 DEF Action
  <2>13. /\ Append(x, b) \in Seq(Action) /\ Len(Append(x, b)) = k
         /\ Append(x, b)[k] = b
         /\ \A i \in 1 .. k - 1 : Append(x, b)[i] = x[i]
    BY <2>6, <2>12, AppendProperties
  <2>14. \A i \in 1 .. k : Append(x, b)[i] = [in[i] EXCEPT !.index = i - 1]
    <3> HIDE DEF b
    <3>1. \A i \in 1 .. k : i = k \/ i \in 1 .. k - 1
      OBVIOUS
    <3>2. \A i \in 1 .. k - 1 : Append(x, b)[i] = [in[i] EXCEPT !.index = i - 1]
      BY <2>2, <2>13
    <3>3. Append(x, b)[k] = [in[k] EXCEPT !.index = k - 1]
      BY <2>13 DEF b
    <3> QED BY <3>1, <3>2, <3>3
  <2>15. Append(x, b) = [i \in 1 .. k |-> Append(x, b)[i]]
    <3> HIDE DEF b
    <3> QED BY <2>13, LenProperties
  <2>16. Append(x, b) = part(k)
    <3> HIDE DEF b
    <3> QED BY <2>14, <2>15
  <2> QED BY <2>11, <2>16 DEF x
<1>4. \A k \in 1 .. n : k - 1 \in 0 .. n /\ k \in 0 .. n
  BY <1>1
<1>5. part(0) = <<>> /\ part(n) = Renumbered(in)
  BY DEF Renumbered
<1> HIDE DEF part
<1>6. \A k \in 0 .. n : F[k] = {part(k)}
  OBVIOUS
<1> HIDE DEF F
<1>7. \A k \in 1 .. Short(in) : \A x \in F[k - 1] : Append(x, A!normalized(in, k, x)) \in F[k]
  BY <1>2, <1>3, <1>4, <1>6
<1>8. <<>> \in F[0] /\ F[n] = {Renumbered(in)}
  BY <1>1, <1>5, <1>6
<1>9. A!normalizeActions(in) \in F[Short(in)]
  <2> DEFINE U == {part(k) : k \in 0 .. n}
  <2>1. \A k \in 0 .. Short(in) : F[k] \subseteq U
    BY <1>2, <1>6
  <2> HIDE DEF U
  <2> QED BY <1>1, <1>7, <1>8, <2>1, NormalizedBy
<1> QED BY <1>2, <1>8, <1>9

\* What a file says of an action.
LEMMA FileFacts ==
  ASSUME NEW in \in ActionFiles
  PROVE  /\ Len(in) \in Nat /\ DOMAIN in = 1 .. Len(in) /\ Len(in) <= Cardinality(Ids)
         /\ \A i \in 1 .. Len(in) :
                /\ Whole(in[i]) /\ A!wanted(in[i]) \in Slug
                /\ in[i].id \in Ids \cup {NoId}
         /\ \A i, j \in 1 .. Len(in) : in[i].id = in[j].id => i = j \/ in[i].id = NoId
<1>1. /\ Len(in) \in 0 .. Cardinality(Ids) /\ in = [i \in 1 .. Len(in) |-> in[i]]
      /\ \A i, j \in DOMAIN in : in[i].id = in[j].id => i = j \/ in[i].id = NoId
  BY ActionsAssumption
<1>2. DOMAIN in = 1 .. Len(in) /\ Cardinality(Ids) \in Nat
  BY <1>1, FS_CardinalityType, ActionsAssumption
<1>3. ASSUME NEW i \in 1 .. Len(in)
      PROVE  Whole(in[i]) /\ A!wanted(in[i]) \in Slug /\ in[i].id \in Ids \cup {NoId}
  <2> DEFINE a == in[i]
  <2>1. /\ a = [id |-> a.id, slug |-> a.slug, index |-> a.index, name |-> a.name,
                mode |-> a.mode, playlist |-> a.playlist]
        /\ a.id \in Ids \cup {NoId} /\ a.playlist \in Played
    BY <1>2, ActionsAssumption DEF Played
  <2>2. a.mode \in Runs
    BY <1>2 DEF Runs
  <2>3. a.slug \in Slug \cup {<<>>} /\ <<a.name>> \in Written
    <3>1. a.slug \in Written \cup {<<>>} /\ <<a.name>> \in Written \cup {<<>>}
      BY <1>2 DEF Written
    <3>2. <<a.name>> # <<>>
      OBVIOUS
    <3> QED BY <3>1, <3>2, SlugFacts
  <2>4. a.name \in Called
    <3>1. <<a.name>>[1] = a.name
      OBVIOUS
    <3> QED BY <2>3, <3>1 DEF Called
  <2> HIDE DEF a
  <2>5. A!wanted(a) \in Slug
    BY <2>3, <2>4, Wants
  <2> QED BY <2>1, <2>2, <2>4, <2>5 DEF Whole, a
<1> QED BY <1>1, <1>2, <1>3

\* An action of a file without an id finds one that no other has or gets.
LEMMA FileIds ==
  ASSUME NEW in \in ActionFiles, NEW k \in 1 .. Len(in), in[k].id = NoId,
         NEW x \in Seq(Action), Len(x) = k - 1,
         \A i \in 1 .. k - 1 : in[i].id # NoId => x[i].id = in[i].id
  PROVE  ~(Ids \subseteq A!ids(x) \cup A!ids(in))
<1> DEFINE n == Len(in)
           others == (1 .. n) \ {k}
           f == [j \in others |-> IF j < k THEN x[j].id ELSE in[j].id]
           Q == {f[j] : j \in others}
<1>1. n \in Nat /\ DOMAIN in = 1 .. n /\ n <= Cardinality(Ids) /\ k \in 1 .. n
  BY FileFacts
<1>2. IsFiniteSet(others) /\ Cardinality(others) = n - 1
  <2> HIDE DEF n
  <2>1. IsFiniteSet(1 .. n) /\ Cardinality(1 .. n) = n
    BY <1>1, FS_Interval
  <2> DEFINE W == 1 .. n
  <2>2. IsFiniteSet(W) /\ k \in W /\ Cardinality(W) = n
    BY <1>1, <2>1
  <2> HIDE DEF W
  <2>3. IsFiniteSet(W \ {k}) /\ Cardinality(W \ {k}) = n - 1
    BY <2>2, FS_RemoveElement
  <2> QED BY <2>3 DEF W
<1>3. ASSUME NEW e \in A!ids(x) \cup A!ids(in), e \in Ids PROVE e \in Q
  <2>1. CASE e \in A!ids(x)
    <3>1. PICK j \in DOMAIN x : e = x[j].id
      BY <2>1 DEF A!ids
    <3>2. j \in 1 .. k - 1
      BY LenProperties
    <3>3. j \in others /\ j < k
      BY <1>1, <3>2
    <3>4. f[j] = e
      BY <3>1, <3>3
    <3> HIDE DEF f, others
    <3> QED BY <3>3, <3>4
  <2>2. CASE e \in A!ids(in)
    <3>1. PICK j \in 1 .. n : e = in[j].id
      BY <1>1, <2>2 DEF A!ids
    <3>2. e # NoId /\ j # k
      BY <1>3, <3>1, ActionsAssumption
    <3>3. j \in others
      BY <3>1, <3>2
    <3>4. f[j] = e
      <4>1. CASE j < k
        <5>1. j \in 1 .. k - 1
          BY <1>1, <3>1, <4>1
        <5>2. x[j].id = e
          BY <3>1, <3>2, <5>1
        <5> QED BY <3>3, <4>1, <5>2
      <4>2. CASE ~(j < k)
        BY <3>1, <3>3, <4>2
      <4> QED BY <4>1, <4>2
    <3> HIDE DEF f, others
    <3> QED BY <3>3, <3>4
  <2> QED BY <1>3, <2>1, <2>2
<1>4. f \in Surjection(others, Q)
  <2>1. f \in [others -> Q] /\ \A q \in Q : \E j \in others : f[j] = q
    OBVIOUS
  <2> HIDE DEF f, Q, others
  <2> QED BY <2>1 DEF Surjection
<1> HIDE DEF f, others, Q
<1>5. IsFiniteSet(Q) /\ Cardinality(Q) <= n - 1 /\ Cardinality(Q) \in Nat
  BY <1>2, <1>4, FS_Surjection, FS_CardinalityType
<1>6. ~(Ids \subseteq Q)
  <2>1. Cardinality(Ids) \in Nat
    BY FS_CardinalityType, ActionsAssumption
  <2>2. Cardinality(Q) < Cardinality(Ids)
    BY <1>1, <1>5, <2>1
  <2> QED BY <1>5, <2>2, IdsLeft
<1> QED BY <1>3, <1>6

\* A file that is loaded is a good list, repaired.
LEMMA NormalizedFile ==
  ASSUME NEW in \in ActionFiles PROVE A!normalizeActions(in) \in GoodLists
<1> DEFINE n == Short(in)
           Read(x, k) ==
               /\ Len(x) = k
               /\ \A i \in 1 .. k :
                      /\ x[i].index = i - 1
                      /\ in[i].id # NoId => x[i].id = in[i].id
                      /\ in[i].id = NoId => x[i].id \notin A!ids(in)
           F == [k \in 0 .. n |-> {x \in GoodLists : Read(x, k)}]
<1>1. /\ n \in Nat /\ n <= MaxActions /\ n <= Len(in) /\ Len(in) \in Nat
      /\ DOMAIN in = 1 .. Len(in)
  BY FileFacts, ActionsAssumption DEF Short
<1> HIDE DEF n
<1>2. ASSUME NEW k \in 1 .. n, NEW x \in GoodLists, Read(x, k - 1)
      PROVE  /\ Append(x, A!normalized(in, k, x)) \in GoodLists
             /\ Read(Append(x, A!normalized(in, k, x)), k)
  <2> DEFINE a == in[k]
             s == A!uniqueSlug(A!wanted(a), A!slugs(x))
             d == IF a.id = NoId THEN A!freshId(A!ids(x) \cup A!ids(in)) ELSE a.id
             b == Made(a, s, d, k - 1)
  <2>1. k \in 1 .. Len(in) /\ k \in DOMAIN in /\ k - 1 \in Nat
    BY <1>1
  <2>2. Whole(a) /\ A!wanted(a) \in Slug /\ a.id \in Ids \cup {NoId}
    BY <2>1, FileFacts
  <2>3. x \in Seq(Action) /\ DOMAIN x = 1 .. k - 1 /\ Len(x) = k - 1
    BY <1>2, GoodFacts
  <2>4. \A i \in 1 .. k - 1 : /\ x[i].index = i - 1
                              /\ in[i].id # NoId => x[i].id = in[i].id
                              /\ in[i].id = NoId => x[i].id \notin A!ids(in)
    BY <1>2
  <2>5. s \in Slug /\ s \notin A!slugs(x)
    BY <2>2, <2>3, ListNames, UniqueSlug
  <2>6. A!normalized(in, k, x) = b
    BY <2>2 DEF A!normalized, Made, Whole
  <2>7. d \in Ids /\ d \notin A!ids(x) /\ (a.id = NoId => d \notin A!ids(in))
    <3>1. CASE a.id = NoId
      <4>1. ~(Ids \subseteq A!ids(x) \cup A!ids(in))
        BY <2>1, <2>3, <2>4, <3>1, FileIds
      <4>2. A!freshId(A!ids(x) \cup A!ids(in)) \in Ids \ (A!ids(x) \cup A!ids(in))
        BY <4>1, FreshId
      <4> QED BY <3>1, <4>2
    <3>2. CASE a.id # NoId
      <4>1. \A i \in 1 .. k - 1 : x[i].id # a.id
        <5> SUFFICES ASSUME NEW i \in 1 .. k - 1 PROVE x[i].id # a.id
          OBVIOUS
        <5>1. i \in 1 .. Len(in) /\ i # k
          BY <1>1
        <5>2. CASE in[i].id = NoId
          <6>1. a.id \in A!ids(in)
            BY <2>1 DEF A!ids
          <6> QED BY <2>4, <5>2, <6>1
        <5>3. CASE in[i].id # NoId
          BY <2>1, <2>4, <5>1, <5>3, FileFacts
        <5> QED BY <5>2, <5>3
      <4>2. a.id \notin A!ids(x)
        BY <2>3, <4>1 DEF A!ids
      <4> QED BY <2>2, <3>2, <4>2
    <3> QED BY <3>1, <3>2
  <2>8. d = a.id \/ a.id = NoId
    OBVIOUS
  <2> HIDE DEF a, s, d
  <2>9. /\ b \in Action /\ b.slug = s /\ b.id = d /\ b.index = k - 1
        /\ b.playlist # NoPlaylist => b.mode = A!ShowMode(b.slug)
    BY <2>1, <2>2, <2>5, <2>7, MadeAction
  <2> HIDE DEF b
  <2>10. Len(x) < MaxActions
    BY <1>1, <2>3, ActionsAssumption
  <2>11. \A i \in 1 .. Len(x) : x[i].index < b.index
    BY <2>1, <2>3, <2>4, <2>9
  <2>12. /\ Append(x, b) \in GoodLists /\ Len(Append(x, b)) = k
         /\ \A i \in 1 .. k - 1 : Append(x, b)[i] = x[i]
    BY <2>1, <2>3, <2>5, <2>7, <2>9, <2>10, <2>11, AppendGood
  <2>13. Append(x, b)[k] = b
    BY <2>1, <2>3, <2>9, AppendProperties
  <2>14. Read(Append(x, b), k)
    <3>1. \A i \in 1 .. k : i = k \/ i \in 1 .. k - 1
      BY <2>1
    <3>2. /\ Append(x, b)[k].index = k - 1
          /\ in[k].id # NoId => Append(x, b)[k].id = in[k].id
          /\ in[k].id = NoId => Append(x, b)[k].id \notin A!ids(in)
      BY <2>7, <2>8, <2>9, <2>13 DEF a
    <3> QED BY <2>4, <2>12, <3>1, <3>2
  <2> QED BY <2>6, <2>12, <2>14
<1>3. <<>> \in GoodLists /\ Read(<<>>, 0)
  BY NoneGood
<1> HIDE DEF Read
<1>4. \A k \in 0 .. n : F[k] = {x \in GoodLists : Read(x, k)}
  OBVIOUS
<1>5. \A k \in 1 .. n : k - 1 \in 0 .. n /\ k \in 0 .. n
  BY <1>1
<1>6. <<>> \in F[0] /\ n \in 0 .. n
  BY <1>1, <1>3, <1>4
<1> HIDE DEF F
<1>7. \A k \in 1 .. n : \A x \in F[k - 1] : Append(x, A!normalized(in, k, x)) \in F[k]
  BY <1>2, <1>4, <1>5
<1>8. \A k \in 0 .. n : F[k] \subseteq GoodLists
  BY <1>4
<1>9. A!normalizeActions(in) \in F[n]
  BY <1>1, <1>6, <1>7, <1>8, NormalizedBy DEF n
<1> QED BY <1>6, <1>8, <1>9

Plain(a) == [a EXCEPT !.index = 0]

\* Some of a good list is a good list, in which every one of them is found.
LEMMA KeptGood ==
  ASSUME NEW l \in GoodLists, NEW Q, Q \subseteq DOMAIN l
  PROVE  /\ Kept(l, Q) \in GoodLists
         /\ \A i \in Q : \E j \in DOMAIN Kept(l, Q) : Kept(l, Q)[j] = l[i]
<1> DEFINE n == Len(l)
           c == Cardinality(Q)
           m == Kept(l, Q)
<1>1. /\ n \in Nat /\ DOMAIN l = 1 .. n /\ l \in Seq(Action) /\ n <= MaxActions
      /\ \A i \in 1 .. n : l[i].index \in Nat
      /\ \A i, j \in 1 .. n : i # j => Apart(l[i], l[j])
      /\ \A i, j \in 1 .. n : i < j => l[i].index < l[j].index
      /\ \A i \in 1 .. n : l[i].playlist # NoPlaylist => l[i].mode = A!ShowMode(l[i].slug)
  BY GoodFacts
<1>2. PICK order \in [1 .. c -> Q] : KeptBy(Action, l, Q, order)
  BY <1>1, KeptFacts
<1>3. /\ c \in Nat /\ c <= n /\ m = [i \in 1 .. c |-> l[order[i]]]
      /\ m \in Seq(Action) /\ Len(m) = c
      /\ \A i, j \in 1 .. c : i < j => order[i] < order[j]
      /\ \A i, j \in 1 .. c : order[i] = order[j] => i = j
      /\ \A x \in Q : \E i \in 1 .. c : order[i] = x
  BY <1>2 DEF KeptBy
<1>4. \A i \in 1 .. c : order[i] \in 1 .. n /\ order[i] \in Q
  BY <1>1
<1> HIDE DEF n, c, m
<1>5. \A i \in 1 .. c : m[i] = l[order[i]]
  BY <1>3
<1>6. \A i, j \in 1 .. c : (i # j => Apart(m[i], m[j])) /\ (i < j => m[i].index < m[j].index)
  <2> SUFFICES ASSUME NEW i \in 1 .. c, NEW j \in 1 .. c
               PROVE  (i # j => Apart(m[i], m[j])) /\ (i < j => m[i].index < m[j].index)
    OBVIOUS
  <2>1. m[i] = l[order[i]] /\ m[j] = l[order[j]]
    BY <1>5
  <2>2. order[i] \in 1 .. n /\ order[j] \in 1 .. n
    BY <1>4
  <2>3. i # j => Apart(m[i], m[j])
    BY <1>1, <1>3, <2>1, <2>2
  <2>4. i < j => m[i].index < m[j].index
    BY <1>1, <1>3, <2>1, <2>2
  <2> QED BY <2>3, <2>4
<1>7. \A i \in 1 .. c : m[i].playlist # NoPlaylist => m[i].mode = A!ShowMode(m[i].slug)
  BY <1>1, <1>4, <1>5
<1>8. c <= MaxActions
  BY <1>1, <1>3, ActionsAssumption
<1>9. m \in GoodLists
  <2>1. Len(m) = c /\ m \in Seq(Action)
    BY <1>3
  <2>2. /\ \A i, j \in 1 .. Len(m) : i # j => Apart(m[i], m[j])
        /\ \A i, j \in 1 .. Len(m) : i < j => m[i].index < m[j].index
    BY <1>6, <2>1
  <2>3. \A i \in 1 .. Len(m) : m[i].playlist # NoPlaylist => m[i].mode = A!ShowMode(m[i].slug)
    BY <1>7, <2>1
  <2> QED BY <1>8, <2>1, <2>2, <2>3 DEF GoodLists
<1>10. ASSUME NEW i \in Q PROVE \E j \in DOMAIN m : m[j] = l[i]
  <2>1. PICK j \in 1 .. c : order[j] = i
    BY <1>3
  <2>2. j \in DOMAIN m /\ m[j] = l[i]
    BY <1>3, <1>5, <2>1
  <2> QED BY <2>2
<1> QED BY <1>9, <1>10 DEF m

Permutes(o, n) ==
    /\ o \in [1 .. n -> 1 .. n] /\ \A i, j \in 1 .. n : o[i] = o[j] => i = j
    /\ \A x \in 1 .. n : \E i \in 1 .. n : o[i] = x

Holds(m, l) == \A i \in DOMAIN l : \E j \in DOMAIN m : Plain(m[j]) = Plain(l[i])

\* A good list in another order is a good list of the same actions.
LEMMA ReorderedGood ==
  ASSUME NEW l \in GoodLists, NEW o, Permutes(o, Len(l)),
         NEW m, m = [i \in DOMAIN l |-> [l[o[i]] EXCEPT !.index = i - 1]]
  PROVE  m \in GoodLists /\ Holds(m, l)
<1> DEFINE n == Len(l)
<1>0. /\ o \in [1 .. n -> 1 .. n]
      /\ \A i, j \in 1 .. n : o[i] = o[j] => i = j
      /\ \A x \in 1 .. n : \E i \in 1 .. n : o[i] = x
  BY DEF Permutes
<1>1. /\ n \in Nat /\ DOMAIN l = 1 .. n /\ n <= MaxActions
      /\ \A i \in 1 .. n : l[i] \in Action
      /\ \A i, j \in 1 .. n : i # j => Apart(l[i], l[j])
      /\ \A i \in 1 .. n : l[i].playlist # NoPlaylist => l[i].mode = A!ShowMode(l[i].slug)
  BY GoodFacts
<1>2. ASSUME NEW i \in 1 .. n
      PROVE  /\ m[i] \in Action /\ m[i].index = i - 1 /\ m[i].slug = l[o[i]].slug
             /\ m[i].id = l[o[i]].id /\ m[i].mode = l[o[i]].mode
             /\ m[i].playlist = l[o[i]].playlist /\ Plain(m[i]) = Plain(l[o[i]])
  <2>1. m[i] = [l[o[i]] EXCEPT !.index = i - 1] /\ i - 1 \in Nat
    BY <1>1
  <2>2. l[o[i]] \in Action
    BY <1>0, <1>1
  <2> DEFINE y == l[o[i]]
             k == i - 1
             z == [y EXCEPT !.index = k]
  <2>3. /\ z \in Action /\ z.index = k /\ z.slug = y.slug
        /\ z.id = y.id /\ z.mode = y.mode /\ z.playlist = y.playlist
    <3>1. y \in Action /\ k \in Nat
      BY <2>1, <2>2
    <3> HIDE DEF y, k
    <3> QED BY <3>1 DEF Action
  <2>4. Plain([y EXCEPT !.index = k]) = Plain(y)
    <3> HIDE DEF y, k
    <3> QED BY DEF Plain
  <2>5. Plain(m[i]) = Plain(l[o[i]])
    BY ONLY <2>1, <2>4
  <2> QED BY <2>1, <2>3, <2>5
<1>3. m \in [1 .. n -> Action] /\ DOMAIN m = 1 .. n
  BY <1>1, <1>2
<1>4. m \in Seq(Action) /\ Len(m) = n
  BY <1>1, <1>3, IsASeq, LenProperties
<1>5. \A i \in 1 .. n : o[i] \in 1 .. n
  BY <1>0
<1> HIDE DEF n
<1>6. /\ \A i, j \in 1 .. n : i # j => Apart(m[i], m[j])
      /\ \A i, j \in 1 .. n : i < j => m[i].index < m[j].index
  <2> SUFFICES ASSUME NEW i \in 1 .. n, NEW j \in 1 .. n
               PROVE  (i # j => Apart(m[i], m[j])) /\ (i < j => m[i].index < m[j].index)
    OBVIOUS
  <2>1. i # j => Apart(l[o[i]], l[o[j]])
    BY <1>0, <1>1, <1>5
  <2>2. i # j => Apart(m[i], m[j])
    BY <1>2, <2>1 DEF Apart
  <2>3. i < j => m[i].index < m[j].index
    <3>1. m[i].index = i - 1 /\ m[j].index = j - 1
      BY <1>2
    <3> QED BY <3>1
  <2> QED BY <2>2, <2>3
<1>7. \A i \in 1 .. n : m[i].playlist # NoPlaylist => m[i].mode = A!ShowMode(m[i].slug)
  <2> SUFFICES ASSUME NEW i \in 1 .. n, m[i].playlist # NoPlaylist
               PROVE  m[i].mode = A!ShowMode(m[i].slug)
    OBVIOUS
  <2>1. /\ m[i].slug = l[o[i]].slug /\ m[i].mode = l[o[i]].mode
        /\ m[i].playlist = l[o[i]].playlist
    BY <1>2
  <2>2. l[o[i]].playlist # NoPlaylist => l[o[i]].mode = A!ShowMode(l[o[i]].slug)
    BY <1>1, <1>5
  <2> QED BY <2>1, <2>2
<1>8. m \in GoodLists
  BY <1>1, <1>4, <1>6, <1>7 DEF GoodLists
<1>9. ASSUME NEW i \in 1 .. n PROVE \E j \in DOMAIN m : Plain(m[j]) = Plain(l[i])
  <2>1. PICK j \in 1 .. n : o[j] = i
    BY <1>0
  <2> QED BY <1>2, <1>3, <2>1
<1> QED BY <1>1, <1>8, <1>9 DEF Holds

\* The largest number of a set that has a bound is one of it.
LEMMA LargestIn ==
  ASSUME NEW n \in Nat, NEW Q, Q \subseteq 1 .. n, Q # {} PROVE A!Max(Q) \in Nat
<1> DEFINE Above == {m \in Nat : \A q \in Q : q <= m}
<1>1. PICK m \in Above : \A x \in Above : m <= x
  <2>1. Above \subseteq Nat /\ n \in Above
    OBVIOUS
  <2> HIDE DEF Above
  <2> QED BY <2>1, LeastNumber
<1>2. m \in Nat /\ \A q \in Q : q \in Nat /\ 1 <= q /\ q <= m
  OBVIOUS
<1>3. m \in Q
  <2> SUFFICES ASSUME m \notin Q PROVE FALSE
    OBVIOUS
  <2>1. \A q \in Q : q <= m - 1
    BY <1>2
  <2>2. m - 1 \in Nat
    <3>1. PICK q \in Q : TRUE
      OBVIOUS
    <3> QED BY <1>2, <3>1
  <2>3. m <= m - 1
    BY <1>1, <2>1, <2>2
  <2> QED BY <1>2, <2>3
<1>4. Q \subseteq Nat
  OBVIOUS
<1> HIDE DEF Above
<1> QED BY <1>2, <1>3, <1>4, LargestOf

\* The position of an action in a submitted order is a number, 0 if it has none.
LEMMA PositionNat ==
  ASSUME NEW order \in A!Orders, NEW a
  PROVE  A!position(order, a) \in Nat /\ Len(order) \in Nat
<1>1. PICK n \in 0 .. MaxKeys : order \in [1 .. n -> A!slugs(items) \cup A!ids(items)]
  BY DEF A!Orders
<1>2. n \in Nat /\ DOMAIN order = 1 .. n /\ Len(order) = n
  BY <1>1, BoundAssumption
<1>3. ASSUME NEW key, {i \in DOMAIN order : order[i] = key} # {}
      PROVE  A!Max({i \in DOMAIN order : order[i] = key}) \in Nat
  BY <1>2, <1>3, LargestIn
<1>4. A!position(order, a) \in Nat
  BY <1>3 DEF A!position
<1> QED BY <1>2, <1>4

\* A rank, and the place where it was, put everything in order.
LEMMA RanksOrder ==
  ASSUME NEW D, D \subseteq Nat, NEW r, \A i \in D : r[i] \in Nat,
         NEW R, R = {p \in D \X D : r[p[1]] < r[p[2]] \/ (r[p[1]] = r[p[2]] /\ p[1] < p[2])}
  PROVE  Orders(R, D)
<1>1. \A x, y \in D : <<x, y>> \in R <=> r[x] < r[y] \/ (r[x] = r[y] /\ x < y)
  OBVIOUS
<1>2. ASSUME NEW x \in D, NEW y \in D, NEW z \in D
      PROVE  /\ <<x, x>> \notin R
             /\ <<x, y>> \in R /\ <<y, z>> \in R => <<x, z>> \in R
             /\ x # y => <<x, y>> \in R \/ <<y, x>> \in R
  <2>1. x \in Nat /\ y \in Nat /\ z \in Nat /\ r[x] \in Nat /\ r[y] \in Nat /\ r[z] \in Nat
    OBVIOUS
  <2> QED BY <1>1, <2>1
<1> QED BY <1>2 DEF Orders

-----------------------------------------------------------------------------
\* Two lists of the same actions, but for the numbers.
Alike(l, m) == Len(l) = Len(m) /\ \A i \in 1 .. Len(l) : Plain(l[i]) = Plain(m[i])

\* Loading a good list changes nothing but the numbers.
LEMMA RenumberedSame ==
  ASSUME NEW l \in GoodLists PROVE Alike(Renumbered(l), l)
<1> DEFINE n == Len(l)
<1>1. /\ n \in Nat /\ DOMAIN l = 1 .. n /\ l \in Seq(Action)
  BY GoodFacts
<1>2. Len(Renumbered(l)) = n
  <2>1. Renumbered(l) \in GoodLists /\ DOMAIN Renumbered(l) = 1 .. n
    BY RenumberedGood DEF Renumbered
  <2>2. Len(Renumbered(l)) \in Nat /\ DOMAIN Renumbered(l) = 1 .. Len(Renumbered(l))
    BY <2>1, GoodFacts
  <2> DEFINE k == Len(Renumbered(l))
  <2>3. k \in Nat /\ 1 .. k = 1 .. n
    BY <2>1, <2>2
  <2> HIDE DEF k, n
  <2>4. k = n
    BY <1>1, <2>3
  <2> QED BY <2>4 DEF k
<1>3. ASSUME NEW i \in 1 .. n PROVE Plain(Renumbered(l)[i]) = Plain(l[i])
  <2> DEFINE y == l[i]
             k == i - 1
  <2>1. Renumbered(l)[i] = [y EXCEPT !.index = k]
    BY DEF Renumbered
  <2>2. Plain([y EXCEPT !.index = k]) = Plain(y)
    <3> HIDE DEF y, k
    <3> QED BY DEF Plain
  <2> QED BY ONLY <2>1, <2>2
<1> QED BY <1>2, <1>3 DEF Alike

\* What the file holds is what is held, and is itself loaded to itself.
Stored(l, f) ==
    /\ A!loaded(f) \in GoodLists /\ A!migratedFile(f) = f
    /\ Alike(A!loaded(f), l)

ActInv == items \in GoodLists /\ fileSeen \in BOOLEAN /\ Stored(items, actionsFile)

\* A file that is written is there.
LEMMA FileThere == ASSUME NEW l PROVE <<l>> # A!NoFile /\ <<l>>[1] = l
BY DEF A!NoFile

\* What is saved is what will be loaded.
LEMMA SavedStored == ASSUME NEW l \in GoodLists PROVE Stored(l, <<l>>)
<1>1. A!loaded(<<l>>) = Renumbered(l)
  BY FileThere, NormalizedSaved DEF A!loaded
<1>2. A!migratedFile(<<l>>) = <<l>>
  BY FileThere DEF A!migratedFile
<1> QED BY <1>1, <1>2, RenumberedGood, RenumberedSame DEF Stored

\* The actions start with what is in the file, or with the migrated ones.
LEMMA ActInit == A!Init => ActInv
<1> SUFFICES ASSUME A!Init PROVE ActInv
  OBVIOUS
<1>1. PICK f \in {<<l>> : l \in ActionFiles} \cup {A!NoFile} :
          /\ items = A!loaded(f)
          /\ fileSeen = (f # A!NoFile)
          /\ actionsFile = A!migratedFile(f)
  BY DEF A!Init
<1>2. fileSeen \in BOOLEAN
  BY <1>1
<1>3. CASE f = A!NoFile
  <2>1. items = A!seeded /\ items \in GoodLists
    BY <1>1, <1>3, SeededGood DEF A!loaded
  <2>2. CASE A!seeded = <<>>
    <3>1. actionsFile = A!NoFile
      BY <1>1, <1>3, <2>2 DEF A!migratedFile
    <3>2. A!loaded(actionsFile) = items /\ A!migratedFile(actionsFile) = actionsFile
      BY <1>1, <1>3, <2>2, <3>1 DEF A!migratedFile
    <3> QED BY <1>2, <2>1, <3>2 DEF ActInv, Stored, Alike
  <2>3. CASE A!seeded # <<>>
    <3>1. actionsFile = <<items>>
      BY <1>1, <1>3, <2>1, <2>3 DEF A!migratedFile
    <3> QED BY <1>2, <2>1, <3>1, SavedStored DEF ActInv
  <2> QED BY <2>2, <2>3
<1>4. CASE f # A!NoFile
  <2>1. PICK l \in ActionFiles : f = <<l>>
    BY <1>1, <1>4
  <2>2. A!loaded(f) = A!normalizeActions(l) /\ A!loaded(f) \in GoodLists
    BY <2>1, FileThere, NormalizedFile DEF A!loaded
  <2>3. A!migratedFile(f) = f
    BY <1>4 DEF A!migratedFile
  <2> QED BY <1>1, <1>2, <2>2, <2>3 DEF ActInv, Stored, Alike
<1> QED BY <1>3, <1>4

-----------------------------------------------------------------------------
\* What becomes of an action: it is kept, or it is the one that was meant.
Spared ==
    \A i \in DOMAIN items :
        \/ \E j \in DOMAIN items' :
               [items'[j] EXCEPT !.index = 0] = [items[i] EXCEPT !.index = 0]
        \/ \E in \in A!Submitted : in.id = items[i].id /\ A!Upsert(in)
        \/ A!Delete(items[i].slug)

\* What a form submits is an edit or a new action.
LEMMA SubmittedAsked == A!Submitted \subseteq Asked
<1> SUFFICES ASSUME NEW in \in A!Submitted PROVE in \in Asked
  OBVIOUS
<1>1. /\ in = [id |-> in.id, slug |-> in.slug, index |-> in.index, name |-> in.name,
               mode |-> in.mode, playlist |-> in.playlist]
      /\ in.id \in Ids \cup {NoId} /\ in.slug \in Typed \cup {<<>>} /\ in.index = 0
      /\ in.name \in Names /\ in.mode \in Modes /\ in.playlist \in Played
  BY DEF A!Submitted, A!NoSlug, Played
<1>2. in.slug \in Slug \cup {<<>>}
  <2>1. Typed \ {<<>>} \subseteq Written
    BY DEF Written
  <2> QED BY <1>1, <2>1, SlugFacts
<1>3. in.name \in Called
  <2>1. <<in.name>> \in Written /\ <<in.name>>[1] = in.name
    BY <1>1 DEF Written
  <2> QED BY <2>1 DEF Called
<1>4. in.mode \in Runs
  BY <1>1 DEF Runs
<1> QED BY <1>1, <1>2, <1>3, <1>4 DEF Asked

\* Saving one action keeps the invariant, and the others.
LEMMA UpsertStep ==
  ASSUME ActInv, NEW in \in A!Submitted, A!Upsert(in) PROVE ActInv' /\ Spared
<1>1. /\ ~A!refused(items, in) /\ items' = A!upserted(items, in)
      /\ actionsFile' = <<items'>> /\ fileSeen' = fileSeen
  BY DEF A!Upsert, A!Store
<1>2. in \in Asked /\ items \in GoodLists /\ fileSeen \in BOOLEAN
  BY SubmittedAsked DEF ActInv
<1>3. /\ items' \in GoodLists /\ Len(items) <= Len(items')
      /\ \A i \in 1 .. Len(items) : items'[i] = items[i] \/ items[i].id = in.id
  BY <1>1, <1>2, UpsertGood
<1>4. ActInv'
  BY <1>1, <1>2, <1>3, SavedStored DEF ActInv, Stored, A!loaded
<1>5. Spared
  <2>1. DOMAIN items = 1 .. Len(items) /\ DOMAIN items' = 1 .. Len(items')
    BY <1>2, <1>3, GoodFacts
  <2>2. \A i \in DOMAIN items : i \in DOMAIN items'
    BY <1>2, <1>3, <2>1, GoodFacts
  <2> QED BY <1>3, <2>1, <2>2 DEF Spared
<1> QED BY <1>4, <1>5

\* A key is a slug or an id, and hits one action.
LEMMA DeleteStep ==
  ASSUME ActInv, NEW key, A!Delete(key) PROVE ActInv' /\ Spared
<1> DEFINE Q == {i \in DOMAIN items : key \notin {items[i].slug, items[i].id}}
<1>1. /\ items' = A!Kept(items, Q) /\ actionsFile' = <<items'>> /\ fileSeen' = fileSeen
  BY DEF A!Delete, A!Store
<1>2. /\ items \in GoodLists /\ DOMAIN items = 1 .. Len(items) /\ fileSeen \in BOOLEAN
      /\ \A i \in 1 .. Len(items) : items[i] \in Action
      /\ \A i, j \in 1 .. Len(items) : i # j => Apart(items[i], items[j])
  BY GoodFacts DEF ActInv
<1>3. items' = Kept(items, Q)
  BY <1>1, SameRankingA
<1>4. Q \subseteq DOMAIN items
  OBVIOUS
<1>5. items' \in GoodLists /\ \A i \in Q : \E j \in DOMAIN items' : items'[j] = items[i]
  <2> HIDE DEF Q
  <2> QED BY <1>2, <1>3, <1>4, KeptGood
<1>6. ActInv'
  BY <1>1, <1>2, <1>5, SavedStored DEF ActInv
<1>7. ASSUME NEW i \in DOMAIN items, i \notin Q PROVE A!Delete(items[i].slug)
  <2> DEFINE Hit(k) == {j \in DOMAIN items : k \notin {items[j].slug, items[j].id}}
  <2>1. \A j \in DOMAIN items : items[j].slug \in Slug /\ items[j].id \in Ids
    BY <1>2 DEF Action
  <2>2. \A j \in DOMAIN items : j # i => Apart(items[i], items[j])
    BY <1>2, <1>7
  <2>3. key = items[i].slug \/ key = items[i].id
    BY <1>7
  <2>4. Hit(key) = DOMAIN items \ {i} /\ Hit(items[i].slug) = DOMAIN items \ {i}
    BY <2>1, <2>2, <2>3, SlugFacts DEF Apart
  <2>5. Hit(items[i].slug) = Hit(key)
    BY <2>4
  <2> QED BY <2>5 DEF A!Delete
<1>8. Spared
  <2>1. ASSUME NEW i \in DOMAIN items, i \in Q
        PROVE  \E j \in DOMAIN items' :
                   [items'[j] EXCEPT !.index = 0] = [items[i] EXCEPT !.index = 0]
    <3>1. PICK j \in DOMAIN items' : items'[j] = items[i]
      BY <1>5, <2>1
    <3> QED BY <3>1
  <2> HIDE DEF Q
  <2> QED BY <1>7, <2>1 DEF Spared
<1> QED BY <1>6, <1>8

\* So does a new order.
LEMMA ReorderStep ==
  ASSUME ActInv, NEW order \in A!Orders, A!Reorder(order) PROVE ActInv' /\ Spared
<1> DEFINE D == DOMAIN items
           pos(i) == A!position(order, items[i])
           rank(i) == IF pos(i) > 0 THEN pos(i)
                      ELSE Len(order) + A!Cardinality({j \in 1 .. i : pos(j) = 0})
           first(i, j) == rank(i) < rank(j) \/ (rank(i) = rank(j) /\ i < j)
           places == D \X D
           R == {p \in places : first(p[1], p[2])}
           n == Len(items)
           o == A!Arranged(D, R)
           r == [i \in D |-> rank(i)]
<1>1. /\ items' = [i \in D |-> [items[o[i]] EXCEPT !.index = i - 1]]
      /\ actionsFile' = <<items'>> /\ fileSeen' = fileSeen
  BY DEF A!Reorder, A!Store
<1>2. /\ items \in GoodLists /\ D = 1 .. n /\ n \in Nat /\ fileSeen \in BOOLEAN
  BY GoodFacts DEF ActInv
<1>3. \A i \in D : r[i] \in Nat
  <2> SUFFICES ASSUME NEW i \in D PROVE rank(i) \in Nat
    OBVIOUS
  <2>1. pos(i) \in Nat /\ Len(order) \in Nat
    BY PositionNat
  <2> DEFINE Z == {j \in 1 .. i : pos(j) = 0}
  <2>2. A!Cardinality(Z) \in Nat
    <3>1. i \in Nat
      BY <1>2
    <3>2. IsFiniteSet(1 .. i) /\ Z \subseteq 1 .. i
      BY <3>1, FS_Interval
    <3> HIDE DEF Z
    <3> QED BY <3>2, FS_Subset, FS_CardinalityType, SameRankingA
  <2> HIDE DEF Z, pos
  <2>3. Len(order) + A!Cardinality(Z) \in Nat
    BY <2>1, <2>2
  <2> QED BY <2>1, <2>3 DEF Z
<1>4. R = {p \in D \X D : r[p[1]] < r[p[2]] \/ (r[p[1]] = r[p[2]] /\ p[1] < p[2])}
  <2> HIDE DEF D, rank
  <2>1. \A p \in D \X D : r[p[1]] = rank(p[1]) /\ r[p[2]] = rank(p[2])
    OBVIOUS
  <2> HIDE DEF r
  <2> QED BY <2>1
<1>5. o = Arranged(D, R)
  BY SameRankingA
<1> HIDE DEF o, R, r, D
<1>6. Orders(R, D) /\ IsFiniteSet(D) /\ Cardinality(D) = n
  <2>1. D \subseteq Nat
    BY <1>2
  <2>2. Orders(R, D)
    BY <1>3, <1>4, <2>1, RanksOrder
  <2>3. IsFiniteSet(D) /\ Cardinality(D) = n
    <3> HIDE DEF n
    <3>1. IsFiniteSet(1 .. n) /\ Cardinality(1 .. n) = n
      BY <1>2, FS_Interval
    <3> QED BY <1>2, <3>1
  <2> QED BY <2>2, <2>3
<1>7. /\ o \in [1 .. n -> D] /\ \A i, j \in 1 .. n : o[i] = o[j] => i = j
      /\ \A x \in D : \E i \in 1 .. n : o[i] = x
  BY <1>5, <1>6, ArrangedFacts
<1>8. /\ Permutes(o, Len(items))
      /\ items' = [i \in DOMAIN items |-> [items[o[i]] EXCEPT !.index = i - 1]]
  BY <1>1, <1>2, <1>7 DEF D, Permutes
<1>9. /\ items' \in GoodLists
      /\ Holds(items', items)
  BY <1>2, <1>8, ReorderedGood
<1>10. ActInv'
  BY <1>1, <1>2, <1>9, SavedStored DEF ActInv
<1>11. Spared
  BY <1>9 DEF Spared, Plain, Holds
<1> QED BY <1>10, <1>11

\* So does a restart, which loads the file.
LEMMA RestartStep == ASSUME ActInv, A!Restart PROVE ActInv' /\ Spared
<1>1. /\ items' = A!loaded(actionsFile) /\ fileSeen' = (actionsFile # A!NoFile)
      /\ actionsFile' = A!migratedFile(actionsFile)
  BY DEF A!Restart
<1>2. /\ items \in GoodLists /\ A!loaded(actionsFile) \in GoodLists
      /\ A!migratedFile(actionsFile) = actionsFile /\ Alike(A!loaded(actionsFile), items)
  BY DEF ActInv, Stored
<1>3. actionsFile' = actionsFile /\ fileSeen' \in BOOLEAN /\ items' \in GoodLists
  BY <1>1, <1>2
<1>4. Stored(items', actionsFile)
  BY <1>1, <1>2 DEF Stored, Alike
<1>5. ActInv'
  BY <1>3, <1>4 DEF ActInv
<1>6. Spared
  <2>1. /\ DOMAIN items = 1 .. Len(items) /\ DOMAIN items' = 1 .. Len(items')
        /\ Len(items') = Len(items)
        /\ \A i \in 1 .. Len(items') : Plain(items'[i]) = Plain(items[i])
    BY <1>1, <1>2, <1>3, GoodFacts DEF Alike
  <2> QED BY <2>1 DEF Spared, Plain
<1> QED BY <1>5, <1>6

\* Every step keeps the invariant, and what is not edited or deleted.
LEMMA ActStep == ActInv /\ [A!Next]_(A!vars) => ActInv' /\ (Spared \/ UNCHANGED A!vars)
<1> SUFFICES ASSUME ActInv, [A!Next]_(A!vars) PROVE ActInv' /\ (Spared \/ UNCHANGED A!vars)
  OBVIOUS
<1>1. CASE UNCHANGED A!vars
  <2>1. items' = items /\ fileSeen' = fileSeen /\ actionsFile' = actionsFile
    BY <1>1 DEF A!vars
  <2>2. Stored(items', actionsFile') /\ items' \in GoodLists /\ fileSeen' \in BOOLEAN
    BY <2>1 DEF ActInv
  <2> QED BY <1>1, <2>2 DEF ActInv
<1>2. CASE A!Next
  <2>1. ASSUME NEW in \in A!Submitted, A!Upsert(in) PROVE ActInv' /\ Spared
    BY <2>1, UpsertStep
  <2>2. ASSUME NEW key, A!Delete(key) PROVE ActInv' /\ Spared
    BY <2>2, DeleteStep
  <2>3. ASSUME NEW order \in A!Orders, A!Reorder(order) PROVE ActInv' /\ Spared
    BY <2>3, ReorderStep
  <2>4. CASE A!Restart
    BY <2>4, RestartStep
  <2> QED BY <1>2, <2>1, <2>2, <2>3, <2>4 DEF A!Next
<1> QED BY <1>1, <1>2

\* What it says of the properties that a run checks.
LEMMA ActTells == ActInv => A!Keyed /\ A!OrderedSlice /\ A!PlaysItsOwn /\ A!TypeOK
<1> SUFFICES ASSUME ActInv PROVE A!Keyed /\ A!OrderedSlice /\ A!PlaysItsOwn /\ A!TypeOK
  OBVIOUS
<1> DEFINE n == Len(items)
<1>1. /\ fileSeen \in BOOLEAN /\ n \in Nat /\ DOMAIN items = 1 .. n /\ n <= MaxActions
      /\ \A i \in 1 .. n : items[i] \in Action /\ items[i].index \in Nat
      /\ \A i, j \in 1 .. n : i # j => Apart(items[i], items[j])
      /\ \A i, j \in 1 .. n : i < j => items[i].index < items[j].index
      /\ \A i \in 1 .. n :
             items[i].playlist # NoPlaylist => items[i].mode = A!ShowMode(items[i].slug)
  BY GoodFacts DEF ActInv
<1> HIDE DEF n
<1>2. A!Keyed
  BY <1>1 DEF A!Keyed, Apart
<1>3. A!OrderedSlice
  BY <1>1 DEF A!OrderedSlice
<1>4. A!PlaysItsOwn
  <2> SUFFICES ASSUME NEW i \in 1 .. n, items[i].playlist # NoPlaylist, NEW j \in 1 .. n
               PROVE  items[i].mode = A!ShowMode(items[j].slug) <=> i = j
    BY <1>1 DEF A!PlaysItsOwn
  <2>1. items[i].mode = A!ShowMode(items[i].slug)
    BY <1>1
  <2>2. A!ShowMode(items[i].slug).show = items[i].slug
        /\ A!ShowMode(items[j].slug).show = items[j].slug
    BY DEF A!ShowMode
  <2>3. i # j => items[i].slug # items[j].slug
    BY <1>1 DEF Apart
  <2> QED BY <2>1, <2>2, <2>3
<1>5. A!TypeOK
  <2>1. \A i \in 1 .. n : items[i].id \in Ids /\ items[i].index \in Nat
    BY <1>1 DEF Action
  <2> QED BY <1>1, <2>1 DEF A!TypeOK, n
<1> QED BY <1>2, <1>3, <1>4, <1>5

\* What the rest of the node does leaves the actions alone.
LEMMA ActAlone == Spec => A!Init /\ [][A!Next]_(A!vars)
<1>1. Init => A!Init
  BY DEF Init
<1>2. [Next]_vars => [A!Next]_(A!vars)
  BY DEF Next, vars, svars, avars, pvars, yvars, bvars, lvars, cvars, gvars, nvars,
         jvars, tvars, kvars, xvars, A!vars
<1> QED BY <1>1, <1>2, PTL DEF Spec

\* The invariant holds at the start, and so throughout.
LEMMA ActHolds == Spec => []ActInv
<1>1. ActInv /\ [A!Next]_(A!vars) => ActInv'
  BY ActStep
<1> QED BY <1>1, ActInit, ActAlone, PTL

\* An action that is not edited or deleted keeps its id, its slug and what it does,
\* whatever happens to the others and across restarts, for every list (actions.go).
THEOREM OthersKept == Spec => OthersUntouched
<1>1. ActInv /\ [A!Next]_(A!vars) => [Spared]_(A!vars)
  BY ActStep
<1> QED BY <1>1, ActHolds, ActAlone, PTL DEF OthersUntouched, A!OthersUntouched, Spared
=============================================================================
