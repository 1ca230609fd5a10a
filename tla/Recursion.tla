------------------------------ MODULE Recursion ------------------------------
(***************************************************************************)
(* Induction and recursion for the proofs about the model's lists: facts    *)
(* about a recursive function are proved by showing that it exists, that    *)
(* its equations therefore hold, and by induction over the set of numbers   *)
(* up to which they hold.                                                   *)
(***************************************************************************)
EXTENDS Lists, SequencesExt, NaturalsInduction, WellFoundedInduction, SequenceTheorems, TLAPS

\* Induction, for a set instead of a predicate: the least natural number outside the set is
\* neither zero nor a successor.
LEMMA SetInduction ==
  ASSUME NEW S, S \subseteq Nat, 0 \in S, \A n \in S : n + 1 \in S
  PROVE  S = Nat
<1> DEFINE T == Nat \ S
<1> SUFFICES ASSUME T # {} PROVE FALSE BY DEF T
<1> DEFINE R == OpToRel(<, Nat)
<1>1. IsWellFoundedOn(R, Nat) BY NatLessThanWellFounded
<1>2. \A x, y \in Nat : x < y => <<x, y>> \in R BY DEF OpToRel
<1>3. T \subseteq Nat OBVIOUS
<1> HIDE DEF T, R
<1>4. PICK x \in T : \A y \in T : ~(<<y, x>> \in R) BY <1>1, <1>3, WFMin
<1>5. x \in Nat /\ x # 0 BY <1>3, <1>4 DEF T
<1>6. x - 1 \in Nat /\ x - 1 < x BY <1>5
<1>7. x - 1 \in S BY <1>2, <1>4, <1>5, <1>6 DEF T
<1>8. x \in S BY <1>5, <1>7
<1> QED BY <1>4, <1>8 DEF T

\* The same up to a bound.
LEMMA BoundedInduction ==
  ASSUME NEW m \in Nat, NEW S, 0 \in S, \A n \in 1..m : n - 1 \in S => n \in S
  PROVE  0..m \subseteq S
<1> DEFINE T == {n \in Nat : n <= m => n \in S}
<1>1. 0 \in T OBVIOUS
<1>2. ASSUME NEW n \in T PROVE n + 1 \in T
  <2>1. n \in Nat OBVIOUS
  <2>2. SUFFICES ASSUME n + 1 <= m PROVE n + 1 \in S BY <2>1
  <2>3. n <= m /\ n + 1 \in 1..m /\ (n + 1) - 1 = n BY <2>1, <2>2
  <2> QED BY <2>3
<1>3. T \subseteq Nat OBVIOUS
<1> HIDE DEF T
<1>4. T = Nat BY <1>1, <1>2, <1>3, SetInduction
<1> QED BY <1>4 DEF T

\* A set of numbers with a bound has a largest one.
LEMMA LargestExists ==
  ASSUME NEW S \in SUBSET Nat, S # {}, NEW b \in Nat, \A x \in S : x <= b
  PROVE  \E m \in S : \A x \in S : x <= m
<1> DEFINE HasOne == \E m \in S : \A x \in S : x <= m
           T == {n \in Nat : (\A x \in S : x <= n) => HasOne}
<1>1. 0 \in T
  <2>1. ASSUME \A x \in S : x <= 0 PROVE HasOne
    <3>1. \A x \in S : x = 0 BY <2>1
    <3>2. PICK m \in S : TRUE OBVIOUS
    <3>3. \A x \in S : x <= m BY <2>1, <3>1, <3>2
    <3> QED BY <3>3
  <2> QED BY <2>1
<1>2. ASSUME NEW n \in T PROVE n + 1 \in T
  <2>1. n \in Nat /\ n + 1 \in Nat OBVIOUS
  <2>2. SUFFICES ASSUME \A x \in S : x <= n + 1 PROVE HasOne BY <2>1
  <2>3. CASE n + 1 \in S BY <2>2, <2>3
  <2>4. CASE n + 1 \notin S
    <3>1. \A x \in S : x <= n BY <2>1, <2>2, <2>4
    <3> QED BY <3>1
  <2> QED BY <2>3, <2>4
<1>3. T \subseteq Nat OBVIOUS
<1> HIDE DEF T, HasOne
<1>4. T = Nat BY <1>1, <1>2, <1>3, SetInduction
<1>5. b \in T BY <1>4
<1>6. HasOne BY <1>5 DEF T
<1> QED BY <1>6 DEF HasOne

\* f starts from base and goes on, up to m, by the steps.
Steps(m, R) == [1..m -> [R -> R]]
Iterates(f, m, R, base, step) ==
    f \in [0..m -> R] /\ f[0] = base /\ \A n \in 1..m : f[n] = step[n][f[n - 1]]

\* A function defined by its first value and a step from each value to the next exists.
LEMMA RecursionExists ==
  ASSUME NEW m \in Nat, NEW R, NEW base \in R, NEW step \in Steps(m, R)
  PROVE  \E f : Iterates(f, m, R, base, step)
<1> USE DEF Steps
<1> DEFINE Upto(k, f) == f[0] = base /\ \A n \in 1..k : f[n] = step[n][f[n - 1]]
           S == {k \in Nat : \E f \in [0..m -> R] : Upto(k, f)}
<1>1. 0 \in S
  <2>1. [n \in 0..m |-> base] \in [0..m -> R] /\ Upto(0, [n \in 0..m |-> base]) OBVIOUS
  <2> QED BY <2>1
<1>2. ASSUME NEW k \in 1..m, k - 1 \in S PROVE k \in S
  <2>1. PICK f \in [0..m -> R] : Upto(k - 1, f) BY <1>2
  <2> DEFINE h == [f EXCEPT ![k] = step[k][f[k - 1]]]
  <2>2. k - 1 \in 0..m /\ k \in 0..m /\ k \in Nat /\ k # 0 OBVIOUS
  <2>3. step[k][f[k - 1]] \in R BY <2>2
  <2>4. h \in [0..m -> R] BY <2>2, <2>3
  <2>5. h[k] = step[k][f[k - 1]] /\ \A n \in 0..m : n # k => h[n] = f[n] BY <2>2
  <2>6. Upto(k, h)
    <3>1. h[0] = base BY <2>1, <2>2, <2>5
    <3>2. ASSUME NEW n \in 1..k PROVE h[n] = step[n][h[n - 1]]
      <4>1. n - 1 \in 0..m /\ n - 1 # k /\ n \in 0..m BY <2>2
      <4>2. h[n - 1] = f[n - 1] BY <2>5, <4>1
      <4>3. CASE n = k BY <2>5, <4>2, <4>3
      <4>4. CASE n # k
        <5>1. n \in 1..(k - 1) BY <4>4
        <5> QED BY <2>1, <2>5, <4>1, <4>2, <4>4, <5>1
      <4> QED BY <4>3, <4>4
    <3> QED BY <3>1, <3>2
  <2> HIDE DEF h, Upto
  <2> QED BY <2>2, <2>4, <2>6
<1> HIDE DEF S
<1>3. 0..m \subseteq S BY <1>1, <1>2, BoundedInduction
<1>4. m \in S BY <1>3
<1> QED BY <1>4 DEF S, Iterates

----------------------------------------------------------------------------
(* Keep                                                                    *)

\* One step of Keep: what the element at n makes of those kept before it.
Kept1(s, S, n, before) == IF s[n] \in S THEN Append(before, s[n]) ELSE before

\* f computes Keep, one element after the other.
Keeping(f, T, s, S) ==
    /\ f \in [0..Len(s) -> Seq(T)] /\ Keep(s, S) = f[Len(s)] /\ f[0] = <<>>
    /\ \A n \in 1..Len(s) : f[n] = Kept1(s, S, n, f[n - 1])

\* Keep as its equations.
LEMMA KeepCounts ==
  ASSUME NEW T, NEW s \in Seq(T), NEW S
  PROVE  \E f : Keeping(f, T, s, S)
<1> DEFINE m == Len(s)
           Rec(g) == g = [n \in 0..m |->
                             IF n = 0 THEN <<>>
                             ELSE IF s[n] \in S THEN Append(g[n - 1], s[n]) ELSE g[n - 1]]
           g == CHOOSE g : Rec(g)
<1>0. m \in Nat OBVIOUS
<1>1. \E h : Rec(h)
  <2> DEFINE step == [n \in 1..m |-> [r \in Seq(T) |-> Kept1(s, S, n, r)]]
  <2>1. ASSUME NEW n \in 1..m, NEW r \in Seq(T) PROVE Kept1(s, S, n, r) \in Seq(T)
    <3>1. s[n] \in T OBVIOUS
    <3> QED BY <3>1 DEF Kept1
  <2>2. \A n \in 1..m, r \in Seq(T) : step[n][r] = Kept1(s, S, n, r) OBVIOUS
  <2>3. step \in [1..m -> [Seq(T) -> Seq(T)]] BY <2>1
  <2>4. <<>> \in Seq(T) OBVIOUS
  <2> HIDE DEF step, m
  <2>5. PICK f \in [0..m -> Seq(T)] :
            f[0] = <<>> /\ \A n \in 1..m : f[n] = step[n][f[n - 1]]
    <3>1. step \in Steps(m, Seq(T)) BY <2>3 DEF Steps
    <3>2. \E f : Iterates(f, m, Seq(T), <<>>, step) BY <1>0, <2>4, <3>1, RecursionExists
    <3> QED BY <3>2 DEF Iterates
  <2>6. ASSUME NEW n \in 0..m
        PROVE  f[n] = IF n = 0 THEN <<>>
                      ELSE IF s[n] \in S THEN Append(f[n - 1], s[n]) ELSE f[n - 1]
    <3>1. CASE n = 0 BY <2>5, <3>1
    <3>2. CASE n # 0
      <4>1. n \in 1..m /\ n - 1 \in 0..m BY <1>0, <3>2
      <4>2. f[n] = Kept1(s, S, n, f[n - 1]) BY <2>2, <2>5, <4>1
      <4> QED BY <3>2, <4>2 DEF Kept1
    <3> QED BY <3>1, <3>2
  <2>7. f = [n \in 0..m |-> f[n]] OBVIOUS
  <2>8. Rec(f) BY <2>6, <2>7
  <2> HIDE DEF Rec
  <2> QED BY <2>8
<1>2. Rec(g)
  <2> HIDE DEF Rec
  <2> QED BY <1>1
<1>3. Keep(s, S) = g[m] BY Zenon DEF Keep
<1> HIDE DEF g
<1>4. g[0] = <<>> BY <1>0, <1>2
<1>5. ASSUME NEW n \in 1..m PROVE g[n] = Kept1(s, S, n, g[n - 1])
  <2>1. n \in 0..m /\ n # 0 BY <1>0
  <2> QED BY <1>2, <2>1 DEF Kept1
<1>6. g \in [0..m -> Seq(T)]
  <2> DEFINE U == {n \in 0..m : g[n] \in Seq(T)}
  <2>1. 0 \in U
    <3>1. 0 \in 0..m /\ <<>> \in Seq(T) BY <1>0
    <3> QED BY <1>4, <3>1
  <2>2. ASSUME NEW n \in 1..m, n - 1 \in U PROVE n \in U
    <3>1. s[n] \in T /\ n \in 0..m BY <1>0
    <3>2. g[n - 1] \in Seq(T) BY <2>2
    <3>3. Kept1(s, S, n, g[n - 1]) \in Seq(T) BY <3>1, <3>2 DEF Kept1
    <3> QED BY <1>5, <3>1, <3>3
  <2> HIDE DEF U, m
  <2>3. 0..m \subseteq U BY <1>0, <2>1, <2>2, BoundedInduction
  <2>4. \A n \in 0..m : g[n] \in Seq(T) BY <2>3 DEF U
  <2>5. g = [n \in 0..m |-> g[n]] BY <1>2
  <2> QED BY <2>4, <2>5
<1> QED BY <1>3, <1>4, <1>5, <1>6 DEF Keeping

LEMMA ElementsAppend ==
  ASSUME NEW T, NEW q \in Seq(T), NEW x \in T
  PROVE  ToSet(Append(q, x)) = ToSet(q) \cup {x}
<1>1. Len(Append(q, x)) = Len(q) + 1 /\ Append(q, x)[Len(q) + 1] = x
      /\ \A i \in 1..Len(q) : Append(q, x)[i] = q[i]
  OBVIOUS
<1>2. ToSet(Append(q, x)) = {Append(q, x)[i] : i \in 1..(Len(q) + 1)} BY <1>1 DEF ToSet
<1>3. ToSet(q) = {q[i] : i \in 1..Len(q)} BY DEF ToSet
<1>4. Len(q) \in Nat OBVIOUS
<1>5. \A i : i \in 1..(Len(q) + 1) <=> i \in 1..Len(q) \/ i = Len(q) + 1 BY <1>4
<1> HIDE DEF ToSet
<1> QED BY <1>1, <1>2, <1>3, <1>5

\* Keep keeps the elements in S and no others.
LEMMA KeepElements ==
  ASSUME NEW T, NEW s \in Seq(T), NEW S
  PROVE  Keep(s, S) \in Seq(T) /\ ToSet(Keep(s, S)) = ToSet(s) \cap S
<1>a. PICK f : Keeping(f, T, s, S) BY KeepCounts
<1>1. /\ f \in [0..Len(s) -> Seq(T)] /\ Keep(s, S) = f[Len(s)] /\ f[0] = <<>>
      /\ \A n \in 1..Len(s) : f[n] = Kept1(s, S, n, f[n - 1])
  BY <1>a DEF Keeping
<1> DEFINE m == Len(s)
           Before(n) == {s[i] : i \in 1..n}
           U == {n \in 0..m : ToSet(f[n]) = Before(n) \cap S}
<1>0. m \in Nat OBVIOUS
<1>2. 0 \in U
  <2>1. ToSet(<<>>) = {} BY DEF ToSet
  <2>2. Before(0) = {} OBVIOUS
  <2> QED BY <1>0, <1>1, <2>1, <2>2
<1>3. ASSUME NEW n \in 1..m, n - 1 \in U PROVE n \in U
  <2>1. n \in 0..m /\ n - 1 \in 0..m /\ s[n] \in T BY <1>0
  <2>2. Before(n) = Before(n - 1) \cup {s[n]}
    <3>1. \A i : i \in 1..n <=> i \in 1..(n - 1) \/ i = n BY <1>0
    <3> QED BY <3>1
  <2>3. f[n] = Kept1(s, S, n, f[n - 1]) /\ f[n - 1] \in Seq(T) BY <1>1, <2>1
  <2>4. ToSet(f[n - 1]) = Before(n - 1) \cap S BY <1>3
  <2>5. CASE s[n] \in S
    <3>1. f[n] = Append(f[n - 1], s[n]) BY <2>3, <2>5 DEF Kept1
    <3>2. ToSet(f[n]) = ToSet(f[n - 1]) \cup {s[n]} BY <2>1, <2>3, <3>1, ElementsAppend
    <3> HIDE DEF Before
    <3> QED BY <2>1, <2>2, <2>4, <2>5, <3>2
  <2>6. CASE s[n] \notin S
    <3>1. f[n] = f[n - 1] BY <2>3, <2>6 DEF Kept1
    <3> HIDE DEF Before
    <3> QED BY <2>1, <2>2, <2>4, <2>6, <3>1
  <2> QED BY <2>5, <2>6
<1> HIDE DEF U, m
<1>4. 0..m \subseteq U BY <1>0, <1>2, <1>3, BoundedInduction
<1>5. m \in U BY <1>0, <1>4
<1>6. ToSet(s) = Before(m) BY DEF ToSet, m
<1> QED BY <1>0, <1>1, <1>5, <1>6 DEF U, m

NoDuplicates(s) == \A i, j \in 1..Len(s) : s[i] = s[j] => i = j

LEMMA AppendDistinct ==
  ASSUME NEW T, NEW q \in Seq(T), NEW x \in T, NoDuplicates(q), x \notin ToSet(q)
  PROVE  NoDuplicates(Append(q, x))
<1>1. Len(Append(q, x)) = Len(q) + 1 /\ Append(q, x)[Len(q) + 1] = x /\ Len(q) \in Nat
      /\ \A i \in 1..Len(q) : Append(q, x)[i] = q[i] /\ Append(q, x)[i] # x
  BY DEF ToSet
<1>2. SUFFICES ASSUME NEW a \in 1..(Len(q) + 1), NEW b \in 1..(Len(q) + 1),
                      Append(q, x)[a] = Append(q, x)[b]
               PROVE  a = b
  BY <1>1 DEF NoDuplicates
<1>3. CASE a \in 1..Len(q) /\ b \in 1..Len(q) BY <1>1, <1>2, <1>3 DEF NoDuplicates
<1>4. CASE a = Len(q) + 1 /\ b # Len(q) + 1
  <2>1. b \in 1..Len(q) BY <1>1, <1>4
  <2> QED BY <1>1, <1>2, <1>4, <2>1
<1>5. CASE b = Len(q) + 1 /\ a # Len(q) + 1
  <2>1. a \in 1..Len(q) BY <1>1, <1>5
  <2> QED BY <1>1, <1>2, <1>5, <2>1
<1> QED BY <1>1, <1>3, <1>4, <1>5

\* Keep keeps a list without duplicates free of them.
LEMMA KeepDistinct ==
  ASSUME NEW T, NEW s \in Seq(T), NEW S, NoDuplicates(s)
  PROVE  NoDuplicates(Keep(s, S))
<1>a. PICK f : Keeping(f, T, s, S) BY KeepCounts
<1>1. /\ f \in [0..Len(s) -> Seq(T)] /\ Keep(s, S) = f[Len(s)] /\ f[0] = <<>>
      /\ \A n \in 1..Len(s) : f[n] = Kept1(s, S, n, f[n - 1])
  BY <1>a DEF Keeping
<1> DEFINE m == Len(s)
           Before(n) == {s[i] : i \in 1..n}
           U == {n \in 0..m : NoDuplicates(f[n]) /\ ToSet(f[n]) \subseteq Before(n)}
<1>0. m \in Nat OBVIOUS
<1>2. 0 \in U
  <2>1. ToSet(<<>>) = {} /\ NoDuplicates(<<>>) BY DEF ToSet, NoDuplicates
  <2> QED BY <1>0, <1>1, <2>1
<1>3. ASSUME NEW n \in 1..m, n - 1 \in U PROVE n \in U
  <2>1. n \in 0..m /\ n - 1 \in 0..m /\ s[n] \in T BY <1>0
  <2>2. Before(n) = Before(n - 1) \cup {s[n]} /\ s[n] \notin Before(n - 1)
    <3>1. \A i : i \in 1..n <=> i \in 1..(n - 1) \/ i = n BY <1>0
    <3>2. \A i \in 1..(n - 1) : s[i] # s[n]
      <4>1. \A i \in 1..(n - 1) : i \in 1..Len(s) /\ n \in 1..Len(s) /\ i # n BY <1>0
      <4> QED BY <4>1 DEF NoDuplicates
    <3> QED BY <3>1, <3>2
  <2>3. f[n] = Kept1(s, S, n, f[n - 1]) /\ f[n - 1] \in Seq(T) BY <1>1, <2>1
  <2>4. ToSet(f[n - 1]) \subseteq Before(n - 1) /\ NoDuplicates(f[n - 1]) BY <1>3
  <2>5. CASE s[n] \in S
    <3>1. f[n] = Append(f[n - 1], s[n]) BY <2>3, <2>5 DEF Kept1
    <3>2. ToSet(f[n]) = ToSet(f[n - 1]) \cup {s[n]} BY <2>1, <2>3, <3>1, ElementsAppend
    <3> HIDE DEF Before
    <3>3. s[n] \notin ToSet(f[n - 1]) BY <2>2, <2>4
    <3>4. NoDuplicates(Append(f[n - 1], s[n])) BY <2>1, <2>3, <2>4, <3>3, AppendDistinct
    <3>5. NoDuplicates(f[n]) BY <3>1, <3>4
    <3> QED BY <2>1, <2>2, <2>4, <3>2, <3>5
  <2>6. CASE s[n] \notin S
    <3>1. f[n] = f[n - 1] BY <2>3, <2>6 DEF Kept1
    <3> HIDE DEF Before
    <3> QED BY <2>1, <2>2, <2>4, <2>6, <3>1
  <2> QED BY <2>5, <2>6
<1> HIDE DEF U, m
<1>4. 0..m \subseteq U BY <1>0, <1>2, <1>3, BoundedInduction
<1>5. m \in U BY <1>0, <1>4
<1> QED BY <1>1, <1>5 DEF U, m

----------------------------------------------------------------------------
(* Joining and dividing lists                                              *)

LEMMA NoElements ==
  ASSUME NEW T, NEW q \in Seq(T)
  PROVE  ToSet(q) = {} <=> q = <<>>
<1>1. ToSet(<<>>) = {} BY DEF ToSet
<1>2. CASE q # <<>>
  <2>1. 1 \in DOMAIN q BY <1>2
  <2>2. q[1] \in ToSet(q) BY <2>1 DEF ToSet
  <2> QED BY <1>2, <2>2
<1> QED BY <1>1, <1>2

LEMMA ConcatElements ==
  ASSUME NEW T, NEW p \in Seq(T), NEW q \in Seq(T)
  PROVE  p \o q \in Seq(T) /\ ToSet(p \o q) = ToSet(p) \cup ToSet(q)
<1> DEFINE r == p \o q
<1>1. /\ r \in Seq(T) /\ Len(r) = Len(p) + Len(q) /\ Len(p) \in Nat /\ Len(q) \in Nat
      /\ \A i \in 1..(Len(p) + Len(q)) : r[i] = IF i <= Len(p) THEN p[i] ELSE q[i - Len(p)]
  BY ConcatProperties
<1> HIDE DEF r
<1>2. ToSet(r) = {r[i] : i \in 1..Len(r)} /\ ToSet(p) = {p[i] : i \in 1..Len(p)}
      /\ ToSet(q) = {q[i] : i \in 1..Len(q)}
  <2>1. DOMAIN r = 1..Len(r) /\ DOMAIN p = 1..Len(p) /\ DOMAIN q = 1..Len(q)
    BY <1>1, LenProperties
  <2> QED BY <2>1 DEF ToSet
<1>3. ASSUME NEW i \in 1..Len(r) PROVE r[i] \in ToSet(p) \cup ToSet(q)
  <2>1. CASE i <= Len(p)
    <3>1. i \in 1..Len(p) /\ r[i] = p[i] BY <1>1, <2>1
    <3> QED BY <1>2, <3>1
  <2>2. CASE ~(i <= Len(p))
    <3>1. i - Len(p) \in 1..Len(q) /\ r[i] = q[i - Len(p)] BY <1>1, <2>2
    <3> QED BY <1>2, <3>1
  <2> QED BY <2>1, <2>2
<1>4. ASSUME NEW i \in 1..Len(p) PROVE p[i] \in ToSet(r)
  <2>1. i \in 1..Len(r) /\ r[i] = p[i] BY <1>1
  <2> QED BY <1>2, <2>1
<1>5. ASSUME NEW i \in 1..Len(q) PROVE q[i] \in ToSet(r)
  <2>1. i + Len(p) \in 1..Len(r) /\ r[i + Len(p)] = q[i] BY <1>1
  <2> QED BY <1>2, <2>1
<1> QED BY <1>1, <1>2, <1>3, <1>4, <1>5 DEF r

LEMMA ConcatDistinct ==
  ASSUME NEW T, NEW p \in Seq(T), NEW q \in Seq(T), NoDuplicates(p), NoDuplicates(q),
         ToSet(p) \cap ToSet(q) = {}
  PROVE  NoDuplicates(p \o q)
<1> DEFINE r == p \o q
<1>1. /\ Len(r) = Len(p) + Len(q) /\ Len(p) \in Nat /\ Len(q) \in Nat
      /\ \A i \in 1..(Len(p) + Len(q)) : r[i] = IF i <= Len(p) THEN p[i] ELSE q[i - Len(p)]
  BY ConcatProperties
<1> HIDE DEF r
<1>2. \A i \in 1..Len(p), j \in 1..Len(q) : p[i] # q[j]
  <2>1. \A i \in 1..Len(p) : p[i] \in ToSet(p) BY DEF ToSet
  <2>2. \A j \in 1..Len(q) : q[j] \in ToSet(q) BY DEF ToSet
  <2> QED BY <2>1, <2>2
<1>3. SUFFICES ASSUME NEW i \in 1..Len(r), NEW j \in 1..Len(r), r[i] = r[j] PROVE i = j
  BY DEF NoDuplicates, r
<1>4. CASE i <= Len(p) /\ j <= Len(p)
  <2>1. i \in 1..Len(p) /\ j \in 1..Len(p) /\ p[i] = p[j] BY <1>1, <1>3, <1>4
  <2> QED BY <2>1 DEF NoDuplicates
<1>5. CASE ~(i <= Len(p)) /\ ~(j <= Len(p))
  <2>1. i - Len(p) \in 1..Len(q) /\ j - Len(p) \in 1..Len(q) /\ q[i - Len(p)] = q[j - Len(p)]
    BY <1>1, <1>3, <1>5
  <2>2. i - Len(p) = j - Len(p) BY <2>1 DEF NoDuplicates
  <2> QED BY <1>1, <2>2
<1>6. CASE i <= Len(p) /\ ~(j <= Len(p))
  <2>1. i \in 1..Len(p) /\ j - Len(p) \in 1..Len(q) /\ p[i] = q[j - Len(p)] BY <1>1, <1>3, <1>6
  <2> QED BY <1>2, <2>1
<1>7. CASE ~(i <= Len(p)) /\ j <= Len(p)
  <2>1. j \in 1..Len(p) /\ i - Len(p) \in 1..Len(q) /\ p[j] = q[i - Len(p)] BY <1>1, <1>3, <1>7
  <2> QED BY <1>2, <2>1
<1> QED BY <1>4, <1>5, <1>6, <1>7

\* A list divided in two: nothing is lost, and without duplicates no element is in both parts.
LEMMA SplitList ==
  ASSUME NEW T, NEW q \in Seq(T), NEW n \in 0..Len(q)
  PROVE  LET a == SubSeq(q, 1, n)
             b == SubSeq(q, n + 1, Len(q))
         IN  /\ a \in Seq(T) /\ b \in Seq(T) /\ ToSet(a) \cup ToSet(b) = ToSet(q)
             /\ NoDuplicates(q) => /\ NoDuplicates(a) /\ NoDuplicates(b)
                                   /\ ToSet(a) \cap ToSet(b) = {}
<1> DEFINE a == SubSeq(q, 1, n)
           b == SubSeq(q, n + 1, Len(q))
<1>0. Len(q) \in Nat /\ n \in Nat /\ n <= Len(q) /\ \A i \in 1..Len(q) : q[i] \in T OBVIOUS
<1>1. a \in Seq(T) /\ Len(a) = n /\ \A i \in 1..n : a[i] = q[i]
  <2>1. \A i \in 1..n : q[i] \in T BY <1>0
  <2>2. a \in Seq(T) /\ Len(a) = (IF 1 <= n THEN n - 1 + 1 ELSE 0)
        /\ \A i \in 1..(n - 1 + 1) : a[i] = q[1 + i - 1]
    BY <1>0, <2>1, SubSeqProperties
  <2> HIDE DEF a
  <2> QED BY <1>0, <2>2
<1>2. b \in Seq(T) /\ Len(b) = Len(q) - n /\ \A i \in 1..(Len(q) - n) : b[i] = q[n + i]
  <2>1. \A i \in (n + 1)..Len(q) : q[i] \in T BY <1>0
  <2>2. n + 1 \in Int /\ Len(q) \in Int BY <1>0
  <2>3. b \in Seq(T) /\ Len(b) = (IF n + 1 <= Len(q) THEN Len(q) - (n + 1) + 1 ELSE 0)
        /\ \A i \in 1..(Len(q) - (n + 1) + 1) : b[i] = q[n + 1 + i - 1]
    BY <2>1, <2>2, SubSeqProperties
  <2> HIDE DEF b
  <2> QED BY <1>0, <2>3
<1> HIDE DEF a, b
<1>3. /\ ToSet(a) = {q[i] : i \in 1..n} /\ ToSet(b) = {q[i] : i \in (n + 1)..Len(q)}
      /\ ToSet(q) = {q[i] : i \in 1..Len(q)}
  <2>1. ToSet(a) = {a[i] : i \in 1..n} BY <1>1 DEF ToSet
  <2>2. ToSet(b) = {b[i] : i \in 1..(Len(q) - n)} BY <1>2 DEF ToSet
  <2>3. \A i \in 1..(Len(q) - n) : n + i \in (n + 1)..Len(q) BY <1>0
  <2>4. \A i \in (n + 1)..Len(q) : i - n \in 1..(Len(q) - n) /\ n + (i - n) = i BY <1>0
  <2>5. \A i \in (n + 1)..Len(q) : b[i - n] = q[i] BY <1>2, <2>4
  <2>6. {b[i] : i \in 1..(Len(q) - n)} = {q[i] : i \in (n + 1)..Len(q)}
    BY <1>2, <2>3, <2>4, <2>5
  <2>7. {a[i] : i \in 1..n} = {q[i] : i \in 1..n} BY <1>1
  <2>8. ToSet(q) = {q[i] : i \in 1..Len(q)} BY DEF ToSet
  <2> QED BY <2>1, <2>2, <2>6, <2>7, <2>8
<1>4. ToSet(a) \cup ToSet(b) = ToSet(q)
  <2>1. \A i : i \in 1..Len(q) <=> i \in 1..n \/ i \in (n + 1)..Len(q) BY <1>0
  <2> QED BY <1>3, <2>1
<1>5. ASSUME NoDuplicates(q)
      PROVE  NoDuplicates(a) /\ NoDuplicates(b) /\ ToSet(a) \cap ToSet(b) = {}
  <2>1. \A i, j \in 1..Len(q) : q[i] = q[j] => i = j BY <1>5 DEF NoDuplicates
  <2>2. NoDuplicates(a)
    <3>1. ASSUME NEW i \in 1..n, NEW j \in 1..n, a[i] = a[j] PROVE i = j
      <4>1. i \in 1..Len(q) /\ j \in 1..Len(q) /\ q[i] = q[j] BY <1>0, <1>1, <3>1
      <4> QED BY <2>1, <4>1
    <3> QED BY <1>1, <3>1 DEF NoDuplicates
  <2>3. NoDuplicates(b)
    <3>1. ASSUME NEW i \in 1..(Len(q) - n), NEW j \in 1..(Len(q) - n), b[i] = b[j] PROVE i = j
      <4>1. n + i \in 1..Len(q) /\ n + j \in 1..Len(q) BY <1>0
      <4>2. q[n + i] = q[n + j] BY <1>2, <3>1
      <4>3. n + i = n + j BY <2>1, <4>1, <4>2
      <4> QED BY <1>0, <4>3
    <3> QED BY <1>2, <3>1 DEF NoDuplicates
  <2>4. ToSet(a) \cap ToSet(b) = {}
    <3>1. ASSUME NEW i \in 1..n, NEW j \in (n + 1)..Len(q) PROVE q[i] # q[j]
      <4>1. i \in 1..Len(q) /\ j \in 1..Len(q) /\ i # j BY <1>0
      <4> QED BY <2>1, <4>1
    <3> QED BY <1>3, <3>1
  <2> QED BY <2>2, <2>3, <2>4
<1> QED BY <1>1, <1>2, <1>4, <1>5 DEF a, b

LEMMA HeadTailElements ==
  ASSUME NEW T, NEW q \in Seq(T), q # <<>>
  PROVE  /\ Head(q) = q[1] /\ Head(q) \in T /\ Tail(q) \in Seq(T)
         /\ Len(q) \in Nat \ {0} /\ Len(Tail(q)) = Len(q) - 1
         /\ \A i \in 1..(Len(q) - 1) : Tail(q)[i] = q[i + 1]
         /\ ToSet(q) = {Head(q)} \cup ToSet(Tail(q))
<1>1. Len(q) \in Nat \ {0} /\ Head(q) = q[1] /\ Head(q) \in T OBVIOUS
<1>2. /\ Tail(q) \in Seq(T) /\ Len(Tail(q)) = Len(q) - 1
      /\ \A i \in 1..(Len(q) - 1) : Tail(q)[i] = q[i + 1]
  OBVIOUS
<1>3. ToSet(q) = {q[i] : i \in 1..Len(q)} BY DEF ToSet
<1>4. ToSet(Tail(q)) = {Tail(q)[i] : i \in 1..(Len(q) - 1)}
  <2> DEFINE t == Tail(q)
  <2>1. t \in Seq(T) /\ Len(t) = Len(q) - 1 BY <1>2
  <2> HIDE DEF t
  <2>2. DOMAIN t = 1..(Len(q) - 1) BY <2>1
  <2>3. ToSet(t) = {t[i] : i \in 1..(Len(q) - 1)} BY <2>2 DEF ToSet
  <2> QED BY <2>3 DEF t
<1>5. ASSUME NEW x \in ToSet(q) PROVE x = Head(q) \/ x \in ToSet(Tail(q))
  <2>1. PICK i \in 1..Len(q) : x = q[i] BY <1>3
  <2>2. CASE i = 1 BY <1>1, <2>1, <2>2
  <2>3. CASE i # 1
    <3>1. i - 1 \in 1..(Len(q) - 1) /\ q[(i - 1) + 1] = q[i] BY <1>1, <2>1, <2>3
    <3>2. Tail(q)[i - 1] = x BY <1>2, <2>1, <3>1
    <3> QED BY <1>4, <3>1, <3>2
  <2> QED BY <2>2, <2>3
<1>6. ASSUME NEW x \in ToSet(Tail(q)) PROVE x \in ToSet(q)
  <2>1. PICK i \in 1..(Len(q) - 1) : x = Tail(q)[i] BY <1>4
  <2>2. i + 1 \in 1..Len(q) /\ q[i + 1] = x BY <1>1, <1>2, <2>1
  <2> QED BY <1>3, <2>2
<1>7. Head(q) \in ToSet(q) BY <1>1, <1>3
<1> QED BY <1>1, <1>2, <1>5, <1>6, <1>7

=============================================================================
