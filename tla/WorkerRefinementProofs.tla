----------------------- MODULE WorkerRefinementProofs -----------------------
(***************************************************************************)
(* The worker implements Delivery, for any number of threads and any       *)
(* sizes: every step of Worker is, through the mapping Contract, a step of *)
(* Delivery or changes nothing there.                                      *)
(***************************************************************************)
EXTENDS WorkerDeliveryProofs, Recursion

----------------------------------------------------------------------------
(* The submissions of a queue                                              *)

\* One step of SubmissionsOf: what the item at n makes of the submissions before it.
KeepOne(q, n, before) == IF q[n] \in Submitters THEN Append(before, q[n]) ELSE before

\* g counts the submissions of q off, up to m.
Counts(q, m, g) ==
    /\ g[0] = <<>>
    /\ \A n \in Nat : n < m => g[n + 1] = KeepOne(q, n + 1, g[n])

\* The recursive function inside SubmissionsOf exists: it is put together from the counts up to
\* each number, which agree where they overlap.
LEMMA CountsExist ==
  ASSUME NEW q
  PROVE  \E g : g = [n \in Nat |-> IF n = 0 THEN <<>>
                                   ELSE IF q[n] \in Submitters THEN Append(g[n - 1], q[n])
                                                               ELSE g[n - 1]]
<1> DEFINE S == {m \in Nat : \E g : Counts(q, m, g)}
<1>1. 0 \in S
  <2> DEFINE g == [n \in Nat |-> <<>>]
  <2>1. Counts(q, 0, g) BY DEF Counts
  <2> QED BY <2>1
<1>2. ASSUME NEW m \in S PROVE m + 1 \in S
  <2>1. m \in Nat OBVIOUS
  <2>2. PICK g : Counts(q, m, g) OBVIOUS
  <2> DEFINE h == [n \in Nat |-> IF n <= m THEN g[n] ELSE KeepOne(q, m + 1, g[m])]
  <2>3. h[0] = <<>> BY <2>1, <2>2 DEF Counts
  <2>4. ASSUME NEW n \in Nat, n < m + 1 PROVE h[n + 1] = KeepOne(q, n + 1, h[n])
    <3>1. CASE n < m
      <4>1. n + 1 <= m /\ n <= m BY <2>1, <3>1
      <4>2. h[n + 1] = g[n + 1] /\ h[n] = g[n] BY <4>1
      <4> QED BY <2>2, <3>1, <4>2 DEF Counts
    <3>2. CASE n = m
      <4>1. ~(n + 1 <= m) /\ n <= m BY <2>1, <3>2
      <4>2. h[n + 1] = KeepOne(q, m + 1, g[m]) /\ h[n] = g[n] BY <4>1
      <4> QED BY <3>2, <4>2
    <3> QED BY <2>1, <2>4, <3>1, <3>2
  <2> HIDE DEF h
  <2>5. Counts(q, m + 1, h) BY <2>3, <2>4 DEF Counts
  <2> QED BY <2>1, <2>5
<1>3. \A m \in Nat : \E g : Counts(q, m, g)
  <2>1. S \subseteq Nat OBVIOUS
  <2> HIDE DEF S
  <2>2. S = Nat BY <1>1, <1>2, <2>1, SetInduction
  <2> QED BY <2>2 DEF S
<1> DEFINE U == {n \in Nat : \A m, k \in Nat : \A g, h :
                     n <= m /\ n <= k /\ Counts(q, m, g) /\ Counts(q, k, h) => g[n] = h[n]}
<1>4. U = Nat
  <2>1. 0 \in U BY DEF Counts
  <2>2. ASSUME NEW n \in U PROVE n + 1 \in U
    <3>1. n \in Nat OBVIOUS
    <3>2. ASSUME NEW m \in Nat, NEW k \in Nat, NEW g, NEW h, n + 1 <= m, n + 1 <= k,
                 Counts(q, m, g), Counts(q, k, h)
          PROVE  g[n + 1] = h[n + 1]
      <4>1. n < m /\ n < k /\ n <= m /\ n <= k BY <3>1, <3>2
      <4>2. g[n] = h[n] BY <3>2, <4>1
      <4> QED BY <3>1, <3>2, <4>1, <4>2 DEF Counts
    <3> QED BY <3>1, <3>2
  <2>3. U \subseteq Nat OBVIOUS
  <2> HIDE DEF U
  <2> QED BY <2>1, <2>2, <2>3, SetInduction
<1> DEFINE G(m) == CHOOSE g : Counts(q, m, g)
           f == [n \in Nat |-> G(n)[n]]
<1>5. \A m \in Nat : Counts(q, m, G(m)) BY <1>3
<1>6. f[0] = <<>> BY <1>5 DEF Counts
<1> HIDE DEF G, U
<1>7. ASSUME NEW n \in Nat PROVE f[n + 1] = KeepOne(q, n + 1, f[n])
  <2>1. G(n + 1)[n + 1] = KeepOne(q, n + 1, G(n + 1)[n]) BY <1>5 DEF Counts
  <2>2. G(n + 1)[n] = G(n)[n]
    <3>1. n \in U BY <1>4
    <3>2. Counts(q, n + 1, G(n + 1)) /\ Counts(q, n, G(n)) BY <1>5
    <3>3. n + 1 \in Nat /\ n <= n + 1 /\ n <= n OBVIOUS
    <3> QED BY <3>1, <3>2, <3>3 DEF U
  <2> QED BY <2>1, <2>2
<1>8. f = [n \in Nat |-> f[n]] OBVIOUS
<1>9. ASSUME NEW n \in Nat
      PROVE  f[n] = IF n = 0 THEN <<>>
                    ELSE IF q[n] \in Submitters THEN Append(f[n - 1], q[n]) ELSE f[n - 1]
  <2> HIDE DEF f
  <2>1. CASE n = 0 BY <1>6, <2>1
  <2>2. CASE n # 0
    <3>1. n - 1 \in Nat /\ (n - 1) + 1 = n BY <2>2
    <3>2. f[n] = KeepOne(q, n, f[n - 1]) BY <1>7, <3>1
    <3> QED BY <2>2, <3>2 DEF KeepOne
  <2> QED BY <2>1, <2>2
<1> HIDE DEF f
<1>10. f = [n \in Nat |-> IF n = 0 THEN <<>>
                          ELSE IF q[n] \in Submitters THEN Append(f[n - 1], q[n])
                                                      ELSE f[n - 1]]
  BY <1>8, <1>9
<1> QED BY <1>10

\* SubmissionsOf as its two equations.
LEMMA SubmissionsCount ==
  ASSUME NEW q
  PROVE  \E g : /\ SubmissionsOf(q) = g[Len(q)]
                /\ g[0] = <<>>
                /\ \A n \in Nat : g[n + 1] = KeepOne(q, n + 1, g[n])
<1> DEFINE Rec(g) == g = [n \in Nat |-> IF n = 0 THEN <<>>
                                        ELSE IF q[n] \in Submitters THEN Append(g[n - 1], q[n])
                                                                    ELSE g[n - 1]]
           g == CHOOSE g : Rec(g)
<1>1. Rec(g)
  <2>1. \E h : Rec(h) BY CountsExist
  <2> HIDE DEF Rec
  <2> QED BY <2>1
<1>2. SubmissionsOf(q) = g[Len(q)] BY Zenon DEF SubmissionsOf
<1> HIDE DEF g
<1>3. g[0] = <<>> BY <1>1
<1>4. ASSUME NEW n \in Nat PROVE g[n + 1] = KeepOne(q, n + 1, g[n])
  <2>1. n + 1 \in Nat /\ n + 1 # 0 /\ (n + 1) - 1 = n OBVIOUS
  <2> QED BY <1>1, <2>1 DEF KeepOne
<1> QED BY <1>2, <1>3, <1>4

LEMMA SubmissionsEmpty == SubmissionsOf(<<>>) = <<>>
<1>1. PICK g : SubmissionsOf(<<>>) = g[Len(<<>>)] /\ g[0] = <<>> BY SubmissionsCount
<1>2. Len(<<>>) = 0 OBVIOUS
<1> QED BY <1>1, <1>2

LEMMA SubmissionsType ==
  ASSUME NEW q \in Seq(Items)
  PROVE  /\ SubmissionsOf(q) \in Seq(Submitters)
         /\ ToSet(SubmissionsOf(q)) = ToSet(q) \cap Submitters
<1>1. PICK g : /\ SubmissionsOf(q) = g[Len(q)]
               /\ g[0] = <<>>
               /\ \A n \in Nat : g[n + 1] = KeepOne(q, n + 1, g[n])
  BY SubmissionsCount
<1>2. Len(q) \in Nat /\ DOMAIN q = 1 .. Len(q) OBVIOUS
<1> DEFINE S == {n \in Nat : n <= Len(q) =>
                     /\ g[n] \in Seq(Submitters)
                     /\ ToSet(g[n]) = {q[i] : i \in 1 .. n} \cap Submitters}
<1>3. 0 \in S
  <2>1. <<>> \in Seq(Submitters) /\ ToSet(<<>>) = {} BY DEF ToSet
  <2>2. {q[i] : i \in 1 .. 0} = {} OBVIOUS
  <2> QED BY <1>1, <2>1, <2>2
<1>4. ASSUME NEW n \in S PROVE n + 1 \in S
  <2>1. n \in Nat OBVIOUS
  <2>2. ASSUME n + 1 <= Len(q)
        PROVE  /\ g[n + 1] \in Seq(Submitters)
               /\ ToSet(g[n + 1]) = {q[i] : i \in 1 .. n + 1} \cap Submitters
    <3>1. /\ g[n] \in Seq(Submitters)
          /\ ToSet(g[n]) = {q[i] : i \in 1 .. n} \cap Submitters
      BY <1>2, <2>1, <2>2
    <3>2. g[n + 1] = KeepOne(q, n + 1, g[n]) BY <1>1, <2>1
    <3>3. {q[i] : i \in 1 .. n + 1} = {q[i] : i \in 1 .. n} \cup {q[n + 1]}
      <4>1. 1 .. n + 1 = (1 .. n) \cup {n + 1} BY <2>1
      <4> QED BY <4>1
    <3> HIDE DEF S
    <3>4. CASE q[n + 1] \in Submitters
      <4>1. g[n + 1] = Append(g[n], q[n + 1]) BY <3>2, <3>4 DEF KeepOne
      <4>2. g[n + 1] \in Seq(Submitters) BY <3>1, <3>4, <4>1
      <4>3. ToSet(g[n + 1]) = ToSet(g[n]) \cup {q[n + 1]} BY <3>1, <3>4, <4>1, ToSetAppend
      <4> QED BY <3>1, <3>3, <3>4, <4>2, <4>3
    <3>5. CASE q[n + 1] \notin Submitters
      <4>1. g[n + 1] = g[n] BY <3>2, <3>5 DEF KeepOne
      <4> QED BY <3>1, <3>3, <3>5, <4>1
    <3> QED BY <3>4, <3>5
  <2> QED BY <2>1, <2>2
<1>5. S = Nat
  <2>1. S \subseteq Nat OBVIOUS
  <2> HIDE DEF S
  <2> QED BY <1>3, <1>4, <2>1, SetInduction
<1>6. /\ g[Len(q)] \in Seq(Submitters)
      /\ ToSet(g[Len(q)]) = {q[i] : i \in 1 .. Len(q)} \cap Submitters
  <2>1. Len(q) \in S BY <1>2, <1>5
  <2> QED BY <1>2, <2>1
<1> HIDE DEF S
<1>7. ToSet(q) = {q[i] : i \in 1 .. Len(q)} BY <1>2 DEF ToSet
<1> QED BY <1>1, <1>6, <1>7

LEMMA SubmissionsPut ==
  ASSUME NEW q \in Seq(Items), NEW x \in Items
  PROVE  SubmissionsOf(Append(q, x)) =
             IF x \in Submitters THEN Append(SubmissionsOf(q), x) ELSE SubmissionsOf(q)
<1> DEFINE r == Append(q, x)
<1>1. /\ Len(q) \in Nat /\ Len(r) = Len(q) + 1 /\ r[Len(q) + 1] = x
      /\ \A i \in 1 .. Len(q) : r[i] = q[i]
  OBVIOUS
<1> HIDE DEF r
<1>2. PICK g : /\ SubmissionsOf(q) = g[Len(q)]
               /\ g[0] = <<>>
               /\ \A n \in Nat : g[n + 1] = KeepOne(q, n + 1, g[n])
  BY SubmissionsCount
<1>3. PICK h : /\ SubmissionsOf(r) = h[Len(r)]
               /\ h[0] = <<>>
               /\ \A n \in Nat : h[n + 1] = KeepOne(r, n + 1, h[n])
  BY SubmissionsCount
<1> DEFINE S == {n \in Nat : n <= Len(q) => h[n] = g[n]}
<1>4. 0 \in S BY <1>2, <1>3
<1>5. ASSUME NEW n \in S PROVE n + 1 \in S
  <2>1. n \in Nat OBVIOUS
  <2>2. ASSUME n + 1 <= Len(q) PROVE h[n + 1] = g[n + 1]
    <3>1. h[n] = g[n] BY <1>1, <2>1, <2>2
    <3>2. n + 1 \in 1 .. Len(q) BY <1>1, <2>1, <2>2
    <3>3. r[n + 1] = q[n + 1] BY <1>1, <3>2
    <3> QED BY <1>2, <1>3, <2>1, <3>1, <3>3 DEF KeepOne
  <2> QED BY <2>1, <2>2
<1>6. S = Nat
  <2>1. S \subseteq Nat OBVIOUS
  <2> HIDE DEF S
  <2> QED BY <1>4, <1>5, <2>1, SetInduction
<1>7. h[Len(q)] = g[Len(q)]
  <2>1. Len(q) \in S BY <1>1, <1>6
  <2> QED BY <1>1, <2>1
<1>8. h[Len(q) + 1] = KeepOne(r, Len(q) + 1, h[Len(q)]) BY <1>1, <1>3
<1>9. SubmissionsOf(r) = KeepOne(r, Len(q) + 1, SubmissionsOf(q)) BY <1>1, <1>2, <1>3, <1>7, <1>8
<1> QED BY <1>1, <1>9 DEF KeepOne, r

LEMMA SubmissionsGet ==
  ASSUME NEW q \in Seq(Items), q # <<>>
  PROVE  SubmissionsOf(q) = IF Head(q) \in Submitters
                            THEN <<Head(q)>> \o SubmissionsOf(Tail(q))
                            ELSE SubmissionsOf(Tail(q))
<1> DEFINE r == Tail(q)
           first == IF Head(q) \in Submitters THEN <<Head(q)>> ELSE <<>>
<1>1. /\ Len(q) \in Nat /\ Len(q) > 0 /\ Len(r) = Len(q) - 1 /\ Len(r) \in Nat
      /\ Head(q) = q[1] /\ r \in Seq(Items)
      /\ \A i \in 1 .. Len(r) : r[i] = q[i + 1]
  OBVIOUS
<1>0. first \in Seq(Submitters) OBVIOUS
<1> HIDE DEF r
<1>2. PICK g : /\ SubmissionsOf(q) = g[Len(q)]
               /\ g[0] = <<>>
               /\ \A n \in Nat : g[n + 1] = KeepOne(q, n + 1, g[n])
  BY SubmissionsCount
<1>3. PICK h : /\ SubmissionsOf(r) = h[Len(r)]
               /\ h[0] = <<>>
               /\ \A n \in Nat : h[n + 1] = KeepOne(r, n + 1, h[n])
  BY SubmissionsCount
<1> DEFINE S == {n \in Nat : n <= Len(r) => h[n] \in Seq(Submitters) /\ g[n + 1] = first \o h[n]}
<1>4. 0 \in S
  <2>1. g[1] = KeepOne(q, 1, <<>>)
    <3>1. 0 \in Nat /\ 0 + 1 = 1 OBVIOUS
    <3> QED BY <1>2, <3>1
  <2>2. g[1] = first
    <3>1. CASE Head(q) \in Submitters
      <4>1. Append(<<>>, q[1]) = <<q[1]>> OBVIOUS
      <4> QED BY <1>1, <2>1, <3>1, <4>1 DEF KeepOne
    <3>2. CASE Head(q) \notin Submitters BY <1>1, <2>1, <3>2 DEF KeepOne
    <3> QED BY <3>1, <3>2
  <2> HIDE DEF first
  <2>3. first \o <<>> = first BY <1>0, ConcatEmptySeq
  <2>4. <<>> \in Seq(Submitters) OBVIOUS
  <2>5. h[0] \in Seq(Submitters) /\ g[0 + 1] = first \o h[0]
    <3>1. 0 + 1 = 1 OBVIOUS
    <3> QED BY <1>3, <2>2, <2>3, <2>4, <3>1
  <2> QED BY <2>5
<1> HIDE DEF first
<1>5. ASSUME NEW n \in S PROVE n + 1 \in S
  <2>1. n \in Nat /\ n + 1 \in Nat OBVIOUS
  <2>2. ASSUME n + 1 <= Len(r)
        PROVE  h[n + 1] \in Seq(Submitters) /\ g[(n + 1) + 1] = first \o h[n + 1]
    <3>1. h[n] \in Seq(Submitters) /\ g[n + 1] = first \o h[n] BY <1>1, <2>1, <2>2
    <3>2. n + 1 \in 1 .. Len(r) BY <1>1, <2>1, <2>2
    <3>3. r[n + 1] = q[(n + 1) + 1] BY <1>1, <3>2
    <3>4. h[n + 1] = KeepOne(r, n + 1, h[n]) BY <1>3, <2>1
    <3>5. g[(n + 1) + 1] = KeepOne(q, (n + 1) + 1, g[n + 1]) BY <1>2, <2>1
    <3> HIDE DEF S
    <3>6. CASE r[n + 1] \in Submitters
      <4> DEFINE x == r[n + 1]
      <4>1. h[n + 1] = Append(h[n], x) /\ g[(n + 1) + 1] = Append(first \o h[n], x)
        BY <3>1, <3>3, <3>4, <3>5, <3>6 DEF KeepOne
      <4>2. x \in Submitters /\ <<x>> \in Seq(Submitters) BY <3>6
      <4> HIDE DEF x
      <4>3. first \o h[n] \in Seq(Submitters) BY <1>0, <3>1, ConcatProperties
      <4>4. Append(first \o h[n], x) = (first \o h[n]) \o <<x>> BY <4>2, <4>3, AppendIsConcat
      <4>5. Append(h[n], x) = h[n] \o <<x>> BY <3>1, <4>2, AppendIsConcat
      <4>6. (first \o h[n]) \o <<x>> = first \o (h[n] \o <<x>>)
        <5>1. \A a, b, c \in Seq(Submitters) : (a \o b) \o c = a \o (b \o c)
          BY ConcatAssociative
        <5> QED BY <1>0, <3>1, <4>2, <5>1
      <4>7. Append(h[n], x) \in Seq(Submitters) BY <3>1, <4>2, AppendProperties
      <4> QED BY <4>1, <4>4, <4>5, <4>6, <4>7
    <3>7. CASE r[n + 1] \notin Submitters
      BY <3>1, <3>3, <3>4, <3>5, <3>7 DEF KeepOne
    <3> QED BY <3>6, <3>7
  <2> QED BY <2>1, <2>2
<1>6. S = Nat
  <2>1. S \subseteq Nat OBVIOUS
  <2> HIDE DEF S
  <2> QED BY <1>4, <1>5, <2>1, SetInduction
<1>7. h[Len(r)] \in Seq(Submitters) /\ g[Len(r) + 1] = first \o h[Len(r)]
  <2>1. Len(r) \in S BY <1>1, <1>6
  <2> QED BY <1>1, <2>1
<1>8. Len(r) + 1 = Len(q) BY <1>1
<1>9. SubmissionsOf(q) = first \o SubmissionsOf(r) /\ SubmissionsOf(r) \in Seq(Submitters)
  BY <1>2, <1>3, <1>7, <1>8
<1>10. <<>> \o SubmissionsOf(r) = SubmissionsOf(r) BY <1>9, ConcatEmptySeq
<1> QED BY <1>9, <1>10 DEF first, r

----------------------------------------------------------------------------
(* The inductive invariants of the simulation                              *)

\* What has been settled or refused is past its put: it cannot be accepted again.
SettledInv == \A s \in ToSet(sunk) \cup lost \cup dropped : Accepted(s)

\* A flush() has no result until it returns, and answers for nothing until its stamp.
FreshInv ==
    \A f \in Flushers :
        /\ pc[f] # "done" => result[f] = "none"
        /\ pc[f] \in {"idle", "alive", "stamp"} => owes[f] = {}

LEMMA SettledStep == TypeOK /\ PromiseInv /\ SettledInv /\ [Next]_vars => SettledInv'
<1> SUFFICES ASSUME TypeOK, PromiseInv, SettledInv, [Next]_vars PROVE SettledInv' OBVIOUS
<1>0. /\ sunk \in Seq(Submitters) /\ pending \in Seq(Submitters)
      /\ lost \subseteq Submitters /\ dropped \subseteq Submitters
  BY DEF TypeOK
<1>1. \A s \in Submitters : Accepted(s) => Accepted(s)' BY BacklogStep
<1>2. ToSet(sunk) \subseteq Submitters /\ ToSet(pending) \subseteq Submitters
  BY <1>0 DEF ToSet
<1>3. \A s \in ToSet(pending) : Accepted(s) BY DEF PromiseInv, AcceptedInv, Backlog
<1>k. ASSUME \A s \in ToSet(sunk') \cup lost' \cup dropped' :
                 s \in ToSet(sunk) \cup lost \cup dropped \cup ToSet(pending) \/ Accepted(s)'
      PROVE  SettledInv'
  BY <1>0, <1>1, <1>2, <1>3, <1>k DEF SettledInv
<1>4. ASSUME NEW s \in Submitters, Submit(s) PROVE SettledInv'
  <2>1. UNCHANGED <<sunk, lost>>
    BY <1>4 DEF Submit, SubmitRead, SubmitPut, SubmitRecheck, sinkVars
  <2>2. dropped' = dropped \/ (dropped' = dropped \cup {s} /\ Goto(s, "done"))
    BY <1>4 DEF Submit, SubmitRead, SubmitPut, SubmitRecheck
  <2>3. dropped' = dropped \/ (dropped' = dropped \cup {s} /\ Accepted(s)')
    BY <2>2, GotoMoves DEF Callers, Accepted
  <2> QED BY <1>k, <2>1, <2>3
<1>5. ASSUME NEW f \in Flushers, Flush(f) PROVE SettledInv'
  <2>1. UNCHANGED <<sunk, lost, dropped>>
    BY <1>5, FlushShape DEF FlushUnchanged, sinkVars, countVars
  <2> QED BY <1>k, <2>1
<1>6. ASSUME NEW p \in Stoppers, Stop(p) PROVE SettledInv'
  <2>1. UNCHANGED <<sunk, lost, dropped>> BY <1>6, StopShape DEF StopUnchanged, sinkVars
  <2> QED BY <1>k, <2>1
<1>7. ASSUME Drain PROVE SettledInv'
  <2>0. UNCHANGED dropped BY <1>7, DrainShape DEF DrainUnchanged
  <2>1. CASE UNCHANGED <<sunk, lost>> BY <1>k, <2>0, <2>1
  <2>2. CASE EmitOk
    <3>1. ToSet(sunk') = ToSet(sunk) \cup ToSet(pending) /\ UNCHANGED lost
      BY <1>0, <2>2, ToSetConcat DEF EmitOk
    <3> QED BY <1>k, <2>0, <3>1
  <2>3. CASE Abandon /\ UNCHANGED sunk BY <1>k, <2>0, <2>3 DEF Abandon
  <2> QED BY <1>7, <2>1, <2>2, <2>3, DrainBacklog
<1>8. CASE UNCHANGED vars BY <1>8, <1>k DEF vars, sinkVars, countVars
<1> QED BY <1>4, <1>5, <1>6, <1>7, <1>8 DEF Next, Terminated

\* A step of flush() stamps, or returns, or does neither.
LEMMA FlushOutcome ==
  ASSUME TypeOK, NEW f \in Flushers, Flush(f)
  PROVE  /\ pc[f] # "done"
         /\ \/ FlushStamp(f)
            \/ /\ UNCHANGED owes
               /\ \/ UNCHANGED result
                  \/ \E why \in Results \ {"none"} : Return(f, why)
               /\ pc'[f] \in {"idle", "alive", "stamp"} => pc[f] \in {"idle", "alive"}
<1>f. \A there : Goto(f, there) => pc'[f] = there BY GotoMoves DEF Callers
<1> USE DEF Results, At
<1>1. CASE FlushGate(f) BY <1>1, <1>f DEF FlushGate, Return
<1>2. CASE FlushAlive(f) BY <1>2, <1>f DEF FlushAlive, Return
<1>3. CASE FlushStamp(f) BY <1>3 DEF FlushStamp
<1>4. CASE FlushPut(f) BY <1>4, <1>f DEF FlushPut
<1>5. CASE FlushExpired(f) BY <1>5, <1>f DEF FlushExpired
<1>6. CASE FlushGivenUp(f) BY <1>6, <1>f DEF FlushGivenUp, AfterGivenUp, Return
<1>7. CASE FlushSettled(f)
  BY <1>7, <1>f DEF FlushSettled, WhenSettled, WhenDraining
<1>8. CASE FlushFailed(f) BY <1>8, <1>f DEF FlushFailed, Return
<1>9. CASE FlushAnswered(f) BY <1>9, <1>f DEF FlushAnswered, Return
<1>10. CASE FlushWait(f) BY <1>10, <1>f DEF FlushWait, Return
<1>11. CASE FlushVerdict(f) BY <1>11, <1>f DEF FlushVerdict, Return
<1> QED BY <1>1, <1>2, <1>3, <1>4, <1>5, <1>6, <1>7, <1>8, <1>9, <1>10, <1>11 DEF Flush

LEMMA FreshStep == TypeOK /\ FreshInv /\ [Next]_vars => FreshInv'
<1> SUFFICES ASSUME TypeOK, FreshInv, [Next]_vars PROVE FreshInv' OBVIOUS
<1>0. result \in [Flushers -> Results] /\ owes \in [Flushers -> SUBSET Submitters]
  BY DEF TypeOK
<1>k. ASSUME UNCHANGED <<owes, result>>, \A f \in Flushers : pc'[f] = pc[f] PROVE FreshInv'
  BY <1>k DEF FreshInv
<1>1. ASSUME NEW s \in Submitters, Submit(s) PROVE FreshInv'
  <2>1. \A f \in Flushers : pc'[f] = pc[f]
    BY <1>1, SubmitShape, GotoMoves, ThreadsAssumption DEF Callers
  <2>2. UNCHANGED <<owes, result>>
    BY <1>1 DEF Submit, SubmitRead, SubmitPut, SubmitRecheck, flushVars
  <2> QED BY <1>k, <2>1, <2>2
<1>2. ASSUME NEW f \in Flushers, Flush(f) PROVE FreshInv'
  <2>1. \A g \in Flushers \ {f} : pc'[g] = pc[g] BY <1>2, FlushShape, GotoMoves DEF Callers
  <2>f. \A there : Goto(f, there) => pc'[f] = there BY GotoMoves DEF Callers
  <2>2. result[f] = "none" BY <1>2, FlushOutcome DEF FreshInv
  <2>3. CASE FlushStamp(f)
    <3>1. /\ pc'[f] = "put" /\ UNCHANGED result
          /\ \A g \in Flushers \ {f} : owes'[g] = owes[g]
      BY <1>0, <2>3, <2>f DEF FlushStamp
    <3> QED BY <2>1, <2>2, <3>1 DEF FreshInv
  <2>4. CASE ~FlushStamp(f)
    <3>1. /\ UNCHANGED owes
          /\ pc'[f] \in {"idle", "alive", "stamp"} => pc[f] \in {"idle", "alive"}
      BY <1>2, <2>4, FlushOutcome
    <3>2. /\ \A g \in Flushers \ {f} : result'[g] = result[g]
          /\ pc'[f] # "done" => result'[f] = "none"
      <4>1. CASE UNCHANGED result BY <2>2, <4>1
      <4>2. CASE \E why \in Results : Return(f, why) BY <1>0, <2>f, <4>2 DEF Return
      <4> QED BY <1>2, <2>4, <4>1, <4>2, FlushOutcome
    <3> QED BY <2>1, <3>1, <3>2 DEF FreshInv
  <2> QED BY <2>3, <2>4
<1>3. ASSUME NEW p \in Stoppers, Stop(p) PROVE FreshInv'
  <2>1. \A f \in Flushers : pc'[f] = pc[f]
    BY <1>3, StopShape, GotoMoves, ThreadsAssumption DEF Callers
  <2>2. UNCHANGED <<owes, result>> BY <1>3, StopShape DEF StopUnchanged, flushVars
  <2> QED BY <1>k, <2>1, <2>2
<1>4. ASSUME Drain PROVE FreshInv'
  <2>1. UNCHANGED <<pc, owes, result>>
    BY <1>4, DrainShape DEF DrainUnchanged, callVars, flushVars
  <2> QED BY <1>k, <2>1
<1>5. CASE UNCHANGED vars BY <1>5, <1>k DEF vars, callVars, flushVars
<1> QED BY <1>1, <1>2, <1>3, <1>4, <1>5 DEF Next, Terminated

LEMMA FreshInit == Init => SettledInv /\ FreshInv
  BY DEF Init, SettledInv, FreshInv, ToSet

----------------------------------------------------------------------------
(* The backlog of Delivery                                                 *)

LEMMA PipeType ==
  ASSUME TypeOK
  PROVE  /\ SubmissionsOf(queue) \in Seq(Submitters)
         /\ Pipe \in Seq(Submitters)
         /\ ToSet(Pipe) = Backlog
<1>1. queue \in Seq(Items) /\ pending \in Seq(Submitters) BY DEF TypeOK
<1>2. /\ SubmissionsOf(queue) \in Seq(Submitters)
      /\ ToSet(SubmissionsOf(queue)) = ToSet(queue) \cap Submitters
  BY <1>1, SubmissionsType
<1>3. Pipe \in Seq(Submitters) BY <1>1, <1>2, ConcatProperties DEF Pipe
<1>4. ToSet(Pipe) = ToSet(pending) \cup ToSet(SubmissionsOf(queue))
  BY <1>1, <1>2, ToSetConcat DEF Pipe
<1> QED BY <1>2, <1>3, <1>4 DEF Backlog

\* A put appends a submission to it, and nothing else.
LEMMA PipePut ==
  ASSUME TypeOK, NEW x \in Items, queue' = Append(queue, x), pending' = pending
  PROVE  Pipe' = IF x \in Submitters THEN Append(Pipe, x) ELSE Pipe
<1>1. queue \in Seq(Items) /\ pending \in Seq(Submitters) BY DEF TypeOK
<1> DEFINE rest == SubmissionsOf(queue)
<1>2. rest \in Seq(Submitters) BY PipeType
<1>3. SubmissionsOf(queue') = IF x \in Submitters THEN Append(rest, x) ELSE rest
  BY <1>1, SubmissionsPut
<1>4. Pipe' = pending \o SubmissionsOf(queue') BY DEF Pipe
<1> HIDE DEF rest
<1>5. CASE x \in Submitters
  <2>1. Append(rest, x) = rest \o <<x>> BY <1>2, <1>5, AppendIsConcat
  <2>2. pending \o rest \in Seq(Submitters) BY <1>1, <1>2, ConcatProperties
  <2>3. Append(pending \o rest, x) = (pending \o rest) \o <<x>> BY <1>5, <2>2, AppendIsConcat
  <2>4. <<x>> \in Seq(Submitters) BY <1>5
  <2>5. (pending \o rest) \o <<x>> = pending \o (rest \o <<x>>)
    BY <1>1, <1>2, <2>4, ConcatAssociative
  <2> QED BY <1>3, <1>4, <1>5, <2>1, <2>3, <2>5 DEF Pipe, rest
<1>6. CASE x \notin Submitters BY <1>3, <1>4, <1>6 DEF Pipe, rest
<1> QED BY <1>5, <1>6

\* Taking the head off the queue leaves it as it is.
LEMMA PipeGet ==
  ASSUME TypeOK, queue # <<>>, queue' = Tail(queue),
         \/ Head(queue) \in Submitters /\ pending' = Append(pending, Head(queue))
         \/ Head(queue) \notin Submitters /\ pending' = pending
  PROVE  Pipe' = Pipe
<1>1. queue \in Seq(Items) /\ pending \in Seq(Submitters) BY DEF TypeOK
<1>2. queue' \in Seq(Items) BY <1>1
<1> DEFINE rest == SubmissionsOf(queue')
           x == Head(queue)
<1>3. rest \in Seq(Submitters) BY <1>2, SubmissionsType
<1>4. SubmissionsOf(queue) = IF x \in Submitters THEN <<x>> \o rest ELSE rest
  BY <1>1, SubmissionsGet
<1>5. Pipe' = pending' \o rest BY DEF Pipe
<1> HIDE DEF rest
<1>6. CASE x \in Submitters
  <2>1. <<x>> \in Seq(Submitters) BY <1>6
  <2>2. pending' = pending \o <<x>> BY <1>1, <1>6, AppendIsConcat
  <2>3. (pending \o <<x>>) \o rest = pending \o (<<x>> \o rest)
    BY <1>1, <1>3, <2>1, ConcatAssociative
  <2> QED BY <1>4, <1>5, <1>6, <2>2, <2>3 DEF Pipe
<1>7. CASE x \notin Submitters BY <1>4, <1>5, <1>7 DEF Pipe
<1> QED BY <1>6, <1>7

\* The batch is the front of it.
LEMMA PipeClear ==
  ASSUME TypeOK, queue' = queue, pending' = <<>>
  PROVE  /\ Len(pending) \in 0 .. Len(Pipe)
         /\ SubSeq(Pipe, 1, Len(pending)) = pending
         /\ Pipe' = SubSeq(Pipe, Len(pending) + 1, Len(Pipe))
<1> DEFINE rest == SubmissionsOf(queue)
<1>1. pending \in Seq(Submitters) /\ rest \in Seq(Submitters) BY PipeType DEF TypeOK
<1>2. Pipe' = <<>> \o rest BY DEF Pipe
<1>3. Pipe = pending \o rest BY DEF Pipe
<1> HIDE DEF rest
<1>4. Pipe' = rest BY <1>1, <1>2, ConcatEmptySeq
<1>5. /\ Len(pending) \in Nat /\ Len(rest) \in Nat
      /\ Len(Pipe) = Len(pending) + Len(rest)
  BY <1>1, <1>3, ConcatProperties, LenProperties
<1>6. SubSeq(Pipe, 1, Len(pending)) = pending
  <2>1. Pipe \in Seq(Submitters) BY PipeType
  <2>2. \A i \in 1 .. Len(pending) : Pipe[i] = pending[i] BY <1>1, <1>3, ConcatProperties
  <2> QED BY <1>1, <1>5, <2>1, <2>2
<1>7. SubSeq(Pipe, Len(pending) + 1, Len(Pipe)) = rest
  <2>1. Pipe \in Seq(Submitters) BY PipeType
  <2>2. \A i \in 1 .. Len(rest) : Pipe[Len(pending) + i] = rest[i] BY <1>1, <1>3, <1>5
  <2> QED BY <1>1, <1>5, <2>1, <2>2
<1> QED BY <1>4, <1>5, <1>6, <1>7

----------------------------------------------------------------------------
(* The simulation                                                          *)

\* One step of Delivery, or none, through the mapping.
ContractStep == [Contract!Next]_(Contract!abstractVars)

\* Delivery's own copy of the library operator.
LEMMA ContractToSet == \A q : Contract!ToSet(q) = ToSet(q)
  BY DEF Contract!ToSet, ToSet

LEMMA ContractStutter ==
  ASSUME UNCHANGED <<Pipe, sunk, lost, dropped, owes, Outcome>>
  PROVE  ContractStep
  BY DEF ContractStep, Contract!abstractVars

\* A put is an Accept, and Full is a Refuse.
LEMMA SubmitSimulates ==
  ASSUME TypeOK, AcceptedInv, SettledInv, NEW s \in Submitters, Submit(s)
  PROVE  ContractStep
<1>0. UNCHANGED <<sunk, lost, owes, result, pending>>
  BY DEF Submit, SubmitRead, SubmitPut, SubmitRecheck, flushVars, sinkVars, drainVars
<1>1. UNCHANGED Outcome BY <1>0 DEF Outcome
<1>2. CASE UNCHANGED <<queue, dropped>>
  <2>1. UNCHANGED Pipe BY <1>0, <1>2 DEF Pipe
  <2> QED BY <1>0, <1>1, <1>2, <2>1, ContractStutter
<1>3. CASE SubmitPut(s)
  <2>1. ~Accepted(s) BY <1>3 DEF SubmitPut, At, Accepted
  <2>2. s \notin ToSet(Pipe) \cup ToSet(sunk) \cup lost \cup dropped
    BY <2>1, PipeType DEF AcceptedInv, SettledInv
  <2>3. CASE queue' = Append(queue, s) /\ UNCHANGED dropped
    <3>1. s \in Items BY DEF Items
    <3>2. Pipe' = Append(Pipe, s) BY <1>0, <2>3, <3>1, PipePut
    <3>3. Contract!Accept(s)
      BY <1>0, <1>1, <2>2, <2>3, <3>2, ContractToSet
      DEF Contract!Accept, Contract!Known
    <3> QED BY <3>3 DEF ContractStep, Contract!Next
  <2>4. CASE dropped' = dropped \cup {s} /\ UNCHANGED queue
    <3>1. UNCHANGED Pipe BY <1>0, <2>4 DEF Pipe
    <3>2. Contract!Refuse(s)
      BY <1>0, <1>1, <2>2, <2>4, <3>1, ContractToSet
      DEF Contract!Refuse, Contract!Known
    <3> QED BY <3>2 DEF ContractStep, Contract!Next
  <2> QED BY <1>3, <2>3, <2>4 DEF SubmitPut
<1> QED BY <1>2, <1>3 DEF Submit, SubmitRead, SubmitRecheck

\* A stamp is a Begin, and a return an End.
LEMMA FlushSimulates ==
  ASSUME TypeOK, VerdictInv, VerdictInv', FreshInv, NEW f \in Flushers, Flush(f)
  PROVE  ContractStep
<1>t. result \in [Flushers -> Results] BY DEF TypeOK
<1>0. UNCHANGED <<sunk, lost, dropped, pending>>
  BY FlushShape DEF FlushUnchanged, sinkVars, countVars, drainVars
<1>1. UNCHANGED Pipe
  <2>1. f \in Items /\ f \notin Submitters BY ThreadsAssumption DEF Items
  <2>2. CASE queue' = queue BY <1>0, <2>2 DEF Pipe
  <2>3. CASE queue' = Append(queue, f) BY <1>0, <2>1, <2>3, PipePut
  <2> QED BY <2>2, <2>3, FlushQueue
<1>2. result[f] = "none" BY FlushOutcome DEF FreshInv
<1>3. Outcome[f] = "none" BY <1>2 DEF Outcome
<1>4. CASE FlushStamp(f)
  <2>1. /\ owes' = [owes EXCEPT ![f] = Backlog] /\ UNCHANGED result /\ pc[f] = "stamp"
    BY <1>4 DEF FlushStamp, At
  <2>2. owes[f] = {} /\ UNCHANGED Outcome BY <2>1 DEF FreshInv, Outcome
  <2>3. owes' = [owes EXCEPT ![f] = ToSet(Pipe)] BY <2>1, PipeType
  <2>4. Contract!Begin(f)
    BY <1>0, <1>1, <1>3, <2>2, <2>3, ContractToSet DEF Contract!Begin
  <2> QED BY <2>4 DEF ContractStep, Contract!Next
<1>5. CASE UNCHANGED <<owes, result>>
  <2>1. UNCHANGED Outcome BY <1>5 DEF Outcome
  <2> QED BY <1>0, <1>1, <1>5, <2>1, ContractStutter
<1>6. ASSUME UNCHANGED owes, NEW why \in Results \ {"none"}, Return(f, why)
      PROVE  ContractStep
  <2>1. result' = [result EXCEPT ![f] = why] BY <1>6 DEF Return
  <2> DEFINE verdict == IF why = "ok" THEN "ok" ELSE "failed"
  <2>2. Outcome' = [Outcome EXCEPT ![f] = verdict]
    <3>1. ASSUME NEW g \in Flushers
          PROVE  Outcome'[g] = IF g = f THEN verdict ELSE Outcome[g]
      <4>1. CASE g = f
        <5>1. result'[g] = why BY <1>t, <2>1, <4>1
        <5> QED BY <1>6, <4>1, <5>1 DEF Outcome
      <4>2. CASE g # f
        <5>1. result'[g] = result[g] BY <1>t, <2>1, <4>2
        <5> QED BY <4>2, <5>1 DEF Outcome
      <4> QED BY <4>1, <4>2
    <3>2. /\ Outcome' = [g \in Flushers |-> Outcome'[g]]
          /\ Outcome = [g \in Flushers |-> Outcome[g]]
      BY DEF Outcome
    <3> HIDE DEF verdict
    <3> QED BY <3>1, <3>2
  <2>3. verdict = "ok" => owes[f] \subseteq ToSet(sunk)
    <3>1. verdict = "ok" => result'[f] = "ok" BY <1>t, <2>1
    <3> QED BY <1>0, <1>6, <3>1 DEF VerdictInv
  <2>4. verdict \in {"ok", "failed"} OBVIOUS
  <2> HIDE DEF verdict
  <2>5. Contract!End(f, verdict)
    BY <1>0, <1>1, <1>3, <1>6, <2>2, <2>3, ContractToSet DEF Contract!End
  <2> QED BY <2>4, <2>5 DEF ContractStep, Contract!Next
<1> QED BY <1>4, <1>5, <1>6, FlushOutcome

\* An emit that returns is a Deliver of the batch, one that is given up on a Lose.
LEMMA DrainSimulates ==
  ASSUME TypeOK, Drain
  PROVE  ContractStep
<1>0. UNCHANGED <<dropped, owes, result>>
  BY DrainShape DEF DrainUnchanged, callVars, flushVars
<1>1. UNCHANGED Outcome BY <1>0 DEF Outcome
<1>2. pending \in Seq(Submitters) /\ sunk \in Seq(Submitters) BY DEF TypeOK
<1>s. ASSUME UNCHANGED <<Pipe, sunk, lost>> PROVE ContractStep
  BY <1>0, <1>1, <1>s, ContractStutter
<1>3. CASE UNCHANGED <<queue, pending, sunk, lost>>
  <2>1. UNCHANGED Pipe BY <1>3 DEF Pipe
  <2> QED BY <1>3, <1>s, <2>1
<1>4. CASE /\ queue # <<>> /\ queue' = Tail(queue)
           /\ \/ Head(queue) \in Submitters /\ pending' = Append(pending, Head(queue))
              \/ Head(queue) \notin Submitters /\ pending' = pending
           /\ UNCHANGED <<sunk, lost>>
  BY <1>4, <1>s, PipeGet
<1>5. CASE queue' = Append(queue, SHUTDOWN) /\ UNCHANGED <<pending, sunk, lost>>
  <2>1. SHUTDOWN \in Items /\ SHUTDOWN \notin Submitters
    BY ThreadsAssumption DEF Items, Callers
  <2> QED BY <1>5, <1>s, <2>1, PipePut
<1> DEFINE n == Len(pending)
<1>6. ASSUME queue' = queue, pending' = <<>>
      PROVE  /\ n \in 0 .. Len(Pipe) /\ SubSeq(Pipe, 1, n) = pending
             /\ Pipe' = SubSeq(Pipe, n + 1, Len(Pipe))
             /\ n = 0 => pending = <<>> /\ Pipe' = Pipe
  <2>1. n = 0 => pending = <<>> BY <1>2, EmptySeq
  <2>2. n = 0 => Pipe' = Pipe BY <1>6, <2>1 DEF Pipe
  <2> QED BY <1>6, <2>1, <2>2, PipeClear
<1>7. CASE EmitOk
  <2>0. UNCHANGED <<queue, lost>> /\ pending' = <<>> /\ sunk' = sunk \o pending
    BY <1>7 DEF EmitOk, AfterEmit
  <2>1. CASE n = 0
    <3>1. UNCHANGED <<Pipe, sunk>> BY <1>2, <1>6, <2>0, <2>1, ConcatEmptySeq
    <3> QED BY <1>s, <2>0, <3>1
  <2>2. CASE n # 0
    <3>1. n \in 1 .. Len(Pipe) BY <1>2, <1>6, <2>0, <2>2
    <3> HIDE DEF n
    <3>2. Contract!Deliver(n)
      BY <1>0, <1>1, <1>6, <2>0
      DEF Contract!Deliver, Contract!Oldest, Contract!Rest
    <3> QED BY <3>1, <3>2 DEF ContractStep, Contract!Next
  <2> QED BY <2>1, <2>2
<1>8. CASE Abandon /\ UNCHANGED <<queue, sunk>>
  <2>0. UNCHANGED <<queue, sunk>> /\ pending' = <<>> /\ lost' = lost \cup ToSet(pending)
    BY <1>8 DEF Abandon, AfterEmit
  <2>1. CASE n = 0
    <3>1. ToSet(<<>>) = {} BY DEF ToSet
    <3>2. UNCHANGED <<Pipe, lost>> BY <1>6, <2>0, <2>1, <3>1
    <3> QED BY <1>s, <2>0, <3>2
  <2>2. CASE n # 0
    <3>1. n \in 1 .. Len(Pipe) BY <1>2, <1>6, <2>0, <2>2
    <3> HIDE DEF n
    <3>2. Contract!Lose(n)
      BY <1>0, <1>1, <1>6, <2>0, ContractToSet
      DEF Contract!Lose, Contract!Oldest, Contract!Rest
    <3> QED BY <3>1, <3>2 DEF ContractStep, Contract!Next
  <2> QED BY <2>1, <2>2
<1> QED BY <1>3, <1>4, <1>5, <1>7, <1>8, DrainMoves

LEMMA StepSimulates ==
  TypeOK /\ PromiseInv /\ PromiseInv' /\ SettledInv /\ FreshInv /\ [Next]_vars => ContractStep
<1> SUFFICES ASSUME TypeOK, PromiseInv, PromiseInv', SettledInv, FreshInv, [Next]_vars
             PROVE  ContractStep
  OBVIOUS
<1>1. AcceptedInv /\ VerdictInv /\ VerdictInv' BY DEF PromiseInv
<1>2. ASSUME NEW s \in Submitters, Submit(s) PROVE ContractStep BY <1>1, <1>2, SubmitSimulates
<1>3. ASSUME NEW f \in Flushers, Flush(f) PROVE ContractStep BY <1>1, <1>3, FlushSimulates
<1>4. ASSUME NEW p \in Stoppers, Stop(p) PROVE ContractStep
  <2>1. UNCHANGED <<sunk, lost, dropped, owes, result, pending>>
    BY <1>4, StopShape DEF StopUnchanged, flushVars, sinkVars, drainVars
  <2>2. UNCHANGED Outcome BY <2>1 DEF Outcome
  <2>3. UNCHANGED Pipe
    <3>1. SHUTDOWN \in Items /\ SHUTDOWN \notin Submitters
      BY ThreadsAssumption DEF Items, Callers
    <3>2. CASE queue' = queue BY <2>1, <3>2 DEF Pipe
    <3>3. CASE queue' = Append(queue, SHUTDOWN) BY <2>1, <3>1, <3>3, PipePut
    <3> QED BY <1>4, <3>2, <3>3, StopQueue
  <2> QED BY <2>1, <2>2, <2>3, ContractStutter
<1>5. CASE UNCHANGED vars
  <2>1. UNCHANGED <<sunk, lost, dropped, owes, result, pending, queue>>
    BY <1>5 DEF vars, callVars, flushVars, sinkVars, drainVars, countVars
  <2>2. UNCHANGED <<Pipe, Outcome>> BY <2>1 DEF Pipe, Outcome
  <2> QED BY <2>1, <2>2, ContractStutter
<1> QED BY <1>2, <1>3, <1>4, <1>5, DrainSimulates DEF Next, Terminated

LEMMA InitSimulates == Init => Contract!Init
<1> SUFFICES ASSUME Init PROVE Contract!Init OBVIOUS
<1>1. <<>> \o <<>> = <<>> OBVIOUS
<1>2. Pipe = <<>> BY <1>1, SubmissionsEmpty DEF Init, Pipe
<1>3. Outcome = [f \in Flushers |-> "none"] BY DEF Init, Outcome
<1> QED BY <1>2, <1>3 DEF Init, Contract!Init

\* The worker implements Delivery for any number of submitters, flushes and stoppers and any
\* sizes: however submit(), flush(), shutdown() and the drain interleave, whatever is retried,
\* given up on or killed, the submissions leave in the order they were accepted, each once and as
\* a whole batch, to the sink or to the losses, and a flush() that says ok answers for everything
\* that was accepted and unsettled when it began (submit, flush, _drain, _final_drain, _emit).
THEOREM WorkerImplementsDelivery == Spec => ImplementsDelivery
<1>1. TypeOK /\ PromiseInv /\ PromiseInv' /\ SettledInv /\ FreshInv /\ [Next]_vars
          => [Contract!Next]_(Contract!abstractVars)
  BY StepSimulates DEF ContractStep
<1> QED BY <1>1, InitSimulates, FreshInit, FreshStep, SettledStep, PromiseInit, PromiseStep,
           LossInit, LossStep, SentinelInit, SentinelStep, GateInit, GateStep, WaiterInit,
           WaiterStep, TypeCorrect, PTL DEF Spec, ImplementsDelivery, Contract!Spec

=============================================================================
