----------------------------- MODULE EmitProofs -----------------------------
(***************************************************************************)
(* Theorems about one emit() of a delivering sink, for a batch of any size, *)
(* any limits and any number of retries.                                    *)
(***************************************************************************)
EXTENDS MCEmit, Recursion, FiniteSetTheorems

LEMMA EventsFinite == IsFiniteSet(Events) /\ Events \subseteq Nat /\ Size \in Nat
<1>1. Size \in Nat BY EmitAssumption
<1> QED BY <1>1, FS_Interval DEF Events

\* The size of a part of the batch.
LEMMA PartSize ==
  ASSUME NEW S \in SUBSET Events
  PROVE  /\ IsFiniteSet(S) /\ Cardinality(S) \in Nat
         /\ Cardinality(S) = 0 <=> S = {}
         /\ \A U \in SUBSET S : /\ Cardinality(U) \in Nat /\ Cardinality(U) <= Cardinality(S)
                                /\ Cardinality(U) = Cardinality(S) => U = S
<1>1. IsFiniteSet(S) BY EventsFinite, FS_Subset
<1>2. \A U \in SUBSET S : IsFiniteSet(U) /\ Cardinality(U) <= Cardinality(S)
                          /\ (Cardinality(S) = Cardinality(U) => S = U)
  BY <1>1, FS_Subset
<1> QED BY <1>1, <1>2, FS_CardinalityType, FS_EmptySet

----------------------------------------------------------------------------
(* Cutting a batch into requests                                           *)

Requests == Seq(SUBSET Events)
All(cs) == UNION ToSet(cs)

LEMMA AddToLastAll ==
  ASSUME NEW cs \in Requests, cs # <<>>, NEW e \in Events
  PROVE  AddToLast(cs, e) \in Requests /\ All(AddToLast(cs, e)) = All(cs) \cup {e}
<1> DEFINE n == Len(cs)
           ds == AddToLast(cs, e)
<1>1. n \in Nat /\ n # 0 /\ n \in 1..n BY DEF Requests
<1>2. cs[n] \in SUBSET Events /\ cs[n] \cup {e} \in SUBSET Events BY <1>1 DEF Requests
<1>3. cs \in [1..n -> SUBSET Events] BY DEF Requests
<1>4. ds \in [1..n -> SUBSET Events] BY <1>2, <1>3 DEF AddToLast
<1>5. ds \in Requests BY <1>1, <1>4 DEF Requests
<1>6. ds[n] = cs[n] \cup {e} /\ \A i \in 1..n : i # n => ds[i] = cs[i]
  BY <1>1, <1>3 DEF AddToLast
<1>7. ToSet(ds) = {ds[i] : i \in 1..n} /\ ToSet(cs) = {cs[i] : i \in 1..n}
  BY <1>3, <1>4 DEF ToSet
<1> HIDE DEF ds, n
<1>8. All(ds) = All(cs) \cup {e} BY <1>1, <1>6, <1>7 DEF All
<1> QED BY <1>5, <1>8 DEF ds

LEMMA AppendAll ==
  ASSUME NEW cs \in Requests, NEW S \in SUBSET Events
  PROVE  Append(cs, S) \in Requests /\ All(Append(cs, S)) = All(cs) \cup S
<1>1. ToSet(Append(cs, S)) = ToSet(cs) \cup {S} BY ElementsAppend DEF Requests
<1>2. Append(cs, S) \in Requests BY DEF Requests
<1> QED BY <1>1, <1>2 DEF All

LEMMA NoneAll == <<>> \in Requests /\ All(<<>>) = {}
  BY DEF Requests, All, ToSet

\* The requests of one step of Cut, and those of one step of HubBatches before the empty ones go.
CutStep(S, sized, e, before) ==
    IF e \notin S THEN before
    ELSE IF before # <<>> /\ Room(Last(before), e, sized)
    THEN AddToLast(before, e) ELSE Append(before, {e})
HubStep(S, e, before) ==
    IF e \notin S THEN before
    ELSE IF load[e] > MaxRecord THEN Append(before, {})
    ELSE IF before # <<>> /\ SizeOf(Last(before)) + load[e] <= MaxRecord
    THEN AddToLast(before, e) ELSE Append(before, {e})

LEMMA CutStepAll ==
  ASSUME NEW S, NEW sized, NEW e \in Events, NEW cs \in Requests
  PROVE  /\ CutStep(S, sized, e, cs) \in Requests
         /\ All(CutStep(S, sized, e, cs)) = All(cs) \cup (S \cap {e})
<1>1. {e} \in SUBSET Events OBVIOUS
<1>2. CASE e \notin S BY <1>2 DEF CutStep
<1>3. CASE e \in S /\ cs # <<>> /\ Room(Last(cs), e, sized)
  <2>1. CutStep(S, sized, e, cs) = AddToLast(cs, e) BY <1>3 DEF CutStep
  <2> QED BY <1>3, <2>1, AddToLastAll
<1>4. CASE e \in S /\ ~(cs # <<>> /\ Room(Last(cs), e, sized))
  <2>1. CutStep(S, sized, e, cs) = Append(cs, {e}) BY <1>4 DEF CutStep
  <2> QED BY <1>1, <1>4, <2>1, AppendAll
<1> QED BY <1>2, <1>3, <1>4

LEMMA HubStepAll ==
  ASSUME NEW S, NEW e \in Events, NEW cs \in Requests
  PROVE  /\ HubStep(S, e, cs) \in Requests
         /\ All(HubStep(S, e, cs)) = All(cs) \cup {x \in S \cap {e} : ~(load[x] > MaxRecord)}
<1>1. {e} \in SUBSET Events /\ {} \in SUBSET Events OBVIOUS
<1>2. CASE e \notin S BY <1>2 DEF HubStep
<1>3. CASE e \in S /\ load[e] > MaxRecord
  <2>1. HubStep(S, e, cs) = Append(cs, {}) BY <1>3 DEF HubStep
  <2> QED BY <1>1, <1>3, <2>1, AppendAll
<1>4. CASE e \in S /\ ~(load[e] > MaxRecord)
  <2>1. CASE cs # <<>> /\ SizeOf(Last(cs)) + load[e] <= MaxRecord
    <3>1. HubStep(S, e, cs) = AddToLast(cs, e) BY <1>4, <2>1 DEF HubStep
    <3> QED BY <1>4, <2>1, <3>1, AddToLastAll
  <2>2. CASE ~(cs # <<>> /\ SizeOf(Last(cs)) + load[e] <= MaxRecord)
    <3>1. HubStep(S, e, cs) = Append(cs, {e}) BY <1>4, <2>2 DEF HubStep
    <3> QED BY <1>1, <1>4, <3>1, AppendAll
  <2> QED BY <2>1, <2>2
<1> QED BY <1>2, <1>3, <1>4

\* Cut puts each event of S into a request, and no other.
LEMMA CutAll ==
  ASSUME NEW S \in SUBSET Events, NEW sized
  PROVE  Cut(S, sized) \in Requests /\ All(Cut(S, sized)) = S
<1> DEFINE Rec(g) == g = [e \in 0..Size |->
                       IF e = 0 THEN <<>>
                       ELSE IF e \notin S THEN g[e - 1]
                       ELSE IF g[e - 1] # <<>> /\ Room(Last(g[e - 1]), e, sized)
                       THEN AddToLast(g[e - 1], e)
                       ELSE Append(g[e - 1], {e})]
           g == CHOOSE g : Rec(g)
           Got(n) == {x \in S : x <= n}
<1>0. Size \in Nat BY EventsFinite
<1>1. \E h : Rec(h)
  <2> DEFINE step == [e \in 1..Size |-> [r \in Requests |-> CutStep(S, sized, e, r)]]
  <2>1. \A e \in 1..Size, r \in Requests : step[e][r] = CutStep(S, sized, e, r) OBVIOUS
  <2>2. step \in Steps(Size, Requests) BY CutStepAll DEF Steps, Events
  <2>3. <<>> \in Requests BY NoneAll
  <2> HIDE DEF step
  <2>4. PICK f : Iterates(f, Size, Requests, <<>>, step) BY <1>0, <2>2, <2>3, RecursionExists
  <2>5. f \in [0..Size -> Requests] /\ f[0] = <<>>
        /\ \A e \in 1..Size : f[e] = step[e][f[e - 1]]
    BY <2>4 DEF Iterates
  <2>6. ASSUME NEW e \in 0..Size
        PROVE  f[e] = IF e = 0 THEN <<>>
                       ELSE IF e \notin S THEN f[e - 1]
                       ELSE IF f[e - 1] # <<>> /\ Room(Last(f[e - 1]), e, sized)
                       THEN AddToLast(f[e - 1], e)
                       ELSE Append(f[e - 1], {e})
    <3>1. CASE e = 0 BY <2>5, <3>1
    <3>2. CASE e # 0
      <4>1. e \in 1..Size /\ e - 1 \in 0..Size BY <1>0, <3>2
      <4>2. f[e] = CutStep(S, sized, e, f[e - 1]) BY <2>1, <2>5, <4>1
      <4> QED BY <3>2, <4>2 DEF CutStep
    <3> QED BY <3>1, <3>2
  <2>7. f = [e \in 0..Size |-> f[e]] BY <2>5
  <2>8. Rec(f) BY <2>6, <2>7
  <2> HIDE DEF Rec
  <2> QED BY <2>8
<1>2. Rec(g)
  <2> HIDE DEF Rec
  <2> QED BY <1>1
<1>3. Cut(S, sized) = g[Size] BY Zenon DEF Cut
<1> HIDE DEF g
<1>4. g[0] = <<>> BY <1>0, <1>2
<1>5. ASSUME NEW e \in 1..Size PROVE g[e] = CutStep(S, sized, e, g[e - 1])
  <2>1. e \in 0..Size /\ e # 0 BY <1>0
  <2> QED BY <1>2, <2>1 DEF CutStep
<1> DEFINE U == {n \in 0..Size : g[n] \in Requests /\ All(g[n]) = Got(n)}
<1>6. 0 \in U
  <2>1. Got(0) = {}
    <3>1. \A x \in S : x \in 1..Size BY DEF Events
    <3>2. \A x \in S : ~(x <= 0) BY <1>0, <3>1
    <3> QED BY <3>2
  <2>2. 0 \in 0..Size BY <1>0
  <2> QED BY <1>4, <2>1, <2>2, NoneAll
<1>7. ASSUME NEW n \in 1..Size, n - 1 \in U PROVE n \in U
  <2>1. n \in Events /\ n \in 0..Size /\ n \in Nat BY <1>0 DEF Events
  <2>2. g[n - 1] \in Requests /\ All(g[n - 1]) = Got(n - 1) BY <1>7
  <2>3. g[n] \in Requests /\ All(g[n]) = Got(n - 1) \cup (S \cap {n})
    <3>1. /\ CutStep(S, sized, n, g[n - 1]) \in Requests
          /\ All(CutStep(S, sized, n, g[n - 1])) = All(g[n - 1]) \cup (S \cap {n})
      BY <2>1, <2>2, CutStepAll
    <3> HIDE DEF Got
    <3> QED BY <1>5, <2>2, <3>1
  <2>4. Got(n) = Got(n - 1) \cup (S \cap {n})
    <3>1. \A x \in Nat : x <= n <=> x <= n - 1 \/ x = n BY <2>1
    <3>2. \A x \in S : x \in Nat BY EventsFinite
    <3> QED BY <2>1, <3>1, <3>2
  <2> HIDE DEF Got
  <2> QED BY <2>1, <2>3, <2>4
<1> HIDE DEF U
<1>8. 0..Size \subseteq U BY <1>0, <1>6, <1>7, BoundedInduction
<1>9. Size \in U BY <1>0, <1>8
<1>10. g[Size] \in Requests /\ All(g[Size]) = Got(Size) BY <1>9 DEF U
<1>11. Got(Size) = S
  <2>1. \A x \in S : x \in 1..Size BY DEF Events
  <2>2. \A x \in S : x <= Size BY <1>0, <2>1
  <2> QED BY <2>2
<1> QED BY <1>3, <1>10, <1>11

\* HubBatches puts each event of S that fits a batch into one, and no other.
LEMMA HubBatchesAll ==
  ASSUME NEW S \in SUBSET Events
  PROVE  /\ HubBatches(S) \in Requests
         /\ All(HubBatches(S)) = {e \in S : ~(load[e] > MaxRecord)}
<1> DEFINE Rec(g) == g = [e \in 0..Size |->
                       IF e = 0 THEN <<>>
                       ELSE IF e \notin S THEN g[e - 1]
                       ELSE IF load[e] > MaxRecord THEN Append(g[e - 1], {})
                       ELSE IF g[e - 1] # <<>> /\ SizeOf(Last(g[e - 1])) + load[e] <= MaxRecord
                       THEN AddToLast(g[e - 1], e)
                       ELSE Append(g[e - 1], {e})]
           g == CHOOSE g : Rec(g)
           Got(n) == {x \in S : x <= n /\ ~(load[x] > MaxRecord)}
<1>0. Size \in Nat BY EventsFinite
<1>1. \E h : Rec(h)
  <2> DEFINE step == [e \in 1..Size |-> [r \in Requests |-> HubStep(S, e, r)]]
  <2>1. \A e \in 1..Size, r \in Requests : step[e][r] = HubStep(S, e, r) OBVIOUS
  <2>2. step \in Steps(Size, Requests) BY HubStepAll DEF Steps, Events
  <2>3. <<>> \in Requests BY NoneAll
  <2> HIDE DEF step
  <2>4. PICK f : Iterates(f, Size, Requests, <<>>, step) BY <1>0, <2>2, <2>3, RecursionExists
  <2>5. f \in [0..Size -> Requests] /\ f[0] = <<>>
        /\ \A e \in 1..Size : f[e] = step[e][f[e - 1]]
    BY <2>4 DEF Iterates
  <2>6. ASSUME NEW e \in 0..Size
        PROVE  f[e] = IF e = 0 THEN <<>>
                       ELSE IF e \notin S THEN f[e - 1]
                       ELSE IF load[e] > MaxRecord THEN Append(f[e - 1], {})
                       ELSE IF f[e - 1] # <<>> /\ SizeOf(Last(f[e - 1])) + load[e] <= MaxRecord
                       THEN AddToLast(f[e - 1], e)
                       ELSE Append(f[e - 1], {e})
    <3>1. CASE e = 0 BY <2>5, <3>1
    <3>2. CASE e # 0
      <4>1. e \in 1..Size /\ e - 1 \in 0..Size BY <1>0, <3>2
      <4>2. f[e] = HubStep(S, e, f[e - 1]) BY <2>1, <2>5, <4>1
      <4> QED BY <3>2, <4>2 DEF HubStep
    <3> QED BY <3>1, <3>2
  <2>7. f = [e \in 0..Size |-> f[e]] BY <2>5
  <2>8. Rec(f) BY <2>6, <2>7
  <2> HIDE DEF Rec
  <2> QED BY <2>8
<1>2. Rec(g)
  <2> HIDE DEF Rec
  <2> QED BY <1>1
<1>3. HubBatches(S) = Keep(g[Size], (SUBSET Events) \ {{}}) BY Zenon DEF HubBatches
<1> HIDE DEF g
<1>4. g[0] = <<>> BY <1>0, <1>2
<1>5. ASSUME NEW e \in 1..Size PROVE g[e] = HubStep(S, e, g[e - 1])
  <2>1. e \in 0..Size /\ e # 0 BY <1>0
  <2> QED BY <1>2, <2>1 DEF HubStep
<1> DEFINE U == {n \in 0..Size : g[n] \in Requests /\ All(g[n]) = Got(n)}
<1>6. 0 \in U
  <2>1. Got(0) = {}
    <3>1. \A x \in S : x \in 1..Size BY DEF Events
    <3>2. \A x \in S : ~(x <= 0) BY <1>0, <3>1
    <3> QED BY <3>2
  <2>2. 0 \in 0..Size BY <1>0
  <2> QED BY <1>4, <2>1, <2>2, NoneAll
<1>7. ASSUME NEW n \in 1..Size, n - 1 \in U PROVE n \in U
  <2>1. n \in Events /\ n \in 0..Size /\ n \in Nat BY <1>0 DEF Events
  <2>2. g[n - 1] \in Requests /\ All(g[n - 1]) = Got(n - 1) BY <1>7
  <2>3. g[n] \in Requests /\ All(g[n]) = Got(n - 1) \cup {x \in S \cap {n} : ~(load[x] > MaxRecord)}
    BY <1>5, <2>1, <2>2, HubStepAll
  <2>4. Got(n) = Got(n - 1) \cup {x \in S \cap {n} : ~(load[x] > MaxRecord)}
    <3>1. \A x \in Nat : x <= n <=> x <= n - 1 \/ x = n BY <2>1
    <3>2. \A x \in S : x \in Nat BY EventsFinite
    <3> QED BY <2>1, <3>1, <3>2
  <2> HIDE DEF Got
  <2> QED BY <2>1, <2>3, <2>4
<1> HIDE DEF U
<1>8. 0..Size \subseteq U BY <1>0, <1>6, <1>7, BoundedInduction
<1>9. Size \in U BY <1>0, <1>8
<1>10. g[Size] \in Requests /\ All(g[Size]) = Got(Size) BY <1>9 DEF U
<1>11. Got(Size) = {e \in S : ~(load[e] > MaxRecord)}
  <2>1. \A x \in S : x \in 1..Size BY DEF Events
  <2>2. \A x \in S : x <= Size BY <1>0, <2>1
  <2> QED BY <2>2
<1>12. Keep(g[Size], (SUBSET Events) \ {{}}) \in Requests
       /\ ToSet(Keep(g[Size], (SUBSET Events) \ {{}}))
              = ToSet(g[Size]) \cap ((SUBSET Events) \ {{}})
  BY <1>10, KeepElements DEF Requests
<1>13. ToSet(g[Size]) \subseteq SUBSET Events BY <1>10 DEF ToSet, Requests
<1>14. All(Keep(g[Size], (SUBSET Events) \ {{}})) = All(g[Size]) BY <1>12, <1>13 DEF All
<1> QED BY <1>3, <1>10, <1>11, <1>12, <1>14

\* InOrder lists the events of S, each once.
LEMMA InOrderLists ==
  ASSUME NEW S \in SUBSET Events
  PROVE  InOrder(S) \in Seq(Events) /\ ToSet(InOrder(S)) = S /\ NoDuplicates(InOrder(S))
<1> DEFINE all == [i \in Events |-> i]
<1>1. all \in Seq(Events) /\ Len(all) = Size BY EventsFinite DEF Events
<1>2. ToSet(all) = Events BY DEF ToSet
<1>3. NoDuplicates(all) BY <1>1 DEF NoDuplicates, Events
<1>4. InOrder(S) = Keep(all, S) BY DEF InOrder
<1> HIDE DEF all
<1>5. Keep(all, S) \in Seq(Events) /\ ToSet(Keep(all, S)) = ToSet(all) \cap S
  BY <1>1, KeepElements
<1>6. NoDuplicates(Keep(all, S)) BY <1>1, <1>3, KeepDistinct
<1> QED BY <1>2, <1>4, <1>5, <1>6

LEMMA SinglesAll ==
  ASSUME NEW S \in SUBSET Events
  PROVE  Singles(S) \in Requests /\ All(Singles(S)) = S
<1> DEFINE q == InOrder(S)
<1>1. q \in Seq(Events) /\ ToSet(q) = S BY InOrderLists
<1>2. Singles(S) = [i \in DOMAIN q |-> {q[i]}] BY DEF Singles
<1> HIDE DEF q
<1>3. DOMAIN q = 1..Len(q) /\ Len(q) \in Nat /\ \A i \in 1..Len(q) : q[i] \in Events BY <1>1
<1>4. Singles(S) \in [1..Len(q) -> SUBSET Events] BY <1>2, <1>3
<1>5. Singles(S) \in Requests BY <1>3, <1>4 DEF Requests
<1>6. ToSet(Singles(S)) = {{q[i]} : i \in DOMAIN q} BY <1>2 DEF ToSet
<1>7. S = {q[i] : i \in DOMAIN q} BY <1>1 DEF ToSet
<1> QED BY <1>5, <1>6, <1>7 DEF All

LEMMA WholeAll ==
  ASSUME NEW S \in SUBSET Events
  PROVE  Whole(S) \in Requests /\ All(Whole(S)) = S
<1>1. CASE S = {} BY <1>1, NoneAll DEF Whole
<1>2. CASE S # {}
  <2>1. Whole(S) = <<S>> BY <1>2 DEF Whole
  <2>2. <<S>> \in Requests BY DEF Requests
  <2>3. ToSet(<<S>>) = {S} BY DEF ToSet
  <2> QED BY <2>1, <2>2, <2>3 DEF All
<1> QED BY <1>1, <1>2

LEMMA TailAll ==
  ASSUME NEW cs \in Requests, cs # <<>>
  PROVE  Head(cs) \in SUBSET Events /\ Tail(cs) \in Requests /\ All(cs) = Head(cs) \cup All(Tail(cs))
<1>1. Head(cs) \in SUBSET Events /\ Tail(cs) \in Requests BY DEF Requests
<1>2. ToSet(cs) = {Head(cs)} \cup ToSet(Tail(cs))
  <2>1. Len(cs) \in Nat /\ Len(cs) # 0 /\ Len(Tail(cs)) = Len(cs) - 1 /\ Head(cs) = cs[1]
        /\ DOMAIN cs = 1..Len(cs) /\ DOMAIN Tail(cs) = 1..(Len(cs) - 1)
    BY DEF Requests
  <2>2. \A i \in 1..(Len(cs) - 1) : Tail(cs)[i] = cs[i + 1] BY <2>1 DEF Requests
  <2>3. \A i \in 1..Len(cs) : i = 1 \/ (i - 1 \in 1..(Len(cs) - 1) /\ (i - 1) + 1 = i) BY <2>1
  <2>4. \A i \in 1..(Len(cs) - 1) : i + 1 \in 1..Len(cs) BY <2>1
  <2>5. 1 \in 1..Len(cs) BY <2>1
  <2>6. ASSUME NEW x \in ToSet(cs) PROVE x \in {Head(cs)} \cup ToSet(Tail(cs))
    <3>1. PICK i \in 1..Len(cs) : x = cs[i] BY <2>1 DEF ToSet
    <3>2. CASE i = 1 BY <2>1, <3>1, <3>2
    <3>3. CASE i # 1
      <4>1. i - 1 \in DOMAIN Tail(cs) /\ Tail(cs)[i - 1] = x BY <2>1, <2>2, <2>3, <3>1, <3>3
      <4> QED BY <4>1 DEF ToSet
    <3> QED BY <3>2, <3>3
  <2>7. ASSUME NEW x \in ToSet(Tail(cs)) PROVE x \in ToSet(cs)
    <3>1. PICK i \in 1..(Len(cs) - 1) : x = Tail(cs)[i] BY <2>1 DEF ToSet
    <3>2. i + 1 \in DOMAIN cs /\ x = cs[i + 1] BY <2>1, <2>2, <2>4, <3>1
    <3> QED BY <3>2 DEF ToSet
  <2>8. Head(cs) \in ToSet(cs) BY <2>1, <2>5 DEF ToSet
  <2> QED BY <2>6, <2>7, <2>8
<1> QED BY <1>1, <1>2 DEF All

----------------------------------------------------------------------------
(* The invariants of one emit()                                            *)

EmitType ==
    /\ load \in [Events -> Nat]
    /\ call \in {"idle", "send", "returned", "raised", "escaped"}
    /\ entries \in SUBSET Events /\ attempt \in Nat /\ delivered \in Nat
    /\ pending \in SUBSET Events /\ dropped \in [Events -> Nat] /\ failed \in SUBSET Events
    /\ acked \in SUBSET Events /\ decided \in SUBSET Events /\ landed \in SUBSET Events
    /\ stored \in SUBSET Events /\ abandoned \in SUBSET Events /\ declined \in SUBSET Events

\* Drops are counted by the call that returns, which is the last one.
DropInv == call # "returned" => \A e \in Events : dropped[e] = 0

\* What holds between any two steps of any sink.
CommonInv == EmitType /\ DropInv /\ Accounted /\ RaiseIsTotal /\ DroppedOnce

RecordType ==
    /\ todo \in Requests /\ sent \in Nat
    /\ tried \in BOOLEAN /\ unknown \in BOOLEAN /\ recoverable \in BOOLEAN

\* During a call no event is forgotten: it is left out, stored, counted, in the request in hand, or
\* still to come.
CoverInv ==
    call = "send" =>
        Events \subseteq pending \cup landed \cup stored \cup failed \cup entries \cup All(todo)

\* An event that is left out is not sent.
ApartInv == call = "send" => pending \cap (acked \cup entries \cup All(todo)) = {}

\* The sinks whose answers settle a part of a request and leave the rest to another attempt, and add
\* to delivered only at its end.  (SQS adds at each answer.)
Partial    == {"kinesis", "firehose", "sns"}
Positional == {"kinesis", "firehose"}

\* A part of the request in hand was settled by an earlier attempt.
Begun == entries # {} /\ sent > Cardinality(entries)

\* The request in hand: what is left of it is no more than was sent, and less only if a part of it
\* was acknowledged.
RequestInv ==
    call = "send" =>
        /\ attempt <= MaxRetries
        /\ entries # {} => tried /\ sent >= Cardinality(entries)
        /\ entries # {} /\ kind \notin Partial \cup {"sqs"} => sent = Cardinality(entries)
        /\ kind \in Partial /\ Begun => acked # {}

\* The local variables that decide between a return and a raise tell what really happened.
BalanceInv ==
    call = "send" =>
        /\ abandoned # {} => tried
        /\ acked # {} => delivered > 0 \/ (kind \in Partial /\ Begun) \/ unknown
        /\ delivered > 0 => acked \cup decided # {}
        /\ unknown <=> decided # {}
        /\ unknown => kind \in Positional
        /\ kind = "sqs" /\ abandoned # {} => recoverable

RecordInv == RecordType /\ CoverInv /\ ApartInv /\ RequestInv /\ BalanceInv

----------------------------------------------------------------------------
(* The beginning of a call                                                 *)

LEMMA StartStep ==
  ASSUME CommonInv, RecordInv, NEW chunks_ \in Requests, NEW drops \in SUBSET Events,
         Start(chunks_, drops), All(chunks_) = Events \ drops
  PROVE  CommonInv' /\ RecordInv'
<1> USE DEF CommonInv, RecordInv, Start, Enter
<1>1. EmitType' BY DEF EmitType, connVars
<1>2. DropInv' BY DEF DropInv
<1>3. Accounted' /\ RaiseIsTotal' BY DEF Accounted, RaiseIsTotal
<1>4. DroppedOnce' BY <1>2 DEF DroppedOnce, DropInv, EmitType
<1>5. RecordType' BY DEF RecordType
<1>6. CoverInv' /\ ApartInv' BY DEF CoverInv, ApartInv, All
<1>7. RequestInv' BY EmitAssumption DEF RequestInv, Begun
<1>8. BalanceInv' BY DEF BalanceInv
<1> QED BY <1>1, <1>2, <1>3, <1>4, <1>5, <1>6, <1>7, <1>8

LEMMA RefuseStep ==
  ASSUME CommonInv, RecordInv, Refuse, UNCHANGED recordVars
  PROVE  CommonInv' /\ RecordInv'
<1> USE DEF CommonInv, RecordInv, Refuse
<1>1. EmitType' BY DEF EmitType, sendVars
<1>2. DropInv' BY DEF DropInv
<1>3. Accounted' /\ RaiseIsTotal' BY DEF Accounted, RaiseIsTotal
<1>4. DroppedOnce' BY <1>2 DEF DroppedOnce, DropInv, EmitType
<1>5. RecordType' BY DEF RecordType, recordVars, localVars
<1>6. CoverInv' /\ ApartInv' /\ RequestInv' /\ BalanceInv'
  BY DEF CoverInv, ApartInv, RequestInv, BalanceInv
<1> QED BY <1>1, <1>2, <1>3, <1>4, <1>5, <1>6

\* Every sink divides the batch: what it sends, and what it leaves out.
LEMMA BeginDivides ==
  ASSUME EmitType, Begin
  PROVE  \/ Refuse /\ UNCHANGED recordVars
         \/ \E chunks_ \in Requests, drops \in SUBSET Events :
               Start(chunks_, drops) /\ All(chunks_) = Events \ drops
<1>1. /\ Encoded \in SUBSET Events /\ Unencodable = Events \ Encoded
      /\ Fitting \in SUBSET Encoded /\ Oversized = Encoded \ Fitting
  BY DEF Encoded, Unencodable, Fitting, Oversized
<1> DEFINE Divides(cs, ds) == cs \in Requests /\ ds \in SUBSET Events /\ All(cs) = Events \ ds
<1>2. \A S \in SUBSET Events : \A ds : ds = Events \ S =>
          /\ Divides(ChunkItems(S), ds) /\ Divides(ChunkList(S), ds)
          /\ Divides(Whole(S), ds) /\ Divides(Singles(S), ds)
  BY CutAll, WholeAll, SinglesAll DEF ChunkItems, ChunkList
<1>3. Events \ Fitting = Unencodable \cup Oversized /\ Events \ Encoded = Unencodable
  BY <1>1
<1>4. Divides(HubBatches(Encoded), Unencodable \cup Oversized)
  <2>1. {e \in Encoded : ~(load[e] > MaxRecord)} = Fitting
    <3>1. \A e \in Encoded : load[e] \in Nat BY <1>1 DEF EmitType
    <3> QED BY <3>1, RecordAssumption DEF Fitting
  <2> QED BY <1>1, <1>3, <2>1, HubBatchesAll
<1> SUFFICES \/ Refuse /\ UNCHANGED recordVars
             \/ \E cs, ds : Start(cs, ds) /\ Divides(cs, ds)
  OBVIOUS
<1> HIDE DEF Divides
<1>5. CASE KinesisEmit \/ FirehoseEmit \/ SnsEmit
  BY <1>1, <1>2, <1>3, <1>5
  DEF KinesisEmit, FirehoseEmit, SnsEmit, KinesisRecords, FirehoseRecords, SnsBodies
<1>6. CASE SqsEmit
  <2>1. PICK noId \in SUBSET Encoded : SqsChunks(noId) BY <1>6 DEF SqsEmit
  <2> DEFINE big == Oversized \ noId
             ok  == Fitting \ noId
  <2>2. CASE Start(ChunkItems(ok), Unencodable \cup big \cup noId)
    <3>1. ok \in SUBSET Events /\ Unencodable \cup big \cup noId = Events \ ok BY <1>1
    <3>2. Divides(ChunkItems(ok), Unencodable \cup big \cup noId) BY <1>2, <3>1
    <3> QED BY <2>2, <3>2
  <2> QED BY <2>1, <2>2 DEF SqsChunks
<1>7. CASE HubsEmit BY <1>4, <1>7 DEF HubsEmit
<1>8. CASE ClickHouseEmit \/ PostgresEmit \/ SqliteEmit \/ RedisEmit \/ RabbitEmit \/ FileEmit
  BY <1>1, <1>2, <1>3, <1>8
  DEF ClickHouseEmit, PostgresEmit, SqliteEmit, RedisEmit, RabbitEmit, FileEmit
<1>9. CASE MongoEmit BY <1>1, <1>2, <1>3, <1>9 DEF MongoEmit, MongoDocuments
<1>10. CASE SyslogEmit
  <2>1. kind = "udp" /\ Start(Singles(Fitting), Unencodable \cup Oversized)
    BY <1>10 DEF SyslogEmit, SendAll, Sendable
  <2> QED BY <1>1, <1>2, <1>3, <2>1
<1>11. CASE LogstashEmit
  <2>1. Start(Singles(Encoded), Unencodable) BY <1>11 DEF LogstashEmit, SendAll, Sendable
  <2> QED BY <1>1, <1>2, <1>3, <2>1
<1>12. CASE RefuseClosed BY <1>12 DEF RefuseClosed
<1> QED BY <1>5, <1>6, <1>7, <1>8, <1>9, <1>10, <1>11, <1>12 DEF Begin

LEMMA BeginStep ==
  ASSUME CommonInv, RecordInv, Begin
  PROVE  CommonInv' /\ RecordInv'
  BY BeginDivides, StartStep, RefuseStep DEF CommonInv

----------------------------------------------------------------------------
(* One call of the client                                                  *)

LEMMA NextRequestStep ==
  ASSUME CommonInv, RecordInv, NextRequest
  PROVE  CommonInv' /\ RecordInv'
<1> USE DEF CommonInv, RecordInv, NextRequest
<1>0. /\ todo \in Requests /\ todo # <<>> /\ call = "send" /\ entries = {}
      /\ Head(todo) \in SUBSET Events /\ Tail(todo) \in Requests
      /\ All(todo) = Head(todo) \cup All(Tail(todo))
  BY TailAll DEF RecordType
<1>1. EmitType' BY <1>0 DEF EmitType, callVars, lossVars, wireVars
<1>2. DropInv' /\ Accounted' /\ RaiseIsTotal' /\ DroppedOnce'
  BY <1>0 DEF DropInv, Accounted, RaiseIsTotal, DroppedOnce, callVars, lossVars, wireVars
<1>3. RecordType' BY <1>0, PartSize DEF RecordType
<1>4. CoverInv' BY <1>0 DEF CoverInv, callVars, lossVars, wireVars
<1>5. ApartInv' BY <1>0 DEF ApartInv, callVars, lossVars, wireVars
<1>6. RequestInv' BY <1>0, PartSize, EmitAssumption DEF RequestInv, Begun
<1>7. BalanceInv'
  <2>1. sent' = Cardinality(entries') /\ Cardinality(entries') \in Nat BY <1>0, PartSize
  <2>2. ~Begun /\ ~Begun' BY <1>0, <2>1 DEF Begun
  <2> QED BY <1>0, <2>2 DEF BalanceInv, callVars, lossVars, wireVars
<1> QED BY <1>1, <1>2, <1>3, <1>4, <1>5, <1>6, <1>7

\* What every call of a client amounts to: acc is acknowledged, left is tried again, lost is counted,
\* again was given up on.  The two cases of the flags are an answer that could be read and one that
\* could not.
Sent(acc, land, got, left, lost, again) ==
    /\ call = "send" /\ entries # {}
    /\ acc \in SUBSET entries /\ land \in SUBSET entries /\ left \in SUBSET entries
    /\ lost \in SUBSET Events /\ again \in SUBSET Events /\ got \in Nat
    /\ entries \subseteq acc \cup left \cup lost
    /\ Outcome(acc, land, got, left) /\ Lose(lost, again)
    /\ left # {} => attempt < MaxRetries
    /\ kind \notin Partial \cup {"sqs"} => left \in {{}, entries}
    /\ \/ decided' = decided /\ unknown' = unknown
       \/ decided' = decided \cup entries /\ unknown' = TRUE /\ kind \in Positional
    /\ recoverable' \in BOOLEAN /\ (recoverable => recoverable')
    /\ kind = "sqs" /\ again # {} => recoverable'

\* How delivered follows what was acknowledged: at once for SQS and for a request answered as a whole,
\* at the end of the request for the others.
Balanced(acc, got, left) ==
    /\ acc # {} => got > 0 \/ (kind \in Partial /\ left # {} /\ sent > Cardinality(left))
    /\ kind \in Partial /\ Begun =>
          got > 0 \/ (left # {} /\ sent > Cardinality(left)) \/ unknown'
    /\ got > 0 => acc # {} \/ (kind \in Partial /\ Begun)
    /\ kind \in Partial /\ left # {} /\ sent > Cardinality(left) => acc # {} \/ Begun

LEMMA SentStep ==
  ASSUME CommonInv, RecordInv, NEW acc, NEW land, NEW got, NEW left, NEW lost, NEW again,
         Sent(acc, land, got, left, lost, again), Balanced(acc, got, left)
  PROVE  CommonInv' /\ RecordInv'
<1> USE DEF CommonInv, RecordInv, Sent, Outcome, Lose
<1>0. /\ entries \in SUBSET Events /\ acc \in SUBSET Events /\ land \in SUBSET Events
      /\ left \in SUBSET Events /\ attempt \in Nat
  BY DEF EmitType
<1>1. EmitType'
  <2>1. attempt' \in Nat BY <1>0
  <2>2. delivered' \in Nat BY DEF EmitType
  <2>3. decided' \in SUBSET Events BY <1>0 DEF EmitType
  <2> QED BY <1>0, <2>1, <2>2, <2>3 DEF EmitType, callVars
<1>2. DropInv' /\ Accounted' /\ RaiseIsTotal' /\ DroppedOnce'
  BY DEF DropInv, Accounted, RaiseIsTotal, DroppedOnce, callVars
<1>3. RecordType' BY DEF RecordType
<1>4. CoverInv' BY DEF CoverInv, callVars
<1>5. ApartInv' BY DEF ApartInv, callVars
<1>6. Cardinality(left) \in Nat /\ Cardinality(left) <= Cardinality(entries)
      /\ Cardinality(entries) \in Nat /\ sent \in Nat /\ sent >= Cardinality(entries) /\ tried
  BY <1>0, PartSize DEF RequestInv, RecordType
<1>7. RequestInv'
  <2>1. call' = "send" /\ sent' = sent /\ tried' = tried /\ kind' = kind /\ entries' = left
    BY DEF callVars
  <2>2. attempt' <= MaxRetries BY <1>0, EmitAssumption
  <2>3. kind \in Partial /\ Begun' => acked' # {}
    <3>1. SUFFICES ASSUME kind \in Partial, left # {}, sent > Cardinality(left)
                   PROVE  acc # {} \/ acked # {}
      BY <2>1 DEF Begun
    <3>2. acc # {} \/ Begun BY <3>1 DEF Balanced
    <3> QED BY <3>1, <3>2 DEF RequestInv
  <2>4. left # {} /\ kind \notin Partial \cup {"sqs"} => sent = Cardinality(left)
    BY DEF RequestInv
  <2> QED BY <1>6, <2>1, <2>2, <2>3, <2>4 DEF RequestInv
<1>8. BalanceInv'
  <2>1. /\ call' = "send" /\ sent' = sent /\ tried' = tried /\ kind' = kind /\ entries' = left
        /\ delivered' = delivered + got /\ delivered \in Nat
        /\ acked' = acked \cup acc /\ abandoned' = abandoned \cup again
    BY DEF callVars, EmitType
  <2>2. Begun' <=> left # {} /\ sent > Cardinality(left) BY <2>1 DEF Begun
  <2>3. unknown => unknown' OBVIOUS
  <2>4. acked' # {} => delivered' > 0 \/ (kind' \in Partial /\ Begun') \/ unknown'
    <3>1. CASE acc # {} BY <2>1, <2>2, <3>1 DEF Balanced
    <3>2. CASE acked # {}
      <4>1. delivered > 0 \/ (kind \in Partial /\ Begun) \/ unknown BY <3>2 DEF BalanceInv
      <4>2. CASE delivered > 0 BY <2>1, <4>2
      <4>3. CASE kind \in Partial /\ Begun BY <2>1, <2>2, <4>3 DEF Balanced
      <4> QED BY <2>3, <4>1, <4>2, <4>3
    <3> QED BY <2>1, <3>1, <3>2
  <2>5. delivered' > 0 => acked' \cup decided' # {}
    <3>1. CASE delivered > 0 BY <2>1, <3>1 DEF BalanceInv
    <3>2. CASE got > 0
      <4>1. acc # {} \/ (kind \in Partial /\ Begun) BY <3>2 DEF Balanced
      <4> QED BY <2>1, <4>1 DEF RequestInv
    <3> QED BY <2>1, <3>1, <3>2
  <2>6. (unknown' <=> decided' # {}) /\ (unknown' => kind' \in Positional)
    BY <2>1 DEF BalanceInv, RecordType
  <2>7. kind' = "sqs" /\ abandoned' # {} => recoverable' BY <2>1 DEF BalanceInv
  <2> QED BY <1>6, <2>1, <2>4, <2>5, <2>6, <2>7 DEF BalanceInv
<1> QED BY <1>1, <1>2, <1>3, <1>4, <1>5, <1>7, <1>8

\* The request in hand, as the sinks see it when an answer comes.
InHand ==
    /\ call = "send" /\ entries # {} /\ entries \in SUBSET Events
    /\ attempt \in Nat /\ attempt <= MaxRetries
    /\ sent \in Nat /\ Cardinality(entries) \in Nat /\ Cardinality(entries) > 0
    /\ sent >= Cardinality(entries)
    /\ kind \notin Partial \cup {"sqs"} => sent = Cardinality(entries)
    /\ \A U \in SUBSET entries : /\ Cardinality(U) \in Nat /\ Cardinality(U) <= Cardinality(entries)
                                 /\ Cardinality(U) = Cardinality(entries) => U = entries
    /\ recoverable \in BOOLEAN
    /\ MayLand \subseteq SUBSET entries

LEMMA SendInHand ==
  ASSUME EmitType, RecordInv, call = "send", entries # {}
  PROVE  InHand
<1>1. entries \in SUBSET Events BY DEF EmitType
<1>2. /\ Cardinality(entries) \in Nat /\ Cardinality(entries) # 0
      /\ \A U \in SUBSET entries : /\ Cardinality(U) \in Nat
                                   /\ Cardinality(U) <= Cardinality(entries)
                                   /\ Cardinality(U) = Cardinality(entries) => U = entries
  BY <1>1, PartSize
<1>3. MayLand \subseteq SUBSET entries BY DEF MayLand
<1> QED BY <1>1, <1>2, <1>3 DEF InHand, EmitType, RecordInv, RecordType, RequestInv

SentBalanced ==
    \E acc, land, got, left, lost, again :
        Sent(acc, land, got, left, lost, again) /\ Balanced(acc, got, left)

\* A request that is given up on or tried again.
LEMMA RetrySent ==
  ASSUME InHand, NoFlags, kind # "sqs",
         NEW acc \in SUBSET entries, NEW land \in SUBSET entries, NEW got \in Nat,
         RetryOrGiveUp(acc, land, entries \ acc, got), entries \ acc # {},
         kind \notin Partial => acc = {} /\ got = 0,
         kind \in Partial => got = sent - Cardinality(entries \ acc)
  PROVE  SentBalanced
<1> DEFINE left == entries \ acc
<1>1. left \in SUBSET entries /\ left # {} OBVIOUS
<1> HIDE DEF left
<1>2. Cardinality(left) \in Nat /\ Cardinality(left) <= Cardinality(entries)
      /\ (acc # {} => Cardinality(left) < Cardinality(entries))
  BY <1>1 DEF InHand, left
<1>5. acc = {} => left = entries BY DEF left
<1>6. kind \in Partial => got = sent - Cardinality(left) BY DEF left
<1>3. CASE attempt < MaxRetries
  <2>1. Outcome(acc, land, 0, left) /\ Lose({}, {}) BY <1>3 DEF RetryOrGiveUp, left
  <2>2. Sent(acc, land, 0, left, {}, {}) BY <1>1, <1>3, <2>1 DEF Sent, InHand, NoFlags, left, Partial
  <2>3. Balanced(acc, 0, left) BY <1>1, <1>2, <1>5 DEF Balanced, InHand, Begun
  <2> QED BY <2>2, <2>3 DEF SentBalanced
<1>4. CASE ~(attempt < MaxRetries)
  <2>1. Outcome(acc, land, got, {}) /\ Lose(Charge(left), left) BY <1>4 DEF RetryOrGiveUp, left
  <2>2. left \subseteq Charge(left) /\ Charge(left) \in SUBSET Events
    BY <1>1 DEF Charge, InHand
  <2>3. Sent(acc, land, got, {}, Charge(left), left)
    BY <1>1, <2>1, <2>2 DEF Sent, InHand, NoFlags, left
  <2>4. Balanced(acc, got, {}) BY <1>1, <1>2, <1>5, <1>6 DEF Balanced, InHand, Begun
  <2> QED BY <2>3, <2>4 DEF SentBalanced
<1> QED BY <1>3, <1>4 DEF InHand

\* A request that is acknowledged whole.
LEMMA WholeSent ==
  ASSUME InHand, NoFlags, NEW got \in Nat, got > 0, Outcome(entries, {}, got, {}), Lose({}, {})
  PROVE  SentBalanced
<1>1. Sent(entries, {}, got, {}, {}, {}) BY DEF Sent, InHand, NoFlags
<1>2. Balanced(entries, got, {}) BY DEF Balanced, InHand
<1> QED BY <1>1, <1>2 DEF SentBalanced

\* A request that is given up on at once.
LEMMA GivenUpSent ==
  ASSUME InHand, NoFlags, kind \notin Partial \cup {"sqs"}, NEW land \in SUBSET entries,
         NEW lost \in SUBSET Events, entries \subseteq lost,
         Outcome({}, land, 0, {}), Lose(lost, entries)
  PROVE  SentBalanced
<1>1. Sent({}, land, 0, {}, lost, entries) BY DEF Sent, InHand, NoFlags
<1>2. Balanced({}, 0, {}) BY DEF Balanced, InHand
<1> QED BY <1>1, <1>2 DEF SentBalanced

LEMMA VerdictsSent ==
  ASSUME InHand, kind \in Partial, NoFlags,
         \/ Outcome(entries, {}, sent, {}) /\ Lose({}, {})
         \/ \E land \in MayLand : RetryOrGiveUp({}, land, entries, sent - Cardinality(entries))
         \/ \E bad \in (SUBSET entries) \ {{}} :
               RetryOrGiveUp(entries \ bad, {}, bad, sent - Cardinality(bad))
  PROVE  SentBalanced
<1>0. kind # "sqs" BY DEF Partial
<1>1. CASE Outcome(entries, {}, sent, {}) /\ Lose({}, {}) BY <1>1, WholeSent DEF InHand
<1>2. ASSUME NEW land \in MayLand, RetryOrGiveUp({}, land, entries, sent - Cardinality(entries))
      PROVE  SentBalanced
  <2>1. entries \ {} = entries /\ sent - Cardinality(entries) \in Nat
        /\ land \in SUBSET entries /\ {} \in SUBSET entries
    BY DEF InHand
  <2>2. entries \ {} # {} BY DEF InHand
  <2>3. RetryOrGiveUp({}, land, entries \ {}, sent - Cardinality(entries \ {})) BY <1>2, <2>1
  <2>4. sent - Cardinality(entries \ {}) \in Nat BY <2>1
  <2> QED BY <1>0, <2>1, <2>2, <2>3, <2>4, RetrySent
<1>3. ASSUME NEW bad \in (SUBSET entries) \ {{}},
             RetryOrGiveUp(entries \ bad, {}, bad, sent - Cardinality(bad))
      PROVE  SentBalanced
  <2>1. entries \ (entries \ bad) = bad /\ bad # {}
    <3>1. bad \subseteq entries /\ bad # {} OBVIOUS
    <3>2. \A x : x \in entries \ (entries \ bad) <=> x \in bad BY <3>1
    <3> QED BY <3>1, <3>2
  <2>2. sent - Cardinality(bad) \in Nat BY DEF InHand
  <2>3. entries \ bad \in SUBSET entries /\ {} \in SUBSET entries OBVIOUS
  <2> QED BY <1>0, <1>3, <2>1, <2>2, <2>3, RetrySent
<1> QED BY <1>1, <1>2, <1>3

LEMMA PositionalSent ==
  ASSUME InHand, kind \in Positional, PositionalSend
  PROVE  SentBalanced
<1>0. kind \in Partial BY DEF Positional, Partial
<1>1. CASE Unadjudicated
  <2>1. PICK land \in MayLand : Outcome({}, land, 0, {}) /\ Lose(entries, entries)
    BY <1>1 DEF Unadjudicated
  <2>2. decided' = decided \cup entries /\ unknown' = TRUE /\ recoverable' = recoverable
    BY <1>1 DEF Unadjudicated
  <2>3. Sent({}, land, 0, {}, entries, entries) BY <1>0, <2>1, <2>2 DEF Sent, InHand, Partial
  <2>4. Balanced({}, 0, {}) BY <2>2 DEF Balanced
  <2> QED BY <2>3, <2>4 DEF SentBalanced
<1>2. CASE ~Unadjudicated BY <1>0, <1>2, VerdictsSent DEF PositionalSend
<1> QED BY <1>1, <1>2

LEMMA WholeSendSent ==
  ASSUME InHand, kind \notin Partial \cup {"sqs"}, WholeSend
  PROVE  SentBalanced
<1>1. NoFlags BY DEF WholeSend
<1>2. CASE Outcome(entries, {}, 1, {}) /\ Lose({}, {}) BY <1>1, <1>2, WholeSent
<1>3. ASSUME NEW land \in MayLand, RetryOrGiveUp({}, land, entries, 0) PROVE SentBalanced
  <2>1. entries \ {} = entries /\ {} \in SUBSET entries /\ 0 \in Nat /\ land \in SUBSET entries
    BY DEF InHand
  <2>2. kind # "sqs" /\ kind \notin Partial OBVIOUS
  <2>3. entries \ {} # {} BY DEF InHand
  <2>4. RetryOrGiveUp({}, land, entries \ {}, 0) BY <1>3, <2>1
  <2> QED BY <1>1, <2>1, <2>2, <2>3, <2>4, RetrySent
<1> QED BY <1>2, <1>3 DEF WholeSend

LEMMA SqsSent ==
  ASSUME InHand, SqsSend
  PROVE  SentBalanced
<1>0. kind = "sqs" /\ kind \notin Partial /\ unknown' = unknown /\ decided' = decided
  BY DEF SqsSend, Sending, SqsAnswer, NoFlags, Partial
<1>1. ASSUME NEW faults \in SUBSET entries, NEW slow \in SUBSET (entries \ faults),
             SqsAnswer(faults, slow)
      PROVE  SentBalanced
  <2> DEFINE acc == entries \ (faults \cup slow)
  <2>1. acc \in SUBSET entries /\ slow \in SUBSET entries /\ faults \in SUBSET Events
        /\ entries \subseteq acc \cup slow \cup faults
    BY DEF InHand
  <2>2. Cardinality(acc) \in Nat /\ (acc # {} <=> Cardinality(acc) > 0)
    <3>1. acc \in SUBSET Events BY DEF InHand
    <3> HIDE DEF acc
    <3> QED BY <3>1, PartSize
  <2>3. CASE slow = {} \/ attempt < MaxRetries
    <3>1. Outcome(acc, {}, Cardinality(acc), slow) /\ Lose(faults, {}) /\ NoFlags
      BY <1>1, <2>3 DEF SqsAnswer
    <3> HIDE DEF acc
    <3>2. Sent(acc, {}, Cardinality(acc), slow, faults, {})
      BY <1>0, <2>1, <2>2, <2>3, <3>1 DEF Sent, InHand, NoFlags
    <3>3. Balanced(acc, Cardinality(acc), slow) BY <1>0, <2>2 DEF Balanced
    <3> QED BY <3>2, <3>3 DEF SentBalanced
  <2>4. CASE ~(slow = {} \/ attempt < MaxRetries)
    <3>1. Outcome(acc, {}, Cardinality(acc), {}) /\ Lose(faults \cup slow, slow)
          /\ recoverable' = TRUE
      BY <1>1, <2>4 DEF SqsAnswer
    <3>2. slow \in SUBSET Events /\ faults \cup slow \in SUBSET Events
          /\ entries \subseteq acc \cup {} \cup (faults \cup slow)
      BY <2>1 DEF InHand
    <3> HIDE DEF acc
    <3>3. Sent(acc, {}, Cardinality(acc), {}, faults \cup slow, slow)
      BY <1>0, <2>1, <2>2, <3>1, <3>2 DEF Sent, InHand
    <3>4. Balanced(acc, Cardinality(acc), {}) BY <1>0, <2>2 DEF Balanced
    <3> QED BY <3>3, <3>4 DEF SentBalanced
  <2> QED BY <2>3, <2>4
<1>2. ASSUME NEW land \in MayLand, RetryOrGiveUp({}, land, entries, 0),
             recoverable' = (recoverable \/ attempt = MaxRetries)
      PROVE  SentBalanced
  <2>1. land \in SUBSET entries BY DEF InHand
  <2>2. Balanced({}, 0, entries) /\ Balanced({}, 0, {}) BY <1>0 DEF Balanced
  <2>3. CASE attempt < MaxRetries
    <3>1. Outcome({}, land, 0, entries) /\ Lose({}, {}) BY <1>2, <2>3 DEF RetryOrGiveUp
    <3>2. recoverable' \in BOOLEAN /\ (recoverable => recoverable') BY <1>2 DEF InHand
    <3>3. Sent({}, land, 0, entries, {}, {})
      BY <1>0, <2>1, <2>3, <3>1, <3>2 DEF Sent, InHand
    <3> QED BY <2>2, <3>3 DEF SentBalanced
  <2>4. CASE ~(attempt < MaxRetries)
    <3>1. Outcome({}, land, 0, {}) /\ Lose(entries, entries)
      BY <1>0, <1>2, <2>4 DEF RetryOrGiveUp, Charge
    <3>2. attempt = MaxRetries BY <2>4, EmitAssumption DEF InHand
    <3>3. recoverable' = TRUE BY <1>2, <3>2
    <3>4. Sent({}, land, 0, {}, entries, entries)
      BY <1>0, <2>1, <3>1, <3>3 DEF Sent, InHand
    <3> QED BY <2>2, <3>4 DEF SentBalanced
  <2> QED BY <2>3, <2>4
<1> QED BY <1>1, <1>2 DEF SqsSend

LEMMA SqliteSent ==
  ASSUME InHand, SqliteSend \/ FileSend
  PROVE  SentBalanced
<1>0. kind \notin Partial \cup {"sqs"} /\ NoFlags /\ entries \subseteq Events
  BY DEF SqliteSend, FileSend, Sending, Partial, InHand
<1>1. CASE Outcome(entries, {}, 1, {}) /\ Lose({}, {}) BY <1>0, <1>1, WholeSent
<1>2. ASSUME NEW land \in SUBSET entries, Outcome({}, land, 0, {}), Lose(Events, entries)
      PROVE  SentBalanced
  BY <1>0, <1>2, GivenUpSent
<1>3. MayLand \subseteq SUBSET entries BY DEF InHand
<1>4. \A n \in 0..Len(InOrder(entries)) : {InOrder(entries)[i] : i \in 1..n} \in SUBSET entries
  <2>1. InOrder(entries) \in Seq(Events) /\ ToSet(InOrder(entries)) = entries
    BY InOrderLists DEF InHand
  <2> DEFINE q == InOrder(entries)
  <2> HIDE DEF q
  <2>2. q \in Seq(Events) /\ ToSet(q) = entries BY <2>1 DEF q
  <2>3. \A n \in 0..Len(q) : \A i \in 1..n : i \in DOMAIN q BY <2>2
  <2>4. \A n \in 0..Len(q) : {q[i] : i \in 1..n} \in SUBSET entries BY <2>2, <2>3 DEF ToSet
  <2> QED BY <2>4 DEF q
<1>5. CASE SqliteSend BY <1>1, <1>2, <1>3, <1>5 DEF SqliteSend
<1>6. CASE FileSend BY <1>1, <1>2, <1>4, <1>6 DEF FileSend
<1> QED BY <1>5, <1>6

LEMMA MongoSent ==
  ASSUME InHand, MongoSend
  PROVE  SentBalanced
<1>0. kind = "mongodb" /\ kind \notin Partial \cup {"sqs"} /\ NoFlags
  BY DEF MongoSend, Sending, Partial
<1>1. CASE Outcome(entries, {}, sent, {}) /\ Lose({}, {})
  BY <1>0, <1>1, WholeSent DEF InHand
<1>2. ASSUME NEW rejects \in (SUBSET entries) \ {{}},
             Outcome(entries \ rejects, {}, sent - Cardinality(rejects), {}), Lose(rejects, rejects)
      PROVE  SentBalanced
  <2> DEFINE acc == entries \ rejects
             got == sent - Cardinality(rejects)
  <2>1. acc \in SUBSET entries /\ rejects \in SUBSET Events
        /\ entries \subseteq acc \cup {} \cup rejects
    BY DEF InHand
  <2>2. got \in Nat /\ (got > 0 <=> acc # {})
    <3>1. /\ Cardinality(rejects) \in Nat /\ Cardinality(rejects) <= Cardinality(entries)
          /\ Cardinality(rejects) = Cardinality(entries) => rejects = entries
          /\ sent = Cardinality(entries) /\ sent \in Nat
      BY <1>0 DEF InHand
    <3>2. Cardinality(rejects) = Cardinality(entries) <=> acc = {} BY <3>1
    <3> HIDE DEF acc
    <3> QED BY <3>1, <3>2
  <2>3. Outcome(acc, {}, got, {}) BY <1>2
  <2> HIDE DEF acc, got
  <2>4. Sent(acc, {}, got, {}, rejects, rejects)
    BY <1>0, <1>2, <2>1, <2>2, <2>3 DEF Sent, InHand, NoFlags
  <2>5. Balanced(acc, got, {}) BY <1>0, <2>2 DEF Balanced
  <2> QED BY <2>4, <2>5 DEF SentBalanced
<1>3. ASSUME NEW land \in MayLand, RetryOrGiveUp({}, land, entries, 0) PROVE SentBalanced
  <2>1. entries \ {} = entries /\ {} \in SUBSET entries /\ 0 \in Nat /\ land \in SUBSET entries
    BY DEF InHand
  <2>2. kind # "sqs" /\ kind \notin Partial BY <1>0
  <2>3. entries \ {} # {} BY DEF InHand
  <2>4. RetryOrGiveUp({}, land, entries \ {}, 0) BY <1>3, <2>1
  <2> QED BY <1>0, <2>1, <2>2, <2>3, <2>4, RetrySent
<1> QED BY <1>1, <1>2, <1>3 DEF MongoSend

LEMMA ConnSent ==
  ASSUME InHand, NEW Open, NEW permanent, ConnSend(Open, permanent), kind \notin Partial \cup {"sqs"}
  PROVE  SentBalanced
<1>0. NoFlags BY DEF ConnSend
<1>1. CASE Outcome(entries, {}, 1, {}) /\ Lose({}, {}) BY <1>0, <1>1, WholeSent
<1>2. ASSUME NEW land \in SUBSET entries, RetryOrGiveUp({}, land, entries, 0) PROVE SentBalanced
  <2>1. entries \ {} = entries /\ {} \in SUBSET entries /\ 0 \in Nat OBVIOUS
  <2>2. kind # "sqs" /\ kind \notin Partial OBVIOUS
  <2>3. entries \ {} # {} BY DEF InHand
  <2>4. RetryOrGiveUp({}, land, entries \ {}, 0) BY <1>2, <2>1
  <2> QED BY <1>0, <2>1, <2>2, <2>3, <2>4, RetrySent
<1>3. CASE Outcome({}, {}, 0, {}) /\ Lose(entries, entries)
  <2>1. {} \in SUBSET entries /\ entries \in SUBSET Events /\ entries \subseteq entries BY DEF InHand
  <2> QED BY <1>0, <1>3, <2>1, GivenUpSent
<1>4. MayLand \subseteq SUBSET entries /\ {} \in SUBSET entries BY DEF InHand
<1> QED BY <1>1, <1>2, <1>3, <1>4 DEF ConnSend

LEMMA SendStep ==
  ASSUME CommonInv, RecordInv, Send
  PROVE  CommonInv' /\ RecordInv'
<1>1. call = "send" /\ entries # {}
  BY DEF Send, KinesisSend, FirehoseSend, SnsSend, SqsSend, HubsSend, ClickHouseSend, RedisSend,
         SqliteSend, FileSend, MongoSend, PostgresSend, RabbitSend, SendOneTcp, SendOneUdp, Sending
<1>2. InHand BY <1>1, SendInHand DEF CommonInv
<1>3. SentBalanced
  <2>1. CASE KinesisSend \/ FirehoseSend
    <3>1. kind \in Positional /\ PositionalSend
      BY <2>1 DEF KinesisSend, FirehoseSend, Sending, Positional
    <3> QED BY <1>2, <3>1, PositionalSent
  <2>2. CASE SnsSend
    <3>1. kind \in Partial BY <2>2 DEF SnsSend, Sending, Partial
    <3> QED BY <1>2, <2>2, <3>1, VerdictsSent DEF SnsSend
  <2>3. CASE SqsSend BY <1>2, <2>3, SqsSent
  <2>4. CASE HubsSend \/ ClickHouseSend \/ RedisSend
    <3>1. WholeSend /\ kind \notin Partial \cup {"sqs"}
      BY <2>4 DEF HubsSend, ClickHouseSend, RedisSend, Sending, Partial
    <3> QED BY <1>2, <3>1, WholeSendSent
  <2>5. CASE SqliteSend \/ FileSend BY <1>2, <2>5, SqliteSent
  <2>6. CASE MongoSend BY <1>2, <2>6, MongoSent
  <2>7. CASE PostgresSend \/ RabbitSend \/ SendOneTcp \/ SendOneUdp
    <3>1. kind \notin Partial \cup {"sqs"}
      BY <2>7 DEF PostgresSend, RabbitSend, SendOneTcp, SendOneUdp, Sending, Partial
    <3>2. \/ ConnSend(ReconnectIfBroken, FALSE) \/ ConnSend(ActiveChannel, FALSE)
          \/ ConnSend(TheSocket, TRUE)
      BY <2>7 DEF PostgresSend, RabbitSend, SendOneTcp, SendOneUdp
    <3> QED BY <1>2, <3>1, <3>2, ConnSent
  <2> QED BY <2>1, <2>2, <2>3, <2>4, <2>5, <2>6, <2>7 DEF Send
<1>4. PICK acc, land, got, left, lost, again :
           Sent(acc, land, got, left, lost, again) /\ Balanced(acc, got, left)
  BY <1>3 DEF SentBalanced
<1> QED BY <1>4, SentStep

----------------------------------------------------------------------------
(* The end of a call, and what goes on between two                         *)

LEMMA FinishStep ==
  ASSUME CommonInv, RecordInv, Finish
  PROVE  CommonInv' /\ RecordInv'
<1> USE DEF CommonInv, RecordInv, Finish, Exit
<1>0. /\ call = "send" /\ entries = {} /\ todo = <<>> /\ All(todo) = {}
      /\ call' = IF Raises THEN "raised" ELSE "returned"
      /\ \A e \in Events : dropped[e] = 0
  BY NoneAll DEF DropInv
<1>1. dropped' \in [Events -> Nat] /\ \A e \in Events :
          dropped'[e] = IF ~Raises /\ e \in pending THEN 1 ELSE 0
  <2>1. CASE Raises BY <1>0, <2>1 DEF EmitType
  <2>2. CASE ~Raises
    <3>1. dropped' = [e \in Events |-> dropped[e] + IF e \in pending THEN 1 ELSE 0] BY <1>0, <2>2
    <3>2. dropped' = [e \in Events |-> IF e \in pending THEN 1 ELSE 0] BY <1>0, <3>1
    <3> QED BY <2>2, <3>2
  <2> QED BY <2>1, <2>2
<1>2. UNCHANGED <<kind, load, emits, entries, attempt, delivered, failed, acked, decided, landed,
                  stored, abandoned, declined>>
  BY DEF sendVars, wireVars
<1>3. EmitType' BY <1>0, <1>1, <1>2 DEF EmitType
<1>4. DropInv' BY <1>0, <1>1 DEF DropInv
<1>5. Accounted'
  <2>1. SUFFICES ASSUME ~Raises, NEW e \in Events
                 PROVE  e \in stored \cup landed \/ e \in failed \/ dropped'[e] > 0
    BY <1>0, <1>2 DEF Accounted, Losses
  <2> QED BY <1>0, <1>1, <2>1 DEF CoverInv
<1>6. RaiseIsTotal'
  <2>0. ~Begun BY <1>0 DEF Begun
  <2>1. CASE Raises
    <3>1. delivered = 0 /\ (kind \in Positional => ~unknown) BY <2>1 DEF Raises, Positional
    <3>2. acked \cup decided = {} BY <1>0, <2>0, <3>1 DEF BalanceInv
    <3> QED BY <1>0, <1>2, <2>1, <3>2 DEF RaiseIsTotal
  <2>2. CASE ~Raises
    <3>1. SUFFICES ASSUME acked \cup decided = {} PROVE abandoned = {}
      BY <1>0, <1>2, <2>2 DEF RaiseIsTotal
    <3>2. delivered = 0 /\ ~unknown BY <1>0, <3>1 DEF BalanceInv, EmitType
    <3> QED BY <1>0, <2>2, <3>2 DEF BalanceInv, Raises
  <2> QED BY <2>1, <2>2
<1>7. DroppedOnce' BY <1>0, <1>1, <1>2 DEF DroppedOnce, ApartInv
<1>8. RecordInv'
  BY <1>0 DEF RecordType, CoverInv, ApartInv, RequestInv, BalanceInv, recordVars, localVars
<1> QED BY <1>3, <1>4, <1>5, <1>6, <1>7, <1>8

LEMMA EscapeStep ==
  ASSUME CommonInv, RecordInv, Escape
  PROVE  CommonInv' /\ RecordInv'
<1> USE DEF CommonInv, RecordInv, Escape, Exit
<1>1. EmitType' BY DEF EmitType, MayLand
<1>2. DropInv' BY DEF DropInv
<1>3. Accounted' /\ RaiseIsTotal' BY DEF Accounted, RaiseIsTotal
<1>4. DroppedOnce' BY <1>2 DEF DroppedOnce, DropInv, EmitType
<1>5. RecordType' BY NoneAll DEF RecordType
<1>6. CoverInv' /\ ApartInv' /\ RequestInv' /\ BalanceInv'
  BY DEF CoverInv, ApartInv, RequestInv, BalanceInv
<1> QED BY <1>1, <1>2, <1>3, <1>4, <1>5, <1>6

\* Another emit() of the batch, whichever the sink.
LEMMA RetryStep ==
  ASSUME CommonInv, Retry
  PROVE  CommonInv' /\ call' = "idle"
<1> USE DEF CommonInv, Retry
<1>1. EmitType' BY DEF EmitType, sendVars, lossVars
<1>2. DropInv' BY DEF DropInv, lossVars
<1>3. Accounted' /\ RaiseIsTotal' BY DEF Accounted, RaiseIsTotal
<1>4. DroppedOnce' BY <1>2 DEF DroppedOnce, DropInv, EmitType
<1> QED BY <1>1, <1>2, <1>3, <1>4

LEMMA WorkerRetryStep ==
  ASSUME CommonInv, RecordInv, WorkerRetry
  PROVE  CommonInv' /\ RecordInv'
<1>1. CommonInv' /\ call' = "idle" BY RetryStep DEF WorkerRetry
<1>2. RecordType' BY DEF RecordInv, RecordType, WorkerRetry, recordVars, localVars
<1>3. CoverInv' /\ ApartInv' /\ RequestInv' /\ BalanceInv'
  BY <1>1 DEF CoverInv, ApartInv, RequestInv, BalanceInv
<1> QED BY <1>1, <1>2, <1>3 DEF RecordInv

\* What the server does to a connection, and close(), leave a call as it is.
LEMMA AsideStep ==
  ASSUME CommonInv, RecordInv, UNCHANGED <<emitVars, localVars>>
  PROVE  CommonInv' /\ RecordInv'
<1> USE DEF emitVars, callVars, sendVars, lossVars, wireVars, localVars
<1>1. EmitType' BY DEF CommonInv, EmitType
<1>2. DropInv' /\ Accounted' /\ RaiseIsTotal' /\ DroppedOnce'
  BY DEF CommonInv, DropInv, Accounted, RaiseIsTotal, DroppedOnce, Losses
<1>3. RecordType' /\ CoverInv' /\ ApartInv' BY DEF RecordInv, RecordType, CoverInv, ApartInv
<1>4. RequestInv' /\ BalanceInv' BY DEF RecordInv, RequestInv, BalanceInv, Begun
<1> QED BY <1>1, <1>2, <1>3, <1>4 DEF CommonInv, RecordInv

LEMMA RecordNextStep ==
  ASSUME CommonInv, RecordInv, RecordNext
  PROVE  CommonInv' /\ RecordInv'
<1>1. CASE Begin BY <1>1, BeginStep
<1>2. CASE NextRequest BY <1>2, NextRequestStep
<1>3. CASE Send BY <1>3, SendStep
<1>4. CASE Finish BY <1>4, FinishStep
<1>5. CASE Escape BY <1>5, EscapeStep
<1>6. CASE WorkerRetry BY <1>6, WorkerRetryStep
<1>7. CASE Break
  <2>1. UNCHANGED <<emitVars, localVars>> BY <1>7 DEF Break
  <2> QED BY <2>1, AsideStep
<1>8. CASE Close
  <2>1. UNCHANGED <<emitVars, localVars>>
    BY <1>8 DEF Close, HubsClose, ClickHouseClose, PostgresClose, SqliteClose, MongoClose,
                RedisClose, RabbitClose, TransportClose, FileClose, CloseSink
  <2> QED BY <2>1, AsideStep
<1> QED BY <1>1, <1>2, <1>3, <1>4, <1>5, <1>6, <1>7, <1>8 DEF RecordNext, RecordStep

----------------------------------------------------------------------------
(* Connections                                                             *)

\* A sink that owns a connection the server has dropped has not paid for it yet.
ConnInv ==
    /\ breaks \in Nat /\ wasted \in Nat
    /\ StaleConnection
    /\ owned /\ conn = "dead" => wasted < breaks

LEMMA ConnSendConn ==
  ASSUME ConnInv, NEW permanent, ConnSend(Opened, permanent), UNCHANGED breaks
  PROVE  ConnInv'
<1>0. owned' = owned BY DEF ConnSend, RetryOrGiveUp, Outcome
<1>1. PICK c \in Opened :
          \/ c = "up" /\ conn' = c /\ UNCHANGED wasted
          \/ /\ conn' \in Failed(c)
             /\ wasted' = IF owned /\ c = "dead" THEN wasted + 1 ELSE wasted
  BY DEF ConnSend
<1>2. c = "dead" => conn = "dead" BY DEF Opened
<1>3. owned /\ conn' \in Failed(c) => conn' # "dead" BY DEF Failed, MarkBroken, RabbitReset, Reset
<1> QED BY <1>0, <1>1, <1>2, <1>3 DEF ConnInv, StaleConnection

LEMMA ConnStep ==
  ASSUME ConnInv, RecordNext
  PROVE  ConnInv'
<1>1. CASE UNCHANGED <<owned, connVars>> BY <1>1 DEF ConnInv, StaleConnection, connVars
<1>2. CASE Begin
  <2>1. UNCHANGED <<owned, connVars>>
    BY <1>2 DEF Begin, KinesisEmit, FirehoseEmit, SnsEmit, SqsEmit, SqsChunks, HubsEmit,
                ClickHouseEmit, PostgresEmit, SqliteEmit, MongoEmit, RedisEmit, RabbitEmit,
                SyslogEmit, LogstashEmit, SendAll, FileEmit, RefuseClosed, Start, recordVars
  <2> QED BY <1>1, <2>1
<1>3. CASE NextRequest \/ Finish \/ Escape \/ WorkerRetry
  <2>1. UNCHANGED <<owned, connVars>> BY <1>3 DEF NextRequest, Finish, Escape, WorkerRetry, recordVars
  <2> QED BY <1>1, <2>1
<1>4. CASE Send
  <2>1. CASE PostgresSend \/ RabbitSend \/ SendOneTcp \/ SendOneUdp
    <3>1. \E permanent : ConnSend(Opened, permanent) /\ UNCHANGED breaks
      BY <2>1 DEF PostgresSend, RabbitSend, SendOneTcp, SendOneUdp, ReconnectIfBroken,
                  ActiveChannel, TheSocket
    <3> QED BY <3>1, ConnSendConn
  <2>2. CASE ~(PostgresSend \/ RabbitSend \/ SendOneTcp \/ SendOneUdp)
    <3>1. UNCHANGED connVars
      BY <1>4, <2>2 DEF Send, KinesisSend, FirehoseSend, SnsSend, SqsSend, HubsSend, ClickHouseSend,
                        RedisSend, SqliteSend, FileSend, MongoSend, WholeSend
    <3>2. owned' = owned
      BY <1>4, <2>2 DEF Send, KinesisSend, FirehoseSend, SnsSend, SqsSend, HubsSend, ClickHouseSend,
                        RedisSend, SqliteSend, FileSend, MongoSend, WholeSend, PositionalSend,
                        Unadjudicated, SqsAnswer, RetryOrGiveUp, Outcome
    <3> QED BY <1>1, <3>1, <3>2
  <2> QED BY <2>1, <2>2
<1>5. CASE Break BY <1>5 DEF Break, ConnInv, StaleConnection
<1>6. CASE Close
  <2>1. UNCHANGED <<owned, connVars>>
    BY <1>6 DEF Close, HubsClose, ClickHouseClose, PostgresClose, SqliteClose, MongoClose,
                RedisClose, RabbitClose, TransportClose, FileClose, CloseSink
  <2> QED BY <1>1, <2>1
<1> QED BY <1>2, <1>3, <1>4, <1>5, <1>6 DEF RecordNext, RecordStep

----------------------------------------------------------------------------
(* HTTP: sizes                                                             *)

\* f sums the weights w of the events of S, one event after the other.
Summing(f, w, S) ==
    /\ f \in [0..Size -> Nat] /\ f[0] = 0 /\ Weigh(w, S) = f[Size]
    /\ \A n \in 1..Size : f[n] = f[n - 1] + IF n \in S THEN w[n] ELSE 0

\* Weigh as its equations.
LEMMA WeighCounts ==
  ASSUME NEW w \in [Events -> Nat], NEW S \in SUBSET Events
  PROVE  \E f : Summing(f, w, S)
<1> DEFINE Rec(g) == g = [n \in 0..Size |->
                       IF n = 0 THEN 0 ELSE g[n - 1] + IF n \in S THEN w[n] ELSE 0]
           g == CHOOSE g : Rec(g)
<1>0. Size \in Nat /\ \A n \in 1..Size : w[n] \in Nat BY EventsFinite DEF Events
<1>1. \E h : Rec(h) /\ h \in [0..Size -> Nat]
  <2> DEFINE step == [n \in 1..Size |-> [r \in Nat |-> r + IF n \in S THEN w[n] ELSE 0]]
  <2>1. \A n \in 1..Size, r \in Nat : step[n][r] = r + IF n \in S THEN w[n] ELSE 0 OBVIOUS
  <2>2. step \in Steps(Size, Nat)
    <3>1. \A n \in 1..Size, r \in Nat : (r + IF n \in S THEN w[n] ELSE 0) \in Nat BY <1>0
    <3> QED BY <3>1 DEF Steps
  <2> HIDE DEF step
  <2>3. PICK f : Iterates(f, Size, Nat, 0, step) BY <1>0, <2>2, RecursionExists
  <2>4. f \in [0..Size -> Nat] /\ f[0] = 0 /\ \A n \in 1..Size : f[n] = step[n][f[n - 1]]
    BY <2>3 DEF Iterates
  <2>5. ASSUME NEW n \in 0..Size
        PROVE  f[n] = IF n = 0 THEN 0 ELSE f[n - 1] + IF n \in S THEN w[n] ELSE 0
    <3>1. CASE n = 0 BY <2>4, <3>1
    <3>2. CASE n # 0
      <4>1. n \in 1..Size /\ n - 1 \in 0..Size BY <1>0, <3>2
      <4>2. f[n - 1] \in Nat BY <2>4, <4>1
      <4> QED BY <2>1, <2>4, <3>2, <4>1, <4>2
    <3> QED BY <3>1, <3>2
  <2>6. f = [n \in 0..Size |-> f[n]] BY <2>4
  <2>7. Rec(f) BY <2>5, <2>6
  <2> HIDE DEF Rec
  <2> QED BY <2>4, <2>7
<1>2. Rec(g)
  <2> HIDE DEF Rec
  <2> QED BY <1>1
<1>3. Weigh(w, S) = g[Size] BY Zenon DEF Weigh
<1> HIDE DEF g
<1>4. g[0] = 0 BY <1>0, <1>2
<1>5. ASSUME NEW n \in 1..Size PROVE g[n] = g[n - 1] + IF n \in S THEN w[n] ELSE 0
  <2>1. n \in 0..Size /\ n # 0 BY <1>0
  <2> QED BY <1>2, <2>1
<1> DEFINE U == {n \in 0..Size : g[n] \in Nat}
<1>6. 0 \in U BY <1>0, <1>4
<1>7. ASSUME NEW n \in 1..Size, n - 1 \in U PROVE n \in U
  <2>1. g[n - 1] \in Nat /\ n \in 0..Size BY <1>0, <1>7
  <2> QED BY <1>0, <1>5, <2>1
<1> HIDE DEF U
<1>8. 0..Size \subseteq U BY <1>0, <1>6, <1>7, BoundedInduction
<1>9. g \in [0..Size -> Nat]
  <2>1. \A n \in 0..Size : g[n] \in Nat BY <1>8 DEF U
  <2>2. DOMAIN g = 0..Size /\ g = [n \in 0..Size |-> g[n]] BY <1>2
  <2> QED BY <2>1, <2>2
<1> QED BY <1>3, <1>4, <1>5, <1>9 DEF Summing

LEMMA WeighType ==
  ASSUME NEW w \in [Events -> Nat], NEW S \in SUBSET Events
  PROVE  Weigh(w, S) \in Nat
<1>1. PICK f : Summing(f, w, S) BY WeighCounts
<1>2. Size \in 0..Size BY EventsFinite
<1> QED BY <1>1, <1>2 DEF Summing

\* One event weighs what its weight is.
LEMMA WeighSingle ==
  ASSUME NEW w \in [Events -> Nat], NEW x \in Events
  PROVE  Weigh(w, {x}) = w[x]
<1>1. PICK f : Summing(f, w, {x}) BY WeighCounts
<1>2. Size \in Nat /\ x \in Nat /\ x # 0 /\ x <= Size /\ w[x] \in Nat BY EventsFinite DEF Events
<1> DEFINE U == {n \in 0..Size : f[n] = IF n < x THEN 0 ELSE w[x]}
<1>3. 0 \in U BY <1>1, <1>2 DEF Summing
<1>4. ASSUME NEW n \in 1..Size, n - 1 \in U PROVE n \in U
  <2>1. n \in Nat /\ n \in 0..Size /\ f[n - 1] = IF n - 1 < x THEN 0 ELSE w[x] BY <1>2, <1>4
  <2>2. f[n] = f[n - 1] + IF n = x THEN w[x] ELSE 0 BY <1>1 DEF Summing
  <2> QED BY <1>2, <2>1, <2>2
<1> HIDE DEF U
<1>5. 0..Size \subseteq U BY <1>2, <1>3, <1>4, BoundedInduction
<1>6. Size \in U BY <1>2, <1>5
<1> QED BY <1>1, <1>2, <1>6 DEF U, Summing

\* Events that are each charged one more weigh as much more as there are events.
LEMMA WeighOneMore ==
  ASSUME NEW w \in [Events -> Nat], NEW v \in [Events -> Nat], NEW S \in SUBSET Events,
         \A e \in Events : v[e] = w[e] + 1
  PROVE  Weigh(v, S) = Weigh(w, S) + Cardinality(S)
<1>1. PICK f : Summing(f, w, S) BY WeighCounts
<1>2. PICK g : Summing(g, v, S) BY WeighCounts
<1>3. Size \in Nat BY EventsFinite
<1> DEFINE Upto(n) == {x \in S : x <= n}
           U == {n \in 0..Size : g[n] = f[n] + Cardinality(Upto(n))}
<1>4. 0 \in U
  <2>1. \A x \in S : x \in Nat /\ x # 0 BY EventsFinite DEF Events
  <2>2. Upto(0) = {} BY <2>1
  <2>3. Cardinality(Upto(0)) = 0 BY <2>2, FS_EmptySet
  <2>4. f[0] = 0 /\ g[0] = 0 /\ 0 \in 0..Size BY <1>1, <1>2, <1>3 DEF Summing
  <2> HIDE DEF Upto
  <2> QED BY <2>3, <2>4
<1>5. ASSUME NEW n \in 1..Size, n - 1 \in U PROVE n \in U
  <2>1. n \in Nat /\ n \in 0..Size /\ n \in Events /\ n - 1 \in 0..Size BY <1>3 DEF Events
  <2>2. g[n - 1] = f[n - 1] + Cardinality(Upto(n - 1)) BY <1>5
  <2>3. \A x \in S : x \in Nat BY EventsFinite
  <2>4. Upto(n) = Upto(n - 1) \cup (S \cap {n}) /\ n \notin Upto(n - 1)
    <3>1. \A x \in Nat : x <= n <=> x <= n - 1 \/ x = n BY <2>1
    <3>2. ~(n <= n - 1) BY <2>1
    <3>3. \A x : x \in Upto(n) <=> x \in Upto(n - 1) \/ x \in S \cap {n} BY <2>3, <3>1
    <3> QED BY <3>2, <3>3
  <2>5. IsFiniteSet(Upto(n - 1)) /\ Cardinality(Upto(n - 1)) \in Nat
    <3>1. Upto(n - 1) \in SUBSET Events OBVIOUS
    <3> HIDE DEF Upto
    <3> QED BY <3>1, PartSize
  <2>6. Cardinality(Upto(n)) = Cardinality(Upto(n - 1)) + IF n \in S THEN 1 ELSE 0
    <3> HIDE DEF Upto
    <3>1. CASE n \in S
      <4>1. Upto(n) = Upto(n - 1) \cup {n} BY <2>4, <3>1
      <4> QED BY <2>4, <2>5, <3>1, <4>1, FS_AddElement
    <3>2. CASE n \notin S
      <4>1. Upto(n) = Upto(n - 1) BY <2>4, <3>2
      <4> QED BY <2>5, <3>2, <4>1
    <3> QED BY <3>1, <3>2
  <2>7. /\ f[n] = f[n - 1] + IF n \in S THEN w[n] ELSE 0
        /\ g[n] = g[n - 1] + IF n \in S THEN v[n] ELSE 0
        /\ f[n - 1] \in Nat /\ g[n - 1] \in Nat
    BY <1>1, <1>2, <2>1 DEF Summing
  <2>8. w[n] \in Nat /\ v[n] = w[n] + 1 BY <2>1
  <2> HIDE DEF Upto
  <2> QED BY <2>1, <2>2, <2>5, <2>6, <2>7, <2>8
<1> HIDE DEF U
<1>6. 0..Size \subseteq U BY <1>3, <1>4, <1>5, BoundedInduction
<1>7. Size \in U BY <1>3, <1>6
<1>8. g[Size] = f[Size] + Cardinality(Upto(Size)) BY <1>7 DEF U
<1>9. Upto(Size) = S
  <2>1. \A x \in S : x \in 1..Size BY DEF Events
  <2>2. \A x \in S : x <= Size BY <1>3, <2>1
  <2> QED BY <2>2
<1> QED BY <1>1, <1>2, <1>8, <1>9 DEF Summing

LEMMA BodyIsNat ==
  ASSUME EmitType, NEW S \in SUBSET Events, S # {}
  PROVE  BodySize(S) \in Nat
<1>1. Total(S) \in Nat BY WeighType DEF Total, EmitType
<1>2. Cardinality(S) \in Nat /\ Cardinality(S) # 0 BY PartSize
<1>3. StreamsBody(S) \in Nat
  <2> DEFINE T == {GroupOf(e) : e \in S}
             f == [e \in S |-> GroupOf(e)]
  <2>1. f \in Surjection(S, T) BY DEF Surjection
  <2>2. IsFiniteSet(T) BY <2>1, PartSize, FS_Surjection
  <2>3. Cardinality(T) \in Nat BY <2>2, FS_CardinalityType
  <2>4. StreamsBody(S) = 2 + 1 * Cardinality(T) + Total(S) + Cardinality(S) - 1
    BY DEF StreamsBody, Wrapper, Framing
  <2> HIDE DEF T
  <2> QED BY <1>1, <1>2, <2>3, <2>4
<1> QED BY <1>1, <1>2, <1>3 DEF BodySize, RequestBody, SplunkBody

\* A body is no larger than what its events are charged and what no event is.
LEMMA BodyBound ==
  ASSUME EmitType, NEW S \in SUBSET Events, S # {}
  PROVE  /\ Weigh([e \in Events |-> ItemSize(e)], S) \in Nat
         /\ BodySize(S) <= Weigh([e \in Events |-> ItemSize(e)], S) + BodyReserve
<1> DEFINE w == [e \in Events |-> ItemSize(e)]
           v == [e \in Events |-> load[e] + 1]
<1>1. load \in [Events -> Nat] BY DEF EmitType
<1>2. Total(S) \in Nat /\ Total(S) = Weigh(load, S) BY <1>1, WeighType DEF Total
<1>3. Cardinality(S) \in Nat /\ Cardinality(S) # 0 BY PartSize
<1>4. v \in [Events -> Nat] /\ \A e \in Events : v[e] = load[e] + 1 BY <1>1
<1>5. Weigh(v, S) = Total(S) + Cardinality(S)
  <2> HIDE DEF v
  <2> QED BY <1>1, <1>2, <1>4, WeighOneMore
<1>6. CASE kind \in Grouped
  <2>1. \A e \in Events : ItemSize(e) = v[e] + 1
    BY <1>1, <1>4, <1>6 DEF ItemSize, GroupedItemSize, Framing
  <2>2. w \in [Events -> Nat] /\ \A e \in Events : w[e] = v[e] + 1
    <3> HIDE DEF v
    <3> QED BY <1>4, <2>1
  <2>3. Weigh(w, S) = Weigh(v, S) + Cardinality(S)
    <3> HIDE DEF v, w
    <3> QED BY <1>4, <2>2, WeighOneMore
  <2> DEFINE T == {GroupOf(e) : e \in S}
             f == [e \in S |-> GroupOf(e)]
  <2>4. f \in Surjection(S, T) BY DEF Surjection
  <2>5. IsFiniteSet(T) /\ Cardinality(T) <= Cardinality(S) BY <2>4, PartSize, FS_Surjection
  <2>6. Cardinality(T) \in Nat BY <2>5, FS_CardinalityType
  <2>7. BodySize(S) = 2 + 1 * Cardinality(T) + Total(S) + Cardinality(S) - 1
    <3>1. StreamsBody(S) = 2 + 1 * Cardinality(T) + Total(S) + Cardinality(S) - 1
      BY DEF StreamsBody, Wrapper, Framing
    <3>2. RequestBody(S) = StreamsBody(S) BY DEF RequestBody
    <3>3. kind = "loki" \/ kind = "otlp" BY <1>6 DEF Grouped
    <3>4. BodySize(S) = StreamsBody(S) BY <3>2, <3>3 DEF BodySize, Arrays
    <3> QED BY <3>1, <3>4
  <2>8. BodyReserve = 2 BY <1>6 DEF BodyReserve, GroupedReserve, Wrapper, Grouped, Arrays
  <2> HIDE DEF T, v, w
  <2>9. Weigh(w, S) \in Nat /\ BodySize(S) <= Weigh(w, S) + BodyReserve
    BY <1>2, <1>3, <1>5, <2>3, <2>5, <2>6, <2>7, <2>8
  <2> QED BY <2>9 DEF w
<1>7. CASE kind \notin Grouped
  <2>1. w = v BY <1>7 DEF ItemSize
  <2>2. Weigh(w, S) = Total(S) + Cardinality(S)
    <3> HIDE DEF v, w
    <3> QED BY <1>5, <2>1
  <2>3. kind # "loki" /\ kind # "otlp" BY <1>7 DEF Grouped
  <2>4. BodySize(S) <= Total(S) + Cardinality(S) + BodyReserve
    <3>1. CASE kind \in Arrays
      <4>1. BodyReserve = 1 BY <3>1 DEF BodyReserve, Arrays, Grouped
      <4>2. CASE kind = "datadog"
        <5>1. BodySize(S) = Total(S) + Cardinality(S) + 1 BY <4>2 DEF BodySize, Arrays
        <5> QED BY <1>2, <1>3, <4>1, <5>1
      <4>3. CASE kind = "honeycomb"
        <5>1. BodySize(S) = Total(S) + Cardinality(S) + 1 BY <4>3 DEF BodySize, Arrays
        <5> QED BY <1>2, <1>3, <4>1, <5>1
      <4> QED BY <3>1, <4>2, <4>3 DEF Arrays
    <3>2. CASE kind \notin Arrays
      <4>1. BodyReserve = 0 BY <1>7, <3>2 DEF BodyReserve
      <4>2. BodySize(S) = Total(S) \/ BodySize(S) = Total(S) + Cardinality(S)
        BY <2>3, <3>2 DEF BodySize, SplunkBody
      <4> QED BY <1>2, <1>3, <4>1, <4>2
    <3> QED BY <3>1, <3>2
  <2> HIDE DEF v, w
  <2>5. Weigh(w, S) \in Nat /\ BodySize(S) <= Weigh(w, S) + BodyReserve
    BY <1>2, <1>3, <2>2, <2>4
  <2> QED BY <2>5 DEF w
<1> QED BY <1>6, <1>7

----------------------------------------------------------------------------
(* HTTP: the items, and the chunk in hand                                  *)

\* The items from i to j, and what they are charged.
Slice(i, j) == {Items[k] : k \in i..j}
Charged(S)  == Weigh([e \in Events |-> ItemSize(e)], S)

LEMMA ItemsListed ==
  /\ Items \in Seq(Events) /\ NoDuplicates(Items)
  /\ \A e \in Events : Fits(e) <=> \E i \in 1..Len(Items) : Items[i] = e
  /\ \A i \in 1..Len(Items) : Items[i] \in Events /\ Fits(Items[i])
<1> DEFINE F == {e \in Events : Fits(e)}
<1>1. Items = InOrder(F) BY DEF Items
<1> HIDE DEF F
<1>2. F \in SUBSET Events BY DEF F
<1>3. Items \in Seq(Events) /\ ToSet(Items) = F /\ NoDuplicates(Items) BY <1>1, <1>2, InOrderLists
<1>4. F = {Items[i] : i \in 1..Len(Items)} BY <1>3 DEF ToSet
<1>5. \A e \in Events : Fits(e) <=> e \in F BY DEF F
<1>6. \A e \in Events : e \in F <=> \E i \in 1..Len(Items) : Items[i] = e BY <1>4
<1>7. \A i \in 1..Len(Items) : Items[i] \in F BY <1>4
<1> QED BY <1>2, <1>3, <1>5, <1>6, <1>7

\* The requests and the sizes of a batch do not change while it is sent.
LEMMA SameSizes ==
  ASSUME kind' = kind, load' = load
  PROVE  /\ Items' = Items /\ ChunkBudget' = ChunkBudget
         /\ \A S : BodySize(S)' = BodySize(S)
         /\ \A e : Fits(e)' <=> Fits(e)
<1>1. BodyReserve' = BodyReserve BY DEF BodyReserve, GroupedReserve
<1>2. ChunkBudget' = ChunkBudget BY <1>1 DEF ChunkBudget
<1>3. Ceiling' = Ceiling BY <1>2 DEF Ceiling
<1>4. \A e : ItemSize(e)' = ItemSize(e) BY DEF ItemSize, GroupedItemSize
<1>5. \A e : Fits(e)' <=> Fits(e) BY <1>3, <1>4 DEF Fits
<1>6. {e \in Events : Fits(e)}' = {e \in Events : Fits(e)} BY <1>5
<1>7. Items' = Items BY <1>6 DEF Items
<1>8. \A S : Total(S)' = Total(S) BY DEF Total
<1>9. \A S : StreamsBody(S)' = StreamsBody(S) BY <1>8 DEF StreamsBody
<1>10. \A S : BodySize(S)' = BodySize(S) BY <1>8, <1>9 DEF BodySize, RequestBody, SplunkBody
<1> QED BY <1>2, <1>5, <1>7, <1>10

\* A slice has as many events as positions.
LEMMA SliceSize ==
  ASSUME NEW i \in 1..Len(Items), NEW j \in i..Len(Items)
  PROVE  /\ Slice(i, j) \in SUBSET Events /\ Slice(i, j) # {}
         /\ Cardinality(Slice(i, j)) = j - i + 1
<1>1. /\ Len(Items) \in Nat /\ \A k \in 1..Len(Items) : Items[k] \in Events
      /\ \A a, b \in 1..Len(Items) : Items[a] = Items[b] => a = b
  BY ItemsListed DEF NoDuplicates
<1> DEFINE n == j - i + 1
           f == [k \in 1..n |-> Items[i + k - 1]]
<1>2. n \in Nat /\ n # 0 /\ i \in Nat /\ j \in Nat BY <1>1
<1>3. \A k \in 1..n : i + k - 1 \in i..j BY <1>2
<1>4. \A k \in i..j : k \in 1..Len(Items) /\ k - i + 1 \in 1..n /\ i + (k - i + 1) - 1 = k BY <1>1, <1>2
<1>5. f \in [1..n -> Slice(i, j)] BY <1>3 DEF Slice
<1>6. ASSUME NEW a \in 1..n, NEW b \in 1..n, f[a] = f[b] PROVE a = b
  <2>1. i + a - 1 = i + b - 1 BY <1>1, <1>3, <1>4, <1>6
  <2> QED BY <1>2, <2>1
<1>7. \A x \in Slice(i, j) : \E k \in 1..n : f[k] = x BY <1>4 DEF Slice
<1> HIDE DEF f, n
<1>8. ExistsBijection(1..n, Slice(i, j))
  BY <1>5, <1>6, <1>7 DEF ExistsBijection, Bijection, Injection, Surjection, IsInjective
<1>9. Cardinality(Slice(i, j)) = n BY <1>2, <1>8, FS_CountingElements
<1>10. Slice(i, j) \in SUBSET Events /\ Items[i] \in Slice(i, j)
  BY <1>1, <1>2, <1>4 DEF Slice
<1> QED BY <1>9, <1>10 DEF n

\* What a request takes.
Taken(start, bytes, end) ==
    /\ end \in start..Len(Items) /\ Take(start, bytes) = Slice(start, end)
    /\ end = start \/ Charged(Slice(start, end)) <= bytes

LEMMA TakeTakes ==
  ASSUME NEW start \in 1..Len(Items), NEW bytes
  PROVE  \E end : Taken(start, bytes, end)
<1> DEFINE ends == {end \in start..Len(Items) :
                      end = start
                      \/ (end - start < MaxBatchCount /\ Charged(Slice(start, end)) <= bytes)}
           last == CHOOSE end \in ends : \A o \in ends : o <= end
<1>1. Len(Items) \in Nat BY ItemsListed
<1>2. start \in Nat /\ start \in start..Len(Items) BY <1>1
<1>3. start \in ends BY <1>2
<1>4. ends \in SUBSET Nat /\ \A x \in ends : x <= Len(Items) BY <1>1, <1>2
<1>5. Take(start, bytes) = Slice(start, last) BY DEF Take, Slice, Charged
<1>6. \A end \in ends : end \in start..Len(Items)
                        /\ (end = start \/ Charged(Slice(start, end)) <= bytes)
  OBVIOUS
<1> HIDE DEF ends
<1>7. \E m \in ends : \A x \in ends : x <= m BY <1>1, <1>3, <1>4, LargestExists
<1>8. last \in ends BY <1>7
<1> HIDE DEF last
<1> QED BY <1>5, <1>6, <1>8 DEF Taken

\* The events still to send, and the chunk at their head.
Rest == IF kind = "sentry" THEN {e \in Events : e >= index} ELSE Slice(index, Len(Items))
Ahead(S) ==
    IF kind = "sentry" THEN index <= Size /\ S = {index}
    ELSE index <= Len(Items) /\ \E end \in index..Len(Items) : S = Slice(index, end)

\* Once the index has moved past a chunk, the rest is what was left without it.
LEMMA MovedPast ==
  ASSUME index \in Nat \ {0}, NEW S, Ahead(S), index' = index + Cardinality(S),
         kind' = kind, load' = load
  PROVE  /\ S \in SUBSET Events /\ S # {} /\ S \subseteq Rest /\ Rest' = Rest \ S
         /\ index' \in Nat \ {0}
<1>1. CASE kind = "sentry"
  <2>0. S = {index} /\ index \in Events BY <1>1, EventsFinite DEF Ahead, Events
  <2>1. index' = index + 1
    <3>1. Cardinality({index}) = 1 BY FS_Singleton
    <3> QED BY <2>0, <3>1
  <2>2. Rest = {e \in Events : e >= index} /\ Rest' = {e \in Events : e >= index + 1}
    BY <1>1, <2>1 DEF Rest
  <2>3. \A e \in Events : e >= index + 1 <=> e >= index /\ e # index BY EventsFinite
  <2>4. index' \in Nat \ {0} /\ index >= index BY <2>1
  <2>5. Rest' = Rest \ {index} BY <2>2, <2>3
  <2> QED BY <2>0, <2>2, <2>4, <2>5
<1>2. CASE kind # "sentry"
  <2>1. PICK end \in index..Len(Items) : S = Slice(index, end) BY <1>2 DEF Ahead
  <2>2. Len(Items) \in Nat /\ index \in 1..Len(Items) BY <1>2, ItemsListed DEF Ahead
  <2>3. S \in SUBSET Events /\ S # {} /\ Cardinality(S) = end - index + 1
    BY <2>1, <2>2, SliceSize
  <2>4. end \in Nat /\ index' = end + 1 BY <2>2, <2>3
  <2>5. Rest = Slice(index, Len(Items)) BY <1>2 DEF Rest
  <2>6. Rest' = Slice(end + 1, Len(Items))
    <3>1. Items' = Items BY SameSizes
    <3> QED BY <1>2, <2>4, <3>1 DEF Rest, Slice
  <2>7. \A k : k \in index..Len(Items) <=> k \in index..end \/ k \in (end + 1)..Len(Items)
    BY <2>2, <2>4
  <2>8. \A k \in index..end : k \in 1..Len(Items) /\ k \notin (end + 1)..Len(Items)
    BY <2>2, <2>4
  <2>9. \A k \in (end + 1)..Len(Items) : k \in 1..Len(Items) BY <2>2, <2>4
  <2>10. \A a, b \in 1..Len(Items) : Items[a] = Items[b] => a = b BY ItemsListed DEF NoDuplicates
  <2>11. S \subseteq Rest BY <2>1, <2>5, <2>7 DEF Slice
  <2>12. \A x : x \in Slice(end + 1, Len(Items)) => x \in Rest /\ x \notin S
    BY <2>1, <2>5, <2>7, <2>8, <2>9, <2>10 DEF Slice
  <2>13. \A x : x \in Rest /\ x \notin S => x \in Slice(end + 1, Len(Items))
    BY <2>1, <2>5, <2>7 DEF Slice
  <2> QED BY <2>3, <2>4, <2>6, <2>11, <2>12, <2>13
<1> QED BY <1>1, <1>2

----------------------------------------------------------------------------
(* HTTP: the invariants                                                    *)

HttpType ==
    /\ limit \in Nat /\ budget \in Nat /\ refusedAt \in Nat
    /\ index \in Nat \ {0} /\ chunks \in Nat

\* No event is forgotten, but by the Sentry sink that has no backend to send to.
HttpCover ==
    call = "send" =>
        /\ kind = "sentry" => pending = {}
        /\ kind = "sentry" /\ backend = "none" =>
              entries = {} /\ delivered = 0 /\ (chunks = 0 => Events \subseteq declined \cup Rest)
        /\ ~(kind = "sentry" /\ backend = "none") =>
              Events \subseteq pending \cup landed \cup failed \cup stored \cup declined \cup Rest

\* The request in hand is what is next, and what is left out is not sent.
HttpApart ==
    call = "send" =>
        /\ entries # {} => Ahead(entries)
        /\ pending \cap acked = {} /\ (pending \cup acked) \cap Rest = {}

\* The counters that decide between a return and a raise tell what really happened.
HttpBalance ==
    call = "send" =>
        /\ acked \cup decided # {} <=> delivered > 0
        /\ abandoned # {} => chunks > 0

\* A body that was refused was over the limit of the destination.
RefusedInv == kind # "gzip" /\ refusedAt > 0 => refusedAt > limit

\* A budget is never larger than the one a call begins with.
BudgetInv == call = "send" /\ kind # "sentry" => budget > 0 /\ budget <= ChunkBudget

HttpInv ==
    /\ HttpType /\ HttpCover /\ HttpApart /\ HttpBalance /\ RefusedInv /\ BudgetInv
    /\ NoInventedLoss /\ RequestFits

\* The part of it that a step which settles a chunk has to restore.
ProgressInv == HttpCover /\ HttpApart /\ HttpBalance /\ BudgetInv /\ RequestFits

----------------------------------------------------------------------------
(* HTTP: the beginning of a call, and its chunks                           *)

\* Nothing that is in losses() or that a loss is judged by changes.
LEMMA SameLosses ==
  ASSUME NoInventedLoss, kind' = kind, load' = load, limit' = limit,
         UNCHANGED <<pending, dropped, refusedAlone>>
  PROVE  NoInventedLoss'
<1>1. (\A e : Fits(e)' <=> Fits(e)) /\ \A S : BodySize(S)' = BodySize(S) BY SameSizes
<1> QED BY <1>1 DEF NoInventedLoss

\* The request in hand is the same, or there is none.
LEMMA SameRequest ==
  ASSUME RequestFits, kind' = kind, load' = load, entries' \in {{}, entries}
  PROVE  RequestFits'
<1>1. \A S : BodySize(S)' = BodySize(S) BY SameSizes
<1> QED BY <1>1 DEF RequestFits

LEMMA SameBudget ==
  ASSUME BudgetInv, call = "send", kind' = kind, load' = load, budget' = budget
  PROVE  BudgetInv'
<1>1. ChunkBudget' = ChunkBudget BY SameSizes
<1> QED BY <1>1 DEF BudgetInv

\* What every step amounts to that is done with a chunk S: acc is acknowledged, lost is counted, out
\* is left out, dec needs no answer and again was given up on.
Settling(S, acc, lost, out, dec, again, settled) ==
    /\ call = "send" /\ Ahead(S) /\ (S = entries \/ entries = {})
    /\ acc \in SUBSET S /\ lost \in SUBSET S /\ out \in SUBSET S /\ dec \in SUBSET S
    /\ again \in SUBSET S /\ settled \in BOOLEAN
    /\ Settle(S, settled)
    /\ acked' = acked \cup acc /\ decided' = decided \cup dec /\ failed' = failed \cup lost
    /\ pending' = pending \cup out /\ abandoned' = abandoned \cup again
    /\ landed' \in SUBSET Events /\ landed \cup acc \subseteq landed'
    /\ out \cap acc = {}
    /\ S \subseteq acc \cup lost \cup out \/ (kind = "sentry" /\ backend = "none")
    /\ kind = "sentry" => out = {} /\ (backend = "none" => ~settled)
    /\ settled <=> acc \cup dec # {}

LEMMA SettleStep ==
  ASSUME CommonInv, HttpInv, NEW S, NEW acc, NEW lost, NEW out, NEW dec, NEW again, NEW settled,
         Settling(S, acc, lost, out, dec, again, settled)
  PROVE  CommonInv' /\ ProgressInv' /\ index' \in Nat \ {0} /\ chunks' \in Nat
<1> USE DEF CommonInv, HttpInv, Settling, Settle, Kept
<1>1. /\ UNCHANGED <<kind, load, emits, stored, declined, limit, call, dropped, budget, backend>>
      /\ call = "send" /\ entries' = {} /\ chunks' = chunks + 1
      /\ index' = index + Cardinality(S)
      /\ delivered' = IF settled THEN delivered + 1 ELSE delivered
  OBVIOUS
<1>2. /\ S \in SUBSET Events /\ S # {} /\ S \subseteq Rest /\ Rest' = Rest \ S
      /\ index' \in Nat \ {0}
  BY <1>1, MovedPast DEF HttpType
<1>3. delivered \in Nat /\ chunks \in Nat /\ chunks' \in Nat /\ chunks' > 0
  BY <1>1 DEF EmitType, HttpType
<1>4. EmitType'
  <2>1. delivered' \in Nat /\ attempt' \in Nat BY <1>1, <1>3
  <2> QED BY <1>1, <1>2, <2>1 DEF EmitType
<1>5. DropInv' /\ Accounted' /\ RaiseIsTotal' /\ DroppedOnce'
  BY <1>1 DEF DropInv, Accounted, RaiseIsTotal, DroppedOnce
<1>6. HttpCover' BY <1>1, <1>2, <1>3 DEF HttpCover
<1>7. HttpApart' BY <1>1, <1>2 DEF HttpApart
<1>8. HttpBalance'
  <2>1. acked' \cup decided' # {} <=> delivered' > 0
    <3>1. acked \cup decided # {} <=> delivered > 0 BY DEF HttpBalance
    <3>2. CASE settled BY <1>1, <1>3, <3>2
    <3>3. CASE ~settled BY <1>1, <3>1, <3>3
    <3> QED BY <3>2, <3>3
  <2> QED BY <1>3, <2>1 DEF HttpBalance
<1>9. BudgetInv' /\ RequestFits' BY <1>1, SameBudget, SameRequest
<1> QED BY <1>2, <1>3, <1>4, <1>5, <1>6, <1>7, <1>8, <1>9 DEF ProgressInv

\* A chunk that is settled without a new refusal.
LEMMA PlainSettle ==
  ASSUME CommonInv, HttpInv, NEW S, NEW acc, NEW lost, NEW dec, NEW again, NEW settled,
         Settling(S, acc, lost, {}, dec, again, settled), UNCHANGED <<refusedAt, refusedAlone>>
  PROVE  CommonInv' /\ HttpInv'
<1>1. CommonInv' /\ ProgressInv' /\ index' \in Nat \ {0} /\ chunks' \in Nat BY SettleStep
<1>2. UNCHANGED <<kind, load, limit, dropped, budget>> /\ pending' = pending
  BY DEF Settling, Settle, Kept
<1>3. NoInventedLoss' BY <1>2, SameLosses DEF HttpInv
<1>4. HttpType' /\ RefusedInv' BY <1>1, <1>2 DEF HttpInv, HttpType, RefusedInv
<1> QED BY <1>1, <1>3, <1>4 DEF HttpInv, ProgressInv

LEMMA HttpEmitStep ==
  ASSUME CommonInv, HttpInv, HttpEmit
  PROVE  CommonInv' /\ HttpInv'
<1> USE DEF CommonInv, HttpInv, HttpEmit, Enter
<1>1. EmitType' BY DEF EmitType
<1>2. DropInv' BY DEF DropInv
<1>3. Accounted' /\ RaiseIsTotal' BY DEF Accounted, RaiseIsTotal
<1>4. DroppedOnce' BY <1>2 DEF DroppedOnce, DropInv, EmitType
<1>5. kind' = kind /\ load' = load /\ limit' = limit /\ kind # "sentry" OBVIOUS
<1>6. /\ Items' = Items /\ ChunkBudget' = ChunkBudget /\ \A S : BodySize(S)' = BodySize(S)
      /\ \A e : Fits(e)' <=> Fits(e)
  BY <1>5, SameSizes
<1>7. ChunkBudget \in Nat /\ ChunkBudget > 0
  <2>1. BodyReserve \in {0, 1, 2}
    <3>1. BodyReserve = 1 \/ BodyReserve = 2 \/ BodyReserve = 0
      BY DEF BodyReserve, GroupedReserve, Wrapper, Arrays, Grouped
    <3> QED BY <3>1
  <2> QED BY <2>1, HttpAssumption DEF ChunkBudget, AtLeast1
<1>8. HttpType' BY <1>7 DEF HttpType
<1>9. /\ Rest' = Slice(1, Len(Items)) /\ pending' = {e \in Events : ~Fits(e)}
  <2>1. Rest' = Slice(1, Len(Items)) BY <1>5, <1>6 DEF Rest, Slice
  <2> QED BY <2>1
<1>10. /\ \A e \in Events : Fits(e) <=> e \in Slice(1, Len(Items))
       /\ Slice(1, Len(Items)) \subseteq {e \in Events : Fits(e)}
  BY ItemsListed DEF Slice
<1>11. HttpCover' BY <1>5, <1>9, <1>10 DEF HttpCover
<1>12. HttpApart' /\ HttpBalance' BY <1>9, <1>10 DEF HttpApart, HttpBalance
<1>13. RefusedInv' /\ RequestFits' BY DEF RefusedInv, RequestFits
<1>14. BudgetInv' BY <1>6, <1>7 DEF BudgetInv
<1>15. NoInventedLoss'
  <2>1. \A e \in Events : dropped'[e] = 0 BY <1>2 DEF DropInv
  <2>2. \A e \in Events : e \in pending' \/ dropped'[e] > 0 => ~Fits(e) BY <1>9, <2>1
  <2> QED BY <1>6, <2>2 DEF NoInventedLoss
<1> QED BY <1>1, <1>2, <1>3, <1>4, <1>8, <1>11, <1>12, <1>13, <1>14, <1>15

\* A chunk fits into a request.
LEMMA ChunkFits ==
  ASSUME EmitType, NEW start \in 1..Len(Items), NEW bytes \in Nat, bytes <= ChunkBudget,
         NEW end, Taken(start, bytes, end)
  PROVE  BodySize(Slice(start, end)) <= MaxBatchBytes
<1> DEFINE S == Slice(start, end)
           x == Items[start]
<1>1. S \in SUBSET Events /\ S # {} BY SliceSize DEF Taken
<1>2. Charged(S) \in Nat /\ BodySize(S) \in Nat /\ BodySize(S) <= Charged(S) + BodyReserve
  <2> HIDE DEF S
  <2> QED BY <1>1, BodyBound, BodyIsNat DEF Charged
<1>3. BodyReserve = 0 \/ BodyReserve = 1 \/ BodyReserve = 2
  BY DEF BodyReserve, GroupedReserve, Wrapper, Arrays, Grouped
<1>4. x \in Events /\ Fits(x) BY ItemsListed
<1>5. load[x] \in Nat /\ load[x] > 0 BY <1>4 DEF EmitType, Fits
<1>6. ItemSize(x) \in Nat /\ ItemSize(x) >= 2
  BY <1>5 DEF ItemSize, GroupedItemSize, Framing
<1>7. Ceiling <= ChunkBudget /\ Ceiling \in Nat /\ ChunkBudget \in Nat
  <2>1. ChunkBudget \in Nat BY <1>3, HttpAssumption DEF ChunkBudget, AtLeast1
  <2> QED BY <2>1, HttpAssumption DEF Ceiling, Smaller
<1>8. ItemSize(x) <= ChunkBudget BY <1>4, <1>6, <1>7 DEF Fits
<1>9. Charged(S) <= ChunkBudget
  <2>1. CASE end = start
    <3>1. S = {x}
      <4>1. start \in Nat /\ start..start = {start} BY ItemsListed
      <4> QED BY <2>1, <4>1 DEF Slice
    <3>2. Charged({x}) = ItemSize(x)
      <4> DEFINE w == [e \in Events |-> ItemSize(e)]
      <4>1. w \in [Events -> Nat]
        <5>1. \A e \in Events : ItemSize(e) \in Nat
          BY DEF EmitType, ItemSize, GroupedItemSize, Framing
        <5> QED BY <5>1
      <4>2. w[x] = ItemSize(x) BY <1>4
      <4>3. Weigh(w, {x}) = w[x]
        <5> HIDE DEF w, x
        <5> QED BY <1>4, <4>1, WeighSingle
      <4> QED BY <4>2, <4>3 DEF Charged
    <3> QED BY <1>8, <3>1, <3>2
  <2>2. CASE Charged(S) <= bytes BY <1>2, <1>7, <2>2
  <2> QED BY <2>1, <2>2 DEF Taken
<1>10. ChunkBudget = MaxBatchBytes - BodyReserve
  BY <1>3, <1>6, <1>7, <1>8, HttpAssumption DEF ChunkBudget, AtLeast1
<1> HIDE DEF S
<1>11. BodySize(S) <= MaxBatchBytes BY <1>2, <1>3, <1>9, <1>10, HttpAssumption
<1> QED BY <1>11 DEF S

LEMMA SameRest ==
  ASSUME kind' = kind, load' = load, index' = index
  PROVE  Rest' = Rest /\ \A S : Ahead(S)' <=> Ahead(S)
<1>1. Items' = Items BY SameSizes
<1>2. \A i, j : Slice(i, j)' = Slice(i, j) BY <1>1 DEF Slice
<1>3. Rest' = Rest BY <1>1 DEF Rest, Slice
<1>4. \A S : Ahead(S)' <=> Ahead(S) BY <1>1 DEF Ahead, Slice
<1> QED BY <1>3, <1>4

\* A step that settles nothing: it takes a chunk up, puts it back, or tries it again.
Holding ==
    /\ call = "send" /\ UNCHANGED <<kind, load, emits, stored, declined, limit, call>>
    /\ UNCHANGED <<pending, dropped, failed, acked, decided, abandoned, delivered>>
    /\ UNCHANGED <<index, chunks, backend, refusedAlone>>
    /\ landed' \in SUBSET Events /\ landed \subseteq landed'
    /\ entries' \in SUBSET Events /\ attempt' \in Nat
    /\ entries' # {} => Ahead(entries')
    /\ entries' # {} => ~(kind = "sentry" /\ backend = "none")

LEMMA HoldingStep ==
  ASSUME CommonInv, HttpInv, Holding
  PROVE  CommonInv' /\ HttpCover' /\ HttpApart' /\ HttpBalance' /\ NoInventedLoss'
<1> USE DEF CommonInv, HttpInv, Holding
<1>1. EmitType' BY DEF EmitType
<1>2. DropInv' /\ Accounted' /\ RaiseIsTotal' /\ DroppedOnce'
  BY DEF DropInv, Accounted, RaiseIsTotal, DroppedOnce
<1>3. Rest' = Rest /\ \A S : Ahead(S)' <=> Ahead(S) BY SameRest
<1>4. HttpCover' BY <1>3 DEF HttpCover
<1>5. HttpApart'
  <2>1. Ahead(entries)' <=> Ahead(entries')
    <3>1. Items' = Items BY SameSizes
    <3> QED BY <3>1 DEF Ahead, Slice
  <2> QED BY <1>3, <2>1 DEF HttpApart
<1>6. HttpBalance' BY DEF HttpBalance
<1>7. NoInventedLoss' BY SameLosses
<1> QED BY <1>1, <1>2, <1>4, <1>5, <1>6, <1>7

LEMMA AttemptAgainStep ==
  ASSUME CommonInv, HttpInv, AttemptAgain, call = "send", entries # {}
  PROVE  CommonInv' /\ HttpInv'
<1> USE DEF CommonInv, HttpInv, AttemptAgain, Kept, lossVars, localHttpVars
<1>1. Holding BY DEF Holding, EmitType, HttpApart, HttpCover
<1>2. CommonInv' /\ HttpCover' /\ HttpApart' /\ HttpBalance' /\ NoInventedLoss' BY <1>1, HoldingStep
<1>3. HttpType' /\ RefusedInv' BY DEF HttpType, RefusedInv
<1>4. BudgetInv' /\ RequestFits' BY SameBudget, SameRequest
<1> QED BY <1>2, <1>3, <1>4

LEMMA NextChunkStep ==
  ASSUME CommonInv, HttpInv, NextChunk
  PROVE  CommonInv' /\ HttpInv'
<1> DEFINE chunk == Take(index, budget)
<1>1. /\ call = "send" /\ kind # "sentry" /\ entries = {} /\ index \in 1..Len(Items)
      /\ EmitType /\ HttpType
  BY ItemsListed DEF NextChunk, CommonInv, HttpInv, HttpType
<1>2. PICK end : Taken(index, budget, end) BY <1>1, TakeTakes
<1>3. /\ chunk = Slice(index, end) /\ end \in index..Len(Items) /\ index <= Len(Items)
      /\ chunk \in SUBSET Events /\ chunk # {}
  BY <1>1, <1>2, SliceSize, ItemsListed DEF Taken
<1>4. Ahead(chunk) BY <1>1, <1>3 DEF Ahead
<1>5. budget \in Nat /\ budget <= ChunkBudget BY <1>1 DEF HttpInv, HttpType, BudgetInv
<1>6. BodySize(chunk) <= MaxBatchBytes BY <1>1, <1>2, <1>3, <1>5, ChunkFits
<1> HIDE DEF chunk
<1>7. CASE KnownRefused(chunk)
  <2>1. /\ DropRefused(chunk) /\ Settle(chunk, TRUE)
        /\ UNCHANGED <<failed, acked, landed, abandoned, refusedAt, refusedAlone>>
    BY <1>7 DEF NextChunk, chunk
  <2>2. Settling(chunk, {}, {}, chunk, chunk, {}, TRUE)
    BY <1>1, <1>3, <1>4, <2>1 DEF Settling, DropRefused, EmitType
  <2>3. CommonInv' /\ ProgressInv' /\ index' \in Nat \ {0} /\ chunks' \in Nat
    BY <2>2, SettleStep
  <2>4. UNCHANGED <<kind, load, limit, dropped, budget>> BY <2>1 DEF Settle, Kept
  <2>5. NoInventedLoss'
    <3>1. (\A e : Fits(e)' <=> Fits(e)) /\ \A S : BodySize(S)' = BodySize(S) BY <2>4, SameSizes
    <3>2. \A e \in chunk : BodySize({e}) > limit
      <4>1. kind # "gzip" /\ refusedAt > 0 /\ Cardinality(chunk) = 1 /\ BodySize(chunk) >= refusedAt
        BY <1>7 DEF KnownRefused
      <4>2. \E x : chunk = {x} BY <1>3, <4>1, PartSize, FS_Singleton
      <4>3. BodySize(chunk) \in Nat BY <1>1, <1>3, BodyIsNat
      <4>4. BodySize(chunk) > limit BY <1>1, <4>1, <4>3 DEF HttpInv, RefusedInv, HttpType
      <4> QED BY <4>2, <4>4
    <3>3. kind # "gzip" BY <1>7 DEF KnownRefused
    <3>4. pending' = pending \cup chunk BY <2>1 DEF DropRefused
    <3> QED BY <2>1, <2>4, <3>1, <3>2, <3>3, <3>4 DEF NoInventedLoss, HttpInv
  <2>6. HttpType' /\ RefusedInv' BY <2>1, <2>3, <2>4 DEF HttpInv, HttpType, RefusedInv
  <2> QED BY <2>3, <2>5, <2>6 DEF HttpInv, ProgressInv
<1>8. CASE ~KnownRefused(chunk)
  <2>1. /\ entries' = chunk /\ attempt' = 0
        /\ UNCHANGED <<Kept, call, delivered, lossVars, acked, decided, landed, abandoned,
                       localHttpVars, refusedAlone>>
    BY <1>8 DEF NextChunk, chunk
  <2> USE DEF Kept, lossVars, localHttpVars
  <2>2. Holding BY <1>1, <1>3, <1>4, <2>1 DEF Holding, EmitType
  <2>3. CommonInv' /\ HttpCover' /\ HttpApart' /\ HttpBalance' /\ NoInventedLoss'
    BY <2>2, HoldingStep
  <2>4. HttpType' /\ RefusedInv' BY <2>1 DEF HttpInv, HttpType, RefusedInv
  <2>5. BudgetInv' BY <1>1, <2>1, SameBudget DEF HttpInv
  <2>6. RequestFits'
    <3>1. \A S : BodySize(S)' = BodySize(S) BY <2>1, SameSizes
    <3> QED BY <1>6, <2>1, <3>1 DEF RequestFits
  <2> QED BY <2>3, <2>4, <2>5, <2>6 DEF HttpInv
<1> QED BY <1>7, <1>8

LEMMA TooLargeStep ==
  ASSUME CommonInv, HttpInv, PayloadTooLarge
  PROVE  CommonInv' /\ HttpInv'
<1>1. /\ call = "send" /\ kind # "sentry" /\ entries # {} /\ Ahead(entries) /\ TooLarge
      /\ EmitType /\ HttpType /\ entries \in SUBSET Events
  BY DEF PayloadTooLarge, Answerable, CommonInv, HttpInv, HttpApart, EmitType
<1>2. BodySize(entries) \in Nat BY <1>1, BodyIsNat
<1>3. kind # "gzip" => BodySize(entries) > limit BY DEF PayloadTooLarge, Refused
<1>4. refusedAt' \in Nat /\ (kind # "gzip" => refusedAt' > limit)
  <2>1. refusedAt' = IF refusedAt = 0 THEN BodySize(entries)
                     ELSE IF refusedAt < BodySize(entries) THEN refusedAt ELSE BodySize(entries)
    BY <1>1 DEF TooLarge, Smaller
  <2>2. refusedAt \in Nat /\ limit \in Nat BY <1>1 DEF HttpType
  <2>3. kind # "gzip" /\ refusedAt > 0 => refusedAt > limit BY DEF HttpInv, RefusedInv
  <2> QED BY <1>2, <1>3, <2>1, <2>2, <2>3
<1>5. CASE Cardinality(entries) > 1 /\ reductions < MaxReductions
  <2>1. /\ Halve /\ entries' = {} /\ attempt' = 0
        /\ UNCHANGED <<Kept, call, delivered, lossVars, acked, decided, landed, abandoned,
                       index, chunks, backend, refusedAlone>>
    BY <1>1, <1>5 DEF TooLarge
  <2> USE DEF Kept, lossVars
  <2>2. Holding BY <1>1, <2>1 DEF Holding, EmitType
  <2>3. CommonInv' /\ HttpCover' /\ HttpApart' /\ HttpBalance' /\ NoInventedLoss'
    BY <2>2, HoldingStep
  <2>4. budget' \in Nat /\ budget' > 0 /\ budget' <= budget
    <3>1. budget \in Nat /\ budget > 0 BY <1>1 DEF HttpInv, HttpType, BudgetInv
    <3>2. budget' = LET h == (IF budget < BodySize(entries) THEN budget ELSE BodySize(entries)) \div 2
                    IN  IF h < 1 THEN 1 ELSE h
      BY <2>1 DEF Halve, AtLeast1, Smaller
    <3> QED BY <1>2, <3>1, <3>2
  <2>5. BudgetInv'
    <3>1. ChunkBudget' = ChunkBudget BY <2>1, SameSizes
    <3>2. budget \in Nat /\ budget <= ChunkBudget BY <1>1 DEF HttpInv, HttpType, BudgetInv
    <3>3. ChunkBudget \in Int BY HttpAssumption
      DEF ChunkBudget, AtLeast1, BodyReserve, GroupedReserve, Wrapper, Arrays, Grouped
    <3> QED BY <2>4, <3>1, <3>2, <3>3 DEF BudgetInv
  <2>6. HttpType' /\ RefusedInv' BY <1>1, <1>4, <2>1, <2>4 DEF HttpType, RefusedInv
  <2>7. RequestFits' BY <2>1 DEF RequestFits
  <2> QED BY <2>3, <2>5, <2>6, <2>7 DEF HttpInv
<1>6. CASE ~(Cardinality(entries) > 1 /\ reductions < MaxReductions) /\ Cardinality(entries) = 1
  <2>1. /\ DropRefused(entries) /\ Settle(entries, TRUE)
        /\ refusedAlone' = refusedAlone \cup entries
        /\ UNCHANGED <<failed, acked, landed, abandoned>>
    BY <1>1, <1>6 DEF TooLarge
  <2>2. Settling(entries, {}, {}, entries, entries, {}, TRUE)
    BY <1>1, <2>1 DEF Settling, DropRefused, EmitType
  <2>3. CommonInv' /\ ProgressInv' /\ index' \in Nat \ {0} /\ chunks' \in Nat
    BY <2>2, SettleStep
  <2>4. UNCHANGED <<kind, load, limit, dropped, budget>> BY <2>1 DEF Settle, Kept
  <2>5. NoInventedLoss'
    <3>1. (\A e : Fits(e)' <=> Fits(e)) /\ \A S : BodySize(S)' = BodySize(S) BY <2>4, SameSizes
    <3>2. \A e \in entries : kind # "gzip" => BodySize({e}) > limit
      <4>1. \E x : entries = {x} BY <1>1, <1>6, PartSize, FS_Singleton
      <4> QED BY <1>3, <4>1
    <3>3. pending' = pending \cup entries BY <2>1 DEF DropRefused
    <3> QED BY <2>1, <2>4, <3>1, <3>2, <3>3 DEF NoInventedLoss, HttpInv
  <2>6. HttpType' /\ RefusedInv' BY <1>1, <1>4, <2>3, <2>4 DEF HttpType, RefusedInv
  <2> QED BY <2>3, <2>5, <2>6 DEF HttpInv, ProgressInv
<1>7. CASE ~(Cardinality(entries) > 1 /\ reductions < MaxReductions) /\ Cardinality(entries) # 1
  <2>1. AbandonUnreduced BY <1>1, <1>7 DEF TooLarge
  <2>2. Settling(entries, {}, entries, {}, {}, entries, FALSE)
    BY <1>1, <2>1 DEF Settling, AbandonUnreduced, EmitType
  <2>3. CommonInv' /\ ProgressInv' /\ index' \in Nat \ {0} /\ chunks' \in Nat
    BY <2>2, SettleStep
  <2>4. UNCHANGED <<kind, load, limit, pending, dropped, budget, refusedAlone>>
    BY <2>1 DEF AbandonUnreduced, Settle, Kept
  <2>5. NoInventedLoss' BY <2>4, SameLosses DEF HttpInv
  <2>6. HttpType' /\ RefusedInv' BY <1>1, <1>4, <2>3, <2>4 DEF HttpType, RefusedInv
  <2> QED BY <2>3, <2>5, <2>6 DEF HttpInv, ProgressInv
<1> QED BY <1>5, <1>6, <1>7

----------------------------------------------------------------------------
(* HTTP: the answers                                                       *)

\* A request in hand, as its answer finds it.
Asked ==
    /\ call = "send" /\ entries # {} /\ entries \in SUBSET Events /\ Ahead(entries)
    /\ landed \in SUBSET Events /\ ~(kind = "sentry" /\ backend = "none")

LEMMA InHandAsked ==
  ASSUME CommonInv, HttpInv, call = "send", entries # {}
  PROVE  Asked
  BY DEF Asked, CommonInv, EmitType, HttpInv, HttpApart, HttpCover

LEMMA AcceptedStep ==
  ASSUME CommonInv, HttpInv, Asked, AcceptedWhole
  PROVE  CommonInv' /\ HttpInv'
<1>1. Settling(entries, entries, {}, {}, {}, {}, TRUE)
  BY DEF Asked, Settling, AcceptedWhole, lossVars
<1>2. UNCHANGED <<refusedAt, refusedAlone>> BY DEF AcceptedWhole
<1> QED BY <1>1, <1>2, PlainSettle

LEMMA RejectedStep ==
  ASSUME CommonInv, HttpInv, Asked, NEW rejects \in (SUBSET entries) \ {{}}, RejectedSome(rejects)
  PROVE  CommonInv' /\ HttpInv'
<1>1. Settling(entries, entries \ rejects, rejects, {}, {}, rejects, rejects # entries)
  <2>1. rejects \subseteq entries OBVIOUS
  <2>2. rejects # entries <=> (entries \ rejects) \cup {} # {} BY <2>1
  <2>3. (rejects # entries) \in BOOLEAN OBVIOUS
  <2> QED BY <2>1, <2>2, <2>3 DEF Asked, Settling, RejectedSome
<1>2. UNCHANGED <<refusedAt, refusedAlone>> BY DEF RejectedSome
<1> QED BY <1>1, <1>2, PlainSettle

LEMMA UnreadStep ==
  ASSUME CommonInv, HttpInv, Asked, UnreadVerdict, kind # "sentry"
  PROVE  CommonInv' /\ HttpInv'
<1>1. Settling(entries, {}, entries, {}, entries, entries, TRUE)
  BY DEF Asked, Settling, UnreadVerdict
<1>2. UNCHANGED <<refusedAt, refusedAlone>> BY DEF UnreadVerdict
<1> QED BY <1>1, <1>2, PlainSettle

LEMMA AbandonStep ==
  ASSUME CommonInv, HttpInv, Asked, Abandon
  PROVE  CommonInv' /\ HttpInv'
<1>1. Settling(entries, {}, entries, {}, {}, entries, FALSE)
  BY DEF Asked, Settling, Abandon
<1>2. UNCHANGED <<refusedAt, refusedAlone>> BY DEF Abandon
<1> QED BY <1>1, <1>2, PlainSettle

LEMMA AnswerStep ==
  ASSUME CommonInv, HttpInv,
         PlainResponse \/ BulkResponse \/ StatusesResponse \/ PartialSuccess \/ NoAnswer
  PROVE  CommonInv' /\ HttpInv'
<1>1. call = "send" /\ kind # "sentry" /\ entries # {}
  BY DEF PlainResponse, BulkResponse, StatusesResponse, PartialSuccess, NoAnswer, Answerable
<1>2. Asked BY <1>1, InHandAsked
<1>3. \/ AcceptedWhole \/ UnreadVerdict \/ AttemptAgain \/ Abandon
      \/ \E rejects \in (SUBSET entries) \ {{}} : RejectedSome(rejects)
  BY DEF PlainResponse, BulkResponse, StatusesResponse, PartialSuccess, NoAnswer
<1>4. CASE AcceptedWhole BY <1>2, <1>4, AcceptedStep
<1>5. CASE UnreadVerdict BY <1>1, <1>2, <1>5, UnreadStep
<1>6. CASE AttemptAgain BY <1>1, <1>6, AttemptAgainStep
<1>7. CASE Abandon BY <1>2, <1>7, AbandonStep
<1>8. ASSUME NEW rejects \in (SUBSET entries) \ {{}}, RejectedSome(rejects)
      PROVE  CommonInv' /\ HttpInv'
  BY <1>2, <1>8, RejectedStep
<1> QED BY <1>3, <1>4, <1>5, <1>6, <1>7, <1>8

----------------------------------------------------------------------------
(* HTTP: Sentry                                                            *)

LEMMA SentryEmitStep ==
  ASSUME CommonInv, HttpInv, SentryEmit
  PROVE  CommonInv' /\ HttpInv'
<1> USE DEF CommonInv, HttpInv, SentryEmit, Enter
<1>1. EmitType'
  <2>1. declined' \in SUBSET Events BY DEF Qualifies, EmitType
  <2> QED BY <2>1 DEF EmitType
<1>2. DropInv' BY DEF DropInv
<1>3. Accounted' /\ RaiseIsTotal' BY DEF Accounted, RaiseIsTotal
<1>4. DroppedOnce' BY <1>2 DEF DroppedOnce, DropInv, EmitType
<1>5. Rest' = Events
  <2>1. Rest' = {e \in Events : e >= 1} BY DEF Rest
  <2>2. \A e \in Events : e >= 1 BY EventsFinite DEF Events
  <2> QED BY <2>1, <2>2
<1>6. HttpType' BY DEF HttpType
<1>7. HttpCover' /\ HttpApart' /\ HttpBalance' BY <1>5 DEF HttpCover, HttpApart, HttpBalance
<1>8. RefusedInv' /\ BudgetInv' /\ RequestFits' BY DEF RefusedInv, BudgetInv, RequestFits
<1>9. NoInventedLoss'
  <2>1. \A e \in Events : dropped'[e] = 0 BY <1>2 DEF DropInv
  <2>2. \A e \in Events : ~(e \in pending' \/ dropped'[e] > 0) BY <2>1
  <2> QED BY <2>2 DEF NoInventedLoss
<1> QED BY <1>1, <1>2, <1>3, <1>4, <1>6, <1>7, <1>8, <1>9

LEMMA SentryNextStep ==
  ASSUME CommonInv, HttpInv, SentryNext
  PROVE  CommonInv' /\ HttpInv'
<1>1. /\ call = "send" /\ kind = "sentry" /\ entries = {} /\ index <= Size
      /\ Ahead({index}) /\ index \in Events /\ index \in Nat \ {0} /\ EmitType /\ HttpType
  BY EventsFinite DEF SentryNext, Ahead, HttpInv, HttpType, CommonInv, Events
<1>2. CASE index \in declined
  <2>1. /\ index' = index + 1
        /\ UNCHANGED <<Kept, call, sendVars, lossVars, acked, decided, landed, abandoned,
                       budget, refusedAt, reductions, chunks, backend, refusedAlone>>
    BY <1>2 DEF SentryNext
  <2> USE DEF Kept, sendVars, lossVars
  <2>2. index' = index + Cardinality({index})
    <3>1. Cardinality({index}) = 1 BY FS_Singleton
    <3> QED BY <2>1, <3>1
  <2>3. Rest' = Rest \ {index} /\ index' \in Nat \ {0} BY <1>1, <2>1, <2>2, MovedPast
  <2>4. EmitType' BY <1>1, <2>1 DEF EmitType
  <2>5. DropInv' /\ Accounted' /\ RaiseIsTotal' /\ DroppedOnce'
    BY <1>1, <2>1 DEF CommonInv, DropInv, Accounted, RaiseIsTotal, DroppedOnce
  <2>6. HttpCover' BY <1>1, <1>2, <2>1, <2>3 DEF HttpInv, HttpCover
  <2>7. HttpApart' /\ HttpBalance' BY <1>1, <2>1, <2>3 DEF HttpInv, HttpApart, HttpBalance
  <2>8. HttpType' /\ RefusedInv' BY <1>1, <2>1, <2>3 DEF HttpInv, HttpType, RefusedInv
  <2>9. BudgetInv' /\ RequestFits' BY <1>1, <2>1 DEF BudgetInv, RequestFits
  <2>10. NoInventedLoss' BY <2>1, SameLosses DEF HttpInv
  <2> QED BY <2>4, <2>5, <2>6, <2>7, <2>8, <2>9, <2>10 DEF CommonInv, HttpInv
<1>3. CASE index \notin declined /\ backend = "none"
  <2>1. /\ abandoned' = abandoned \cup {index} /\ Settle({index}, FALSE)
        /\ UNCHANGED <<lossVars, acked, decided, landed, refusedAt, refusedAlone>>
    BY <1>3 DEF SentryNext
  <2>2. Settling({index}, {}, {}, {}, {}, {index}, FALSE)
    BY <1>1, <1>3, <2>1 DEF Settling, EmitType, lossVars
  <2> QED BY <2>1, <2>2, PlainSettle
<1>4. CASE index \notin declined /\ backend # "none"
  <2>1. /\ entries' = {index} /\ attempt' = 0
        /\ UNCHANGED <<Kept, call, delivered, lossVars, acked, decided, landed, abandoned,
                       localHttpVars, refusedAlone>>
    BY <1>4 DEF SentryNext
  <2> USE DEF Kept, lossVars, localHttpVars
  <2>2. Holding BY <1>1, <1>4, <2>1 DEF Holding, EmitType
  <2>3. CommonInv' /\ HttpCover' /\ HttpApart' /\ HttpBalance' /\ NoInventedLoss'
    BY <2>2, HoldingStep
  <2>4. HttpType' /\ RefusedInv' BY <2>1 DEF HttpInv, HttpType, RefusedInv
  <2>5. BudgetInv' /\ RequestFits' BY <1>1, <2>1 DEF BudgetInv, RequestFits
  <2> QED BY <2>3, <2>4, <2>5 DEF HttpInv
<1> QED BY <1>2, <1>3, <1>4

LEMMA CaptureStep ==
  ASSUME CommonInv, HttpInv, Capture
  PROVE  CommonInv' /\ HttpInv'
<1>1. call = "send" /\ entries # {} BY DEF Capture
<1>2. Asked BY <1>1, InHandAsked
<1>3. AcceptedWhole \/ Abandon \/ AttemptAgain BY DEF Capture, PostEnvelope
<1> QED BY <1>1, <1>2, <1>3, AcceptedStep, AbandonStep, AttemptAgainStep

----------------------------------------------------------------------------
(* HTTP: the end of a call                                                 *)

\* After a call only what it refused is of interest.
LEMMA HttpOver ==
  ASSUME HttpInv, NoInventedLoss', call' # "send", entries' = {},
         UNCHANGED <<kind, limit, budget, refusedAt, index, chunks>>
  PROVE  HttpInv'
<1>1. HttpType' /\ RefusedInv' BY DEF HttpInv, HttpType, RefusedInv
<1>2. HttpCover' /\ HttpApart' /\ HttpBalance' /\ BudgetInv' /\ RequestFits'
  BY DEF HttpCover, HttpApart, HttpBalance, BudgetInv, RequestFits
<1> QED BY <1>1, <1>2 DEF HttpInv

LEMMA HttpFinishStep ==
  ASSUME CommonInv, HttpInv, HttpFinish
  PROVE  CommonInv' /\ HttpInv'
<1> USE DEF CommonInv, HttpInv, HttpFinish, Exit
<1>0. /\ call = "send" /\ entries = {}
      /\ call' = IF HttpRaises THEN "raised" ELSE "returned"
      /\ \A e \in Events : dropped[e] = 0
      /\ pending' = {} /\ delivered \in Nat /\ chunks \in Nat
  BY DEF DropInv, EmitType, HttpType
<1>1. dropped' \in [Events -> Nat] /\ \A e \in Events :
          dropped'[e] = IF ~HttpRaises /\ e \in pending THEN 1 ELSE 0
  <2>1. CASE HttpRaises BY <1>0, <2>1 DEF EmitType
  <2>2. CASE ~HttpRaises
    <3>1. dropped' = [e \in Events |-> dropped[e] + IF e \in pending THEN 1 ELSE 0] BY <1>0, <2>2
    <3>2. dropped' = [e \in Events |-> IF e \in pending THEN 1 ELSE 0] BY <1>0, <3>1
    <3> QED BY <2>2, <3>2
  <2> QED BY <2>1, <2>2
<1>2. UNCHANGED <<kind, load, emits, entries, attempt, delivered, failed, acked, decided, landed,
                  stored, abandoned, declined, limit, budget, refusedAt, index, chunks, refusedAlone>>
  BY DEF sendVars, wireVars, httpVars, localHttpVars
<1>3. Rest = {}
  <2>1. CASE kind = "sentry"
    <3>1. index > Size /\ index \in Nat BY <2>1 DEF HttpDone, HttpType
    <3>2. \A e \in Events : ~(e >= index) BY <3>1, EventsFinite DEF Events
    <3> QED BY <2>1, <3>2 DEF Rest
  <2>2. CASE kind # "sentry"
    <3>1. index > Len(Items) /\ index \in Nat /\ Len(Items) \in Nat
      BY <2>2, ItemsListed DEF HttpDone, HttpType
    <3>2. index..Len(Items) = {} BY <3>1
    <3> QED BY <2>2, <3>2 DEF Rest, Slice
  <2> QED BY <2>1, <2>2
<1>4. EmitType' BY <1>0, <1>1, <1>2 DEF EmitType
<1>5. DropInv' BY <1>0, <1>1 DEF DropInv
<1>6. Accounted'
  <2>1. SUFFICES ASSUME ~HttpRaises, NEW e \in Events
                 PROVE  e \in stored \cup landed \cup declined \/ e \in failed \/ dropped'[e] > 0
    BY <1>0, <1>2 DEF Accounted, Losses
  <2>2. CASE kind = "sentry" /\ backend = "none"
    <3>1. delivered = 0 /\ (chunks = 0 => Events \subseteq declined \cup Rest)
      BY <1>0, <2>2 DEF HttpCover
    <3>2. chunks = 0 BY <1>0, <2>1, <3>1 DEF HttpRaises
    <3> QED BY <1>3, <3>1, <3>2
  <2>3. CASE ~(kind = "sentry" /\ backend = "none")
    <3>1. e \in pending \cup landed \cup failed \cup stored \cup declined
      BY <1>0, <1>3, <2>3 DEF HttpCover
    <3>2. e \in pending => dropped'[e] > 0 BY <1>1, <2>1
    <3> QED BY <3>1, <3>2
  <2> QED BY <2>2, <2>3
<1>7. RaiseIsTotal'
  <2>1. CASE HttpRaises
    <3>1. acked \cup decided = {} BY <1>0, <2>1 DEF HttpRaises, HttpBalance
    <3> QED BY <1>0, <1>2, <2>1, <3>1 DEF RaiseIsTotal
  <2>2. CASE ~HttpRaises
    <3>1. SUFFICES ASSUME acked \cup decided = {} PROVE abandoned = {}
      BY <1>0, <1>2, <2>2 DEF RaiseIsTotal
    <3>2. delivered = 0 BY <1>0, <3>1 DEF HttpBalance
    <3>3. chunks = 0 BY <1>0, <2>2, <3>2 DEF HttpRaises
    <3> QED BY <1>0, <3>3 DEF HttpBalance
  <2> QED BY <2>1, <2>2
<1>8. DroppedOnce' BY <1>0, <1>1, <1>2 DEF DroppedOnce, HttpApart
<1>9. NoInventedLoss'
  <2>1. (\A e : Fits(e)' <=> Fits(e)) /\ \A S : BodySize(S)' = BodySize(S) BY <1>2, SameSizes
  <2>2. \A e \in Events : e \in pending' \/ dropped'[e] > 0 => e \in pending BY <1>0, <1>1
  <2> QED BY <1>2, <2>1, <2>2 DEF NoInventedLoss
<1>10. HttpInv' BY <1>0, <1>2, <1>9, HttpOver
<1> QED BY <1>4, <1>5, <1>6, <1>7, <1>8, <1>10

LEMMA HttpEscapeStep ==
  ASSUME CommonInv, HttpInv, HttpEscape
  PROVE  CommonInv' /\ HttpInv'
<1> USE DEF CommonInv, HttpInv, HttpEscape, Exit
<1>1. EmitType' BY DEF EmitType, wireVars
<1>2. DropInv' BY DEF DropInv, Answerable
<1>3. Accounted' /\ RaiseIsTotal' BY DEF Accounted, RaiseIsTotal
<1>4. DroppedOnce' BY <1>2 DEF DroppedOnce, DropInv, EmitType
<1>5. UNCHANGED <<kind, load, limit, budget, refusedAt, index, chunks, refusedAlone, dropped>>
      /\ pending' = {}
  BY DEF httpVars, localHttpVars
<1>6. NoInventedLoss'
  <2>1. (\A e : Fits(e)' <=> Fits(e)) /\ \A S : BodySize(S)' = BodySize(S) BY <1>5, SameSizes
  <2> QED BY <1>5, <2>1 DEF NoInventedLoss
<1>7. HttpInv' BY <1>5, <1>6, HttpOver
<1> QED BY <1>1, <1>2, <1>3, <1>4, <1>7

LEMMA HttpRetryStep ==
  ASSUME CommonInv, HttpInv, HttpRetry
  PROVE  CommonInv' /\ HttpInv'
<1>1. CommonInv' /\ call' = "idle" BY RetryStep DEF HttpRetry
<1>2. UNCHANGED <<kind, load, entries, limit, budget, refusedAt, index, chunks, refusedAlone>>
      /\ UNCHANGED <<pending, dropped>>
  BY DEF HttpRetry, Retry, httpVars, localHttpVars, sendVars, lossVars
<1>3. NoInventedLoss' BY <1>2, SameLosses DEF HttpInv
<1>4. RequestFits' BY <1>2, SameRequest DEF HttpInv
<1>5. HttpType' /\ RefusedInv' BY <1>2 DEF HttpInv, HttpType, RefusedInv
<1>6. HttpCover' /\ HttpApart' /\ HttpBalance' /\ BudgetInv'
  BY <1>1 DEF HttpCover, HttpApart, HttpBalance, BudgetInv
<1> QED BY <1>1, <1>3, <1>4, <1>5, <1>6 DEF HttpInv

LEMMA HttpNextStep ==
  ASSUME CommonInv, HttpInv, HttpNext
  PROVE  CommonInv' /\ HttpInv'
<1>1. CASE HttpEmit BY <1>1, HttpEmitStep
<1>2. CASE NextChunk BY <1>2, NextChunkStep
<1>3. CASE PlainResponse \/ BulkResponse \/ StatusesResponse \/ PartialSuccess \/ NoAnswer
  BY <1>3, AnswerStep
<1>4. CASE PayloadTooLarge BY <1>4, TooLargeStep
<1>5. CASE SentryEmit BY <1>5, SentryEmitStep
<1>6. CASE SentryNext BY <1>6, SentryNextStep
<1>7. CASE Capture BY <1>7, CaptureStep
<1>8. CASE HttpFinish BY <1>8, HttpFinishStep
<1>9. CASE HttpEscape BY <1>9, HttpEscapeStep
<1>10. CASE HttpRetry BY <1>10, HttpRetryStep
<1> QED BY <1>1, <1>2, <1>3, <1>4, <1>5, <1>6, <1>7, <1>8, <1>9, <1>10 DEF HttpNext

----------------------------------------------------------------------------
(* The theorems                                                            *)

IInv ==
    /\ CommonInv /\ ConnInv
    /\ kind \in RecordKinds => RecordInv
    /\ kind \in HttpKinds => HttpInv

LEMMA InitIInv == Init => IInv
<1> SUFFICES ASSUME Init PROVE IInv OBVIOUS
<1>1. EmitInit BY DEF Init, RecordInit, HttpInit
<1>2. CommonInv
  <2>1. load \in [Events -> Nat] BY <1>1, EmitAssumption DEF EmitInit
  <2>2. EmitType BY <1>1, <2>1 DEF EmitInit, EmitType
  <2> QED BY <1>1, <2>2 DEF EmitInit, CommonInv, DropInv, Accounted, RaiseIsTotal, DroppedOnce
<1>3. ConnInv
  <2>1. conn = "up" /\ breaks = 0 /\ wasted = 0 BY DEF Init, RecordInit, NoRecord
  <2> QED BY <2>1 DEF ConnInv, StaleConnection
<1>4. CASE RecordInit /\ NoHttp
  <2>1. RecordType BY <1>4, NoneAll DEF RecordInit, RecordType
  <2>2. CoverInv /\ ApartInv /\ RequestInv /\ BalanceInv
    BY <1>1 DEF EmitInit, CoverInv, ApartInv, RequestInv, BalanceInv
  <2>3. kind \in RecordKinds BY <1>4 DEF RecordInit
  <2> QED BY <1>2, <1>3, <2>1, <2>2, <2>3, KindsAssumption DEF IInv, RecordInv
<1>5. CASE HttpInit /\ NoRecord
  <2>1. HttpType BY <1>5, HttpAssumption DEF HttpInit, HttpType
  <2>2. HttpCover /\ HttpApart /\ HttpBalance /\ BudgetInv /\ RequestFits
    BY <1>1 DEF EmitInit, HttpCover, HttpApart, HttpBalance, BudgetInv, RequestFits
  <2>3. RefusedInv /\ NoInventedLoss
    BY <1>1, <1>5 DEF HttpInit, EmitInit, RefusedInv, NoInventedLoss
  <2>4. kind \in HttpKinds BY <1>5 DEF HttpInit
  <2> QED BY <1>2, <1>3, <2>1, <2>2, <2>3, <2>4, KindsAssumption DEF IInv, HttpInv
<1> QED BY <1>4, <1>5 DEF Init

LEMMA RecordKeepsKind ==
  ASSUME RecordNext
  PROVE  kind' = kind
<1> USE DEF emitVars
<1>1. CASE Begin
  BY <1>1 DEF Begin, KinesisEmit, FirehoseEmit, SnsEmit, SqsEmit, SqsChunks, HubsEmit,
              ClickHouseEmit, PostgresEmit, SqliteEmit, MongoEmit, RedisEmit, RabbitEmit,
              SyslogEmit, LogstashEmit, SendAll, FileEmit, RefuseClosed, Start, Enter, Refuse
<1>2. CASE NextRequest \/ Finish \/ Escape \/ WorkerRetry
  BY <1>2 DEF NextRequest, Finish, Escape, WorkerRetry, Retry
<1>3. CASE Send
  BY <1>3 DEF Send, KinesisSend, FirehoseSend, SnsSend, SqsSend, HubsSend, ClickHouseSend,
              RedisSend, SqliteSend, FileSend, MongoSend, PostgresSend, RabbitSend, SendOneTcp,
              SendOneUdp, ConnSend, WholeSend, PositionalSend, Unadjudicated, SqsAnswer,
              RetryOrGiveUp, Outcome
<1>4. CASE Break BY <1>4 DEF Break
<1>5. CASE Close
  BY <1>5 DEF Close, HubsClose, ClickHouseClose, PostgresClose, SqliteClose, MongoClose,
              RedisClose, RabbitClose, TransportClose, FileClose, CloseSink
<1> QED BY <1>1, <1>2, <1>3, <1>4, <1>5 DEF RecordNext, RecordStep

LEMMA HttpKeepsKind ==
  ASSUME HttpNext
  PROVE  kind' = kind
<1> USE DEF Kept
<1>1. CASE HttpEmit \/ SentryEmit BY <1>1 DEF HttpEmit, SentryEmit, Enter
<1>2. CASE NextChunk \/ SentryNext BY <1>2 DEF NextChunk, SentryNext, Settle
<1>3. CASE PayloadTooLarge BY <1>3 DEF PayloadTooLarge, TooLarge, AbandonUnreduced, Settle
<1>4. CASE PlainResponse \/ BulkResponse \/ StatusesResponse \/ PartialSuccess \/ NoAnswer \/ Capture
  BY <1>4 DEF PlainResponse, BulkResponse, StatusesResponse, PartialSuccess, NoAnswer, Capture,
              PostEnvelope, AcceptedWhole, RejectedSome, UnreadVerdict, AttemptAgain, Abandon, Settle
<1>5. CASE HttpFinish \/ HttpEscape \/ HttpRetry
  BY <1>5 DEF HttpFinish, HttpEscape, HttpRetry, Retry
<1> QED BY <1>1, <1>2, <1>3, <1>4, <1>5 DEF HttpNext

LEMMA StutterIInv ==
  ASSUME IInv, UNCHANGED vars
  PROVE  IInv'
<1> USE DEF vars, emitVars, callVars, sendVars, lossVars, wireVars, recordVars, localVars, connVars,
            httpVars, localHttpVars
<1>1. EmitType' BY DEF IInv, CommonInv, EmitType
<1>2. DropInv' /\ Accounted' /\ RaiseIsTotal' /\ DroppedOnce'
  BY DEF IInv, CommonInv, DropInv, Accounted, RaiseIsTotal, DroppedOnce, Losses
<1>3. ConnInv' BY DEF IInv, ConnInv, StaleConnection
<1>4. ASSUME RecordInv PROVE RecordInv'
  <2>1. UNCHANGED <<emitVars, localVars>> OBVIOUS
  <2>2. CommonInv BY DEF IInv
  <2> QED BY <1>4, <2>1, <2>2, AsideStep
<1>5. ASSUME HttpInv PROVE HttpInv'
  <2> USE <1>5 DEF HttpInv
  <2>1. Rest' = Rest /\ \A S : Ahead(S)' <=> Ahead(S) BY SameRest
  <2>2. Ahead(entries)' <=> Ahead(entries)
    <3>1. Items' = Items BY SameSizes
    <3> QED BY <3>1 DEF Ahead, Slice
  <2>3. HttpType' /\ HttpCover' BY <2>1 DEF HttpType, HttpCover
  <2>4. HttpApart' BY <2>1, <2>2 DEF HttpApart
  <2>5. HttpBalance' /\ RefusedInv' BY DEF HttpBalance, RefusedInv
  <2>6. BudgetInv'
    <3>1. ChunkBudget' = ChunkBudget BY SameSizes
    <3> QED BY <3>1 DEF BudgetInv
  <2>7. NoInventedLoss' /\ RequestFits' BY SameLosses, SameRequest
  <2> QED BY <2>3, <2>4, <2>5, <2>6, <2>7
<1> QED BY <1>1, <1>2, <1>3, <1>4, <1>5 DEF IInv, CommonInv

LEMMA NextIInv == IInv /\ [Next]_vars => IInv'
<1> SUFFICES ASSUME IInv, [Next]_vars PROVE IInv' OBVIOUS
<1>1. CASE Record
  <2>1. kind \in RecordKinds /\ RecordNext /\ kind' = kind BY <1>1, RecordKeepsKind DEF Record
  <2>2. CommonInv' /\ RecordInv' BY <2>1, RecordNextStep DEF IInv
  <2>3. ConnInv' BY <2>1, ConnStep DEF IInv
  <2> QED BY <2>1, <2>2, <2>3, KindsAssumption DEF IInv
<1>2. CASE Http
  <2>1. kind \in HttpKinds /\ HttpNext /\ kind' = kind /\ UNCHANGED recordVars
    BY <1>2, HttpKeepsKind DEF Http
  <2>2. CommonInv' /\ HttpInv' BY <2>1, HttpNextStep DEF IInv
  <2>3. ConnInv' BY <2>1 DEF IInv, ConnInv, StaleConnection, recordVars, connVars
  <2> QED BY <2>1, <2>2, <2>3, KindsAssumption DEF IInv
<1>3. CASE Done \/ UNCHANGED vars
  <2>1. UNCHANGED vars BY <1>3 DEF Done
  <2> QED BY <2>1, StutterIInv
<1> QED BY <1>1, <1>2, <1>3 DEF Next

LEMMA AlwaysIInv == Spec => []IInv
  BY InitIInv, NextIInv, PTL DEF Spec

\* Whatever the destination answers, a call that returns has lost no event silently (Sink.emit,
\* sinks/base.py; every emit() of src/log_foundry/sinks).
THEOREM NothingSilentlyLost == Spec => []Accounted
<1>1. IInv => Accounted BY DEF IInv, CommonInv
<1> QED BY <1>1, AlwaysIInv, PTL

\* A call raises only if sending all of it again duplicates nothing that was acknowledged, and a call
\* that got nothing through does not keep from the worker what a retry could deliver (the test at the
\* end of every emit()).
THEOREM RaiseSettlesNothing == Spec => []RaiseIsTotal
<1>1. IInv => RaiseIsTotal BY DEF IInv, CommonInv
<1> QED BY <1>1, AlwaysIInv, PTL

\* However often a batch is handed over, an event is counted as dropped once (Deferral.__exit__,
\* sinks/_deferral.py).
THEOREM DropsCountedOnce == Spec => []DroppedOnce
<1>1. IInv => DroppedOnce BY DEF IInv, CommonInv
<1> QED BY <1>1, AlwaysIInv, PTL

\* A connection the server dropped costs its owner one attempt (PostgresSink._reconnect_if_broken,
\* RabbitMQSink._reset, SocketTransport._reset).
THEOREM OneAttemptPerBreak == Spec => []StaleConnection
<1>1. IInv => StaleConnection BY DEF IInv, ConnInv
<1> QED BY <1>1, AlwaysIInv, PTL

\* An event is dropped as too large only if it is too large (HTTPSink._known_refused, _drop_refused).
THEOREM DropsAreTooLarge == Spec => []NoInventedLoss
<1>1. IInv => NoInventedLoss BY DEF IInv, HttpInv, NoInventedLoss
<1> QED BY <1>1, AlwaysIInv, PTL

\* No request is over max_batch_bytes (HTTPSink._chunk_budget, _take, _body).
THEOREM RequestsFit == Spec => []RequestFits
<1>1. IInv => RequestFits BY DEF IInv, HttpInv, RequestFits
<1> QED BY <1>1, AlwaysIInv, PTL

=============================================================================
