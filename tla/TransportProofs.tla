--------------------------- MODULE TransportProofs ---------------------------
(***************************************************************************)
(* Theorems about the sinks with a recovery of their own: the wrapper       *)
(* sinks' accounting, the rotation of files, the publishes of the sinks     *)
(* whose client keeps what it was given, and the confirmation of NATS.      *)
(***************************************************************************)
EXTENDS ClientBuffers, RotatingFile, Wrappers, NatsSink, Recursion, FiniteSetTheorems

----------------------------------------------------------------------------
(* The wrapper sinks                                                       *)

Counts == [Kids -> [BatchEvents -> Nat]]

FanTypeInv ==
    /\ op \in {"none", "emit", "flush", "close", "asked", "over"}
    /\ child \in 1 .. Fan + 1
    /\ kept \subseteq BatchEvents /\ failures \subseteq BatchEvents
    /\ took \subseteq Kids /\ swallowed \subseteq Kids /\ holding \subseteq Kids
    /\ outcome \in {"none", "returned", "raised"}
    /\ given \in Counts /\ filtered \in Counts /\ charged \in Counts /\ absorbed \in Counts

\* Inside emit() every child before the loop's position took the batch or raised, and an event has
\* met with an end at the children that took it and at no other; outside, at every child or at
\* none.  What the sieve put aside for the inner sink is disjoint from what it charges for.
FanInv ==
    /\ FanTypeInv
    /\ kept # {} => op = "emit" /\ child \in Kids
    /\ kept \cap failures = {}
    /\ op = "emit" =>
          /\ took \cup swallowed = 1 .. child - 1
          /\ took \cap swallowed = {}
          /\ \A k \in Kids, e \in BatchEvents : Ends(k, e) = IF k \in took THEN 1 ELSE 0
    /\ op = "none" =>
          \A k \in Kids, e \in BatchEvents :
              Ends(k, e) = IF outcome = "returned" THEN 1 ELSE 0
    /\ op \in {"flush", "close"} => holding \subseteq swallowed \cup (child .. Fan)
    /\ op \in {"asked", "over"} => holding \subseteq swallowed
    /\ op = "asked" /\ outcome = "returned" => swallowed = {}

LEMMA AddType ==
  ASSUME NEW counts \in Counts, NEW k \in Kids, NEW S
  PROVE  /\ Add(counts, k, S) \in Counts
         /\ \A j \in Kids, e \in BatchEvents :
               Add(counts, k, S)[j][e] = counts[j][e] + IF j = k /\ e \in S THEN 1 ELSE 0
<1>1. \A j \in Kids, e \in BatchEvents : counts[j][e] \in Nat BY DEF Counts
<1> DEFINE row == [e \in BatchEvents |-> counts[k][e] + IF e \in S THEN 1 ELSE 0]
<1>2. row \in [BatchEvents -> Nat]
  <2>1. \A e \in BatchEvents : counts[k][e] + (IF e \in S THEN 1 ELSE 0) \in Nat BY <1>1
  <2> QED BY <2>1
<1>3. Add(counts, k, S) = [counts EXCEPT ![k] = row] BY DEF Add
<1>4. Add(counts, k, S) \in Counts BY <1>2, <1>3 DEF Counts
<1>5. ASSUME NEW j \in Kids, NEW e \in BatchEvents
      PROVE  Add(counts, k, S)[j][e] = counts[j][e] + IF j = k /\ e \in S THEN 1 ELSE 0
  <2>1. CASE j = k
    <3>1. Add(counts, k, S)[j] = row BY <1>3, <2>1 DEF Counts
    <3> QED BY <2>1, <3>1
  <2>2. CASE j # k
    <3>1. Add(counts, k, S)[j] = counts[j] BY <1>3, <2>2 DEF Counts
    <3> QED BY <1>1, <2>2, <3>1
  <2> QED BY <2>1, <2>2
<1> QED BY <1>4, <1>5

\* A child that returns gives each event exactly one end.
LEMMA ReturnsKeeps ==
  ASSUME FanInv, op = "emit", child \in Kids, WrappersAssumption,
         NEW through \in SUBSET BatchEvents, NEW drops \in SUBSET BatchEvents,
         through \cap drops = {}, ChildReturns(through, drops),
         holding' \subseteq Kids
  PROVE  FanInv'
<1>0. /\ given \in Counts /\ filtered \in Counts /\ charged \in Counts /\ absorbed \in Counts
      /\ Fan \in Nat
  BY DEF FanInv, FanTypeInv, WrappersAssumption
<1> DEFINE rest == BatchEvents \ (through \cup drops)
<1>1. /\ given' = Add(given, child, through) /\ charged' = Add(charged, child, drops)
      /\ filtered' = Add(filtered, child, rest) /\ absorbed' = absorbed
      /\ took' = took \cup {child} /\ child' = child + 1 /\ kept' = {} /\ failures' = {}
      /\ UNCHANGED <<op, swallowed, outcome>>
  BY DEF ChildReturns
<1>2. given' \in Counts /\ filtered' \in Counts /\ charged' \in Counts BY <1>0, <1>1, AddType
<1>3. FanTypeInv' BY <1>0, <1>1, <1>2 DEF FanInv, FanTypeInv, Kids
<1>4. /\ took' \cup swallowed' = 1 .. child' - 1 /\ took' \cap swallowed' = {}
      /\ child \notin took
  <2>1. took \cup swallowed = 1 .. child - 1 /\ took \cap swallowed = {} BY DEF FanInv
  <2>2. child \notin 1 .. child - 1 /\ (1 .. child - 1) \cup {child} = 1 .. child
    BY <1>0 DEF Kids
  <2>3. child' - 1 = child BY <1>0, <1>1 DEF Kids
  <2> QED BY <1>1, <2>1, <2>2, <2>3
<1>5. ASSUME NEW k \in Kids, NEW e \in BatchEvents
      PROVE  Ends(k, e)' = IF k \in took' THEN 1 ELSE 0
  <2>1. /\ given[k][e] \in Nat /\ filtered[k][e] \in Nat /\ charged[k][e] \in Nat
        /\ absorbed[k][e] \in Nat
    BY <1>0 DEF Counts
  <2>2. Ends(k, e) = IF k \in took THEN 1 ELSE 0 BY DEF FanInv
  <2>3. /\ given'[k][e] = given[k][e] + IF k = child /\ e \in through THEN 1 ELSE 0
        /\ charged'[k][e] = charged[k][e] + IF k = child /\ e \in drops THEN 1 ELSE 0
        /\ filtered'[k][e] = filtered[k][e] + IF k = child /\ e \in rest THEN 1 ELSE 0
    BY <1>0, <1>1, AddType
  <2>4. CASE k = child
    <3>1. given[k][e] + filtered[k][e] + (charged[k][e] + absorbed[k][e]) = 0 /\ k \in took'
      BY <1>1, <1>4, <2>2, <2>4 DEF Ends, LossesOf
    <3>2. \/ e \in through /\ e \notin drops /\ e \notin rest
          \/ e \notin through /\ e \in drops /\ e \notin rest
          \/ e \notin through /\ e \notin drops /\ e \in rest
      OBVIOUS
    <3> HIDE DEF rest
    <3>3. given'[k][e] + filtered'[k][e] + (charged'[k][e] + absorbed'[k][e]) = 1
      <4>1. /\ given[k][e] = 0 /\ filtered[k][e] = 0 /\ charged[k][e] = 0
            /\ absorbed'[k][e] = 0
        <5>1. \A a, b, c, d \in Nat : a + b + (c + d) = 0 => a = 0 /\ b = 0 /\ c = 0 /\ d = 0
          OBVIOUS
        <5>2. /\ given[k][e] = 0 /\ filtered[k][e] = 0 /\ charged[k][e] = 0
              /\ absorbed[k][e] = 0
          BY <2>1, <3>1, <5>1
        <5> QED BY <1>1, <5>2
      <4>2. CASE e \in through BY <2>3, <2>4, <3>2, <4>1, <4>2
      <4>3. CASE e \in drops BY <2>3, <2>4, <3>2, <4>1, <4>3
      <4>4. CASE e \in rest BY <2>3, <2>4, <3>2, <4>1, <4>4
      <4> QED BY <3>2, <4>2, <4>3, <4>4
    <3> QED BY <3>1, <3>3 DEF Ends, LossesOf
  <2>5. CASE k # child BY <1>1, <2>1, <2>2, <2>3, <2>5 DEF Ends, LossesOf
  <2> QED BY <2>4, <2>5
<1> QED BY <1>1, <1>3, <1>4, <1>5 DEF FanInv

\* One that raises has given none.
LEMMA RaisesKeeps ==
  ASSUME FanInv, op = "emit", child \in Kids, WrappersAssumption, ChildRaises
  PROVE  FanInv'
<1>0. Fan \in Nat BY DEF WrappersAssumption
<1>1. /\ swallowed' = swallowed \cup {child} /\ child' = child + 1 /\ kept' = {} /\ failures' = {}
      /\ UNCHANGED <<op, took, outcome, given, filtered, charged, absorbed, holding>>
  BY DEF ChildRaises, counters
<1>2. FanTypeInv' BY <1>0, <1>1 DEF FanInv, FanTypeInv, Kids
<1>3. took' \cup swallowed' = 1 .. child' - 1 /\ took' \cap swallowed' = {}
  <2>1. took \cup swallowed = 1 .. child - 1 /\ took \cap swallowed = {} BY DEF FanInv
  <2>2. child \notin 1 .. child - 1 /\ (1 .. child - 1) \cup {child} = 1 .. child
    BY <1>0 DEF Kids
  <2>3. child' - 1 = child BY <1>0, <1>1 DEF Kids
  <2> QED BY <1>1, <2>1, <2>2, <2>3
<1>4. \A k \in Kids, e \in BatchEvents : Ends(k, e)' = IF k \in took' THEN 1 ELSE 0
  BY <1>1 DEF FanInv, Ends, LossesOf
<1> QED BY <1>1, <1>2, <1>3, <1>4 DEF FanInv

LEMMA SieveKeeps ==
  ASSUME FanInv, Asking, WrappersAssumption,
         NEW answer \in [BatchEvents -> {"yes", "no", "raise"}], Sieve(answer)
  PROVE  FanInv'
<1> DEFINE pass == {e \in BatchEvents : answer[e] = "yes"}
           fail == {e \in BatchEvents : answer[e] = "raise"}
<1>0. op = "emit" /\ child \in Kids BY DEF Asking
<1>1. pass \in SUBSET BatchEvents /\ fail \in SUBSET BatchEvents /\ pass \cap fail = {} OBVIOUS
<1>2. \/ ChildRaises
      \/ /\ kept' = pass /\ failures' = fail
         /\ UNCHANGED <<op, child, took, swallowed, tries, outcome, counters, holding>>
      \/ ChildReturns({}, fail) /\ UNCHANGED holding
  BY DEF Sieve
<1> HIDE DEF pass, fail
<1>3. CASE ChildRaises BY <1>0, <1>3, RaisesKeeps
<1>4. CASE /\ kept' = pass /\ failures' = fail
           /\ UNCHANGED <<op, child, took, swallowed, tries, outcome, counters, holding>>
  BY <1>0, <1>1, <1>4 DEF FanInv, FanTypeInv, counters, Ends, LossesOf
<1>5. CASE ChildReturns({}, fail) /\ UNCHANGED holding
  <2>1. holding' \subseteq Kids BY <1>5 DEF FanInv, FanTypeInv
  <2> QED BY <1>0, <1>1, <1>5, <2>1, ReturnsKeeps
<1> QED BY <1>2, <1>3, <1>4, <1>5

LEMMA FanEndKeeps ==
  ASSUME FanInv, WrappersAssumption, FanEnd
  PROVE  FanInv'
<1>0. /\ op = "emit" /\ child > Fan /\ op' = "none" /\ Fan \in Nat /\ child \in 1 .. Fan + 1
      /\ UNCHANGED <<child, kept, failures, took, swallowed, given, filtered, charged, holding>>
      /\ absorbed \in Counts
  BY DEF FanEnd, FanInv, FanTypeInv, WrappersAssumption
<1>1. /\ took \cup swallowed = Kids /\ took \cap swallowed = {}
      /\ \A k \in Kids, e \in BatchEvents : Ends(k, e) = IF k \in took THEN 1 ELSE 0
  BY <1>0 DEF FanInv, Kids
<1>2. kept = {} BY <1>0 DEF FanInv, Kids
<1>3. CASE took = {} /\ swallowed # {}
  <2>1. outcome' = "raised" /\ UNCHANGED absorbed BY <1>3 DEF FanEnd
  <2> QED BY <1>0, <1>1, <1>2, <1>3, <2>1 DEF FanInv, FanTypeInv, Ends, LossesOf
<1>4. CASE ~(took = {} /\ swallowed # {})
  <2>1. /\ outcome' = "returned"
        /\ absorbed' = [k \in Kids |-> [e \in BatchEvents |->
                          absorbed[k][e] + IF k \in swallowed THEN 1 ELSE 0]]
    BY <1>4 DEF FanEnd
  <2>2. \A k \in Kids, e \in BatchEvents : absorbed[k][e] \in Nat BY <1>0 DEF Counts
  <2>3. absorbed' \in Counts
    <3>1. \A k \in Kids, e \in BatchEvents :
             absorbed[k][e] + (IF k \in swallowed THEN 1 ELSE 0) \in Nat
      BY <2>2
    <3> QED BY <2>1, <3>1 DEF Counts
  <2>4. ASSUME NEW k \in Kids, NEW e \in BatchEvents PROVE Ends(k, e)' = 1
    <3>1. absorbed'[k][e] = absorbed[k][e] + IF k \in swallowed THEN 1 ELSE 0 BY <2>1
    <3>2. given[k][e] \in Nat /\ filtered[k][e] \in Nat /\ charged[k][e] \in Nat
      BY DEF FanInv, FanTypeInv, Counts
    <3>3. Ends(k, e) = IF k \in took THEN 1 ELSE 0 BY <1>1
    <3> QED BY <1>0, <1>1, <2>2, <3>1, <3>2, <3>3 DEF Ends, LossesOf
  <2> QED BY <1>0, <1>2, <2>1, <2>3, <2>4 DEF FanInv, FanTypeInv
<1> QED BY <1>3, <1>4

\* A flush() or a close() passes child after child.
LEMMA EmptyKeeps ==
  ASSUME FanInv, WrappersAssumption, op \in {"flush", "close"}, child \in Kids, Empty
  PROVE  FanInv'
<1>0. /\ Fan \in Nat /\ child' = child + 1 /\ kept = {}
      /\ UNCHANGED <<op, kept, failures, outcome, given, filtered, charged, absorbed>>
  BY DEF Empty, counters, WrappersAssumption, FanInv
<1>1. \/ took' = took \cup {child} /\ holding' = holding \ {child} /\ UNCHANGED swallowed
      \/ swallowed' = swallowed \cup {child} /\ UNCHANGED <<took, holding>>
  BY DEF Empty
<1>2. FanTypeInv'
  <2>1. child' \in 1 .. Fan + 1 BY <1>0 DEF Kids
  <2>2. took' \subseteq Kids /\ swallowed' \subseteq Kids /\ holding' \subseteq Kids
    BY <1>1 DEF FanInv, FanTypeInv
  <2> QED BY <1>0, <2>1, <2>2 DEF FanInv, FanTypeInv
<1>3. child .. Fan = {child} \cup (child' .. Fan) BY <1>0 DEF Kids
<1>4. holding' \subseteq swallowed' \cup (child' .. Fan) BY <1>1, <1>3 DEF FanInv
<1> QED BY <1>0, <1>2, <1>4 DEF FanInv

LEMMA FanStep == WrappersAssumption /\ FanInv /\ [FanNext]_fanVars => FanInv'
<1> SUFFICES ASSUME WrappersAssumption, FanInv, [FanNext]_fanVars PROVE FanInv' OBVIOUS
<1>0. Fan \in Nat BY DEF WrappersAssumption
<1>1. CASE FanBegin
  <2>1. /\ op = "none" /\ outcome # "returned" /\ op' = "emit" /\ child' = 1
        /\ took' = {} /\ swallowed' = {} /\ outcome' = "none"
        /\ UNCHANGED <<kept, failures, given, filtered, charged, absorbed, holding>>
    BY <1>1 DEF FanBegin, counters
  <2>2. kept = {} /\ 1 .. child' - 1 = {} BY <2>1 DEF FanInv
  <2> QED BY <1>0, <2>1, <2>2 DEF FanInv, FanTypeInv, Ends, LossesOf
<1>2. CASE FilterEmit BY <1>2, SieveKeeps DEF FilterEmit, Passes
<1>3. CASE TransformEmit BY <1>3, SieveKeeps DEF TransformEmit, Apply
<1>4. CASE InnerTakes
  <2>1. /\ op = "emit" /\ child \in Kids /\ ChildReturns(kept, failures)
        /\ kept \in SUBSET BatchEvents /\ failures \in SUBSET BatchEvents
        /\ kept \cap failures = {} /\ holding' \subseteq Kids
    BY <1>4 DEF InnerTakes, FanInv, FanTypeInv
  <2> QED BY <2>1, ReturnsKeeps
<1>5. CASE InnerRaises BY <1>5, RaisesKeeps DEF InnerRaises, FanInv
<1>6. CASE FanEnd BY <1>6, FanEndKeeps
<1>7. CASE AskBegin
  <2>1. /\ op = "none" /\ op' \in {"flush", "close"} /\ child' = 1 /\ took' = {} /\ swallowed' = {}
        /\ outcome' = "none"
        /\ UNCHANGED <<kept, failures, given, filtered, charged, absorbed, holding>>
    BY <1>7 DEF AskBegin, counters
  <2> QED BY <1>0, <2>1 DEF FanInv, FanTypeInv, Kids
<1>8. CASE FilterFlush \/ TransformFlush \/ FilterClose \/ TransformClose
  <2>1. op \in {"flush", "close"} /\ child \in Kids /\ Empty
    BY <1>8 DEF FilterFlush, TransformFlush, FilterClose, TransformClose
  <2> QED BY <2>1, EmptyKeeps
<1>9. CASE AskEnd
  <2>1. /\ op \in {"flush", "close"} /\ child > Fan /\ op' \in {"asked", "over"}
        /\ op' = "asked" /\ outcome' = "returned" => swallowed = {}
        /\ outcome' \in {"returned", "raised"}
        /\ UNCHANGED <<child, kept, failures, took, swallowed, given, filtered, charged, absorbed,
                       holding>>
    BY <1>9 DEF AskEnd, counters
  <2>2. child .. Fan = {} BY <1>0, <2>1 DEF FanInv, FanTypeInv
  <2> QED BY <2>1, <2>2 DEF FanInv, FanTypeInv
<1>10. CASE UNCHANGED fanVars BY <1>10 DEF fanVars, FanInv, FanTypeInv, Ends, LossesOf
<1> QED BY <1>1, <1>2, <1>3, <1>4, <1>5, <1>6, <1>7, <1>8, <1>9, <1>10 DEF FanNext

LEMMA FanInitially == WrappersAssumption /\ FanInit => FanInv
<1> SUFFICES ASSUME WrappersAssumption, FanInit PROVE FanInv OBVIOUS
<1>1. Zero \in Counts /\ \A k \in Kids, e \in BatchEvents : Zero[k][e] = 0 BY DEF Zero, Counts
<1>2. FanTypeInv BY <1>1 DEF FanInit, FanTypeInv, WrappersAssumption
<1>3. \A k \in Kids, e \in BatchEvents : Ends(k, e) = 0
  BY <1>1 DEF FanInit, Ends, LossesOf
<1> QED BY <1>2, <1>3 DEF FanInit, FanInv

\* For any number of children, events and retries: when MultiSink.emit returns, each event has met
\* with exactly one end at each child, a call that raised has left no trace at any, and a flush()
\* or a close() leaves nothing held but by a child that raised (MultiSink.emit, .flush, .close,
\* .losses; FilteringSink.emit, TransformSink.emit).
THEOREM FanOutExact == FanSpec => []FanOutAccounts
<1>1. FanInv => FanOutAccounts
  <2> SUFFICES ASSUME FanInv PROVE FanOutAccounts OBVIOUS
  <2> QED BY DEF FanInv, FanOutAccounts
<1> QED BY <1>1, FanInitially, FanStep, WrappersAssumption, PTL DEF FanSpec

----------------------------------------------------------------------------
(* The rotation of files                                                   *)

FileSteps == {"idle", "line", "write", "shift", "reopen", "recover"}

RotatingTypeInv ==
    /\ backups \in Nat /\ born \in Nat /\ faults \in Nat /\ shift \in Int
    /\ last \in Nat /\ line \in Nat /\ last <= MaxLines
    /\ disk \in [0 .. backups -> 0 .. born]
    /\ home \in [Lines -> Nat]
    /\ written \subseteq Lines
    /\ step \in FileSteps /\ stream \in {"open", "shut"}

\* The active file is there while the stream is open and until the rotation has renamed it; in the
\* loop the name above the next one to move is free, unless it is the last.
PlaceInv ==
    /\ stream = "open" \/ step \in {"line", "write", "shift"} => disk[0] # 0
    /\ step = "reopen" => disk[0] = 0
    /\ step \in {"shift", "reopen", "recover"} => stream = "shut"
    /\ step = "shift" => /\ shift \in -1 .. backups - 1
                         /\ backups > 0 => shift >= 0
                         /\ shift + 1 < backups => disk[shift + 1] = 0

OrderInv ==
    \A i, j \in 0 .. backups : i < j /\ disk[i] # 0 /\ disk[j] # 0 => disk[i] > disk[j]

\* The rotation in hand has moved this name already.
Moved(i) == step = "reopen" \/ (step = "shift" /\ i > shift + 1)

\* A file stands as far up as its age, and one further for each fault and for a rotation that has
\* moved it and created no file yet: so the one that is removed, the last, is old enough.
AgeInv ==
    \A i \in 0 .. backups :
        disk[i] # 0 => i <= born - disk[i] + faults + IF Moved(i) THEN 1 ELSE 0

YoungestInv ==
    \A g \in 1 .. born : g > born - backups + faults => \E i \in 0 .. backups : disk[i] = g

\* The lines of the batch in hand that were handed to the stream are in its buffer or in a file.
LinesInv ==
    /\ \A l \in written : home[l] # 0
    /\ step # "idle" =>
          /\ BatchLines <= last /\ last - BatchLines <= line /\ line <= last
          /\ step # "line" => line < last
          /\ \A l \in Lines : last - BatchLines < l /\ l <= line => l \in buf \/ home[l] # 0

RotatingInv == RotatingTypeInv /\ PlaceInv /\ OrderInv /\ AgeInv /\ YoungestInv /\ LinesInv

\* AgeInv, for one name.
LEMMA AgeOf ==
  ASSUME RotatingInv, NEW i \in 0 .. backups, disk[i] # 0
  PROVE  /\ disk[i] \in 1 .. born
         /\ i <= born - disk[i] + faults + 1
         /\ ~Moved(i) => i <= born - disk[i] + faults
<1>1. /\ backups \in Nat /\ born \in Nat /\ faults \in Nat /\ disk[i] \in 0 .. born
  BY DEF RotatingInv, RotatingTypeInv
<1>2. i <= born - disk[i] + faults + IF Moved(i) THEN 1 ELSE 0 BY DEF RotatingInv, AgeInv
<1> QED BY <1>1, <1>2

\* The files are left alone, and a rotation that ends without a new file has cost a fault.
LEMMA FilesKept ==
  ASSUME RotatingInv, UNCHANGED <<backups, disk, born>>, faults' \in Nat, faults' >= faults,
         \A i \in 0 .. backups : Moved(i) => Moved(i)' \/ faults' > faults
  PROVE  OrderInv' /\ AgeInv' /\ YoungestInv'
<1>0. /\ backups \in Nat /\ born \in Nat /\ faults \in Nat
      /\ \A i \in 0 .. backups : disk[i] \in 0 .. born
  BY DEF RotatingInv, RotatingTypeInv
<1>1. OrderInv' BY DEF RotatingInv, OrderInv
<1>2. ASSUME NEW i \in 0 .. backups, disk[i] # 0
      PROVE  i <= born - disk[i] + faults' + IF Moved(i)' THEN 1 ELSE 0
  <2>1. i <= born - disk[i] + faults + IF Moved(i) THEN 1 ELSE 0 BY <1>2 DEF RotatingInv, AgeInv
  <2> QED BY <1>0, <2>1
<1>3. AgeInv' BY <1>2 DEF AgeInv
<1>4. ASSUME NEW g \in 1 .. born, g > born - backups + faults'
      PROVE  \E i \in 0 .. backups : disk[i] = g
  <2>1. \A a, b, c, d \in Int : a > b + c /\ c >= d => a > b + d OBVIOUS
  <2>2. g \in Int /\ born - backups \in Int /\ faults' \in Int /\ faults \in Int BY <1>0
  <2>3. g > born - backups + faults BY <1>4, <2>1, <2>2
  <2> QED BY <2>3 DEF RotatingInv, YoungestInv
<1>5. YoungestInv' BY <1>4 DEF YoungestInv
<1> QED BY <1>1, <1>3, <1>5

\* The active file is opened: a new one makes every other a generation older.
LEMMA FileOpened ==
  ASSUME RotatingInv, OpenActive, UNCHANGED backups, faults' \in Nat, faults' >= faults,
         step' \in FileSteps \ {"shift", "reopen"},
         disk[0] # 0 => \A i \in 0 .. backups : Moved(i) => faults' > faults
  PROVE  /\ born' \in Nat /\ disk' \in [0 .. backups -> 0 .. born'] /\ disk'[0] # 0
         /\ stream' = "open" /\ OrderInv' /\ AgeInv' /\ YoungestInv'
<1>0. /\ backups \in Nat /\ born \in Nat /\ faults \in Nat
      /\ disk \in [0 .. backups -> 0 .. born] /\ stream' = "open"
  BY DEF RotatingInv, RotatingTypeInv, OpenActive
<1>1. 0 \in 0 .. backups BY <1>0
<1>2. CASE disk[0] # 0
  <2>1. UNCHANGED <<born, disk>> BY <1>2 DEF OpenActive
  <2> QED BY <1>0, <1>2, <2>1, FilesKept
<1>3. CASE disk[0] = 0
  <2>1. born' = born + 1 /\ disk' = [disk EXCEPT ![0] = born + 1] BY <1>3 DEF OpenActive
  <2>2. /\ disk' \in [0 .. backups -> 0 .. born'] /\ disk'[0] = born + 1
        /\ \A i \in 0 .. backups : i # 0 => disk'[i] = disk[i] /\ disk[i] \in 0 .. born
        /\ born' \in Nat
    BY <1>0, <1>1, <2>1
  <2>3. OrderInv' BY <1>0, <2>2 DEF RotatingInv, OrderInv
  <2>4. ASSUME NEW i \in 0 .. backups, disk'[i] # 0
        PROVE  i <= born' - disk'[i] + faults' + IF Moved(i)' THEN 1 ELSE 0
    <3>1. ~Moved(i)' BY DEF Moved
    <3>2. CASE i = 0
      <4>1. born' - disk'[i] = 0 BY <1>0, <2>1, <2>2, <3>2
      <4> QED BY <3>1, <3>2, <4>1
    <3>3. CASE i # 0
      <4>1. i <= born - disk[i] + faults + 1
        BY <2>2, <2>4, <3>3, AgeOf
      <4> QED BY <1>0, <2>1, <2>2, <3>1, <3>3, <4>1
    <3> QED BY <3>2, <3>3
  <2>5. AgeInv' BY <2>4 DEF AgeInv
  <2>6. ASSUME NEW g \in 1 .. born', g > born' - backups + faults'
        PROVE  \E i \in 0 .. backups : disk'[i] = g
    <3>1. CASE g = born + 1 BY <1>1, <2>2, <3>1
    <3>2. CASE g # born + 1
      <4>1. g \in 1 .. born BY <1>0, <2>1, <3>2
      <4>0. g > born - backups + faults
        <5>1. \A a, b, c, d, e \in Int : a > (b + 1) - c + e /\ e >= d => a > b - c + d OBVIOUS
        <5>2. /\ g \in Int /\ born \in Int /\ backups \in Int /\ faults \in Int
              /\ faults' \in Int
          BY <1>0, <4>1
        <5>3. g > (born + 1) - backups + faults' BY <2>1, <2>6
        <5> QED BY <5>1, <5>2, <5>3
      <4>2. PICK i \in 0 .. backups : disk[i] = g BY <4>0, <4>1 DEF RotatingInv, YoungestInv
      <4>3. i # 0 BY <1>3, <4>1, <4>2
      <4> QED BY <2>2, <4>2, <4>3
    <3> QED BY <3>1, <3>2
  <2>7. YoungestInv' BY <2>6 DEF YoungestInv
  <2> QED BY <1>0, <2>1, <2>2, <2>3, <2>5, <2>7
<1> QED BY <1>2, <1>3

\* A name is freed of a file that the faults, or the number of backups, have given up on.
LEMMA FileRemoved ==
  ASSUME RotatingInv, NEW m \in 0 .. backups, disk' = [disk EXCEPT ![m] = 0],
         UNCHANGED <<backups, born, faults>>,
         m = 0 => backups = 0, m # 0 => m = backups /\ ~Moved(m),
         \A i \in 0 .. backups : Moved(i) => Moved(i)'
  PROVE  disk' \in [0 .. backups -> 0 .. born] /\ OrderInv' /\ AgeInv' /\ YoungestInv'
<1>0. /\ backups \in Nat /\ born \in Nat /\ faults \in Nat
      /\ disk \in [0 .. backups -> 0 .. born]
  BY DEF RotatingInv, RotatingTypeInv
<1>1. /\ disk' \in [0 .. backups -> 0 .. born]
      /\ \A i \in 0 .. backups : i # m => disk'[i] = disk[i]
      /\ disk'[m] = 0
  BY <1>0
<1>2. OrderInv' BY <1>1 DEF RotatingInv, OrderInv
<1>3. AgeInv'
  <2>1. ASSUME NEW i \in 0 .. backups, disk'[i] # 0
        PROVE  i <= born - disk'[i] + faults + IF Moved(i)' THEN 1 ELSE 0
    <3>1. disk'[i] = disk[i] BY <1>1, <2>1
    <3>2. disk[i] \in 0 .. born BY <1>0
    <3>3. i <= born - disk[i] + faults + IF Moved(i) THEN 1 ELSE 0
      BY <2>1, <3>1 DEF RotatingInv, AgeInv
    <3> QED BY <1>0, <3>1, <3>2, <3>3
  <2> QED BY <2>1 DEF AgeInv
<1>4. ASSUME NEW g \in 1 .. born, g > born - backups + faults
      PROVE  \E i \in 0 .. backups : disk'[i] = g
  <2>1. PICK i \in 0 .. backups : disk[i] = g BY <1>4 DEF RotatingInv, YoungestInv
  <2>2. ASSUME i = m PROVE FALSE
    <3>1. CASE m = 0 BY <1>0, <1>4, <3>1
    <3>2. CASE m # 0
      <4>1. g # 0 BY <1>0
      <4>2. m <= born - g + faults BY <2>1, <2>2, <3>2, <4>1, AgeOf
      <4> QED BY <1>0, <1>4, <3>2, <4>2
    <3> QED BY <3>1, <3>2
  <2> QED BY <1>1, <2>1, <2>2
<1> QED BY <1>1, <1>2, <1>3, <1>4 DEF YoungestInv

\* A file moves up to the next name, which is free.
LEMMA FileMoved ==
  ASSUME RotatingInv, NEW m \in 0 .. backups, m + 1 \in 0 .. backups, disk[m + 1] = 0,
         disk' = [disk EXCEPT ![m + 1] = disk[m], ![m] = 0], UNCHANGED <<backups, born, faults>>,
         ~Moved(m), Moved(m + 1)', \A i \in 0 .. backups : Moved(i) => Moved(i)'
  PROVE  /\ disk' \in [0 .. backups -> 0 .. born] /\ disk'[m] = 0
         /\ \A i \in 0 .. backups : i # m /\ i # m + 1 => disk'[i] = disk[i]
         /\ OrderInv' /\ AgeInv' /\ YoungestInv'
<1>0. /\ backups \in Nat /\ born \in Nat /\ faults \in Nat /\ m \in Nat
      /\ disk \in [0 .. backups -> 0 .. born]
  BY DEF RotatingInv, RotatingTypeInv
<1>1. /\ disk' \in [0 .. backups -> 0 .. born]
      /\ disk'[m + 1] = disk[m] /\ disk'[m] = 0
      /\ \A i \in 0 .. backups : i # m /\ i # m + 1 => disk'[i] = disk[i]
  BY <1>0
<1>2. ASSUME NEW i \in 0 .. backups, NEW j \in 0 .. backups, i < j, disk'[i] # 0, disk'[j] # 0
      PROVE  disk'[i] > disk'[j]
  <2> DEFINE was(k) == IF k = m + 1 THEN m ELSE k
  <2>1. was(i) \in 0 .. backups /\ was(j) \in 0 .. backups BY <1>0
  <2>2. i # m /\ j # m BY <1>1, <1>2
  <2>3. disk'[i] = disk[was(i)] /\ disk'[j] = disk[was(j)] BY <1>1, <2>2
  <2>4. was(i) < was(j) BY <1>0, <1>2, <2>2
  <2> HIDE DEF was
  <2> QED BY <1>2, <2>1, <2>3, <2>4 DEF RotatingInv, OrderInv
<1>3. OrderInv' BY <1>2 DEF OrderInv
<1>4. ASSUME NEW i \in 0 .. backups, disk'[i] # 0
      PROVE  i <= born - disk'[i] + faults + IF Moved(i)' THEN 1 ELSE 0
  <2>1. CASE i = m + 1
    <3>1. m <= born - disk[m] + faults BY <1>1, <1>4, <2>1, AgeOf
    <3>2. disk[m] \in 0 .. born BY <1>0
    <3> QED BY <1>0, <1>1, <2>1, <3>1, <3>2
  <2>2. CASE i # m + 1
    <3>1. disk'[i] = disk[i] /\ disk[i] \in 0 .. born BY <1>0, <1>1, <1>4, <2>2
    <3>2. i <= born - disk[i] + faults + IF Moved(i) THEN 1 ELSE 0
      BY <1>4, <3>1 DEF RotatingInv, AgeInv
    <3> QED BY <1>0, <3>1, <3>2
  <2> QED BY <2>1, <2>2
<1>5. AgeInv' BY <1>4 DEF AgeInv
<1>6. ASSUME NEW g \in 1 .. born, g > born - backups + faults
      PROVE  \E i \in 0 .. backups : disk'[i] = g
  <2>1. PICK i \in 0 .. backups : disk[i] = g BY <1>6 DEF RotatingInv, YoungestInv
  <2>2. CASE i = m BY <1>1, <2>1, <2>2
  <2>3. CASE i # m
    <3>1. i # m + 1 BY <1>0, <2>1
    <3> QED BY <1>1, <2>1, <2>3, <3>1
  <2> QED BY <2>2, <2>3
<1>7. YoungestInv' BY <1>6 DEF YoungestInv
<1> QED BY <1>1, <1>3, <1>5, <1>7

\* The lines are left alone.
LEMMA LinesKept ==
  ASSUME RotatingInv, UNCHANGED <<last, line, buf, home, written>>, step' \in FileSteps,
         step' # "idle" => step # "idle", step' # "line" /\ step' # "idle" => line < last
  PROVE  LinesInv'
  BY DEF RotatingInv, LinesInv

\* What a write leaves in a file stays there, whatever else is written.
LEMMA WrittenKeeps ==
  ASSUME RotatingInv, disk[0] # 0, NEW S, Written(S)
  PROVE  /\ home' \in [Lines -> Nat]
         /\ \A l \in Lines : l \in S \/ home[l] # 0 => home'[l] # 0
<1>1. /\ backups \in Nat /\ born \in Nat /\ disk \in [0 .. backups -> 0 .. born]
      /\ home \in [Lines -> Nat]
  BY DEF RotatingInv, RotatingTypeInv
<1>2. disk[0] \in Nat BY <1>1
<1> QED BY <1>1, <1>2 DEF Written

LEMMA RotatingStep == RotatingAssumption /\ RotatingInv /\ [RotatingNext]_fileVars => RotatingInv'
<1> SUFFICES ASSUME RotatingAssumption, RotatingInv, [RotatingNext]_fileVars PROVE RotatingInv'
  OBVIOUS
<1>0. /\ backups \in Nat /\ born \in Nat /\ faults \in Nat /\ shift \in Int
      /\ last \in Nat /\ line \in Nat /\ last <= MaxLines
      /\ disk \in [0 .. backups -> 0 .. born] /\ home \in [Lines -> Nat]
      /\ written \subseteq Lines /\ step \in FileSteps
      /\ MaxLines \in Nat /\ BatchLines \in Nat /\ BatchLines # 0
  BY DEF RotatingInv, RotatingTypeInv, RotatingAssumption
<1>f. Fault => faults' \in Nat /\ faults' > faults /\ faults' >= faults BY <1>0 DEF Fault
<1>1. CASE BeginBatch
  <2>1. /\ step = "idle" /\ last + BatchLines <= MaxLines /\ last' = last + BatchLines /\ line' = last
        /\ UNCHANGED <<backups, shift, buf, home, written>>
        /\ \A i \in 0 .. backups : ~Moved(i)
    BY <1>1 DEF BeginBatch, Moved
  <2>2. last' \in Nat /\ line' \in Nat /\ last' <= MaxLines BY <1>0, <2>1
  <2>3. LinesInv'
    <3>1. \A l \in Lines : ~(last' - BatchLines < l /\ l <= line') BY <1>0, <2>1 DEF Lines
    <3>2. BatchLines <= last' /\ last' - BatchLines <= line' /\ line' <= last' BY <1>0, <2>1
    <3>3. step' \in {"idle", "line"} BY <1>1, <2>1 DEF BeginBatch
    <3> QED BY <2>1, <3>1, <3>2, <3>3 DEF RotatingInv, LinesInv
  <2>4. CASE /\ stream = "open" /\ step' = "line"
             /\ UNCHANGED <<disk, born, stream, size, faults>>
    <3>1. OrderInv' /\ AgeInv' /\ YoungestInv' BY <1>0, <2>1, <2>4, FilesKept
    <3>2. RotatingTypeInv' /\ PlaceInv'
      BY <1>0, <2>1, <2>2, <2>4 DEF RotatingInv, RotatingTypeInv, PlaceInv, FileSteps
    <3> QED BY <2>3, <3>1, <3>2 DEF RotatingInv
  <2>5. CASE stream = "shut" /\ OpenActive /\ step' = "line" /\ UNCHANGED faults
    <3>1. /\ born' \in Nat /\ disk' \in [0 .. backups -> 0 .. born'] /\ disk'[0] # 0
          /\ stream' = "open" /\ OrderInv' /\ AgeInv' /\ YoungestInv'
      BY <1>0, <2>1, <2>5, FileOpened DEF FileSteps
    <3>2. RotatingTypeInv' /\ PlaceInv'
      BY <1>0, <2>1, <2>2, <2>5, <3>1 DEF RotatingTypeInv, PlaceInv, FileSteps
    <3> QED BY <2>3, <3>1, <3>2 DEF RotatingInv
  <2>6. CASE stream = "shut" /\ Fault /\ UNCHANGED <<disk, born, stream, size, step>>
    <3>1. OrderInv' /\ AgeInv' /\ YoungestInv' BY <1>f, <2>1, <2>6, FilesKept
    <3>2. RotatingTypeInv' /\ PlaceInv'
      BY <1>0, <1>f, <2>1, <2>2, <2>6 DEF RotatingInv, RotatingTypeInv, PlaceInv
    <3> QED BY <2>3, <3>1, <3>2 DEF RotatingInv
  <2> QED BY <1>1, <2>4, <2>5, <2>6 DEF BeginBatch
<1>2. CASE WriteLine
  <2>1. /\ step \in {"line", "write"} /\ line < last /\ step' = "line"
        /\ line' = line + 1 /\ buf' = buf \cup {line + 1}
        /\ UNCHANGED <<backups, disk, born, stream, shift, last, home, faults, written>>
    BY <1>2 DEF WriteLine, RotatingInv, LinesInv
  <2>2. OrderInv' /\ AgeInv' /\ YoungestInv' BY <1>0, <2>1, FilesKept DEF Moved
  <2>3. RotatingTypeInv' /\ PlaceInv'
    BY <1>0, <2>1 DEF RotatingInv, RotatingTypeInv, PlaceInv, FileSteps
  <2>4. LinesInv'
    <3>1. \A l \in Lines : l <= line' => l <= line \/ l = line + 1 BY <1>0, <2>1 DEF Lines
    <3>2. last' - BatchLines <= line' /\ line' <= last' BY <1>0, <2>1 DEF RotatingInv, LinesInv
    <3> QED BY <2>1, <3>1, <3>2 DEF RotatingInv, LinesInv
  <2> QED BY <2>2, <2>3, <2>4 DEF RotatingInv
<1>3. CASE BeginRotate
  <2>1. /\ step = "line" /\ line < last /\ step' = "shift" /\ shift' = backups - 1
        /\ Written(buf) /\ stream' = "shut"
        /\ UNCHANGED <<backups, disk, born, last, line, faults, written>>
    BY <1>3 DEF BeginRotate
  <2>2. disk[0] # 0 BY <2>1 DEF RotatingInv, PlaceInv
  <2>3. OrderInv' /\ AgeInv' /\ YoungestInv' BY <1>0, <2>1, FilesKept DEF Moved
  <2>4. /\ home' \in [Lines -> Nat]
        /\ \A l \in Lines : l \in buf \/ home[l] # 0 => home'[l] # 0
    BY <2>1, <2>2, WrittenKeeps
  <2>5. RotatingTypeInv' BY <1>0, <2>1, <2>4 DEF RotatingInv, RotatingTypeInv, FileSteps
  <2>6. PlaceInv' BY <1>0, <2>1, <2>2 DEF PlaceInv
  <2>7. LinesInv' BY <1>0, <2>1, <2>4 DEF RotatingInv, LinesInv
  <2> QED BY <2>3, <2>5, <2>6, <2>7 DEF RotatingInv
<1>4. CASE ShiftBackups
  <2>1. /\ step = "shift" /\ shift >= 1 /\ shift \in 0 .. backups - 1
        /\ UNCHANGED <<backups, born, stream, step, last, line, buf, home, faults, written>>
        /\ disk[0] # 0 /\ stream = "shut"
        /\ shift + 1 < backups => disk[shift + 1] = 0
    BY <1>0, <1>4 DEF ShiftBackups, RotatingInv, PlaceInv
  <2>2. LinesInv' BY <2>1, LinesKept DEF RotatingInv, LinesInv, FileSteps
  <2>3. shift \in 0 .. backups /\ shift + 1 \in 0 .. backups /\ shift # 0 BY <1>0, <2>1
  <2>4. ~Moved(shift) /\ ~Moved(shift + 1) BY <1>0, <2>1 DEF Moved
  <2>5. CASE disk[shift] = 0 /\ shift' = shift - 1 /\ UNCHANGED disk
    <3>1. \A i \in 0 .. backups : Moved(i) => Moved(i)' BY <1>0, <2>1, <2>5 DEF Moved
    <3>2. OrderInv' /\ AgeInv' /\ YoungestInv' BY <1>0, <2>1, <2>5, <3>1, FilesKept
    <3>3. RotatingTypeInv' /\ PlaceInv'
      BY <1>0, <2>1, <2>5 DEF RotatingInv, RotatingTypeInv, PlaceInv
    <3> QED BY <2>2, <3>2, <3>3 DEF RotatingInv
  <2>6. CASE /\ disk[shift] # 0 /\ disk[shift + 1] # 0
             /\ disk' = [disk EXCEPT ![shift + 1] = 0] /\ UNCHANGED shift
    <3>1. shift + 1 = backups BY <1>0, <2>1, <2>6
    <3>2. \A i \in 0 .. backups : Moved(i) => Moved(i)' BY <2>1, <2>6 DEF Moved
    <3>3. /\ disk' \in [0 .. backups -> 0 .. born] /\ OrderInv' /\ AgeInv' /\ YoungestInv'
      BY <1>0, <2>1, <2>3, <2>4, <2>6, <3>1, <3>2, FileRemoved
    <3>4. disk'[0] = disk[0] BY <1>0, <2>1, <2>6
    <3>5. RotatingTypeInv' BY <2>1, <2>6, <3>3 DEF RotatingInv, RotatingTypeInv
    <3>6. PlaceInv' BY <1>0, <2>1, <2>6, <3>1, <3>4 DEF PlaceInv
    <3> QED BY <2>2, <3>3, <3>5, <3>6 DEF RotatingInv
  <2>7. CASE /\ disk[shift] # 0 /\ disk[shift + 1] = 0
             /\ disk' = [disk EXCEPT ![shift + 1] = disk[shift], ![shift] = 0]
             /\ shift' = shift - 1
    <3>0. PICK m \in 0 .. backups : m = shift BY <2>3
    <3>1. \A i \in 0 .. backups : Moved(i) => Moved(i)' BY <1>0, <2>1, <2>7 DEF Moved
    <3>2. Moved(m + 1)' BY <1>0, <2>1, <2>7, <3>0 DEF Moved
    <3>3. /\ disk' \in [0 .. backups -> 0 .. born] /\ disk'[m] = 0
          /\ \A i \in 0 .. backups : i # m /\ i # m + 1 => disk'[i] = disk[i]
          /\ OrderInv' /\ AgeInv' /\ YoungestInv'
      <4>1. /\ m + 1 \in 0 .. backups /\ disk[m + 1] = 0 /\ ~Moved(m)
            /\ disk' = [disk EXCEPT ![m + 1] = disk[m], ![m] = 0]
        BY <2>3, <2>4, <2>7, <3>0
      <4> QED BY <2>1, <3>1, <3>2, <4>1, FileMoved
    <3>4. disk'[0] = disk[0] BY <1>0, <2>1, <3>0, <3>3
    <3>5. RotatingTypeInv' BY <1>0, <2>1, <2>7, <3>3 DEF RotatingInv, RotatingTypeInv
    <3>6. PlaceInv' BY <1>0, <2>1, <2>7, <3>0, <3>3, <3>4 DEF PlaceInv
    <3> QED BY <2>2, <3>3, <3>5, <3>6 DEF RotatingInv
  <2> QED BY <1>4, <2>5, <2>6, <2>7 DEF ShiftBackups
<1>5. CASE ShiftActive
  <2>1. /\ step = "shift" /\ shift < 1 /\ shift \in -1 .. backups - 1 /\ disk[0] # 0
        /\ UNCHANGED <<backups, born, stream, shift, last, line, buf, home, faults, written>>
        /\ backups > 0 => shift = 0
        /\ shift + 1 < backups => disk[shift + 1] = 0
    BY <1>0, <1>5 DEF ShiftActive, RotatingInv, PlaceInv
  <2>0. stream = "shut" BY <2>1 DEF RotatingInv, PlaceInv
  <2>2. step' \in {"shift", "reopen"} BY <1>5, <2>1 DEF ShiftActive
  <2>3. LinesInv' BY <2>1, <2>2, LinesKept DEF RotatingInv, LinesInv, FileSteps
  <2>4. \A i \in 0 .. backups : Moved(i) => Moved(i)' BY <2>1, <2>2 DEF Moved
  <2>5. CASE backups > 0 /\ disk[1] # 0 /\ disk' = [disk EXCEPT ![1] = 0] /\ UNCHANGED step
    <3>1. backups = 1 /\ 1 \in 0 .. backups BY <1>0, <2>1, <2>5
    <3>2. ~Moved(1) BY <2>1, <3>1 DEF Moved
    <3>3. /\ disk' \in [0 .. backups -> 0 .. born] /\ OrderInv' /\ AgeInv' /\ YoungestInv'
      BY <2>1, <2>4, <2>5, <3>1, <3>2, FileRemoved
    <3>4. disk'[0] = disk[0] BY <1>0, <2>5
    <3>5. RotatingTypeInv' BY <2>1, <2>5, <3>3 DEF RotatingInv, RotatingTypeInv
    <3>6. PlaceInv' BY <1>0, <2>0, <2>1, <2>5, <3>1, <3>4 DEF PlaceInv
    <3> QED BY <2>3, <3>3, <3>5, <3>6 DEF RotatingInv
  <2>6. CASE /\ backups > 0 /\ disk[1] = 0 /\ step' = "reopen"
             /\ disk' = [disk EXCEPT ![1] = disk[0], ![0] = 0]
    <3>1. 0 \in 0 .. backups /\ 0 + 1 \in 0 .. backups /\ 0 + 1 = 1 BY <1>0, <2>6
    <3>2. ~Moved(0) /\ Moved(0 + 1)' BY <1>0, <2>1, <2>6 DEF Moved
    <3>3. /\ disk' \in [0 .. backups -> 0 .. born] /\ disk'[0] = 0
          /\ OrderInv' /\ AgeInv' /\ YoungestInv'
      BY <2>1, <2>4, <2>6, <3>1, <3>2, FileMoved
    <3>4. RotatingTypeInv' BY <2>1, <2>6, <3>3 DEF RotatingInv, RotatingTypeInv, FileSteps
    <3>5. PlaceInv' BY <2>0, <2>1, <2>6, <3>3 DEF PlaceInv
    <3> QED BY <2>3, <3>3, <3>4, <3>5 DEF RotatingInv
  <2>7. CASE backups = 0 /\ disk' = [disk EXCEPT ![0] = 0] /\ step' = "reopen"
    <3>1. 0 \in 0 .. backups BY <1>0
    <3>2. /\ disk' \in [0 .. backups -> 0 .. born] /\ OrderInv' /\ AgeInv' /\ YoungestInv'
      BY <2>1, <2>4, <2>7, <3>1, FileRemoved
    <3>3. disk'[0] = 0 BY <1>0, <2>7, <3>1
    <3>4. RotatingTypeInv' BY <2>1, <2>7, <3>2 DEF RotatingInv, RotatingTypeInv, FileSteps
    <3>5. PlaceInv' BY <2>0, <2>1, <2>7, <3>3 DEF PlaceInv
    <3> QED BY <2>3, <3>2, <3>4, <3>5 DEF RotatingInv
  <2> QED BY <1>5, <2>5, <2>6, <2>7 DEF ShiftActive
<1>6. CASE Reopen
  <2>1. /\ step = "reopen" /\ OpenActive /\ step' = "write" /\ disk[0] = 0
        /\ UNCHANGED <<backups, shift, last, line, buf, home, faults, written>>
    BY <1>6 DEF Reopen, RotatingInv, PlaceInv
  <2>2. /\ born' \in Nat /\ disk' \in [0 .. backups -> 0 .. born'] /\ disk'[0] # 0
        /\ stream' = "open" /\ OrderInv' /\ AgeInv' /\ YoungestInv'
    BY <1>0, <2>1, FileOpened DEF FileSteps
  <2>3. RotatingTypeInv' /\ PlaceInv' BY <1>0, <2>1, <2>2 DEF RotatingTypeInv, PlaceInv, FileSteps
  <2>4. LinesInv' BY <2>1, LinesKept DEF RotatingInv, LinesInv, FileSteps
  <2> QED BY <2>2, <2>3, <2>4 DEF RotatingInv
<1>7. CASE RotateFails
  <2>1. /\ step \in {"shift", "reopen"} /\ step' = "recover" /\ Fault
        /\ UNCHANGED <<backups, disk, born, stream, shift, last, line, buf, home, written>>
    BY <1>7 DEF RotateFails
  <2>2. OrderInv' /\ AgeInv' /\ YoungestInv' BY <1>f, <2>1, FilesKept
  <2>3. RotatingTypeInv' /\ PlaceInv'
    BY <1>0, <1>f, <2>1 DEF RotatingInv, RotatingTypeInv, PlaceInv, FileSteps
  <2>4. LinesInv' BY <2>1, LinesKept DEF RotatingInv, LinesInv, FileSteps
  <2> QED BY <2>2, <2>3, <2>4 DEF RotatingInv
<1>8. CASE Recover
  <2>1. /\ step = "recover" /\ step' \in {"write", "idle"}
        /\ UNCHANGED <<backups, shift, last, line, buf, home, written>>
        /\ \A i \in 0 .. backups : ~Moved(i)
    BY <1>8 DEF Recover, Moved
  <2>2. LinesInv' BY <2>1, LinesKept DEF RotatingInv, LinesInv, FileSteps
  <2>3. CASE OpenActive /\ step' = "write" /\ UNCHANGED faults
    <3>1. /\ born' \in Nat /\ disk' \in [0 .. backups -> 0 .. born'] /\ disk'[0] # 0
          /\ stream' = "open" /\ OrderInv' /\ AgeInv' /\ YoungestInv'
      BY <1>0, <2>1, <2>3, FileOpened DEF FileSteps
    <3>2. RotatingTypeInv' /\ PlaceInv'
      BY <1>0, <2>1, <2>3, <3>1 DEF RotatingTypeInv, PlaceInv, FileSteps
    <3> QED BY <2>2, <3>1, <3>2 DEF RotatingInv
  <2>4. CASE Fault /\ step' = "idle" /\ UNCHANGED <<disk, born, stream>>
    <3>1. OrderInv' /\ AgeInv' /\ YoungestInv' BY <1>f, <2>1, <2>4, FilesKept
    <3>2. RotatingTypeInv' /\ PlaceInv'
      BY <1>0, <1>f, <2>1, <2>4 DEF RotatingInv, RotatingTypeInv, PlaceInv, FileSteps
    <3> QED BY <2>2, <3>1, <3>2 DEF RotatingInv
  <2> QED BY <1>8, <2>3, <2>4 DEF Recover
<1>9. CASE EndBatch
  <2>1. /\ step = "line" /\ line = last /\ Written(buf) /\ step' = "idle"
        /\ written' = written \cup InHand
        /\ UNCHANGED <<backups, disk, born, stream, shift, last, line, faults>>
    BY <1>9 DEF EndBatch
  <2>2. disk[0] # 0 BY <2>1 DEF RotatingInv, PlaceInv
  <2>3. OrderInv' /\ AgeInv' /\ YoungestInv' BY <1>0, <2>1, FilesKept DEF Moved
  <2>4. /\ home' \in [Lines -> Nat]
        /\ \A l \in Lines : l \in buf \/ home[l] # 0 => home'[l] # 0
    BY <2>1, <2>2, WrittenKeeps
  <2>5. ASSUME NEW l \in InHand PROVE l \in Lines /\ home'[l] # 0
    <3>1. BatchLines <= last BY <2>1 DEF RotatingInv, LinesInv
    <3>2. l \in Lines /\ last - BatchLines < l /\ l <= line BY <1>0, <2>1, <3>1 DEF InHand, Lines
    <3>3. l \in buf \/ home[l] # 0 BY <2>1, <3>2 DEF RotatingInv, LinesInv
    <3> QED BY <2>4, <3>2, <3>3
  <2>6. RotatingTypeInv' BY <1>0, <2>1, <2>4, <2>5 DEF RotatingInv, RotatingTypeInv, FileSteps
  <2>7. PlaceInv' BY <2>1, <2>2 DEF PlaceInv
  <2>8. LinesInv' BY <1>0, <2>1, <2>4, <2>5 DEF RotatingInv, LinesInv
  <2> QED BY <2>3, <2>6, <2>7, <2>8 DEF RotatingInv
<1>10. CASE WriteFails
  <2>1. /\ step = "line" /\ Fault /\ step' = "idle"
        /\ UNCHANGED <<backups, disk, born, stream, shift, last, line, written>>
    BY <1>10 DEF WriteFails
  <2>2. PICK S \in SUBSET buf : Written(S) BY <1>10 DEF WriteFails
  <2>3. disk[0] # 0 BY <2>1 DEF RotatingInv, PlaceInv
  <2>4. OrderInv' /\ AgeInv' /\ YoungestInv' BY <1>f, <2>1, FilesKept
  <2>5. /\ home' \in [Lines -> Nat]
        /\ \A l \in Lines : home[l] # 0 => home'[l] # 0
    BY <2>2, <2>3, WrittenKeeps
  <2>6. RotatingTypeInv' BY <1>0, <1>f, <2>1, <2>5 DEF RotatingInv, RotatingTypeInv, FileSteps
  <2>7. PlaceInv' BY <2>1, <2>3 DEF PlaceInv
  <2>8. LinesInv' BY <1>0, <2>1, <2>5 DEF RotatingInv, LinesInv
  <2> QED BY <2>4, <2>6, <2>7, <2>8 DEF RotatingInv
<1>11. CASE CloseFile
  <2>1. /\ step = "idle" /\ stream' \in {"open", "shut"}
        /\ stream' = "open" => stream = "open"
        /\ UNCHANGED <<backups, disk, born, step, shift, last, line, written>>
    BY <1>0, <1>11 DEF CloseFile, RotatingInv, RotatingTypeInv
  <2>2. faults' \in Nat /\ faults' >= faults BY <1>0, <1>f, <1>11 DEF CloseFile
  <2>3. OrderInv' /\ AgeInv' /\ YoungestInv' BY <2>1, <2>2, FilesKept DEF Moved
  <2>4. /\ home' \in [Lines -> Nat]
        /\ \A l \in Lines : home[l] # 0 => home'[l] # 0
    <3>1. CASE stream = "shut" /\ UNCHANGED home BY <1>0, <3>1
    <3>2. CASE stream = "open" /\ \E S \in SUBSET buf : Written(S)
      <4>1. disk[0] # 0 BY <3>2 DEF RotatingInv, PlaceInv
      <4> QED BY <3>2, <4>1, WrittenKeeps
    <3> QED BY <1>11, <3>1, <3>2 DEF CloseFile
  <2>5. RotatingTypeInv' /\ PlaceInv' /\ LinesInv'
    BY <1>0, <2>1, <2>2, <2>4 DEF RotatingInv, RotatingTypeInv, PlaceInv, LinesInv
  <2> QED BY <2>3, <2>5 DEF RotatingInv
<1>12. CASE CrashRestart
  <2>1. /\ Fault /\ OpenActive /\ step' = "idle"
        /\ UNCHANGED <<backups, shift, last, line, home, written>>
    BY <1>12 DEF CrashRestart
  <2>2. /\ born' \in Nat /\ disk' \in [0 .. backups -> 0 .. born'] /\ disk'[0] # 0
        /\ stream' = "open" /\ OrderInv' /\ AgeInv' /\ YoungestInv'
    BY <1>f, <2>1, FileOpened DEF FileSteps
  <2>3. RotatingTypeInv' /\ PlaceInv'
    BY <1>0, <1>f, <2>1, <2>2 DEF RotatingTypeInv, PlaceInv, FileSteps
  <2>4. LinesInv' BY <2>1 DEF RotatingInv, LinesInv
  <2> QED BY <2>2, <2>3, <2>4 DEF RotatingInv
<1>13. CASE UNCHANGED fileVars
  <2>1. OrderInv' /\ AgeInv' /\ YoungestInv' BY <1>0, <1>13, FilesKept DEF fileVars, Moved
  <2> QED BY <1>13, <2>1
          DEF fileVars, RotatingInv, RotatingTypeInv, PlaceInv, LinesInv
<1> QED
  BY <1>1, <1>2, <1>3, <1>4, <1>5, <1>6, <1>7, <1>8, <1>9, <1>10, <1>11, <1>12, <1>13
     DEF RotatingNext

LEMMA RotatingInitially == RotatingAssumption /\ RotatingInit => RotatingInv
<1> SUFFICES ASSUME RotatingAssumption, RotatingInit PROVE RotatingInv OBVIOUS
<1>1. /\ backups \in Nat /\ born = 1 /\ faults = 0 /\ shift = 0 /\ last = 0 /\ line = 0
      /\ MaxLines \in Nat /\ step = "idle" /\ stream = "open" /\ written = {}
      /\ home = [l \in Lines |-> 0]
      /\ disk = [i \in 0 .. backups |-> IF i = 0 THEN 1 ELSE 0]
  BY DEF RotatingInit, RotatingAssumption
<1>2. /\ 0 \in 0 .. backups /\ disk \in [0 .. backups -> 0 .. born] /\ disk[0] = 1
      /\ \A i \in 0 .. backups : i # 0 => disk[i] = 0
  BY <1>1
<1>3. RotatingTypeInv BY <1>1, <1>2 DEF RotatingTypeInv, FileSteps
<1>4. PlaceInv /\ LinesInv BY <1>1, <1>2 DEF PlaceInv, LinesInv
<1>5. OrderInv /\ AgeInv /\ YoungestInv
  BY <1>1, <1>2 DEF OrderInv, AgeInv, YoungestInv, Moved
<1> QED BY <1>3, <1>4, <1>5 DEF RotatingInv

\* Of what a rotation found, only the oldest can be gone; and while the name it is at is taken,
\* nothing is.
FoundInv ==
    /\ found \subseteq 1 .. born
    /\ \A g \in found \ OnDisk(disk), h \in found : g <= h
    /\ step = "shift" /\ disk[shift + 1] # 0 => found \subseteq OnDisk(disk)

\* Outside the loop no file disappears.
LEMMA FoundKept ==
  ASSUME RotatingInv, FoundInv, UNCHANGED found, born' \in Nat, born' >= born,
         OnDisk(disk) \subseteq OnDisk(disk)',
         step' = "shift" => disk'[shift' + 1] = 0
  PROVE  FoundInv'
<1>1. born \in Nat BY DEF RotatingInv, RotatingTypeInv
<1> QED BY <1>1 DEF FoundInv

LEMMA FoundOpened ==
  ASSUME RotatingInv, FoundInv, UNCHANGED <<backups, found>>, OpenActive, step' # "shift"
  PROVE  FoundInv'
<1>1. /\ backups \in Nat /\ born \in Nat /\ disk \in [0 .. backups -> 0 .. born]
      /\ born' \in Nat /\ born' >= born
  BY DEF RotatingInv, RotatingTypeInv, OpenActive
<1>2. \A i \in 0 .. backups : disk[i] # 0 => disk'[i] = disk[i] BY <1>1 DEF OpenActive
<1>3. OnDisk(disk) \subseteq OnDisk(disk)' BY <1>2 DEF OnDisk
<1> QED BY <1>1, <1>3, FoundKept

\* The last name is freed: its file is the oldest.
LEMMA FoundRemoved ==
  ASSUME RotatingInv, FoundInv, step = "shift", shift + 1 = backups, disk[backups] # 0,
         disk' = [disk EXCEPT ![backups] = 0], UNCHANGED <<backups, born, found>>,
         step' = "shift" => shift' = shift
  PROVE  FoundInv'
<1>1. backups \in Nat /\ born \in Nat /\ disk \in [0 .. backups -> 0 .. born]
  BY DEF RotatingInv, RotatingTypeInv
<1>2. backups \in 0 .. backups BY <1>1
<1>3. found \subseteq OnDisk(disk) /\ found \subseteq 1 .. born BY DEF FoundInv
<1>4. disk'[backups] = 0 /\ \A i \in 0 .. backups : i # backups => disk'[i] = disk[i]
  BY <1>1, <1>2
<1>5. ASSUME NEW g \in found, g \notin OnDisk(disk)', NEW h \in found
      PROVE  g <= h
  <2>1. PICK i \in 0 .. backups : disk[i] = g BY <1>3 DEF OnDisk
  <2>2. g # 0 /\ h # 0 /\ g \in Nat /\ h \in Nat BY <1>1, <1>3
  <2>3. i = backups BY <1>4, <1>5, <2>1, <2>2 DEF OnDisk
  <2>4. PICK j \in 0 .. backups : disk[j] = h BY <1>3 DEF OnDisk
  <2>5. CASE j = backups BY <2>1, <2>2, <2>3, <2>4, <2>5
  <2>6. CASE j # backups
    <3>1. j < backups BY <1>1, <2>6
    <3>2. disk[j] > disk[backups] BY <1>2, <2>1, <2>2, <2>3, <2>4, <3>1 DEF RotatingInv, OrderInv
    <3> QED BY <2>1, <2>2, <2>3, <2>4, <3>2
  <2> QED BY <2>5, <2>6
<1> QED BY <1>3, <1>4, <1>5 DEF FoundInv

\* A file that moves up to a free name stays on the disk.
LEMMA FoundMoved ==
  ASSUME RotatingInv, FoundInv, NEW m \in 0 .. backups, m + 1 \in 0 .. backups, disk[m + 1] = 0,
         disk' = [disk EXCEPT ![m + 1] = disk[m], ![m] = 0], UNCHANGED <<backups, born, found>>,
         step' = "shift" => shift' + 1 = m
  PROVE  FoundInv'
<1>1. backups \in Nat /\ born \in Nat /\ disk \in [0 .. backups -> 0 .. born] /\ m \in Nat
  BY DEF RotatingInv, RotatingTypeInv
<1>2. /\ disk'[m + 1] = disk[m] /\ disk'[m] = 0
      /\ \A i \in 0 .. backups : i # m /\ i # m + 1 => disk'[i] = disk[i]
  BY <1>1
<1>3. ASSUME NEW g \in OnDisk(disk) PROVE g \in OnDisk(disk)'
  <2>1. PICK i \in 0 .. backups : disk[i] = g /\ g # 0 BY DEF OnDisk
  <2>2. CASE i = m BY <1>2, <2>1, <2>2 DEF OnDisk
  <2>3. CASE i # m
    <3>1. i # m + 1 BY <2>1
    <3> QED BY <1>2, <2>1, <2>3, <3>1 DEF OnDisk
  <2> QED BY <2>2, <2>3
<1>4. step' = "shift" => disk'[shift' + 1] = 0 BY <1>2
<1>5. born' \in Nat /\ born' >= born /\ UNCHANGED found BY <1>1
<1>6. OnDisk(disk) \subseteq OnDisk(disk)' BY <1>3
<1> QED BY <1>4, <1>5, <1>6, FoundKept

LEMMA FoundStep ==
  ASSUME RotatingInv, FoundInv, [RotatingNext]_fileVars
  PROVE  FoundInv'
<1>0. /\ backups \in Nat /\ born \in Nat /\ shift \in Int
      /\ disk \in [0 .. backups -> 0 .. born]
  BY DEF RotatingInv, RotatingTypeInv
<1>1. CASE BeginRotate
  <2>1. found' = OnDisk(disk)' /\ UNCHANGED <<backups, disk, born>>
    BY <1>1 DEF BeginRotate, OnDisk
  <2>2. OnDisk(disk) \subseteq 1 .. born BY <1>0 DEF OnDisk
  <2>3. found' \subseteq 1 .. born' BY <2>1, <2>2 DEF OnDisk
  <2> QED BY <2>1, <2>3 DEF FoundInv
<1>2. CASE ShiftBackups
  <2>1. /\ step = "shift" /\ shift >= 1 /\ shift \in 0 .. backups - 1
        /\ UNCHANGED <<backups, born, step, found>>
        /\ shift + 1 < backups => disk[shift + 1] = 0
    BY <1>0, <1>2 DEF ShiftBackups, RotatingInv, PlaceInv
  <2>2. shift \in 0 .. backups /\ shift + 1 \in 0 .. backups BY <1>0, <2>1
  <2>3. CASE disk[shift] = 0 /\ shift' = shift - 1 /\ UNCHANGED disk
    <3>1. shift' + 1 = shift /\ born' >= born BY <1>0, <2>1, <2>3
    <3> QED BY <1>0, <2>1, <2>3, <3>1, FoundKept DEF OnDisk
  <2>4. CASE /\ disk[shift] # 0 /\ disk[shift + 1] # 0
             /\ disk' = [disk EXCEPT ![shift + 1] = 0] /\ UNCHANGED shift
    <3>1. shift + 1 = backups BY <1>0, <2>1, <2>4
    <3> QED BY <2>1, <2>4, <3>1, FoundRemoved
  <2>5. CASE /\ disk[shift] # 0 /\ disk[shift + 1] = 0
             /\ disk' = [disk EXCEPT ![shift + 1] = disk[shift], ![shift] = 0]
             /\ shift' = shift - 1
    <3>1. shift' + 1 = shift BY <1>0, <2>5
    <3> QED BY <2>1, <2>2, <2>5, <3>1, FoundMoved
  <2> QED BY <1>2, <2>3, <2>4, <2>5 DEF ShiftBackups
<1>3. CASE ShiftActive
  <2>1. /\ step = "shift" /\ shift < 1 /\ shift \in -1 .. backups - 1
        /\ UNCHANGED <<backups, born, shift, found>>
        /\ backups > 0 => shift = 0
        /\ shift + 1 < backups => disk[shift + 1] = 0
        /\ disk[0] # 0
    BY <1>0, <1>3 DEF ShiftActive, RotatingInv, PlaceInv
  <2>2. CASE backups > 0 /\ disk[1] # 0 /\ disk' = [disk EXCEPT ![1] = 0] /\ UNCHANGED step
    <3>1. backups = 1 /\ shift + 1 = backups BY <1>0, <2>1, <2>2
    <3> QED BY <2>1, <2>2, <3>1, FoundRemoved
  <2>3. CASE /\ backups > 0 /\ disk[1] = 0 /\ step' = "reopen"
             /\ disk' = [disk EXCEPT ![1] = disk[0], ![0] = 0]
    <3>1. 0 \in 0 .. backups /\ 0 + 1 \in 0 .. backups /\ 0 + 1 = 1 BY <1>0, <2>3
    <3> QED BY <2>1, <2>3, <3>1, FoundMoved
  <2>4. CASE backups = 0 /\ disk' = [disk EXCEPT ![0] = 0] /\ step' = "reopen"
    <3>1. shift + 1 = backups BY <1>0, <2>1, <2>4
    <3> QED BY <2>1, <2>4, <3>1, FoundRemoved
  <2> QED BY <1>3, <2>2, <2>3, <2>4 DEF ShiftActive
<1>4. CASE /\ UNCHANGED <<backups, found>>
           /\ UNCHANGED <<disk, born>> \/ OpenActive
           /\ step' # "shift"
  <2>1. CASE UNCHANGED <<disk, born>>
    <3>1. OnDisk(disk)' = OnDisk(disk) /\ born' \in Nat /\ born' >= born
      BY <1>0, <1>4, <2>1 DEF OnDisk
    <3> QED BY <1>4, <3>1, FoundKept
  <2>2. CASE OpenActive BY <1>4, <2>2, FoundOpened
  <2> QED BY <1>4, <2>1, <2>2
<1>5. CASE UNCHANGED fileVars BY <1>5 DEF fileVars, FoundInv, OnDisk
<1>6. ASSUME \/ BeginBatch \/ WriteLine \/ Reopen \/ RotateFails \/ Recover
             \/ EndBatch \/ WriteFails \/ CloseFile \/ CrashRestart
      PROVE  FoundInv'
  <2>1. UNCHANGED <<backups, found>> /\ (UNCHANGED <<disk, born>> \/ OpenActive)
    BY <1>6 DEF BeginBatch, WriteLine, Reopen, RotateFails, Recover, EndBatch, WriteFails,
                CloseFile, CrashRestart
  <2>2. step' # "shift"
    BY <1>6 DEF BeginBatch, WriteLine, Reopen, RotateFails, Recover, EndBatch, WriteFails,
                CloseFile, CrashRestart
  <2> QED BY <1>4, <2>1, <2>2
<1> QED BY <1>1, <1>2, <1>3, <1>5, <1>6 DEF RotatingNext

LEMMA FoundInitially == RotatingInit => FoundInv
  BY DEF RotatingInit, FoundInv

\* Whatever the number of backups, and wherever a system call fails or the process dies within a
\* rotation: the backups keep the order of their age, every line of an emit() that returned has
\* reached a file, and a rotation removes no file but the oldest it found, so that each fault costs
\* at most one of the youngest backup_count files (RotatingFileSink.emit, ._rotate,
\* ._rotate_or_continue, ._ensure_open, .close).
THEOREM RotationSafe == RotatingSpec => []RotationKeepsLines
<1>1. RotatingInv /\ FoundInv => RotationKeepsLines
  <2> SUFFICES ASSUME RotatingInv, FoundInv PROVE RotationKeepsLines OBVIOUS
  <2>1. ASSUME NEW g \in 1 .. born, g > born - backups + faults PROVE g \in OnDisk(disk)
    <3>1. PICK i \in 0 .. backups : disk[i] = g BY <2>1 DEF RotatingInv, YoungestInv
    <3>2. born \in Nat BY DEF RotatingInv, RotatingTypeInv
    <3>3. g # 0 BY <3>2
    <3> QED BY <3>1, <3>3 DEF OnDisk
  <2>2. \A l \in written : home[l] # 0 BY DEF RotatingInv, LinesInv
  <2>3. \A g \in found \ OnDisk(disk), h \in found : g <= h BY DEF FoundInv
  <2> QED BY <2>1, <2>2, <2>3 DEF RotatingInv, OrderInv, RotationKeepsLines
<1>2. RotatingInv /\ FoundInv /\ [RotatingNext]_fileVars => FoundInv' BY FoundStep
<1> QED
  BY <1>1, <1>2, RotatingInitially, FoundInitially, RotatingStep, RotatingAssumption, PTL
     DEF RotatingSpec

----------------------------------------------------------------------------
(* The sinks whose client keeps what it was given: the invariants          *)

Places  == {"idle", "publish", "append", "overflow", "flush", "back", "flushback", "drain",
            "unbounded", "serve", "returned", "raised"}
Holders == {"append", "overflow", "flush", "back", "flushback", "drain", "unbounded"}
Made(p) == verdict[p] \notin {"none", "refused"}

BuffersType ==
    /\ client \in {"pubsub", "kafka"}
    /\ verdict \in [Publishes -> {"none", "refused", "open", "settled"}]
    /\ futures \in Seq(Publishes) /\ hold \in [Threads -> Seq(Publishes)]
    /\ at \in [Threads -> Places] /\ turn \in [Emitters -> Nat \ {0}]
    /\ isClosed \in BOOLEAN /\ judged \in [Publishes -> Nat] /\ late \subseteq Publishes

DistinctInv ==
    client = "pubsub" => NoDuplicates(futures) /\ \A t \in Threads : NoDuplicates(hold[t])

\* An emit() has not come to the events from its turn on, but to the one it is about to append.
TurnInv ==
    \A t \in Emitters : \A i \in 1..PerBatch[t] :
        verdict[<<t, i>>] # "none" => i < turn[t] \/ (i = turn[t] /\ at[t] = "append")

\* Which places belong to which client, and where a thread holds futures.
PlacesInv ==
    \A t \in Threads :
        /\ hold[t] # <<>> => at[t] \in Holders
        /\ at[t] \in Holders => client = "pubsub"
        /\ at[t] = "serve" => client = "kafka"
        /\ at[t] = "append" => t \in Emitters

\* Pub/Sub: a publish that was made is judged, on the list, or held by one thread.
OwnerInv ==
    \A p \in Publishes :
        /\ judged[p] <= 1
        /\ judged[p] = 1 => p \notin In(futures) /\ \A t \in Threads : p \notin In(hold[t])
        /\ p \in In(futures) => \A t \in Threads : p \notin In(hold[t])
        /\ \A t, u \in Threads : p \in In(hold[t]) /\ p \in In(hold[u]) => t = u
        /\ Made(p) <=> judged[p] = 1 \/ p \in In(futures) \/ \E t \in Threads : p \in In(hold[t])

PubsubInv == client = "pubsub" => OwnerInv /\ (isClosed => futures = <<>>)

\* Kafka: what was produced is judged or in the queue; once the close that set the flag is over,
\* all of it is judged but what was produced behind the flag, unless the producer raised out of it.
Claimed == \A p \in Publishes \ late : Made(p) => judged[p] > 0

KafkaInv ==
    client = "kafka" =>
        /\ \A p \in Publishes : Made(p) /\ judged[p] = 0 => p \in In(futures)
        /\ \A c \in Closers : at[c] \in {"serve", "returned", "raised"} => isClosed
        /\ isClosed /\ (\A c \in Closers : at[c] # "serve") /\ NoCloseRaised => Claimed
        /\ (\E c \in Closers : at[c] = "returned") /\ NoCloseRaised => Claimed

BuffersInv == BuffersType /\ DistinctInv /\ TurnInv /\ PlacesInv /\ PubsubInv /\ KafkaInv

LEMMA PublishOf ==
  ASSUME BuffersAssumption
  PROVE  /\ \A t \in Emitters : \A i \in 1..PerBatch[t] : <<t, i>> \in Publishes
         /\ \A p \in Publishes : \E t \in Emitters : \E i \in 1..PerBatch[t] : p = <<t, i>>
         /\ Emitters \subseteq Threads /\ Flushers \subseteq Threads /\ Closers \subseteq Threads
BY DEF Publishes, Threads, BuffersAssumption

LEMMA VerdictPlaces == \A t : Verdict(t) \in {"raised", "returned"} /\ After(t) \in {"raised", "returned"}
<1>1. ASSUME NEW t PROVE Verdict(t) \in {"raised", "returned"}
  <2>1. CASE t \in Emitters /\ AllRefused(t) BY <2>1 DEF Verdict
  <2>2. CASE ~(t \in Emitters /\ AllRefused(t)) BY <2>2 DEF Verdict
  <2> QED BY <2>1, <2>2
<1>2. ASSUME NEW t PROVE After(t) \in {"raised", "returned"}
  <2>1. CASE t \in Emitters
    <3>1. t \notin Flushers BY <2>1, BuffersAssumption DEF BuffersAssumption
    <3> QED BY <1>1, <2>1, <3>1 DEF After
  <2>2. CASE t \in Flushers /\ t \notin Emitters BY <2>2 DEF After
  <2>3. CASE t \notin Flushers /\ t \notin Emitters BY <2>3 DEF After
  <2> QED BY <2>1, <2>2, <2>3
<1> QED BY <1>1, <1>2

LEMMA WithoutTakes ==
  ASSUME NEW list \in Seq(Publishes), NEW S
  PROVE  /\ Without(list, S) \in Seq(Publishes) /\ In(Without(list, S)) = In(list) \ S
         /\ NoDuplicates(list) => NoDuplicates(Without(list, S))
<1> DEFINE R == In(list) \ S
<1>1. Keep(list, R) \in Seq(Publishes) /\ ToSet(Keep(list, R)) = ToSet(list) \cap R BY KeepElements
<1>2. NoDuplicates(list) => NoDuplicates(Keep(list, R)) BY KeepDistinct
<1>3. ToSet(list) \cap R = In(list) \ S BY DEF In
<1> QED BY <1>1, <1>2, <1>3 DEF Without, In

\* The elements of a list are publishes, and there are none in an empty one.
LEMMA InType ==
  /\ In(<<>>) = {} /\ <<>> \in Seq(Publishes) /\ NoDuplicates(<<>>)
  /\ \A list \in Seq(Publishes) : In(list) \subseteq Publishes /\ (In(list) = {} => list = <<>>)
<1>1. <<>> \in Seq(Publishes) /\ NoDuplicates(<<>>) BY DEF NoDuplicates
<1>2. In(<<>>) = {} BY DEF In, ToSet
<1>3. ASSUME NEW list \in Seq(Publishes) PROVE In(list) \subseteq Publishes
  <2>1. \A i \in DOMAIN list : list[i] \in Publishes OBVIOUS
  <2> QED BY <2>1 DEF In, ToSet
<1>4. \A list \in Seq(Publishes) : In(list) = {} => list = <<>> BY NoElements DEF In
<1> QED BY <1>1, <1>2, <1>3, <1>4

----------------------------------------------------------------------------
(* Pub/Sub                                                                 *)

\* A step that divides what is on the list and what its thread holds anew between the two and what
\* is judged leaves every publish with one owner.
LEMMA OwnersKept ==
  ASSUME OwnerInv, NEW t \in Threads, NEW S \in SUBSET Publishes,
         judged \in [Publishes -> Nat], judged' \in [Publishes -> Nat],
         \A p \in Publishes : judged'[p] = judged[p] + IF p \in S THEN 1 ELSE 0,
         verdict' = verdict,
         \A u \in Threads : u # t => hold'[u] = hold[u],
         S \cup In(futures') \cup In(hold'[t]) = In(futures) \cup In(hold[t]),
         S \cap In(futures') = {}, S \cap In(hold'[t]) = {}, In(futures') \cap In(hold'[t]) = {}
  PROVE  OwnerInv'
<1> SUFFICES ASSUME NEW p \in Publishes
             PROVE  /\ judged'[p] <= 1
                    /\ judged'[p] = 1 => p \notin In(futures')
                                         /\ \A u \in Threads : p \notin In(hold'[u])
                    /\ p \in In(futures') => \A u \in Threads : p \notin In(hold'[u])
                    /\ \A u, v \in Threads : p \in In(hold'[u]) /\ p \in In(hold'[v]) => u = v
                    /\ Made(p)' <=> \/ judged'[p] = 1 \/ p \in In(futures')
                                    \/ \E u \in Threads : p \in In(hold'[u])
  BY DEF OwnerInv, In
<1>1. Made(p)' <=> Made(p) BY DEF Made
<1>2. /\ judged[p] <= 1
      /\ judged[p] = 1 => p \notin In(futures) /\ \A u \in Threads : p \notin In(hold[u])
      /\ p \in In(futures) => \A u \in Threads : p \notin In(hold[u])
      /\ \A u, v \in Threads : p \in In(hold[u]) /\ p \in In(hold[v]) => u = v
      /\ Made(p) <=> judged[p] = 1 \/ p \in In(futures) \/ \E u \in Threads : p \in In(hold[u])
  BY DEF OwnerInv
<1>3. judged[p] \in Nat /\ judged'[p] = judged[p] + IF p \in S THEN 1 ELSE 0 OBVIOUS
<1>4. CASE p \in In(futures) \cup In(hold[t])
  <2>1. judged[p] = 0 BY <1>2, <1>3, <1>4
  <2>2. Made(p) BY <1>2, <1>4
  <2>3. \A u \in Threads : u # t => p \notin In(hold'[u]) BY <1>2, <1>4
  <2>4. CASE p \in S
    <3>1. judged'[p] = 1 BY <1>3, <2>1, <2>4
    <3>2. p \notin In(futures') /\ p \notin In(hold'[t]) BY <2>4
    <3> QED BY <1>1, <2>2, <2>3, <3>1, <3>2
  <2>5. CASE p \notin S
    <3>1. judged'[p] = 0 BY <1>3, <2>1, <2>5
    <3>2. p \in In(futures') \/ p \in In(hold'[t]) BY <1>4, <2>5
    <3>3. ~(p \in In(futures') /\ p \in In(hold'[t])) OBVIOUS
    <3> QED BY <1>1, <2>2, <2>3, <3>1, <3>2, <3>3
  <2> QED BY <2>4, <2>5
<1>5. CASE p \notin In(futures) \cup In(hold[t])
  <2>1. p \notin S /\ p \notin In(futures') /\ p \notin In(hold'[t]) BY <1>5
  <2>2. judged'[p] = judged[p] BY <1>3, <2>1
  <2>3. \A u \in Threads : p \in In(hold'[u]) <=> p \in In(hold[u]) BY <1>5, <2>1
  <2> QED BY <1>1, <1>2, <1>5, <2>1, <2>2, <2>3
<1> QED BY <1>4, <1>5

\* What the steps of the Pub/Sub threads have in common.
LEMMA PubsubMove ==
  ASSUME BuffersInv, client = "pubsub", UNCHANGED <<client, verdict, late>>,
         NEW t \in Threads, NEW S \in SUBSET Publishes,
         NEW list \in Seq(Publishes), NEW place \in Places \ {"append", "serve"},
         hold' = [hold EXCEPT ![t] = list], NoDuplicates(list), list # <<>> => place \in Holders,
         futures' \in Seq(Publishes), NoDuplicates(futures'), isClosed' => futures' = <<>>,
         Goto(t, place), isClosed' \in BOOLEAN, turn' \in [Emitters -> Nat \ {0}],
         \A e \in Emitters : turn'[e] >= turn[e] /\ (e = t /\ at[t] = "append" => turn'[e] > turn[e]),
         judged' \in [Publishes -> Nat],
         \A p \in Publishes : judged'[p] = judged[p] + IF p \in S THEN 1 ELSE 0,
         S \cup In(futures') \cup In(list) = In(futures) \cup In(hold[t]),
         S \cap In(futures') = {}, S \cap In(list) = {}, In(futures') \cap In(list) = {}
  PROVE  BuffersInv'
<1> USE DEF BuffersInv
<1>1. hold'[t] = list /\ \A u \in Threads : u # t => hold'[u] = hold[u] BY DEF BuffersType
<1>2. at'[t] = place /\ \A u \in Threads : u # t => at'[u] = at[u] BY DEF BuffersType, Goto
<1>3. BuffersType'
  <2>1. hold' \in [Threads -> Seq(Publishes)] BY DEF BuffersType
  <2>2. at' \in [Threads -> Places] BY DEF BuffersType, Goto
  <2> QED BY <2>1, <2>2 DEF BuffersType
<1>4. DistinctInv' BY <1>1 DEF DistinctInv
<1>5. TurnInv'
  <2>1. SUFFICES ASSUME NEW e \in Emitters, NEW i \in 1..PerBatch[e], verdict[<<e, i>>] # "none"
                 PROVE  i < turn'[e] \/ (i = turn'[e] /\ at'[e] = "append")
    BY DEF TurnInv
  <2>2. e \in Threads /\ turn[e] \in Nat /\ turn'[e] \in Nat /\ i \in Int
        /\ turn'[e] >= turn[e] /\ (e = t /\ at[t] = "append" => turn'[e] > turn[e])
    BY DEF BuffersType, Threads
  <2>3. i < turn[e] \/ (i = turn[e] /\ at[e] = "append") BY <2>1 DEF TurnInv
  <2>4. CASE i < turn[e] BY <2>2, <2>4
  <2>5. CASE i = turn[e] /\ at[e] = "append"
    <3>1. CASE e = t BY <2>2, <2>5, <3>1
    <3>2. CASE e # t
      <4>1. at'[e] = "append" BY <1>2, <2>2, <2>5, <3>2
      <4>2. i < turn'[e] \/ i = turn'[e] BY <2>2, <2>5
      <4> QED BY <4>1, <4>2
    <3> QED BY <3>1, <3>2
  <2> QED BY <2>3, <2>4, <2>5
<1>6. PlacesInv'
  <2>1. SUFFICES ASSUME NEW u \in Threads
                 PROVE  /\ hold'[u] # <<>> => at'[u] \in Holders
                        /\ at'[u] \in Holders => client = "pubsub"
                        /\ at'[u] = "serve" => client = "kafka"
                        /\ at'[u] = "append" => u \in Emitters
    BY DEF PlacesInv
  <2>2. CASE u = t BY <1>1, <1>2, <2>2
  <2>3. CASE u # t BY <1>1, <1>2, <2>3 DEF PlacesInv
  <2> QED BY <2>2, <2>3
<1>7. OwnerInv'
  <2>1. OwnerInv /\ judged \in [Publishes -> Nat] BY DEF PubsubInv, BuffersType
  <2>2. S \cup In(futures') \cup In(hold'[t]) = In(futures) \cup In(hold[t]) BY <1>1
  <2>3. S \cap In(hold'[t]) = {} /\ In(futures') \cap In(hold'[t]) = {} BY <1>1
  <2> QED BY <1>1, <2>1, <2>2, <2>3, OwnersKept
<1>8. PubsubInv' BY <1>7 DEF PubsubInv
<1>9. KafkaInv' BY DEF KafkaInv
<1> QED BY <1>3, <1>4, <1>5, <1>6, <1>8, <1>9

\* Where a thread that holds futures is, the client is Pub/Sub.
LEMMA AtHolder ==
  ASSUME BuffersInv, NEW t \in Threads, at[t] \in Holders
  PROVE  client = "pubsub" /\ PubsubInv /\ OwnerInv
BY DEF BuffersInv, PlacesInv, PubsubInv

\* The same turn.
LEMMA SameTurn ==
  ASSUME BuffersInv, turn' = turn, NEW t, at[t] # "append"
  PROVE  /\ turn' \in [Emitters -> Nat \ {0}]
         /\ \A e \in Emitters : turn'[e] >= turn[e] /\ (e = t /\ at[t] = "append" => turn'[e] > turn[e])
<1>1. turn \in [Emitters -> Nat \ {0}] BY DEF BuffersInv, BuffersType
<1>2. \A e \in Emitters : turn[e] \in Nat BY <1>1
<1> QED BY <1>1, <1>2

\* Judging, and judging nothing.
LEMMA JudgeCounts ==
  ASSUME BuffersInv, NEW S
  PROVE  /\ Judge(S) => /\ judged' \in [Publishes -> Nat]
                        /\ \A p \in Publishes : judged'[p] = judged[p] + IF p \in S THEN 1 ELSE 0
         /\ judged' = judged => /\ judged' \in [Publishes -> Nat]
                                /\ \A p \in Publishes : judged'[p] = judged[p] + IF p \in {} THEN 1 ELSE 0
<1>1. judged \in [Publishes -> Nat] BY DEF BuffersInv, BuffersType
<1>2. \A p \in Publishes : judged[p] \in Nat BY <1>1
<1> QED BY <1>1, <1>2 DEF Judge

\* What a thread holds is not on the list.
LEMMA HeldApart ==
  ASSUME BuffersInv, client = "pubsub", NEW t \in Threads
  PROVE  /\ In(hold[t]) \cap In(futures) = {} /\ In(hold[t]) \subseteq Publishes
         /\ hold[t] \in Seq(Publishes) /\ NoDuplicates(hold[t])
         /\ futures \in Seq(Publishes) /\ NoDuplicates(futures) /\ In(futures) \subseteq Publishes
         /\ isClosed \in BOOLEAN /\ (isClosed => futures = <<>>)
<1>1. hold[t] \in Seq(Publishes) /\ futures \in Seq(Publishes) /\ isClosed \in BOOLEAN
  BY DEF BuffersInv, BuffersType
<1>2. In(hold[t]) \subseteq Publishes /\ In(futures) \subseteq Publishes BY <1>1, InType
<1>3. \A p \in Publishes : p \in In(futures) => p \notin In(hold[t])
  BY DEF BuffersInv, PubsubInv, OwnerInv
<1>4. NoDuplicates(hold[t]) /\ NoDuplicates(futures) BY DEF BuffersInv, DistinctInv
<1>5. isClosed => futures = <<>> BY DEF BuffersInv, PubsubInv
<1> QED BY <1>1, <1>2, <1>3, <1>4, <1>5

LEMMA AppendFutureStep ==
  ASSUME BuffersInv, NEW t \in Threads, AppendFuture(t) PROVE BuffersInv'
<1>1. /\ t \in Emitters /\ at[t] = "append" /\ hold' = [hold EXCEPT ![t] = <<>>]
      /\ turn' = [turn EXCEPT ![t] = @ + 1] /\ Goto(t, "publish")
      /\ UNCHANGED <<client, verdict, isClosed, late>>
  BY DEF AppendFuture, Keeps, Advance
<1>2. client = "pubsub" BY <1>1, AtHolder DEF Holders
<1>3. turn \in [Emitters -> Nat \ {0}] BY DEF BuffersInv, BuffersType
<1>4. turn' \in [Emitters -> Nat \ {0}]
      /\ \A e \in Emitters : turn'[e] >= turn[e] /\ (e = t /\ at[t] = "append" => turn'[e] > turn[e])
  <2>1. turn' \in [Emitters -> Nat \ {0}] BY <1>1, <1>3
  <2>2. \A e \in Emitters : turn[e] \in Nat /\ turn'[e] = IF e = t THEN turn[e] + 1 ELSE turn[e]
    BY <1>1, <1>3
  <2> QED BY <2>1, <2>2
<1>5. /\ In(hold[t]) \cap In(futures) = {} /\ In(hold[t]) \subseteq Publishes
      /\ hold[t] \in Seq(Publishes) /\ NoDuplicates(hold[t])
      /\ futures \in Seq(Publishes) /\ NoDuplicates(futures)
      /\ isClosed \in BOOLEAN /\ (isClosed => futures = <<>>)
  BY <1>2, HeldApart
<1>6. "publish" \in Places \ {"append", "serve"} BY DEF Places
<1>7. CASE isClosed
  <2>1. Judge(In(hold[t])) /\ futures' = futures BY <1>7 DEF AppendFuture
  <2>2. judged' \in [Publishes -> Nat]
        /\ \A p \in Publishes : judged'[p] = judged[p] + IF p \in In(hold[t]) THEN 1 ELSE 0
    BY <2>1, JudgeCounts
  <2> DEFINE S == In(hold[t])
  <2>3. S \cup In(futures') \cup In(<<>>) = In(futures) \cup In(hold[t])
        /\ S \cap In(futures') = {} /\ S \cap In(<<>>) = {} /\ In(futures') \cap In(<<>>) = {}
    BY <1>5, <2>1, InType
  <2> HIDE DEF S
  <2> QED BY <1>1, <1>2, <1>4, <1>5, <1>6, <2>1, <2>2, <2>3, InType, PubsubMove DEF S
<1>8. CASE ~isClosed
  <2>1. futures' = futures \o hold[t] /\ judged' = judged BY <1>8 DEF AppendFuture
  <2>2. futures' \in Seq(Publishes) /\ NoDuplicates(futures')
        /\ In(futures') = In(futures) \cup In(hold[t])
    BY <1>5, <2>1, ConcatElements, ConcatDistinct DEF In
  <2>3. judged' \in [Publishes -> Nat]
        /\ \A p \in Publishes : judged'[p] = judged[p] + IF p \in {} THEN 1 ELSE 0
    BY <2>1, JudgeCounts
  <2>4. {} \cup In(futures') \cup In(<<>>) = In(futures) \cup In(hold[t])
        /\ {} \cap In(futures') = {} /\ {} \cap In(<<>>) = {} /\ In(futures') \cap In(<<>>) = {}
    BY <2>2, InType
  <2>5. isClosed' \in BOOLEAN /\ ~isClosed' /\ {} \in SUBSET Publishes BY <1>1, <1>5, <1>8
  <2> QED BY <1>1, <1>2, <1>4, <1>6, <2>2, <2>3, <2>4, <2>5, InType, PubsubMove
<1> QED BY <1>7, <1>8

\* A thread judges some of what it holds.
LEMMA JudgeHeld ==
  ASSUME BuffersInv, NEW t \in Threads, at[t] \in Holders \ {"append"},
         UNCHANGED <<client, verdict, futures, turn, isClosed, late>>,
         NEW S \in SUBSET In(hold[t]), Judge(S),
         NEW list \in Seq(Publishes), NoDuplicates(list), In(list) = In(hold[t]) \ S,
         hold' = [hold EXCEPT ![t] = list],
         NEW place \in Places \ {"append", "serve"}, list # <<>> => place \in Holders, Goto(t, place)
  PROVE  BuffersInv'
<1>1. client = "pubsub" BY AtHolder
<1>2. /\ In(hold[t]) \cap In(futures) = {} /\ In(hold[t]) \subseteq Publishes
      /\ futures \in Seq(Publishes) /\ NoDuplicates(futures)
      /\ isClosed \in BOOLEAN /\ (isClosed => futures = <<>>)
  BY <1>1, HeldApart
<1>3. judged' \in [Publishes -> Nat]
      /\ \A p \in Publishes : judged'[p] = judged[p] + IF p \in S THEN 1 ELSE 0
  BY JudgeCounts
<1>4. turn' \in [Emitters -> Nat \ {0}]
      /\ \A e \in Emitters : turn'[e] >= turn[e] /\ (e = t /\ at[t] = "append" => turn'[e] > turn[e])
  BY SameTurn
<1>5. S \cup In(futures') \cup In(list) = In(futures) \cup In(hold[t])
      /\ S \cap In(futures') = {} /\ S \cap In(list) = {} /\ In(futures') \cap In(list) = {}
  BY <1>2
<1>6. S \in SUBSET Publishes BY <1>2
<1> QED BY <1>1, <1>2, <1>3, <1>4, <1>5, <1>6, PubsubMove

\* A thread takes from the list, or puts back, and judges nothing.
LEMMA MoveHeld ==
  ASSUME BuffersInv, NEW t \in Threads, at[t] # "append", client = "pubsub",
         UNCHANGED <<client, verdict, judged, turn, late>>,
         NEW list \in Seq(Publishes), NoDuplicates(list), hold' = [hold EXCEPT ![t] = list],
         futures' \in Seq(Publishes), NoDuplicates(futures'),
         In(futures') \cup In(list) = In(futures) \cup In(hold[t]), In(futures') \cap In(list) = {},
         isClosed' \in BOOLEAN, isClosed' => futures' = <<>>,
         NEW place \in Places \ {"append", "serve"}, list # <<>> => place \in Holders, Goto(t, place)
  PROVE  BuffersInv'
<1>1. judged' \in [Publishes -> Nat]
      /\ \A p \in Publishes : judged'[p] = judged[p] + IF p \in {} THEN 1 ELSE 0
  BY JudgeCounts
<1>2. turn' \in [Emitters -> Nat \ {0}]
      /\ \A e \in Emitters : turn'[e] >= turn[e] /\ (e = t /\ at[t] = "append" => turn'[e] > turn[e])
  BY SameTurn
<1>3. {} \cup In(futures') \cup In(list) = In(futures) \cup In(hold[t])
      /\ {} \cap In(futures') = {} /\ {} \cap In(list) = {} /\ {} \in SUBSET Publishes
  OBVIOUS
<1> QED BY <1>1, <1>2, <1>3, PubsubMove

LEMMA ReapStep ==
  ASSUME BuffersInv, NEW t \in Threads, Reap(t) PROVE BuffersInv'
<1> DEFINE open   == Without(futures, Reaped)
           excess == IF Len(open) > MaxPending THEN Len(open) - MaxPending ELSE 0
           place  == IF excess = 0 THEN Verdict(t) ELSE "overflow"
           rest   == SubSeq(open, excess + 1, Len(open))
           taken  == SubSeq(open, 1, excess)
<1>1. /\ client = "pubsub" /\ at[t] = "publish" /\ Judge(Reaped)
      /\ futures' = rest /\ hold' = [hold EXCEPT ![t] = taken] /\ Goto(t, place)
      /\ UNCHANGED <<client, verdict, turn, isClosed, late>>
  BY DEF Reap, Keeps
<1>2. hold[t] = <<>> BY <1>1 DEF BuffersInv, PlacesInv, Holders
<1>3. /\ futures \in Seq(Publishes) /\ NoDuplicates(futures) /\ In(futures) \subseteq Publishes
      /\ isClosed \in BOOLEAN /\ (isClosed => futures = <<>>)
  BY <1>1, HeldApart
<1>4. Reaped \subseteq In(futures) BY DEF Reaped
<1>5. open \in Seq(Publishes) /\ In(open) = In(futures) \ Reaped /\ NoDuplicates(open)
  BY <1>3, WithoutTakes
<1> HIDE DEF open
<1>6. Len(open) \in Nat /\ excess \in 0..Len(open)
  <2>1. Len(open) \in Nat /\ MaxPending \in Nat BY <1>5, BuffersAssumption DEF BuffersAssumption
  <2> QED BY <2>1
<1>7. excess = 0 => taken = <<>> BY SubSeqEmpty
<1>8. excess = 0 \/ "overflow" = place OBVIOUS
<1> HIDE DEF excess
<1>9. /\ taken \in Seq(Publishes) /\ rest \in Seq(Publishes) /\ ToSet(taken) \cup ToSet(rest) = ToSet(open)
      /\ NoDuplicates(taken) /\ NoDuplicates(rest) /\ ToSet(taken) \cap ToSet(rest) = {}
  BY <1>5, <1>6, SplitList
<1>10. place \in Places \ {"append", "serve"} BY VerdictPlaces DEF Places
<1>11. taken # <<>> => place \in Holders BY <1>7, <1>8 DEF Holders
<1> HIDE DEF rest, taken, place
<1>12. Reaped \cup In(futures') \cup In(taken) = In(futures) \cup In(hold[t])
       /\ Reaped \cap In(futures') = {} /\ Reaped \cap In(taken) = {}
       /\ In(futures') \cap In(taken) = {}
  <2>1. In(taken) \cup In(futures') = In(open) /\ In(futures') \cap In(taken) = {}
    BY <1>1, <1>9 DEF In
  <2>2. In(hold[t]) = {} BY <1>2, InType
  <2> QED BY <1>4, <1>5, <2>1, <2>2
<1>13. judged' \in [Publishes -> Nat]
       /\ \A p \in Publishes : judged'[p] = judged[p] + IF p \in Reaped THEN 1 ELSE 0
  BY <1>1, JudgeCounts
<1>14. turn' \in [Emitters -> Nat \ {0}]
       /\ \A e \in Emitters : turn'[e] >= turn[e] /\ (e = t /\ at[t] = "append" => turn'[e] > turn[e])
  BY <1>1, SameTurn
<1>15. isClosed' \in BOOLEAN /\ (isClosed' => futures' = <<>>)
  <2>1. ASSUME isClosed PROVE futures' = <<>>
    <3>1. In(futures) = {} BY <1>3, <2>1, InType
    <3>2. In(futures') = {} BY <1>2, <1>12, <3>1, InType
    <3>3. futures' \in Seq(Publishes) BY <1>1, <1>9
    <3> QED BY <3>2, <3>3, InType
  <2> QED BY <1>1, <1>3, <2>1
<1>16. Reaped \in SUBSET Publishes BY <1>3, <1>4
<1>17. futures' \in Seq(Publishes) /\ NoDuplicates(futures') BY <1>1, <1>9
<1> QED BY <1>1, <1>9, <1>10, <1>11, <1>12, <1>13, <1>14, <1>15, <1>16, <1>17, PubsubMove

LEMMA ResolveOneStep ==
  ASSUME BuffersInv, NEW t \in Threads, ResolveOne(t) PROVE BuffersInv'
<1>1. /\ at[t] \in Waiting /\ UNCHANGED <<client, verdict, futures, at, turn, isClosed, late>>
  BY DEF ResolveOne
<1>2. PICK p \in Boundable(t) : Judge({p}) /\ hold' = [hold EXCEPT ![t] = Without(hold[t], {p})]
  BY DEF ResolveOne, Keeps
<1>3. at[t] \in Holders \ {"append"} /\ at[t] \in Places \ {"append", "serve"}
  BY <1>1 DEF Waiting, Holders, Places
<1>4. Goto(t, at[t]) BY <1>1 DEF Goto, BuffersInv, BuffersType
<1>5. hold[t] \in Seq(Publishes) /\ NoDuplicates(hold[t]) BY <1>3, AtHolder, HeldApart
<1>6. {p} \in SUBSET In(hold[t]) BY DEF Boundable
<1> DEFINE list == Without(hold[t], {p})
<1>7. list \in Seq(Publishes) /\ NoDuplicates(list) /\ In(list) = In(hold[t]) \ {p}
  BY <1>5, WithoutTakes
<1>8. hold' = [hold EXCEPT ![t] = list] BY <1>2
<1> HIDE DEF list
<1> QED BY <1>1, <1>2, <1>3, <1>4, <1>6, <1>7, <1>8, JudgeHeld

LEMMA EndWaitStep ==
  ASSUME BuffersInv, NEW t \in Threads, EndWait(t) PROVE BuffersInv'
<1> DEFINE now  == {p \in Boundable(t) : Settled(p)}
           left == Without(hold[t], now)
<1>1. /\ at[t] \in {"overflow", "flush"} /\ Judge(now) /\ hold' = [hold EXCEPT ![t] = left]
      /\ Goto(t, CASE left # <<>> /\ at[t] = "flush"    -> "flushback"
                   [] left # <<>> /\ at[t] = "overflow" -> "back"
                   [] left = <<>> /\ at[t] = "overflow" -> Verdict(t)
                   [] OTHER                             -> "returned")
      /\ UNCHANGED <<client, verdict, futures, turn, isClosed, late>>
  BY DEF EndWait, Keeps
<1>2. at[t] \in Holders \ {"append"} BY <1>1 DEF Holders
<1>3. hold[t] \in Seq(Publishes) /\ NoDuplicates(hold[t]) BY <1>2, AtHolder, HeldApart
<1>4. left \in Seq(Publishes) /\ NoDuplicates(left) /\ In(left) = In(hold[t]) \ now
  BY <1>3, WithoutTakes
<1>5. now \in SUBSET In(hold[t]) BY DEF Boundable
<1> HIDE DEF left, now
<1>6. \E place \in Places \ {"append", "serve"} :
          Goto(t, place) /\ (left # <<>> => place \in Holders)
  <2>1. CASE left # <<>> /\ at[t] = "flush"
    <3>1. Goto(t, "flushback") BY <1>1, <2>1
    <3> QED BY <3>1 DEF Places, Holders
  <2>2. CASE left # <<>> /\ at[t] # "flush"
    <3>1. Goto(t, "back") BY <1>1, <2>2
    <3> QED BY <3>1 DEF Places, Holders
  <2>3. CASE left = <<>> /\ at[t] = "overflow"
    <3>1. Goto(t, Verdict(t)) BY <1>1, <2>3
    <3> QED BY <2>3, <3>1, VerdictPlaces DEF Places
  <2>4. CASE left = <<>> /\ at[t] # "overflow"
    <3>1. Goto(t, "returned") BY <1>1, <2>4
    <3> QED BY <2>4, <3>1 DEF Places
  <2> QED BY <2>1, <2>2, <2>3, <2>4
<1> QED BY <1>1, <1>2, <1>4, <1>5, <1>6, JudgeHeld

LEMMA PutBackStep ==
  ASSUME BuffersInv, NEW t \in Threads, PutBack(t) PROVE BuffersInv'
<1>1. at[t] \in {"back", "flushback"} /\ UNCHANGED <<client, verdict, turn, isClosed, judged, late>>
  BY DEF PutBack
<1>2. at[t] \in Holders /\ at[t] # "append" BY <1>1 DEF Holders
<1>3. client = "pubsub" BY <1>2, AtHolder
<1>4. /\ In(hold[t]) \cap In(futures) = {} /\ hold[t] \in Seq(Publishes) /\ NoDuplicates(hold[t])
      /\ futures \in Seq(Publishes) /\ NoDuplicates(futures)
      /\ isClosed \in BOOLEAN /\ (isClosed => futures = <<>>)
  BY <1>3, HeldApart
<1>5. CASE isClosed
  <2>1. Goto(t, "drain") /\ futures' = futures /\ hold' = hold BY <1>5 DEF PutBack
  <2>2. hold' = [hold EXCEPT ![t] = hold[t]] BY <2>1 DEF BuffersInv, BuffersType
  <2>3. "drain" \in Places \ {"append", "serve"} /\ "drain" \in Holders BY DEF Places, Holders
  <2>4. In(futures') \cup In(hold[t]) = In(futures) \cup In(hold[t])
        /\ In(futures') \cap In(hold[t]) = {}
    BY <1>4, <2>1
  <2> QED BY <1>1, <1>2, <1>3, <1>4, <2>1, <2>2, <2>3, <2>4, MoveHeld
<1>6. CASE ~isClosed
  <2> DEFINE place == IF at[t] = "back" THEN Verdict(t) ELSE "raised"
  <2>1. Goto(t, place) /\ futures' = hold[t] \o futures /\ hold' = [hold EXCEPT ![t] = <<>>]
    BY <1>6 DEF PutBack, Keeps
  <2>2. place \in Places \ {"append", "serve"} BY VerdictPlaces DEF Places
  <2> HIDE DEF place
  <2>3. futures' \in Seq(Publishes) /\ NoDuplicates(futures')
        /\ In(futures') = In(hold[t]) \cup In(futures)
    BY <1>4, <2>1, ConcatElements, ConcatDistinct DEF In
  <2>4. In(futures') \cup In(<<>>) = In(futures) \cup In(hold[t]) /\ In(futures') \cap In(<<>>) = {}
    BY <2>3, InType
  <2>5. isClosed' \in BOOLEAN /\ ~isClosed' BY <1>1, <1>4, <1>6
  <2> QED BY <1>1, <1>2, <1>3, <2>1, <2>2, <2>3, <2>4, <2>5, InType, MoveHeld
<1> QED BY <1>5, <1>6

LEMMA DrainExpireStep ==
  ASSUME BuffersInv, NEW t \in Threads, DrainExpire(t) PROVE BuffersInv'
<1> DEFINE list  == Without(hold[t], Boundable(t))
           place == IF In(hold[t]) \subseteq Boundable(t) THEN After(t) ELSE "unbounded"
<1>1. /\ at[t] = "drain" /\ Judge(Boundable(t)) /\ hold' = [hold EXCEPT ![t] = list]
      /\ Goto(t, place) /\ UNCHANGED <<client, verdict, futures, turn, isClosed, late>>
  BY DEF DrainExpire, Keeps
<1>2. at[t] \in Holders \ {"append"} BY <1>1 DEF Holders
<1>3. hold[t] \in Seq(Publishes) /\ NoDuplicates(hold[t]) BY <1>2, AtHolder, HeldApart
<1>4. list \in Seq(Publishes) /\ NoDuplicates(list) /\ In(list) = In(hold[t]) \ Boundable(t)
  BY <1>3, WithoutTakes
<1>5. Boundable(t) \in SUBSET In(hold[t]) BY DEF Boundable
<1> HIDE DEF list
<1>6. place \in Places \ {"append", "serve"} BY VerdictPlaces DEF Places
<1>7. list # <<>> => place \in Holders
  <2>1. CASE In(hold[t]) \subseteq Boundable(t)
    <3>1. In(list) = {} BY <1>4, <2>1
    <3> QED BY <1>4, <3>1, InType
  <2>2. CASE ~(In(hold[t]) \subseteq Boundable(t)) BY <2>2 DEF Holders
  <2> QED BY <2>1, <2>2
<1> HIDE DEF place
<1> QED BY <1>1, <1>2, <1>4, <1>5, <1>6, <1>7, JudgeHeld

LEMMA DrainUnboundedStep ==
  ASSUME BuffersInv, NEW t \in Threads, DrainUnbounded(t) PROVE BuffersInv'
<1>1. /\ at[t] = "unbounded" /\ Judge(In(hold[t])) /\ hold' = [hold EXCEPT ![t] = <<>>]
      /\ Goto(t, After(t)) /\ UNCHANGED <<client, verdict, futures, turn, isClosed, late>>
  BY DEF DrainUnbounded, Keeps
<1>2. at[t] \in Holders \ {"append"} BY <1>1 DEF Holders
<1>3. After(t) \in Places \ {"append", "serve"} BY VerdictPlaces DEF Places
<1>4. In(<<>>) = In(hold[t]) \ In(hold[t]) BY InType
<1> DEFINE S == In(hold[t])
<1>5. S \in SUBSET In(hold[t]) /\ Judge(S) /\ In(<<>>) = In(hold[t]) \ S BY <1>1, <1>4
<1> HIDE DEF S
<1> QED BY <1>1, <1>2, <1>3, <1>5, InType, JudgeHeld

LEMMA BeginFlushStep ==
  ASSUME BuffersInv, NEW t \in Threads, BeginFlush(t) PROVE BuffersInv'
<1>1. /\ at[t] = "idle" /\ client = "pubsub" /\ UNCHANGED <<client, verdict, turn, isClosed, judged, late>>
  BY DEF BeginFlush
<1>2. hold[t] = <<>> BY <1>1 DEF BuffersInv, PlacesInv, Holders
<1>3. /\ futures \in Seq(Publishes) /\ NoDuplicates(futures)
      /\ isClosed \in BOOLEAN /\ (isClosed => futures = <<>>)
  BY <1>1, HeldApart
<1>4. CASE isClosed
  <2>1. Goto(t, "raised") /\ futures' = futures /\ hold' = hold BY <1>4 DEF BeginFlush
  <2>2. hold' = [hold EXCEPT ![t] = <<>>] BY <1>2, <2>1 DEF BuffersInv, BuffersType
  <2>3. "raised" \in Places \ {"append", "serve"} BY DEF Places
  <2>4. In(futures') \cup In(<<>>) = In(futures) \cup In(hold[t]) /\ In(futures') \cap In(<<>>) = {}
    BY <1>2, <2>1, InType
  <2> QED BY <1>1, <1>3, <2>1, <2>2, <2>3, <2>4, InType, MoveHeld
<1>5. CASE ~isClosed
  <2> DEFINE place == IF futures = <<>> THEN "returned" ELSE "flush"
  <2>1. Goto(t, place) /\ futures' = <<>> /\ hold' = [hold EXCEPT ![t] = futures]
    BY <1>5 DEF BeginFlush, Keeps
  <2>2. place \in Places \ {"append", "serve"} /\ (futures # <<>> => place \in Holders)
    BY DEF Places, Holders
  <2> HIDE DEF place
  <2>3. In(futures') \cup In(futures) = In(futures) \cup In(hold[t])
        /\ In(futures') \cap In(futures) = {}
    BY <1>2, <2>1, InType
  <2>4. futures' \in Seq(Publishes) /\ NoDuplicates(futures') BY <2>1, InType
  <2>5. isClosed' \in BOOLEAN BY <1>1, <1>3
  <2> QED BY <1>1, <1>3, <2>1, <2>2, <2>3, <2>4, <2>5, MoveHeld
<1> QED BY <1>4, <1>5

LEMMA BeginCloseStep ==
  ASSUME BuffersInv, NEW t \in Threads, BeginClose(t) PROVE BuffersInv'
<1>1. /\ at[t] = "idle" /\ client = "pubsub" /\ isClosed' = TRUE /\ futures' = <<>>
      /\ hold' = [hold EXCEPT ![t] = futures] /\ Goto(t, "drain")
      /\ UNCHANGED <<client, verdict, turn, judged, late>>
  BY DEF BeginClose, Keeps
<1>2. hold[t] = <<>> BY <1>1 DEF BuffersInv, PlacesInv, Holders
<1>3. futures \in Seq(Publishes) /\ NoDuplicates(futures) BY <1>1, HeldApart
<1>4. "drain" \in Places \ {"append", "serve"} /\ "drain" \in Holders BY DEF Places, Holders
<1>5. In(futures') \cup In(futures) = In(futures) \cup In(hold[t])
      /\ In(futures') \cap In(futures) = {}
  BY <1>1, <1>2, InType
<1>6. futures' \in Seq(Publishes) /\ NoDuplicates(futures') BY <1>1, InType
<1> QED BY <1>1, <1>3, <1>4, <1>5, <1>6, MoveHeld

\* The event an emit() is at was not published before.
LEMMA FreshPublish ==
  ASSUME BuffersInv, NEW t \in Emitters, at[t] = "publish", turn[t] <= PerBatch[t]
  PROVE  Current(t) \in Publishes /\ verdict[Current(t)] = "none"
<1>1. turn[t] \in Nat \ {0} /\ PerBatch[t] \in Nat
  BY BuffersAssumption DEF BuffersInv, BuffersType, BuffersAssumption
<1>2. turn[t] \in 1..PerBatch[t] BY <1>1
<1>3. Current(t) \in Publishes BY <1>2, PublishOf, BuffersAssumption DEF Current
<1>4. verdict[<<t, turn[t]>>] = "none" BY <1>1, <1>2 DEF BuffersInv, TurnInv
<1> QED BY <1>3, <1>4 DEF Current

LEMMA TurnMoves ==
  ASSUME BuffersInv, NEW t \in Emitters, at[t] = "publish", UNCHANGED at,
         turn' = [turn EXCEPT ![t] = @ + 1],
         \A q \in Publishes : q # Current(t) => verdict'[q] = verdict[q]
  PROVE  TurnInv'
<1>1. SUFFICES ASSUME NEW e \in Emitters, NEW i \in 1..PerBatch[e], verdict'[<<e, i>>] # "none"
               PROVE  i < turn'[e] \/ (i = turn'[e] /\ at[e] = "append")
  BY DEF TurnInv
<1>2. <<e, i>> \in Publishes BY PublishOf, BuffersAssumption
<1>3. turn[e] \in Nat /\ turn'[e] = (IF e = t THEN turn[e] + 1 ELSE turn[e]) /\ i \in Int
  BY DEF BuffersInv, BuffersType
<1>4. CASE <<e, i>> = Current(t)
  <2>1. e = t /\ i = turn[e] BY <1>4 DEF Current
  <2> QED BY <1>3, <2>1
<1>5. CASE <<e, i>> # Current(t)
  <2>1. verdict[<<e, i>>] # "none" BY <1>1, <1>2, <1>5
  <2>2. i < turn[e] \/ (i = turn[e] /\ at[e] = "append") BY <2>1 DEF BuffersInv, TurnInv
  <2>3. e = t => at[e] # "append" OBVIOUS
  <2> QED BY <1>3, <2>2, <2>3
<1> QED BY <1>4, <1>5

LEMMA RefusePublishStep ==
  ASSUME BuffersInv, NEW t \in Threads, RefusePublish(t) PROVE BuffersInv'
<1> DEFINE p == Current(t)
<1>1. /\ t \in Emitters /\ at[t] = "publish" /\ turn[t] <= PerBatch[t]
      /\ verdict' = [verdict EXCEPT ![p] = "refused"] /\ turn' = [turn EXCEPT ![t] = @ + 1]
      /\ UNCHANGED <<client, futures, hold, at, isClosed, judged, late>>
  BY DEF RefusePublish, Loop, Advance
<1>2. BuffersType BY DEF BuffersInv
<1>3. p \in Publishes /\ verdict[p] = "none" BY <1>1, <1>2, FreshPublish
<1>4. verdict' \in [Publishes -> {"none", "refused", "open", "settled"}]
      /\ \A q \in Publishes : verdict'[q] = IF q = p THEN "refused" ELSE verdict[q]
  BY <1>1, <1>2, <1>3 DEF BuffersType
<1>5. turn' \in [Emitters -> Nat \ {0}]
  BY <1>1, <1>2 DEF BuffersType
<1>6. BuffersType' BY <1>1, <1>2, <1>4, <1>5 DEF BuffersType
<1>7. TurnInv' BY <1>1, <1>4, TurnMoves
<1>8. \A q \in Publishes : Made(q)' <=> Made(q) BY <1>3, <1>4 DEF Made
<1>9. DistinctInv' /\ PlacesInv' BY <1>1 DEF BuffersInv, DistinctInv, PlacesInv
<1>10. PubsubInv' BY <1>1, <1>8 DEF BuffersInv, PubsubInv, OwnerInv
<1>11. KafkaInv' BY <1>1, <1>8 DEF BuffersInv, KafkaInv, Claimed, NoCloseRaised
<1> QED BY <1>6, <1>7, <1>9, <1>10, <1>11 DEF BuffersInv

LEMMA PublishStep ==
  ASSUME BuffersInv, NEW t \in Threads, Publish(t) PROVE BuffersInv'
<1> DEFINE p == Current(t)
<1>1. /\ t \in Emitters /\ at[t] = "publish" /\ turn[t] <= PerBatch[t] /\ client = "pubsub"
      /\ verdict' = [verdict EXCEPT ![p] = "open"] /\ hold' = [hold EXCEPT ![t] = <<p>>]
      /\ at' = [at EXCEPT ![t] = "append"] /\ UNCHANGED <<client, futures, turn, isClosed, judged, late>>
  BY DEF Publish, Loop, Keeps, Goto
<1>2. BuffersType BY DEF BuffersInv
<1>3. p \in Publishes /\ verdict[p] = "none" BY <1>1, <1>2, FreshPublish
<1> HIDE DEF p
<1>4. verdict' \in [Publishes -> {"none", "refused", "open", "settled"}]
      /\ \A q \in Publishes : verdict'[q] = IF q = p THEN "open" ELSE verdict[q]
  BY <1>1, <1>2, <1>3 DEF BuffersType
<1>5. <<p>> \in Seq(Publishes) /\ NoDuplicates(<<p>>) /\ In(<<p>>) = {p} /\ <<p>> # <<>>
  <2>1. <<p>> \in Seq(Publishes) /\ Len(<<p>>) = 1 /\ <<p>>[1] = p /\ DOMAIN <<p>> = {1} BY <1>3
  <2> QED BY <2>1 DEF NoDuplicates, In, ToSet
<1>6. hold' \in [Threads -> Seq(Publishes)]
      /\ \A u \in Threads : hold'[u] = IF u = t THEN <<p>> ELSE hold[u]
  BY <1>1, <1>2, <1>5 DEF BuffersType
<1>7. at' \in [Threads -> Places] /\ \A u \in Threads : at'[u] = IF u = t THEN "append" ELSE at[u]
  BY <1>1, <1>2 DEF BuffersType, Places
<1>8. BuffersType' BY <1>1, <1>2, <1>4, <1>6, <1>7 DEF BuffersType
<1>9. TurnInv'
  <2>1. SUFFICES ASSUME NEW e \in Emitters, NEW i \in 1..PerBatch[e], verdict'[<<e, i>>] # "none"
                 PROVE  i < turn[e] \/ (i = turn[e] /\ at'[e] = "append")
    BY <1>1 DEF TurnInv
  <2>2. e \in Threads /\ <<e, i>> \in Publishes BY PublishOf, BuffersAssumption
  <2>3. CASE <<e, i>> = p
    <3>1. e = t /\ i = turn[e] BY <2>3 DEF p, Current
    <3> QED BY <1>7, <2>2, <3>1
  <2>4. CASE <<e, i>> # p
    <3>1. i < turn[e] \/ (i = turn[e] /\ at[e] = "append")
      BY <1>4, <2>1, <2>2, <2>4 DEF BuffersInv, TurnInv
    <3> QED BY <1>7, <2>2, <3>1
  <2> QED BY <2>3, <2>4
<1>10. DistinctInv' BY <1>1, <1>5, <1>6 DEF BuffersInv, DistinctInv
<1>11. PlacesInv' BY <1>1, <1>6, <1>7 DEF BuffersInv, PlacesInv, Holders
<1>12. OwnerInv'
  <2>1. hold[t] = <<>> BY <1>1 DEF BuffersInv, PlacesInv, Holders
  <2>2. \A u \in Threads : In(hold'[u]) = IF u = t THEN {p} ELSE In(hold[u]) BY <1>5, <1>6
  <2>3. In(hold[t]) = {} BY <2>1, InType
  <2>4. SUFFICES ASSUME NEW q \in Publishes
                 PROVE  /\ judged[q] <= 1
                        /\ judged[q] = 1 => q \notin In(futures) /\ \A u \in Threads : q \notin In(hold'[u])
                        /\ q \in In(futures) => \A u \in Threads : q \notin In(hold'[u])
                        /\ \A u, v \in Threads : q \in In(hold'[u]) /\ q \in In(hold'[v]) => u = v
                        /\ Made(q)' <=> \/ judged[q] = 1 \/ q \in In(futures)
                                        \/ \E u \in Threads : q \in In(hold'[u])
    BY <1>1 DEF OwnerInv, In
  <2>5. /\ judged[q] <= 1
        /\ judged[q] = 1 => q \notin In(futures) /\ \A u \in Threads : q \notin In(hold[u])
        /\ q \in In(futures) => \A u \in Threads : q \notin In(hold[u])
        /\ \A u, v \in Threads : q \in In(hold[u]) /\ q \in In(hold[v]) => u = v
        /\ Made(q) <=> judged[q] = 1 \/ q \in In(futures) \/ \E u \in Threads : q \in In(hold[u])
    BY <1>1 DEF BuffersInv, PubsubInv, OwnerInv
  <2>6. CASE q = p
    <3>1. ~Made(q) BY <1>3, <2>6 DEF Made
    <3>2. Made(q)' BY <1>4, <2>6 DEF Made
    <3>3. \A u \in Threads : q \in In(hold'[u]) <=> u = t BY <2>2, <2>5, <2>6, <3>1
    <3> QED BY <2>5, <3>1, <3>2, <3>3
  <2>7. CASE q # p
    <3>1. Made(q)' <=> Made(q) BY <1>4, <2>7 DEF Made
    <3>2. \A u \in Threads : q \in In(hold'[u]) <=> q \in In(hold[u]) BY <2>2, <2>3, <2>7
    <3> QED BY <2>5, <3>1, <3>2
  <2> QED BY <2>6, <2>7
<1>13. PubsubInv' /\ KafkaInv' BY <1>1, <1>12 DEF BuffersInv, PubsubInv, KafkaInv
<1> QED BY <1>8, <1>9, <1>10, <1>11, <1>13 DEF BuffersInv

\* The destination answers.
LEMMA SettleStepOf ==
  ASSUME BuffersInv, NEW p \in Publishes, SettlePublish(p) PROVE BuffersInv'
<1>1. /\ verdict[p] = "open" /\ verdict' = [verdict EXCEPT ![p] = "settled"]
      /\ UNCHANGED <<client, futures, hold, at, turn, isClosed, judged, late>>
  BY DEF SettlePublish
<1>2. verdict' \in [Publishes -> {"none", "refused", "open", "settled"}]
      /\ \A q \in Publishes : verdict'[q] = IF q = p THEN "settled" ELSE verdict[q]
  BY <1>1 DEF BuffersInv, BuffersType
<1>3. BuffersType' BY <1>1, <1>2 DEF BuffersInv, BuffersType
<1>4. \A q \in Publishes : Made(q)' <=> Made(q) BY <1>1, <1>2 DEF Made
<1>5. TurnInv'
  <2>1. \A q \in Publishes : verdict'[q] # "none" => verdict[q] # "none" BY <1>1, <1>2
  <2>2. \A e \in Emitters : \A i \in 1..PerBatch[e] : <<e, i>> \in Publishes
    BY PublishOf, BuffersAssumption
  <2> QED BY <1>1, <2>1, <2>2 DEF BuffersInv, TurnInv
<1>6. DistinctInv' /\ PlacesInv' BY <1>1 DEF BuffersInv, DistinctInv, PlacesInv
<1>7. PubsubInv' BY <1>1, <1>4 DEF BuffersInv, PubsubInv, OwnerInv
<1>8. KafkaInv' BY <1>1, <1>4 DEF BuffersInv, KafkaInv, Claimed, NoCloseRaised
<1> QED BY <1>3, <1>5, <1>6, <1>7, <1>8 DEF BuffersInv

----------------------------------------------------------------------------
(* Kafka, and the steps of both                                            *)

\* A step that only moves a thread, and is no end of a wait.
LEMMA PlaceStep ==
  ASSUME BuffersInv, NEW t \in Threads, NEW place \in Places \ Holders, at[t] \notin Holders,
         Goto(t, place), UNCHANGED <<client, verdict, futures, hold, turn, judged, late>>,
         isClosed' \in BOOLEAN, place = "serve" => client = "kafka",
         client = "pubsub" => isClosed' = isClosed, KafkaInv'
  PROVE  BuffersInv'
<1>1. at' \in [Threads -> Places] /\ \A u \in Threads : at'[u] = IF u = t THEN place ELSE at[u]
  BY DEF BuffersInv, BuffersType, Goto
<1>2. BuffersType' BY <1>1 DEF BuffersInv, BuffersType
<1>3. DistinctInv' BY DEF BuffersInv, DistinctInv
<1>4. TurnInv'
  <2>1. \A e \in Emitters : at'[e] = "append" <=> at[e] = "append" BY <1>1 DEF Threads, Holders
  <2> QED BY <2>1 DEF BuffersInv, TurnInv
<1>5. PlacesInv'
  <2>1. hold[t] = <<>> BY DEF BuffersInv, PlacesInv
  <2>2. ASSUME NEW u \in Threads
        PROVE  /\ hold'[u] # <<>> => at'[u] \in Holders
               /\ at'[u] \in Holders => client = "pubsub"
               /\ at'[u] = "serve" => client = "kafka"
               /\ at'[u] = "append" => u \in Emitters
    <3>1. CASE u = t BY <1>1, <2>1, <3>1 DEF Holders
    <3>2. CASE u # t BY <1>1, <3>2 DEF BuffersInv, PlacesInv
    <3> QED BY <3>1, <3>2
  <2> QED BY <2>2 DEF PlacesInv
<1>6. PubsubInv'
  <2>1. ASSUME client = "pubsub" PROVE OwnerInv' /\ (isClosed' => futures' = <<>>)
    <3>1. OwnerInv /\ (isClosed => futures = <<>>) BY <2>1 DEF BuffersInv, PubsubInv
    <3>2. OwnerInv' BY <3>1 DEF OwnerInv, Made
    <3> QED BY <2>1, <3>1, <3>2
  <2> QED BY <2>1 DEF PubsubInv
<1> QED BY <1>2, <1>3, <1>4, <1>5, <1>6 DEF BuffersInv

LEMMA BeginEmitStep ==
  ASSUME BuffersInv, NEW t \in Threads, BeginEmit(t) PROVE BuffersInv'
<1> DEFINE place == IF isClosed THEN "raised" ELSE "publish"
<1>1. /\ t \in Emitters /\ at[t] = "idle" /\ Goto(t, place)
      /\ UNCHANGED <<client, verdict, futures, hold, turn, isClosed, judged, late>>
  BY DEF BeginEmit
<1>2. place \in Places \ Holders /\ place # "serve" /\ at[t] \notin Holders BY <1>1 DEF Places, Holders
<1> HIDE DEF place
<1>3. KafkaInv'
  <2>1. \A c \in Closers : at'[c] = at[c]
    BY <1>1, BuffersAssumption DEF BuffersAssumption, BuffersInv, BuffersType, Goto, Threads
  <2> QED BY <1>1, <2>1 DEF BuffersInv, KafkaInv, Claimed, Made, NoCloseRaised
<1>4. isClosed' \in BOOLEAN BY <1>1 DEF BuffersInv, BuffersType
<1> QED BY <1>1, <1>2, <1>3, <1>4, PlaceStep

LEMMA PollRaisesStep ==
  ASSUME BuffersInv, NEW t \in Threads, PollRaises(t) PROVE BuffersInv'
<1>1. /\ t \in Emitters /\ at[t] = "publish" /\ Goto(t, "raised")
      /\ UNCHANGED <<client, verdict, futures, hold, turn, isClosed, judged, late>>
  BY DEF PollRaises
<1>2. "raised" \in Places \ Holders /\ at[t] \notin Holders BY <1>1 DEF Places, Holders
<1>3. KafkaInv'
  <2>1. \A c \in Closers : at'[c] = at[c]
    BY <1>1, BuffersAssumption DEF BuffersAssumption, BuffersInv, BuffersType, Goto, Threads
  <2> QED BY <1>1, <2>1 DEF BuffersInv, KafkaInv, Claimed, Made, NoCloseRaised
<1>4. isClosed' \in BOOLEAN BY <1>1 DEF BuffersInv, BuffersType
<1> QED BY <1>1, <1>2, <1>3, <1>4, PlaceStep

LEMMA KafkaReturnStep ==
  ASSUME BuffersInv, NEW t \in Threads, KafkaReturn(t) PROVE BuffersInv'
<1>1. /\ t \in Emitters /\ at[t] = "publish" /\ Goto(t, Verdict(t))
      /\ UNCHANGED <<client, verdict, futures, hold, turn, isClosed, judged, late>>
  BY DEF KafkaReturn
<1>2. Verdict(t) \in Places \ Holders /\ Verdict(t) # "serve" /\ at[t] \notin Holders
  BY <1>1, VerdictPlaces DEF Places, Holders
<1>3. KafkaInv'
  <2>1. \A c \in Closers : at'[c] = at[c]
    BY <1>1, BuffersAssumption DEF BuffersAssumption, BuffersInv, BuffersType, Goto, Threads
  <2> QED BY <1>1, <2>1 DEF BuffersInv, KafkaInv, Claimed, Made, NoCloseRaised
<1>4. isClosed' \in BOOLEAN BY <1>1 DEF BuffersInv, BuffersType
<1> QED BY <1>1, <1>2, <1>3, <1>4, PlaceStep

LEMMA KafkaFlushStep ==
  ASSUME BuffersInv, NEW t \in Threads, KafkaFlush(t) PROVE BuffersInv'
<1> DEFINE place == IF isClosed THEN "raised" ELSE "serve"
<1>1. /\ t \in Flushers /\ at[t] = "idle" /\ Goto(t, place) /\ client = "kafka"
      /\ UNCHANGED <<client, verdict, futures, hold, turn, isClosed, judged, late>>
  BY DEF KafkaFlush
<1>2. place \in Places \ Holders /\ at[t] \notin Holders BY <1>1 DEF Places, Holders
<1> HIDE DEF place
<1>3. KafkaInv'
  <2>1. \A c \in Closers : at'[c] = at[c]
    BY <1>1, BuffersAssumption DEF BuffersAssumption, BuffersInv, BuffersType, Goto, Threads
  <2> QED BY <1>1, <2>1 DEF BuffersInv, KafkaInv, Claimed, Made, NoCloseRaised
<1>4. isClosed' \in BOOLEAN BY <1>1 DEF BuffersInv, BuffersType
<1> QED BY <1>1, <1>2, <1>3, <1>4, PlaceStep

LEMMA KafkaCloseStep ==
  ASSUME BuffersInv, NEW t \in Threads, KafkaClose(t) PROVE BuffersInv'
<1> DEFINE place == IF isClosed THEN "returned" ELSE "serve"
<1>1. /\ t \in Closers /\ at[t] = "idle" /\ isClosed' = TRUE /\ Goto(t, place) /\ client = "kafka"
      /\ UNCHANGED <<client, verdict, futures, hold, turn, judged, late>>
      /\ \A c \in Closers : at[c] # "serve"
  BY DEF KafkaClose
<1>2. place \in Places \ Holders /\ at[t] \notin Holders BY <1>1 DEF Places, Holders
<1>3. KafkaInv'
  <2>1. at'[t] = place /\ \A c \in Closers : c # t => at'[c] = at[c]
    BY <1>1 DEF BuffersInv, BuffersType, Goto, Threads
  <2>2. Claimed' <=> Claimed BY <1>1 DEF Claimed, Made
  <2>3. \A p \in Publishes : Made(p)' /\ judged'[p] = 0 => p \in In(futures')
    BY <1>1 DEF BuffersInv, KafkaInv, Made
  <2>4. CASE isClosed
    <3>1. NoCloseRaised => Claimed BY <1>1, <2>4 DEF BuffersInv, KafkaInv
    <3>2. NoCloseRaised' => NoCloseRaised BY <1>1, <2>1 DEF NoCloseRaised
    <3> QED BY <1>1, <2>2, <2>3, <3>1, <3>2 DEF KafkaInv
  <2>5. CASE ~isClosed
    <3>1. at'[t] = "serve" BY <2>1, <2>5
    <3>2. \A c \in Closers : at[c] # "returned" BY <1>1, <2>5 DEF BuffersInv, KafkaInv
    <3>3. \A c \in Closers : at'[c] # "returned" BY <2>1, <3>1, <3>2
    <3> QED BY <1>1, <2>3, <3>1, <3>3 DEF KafkaInv
  <2> QED BY <2>4, <2>5
<1> HIDE DEF place
<1>4. isClosed' \in BOOLEAN BY <1>1
<1> QED BY <1>1, <1>2, <1>3, <1>4, PlaceStep

\* The steps that serve the queue.
LEMMA KafkaKept ==
  ASSUME BuffersInv, client = "kafka", UNCHANGED <<client, hold, at, isClosed>>,
         BuffersType', TurnInv',
         \A p \in Publishes : judged'[p] >= judged[p],
         \A p \in Publishes : Made(p)' /\ judged'[p] = 0 => p \in In(futures'),
         late \subseteq late',
         isClosed => \A p \in Publishes \ late' : Made(p)' => Made(p)
  PROVE  BuffersInv'
<1>1. DistinctInv' /\ PlacesInv' BY DEF BuffersInv, DistinctInv, PlacesInv
<1>2. ASSUME isClosed, Claimed PROVE Claimed'
  <2>1. \A p \in Publishes : judged[p] \in Nat /\ judged'[p] \in Nat BY DEF BuffersInv, BuffersType
  <2>2. ASSUME NEW p \in Publishes \ late', Made(p)' PROVE judged'[p] > 0
    <3>1. Made(p) /\ p \notin late BY <1>2, <2>2
    <3>2. judged[p] > 0 BY <1>2, <3>1 DEF Claimed
    <3>3. judged[p] \in Nat /\ judged'[p] \in Nat /\ judged'[p] >= judged[p] BY <2>1
    <3> QED BY <3>2, <3>3
  <2> QED BY <2>2 DEF Claimed
<1>3. KafkaInv'
  <2>1. /\ \A c \in Closers : at[c] \in {"serve", "returned", "raised"} => isClosed
        /\ isClosed /\ (\A c \in Closers : at[c] # "serve") /\ NoCloseRaised => Claimed
        /\ (\E c \in Closers : at[c] = "returned") /\ NoCloseRaised => Claimed
    BY DEF BuffersInv, KafkaInv
  <2>2. NoCloseRaised' <=> NoCloseRaised BY DEF NoCloseRaised
  <2> QED BY <1>2, <2>1, <2>2 DEF KafkaInv
<1> QED BY <1>1, <1>3 DEF BuffersInv, PubsubInv

LEMMA ServedAway ==
  ASSUME BuffersInv
  PROVE  LET left == Without(futures, Served)
         IN  left \in Seq(Publishes) /\ In(left) = In(futures) \ Served
<1>1. futures \in Seq(Publishes) BY DEF BuffersInv, BuffersType
<1> QED BY <1>1, WithoutTakes

LEMMA ServeStep ==
  ASSUME BuffersInv, NEW t \in Threads, Serve(t) PROVE BuffersInv'
<1> DEFINE left == Without(futures, Served)
<1>1. /\ at[t] = "serve" /\ futures' = left /\ Judge(Served)
      /\ UNCHANGED <<client, verdict, hold, at, turn, isClosed, late>>
  BY DEF Serve
<1>2. client = "kafka" BY <1>1 DEF BuffersInv, PlacesInv
<1>3. left \in Seq(Publishes) /\ In(left) = In(futures) \ Served BY ServedAway
<1> HIDE DEF left
<1>4. judged' \in [Publishes -> Nat]
      /\ \A p \in Publishes : judged'[p] = judged[p] + IF p \in Served THEN 1 ELSE 0
  BY <1>1, JudgeCounts
<1>5. \A p \in Publishes : judged[p] \in Nat BY DEF BuffersInv, BuffersType
<1>6. BuffersType' BY <1>1, <1>3, <1>4 DEF BuffersInv, BuffersType
<1>7. TurnInv' BY <1>1 DEF BuffersInv, TurnInv
<1>8. \A p \in Publishes : judged'[p] >= judged[p] BY <1>4, <1>5
<1>9. \A p \in Publishes : Made(p)' <=> Made(p) BY <1>1 DEF Made
<1>10. ASSUME NEW p \in Publishes, Made(p)', judged'[p] = 0 PROVE p \in In(futures')
  <2>1. judged[p] = 0 /\ p \notin Served BY <1>4, <1>5, <1>10
  <2>2. p \in In(futures) BY <1>2, <1>9, <1>10, <2>1 DEF BuffersInv, KafkaInv
  <2> QED BY <1>1, <1>3, <2>1, <2>2
<1> QED BY <1>1, <1>2, <1>6, <1>7, <1>8, <1>9, <1>10, KafkaKept

LEMMA ProduceStep ==
  ASSUME BuffersInv, NEW t \in Threads, Produce(t) PROVE BuffersInv'
<1> DEFINE left == Without(futures, Served)
           p    == Current(t)
<1>1. /\ t \in Emitters /\ at[t] = "publish" /\ turn[t] <= PerBatch[t] /\ client = "kafka"
      /\ verdict' = [verdict EXCEPT ![p] = "open"] /\ futures' = Append(left, p) /\ Judge(Served)
      /\ late' = (IF isClosed THEN late \cup {p} ELSE late)
      /\ turn' = [turn EXCEPT ![t] = @ + 1] /\ UNCHANGED <<client, hold, at, isClosed>>
  BY DEF Produce, Loop, Advance
<1>2. BuffersType BY DEF BuffersInv
<1>3. p \in Publishes /\ verdict[p] = "none" BY <1>1, <1>2, FreshPublish
<1>4. left \in Seq(Publishes) /\ In(left) = In(futures) \ Served BY ServedAway
<1>5. verdict' \in [Publishes -> {"none", "refused", "open", "settled"}]
      /\ \A q \in Publishes : verdict'[q] = IF q = p THEN "open" ELSE verdict[q]
  BY <1>1, <1>2, <1>3 DEF BuffersType
<1>6. TurnInv' BY <1>1, <1>5, TurnMoves
<1> HIDE DEF left, p
<1>7. judged' \in [Publishes -> Nat]
      /\ \A q \in Publishes : judged'[q] = judged[q] + IF q \in Served THEN 1 ELSE 0
  BY <1>1, JudgeCounts
<1>8. \A q \in Publishes : judged[q] \in Nat BY <1>2 DEF BuffersType
<1>9. futures' \in Seq(Publishes) /\ In(futures') = In(left) \cup {p}
  BY <1>1, <1>3, <1>4, ElementsAppend DEF In
<1>10. turn' \in [Emitters -> Nat \ {0}] BY <1>1, <1>2 DEF BuffersType
<1>11. late' \subseteq Publishes /\ late \subseteq late' BY <1>1, <1>2, <1>3 DEF BuffersType
<1>12. BuffersType' BY <1>1, <1>2, <1>5, <1>7, <1>9, <1>10, <1>11 DEF BuffersType
<1>13. \A q \in Publishes : judged'[q] >= judged[q] BY <1>7, <1>8
<1>14. ASSUME NEW q \in Publishes, Made(q)', judged'[q] = 0 PROVE q \in In(futures')
  <2>1. CASE q = p BY <1>9, <2>1
  <2>2. CASE q # p
    <3>1. judged[q] = 0 /\ q \notin Served BY <1>7, <1>8, <1>14
    <3>2. Made(q) BY <1>5, <1>14, <2>2 DEF Made
    <3>3. q \in In(futures) BY <1>1, <3>1, <3>2 DEF BuffersInv, KafkaInv
    <3> QED BY <1>4, <1>9, <3>1, <3>3
  <2> QED BY <2>1, <2>2
<1>15. ASSUME isClosed, NEW q \in Publishes \ late', Made(q)' PROVE Made(q)
  <2>1. q # p BY <1>1, <1>15
  <2> QED BY <1>5, <1>15, <2>1 DEF Made
<1> QED BY <1>1, <1>6, <1>11, <1>12, <1>13, <1>14, <1>15, KafkaKept

LEMMA KafkaEndStep ==
  ASSUME BuffersInv, NEW t \in Threads, KafkaEnd(t) PROVE BuffersInv'
<1>0. at[t] = "serve" /\ UNCHANGED <<client, verdict, futures, hold, turn, isClosed, late>>
  BY DEF KafkaEnd
<1>1. PICK place \in {"returned", "raised"}, S \in SUBSET In(futures) :
          /\ Goto(t, place) /\ Judge(S)
          /\ t \in Closers => place = "raised" \/ S = In(futures)
          /\ t \notin Closers => S = {}
  <2>1. {} \in SUBSET In(futures) /\ In(futures) \in SUBSET In(futures) OBVIOUS
  <2>2. \/ Goto(t, "raised") /\ Judge({})
        \/ t \in Closers /\ Goto(t, "returned") /\ Judge(In(futures))
        \/ \E place \in {"returned", "raised"} : t \notin Closers /\ Goto(t, place) /\ Judge({})
    BY DEF KafkaEnd
  <2> QED BY <2>1, <2>2
<1>2. client = "kafka" BY <1>0 DEF BuffersInv, PlacesInv
<1>3. judged' \in [Publishes -> Nat]
      /\ \A p \in Publishes : judged'[p] = judged[p] + IF p \in S THEN 1 ELSE 0
  BY <1>1, JudgeCounts
<1>4. \A p \in Publishes : judged[p] \in Nat BY DEF BuffersInv, BuffersType
<1>5. place \in {"returned", "raised"} BY <1>1
<1>6. at' \in [Threads -> Places] /\ \A u \in Threads : at'[u] = IF u = t THEN place ELSE at[u]
  BY <1>1, <1>5 DEF BuffersInv, BuffersType, Goto, Places
<1>7. BuffersType' BY <1>0, <1>1, <1>3, <1>6 DEF BuffersInv, BuffersType
<1>8. DistinctInv' BY <1>0, <1>1 DEF BuffersInv, DistinctInv
<1>9. TurnInv'
  <2>1. \A e \in Emitters : at'[e] = "append" <=> at[e] = "append" BY <1>0, <1>1, <1>5, <1>6 DEF Threads
  <2> QED BY <1>0, <1>1, <2>1 DEF BuffersInv, TurnInv
<1>10. PlacesInv'
  <2>1. hold[t] = <<>> BY <1>0, <1>1 DEF BuffersInv, PlacesInv, Holders
  <2>2. at'[t] \notin Holders \cup {"serve", "append"} BY <1>5, <1>6 DEF Holders
  <2>3. ASSUME NEW u \in Threads
        PROVE  /\ hold'[u] # <<>> => at'[u] \in Holders
               /\ at'[u] \in Holders => client' = "pubsub"
               /\ at'[u] = "serve" => client' = "kafka"
               /\ at'[u] = "append" => u \in Emitters
    <3>1. CASE u = t BY <1>0, <1>1, <2>1, <2>2, <3>1
    <3>2. CASE u # t BY <1>0, <1>1, <1>6, <3>2 DEF BuffersInv, PlacesInv
    <3> QED BY <3>1, <3>2
  <2> QED BY <2>3 DEF PlacesInv
<1>11. PubsubInv' BY <1>0, <1>1, <1>2 DEF PubsubInv
<1>12. KafkaInv'
  <2>1. \A p \in Publishes : Made(p)' <=> Made(p) BY <1>0, <1>1 DEF Made
  <2>2. \A p \in Publishes : Made(p) /\ judged[p] = 0 => p \in In(futures)
    BY <1>2 DEF BuffersInv, KafkaInv
  <2>3. \A p \in Publishes : Made(p)' /\ judged'[p] = 0 => p \in In(futures')
    BY <1>0, <1>3, <1>4, <2>1, <2>2
  <2>4. /\ \A c \in Closers : at[c] \in {"serve", "returned", "raised"} => isClosed
        /\ isClosed /\ (\A c \in Closers : at[c] # "serve") /\ NoCloseRaised => Claimed
        /\ (\E c \in Closers : at[c] = "returned") /\ NoCloseRaised => Claimed
    BY <1>2 DEF BuffersInv, KafkaInv
  <2>5. Closers \subseteq Threads BY DEF Threads
  <2>6. CASE t \in Closers
    <3>1. isClosed' BY <1>0, <2>4, <2>6
    <3>2. \A c \in Closers : at'[c] \in {"serve", "returned", "raised"} => isClosed' BY <3>1
    <3>3. CASE place = "raised"
      <4>1. ~NoCloseRaised' BY <1>6, <2>5, <2>6, <3>3 DEF NoCloseRaised
      <4> QED BY <2>3, <3>2, <4>1 DEF KafkaInv
    <3>4. CASE S = In(futures)
      <4>1. ASSUME NEW p \in Publishes, Made(p) PROVE judged'[p] > 0
        <5>1. CASE judged[p] = 0 BY <1>3, <1>4, <2>2, <3>4, <4>1, <5>1
        <5>2. CASE judged[p] # 0 BY <1>3, <1>4, <5>2
        <5> QED BY <5>1, <5>2
      <4>2. Claimed' BY <2>1, <4>1 DEF Claimed
      <4> QED BY <2>3, <3>2, <4>2 DEF KafkaInv
    <3> QED BY <1>1, <2>6, <3>3, <3>4
  <2>7. CASE t \notin Closers
    <3>1. \A c \in Closers : at'[c] = at[c] BY <1>6, <2>5, <2>7
    <3>2. judged' = judged
      <4>1. \A p \in Publishes : judged'[p] = judged[p] BY <1>1, <1>3, <1>4, <2>7
      <4> QED BY <1>3, <4>1 DEF BuffersInv, BuffersType
    <3>3. Claimed' <=> Claimed BY <1>0, <2>1, <3>2 DEF Claimed
    <3>4. NoCloseRaised' <=> NoCloseRaised BY <3>1 DEF NoCloseRaised
    <3> QED BY <1>0, <2>3, <2>4, <3>1, <3>3, <3>4 DEF KafkaInv
  <2> QED BY <2>6, <2>7
<1> QED BY <1>7, <1>8, <1>9, <1>10, <1>11, <1>12 DEF BuffersInv

----------------------------------------------------------------------------
(* The sinks whose client keeps what it was given                          *)

LEMMA BuffersInitially == BuffersInit => BuffersInv
<1> SUFFICES ASSUME BuffersInit PROVE BuffersInv OBVIOUS
<1> USE DEF BuffersInit
<1>1. BuffersType
  <2>1. futures \in Seq(Publishes) /\ hold \in [Threads -> Seq(Publishes)]
    <3>1. <<>> \in Seq(Publishes) BY InType
    <3> QED BY <3>1
  <2>2. at \in [Threads -> Places] BY DEF Places
  <2>3. /\ client \in {"pubsub", "kafka"}
        /\ verdict \in [Publishes -> {"none", "refused", "open", "settled"}]
    OBVIOUS
  <2>4. turn \in [Emitters -> Nat \ {0}] OBVIOUS
  <2>5. isClosed \in BOOLEAN /\ judged \in [Publishes -> Nat] /\ late \subseteq Publishes OBVIOUS
  <2> QED BY <2>1, <2>2, <2>3, <2>4, <2>5 DEF BuffersType
<1>2. DistinctInv BY InType DEF DistinctInv
<1>3. TurnInv
  <2>1. \A e \in Emitters : \A i \in 1..PerBatch[e] : <<e, i>> \in Publishes
    BY PublishOf, BuffersAssumption
  <2> QED BY <2>1 DEF TurnInv
<1>4. PlacesInv BY DEF PlacesInv, Holders
<1>5. PubsubInv BY InType DEF PubsubInv, OwnerInv, Made
<1>6. KafkaInv
  <2>1. \A c \in Closers : at[c] = "idle" BY DEF Threads
  <2> QED BY <2>1 DEF KafkaInv, Made, Claimed
<1> QED BY <1>1, <1>2, <1>3, <1>4, <1>5, <1>6 DEF BuffersInv

LEMMA BuffersStep == BuffersInv /\ [BuffersNext]_bufferVars => BuffersInv'
<1> SUFFICES ASSUME BuffersInv, [BuffersNext]_bufferVars PROVE BuffersInv' OBVIOUS
<1>1. CASE UNCHANGED bufferVars
  BY <1>1 DEF bufferVars, BuffersInv, BuffersType, DistinctInv, TurnInv, PlacesInv, PubsubInv,
              OwnerInv, KafkaInv, Claimed, Made, NoCloseRaised
<1>2. ASSUME NEW t \in Threads, ThreadStep(t) PROVE BuffersInv'
  BY <1>2, RefusePublishStep, PublishStep, AppendFutureStep, ReapStep, ResolveOneStep, EndWaitStep,
     PutBackStep, DrainExpireStep, DrainUnboundedStep, ProduceStep, PollRaisesStep, KafkaReturnStep,
     ServeStep, KafkaEndStep DEF ThreadStep
<1>3. ASSUME NEW t \in Threads, Call(t) PROVE BuffersInv'
  BY <1>3, BeginEmitStep, BeginFlushStep, BeginCloseStep, KafkaFlushStep, KafkaCloseStep DEF Call
<1>4. ASSUME NEW p \in Publishes, SettlePublish(p) PROVE BuffersInv' BY <1>4, SettleStepOf
<1> QED BY <1>1, <1>2, <1>3, <1>4 DEF BuffersNext

\* No publish of GooglePubSubSink is forgotten or judged twice, and no message of KafkaSink is left
\* behind by close() but one that was produced behind it, unless the producer raised out of it: for
\* any number of threads inside emit(), flush() and close(), any batches, any max_pending and any
\* futures that take no timeout.
THEOREM EveryPublishJudged == BuffersSpec => []NoPublishForgotten
<1>1. ASSUME BuffersInv PROVE NoPublishForgotten
  <2>1. ASSUME client = "pubsub", NEW p \in Publishes
        PROVE  judged[p] + Owners(p) = IF verdict[p] \in {"none", "refused"} THEN 0 ELSE 1
    <3> DEFINE H == {t \in Threads : p \in In(hold[t])}
    <3>1. /\ judged[p] <= 1
          /\ judged[p] = 1 => p \notin In(futures) /\ H = {}
          /\ p \in In(futures) => H = {}
          /\ \A t, u \in H : t = u
          /\ Made(p) <=> judged[p] = 1 \/ p \in In(futures) \/ H # {}
      BY <1>1, <2>1 DEF BuffersInv, PubsubInv, OwnerInv
    <3>2. judged[p] \in Nat BY <1>1 DEF BuffersInv, BuffersType
    <3>3. Owners(p) = (IF p \in In(futures) THEN 1 ELSE 0) + Cardinality(H) BY DEF Owners
    <3>4. Made(p) <=> ~(verdict[p] \in {"none", "refused"}) BY DEF Made
    <3> HIDE DEF H
    <3>5. CASE H = {}
      <4>1. Cardinality(H) = 0 BY <3>5, FS_EmptySet
      <4> QED BY <3>1, <3>2, <3>3, <3>4, <3>5, <4>1
    <3>6. CASE H # {}
      <4>1. PICK t : t \in H BY <3>6
      <4>2. H = {t} BY <3>1, <4>1
      <4>3. Cardinality(H) = 1 BY <4>2, FS_Singleton
      <4>4. judged[p] = 0 /\ p \notin In(futures) BY <3>1, <3>2, <3>6
      <4> QED BY <3>1, <3>3, <3>4, <3>6, <4>3, <4>4
    <3> QED BY <3>5, <3>6
  <2>2. client = "pubsub" /\ isClosed => futures = <<>> BY <1>1 DEF BuffersInv, PubsubInv
  <2>3. client = "kafka" /\ (\E c \in Closers : at[c] = "returned") /\ NoCloseRaised =>
            \A p \in Publishes \ late : verdict[p] \notin {"none", "refused"} => judged[p] > 0
    BY <1>1 DEF BuffersInv, KafkaInv, Claimed, Made
  <2> QED BY <2>1, <2>2, <2>3 DEF NoPublishForgotten
<1> QED BY <1>1, BuffersInitially, BuffersStep, PTL DEF BuffersSpec

----------------------------------------------------------------------------
(* The NATS sink                                                           *)

Rounds   == {"check", "liveness", "publish", "tally"}
Confirms == {"confirming", "older", "confirm", "confirmed"}

Probes ==
    [task : {"none", "created", "waiting", "answered", "hollow"}, at : Nat, old : BOOLEAN]

DriverInv ==
    /\ up \in BOOLEAN /\ reconnects \in Nat /\ since \in Nat /\ since <= reconnects
    /\ buffer \in Seq(Ids) /\ wire \in Seq(Ids \cup {0}) /\ processed \subseteq Ids
    /\ probe \in Probes
    /\ probe.task = "created" => 0 \notin In(wire)

CallType ==
    /\ run \in {"none", "bare"} \cup Rounds \cup Confirms
    /\ doing \in {"none", "emit", "flush", "close"}
    /\ calls \in 0..MaxCalls /\ next \in 1..(Batch + 1)
    /\ counted \in [Ids -> Nat] /\ returned \subseteq 1..calls

RunInv ==
    /\ run = "none" <=> doing = "none"
    /\ run \in Rounds => doing = "emit"
    /\ run = "bare" => doing = "flush"
    /\ run = "publish" => unreturned = {}
    /\ doing = "emit" => calls >= 1 /\ calls \notin returned
    /\ doing # "emit" \/ run \in {"check", "liveness"} => published = {} /\ unreturned = {} /\ next = 1
    /\ unreturned \subseteq published /\ published \subseteq {e \in Of(calls) : e < Event}

\* An event of the running emit() is counted, published, or still before the loop; of the calls to
\* come none is counted.
CountInv ==
    /\ \A c \in (calls + 1)..MaxCalls : \A e \in Of(c) : counted[e] = 0
    /\ doing = "emit" =>
          \A e \in Of(calls) :
              counted[e] = IF e \in published \/ (run \in Rounds /\ e >= Event) THEN 0 ELSE 1

\* On the connection the call began with, what it published was processed, or is in the buffer or
\* on the wire; once the buffer has drained, on the wire; and ahead of the PING that confirms.
Ahead(k) == processed \cup {wire[j] : j \in 1..(k - 1)}
ReachInv ==
    since = reconnects /\ up =>
        /\ published \subseteq processed \cup In(buffer) \cup In(wire)
        /\ run \in {"older", "confirm"} => published \subseteq processed \cup In(wire)
        /\ run = "confirmed" =>
              /\ probe.task = "created" => published \subseteq processed \cup In(wire)
              /\ probe.task = "waiting" =>
                    \A k \in DOMAIN wire : wire[k] = 0 => published \subseteq Ahead(k)
              /\ probe.task = "answered" => published \subseteq processed

JetInv == jetstream => published \ unreturned \subseteq processed

NatsInv == DriverInv /\ CallType /\ RunInv /\ CountInv /\ ReachInv /\ JetInv /\ CountedOnce

LEMMA Times ==
  ASSUME NEW a \in Nat, NEW b \in Nat, a <= b
  PROVE  a * Batch \in Nat /\ b * Batch \in Nat /\ a * Batch <= b * Batch
<1>1. Batch \in Nat BY NatsAssumption
<1>2. PICK d \in Nat : b = a + d
  <2>1. b - a \in Nat /\ b = a + (b - a) OBVIOUS
  <2> QED BY <2>1
<1>3. a * Batch \in Nat /\ d * Batch \in Nat BY <1>1
<1>4. b * Batch = a * Batch + d * Batch BY <1>1, <1>2
<1> QED BY <1>3, <1>4

\* The events of a call, as an interval.
LEMMA OfCall ==
  ASSUME NEW c \in 1..MaxCalls
  PROVE  \E base \in Nat :
            /\ base = (c - 1) * Batch /\ base + Batch <= MaxCalls * Batch /\ c * Batch = base + Batch
            /\ MaxCalls * Batch \in Nat
            /\ Of(c) = {base + i : i \in 1..Batch}
<1>1. Batch \in Nat /\ MaxCalls \in Nat /\ c - 1 \in Nat /\ c \in Nat BY NatsAssumption
<1>2. (c - 1) * Batch \in Nat BY <1>1
<1>3. c * Batch = (c - 1) * Batch + Batch BY <1>1
<1>4. c * Batch <= MaxCalls * Batch /\ MaxCalls * Batch \in Nat BY <1>1, Times
<1>5. Of(c) = {(c - 1) * Batch + i : i \in 1..Batch} BY DEF Of
<1> DEFINE b == (c - 1) * Batch
<1>6. b \in Nat /\ b + Batch <= MaxCalls * Batch BY <1>1, <1>2, <1>3, <1>4
<1> QED BY <1>3, <1>4, <1>5, <1>6

LEMMA OfIds == \A c \in 1..MaxCalls : Of(c) \subseteq Ids
<1> SUFFICES ASSUME NEW c \in 1..MaxCalls PROVE Of(c) \subseteq Ids OBVIOUS
<1>1. PICK base \in Nat : base + Batch <= MaxCalls * Batch /\ MaxCalls * Batch \in Nat
                          /\ Of(c) = {base + i : i \in 1..Batch}
  BY OfCall
<1> DEFINE top == MaxCalls * Batch
<1>2. top \in Nat /\ base + Batch <= top /\ Ids = 1..top BY <1>1 DEF Ids
<1> HIDE DEF top
<1>3. Batch \in Nat BY NatsAssumption
<1> QED BY <1>1, <1>2, <1>3

LEMMA OfApart ==
  ASSUME NEW c \in 1..MaxCalls, NEW d \in 1..MaxCalls, c # d
  PROVE  Of(c) \cap Of(d) = {}
<1>0. Batch \in Nat /\ MaxCalls \in Nat BY NatsAssumption
<1>1. ASSUME NEW a \in 1..MaxCalls, NEW b \in 1..MaxCalls, a < b
      PROVE  Of(a) \cap Of(b) = {}
  <2>1. PICK p \in Nat : p = (a - 1) * Batch /\ a * Batch = p + Batch
                         /\ Of(a) = {p + i : i \in 1..Batch}
    BY OfCall
  <2>2. PICK q \in Nat : q = (b - 1) * Batch /\ Of(b) = {q + i : i \in 1..Batch}
    BY OfCall
  <2>3. a \in Nat /\ b - 1 \in Nat /\ a <= b - 1 BY <1>0, <1>1
  <2>4. a * Batch <= (b - 1) * Batch BY <2>3, Times
  <2>5. p + Batch <= q BY <2>1, <2>2, <2>4
  <2> QED BY <1>0, <2>1, <2>2, <2>5
<1>2. CASE c < d BY <1>1, <1>2
<1>3. CASE d < c BY <1>1, <1>3
<1> QED BY <1>0, <1>2, <1>3

\* The event at position n of the loop of call c, among the events of that call.
LEMMA EventAt ==
  ASSUME NEW c \in 1..MaxCalls, NEW n \in 1..(Batch + 1)
  PROVE  LET pos == (c - 1) * Batch + n
         IN  /\ pos \in Nat /\ (c - 1) * Batch + (n + 1) = pos + 1 /\ \A e \in Of(c) : e \in Nat
             /\ n <= Batch => pos \in Of(c) /\ pos \in Ids
             /\ n = 1 => \A e \in Of(c) : e >= pos
<1> DEFINE pos == (c - 1) * Batch + n
<1>1. PICK base \in Nat : base = (c - 1) * Batch /\ Of(c) = {base + i : i \in 1..Batch}
  BY OfCall
<1>2. pos = base + n /\ (c - 1) * Batch + (n + 1) = base + (n + 1) BY <1>1
<1> HIDE DEF pos
<1>3. Batch \in Nat /\ Of(c) \subseteq Ids BY NatsAssumption, OfIds
<1>4. ASSUME NEW e \in Of(c)
      PROVE  e \in Nat /\ (n = 1 => e >= pos)
  <2>1. PICK i \in 1..Batch : e = base + i BY <1>1
  <2> QED BY <1>2, <1>3, <2>1
<1>5. n <= Batch => pos \in Of(c) BY <1>1, <1>2, <1>3
<1>6. pos \in Nat /\ (c - 1) * Batch + (n + 1) = pos + 1 BY <1>2, <1>3
<1> QED BY <1>3, <1>4, <1>5, <1>6 DEF pos

----------------------------------------------------------------------------

\* What CountedOnce says of one call.
CallSettled(c) ==
    \A e \in Of(c) :
        /\ counted[e] <= 1
        /\ (probing \/ jetstream) /\ c \notin crossed => e \in processed \/ counted[e] = 1

\* A count of events of the running call leaves the others' alone.
LEMMA FailOwn ==
  ASSUME NatsInv, calls >= 1, NEW S, S \subseteq Of(calls), Fail(S)
  PROVE  /\ counted' \in [Ids -> Nat]
         /\ \A c \in 1..MaxCalls : \A e \in Of(c) :
               counted'[e] = counted[e] + IF e \in S THEN 1 ELSE 0
         /\ \A c \in 1..MaxCalls : c # calls => \A e \in Of(c) : counted'[e] = counted[e]
<1>1. counted \in [Ids -> Nat] /\ calls \in 1..MaxCalls BY NatsAssumption DEF NatsInv, CallType
<1>2. counted' = [e \in Ids |-> counted[e] + IF e \in S THEN 1 ELSE 0] BY DEF Fail
<1>3. counted' \in [Ids -> Nat] BY <1>1, <1>2
<1>4. ASSUME NEW c \in 1..MaxCalls, NEW e \in Of(c)
      PROVE  /\ counted'[e] = counted[e] + IF e \in S THEN 1 ELSE 0
             /\ c # calls => counted'[e] = counted[e]
  <2>1. e \in Ids /\ counted[e] \in Nat BY <1>1, OfIds
  <2>2. counted'[e] = counted[e] + IF e \in S THEN 1 ELSE 0 BY <1>2, <2>1
  <2>3. c # calls => e \notin S BY <1>1, OfApart
  <2> QED BY <2>1, <2>2, <2>3
<1> QED BY <1>3, <1>4

\* A count of nothing.
LEMMA FailNone ==
  ASSUME NatsInv, Fail({})
  PROVE  counted' = counted
<1>1. counted \in [Ids -> Nat] BY DEF NatsInv, CallType
<1>2. counted' = [e \in Ids |-> counted[e]] BY <1>1 DEF Fail
<1> QED BY <1>1, <1>2

\* The calls that returned before stay settled.
LEMMA OldCalls ==
  ASSUME NatsInv, jetstream' = jetstream, probing' = probing, processed \subseteq processed',
         crossed \subseteq crossed', \A c \in returned : \A e \in Of(c) : counted'[e] = counted[e]
  PROVE  \A c \in returned : CallSettled(c)'
<1> SUFFICES ASSUME NEW c \in returned PROVE CallSettled(c)' OBVIOUS
<1>1. CallSettled(c) BY DEF NatsInv, CountedOnce, CallSettled
<1> QED BY <1>1 DEF CallSettled, Of

\* A call that ends, returning or raising.
LEMMA CallEnds ==
  ASSUME NatsInv, NEW ok \in BOOLEAN, Leave(ok), DriverInv', calls' = calls,
         jetstream' = jetstream, probing' = probing, processed \subseteq processed',
         crossed \subseteq crossed', counted' \in [Ids -> Nat],
         \A c \in 1..MaxCalls : c # calls \/ doing # "emit" =>
             \A e \in Of(c) : counted'[e] = counted[e],
         ok /\ doing = "emit" => CallSettled(calls)'
  PROVE  NatsInv'
<1>0. MaxCalls \in Nat /\ Batch \in Nat /\ calls \in 0..MaxCalls /\ returned \subseteq 1..calls
  BY NatsAssumption DEF NatsInv, CallType
<1>1. /\ run' = "none" /\ doing' = "none" /\ next' = 1 /\ published' = {} /\ unreturned' = {}
      /\ returned' = IF ok /\ doing = "emit" THEN returned \cup {calls} ELSE returned
  BY DEF Leave
<1>2. doing = "emit" => calls >= 1 /\ calls \notin returned BY DEF NatsInv, RunInv
<1>3. returned' \subseteq 1..calls BY <1>0, <1>1, <1>2
<1>4. CallType' BY <1>0, <1>1, <1>3 DEF CallType
<1>5. RunInv' BY <1>1 DEF RunInv, Rounds
<1>6. CountInv'
  <2>1. \A c \in (calls + 1)..MaxCalls : \A e \in Of(c) : counted[e] = 0 BY DEF NatsInv, CountInv
  <2>2. \A c \in (calls + 1)..MaxCalls : c \in 1..MaxCalls /\ c # calls BY <1>0
  <2>3. \A c \in (calls + 1)..MaxCalls : \A e \in Of(c) : counted'[e] = 0 BY <2>1, <2>2
  <2> QED BY <1>1, <2>3 DEF CountInv, Of
<1>7. ReachInv' /\ JetInv' BY <1>1 DEF ReachInv, JetInv
<1>8. CountedOnce'
  <2>1. \A c \in returned : c \in 1..MaxCalls /\ (c # calls \/ doing # "emit") BY <1>0, <1>2
  <2>2. \A c \in returned : CallSettled(c)' BY <2>1, OldCalls
  <2>3. \A c \in returned' : CallSettled(c)' BY <1>1, <2>2
  <2> QED BY <2>3 DEF CountedOnce, CallSettled
<1> QED BY <1>4, <1>5, <1>6, <1>7, <1>8 DEF NatsInv

\* A step that is none of the running call's.
LEMMA BesidesCall ==
  ASSUME NatsInv, DriverInv', ReachInv', processed \subseteq processed',
         UNCHANGED <<jetstream, probing, runVars, natsLedger>>
  PROVE  NatsInv'
<1> USE DEF runVars, natsLedger
<1>1. CallType' BY DEF NatsInv, CallType
<1>2. RunInv' BY DEF NatsInv, RunInv, Of, Event
<1>3. CountInv' BY DEF NatsInv, CountInv, Of, Event
<1>4. JetInv' BY DEF NatsInv, JetInv
<1>5. CountedOnce' BY OldCalls DEF CountedOnce, CallSettled
<1> QED BY <1>1, <1>2, <1>3, <1>4, <1>5 DEF NatsInv

LEMMA ZeroIsNone == 0 \notin Ids
<1>1. \A n \in Int : 0 \notin 1..n OBVIOUS
<1>2. MaxCalls * Batch \in Int BY NatsAssumption
<1> QED BY <1>1, <1>2 DEF Ids

\* A probe is sent: no earlier PING is on the wire, and every event still is.
LEMMA ProbeSent ==
  ASSUME NatsInv, NEW old \in BOOLEAN, SendProbe(old), since' \in Nat, since' <= reconnects
  PROVE  /\ DriverInv' /\ probe'.task = "created" /\ up' = up /\ reconnects' = reconnects
         /\ processed' = processed /\ buffer' = buffer
         /\ In(wire') = In(wire) \ {0}
<1>1. DriverInv BY DEF NatsInv
<1>2. /\ probe' = [task |-> "created", at |-> reconnects, old |-> old] /\ wire' = Keep(wire, Ids)
      /\ up' = up /\ reconnects' = reconnects /\ buffer' = buffer /\ processed' = processed
  BY DEF SendProbe
<1>3. wire \in Seq(Ids \cup {0}) BY <1>1 DEF DriverInv, Probes
<1>4. wire' \in Seq(Ids \cup {0}) /\ In(wire') = In(wire) \cap Ids
  BY <1>2, <1>3, KeepElements DEF In
<1>5. In(wire) \subseteq Ids \cup {0} BY <1>3 DEF In, ToSet
<1>6. In(wire') = In(wire) \ {0} BY <1>4, <1>5, ZeroIsNone
<1>7. DriverInv'
  <2>1. probe' \in Probes
    BY <1>1, <1>2 DEF DriverInv, Probes
  <2> QED BY <1>1, <1>2, <1>4, <1>6, <2>1 DEF DriverInv, Probes
<1> QED BY <1>2, <1>6, <1>7

----------------------------------------------------------------------------
(* The driver's tasks and the server                                       *)

Aside == UNCHANGED <<jetstream, probing, stuck, runVars, natsLedger, stopping, stopped>>

LEMMA ProbeStartStep == NatsInv /\ ProbeStart /\ Aside => NatsInv'
<1> SUFFICES ASSUME NatsInv, ProbeStart, Aside PROVE NatsInv' OBVIOUS
<1>1. DriverInv /\ ReachInv BY DEF NatsInv
<1>2. /\ probe.task = "created" /\ 0 \notin In(wire) /\ wire \in Seq(Ids \cup {0})
      /\ probe' = [probe EXCEPT !.task = IF up THEN "waiting" ELSE "hollow"]
      /\ wire' = IF up THEN Append(wire, 0) ELSE wire
      /\ up' = up /\ reconnects' = reconnects /\ buffer' = buffer /\ processed' = processed
      /\ since' = since /\ published' = published /\ run' = run
  BY <1>1 DEF ProbeStart, Aside, DriverInv, natsLedger, runVars
<1>3. wire' \in Seq(Ids \cup {0}) /\ In(wire) \subseteq In(wire')
  BY <1>2, ElementsAppend DEF In
<1>4. /\ probe' \in Probes
      /\ probe'.task = IF up THEN "waiting" ELSE "hollow"
  BY <1>1, <1>2 DEF DriverInv, Probes
<1>5. DriverInv' BY <1>1, <1>2, <1>3, <1>4 DEF DriverInv, Probes
<1>6. ReachInv'
  <2> SUFFICES ASSUME since = reconnects, up PROVE ReachInv' BY <1>2 DEF ReachInv
  <2>1. ASSUME run = "confirmed", NEW k \in DOMAIN wire', wire'[k] = 0
        PROVE  published' \subseteq Ahead(k)'
    <3>1. /\ Len(wire) \in Nat /\ Len(wire') = Len(wire) + 1 /\ DOMAIN wire' = 1..(Len(wire) + 1)
          /\ \A i \in 1..Len(wire) : wire'[i] = wire[i] /\ wire[i] # 0
      BY <1>2 DEF In, ToSet
    <3>2. k = Len(wire) + 1 BY <2>1, <3>1
    <3>3. {wire'[j] : j \in 1..(k - 1)} = In(wire) BY <1>2, <3>1, <3>2 DEF In, ToSet
    <3>4. published \subseteq processed \cup In(wire) BY <1>1, <1>2, <2>1 DEF ReachInv
    <3> QED BY <1>2, <3>3, <3>4 DEF Ahead
  <2> QED BY <1>1, <1>2, <1>3, <1>4, <2>1 DEF ReachInv
<1> QED BY <1>2, <1>5, <1>6, BesidesCall DEF Aside

LEMMA ProbeEndsStep == NatsInv /\ ProbeEnds /\ Aside => NatsInv'
<1> SUFFICES ASSUME NatsInv, ProbeEnds, Aside PROVE NatsInv' OBVIOUS
<1>1. DriverInv BY DEF NatsInv
<1>2. /\ ~up /\ probe' = [probe EXCEPT !.task = "hollow"] /\ since' = since
      /\ up' = up /\ reconnects' = reconnects /\ buffer' = buffer /\ wire' = wire /\ processed' = processed
  BY DEF ProbeEnds, Aside, driverVars, natsLedger
<1>3. DriverInv' BY <1>1, <1>2 DEF DriverInv, Probes
<1>4. ReachInv' BY <1>2 DEF ReachInv
<1> QED BY <1>2, <1>3, <1>4, BesidesCall DEF Aside

LEMMA ProbeAgesStep == NatsInv /\ ProbeAges /\ Aside => NatsInv'
<1> SUFFICES ASSUME NatsInv, ProbeAges, Aside PROVE NatsInv' OBVIOUS
<1>1. DriverInv /\ ReachInv BY DEF NatsInv
<1>2. /\ probe' = [probe EXCEPT !.old = TRUE] /\ since' = since /\ published' = published /\ run' = run
      /\ up' = up /\ reconnects' = reconnects /\ buffer' = buffer /\ wire' = wire /\ processed' = processed
  BY DEF ProbeAges, Aside, driverVars, natsLedger, runVars
<1>3. probe'.task = probe.task /\ probe' \in Probes
  BY <1>1, <1>2 DEF DriverInv, Probes
<1>4. DriverInv' BY <1>1, <1>2, <1>3 DEF DriverInv, Probes
<1>5. ReachInv' BY <1>1, <1>2, <1>3 DEF ReachInv, Ahead
<1> QED BY <1>2, <1>4, <1>5, BesidesCall DEF Aside

LEMMA FlusherStep == NatsInv /\ Flusher /\ Aside => NatsInv'
<1> SUFFICES ASSUME NatsInv, Flusher, Aside PROVE NatsInv' OBVIOUS
<1>1. DriverInv /\ ReachInv BY DEF NatsInv
<1>2. /\ buffer # <<>> /\ buffer \in Seq(Ids) /\ wire \in Seq(Ids \cup {0})
      /\ wire' = Append(wire, Head(buffer)) /\ buffer' = Tail(buffer)
      /\ up' = up /\ reconnects' = reconnects /\ probe' = probe /\ processed' = processed
      /\ since' = since /\ published' = published /\ run' = run
  BY <1>1 DEF Flusher, Aside, DriverInv, natsLedger, runVars
<1>3. /\ Head(buffer) \in Ids /\ Head(buffer) # 0 /\ buffer' \in Seq(Ids)
      /\ In(buffer) = {Head(buffer)} \cup In(buffer')
  BY <1>2, HeadTailElements, ZeroIsNone DEF In
<1>4. wire' \in Seq(Ids \cup {0}) /\ In(wire') = In(wire) \cup {Head(buffer)}
  <2>1. Head(buffer) \in Ids \cup {0} BY <1>3
  <2>2. wire' \in Seq(Ids \cup {0}) BY <1>2, <2>1
  <2>3. ToSet(wire') = ToSet(wire) \cup {Head(buffer)} BY <1>2, <2>1, ElementsAppend
  <2> QED BY <2>2, <2>3 DEF In
<1>5. DriverInv' BY <1>1, <1>2, <1>3, <1>4 DEF DriverInv, Probes
<1>6. ReachInv'
  <2> SUFFICES ASSUME since = reconnects, up PROVE ReachInv' BY <1>2 DEF ReachInv
  <2>1. ASSUME run = "confirmed", probe.task = "waiting", NEW k \in DOMAIN wire', wire'[k] = 0
        PROVE  published' \subseteq Ahead(k)'
    <3>1. /\ Len(wire) \in Nat /\ DOMAIN wire = 1..Len(wire) /\ DOMAIN wire' = 1..(Len(wire) + 1)
          /\ wire'[Len(wire) + 1] = Head(buffer)
          /\ \A i \in 1..Len(wire) : wire'[i] = wire[i]
      BY <1>2, <1>3
    <3>2. k \in 1..Len(wire) /\ wire[k] = 0 BY <1>3, <2>1, <3>1
    <3>3. {wire'[j] : j \in 1..(k - 1)} = {wire[j] : j \in 1..(k - 1)} BY <3>1, <3>2
    <3>4. published \subseteq Ahead(k) BY <1>1, <2>1, <3>1, <3>2 DEF ReachInv
    <3> QED BY <1>2, <3>3, <3>4 DEF Ahead
  <2> QED BY <1>1, <1>2, <1>3, <1>4, <2>1 DEF ReachInv
<1> QED BY <1>2, <1>5, <1>6, BesidesCall DEF Aside

LEMMA ServerStep == NatsInv /\ Server /\ Aside => NatsInv'
<1> SUFFICES ASSUME NatsInv, Server, Aside PROVE NatsInv' OBVIOUS
<1>1. DriverInv /\ ReachInv BY DEF NatsInv
<1>2. /\ wire # <<>> /\ wire \in Seq(Ids \cup {0}) /\ wire' = Tail(wire)
      /\ up' = up /\ reconnects' = reconnects /\ buffer' = buffer
      /\ since' = since /\ published' = published /\ run' = run
  BY <1>1 DEF Server, Aside, DriverInv, natsLedger, runVars
<1>3. /\ Head(wire) = wire[1] /\ Head(wire) \in Ids \cup {0} /\ wire' \in Seq(Ids \cup {0})
      /\ In(wire) = {Head(wire)} \cup In(wire')
      /\ Len(wire) \in Nat \ {0} /\ Len(wire') = Len(wire) - 1
      /\ \A i \in 1..(Len(wire) - 1) : wire'[i] = wire[i + 1]
  BY <1>2, HeadTailElements DEF In
<1>4. /\ Head(wire) = 0 => processed' = processed
      /\ Head(wire) # 0 => processed' = processed \cup {Head(wire)} /\ probe' = probe
      /\ \/ probe' = probe
         \/ Head(wire) = 0 /\ probe.task = "waiting" /\ probe' = [probe EXCEPT !.task = "answered"]
  BY DEF Server
<1>5. /\ probe' \in Probes
      /\ probe'.task = probe.task
         \/ (Head(wire) = 0 /\ probe.task = "waiting" /\ probe'.task = "answered")
  BY <1>1, <1>4 DEF DriverInv, Probes
<1>6. processed \subseteq processed' /\ processed' \subseteq Ids BY <1>1, <1>3, <1>4 DEF DriverInv, Probes
<1>7. DriverInv'
  <2>1. probe'.task = "created" => 0 \notin In(wire') BY <1>1, <1>3, <1>5 DEF DriverInv, Probes
  <2> QED BY <1>1, <1>2, <1>3, <1>5, <1>6, <2>1 DEF DriverInv, Probes
<1>8. ReachInv'
  <2> SUFFICES ASSUME since = reconnects, up PROVE ReachInv' BY <1>2 DEF ReachInv
  <2>0. published \subseteq Ids
    <3>1. published \subseteq Of(calls) BY DEF NatsInv, RunInv
    <3>2. calls = 0 \/ calls \in 1..MaxCalls BY DEF NatsInv, CallType
    <3>3. calls = 0 => published = {} BY DEF NatsInv, RunInv
    <3> QED BY <3>1, <3>2, <3>3, OfIds
  <2>1. published \cap In(wire) \subseteq processed' \cup In(wire')
    BY <1>3, <1>4, <2>0, ZeroIsNone
  <2>2. ASSUME run = "confirmed", probe.task = "waiting", NEW k \in 2..Len(wire), wire[k] = 0
        PROVE  published \subseteq processed' \cup {wire'[j] : j \in 1..(k - 2)}
    <3>1. published \subseteq processed \cup {wire[j] : j \in 1..(k - 1)}
      BY <1>1, <1>2, <1>3, <2>2 DEF ReachInv, Ahead
    <3>2. ASSUME NEW e \in published, e \notin processed'
          PROVE  e \in {wire'[j] : j \in 1..(k - 2)}
      <4>1. PICK j \in 1..(k - 1) : e = wire[j] BY <1>6, <3>1, <3>2
      <4>2. j # 1 BY <1>3, <1>4, <2>0, <3>2, <4>1, ZeroIsNone
      <4>3. j - 1 \in 1..(k - 2) /\ j - 1 \in 1..(Len(wire) - 1) /\ (j - 1) + 1 = j BY <1>3, <4>1, <4>2
      <4>4. wire'[j - 1] = e BY <1>3, <4>1, <4>3
      <4> QED BY <4>3, <4>4
    <3> QED BY <3>2
  <2>3. ASSUME run = "confirmed", probe'.task = "waiting", NEW k \in DOMAIN wire', wire'[k] = 0
        PROVE  published' \subseteq Ahead(k)'
    <3>1. k \in 1..(Len(wire) - 1) /\ k + 1 \in 2..Len(wire) /\ wire[k + 1] = 0 /\ (k + 1) - 2 = k - 1
      BY <1>3, <2>3
    <3>2. probe.task = "waiting" BY <1>5, <2>3
    <3>3. published \subseteq processed' \cup {wire'[j] : j \in 1..((k + 1) - 2)} BY <2>2, <2>3, <3>1, <3>2
    <3> QED BY <1>2, <3>1, <3>3 DEF Ahead
  <2>4. ASSUME run = "confirmed", probe'.task = "answered" PROVE published' \subseteq processed'
    <3>1. CASE probe.task = "answered" BY <1>1, <1>2, <1>6, <2>4, <3>1 DEF ReachInv
    <3>2. CASE probe.task # "answered"
      <4>1. Head(wire) = 0 /\ probe.task = "waiting" /\ wire[1] = 0 BY <1>3, <1>5, <2>4, <3>2
      <4>2. 1 \in DOMAIN wire /\ {wire[j] : j \in 1..(1 - 1)} = {} BY <1>2, <1>3
      <4>3. published \subseteq Ahead(1) BY <1>1, <2>4, <4>1, <4>2 DEF ReachInv
      <4> QED BY <1>2, <1>6, <4>2, <4>3 DEF Ahead
    <3> QED BY <3>1, <3>2
  <2>5. published \subseteq processed' \cup In(buffer') \cup In(wire')
    BY <1>1, <1>2, <1>6, <2>1 DEF ReachInv
  <2>6. run \in {"older", "confirm"} \/ (run = "confirmed" /\ probe'.task = "created")
        => published \subseteq processed' \cup In(wire')
    BY <1>1, <1>5, <1>6, <2>1 DEF ReachInv
  <2> QED BY <1>2, <2>3, <2>4, <2>5, <2>6 DEF ReachInv
<1> QED BY <1>6, <1>7, <1>8, BesidesCall DEF Aside

LEMMA LostStep == NatsInv /\ Lost /\ Aside => NatsInv'
<1> SUFFICES ASSUME NatsInv, Lost, Aside PROVE NatsInv' OBVIOUS
<1>1. DriverInv BY DEF NatsInv
<1>2. /\ up' = FALSE /\ wire' = <<>> /\ since' = since
      /\ reconnects' = reconnects /\ buffer' = buffer /\ processed' = processed /\ probe' = probe
  BY DEF Lost, Aside, natsLedger
<1>3. wire' \in Seq(Ids \cup {0}) /\ In(wire') = {} BY <1>2 DEF In, ToSet
<1>4. DriverInv' BY <1>1, <1>2, <1>3 DEF DriverInv, Probes
<1>5. ReachInv' BY <1>2 DEF ReachInv
<1> QED BY <1>2, <1>4, <1>5, BesidesCall DEF Aside

LEMMA ReconnectStep == NatsInv /\ Reconnect /\ Aside => NatsInv'
<1> SUFFICES ASSUME NatsInv, Reconnect, Aside PROVE NatsInv' OBVIOUS
<1>1. DriverInv BY DEF NatsInv
<1>2. /\ up' = TRUE /\ reconnects' = reconnects + 1 /\ since' = since
      /\ wire' = wire /\ buffer' = buffer /\ processed' = processed /\ probe' = probe
  BY DEF Reconnect, Aside, natsLedger
<1>3. DriverInv' /\ since' # reconnects' BY <1>1, <1>2 DEF DriverInv, Probes
<1>4. ReachInv' BY <1>3 DEF ReachInv
<1> QED BY <1>2, <1>3, <1>4, BesidesCall DEF Aside

----------------------------------------------------------------------------
(* The calls                                                               *)

LEMMA DriverSame ==
  ASSUME NatsInv, UNCHANGED <<driverVars, probe>>, since' \in {since, reconnects}
  PROVE  DriverInv'
BY DEF NatsInv, DriverInv, driverVars

LEMMA PublishedIds == NatsInv => published \subseteq Ids /\ published \subseteq Of(calls)
<1> SUFFICES ASSUME NatsInv PROVE published \subseteq Ids /\ published \subseteq Of(calls) OBVIOUS
<1>1. published \subseteq Of(calls) BY DEF NatsInv, RunInv
<1>2. calls = 0 \/ calls \in 1..MaxCalls BY NatsAssumption DEF NatsInv, CallType
<1>3. calls = 0 => published = {} BY DEF NatsInv, RunInv
<1> QED BY <1>1, <1>2, <1>3, OfIds

\* A call that goes on.
LEMMA CallGoesOn ==
  ASSUME NatsInv, DriverInv', ReachInv', processed' = processed,
         UNCHANGED <<jetstream, probing, doing, calls, next, published, unreturned, counted, returned,
                     crossed>>,
         run # "none",
         \/ run' \in {"liveness", "publish"} /\ run \in {"check", "liveness"}
         \/ run' = "tally" /\ run = "publish"
         \/ run' \in Confirms /\ run \in Confirms
  PROVE  NatsInv'
<1> USE DEF Rounds, Confirms
<1>1. CallType' BY DEF NatsInv, CallType
<1>2. RunInv' BY DEF NatsInv, RunInv, Of, Event
<1>3. CountInv' BY DEF NatsInv, CountInv, Of, Event
<1>4. JetInv' BY DEF NatsInv, JetInv
<1>5. CountedOnce'
  <2>1. \A c \in returned : CallSettled(c)' BY OldCalls
  <2> QED BY <2>1 DEF CountedOnce, CallSettled
<1> QED BY <1>1, <1>2, <1>3, <1>4, <1>5 DEF NatsInv

LEMMA BeginStep ==
  ASSUME NatsInv, NEW what \in {"emit", "flush"}, NatsBegin(what)
  PROVE  NatsInv'
<1> USE DEF Rounds, Confirms
<1>1. /\ run = "none" /\ calls < MaxCalls /\ calls' = calls + 1
      /\ UNCHANGED <<jetstream, probing, driverVars, probe, since, next, published, unreturned,
                     counted, returned, crossed>>
      /\ \/ UNCHANGED <<run, doing>>
         \/ doing' = "emit" /\ run' = "check"
         \/ doing' = "flush" /\ run' \in {"confirming", "bare"}
  BY DEF NatsBegin, latchVars, natsLedger
<1>2. /\ calls \in 0..MaxCalls /\ MaxCalls \in Nat /\ Batch \in Nat \ {0} /\ returned \subseteq 1..calls
      /\ counted \in [Ids -> Nat]
  BY NatsAssumption DEF NatsInv, CallType
<1>3. doing = "none" /\ published = {} /\ unreturned = {} /\ next = 1 BY <1>1 DEF NatsInv, RunInv
<1>4. DriverInv' BY <1>1, DriverSame
<1>5. calls' \in 1..MaxCalls /\ calls' \in 0..MaxCalls /\ calls' \notin returned /\ returned' \subseteq 1..calls'
  BY <1>1, <1>2
<1>6. CallType'
  <2>1. run' \in {"none", "bare"} \cup Rounds \cup Confirms /\ doing' \in {"none", "emit", "flush", "close"}
    BY <1>1, <1>3
  <2>2. next' \in 1..(Batch + 1) /\ counted' \in [Ids -> Nat] BY <1>1, <1>2, <1>3
  <2> QED BY <1>5, <2>1, <2>2 DEF CallType
<1>7. RunInv' BY <1>1, <1>3, <1>5 DEF RunInv
<1>8. CountInv'
  <2>1. \A c \in (calls + 1)..MaxCalls : \A e \in Of(c) : counted[e] = 0 BY DEF NatsInv, CountInv
  <2>2. calls' \in (calls + 1)..MaxCalls /\ \A c \in (calls' + 1)..MaxCalls : c \in (calls + 1)..MaxCalls
    BY <1>1, <1>2
  <2>3. \A e \in Of(calls') : counted[e] = 0 BY <2>1, <2>2
  <2>4. \A c \in (calls' + 1)..MaxCalls : \A e \in Of(c) : counted[e] = 0 BY <2>1, <2>2
  <2>5. 1 \in 1..(Batch + 1) BY <1>2
  <2>6. \A e \in Of(calls') : e >= (calls' - 1) * Batch + 1 BY <1>5, <2>5, EventAt
  <2>7. doing' = "emit" => run' \in Rounds BY <1>1, <1>3
  <2>8. Event' = (calls' - 1) * Batch + 1 BY <1>1, <1>3 DEF Event
  <2>9. Of(calls)' = Of(calls') BY DEF Of
  <2> QED BY <1>1, <2>3, <2>4, <2>6, <2>7, <2>8, <2>9 DEF CountInv, Of
<1>9. ReachInv' /\ JetInv' BY <1>1, <1>3 DEF ReachInv, JetInv
<1>10. CountedOnce'
  <2>1. \A c \in returned : CallSettled(c)' BY <1>1, OldCalls DEF driverVars
  <2> QED BY <1>1, <2>1 DEF CountedOnce, CallSettled
<1> QED BY <1>4, <1>6, <1>7, <1>8, <1>9, <1>10 DEF NatsInv

LEMMA EmitCheckStep == NatsInv /\ EmitCheck => NatsInv'
<1> SUFFICES ASSUME NatsInv, EmitCheck PROVE NatsInv' OBVIOUS
<1>1. /\ run = "check" /\ UNCHANGED <<jetstream, probing, calls, counted, crossed>>
      /\ published = {} /\ counted \in [Ids -> Nat] /\ reconnects \in Nat
  BY DEF EmitCheck, NatsInv, RunInv, CallType, DriverInv, Probes
<1>2. CASE ~up
  <2>1. Leave(FALSE) /\ UNCHANGED <<driverVars, probe, since>> BY <1>2 DEF EmitCheck
  <2>2. DriverInv' /\ processed' = processed BY <2>1, DriverSame DEF driverVars
  <2> QED BY <1>1, <2>1, <2>2, CallEnds
<1>3. CASE up
  <2>1. /\ run' \in {"liveness", "publish"} /\ since' = reconnects
        /\ SendProbe(FALSE) \/ UNCHANGED <<driverVars, probe>>
        /\ UNCHANGED <<doing, next, published, unreturned, returned>>
    BY <1>3 DEF EmitCheck
  <2>2. DriverInv' /\ processed' = processed
    <3>1. CASE SendProbe(FALSE)
      <4>1. since' \in Nat /\ since' <= reconnects BY <1>1, <2>1
      <4>2. FALSE \in BOOLEAN OBVIOUS
      <4> QED BY <3>1, <4>1, <4>2, ProbeSent
    <3>2. CASE UNCHANGED <<driverVars, probe>> BY <2>1, <3>2, DriverSame DEF driverVars
    <3> QED BY <2>1, <3>1, <3>2
  <2>3. ReachInv' BY <1>1, <2>1 DEF ReachInv
  <2> QED BY <1>1, <2>1, <2>2, <2>3, CallGoesOn
<1> QED BY <1>2, <1>3

LEMMA EmitLivenessStep == NatsInv /\ EmitLiveness => NatsInv'
<1> SUFFICES ASSUME NatsInv, EmitLiveness PROVE NatsInv' OBVIOUS
<1>1. /\ run = "liveness" /\ UNCHANGED <<jetstream, probing, driverVars, probe, calls, counted, crossed>>
      /\ published = {} /\ counted \in [Ids -> Nat] /\ processed' = processed
  BY DEF EmitLiveness, NatsInv, RunInv, CallType, driverVars, latchVars
<1>2. CASE Answered
  <2>1. /\ run' = "publish" /\ since' = reconnects
        /\ UNCHANGED <<doing, next, published, unreturned, returned>>
    BY <1>2 DEF EmitLiveness
  <2>2. DriverInv' BY <1>1, <2>1, DriverSame
  <2>3. ReachInv' BY <1>1, <2>1 DEF ReachInv
  <2> QED BY <1>1, <2>1, <2>2, <2>3, CallGoesOn
<1>3. CASE ~Answered
  <2>1. Leave(FALSE) /\ since' = since BY <1>3 DEF EmitLiveness
  <2>2. DriverInv' BY <1>1, <2>1, DriverSame
  <2> QED BY <1>1, <2>1, <2>2, CallEnds
<1> QED BY <1>2, <1>3

LEMMA InLoop ==
  ASSUME NatsInv, Publishing
  PROVE  /\ calls \in 1..MaxCalls /\ doing = "emit" /\ calls \notin returned /\ unreturned = {}
         /\ next + 1 \in 1..(Batch + 1)
         /\ Event \in Nat /\ Event \in Of(calls) /\ Event \in Ids
         /\ Event \notin published /\ counted[Event] = 0
         /\ (calls - 1) * Batch + (next + 1) = Event + 1
         /\ \A e \in Of(calls) : e \in Nat
<1>1. run = "publish" /\ next <= Batch BY DEF Publishing
<1>2. doing = "emit" /\ calls >= 1 /\ calls \notin returned /\ unreturned = {}
  BY <1>1 DEF NatsInv, RunInv, Rounds
<1>3. calls \in 1..MaxCalls /\ next \in 1..(Batch + 1) /\ Batch \in Nat
  BY <1>2, NatsAssumption DEF NatsInv, CallType
<1>4. /\ Event \in Nat /\ Event \in Of(calls) /\ Event \in Ids /\ \A e \in Of(calls) : e \in Nat
      /\ (calls - 1) * Batch + (next + 1) = Event + 1
  BY <1>1, <1>3, EventAt DEF Event
<1>5. Event \notin published BY <1>4 DEF NatsInv, RunInv
<1>6. counted[Event] = 0 BY <1>1, <1>2, <1>4 DEF NatsInv, CountInv, Rounds
<1>7. next + 1 \in 1..(Batch + 1) BY <1>1, <1>3
<1> QED BY <1>2, <1>3, <1>4, <1>5, <1>6, <1>7

\* One event of the loop: published, or counted.
LEMMA LoopAdvances ==
  ASSUME NatsInv, Publishing, next' = next + 1, run' \in {"publish", "tally"},
         UNCHANGED <<jetstream, probing, doing, calls, returned, crossed>>,
         published' \in {published, published \cup {Event}},
         unreturned' \subseteq published', run' = "publish" => unreturned' = {},
         processed \subseteq processed', counted' \in [Ids -> Nat],
         \A c \in 1..MaxCalls : \A e \in Of(c) :
             counted'[e] = counted[e] + IF e = Event /\ Event \notin published' THEN 1 ELSE 0,
         \A c \in 1..MaxCalls : c # calls => \A e \in Of(c) : counted'[e] = counted[e],
         DriverInv', ReachInv', JetInv'
  PROVE  NatsInv'
<1> USE DEF Rounds
<1>1. /\ calls \in 1..MaxCalls /\ doing = "emit" /\ calls \notin returned
      /\ next + 1 \in 1..(Batch + 1) /\ Event \in Nat /\ Event \in Of(calls) /\ Event \notin published
      /\ counted[Event] = 0 /\ (calls - 1) * Batch + (next + 1) = Event + 1
      /\ \A e \in Of(calls) : e \in Nat
  BY InLoop
<1>2. run = "publish" BY DEF Publishing
<1>3. Event' = Event + 1 BY <1>1 DEF Event
<1>4. CallType' BY <1>1 DEF NatsInv, CallType
<1>5. published \subseteq {e \in Of(calls) : e < Event} BY DEF NatsInv, RunInv
<1>6. published' \subseteq {e \in Of(calls) : e < Event + 1} BY <1>1, <1>5
<1>7. RunInv' BY <1>1, <1>3, <1>6 DEF RunInv, Of
<1>8. CountInv'
  <2>1. MaxCalls \in Nat /\ \A c \in (calls + 1)..MaxCalls : c \in 1..MaxCalls /\ c # calls
    BY <1>1, NatsAssumption
  <2>2. \A c \in (calls + 1)..MaxCalls : \A e \in Of(c) : counted'[e] = 0
    BY <2>1 DEF NatsInv, CountInv
  <2>3. ASSUME NEW e \in Of(calls)
        PROVE  counted'[e] = IF e \in published' \/ e >= Event + 1 THEN 0 ELSE 1
    <3>1. counted[e] = IF e \in published \/ e >= Event THEN 0 ELSE 1
      BY <1>1, <1>2 DEF NatsInv, CountInv
    <3>2. counted'[e] = counted[e] + IF e = Event /\ Event \notin published' THEN 1 ELSE 0 BY <1>1
    <3>3. e \in Nat BY <1>1
    <3>4. CASE e = Event BY <1>1, <3>2, <3>4
    <3>5. CASE e # Event
      <4>1. e \in published' <=> e \in published BY <3>5
      <4>2. e >= Event + 1 <=> e >= Event BY <1>1, <3>3, <3>5
      <4>3. counted'[e] = counted[e] BY <3>1, <3>2, <3>5
      <4> QED BY <3>1, <4>1, <4>2, <4>3
    <3> QED BY <3>4, <3>5
  <2> QED BY <1>1, <1>3, <2>2, <2>3 DEF CountInv, Of
<1>9. CountedOnce'
  <2>1. \A c \in returned : c \in 1..MaxCalls /\ c # calls
    BY <1>1, NatsAssumption DEF NatsInv, CallType
  <2>2. \A c \in returned : CallSettled(c)' BY <2>1, OldCalls
  <2> QED BY <2>2 DEF CountedOnce, CallSettled
<1> QED BY <1>4, <1>7, <1>8, <1>9 DEF NatsInv

\* Nothing is counted.
LEMMA SameCounts ==
  ASSUME NatsInv, counted' = counted
  PROVE  /\ counted' \in [Ids -> Nat]
         /\ \A c \in 1..MaxCalls : \A e \in Of(c) : counted'[e] = counted[e] + 0
<1>1. counted \in [Ids -> Nat] BY DEF NatsInv, CallType
<1>2. \A c \in 1..MaxCalls : \A e \in Of(c) : counted[e] \in Nat BY <1>1, OfIds
<1> QED BY <1>1, <1>2

LEMMA PublishOkStep == NatsInv /\ PublishOk => NatsInv'
<1> SUFFICES ASSUME NatsInv, PublishOk PROVE NatsInv' OBVIOUS
<1>1. /\ Publishing /\ run = "publish" /\ run' = run
      /\ published' = published \cup {Event} /\ next' = next + 1
      /\ UNCHANGED <<jetstream, probing, doing, calls, returned, crossed, unreturned, counted, since, up,
                     reconnects, wire, probe>>
      /\ IF jetstream THEN processed' = processed \cup {Event} /\ buffer' = buffer
                      ELSE buffer' = Append(buffer, Event) /\ processed' = processed
  BY DEF PublishOk, Publishing, natsLedger, latchVars
<1>2. unreturned = {} /\ Event \in Ids BY <1>1, InLoop
<1>3. buffer \in Seq(Ids) BY DEF NatsInv, DriverInv, Probes
<1>4. /\ processed \subseteq processed' /\ processed' \subseteq Ids /\ buffer' \in Seq(Ids)
      /\ In(buffer) \subseteq In(buffer') /\ Event \in processed' \cup In(buffer')
  <2>1. ASSUME ~jetstream PROVE In(buffer') = In(buffer) \cup {Event}
    <3>1. buffer' = Append(buffer, Event) BY <1>1, <2>1
    <3>2. ToSet(Append(buffer, Event)) = ToSet(buffer) \cup {Event} BY <1>2, <1>3, ElementsAppend
    <3> QED BY <3>1, <3>2 DEF In
  <2>2. processed \subseteq Ids BY DEF NatsInv, DriverInv, Probes
  <2> QED BY <1>1, <1>2, <1>3, <2>1, <2>2
<1>5. DriverInv' BY <1>1, <1>4 DEF NatsInv, DriverInv, Probes
<1>6. ReachInv' BY <1>1, <1>4 DEF NatsInv, ReachInv
<1>7. JetInv' BY <1>1, <1>2 DEF NatsInv, JetInv
<1>8. /\ counted' \in [Ids -> Nat] /\ Event \in published'
      /\ \A c \in 1..MaxCalls : \A e \in Of(c) : counted'[e] = counted[e] + 0
  BY <1>1, SameCounts
<1> QED BY <1>1, <1>2, <1>4, <1>5, <1>6, <1>7, <1>8, LoopAdvances

LEMMA PublishRaisesStep == NatsInv /\ PublishRaises => NatsInv'
<1> SUFFICES ASSUME NatsInv, PublishRaises PROVE NatsInv' OBVIOUS
<1>1. /\ Publishing /\ run = "publish" /\ run' = run /\ Fail({Event}) /\ next' = next + 1
      /\ UNCHANGED <<jetstream, probing, driverVars, probe, doing, calls, published, returned,
                     crossed, unreturned, since>>
      /\ processed' = processed
  BY DEF PublishRaises, Publishing, latchVars, driverVars
<1>2. /\ unreturned = {} /\ Event \in Of(calls) /\ calls >= 1 /\ Event \notin published'
  BY <1>1, InLoop
<1>3. DriverInv' BY <1>1, DriverSame
<1>4. ReachInv' BY <1>1 DEF NatsInv, ReachInv, driverVars
<1>5. JetInv' BY <1>1 DEF NatsInv, JetInv
<1>6. /\ counted' \in [Ids -> Nat]
      /\ \A c \in 1..MaxCalls : \A e \in Of(c) :
            counted'[e] = counted[e] + IF e \in {Event} THEN 1 ELSE 0
      /\ \A c \in 1..MaxCalls : c # calls => \A e \in Of(c) : counted'[e] = counted[e]
  BY <1>1, <1>2, FailOwn
<1> QED BY <1>1, <1>2, <1>3, <1>4, <1>5, <1>6, LoopAdvances

LEMMA PublishAbandonStep == NatsInv /\ PublishAbandon => NatsInv'
<1> SUFFICES ASSUME NatsInv, PublishAbandon PROVE NatsInv' OBVIOUS
<1>1. /\ Publishing /\ run' = "tally" /\ published' = published \cup {Event} /\ next' = next + 1
      /\ unreturned' = {Event} /\ buffer' = Append(buffer, Event)
      /\ UNCHANGED <<jetstream, probing, doing, calls, returned, crossed, counted, since, up,
                     reconnects, wire, processed, probe>>
  BY DEF PublishAbandon, natsLedger
<1>2. unreturned = {} /\ Event \in Ids BY <1>1, InLoop
<1>3. buffer \in Seq(Ids) BY DEF NatsInv, DriverInv, Probes
<1>4. buffer' \in Seq(Ids) /\ In(buffer') = In(buffer) \cup {Event}
  BY <1>1, <1>2, <1>3, ElementsAppend DEF In
<1>5. DriverInv' BY <1>1, <1>4 DEF NatsInv, DriverInv, Probes
<1>6. ReachInv' BY <1>1, <1>4 DEF NatsInv, ReachInv
<1>7. JetInv' BY <1>1, <1>2 DEF NatsInv, JetInv
<1>8. /\ counted' \in [Ids -> Nat] /\ Event \in published'
      /\ \A c \in 1..MaxCalls : \A e \in Of(c) : counted'[e] = counted[e] + 0
  BY <1>1, SameCounts
<1> QED BY <1>1, <1>5, <1>6, <1>7, <1>8, LoopAdvances

LEMMA PublishEndStep == NatsInv /\ PublishEnd => NatsInv'
<1> SUFFICES ASSUME NatsInv, PublishEnd PROVE NatsInv' OBVIOUS
<1>1. /\ run = "publish" /\ run' = "tally"
      /\ UNCHANGED <<jetstream, probing, driverVars, probe, doing, calls, next, published,
                     unreturned, counted, returned, crossed, since>>
      /\ processed' = processed
  BY DEF PublishEnd, natsLedger, latchVars, driverVars
<1>2. DriverInv' BY <1>1, DriverSame
<1>3. ReachInv' BY <1>1 DEF NatsInv, ReachInv, driverVars
<1> QED BY <1>1, <1>2, <1>3, CallGoesOn

LEMMA TallyStep == NatsInv /\ Tally => NatsInv'
<1> SUFFICES ASSUME NatsInv, Tally PROVE NatsInv' OBVIOUS
<1> DEFINE Rest == {e \in Of(calls) : e >= Event}
           S == Rest \cup (IF jetstream \/ ~probing THEN unreturned ELSE {})
<1>1. /\ run = "tally" /\ processed' = processed
      /\ UNCHANGED <<jetstream, probing, driverVars, probe, calls, since, crossed>>
  BY DEF Tally, latchVars, driverVars
<1>2. /\ doing = "emit" /\ calls >= 1 /\ unreturned \subseteq published
      /\ published \subseteq {e \in Of(calls) : e < Event} /\ calls \notin returned
  BY <1>1 DEF NatsInv, RunInv, Rounds
<1>3. calls \in 1..MaxCalls /\ next \in 1..(Batch + 1) /\ counted \in [Ids -> Nat]
  BY <1>2, NatsAssumption DEF NatsInv, CallType
<1>4. Event \in Nat /\ \A e \in Of(calls) : e \in Nat BY <1>3, EventAt DEF Event
<1>5. \A e \in Of(calls) : counted[e] = IF e \in published \/ e >= Event THEN 0 ELSE 1
  BY <1>1, <1>2 DEF NatsInv, CountInv, Rounds
<1>6. DriverInv' BY <1>1, DriverSame
<1>7. CASE published = {}
  <2>1. Leave(FALSE) /\ counted' = counted BY <1>7 DEF Tally
  <2> QED BY <1>1, <1>3, <1>6, <2>1, CallEnds
<1>8. CASE published # {}
  <2>1. Fail(S) BY <1>8 DEF Tally
  <2>2. S \subseteq Of(calls) BY <1>2
  <2> HIDE DEF S
  <2>3. /\ counted' \in [Ids -> Nat]
        /\ \A c \in 1..MaxCalls : \A e \in Of(c) :
              counted'[e] = counted[e] + IF e \in S THEN 1 ELSE 0
        /\ \A c \in 1..MaxCalls : c # calls => \A e \in Of(c) : counted'[e] = counted[e]
    BY <1>2, <2>1, <2>2, FailOwn
  <2>4. \A e \in Of(calls) : counted'[e] = counted[e] + IF e \in S THEN 1 ELSE 0 BY <1>3, <2>3
  <2>5. CASE probing /\ ~jetstream
    <3>1. run' = "confirming" /\ UNCHANGED <<doing, next, published, unreturned, returned>>
      BY <1>8, <2>5 DEF Tally
    <3>2. ReachInv' BY <1>1, <3>1 DEF NatsInv, ReachInv, driverVars
    <3>3. JetInv' BY <1>1, <2>5 DEF JetInv
    <3>4. CallType' BY <1>1, <2>3, <3>1 DEF NatsInv, CallType, Confirms
    <3>5. RunInv' BY <1>1, <1>2, <3>1 DEF RunInv, Rounds, Of, Event
    <3>6. CountInv'
      <4>1. MaxCalls \in Nat /\ \A c \in (calls + 1)..MaxCalls : c \in 1..MaxCalls /\ c # calls
        BY <1>3, NatsAssumption
      <4>2. \A c \in (calls + 1)..MaxCalls : \A e \in Of(c) : counted'[e] = 0
        BY <2>3, <4>1 DEF NatsInv, CountInv
      <4>3. S = Rest BY <2>5 DEF S
      <4>4. \A e \in Of(calls) : counted'[e] = IF e \in published THEN 0 ELSE 1
        BY <1>2, <1>4, <1>5, <2>4, <4>3
      <4> QED BY <1>1, <3>1, <4>2, <4>4 DEF CountInv, Of, Rounds
    <3>7. CountedOnce'
      <4>1. \A c \in returned : c \in 1..MaxCalls /\ c # calls
        BY <1>2, <1>3, NatsAssumption DEF NatsInv, CallType
      <4>2. \A c \in returned : CallSettled(c)' BY <1>1, <2>3, <4>1, OldCalls
      <4> QED BY <3>1, <4>2 DEF CountedOnce, CallSettled
    <3> QED BY <1>6, <3>2, <3>3, <3>4, <3>5, <3>6, <3>7 DEF NatsInv
  <2>6. CASE ~(probing /\ ~jetstream)
    <3>1. Leave(TRUE) BY <1>8, <2>6 DEF Tally
    <3>2. S = Rest \cup unreturned
      <4>1. CASE jetstream BY <4>1 DEF S
      <4>2. CASE ~jetstream BY <2>6, <4>2 DEF S
      <4> QED BY <4>1, <4>2
    <3>3. ASSUME NEW e \in Of(calls)
          PROVE  counted'[e] <= 1 /\ (jetstream => e \in processed \/ counted'[e] = 1)
      <4>1. counted[e] = IF e \in published \/ e >= Event THEN 0 ELSE 1 BY <1>5
      <4>2. counted'[e] = counted[e] + IF e \in S THEN 1 ELSE 0 BY <2>4
      <4>3. e \in S => e \in published \/ e >= Event BY <1>2, <3>2
      <4>4. counted'[e] <= 1 BY <4>1, <4>2, <4>3
      <4>5. e \notin S /\ counted[e] = 0 => e \in published \ unreturned BY <3>2, <4>1
      <4>6. jetstream => published \ unreturned \subseteq processed BY DEF NatsInv, JetInv
      <4>7. jetstream => e \in processed \/ counted'[e] = 1 BY <4>1, <4>2, <4>3, <4>5, <4>6
      <4> QED BY <4>4, <4>7
    <3>4. (probing \/ jetstream) => jetstream BY <2>6
    <3>5. CallSettled(calls)' BY <1>1, <3>3, <3>4 DEF CallSettled, Of
    <3>6. TRUE \in BOOLEAN OBVIOUS
    <3> QED BY <1>1, <1>2, <1>6, <2>3, <3>1, <3>5, <3>6, CallEnds
  <2> QED BY <2>5, <2>6
<1> QED BY <1>7, <1>8

----------------------------------------------------------------------------
(* The confirmation                                                        *)

LEMMA UnconfirmedStep ==
  ASSUME NatsInv, run \in Confirms, Unconfirmed, DriverInv', processed' = processed,
         UNCHANGED <<jetstream, probing, calls, crossed>>
  PROVE  NatsInv'
<1>1. Fail(published) /\ Leave(TRUE) BY DEF Unconfirmed
<1>2. CASE doing = "emit"
  <2>1. calls >= 1 /\ published \subseteq Of(calls) BY <1>2, PublishedIds DEF NatsInv, RunInv
  <2>2. calls \in 1..MaxCalls BY <2>1, NatsAssumption DEF NatsInv, CallType
  <2>3. /\ counted' \in [Ids -> Nat]
        /\ \A c \in 1..MaxCalls : \A e \in Of(c) :
              counted'[e] = counted[e] + IF e \in published THEN 1 ELSE 0
        /\ \A c \in 1..MaxCalls : c # calls => \A e \in Of(c) : counted'[e] = counted[e]
    BY <1>1, <2>1, FailOwn
  <2>4. \A e \in Of(calls) : counted[e] = IF e \in published THEN 0 ELSE 1
    BY <1>2 DEF NatsInv, CountInv, Rounds, Confirms
  <2>5. \A e \in Of(calls) : counted'[e] = 1 BY <2>2, <2>3, <2>4
  <2>6. CallSettled(calls)' BY <2>5 DEF CallSettled, Of
  <2> QED BY <1>1, <1>2, <2>3, <2>6, CallEnds
<1>3. CASE doing # "emit"
  <2>1. published = {} BY <1>3 DEF NatsInv, RunInv
  <2>2. counted' = counted BY <1>1, <2>1, FailNone
  <2>3. counted' \in [Ids -> Nat] BY <2>2 DEF NatsInv, CallType
  <2> QED BY <1>1, <1>3, <2>2, <2>3, CallEnds
<1> QED BY <1>2, <1>3

LEMMA ConfirmDownStep == NatsInv /\ ConfirmDown => NatsInv'
<1> SUFFICES ASSUME NatsInv, ConfirmDown PROVE NatsInv' OBVIOUS
<1>1. /\ run \in Confirms /\ Unconfirmed /\ processed' = processed
      /\ UNCHANGED <<jetstream, probing, driverVars, probe, calls, since, crossed>>
  BY DEF ConfirmDown, Confirms, latchVars, driverVars
<1>2. DriverInv' BY <1>1, DriverSame
<1> QED BY <1>1, <1>2, UnconfirmedStep

LEMMA DrainedStep == NatsInv /\ Drained => NatsInv'
<1> SUFFICES ASSUME NatsInv, Drained PROVE NatsInv' OBVIOUS
<1>1. /\ run = "confirming" /\ buffer = <<>> /\ run' \in {"older", "confirm"} /\ processed' = processed
      /\ UNCHANGED <<jetstream, probing, driverVars, probe, doing, calls, next, published,
                     unreturned, counted, returned, crossed, since>>
  BY DEF Drained, Confirming, natsLedger, latchVars, driverVars
<1>2. DriverInv' BY <1>1, DriverSame
<1>3. In(buffer) = {} BY <1>1 DEF In, ToSet
<1>4. ReachInv' BY <1>1, <1>3 DEF NatsInv, ReachInv, driverVars
<1>5. run \in Confirms /\ run' \in Confirms /\ run # "none" BY <1>1 DEF Confirms
<1> QED BY <1>1, <1>2, <1>4, <1>5, CallGoesOn

LEMMA DrainExpiresStep == NatsInv /\ DrainExpires => NatsInv'
<1> SUFFICES ASSUME NatsInv, DrainExpires PROVE NatsInv' OBVIOUS
<1>1. /\ run \in Confirms /\ Unconfirmed
      /\ SendProbe(TRUE) \/ UNCHANGED <<driverVars, probe>>
      /\ UNCHANGED <<jetstream, probing, calls, since, crossed>>
  BY DEF DrainExpires, Confirming, Confirms
<1>2. DriverInv' /\ processed' = processed
  <2>1. CASE SendProbe(TRUE)
    <3>1. since' \in Nat /\ since' <= reconnects BY <1>1 DEF NatsInv, DriverInv, Probes
    <3>2. TRUE \in BOOLEAN OBVIOUS
    <3> QED BY <2>1, <3>1, <3>2, ProbeSent
  <2>2. CASE UNCHANGED <<driverVars, probe>> BY <1>1, <2>2, DriverSame DEF driverVars
  <2> QED BY <1>1, <2>1, <2>2
<1> QED BY <1>1, <1>2, UnconfirmedStep

LEMMA OlderProbeStep == NatsInv /\ OlderProbe => NatsInv'
<1> SUFFICES ASSUME NatsInv, OlderProbe PROVE NatsInv' OBVIOUS
<1>1. /\ run = "older" /\ run \in Confirms /\ processed' = processed
      /\ UNCHANGED <<jetstream, probing, driverVars, probe, calls, crossed, since>>
  BY DEF OlderProbe, latchVars, driverVars, Confirms
<1>2. DriverInv' BY <1>1, DriverSame
<1>3. CASE Answered
  <2>1. run' = "confirm" /\ UNCHANGED <<counted, returned, doing, next, published, unreturned>>
    BY <1>3 DEF OlderProbe
  <2>2. ReachInv' BY <1>1, <2>1 DEF NatsInv, ReachInv, driverVars
  <2>3. run' \in Confirms /\ run # "none" BY <1>1, <2>1 DEF Confirms
  <2> QED BY <1>1, <1>2, <2>1, <2>2, <2>3, CallGoesOn
<1>4. CASE ~Answered
  <2>1. Unconfirmed BY <1>4 DEF OlderProbe
  <2> QED BY <1>1, <1>2, <2>1, UnconfirmedStep
<1> QED BY <1>3, <1>4

LEMMA SendConfirmStep == NatsInv /\ SendConfirm => NatsInv'
<1> SUFFICES ASSUME NatsInv, SendConfirm PROVE NatsInv' OBVIOUS
<1>1. /\ run = "confirm" /\ SendProbe(FALSE) /\ run' = "confirmed"
      /\ UNCHANGED <<jetstream, probing, doing, calls, next, published, unreturned, counted, returned,
                     crossed, since>>
  BY DEF SendConfirm, natsLedger
<1>2. since' \in Nat /\ since' <= reconnects BY <1>1 DEF NatsInv, DriverInv, Probes
<1>3. FALSE \in BOOLEAN OBVIOUS
<1>4. /\ DriverInv' /\ probe'.task = "created" /\ up' = up /\ reconnects' = reconnects
      /\ processed' = processed /\ In(wire') = In(wire) \ {0}
  BY <1>1, <1>2, <1>3, ProbeSent
<1>5. published \subseteq Ids BY PublishedIds
<1>6. ReachInv'
  <2> SUFFICES ASSUME since = reconnects, up PROVE ReachInv' BY <1>1, <1>4 DEF ReachInv
  <2>1. published \subseteq processed \cup In(wire) BY <1>1 DEF NatsInv, ReachInv
  <2>2. published \subseteq processed \cup In(wire') BY <1>4, <1>5, <2>1, ZeroIsNone
  <2> QED BY <1>1, <1>4, <2>2 DEF ReachInv
<1>7. run \in Confirms /\ run' \in Confirms /\ run # "none" BY <1>1 DEF Confirms
<1> QED BY <1>1, <1>4, <1>6, <1>7, CallGoesOn

LEMMA ConfirmedStep == NatsInv /\ Confirmed => NatsInv'
<1> SUFFICES ASSUME NatsInv, Confirmed PROVE NatsInv' OBVIOUS
<1>1. /\ run = "confirmed" /\ run \in Confirms /\ processed' = processed
      /\ UNCHANGED <<jetstream, probing, driverVars, probe, calls, since>>
  BY DEF Confirmed, latchVars, driverVars, Confirms
<1>2. DriverInv' BY <1>1, DriverSame
<1>3. CASE Answered
  <2>1. /\ Leave(TRUE) /\ counted' = counted
        /\ crossed' = IF doing = "emit" /\ since # reconnects THEN crossed \cup {calls} ELSE crossed
    BY <1>3 DEF Confirmed
  <2>2. probe.task = "answered" /\ up BY <1>3 DEF Answered
  <2>3. since = reconnects => published \subseteq processed
    BY <1>1, <2>2 DEF NatsInv, ReachInv
  <2>4. ASSUME doing = "emit" PROVE CallSettled(calls)'
    <3>1. \A e \in Of(calls) : counted[e] = IF e \in published THEN 0 ELSE 1
      BY <1>1, <2>4 DEF NatsInv, CountInv, Rounds
    <3>2. calls \notin crossed' => published \subseteq processed BY <2>1, <2>3, <2>4
    <3>3. \A e \in Of(calls) : counted'[e] <= 1 BY <2>1, <3>1
    <3>4. \A e \in Of(calls) : calls \notin crossed' => e \in processed \/ counted'[e] = 1
      BY <2>1, <3>1, <3>2
    <3> QED BY <1>1, <3>3, <3>4 DEF CallSettled, Of
  <2>5. counted' \in [Ids -> Nat] BY <2>1 DEF NatsInv, CallType
  <2>6. crossed \subseteq crossed' BY <2>1
  <2> QED BY <1>1, <1>2, <2>1, <2>4, <2>5, <2>6, CallEnds
<1>4. CASE ~Answered
  <2>1. Unconfirmed /\ crossed' = crossed BY <1>4 DEF Confirmed
  <2> QED BY <1>1, <1>2, <2>1, UnconfirmedStep
<1> QED BY <1>3, <1>4

----------------------------------------------------------------------------
(* flush of an injected client, close, the backstop                        *)

LEMMA FlushClientStep == NatsInv /\ FlushClient => NatsInv'
<1> SUFFICES ASSUME NatsInv, FlushClient PROVE NatsInv' OBVIOUS
<1>1. /\ run = "bare" /\ Leave(TRUE) /\ processed' = processed
      /\ UNCHANGED <<jetstream, probing, driverVars, probe, calls, since, counted, crossed>>
  BY DEF FlushClient, latchVars, driverVars
<1>2. DriverInv' BY <1>1, DriverSame
<1>3. doing # "emit" BY <1>1 DEF NatsInv, RunInv
<1>4. counted' \in [Ids -> Nat] BY <1>1 DEF NatsInv, CallType
<1> QED BY <1>1, <1>2, <1>3, <1>4, CallEnds

LEMMA WedgedStep == NatsInv /\ Wedged => NatsInv'
<1> SUFFICES ASSUME NatsInv, Wedged PROVE NatsInv' OBVIOUS
<1>1. /\ Leave(FALSE) /\ processed' = processed
      /\ UNCHANGED <<jetstream, probing, driverVars, probe, calls, since, counted, crossed>>
  BY DEF Wedged, latchVars, driverVars
<1>2. DriverInv' BY <1>1, DriverSame
<1>3. counted' \in [Ids -> Nat] BY <1>1 DEF NatsInv, CallType
<1> QED BY <1>1, <1>2, <1>3, CallEnds

\* The steps that leave the driver, the running call and the ledger alone.
LEMMA QuietStep ==
  ASSUME NatsInv, UNCHANGED <<jetstream, probing, driverVars, probe, runVars, natsLedger>>
  PROVE  NatsInv'
<1>1. DriverInv' BY DriverSame DEF natsLedger
<1>2. ReachInv' BY DEF NatsInv, ReachInv, Ahead, driverVars, runVars, natsLedger
<1> QED BY <1>1, <1>2, BesidesCall DEF driverVars

LEMMA CloseOnLoopStep == NatsInv /\ CloseOnLoop => NatsInv'
<1> SUFFICES ASSUME NatsInv, CloseOnLoop PROVE NatsInv' OBVIOUS
<1>1. /\ run = "none" /\ UNCHANGED <<jetstream, probing, driverVars, probe, calls, next, published,
                                       unreturned, natsLedger>>
      /\ UNCHANGED <<run, doing>> \/ (run' = "confirming" /\ doing' = "close")
  BY DEF CloseOnLoop, latchVars
<1>2. CASE UNCHANGED <<run, doing>> BY <1>1, <1>2, QuietStep DEF runVars
<1>3. CASE run' = "confirming" /\ doing' = "close"
  <2>1. published = {} /\ unreturned = {} /\ next = 1 BY <1>1 DEF NatsInv, RunInv
  <2>2. DriverInv' BY <1>1, DriverSame DEF natsLedger
  <2>3. CallType' BY <1>1, <1>3 DEF NatsInv, CallType, natsLedger, Confirms
  <2>4. RunInv' BY <1>1, <1>3, <2>1 DEF RunInv, Rounds
  <2>5. CountInv' BY <1>1, <1>3 DEF NatsInv, CountInv, natsLedger, Of
  <2>6. ReachInv' /\ JetInv' BY <1>1, <2>1 DEF ReachInv, JetInv
  <2>7. CountedOnce'
    <3>1. \A c \in returned : CallSettled(c)' BY <1>1, OldCalls DEF natsLedger, driverVars
    <3> QED BY <1>1, <3>1 DEF CountedOnce, CallSettled, natsLedger
  <2> QED BY <2>2, <2>3, <2>4, <2>5, <2>6, <2>7 DEF NatsInv
<1> QED BY <1>1, <1>2, <1>3

LEMMA NatsInitially == NatsInit => NatsInv
<1> SUFFICES ASSUME NatsInit PROVE NatsInv OBVIOUS
<1> USE DEF NatsInit
<1>1. DriverInv
  <2>1. buffer \in Seq(Ids) /\ wire \in Seq(Ids \cup {0}) OBVIOUS
  <2>2. probe \in Probes
        /\ probe.task = "none"
    BY DEF NoProbe, Probes
  <2> QED BY <2>1, <2>2 DEF DriverInv, Probes
<1>2. CallType
  <2>1. counted \in [Ids -> Nat] OBVIOUS
  <2>2. calls \in 0..MaxCalls /\ next \in 1..(Batch + 1) BY NatsAssumption
  <2> QED BY <2>1, <2>2 DEF CallType
<1>3. RunInv BY DEF RunInv, Rounds
<1>4. CountInv
  <2>1. \A c \in 1..MaxCalls : \A e \in Of(c) : counted[e] = 0 BY OfIds
  <2> QED BY <2>1 DEF CountInv
<1>5. ReachInv /\ JetInv BY DEF ReachInv, JetInv
<1>6. CountedOnce BY DEF CountedOnce
<1> QED BY <1>1, <1>2, <1>3, <1>4, <1>5, <1>6 DEF NatsInv

LEMMA NatsStep == NatsInv /\ [NatsNext]_natsVars => NatsInv'
<1> SUFFICES ASSUME NatsInv, [NatsNext]_natsVars PROVE NatsInv' OBVIOUS
<1>1. CASE UNCHANGED natsVars BY <1>1, QuietStep DEF natsVars, latchVars
<1>2. CASE NatsEmit BY <1>2, BeginStep DEF NatsEmit
<1>3. CASE NatsFlush BY <1>3, BeginStep DEF NatsFlush
<1>4. CASE NatsClose BY <1>4, QuietStep DEF NatsClose, latchVars
<1>5. CASE Unstick BY <1>5, QuietStep DEF Unstick
<1>6. CASE External
  BY <1>6, ProbeStartStep, ProbeEndsStep, ProbeAgesStep, FlusherStep, ServerStep, LostStep,
     ReconnectStep DEF External, Aside
<1> QED BY <1>1, <1>2, <1>3, <1>4, <1>5, <1>6, EmitCheckStep, EmitLivenessStep, PublishOkStep,
           PublishRaisesStep, PublishAbandonStep, PublishEndStep, TallyStep, ConfirmDownStep,
           DrainedStep, DrainExpiresStep, OlderProbeStep, SendConfirmStep, ConfirmedStep,
           FlushClientStep, CloseOnLoopStep, WedgedStep DEF NatsNext

\* Once an emit() of NATSSink has returned, each of its events was processed by the server or is
\* counted in losses().failed, and counted once: for any batch, any number of calls and of lost
\* connections, wherever the driver's tasks run between the awaits.
THEOREM NatsCountsOnce == NatsSpec => []CountedOnce
<1>1. NatsInv => CountedOnce BY DEF NatsInv
<1> QED BY <1>1, NatsInitially, NatsStep, PTL DEF NatsSpec

==================================================
