----------------------------- MODULE SpansProofs -----------------------------
(***************************************************************************)
(* Proofs about Spans, for any number of contexts, spans, level calls,      *)
(* baggage keys and inbound traces.                                         *)
(*                                                                         *)
(* The inductive invariant is a conjunction of named parts, in the order of *)
(* what rests on what: where a context is and what its local variables hold *)
(* (PcInv), who holds _sweep_lock (LockInv), which lists were detached      *)
(* (ListInv), whose span is on which stack (FrameInv, StackInv), what a     *)
(* close has done (CloseInv), and then a part for each property.            *)
(***************************************************************************)
EXTENDS Spans, TLAPS

Ending     == {"end", "close", "worker", "detach", "swap", "submit"}
Ended      == {"close", "worker", "detach", "swap", "submit", "release"}
Levelling  == {"build", "append"}
SweepingOf == {"sweepLoad", "sweepSwap", "sweepSubmit"}
Holding    == {"swap", "sweep"} \cup SweepingOf
Submitting == {"submit", "sweepSubmit"}

Frame == [span  : Spans \cup {None},
          token : {<<q>> : q \in Seq(Spans)} \cup {None},
          scope : {<<b>> : b \in SUBSET Keys} \cup {None}]

TypeInv ==
    /\ TypeOK
    /\ frames \in [Contexts -> Seq(Frame)]
    /\ sealed \subseteq opened /\ shared \subseteq opened
    /\ resets \in Nat
    /\ ambient \in [Contexts -> SUBSET (Keys \cup Inbound \cup {None})]

\* Where a context is, and what its local variables then hold.
PcInv ==
    \A c \in Contexts :
        /\ pc[c] \in Ending => frames[c] # <<>> /\ local[c] \in Spans /\ local[c] = Top(c).span
        /\ pc[c] = "release" => frames[c] # <<>> /\ Top(c).span \in sealed \cup {None}
        /\ pc[c] \in Levelling \cup {"orphan"} => item[c] \in Logs
        /\ pc[c] \in Levelling => stack[c] # <<>> /\ local[c] = CurrentSpan(c)
        /\ pc[c] = "adopt" => item[c] \in Inbound
        /\ pc[c] \in SweepingOf => idx[c] \in DOMAIN stack[c] /\ local[c] = stack[c][idx[c]]
        /\ c \notin live => pc[c] = "run" /\ frames[c] = <<>>

\* The lock excludes every other detach, from the load of a list to the store of the new one.
LockInv ==
    \A c \in Contexts :
        /\ pc[c] \in Holding => lock = c
        /\ pc[c] \in {"swap", "sweepSwap"} => ref[c] = ListOf(local[c])

\* A list that is submitted was detached, and no other detach has it.
ListInv ==
    /\ \A s \in Spans : gen[s] >= 1
    /\ \A e \in Events : at[e] # None => 1 <= at[e][2] /\ at[e][2] <= gen[at[e][1]]
    /\ \A i \in DOMAIN queue : queue[i][2] < gen[queue[i][1]]
    /\ \A i, j \in DOMAIN queue : queue[i] = queue[j] => i = j
    /\ \A c \in Contexts : pc[c] = "end" =>
          ref[c] \in Lists /\ ref[c][1] = local[c] /\ 1 <= ref[c][2] /\ ref[c][2] <= gen[local[c]]
    /\ \A c \in Contexts : pc[c] \in Submitting =>
          /\ ref[c] \in Lists /\ ref[c][2] < gen[ref[c][1]]
          /\ \A i \in DOMAIN queue : queue[i] # ref[c]
          /\ \A d \in Contexts : pc[d] \in Submitting /\ ref[d] = ref[c] => d = c

\* A span belongs to one traced call.
FrameInv ==
    \A c \in Contexts : \A i \in DOMAIN frames[c] : frames[c][i].span # None =>
        /\ frames[c][i].span \in opened
        /\ \A d \in Contexts : \A j \in DOMAIN frames[d] :
              frames[d][j].span = frames[c][i].span => d = c /\ j = i

\* The span of a pushed call is on the stack, and on the stack that each later call will restore.
PushedInv ==
    \A c \in Contexts : \A i \in DOMAIN frames[c] : frames[c][i].token # None =>
        /\ frames[c][i].span \in Spans
        /\ \E j \in DOMAIN stack[c] : stack[c][j] = frames[c][i].span
        /\ \A k \in DOMAIN frames[c] : k > i /\ frames[c][k].token # None =>
              \E j \in DOMAIN frames[c][k].token[1] : frames[c][k].token[1][j] = frames[c][i].span

\* The span was pushed by a call of this context, below the given one.
PushedBelow(c, n, s) ==
    \E i \in DOMAIN frames[c] : i < n /\ frames[c][i].token # None /\ frames[c][i].span = s

\* A span on a stack is shared, or was pushed by a call that is still open in the same context.
StackInv ==
    \A c \in Contexts :
        /\ \A j \in DOMAIN stack[c] :
              stack[c][j] \in shared \/ PushedBelow(c, Len(frames[c]) + 1, stack[c][j])
        /\ \A k \in DOMAIN frames[c] : frames[c][k].token # None =>
              \A j \in DOMAIN frames[c][k].token[1] :
                  frames[c][k].token[1][j] \in shared \/ PushedBelow(c, k, frames[c][k].token[1][j])

\* What a close has done, and what is there as long as it has not.
CloseInv ==
    /\ \A s \in sealed : closed[s]
    /\ \A c \in Contexts : pc[c] \in {"worker", "detach", "swap", "submit"} => closed[local[c]]
    /\ \A c \in Contexts : pc[c] = "submit" => local[c] \in sealed
    /\ \A c \in Contexts : \A i \in DOMAIN frames[c] :
          frames[c][i].span \in sealed => i = Len(frames[c]) /\ pc[c] \in {"submit", "release"}
    /\ \A s \in opened \ sealed : \E c \in Contexts : \E i \in DOMAIN frames[c] : frames[c][i].span = s
    /\ \A c \in Contexts : pc[c] \in Levelling /\ closed[local[c]] => LogOf(item[c]) \in overtaken

\* An event is built once: its list is set by the call that builds it, and never again.
FreshEvent(e) == at[e] = None /\ delivered[e] = 0

BuiltInv ==
    /\ \A s \in Spans \ opened : FreshEvent(StartOf(s)) /\ FreshEvent(EndOf(s))
    /\ \A c \in Contexts : \A i \in DOMAIN frames[c] :
          frames[c][i].span # None /\ (i < Len(frames[c]) \/ pc[c] \notin Ended) =>
              FreshEvent(EndOf(frames[c][i].span))
    /\ \A e \in Events : at[e] # None => tag[e] # None
    /\ \A c \in Contexts : pc[c] = "append" => tag[LogOf(item[c])] # None
    /\ \A c \in Contexts : pc[c] \in Levelling \cup {"orphan"} =>
          /\ FreshEvent(LogOf(item[c]))
          /\ \A d \in Contexts : item[d] = item[c] => d = c

Spent(ls) == /\ ls[2] < gen[ls[1]]
             /\ \A i \in DOMAIN queue : queue[i] # ls
             /\ \A c \in Contexts : pc[c] \in Submitting => ref[c] # ls

OnceInv ==
    \A e \in Events : /\ delivered[e] <= 1
                      /\ delivered[e] > 0 /\ at[e] # None => Spent(at[e])

\* Only a sweep or a close detaches, and a root span that is being moved was not swept.
SweptInv ==
    /\ \A s \in Spans : gen[s] > 1 => swept[s] \/ s \in sealed
    /\ \A c \in Contexts : pc[c] \in SweepingOf => swept[local[c]]
    /\ \A c \in Contexts : pc[c] = "adopt" /\ IsRoot(CurrentSpan(c)) /\ CurrentSpan(c) \notin shared =>
          ~swept[CurrentSpan(c)]

\* An event is in a list of a span that was opened, and carries that span's ids.
TraceInv ==
    /\ OneTracePerSpan
    /\ \A e \in Events : at[e] # None => at[e][1] \in opened
    /\ \A c \in Contexts : pc[c] = "append" /\ local[c] \notin shared =>
          tag[LogOf(item[c])] = IdsOf(local[c])

\* The first call that took a scope keeps what was there before it.
ScopeInv ==
    /\ NothingLeaks
    /\ \A c \in Contexts : \A i \in DOMAIN frames[c] :
          frames[c][i].scope # None =>
              /\ \A j \in DOMAIN frames[c] : j < i => frames[c][j].token = None
              /\ (\A j \in DOMAIN frames[c] : j < i => frames[c][j].scope = None) =>
                     frames[c][i].scope[1] \subseteq ambient[c]

\* The events of a list carry no more than each boundary event in it.
Filled(ls) == \A e, f \in Content(ls) : f \in Boundary => fields[e] \subseteq fields[f]

\* The steps between the backfill of a span's list and its detach.
Backfilled == {"worker", "detach", "swap", "sweepLoad", "sweepSwap"}

\* What the events of an open call's span carry, the context's baggage holds; a span that was not
\* pushed has got nothing yet.
CarryInv ==
    resets = 0 =>
        \A c \in Contexts : \A i \in DOMAIN frames[c] : \A e \in Events :
            /\ frames[c][i].span \in Spans \ shared
            /\ i < Len(frames[c]) \/ pc[c] \notin Ended \ {"close"}
            /\ at[e] # None /\ at[e][1] = frames[c][i].span
            => fields[e] \subseteq (IF frames[c][i].token = None THEN {} ELSE baggage[c])

\* A list is filled from the backfill on, and stays so: a span.end goes to the list it loaded,
\* which no other context can have detached unless the span is shared.
FilledInv ==
    /\ \A e \in Boundary : at[e] = None => fields[e] = {}
    /\ \A c \in Contexts : pc[c] = "end" /\ local[c] \notin shared => ref[c] = ListOf(local[c])
    /\ \A c \in Contexts : pc[c] = "append" => fields[LogOf(item[c])] = baggage[c]
    /\ resets = 0 =>
          /\ \A s \in Spans \ shared : \A g \in Nat : g < gen[s] => Filled(<<s, g>>)
          /\ \A c \in Contexts : pc[c] \in Backfilled /\ local[c] \notin shared =>
                Filled(ListOf(local[c]))

IInv == /\ TypeInv /\ PcInv /\ LockInv /\ ListInv /\ FrameInv /\ PushedInv /\ StackInv /\ CloseInv
        /\ BuiltInv /\ OnceInv /\ SweptInv /\ TraceInv /\ ScopeInv /\ CarryInv /\ FilledInv /\ LostOnlyLate
----------------------------------------------------------------------------
(* Facts about the operators                                               *)

\* The events are told apart by their kind and by their span or call.
LEMMA EventFacts ==
  /\ \A s \in Spans : /\ StartOf(s) \in Events /\ EndOf(s) \in Events
                      /\ StartOf(s) \in Boundary /\ EndOf(s) \in Boundary
                      /\ \A t \in Spans : /\ StartOf(s) = StartOf(t) => s = t
                                          /\ EndOf(s) = EndOf(t) => s = t
                                          /\ StartOf(s) # EndOf(t)
  /\ \A l \in Logs : /\ LogOf(l) \in Events
                     /\ \A m \in Logs : LogOf(l) = LogOf(m) => l = m
                     /\ \A s \in Spans : LogOf(l) # StartOf(s) /\ LogOf(l) # EndOf(s)
  BY DEF StartOf, EndOf, LogOf, Boundary, Events

\* An event is a span's start or end, or a level call's.
LEMMA EventKinds ==
  ASSUME NEW e \in Events
  PROVE  \/ \E s \in Spans : e = StartOf(s)
         \/ \E s \in Spans : e = EndOf(s)
         \/ \E l \in Logs : e = LogOf(l)
  BY DEF Boundary, Events

\* The types of one context's variables, as the steps need them.
LEMMA Typed ==
  ASSUME TypeInv, NEW c \in Contexts
  PROVE  /\ stack[c] \in Seq(Spans) /\ baggage[c] \in SUBSET Keys
         /\ adopted[c] \in Inbound \cup {None} /\ frames[c] \in Seq(Frame)
         /\ pc[c] \in PCs /\ local[c] \in Spans \cup {None}
         /\ item[c] \in Logs \cup Inbound \cup {None} /\ ref[c] \in Lists \cup {None}
         /\ idx[c] \in Nat
  BY DEF TypeInv, TypeOK

LEMMA ListOfType ==
  ASSUME TypeInv, NEW s \in Spans
  PROVE  ListOf(s) \in Lists /\ ListOf(s)[1] = s /\ ListOf(s)[2] = gen[s] /\ ListOf(s) # None
<1>1. gen[s] \in Nat BY DEF TypeInv, TypeOK
<1>2. ListOf(s) \in Lists BY <1>1 DEF ListOf, Lists
<1> QED BY <1>2, SpansAssumption DEF ListOf, Lists

\* The current span is the last one of the stack.
LEMMA CurrentSpanType ==
  ASSUME TypeInv, NEW c \in Contexts
  PROVE  /\ stack[c] = <<>> => CurrentSpan(c) = None
         /\ stack[c] # <<>> => /\ CurrentSpan(c) \in Spans /\ CurrentSpan(c) # None
                               /\ Len(stack[c]) \in DOMAIN stack[c]
                               /\ CurrentSpan(c) = stack[c][Len(stack[c])]
<1>1. stack[c] \in Seq(Spans) BY Typed
<1>2. CASE stack[c] = <<>> BY <1>2 DEF CurrentSpan
<1>3. CASE stack[c] # <<>>
  <2>1. Len(stack[c]) \in DOMAIN stack[c] BY <1>1, <1>3
  <2>2. stack[c][Len(stack[c])] \in Spans BY <1>1, <2>1
  <2> QED BY <1>3, <2>1, <2>2, SpansAssumption DEF CurrentSpan
<1> QED BY <1>2, <1>3

\* The call in hand is the last one of the open calls.
LEMMA TopType ==
  ASSUME TypeInv, NEW c \in Contexts, frames[c] # <<>>
  PROVE  /\ Len(frames[c]) \in DOMAIN frames[c] /\ Len(frames[c]) \in Nat
         /\ Top(c) = frames[c][Len(frames[c])] /\ Top(c) \in Frame
         /\ Top(c).span \in Spans \cup {None}
         /\ Top(c).token # None => Top(c).token[1] \in Seq(Spans)
         /\ Top(c).scope # None => Top(c).scope[1] \in SUBSET Keys
<1>1. frames[c] \in Seq(Frame) BY Typed
<1>2. Len(frames[c]) \in DOMAIN frames[c] /\ Len(frames[c]) \in Nat BY <1>1
<1>3. Top(c) \in Frame BY <1>1, <1>2 DEF Top
<1> QED BY <1>2, <1>3 DEF Top, Frame

LEMMA AdoptedIdsType ==
  ASSUME NEW i \in Inbound
  PROVE  /\ AdoptedIds(i) \in Traces \X (Traces \cup {None}) /\ AdoptedIds(i) # None
         /\ AdoptedIds(i)[1] \in Traces /\ AdoptedIds(i)[2] \in Traces \cup {None}
<1>1. AdoptedIds(i) \in Traces \X (Traces \cup {None}) BY DEF AdoptedIds, Traces
<1> QED BY <1>1, SpansAssumption DEF Traces

LEMMA IdsOfType ==
  ASSUME TypeInv, NEW s \in Spans
  PROVE  IdsOf(s) \in Traces \X (Traces \cup {None}) /\ IdsOf(s) # None
<1>1. IdsOf(s) \in Traces \X (Traces \cup {None}) BY DEF TypeInv, TypeOK, IdsOf
<1> QED BY <1>1, SpansAssumption DEF Traces

LEMMA InheritedIdsType ==
  ASSUME TypeInv, NEW c \in Contexts, NEW s \in Spans
  PROVE  /\ InheritedIds(c, s) \in Traces \X (Traces \cup {None}) /\ InheritedIds(c, s) # None
         /\ InheritedIds(c, s) = <<InheritedIds(c, s)[1], InheritedIds(c, s)[2]>>
         /\ InheritedIds(c, s)[1] \in Traces /\ InheritedIds(c, s)[2] \in Traces \cup {None}
<1>1. CASE CurrentSpan(c) # None
  <2>1. CurrentSpan(c) \in Spans BY <1>1, CurrentSpanType
  <2>2. trace[CurrentSpan(c)] \in Traces BY <2>1 DEF TypeInv, TypeOK
  <2>3. InheritedIds(c, s) = <<trace[CurrentSpan(c)], CurrentSpan(c)>> BY <1>1 DEF InheritedIds
  <2> QED BY <2>1, <2>2, <2>3, SpansAssumption DEF Traces
<1>2. CASE CurrentSpan(c) = None /\ adopted[c] # None
  <2>1. adopted[c] \in Inbound BY <1>2, Typed
  <2>2. InheritedIds(c, s) = AdoptedIds(adopted[c]) BY <1>2 DEF InheritedIds
  <2> QED BY <2>1, <2>2, AdoptedIdsType DEF AdoptedIds
<1>3. CASE CurrentSpan(c) = None /\ adopted[c] = None
  <2>1. InheritedIds(c, s) = <<s, None>> BY <1>3 DEF InheritedIds
  <2> QED BY <2>1, SpansAssumption DEF Traces
<1> QED BY <1>1, <1>2, <1>3

----------------------------------------------------------------------------
(* Types                                                                   *)

LEMMA ForgetType ==
  ASSUME TypeInv, NEW c \in Contexts, Forget(c)
  PROVE  /\ local' \in [Contexts -> Spans \cup {None}]
         /\ item' \in [Contexts -> Logs \cup Inbound \cup {None}]
         /\ ref' \in [Contexts -> Lists \cup {None}] /\ idx' \in [Contexts -> Nat]
  BY DEF TypeInv, TypeOK, Forget

LEMMA GotoType ==
  ASSUME TypeInv, NEW c \in Contexts, NEW there \in PCs, Goto(c, there)
  PROVE  pc' \in [Contexts -> PCs]
  BY DEF TypeInv, TypeOK, Goto

LEMMA BackfillType ==
  ASSUME TypeInv, NEW s, NEW c \in Contexts, Backfill(s, baggage[c])
  PROVE  fields' \in [Events -> SUBSET Keys]
<1>1. baggage[c] \in SUBSET Keys /\ \A e \in Events : fields[e] \in SUBSET Keys
  BY DEF TypeInv, TypeOK
<1> QED BY <1>1 DEF Backfill

\* The span that a close works on is its call's, and was opened.
LEMMA EndingSpan ==
  ASSUME IInv, NEW c \in Contexts, pc[c] \in Ending
  PROVE  /\ frames[c] # <<>> /\ local[c] \in Spans /\ local[c] \in opened /\ local[c] # None
         /\ Len(frames[c]) \in DOMAIN frames[c] /\ frames[c][Len(frames[c])].span = local[c]
<1>1. TypeInv /\ PcInv /\ FrameInv BY DEF IInv
<1>2. frames[c] # <<>> /\ local[c] \in Spans /\ local[c] = Top(c).span BY <1>1 DEF PcInv
<1>3. Len(frames[c]) \in DOMAIN frames[c] /\ Top(c) = frames[c][Len(frames[c])]
  BY <1>1, <1>2, TopType
<1>4. local[c] # None BY <1>2, SpansAssumption
<1> QED BY <1>1, <1>2, <1>3, <1>4 DEF FrameInv

LEMMA BeginType == ASSUME IInv, NEW c \in Contexts, Begin(c) PROVE TypeInv'
<1>0. TypeInv BY DEF IInv
<1>1. PICK kept \in Outcomes, s \in Spans \ opened :
        LET made == kept \in {"span", "all"}
        IN  /\ frames' = [frames EXCEPT ![c] = Append(@,
                    [span  |-> IF made THEN s ELSE None,
                     token |-> IF kept = "all" THEN <<stack[c]>> ELSE None,
                     scope |-> IF kept = "nothing" \/ CurrentSpan(c) # None THEN None
                                                                           ELSE <<baggage[c]>>])]
            /\ IF made THEN OpenSpan(c, s) ELSE UNCHANGED <<opened, trace, parent, at, tag>>
            /\ stack' = IF kept = "all" THEN [stack EXCEPT ![c] = Append(@, s)] ELSE stack
  BY DEF Begin
<1>2. stack[c] \in Seq(Spans) /\ baggage[c] \in SUBSET Keys /\ frames[c] \in Seq(Frame)
  BY <1>0, Typed
<1>3. frames' \in [Contexts -> Seq(Frame)]
  <2> DEFINE f == [span  |-> IF kept \in {"span", "all"} THEN s ELSE None,
                   token |-> IF kept = "all" THEN <<stack[c]>> ELSE None,
                   scope |-> IF kept = "nothing" \/ CurrentSpan(c) # None THEN None
                                                                         ELSE <<baggage[c]>>]
  <2>1. f \in Frame BY <1>2 DEF Frame
  <2>2. frames' = [frames EXCEPT ![c] = Append(frames[c], f)] BY <1>1
  <2> HIDE DEF f
  <2> QED BY <1>0, <1>2, <2>1, <2>2 DEF TypeInv
<1>4. stack' \in [Contexts -> Seq(Spans)]
  <2>1. Append(stack[c], s) \in Seq(Spans) BY <1>2
  <2> QED BY <1>0, <1>1, <2>1 DEF TypeInv, TypeOK
<1>5. /\ opened' \subseteq Spans /\ trace' \in [Spans -> Traces]
      /\ parent' \in [Spans -> Traces \cup {None}]
      /\ at' \in [Events -> Lists \cup {None}]
      /\ tag' \in [Events -> (Traces \X (Traces \cup {None})) \cup {None}]
      /\ opened \subseteq opened'
  <2>1. CASE kept \in {"span", "all"}
    <3>1. OpenSpan(c, s) BY <1>1, <2>1
    <3>2. /\ InheritedIds(c, s) \in Traces \X (Traces \cup {None})
          /\ InheritedIds(c, s)[1] \in Traces /\ InheritedIds(c, s)[2] \in Traces \cup {None}
          /\ ListOf(s) \in Lists /\ StartOf(s) \in Events
      BY <1>0, InheritedIdsType, ListOfType, EventFacts
    <3> QED BY <1>0, <3>1, <3>2 DEF OpenSpan, TypeInv, TypeOK
  <2>2. CASE kept \notin {"span", "all"} BY <1>0, <1>1, <2>2 DEF TypeInv, TypeOK
  <2> QED BY <2>1, <2>2
<1>6. UNCHANGED <<baggage, adopted, live, ambient, localVars, closed, swept, gen, shared, fields,
                  outVars, countVars, sealVars, pc, lock>>
  BY DEF Begin
<1> QED BY <1>0, <1>3, <1>4, <1>5, <1>6
        DEF TypeInv, TypeOK, localVars, outVars, countVars, sealVars

LEMMA EndType == ASSUME IInv, NEW c \in Contexts, End(c) PROVE TypeInv'
<1> USE DEF TypeInv, TypeOK, ctxVars, spanVars, eventVars, outVars, countVars, sealVars, CloseUnchanged
<1>0. TypeInv /\ PcInv BY DEF IInv
<1>1. CASE EndLoad(c)
  <2>1. frames[c] # <<>> BY <1>1 DEF EndLoad
  <2>2. Top(c).span \in Spans \cup {None} BY <1>0, <2>1, TopType
  <2>3. Top(c).span \in Spans => ListOf(Top(c).span) \in Lists BY <1>0, ListOfType
  <2>4. /\ local' \in [Contexts -> Spans \cup {None}] /\ ref' \in [Contexts -> Lists \cup {None}]
    BY <1>0, <1>1, <2>2, <2>3 DEF EndLoad
  <2>5. pc' \in [Contexts -> PCs] BY <1>0, <1>1 DEF EndLoad, Goto, PCs
  <2> QED BY <1>0, <1>1, <2>4, <2>5 DEF EndLoad
<1>2. CASE EndAppend(c)
  <2>1. local[c] \in Spans /\ ref[c] \in Lists \cup {None}
    BY <1>0, <1>2, Typed DEF EndAppend, At, PcInv, Ending
  <2>2. EndOf(local[c]) \in Events /\ IdsOf(local[c]) \in Traces \X (Traces \cup {None})
    BY <1>0, <2>1, EventFacts, IdsOfType
  <2>3. /\ at' \in [Events -> Lists \cup {None}]
        /\ tag' \in [Events -> (Traces \X (Traces \cup {None})) \cup {None}]
    BY <1>0, <1>2, <2>1, <2>2 DEF EndAppend
  <2>4. pc' \in [Contexts -> PCs] BY <1>0, <1>2 DEF EndAppend, Goto, PCs
  <2> QED BY <1>0, <1>2, <2>3, <2>4 DEF EndAppend
<1>3. CASE EndClose(c)
  <2>1. fields' \in [Events -> SUBSET Keys] BY <1>0, <1>3, BackfillType DEF EndClose
  <2>2. pc' \in [Contexts -> PCs] BY <1>0, <1>3 DEF EndClose, Goto, PCs
  <2> QED BY <1>0, <1>3, <2>1, <2>2 DEF EndClose
<1>4. CASE EndWorker(c)
  <2>1. local[c] \in opened
    BY <1>4, EndingSpan DEF EndWorker, At, Ending
  <2>2. pc' \in [Contexts -> PCs] BY <1>0, <1>4 DEF EndWorker, Goto, PCs
  <2>3. counted' \subseteq Events /\ sealed' \subseteq opened
    BY <1>0, <1>4, <2>1 DEF EndWorker, Content
  <2> QED BY <1>0, <1>4, <2>2, <2>3 DEF EndWorker
<1>5. CASE EndDetach(c)
  <2>1. local[c] \in Spans BY <1>0, <1>5 DEF EndDetach, At, PcInv, Ending
  <2>2. ListOf(local[c]) \in Lists BY <1>0, <2>1, ListOfType
  <2>3. pc' \in [Contexts -> PCs] /\ ref' \in [Contexts -> Lists \cup {None}]
    BY <1>0, <1>5, <2>2 DEF EndDetach, Goto, PCs
  <2> QED BY <1>0, <1>5, <2>3 DEF EndDetach
<1>6. CASE EndSwap(c)
  <2>1. local[c] \in opened
    BY <1>6, EndingSpan DEF EndSwap, At, Ending
  <2>2. pc' \in [Contexts -> PCs] /\ gen' \in [Spans -> Nat] /\ sealed' \subseteq opened
    BY <1>0, <1>6, <2>1 DEF EndSwap, Goto, PCs
  <2> QED BY <1>0, <1>6, <2>2 DEF EndSwap
<1>7. CASE EndSubmit(c)
  <2>1. ref[c] \in Lists BY <1>7 DEF EndSubmit, At, IInv, ListInv, Submitting
  <2>2. queue' \in Seq(Lists) BY <1>0, <1>7, <2>1 DEF EndSubmit
  <2>3. pc' \in [Contexts -> PCs] BY <1>0, <1>7 DEF EndSubmit, Goto, PCs
  <2> QED BY <1>0, <1>7, <2>2, <2>3 DEF EndSubmit
<1>8. CASE EndRelease(c)
  <2>1. frames[c] # <<>> BY <1>0, <1>8 DEF EndRelease, At, PcInv
  <2>2. /\ Top(c).token # None => Top(c).token[1] \in Seq(Spans)
        /\ Top(c).scope # None => Top(c).scope[1] \in SUBSET Keys
        /\ Len(frames[c]) \in Nat
    BY <1>0, <2>1, TopType
  <2>3. stack' \in [Contexts -> Seq(Spans)] BY <1>0, <1>8, <2>2 DEF EndRelease, PopSpan
  <2>4. /\ baggage' \in [Contexts -> SUBSET Keys] /\ adopted' \in [Contexts -> Inbound \cup {None}]
    BY <1>0, <1>8, <2>2 DEF EndRelease, PopBaggageScope
  <2>5. frames' \in [Contexts -> Seq(Frame)]
    <3>1. frames[c] \in Seq(Frame) BY <1>0
    <3>2. SubSeq(frames[c], 1, Len(frames[c]) - 1) \in Seq(Frame) BY <2>1, <2>2, <3>1
    <3> QED BY <1>0, <1>8, <3>2 DEF EndRelease
  <2>6. pc' \in [Contexts -> PCs] BY <1>0, <1>8 DEF EndRelease, Goto, PCs
  <2>7. Forget(c) BY <1>8 DEF EndRelease
  <2> QED BY <1>0, <1>8, <2>3, <2>4, <2>5, <2>6, <2>7, ForgetType DEF EndRelease
<1> QED BY <1>1, <1>2, <1>3, <1>4, <1>5, <1>6, <1>7, <1>8 DEF End

LEMMA LogType == ASSUME IInv, NEW c \in Contexts, Log(c) PROVE TypeInv'
<1> USE DEF TypeInv, TypeOK, ctxVars, spanVars, eventVars, outVars, countVars, sealVars, localVars,
            LogUnchanged
<1>0. TypeInv /\ PcInv BY DEF IInv
<1>1. CASE LogRead(c)
  <2>1. CurrentSpan(c) \in Spans \cup {None} BY <1>0, CurrentSpanType
  <2>2. local' \in [Contexts -> Spans \cup {None}] BY <1>0, <1>1, <2>1 DEF LogRead
  <2>3. item' \in [Contexts -> Logs \cup Inbound \cup {None}]
    BY <1>0, <1>1 DEF LogRead, Unlogged
  <2>4. pc' \in [Contexts -> PCs] BY <1>0, <1>1 DEF LogRead, Goto, PCs
  <2> QED BY <1>0, <1>1, <2>2, <2>3, <2>4 DEF LogRead
<1>2. CASE LogBuild(c)
  <2>1. item[c] \in Logs /\ local[c] \in Spans
    BY <1>0, <1>2, CurrentSpanType DEF LogBuild, At, PcInv, Levelling
  <2>2. LogOf(item[c]) \in Events /\ IdsOf(local[c]) \in Traces \X (Traces \cup {None})
    BY <1>0, <2>1, EventFacts, IdsOfType
  <2>3. pc' \in [Contexts -> PCs] BY <1>0, <1>2 DEF LogBuild, Goto, PCs
  <2>4. CASE /\ tag' = [tag EXCEPT ![LogOf(item[c])] = IdsOf(local[c])]
             /\ fields' = [fields EXCEPT ![LogOf(item[c])] = baggage[c]]
             /\ UNCHANGED <<localVars, counted>>
    <3>1. /\ tag' \in [Events -> (Traces \X (Traces \cup {None})) \cup {None}]
          /\ fields' \in [Events -> SUBSET Keys]
      BY <1>0, <2>2, <2>4
    <3> QED BY <1>0, <1>2, <2>3, <2>4, <3>1 DEF LogBuild
  <2>5. CASE /\ counted' = counted \cup {LogOf(item[c])} /\ Forget(c) /\ UNCHANGED <<tag, fields>>
    BY <1>0, <1>2, <2>2, <2>3, <2>5, ForgetType DEF LogBuild
  <2> QED BY <1>2, <2>4, <2>5 DEF LogBuild
<1>3. CASE LogAppend(c)
  <2>1. item[c] \in Logs /\ local[c] \in Spans
    BY <1>0, <1>3, CurrentSpanType DEF LogAppend, At, PcInv, Levelling
  <2>2. LogOf(item[c]) \in Events /\ ListOf(local[c]) \in Lists
    BY <1>0, <2>1, EventFacts, ListOfType
  <2>3. pc' \in [Contexts -> PCs] BY <1>0, <1>3 DEF LogAppend, Goto, PCs
  <2>4. at' \in [Events -> Lists \cup {None}] /\ Forget(c) BY <1>0, <1>3, <2>2 DEF LogAppend
  <2> QED BY <1>0, <1>3, <2>3, <2>4, ForgetType DEF LogAppend
<1>4. CASE LogOrphan(c)
  <2>1. LogOf(item[c]) \in Events BY <1>0, <1>4, EventFacts DEF LogOrphan, At, PcInv
  <2>2. pc' \in [Contexts -> PCs] BY <1>0, <1>4 DEF LogOrphan, Goto, PCs
  <2>3. delivered' \in [Events -> Nat] /\ counted' \subseteq Events /\ Forget(c)
    <3>1. delivered[LogOf(item[c])] + 1 \in Nat BY <1>0, <2>1
    <3> QED BY <1>0, <1>4, <2>1, <3>1 DEF LogOrphan
  <2> QED BY <1>0, <1>4, <2>2, <2>3, ForgetType DEF LogOrphan
<1> QED BY <1>1, <1>2, <1>3, <1>4 DEF Log

LEMMA SweepType == ASSUME IInv, NEW c \in Contexts, Sweep(c) PROVE TypeInv'
<1> USE DEF TypeInv, TypeOK, ctxVars, spanVars, eventVars, outVars, countVars, sealVars, localVars,
            SweepUnchanged
<1>0. TypeInv /\ PcInv BY DEF IInv
<1>1. CASE SweepBegin(c)
  <2>1. pc' \in [Contexts -> PCs] /\ idx' \in [Contexts -> Nat]
    BY <1>0, <1>1 DEF SweepBegin, Goto, PCs
  <2> QED BY <1>0, <1>1, <2>1 DEF SweepBegin
<1>2. CASE SweepSpan(c)
  <2> DEFINE s == stack[c][idx[c]]
  <2>1. s \in Spans BY <1>0, <1>2 DEF SweepSpan
  <2>2. CASE Mark(s) /\ idx' = [idx EXCEPT ![c] = @ + 1] /\ UNCHANGED <<local, item, ref, fields, lock, pc>>
    <3>1. swept' \in [Spans -> BOOLEAN] /\ idx' \in [Contexts -> Nat] BY <1>0, <2>1, <2>2 DEF Mark
    <3> QED BY <1>0, <1>2, <2>2, <3>1 DEF SweepSpan
  <2>3. CASE lock' = None /\ Goto(c, "run") /\ Forget(c) /\ UNCHANGED <<swept, fields>>
    <3>1. pc' \in [Contexts -> PCs] BY <1>0, <2>3 DEF Goto, PCs
    <3> QED BY <1>0, <1>2, <2>3, <3>1, ForgetType DEF SweepSpan
  <2>4. CASE /\ SweepBackfill(s, baggage[c]) /\ Mark(s) /\ local' = [local EXCEPT ![c] = s]
             /\ Goto(c, "sweepLoad") /\ UNCHANGED <<item, ref, idx, lock>>
    <3>1. swept' \in [Spans -> BOOLEAN] /\ local' \in [Contexts -> Spans \cup {None}]
      BY <1>0, <2>1, <2>4 DEF Mark
    <3>2. fields' \in [Events -> SUBSET Keys] BY <1>0, <2>4, BackfillType DEF SweepBackfill
    <3>3. pc' \in [Contexts -> PCs] BY <1>0, <2>4 DEF Goto, PCs
    <3> QED BY <1>0, <1>2, <2>4, <3>1, <3>2, <3>3 DEF SweepSpan
  <2> QED BY <1>2, <2>2, <2>3, <2>4 DEF SweepSpan
<1>3. CASE SweepLoad(c)
  <2>1. local[c] \in Spans BY <1>0, <1>3 DEF SweepLoad, At, PcInv, SweepingOf
  <2>2. ListOf(local[c]) \in Lists BY <1>0, <2>1, ListOfType
  <2>3. pc' \in [Contexts -> PCs] /\ ref' \in [Contexts -> Lists \cup {None}]
    BY <1>0, <1>3, <2>2 DEF SweepLoad, Goto, PCs
  <2> QED BY <1>0, <1>3, <2>3 DEF SweepLoad
<1>4. CASE SweepSwap(c)
  <2>0. local[c] \in Spans BY <1>0, <1>4 DEF SweepSwap, At, PcInv, SweepingOf
  <2>1. pc' \in [Contexts -> PCs] /\ gen' \in [Spans -> Nat]
    BY <1>0, <1>4, <2>0 DEF SweepSwap, Goto, PCs
  <2> QED BY <1>0, <1>4, <2>1 DEF SweepSwap
<1>5. CASE SweepSubmit(c)
  <2>1. ref[c] \in Lists BY <1>5 DEF SweepSubmit, At, IInv, ListInv, Submitting
  <2>2. queue' \in Seq(Lists) BY <1>0, <1>5, <2>1 DEF SweepSubmit
  <2>3. pc' \in [Contexts -> PCs] /\ idx' \in [Contexts -> Nat]
    BY <1>0, <1>5 DEF SweepSubmit, Goto, PCs
  <2> QED BY <1>0, <1>5, <2>2, <2>3 DEF SweepSubmit
<1>6. CASE SweepEnd(c)
  <2>1. pc' \in [Contexts -> PCs] /\ Forget(c) BY <1>0, <1>6 DEF SweepEnd, Goto, PCs
  <2> QED BY <1>0, <1>6, <2>1, ForgetType DEF SweepEnd
<1> QED BY <1>1, <1>2, <1>3, <1>4, <1>5, <1>6 DEF Sweep

LEMMA MergeType ==
  ASSUME TypeInv, NEW c \in Contexts, NEW keys \in SUBSET Keys, Merge(c, keys)
  PROVE  /\ baggage' \in [Contexts -> SUBSET Keys]
         /\ ambient' \in [Contexts -> SUBSET (Keys \cup Inbound \cup {None})]
<1>1. /\ baggage \in [Contexts -> SUBSET Keys]
      /\ ambient \in [Contexts -> SUBSET (Keys \cup Inbound \cup {None})]
  BY DEF TypeInv, TypeOK
<1>2. baggage' \in [Contexts -> SUBSET Keys] BY <1>1 DEF Merge
<1>3. ambient' \in [Contexts -> SUBSET (Keys \cup Inbound \cup {None})] BY <1>1 DEF Merge
<1> QED BY <1>2, <1>3

LEMMA ContextType == ASSUME IInv, NEW c \in Contexts, Context(c) PROVE TypeInv'
<1> USE DEF TypeInv, TypeOK, ctxVars, spanVars, eventVars, outVars, countVars, sealVars, localVars
<1>0. TypeInv /\ PcInv BY DEF IInv
<1>1. CASE SetBaggage(c)
  <2>1. /\ baggage' \in [Contexts -> SUBSET Keys]
        /\ ambient' \in [Contexts -> SUBSET (Keys \cup Inbound \cup {None})]
    <3>1. PICK k \in Keys : Merge(c, {k}) BY <1>1 DEF SetBaggage
    <3> QED BY <1>0, <3>1, MergeType
  <2> QED BY <1>0, <1>1, <2>1 DEF SetBaggage
<1>2. CASE ContinueCheck(c)
  <2>0. \A keys \in Headers : keys \in SUBSET Keys BY DEF Headers
  <2>1. /\ baggage' \in [Contexts -> SUBSET Keys]
        /\ ambient' \in [Contexts -> SUBSET (Keys \cup Inbound \cup {None})]
    <3>1. CASE \E keys \in Headers : Merge(c, keys) BY <1>0, <2>0, <3>1, MergeType
    <3>2. CASE UNCHANGED <<baggage, ambient>> BY <1>0, <3>2
    <3> QED BY <1>2, <3>1, <3>2 DEF ContinueCheck
  <2>2. item' \in [Contexts -> Logs \cup Inbound \cup {None}] BY <1>0, <1>2 DEF ContinueCheck
  <2>3. pc' \in [Contexts -> PCs] BY <1>0, <1>2 DEF ContinueCheck, Goto, PCs
  <2> QED BY <1>0, <1>2, <2>1, <2>2, <2>3 DEF ContinueCheck
<1>3. CASE ContinueAdopt(c)
  <2>1. item[c] \in Inbound BY <1>0, <1>3 DEF ContinueAdopt, At, PcInv
  <2>0. PICK keys \in Headers :
          /\ baggage' = [baggage EXCEPT ![c] = @ \cup keys]
          /\ ambient' = IF Scoped(c) THEN ambient
                                     ELSE [ambient EXCEPT ![c] = @ \cup keys \cup {item[c]}]
    BY <1>3 DEF ContinueAdopt
  <2>6. keys \in SUBSET Keys BY DEF Headers
  <2>2. /\ baggage' \in [Contexts -> SUBSET Keys]
        /\ ambient' \in [Contexts -> SUBSET (Keys \cup Inbound \cup {None})]
    <3>1. baggage' \in [Contexts -> SUBSET Keys] BY <1>0, <2>0, <2>6
    <3>2. ambient' \in [Contexts -> SUBSET (Keys \cup Inbound \cup {None})]
      BY <1>0, <2>0, <2>1, <2>6
    <3> QED BY <3>1, <3>2
  <2>3. adopted' \in [Contexts -> Inbound \cup {None}] BY <1>0, <1>3, <2>1 DEF ContinueAdopt
  <2>4. pc' \in [Contexts -> PCs] /\ Forget(c) BY <1>0, <1>3 DEF ContinueAdopt, Goto, PCs
  <2>5. /\ trace' \in [Spans -> Traces] /\ parent' \in [Spans -> Traces \cup {None}]
        /\ tag' \in [Events -> (Traces \X (Traces \cup {None})) \cup {None}]
    <3>1. Reparent(CurrentSpan(c), item[c]) BY <1>3 DEF ContinueAdopt
    <3>2. /\ AdoptedIds(item[c]) \in Traces \X (Traces \cup {None})
          /\ AdoptedIds(item[c])[1] \in Traces /\ AdoptedIds(item[c])[2] \in Traces \cup {None}
      BY <2>1, AdoptedIdsType
    <3>3. trace' \in [Spans -> Traces] BY <1>0, <3>1, <3>2 DEF Reparent
    <3>4. parent' \in [Spans -> Traces \cup {None}] BY <1>0, <3>1, <3>2 DEF Reparent
    <3>5. tag' \in [Events -> (Traces \X (Traces \cup {None})) \cup {None}]
      <4>1. CASE IsRoot(CurrentSpan(c))
        <5>1. tag' = [e \in Events |-> IF at[e] = ListOf(CurrentSpan(c)) THEN AdoptedIds(item[c])
                                                                         ELSE tag[e]]
          BY <3>1, <4>1 DEF Reparent
        <5>2. \A e \in Events : tag[e] \in (Traces \X (Traces \cup {None})) \cup {None} BY <1>0
        <5> QED BY <3>2, <5>1, <5>2
      <4>2. CASE ~IsRoot(CurrentSpan(c)) BY <1>0, <3>1, <4>2 DEF Reparent
      <4> QED BY <4>1, <4>2
    <3> QED BY <3>3, <3>4, <3>5
  <2> QED BY <1>0, <1>3, <2>2, <2>3, <2>4, <2>5, ForgetType DEF ContinueAdopt
<1>4. CASE ResetContext(c)
  <2>1. /\ baggage' \in [Contexts -> SUBSET Keys] /\ adopted' \in [Contexts -> Inbound \cup {None}]
        /\ resets' \in Nat
    BY <1>0, <1>4 DEF ResetContext
  <2> QED BY <1>0, <1>4, <2>1 DEF ResetContext
<1>5. CASE Spawn(c)
  <2>1. stack[c] \in Seq(Spans) /\ baggage[c] \in SUBSET Keys /\ adopted[c] \in Inbound \cup {None}
    BY <1>0
  <2>2. PICK d \in Contexts \ live :
          /\ live' = live \cup {d}
          /\ stack' = [stack EXCEPT ![d] = stack[c]]
          /\ baggage' = [baggage EXCEPT ![d] = baggage[c]]
          /\ adopted' = [adopted EXCEPT ![d] = adopted[c]]
          /\ ambient' = [ambient EXCEPT ![d] = baggage[c] \cup {adopted[c]}]
    BY <1>5 DEF Spawn
  <2>5. ambient' \in [Contexts -> SUBSET (Keys \cup Inbound \cup {None})] BY <1>0, <2>1, <2>2
  <2>3. /\ live' \subseteq Contexts /\ stack' \in [Contexts -> Seq(Spans)]
        /\ baggage' \in [Contexts -> SUBSET Keys] /\ adopted' \in [Contexts -> Inbound \cup {None}]
    BY <1>0, <2>1, <2>2
  <2>4. shared' \subseteq opened
    <3>1. ASSUME NEW j \in DOMAIN stack[c] PROVE stack[c][j] \in opened
      <4>1. stack[c][j] \in Spans /\ stack[c][j] # None BY <2>1, SpansAssumption
      <4>2. stack[c][j] \in shared \/ PushedBelow(c, Len(frames[c]) + 1, stack[c][j])
        BY DEF IInv, StackInv
      <4>3. ASSUME PushedBelow(c, Len(frames[c]) + 1, stack[c][j]) PROVE stack[c][j] \in opened
        BY <4>1, <4>3 DEF PushedBelow, IInv, FrameInv
      <4> QED BY <1>0, <4>2, <4>3
    <3>2. shared' = shared \cup {stack[c][i] : i \in DOMAIN stack[c]} BY <1>5 DEF Spawn
    <3> QED BY <1>0, <3>1, <3>2
  <2> QED BY <1>0, <1>5, <2>3, <2>4, <2>5 DEF Spawn
<1> QED BY <1>1, <1>2, <1>3, <1>4, <1>5 DEF Context

LEMMA TypeStep == IInv /\ [Next]_vars => TypeInv'
<1> SUFFICES ASSUME IInv, [Next]_vars PROVE TypeInv' OBVIOUS
<1>0. TypeInv BY DEF IInv
<1>1. CASE WorkerTake
  <2> USE DEF TypeInv, TypeOK, ctxVars, localVars, spanVars, eventVars, countVars, sealVars
  <2>1. queue' \in Seq(Lists) BY <1>0, <1>1 DEF WorkerTake
  <2>2. delivered' \in [Events -> Nat] BY <1>0, <1>1 DEF WorkerTake
  <2> QED BY <1>0, <1>1, <2>1, <2>2 DEF WorkerTake
<1>2. CASE UNCHANGED vars
  BY <1>0, <1>2 DEF vars, TypeInv, TypeOK, ctxVars, localVars, spanVars, eventVars, outVars,
                    countVars, sealVars
<1> QED
  BY <1>1, <1>2, BeginType, EndType, LogType, SweepType, ContextType DEF Next, Terminated

----------------------------------------------------------------------------
(* The open calls and the stack of a context                               *)

\* The traced call f opens in a context, for the unused span s.
Opens(c, f, s) ==
    /\ frames' = [frames EXCEPT ![c] = Append(frames[c], f)]
    /\ f.span \in {s, None}
    /\ f.token # None => /\ f.span = s /\ f.token = <<stack[c]>>
                         /\ stack' = [stack EXCEPT ![c] = Append(stack[c], s)]
    /\ f.token = None => stack' = stack
    /\ f.scope # None => f.scope = <<baggage[c]>> /\ stack[c] = <<>>
    /\ f.span = s => OpenSpan(c, s)
    /\ f.span # s => UNCHANGED <<opened, trace, parent, at, tag>>
    /\ UNCHANGED <<baggage, adopted, live, ambient, local, item, ref, idx, closed, swept, gen,
                   shared, fields, queue, delivered, counted, sweeps, continues, resets, sealed,
                   overtaken, pc, lock>>

LEMMA BeginForm ==
  ASSUME IInv, NEW c \in Contexts, Begin(c)
  PROVE  \E f \in Frame, s \in Spans \ opened : Opens(c, f, s)
<1>0. TypeInv BY DEF IInv
<1>1. PICK kept \in Outcomes, s \in Spans \ opened :
        LET made == kept \in {"span", "all"}
        IN  /\ frames' = [frames EXCEPT ![c] = Append(@,
                    [span  |-> IF made THEN s ELSE None,
                     token |-> IF kept = "all" THEN <<stack[c]>> ELSE None,
                     scope |-> IF kept = "nothing" \/ CurrentSpan(c) # None THEN None
                                                                           ELSE <<baggage[c]>>])]
            /\ IF made THEN OpenSpan(c, s) ELSE UNCHANGED <<opened, trace, parent, at, tag>>
            /\ stack' = IF kept = "all" THEN [stack EXCEPT ![c] = Append(@, s)] ELSE stack
  BY DEF Begin
<1> DEFINE f == [span  |-> IF kept \in {"span", "all"} THEN s ELSE None,
                 token |-> IF kept = "all" THEN <<stack[c]>> ELSE None,
                 scope |-> IF kept = "nothing" \/ CurrentSpan(c) # None THEN None
                                                                       ELSE <<baggage[c]>>]
<1>2. stack[c] \in Seq(Spans) /\ baggage[c] \in SUBSET Keys BY <1>0, Typed
<1>3. f \in Frame BY <1>2 DEF Frame
<1>4. <<stack[c]>> # None /\ s # None
  <2>1. <<stack[c]>> \in Seq(Seq(Spans)) BY <1>2
  <2> QED BY <2>1, SpansAssumption
<1>5. frames' = [frames EXCEPT ![c] = Append(frames[c], f)] BY <1>1
<1>6. /\ f.span \in {s, None}
      /\ f.token # None => /\ f.span = s /\ f.token = <<stack[c]>>
                           /\ stack' = [stack EXCEPT ![c] = Append(stack[c], s)]
      /\ f.token = None => stack' = stack
  BY <1>1, <1>4
<1>7. f.scope # None => f.scope = <<baggage[c]>> /\ stack[c] = <<>> BY <1>0, CurrentSpanType
<1>8. /\ f.span = s => OpenSpan(c, s)
      /\ f.span # s => UNCHANGED <<opened, trace, parent, at, tag>>
  BY <1>1, <1>4
<1> HIDE DEF f
<1>9. Opens(c, f, s)
  BY <1>5, <1>6, <1>7, <1>8 DEF Opens, Begin, localVars, outVars, countVars, sealVars
<1> QED BY <1>3, <1>9

\* What is known of the open calls after one more.
LEMMA FramesGrow ==
  ASSUME TypeInv, NEW c \in Contexts, NEW f, frames' = [frames EXCEPT ![c] = Append(frames[c], f)]
  PROVE  /\ Len(frames[c]) \in Nat /\ DOMAIN frames[c] = 1 .. Len(frames[c])
         /\ Len(frames'[c]) = Len(frames[c]) + 1 /\ DOMAIN frames'[c] = 1 .. Len(frames[c]) + 1
         /\ \A i \in DOMAIN frames[c] : frames'[c][i] = frames[c][i]
         /\ frames'[c][Len(frames[c]) + 1] = f
         /\ \A d \in Contexts : d # c => frames'[d] = frames[d]
<1>1. frames[c] \in Seq(Frame) /\ frames'[c] = Append(frames[c], f) BY DEF TypeInv
<1>2. \A d \in Contexts : d # c => frames'[d] = frames[d] BY DEF TypeInv
<1> QED BY <1>1, <1>2

\* What is known of the open calls after the last one has ended.
LEMMA FramesShrink ==
  ASSUME TypeInv, NEW c \in Contexts, frames[c] # <<>>,
         frames' = [frames EXCEPT ![c] = SubSeq(@, 1, Len(@) - 1)]
  PROVE  /\ Len(frames[c]) \in Nat /\ Len(frames[c]) \in DOMAIN frames[c]
         /\ Len(frames'[c]) + 1 = Len(frames[c])
         /\ \A i \in DOMAIN frames[c] : i \in Nat /\ i <= Len(frames[c])
         /\ \A i : i \in DOMAIN frames'[c] <=> i \in DOMAIN frames[c] /\ i < Len(frames[c])
         /\ \A i \in DOMAIN frames'[c] : frames'[c][i] = frames[c][i]
         /\ \A d \in Contexts : d # c => frames'[d] = frames[d]
<1>1. /\ frames[c] \in Seq(Frame) /\ frames'[c] = SubSeq(frames[c], 1, Len(frames[c]) - 1)
  BY DEF TypeInv
<1>2. \A d \in Contexts : d # c => frames'[d] = frames[d] BY DEF TypeInv
<1>3. Len(frames[c]) \in Nat /\ Len(frames[c]) > 0 /\ DOMAIN frames[c] = 1 .. Len(frames[c])
  BY <1>1
<1>4. /\ DOMAIN frames'[c] = 1 .. Len(frames[c]) - 1 /\ Len(frames'[c]) = Len(frames[c]) - 1
      /\ \A i \in 1 .. Len(frames[c]) - 1 : frames'[c][i] = frames[c][i]
  BY <1>1, <1>3
<1>5. \A n \in Nat : \A i : i \in 1 .. n - 1 <=> i \in 1 .. n /\ i < n OBVIOUS
<1>6. \A i : i \in DOMAIN frames'[c] <=> i \in DOMAIN frames[c] /\ i < Len(frames[c])
  BY <1>3, <1>4, <1>5
<1>7. Len(frames[c]) \in DOMAIN frames[c] /\ Len(frames'[c]) + 1 = Len(frames[c])
      /\ \A i \in DOMAIN frames[c] : i \in Nat /\ i <= Len(frames[c])
  BY <1>3, <1>4
<1> QED BY <1>2, <1>3, <1>4, <1>6, <1>7

\* The steps that leave a context's stack, calls, baggage and adopted trace alone.
ContextQuiet == UNCHANGED <<frames, stack, baggage, adopted, ambient, shared, live, opened>>

LEMMA QuietSteps ==
  ASSUME [Next]_vars
  PROVE  \/ ContextQuiet
         \/ \E c \in Contexts : \/ Begin(c) \/ EndRelease(c) \/ SetBaggage(c) \/ ContinueCheck(c)
                                \/ ContinueAdopt(c) \/ ResetContext(c) \/ Spawn(c)
<1> USE DEF ctxVars, spanVars, ContextQuiet
<1>1. ASSUME NEW c \in Contexts, End(c) PROVE EndRelease(c) \/ ContextQuiet
  BY <1>1 DEF End, CloseUnchanged, EndLoad, EndAppend, EndClose, EndWorker, EndDetach, EndSwap,
              EndSubmit
<1>2. ASSUME NEW c \in Contexts, Log(c) PROVE ContextQuiet
  BY <1>2 DEF Log, LogUnchanged, LogRead, LogBuild, LogAppend, LogOrphan
<1>3. ASSUME NEW c \in Contexts, Sweep(c) PROVE ContextQuiet
  BY <1>3 DEF Sweep, SweepUnchanged, SweepBegin, SweepSpan, SweepLoad, SweepSwap, SweepSubmit, SweepEnd
<1>4. WorkerTake => ContextQuiet BY DEF WorkerTake
<1>5. UNCHANGED vars => ContextQuiet BY DEF vars
<1> QED BY <1>1, <1>2, <1>3, <1>4, <1>5 DEF Next, Terminated, Context

LEMMA FrameStep == IInv /\ [Next]_vars => FrameInv'
<1> SUFFICES ASSUME IInv, [Next]_vars PROVE FrameInv' OBVIOUS
<1>0. TypeInv /\ FrameInv BY DEF IInv
<1>1. ASSUME NEW c \in Contexts, Begin(c) PROVE FrameInv'
  <2>1. PICK f \in Frame, s \in Spans \ opened : Opens(c, f, s) BY <1>1, BeginForm
  <2>2. /\ DOMAIN frames[c] = 1 .. Len(frames[c]) /\ Len(frames[c]) \in Nat
        /\ DOMAIN frames'[c] = 1 .. Len(frames[c]) + 1
        /\ \A i \in DOMAIN frames[c] : frames'[c][i] = frames[c][i]
        /\ frames'[c][Len(frames[c]) + 1] = f
        /\ \A d \in Contexts : d # c => frames'[d] = frames[d]
    BY <1>0, <2>1, FramesGrow DEF Opens
  <2>3. f.span # None => f.span = s /\ s \in opened' BY <2>1 DEF Opens, OpenSpan
  <2>4. opened \subseteq opened' BY <2>1 DEF Opens, OpenSpan
  <2>5. ASSUME NEW d \in Contexts, NEW i \in DOMAIN frames'[d]
        PROVE  \/ i \in DOMAIN frames[d] /\ frames'[d][i] = frames[d][i]
               \/ d = c /\ i = Len(frames[c]) + 1 /\ frames'[d][i] = f
    BY <2>2
  <2>6. s \notin opened OBVIOUS
  <2> QED BY <1>0, <2>3, <2>4, <2>5, <2>6 DEF FrameInv
<1>2. ASSUME NEW c \in Contexts, EndRelease(c) PROVE FrameInv'
  <2>1. /\ frames[c] # <<>> /\ frames' = [frames EXCEPT ![c] = SubSeq(@, 1, Len(@) - 1)]
        /\ UNCHANGED opened
    BY <1>2 DEF IInv, PcInv, EndRelease, At, spanVars
  <2>2. ASSUME NEW d \in Contexts, NEW i \in DOMAIN frames'[d]
        PROVE  i \in DOMAIN frames[d] /\ frames'[d][i] = frames[d][i]
    BY <1>0, <2>1, FramesShrink
  <2> QED BY <1>0, <2>1, <2>2 DEF FrameInv
<1>3. CASE UNCHANGED <<frames, opened>> BY <1>0, <1>3 DEF FrameInv
<1> QED
  BY <1>1, <1>2, <1>3, QuietSteps
     DEF ContextQuiet, SetBaggage, ContinueCheck, ContinueAdopt, ResetContext, Spawn, spanVars

LEMMA PushedStep == IInv /\ [Next]_vars => PushedInv'
<1> SUFFICES ASSUME IInv, [Next]_vars PROVE PushedInv' OBVIOUS
<1>0. TypeInv /\ PushedInv /\ PcInv BY DEF IInv
<1>1. ASSUME NEW c \in Contexts, Begin(c) PROVE PushedInv'
  <2>1. PICK f \in Frame, s \in Spans \ opened : Opens(c, f, s) BY <1>1, BeginForm
  <2>2. /\ DOMAIN frames[c] = 1 .. Len(frames[c]) /\ Len(frames[c]) \in Nat
        /\ DOMAIN frames'[c] = 1 .. Len(frames[c]) + 1
        /\ \A i \in DOMAIN frames[c] : frames'[c][i] = frames[c][i]
        /\ frames'[c][Len(frames[c]) + 1] = f
        /\ \A d \in Contexts : d # c => frames'[d] = frames[d]
    BY <1>0, <2>1, FramesGrow DEF Opens
  <2>3. stack[c] \in Seq(Spans) /\ s \in Spans BY <1>0, Typed
  <2>4. /\ \A d \in Contexts : d # c => stack'[d] = stack[d]
        /\ f.token = None => stack'[c] = stack[c]
        /\ f.token # None => stack'[c] = Append(stack[c], s) /\ f.token[1] = stack[c] /\ f.span = s
    BY <1>0, <2>1 DEF Opens, TypeInv, TypeOK
  <2>5. \A j \in DOMAIN stack[c] : j \in DOMAIN stack'[c] /\ stack'[c][j] = stack[c][j]
    BY <2>3, <2>4
  <2>6. f.token # None => \E j \in DOMAIN stack'[c] : stack'[c][j] = s
    <3> SUFFICES ASSUME f.token # None PROVE \E j \in DOMAIN stack'[c] : stack'[c][j] = s OBVIOUS
    <3>1. Len(stack[c]) + 1 \in DOMAIN stack'[c] /\ stack'[c][Len(stack[c]) + 1] = s
      BY <2>3, <2>4
    <3> QED BY <3>1
  <2>7. ASSUME NEW i \in DOMAIN frames'[c], frames'[c][i].token # None
        PROVE  /\ frames'[c][i].span \in Spans
               /\ \E j \in DOMAIN stack'[c] : stack'[c][j] = frames'[c][i].span
               /\ \A k \in DOMAIN frames'[c] : k > i /\ frames'[c][k].token # None =>
                    \E j \in DOMAIN frames'[c][k].token[1] :
                        frames'[c][k].token[1][j] = frames'[c][i].span
    <3>1. CASE i = Len(frames[c]) + 1
      <4>1. ~\E k \in DOMAIN frames'[c] : k > i BY <2>2, <3>1
      <4> QED BY <2>2, <2>3, <2>4, <2>6, <2>7, <3>1, <4>1
    <3>2. CASE i \in DOMAIN frames[c]
      <4>1. /\ frames[c][i].span \in Spans
            /\ \E j \in DOMAIN stack[c] : stack[c][j] = frames[c][i].span
            /\ \A k \in DOMAIN frames[c] : k > i /\ frames[c][k].token # None =>
                 \E j \in DOMAIN frames[c][k].token[1] :
                     frames[c][k].token[1][j] = frames[c][i].span
        BY <1>0, <2>2, <2>7, <3>2 DEF PushedInv
      <4>2. ASSUME NEW k \in DOMAIN frames'[c], k > i, frames'[c][k].token # None
            PROVE  \E j \in DOMAIN frames'[c][k].token[1] :
                       frames'[c][k].token[1][j] = frames'[c][i].span
        BY <2>2, <2>4, <3>2, <4>1, <4>2
      <4> QED BY <2>2, <2>5, <3>2, <4>1, <4>2
    <3> QED BY <2>2, <3>1, <3>2
  <2> QED BY <1>0, <2>2, <2>4, <2>7 DEF PushedInv
<1>2. ASSUME NEW c \in Contexts, EndRelease(c) PROVE PushedInv'
  <2>1. /\ frames[c] # <<>> /\ frames' = [frames EXCEPT ![c] = SubSeq(@, 1, Len(@) - 1)]
        /\ PopSpan(c)
    BY <1>2 DEF IInv, PcInv, EndRelease, At
  <2>2. /\ Len(frames[c]) \in DOMAIN frames[c]
        /\ \A i \in DOMAIN frames'[c] : /\ i \in DOMAIN frames[c] /\ i < Len(frames[c])
                                        /\ frames'[c][i] = frames[c][i]
        /\ \A d \in Contexts : d # c => frames'[d] = frames[d]
    BY <1>0, <2>1, FramesShrink
  <2>3. /\ \A d \in Contexts : d # c => stack'[d] = stack[d]
        /\ Top(c).token = None => stack'[c] = stack[c]
        /\ Top(c).token # None => stack'[c] = Top(c).token[1]
    BY <1>0, <2>1 DEF PopSpan, TypeInv, TypeOK
  <2>4. ASSUME NEW i \in DOMAIN frames'[c], frames'[c][i].token # None
        PROVE  \E j \in DOMAIN stack'[c] : stack'[c][j] = frames[c][i].span
    BY <1>0, <2>2, <2>3, <2>4 DEF PushedInv, Top
  <2> QED BY <1>0, <2>2, <2>3, <2>4 DEF PushedInv
<1>3. ASSUME NEW c \in Contexts, Spawn(c) PROVE PushedInv'
  <2>1. PICK d \in Contexts \ live : stack' = [stack EXCEPT ![d] = stack[c]] BY <1>3 DEF Spawn
  <2>2. frames[d] = <<>> BY <1>0, <2>1 DEF PcInv
  <2>3. UNCHANGED frames BY <1>3 DEF Spawn
  <2>4. \A b \in Contexts : frames[b] # <<>> => stack'[b] = stack[b]
    BY <1>0, <2>1, <2>2 DEF TypeInv, TypeOK
  <2>5. \A b \in Contexts : \A i \in DOMAIN frames[b] : frames[b] # <<>> OBVIOUS
  <2> QED BY <1>0, <2>3, <2>4, <2>5 DEF PushedInv
<1>4. CASE UNCHANGED <<frames, stack>> BY <1>0, <1>4 DEF PushedInv
<1> QED
  BY <1>1, <1>2, <1>3, <1>4, QuietSteps
     DEF ContextQuiet, SetBaggage, ContinueCheck, ContinueAdopt, ResetContext

LEMMA StackStep == IInv /\ [Next]_vars => StackInv'
<1> SUFFICES ASSUME IInv, [Next]_vars PROVE StackInv' OBVIOUS
<1>0. TypeInv /\ StackInv /\ PcInv BY DEF IInv
<1>1. ASSUME NEW c \in Contexts, Begin(c) PROVE StackInv'
  <2>1. PICK f \in Frame, s \in Spans \ opened : Opens(c, f, s) BY <1>1, BeginForm
  <2>2. /\ DOMAIN frames[c] = 1 .. Len(frames[c]) /\ Len(frames[c]) \in Nat
        /\ DOMAIN frames'[c] = 1 .. Len(frames[c]) + 1 /\ Len(frames'[c]) = Len(frames[c]) + 1
        /\ \A i \in DOMAIN frames[c] : frames'[c][i] = frames[c][i]
        /\ frames'[c][Len(frames[c]) + 1] = f
        /\ \A d \in Contexts : d # c => frames'[d] = frames[d]
    BY <1>0, <2>1, FramesGrow DEF Opens
  <2>3. stack[c] \in Seq(Spans) /\ UNCHANGED shared BY <1>0, <2>1, Typed DEF Opens
  <2>4. /\ \A d \in Contexts : d # c => stack'[d] = stack[d]
        /\ f.token = None => stack'[c] = stack[c]
        /\ f.token # None => stack'[c] = Append(stack[c], s) /\ f.token[1] = stack[c] /\ f.span = s
    BY <1>0, <2>1 DEF Opens, TypeInv, TypeOK
  <2>5. ASSUME NEW n \in Nat, NEW t, PushedBelow(c, n, t) PROVE PushedBelow(c, n, t)'
    BY <2>2, <2>5 DEF PushedBelow
  <2>6. ASSUME NEW j \in DOMAIN stack[c]
        PROVE  /\ stack[c][j] \in shared' \/ PushedBelow(c, Len(frames[c]) + 1, stack[c][j])
    BY <1>0, <2>3 DEF StackInv
  <2>7. ASSUME NEW t, PushedBelow(c, Len(frames[c]) + 1, t)
        PROVE  \E i \in DOMAIN frames'[c] : /\ i < Len(frames[c]) + 1
                                            /\ frames'[c][i].token # None /\ frames'[c][i].span = t
    BY <2>2, <2>7 DEF PushedBelow
  <2>8. ASSUME NEW j \in DOMAIN stack'[c]
        PROVE  \/ stack'[c][j] \in shared'
               \/ \E i \in DOMAIN frames'[c] : /\ i < Len(frames'[c]) + 1
                                               /\ frames'[c][i].token # None
                                               /\ frames'[c][i].span = stack'[c][j]
    <3>1. CASE j \in DOMAIN stack[c]
      <4>1. stack'[c][j] = stack[c][j] BY <2>3, <2>4, <3>1
      <4> QED BY <2>2, <2>6, <2>7, <3>1, <4>1
    <3>2. CASE j \notin DOMAIN stack[c]
      <4>1. f.token # None BY <2>4, <3>2
      <4>2. stack'[c][j] = s BY <2>3, <2>4, <3>2, <4>1
      <4>3. Len(frames[c]) + 1 \in DOMAIN frames'[c] BY <2>2
      <4> QED BY <2>2, <2>4, <4>1, <4>2, <4>3
    <3> QED BY <3>1, <3>2
  <2>9. ASSUME NEW k \in DOMAIN frames'[c], frames'[c][k].token # None,
               NEW j \in DOMAIN frames'[c][k].token[1]
        PROVE  \/ frames'[c][k].token[1][j] \in shared'
               \/ \E i \in DOMAIN frames'[c] : /\ i < k /\ frames'[c][i].token # None
                                               /\ frames'[c][i].span = frames'[c][k].token[1][j]
    <3>1. CASE k \in DOMAIN frames[c]
      <4>1. \/ frames[c][k].token[1][j] \in shared \/ PushedBelow(c, k, frames[c][k].token[1][j])
        BY <1>0, <2>2, <2>9, <3>1 DEF StackInv
      <4> QED BY <2>2, <2>3, <3>1, <4>1 DEF PushedBelow
    <3>2. CASE k = Len(frames[c]) + 1
      <4>1. f.token[1] = stack[c] BY <2>2, <2>4, <2>9, <3>2
      <4> QED BY <2>2, <2>6, <2>7, <2>9, <3>2, <4>1
    <3> QED BY <2>2, <3>1, <3>2
  <2>10. ASSUME NEW d \in Contexts, d # c
         PROVE  /\ \A j \in DOMAIN stack'[d] :
                     stack'[d][j] \in shared' \/ PushedBelow(d, Len(frames[d]) + 1, stack[d][j])'
                /\ \A k \in DOMAIN frames'[d] : frames'[d][k].token # None =>
                     \A j \in DOMAIN frames'[d][k].token[1] :
                       \/ frames'[d][k].token[1][j] \in shared'
                       \/ PushedBelow(d, k, frames[d][k].token[1][j])'
    <3>1. frames'[d] = frames[d] /\ stack'[d] = stack[d] /\ shared' = shared
      BY <2>2, <2>3, <2>4, <2>10
    <3>2. /\ \A j \in DOMAIN stack[d] :
               stack[d][j] \in shared \/ PushedBelow(d, Len(frames[d]) + 1, stack[d][j])
          /\ \A k \in DOMAIN frames[d] : frames[d][k].token # None =>
               \A j \in DOMAIN frames[d][k].token[1] :
                 frames[d][k].token[1][j] \in shared \/ PushedBelow(d, k, frames[d][k].token[1][j])
      BY <1>0 DEF StackInv
    <3> QED BY <3>1, <3>2 DEF PushedBelow
  <2> QED BY <2>8, <2>9, <2>10 DEF StackInv, PushedBelow
<1>2. ASSUME NEW c \in Contexts, EndRelease(c) PROVE StackInv'
  <2>1. /\ frames[c] # <<>> /\ frames' = [frames EXCEPT ![c] = SubSeq(@, 1, Len(@) - 1)]
        /\ PopSpan(c) /\ UNCHANGED shared
    BY <1>2 DEF IInv, PcInv, EndRelease, At, spanVars
  <2>2. /\ Len(frames[c]) \in DOMAIN frames[c] /\ Len(frames[c]) \in Nat
        /\ Len(frames'[c]) + 1 = Len(frames[c])
        /\ \A i : i \in DOMAIN frames'[c] <=> i \in DOMAIN frames[c] /\ i < Len(frames[c])
        /\ \A i \in DOMAIN frames'[c] : frames'[c][i] = frames[c][i]
        /\ \A i \in DOMAIN frames[c] : i \in Nat /\ i <= Len(frames[c])
        /\ \A d \in Contexts : d # c => frames'[d] = frames[d]
    BY <1>0, <2>1, FramesShrink
  <2>3. /\ \A d \in Contexts : d # c => stack'[d] = stack[d]
        /\ Top(c).token = None => stack'[c] = stack[c]
        /\ Top(c).token # None => stack'[c] = Top(c).token[1]
    BY <1>0, <2>1 DEF PopSpan, TypeInv, TypeOK
  <2>4. ASSUME NEW j \in DOMAIN stack'[c]
        PROVE  stack'[c][j] \in shared \/ PushedBelow(c, Len(frames[c]), stack'[c][j])
    <3>1. CASE Top(c).token # None BY <1>0, <2>2, <2>3, <3>1 DEF StackInv, Top
    <3>2. CASE Top(c).token = None
      <4>1. stack[c][j] \in shared \/ PushedBelow(c, Len(frames[c]) + 1, stack[c][j])
        BY <1>0, <2>3, <3>2 DEF StackInv
      <4> QED BY <2>2, <2>3, <3>2, <4>1 DEF PushedBelow, Top
    <3> QED BY <3>1, <3>2
  <2>5. ASSUME NEW k \in Nat, NEW t, k <= Len(frames[c]), PushedBelow(c, k, t)
        PROVE  \E i \in DOMAIN frames'[c] : /\ i < k /\ frames'[c][i].token # None
                                            /\ frames'[c][i].span = t
    BY <2>2, <2>5 DEF PushedBelow
  <2>6. ASSUME NEW j \in DOMAIN stack'[c]
        PROVE  stack'[c][j] \in shared' \/ PushedBelow(c, Len(frames[c]) + 1, stack[c][j])'
    <3>1. CASE stack'[c][j] \in shared BY <2>1, <3>1
    <3>2. CASE PushedBelow(c, Len(frames[c]), stack'[c][j])
      <4>1. \E i \in DOMAIN frames'[c] : /\ i < Len(frames[c]) /\ frames'[c][i].token # None
                                         /\ frames'[c][i].span = stack'[c][j]
        BY <2>2, <2>5, <3>2
      <4> QED BY <2>2, <4>1 DEF PushedBelow
    <3> QED BY <2>4, <3>1, <3>2
  <2>7. ASSUME NEW k \in DOMAIN frames'[c], frames'[c][k].token # None,
               NEW j \in DOMAIN frames'[c][k].token[1]
        PROVE  \/ frames'[c][k].token[1][j] \in shared'
               \/ PushedBelow(c, k, frames[c][k].token[1][j])'
    <3>1. frames[c][k].token[1][j] \in shared \/ PushedBelow(c, k, frames[c][k].token[1][j])
      BY <1>0, <2>2, <2>7 DEF StackInv
    <3>2. k \in Nat /\ k <= Len(frames[c]) /\ frames'[c][k] = frames[c][k] BY <2>2
    <3>3. PushedBelow(c, k, frames[c][k].token[1][j]) =>
            \E i \in DOMAIN frames'[c] : /\ i < k /\ frames'[c][i].token # None
                                         /\ frames'[c][i].span = frames[c][k].token[1][j]
      BY <2>5, <3>2
    <3> QED BY <2>1, <3>1, <3>2, <3>3 DEF PushedBelow
  <2>8. ASSUME NEW d \in Contexts, d # c
        PROVE  /\ \A j \in DOMAIN stack'[d] :
                    stack'[d][j] \in shared' \/ PushedBelow(d, Len(frames[d]) + 1, stack[d][j])'
               /\ \A k \in DOMAIN frames'[d] : frames'[d][k].token # None =>
                    \A j \in DOMAIN frames'[d][k].token[1] :
                      \/ frames'[d][k].token[1][j] \in shared'
                      \/ PushedBelow(d, k, frames[d][k].token[1][j])'
    BY <1>0, <2>1, <2>2, <2>3, <2>8 DEF StackInv, PushedBelow
  <2> QED BY <2>6, <2>7, <2>8 DEF StackInv
<1>3. ASSUME NEW c \in Contexts, Spawn(c) PROVE StackInv'
  <2>1. PICK d \in Contexts \ live : stack' = [stack EXCEPT ![d] = stack[c]] BY <1>3 DEF Spawn
  <2>2. /\ UNCHANGED frames /\ shared \subseteq shared'
        /\ \A j \in DOMAIN stack[c] : stack[c][j] \in shared'
    BY <1>3 DEF Spawn
  <2>3. stack'[d] = stack[c] /\ \A b \in Contexts : b # d => stack'[b] = stack[b]
    BY <1>0, <2>1 DEF TypeInv, TypeOK
  <2> QED BY <1>0, <2>2, <2>3 DEF StackInv, PushedBelow
<1>4. CASE UNCHANGED <<frames, stack, shared>> BY <1>0, <1>4 DEF StackInv, PushedBelow
<1> QED
  BY <1>1, <1>2, <1>3, <1>4, QuietSteps
     DEF ContextQuiet, SetBaggage, ContinueCheck, ContinueAdopt, ResetContext, spanVars

LEMMA ScopeStep == IInv /\ [Next]_vars => ScopeInv'
<1> SUFFICES ASSUME IInv, [Next]_vars PROVE ScopeInv' OBVIOUS
<1>0. TypeInv /\ ScopeInv /\ PcInv /\ PushedInv BY DEF IInv
<1>a. ASSUME UNCHANGED frames,
             \A d \in Contexts : ambient[d] \subseteq ambient'[d] \/ frames[d] = <<>>
      PROVE  ScopeInv' <=> NothingLeaks'
  BY <1>0, <1>a DEF ScopeInv
<1>1. ASSUME NEW c \in Contexts, Begin(c) PROVE ScopeInv'
  <2>1. PICK f \in Frame, s \in Spans \ opened : Opens(c, f, s) BY <1>1, BeginForm
  <2>2. /\ DOMAIN frames[c] = 1 .. Len(frames[c]) /\ Len(frames[c]) \in Nat
        /\ DOMAIN frames'[c] = 1 .. Len(frames[c]) + 1
        /\ \A i \in DOMAIN frames[c] : frames'[c][i] = frames[c][i]
        /\ frames'[c][Len(frames[c]) + 1] = f
        /\ \A d \in Contexts : d # c => frames'[d] = frames[d]
    BY <1>0, <2>1, FramesGrow DEF Opens
  <2>3. UNCHANGED <<baggage, adopted, ambient>> BY <2>1 DEF Opens
  <2>4. \A d \in Contexts : Scoped(d) => Scoped(d)' BY <2>2 DEF Scoped
  <2>5. NothingLeaks' BY <1>0, <2>3, <2>4 DEF ScopeInv, NothingLeaks
  <2>6. ASSUME NEW i \in DOMAIN frames'[c], frames'[c][i].scope # None
        PROVE  /\ \A j \in DOMAIN frames'[c] : j < i => frames'[c][j].token = None
               /\ (\A j \in DOMAIN frames'[c] : j < i => frames'[c][j].scope = None) =>
                      frames'[c][i].scope[1] \subseteq ambient'[c]
    <3>1. CASE i \in DOMAIN frames[c]
      <4>1. /\ \A j \in DOMAIN frames[c] : j < i => frames[c][j].token = None
            /\ (\A j \in DOMAIN frames[c] : j < i => frames[c][j].scope = None) =>
                   frames[c][i].scope[1] \subseteq ambient[c]
        BY <1>0, <2>2, <2>6, <3>1 DEF ScopeInv
      <4>2. \A j \in DOMAIN frames'[c] : j < i => j \in DOMAIN frames[c] BY <2>2, <3>1
      <4> QED BY <2>2, <2>3, <3>1, <4>1, <4>2
    <3>2. CASE i = Len(frames[c]) + 1
      <4>1. f.scope = <<baggage[c]>> /\ stack[c] = <<>> BY <2>1, <2>2, <2>6, <3>2 DEF Opens
      <4>2. \A j \in DOMAIN frames[c] : frames[c][j].token = None BY <1>0, <4>1 DEF PushedInv
      <4>3. (\A j \in DOMAIN frames[c] : frames[c][j].scope = None) => baggage[c] \subseteq ambient[c]
        BY <1>0 DEF ScopeInv, NothingLeaks, Scoped
      <4> QED BY <2>2, <2>3, <3>2, <4>1, <4>2, <4>3
    <3> QED BY <2>2, <3>1, <3>2
  <2> QED BY <1>0, <2>2, <2>3, <2>5, <2>6 DEF ScopeInv
<1>2. ASSUME NEW c \in Contexts, EndRelease(c) PROVE ScopeInv'
  <2>1. /\ frames[c] # <<>> /\ frames' = [frames EXCEPT ![c] = SubSeq(@, 1, Len(@) - 1)]
        /\ PopBaggageScope(c) /\ UNCHANGED ambient
    BY <1>2 DEF IInv, PcInv, EndRelease, At
  <2>2. /\ Len(frames[c]) \in DOMAIN frames[c] /\ Len(frames[c]) \in Nat
        /\ \A i \in DOMAIN frames[c] : i \in Nat /\ i <= Len(frames[c])
        /\ \A i : i \in DOMAIN frames'[c] <=> i \in DOMAIN frames[c] /\ i < Len(frames[c])
        /\ \A i \in DOMAIN frames'[c] : frames'[c][i] = frames[c][i]
        /\ \A d \in Contexts : d # c => frames'[d] = frames[d]
    BY <1>0, <2>1, FramesShrink
  <2>3. /\ \A d \in Contexts : d # c => baggage'[d] = baggage[d] /\ adopted'[d] = adopted[d]
        /\ Top(c).scope = None => baggage'[c] = baggage[c] /\ adopted'[c] = adopted[c]
        /\ Top(c).scope # None => baggage'[c] = Top(c).scope[1] /\ adopted'[c] = None
    BY <1>0, <2>1 DEF PopBaggageScope, TypeInv, TypeOK
  <2>4. ASSUME ~Scoped(c)' PROVE baggage'[c] \subseteq ambient[c] /\ adopted'[c] \in ambient[c] \cup {None}
    <3>1. \A j \in DOMAIN frames[c] : j < Len(frames[c]) => frames[c][j].scope = None
      BY <2>2, <2>4 DEF Scoped
    <3>2. CASE Top(c).scope = None
      <4>1. ~Scoped(c) BY <2>2, <3>1, <3>2 DEF Scoped, Top
      <4> QED BY <1>0, <2>3, <3>2, <4>1 DEF ScopeInv, NothingLeaks
    <3>3. CASE Top(c).scope # None BY <1>0, <2>2, <2>3, <3>1, <3>3 DEF ScopeInv, Top
    <3> QED BY <3>2, <3>3
  <2>5. \A d \in Contexts : d # c => (Scoped(d)' <=> Scoped(d)) BY <2>2 DEF Scoped
  <2>6. NothingLeaks' BY <1>0, <2>1, <2>3, <2>4, <2>5 DEF ScopeInv, NothingLeaks
  <2>7. ASSUME NEW i \in DOMAIN frames'[c], frames'[c][i].scope # None
        PROVE  /\ \A j \in DOMAIN frames'[c] : j < i => frames'[c][j].token = None
               /\ (\A j \in DOMAIN frames'[c] : j < i => frames'[c][j].scope = None) =>
                      frames'[c][i].scope[1] \subseteq ambient'[c]
    <3>1. i \in DOMAIN frames[c] /\ \A j \in DOMAIN frames[c] : j < i => j \in DOMAIN frames'[c]
      BY <2>2
    <3>2. \A j \in DOMAIN frames'[c] : j \in DOMAIN frames[c] BY <2>2
    <3>3. /\ \A j \in DOMAIN frames[c] : j < i => frames[c][j].token = None
          /\ (\A j \in DOMAIN frames[c] : j < i => frames[c][j].scope = None) =>
                 frames[c][i].scope[1] \subseteq ambient[c]
      BY <1>0, <2>2, <2>7, <3>1 DEF ScopeInv
    <3>4. \A j \in DOMAIN frames'[c] : j < i => frames'[c][j].token = None BY <2>2, <3>2, <3>3
    <3>5. ASSUME \A j \in DOMAIN frames'[c] : j < i => frames'[c][j].scope = None
          PROVE  frames'[c][i].scope[1] \subseteq ambient'[c]
      <4>1. \A j \in DOMAIN frames[c] : j < i => frames[c][j].scope = None BY <2>2, <3>1, <3>5
      <4> QED BY <2>1, <2>2, <3>3, <4>1
    <3> QED BY <3>4, <3>5
  <2>8. ASSUME NEW d \in Contexts, d # c, NEW i \in DOMAIN frames'[d], frames'[d][i].scope # None
        PROVE  /\ \A j \in DOMAIN frames'[d] : j < i => frames'[d][j].token = None
               /\ (\A j \in DOMAIN frames'[d] : j < i => frames'[d][j].scope = None) =>
                      frames'[d][i].scope[1] \subseteq ambient'[d]
    <3>1. frames'[d] = frames[d] /\ ambient'[d] = ambient[d] BY <2>1, <2>2, <2>8
    <3> QED BY <1>0, <2>8, <3>1 DEF ScopeInv
  <2> QED BY <2>6, <2>7, <2>8 DEF ScopeInv
<1>3. ASSUME NEW c \in Contexts, NEW keys, Merge(c, keys), UNCHANGED <<frames, adopted>>
      PROVE  ScopeInv'
  <2>1. /\ \A d \in Contexts : ambient[d] \subseteq ambient'[d]
        /\ ~Scoped(c) => keys \subseteq ambient'[c]
    BY <1>0, <1>3 DEF Merge, TypeInv
  <2>3. baggage'[c] = baggage[c] \cup keys /\ \A d \in Contexts : d # c => baggage'[d] = baggage[d]
    BY <1>0, <1>3 DEF Merge, TypeInv, TypeOK
  <2>4. \A d \in Contexts : Scoped(d)' <=> Scoped(d) BY <1>3 DEF Scoped
  <2>2. NothingLeaks' BY <1>0, <1>3, <2>1, <2>3, <2>4 DEF ScopeInv, NothingLeaks
  <2> QED BY <1>3, <1>a, <2>1, <2>2
<1>4. ASSUME NEW c \in Contexts, SetBaggage(c) PROVE ScopeInv' BY <1>3, <1>4 DEF SetBaggage
<1>5. ASSUME NEW c \in Contexts, ContinueCheck(c) PROVE ScopeInv'
  <2>1. CASE UNCHANGED <<baggage, ambient>>
    BY <1>0, <1>5, <2>1 DEF ContinueCheck, ScopeInv, NothingLeaks, Scoped
  <2> QED BY <1>3, <1>5, <2>1 DEF ContinueCheck
<1>6. ASSUME NEW c \in Contexts, ContinueAdopt(c) PROVE ScopeInv'
  <2>1. PICK keys \in Headers :
          /\ baggage' = [baggage EXCEPT ![c] = @ \cup keys]
          /\ ambient' = IF Scoped(c) THEN ambient
                                     ELSE [ambient EXCEPT ![c] = @ \cup keys \cup {item[c]}]
    BY <1>6 DEF ContinueAdopt
  <2>2. adopted' = [adopted EXCEPT ![c] = item[c]] /\ UNCHANGED frames BY <1>6 DEF ContinueAdopt
  <2>3. \A d \in Contexts : Scoped(d)' <=> Scoped(d) BY <2>2 DEF Scoped
  <2>4. /\ \A d \in Contexts : ambient[d] \subseteq ambient'[d]
        /\ ~Scoped(c) => keys \subseteq ambient'[c] /\ item[c] \in ambient'[c]
    BY <1>0, <2>1 DEF TypeInv
  <2>5. /\ baggage'[c] = baggage[c] \cup keys /\ adopted'[c] = item[c]
        /\ \A d \in Contexts : d # c => baggage'[d] = baggage[d] /\ adopted'[d] = adopted[d]
    BY <1>0, <2>1, <2>2 DEF TypeInv, TypeOK
  <2>6. NothingLeaks' BY <1>0, <2>3, <2>4, <2>5 DEF ScopeInv, NothingLeaks
  <2> QED BY <1>a, <2>2, <2>4, <2>6
<1>7. ASSUME NEW c \in Contexts, ResetContext(c) PROVE ScopeInv'
  <2>1. /\ baggage' = [baggage EXCEPT ![c] = {}] /\ adopted' = [adopted EXCEPT ![c] = None]
        /\ UNCHANGED <<frames, ambient>>
    BY <1>7 DEF ResetContext
  <2>2. NothingLeaks' BY <1>0, <2>1 DEF ScopeInv, NothingLeaks, Scoped, TypeInv, TypeOK
  <2> QED BY <1>a, <2>1, <2>2
<1>8. ASSUME NEW c \in Contexts, Spawn(c) PROVE ScopeInv'
  <2>1. PICK d \in Contexts \ live :
          /\ baggage' = [baggage EXCEPT ![d] = baggage[c]]
          /\ adopted' = [adopted EXCEPT ![d] = adopted[c]]
          /\ ambient' = [ambient EXCEPT ![d] = baggage[c] \cup {adopted[c]}]
    BY <1>8 DEF Spawn
  <2>2. frames[d] = <<>> /\ UNCHANGED frames BY <1>0, <1>8, <2>1 DEF PcInv, Spawn
  <2>3. /\ baggage'[d] \subseteq ambient'[d] /\ adopted'[d] \in ambient'[d]
        /\ \A b \in Contexts : b # d => /\ baggage'[b] = baggage[b] /\ adopted'[b] = adopted[b]
                                        /\ ambient'[b] = ambient[b]
    BY <1>0, <2>1 DEF TypeInv, TypeOK
  <2>4. NothingLeaks' BY <1>0, <2>2, <2>3 DEF ScopeInv, NothingLeaks, Scoped
  <2> QED BY <1>a, <2>2, <2>3, <2>4
<1>9. CASE UNCHANGED <<frames, baggage, adopted, ambient>>
  BY <1>0, <1>9 DEF ScopeInv, NothingLeaks, Scoped
<1> QED
  BY <1>1, <1>2, <1>4, <1>5, <1>6, <1>7, <1>8, <1>9, QuietSteps DEF ContextQuiet

----------------------------------------------------------------------------
(* Where the contexts are                                                  *)

\* A step of one context leaves the local variables and the calls of the others alone, and the
\* stack and the baggage of those that exist.
OthersStill(c) ==
    \A d \in Contexts : d # c =>
        /\ pc'[d] = pc[d] /\ local'[d] = local[d] /\ item'[d] = item[d] /\ ref'[d] = ref[d]
        /\ idx'[d] = idx[d] /\ frames'[d] = frames[d]
        /\ d \in live => stack'[d] = stack[d] /\ baggage'[d] = baggage[d]

LEMMA OthersStillStep ==
  ASSUME IInv, NEW c \in Contexts, Begin(c) \/ End(c) \/ Log(c) \/ Sweep(c) \/ Context(c)
  PROVE  OthersStill(c)
<1> USE DEF TypeInv, TypeOK, ctxVars, localVars, spanVars, OthersStill, Goto
<1>0. TypeInv /\ PcInv BY DEF IInv
<1>1. CASE Begin(c)
  <2>1. PICK f \in Frame, s \in Spans \ opened : Opens(c, f, s) BY <1>1, BeginForm
  <2> QED BY <1>0, <2>1 DEF Opens
<1>2. CASE End(c)
  <2>1. CASE EndRelease(c)
    <3>1. Forget(c) /\ PopSpan(c) /\ PopBaggageScope(c) BY <2>1 DEF EndRelease
    <3>2. \A d \in Contexts : d # c => stack'[d] = stack[d] /\ baggage'[d] = baggage[d]
      BY <1>0, <3>1 DEF PopSpan, PopBaggageScope
    <3> QED BY <1>0, <2>1, <3>1, <3>2 DEF EndRelease, Forget
  <2>2. CASE EndLoad(c) BY <1>0, <2>2 DEF EndLoad, CloseUnchanged
  <2>3. CASE EndAppend(c) BY <1>0, <2>3 DEF EndAppend, CloseUnchanged
  <2>4. CASE EndClose(c) BY <1>0, <2>4 DEF EndClose, CloseUnchanged
  <2>5. CASE EndWorker(c) BY <1>0, <2>5 DEF EndWorker, CloseUnchanged
  <2>6. CASE EndDetach(c) BY <1>0, <2>6 DEF EndDetach, CloseUnchanged
  <2>7. CASE EndSwap(c) BY <1>0, <2>7 DEF EndSwap, CloseUnchanged
  <2>8. CASE EndSubmit(c) BY <1>0, <2>8 DEF EndSubmit, CloseUnchanged
  <2> QED BY <1>2, <2>1, <2>2, <2>3, <2>4, <2>5, <2>6, <2>7, <2>8 DEF End
<1>3. CASE Log(c)
  <2>1. CASE LogRead(c) BY <1>0, <2>1 DEF LogRead, LogUnchanged
  <2>2. CASE LogBuild(c) BY <1>0, <2>2 DEF LogBuild, LogUnchanged, Forget
  <2>3. CASE LogAppend(c) BY <1>0, <2>3 DEF LogAppend, LogUnchanged, Forget
  <2>4. CASE LogOrphan(c) BY <1>0, <2>4 DEF LogOrphan, LogUnchanged, Forget
  <2> QED BY <1>3, <2>1, <2>2, <2>3, <2>4 DEF Log
<1>4. CASE Sweep(c)
  <2>1. CASE SweepBegin(c) BY <1>0, <2>1 DEF SweepBegin, SweepUnchanged
  <2>2. CASE SweepSpan(c) BY <1>0, <2>2 DEF SweepSpan, SweepUnchanged, Forget
  <2>3. CASE SweepLoad(c) BY <1>0, <2>3 DEF SweepLoad, SweepUnchanged
  <2>4. CASE SweepSwap(c) BY <1>0, <2>4 DEF SweepSwap, SweepUnchanged
  <2>5. CASE SweepSubmit(c) BY <1>0, <2>5 DEF SweepSubmit, SweepUnchanged
  <2>6. CASE SweepEnd(c) BY <1>0, <2>6 DEF SweepEnd, SweepUnchanged, Forget
  <2> QED BY <1>4, <2>1, <2>2, <2>3, <2>4, <2>5, <2>6 DEF Sweep
<1>5. CASE Context(c)
  <2>1. CASE SetBaggage(c) BY <1>0, <2>1 DEF SetBaggage, Merge
  <2>2. CASE ContinueCheck(c) BY <1>0, <2>2 DEF ContinueCheck, Merge
  <2>3. CASE ContinueAdopt(c) BY <1>0, <2>3 DEF ContinueAdopt, Forget
  <2>4. CASE ResetContext(c) BY <1>0, <2>4 DEF ResetContext
  <2>5. CASE Spawn(c) BY <1>0, <2>5 DEF Spawn
  <2> QED BY <1>5, <2>1, <2>2, <2>3, <2>4, <2>5 DEF Context
<1> QED BY <1>1, <1>2, <1>3, <1>4, <1>5

\* The sets that only grow.
LEMMA Growing ==
  ASSUME IInv, [Next]_vars
  PROVE  /\ live \subseteq live' /\ opened \subseteq opened' /\ shared \subseteq shared'
         /\ sealed \subseteq sealed' /\ overtaken \subseteq overtaken' /\ counted \subseteq counted'
<1> USE DEF ctxVars, spanVars, outVars, sealVars
<1>1. ASSUME NEW c \in Contexts, Begin(c)
      PROVE  opened \subseteq opened' /\ UNCHANGED <<live, shared, sealed, overtaken, counted>>
  BY <1>1, BeginForm DEF Opens, OpenSpan
<1>2. ASSUME NEW c \in Contexts, End(c)
      PROVE  /\ sealed \subseteq sealed' /\ overtaken \subseteq overtaken' /\ counted \subseteq counted'
             /\ UNCHANGED <<live, opened, shared>>
  BY <1>2 DEF End, CloseUnchanged, EndLoad, EndAppend, EndClose, EndWorker, EndDetach, EndSwap,
              EndSubmit, EndRelease
<1>3. ASSUME NEW c \in Contexts, Log(c)
      PROVE  counted \subseteq counted' /\ UNCHANGED <<live, opened, shared, sealed, overtaken>>
  BY <1>3 DEF Log, LogUnchanged, LogRead, LogBuild, LogAppend, LogOrphan
<1>4. ASSUME NEW c \in Contexts, Sweep(c)
      PROVE  UNCHANGED <<live, opened, shared, sealed, overtaken, counted>>
  BY <1>4 DEF Sweep, SweepUnchanged, SweepBegin, SweepSpan, SweepLoad, SweepSwap, SweepSubmit, SweepEnd
<1>5. ASSUME NEW c \in Contexts, Context(c)
      PROVE  /\ live \subseteq live' /\ shared \subseteq shared'
             /\ UNCHANGED <<opened, sealed, overtaken, counted>>
  BY <1>5 DEF Context, SetBaggage, ContinueCheck, ContinueAdopt, ResetContext, Spawn
<1>6. WorkerTake => UNCHANGED <<live, opened, shared, sealed, overtaken, counted>> BY DEF WorkerTake
<1>7. UNCHANGED vars => UNCHANGED <<live, opened, shared, sealed, overtaken, counted>> BY DEF vars
<1> QED BY <1>1, <1>2, <1>3, <1>4, <1>5, <1>6, <1>7 DEF Next, Terminated

LEMMA PcStep == IInv /\ [Next]_vars => PcInv'
<1> SUFFICES ASSUME IInv, [Next]_vars PROVE PcInv' OBVIOUS
<1> DEFINE P(c) ==
        /\ pc[c] \in Ending => frames[c] # <<>> /\ local[c] \in Spans /\ local[c] = Top(c).span
        /\ pc[c] = "release" => frames[c] # <<>> /\ Top(c).span \in sealed \cup {None}
        /\ pc[c] \in Levelling \cup {"orphan"} => item[c] \in Logs
        /\ pc[c] \in Levelling => stack[c] # <<>> /\ local[c] = CurrentSpan(c)
        /\ pc[c] = "adopt" => item[c] \in Inbound
        /\ pc[c] \in SweepingOf => idx[c] \in DOMAIN stack[c] /\ local[c] = stack[c][idx[c]]
        /\ c \notin live => pc[c] = "run" /\ frames[c] = <<>>
<1> USE DEF ctxVars, localVars, spanVars, sealVars, At, Goto, Ending, Levelling, SweepingOf
<1>0. /\ TypeInv /\ sealed \subseteq sealed' /\ live \subseteq live'
      /\ \A c \in Contexts : P(c)
  BY Growing DEF IInv, PcInv
<1>a. \A c \in Contexts : /\ frames'[c] = frames[c] => Top(c)' = Top(c)
                          /\ stack'[c] = stack[c] => CurrentSpan(c)' = CurrentSpan(c)
  BY DEF Top, CurrentSpan
<1>b. ASSUME NEW c \in Contexts, Begin(c) \/ End(c) \/ Log(c) \/ Sweep(c) \/ Context(c),
             NEW d \in Contexts, d # c
      PROVE  P(d)'
  <2>1. OthersStill(c) BY <1>b, OthersStillStep
  <2>2. CASE d \in live BY <1>0, <1>a, <1>b, <2>1, <2>2 DEF OthersStill
  <2>3. CASE d \notin live BY <1>0, <1>b, <2>1, <2>3 DEF OthersStill
  <2> QED BY <2>2, <2>3
<1>c. /\ pc \in [Contexts -> PCs] /\ local \in [Contexts -> Spans \cup {None}]
      /\ item \in [Contexts -> Logs \cup Inbound \cup {None}] /\ idx \in [Contexts -> Nat]
  BY <1>0 DEF TypeInv, TypeOK
<1>1. ASSUME NEW c \in Contexts, Begin(c) PROVE P(c)'
  BY <1>0, <1>c, <1>1 DEF Begin
<1>2. ASSUME NEW c \in Contexts, EndLoad(c) PROVE P(c)'
  <2>1. Top(c).span \in Spans \cup {None} /\ frames[c] # <<>> BY <1>0, <1>2, TopType DEF EndLoad
  <2> QED BY <1>0, <1>a, <1>c, <1>2, <2>1 DEF EndLoad, CloseUnchanged
<1>3. ASSUME NEW c \in Contexts, EndAppend(c) \/ EndClose(c) \/ EndDetach(c) PROVE P(c)'
  BY <1>0, <1>a, <1>c, <1>3 DEF EndAppend, EndClose, EndDetach, CloseUnchanged
<1>4. ASSUME NEW c \in Contexts, EndWorker(c) \/ EndSwap(c) PROVE P(c)'
  BY <1>0, <1>a, <1>c, <1>4 DEF EndWorker, EndSwap, CloseUnchanged
<1>5. ASSUME NEW c \in Contexts, EndSubmit(c) PROVE P(c)'
  <2>1. local[c] \in sealed
    BY <1>5 DEF EndSubmit, IInv, CloseInv
  <2> QED BY <1>0, <1>a, <1>c, <1>5, <2>1 DEF EndSubmit, CloseUnchanged
<1>6. ASSUME NEW c \in Contexts, EndRelease(c) PROVE P(c)'
  BY <1>0, <1>c, <1>6 DEF EndRelease
<1>7. ASSUME NEW c \in Contexts, LogRead(c) PROVE P(c)'
  <2>1. Joinable(CurrentSpan(c)) => stack[c] # <<>> BY <1>0, CurrentSpanType DEF Joinable
  <2>2. item'[c] \in Logs BY <1>c, <1>7 DEF LogRead, Unlogged
  <2> QED BY <1>0, <1>a, <1>c, <1>7, <2>1, <2>2 DEF LogRead, LogUnchanged
<1>8. ASSUME NEW c \in Contexts, LogBuild(c) PROVE P(c)'
  BY <1>0, <1>a, <1>c, <1>8 DEF LogBuild, LogUnchanged
<1>9. ASSUME NEW c \in Contexts, LogAppend(c) \/ LogOrphan(c) PROVE P(c)'
  BY <1>0, <1>c, <1>9 DEF LogAppend, LogOrphan, LogUnchanged
<1>10. ASSUME NEW c \in Contexts, SweepSpan(c) PROVE P(c)'
  BY <1>0, <1>c, <1>10 DEF SweepSpan, SweepUnchanged
<1>11. ASSUME NEW c \in Contexts, SweepBegin(c) \/ SweepLoad(c) \/ SweepSwap(c) \/ SweepSubmit(c)
                                  \/ SweepEnd(c)
       PROVE  P(c)'
  BY <1>0, <1>c, <1>11 DEF SweepBegin, SweepLoad, SweepSwap, SweepSubmit, SweepEnd, SweepUnchanged
<1>12. ASSUME NEW c \in Contexts, ContinueCheck(c) PROVE P(c)'
  BY <1>0, <1>c, <1>12 DEF ContinueCheck
<1>13. ASSUME NEW c \in Contexts, SetBaggage(c) \/ ContinueAdopt(c) \/ ResetContext(c) \/ Spawn(c)
       PROVE  P(c)'
  BY <1>0, <1>c, <1>13 DEF SetBaggage, ContinueAdopt, ResetContext, Spawn
<1>14. ASSUME WorkerTake \/ UNCHANGED vars, NEW d \in Contexts PROVE P(d)'
  BY <1>0, <1>a, <1>14 DEF WorkerTake, vars
<1>15. \A c \in Contexts : P(c)'
  BY <1>b, <1>1, <1>2, <1>3, <1>4, <1>5, <1>6, <1>7, <1>8, <1>9, <1>10, <1>11, <1>12, <1>13, <1>14
     DEF Next, Terminated, End, Log, Sweep, Context
<1> QED BY <1>15 DEF PcInv

----------------------------------------------------------------------------
(* The lock, and the lists it protects                                     *)

\* While another context holds the lock, nothing is detached and the lock stays.
LEMMA LockedOut ==
  ASSUME IInv, NEW c \in Contexts, Begin(c) \/ End(c) \/ Log(c) \/ Sweep(c) \/ Context(c),
         lock \in Contexts, lock # c
  PROVE  UNCHANGED <<lock, gen>>
<1>1. pc[c] \notin Holding /\ lock # None BY SpansAssumption DEF IInv, LockInv
<1> USE DEF At, Holding, SweepingOf, ctxVars, spanVars
<1>2. CASE Begin(c) BY <1>2 DEF Begin
<1>3. CASE End(c)
  BY <1>1, <1>3 DEF End, CloseUnchanged, EndLoad, EndAppend, EndClose, EndWorker, EndDetach, EndSwap,
                    EndSubmit, EndRelease
<1>4. CASE Log(c) BY <1>4 DEF Log, LogUnchanged, LogRead, LogBuild, LogAppend, LogOrphan
<1>5. CASE Sweep(c)
  BY <1>1, <1>5 DEF Sweep, SweepUnchanged, SweepBegin, SweepSpan, SweepLoad, SweepSwap, SweepSubmit,
                    SweepEnd
<1>6. CASE Context(c)
  BY <1>6 DEF Context, SetBaggage, ContinueCheck, ContinueAdopt, ResetContext, Spawn
<1> QED BY <1>2, <1>3, <1>4, <1>5, <1>6

LEMMA LockStep == IInv /\ [Next]_vars => LockInv'
<1> SUFFICES ASSUME IInv, [Next]_vars PROVE LockInv' OBVIOUS
<1> DEFINE P(c) == /\ pc[c] \in Holding => lock = c
                   /\ pc[c] \in {"swap", "sweepSwap"} => ref[c] = ListOf(local[c])
<1> USE DEF ctxVars, localVars, spanVars, At, Goto, Holding, SweepingOf
<1>0. TypeInv /\ \A c \in Contexts : P(c) BY DEF IInv, LockInv
<1>a. \A s : gen' = gen => ListOf(s)' = ListOf(s) BY DEF ListOf
<1>b. ASSUME NEW c \in Contexts, Begin(c) \/ End(c) \/ Log(c) \/ Sweep(c) \/ Context(c),
             NEW d \in Contexts, d # c
      PROVE  P(d)'
  <2>1. pc'[d] = pc[d] /\ local'[d] = local[d] /\ ref'[d] = ref[d]
    BY <1>b, OthersStillStep DEF OthersStill
  <2>2. CASE pc[d] \in Holding
    <3>1. lock = d BY <1>0, <2>2
    <3>2. UNCHANGED <<lock, gen>> BY <1>b, <3>1, LockedOut
    <3>3. ListOf(local[d])' = ListOf(local[d]) BY <2>1, <3>2 DEF ListOf
    <3> QED BY <1>0, <2>1, <3>2, <3>3
  <2>3. CASE pc[d] \notin Holding BY <2>1, <2>3
  <2> QED BY <2>2, <2>3
<1>c. /\ pc \in [Contexts -> PCs] /\ local \in [Contexts -> Spans \cup {None}]
      /\ ref \in [Contexts -> Lists \cup {None}]
  BY <1>0 DEF TypeInv, TypeOK
<1>1. ASSUME NEW c \in Contexts, Begin(c) PROVE P(c)'
  BY <1>0, <1>c, <1>1 DEF Begin
<1>2. ASSUME NEW c \in Contexts, End(c) PROVE P(c)'
  <2>1. CASE EndDetach(c) BY <1>c, <2>1 DEF EndDetach, ListOf
  <2> QED
    BY <1>c, <1>2, <2>1 DEF End, EndLoad, EndAppend, EndClose, EndWorker, EndSwap, EndSubmit,
                             EndRelease
<1>3. ASSUME NEW c \in Contexts, Log(c) PROVE P(c)'
  BY <1>c, <1>3 DEF Log, LogRead, LogBuild, LogAppend, LogOrphan
<1>4. ASSUME NEW c \in Contexts, Sweep(c) PROVE P(c)'
  <2>1. CASE SweepBegin(c) BY <1>c, <2>1 DEF SweepBegin
  <2>2. CASE SweepSpan(c) BY <1>0, <1>c, <2>2 DEF SweepSpan
  <2>3. CASE SweepLoad(c) BY <1>0, <1>c, <2>3 DEF SweepLoad, ListOf
  <2>4. CASE SweepSwap(c) BY <1>0, <1>c, <2>4 DEF SweepSwap
  <2>5. CASE SweepSubmit(c) BY <1>0, <1>c, <2>5 DEF SweepSubmit
  <2>6. CASE SweepEnd(c) BY <1>c, <2>6 DEF SweepEnd
  <2> QED BY <1>4, <2>1, <2>2, <2>3, <2>4, <2>5, <2>6 DEF Sweep
<1>5. ASSUME NEW c \in Contexts, Context(c) PROVE P(c)'
  BY <1>c, <1>5 DEF Context, SetBaggage, ContinueCheck, ContinueAdopt, ResetContext, Spawn
<1>6. ASSUME WorkerTake \/ UNCHANGED vars, NEW d \in Contexts PROVE P(d)'
  BY <1>0, <1>a, <1>6 DEF WorkerTake, vars, ListOf
<1>7. \A c \in Contexts : P(c)'
  BY <1>b, <1>1, <1>2, <1>3, <1>4, <1>5, <1>6 DEF Next, Terminated
<1> QED BY <1>7 DEF LockInv

\* The steps that leave the lists alone, and what the contexts hold of them.
ListQuiet ==
    /\ UNCHANGED <<gen, queue, at, delivered>>
    /\ \A d \in Contexts : pc'[d] \in Submitting \cup {"end"} =>
          pc'[d] = pc[d] /\ ref'[d] = ref[d] /\ local'[d] = local[d]

LEMMA ListQuietSteps ==
  ASSUME IInv, [Next]_vars
  PROVE  \/ ListQuiet \/ WorkerTake
         \/ \E c \in Contexts : \/ Begin(c) \/ EndLoad(c) \/ EndAppend(c) \/ EndSwap(c)
                                \/ EndSubmit(c) \/ LogAppend(c) \/ LogOrphan(c) \/ SweepSwap(c)
                                \/ SweepSubmit(c)
<1> USE DEF ctxVars, localVars, spanVars, eventVars, outVars, At, Goto, Submitting
<1>0. /\ pc \in [Contexts -> PCs] /\ local \in [Contexts -> Spans \cup {None}]
      /\ ref \in [Contexts -> Lists \cup {None}]
  BY DEF IInv, TypeInv, TypeOK
<1>1. ASSUME NEW c \in Contexts, Begin(c) \/ End(c) \/ Log(c) \/ Sweep(c) \/ Context(c),
             UNCHANGED <<gen, queue, at, delivered>>,
             pc'[c] \notin Submitting \cup {"end"}
      PROVE  ListQuiet
  <2>1. OthersStill(c) BY <1>1, OthersStillStep
  <2> QED BY <1>1, <2>1 DEF OthersStill, ListQuiet
<1>2. ASSUME NEW c \in Contexts, EndClose(c) \/ EndWorker(c) \/ EndDetach(c) \/ EndRelease(c)
      PROVE  UNCHANGED <<gen, queue, at, delivered>> /\ pc'[c] \notin Submitting \cup {"end"}
  BY <1>0, <1>2 DEF CloseUnchanged, EndClose, EndWorker, EndDetach, EndRelease
<1>3. ASSUME NEW c \in Contexts, LogRead(c) \/ LogBuild(c)
      PROVE  UNCHANGED <<gen, queue, at, delivered>> /\ pc'[c] \notin Submitting \cup {"end"}
  BY <1>0, <1>3 DEF LogUnchanged, LogRead, LogBuild
<1>4. ASSUME NEW c \in Contexts, SweepBegin(c) \/ SweepSpan(c) \/ SweepLoad(c) \/ SweepEnd(c)
      PROVE  UNCHANGED <<gen, queue, at, delivered>> /\ pc'[c] \notin Submitting \cup {"end"}
  BY <1>0, <1>4 DEF SweepUnchanged, SweepBegin, SweepSpan, SweepLoad, SweepEnd
<1>5. ASSUME NEW c \in Contexts, Context(c)
      PROVE  UNCHANGED <<gen, queue, at, delivered>> /\ pc'[c] \notin Submitting \cup {"end"}
  BY <1>0, <1>5 DEF Context, SetBaggage, ContinueCheck, ContinueAdopt, ResetContext, Spawn
<1>6. UNCHANGED vars => ListQuiet BY DEF vars, ListQuiet
<1> QED
  BY <1>1, <1>2, <1>3, <1>4, <1>5, <1>6 DEF Next, Terminated, End, Log, Sweep

\* A detach: the list that was loaded is left to the context, and the span has a new one.
Detaches(c) ==
    /\ pc[c] \in {"swap", "sweepSwap"} /\ pc'[c] \in Submitting
    /\ local[c] \in Spans /\ ref[c] = ListOf(local[c]) /\ ref'[c] = ref[c] /\ local'[c] = local[c]
    /\ gen' = [gen EXCEPT ![local[c]] = @ + 1]
    /\ UNCHANGED <<queue, at, delivered>>

LEMMA SwapDetaches ==
  ASSUME IInv, NEW c \in Contexts, EndSwap(c) \/ SweepSwap(c)
  PROVE  Detaches(c)
<1>0. TypeInv /\ PcInv /\ LockInv BY DEF IInv
<1>1. /\ pc[c] \in {"swap", "sweepSwap"} /\ pc'[c] \in Submitting
      /\ UNCHANGED <<queue, at, delivered, ref, local>> /\ gen' = [gen EXCEPT ![local[c]] = @ + 1]
  BY <1>0 DEF EndSwap, SweepSwap, CloseUnchanged, SweepUnchanged, At, Goto, Submitting, eventVars,
             outVars, TypeInv, TypeOK
<1>2. local[c] \in Spans
  <2>1. CASE pc[c] = "swap" BY <1>0, <2>1 DEF PcInv, Ending
  <2>2. CASE pc[c] = "sweepSwap"
    <3>1. idx[c] \in DOMAIN stack[c] /\ local[c] = stack[c][idx[c]]
      BY <1>0, <2>2 DEF PcInv, SweepingOf
    <3> QED BY <1>0, <3>1, Typed
  <2> QED BY <1>1, <2>1, <2>2
<1> QED BY <1>0, <1>1, <1>2 DEF Detaches, LockInv

\* A submission: the list that was detached is the last of the queue.
Submits(c) ==
    /\ pc[c] \in Submitting /\ pc'[c] \notin Submitting \cup {"end"}
    /\ queue' = Append(queue, ref[c])
    /\ UNCHANGED <<gen, at, delivered>>

LEMMA SubmitSubmits ==
  ASSUME IInv, NEW c \in Contexts, EndSubmit(c) \/ SweepSubmit(c)
  PROVE  Submits(c)
  BY DEF EndSubmit, SweepSubmit, CloseUnchanged, SweepUnchanged, At, Goto, Submitting, eventVars,
         IInv, TypeInv, TypeOK, Submits

\* Which contexts hold a list, and which one: no context takes one up.
HandsQuiet ==
    \A d \in Contexts : pc'[d] \in Submitting \cup {"end"} =>
        pc'[d] = pc[d] /\ ref'[d] = ref[d] /\ local'[d] = local[d]

LEMMA HandsQuietSteps ==
  ASSUME IInv
  PROVE  /\ ListQuiet \/ WorkerTake => HandsQuiet
         /\ \A c \in Contexts : \/ Begin(c) \/ EndAppend(c) \/ EndSubmit(c) \/ LogAppend(c)
                                \/ LogOrphan(c) \/ SweepSubmit(c)
                                => HandsQuiet
<1>0. pc \in [Contexts -> PCs] BY DEF IInv, TypeInv, TypeOK
<1>1. ListQuiet \/ WorkerTake => HandsQuiet BY DEF ListQuiet, WorkerTake, HandsQuiet, localVars
<1>2. ASSUME NEW c \in Contexts,
             Begin(c) \/ EndAppend(c) \/ EndSubmit(c) \/ LogAppend(c) \/ LogOrphan(c) \/ SweepSubmit(c)
      PROVE  HandsQuiet
  <2>1. OthersStill(c) BY <1>2, OthersStillStep DEF End, Log, Sweep
  <2>2. CASE Begin(c) BY <2>2 DEF Begin, HandsQuiet, localVars
  <2>3. CASE ~Begin(c)
    <3>1. pc'[c] \notin Submitting \cup {"end"}
      BY <1>0, <1>2, <2>3 DEF EndAppend, EndSubmit, LogAppend, LogOrphan, SweepSubmit, Goto, Submitting
    <3> QED BY <2>1, <3>1 DEF OthersStill, HandsQuiet
  <2> QED BY <2>2, <2>3
<1> QED BY <1>1, <1>2

\* Lists are detached one after the other, never the same one twice.
LEMMA ListStep == IInv /\ [Next]_vars => ListInv'
<1> SUFFICES ASSUME IInv, [Next]_vars PROVE ListInv' OBVIOUS
<1>0. TypeInv /\ ListInv BY DEF IInv
<1>1. /\ gen \in [Spans -> Nat] /\ queue \in Seq(Lists) /\ at \in [Events -> Lists \cup {None}]
      /\ ref \in [Contexts -> Lists \cup {None}]
      /\ \A s \in Spans : gen[s] \in Nat /\ gen[s] >= 1
      /\ \A ls \in Lists : ls[1] \in Spans /\ ls[2] \in Nat
  BY <1>0 DEF TypeInv, TypeOK, ListInv, Lists
<1>2. ASSUME HandsQuiet, UNCHANGED <<gen, queue>>,
             \A e \in Events : at'[e] # at[e] =>
                 at'[e] \in Lists /\ 1 <= at'[e][2] /\ at'[e][2] <= gen[at'[e][1]]
      PROVE  ListInv'
  <2>1. \A e \in Events : at'[e] # None => 1 <= at'[e][2] /\ at'[e][2] <= gen'[at'[e][1]]
    BY <1>0, <1>2 DEF ListInv
  <2>2. \A d \in Contexts : pc'[d] = "end" =>
          ref'[d] \in Lists /\ ref'[d][1] = local'[d] /\ 1 <= ref'[d][2] /\ ref'[d][2] <= gen'[local'[d]]
    BY <1>0, <1>2 DEF ListInv, HandsQuiet
  <2>3. ASSUME NEW d \in Contexts, pc'[d] \in Submitting
        PROVE  /\ ref'[d] \in Lists /\ ref'[d][2] < gen'[ref'[d][1]]
               /\ \A i \in DOMAIN queue' : queue'[i] # ref'[d]
               /\ \A b \in Contexts : pc'[b] \in Submitting /\ ref'[b] = ref'[d] => b = d
    BY <1>0, <1>2, <2>3 DEF ListInv, HandsQuiet
  <2> QED BY <1>0, <1>2, <2>1, <2>2, <2>3 DEF ListInv
<1>3. CASE ListQuiet BY <1>2, <1>3, HandsQuietSteps DEF ListQuiet
<1>4. ASSUME NEW c \in Contexts, Begin(c) PROVE ListInv'
  <2>1. PICK f \in Frame, s \in Spans \ opened : Opens(c, f, s) BY <1>4, BeginForm
  <2>2. \A e \in Events : at'[e] # at[e] => at'[e] = ListOf(s)
    BY <1>1, <2>1 DEF Opens, OpenSpan
  <2>3. ListOf(s) \in Lists /\ 1 <= ListOf(s)[2] /\ ListOf(s)[2] <= gen[ListOf(s)[1]]
    BY <1>0, <1>1, ListOfType
  <2> QED BY <1>2, <1>4, <2>1, <2>2, <2>3, HandsQuietSteps DEF Opens
<1>5. ASSUME NEW c \in Contexts, EndAppend(c) PROVE ListInv'
  <2>1. at' = [at EXCEPT ![EndOf(local[c])] = ref[c]] /\ UNCHANGED <<gen, queue>> /\ pc[c] = "end"
    BY <1>5 DEF EndAppend, At, outVars
  <2>2. ref[c] \in Lists /\ 1 <= ref[c][2] /\ ref[c][2] <= gen[ref[c][1]]
    BY <1>0, <2>1 DEF ListInv
  <2>3. \A e \in Events : at'[e] # at[e] => at'[e] = ref[c] BY <1>1, <2>1
  <2> QED BY <1>2, <1>5, <2>1, <2>2, <2>3, HandsQuietSteps
<1>6. ASSUME NEW c \in Contexts, LogAppend(c) PROVE ListInv'
  <2>1. /\ at' = [at EXCEPT ![LogOf(item[c])] = ListOf(local[c])] /\ UNCHANGED <<gen, queue>>
        /\ pc[c] = "append"
    BY <1>6 DEF LogAppend, At, LogUnchanged, spanVars, outVars
  <2>2. local[c] \in Spans BY <1>0, <2>1, CurrentSpanType DEF IInv, PcInv, Levelling
  <2>3. /\ ListOf(local[c]) \in Lists /\ 1 <= ListOf(local[c])[2]
        /\ ListOf(local[c])[2] <= gen[ListOf(local[c])[1]]
    BY <1>0, <1>1, <2>2, ListOfType
  <2>4. \A e \in Events : at'[e] # at[e] => at'[e] = ListOf(local[c]) BY <1>1, <2>1
  <2> QED BY <1>2, <1>6, <2>1, <2>3, <2>4, HandsQuietSteps
<1>7. ASSUME NEW c \in Contexts, LogOrphan(c) PROVE ListInv'
  BY <1>2, <1>7, HandsQuietSteps DEF LogOrphan, LogUnchanged, spanVars, eventVars
<1>8. ASSUME NEW c \in Contexts, EndLoad(c) PROVE ListInv'
  <2>1. /\ UNCHANGED <<gen, queue, at>> /\ OthersStill(c)
    BY <1>8, OthersStillStep DEF EndLoad, eventVars, outVars, End
  <2>2. frames[c] # <<>> /\ Top(c).span \in Spans \cup {None} BY <1>0, <1>8, TopType DEF EndLoad
  <2>3. pc'[c] = "end" => /\ local'[c] = Top(c).span /\ ref'[c] = ListOf(Top(c).span)
                          /\ Top(c).span \in Spans
    BY <1>0, <1>1, <1>8, <2>2 DEF EndLoad, Goto, TypeInv, TypeOK
  <2>4. pc'[c] \notin Submitting BY <1>0, <1>8 DEF EndLoad, Goto, TypeInv, TypeOK, Submitting
  <2>5. pc'[c] = "end" => /\ ref'[c] \in Lists /\ ref'[c][1] = local'[c]
                          /\ 1 <= ref'[c][2] /\ ref'[c][2] <= gen[local'[c]]
    BY <1>0, <1>1, <2>3, ListOfType
  <2>6. ASSUME NEW d \in Contexts, pc'[d] = "end"
        PROVE  /\ ref'[d] \in Lists /\ ref'[d][1] = local'[d]
               /\ 1 <= ref'[d][2] /\ ref'[d][2] <= gen'[local'[d]]
    BY <1>0, <2>1, <2>5, <2>6 DEF OthersStill, ListInv
  <2>7. ASSUME NEW d \in Contexts, pc'[d] \in Submitting
        PROVE  /\ ref'[d] \in Lists /\ ref'[d][2] < gen'[ref'[d][1]]
               /\ \A i \in DOMAIN queue' : queue'[i] # ref'[d]
               /\ \A b \in Contexts : pc'[b] \in Submitting /\ ref'[b] = ref'[d] => b = d
    <3>1. \A b \in Contexts : pc'[b] \in Submitting => pc[b] \in Submitting /\ ref'[b] = ref[b]
      BY <2>1, <2>4 DEF OthersStill
    <3> QED BY <1>0, <2>1, <2>7, <3>1 DEF ListInv
  <2> QED BY <1>0, <2>1, <2>6, <2>7 DEF ListInv
<1>9. ASSUME NEW c \in Contexts, Detaches(c), OthersStill(c) PROVE ListInv'
  <2> DEFINE s == local[c]
  <2>1. s \in Spans /\ ref[c] = <<s, gen[s]>> /\ ref[c] \in Lists /\ ref'[c] = ref[c]
    BY <1>0, <1>9, ListOfType DEF Detaches, ListOf
  <2>2. gen'[s] = gen[s] + 1 /\ \A t \in Spans : t # s => gen'[t] = gen[t]
    BY <1>1, <1>9, <2>1 DEF Detaches
  <2>3. \A t \in Spans : gen'[t] >= gen[t] /\ gen'[t] \in Nat /\ gen'[t] >= 1 BY <1>1, <2>1, <2>2
  <2>4. UNCHANGED <<queue, at>> BY <1>9 DEF Detaches
  <2>5. ASSUME NEW e \in Events, at[e] # None
        PROVE  1 <= at[e][2] /\ at[e][2] <= gen'[at[e][1]]
    <3>1. at[e] \in Lists /\ 1 <= at[e][2] /\ at[e][2] <= gen[at[e][1]]
      BY <1>0, <1>1, <2>5 DEF ListInv
    <3> QED BY <1>1, <2>3, <3>1
  <2>6. ASSUME NEW i \in DOMAIN queue
        PROVE  queue[i] # ref[c] /\ queue[i][2] < gen'[queue[i][1]]
    <3>1. queue[i] \in Lists /\ queue[i][2] < gen[queue[i][1]] BY <1>0, <1>1 DEF ListInv
    <3> QED BY <1>1, <2>1, <2>3, <3>1
  <2>7. ASSUME NEW d \in Contexts, pc'[d] = "end"
        PROVE  /\ ref'[d] \in Lists /\ ref'[d][1] = local'[d]
               /\ 1 <= ref'[d][2] /\ ref'[d][2] <= gen'[local'[d]]
    <3>1. d # c BY <1>9, <2>7 DEF Detaches, Submitting
    <3>2. ref'[d] = ref[d] /\ local'[d] = local[d] /\ pc[d] = "end"
      BY <1>9, <2>7, <3>1 DEF OthersStill
    <3>3. ref[d] \in Lists /\ ref[d][1] = local[d] /\ 1 <= ref[d][2] /\ ref[d][2] <= gen[local[d]]
      BY <1>0, <3>2 DEF ListInv
    <3> QED BY <1>1, <2>3, <3>2, <3>3
  <2>8. ASSUME NEW d \in Contexts, pc'[d] \in Submitting, d # c
        PROVE  /\ pc[d] \in Submitting /\ ref'[d] = ref[d] /\ ref[d] \in Lists
               /\ ref[d][2] < gen'[ref[d][1]] /\ ref[d] # ref[c]
    <3>1. ref'[d] = ref[d] /\ pc[d] \in Submitting BY <1>9, <2>8 DEF OthersStill
    <3>2. ref[d] \in Lists /\ ref[d][2] < gen[ref[d][1]] BY <1>0, <3>1 DEF ListInv
    <3> QED BY <1>1, <2>1, <2>3, <3>1, <3>2
  <2>9. ref[c][2] < gen'[ref[c][1]] BY <1>1, <2>1, <2>2
  <2> HIDE DEF s
  <2>10. ASSUME NEW d \in Contexts, pc'[d] \in Submitting
         PROVE  /\ ref'[d] \in Lists /\ ref'[d][2] < gen'[ref'[d][1]]
                /\ \A i \in DOMAIN queue' : queue'[i] # ref'[d]
                /\ \A b \in Contexts : pc'[b] \in Submitting /\ ref'[b] = ref'[d] => b = d
    <3>1. CASE d = c BY <2>1, <2>4, <2>6, <2>8, <2>9, <3>1
    <3>2. CASE d # c
      <4>1. \A i \in DOMAIN queue : queue[i] # ref[d] BY <1>0, <2>8, <2>10, <3>2 DEF ListInv
      <4>2. ASSUME NEW b \in Contexts, pc'[b] \in Submitting, ref'[b] = ref'[d] PROVE b = d
        BY <1>0, <2>1, <2>8, <2>10, <3>2, <4>2 DEF ListInv
      <4> QED BY <2>4, <2>8, <2>10, <3>2, <4>1, <4>2
    <3> QED BY <3>1, <3>2
  <2>11. /\ \A i \in DOMAIN queue' : queue'[i][2] < gen'[queue'[i][1]]
         /\ \A i, j \in DOMAIN queue' : queue'[i] = queue'[j] => i = j
    BY <1>0, <2>4, <2>6 DEF ListInv
  <2>12. \A e \in Events : at'[e] # None => 1 <= at'[e][2] /\ at'[e][2] <= gen'[at'[e][1]]
    BY <2>4, <2>5
  <2>13. \A t \in Spans : gen'[t] >= 1 BY <2>3
  <2> QED BY <2>7, <2>10, <2>11, <2>12, <2>13 DEF ListInv
<1>10. ASSUME NEW c \in Contexts, Submits(c), OthersStill(c), HandsQuiet PROVE ListInv'
  <2>1. /\ queue' = Append(queue, ref[c]) /\ UNCHANGED <<gen, at>> /\ pc'[c] \notin Submitting
        /\ ref[c] \in Lists /\ ref[c][2] < gen[ref[c][1]]
        /\ \A i \in DOMAIN queue : queue[i] # ref[c]
        /\ \A d \in Contexts : pc[d] \in Submitting /\ ref[d] = ref[c] => d = c
    BY <1>0, <1>10 DEF Submits, ListInv
  <2>2. /\ DOMAIN queue = 1 .. Len(queue) /\ DOMAIN queue' = 1 .. Len(queue) + 1 /\ Len(queue) \in Nat
        /\ \A i \in DOMAIN queue : queue'[i] = queue[i]
        /\ queue'[Len(queue) + 1] = ref[c]
    BY <1>1, <2>1
  <2>3. \A i \in DOMAIN queue' : i \in DOMAIN queue \/ i = Len(queue) + 1 BY <2>2
  <2>4. \A i \in DOMAIN queue' : queue'[i][2] < gen'[queue'[i][1]]
    BY <1>0, <2>1, <2>2, <2>3 DEF ListInv
  <2>5. \A i, j \in DOMAIN queue' : queue'[i] = queue'[j] => i = j
    BY <1>0, <2>1, <2>2, <2>3 DEF ListInv
  <2>6. ASSUME NEW d \in Contexts, pc'[d] = "end"
        PROVE  /\ ref'[d] \in Lists /\ ref'[d][1] = local'[d]
               /\ 1 <= ref'[d][2] /\ ref'[d][2] <= gen'[local'[d]]
    BY <1>0, <1>10, <2>1, <2>6 DEF ListInv, HandsQuiet
  <2>7. ASSUME NEW d \in Contexts, pc'[d] \in Submitting
        PROVE  /\ ref'[d] \in Lists /\ ref'[d][2] < gen'[ref'[d][1]]
               /\ \A i \in DOMAIN queue' : queue'[i] # ref'[d]
               /\ \A b \in Contexts : pc'[b] \in Submitting /\ ref'[b] = ref'[d] => b = d
    <3>1. \A b \in Contexts : pc'[b] \in Submitting => b # c /\ pc[b] \in Submitting /\ ref'[b] = ref[b]
      BY <1>10, <2>1 DEF HandsQuiet
    <3>2. /\ ref[d] \in Lists /\ ref[d][2] < gen[ref[d][1]]
          /\ \A i \in DOMAIN queue : queue[i] # ref[d]
          /\ \A b \in Contexts : pc[b] \in Submitting /\ ref[b] = ref[d] => b = d
      BY <1>0, <2>7, <3>1 DEF ListInv
    <3>3. ref[d] # ref[c] BY <2>1, <2>7, <3>1
    <3> QED BY <2>1, <2>2, <2>3, <2>7, <3>1, <3>2, <3>3
  <2> QED BY <1>0, <2>1, <2>4, <2>5, <2>6, <2>7 DEF ListInv
<1>11. CASE WorkerTake
  <2>1. queue # <<>> /\ queue' = Tail(queue) /\ UNCHANGED <<gen, at>> /\ HandsQuiet
    BY <1>11, HandsQuietSteps DEF WorkerTake, spanVars, eventVars
  <2>2. \A i \in DOMAIN queue' : i + 1 \in DOMAIN queue /\ queue'[i] = queue[i + 1] /\ i \in Nat
    BY <1>1, <2>1
  <2>3. \A i \in DOMAIN queue' : queue'[i][2] < gen'[queue'[i][1]] BY <1>0, <2>1, <2>2 DEF ListInv
  <2>4. ASSUME NEW i \in DOMAIN queue', NEW j \in DOMAIN queue', queue'[i] = queue'[j] PROVE i = j
    <3>1. i + 1 = j + 1 BY <1>0, <2>2, <2>4 DEF ListInv
    <3> QED BY <2>2, <3>1
  <2>5. ASSUME NEW d \in Contexts, pc'[d] = "end"
        PROVE  /\ ref'[d] \in Lists /\ ref'[d][1] = local'[d]
               /\ 1 <= ref'[d][2] /\ ref'[d][2] <= gen'[local'[d]]
    BY <1>0, <2>1, <2>5 DEF ListInv, HandsQuiet
  <2>6. ASSUME NEW d \in Contexts, pc'[d] \in Submitting
        PROVE  /\ ref'[d] \in Lists /\ ref'[d][2] < gen'[ref'[d][1]]
               /\ \A i \in DOMAIN queue' : queue'[i] # ref'[d]
               /\ \A b \in Contexts : pc'[b] \in Submitting /\ ref'[b] = ref'[d] => b = d
    <3>1. \A b \in Contexts : pc'[b] \in Submitting => pc[b] \in Submitting /\ ref'[b] = ref[b]
      BY <2>1 DEF HandsQuiet
    <3> QED BY <1>0, <2>1, <2>2, <2>6, <3>1 DEF ListInv
  <2> QED BY <1>0, <2>1, <2>3, <2>4, <2>5, <2>6 DEF ListInv
<1>12. ASSUME NEW c \in Contexts, EndSwap(c) \/ SweepSwap(c) PROVE ListInv'
  BY <1>9, <1>12, SwapDetaches, OthersStillStep DEF End, Sweep
<1>13. ASSUME NEW c \in Contexts, EndSubmit(c) \/ SweepSubmit(c) PROVE ListInv'
  BY <1>10, <1>13, SubmitSubmits, OthersStillStep, HandsQuietSteps DEF End, Sweep
<1> QED
  BY <1>3, <1>4, <1>5, <1>6, <1>7, <1>8, <1>11, <1>12, <1>13, ListQuietSteps

----------------------------------------------------------------------------
(* What a close does                                                       *)

\* Only the close of a span sets its flag and gives its list up.
LEMMA CloseMoves ==
  ASSUME IInv, NEW c \in Contexts, Begin(c) \/ End(c) \/ Log(c) \/ Sweep(c) \/ Context(c)
  PROVE  /\ \/ UNCHANGED sealed
            \/ pc[c] \in {"worker", "swap"} /\ sealed' = sealed \cup {local[c]}
               /\ (EndWorker(c) \/ EndSwap(c))
         /\ UNCHANGED <<closed, overtaken>> \/ EndClose(c)
         /\ UNCHANGED opened \/ Begin(c)
         /\ UNCHANGED frames \/ Begin(c) \/ EndRelease(c)
<1> USE DEF ctxVars, spanVars, sealVars, At
<1>1. CASE Begin(c) BY <1>1 DEF Begin
<1>2. CASE End(c)
  BY <1>2 DEF End, CloseUnchanged, EndLoad, EndAppend, EndClose, EndWorker, EndDetach, EndSwap,
              EndSubmit, EndRelease
<1>3. CASE Log(c) BY <1>3 DEF Log, LogUnchanged, LogRead, LogBuild, LogAppend, LogOrphan
<1>4. CASE Sweep(c)
  BY <1>4 DEF Sweep, SweepUnchanged, SweepBegin, SweepSpan, SweepLoad, SweepSwap, SweepSubmit, SweepEnd
<1>5. CASE Context(c)
  BY <1>5 DEF Context, SetBaggage, ContinueCheck, ContinueAdopt, ResetContext, Spawn
<1> QED BY <1>1, <1>2, <1>3, <1>4, <1>5

\* A close that has detached its list submits it and releases its scope, and nothing else.
LEMMA ReleaseNext ==
  ASSUME NEW c \in Contexts, Begin(c) \/ End(c) \/ Log(c) \/ Sweep(c) \/ Context(c),
         pc[c] \in {"submit", "release"}
  PROVE  EndSubmit(c) \/ EndRelease(c)
<1> USE DEF At
<1>1. ~Begin(c) BY DEF Begin
<1>2. ~Log(c) BY DEF Log, LogRead, LogBuild, LogAppend, LogOrphan
<1>3. ~Sweep(c)
  BY DEF Sweep, SweepBegin, SweepSpan, SweepLoad, SweepSwap, SweepSubmit, SweepEnd
<1>4. ~Context(c) BY DEF Context, SetBaggage, ContinueCheck, ContinueAdopt, ResetContext, Spawn
<1>5. End(c) => EndSubmit(c) \/ EndRelease(c)
  BY DEF End, EndLoad, EndAppend, EndClose, EndWorker, EndDetach, EndSwap
<1> QED BY <1>1, <1>2, <1>3, <1>4, <1>5

LEMMA CloseStep == IInv /\ [Next]_vars => CloseInv'
<1> SUFFICES ASSUME IInv, [Next]_vars PROVE CloseInv' OBVIOUS
<1> DEFINE Past == {"worker", "detach", "swap", "submit"}
           P(c) == /\ pc[c] \in Past => closed[local[c]]
                   /\ pc[c] = "submit" => local[c] \in sealed
                   /\ pc[c] \in Levelling /\ closed[local[c]] => LogOf(item[c]) \in overtaken
           Q(c) == \A i \in DOMAIN frames[c] : frames[c][i].span \in sealed =>
                       i = Len(frames[c]) /\ pc[c] \in {"submit", "release"}
           D(s) == \E c \in Contexts : \E i \in DOMAIN frames[c] : frames[c][i].span = s
<1> USE DEF At, Goto, Levelling, Ending
<1>0. TypeInv /\ PcInv /\ CloseInv /\ FrameInv BY DEF IInv
<1>1. /\ pc \in [Contexts -> PCs] /\ local \in [Contexts -> Spans \cup {None}]
      /\ item \in [Contexts -> Logs \cup Inbound \cup {None}]
      /\ closed \in [Spans -> BOOLEAN] /\ sealed \subseteq Spans /\ None \notin sealed
      /\ sealed \subseteq opened
      /\ \A c \in Contexts : P(c) /\ Q(c)
      /\ \A s \in sealed : closed[s]
      /\ \A s \in opened \ sealed : D(s)
  BY <1>0, SpansAssumption DEF TypeInv, TypeOK, CloseInv
<1>2. ASSUME NEW c \in Contexts, Begin(c) \/ End(c) \/ Log(c) \/ Sweep(c) \/ Context(c)
      PROVE  CloseInv'
  <2>0. OthersStill(c) BY <1>2, OthersStillStep
  <2>1. \A s \in Spans : closed[s] => closed'[s]
    BY <1>1, <1>2, CloseMoves DEF EndClose
  <2>2. pc[c] \in Ending => /\ local[c] \in opened /\ local[c] \in Spans
                            /\ Len(frames[c]) \in DOMAIN frames[c]
                            /\ frames[c][Len(frames[c])].span = local[c] /\ local[c] # None
    BY EndingSpan
  <2>3. \A s \in sealed' : closed'[s]
    <3>1. pc[c] \in {"worker", "swap"} => closed[local[c]] BY <1>1
    <3> QED BY <1>1, <1>2, <2>1, <2>2, <3>1, CloseMoves
  <2>4. sealed \subseteq sealed' /\ overtaken \subseteq overtaken'
    BY <1>2, CloseMoves DEF EndClose
  <2>5. ASSUME NEW d \in Contexts, d # c PROVE P(d)'
    <3>1. pc'[d] = pc[d] /\ local'[d] = local[d] /\ item'[d] = item[d] BY <2>0, <2>5 DEF OthersStill
    <3>2. pc[d] \in Past => local[d] \in Spans BY <1>0 DEF PcInv
    <3>3. ASSUME pc[d] \in Levelling, closed'[local[d]] PROVE LogOf(item[d]) \in overtaken'
      <4>1. CASE UNCHANGED <<closed, overtaken>> BY <1>1, <3>3, <4>1
      <4>2. CASE EndClose(c)
        <5>1. local[d] = local[c] => d \in Appending(local[c]) BY <3>3 DEF Appending
        <5>2. local[d] # local[c] => closed'[local[d]] = closed[local[d]]
          <6>1. local[d] \in Spans BY <1>0, <3>3, CurrentSpanType DEF PcInv
          <6> QED BY <1>1, <4>2, <6>1 DEF EndClose
        <5> QED BY <1>1, <2>4, <3>3, <4>2, <5>1, <5>2 DEF EndClose
      <4> QED BY <1>2, <4>1, <4>2, CloseMoves
    <3> QED BY <1>1, <2>1, <2>4, <3>1, <3>2, <3>3
  <2>6. ASSUME NEW d \in Contexts, d # c PROVE Q(d)'
    <3>1. pc'[d] = pc[d] /\ frames'[d] = frames[d] BY <2>0, <2>6 DEF OthersStill
    <3>2. ASSUME NEW i \in DOMAIN frames[d], frames[d][i].span \in sealed'
          PROVE  frames[d][i].span \in sealed
      <4>1. CASE UNCHANGED sealed BY <3>2, <4>1
      <4>2. CASE pc[c] \in {"worker", "swap"} /\ sealed' = sealed \cup {local[c]}
        <5>1. frames[d][i].span # local[c] BY <1>0, <2>2, <2>6, <4>2 DEF FrameInv
        <5> QED BY <3>2, <4>2, <5>1
      <4> QED BY <1>2, <4>1, <4>2, CloseMoves
    <3> QED BY <1>1, <3>1, <3>2
  <2>7. P(c)'
    <3>1. CASE Begin(c) BY <1>1, <3>1 DEF Begin
    <3>2. CASE End(c)
      <4>1. CASE EndLoad(c) BY <1>1, <4>1 DEF EndLoad
      <4>2. CASE EndAppend(c) BY <1>1, <4>2 DEF EndAppend
      <4>3. CASE EndClose(c) BY <1>1, <2>2, <4>3 DEF EndClose
      <4>4. CASE EndWorker(c) BY <1>1, <4>4 DEF EndWorker
      <4>5. CASE EndDetach(c) BY <1>1, <4>5 DEF EndDetach
      <4>6. CASE EndSwap(c) BY <1>1, <4>6 DEF EndSwap
      <4>7. CASE EndSubmit(c) BY <1>1, <4>7 DEF EndSubmit
      <4>8. CASE EndRelease(c) BY <1>1, <4>8 DEF EndRelease
      <4> QED BY <3>2, <4>1, <4>2, <4>3, <4>4, <4>5, <4>6, <4>7, <4>8 DEF End
    <3>3. CASE Log(c)
      <4>1. CASE LogRead(c)
        <5>1. UNCHANGED closed BY <4>1 DEF LogRead, LogUnchanged, spanVars
        <5> QED BY <1>1, <4>1, <5>1 DEF LogRead, Joinable
      <4>2. CASE LogBuild(c) BY <1>1, <2>4, <4>2 DEF LogBuild, LogUnchanged, spanVars, localVars
      <4>3. CASE LogAppend(c) \/ LogOrphan(c) BY <1>1, <4>3 DEF LogAppend, LogOrphan
      <4> QED BY <3>3, <4>1, <4>2, <4>3 DEF Log
    <3>4. CASE Sweep(c)
      BY <1>1, <3>4 DEF Sweep, SweepBegin, SweepSpan, SweepLoad, SweepSwap, SweepSubmit, SweepEnd
    <3>5. CASE Context(c)
      BY <1>1, <3>5 DEF Context, SetBaggage, ContinueCheck, ContinueAdopt, ResetContext, Spawn
    <3> QED BY <1>2, <3>1, <3>2, <3>3, <3>4, <3>5
  <2>8. Q(c)' /\ \A s \in opened' \ sealed' : D(s)'
    <3>1. CASE Begin(c)
      <4>1. PICK f \in Frame, s \in Spans \ opened : Opens(c, f, s) BY <3>1, BeginForm
      <4>2. /\ DOMAIN frames[c] = 1 .. Len(frames[c]) /\ Len(frames[c]) \in Nat
            /\ DOMAIN frames'[c] = 1 .. Len(frames[c]) + 1
            /\ \A i \in DOMAIN frames[c] : frames'[c][i] = frames[c][i]
            /\ frames'[c][Len(frames[c]) + 1] = f
            /\ \A d \in Contexts : d # c => frames'[d] = frames[d]
        BY <1>0, <4>1, FramesGrow DEF Opens
      <4>3. pc[c] = "run" /\ UNCHANGED sealed BY <3>1 DEF Begin, sealVars
      <4>4. f.span \notin sealed BY <1>1, <4>1 DEF Opens
      <4>5. \A i \in DOMAIN frames'[c] : frames'[c][i].span \notin sealed
        BY <1>1, <4>2, <4>3, <4>4
      <4>6. ASSUME NEW t \in opened' \ sealed' PROVE D(t)'
        <5>1. CASE t \in opened
          <6>1. PICK d \in Contexts : \E i \in DOMAIN frames[d] : frames[d][i].span = t
            BY <1>1, <4>3, <5>1
          <6>2. PICK i \in DOMAIN frames[d] : frames[d][i].span = t BY <6>1
          <6>3. i \in DOMAIN frames'[d] /\ frames'[d][i] = frames[d][i] BY <4>2
          <6> QED BY <6>2, <6>3
        <5>2. CASE t \notin opened
          <6>1. t = s /\ f.span = s BY <4>1, <5>2 DEF Opens, OpenSpan
          <6>2. Len(frames[c]) + 1 \in DOMAIN frames'[c] BY <4>2
          <6> QED BY <4>2, <6>1, <6>2
        <5> QED BY <5>1, <5>2
      <4> QED BY <4>3, <4>5, <4>6
    <3>2. CASE EndRelease(c)
      <4>1. /\ frames[c] # <<>> /\ frames' = [frames EXCEPT ![c] = SubSeq(@, 1, Len(@) - 1)]
            /\ UNCHANGED <<opened, sealed>> /\ Top(c).span \in sealed \cup {None}
        BY <1>0, <3>2 DEF PcInv, EndRelease, spanVars, sealVars
      <4>2. /\ \A i \in DOMAIN frames[c] : i \in Nat /\ i <= Len(frames[c])
            /\ \A i : i \in DOMAIN frames'[c] <=> i \in DOMAIN frames[c] /\ i < Len(frames[c])
            /\ \A i \in DOMAIN frames'[c] : frames'[c][i] = frames[c][i]
            /\ \A d \in Contexts : d # c => frames'[d] = frames[d]
            /\ Len(frames[c]) \in Nat
        BY <1>0, <4>1, FramesShrink
      <4>3. \A i \in DOMAIN frames'[c] : frames'[c][i].span \notin sealed BY <1>1, <4>2
      <4>4. ASSUME NEW t \in opened \ sealed PROVE D(t)'
        <5>1. PICK d \in Contexts : \E i \in DOMAIN frames[d] : frames[d][i].span = t BY <1>1
        <5>2. PICK i \in DOMAIN frames[d] : frames[d][i].span = t BY <5>1
        <5>3. t # None BY <1>0, SpansAssumption DEF TypeInv, TypeOK
        <5>4. d = c => i # Len(frames[c]) BY <4>1, <5>2, <5>3 DEF Top
        <5>5. i \in DOMAIN frames'[d] /\ frames'[d][i] = frames[d][i] BY <4>2, <5>4
        <5> QED BY <5>2, <5>5
      <4> QED BY <4>1, <4>3, <4>4
    <3>3. CASE UNCHANGED frames /\ UNCHANGED opened /\ ~EndRelease(c)
      <4>1. \A s \in opened' \ sealed' : D(s)' BY <1>1, <2>4, <3>3
      <4>2. CASE UNCHANGED sealed
        <5>1. pc[c] \in {"submit", "release"} => pc'[c] \in {"submit", "release"}
          <6> SUFFICES ASSUME pc[c] \in {"submit", "release"}
                       PROVE  pc'[c] \in {"submit", "release"}
            OBVIOUS
          <6>1. EndSubmit(c) BY <1>2, <3>3, ReleaseNext
          <6> QED BY <1>1, <6>1 DEF EndSubmit
        <5> QED BY <1>1, <3>3, <4>1, <4>2, <5>1
      <4>3. CASE /\ pc[c] \in {"worker", "swap"} /\ sealed' = sealed \cup {local[c]}
                 /\ EndWorker(c) \/ EndSwap(c)
        <5>1. \A i \in DOMAIN frames[c] : frames[c][i].span \notin sealed BY <1>1, <4>3
        <5>2. \A i \in DOMAIN frames[c] : frames[c][i].span = local[c] => i = Len(frames[c])
          BY <1>0, <2>2, <4>3 DEF FrameInv
        <5>3. pc'[c] \in {"submit", "release"} \/ UNCHANGED sealed
          BY <1>1, <4>3 DEF EndWorker, EndSwap
        <5> QED BY <1>1, <3>3, <4>1, <4>2, <4>3, <5>1, <5>2, <5>3
      <4> QED BY <1>2, <4>2, <4>3, CloseMoves
    <3> QED BY <1>2, <3>1, <3>2, <3>3, CloseMoves
  <2>9. \A d \in Contexts : P(d)' /\ Q(d)' BY <2>5, <2>6, <2>7, <2>8
  <2> QED BY <2>3, <2>8, <2>9 DEF CloseInv
<1>3. CASE WorkerTake \/ UNCHANGED vars
  BY <1>0, <1>3 DEF WorkerTake, vars, ctxVars, localVars, spanVars, sealVars, CloseInv
<1> QED BY <1>2, <1>3 DEF Next, Terminated

----------------------------------------------------------------------------
(* Every event is built once                                               *)

\* The ids that an event carries may be replaced, never removed.
LEMMA TagsStay ==
  ASSUME IInv, [Next]_vars
  PROVE  \A e \in Events : tag[e] # None => tag'[e] # None
<1>0. TypeInv /\ PcInv BY DEF IInv
<1>1. tag \in [Events -> (Traces \X (Traces \cup {None})) \cup {None}] BY <1>0 DEF TypeInv, TypeOK
<1>2. ASSUME NEW c \in Contexts, Begin(c) PROVE \A e \in Events : tag[e] # None => tag'[e] # None
  <2>1. PICK f \in Frame, s \in Spans \ opened : Opens(c, f, s) BY <1>2, BeginForm
  <2>2. InheritedIds(c, s) # None BY <1>0, InheritedIdsType
  <2> QED BY <1>1, <2>1, <2>2 DEF Opens, OpenSpan
<1>3. ASSUME NEW c \in Contexts, EndAppend(c) PROVE \A e \in Events : tag[e] # None => tag'[e] # None
  <2>1. IdsOf(local[c]) # None BY <1>0, <1>3, IdsOfType DEF EndAppend, At, PcInv, Ending
  <2> QED BY <1>1, <1>3, <2>1 DEF EndAppend
<1>4. ASSUME NEW c \in Contexts, LogBuild(c) PROVE \A e \in Events : tag[e] # None => tag'[e] # None
  <2>1. local[c] \in Spans BY <1>0, <1>4, CurrentSpanType DEF LogBuild, At, PcInv, Levelling
  <2>2. IdsOf(local[c]) # None BY <1>0, <2>1, IdsOfType
  <2> QED BY <1>1, <1>4, <2>2 DEF LogBuild
<1>5. ASSUME NEW c \in Contexts, ContinueAdopt(c)
      PROVE  \A e \in Events : tag[e] # None => tag'[e] # None
  <2>1. item[c] \in Inbound /\ Reparent(CurrentSpan(c), item[c])
    BY <1>0, <1>5 DEF ContinueAdopt, At, PcInv
  <2>2. AdoptedIds(item[c]) # None BY <2>1, AdoptedIdsType
  <2> QED BY <2>1, <2>2 DEF Reparent
<1>6. ASSUME NEW c \in Contexts, End(c) PROVE UNCHANGED tag \/ EndAppend(c)
  BY <1>6 DEF End, EndLoad, EndClose, EndWorker, EndDetach, EndSwap, EndSubmit, EndRelease, eventVars
<1>7. ASSUME NEW c \in Contexts, Log(c) PROVE UNCHANGED tag \/ LogBuild(c)
  BY <1>7 DEF Log, LogRead, LogAppend, LogOrphan, eventVars
<1>8. ASSUME NEW c \in Contexts, Sweep(c) PROVE UNCHANGED tag
  BY <1>8 DEF Sweep, SweepUnchanged, SweepBegin, SweepSpan, SweepLoad, SweepSwap, SweepSubmit, SweepEnd
<1>9. ASSUME NEW c \in Contexts, Context(c) PROVE UNCHANGED tag \/ ContinueAdopt(c)
  BY <1>9 DEF Context, SetBaggage, ContinueCheck, ResetContext, Spawn, eventVars
<1>10. WorkerTake \/ UNCHANGED vars => UNCHANGED tag BY DEF WorkerTake, vars, eventVars
<1> QED
  BY <1>2, <1>3, <1>4, <1>5, <1>6, <1>7, <1>8, <1>9, <1>10 DEF Next, Terminated

\* A level call's name is in the hands of one context.
LEMMA ItemsMove ==
  ASSUME IInv, NEW c \in Contexts, Begin(c) \/ End(c) \/ Log(c) \/ Sweep(c) \/ Context(c)
  PROVE  /\ item'[c] = item[c] \/ item'[c] \notin Logs \/ LogRead(c)
         /\ pc'[c] \in Levelling \cup {"orphan"} => LogRead(c) \/ LogBuild(c)
<1> USE DEF At, Goto, Levelling, localVars, Forget
<1>0. /\ item \in [Contexts -> Logs \cup Inbound \cup {None}] /\ pc \in [Contexts -> PCs]
      /\ None \notin Logs /\ Logs \cap Inbound = {}
  BY SpansAssumption DEF IInv, TypeInv, TypeOK
<1>1. CASE Begin(c) BY <1>1 DEF Begin
<1>2. CASE End(c)
  BY <1>0, <1>2 DEF End, CloseUnchanged, EndLoad, EndAppend, EndClose, EndWorker, EndDetach, EndSwap,
              EndSubmit, EndRelease
<1>3. CASE Log(c) BY <1>0, <1>3 DEF Log, LogBuild, LogAppend, LogOrphan
<1>4. CASE Sweep(c)
  BY <1>0, <1>4 DEF Sweep, SweepUnchanged, SweepBegin, SweepSpan, SweepLoad, SweepSwap, SweepSubmit,
                    SweepEnd
<1>5. CASE Context(c)
  BY <1>0, <1>5 DEF Context, SetBaggage, ContinueCheck, ContinueAdopt, ResetContext, Spawn
<1> QED BY <1>1, <1>2, <1>3, <1>4, <1>5

\* The event that a step appends or delivers on the caller's thread, if any, is the context's own.
LEMMA EventsMove ==
  ASSUME IInv, NEW c \in Contexts, Begin(c) \/ End(c) \/ Log(c) \/ Sweep(c) \/ Context(c),
         NEW e \in Events, at'[e] # at[e] \/ delivered'[e] # delivered[e]
  PROVE  \/ Begin(c) /\ \E s \in opened' \ opened : e = StartOf(s)
         \/ EndAppend(c) /\ e = EndOf(local[c])
         \/ (LogAppend(c) \/ LogOrphan(c)) /\ e = LogOf(item[c])
<1>0. /\ at \in [Events -> Lists \cup {None}] /\ delivered \in [Events -> Nat]
      /\ pc \in [Contexts -> PCs]
  BY DEF IInv, TypeInv, TypeOK
<1>1. CASE Begin(c)
  <2>1. PICK f \in Frame, s \in Spans \ opened : Opens(c, f, s) BY <1>1, BeginForm
  <2> QED BY <1>0, <1>1, <2>1 DEF Opens, OpenSpan
<1>2. CASE EndAppend(c) BY <1>0, <1>2 DEF EndAppend, outVars
<1>3. CASE LogAppend(c) BY <1>0, <1>3 DEF LogAppend, outVars
<1>4. CASE LogOrphan(c) BY <1>0, <1>4 DEF LogOrphan, eventVars
<1>5. CASE EndLoad(c) BY <1>5 DEF EndLoad, eventVars, outVars
<1>6. CASE EndSwap(c) \/ SweepSwap(c) BY <1>6, SwapDetaches DEF Detaches
<1>7. CASE EndSubmit(c) \/ SweepSubmit(c) BY <1>7, SubmitSubmits DEF Submits
<1>8. ASSUME NEW d \in Contexts, EndClose(d) \/ EndWorker(d) \/ EndDetach(d) \/ EndRelease(d)
      PROVE  UNCHANGED <<at, delivered>>
  BY <1>8 DEF EndClose, EndWorker, EndDetach, EndRelease, eventVars, outVars
<1>9. LogRead(c) \/ LogBuild(c) => UNCHANGED <<at, delivered>>
  BY DEF LogRead, LogBuild, eventVars, outVars
<1>10. SweepBegin(c) \/ SweepSpan(c) \/ SweepLoad(c) \/ SweepEnd(c) => UNCHANGED <<at, delivered>>
  BY DEF SweepUnchanged, SweepBegin, SweepSpan, SweepLoad, SweepEnd
<1>11. Context(c) => UNCHANGED <<at, delivered>>
  BY DEF Context, SetBaggage, ContinueCheck, ContinueAdopt, ResetContext, Spawn, eventVars, outVars
<1> QED
  BY <1>1, <1>2, <1>3, <1>4, <1>5, <1>6, <1>7, <1>8, <1>9, <1>10, <1>11 DEF End, Log, Sweep

\* A close that has built its span.end does not build another one.
LEMMA EndedStays ==
  ASSUME IInv, NEW c \in Contexts, Begin(c) \/ End(c) \/ Log(c) \/ Sweep(c) \/ Context(c),
         pc[c] \in Ended, ~EndRelease(c)
  PROVE  pc'[c] \in Ended /\ UNCHANGED frames
<1> USE DEF At, Ended, Goto
<1>0. pc \in [Contexts -> PCs] BY DEF IInv, TypeInv, TypeOK
<1>1. ~Begin(c) BY DEF Begin
<1>2. ~Log(c) BY DEF Log, LogRead, LogBuild, LogAppend, LogOrphan
<1>3. ~Sweep(c)
  BY DEF Sweep, SweepBegin, SweepSpan, SweepLoad, SweepSwap, SweepSubmit, SweepEnd
<1>4. ~Context(c) BY DEF Context, SetBaggage, ContinueCheck, ContinueAdopt, ResetContext, Spawn
<1>5. End(c) => pc'[c] \in Ended /\ UNCHANGED frames
  BY <1>0 DEF End, EndLoad, EndAppend, EndClose, EndWorker, EndDetach, EndSwap, EndSubmit,
              CloseUnchanged, ctxVars
<1> QED BY <1>1, <1>2, <1>3, <1>4, <1>5

LEMMA BuiltStep == IInv /\ [Next]_vars => BuiltInv'
<1> SUFFICES ASSUME IInv, [Next]_vars PROVE BuiltInv' OBVIOUS
<1> DEFINE F(c) == \A i \in DOMAIN frames[c] :
                      frames[c][i].span # None /\ (i < Len(frames[c]) \/ pc[c] \notin Ended) =>
                          FreshEvent(EndOf(frames[c][i].span))
           L(c) == pc[c] \in Levelling \cup {"orphan"} => FreshEvent(LogOf(item[c]))
           U(c) == pc[c] \in Levelling \cup {"orphan"} => \A d \in Contexts : item[d] = item[c] => d = c
           T(c) == pc[c] = "append" => tag[LogOf(item[c])] # None
<1>0. TypeInv /\ PcInv /\ BuiltInv /\ FrameInv BY DEF IInv
<1>1. /\ pc \in [Contexts -> PCs] /\ item \in [Contexts -> Logs \cup Inbound \cup {None}]
      /\ at \in [Events -> Lists \cup {None}] /\ delivered \in [Events -> Nat]
      /\ None \notin Lists /\ None \notin Logs /\ opened \subseteq Spans /\ opened' \subseteq Spans
      /\ \A c \in Contexts : F(c) /\ L(c) /\ U(c) /\ T(c)
  BY <1>0, TypeStep, SpansAssumption DEF TypeInv, TypeOK, BuiltInv, Lists
<1>2. ASSUME NEW c \in Contexts, Begin(c) \/ End(c) \/ Log(c) \/ Sweep(c) \/ Context(c)
      PROVE  BuiltInv'
  <2>0. OthersStill(c) BY <1>2, OthersStillStep
  <2>a. opened \subseteq opened' BY Growing
  <2>1. ASSUME NEW s \in Spans \ opened' PROVE FreshEvent(StartOf(s))' /\ FreshEvent(EndOf(s))'
    <3>1. s \notin opened /\ FreshEvent(StartOf(s)) /\ FreshEvent(EndOf(s))
      BY <1>0, <2>a DEF BuiltInv
    <3>2. at'[StartOf(s)] = at[StartOf(s)] /\ delivered'[StartOf(s)] = delivered[StartOf(s)]
      <4>1. ASSUME at'[StartOf(s)] # at[StartOf(s)] \/ delivered'[StartOf(s)] # delivered[StartOf(s)]
            PROVE  FALSE
        <5>1. StartOf(s) \in Events BY EventFacts
        <5>2. \/ \E t \in opened' \ opened : StartOf(s) = StartOf(t)
              \/ EndAppend(c) /\ StartOf(s) = EndOf(local[c])
              \/ (LogAppend(c) \/ LogOrphan(c)) /\ StartOf(s) = LogOf(item[c])
          BY <1>2, <4>1, <5>1, EventsMove
        <5>3. EndAppend(c) => local[c] \in Spans BY <1>0 DEF EndAppend, At, PcInv, Ending
        <5>4. LogAppend(c) \/ LogOrphan(c) => item[c] \in Logs
          BY <1>0 DEF LogAppend, LogOrphan, At, PcInv, Levelling
        <5> QED BY <1>1, <5>2, <5>3, <5>4, EventFacts
      <4> QED BY <4>1
    <3>3. at'[EndOf(s)] = at[EndOf(s)] /\ delivered'[EndOf(s)] = delivered[EndOf(s)]
      <4>1. ASSUME at'[EndOf(s)] # at[EndOf(s)] \/ delivered'[EndOf(s)] # delivered[EndOf(s)]
            PROVE  FALSE
        <5>1. EndOf(s) \in Events BY EventFacts
        <5>2. \/ \E t \in opened' \ opened : EndOf(s) = StartOf(t)
              \/ EndAppend(c) /\ EndOf(s) = EndOf(local[c])
              \/ (LogAppend(c) \/ LogOrphan(c)) /\ EndOf(s) = LogOf(item[c])
          BY <1>2, <4>1, <5>1, EventsMove
        <5>3. EndAppend(c) => local[c] \in Spans /\ local[c] \in opened
          BY EndingSpan DEF EndAppend, At, Ending
        <5>4. LogAppend(c) \/ LogOrphan(c) => item[c] \in Logs
          BY <1>0 DEF LogAppend, LogOrphan, At, PcInv, Levelling
        <5> QED BY <1>1, <3>1, <5>2, <5>3, <5>4, EventFacts
      <4> QED BY <4>1
    <3> QED BY <3>1, <3>2, <3>3 DEF FreshEvent
  <2>2. ASSUME NEW s \in Spans, FreshEvent(EndOf(s)), ~(EndAppend(c) /\ s = local[c])
        PROVE  FreshEvent(EndOf(s))'
    <3>1. ASSUME at'[EndOf(s)] # at[EndOf(s)] \/ delivered'[EndOf(s)] # delivered[EndOf(s)]
          PROVE  FALSE
      <4>1. EndOf(s) \in Events BY EventFacts
      <4>2. \/ \E t \in opened' \ opened : EndOf(s) = StartOf(t)
            \/ EndAppend(c) /\ EndOf(s) = EndOf(local[c])
            \/ (LogAppend(c) \/ LogOrphan(c)) /\ EndOf(s) = LogOf(item[c])
        BY <1>2, <3>1, <4>1, EventsMove
      <4>3. EndAppend(c) => local[c] \in Spans BY EndingSpan DEF EndAppend, At, Ending
      <4>4. LogAppend(c) \/ LogOrphan(c) => item[c] \in Logs
        BY <1>0 DEF LogAppend, LogOrphan, At, PcInv, Levelling
      <4> QED BY <1>1, <2>2, <4>2, <4>3, <4>4, EventFacts
    <3> QED BY <2>2, <3>1 DEF FreshEvent
  <2>3. ASSUME NEW d \in Contexts, d # c PROVE F(d)'
    <3>1. frames'[d] = frames[d] /\ pc'[d] = pc[d] BY <2>0, <2>3 DEF OthersStill
    <3>2. ASSUME NEW i \in DOMAIN frames[d], frames[d][i].span # None,
                 i < Len(frames[d]) \/ pc[d] \notin Ended
          PROVE  FreshEvent(EndOf(frames[d][i].span))'
      <4>1. FreshEvent(EndOf(frames[d][i].span)) BY <1>1, <3>2
      <4>2. frames[d][i].span \in Spans BY <1>0, <1>1, <3>2 DEF FrameInv
      <4>3. EndAppend(c) => frames[d][i].span # local[c]
        <5>1. EndAppend(c) => /\ Len(frames[c]) \in DOMAIN frames[c]
                              /\ frames[c][Len(frames[c])].span = local[c] /\ local[c] # None
          BY EndingSpan DEF EndAppend, At, Ending
        <5> QED BY <1>0, <2>3, <3>2, <5>1 DEF FrameInv
      <4>4. PICK s \in Spans : s = frames[d][i].span BY <4>2
      <4>5. FreshEvent(EndOf(s))' BY <2>2, <4>1, <4>3, <4>4
      <4>6. frames'[d][i].span = s BY <3>1, <4>4
      <4> QED BY <4>5, <4>6 DEF EndOf, FreshEvent
    <3> QED BY <3>1, <3>2
  <2>4. F(c)'
    <3>1. CASE Begin(c)
      <4>1. PICK f \in Frame, s \in Spans \ opened : Opens(c, f, s) BY <3>1, BeginForm
      <4>2. /\ DOMAIN frames[c] = 1 .. Len(frames[c]) /\ Len(frames[c]) \in Nat
            /\ DOMAIN frames'[c] = 1 .. Len(frames[c]) + 1
            /\ \A i \in DOMAIN frames[c] : frames'[c][i] = frames[c][i]
            /\ frames'[c][Len(frames[c]) + 1] = f
        BY <1>0, <4>1, FramesGrow DEF Opens
      <4>3. pc[c] = "run" /\ ~EndAppend(c) BY <3>1 DEF Begin, At, EndAppend
      <4>4. ASSUME NEW i \in DOMAIN frames'[c], frames'[c][i].span # None
            PROVE  FreshEvent(EndOf(frames[c][i].span))'
        <5>1. PICK t \in Spans : t = frames'[c][i].span
          <6>1. CASE i \in DOMAIN frames[c] BY <1>0, <1>1, <4>2, <4>4, <6>1 DEF FrameInv
          <6>2. CASE i = Len(frames[c]) + 1 BY <4>1, <4>2, <4>4, <6>2 DEF Opens
          <6> QED BY <4>2, <6>1, <6>2
        <5>2. FreshEvent(EndOf(t))
          <6>1. CASE i \in DOMAIN frames[c] BY <1>1, <4>2, <4>3, <4>4, <5>1, <6>1 DEF Ended
          <6>2. CASE i = Len(frames[c]) + 1
            <7>1. t = s BY <4>1, <4>2, <4>4, <5>1, <6>2 DEF Opens
            <7> QED BY <1>0, <7>1 DEF BuiltInv
          <6> QED BY <4>2, <6>1, <6>2
        <5>3. FreshEvent(EndOf(t))' BY <2>2, <4>3, <5>2
        <5> QED BY <5>1, <5>3 DEF EndOf, FreshEvent
      <4> QED BY <4>4
    <3>2. CASE EndRelease(c)
      <4>1. /\ frames[c] # <<>> /\ frames' = [frames EXCEPT ![c] = SubSeq(@, 1, Len(@) - 1)]
            /\ ~EndAppend(c)
        BY <1>0, <3>2 DEF PcInv, EndRelease, At, EndAppend
      <4>2. /\ \A i : i \in DOMAIN frames'[c] <=> i \in DOMAIN frames[c] /\ i < Len(frames[c])
            /\ \A i \in DOMAIN frames'[c] : frames'[c][i] = frames[c][i]
        BY <1>0, <4>1, FramesShrink
      <4>3. ASSUME NEW i \in DOMAIN frames'[c], frames'[c][i].span # None
            PROVE  FreshEvent(EndOf(frames[c][i].span))'
        <5>1. PICK t \in Spans : t = frames'[c][i].span BY <1>0, <1>1, <4>2, <4>3 DEF FrameInv
        <5>2. FreshEvent(EndOf(t)) BY <1>1, <4>2, <4>3, <5>1
        <5>3. FreshEvent(EndOf(t))' BY <2>2, <4>1, <5>2
        <5> QED BY <5>1, <5>3 DEF EndOf, FreshEvent
      <4> QED BY <4>3
    <3>3. CASE UNCHANGED frames /\ ~EndRelease(c)
      <4>1. pc[c] \in Ended => pc'[c] \in Ended BY <1>2, <3>3, EndedStays
      <4>2. EndAppend(c) => /\ pc'[c] \in Ended /\ local[c] = frames[c][Len(frames[c])].span
                            /\ Len(frames[c]) \in DOMAIN frames[c] /\ local[c] # None
        BY <1>1, EndingSpan DEF EndAppend, At, Goto, Ended, Ending
      <4>3. ASSUME NEW i \in DOMAIN frames[c], frames[c][i].span # None,
                   i < Len(frames[c]) \/ pc'[c] \notin Ended
            PROVE  FreshEvent(EndOf(frames[c][i].span))'
        <5>1. PICK t \in Spans : t = frames[c][i].span BY <1>0, <1>1, <4>3 DEF FrameInv
        <5>2. FreshEvent(EndOf(t)) BY <1>1, <4>1, <4>3, <5>1
        <5>3. ASSUME EndAppend(c), t = local[c] PROVE FALSE
          <6>1. i = Len(frames[c]) BY <1>0, <4>2, <4>3, <5>1, <5>3 DEF FrameInv
          <6>2. Len(frames[c]) \in Nat BY <1>0, Typed
          <6> QED BY <4>2, <4>3, <5>3, <6>1, <6>2
        <5>4. FreshEvent(EndOf(t))' BY <2>2, <5>2, <5>3
        <5> QED BY <3>3, <5>1, <5>4 DEF EndOf, FreshEvent
      <4> QED BY <3>3, <4>3
    <3> QED BY <1>2, <3>1, <3>2, <3>3, CloseMoves
  <2>5. ASSUME NEW d \in Contexts, d # c PROVE L(d)' /\ U(d)' /\ T(d)'
    <3>1. pc'[d] = pc[d] /\ item'[d] = item[d] BY <2>0, <2>5 DEF OthersStill
    <3>2. ASSUME pc[d] \in Levelling \cup {"orphan"}
          PROVE  /\ FreshEvent(LogOf(item[d]))'
                 /\ \A b \in Contexts : item'[b] = item'[d] => b = d
      <4>1. item[d] \in Logs /\ \A b \in Contexts : item[b] = item[d] => b = d
        BY <1>0, <1>1, <3>2 DEF PcInv
      <4>2. LogOf(item[d]) \in Events BY <4>1, EventFacts
      <4>3. ASSUME \/ at'[LogOf(item[d])] # at[LogOf(item[d])]
                   \/ delivered'[LogOf(item[d])] # delivered[LogOf(item[d])]
            PROVE  FALSE
        <5>1. \/ \E t \in opened' \ opened : LogOf(item[d]) = StartOf(t)
              \/ EndAppend(c) /\ LogOf(item[d]) = EndOf(local[c])
              \/ (LogAppend(c) \/ LogOrphan(c)) /\ LogOf(item[d]) = LogOf(item[c])
          BY <1>2, <4>2, <4>3, EventsMove
        <5>2. EndAppend(c) => local[c] \in Spans BY EndingSpan DEF EndAppend, At, Ending
        <5>3. LogAppend(c) \/ LogOrphan(c) => item[c] \in Logs
          BY <1>0 DEF LogAppend, LogOrphan, At, PcInv, Levelling
        <5> QED BY <1>1, <2>5, <4>1, <5>1, <5>2, <5>3, EventFacts
      <4>4. FreshEvent(LogOf(item[d])) BY <1>1, <3>2
      <4>5. item'[c] # item[d]
        <5>1. CASE LogRead(c) BY <1>1, <4>1, <5>1 DEF LogRead, Unlogged
        <5>2. CASE ~LogRead(c) BY <1>2, <2>5, <4>1, <5>2, ItemsMove
        <5> QED BY <5>1, <5>2
      <4>6. \A b \in Contexts : item'[b] = item'[d] => b = d
        BY <2>0, <3>1, <4>1, <4>5 DEF OthersStill
      <4> QED BY <3>1, <4>3, <4>4, <4>6 DEF FreshEvent, LogOf
    <3>3. pc[d] = "append" => tag'[LogOf(item[d])] # None
      <4>1. pc[d] = "append" => item[d] \in Logs /\ tag[LogOf(item[d])] # None
        BY <1>0, <1>1 DEF PcInv, Levelling
      <4> QED BY <4>1, TagsStay, EventFacts
    <3> QED BY <3>1, <3>2, <3>3
  <2>6. L(c)' /\ U(c)'
    <3>1. CASE LogRead(c)
      <4>1. PICK l \in Unlogged : item' = [item EXCEPT ![c] = l] BY <3>1 DEF LogRead
      <4>2. l \in Logs /\ item'[c] = l /\ \A d \in Contexts : d # c => item'[d] # l
        BY <1>1, <4>1 DEF Unlogged
      <4>3. FreshEvent(LogOf(l))
        <5>1. LogOf(l) \in Events BY <4>2, EventFacts
        <5> QED BY <1>0, <4>1, <5>1 DEF Unlogged, BuiltInv, FreshEvent
      <4>4. UNCHANGED <<at, delivered>> BY <3>1 DEF LogRead, eventVars, outVars
      <4> QED BY <4>2, <4>3, <4>4 DEF FreshEvent, LogOf
    <3>2. CASE LogBuild(c)
      <4>1. /\ UNCHANGED <<at, delivered>> /\ pc[c] = "build"
            /\ pc'[c] = "run" \/ (UNCHANGED item /\ pc'[c] = "append")
        BY <1>1, <3>2 DEF LogBuild, At, Goto, localVars
      <4>2. L(c) /\ U(c) BY <1>1
      <4> QED BY <4>1, <4>2 DEF FreshEvent, LogOf, Levelling
    <3>3. CASE ~LogRead(c) /\ ~LogBuild(c) BY <1>2, <3>3, ItemsMove
    <3> QED BY <3>1, <3>2, <3>3
  <2>7. T(c)'
    <3>1. ASSUME pc'[c] = "append" PROVE LogBuild(c) /\ UNCHANGED item
      <4>1. LogRead(c) \/ LogBuild(c) BY <1>2, <3>1, ItemsMove DEF Levelling
      <4> QED BY <1>1, <3>1, <4>1 DEF LogRead, LogBuild, Goto, localVars
    <3>2. ASSUME pc'[c] = "append" PROVE tag'[LogOf(item[c])] # None
      <4>1. /\ tag' = [tag EXCEPT ![LogOf(item[c])] = IdsOf(local[c])]
        BY <1>1, <3>1, <3>2 DEF LogBuild, Goto
      <4>2. local[c] \in Spans /\ item[c] \in Logs
        BY <1>0, <3>1, <3>2, CurrentSpanType DEF LogBuild, At, PcInv, Levelling
      <4>3. IdsOf(local[c]) # None /\ LogOf(item[c]) \in Events BY <1>0, <4>2, IdsOfType, EventFacts
      <4> QED BY <1>0, <4>1, <4>3 DEF TypeInv, TypeOK
    <3> QED BY <3>1, <3>2
  <2>8. ASSUME NEW e \in Events, at'[e] # None PROVE tag'[e] # None
    <3>1. CASE at'[e] = at[e] BY <1>0, <2>8, <3>1, TagsStay DEF BuiltInv
    <3>2. CASE Begin(c) /\ \E s \in opened' \ opened : e = StartOf(s)
      <4>1. PICK f \in Frame, s \in Spans \ opened : Opens(c, f, s) BY <3>2, BeginForm
      <4>2. e = StartOf(s) /\ OpenSpan(c, s) BY <3>2, <4>1 DEF Opens, OpenSpan
      <4>3. InheritedIds(c, s) # None BY <1>0, InheritedIdsType
      <4> QED BY <1>0, <4>2, <4>3 DEF OpenSpan, TypeInv, TypeOK
    <3>3. CASE EndAppend(c) /\ e = EndOf(local[c])
      <4>1. IdsOf(local[c]) # None BY <1>0, <3>3, EndingSpan, IdsOfType DEF EndAppend, At, Ending
      <4> QED BY <1>0, <3>3, <4>1 DEF EndAppend, TypeInv, TypeOK
    <3>4. CASE (LogAppend(c) \/ LogOrphan(c)) /\ e = LogOf(item[c])
      <4>1. CASE LogAppend(c) BY <1>1, <3>4, <4>1, TagsStay DEF LogAppend, At
      <4>2. CASE LogOrphan(c) BY <3>1, <4>2 DEF LogOrphan, eventVars
      <4> QED BY <3>4, <4>1, <4>2
    <3> QED BY <1>2, <3>1, <3>2, <3>3, <3>4, EventsMove
  <2>9. \A d \in Contexts : F(d)' /\ L(d)' /\ U(d)' /\ T(d)' BY <2>3, <2>4, <2>5, <2>6, <2>7
  <2> QED BY <2>1, <2>8, <2>9 DEF BuiltInv
<1>3. CASE WorkerTake
  <2>1. /\ UNCHANGED <<opened, frames, pc, item, tag, at>> /\ queue # <<>>
        /\ \A e \in Events : at[e] # Head(queue) => delivered'[e] = delivered[e]
    BY <1>3 DEF WorkerTake, ctxVars, localVars, spanVars, eventVars
  <2>2. Head(queue) \in Lists BY <1>0, <2>1 DEF TypeInv, TypeOK
  <2>3. \A e \in Events : FreshEvent(e) => FreshEvent(e)' BY <1>1, <2>1, <2>2 DEF FreshEvent
  <2>4. \A c \in Contexts : \A i \in DOMAIN frames[c] : frames[c][i].span # None =>
          EndOf(frames[c][i].span) \in Events
    BY <1>0, <1>1, EventFacts DEF FrameInv
  <2>5. \A c \in Contexts : pc[c] \in Levelling \cup {"orphan"} => LogOf(item[c]) \in Events
    BY <1>0, EventFacts DEF PcInv
  <2>6. \A s \in Spans : StartOf(s) \in Events /\ EndOf(s) \in Events BY EventFacts
  <2>7. \A s \in Spans \ opened' : FreshEvent(StartOf(s))' /\ FreshEvent(EndOf(s))'
    BY <1>0, <2>1, <2>3, <2>6 DEF BuiltInv
  <2>8. ASSUME NEW c \in Contexts PROVE F(c)'
    <3>1. ASSUME NEW i \in DOMAIN frames[c], frames[c][i].span # None,
                 i < Len(frames[c]) \/ pc[c] \notin Ended
          PROVE  FreshEvent(EndOf(frames[c][i].span))'
      <4>1. PICK e \in Events : e = EndOf(frames[c][i].span) BY <2>4, <3>1
      <4>2. FreshEvent(e) BY <1>1, <3>1, <4>1
      <4>3. FreshEvent(e)' BY <2>3, <4>2
      <4> QED BY <2>1, <4>1, <4>3 DEF FreshEvent, EndOf
    <3> QED BY <2>1, <3>1
  <2>9. ASSUME NEW c \in Contexts PROVE L(c)'
    <3>1. ASSUME pc[c] \in Levelling \cup {"orphan"} PROVE FreshEvent(LogOf(item[c]))'
      <4>1. PICK e \in Events : e = LogOf(item[c]) BY <2>5, <3>1
      <4>2. FreshEvent(e) BY <1>1, <3>1, <4>1
      <4>3. FreshEvent(e)' BY <2>3, <4>2
      <4> QED BY <2>1, <4>1, <4>3 DEF FreshEvent, LogOf
    <3> QED BY <2>1, <3>1
  <2>10. \A c \in Contexts : U(c)' /\ T(c)' BY <1>1, <2>1
  <2>11. \A e \in Events : at'[e] # None => tag'[e] # None BY <1>0, <2>1 DEF BuiltInv
  <2> QED BY <2>7, <2>8, <2>9, <2>10, <2>11 DEF BuiltInv
<1>4. CASE UNCHANGED vars
  BY <1>0, <1>4 DEF vars, ctxVars, localVars, spanVars, eventVars, outVars, BuiltInv, FreshEvent
<1> QED BY <1>2, <1>3, <1>4 DEF Next, Terminated

----------------------------------------------------------------------------
(* No event is read twice                                                  *)

\* The event that a step of a context appends or delivers is a fresh one.
LEMMA AppendedIsFresh ==
  ASSUME IInv, NEW c \in Contexts, Begin(c) \/ End(c) \/ Log(c) \/ Sweep(c) \/ Context(c),
         NEW e \in Events, at'[e] # at[e] \/ delivered'[e] # delivered[e]
  PROVE  FreshEvent(e) /\ (delivered'[e] = 0 \/ (delivered'[e] = 1 /\ at'[e] = None))
<1>0. TypeInv /\ BuiltInv /\ PcInv BY DEF IInv
<1>1. delivered \in [Events -> Nat] BY <1>0 DEF TypeInv, TypeOK
<1>2. CASE Begin(c) /\ \E s \in opened' \ opened : e = StartOf(s)
  <2>1. PICK f \in Frame, s \in Spans \ opened : Opens(c, f, s) BY <1>2, BeginForm
  <2>2. UNCHANGED delivered /\ e = StartOf(s) BY <1>2, <2>1 DEF Opens, OpenSpan
  <2> QED BY <1>0, <2>1, <2>2 DEF BuiltInv, FreshEvent
<1>3. CASE EndAppend(c) /\ e = EndOf(local[c])
  <2>1. pc[c] = "end" /\ UNCHANGED delivered BY <1>3 DEF EndAppend, At, outVars
  <2>2. /\ Len(frames[c]) \in DOMAIN frames[c] /\ frames[c][Len(frames[c])].span = local[c]
        /\ local[c] # None
    BY <2>1, EndingSpan DEF Ending
  <2>3. FreshEvent(EndOf(local[c])) BY <1>0, <2>1, <2>2 DEF BuiltInv, Ended
  <2> QED BY <1>3, <2>1, <2>3 DEF FreshEvent
<1>4. CASE LogAppend(c) /\ e = LogOf(item[c])
  BY <1>0, <1>4 DEF LogAppend, At, outVars, BuiltInv, Levelling, FreshEvent
<1>5. CASE LogOrphan(c) /\ e = LogOf(item[c])
  <2>1. FreshEvent(e) /\ UNCHANGED at BY <1>0, <1>5 DEF LogOrphan, At, BuiltInv, eventVars
  <2>2. delivered'[e] \in {0, 1} BY <1>1, <1>5, <2>1 DEF LogOrphan, FreshEvent
  <2> QED BY <2>1, <2>2 DEF FreshEvent
<1> QED BY <1>2, <1>3, <1>4, <1>5, EventsMove

\* A list that was detached, submitted and read comes back to no context and to no queue.
LEMMA SpentStays ==
  ASSUME IInv, [Next]_vars, NEW ls \in Lists, Spent(ls)
  PROVE  Spent(ls)'
<1>0. TypeInv /\ ListInv BY DEF IInv
<1>1. /\ gen \in [Spans -> Nat] /\ queue \in Seq(Lists) /\ ls[1] \in Spans /\ ls[2] \in Nat
      /\ pc \in [Contexts -> PCs]
  BY <1>0 DEF TypeInv, TypeOK, Lists
<1>2. ASSUME HandsQuiet, UNCHANGED <<gen, queue>> PROVE Spent(ls)'
  BY <1>2 DEF Spent, HandsQuiet
<1>3. CASE ListQuiet BY <1>2, <1>3, HandsQuietSteps DEF ListQuiet
<1>4. ASSUME NEW c \in Contexts, Begin(c) \/ EndAppend(c) \/ LogAppend(c) \/ LogOrphan(c)
      PROVE  Spent(ls)'
  <2>1. UNCHANGED <<gen, queue>>
    BY <1>4 DEF Begin, EndAppend, LogAppend, LogOrphan, LogUnchanged, spanVars, outVars
  <2> QED BY <1>2, <1>4, <2>1, HandsQuietSteps
<1>5. ASSUME NEW c \in Contexts, EndLoad(c) PROVE Spent(ls)'
  <2>1. UNCHANGED <<gen, queue>> /\ OthersStill(c)
    BY <1>5, OthersStillStep DEF EndLoad, outVars, End
  <2>2. pc'[c] \notin Submitting BY <1>1, <1>5 DEF EndLoad, Goto, Submitting
  <2> QED BY <2>1, <2>2 DEF Spent, OthersStill
<1>6. ASSUME NEW c \in Contexts, EndSwap(c) \/ SweepSwap(c) PROVE Spent(ls)'
  <2>1. Detaches(c) /\ OthersStill(c) BY <1>6, SwapDetaches, OthersStillStep DEF End, Sweep
  <2>2. /\ UNCHANGED queue /\ ref'[c] = <<local[c], gen[local[c]]>> /\ local[c] \in Spans
        /\ gen'[ls[1]] >= gen[ls[1]] /\ gen'[ls[1]] \in Nat
    BY <1>1, <2>1 DEF Detaches, ListOf
  <2>3. ls[2] < gen[ls[1]] /\ ref'[c] # ls BY <1>1, <2>2 DEF Spent
  <2>4. ls[2] < gen'[ls[1]] BY <1>1, <2>2, <2>3
  <2> QED BY <2>1, <2>2, <2>3, <2>4 DEF Spent, OthersStill
<1>7. ASSUME NEW c \in Contexts, EndSubmit(c) \/ SweepSubmit(c) PROVE Spent(ls)'
  <2>1. Submits(c) /\ HandsQuiet BY <1>7, SubmitSubmits, HandsQuietSteps
  <2>2. queue' = Append(queue, ref[c]) /\ UNCHANGED gen /\ ref[c] # ls /\ ref[c] \in Lists
    BY <1>0, <2>1 DEF Submits, Spent, ListInv
  <2>3. \A i \in DOMAIN queue' : queue'[i] # ls BY <1>1, <2>2 DEF Spent
  <2> QED BY <2>1, <2>2, <2>3 DEF Spent, HandsQuiet
<1>8. CASE WorkerTake
  <2>1. queue # <<>> /\ queue' = Tail(queue) /\ UNCHANGED <<gen, pc, ref>>
    BY <1>8 DEF WorkerTake, spanVars, localVars
  <2>2. \A i \in DOMAIN queue' : queue'[i] # ls BY <1>1, <2>1 DEF Spent
  <2> QED BY <2>1, <2>2 DEF Spent
<1> QED BY <1>3, <1>4, <1>5, <1>6, <1>7, <1>8, ListQuietSteps

LEMMA OnceStep == IInv /\ [Next]_vars => OnceInv'
<1> SUFFICES ASSUME IInv, [Next]_vars, NEW e \in Events
             PROVE  /\ delivered'[e] <= 1
                    /\ delivered'[e] > 0 /\ at'[e] # None => Spent(at[e])'
  BY DEF OnceInv
<1>0. TypeInv /\ ListInv /\ OnceInv BY DEF IInv
<1>1. /\ delivered[e] \in Nat /\ at[e] \in Lists \cup {None} /\ queue \in Seq(Lists)
      /\ delivered[e] <= 1 /\ (delivered[e] > 0 /\ at[e] # None => Spent(at[e]))
  BY <1>0 DEF TypeInv, TypeOK, OnceInv
<1>2. ASSUME at'[e] = at[e], delivered'[e] = delivered[e]
      PROVE  /\ delivered'[e] <= 1
             /\ delivered'[e] > 0 /\ at'[e] # None => Spent(at[e])'
  <2>1. ASSUME delivered[e] > 0, at[e] # None PROVE Spent(at[e])'
    <3>1. PICK ls \in Lists : ls = at[e] BY <1>1, <2>1
    <3>2. Spent(ls)' BY <1>1, <2>1, <3>1, SpentStays
    <3> QED BY <1>2, <3>1, <3>2 DEF Spent
  <2> QED BY <1>1, <1>2, <2>1
<1>3. ASSUME NEW c \in Contexts, Begin(c) \/ End(c) \/ Log(c) \/ Sweep(c) \/ Context(c)
      PROVE  /\ delivered'[e] <= 1
             /\ delivered'[e] > 0 /\ at'[e] # None => Spent(at[e])'
  <2>1. CASE at'[e] # at[e] \/ delivered'[e] # delivered[e] BY <1>3, <2>1, AppendedIsFresh
  <2>2. CASE at'[e] = at[e] /\ delivered'[e] = delivered[e] BY <1>2, <2>2
  <2> QED BY <2>1, <2>2
<1>4. CASE WorkerTake
  <2>1. /\ queue # <<>> /\ queue' = Tail(queue) /\ UNCHANGED <<gen, pc, ref, at>>
        /\ delivered'[e] = IF at[e] = Head(queue) THEN delivered[e] + 1 ELSE delivered[e]
    BY <1>4 DEF WorkerTake, spanVars, localVars, eventVars
  <2>2. 1 \in DOMAIN queue /\ queue[1] = Head(queue) /\ Head(queue) \in Lists BY <1>1, <2>1
  <2>3. CASE at[e] = Head(queue)
    <3>1. delivered[e] = 0
      <4>1. ~Spent(at[e]) BY <2>2, <2>3 DEF Spent
      <4>2. at[e] # None BY <2>2, <2>3, SpansAssumption DEF Lists
      <4> QED BY <1>1, <4>1, <4>2
    <3>2. Spent(at[e])'
      <4>1. \A i \in DOMAIN queue' : queue'[i] # queue[1]
        <5>1. \A i \in DOMAIN queue' : i + 1 \in DOMAIN queue /\ queue'[i] = queue[i + 1] /\ i >= 1 /\ i \in Nat
          BY <1>1, <2>1
        <5> QED BY <1>0, <2>2, <5>1 DEF ListInv
      <4>2. \A d \in Contexts : pc[d] \in Submitting => ref[d] # queue[1]
        BY <1>0, <2>2 DEF ListInv
      <4>3. queue[1][2] < gen[queue[1][1]] BY <1>0, <2>2 DEF ListInv
      <4> QED BY <2>1, <2>2, <2>3, <4>1, <4>2, <4>3 DEF Spent
    <3> QED BY <1>1, <2>1, <2>3, <3>1, <3>2
  <2>4. CASE at[e] # Head(queue) BY <1>2, <2>1, <2>4
  <2> QED BY <2>3, <2>4
<1>5. CASE UNCHANGED vars BY <1>2, <1>5 DEF vars, eventVars, outVars
<1> QED BY <1>3, <1>4, <1>5 DEF Next, Terminated

----------------------------------------------------------------------------
(* One trace per span                                                      *)

\* A span on a stack was opened, and one that is not shared belongs to a call of that context.
LEMMA SpanOnStack ==
  ASSUME IInv, NEW c \in Contexts, NEW j \in DOMAIN stack[c]
  PROVE  /\ stack[c][j] \in Spans /\ stack[c][j] \in opened /\ stack[c][j] # None
         /\ stack[c][j] \notin shared =>
               \E i \in DOMAIN frames[c] : /\ frames[c][i].span = stack[c][j]
                                           /\ frames[c][i].token # None
<1>0. TypeInv /\ StackInv /\ FrameInv BY DEF IInv
<1>1. stack[c] \in Seq(Spans) BY <1>0, Typed
<1>2. stack[c][j] \in Spans /\ stack[c][j] # None BY <1>1, SpansAssumption
<1>3. stack[c][j] \notin shared =>
         \E i \in DOMAIN frames[c] : frames[c][i].span = stack[c][j] /\ frames[c][i].token # None
  BY <1>0 DEF StackInv, PushedBelow
<1>4. stack[c][j] \in opened
  <2>1. CASE stack[c][j] \in shared BY <1>0, <2>1 DEF TypeInv
  <2>2. CASE stack[c][j] \notin shared BY <1>0, <1>2, <1>3, <2>2 DEF FrameInv
  <2> QED BY <2>1, <2>2
<1> QED BY <1>2, <1>3, <1>4

\* A span that is on the stacks of two contexts is shared.
LEMMA OneStack ==
  ASSUME IInv, NEW c \in Contexts, NEW d \in Contexts, NEW i \in DOMAIN stack[c],
         NEW j \in DOMAIN stack[d], stack[c][i] = stack[d][j], stack[c][i] \notin shared
  PROVE  c = d
<1>0. FrameInv BY DEF IInv
<1>1. PICK m \in DOMAIN frames[c] : frames[c][m].span = stack[c][i] BY SpanOnStack
<1>2. PICK n \in DOMAIN frames[d] : frames[d][n].span = stack[d][j] BY SpanOnStack
<1>3. stack[c][i] # None BY SpanOnStack
<1> QED BY <1>0, <1>1, <1>2, <1>3 DEF FrameInv

\* The current span of a context, as a position of its stack.
LEMMA CurrentOnStack ==
  ASSUME IInv, NEW c \in Contexts, CurrentSpan(c) # None
  PROVE  /\ CurrentSpan(c) \in Spans /\ CurrentSpan(c) \in opened /\ stack[c] # <<>>
         /\ \E j \in DOMAIN stack[c] : CurrentSpan(c) = stack[c][j]
<1>0. TypeInv BY DEF IInv
<1>1. stack[c] # <<>> BY <1>0, CurrentSpanType
<1>2. \E j \in DOMAIN stack[c] : CurrentSpan(c) = stack[c][j] BY <1>0, <1>1, CurrentSpanType
<1> QED BY <1>1, <1>2, SpanOnStack

\* Who marks a span as swept, and who makes a root of it.
LEMMA SweptMoves ==
  ASSUME IInv, NEW c \in Contexts, Begin(c) \/ End(c) \/ Log(c) \/ Sweep(c) \/ Context(c)
  PROVE  /\ \/ UNCHANGED swept
            \/ /\ SweepSpan(c) /\ idx[c] \in DOMAIN stack[c]
               /\ swept' = [swept EXCEPT ![stack[c][idx[c]]] = TRUE]
         /\ pc'[c] \in SweepingOf => \/ pc[c] \in SweepingOf /\ local'[c] = local[c] /\ UNCHANGED swept
                                     \/ SweepSpan(c) /\ local'[c] \in Spans /\ swept'[local'[c]]
         /\ pc'[c] = "adopt" => /\ UNCHANGED <<stack, parent, swept>>
                                /\ ~(IsRoot(CurrentSpan(c)) /\ swept[CurrentSpan(c)])
         /\ \A s \in opened : parent'[s] = None => parent[s] = None
<1> USE DEF ctxVars, localVars, spanVars, At, Goto, SweepingOf
<1>0. TypeInv BY DEF IInv
<1>1. /\ pc \in [Contexts -> PCs] /\ local \in [Contexts -> Spans \cup {None}]
      /\ swept \in [Spans -> BOOLEAN] /\ parent \in [Spans -> Traces \cup {None}]
      /\ opened \subseteq Spans
  BY <1>0 DEF TypeInv, TypeOK
<1>2. CASE Begin(c)
  <2>1. PICK f \in Frame, s \in Spans \ opened : Opens(c, f, s) BY <1>2, BeginForm
  <2>2. pc[c] = "run" /\ UNCHANGED <<pc, swept>> BY <1>2 DEF Begin
  <2>3. \A t \in opened : parent'[t] = parent[t] BY <1>1, <2>1 DEF Opens, OpenSpan
  <2> QED BY <2>2, <2>3
<1>3. CASE End(c)
  <2>1. UNCHANGED <<swept, parent>> /\ pc'[c] \notin SweepingOf \cup {"adopt"}
    BY <1>1, <1>3 DEF End, CloseUnchanged, EndLoad, EndAppend, EndClose, EndWorker, EndDetach,
                      EndSwap, EndSubmit, EndRelease
  <2> QED BY <2>1
<1>4. CASE Log(c)
  <2>1. UNCHANGED <<swept, parent>> /\ pc'[c] \notin SweepingOf \cup {"adopt"}
    BY <1>1, <1>4 DEF Log, LogUnchanged, LogRead, LogBuild, LogAppend, LogOrphan
  <2> QED BY <2>1
<1>5. CASE Sweep(c)
  <2>1. CASE SweepSpan(c)
    <3>1. idx[c] \in DOMAIN stack[c] /\ stack[c][idx[c]] \in Spans /\ UNCHANGED parent
      BY <1>0, <2>1, Typed DEF SweepSpan, SweepUnchanged
    <3>2. /\ pc'[c] # "adopt"
          /\ pc'[c] \in SweepingOf => /\ swept' = [swept EXCEPT ![stack[c][idx[c]]] = TRUE]
                                      /\ local'[c] = stack[c][idx[c]]
      BY <1>1, <2>1 DEF SweepSpan, Mark
    <3>3. UNCHANGED swept \/ swept' = [swept EXCEPT ![stack[c][idx[c]]] = TRUE]
      BY <2>1 DEF SweepSpan, Mark
    <3> QED BY <1>1, <2>1, <3>1, <3>2, <3>3
  <2>2. CASE ~SweepSpan(c)
    <3>1. UNCHANGED <<swept, parent>> /\ pc'[c] # "adopt"
      BY <1>1, <1>5, <2>2 DEF Sweep, SweepUnchanged, SweepBegin, SweepLoad, SweepSwap, SweepSubmit,
                              SweepEnd
    <3>2. pc'[c] \in SweepingOf => pc[c] \in SweepingOf /\ local'[c] = local[c]
      BY <1>1, <1>5, <2>2 DEF Sweep, SweepBegin, SweepLoad, SweepSwap, SweepSubmit, SweepEnd
    <3> QED BY <3>1, <3>2
  <2> QED BY <2>1, <2>2
<1>6. CASE Context(c)
  <2>1. UNCHANGED swept /\ pc'[c] \notin SweepingOf
    BY <1>1, <1>6 DEF Context, SetBaggage, ContinueCheck, ContinueAdopt, ResetContext, Spawn
  <2>2. pc'[c] = "adopt" => /\ UNCHANGED <<stack, parent, swept>>
                            /\ ~(IsRoot(CurrentSpan(c)) /\ swept[CurrentSpan(c)])
    BY <1>1, <1>6 DEF Context, SetBaggage, ContinueCheck, ContinueAdopt, ResetContext, Spawn
  <2>3. \A s \in opened : parent'[s] = None => parent[s] = None
    <3>1. CASE ContinueAdopt(c) BY <1>1, <3>1 DEF ContinueAdopt, Reparent, IsRoot
    <3>2. CASE ~ContinueAdopt(c)
      BY <1>6, <3>2 DEF Context, SetBaggage, ContinueCheck, ResetContext, Spawn
    <3> QED BY <3>1, <3>2
  <2> QED BY <2>1, <2>2, <2>3
<1> QED BY <1>2, <1>3, <1>4, <1>5, <1>6

LEMMA SweptStep == IInv /\ [Next]_vars => SweptInv'
<1> SUFFICES ASSUME IInv, [Next]_vars PROVE SweptInv' OBVIOUS
<1> DEFINE P(c) == pc[c] \in SweepingOf => swept[local[c]]
           R(c) == pc[c] = "adopt" /\ IsRoot(CurrentSpan(c)) /\ CurrentSpan(c) \notin shared =>
                       ~swept[CurrentSpan(c)]
<1>0. TypeInv /\ PcInv /\ SweptInv BY DEF IInv
<1>1. /\ gen \in [Spans -> Nat] /\ swept \in [Spans -> BOOLEAN]
      /\ \A c \in Contexts : P(c) /\ R(c) /\ stack[c] \in Seq(Spans)
  BY <1>0 DEF SweptInv, TypeInv, TypeOK
<1>2. ASSUME NEW c \in Contexts, Begin(c) \/ End(c) \/ Log(c) \/ Sweep(c) \/ Context(c)
      PROVE  SweptInv'
  <2>0. OthersStill(c) BY <1>2, OthersStillStep
  <2>a. sealed \subseteq sealed' /\ shared \subseteq shared' BY Growing
  <2>b. \A s \in Spans : swept[s] => swept'[s]
    BY <1>1, <1>2, SweptMoves
  <2>1. ASSUME NEW s \in Spans, gen'[s] > 1 PROVE swept'[s] \/ s \in sealed'
    <3>1. CASE gen'[s] = gen[s] BY <1>0, <2>1, <2>a, <2>b, <3>1 DEF SweptInv
    <3>2. CASE EndSwap(c) \/ SweepSwap(c)
      <4>1. Detaches(c) BY <3>2, SwapDetaches
      <4>2. CASE s # local[c] BY <1>1, <3>1, <4>1, <4>2 DEF Detaches
      <4>3. CASE s = local[c] /\ EndSwap(c) BY <4>3 DEF EndSwap
      <4>4. CASE s = local[c] /\ SweepSwap(c)
        <5>1. swept[s] BY <1>1, <4>4 DEF SweepSwap, At, SweepingOf
        <5> QED BY <2>b, <5>1
      <4> QED BY <3>2, <4>2, <4>3, <4>4
    <3>3. CASE UNCHANGED gen BY <3>1, <3>3
    <3>4. UNCHANGED gen \/ EndSwap(c) \/ SweepSwap(c)
      <4> USE DEF spanVars
      <4>1. CASE Begin(c) BY <4>1 DEF Begin
      <4>2. CASE End(c)
        BY <4>2 DEF End, EndLoad, EndAppend, EndClose, EndWorker, EndDetach, EndSubmit, EndRelease
      <4>3. CASE Log(c) BY <4>3 DEF Log, LogUnchanged, LogRead, LogBuild, LogAppend, LogOrphan
      <4>4. CASE Sweep(c) BY <4>4 DEF Sweep, SweepBegin, SweepSpan, SweepLoad, SweepSubmit, SweepEnd
      <4>5. CASE Context(c)
        BY <4>5 DEF Context, SetBaggage, ContinueCheck, ContinueAdopt, ResetContext, Spawn
      <4> QED BY <1>2, <4>1, <4>2, <4>3, <4>4, <4>5
    <3> QED BY <3>2, <3>3, <3>4
  <2>2. P(c)'
    <3>1. ASSUME pc[c] \in SweepingOf PROVE swept[local[c]] BY <1>1, <3>1
    <3> QED BY <1>2, <3>1, SweptMoves
  <2>3. R(c)'
    <3>1. ASSUME pc'[c] = "adopt", IsRoot(CurrentSpan(c))', (CurrentSpan(c) \notin shared)'
          PROVE  ~swept'[CurrentSpan(c)']
      <4>1. UNCHANGED <<stack, parent, swept>> /\ ~(IsRoot(CurrentSpan(c)) /\ swept[CurrentSpan(c)])
        BY <1>2, <3>1, SweptMoves
      <4> QED BY <3>1, <4>1 DEF CurrentSpan, IsRoot
    <3> QED BY <3>1
  <2>4. ASSUME NEW d \in Contexts, d # c PROVE P(d)' /\ R(d)'
    <3>1. pc'[d] = pc[d] /\ local'[d] = local[d] /\ (d \in live => stack'[d] = stack[d])
      BY <2>0, <2>4 DEF OthersStill
    <3>2. P(d)'
      <4>1. ASSUME pc[d] \in SweepingOf PROVE local[d] \in Spans /\ swept[local[d]]
        BY <1>0, <1>1, <4>1 DEF PcInv
      <4> QED BY <2>b, <3>1, <4>1
    <3>3. R(d)'
      <4>1. ASSUME pc[d] = "adopt", NEW x, x = CurrentSpan(d)', (IsRoot(x))', x \notin shared'
            PROVE  ~swept'[x]
        <5>1. d \in live BY <1>0, <4>1 DEF PcInv
        <5>2. x = CurrentSpan(d) BY <3>1, <4>1, <5>1 DEF CurrentSpan
        <5>3. x # None BY <4>1 DEF IsRoot
        <5>4. PICK j \in DOMAIN stack[d] : x = stack[d][j] BY <5>2, <5>3, CurrentOnStack
        <5>5. x \in Spans /\ x \in opened BY <5>2, <5>3, CurrentOnStack
        <5>6. parent[x] = None BY <1>2, <4>1, <5>5, SweptMoves DEF IsRoot
        <5>7. x \notin shared BY <2>a, <4>1
        <5>8. ~swept[x] BY <1>1, <4>1, <5>2, <5>3, <5>6, <5>7 DEF IsRoot
        <5>9. CASE UNCHANGED swept BY <5>8, <5>9
        <5>10. CASE /\ idx[c] \in DOMAIN stack[c]
                    /\ swept' = [swept EXCEPT ![stack[c][idx[c]]] = TRUE]
          <6>1. x # stack[c][idx[c]] BY <2>4, <5>4, <5>7, <5>10, OneStack
          <6> QED BY <1>1, <5>5, <5>8, <5>10, <6>1
        <5> QED BY <1>2, <5>9, <5>10, SweptMoves
      <4> QED BY <3>1, <4>1
    <3> QED BY <3>2, <3>3
  <2>5. \A d \in Contexts : P(d)' /\ R(d)' BY <2>2, <2>3, <2>4
  <2> QED BY <2>1, <2>5 DEF SweptInv
<1>3. CASE WorkerTake \/ UNCHANGED vars
  BY <1>0, <1>3 DEF WorkerTake, vars, ctxVars, localVars, spanVars, sealVars, SweptInv, CurrentSpan, IsRoot
<1> QED BY <1>2, <1>3 DEF Next, Terminated

\* The steps that leave the events and the ids of the spans alone.
LEMMA IdsMove ==
  ASSUME IInv, NEW c \in Contexts, Begin(c) \/ End(c) \/ Log(c) \/ Sweep(c) \/ Context(c)
  PROVE  /\ \/ UNCHANGED <<opened, trace, parent, at, tag>>
            \/ Begin(c) \/ EndAppend(c) \/ LogBuild(c) \/ LogAppend(c) \/ ContinueAdopt(c)
         /\ pc'[c] = "append" => /\ LogBuild(c) /\ UNCHANGED <<local, item>>
                                 /\ tag' = [tag EXCEPT ![LogOf(item[c])] = IdsOf(local[c])]
                                 /\ fields' = [fields EXCEPT ![LogOf(item[c])] = baggage[c]]
<1> USE DEF ctxVars, spanVars, eventVars
<1>0. pc \in [Contexts -> PCs] BY DEF IInv, TypeInv, TypeOK
<1>1. ASSUME pc'[c] = "append"
      PROVE  /\ LogBuild(c) /\ UNCHANGED <<local, item>>
             /\ tag' = [tag EXCEPT ![LogOf(item[c])] = IdsOf(local[c])]
             /\ fields' = [fields EXCEPT ![LogOf(item[c])] = baggage[c]]
  <2>1. LogRead(c) \/ LogBuild(c) BY <1>1, ItemsMove DEF Levelling
  <2>2. ~LogRead(c) BY <1>0, <1>1 DEF LogRead, Goto
  <2> QED BY <1>0, <1>1, <2>1, <2>2 DEF LogBuild, Goto, localVars
<1>2. CASE Begin(c) BY <1>1, <1>2
<1>3. CASE End(c)
  BY <1>1, <1>3 DEF End, CloseUnchanged, EndLoad, EndClose, EndWorker, EndDetach, EndSwap, EndSubmit,
                    EndRelease
<1>4. CASE Log(c) BY <1>1, <1>4 DEF Log, LogUnchanged, LogRead, LogOrphan
<1>5. CASE Sweep(c)
  BY <1>1, <1>5 DEF Sweep, SweepUnchanged, SweepBegin, SweepSpan, SweepLoad, SweepSwap, SweepSubmit,
                    SweepEnd
<1>6. CASE Context(c)
  BY <1>1, <1>6 DEF Context, SetBaggage, ContinueCheck, ResetContext, Spawn
<1> QED BY <1>2, <1>3, <1>4, <1>5, <1>6

\* A root span that is moved to an inbound trace, and is not shared, has all its events at hand.
LEMMA AllAtHand ==
  ASSUME IInv, NEW c \in Contexts, pc[c] = "adopt", IsRoot(CurrentSpan(c)),
         CurrentSpan(c) \notin shared
  PROVE  /\ CurrentSpan(c) \in Spans
         /\ \A e \in Events : at[e] # None /\ at[e][1] = CurrentSpan(c) => at[e] = ListOf(CurrentSpan(c))
<1>0. TypeInv /\ ListInv /\ SweptInv /\ CloseInv BY DEF IInv
<1> DEFINE x == CurrentSpan(c)
<1>1. x \in Spans /\ \E j \in DOMAIN stack[c] : x = stack[c][j]
  BY CurrentOnStack DEF IsRoot
<1>2. PICK i \in DOMAIN frames[c] : frames[c][i].span = x BY <1>1, SpanOnStack
<1>3. x \notin sealed BY <1>0, <1>2 DEF CloseInv
<1>4. ~swept[x] BY <1>0 DEF SweptInv
<1>5. gen[x] \in Nat /\ gen[x] >= 1 BY <1>0, <1>1 DEF TypeInv, TypeOK, ListInv
<1>6. gen[x] = 1 BY <1>0, <1>1, <1>3, <1>4, <1>5 DEF SweptInv
<1>7. ASSUME NEW e \in Events, at[e] # None, at[e][1] = x PROVE at[e] = ListOf(x)
  <2>1. at[e] \in Lists /\ 1 <= at[e][2] /\ at[e][2] <= gen[x]
    BY <1>0, <1>7 DEF TypeInv, TypeOK, ListInv
  <2> QED BY <1>6, <1>7, <2>1 DEF ListOf, Lists
<1> QED BY <1>1, <1>7

LEMMA TraceStep == IInv /\ [Next]_vars => TraceInv'
<1> SUFFICES ASSUME IInv, [Next]_vars PROVE TraceInv' OBVIOUS
<1> DEFINE O(e) == at[e] # None => /\ at[e][1] \in opened
                                   /\ at[e][1] \notin shared => tag[e] = IdsOf(at[e][1])
           A(c) == pc[c] = "append" /\ local[c] \notin shared => tag[LogOf(item[c])] = IdsOf(local[c])
<1>0. TypeInv /\ PcInv /\ BuiltInv /\ ListInv /\ TraceInv BY DEF IInv
<1>1. /\ at \in [Events -> Lists \cup {None}] /\ pc \in [Contexts -> PCs] /\ opened \subseteq Spans
      /\ tag \in [Events -> (Traces \X (Traces \cup {None})) \cup {None}]
      /\ trace \in [Spans -> Traces] /\ parent \in [Spans -> Traces \cup {None}]
      /\ \A ls \in Lists : ls[1] \in Spans /\ ls # None
  BY <1>0, SpansAssumption DEF TypeInv, TypeOK, Lists
<1>2. /\ \A e \in Events : O(e) BY <1>0 DEF TraceInv, OneTracePerSpan
<1>3. /\ \A c \in Contexts : A(c) BY <1>0 DEF TraceInv
<1>4. opened \subseteq opened' /\ shared \subseteq shared' BY Growing
<1>5. \A c \in Contexts : pc[c] = "append" =>
         /\ local[c] \in Spans /\ local[c] \in opened /\ local[c] = CurrentSpan(c)
         /\ CurrentSpan(c) # None /\ item[c] \in Logs /\ LogOf(item[c]) \in Events
         /\ at[LogOf(item[c])] = None
  <2> TAKE c \in Contexts
  <2> HAVE pc[c] = "append"
  <2>1. stack[c] # <<>> /\ local[c] = CurrentSpan(c) /\ item[c] \in Logs
    BY <1>0 DEF PcInv, Levelling
  <2>2. CurrentSpan(c) # None BY <1>0, <2>1, CurrentSpanType
  <2>3. at[LogOf(item[c])] = None BY <1>0 DEF BuiltInv, Levelling, FreshEvent
  <2> QED BY <2>1, <2>2, <2>3, CurrentOnStack, EventFacts
<1>6. ASSUME \A e \in Events : O(e)', \A c \in Contexts : A(c)' PROVE TraceInv'
  BY <1>6 DEF TraceInv, OneTracePerSpan
<1>7. ASSUME NEW c \in Contexts, Begin(c) PROVE TraceInv'
  <2>1. PICK f \in Frame, s \in Spans \ opened : Opens(c, f, s) BY <1>7, BeginForm
  <2>2. UNCHANGED <<shared, pc, local, item>> BY <2>1 DEF Opens
  <2>3. CASE f.span # s
    <3>1. UNCHANGED <<opened, trace, parent, at, tag>> BY <2>1, <2>3 DEF Opens
    <3> QED BY <1>2, <1>3, <1>6, <2>2, <3>1 DEF IdsOf
  <2>4. CASE f.span = s
    <3> DEFINE ids == InheritedIds(c, s)
    <3>1. /\ opened' = opened \cup {s}
          /\ trace' = [trace EXCEPT ![s] = ids[1]] /\ parent' = [parent EXCEPT ![s] = ids[2]]
          /\ at' = [at EXCEPT ![StartOf(s)] = ListOf(s)] /\ tag' = [tag EXCEPT ![StartOf(s)] = ids]
      BY <2>1, <2>4 DEF Opens, OpenSpan
    <3>2. ids = <<ids[1], ids[2]>> BY <1>0, InheritedIdsType
    <3> HIDE DEF ids
    <3>3. IdsOf(s)' = ids /\ \A t \in Spans : t # s => IdsOf(t)' = IdsOf(t)
      BY <1>1, <3>1, <3>2 DEF IdsOf
    <3>4. ListOf(s)[1] = s /\ StartOf(s) \in Events BY <1>0, ListOfType, EventFacts
    <3>5. ASSUME NEW e \in Events PROVE O(e)'
      <4>1. CASE e = StartOf(s)
        <5>1. at'[e] = ListOf(s) /\ tag'[e] = ids BY <1>1, <3>1, <4>1
        <5>2. (at[e][1])' = s BY <3>4, <5>1
        <5>3. (tag[e] = IdsOf(s))' BY <3>3, <5>1
        <5> QED BY <3>1, <5>2, <5>3 DEF IdsOf
      <4>2. CASE e # StartOf(s) /\ at[e] # None
        <5>1. at'[e] = at[e] /\ tag'[e] = tag[e] BY <1>1, <3>1, <4>2
        <5>2. PICK t \in opened : t = at[e][1] /\ (t \notin shared => tag[e] = IdsOf(t))
          BY <1>2, <4>2
        <5>3. t # s /\ t \in Spans BY <1>1
        <5>4. t \notin shared => tag'[e] = IdsOf(t)' BY <3>3, <5>1, <5>2, <5>3
        <5> QED BY <2>2, <3>1, <5>1, <5>2, <5>4 DEF IdsOf
      <4>3. CASE e # StartOf(s) /\ at[e] = None BY <1>1, <3>1, <4>3
      <4> QED BY <4>1, <4>2, <4>3
    <3>6. ASSUME NEW d \in Contexts PROVE A(d)'
      <4>1. ASSUME pc[d] = "append", local[d] \notin shared
            PROVE  tag'[LogOf(item[d])] = IdsOf(local[d])'
        <5>1. PICK t \in opened : t = local[d] /\ tag[LogOf(item[d])] = IdsOf(t)
          BY <1>3, <1>5, <4>1
        <5>2. t # s /\ t \in Spans BY <1>1
        <5>3. LogOf(item[d]) # StartOf(s) /\ LogOf(item[d]) \in Events BY <1>5, <4>1, EventFacts
        <5>4. tag'[LogOf(item[d])] = IdsOf(t)' BY <1>1, <3>1, <3>3, <5>1, <5>2, <5>3
        <5> QED BY <2>2, <5>1, <5>4 DEF IdsOf
      <4> QED BY <2>2, <4>1 DEF LogOf
    <3> QED BY <1>6, <3>5, <3>6
  <2> QED BY <2>3, <2>4
<1>8. ASSUME NEW c \in Contexts, EndAppend(c) PROVE TraceInv'
  <2>1. /\ at' = [at EXCEPT ![EndOf(local[c])] = ref[c]]
        /\ tag' = [tag EXCEPT ![EndOf(local[c])] = IdsOf(local[c])]
        /\ UNCHANGED <<local, item, opened, trace, parent, shared>> /\ pc[c] = "end"
    BY <1>8 DEF EndAppend, CloseUnchanged, At
  <2>2. /\ local[c] \in Spans /\ local[c] \in opened BY <2>1, EndingSpan DEF Ending
  <2>3. ref[c][1] = local[c] BY <1>0, <2>1 DEF ListInv
  <2>4. EndOf(local[c]) \in Events BY <2>2, EventFacts
  <2>5. ASSUME NEW e \in Events PROVE O(e)'
    <3>1. CASE e = EndOf(local[c])
      <4>1. at'[e] = ref[c] /\ tag'[e] = IdsOf(local[c]) BY <1>1, <2>1, <2>4, <3>1
      <4> QED BY <2>1, <2>2, <2>3, <4>1 DEF IdsOf
    <3>2. CASE e # EndOf(local[c])
      <4>1. at'[e] = at[e] /\ tag'[e] = tag[e] BY <1>1, <2>1, <3>2
      <4> QED BY <1>2, <2>1, <4>1 DEF IdsOf
    <3> QED BY <3>1, <3>2
  <2>6. ASSUME NEW d \in Contexts PROVE A(d)'
    <3>1. pc'[d] = "append" => pc[d] = "append"
      BY <1>1, <1>8 DEF EndAppend, Goto
    <3>2. pc[d] = "append" => tag'[LogOf(item[d])] = tag[LogOf(item[d])]
      BY <1>1, <1>5, <2>1, <2>2, EventFacts
    <3> QED BY <1>3, <2>1, <3>1, <3>2 DEF IdsOf, LogOf
  <2> QED BY <1>6, <2>5, <2>6
<1>9. ASSUME NEW c \in Contexts, LogBuild(c) PROVE TraceInv'
  <2>1. /\ UNCHANGED <<at, opened, trace, parent, shared>> /\ pc[c] = "build" /\ OthersStill(c)
        /\ UNCHANGED tag \/ tag' = [tag EXCEPT ![LogOf(item[c])] = IdsOf(local[c])]
    BY <1>9, OthersStillStep DEF LogBuild, LogUnchanged, spanVars, At, Log
  <2>2. /\ item[c] \in Logs /\ FreshEvent(LogOf(item[c])) /\ LogOf(item[c]) \in Events
        /\ \A d \in Contexts : item[d] = item[c] => d = c
    BY <1>0, <2>1, EventFacts DEF PcInv, BuiltInv, Levelling
  <2>3. ASSUME NEW e \in Events PROVE O(e)'
    <3>1. at[e] # None => tag'[e] = tag[e] BY <1>1, <2>1, <2>2 DEF FreshEvent
    <3> QED BY <1>2, <2>1, <3>1 DEF IdsOf
  <2>4. A(c)'
    <3>1. ASSUME pc'[c] = "append" PROVE tag'[LogOf(item[c])] = IdsOf(local[c]) /\ UNCHANGED <<local, item>>
      <4>1. /\ UNCHANGED <<local, item>> /\ tag' = [tag EXCEPT ![LogOf(item[c])] = IdsOf(local[c])]
        BY <1>9, <3>1, IdsMove DEF Log
      <4> QED BY <1>1, <2>2, <4>1
    <3> QED BY <2>1, <3>1 DEF IdsOf, LogOf
  <2>5. ASSUME NEW d \in Contexts, d # c PROVE A(d)'
    <3>1. pc'[d] = pc[d] /\ item'[d] = item[d] /\ local'[d] = local[d] BY <2>1, <2>5 DEF OthersStill
    <3>2. pc[d] = "append" => tag'[LogOf(item[d])] = tag[LogOf(item[d])]
      BY <1>1, <1>5, <2>1, <2>2, <2>5, EventFacts
    <3> QED BY <1>3, <2>1, <3>1, <3>2 DEF IdsOf, LogOf
  <2> QED BY <1>6, <2>3, <2>4, <2>5
<1>10. ASSUME NEW c \in Contexts, LogAppend(c) PROVE TraceInv'
  <2>1. /\ at' = [at EXCEPT ![LogOf(item[c])] = ListOf(local[c])] /\ pc[c] = "append" /\ OthersStill(c)
        /\ UNCHANGED <<tag, opened, trace, parent, shared>> /\ pc'[c] = "run"
    BY <1>1, <1>10, OthersStillStep DEF LogAppend, LogUnchanged, spanVars, At, Goto, Log
  <2>2. ListOf(local[c])[1] = local[c] BY <1>0, <1>5, <2>1, ListOfType
  <2>3. ASSUME NEW e \in Events PROVE O(e)'
    <3>1. CASE e = LogOf(item[c])
      <4>1. at'[e] = ListOf(local[c]) /\ tag'[e] = tag[e] BY <1>1, <2>1, <3>1
      <4> QED BY <1>3, <1>5, <2>1, <2>2, <3>1, <4>1 DEF IdsOf
    <3>2. CASE e # LogOf(item[c]) BY <1>1, <1>2, <2>1, <3>2 DEF IdsOf
    <3> QED BY <3>1, <3>2
  <2>4. ASSUME NEW d \in Contexts PROVE A(d)'
    <3>1. CASE d = c BY <2>1, <3>1
    <3>2. CASE d # c BY <1>3, <2>1, <3>2 DEF OthersStill, IdsOf, LogOf
    <3> QED BY <3>1, <3>2
  <2> QED BY <1>6, <2>3, <2>4
<1>11. ASSUME NEW c \in Contexts, ContinueAdopt(c) PROVE TraceInv'
  <2>1. /\ Reparent(CurrentSpan(c), item[c]) /\ pc[c] = "adopt" /\ pc'[c] = "run" /\ OthersStill(c)
        /\ UNCHANGED <<at, opened, shared>>
    BY <1>1, <1>11, OthersStillStep DEF ContinueAdopt, At, Goto, Context
  <2>2. CASE ~IsRoot(CurrentSpan(c))
    <3>1. UNCHANGED <<trace, parent, tag>> BY <2>1, <2>2 DEF Reparent
    <3>2. ASSUME NEW d \in Contexts PROVE A(d)'
      <4>1. CASE d = c BY <2>1, <4>1
      <4>2. CASE d # c BY <1>3, <2>1, <3>1, <4>2 DEF OthersStill, IdsOf, LogOf
      <4> QED BY <4>1, <4>2
    <3> QED BY <1>2, <1>6, <2>1, <3>1, <3>2 DEF IdsOf
  <2>3. CASE IsRoot(CurrentSpan(c))
    <3>1. PICK x \in Spans : x = CurrentSpan(c) /\ \E j \in DOMAIN stack[c] : x = stack[c][j]
      BY <2>3, CurrentOnStack DEF IsRoot
    <3>2. item[c] \in Inbound BY <1>0, <2>1 DEF PcInv
    <3>3. PICK ids : ids = AdoptedIds(item[c]) OBVIOUS
    <3>4. ids = <<ids[1], ids[2]>> BY <3>3 DEF AdoptedIds
    <3>5. /\ trace' = [trace EXCEPT ![x] = ids[1]] /\ parent' = [parent EXCEPT ![x] = ids[2]]
          /\ tag' = [e \in Events |-> IF at[e] = ListOf(x) THEN ids ELSE tag[e]]
      BY <2>1, <2>3, <3>1, <3>3 DEF Reparent
    <3>6. IdsOf(x)' = ids /\ \A t \in Spans : t # x => IdsOf(t)' = IdsOf(t)
      BY <1>1, <3>4, <3>5 DEF IdsOf
    <3>7. ListOf(x)[1] = x /\ ListOf(x) # None BY <1>0, ListOfType
    <3>8. ASSUME NEW e \in Events PROVE O(e)'
      <4>1. ASSUME at[e] # None, at[e][1] \notin shared PROVE tag'[e] = IdsOf(at[e][1])'
        <5>1. PICK t \in Spans : t = at[e][1] BY <1>1, <4>1
        <5>2. CASE t = x
          <6>1. at[e] = ListOf(x) BY <2>1, <2>3, <3>1, <4>1, <5>1, <5>2, AllAtHand
          <6>2. tag'[e] = IdsOf(t)' BY <3>5, <3>6, <5>2, <6>1
          <6> QED BY <2>1, <5>1, <6>2 DEF IdsOf
        <5>3. CASE t # x
          <6>1. at[e] # ListOf(x) BY <3>7, <5>1, <5>3
          <6>2. tag'[e] = tag[e] /\ tag[e] = IdsOf(t) BY <1>2, <3>5, <4>1, <5>1, <6>1
          <6>3. tag'[e] = IdsOf(t)' BY <3>6, <5>3, <6>2
          <6> QED BY <2>1, <5>1, <6>3 DEF IdsOf
        <5> QED BY <5>2, <5>3
      <4> QED BY <1>2, <2>1, <4>1 DEF IdsOf
    <3>9. ASSUME NEW d \in Contexts, d # c PROVE A(d)'
      <4>1. pc'[d] = pc[d] /\ item'[d] = item[d] /\ local'[d] = local[d] BY <2>1, <3>9 DEF OthersStill
      <4>2. ASSUME pc[d] = "append", local[d] \notin shared PROVE tag'[LogOf(item[d])] = IdsOf(local[d])'
        <5>1. PICK t \in Spans : t = local[d] /\ \E j \in DOMAIN stack[d] : t = stack[d][j]
          BY <1>5, <4>2, CurrentOnStack
        <5>2. t # x BY <3>1, <3>9, <4>2, <5>1, OneStack
        <5>3. tag'[LogOf(item[d])] = tag[LogOf(item[d])] BY <1>5, <3>5, <3>7, <4>2
        <5>4. tag'[LogOf(item[d])] = IdsOf(t)' BY <1>3, <3>6, <4>2, <5>1, <5>2, <5>3
        <5> QED BY <4>1, <5>1, <5>4 DEF IdsOf
      <4> QED BY <2>1, <4>1, <4>2 DEF IdsOf, LogOf
    <3>10. A(c)' BY <2>1
    <3> QED BY <1>6, <3>8, <3>9, <3>10
  <2> QED BY <2>2, <2>3
<1>12. ASSUME NEW c \in Contexts, Begin(c) \/ End(c) \/ Log(c) \/ Sweep(c) \/ Context(c),
              UNCHANGED <<opened, trace, parent, at, tag>>, pc'[c] # "append"
       PROVE  TraceInv'
  <2>1. OthersStill(c) BY <1>12, OthersStillStep
  <2>2. \A e \in Events : O(e)' BY <1>2, <1>4, <1>12 DEF IdsOf
  <2>3. ASSUME NEW d \in Contexts PROVE A(d)'
    <3>1. CASE d = c BY <1>12, <3>1
    <3>2. CASE d # c BY <1>3, <1>4, <1>12, <2>1, <3>2 DEF OthersStill, IdsOf, LogOf
    <3> QED BY <3>1, <3>2
  <2> QED BY <1>6, <2>2, <2>3
<1>13. ASSUME NEW c \in Contexts, Begin(c) \/ End(c) \/ Log(c) \/ Sweep(c) \/ Context(c)
       PROVE  TraceInv'
  BY <1>7, <1>8, <1>9, <1>10, <1>11, <1>12, <1>13, IdsMove
<1>14. CASE WorkerTake \/ UNCHANGED vars
  BY <1>2, <1>3, <1>6, <1>14 DEF WorkerTake, vars, localVars, spanVars, eventVars, IdsOf, LogOf
<1> QED BY <1>13, <1>14 DEF Next, Terminated

----------------------------------------------------------------------------
(* The boundary events carry the baggage of the level calls                *)

\* The span that a context works on was opened; unless it is shared, the context's own call opened
\* it, and pushed it if the context is not closing it.
LEMMA WorksOn ==
  ASSUME IInv, NEW c \in Contexts, pc[c] \in Ending \cup SweepingOf \cup Levelling
  PROVE  /\ local[c] \in Spans /\ local[c] \in opened /\ local[c] # None
         /\ local[c] \notin shared => \E i \in DOMAIN frames[c] :
               /\ frames[c][i].span = local[c]
               /\ pc[c] \notin Ending => frames[c][i].token # None
<1>0. TypeInv /\ PcInv BY DEF IInv
<1>1. CASE pc[c] \in Ending BY <1>1, EndingSpan
<1>2. CASE pc[c] \in SweepingOf
  <2>1. idx[c] \in DOMAIN stack[c] /\ local[c] = stack[c][idx[c]] BY <1>0, <1>2 DEF PcInv
  <2> QED BY <2>1, SpanOnStack
<1>3. CASE pc[c] \in Levelling
  <2>1. stack[c] # <<>> /\ local[c] = CurrentSpan(c) BY <1>0, <1>3 DEF PcInv
  <2>2. \E j \in DOMAIN stack[c] : local[c] = stack[c][j] BY <1>0, <2>1, CurrentSpanType
  <2> QED BY <2>2, SpanOnStack
<1> QED BY <1>1, <1>2, <1>3

\* Two contexts that work on one span share it.
LEMMA OneWorker ==
  ASSUME IInv, NEW c \in Contexts, NEW d \in Contexts,
         pc[c] \in Ending \cup SweepingOf \cup Levelling,
         pc[d] \in Ending \cup SweepingOf \cup Levelling,
         local[c] = local[d], local[c] \notin shared
  PROVE  c = d
<1>0. FrameInv BY DEF IInv
<1>1. PICK i \in DOMAIN frames[c] : frames[c][i].span = local[c] BY WorksOn
<1>2. PICK j \in DOMAIN frames[d] : frames[d][j].span = local[d] BY WorksOn
<1>3. local[c] # None BY WorksOn
<1> QED BY <1>0, <1>1, <1>2, <1>3 DEF FrameInv

\* The event that a step appends was in no list before.
LEMMA AppendsTo ==
  ASSUME IInv, NEW c \in Contexts, Begin(c) \/ End(c) \/ Log(c) \/ Sweep(c) \/ Context(c),
         NEW e \in Events, at'[e] # at[e]
  PROVE  /\ at[e] = None /\ at'[e] \in Lists /\ UNCHANGED <<fields, gen>>
         /\ \/ Begin(c) /\ \E s \in Spans \ opened : e = StartOf(s) /\ at'[e] = ListOf(s)
            \/ EndAppend(c) /\ e = EndOf(local[c]) /\ at'[e] = ref[c]
            \/ LogAppend(c) /\ e = LogOf(item[c]) /\ at'[e] = ListOf(local[c])
<1>0. TypeInv /\ ListInv BY DEF IInv
<1>1. at \in [Events -> Lists \cup {None}] BY <1>0 DEF TypeInv, TypeOK
<1>2. at[e] = None BY AppendedIsFresh DEF FreshEvent
<1>3. at'[e] \in Lists
  <2>1. at' \in [Events -> Lists \cup {None}] BY TypeStep DEF TypeInv, TypeOK, Next
  <2> QED BY <1>2, <2>1
<1>4. CASE Begin(c) /\ \E s \in opened' \ opened : e = StartOf(s)
  <2>1. PICK f \in Frame, s \in Spans \ opened : Opens(c, f, s) BY <1>4, BeginForm
  <2>2. e = StartOf(s) /\ at'[e] = ListOf(s) BY <1>1, <1>4, <2>1 DEF Opens, OpenSpan
  <2> QED BY <1>2, <1>3, <1>4, <2>1, <2>2 DEF Opens
<1>5. CASE EndAppend(c) /\ e = EndOf(local[c]) BY <1>1, <1>2, <1>3, <1>5 DEF EndAppend
<1>6. CASE LogAppend(c) /\ e = LogOf(item[c])
  BY <1>1, <1>2, <1>3, <1>6 DEF LogAppend, LogUnchanged, spanVars
<1>7. ~LogOrphan(c) BY DEF LogOrphan, eventVars
<1> QED BY <1>4, <1>5, <1>6, <1>7, EventsMove

\* A backfill of the span s from the context's baggage.
Backfills(c, s) ==
    /\ \/ pc[c] = "close" /\ s = local[c] /\ pc'[c] = "worker"
       \/ /\ pc[c] = "sweep" /\ idx[c] \in DOMAIN stack[c] /\ s = stack[c][idx[c]]
          /\ pc'[c] = "sweepLoad"
    /\ local'[c] = s /\ Backfill(s, baggage[c])
    /\ UNCHANGED <<at, gen, frames, baggage, shared>>

\* Who changes the baggage fields of the events.
LEMMA FieldsMove ==
  ASSUME IInv, NEW c \in Contexts, Begin(c) \/ End(c) \/ Log(c) \/ Sweep(c) \/ Context(c)
  PROVE  /\ \/ UNCHANGED fields \/ \E s \in Spans : Backfills(c, s)
            \/ /\ LogBuild(c) /\ pc'[c] = "append" /\ UNCHANGED at
               /\ fields' = [fields EXCEPT ![LogOf(item[c])] = baggage[c]]
         /\ pc'[c] \in Backfilled => \/ pc[c] \in Backfilled /\ local'[c] = local[c]
                                     \/ \E s \in Spans : Backfills(c, s)
         /\ pc'[c] = "end" => EndLoad(c)
<1> USE DEF ctxVars, localVars, spanVars, eventVars, At, Goto, Backfilled
<1>0. TypeInv BY DEF IInv
<1>1. pc \in [Contexts -> PCs] /\ local \in [Contexts -> Spans \cup {None}]
  BY <1>0 DEF TypeInv, TypeOK
<1>2. CASE Begin(c) BY <1>2 DEF Begin
<1>3. CASE EndClose(c)
  <2>1. local[c] \in Spans BY <1>3, EndingSpan DEF EndClose, Ending
  <2>2. Backfills(c, local[c]) BY <1>1, <1>3 DEF EndClose, CloseUnchanged, Backfills
  <2>3. pc'[c] = "worker" BY <1>1, <1>3 DEF EndClose
  <2> QED BY <2>1, <2>2, <2>3
<1>4. CASE End(c) /\ ~EndClose(c)
  <2>1. UNCHANGED fields
    BY <1>4 DEF End, EndLoad, EndAppend, EndWorker, EndDetach, EndSwap, EndSubmit, EndRelease
  <2>2. pc'[c] \in Backfilled => pc[c] \in Backfilled /\ local'[c] = local[c]
    BY <1>1, <1>4 DEF End, EndLoad, EndAppend, EndWorker, EndDetach, EndSwap, EndSubmit, EndRelease
  <2>3. pc'[c] = "end" => EndLoad(c)
    BY <1>1, <1>4 DEF End, EndAppend, EndWorker, EndDetach, EndSwap, EndSubmit, EndRelease
  <2> QED BY <2>1, <2>2, <2>3
<1>5. CASE Log(c)
  <2>1. pc'[c] \notin Backfilled \cup {"end"}
    BY <1>1, <1>5 DEF Log, LogRead, LogBuild, LogAppend, LogOrphan
  <2>2. CASE ~LogBuild(c) BY <1>5, <2>1, <2>2 DEF Log, LogRead, LogAppend, LogOrphan
  <2>3. CASE LogBuild(c) BY <1>1, <2>1, <2>3 DEF LogBuild
  <2> QED BY <2>2, <2>3
<1>6. CASE SweepSpan(c)
  <2>1. idx[c] \in DOMAIN stack[c] /\ stack[c][idx[c]] \in Spans BY <1>0, <1>6, Typed DEF SweepSpan
  <2>2. pc'[c] \notin {"worker", "detach", "swap", "sweepSwap", "end"} BY <1>1, <1>6 DEF SweepSpan
  <2>3. (UNCHANGED fields /\ pc'[c] # "sweepLoad") \/ Backfills(c, stack[c][idx[c]])
    BY <1>1, <1>6 DEF SweepSpan, SweepUnchanged, SweepBackfill, Backfills
  <2> QED BY <2>1, <2>2, <2>3
<1>7. CASE Sweep(c) /\ ~SweepSpan(c)
  <2>1. UNCHANGED fields BY <1>7 DEF Sweep, SweepBegin, SweepLoad, SweepSwap, SweepSubmit, SweepEnd
  <2>2. /\ pc'[c] # "end"
        /\ pc'[c] \in Backfilled => pc[c] \in Backfilled /\ local'[c] = local[c]
    BY <1>1, <1>7 DEF Sweep, SweepBegin, SweepLoad, SweepSwap, SweepSubmit, SweepEnd
  <2> QED BY <2>1, <2>2
<1>8. CASE Context(c)
  BY <1>1, <1>8 DEF Context, SetBaggage, ContinueCheck, ContinueAdopt, ResetContext, Spawn
<1> QED BY <1>2, <1>3, <1>4, <1>5, <1>6, <1>7, <1>8

\* A list that is filled stays so, unless something is appended to it.
LEMMA StaysFilled ==
  ASSUME IInv, NEW c \in Contexts, Begin(c) \/ End(c) \/ Log(c) \/ Sweep(c) \/ Context(c),
         NEW ls \in Lists, Filled(ls), \A e \in Events : at'[e] = ls => at[e] = ls
  PROVE  Filled(ls)'
<1>0. TypeInv /\ PcInv /\ BuiltInv BY DEF IInv
<1>1. /\ fields \in [Events -> SUBSET Keys] /\ ls # None
      /\ \A e, f \in Events : at[e] = ls /\ at[f] = ls /\ f \in Boundary => fields[e] \subseteq fields[f]
  BY <1>0, SpansAssumption DEF TypeInv, TypeOK, Lists, Filled, Content
<1>2. SUFFICES ASSUME NEW e \in Events, NEW f \in Events, at[e] = ls, at[f] = ls, f \in Boundary
               PROVE  fields'[e] \subseteq fields'[f]
  BY DEF Filled, Content
<1>3. CASE UNCHANGED fields BY <1>1, <1>2, <1>3
<1>4. CASE \E s \in Spans : Backfills(c, s)
  <2>1. PICK s \in Spans : Backfill(s, baggage[c]) BY <1>4 DEF Backfills
  <2>2. /\ fields'[e] = IF e \in Boundary /\ at[e] = ListOf(s) THEN fields[e] \cup baggage[c]
                                                               ELSE fields[e]
        /\ fields'[f] = IF f \in Boundary /\ at[f] = ListOf(s) THEN fields[f] \cup baggage[c]
                                                               ELSE fields[f]
    BY <2>1 DEF Backfill
  <2> QED BY <1>1, <1>2, <2>2
<1>5. CASE /\ LogBuild(c) /\ fields' = [fields EXCEPT ![LogOf(item[c])] = baggage[c]]
  <2>1. at[LogOf(item[c])] = None BY <1>0, <1>5 DEF LogBuild, At, BuiltInv, Levelling, FreshEvent
  <2>2. fields'[e] = fields[e] /\ fields'[f] = fields[f] BY <1>1, <1>2, <1>5, <2>1
  <2> QED BY <1>1, <1>2, <2>2
<1> QED BY <1>3, <1>4, <1>5, FieldsMove

\* A detach of one span leaves the lists of the others alone.
LEMMA GenMoves ==
  ASSUME IInv, NEW c \in Contexts, Begin(c) \/ End(c) \/ Log(c) \/ Sweep(c) \/ Context(c),
         NEW s \in Spans, gen'[s] # gen[s]
  PROVE  /\ pc[c] \in {"swap", "sweepSwap"} /\ pc'[c] \in Submitting /\ s = local[c]
         /\ gen'[s] = gen[s] + 1 /\ UNCHANGED at
<1>0. gen \in [Spans -> Nat] BY DEF IInv, TypeInv, TypeOK
<1>1. CASE EndSwap(c) \/ SweepSwap(c) BY <1>0, <1>1, SwapDetaches DEF Detaches
<1>2. CASE ~(EndSwap(c) \/ SweepSwap(c))
  <2> USE DEF spanVars
  <2>1. CASE Begin(c) BY <2>1 DEF Begin
  <2>2. CASE End(c)
    BY <1>2, <2>2 DEF End, EndLoad, EndAppend, EndClose, EndWorker, EndDetach, EndSubmit, EndRelease
  <2>3. CASE Log(c) BY <2>3 DEF Log, LogUnchanged, LogRead, LogBuild, LogAppend, LogOrphan
  <2>4. CASE Sweep(c)
    BY <1>2, <2>4 DEF Sweep, SweepBegin, SweepSpan, SweepLoad, SweepSubmit, SweepEnd
  <2>5. CASE Context(c)
    BY <2>5 DEF Context, SetBaggage, ContinueCheck, ContinueAdopt, ResetContext, Spawn
  <2> QED BY <2>1, <2>2, <2>3, <2>4, <2>5
<1> QED BY <1>1, <1>2

\* What a backfill adds is all that the list's events can carry.
LEMMA BackfillFills ==
  ASSUME IInv, resets = 0, NEW c \in Contexts, NEW s \in Spans \ shared, Backfills(c, s)
  PROVE  Filled(ListOf(s))'
<1>0. TypeInv /\ PcInv /\ CarryInv BY DEF IInv
<1>1. PICK i \in DOMAIN frames[c] : frames[c][i].span = s
  <2>1. CASE pc[c] = "close" /\ s = local[c] BY <2>1, WorksOn DEF Ending
  <2>2. CASE idx[c] \in DOMAIN stack[c] /\ s = stack[c][idx[c]] BY <2>2, SpanOnStack
  <2> QED BY <2>1, <2>2 DEF Backfills
<1>2. pc[c] \notin Ended \ {"close"} BY DEF Backfills, Ended
<1>3. PICK ls : ls = ListOf(s) OBVIOUS
<1>4. ls[1] = s /\ ls # None BY <1>0, <1>3, ListOfType
<1>5. ASSUME NEW e \in Events, at[e] = ls PROVE fields[e] \subseteq baggage[c]
  <2>1. fields[e] \subseteq (IF frames[c][i].token = None THEN {} ELSE baggage[c])
    BY <1>0, <1>1, <1>2, <1>4, <1>5 DEF CarryInv
  <2> QED BY <2>1
<1>6. Backfill(s, baggage[c]) /\ UNCHANGED <<at, gen>> BY DEF Backfills
<1>7. ASSUME NEW e \in Events, NEW f \in Events, at[e] = ls, at[f] = ls, f \in Boundary
      PROVE  fields'[e] \subseteq fields'[f]
  <2>1. /\ fields'[e] = IF e \in Boundary THEN fields[e] \cup baggage[c] ELSE fields[e]
        /\ fields'[f] = fields[f] \cup baggage[c]
    BY <1>3, <1>6, <1>7 DEF Backfill
  <2> QED BY <1>5, <1>7, <2>1
<1>8. ListOf(s)' = ls BY <1>3, <1>6 DEF ListOf
<1> QED BY <1>6, <1>7, <1>8 DEF Filled, Content

\* Only reset_context counts a reset.
LEMMA ResetsMove ==
  ASSUME [Next]_vars
  PROVE  UNCHANGED resets \/ \E c \in Contexts : ResetContext(c) /\ resets' = resets + 1
<1> USE DEF countVars
<1>1. ASSUME NEW c \in Contexts, Begin(c) PROVE UNCHANGED resets BY <1>1 DEF Begin
<1>2. ASSUME NEW c \in Contexts, End(c) PROVE UNCHANGED resets
  BY <1>2 DEF End, CloseUnchanged, EndLoad, EndAppend, EndClose, EndWorker, EndDetach, EndSwap,
              EndSubmit, EndRelease
<1>3. ASSUME NEW c \in Contexts, Log(c) PROVE UNCHANGED resets
  BY <1>3 DEF Log, LogUnchanged, LogRead, LogBuild, LogAppend, LogOrphan
<1>4. ASSUME NEW c \in Contexts, Sweep(c) PROVE UNCHANGED resets
  BY <1>4 DEF Sweep, SweepUnchanged, SweepBegin, SweepSpan, SweepLoad, SweepSwap, SweepSubmit, SweepEnd
<1>5. ASSUME NEW c \in Contexts, Context(c)
      PROVE  UNCHANGED resets \/ (ResetContext(c) /\ resets' = resets + 1)
  <2>1. CASE ResetContext(c) BY <2>1 DEF ResetContext
  <2>2. CASE SetBaggage(c) \/ ContinueCheck(c) \/ ContinueAdopt(c) \/ Spawn(c)
    BY <2>2 DEF SetBaggage, ContinueCheck, ContinueAdopt, Spawn
  <2> QED BY <1>5, <2>1, <2>2 DEF Context
<1> QED BY <1>1, <1>2, <1>3, <1>4, <1>5 DEF Next, Terminated, WorkerTake, vars

LEMMA FilledStep == IInv /\ [Next]_vars => FilledInv'
<1> SUFFICES ASSUME IInv, [Next]_vars PROVE FilledInv' OBVIOUS
<1> DEFINE L(c) == pc[c] = "end" /\ local[c] \notin shared => ref[c] = ListOf(local[c])
           A(c) == pc[c] = "append" => fields[LogOf(item[c])] = baggage[c]
           B(c) == pc[c] \in Backfilled /\ local[c] \notin shared => Filled(ListOf(local[c]))
<1>0. TypeInv /\ PcInv /\ BuiltInv /\ ListInv /\ FilledInv BY DEF IInv
<1>1. /\ fields \in [Events -> SUBSET Keys] /\ at \in [Events -> Lists \cup {None}]
      /\ gen \in [Spans -> Nat] /\ pc \in [Contexts -> PCs] /\ opened \subseteq Spans
      /\ local \in [Contexts -> Spans \cup {None}] /\ None \notin Lists
      /\ \A c \in Contexts : L(c) /\ A(c) /\ (resets = 0 => B(c))
  BY <1>0, SpansAssumption DEF TypeInv, TypeOK, FilledInv, Lists
<1>2. resets' = 0 => resets = 0 BY <1>0, ResetsMove DEF TypeInv
<1>3. ASSUME NEW c \in Contexts, Begin(c) \/ End(c) \/ Log(c) \/ Sweep(c) \/ Context(c)
      PROVE  FilledInv'
  <2>0. OthersStill(c) BY <1>3, OthersStillStep
  <2>a. shared \subseteq shared' BY Growing
  <2>1. ASSUME NEW e \in Boundary, at'[e] = None PROVE fields'[e] = {}
    <3>1. e \in Events BY DEF Events
    <3>2. at[e] = None BY <1>1, <1>3, <2>1, <3>1, AppendsTo
    <3>3. fields[e] = {} BY <1>0, <3>2 DEF FilledInv
    <3>4. CASE UNCHANGED fields BY <3>3, <3>4
    <3>5. ASSUME NEW s \in Spans, Backfills(c, s) PROVE fields'[e] = fields[e]
      <4>1. ListOf(s) # None BY <1>0, ListOfType
      <4> QED BY <3>1, <3>2, <3>5, <4>1 DEF Backfills, Backfill
    <3>6. CASE LogBuild(c) /\ fields' = [fields EXCEPT ![LogOf(item[c])] = baggage[c]]
      <4>1. item[c] \in Logs BY <1>0, <3>6 DEF LogBuild, At, PcInv, Levelling
      <4>2. e # LogOf(item[c]) BY <4>1, EventFacts DEF Boundary
      <4> QED BY <1>1, <3>1, <3>3, <3>6, <4>2
    <3> QED BY <1>3, <3>3, <3>4, <3>5, <3>6, FieldsMove
  <2>2. ASSUME NEW d \in Contexts PROVE L(d)'
    <3>1. CASE d = c
      <4>1. pc'[c] = "end" => EndLoad(c) BY <1>3, FieldsMove
      <4>2. EndLoad(c) /\ pc'[c] = "end" =>
              /\ ref'[c] = ListOf(Top(c).span) /\ local'[c] = Top(c).span /\ UNCHANGED gen
        BY <1>0, <1>1 DEF EndLoad, Goto, TypeInv, TypeOK
      <4> QED BY <3>1, <4>1, <4>2 DEF ListOf
    <3>2. CASE d # c
      <4>1. pc'[d] = pc[d] /\ local'[d] = local[d] /\ ref'[d] = ref[d] BY <2>0, <3>2 DEF OthersStill
      <4>2. ASSUME pc[d] = "end", local[d] \notin shared' PROVE ref[d] = <<local[d], gen'[local[d]]>>
        <5>1. local[d] \notin shared /\ local[d] \in Spans BY <2>a, <4>2, WorksOn DEF Ending
        <5>2. ref[d] = ListOf(local[d]) BY <1>1, <4>2, <5>1
        <5>3. gen'[local[d]] = gen[local[d]]
          <6>1. ASSUME gen'[local[d]] # gen[local[d]] PROVE FALSE
            <7>1. pc[c] \in {"swap", "sweepSwap"} /\ local[c] = local[d] BY <1>3, <5>1, <6>1, GenMoves
            <7> QED BY <3>2, <4>2, <5>1, <7>1, OneWorker DEF Ending, SweepingOf
          <6> QED BY <6>1
        <5> QED BY <5>2, <5>3 DEF ListOf
      <4> QED BY <4>1, <4>2 DEF ListOf
    <3> QED BY <3>1, <3>2
  <2>3. ASSUME NEW d \in Contexts PROVE A(d)'
    <3>1. CASE d = c
      <4>1. ASSUME pc'[c] = "append" PROVE fields'[LogOf(item'[c])] = baggage'[c]
        <5>1. /\ LogBuild(c) /\ UNCHANGED <<local, item>>
              /\ fields' = [fields EXCEPT ![LogOf(item[c])] = baggage[c]]
          BY <1>3, <4>1, IdsMove
        <5>2. item[c] \in Logs /\ UNCHANGED baggage
          BY <1>0, <5>1 DEF LogBuild, At, PcInv, Levelling, LogUnchanged, ctxVars
        <5>3. LogOf(item[c]) \in Events BY <5>2, EventFacts
        <5> QED BY <1>1, <5>1, <5>2, <5>3
      <4> QED BY <3>1, <4>1 DEF LogOf
    <3>2. CASE d # c
      <4>1. /\ pc'[d] = pc[d] /\ item'[d] = item[d] /\ (d \in live => baggage'[d] = baggage[d])
        BY <2>0, <3>2 DEF OthersStill
      <4>2. ASSUME pc[d] = "append" PROVE fields'[LogOf(item[d])] = baggage'[d]
        <5>1. d \in live /\ item[d] \in Logs /\ at[LogOf(item[d])] = None
          BY <1>0, <4>2 DEF PcInv, BuiltInv, Levelling, FreshEvent
        <5>2. LogOf(item[d]) \in Events /\ LogOf(item[d]) \notin Boundary
          BY <5>1, EventFacts DEF Boundary
        <5>3. CASE UNCHANGED fields BY <1>1, <4>1, <4>2, <5>1, <5>3
        <5>4. ASSUME NEW s \in Spans, Backfills(c, s) PROVE fields'[LogOf(item[d])] = fields[LogOf(item[d])]
          BY <5>2, <5>4 DEF Backfills, Backfill
        <5>5. CASE LogBuild(c) /\ fields' = [fields EXCEPT ![LogOf(item[c])] = baggage[c]]
          <6>1. item[c] \in Logs /\ item[c] # item[d]
            BY <1>0, <3>2, <5>5 DEF LogBuild, At, PcInv, BuiltInv, Levelling
          <6>2. LogOf(item[c]) # LogOf(item[d]) BY <5>1, <6>1, EventFacts
          <6> QED BY <1>1, <4>1, <4>2, <5>1, <5>2, <5>5, <6>2
        <5> QED BY <1>1, <1>3, <4>1, <4>2, <5>1, <5>3, <5>4, <5>5, FieldsMove
      <4> QED BY <4>1, <4>2 DEF LogOf
    <3> QED BY <3>1, <3>2
  <2>4. ASSUME resets' = 0, NEW s \in Spans \ shared', NEW g \in Nat, g < gen'[s]
        PROVE  Filled(<<s, g>>)'
    <3>0. resets = 0 /\ s \notin shared /\ <<s, g>> \in Lists /\ gen[s] \in Nat
      BY <1>1, <1>2, <2>4, <2>a DEF Lists
    <3>1. CASE g < gen[s]
      <4>1. Filled(<<s, g>>) BY <1>0, <3>0, <3>1 DEF FilledInv
      <4>2. ASSUME NEW e \in Events, at'[e] = <<s, g>>, at[e] # <<s, g>> PROVE FALSE
        <5>1. CASE \E t \in Spans \ opened : at'[e] = ListOf(t) BY <1>1, <3>0, <3>1, <4>2, <5>1 DEF ListOf
        <5>2. CASE EndAppend(c) /\ at'[e] = ref[c]
          <6>1. pc[c] = "end" BY <5>2 DEF EndAppend, At
          <6>2. ref[c][1] = local[c] BY <1>0, <6>1 DEF ListInv
          <6>3. local[c] = s BY <4>2, <5>2, <6>2
          <6>4. ref[c] = ListOf(s) BY <1>1, <3>0, <6>1, <6>3
          <6> QED BY <1>1, <3>0, <3>1, <4>2, <5>2, <6>4 DEF ListOf
        <5>3. CASE at'[e] = ListOf(local[c]) BY <1>1, <3>0, <3>1, <4>2, <5>3 DEF ListOf
        <5> QED BY <1>3, <4>2, <5>1, <5>2, <5>3, AppendsTo
      <4> QED BY <1>3, <3>0, <4>1, <4>2, StaysFilled
    <3>2. CASE ~(g < gen[s])
      <4>1. gen'[s] # gen[s] BY <2>4, <3>2
      <4>2. /\ pc[c] \in {"swap", "sweepSwap"} /\ s = local[c] /\ gen'[s] = gen[s] + 1 /\ UNCHANGED at
        BY <1>3, <4>1, GenMoves
      <4>3. g = gen[s] BY <2>4, <3>0, <3>2, <4>2
      <4>4. Filled(<<s, g>>) BY <1>1, <3>0, <4>2, <4>3 DEF Backfilled, ListOf
      <4> QED BY <1>3, <3>0, <4>2, <4>4, StaysFilled
    <3> QED BY <3>1, <3>2
  <2>5. ASSUME resets' = 0, NEW d \in Contexts, pc'[d] \in Backfilled, local'[d] \notin shared'
        PROVE  Filled(ListOf(local[d]))'
    <3>0. resets = 0 BY <1>2, <2>5
    <3>1. ASSUME pc[d] \in Backfilled, local'[d] = local[d] PROVE Filled(ListOf(local[d]))'
      <4>1. PICK s \in Spans : s = local[d] /\ s \in opened
        BY <3>1, WorksOn DEF Backfilled, Ending, SweepingOf
      <4>2. s \notin shared BY <2>5, <2>a, <3>1, <4>1
      <4>3. PICK ls \in Lists : ls = ListOf(s) BY <1>0, ListOfType
      <4>4. Filled(ls) BY <1>1, <3>0, <3>1, <4>1, <4>2, <4>3
      <4>5. ls[1] = s BY <1>0, <4>3, ListOfType
      <4>6. ASSUME NEW x \in Contexts, pc[x] \in {"swap", "sweepSwap", "end", "append"}, local[x] = s
            PROVE  x = d
        BY <3>1, <4>1, <4>2, <4>6, OneWorker DEF Backfilled, Ending, SweepingOf, Levelling
      <4>7. gen'[s] = gen[s]
        <5>1. ASSUME gen'[s] # gen[s] PROVE FALSE
          <6>1. pc[c] \in {"swap", "sweepSwap"} /\ pc'[c] \in Submitting /\ s = local[c]
            BY <1>3, <5>1, GenMoves
          <6>2. c = d BY <4>6, <6>1
          <6> QED BY <2>5, <6>1, <6>2 DEF Backfilled, Submitting
        <5> QED BY <5>1
      <4>8. ASSUME NEW e \in Events, at'[e] = ls, at[e] # ls PROVE FALSE
        <5>1. CASE \E t \in Spans \ opened : at'[e] = ListOf(t)
          <6>1. PICK t \in Spans \ opened : at'[e] = ListOf(t) BY <5>1
          <6>2. ListOf(t)[1] = t BY <1>0, ListOfType
          <6> QED BY <4>1, <4>5, <4>8, <6>1, <6>2
        <5>2. CASE EndAppend(c) /\ at'[e] = ref[c]
          <6>1. pc[c] = "end" BY <5>2 DEF EndAppend, At
          <6>2. ref[c][1] = local[c] BY <1>0, <6>1 DEF ListInv
          <6>3. local[c] = s BY <4>5, <4>8, <5>2, <6>2
          <6>4. c = d BY <4>6, <6>1, <6>3
          <6> QED BY <3>1, <6>1, <6>4 DEF Backfilled
        <5>3. CASE LogAppend(c) /\ at'[e] = ListOf(local[c])
          <6>1. pc[c] = "append" BY <5>3 DEF LogAppend, At
          <6>2. local[c] \in Spans BY <6>1, WorksOn DEF Levelling
          <6>3. local[c] = s BY <1>0, <4>5, <4>8, <5>3, <6>2, ListOfType
          <6>4. c = d BY <4>6, <6>1, <6>3
          <6> QED BY <3>1, <6>1, <6>4 DEF Backfilled
        <5> QED BY <1>3, <4>8, <5>1, <5>2, <5>3, AppendsTo
      <4>9. Filled(ls)' BY <1>3, <4>4, <4>8, StaysFilled
      <4>10. ListOf(local[d])' = ls BY <3>1, <4>1, <4>3, <4>7 DEF ListOf
      <4> QED BY <4>9, <4>10 DEF Filled, Content
    <3>2. CASE d # c
      <4>1. pc'[d] = pc[d] /\ local'[d] = local[d] BY <2>0, <3>2 DEF OthersStill
      <4> QED BY <2>5, <3>1, <4>1
    <3>3. CASE d = c /\ \E s \in Spans : Backfills(c, s)
      <4>1. PICK s \in Spans : Backfills(c, s) BY <3>3
      <4>2. local'[d] = s /\ UNCHANGED shared BY <3>3, <4>1 DEF Backfills
      <4>3. s \notin shared BY <2>5, <4>2
      <4>4. Filled(ListOf(s))' BY <3>0, <4>1, <4>3, BackfillFills
      <4> QED BY <4>2, <4>4 DEF Filled, Content, ListOf
    <3> QED BY <1>3, <2>5, <3>1, <3>2, <3>3, FieldsMove
  <2>6. \A d \in Contexts : L(d)' /\ A(d)' BY <2>2, <2>3
  <2> QED BY <2>1, <2>4, <2>5, <2>6 DEF FilledInv
<1>4. CASE WorkerTake \/ UNCHANGED vars
  <2>1. UNCHANGED <<at, fields, pc, local, shared, ref, gen, item, baggage, resets>>
    BY <1>4 DEF WorkerTake, vars, ctxVars, localVars, spanVars, eventVars, countVars
  <2> QED BY <1>0, <2>1 DEF FilledInv, Filled, Content, ListOf
<1> QED BY <1>3, <1>4 DEF Next, Terminated

\* An open call after a step is the one that has just opened, or was open before.
LEMMA FramesKept ==
  ASSUME IInv, NEW c \in Contexts, Begin(c) \/ End(c) \/ Log(c) \/ Sweep(c) \/ Context(c),
         NEW d \in Contexts, NEW i \in DOMAIN frames'[d],
         i < Len(frames'[d]) \/ pc'[d] \notin Ended \ {"close"}
  PROVE  \/ /\ i \in DOMAIN frames[d] /\ frames'[d][i] = frames[d][i]
            /\ i < Len(frames[d]) \/ pc[d] \notin Ended \ {"close"}
            /\ EndRelease(c) /\ c = d => i < Len(frames[d])
         \/ Begin(c) /\ \E s \in Spans \ opened : frames'[d][i].span \in {s, None}
<1>0. TypeInv /\ PcInv BY DEF IInv
<1>1. CASE d # c
  <2>1. OthersStill(c) BY OthersStillStep
  <2> QED BY <1>1, <2>1 DEF OthersStill
<1>2. CASE d = c /\ Begin(c)
  <2>1. PICK f \in Frame, s \in Spans \ opened : Opens(c, f, s) BY <1>2, BeginForm
  <2>2. /\ DOMAIN frames[c] = 1 .. Len(frames[c]) /\ Len(frames[c]) \in Nat
        /\ DOMAIN frames'[c] = 1 .. Len(frames[c]) + 1
        /\ \A k \in DOMAIN frames[c] : frames'[c][k] = frames[c][k]
        /\ frames'[c][Len(frames[c]) + 1] = f
    BY <1>0, <2>1, FramesGrow DEF Opens
  <2>3. pc[c] = "run" /\ ~EndRelease(c) BY <1>2 DEF Begin, EndRelease, At
  <2>4. CASE i \in DOMAIN frames[c] BY <1>2, <2>2, <2>3, <2>4 DEF Ended
  <2>5. CASE i = Len(frames[c]) + 1 BY <1>2, <2>1, <2>2, <2>5 DEF Opens
  <2> QED BY <1>2, <2>2, <2>4, <2>5
<1>3. CASE d = c /\ EndRelease(c)
  <2>1. frames[c] # <<>> /\ frames' = [frames EXCEPT ![c] = SubSeq(@, 1, Len(@) - 1)]
    BY <1>0, <1>3 DEF PcInv, EndRelease, At
  <2>2. /\ i \in DOMAIN frames[c] /\ i < Len(frames[c]) /\ frames'[c][i] = frames[c][i]
    BY <1>0, <1>3, <2>1, FramesShrink
  <2> QED BY <1>3, <2>2
<1>4. CASE d = c /\ UNCHANGED frames /\ ~EndRelease(c)
  <2>1. ASSUME pc[c] \in Ended \ {"close"} PROVE pc'[c] \in Ended \ {"close"}
    <3>1. pc'[c] \in Ended BY <1>4, <2>1, EndedStays DEF Ended
    <3>2. ~EndAppend(c) BY <2>1 DEF EndAppend, At, Ended
    <3>3. pc'[c] # "close"
      <4> USE DEF Goto
      <4>0. pc \in [Contexts -> PCs] BY <1>0 DEF TypeInv, TypeOK
      <4>1. CASE Begin(c) BY <2>1, <4>1 DEF Begin, Ended
      <4>2. CASE End(c)
        BY <3>2, <4>0, <4>2 DEF End, EndLoad, EndClose, EndWorker, EndDetach, EndSwap, EndSubmit,
                                EndRelease
      <4>3. CASE Log(c) BY <4>0, <4>3 DEF Log, LogRead, LogBuild, LogAppend, LogOrphan
      <4>4. CASE Sweep(c)
        BY <2>1, <4>0, <4>4 DEF Sweep, SweepBegin, SweepSpan, SweepLoad, SweepSwap, SweepSubmit, SweepEnd
      <4>5. CASE Context(c)
        BY <2>1, <4>0, <4>5 DEF Context, SetBaggage, ContinueCheck, ContinueAdopt, ResetContext, Spawn
      <4> QED BY <4>1, <4>2, <4>3, <4>4, <4>5
    <3> QED BY <3>1, <3>3
  <2> QED BY <1>4, <2>1
<1> QED BY <1>1, <1>2, <1>3, <1>4, CloseMoves

\* The baggage of a context with open calls shrinks only by a reset, and at the end of a call that
\* took a scope: the calls around it were not pushed.
LEMMA BaggageKept ==
  ASSUME IInv, NEW c \in Contexts, Begin(c) \/ End(c) \/ Log(c) \/ Sweep(c) \/ Context(c),
         ~ResetContext(c), NEW d \in Contexts, NEW i \in DOMAIN frames[d],
         EndRelease(c) /\ c = d => i < Len(frames[d])
  PROVE  frames[d][i].token = None \/ baggage[d] \subseteq baggage'[d]
<1>0. TypeInv /\ PcInv /\ ScopeInv BY DEF IInv
<1>1. baggage \in [Contexts -> SUBSET Keys] BY <1>0 DEF TypeInv, TypeOK
<1>2. CASE d # c
  <2>1. OthersStill(c) BY OthersStillStep
  <2>2. d \in live
    <3>1. frames[d] # <<>> OBVIOUS
    <3> QED BY <1>0, <3>1 DEF PcInv
  <2> QED BY <1>2, <2>1, <2>2 DEF OthersStill
<1>3. CASE d = c /\ EndRelease(c)
  <2>1. PopBaggageScope(c) /\ frames[c] # <<>> BY <1>0, <1>3 DEF PcInv, EndRelease, At
  <2>2. Len(frames[c]) \in DOMAIN frames[c] /\ Top(c) = frames[c][Len(frames[c])]
    BY <1>0, <2>1, TopType
  <2>3. CASE Top(c).scope = None BY <1>3, <2>1, <2>3 DEF PopBaggageScope
  <2>4. CASE Top(c).scope # None BY <1>0, <1>3, <2>2, <2>4 DEF ScopeInv
  <2> QED BY <2>3, <2>4
<1>4. CASE d = c /\ ~EndRelease(c)
  <2> USE DEF ctxVars
  <2>1. CASE Begin(c) BY <1>4, <2>1 DEF Begin
  <2>2. CASE End(c)
    BY <1>4, <2>2 DEF End, CloseUnchanged, EndLoad, EndAppend, EndClose, EndWorker, EndDetach,
                      EndSwap, EndSubmit
  <2>3. CASE Log(c) BY <1>4, <2>3 DEF Log, LogUnchanged, LogRead, LogBuild, LogAppend, LogOrphan
  <2>4. CASE Sweep(c)
    BY <1>4, <2>4 DEF Sweep, SweepUnchanged, SweepBegin, SweepSpan, SweepLoad, SweepSwap,
                      SweepSubmit, SweepEnd
  <2>5. CASE SetBaggage(c) \/ ContinueCheck(c) \/ ContinueAdopt(c)
    <3>1. UNCHANGED baggage \/ \E keys : baggage' = [baggage EXCEPT ![c] = @ \cup keys]
      BY <2>5 DEF SetBaggage, ContinueCheck, ContinueAdopt, Merge
    <3> QED BY <1>1, <1>4, <3>1
  <2>6. CASE Spawn(c)
    <3>1. PICK b \in Contexts \ live : baggage' = [baggage EXCEPT ![b] = baggage[c]]
      BY <2>6 DEF Spawn
    <3>2. b # c BY <2>6 DEF Spawn
    <3> QED BY <1>1, <1>4, <3>1, <3>2
  <2> QED BY <2>1, <2>2, <2>3, <2>4, <2>5, <2>6 DEF Context
<1> QED BY <1>2, <1>3, <1>4

LEMMA CarryStep == IInv /\ [Next]_vars => CarryInv'
<1> SUFFICES ASSUME IInv, [Next]_vars PROVE CarryInv' OBVIOUS
<1>0. TypeInv /\ PcInv /\ BuiltInv /\ ListInv /\ FrameInv /\ TraceInv /\ FilledInv /\ CarryInv
  BY DEF IInv
<1>1. /\ fields \in [Events -> SUBSET Keys] /\ at \in [Events -> Lists \cup {None}]
      /\ pc \in [Contexts -> PCs] /\ opened \subseteq Spans /\ resets \in Nat
  BY <1>0 DEF TypeInv, TypeOK
<1>2. ASSUME NEW c \in Contexts, Begin(c) \/ End(c) \/ Log(c) \/ Sweep(c) \/ Context(c),
             resets' = 0, NEW d \in Contexts, NEW i \in DOMAIN frames'[d], NEW e \in Events,
             frames'[d][i].span \in Spans \ shared',
             i < Len(frames'[d]) \/ pc'[d] \notin Ended \ {"close"},
             at'[e] # None, at'[e][1] = frames'[d][i].span
      PROVE  fields'[e] \subseteq (IF frames'[d][i].token = None THEN {} ELSE baggage'[d])
  <2>a. shared \subseteq shared' /\ opened \subseteq opened' BY Growing
  <2>b. PICK s \in Spans : s = frames'[d][i].span BY <1>2
  <2>c. s \notin shared /\ s # None BY <1>2, <2>a, <2>b, SpansAssumption
  <2>d. ~ResetContext(c) /\ resets = 0
    <3>1. ~ResetContext(c) BY <1>1, <1>2 DEF ResetContext
    <3>2. resets = 0 BY <1>1, <1>2, ResetsMove
    <3> QED BY <3>1, <3>2
  <2>1. ASSUME at'[e] # at[e], e \in Boundary PROVE fields'[e] = {}
    <3>1. at[e] = None /\ UNCHANGED fields BY <1>2, <2>1, AppendsTo
    <3> QED BY <1>0, <2>1, <3>1 DEF FilledInv
  <2>2. CASE Begin(c) /\ \E t \in Spans \ opened : frames'[d][i].span \in {t, None}
    <3>1. s \notin opened BY <2>2, <2>b, <2>c
    <3>2. at'[e] # at[e] BY <1>0, <1>2, <2>b, <3>1 DEF TraceInv
    <3>3. ~EndAppend(c) /\ ~LogAppend(c) BY <2>2 DEF Begin, EndAppend, LogAppend, At
    <3>4. e \in Boundary BY <1>2, <3>2, <3>3, AppendsTo, EventFacts
    <3>5. fields'[e] = {} BY <2>1, <3>2, <3>4
    <3> QED BY <3>5
  <2>3. CASE /\ i \in DOMAIN frames[d] /\ frames'[d][i] = frames[d][i]
             /\ i < Len(frames[d]) \/ pc[d] \notin Ended \ {"close"}
             /\ EndRelease(c) /\ c = d => i < Len(frames[d])
    <3>1. frames[d][i].token = None \/ baggage[d] \subseteq baggage'[d]
      BY <1>2, <2>3, <2>d, BaggageKept
    <3>2. frames[d][i].span = s /\ s \in opened BY <1>0, <2>3, <2>b, <2>c DEF FrameInv
    <3>3. ASSUME at[e] = at'[e]
          PROVE  fields[e] \subseteq (IF frames[d][i].token = None THEN {} ELSE baggage[d])
      BY <1>0, <1>2, <2>3, <2>b, <2>c, <2>d, <3>2, <3>3 DEF CarryInv
    <3>4. CASE at'[e] = at[e] /\ fields'[e] = fields[e] BY <2>3, <3>1, <3>3, <3>4
    <3>5. CASE at'[e] = at[e] /\ fields'[e] # fields[e]
      <4>1. CASE LogBuild(c) /\ fields' = [fields EXCEPT ![LogOf(item[c])] = baggage[c]]
        <5>1. at[LogOf(item[c])] = None BY <1>0, <4>1 DEF LogBuild, At, BuiltInv, Levelling, FreshEvent
        <5> QED BY <1>1, <1>2, <3>5, <4>1, <5>1
      <4>2. ASSUME NEW x \in Spans, Backfills(c, x)
            PROVE  fields'[e] \subseteq (IF frames'[d][i].token = None THEN {} ELSE baggage'[d])
        <5>1. at[e] = ListOf(x) /\ fields'[e] = fields[e] \cup baggage[c]
          BY <3>5, <4>2 DEF Backfills, Backfill
        <5>2. x = s BY <1>0, <1>2, <2>b, <3>5, <5>1, ListOfType
        <5>3. CASE pc[c] = "close" /\ x = local[c] /\ pc'[c] = "worker"
          <6>1. Len(frames[c]) \in DOMAIN frames[c] /\ frames[c][Len(frames[c])].span = s
            BY <5>2, <5>3, EndingSpan DEF Ending
          <6>2. d = c /\ i = Len(frames[c]) BY <1>0, <2>3, <2>c, <3>2, <6>1 DEF FrameInv
          <6>3. Len(frames'[d]) = Len(frames[c]) /\ Len(frames[c]) \in Nat
            BY <1>0, <4>2, <6>2, Typed DEF Backfills
          <6> QED BY <1>2, <5>3, <6>2, <6>3 DEF Ended
        <5>4. CASE pc[c] = "sweep" /\ idx[c] \in DOMAIN stack[c] /\ x = stack[c][idx[c]]
          <6>1. PICK j \in DOMAIN frames[c] : frames[c][j].span = s /\ frames[c][j].token # None
            BY <2>c, <5>2, <5>4, SpanOnStack
          <6>2. d = c /\ i = j BY <1>0, <2>3, <2>c, <3>2, <6>1 DEF FrameInv
          <6>3. fields[e] \subseteq baggage[c] BY <3>3, <3>5, <6>1, <6>2
          <6>4. UNCHANGED baggage BY <4>2 DEF Backfills
          <6> QED BY <2>3, <5>1, <6>1, <6>2, <6>3, <6>4
        <5> QED BY <4>2, <5>3, <5>4 DEF Backfills
      <4> QED BY <1>2, <3>5, <4>1, <4>2, FieldsMove
    <3>6. CASE at'[e] # at[e] /\ e \in Boundary BY <2>1, <3>6
    <3>7. CASE at'[e] # at[e] /\ e \notin Boundary
      <4>1. /\ LogAppend(c) /\ e = LogOf(item[c]) /\ at'[e] = ListOf(local[c]) /\ UNCHANGED fields
        <5>1. \A x \in Spans : e # StartOf(x) /\ e # EndOf(x) BY <3>7, EventFacts
        <5>2. EndAppend(c) => local[c] \in Spans BY EndingSpan DEF EndAppend, At, Ending
        <5> QED BY <1>2, <3>7, <5>1, <5>2, AppendsTo
      <4>2. pc[c] = "append" BY <4>1 DEF LogAppend, At
      <4>3. local[c] \in Spans BY <4>2, WorksOn DEF Levelling
      <4>4. local[c] = s BY <1>0, <1>2, <2>b, <4>1, <4>3, ListOfType
      <4>5. PICK j \in DOMAIN frames[c] : frames[c][j].span = s /\ frames[c][j].token # None
        BY <2>c, <4>2, <4>4, WorksOn DEF Levelling, Ending
      <4>6. d = c /\ i = j BY <1>0, <2>3, <2>c, <3>2, <4>5 DEF FrameInv
      <4>7. fields[e] = baggage[c] BY <1>0, <4>1, <4>2 DEF FilledInv
      <4> QED BY <2>3, <3>1, <4>1, <4>5, <4>6, <4>7
    <3> QED BY <3>4, <3>5, <3>6, <3>7
  <2> QED BY <1>2, <2>2, <2>3, FramesKept
<1>3. CASE WorkerTake \/ UNCHANGED vars
  <2>1. UNCHANGED <<at, fields, pc, shared, frames, baggage, resets>>
    BY <1>3 DEF WorkerTake, vars, ctxVars, spanVars, eventVars, countVars
  <2> QED BY <1>0, <2>1 DEF CarryInv
<1>4. ASSUME NEW c \in Contexts, Begin(c) \/ End(c) \/ Log(c) \/ Sweep(c) \/ Context(c)
      PROVE  CarryInv'
  BY <1>2, <1>4 DEF CarryInv
<1> QED BY <1>3, <1>4 DEF Next, Terminated

----------------------------------------------------------------------------
(* Nothing is lost but what is appended late                               *)

\* A context that has a list in hand stores the new one, or submits it.
LEMMA HandsOn ==
  ASSUME NEW c \in Contexts, Begin(c) \/ End(c) \/ Log(c) \/ Sweep(c) \/ Context(c),
         pc[c] \in {"swap", "submit", "sweepSwap", "sweepSubmit"}
  PROVE  EndSwap(c) \/ EndSubmit(c) \/ SweepSwap(c) \/ SweepSubmit(c)
<1> USE DEF At
<1>1. ~Begin(c) BY DEF Begin
<1>2. ~Log(c) BY DEF Log, LogRead, LogBuild, LogAppend, LogOrphan
<1>3. ~Context(c) BY DEF Context, SetBaggage, ContinueCheck, ContinueAdopt, ResetContext, Spawn
<1>4. End(c) => EndSwap(c) \/ EndSubmit(c)
  BY DEF End, EndLoad, EndAppend, EndClose, EndWorker, EndDetach, EndRelease
<1>5. Sweep(c) => SweepSwap(c) \/ SweepSubmit(c)
  BY DEF Sweep, SweepBegin, SweepSpan, SweepLoad, SweepEnd
<1> QED BY <1>1, <1>2, <1>3, <1>4, <1>5

\* Only a submission changes the queue, among the steps of a context.
LEMMA QueueMoves ==
  ASSUME IInv, NEW c \in Contexts, Begin(c) \/ End(c) \/ Log(c) \/ Sweep(c) \/ Context(c)
  PROVE  UNCHANGED queue \/ queue' = Append(queue, ref[c])
<1> USE DEF outVars
<1>1. CASE Begin(c) BY <1>1 DEF Begin
<1>2. CASE End(c)
  BY <1>2 DEF End, EndLoad, EndAppend, EndClose, EndWorker, EndDetach, EndSwap, EndSubmit, EndRelease
<1>3. CASE Log(c) BY <1>3 DEF Log, LogRead, LogBuild, LogAppend, LogOrphan
<1>4. CASE Sweep(c)
  BY <1>4 DEF Sweep, SweepBegin, SweepSpan, SweepLoad, SweepSwap, SweepSubmit, SweepEnd
<1>5. CASE Context(c)
  BY <1>5 DEF Context, SetBaggage, ContinueCheck, ContinueAdopt, ResetContext, Spawn
<1> QED BY <1>1, <1>2, <1>3, <1>4, <1>5

\* A span that is not sealed keeps its open call.
LEMMA StillCloses ==
  ASSUME IInv, NEW c \in Contexts, Begin(c) \/ End(c) \/ Log(c) \/ Sweep(c) \/ Context(c),
         NEW s \in Spans, WillClose(s), s \notin sealed'
  PROVE  WillClose(s)'
<1>0. TypeInv /\ PcInv BY DEF IInv
<1>1. PICK d \in Contexts : \E i \in DOMAIN frames[d] : frames[d][i].span = s BY DEF WillClose
<1>2. PICK i \in DOMAIN frames[d] : frames[d][i].span = s BY <1>1
<1>3. i \in DOMAIN frames'[d] /\ frames'[d][i] = frames[d][i]
  <2>1. CASE Begin(c)
    <3>1. PICK f \in Frame, t \in Spans \ opened : Opens(c, f, t) BY <2>1, BeginForm
    <3>2. /\ DOMAIN frames[c] = 1 .. Len(frames[c]) /\ Len(frames[c]) \in Nat
          /\ DOMAIN frames'[c] = 1 .. Len(frames[c]) + 1
          /\ \A k \in DOMAIN frames[c] : frames'[c][k] = frames[c][k]
          /\ \A b \in Contexts : b # c => frames'[b] = frames[b]
      BY <1>0, <3>1, FramesGrow DEF Opens
    <3> QED BY <1>2, <3>2
  <2>2. CASE EndRelease(c)
    <3>1. /\ frames[c] # <<>> /\ frames' = [frames EXCEPT ![c] = SubSeq(@, 1, Len(@) - 1)]
          /\ Top(c).span \in sealed \cup {None}
      BY <1>0, <2>2 DEF PcInv, EndRelease, At
    <3>2. /\ Len(frames[c]) \in Nat
          /\ \A k \in DOMAIN frames[c] : k \in Nat /\ k <= Len(frames[c])
          /\ \A k : k \in DOMAIN frames'[c] <=> k \in DOMAIN frames[c] /\ k < Len(frames[c])
          /\ \A k \in DOMAIN frames'[c] : frames'[c][k] = frames[c][k]
          /\ \A b \in Contexts : b # c => frames'[b] = frames[b]
      BY <1>0, <3>1, FramesShrink
    <3>3. d = c => i # Len(frames[c])
      BY <1>2, <3>1, SpansAssumption DEF Top, WillClose
    <3>4. d = c => i < Len(frames[c]) BY <1>2, <3>2, <3>3
    <3> QED BY <1>2, <3>2, <3>4
  <2>3. CASE UNCHANGED frames BY <1>2, <2>3
  <2> QED BY <2>1, <2>2, <2>3, CloseMoves
<1> QED BY <1>2, <1>3 DEF WillClose

\* An event on its way stays on its way, or is counted.
LEMMA StaysOnItsWay ==
  ASSUME IInv, NEW c \in Contexts, Begin(c) \/ End(c) \/ Log(c) \/ Sweep(c) \/ Context(c),
         NEW e \in Events, at'[e] = at[e], at[e] # None, OnItsWay(e)
  PROVE  OnItsWay(e)' \/ e \in counted'
<1>0. TypeInv /\ LockInv /\ ListInv BY DEF IInv
<1>1. queue \in Seq(Lists) /\ gen \in [Spans -> Nat] /\ ref \in [Contexts -> Lists \cup {None}]
  BY <1>0 DEF TypeInv, TypeOK
<1>2. OthersStill(c) BY OthersStillStep
<1>3. PICK ls : ls = at[e] OBVIOUS
<1>4. ASSUME NEW d \in Contexts, ref'[d] = ls, pc'[d] \in {"swap", "submit", "sweepSwap", "sweepSubmit"}
      PROVE  OnItsWay(e)'
  <2>1. InHand(at[e])' BY <1>3, <1>4 DEF InHand
  <2> QED BY <2>1 DEF OnItsWay
<1>5. CASE InHand(at[e])
  <2>1. PICK d \in Contexts : ref[d] = ls /\ pc[d] \in {"swap", "submit", "sweepSwap", "sweepSubmit"}
    BY <1>3, <1>5 DEF InHand
  <2>2. CASE d # c BY <1>2, <1>4, <2>1, <2>2 DEF OthersStill
  <2>3. CASE d = c /\ (EndSwap(c) \/ SweepSwap(c))
    BY <1>4, <2>1, <2>3, SwapDetaches DEF Detaches, Submitting
  <2>4. CASE d = c /\ (EndSubmit(c) \/ SweepSubmit(c))
    <3>1. queue' = Append(queue, ref[c]) /\ ref[c] \in Lists
      BY <1>0, <2>4, SubmitSubmits DEF Submits, ListInv
    <3>2. Len(queue) + 1 \in DOMAIN queue' /\ queue'[Len(queue) + 1] = ref[c] BY <1>1, <3>1
    <3> QED BY <1>3, <2>1, <2>4, <3>2 DEF OnItsWay
  <2> QED BY <2>1, <2>2, <2>3, <2>4, HandsOn
<1>6. CASE \E i \in DOMAIN queue : queue[i] = at[e]
  <2>1. PICK i \in DOMAIN queue : queue[i] = at[e] BY <1>6
  <2>2. i \in DOMAIN queue' /\ queue'[i] = queue[i]
    <3>1. CASE UNCHANGED queue BY <2>1, <3>1
    <3>2. CASE queue' = Append(queue, ref[c]) BY <1>1, <2>1, <3>2
    <3> QED BY <3>1, <3>2, QueueMoves
  <2> QED BY <2>1, <2>2 DEF OnItsWay
<1>7. ASSUME NEW s \in Spans, WillClose(s), at[e] = ListOf(s)
      PROVE  OnItsWay(e)' \/ e \in counted'
  <2>1. CASE gen'[s] # gen[s]
    <3>1. pc[c] \in {"swap", "sweepSwap"} /\ pc'[c] \in Submitting /\ s = local[c]
      BY <2>1, GenMoves
    <3>2. ref[c] = ls BY <1>0, <1>3, <1>7, <3>1 DEF LockInv
    <3>3. EndSwap(c) \/ EndSubmit(c) \/ SweepSwap(c) \/ SweepSubmit(c) BY <3>1, HandsOn
    <3>4. EndSwap(c) \/ SweepSwap(c) BY <3>1, <3>3 DEF EndSubmit, SweepSubmit, At
    <3>5. ref'[c] = ref[c] BY <3>4, SwapDetaches DEF Detaches
    <3> QED BY <1>4, <3>1, <3>2, <3>5 DEF Submitting
  <2>2. CASE gen'[s] = gen[s] /\ s \notin sealed'
    <3>1. WillClose(s)' BY <1>7, <2>2, StillCloses
    <3>2. at'[e] = ListOf(s)' BY <1>7, <2>2 DEF ListOf
    <3> QED BY <3>1, <3>2 DEF OnItsWay
  <2>3. CASE gen'[s] = gen[s] /\ s \in sealed'
    <3>1. s \notin sealed BY <1>7 DEF WillClose
    <3>2. s = local[c] /\ (EndWorker(c) \/ EndSwap(c)) BY <2>3, <3>1, CloseMoves
    <3>3. ~EndSwap(c)
      <4>1. EndSwap(c) => gen'[s] = gen[s] + 1 BY <1>1, <3>2 DEF EndSwap
      <4>2. gen[s] \in Nat BY <1>1
      <4> QED BY <2>3, <4>1, <4>2
    <3>4. EndWorker(c) /\ sealed' # sealed BY <2>3, <3>1, <3>2, <3>3
    <3>5. counted' = counted \cup Content(ListOf(local[c])) BY <3>4 DEF EndWorker
    <3> QED BY <1>7, <3>2, <3>5 DEF Content
  <2> QED BY <2>1, <2>2, <2>3
<1> QED BY <1>5, <1>6, <1>7 DEF OnItsWay

LEMMA LostStep == IInv /\ [Next]_vars => LostOnlyLate'
<1> SUFFICES ASSUME IInv, [Next]_vars, NEW e \in Events, at'[e] # None, \A s \in Spans : e # EndOf(s)
             PROVE  delivered'[e] > 0 \/ e \in counted' \/ e \in overtaken' \/ OnItsWay(e)'
  BY DEF LostOnlyLate
<1>0. TypeInv /\ PcInv /\ CloseInv /\ LostOnlyLate BY DEF IInv
<1>1. /\ delivered \in [Events -> Nat] /\ at \in [Events -> Lists \cup {None}]
      /\ queue \in Seq(Lists) /\ sealed \subseteq opened /\ pc \in [Contexts -> PCs]
  BY <1>0 DEF TypeInv, TypeOK
<1>a. counted \subseteq counted' /\ overtaken \subseteq overtaken' BY Growing
<1>2. ASSUME at'[e] = at[e]
      PROVE  delivered[e] > 0 \/ e \in counted \/ e \in overtaken \/ OnItsWay(e)
  BY <1>0, <1>2 DEF LostOnlyLate
<1>3. ASSUME NEW c \in Contexts, Begin(c) \/ End(c) \/ Log(c) \/ Sweep(c) \/ Context(c)
      PROVE  delivered'[e] > 0 \/ e \in counted' \/ e \in overtaken' \/ OnItsWay(e)'
  <2>1. CASE at'[e] = at[e]
    <3>1. delivered[e] > 0 => delivered'[e] > 0
      BY <1>1, <1>3, <2>1, AppendedIsFresh DEF FreshEvent
    <3> QED BY <1>2, <1>3, <1>a, <2>1, <3>1, StaysOnItsWay
  <2>2. CASE at'[e] # at[e]
    <3>1. CASE Begin(c)
      <4>1. PICK f \in Frame, s \in Spans \ opened : Opens(c, f, s) BY <3>1, BeginForm
      <4>2. f.span = s /\ OpenSpan(c, s) BY <2>2, <4>1 DEF Opens
      <4>3. at'[e] = ListOf(s) /\ UNCHANGED <<gen, sealed>>
        BY <1>1, <2>2, <4>1, <4>2 DEF Opens, OpenSpan
      <4>4. Len(frames[c]) + 1 \in DOMAIN frames'[c] /\ frames'[c][Len(frames[c]) + 1] = f
        <5>1. frames' = [frames EXCEPT ![c] = Append(frames[c], f)] BY <4>1 DEF Opens
        <5>2. /\ Len(frames[c]) \in Nat /\ DOMAIN frames'[c] = 1 .. Len(frames[c]) + 1
              /\ frames'[c][Len(frames[c]) + 1] = f
          BY <1>0, <5>1, FramesGrow
        <5> QED BY <5>2
      <4>5. WillClose(s)' BY <1>1, <4>2, <4>3, <4>4 DEF WillClose
      <4>6. at'[e] = ListOf(s)' BY <4>3 DEF ListOf
      <4> QED BY <4>5, <4>6 DEF OnItsWay
    <3>2. CASE LogAppend(c) /\ e = LogOf(item[c]) /\ at'[e] = ListOf(local[c])
      <4>1. /\ pc[c] = "append" /\ UNCHANGED <<gen, sealed, frames>>
        BY <3>2 DEF LogAppend, At, LogUnchanged, spanVars, sealVars, ctxVars
      <4>2. PICK s \in Spans : s = local[c] /\ s \in opened BY <4>1, WorksOn DEF Levelling
      <4>3. CASE closed[s] BY <1>0, <1>a, <3>2, <4>1, <4>2, <4>3 DEF CloseInv, Levelling
      <4>4. CASE ~closed[s]
        <5>1. s \notin sealed BY <1>0, <4>4 DEF CloseInv
        <5>2. WillClose(s)' BY <1>0, <4>1, <4>2, <5>1 DEF CloseInv, WillClose
        <5>3. at'[e] = ListOf(s)' BY <3>2, <4>1, <4>2 DEF ListOf
        <5> QED BY <5>2, <5>3 DEF OnItsWay
      <4> QED BY <4>3, <4>4
    <3>3. ~(EndAppend(c) /\ e = EndOf(local[c])) BY EndingSpan DEF EndAppend, At, Ending
    <3> QED BY <1>3, <2>2, <3>1, <3>2, <3>3, AppendsTo
  <2> QED BY <2>1, <2>2
<1>4. CASE WorkerTake
  <2>1. /\ queue # <<>> /\ queue' = Tail(queue)
        /\ UNCHANGED <<at, ref, pc, gen, frames, sealed, counted, overtaken>>
        /\ delivered'[e] = IF at[e] = Head(queue) THEN delivered[e] + 1 ELSE delivered[e]
    BY <1>4 DEF WorkerTake, ctxVars, localVars, spanVars, eventVars, sealVars
  <2>2. CASE at[e] = Head(queue) BY <1>1, <2>1, <2>2
  <2>3. CASE at[e] # Head(queue)
    <3>1. ASSUME NEW i \in DOMAIN queue, queue[i] = at[e] PROVE \E j \in DOMAIN queue' : queue'[j] = at[e]
      <4>1. i \in 1 .. Len(queue) /\ Len(queue) \in Nat BY <1>1
      <4>2. i # 1 BY <1>1, <2>1, <2>3, <3>1
      <4>3. i - 1 \in DOMAIN queue' /\ queue'[i - 1] = queue[i] BY <1>1, <2>1, <4>1, <4>2
      <4> QED BY <3>1, <4>3
    <3>2. OnItsWay(e) => OnItsWay(e)'
      BY <2>1, <3>1 DEF OnItsWay, InHand, WillClose, ListOf
    <3> QED BY <1>2, <2>1, <2>3, <3>2
  <2> QED BY <2>2, <2>3
<1>5. CASE UNCHANGED vars
  <2>1. UNCHANGED <<at, ref, pc, gen, frames, sealed, counted, overtaken, queue, delivered>>
    BY <1>5 DEF vars, ctxVars, localVars, spanVars, eventVars, sealVars, outVars
  <2>2. OnItsWay(e) => OnItsWay(e)' BY <2>1 DEF OnItsWay, InHand, WillClose, ListOf
  <2> QED BY <1>2, <2>1, <2>2
<1> QED BY <1>3, <1>4, <1>5 DEF Next, Terminated

----------------------------------------------------------------------------
(* The theorems                                                            *)

LEMMA Initially == Init => IInv
<1> SUFFICES ASSUME Init PROVE IInv OBVIOUS
<1> USE DEF Init
<1>1. TypeInv
  <2>1. \A e \in Events : e \in Events OBVIOUS
  <2> QED BY SpansAssumption DEF TypeInv, TypeOK, Traces, PCs
<1>2. PcInv BY DEF PcInv, Ending, Levelling, SweepingOf
<1>3. LockInv BY DEF LockInv, Holding, SweepingOf
<1>4. ListInv BY DEF ListInv, Submitting
<1>5. FrameInv /\ PushedInv /\ StackInv BY DEF FrameInv, PushedInv, StackInv
<1>6. CloseInv BY DEF CloseInv, Levelling
<1>7. BuiltInv BY EventFacts DEF BuiltInv, FreshEvent, Levelling
<1>8. OnceInv BY DEF OnceInv
<1>9. SweptInv BY DEF SweptInv, SweepingOf
<1>10. TraceInv BY DEF TraceInv, OneTracePerSpan
<1>11. ScopeInv BY DEF ScopeInv, NothingLeaks, Scoped
<1>12. CarryInv BY DEF CarryInv
<1>13. FilledInv
  <2>1. \A e \in Boundary : fields[e] = {} BY DEF Events
  <2>2. \A s \in Spans : \A g \in Nat : Filled(<<s, g>>)
    <3> SUFFICES ASSUME NEW s \in Spans, NEW g \in Nat PROVE Content(<<s, g>>) = {} BY DEF Filled
    <3>1. <<s, g>> # None BY SpansAssumption
    <3> QED BY <3>1 DEF Content
  <2> QED BY <2>1, <2>2 DEF FilledInv, Backfilled
<1>14. LostOnlyLate BY DEF LostOnlyLate
<1> QED
  BY <1>1, <1>2, <1>3, <1>4, <1>5, <1>6, <1>7, <1>8, <1>9, <1>10, <1>11, <1>12, <1>13, <1>14 DEF IInv

LEMMA Inductive == IInv /\ [Next]_vars => IInv'
  BY TypeStep, PcStep, LockStep, ListStep, FrameStep, PushedStep, StackStep, CloseStep, BuiltStep,
     OnceStep, SweptStep, TraceStep, ScopeStep, CarryStep, FilledStep, LostStep DEF IInv

LEMMA Invariant == Spec => []IInv
  BY Initially, Inductive, PTL DEF Spec

\* Every variable of context.py, decorator.py and api.py keeps its type: a context never works on
\* a span or a list that is not there.
THEOREM TypeCorrect == Spec => []TypeOK
<1>1. IInv => TypeOK BY DEF IInv, TypeInv
<1> QED BY <1>1, Invariant, PTL

\* A close and any number of sweeps detach the events of a span, from contexts that share it
\* (_close_span, _sweep_open_spans): no event is handed to the sinks twice.
THEOREM HandedOverOnce == Spec => []DeliveredOnce
<1>1. IInv => DeliveredOnce BY DEF IInv, OnceInv, DeliveredOnce
<1> QED BY <1>1, Invariant, PTL

\* An event that a span buffered is delivered, on its way or counted; only a level call that had
\* read the flag (api._log) before the close of its span set it may be none of them.
THEOREM OnlyLateIsLost == Spec => []LostOnlyLate
<1>1. IInv => LostOnlyLate BY DEF IInv
<1> QED BY <1>1, Invariant, PTL

\* continue_trace moves a root span with all its events or not at all: as long as one context uses
\* a span, its events carry one trace id and one parent.
THEOREM TraceIsWhole == Spec => []OneTracePerSpan
<1>1. IInv => OneTracePerSpan BY DEF IInv, TraceInv
<1> QED BY <1>1, Invariant, PTL

\* backfill_baggage runs before every detach (_end, _sweep_open_spans): the span.start and span.end
\* that leave with a level call's event carry the baggage it carries.
THEOREM BoundaryFilled == Spec => []BoundaryComplete
<1>1. IInv => BoundaryComplete
  <2> SUFFICES ASSUME IInv, resets = 0, NEW i \in DOMAIN queue, queue[i][1] \notin shared
               PROVE  Filled(queue[i])
    BY DEF BoundaryComplete, Filled
  <2>0. TypeInv /\ ListInv /\ FilledInv BY DEF IInv
  <2>1. queue[i] \in Lists /\ queue[i][2] < gen[queue[i][1]] BY <2>0 DEF TypeInv, TypeOK, ListInv
  <2>2. PICK s \in Spans, g \in Nat : queue[i] = <<s, g>> BY <2>1 DEF Lists
  <2>3. g < gen[s] /\ s \notin shared BY <2>1, <2>2
  <2>4. Filled(<<s, g>>) BY <2>0, <2>3 DEF FilledInv
  <2> QED BY <2>2, <2>4
<1> QED BY <1>1, Invariant, PTL

\* The scope of the outermost traced call is popped with it (pop_baggage_scope): the baggage and the
\* trace that a request set are gone when it is over.
THEOREM RequestsDoNotLeak == Spec => []NothingLeaks
<1>1. IInv => NothingLeaks BY DEF IInv, ScopeInv
<1> QED BY <1>1, Invariant, PTL

\* Each call pops what it pushed and nothing else (_end, pop_span): the span of an open traced call
\* stays on the stack, whatever failed inside it.
THEOREM OpenSpanIsCurrent == Spec => []StaysOnStack
<1>1. IInv => StaysOnStack BY DEF IInv, PushedInv, StaysOnStack
<1> QED BY <1>1, Invariant, PTL

=============================================================================
