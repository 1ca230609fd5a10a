-------------------------- MODULE LifecycleProofs --------------------------
(***************************************************************************)
(* Theorems about Lifecycle, for any number of sinks, calls and swaps.     *)
(***************************************************************************)
EXTENDS Lifecycle, FiniteSetTheorems, TLAPS

----------------------------------------------------------------------------
(* The inductive invariants                                                *)

\* A sink that is being closed is in one place: one close that runs, or one call's hand-over.
CloseInv ==
    /\ \A p \in Stoppers : ~At(p, "hand") => taken[p] = {}
    /\ \A c, d \in closes : c.sink = d.sink => c = d
    /\ \A p \in Stoppers : \A c, d \in taken[p] : c.sink = d.sink => c = d
    /\ \A p \in Stoppers : \A c \in taken[p] : \A d \in closes : c.sink # d.sink
    /\ \A p, q \in Stoppers : \A c \in taken[p] : \A d \in taken[q] : p # q => c.sink # d.sink
    /\ \A s \in Sinks : s \in closing <=> \/ \E c \in closes : c.sink = s
                                          \/ \E p \in Stoppers : \E c \in taken[p] : c.sink = s

\* A sink that is used is a sink.
NamesInv ==
    /\ \A l \in Loggers : pc[l] \in {"note", "arm"} => target[l] \in Sinks
    /\ epoch # None => sink \in Sinks
    /\ cpc # "idle" => new \in Sinks
    /\ cpc \in {"flush1", "reassign", "offer", "flush2", "unhold", "adopt"} => previous \in Sinks

\* Where a swap is, and what the drain may be inside.
Swapping == {"offer", "flush2", "unhold"}

HoldInv ==
    /\ epoch = None => thread = "none"
    /\ thread = "alive" => sink \in holds
    /\ inside # None => thread = "alive" /\ inside \in holds
    /\ cpc \in {"retarget", "flush1", "reassign", "adopt"} \cup Swapping => epoch # None
    /\ cpc \in {"flush1", "reassign"} => sink = previous /\ previous # new
    /\ cpc \in Swapping => sink = new /\ previous # new
    /\ cpc = "adopt" /\ fenced => sink = new
    /\ cpc = "flush2" /\ fence = "answered" => inside # previous
    /\ cpc = "unhold" => inside # previous

\* A sink that somebody will record or has recorded.
Window(s) == s = new /\ cpc \in Swapping \cup {"adopt"}

OwedInv ==
    /\ thread = "alive" => sink \in owed \/ Window(sink)
    /\ \A s \in dirty : \/ s \in owed \cup leaked \/ Window(s)
                        \/ \E p \in Stoppers : \E c \in taken[p] : c.sink = s

\* The no-worker branch is one stretch of a shutdown() call, and the depth counts the calls in it.
DepthInv ==
    /\ running = Cardinality(RunningBare)
    /\ \A p \in Stoppers : branch[p] = "bare" =>
          pc[p] \in {"take", "hand", "lower", "unwind", "raised"}
    /\ \A p \in Stoppers : At(p, "lower") => branch[p] = "bare"

\* A worker built within shutdown() calls is registered until the first of them lowers the depth,
\* which then retires it or was interrupted.
LateInv ==
    /\ epoch = None => builtIn = {} /\ ~late
    /\ epoch # None => epoch <= retirements /\ RunningBare \subseteq builtIn
    /\ late => builtIn \subseteq RunningBare
    /\ builtIn # {} => ~Live \/ late \/ \E p \in builtIn : pc[p] \in {"retire", "raised"}

----------------------------------------------------------------------------
(* Types                                                                   *)

LEMMA TypeInit == Init => Typed
<1> SUFFICES ASSUME Init PROVE Typed OBVIOUS
<1>1. pc \in [Threads -> CallPCs] BY DEF Init, CallPCs
<1>2. /\ target \in [Loggers -> Sinks \cup {None}]
      /\ branch \in [Stoppers -> {"worker", "bare", "second"}]
      /\ taken \in [Stoppers -> SUBSET Closes] /\ waited \in [Stoppers -> BOOLEAN]
      /\ signal \in [Sinks -> Nat]
  BY DEF Init
<1>3. cpc \in SwapPCs BY DEF Init, SwapPCs
<1> QED BY <1>1, <1>2, <1>3, LifecycleAssumption DEF Init, Typed

LEMMA TypeGoto ==
  ASSUME Typed, NEW t \in Threads, NEW there \in CallPCs, Goto(t, there)
  PROVE  pc' \in [Threads -> CallPCs]
  BY DEF Typed, Goto

LEMMA CloseType ==
  ASSUME NEW s \in Sinks, NEW by \in Stoppers \cup {Configure}, NEW joined \in BOOLEAN
  PROVE  Close(s, by, joined) \in Closes /\ Close(s, by, joined).sink = s
  BY DEF Close, Closes

LEMMA SinksOfType == \A cs \in SUBSET Closes : SinksOf(cs) \subseteq Sinks
  BY DEF SinksOf, Closes

LEMMA ReleaseType ==
  ASSUME Typed, NEW cs \in SUBSET Closes, Release(cs)
  PROVE  /\ closes' \subseteq Closes /\ closing' \subseteq Sinks /\ leaked' \subseteq Sinks
         /\ dirty' \subseteq Sinks
<1>1. PICK refused \in SUBSET {c \in cs : ~c.joined} :
        /\ closes' = closes \cup (cs \ refused)
        /\ closing' = (closing \cup SinksOf(cs)) \ SinksOf(refused)
        /\ leaked' = (leaked \ SinksOf(cs)) \cup SinksOf(refused)
        /\ dirty' = dirty \ SinksOf(cs \ refused)
  BY DEF Release
<1>2. refused \in SUBSET Closes OBVIOUS
<1> QED BY <1>1, <1>2, SinksOfType DEF Typed

LEMMA SignalType ==
  ASSUME Typed, NEW s \in Sinks, OfferOrphanSignal(s)
  PROVE  stopEvent' \in Nat /\ signal' \in [Sinks -> Nat]
<1>1. CASE InFlight(s) BY <1>1 DEF OfferOrphanSignal, Typed
<1>2. CASE ~InFlight(s)
  <2>1. stopEvent' \in Nat BY <1>2 DEF OfferOrphanSignal, RefreshStopSignal, Typed
  <2> QED BY <1>2, <2>1 DEF OfferOrphanSignal, Typed
<1> QED BY <1>1, <1>2

LEMMA TypeLog ==
  ASSUME Typed, NamesInv, NEW l \in Loggers, Log(l)
  PROVE  Typed'
<1> USE DEF ownerVars, closeVars, signalVars, workerVars, drainVars, swapVars, stopVars
<1>0. l \in Threads BY DEF Threads
<1>1. CASE LogRead(l)
  <2>1. pc' \in [Threads -> CallPCs] BY <1>0, <1>1, TypeGoto DEF LogRead, CallPCs
  <2> QED BY <1>1, <2>1 DEF LogRead, Typed
<1>2. CASE LogNote(l)
  <2>1. pc' \in [Threads -> CallPCs] BY <1>0, <1>2, TypeGoto DEF LogNote, CallPCs
  <2> QED BY <1>2, <2>1 DEF LogNote, Typed
<1>3. CASE LogArm(l)
  <2>1. pc' \in [Threads -> CallPCs] BY <1>0, <1>3, TypeGoto DEF LogArm, CallPCs
  <2>2. stopEvent' \in Nat /\ signal' \in [Sinks -> Nat] BY <1>3, SignalType DEF LogArm, NamesInv, At
  <2>3. owed' \subseteq Sinks BY <1>3 DEF LogArm, NamesInv, At, Typed
  <2> QED BY <1>3, <2>1, <2>2, <2>3 DEF LogArm, Typed
<1> QED BY <1>1, <1>2, <1>3 DEF Log

LEMMA TypeTrace ==
  ASSUME Typed, NEW t \in Tracers, Trace(t)
  PROVE  Typed'
<1> USE DEF ownerVars, closeVars, signalVars, workerVars, drainVars, swapVars, stopVars
<1>0. t \in Threads BY DEF Threads
<1>1. CASE GetWorker(t)
  <2>1. pc' \in [Threads -> CallPCs] BY <1>0, <1>1, TypeGoto DEF GetWorker, CallPCs
  <2>2. CASE epoch = None
    <3>1. stopEvent' \in Nat BY <1>1, <2>2 DEF GetWorker, RefreshStopSignal, Typed
    <3>2. signal' \in [Sinks -> Nat] BY <1>1, <2>2, <3>1 DEF GetWorker, Typed
    <3>3. builtIn' \subseteq Stoppers BY <1>1, <2>2 DEF GetWorker, RunningBare
    <3> QED BY <1>1, <2>1, <2>2, <3>1, <3>2, <3>3 DEF GetWorker, Typed
  <2>3. CASE epoch # None BY <1>1, <2>1, <2>3 DEF GetWorker, Typed
  <2> QED BY <2>2, <2>3
<1>2. CASE Submit(t)
  <2>1. pc' \in [Threads -> CallPCs] BY <1>0, <1>2, TypeGoto DEF Submit, CallPCs
  <2> QED BY <1>2, <2>1 DEF Submit, Typed
<1> QED BY <1>1, <1>2 DEF Trace

LEMMA TypeDrain ==
  ASSUME Typed, NamesInv, HoldInv, Drain
  PROVE  Typed'
<1> USE DEF ownerVars, closeVars, signalVars, workerVars, swapVars, stopVars, callVars,
        DrainUnchanged
<1>1. CASE DrainEnter
  <2>1. sink \in Sinks BY <1>1 DEF DrainEnter, NamesInv, HoldInv
  <2> QED BY <1>1, <2>1 DEF DrainEnter, Typed
<1>2. CASE DrainLeave BY <1>2 DEF DrainLeave, Typed
<1>3. CASE DrainAnswer BY <1>3 DEF DrainAnswer, Typed
<1>4. CASE DrainEnd BY <1>4 DEF DrainEnd, Typed
<1> QED BY <1>1, <1>2, <1>3, <1>4 DEF Drain

LEMMA StaleType ==
  ASSUME Typed
  PROVE  /\ {Close(s, Configure, FALSE) : s \in Stale} \in SUBSET Closes
         /\ Stale \subseteq Sinks
<1>1. Stale \subseteq Sinks BY DEF Stale, Typed
<1> QED BY <1>1, CloseType

LEMMA TypeSwap ==
  ASSUME Typed, NamesInv, HoldInv, Swap
  PROVE  Typed'
<1> USE DEF closeVars, drainVars, stopVars, callVars, SwapUnchanged, SwapPCs
<1>1. CASE CfgRebind BY <1>1 DEF CfgRebind, Typed
<1>2. CASE CfgSwap
  <2>0. new \in Sinks BY <1>2 DEF CfgSwap, NamesInv
  <2>1. CASE ~Live /\ owed = {} BY <1>2, <2>1 DEF CfgSwap, Typed
  <2>2. CASE ~(~Live /\ owed = {})
    <3>1. /\ closes' \subseteq Closes /\ closing' \subseteq Sinks /\ leaked' \subseteq Sinks
          /\ dirty' \subseteq Sinks
      BY <1>2, <2>2, ReleaseType, StaleType DEF CfgSwap
    <3>2. stopEvent' \in Nat /\ signal' \in [Sinks -> Nat]
      <4>1. CASE Live BY <1>2, <2>2, <4>1 DEF CfgSwap, Typed
      <4>2. CASE ~Live BY <1>2, <2>0, <2>2, <4>2, SignalType DEF CfgSwap
      <4> QED BY <4>1, <4>2
    <3>3. owed' \subseteq Sinks BY <1>2, <2>0, <2>2 DEF CfgSwap, Typed
    <3>4. cpc' \in SwapPCs BY <1>2, <2>2 DEF CfgSwap
    <3> QED BY <1>2, <3>1, <3>2, <3>3, <3>4 DEF CfgSwap, Typed
  <2> QED BY <2>1, <2>2
<1>3. CASE CfgRetarget BY <1>3 DEF CfgRetarget, Typed
<1>4. CASE CfgFlush
  <2>1. fenced' \in BOOLEAN /\ fence' = "none" /\ cpc' \in SwapPCs
    BY <1>4 DEF CfgFlush, FlushReturns
  <2> QED BY <1>4, <2>1 DEF CfgFlush, Typed
<1>5. CASE CfgReassign
  <2>1. new \in Sinks BY <1>5 DEF CfgReassign, NamesInv
  <2>2. CASE Live
    <3>1. sink' \in Sinks \cup {None} /\ holds' \subseteq Sinks
      BY <1>5, <2>1, <2>2 DEF CfgReassign, Typed
    <3>2. cpc' \in SwapPCs BY <1>5, <2>2 DEF CfgReassign
    <3> QED BY <1>5, <2>2, <3>1, <3>2 DEF CfgReassign, Typed
  <2>3. CASE ~Live
    <3>1. fenced' \in BOOLEAN /\ cpc' \in SwapPCs BY <1>5, <2>3 DEF CfgReassign
    <3> QED BY <1>5, <2>3, <3>1 DEF CfgReassign, Typed
  <2> QED BY <2>2, <2>3
<1>6. CASE CfgOffer
  <2>1. signal' \in [Sinks -> Nat] BY <1>6 DEF CfgOffer, Typed
  <2> QED BY <1>6, <2>1 DEF CfgOffer, Typed
<1>7. CASE CfgUnhold BY <1>7 DEF CfgUnhold, Typed
<1>8. CASE CfgAdopt
  <2>0. new \in Sinks /\ previous \in Sinks BY <1>8 DEF CfgAdopt, NamesInv
  <2>1. /\ closes' \subseteq Closes /\ closing' \subseteq Sinks /\ leaked' \subseteq Sinks
        /\ dirty' \subseteq Sinks
    <3>1. CASE FencedOut
      <4>1. {Close(previous, Configure, FALSE)} \in SUBSET Closes BY <2>0, CloseType
      <4> QED BY <1>8, <3>1, <4>1, ReleaseType DEF CfgAdopt
    <3>2. CASE ~FencedOut BY <1>8, <3>2 DEF CfgAdopt, Typed
    <3> QED BY <3>1, <3>2
  <2> QED BY <1>8, <2>0, <2>1 DEF CfgAdopt, Typed
<1> QED BY <1>1, <1>2, <1>3, <1>4, <1>5, <1>6, <1>7, <1>8 DEF Swap

LEMMA TypeStop ==
  ASSUME Typed, NEW p \in Stoppers, Stop(p)
  PROVE  Typed'
<1> USE DEF ownerVars, closeVars, workerVars, swapVars, stopVars, StopUnchanged
<1>0. p \in Threads BY DEF Threads
<1>1. CASE StopBegin(p)
  <2>1. pc' \in [Threads -> CallPCs] BY <1>0, <1>1, TypeGoto DEF StopBegin, CallPCs
  <2>2. branch' \in [Stoppers -> {"worker", "bare", "second"}] /\ gate' \in BOOLEAN
    BY <1>1 DEF StopBegin, Typed
  <2> QED BY <1>1, <2>1, <2>2 DEF StopBegin, Typed
<1>2. CASE StopRetireLate(p)
  <2>1. pc' \in [Threads -> CallPCs] BY <1>0, <1>2, TypeGoto DEF StopRetireLate, CallPCs
  <2> QED BY <1>2, <2>1 DEF StopRetireLate, Typed
<1>3. CASE StopClaimLate(p)
  <2>1. pc' \in [Threads -> CallPCs] BY <1>0, <1>3, TypeGoto DEF StopClaimLate, CallPCs
  <2> QED BY <1>3, <2>1 DEF StopClaimLate, Typed
<1>4. CASE StopAsk(p)
  <2>1. pc' \in [Threads -> CallPCs] BY <1>0, <1>4, TypeGoto DEF StopAsk, CallPCs
  <2> QED BY <1>4, <2>1 DEF StopAsk, Typed
<1>5. CASE StopJoin(p)
  <2>1. pc' \in [Threads -> CallPCs] BY <1>0, <1>5, TypeGoto DEF StopJoin, CallPCs
  <2>2. settled' \in BOOLEAN /\ expired' \in BOOLEAN BY <1>5 DEF StopJoin, Typed
  <2> QED BY <1>5, <2>1, <2>2 DEF StopJoin, Typed
<1>6. CASE StopTake(p)
  <2> DEFINE free == {s \in owed : ~Held(s)}
             mine == {Close(s, p, ~HoldsUnfenced(s)) : s \in free}
  <2>1. pc' \in [Threads -> CallPCs] BY <1>0, <1>6, TypeGoto DEF StopTake, CallPCs
  <2>2. free \subseteq Sinks BY DEF Typed
  <2>3. mine \in SUBSET Closes BY <2>2, CloseType
  <2>4. taken' \in [Stoppers -> SUBSET Closes] BY <1>6, <2>3 DEF StopTake, Typed
  <2>5. waited' \in [Stoppers -> BOOLEAN] BY <1>6 DEF StopTake, Typed
  <2>6. owed' \subseteq Sinks /\ closing' \subseteq Sinks BY <1>6, <2>2 DEF StopTake, Typed
  <2> QED BY <1>6, <2>1, <2>4, <2>5, <2>6 DEF StopTake, Typed
<1>7. CASE StopHand(p)
  <2>1. PICK c \in taken[p] : Release({c}) /\ taken' = [taken EXCEPT ![p] = @ \ {c}]
    BY <1>7 DEF StopHand
  <2>2. {c} \in SUBSET Closes BY <2>1 DEF Typed
  <2>3. /\ closes' \subseteq Closes /\ closing' \subseteq Sinks /\ leaked' \subseteq Sinks
        /\ dirty' \subseteq Sinks
    BY <2>1, <2>2, ReleaseType
  <2>4. taken' \in [Stoppers -> SUBSET Closes] BY <2>1 DEF Typed
  <2> QED BY <1>7, <2>3, <2>4 DEF StopHand, Typed
<1>8. CASE StopInterrupt(p)
  <2>1. pc' \in [Threads -> CallPCs] BY <1>0, <1>8, TypeGoto DEF StopInterrupt, CallPCs
  <2>2. SinksOf(taken[p]) \subseteq Sinks BY SinksOfType DEF Typed
  <2>3. taken' \in [Stoppers -> SUBSET Closes] BY <1>8 DEF StopInterrupt, Typed
  <2>4. owed' \subseteq Sinks /\ closing' \subseteq Sinks
    BY <1>8, <2>2 DEF StopInterrupt, Typed
  <2> QED BY <1>8, <2>1, <2>3, <2>4 DEF StopInterrupt, Typed
<1>9. CASE StopWait(p)
  <2>1. pc' \in [Threads -> CallPCs] BY <1>0, <1>9, TypeGoto DEF StopWait, CallPCs
  <2>2. branch' \in [Stoppers -> {"worker", "bare", "second"}] BY <1>9 DEF StopWait, Typed
  <2> QED BY <1>9, <2>1, <2>2 DEF StopWait, Typed
<1>10. CASE StopLower(p)
  <2>1. pc' \in [Threads -> CallPCs] BY <1>0, <1>10, TypeGoto DEF StopLower, CallPCs
  <2>2. branch' \in [Stoppers -> {"worker", "bare", "second"}] BY <1>10 DEF StopLower, Typed
  <2>3. late' \in BOOLEAN BY <1>10 DEF StopLower
  <2> QED BY <1>10, <2>1, <2>2, <2>3 DEF StopLower, Typed
<1>11. CASE StopUnwind(p)
  <2>1. pc' \in [Threads -> CallPCs] BY <1>0, <1>11, TypeGoto DEF StopUnwind, CallPCs
  <2>2. late' \in BOOLEAN BY <1>11 DEF StopUnwind, Typed
  <2> QED BY <1>11, <2>1, <2>2 DEF StopUnwind, Typed
<1> QED BY <1>1, <1>2, <1>3, <1>4, <1>5, <1>6, <1>7, <1>8, <1>9, <1>10, <1>11 DEF Stop

LEMMA TypeStep ==
  ASSUME Typed, NamesInv, HoldInv, [Next]_vars
  PROVE  Typed'
<1> USE DEF ownerVars, closeVars, signalVars, workerVars, drainVars, swapVars, callVars, stopVars
<1>1. CASE CloseEnd BY <1>1 DEF CloseEnd, Typed
<1>2. CASE UNCHANGED vars BY <1>2 DEF vars, Typed
<1> QED BY <1>1, <1>2, TypeLog, TypeTrace, TypeStop, TypeDrain, TypeSwap DEF Next, Terminated

----------------------------------------------------------------------------
(* What the drain holds                                                    *)

\* What a shutdown() call leaves alone.
LEMMA StopFrame ==
  ASSUME Typed, NEW p \in Stoppers, Stop(p)
  PROVE  /\ UNCHANGED <<config, stopEvent, signal, epoch, sink, holds, workerEvent, builtIn, thread,
                        inside, cpc, new, previous, fenced, fence, target>>
         /\ \A t \in Threads : t # p => pc'[t] = pc[t]
<1> USE DEF workerVars, swapVars, StopUnchanged
<1>0. p \in Threads /\ pc \in [Threads -> CallPCs] BY DEF Threads, Typed
<1>1. CASE StopBegin(p) BY <1>0, <1>1 DEF StopBegin, Goto
<1>2. CASE StopRetireLate(p) BY <1>0, <1>2 DEF StopRetireLate, Goto
<1>3. CASE StopClaimLate(p) BY <1>0, <1>3 DEF StopClaimLate, Goto
<1>4. CASE StopAsk(p) BY <1>0, <1>4 DEF StopAsk, Goto
<1>5. CASE StopJoin(p) BY <1>0, <1>5 DEF StopJoin, Goto
<1>6. CASE StopTake(p) BY <1>0, <1>6 DEF StopTake, Goto
<1>7. CASE StopHand(p) BY <1>0, <1>7 DEF StopHand
<1>8. CASE StopInterrupt(p) BY <1>0, <1>8 DEF StopInterrupt, Goto
<1>9. CASE StopWait(p) BY <1>0, <1>9 DEF StopWait, Goto
<1>10. CASE StopLower(p) BY <1>0, <1>10 DEF StopLower, Goto
<1>11. CASE StopUnwind(p) BY <1>0, <1>11 DEF StopUnwind, Goto
<1> QED BY <1>1, <1>2, <1>3, <1>4, <1>5, <1>6, <1>7, <1>8, <1>9, <1>10, <1>11 DEF Stop

\* What a level call leaves alone.
LEMMA LogFrame ==
  ASSUME Typed, NEW l \in Loggers, Log(l)
  PROVE  /\ UNCHANGED <<config, retirements, running, late, closing, closes, leaked, isSet, epoch,
                        sink, holds, workerEvent, builtIn, thread, inside, settled, cpc, new,
                        previous, fenced, fence, branch, taken, dirty>>
         /\ \A t \in Threads : t # l => pc'[t] = pc[t]
<1> USE DEF ownerVars, closeVars, signalVars, workerVars, drainVars, swapVars, stopVars
<1>0. l \in Threads /\ pc \in [Threads -> CallPCs] BY DEF Threads, Typed
<1>1. CASE LogRead(l) BY <1>0, <1>1 DEF LogRead, Goto
<1>2. CASE LogNote(l) BY <1>0, <1>2 DEF LogNote, Goto
<1>3. CASE LogArm(l) BY <1>0, <1>3 DEF LogArm, Goto
<1> QED BY <1>1, <1>2, <1>3 DEF Log

\* What the end of a span leaves alone.
LEMMA TraceFrame ==
  ASSUME Typed, NEW t \in Tracers, Trace(t)
  PROVE  /\ UNCHANGED <<config, retirements, running, closing, closes, leaked, isSet, inside,
                        settled, cpc, new, previous, fenced, fence, branch, taken, dirty, target>>
         /\ epoch # None =>
               UNCHANGED <<epoch, sink, holds, workerEvent, builtIn, thread, signal, owed, late>>
         /\ \A u \in Threads : u # t => pc'[u] = pc[u]
<1> USE DEF ownerVars, closeVars, signalVars, workerVars, drainVars, swapVars, stopVars
<1>0. t \in Threads /\ pc \in [Threads -> CallPCs] BY DEF Threads, Typed
<1>1. CASE GetWorker(t) BY <1>0, <1>1 DEF GetWorker, Goto
<1>2. CASE Submit(t) BY <1>0, <1>2 DEF Submit, Goto
<1> QED BY <1>1, <1>2 DEF Trace

\* What a swap leaves alone.
LEMMA SwapFrame ==
  ASSUME Swap
  PROVE  UNCHANGED <<retirements, running, late, isSet, epoch, workerEvent, builtIn, thread, inside,
                     settled, pc, target, branch, taken>>
  BY DEF Swap, CfgRebind, CfgSwap, CfgRetarget, CfgFlush, CfgReassign, CfgOffer, CfgUnhold, CfgAdopt,
         SwapUnchanged, drainVars, callVars, stopVars

\* What the drain leaves alone.
LEMMA DrainFrame ==
  ASSUME Drain
  PROVE  UNCHANGED <<config, retirements, running, late, owed, closing, closes, leaked, stopEvent,
                     isSet, signal, epoch, sink, holds, workerEvent, builtIn, cpc, new, previous,
                     fenced, pc, target, branch, taken>>
  BY DEF Drain, DrainEnter, DrainLeave, DrainAnswer, DrainEnd, DrainUnchanged, ownerVars,
         closeVars, signalVars, workerVars, swapVars, callVars, stopVars

\* What the end of a close leaves alone.
LEMMA CloseEndFrame ==
  ASSUME CloseEnd
  PROVE  UNCHANGED <<config, retirements, running, late, owed, leaked, stopEvent, isSet, signal,
                     epoch, sink, holds, workerEvent, builtIn, thread, inside, settled, cpc, new,
                     previous, fenced, fence, pc, target, branch, taken, dirty>>
  BY DEF CloseEnd, ownerVars, signalVars, workerVars, drainVars, swapVars, callVars, stopVars

LEMMA VarsFrame ==
  ASSUME UNCHANGED vars
  PROVE  UNCHANGED <<config, retirements, running, late, owed, closing, closes, leaked, stopEvent,
                     isSet, signal, epoch, sink, holds, workerEvent, builtIn, thread, inside, settled,
                     cpc, new, previous, fenced, fence, pc, target, branch, taken, dirty>>
  BY DEF vars, ownerVars, closeVars, signalVars, workerVars, drainVars, swapVars, callVars, stopVars

LEMMA NamesStep ==
  ASSUME Typed, NamesInv, HoldInv, [Next]_vars
  PROVE  NamesInv'
<1>1. ASSUME NEW l \in Loggers, Log(l) PROVE NamesInv'
  <2>1. ASSUME NEW k \in Loggers, pc'[k] \in {"note", "arm"} PROVE target'[k] \in Sinks
    <3>1. CASE k = l
      <4>0. pc \in [Threads -> CallPCs] /\ l \in Threads /\ target \in [Loggers -> Sinks \cup {None}]
        BY DEF Typed, Threads
      <4>1. CASE LogRead(l) BY <3>1, <4>0, <4>1 DEF LogRead, Typed
      <4>2. CASE LogNote(l) BY <3>1, <4>0, <4>2 DEF LogNote, NamesInv, At
      <4>3. CASE LogArm(l) BY <2>1, <3>1, <4>0, <4>3 DEF LogArm, Goto
      <4> QED BY <1>1, <4>1, <4>2, <4>3 DEF Log
    <3>2. CASE k # l
      <4>1. pc'[k] = pc[k] BY <1>1, <3>2, LogFrame DEF Threads
      <4>2. target'[k] = target[k] BY <1>1, <3>2 DEF Log, LogRead, LogNote, LogArm, Typed
      <4> QED BY <2>1, <4>1, <4>2 DEF NamesInv
    <3> QED BY <3>1, <3>2
  <2> QED BY <1>1, <2>1, LogFrame DEF NamesInv
<1>2. ASSUME NEW t \in Tracers, Trace(t) PROVE NamesInv'
  <2>1. \A k \in Loggers : pc'[k] = pc[k] /\ target' = target
    BY <1>2, TraceFrame, LifecycleAssumption DEF Threads
  <2>2. epoch' # None => sink' \in Sinks
    <3>1. CASE epoch = None BY <1>2, <3>1 DEF Trace, GetWorker, Submit, workerVars, Typed
    <3>2. CASE epoch # None BY <1>2, <3>2, TraceFrame DEF NamesInv
    <3> QED BY <3>1, <3>2
  <2> QED BY <1>2, <2>1, <2>2, TraceFrame DEF NamesInv
<1>3. ASSUME NEW p \in Stoppers, Stop(p) PROVE NamesInv'
  <2>1. \A k \in Loggers : pc'[k] = pc[k] BY <1>3, StopFrame, LifecycleAssumption DEF Threads
  <2> QED BY <1>3, <2>1, StopFrame DEF NamesInv
<1>4. CASE Drain BY <1>4, DrainFrame DEF NamesInv
<1>5. CASE Swap
  <2>0. UNCHANGED <<epoch, pc, target>> BY <1>5, SwapFrame
  <2>1. CASE CfgRebind BY <2>0, <2>1 DEF CfgRebind, NamesInv
  <2>2. CASE CfgSwap BY <2>0, <2>2 DEF CfgSwap, NamesInv
  <2>3. CASE CfgRetarget BY <2>0, <2>3 DEF CfgRetarget, NamesInv, HoldInv
  <2>4. CASE CfgFlush BY <2>0, <2>4 DEF CfgFlush, FlushReturns, NamesInv
  <2>5. CASE CfgReassign BY <2>0, <2>5 DEF CfgReassign, NamesInv
  <2>6. CASE CfgOffer BY <2>0, <2>6 DEF CfgOffer, NamesInv
  <2>7. CASE CfgUnhold BY <2>0, <2>7 DEF CfgUnhold, NamesInv
  <2>8. CASE CfgAdopt BY <2>0, <2>8 DEF CfgAdopt, NamesInv
  <2> QED BY <1>5, <2>1, <2>2, <2>3, <2>4, <2>5, <2>6, <2>7, <2>8 DEF Swap
<1>6. CASE CloseEnd BY <1>6, CloseEndFrame DEF NamesInv
<1>7. CASE UNCHANGED vars BY <1>7, VarsFrame DEF NamesInv
<1> QED BY <1>1, <1>2, <1>3, <1>4, <1>5, <1>6, <1>7 DEF Next, Terminated

LEMMA HoldStep ==
  ASSUME Typed, NamesInv, HoldInv, [Next]_vars
  PROVE  HoldInv'
<1> USE DEF Swapping
<1>1. ASSUME NEW l \in Loggers, Log(l) PROVE HoldInv' BY <1>1, LogFrame DEF HoldInv
<1>2. ASSUME NEW t \in Tracers, Trace(t) PROVE HoldInv'
  <2>1. CASE GetWorker(t) /\ epoch = None
    <3>1. epoch' # None /\ thread' = "alive" /\ sink' \in holds'
      BY <2>1, LifecycleAssumption DEF GetWorker, Typed
    <3>2. inside' = None /\ cpc' \in {"idle", "swap"}
      BY <1>2, <2>1, TraceFrame DEF HoldInv, Typed, SwapPCs
    <3> QED BY <3>1, <3>2 DEF HoldInv
  <2>2. CASE Submit(t) BY <2>2 DEF Submit, HoldInv, workerVars, swapVars
  <2>3. CASE epoch # None BY <1>2, <2>3, TraceFrame DEF HoldInv
  <2> QED BY <1>2, <2>1, <2>2, <2>3 DEF Trace
<1>3. ASSUME NEW p \in Stoppers, Stop(p) PROVE HoldInv' BY <1>3, StopFrame DEF HoldInv
<1>4. CASE Drain
  <2>0. UNCHANGED <<epoch, sink, holds, cpc, new, previous, fenced>> BY <1>4, DrainFrame
  <2>1. CASE DrainEnter BY <2>0, <2>1 DEF DrainEnter, swapVars, HoldInv
  <2>2. CASE DrainLeave BY <2>0, <2>2, LifecycleAssumption DEF DrainLeave, swapVars, HoldInv, NamesInv
  <2>3. CASE DrainAnswer BY <2>0, <2>3, LifecycleAssumption DEF DrainAnswer, HoldInv, NamesInv
  <2>4. CASE DrainEnd BY <2>0, <2>4, LifecycleAssumption DEF DrainEnd, swapVars, HoldInv, NamesInv
  <2> QED BY <1>4, <2>1, <2>2, <2>3, <2>4 DEF Drain
<1>5. CASE Swap
  <2>0. UNCHANGED <<epoch, thread, inside>> BY <1>5, SwapFrame
  <2>1. CASE CfgRebind BY <2>0, <2>1 DEF CfgRebind, HoldInv
  <2>2. CASE CfgSwap BY <2>0, <2>2 DEF CfgSwap, HoldInv, Live
  <2>3. CASE CfgRetarget BY <2>0, <2>3 DEF CfgRetarget, HoldInv
  <2>4. CASE CfgFlush BY <2>0, <2>4 DEF CfgFlush, FlushReturns, HoldInv
  <2>5. CASE CfgReassign BY <2>0, <2>5 DEF CfgReassign, HoldInv
  <2>6. CASE CfgOffer BY <2>0, <2>6 DEF CfgOffer, HoldInv
  <2>7. CASE CfgUnhold BY <2>0, <2>7 DEF CfgUnhold, HoldInv
  <2>8. CASE CfgAdopt BY <2>0, <2>8 DEF CfgAdopt, HoldInv
  <2> QED BY <1>5, <2>1, <2>2, <2>3, <2>4, <2>5, <2>6, <2>7, <2>8 DEF Swap
<1>6. CASE CloseEnd BY <1>6, CloseEndFrame DEF HoldInv
<1>7. CASE UNCHANGED vars BY <1>7, VarsFrame DEF HoldInv
<1> QED BY <1>1, <1>2, <1>3, <1>4, <1>5, <1>6, <1>7 DEF Next, Terminated

----------------------------------------------------------------------------
(* The registry of closes                                                  *)

\* A step that moves no close keeps the registry, if nobody leaves a hand-over unfinished.
LEMMA CloseFrame ==
  ASSUME CloseInv, UNCHANGED <<closing, closes, taken>>,
         \A p \in Stoppers : pc[p] = "hand" /\ taken[p] # {} => pc'[p] = "hand"
  PROVE  CloseInv'
  BY DEF CloseInv, At

\* What Release does, member by member.
LEMMA ReleaseShape ==
  ASSUME NEW cs, Release(cs)
  PROVE  \E refused \in SUBSET cs :
            /\ closes' = closes \cup (cs \ refused)
            /\ \A s : s \in closing' <=> \/ s \in closing /\ \A c \in refused : c.sink # s
                                         \/ /\ \E c \in cs : c.sink = s
                                            /\ \A c \in refused : c.sink # s
            /\ \A s : s \in leaked' <=> \/ s \in leaked /\ \A c \in cs : c.sink # s
                                        \/ \E c \in refused : c.sink = s
            /\ \A s : s \in dirty' <=> s \in dirty /\ \A c \in cs \ refused : c.sink # s
<1>1. PICK refused \in SUBSET {c \in cs : ~c.joined} :
        /\ closes' = closes \cup (cs \ refused)
        /\ closing' = (closing \cup SinksOf(cs)) \ SinksOf(refused)
        /\ leaked' = (leaked \ SinksOf(cs)) \cup SinksOf(refused)
        /\ dirty' = dirty \ SinksOf(cs \ refused)
  BY DEF Release
<1>2. refused \in SUBSET cs OBVIOUS
<1>3. /\ \A s : s \in SinksOf(cs) <=> \E c \in cs : c.sink = s
      /\ \A s : s \in SinksOf(refused) <=> \E c \in refused : c.sink = s
      /\ \A s : s \in SinksOf(cs \ refused) <=> \E c \in cs \ refused : c.sink = s
  BY DEF SinksOf
<1>4. \A s : s \in closing' <=> \/ s \in closing /\ \A c \in refused : c.sink # s
                                \/ (\E c \in cs : c.sink = s) /\ \A c \in refused : c.sink # s
  BY <1>1, <1>3
<1>5. \A s : s \in leaked' <=> \/ s \in leaked /\ \A c \in cs : c.sink # s
                               \/ \E c \in refused : c.sink = s
  BY <1>1, <1>3
<1>6. \A s : s \in dirty' <=> s \in dirty /\ \A c \in cs \ refused : c.sink # s BY <1>1, <1>3
<1>7. closes' = closes \cup (cs \ refused) BY <1>1
<1> QED BY <1>2, <1>4, <1>5, <1>6, <1>7

\* Closes registered as they are handed over, of sinks nobody is closing, each in one close.
LEMMA ReleaseFresh ==
  ASSUME Typed, CloseInv, NEW cs \in SUBSET Closes, Release(cs), UNCHANGED <<taken, pc>>,
         \A c, d \in cs : c.sink = d.sink => c = d,
         \A c \in cs : c.sink \notin closing
  PROVE  CloseInv'
<1>1. PICK refused \in SUBSET cs :
        /\ closes' = closes \cup (cs \ refused)
        /\ \A s : s \in closing' <=> \/ s \in closing /\ \A c \in refused : c.sink # s
                                     \/ /\ \E c \in cs : c.sink = s
                                        /\ \A c \in refused : c.sink # s
  BY ReleaseShape
<1>2. \A c \in closes : c.sink \in closing BY DEF CloseInv, Typed, Closes
<1>3. \A p \in Stoppers : \A c \in taken[p] : c.sink \in closing
  BY DEF CloseInv, Typed, Closes
<1>4. \A c, d \in closes' : c.sink = d.sink => c = d BY <1>1, <1>2 DEF CloseInv
<1>5. \A p \in Stoppers : \A c \in taken'[p] : \A d \in closes' : c.sink # d.sink
  BY <1>1, <1>3 DEF CloseInv
<1>6. \A s \in Sinks : s \in closing' <=> \/ \E c \in closes' : c.sink = s
                                          \/ \E p \in Stoppers : \E c \in taken'[p] : c.sink = s
  <2> SUFFICES ASSUME NEW s \in Sinks
               PROVE  s \in closing' <=> \/ \E c \in closes' : c.sink = s
                                         \/ \E p \in Stoppers : \E c \in taken'[p] : c.sink = s
    OBVIOUS
  <2>1. CASE \E c \in cs : c.sink = s
    <3>1. s \notin closing BY <2>1
    <3>2. ~(\E p \in Stoppers : \E c \in taken'[p] : c.sink = s) /\ ~(\E c \in closes : c.sink = s)
      BY <3>1, <1>2, <1>3
    <3>3. s \in closing' <=> \A c \in refused : c.sink # s BY <1>1, <2>1, <3>1
    <3>4. (\E c \in closes' : c.sink = s) <=> \E c \in cs \ refused : c.sink = s
      BY <1>1, <3>2
    <3>5. (\E c \in cs \ refused : c.sink = s) <=> \A c \in refused : c.sink # s
      BY <2>1
    <3> QED BY <3>2, <3>3, <3>4, <3>5
  <2>2. CASE ~(\E c \in cs : c.sink = s)
    <3>1. s \in closing' <=> s \in closing BY <1>1, <2>2
    <3>2. (\E c \in closes' : c.sink = s) <=> \E c \in closes : c.sink = s BY <1>1, <2>2
    <3> QED BY <3>1, <3>2 DEF CloseInv
  <2> QED BY <2>1, <2>2
<1> QED BY <1>4, <1>5, <1>6 DEF CloseInv, At

LEMMA CloseStop ==
  ASSUME Typed, CloseInv, NEW p \in Stoppers, Stop(p)
  PROVE  CloseInv'
<1> USE DEF ownerVars, closeVars, workerVars, swapVars, stopVars, StopUnchanged
<1>0. p \in Threads /\ pc \in [Threads -> CallPCs] /\ Stoppers \subseteq Threads
      /\ taken \in [Stoppers -> SUBSET Closes]
  BY DEF Threads, Typed
<1>1. ASSUME UNCHANGED <<closing, closes, taken>>, pc[p] = "hand" => taken[p] = {}
      PROVE  CloseInv'
  <2>1. \A q \in Stoppers : q # p => pc'[q] = pc[q] BY <1>0, StopFrame
  <2> QED BY <1>1, <2>1, CloseFrame
<1>2. CASE StopBegin(p) BY <1>1, <1>2 DEF StopBegin, At
<1>3. CASE StopRetireLate(p) BY <1>1, <1>3 DEF StopRetireLate, At
<1>4. CASE StopClaimLate(p) BY <1>1, <1>4 DEF StopClaimLate, At
<1>5. CASE StopAsk(p) BY <1>1, <1>5 DEF StopAsk, At
<1>6. CASE StopJoin(p) BY <1>1, <1>6 DEF StopJoin, At
<1>7. CASE StopTake(p)
  <2> DEFINE free == {s \in owed : ~Held(s)}
             mine == {Close(s, p, ~HoldsUnfenced(s)) : s \in free}
  <2>0. pc'[p] = "hand" /\ \A q \in Stoppers : q # p => pc'[q] = pc[q]
    BY <1>0, <1>7 DEF StopTake, Goto
  <2>1. /\ taken'[p] = mine /\ \A q \in Stoppers : q # p => taken'[q] = taken[q]
        /\ closing' = closing \cup free /\ closes' = closes
    BY <1>0, <1>7 DEF StopTake
  <2>2. free \subseteq Sinks /\ \A s \in free : s \notin closing BY DEF Held, Typed
  <2>3. \A c \in mine : c.sink \in free BY DEF Close
  <2>4. ASSUME NEW s \in free PROVE \E c \in mine : c.sink = s
    <3>1. Close(s, p, ~HoldsUnfenced(s)) \in mine /\ Close(s, p, ~HoldsUnfenced(s)).sink = s
      BY DEF Close
    <3> QED BY <3>1
  <2>5. \A c, d \in mine : c.sink = d.sink => c = d BY DEF Close
  <2>6. taken[p] = {} BY <1>7 DEF StopTake, CloseInv, At
  <2>7. \A c \in closes : c.sink \in closing BY DEF CloseInv, Typed, Closes
  <2>8. \A q \in Stoppers : \A c \in taken[q] : c.sink \in closing
    BY DEF CloseInv, Typed, Closes
  <2> HIDE DEF free, mine
  <2>9. \A q \in Stoppers : ~At(q, "hand")' => taken'[q] = {} BY <2>0, <2>1 DEF CloseInv, At
  <2>10. \A q \in Stoppers : \A c, d \in taken'[q] : c.sink = d.sink => c = d
    BY <2>1, <2>5 DEF CloseInv
  <2>11. \A q \in Stoppers : \A c \in taken'[q] : \A d \in closes' : c.sink # d.sink
    BY <2>1, <2>2, <2>3, <2>7 DEF CloseInv
  <2>12. \A q, r \in Stoppers : \A c \in taken'[q] : \A d \in taken'[r] : q # r => c.sink # d.sink
    BY <2>1, <2>2, <2>3, <2>8 DEF CloseInv
  <2>13. \A s \in Sinks : s \in closing' <=> \/ \E c \in closes' : c.sink = s
                                             \/ \E q \in Stoppers : \E c \in taken'[q] : c.sink = s
    <3> SUFFICES ASSUME NEW s \in Sinks
                 PROVE  s \in closing' <=> \/ \E c \in closes' : c.sink = s
                                           \/ \E q \in Stoppers : \E c \in taken'[q] : c.sink = s
      OBVIOUS
    <3>1. (\E q \in Stoppers : \E c \in taken'[q] : c.sink = s)
          <=> s \in free \/ \E q \in Stoppers : \E c \in taken[q] : c.sink = s
      BY <2>1, <2>3, <2>4, <2>6
    <3> QED BY <2>1, <3>1 DEF CloseInv
  <2> QED BY <2>1, <2>9, <2>10, <2>11, <2>12, <2>13 DEF CloseInv
<1>8. CASE StopHand(p)
  <2>1. PICK c \in taken[p] : Release({c}) /\ taken' = [taken EXCEPT ![p] = @ \ {c}]
    BY <1>8 DEF StopHand
  <2>2. PICK refused \in SUBSET {c} :
          /\ closes' = closes \cup ({c} \ refused)
          /\ \A s : s \in closing' <=> \/ s \in closing /\ \A d \in refused : d.sink # s
                                       \/ /\ \E d \in {c} : d.sink = s
                                          /\ \A d \in refused : d.sink # s
    BY <2>1, ReleaseShape
  <2>3. taken'[p] = taken[p] \ {c} /\ \A q \in Stoppers : q # p => taken'[q] = taken[q]
    BY <1>0, <2>1
  <2>4. c.sink \in Sinks /\ c.sink \in closing BY <1>0, <2>1 DEF CloseInv, Closes
  <2>5. /\ \A d \in closes : d.sink # c.sink
        /\ \A q \in Stoppers : \A d \in taken'[q] : d.sink # c.sink
    BY <2>1, <2>3 DEF CloseInv
  <2>6. UNCHANGED pc BY <1>8 DEF StopHand
  <2>7. \A q \in Stoppers : taken'[q] \subseteq taken[q] BY <2>3
  <2>8. \A q \in Stoppers : ~At(q, "hand")' => taken'[q] = {}
    BY <1>0, <2>3, <2>6 DEF CloseInv, At
  <2>9. \A d, e \in closes' : d.sink = e.sink => d = e BY <2>2, <2>5 DEF CloseInv
  <2>10. \A q \in Stoppers : \A d, e \in taken'[q] : d.sink = e.sink => d = e
    BY <2>7 DEF CloseInv
  <2>11. \A q \in Stoppers : \A d \in taken'[q] : \A e \in closes' : d.sink # e.sink
    BY <2>2, <2>5, <2>7 DEF CloseInv
  <2>12. \A q, r \in Stoppers : \A d \in taken'[q] : \A e \in taken'[r] : q # r => d.sink # e.sink
    BY <2>7 DEF CloseInv
  <2>13. ASSUME NEW s \in Sinks
         PROVE  s \in closing' <=> \/ \E d \in closes' : d.sink = s
                                   \/ \E q \in Stoppers : \E d \in taken'[q] : d.sink = s
    <3>1. CASE s = c.sink
      <4>1. CASE refused = {} BY <2>2, <2>4, <3>1, <4>1
      <4>2. CASE refused = {c} BY <2>2, <2>5, <3>1, <4>2
      <4> QED BY <4>1, <4>2
    <3>2. CASE s # c.sink
      <4>1. s \in closing' <=> s \in closing BY <2>2, <3>2
      <4>2. (\E d \in closes' : d.sink = s) <=> \E d \in closes : d.sink = s BY <2>2, <3>2
      <4>3. (\E q \in Stoppers : \E d \in taken'[q] : d.sink = s)
            <=> \E q \in Stoppers : \E d \in taken[q] : d.sink = s
        BY <2>3, <3>2
      <4> QED BY <4>1, <4>2, <4>3 DEF CloseInv
    <3> QED BY <3>1, <3>2
  <2> QED BY <2>8, <2>9, <2>10, <2>11, <2>12, <2>13 DEF CloseInv
<1>9. CASE StopInterrupt(p)
  <2>1. /\ taken'[p] = {} /\ \A q \in Stoppers : q # p => taken'[q] = taken[q]
        /\ closes' = closes
    BY <1>0, <1>9 DEF StopInterrupt
  <2>2. \A s : s \in closing' <=> s \in closing /\ \A c \in taken[p] : c.sink # s
    BY <1>9 DEF StopInterrupt, SinksOf
  <2>3. \A q \in Stoppers : q # p => pc'[q] = pc[q] BY <1>0, <1>9 DEF StopInterrupt, Goto
  <2>4. \A q \in Stoppers : taken'[q] \subseteq taken[q] BY <2>1
  <2>5. \A q \in Stoppers : ~At(q, "hand")' => taken'[q] = {}
    BY <2>1, <2>3 DEF CloseInv, At
  <2>6. ASSUME NEW s \in Sinks
        PROVE  s \in closing' <=> \/ \E d \in closes' : d.sink = s
                                  \/ \E q \in Stoppers : \E d \in taken'[q] : d.sink = s
    <3>1. CASE \E c \in taken[p] : c.sink = s
      <4>1. s \notin closing' BY <2>2, <3>1
      <4>2. ~\E d \in closes' : d.sink = s BY <2>1, <3>1 DEF CloseInv
      <4>3. ~\E q \in Stoppers : \E d \in taken'[q] : d.sink = s BY <2>1, <3>1 DEF CloseInv
      <4> QED BY <4>1, <4>2, <4>3
    <3>2. CASE ~\E c \in taken[p] : c.sink = s
      <4>1. s \in closing' <=> s \in closing BY <2>2, <3>2
      <4>2. (\E q \in Stoppers : \E d \in taken'[q] : d.sink = s)
            <=> \E q \in Stoppers : \E d \in taken[q] : d.sink = s
        BY <2>1, <3>2
      <4> QED BY <2>1, <4>1, <4>2 DEF CloseInv
    <3> QED BY <3>1, <3>2
  <2> QED BY <2>1, <2>4, <2>5, <2>6 DEF CloseInv
<1>10. CASE StopWait(p) BY <1>1, <1>10 DEF StopWait, Joined
<1>11. CASE StopLower(p) BY <1>1, <1>11 DEF StopLower, At
<1>12. CASE StopUnwind(p) BY <1>1, <1>12 DEF StopUnwind, At
<1> QED BY <1>2, <1>3, <1>4, <1>5, <1>6, <1>7, <1>8, <1>9, <1>10, <1>11, <1>12 DEF Stop

LEMMA CloseStep ==
  ASSUME Typed, NamesInv, CloseInv, [Next]_vars
  PROVE  CloseInv'
<1>0. Stoppers \subseteq Threads BY DEF Threads
<1>1. ASSUME NEW l \in Loggers, Log(l) PROVE CloseInv'
  <2>1. \A p \in Stoppers : pc'[p] = pc[p] BY <1>0, <1>1, LogFrame, LifecycleAssumption
  <2> QED BY <1>1, <2>1, LogFrame, CloseFrame
<1>2. ASSUME NEW t \in Tracers, Trace(t) PROVE CloseInv'
  <2>1. \A p \in Stoppers : pc'[p] = pc[p] BY <1>0, <1>2, TraceFrame, LifecycleAssumption
  <2> QED BY <1>2, <2>1, TraceFrame, CloseFrame
<1>3. ASSUME NEW p \in Stoppers, Stop(p) PROVE CloseInv' BY <1>3, CloseStop
<1>4. CASE Drain BY <1>4, DrainFrame, CloseFrame
<1>5. CASE Swap
  <2>0. UNCHANGED <<pc, taken>> BY <1>5, SwapFrame
  <2>1. CASE CfgSwap /\ ~(~Live /\ owed = {})
    <3> DEFINE cs == {Close(s, Configure, FALSE) : s \in Stale}
    <3>1. Release(cs) BY <2>1 DEF CfgSwap
    <3>2. cs \in SUBSET Closes BY StaleType
    <3>3. ASSUME NEW c \in cs, NEW d \in cs, c.sink = d.sink PROVE c = d
      <4>1. PICK s \in Stale : c = Close(s, Configure, FALSE) OBVIOUS
      <4>2. PICK u \in Stale : d = Close(u, Configure, FALSE) OBVIOUS
      <4>3. s = u BY <3>3, <4>1, <4>2 DEF Close
      <4> QED BY <4>1, <4>2, <4>3
    <3>4. \A c \in cs : c.sink \notin closing BY DEF Close, Stale, Held
    <3> QED BY <2>0, <3>1, <3>2, <3>3, <3>4, ReleaseFresh
  <2>2. CASE CfgAdopt /\ FencedOut
    <3> DEFINE cs == {Close(previous, Configure, FALSE)}
    <3>1. Release(cs) BY <2>2 DEF CfgAdopt
    <3>2. cs \in SUBSET Closes BY <2>2, CloseType DEF CfgAdopt, NamesInv
    <3>3. \A c \in cs : c.sink \notin closing BY <2>2 DEF Close, FencedOut, Held
    <3> QED BY <2>0, <3>1, <3>2, <3>3, ReleaseFresh
  <2>3. ASSUME UNCHANGED <<closing, closes>> PROVE CloseInv' BY <2>0, <2>3, CloseFrame
  <2> QED BY <1>5, <2>1, <2>2, <2>3 DEF Swap, CfgRebind, CfgSwap, CfgRetarget, CfgFlush, CfgReassign,
             CfgOffer, CfgUnhold, CfgAdopt, closeVars
<1>6. CASE CloseEnd
  <2>1. UNCHANGED <<pc, taken>> BY <1>6, CloseEndFrame
  <2>2. PICK c \in closes : closes' = closes \ {c} /\ closing' = closing \ {c.sink}
    BY <1>6 DEF CloseEnd
  <2>3. ASSUME NEW s \in Sinks
        PROVE  s \in closing' <=> \/ \E d \in closes' : d.sink = s
                                  \/ \E q \in Stoppers : \E d \in taken'[q] : d.sink = s
    <3>1. CASE s = c.sink BY <2>1, <2>2, <3>1 DEF CloseInv
    <3>2. CASE s # c.sink BY <2>1, <2>2, <3>2 DEF CloseInv
    <3> QED BY <3>1, <3>2
  <2> QED BY <2>1, <2>2, <2>3 DEF CloseInv, At
<1>7. CASE UNCHANGED vars BY <1>7, VarsFrame, CloseFrame
<1> QED BY <1>1, <1>2, <1>3, <1>4, <1>5, <1>6, <1>7 DEF Next, Terminated

----------------------------------------------------------------------------
(* The record of owed closes                                               *)

\* A step that only adds to the record keeps it.
LEMMA OwedFrame ==
  ASSUME OwedInv, owed \subseteq owed', UNCHANGED <<leaked, taken, dirty, thread, sink, new, cpc>>
  PROVE  OwedInv'
  BY DEF OwedInv, Window

LEMMA OwedStop ==
  ASSUME Typed, HoldInv, CloseInv, OwedInv, NEW p \in Stoppers, Stop(p)
  PROVE  OwedInv'
<1> USE DEF ownerVars, closeVars, stopVars
<1>0. UNCHANGED <<thread, sink, new, cpc>> /\ taken \in [Stoppers -> SUBSET Closes]
  BY StopFrame DEF Typed
<1>1. CASE StopBegin(p) BY <1>0, <1>1, OwedFrame DEF StopBegin
<1>2. CASE StopRetireLate(p) BY <1>0, <1>2, OwedFrame DEF StopRetireLate
<1>3. CASE StopClaimLate(p) BY <1>0, <1>3, OwedFrame DEF StopClaimLate
<1>4. CASE StopAsk(p) BY <1>0, <1>4, OwedFrame DEF StopAsk
<1>5. CASE StopJoin(p) BY <1>0, <1>5, OwedFrame DEF StopJoin
<1>6. CASE StopTake(p)
  <2> DEFINE free == {s \in owed : ~Held(s)}
             mine == {Close(s, p, ~HoldsUnfenced(s)) : s \in free}
  <2>1. /\ taken'[p] = mine /\ \A q \in Stoppers : q # p => taken'[q] = taken[q]
        /\ owed' = owed \ free /\ UNCHANGED <<leaked, dirty>>
    BY <1>0, <1>6 DEF StopTake
  <2>2. ASSUME NEW s \in free PROVE \E c \in mine : c.sink = s
    <3>1. Close(s, p, ~HoldsUnfenced(s)) \in mine /\ Close(s, p, ~HoldsUnfenced(s)).sink = s
      BY DEF Close
    <3> QED BY <3>1
  <2>3. thread = "alive" => sink \notin free BY DEF HoldInv, Held
  <2> HIDE DEF free, mine
  <2>4. thread' = "alive" => sink' \in owed' \/ Window(sink)'
    BY <1>0, <2>1, <2>3 DEF OwedInv, Window
  <2>5. ASSUME NEW s \in dirty'
        PROVE  \/ s \in owed' \cup leaked' \/ Window(s)'
               \/ \E q \in Stoppers : \E c \in taken'[q] : c.sink = s
    <3>1. CASE s \in owed BY <2>1, <2>2, <3>1
    <3>2. CASE s \in leaked \/ Window(s) BY <1>0, <2>1, <3>2 DEF Window
    <3>3. ASSUME NEW q \in Stoppers, NEW c \in taken[q], c.sink = s
          PROVE  \E r \in Stoppers : \E d \in taken'[r] : d.sink = s
      <4>1. CASE q # p BY <2>1, <3>3, <4>1
      <4>2. CASE q = p BY <1>6, <3>3, <4>2 DEF StopTake, CloseInv, At
      <4> QED BY <4>1, <4>2
    <3> QED BY <2>1, <3>1, <3>2, <3>3 DEF OwedInv
  <2> QED BY <2>4, <2>5 DEF OwedInv
<1>7. CASE StopHand(p)
  <2>1. PICK c \in taken[p] : Release({c}) /\ taken' = [taken EXCEPT ![p] = @ \ {c}]
    BY <1>7 DEF StopHand
  <2>2. PICK refused \in SUBSET {c} :
          /\ \A s : s \in leaked' <=> \/ s \in leaked /\ \A d \in {c} : d.sink # s
                                      \/ \E d \in refused : d.sink = s
          /\ \A s : s \in dirty' <=> s \in dirty /\ \A d \in {c} \ refused : d.sink # s
    BY <2>1, ReleaseShape
  <2>3. taken'[p] = taken[p] \ {c} /\ \A q \in Stoppers : q # p => taken'[q] = taken[q]
    BY <1>0, <2>1
  <2>4. UNCHANGED owed BY <1>7 DEF StopHand
  <2>5. thread' = "alive" => sink' \in owed' \/ Window(sink)' BY <1>0, <2>4 DEF OwedInv, Window
  <2>6. ASSUME NEW s \in dirty'
        PROVE  \/ s \in owed' \cup leaked' \/ Window(s)'
               \/ \E q \in Stoppers : \E d \in taken'[q] : d.sink = s
    <3>1. CASE s = c.sink BY <2>2, <3>1
    <3>2. CASE s # c.sink
      <4>1. s \in dirty /\ (s \in leaked => s \in leaked') BY <2>2, <3>2
      <4>2. (\E q \in Stoppers : \E d \in taken[q] : d.sink = s)
            => \E q \in Stoppers : \E d \in taken'[q] : d.sink = s
        BY <2>3, <3>2
      <4> QED BY <1>0, <2>4, <4>1, <4>2 DEF OwedInv, Window
    <3> QED BY <3>1, <3>2
  <2> QED BY <2>5, <2>6 DEF OwedInv
<1>8. CASE StopInterrupt(p)
  <2>1. /\ \A q \in Stoppers : q # p => taken'[q] = taken[q]
        /\ UNCHANGED <<leaked, dirty>>
    BY <1>0, <1>8 DEF StopInterrupt
  <2>2. \A s : s \in owed' <=> s \in owed \/ \E c \in taken[p] : c.sink = s
    BY <1>8 DEF StopInterrupt, SinksOf
  <2>3. thread' = "alive" => sink' \in owed' \/ Window(sink)'
    BY <1>0, <2>2 DEF OwedInv, Window
  <2>4. ASSUME NEW s \in dirty'
        PROVE  \/ s \in owed' \cup leaked' \/ Window(s)'
               \/ \E q \in Stoppers : \E c \in taken'[q] : c.sink = s
    <3>1. CASE \E c \in taken[p] : c.sink = s BY <2>2, <3>1
    <3>2. CASE ~\E c \in taken[p] : c.sink = s
      <4>1. (\E q \in Stoppers : \E c \in taken[q] : c.sink = s)
            => \E q \in Stoppers : \E c \in taken'[q] : c.sink = s
        BY <2>1, <3>2
      <4> QED BY <1>0, <2>1, <2>2, <4>1 DEF OwedInv, Window
    <3> QED BY <3>1, <3>2
  <2> QED BY <2>3, <2>4 DEF OwedInv
<1>9. CASE StopWait(p) BY <1>0, <1>9, OwedFrame DEF StopWait
<1>10. CASE StopLower(p) BY <1>0, <1>10, OwedFrame DEF StopLower
<1>11. CASE StopUnwind(p) BY <1>0, <1>11, OwedFrame DEF StopUnwind
<1> QED BY <1>1, <1>2, <1>3, <1>4, <1>5, <1>6, <1>7, <1>8, <1>9, <1>10, <1>11 DEF Stop

LEMMA OwedStep ==
  ASSUME Typed, NamesInv, HoldInv, CloseInv, OwedInv, [Next]_vars
  PROVE  OwedInv'
<1>1. ASSUME NEW l \in Loggers, Log(l) PROVE OwedInv'
  <2>1. owed \subseteq owed' BY <1>1 DEF Log, LogRead, LogNote, LogArm, ownerVars
  <2> QED BY <1>1, <2>1, LogFrame, OwedFrame
<1>2. ASSUME NEW t \in Tracers, Trace(t) PROVE OwedInv'
  <2>0. UNCHANGED <<leaked, taken, dirty, cpc, new>> BY <1>2, TraceFrame
  <2>1. CASE GetWorker(t) /\ epoch = None
    <3>1. owed' = owed \cup {config} /\ sink' = config BY <2>1 DEF GetWorker
    <3> QED BY <2>0, <3>1 DEF OwedInv, Window
  <2>2. CASE Submit(t) BY <2>0, <2>2, OwedFrame DEF Submit, ownerVars, workerVars
  <2>3. CASE epoch # None BY <1>2, <2>0, <2>3, TraceFrame, OwedFrame
  <2> QED BY <1>2, <2>1, <2>2, <2>3 DEF Trace
<1>3. ASSUME NEW p \in Stoppers, Stop(p) PROVE OwedInv' BY <1>3, OwedStop
<1>4. CASE Drain
  <2>0. UNCHANGED <<owed, leaked, taken, sink, cpc, new>> BY <1>4, DrainFrame
  <2>1. CASE DrainEnter BY <2>0, <2>1 DEF DrainEnter, OwedInv, Window
  <2>2. CASE DrainLeave BY <2>0, <2>2, OwedFrame DEF DrainLeave
  <2>3. CASE DrainAnswer BY <2>0, <2>3, OwedFrame DEF DrainAnswer
  <2>4. CASE DrainEnd BY <2>0, <2>4 DEF DrainEnd, OwedInv, Window
  <2> QED BY <1>4, <2>1, <2>2, <2>3, <2>4 DEF Drain
<1>5. CASE Swap
  <2> USE DEF closeVars, Swapping
  <2>0. UNCHANGED <<thread, taken>> BY <1>5, SwapFrame
  <2>1. CASE CfgRebind BY <2>0, <2>1 DEF CfgRebind, OwedInv, Window
  <2>2. CASE CfgSwap
    <3>0. UNCHANGED <<sink, new>> /\ cpc = "swap" BY <2>2 DEF CfgSwap
    <3>1. CASE ~Live /\ owed = {} BY <2>0, <2>2, <3>0, <3>1 DEF CfgSwap, OwedInv, Window
    <3>2. CASE ~(~Live /\ owed = {})
      <4> DEFINE cs == {Close(s, Configure, FALSE) : s \in Stale}
      <4>1. Release(cs) /\ owed \ Stale \subseteq owed' BY <2>2, <3>2 DEF CfgSwap
      <4>2. ASSUME NEW s \in Stale PROVE \E c \in cs : c.sink = s
        <5>1. Close(s, Configure, FALSE) \in cs /\ Close(s, Configure, FALSE).sink = s BY DEF Close
        <5> QED BY <5>1
      <4>3. thread = "alive" => sink \notin Stale BY DEF HoldInv, Held, Stale
      <4>4. thread' = "alive" => sink' \in owed' BY <2>0, <3>0, <4>1, <4>3 DEF OwedInv, Window
      <4> HIDE DEF cs
      <4>5. PICK refused \in SUBSET cs :
              /\ \A s : s \in leaked' <=> \/ s \in leaked /\ \A c \in cs : c.sink # s
                                          \/ \E c \in refused : c.sink = s
              /\ \A s : s \in dirty' <=> s \in dirty /\ \A c \in cs \ refused : c.sink # s
        BY <4>1, ReleaseShape
      <4>6. ASSUME NEW s \in dirty'
            PROVE  \/ s \in owed' \cup leaked'
                   \/ \E p \in Stoppers : \E c \in taken'[p] : c.sink = s
        <5>1. CASE \E c \in cs : c.sink = s BY <4>5, <5>1
        <5>2. CASE ~\E c \in cs : c.sink = s
          <6>1. s \in dirty /\ s \notin Stale /\ (s \in leaked => s \in leaked')
            BY <4>5, <4>2, <5>2
          <6> QED BY <2>0, <3>0, <4>1, <6>1 DEF OwedInv, Window
        <5> QED BY <5>1, <5>2
      <4> QED BY <4>4, <4>6 DEF OwedInv
    <3> QED BY <3>1, <3>2
  <2>3. CASE CfgRetarget BY <2>0, <2>3 DEF CfgRetarget, OwedInv, Window
  <2>4. CASE CfgFlush BY <2>0, <2>4 DEF CfgFlush, FlushReturns, OwedInv, Window
  <2>5. CASE CfgReassign BY <2>0, <2>5 DEF CfgReassign, OwedInv, Window
  <2>6. CASE CfgOffer BY <2>0, <2>6 DEF CfgOffer, OwedInv, Window
  <2>7. CASE CfgUnhold BY <2>0, <2>7 DEF CfgUnhold, OwedInv, Window
  <2>8. CASE CfgAdopt
    <3>0. UNCHANGED <<sink, new>> BY <2>8 DEF CfgAdopt
    <3>1. CASE ~FencedOut BY <2>0, <2>8, <3>0, <3>1 DEF CfgAdopt, OwedInv, Window
    <3>2. CASE FencedOut
      <4> DEFINE cs == {Close(previous, Configure, FALSE)}
      <4>1. Release(cs) /\ owed' = (owed \cup {new}) \ {previous} BY <2>8, <3>2 DEF CfgAdopt
      <4>2. \A c \in cs : c.sink = previous BY DEF Close
      <4>3. previous # new /\ (thread = "alive" => sink # previous)
        BY <3>2 DEF FencedOut, HoldInv, Held
      <4>4. thread' = "alive" => sink' \in owed' BY <2>0, <3>0, <4>1, <4>3 DEF OwedInv, Window
      <4>5. \E c \in cs : c.sink = previous BY <4>2
      <4> HIDE DEF cs
      <4>6. PICK refused \in SUBSET cs :
              /\ \A s : s \in leaked' <=> \/ s \in leaked /\ \A c \in cs : c.sink # s
                                          \/ \E c \in refused : c.sink = s
              /\ \A s : s \in dirty' <=> s \in dirty /\ \A c \in cs \ refused : c.sink # s
        BY <4>1, ReleaseShape
      <4>7. ASSUME NEW s \in dirty'
            PROVE  \/ s \in owed' \cup leaked'
                   \/ \E p \in Stoppers : \E c \in taken'[p] : c.sink = s
        <5>1. CASE s = previous BY <4>6, <4>5, <5>1
        <5>2. CASE s # previous
          <6>1. s \in dirty /\ (s \in leaked => s \in leaked') BY <4>6, <4>2, <5>2
          <6> QED BY <2>0, <4>1, <5>2, <6>1 DEF OwedInv, Window
        <5> QED BY <5>1, <5>2
      <4> QED BY <4>4, <4>7 DEF OwedInv
    <3> QED BY <3>1, <3>2
  <2> QED BY <1>5, <2>1, <2>2, <2>3, <2>4, <2>5, <2>6, <2>7, <2>8 DEF Swap
<1>6. CASE CloseEnd BY <1>6, CloseEndFrame, OwedFrame
<1>7. CASE UNCHANGED vars BY <1>7, VarsFrame, OwedFrame
<1> QED BY <1>1, <1>2, <1>3, <1>4, <1>5, <1>6, <1>7 DEF Next, Terminated

----------------------------------------------------------------------------
(* The depth and the late worker                                           *)

LEMMA BareFinite == IsFiniteSet(RunningBare)
  BY FS_Subset, LifecycleAssumption DEF RunningBare

\* A shutdown() call raises the depth as it enters the no-worker branch, lowers it as it leaves,
\* and otherwise leaves it alone.
LEMMA StopDepth ==
  ASSUME Typed, DepthInv, NEW p \in Stoppers, Stop(p)
  PROVE  /\ \A q \in Stoppers : branch'[q] = "bare" =>
               pc'[q] \in {"take", "hand", "lower", "unwind", "raised"}
         /\ \A q \in Stoppers : pc'[q] = "lower" => branch'[q] = "bare"
         /\ \/ RunningBare' = RunningBare /\ UNCHANGED <<running, late>>
            \/ /\ epoch = None /\ p \notin RunningBare /\ RunningBare' = RunningBare \cup {p}
               /\ running' = running + 1 /\ UNCHANGED late
            \/ /\ p \in RunningBare /\ RunningBare' = RunningBare \ {p}
               /\ running' = running - 1 /\ late' = FALSE
<1> USE DEF ownerVars, stopVars, Goto, At
<1>0. /\ p \in Threads /\ pc \in [Threads -> CallPCs] /\ Stoppers \subseteq Threads
      /\ branch \in [Stoppers -> {"worker", "bare", "second"}]
  BY DEF Threads, Typed
<1>1. CASE StopBegin(p)
  <2>1. CASE epoch = None
    <3>1. /\ pc[p] = "idle" /\ pc'[p] = "take" /\ branch'[p] = "bare"
          /\ \A q \in Stoppers : q # p => pc'[q] = pc[q] /\ branch'[q] = branch[q]
          /\ running' = running + 1 /\ UNCHANGED late
      BY <1>0, <1>1, <2>1 DEF StopBegin
    <3>2. p \notin RunningBare /\ RunningBare' = RunningBare \cup {p} BY <3>1 DEF RunningBare
    <3> QED BY <2>1, <3>1, <3>2 DEF DepthInv
  <2>2. CASE epoch # None
    <3>1. /\ pc[p] = "idle" /\ pc'[p] \in {"lost", "ask"} /\ UNCHANGED <<branch, running, late>>
          /\ \A q \in Stoppers : q # p => pc'[q] = pc[q]
      BY <1>0, <1>1, <2>2 DEF StopBegin
    <3>2. RunningBare' = RunningBare BY <3>1 DEF RunningBare
    <3> QED BY <3>1, <3>2 DEF DepthInv
  <2> QED BY <2>1, <2>2
<1>2. ASSUME /\ pc[p] \in {"retire", "claim", "ask", "join", "lost"}
             /\ pc'[p] \in {"claim", "lost", "ask", "join", "take"}
             /\ \A q \in Stoppers : q # p => pc'[q] = pc[q]
             /\ UNCHANGED <<branch, running, late>>
      PROVE  /\ \A q \in Stoppers : branch'[q] = "bare" =>
                   pc'[q] \in {"take", "hand", "lower", "unwind", "raised"}
             /\ \A q \in Stoppers : pc'[q] = "lower" => branch'[q] = "bare"
             /\ RunningBare' = RunningBare /\ UNCHANGED <<running, late>>
  <2>1. branch[p] # "bare" BY <1>2 DEF DepthInv
  <2>2. RunningBare' = RunningBare BY <1>2, <2>1 DEF RunningBare
  <2> QED BY <1>2, <2>1, <2>2 DEF DepthInv
<1>3. CASE StopRetireLate(p) BY <1>0, <1>2, <1>3 DEF StopRetireLate
<1>4. CASE StopClaimLate(p) BY <1>0, <1>2, <1>4 DEF StopClaimLate
<1>5. CASE StopAsk(p) BY <1>0, <1>2, <1>5 DEF StopAsk
<1>6. CASE StopJoin(p) BY <1>0, <1>2, <1>6 DEF StopJoin
<1>7. ASSUME /\ pc[p] \in {"take", "hand"} /\ pc'[p] \in {"hand", "unwind"}
             /\ \A q \in Stoppers : q # p => pc'[q] = pc[q]
             /\ UNCHANGED <<branch, running, late>>
      PROVE  /\ \A q \in Stoppers : branch'[q] = "bare" =>
                   pc'[q] \in {"take", "hand", "lower", "unwind", "raised"}
             /\ \A q \in Stoppers : pc'[q] = "lower" => branch'[q] = "bare"
             /\ RunningBare' = RunningBare /\ UNCHANGED <<running, late>>
  <2>1. RunningBare' = RunningBare BY <1>7 DEF RunningBare
  <2> QED BY <1>7, <2>1 DEF DepthInv
<1>8. CASE StopTake(p) BY <1>0, <1>7, <1>8 DEF StopTake
<1>9. CASE StopHand(p) BY <1>0, <1>7, <1>9 DEF StopHand
<1>10. CASE StopInterrupt(p) BY <1>0, <1>7, <1>10 DEF StopInterrupt
<1>11. CASE StopWait(p)
  <2>1. /\ pc[p] = "hand" /\ UNCHANGED <<running, late>>
        /\ \A q \in Stoppers : q # p => pc'[q] = pc[q] /\ branch'[q] = branch[q]
        /\ \/ branch[p] = "bare" /\ branch'[p] = "bare" /\ pc'[p] = "lower"
           \/ branch[p] # "bare" /\ branch'[p] # "bare" /\ pc'[p] \in {"take", "done"}
    BY <1>0, <1>11 DEF StopWait
  <2>2. RunningBare' = RunningBare BY <2>1 DEF RunningBare
  <2> QED BY <2>1, <2>2 DEF DepthInv
<1>12. CASE StopLower(p)
  <2>1. /\ pc[p] = "lower" /\ branch'[p] = "second" /\ pc'[p] \in {"retire", "take", "done"}
        /\ \A q \in Stoppers : q # p => pc'[q] = pc[q] /\ branch'[q] = branch[q]
        /\ running' = running - 1 /\ late' = FALSE
    BY <1>0, <1>12 DEF StopLower
  <2>2. branch[p] = "bare" BY <2>1 DEF DepthInv
  <2>3. p \in RunningBare /\ RunningBare' = RunningBare \ {p} BY <2>1, <2>2 DEF RunningBare
  <2> QED BY <2>1, <2>3 DEF DepthInv
<1>13. CASE StopUnwind(p)
  <2>1. /\ pc[p] = "unwind" /\ pc'[p] = "raised" /\ UNCHANGED branch
        /\ \A q \in Stoppers : q # p => pc'[q] = pc[q]
    BY <1>0, <1>13 DEF StopUnwind
  <2>2. CASE branch[p] = "bare"
    <3>1. running' = running - 1 /\ late' = FALSE BY <1>13, <2>2 DEF StopUnwind
    <3>2. p \in RunningBare /\ RunningBare' = RunningBare \ {p} BY <2>1, <2>2 DEF RunningBare
    <3> QED BY <2>1, <3>1, <3>2 DEF DepthInv
  <2>3. CASE branch[p] # "bare"
    <3>1. UNCHANGED <<running, late>> BY <1>13, <2>3 DEF StopUnwind
    <3>2. RunningBare' = RunningBare BY <2>1, <2>3 DEF RunningBare
    <3> QED BY <2>1, <3>1, <3>2 DEF DepthInv
  <2> QED BY <2>2, <2>3
<1> QED BY <1>1, <1>3, <1>4, <1>5, <1>6, <1>8, <1>9, <1>10, <1>11, <1>12, <1>13 DEF Stop

\* Nobody else touches the depth.
LEMMA OthersDepth ==
  ASSUME Typed, [Next]_vars, ~\E p \in Stoppers : Stop(p)
  PROVE  /\ UNCHANGED <<running, branch, retirements>> /\ \A p \in Stoppers : pc'[p] = pc[p]
         /\ RunningBare' = RunningBare
<1>0. Stoppers \subseteq Threads BY DEF Threads
<1>1. UNCHANGED <<running, branch, retirements>> /\ \A p \in Stoppers : pc'[p] = pc[p]
  <2>1. ASSUME NEW l \in Loggers, Log(l)
        PROVE  UNCHANGED <<running, branch, retirements>> /\ \A p \in Stoppers : pc'[p] = pc[p]
    BY <1>0, <2>1, LogFrame, LifecycleAssumption
  <2>2. ASSUME NEW t \in Tracers, Trace(t)
        PROVE  UNCHANGED <<running, branch, retirements>> /\ \A p \in Stoppers : pc'[p] = pc[p]
    BY <1>0, <2>2, TraceFrame, LifecycleAssumption
  <2> QED BY <2>1, <2>2, DrainFrame, SwapFrame, CloseEndFrame, VarsFrame DEF Next, Terminated
<1>2. RunningBare' = RunningBare BY <1>1 DEF RunningBare
<1> QED BY <1>1, <1>2

LEMMA DepthStep ==
  ASSUME Typed, DepthInv, [Next]_vars
  PROVE  DepthInv'
<1>1. ASSUME NEW p \in Stoppers, Stop(p) PROVE DepthInv'
  <2>1. CASE RunningBare' = RunningBare /\ running' = running
    BY <1>1, <2>1, StopDepth DEF DepthInv, At
  <2>2. CASE p \notin RunningBare /\ RunningBare' = RunningBare \cup {p} /\ running' = running + 1
    <3>1. running' = Cardinality(RunningBare') BY <2>2, BareFinite, FS_AddElement DEF DepthInv
    <3> QED BY <1>1, <3>1, StopDepth DEF DepthInv, At
  <2>3. CASE p \in RunningBare /\ RunningBare' = RunningBare \ {p} /\ running' = running - 1
    <3>1. running' = Cardinality(RunningBare') BY <2>3, BareFinite, FS_RemoveElement DEF DepthInv
    <3> QED BY <1>1, <3>1, StopDepth DEF DepthInv, At
  <2> QED BY <1>1, <2>1, <2>2, <2>3, StopDepth
<1>2. CASE ~\E p \in Stoppers : Stop(p) BY <1>2, OthersDepth DEF DepthInv, At
<1> QED BY <1>1, <1>2

LEMMA LateStop ==
  ASSUME Typed, DepthInv, LateInv, NEW p \in Stoppers, Stop(p)
  PROVE  LateInv'
<1> USE DEF ownerVars
<1>0. /\ UNCHANGED <<epoch, builtIn>> /\ p \in Threads /\ pc \in [Threads -> CallPCs]
      /\ retirements \in Nat /\ epoch \in Nat \cup {None} /\ builtIn \subseteq Stoppers
      /\ \A q \in Stoppers : q # p => pc'[q] = pc[q]
  BY StopFrame DEF Threads, Typed
<1>1. retirements' \in {retirements, retirements + 1}
  BY DEF Stop, StopBegin, StopRetireLate, StopClaimLate, StopAsk, StopJoin, StopTake, StopHand,
         StopInterrupt, StopWait, StopLower, StopUnwind
<1>2. epoch' = None => builtIn' = {} /\ ~late' BY <1>0, StopDepth DEF LateInv
<1>3. epoch' # None => epoch' <= retirements' /\ RunningBare' \subseteq builtIn'
  <2>1. epoch # None => epoch <= retirements' BY <1>0, <1>1 DEF LateInv
  <2>2. epoch # None => RunningBare' \subseteq builtIn BY StopDepth DEF LateInv
  <2> QED BY <1>0, <2>1, <2>2
<1>4. late' => builtIn' \subseteq RunningBare' BY <1>0, StopDepth DEF LateInv
<1>5. builtIn' # {} => ~Live' \/ late' \/ \E q \in builtIn' : pc'[q] \in {"retire", "raised"}
  <2> SUFFICES ASSUME builtIn # {}, Live'
               PROVE  late' \/ \E q \in builtIn : pc'[q] \in {"retire", "raised"}
    BY <1>0
  <2>1. epoch # None BY DEF LateInv
  <2>2. Live BY <1>0, <1>1, <2>1, LifecycleAssumption DEF Live
  <2>3. ~StopRetireLate(p)
    BY <1>0, <2>1, LifecycleAssumption DEF StopRetireLate, Live, LateInv
  <2>4. pc[p] \notin {"retire", "raised"}
    BY <2>3 DEF Stop, StopBegin, StopClaimLate, StopAsk, StopJoin, StopTake, StopHand,
                StopInterrupt, StopWait, StopLower, StopUnwind, At
  <2>5. CASE \E q \in builtIn : pc[q] \in {"retire", "raised"} BY <1>0, <2>4, <2>5
  <2>6. CASE late /\ ~late'
    <3>1. p \in builtIn BY <1>0, <2>1, <2>6, StopDepth DEF LateInv
    <3>2. pc'[p] \in {"retire", "raised"}
      <4>1. CASE StopLower(p) BY <1>0, <2>6, <4>1 DEF StopLower, Goto
      <4>2. CASE StopUnwind(p) BY <1>0, <4>2 DEF StopUnwind, Goto
      <4>3. CASE ~StopLower(p) /\ ~StopUnwind(p)
        BY <2>6, <4>3 DEF Stop, StopBegin, StopRetireLate, StopClaimLate, StopAsk, StopJoin,
                          StopTake, StopHand, StopInterrupt, StopWait
      <4> QED BY <4>1, <4>2, <4>3
    <3> QED BY <3>1, <3>2
  <2> QED BY <2>2, <2>5, <2>6 DEF LateInv
<1> QED BY <1>2, <1>3, <1>4, <1>5 DEF LateInv

LEMMA LateStep ==
  ASSUME Typed, DepthInv, LateInv, [Next]_vars
  PROVE  LateInv'
<1>1. ASSUME NEW p \in Stoppers, Stop(p) PROVE LateInv' BY <1>1, LateStop
<1>2. CASE ~\E p \in Stoppers : Stop(p)
  <2>0. /\ UNCHANGED <<running, retirements>> /\ RunningBare' = RunningBare
        /\ \A p \in Stoppers : pc'[p] = pc[p]
    BY <1>2, OthersDepth
  <2>1. ASSUME UNCHANGED <<epoch, builtIn, late>> PROVE LateInv'
    BY <2>0, <2>1 DEF LateInv, Live, Typed
  <2>2. ASSUME NEW t \in Tracers, GetWorker(t), epoch = None PROVE LateInv'
    <3>1. epoch' = retirements /\ late' = (running > 0) /\ builtIn' = RunningBare
      BY <2>2 DEF GetWorker
    <3>2. retirements \in Nat /\ epoch' # None BY <3>1, LifecycleAssumption DEF Typed
    <3>3. RunningBare # {} => running > 0
      BY BareFinite, FS_CardinalityType, FS_EmptySet DEF DepthInv
    <3>4. epoch' <= retirements' BY <2>0, <3>1, <3>2
    <3>5. RunningBare' \subseteq builtIn' /\ builtIn' \subseteq RunningBare' BY <2>0, <3>1
    <3>6. builtIn' # {} => late' BY <3>1, <3>3
    <3> QED BY <3>2, <3>4, <3>5, <3>6 DEF LateInv
  <2>3. ASSUME NEW t \in Tracers, Trace(t) PROVE LateInv'
    <3>1. CASE Submit(t) BY <2>1, <3>1 DEF Submit, ownerVars, workerVars
    <3>2. CASE epoch # None BY <2>1, <2>3, <3>2, TraceFrame
    <3> QED BY <2>2, <2>3, <3>1, <3>2 DEF Trace
  <2>4. ASSUME NEW l \in Loggers, Log(l) PROVE LateInv' BY <2>1, <2>4, LogFrame
  <2> QED BY <1>2, <2>1, <2>3, <2>4, DrainFrame, SwapFrame, CloseEndFrame, VarsFrame
       DEF Next, Terminated
<1> QED BY <1>1, <1>2

----------------------------------------------------------------------------
(* The stop signal                                                         *)

\* An orphan's signal never replaces the one of a sink the drain delivers to.
LEMMA OfferOther ==
  ASSUME Typed, NEW s \in Sinks, OfferOrphanSignal(s), epoch # None, ~settled, sink \in Sinks
  PROVE  signal'[sink] = signal[sink]
  BY DEF OfferOrphanSignal, InFlight, Typed

LEMMA SignalStep ==
  ASSUME Typed, NamesInv, HoldInv, DrainKeepsSignal, [Next]_vars
  PROVE  DrainKeepsSignal'
<1>0. thread = "alive" => epoch # None /\ sink \in Sinks BY DEF HoldInv, NamesInv
<1>1. ASSUME NEW l \in Loggers, Log(l) PROVE DrainKeepsSignal'
  <2>1. CASE LogArm(l)
    <3>1. target[l] \in Sinks BY <2>1 DEF LogArm, NamesInv, At
    <3>2. OfferOrphanSignal(target[l]) BY <2>1 DEF LogArm
    <3> QED BY <1>0, <1>1, <3>1, <3>2, LogFrame, OfferOther DEF DrainKeepsSignal
  <2>2. CASE ~LogArm(l)
    <3>1. UNCHANGED signal BY <1>1, <2>2 DEF Log, LogRead, LogNote, signalVars
    <3> QED BY <1>1, <3>1, LogFrame DEF DrainKeepsSignal
  <2> QED BY <2>1, <2>2
<1>2. ASSUME NEW t \in Tracers, Trace(t) PROVE DrainKeepsSignal'
  <2>1. CASE GetWorker(t) /\ epoch = None
    <3>1. /\ signal' = [signal EXCEPT ![config] = stopEvent'] /\ sink' = config
          /\ workerEvent' = stopEvent'
      BY <2>1 DEF GetWorker
    <3> QED BY <3>1 DEF DrainKeepsSignal, Typed
  <2>2. CASE Submit(t) BY <2>2 DEF Submit, DrainKeepsSignal, signalVars, workerVars, swapVars
  <2>3. CASE epoch # None BY <1>2, <2>3, TraceFrame DEF DrainKeepsSignal
  <2> QED BY <1>2, <2>1, <2>2, <2>3 DEF Trace
<1>3. ASSUME NEW p \in Stoppers, Stop(p) PROVE DrainKeepsSignal'
  <2>1. settled => settled'
    BY <1>3 DEF Stop, StopBegin, StopRetireLate, StopClaimLate, StopAsk, StopJoin, StopTake,
                StopHand, StopInterrupt, StopWait, StopLower, StopUnwind
  <2> QED BY <1>3, <2>1, StopFrame DEF DrainKeepsSignal
<1>4. CASE Drain
  <2>1. (settled => settled') /\ (thread' = "alive" => thread = "alive")
    BY <1>4 DEF Drain, DrainEnter, DrainLeave, DrainAnswer, DrainEnd
  <2> QED BY <1>4, <2>1, DrainFrame DEF DrainKeepsSignal
<1>5. CASE Swap
  <2>0. UNCHANGED <<thread, settled, workerEvent>> BY <1>5, SwapFrame
  <2>1. CASE CfgRebind BY <2>0, <2>1 DEF CfgRebind, DrainKeepsSignal
  <2>2. CASE CfgSwap
    <3>1. new \in Sinks /\ UNCHANGED sink BY <2>2 DEF CfgSwap, NamesInv
    <3>2. UNCHANGED signal \/ OfferOrphanSignal(new) BY <2>2 DEF CfgSwap
    <3>3. thread = "alive" /\ ~settled => signal'[sink] = signal[sink]
      BY <1>0, <3>1, <3>2, OfferOther
    <3> QED BY <2>0, <2>2, <3>1, <3>3 DEF CfgSwap, DrainKeepsSignal
  <2>3. CASE CfgRetarget BY <2>0, <2>3 DEF CfgRetarget, DrainKeepsSignal
  <2>4. CASE CfgFlush BY <2>0, <2>4 DEF CfgFlush, DrainKeepsSignal
  <2>5. CASE CfgReassign BY <2>0, <2>5 DEF CfgReassign, DrainKeepsSignal
  <2>6. CASE CfgOffer
    <3>1. sink = new /\ new \in Sinks BY <2>6 DEF CfgOffer, HoldInv, NamesInv, Swapping
    <3> QED BY <2>0, <2>6, <3>1 DEF CfgOffer, DrainKeepsSignal, Typed
  <2>7. CASE CfgUnhold BY <2>0, <2>7 DEF CfgUnhold, DrainKeepsSignal
  <2>8. CASE CfgAdopt BY <2>0, <2>8 DEF CfgAdopt, DrainKeepsSignal
  <2> QED BY <1>5, <2>1, <2>2, <2>3, <2>4, <2>5, <2>6, <2>7, <2>8 DEF Swap
<1>6. CASE CloseEnd BY <1>6, CloseEndFrame DEF DrainKeepsSignal
<1>7. CASE UNCHANGED vars BY <1>7, VarsFrame DEF DrainKeepsSignal
<1> QED BY <1>1, <1>2, <1>3, <1>4, <1>5, <1>6, <1>7 DEF Next, Terminated

----------------------------------------------------------------------------
(* Theorems                                                                *)

IInv ==
    /\ Typed /\ NamesInv /\ HoldInv
    /\ CloseInv /\ OwedInv
    /\ DepthInv /\ LateInv
    /\ DrainKeepsSignal

\* The inductive invariant holds throughout, whatever the sinks, the calls and their interleaving.
THEOREM Invariance == Spec => []IInv
<1>1. Init => IInv
  <2> SUFFICES ASSUME Init PROVE IInv OBVIOUS
  <2>0. Typed BY TypeInit
  <2>1. NamesInv /\ HoldInv BY DEF Init, NamesInv, HoldInv, Swapping, Threads
  <2>2. CloseInv BY DEF Init, CloseInv
  <2>3. OwedInv BY DEF Init, OwedInv
  <2>4. RunningBare = {}
    <3>1. \A p \in Stoppers : pc[p] = "idle" BY DEF Init, Threads
    <3> QED BY <3>1 DEF RunningBare
  <2>5. DepthInv /\ LateInv
    <3>1. \A p \in Stoppers : pc[p] = "idle" /\ branch[p] = "worker" BY DEF Init, Threads
    <3> QED BY <2>4, <3>1, FS_EmptySet DEF Init, DepthInv, LateInv, At
  <2>6. DrainKeepsSignal BY DEF Init, DrainKeepsSignal
  <2> QED BY <2>0, <2>1, <2>2, <2>3, <2>5, <2>6 DEF IInv
<1>2. IInv /\ [Next]_vars => IInv'
  BY TypeStep, NamesStep, HoldStep, CloseStep, OwedStep, DepthStep, LateStep, SignalStep DEF IInv
<1> QED BY <1>1, <1>2, PTL DEF Spec

\* Type correctness.  The depth _shutdown_running is never lowered below zero, by an interrupted
\* shutdown() either: it counts the calls that are in the no-worker branch.
THEOREM TypeCorrect == Spec => []TypeOK
<1>1. IInv => TypeOK
  BY BareFinite, FS_CardinalityType DEF IInv, TypeOK, DepthInv
<1> QED BY <1>1, Invariance, PTL

\* No sink is ever in two close() calls at once, whichever of configure() and the shutdown() calls
\* decided them.
THEOREM CloseExclusive == Spec => []OneCloseAtATime
<1>1. IInv => OneCloseAtATime BY DEF IInv, CloseInv, OneCloseAtATime
<1> QED BY <1>1, Invariance, PTL

\* Every key of _closing_now belongs to a close that runs, or to a call that will hand it over or
\* put it back.
THEOREM Discharged == Spec => []RegistrationsDischarged
<1>1. IInv => RegistrationsDischarged
  <2> SUFFICES ASSUME IInv PROVE RegistrationsDischarged OBVIOUS
  <2>1. \A s : s \in SinksOf(closes) <=> \E c \in closes : c.sink = s BY DEF SinksOf
  <2>2. \A s : s \in UNION {SinksOf(taken[p]) : p \in Stoppers}
               <=> \E p \in Stoppers : \E c \in taken[p] : c.sink = s
    BY DEF SinksOf
  <2>3. /\ closing \subseteq Sinks
        /\ \A c \in closes : c.sink \in Sinks
        /\ \A p \in Stoppers : \A c \in taken[p] : c.sink \in Sinks
    BY DEF IInv, Typed, Closes
  <2> QED BY <2>1, <2>2, <2>3 DEF IInv, CloseInv, RegistrationsDischarged
<1> QED BY <1>1, Invariance, PTL

\* A sink the drain has written to stays in the record, in the registry, or with the swap that is
\* about to record it, until its close has been handed over.
THEOREM Remembered == Spec => []NobodyForgotten
<1>1. IInv => NobodyForgotten
  <2> SUFFICES ASSUME IInv PROVE NobodyForgotten OBVIOUS
  <2>1. \A p \in Stoppers : \A c \in taken[p] : c.sink \in closing
    BY DEF IInv, CloseInv, Typed, Closes
  <2> QED BY <2>1 DEF IInv, OwedInv, Window, Swapping, NobodyForgotten
<1> QED BY <1>1, Invariance, PTL

\* A worker built while the no-worker branch of shutdown() runs is retired by the time the calls
\* it was built within have returned.
THEOREM LateRetired == Spec => []LateWorkerRetired
<1>1. IInv => LateWorkerRetired
  BY DEF IInv, LateInv, LateWorkerRetired, RunningBare, At
<1> QED BY <1>1, Invariance, PTL

\* No level call and no swap takes from the drain's sink the event that its own stop will set.
THEOREM SignalKept == Spec => []DrainKeepsSignal
<1>1. IInv => DrainKeepsSignal BY DEF IInv
<1> QED BY <1>1, Invariance, PTL

\* No step registers the close of a sink that the drain is inside or may still enter.
THEOREM DrainRespected == Spec => NeverClosedUnderDrain
<1> DEFINE Respect == \A s \in closing' \ closing : thread = "alive" => inside # s /\ sink # s
<1>1. ASSUME IInv, [Next]_vars PROVE [Respect]_vars
  <2>0. /\ Typed /\ NamesInv /\ HoldInv /\ CloseInv BY <1>1 DEF IInv
  <2>1. \A s \in Sinks : ~Held(s) /\ thread = "alive" => inside # s /\ sink # s
    BY <2>0, LifecycleAssumption DEF HoldInv, Held
  <2>2. ASSUME \A s \in closing' \ closing : s \in Sinks /\ ~Held(s) PROVE Respect
    BY <2>1, <2>2
  <2>3. ASSUME NEW p \in Stoppers, Stop(p) PROVE Respect
    <3>1. CASE StopTake(p) BY <2>0, <2>2, <3>1 DEF StopTake, Typed
    <3>2. CASE StopHand(p)
      <4>1. PICK c \in taken[p] : Release({c}) BY <3>2 DEF StopHand
      <4>2. c.sink \in closing BY <2>0, <4>1 DEF CloseInv, Typed, Closes
      <4>3. \A s \in closing' : s \in closing BY <4>1, <4>2 DEF Release, SinksOf
      <4> QED BY <4>3
    <3>3. CASE ~StopTake(p) /\ ~StopHand(p)
      <4>1. closing' \subseteq closing
        BY <2>3, <3>3 DEF Stop, StopBegin, StopRetireLate, StopClaimLate, StopAsk, StopJoin,
                          StopInterrupt, StopWait, StopLower, StopUnwind, closeVars
      <4> QED BY <4>1
    <3> QED BY <3>1, <3>2, <3>3
  <2>4. CASE Swap
    <3>1. CASE CfgSwap /\ ~(~Live /\ owed = {})
      <4> DEFINE cs == {Close(s, Configure, FALSE) : s \in Stale}
      <4>1. Release(cs) BY <3>1 DEF CfgSwap
      <4>2. \A c \in cs : c.sink \in Stale BY DEF Close
      <4> HIDE DEF cs
      <4>3. \A s \in closing' \ closing : s \in Stale BY <4>1, <4>2 DEF Release, SinksOf
      <4> QED BY <2>0, <2>2, <4>3 DEF Stale, Typed
    <3>2. CASE CfgAdopt /\ FencedOut
      <4>1. Release({Close(previous, Configure, FALSE)}) /\ previous \in Sinks
        BY <2>0, <3>2 DEF CfgAdopt, NamesInv
      <4>2. \A s \in closing' \ closing : s = previous BY <4>1 DEF Release, SinksOf, Close
      <4> QED BY <2>2, <3>2, <4>1, <4>2 DEF FencedOut
    <3>3. ASSUME UNCHANGED closing PROVE Respect BY <3>3
    <3> QED BY <2>4, <3>1, <3>2, <3>3 DEF Swap, CfgRebind, CfgSwap, CfgRetarget, CfgFlush,
               CfgReassign, CfgOffer, CfgUnhold, CfgAdopt, closeVars
  <2>5. ASSUME closing' \subseteq closing PROVE Respect BY <2>5
  <2>6. CASE CloseEnd BY <2>5, <2>6 DEF CloseEnd
  <2>7. ASSUME NEW l \in Loggers, Log(l) PROVE Respect BY <2>0, <2>5, <2>7, LogFrame
  <2>8. ASSUME NEW t \in Tracers, Trace(t) PROVE Respect BY <2>0, <2>5, <2>8, TraceFrame
  <2>9. CASE Drain BY <2>5, <2>9, DrainFrame
  <2>10. CASE UNCHANGED vars BY <2>10
  <2> HIDE DEF Respect
  <2> QED BY <1>1, <2>3, <2>4, <2>6, <2>7, <2>8, <2>9, <2>10 DEF Next, Terminated
<1> QED BY <1>1, Invariance, PTL DEF Spec, NeverClosedUnderDrain

----------------------------------------------------------------------------
(* One shutdown() that nothing overlaps                                    *)

\* No sink is swapped, no deadline expires, and no other shutdown() is called.
Alone(p) == calls = 0 /\ ~expired /\ \A q \in Stoppers \ {p} : At(q, "idle")

UnswappedInv == calls = 0 => cpc = "idle" /\ (epoch # None => holds = {sink})

\* Every close is its own and joined, so that nothing is registered when it comes to take what is
\* owed, behind the end of the drain.
StopAloneInv(p) ==
    /\ leaked = {} /\ ~waited[p] /\ ~At(p, "lost")
    /\ \A c \in closes \cup taken[p] : c.by = p /\ c.joined
    /\ pc[p] \notin {"hand", "unwind", "raised"} => closes = {}
    /\ branch[p] = "bare" \/ pc[p] \in {"idle", "retire", "claim"} => ~gate
    /\ pc[p] \in {"take", "hand"} /\ branch[p] # "bare" => thread = "dead"
    /\ At(p, "hand") /\ branch[p] # "bare" => dirty \subseteq SinksOf(taken[p])
    /\ At(p, "done") /\ gate => thread = "dead" /\ dirty = {}

OneStopInv == UnswappedInv /\ \A p \in Stoppers : Alone(p) => StopAloneInv(p)

LEMMA UnswappedStep ==
  ASSUME IInv, UnswappedInv, [Next]_vars
  PROVE  UnswappedInv'
<1> USE DEF UnswappedInv
<1>0. Typed BY DEF IInv
<1>1. ASSUME NEW l \in Loggers, Log(l) PROVE UnswappedInv'
  <2>1. calls' = calls BY <1>1 DEF Log, LogRead, LogNote, LogArm, swapVars
  <2> QED BY <1>0, <1>1, <2>1, LogFrame
<1>2. ASSUME NEW t \in Tracers, Trace(t) PROVE UnswappedInv'
  <2>1. calls' = calls BY <1>2 DEF Trace, GetWorker, Submit, swapVars
  <2>2. CASE epoch = None
    <3>1. CASE GetWorker(t)
      <4>1. sink' = config /\ holds' = {config} BY <2>2, <3>1 DEF GetWorker
      <4> QED BY <1>0, <1>2, <2>1, <4>1, TraceFrame
    <3>2. CASE Submit(t)
      <4>1. epoch' = epoch BY <3>2 DEF Submit, workerVars
      <4> QED BY <1>0, <1>2, <2>1, <2>2, <4>1, TraceFrame
    <3> QED BY <1>2, <3>1, <3>2 DEF Trace
  <2>3. CASE epoch # None BY <1>0, <1>2, <2>1, <2>3, TraceFrame
  <2> QED BY <2>2, <2>3
<1>3. ASSUME NEW p \in Stoppers, Stop(p) PROVE UnswappedInv'
  <2>1. calls' = calls
    BY <1>3 DEF Stop, StopBegin, StopRetireLate, StopClaimLate, StopAsk, StopJoin, StopTake, StopHand,
                StopInterrupt, StopWait, StopLower, StopUnwind, StopUnchanged, swapVars
  <2> QED BY <1>0, <1>3, <2>1, StopFrame
<1>4. CASE Drain
  <2>1. calls' = calls BY <1>4 DEF Drain, DrainEnter, DrainLeave, DrainAnswer, DrainEnd, swapVars
  <2> QED BY <1>4, <2>1, DrainFrame
<1>5. CASE Swap
  <2>1. calls \in Nat BY <1>0 DEF Typed
  <2>2. CASE CfgRebind
    <3>1. calls' = calls + 1 BY <2>2 DEF CfgRebind
    <3>2. calls' # 0 BY <2>1, <3>1
    <3> QED BY <3>2
  <2>3. CASE ~CfgRebind
    <3>1. cpc # "idle" /\ calls' = calls
      BY <1>5, <2>3 DEF Swap, CfgSwap, CfgRetarget, CfgFlush, CfgReassign, CfgOffer, CfgUnhold, CfgAdopt
    <3> QED BY <3>1
  <2> QED BY <2>2, <2>3
<1>6. CASE CloseEnd
  <2>1. calls' = calls BY <1>6 DEF CloseEnd, swapVars
  <2> QED BY <1>6, <2>1, CloseEndFrame
<1>7. CASE UNCHANGED vars
  <2>1. calls' = calls BY <1>7 DEF vars, swapVars
  <2> QED BY <1>7, <2>1, VarsFrame
<1> QED BY <1>1, <1>2, <1>3, <1>4, <1>5, <1>6, <1>7 DEF Next, Terminated

\* What the steps of the others leave alone of one shutdown(), while no sink is swapped.
LEMMA OthersAlone ==
  ASSUME IInv, UnswappedInv, [Next]_vars, ~\E p \in Stoppers : Stop(p), calls' = 0
  PROVE  /\ calls = 0
         /\ UNCHANGED <<expired, waited, gate, branch, taken, leaked>>
         /\ closes' \subseteq closes
         /\ \A p \in Stoppers : pc'[p] = pc[p]
         /\ thread = "dead" => thread' = "dead" /\ dirty' = dirty
<1>0. Typed /\ HoldInv /\ calls \in Nat BY DEF IInv, Typed
<1>1. ASSUME NEW l \in Loggers, Log(l)
      PROVE  /\ UNCHANGED <<calls, expired, waited, gate, branch, taken, leaked, closes, thread, dirty>>
             /\ \A p \in Stoppers : pc'[p] = pc[p]
  <2>1. UNCHANGED <<calls, expired, waited, gate>>
    BY <1>1 DEF Log, LogRead, LogNote, LogArm, swapVars, stopVars, drainVars
  <2>2. \A p \in Stoppers : p \in Threads /\ p # l BY LifecycleAssumption DEF Threads
  <2> QED BY <1>0, <1>1, <2>1, <2>2, LogFrame
<1>2. ASSUME NEW t \in Tracers, Trace(t)
      PROVE  /\ UNCHANGED <<calls, expired, waited, gate, branch, taken, leaked, closes, dirty>>
             /\ \A p \in Stoppers : pc'[p] = pc[p]
             /\ thread = "dead" => thread' = thread
  <2>1. UNCHANGED <<calls, expired, waited, gate>>
    BY <1>2 DEF Trace, GetWorker, Submit, swapVars, stopVars, drainVars
  <2>2. \A p \in Stoppers : p \in Threads /\ p # t BY LifecycleAssumption DEF Threads
  <2>3. thread = "dead" => epoch # None BY <1>0 DEF HoldInv
  <2> QED BY <1>0, <1>2, <2>1, <2>2, <2>3, TraceFrame
<1>3. CASE Drain
  <2>1. UNCHANGED <<calls, expired, waited, gate>>
    BY <1>3 DEF Drain, DrainEnter, DrainLeave, DrainAnswer, DrainEnd, DrainUnchanged, swapVars, stopVars
  <2>2. thread = "dead" => thread' = thread /\ dirty' = dirty
    <3>1. inside # None => thread = "alive" BY <1>0 DEF HoldInv
    <3> QED BY <1>3, <3>1 DEF Drain, DrainEnter, DrainLeave, DrainAnswer, DrainEnd
  <2> QED BY <1>3, <2>1, <2>2, DrainFrame
<1>4. CASE Swap
  <2>1. ~CfgRebind
    <3>1. CfgRebind => calls' = calls + 1 BY DEF CfgRebind
    <3> QED BY <1>0, <3>1
  <2>2. cpc # "idle" /\ calls' = calls
    BY <1>4, <2>1 DEF Swap, CfgSwap, CfgRetarget, CfgFlush, CfgReassign, CfgOffer, CfgUnhold, CfgAdopt
  <2> QED BY <2>2 DEF UnswappedInv
<1>5. CASE CloseEnd
  <2>1. UNCHANGED <<calls, expired, waited, gate>> BY <1>5 DEF CloseEnd, swapVars, stopVars, drainVars
  <2>2. closes' \subseteq closes BY <1>5 DEF CloseEnd
  <2> QED BY <1>5, <2>1, <2>2, CloseEndFrame
<1>6. CASE UNCHANGED vars
  <2>1. UNCHANGED <<calls, expired, waited, gate>> BY <1>6 DEF vars, swapVars, stopVars, drainVars
  <2> QED BY <1>6, <2>1, VarsFrame
<1> QED BY <1>1, <1>2, <1>3, <1>4, <1>5, <1>6 DEF Next, Terminated

\* A shutdown() call that has begun does not become one that has not.
LEMMA StopBegun ==
  ASSUME Typed, NEW p \in Stoppers, Stop(p)
  PROVE  /\ pc'[p] # "idle" /\ calls' = calls /\ (expired => expired')
         /\ \A q \in Stoppers : q # p => pc'[q] = pc[q]
<1>0. p \in Threads /\ pc \in [Threads -> CallPCs] BY DEF Threads, Typed
<1> USE DEF StopUnchanged, swapVars, stopVars, Goto, At
<1>1. CASE StopBegin(p)
  <2>1. PICK there \in {"take", "lost", "ask"} : pc' = [pc EXCEPT ![p] = there] BY <1>1 DEF StopBegin
  <2> QED BY <1>0, <1>1, <2>1 DEF StopBegin
<1>2. CASE StopRetireLate(p) BY <1>0, <1>2 DEF StopRetireLate
<1>3. CASE StopClaimLate(p) BY <1>0, <1>3 DEF StopClaimLate
<1>4. CASE StopAsk(p) BY <1>0, <1>4 DEF StopAsk
<1>5. CASE StopJoin(p) BY <1>0, <1>5 DEF StopJoin
<1>6. CASE StopTake(p) BY <1>0, <1>6 DEF StopTake
<1>7. CASE StopHand(p) BY <1>0, <1>7 DEF StopHand
<1>8. CASE StopInterrupt(p) BY <1>0, <1>8 DEF StopInterrupt
<1>9. CASE StopWait(p)
  <2>1. PICK there \in {"lower", "take", "done"} : pc' = [pc EXCEPT ![p] = there] BY <1>9 DEF StopWait
  <2> QED BY <1>0, <1>9, <2>1 DEF StopWait
<1>10. CASE StopLower(p) BY <1>0, <1>10 DEF StopLower
<1>11. CASE StopUnwind(p) BY <1>0, <1>11 DEF StopUnwind
<1>12. \A q \in Stoppers : q # p => pc'[q] = pc[q] BY StopFrame DEF Threads
<1> QED BY <1>1, <1>2, <1>3, <1>4, <1>5, <1>6, <1>7, <1>8, <1>9, <1>10, <1>11, <1>12 DEF Stop

LEMMA StopAloneStep ==
  ASSUME IInv, UnswappedInv, NEW p \in Stoppers, Alone(p), StopAloneInv(p), Stop(p), Alone(p)'
  PROVE  StopAloneInv(p)'
<1>0. /\ Typed /\ p \in Threads /\ pc \in [Threads -> CallPCs]
      /\ branch \in [Stoppers -> {"worker", "bare", "second"}]
      /\ taken \in [Stoppers -> SUBSET Closes] /\ waited \in [Stoppers -> BOOLEAN]
  BY DEF IInv, Typed, Threads
<1>1. /\ leaked = {} /\ ~waited[p] /\ pc[p] # "lost"
      /\ \A c \in closes \cup taken[p] : c.by = p /\ c.joined
      /\ pc[p] \notin {"hand", "unwind", "raised"} => closes = {}
      /\ branch[p] = "bare" \/ pc[p] \in {"idle", "retire", "claim"} => ~gate
      /\ pc[p] \in {"take", "hand"} /\ branch[p] # "bare" => thread = "dead"
      /\ pc[p] = "hand" /\ branch[p] # "bare" => dirty \subseteq SinksOf(taken[p])
      /\ pc[p] = "done" /\ gate => thread = "dead" /\ dirty = {}
  BY DEF StopAloneInv, At
<1>2. /\ branch[p] = "bare" => pc[p] \in {"take", "hand", "lower", "unwind", "raised"}
      /\ pc[p] = "lower" => branch[p] = "bare"
      /\ pc[p] # "hand" => taken[p] = {}
  BY DEF IInv, DepthInv, CloseInv, At
<1>3. thread' = thread BY <1>0, StopFrame
<1>4. calls = 0 /\ ~expired' BY DEF Alone
<1> USE DEF StopUnchanged, stopVars, closeVars, ownerVars, Goto, At
<1>5. CASE StopBegin(p)
  <2>1. /\ pc[p] = "idle" /\ UNCHANGED <<leaked, closes, taken, waited, dirty>>
        /\ \/ pc' = [pc EXCEPT ![p] = "take"] /\ branch' = [branch EXCEPT ![p] = "bare"] /\ gate' = gate
           \/ pc' = [pc EXCEPT ![p] = IF gate THEN "lost" ELSE "ask"] /\ branch' = branch
    BY <1>5 DEF StopBegin
  <2>2. \/ pc'[p] = "take" /\ branch'[p] = "bare" /\ ~gate'
        \/ pc'[p] = "ask" /\ branch'[p] # "bare"
    BY <1>0, <1>1, <1>2, <2>1
  <2> QED BY <1>1, <1>2, <2>1, <2>2 DEF StopAloneInv
<1>6. CASE StopRetireLate(p)
  <2>1. /\ pc[p] = "retire" /\ pc'[p] = "claim"
        /\ UNCHANGED <<leaked, closes, taken, waited, dirty, gate, branch>>
    BY <1>0, <1>6 DEF StopRetireLate
  <2> QED BY <1>1, <1>2, <2>1 DEF StopAloneInv
<1>7. CASE StopClaimLate(p)
  <2>1. /\ pc[p] = "claim" /\ pc'[p] = "ask"
        /\ UNCHANGED <<leaked, closes, taken, waited, dirty, branch>>
    BY <1>0, <1>1, <1>7 DEF StopClaimLate
  <2> QED BY <1>1, <1>2, <2>1 DEF StopAloneInv
<1>8. CASE StopAsk(p)
  <2>1. /\ pc[p] = "ask" /\ pc'[p] = "join"
        /\ UNCHANGED <<leaked, closes, taken, waited, dirty, gate, branch>>
    BY <1>0, <1>8 DEF StopAsk
  <2> QED BY <1>1, <1>2, <2>1 DEF StopAloneInv
<1>9. CASE StopJoin(p)
  <2>1. /\ pc[p] = "join" /\ pc'[p] = "take" /\ thread = "dead"
        /\ UNCHANGED <<leaked, closes, taken, waited, dirty, gate, branch>>
    BY <1>0, <1>1, <1>4, <1>9 DEF StopJoin
  <2> QED BY <1>1, <1>2, <1>3, <2>1 DEF StopAloneInv
<1>10. CASE StopTake(p)
  <2> DEFINE free == {s \in owed : ~Held(s)}
             mine == {Close(s, p, ~HoldsUnfenced(s)) : s \in free}
  <2>1. /\ pc[p] = "take" /\ pc'[p] = "hand" /\ taken'[p] = mine
        /\ UNCHANGED <<leaked, closes, dirty, gate, branch>>
        /\ waited'[p] = IF branch[p] = "second" THEN waited[p] ELSE closing # {}
    BY <1>0, <1>10 DEF StopTake
  <2>2. closes = {} BY <1>1, <2>1
  <2>3. \A q \in Stoppers : taken[q] = {}
    <3>1. \A q \in Stoppers : pc[q] # "hand" BY <2>1 DEF Alone
    <3> QED BY <3>1 DEF IInv, CloseInv
  <2>4. closing = {} BY <1>0, <2>2, <2>3 DEF IInv, CloseInv, Typed
  <2>5. \A s : ~HoldsUnfenced(s) BY <1>4 DEF UnswappedInv, HoldsUnfenced
  <2>6. ASSUME NEW c \in mine PROVE c.by = p /\ c.joined
    <3>1. PICK s \in free : c = Close(s, p, ~HoldsUnfenced(s)) BY <2>6
    <3>2. c.by = p /\ c.joined = ~HoldsUnfenced(s) BY <3>1 DEF Close
    <3> QED BY <2>5, <3>2
  <2>7. ASSUME branch[p] # "bare" PROVE dirty \subseteq SinksOf(mine)
    <3>1. thread = "dead" BY <1>1, <2>1, <2>7
    <3>2. \A s \in owed : s \in free BY <2>4, <3>1 DEF Held
    <3>3. \A s \in dirty : s \in owed
      <4>1. cpc = "idle" BY <1>4 DEF UnswappedInv
      <4> QED BY <1>1, <2>3, <4>1 DEF IInv, OwedInv, Window, Swapping
    <3>4. ASSUME NEW s \in dirty PROVE s \in SinksOf(mine)
      <4>1. Close(s, p, ~HoldsUnfenced(s)) \in mine BY <3>2, <3>3, <3>4
      <4>2. Close(s, p, ~HoldsUnfenced(s)).sink = s BY DEF Close
      <4> QED BY <4>1, <4>2 DEF SinksOf
    <3> QED BY <3>4
  <2> HIDE DEF mine
  <2> QED BY <1>1, <1>3, <2>1, <2>2, <2>4, <2>6, <2>7 DEF StopAloneInv
<1>11. CASE StopHand(p)
  <2>1. PICK c \in taken[p] : Release({c}) /\ taken' = [taken EXCEPT ![p] = @ \ {c}]
    BY <1>11 DEF StopHand
  <2>2. /\ pc[p] = "hand" /\ UNCHANGED <<pc, branch, waited, gate>> BY <1>11 DEF StopHand
  <2>3. c.joined /\ c.by = p BY <1>1, <2>1
  <2>4. {d \in {c} : ~d.joined} = {} BY <2>3
  <2>5. closes' = closes \cup {c} /\ leaked' = {} /\ dirty' = dirty \ {c.sink}
    BY <1>1, <2>1, <2>4 DEF Release, SinksOf
  <2>6. taken'[p] = taken[p] \ {c} BY <1>0, <2>1
  <2>7. branch[p] # "bare" => dirty' \subseteq SinksOf(taken'[p]) BY <1>1, <2>2, <2>5, <2>6 DEF SinksOf
  <2>8. \A d \in closes' \cup taken'[p] : d.by = p /\ d.joined BY <1>1, <2>3, <2>5, <2>6
  <2> QED BY <1>1, <1>3, <2>2, <2>5, <2>7, <2>8 DEF StopAloneInv
<1>12. CASE StopInterrupt(p)
  <2>1. /\ pc[p] = "hand" /\ pc'[p] = "unwind" /\ taken'[p] = {}
        /\ UNCHANGED <<leaked, closes, waited, dirty, gate, branch>>
    BY <1>0, <1>12 DEF StopInterrupt
  <2> QED BY <1>1, <2>1 DEF StopAloneInv
<1>13. CASE StopWait(p)
  <2>1. /\ pc[p] = "hand" /\ taken[p] = {} /\ \A c \in closes : ~(c.by = p /\ c.joined)
        /\ UNCHANGED <<leaked, closes, taken, waited, dirty, gate>>
    BY <1>13 DEF StopWait, Joined
  <2>2. closes = {} BY <1>1, <2>1
  <2>3. \/ branch[p] = "bare" /\ pc'[p] = "lower" /\ branch' = branch
        \/ branch[p] # "bare" /\ pc'[p] = "done" /\ branch' = branch
    BY <1>0, <1>1, <1>13 DEF StopWait
  <2>4. branch[p] # "bare" => thread = "dead" /\ dirty = {} BY <1>1, <2>1 DEF SinksOf
  <2> QED BY <1>1, <1>3, <2>1, <2>2, <2>3, <2>4 DEF StopAloneInv
<1>14. CASE StopLower(p)
  <2>1. /\ pc[p] = "lower" /\ pc'[p] \in {"retire", "done"} /\ branch'[p] = "second"
        /\ UNCHANGED <<leaked, closes, taken, waited, dirty, gate>>
    BY <1>0, <1>1, <1>14 DEF StopLower
  <2>2. ~gate BY <1>1, <1>2, <2>1
  <2> QED BY <1>1, <1>2, <2>1, <2>2 DEF StopAloneInv
<1>15. CASE StopUnwind(p)
  <2>1. /\ pc[p] = "unwind" /\ pc'[p] = "raised"
        /\ UNCHANGED <<leaked, closes, taken, waited, dirty, gate, branch>>
    BY <1>0, <1>15 DEF StopUnwind
  <2> QED BY <1>1, <2>1 DEF StopAloneInv
<1> QED BY <1>5, <1>6, <1>7, <1>8, <1>9, <1>10, <1>11, <1>12, <1>13, <1>14, <1>15 DEF Stop

LEMMA OneStopStep ==
  ASSUME IInv, OneStopInv, [Next]_vars
  PROVE  OneStopInv'
<1>0. UnswappedInv /\ Typed BY DEF OneStopInv, IInv
<1>1. UnswappedInv' BY <1>0, UnswappedStep
<1>2. ASSUME NEW p \in Stoppers, Alone(p)' PROVE StopAloneInv(p)'
  <2>0. calls' = 0 /\ ~expired' /\ \A q \in Stoppers \ {p} : pc'[q] = "idle" BY <1>2 DEF Alone, At
  <2>1. CASE \E q \in Stoppers : Stop(q)
    <3>1. PICK q \in Stoppers : Stop(q) BY <2>1
    <3>2. /\ pc'[q] # "idle" /\ calls' = calls /\ (expired => expired')
          /\ \A r \in Stoppers : r # q => pc'[r] = pc[r]
      BY <1>0, <3>1, StopBegun
    <3>3. q = p BY <2>0, <3>2
    <3>4. Alone(p) BY <2>0, <3>2, <3>3 DEF Alone, At
    <3>5. StopAloneInv(p) BY <3>4 DEF OneStopInv
    <3> QED BY <1>0, <1>2, <3>1, <3>3, <3>4, <3>5, StopAloneStep
  <2>2. CASE ~\E q \in Stoppers : Stop(q)
    <3>1. /\ calls = 0 /\ UNCHANGED <<expired, waited, gate, branch, taken, leaked>>
          /\ closes' \subseteq closes /\ \A r \in Stoppers : pc'[r] = pc[r]
          /\ thread = "dead" => thread' = "dead" /\ dirty' = dirty
      BY <1>0, <2>0, <2>2, OthersAlone
    <3>2. Alone(p) BY <2>0, <3>1 DEF Alone, At
    <3>3. StopAloneInv(p) BY <3>2 DEF OneStopInv
    <3> QED BY <3>1, <3>3 DEF StopAloneInv, At
  <2> QED BY <2>1, <2>2
<1> QED BY <1>1, <1>2 DEF OneStopInv

\* A shutdown() that nothing overlaps leaves nothing behind that the drain delivered: whenever the
\* worker was built, before the call or within it, the sinks it wrote to were taken for closing
\* after the drain had ended.
THEOREM ClosedBehind == Spec => []ClosedBehindOneStop
<1>1. Init => OneStopInv
  <2> SUFFICES ASSUME Init PROVE OneStopInv OBVIOUS
  <2>1. \A p \in Stoppers : pc[p] = "idle" /\ branch[p] = "worker" BY DEF Init, Threads
  <2> QED BY <2>1 DEF Init, OneStopInv, UnswappedInv, StopAloneInv, At
<1>2. IInv /\ OneStopInv /\ [Next]_vars => OneStopInv' BY OneStopStep
<1>3. OneStopInv => ClosedBehindOneStop
  BY DEF OneStopInv, Alone, StopAloneInv, ClosedBehindOneStop, At
<1> QED BY <1>1, <1>2, <1>3, Invariance, PTL DEF Spec

=============================================================================
