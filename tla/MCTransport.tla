----------------------------- MODULE MCTransport -----------------------------
(***************************************************************************)
(* The sinks with a concurrency or a recovery of their own, as one          *)
(* instance: the initial state says which of the four a behavior is of.     *)
(* The others stay in an initial state of theirs.                           *)
(***************************************************************************)
EXTENDS ClientBuffers, RotatingFile, Wrappers, NatsSink, TLC

CONSTANTS e1, e2, f1, c1

VARIABLE part
vars == <<part, bufferVars, fileVars, fanVars, natsVars>>

BatchOf   == (e1 :> 2) @@ (e2 :> 1)
NoTimeout == {<<e1, 1>>}

Init ==
    /\ part \in {"buffers", "file", "fan", "nats"}
    /\ BuffersInit /\ RotatingInit /\ FanInit /\ NatsInit
    /\ part # "buffers" => client = "pubsub"
    /\ part # "file" => backups = 0
    /\ part # "nats" => ~jetstream /\ ~probing

ButBuffers == UNCHANGED <<part, fileVars, fanVars, natsVars>>
Buffers == part = "buffers" /\ BuffersNext /\ ButBuffers
File    == part = "file" /\ RotatingNext /\ UNCHANGED <<part, bufferVars, fanVars, natsVars>>
FanOut  == part = "fan" /\ FanNext /\ UNCHANGED <<part, bufferVars, fileVars, natsVars>>
Nats    == part = "nats" /\ NatsNext /\ UNCHANGED <<part, bufferVars, fileVars, fanVars>>

\* No call is in hand, or the bound on the files created is met.
Rest ==
    /\ CASE part = "buffers" -> Idle
         [] part = "file"    -> step = "idle" \/ born = MaxGens
         [] part = "fan"     -> FanOver
         [] part = "nats"    -> run = "none"
    /\ UNCHANGED vars

Next == Buffers \/ File \/ FanOut \/ Nats \/ Rest

\* A thread inside close() goes on; neither the destination nor another thread need.
Fairness == \A c \in Closers : WF_vars(part = "buffers" /\ ThreadStep(c) /\ ButBuffers)

Spec == Init /\ [][Next]_vars /\ Fairness

=============================================================================
