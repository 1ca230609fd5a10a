------------------------------ MODULE MCSpans ------------------------------
(* Instances of Spans for TLC. *)
EXTENDS Spans, TLC

CONSTANTS c1, c2, s1, s2, e1, k1, i1

Symmetry == Permutations(Spans)

\* Two instances in one.  While c1 is alone: nested calls, baggage, inbound traces and one
\* flush() or reset_context().
\* Once c2 shares its span: no nesting, no baggage and no inbound trace, but two flush() calls.
Apart ==
    IF c2 \in live
    THEN /\ \A c \in Contexts : Len(frames[c]) <= 1 /\ baggage[c] = {}
         /\ continues = 0 /\ resets = 0
    ELSE sweeps + resets <= 1

ApartSpec == Init /\ [][Next /\ Apart']_vars

=============================================================================
