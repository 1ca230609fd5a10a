---------------------------- MODULE MCLifecycle ----------------------------
(* Instances of Lifecycle for TLC. *)
EXTENDS Lifecycle, TLC

CONSTANTS a, b, l1, t1, p1, p2

\* Three instances in one, for the shutdown() of p1 and a span: against the shutdown() of p2 and a
\* level call; against a level call and one swap; against two swaps.
Apart ==
    \/ cpc = "idle" /\ calls = 0
    \/ pc[p2] = "idle" /\ (calls <= 1 \/ pc[l1] = "idle")

ApartSpec == Init /\ [][Next /\ Apart']_vars /\ Fairness

=============================================================================
