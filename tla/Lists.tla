-------------------------------- MODULE Lists --------------------------------
(***************************************************************************)
(* What the sinks do to a list besides appending to it: a comprehension     *)
(* that keeps some of its elements, in order.  It is SelectSeq with a set   *)
(* for the test, as a recursive function that proofs can unfold.            *)
(***************************************************************************)
EXTENDS Integers, Sequences

Keep(s, S) ==
    LET kept[n \in 0..Len(s)] ==
            IF n = 0 THEN <<>>
            ELSE IF s[n] \in S THEN Append(kept[n - 1], s[n]) ELSE kept[n - 1]
    IN  kept[Len(s)]

=============================================================================
