------------------------------ MODULE MCWorker ------------------------------
(* Instances of Worker for TLC. *)
EXTENDS Worker, TLC

CONSTANTS s1, s2, f1, f2, p1, p2,
          Groups        \* who calls together

\* Submissions are interchangeable.  Used by a run that checks safety only.
CallerSymmetry == Permutations(Submitters)

\* One instance for several sets of callers: in every behavior the calls ever made are made by the
\* members of one group.
OfOneGroup == \E g \in Groups : {c \in Callers : Started(c)} \subseteq g

GroupsSpec == Init /\ [][Next /\ OfOneGroup']_vars /\ WaitersRun /\ DrainRuns

FairSpec == GroupsSpec /\ SubmittersRun
=============================================================================
