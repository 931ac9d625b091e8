-------------------------- MODULE SearchRefinement --------------------------
(***************************************************************************)
(* PackageSearch implements Search: a search is claimed when it has a      *)
(* hash, open while it is in the sorted set, and closed when it has left   *)
(* it; its branches wait in the queue, but not before it is open.          *)
(***************************************************************************)
EXTENDS PackageSearch

PhaseOf(s) ==
    IF status[s] = Absent THEN "absent"
    ELSE IF score[s] > 0 THEN "open"
    ELSE IF named[s] THEN "closed" ELSE "claimed"

Abstract == INSTANCE Search WITH
    Branches <- AllBranches,
    phase <- [s \in SearchID |-> PhaseOf(s)],
    waiting <- [s \in SearchID |-> IF PhaseOf(s) = "claimed" THEN {} ELSE Waiting(s)],
    taken <- [s \in SearchID |-> InHand(s)],
    settled <- handled

\* If nothing fails or expires, any number of requests and workers together
\* do what Search says, and keep its promises of progress: each branch is
\* popped once and settled, and a search is completed when its queue is empty.
ImplementsSearch == Abstract!FairSpec

=============================================================================
