------------------------------- MODULE Search -------------------------------
(***************************************************************************)
(* What a package search promises, without queues, keys and round trips.   *)
(* A search is claimed once, opened once with all branches or, when the    *)
(* results are known, with none, and closed when no branch waits any more. *)
(* Each branch is taken once by somebody and settled.                      *)
(***************************************************************************)
CONSTANTS
    SearchID,   \* searches
    Branches    \* the branches of all listed projects

VARIABLES
    phase,      \* "absent", "claimed", "open" or "closed"
    waiting,    \* branches nobody has taken
    taken,      \* branches being scanned
    settled     \* branches whose outcome is known

searchVars == <<phase, waiting, taken, settled>>

Init ==
    /\ phase = [s \in SearchID |-> "absent"]
    /\ waiting = [s \in SearchID |-> {}]
    /\ taken = [s \in SearchID |-> {}]
    /\ settled = [s \in SearchID |-> {}]

Become(s, from, to) ==
    /\ phase[s] = from
    /\ phase' = [phase EXCEPT ![s] = to]

Claim(s) ==
    /\ Become(s, "absent", "claimed")
    /\ UNCHANGED <<waiting, taken, settled>>

Open(s) ==
    /\ Become(s, "claimed", "open")
    /\ waiting' = [waiting EXCEPT ![s] = Branches]
    /\ UNCHANGED <<taken, settled>>

OpenKnown(s) ==
    /\ Become(s, "claimed", "open")
    /\ UNCHANGED <<waiting, taken, settled>>

Take(s, b) ==
    /\ phase[s] = "open"
    /\ b \in waiting[s]
    /\ waiting' = [waiting EXCEPT ![s] = @ \ {b}]
    /\ taken' = [taken EXCEPT ![s] = @ \cup {b}]
    /\ UNCHANGED <<phase, settled>>

\* A branch may be settled after its search is closed.
Settle(s, b) ==
    /\ b \in taken[s]
    /\ taken' = [taken EXCEPT ![s] = @ \ {b}]
    /\ settled' = [settled EXCEPT ![s] = @ \cup {b}]
    /\ UNCHANGED <<phase, waiting>>

Close(s) ==
    /\ Become(s, "open", "closed")
    /\ waiting[s] = {}
    /\ UNCHANGED <<waiting, taken, settled>>

Publish(s) == Open(s) \/ OpenKnown(s)
Progress(s) == Close(s) \/ \E b \in Branches : Take(s, b)

Next ==
    \E s \in SearchID :
        \/ Claim(s) \/ Publish(s) \/ Progress(s)
        \/ \E b \in Branches : Settle(s, b)

Spec == Init /\ [][Next]_searchVars

\* Who claims a search opens it; an open one is worked at; what is taken is
\* settled.
Fairness ==
    \A s \in SearchID :
        /\ WF_searchVars(Publish(s))
        /\ WF_searchVars(Progress(s))
        /\ \A b \in Branches : WF_searchVars(Settle(s, b))

FairSpec == Spec /\ Fairness

=============================================================================
