--------------------------- MODULE SearchStorage ---------------------------
(***************************************************************************)
(* The Redis keys of a package search and the storage methods over them    *)
(* (internal/adapters/redis/packagesearch/storage.go).  Per search id:     *)
(*                                                                         *)
(*   search:packages:{id}       a hash        status, named, volatile      *)
(*   search:projects:{id}       a list        queue                        *)
(*   search:failed:repos:{id}   a list        failed (as a set)            *)
(*   search:packages:scores     a sorted set  score                        *)
(*                                                                         *)
(* Every method is one Redis command or one MULTI/EXEC transaction, so     *)
(* each is one atomic effect below.  Search ids are numbered in the order  *)
(* Redis compares them; an absent member of the sorted set has score 0.    *)
(***************************************************************************)
EXTENDS Integers, Sequences, FiniteSets

CONSTANTS
    SearchID,   \* md5 ids of searches, numbered in lexicographic order
    Branch      \* ids of project branches: one queue item per branch

ASSUME SearchIDAssumption == SearchID \subseteq Nat \ {0}
ASSUME BranchAssumption == Branch \subseteq Nat \ {0}

VARIABLES
    status,     \* the hash's status field, Absent when the hash does not exist
    named,      \* does the hash hold the type, name and version fields?
    volatile,   \* has the hash a time to live?
    score,      \* the search's score in the sorted set, 0 when not a member
    queue,      \* the list of branches still to scan, Head is the RPOP end
    failed,     \* the branches in the list of failed repositories
    newest      \* which of hash and queue had its time to live set last

storageVars == <<status, named, volatile, score, queue, failed, newest>>

\* GetSearchStatus answers "" for a hash or field that does not exist.
Absent == "absent"
Status == {Absent, "pending", "processing", "completed"}

StorageTypeOK ==
    /\ status \in [SearchID -> Status]
    /\ named \in [SearchID -> BOOLEAN]
    /\ volatile \in [SearchID -> BOOLEAN]
    /\ score \in [SearchID -> Nat]
    /\ queue \in [SearchID -> Seq(Branch)]
    /\ failed \in [SearchID -> SUBSET Branch]
    /\ newest \in [SearchID -> {"hash", "queue"}]

StorageInit ==
    /\ status = [s \in SearchID |-> Absent]
    /\ named = [s \in SearchID |-> FALSE]
    /\ volatile = [s \in SearchID |-> FALSE]
    /\ score = [s \in SearchID |-> 0]
    /\ queue = [s \in SearchID |-> << >>]
    /\ failed = [s \in SearchID |-> {}]
    /\ newest = [s \in SearchID |-> "hash"]

----------------------------------------------------------------------------
(* Reads.                                                                  *)

Queued == {s \in SearchID : score[s] > 0}

\* What ZREVRANGE 0 0 answers: the highest score, the greater id among equals.
Highest(s) ==
    /\ s \in Queued
    /\ \A t \in Queued : score[s] > score[t] \/ (score[s] = score[t] /\ s >= t)

\* GetSearchDetails succeeds only on a hash that has a name.
HasDetails(s) == named[s]

\* Mistake: HSETNX on the name field, which only AddSearchToQueue writes.
CanAcquireUnnamed(s) == ~named[s]

\* HSETNX sets the status only when the field is not there yet.
CanAcquire(s) == status[s] = Absent

----------------------------------------------------------------------------
(* Writes.                                                                 *)

\* Mistake: HSET in place of HSETNX.
AcquireByHSet(s) ==
    /\ status' = [status EXCEPT ![s] = "pending"]
    /\ volatile' = [volatile EXCEPT ![s] = TRUE]
    /\ newest' = [newest EXCEPT ![s] = "hash"]
    /\ UNCHANGED <<named, score, queue, failed>>

\* Mistake: the claim already enters the search into the sorted set.
AcquireAndQueue(s) ==
    /\ status' = [status EXCEPT ![s] = IF CanAcquire(s) THEN "pending" ELSE @]
    /\ volatile' = [volatile EXCEPT ![s] = TRUE]
    /\ newest' = [newest EXCEPT ![s] = "hash"]
    /\ score' = [score EXCEPT ![s] = IF CanAcquire(s) THEN 1 ELSE @]
    /\ UNCHANGED <<named, queue, failed>>

\* EXPIRE runs whether or not HSETNX claimed the search, so a request that
\* joins a search prolongs its hash, and only its hash.
AcquireSearch(s) ==
    /\ status' = [status EXCEPT ![s] = IF CanAcquire(s) THEN "pending" ELSE @]
    /\ volatile' = [volatile EXCEPT ![s] = TRUE]
    /\ newest' = [newest EXCEPT ![s] = "hash"]
    /\ UNCHANGED <<named, score, queue, failed>>

\* Mistake: the details are not written with the status.
AddSearchUnnamed(s) ==
    /\ status' = [status EXCEPT ![s] = "pending"]
    /\ volatile' = [volatile EXCEPT ![s] = TRUE]
    /\ newest' = [newest EXCEPT ![s] = "hash"]
    /\ score' = [score EXCEPT ![s] = @ + 1]
    /\ UNCHANGED <<named, queue, failed>>

\* Mistake: the EXPIRE of the transaction is forgotten.
AddSearchNoExpire(s) ==
    /\ status' = [status EXCEPT ![s] = "pending"]
    /\ named' = [named EXCEPT ![s] = TRUE]
    /\ score' = [score EXCEPT ![s] = @ + 1]
    /\ UNCHANGED <<volatile, queue, failed, newest>>

AddSearchToQueue(s) ==
    /\ status' = [status EXCEPT ![s] = "pending"]
    /\ named' = [named EXCEPT ![s] = TRUE]
    /\ volatile' = [volatile EXCEPT ![s] = TRUE]
    /\ newest' = [newest EXCEPT ![s] = "hash"]
    /\ score' = [score EXCEPT ![s] = @ + 1]
    /\ UNCHANGED <<queue, failed>>

\* A project without branches pushes nothing, and its EXPIRE falls on a list
\* that may not exist.
AddProjectsToQueue(s, branches) ==
    /\ queue' = [queue EXCEPT ![s] = @ \o branches]
    /\ newest' = [newest EXCEPT ![s] =
                    IF queue[s] \o branches = << >> THEN @ ELSE "queue"]
    /\ UNCHANGED <<status, named, volatile, score, failed>>

GetProjectFromQueue(s) ==
    /\ queue[s] # << >>
    /\ queue' = [queue EXCEPT ![s] = Tail(@)]
    /\ UNCHANGED <<status, named, volatile, score, failed, newest>>

\* HSET creates a hash that has expired again, without name and without TTL.
UpdateSearchStatus(s, value) ==
    /\ status' = [status EXCEPT ![s] = value]
    /\ UNCHANGED <<named, volatile, score, queue, failed, newest>>

\* Mistake: no ZREM.
CompleteWithoutZRem(s) ==
    /\ status' = [status EXCEPT ![s] = "completed"]
    /\ UNCHANGED <<named, volatile, score, queue, failed, newest>>

\* Mistake: the status is not written.
CompleteWithoutStatus(s) ==
    /\ score' = [score EXCEPT ![s] = 0]
    /\ UNCHANGED <<status, named, volatile, queue, failed, newest>>

CompleteSearch(s) ==
    /\ score' = [score EXCEPT ![s] = 0]
    /\ status' = [status EXCEPT ![s] = "completed"]
    /\ UNCHANGED <<named, volatile, queue, failed, newest>>

AddFailedRepository(s, b) ==
    /\ failed' = [failed EXCEPT ![s] = @ \cup {b}]
    /\ UNCHANGED <<status, named, volatile, score, queue, newest>>

----------------------------------------------------------------------------
(* Redis drops keys by itself.  The hash and the list live equally long    *)
(* (searchTTL and queueTTL are 24 hours both), so of the two the one whose *)
(* time to live was set first goes first.  The sorted set never expires.   *)

ExpireHash(s) ==
    /\ status[s] # Absent /\ volatile[s]
    /\ queue[s] = << >> \/ newest[s] = "queue"
    /\ status' = [status EXCEPT ![s] = Absent]
    /\ named' = [named EXCEPT ![s] = FALSE]
    /\ volatile' = [volatile EXCEPT ![s] = FALSE]
    /\ UNCHANGED <<score, queue, failed, newest>>

ExpireQueue(s) ==
    /\ queue[s] # << >>
    /\ newest[s] = "hash" \/ ~volatile[s]
    /\ queue' = [queue EXCEPT ![s] = << >>]
    /\ UNCHANGED <<status, named, volatile, score, failed, newest>>

=============================================================================
