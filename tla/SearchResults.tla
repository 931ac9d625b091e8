--------------------------- MODULE SearchResults ---------------------------
(***************************************************************************)
(* Clients that poll the searches of PackageSearch.  A poll runs           *)
(* Service.GetPackagesBySearch of package packagesvc: it reads the status, *)
(* the details, the dependencies in one or several statements, the length  *)
(* of the queue and the status again, one after the other, while requests  *)
(* and workers go on.                                                      *)
(***************************************************************************)
EXTENDS PackageSearch

CONSTANTS
    Client,       \* clients that poll
    Pages,        \* pages of results they ask for
    Versioned,    \* the searches with a version constraint
    Accepts,      \* <<s, b>>: the version resolved on branch b satisfies the
                  \* constraint of search s
    ResultsPage,  \* results per page (10 in the code)
    BatchSize     \* rows per batch of the cursor (100 in the code)

ASSUME PagesAssumption == Pages \subseteq Nat \ {0}
ASSUME VersionAssumption ==
    Versioned \subseteq SearchID /\ Accepts \subseteq SearchID \X Branch
ASSUME PagingAssumption == ResultsPage \in Nat \ {0} /\ BatchSize \in Nat \ {0}
\* A table holds finitely many rows.
ASSUME RowsAssumption == IsFiniteSet(KnownDeps)

VARIABLES
    rows,      \* project_dependencies in the order of their ids, which are
               \* the positions: <<package, branch>>
    poll,      \* where each client is in GetPackagesBySearch
    answer     \* what the call in progress has read, or has answered

pollVars == <<poll, answer>>
resultVars == <<vars, rows, pollVars>>

Reading == {"status", "details", "count", "rows", "cursor", "left", "status again"}
PollPC == {"idle", "answered", "failed"} \cup Reading

Answer ==
    [sid : SearchID, page : Pages,
     finished : BOOLEAN,            \* SearchFinished
     found : SUBSET Nat,            \* Dependencies, the ids of the rows
     total : Nat,                   \* Total
     after : Nat,                   \* afterID
     left : Nat,                    \* RepositoriesLeft
     status : Status,               \* Status
     since : Nat]                   \* history: the last id when it was asked

NoAnswer == [sid |-> None]

ResultsTypeOK ==
    /\ rows \in Seq(Package \X Branch)
    /\ {rows[i] : i \in 1..Len(rows)} = deps /\ Len(rows) = Cardinality(deps)
    /\ poll \in [Client -> PollPC]
    /\ \A c \in Client : poll[c] # "idle" => answer[c] \in Answer

ResultsInit ==
    /\ Init
    /\ rows \in {q \in [1..Cardinality(KnownDeps) -> KnownDeps] :
                    \A d \in KnownDeps : \E i \in DOMAIN q : q[i] = d}
    /\ poll = [c \in Client |-> "idle"]
    /\ answer = [c \in Client |-> NoAnswer]

----------------------------------------------------------------------------
(* Requests and workers.                                                   *)

\* A new row gets the next id; an upsert of a row that is there keeps its id.
NewRow == rows' = IF deps' = deps THEN rows
                  ELSE Append(rows, CHOOSE d \in deps' : d \notin deps)

Elsewhere(A) == A /\ NewRow /\ UNCHANGED pollVars

----------------------------------------------------------------------------
(* The dependencies of a search.                                           *)

\* Rows of the package up to id n.
OfPackage(s, n) == {i \in 1..n : rows[i][1] = PkgOf[s]}

\* MatchesVersion: an empty constraint matches everything.
Matches(s, i) == s \notin Versioned \/ <<s, rows[i][2]>> \in Accepts
Matching(s, n) == {i \in OfPackage(s, n) : Matches(s, i)}

Position(i, ids) == Cardinality({j \in ids : j <= i})

\* LIMIT size after the first skip rows, in the order of ids.
Slice(ids, skip, size) == {i \in ids : Position(i, ids) \in skip + 1..skip + size}
Offset(page) == (page - 1) * ResultsPage
PageOfResults(s, page, n) == Slice(Matching(s, n), Offset(page), ResultsPage)

\* WHERE pd.id > after LIMIT BatchSize
Batch(s, after) ==
    Slice({i \in OfPackage(s, Len(rows)) : i > after}, 0, BatchSize)

----------------------------------------------------------------------------
(* GetPackagesBySearch.                                                    *)

PollStep(c, from, to) ==
    /\ poll[c] = from
    /\ poll' = [poll EXCEPT ![c] = to]
    /\ UNCHANGED <<vars, rows>>

\* A client polls a search it was given the id of, the first time and until
\* it is told that the search is completed.
Known(s) == \E r \in Request : rsid[r] = s /\ rpc[r] \in {"joined", "cached", "listed"}
Again(c, s) ==
    /\ poll[c] \in {"answered", "failed"} /\ answer[c].sid = s
    /\ poll[c] = "answered" => answer[c].status # "completed"

Ask(c, s, page) ==
    /\ (poll[c] = "idle" /\ Known(s)) \/ Again(c, s)
    /\ poll' = [poll EXCEPT ![c] = "status"]
    /\ answer' = [answer EXCEPT ![c] =
            [sid |-> s, page |-> page, finished |-> FALSE, found |-> {},
             total |-> 0, after |-> 0, left |-> 0, status |-> Absent,
             since |-> Len(rows)]]
    /\ UNCHANGED <<vars, rows>>

\* Mistake: a pending search is not running yet.
OnlyProcessingRuns(c) ==
    /\ PollStep(c, "status", "details")
    /\ answer' = [answer EXCEPT ![c].finished = status[answer[c].sid] # "processing"]

CheckIfSearchIsRunning(c) ==
    /\ PollStep(c, "status", "details")
    /\ answer' = [answer EXCEPT ![c].finished =
                    status[answer[c].sid] \notin {"pending", "processing"}]

\* A search without a name yet is an internal error to the client.
ReadDetails(c) ==
    LET s == answer[c].sid
    IN /\ PollStep(c, "details", CASE ~HasDetails(s)   -> "failed"
                                   [] s \in Versioned -> "cursor"
                                   [] OTHER           -> "count")
       /\ UNCHANGED answer

CountDependencies(c) ==
    /\ PollStep(c, "count", "rows")
    /\ answer' = [answer EXCEPT ![c].total =
                    Cardinality(OfPackage(answer[c].sid, Len(rows)))]

FindPage(c) ==
    /\ PollStep(c, "rows", "left")
    /\ answer' = [answer EXCEPT ![c].found =
            Slice(OfPackage(answer[c].sid, Len(rows)),
                  Offset(answer[c].page), ResultsPage)]

\* Mistake: every batch begins to count the skipped results anew.
FetchSkippingAnew(c) ==
    LET a == answer[c]
        batch == Batch(a.sid, a.after)
        matched == {i \in batch : Matches(a.sid, i)}
    IN /\ PollStep(c, "cursor", IF Cardinality(batch) < BatchSize
                                THEN "left" ELSE "cursor")
       /\ answer' = [answer EXCEPT
            ![c].found = @ \cup Slice(matched, Offset(a.page), ResultsPage),
            ![c].total = @ + Cardinality(matched),
            ![c].after = IF batch = {} THEN @ ELSE CHOOSE i \in batch :
                                                \A j \in batch : j <= i]

\* One batch of findFilteredDependencies: total counts the matches, and those
\* that fall on the page are collected.  A batch that is not full is the last.
FetchBatch(c) ==
    LET a == answer[c]
        batch == Batch(a.sid, a.after)
        matched == {i \in batch : Matches(a.sid, i)}
        onPage == {i \in matched : a.total + Position(i, matched)
                        \in Offset(a.page) + 1..Offset(a.page) + ResultsPage}
    IN /\ PollStep(c, "cursor", IF Cardinality(batch) < BatchSize
                                THEN "left" ELSE "cursor")
       /\ answer' = [answer EXCEPT
            ![c].found = @ \cup onPage,
            ![c].total = @ + Cardinality(matched),
            ![c].after = IF batch = {} THEN @ ELSE CHOOSE i \in batch :
                                                \A j \in batch : j <= i]

\* Mistake: the branch that is popped next is not counted.
LengthLessOne(c) ==
    /\ PollStep(c, "left", "status again")
    /\ answer' = [answer EXCEPT ![c].left = Len(queue[answer[c].sid]) - 1]

GetProjectsQueueLength(c) ==
    /\ PollStep(c, "left", "status again")
    /\ answer' = [answer EXCEPT ![c].left = Len(queue[answer[c].sid])]

GetSearchStatus(c) ==
    /\ PollStep(c, "status again", "answered")
    /\ answer' = [answer EXCEPT ![c].status = status[answer[c].sid]]

PollAction(c) ==
    \/ \E s \in SearchID, page \in Pages : Ask(c, s, page)
    \/ CheckIfSearchIsRunning(c) \/ ReadDetails(c)
    \/ CountDependencies(c) \/ FindPage(c) \/ FetchBatch(c)
    \/ GetProjectsQueueLength(c) \/ GetSearchStatus(c)

----------------------------------------------------------------------------

ResultsNext == Elsewhere(Next) \/ \E c \in Client : PollAction(c)

ResultsSpec == ResultsInit /\ [][ResultsNext]_resultVars

\* As for PackageSearch; a client that has asked once asks again, on a timer,
\* until the search is completed.
ResultsFairness ==
    /\ \A r \in Request : WF_resultVars(Elsewhere(RequestStep(r)))
    /\ \A w \in Worker : WF_resultVars(Elsewhere(WorkerStep(w)))
    /\ \A c \in Client : WF_resultVars(poll[c] # "idle" /\ PollAction(c))

FairResultsSpec == ResultsSpec /\ ResultsFairness

----------------------------------------------------------------------------
(* What a poll promises.                                                   *)

\* The branches a search is to find, in the order of their rows.
Truth(s) == {b \in AllBranches : /\ <<PkgOf[s], b>> \in Contains
                                 /\ s \in Versioned => <<s, b>> \in Accepts}

\* An answer holds what its page and its total say of all branches there are.
Exact(a) ==
    /\ a.total = Cardinality(Truth(a.sid))
    /\ a.found = PageOfResults(a.sid, a.page, Len(rows))
    /\ a.left = 0

\* search_finished: with one worker and no failure nothing is missing from an
\* answer that says so, and nothing comes later.  The flag is read first.
FinishedAnswerIsExact ==
    \A c \in Client : poll[c] = "answered" /\ answer[c].finished => Exact(answer[c])

\* The status is read last, and is what a client stops at ("The response
\* includes current search status and paginated dependencies").
CompletedAnswerIsExact ==
    \A c \in Client :
        poll[c] = "answered" /\ answer[c].status = "completed" => Exact(answer[c])

\* However the table grows while batch after batch is read, an answer is the
\* page, and the total, of the table at one moment of the call; without a
\* version constraint, of two moments.
AnswerIsOfAMoment ==
    \A c \in Client : poll[c] = "answered" =>
        LET a == answer[c]
        IN \E n \in a.since..Len(rows), m \in a.since..Len(rows) :
              /\ a.total = Cardinality(Matching(a.sid, n))
              /\ a.found = PageOfResults(a.sid, a.page, m)
              /\ IF a.sid \in Versioned THEN m = n ELSE n <= m

\* A client that polls is told sooner or later that its search is completed.
PollingEnds ==
    \A c \in Client :
        poll[c] # "idle" ~> poll[c] = "answered" /\ answer[c].status = "completed"

=============================================================================
