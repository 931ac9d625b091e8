----------------------------- MODULE SearchPage -----------------------------
(***************************************************************************)
(* The main page of the web UI: a script that asks for a search, polls it  *)
(* every second without waiting for the last answer, turns pages meanwhile *)
(* and stops at an answer with status "completed"; and the HTTP handlers   *)
(* that answer it, on connections that keep no order among each other.     *)
(*                                                                         *)
(* A search is known by its stage, which also stands for the rows and the  *)
(* failures it has by then.  The rows of an answer are read before its     *)
(* status, so that it may say "completed" over rows of an earlier stage;   *)
(* what the reads of the rows mix among themselves is the subject of       *)
(* SearchResults.                                                          *)
(***************************************************************************)
EXTENDS Integers, Sequences

CONSTANTS
    Search,       \* searches the user may ask for
    Page,         \* pages of results
    Completed,    \* the last stage of a search; it is unknown at 0 and starts at 1
    MaxInFlight,  \* bound on requests in flight when one more is sent
    MaxEvents     \* bound on what the user does and what goes wrong

ASSUME FirstPage == 1 \in Page /\ Page \subseteq Nat \ {0}
ASSUME BoundsAssumption == MaxInFlight \in Nat /\ MaxEvents \in Nat
ASSUME NoSearch == 0 \notin Search
ASSUME CompletedAssumption == Completed \in Nat \ {0}

None == 0
Stage == 0..Completed
Unanswered == -1
Kind == {"search", "packages", "page", "failed"}

VARIABLES
    stage,     \* the server: how far each search is
    sent,      \* requests without an answer applied, in the order of sending
    searchId, searchStatus, packages, packagesPage, failedRepos, \* the page
    timer,     \* the interval that pollingTimer names is running
    leaked,    \* intervals running that nothing names any more
    wanted,    \* history: the search the user asked for last
    events,    \* actions of the user and failures so far
    broken,    \* history: kinds of requests that failed
    reordered, \* history: a request overtook one sent before it
    torn,      \* history: a search was completed between the rows and the status
               \* of an answer
    hasty,     \* history: a search was asked for before the last had its id
    left       \* history: the user has opened the list of projects since

pageVars == <<searchId, searchStatus, packages, packagesPage, failedRepos, timer, leaked>>
historyVars == <<wanted, events, broken, hasty, left>>
vars == <<stage, sent, pageVars, historyVars, reordered, torn>>

Request == [kind : Kind, search : Search \cup {None}, page : Page,
            rows : Stage \cup {Unanswered}, reply : Stage \cup {Unanswered}]
\* Rows of a page of a search as they were at a stage.
Rows == [search : Search, page : Page, stage : Stage]
NoRows == [search |-> None, page |-> 1, stage |-> 0]

TypeOK ==
    /\ stage \in [Search -> Stage]
    /\ sent \in Seq(Request)
    /\ searchId \in Search \cup {None}
    /\ searchStatus \in Stage
    /\ packages \in Rows \cup {NoRows}
    /\ packagesPage \in Page
    /\ failedRepos \in Rows \cup {NoRows}
    /\ timer \in BOOLEAN /\ leaked \in Nat
    /\ wanted \in Search \cup {None}
    /\ events \in 0..MaxEvents
    /\ broken \subseteq Kind
    /\ reordered \in BOOLEAN /\ torn \in BOOLEAN
    /\ hasty \in BOOLEAN /\ left \in BOOLEAN
    \* a search is asked for by its query, everything else by its id
    /\ \A i \in 1..Len(sent) : sent[i].search # None
    /\ timer \/ leaked > 0 => searchId # None

Init ==
    /\ stage = [s \in Search |-> 0]
    /\ sent = << >>
    /\ searchId = None /\ searchStatus = 0
    /\ packages = NoRows /\ packagesPage = 1 /\ failedRepos = NoRows
    /\ timer = FALSE /\ leaked = 0
    /\ wanted = None /\ events = 0
    /\ broken = {} /\ reordered = FALSE /\ torn = FALSE
    /\ hasty = FALSE /\ left = FALSE

----------------------------------------------------------------------------
(* The script.                                                             *)

Ask(kind, s, p) == [kind |-> kind, search |-> s, page |-> p,
                    rows |-> Unanswered, reply |-> Unanswered]
Without(i) == SubSeq(sent, 1, i - 1) \o SubSeq(sent, i + 1, Len(sent))

StopPolling == timer' = FALSE
Event == events < MaxEvents /\ events' = events + 1

\* Mistake: the interval of the last search goes on.
StartSearchPolling(s) ==
    /\ Event /\ Len(sent) < MaxInFlight
    /\ wanted' = s
    /\ hasty' = (hasty \/ \E i \in 1..Len(sent) : sent[i].kind = "search")
    /\ searchStatus' = 0 /\ packages' = NoRows /\ packagesPage' = 1
    /\ failedRepos' = NoRows
    /\ sent' = Append(sent, Ask("search", s, 1))
    /\ left' = FALSE
    /\ UNCHANGED <<timer, stage, searchId, leaked, broken, reordered, torn>>

\* The button, or the enter key: nothing keeps the user from a second click.
StartSearch(s) ==
    /\ Event /\ Len(sent) < MaxInFlight
    /\ wanted' = s
    /\ hasty' = (hasty \/ \E i \in 1..Len(sent) : sent[i].kind = "search")
    /\ StopPolling
    /\ searchStatus' = 0 /\ packages' = NoRows /\ packagesPage' = 1
    /\ failedRepos' = NoRows
    /\ sent' = Append(sent, Ask("search", s, 1))
    /\ left' = FALSE
    /\ UNCHANGED <<stage, searchId, leaked, broken, reordered, torn>>

\* Mistake: loadPackages asks although there is no search yet.
TurnPageRegardless(p) ==
    /\ Event /\ Len(sent) < MaxInFlight
    /\ packagesPage' = p
    /\ sent' = Append(sent, Ask("page", searchId, p))
    /\ UNCHANGED <<stage, searchId, searchStatus, packages, failedRepos, timer, leaked,
                   wanted, hasty, left, broken, reordered, torn>>

\* loadPackages: the number of the page changes at once.
TurnPage(p) ==
    /\ Event /\ Len(sent) < MaxInFlight
    /\ packagesPage' = p
    /\ sent' = IF searchId = None THEN sent
               ELSE Append(sent, Ask("page", searchId, p))
    /\ UNCHANGED <<stage, searchId, searchStatus, packages, failedRepos, timer, leaked,
                   wanted, hasty, left, broken, reordered, torn>>

\* The list of projects stops the polling, and the way back does not resume it.
OpenProjects ==
    /\ Event
    /\ left' = TRUE
    /\ StopPolling
    /\ UNCHANGED <<stage, sent, searchId, searchStatus, packages, packagesPage,
                   failedRepos, leaked, wanted, hasty, broken, reordered, torn>>

\* An interval fires: pollResults asks for the page in view.
Tick ==
    /\ timer \/ leaked > 0
    /\ Len(sent) < MaxInFlight
    /\ sent' = Append(sent, Ask("packages", searchId, packagesPage))
    /\ UNCHANGED <<stage, pageVars, historyVars, reordered, torn>>

\* The answer to request i is applied.
Apply(i, kind) ==
    /\ sent[i].kind = kind /\ sent[i].reply \in Stage
    /\ reordered' = (reordered \/ i > 1)
    /\ UNCHANGED <<stage, historyVars, torn>>

\* A second setInterval overwrites the name of the first.
SearchStarted(i) ==
    /\ Apply(i, "search")
    /\ searchId' = sent[i].search
    /\ timer' = TRUE
    /\ leaked' = IF timer THEN leaked + 1 ELSE leaked
    /\ sent' = Append(Without(i), Ask("packages", sent[i].search, packagesPage))
    /\ UNCHANGED <<searchStatus, packages, packagesPage, failedRepos>>

\* What the answer to request i brings, as it was at stage s.
Answered(i, s) == [search |-> sent[i].search, page |-> sent[i].page, stage |-> s]

\* Mistake: the polling stops at the rows of any answer.
PolledOnce(i) ==
    /\ Apply(i, "packages")
    /\ searchStatus' = sent[i].reply
    /\ packages' = Answered(i, sent[i].rows) /\ packagesPage' = sent[i].page
    /\ StopPolling
    /\ sent' = Append(Without(i), Ask("failed", searchId, 1))
    /\ UNCHANGED <<searchId, failedRepos, leaked>>

\* Mistake: the polling goes on after the search is completed.
PolledOn(i) ==
    /\ Apply(i, "packages")
    /\ searchStatus' = sent[i].reply
    /\ packages' = Answered(i, sent[i].rows) /\ packagesPage' = sent[i].page
    /\ sent' = Append(Without(i), Ask("failed", searchId, 1))
    /\ UNCHANGED <<timer, searchId, failedRepos, leaked>>

\* Whatever search the answer is of, it is shown, and may stop the polling.
Polled(i) ==
    /\ Apply(i, "packages")
    /\ searchStatus' = sent[i].reply
    /\ packages' = Answered(i, sent[i].rows) /\ packagesPage' = sent[i].page
    /\ IF sent[i].reply = Completed THEN StopPolling ELSE UNCHANGED timer
    /\ sent' = Append(Without(i), Ask("failed", searchId, 1))
    /\ UNCHANGED <<searchId, failedRepos, leaked>>

FailedLoaded(i) ==
    /\ Apply(i, "failed")
    /\ failedRepos' = Answered(i, sent[i].reply)
    /\ sent' = Without(i)
    /\ UNCHANGED <<searchId, searchStatus, packages, packagesPage, timer, leaked>>

PageLoaded(i) ==
    /\ Apply(i, "page")
    /\ packages' = Answered(i, sent[i].rows) /\ packagesPage' = sent[i].page
    /\ sent' = Without(i)
    /\ UNCHANGED <<searchId, searchStatus, failedRepos, timer, leaked>>

\* A request is lost before or after the server has worked on it, or answered
\* with an error: the page stays as it is, and does not ask again.
RequestFails(i) ==
    /\ Event
    /\ broken' = broken \cup {sent[i].kind}
    /\ sent' = Without(i)
    /\ reordered' = (reordered \/ i > 1)
    /\ UNCHANGED <<stage, pageVars, wanted, hasty, left, torn>>

----------------------------------------------------------------------------
(* The server.                                                             *)

Answer(i, s) ==
    /\ sent[i].reply = Unanswered
    /\ sent' = [sent EXCEPT ![i].reply = s]
    /\ reordered' = (reordered \/ \E j \in 1..(i - 1) : sent[j].reply = Unanswered)
    /\ UNCHANGED <<pageVars, historyVars>>

\* StartSearch on the server: a search that is known is only joined.
SearchPackages(i) ==
    /\ sent[i].kind = "search"
    /\ Answer(i, 0)
    /\ stage' = [stage EXCEPT ![sent[i].search] = IF @ = 0 THEN 1 ELSE @]
    /\ UNCHANGED torn

\* GetPackagesBySearch reads the rows first ...
FindDependencies(i) ==
    /\ sent[i].kind \in {"packages", "page"} /\ sent[i].rows = Unanswered
    /\ sent' = [sent EXCEPT ![i].rows = stage[sent[i].search]]
    /\ UNCHANGED <<stage, pageVars, historyVars, reordered, torn>>

\* ... and then the status.
GetPackagesBySearch(i) ==
    /\ sent[i].kind \in {"packages", "page"} /\ sent[i].rows # Unanswered
    /\ Answer(i, stage[sent[i].search])
    /\ torn' = (torn \/ (sent[i].rows # Completed /\ stage[sent[i].search] = Completed))
    /\ UNCHANGED stage

GetFailedRepositories(i) ==
    /\ sent[i].kind = "failed"
    /\ Answer(i, stage[sent[i].search])
    /\ UNCHANGED <<stage, torn>>

\* Workers take a search that was started to its completion.
Progress(s) ==
    /\ stage[s] \in 1..(Completed - 1)
    /\ stage' = [stage EXCEPT ![s] = @ + 1]
    /\ UNCHANGED <<sent, pageVars, historyVars, reordered, torn>>

----------------------------------------------------------------------------

Script(i) ==
    \/ SearchStarted(i) \/ Polled(i) \/ FailedLoaded(i) \/ PageLoaded(i)
Server(i) ==
    \/ SearchPackages(i) \/ FindDependencies(i) \/ GetPackagesBySearch(i)
    \/ GetFailedRepositories(i)
User ==
    \/ \E s \in Search : StartSearch(s)
    \/ \E p \in Page : TurnPage(p)
    \/ OpenProjects
Reply == \E i \in 1..Len(sent) : Script(i) \/ Server(i)

Next ==
    \/ User \/ Tick \/ Reply
    \/ \E i \in 1..Len(sent) : RequestFails(i)
    \/ \E s \in Search : Progress(s)

Spec == Init /\ [][Next]_vars

\* The browser fires its intervals and applies what has come in, the server
\* answers, the workers work.  The user need not come back.
Fairness ==
    /\ WF_vars(Tick) /\ WF_vars(sent # << >> /\ (Script(1) \/ Server(1)))
    /\ \A s \in Search : WF_vars(Progress(s))
FairSpec == Spec /\ Fairness

----------------------------------------------------------------------------
(* What the page promises.                                                 *)

\* The script never loses the name of a running interval, whatever searches
\* follow one another, unless one is asked for while the id of the last is
\* still on its way: only then does an interval outlive stopPolling.
OneInterval == leaked > 0 => hasty

\* Nothing is on its way, and nothing will ask again.
Quiet == sent = << >> /\ ~timer /\ leaked = 0

\* A page that has come to rest shows the completed search that the user asked
\* for last: its status, rows of the page in view and the final list of
\* failures, also when polls of it failed.  It takes a network that keeps the
\* order and no other failed request, neither of which the script can tell,
\* and a user who stays on the page and waits for the id of a search before
\* asking for another: a poll of the search before may else stop the interval
\* of the last one, and the page rests on a search that goes on.  The rows are
\* the final ones too unless a search was completed between the two reads of
\* an answer: the page stops at such an answer, whose rows may lack the last.
FinalIsShown ==
    Quiet /\ wanted # None /\ ~hasty /\ ~left /\ ~reordered
          /\ broken \subseteq {"packages"} =>
        /\ searchStatus = Completed
        /\ packages.search = wanted /\ packages.page = packagesPage
        /\ ~torn => packages.stage = Completed
        /\ failedRepos = [search |-> wanted, page |-> 1, stage |-> Completed]

\* The polling comes to an end, in any order of the answers and whatever
\* fails, unless an interval was lost to a hasty user.
PollingStops == <>[](hasty \/ (~timer /\ leaked = 0))

=============================================================================
