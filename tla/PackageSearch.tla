--------------------------- MODULE PackageSearch ---------------------------
(***************************************************************************)
(* A package search from the request that starts it to the last branch a   *)
(* worker scans for it.  Requests run Service.StartSearch in the API       *)
(* process; workers run SearchProcessingJob.Execute, which delegates to    *)
(* Service.ProcessProject, in any number of worker processes.  They share  *)
(* the Redis keys of SearchStorage and two MySQL tables, and nothing else: *)
(* every round trip to either is one step here, and everything a handler   *)
(* remembers between two round trips is in its control state.              *)
(*                                                                         *)
(* GitLab and the projects in MySQL are constants: what the project table  *)
(* lists and which branches contain a package do not change during a run.  *)
(***************************************************************************)
EXTENDS SearchStorage

CONSTANTS
    Request,      \* calls of StartSearch
    Worker,       \* worker processes
    Package,      \* package types and names
    PkgOf,        \* the package a search asks for: searches of one package
                  \* differ in the version only
    Catalog,      \* the listed projects in row order, each the sequence of
                  \* its branches
    PageSize,     \* projects per page (50 in the code)
    Contains,     \* <<p, b>>: the manifests of branch b name package p
    KnownDeps,    \* the dependencies MySQL holds at the start
    MaxFaults,    \* bound on failures of a process, a call or a connection
    MaxExpiries   \* bound on keys that Redis drops

ASSUME PkgOfAssumption == PkgOf \in [SearchID -> Package]
ASSUME CatalogAssumption == Catalog \in Seq(Seq(Branch))
\* The ids of branches are the primary key of project_branches.
ASSUME BranchesAreDistinct ==
    \A i, j \in 1..Len(Catalog) :
        \A k \in 1..Len(Catalog[i]), l \in 1..Len(Catalog[j]) :
            Catalog[i][k] = Catalog[j][l] => i = j /\ k = l
ASSUME PageSizeAssumption == PageSize \in Nat \ {0}
ASSUME ContainsAssumption == Contains \subseteq Package \X Branch
ASSUME KnownDepsAssumption == KnownDeps \subseteq Contains
ASSUME BoundsAssumption == MaxFaults \in Nat /\ MaxExpiries \in Nat

VARIABLES
    packages,   \* MySQL: rows of table packages
    deps,       \* MySQL: rows of project_dependencies, as <<package, branch>>
    rpc,        \* where each request is in StartSearch
    rsid,       \* the search it starts
    rpage,      \* the page it reads next
    rtodo,      \* projects of the page in hand it has still to push
    wpc,        \* where each worker is in Execute or ProcessProject
    wsid,       \* the search it works for
    witem,      \* the branch it has taken from the queue
    handled,    \* history: branches whose outcome a worker settled
    faults,     \* failures so far
    expiries    \* expired keys so far

dbVars == <<packages, deps>>
requestVars == <<rpc, rsid, rpage, rtodo>>
workerVars == <<wpc, wsid, witem>>
budgetVars == <<faults, expiries>>
vars == <<storageVars, dbVars, requestVars, workerVars, handled, budgetVars>>

None == 0

\* The two returns of a search id that this request owns are "cached" and
\* "listed"; "joined" returns the id of a search somebody else has claimed.
Returned == {"joined", "cached", "listed", "error"}
\* Claimed by the request and not yet visible to the workers.
Unpublished == {"lookup", "cached_add", "page", "push", "enqueue"}
Owning == Unpublished \cup {"cached_complete"}
RequestPC == {"idle", "acquire"} \cup Owning \cup Returned

InProcessProject == {"scan", "lookup", "create", "attach", "report"}
Holding == {"status", "mark"} \cup InProcessProject
WorkerPC == {"poll", "details", "pop", "complete"} \cup Holding

TypeOK ==
    /\ StorageTypeOK
    /\ packages \subseteq Package
    /\ deps \subseteq Package \X Branch
    /\ rpc \in [Request -> RequestPC]
    /\ rsid \in [Request -> SearchID \cup {None}]
    /\ \A r \in Request : rpc[r] # "idle" => rsid[r] \in SearchID
    /\ rpage \in [Request -> Nat \ {0}]
    /\ rtodo \in [Request -> Seq(Seq(Branch))]
    /\ \A r \in Request : rpc[r] = "push" => rtodo[r] # << >>
    /\ wpc \in [Worker -> WorkerPC]
    /\ wsid \in [Worker -> SearchID \cup {None}]
    /\ \A w \in Worker : wpc[w] # "poll" => wsid[w] \in SearchID
    /\ witem \in [Worker -> Branch \cup {None}]
    /\ \A w \in Worker : wpc[w] \in Holding => witem[w] \in Branch
    /\ handled \in [SearchID -> SUBSET Branch]
    /\ faults \in 0..MaxFaults
    /\ expiries \in 0..MaxExpiries

Init ==
    /\ StorageInit
    /\ packages = {d[1] : d \in KnownDeps}
    /\ deps = KnownDeps
    /\ rpc = [r \in Request |-> "idle"]
    /\ rsid = [r \in Request |-> None]
    /\ rpage = [r \in Request |-> 1]
    /\ rtodo = [r \in Request |-> << >>]
    /\ wpc = [w \in Worker |-> "poll"]
    /\ wsid = [w \in Worker |-> None]
    /\ witem = [w \in Worker |-> None]
    /\ handled = [s \in SearchID |-> {}]
    /\ faults = 0
    /\ expiries = 0

----------------------------------------------------------------------------
(* StartSearch.                                                            *)

ReqStep(r, from, to) ==
    /\ rpc[r] = from
    /\ rpc' = [rpc EXCEPT ![r] = to]

NoWorker == UNCHANGED <<workerVars, handled>>

\* A client asks for a search; the checks of type and query write nothing.
Arrive(r, s) ==
    /\ ReqStep(r, "idle", "acquire")
    /\ rsid' = [rsid EXCEPT ![r] = s]
    /\ UNCHANGED <<rpage, rtodo, storageVars, dbVars, budgetVars>> /\ NoWorker

Acquire(r) ==
    /\ ReqStep(r, "acquire", IF CanAcquire(rsid[r]) THEN "lookup" ELSE "joined")
    /\ AcquireSearch(rsid[r])
    /\ UNCHANGED <<rsid, rpage, rtodo, dbVars, budgetVars>> /\ NoWorker

\* deps.Total > 0 for the package of the search, whatever the version.
HasResults(s) == \E b \in Branch : <<PkgOf[s], b>> \in deps

FindDependencies(r) ==
    /\ ReqStep(r, "lookup", IF HasResults(rsid[r]) THEN "cached_add" ELSE "page")
    /\ UNCHANGED <<rsid, rpage, rtodo, storageVars, dbVars, budgetVars>>
    /\ NoWorker

AddCached(r) ==
    /\ ReqStep(r, "cached_add", "cached_complete")
    /\ AddSearchToQueue(rsid[r])
    /\ UNCHANGED <<rsid, rpage, rtodo, dbVars, budgetVars>> /\ NoWorker

CompleteCached(r) ==
    /\ ReqStep(r, "cached_complete", "cached")
    /\ CompleteSearch(rsid[r])
    /\ UNCHANGED <<rsid, rpage, rtodo, dbVars, budgetVars>> /\ NoWorker

\* Mistake: LIMIT PageSize + 1 at the same offset.
PageOfOneMore(page) ==
    LET last == page * PageSize + 1
    IN SubSeq(Catalog, last - PageSize,
              IF last < Len(Catalog) THEN last ELSE Len(Catalog))

\* LIMIT PageSize OFFSET (page - 1) * PageSize over the listed projects.
PageOf(page) ==
    LET last == page * PageSize
    IN SubSeq(Catalog, last - PageSize + 1,
              IF last < Len(Catalog) THEN last ELSE Len(Catalog))

\* Mistake: the empty page does not end the loop.
ReadPageForever(r) ==
    /\ ReqStep(r, "page", "push")
    /\ rtodo' = [rtodo EXCEPT ![r] = PageOf(rpage[r])]
    /\ UNCHANGED <<rsid, rpage, storageVars, dbVars, budgetVars>> /\ NoWorker

ReadPage(r) ==
    LET projects == PageOf(rpage[r])
    IN /\ ReqStep(r, "page", IF projects = << >> THEN "enqueue" ELSE "push")
       /\ rtodo' = [rtodo EXCEPT ![r] = projects]
       /\ UNCHANGED <<rsid, rpage, storageVars, dbVars, budgetVars>> /\ NoWorker

\* What follows a project of the page in hand, pushed or skipped.
NextProject(r) ==
    /\ ReqStep(r, "push", IF Tail(rtodo[r]) = << >> THEN "page" ELSE "push")
    /\ rtodo' = [rtodo EXCEPT ![r] = Tail(@)]
    /\ rpage' = [rpage EXCEPT ![r] = IF Tail(rtodo[r]) = << >> THEN @ + 1 ELSE @]
    /\ UNCHANGED rsid

PushProject(r) ==
    /\ NextProject(r)
    /\ AddProjectsToQueue(rsid[r], Head(rtodo[r]))
    /\ UNCHANGED <<dbVars, budgetVars>> /\ NoWorker

Enqueue(r) ==
    /\ ReqStep(r, "enqueue", "listed")
    /\ AddSearchToQueue(rsid[r])
    /\ UNCHANGED <<rsid, rpage, rtodo, dbVars, budgetVars>> /\ NoWorker

RequestStep(r) ==
    \/ Acquire(r) \/ FindDependencies(r) \/ AddCached(r) \/ CompleteCached(r)
    \/ ReadPage(r) \/ PushProject(r) \/ Enqueue(r)

----------------------------------------------------------------------------
(* SearchProcessingJob.Execute.                                            *)

WorkStep(w, from, to) ==
    /\ wpc[w] = from
    /\ wpc' = [wpc EXCEPT ![w] = to]

\* Execute returns, and the worker loop calls it again with nothing in hand.
Return(w) ==
    /\ wpc' = [wpc EXCEPT ![w] = "poll"]
    /\ wsid' = [wsid EXCEPT ![w] = None]
    /\ witem' = [witem EXCEPT ![w] = None]

NoRequest == UNCHANGED requestVars

PeekSearch(w) ==
    /\ WorkStep(w, "poll", "details")
    /\ \E s \in SearchID : Highest(s) /\ wsid' = [wsid EXCEPT ![w] = s]
    /\ UNCHANGED <<witem, handled, storageVars, dbVars, budgetVars>> /\ NoRequest

\* An empty sorted set makes the job sleep, and poll again.
PollNothing(w) ==
    /\ wpc[w] = "poll" /\ Queued = {}
    /\ UNCHANGED vars

GetDetails(w) ==
    /\ WorkStep(w, "details", "pop")
    /\ HasDetails(wsid[w])
    /\ UNCHANGED <<wsid, witem, handled, storageVars, dbVars, budgetVars>>
    /\ NoRequest

\* "search not found" or "missing required field": Execute returns the error
\* and leaves the sorted set as it is.
DetailsMissing(w) ==
    /\ wpc[w] = "details" /\ ~HasDetails(wsid[w])
    /\ Return(w)
    /\ UNCHANGED <<handled, storageVars, dbVars, budgetVars>> /\ NoRequest

TakeProject(w) ==
    /\ WorkStep(w, "pop", "status")
    /\ GetProjectFromQueue(wsid[w])
    /\ witem' = [witem EXCEPT ![w] = Head(queue[wsid[w]])]
    /\ UNCHANGED <<wsid, handled, dbVars, budgetVars>> /\ NoRequest

\* Mistake: a queue of one is taken for empty.
OneProjectLeft(w) ==
    /\ WorkStep(w, "pop", "complete")
    /\ Len(queue[wsid[w]]) <= 1
    /\ UNCHANGED <<wsid, witem, handled, storageVars, dbVars, budgetVars>>
    /\ NoRequest

NoProjectLeft(w) ==
    /\ WorkStep(w, "pop", "complete")
    /\ queue[wsid[w]] = << >>
    /\ UNCHANGED <<wsid, witem, handled, storageVars, dbVars, budgetVars>>
    /\ NoRequest

Complete(w) ==
    /\ wpc[w] = "complete"
    /\ Return(w)
    /\ CompleteSearch(wsid[w])
    /\ UNCHANGED <<handled, dbVars, budgetVars>> /\ NoRequest

ReadStatus(w) ==
    /\ WorkStep(w, "status",
                IF status[wsid[w]] = "pending" THEN "mark" ELSE "scan")
    /\ UNCHANGED <<wsid, witem, handled, storageVars, dbVars, budgetVars>>
    /\ NoRequest

MarkProcessing(w) ==
    /\ WorkStep(w, "mark", "scan")
    /\ UpdateSearchStatus(wsid[w], "processing")
    /\ UNCHANGED <<wsid, witem, handled, dbVars, budgetVars>> /\ NoRequest

----------------------------------------------------------------------------
(* Service.ProcessProject, for the one branch a queue item carries.        *)

\* The branch is settled: scanned without a match, attached, or reported.
Settle(w) ==
    /\ Return(w)
    /\ handled' = [handled EXCEPT ![wsid[w]] = @ \cup {witem[w]}]

\* No dependency files, or none that names the package.
ScanNothing(w) ==
    /\ wpc[w] = "scan" /\ <<PkgOf[wsid[w]], witem[w]>> \notin Contains
    /\ Settle(w)
    /\ UNCHANGED <<storageVars, dbVars, budgetVars>> /\ NoRequest

ScanFinds(w) ==
    /\ WorkStep(w, "scan", "lookup")
    /\ <<PkgOf[wsid[w]], witem[w]>> \in Contains
    /\ UNCHANGED <<wsid, witem, handled, storageVars, dbVars, budgetVars>>
    /\ NoRequest

\* Mistake: always create.
LookupNothing(w) ==
    /\ WorkStep(w, "lookup", "create")
    /\ UNCHANGED <<wsid, witem, handled, storageVars, dbVars, budgetVars>>
    /\ NoRequest

LookupPackage(w) ==
    /\ WorkStep(w, "lookup",
                IF PkgOf[wsid[w]] \in packages THEN "attach" ELSE "create")
    /\ UNCHANGED <<wsid, witem, handled, storageVars, dbVars, budgetVars>>
    /\ NoRequest

\* Mistake: return after the insert instead of going on to attach.
CreateAndReturn(w) ==
    /\ wpc[w] = "create"
    /\ Settle(w)
    /\ packages' = packages \cup {PkgOf[wsid[w]]}
    /\ UNCHANGED <<storageVars, deps, budgetVars>> /\ NoRequest

\* The row's unique key refuses a package that has been created since.
CreatePackage(w) ==
    LET p == PkgOf[wsid[w]]
    IN /\ WorkStep(w, "create", IF p \in packages THEN "report" ELSE "attach")
       /\ packages' = packages \cup {p}
       /\ UNCHANGED <<wsid, witem, handled, storageVars, deps, budgetVars>>
       /\ NoRequest

AttachPackage(w) ==
    /\ wpc[w] = "attach"
    /\ Settle(w)
    /\ deps' = deps \cup {<<PkgOf[wsid[w]], witem[w]>>}
    /\ UNCHANGED <<storageVars, packages, budgetVars>> /\ NoRequest

ReportFailure(w) ==
    /\ wpc[w] = "report"
    /\ Settle(w)
    /\ AddFailedRepository(wsid[w], witem[w])
    /\ UNCHANGED <<dbVars, budgetVars>> /\ NoRequest

WorkerStep(w) ==
    \/ PeekSearch(w) \/ PollNothing(w) \/ GetDetails(w) \/ DetailsMissing(w)
    \/ TakeProject(w) \/ NoProjectLeft(w) \/ Complete(w)
    \/ ReadStatus(w) \/ MarkProcessing(w)
    \/ ScanNothing(w) \/ ScanFinds(w) \/ LookupPackage(w) \/ CreatePackage(w)
    \/ AttachPackage(w) \/ ReportFailure(w)

----------------------------------------------------------------------------
(* Failures.  A call that fails, a panic, a cancelled context and a crash  *)
(* between two round trips all end a handler at the step it was about to   *)
(* take; where the code goes on after an error, that is an action here.    *)

Fault ==
    /\ faults < MaxFaults
    /\ faults' = faults + 1
    /\ UNCHANGED expiries

RequestDies(r) ==
    /\ Fault
    /\ rpc[r] \in {"acquire"} \cup Owning
    /\ rpc' = [rpc EXCEPT ![r] = "error"]
    /\ UNCHANGED <<rsid, rpage, rtodo, storageVars, dbVars>> /\ NoWorker

\* A transaction is executed and its reply lost.  The client library sends a
\* single command again, but no MULTI/EXEC: the request is given an error for
\* what has been done.
ReplyLost(r) ==
    /\ Fault
    /\ \/ rpc[r] = "acquire" /\ AcquireSearch(rsid[r])
       \/ rpc[r] \in {"cached_add", "enqueue"} /\ AddSearchToQueue(rsid[r])
       \/ rpc[r] = "cached_complete" /\ CompleteSearch(rsid[r])
    /\ rpc' = [rpc EXCEPT ![r] = "error"]
    /\ UNCHANGED <<rsid, rpage, rtodo, dbVars>> /\ NoWorker

\* err # nil: StartSearch takes the package for unknown and scans.
FindDependenciesFails(r) ==
    /\ Fault
    /\ ReqStep(r, "lookup", "page")
    /\ UNCHANGED <<rsid, rpage, rtodo, storageVars, dbVars>> /\ NoWorker

\* The error is logged and the project skipped.  (If only the reply is lost,
\* its branches are in the list, as after PushProject.)
PushFails(r) ==
    /\ Fault
    /\ NextProject(r)
    /\ UNCHANGED <<storageVars, dbVars>> /\ NoWorker

\* Execute begins anew after an error or a panic, and after a crash in a new
\* process.  Death at "report" is also an AddFailedRepository that fails: its
\* result is not looked at.  (A CompleteSearch whose reply is lost is Complete.)
WorkerDies(w) ==
    /\ Fault
    /\ wpc[w] # "poll"
    /\ Return(w)
    /\ UNCHANGED <<handled, storageVars, dbVars>> /\ NoRequest

\* The reply to RPOP, a single command, is lost and the pop is sent again.
TakeRetried(w) ==
    /\ Fault
    /\ wpc[w] = "pop"
    /\ GetProjectFromQueue(wsid[w])
    /\ UNCHANGED <<workerVars, handled, dbVars>> /\ NoRequest

\* The error is logged and the branch scanned all the same.
MarkFails(w) ==
    /\ Fault
    /\ WorkStep(w, "mark", "scan")
    /\ UNCHANGED <<wsid, witem, handled, storageVars, dbVars>> /\ NoRequest

\* GitLab, the parser or MySQL fails: the branch is to be reported.
ProcessFails(w) ==
    /\ Fault
    /\ wpc[w] \in InProcessProject \ {"report"}
    /\ wpc' = [wpc EXCEPT ![w] = "report"]
    /\ UNCHANGED <<wsid, witem, handled, storageVars, dbVars>> /\ NoRequest

RequestFault(r) ==
    \/ RequestDies(r) \/ ReplyLost(r) \/ FindDependenciesFails(r) \/ PushFails(r)

WorkerFault(w) ==
    \/ WorkerDies(w) \/ TakeRetried(w) \/ MarkFails(w)
    \/ ProcessFails(w)

\* A request is answered in far less than the 24 hours its keys live, so the
\* keys it has just written do not expire under it.
Claimed(s) == \E r \in Request : rsid[r] = s /\ rpc[r] \in Owning

Expire(s) ==
    /\ expiries < MaxExpiries
    /\ expiries' = expiries + 1
    /\ ~Claimed(s)
    /\ ExpireHash(s) \/ ExpireQueue(s)
    /\ UNCHANGED <<dbVars, faults>> /\ NoRequest /\ NoWorker

----------------------------------------------------------------------------

Next ==
    \/ \E r \in Request, s \in SearchID : Arrive(r, s)
    \/ \E r \in Request : RequestStep(r) \/ RequestFault(r)
    \/ \E w \in Worker : WorkerStep(w) \/ WorkerFault(w)
    \/ \E s \in SearchID : Expire(s)

Spec == Init /\ [][Next]_vars

\* The HTTP server runs every handler to its end, and Worker.processJobs
\* calls Execute again and again.  No client has to come, nothing has to fail.
Fairness ==
    /\ \A r \in Request : WF_vars(RequestStep(r))
    /\ \A w \in Worker : WF_vars(WorkerStep(w))

FairSpec == Spec /\ Fairness

----------------------------------------------------------------------------
(* What a search promises.                                                 *)

AllBranches == UNION {{Catalog[i][j] : j \in 1..Len(Catalog[i])} :
                        i \in 1..Len(Catalog)}
Working(w, s) == wpc[w] # "poll" /\ wsid[w] = s
InHand(s) == {witem[w] : w \in {v \in Worker : Working(v, s) /\ wpc[v] \in Holding}}
Waiting(s) == {queue[s][i] : i \in 1..Len(queue[s])}
Listed(s) == \E r \in Request : rsid[r] = s /\ rpc[r] = "listed"

\* One scan per search: two requests never both own a search, so no branch is
\* queued twice for it ("prevents duplicate scans from concurrent requests").
OneOwner ==
    \A q, r \in Request :
        rpc[q] \in Owning /\ rpc[r] \in Owning /\ rsid[q] = rsid[r] => q = r

\* A worker never meets a half listed search: what the sorted set holds has
\* its details, and no request still pushes branches for it.  (CompleteSearch
\* would finish it between two pages.)
QueuedAfterListing ==
    expiries = 0 =>
        \A s \in Queued :
            /\ HasDetails(s)
            /\ \A r \in Request : rsid[r] = s => rpc[r] \notin Unpublished

\* A search is completed over an empty queue only, and leaves the sorted set
\* with it, however many workers race to complete it.
CompletedIsDrained ==
    expiries = 0 =>
        \A s \in SearchID : status[s] = "completed" =>
            score[s] = 0 /\ queue[s] = << >>

\* Without failures each branch of a search that went through listing is at
\* exactly one place: waiting, in one worker's hand, or settled.
EveryBranchOnce ==
    faults = 0 /\ expiries = 0 =>
        \A s \in SearchID : Listed(s) =>
            /\ Waiting(s) \cup InHand(s) \cup handled[s] = AllBranches
            /\ Cardinality(AllBranches) =
                    Len(queue[s]) + Cardinality(handled[s])
                    + Cardinality({w \in Worker : Working(w, s)
                                                /\ wpc[w] \in Holding})

\* What a failure may cost a search at most: the branches of one project.
Widest == CHOOSE n \in {Len(Catalog[i]) : i \in 1..Len(Catalog)} \cup {0} :
              \A i \in 1..Len(Catalog) : Len(Catalog[i]) <= n

\* What a completed search shows is all there is: each branch that names the
\* package has its dependency attached or is in the list of failures.
CompletedIsComplete ==
    \A s \in SearchID : status[s] = "completed" =>
        \A b \in AllBranches : <<PkgOf[s], b>> \in Contains =>
            <<PkgOf[s], b>> \in deps \/ b \in failed[s]

\* Where nothing failed no repository is reported as failed ("Get or create
\* package in DB").
NoSpuriousFailure == faults = 0 => \A s \in SearchID : failed[s] = {}

\* The status a client polls goes pending, processing, completed and does not
\* go back.
Rank == [v \in Status |-> CASE v = Absent -> 0 [] v = "pending" -> 1
                              [] v = "processing" -> 2 [] OTHER -> 3]
StatusNeverRegresses ==
    [][expiries' = 0 => \A s \in SearchID : Rank[status[s]] <= Rank[status'[s]]]_vars

\* "Another request already owns this search (or it's still cached)": a
\* request that does not acquire its search joins one that is being started,
\* is queued, or is completed.  One worker and no failure keep it so.
Served(s) == Claimed(s) \/ score[s] > 0 \/ status[s] = "completed"
JoinedIsServed ==
    [][\A r \in Request :
            rpc[r] = "acquire" /\ rpc'[r] = "joined" => Served(rsid[r])]_vars

\* Lists live as long as hashes, so a search whose hash is gone has no queue
\* left either, and its next scan does not begin with leftovers.
QueueNeverOutlivesHash ==
    faults = 0 =>
        \A s \in SearchID : status[s] = Absent => queue[s] = << >>

\* Every branch of a listed search is settled, if nothing fails.
ListedIsSettled ==
    \A s \in SearchID : Listed(s) ~> handled[s] = AllBranches

\* A search in the sorted set leaves it, whatever failed before.
QueuedLeaves == \A s \in SearchID : score[s] > 0 ~> score[s] = 0

\* With keys expiring too, nothing but a head of the sorted set whose hash is
\* gone keeps a search in it (GetSearchFromQueue returns an error for such a
\* head, and looks no further).
HeadExpired == \E s \in SearchID : Highest(s) /\ ~HasDetails(s)
OnlyExpiredHeadBlocks ==
    \A s \in SearchID : score[s] > 0 ~> score[s] = 0 \/ HeadExpired

=============================================================================
