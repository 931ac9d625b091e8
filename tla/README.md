# GitLab Package Finder in TLA+

The program answers "which of our repositories use this package?".  It lists
the projects of a GitLab instance into MySQL, and when somebody searches for a
package it queues every branch of every project in Redis; workers take branches
from the queue, read their manifests from GitLab, and write what they find to
MySQL.  The browser polls the search until it is completed.

This directory holds a specification of that system, the TLC runs that check it
on small instances, and proofs of its main safety properties.  Paths below are
relative to `src/` of the repository.

## The system

| Component | State | Operations | What makes it correct |
|---|---|---|---|
| Search storage `internal/adapters/redis/packagesearch` | per search a hash (status, type, name, version), a list of branches, a list of failures; one sorted set of searches to run; times to live | AcquireSearch, AddSearchToQueue, AddProjectsToQueue, GetSearchFromQueue, GetProjectFromQueue, UpdateSearchStatus, CompleteSearch, AddFailedRepository, and reads | each method is one command or one MULTI/EXEC, so it takes effect at once; a claim is given once; lists do not outlive hashes |
| Search service `internal/services/search` | none of its own | StartSearch (API process), ProcessProject (worker process) | one scan per search; workers see a search only when it is fully listed; no branch is scanned twice or forgotten |
| Search processing job `internal/jobs/search_processing.go` | none; what it read last | Execute: pick a search, pop a branch, mark, process, or complete | completes over an empty queue only; the status advances; everything listed is settled |
| Worker `internal/worker` | a wait group, a context | Run, processJobs, awaitShutdown | runs the job again whatever happened; stops when told, at what cost |
| Processes `cmd/*`, `docker-compose.yaml` | up, stopping, down | start, signal, graceful and forced exit, restart | a deployment orphans no search and loses no more than what was in hand |
| File finder and package managers `internal/adapters/gitlab`, `internal/domain/packagemanager` | the locals of a loop over pages and files | FindDependencyFiles, ParseDependency of composer, go, npm | the best manifest and lock file win wherever they come in the answer; a dependency is of this package |
| Package type cache `internal/adapters/cache/packagetype` | a map with times to live | GetByName | a name never gives another name's row |
| Projects sync `internal/command/projectssync`, `internal/services/project` | a semaphore of two, a wait group | Execute, checkProjectsChunk, UpsertWithDefaultBranch, SyncPackageTypes; CreateBranch, DeleteBranch, DeleteProject | every project is stored with its types in the end, one row per branch, no slot or goroutine is left behind |
| MySQL repositories `internal/adapters/mysql` | tables projects, project_branches, project_package_types, packages, project_dependencies | paged listings, get and create, upsert of dependencies, count, cursor | unique keys; what pages over changing tables skip or repeat is bounded; ids and names of branches stay paired |
| Package service `internal/services/packagesvc` | none | GetPackagesBySearch: status, details, page, queue length, status again | an answer that says "finished" contains everything; pages partition the results |
| HTTP API, web UI `internal/app/api/http`, `public/index.html` | the page: search, status, rows, an interval | search, poll every second, turn pages, list failures | polling ends, one interval at a time, and a page at rest shows the final results of the search asked for last |

How they interact: the API process calls `StartSearch`, which writes Redis and
reads MySQL.  Worker processes run `Execute`, which reads and writes both.
There is no message between a request and a worker other than the Redis keys,
and inside a process only the cache of package types is shared.  The sync
process writes the project tables that `StartSearch` lists.  The API also
deletes branches and projects.

What is hard: `StartSearch` and `Execute` are sequences of round trips, with
decisions on what an earlier one answered; any number of each interleave.  RPOP
takes a branch for good, so a crash loses it.  The Redis client repeats a single command
whose reply is lost.  Keys expire one by one, and the sorted set never does.
Listings go page by page over tables that change.  A signal cancels the context
in the middle of a branch.  `PROJECT.json` lists each of these hazards at its
line with the properties that watch it.

## Modules

| Module | Extends | Models |
|---|---|---|
| `SearchStorage` | | the Redis keys, one operator per storage method (one command or transaction, hence one effect) |
| `PackageSearch` | `SearchStorage` | requests in `StartSearch`, workers in `Execute` and `ProcessProject`, the tables `packages` and `project_dependencies`, failures and expiry |
| `Search` | | abstract: what a search promises, without queues, keys and round trips |
| `SearchRefinement` | `PackageSearch` | the mapping under which `PackageSearch` implements `Search` |
| `SearchProcesses` | `PackageSearch` | the processes around it: signals, cancelled contexts, draining, forced exits, restarts |
| `SearchResults` | `PackageSearch` | clients that poll, each call of `GetPackagesBySearch` read by read |
| `BranchScan` | | the step "scan" of `PackageSearch` in full: finder, managers, parsers, cache |
| `ProjectTables` | | the tables of projects, branches and types, one operator per statement |
| `ProjectsSync` | `ProjectTables` | the sync with its goroutines, and API calls that write the same tables |
| `SearchListing` | `ProjectTables` | the listing of `StartSearch`, a worker's use of a queued branch, and a client that leafs through projects, over changing tables |
| `SearchPage` | | the search page of the UI with overlapping polls, and the handlers that answer it |
| `MC...` | the module named | instances for TLC, with their `.cfg` files |
| `PackageSearchProofs`, `SearchProcessesProofs`, `SearchRefinementProofs`, `SearchResultsProofs`, `BranchScanProofs`, `ProjectsSyncProofs`, `SearchListingProofs`, `SearchPageProofs` | the module named; `SearchRefinementProofs` also `PackageSearchProofs`, and both are extended by `SearchProcessesProofs` and `SearchResultsProofs` | theorems |

Operators whose comment begins with "Mistake" are not part of any specification:
each is a definition as a plausible bug would have it, and a property is expected
to fail with it.

### A search: `SearchStorage`, `PackageSearch`

| Variable | Code |
|---|---|
| `status`, `named` | fields `status` and `name` of `search:packages:{id}`; `named` also stands for type and version, written together with it |
| `volatile`, `newest` | whether EXPIRE was set on the hash (HSET alone makes a hash without one), and whether hash or list had it set last, which decides which goes first, both living 24 hours |
| `score` | the member of `search:packages:scores`; each AddSearchToQueue adds 1 |
| `queue`, `failed` | `search:projects:{id}` and `search:failed:repos:{id}` |
| `packages`, `deps` | tables `packages` and `project_dependencies` (which package on which branch; constraint, version and file are in `BranchScan`) |
| `rpc`, `rsid`, `rpage`, `rtodo` | position, `searchID`, `page` and the rest of `projects` in `StartSearch` and `addProjectsToQueue` |
| `wpc`, `wsid`, `witem` | position, `searchID` and `project` (with its one branch) in `Execute` and `ProcessProject` |
| `handled`, `faults`, `expiries` | history and bounds; not in the code |

Each action is one round trip with the branch the handler takes on the answer:
`Acquire` is the call of AcquireSearch and `if !acquired`; `FindDependencies`
is `deps.Total > 0`; `ReadPage`, `PushProject` and `Enqueue` are the listing;
`PeekSearch` and `GetDetails` are the two commands of GetSearchFromQueue, so that
a search can expire between them; `TakeProject` or `NoProjectLeft` is the RPOP;
`ReadStatus` and `MarkProcessing` are the read and the write of the status;
`ScanNothing` .. `ReportFailure` are ProcessProject.  What GitLab answers for a
branch is the constant `Contains`.  A search is a number, ordered as Redis orders
equal scores; `PkgOf` gives its package, and two searches of one package differ in
the version.

Failures are actions of their own.  `RequestDies` and `WorkerDies` end a handler
before any round trip, for an error it returns, a panic or a crash alike.
Where the code goes on after an error there is an action for it:
`FindDependenciesFails` (the error counts as "no results"), `PushFails` (the
project is skipped), `MarkFails`, `ProcessFails` (the branch is reported).
A reply may be lost, too.  Every write of StartSearch is a MULTI/EXEC, which go-redis
does not send again after a read error: `ReplyLost` is such a write that took effect and
ends the request with an error.  The RPOP of the job is a single command, which go-redis
does send again (`MaxRetries` in `internal/app/common.go`): `TakeRetried`.  `Expire` drops a hash or a list, except under a
request that has just written it.

### Processes: `SearchProcesses`

`life[w]` and `api` are the processes of `cmd/searchprocessing` and `cmd/api`.
`SignalWorker` cancels the context of the running `Execute`.  From then on every
call to Redis (`CallCancelled`) and every statement (`StatementCancelled`) returns
its error at once, as go-redis and database/sql do for a context that is done,
while the requests to GitLab go on (`ScanGoesOn`), because `BlobsByProject` is
called without the context.  A call in flight when the signal comes is taken as one that
had ended before it.  `Stopped` is the return of `Run`, `ShutdownTimeout` that of
`awaitShutdown`; `SignalApi`, `Drained` and `DrainTimeout` are `server.Shutdown`,
which waits for active handlers and leaves their contexts alone.

### The scan of a branch: `BranchScan`

`scans` are the branches a worker is to scan, each with the type of its search and
the sequence of blobs GitLab finds.  `read` and `at` are how many blobs have been
fetched and the next file to parse; `constraint`, `resolved`, `source` and `priority`
are the locals of `ParseDependency` with these meanings; `cached` is the package
type cache.  A blob is a file name and three facts about its snippet: `named`, whether the
package's own name stands in it and not only a longer one, `own`, the version beside that
name, and `first`, the first version of all.  Which of them a parser returns is read off
its regular expressions: `parsePnpmLock`, the parser of `go.sum` and the manifest parsers
have the name in their pattern, composer's lock parser asks whether the name is there and
takes the first version, `parsePackageLock` and `parseYarnLock` never ask.  The three loops differ where the code does: npm goes on for a better
rank, composer and go leave at the first pair.

### Tables and listings: `ProjectTables`, `ProjectsSync`, `SearchListing`

| Variable | Code |
|---|---|
| `projects`, `branches`, `types`, `nextID` | tables `projects`, `project_branches`, `project_package_types`, and the AUTO_INCREMENT |
| `listing`, `languages` | GitLab: the projects in the order of its pages, and each one's languages through `languageMap` |
| `spc`, `total`, `page` | position in `processJobs` and `Execute`, `response.TotalPages`, and `i` |
| `slots`, `cancelled` | elements in `semaphore`; `ctx.Done()` |
| `gpc`, `gtodo`, `gtypes` | per page the goroutine's position in `checkProjectsChunk`, the rest of `projects`, and `packageTypeNames` |
| `cpc`, `carg` | position and argument of an API call in `CreateBranch` or `DeleteBranch` |
| `partial`, `broken` | history: projects stored without a type whose lookup failed; projects left without their branch by an error, an exit or a deletion |
| `lpage`, `queue`, `hand`, `deps`, `failed` (of `SearchListing`) | the page `addProjectsToQueue` reads next, what it has pushed, the item a worker holds, its rows and its reports |
| `bpage`, `btotal` | a client of `InternalGetProjects` or `InternalSearchProjects`: its page, and the count it was given before the rows |

In `ProjectsSync`, `Spawn` and `StopSpawning` are the two ends of the `select` on the
semaphore (both may be ready), `WaitForChunks` is `wg.Wait`, `Rested` the interval,
`Finish` the two deferred calls of a goroutine.  `GetProjectLanguages` to `WriteTypes`
are one project's request and statements; `StatementRefused` is a statement under a
cancelled context or on a foreign key, whose error is logged and ends the project.
The requests for the number of pages and for languages do not carry the context,
and here too they go on after a cancellation.  `Signal`, `ShutdownTimeout`, `Crash`
and `Start` are the process.  `NewProject` moves the pages of the listing, as GitLab
lists the newest project first.

In `SearchListing` a page is a window over the rows of the moment.  `Paired` and
`Zipped` are `toDetailedDomain`: the distinct ids and the distinct names of a project's
branches, each in row order, paired by position; `Crowded` and `Items` cut both strings
where GROUP_CONCAT does (`IdLimit` and `NameLimit` stand for its 1024 bytes), and what
is left of a cut id is the number its remaining digits make (`id \div 10` for one digit
lost), which `Atoi` reads without an error.  `AddBranch` is the insert alone: whether the
name was free was asked before, and no key forbids a second row, so the tables may hold two
rows of one name, at the start (`FirstRows`) and later; `Mixed` projects are those.
`stable`, `rows`, `drift` and their like are history: what was there all the time,
and how many projects entered or left the listing.

### What a client sees: `SearchResults`, `SearchPage`

A poll of `SearchResults` is the reads of `GetPackagesBySearch` in their order:
`CheckIfSearchIsRunning`, `ReadDetails` (an error while the search has no name),
then `CountDependencies` and `FindPage` for the two statements of
FindDependencies, or one `FetchBatch` per batch of `findFilteredDependencies`,
then `GetProjectsQueueLength` and `GetSearchStatus`.  `rows` gives the rows of
`deps` the order of their ids; a step of `PackageSearch` that adds to `deps`
appends to it.  `answer[c]` is what the call has read so far and then the
`Result`; its field `since` is history.  A client polls one page of its search,
possibly another page the next time, and stops at status "completed".  The semver
library is the constant `Accepts`.

`SearchPage` is the script of `public/index.html`: `searchId`, `searchStatus`,
`packages`, `packagesPage`, `failedRepos` are its fields, `timer` is the interval that
`pollingTimer` names, `leaked` counts intervals that nothing names any more.  `sent` holds
the requests without an applied answer; a server action answers any of them, a script
action applies the answer of any of them, so that answers overtake each other
(`reordered`).  The server reads the rows of an answer (`FindDependencies`) and later its
status (`GetPackagesBySearch`), so that a search may be completed in between (`torn`); what
the reads of the rows mix among themselves is the subject of `SearchResults`.

## Runs

The instances of `PackageSearch` have three projects over two pages (`Catalog3`: one
without branches, one with two, one with one) or two over two pages (`Catalog2`).
That is an incomplete last page, a page that ends in the middle of pushing, and a
project that pushes nothing; `PageSize` is 2 or 1 instead of 50.

| Run | Instance | Properties |
|---|---|---|
| `workers` | 2 workers, 2 requests, 2 searches, no failures | `TypeOK`, `QueuedAfterListing`, `CompletedIsDrained`, `EveryBranchOnce`, `ListedIsSettled`, `ImplementsSearch` |
| `faults` | 2 workers, 2 requests, 1 search, 1 failure, 1 signal | `OneOwner`, `LossBound`, `DrainedIsServed`, `QueuedLeaves`, `StopEnds` |
| `expiry` | 1 worker, 2 requests, 2 searches, 2 failures, 2 expiries | `QueueNeverOutlivesHash`, `OnlyExpiredHeadBlocks` |
| `polls` | 1 worker, 2 requests, 3 searches (one with a version, one without, one whose results MySQL has), 1 client, pages of 1, batches of 2 over at most 4 rows | `ResultsTypeOK`, `FinishedAnswerIsExact`, `AnswerIsOfAMoment`, `CompletedIsComplete`, `NoSpuriousFailure`, `PollingEnds`, `StatusNeverRegresses` |
| `scan` | all answers of up to 3 blobs in pages of 2, for 3 managers and a type without one, a second branch after it, 1 failure | `TypeOK`, `ResultIsBest`, `FoundIsNamed`, `StoredUnderItsType`, `EveryBranchAnswered` |
| `listing` | 5 projects, 5 rows of branches, two of them of one name, pages of 2, room for 2 ids and 3 names, 3 statements by others | `TypeOK`, `SearchDrifts`, `ClientDrifts`, `QueuedUnlessCut`, `AttachedWhereFound`, `OnlyGoneFail` |
| `page` | 2 searches, 2 pages, up to 2 requests in flight, 3 actions of the user or failures | `TypeOK`, `OneInterval`, `FinalIsShown`, `PollingStops` |
| `sync` | 4 projects, 3 listed at first on 2 pages, 2 goroutines, 1 API call, 1 change, signal or failure | `TypeOK`, `UniqueUnlessRaced`, `NeverHidden`, `SyncedInTheEnd`, `SignalEnds` |
| `regress` | 2 workers | violates `StatusNeverRegresses` |
| `versions` | two searches for one package | violates `CompletedIsComplete` |
| `orphan` | 1 failure | violates `JoinedIsServed` |
| `last_rows` | 1 search, 1 client | violates `CompletedAnswerIsExact` |

Why the bounds are enough for the cases that matter:

- `workers`: two workers race to pop, to mark and to complete, two requests to claim;
  two searches give the sorted set an order.
- `faults`: one failure and one signal fall at every point, also between each other
  (`ShutdownTimeout` and `DrainTimeout` are failures, so a forced exit is among them);
  `LossBound` then allows the branches of one project and one branch more.
- `expiry`: two expiries, so that hash and list of one search, or the hashes of two, go.
- `polls`: a full batch, one that is not, an empty last one, a page that is skipped in
  one batch and filled in the next, and a row that arrives between two reads.
- `scan`: every pair of lock files in either order and with either parse, on one page
  and on two, with a manifest before, between and after; a snippet may name the package and
  show only another version, or only a longer name; the second branch meets the
  cache that the first one left, or one that expired.
- `listing`: three statements are enough to move a page boundary, to delete a branch that
  is queued or in hand and to create it anew, to crowd a project (the id of its third
  branch is cut to that of another project's), and to double a name or to add one behind a
  doubled one, which then gets the wrong id.
- `page`: a search, and two of these: a second one while polls of the first are on their
  way, a turned page, a failure, the other tab; two requests overtake each other, and a
  search is completed between the two reads of an answer, without whose exception `~torn`
  `FinalIsShown` fails.  A third request in flight, for which the liveness property takes
  too long, shows one case more: a poll between the starts of two searches, for which
  `FinalIsShown` needs `~hasty`.  The invariants hold with three in flight as well
  (12,556,468 states); the theorem is about any number.
- `sync`: the last page is not full; one event (`MaxEvents`) is put at every point of a
  run, and the API call creates, deletes a branch or deletes a project at every point too.
  After a crash the sync starts again and has to repair what is half done.

`ImplementsSearch` is refinement of `Search` with its fairness: claimed is a hash
without an entry in the sorted set, open an entry, closed its removal; the queue is
what waits, hidden until the search is open.  A second worker that completes a search
again is a stutter, and so is the worker's write of "processing" after it: the
abstract search is closed for good, whatever `regress` says of its status.

Some properties carry their assumption in the formula: `faults = 0` or `expiries = 0` on
the left of an implication limits them to behaviours without failure or expiry, `~cut` to
listings that fit GROUP_CONCAT, `\notin mixed` to projects without two rows of one name,
`~reordered`, `~left` and `~hasty` to a network that keeps the order and a user who stays
and waits, `~torn` to searches that are not completed between the two reads of an answer,
`p \notin partial` and `p \notin broken` to projects that no failure, exit or deletion has
left half stored.
None of these is granted by the code; where a property fails without one, the finding
is listed below.

Deadlock is checked except in three runs that come to an end by design: `scan` (all
branches scanned), `listing` (everything listed and read) and `page` (the user stays
away).

### Fairness

- `PackageSearch`, `SearchResults`: `WF_vars(RequestStep(r))` and
  `WF_vars(WorkerStep(w))`.  The HTTP server runs a handler to its end, and
  `Worker.processJobs` calls `Execute` in an endless loop, so a process that can step
  does.  Nothing is assumed about which of several goes first, about arrivals, or
  about failures.  A client that has polled once polls again until its search is
  completed, which is what its timer does; a client need not begin.
- `SearchProcesses`: the same while a process is up or stopping, and `server.Shutdown`
  returns once no request runs.  Nothing is assumed about starting what has exited:
  `restart: unless-stopped` of `docker-compose.yaml` brings back a process that crashed,
  but not a container that was stopped.  With one signal in run `faults` a worker is left,
  which `QueuedLeaves` needs.
- `BranchScan`: `ProcessProject` runs to its end; failures and expiry are not fair.
- `ProjectsSync`: the main goroutine, every page's goroutine and every API call (the Go
  scheduler; `Execute` is called again after each interval).  Nothing is assumed about
  `Start`, so that `SyncedInTheEnd` asks nothing of a process that is down.
- `SearchPage`: the browser fires its interval, the oldest request in flight is
  answered and applied, and workers take a started search to its end.  The user need
  not do anything.
- `SearchListing` states safety only.

`SyncedInTheEnd` speaks of projects GitLab lists with a supported language.  A
project that loses its last supported language is skipped by every later run, and
keeps the types it had; a project that GitLab no longer lists is never deleted.

## Findings

`PROJECT.json` quotes the comment or document each of these contradicts.  Four have
a run whose counterexample shows them:

- `regress`: worker A pops the last branch and reads status "pending"; worker B
  finds the queue empty and completes the search; A writes "processing".  The
  search has left the sorted set, so nothing completes it again.
- `versions`: while version 1 of a package is being scanned, a request for
  version 2 finds the rows written so far and is completed at once.
- `orphan`: a request fails between its claim and its entry in the sorted set; in the
  trace of the run its claim is executed and the reply to it lost.  Later requests join a
  search that will never run.
- `last_rows`: the last row is written and the search completed after a poll has
  read its rows and before it reads the status.  The browser stops at that answer,
  and if it had no rows, says that nothing was found.

The others came up while the modules were written.  Some are visible as a condition
that a property needs:

- Two workers find a package missing, the second insert meets the unique key, and a
  branch that could be read is reported as failed (`NoSpuriousFailure` is checked with one
  worker).
- Two callers find a branch missing and both create it; nothing removes the second row
  (`UniqueUnlessRaced`), and the listing pairs the names behind it with ids of other
  branches (`QueuedUnlessCut` and `AttachedWhereFound` except `mixed` projects).
- `UpsertWithDefaultBranch` stores a project and its branch in two statements.  A search
  that lists the project in between pushes nothing for it (`NeverHidden` excepts the
  project while a goroutine is there, and after one was broken off there).
- `parsePackageLock` and `parseYarnLock` take the first version of a snippet, whoever's it
  is (`FoundIsNamed` leaves npm out); composer's parser does so once it has met the name, so
  that `FoundIsNamed` speaks of the name and not of the version.
- The page applies answers in the order of arrival, whatever search they belong to
  (`FinalIsShown` needs `~reordered`; and `~hasty`, as the last poll of a search may stop
  the interval of the next when that was asked for before the id of the last had come),
  stops at a completed answer whose rows are older (`~torn`, and run `last_rows`), and stops
  polling for good when the projects tab is opened (`~left`).
- GROUP_CONCAT cuts the list of branch ids, and what is left of an id is taken for one
  (`QueuedUnlessCut`, `AttachedWhereFound` need `~cut`).
- The job that a stopping worker waits for runs under the context that is cancelled: its
  branch is neither attached nor reported nor put back (`hits` in `LossBound`).
- Documents that differ from the code: the order of the sync's calls, panics in its
  goroutines, and the time to live of the list of projects.

## Proofs

Eight modules hold theorems, each for every value of the constants: any number of
requests, workers, projects, pages and branches, and any bound on failures.  They rest
only on the named assumptions about the constants, which TLC evaluates in every run
of the modules that declare them.

| Theorem | Statement | Module |
|---|---|---|
| `TypeCorrect` | `Spec => []TypeOK` | `PackageSearchProofs` |
| `OneOwnerCorrect` | `Spec => []OneOwner` | |
| `DrainInvariant` | `Spec => []DrainInv` | |
| `CompletedIsDrainedCorrect` | `Spec => []CompletedIsDrained` | |
| `QueuedAfterListingCorrect` | `Spec => []QueuedAfterListing` | |
| `QueueNeverOutlivesHashCorrect` | `Spec => []QueueNeverOutlivesHash` | |
| `StatusNeverRegressesCorrect` | `OneWorker => (Spec => StatusNeverRegresses)` | |
| `JoinedIsServedCorrect` | `OneWorker /\ NothingFails => (Spec => JoinedIsServed)` | |
| `NoSpuriousFailureCorrect` | `OneWorker => (Spec => []NoSpuriousFailure)` | |
| `ImplementsSearchSafely` | `NothingFails /\ Spec => Abstract!Spec` | `SearchRefinementProofs` |
| `EveryBranchOnceCorrect` | `Spec => []EveryBranchOnce` | |
| `ProcessTypeCorrect` | `ProcessSpec => []ProcessTypeOK` | `SearchProcessesProofs` |
| `OneOwnerOfProcesses` | `ProcessSpec => []OneOwner` | |
| `DrainedIsServedCorrect` | `ProcessSpec => []DrainedIsServed` | |
| `CompletedIsDrainedOfProcesses` | `ProcessSpec => []CompletedIsDrained` | |
| `QueuedAfterListingOfProcesses` | `ProcessSpec => []QueuedAfterListing` | |
| `QueueNeverOutlivesHashOfProcesses` | `ProcessSpec => []QueueNeverOutlivesHash` | |
| `StatusNeverRegressesOfProcesses` | `OneWorker => (ProcessSpec => StatusNeverRegresses)` | |
| `JoinedIsServedOfProcesses` | `OneWorker /\ NothingFails => (ProcessSpec => JoinedIsServed)` | |
| `NoSpuriousFailureOfProcesses` | `OneWorker => (ProcessSpec => []NoSpuriousFailure)` | |
| `LossBoundCorrect` | `ProcessSpec => []LossBound` | |
| `PollingChangesNothing` | `ResultsSpec => Spec` | `SearchResultsProofs` |
| `ResultsTypeCorrect` | `ResultsSpec => []ResultsTypeOK` | |
| `AnswerIsOfAMomentCorrect` | `ResultsSpec => []AnswerIsOfAMoment` | |
| `CompletedIsCompleteCorrect` | `Usual => (Spec => []CompletedIsComplete)` | |
| `FinishedAnswerIsExactCorrect` | `Usual /\ KnownListed => (ResultsSpec => []FinishedAnswerIsExact)` | |
| `ScanTypeCorrect` | `Spec => []TypeOK` | `BranchScanProofs` |
| `ResultIsBestCorrect` | `Spec => []ResultIsBest` | |
| `FoundIsNamedCorrect` | `Spec => []FoundIsNamed` | |
| `StoredUnderItsTypeCorrect` | `Spec => []StoredUnderItsType` | |
| `SyncTypeCorrect` | `Spec => []TypeOK` | `ProjectsSyncProofs` |
| `NeverHiddenCorrect` | `Spec => []NeverHidden` | |
| `UniqueUnlessRacedCorrect` | `CallsKeepOff => (Spec => []UniqueUnlessRaced)` | |
| `ListingTypeCorrect` | `Spec => []TypeOK` | `SearchListingProofs` |
| `SearchDriftsCorrect` | `Spec => []SearchDrifts` | |
| `ClientDriftsCorrect` | `Spec => []ClientDrifts` | |
| `QueuedUnlessCutCorrect` | `Spec => []QueuedUnlessCut` | |
| `AttachedWhereFoundCorrect` | `Spec => []AttachedWhereFound` | |
| `OnlyGoneFailCorrect` | `Spec => []OnlyGoneFail` | |
| `PageTypeCorrect` | `Spec => []TypeOK` | `SearchPageProofs` |
| `OneIntervalCorrect` | `Spec => []OneInterval` | |
| `FinalIsShownCorrect` | `Spec => []FinalIsShown` | |

Some theorems have a hypothesis about the constants, because the property is false
without it.  Each is a way the program is run or data it may hold, not a bound, and the
run that checks the property satisfies it:

- `OneWorker`: one process of `cmd/searchprocessing`, the default (`WORKER_REPLICAS`) of
  `docker-compose.yaml`.  With two, run `regress` shows a status that goes back, and two inserts of one
  package report a branch that could be read.
- `NothingFails`: `MaxFaults = 0 /\ MaxExpiries = 0`.  Run `orphan` shows what one failure
  does to `JoinedIsServed`.
- `Usual`: both, and each package is searched in one way only (`OneSearchEach`; run
  `versions` shows two), and the rows MySQL has of a package from earlier searches are all
  there are (`KnownIsAll`), as the shortcut of `StartSearch` takes them to be.
- `KnownListed`: those rows are of branches that are still listed.
- `CallsKeepOff`: one API call at a time, and none for the default branch of a project,
  which the sync creates.  TLC shows two rows of one branch with two calls, and with one
  that asks for the default branch.

Along which argument:

**`OneOwner`** is not inductive: a request could claim a search whose hash is gone
while another still owns it.  `OwnerInv` adds that the hash of an owned search
exists.  HSETNX then refuses a second claim; the hash goes only by `ExpireHash`,
which never hits a search that is claimed, and no other method removes it.

**`CompletedIsDrained`** needs to know why no push follows a completion.
`SearchInv(s)` is the inductive invariant that says it, while no key has
expired.  A search has details (`named`) only from AddSearchToQueue on.  Before
that its owner is the only process that touches its keys; after it, workers may hold
the search, and every search in a worker's hand or in the sorted set is named,
so no unpublished request pushes for it.  Hence a queue that a worker at
"complete" saw empty is still empty when it writes, and so is the queue of a
search on the shortcut over existing results, which never listed anything.
`QueuedAfterListing` follows from the same parts.  Without the conjunct on
`named` the induction breaks at `Complete`; without the one on the shortcut at
`CompleteCached`.

**`QueueNeverOutlivesHash`**: `LifeInv(s)` says that the list is the younger key only
while its owner is still listing.  Every other end of StartSearch writes the hash last,
and expiry spares a claimed search, so the list goes first.

**The refinement**: `ImplInv` is the invariant.  Its new parts are `ListingInv`, the queue
of a search that is being listed holds exactly the branches of the projects pushed so far
(`Pushed`, with the lemmas on the windows of pages), and `OnePlaceInv`, no branch is twice in
the queue or in two hands or in both.  Then every step is a `Move` of one
search, while all others stay the `Same` (`OneMoves`), or moves nothing (`NoneMoves`), and
a `Move` is an action of `Search` (`MoveIsAbstract`).  `NothingFails` is
`MaxFaults = 0 /\ MaxExpiries = 0`: a failure may lose a branch, which `Search`
does not allow.  The fairness half of `ImplementsSearch` is model-checked.

**`EveryBranchOnce`** follows those moves with `ApartInv` (the places of a branch
are disjoint and empty before the search is open) and `WholeInv` (together they are all
branches of a listed search); the numbers are cardinalities of disjoint finite sets, a queue
without repetitions being as long as its set.

**One worker**: `StatusInv(s)` says that what a worker is about to mark is still "pending",
since the only other process that writes a status is the owner of the search, which has
published it before any worker can hold a branch of it; and that while the owner of a
search with known results completes it no worker holds a branch of it.  Hence
every write advances (`Rises`).  With it, `ServedInv` is inductive: every search that exists
is claimed, queued or completed.  `FailureInv` says that a package which was looked up in
vain is still not there when it is created.

**`SearchProcesses`**: `StepKinds` shows that a step of the processes is a step of
`PackageSearch`, an `Interrupted` worker (which touches neither keys nor requests),
`DrainTimeout` (which only ends requests), or changes nothing of `PackageSearch`.
Hence what only keys and requests are about carries over, and so do `DrainInv`, `LifeInv`,
`StatusInv` and `ServedInv`, as an interrupted worker writes no key and comes into no place
it was not in before (`InterruptedEnds`, `DrainTimeoutEnds`).  Only `FailureInv` does not: a
stopping worker may come to a report, which is cancelled too, and `StopInv` says that nobody
else does.  `CompletedIsComplete` is false here, since a signal may cost a branch.
`DrainedIsServed` is inductive
with `TypeOK`: the status becomes "pending" only by the claim of a request that goes on
owning the search, and its last step as an owner puts the search into the sorted set or
completes it.

**`LossBound`** speaks of a search that is listed; its invariant has to follow the listing.
`At(pc, page, todo, k)` says that a request has dealt with the first k projects, and
`Gone(k, s)` are their branches that are neither waiting nor in hand nor settled.  `Doomed(s)`
are the workers that were stopped with a branch of s in hand: their number never
exceeds the signals that hit (`Marked`), and a branch that such a worker drops moves from the
doomed to the gone, so that `Paid(r, s)`, that both together are at most `Widest` for each
failure and one for each signal, is inductive (`TollPaid`).  A failure costs a worker its one branch, a lost
reply of RPOP one, and a push that fails those of one project, which `Widest` bounds
(`WidestBounds`).

**`CompletedIsComplete`**: `DoneInv(s)` says that a settled branch is found, attached or
reported, that a search which workers see was listed to its end, so that by
`EveryBranchOnce` an empty queue and an empty hand leave nothing unsettled, and that a search on the
shortcut has its rows already.

**`SearchResults`**: no step of a client touches a variable of `PackageSearch`
(`PollingChangesNothing`).  `AnswersInv` says of a call in progress what its reads amount to:
the table only grows, at its end, so what was counted is the count of a prefix of `rows`, and
the batches read so far are a prefix too, of which the rows found so far are the page.
The lemmas on slices say that the page of a concatenation is what the parts
give.  `ExactInv` adds that once the flag has said finished, the search is and stays
complete, so that every prefix read later is all there is.

**`BranchScan`**: `BestSoFar(t, h, n, ...)` says that the locals of `ParseDependency` are
the best of the first n files; a file that is parsed takes it from n to n + 1
(`ManifestStep`, `LockfileStep`), a file that is skipped could not change it (`SkipStep`:
it is no file of this manager, a manifest after the first, or a lock file of no better rank),
and the loop is left early only when the rest cannot either (`LoopLeft`).  `OwnTypes` says
that the cache holds a type under its own name only.

**`ProjectsSync`**: `SyncInv` adds to the types that a listing names each project once
(so that there are no more pages than projects), that only pages before `page` have a
goroutine, none of which is left over from an earlier run (so that a spawned goroutine is
a new one), and that the semaphore holds as many elements as there are goroutines.
`NeverHidden` is proved in halves.  While languages stay (`Calm`), `ReadTypes` says that the
types in a goroutine's hand are those of the project it works on, and `StoredTypes` that a
project has no types or all of them, or is one of the `partial`.  `StoredBranches` is the other
half as it stands: what takes a goroutine from between its two statements gives the
project a branch or counts it as broken (`BranchesChunk`).

**`SearchListing`**, the drifts: a reader stands at a place of the listing.  Of the
projects that were there throughout, `Skipped` are those before its place that it has not
seen, `Again` those behind it that it has.  A write moves a project over the reader's
place only if another one before it has gone or come (`PlaceMoves`), and no two projects
have one place, so that it moves no more than have gone or come (`WindowFits`,
`WriteShifts`); a page that is read moves the reader behind what it has seen (`PageReads`).
The search stops at an empty page, behind which there is nothing, as no place is free
(`NoGap`); the client stops at the page its count names, behind which are only as many
projects as have come since it was counted (`PagesSuffice`).

**`SearchListing`**, the rows: the ranks of a project's rows fill the numbers below
their count (`RanksFill`), and those of the names stay below the number of names, which is
no greater (`NamesRank`); so every name finds a row to be paired with (`PairsOfRows`), and is
queued if nothing is cut (`ItemsOfRows`).  Where no two names are equal both have one
order (`NamesRankAsRows`), so that `toDetailedDomain` pairs each id with its own name and the
items are the rows.  `ItemsInv` says that every id that is queued was given out before, and
that a row with the id of an item is of its project, and the row it was made of unless that
was mixed (`OwnRows`), which a new row, with a new id, cannot break.

**`UniqueUnlessRaced`**: while the listing does not move, what a goroutine has in hand is on
its page (`OnPage`), and pages are disjoint; a goroutine that is left from an earlier run is
none, as `Execute` waits for all.  So nobody else is between the lookup and the insert of the same
branch, and the lookup is still true at the insert.

**`SearchPage`**: `CalmInv` says that without a hasty user there is one interval, or one
request that will start it, never both.  For `FinalIsShown`, `InOrder` says of a network
that keeps the order that answers come before questions (`Fifo`), that behind the start of
the last search there are only requests of it (`AskedFor`), and that an answer is no newer
than one behind it (`Later`, `FromFirst`); once its polling has ended (`AtRest`), the page
shows the final answers, or they are on their way, behind whatever is older (`Rested`).
`WholeInv` adds that a completed answer has the final rows unless one was `torn`; it needs
no order.
The attempt to prove it showed that the property needs `~hasty`, which a run with two
requests in flight had not shown.

Only model-checked: the liveness properties (`ListedIsSettled`, `QueuedLeaves`,
`StopEnds`, `OnlyExpiredHeadBlocks`, `SyncedInTheEnd`, `SignalEnds`, `PollingEnds`,
`EveryBranchAnswered`, `PollingStops`) and the fairness half of `ImplementsSearch`, since
temporal reasoning with fairness and ENABLED is outside the proof system's reach.  Every
invariant and every safety property of a passing run is a theorem.

## Not modelled, and why

- The statistics of the API, its list of package types (`GetAll` of the cache) and
  `GetPackagesCount`: one statement each, of which nothing depends.
- Router, request validation and the generated code of `pkg/oapi`: stateless translation.
- Configuration, migrations, telemetry, metrics: read or run once at the start, or
  write-only.
- `ParseQuery` and `GenerateSearchID` (text to a search; the constant `PkgOf`), the semver
  library (`Accepts`), and the regular expressions of the parsers beyond which version they
  return.
- `LanguageMap` is a constant of `ProjectsSync`.
- The UI's list of projects: it shows what it loads; the paging behind it is in
  `SearchListing`.
- Totals that GitLab leaves out of the answer for listings of more than 10,000 rows:
  `TotalPages` is then 0 and the sync does nothing.  It is a hazard without a property, as
  the limit is a rule of GitLab's API.
- The time to live of the list of failures: nothing is decided on it.
- Queries without ORDER BY return rows in the order of the primary key here, as InnoDB
  groups by it; another plan could permute them between pages.
- Ids of rows are given in the order the rows appear.  MySQL gives an id before the
  statement commits, so with several workers a row may appear after one with a
  greater id; `polls` has one worker.
- `GetWithPagination`, `SearchByName`, `GetDetailedWithPagination`: without callers.

## Plan

What a next step would add, in this order:

1. `ResultsSpec` over `ProcessSpec`: what a client sees while the worker is deployed.
2. The invariants of `Search` itself as theorems, so that they follow along the refinement.
3. A refinement between `BranchScan` and the step "scan" of `PackageSearch`, and between
   `SearchListing` and its listing, which repeat each other's control at two levels.
