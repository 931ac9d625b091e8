------------------------ MODULE SearchResultsProofs ------------------------
(* Theorems about SearchResults, for every value of its constants: when a  *)
(* completed search is complete, and what a poll answers.                  *)
EXTENDS SearchResults, SearchRefinementProofs

----------------------------------------------------------------------------
(* Completed means complete, where one worker runs, nothing fails, no two  *)
(* searches ask for one package, and what MySQL knows of a package at the  *)
(* start is all there is of it.                                            *)

OneSearchEach == \A s, t \in SearchID : PkgOf[s] = PkgOf[t] => s = t

KnownIsAll ==
    \A p \in Package, c \in Branch : <<p, c>> \in KnownDeps =>
        \A b \in AllBranches : <<p, b>> \in Contains => <<p, b>> \in KnownDeps

Usual == OneWorker /\ NothingFails /\ OneSearchEach /\ KnownIsAll

Found(s, b) ==
    <<PkgOf[s], b>> \in Contains => <<PkgOf[s], b>> \in deps \/ b \in failed[s]
AllFound(s) == \A b \in AllBranches : Found(s, b)

\* What is settled is found; a search that workers see was listed, or its
\* results were all there; and so they were where StartSearch scans nothing.
DoneInv(s) ==
    /\ \A b \in handled[s] : Found(s, b)
    /\ named[s] => Listed(s) \/ AllFound(s)
    /\ \A r \in Request : rsid[r] = s /\ rpc[r] \in {"cached_add", "cached_complete"} =>
            AllFound(s)
    /\ status[s] = "completed" => AllFound(s)

\* A row was there at the start, or a worker settled its branch.
RowsInv ==
    /\ KnownDeps \subseteq deps /\ deps \subseteq Contains
    /\ \A w \in Worker : wpc[w] \in {"lookup", "create", "attach"} =>
            <<PkgOf[wsid[w]], witem[w]>> \in Contains
    /\ \A p \in Package, b \in Branch : <<p, b>> \in deps =>
            \/ <<p, b>> \in KnownDeps
            \/ \E s \in SearchID : PkgOf[s] = p /\ b \in handled[s]

CompleteInv == EveryInv /\ RowsInv /\ \A s \in SearchID : DoneInv(s)

\* Rows, failures and listings stay.
LEMMA FoundStays ==
    ASSUME TypeOK, [Next]_vars, Undisturbed'
    PROVE  /\ deps \subseteq deps'
           /\ \A s \in SearchID : failed[s] \subseteq failed'[s] /\ (Listed(s) => Listed(s)')
           /\ \A s \in SearchID, b \in AllBranches \cup Branch : Found(s, b) => Found(s, b)'
           /\ \A s \in SearchID : AllFound(s) => AllFound(s)'
<1>1. /\ deps \subseteq deps'
      /\ \A s \in SearchID : failed[s] \subseteq failed'[s] /\ (Listed(s) => Listed(s)')
  <2>1. CASE UNCHANGED vars
    BY <2>1 DEF vars, storageVars, requestVars, dbVars, Listed
  <2>2. CASE \E r \in Request, t \in SearchID : Arrive(r, t)
    <3> PICK r \in Request, t \in SearchID : Arrive(r, t)
      BY <2>2
    <3>1. /\ UNCHANGED <<deps, failed>>
          /\ \A q \in Request : rpc[q] = "listed" => rpc'[q] = "listed" /\ rsid'[q] = rsid[q]
      BY DEF Arrive, ReqStep, storageVars, dbVars, TypeOK
    <3> QED  BY <3>1 DEF Listed
  <2>3. CASE \E r \in Request : RequestStep(r)
    <3> PICK r \in Request : RequestStep(r)
      BY <2>3
    <3>1. rsid' = rsid /\ deps' = deps
      BY RequestKeeps DEF dbVars
    <3>2. failed' = failed
      BY DEF RequestStep, Acquire, AcquireSearch, FindDependencies, AddCached,
             AddSearchToQueue, CompleteCached, CompleteSearch, ReadPage, PushProject,
             AddProjectsToQueue, Enqueue, storageVars
    <3>3. \A q \in Request : rpc[q] = "listed" => rpc'[q] = "listed"
      BY DEF RequestStep, Acquire, FindDependencies, AddCached, CompleteCached, ReadPage,
             PushProject, NextProject, Enqueue, ReqStep, TypeOK
    <3> QED  BY <3>1, <3>2, <3>3 DEF Listed
  <2>4. CASE \E w \in Worker : WorkerStep(w)
    <3> PICK w \in Worker : WorkerStep(w)
      BY <2>4
    <3>1. UNCHANGED <<rpc, rsid>>
      BY WorkerKeeps DEF requestVars
    <3>2. deps \subseteq deps'
      BY DEF WorkerStep, PeekSearch, PollNothing, GetDetails, DetailsMissing, TakeProject,
             NoProjectLeft, Complete, ReadStatus, MarkProcessing, ScanNothing, ScanFinds,
             LookupPackage, CreatePackage, AttachPackage, ReportFailure, dbVars, vars
    <3>3. \A s \in SearchID : failed[s] \subseteq failed'[s]
      <4>1. CASE ReportFailure(w)
        BY <4>1 DEF ReportFailure, AddFailedRepository, TypeOK, StorageTypeOK
      <4>2. CASE ~ReportFailure(w)
        BY <4>2
        DEF WorkerStep, PeekSearch, PollNothing, GetDetails, DetailsMissing, TakeProject,
            NoProjectLeft, Complete, ReadStatus, MarkProcessing, ScanNothing, ScanFinds,
            LookupPackage, CreatePackage, AttachPackage, vars, storageVars,
            GetProjectFromQueue, CompleteSearch, UpdateSearchStatus
      <4> QED  BY <4>1, <4>2
    <3> QED  BY <3>1, <3>2, <3>3 DEF Listed
  <2> QED  BY <2>1, <2>2, <2>3, <2>4, OnlySteps
<1>2. \A s \in SearchID, b \in AllBranches \cup Branch : Found(s, b) => Found(s, b)'
  BY <1>1 DEF Found
<1> QED  BY <1>1, <1>2 DEF AllFound

LEMMA BranchesInCatalog == AllBranches \subseteq Branch
BY CatalogType, ElementOfSeq DEF AllBranches

\* What a worker adds to the settled branches, and to the rows.
LEMMA WorkerAdds ==
    ASSUME TypeOK, NEW w \in Worker, WorkerStep(w)
    PROVE  \/ UNCHANGED <<handled, deps>>
           \/ \E s \in SearchID, b \in Branch :
                  /\ s = wsid[w] /\ b = witem[w] /\ wpc[w] \in {"scan", "attach", "report"}
                  /\ handled' = [handled EXCEPT ![s] = @ \cup {b}]
                  /\ \/ deps' = deps
                     \/ wpc[w] = "attach" /\ deps' = deps \cup {<<PkgOf[s], b>>}
                  /\ Found(s, b)'
<1>1. CASE ScanNothing(w) \/ AttachPackage(w) \/ ReportFailure(w)
  <2>1. wpc[w] \in {"scan", "attach", "report"}
    BY <1>1 DEF ScanNothing, AttachPackage, ReportFailure
  <2>2. wsid[w] \in SearchID /\ witem[w] \in Branch
    BY <2>1 DEF TypeOK, Holding, InProcessProject
  <2> PICK s \in SearchID, b \in Branch : s = wsid[w] /\ b = witem[w]
    BY <2>2
  <2>3. handled' = [handled EXCEPT ![s] = @ \cup {b}]
    BY <1>1 DEF ScanNothing, AttachPackage, ReportFailure, Settle
  <2>4. \/ deps' = deps
        \/ wpc[w] = "attach" /\ deps' = deps \cup {<<PkgOf[s], b>>}
    BY <1>1 DEF ScanNothing, AttachPackage, ReportFailure, dbVars
  <2>5. Found(s, b)'
    <3>1. CASE ScanNothing(w)
      BY <3>1 DEF ScanNothing, Found
    <3>2. CASE AttachPackage(w)
      BY <3>2 DEF AttachPackage, Found
    <3>3. CASE ReportFailure(w)
      BY <3>3 DEF ReportFailure, AddFailedRepository, Found, TypeOK, StorageTypeOK
    <3> QED  BY <1>1, <3>1, <3>2, <3>3
  <2> QED  BY <2>1, <2>3, <2>4, <2>5
<1>2. CASE ~(ScanNothing(w) \/ AttachPackage(w) \/ ReportFailure(w))
  BY <1>2
  DEF WorkerStep, PeekSearch, PollNothing, GetDetails, DetailsMissing, TakeProject,
      NoProjectLeft, Complete, ReadStatus, MarkProcessing, ScanFinds, LookupPackage,
      CreatePackage, dbVars, vars
<1> QED  BY <1>1, <1>2

LEMMA RowsStep ==
    ASSUME TypeOK, RowsInv, [Next]_vars, Undisturbed'
    PROVE  RowsInv'
<1> USE DEF TypeOK
<1>1. CASE UNCHANGED <<deps, handled, wpc, wsid, witem>>
  BY <1>1 DEF RowsInv
<1>2. CASE \E w \in Worker : WorkerStep(w)
  <2> PICK w \in Worker : WorkerStep(w)
    BY <1>2
  <2>1. \A v \in Worker : wpc'[v] \in {"lookup", "create", "attach"} =>
            <<PkgOf[wsid'[v]], witem'[v]>> \in Contains
    <3>1. CASE PollNothing(w)
      BY <3>1 DEF PollNothing, vars, workerVars, RowsInv
    <3>2. CASE ScanFinds(w) \/ LookupPackage(w) \/ CreatePackage(w)
      BY <3>2 DEF ScanFinds, LookupPackage, CreatePackage, WorkStep, RowsInv
    <3>3. CASE ~(PollNothing(w) \/ ScanFinds(w) \/ LookupPackage(w) \/ CreatePackage(w))
      <4>1. /\ wpc'[w] \notin {"lookup", "create", "attach"}
            /\ \A v \in Worker : v # w =>
                   wpc'[v] = wpc[v] /\ wsid'[v] = wsid[v] /\ witem'[v] = witem[v]
        BY <3>3
        DEF WorkerStep, PeekSearch, GetDetails, DetailsMissing, TakeProject, NoProjectLeft,
            Complete, ReadStatus, MarkProcessing, ScanNothing, AttachPackage, ReportFailure,
            WorkStep, Return, Settle
      <4> QED  BY <4>1 DEF RowsInv
    <3> QED  BY <3>1, <3>2, <3>3
  <2>2. CASE UNCHANGED <<handled, deps>>
    BY <2>1, <2>2 DEF RowsInv
  <2>3. CASE ~(UNCHANGED <<handled, deps>>)
    <3>1. PICK s \in SearchID, b \in Branch :
              /\ s = wsid[w] /\ b = witem[w] /\ wpc[w] \in {"scan", "attach", "report"}
              /\ handled' = [handled EXCEPT ![s] = @ \cup {b}]
              /\ \/ deps' = deps
                 \/ wpc[w] = "attach" /\ deps' = deps \cup {<<PkgOf[s], b>>}
      BY <2>3, WorkerAdds
    <3>2. deps' \subseteq Contains /\ KnownDeps \subseteq deps'
      BY <3>1 DEF RowsInv
    <3>3. \A t \in SearchID : handled[t] \subseteq handled'[t] /\ b \in handled'[s]
      BY <3>1
    <3>4. ASSUME NEW p \in Package, NEW c \in Branch, <<p, c>> \in deps'
          PROVE  \/ <<p, c>> \in KnownDeps
                 \/ \E t \in SearchID : PkgOf[t] = p /\ c \in handled'[t]
      <4>1. CASE <<p, c>> \in deps
        BY <3>3, <4>1 DEF RowsInv
      <4>2. CASE <<p, c>> \notin deps
        <5>1. p = PkgOf[s] /\ c = b
          BY <3>1, <3>4, <4>2
        <5> QED  BY <3>3, <5>1
      <4> QED  BY <4>1, <4>2
    <3> QED  BY <2>1, <3>2, <3>4 DEF RowsInv
  <2> QED  BY <2>2, <2>3
<1>3. CASE \E r \in Request : RequestStep(r)
  BY <1>1, <1>3, RequestKeeps DEF workerVars, dbVars
<1>4. CASE UNCHANGED vars \/ \E r \in Request, s \in SearchID : Arrive(r, s)
  BY <1>1, <1>4 DEF Arrive, vars, NoWorker, workerVars, dbVars
<1> QED  BY <1>2, <1>3, <1>4, OnlySteps

\* Where StartSearch finds results of a search it has just claimed, they are
\* those that MySQL held at the start.
LEMMA CachedIsAll ==
    ASSUME Usual, CompleteInv, Undisturbed, NEW r \in Request, rpc[r] = "lookup",
           NEW s \in SearchID, rsid[r] = s, HasResults(s)
    PROVE  AllFound(s)
<1>1. ImplInv /\ ApartInv(s)
  BY DEF CompleteInv, EveryInv
<1>2. SearchInv(s)
  BY <1>1 DEF ImplInv
<1>3. PhaseOf(s) = "claimed"
  <2>1. status[s] = "pending" /\ ~named[s] /\ ~(score[s] > 0)
    BY <1>2 DEF SearchInv, Unpublished
  <2> QED  BY <2>1 DEF PhaseOf, Absent
<1>4. handled[s] = {}
  BY <1>1, <1>3 DEF ApartInv
<1>5. PICK c \in Branch : <<PkgOf[s], c>> \in deps
  BY DEF HasResults
<1>6. PkgOf[s] \in Package
  BY PkgOfAssumption
<1>7. <<PkgOf[s], c>> \in KnownDeps
  <2>1. \A t \in SearchID : PkgOf[t] = PkgOf[s] => c \notin handled[t]
    BY <1>4 DEF Usual, OneSearchEach
  <2> QED  BY <1>5, <1>6, <2>1 DEF CompleteInv, RowsInv
<1>8. \A b \in AllBranches : <<PkgOf[s], b>> \in Contains => <<PkgOf[s], b>> \in KnownDeps
  BY <1>6, <1>7 DEF Usual, KnownIsAll
<1> QED  BY <1>8 DEF AllFound, Found, CompleteInv, RowsInv

\* The one worker that is about to complete a search holds no branch of it, and
\* its queue is empty.
LEMMA ListedIsDone ==
    ASSUME Usual, CompleteInv, Undisturbed, NEW w \in Worker, wpc[w] = "complete",
           NEW s \in SearchID, wsid[w] = s, Listed(s)
    PROVE  AllFound(s)
<1>1. ImplInv /\ WholeInv(s) /\ DoneInv(s)
  BY DEF CompleteInv, EveryInv
<1>2. queue[s] = << >>
  BY <1>1 DEF ImplInv, SearchInv
<1>3. Waiting(s) = {}
  BY <1>2 DEF Waiting
<1>4. \A v \in Worker : wpc[v] = "complete"
  BY DEF Usual, OneWorker
<1>5. InHand(s) = {}
  BY <1>4 DEF InHand, Holding, InProcessProject
<1>6. Places(s) = AllBranches
  BY <1>1 DEF WholeInv
<1>7. AllBranches = handled[s]
  BY <1>3, <1>5, <1>6 DEF Places, WaitingOf
<1> QED  BY <1>1, <1>7 DEF DoneInv, AllFound

LEMMA CompleteStep ==
    ASSUME Usual, CompleteInv, [Next]_vars, Undisturbed, Undisturbed', NEW s \in SearchID
    PROVE  DoneInv(s)'
<1> USE DEF StorageTypeOK, TypeOK
<1>1. /\ TypeOK /\ ImplInv /\ DoneInv(s) /\ SearchInv(s)
      /\ \A t \in SearchID : handled[t] \subseteq Branch
  BY DEF CompleteInv, EveryInv, ImplInv
<1>2. /\ Listed(s) => Listed(s)'
      /\ \A b \in Branch : Found(s, b) => Found(s, b)'
      /\ AllFound(s) => AllFound(s)'
  BY <1>1, FoundStays
<1>3. CASE UNCHANGED <<handled, named, status, rpc, rsid>>
  BY <1>1, <1>2, <1>3 DEF DoneInv
<1>4. CASE \E r \in Request, t \in SearchID : Arrive(r, t)
  <2> PICK r \in Request, t \in SearchID : Arrive(r, t)
    BY <1>4
  <2>1. /\ UNCHANGED <<handled, named, status>>
        /\ \A q \in Request : rpc'[q] \in {"cached_add", "cached_complete"} =>
               rpc'[q] = rpc[q] /\ rsid'[q] = rsid[q]
    BY <1>1 DEF Arrive, ReqStep, NoWorker, storageVars
  <2> QED  BY <1>1, <1>2, <2>1 DEF DoneInv
<1>5. CASE \E r \in Request : RequestStep(r)
  <2> PICK r \in Request : RequestStep(r)
    BY <1>5
  <2>1. UNCHANGED <<handled, rsid>> /\ rsid[r] \in SearchID
    BY <1>1, RequestKeeps
  <2>2. \A b \in handled'[s] : Found(s, b)'
    BY <1>1, <1>2, <2>1 DEF DoneInv
  <2>3. CASE rsid[r] # s
    <3>1. /\ status'[s] = status[s] /\ named'[s] = named[s]
          /\ \A q \in Request : rsid[q] = s => rpc'[q] = rpc[q]
      BY <1>1, <2>3, OtherRequest
    <3> QED  BY <1>1, <1>2, <2>1, <2>2, <3>1 DEF DoneInv
  <2>4. CASE rsid[r] = s /\ FindDependencies(r)
    <3>1. /\ UNCHANGED <<named, status>> /\ rpc[r] = "lookup"
          /\ rpc' = [rpc EXCEPT ![r] = IF HasResults(s) THEN "cached_add" ELSE "page"]
      BY <2>4 DEF FindDependencies, ReqStep, storageVars
    <3>2. HasResults(s) => AllFound(s)
      BY <2>4, <3>1, CachedIsAll
    <3>3. \A q \in Request : rsid[q] = s /\ rpc'[q] \in {"cached_add", "cached_complete"} =>
              AllFound(s)
      BY <1>1, <3>1, <3>2 DEF DoneInv
    <3> QED  BY <1>1, <1>2, <2>1, <2>2, <3>1, <3>3 DEF DoneInv
  <2>5. CASE rsid[r] = s /\ (AddCached(r) \/ CompleteCached(r))
    <3>1. AllFound(s)
      BY <1>1, <2>5 DEF DoneInv, AddCached, CompleteCached, ReqStep
    <3> QED  BY <1>2, <2>2, <3>1 DEF DoneInv
  <2>6. CASE rsid[r] = s /\ Enqueue(r)
    <3>1. rpc'[r] = "listed" /\ \A q \in Request : q # r => rpc'[q] = rpc[q]
      BY <1>1, <2>6 DEF Enqueue, ReqStep
    <3>2. Listed(s)' /\ status'[s] = "pending"
      BY <1>1, <2>1, <2>6, <3>1 DEF Listed, Enqueue, AddSearchToQueue
    <3> QED  BY <1>1, <1>2, <2>1, <2>2, <3>1, <3>2 DEF DoneInv
  <2>7. CASE rsid[r] = s /\ (Acquire(r) \/ ReadPage(r) \/ PushProject(r))
    <3>1. /\ named' = named /\ (status'[s] = status[s] \/ status'[s] = "pending")
          /\ \A q \in Request : rpc'[q] \in {"cached_add", "cached_complete"} =>
                 rpc'[q] = rpc[q]
      BY <1>1, <2>7
      DEF Acquire, AcquireSearch, ReadPage, PushProject, NextProject, AddProjectsToQueue,
          ReqStep, storageVars
    <3> QED  BY <1>1, <1>2, <2>1, <2>2, <3>1 DEF DoneInv
  <2> QED  BY <2>3, <2>4, <2>5, <2>6, <2>7 DEF RequestStep
<1>6. CASE \E w \in Worker : WorkerStep(w)
  <2> PICK w \in Worker : WorkerStep(w)
    BY <1>6
  <2>1. UNCHANGED <<rpc, rsid, named>>
    BY <1>1, WorkerKeeps DEF requestVars
  <2>2. \A b \in handled'[s] : Found(s, b)'
    <3>1. CASE handled' = handled
      BY <1>1, <1>2, <3>1 DEF DoneInv
    <3>2. CASE handled' # handled
      <4>1. PICK t \in SearchID, b \in Branch :
                handled' = [handled EXCEPT ![t] = @ \cup {b}] /\ Found(t, b)'
        BY <1>1, <3>2, WorkerAdds
      <4> QED  BY <1>1, <1>2, <4>1 DEF DoneInv
    <3> QED  BY <3>1, <3>2
  <2>3. status'[s] = "completed" => AllFound(s)
    <3>1. CASE Complete(w) /\ wsid[w] = s
      <4>1. wpc[w] = "complete" /\ named[s]
        BY <1>1, <3>1 DEF Complete, SearchInv
      <4> QED  BY <1>1, <3>1, <4>1, ListedIsDone DEF DoneInv
    <3>2. CASE Complete(w) /\ wsid[w] # s
      BY <1>1, <3>2 DEF Complete, CompleteSearch, DoneInv
    <3>3. CASE MarkProcessing(w)
      BY <1>1, <3>3 DEF MarkProcessing, UpdateSearchStatus, DoneInv
    <3>4. CASE ~Complete(w) /\ ~MarkProcessing(w)
      <4>1. status' = status
        BY <3>4
        DEF WorkerStep, PeekSearch, PollNothing, GetDetails, DetailsMissing, TakeProject,
            GetProjectFromQueue, NoProjectLeft, ReadStatus, ScanNothing, ScanFinds,
            LookupPackage, CreatePackage, AttachPackage, ReportFailure, AddFailedRepository,
            storageVars, vars
      <4> QED  BY <1>1, <4>1 DEF DoneInv
    <3> QED  BY <3>1, <3>2, <3>3, <3>4
  <2> QED  BY <1>1, <1>2, <2>1, <2>2, <2>3 DEF DoneInv
<1>7. CASE UNCHANGED vars
  BY <1>3, <1>7 DEF vars, storageVars, requestVars
<1> QED  BY <1>1, <1>4, <1>5, <1>6, <1>7, OnlySteps

LEMMA CompleteInvariant ==
    Usual /\ Spec => []CompleteInv
<1> SUFFICES ASSUME Usual
             PROVE  Spec => []CompleteInv
  OBVIOUS
<1>1. Init => CompleteInv
  <2> SUFFICES ASSUME Init
               PROVE  CompleteInv
    OBVIOUS
  <2>1. RowsInv
    BY KnownDepsAssumption DEF Init, RowsInv
  <2>2. \A s \in SearchID : DoneInv(s)
    BY DEF Init, StorageInit, DoneInv, Absent
  <2> QED  BY <2>1, <2>2, EveryInit DEF CompleteInv
<1>2. CompleteInv /\ [Next]_vars => CompleteInv'
  <2> SUFFICES ASSUME CompleteInv, [Next]_vars
               PROVE  CompleteInv'
    OBVIOUS
  <2>1. EveryInv'
    BY EveryStep DEF CompleteInv
  <2>2. Undisturbed /\ Undisturbed' /\ TypeOK
    BY <2>1 DEF Usual, NothingFails, CompleteInv, EveryInv, TypeOK, Undisturbed
  <2>3. RowsInv'
    BY <2>2, RowsStep DEF CompleteInv
  <2> QED  BY <2>1, <2>2, <2>3, CompleteStep DEF CompleteInv
<1> QED  BY <1>1, <1>2, PTL DEF Spec

\* Where one worker runs, nothing fails or expires, each package is searched in
\* one way only and what MySQL knows of a package is all of it, a completed
\* search shows each branch whose manifests name the package.
THEOREM CompletedIsCompleteCorrect == Usual => (Spec => []CompletedIsComplete)
<1> SUFFICES ASSUME Usual
             PROVE  Spec => []CompletedIsComplete
  OBVIOUS
<1>1. CompleteInv => CompletedIsComplete
  BY DEF CompleteInv, DoneInv, AllFound, Found, CompletedIsComplete
<1> QED  BY <1>1, CompleteInvariant, PTL

----------------------------------------------------------------------------
(* Pages and batches of a set of ids.                                      *)

\* The ids of a set up to i.
Below(i, T) == {j \in T : j <= i}

LEMMA BelowType ==
    ASSUME NEW n \in Nat, NEW T, T \subseteq 1..n, NEW i \in Int
    PROVE  /\ IsFiniteSet(T) /\ Cardinality(T) \in Nat
           /\ Below(i, T) \subseteq T /\ IsFiniteSet(Below(i, T))
           /\ Position(i, T) = Cardinality(Below(i, T)) /\ Position(i, T) \in Nat
<1>1. IsFiniteSet(1..n)
  BY FS_Interval
<1>2. IsFiniteSet(T)
  BY <1>1, FS_Subset
<1>3. Below(i, T) \subseteq T
  BY DEF Below
<1>4. IsFiniteSet(Below(i, T))
  BY <1>2, <1>3, FS_Subset
<1>5. Position(i, T) = Cardinality(Below(i, T))
  BY DEF Position, Below
<1> QED  BY <1>2, <1>3, <1>4, <1>5, FS_CardinalityType

LEMMA PositionGrows ==
    ASSUME NEW n \in Nat, NEW T, T \subseteq 1..n, NEW i \in Int, NEW j \in Int, i <= j
    PROVE  Position(i, T) <= Position(j, T)
<1>1. Below(i, T) \subseteq Below(j, T)
  <2>1. \A k \in T : k <= i => k <= j
    OBVIOUS
  <2> QED  BY <2>1 DEF Below
<1>2. IsFiniteSet(Below(j, T))
  BY BelowType
<1>3. Cardinality(Below(i, T)) <= Cardinality(Below(j, T))
  BY <1>1, <1>2, FS_Subset
<1>4. Position(i, T) = Cardinality(Below(i, T)) /\ Position(j, T) = Cardinality(Below(j, T))
  BY BelowType
<1> QED  BY <1>3, <1>4

\* A batch holds the least of the ids: all of them, unless it is full.
LEMMA BatchIsLeast ==
    ASSUME NEW n \in Nat, NEW T, T \subseteq 1..n, NEW k \in Nat \ {0}
    PROVE  /\ Slice(T, 0, k) \subseteq T
           /\ \A i \in Slice(T, 0, k), j \in T : j <= i => j \in Slice(T, 0, k)
           /\ Cardinality(Slice(T, 0, k)) < k => Slice(T, 0, k) = T
<1> DEFINE S == Slice(T, 0, k)
<1>1. S = {i \in T : Position(i, T) \in 1..k}
  BY DEF Slice
<1>2. \A i \in T : i \in 1..n /\ i \in Int /\ i \in Nat /\ i <= i
  OBVIOUS
<1> HIDE DEF S
<1>3. ASSUME NEW i \in T
      PROVE  Position(i, T) \in Nat /\ Position(i, T) >= 1
  <2>1. /\ IsFiniteSet(Below(i, T)) /\ Position(i, T) = Cardinality(Below(i, T))
        /\ Position(i, T) \in Nat
    BY <1>2, BelowType
  <2>2. i \in Below(i, T)
    BY <1>2 DEF Below
  <2>3. Position(i, T) # 0 /\ Position(i, T) \in Nat
    BY <2>1, <2>2, FS_EmptySet
  <2> QED  BY <2>3
<1>4. \A i \in T : i \in S <=> Position(i, T) <= k
  BY <1>1, <1>3
<1>5. ASSUME NEW i \in S, NEW j \in T, j <= i
      PROVE  j \in S
  <2>1. i \in T /\ Position(i, T) <= k
    BY <1>1, <1>4
  <2>2. Position(j, T) <= Position(i, T)
    BY <1>2, <1>5, <2>1, PositionGrows
  <2> QED  BY <1>3, <1>4, <2>1, <2>2
<1>6. ASSUME S # T
      PROVE  ~(Cardinality(S) < k)
  <2> DEFINE Others == T \ S
  <2>1. Others \subseteq Nat /\ Others # {} /\ Others = T \ S
    BY <1>1, <1>2, <1>6
  <2> HIDE DEF Others
  <2>2. PICK i \in Others : \A j \in Others : i <= j
    BY <2>1, Least
  <2>3. i \in T /\ i \notin S /\ i \in Int /\ i - 1 \in Int
    BY <1>2, <2>1, <2>2
  <2>4. Position(i, T) > k
    BY <1>3, <1>4, <2>3
  <2>5. Below(i, T) = Below(i - 1, T) \cup {i} /\ i \notin Below(i - 1, T)
    <3>1. \A j \in T : j <= i <=> j <= i - 1 \/ j = i
      BY <1>2, <2>3
    <3>2. ~(i <= i - 1)
      BY <2>3
    <3> QED  BY <2>3, <3>1, <3>2 DEF Below
  <2>6. Below(i - 1, T) \subseteq S
    <3>1. \A j \in T : j <= i - 1 => ~(i <= j)
      BY <1>2, <2>3
    <3> QED  BY <2>1, <2>2, <3>1 DEF Below
  <2>7. IsFiniteSet(Below(i - 1, T)) /\ IsFiniteSet(S)
    BY <1>1, <2>3, BelowType, FS_Subset
  <2>8. Cardinality(Below(i, T)) = Cardinality(Below(i - 1, T)) + 1
    BY <2>5, <2>7, FS_AddElement
  <2>9. Cardinality(Below(i - 1, T)) <= Cardinality(S)
    BY <2>6, <2>7, FS_Subset
  <2>10. Cardinality(Below(i - 1, T)) \in Nat /\ Cardinality(S) \in Nat
    BY <2>7, FS_CardinalityType
  <2>11. Position(i, T) = Cardinality(Below(i, T))
    BY <2>3, BelowType
  <2> QED  BY <2>4, <2>8, <2>9, <2>10, <2>11
<1>7. S \subseteq T
  BY <1>1
<1> QED  BY <1>5, <1>6, <1>7 DEF S

Before(M, N) == \A i \in M, j \in N : i < j

\* The ids of a batch that fall on a page, after the first total ones.
OnPage(ids, total, skip, size) ==
    {i \in ids : total + Position(i, ids) \in skip + 1..skip + size}

\* What a further batch adds to a page and to a total.
LEMMA NextBatch ==
    ASSUME NEW M, NEW N, IsFiniteSet(M), IsFiniteSet(N),
           M \subseteq Int, N \subseteq Int, Before(M, N),
           NEW skip, NEW size
    PROVE  /\ Cardinality(M \cup N) = Cardinality(M) + Cardinality(N)
           /\ Slice(M \cup N, skip, size) =
                  Slice(M, skip, size) \cup OnPage(N, Cardinality(M), skip, size)
<1>1. ASSUME NEW A, NEW B, A \subseteq M, B \subseteq N
      PROVE  Cardinality(A \cup B) = Cardinality(A) + Cardinality(B)
  <2>1. IsFiniteSet(A) /\ IsFiniteSet(B)
    BY <1>1, FS_Subset
  <2>2. A \cap B = {}
    <3>1. \A i \in Int : ~(i < i)
      OBVIOUS
    <3> QED  BY <1>1, <3>1 DEF Before
  <2>3. Cardinality(A \cup B) = Cardinality(A) + Cardinality(B) - Cardinality(A \cap B)
    BY <2>1, FS_Union
  <2>4. Cardinality(A \cap B) = 0
    BY <2>2, FS_EmptySet
  <2>5. Cardinality(A) \in Nat /\ Cardinality(B) \in Nat
    BY <2>1, FS_CardinalityType
  <2> QED  BY <2>3, <2>4, <2>5
<1>2. ASSUME NEW i \in M
      PROVE  Position(i, M \cup N) = Position(i, M)
  <2>1. \A j \in N : ~(j <= i)
    BY DEF Before
  <2>2. {j \in M \cup N : j <= i} = {j \in M : j <= i}
    BY <2>1
  <2> QED  BY <2>2 DEF Position
<1>3. ASSUME NEW i \in N
      PROVE  Position(i, M \cup N) = Cardinality(M) + Position(i, N)
  <2>1. \A j \in M : j <= i
    BY DEF Before
  <2>2. {j \in M \cup N : j <= i} = M \cup {j \in N : j <= i}
    BY <2>1
  <2>3. Cardinality(M \cup {j \in N : j <= i}) = Cardinality(M) + Cardinality({j \in N : j <= i})
    BY <1>1
  <2> QED  BY <2>2, <2>3 DEF Position
<1>4. Slice(M \cup N, skip, size) =
          Slice(M, skip, size) \cup OnPage(N, Cardinality(M), skip, size)
  BY <1>2, <1>3 DEF Slice, OnPage
<1> QED  BY <1>1, <1>4

----------------------------------------------------------------------------
(* Clients change nothing that PackageSearch speaks about.                 *)

\* Every behaviour of requests, workers and clients is one of PackageSearch: the
\* theorems of PackageSearch and the one above hold while clients poll.
THEOREM PollingChangesNothing == ResultsSpec => Spec
<1>1. ResultsInit => Init
  BY DEF ResultsInit
<1>2. [ResultsNext]_resultVars => [Next]_vars
  BY DEF ResultsNext, Elsewhere, PollAction, Ask, CheckIfSearchIsRunning, ReadDetails,
         CountDependencies, FindPage, FetchBatch, GetProjectsQueueLength, GetSearchStatus,
         PollStep, resultVars
<1> QED  BY <1>1, <1>2, PTL DEF ResultsSpec, Spec

----------------------------------------------------------------------------
(* The rows.                                                               *)

RowsTypeOK ==
    /\ rows \in Seq(Package \X Branch)
    /\ {rows[i] : i \in 1..Len(rows)} = deps /\ Len(rows) = Cardinality(deps)
    /\ IsFiniteSet(deps)

LEMMA RowsInit == ResultsInit => RowsTypeOK
<1> SUFFICES ASSUME ResultsInit
             PROVE  RowsTypeOK
  OBVIOUS
<1> DEFINE n == Cardinality(KnownDeps)
<1>1. deps = KnownDeps /\ IsFiniteSet(KnownDeps) /\ n \in Nat
  BY RowsAssumption, FS_CardinalityType DEF ResultsInit, Init
<1>2. KnownDeps \subseteq Package \X Branch
  BY KnownDepsAssumption, ContainsAssumption
<1>3. /\ rows \in [1..n -> KnownDeps]
      /\ \A d \in KnownDeps : \E i \in DOMAIN rows : rows[i] = d
  BY DEF ResultsInit
<1> HIDE DEF n
<1>4. rows \in [1..n -> Package \X Branch]
  BY <1>2, <1>3
<1>5. rows \in Seq(Package \X Branch) /\ Len(rows) = n
  BY <1>1, <1>4, IsASeq, LenProperties
<1>6. {rows[i] : i \in 1..Len(rows)} = deps
  BY <1>1, <1>3, <1>5
<1> QED  BY <1>1, <1>5, <1>6 DEF RowsTypeOK, n

\* Only AttachPackage adds a dependency.
LEMMA DepsGrow ==
    ASSUME TypeOK, [Next]_vars
    PROVE  \/ deps' = deps
           \/ \E w \in Worker : /\ wpc[w] = "attach"
                                /\ deps' = deps \cup {<<PkgOf[wsid[w]], witem[w]>>}
                                /\ PkgOf[wsid[w]] \in Package /\ witem[w] \in Branch
<1>1. CASE UNCHANGED vars
  BY <1>1 DEF vars, dbVars
<1>2. CASE \E r \in Request, s \in SearchID : Arrive(r, s)
  BY <1>2 DEF Arrive, dbVars
<1>3. CASE \E r \in Request : RequestStep(r) \/ RequestFault(r)
  BY <1>3 DEF RequestStep, Acquire, FindDependencies, AddCached, CompleteCached, ReadPage,
              PushProject, Enqueue, RequestFault, RequestDies, ReplyLost,
              FindDependenciesFails, PushFails, dbVars
<1>4. CASE \E w \in Worker : WorkerStep(w) \/ WorkerFault(w)
  <2> PICK w \in Worker : WorkerStep(w) \/ WorkerFault(w)
    BY <1>4
  <2>1. CASE AttachPackage(w)
    <3>1. wpc[w] = "attach" /\ deps' = deps \cup {<<PkgOf[wsid[w]], witem[w]>>}
      BY <2>1 DEF AttachPackage
    <3>2. wsid[w] \in SearchID /\ witem[w] \in Branch
      BY <3>1 DEF TypeOK, Holding, InProcessProject
    <3> QED  BY <3>1, <3>2, PkgOfAssumption
  <2>2. CASE ~AttachPackage(w)
    BY <2>2 DEF WorkerStep, PeekSearch, PollNothing, GetDetails, DetailsMissing,
                TakeProject, NoProjectLeft, Complete, ReadStatus, MarkProcessing,
                ScanNothing, ScanFinds, LookupPackage, CreatePackage, ReportFailure,
                WorkerFault, WorkerDies, TakeRetried, MarkFails, ProcessFails, dbVars, vars
  <2> QED  BY <2>1, <2>2
<1>5. CASE \E s \in SearchID : Expire(s)
  BY <1>5 DEF Expire, dbVars
<1> QED  BY <1>1, <1>2, <1>3, <1>4, <1>5 DEF Next

\* A table of rows never changes but at its end.
LEMMA RowsStay ==
    ASSUME TypeOK, RowsTypeOK, [ResultsNext]_resultVars
    PROVE  /\ RowsTypeOK' /\ Len(rows') \in Nat /\ Len(rows) \in 0..Len(rows')
           /\ \A i \in 1..Len(rows) : rows'[i] = rows[i]
           /\ rows' # rows => /\ Len(rows') = Len(rows) + 1
                              /\ rows'[Len(rows')] \in deps' \ deps
<1>1. rows \in Seq(Package \X Branch) /\ Len(rows) \in Nat
  BY DEF RowsTypeOK
<1>2. CASE rows' = rows /\ deps' = deps
  BY <1>1, <1>2 DEF RowsTypeOK
<1>3. CASE ~(rows' = rows /\ deps' = deps)
  <2>1. [Next]_vars /\ NewRow
    BY <1>3
    DEF ResultsNext, Elsewhere, PollAction, Ask, CheckIfSearchIsRunning, ReadDetails,
        CountDependencies, FindPage, FetchBatch, GetProjectsQueueLength, GetSearchStatus,
        PollStep, resultVars, vars, dbVars
  <2>2. deps' # deps
    BY <1>3, <2>1 DEF NewRow
  <2>3. PICK p \in Package, b \in Branch : deps' = deps \cup {<<p, b>>}
    BY <2>1, <2>2, DepsGrow
  <2> DEFINE d == <<p, b>>
  <2>4. d \notin deps /\ d \in Package \X Branch
    BY <2>2, <2>3
  <2>5. deps' = deps \cup {d}
    BY <2>3
  <2> HIDE DEF d
  <2>6. (CHOOSE e \in deps' : e \notin deps) = d
    BY <2>4, <2>5
  <2>7. rows' = Append(rows, d)
    BY <2>1, <2>2, <2>6 DEF NewRow
  <2>8. /\ rows' \in Seq(Package \X Branch)
        /\ Len(rows') = Len(rows) + 1
        /\ \A i \in 1..Len(rows) : rows'[i] = rows[i]
        /\ rows'[Len(rows) + 1] = d
    BY <1>1, <2>4, <2>7, AppendProperties
  <2>9. {rows'[i] : i \in 1..Len(rows')} = deps'
    <3>1. \A i : i \in 1..Len(rows') <=> i \in 1..Len(rows) \/ i = Len(rows) + 1
      BY <1>1, <2>8
    <3>2. \A e : (\E i \in 1..Len(rows') : rows'[i] = e)
                 <=> (\E i \in 1..Len(rows) : rows[i] = e) \/ e = d
      BY <2>8, <3>1
    <3>3. \A e : e \in deps <=> \E i \in 1..Len(rows) : rows[i] = e
      BY DEF RowsTypeOK
    <3> QED  BY <2>5, <3>2, <3>3
  <2>10. IsFiniteSet(deps') /\ Cardinality(deps') = Cardinality(deps) + 1
    <3>1. IsFiniteSet(deps)
      BY DEF RowsTypeOK
    <3> QED  BY <2>4, <2>5, <3>1, FS_AddElement
  <2>11. Len(rows') \in Nat /\ Len(rows) \in 0..Len(rows') /\ d \in deps' \ deps
    BY <1>1, <2>4, <2>5, <2>8
  <2>12. RowsTypeOK'
    BY <2>8, <2>9, <2>10 DEF RowsTypeOK
  <2> QED  BY <2>8, <2>11, <2>12
<1> QED  BY <1>2, <1>3

----------------------------------------------------------------------------
(* Answers.                                                                *)

\* What an answer holds is what the rows were at moments of the call.
AtMoments(a) ==
    \E n \in a.since..Len(rows), m \in a.since..Len(rows) :
        /\ a.total = Cardinality(Matching(a.sid, n))
        /\ a.found = PageOfResults(a.sid, a.page, m)
        /\ IF a.sid \in Versioned THEN m = n ELSE n <= m

\* The cursor has counted, and has put on the page, what there is up to the id
\* it has come to; the count of a search without a version is of a moment.
ReadInv(pc, a) ==
    /\ a.since \in 0..Len(rows)
    /\ pc \in {"status", "details"} => a.total = 0 /\ a.found = {} /\ a.after = 0
    /\ pc \in {"count", "rows"} => a.sid \notin Versioned
    /\ pc = "cursor" =>
            /\ a.sid \in Versioned /\ a.after \in 0..Len(rows)
            /\ a.total = Cardinality(Matching(a.sid, a.after))
            /\ a.found = PageOfResults(a.sid, a.page, a.after)
    /\ pc = "rows" =>
            \E n \in a.since..Len(rows) : a.total = Cardinality(Matching(a.sid, n))
    /\ pc \in {"left", "status again", "answered"} => AtMoments(a)

Going(c) == poll[c] \in Reading \cup {"answered"}

AnswersInv ==
    /\ RowsTypeOK
    /\ poll \in [Client -> PollPC]
    /\ answer \in [Client -> Answer \cup {NoAnswer}]
    /\ \A c \in Client : poll[c] # "idle" => answer[c] \in Answer
    /\ \A c \in Client : Going(c) => ReadInv(poll[c], answer[c])

LEMMA MatchingStays ==
    ASSUME Len(rows) \in Nat, Len(rows') \in Nat, Len(rows) <= Len(rows'),
           \A i \in 1..Len(rows) : rows'[i] = rows[i],
           NEW s, NEW n \in 0..Len(rows)
    PROVE  /\ n \in 0..Len(rows')
           /\ OfPackage(s, n)' = OfPackage(s, n)
           /\ Matching(s, n)' = Matching(s, n)
           /\ \A page : PageOfResults(s, page, n)' = PageOfResults(s, page, n)
<1>1. \A i \in 1..n : rows'[i] = rows[i]
  OBVIOUS
<1>2. OfPackage(s, n)' = OfPackage(s, n)
  BY <1>1 DEF OfPackage
<1>3. \A i \in OfPackage(s, n) : Matches(s, i)' <=> Matches(s, i)
  BY <1>1 DEF OfPackage, Matches
<1>4. Matching(s, n)' = Matching(s, n)
  BY <1>2, <1>3 DEF Matching
<1> QED  BY <1>2, <1>4 DEF PageOfResults

LEMMA ReadingStays ==
    ASSUME Len(rows) \in Nat, Len(rows') \in Nat, Len(rows) <= Len(rows'),
           \A i \in 1..Len(rows) : rows'[i] = rows[i],
           NEW pc, NEW a \in Answer, ReadInv(pc, a)
    PROVE  ReadInv(pc, a)'
<1>1. a.since \in Nat /\ a.since \in 0..Len(rows')
  <2>1. a.since \in 0..Len(rows)
    BY DEF ReadInv
  <2>2. \A i \in 0..Len(rows) : i \in Nat /\ i \in 0..Len(rows')
    OBVIOUS
  <2> QED  BY <2>1, <2>2
<1>2. \A n \in a.since..Len(rows) : n \in 0..Len(rows) /\ n \in a.since..Len(rows')
  BY <1>1
<1>3. AtMoments(a) => AtMoments(a)'
  <2> SUFFICES ASSUME AtMoments(a)
               PROVE  AtMoments(a)'
    OBVIOUS
  <2> PICK n \in a.since..Len(rows), m \in a.since..Len(rows) :
              /\ a.total = Cardinality(Matching(a.sid, n))
              /\ a.found = PageOfResults(a.sid, a.page, m)
              /\ IF a.sid \in Versioned THEN m = n ELSE n <= m
    BY DEF AtMoments
  <2>1. n \in a.since..Len(rows') /\ m \in a.since..Len(rows')
    BY <1>2
  <2>2. Matching(a.sid, n)' = Matching(a.sid, n)
    BY <1>2, MatchingStays
  <2>3. PageOfResults(a.sid, a.page, m)' = PageOfResults(a.sid, a.page, m)
    BY <1>2, MatchingStays
  <2> QED  BY <2>1, <2>2, <2>3 DEF AtMoments
<1>4. pc = "cursor" =>
          /\ a.sid \in Versioned /\ a.after \in 0..Len(rows')
          /\ a.total = Cardinality(Matching(a.sid, a.after)')
          /\ a.found = PageOfResults(a.sid, a.page, a.after)'
  <2> SUFFICES ASSUME pc = "cursor"
               PROVE  /\ a.sid \in Versioned /\ a.after \in 0..Len(rows')
                      /\ a.total = Cardinality(Matching(a.sid, a.after)')
                      /\ a.found = PageOfResults(a.sid, a.page, a.after)'
    OBVIOUS
  <2>1. /\ a.sid \in Versioned /\ a.after \in 0..Len(rows)
        /\ a.total = Cardinality(Matching(a.sid, a.after))
        /\ a.found = PageOfResults(a.sid, a.page, a.after)
    BY DEF ReadInv
  <2>2. /\ Matching(a.sid, a.after)' = Matching(a.sid, a.after)
        /\ PageOfResults(a.sid, a.page, a.after)' = PageOfResults(a.sid, a.page, a.after)
    BY <2>1, MatchingStays
  <2> QED  BY <2>1, <2>2
<1>5. pc = "rows" =>
          \E n \in a.since..Len(rows') : a.total = Cardinality(Matching(a.sid, n)')
  <2> SUFFICES ASSUME pc = "rows"
               PROVE  \E n \in a.since..Len(rows') : a.total = Cardinality(Matching(a.sid, n)')
    OBVIOUS
  <2> PICK n \in a.since..Len(rows) : a.total = Cardinality(Matching(a.sid, n))
    BY DEF ReadInv
  <2>1. Matching(a.sid, n)' = Matching(a.sid, n)
    BY <1>2, MatchingStays
  <2> QED  BY <1>2, <2>1
<1> QED  BY <1>1, <1>3, <1>4, <1>5 DEF ReadInv

LEMMA OfPackageType ==
    ASSUME NEW s, NEW n \in Nat
    PROVE  /\ OfPackage(s, n) \subseteq 1..n /\ Matching(s, n) \subseteq 1..n
           /\ IsFiniteSet(Matching(s, n)) /\ Cardinality(Matching(s, n)) \in Nat
           /\ IsFiniteSet(OfPackage(s, n)) /\ Cardinality(OfPackage(s, n)) \in Nat
           /\ OfPackage(s, 0) = {} /\ Matching(s, 0) = {}
           /\ s \notin Versioned => Matching(s, n) = OfPackage(s, n)
<1>1. OfPackage(s, n) \subseteq 1..n /\ Matching(s, n) \subseteq 1..n
  BY DEF OfPackage, Matching
<1>2. IsFiniteSet(1..n)
  BY FS_Interval
<1>3. IsFiniteSet(Matching(s, n)) /\ IsFiniteSet(OfPackage(s, n))
  BY <1>1, <1>2, FS_Subset
<1>4. OfPackage(s, 0) = {} /\ Matching(s, 0) = {}
  BY DEF OfPackage, Matching
<1>5. s \notin Versioned => Matching(s, n) = OfPackage(s, n)
  BY DEF Matching, Matches
<1> QED  BY <1>1, <1>3, <1>4, <1>5, FS_CardinalityType

\* A batch takes the cursor on: to its last id, or to the end of the rows.
LEMMA BatchCovers ==
    ASSUME Len(rows) \in Nat, NEW s, NEW after \in 0..Len(rows),
           Batch(s, after) # {}
    PROVE  LET last == CHOOSE i \in Batch(s, after) : \A j \in Batch(s, after) : j <= i
           IN  /\ last \in 0..Len(rows) /\ after < last
               /\ OfPackage(s, last) = OfPackage(s, after) \cup Batch(s, after)
<1> DEFINE T == {i \in OfPackage(s, Len(rows)) : i > after}
           B == Batch(s, after)
           last == CHOOSE i \in B : \A j \in B : j <= i
<1>1. T \subseteq 1..Len(rows)
  BY OfPackageType
<1>2. B = Slice(T, 0, BatchSize) /\ BatchSize \in Nat \ {0}
  BY PagingAssumption DEF Batch
<1>3. T = {i \in 1..Len(rows) : rows[i][1] = PkgOf[s] /\ i > after}
  BY DEF OfPackage
<1> HIDE DEF T, B
<1>4. B \subseteq T /\ \A i \in B, j \in T : j <= i => j \in B
  BY <1>1, <1>2, BatchIsLeast
<1>5. B \subseteq 0..Len(rows) /\ B # {}
  <2>1. \A i \in 1..Len(rows) : i \in 0..Len(rows)
    OBVIOUS
  <2>2. B # {}
    BY DEF B
  <2> QED  BY <1>1, <1>4, <2>1, <2>2
<1>6. \E i \in B : \A j \in B : j <= i
  BY <1>5, Greatest
<1> HIDE DEF last
<1>7. last \in B /\ \A j \in B : j <= last
  BY <1>6 DEF last
<1>8. last \in 1..Len(rows) /\ last > after
  BY <1>3, <1>4, <1>7
<1>9. ASSUME NEW i \in 1..Len(rows), rows[i][1] = PkgOf[s]
      PROVE  i <= last <=> i <= after \/ i \in B
  <2>1. CASE i <= after
    BY <1>8, <2>1
  <2>2. CASE ~(i <= after)
    <3>1. i \in T
      BY <1>3, <1>9, <2>2
    <3> QED  BY <1>4, <1>7, <2>2, <3>1
  <2> QED  BY <2>1, <2>2
<1>10. \A i \in B : i \in 1..Len(rows) /\ rows[i][1] = PkgOf[s]
  BY <1>3, <1>4
<1>11. \A i : i \in OfPackage(s, last) <=> i \in OfPackage(s, after) \cup B
  <2>1. \A i : i \in OfPackage(s, last) <=>
                   i \in 1..Len(rows) /\ i <= last /\ rows[i][1] = PkgOf[s]
    BY <1>8 DEF OfPackage
  <2>2. \A i : i \in OfPackage(s, after) <=>
                   i \in 1..Len(rows) /\ i <= after /\ rows[i][1] = PkgOf[s]
    BY DEF OfPackage
  <2> QED  BY <1>9, <1>10, <2>1, <2>2
<1>12. OfPackage(s, last) = OfPackage(s, after) \cup B
  BY <1>11
<1> QED  BY <1>8, <1>12 DEF B, last

\* A batch that is not full is the last.
LEMMA LastBatch ==
    ASSUME Len(rows) \in Nat, NEW s, NEW after \in 0..Len(rows),
           Cardinality(Batch(s, after)) < BatchSize
    PROVE  OfPackage(s, Len(rows)) = OfPackage(s, after) \cup Batch(s, after)
<1> DEFINE T == {i \in OfPackage(s, Len(rows)) : i > after}
<1>1. T \subseteq 1..Len(rows)
  BY OfPackageType
<1>2. Batch(s, after) = Slice(T, 0, BatchSize) /\ BatchSize \in Nat \ {0}
  BY PagingAssumption DEF Batch
<1>3. T = {i \in 1..Len(rows) : rows[i][1] = PkgOf[s] /\ i > after}
  BY DEF OfPackage
<1> HIDE DEF T
<1>4. Batch(s, after) = T
  BY <1>1, <1>2, BatchIsLeast
<1>5. \A i \in 1..Len(rows) : i > after <=> ~(i <= after)
  OBVIOUS
<1>6. \A i : i \in OfPackage(s, after) <=>
                 i \in 1..Len(rows) /\ i <= after /\ rows[i][1] = PkgOf[s]
  BY DEF OfPackage
<1>7. \A i : i \in OfPackage(s, Len(rows)) <=> i \in 1..Len(rows) /\ rows[i][1] = PkgOf[s]
  BY DEF OfPackage
<1> QED  BY <1>3, <1>4, <1>5, <1>6, <1>7

Matched(s, after) == {i \in Batch(s, after) : Matches(s, i)}

\* What is counted, and put on the page, with a batch.
LEMMA BatchAdds ==
    ASSUME Len(rows) \in Nat, NEW s, NEW after \in 0..Len(rows), NEW page \in Pages,
           NEW n \in 0..Len(rows),
           OfPackage(s, n) = OfPackage(s, after) \cup Batch(s, after)
    PROVE  /\ Cardinality(Matching(s, n)) =
                  Cardinality(Matching(s, after)) + Cardinality(Matched(s, after))
           /\ PageOfResults(s, page, n) =
                  PageOfResults(s, page, after)
                  \cup OnPage(Matched(s, after), Cardinality(Matching(s, after)),
                              Offset(page), ResultsPage)
<1> DEFINE matched == Matched(s, after)
           M == Matching(s, after)
<1>1. Matching(s, n) = M \cup matched
  BY DEF Matching, Matched
<1>2. M \subseteq 1..Len(rows) /\ \A i \in M : i <= after
  <2>1. M \subseteq 1..after
    BY OfPackageType
  <2> QED  BY <2>1
<1>3. matched \subseteq 1..Len(rows) /\ \A i \in matched : after < i
  <2> DEFINE T == {i \in OfPackage(s, Len(rows)) : i > after}
  <2>1. Batch(s, after) \subseteq T
    BY DEF Batch, Slice
  <2>2. T \subseteq 1..Len(rows)
    BY OfPackageType
  <2>3. matched \subseteq Batch(s, after)
    BY DEF Matched
  <2> QED  BY <2>1, <2>2, <2>3
<1> HIDE DEF matched, M
<1>4. Before(M, matched)
  BY <1>2, <1>3 DEF Before
<1>5. /\ Cardinality(M \cup matched) = Cardinality(M) + Cardinality(matched)
      /\ Slice(M \cup matched, Offset(page), ResultsPage) =
             Slice(M, Offset(page), ResultsPage)
             \cup OnPage(matched, Cardinality(M), Offset(page), ResultsPage)
  <2>1. M \subseteq Int /\ matched \subseteq Int
    BY <1>2, <1>3
  <2>2. IsFiniteSet(M) /\ IsFiniteSet(matched)
    <3>1. IsFiniteSet(1..Len(rows))
      BY FS_Interval
    <3> QED  BY <1>2, <1>3, <3>1, FS_Subset
  <2> QED  BY <1>4, <2>1, <2>2, NextBatch
<1> QED  BY <1>1, <1>5 DEF PageOfResults, M, matched

LEMMA AnswersInit == ResultsInit => AnswersInv
<1> SUFFICES ASSUME ResultsInit
             PROVE  AnswersInv
  OBVIOUS
<1>1. /\ poll = [c \in Client |-> "idle"] /\ answer = [c \in Client |-> NoAnswer]
      /\ RowsTypeOK
  BY RowsInit DEF ResultsInit
<1>2. poll \in [Client -> PollPC] /\ \A c \in Client : poll[c] = "idle" /\ ~Going(c)
  BY <1>1 DEF PollPC, Reading, Going
<1> QED  BY <1>1, <1>2 DEF AnswersInv

LEMMA SameMoments ==
    ASSUME NEW a, NEW b, b.sid = a.sid, b.page = a.page, b.since = a.since,
           b.total = a.total, b.found = a.found, AtMoments(a)
    PROVE  AtMoments(b)
BY DEF AtMoments

\* One moment is enough.
LEMMA OneMoment ==
    ASSUME NEW a, NEW n \in a.since..Len(rows), a.since \in Nat, Len(rows) \in Nat,
           a.total = Cardinality(Matching(a.sid, n)),
           a.found = PageOfResults(a.sid, a.page, n)
    PROVE  AtMoments(a)
<1>1. n <= n
  OBVIOUS
<1> QED  BY <1>1 DEF AtMoments

\* An answer after a batch: the cursor is at its last id, or at the end.
LEMMA FetchReads ==
    ASSUME AnswersInv, NEW c \in Client, FetchBatch(c)
    PROVE  /\ answer'[c] \in Answer /\ ReadInv(poll'[c], answer'[c])
           /\ answer'[c].sid = answer[c].sid /\ answer'[c].finished = answer[c].finished
           /\ poll'[c] = "left" =>
                  /\ answer'[c].total = Cardinality(Matching(answer[c].sid, Len(rows)))
                  /\ answer'[c].found =
                         PageOfResults(answer[c].sid, answer'[c].page, Len(rows))
<1> PICK a \in Answer : a = answer[c]
  BY DEF AnswersInv, FetchBatch, PollStep
<1> DEFINE batch == Batch(a.sid, a.after)
           matched == Matched(a.sid, a.after)
           total == Cardinality(Matching(a.sid, a.after))
           on == OnPage(matched, a.total, Offset(a.page), ResultsPage)
           last == CHOOSE i \in batch : \A j \in batch : j <= i
           b == answer'[c]
<1>1. /\ a.since \in 0..Len(rows) /\ a.since \in Nat /\ Len(rows) \in Nat
      /\ a.sid \in Versioned /\ a.after \in 0..Len(rows) /\ a.sid \in SearchID
      /\ a.total = total
      /\ a.found = PageOfResults(a.sid, a.page, a.after)
      /\ a.page \in Pages /\ a.found \subseteq Nat
  <2>1. ReadInv("cursor", a) /\ rows \in Seq(Package \X Branch)
    BY DEF FetchBatch, PollStep, AnswersInv, Going, Reading, RowsTypeOK
  <2> QED  BY <2>1 DEF ReadInv, Answer
<1>2. /\ b = [a EXCEPT !.found = a.found \cup on, !.total = a.total + Cardinality(matched),
                       !.after = IF batch = {} THEN a.after ELSE last]
      /\ poll'[c] = IF Cardinality(batch) < BatchSize THEN "left" ELSE "cursor"
  <2>1. answer \in [Client -> Answer \cup {NoAnswer}] /\ poll \in [Client -> PollPC]
    BY DEF AnswersInv
  <2> DEFINE d == answer[c]
             dmatched == Matched(d.sid, d.after)
             don == OnPage(dmatched, d.total, Offset(d.page), ResultsPage)
             dbatch == Batch(d.sid, d.after)
             dlast == CHOOSE i \in dbatch : \A j \in dbatch : j <= i
  <2>2. /\ poll' = [poll EXCEPT ![c] = IF Cardinality(dbatch) < BatchSize
                                       THEN "left" ELSE "cursor"]
        /\ answer' = [answer EXCEPT
               ![c].found = @ \cup don, ![c].total = @ + Cardinality(dmatched),
               ![c].after = IF dbatch = {} THEN @ ELSE dlast]
    BY Zenon DEF FetchBatch, PollStep, Matched, OnPage
  <2>3. dmatched = matched /\ don = on /\ dbatch = batch /\ dlast = last
    OBVIOUS
  <2> HIDE DEF batch, last, matched, on, dmatched, don, dbatch, dlast
  <2> QED  BY <2>1, <2>2, <2>3
<1>3. batch \subseteq 1..Len(rows) /\ IsFiniteSet(batch)
  <2>1. batch \subseteq OfPackage(a.sid, Len(rows))
    BY DEF Batch, Slice
  <2> QED  BY <1>1, <2>1, OfPackageType, FS_Subset
<1>4. matched \subseteq batch /\ Cardinality(matched) \in Nat /\ on \subseteq Nat
  <2>1. matched \subseteq batch
    BY DEF Matched
  <2>2. on \subseteq matched
    BY DEF OnPage
  <2> QED  BY <1>3, <2>1, <2>2, FS_Subset, FS_CardinalityType
<1>5. batch # {} =>
          /\ last \in 0..Len(rows) /\ a.after < last
          /\ OfPackage(a.sid, last) = OfPackage(a.sid, a.after) \cup batch
  BY <1>1, BatchCovers
<1>6. Cardinality(batch) < BatchSize =>
          OfPackage(a.sid, Len(rows)) = OfPackage(a.sid, a.after) \cup batch
  BY <1>1, LastBatch
<1>7. \A n \in 0..Len(rows) :
          OfPackage(a.sid, n) = OfPackage(a.sid, a.after) \cup batch =>
              /\ Cardinality(Matching(a.sid, n)) = total + Cardinality(matched)
              /\ PageOfResults(a.sid, a.page, n) = a.found \cup on
  BY <1>1, BatchAdds
<1>8. total \in Nat
  BY <1>1, OfPackageType
<1>9. Cardinality(batch) < BatchSize \/ batch # {}
  <2>1. Cardinality({}) = 0 /\ BatchSize > 0
    BY FS_EmptySet, PagingAssumption
  <2> QED  BY <2>1
<1> HIDE DEF batch, matched, total, on, last, b
<1>10. /\ b \in Answer
       /\ b.sid = a.sid /\ b.page = a.page /\ b.since = a.since
       /\ b.found = a.found \cup on /\ b.total = a.total + Cardinality(matched)
       /\ b.after = IF batch = {} THEN a.after ELSE last
       /\ b.finished = a.finished
  <2>1. (IF batch = {} THEN a.after ELSE last) \in Nat
    BY <1>1, <1>5
  <2>2. a.found \cup on \in SUBSET Nat /\ a.total + Cardinality(matched) \in Nat
    <3>1. a.found \cup on \in SUBSET Nat
      BY <1>1, <1>4
    <3>2. total + Cardinality(matched) \in Nat
      BY <1>4, <1>8
    <3> QED  BY <1>1, <3>1, <3>2
  <2> QED  BY <1>2, <2>1, <2>2 DEF Answer
<1>11. CASE Cardinality(batch) < BatchSize
  <2>1. Len(rows) \in b.since..Len(rows) /\ Len(rows) \in 0..Len(rows)
    BY <1>1, <1>10
  <2>2. /\ b.total = Cardinality(Matching(b.sid, Len(rows)))
        /\ b.found = PageOfResults(b.sid, b.page, Len(rows))
    BY <1>1, <1>6, <1>7, <1>10, <1>11, <2>1
  <2>3. b.since \in 0..Len(rows) /\ b.since \in Nat
    BY <1>1, <1>10
  <2>4. AtMoments(b)
    BY <1>1, <2>1, <2>2, <2>3, OneMoment
  <2>5. poll'[c] = "left"
    BY <1>2, <1>11
  <2> QED  BY <1>10, <2>2, <2>3, <2>4, <2>5 DEF ReadInv, b
<1>12. CASE ~(Cardinality(batch) < BatchSize)
  <2>1. batch # {} /\ poll'[c] = "cursor" /\ b.after = last
    BY <1>2, <1>9, <1>10, <1>12
  <2>2. /\ b.after \in 0..Len(rows)
        /\ b.total = Cardinality(Matching(b.sid, b.after))
        /\ b.found = PageOfResults(b.sid, b.page, b.after)
    BY <1>1, <1>5, <1>7, <1>10, <2>1
  <2> QED  BY <1>1, <1>10, <2>1, <2>2 DEF ReadInv, b
<1> QED  BY <1>11, <1>12

LEMMA PollReads ==
    ASSUME TypeOK, AnswersInv, NEW c \in Client, PollAction(c)
    PROVE  answer'[c] \in Answer /\ ReadInv(poll'[c], answer'[c])
<1>1. Len(rows) \in Nat
  BY DEF AnswersInv, RowsTypeOK
<1>2. CASE \E s \in SearchID, page \in Pages : Ask(c, s, page)
  <2> PICK s \in SearchID, page \in Pages : Ask(c, s, page)
    BY <1>2
  <2> DEFINE b == [sid |-> s, page |-> page, finished |-> FALSE, found |-> {},
                   total |-> 0, after |-> 0, left |-> 0, status |-> Absent,
                   since |-> Len(rows)]
  <2>1. answer'[c] = b /\ poll'[c] = "status"
    BY DEF Ask, AnswersInv
  <2>2. b \in Answer
    BY <1>1 DEF Answer, Status
  <2>3. /\ b.total = 0 /\ b.found = {} /\ b.after = 0
        /\ b.since \in 0..Len(rows)
    BY <1>1
  <2> HIDE DEF b
  <2>4. ReadInv("status", b)
    BY <2>3 DEF ReadInv
  <2> QED  BY <2>1, <2>2, <2>4
<1>3. CASE ~\E s \in SearchID, page \in Pages : Ask(c, s, page)
  <2>1. PollAction(c) /\ poll[c] \in Reading /\ poll[c] # "idle" /\ poll[c] # "answered"
    BY <1>3
    DEF PollAction, CheckIfSearchIsRunning, ReadDetails, CountDependencies, FindPage,
        FetchBatch, GetProjectsQueueLength, GetSearchStatus, PollStep, Reading
  <2> PICK a \in Answer : a = answer[c]
    BY <2>1 DEF AnswersInv
  <2>2. /\ ReadInv(poll[c], a) /\ a.since \in 0..Len(rows) /\ a.since \in Nat
        /\ a.sid \in SearchID
    BY <2>1 DEF AnswersInv, Going, ReadInv, Answer
  <2>3. CASE CheckIfSearchIsRunning(c)
    <3> PICK x \in BOOLEAN : x = (status[a.sid] \notin {"pending", "processing"})
      OBVIOUS
    <3> DEFINE b == [a EXCEPT !.finished = x]
    <3>1. answer'[c] = b /\ poll[c] = "status" /\ poll'[c] = "details"
      BY <2>3 DEF CheckIfSearchIsRunning, PollStep, AnswersInv
    <3>2. b \in Answer /\ b.since = a.since /\ b.total = a.total /\ b.found = a.found
          /\ b.after = a.after
      BY DEF Answer
    <3> HIDE DEF b
    <3> QED  BY <2>2, <3>1, <3>2 DEF ReadInv
  <2>4. CASE ReadDetails(c)
    <3>1. answer'[c] = a /\ poll[c] = "details"
      BY <2>4 DEF ReadDetails, PollStep
    <3>2. poll'[c] \in {"failed", "cursor", "count"}
          /\ (poll'[c] = "cursor" => a.sid \in Versioned)
          /\ (poll'[c] = "count" => a.sid \notin Versioned)
      BY <2>4 DEF ReadDetails, PollStep, AnswersInv
    <3>3. a.total = 0 /\ a.found = {} /\ a.after = 0
      BY <2>2, <3>1 DEF ReadInv
    <3>4. Matching(a.sid, 0) = {} /\ Cardinality({}) = 0 /\ 0 \in 0..Len(rows)
      BY <1>1, OfPackageType, FS_EmptySet
    <3>5. PageOfResults(a.sid, a.page, 0) = {}
      BY <3>4 DEF PageOfResults, Slice
    <3> QED  BY <2>2, <3>1, <3>2, <3>3, <3>4, <3>5 DEF ReadInv
  <2>5. CASE CountDependencies(c)
    <3> PICK n \in Nat : n = Cardinality(OfPackage(a.sid, Len(rows)))
      BY <1>1, OfPackageType
    <3> DEFINE b == [a EXCEPT !.total = n]
    <3>1. answer'[c] = b /\ poll[c] = "count" /\ poll'[c] = "rows"
      BY <2>5 DEF CountDependencies, PollStep, AnswersInv
    <3>2. b \in Answer /\ b.since = a.since /\ b.total = n /\ b.sid = a.sid
      BY DEF Answer
    <3> HIDE DEF b
    <3>3. a.sid \notin Versioned
      BY <2>2, <3>1 DEF ReadInv
    <3>4. n = Cardinality(Matching(a.sid, Len(rows)))
      BY <1>1, <3>3, OfPackageType
    <3>5. Len(rows) \in a.since..Len(rows)
      BY <1>1, <2>2
    <3> QED  BY <2>2, <3>1, <3>2, <3>3, <3>4, <3>5 DEF ReadInv
  <2>6. CASE FindPage(c)
    <3> DEFINE ids == Slice(OfPackage(a.sid, Len(rows)), Offset(a.page), ResultsPage)
               b == [a EXCEPT !.found = ids]
    <3>1. answer'[c] = b /\ poll[c] = "rows" /\ poll'[c] = "left"
      BY <2>6 DEF FindPage, PollStep, AnswersInv
    <3>2. a.sid \notin Versioned
      BY <2>2, <3>1 DEF ReadInv
    <3>3. ids = PageOfResults(a.sid, a.page, Len(rows)) /\ ids \subseteq Nat
      <4>1. Matching(a.sid, Len(rows)) = OfPackage(a.sid, Len(rows))
            /\ OfPackage(a.sid, Len(rows)) \subseteq 1..Len(rows)
        BY <1>1, <3>2, OfPackageType
      <4>2. ids \subseteq OfPackage(a.sid, Len(rows))
        BY DEF Slice
      <4> QED  BY <4>1, <4>2 DEF PageOfResults
    <3> HIDE DEF ids
    <3>4. /\ b \in Answer /\ b.since = a.since /\ b.total = a.total /\ b.sid = a.sid
          /\ b.page = a.page /\ b.found = ids
      BY <3>3 DEF Answer
    <3> HIDE DEF b
    <3>5. PICK n \in a.since..Len(rows) : a.total = Cardinality(Matching(a.sid, n))
      BY <2>2, <3>1 DEF ReadInv
    <3>6. Len(rows) \in a.since..Len(rows) /\ n <= Len(rows)
      BY <1>1, <2>2
    <3>7. AtMoments(b)
      BY <3>2, <3>3, <3>4, <3>5, <3>6 DEF AtMoments
    <3> QED  BY <2>2, <3>1, <3>4, <3>7 DEF ReadInv
  <2>7. CASE FetchBatch(c)
    BY <2>7, FetchReads
  <2>8. CASE GetProjectsQueueLength(c)
    <3> PICK n \in Nat : n = Len(queue[a.sid])
      BY <2>2 DEF TypeOK, StorageTypeOK
    <3> DEFINE b == [a EXCEPT !.left = n]
    <3>1. answer'[c] = b /\ poll[c] = "left" /\ poll'[c] = "status again"
      BY <2>8 DEF GetProjectsQueueLength, PollStep, AnswersInv
    <3>2. /\ b \in Answer /\ b.since = a.since /\ b.total = a.total /\ b.sid = a.sid
          /\ b.page = a.page /\ b.found = a.found
      BY DEF Answer
    <3> HIDE DEF b
    <3>3. AtMoments(b)
      BY <2>2, <3>1, <3>2, SameMoments DEF ReadInv
    <3> QED  BY <2>2, <3>1, <3>2, <3>3 DEF ReadInv
  <2>9. CASE GetSearchStatus(c)
    <3> PICK v \in Status : v = status[a.sid]
      BY <2>2 DEF TypeOK, StorageTypeOK
    <3> DEFINE b == [a EXCEPT !.status = v]
    <3>1. answer'[c] = b /\ poll[c] = "status again" /\ poll'[c] = "answered"
      BY <2>9 DEF GetSearchStatus, PollStep, AnswersInv
    <3>2. /\ b \in Answer /\ b.since = a.since /\ b.total = a.total /\ b.sid = a.sid
          /\ b.page = a.page /\ b.found = a.found
      BY DEF Answer
    <3> HIDE DEF b
    <3>3. AtMoments(b)
      BY <2>2, <3>1, <3>2, SameMoments DEF ReadInv
    <3> QED  BY <2>2, <3>1, <3>2, <3>3 DEF ReadInv
  <2> QED  BY <1>3, <2>3, <2>4, <2>5, <2>6, <2>7, <2>8, <2>9 DEF PollAction
<1> QED  BY <1>2, <1>3

\* What a client's step leaves alone.
LEMMA PollKeeps ==
    ASSUME AnswersInv, NEW c \in Client, PollAction(c)
    PROVE  /\ UNCHANGED <<vars, rows>>
           /\ poll' \in [Client -> PollPC]
           /\ \E b : answer' = [answer EXCEPT ![c] = b]
           /\ \A e \in Client : e # c => poll'[e] = poll[e] /\ answer'[e] = answer[e]
<1> USE DEF PollAction, Ask, CheckIfSearchIsRunning, ReadDetails, CountDependencies,
            FindPage, FetchBatch, GetProjectsQueueLength, GetSearchStatus, PollStep
<1>1. UNCHANGED <<vars, rows>>
  OBVIOUS
<1>2. poll' \in [Client -> PollPC] /\ \A e \in Client : e # c => poll'[e] = poll[e]
  <2>1. \E pc \in PollPC : poll' = [poll EXCEPT ![c] = pc]
    BY DEF PollPC, Reading
  <2> QED  BY <2>1 DEF AnswersInv
<1>3. \E b : answer' = [answer EXCEPT ![c] = b]
  <2>1. answer' = [answer EXCEPT ![c] = answer'[c]]
    <3>1. answer \in [Client -> Answer \cup {NoAnswer}]
      BY DEF AnswersInv
    <3>2. \A e \in Client : e # c => answer'[e] = answer[e]
      BY <3>1
    <3>3. DOMAIN answer' = Client /\ answer' = [e \in Client |-> answer'[e]]
      BY <3>1
    <3> QED  BY <3>1, <3>2, <3>3
  <2> QED  BY <2>1
<1> QED  BY <1>1, <1>2, <1>3 DEF AnswersInv

LEMMA AnswersStep ==
    ASSUME TypeOK, AnswersInv, [ResultsNext]_resultVars
    PROVE  AnswersInv'
<1>1. /\ RowsTypeOK' /\ Len(rows) \in Nat /\ Len(rows') \in Nat /\ Len(rows) <= Len(rows')
      /\ \A i \in 1..Len(rows) : rows'[i] = rows[i]
  <2>1. RowsTypeOK
    BY DEF AnswersInv
  <2>2. Len(rows) \in Nat
    BY <2>1 DEF RowsTypeOK
  <2>3. /\ RowsTypeOK' /\ Len(rows') \in Nat /\ Len(rows) \in 0..Len(rows')
        /\ \A i \in 1..Len(rows) : rows'[i] = rows[i]
    BY <2>1, RowsStay
  <2>4. Len(rows) <= Len(rows')
    BY <2>2, <2>3
  <2> QED  BY <2>2, <2>3, <2>4
<1>2. CASE UNCHANGED pollVars
  <2>1. ASSUME NEW c \in Client, Going(c)
        PROVE  ReadInv(poll[c], answer[c])'
    <3> PICK pc \in PollPC, a \in Answer : pc = poll[c] /\ a = answer[c]
      BY <2>1 DEF AnswersInv, Going, Reading
    <3>1. ReadInv(pc, a)
      BY <2>1 DEF AnswersInv
    <3>2. ReadInv(pc, a)'
      BY <1>1, <3>1, ReadingStays
    <3>3. poll'[c] = pc /\ answer'[c] = a
      BY <1>2 DEF pollVars
    <3> QED  BY <3>2, <3>3
  <2> QED  BY <1>1, <1>2, <2>1 DEF AnswersInv, pollVars, Going
<1>3. CASE \E c \in Client : PollAction(c)
  <2> PICK c \in Client : PollAction(c)
    BY <1>3
  <2>1. /\ poll' \in [Client -> PollPC]
        /\ \E b : answer' = [answer EXCEPT ![c] = b]
        /\ \A e \in Client : e # c => poll'[e] = poll[e] /\ answer'[e] = answer[e]
    BY PollKeeps
  <2>2. answer'[c] \in Answer /\ ReadInv(poll'[c], answer'[c])
    BY PollReads
  <2>3. answer' \in [Client -> Answer \cup {NoAnswer}]
    BY <2>1, <2>2 DEF AnswersInv
  <2>4. \A e \in Client : poll'[e] # "idle" => answer'[e] \in Answer
    BY <2>1, <2>2 DEF AnswersInv
  <2>5. ASSUME NEW e \in Client, Going(e)'
        PROVE  ReadInv(poll[e], answer[e])'
    <3> PICK pc \in PollPC, a \in Answer : pc = poll'[e] /\ a = answer'[e]
      BY <2>1, <2>4, <2>5 DEF Going, Reading
    <3>1. ReadInv(pc, a)
      BY <2>1, <2>2, <2>5 DEF AnswersInv, Going
    <3>2. ReadInv(pc, a)'
      BY <1>1, <3>1, ReadingStays
    <3> QED  BY <3>2
  <2> QED  BY <1>1, <2>1, <2>3, <2>4, <2>5 DEF AnswersInv
<1> QED  BY <1>2, <1>3 DEF ResultsNext, Elsewhere, resultVars

\* The invariant that the theorems about answers read off.
LEMMA AnswersInvariant == ResultsSpec => []AnswersInv
<1>1. TypeOK /\ AnswersInv /\ [ResultsNext]_resultVars => AnswersInv'
  BY AnswersStep
<1> QED  BY <1>1, AnswersInit, PollingChangesNothing, TypeCorrect, PTL DEF ResultsSpec

\* Every answer has fields of the types the code declares, and the rows are the
\* dependencies, each once, whoever writes and reads them.
THEOREM ResultsTypeCorrect == ResultsSpec => []ResultsTypeOK
<1>1. AnswersInv => ResultsTypeOK
  BY DEF AnswersInv, RowsTypeOK, ResultsTypeOK
<1> QED  BY <1>1, AnswersInvariant, PTL

\* However the table grows, and whatever fails, while GetPackagesBySearch reads
\* count and page, or batch after batch, its answer is that of a moment of the
\* call, or of two.
THEOREM AnswerIsOfAMomentCorrect == ResultsSpec => []AnswerIsOfAMoment
<1>1. AnswersInv => AnswerIsOfAMoment
  BY DEF AnswersInv, Going, ReadInv, AtMoments, AnswerIsOfAMoment
<1> QED  BY <1>1, AnswersInvariant, PTL

----------------------------------------------------------------------------
(* Where completed means complete, a finished answer is exact.             *)

\* What MySQL holds at the start is of branches that are still listed.
KnownListed ==
    \A p \in Package, b \in Branch : <<p, b>> \in KnownDeps => b \in AllBranches

\* A search somebody was given the id of is claimed.
ClaimedInv ==
    \A r \in Request : rpc[r] \notin {"idle", "acquire", "error"} => status[rsid[r]] # Absent

\* The flag was read first, and a completed search stays complete: what is read
\* after it is exact.
ExactInv(pc, a) ==
    /\ status[a.sid] # Absent
    /\ a.finished /\ pc \in PollPC \ {"idle", "status", "failed"} =>
            /\ status[a.sid] = "completed"
            /\ pc \in {"rows", "left", "status again", "answered"} =>
                   a.total = Cardinality(Truth(a.sid))
            /\ pc \in {"left", "status again", "answered"} =>
                   a.found = PageOfResults(a.sid, a.page, Len(rows))
            /\ pc \in {"status again", "answered"} => a.left = 0

FinishedInv ==
    /\ ClaimedInv
    /\ \A c \in Client : poll[c] # "idle" => ExactInv(poll[c], answer[c])

\* What the earlier sections know of a state.
Settled == /\ TypeOK /\ Undisturbed /\ AnswersInv /\ CompleteInv /\ FailureInv
           /\ ImplInv /\ \A s \in SearchID : SearchInv(s)

LEMMA SettledInvariant == Usual => (ResultsSpec => []Settled)
<1> SUFFICES ASSUME Usual
             PROVE  ResultsSpec => []Settled
  OBVIOUS
<1>1. OneWorker
  BY DEF Usual
<1>2. TypeOK /\ AnswersInv /\ CompleteInv /\ FailureInv => Settled
  <2> SUFFICES ASSUME TypeOK, AnswersInv, CompleteInv, FailureInv
               PROVE  Settled
    OBVIOUS
  <2>1. Undisturbed
    BY DEF Usual, NothingFails, TypeOK, Undisturbed
  <2> QED  BY <2>1 DEF Settled, CompleteInv, EveryInv, ImplInv
<1>3. Spec => []CompleteInv
  BY CompleteInvariant
<1>4. Spec => []FailureInv
  BY <1>1, FailureInvariant
<1> QED  BY <1>2, <1>3, <1>4, AnswersInvariant, PollingChangesNothing, TypeCorrect, PTL

\* Rows of a package that a search asks for are of listed branches.
LEMMA RowsAreListed ==
    ASSUME KnownListed, Settled, NEW s \in SearchID, NEW b \in Branch,
           <<PkgOf[s], b>> \in deps
    PROVE  b \in AllBranches /\ <<PkgOf[s], b>> \in Contains
<1>1. PkgOf[s] \in Package
  BY PkgOfAssumption
<1>2. \A t \in SearchID : handled[t] \subseteq AllBranches
  BY DEF Settled, CompleteInv, EveryInv, ApartInv
<1> QED  BY <1>1, <1>2 DEF Settled, CompleteInv, RowsInv, KnownListed

\* What a completed search matches is the truth, branch by branch.
LEMMA MatchingIsTruth ==
    ASSUME KnownListed, Settled, NEW s \in SearchID, status[s] = "completed"
    PROVE  Cardinality(Matching(s, Len(rows))) = Cardinality(Truth(s))
<1> DEFINE n == Len(rows)
           M == Matching(s, n)
           f == [i \in M |-> rows[i][2]]
<1>1. /\ rows \in Seq(Package \X Branch) /\ n \in Nat
      /\ {rows[i] : i \in 1..n} = deps /\ n = Cardinality(deps) /\ IsFiniteSet(deps)
  BY DEF Settled, AnswersInv, RowsTypeOK
<1>2. \A i, j \in 1..n : rows[i] = rows[j] => i = j
  <2> DEFINE g == [i \in 1..n |-> rows[i]]
  <2>1. g \in Surjection(1..n, deps)
    BY <1>1 DEF Surjection
  <2>2. IsFiniteSet(1..n) /\ Cardinality(1..n) = n
    BY <1>1, FS_Interval
  <2> HIDE DEF g
  <2>3. g \in Injection(1..n, deps)
    BY <1>1, <2>1, <2>2, FS_SurjSameCardinalityImpliesInj
  <2> QED  BY <2>3 DEF g, Injection, IsInjective
<1>3. \A i \in M : i \in 1..n /\ rows[i][1] = PkgOf[s]
                   /\ (s \in Versioned => <<s, rows[i][2]>> \in Accepts)
  BY DEF Matching, OfPackage, Matches
<1>4. \A i \in 1..n : rows[i] = <<rows[i][1], rows[i][2]>> /\ rows[i][2] \in Branch
                      /\ rows[i] \in deps
  BY <1>1
<1>5. \A i \in M : rows[i][2] \in Truth(s)
  <2> TAKE i \in M
  <2>1. rows[i] = <<PkgOf[s], rows[i][2]>> /\ rows[i] \in deps /\ rows[i][2] \in Branch
    BY <1>3, <1>4
  <2>2. rows[i][2] \in AllBranches /\ <<PkgOf[s], rows[i][2]>> \in Contains
    BY <2>1, RowsAreListed
  <2> QED  BY <1>3, <2>2 DEF Truth
<1>6. \A i, j \in M : rows[i][2] = rows[j][2] => i = j
  <2> TAKE i, j \in M
  <2> HAVE rows[i][2] = rows[j][2]
  <2>1. rows[i] = <<PkgOf[s], rows[i][2]>> /\ rows[j] = <<PkgOf[s], rows[j][2]>>
    BY <1>3, <1>4
  <2>2. rows[i] = rows[j] /\ i \in 1..n /\ j \in 1..n
    BY <1>3, <2>1
  <2> QED  BY <1>2, <2>2
<1>7. \A b \in Truth(s) : \E i \in M : rows[i][2] = b
  <2> TAKE b \in Truth(s)
  <2>1. /\ b \in AllBranches /\ <<PkgOf[s], b>> \in Contains
        /\ s \in Versioned => <<s, b>> \in Accepts
    BY DEF Truth
  <2>2. AllFound(s) /\ failed[s] = {}
    BY DEF Settled, CompleteInv, DoneInv, FailureInv, Undisturbed
  <2>3. <<PkgOf[s], b>> \in deps
    BY <2>1, <2>2 DEF AllFound, Found
  <2>4. PICK i \in 1..n : rows[i] = <<PkgOf[s], b>>
    BY <1>1, <2>3
  <2>5. rows[i][1] = PkgOf[s] /\ rows[i][2] = b
    BY <2>4
  <2>6. i \in M
    BY <2>1, <2>5 DEF Matching, OfPackage, Matches
  <2> QED  BY <2>5, <2>6
<1>8. IsFiniteSet(M)
  BY <1>1, OfPackageType
<1> HIDE DEF M, n
<1>9. f \in Bijection(M, Truth(s))
  <2>1. f \in [M -> Truth(s)]
    BY <1>5
  <2>2. \A i, j \in M : f[i] = f[j] => i = j
    BY <1>6
  <2>3. \A b \in Truth(s) : \E i \in M : f[i] = b
    BY <1>7
  <2> QED  BY <2>1, <2>2, <2>3 DEF Bijection, Injection, Surjection, IsInjective
<1>10. ExistsBijection(M, Truth(s))
  BY <1>9 DEF ExistsBijection
<1>11. Cardinality(Truth(s)) = Cardinality(M)
  BY <1>8, <1>10, FS_Bijection
<1> QED  BY <1>11 DEF M, n

\* No row of its package follows the completion of a search.
LEMMA MatchingEnds ==
    ASSUME KnownListed, Settled, Settled', [ResultsNext]_resultVars,
           NEW s \in SearchID, status[s] = "completed"
    PROVE  \A page : PageOfResults(s, page, Len(rows))' = PageOfResults(s, page, Len(rows))
<1>1. /\ Len(rows) \in Nat /\ Len(rows') \in Nat
      /\ \A i \in 1..Len(rows) : rows'[i] = rows[i]
      /\ rows' # rows => Len(rows') = Len(rows) + 1 /\ rows'[Len(rows')] \in deps' \ deps
      /\ rows' \in Seq(Package \X Branch)
  BY RowsStay DEF Settled, AnswersInv, RowsTypeOK
<1>2. CASE rows' = rows
  BY <1>2 DEF PageOfResults, Matching, OfPackage, Matches
<1>3. CASE rows' # rows
  <2> PICK d : d = rows'[Len(rows')]
    OBVIOUS
  <2>1. d \in Package \X Branch /\ d \in deps' \ deps /\ Len(rows') = Len(rows) + 1
    BY <1>1, <1>3
  <2>2. d[1] # PkgOf[s]
    <3> SUFFICES ASSUME d[1] = PkgOf[s]
                 PROVE  FALSE
      OBVIOUS
    <3> PICK b \in Branch : d = <<PkgOf[s], b>>
      BY <2>1
    <3>1. b \in AllBranches /\ <<PkgOf[s], b>> \in Contains
      <4>1. PkgOf[s] \in Package
        BY PkgOfAssumption
      <4>2. \A t \in SearchID : handled'[t] \subseteq AllBranches
        BY DEF Settled, CompleteInv, EveryInv, ApartInv, AllBranches
      <4> QED  BY <2>1, <4>1, <4>2 DEF Settled, CompleteInv, RowsInv, KnownListed
    <3>2. AllFound(s) /\ failed[s] = {}
      BY DEF Settled, CompleteInv, DoneInv, FailureInv, Undisturbed
    <3>3. <<PkgOf[s], b>> \in deps
      BY <3>1, <3>2 DEF AllFound, Found
    <3> QED  BY <2>1, <3>3
  <2>3. \A i : i \in 1..Len(rows') <=> i \in 1..Len(rows) \/ i = Len(rows')
    BY <1>1, <2>1
  <2>4. OfPackage(s, Len(rows))' = OfPackage(s, Len(rows))
    BY <1>1, <2>2, <2>3 DEF OfPackage
  <2>5. \A i \in OfPackage(s, Len(rows)) : Matches(s, i)' <=> Matches(s, i)
    BY <1>1 DEF OfPackage, Matches
  <2>6. Matching(s, Len(rows))' = Matching(s, Len(rows))
    BY <2>4, <2>5 DEF Matching
  <2> QED  BY <2>6 DEF PageOfResults
<1> QED  BY <1>2, <1>3

LEMMA StatusKept ==
    ASSUME OneWorker, Settled, Settled', StatusesInv, [Next]_vars, NEW s \in SearchID
    PROVE  /\ status[s] # Absent => status'[s] # Absent
           /\ status[s] = "completed" => status'[s] = "completed"
<1>1. CASE UNCHANGED vars
  BY <1>1 DEF vars, storageVars
<1>2. CASE Next
  <2>1. DrainInv /\ expiries' = 0 /\ TypeOK /\ TypeOK'
    BY DEF DrainInv, Settled, Undisturbed
  <2>2. Rises(s)
    BY <1>2, <2>1, StatusStep
  <2>3. status[s] \in Status /\ status'[s] \in Status
    BY <2>1 DEF TypeOK, StorageTypeOK
  <2>4. Status = {"absent", "pending", "processing", "completed"} /\ Absent = "absent"
    BY DEF Status, Absent
  <2>5. CASE status[s] = "completed"
    <3>1. 3 <= Rank[status'[s]]
      BY <2>2, <2>5, Ranks DEF Rises
    <3> QED  BY <2>3, <2>4, <2>5, <3>1, Ranks
  <2>6. CASE status[s] # "completed" /\ status[s] # Absent
    <3>1. 1 <= Rank[status[s]] /\ Rank[status[s]] \in 0..3
      BY <2>3, <2>4, <2>6, Ranks
    <3>2. Rank[status'[s]] # 0
      BY <2>2, <2>3, <3>1, Ranks DEF Rises
    <3> QED  BY <2>6, <3>2, Ranks
  <2> QED  BY <2>4, <2>5, <2>6
<1> QED  BY <1>1, <1>2

LEMMA ClaimedStep ==
    ASSUME OneWorker, Settled, Settled', StatusesInv, ClaimedInv, [Next]_vars
    PROVE  ClaimedInv'
<1>1. TypeOK /\ Undisturbed'
  BY DEF Settled
<1>2. ASSUME UNCHANGED rsid, NEW r \in Request, rpc'[r] \notin {"idle", "acquire", "error"},
             rpc[r] \notin {"idle", "acquire", "error"}
      PROVE  status'[rsid'[r]] # Absent
  BY <1>1, <1>2, StatusKept DEF ClaimedInv, TypeOK
<1>3. CASE UNCHANGED vars
  BY <1>3 DEF vars, requestVars, storageVars, ClaimedInv
<1>4. CASE \E r \in Request, t \in SearchID : Arrive(r, t)
  <2> PICK r \in Request, t \in SearchID : Arrive(r, t)
    BY <1>4
  <2>1. /\ rpc'[r] = "acquire" /\ status' = status
        /\ \A q \in Request : q # r => rpc'[q] = rpc[q] /\ rsid'[q] = rsid[q]
    BY <1>1 DEF Arrive, ReqStep, storageVars, TypeOK
  <2> QED  BY <2>1 DEF ClaimedInv
<1>5. CASE \E r \in Request : RequestStep(r)
  <2> PICK r \in Request : RequestStep(r)
    BY <1>5
  <2>1. UNCHANGED rsid
    BY <1>1, RequestKeeps
  <2>2. CASE Acquire(r)
    <3>1. status'[rsid'[r]] # Absent
      BY <1>1, <2>1, <2>2
      DEF Acquire, ReqStep, CanAcquire, AcquireSearch, TypeOK, StorageTypeOK, Absent
    <3>2. \A q \in Request : q # r => rpc'[q] = rpc[q]
      BY <1>1, <2>2 DEF Acquire, ReqStep, TypeOK
    <3> QED  BY <1>2, <2>1, <3>1, <3>2 DEF ClaimedInv
  <2>3. CASE ~Acquire(r)
    <3>1. \A q \in Request : rpc'[q] \notin {"idle", "acquire", "error"} =>
              rpc[q] \notin {"idle", "acquire", "error"}
      BY <1>1, <2>3
      DEF RequestStep, FindDependencies, AddCached, CompleteCached, ReadPage, PushProject,
          NextProject, Enqueue, ReqStep, TypeOK
    <3> QED  BY <1>2, <2>1, <3>1 DEF ClaimedInv
  <2> QED  BY <2>2, <2>3
<1>6. CASE \E w \in Worker : WorkerStep(w)
  <2>1. UNCHANGED <<rpc, rsid>>
    BY <1>1, <1>6, WorkerKeeps DEF requestVars
  <2> QED  BY <1>2, <2>1 DEF ClaimedInv
<1> QED  BY <1>1, <1>3, <1>4, <1>5, <1>6, OnlySteps

\* What a client reads once it was told that the search had finished.
LEMMA ReadsExactly ==
    ASSUME KnownListed, Settled, FinishedInv, NEW c \in Client, PollAction(c)
    PROVE  ExactInv(poll'[c], answer'[c])
<1>0. answer \in [Client -> Answer \cup {NoAnswer}] /\ Len(rows) \in Nat
  BY DEF Settled, AnswersInv, RowsTypeOK
<1>1. CASE \E s \in SearchID, page \in Pages : Ask(c, s, page)
  <2> PICK s \in SearchID, page \in Pages : Ask(c, s, page)
    BY <1>1
  <2>1. poll'[c] = "status" /\ answer'[c].sid = s
    BY <1>0 DEF Ask, Settled, AnswersInv
  <2>2. status[s] # Absent
    <3>1. CASE Known(s)
      BY <3>1 DEF Known, FinishedInv, ClaimedInv
    <3>2. CASE Again(c, s)
      BY <3>2 DEF Again, FinishedInv, ExactInv
    <3> QED  BY <3>1, <3>2 DEF Ask
  <2> QED  BY <2>1, <2>2 DEF ExactInv
<1>2. CASE ~\E s \in SearchID, page \in Pages : Ask(c, s, page)
  <2>1. PollAction(c) /\ poll[c] \in Reading /\ poll[c] # "idle"
    BY <1>2
    DEF PollAction, CheckIfSearchIsRunning, ReadDetails, CountDependencies, FindPage,
        FetchBatch, GetProjectsQueueLength, GetSearchStatus, PollStep, Reading
  <2> PICK a \in Answer : a = answer[c]
    BY <2>1 DEF Settled, AnswersInv
  <2>2. /\ ReadInv(poll[c], a) /\ ExactInv(poll[c], a)
        /\ a.sid \in SearchID /\ status[a.sid] \in Status /\ status[a.sid] # Absent
    BY <2>1 DEF Settled, AnswersInv, Going, FinishedInv, ExactInv, Answer, TypeOK, StorageTypeOK
  <2>3. status[a.sid] = "completed" =>
            /\ Cardinality(Matching(a.sid, Len(rows))) = Cardinality(Truth(a.sid))
            /\ queue[a.sid] = << >>
    BY <2>2, MatchingIsTruth DEF Settled, SearchInv
  <2>4. CASE CheckIfSearchIsRunning(c)
    <3> PICK x \in BOOLEAN : x = (status[a.sid] \notin {"pending", "processing"})
      OBVIOUS
    <3> DEFINE b == [a EXCEPT !.finished = x]
    <3>1. answer'[c] = b /\ poll'[c] = "details"
      BY <2>4 DEF CheckIfSearchIsRunning, PollStep, Settled, AnswersInv
    <3>2. b.sid = a.sid /\ b.finished = x
      BY DEF Answer
    <3> HIDE DEF b
    <3>3. x => status[a.sid] = "completed"
      BY <2>2 DEF Status, Absent
    <3> QED  BY <2>2, <3>1, <3>2, <3>3 DEF ExactInv
  <2>5. CASE ReadDetails(c)
    <3>1. answer'[c] = a /\ poll[c] = "details" /\ poll'[c] \in {"failed", "cursor", "count"}
      BY <2>5 DEF ReadDetails, PollStep, Settled, AnswersInv
    <3> QED  BY <2>2, <3>1 DEF ExactInv, PollPC, Reading
  <2>6. CASE CountDependencies(c)
    <3> PICK n : n = Cardinality(OfPackage(a.sid, Len(rows)))
      OBVIOUS
    <3> DEFINE b == [a EXCEPT !.total = n]
    <3>1. answer'[c] = b /\ poll[c] = "count" /\ poll'[c] = "rows"
      BY <2>6 DEF CountDependencies, PollStep, Settled, AnswersInv
    <3>2. b.sid = a.sid /\ b.finished = a.finished /\ b.total = n
      BY DEF Answer
    <3> HIDE DEF b
    <3>3. n = Cardinality(Matching(a.sid, Len(rows)))
      <4>1. a.sid \notin Versioned
        BY <2>2, <3>1 DEF ReadInv
      <4> QED  BY <1>0, <4>1, OfPackageType
    <3> QED  BY <2>2, <2>3, <3>1, <3>2, <3>3 DEF ExactInv, PollPC, Reading
  <2>7. CASE FindPage(c)
    <3> DEFINE ids == Slice(OfPackage(a.sid, Len(rows)), Offset(a.page), ResultsPage)
               b == [a EXCEPT !.found = ids]
    <3>1. answer'[c] = b /\ poll[c] = "rows" /\ poll'[c] = "left"
      BY <2>7 DEF FindPage, PollStep, Settled, AnswersInv
    <3>2. ids = PageOfResults(a.sid, a.page, Len(rows))
      <4>1. a.sid \notin Versioned
        BY <2>2, <3>1 DEF ReadInv
      <4>2. Matching(a.sid, Len(rows)) = OfPackage(a.sid, Len(rows))
        BY <1>0, <4>1, OfPackageType
      <4> QED  BY <4>2 DEF PageOfResults
    <3> HIDE DEF ids
    <3>3. /\ b.sid = a.sid /\ b.finished = a.finished /\ b.total = a.total
          /\ b.page = a.page /\ b.found = ids
      BY DEF Answer
    <3> HIDE DEF b
    <3> QED  BY <2>2, <3>1, <3>2, <3>3 DEF ExactInv, PollPC, Reading
  <2>8. CASE FetchBatch(c)
    <3> PICK b, pc : b = answer'[c] /\ pc = poll'[c]
      OBVIOUS
    <3>1. /\ b.sid = a.sid /\ b.finished = a.finished
          /\ pc = "left" =>
                 /\ b.total = Cardinality(Matching(a.sid, Len(rows)))
                 /\ b.found = PageOfResults(a.sid, b.page, Len(rows))
      BY <2>8, FetchReads DEF Settled
    <3>2. poll[c] = "cursor" /\ pc \in {"left", "cursor"}
      BY <2>8 DEF FetchBatch, PollStep, Settled, AnswersInv
    <3>3. ExactInv(pc, b)
      BY <2>2, <2>3, <3>1, <3>2 DEF ExactInv, PollPC, Reading
    <3> QED  BY <3>3
  <2>9. CASE GetProjectsQueueLength(c)
    <3> PICK n : n = Len(queue[a.sid])
      OBVIOUS
    <3> DEFINE b == [a EXCEPT !.left = n]
    <3>1. answer'[c] = b /\ poll[c] = "left" /\ poll'[c] = "status again"
      BY <2>9 DEF GetProjectsQueueLength, PollStep, Settled, AnswersInv
    <3>2. /\ b.sid = a.sid /\ b.finished = a.finished /\ b.total = a.total
          /\ b.page = a.page /\ b.found = a.found /\ b.left = n
      BY DEF Answer
    <3> HIDE DEF b
    <3>3. queue[a.sid] = << >> => n = 0
      OBVIOUS
    <3> QED  BY <2>2, <2>3, <3>1, <3>2, <3>3 DEF ExactInv, PollPC, Reading
  <2>10. CASE GetSearchStatus(c)
    <3> PICK v : v = status[a.sid]
      OBVIOUS
    <3> DEFINE b == [a EXCEPT !.status = v]
    <3>1. answer'[c] = b /\ poll[c] = "status again" /\ poll'[c] = "answered"
      BY <2>10 DEF GetSearchStatus, PollStep, Settled, AnswersInv
    <3>2. /\ b.sid = a.sid /\ b.finished = a.finished /\ b.total = a.total
          /\ b.page = a.page /\ b.found = a.found /\ b.left = a.left
      BY DEF Answer
    <3> HIDE DEF b
    <3> QED  BY <2>2, <3>1, <3>2 DEF ExactInv, PollPC, Reading
  <2> QED  BY <1>2, <2>4, <2>5, <2>6, <2>7, <2>8, <2>9, <2>10 DEF PollAction
<1> QED  BY <1>1, <1>2

LEMMA FinishedStep ==
    ASSUME OneWorker, KnownListed, Settled, Settled', StatusesInv, FinishedInv,
           [ResultsNext]_resultVars
    PROVE  FinishedInv'
<1>1. CASE \E c \in Client : PollAction(c)
  <2> PICK c \in Client : PollAction(c)
    BY <1>1
  <2>1. /\ UNCHANGED <<status, rows, rpc, rsid>>
        /\ \A e \in Client : e # c => poll'[e] = poll[e] /\ answer'[e] = answer[e]
    BY PollKeeps DEF Settled, vars, storageVars, requestVars
  <2>2. \A pc, a : ExactInv(pc, a) => ExactInv(pc, a)'
    <3>1. \A s, page : PageOfResults(s, page, Len(rows))' = PageOfResults(s, page, Len(rows))
      BY <2>1 DEF PageOfResults, Matching, OfPackage, Matches
    <3>2. \A s : Truth(s)' = Truth(s)
      BY DEF Truth, AllBranches
    <3> QED  BY <2>1, <3>1, <3>2 DEF ExactInv
  <2>3. ASSUME NEW e \in Client, poll'[e] # "idle"
        PROVE  ExactInv(poll[e], answer[e])'
    <3> PICK pc, a : pc = poll'[e] /\ a = answer'[e]
      OBVIOUS
    <3>1. ExactInv(pc, a)
      BY <2>1, <2>3, ReadsExactly DEF FinishedInv
    <3>2. ExactInv(pc, a)'
      BY <2>2, <3>1
    <3> QED  BY <3>2
  <2>4. ClaimedInv'
    BY <2>1 DEF FinishedInv, ClaimedInv
  <2> QED  BY <2>3, <2>4 DEF FinishedInv
<1>2. CASE ~\E c \in Client : PollAction(c)
  <2>1. UNCHANGED <<poll, answer>> /\ [Next]_vars
    BY <1>2 DEF ResultsNext, Elsewhere, resultVars, pollVars
  <2>2. ClaimedInv'
    BY <2>1, ClaimedStep DEF FinishedInv
  <2>3. ASSUME NEW c \in Client, poll'[c] # "idle"
        PROVE  ExactInv(poll[c], answer[c])'
    <3> PICK pc \in PollPC, a \in Answer : pc = poll[c] /\ a = answer[c]
      BY <2>1, <2>3 DEF Settled, AnswersInv
    <3>1. ExactInv(pc, a) /\ a.sid \in SearchID
      BY <2>1, <2>3 DEF FinishedInv, Answer
    <3>2. /\ status'[a.sid] # Absent
          /\ status[a.sid] = "completed" => status'[a.sid] = "completed"
      BY <2>1, <3>1, StatusKept DEF ExactInv
    <3>3. status[a.sid] = "completed" =>
              PageOfResults(a.sid, a.page, Len(rows))' = PageOfResults(a.sid, a.page, Len(rows))
      BY <3>1, MatchingEnds
    <3>4. Truth(a.sid)' = Truth(a.sid)
      BY DEF Truth, AllBranches
    <3>5. ExactInv(pc, a)'
      BY <3>1, <3>2, <3>3, <3>4 DEF ExactInv
    <3> QED  BY <2>1, <3>5
  <2> QED  BY <2>2, <2>3 DEF FinishedInv
<1> QED  BY <1>1, <1>2

\* Where completed means complete, an answer that says the search has finished
\* holds exactly what its page and its total say of all branches, and nothing
\* comes later: GetPackagesBySearch reads the flag before everything else.
THEOREM FinishedAnswerIsExactCorrect ==
    Usual /\ KnownListed => (ResultsSpec => []FinishedAnswerIsExact)
<1> SUFFICES ASSUME Usual, KnownListed
             PROVE  ResultsSpec => []FinishedAnswerIsExact
  OBVIOUS
<1>1. OneWorker
  BY DEF Usual
<1>2. ResultsInit => FinishedInv
  BY DEF ResultsInit, Init, FinishedInv, ClaimedInv
<1>3. Settled /\ Settled' /\ StatusesInv /\ FinishedInv /\ [ResultsNext]_resultVars
          => FinishedInv'
  BY <1>1, FinishedStep
<1>4. Settled /\ FinishedInv => FinishedAnswerIsExact
  <2> SUFFICES ASSUME Settled, FinishedInv, NEW c \in Client,
                      poll[c] = "answered", answer[c].finished
               PROVE  Exact(answer[c])
    BY DEF FinishedAnswerIsExact
  <2>1. ExactInv("answered", answer[c])
    BY DEF FinishedInv
  <2> QED  BY <2>1 DEF ExactInv, Exact, PollPC
<1>5. ResultsSpec => []Settled
  BY SettledInvariant
<1>6. Spec => []StatusesInv
  BY <1>1, StatusesInvariant
<1> QED  BY <1>2, <1>3, <1>4, <1>5, <1>6, PollingChangesNothing, PTL DEF ResultsSpec

=============================================================================
