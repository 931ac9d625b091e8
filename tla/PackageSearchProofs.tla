------------------------ MODULE PackageSearchProofs ------------------------
(* Theorems about PackageSearch, for every value of its constants.         *)
EXTENDS PackageSearch, TLAPS, SequenceTheorems

----------------------------------------------------------------------------
(* Types.                                                                  *)

LEMMA AcquireSearchType ==
    ASSUME StorageTypeOK, NEW s \in SearchID, AcquireSearch(s)
    PROVE  StorageTypeOK'
BY DEF StorageTypeOK, AcquireSearch, CanAcquire, Status, Absent

LEMMA AddSearchToQueueType ==
    ASSUME StorageTypeOK, NEW s \in SearchID, AddSearchToQueue(s)
    PROVE  StorageTypeOK'
BY DEF StorageTypeOK, AddSearchToQueue, Status

LEMMA AddProjectsToQueueType ==
    ASSUME StorageTypeOK, NEW s \in SearchID, NEW branches \in Seq(Branch),
           AddProjectsToQueue(s, branches)
    PROVE  StorageTypeOK'
BY DEF StorageTypeOK, AddProjectsToQueue

LEMMA GetProjectFromQueueType ==
    ASSUME StorageTypeOK, NEW s \in SearchID, GetProjectFromQueue(s)
    PROVE  StorageTypeOK' /\ Head(queue[s]) \in Branch
BY DEF StorageTypeOK, GetProjectFromQueue

LEMMA UpdateSearchStatusType ==
    ASSUME StorageTypeOK, NEW s \in SearchID, NEW v \in Status,
           UpdateSearchStatus(s, v)
    PROVE  StorageTypeOK'
BY DEF StorageTypeOK, UpdateSearchStatus

LEMMA CompleteSearchType ==
    ASSUME StorageTypeOK, NEW s \in SearchID, CompleteSearch(s)
    PROVE  StorageTypeOK'
BY DEF StorageTypeOK, CompleteSearch, Status

LEMMA AddFailedRepositoryType ==
    ASSUME StorageTypeOK, NEW s \in SearchID, NEW b \in Branch,
           AddFailedRepository(s, b)
    PROVE  StorageTypeOK'
BY DEF StorageTypeOK, AddFailedRepository

LEMMA ExpireType ==
    ASSUME StorageTypeOK, NEW s \in SearchID, ExpireHash(s) \/ ExpireQueue(s)
    PROVE  StorageTypeOK'
<1>1. CASE ExpireHash(s)
  BY <1>1 DEF StorageTypeOK, ExpireHash, Status, Absent
<1>2. CASE ExpireQueue(s)
  BY <1>2 DEF StorageTypeOK, ExpireQueue
<1> QED  BY <1>1, <1>2

LEMMA StorageUnchangedType ==
    ASSUME StorageTypeOK, UNCHANGED storageVars
    PROVE  StorageTypeOK'
BY DEF StorageTypeOK, storageVars

\* A page is a window of the catalog.
LEMMA PageOfType ==
    ASSUME NEW page \in Nat \ {0}
    PROVE  PageOf(page) \in Seq(Seq(Branch))
<1> DEFINE last == page * PageSize
           end == IF last < Len(Catalog) THEN last ELSE Len(Catalog)
<1>1. last \in Nat /\ last - PageSize + 1 >= 1
  <2>1. page - 1 \in Nat /\ last = (page - 1) * PageSize + PageSize
    BY PageSizeAssumption
  <2>2. (page - 1) * PageSize \in Nat
    BY <2>1, PageSizeAssumption
  <2> QED  BY <2>1, <2>2, PageSizeAssumption
<1>2. end \in Int /\ end <= Len(Catalog)
  BY <1>1, CatalogAssumption
<1> HIDE DEF last, end
<1>3. \A i \in (last - PageSize + 1)..end : Catalog[i] \in Seq(Branch)
  <2> SUFFICES ASSUME NEW i \in (last - PageSize + 1)..end
               PROVE  Catalog[i] \in Seq(Branch)
    OBVIOUS
  <2>1. i \in 1..Len(Catalog)
    BY <1>1, <1>2, PageSizeAssumption, CatalogAssumption
  <2> QED  BY <2>1, CatalogAssumption, ElementOfSeq
<1>4. SubSeq(Catalog, last - PageSize + 1, end) \in Seq(Seq(Branch))
  BY <1>1, <1>2, <1>3, SubSeqProperties, PageSizeAssumption
<1> QED  BY <1>4 DEF PageOf, last, end

\* Head and tail of the projects in hand.
LEMMA TodoType ==
    ASSUME TypeOK, NEW r \in Request, rpc[r] = "push"
    PROVE  /\ Head(rtodo[r]) \in Seq(Branch)
           /\ Tail(rtodo[r]) \in Seq(Seq(Branch))
BY DEF TypeOK

\* Going on to the next project keeps the types of the request's state.
LEMMA NextProjectType ==
    ASSUME TypeOK, NEW r \in Request, NextProject(r)
    PROVE  /\ rpc' \in [Request -> RequestPC]
           /\ rsid' = rsid /\ rsid[r] \in SearchID
           /\ \A q \in Request : rpc'[q] # "idle" => rsid'[q] \in SearchID
           /\ rpage' \in [Request -> Nat \ {0}]
           /\ rtodo' \in [Request -> Seq(Seq(Branch))]
           /\ \A q \in Request : rpc'[q] = "push" => rtodo'[q] # << >>
<1> USE DEF TypeOK, NextProject, ReqStep, RequestPC, Owning, Unpublished, Returned
<1>1. rpc[r] = "push" /\ Tail(rtodo[r]) \in Seq(Seq(Branch))
  BY TodoType
<1>2. rpc' \in [Request -> RequestPC] /\ rsid' = rsid /\ rsid[r] \in SearchID
  BY <1>1
<1>3. rpage' \in [Request -> Nat \ {0}]
  BY <1>1
<1>4. rtodo' \in [Request -> Seq(Seq(Branch))]
  BY <1>1
<1>5. \A q \in Request : rpc'[q] = "push" => rtodo'[q] # << >>
  BY <1>1
<1> QED  BY <1>1, <1>2, <1>3, <1>4, <1>5

\* Every step of a request keeps the types.
LEMMA RequestStepType ==
    ASSUME TypeOK, NEW r \in Request, RequestStep(r)
    PROVE  TypeOK'
<1> USE DEF NoWorker, workerVars, dbVars, budgetVars, ReqStep, RequestPC, Owning,
            Unpublished, Returned
<1>0. UNCHANGED <<wpc, wsid, witem, handled, deps, packages, faults, expiries>>
  BY DEF RequestStep, Acquire, FindDependencies, AddCached, CompleteCached,
         ReadPage, PushProject, Enqueue
<1>a. rsid' = rsid /\ rpc[r] # "idle" /\ rsid[r] \in SearchID
  BY DEF TypeOK, RequestStep, Acquire, FindDependencies, AddCached,
         CompleteCached, ReadPage, PushProject, NextProject, Enqueue
<1>1. CASE Acquire(r)
  <2>1. StorageTypeOK'
    BY <1>1, <1>a, AcquireSearchType DEF Acquire, TypeOK
  <2> QED  BY <1>0, <1>a, <1>1, <2>1 DEF Acquire, TypeOK
<1>2. CASE FindDependencies(r)
  <2>1. StorageTypeOK'
    BY <1>2, StorageUnchangedType DEF FindDependencies, TypeOK
  <2> QED  BY <1>0, <1>a, <1>2, <2>1 DEF FindDependencies, TypeOK
<1>3. CASE AddCached(r)
  <2>1. StorageTypeOK'
    BY <1>3, <1>a, AddSearchToQueueType DEF AddCached, TypeOK
  <2> QED  BY <1>0, <1>a, <1>3, <2>1 DEF AddCached, TypeOK
<1>4. CASE CompleteCached(r)
  <2>1. StorageTypeOK'
    BY <1>4, <1>a, CompleteSearchType DEF CompleteCached, TypeOK
  <2> QED  BY <1>0, <1>a, <1>4, <2>1 DEF CompleteCached, TypeOK
<1>5. CASE ReadPage(r)
  <2>1. StorageTypeOK'
    BY <1>5, StorageUnchangedType DEF ReadPage, TypeOK
  <2>2. PageOf(rpage[r]) \in Seq(Seq(Branch))
    BY PageOfType DEF TypeOK
  <2> QED  BY <1>0, <1>a, <1>5, <2>1, <2>2 DEF ReadPage, TypeOK
<1>6. CASE PushProject(r)
  <2>1. /\ Head(rtodo[r]) \in Seq(Branch)
        /\ Tail(rtodo[r]) \in Seq(Seq(Branch))
    BY <1>6, TodoType DEF PushProject, NextProject
  <2>2. StorageTypeOK'
    BY <1>6, <1>a, <2>1, AddProjectsToQueueType DEF PushProject, TypeOK
  <2> QED  BY <1>0, <1>6, <2>2, NextProjectType DEF PushProject, TypeOK
<1>7. CASE Enqueue(r)
  <2>1. StorageTypeOK'
    BY <1>7, <1>a, AddSearchToQueueType DEF Enqueue, TypeOK
  <2> QED  BY <1>0, <1>a, <1>7, <2>1 DEF Enqueue, TypeOK
<1> QED
  BY <1>1, <1>2, <1>3, <1>4, <1>5, <1>6, <1>7 DEF RequestStep

\* Every failure of a request keeps the types.
LEMMA RequestFaultType ==
    ASSUME TypeOK, NEW r \in Request, RequestFault(r)
    PROVE  TypeOK'
<1> USE DEF NoWorker, workerVars, dbVars, requestVars
<1>1. faults' \in 0..MaxFaults /\ expiries' \in 0..MaxExpiries
  BY BoundsAssumption DEF RequestFault, RequestDies, ReplyLost,
     FindDependenciesFails, PushFails, Fault, TypeOK
<1>2. CASE RequestDies(r)
  <2>1. StorageTypeOK'
    BY <1>2, StorageUnchangedType DEF RequestDies, TypeOK
  <2> QED
    BY <1>1, <1>2, <2>1
    DEF RequestDies, TypeOK, RequestPC, Owning, Unpublished, Returned
<1>3. CASE ReplyLost(r)
  <2>1. rpc[r] # "idle" /\ rsid[r] \in SearchID /\ StorageTypeOK
    BY <1>3 DEF ReplyLost, TypeOK
  <2>2. StorageTypeOK'
    BY <1>3, <2>1, AcquireSearchType, AddSearchToQueueType, CompleteSearchType
    DEF ReplyLost
  <2> QED
    BY <1>1, <1>3, <2>2 DEF ReplyLost, TypeOK, RequestPC, Returned
<1>4. CASE FindDependenciesFails(r)
  <2>1. StorageTypeOK'
    BY <1>4, StorageUnchangedType DEF FindDependenciesFails, TypeOK
  <2> QED
    BY <1>1, <1>4, <2>1
    DEF FindDependenciesFails, ReqStep, TypeOK, RequestPC, Owning, Unpublished
<1>5. CASE PushFails(r)
  <2>1. StorageTypeOK'
    BY <1>5, StorageUnchangedType DEF PushFails, TypeOK
  <2> QED  BY <1>1, <1>5, <2>1, NextProjectType DEF PushFails, TypeOK
<1> QED
  BY <1>2, <1>3, <1>4, <1>5 DEF RequestFault

\* A worker that returns has nothing in hand.
LEMMA ReturnType ==
    ASSUME TypeOK, NEW w \in Worker, Return(w)
    PROVE  /\ wpc' \in [Worker -> WorkerPC]
           /\ wsid' \in [Worker -> SearchID \cup {None}]
           /\ \A v \in Worker : wpc'[v] # "poll" => wsid'[v] \in SearchID
           /\ witem' \in [Worker -> Branch \cup {None}]
           /\ \A v \in Worker : wpc'[v] \in Holding => witem'[v] \in Branch
BY DEF TypeOK, Return, WorkerPC, Holding, InProcessProject

\* Within Execute a worker moves on with its search, and with its branch.
LEMMA WorkStepType ==
    ASSUME TypeOK, NEW w \in Worker, NEW from, NEW to, WorkStep(w, from, to),
           from # "poll", to \in WorkerPC, UNCHANGED <<wsid, witem>>,
           from \in Holding \/ to \notin Holding
    PROVE  /\ wpc' \in [Worker -> WorkerPC]
           /\ wsid' \in [Worker -> SearchID \cup {None}]
           /\ \A v \in Worker : wpc'[v] # "poll" => wsid'[v] \in SearchID
           /\ witem' \in [Worker -> Branch \cup {None}]
           /\ \A v \in Worker : wpc'[v] \in Holding => witem'[v] \in Branch
BY DEF TypeOK, WorkStep

\* Settling a branch records a branch.
LEMMA SettleType ==
    ASSUME TypeOK, NEW w \in Worker, wpc[w] \in Holding, Settle(w)
    PROVE  handled' \in [SearchID -> SUBSET Branch]
<1>1. wsid[w] \in SearchID /\ witem[w] \in Branch
  BY DEF TypeOK, Holding, InProcessProject
<1>2. handled[wsid[w]] \cup {witem[w]} \in SUBSET Branch
  BY <1>1 DEF TypeOK
<1> QED  BY <1>1, <1>2 DEF Settle, TypeOK

\* Every step of a worker keeps the types.
LEMMA WorkerStepType ==
    ASSUME TypeOK, NEW w \in Worker, WorkerStep(w)
    PROVE  TypeOK'
<1> USE DEF NoRequest, requestVars, dbVars, budgetVars
<1>1. CASE PeekSearch(w)
  <2>1. StorageTypeOK'
    BY <1>1, StorageUnchangedType DEF PeekSearch, TypeOK
  <2> QED
    BY <1>1, <2>1
    DEF PeekSearch, WorkStep, TypeOK, WorkerPC, Holding, InProcessProject
<1>2. CASE PollNothing(w)
  <2>1. StorageTypeOK'
    BY <1>2, StorageUnchangedType DEF PollNothing, vars, TypeOK
  <2> QED
    BY <1>2, <2>1 DEF PollNothing, vars, workerVars, TypeOK
<1>3. CASE GetDetails(w) \/ NoProjectLeft(w) \/ ReadStatus(w) \/ ScanFinds(w)
           \/ LookupPackage(w)
  <2>1. StorageTypeOK'
    BY <1>3, StorageUnchangedType
    DEF GetDetails, NoProjectLeft, ReadStatus, ScanFinds, LookupPackage, TypeOK
  <2>2. /\ wpc' \in [Worker -> WorkerPC]
        /\ \A v \in Worker : wpc'[v] # "poll" => wsid'[v] \in SearchID
        /\ \A v \in Worker : wpc'[v] \in Holding => witem'[v] \in Branch
    BY <1>3
    DEF GetDetails, NoProjectLeft, ReadStatus, ScanFinds, LookupPackage,
        WorkStep, TypeOK, WorkerPC, Holding, InProcessProject
  <2> QED
    BY <1>3, <2>1, <2>2
    DEF GetDetails, NoProjectLeft, ReadStatus, ScanFinds, LookupPackage, TypeOK
<1>4. CASE DetailsMissing(w)
  <2>1. StorageTypeOK'
    BY <1>4, StorageUnchangedType DEF DetailsMissing, TypeOK
  <2> QED  BY <1>4, <2>1, ReturnType DEF DetailsMissing, TypeOK
<1>5. CASE TakeProject(w)
  <2>1. StorageTypeOK' /\ Head(queue[wsid[w]]) \in Branch
    BY <1>5, GetProjectFromQueueType DEF TakeProject, WorkStep, TypeOK
  <2> QED
    BY <1>5, <2>1
    DEF TakeProject, WorkStep, TypeOK, WorkerPC, Holding, InProcessProject
<1>6. CASE Complete(w)
  <2>1. StorageTypeOK'
    BY <1>6, CompleteSearchType DEF Complete, TypeOK
  <2> QED  BY <1>6, <2>1, ReturnType DEF Complete, TypeOK
<1>7. CASE MarkProcessing(w)
  <2>1. StorageTypeOK'
    BY <1>7, UpdateSearchStatusType DEF MarkProcessing, WorkStep, TypeOK, Status
  <2> QED
    BY <1>7, <2>1
    DEF MarkProcessing, WorkStep, TypeOK, WorkerPC, Holding, InProcessProject
<1>8. CASE ScanNothing(w) \/ AttachPackage(w) \/ ReportFailure(w)
  <2>1. wpc[w] \in Holding /\ wsid[w] \in SearchID /\ witem[w] \in Branch
    BY <1>8
    DEF ScanNothing, AttachPackage, ReportFailure, TypeOK, Holding,
        InProcessProject
  <2>2. Return(w) /\ handled' \in [SearchID -> SUBSET Branch]
    BY <1>8, <2>1, SettleType DEF ScanNothing, AttachPackage, ReportFailure, Settle
  <2>3. StorageTypeOK'
    BY <1>8, <2>1, StorageUnchangedType, AddFailedRepositoryType
    DEF ScanNothing, AttachPackage, ReportFailure, TypeOK
  <2>4. deps' \subseteq Package \X Branch /\ packages' = packages
    BY <1>8, <2>1, PkgOfAssumption, ContainsAssumption
    DEF ScanNothing, AttachPackage, ReportFailure, TypeOK
  <2> QED
    BY <1>8, <2>2, <2>3, <2>4, ReturnType
    DEF ScanNothing, AttachPackage, ReportFailure, TypeOK
<1>9. CASE CreatePackage(w)
  <2>1. StorageTypeOK'
    BY <1>9, StorageUnchangedType DEF CreatePackage, TypeOK
  <2> QED
    BY <1>9, <2>1, PkgOfAssumption
    DEF CreatePackage, WorkStep, TypeOK, WorkerPC, Holding, InProcessProject
<1> QED
  BY <1>1, <1>2, <1>3, <1>4, <1>5, <1>6, <1>7, <1>8, <1>9 DEF WorkerStep

\* Every failure of a worker keeps the types.
LEMMA WorkerFaultType ==
    ASSUME TypeOK, NEW w \in Worker, WorkerFault(w)
    PROVE  TypeOK'
<1> USE DEF NoRequest, requestVars, workerVars, dbVars
<1>1. faults' \in 0..MaxFaults /\ expiries' \in 0..MaxExpiries
  BY BoundsAssumption
  DEF WorkerFault, WorkerDies, TakeRetried, MarkFails, ProcessFails, Fault, TypeOK
<1>2. CASE WorkerDies(w)
  <2>1. StorageTypeOK'
    BY <1>2, StorageUnchangedType DEF WorkerDies, TypeOK
  <2> QED  BY <1>1, <1>2, <2>1, ReturnType DEF WorkerDies, TypeOK
<1>3. CASE TakeRetried(w)
  <2>1. StorageTypeOK'
    BY <1>3, GetProjectFromQueueType DEF TakeRetried, TypeOK
  <2> QED  BY <1>1, <1>3, <2>1 DEF TakeRetried, TypeOK
<1>4. CASE MarkFails(w) \/ ProcessFails(w)
  <2>1. StorageTypeOK'
    BY <1>4, StorageUnchangedType DEF MarkFails, ProcessFails, TypeOK
  <2>2. /\ wpc' \in [Worker -> WorkerPC]
        /\ \A v \in Worker : wpc'[v] # "poll" => wsid'[v] \in SearchID
        /\ \A v \in Worker : wpc'[v] \in Holding => witem'[v] \in Branch
    BY <1>4
    DEF MarkFails, ProcessFails, WorkStep, TypeOK, WorkerPC, Holding,
        InProcessProject
  <2> QED  BY <1>1, <1>4, <2>1, <2>2 DEF MarkFails, ProcessFails, TypeOK
<1> QED  BY <1>2, <1>3, <1>4 DEF WorkerFault

\* The tables may hold results of earlier searches, the keys nothing.
LEMMA InitType ==
    ASSUME Init
    PROVE  TypeOK
<1>1. StorageTypeOK
  <2>1. queue \in [SearchID -> Seq(Branch)]
    BY EmptySeq DEF Init, StorageInit
  <2>2. status \in [SearchID -> Status]
    BY DEF Init, StorageInit, Status
  <2>3. failed \in [SearchID -> SUBSET Branch]
    BY DEF Init, StorageInit
  <2> QED  BY <2>1, <2>2, <2>3 DEF Init, StorageInit, StorageTypeOK
<1>2. packages \subseteq Package /\ deps \subseteq Package \X Branch
  <2>1. KnownDeps \subseteq Package \X Branch
    BY KnownDepsAssumption, ContainsAssumption
  <2>2. {d[1] : d \in KnownDeps} \subseteq Package
    BY <2>1
  <2> QED  BY <2>1, <2>2 DEF Init
<1>3. /\ rpc \in [Request -> RequestPC]
      /\ rsid \in [Request -> SearchID \cup {None}]
      /\ \A r \in Request : rpc[r] # "idle" => rsid[r] \in SearchID
      /\ rpage \in [Request -> Nat \ {0}]
      /\ rtodo \in [Request -> Seq(Seq(Branch))]
      /\ \A r \in Request : rpc[r] = "push" => rtodo[r] # << >>
  BY DEF Init, RequestPC
<1>4. /\ wpc \in [Worker -> WorkerPC]
      /\ wsid \in [Worker -> SearchID \cup {None}]
      /\ \A w \in Worker : wpc[w] # "poll" => wsid[w] \in SearchID
      /\ witem \in [Worker -> Branch \cup {None}]
      /\ \A w \in Worker : wpc[w] \in Holding => witem[w] \in Branch
  BY DEF Init, WorkerPC, Holding, InProcessProject
<1> QED  BY <1>1, <1>2, <1>3, <1>4, BoundsAssumption DEF Init, TypeOK

\* Every step keeps the types.
LEMMA StepType ==
    ASSUME TypeOK, [Next]_vars
    PROVE  TypeOK'
<1>1. CASE \E r \in Request, s \in SearchID : Arrive(r, s)
  <2> PICK r \in Request, s \in SearchID : Arrive(r, s)
    BY <1>1
  <2>1. StorageTypeOK'
    BY StorageUnchangedType DEF Arrive, TypeOK
  <2> QED
    BY <2>1
    DEF Arrive, ReqStep, NoWorker, workerVars, dbVars, budgetVars, TypeOK,
        RequestPC
<1>2. CASE \E r \in Request : RequestStep(r) \/ RequestFault(r)
  BY <1>2, RequestStepType, RequestFaultType
<1>3. CASE \E w \in Worker : WorkerStep(w) \/ WorkerFault(w)
  BY <1>3, WorkerStepType, WorkerFaultType
<1>4. CASE \E s \in SearchID : Expire(s)
  <2> PICK s \in SearchID : Expire(s)
    BY <1>4
  <2>1. StorageTypeOK'
    BY ExpireType DEF Expire, TypeOK
  <2>2. expiries' \in 0..MaxExpiries
    BY BoundsAssumption DEF Expire, TypeOK
  <2> QED
    BY <2>1, <2>2
    DEF Expire, NoRequest, NoWorker, requestVars, workerVars, dbVars, TypeOK
<1>5. CASE UNCHANGED vars
  <2>1. StorageTypeOK'
    BY <1>5, StorageUnchangedType DEF vars, TypeOK
  <2> QED
    BY <1>5, <2>1
    DEF vars, requestVars, workerVars, dbVars, budgetVars, TypeOK
<1> QED  BY <1>1, <1>2, <1>3, <1>4, <1>5 DEF Next

\* Every state of a search is of the type the code's fields have, whatever the
\* requests, workers, failures and expiries.
THEOREM TypeCorrect == Spec => []TypeOK
BY InitType, StepType, PTL DEF Spec

----------------------------------------------------------------------------
(* One owner per search.                                                   *)

\* A request that owns a search keeps the search claimed: that is why HSETNX
\* fails for everybody else.
OwnerInv ==
    /\ OneOwner
    /\ \A r \in Request : rpc[r] \in Owning => status[rsid[r]] # Absent

\* A search stays claimed unless its hash expires, and that happens to
\* searches nobody owns.
LEMMA ClaimStays ==
    ASSUME TypeOK, Next, NEW s \in SearchID, status[s] # Absent,
           \E r \in Request : rpc[r] \in Owning /\ rsid[r] = s
    PROVE  status'[s] # Absent
<1> USE DEF StorageTypeOK, storageVars, Absent
<1>1. CASE \E r \in Request, t \in SearchID : Arrive(r, t)
  BY <1>1 DEF Arrive
<1>2. CASE \E r \in Request : RequestStep(r)
  <2> PICK r \in Request : RequestStep(r)
    BY <1>2
  <2>1. CASE Acquire(r)
    BY <2>1 DEF Acquire, AcquireSearch, CanAcquire, TypeOK
  <2>2. CASE AddCached(r) \/ Enqueue(r)
    BY <2>2 DEF AddCached, Enqueue, AddSearchToQueue, TypeOK
  <2>3. CASE CompleteCached(r)
    BY <2>3 DEF CompleteCached, CompleteSearch, TypeOK
  <2>4. CASE FindDependencies(r) \/ ReadPage(r) \/ PushProject(r)
    BY <2>4 DEF FindDependencies, ReadPage, PushProject, AddProjectsToQueue
  <2> QED  BY <2>1, <2>2, <2>3, <2>4 DEF RequestStep
<1>3. CASE \E r \in Request : RequestFault(r)
  BY <1>3
  DEF RequestFault, RequestDies, ReplyLost, FindDependenciesFails,
      PushFails, AcquireSearch, AddSearchToQueue, CompleteSearch, CanAcquire,
      TypeOK
<1>4. CASE \E w \in Worker : WorkerStep(w)
  BY <1>4
  DEF WorkerStep, PeekSearch, PollNothing, GetDetails, DetailsMissing,
      TakeProject, NoProjectLeft, Complete, ReadStatus, MarkProcessing,
      ScanNothing, ScanFinds, LookupPackage, CreatePackage, AttachPackage,
      ReportFailure, GetProjectFromQueue, CompleteSearch, UpdateSearchStatus,
      AddFailedRepository, TypeOK, vars
<1>5. CASE \E w \in Worker : WorkerFault(w)
  BY <1>5
  DEF WorkerFault, WorkerDies, TakeRetried, MarkFails, ProcessFails,
      GetProjectFromQueue, TypeOK
<1>6. CASE \E t \in SearchID : Expire(t)
  <2> PICK t \in SearchID : Expire(t)
    BY <1>6
  <2>1. t # s
    BY DEF Expire, Claimed
  <2>2. CASE ExpireHash(t)
    BY <2>1, <2>2 DEF ExpireHash, TypeOK
  <2>3. CASE ExpireQueue(t)
    BY <2>3 DEF ExpireQueue
  <2> QED  BY <2>2, <2>3 DEF Expire
<1> QED  BY <1>1, <1>2, <1>3, <1>4, <1>5, <1>6 DEF Next

\* A request becomes the owner of a search in one way: HSETNX found no status.
Acquires(q) ==
    /\ rpc[q] = "acquire" /\ CanAcquire(rsid[q])
    /\ AcquireSearch(rsid[q])
    /\ rpc' = [rpc EXCEPT ![q] = "lookup"]

LEMMA OwnersComeByAcquire ==
    ASSUME TypeOK, Next, NEW q \in Request, rpc'[q] \in Owning
    PROVE  /\ rsid'[q] = rsid[q] /\ rsid[q] \in SearchID
           /\ rpc[q] \in Owning \/ Acquires(q)
<1> USE DEF Owning, Unpublished, ReqStep, requestVars, RequestPC, Returned
<1>1. CASE \E r \in Request, s \in SearchID : Arrive(r, s)
  BY <1>1 DEF Arrive, TypeOK
<1>2. CASE \E r \in Request : RequestStep(r)
  <2> PICK r \in Request : RequestStep(r)
    BY <1>2
  <2>1. CASE Acquire(r)
    BY <2>1 DEF Acquire, Acquires, TypeOK
  <2>2. CASE FindDependencies(r) \/ AddCached(r) \/ CompleteCached(r)
             \/ ReadPage(r) \/ Enqueue(r)
    BY <2>2
    DEF FindDependencies, AddCached, CompleteCached, ReadPage, Enqueue, TypeOK
  <2>3. CASE PushProject(r)
    BY <2>3 DEF PushProject, NextProject, TypeOK
  <2> QED  BY <2>1, <2>2, <2>3 DEF RequestStep
<1>3. CASE \E r \in Request : RequestFault(r)
  BY <1>3
  DEF RequestFault, RequestDies, ReplyLost, FindDependenciesFails,
      PushFails, NextProject, TypeOK
<1>4. CASE \E w \in Worker : WorkerStep(w)
  BY <1>4
  DEF WorkerStep, PeekSearch, PollNothing, GetDetails, DetailsMissing,
      TakeProject, NoProjectLeft, Complete, ReadStatus, MarkProcessing,
      ScanNothing, ScanFinds, LookupPackage, CreatePackage, AttachPackage,
      ReportFailure, NoRequest, vars, TypeOK
<1>5. CASE \E w \in Worker : WorkerFault(w)
  BY <1>5
  DEF WorkerFault, WorkerDies, TakeRetried, MarkFails, ProcessFails, NoRequest,
      TypeOK
<1>6. CASE \E s \in SearchID : Expire(s)
  BY <1>6 DEF Expire, NoRequest, TypeOK
<1> QED  BY <1>1, <1>2, <1>3, <1>4, <1>5, <1>6 DEF Next

LEMMA OwnerInvStep ==
    ASSUME TypeOK, OwnerInv, [Next]_vars
    PROVE  OwnerInv'
<1>1. CASE UNCHANGED vars
  BY <1>1 DEF OwnerInv, OneOwner, vars, requestVars, storageVars
<1>2. CASE Next
  <2>1. \A r \in Request : rpc'[r] \in Owning => status'[rsid'[r]] # Absent
    <3> SUFFICES ASSUME NEW r \in Request, rpc'[r] \in Owning
                 PROVE  status'[rsid'[r]] # Absent
      OBVIOUS
    <3>1. rsid'[r] = rsid[r] /\ rsid[r] \in SearchID
      BY <1>2, OwnersComeByAcquire
    <3>2. CASE rpc[r] \in Owning
      BY <1>2, <3>1, <3>2, ClaimStays DEF OwnerInv
    <3>3. CASE Acquires(r)
      BY <3>1, <3>3
      DEF Acquires, AcquireSearch, CanAcquire, Absent, TypeOK, StorageTypeOK
    <3> QED  BY <1>2, <3>2, <3>3, OwnersComeByAcquire
  <2>2. OneOwner'
    <3> SUFFICES ASSUME NEW q \in Request, NEW r \in Request,
                        rpc'[q] \in Owning, rpc'[r] \in Owning,
                        rsid'[q] = rsid'[r]
                 PROVE  q = r
      BY DEF OneOwner
    <3>1. rsid[q] = rsid[r]
      BY <1>2, OwnersComeByAcquire
    <3>2. \A p \in Request : p # q /\ Acquires(q) => rpc'[p] = rpc[p]
      BY DEF Acquires, TypeOK
    <3>3. \A p \in Request : p # r /\ Acquires(r) => rpc'[p] = rpc[p]
      BY DEF Acquires, TypeOK
    <3>4. CASE rpc[q] \in Owning /\ rpc[r] \in Owning
      BY <3>1, <3>4 DEF OwnerInv, OneOwner
    <3>5. CASE Acquires(q)
      BY <3>1, <3>2, <3>5 DEF OwnerInv, Acquires, CanAcquire
    <3>6. CASE Acquires(r)
      BY <3>1, <3>3, <3>6 DEF OwnerInv, Acquires, CanAcquire
    <3> QED  BY <1>2, <3>4, <3>5, <3>6, OwnersComeByAcquire
  <2> QED  BY <2>1, <2>2 DEF OwnerInv
<1> QED  BY <1>1, <1>2

\* No two requests ever own the same search, with any failures and expiries:
\* the project branches are queued by one listing at a time.
THEOREM OneOwnerCorrect == Spec => []OneOwner
<1>1. Init => OwnerInv
  BY DEF Init, OwnerInv, OneOwner, Owning, Unpublished
<1>2. TypeOK /\ OwnerInv /\ [Next]_vars => OwnerInv'
  BY OwnerInvStep
<1>3. OwnerInv => OneOwner
  BY DEF OwnerInv
<1> QED  BY <1>1, <1>2, <1>3, TypeCorrect, PTL DEF Spec

----------------------------------------------------------------------------
(* Completion over an empty queue only.                                    *)

\* As long as no key expires, a search has its details from AddSearchToQueue
\* on; before, its owner is the only process that touches its keys, and after,
\* nobody pushes to its queue any more.
SearchInv(s) ==
    /\ status[s] = Absent => queue[s] = << >> /\ ~named[s]
    /\ score[s] > 0 => named[s]
    /\ status[s] = "completed" => score[s] = 0 /\ queue[s] = << >>
    /\ \A r \in Request : rsid[r] = s /\ rpc[r] \in Unpublished =>
            status[s] = "pending" /\ ~named[s]
    /\ \A r \in Request :
            rsid[r] = s /\ rpc[r] \in {"lookup", "cached_add", "cached_complete"} =>
                queue[s] = << >>
    /\ \A w \in Worker : wsid[w] = s /\ wpc[w] # "poll" => named[s]
    /\ \A w \in Worker : wsid[w] = s /\ wpc[w] = "complete" => queue[s] = << >>

DrainInv == expiries = 0 => \A s \in SearchID : SearchInv(s)

\* A step that leaves the keys of s alone, and moves no process into a position
\* SearchInv speaks about, keeps SearchInv(s).
LEMMA SearchInvFrame ==
    ASSUME NEW s \in SearchID, SearchInv(s),
           status'[s] = status[s], named'[s] = named[s],
           score'[s] = score[s], queue'[s] = queue[s],
           \A r \in Request :
               rsid'[r] = s /\ rpc'[r] \in Owning =>
                   /\ rsid[r] = s
                   /\ rpc'[r] \in Unpublished => rpc[r] \in Unpublished
                   /\ rpc'[r] \in {"lookup", "cached_add", "cached_complete"} =>
                          rpc[r] \in {"lookup", "cached_add", "cached_complete"},
           \A w \in Worker :
               wsid'[w] = s /\ wpc'[w] # "poll" =>
                   /\ named[s]
                   /\ wpc'[w] = "complete" =>
                          queue[s] = << >>
    PROVE  SearchInv(s)'
BY DEF SearchInv, Owning, Unpublished

LEMMA RequestFrame ==
    ASSUME NEW s \in SearchID, SearchInv(s),
           status'[s] = status[s], named'[s] = named[s],
           score'[s] = score[s], queue'[s] = queue[s],
           UNCHANGED <<wpc, wsid, rsid>>,
           \A q \in Request : rsid[q] = s =>
               rpc'[q] = rpc[q] \/ rpc'[q] \notin Owning
    PROVE  SearchInv(s)'
BY DEF SearchInv, Owning, Unpublished

\* What completing s does to it, for its owner and for a worker alike.
LEMMA CompletionFrame ==
    ASSUME NEW s \in SearchID, SearchInv(s), TypeOK,
           status'[s] = "completed", named'[s] = named[s],
           score'[s] = 0, queue'[s] = << >>,
           \A q \in Request : rsid'[q] = s => rpc'[q] \notin Unpublished,
           \A w \in Worker : wsid'[w] = s /\ wpc'[w] # "poll" => named[s]
    PROVE  SearchInv(s)'
<1>1. /\ ~(score'[s] > 0)
      /\ status'[s] # Absent
  BY DEF Absent
<1> QED  BY <1>1 DEF SearchInv

LEMMA SearchInvRequest ==
    ASSUME TypeOK, OwnerInv, NEW r \in Request, RequestStep(r),
           NEW s \in SearchID, SearchInv(s)
    PROVE  SearchInv(s)'
<1> USE DEF ReqStep, NoWorker, workerVars, StorageTypeOK, Absent
<1>0. UNCHANGED <<wpc, wsid, rsid>> /\ rsid[r] \in SearchID
  BY DEF RequestStep, Acquire, FindDependencies, AddCached, CompleteCached,
         ReadPage, PushProject, NextProject, Enqueue, TypeOK
<1>1. CASE Acquire(r)
  BY <1>0, <1>1
  DEF Acquire, AcquireSearch, CanAcquire, SearchInv, Unpublished, TypeOK
<1>2. CASE FindDependencies(r)
  BY <1>0, <1>2
  DEF FindDependencies, storageVars, SearchInv, Unpublished, TypeOK
<1>3. CASE AddCached(r)
  <2>1. CASE s # rsid[r]
    <3>1. /\ status'[s] = status[s] /\ named'[s] = named[s]
          /\ score'[s] = score[s] /\ queue'[s] = queue[s]
      BY <1>3, <2>1 DEF AddCached, AddSearchToQueue, TypeOK
    <3>2. \A q \in Request : rsid[q] = s => rpc'[q] = rpc[q]
      BY <1>3, <2>1 DEF AddCached, TypeOK
    <3> QED  BY <1>0, <3>1, <3>2, RequestFrame
  <2>2. CASE s = rsid[r]
    <3>1. \A q \in Request : rsid[q] = s /\ rpc[q] \in Owning => q = r
      BY <1>3, <2>2 DEF AddCached, Owning, Unpublished, OwnerInv, OneOwner
    <3>2. \A q \in Request :
             rsid[q] = s => /\ rpc'[q] \notin Unpublished
                            /\ rpc'[q] \notin {"lookup", "cached_add"}
      BY <1>3, <3>1 DEF AddCached, Owning, Unpublished, TypeOK
    <3>3. queue[s] = << >> /\ queue'[s] = queue[s]
      BY <1>3, <2>2 DEF AddCached, AddSearchToQueue, SearchInv
    <3>4. status'[s] = "pending" /\ named'[s]
      BY <1>3, <2>2 DEF AddCached, AddSearchToQueue, TypeOK
    <3> QED  BY <1>0, <3>2, <3>3, <3>4 DEF SearchInv
  <2> QED  BY <2>1, <2>2
<1>4. CASE CompleteCached(r)
  <2>1. CASE s # rsid[r]
    <3>1. /\ status'[s] = status[s] /\ named'[s] = named[s]
          /\ score'[s] = score[s] /\ queue'[s] = queue[s]
      BY <1>4, <2>1 DEF CompleteCached, CompleteSearch, TypeOK
    <3>2. \A q \in Request : rsid[q] = s => rpc'[q] = rpc[q]
      BY <1>4, <2>1 DEF CompleteCached, TypeOK
    <3> QED  BY <1>0, <3>1, <3>2, RequestFrame
  <2>2. CASE s = rsid[r]
    <3>1. \A q \in Request : rsid[q] = s /\ rpc[q] \in Owning => q = r
      BY <1>4, <2>2 DEF CompleteCached, Owning, Unpublished, OwnerInv, OneOwner
    <3>2. \A q \in Request :
             rsid[q] = s => /\ rpc'[q] \notin Unpublished
                            /\ rpc'[q] \notin {"lookup", "cached_add", "cached_complete"}
      BY <1>4, <3>1 DEF CompleteCached, Owning, Unpublished, TypeOK
    <3>3. queue[s] = << >> /\ queue'[s] = queue[s] /\ named'[s] = named[s]
      BY <1>4, <2>2 DEF CompleteCached, CompleteSearch, SearchInv
    <3>4. status'[s] = "completed" /\ score'[s] = 0
      BY <1>4, <2>2 DEF CompleteCached, CompleteSearch, TypeOK
    <3>5. \A w \in Worker : wsid'[w] = s /\ wpc'[w] # "poll" => named[s]
      BY <1>0 DEF SearchInv
    <3> QED  BY <1>0, <3>2, <3>3, <3>4, <3>5, CompletionFrame
  <2> QED  BY <2>1, <2>2
<1>5. CASE ReadPage(r)
  BY <1>0, <1>5 DEF ReadPage, storageVars, SearchInv, Unpublished, TypeOK
<1>6. CASE PushProject(r)
  <2>1. /\ UNCHANGED <<status, named, score>> /\ rpc[r] = "push"
        /\ rpc'[r] \in {"page", "push"}
        /\ \A q \in Request : q # r => rpc'[q] = rpc[q]
        /\ \A t \in SearchID : t # rsid[r] => queue'[t] = queue[t]
    BY <1>6 DEF PushProject, NextProject, AddProjectsToQueue, TypeOK
  <2>2. CASE s # rsid[r]
    <3>1. \A q \in Request : rsid[q] = s => rpc'[q] = rpc[q]
      BY <2>1, <2>2
    <3> QED  BY <1>0, <2>1, <2>2, <3>1, RequestFrame
  <2>3. CASE s = rsid[r]
    <3>1. status[s] = "pending" /\ ~named[s]
      BY <2>1, <2>3 DEF SearchInv, Unpublished
    <3>2. \A q \in Request : rsid[q] = s /\ rpc[q] \in Owning => q = r
      BY <2>1, <2>3 DEF OwnerInv, OneOwner, Owning, Unpublished
    <3>3. \A q \in Request : rsid[q] = s =>
              rpc'[q] \notin {"lookup", "cached_add", "cached_complete"}
      BY <2>1, <3>2 DEF Owning, Unpublished
    <3> QED  BY <1>0, <2>1, <3>1, <3>3 DEF SearchInv
  <2> QED  BY <2>2, <2>3
<1>7. CASE Enqueue(r)
  <2>1. CASE s # rsid[r]
    <3>1. /\ status'[s] = status[s] /\ named'[s] = named[s]
          /\ score'[s] = score[s] /\ queue'[s] = queue[s]
      BY <1>7, <2>1 DEF Enqueue, AddSearchToQueue, TypeOK
    <3>2. \A q \in Request : rsid[q] = s => rpc'[q] = rpc[q]
      BY <1>7, <2>1 DEF Enqueue, TypeOK
    <3> QED  BY <1>0, <3>1, <3>2, RequestFrame
  <2>2. CASE s = rsid[r]
    <3>1. \A q \in Request : rsid[q] = s /\ rpc[q] \in Owning => q = r
      BY <1>7, <2>2 DEF Enqueue, Owning, Unpublished, OwnerInv, OneOwner
    <3>2. \A q \in Request :
             rsid[q] = s => /\ rpc'[q] \notin Unpublished
                            /\ rpc'[q] \notin {"lookup", "cached_add", "cached_complete"}
      BY <1>7, <3>1 DEF Enqueue, Owning, Unpublished, TypeOK
    <3>3. ~named[s] /\ queue'[s] = queue[s]
      BY <1>7, <2>2 DEF Enqueue, AddSearchToQueue, SearchInv, Unpublished
    <3>4. status'[s] = "pending" /\ named'[s]
      BY <1>7, <2>2 DEF Enqueue, AddSearchToQueue, TypeOK
    <3> QED  BY <1>0, <3>2, <3>3, <3>4 DEF SearchInv
  <2> QED  BY <2>1, <2>2
<1> QED
  BY <1>1, <1>2, <1>3, <1>4, <1>5, <1>6, <1>7 DEF RequestStep

LEMMA SearchInvRequestFault ==
    ASSUME TypeOK, OwnerInv, NEW r \in Request, RequestFault(r),
           NEW s \in SearchID, SearchInv(s)
    PROVE  SearchInv(s)'
<1> USE DEF ReqStep, NoWorker, workerVars, StorageTypeOK, Absent
<1>0. UNCHANGED <<wpc, wsid, rsid>>
  BY DEF RequestFault, RequestDies, ReplyLost, FindDependenciesFails,
         PushFails, NextProject, requestVars
<1>1. CASE RequestDies(r)
  <2>1. UNCHANGED <<status, named, score, queue>>
    BY <1>1 DEF RequestDies, storageVars
  <2>2. \A q \in Request : rpc'[q] = rpc[q] \/ rpc'[q] \notin Owning
    BY <1>1 DEF RequestDies, TypeOK, Owning, Unpublished
  <2> QED  BY <1>0, <2>1, <2>2, RequestFrame
<1>2. CASE ReplyLost(r)
  <2>1. /\ rpc' = [rpc EXCEPT ![r] = "error"] /\ rsid[r] \in SearchID
        /\ \A q \in Request : rpc'[q] \in Owning => q # r /\ rpc'[q] = rpc[q]
    BY <1>2 DEF ReplyLost, TypeOK, Owning, Unpublished
  <2>2. CASE rpc[r] = "acquire" /\ AcquireSearch(rsid[r])
    BY <1>0, <2>1, <2>2
    DEF AcquireSearch, CanAcquire, SearchInv, Owning, Unpublished, TypeOK
  <2>3. CASE /\ rpc[r] \in {"cached_add", "enqueue", "cached_complete"}
             /\ AddSearchToQueue(rsid[r]) \/ CompleteSearch(rsid[r])
             /\ s # rsid[r]
    <3>1. /\ status'[s] = status[s] /\ named'[s] = named[s]
          /\ score'[s] = score[s] /\ queue'[s] = queue[s]
      BY <2>3 DEF AddSearchToQueue, CompleteSearch, TypeOK
    <3> QED  BY <1>0, <2>1, <3>1, RequestFrame
  <2>4. CASE rpc[r] \in {"cached_add", "enqueue"} /\ s = rsid[r]
             /\ AddSearchToQueue(s)
    <3>1. \A q \in Request : rsid[q] = s => rpc'[q] \notin Owning
      BY <2>1, <2>4 DEF Owning, Unpublished, OwnerInv, OneOwner
    <3>2. ~named[s] /\ queue'[s] = queue[s]
      BY <2>4 DEF AddSearchToQueue, SearchInv, Unpublished
    <3>3. status'[s] = "pending" /\ named'[s]
      BY <2>1, <2>4 DEF AddSearchToQueue, TypeOK
    <3> QED  BY <1>0, <3>1, <3>2, <3>3 DEF SearchInv, Owning, Unpublished
  <2>5. CASE rpc[r] = "cached_complete" /\ s = rsid[r] /\ CompleteSearch(s)
    <3>1. \A q \in Request : rsid[q] = s => rpc'[q] \notin Owning
      BY <2>1, <2>5 DEF Owning, Unpublished, OwnerInv, OneOwner
    <3>2. queue[s] = << >> /\ queue'[s] = queue[s] /\ named'[s] = named[s]
      BY <2>5 DEF CompleteSearch, SearchInv
    <3>3. status'[s] = "completed" /\ score'[s] = 0
      BY <2>1, <2>5 DEF CompleteSearch, TypeOK
    <3>4. \A w \in Worker : wsid'[w] = s /\ wpc'[w] # "poll" => named[s]
      BY <1>0 DEF SearchInv
    <3> QED  BY <1>0, <3>1, <3>2, <3>3, <3>4, CompletionFrame DEF Owning
  <2> QED  BY <1>2, <2>2, <2>3, <2>4, <2>5 DEF ReplyLost
<1>3. CASE FindDependenciesFails(r)
  BY <1>0, <1>3
  DEF FindDependenciesFails, storageVars, SearchInv, Unpublished, TypeOK
<1>4. CASE PushFails(r)
  BY <1>0, <1>4
  DEF PushFails, NextProject, storageVars, SearchInv, Unpublished, TypeOK
<1> QED  BY <1>1, <1>2, <1>3, <1>4 DEF RequestFault

LEMMA SearchInvWorker ==
    ASSUME TypeOK, NEW w \in Worker, WorkerStep(w) \/ WorkerFault(w),
           NEW s \in SearchID, SearchInv(s)
    PROVE  SearchInv(s)'
<1> USE DEF WorkStep, Return, StorageTypeOK
<1>0. UNCHANGED <<rpc, rsid>>
  BY DEF WorkerStep, PeekSearch, PollNothing, GetDetails, DetailsMissing,
      TakeProject, NoProjectLeft, Complete, ReadStatus, MarkProcessing,
      ScanNothing, ScanFinds, LookupPackage, CreatePackage, AttachPackage,
      ReportFailure, NoRequest, requestVars, vars, WorkerFault, WorkerDies,
      TakeRetried, MarkFails, ProcessFails
<1>1. CASE PeekSearch(w)
  BY <1>0, <1>1 DEF PeekSearch, Highest, Queued, storageVars, SearchInv, TypeOK
<1>2. CASE PollNothing(w)
  BY <1>2 DEF PollNothing, vars, storageVars, workerVars, requestVars, SearchInv
<1>3. CASE GetDetails(w) \/ ReadStatus(w) \/ ScanFinds(w) \/ LookupPackage(w)
           \/ CreatePackage(w) \/ MarkFails(w) \/ ProcessFails(w)
  <2>1. UNCHANGED <<storageVars, wsid>> /\ wpc[w] # "poll"
    BY <1>3
    DEF GetDetails, ReadStatus, ScanFinds, LookupPackage, CreatePackage,
        MarkFails, ProcessFails, InProcessProject
  <2>2. \E to \in WorkerPC \ {"complete"} : wpc' = [wpc EXCEPT ![w] = to]
    BY <1>3
    DEF GetDetails, ReadStatus, ScanFinds, LookupPackage, CreatePackage,
        MarkFails, ProcessFails, WorkerPC, Holding, InProcessProject
  <2> QED
    BY <1>0, <2>1, <2>2, SearchInvFrame DEF storageVars, SearchInv, Owning, TypeOK
<1>4. CASE DetailsMissing(w) \/ ScanNothing(w) \/ AttachPackage(w) \/ WorkerDies(w)
           \/ ReportFailure(w)
  <2>1. UNCHANGED <<status, named, score, queue>> /\ Return(w)
    BY <1>4
    DEF DetailsMissing, ScanNothing, AttachPackage, WorkerDies, ReportFailure,
        Settle, storageVars, AddFailedRepository
  <2> QED  BY <1>0, <2>1, SearchInvFrame DEF SearchInv, Owning, TypeOK
<1>5. CASE TakeProject(w) \/ TakeRetried(w)
  <2>1. /\ UNCHANGED <<status, named, score, wsid>>
        /\ queue' = [queue EXCEPT ![wsid[w]] = Tail(@)]
        /\ queue[wsid[w]] # << >> /\ wpc[w] = "pop"
        /\ \E to \in {"pop", "status"} : wpc' = [wpc EXCEPT ![w] = to]
    BY <1>5 DEF TakeProject, TakeRetried, GetProjectFromQueue, workerVars, TypeOK
  <2>2. CASE s # wsid[w]
    BY <1>0, <2>1, <2>2, SearchInvFrame DEF SearchInv, Owning, TypeOK
  <2>3. CASE s = wsid[w]
    BY <1>0, <2>1, <2>3 DEF SearchInv, TypeOK
  <2> QED  BY <2>2, <2>3
<1>6. CASE NoProjectLeft(w)
  BY <1>0, <1>6, SearchInvFrame
  DEF NoProjectLeft, storageVars, SearchInv, Owning, TypeOK
<1>7. CASE Complete(w)
  <2>0. \A v \in Worker : wsid'[v] = s /\ wpc'[v] # "poll" =>
            wsid[v] = s /\ wpc'[v] = wpc[v]
    BY <1>7 DEF Complete, TypeOK
  <2>1. CASE s # wsid[w]
    <3>1. /\ status'[s] = status[s] /\ named'[s] = named[s]
          /\ score'[s] = score[s] /\ queue'[s] = queue[s]
      BY <1>7, <2>1 DEF Complete, CompleteSearch, TypeOK
    <3> QED  BY <1>0, <2>0, <3>1, SearchInvFrame DEF SearchInv
  <2>2. CASE s = wsid[w]
    <3>1. /\ status'[s] = "completed" /\ named'[s] = named[s]
          /\ score'[s] = 0 /\ queue'[s] = << >> /\ named[s]
      BY <1>7, <2>2 DEF Complete, CompleteSearch, SearchInv, TypeOK
    <3>2. \A q \in Request : rsid'[q] = s => rpc'[q] \notin Unpublished
      BY <1>0, <3>1 DEF SearchInv
    <3> QED  BY <3>1, <3>2, CompletionFrame
  <2> QED  BY <2>1, <2>2
<1>8. CASE MarkProcessing(w)
  BY <1>0, <1>8 DEF MarkProcessing, UpdateSearchStatus, SearchInv, TypeOK, Absent
<1> QED
  BY <1>1, <1>2, <1>3, <1>4, <1>5, <1>6, <1>7, <1>8 DEF WorkerStep, WorkerFault

LEMMA DrainInit ==
    ASSUME Init
    PROVE  DrainInv
<1> SUFFICES ASSUME NEW s \in SearchID
             PROVE  SearchInv(s)
  BY DEF DrainInv
<1>1. status[s] = Absent /\ ~named[s] /\ score[s] = 0 /\ queue[s] = << >>
  BY DEF Init, StorageInit
<1>2. /\ \A r \in Request : rpc[r] = "idle"
      /\ \A w \in Worker : wpc[w] = "poll"
  BY DEF Init
<1>3. ~(score[s] > 0) /\ status[s] # "completed"
  BY <1>1 DEF Absent
<1>4. \A r \in Request :
         /\ rpc[r] \notin Unpublished
         /\ rpc[r] \notin {"lookup", "cached_add", "cached_complete"}
  BY <1>2 DEF Unpublished
<1>5. \A w \in Worker : wpc[w] # "complete"
  BY <1>2
<1> QED  BY <1>1, <1>2, <1>3, <1>4, <1>5 DEF SearchInv

LEMMA DrainStep ==
    ASSUME TypeOK, OwnerInv, DrainInv, [Next]_vars
    PROVE  DrainInv'
<1> SUFFICES ASSUME expiries' = 0, NEW s \in SearchID
             PROVE  SearchInv(s)'
  BY DEF DrainInv
<1>1. CASE UNCHANGED vars
  BY <1>1
  DEF vars, storageVars, requestVars, workerVars, budgetVars, DrainInv, SearchInv
<1>2. CASE \E t \in SearchID : Expire(t)
  BY <1>2 DEF Expire, TypeOK
<1>3. CASE \E r \in Request, t \in SearchID : Arrive(r, t)
  <2> PICK r \in Request, t \in SearchID : Arrive(r, t)
    BY <1>3
  <2>1. SearchInv(s)
    BY DEF Arrive, budgetVars, DrainInv
  <2> QED
    BY <2>1, SearchInvFrame
    DEF Arrive, ReqStep, NoWorker, workerVars, storageVars, SearchInv, Owning,
        Unpublished, TypeOK
<1>4. CASE \E r \in Request : RequestStep(r) \/ RequestFault(r)
  <2> PICK r \in Request : RequestStep(r) \/ RequestFault(r)
    BY <1>4
  <2>1. SearchInv(s)
    BY DEF RequestStep, RequestFault, Acquire, FindDependencies, AddCached,
           CompleteCached, ReadPage, PushProject, Enqueue, RequestDies,
           ReplyLost, FindDependenciesFails, PushFails,
           Fault, budgetVars, DrainInv
  <2> QED  BY <2>1, SearchInvRequest, SearchInvRequestFault
<1>5. CASE \E w \in Worker : WorkerStep(w) \/ WorkerFault(w)
  <2> PICK w \in Worker : WorkerStep(w) \/ WorkerFault(w)
    BY <1>5
  <2>1. SearchInv(s)
    BY DEF WorkerStep, WorkerFault, PeekSearch, PollNothing, GetDetails,
           DetailsMissing, TakeProject, NoProjectLeft, Complete, ReadStatus,
           MarkProcessing, ScanNothing, ScanFinds, LookupPackage,
           CreatePackage, AttachPackage, ReportFailure, WorkerDies,
           TakeRetried, MarkFails, ProcessFails, Fault, vars, budgetVars,
           DrainInv
  <2> QED  BY <2>1, SearchInvWorker
<1> QED  BY <1>1, <1>2, <1>3, <1>4, <1>5 DEF Next

\* The invariant that both theorems below read off.
THEOREM DrainInvariant == Spec => []DrainInv
<1>1. Init => DrainInv
  BY DrainInit
<1>2. TypeOK /\ OwnerInv /\ DrainInv /\ [Next]_vars => DrainInv'
  BY DrainStep
<1>3. Init => OwnerInv
  BY DEF Init, OwnerInv, OneOwner, Owning, Unpublished
<1>4. TypeOK /\ OwnerInv /\ [Next]_vars => OwnerInv'
  BY OwnerInvStep
<1> QED  BY <1>1, <1>2, <1>3, <1>4, TypeCorrect, PTL DEF Spec

\* Whatever fails and however many workers run: CompleteSearch never finishes a
\* search whose queue holds branches, and a completed search stays out of the
\* sorted set.
THEOREM CompletedIsDrainedCorrect == Spec => []CompletedIsDrained
<1>1. DrainInv => CompletedIsDrained
  BY DEF DrainInv, SearchInv, CompletedIsDrained
<1> QED  BY <1>1, DrainInvariant, PTL

\* A search in the sorted set has its details and is listed to the end.
THEOREM QueuedAfterListingCorrect == Spec => []QueuedAfterListing
<1>1. DrainInv => QueuedAfterListing
  BY DEF DrainInv, SearchInv, QueuedAfterListing, Queued, HasDetails
<1> QED  BY <1>1, DrainInvariant, PTL

----------------------------------------------------------------------------
(* Queues and hashes that expire.                                          *)

\* The queue of a search is the last key to be given a time to live only while
\* its owner is listing.
Unlisted == {"lookup", "cached_add", "cached_complete"}
LifeInv(s) ==
    /\ status[s] = Absent => queue[s] = << >>
    /\ newest[s] = "hash" \/ Claimed(s) \/ queue[s] = << >>
    /\ \A r \in Request : rsid[r] = s /\ rpc[r] \in Unlisted => queue[s] = << >>

QueueLifeInv == faults = 0 => \A s \in SearchID : LifeInv(s)

\* A step of a request of another search.
LEMMA LifeFrame ==
    ASSUME NEW s \in SearchID, LifeInv(s),
           status'[s] = status[s], queue'[s] = queue[s], newest'[s] = newest[s],
           UNCHANGED rsid,
           \A q \in Request : rsid[q] = s => rpc'[q] = rpc[q]
    PROVE  LifeInv(s)'
BY DEF LifeInv, Claimed

\* A worker may take from the queue and bring a status back, and no more.
LEMMA LifeWorker ==
    ASSUME TypeOK, NEW w \in Worker, WorkerStep(w),
           NEW s \in SearchID, LifeInv(s)
    PROVE  LifeInv(s)'
<1> USE DEF StorageTypeOK, Absent
<1>1. UNCHANGED <<rpc, rsid, newest>>
  BY DEF WorkerStep, PeekSearch, PollNothing, GetDetails, DetailsMissing,
      TakeProject, NoProjectLeft, Complete, ReadStatus, MarkProcessing,
      ScanNothing, ScanFinds, LookupPackage, CreatePackage, AttachPackage,
      ReportFailure, NoRequest, requestVars, vars, storageVars,
      GetProjectFromQueue, CompleteSearch, UpdateSearchStatus, AddFailedRepository
<1>2. status'[s] = Absent => status[s] = Absent
  BY DEF WorkerStep, PeekSearch, PollNothing, GetDetails, DetailsMissing,
      TakeProject, NoProjectLeft, Complete, ReadStatus, MarkProcessing,
      ScanNothing, ScanFinds, LookupPackage, CreatePackage, AttachPackage,
      ReportFailure, vars, storageVars, GetProjectFromQueue, CompleteSearch,
      UpdateSearchStatus, AddFailedRepository, TypeOK
<1>3. queue[s] = << >> => queue'[s] = << >>
  BY DEF WorkerStep, PeekSearch, PollNothing, GetDetails, DetailsMissing,
      TakeProject, NoProjectLeft, Complete, ReadStatus, MarkProcessing,
      ScanNothing, ScanFinds, LookupPackage, CreatePackage, AttachPackage,
      ReportFailure, vars, storageVars, GetProjectFromQueue, CompleteSearch,
      UpdateSearchStatus, AddFailedRepository, TypeOK
<1> QED  BY <1>1, <1>2, <1>3 DEF LifeInv, Claimed

LEMMA LifeRequest ==
    ASSUME TypeOK, OwnerInv, NEW r \in Request, RequestStep(r),
           NEW s \in SearchID, LifeInv(s)
    PROVE  LifeInv(s)'
<1> USE DEF ReqStep, StorageTypeOK, Absent
<1>1. UNCHANGED rsid /\ rsid[r] \in SearchID
  BY DEF RequestStep, Acquire, FindDependencies, AddCached, CompleteCached,
         ReadPage, PushProject, NextProject, Enqueue, TypeOK
<1>2. CASE s # rsid[r]
  <2>1. \A q \in Request : rsid[q] = s => rpc'[q] = rpc[q]
    BY <1>2 DEF RequestStep, Acquire, FindDependencies, AddCached, CompleteCached,
         ReadPage, PushProject, NextProject, Enqueue, TypeOK
  <2>2. status'[s] = status[s] /\ queue'[s] = queue[s] /\ newest'[s] = newest[s]
    BY <1>1, <1>2
    DEF RequestStep, Acquire, FindDependencies, AddCached, CompleteCached,
        ReadPage, PushProject, Enqueue, storageVars, AcquireSearch,
        AddSearchToQueue, AddProjectsToQueue, CompleteSearch, TypeOK
  <2> QED  BY <1>1, <2>1, <2>2, LifeFrame
<1>3. CASE s = rsid[r]
  <2>1. rpc[r] \in Owning => \A q \in Request : rsid[q] = s /\ rpc[q] \in Owning => q = r
    BY <1>3 DEF OwnerInv, OneOwner
  <2>2. Unlisted \subseteq Owning
    BY DEF Unlisted, Owning, Unpublished
  <2>3. CASE Acquire(r)
    <3>1. status'[s] # Absent /\ queue'[s] = queue[s] /\ newest'[s] = "hash"
      BY <1>3, <2>3 DEF Acquire, AcquireSearch, CanAcquire, TypeOK
    <3>2. \A q \in Request : rsid[q] = s /\ rpc'[q] \in Unlisted =>
              rpc[q] \in Unlisted \/ status[s] = Absent
      BY <1>3, <2>3 DEF Acquire, CanAcquire, Unlisted, TypeOK
    <3> QED  BY <1>1, <3>1, <3>2 DEF LifeInv
  <2>4. CASE FindDependencies(r) \/ ReadPage(r)
    <3>1. UNCHANGED <<status, queue, newest>> /\ rpc[r] \in Owning
      BY <2>4 DEF FindDependencies, ReadPage, storageVars, Owning, Unpublished
    <3>2. rpc'[r] \in Owning /\ (rpc'[r] \in Unlisted => rpc[r] \in Unlisted)
      BY <2>4
      DEF FindDependencies, ReadPage, Owning, Unpublished, Unlisted, TypeOK
    <3>3. \A q \in Request : q # r => rpc'[q] = rpc[q]
      BY <2>4 DEF FindDependencies, ReadPage, TypeOK
    <3> QED  BY <1>1, <1>3, <3>1, <3>2, <3>3 DEF LifeInv, Claimed
  <2>5. CASE PushProject(r)
    <3>1. rpc[r] = "push" /\ rpc'[r] \in Owning \ Unlisted
      BY <2>5 DEF PushProject, NextProject, Owning, Unpublished, Unlisted, TypeOK
    <3>2. UNCHANGED status
      BY <2>5 DEF PushProject, AddProjectsToQueue
    <3>3. \A q \in Request : q # r => rpc'[q] = rpc[q]
      BY <2>5 DEF PushProject, NextProject, TypeOK
    <3>4. status[s] # Absent
      BY <1>3, <3>1 DEF OwnerInv, Owning, Unpublished
    <3>5. Claimed(s)'
      BY <1>1, <1>3, <3>1 DEF Claimed
    <3>6. \A q \in Request : rsid[q] = s => rpc'[q] \notin Unlisted
      BY <2>1, <2>2, <3>1, <3>3 DEF Owning, Unpublished
    <3> QED  BY <1>1, <3>2, <3>4, <3>5, <3>6 DEF LifeInv
  <2>6. CASE AddCached(r) \/ Enqueue(r)
    <3>1. status'[s] # Absent /\ queue'[s] = queue[s] /\ newest'[s] = "hash"
      BY <1>3, <2>6 DEF AddCached, Enqueue, AddSearchToQueue, TypeOK
    <3>2. \A q \in Request : rsid[q] = s /\ rpc'[q] \in Unlisted => rpc[q] \in Unlisted
      BY <2>6 DEF AddCached, Enqueue, Unlisted, TypeOK
    <3> QED  BY <1>1, <3>1, <3>2 DEF LifeInv
  <2>7. CASE CompleteCached(r)
    <3>1. status'[s] # Absent /\ queue'[s] = queue[s] /\ queue[s] = << >>
      BY <1>3, <2>7
      DEF CompleteCached, CompleteSearch, LifeInv, Unlisted, TypeOK
    <3> QED  BY <3>1 DEF LifeInv
  <2> QED  BY <2>3, <2>4, <2>5, <2>6, <2>7 DEF RequestStep
<1> QED  BY <1>2, <1>3

\* Nobody owns a search whose key expires, so its hash was renewed after its
\* queue and goes second.
LEMMA LifeExpiry ==
    ASSUME TypeOK, NEW t \in SearchID, Expire(t), NEW s \in SearchID, LifeInv(s)
    PROVE  LifeInv(s)'
<1> USE DEF StorageTypeOK, Absent
<1>1. UNCHANGED <<rpc, rsid, newest>>
  BY DEF Expire, NoRequest, requestVars, ExpireHash, ExpireQueue
<1>2. CASE s # t
  BY <1>1, <1>2, LifeFrame DEF Expire, ExpireHash, ExpireQueue, TypeOK
<1>3. CASE s = t /\ ExpireHash(t)
  <2>1. queue[s] = << >> /\ queue' = queue
    BY <1>3 DEF Expire, ExpireHash, LifeInv
  <2> QED  BY <1>1, <2>1 DEF LifeInv
<1>4. CASE s = t /\ ExpireQueue(t)
  <2>1. queue'[s] = << >>
    BY <1>4 DEF ExpireQueue, TypeOK
  <2> QED  BY <2>1 DEF LifeInv
<1> QED  BY <1>2, <1>3, <1>4 DEF Expire

LEMMA QueueLifeStep ==
    ASSUME TypeOK, OwnerInv, QueueLifeInv, [Next]_vars
    PROVE  QueueLifeInv'
<1> SUFFICES ASSUME faults' = 0, NEW s \in SearchID
             PROVE  LifeInv(s)'
  BY DEF QueueLifeInv
<1>1. CASE UNCHANGED vars
  BY <1>1
  DEF vars, storageVars, requestVars, budgetVars, QueueLifeInv, LifeInv, Claimed
<1>2. CASE \E r \in Request, t \in SearchID : Arrive(r, t)
  <2> PICK r \in Request, t \in SearchID : Arrive(r, t)
    BY <1>2
  <2>1. LifeInv(s) /\ UNCHANGED <<status, queue, newest>>
    BY DEF Arrive, budgetVars, storageVars, QueueLifeInv
  <2>2. \A q \in Request :
            \/ rpc'[q] = rpc[q] /\ rsid'[q] = rsid[q]
            \/ rpc[q] = "idle" /\ rpc'[q] = "acquire"
    BY DEF Arrive, ReqStep, TypeOK
  <2> QED  BY <2>1, <2>2 DEF LifeInv, Claimed, Owning, Unpublished, Unlisted
<1>3. CASE \E r \in Request : RequestStep(r)
  <2> PICK r \in Request : RequestStep(r)
    BY <1>3
  <2>1. LifeInv(s)
    BY DEF RequestStep, Acquire, FindDependencies, AddCached, CompleteCached,
           ReadPage, PushProject, Enqueue, budgetVars, QueueLifeInv
  <2> QED  BY <2>1, LifeRequest
<1>4. CASE \E w \in Worker : WorkerStep(w)
  <2> PICK w \in Worker : WorkerStep(w)
    BY <1>4
  <2>1. LifeInv(s)
    BY DEF WorkerStep, PeekSearch, PollNothing, GetDetails,
           DetailsMissing, TakeProject, NoProjectLeft, Complete, ReadStatus,
           MarkProcessing, ScanNothing, ScanFinds, LookupPackage,
           CreatePackage, AttachPackage, ReportFailure, vars, budgetVars,
           QueueLifeInv
  <2> QED  BY <2>1, LifeWorker
<1>5. CASE \E t \in SearchID : Expire(t)
  BY <1>5, LifeExpiry DEF Expire, QueueLifeInv
<1>6. CASE \/ \E r \in Request : RequestFault(r)
           \/ \E w \in Worker : WorkerFault(w)
  <2>1. faults' = faults + 1 /\ faults \in Nat
    BY <1>6
    DEF RequestFault, RequestDies, ReplyLost, FindDependenciesFails,
        PushFails, WorkerFault, WorkerDies, TakeRetried, MarkFails,
        ProcessFails, Fault, TypeOK
  <2> QED  BY <2>1
<1> QED  BY <1>1, <1>2, <1>3, <1>4, <1>5, <1>6 DEF Next

\* Without failures no expiry of keys leaves a queue without its hash: the next
\* scan of the search does not begin with branches of the last.
THEOREM QueueNeverOutlivesHashCorrect == Spec => []QueueNeverOutlivesHash
<1>1. Init => QueueLifeInv
  BY DEF Init, StorageInit, QueueLifeInv, LifeInv, Unlisted
<1>2. TypeOK /\ OwnerInv /\ QueueLifeInv /\ [Next]_vars => QueueLifeInv'
  BY QueueLifeStep
<1>3. Init => OwnerInv
  BY DEF Init, OwnerInv, OneOwner, Owning, Unpublished
<1>4. TypeOK /\ OwnerInv /\ [Next]_vars => OwnerInv'
  BY OwnerInvStep
<1>5. QueueLifeInv => QueueNeverOutlivesHash
  BY DEF QueueLifeInv, LifeInv, QueueNeverOutlivesHash
<1> QED  BY <1>1, <1>2, <1>3, <1>4, <1>5, TypeCorrect, PTL DEF Spec

----------------------------------------------------------------------------
(* One worker process, as the code is deployed.                            *)

OneWorker == \A v, w \in Worker : v = w
NothingFails == MaxFaults = 0 /\ MaxExpiries = 0

\* A worker that is about to write "processing" has read "pending", and nobody
\* else writes the status meanwhile: the owner has published the search, and of
\* a search whose results are known there is no branch to hold.
StatusInv(s) ==
    /\ \A w \in Worker : wsid[w] = s /\ wpc[w] = "mark" => status[s] = "pending"
    /\ \A r \in Request, w \in Worker :
            rsid[r] = s /\ rpc[r] = "cached_complete" =>
                ~(wsid[w] = s /\ wpc[w] \in Holding)

StatusesInv == expiries = 0 => \A s \in SearchID : StatusInv(s)

Rises(s) == Rank[status[s]] <= Rank[status'[s]]

LEMMA Ranks ==
    /\ Rank[Absent] = 0 /\ Rank["pending"] = 1 /\ Rank["processing"] = 2
    /\ Rank["completed"] = 3
    /\ \A v \in Status : Rank[v] \in 0..3
<1>1. Status = {"absent", "pending", "processing", "completed"} /\ Absent = "absent"
  BY DEF Status, Absent
<1>2. \A v \in Status : Rank[v] = IF v = "absent" THEN 0 ELSE IF v = "pending" THEN 1
                                  ELSE IF v = "processing" THEN 2 ELSE 3
  BY <1>1 DEF Rank
<1> QED  BY <1>1, <1>2

LEMMA RisesTo ==
    ASSUME TypeOK, TypeOK', NEW s \in SearchID,
           \/ status'[s] = status[s]
           \/ status[s] = Absent
           \/ status'[s] = "completed"
           \/ status[s] = "pending" /\ status'[s] = "processing"
    PROVE  Rises(s)
<1>1. status[s] \in Status /\ status'[s] \in Status
  BY DEF TypeOK, StorageTypeOK
<1> QED  BY <1>1, Ranks DEF Rises

LEMMA StatusFrame ==
    ASSUME NEW s \in SearchID, StatusInv(s), status'[s] = status[s],
           \A w \in Worker : wsid'[w] = s /\ wpc'[w] \in Holding =>
               /\ wsid[w] = s /\ wpc[w] \in Holding
               /\ wpc'[w] = "mark" => wpc[w] = "mark" \/ status[s] = "pending",
           \A r \in Request : rsid'[r] = s /\ rpc'[r] = "cached_complete" =>
               rsid[r] = s /\ rpc[r] = "cached_complete"
    PROVE  StatusInv(s)'
BY DEF StatusInv, Holding

LEMMA StatusRequest ==
    ASSUME TypeOK, TypeOK', NEW r \in Request, RequestStep(r) \/ RequestFault(r),
           NEW s \in SearchID, SearchInv(s), StatusInv(s)
    PROVE  StatusInv(s)' /\ Rises(s)
<1> USE DEF ReqStep, StorageTypeOK, TypeOK
<1>1. UNCHANGED <<wpc, wsid, rsid>> /\ rsid[r] \in SearchID
  BY DEF RequestStep, Acquire, FindDependencies, AddCached, CompleteCached, ReadPage,
         PushProject, NextProject, Enqueue, RequestFault, RequestDies, ReplyLost,
         FindDependenciesFails, PushFails, requestVars, NoWorker, workerVars,
         Owning, Unpublished
<1> DEFINE adds ==
             rpc[r] \in {"cached_add", "enqueue"} /\ AddSearchToQueue(rsid[r])
           completes == rpc[r] = "cached_complete" /\ CompleteSearch(rsid[r])
<1>2. CASE rsid[r] = s /\ adds
  <2>1. status[s] = "pending" /\ ~named[s] /\ status'[s] = "pending"
    BY <1>2 DEF SearchInv, AddSearchToQueue, Unpublished
  <2>2. \A w \in Worker : ~(wsid[w] = s /\ wpc[w] \in Holding)
    BY <2>1 DEF SearchInv, Holding, InProcessProject
  <2> QED  BY <1>1, <2>1, <2>2, RisesTo DEF StatusInv, Holding
<1>3. CASE rsid[r] = s /\ completes
  <2>1. status'[s] = "completed" /\ \A w \in Worker : ~(wsid[w] = s /\ wpc[w] \in Holding)
    BY <1>3 DEF StatusInv, CompleteSearch
  <2> QED  BY <1>1, <2>1, RisesTo DEF StatusInv, Holding
<1>4. CASE ~(rsid[r] = s /\ (adds \/ completes))
  <2>1. \A q \in Request : rsid'[q] = s /\ rpc'[q] = "cached_complete" =>
            rsid[q] = s /\ rpc[q] = "cached_complete"
    BY <1>1, <1>4
    DEF adds, RequestStep, Acquire, FindDependencies, AddCached, CompleteCached,
        ReadPage, PushProject, NextProject, Enqueue, RequestFault, RequestDies, ReplyLost,
        FindDependenciesFails, PushFails, requestVars
  <2>2. status'[s] = status[s] \/ status[s] = Absent
    <3>1. CASE AcquireSearch(rsid[r])
      BY <1>1, <3>1 DEF AcquireSearch, CanAcquire
    <3>2. CASE adds
      BY <1>1, <1>4, <3>2 DEF AddSearchToQueue
    <3>3. CASE completes
      BY <1>1, <1>4, <3>3 DEF CompleteSearch
    <3>4. CASE ~(Acquire(r) \/ ReplyLost(r) \/ AddCached(r) \/ Enqueue(r)
                 \/ CompleteCached(r))
      BY <3>4
      DEF RequestStep, FindDependencies, ReadPage, PushProject, AddProjectsToQueue,
          RequestFault, RequestDies, FindDependenciesFails, PushFails, storageVars
    <3> QED
      BY <3>1, <3>2, <3>3, <3>4
      DEF Acquire, AddCached, Enqueue, CompleteCached, ReplyLost
  <2>3. CASE status'[s] = status[s]
    BY <1>1, <2>1, <2>3, StatusFrame, RisesTo
  <2>4. CASE status[s] = Absent
    <3>1. ~named[s]
      BY <2>4 DEF SearchInv
    <3>2. \A w \in Worker : ~(wsid[w] = s /\ wpc[w] \in Holding)
      BY <3>1 DEF SearchInv, Holding, InProcessProject
    <3> QED  BY <1>1, <2>4, <3>2, RisesTo DEF StatusInv, Holding
  <2> QED  BY <2>2, <2>3, <2>4
<1> QED  BY <1>2, <1>3, <1>4

LEMMA StatusWorker ==
    ASSUME OneWorker, TypeOK, TypeOK', NEW w \in Worker, WorkerStep(w) \/ WorkerFault(w),
           NEW s \in SearchID, SearchInv(s), StatusInv(s)
    PROVE  StatusInv(s)' /\ Rises(s)
<1> USE DEF WorkStep, StorageTypeOK, TypeOK
<1>1. UNCHANGED <<rpc, rsid>> /\ \A v \in Worker : v = w
  BY DEF OneWorker, WorkerStep, PeekSearch, PollNothing, GetDetails, DetailsMissing,
         TakeProject, NoProjectLeft, Complete, ReadStatus, MarkProcessing, ScanNothing,
         ScanFinds, LookupPackage, CreatePackage, AttachPackage, ReportFailure, NoRequest,
         requestVars, vars, WorkerFault, WorkerDies, TakeRetried, MarkFails, ProcessFails
<1>2. CASE TakeProject(w)
  <2>1. wpc'[w] = "status" /\ wsid'[w] = wsid[w] /\ status' = status
        /\ wpc[w] = "pop" /\ queue[wsid[w]] # << >>
    BY <1>2 DEF TakeProject, GetProjectFromQueue
  <2>2. wsid[w] = s => \A r \in Request : rsid[r] = s => rpc[r] # "cached_complete"
    BY <2>1 DEF SearchInv
  <2> QED  BY <1>1, <2>1, <2>2, RisesTo DEF StatusInv
<1>3. CASE MarkProcessing(w)
  <2>1. wpc[w] = "mark" /\ wpc'[w] = "scan" /\ wsid' = wsid
        /\ status' = [status EXCEPT ![wsid[w]] = "processing"]
    BY <1>3 DEF MarkProcessing, UpdateSearchStatus
  <2>2. wsid[w] = s => status[s] = "pending" /\ status'[s] = "processing"
    BY <2>1 DEF StatusInv
  <2>3. wsid[w] # s => status'[s] = status[s]
    BY <2>1
  <2>4. Rises(s)
    BY <2>2, <2>3, RisesTo
  <2>5. \A v \in Worker : wsid'[v] = s /\ wpc'[v] \in Holding =>
            wsid[v] = s /\ wpc[v] \in Holding /\ wpc'[v] # "mark"
    BY <1>1, <2>1 DEF Holding
  <2>6. StatusInv(s)'
    BY <1>1, <2>5 DEF StatusInv, Holding
  <2> QED  BY <2>4, <2>6
<1>4. CASE Complete(w)
  <2>1. wpc'[w] = "poll" /\ (status'[s] = status[s] \/ status'[s] = "completed")
    BY <1>4 DEF Complete, Return, CompleteSearch
  <2> QED  BY <1>1, <2>1, RisesTo DEF StatusInv, Holding, InProcessProject
<1>5. CASE ReadStatus(w)
  <2>1. /\ wpc[w] = "status" /\ wsid' = wsid /\ status' = status
        /\ wpc'[w] = IF status[wsid[w]] = "pending" THEN "mark" ELSE "scan"
    BY <1>5 DEF ReadStatus, storageVars
  <2> QED  BY <1>1, <2>1, StatusFrame, RisesTo DEF Holding
<1>6. CASE ~(TakeProject(w) \/ MarkProcessing(w) \/ Complete(w) \/ ReadStatus(w))
  <2>1. status' = status
    BY <1>6
    DEF WorkerStep, PeekSearch, PollNothing, GetDetails, DetailsMissing, NoProjectLeft,
        ScanNothing, ScanFinds, LookupPackage, CreatePackage, AttachPackage, ReportFailure,
        AddFailedRepository, storageVars, vars, WorkerFault, WorkerDies, TakeRetried,
        GetProjectFromQueue, MarkFails, ProcessFails
  <2>2. wpc'[w] \in Holding =>
            wpc[w] \in Holding /\ wsid'[w] = wsid[w] /\ (wpc'[w] = "mark" => wpc[w] = "mark")
    BY <1>6
    DEF WorkerStep, PeekSearch, PollNothing, GetDetails, DetailsMissing, NoProjectLeft,
        ScanNothing, ScanFinds, LookupPackage, CreatePackage, AttachPackage, ReportFailure,
        Settle, Return, workerVars, vars, WorkerFault, WorkerDies, TakeRetried, MarkFails,
        ProcessFails, Holding, InProcessProject
  <2> QED  BY <1>1, <2>1, <2>2, StatusFrame, RisesTo
<1> QED  BY <1>2, <1>3, <1>4, <1>5, <1>6

LEMMA StatusStep ==
    ASSUME OneWorker, TypeOK, TypeOK', DrainInv, StatusesInv, Next, expiries' = 0,
           NEW s \in SearchID
    PROVE  StatusInv(s)' /\ Rises(s)
<1>1. expiries = 0 /\ \A t \in SearchID : ~Expire(t)
  <2>1. expiries \in Nat
    BY BoundsAssumption DEF TypeOK
  <2>2. \A t \in SearchID : ~Expire(t)
    BY <2>1 DEF Expire
  <2>3. expiries' = expiries
    BY <2>2
    DEF Next, Arrive, RequestStep, RequestFault, Acquire, FindDependencies, AddCached,
        CompleteCached, ReadPage, PushProject, Enqueue, RequestDies, ReplyLost,
        FindDependenciesFails, PushFails, WorkerStep, WorkerFault, PeekSearch,
        PollNothing, GetDetails, DetailsMissing, TakeProject, NoProjectLeft, Complete,
        ReadStatus, MarkProcessing, ScanNothing, ScanFinds, LookupPackage, CreatePackage,
        AttachPackage, ReportFailure, WorkerDies, TakeRetried, MarkFails, ProcessFails,
        Fault, budgetVars, vars
  <2> QED  BY <2>2, <2>3
<1>2. SearchInv(s) /\ StatusInv(s)
  BY <1>1 DEF DrainInv, StatusesInv
<1>3. CASE \E r \in Request, t \in SearchID : Arrive(r, t)
  <2> PICK r \in Request, t \in SearchID : Arrive(r, t)
    BY <1>3
  <2>1. /\ UNCHANGED <<wpc, wsid, status>>
        /\ \A q \in Request : rpc'[q] = "cached_complete" =>
               rpc[q] = "cached_complete" /\ rsid'[q] = rsid[q]
    BY DEF Arrive, ReqStep, NoWorker, workerVars, storageVars, TypeOK
  <2> QED  BY <1>2, <2>1, StatusFrame, RisesTo
<1> QED  BY <1>1, <1>2, <1>3, StatusRequest, StatusWorker DEF Next

LEMMA StatusesStep ==
    ASSUME OneWorker, TypeOK, TypeOK', DrainInv, StatusesInv, [Next]_vars
    PROVE  StatusesInv'
<1>1. CASE UNCHANGED vars
  BY <1>1 DEF vars, storageVars, requestVars, workerVars, budgetVars, StatusesInv, StatusInv
<1> QED  BY <1>1, StatusStep DEF StatusesInv

LEMMA StatusesInvariant == OneWorker => (Spec => []StatusesInv)
<1> SUFFICES ASSUME OneWorker
             PROVE  Spec => []StatusesInv
  OBVIOUS
<1>1. Init => StatusesInv
  BY DEF Init, StatusesInv, StatusInv
<1>2. TypeOK /\ TypeOK' /\ DrainInv /\ StatusesInv /\ [Next]_vars => StatusesInv'
  BY StatusesStep
<1> QED  BY <1>1, <1>2, TypeCorrect, DrainInvariant, PTL DEF Spec

\* With one worker the status a client polls goes from pending to processing to
\* completed and never back, whatever fails, until a key expires: between the
\* worker's read of "pending" and its write of "processing" nobody else writes.
THEOREM StatusNeverRegressesCorrect == OneWorker => (Spec => StatusNeverRegresses)
<1> SUFFICES ASSUME OneWorker
             PROVE  Spec => StatusNeverRegresses
  OBVIOUS
<1> DEFINE Keeps == expiries' = 0 => \A s \in SearchID : Rank[status[s]] <= Rank[status'[s]]
<1>1. TypeOK /\ TypeOK' /\ DrainInv /\ StatusesInv /\ [Next]_vars => [Keeps]_vars
  BY StatusStep DEF Rises
<1>2. Spec => [][Keeps]_vars
  <2> HIDE DEF Keeps
  <2> QED  BY <1>1, StatusesInvariant, TypeCorrect, DrainInvariant, PTL DEF Spec
<1> QED  BY <1>2 DEF StatusNeverRegresses

----------------------------------------------------------------------------
(* Whoever joins a search joins one that is served.                        *)

ServedInv == \A s \in SearchID : status[s] # Absent => Served(s)

LEMMA ServedByRequest ==
    ASSUME TypeOK, TypeOK', ServedInv, NEW r \in Request, RequestStep(r),
           NEW s \in SearchID, status'[s] # Absent
    PROVE  Served(s)'
<1> USE DEF ServedInv, Served, Claimed, ReqStep, Owning, Unpublished, StorageTypeOK
<1>1. rsid' = rsid /\ rsid[r] \in SearchID
  BY DEF RequestStep, Acquire, FindDependencies, AddCached, CompleteCached, ReadPage,
         PushProject, NextProject, Enqueue, TypeOK
<1>2. CASE Acquire(r)
  <2>1. CASE CanAcquire(rsid[r]) /\ rsid[r] = s
    BY <1>1, <1>2, <2>1 DEF Acquire, TypeOK
  <2>2. CASE ~(CanAcquire(rsid[r]) /\ rsid[r] = s)
    <3>1. status'[s] = status[s]
      BY <1>1, <1>2, <2>2 DEF Acquire, AcquireSearch, TypeOK
    <3>2. Served(s)
      BY <3>1
    <3> QED  BY <1>1, <1>2, <3>1, <3>2 DEF Acquire, AcquireSearch, TypeOK
  <2> QED  BY <2>1, <2>2
<1>3. CASE FindDependencies(r) \/ ReadPage(r) \/ PushProject(r)
  <2>1. UNCHANGED <<status, score>>
    BY <1>3 DEF FindDependencies, ReadPage, PushProject, AddProjectsToQueue, storageVars
  <2>2. /\ rpc[r] \in Owning /\ rpc'[r] \in Owning
        /\ \A q \in Request : q # r => rpc'[q] = rpc[q]
    BY <1>3 DEF FindDependencies, ReadPage, PushProject, NextProject, TypeOK
  <2> QED  BY <1>1, <2>1, <2>2
<1>4. CASE AddCached(r) \/ Enqueue(r)
  <2>1. CASE rsid[r] = s
    <3>1. score'[s] = score[s] + 1 /\ score[s] \in Nat
      BY <1>4, <2>1 DEF AddCached, Enqueue, AddSearchToQueue, TypeOK
    <3> QED  BY <3>1
  <2>2. CASE rsid[r] # s
    BY <1>1, <1>4, <2>2 DEF AddCached, Enqueue, AddSearchToQueue, TypeOK
  <2> QED  BY <2>1, <2>2
<1>5. CASE CompleteCached(r)
  BY <1>1, <1>5 DEF CompleteCached, CompleteSearch, TypeOK
<1> QED  BY <1>2, <1>3, <1>4, <1>5 DEF RequestStep

\* What a worker marks was pending, so it is not one that is completed.
LEMMA ServedByWorker ==
    ASSUME TypeOK, ServedInv, NEW w \in Worker, WorkerStep(w),
           NEW s \in SearchID, StatusInv(s), status'[s] # Absent
    PROVE  Served(s)'
<1> USE DEF ServedInv, Served, Claimed, StorageTypeOK
<1>1. UNCHANGED <<rpc, rsid>>
  BY DEF WorkerStep, PeekSearch, PollNothing, GetDetails, DetailsMissing,
         TakeProject, NoProjectLeft, Complete, ReadStatus, MarkProcessing,
         ScanNothing, ScanFinds, LookupPackage, CreatePackage, AttachPackage,
         ReportFailure, NoRequest, requestVars, vars
<1>2. CASE Complete(w)
  BY <1>1, <1>2 DEF Complete, CompleteSearch, TypeOK
<1>3. CASE MarkProcessing(w)
  <2>1. score' = score /\ wpc[w] = "mark"
    BY <1>3 DEF MarkProcessing, UpdateSearchStatus, WorkStep
  <2>2. wsid[w] = s => status[s] = "pending"
    BY <2>1 DEF StatusInv
  <2>3. wsid[w] # s => status'[s] = status[s]
    BY <1>3 DEF MarkProcessing, UpdateSearchStatus, TypeOK
  <2>4. Served(s) /\ (status[s] = "completed" => status'[s] = "completed")
    BY <2>2, <2>3 DEF Absent
  <2> QED  BY <1>1, <2>1, <2>4
<1>4. CASE ~Complete(w) /\ ~MarkProcessing(w)
  <2>1. UNCHANGED <<status, score>>
    BY <1>4
    DEF WorkerStep, PeekSearch, PollNothing, GetDetails, DetailsMissing,
        TakeProject, NoProjectLeft, ReadStatus, ScanNothing, ScanFinds,
        LookupPackage, CreatePackage, AttachPackage, ReportFailure,
        GetProjectFromQueue, AddFailedRepository, storageVars, vars
  <2> QED  BY <1>1, <2>1
<1> QED  BY <1>2, <1>3, <1>4

LEMMA NoFaultsNoExpiries ==
    ASSUME NothingFails, TypeOK
    PROVE  /\ faults = 0 /\ expiries = 0
           /\ \A r \in Request : ~RequestFault(r)
           /\ \A w \in Worker : ~WorkerFault(w)
           /\ \A s \in SearchID : ~Expire(s)
<1>1. faults = 0 /\ expiries = 0 /\ ~(faults < MaxFaults) /\ ~(expiries < MaxExpiries)
  BY DEF NothingFails, TypeOK
<1> QED
  BY <1>1
  DEF Fault, RequestFault, RequestDies, ReplyLost, FindDependenciesFails, PushFails, WorkerFault, WorkerDies, TakeRetried, MarkFails, ProcessFails, Expire

LEMMA ServedStep ==
    ASSUME NothingFails, TypeOK, TypeOK', StatusesInv, ServedInv, [Next]_vars
    PROVE  ServedInv'
<1> SUFFICES ASSUME NEW s \in SearchID, status'[s] # Absent
             PROVE  Served(s)'
  BY DEF ServedInv
<1>1. StatusInv(s)
  BY NoFaultsNoExpiries DEF StatusesInv
<1>2. CASE UNCHANGED vars
  BY <1>2 DEF vars, storageVars, requestVars, ServedInv, Served, Claimed
<1>3. CASE \E r \in Request, t \in SearchID : Arrive(r, t)
  BY <1>3 DEF Arrive, ReqStep, storageVars, ServedInv, Served, Claimed, Owning,
              Unpublished, TypeOK
<1> QED  BY <1>1, <1>2, <1>3, NoFaultsNoExpiries, ServedByRequest, ServedByWorker DEF Next

LEMMA Joins ==
    ASSUME ServedInv, [Next]_vars, TypeOK, NEW r \in Request,
           rpc[r] = "acquire", rpc'[r] = "joined"
    PROVE  Served(rsid[r])
<1>1. Acquire(r)
  <2>1. CASE \E q \in Request : RequestStep(q) \/ RequestFault(q)
    <3> PICK q \in Request : RequestStep(q) \/ RequestFault(q)
      BY <2>1
    <3>1. CASE Acquire(q)
      BY <3>1 DEF Acquire, ReqStep, TypeOK
    <3>2. CASE ReplyLost(q) \/ RequestDies(q)
      BY <3>2 DEF ReplyLost, RequestDies, requestVars, TypeOK
    <3>3. CASE ~(Acquire(q) \/ ReplyLost(q) \/ RequestDies(q))
      <4>1. rpc[q] # "acquire" /\ rpc' = [rpc EXCEPT ![q] = rpc'[q]]
        BY <3>3
        DEF RequestStep, FindDependencies, AddCached, CompleteCached, ReadPage,
            PushProject, NextProject, Enqueue, RequestFault, FindDependenciesFails,
            PushFails, ReqStep, requestVars, TypeOK
      <4>2. q # r
        BY <4>1
      <4> QED  BY <4>1, <4>2 DEF TypeOK
    <3> QED  BY <3>1, <3>2, <3>3
  <2>2. CASE \E q \in Request, t \in SearchID : Arrive(q, t)
    BY <2>2 DEF Arrive, ReqStep, TypeOK
  <2>3. CASE UNCHANGED rpc
    BY <2>3
  <2>4. CASE \E w \in Worker : WorkerStep(w) \/ WorkerFault(w)
    BY <2>3, <2>4
    DEF WorkerStep, PeekSearch, PollNothing, GetDetails, DetailsMissing,
        TakeProject, NoProjectLeft, Complete, ReadStatus, MarkProcessing,
        ScanNothing, ScanFinds, LookupPackage, CreatePackage, AttachPackage,
        ReportFailure, NoRequest, requestVars, vars, WorkerFault, WorkerDies,
        TakeRetried, MarkFails, ProcessFails
  <2>5. CASE \E t \in SearchID : Expire(t)
    BY <2>3, <2>5 DEF Expire, NoRequest, requestVars
  <2> QED  BY <2>1, <2>2, <2>3, <2>4, <2>5 DEF Next, vars, requestVars
<1>2. rsid[r] \in SearchID /\ status[rsid[r]] # Absent
  BY <1>1 DEF Acquire, ReqStep, CanAcquire, TypeOK
<1> QED  BY <1>2 DEF ServedInv

\* Where one worker runs and nothing fails or expires, a request never joins a
\* search that nobody runs: a claim is given up only by listing the search to
\* its end or completing it, and a worker takes out only what it completes.
THEOREM JoinedIsServedCorrect == OneWorker /\ NothingFails => (Spec => JoinedIsServed)
<1> SUFFICES ASSUME OneWorker, NothingFails
             PROVE  Spec => JoinedIsServed
  OBVIOUS
<1> DEFINE Joined == \A r \in Request :
                         rpc[r] = "acquire" /\ rpc'[r] = "joined" => Served(rsid[r])
<1>1. Init => ServedInv
  BY DEF Init, StorageInit, ServedInv
<1>2. TypeOK /\ TypeOK' /\ StatusesInv /\ ServedInv /\ [Next]_vars => ServedInv'
  BY ServedStep
<1>3. TypeOK /\ ServedInv /\ [Next]_vars => [Joined]_vars
  BY Joins
<1>4. Spec => []StatusesInv
  BY StatusesInvariant
<1>5. Spec => [][Joined]_vars
  <2> HIDE DEF Joined
  <2> QED  BY <1>1, <1>2, <1>3, <1>4, TypeCorrect, PTL DEF Spec
<1> QED  BY <1>5 DEF JoinedIsServed

----------------------------------------------------------------------------
(* Whatever is reported has failed.                                        *)

\* What one worker has not found it creates, and then it is not there.
FailureInv ==
    faults = 0 =>
        /\ \A s \in SearchID : failed[s] = {}
        /\ \A w \in Worker : /\ wpc[w] # "report"
                             /\ wpc[w] = "create" => PkgOf[wsid[w]] \notin packages

LEMMA FailureStep ==
    ASSUME OneWorker, TypeOK, FailureInv, [Next]_vars
    PROVE  FailureInv'
<1> SUFFICES ASSUME faults' = 0
             PROVE  /\ \A s \in SearchID : failed'[s] = {}
                    /\ \A w \in Worker : /\ wpc'[w] # "report"
                                         /\ wpc'[w] = "create" => PkgOf[wsid'[w]] \notin packages'
  BY DEF FailureInv
<1> USE DEF TypeOK, StorageTypeOK
<1>1. CASE UNCHANGED vars
  BY <1>1 DEF vars, storageVars, workerVars, dbVars, budgetVars, FailureInv
<1>2. CASE \E r \in Request, s \in SearchID : Arrive(r, s)
  BY <1>2 DEF Arrive, NoWorker, workerVars, storageVars, dbVars, budgetVars, FailureInv
<1>3. CASE \E r \in Request : RequestStep(r)
  <2>1. UNCHANGED <<failed, wpc, wsid, packages, faults>>
    BY <1>3
    DEF RequestStep, Acquire, AcquireSearch, FindDependencies, AddCached, AddSearchToQueue,
        CompleteCached, CompleteSearch, ReadPage, PushProject, AddProjectsToQueue, Enqueue,
        NoWorker, workerVars, storageVars, dbVars, budgetVars
  <2> QED  BY <2>1 DEF FailureInv
<1>4. CASE \E s \in SearchID : Expire(s)
  BY <1>4 DEF Expire, ExpireHash, ExpireQueue, NoWorker, workerVars, dbVars, FailureInv
<1>5. CASE \/ \E r \in Request : RequestFault(r)
           \/ \E w \in Worker : WorkerFault(w)
  <2>1. faults' = faults + 1 /\ faults \in Nat
    BY <1>5
    DEF RequestFault, RequestDies, ReplyLost, FindDependenciesFails,
        PushFails, WorkerFault, WorkerDies, TakeRetried, MarkFails,
        ProcessFails, Fault
  <2> QED  BY <2>1
<1>6. CASE \E w \in Worker : WorkerStep(w)
  <2> PICK w \in Worker : WorkerStep(w)
    BY <1>6
  <2>1. faults = 0 /\ \A v \in Worker : v = w
    BY DEF OneWorker, WorkerStep, PeekSearch, PollNothing, GetDetails, DetailsMissing,
           TakeProject, NoProjectLeft, Complete, ReadStatus, MarkProcessing, ScanNothing,
           ScanFinds, LookupPackage, CreatePackage, AttachPackage, ReportFailure,
           budgetVars, vars
  <2>2. ~ReportFailure(w) /\ \A s \in SearchID : failed[s] = {}
    BY <2>1 DEF FailureInv, ReportFailure
  <2>3. failed' = failed
    BY <2>2
    DEF WorkerStep, PeekSearch, PollNothing, GetDetails, DetailsMissing, TakeProject,
        GetProjectFromQueue, NoProjectLeft, Complete, CompleteSearch, ReadStatus,
        MarkProcessing, UpdateSearchStatus, ScanNothing, ScanFinds, LookupPackage,
        CreatePackage, AttachPackage, storageVars, vars
  <2>4. CASE PollNothing(w)
    BY <2>1, <2>3, <2>4 DEF PollNothing, vars, workerVars, dbVars, FailureInv
  <2>5. CASE LookupPackage(w)
    BY <2>1, <2>2, <2>3, <2>5 DEF LookupPackage, WorkStep, dbVars
  <2>6. CASE CreatePackage(w)
    <3>1. wpc[w] = "create" /\ PkgOf[wsid[w]] \notin packages
      BY <2>1, <2>6 DEF CreatePackage, WorkStep, FailureInv
    <3>2. wpc'[w] = "attach"
      BY <2>6, <3>1 DEF CreatePackage, WorkStep
    <3> QED  BY <2>1, <2>2, <2>3, <3>2
  <2>7. CASE ~(PollNothing(w) \/ LookupPackage(w) \/ CreatePackage(w))
    <3>1. wpc'[w] \notin {"create", "report"}
      BY <2>2, <2>7
      DEF WorkerStep, PeekSearch, GetDetails, DetailsMissing, TakeProject, NoProjectLeft,
          Complete, ReadStatus, MarkProcessing, ScanNothing, ScanFinds, AttachPackage,
          WorkStep, Return, Settle
    <3> QED  BY <2>1, <2>2, <2>3, <3>1
  <2> QED  BY <2>4, <2>5, <2>6, <2>7
<1> QED  BY <1>1, <1>2, <1>3, <1>4, <1>5, <1>6 DEF Next

LEMMA FailureInvariant == OneWorker => (Spec => []FailureInv)
<1> SUFFICES ASSUME OneWorker
             PROVE  Spec => []FailureInv
  OBVIOUS
<1>1. Init => FailureInv
  BY DEF Init, StorageInit, FailureInv
<1>2. TypeOK /\ FailureInv /\ [Next]_vars => FailureInv'
  BY FailureStep
<1> QED  BY <1>1, <1>2, TypeCorrect, PTL DEF Spec

\* With one worker, where nothing fails no repository is reported as failed: the
\* package that ProcessProject did not find is not there when it creates it.
THEOREM NoSpuriousFailureCorrect == OneWorker => (Spec => []NoSpuriousFailure)
<1>1. FailureInv => NoSpuriousFailure
  BY DEF FailureInv, NoSpuriousFailure
<1> QED  BY <1>1, FailureInvariant, PTL

=============================================================================
