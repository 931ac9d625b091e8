----------------------- MODULE SearchProcessesProofs -----------------------
(* Theorems about SearchProcesses, for every value of its constants: what  *)
(* holds of a search while nobody stops its processes holds when they are  *)
(* stopped and started at any moment.                                      *)
EXTENDS SearchProcesses, SearchRefinementProofs

----------------------------------------------------------------------------
(* The steps of processes, as steps of PackageSearch and others.           *)

\* A worker stops without touching the keys, the tables or a request.
Interrupted(w) ==
    /\ life[w] = "stopping" /\ wpc[w] # "poll"
    /\ \/ Return(w)
       \/ WorkStep(w, "mark", "scan") /\ UNCHANGED <<wsid, witem>>
       \/ /\ wpc[w] \in {"lookup", "create", "attach"}
          /\ wpc' = [wpc EXCEPT ![w] = "report"] /\ UNCHANGED <<wsid, witem>>
    /\ faults' \in {faults, faults + 1} /\ faults' \in 0..MaxFaults
    /\ UNCHANGED <<requestVars, storageVars, dbVars, handled, expiries>>

LEMMA StepKinds ==
    ASSUME TypeOK, ProcessNext
    PROVE  \/ Next
           \/ UNCHANGED vars
           \/ \E w \in Worker : Interrupted(w)
           \/ DrainTimeout
<1>1. CASE \E r \in Request, s \in SearchID : Accept(r, s)
  BY <1>1 DEF Accept, Next
<1>2. CASE \E r \in Request : Serve(r) \/ Fail(r)
  BY <1>2 DEF Serve, Fail, Next
<1>3. CASE \E w \in Worker : Work(w) \/ WorkFails(w)
  BY <1>3 DEF Work, WorkFails, Next
<1>4. CASE \E w \in Worker : SignalWorker(w) \/ Stopped(w) \/ StartWorker(w)
  BY <1>4 DEF SignalWorker, Stopped, StartWorker
<1>5. CASE \E w \in Worker : ScanGoesOn(w)
  BY <1>5 DEF ScanGoesOn, WorkerStep, Next
<1>6. CASE \E w \in Worker : ShutdownTimeout(w)
  BY <1>6, BoundsAssumption
  DEF ShutdownTimeout, Interrupted, Fault, NoRequest, TypeOK
<1>7. CASE \E w \in Worker :
              CallCancelled(w) \/ MarkCancelled(w) \/ StatementCancelled(w)
  BY <1>7
  DEF CallCancelled, MarkCancelled, StatementCancelled, Interrupted, WorkStep,
      NoRequest, budgetVars, TypeOK
<1>8. CASE SignalApi \/ Drained \/ StartApi
  BY <1>8 DEF SignalApi, Drained, StartApi
<1> QED
  BY <1>1, <1>2, <1>3, <1>4, <1>5, <1>6, <1>7, <1>8
  DEF ProcessNext, StopWorker

----------------------------------------------------------------------------
(* Types.                                                                  *)

LEMMA InterruptedType ==
    ASSUME TypeOK, NEW w \in Worker, Interrupted(w)
    PROVE  TypeOK'
<1>1. StorageTypeOK'
  BY StorageUnchangedType DEF Interrupted, TypeOK
<1>2. /\ wpc' \in [Worker -> WorkerPC]
      /\ wsid' \in [Worker -> SearchID \cup {None}]
      /\ \A v \in Worker : wpc'[v] # "poll" => wsid'[v] \in SearchID
      /\ witem' \in [Worker -> Branch \cup {None}]
      /\ \A v \in Worker : wpc'[v] \in Holding => witem'[v] \in Branch
  <2>1. CASE Return(w)
    BY <2>1, ReturnType
  <2>2. CASE ~Return(w)
    BY <2>2
    DEF Interrupted, WorkStep, TypeOK, WorkerPC, Holding, InProcessProject
  <2> QED  BY <2>1, <2>2
<1> QED
  BY <1>1, <1>2 DEF Interrupted, requestVars, dbVars, TypeOK

LEMMA DrainTimeoutType ==
    ASSUME TypeOK, DrainTimeout
    PROVE  TypeOK'
<1>1. StorageTypeOK'
  BY StorageUnchangedType DEF DrainTimeout, TypeOK
<1>2. /\ rpc' \in [Request -> RequestPC]
      /\ \A r \in Request : rpc'[r] # "idle" => rsid'[r] \in SearchID
      /\ \A r \in Request : rpc'[r] = "push" => rtodo'[r] # << >>
  BY DEF DrainTimeout, Running, TypeOK, RequestPC, Returned, Owning, Unpublished
<1>3. faults' \in 0..MaxFaults /\ expiries' \in 0..MaxExpiries
  BY BoundsAssumption DEF DrainTimeout, Fault, TypeOK
<1> QED
  BY <1>1, <1>2, <1>3
  DEF DrainTimeout, NoWorker, workerVars, dbVars, TypeOK

LEMMA ProcessStepType ==
    ASSUME TypeOK, [ProcessNext]_processVars
    PROVE  TypeOK'
<1>1. CASE UNCHANGED processVars
  BY <1>1, StepType DEF processVars
<1>2. CASE ProcessNext
  BY <1>2, StepKinds, StepType, InterruptedType, DrainTimeoutType
<1> QED  BY <1>1, <1>2

\* A worker's step is its own.
LEMMA OthersRest ==
    ASSUME TypeOK, NEW w \in Worker, WorkerStep(w) \/ WorkerFault(w),
           NEW v \in Worker, v # w
    PROVE  wpc'[v] = wpc[v]
BY DEF WorkerStep, PeekSearch, PollNothing, GetDetails, DetailsMissing,
       TakeProject, NoProjectLeft, Complete, ReadStatus, MarkProcessing,
       ScanNothing, ScanFinds, LookupPackage, CreatePackage, AttachPackage,
       ReportFailure, WorkerFault, WorkerDies, TakeRetried, MarkFails,
       ProcessFails, WorkStep, Return, Settle, workerVars, vars, TypeOK

\* A request's step is no worker's.
LEMMA WorkersRest ==
    ASSUME NEW r \in Request,
           RequestStep(r) \/ RequestFault(r) \/ \E s \in SearchID : Arrive(r, s)
    PROVE  UNCHANGED wpc
BY DEF RequestStep, Acquire, FindDependencies, AddCached, CompleteCached,
       ReadPage, PushProject, Enqueue, RequestFault, RequestDies,
       ReplyLost, FindDependenciesFails, PushFails, Arrive,
       NoWorker, workerVars

\* A process is up, stopping or down, and one that is down has nothing in hand.
LifeOK ==
    /\ life \in [Worker -> WorkerLife]
    /\ \A w \in Worker : life[w] = "down" => wpc[w] = "poll"
    /\ api \in ApiLife
    /\ signals \in 0..MaxSignals /\ hits \in 0..signals

LEMMA LifeStep ==
    ASSUME TypeOK, LifeOK, [ProcessNext]_processVars
    PROVE  LifeOK'
<1> USE DEF LifeOK, WorkerLife, ApiLife
<1>1. CASE \E r \in Request, s \in SearchID : Accept(r, s)
  BY <1>1, WorkersRest DEF Accept, lifeVars
<1>2. CASE \E r \in Request : Serve(r) \/ Fail(r)
  BY <1>2, WorkersRest DEF Serve, Fail, lifeVars
<1>3. CASE \E w \in Worker : Work(w) \/ WorkFails(w) \/ ScanGoesOn(w)
  <2> PICK w \in Worker : Work(w) \/ WorkFails(w) \/ ScanGoesOn(w)
    BY <1>3
  <2>1. life[w] # "down" /\ UNCHANGED lifeVars
    BY DEF Work, WorkFails, ScanGoesOn
  <2>2. \A v \in Worker : v # w => wpc'[v] = wpc[v]
    BY OthersRest DEF Work, WorkFails, ScanGoesOn, WorkerStep
  <2> QED  BY <2>1, <2>2 DEF lifeVars
<1>4. CASE \E w \in Worker : SignalWorker(w)
  <2> PICK w \in Worker : SignalWorker(w)
    BY <1>4
  <2>1. signals' = signals + 1 /\ signals < MaxSignals
        /\ (hits' = hits \/ hits' = hits + 1)
    BY DEF SignalWorker, SignalSent
  <2>2. signals' \in 0..MaxSignals /\ hits' \in 0..signals'
    BY <2>1, SignalsAssumption
  <2> QED  BY <2>2 DEF SignalWorker, vars, workerVars
<1>5. CASE \E w \in Worker : Stopped(w) \/ StartWorker(w)
  BY <1>5 DEF Stopped, StartWorker, vars, workerVars
<1>6. CASE \E w \in Worker :
              \/ CallCancelled(w) \/ MarkCancelled(w) \/ StatementCancelled(w)
              \/ ShutdownTimeout(w)
  BY <1>6
  DEF CallCancelled, MarkCancelled, StatementCancelled, ShutdownTimeout,
      WorkStep, Return, lifeVars, TypeOK
<1>7. CASE SignalApi
  <2>1. signals' \in 0..MaxSignals /\ hits' \in 0..signals'
    BY <1>7, SignalsAssumption DEF SignalApi, SignalSent
  <2> QED  BY <1>7, <2>1 DEF SignalApi, vars, workerVars
<1>8. CASE Drained \/ DrainTimeout \/ StartApi
  BY <1>8
  DEF Drained, DrainTimeout, StartApi, NoWorker, vars, workerVars
<1>9. CASE UNCHANGED processVars
  BY <1>9 DEF processVars, lifeVars, vars, workerVars
<1> QED
  BY <1>1, <1>2, <1>3, <1>4, <1>5, <1>6, <1>7, <1>8, <1>9
  DEF ProcessNext, StopWorker

\* Stopping and starting leaves every variable its type, and a worker that is
\* down nothing in hand (its branch was put away by Return, or is lost).
THEOREM ProcessTypeCorrect == ProcessSpec => []ProcessTypeOK
<1>1. ProcessInit => TypeOK /\ LifeOK
  BY InitType, SignalsAssumption
  DEF ProcessInit, LifeOK, WorkerLife, ApiLife, Init
<1>2. TypeOK /\ LifeOK /\ [ProcessNext]_processVars => TypeOK' /\ LifeOK'
  BY ProcessStepType, LifeStep
<1>3. TypeOK /\ LifeOK => ProcessTypeOK
  BY DEF LifeOK, ProcessTypeOK
<1> QED  BY <1>1, <1>2, <1>3, PTL DEF ProcessSpec

----------------------------------------------------------------------------
(* One owner per search.                                                   *)

LEMMA ProcessOwnerStep ==
    ASSUME TypeOK, OwnerInv, [ProcessNext]_processVars
    PROVE  OwnerInv'
<1>1. CASE [Next]_vars
  BY <1>1, OwnerInvStep
<1>2. CASE \E w \in Worker : Interrupted(w)
  BY <1>2 DEF Interrupted, OwnerInv, OneOwner, requestVars, storageVars
<1>3. CASE DrainTimeout
  <2>1. \A r \in Request : rpc'[r] \in Owning => rpc[r] \in Owning
    BY <1>3 DEF DrainTimeout, Running, TypeOK, Owning, Unpublished
  <2> QED
    BY <1>3, <2>1 DEF DrainTimeout, OwnerInv, OneOwner, storageVars
<1>4. CASE UNCHANGED processVars
  BY <1>1, <1>4 DEF processVars
<1> QED  BY <1>1, <1>2, <1>3, <1>4, StepKinds

\* No two requests own one search, whatever is stopped and started, and
\* whichever of them the API's shutdown cuts short.
THEOREM OneOwnerOfProcesses == ProcessSpec => []OneOwner
<1>1. ProcessInit => TypeOK /\ OwnerInv
  BY InitType
  DEF ProcessInit, Init, OwnerInv, OneOwner, Owning, Unpublished
<1>2. TypeOK /\ OwnerInv /\ [ProcessNext]_processVars => TypeOK' /\ OwnerInv'
  BY ProcessStepType, ProcessOwnerStep
<1>3. OwnerInv => OneOwner
  BY DEF OwnerInv
<1> QED  BY <1>1, <1>2, <1>3, PTL DEF ProcessSpec

----------------------------------------------------------------------------
(* What PackageSearch promises, while its processes come and go.           *)

\* A shutdown of the API that gives up ends requests, and that is all.
LEMMA DrainTimeoutEnds ==
    ASSUME TypeOK, DrainTimeout
    PROVE  /\ UNCHANGED <<storageVars, workerVars, handled, rsid, expiries>>
           /\ faults' # 0
           /\ \A r \in Request : rpc'[r] = rpc[r] \/ rpc'[r] = "error"
<1>1. faults \in Nat /\ faults' = faults + 1
  BY BoundsAssumption DEF TypeOK, DrainTimeout, Fault
<1>2. faults' # 0
  BY <1>1
<1> QED  BY <1>2 DEF DrainTimeout, Fault, NoWorker, TypeOK

LEMMA InterruptedEnds ==
    ASSUME TypeOK, NEW w \in Worker, Interrupted(w)
    PROVE  /\ UNCHANGED <<storageVars, requestVars, expiries>>
           /\ \A v \in Worker :
                  /\ wpc'[v] # "poll" => wpc[v] # "poll" /\ wsid'[v] = wsid[v]
                  /\ wpc'[v] \in {"complete", "mark"} => wpc'[v] = wpc[v]
                  /\ wpc'[v] \in Holding => wpc[v] \in Holding
BY DEF Interrupted, Return, WorkStep, Holding, InProcessProject, TypeOK

LEMMA ProcessDrainStep ==
    ASSUME TypeOK, OwnerInv, DrainInv, [ProcessNext]_processVars
    PROVE  DrainInv'
<1>1. CASE [Next]_vars
  BY <1>1, DrainStep
<1>2. ASSUME \/ DrainTimeout
             \/ \E w \in Worker : Interrupted(w)
      PROVE  DrainInv'
  <2>1. /\ UNCHANGED <<storageVars, rsid, expiries>>
        /\ \A r \in Request : rpc'[r] = rpc[r] \/ rpc'[r] = "error"
        /\ \A v \in Worker :
               /\ wpc'[v] # "poll" => wpc[v] # "poll" /\ wsid'[v] = wsid[v]
               /\ wpc'[v] = "complete" => wpc[v] = "complete"
    BY <1>2, DrainTimeoutEnds, InterruptedEnds DEF requestVars, workerVars
  <2> SUFFICES ASSUME expiries' = 0, NEW s \in SearchID
               PROVE  SearchInv(s)'
    BY DEF DrainInv
  <2>2. SearchInv(s)
    BY <2>1 DEF DrainInv
  <2>3. /\ status'[s] = status[s] /\ named'[s] = named[s]
        /\ score'[s] = score[s] /\ queue'[s] = queue[s]
    BY <2>1 DEF storageVars
  <2>4. \A r \in Request : rpc'[r] \in Owning => rpc'[r] = rpc[r] /\ rsid'[r] = rsid[r]
    BY <2>1 DEF Owning, Unpublished
  <2>5. \A v \in Worker : wsid'[v] = s /\ wpc'[v] # "poll" =>
            named[s] /\ (wpc'[v] = "complete" => queue[s] = << >>)
    BY <2>1, <2>2 DEF SearchInv
  <2> QED  BY <2>2, <2>3, <2>4, <2>5, SearchInvFrame
<1>3. CASE UNCHANGED processVars
  BY <1>1, <1>3 DEF processVars
<1> QED  BY <1>1, <1>2, <1>3, StepKinds

LEMMA ProcessDrainInvariant == ProcessSpec => [](TypeOK /\ OwnerInv /\ DrainInv)
<1>1. ProcessInit => TypeOK /\ OwnerInv /\ DrainInv
  BY InitType, DrainInit
  DEF ProcessInit, Init, OwnerInv, OneOwner, Owning, Unpublished
<1>2. TypeOK /\ OwnerInv /\ DrainInv /\ [ProcessNext]_processVars
      => TypeOK' /\ OwnerInv' /\ DrainInv'
  BY ProcessStepType, ProcessOwnerStep, ProcessDrainStep
<1> QED  BY <1>1, <1>2, PTL DEF ProcessSpec

\* Deployments and crashes in the middle of any step do not complete a search
\* whose queue holds branches, nor put a completed one back.
THEOREM CompletedIsDrainedOfProcesses == ProcessSpec => []CompletedIsDrained
<1>1. DrainInv => CompletedIsDrained
  BY DEF DrainInv, SearchInv, CompletedIsDrained
<1> QED  BY <1>1, ProcessDrainInvariant, PTL

\* No worker, new or old, meets a search that is half listed: also one whose
\* listing the shutdown of the API has cut short is not in the sorted set.
THEOREM QueuedAfterListingOfProcesses == ProcessSpec => []QueuedAfterListing
<1>1. DrainInv => QueuedAfterListing
  BY DEF DrainInv, SearchInv, QueuedAfterListing, Queued, HasDetails
<1> QED  BY <1>1, ProcessDrainInvariant, PTL

\* A worker that is stopped writes no status, and holds what it held.
LEMMA ProcessStatusStep ==
    ASSUME OneWorker, TypeOK, TypeOK', DrainInv, StatusesInv, [ProcessNext]_processVars
    PROVE  /\ StatusesInv'
           /\ expiries' = 0 => \A s \in SearchID : Rises(s)
<1>1. CASE Next
  BY <1>1, StatusStep DEF StatusesInv
<1>2. ASSUME \/ UNCHANGED vars \/ DrainTimeout
             \/ \E w \in Worker : Interrupted(w)
      PROVE  /\ StatusesInv'
             /\ expiries' = 0 => \A s \in SearchID : Rises(s)
  <2>1. /\ UNCHANGED <<status, rsid, expiries>>
        /\ \A r \in Request : rpc'[r] = rpc[r] \/ rpc'[r] = "error"
        /\ \A v \in Worker :
               /\ wpc'[v] # "poll" => wpc[v] # "poll" /\ wsid'[v] = wsid[v]
               /\ wpc'[v] \in Holding => wpc[v] \in Holding
               /\ wpc'[v] = "mark" => wpc[v] = "mark"
    BY <1>2, DrainTimeoutEnds, InterruptedEnds
    DEF vars, storageVars, requestVars, workerVars, budgetVars
  <2> SUFFICES ASSUME expiries' = 0, NEW s \in SearchID
               PROVE  StatusInv(s)' /\ Rises(s)
    BY DEF StatusesInv
  <2>2. StatusInv(s) /\ status'[s] = status[s]
    BY <2>1 DEF StatusesInv
  <2>3. \A v \in Worker : wsid'[v] = s /\ wpc'[v] \in Holding =>
            /\ wsid[v] = s /\ wpc[v] \in Holding
            /\ wpc'[v] = "mark" => wpc[v] = "mark"
    BY <2>1 DEF Holding, InProcessProject
  <2>4. \A r \in Request : rsid'[r] = s /\ rpc'[r] = "cached_complete" =>
            rsid[r] = s /\ rpc[r] = "cached_complete"
    BY <2>1
  <2> QED  BY <2>2, <2>3, <2>4, StatusFrame, RisesTo
<1>3. CASE UNCHANGED processVars
  BY <1>2, <1>3 DEF processVars
<1> QED  BY <1>1, <1>2, <1>3, StepKinds

\* One worker process at a time, however often it is stopped in the middle of a
\* branch, killed and started again, never takes a status back.
THEOREM StatusNeverRegressesOfProcesses ==
    OneWorker => (ProcessSpec => StatusNeverRegresses)
<1> SUFFICES ASSUME OneWorker
             PROVE  ProcessSpec => StatusNeverRegresses
  OBVIOUS
<1> DEFINE Keeps == expiries' = 0 => \A s \in SearchID : Rank[status[s]] <= Rank[status'[s]]
<1>1. ProcessInit => StatusesInv
  BY DEF ProcessInit, Init, StatusesInv, StatusInv
<1>2. TypeOK /\ TypeOK' /\ DrainInv /\ StatusesInv /\ [ProcessNext]_processVars
      => StatusesInv' /\ [Keeps]_vars
  BY ProcessStatusStep DEF Rises
<1>3. ProcessSpec => [][Keeps]_vars
  <2> HIDE DEF Keeps
  <2> QED  BY <1>1, <1>2, ProcessDrainInvariant, PTL DEF ProcessSpec
<1> QED  BY <1>3 DEF StatusNeverRegresses

LEMMA ProcessServedStep ==
    ASSUME NothingFails, TypeOK, TypeOK', StatusesInv, ServedInv, [ProcessNext]_processVars
    PROVE  /\ ServedInv'
           /\ [\A r \in Request :
                  rpc[r] = "acquire" /\ rpc'[r] = "joined" => Served(rsid[r])]_vars
<1>1. CASE [Next]_vars
  BY <1>1, ServedStep, Joins
<1>2. CASE \E w \in Worker : Interrupted(w)
  BY <1>2 DEF Interrupted, requestVars, storageVars, ServedInv, Served, Claimed
<1>3. ~DrainTimeout
  <2>1. ~(faults < MaxFaults)
    BY DEF NothingFails, TypeOK
  <2> QED  BY <2>1 DEF DrainTimeout, Fault
<1>4. CASE UNCHANGED processVars
  BY <1>1, <1>4 DEF processVars
<1> QED  BY <1>1, <1>2, <1>3, <1>4, StepKinds

\* With one worker at a time a request joins no search that nobody runs, however
\* often worker and API are deployed while the search is listed or scanned.
THEOREM JoinedIsServedOfProcesses ==
    OneWorker /\ NothingFails => (ProcessSpec => JoinedIsServed)
<1> SUFFICES ASSUME OneWorker, NothingFails
             PROVE  ProcessSpec => JoinedIsServed
  OBVIOUS
<1> DEFINE Joined == \A r \in Request :
                         rpc[r] = "acquire" /\ rpc'[r] = "joined" => Served(rsid[r])
<1>1. ProcessInit => StatusesInv /\ ServedInv
  BY DEF ProcessInit, Init, StorageInit, StatusesInv, StatusInv, ServedInv
<1>2. TypeOK /\ TypeOK' /\ DrainInv /\ StatusesInv /\ [ProcessNext]_processVars
      => StatusesInv'
  BY ProcessStatusStep
<1>3. TypeOK /\ TypeOK' /\ StatusesInv /\ ServedInv /\ [ProcessNext]_processVars
      => ServedInv' /\ [Joined]_vars
  BY ProcessServedStep
<1>4. ProcessSpec => [][Joined]_vars
  <2> HIDE DEF Joined
  <2> QED  BY <1>1, <1>2, <1>3, ProcessDrainInvariant, PTL DEF ProcessSpec
<1> QED  BY <1>4 DEF JoinedIsServed

LEMMA ProcessQueueStep ==
    ASSUME TypeOK, OwnerInv, QueueLifeInv, [ProcessNext]_processVars
    PROVE  QueueLifeInv'
<1>1. CASE [Next]_vars
  BY <1>1, QueueLifeStep
<1>2. CASE DrainTimeout
  BY <1>2, DrainTimeoutEnds DEF QueueLifeInv
<1>3. CASE \E w \in Worker : Interrupted(w)
  <2>1. /\ UNCHANGED <<status, queue, newest, rpc, rsid>>
        /\ faults \in Nat /\ (faults' = faults \/ faults' = faults + 1)
    BY <1>3, BoundsAssumption DEF Interrupted, storageVars, requestVars, TypeOK
  <2> SUFFICES ASSUME faults' = 0, NEW s \in SearchID
               PROVE  LifeInv(s)'
    BY DEF QueueLifeInv
  <2>2. LifeInv(s)
    BY <2>1 DEF QueueLifeInv
  <2> QED  BY <2>1, <2>2, LifeFrame
<1>4. CASE UNCHANGED processVars
  BY <1>1, <1>4 DEF processVars
<1> QED  BY <1>1, <1>2, <1>3, <1>4, StepKinds

\* A stop or a restart leaves no queue behind for the next search of the same
\* id: only a failure between two writes of one request does.
THEOREM QueueNeverOutlivesHashOfProcesses == ProcessSpec => []QueueNeverOutlivesHash
<1>1. ProcessInit => QueueLifeInv
  BY DEF ProcessInit, Init, StorageInit, QueueLifeInv, LifeInv, Unlisted
<1>2. TypeOK /\ OwnerInv /\ QueueLifeInv /\ [ProcessNext]_processVars => QueueLifeInv'
  BY ProcessQueueStep
<1>3. QueueLifeInv => QueueNeverOutlivesHash
  BY DEF QueueLifeInv, LifeInv, QueueNeverOutlivesHash
<1> QED  BY <1>1, <1>2, <1>3, ProcessDrainInvariant, PTL DEF ProcessSpec

\* A stopping worker may come to a report of its cancelled statement, which is
\* cancelled too; one that is up comes to none.
StopInv ==
    faults = 0 =>
        /\ \A s \in SearchID : failed[s] = {}
        /\ \A w \in Worker : /\ wpc[w] = "report" => life[w] = "stopping"
                             /\ wpc[w] = "create" => PkgOf[wsid[w]] \notin packages

LEMMA StopStep ==
    ASSUME OneWorker, TypeOK, LifeOK, StopInv, [ProcessNext]_processVars
    PROVE  StopInv'
<1>1. ASSUME NEW w \in Worker, Work(w) \/ WorkFails(w) \/ ScanGoesOn(w)
      PROVE  StopInv'
  <2>1. wpc[w] # "report" \/ faults # 0
    BY <1>1 DEF StopInv, Work, WorkFails, ScanGoesOn, ScanNothing, ScanFinds, WorkStep
  <2>2. FailureInv
    BY <2>1 DEF OneWorker, StopInv, FailureInv
  <2>3. Next
    BY <1>1 DEF Work, WorkFails, ScanGoesOn, WorkerStep, Next
  <2> QED  BY <2>2, <2>3, FailureStep DEF FailureInv, StopInv
<1>2. ASSUME NEW r \in Request, Serve(r) \/ Fail(r) \/ \E s \in SearchID : Accept(r, s)
      PROVE  StopInv'
  <2>1. /\ UNCHANGED <<failed, wpc, wsid, packages, life>>
        /\ faults \in Nat /\ (faults' = faults \/ faults' = faults + 1)
    <3>1. life' = life /\ faults \in Nat
      BY <1>2, BoundsAssumption DEF Serve, Fail, Accept, lifeVars, TypeOK
    <3>2. CASE \E s \in SearchID : Arrive(r, s)
      BY <3>1, <3>2 DEF Arrive, NoWorker, workerVars, storageVars, dbVars, budgetVars
    <3>3. CASE RequestStep(r)
      BY <3>1, <3>3
      DEF RequestStep, Acquire, AcquireSearch, FindDependencies, AddCached,
          AddSearchToQueue, CompleteCached, CompleteSearch, ReadPage, PushProject,
          AddProjectsToQueue, Enqueue, NoWorker, workerVars, storageVars, dbVars, budgetVars
    <3>4. CASE RequestFault(r)
      BY <3>1, <3>4
      DEF RequestFault, RequestDies, ReplyLost, AcquireSearch, FindDependenciesFails,
          AddSearchToQueue, CompleteSearch, PushFails, Fault, NoWorker,
          workerVars, storageVars, dbVars
    <3> QED  BY <1>2, <3>2, <3>3, <3>4 DEF Serve, Fail, Accept
  <2> QED  BY <2>1 DEF StopInv
<1>3. CASE DrainTimeout
  BY <1>3, DrainTimeoutEnds DEF StopInv
<1>4. ASSUME NEW w \in Worker,
             CallCancelled(w) \/ MarkCancelled(w) \/ StatementCancelled(w) \/ ShutdownTimeout(w)
      PROVE  StopInv'
  <2>1. /\ UNCHANGED <<failed, packages>>
        /\ faults \in Nat /\ (faults' = faults \/ faults' = faults + 1)
        /\ \A v \in Worker : wpc'[v] # "create"
        /\ \A v \in Worker : wpc'[v] = "report" => life'[v] = "stopping"
    BY <1>4, BoundsAssumption
    DEF OneWorker, CallCancelled, MarkCancelled, StatementCancelled, ShutdownTimeout, Fault,
        Return, WorkStep, storageVars, dbVars, budgetVars, lifeVars, TypeOK, LifeOK
  <2> QED  BY <2>1 DEF StopInv
<1>5. ASSUME \/ \E w \in Worker : SignalWorker(w) \/ Stopped(w) \/ StartWorker(w)
             \/ SignalApi \/ Drained \/ StartApi
      PROVE  StopInv'
  <2>1. /\ UNCHANGED <<failed, wpc, wsid, packages, faults>>
        /\ \A v \in Worker : wpc[v] = "report" /\ life[v] = "stopping" => life'[v] = "stopping"
    BY <1>5
    DEF SignalWorker, Stopped, StartWorker, SignalApi, Drained, StartApi, vars, storageVars,
        dbVars, workerVars, budgetVars, LifeOK
  <2> QED  BY <2>1 DEF StopInv
<1>6. CASE UNCHANGED processVars
  BY <1>6
  DEF processVars, lifeVars, vars, storageVars, dbVars, workerVars, budgetVars, StopInv
<1> QED  BY <1>1, <1>2, <1>3, <1>4, <1>5, <1>6 DEF ProcessNext, StopWorker

\* Deploying the worker reports no branch as failed that could be read: the
\* statements that the signal cancels end in a report that is cancelled as well.
THEOREM NoSpuriousFailureOfProcesses ==
    OneWorker => (ProcessSpec => []NoSpuriousFailure)
<1> SUFFICES ASSUME OneWorker
             PROVE  ProcessSpec => []NoSpuriousFailure
  OBVIOUS
<1>1. ProcessInit => LifeOK /\ StopInv
  BY SignalsAssumption
  DEF ProcessInit, Init, StorageInit, LifeOK, WorkerLife, ApiLife, StopInv
<1>2. TypeOK /\ LifeOK /\ StopInv /\ [ProcessNext]_processVars => LifeOK' /\ StopInv'
  BY LifeStep, StopStep
<1>3. StopInv => NoSpuriousFailure
  BY DEF StopInv, NoSpuriousFailure
<1> QED  BY <1>1, <1>2, <1>3, ProcessDrainInvariant, PTL DEF ProcessSpec

----------------------------------------------------------------------------
(* A deployment orphans no search.                                         *)

\* Every failure is counted.
LEMMA FaultsCount ==
    ASSUME TypeOK, [ProcessNext]_processVars, faults' = 0
    PROVE  /\ faults = 0
           /\ ~DrainTimeout
           /\ \A r \in Request : ~RequestFault(r)
           /\ \A w \in Worker : ~WorkerFault(w)
<1>1. faults \in Nat
  BY BoundsAssumption DEF TypeOK
<1>2. ~Fault
  BY <1>1 DEF Fault
<1>3. /\ ~DrainTimeout
      /\ \A r \in Request : ~RequestFault(r)
      /\ \A w \in Worker : ~WorkerFault(w)
  BY <1>2
  DEF DrainTimeout, RequestFault, RequestDies, ReplyLost,
      FindDependenciesFails, PushFails, WorkerFault, WorkerDies,
      TakeRetried, MarkFails, ProcessFails
<1>4. CASE Next
  <2>1. CASE \E r \in Request : RequestStep(r)
    BY <1>3, <2>1
    DEF RequestStep, Acquire, FindDependencies, AddCached, CompleteCached,
        ReadPage, PushProject, Enqueue, budgetVars
  <2>2. CASE \E w \in Worker : WorkerStep(w)
    BY <1>3, <2>2
    DEF WorkerStep, PeekSearch, PollNothing, GetDetails, DetailsMissing,
        TakeProject, NoProjectLeft, Complete, ReadStatus, MarkProcessing,
        ScanNothing, ScanFinds, LookupPackage, CreatePackage, AttachPackage,
        ReportFailure, budgetVars, vars
  <2> QED
    BY <1>3, <1>4, <2>1, <2>2 DEF Next, Arrive, Expire, budgetVars
<1>5. CASE \E w \in Worker : Interrupted(w)
  BY <1>1, <1>3, <1>5 DEF Interrupted
<1>6. CASE UNCHANGED vars
  BY <1>3, <1>6 DEF vars, budgetVars
<1>7. CASE UNCHANGED processVars
  BY <1>6, <1>7 DEF processVars
<1> QED  BY <1>3, <1>4, <1>5, <1>6, <1>7, StepKinds

Pending(s) == status[s] = "pending" => Served(s)

LEMMA RequestKeepsServed ==
    ASSUME TypeOK, NEW r \in Request, RequestStep(r),
           NEW s \in SearchID, Pending(s), status'[s] = "pending"
    PROVE  Served(s)'
<1> USE DEF Pending, Served, Claimed, ReqStep, Owning, Unpublished, StorageTypeOK
<1>1. CASE Acquire(r)
  <2>1. CASE CanAcquire(rsid[r]) /\ rsid[r] = s
    BY <1>1, <2>1 DEF Acquire, TypeOK
  <2>2. CASE ~(CanAcquire(rsid[r]) /\ rsid[r] = s)
    <3>1. status[s] = "pending"
      BY <1>1, <2>2 DEF Acquire, AcquireSearch, TypeOK
    <3> QED  BY <1>1, <3>1 DEF Acquire, AcquireSearch, TypeOK
  <2> QED  BY <2>1, <2>2
<1>2. CASE FindDependencies(r) \/ ReadPage(r)
  BY <1>2 DEF FindDependencies, ReadPage, storageVars, TypeOK
<1>3. CASE PushProject(r)
  BY <1>3 DEF PushProject, NextProject, AddProjectsToQueue, TypeOK
<1>4. CASE AddCached(r) \/ Enqueue(r)
  <2>1. CASE rsid[r] = s
    <3>1. score'[s] = score[s] + 1
      BY <1>4, <2>1 DEF AddCached, Enqueue, AddSearchToQueue, TypeOK
    <3> QED  BY <3>1 DEF TypeOK
  <2>2. CASE rsid[r] # s
    BY <1>4, <2>2 DEF AddCached, Enqueue, AddSearchToQueue, TypeOK
  <2> QED  BY <2>1, <2>2
<1>5. CASE CompleteCached(r)
  BY <1>5 DEF CompleteCached, CompleteSearch, TypeOK
<1> QED  BY <1>1, <1>2, <1>3, <1>4, <1>5 DEF RequestStep

LEMMA WorkerKeepsServed ==
    ASSUME TypeOK, NEW w \in Worker, WorkerStep(w),
           NEW s \in SearchID, Pending(s), status'[s] = "pending"
    PROVE  Served(s)'
<1> USE DEF Pending, Served, Claimed, StorageTypeOK
<1>1. UNCHANGED <<rpc, rsid>>
  BY DEF WorkerStep, PeekSearch, PollNothing, GetDetails, DetailsMissing,
         TakeProject, NoProjectLeft, Complete, ReadStatus, MarkProcessing,
         ScanNothing, ScanFinds, LookupPackage, CreatePackage, AttachPackage,
         ReportFailure, NoRequest, requestVars, vars
<1>2. CASE Complete(w)
  BY <1>1, <1>2 DEF Complete, CompleteSearch, TypeOK
<1>3. CASE MarkProcessing(w)
  BY <1>1, <1>3 DEF MarkProcessing, UpdateSearchStatus, TypeOK
<1>4. CASE ~Complete(w) /\ ~MarkProcessing(w)
  <2>1. UNCHANGED <<status, score>>
    BY <1>4
    DEF WorkerStep, PeekSearch, PollNothing, GetDetails, DetailsMissing,
        TakeProject, NoProjectLeft, ReadStatus, ScanNothing, ScanFinds,
        LookupPackage, CreatePackage, AttachPackage, ReportFailure,
        GetProjectFromQueue, AddFailedRepository, storageVars, vars
  <2> QED  BY <1>1, <2>1
<1> QED  BY <1>2, <1>3, <1>4

LEMMA DrainedStep ==
    ASSUME TypeOK, DrainedIsServed, [ProcessNext]_processVars
    PROVE  DrainedIsServed'
<1> SUFFICES ASSUME faults' = 0, NEW s \in SearchID, status'[s] = "pending"
             PROVE  Served(s)'
  BY DEF DrainedIsServed
<1>1. Pending(s)
  BY FaultsCount DEF Pending, DrainedIsServed
<1>2. CASE UNCHANGED <<rpc, rsid, status, score>>
  BY <1>1, <1>2 DEF Pending, Served, Claimed
<1>3. CASE \E r \in Request, t \in SearchID : Arrive(r, t)
  BY <1>1, <1>3
  DEF Arrive, ReqStep, Pending, Served, Claimed, Owning, Unpublished, TypeOK,
      storageVars
<1>4. CASE \E r \in Request : RequestStep(r)
  BY <1>1, <1>4, RequestKeepsServed
<1>5. CASE \E w \in Worker : WorkerStep(w)
  BY <1>1, <1>5, WorkerKeepsServed
<1>6. CASE \E t \in SearchID : Expire(t)
  BY <1>1, <1>6
  DEF Expire, ExpireHash, ExpireQueue, Absent, NoRequest, requestVars,
      StorageTypeOK, Pending, Served, Claimed, TypeOK
<1>7. CASE \E w \in Worker : Interrupted(w)
  BY <1>2, <1>7 DEF Interrupted, requestVars, storageVars
<1>8. CASE UNCHANGED vars \/ UNCHANGED processVars
  BY <1>2, <1>8 DEF vars, processVars, requestVars, storageVars
<1> QED
  BY <1>3, <1>4, <1>5, <1>6, <1>7, <1>8, StepKinds, FaultsCount DEF Next

\* However often the processes are stopped: while nothing fails or times out,
\* a pending search has a request that lists it, or is in the sorted set.
THEOREM DrainedIsServedCorrect == ProcessSpec => []DrainedIsServed
<1>1. ProcessInit => TypeOK /\ DrainedIsServed
  BY InitType DEF ProcessInit, Init, StorageInit, DrainedIsServed, Absent
<1>2. TypeOK /\ DrainedIsServed /\ [ProcessNext]_processVars
      => TypeOK' /\ DrainedIsServed'
  BY ProcessStepType, DrainedStep
<1> QED  BY <1>1, <1>2, PTL DEF ProcessSpec

----------------------------------------------------------------------------
(* What a failure and a signal cost.                                       *)

\* Workers that were stopped with a branch of s in hand.
Doomed(s) == {w \in Worker : life[w] = "stopping" /\ Holds(w, s)}

Accounted(s) == Waiting(s) \cup InHand(s) \cup handled[s]
Gone(k, s) == UpTo(k) \ Accounted(s)

Listing == {"page", "push", "enqueue", "listed"}

\* A request at pc, on that page and with those projects of it to push, has
\* dealt with the first k projects.
At(pc, page, todo, k) ==
    /\ k \in 0..Len(Catalog)
    /\ pc = "page" => k = Last(page - 1)
    /\ pc = "push" => k < Last(page) /\ todo = SubSeq(Catalog, k + 1, Last(page))
    /\ pc \in {"enqueue", "listed"} => k = Len(Catalog)

\* What is gone or about to go was paid for.
Within(gone, doomed, f, h) ==
    Cardinality(gone) + Cardinality(doomed) <= f * Widest + h

Marked(s) == IsFiniteSet(Doomed(s)) /\ Cardinality(Doomed(s)) <= hits

Paid(r, s) ==
    rsid[r] = s /\ rpc[r] \in Listing =>
        \E k \in 0..Len(Catalog) :
            /\ At(rpc[r], rpage[r], rtodo[r], k)
            /\ Within(Gone(k, s), Doomed(s), faults, hits)

LossInv ==
    /\ FirstPages
    /\ \A s \in SearchID : Marked(s) /\ \A r \in Request : Paid(r, s)

\* Widest is what its name says: such a number exists, since a project has no
\* more branches than all have together.
LEMMA WidestBounds ==
    /\ Widest \in Nat
    /\ \A i \in 1..Len(Catalog) :
           /\ Len(Catalog[i]) <= Widest
           /\ IsFiniteSet(BranchesAt(i)) /\ Cardinality(BranchesAt(i)) <= Widest
<1> DEFINE T == {Len(Catalog[i]) : i \in 1..Len(Catalog)} \cup {0}
           n == Cardinality(AllBranches)
<1>1. IsFiniteSet(AllBranches) /\ n \in Nat
  BY FiniteBranches, FS_CardinalityType
<1>2. ASSUME NEW i \in 1..Len(Catalog)
      PROVE  /\ Len(Catalog[i]) \in 0..n
             /\ IsFiniteSet(BranchesAt(i))
             /\ Cardinality(BranchesAt(i)) = Len(Catalog[i])
  <2>1. Catalog[i] \in Seq(Branch) /\ Len(Catalog[i]) \in Nat
    BY CatalogType
  <2>2. Once(Catalog[i])
    BY BranchesAreDistinct DEF Once
  <2>3. BranchesAt(i) = Items(Catalog[i])
    BY DEF BranchesAt, Items
  <2>4. IsFiniteSet(BranchesAt(i)) /\ Cardinality(BranchesAt(i)) = Len(Catalog[i])
    BY <2>1, <2>2, <2>3, CountItems
  <2>5. BranchesAt(i) \in SUBSET AllBranches
    BY DEF BranchesAt, AllBranches
  <2>6. Cardinality(BranchesAt(i)) <= n
    BY <1>1, <2>5, FS_Subset
  <2> QED  BY <1>1, <2>1, <2>4, <2>6
<1>3. T \subseteq 0..n /\ T # {}
  BY <1>1, <1>2
<1>4. \E x \in T : \A y \in T : y <= x
  <2> HIDE DEF T, n
  <2> QED  BY <1>1, <1>3, Greatest
<1>5. Widest \in T /\ \A i \in 1..Len(Catalog) : Len(Catalog[i]) <= Widest
  BY <1>4 DEF Widest
<1>6. Widest \in Nat
  BY <1>1, <1>3, <1>5
<1> QED  BY <1>2, <1>5, <1>6

LEMMA SomeBranch ==
    ASSUME NEW k \in 0..Len(Catalog), NEW b \in UpTo(k)
    PROVE  Widest >= 1
<1>1. PICK i \in 1..k : b \in BranchesAt(i)
  BY DEF UpTo
<1>2. i \in 1..Len(Catalog) /\ Len(Catalog[i]) \in Nat
  BY CatalogType
<1>3. Len(Catalog[i]) >= 1
  BY <1>1, <1>2 DEF BranchesAt
<1> QED  BY <1>2, <1>3, WidestBounds

LEMMA FiniteUpTo ==
    ASSUME NEW k \in 0..Len(Catalog)
    PROVE  IsFiniteSet(UpTo(k)) /\ UpTo(k) \subseteq AllBranches
<1>1. Len(Catalog) \in Nat /\ \A i \in 1..k : i \in 1..Len(Catalog)
  BY CatalogType
<1>2. UpTo(k) \in SUBSET AllBranches
  BY <1>1 DEF UpTo, AllBranches, BranchesAt
<1> QED  BY <1>2, FiniteBranches, FS_Subset

LEMMA TailCovers ==
    ASSUME NEW S, NEW q \in Seq(S), q # << >>
    PROVE  Items(q) \subseteq Items(Tail(q)) \cup {Head(q)}
<1>1. /\ Len(q) \in Nat \ {0} /\ Head(q) = q[1]
      /\ Len(Tail(q)) = Len(q) - 1
      /\ \A i \in 1..(Len(q) - 1) : Tail(q)[i] = q[i + 1]
  BY HeadTailProperties, EmptySeq
<1> SUFFICES ASSUME NEW i \in 1..Len(q), i # 1
             PROVE  q[i] \in Items(Tail(q))
  BY <1>1 DEF Items
<1>2. i - 1 \in 1..Len(Tail(q)) /\ (i - 1) + 1 = i
  BY <1>1
<1>3. Tail(q)[i - 1] = q[i]
  BY <1>1, <1>2
<1> QED  BY <1>2, <1>3 DEF Items

\* One more element costs at most one.
LEMMA CountMore ==
    ASSUME NEW A, IsFiniteSet(A), NEW x, NEW B, B \subseteq A \cup {x}
    PROVE  /\ IsFiniteSet(B) /\ Cardinality(B) \in Nat /\ Cardinality(A) \in Nat
           /\ Cardinality(B) <= Cardinality(A) + 1
           /\ x \notin B => Cardinality(B) <= Cardinality(A)
<1>1. /\ IsFiniteSet(A \cup {x})
      /\ Cardinality(A \cup {x}) = IF x \in A THEN Cardinality(A) ELSE Cardinality(A) + 1
  BY FS_AddElement
<1>2. B \in SUBSET (A \cup {x})
  OBVIOUS
<1>3. IsFiniteSet(B) /\ Cardinality(B) <= Cardinality(A \cup {x})
  BY <1>1, <1>2, FS_Subset
<1>4. Cardinality(A) \in Nat /\ Cardinality(B) \in Nat
  BY <1>3, FS_CardinalityType
<1>5. x \notin B => Cardinality(B) <= Cardinality(A)
  <2> SUFFICES ASSUME x \notin B
               PROVE  Cardinality(B) <= Cardinality(A)
    OBVIOUS
  <2>1. B \in SUBSET A
    OBVIOUS
  <2> QED  BY <2>1, FS_Subset
<1> QED  BY <1>1, <1>3, <1>4, <1>5

LEMMA CountFewer ==
    ASSUME NEW A, IsFiniteSet(A), NEW x \in A, NEW B, B \subseteq A \ {x}
    PROVE  /\ IsFiniteSet(B) /\ Cardinality(B) \in Nat /\ Cardinality(A) \in Nat
           /\ Cardinality(B) + 1 <= Cardinality(A)
<1>1. IsFiniteSet(A \ {x}) /\ Cardinality(A \ {x}) = Cardinality(A) - 1
  BY FS_RemoveElement
<1>2. B \in SUBSET (A \ {x})
  OBVIOUS
<1>3. IsFiniteSet(B) /\ Cardinality(B) <= Cardinality(A \ {x})
  BY <1>1, <1>2, FS_Subset
<1>4. Cardinality(A) \in Nat /\ Cardinality(B) \in Nat
  BY <1>3, FS_CardinalityType
<1> QED  BY <1>1, <1>3, <1>4

LEMMA Products ==
    ASSUME NEW f \in Nat, NEW g \in Nat, NEW n \in Nat
    PROVE  /\ f * n \in Nat
           /\ g >= f => g * n >= f * n
           /\ (f + 1) * n = f * n + n
<1>1. f * n \in Nat /\ (f + 1) * n = f * n + n
  OBVIOUS
<1>2. ASSUME g >= f
      PROVE  g * n >= f * n
  <2>1. PICK d \in Nat : g = f + d
    <3>1. g - f \in Nat /\ g = f + (g - f)
      BY <1>2
    <3> QED  BY <3>1
  <2>2. (f + d) * n = f * n + d * n /\ d * n \in Nat
    OBVIOUS
  <2> QED  BY <1>1, <2>1, <2>2
<1> QED  BY <1>1, <1>2

\* What a step may do to a search, where A is accounted for and the workers of
\* D are doomed: lose nothing; lose a branch to a failure, or with the doomed
\* worker that held it; have one more worker doomed by a signal.
Toll(A, A2, D, D2, f, f2, h, h2) ==
    \/ A \subseteq A2 /\ D2 \subseteq D /\ f2 >= f /\ h2 = h
    \/ \E b : A \ {b} \subseteq A2 /\ D2 \subseteq D /\ f2 = f + 1 /\ h2 = h
    \/ \E b, w : A \ {b} \subseteq A2 /\ w \in D /\ D2 \subseteq D \ {w}
                 /\ f2 >= f /\ h2 = h
    \/ \E w : A \subseteq A2 /\ D2 \subseteq D \cup {w} /\ f2 = f /\ h2 = h + 1

LEMMA TollPaid ==
    ASSUME NEW k \in 0..Len(Catalog),
           NEW f \in Nat, NEW f2 \in Nat, NEW h \in Nat, NEW h2 \in Nat,
           NEW A, NEW A2, NEW D, NEW D2, Toll(A, A2, D, D2, f, f2, h, h2),
           IsFiniteSet(D), Cardinality(D) <= h
    PROVE  /\ IsFiniteSet(D2) /\ Cardinality(D2) <= h2
           /\ Within(UpTo(k) \ A, D, f, h) => Within(UpTo(k) \ A2, D2, f2, h2)
<1> DEFINE G == UpTo(k) \ A
           G2 == UpTo(k) \ A2
           c == f * Widest
           c2 == f2 * Widest
<1>1. IsFiniteSet(G) /\ IsFiniteSet(G2) /\ Cardinality(G) \in Nat
      /\ Cardinality(G2) \in Nat /\ Cardinality(D) \in Nat
  <2>1. G \in SUBSET UpTo(k) /\ G2 \in SUBSET UpTo(k)
    OBVIOUS
  <2>2. IsFiniteSet(G) /\ IsFiniteSet(G2)
    BY <2>1, FiniteUpTo, FS_Subset
  <2> QED  BY <2>2, FS_CardinalityType
<1>2. /\ Widest \in Nat /\ c \in Nat /\ c2 \in Nat
      /\ f2 >= f => c2 >= c
      /\ f2 = f + 1 => c2 = c + Widest
  BY WidestBounds, Products
<1>3. Within(G, D, f, h) => Cardinality(G) + Cardinality(D) <= c + h
  BY DEF Within
<1>4. Cardinality(G2) + Cardinality(D2) <= c2 + h2 => Within(G2, D2, f2, h2)
  BY DEF Within
<1>5. ASSUME A \subseteq A2
      PROVE  Cardinality(G2) <= Cardinality(G)
  <2>1. G2 \in SUBSET G
    BY <1>5
  <2> QED  BY <1>1, <2>1, FS_Subset
<1>6. ASSUME D2 \subseteq D
      PROVE  /\ IsFiniteSet(D2) /\ Cardinality(D2) \in Nat
             /\ Cardinality(D2) <= Cardinality(D)
  <2>1. D2 \in SUBSET D
    BY <1>6
  <2>2. IsFiniteSet(D2) /\ Cardinality(D2) <= Cardinality(D)
    BY <2>1, FS_Subset
  <2> QED  BY <2>2, FS_CardinalityType
<1>7. ASSUME NEW b, A \ {b} \subseteq A2
      PROVE  /\ Cardinality(G2) <= Cardinality(G) + 1
             /\ Cardinality(G2) <= Cardinality(G) + Widest
  <2>1. G2 \subseteq G \cup {b}
    BY <1>7
  <2> HIDE DEF G, G2
  <2>2. Cardinality(G2) <= Cardinality(G) + 1
        /\ (b \notin G2 => Cardinality(G2) <= Cardinality(G))
    BY <1>1, <2>1, CountMore
  <2>3. b \in G2 => Widest >= 1
    BY SomeBranch DEF G2
  <2> QED  BY <1>1, <1>2, <2>2, <2>3
<1> HIDE DEF G, G2, c, c2
<1>8. CASE A \subseteq A2 /\ D2 \subseteq D /\ f2 >= f /\ h2 = h
  <2>1. Cardinality(D2) <= h2 /\ IsFiniteSet(D2)
    BY <1>1, <1>6, <1>8
  <2>2. Cardinality(G) + Cardinality(D) <= c + h
        => Cardinality(G2) + Cardinality(D2) <= c2 + h2
    BY <1>1, <1>2, <1>5, <1>6, <1>8
  <2> QED  BY <1>3, <1>4, <2>1, <2>2 DEF G, G2
<1>9. ASSUME NEW b, A \ {b} \subseteq A2, D2 \subseteq D, f2 = f + 1, h2 = h
      PROVE  /\ IsFiniteSet(D2) /\ Cardinality(D2) <= h2
             /\ Within(G, D, f, h) => Within(G2, D2, f2, h2)
  <2>1. Cardinality(D2) <= h2 /\ IsFiniteSet(D2)
    BY <1>1, <1>6, <1>9
  <2>2. Cardinality(G2) <= Cardinality(G) + Widest
    BY <1>7, <1>9
  <2>3. c2 = c + Widest /\ Cardinality(D2) \in Nat /\ Cardinality(D2) <= Cardinality(D)
    BY <1>2, <1>6, <1>9
  <2>4. Cardinality(G) + Cardinality(D) <= c + h
        => Cardinality(G2) + Cardinality(D2) <= c2 + h2
    BY <1>1, <1>2, <1>9, <2>2, <2>3
  <2> QED  BY <1>3, <1>4, <2>1, <2>4
<1>10. ASSUME NEW b, NEW w, A \ {b} \subseteq A2, w \in D, D2 \subseteq D \ {w},
              f2 >= f, h2 = h
       PROVE  /\ IsFiniteSet(D2) /\ Cardinality(D2) <= h2
              /\ Within(G, D, f, h) => Within(G2, D2, f2, h2)
  <2>1. IsFiniteSet(D2) /\ Cardinality(D2) \in Nat /\ Cardinality(D2) + 1 <= Cardinality(D)
    BY <1>10, CountFewer
  <2>2. Cardinality(D2) <= h2
    BY <1>1, <1>10, <2>1
  <2>3. Cardinality(G2) <= Cardinality(G) + 1
    BY <1>7, <1>10
  <2>4. Cardinality(G) + Cardinality(D) <= c + h
        => Cardinality(G2) + Cardinality(D2) <= c2 + h2
    BY <1>1, <1>2, <1>10, <2>1, <2>3
  <2> QED  BY <1>3, <1>4, <2>1, <2>2, <2>4
<1>11. ASSUME NEW w, A \subseteq A2, D2 \subseteq D \cup {w}, f2 = f, h2 = h + 1
       PROVE  /\ IsFiniteSet(D2) /\ Cardinality(D2) <= h2
              /\ Within(G, D, f, h) => Within(G2, D2, f2, h2)
  <2>1. IsFiniteSet(D2) /\ Cardinality(D2) \in Nat /\ Cardinality(D2) <= Cardinality(D) + 1
    BY <1>11, CountMore
  <2>2. Cardinality(D2) <= h2
    BY <1>1, <1>11, <2>1
  <2>3. c2 = c
    BY <1>11 DEF c, c2
  <2>4. Cardinality(G) + Cardinality(D) <= c + h
        => Cardinality(G2) + Cardinality(D2) <= c2 + h2
    BY <1>1, <1>2, <1>5, <1>11, <2>1, <2>3
  <2> QED  BY <1>3, <1>4, <2>1, <2>2, <2>4
<1>12. /\ IsFiniteSet(D2) /\ Cardinality(D2) <= h2
       /\ Within(G, D, f, h) => Within(G2, D2, f2, h2)
  BY <1>8, <1>9, <1>10, <1>11 DEF Toll, G, G2
<1> QED  BY <1>12 DEF G, G2

LEMMA AccountedOf ==
    ASSUME NEW s \in SearchID
    PROVE  /\ \A b : b \in Accounted(s) <=>
                  \/ b \in Items(queue[s])
                  \/ \E w \in Worker : Holds(w, s) /\ b = witem[w]
                  \/ b \in handled[s]
           /\ \A b : b \in Accounted(s)' <=>
                  \/ b \in Items(queue'[s])
                  \/ \E w \in Worker : Holds(w, s)' /\ b = witem'[w]
                  \/ b \in handled'[s]
BY HandOf DEF Accounted, Waiting, Items

\* What a worker has in hand is nobody else's to change.
LEMMA HandsApart ==
    ASSUME TypeOK, NEW w \in Worker,
           WorkerStep(w) \/ WorkerFault(w) \/ Interrupted(w),
           NEW v \in Worker, v # w
    PROVE  wpc'[v] = wpc[v] /\ wsid'[v] = wsid[v] /\ witem'[v] = witem[v]
<1>1. CASE WorkerStep(w)
  BY <1>1
  DEF WorkerStep, PeekSearch, PollNothing, GetDetails, DetailsMissing,
      TakeProject, NoProjectLeft, Complete, ReadStatus, MarkProcessing,
      ScanNothing, ScanFinds, LookupPackage, CreatePackage, AttachPackage,
      ReportFailure, WorkStep, Return, Settle, workerVars, vars, TypeOK
<1>2. CASE WorkerFault(w)
  BY <1>2
  DEF WorkerFault, WorkerDies, TakeRetried, MarkFails, ProcessFails, WorkStep,
      Return, workerVars, TypeOK
<1>3. CASE Interrupted(w)
  BY <1>3 DEF Interrupted, WorkStep, Return, TypeOK
<1> QED  BY <1>1, <1>2, <1>3

\* The work of a worker loses nothing.
LEMMA WorkKeeps ==
    ASSUME TypeOK, NEW w \in Worker, WorkerStep(w), NEW s \in SearchID
    PROVE  Accounted(s) \subseteq Accounted(s)'
<1>1. /\ queue[s] \in Seq(Branch)
      /\ \A v \in Worker : v # w /\ Holds(v, s) => Holds(v, s)' /\ witem'[v] = witem[v]
  BY HandsApart DEF Holds, Working, TypeOK, StorageTypeOK
<1>2. handled[s] \subseteq handled'[s]
  BY DEF WorkerStep, PeekSearch, PollNothing, GetDetails, DetailsMissing,
      TakeProject, NoProjectLeft, Complete, ReadStatus, MarkProcessing,
      ScanNothing, ScanFinds, LookupPackage, CreatePackage, AttachPackage,
      ReportFailure, Settle, vars, TypeOK
<1>3. CASE TakeProject(w)
  <2>1. /\ ~Holds(w, s)
        /\ wsid[w] = s => /\ queue[s] # << >> /\ queue'[s] = Tail(queue[s])
                          /\ Holds(w, s)' /\ witem'[w] = Head(queue[s])
        /\ wsid[w] # s => queue'[s] = queue[s]
    BY <1>3
    DEF TakeProject, WorkStep, GetProjectFromQueue, Holds, Working, Holding,
        InProcessProject, TypeOK, StorageTypeOK
  <2>2. \A b \in Items(queue[s]) :
            b \in Items(queue'[s]) \/ (Holds(w, s)' /\ b = witem'[w])
    BY <1>1, <2>1, TailCovers
  <2> QED  BY <1>1, <1>2, <2>1, <2>2, AccountedOf
<1>4. CASE ~TakeProject(w)
  <2>1. queue' = queue
    BY <1>4, WorkerKeeps
  <2>2. ASSUME Holds(w, s)
        PROVE  \/ Holds(w, s)' /\ witem'[w] = witem[w]
               \/ witem[w] \in handled'[s]
    <3>1. wsid[w] = s /\ wpc[w] \in Holding
      BY <2>2 DEF Holds, Working
    <3>2. CASE \/ ReadStatus(w) \/ MarkProcessing(w) \/ ScanFinds(w)
               \/ LookupPackage(w) \/ CreatePackage(w)
      BY <3>1, <3>2
      DEF ReadStatus, MarkProcessing, ScanFinds, LookupPackage, CreatePackage,
          WorkStep, Holds, Working, Holding, InProcessProject, TypeOK
    <3>3. CASE ScanNothing(w) \/ AttachPackage(w) \/ ReportFailure(w)
      BY <3>1, <3>3 DEF ScanNothing, AttachPackage, ReportFailure, Settle, TypeOK
    <3> QED
      BY <1>4, <3>1, <3>2, <3>3
      DEF WorkerStep, PeekSearch, PollNothing, GetDetails, DetailsMissing,
          NoProjectLeft, Complete, WorkStep, Holding, InProcessProject
  <2> QED  BY <1>1, <1>2, <2>1, <2>2, AccountedOf
<1> QED  BY <1>3, <1>4

\* A worker that fails loses one branch at most.
LEMMA FaultLoses ==
    ASSUME TypeOK, NEW w \in Worker, WorkerFault(w), NEW s \in SearchID
    PROVE  /\ \E b : Accounted(s) \ {b} \subseteq Accounted(s)'
           /\ \A v \in Worker : Holds(v, s)' => Holds(v, s)
<1>1. /\ queue[s] \in Seq(Branch) /\ handled' = handled
      /\ \A v \in Worker : v # w =>
             (Holds(v, s)' <=> Holds(v, s)) /\ witem'[v] = witem[v]
  BY HandsApart
  DEF Holds, Working, WorkerFault, WorkerDies, TakeRetried, MarkFails,
      ProcessFails, TypeOK, StorageTypeOK
<1>2. CASE WorkerDies(w)
  <2>1. queue' = queue /\ ~Holds(w, s)'
    BY <1>2 DEF WorkerDies, Return, storageVars, Holds, Working, TypeOK
  <2>2. Accounted(s) \ {witem[w]} \subseteq Accounted(s)'
    BY <1>1, <2>1, AccountedOf
  <2> QED  BY <1>1, <2>1, <2>2
<1>3. CASE TakeRetried(w)
  <2>1. /\ UNCHANGED workerVars
        /\ \/ queue'[s] = queue[s]
           \/ queue[s] # << >> /\ queue'[s] = Tail(queue[s])
    BY <1>3
    DEF TakeRetried, GetProjectFromQueue, TypeOK, StorageTypeOK
  <2>2. \A v \in Worker : (Holds(v, s)' <=> Holds(v, s)) /\ witem'[v] = witem[v]
    BY <2>1 DEF workerVars, Holds, Working
  <2>3. Items(queue[s]) \ {Head(queue[s])} \subseteq Items(queue'[s])
    BY <1>1, <2>1, TailCovers
  <2>4. Accounted(s) \ {Head(queue[s])} \subseteq Accounted(s)'
    BY <1>1, <2>2, <2>3, AccountedOf
  <2> QED  BY <2>2, <2>4
<1>4. CASE MarkFails(w) \/ ProcessFails(w)
  <2>1. queue' = queue /\ (Holds(w, s)' <=> Holds(w, s)) /\ witem'[w] = witem[w]
    BY <1>4
    DEF MarkFails, ProcessFails, WorkStep, storageVars, Holds, Working,
        Holding, InProcessProject, TypeOK
  <2>2. Accounted(s) \subseteq Accounted(s)'
    BY <1>1, <2>1, AccountedOf
  <2> QED  BY <1>1, <2>1, <2>2
<1> QED  BY <1>2, <1>3, <1>4 DEF WorkerFault

\* One that is interrupted loses what it holds, or goes on with it.
LEMMA InterruptionLoses ==
    ASSUME TypeOK, NEW w \in Worker, Interrupted(w), NEW s \in SearchID
    PROVE  /\ \A v \in Worker : Holds(v, s)' => Holds(v, s)
           /\ \/ Accounted(s) \subseteq Accounted(s)'
              \/ /\ Accounted(s) \ {witem[w]} \subseteq Accounted(s)'
                 /\ Holds(w, s) /\ ~Holds(w, s)'
<1>1. /\ handled' = handled /\ queue' = queue
      /\ \A v \in Worker : v # w =>
             (Holds(v, s)' <=> Holds(v, s)) /\ witem'[v] = witem[v]
  BY HandsApart DEF Holds, Working, Interrupted, storageVars
<1>2. CASE Return(w)
  <2>1. ~Holds(w, s)'
    BY <1>2 DEF Return, Holds, Working, TypeOK
  <2>2. Accounted(s) \ {witem[w]} \subseteq Accounted(s)'
    BY <1>1, <2>1, AccountedOf
  <2>3. ~Holds(w, s) => Accounted(s) \subseteq Accounted(s)'
    BY <1>1, <2>1, AccountedOf
  <2> QED  BY <1>1, <2>1, <2>2, <2>3
<1>3. CASE ~Return(w)
  <2>1. (Holds(w, s)' <=> Holds(w, s)) /\ witem'[w] = witem[w]
    BY <1>3
    DEF Interrupted, WorkStep, Holds, Working, Holding, InProcessProject, TypeOK
  <2>2. Accounted(s) \subseteq Accounted(s)'
    BY <1>1, <2>1, AccountedOf
  <2> QED  BY <1>1, <2>1, <2>2
<1> QED  BY <1>2, <1>3

TollOf(s) ==
    Toll(Accounted(s), Accounted(s)', Doomed(s), Doomed(s)',
         faults, faults', hits, hits')

LEMMA DoomedOf ==
    ASSUME NEW s \in SearchID
    PROVE  /\ \A v : v \in Doomed(s) <=>
                  v \in Worker /\ life[v] = "stopping" /\ Holds(v, s)
           /\ \A v : v \in Doomed(s)' <=>
                  v \in Worker /\ life'[v] = "stopping" /\ Holds(v, s)'
BY DEF Doomed

\* Steps that leave the workers alone.
LEMMA RequestToll ==
    ASSUME TypeOK, NEW s \in SearchID, UNCHANGED <<workerVars, handled>>,
           Items(queue[s]) \subseteq Items(queue'[s]),
           faults' >= faults, UNCHANGED <<life, hits>>
    PROVE  TollOf(s) /\ Accounted(s) \subseteq Accounted(s)' /\ Doomed(s)' = Doomed(s)
<1>1. \A v \in Worker : (Holds(v, s)' <=> Holds(v, s)) /\ witem'[v] = witem[v]
  BY DEF workerVars, Holds, Working
<1>2. Accounted(s) \subseteq Accounted(s)'
  BY <1>1, AccountedOf
<1>3. Doomed(s)' = Doomed(s)
  BY <1>1, DoomedOf
<1> QED  BY <1>2, <1>3 DEF TollOf, Toll

LEMMA WorkToll ==
    ASSUME TypeOK, NEW w \in Worker, NEW s \in SearchID, Work(w) \/ ScanGoesOn(w)
    PROVE  TollOf(s) /\ UNCHANGED requestVars
<1>1. WorkerStep(w) /\ UNCHANGED lifeVars /\ (Work(w) => life[w] = "up")
  BY DEF Work, ScanGoesOn, WorkerStep
<1>2. Accounted(s) \subseteq Accounted(s)'
  BY <1>1, WorkKeeps
<1>3. \A v \in Worker : v # w /\ Holds(v, s)' => Holds(v, s)
  BY <1>1, HandsApart DEF Holds, Working
<1>4. ScanGoesOn(w) => (Holds(w, s)' => Holds(w, s))
  <2>1. ScanGoesOn(w) => ~TakeProject(w)
    BY DEF ScanGoesOn, ScanNothing, ScanFinds, WorkStep, TakeProject
  <2> QED  BY <1>1, <2>1, WorkerKeeps
<1>5. Doomed(s)' \subseteq Doomed(s)
  BY <1>1, <1>3, <1>4, DoomedOf DEF lifeVars
<1>6. faults' = faults /\ faults \in Nat
  <2>1. UNCHANGED budgetVars
    BY <1>1
    DEF WorkerStep, PeekSearch, PollNothing, GetDetails, DetailsMissing,
        TakeProject, NoProjectLeft, Complete, ReadStatus, MarkProcessing,
        ScanNothing, ScanFinds, LookupPackage, CreatePackage, AttachPackage,
        ReportFailure, vars
  <2> QED  BY <2>1, BoundsAssumption DEF budgetVars, TypeOK
<1>7. UNCHANGED requestVars
  BY <1>1, WorkerKeeps
<1> QED  BY <1>1, <1>2, <1>5, <1>6, <1>7 DEF TollOf, Toll, lifeVars

LEMMA WorkFailsToll ==
    ASSUME TypeOK, NEW w \in Worker, NEW s \in SearchID, WorkFails(w)
    PROVE  TollOf(s) /\ UNCHANGED requestVars
<1>1. WorkerFault(w) /\ UNCHANGED lifeVars
  BY DEF WorkFails
<1>2. Doomed(s)' \subseteq Doomed(s)
  BY <1>1, FaultLoses, DoomedOf DEF lifeVars
<1>3. faults' = faults + 1 /\ UNCHANGED requestVars
  BY <1>1
  DEF WorkerFault, WorkerDies, TakeRetried, MarkFails, ProcessFails, Fault,
      NoRequest
<1>4. PICK b : Accounted(s) \ {b} \subseteq Accounted(s)'
  BY <1>1, FaultLoses
<1> QED  BY <1>1, <1>2, <1>3, <1>4 DEF TollOf, Toll, lifeVars

LEMMA InterruptedToll ==
    ASSUME TypeOK, LifeOK, NEW w \in Worker, NEW s \in SearchID,
           \/ CallCancelled(w) \/ MarkCancelled(w) \/ StatementCancelled(w)
           \/ ShutdownTimeout(w)
    PROVE  TollOf(s) /\ UNCHANGED requestVars
<1>1. Interrupted(w)
  BY BoundsAssumption
  DEF CallCancelled, MarkCancelled, StatementCancelled, ShutdownTimeout,
      Interrupted, WorkStep, NoRequest, Fault, budgetVars, TypeOK
<1>2. /\ life[w] = "stopping" /\ hits' = hits
      /\ \A v \in Worker : v # w => life'[v] = life[v]
  BY DEF CallCancelled, MarkCancelled, StatementCancelled, ShutdownTimeout,
         lifeVars, LifeOK
<1>3. faults' >= faults
  BY <1>1, BoundsAssumption DEF Interrupted, TypeOK
<1>4. UNCHANGED requestVars /\ Doomed(s)' \subseteq Doomed(s)
  BY <1>1, <1>2, InterruptionLoses, DoomedOf DEF Interrupted
<1>5. CASE Accounted(s) \subseteq Accounted(s)'
  BY <1>2, <1>3, <1>4, <1>5 DEF TollOf, Toll
<1>6. CASE ~(Accounted(s) \subseteq Accounted(s)')
  <2>1. Accounted(s) \ {witem[w]} \subseteq Accounted(s)' /\ Holds(w, s) /\ ~Holds(w, s)'
    BY <1>1, <1>6, InterruptionLoses
  <2>2. w \in Doomed(s) /\ Doomed(s)' \subseteq Doomed(s) \ {w}
    BY <1>2, <1>4, <2>1, DoomedOf
  <2> QED  BY <1>2, <1>3, <1>4, <2>1, <2>2 DEF TollOf, Toll
<1> QED  BY <1>5, <1>6

\* Signals, exits and starts.
LEMMA LifeToll ==
    ASSUME TypeOK, LifeOK, NEW s \in SearchID, UNCHANGED vars,
           \/ \E w \in Worker : SignalWorker(w) \/ Stopped(w) \/ StartWorker(w)
           \/ UNCHANGED <<life, hits>>
    PROVE  TollOf(s) /\ UNCHANGED requestVars
<1>1. /\ \A v \in Worker : Holds(v, s)' <=> Holds(v, s)
      /\ UNCHANGED <<requestVars, workerVars, handled, faults, queue>>
  BY DEF vars, workerVars, storageVars, budgetVars, Holds, Working
<1>2. Accounted(s) \subseteq Accounted(s)'
  BY <1>1, AccountedOf DEF workerVars
<1>3. faults \in Nat /\ faults' >= faults
  BY <1>1, BoundsAssumption DEF TypeOK
<1>4. CASE UNCHANGED <<life, hits>>
  <2>1. Doomed(s)' \subseteq Doomed(s)
    BY <1>1, <1>4, DoomedOf
  <2> QED  BY <1>1, <1>2, <1>3, <1>4, <2>1 DEF TollOf, Toll
<1>5. CASE \E w \in Worker : Stopped(w) \/ StartWorker(w)
  <2>1. Doomed(s)' \subseteq Doomed(s) /\ hits' = hits
    BY <1>1, <1>5, DoomedOf DEF Stopped, StartWorker, LifeOK
  <2> QED  BY <1>1, <1>2, <1>3, <2>1 DEF TollOf, Toll
<1>6. CASE \E w \in Worker : SignalWorker(w)
  <2> PICK w \in Worker : SignalWorker(w)
    BY <1>6
  <2>1. /\ life' = [life EXCEPT ![w] = "stopping"]
        /\ hits' = IF wpc[w] \in Holding THEN hits + 1 ELSE hits
    BY DEF SignalWorker
  <2>2. CASE wpc[w] \in Holding
    <3>1. Doomed(s)' \subseteq Doomed(s) \cup {w}
      BY <1>1, <2>1, DoomedOf DEF LifeOK
    <3> QED  BY <1>1, <1>2, <2>1, <2>2, <3>1 DEF TollOf, Toll
  <2>3. CASE wpc[w] \notin Holding
    <3>1. Doomed(s)' \subseteq Doomed(s)
      BY <1>1, <2>1, <2>3, DoomedOf DEF LifeOK, Holds
    <3> QED  BY <1>1, <1>2, <1>3, <2>1, <2>3, <3>1 DEF TollOf, Toll
  <2> QED  BY <2>2, <2>3
<1> QED  BY <1>4, <1>5, <1>6

\* The next project costs nothing when its branches are accounted for, and a
\* failure otherwise.
LEMMA NextProjectPaid ==
    ASSUME NEW k \in Nat, k + 1 \in 1..Len(Catalog), NEW A, NEW D,
           IsFiniteSet(D), NEW f \in Nat, NEW h \in Nat,
           Within(UpTo(k) \ A, D, f, h)
    PROVE  /\ BranchesAt(k + 1) \subseteq A => Within(UpTo(k + 1) \ A, D, f, h)
           /\ Within(UpTo(k + 1) \ A, D, f + 1, h)
<1> DEFINE G == UpTo(k) \ A
           X == BranchesAt(k + 1)
           G2 == UpTo(k + 1) \ A
<1>1. k \in 0..Len(Catalog) /\ k + 1 \in 0..Len(Catalog)
  BY CatalogType
<1>2. G \in SUBSET UpTo(k) /\ G2 \subseteq G \cup X /\ G2 \in SUBSET (G \cup X)
  BY UpToNext
<1>3. X \subseteq A => G2 = G
  BY UpToNext
<1>4. /\ IsFiniteSet(G) /\ IsFiniteSet(X) /\ Cardinality(X) <= Widest
  BY <1>1, <1>2, FiniteUpTo, FS_Subset, WidestBounds
<1> HIDE DEF G, X, G2
<1>5. /\ IsFiniteSet(G \cup X)
      /\ Cardinality(G \cup X) = Cardinality(G) + Cardinality(X) - Cardinality(G \cap X)
  BY <1>4, FS_Union
<1>6. IsFiniteSet(G \cap X)
  BY <1>4, FS_Intersection
<1>7. IsFiniteSet(G2) /\ Cardinality(G2) <= Cardinality(G \cup X)
  BY <1>2, <1>5, FS_Subset
<1>8. /\ Cardinality(G) \in Nat /\ Cardinality(X) \in Nat /\ Cardinality(G2) \in Nat
      /\ Cardinality(G \cap X) \in Nat /\ Cardinality(D) \in Nat
  BY <1>4, <1>6, <1>7, FS_CardinalityType
<1>9. Cardinality(G2) <= Cardinality(G) + Widest
  BY <1>4, <1>5, <1>7, <1>8, WidestBounds
<1> DEFINE c == f * Widest
           c2 == (f + 1) * Widest
<1>10. c \in Nat /\ c2 = c + Widest /\ Widest \in Nat
  BY WidestBounds, Products
<1>11. Cardinality(G) + Cardinality(D) <= c + h
  BY DEF Within, G
<1> HIDE DEF c, c2
<1>12. Cardinality(G2) + Cardinality(D) <= c2 + h
  BY <1>8, <1>9, <1>10, <1>11
<1>13. Within(G2, D, f + 1, h)
  BY <1>12 DEF Within, c2
<1>14. X \subseteq A => Within(G2, D, f, h)
  BY <1>3 DEF G
<1> QED  BY <1>13, <1>14 DEF G2, X

\* The steps of a request, as workers and queues see them.
LEMMA RequestOnly ==
    ASSUME TypeOK, NEW r \in Request, NEW s \in SearchID,
           RequestStep(r) \/ RequestFault(r) \/ \E t \in SearchID : Arrive(r, t)
    PROVE  /\ UNCHANGED <<workerVars, handled>> /\ faults' >= faults
           /\ Items(queue[s]) \subseteq Items(queue'[s])
           /\ \A q \in Request : q # r =>
                  /\ rpc'[q] = rpc[q] /\ rsid'[q] = rsid[q]
                  /\ rpage'[q] = rpage[q] /\ rtodo'[q] = rtodo[q]
<1> USE DEF ReqStep, NoWorker
<1>1. UNCHANGED <<workerVars, handled>>
  BY DEF RequestStep, Acquire, FindDependencies, AddCached, CompleteCached,
         ReadPage, PushProject, Enqueue, RequestFault, RequestDies,
         ReplyLost, FindDependenciesFails, PushFails, Arrive
<1>2. faults' >= faults
  <2>1. faults' = faults \/ faults' = faults + 1
    BY DEF RequestStep, Acquire, FindDependencies, AddCached, CompleteCached,
           ReadPage, PushProject, Enqueue, RequestFault, RequestDies,
           ReplyLost, FindDependenciesFails, PushFails,
           Arrive, Fault, budgetVars
  <2> QED  BY <2>1, BoundsAssumption DEF TypeOK
<1>3. Items(queue[s]) \subseteq Items(queue'[s])
  <2>1. CASE PushProject(r)
    <3>1. rpc[r] = "push" /\ rtodo[r] \in Seq(Seq(Branch)) /\ rtodo[r] # << >>
      BY <2>1 DEF PushProject, NextProject, TypeOK
    <3>2. Head(rtodo[r]) \in Seq(Branch)
      <4> DEFINE S == Seq(Branch)
      <4>1. rtodo[r] \in Seq(S)
        BY <3>1
      <4> HIDE DEF S
      <4>2. Head(rtodo[r]) \in S
        BY <3>1, <4>1, HeadTailProperties
      <4> QED  BY <4>2 DEF S
    <3>3. queue[s] \in Seq(Branch)
          /\ queue'[s] \in {queue[s], queue[s] \o Head(rtodo[r])}
      BY <2>1
      DEF PushProject, AddProjectsToQueue, TypeOK, StorageTypeOK
    <3>4. Items(queue[s] \o Head(rtodo[r])) = Items(queue[s]) \cup Items(Head(rtodo[r]))
      BY <3>2, <3>3, ConcatItems
    <3>5. CASE queue'[s] = queue[s]
      BY <3>5
    <3>6. CASE queue'[s] = queue[s] \o Head(rtodo[r])
      BY <3>4, <3>6
    <3> QED  BY <3>3, <3>5, <3>6
  <2>2. CASE ~PushProject(r)
    <3>1. queue' = queue
      BY <2>2
      DEF RequestStep, Acquire, FindDependencies, AddCached, CompleteCached,
          ReadPage, Enqueue, RequestFault, RequestDies, ReplyLost,
          FindDependenciesFails, PushFails, Arrive, storageVars,
          AcquireSearch, AddSearchToQueue, CompleteSearch
    <3> QED  BY <3>1
  <2> QED  BY <2>1, <2>2
<1>4. \A q \in Request : q # r =>
          /\ rpc'[q] = rpc[q] /\ rsid'[q] = rsid[q]
          /\ rpage'[q] = rpage[q] /\ rtodo'[q] = rtodo[q]
  <2>1. CASE RequestStep(r)
    BY <2>1
    DEF RequestStep, Acquire, FindDependencies, AddCached, CompleteCached,
        ReadPage, PushProject, NextProject, Enqueue, TypeOK
  <2>2. CASE RequestFault(r)
    BY <2>2
    DEF RequestFault, RequestDies, ReplyLost, FindDependenciesFails,
        PushFails, NextProject, requestVars, TypeOK
  <2>3. CASE \E t \in SearchID : Arrive(r, t)
    BY <2>3 DEF Arrive, TypeOK
  <2> QED  BY <2>1, <2>2, <2>3
<1> QED  BY <1>1, <1>2, <1>3, <1>4

\* A project of the page is dealt with: the page goes on, or the next begins.
LEMMA NextPosition ==
    ASSUME TypeOK, NEW r \in Request, NextProject(r),
           NEW k \in Nat, At(rpc[r], rpage[r], rtodo[r], k)
    PROVE  /\ k + 1 \in 1..Len(Catalog) /\ Head(rtodo[r]) = Catalog[k + 1]
           /\ At(rpc'[r], rpage'[r], rtodo'[r], k + 1)
<1>1. rpc[r] = "push" /\ rpage[r] \in Nat \ {0}
  BY DEF NextProject, ReqStep, TypeOK
<1>2. k < Last(rpage[r]) /\ rtodo[r] = SubSeq(Catalog, k + 1, Last(rpage[r]))
  BY <1>1 DEF At
<1>3. Last(rpage[r]) \in 0..Len(Catalog)
  BY <1>1, PageWindow
<1>4. /\ Head(rtodo[r]) = Catalog[k + 1] /\ k + 1 \in 1..Len(Catalog)
      /\ Tail(rtodo[r]) = SubSeq(Catalog, k + 2, Last(rpage[r]))
      /\ Tail(rtodo[r]) = << >> <=> k + 1 = Last(rpage[r])
  BY <1>2, <1>3, WindowTail
<1>5. /\ rpc'[r] = IF Tail(rtodo[r]) = << >> THEN "page" ELSE "push"
      /\ rtodo'[r] = Tail(rtodo[r])
      /\ rpage'[r] = IF Tail(rtodo[r]) = << >> THEN rpage[r] + 1 ELSE rpage[r]
  BY DEF NextProject, ReqStep, TypeOK
<1>6. CASE Tail(rtodo[r]) = << >>
  <2>1. rpc'[r] = "page" /\ rpage'[r] - 1 = rpage[r] /\ k + 1 = Last(rpage[r])
    BY <1>1, <1>4, <1>5, <1>6
  <2> QED  BY <1>3, <1>4, <2>1 DEF At
<1>7. CASE Tail(rtodo[r]) # << >>
  <2>1. k + 1 # Last(rpage[r]) /\ Last(rpage[r]) \in Int
    <3>1. k + 1 # Last(rpage[r])
      BY <1>4, <1>7, Zenon
    <3> QED  BY <1>3, <3>1, CatalogType
  <2>2. k + 1 < Last(rpage[r]) /\ (k + 1) + 1 = k + 2
    BY <1>2, <2>1, Successor
  <2>3. rpc'[r] = "push" /\ rpage'[r] = rpage[r]
        /\ rtodo'[r] = SubSeq(Catalog, k + 2, Last(rpage[r]))
    BY <1>4, <1>5, <1>7
  <2>4. k + 1 \in 0..Len(Catalog)
    BY <1>4, CatalogType
  <2>5. At(rpc'[r], rpage'[r], rtodo'[r], k + 1)
    BY <2>2, <2>3, <2>4 DEF At
  <2> QED  BY <1>4, <2>5
<1> QED  BY <1>4, <1>6, <1>7

\* How a step of its request moves a listing.
LEMMA RequestMoves ==
    ASSUME TypeOK, FirstPages, NEW r \in Request, NEW s \in SearchID,
           RequestStep(r) \/ RequestFault(r) \/ \E t \in SearchID : Arrive(r, t),
           rsid'[r] = s, rpc'[r] \in Listing
    PROVE  \/ At(rpc'[r], rpage'[r], rtodo'[r], 0)
           \/ /\ rsid[r] = s /\ rpc[r] \in Listing
              /\ \A k \in 0..Len(Catalog) : At(rpc[r], rpage[r], rtodo[r], k) =>
                     \/ At(rpc'[r], rpage'[r], rtodo'[r], k)
                     \/ /\ k + 1 \in 1..Len(Catalog)
                        /\ At(rpc'[r], rpage'[r], rtodo'[r], k + 1)
                        /\ \/ BranchesAt(k + 1) \subseteq Items(queue'[s])
                           \/ faults' = faults + 1
<1> USE DEF ReqStep
<1>1. Len(Catalog) \in Nat
  BY CatalogType
<1>2. CASE FindDependencies(r) \/ FindDependenciesFails(r)
  <2>1. rpc'[r] = "page" /\ rpage'[r] = 1
    BY <1>2 DEF FindDependencies, FindDependenciesFails, FirstPages, Listing, TypeOK
  <2>2. 1 - 1 = 0 /\ Last(0) = 0
    BY <1>1, PageTimes, PageSizeAssumption DEF Last
  <2> QED  BY <1>1, <2>1, <2>2 DEF At
<1>3. CASE ReadPage(r)
  <2> DEFINE page == rpage[r] - 1
  <2>1. page \in Nat /\ page + 1 = rpage[r] /\ rpage' = rpage /\ rpc[r] = "page"
        /\ rsid[r] = s
    BY <1>3 DEF ReadPage, TypeOK
  <2>2. /\ rtodo'[r] = PageOf(page + 1)
        /\ rpc'[r] = IF PageOf(page + 1) = << >> THEN "enqueue" ELSE "push"
    BY <1>3, <2>1 DEF ReadPage, TypeOK
  <2>3. \A k : At(rpc[r], rpage[r], rtodo[r], k) => k = Last(page) /\ k \in 0..Len(Catalog)
    BY <2>1 DEF At
  <2> HIDE DEF page
  <2>4. \A k : At(rpc[r], rpage[r], rtodo[r], k) =>
            At(rpc'[r], rpage'[r], rtodo'[r], k)
    <3>1. CASE PageOf(page + 1) = << >>
      <4>1. Last(page) = Len(Catalog)
        BY <2>1, <3>1, PageWindow
      <4> QED  BY <2>2, <2>3, <3>1, <4>1 DEF At
    <3>2. CASE PageOf(page + 1) # << >>
      <4>1. /\ Last(page) < Last(rpage'[r])
            /\ rtodo'[r] = SubSeq(Catalog, Last(page) + 1, Last(rpage'[r]))
        BY <2>1, <2>2, <3>2, PageWindow
      <4> QED  BY <2>2, <2>3, <3>2, <4>1 DEF At
    <3> QED  BY <3>1, <3>2
  <2> QED  BY <2>1, <2>4 DEF Listing
<1>4. CASE PushProject(r) \/ PushFails(r)
  <2>1. NextProject(r) /\ rpc[r] = "push" /\ rsid[r] = s /\ queue[s] \in Seq(Branch)
    BY <1>4 DEF PushProject, PushFails, NextProject, TypeOK, StorageTypeOK
  <2> SUFFICES ASSUME NEW k \in 0..Len(Catalog), At(rpc[r], rpage[r], rtodo[r], k)
               PROVE  /\ k + 1 \in 1..Len(Catalog)
                      /\ At(rpc'[r], rpage'[r], rtodo'[r], k + 1)
                      /\ \/ BranchesAt(k + 1) \subseteq Items(queue'[s])
                         \/ faults' = faults + 1
    BY <2>1 DEF Listing
  <2>2. /\ k + 1 \in 1..Len(Catalog) /\ Head(rtodo[r]) = Catalog[k + 1]
        /\ At(rpc'[r], rpage'[r], rtodo'[r], k + 1)
    BY <1>1, <2>1, NextPosition
  <2>3. PushFails(r) => faults' = faults + 1
    BY DEF PushFails, Fault
  <2>4. PushProject(r) => BranchesAt(k + 1) \subseteq Items(queue'[s])
    <3> SUFFICES ASSUME PushProject(r)
                 PROVE  BranchesAt(k + 1) \subseteq Items(queue'[s])
      OBVIOUS
    <3>1. queue'[s] = queue[s] \o Catalog[k + 1]
      BY <2>1, <2>2 DEF PushProject, AddProjectsToQueue, TypeOK, StorageTypeOK
    <3>2. /\ Catalog[k + 1] \in Seq(Branch)
          /\ Items(Catalog[k + 1]) = BranchesAt(k + 1)
      BY <2>2, CatalogType DEF Items, BranchesAt
    <3>3. Items(queue[s] \o Catalog[k + 1]) = Items(queue[s]) \cup BranchesAt(k + 1)
      BY <2>1, <3>2, ConcatItems
    <3> QED  BY <3>1, <3>3
  <2> QED  BY <1>4, <2>2, <2>3, <2>4
<1>5. CASE Enqueue(r)
  <2>1. rpc[r] = "enqueue" /\ rpc'[r] = "listed" /\ rsid[r] = s
    BY <1>5 DEF Enqueue, TypeOK
  <2> QED  BY <2>1 DEF At, Listing
<1>6. CASE ReplyLost(r)
  BY <1>6 DEF ReplyLost, Listing, TypeOK
<1>7. CASE \/ Acquire(r) \/ AddCached(r) \/ CompleteCached(r) \/ RequestDies(r)
           \/ \E t \in SearchID : Arrive(r, t)
  BY <1>7
  DEF Acquire, AddCached, CompleteCached, RequestDies, Arrive, Listing, TypeOK
<1> QED
  BY <1>2, <1>3, <1>4, <1>5, <1>6, <1>7 DEF RequestStep, RequestFault

\* A step of a request r keeps the accounts of all.
LEMMA RequestPays ==
    ASSUME TypeOK, LossInv, NEW r \in Request, NEW s \in SearchID,
           RequestStep(r) \/ RequestFault(r) \/ \E t \in SearchID : Arrive(r, t),
           hits \in Nat, UNCHANGED <<life, hits>>
    PROVE  Marked(s)' /\ \A q \in Request : Paid(q, s)'
<1>1. faults \in Nat /\ faults' \in Nat /\ hits' \in Nat
  <2>1. faults' \in 0..MaxFaults
    BY StepType DEF Next, TypeOK
  <2> QED  BY <2>1, BoundsAssumption DEF TypeOK
<1>2. /\ TollOf(s) /\ Accounted(s) \subseteq Accounted(s)'
      /\ Doomed(s)' = Doomed(s)
  BY RequestOnly, RequestToll
<1>3. PICK A2 : A2 = Accounted(s)'
  OBVIOUS
<1>4. IsFiniteSet(Doomed(s)) /\ Cardinality(Doomed(s)) <= hits
  BY DEF LossInv, Marked
<1>5. Toll(Accounted(s), A2, Doomed(s), Doomed(s), faults, faults', hits, hits)
  BY <1>2, <1>3 DEF TollOf
<1>6. \A k \in 0..Len(Catalog) :
          Within(Gone(k, s), Doomed(s), faults, hits) =>
          /\ Within(UpTo(k) \ A2, Doomed(s), faults', hits)
          /\ Within(UpTo(k) \ A2, Doomed(s), faults, hits)
  <2>1. Toll(Accounted(s), A2, Doomed(s), Doomed(s), faults, faults, hits, hits)
    BY <1>1, <1>2, <1>3 DEF Toll
  <2> QED  BY <1>1, <1>4, <1>5, <2>1, TollPaid DEF Gone
<1>7. Marked(s)'
  BY <1>2, <1>4 DEF Marked
<1>8. ASSUME NEW q \in Request, rsid'[q] = s, rpc'[q] \in Listing
      PROVE  \E k \in 0..Len(Catalog) :
                 /\ At(rpc'[q], rpage'[q], rtodo'[q], k)
                 /\ Within(UpTo(k) \ A2, Doomed(s), faults', hits)
  <2>1. Paid(q, s)
    BY DEF LossInv
  <2>2. CASE q # r
    <3>1. /\ rpc'[q] = rpc[q] /\ rsid'[q] = rsid[q]
          /\ rpage'[q] = rpage[q] /\ rtodo'[q] = rtodo[q]
      BY <2>2, RequestOnly
    <3> QED  BY <1>6, <1>8, <2>1, <3>1 DEF Paid
  <2>3. CASE q = r /\ At(rpc'[q], rpage'[q], rtodo'[q], 0)
    <3>1. 0 \in 0..Len(Catalog)
      BY CatalogType
    <3>2. Within(UpTo(0) \ A2, Doomed(s), faults', hits)
      <4>1. UpTo(0) \ A2 = {} /\ Cardinality({}) = 0
        BY UpToAll, FS_EmptySet
      <4>2. faults' * Widest \in Nat /\ Cardinality(Doomed(s)) \in Nat
        BY <1>1, <1>4, WidestBounds, Products, FS_CardinalityType
      <4> DEFINE c == faults' * Widest
      <4>3. 0 + Cardinality(Doomed(s)) <= c + hits
        <5> HIDE DEF c
        <5>1. c \in Nat
          BY <4>2 DEF c
        <5> QED  BY <1>4, <4>2, <5>1
      <4> QED  BY <4>1, <4>3 DEF Within
    <3> QED  BY <2>3, <3>1, <3>2
  <2>4. CASE q = r /\ ~At(rpc'[q], rpage'[q], rtodo'[q], 0)
    <3>1. /\ rsid[r] = s /\ rpc[r] \in Listing
          /\ \A k \in 0..Len(Catalog) : At(rpc[r], rpage[r], rtodo[r], k) =>
                 \/ At(rpc'[r], rpage'[r], rtodo'[r], k)
                 \/ /\ k + 1 \in 1..Len(Catalog)
                    /\ At(rpc'[r], rpage'[r], rtodo'[r], k + 1)
                    /\ \/ BranchesAt(k + 1) \subseteq Items(queue'[s])
                       \/ faults' = faults + 1
      BY <1>8, <2>4, RequestMoves DEF LossInv
    <3>2. PICK k \in 0..Len(Catalog) :
              /\ At(rpc[r], rpage[r], rtodo[r], k)
              /\ Within(Gone(k, s), Doomed(s), faults, hits)
      BY <2>1, <2>4, <3>1 DEF Paid
    <3>3. CASE At(rpc'[r], rpage'[r], rtodo'[r], k)
      BY <1>6, <2>4, <3>2, <3>3
    <3>4. CASE /\ k + 1 \in 1..Len(Catalog)
               /\ At(rpc'[r], rpage'[r], rtodo'[r], k + 1)
               /\ \/ BranchesAt(k + 1) \subseteq Items(queue'[s])
                  \/ faults' = faults + 1
      <4>1. k \in Nat /\ k + 1 \in 0..Len(Catalog)
        BY <3>2, <3>4, CatalogType
      <4>2. /\ Within(UpTo(k) \ A2, Doomed(s), faults', hits)
            /\ Within(UpTo(k) \ A2, Doomed(s), faults, hits)
        BY <1>6, <3>2
      <4>3. CASE BranchesAt(k + 1) \subseteq Items(queue'[s])
        <5>1. BranchesAt(k + 1) \subseteq A2
          BY <1>3, <4>3, AccountedOf
        <5>2. Within(UpTo(k + 1) \ A2, Doomed(s), faults', hits)
          BY <1>1, <1>4, <3>4, <4>1, <4>2, <5>1, NextProjectPaid
        <5> QED  BY <2>4, <3>4, <4>1, <5>2
      <4>4. CASE faults' = faults + 1
        <5>1. Within(UpTo(k + 1) \ A2, Doomed(s), faults + 1, hits)
          BY <1>1, <1>4, <3>4, <4>1, <4>2, NextProjectPaid
        <5> QED  BY <2>4, <3>4, <4>1, <4>4, <5>1
      <4> QED  BY <3>4, <4>3, <4>4
    <3> QED  BY <3>1, <3>2, <3>3, <3>4
  <2> QED  BY <2>2, <2>3, <2>4
<1>9. \A q \in Request : Paid(q, s)'
  BY <1>2, <1>3, <1>8 DEF Paid, Gone
<1> QED  BY <1>7, <1>9

\* So do the other steps, which leave the requests where they are.
LEMMA OthersPay ==
    ASSUME LossInv, NEW s \in SearchID, TollOf(s),
           \A r \in Request :
               /\ rsid'[r] = rsid[r] /\ rpage'[r] = rpage[r] /\ rtodo'[r] = rtodo[r]
               /\ rpc'[r] = rpc[r] \/ rpc'[r] = "error",
           faults \in Nat, faults' \in Nat, hits \in Nat, hits' \in Nat
    PROVE  Marked(s)' /\ \A r \in Request : Paid(r, s)'
<1>1. PICK A2 : A2 = Accounted(s)'
  OBVIOUS
<1>2. PICK D2 : D2 = Doomed(s)'
  OBVIOUS
<1>3. Toll(Accounted(s), A2, Doomed(s), D2, faults, faults', hits, hits')
  BY <1>1, <1>2 DEF TollOf
<1>4. IsFiniteSet(Doomed(s)) /\ Cardinality(Doomed(s)) <= hits
  BY DEF LossInv, Marked
<1>5. \A k \in 0..Len(Catalog) :
          /\ IsFiniteSet(D2) /\ Cardinality(D2) <= hits'
          /\ Within(Gone(k, s), Doomed(s), faults, hits) =>
                 Within(UpTo(k) \ A2, D2, faults', hits')
  BY <1>3, <1>4, TollPaid DEF Gone
<1>6. Marked(s)'
  <2>1. 0 \in 0..Len(Catalog)
    BY CatalogType
  <2>2. IsFiniteSet(D2) /\ Cardinality(D2) <= hits'
    BY <1>5, <2>1
  <2> QED  BY <1>2, <2>2 DEF Marked
<1>7. ASSUME NEW r \in Request, rsid'[r] = s, rpc'[r] \in Listing
      PROVE  \E k \in 0..Len(Catalog) :
                 /\ At(rpc'[r], rpage'[r], rtodo'[r], k)
                 /\ Within(UpTo(k) \ A2, D2, faults', hits')
  <2>1. rsid[r] = s /\ rpc[r] \in Listing /\ rpc'[r] = rpc[r]
    BY <1>7 DEF Listing
  <2>2. PICK k \in 0..Len(Catalog) :
            /\ At(rpc[r], rpage[r], rtodo[r], k)
            /\ Within(Gone(k, s), Doomed(s), faults, hits)
    BY <2>1 DEF LossInv, Paid
  <2> QED  BY <1>5, <2>1, <2>2
<1>8. \A r \in Request : Paid(r, s)'
  BY <1>1, <1>2, <1>7 DEF Paid, Gone
<1> QED  BY <1>6, <1>8

LEMMA FirstPagesStep ==
    ASSUME TypeOK, LifeOK, FirstPages, [ProcessNext]_processVars
    PROVE  FirstPages'
<1> USE DEF FirstPages, ReqStep
<1>1. CASE \E r \in Request, s \in SearchID : Accept(r, s)
  BY <1>1 DEF Accept, Arrive, TypeOK
<1>2. CASE \E r \in Request : Serve(r) \/ Fail(r)
  <2>1. CASE \E r \in Request : Serve(r)
    BY <2>1
    DEF Serve, RequestStep, Acquire, FindDependencies, AddCached,
        CompleteCached, ReadPage, PushProject, NextProject, Enqueue, TypeOK
  <2>2. CASE \E r \in Request : Fail(r)
    BY <2>2
    DEF Fail, RequestFault, RequestDies, ReplyLost, FindDependenciesFails,
        PushFails, NextProject, requestVars, TypeOK
  <2> QED  BY <1>2, <2>1, <2>2
<1>3. CASE DrainTimeout
  BY <1>3 DEF DrainTimeout, TypeOK
<1>4. CASE UNCHANGED requestVars
  BY <1>4 DEF requestVars
<1>5. CASE \E w \in Worker : \/ Work(w) \/ WorkFails(w) \/ SignalWorker(w)
                             \/ StopWorker(w) \/ ShutdownTimeout(w) \/ StartWorker(w)
  <2> SUFFICES UNCHANGED requestVars
    BY <1>4
  <2>1. CASE \E w \in Worker : Work(w) \/ ScanGoesOn(w)
    BY <2>1, WorkerKeeps DEF Work, ScanGoesOn, WorkerStep
  <2>2. CASE \E w \in Worker : WorkFails(w)
    BY <2>2
    DEF WorkFails, WorkerFault, WorkerDies, TakeRetried, MarkFails,
        ProcessFails, NoRequest
  <2>3. CASE \E w \in Worker :
                \/ CallCancelled(w) \/ MarkCancelled(w) \/ StatementCancelled(w)
                \/ ShutdownTimeout(w)
    BY <2>3
    DEF CallCancelled, MarkCancelled, StatementCancelled, ShutdownTimeout, NoRequest
  <2>4. CASE \E w \in Worker : SignalWorker(w) \/ Stopped(w) \/ StartWorker(w)
    BY <2>4 DEF SignalWorker, Stopped, StartWorker, vars
  <2> QED  BY <1>5, <2>1, <2>2, <2>3, <2>4 DEF StopWorker
<1>6. CASE SignalApi \/ Drained \/ StartApi \/ UNCHANGED processVars
  BY <1>4, <1>6 DEF SignalApi, Drained, StartApi, processVars, vars
<1> QED  BY <1>1, <1>2, <1>3, <1>5, <1>6 DEF ProcessNext

LEMMA LossStep ==
    ASSUME TypeOK, LifeOK, LossInv, [ProcessNext]_processVars
    PROVE  LossInv'
<1>1. FirstPages'
  BY FirstPagesStep DEF LossInv
<1>2. TypeOK' /\ LifeOK'
  BY ProcessStepType, LifeStep
<1>3. faults \in Nat /\ hits \in Nat
  BY BoundsAssumption, SignalsAssumption DEF TypeOK, LifeOK
<1>4. faults' \in Nat /\ hits' \in Nat
  BY <1>2, BoundsAssumption, SignalsAssumption DEF TypeOK, LifeOK
<1> SUFFICES ASSUME NEW s \in SearchID
             PROVE  Marked(s)' /\ \A r \in Request : Paid(r, s)'
  BY <1>1 DEF LossInv
<1>5. CASE \E r \in Request, t \in SearchID : Accept(r, t)
  BY <1>3, <1>5, RequestPays DEF Accept, lifeVars
<1>6. CASE \E r \in Request : Serve(r) \/ Fail(r)
  BY <1>3, <1>6, RequestPays DEF Serve, Fail, lifeVars
<1>7. ASSUME TollOf(s), UNCHANGED requestVars
      PROVE  Marked(s)' /\ \A r \in Request : Paid(r, s)'
  BY <1>3, <1>4, <1>7, OthersPay DEF requestVars
<1>8. CASE \E w \in Worker : Work(w) \/ ScanGoesOn(w)
  BY <1>7, <1>8, WorkToll
<1>9. CASE \E w \in Worker : WorkFails(w)
  BY <1>7, <1>9, WorkFailsToll
<1>10. CASE \E w \in Worker :
               \/ CallCancelled(w) \/ MarkCancelled(w) \/ StatementCancelled(w)
               \/ ShutdownTimeout(w)
  BY <1>7, <1>10, InterruptedToll
<1>11. CASE \E w \in Worker : SignalWorker(w) \/ Stopped(w) \/ StartWorker(w)
  <2>1. UNCHANGED vars
    BY <1>11 DEF SignalWorker, Stopped, StartWorker
  <2> QED  BY <1>7, <1>11, <2>1, LifeToll
<1>12. CASE SignalApi \/ Drained \/ StartApi \/ UNCHANGED processVars
  <2>1. UNCHANGED vars /\ UNCHANGED <<life, hits>>
    BY <1>12 DEF SignalApi, Drained, StartApi, processVars, lifeVars
  <2> QED  BY <1>7, <2>1, LifeToll
<1>13. CASE DrainTimeout
  <2>1. /\ UNCHANGED <<workerVars, handled, queue, life, hits>> /\ faults' >= faults
        /\ \A r \in Request :
               /\ rsid'[r] = rsid[r] /\ rpage'[r] = rpage[r] /\ rtodo'[r] = rtodo[r]
               /\ rpc'[r] = rpc[r] \/ rpc'[r] = "error"
    BY <1>3, <1>13 DEF DrainTimeout, Fault, NoWorker, storageVars
  <2>2. TollOf(s)
    BY <2>1, RequestToll
  <2> QED  BY <1>3, <1>4, <2>1, <2>2, OthersPay
<1> QED
  BY <1>5, <1>6, <1>8, <1>9, <1>10, <1>11, <1>12, <1>13
  DEF ProcessNext, StopWorker

\* A failure costs a listed search at most the branches of one project, and a
\* signal at most the branch the worker holds, through any stop and restart of
\* the API and of any number of workers.
THEOREM LossBoundCorrect == ProcessSpec => []LossBound
<1>1. ProcessInit => TypeOK /\ LifeOK /\ LossInv
  <2> SUFFICES ASSUME ProcessInit
               PROVE  TypeOK /\ LifeOK /\ LossInv
    OBVIOUS
  <2>1. TypeOK /\ LifeOK
    BY InitType, SignalsAssumption
    DEF ProcessInit, LifeOK, WorkerLife, ApiLife, Init
  <2>2. \A s \in SearchID : Doomed(s) = {}
    BY DEF ProcessInit, Doomed
  <2>3. FirstPages /\ \A r \in Request : rpc[r] \notin Listing
    BY DEF ProcessInit, Init, FirstPages, Listing
  <2>4. hits = 0
    BY DEF ProcessInit
  <2>5. \A s \in SearchID : Marked(s)
    BY <2>2, <2>4, FS_EmptySet DEF Marked
  <2> QED  BY <2>1, <2>3, <2>5 DEF LossInv, Paid
<1>2. TypeOK /\ LifeOK /\ LossInv /\ [ProcessNext]_processVars
      => TypeOK' /\ LifeOK' /\ LossInv'
  BY ProcessStepType, LifeStep, LossStep
<1>3. TypeOK /\ LifeOK /\ LossInv => LossBound
  <2> SUFFICES ASSUME TypeOK, LifeOK, LossInv, NEW s \in SearchID, Listed(s)
               PROVE  Cardinality(AllBranches \ Accounted(s)) <= faults * Widest + hits
    BY DEF LossBound, Accounted
  <2>1. PICK r \in Request : rsid[r] = s /\ rpc[r] = "listed"
    BY DEF Listed
  <2>2. PICK k \in 0..Len(Catalog) :
            /\ At(rpc[r], rpage[r], rtodo[r], k)
            /\ Within(Gone(k, s), Doomed(s), faults, hits)
    BY <2>1 DEF LossInv, Paid, Listing
  <2>3. Gone(k, s) = AllBranches \ Accounted(s)
    BY <2>1, <2>2, UpToAll DEF At, Gone
  <2> DEFINE G == AllBranches \ Accounted(s)
             c == faults * Widest
  <2>4. Cardinality(G) + Cardinality(Doomed(s)) <= c + hits
    BY <2>2, <2>3 DEF Within
  <2>5. Cardinality(G) \in Nat /\ Cardinality(Doomed(s)) \in Nat
    <3>1. G \in SUBSET AllBranches
      OBVIOUS
    <3>2. IsFiniteSet(G) /\ IsFiniteSet(Doomed(s))
      BY <3>1, FiniteBranches, FS_Subset DEF LossInv, Marked
    <3> QED  BY <3>2, FS_CardinalityType
  <2>6. c \in Nat /\ hits \in Nat
    BY BoundsAssumption, SignalsAssumption, WidestBounds, Products
    DEF TypeOK, LifeOK
  <2> HIDE DEF G, c
  <2>7. Cardinality(G) <= c + hits
    BY <2>4, <2>5, <2>6
  <2> QED  BY <2>7 DEF G, c
<1> QED  BY <1>1, <1>2, <1>3, PTL DEF ProcessSpec

=============================================================================
