-------------------------- MODULE SearchProcesses --------------------------
(***************************************************************************)
(* The processes that PackageSearch runs in.  Every worker is the only one *)
(* of a process of cmd/searchprocessing; all requests run in the process   *)
(* of cmd/api.  A signal (a deployment, a docker stop) cancels the context *)
(* of a worker's Execute in the middle of its work, and closes the API's   *)
(* listener while the requests that run go on.  What has exited may be     *)
(* started again, by an operator or by docker, or never: docker restarts   *)
(* no container that it was told to stop.                                  *)
(*                                                                         *)
(* A call that is in flight when the signal comes is one that had ended    *)
(* before: only the calls after the signal find the context cancelled.     *)
(* No key of Redis expires here.                                           *)
(***************************************************************************)
EXTENDS PackageSearch

CONSTANTS MaxSignals    \* bound on signals to workers and to the API

ASSUME SignalsAssumption == MaxSignals \in Nat

VARIABLES
    life,      \* each worker's process
    api,       \* the API's process
    signals,   \* signals so far
    hits       \* history: signals to workers that held a branch

lifeVars == <<life, api, signals, hits>>
processVars == <<vars, lifeVars>>

WorkerLife == {"up", "stopping", "down"}
ApiLife == {"up", "draining", "down"}

ProcessTypeOK ==
    /\ TypeOK
    /\ life \in [Worker -> WorkerLife]
    /\ \A w \in Worker : life[w] = "down" => wpc[w] = "poll"
    /\ api \in ApiLife
    /\ signals \in 0..MaxSignals /\ hits \in 0..signals

ProcessInit ==
    /\ Init
    /\ life = [w \in Worker |-> "up"]
    /\ api = "up"
    /\ signals = 0
    /\ hits = 0

Running(r) == rpc[r] \in {"acquire"} \cup Owning

----------------------------------------------------------------------------
(* Work as usual.                                                          *)

Serve(r) == api # "down" /\ RequestStep(r) /\ UNCHANGED lifeVars
Fail(r) == api # "down" /\ RequestFault(r) /\ UNCHANGED lifeVars
Accept(r, s) == api = "up" /\ Arrive(r, s) /\ UNCHANGED lifeVars

Work(w) == life[w] = "up" /\ WorkerStep(w) /\ UNCHANGED lifeVars
WorkFails(w) == life[w] = "up" /\ WorkerFault(w) /\ UNCHANGED lifeVars

----------------------------------------------------------------------------
(* A worker's process.                                                     *)

SignalSent ==
    /\ signals < MaxSignals
    /\ signals' = signals + 1

SignalWorker(w) ==
    /\ life[w] = "up"
    /\ life' = [life EXCEPT ![w] = "stopping"]
    /\ SignalSent
    /\ hits' = IF wpc[w] \in Holding THEN hits + 1 ELSE hits
    /\ UNCHANGED <<vars, api>>

\* Mistake: the pop does not take the context of Execute.
PoppedAllTheSame(w) ==
    /\ life[w] = "stopping"
    /\ wpc[w] \in {"details", "pop", "complete", "status", "report"}
    /\ Return(w)
    /\ IF wpc[w] = "pop" /\ queue[wsid[w]] # << >>
       THEN GetProjectFromQueue(wsid[w]) ELSE UNCHANGED storageVars
    /\ UNCHANGED <<handled, dbVars, budgetVars, lifeVars>> /\ NoRequest

\* The context is cancelled: the call to Redis returns its error, and Execute
\* returns it; a report that fails leaves the branch where nobody finds it.
CallCancelled(w) ==
    /\ life[w] = "stopping"
    /\ wpc[w] \in {"details", "pop", "complete", "status", "report"}
    /\ Return(w)
    /\ UNCHANGED <<handled, storageVars, dbVars, budgetVars, lifeVars>>
    /\ NoRequest

\* The failed write of "processing" is logged, and the branch scanned.
MarkCancelled(w) ==
    /\ life[w] = "stopping"
    /\ WorkStep(w, "mark", "scan")
    /\ UNCHANGED <<wsid, witem, handled, storageVars, dbVars, budgetVars, lifeVars>>
    /\ NoRequest

\* The calls to GitLab are made without the context and still succeed.
ScanGoesOn(w) ==
    /\ life[w] = "stopping"
    /\ ScanNothing(w) \/ ScanFinds(w)
    /\ UNCHANGED lifeVars

\* Mistake: a statement that is refused is tried again, with the same context.
StatementRetried(w) ==
    /\ life[w] = "stopping"
    /\ wpc[w] \in {"lookup", "create", "attach"}
    /\ UNCHANGED processVars

\* A statement that is refused with the context is a failure to report.
StatementCancelled(w) ==
    /\ life[w] = "stopping"
    /\ wpc[w] \in {"lookup", "create", "attach"}
    /\ wpc' = [wpc EXCEPT ![w] = "report"]
    /\ UNCHANGED <<wsid, witem, handled, storageVars, dbVars, budgetVars, lifeVars>>
    /\ NoRequest

\* processJobs sees that the context is done, and Run returns.
Stopped(w) ==
    /\ life[w] = "stopping" /\ wpc[w] = "poll"
    /\ life' = [life EXCEPT ![w] = "down"]
    /\ UNCHANGED <<vars, api, signals, hits>>

\* awaitShutdown gives up, and the process exits wherever Execute is.
ShutdownTimeout(w) ==
    /\ Fault
    /\ life[w] = "stopping" /\ wpc[w] # "poll"
    /\ life' = [life EXCEPT ![w] = "down"]
    /\ Return(w)
    /\ UNCHANGED <<handled, storageVars, dbVars, api, signals, hits>> /\ NoRequest

StartWorker(w) ==
    /\ life[w] = "down"
    /\ life' = [life EXCEPT ![w] = "up"]
    /\ UNCHANGED <<vars, api, signals, hits>>

StopWorker(w) ==
    \/ CallCancelled(w) \/ MarkCancelled(w) \/ ScanGoesOn(w)
    \/ StatementCancelled(w) \/ Stopped(w)

----------------------------------------------------------------------------
(* The API's process.                                                      *)

\* Shutdown closes the listener; the handlers keep their contexts.
SignalApi ==
    /\ api = "up"
    /\ api' = "draining"
    /\ SignalSent
    /\ UNCHANGED <<vars, life, hits>>

\* Mistake: main returns without waiting for the handlers.
DrainedAtOnce ==
    /\ api = "draining"
    /\ api' = "down"
    /\ rpc' = [r \in Request |-> IF Running(r) THEN "error" ELSE rpc[r]]
    /\ UNCHANGED <<rsid, rpage, rtodo, storageVars, dbVars, budgetVars>>
    /\ UNCHANGED <<life, signals, hits>> /\ NoWorker

\* No connection is active any more.
Drained ==
    /\ api = "draining" /\ \A r \in Request : ~Running(r)
    /\ api' = "down"
    /\ UNCHANGED <<vars, life, signals, hits>>

\* The shutdown's own context runs out: "server forced to shutdown".
DrainTimeout ==
    /\ Fault
    /\ api = "draining" /\ \E r \in Request : Running(r)
    /\ api' = "down"
    /\ rpc' = [r \in Request |-> IF Running(r) THEN "error" ELSE rpc[r]]
    /\ UNCHANGED <<rsid, rpage, rtodo, storageVars, dbVars>>
    /\ UNCHANGED <<life, signals, hits>> /\ NoWorker

StartApi ==
    /\ api = "down"
    /\ api' = "up"
    /\ UNCHANGED <<vars, life, signals, hits>>

----------------------------------------------------------------------------

ProcessNext ==
    \/ \E r \in Request, s \in SearchID : Accept(r, s)
    \/ \E r \in Request : Serve(r) \/ Fail(r)
    \/ \E w \in Worker : Work(w) \/ WorkFails(w)
    \/ \E w \in Worker : \/ SignalWorker(w) \/ StopWorker(w)
                         \/ ShutdownTimeout(w) \/ StartWorker(w)
    \/ SignalApi \/ Drained \/ DrainTimeout \/ StartApi

ProcessSpec == ProcessInit /\ [][ProcessNext]_processVars

\* As for PackageSearch, while the process is up; a worker that was signalled
\* goes on to the end of its Execute.  Nobody has to start what has exited.
ProcessFairness ==
    /\ \A r \in Request : WF_processVars(Serve(r))
    /\ \A w \in Worker :
            WF_processVars(Work(w) \/ StopWorker(w))
    /\ WF_processVars(Drained)

FairProcessSpec == ProcessSpec /\ ProcessFairness

----------------------------------------------------------------------------
(* What stopping and starting may not break.                               *)

\* A failure costs a listed search at most the branches of one project, and a
\* signal at most the one branch that the worker holds: the rest is waiting,
\* in hand or settled, through any stop and restart.
LossBound ==
    \A s \in SearchID : Listed(s) =>
        Cardinality(AllBranches \ (Waiting(s) \cup InHand(s) \cup handled[s]))
            <= faults * Widest + hits

\* A deployment of the API orphans no search: as long as nothing fails or
\* times out, a pending search has a request that goes on listing it, or is
\* where the workers find it.
DrainedIsServed ==
    faults = 0 =>
        \A s \in SearchID : status[s] = "pending" => Served(s)

\* A process that is told to stop exits ("blocks until the context is
\* cancelled"), whatever it was doing and although the others keep the queue
\* filled, before any timeout has to end it: Execute runs out of calls that
\* succeed, and the API of requests.
StopEnds ==
    /\ \A w \in Worker : life[w] = "stopping" ~> life[w] # "stopping"
    /\ api = "draining" ~> api # "draining"

=============================================================================
