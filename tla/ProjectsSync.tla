---------------------------- MODULE ProjectsSync ----------------------------
(***************************************************************************)
(* The periodic sync of GitLab projects into the tables of ProjectTables.  *)
(* Worker.processJobs runs Command.Execute, rests for an interval, and runs *)
(* it again.  Execute asks for the number of pages and starts a goroutine  *)
(* per page, two at a time; each goroutine walks the projects of its page. *)
(* Meanwhile API calls create and delete branches and projects, and the    *)
(* listing in GitLab changes, newest project first.                        *)
(***************************************************************************)
EXTENDS ProjectTables, Sequences

CONSTANTS
    DefaultBranch,  \* the default branch of each project in GitLab
    FirstListing,   \* the projects GitLab lists at the start
    FirstLanguages, \* the package types of each project's languages at the start
    LaterLanguages, \* and once its languages have changed
    PerPage,        \* projects per page (100 in the code)
    Slots,          \* capacity of the semaphore (2 in the code)
    Call,           \* API calls that change branches or projects
    CallProject,    \* the projects they are about
    CallName,       \* the branch names they ask for
    MaxEvents       \* bound on changes in GitLab, shutdown signals and failures

ASSUME ProjectsFinite == IsFiniteSet(Project)
ASSUME GitLabAssumption ==
    /\ DefaultBranch \in [Project -> Name]
    /\ FirstListing \in Seq(Project)
    /\ \A i, j \in 1..Len(FirstListing) :
            FirstListing[i] = FirstListing[j] => i = j
    /\ FirstLanguages \in [Project -> SUBSET PackageType]
    /\ LaterLanguages \in [Project -> SUBSET PackageType]
ASSUME SizesAssumption == PerPage \in Nat \ {0} /\ Slots \in Nat \ {0}
ASSUME CallAssumption == CallProject \subseteq Project /\ CallName \subseteq Name
ASSUME BoundAssumption == MaxEvents \in Nat

VARIABLES
    listing,    \* GitLab: the projects, in the order of its pages
    languages,  \* GitLab: each project's languages, mapped to package types
    spc,        \* where the worker is in Execute, "rest" between two runs
    total,      \* the number of pages it was told
    page,       \* the page it starts next
    slots,      \* elements in the semaphore channel
    cancelled,  \* is the context cancelled?
    gpc,        \* where the goroutine of each page is in checkProjectsChunk
    gtodo,      \* the projects it has still to process
    gtypes,     \* the package types it found for the first of them
    cpc,        \* where each API call is
    carg,       \* the branch it is about
    partial,    \* history: projects stored without a type whose lookup failed
    broken,     \* history: projects left without their branch, until the sync
                \* takes them up again
    events,     \* changes, signals and failures so far
    faults      \* the failures among them

gitlabVars == <<listing, languages>>
mainVars == <<spc, total, page, cancelled>>
chunkVars == <<gpc, gtodo, gtypes>>
callVars == <<cpc, carg>>
history == <<partial, broken>>
bounds == <<events, faults>>
vars == <<tableVars, gitlabVars, mainVars, slots, chunkVars, callVars, history, bounds>>

Page == 1..Cardinality(Project)
Running == {g \in Page : gpc[g] # "none"}
Listed == {listing[i] : i \in 1..Len(listing)}
CallArg == [id : Nat, project : Project, name : Name]
NoArg == [id |-> 0]

Writing == {"upsert", "find", "create", "types"}
ChunkPC == {"none", "list", "languages", "end"} \cup Writing
\* UpsertWithDefaultBranch has stored the project, and not yet its branch.
Branching(g, p) == gpc[g] \in {"find", "create"} /\ Head(gtodo[g]) = p

TypeOK ==
    /\ TablesTypeOK
    /\ listing \in Seq(Project)
    /\ languages \in [Project -> SUBSET PackageType]
    /\ spc \in {"rest", "total", "spawn", "wait", "down"}
    /\ total \in 0..Cardinality(Project)
    /\ page \in 1..Cardinality(Project) + 1
    /\ slots = Cardinality(Running) /\ slots <= Slots
    /\ cancelled \in BOOLEAN
    /\ gpc \in [Page -> ChunkPC]
    /\ gtodo \in [Page -> Seq(Project)]
    /\ \A g \in Page : gpc[g] \in {"languages"} \cup Writing => gtodo[g] # << >>
    /\ gtypes \in [Page -> SUBSET PackageType]
    /\ cpc \in [Call -> {"idle", "find", "create", "lookup", "delete", "answered"}]
    /\ carg \in [Call -> CallArg \cup {NoArg}]
    /\ partial \subseteq Project /\ broken \subseteq Project
    /\ events \in 0..MaxEvents /\ faults \in 0..events

Init ==
    /\ TablesInit
    /\ listing = FirstListing
    /\ languages = FirstLanguages
    /\ spc = "total" /\ total = 0 /\ page = 1 /\ slots = 0 /\ cancelled = FALSE
    /\ gpc = [g \in Page |-> "none"]
    /\ gtodo = [g \in Page |-> << >>]
    /\ gtypes = [g \in Page |-> {}]
    /\ cpc = [c \in Call |-> "idle"]
    /\ carg = [c \in Call |-> NoArg]
    /\ partial = {} /\ broken = {}
    /\ events = 0 /\ faults = 0

Event == events < MaxEvents /\ events' = events + 1

----------------------------------------------------------------------------
(* Worker.processJobs and Command.Execute.                                 *)

MainStep(from, to) == spc = from /\ spc' = to

NoChunk == UNCHANGED <<tableVars, slots, chunkVars, history>>
Outside == UNCHANGED <<gitlabVars, callVars, bounds>>

\* Mistake: the cancelled context is not looked at.
RestedRegardless ==
    /\ MainStep("rest", "total")
    /\ UNCHANGED <<total, page, cancelled>> /\ NoChunk /\ Outside

\* The interval is over.  A cancelled context ends the loop instead.
Rested ==
    /\ MainStep("rest", IF cancelled THEN "down" ELSE "total")
    /\ UNCHANGED <<total, page, cancelled>> /\ NoChunk /\ Outside

\* Mistake: the remainder makes no page of its own.
FullPages == Len(listing) \div PerPage
TotalPages == (Len(listing) + PerPage - 1) \div PerPage

ReadTotal ==
    /\ MainStep("total", "spawn")
    /\ total' = TotalPages
    /\ page' = 1
    /\ UNCHANGED cancelled /\ NoChunk /\ Outside

Spawn ==
    /\ spc = "spawn" /\ page <= total
    /\ slots < Slots
    /\ slots' = slots + 1
    /\ gpc' = [gpc EXCEPT ![page] = "list"]
    /\ page' = page + 1
    /\ UNCHANGED <<spc, total, cancelled, gtodo, gtypes, tableVars, history>>
    /\ Outside

\* After the last page, or when the context is cancelled while the loop waits
\* for a slot, Execute waits for the goroutines it has started.
StopSpawning ==
    /\ MainStep("spawn", "wait")
    /\ page > total \/ cancelled
    /\ UNCHANGED <<total, page, cancelled>> /\ NoChunk /\ Outside

\* wg.Wait, and Execute returns.
WaitForChunks ==
    /\ MainStep("wait", "rest")
    /\ Running = {}
    /\ total' = 0 /\ page' = 1
    /\ UNCHANGED cancelled /\ NoChunk /\ Outside

\* SIGTERM or SIGINT.
Signal ==
    /\ Event /\ UNCHANGED faults
    /\ spc # "down" /\ ~cancelled
    /\ cancelled' = TRUE
    /\ UNCHANGED <<spc, total, page, gitlabVars, callVars>> /\ NoChunk

\* The process is gone, and its goroutines with it.
Exit ==
    /\ spc # "down" /\ spc' = "down"
    /\ slots' = 0
    /\ total' = 0 /\ page' = 1
    /\ gpc' = [g \in Page |-> "none"]
    /\ gtodo' = [g \in Page |-> << >>]
    /\ gtypes' = [g \in Page |-> {}]
    /\ broken' = broken \cup {p \in Project : \E g \in Page : Branching(g, p)}
    /\ UNCHANGED <<cancelled, partial, tableVars, gitlabVars, callVars>>

\* awaitShutdown gives up: the job is still running after ShutdownDelay.
ShutdownTimeout == cancelled /\ Exit /\ UNCHANGED bounds

Start ==
    /\ MainStep("down", "total")
    /\ cancelled' = FALSE
    /\ UNCHANGED <<total, page>> /\ NoChunk /\ Outside

MainAction ==
    Rested \/ ReadTotal \/ Spawn \/ StopSpawning \/ WaitForChunks

----------------------------------------------------------------------------
(* Command.checkProjectsChunk for the page of one goroutine.               *)

ChunkStep(g, from, to) ==
    /\ gpc[g] = from
    /\ gpc' = [gpc EXCEPT ![g] = to]

\* What follows a project, whatever became of it.
NextProject(g) ==
    /\ gpc' = [gpc EXCEPT ![g] = IF Tail(gtodo[g]) = << >> THEN "end"
                                 ELSE "languages"]
    /\ gtodo' = [gtodo EXCEPT ![g] = Tail(@)]
    /\ gtypes' = [gtypes EXCEPT ![g] = {}]
    /\ broken' = broken \cup {p \in Project : Branching(g, p)}

NoMain == UNCHANGED <<mainVars, slots>>

\* Mistake: a page begins with the last project of the one before.
OverlappingPage(g) ==
    SubSeq(listing, IF g = 1 THEN 1 ELSE (g - 1) * PerPage,
           IF g * PerPage < Len(listing) THEN g * PerPage ELSE Len(listing))

ListingPage(g) ==
    SubSeq(listing, (g - 1) * PerPage + 1,
           IF g * PerPage < Len(listing) THEN g * PerPage ELSE Len(listing))

\* The context goes along with the request for the page.
ListProjects(g) ==
    LET found == IF cancelled THEN << >> ELSE ListingPage(g)
    IN /\ ChunkStep(g, "list", IF found = << >> THEN "end" ELSE "languages")
       /\ gtodo' = [gtodo EXCEPT ![g] = found]
       /\ UNCHANGED <<gtypes, tableVars, history>> /\ NoMain /\ Outside

\* The context does not go along with the request for the languages, so a
\* cancelled chunk asks for those of all its projects.
GetProjectLanguages(g) ==
    /\ ChunkStep(g, "languages", "upsert")
    /\ languages[Head(gtodo[g])] # {}
    /\ gtypes' = [gtypes EXCEPT ![g] = languages[Head(gtodo[g])]]
    /\ UNCHANGED <<gtodo, tableVars, history>> /\ NoMain /\ Outside

NoSupportedLanguage(g) ==
    /\ gpc[g] = "languages" /\ languages[Head(gtodo[g])] = {}
    /\ NextProject(g)
    /\ UNCHANGED <<partial, tableVars>> /\ NoMain /\ Outside

UpsertProject(g) ==
    /\ ChunkStep(g, "upsert", "find") /\ ~cancelled
    /\ UpSert(Head(gtodo[g]))
    /\ broken' = broken \ {Head(gtodo[g])}
    /\ UNCHANGED <<gtodo, gtypes, partial>> /\ NoMain /\ Outside

FindBranch(g) ==
    LET p == Head(gtodo[g])
    IN /\ ChunkStep(g, "find",
                    IF BranchExists(p, DefaultBranch[p]) THEN "types" ELSE "create")
       /\ ~cancelled
       /\ UNCHANGED <<gtodo, gtypes, tableVars, history>> /\ NoMain /\ Outside

CreateDefaultBranch(g) ==
    LET p == Head(gtodo[g])
    IN /\ ChunkStep(g, "create", "types") /\ ~cancelled
       /\ CreateBranchRow(p, DefaultBranch[p])
       /\ UNCHANGED <<gtodo, gtypes, history>> /\ NoMain /\ Outside

WriteTypes(g) ==
    /\ gpc[g] = "types" /\ ~cancelled
    /\ SyncPackageTypes(Head(gtodo[g]), gtypes[g])
    /\ partial' = partial \ {Head(gtodo[g])}
    /\ NextProject(g)
    /\ NoMain /\ Outside

\* A statement fails under a cancelled context, and on the foreign key if an
\* API call has deleted the project meanwhile.  The error is logged.
StatementRefused(g) ==
    /\ gpc[g] \in Writing
    /\ \/ cancelled
       \/ gpc[g] \in {"create", "types"} /\ Head(gtodo[g]) \notin projects
    /\ NextProject(g)
    /\ UNCHANGED <<partial, tableVars>> /\ NoMain /\ Outside

\* Mistake: the slot is not given back.
FinishKeepingSlot(g) ==
    /\ ChunkStep(g, "end", "none")
    /\ UNCHANGED <<slots, gtodo, gtypes, tableVars, mainVars, history>> /\ Outside

\* The two deferred calls: a slot is free again, and wg.Done.
Finish(g) ==
    /\ ChunkStep(g, "end", "none")
    /\ slots' = slots - 1
    /\ UNCHANGED <<gtodo, gtypes, tableVars, mainVars, history>> /\ Outside

ChunkAction(g) ==
    \/ ListProjects(g) \/ GetProjectLanguages(g) \/ NoSupportedLanguage(g)
    \/ UpsertProject(g) \/ FindBranch(g) \/ CreateDefaultBranch(g)
    \/ WriteTypes(g) \/ StatementRefused(g) \/ Finish(g)

----------------------------------------------------------------------------
(* API calls: CreateBranch, DeleteBranch, DeleteProject.                   *)

CallStep(c, from, to) ==
    /\ cpc[c] = from
    /\ cpc' = [cpc EXCEPT ![c] = to]

NoSync == UNCHANGED <<gitlabVars, mainVars, slots, chunkVars, partial, bounds>>

AskCreate(c, p, n) ==
    /\ CallStep(c, "idle", "find")
    /\ carg' = [carg EXCEPT ![c] = [id |-> 0, project |-> p, name |-> n]]
    /\ UNCHANGED <<tableVars, broken>> /\ NoSync

\* "branch already exists", or go on to create it.
FindForCreate(c) ==
    /\ CallStep(c, "find", IF BranchExists(carg[c].project, carg[c].name)
                           THEN "answered" ELSE "create")
    /\ UNCHANGED <<carg, tableVars, broken>> /\ NoSync

Create(c) ==
    /\ CallStep(c, "create", "answered")
    /\ CreateBranchRow(carg[c].project, carg[c].name)
    /\ UNCHANGED <<carg, broken>> /\ NoSync

CreateRefused(c) ==
    /\ CallStep(c, "create", "answered")
    /\ carg[c].project \notin projects
    /\ UNCHANGED <<carg, tableVars, broken>> /\ NoSync

AskDelete(c, b) ==
    /\ CallStep(c, "idle", "lookup")
    /\ carg' = [carg EXCEPT ![c] = b]
    /\ UNCHANGED <<tableVars, broken>> /\ NoSync

GetByID(c) ==
    /\ CallStep(c, "lookup", IF \E b \in branches : b.id = carg[c].id
                             THEN "delete" ELSE "answered")
    /\ UNCHANGED <<carg, tableVars, broken>> /\ NoSync

Delete(c) ==
    /\ CallStep(c, "delete", "answered")
    /\ DeleteBranchRow(carg[c].id)
    /\ broken' = broken \cup {p \in Project :
            /\ BranchesOf(p) # {}
            /\ \A b \in BranchesOf(p) : b.id = carg[c].id}
    /\ UNCHANGED carg /\ NoSync

DeleteProject(c, p) ==
    /\ CallStep(c, "idle", "answered")
    /\ DeleteProjectRow(p)
    /\ UNCHANGED <<carg, broken>> /\ NoSync

CallAction(c) ==
    FindForCreate(c) \/ Create(c) \/ CreateRefused(c) \/ GetByID(c) \/ Delete(c)

----------------------------------------------------------------------------
(* GitLab, and failures.                                                   *)

News ==
    /\ Event /\ UNCHANGED faults
    /\ UNCHANGED <<callVars, mainVars>> /\ NoChunk

\* A new project is listed first and moves the others down.
NewProject(p) ==
    /\ News
    /\ p \notin Listed
    /\ listing' = <<p>> \o listing
    /\ UNCHANGED languages

NewLanguages(p) ==
    /\ News
    /\ languages' = [languages EXCEPT ![p] = LaterLanguages[p]]
    /\ UNCHANGED listing

Fault ==
    /\ Event /\ faults' = faults + 1
    /\ UNCHANGED <<gitlabVars, callVars>>

\* The error of the first request ends Execute.
TotalFails ==
    /\ Fault
    /\ MainStep("total", "rest")
    /\ UNCHANGED <<total, page, cancelled>> /\ NoChunk

ListFails(g) ==
    /\ Fault
    /\ ChunkStep(g, "list", "end")
    /\ UNCHANGED <<gtodo, gtypes, tableVars, history>> /\ NoMain

\* The error is logged and the project left as it is.
ProjectFails(g) ==
    /\ Fault
    /\ gpc[g] \in {"languages"} \cup Writing
    /\ NextProject(g)
    /\ UNCHANGED <<partial, tableVars>> /\ NoMain

\* A package type whose lookup fails is skipped, the others are written.
SomeTypesUnknown(g) ==
    /\ Fault
    /\ gpc[g] = "types" /\ ~cancelled
    /\ \E ts \in SUBSET gtypes[g] \ {{}, gtypes[g]} :
            SyncPackageTypes(Head(gtodo[g]), ts)
    /\ partial' = partial \cup {Head(gtodo[g])}
    /\ NextProject(g)
    /\ NoMain

\* The process dies: nothing recovers a panic in a goroutine of Execute.
Crash == Fault /\ Exit

----------------------------------------------------------------------------

Next ==
    \/ MainAction \/ Signal \/ ShutdownTimeout \/ Start
    \/ \E g \in Page : ChunkAction(g)
    \/ \E c \in Call : CallAction(c)
    \/ \E c \in Call, p \in CallProject, n \in CallName : AskCreate(c, p, n)
    \/ \E c \in Call, b \in branches : b.project \in CallProject /\ AskDelete(c, b)
    \/ \E c \in Call, p \in CallProject : DeleteProject(c, p)
    \/ \E p \in Project : NewProject(p) \/ NewLanguages(p)
    \/ TotalFails \/ Crash
    \/ \E g \in Page : ListFails(g) \/ ProjectFails(g) \/ SomeTypesUnknown(g)

Spec == Init /\ [][Next]_vars

\* The Go scheduler runs the main goroutine and every other one, and the HTTP
\* server every handler.  Nothing is assumed about a restart.
Fairness ==
    /\ WF_vars(MainAction)
    /\ \A g \in Page : WF_vars(ChunkAction(g))
    /\ \A c \in Call : WF_vars(CallAction(c))

FairSpec == Spec /\ Fairness

----------------------------------------------------------------------------
(* What the sync promises.                                                 *)

\* A project has one row per branch name ("branch already exists for this
\* project"): everybody looks before creating, and nothing else forbids a
\* second row.
BranchNamesUnique ==
    \A a, b \in branches : a.project = b.project /\ a.name = b.name => a = b

\* It is so while no page of GitLab's listing moves, one API call at a time asks
\* for a branch, and none for a default branch (the instance's Call and CallName):
\* then no two goroutines, of one run of the sync or of two, ever process the
\* same project.
UniqueUnlessRaced ==
    listing = FirstListing => BranchNamesUnique

\* Which stored projects a search may overlook, with failures, signals, crashes
\* and deletions anywhere.  While languages stay, each is offered for all its
\* package types, also between the statement that stores it and the one that
\* writes its types, unless the lookup of one of them failed.  And it has a
\* branch to scan, unless a goroutine is between its two statements
\* ("UpsertWithDefaultBranch"), or was broken off there, or a call has deleted
\* the last one; either way only until the sync takes the project up again.
NeverHidden ==
    \A p \in projects :
        /\ languages = FirstLanguages /\ p \notin partial =>
               \A t \in languages[p] : p \in Offered(t)
        /\ p \notin broken =>
               BranchesOf(p) # {} \/ \E g \in Page : Branching(g, p)

\* Each project GitLab lists with a supported language is stored sooner or
\* later with its default branch and exactly its types, and again after every
\* failure, deletion and change of languages, while the process is up.
Wanted(p) == p \in Listed /\ languages[p] # {}
Synced(p) ==
    /\ p \in projects
    /\ BranchExists(p, DefaultBranch[p])
    /\ types[p] = languages[p]
SyncedInTheEnd ==
    \A p \in Project : Wanted(p) ~> Synced(p) \/ ~Wanted(p) \/ spc = "down"

\* A shutdown signal ends the process, also when the loop waits for a slot.
SignalEnds == cancelled ~> spc = "down"

=============================================================================
