------------------------- MODULE ProjectsSyncProofs -------------------------
(* Theorems about ProjectsSync, for any projects, pages, slots, API calls  *)
(* and changes in GitLab.                                                  *)
EXTENDS ProjectsSync, FiniteSetTheorems, TLAPS

----------------------------------------------------------------------------
(* Types, and what the semaphore and the wait group hold.                  *)

N == Cardinality(Project)

GitLabOK ==
    /\ listing \in Seq(Project)
    /\ \A i, j \in 1..Len(listing) : listing[i] = listing[j] => i = j
    /\ languages \in [Project -> SUBSET PackageType]

MainOK ==
    /\ spc \in {"rest", "total", "spawn", "wait", "down"}
    /\ total \in 0..N /\ page \in 1..N + 1
    /\ cancelled \in BOOLEAN

ChunkOK ==
    /\ gpc \in [Page -> ChunkPC]
    /\ gtodo \in [Page -> Seq(Project)]
    /\ \A g \in Page : gpc[g] \in {"languages"} \cup Writing => gtodo[g] # << >>
    /\ gtypes \in [Page -> SUBSET PackageType]

\* A goroutine runs for a page that was started in this run of Execute only, and
\* holds one slot.
SlotsOK ==
    /\ slots = Cardinality(Running) /\ slots <= Slots
    /\ \A g \in Running : g < page
    /\ spc \in {"rest", "total", "down"} => Running = {}

CallsOK ==
    /\ cpc \in [Call -> {"idle", "find", "create", "lookup", "delete", "answered"}]
    /\ carg \in [Call -> CallArg \cup {NoArg}]
    /\ \A c \in Call : cpc[c] \in {"find", "create", "lookup", "delete"} => carg[c] \in CallArg

BoundsOK == events \in 0..MaxEvents /\ faults \in 0..events

SyncInv == TablesTypeOK /\ GitLabOK /\ MainOK /\ ChunkOK /\ SlotsOK /\ CallsOK /\ BoundsOK

LEMMA Sizes == N \in Nat /\ Page = 1..N /\ IsFiniteSet(Page)
<1>1. N \in Nat
  BY ProjectsFinite, FS_CardinalityType DEF N
<1> QED  BY <1>1, FS_Interval DEF Page, N

LEMMA RunningFinite == IsFiniteSet(Running) /\ Running \subseteq Page
BY Sizes, FS_Subset DEF Running

\* A listing names each project once, so it is no longer than there are projects.
LEMMA ListingFits == GitLabOK => Len(listing) \in 0..N
<1> SUFFICES ASSUME GitLabOK
             PROVE  Len(listing) \in 0..N
  OBVIOUS
<1> DEFINE f == [i \in 1..Len(listing) |-> listing[i]]
<1>1. Len(listing) \in Nat /\ f \in Injection(1..Len(listing), Project)
  BY DEF GitLabOK, Injection, IsInjective
<1> HIDE DEF f
<1>2. Cardinality(1..Len(listing)) <= N
  BY <1>1, ProjectsFinite, FS_Injection DEF N
<1>3. Cardinality(1..Len(listing)) = Len(listing)
  <2> DEFINE n == Len(listing)
  <2>1. n \in Int /\ n >= 0
    BY <1>1
  <2> HIDE DEF n
  <2>2. Cardinality(1..n) = IF 1 > n THEN 0 ELSE n - 1 + 1
    BY <2>1, FS_Interval
  <2> QED  BY <2>1, <2>2 DEF n
<1> QED  BY <1>1, <1>2, <1>3, Sizes

LEMMA DivFits ==
    ASSUME NEW n \in Nat, NEW k \in Nat \ {0}
    PROVE  (n + k - 1) \div k \in 0..n
<1> DEFINE q == (n + k - 1) \div k
<1>1. n + k - 1 \in Nat /\ k > 0
  OBVIOUS
<1>2. q \in Int /\ k * q <= n + k - 1 /\ n + k - 1 < k * q + k
  BY <1>1
<1> HIDE DEF q
<1>3. q >= 0
  <2> SUFFICES ASSUME q + 1 <= 0 PROVE FALSE
    BY <1>2
  <2>1. k * (q + 1) <= 0
    BY <1>2
  <2>2. k * (q + 1) = k * q + k
    BY <1>2
  <2> QED  BY <1>1, <1>2, <2>1, <2>2
<1>4. q <= n
  <2> SUFFICES ASSUME q >= n + 1 PROVE FALSE
    BY <1>2
  <2>1. k * (q - 1) >= n
    BY <1>2
  <2>2. k * (q - 1) = k * q - k
    BY <1>2
  <2> QED  BY <1>2, <2>1, <2>2
<1> QED  BY <1>2, <1>3, <1>4 DEF q

LEMMA PagesFit == GitLabOK => TotalPages \in 0..N
<1> SUFFICES ASSUME GitLabOK
             PROVE  TotalPages \in 0..N
  OBVIOUS
<1>1. Len(listing) \in 0..N /\ N \in Nat
  BY ListingFits, Sizes
<1>2. TotalPages \in 0..Len(listing)
  BY <1>1, SizesAssumption, DivFits DEF TotalPages
<1> QED  BY <1>1, <1>2

\* What leaves the variables of a part alone keeps it.
LEMMA Frames ==
    /\ TablesTypeOK /\ UNCHANGED tableVars => TablesTypeOK'
    /\ GitLabOK /\ UNCHANGED gitlabVars => GitLabOK'
    /\ MainOK /\ UNCHANGED mainVars => MainOK'
    /\ ChunkOK /\ UNCHANGED chunkVars => ChunkOK'
    /\ SlotsOK /\ UNCHANGED <<mainVars, slots, chunkVars>> => SlotsOK'
    /\ CallsOK /\ UNCHANGED callVars => CallsOK'
    /\ BoundsOK /\ UNCHANGED bounds => BoundsOK'
<1>1. TablesTypeOK /\ UNCHANGED tableVars => TablesTypeOK'
  BY DEF TablesTypeOK, tableVars
<1>2. GitLabOK /\ UNCHANGED gitlabVars => GitLabOK'
  BY DEF GitLabOK, gitlabVars
<1>3. MainOK /\ UNCHANGED mainVars => MainOK'
  BY DEF MainOK, mainVars
<1>4. ChunkOK /\ UNCHANGED chunkVars => ChunkOK'
  BY DEF ChunkOK, chunkVars
<1>5. SlotsOK /\ UNCHANGED <<mainVars, slots, chunkVars>> => SlotsOK'
  BY DEF SlotsOK, mainVars, chunkVars, Running
<1>6. CallsOK /\ UNCHANGED callVars => CallsOK'
  BY DEF CallsOK, callVars
<1>7. BoundsOK /\ UNCHANGED bounds => BoundsOK'
  BY DEF BoundsOK, bounds
<1> QED  BY <1>1, <1>2, <1>3, <1>4, <1>5, <1>6, <1>7

LEMMA EventOK == ASSUME BoundsOK, Event, faults' = faults \/ faults' = faults + 1 PROVE BoundsOK'
BY BoundAssumption DEF BoundsOK, Event

LEMMA SyncMain ==
    ASSUME SyncInv, MainAction
    PROVE  SyncInv'
<1>1. Outside /\ UNCHANGED tableVars
  BY DEF MainAction, Rested, ReadTotal, Spawn, StopSpawning, WaitForChunks, NoChunk
<1>2. TablesTypeOK' /\ GitLabOK' /\ CallsOK' /\ BoundsOK'
  BY <1>1, Frames DEF SyncInv, Outside
<1>3. MainOK /\ ChunkOK /\ SlotsOK /\ GitLabOK
  BY DEF SyncInv
<1>4. CASE Rested \/ ReadTotal \/ StopSpawning \/ WaitForChunks
  <2>1. UNCHANGED chunkVars /\ slots' = slots /\ Running' = Running
    BY <1>4 DEF Rested, ReadTotal, StopSpawning, WaitForChunks, NoChunk, chunkVars, Running
  <2>2. MainOK'
    BY <1>3, <1>4, PagesFit, Sizes
    DEF Rested, ReadTotal, StopSpawning, WaitForChunks, MainStep, MainOK
  <2>3. \/ page' = page
        \/ Running = {}
    BY <1>3, <1>4 DEF Rested, ReadTotal, StopSpawning, WaitForChunks, MainStep, SlotsOK
  <2>4. spc' \in {"rest", "total", "down"} => Running = {}
    BY <1>3, <1>4 DEF Rested, ReadTotal, StopSpawning, WaitForChunks, MainStep, SlotsOK
  <2>5. SlotsOK'
    BY <1>3, <2>1, <2>3, <2>4 DEF SlotsOK
  <2>6. ChunkOK'
    BY <1>3, <2>1, Frames
  <2> QED  BY <1>2, <2>2, <2>5, <2>6 DEF SyncInv
<1>5. CASE Spawn
  <2>1. page \in Page /\ page + 1 \in 1..N + 1 /\ N \in Nat
    BY <1>3, <1>5, Sizes DEF Spawn, MainOK
  <2>2. gpc' = [gpc EXCEPT ![page] = "list"] /\ UNCHANGED <<spc, gtodo, gtypes>>
        /\ slots' = slots + 1 /\ slots < Slots /\ page' = page + 1 /\ spc = "spawn"
    BY <1>5 DEF Spawn
  <2>3. page \notin Running
    BY <1>3, <2>1 DEF SlotsOK, MainOK
  <2>4. Running' = Running \cup {page}
    BY <1>3, <2>1, <2>2 DEF Running, ChunkOK, ChunkPC
  <2>5. Cardinality(Running') = slots + 1
    BY <1>3, <2>3, <2>4, RunningFinite, FS_AddElement DEF SlotsOK
  <2>6. SlotsOK'
    <3>1. slots \in Nat /\ Slots \in Nat
      BY <1>3, RunningFinite, FS_CardinalityType, SizesAssumption DEF SlotsOK
    <3>2. \A g \in Running' : g < page'
      BY <1>3, <2>1, <2>2, <2>4, RunningFinite, Sizes DEF SlotsOK, MainOK
    <3> QED  BY <2>2, <2>5, <3>1, <3>2 DEF SlotsOK
  <2>7. MainOK'
    BY <1>3, <1>5, <2>1 DEF Spawn, MainOK
  <2>8. ChunkOK'
    BY <1>3, <2>1, <2>2 DEF ChunkOK, ChunkPC, Writing
  <2> QED  BY <1>2, <2>6, <2>7, <2>8 DEF SyncInv
<1> QED  BY <1>4, <1>5 DEF MainAction

LEMMA ExitOK ==
    ASSUME SyncInv, Exit
    PROVE  TablesTypeOK' /\ GitLabOK' /\ MainOK' /\ ChunkOK' /\ SlotsOK' /\ CallsOK'
<1>1. TablesTypeOK' /\ GitLabOK' /\ CallsOK'
  BY Frames DEF Exit, SyncInv
<1>2. MainOK'
  BY Sizes DEF Exit, SyncInv, MainOK
<1>3. ChunkOK'
  BY DEF Exit, SyncInv, ChunkOK, ChunkPC, Writing
<1>4. Running' = {}
  BY DEF Exit, Running
<1>5. SlotsOK'
  BY <1>4, FS_EmptySet, SizesAssumption DEF Exit, SlotsOK
<1> QED  BY <1>1, <1>2, <1>3, <1>5

\* A goroutine that goes on keeps its slot.
LEMMA GoesOn ==
    ASSUME SyncInv, NEW g \in Page, gpc[g] # "none", NEW to, to # "none",
           gpc' = [gpc EXCEPT ![g] = to], NoMain
    PROVE  MainOK' /\ SlotsOK'
<1>1. MainOK'
  BY Frames DEF SyncInv, NoMain
<1>2. Running' = Running
  BY DEF SyncInv, ChunkOK, Running
<1> QED  BY <1>1, <1>2 DEF SyncInv, SlotsOK, NoMain, mainVars

LEMMA NextProjectOK ==
    ASSUME SyncInv, NEW g \in Page, NextProject(g), gpc[g] \in {"languages"} \cup Writing, NoMain
    PROVE  ChunkOK' /\ MainOK' /\ SlotsOK'
<1>1. ChunkOK /\ gtodo[g] \in Seq(Project) /\ gtodo[g] # << >>
  BY DEF SyncInv, ChunkOK
<1>2. Tail(gtodo[g]) \in Seq(Project)
  BY <1>1
<1>3. ChunkOK'
  BY <1>1, <1>2 DEF NextProject, ChunkOK, ChunkPC, Writing
<1>4. PICK to \in {"end", "languages"} : gpc' = [gpc EXCEPT ![g] = to]
  BY DEF NextProject
<1>5. MainOK' /\ SlotsOK'
  BY <1>4, GoesOn DEF Writing
<1> QED  BY <1>3, <1>5

LEMMA HeadKnown ==
    ASSUME SyncInv, NEW g \in Page, gpc[g] \in {"languages"} \cup Writing
    PROVE  Head(gtodo[g]) \in Project
BY DEF SyncInv, ChunkOK

LEMMA ListingPageType ==
    ASSUME SyncInv, NEW g \in Page
    PROVE  ListingPage(g) \in Seq(Project)
<1> DEFINE k == (g - 1) * PerPage
           m == IF g * PerPage < Len(listing) THEN g * PerPage ELSE Len(listing)
<1>1. g \in Nat /\ g - 1 \in Nat
  BY Sizes
<1>2. k \in Nat /\ g * PerPage \in Nat
  BY <1>1, SizesAssumption
<1>3. listing \in Seq(Project) /\ m \in 0..Len(listing)
  BY <1>2 DEF SyncInv, GitLabOK
<1>4. ListingPage(g) = SubSeq(listing, k + 1, m)
  BY DEF ListingPage
<1> HIDE DEF k, m
<1> QED  BY <1>2, <1>3, <1>4

LEMMA SyncChunk ==
    ASSUME SyncInv, NEW g \in Page,
           ChunkAction(g) \/ ListFails(g) \/ ProjectFails(g) \/ SomeTypesUnknown(g)
    PROVE  SyncInv'
<1>1. /\ TablesTypeOK /\ GitLabOK /\ MainOK /\ ChunkOK /\ SlotsOK /\ CallsOK /\ BoundsOK
  BY DEF SyncInv
<1>2. GitLabOK' /\ CallsOK' /\ BoundsOK'
  <2>1. UNCHANGED <<gitlabVars, callVars>>
    BY DEF ChunkAction, ListProjects, GetProjectLanguages, NoSupportedLanguage, UpsertProject,
           FindBranch, CreateDefaultBranch, WriteTypes, StatementRefused, Finish, Outside,
           ListFails, ProjectFails, SomeTypesUnknown, Fault
  <2>2. UNCHANGED bounds \/ (Event /\ faults' = faults + 1)
    BY DEF ChunkAction, ListProjects, GetProjectLanguages, NoSupportedLanguage, UpsertProject,
           FindBranch, CreateDefaultBranch, WriteTypes, StatementRefused, Finish, Outside,
           ListFails, ProjectFails, SomeTypesUnknown, Fault
  <2> QED  BY <1>1, <2>1, <2>2, Frames, EventOK
<1>3. ASSUME gpc[g] \in {"languages"} \cup Writing
      PROVE  Head(gtodo[g]) \in Project
  BY <1>3, HeadKnown
<1>4. TablesTypeOK'
  <2>1. CASE UNCHANGED tableVars
    BY <1>1, <2>1, Frames
  <2>2. CASE UpsertProject(g)
    BY <1>1, <1>3, <2>2 DEF UpsertProject, ChunkStep, UpSert, TablesTypeOK, Writing
  <2>3. CASE CreateDefaultBranch(g)
    <3>1. Head(gtodo[g]) \in Project
      BY <1>3, <2>3 DEF CreateDefaultBranch, ChunkStep, Writing
    <3>2. DefaultBranch[Head(gtodo[g])] \in Name
      BY <3>1, GitLabAssumption
    <3> QED
      BY <1>1, <2>3, <3>1, <3>2 DEF CreateDefaultBranch, CreateBranchRow, TablesTypeOK
  <2>4. CASE WriteTypes(g) \/ SomeTypesUnknown(g)
    <3>1. \E ts \in SUBSET gtypes[g] : SyncPackageTypes(Head(gtodo[g]), ts)
      BY <2>4 DEF WriteTypes, SomeTypesUnknown
    <3>2. gtypes[g] \in SUBSET PackageType
      BY <1>1 DEF ChunkOK
    <3> QED  BY <1>1, <3>1, <3>2 DEF SyncPackageTypes, TablesTypeOK
  <2> QED
    BY <2>1, <2>2, <2>3, <2>4
    DEF ChunkAction, ListProjects, GetProjectLanguages, NoSupportedLanguage, FindBranch,
        StatementRefused, Finish, ListFails, ProjectFails
<1>5. MainOK' /\ ChunkOK' /\ SlotsOK'
  <2>1. CASE ListProjects(g)
    <3> DEFINE found == IF cancelled THEN << >> ELSE ListingPage(g)
               to == IF found = << >> THEN "end" ELSE "languages"
    <3>1. /\ gpc[g] = "list" /\ gpc' = [gpc EXCEPT ![g] = to]
          /\ gtodo' = [gtodo EXCEPT ![g] = found] /\ gtypes' = gtypes /\ NoMain
      BY <2>1 DEF ListProjects, ChunkStep
    <3>2. /\ found \in Seq(Project) /\ to \in {"end", "languages"}
          /\ to = "languages" => found # << >>
      BY ListingPageType
    <3> HIDE DEF found, to
    <3>3. ChunkOK'
      BY <1>1, <3>1, <3>2 DEF ChunkOK, ChunkPC, Writing
    <3> QED  BY <3>1, <3>2, <3>3, GoesOn
  <2>2. CASE GetProjectLanguages(g)
    <3>1. /\ gpc[g] = "languages" /\ gpc' = [gpc EXCEPT ![g] = "upsert"] /\ gtodo' = gtodo
          /\ gtypes' = [gtypes EXCEPT ![g] = languages[Head(gtodo[g])]] /\ NoMain
      BY <2>2 DEF GetProjectLanguages, ChunkStep
    <3>2. languages[Head(gtodo[g])] \in SUBSET PackageType
      BY <1>1, <1>3, <3>1 DEF GitLabOK
    <3>3. ChunkOK'
      BY <1>1, <3>1, <3>2 DEF ChunkOK, ChunkPC, Writing
    <3> QED  BY <3>1, <3>3, GoesOn
  <2>3. CASE \/ NoSupportedLanguage(g) \/ WriteTypes(g) \/ StatementRefused(g)
             \/ ProjectFails(g) \/ SomeTypesUnknown(g)
    <3>1. NextProject(g) /\ gpc[g] \in {"languages"} \cup Writing /\ NoMain
      BY <2>3 DEF NoSupportedLanguage, WriteTypes, StatementRefused, ProjectFails,
                  SomeTypesUnknown, Writing
    <3> QED  BY <3>1, NextProjectOK
  <2>4. CASE UpsertProject(g) \/ FindBranch(g) \/ CreateDefaultBranch(g)
    <3>1. PICK to \in Writing :
              /\ gpc[g] \in Writing /\ gpc' = [gpc EXCEPT ![g] = to]
              /\ UNCHANGED <<gtodo, gtypes>> /\ NoMain
      BY <2>4 DEF UpsertProject, FindBranch, CreateDefaultBranch, ChunkStep, Writing
    <3>2. ChunkOK'
      BY <1>1, <3>1 DEF ChunkOK, ChunkPC, Writing
    <3> QED  BY <3>1, <3>2, GoesOn DEF Writing
  <2>5. CASE ListFails(g)
    <3>1. /\ gpc[g] = "list" /\ gpc' = [gpc EXCEPT ![g] = "end"]
          /\ UNCHANGED <<gtodo, gtypes>> /\ NoMain
      BY <2>5 DEF ListFails, ChunkStep
    <3>2. ChunkOK'
      BY <1>1, <3>1 DEF ChunkOK, ChunkPC, Writing
    <3> QED  BY <3>1, <3>2, GoesOn
  <2>6. CASE Finish(g)
    <3>1. /\ gpc[g] = "end" /\ gpc' = [gpc EXCEPT ![g] = "none"] /\ slots' = slots - 1
          /\ UNCHANGED <<gtodo, gtypes, mainVars>>
      BY <2>6 DEF Finish, ChunkStep
    <3>2. g \in Running /\ Running' = Running \ {g}
      BY <1>1, <3>1 DEF Running, ChunkOK
    <3>3. Cardinality(Running') = slots - 1 /\ slots \in Nat /\ Slots \in Nat
      BY <1>1, <3>2, RunningFinite, FS_RemoveElement, FS_CardinalityType, SizesAssumption
      DEF SlotsOK
    <3>4. SlotsOK'
      BY <1>1, <3>1, <3>2, <3>3 DEF SlotsOK, mainVars
    <3>5. ChunkOK'
      BY <1>1, <3>1 DEF ChunkOK, ChunkPC, Writing
    <3> QED  BY <1>1, <3>1, <3>4, <3>5, Frames
  <2> QED  BY <2>1, <2>2, <2>3, <2>4, <2>5, <2>6 DEF ChunkAction
<1> QED  BY <1>2, <1>4, <1>5 DEF SyncInv

LEMMA SyncCall ==
    ASSUME SyncInv, NEW c \in Call,
           \/ CallAction(c)
           \/ \E p \in CallProject, n \in CallName : AskCreate(c, p, n)
           \/ \E b \in branches : AskDelete(c, b)
           \/ \E p \in CallProject : DeleteProject(c, p)
    PROVE  SyncInv'
<1>1. TablesTypeOK /\ CallsOK
  BY DEF SyncInv
<1>2. NoSync
  BY DEF CallAction, FindForCreate, Create, CreateRefused, GetByID, Delete, AskCreate,
         AskDelete, DeleteProject
<1>3. GitLabOK' /\ MainOK' /\ ChunkOK' /\ SlotsOK' /\ BoundsOK'
  BY <1>2, Frames DEF NoSync, SyncInv
<1>4. TablesTypeOK'
  <2>1. CASE UNCHANGED tableVars
    BY <1>1, <2>1, Frames
  <2>2. CASE Create(c)
    <3>1. carg[c] \in CallArg
      BY <1>1, <2>2 DEF Create, CallStep, CallsOK
    <3> QED  BY <1>1, <2>2, <3>1 DEF Create, CreateBranchRow, CallArg, TablesTypeOK
  <2>3. CASE Delete(c)
    BY <1>1, <2>3 DEF Delete, DeleteBranchRow, TablesTypeOK
  <2>4. CASE \E p \in CallProject : DeleteProject(c, p)
    BY <1>1, <2>4 DEF DeleteProject, DeleteProjectRow, BranchesOf, TablesTypeOK
  <2> QED
    BY <2>1, <2>2, <2>3, <2>4
    DEF CallAction, FindForCreate, CreateRefused, GetByID, AskCreate, AskDelete
<1>5. CallsOK'
  <2>1. CASE CallAction(c)
    BY <1>1, <2>1 DEF CallAction, FindForCreate, Create, CreateRefused, GetByID, Delete,
                      CallStep, CallsOK
  <2>2. CASE \E p \in CallProject, n \in CallName : AskCreate(c, p, n)
    <3> PICK p \in CallProject, n \in CallName : AskCreate(c, p, n)
      BY <2>2
    <3>1. [id |-> 0, project |-> p, name |-> n] \in CallArg
      BY CallAssumption DEF CallArg
    <3> QED  BY <1>1, <3>1 DEF AskCreate, CallStep, CallsOK
  <2>3. CASE \E b \in branches : AskDelete(c, b)
    <3>1. branches \subseteq CallArg
      BY <1>1 DEF TablesTypeOK, CallArg
    <3> QED  BY <1>1, <2>3, <3>1 DEF AskDelete, CallStep, CallsOK
  <2>4. CASE \E p \in CallProject : DeleteProject(c, p)
    BY <1>1, <2>4 DEF DeleteProject, CallStep, CallsOK
  <2> QED  BY <2>1, <2>2, <2>3, <2>4
<1> QED  BY <1>3, <1>4, <1>5 DEF SyncInv

LEMMA SyncNews ==
    ASSUME SyncInv, NEW p \in Project, NewProject(p) \/ NewLanguages(p)
    PROVE  SyncInv'
<1>1. News /\ GitLabOK
  BY DEF NewProject, NewLanguages, SyncInv
<1>2. TablesTypeOK' /\ MainOK' /\ ChunkOK' /\ SlotsOK' /\ CallsOK' /\ BoundsOK'
  BY <1>1, Frames, EventOK DEF News, NoChunk, SyncInv
<1>3. CASE NewProject(p)
  <2> DEFINE q == <<p>> \o listing
  <2>1. listing' = q /\ p \notin Listed /\ languages' = languages
    BY <1>3 DEF NewProject
  <2>2. q \in Seq(Project) /\ Len(q) = Len(listing) + 1 /\ q[1] = p
        /\ \A i \in 1..Len(listing) : q[i + 1] = listing[i]
    BY <1>1 DEF GitLabOK
  <2> HIDE DEF q
  <2>3. \A i \in 1..Len(q) : i # 1 => i - 1 \in 1..Len(listing) /\ q[i] = listing[i - 1]
    BY <1>1, <2>2 DEF GitLabOK
  <2>4. \A i \in 1..Len(q) : i # 1 => q[i] # p
    BY <2>1, <2>3 DEF Listed
  <2>5. ASSUME NEW i \in 1..Len(q), NEW j \in 1..Len(q), q[i] = q[j]
        PROVE  i = j
    <3>1. CASE i = 1 \/ j = 1
      BY <2>2, <2>4, <2>5, <3>1
    <3>2. CASE i # 1 /\ j # 1
      <4>1. i - 1 = j - 1
        BY <1>1, <2>3, <2>5, <3>2 DEF GitLabOK
      <4> QED  BY <4>1
    <3> QED  BY <3>1, <3>2
  <2> QED  BY <1>1, <1>2, <2>1, <2>2, <2>5 DEF SyncInv, GitLabOK
<1>4. CASE NewLanguages(p)
  <2>1. GitLabOK'
    BY <1>1, <1>4, GitLabAssumption DEF NewLanguages, GitLabOK
  <2> QED  BY <1>2, <2>1 DEF SyncInv
<1> QED  BY <1>3, <1>4

LEMMA SyncRest ==
    ASSUME SyncInv, Signal \/ ShutdownTimeout \/ Start \/ TotalFails \/ Crash \/ UNCHANGED vars
    PROVE  SyncInv'
<1>1. CASE ShutdownTimeout \/ Crash
  <2>1. BoundsOK'
    BY <1>1, Frames, EventOK DEF ShutdownTimeout, Crash, Fault, SyncInv
  <2> QED  BY <1>1, <2>1, ExitOK DEF ShutdownTimeout, Crash, SyncInv
<1>2. CASE Signal \/ Start \/ TotalFails
  <2>1. UNCHANGED <<tableVars, gitlabVars, callVars, chunkVars, slots, page, total>>
    BY <1>2 DEF Signal, Start, TotalFails, NoChunk, Outside, Fault
  <2>2. BoundsOK'
    BY <1>2, Frames, EventOK DEF Signal, Start, TotalFails, Outside, Fault, SyncInv
  <2>3. MainOK'
    BY <1>2 DEF Signal, Start, TotalFails, MainStep, SyncInv, MainOK
  <2>4. Running' = Running
    BY <2>1 DEF chunkVars, Running
  <2>5. SlotsOK'
    BY <1>2, <2>1, <2>4 DEF Signal, Start, TotalFails, MainStep, SyncInv, SlotsOK
  <2> QED  BY <2>1, <2>2, <2>3, <2>5, Frames DEF SyncInv
<1>3. CASE UNCHANGED vars
  BY <1>3, Frames DEF vars, mainVars, SyncInv
<1> QED  BY <1>1, <1>2, <1>3

LEMMA SyncStep ==
    ASSUME SyncInv, [Next]_vars
    PROVE  SyncInv'
BY SyncMain, SyncChunk, SyncCall, SyncNews, SyncRest DEF Next

LEMMA SyncInit ==
    ASSUME Init
    PROVE  SyncInv
<1>1. TablesTypeOK
  BY DEF Init, TablesInit, TablesTypeOK
<1>2. GitLabOK
  BY GitLabAssumption DEF Init, GitLabOK
<1>3. MainOK /\ BoundsOK
  <2>1. 0 \in 0..N /\ 1 \in 1..N + 1
    BY Sizes
  <2>2. 0 \in 0..MaxEvents /\ 0 \in 0..0
    BY BoundAssumption
  <2> QED  BY <2>1, <2>2 DEF Init, MainOK, BoundsOK
<1>4. ChunkOK
  BY DEF Init, ChunkOK, ChunkPC, Writing
<1>5. Running = {}
  BY DEF Init, Running
<1>6. SlotsOK
  BY <1>5, FS_EmptySet, SizesAssumption DEF Init, SlotsOK
<1>7. CallsOK
  BY DEF Init, CallsOK
<1> QED  BY <1>1, <1>2, <1>3, <1>4, <1>6, <1>7 DEF SyncInv

HistoryOK == partial \subseteq Project /\ broken \subseteq Project

LEMMA HistoryStep ==
    ASSUME SyncInv, HistoryOK, [Next]_vars
    PROVE  HistoryOK'
<1> USE DEF HistoryOK
<1>1. CASE \E g \in Page : ChunkAction(g) \/ ListFails(g) \/ ProjectFails(g) \/ SomeTypesUnknown(g)
  <2> PICK g \in Page : ChunkAction(g) \/ ListFails(g) \/ ProjectFails(g) \/ SomeTypesUnknown(g)
    BY <1>1
  <2>1. gpc[g] = "types" => Head(gtodo[g]) \in Project
    BY HeadKnown DEF Writing
  <2>2. partial' \subseteq Project
    BY <2>1
    DEF ChunkAction, ListProjects, GetProjectLanguages, NoSupportedLanguage, UpsertProject,
        FindBranch, CreateDefaultBranch, WriteTypes, StatementRefused, Finish, history,
        ListFails, ProjectFails, SomeTypesUnknown
  <2>3. broken' \subseteq Project
    BY DEF ChunkAction, ListProjects, GetProjectLanguages, NoSupportedLanguage, UpsertProject,
           FindBranch, CreateDefaultBranch, WriteTypes, StatementRefused, Finish, history,
           ListFails, ProjectFails, SomeTypesUnknown, NextProject
  <2> QED  BY <2>2, <2>3
<1>2. CASE \/ MainAction \/ Signal \/ ShutdownTimeout \/ Start \/ TotalFails \/ Crash
           \/ UNCHANGED vars \/ \E p \in Project : NewProject(p) \/ NewLanguages(p)
  BY <1>2
  DEF MainAction, Rested, ReadTotal, Spawn, StopSpawning, WaitForChunks, Signal, Exit,
      ShutdownTimeout, Start, TotalFails, Crash, NewProject, NewLanguages, News, NoChunk,
      history, vars
<1>3. CASE \E c \in Call : \/ CallAction(c)
                           \/ \E p \in CallProject, n \in CallName : AskCreate(c, p, n)
                           \/ \E b \in branches : AskDelete(c, b)
                           \/ \E p \in CallProject : DeleteProject(c, p)
  BY <1>3
  DEF CallAction, FindForCreate, Create, CreateRefused, GetByID, Delete, AskCreate, AskDelete,
      DeleteProject, NoSync
<1> QED  BY <1>1, <1>2, <1>3 DEF Next

\* The tables and the processes stay within their types; with them, the
\* semaphore holds one element for each goroutine of checkProjectsChunk, at most
\* its capacity, and no page is started twice in a run.
THEOREM SyncTypeCorrect == Spec => []TypeOK
<1> DEFINE Inv == SyncInv /\ HistoryOK
<1>1. Init => Inv
  BY SyncInit DEF Init, HistoryOK
<1>2. Inv /\ [Next]_vars => Inv'
  BY SyncStep, HistoryStep
<1>3. Inv => TypeOK
  BY DEF SyncInv, GitLabOK, MainOK, ChunkOK, SlotsOK, CallsOK, BoundsOK, HistoryOK, TypeOK, N
<1> QED  BY <1>1, <1>2, <1>3, PTL DEF Spec

----------------------------------------------------------------------------
(* Which projects a search may overlook.                                   *)

LanguagesOK == \A p \in Project : languages[p] \in {FirstLanguages[p], LaterLanguages[p]}

Calm == languages = FirstLanguages

ReadTypes ==
    \A g \in Page : gpc[g] \in Writing => gtypes[g] = FirstLanguages[Head(gtodo[g])]
StoredTypes ==
    \A p \in Project : p \notin partial => types[p] \in {{}, FirstLanguages[p]}

StoredBranches ==
    \A p \in projects : p \notin broken =>
        BranchesOf(p) # {} \/ \E g \in Page : Branching(g, p)

HiddenInv ==
    SyncInv /\ LanguagesOK /\ (Calm => ReadTypes /\ StoredTypes) /\ StoredBranches

\* Languages that have changed do not change back.
LEMMA OnceCalm ==
    ASSUME HiddenInv, [Next]_vars
    PROVE  LanguagesOK' /\ (Calm' => Calm)
<1>1. /\ LanguagesOK /\ languages \in [Project -> SUBSET PackageType]
      /\ FirstLanguages \in [Project -> SUBSET PackageType]
  BY GitLabAssumption DEF HiddenInv, SyncInv, GitLabOK
<1>2. CASE \E p \in Project : NewLanguages(p)
  <2> PICK p \in Project : NewLanguages(p)
    BY <1>2
  <2>1. languages' = [languages EXCEPT ![p] = LaterLanguages[p]]
    BY DEF NewLanguages
  <2>2. LanguagesOK'
    BY <1>1, <2>1 DEF LanguagesOK
  <2>3. ASSUME languages' = FirstLanguages
        PROVE  languages = FirstLanguages
    <3>1. \A q \in Project : languages[q] = FirstLanguages[q]
      BY <1>1, <2>1, <2>3 DEF LanguagesOK
    <3> QED  BY <1>1, <3>1
  <2> QED  BY <2>1, <2>2, <2>3 DEF Calm
<1>3. CASE UNCHANGED languages
  BY <1>1, <1>3 DEF LanguagesOK, Calm
<1>4. CASE UNCHANGED vars
  BY <1>3, <1>4 DEF vars, gitlabVars
<1>5. CASE \/ MainAction \/ Signal \/ ShutdownTimeout \/ Start \/ TotalFails \/ Crash
           \/ \E p \in Project : NewProject(p)
  BY <1>3, <1>5
  DEF MainAction, Rested, ReadTotal, Spawn, StopSpawning, WaitForChunks, Signal, Exit,
      ShutdownTimeout, Start, TotalFails, Crash, Fault, Outside, NewProject, News, gitlabVars
<1>6. CASE \E g \in Page : ChunkAction(g) \/ ListFails(g) \/ ProjectFails(g) \/ SomeTypesUnknown(g)
  BY <1>3, <1>6
  DEF ChunkAction, ListProjects, GetProjectLanguages, NoSupportedLanguage, UpsertProject,
      FindBranch, CreateDefaultBranch, WriteTypes, StatementRefused, Finish, Outside,
      ListFails, ProjectFails, SomeTypesUnknown, Fault, gitlabVars
<1>7. CASE \E c \in Call : \/ CallAction(c)
                           \/ \E p \in CallProject, n \in CallName : AskCreate(c, p, n)
                           \/ \E b \in branches : AskDelete(c, b)
                           \/ \E p \in CallProject : DeleteProject(c, p)
  BY <1>3, <1>7
  DEF CallAction, FindForCreate, Create, CreateRefused, GetByID, Delete, AskCreate, AskDelete,
      DeleteProject, NoSync, gitlabVars
<1> QED  BY <1>2, <1>4, <1>5, <1>6, <1>7 DEF Next

\* A goroutine writes the types it read, and it read them while they were so.
LEMMA HiddenChunk ==
    ASSUME SyncInv, Calm, ReadTypes, StoredTypes, NEW g \in Page,
           ChunkAction(g) \/ ListFails(g) \/ ProjectFails(g) \/ SomeTypesUnknown(g)
    PROVE  ReadTypes' /\ StoredTypes'
<1>1. /\ languages = FirstLanguages
      /\ gpc \in [Page -> ChunkPC] /\ gtodo \in [Page -> Seq(Project)]
      /\ gtypes \in [Page -> SUBSET PackageType] /\ types \in [Project -> SUBSET PackageType]
  BY DEF Calm, SyncInv, ChunkOK, TablesTypeOK
<1>2. CASE SomeTypesUnknown(g)
  <2>1. /\ gpc[g] \in Writing /\ NextProject(g) /\ partial' = partial \cup {Head(gtodo[g])}
        /\ \E ts : types' = [types EXCEPT ![Head(gtodo[g])] = ts]
    BY <1>2 DEF SomeTypesUnknown, SyncPackageTypes, Writing
  <2>2. ReadTypes'
    BY <1>1, <2>1 DEF NextProject, ReadTypes, Writing
  <2>3. StoredTypes'
    BY <1>1, <2>1 DEF StoredTypes
  <2> QED  BY <2>2, <2>3
<1>3. CASE WriteTypes(g)
  <2>1. gtypes[g] = FirstLanguages[Head(gtodo[g])] /\ Head(gtodo[g]) \in Project
    BY <1>3, HeadKnown DEF WriteTypes, ReadTypes, Writing
  <2>2. StoredTypes'
    BY <1>1, <1>3, <2>1 DEF WriteTypes, SyncPackageTypes, StoredTypes
  <2>3. ReadTypes'
    BY <1>1, <1>3 DEF WriteTypes, NextProject, ReadTypes, Writing
  <2> QED  BY <2>2, <2>3
<1>4. CASE NoSupportedLanguage(g) \/ StatementRefused(g) \/ ProjectFails(g)
  <2>1. UNCHANGED <<types, partial>> /\ NextProject(g)
    BY <1>4 DEF NoSupportedLanguage, StatementRefused, ProjectFails, tableVars
  <2> QED  BY <1>1, <2>1 DEF NextProject, ReadTypes, StoredTypes, Writing
<1>5. CASE GetProjectLanguages(g)
  BY <1>1, <1>5 DEF GetProjectLanguages, ChunkStep, tableVars, history, ReadTypes, StoredTypes, Writing
<1>6. CASE UpsertProject(g) \/ FindBranch(g) \/ CreateDefaultBranch(g)
  <2>1. /\ gpc[g] \in Writing /\ UNCHANGED <<gtodo, gtypes, types, partial>>
        /\ \E to \in Writing : gpc' = [gpc EXCEPT ![g] = to]
    BY <1>6 DEF UpsertProject, FindBranch, CreateDefaultBranch, ChunkStep, UpSert,
                CreateBranchRow, tableVars, history, Writing
  <2> QED  BY <1>1, <2>1 DEF ReadTypes, StoredTypes
<1>7. CASE ListProjects(g) \/ Finish(g) \/ ListFails(g)
  <2>1. /\ UNCHANGED <<gtypes, types, partial>>
        /\ \E to \in {"none", "end", "languages"} : gpc' = [gpc EXCEPT ![g] = to]
        /\ \A h \in Page : h # g => gtodo'[h] = gtodo[h]
    BY <1>1, <1>7 DEF ListProjects, Finish, ListFails, ChunkStep, tableVars, history
  <2> QED  BY <1>1, <2>1 DEF ReadTypes, StoredTypes, Writing
<1> QED  BY <1>2, <1>3, <1>4, <1>5, <1>6, <1>7 DEF ChunkAction

\* A project is without a branch only between two statements of a goroutine, or
\* is counted as broken.
LEMMA BranchesChunk ==
    ASSUME SyncInv, StoredBranches, NEW g \in Page,
           ChunkAction(g) \/ ListFails(g) \/ ProjectFails(g) \/ SomeTypesUnknown(g)
    PROVE  StoredBranches'
<1>1. /\ gpc \in [Page -> ChunkPC] /\ gtodo \in [Page -> Seq(Project)]
      /\ projects \subseteq Project
  BY DEF SyncInv, ChunkOK, TablesTypeOK
<1>2. CASE \/ NoSupportedLanguage(g) \/ WriteTypes(g) \/ StatementRefused(g)
           \/ ProjectFails(g) \/ SomeTypesUnknown(g)
  <2>1. UNCHANGED <<projects, branches>> /\ NextProject(g)
    BY <1>2 DEF NoSupportedLanguage, WriteTypes, StatementRefused, ProjectFails,
                SomeTypesUnknown, SyncPackageTypes, tableVars
  <2>2. \A p \in Project, h \in Page : Branching(h, p) => Branching(h, p)' \/ p \in broken'
    BY <1>1, <2>1 DEF NextProject, Branching
  <2> QED  BY <1>1, <2>1, <2>2 DEF NextProject, StoredBranches, BranchesOf
<1>3. CASE UpsertProject(g)
  <2>1. /\ projects' = projects \cup {Head(gtodo[g])} /\ branches' = branches
        /\ broken' = broken \ {Head(gtodo[g])} /\ gtodo' = gtodo
        /\ gpc[g] = "upsert" /\ gpc' = [gpc EXCEPT ![g] = "find"]
    BY <1>3 DEF UpsertProject, ChunkStep, UpSert
  <2>2. /\ Branching(g, Head(gtodo[g]))'
        /\ \A p : \A h \in Page : Branching(h, p) => Branching(h, p)'
    BY <1>1, <2>1 DEF Branching
  <2> QED  BY <1>1, <2>1, <2>2 DEF StoredBranches, BranchesOf
<1>4. CASE FindBranch(g)
  <2>1. /\ UNCHANGED <<projects, branches, broken, gtodo>> /\ gpc[g] = "find"
        /\ gpc' = [gpc EXCEPT ![g] =
                      IF BranchExists(Head(gtodo[g]), DefaultBranch[Head(gtodo[g])])
                      THEN "types" ELSE "create"]
    BY <1>4 DEF FindBranch, ChunkStep, tableVars, history
  <2>2. \A p : \A h \in Page : Branching(h, p) => Branching(h, p)' \/ BranchesOf(p) # {}
    BY <1>1, <2>1 DEF Branching, BranchExists
  <2> QED  BY <1>1, <2>1, <2>2 DEF StoredBranches, BranchesOf
<1>5. CASE CreateDefaultBranch(g)
  <2> DEFINE q == Head(gtodo[g])
             b == [id |-> nextID, project |-> q, name |-> DefaultBranch[q]]
  <2>1. /\ UNCHANGED <<projects, broken, gtodo>> /\ branches' = branches \cup {b}
        /\ gpc[g] = "create" /\ gpc' = [gpc EXCEPT ![g] = "types"]
    BY <1>5 DEF CreateDefaultBranch, ChunkStep, CreateBranchRow, history
  <2>2. b.project = q
    OBVIOUS
  <2> HIDE DEF b
  <2>3. BranchesOf(q)' # {} /\ \A p : BranchesOf(p) # {} => BranchesOf(p)' # {}
    BY <2>1, <2>2 DEF BranchesOf
  <2>4. \A p : \A h \in Page : Branching(h, p) => Branching(h, p)' \/ p = q
    BY <1>1, <2>1 DEF Branching
  <2> QED  BY <1>1, <2>1, <2>3, <2>4 DEF StoredBranches
<1>6. CASE ListProjects(g) \/ GetProjectLanguages(g) \/ Finish(g) \/ ListFails(g)
  <2>1. /\ UNCHANGED <<projects, branches, broken>> /\ gpc[g] \in {"list", "languages", "end"}
        /\ \E to : gpc' = [gpc EXCEPT ![g] = to]
        /\ \A h \in Page : h # g => gtodo'[h] = gtodo[h]
    BY <1>1, <1>6
    DEF ListProjects, GetProjectLanguages, Finish, ListFails, ChunkStep, tableVars, history
  <2>2. \A p : \A h \in Page : Branching(h, p) => Branching(h, p)'
    BY <1>1, <2>1 DEF Branching
  <2> QED  BY <2>1, <2>2 DEF StoredBranches, BranchesOf
<1> QED  BY <1>2, <1>3, <1>4, <1>5, <1>6 DEF ChunkAction

LEMMA BranchesStep ==
    ASSUME SyncInv, StoredBranches, [Next]_vars
    PROVE  StoredBranches'
<1>1. /\ gpc \in [Page -> ChunkPC] /\ projects \subseteq Project
  BY DEF SyncInv, ChunkOK, TablesTypeOK
<1>2. CASE UNCHANGED <<projects, branches, broken, chunkVars>>
  BY <1>2 DEF chunkVars, StoredBranches, BranchesOf, Branching
<1>3. CASE \E g \in Page : ChunkAction(g) \/ ListFails(g) \/ ProjectFails(g) \/ SomeTypesUnknown(g)
  BY <1>3, BranchesChunk
<1>4. CASE Spawn
  <2>1. /\ UNCHANGED <<projects, branches, broken, gtodo>>
        /\ gpc' = [gpc EXCEPT ![page] = "list"]
    BY <1>4 DEF Spawn, tableVars, history
  <2>2. page \in Page => gpc[page] = "none"
    BY Sizes DEF SyncInv, SlotsOK, MainOK, Running
  <2>3. \A p : \A h \in Page : Branching(h, p) => Branching(h, p)'
    BY <1>1, <2>1, <2>2 DEF Branching
  <2> QED  BY <2>1, <2>3 DEF StoredBranches, BranchesOf
<1>5. CASE ShutdownTimeout \/ Crash
  BY <1>1, <1>5 DEF ShutdownTimeout, Crash, Exit, tableVars, StoredBranches, BranchesOf
<1>6. CASE \E c \in Call : Create(c)
  <2> PICK c \in Call : Create(c)
    BY <1>6
  <2>1. UNCHANGED <<projects, broken, chunkVars>> /\ branches \subseteq branches'
    BY DEF Create, CreateBranchRow, NoSync
  <2> QED  BY <2>1 DEF chunkVars, StoredBranches, BranchesOf, Branching
<1>7. CASE \E c \in Call : Delete(c)
  <2> PICK c \in Call : Delete(c)
    BY <1>7
  <2>1. UNCHANGED <<projects, chunkVars>> /\ broken \subseteq broken'
        /\ branches' = {b \in branches : b.id # carg[c].id}
        /\ \A p \in Project : BranchesOf(p) # {} /\ (\A b \in BranchesOf(p) : b.id = carg[c].id)
                             => p \in broken'
    BY DEF Delete, DeleteBranchRow, NoSync
  <2>2. \A p \in Project : BranchesOf(p) # {} => BranchesOf(p)' # {} \/ p \in broken'
    BY <2>1 DEF BranchesOf
  <2> QED  BY <1>1, <2>1, <2>2 DEF chunkVars, StoredBranches, Branching
<1>8. CASE \E c \in Call, p \in CallProject : DeleteProject(c, p)
  <2> PICK c \in Call, p \in CallProject : DeleteProject(c, p)
    BY <1>8
  <2>1. /\ UNCHANGED <<broken, chunkVars>> /\ projects' = projects \ {p}
        /\ branches' = branches \ BranchesOf(p)
    BY DEF DeleteProject, DeleteProjectRow, NoSync
  <2>2. \A q : q # p => BranchesOf(q)' = BranchesOf(q)
    BY <2>1 DEF BranchesOf
  <2> QED  BY <2>1, <2>2 DEF chunkVars, StoredBranches, Branching
<1>9. CASE \/ Rested \/ ReadTotal \/ StopSpawning \/ WaitForChunks
           \/ Signal \/ Start \/ TotalFails \/ UNCHANGED vars
           \/ \E p \in Project : NewProject(p) \/ NewLanguages(p)
  BY <1>2, <1>9
  DEF Rested, ReadTotal, StopSpawning, WaitForChunks, Signal, Start, TotalFails, NewProject,
      NewLanguages, News, NoChunk, tableVars, history, vars
<1>10. CASE \E c \in Call : \/ FindForCreate(c) \/ CreateRefused(c) \/ GetByID(c)
                            \/ \E p \in CallProject, n \in CallName : AskCreate(c, p, n)
                            \/ \E b \in branches : AskDelete(c, b)
  BY <1>2, <1>10
  DEF FindForCreate, CreateRefused, GetByID, AskCreate, AskDelete, NoSync, tableVars
<1> QED
  BY <1>3, <1>4, <1>5, <1>6, <1>7, <1>8, <1>9, <1>10 DEF Next, MainAction, CallAction

LEMMA HiddenStep ==
    ASSUME HiddenInv, [Next]_vars
    PROVE  HiddenInv'
<1>1. SyncInv' /\ LanguagesOK' /\ (Calm' => Calm)
  BY SyncStep, OnceCalm DEF HiddenInv
<1>b. StoredBranches'
  BY BranchesStep DEF HiddenInv
<1> SUFFICES ASSUME Calm'
             PROVE  ReadTypes' /\ StoredTypes'
  BY <1>1, <1>b DEF HiddenInv
<1>2. SyncInv /\ Calm /\ ReadTypes /\ StoredTypes
  BY <1>1 DEF HiddenInv, Calm
<1>3. types \in [Project -> SUBSET PackageType] /\ gpc \in [Page -> ChunkPC]
  BY <1>2 DEF SyncInv, TablesTypeOK, ChunkOK
<1>4. CASE UNCHANGED <<chunkVars, types, partial>>
  BY <1>2, <1>4 DEF chunkVars, ReadTypes, StoredTypes
<1>5. CASE \E g \in Page : ChunkAction(g) \/ ListFails(g) \/ ProjectFails(g) \/ SomeTypesUnknown(g)
  BY <1>2, <1>5, HiddenChunk
<1>6. CASE Spawn
  <2>1. UNCHANGED <<gtodo, gtypes, types, partial>> /\ gpc' = [gpc EXCEPT ![page] = "list"]
    BY <1>6 DEF Spawn, tableVars, history
  <2> QED  BY <1>2, <1>3, <2>1 DEF ReadTypes, StoredTypes, Writing
<1>7. CASE ShutdownTimeout \/ Crash
  BY <1>2, <1>7 DEF ShutdownTimeout, Crash, Exit, tableVars, ReadTypes, StoredTypes, Writing
<1>8. CASE \E c \in Call, p \in CallProject : DeleteProject(c, p)
  <2>1. UNCHANGED <<chunkVars, partial>>
    BY <1>8 DEF DeleteProject, NoSync
  <2>2. \E p \in Project : types' = [types EXCEPT ![p] = {}]
    BY <1>8, CallAssumption DEF DeleteProject, DeleteProjectRow
  <2> QED  BY <1>2, <1>3, <2>1, <2>2 DEF chunkVars, ReadTypes, StoredTypes
<1>9. CASE \/ Rested \/ ReadTotal \/ StopSpawning \/ WaitForChunks
           \/ Signal \/ Start \/ TotalFails \/ UNCHANGED vars
           \/ \E p \in Project : NewProject(p) \/ NewLanguages(p)
  BY <1>4, <1>9
  DEF Rested, ReadTotal, StopSpawning, WaitForChunks, Signal, Start, TotalFails, NewProject,
      NewLanguages, News, NoChunk, tableVars, history, vars
<1>10. CASE \E c \in Call : \/ CallAction(c)
                            \/ \E p \in CallProject, n \in CallName : AskCreate(c, p, n)
                            \/ \E b \in branches : AskDelete(c, b)
  BY <1>4, <1>10
  DEF CallAction, FindForCreate, Create, CreateRefused, GetByID, Delete, AskCreate, AskDelete,
      CreateBranchRow, DeleteBranchRow, NoSync, tableVars
<1> QED  BY <1>5, <1>6, <1>7, <1>8, <1>9, <1>10 DEF Next, MainAction

\* Whatever goroutines, restarts, crashes and API calls run, a stored project has
\* no types at all or exactly those of its languages while these stay, so that a
\* search of one of its types is offered it, unless the lookup of a type failed; and
\* it has a branch or will be given one, unless that was broken off or deleted.
THEOREM NeverHiddenCorrect == Spec => []NeverHidden
<1>1. Init => HiddenInv
  <2> SUFFICES ASSUME Init PROVE HiddenInv
    OBVIOUS
  <2>1. LanguagesOK
    BY DEF Init, LanguagesOK
  <2>2. ReadTypes /\ StoredTypes /\ StoredBranches
    BY DEF Init, TablesInit, ReadTypes, StoredTypes, StoredBranches, Writing
  <2> QED  BY <2>1, <2>2, SyncInit DEF HiddenInv
<1>2. HiddenInv /\ [Next]_vars => HiddenInv'
  BY HiddenStep
<1>3. HiddenInv => NeverHidden
  BY DEF HiddenInv, SyncInv, TablesTypeOK, Calm, StoredTypes, StoredBranches, NeverHidden, Offered
<1> QED  BY <1>1, <1>2, <1>3, PTL DEF Spec

----------------------------------------------------------------------------
(* One row per branch, while the listing does not move.                    *)

\* One API call at a time, and none asks for the default branch of a project.
CallsKeepOff ==
    /\ \A c, d \in Call : c = d
    /\ \A p \in CallProject : DefaultBranch[p] \notin CallName

Unmoved == listing = FirstListing
OnPage(g) ==
    {p \in Project : \E i \in 1..Len(FirstListing) :
        FirstListing[i] = p /\ (g - 1) * PerPage < i /\ i <= g * PerPage}
Todo(g) == {gtodo[g][i] : i \in 1..Len(gtodo[g])}

TodoOnPage == \A g \in Page : Todo(g) \subseteq OnPage(g)

\* Who is about to create a branch has found none, and nobody else creates it.
ChunksLooked ==
    \A g \in Page : gpc[g] = "create" =>
        ~BranchExists(Head(gtodo[g]), DefaultBranch[Head(gtodo[g])])
CallsLooked ==
    \A c \in Call : cpc[c] = "create" => ~BranchExists(carg[c].project, carg[c].name)
CallsAsked ==
    \A c \in Call : cpc[c] \in {"find", "create"} =>
        carg[c].project \in CallProject /\ carg[c].name \in CallName

UniqueInv ==
    /\ SyncInv /\ CallsAsked /\ Len(listing) >= Len(FirstListing)
    /\ Unmoved => TodoOnPage /\ ChunksLooked /\ CallsLooked /\ BranchNamesUnique

LEMMA TodoStays ==
    ASSUME TodoOnPage, UNCHANGED gtodo
    PROVE  TodoOnPage'
<1>1. \A g \in Page : Todo(g)' = Todo(g)
  BY DEF Todo
<1> QED  BY <1>1 DEF TodoOnPage, OnPage

LEMMA PagesBefore ==
    ASSUME NEW g \in Nat, NEW h \in Nat, g < h
    PROVE  g * PerPage <= (h - 1) * PerPage
<1>1. PICK d \in Nat : h - 1 = g + d
  <2>1. h - 1 - g \in Nat /\ h - 1 = g + (h - 1 - g)
    OBVIOUS
  <2> QED  BY <2>1
<1>2. (g + d) * PerPage = g * PerPage + d * PerPage /\ d * PerPage \in Nat
  BY SizesAssumption
<1>3. g * PerPage \in Nat
  BY SizesAssumption
<1> QED  BY <1>1, <1>2, <1>3

\* No project is on two pages of a listing that names each once.
LEMMA PagesApart ==
    ASSUME NEW g \in Page, NEW h \in Page, g # h
    PROVE  OnPage(g) \cap OnPage(h) = {}
<1>1. g \in Nat /\ h \in Nat
  BY Sizes
<1>2. ASSUME NEW a \in Nat, NEW b \in Nat, a < b,
             NEW p \in OnPage(a), p \in OnPage(b)
      PROVE  FALSE
  <2>1. PICK i \in 1..Len(FirstListing) : FirstListing[i] = p /\ i <= a * PerPage
    BY DEF OnPage
  <2>2. PICK j \in 1..Len(FirstListing) : FirstListing[j] = p /\ (b - 1) * PerPage < j
    BY <1>2 DEF OnPage
  <2>3. i = j
    BY <2>1, <2>2, GitLabAssumption
  <2>4. a * PerPage <= (b - 1) * PerPage
    BY <1>2, PagesBefore
  <2>5. a * PerPage \in Int /\ (b - 1) * PerPage \in Int
    BY SizesAssumption
  <2> QED  BY <2>1, <2>2, <2>3, <2>4, <2>5
<1> QED  BY <1>1, <1>2

\* What a goroutine is given is on its page.
LEMMA ListedOnPage ==
    ASSUME SyncInv, Unmoved, NEW g \in Page,
           NEW i \in 1..Len(ListingPage(g))
    PROVE  ListingPage(g)[i] \in OnPage(g)
<1> DEFINE k == (g - 1) * PerPage
           n == g * PerPage
           m == IF n < Len(listing) THEN n ELSE Len(listing)
<1>1. g \in Nat /\ g - 1 \in Nat
  BY Sizes
<1>2. k \in Nat /\ n \in Nat
  BY <1>1, SizesAssumption
<1>3. listing \in Seq(Project) /\ m \in 0..Len(listing) /\ m <= n /\ Len(listing) \in Nat
  BY <1>2 DEF SyncInv, GitLabOK
<1>4. ListingPage(g) = SubSeq(listing, k + 1, m)
  BY DEF ListingPage
<1> HIDE DEF k, m, n
<1>5. i + k \in 1..Len(listing) /\ i + k <= m /\ ListingPage(g)[i] = listing[i + k]
  BY <1>2, <1>3, <1>4
<1>6. k < i + k /\ i + k <= n
  BY <1>2, <1>3, <1>5
<1>7. listing[i + k] \in Project
  BY <1>3, <1>5
<1> QED  BY <1>5, <1>6, <1>7 DEF OnPage, Unmoved, k, n

\* The project in hand is nobody else's.
LEMMA OwnProject ==
    ASSUME TodoOnPage, SyncInv, NEW g \in Page, NEW h \in Page, g # h,
           gpc[g] \in {"languages"} \cup Writing, gpc[h] \in {"languages"} \cup Writing
    PROVE  Head(gtodo[g]) # Head(gtodo[h])
<1>1. \A f \in {g, h} : gtodo[f] \in Seq(Project) /\ gtodo[f] # << >>
  BY DEF SyncInv, ChunkOK
<1>2. Head(gtodo[g]) \in Todo(g) /\ Head(gtodo[h]) \in Todo(h)
  BY <1>1 DEF Todo
<1> QED  BY <1>2, PagesApart DEF TodoOnPage

\* A new row does not make a branch exist that has another project or name.
LEMMA OtherBranch ==
    ASSUME NEW p, NEW n, NEW q, NEW m, CreateBranchRow(q, m), p # q \/ n # m,
           ~BranchExists(p, n)
    PROVE  ~BranchExists(p, n)'
BY DEF CreateBranchRow, BranchExists, BranchesOf

LEMMA FewerBranches ==
    ASSUME branches' \subseteq branches
    PROVE  /\ \A p, n : ~BranchExists(p, n) => ~BranchExists(p, n)'
           /\ BranchNamesUnique => BranchNamesUnique'
BY DEF BranchExists, BranchesOf, BranchNamesUnique

LEMMA NewNameUnique ==
    ASSUME BranchNamesUnique, NEW p, NEW n, CreateBranchRow(p, n), ~BranchExists(p, n)
    PROVE  BranchNamesUnique'
<1> DEFINE new == [id |-> nextID, project |-> p, name |-> n]
<1>1. branches' = branches \cup {new} /\ new.project = p /\ new.name = n
  BY DEF CreateBranchRow
<1>2. \A b \in branches : ~(b.project = p /\ b.name = n)
  BY DEF BranchExists, BranchesOf
<1> HIDE DEF new
<1> QED  BY <1>1, <1>2 DEF BranchNamesUnique

\* A listing that has moved is longer ever after.
LEMMA OnceUnmoved ==
    ASSUME UniqueInv, [Next]_vars
    PROVE  Len(listing') >= Len(FirstListing) /\ (Unmoved' => Unmoved)
<1>1. Len(listing) \in Nat /\ Len(FirstListing) \in Nat /\ Len(listing) >= Len(FirstListing)
  BY GitLabAssumption DEF UniqueInv, SyncInv, GitLabOK
<1>2. CASE \E p \in Project : NewProject(p)
  <2> PICK p \in Project : NewProject(p)
    BY <1>2
  <2>1. Len(listing') = Len(listing) + 1
    BY DEF NewProject, UniqueInv, SyncInv, GitLabOK
  <2> QED  BY <1>1, <2>1 DEF Unmoved
<1>3. CASE UNCHANGED listing
  BY <1>1, <1>3 DEF Unmoved
<1>4. CASE UNCHANGED vars \/ \E p \in Project : NewLanguages(p)
  BY <1>3, <1>4 DEF NewLanguages, vars, gitlabVars
<1>5. CASE MainAction \/ Signal \/ ShutdownTimeout \/ Start \/ TotalFails \/ Crash
  BY <1>3, <1>5
  DEF MainAction, Rested, ReadTotal, Spawn, StopSpawning, WaitForChunks, Signal, Exit,
      ShutdownTimeout, Start, TotalFails, Crash, Fault, Outside, gitlabVars
<1>6. CASE \E g \in Page : ChunkAction(g) \/ ListFails(g) \/ ProjectFails(g) \/ SomeTypesUnknown(g)
  BY <1>3, <1>6
  DEF ChunkAction, ListProjects, GetProjectLanguages, NoSupportedLanguage, UpsertProject,
      FindBranch, CreateDefaultBranch, WriteTypes, StatementRefused, Finish, Outside,
      ListFails, ProjectFails, SomeTypesUnknown, Fault, gitlabVars
<1>7. CASE \E c \in Call : \/ CallAction(c)
                           \/ \E p \in CallProject, n \in CallName : AskCreate(c, p, n)
                           \/ \E b \in branches : AskDelete(c, b)
                           \/ \E p \in CallProject : DeleteProject(c, p)
  BY <1>3, <1>7
  DEF CallAction, FindForCreate, Create, CreateRefused, GetByID, Delete, AskCreate, AskDelete,
      DeleteProject, NoSync, gitlabVars
<1> QED  BY <1>2, <1>4, <1>5, <1>6, <1>7 DEF Next

\* Going on to the next project forgets one, and looks for no branch.
LEMMA NextProjectKeeps ==
    ASSUME SyncInv, TodoOnPage, ChunksLooked, UNCHANGED branches,
           NEW g \in Page, NextProject(g), gpc[g] \in {"languages"} \cup Writing
    PROVE  TodoOnPage' /\ ChunksLooked'
<1>1. /\ gpc \in [Page -> ChunkPC] /\ gtodo \in [Page -> Seq(Project)]
      /\ gtodo[g] # << >>
  BY DEF SyncInv, ChunkOK
<1>2. /\ gtodo'[g] = Tail(gtodo[g]) /\ gpc'[g] \in {"end", "languages"}
      /\ \A h \in Page : h # g => gtodo'[h] = gtodo[h] /\ gpc'[h] = gpc[h]
  BY <1>1 DEF NextProject
<1>3. \A i \in 1..Len(gtodo'[g]) :
          i + 1 \in 1..Len(gtodo[g]) /\ gtodo'[g][i] = gtodo[g][i + 1]
  BY <1>1, <1>2
<1>4. Todo(g)' \subseteq Todo(g)
  BY <1>3 DEF Todo
<1>5. \A h \in Page : h # g => Todo(h)' = Todo(h)
  BY <1>2 DEF Todo
<1>6. TodoOnPage'
  BY <1>4, <1>5 DEF TodoOnPage, OnPage
<1>7. ChunksLooked'
  BY <1>2 DEF ChunksLooked, BranchExists, BranchesOf
<1> QED  BY <1>6, <1>7

LEMMA UniqueChunk ==
    ASSUME CallsKeepOff, SyncInv, CallsAsked, Unmoved, TodoOnPage, ChunksLooked, CallsLooked,
           BranchNamesUnique, NEW g \in Page,
           ChunkAction(g) \/ ListFails(g) \/ ProjectFails(g) \/ SomeTypesUnknown(g)
    PROVE  TodoOnPage' /\ ChunksLooked' /\ CallsLooked' /\ BranchNamesUnique'
<1>1. /\ gpc \in [Page -> ChunkPC] /\ gtodo \in [Page -> Seq(Project)]
  BY DEF SyncInv, ChunkOK
<1>2. UNCHANGED callVars
  BY DEF ChunkAction, ListProjects, GetProjectLanguages, NoSupportedLanguage, UpsertProject,
         FindBranch, CreateDefaultBranch, WriteTypes, StatementRefused, Finish, Outside,
         ListFails, ProjectFails, SomeTypesUnknown, Fault
<1>3. UNCHANGED branches => CallsLooked' /\ BranchNamesUnique'
  BY <1>2 DEF callVars, CallsLooked, BranchExists, BranchesOf, BranchNamesUnique
<1>4. CASE NoSupportedLanguage(g) \/ StatementRefused(g) \/ ProjectFails(g)
           \/ WriteTypes(g) \/ SomeTypesUnknown(g)
  <2>1. UNCHANGED branches /\ NextProject(g) /\ gpc[g] \in {"languages"} \cup Writing
    BY <1>4
    DEF NoSupportedLanguage, StatementRefused, ProjectFails, WriteTypes, SomeTypesUnknown,
        SyncPackageTypes, tableVars, Writing
  <2> QED  BY <1>3, <2>1, NextProjectKeeps
<1>5. CASE ListProjects(g)
  <2>1. PICK found \in {<< >>, ListingPage(g)} : gtodo' = [gtodo EXCEPT ![g] = found]
    BY <1>5 DEF ListProjects
  <2>2. UNCHANGED branches /\ \A h \in Page : gpc'[h] = "create" => h # g /\ gpc[h] = "create"
    BY <1>1, <1>5 DEF ListProjects, ChunkStep, tableVars
  <2>3. Todo(g)' \subseteq OnPage(g)
    <3>1. \A i \in 1..Len(found) : found[i] \in OnPage(g)
      BY ListedOnPage
    <3>2. gtodo'[g] = found
      BY <1>1, <2>1
    <3> QED  BY <3>1, <3>2 DEF Todo
  <2>4. \A h \in Page : h # g => gtodo'[h] = gtodo[h]
    BY <1>1, <2>1
  <2>5. \A h \in Page : h # g => Todo(h)' = Todo(h)
    BY <2>4 DEF Todo
  <2>6. TodoOnPage'
    BY <2>3, <2>5 DEF TodoOnPage, OnPage
  <2>7. ChunksLooked'
    BY <2>2, <2>4 DEF ChunksLooked, BranchExists, BranchesOf
  <2> QED  BY <1>3, <2>2, <2>6, <2>7
<1>6. CASE GetProjectLanguages(g) \/ UpsertProject(g) \/ Finish(g) \/ ListFails(g)
  <2>1. UNCHANGED <<branches, gtodo>> /\ \A h \in Page : gpc'[h] = "create" => gpc[h] = "create"
    BY <1>1, <1>6 DEF GetProjectLanguages, UpsertProject, UpSert, Finish, ListFails, ChunkStep,
                      tableVars
  <2>2. TodoOnPage'
    BY <2>1, TodoStays
  <2>3. ChunksLooked'
    BY <2>1 DEF ChunksLooked, BranchExists, BranchesOf
  <2> QED  BY <1>3, <2>1, <2>2, <2>3
<1>7. CASE FindBranch(g)
  <2>1. /\ UNCHANGED <<branches, gtodo>> /\ \A h \in Page : h # g => gpc'[h] = gpc[h]
        /\ gpc'[g] = "create" => ~BranchExists(Head(gtodo[g]), DefaultBranch[Head(gtodo[g])])
    BY <1>1, <1>7 DEF FindBranch, ChunkStep, tableVars
  <2>2. TodoOnPage'
    BY <2>1, TodoStays
  <2>3. ChunksLooked'
    BY <2>1 DEF ChunksLooked, BranchExists, BranchesOf
  <2> QED  BY <1>3, <2>1, <2>2, <2>3
<1>8. CASE CreateDefaultBranch(g)
  <2> DEFINE p == Head(gtodo[g])
  <2>1. /\ gpc[g] = "create" /\ gtodo' = gtodo /\ CreateBranchRow(p, DefaultBranch[p])
        /\ gpc'[g] = "types" /\ \A h \in Page : h # g => gpc'[h] = gpc[h]
    BY <1>1, <1>8 DEF CreateDefaultBranch, ChunkStep
  <2>2. ~BranchExists(p, DefaultBranch[p])
    BY <2>1 DEF ChunksLooked
  <2>3. BranchNamesUnique'
    BY <2>1, <2>2, NewNameUnique
  <2>4. TodoOnPage'
    BY <2>1, TodoStays
  <2>5. ChunksLooked'
    <3> SUFFICES ASSUME NEW h \in Page, gpc'[h] = "create"
                 PROVE  ~BranchExists(Head(gtodo[h]), DefaultBranch[Head(gtodo[h])])'
      BY <2>1 DEF ChunksLooked
    <3>1. h # g /\ gpc[h] = "create"
      BY <2>1
    <3>2. Head(gtodo[h]) # p
      BY <2>1, <3>1, OwnProject DEF Writing
    <3>3. ~BranchExists(Head(gtodo[h]), DefaultBranch[Head(gtodo[h])])
      BY <3>1 DEF ChunksLooked
    <3> DEFINE q == Head(gtodo[h])
    <3> HIDE DEF p
    <3>4. PICK r, n : r = Head(gtodo[h]) /\ n = DefaultBranch[Head(gtodo[h])]
      OBVIOUS
    <3>5. ~BranchExists(r, n)'
      BY <2>1, <3>2, <3>3, <3>4, OtherBranch
    <3> QED  BY <2>1, <3>4, <3>5 DEF BranchExists, BranchesOf
  <2>6. CallsLooked'
    <3> SUFFICES ASSUME NEW c \in Call, cpc'[c] = "create"
                 PROVE  ~BranchExists(carg[c].project, carg[c].name)'
      BY <1>2 DEF CallsLooked, callVars
    <3>1. /\ carg[c].project \in CallProject /\ carg[c].name \in CallName
          /\ ~BranchExists(carg[c].project, carg[c].name) /\ carg' = carg
      BY <1>2 DEF callVars, CallsAsked, CallsLooked
    <3>2. carg[c].project # p \/ carg[c].name # DefaultBranch[p]
      BY <3>1 DEF CallsKeepOff
    <3> HIDE DEF p
    <3>3. PICK r, n : r = carg[c].project /\ n = carg[c].name
      OBVIOUS
    <3>4. ~BranchExists(r, n)'
      BY <2>1, <3>1, <3>2, <3>3, OtherBranch
    <3> QED  BY <3>1, <3>3, <3>4 DEF BranchExists, BranchesOf
  <2> QED  BY <2>3, <2>4, <2>5, <2>6
<1> QED  BY <1>4, <1>5, <1>6, <1>7, <1>8 DEF ChunkAction

LEMMA UniqueCall ==
    ASSUME CallsKeepOff, SyncInv, CallsAsked, TodoOnPage, ChunksLooked, CallsLooked,
           BranchNamesUnique, NEW c \in Call,
           \/ CallAction(c)
           \/ \E p \in CallProject, n \in CallName : AskCreate(c, p, n)
           \/ \E b \in branches : AskDelete(c, b)
           \/ \E p \in CallProject : DeleteProject(c, p)
    PROVE  TodoOnPage' /\ ChunksLooked' /\ CallsLooked' /\ BranchNamesUnique'
<1>1. UNCHANGED chunkVars
  BY DEF CallAction, FindForCreate, Create, CreateRefused, GetByID, Delete, AskCreate,
         AskDelete, DeleteProject, NoSync
<1>2. TodoOnPage'
  BY <1>1, TodoStays DEF chunkVars
<1>3. /\ cpc \in [Call -> {"idle", "find", "create", "lookup", "delete", "answered"}]
      /\ \A d \in Call : d = c
  BY DEF SyncInv, CallsOK, CallsKeepOff
<1>4. CASE Create(c)
  <2> DEFINE p == carg[c].project
             n == carg[c].name
  <2>1. /\ cpc[c] = "create" /\ cpc'[c] = "answered" /\ carg' = carg
        /\ CreateBranchRow(p, n) /\ p \in CallProject /\ n \in CallName
    BY <1>3, <1>4 DEF Create, CallStep, CallsAsked
  <2>2. ~BranchExists(p, n)
    BY <2>1 DEF CallsLooked
  <2>3. BranchNamesUnique'
    BY <2>1, <2>2, NewNameUnique
  <2>4. CallsLooked'
    BY <1>3, <2>1 DEF CallsLooked
  <2>5. ChunksLooked'
    <3> SUFFICES ASSUME NEW h \in Page, gpc[h] = "create"
                 PROVE  ~BranchExists(Head(gtodo[h]), DefaultBranch[Head(gtodo[h])])'
      BY <1>1 DEF chunkVars, ChunksLooked
    <3>1. ~BranchExists(Head(gtodo[h]), DefaultBranch[Head(gtodo[h])])
      BY DEF ChunksLooked
    <3>2. Head(gtodo[h]) # p \/ DefaultBranch[Head(gtodo[h])] # n
      BY <2>1 DEF CallsKeepOff
    <3> HIDE DEF p, n
    <3>3. PICK q, m : q = Head(gtodo[h]) /\ m = DefaultBranch[Head(gtodo[h])]
      OBVIOUS
    <3>4. ~BranchExists(q, m)'
      BY <2>1, <3>1, <3>2, <3>3, OtherBranch
    <3> QED  BY <1>1, <3>3, <3>4 DEF chunkVars, BranchExists, BranchesOf
  <2> QED  BY <1>2, <2>3, <2>4, <2>5
<1>5. CASE ~Create(c)
  <2>1. branches' \subseteq branches
    BY <1>5
    DEF CallAction, FindForCreate, CreateRefused, GetByID, Delete, DeleteBranchRow, AskCreate,
        AskDelete, DeleteProject, DeleteProjectRow, tableVars
  <2>2. /\ \A p, n : ~BranchExists(p, n) => ~BranchExists(p, n)'
        /\ BranchNamesUnique'
    BY <2>1, FewerBranches
  <2>3. ChunksLooked'
    BY <1>1, <2>1 DEF chunkVars, ChunksLooked, BranchExists, BranchesOf
  <2>4. CallsLooked'
    <3> SUFFICES ASSUME cpc'[c] = "create"
                 PROVE  ~BranchExists(carg[c].project, carg[c].name)' /\ carg' = carg
      BY <1>3 DEF CallsLooked
    <3>1. CASE FindForCreate(c)
      BY <1>3, <3>1 DEF FindForCreate, CallStep, tableVars, BranchExists, BranchesOf
    <3>2. CASE ~FindForCreate(c)
      BY <1>3, <1>5, <3>2
      DEF CallAction, CreateRefused, GetByID, Delete, AskCreate, AskDelete, DeleteProject,
          CallStep
    <3> QED  BY <3>1, <3>2
  <2> QED  BY <1>2, <2>2, <2>3, <2>4
<1> QED  BY <1>4, <1>5

\* A call's arguments are those it came with.
LEMMA AskedStep ==
    ASSUME SyncInv, CallsAsked, [Next]_vars
    PROVE  CallsAsked'
<1>1. /\ cpc \in [Call -> {"idle", "find", "create", "lookup", "delete", "answered"}]
      /\ carg \in [Call -> CallArg \cup {NoArg}]
  BY DEF SyncInv, CallsOK
<1>2. CASE UNCHANGED callVars
  BY <1>2 DEF callVars, CallsAsked
<1>3. CASE UNCHANGED vars \/ \E p \in Project : NewProject(p) \/ NewLanguages(p)
  BY <1>2, <1>3 DEF NewProject, NewLanguages, News, vars
<1>4. CASE MainAction \/ Signal \/ ShutdownTimeout \/ Start \/ TotalFails \/ Crash
  BY <1>2, <1>4
  DEF MainAction, Rested, ReadTotal, Spawn, StopSpawning, WaitForChunks, Signal, Exit,
      ShutdownTimeout, Start, TotalFails, Crash, Fault, Outside
<1>5. CASE \E g \in Page : ChunkAction(g) \/ ListFails(g) \/ ProjectFails(g) \/ SomeTypesUnknown(g)
  BY <1>2, <1>5
  DEF ChunkAction, ListProjects, GetProjectLanguages, NoSupportedLanguage, UpsertProject,
      FindBranch, CreateDefaultBranch, WriteTypes, StatementRefused, Finish, Outside,
      ListFails, ProjectFails, SomeTypesUnknown, Fault
<1>6. CASE \E c \in Call : CallAction(c) \/ \E p \in CallProject : DeleteProject(c, p)
  BY <1>1, <1>6
  DEF CallAction, FindForCreate, Create, CreateRefused, GetByID, Delete, DeleteProject,
      CallStep, CallsAsked
<1>7. CASE \E c \in Call, p \in CallProject, n \in CallName : AskCreate(c, p, n)
  BY <1>1, <1>7 DEF AskCreate, CallStep, CallsAsked
<1>8. CASE \E c \in Call, b \in branches : AskDelete(c, b)
  BY <1>1, <1>8 DEF AskDelete, CallStep, CallsAsked
<1> QED  BY <1>3, <1>4, <1>5, <1>6, <1>7, <1>8 DEF Next

LEMMA UniqueStep ==
    ASSUME CallsKeepOff, UniqueInv, [Next]_vars
    PROVE  UniqueInv'
<1>1. SyncInv' /\ CallsAsked' /\ Len(listing') >= Len(FirstListing) /\ (Unmoved' => Unmoved)
  BY SyncStep, AskedStep, OnceUnmoved DEF UniqueInv
<1> SUFFICES ASSUME Unmoved'
             PROVE  TodoOnPage' /\ ChunksLooked' /\ CallsLooked' /\ BranchNamesUnique'
  BY <1>1 DEF UniqueInv
<1>2. /\ SyncInv /\ CallsAsked /\ Unmoved /\ TodoOnPage /\ ChunksLooked /\ CallsLooked
      /\ BranchNamesUnique
  BY <1>1 DEF UniqueInv
<1>3. CASE UNCHANGED <<chunkVars, callVars, branches>>
  <2>1. UNCHANGED <<gpc, gtodo, cpc, carg, branches>>
    BY <1>3 DEF chunkVars, callVars
  <2>2. TodoOnPage'
    BY <1>2, <2>1, TodoStays
  <2>3. ChunksLooked' /\ CallsLooked'
    BY <1>2, <2>1 DEF ChunksLooked, CallsLooked, BranchExists, BranchesOf
  <2>4. BranchNamesUnique'
    BY <1>2, <2>1 DEF BranchNamesUnique
  <2> QED  BY <2>2, <2>3, <2>4
<1>4. CASE \/ Rested \/ ReadTotal \/ StopSpawning \/ WaitForChunks
           \/ Signal \/ Start \/ TotalFails \/ UNCHANGED vars
           \/ \E p \in Project : NewProject(p) \/ NewLanguages(p)
  BY <1>3, <1>4
  DEF Rested, ReadTotal, StopSpawning, WaitForChunks, Signal, Start, TotalFails, NewProject,
      NewLanguages, News, NoChunk, Outside, Fault, tableVars, vars
<1>5. CASE Spawn
  <2>1. /\ UNCHANGED <<gtodo, callVars, branches>>
        /\ \A g \in Page : gpc'[g] = "create" => gpc[g] = "create"
    BY <1>2, <1>5 DEF Spawn, Outside, tableVars, SyncInv, ChunkOK
  <2>2. TodoOnPage'
    BY <1>2, <2>1, TodoStays
  <2>3. ChunksLooked'
    BY <1>2, <2>1 DEF ChunksLooked, BranchExists, BranchesOf
  <2>4. CallsLooked' /\ BranchNamesUnique'
    BY <1>2, <2>1 DEF callVars, CallsLooked, BranchExists, BranchesOf, BranchNamesUnique
  <2> QED  BY <2>2, <2>3, <2>4
<1>6. CASE ShutdownTimeout \/ Crash
  <2>1. Exit
    BY <1>6 DEF ShutdownTimeout, Crash
  <2>2. CallsLooked' /\ BranchNamesUnique'
    BY <1>2, <2>1 DEF Exit, tableVars, callVars, CallsLooked, BranchExists, BranchesOf,
                      BranchNamesUnique
  <2>3. \A g \in Page : gtodo'[g] = << >> /\ gpc'[g] # "create"
    BY <2>1 DEF Exit
  <2> QED  BY <2>2, <2>3 DEF TodoOnPage, Todo, ChunksLooked
<1>7. CASE \E g \in Page : ChunkAction(g) \/ ListFails(g) \/ ProjectFails(g) \/ SomeTypesUnknown(g)
  BY <1>2, <1>7, UniqueChunk
<1>8. CASE \E c \in Call : \/ CallAction(c)
                           \/ \E p \in CallProject, n \in CallName : AskCreate(c, p, n)
                           \/ \E b \in branches : AskDelete(c, b)
                           \/ \E p \in CallProject : DeleteProject(c, p)
  BY <1>2, <1>8, UniqueCall
<1> QED  BY <1>4, <1>5, <1>6, <1>7, <1>8 DEF Next, MainAction

\* As long as GitLab lists the projects it listed at first, and API calls come
\* one at a time and for other branches than the default ones, no project gets a
\* second row for a branch, whatever fails or is restarted: no two goroutines,
\* of one run or of two, hold the same project between the look and the insert.
THEOREM UniqueUnlessRacedCorrect == CallsKeepOff => (Spec => []UniqueUnlessRaced)
<1> SUFFICES ASSUME CallsKeepOff
             PROVE  Spec => []UniqueUnlessRaced
  OBVIOUS
<1>1. Init => UniqueInv
  <2> SUFFICES ASSUME Init PROVE UniqueInv
    OBVIOUS
  <2>1. CallsAsked /\ CallsLooked /\ ChunksLooked
    BY DEF Init, CallsAsked, CallsLooked, ChunksLooked
  <2>2. TodoOnPage /\ BranchNamesUnique
    BY DEF Init, TablesInit, TodoOnPage, Todo, BranchNamesUnique
  <2>3. Len(listing) >= Len(FirstListing)
    BY GitLabAssumption DEF Init
  <2> QED  BY <2>1, <2>2, <2>3, SyncInit DEF UniqueInv
<1>2. UniqueInv /\ [Next]_vars => UniqueInv'
  BY UniqueStep
<1>3. UniqueInv => UniqueUnlessRaced
  BY DEF UniqueInv, Unmoved, UniqueUnlessRaced
<1> QED  BY <1>1, <1>2, <1>3, PTL DEF Spec

=============================================================================
