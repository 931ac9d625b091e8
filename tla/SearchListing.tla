--------------------------- MODULE SearchListing ---------------------------
(***************************************************************************)
(* Reading the tables of ProjectTables page by page while the sync and the *)
(* API write them.  Service.addProjectsToQueue lists the projects of a     *)
(* package type and queues their branches; a worker attaches what it finds *)
(* to branch rows that may be gone by then.  A client of the API leafs     *)
(* through the projects, all of them or those a query matches.             *)
(*                                                                         *)
(* PackageSearch has a constant catalog instead, and everything else of a  *)
(* search.  The queries have no ORDER BY: rows come in the order of the    *)
(* primary key, as InnoDB groups by it.                                    *)
(***************************************************************************)
EXTENDS ProjectTables, SequencesExt

CONSTANTS
    SearchType,   \* the package type of the search
    FirstTypes,   \* the types of the projects in the tables at the start
    FirstRows,    \* and their rows of project_branches
    FirstID,      \* and its AUTO_INCREMENT
    PageSize,     \* projects per page, of the search (50) and of the client
    IdLimit,      \* whole ids that GROUP_CONCAT's maximum of 1024 bytes holds
    NameLimit,    \* and whole names
    Containing,   \* <<project, name>>: the branches that contain the package
    Matching,     \* the projects whose name the client's query matches
    MaxWrites     \* bound on statements that change the tables

CutName == "cut"

ASSUME ProjectsFinite == IsFiniteSet(Project)
ASSUME TypeAssumption == SearchType \in PackageType
ASSUME CutNameAssumption == CutName \notin Name
ASSUME FirstAssumption ==
    /\ DOMAIN FirstTypes \subseteq Project
    /\ \A p \in DOMAIN FirstTypes : FirstTypes[p] \subseteq PackageType
    /\ FirstRows \subseteq [id : Nat \ {0}, project : DOMAIN FirstTypes, name : Name]
    /\ IsFiniteSet(FirstRows)
    /\ \A b, c \in FirstRows : b.id = c.id => b = c
    /\ FirstID \in Nat \ {0} /\ \A b \in FirstRows : b.id < FirstID
ASSUME SizesAssumption ==
    PageSize \in Nat \ {0} /\ IdLimit \in Nat /\ NameLimit \in Nat /\ MaxWrites \in Nat
ASSUME DataAssumption == Containing \subseteq Project \X Name /\ Matching \subseteq Project

VARIABLES
    lpage,     \* the page addProjectsToQueue reads next, 0 when it is done
    queue,     \* the branches it has queued: [id, project, name]
    hand,      \* the one a worker has taken
    deps,      \* rows of project_dependencies, with the branch that was scanned
    failed,    \* branches reported as failed
    bpage,     \* the page the client reads next, 0 when it has seen the last
    btotal,    \* the count of the answer it is given, before its rows
    \* history of the search, and of the client:
    queued,    \* branches ever queued
    cut,       \* has GROUP_CONCAT cut off what was needed?
    mixed,     \* projects met with two rows of one name
    listed,    \* how often the search has met each project
    stable,    \* projects offered, without a break, since its listing began
    rows,      \* rows of project_branches since then
    drift,     \* changes of the listing: [out, in]
    shown, bstable, bdrift,
    writes     \* statements so far

searchVars == <<lpage, queue, queued, cut, mixed, listed>>
workerVars == <<hand, deps, failed>>
clientVars == <<bpage, btotal, shown>>
driftVars == <<stable, rows, drift, bstable, bdrift>>
vars == <<tableVars, searchVars, workerVars, clientVars, driftVars, writes>>

Item == [id : Nat, project : Project, name : Name \cup {CutName}]
NoItem == [id |-> 0]
Drift == [out : Nat, in : Nat]
NoDrift == [out |-> 0, in |-> 0]
Wanted == projects \cap Matching

TypeOK ==
    /\ TablesTypeOK
    /\ lpage \in Nat /\ bpage \in Nat
    /\ btotal \in 0..Cardinality(Project) \cup {-1}
    /\ queue \in Seq(Item) /\ queued \subseteq Item
    /\ \A i \in 1..Len(queue) : queue[i] \in queued
    /\ hand \in queued \cup {NoItem}
    /\ deps \subseteq Item
    \* the foreign key
    /\ \A d \in deps : \E b \in branches : b.id = d.id
    /\ failed \subseteq queued
    /\ cut \in BOOLEAN /\ mixed \subseteq Project
    /\ listed \in [Project -> Nat] /\ shown \in [Project -> Nat]
    /\ stable \subseteq Offered(SearchType) /\ bstable \subseteq Wanted
    /\ rows \subseteq branches
    /\ drift \in Drift /\ bdrift \in Drift
    /\ writes \in 0..MaxWrites

\* A search or a client reads: neither has to do with the other.
Init ==
    /\ projects = DOMAIN FirstTypes
    /\ branches = FirstRows
    /\ types = [p \in Project |-> IF p \in DOMAIN FirstTypes THEN FirstTypes[p] ELSE {}]
    /\ nextID = FirstID
    /\ lpage \in {0, 1} /\ bpage = 1 - lpage
    /\ queue = << >> /\ queued = {} /\ cut = FALSE /\ mixed = {}
    /\ hand = NoItem /\ deps = {} /\ failed = {}
    /\ btotal = -1
    /\ listed = [p \in Project |-> 0] /\ shown = [p \in Project |-> 0]
    /\ stable = {p \in Offered(SearchType) : lpage = 1}
    /\ bstable = {p \in Wanted : bpage = 1}
    /\ rows = FirstRows
    /\ drift = NoDrift /\ bdrift = NoDrift /\ writes = 0

----------------------------------------------------------------------------
(* LIMIT PageSize OFFSET (page - 1) * PageSize, over rows in id order.     *)

\* Mistake: the offset of the page after.
PageAfter(S, page) ==
    {p \in S : LET before == Cardinality({q \in S : q < p})
               IN (page - 1) * PageSize < before /\ before < page * PageSize}

PageOf(S, page) ==
    {p \in S : LET before == Cardinality({q \in S : q < p})
               IN (page - 1) * PageSize <= before /\ before < page * PageSize}

\* Mistake: the last name is not paired any more.
ItemsButLast(p) ==
    {y \in Zipped(p) : RowRank(p, y.id) + 1 < Cardinality(BranchesOf(p))}

\* The ids and the names of a project's branches are two strings, each cut at
\* the maximum.  Of the id that is cut a prefix remains (in decimal), of the
\* name some text; what follows is lost, and so is an id without a name.
Items(p) ==
    {[id |-> IF RowRank(p, z.id) < IdLimit THEN z.id ELSE z.id \div 10,
      project |-> p,
      name |-> IF RowRank(p, z.id) < NameLimit THEN z.name ELSE CutName] :
        z \in {y \in Zipped(p) : RowRank(p, y.id) <= IdLimit /\ RowRank(p, y.id) <= NameLimit}}
\* There are no more pairs than names: ids beyond them may be cut and are not missed.
NamesOf(p) == {b.name : b \in BranchesOf(p)}
Crowded(p) == Cardinality(NamesOf(p)) > IdLimit \/ Cardinality(NamesOf(p)) > NameLimit

\* A name has two rows, so that the lists of ids and of names do not fit.
Mixed(p) == \E b, c \in BranchesOf(p) : b # c /\ b.name = c.name

NoWrite == UNCHANGED <<tableVars, driftVars, writes>>

\* One page is read and its branches pushed; an empty page ends the listing.
ListPage ==
    LET page == PageOf(Offered(SearchType), lpage)
        items == UNION {Items(p) : p \in page}
    IN /\ lpage # 0
       /\ lpage' = IF page = {} THEN 0 ELSE lpage + 1
       /\ queue' = queue \o SetToSeq(items)
       /\ queued' = queued \cup items
       /\ cut' = (cut \/ \E p \in page : Crowded(p))
       /\ mixed' = mixed \cup {p \in page : Mixed(p)}
       /\ listed' = [p \in Project |-> IF p \in page THEN listed[p] + 1 ELSE listed[p]]
       /\ UNCHANGED <<workerVars, clientVars>> /\ NoWrite

\* A worker begins when the search is listed.
Take ==
    /\ lpage = 0 /\ hand = NoItem /\ queue # << >>
    /\ hand' = Head(queue) /\ queue' = Tail(queue)
    /\ UNCHANGED <<lpage, queued, cut, mixed, listed, deps, failed, clientVars>> /\ NoWrite

\* GitLab is asked by project and name of the branch: its row plays no part.
ScanNothing ==
    /\ hand # NoItem /\ <<hand.project, hand.name>> \notin Containing
    /\ hand' = NoItem
    /\ UNCHANGED <<searchVars, deps, failed, clientVars>> /\ NoWrite

\* Mistake: a row for the branch is looked up by its name, not its id.
AttachByName ==
    /\ hand # NoItem /\ <<hand.project, hand.name>> \in Containing
    /\ hand' = NoItem
    /\ IF \E b \in branches : b.name = hand.name
       THEN /\ \E b \in branches :
                b.name = hand.name /\ deps' = deps \cup {[hand EXCEPT !.id = b.id]}
            /\ UNCHANGED failed
       ELSE failed' = failed \cup {hand} /\ UNCHANGED deps
    /\ UNCHANGED <<searchVars, clientVars>> /\ NoWrite

\* The foreign key refuses a branch whose row is gone, and it is reported.
Attach ==
    /\ hand # NoItem /\ <<hand.project, hand.name>> \in Containing
    /\ hand' = NoItem
    /\ IF \E b \in branches : b.id = hand.id
       THEN deps' = deps \cup {hand} /\ UNCHANGED failed
       ELSE failed' = failed \cup {hand} /\ UNCHANGED deps
    /\ UNCHANGED <<searchVars, clientVars>> /\ NoWrite

----------------------------------------------------------------------------
(* A client of GET /internal/projects, with or without a query.            *)

CountProjects ==
    /\ bpage # 0 /\ btotal = -1
    /\ btotal' = Cardinality(Wanted)
    /\ UNCHANGED <<searchVars, workerVars, bpage, shown>> /\ NoWrite

\* Mistake: the remainder makes no page of its own.
WholePages(total) == IF total < PageSize THEN 1 ELSE total \div PageSize

\* Rounded up, and never 0.
TotalPages(total) ==
    IF total = 0 THEN 1 ELSE (total + PageSize - 1) \div PageSize

\* The rows are another statement, with the same condition on the name.
ClientRows == PageOf(Wanted, bpage)

\* The client goes on to the last page that the answer names.
ReadProjects ==
    LET page == ClientRows
    IN /\ bpage # 0 /\ btotal # -1
       /\ bpage' = IF bpage < TotalPages(btotal) THEN bpage + 1 ELSE 0
       /\ btotal' = -1
       /\ shown' = [p \in Project |-> IF p \in page THEN shown[p] + 1 ELSE shown[p]]
       /\ UNCHANGED <<searchVars, workerVars>> /\ NoWrite

----------------------------------------------------------------------------
(* What the sync and the API write.  History: a listing that is under way  *)
(* sees projects come and go.                                              *)

Drifted(d, before, after) ==
    [out |-> d.out + Cardinality(before \ after), in |-> d.in + Cardinality(after \ before)]

Write ==
    /\ writes < MaxWrites /\ writes' = writes + 1
    /\ stable' = stable \cap Offered(SearchType)'
    /\ rows' = rows \cap branches'
    /\ drift' = IF lpage = 0 THEN drift
                ELSE Drifted(drift, Offered(SearchType), Offered(SearchType)')
    /\ bstable' = bstable \cap Wanted'
    /\ bdrift' = IF bpage = 0 THEN bdrift ELSE Drifted(bdrift, Wanted, Wanted')
    /\ UNCHANGED <<searchVars, clientVars, hand, failed>>

\* ON DELETE CASCADE takes the dependencies of a branch along.
Cascade == deps' = {d \in deps : \E b \in branches' : b.id = d.id}

\* Mistake: dependencies have no foreign key.
DropBranchOnly(b) == DeleteBranchRow(b.id) /\ Write /\ UNCHANGED deps

NewProject(p) == p \notin projects /\ UpSert(p) /\ Write /\ UNCHANGED deps
SetTypes(p, ts) == ts # types[p] /\ SyncPackageTypes(p, ts) /\ Write /\ UNCHANGED deps
\* The insert: whether the name was free was asked in a statement before, and
\* no key of the table asks again.
AddBranch(p, n) == CreateBranchRow(p, n) /\ Write /\ UNCHANGED deps
DropBranch(b) == DeleteBranchRow(b.id) /\ Write /\ Cascade
DropProject(p) == DeleteProjectRow(p) /\ Write /\ Cascade

Writes ==
    \/ \E p \in Project : NewProject(p)
    \/ \E p \in projects : \/ \E ts \in SUBSET PackageType \ {{}} : SetTypes(p, ts)
                           \/ \E n \in Name : AddBranch(p, n)
                           \/ DropProject(p)
    \/ \E b \in branches : DropBranch(b)

Next ==
    \/ ListPage \/ Take \/ ScanNothing \/ Attach
    \/ CountProjects \/ ReadProjects
    \/ Writes

Spec == Init /\ [][Next]_vars

----------------------------------------------------------------------------

\* A project that is offered all the time is skipped by the search only if
\* another one left the pages before it meanwhile, and is met twice only if
\* one came in: each change of the listing shifts one project at most.
Repeats(seen, S) == {p \in S : seen[p] > 1}
SearchDrifts ==
    lpage = 0 =>
        /\ Cardinality({p \in stable : listed[p] = 0}) <= drift.out
        /\ Cardinality(Repeats(listed, stable)) <= drift.in

\* The same of a client that leafs through the projects: the count it goes by
\* may be older than the rows, so that newcomers can hide the last ones too.
ClientDrifts ==
    bpage = 0 =>
        /\ Cardinality({p \in bstable : shown[p] = 0}) <= bdrift.out + bdrift.in
        /\ Cardinality(Repeats(shown, bstable)) <= bdrift.in

\* Every branch that has been there all the time, of a project the search has
\* met, is queued under its name, unless the project has more names than the
\* strings hold: also where a name has two rows, so that nothing is left unscanned.
\* It is queued under its own id as well, unless the project was met like that.
QueuedUnlessCut ==
    \A b \in rows :
        lpage = 0 /\ b.project \in stable /\ listed[b.project] > 0 /\ ~cut =>
            /\ \E q \in queued : q.project = b.project /\ q.name = b.name
            /\ b.project \notin mixed => b \in queued

\* A dependency belongs to the branch it was found on, however late the scan
\* comes; in a project that was met with two rows of one name, to one of its
\* branches at least.  If a list of ids was cut, not even that: what is left of
\* an id may be the id of another project's branch.
AttachedWhereFound ==
    ~cut => \A d \in deps : \E b \in branches :
                /\ b.id = d.id /\ b.project = d.project
                /\ b.name = d.name \/ d.project \in mixed

\* The row of a branch that is reported as failed is gone, for good: no other
\* branch is ever taken for it, although its item may wait for hours.
OnlyGoneFail == \A f \in failed : \A b \in branches : b.id # f.id

=============================================================================
