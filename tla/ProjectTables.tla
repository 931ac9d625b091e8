--------------------------- MODULE ProjectTables ---------------------------
(***************************************************************************)
(* The MySQL tables of projects, their branches and their package types,   *)
(* and the statements of the project and branch repositories over them.    *)
(* A statement, or a transaction, is one atomic effect.  Names and urls of *)
(* projects are left out: nothing is decided on them.                      *)
(***************************************************************************)
EXTENDS Integers, FiniteSets

CONSTANTS
    Project,        \* GitLab ids of projects, the primary key
    Name,           \* names of branches, those equal under the column's
                    \* case-insensitive collation taken as one
    PackageType     \* rows of table package_types

ASSUME ProjectAssumption == Project \subseteq Nat \ {0}

VARIABLES
    projects,       \* rows of table projects
    branches,       \* rows of table project_branches: [id, project, name]
    types,          \* table project_package_types, the types of each project
    nextID          \* AUTO_INCREMENT of project_branches, never used again

tableVars == <<projects, branches, types, nextID>>

TablesTypeOK ==
    /\ projects \subseteq Project
    /\ branches \subseteq [id : Nat, project : Project, name : Name]
    /\ types \in [Project -> SUBSET PackageType]
    /\ nextID \in Nat \ {0}

TablesInit ==
    /\ projects = {}
    /\ branches = {}
    /\ types = [p \in Project |-> {}]
    /\ nextID = 1

----------------------------------------------------------------------------
(* Reads.                                                                  *)

BranchesOf(p) == {b \in branches : b.project = p}
\* Mistake: WHERE name = ? without the project.
BranchNamed(p, n) == \E b \in branches : b.name = n
BranchExists(p, n) == \E b \in BranchesOf(p) : b.name = n

\* The projects StartSearch lists for a package type: those of the type, and
\* those that have no type at all.
Offered(t) == {p \in projects : t \in types[p] \/ types[p] = {}}

\* A listed project carries two strings, the distinct ids and the distinct
\* names of its branches, each in row order, and toDetailedDomain pairs the
\* first id with the first name, and so on.
RowRank(p, i) == Cardinality({b \in BranchesOf(p) : b.id < i})
NameRank(p, n) ==
    Cardinality({m \in Name : \E b \in BranchesOf(p) :
                    /\ b.name = m
                    /\ \A c \in BranchesOf(p) : c.name = n => b.id < c.id})
Paired(p) ==
    {x \in BranchesOf(p) \X {a.name : a \in BranchesOf(p)} :
        RowRank(p, x[1].id) = NameRank(p, x[2])}
Zipped(p) == {[id |-> x[1].id, project |-> p, name |-> x[2]] : x \in Paired(p)}

----------------------------------------------------------------------------
(* Writes.  The foreign keys refuse branches and types of a project that   *)
(* is not there, and a deleted project takes them along.                   *)

UpSert(p) ==
    /\ projects' = projects \cup {p}
    /\ UNCHANGED <<branches, types, nextID>>

\* Mistake: the id of the last row, once it is deleted, is given out again.
CreateReusingID(p, n) ==
    LET last == CHOOSE i \in 0..nextID :
                    /\ \A b \in branches : b.id <= i
                    /\ i = 0 \/ \E b \in branches : b.id = i
    IN /\ p \in projects
       /\ branches' = branches \cup {[id |-> last + 1, project |-> p, name |-> n]}
       /\ nextID' = nextID + 1
       /\ UNCHANGED <<projects, types>>

CreateBranchRow(p, n) ==
    /\ p \in projects
    /\ branches' = branches \cup {[id |-> nextID, project |-> p, name |-> n]}
    /\ nextID' = nextID + 1
    /\ UNCHANGED <<projects, types>>

SyncPackageTypes(p, ts) ==
    /\ p \in projects
    /\ types' = [types EXCEPT ![p] = ts]
    /\ UNCHANGED <<projects, branches, nextID>>

DeleteBranchRow(i) ==
    /\ branches' = {b \in branches : b.id # i}
    /\ UNCHANGED <<projects, types, nextID>>

DeleteProjectRow(p) ==
    /\ projects' = projects \ {p}
    /\ branches' = branches \ BranchesOf(p)
    /\ types' = [types EXCEPT ![p] = {}]
    /\ UNCHANGED nextID

=============================================================================
