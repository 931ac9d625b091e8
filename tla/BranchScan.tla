----------------------------- MODULE BranchScan -----------------------------
(***************************************************************************)
(* What Service.ProcessProject does with one branch after another, from    *)
(* the choice of a file finder and a package manager to the package type a *)
(* dependency is stored under.  PackageSearch knows it as the step "scan". *)
(*                                                                         *)
(* GitLab answers a search for the package's name with pages of blobs:     *)
(* snippets of files that contain the name somewhere, which a longer name  *)
(* does too.  Of a snippet the parsers tell three things: whether the name *)
(* stands there by itself, the version next to it, and the first version   *)
(* in the snippet, whatever package it belongs to.                         *)
(***************************************************************************)
EXTENDS Integers, Sequences

CONSTANTS
    PackageType,  \* the types searches ask for, registered or not
    Version,      \* versions and version constraints
    Scans,        \* the sequences of scans a worker may have before it, each
                  \* with the type of its search and the blobs GitLab finds
    PerPage,      \* blobs per page of an answer (GitLab's default of 20)
    MaxFaults     \* bound on failing calls of GitLab and MySQL

None == "none"

\* GetFilePatterns of the three managers, by the name they register under.
ComposerPatterns == [manifests |-> {"composer.json"}, lockfiles |-> {"composer.lock"}]
GoPatterns == [manifests |-> {"go.mod"}, lockfiles |-> {"go.sum"}]
NpmPatterns == [manifests |-> {"package.json"},
    lockfiles |-> {"package-lock.json", "yarn.lock", "pnpm-lock.yaml", "bun.lock"}]
Managers == [composer |-> ComposerPatterns, go |-> GoPatterns, npm |-> NpmPatterns]
Registered == DOMAIN Managers

FileName == {"README.md", "composer.json", "go.mod", "package.json", "composer.lock",
             "go.sum", "package-lock.json", "yarn.lock", "pnpm-lock.yaml", "bun.lock"}

\* named: the snippet has the package's own name, and not only a longer one;
\* own: the version it states for it, if that lies within the snippet; first:
\* the first one, of a longer name or a neighbour perhaps.
Blob == {b \in [file : FileName, named : BOOLEAN,
                own : Version \cup {None}, first : Version \cup {None}] :
            b.own # None => b.named}

ASSUME NoneIsNoVersion == None \notin Version
ASSUME ScansAssumption == Scans \subseteq Seq([type : PackageType, hits : Seq(Blob)])
ASSUME PerPageAssumption == PerPage \in Nat \ {0}
ASSUME FaultsAssumption == MaxFaults \in Nat

VARIABLES
    scans,      \* the branches to scan
    branch,     \* the number of the one in hand
    pc,         \* where ProcessProject is with it
    read,       \* allBlobs: how many blobs have been fetched
    at,         \* files: the number of the next one to parse
    constraint, resolved, source, priority, \* the locals of ParseDependency
    outcome,    \* per branch: "pending", "nothing", "reported" or "found"
    result,     \* what is stored for a branch that was found
    cached,     \* the cache of package types of this process, by name
    faults      \* failures so far

parseVars == <<constraint, resolved, source, priority>>
vars == <<scans, branch, pc, read, at, parseVars, outcome, result, cached, faults>>

NoResult == [constraint |-> None, resolved |-> None, source |-> None, type |-> None]
Result == [constraint : Version \cup {None}, resolved : Version \cup {None},
           source : FileName \cup {None}, type : PackageType \cup {None}]
NoLock == 999

Branch == 1..Len(scans)
Ty == scans[branch].type
Hits == scans[branch].hits

\* One conjunct per variable; a blob is read before it is parsed.
TypeOK ==
    /\ scans \in Seq([type : PackageType, hits : Seq(Blob)])
    /\ branch \in 1..Len(scans) + 1
    /\ pc \in {"factory", "find", "parse", "type"}
    /\ read \in Nat /\ at \in Nat \ {0}
    /\ branch \in Branch => read <= Len(Hits) /\ at <= read + 1
    /\ constraint \in Version \cup {None} /\ resolved \in Version \cup {None}
    /\ source \in FileName \cup {None} /\ priority \in Nat
    /\ outcome \in [Branch -> {"pending", "nothing", "reported", "found"}]
    /\ result \in [Branch -> Result]
    /\ cached \in [PackageType -> PackageType \cup {None}]
    /\ faults \in 0..MaxFaults

Init ==
    /\ scans \in Scans
    /\ branch = 1 /\ pc = "factory" /\ read = 0 /\ at = 1
    /\ constraint = None /\ resolved = None /\ source = None /\ priority = NoLock
    /\ outcome = [b \in Branch |-> "pending"]
    /\ result = [b \in Branch |-> NoResult]
    /\ cached = [t \in PackageType |-> None]
    /\ faults = 0

----------------------------------------------------------------------------
(* What the parsers read in a snippet.                                     *)

\* The files the finder hands to the parser of type t, with their kind.
IsManifest(t, file) == file \in Managers[t].manifests
IsLockfile(t, file) == file \in Managers[t].lockfiles

\* lockFilePriority of npm.
Rank(file) ==
    CASE file = "yarn.lock" -> 2 [] file = "pnpm-lock.yaml" -> 3
      [] file = "bun.lock" -> 4 [] OTHER -> 1

\* The patterns of the manifests, of go.sum and of pnpm-lock.yaml contain the
\* name of the package.
ParsePackageJson(blob) == blob.own
ParseComposerJson(blob) == blob.own
ParseGoMod(blob) == blob.own
ParseGoSum(blob) == blob.own
ParsePnpmLock(blob) == blob.own

\* The first version of the snippet, whatever package it belongs to.
ParsePackageLock(blob) == blob.first
ParseYarnLock(blob) == blob.first

\* The first version as a second choice.
ParseBunLock(blob) == IF blob.own # None THEN blob.own ELSE blob.first

\* Mistake: composer.lock is read like package-lock.json.
ParseComposerUnnamed(blob) == blob.first

\* The first version, if the snippet names the package; nobody asks whether the
\* two belong together.
ParseComposerLock(blob) == IF blob.named THEN blob.first ELSE None

ParseManifest(blob) ==
    CASE blob.file = "package.json"  -> ParsePackageJson(blob)
      [] blob.file = "composer.json" -> ParseComposerJson(blob)
      [] blob.file = "go.mod"        -> ParseGoMod(blob)

ParseLockfile(blob) ==
    CASE blob.file = "package-lock.json" -> ParsePackageLock(blob)
      [] blob.file = "yarn.lock"         -> ParseYarnLock(blob)
      [] blob.file = "pnpm-lock.yaml"    -> ParsePnpmLock(blob)
      [] blob.file = "bun.lock"          -> ParseBunLock(blob)
      [] blob.file = "composer.lock"     -> ParseComposerLock(blob)
      [] blob.file = "go.sum"            -> ParseGoSum(blob)

----------------------------------------------------------------------------

Step(from, to) == branch \in Branch /\ pc = from /\ pc' = to

\* ProcessProject is done with the branch; the next job begins with nothing.
Finish(how) ==
    /\ outcome' = [outcome EXCEPT ![branch] = how]
    /\ branch' = branch + 1
    /\ read' = 0 /\ at' = 1
    /\ constraint' = None /\ resolved' = None /\ source' = None /\ priority' = NoLock
    /\ UNCHANGED scans

\* Both factories have the same types registered.
GetManager ==
    /\ Step("factory", "find") /\ Ty \in Registered
    /\ UNCHANGED <<scans, branch, read, at, parseVars, outcome, result, cached, faults>>

\* Get returns an error, which is logged: nobody is told.
NotRegistered ==
    /\ Step("factory", "factory") /\ Ty \notin Registered
    /\ Finish("nothing")
    /\ UNCHANGED <<result, cached, faults>>

\* Mistake: the options of the request keep naming the first page.
FetchFirstPage ==
    LET last == IF PerPage < Len(Hits) THEN PerPage ELSE Len(Hits)
    IN /\ Step("find", IF last = Len(Hits) THEN "parse" ELSE "find")
       /\ read' = last
       /\ UNCHANGED <<scans, branch, at, parseVars, outcome, result, cached, faults>>

\* Mistake: a full page is taken whole although fewer blobs are left.
FetchFullPage ==
    /\ Step("find", IF read + PerPage >= Len(Hits) THEN "parse" ELSE "find")
    /\ read' = read + PerPage
    /\ UNCHANGED <<scans, branch, at, parseVars, outcome, result, cached, faults>>

\* BlobsByProject, until a page names no next one.
FetchPage ==
    LET last == IF read + PerPage < Len(Hits) THEN read + PerPage ELSE Len(Hits)
    IN /\ Step("find", IF last = Len(Hits) THEN "parse" ELSE "find")
       /\ read' = last
       /\ UNCHANGED <<scans, branch, at, parseVars, outcome, result, cached, faults>>

\* The loop is left early when nothing can get better.
Enough ==
    /\ constraint # None
    /\ IF Ty = "npm" THEN priority = 1 ELSE resolved # None
Parsing ==
    /\ Step("parse", "parse") /\ at <= read /\ ~Enough
    /\ at' = at + 1
    /\ UNCHANGED <<scans, branch, read, outcome, result, cached, faults>>

\* The first manifest that states the package gives the constraint.
ReadManifest ==
    LET own == ParseManifest(Hits[at])
    IN /\ Parsing
       /\ IsManifest(Ty, Hits[at].file) /\ constraint = None
       /\ constraint' = own
       /\ source' = IF own # None /\ source = None THEN Hits[at].file ELSE source
       /\ UNCHANGED <<resolved, priority>>

\* Mistake: a lock file of the same rank takes the place of an earlier one.
LockfileWinsTies ==
    LET version == ParseLockfile(Hits[at])
    IN /\ Parsing
       /\ Ty = "npm"
       /\ IsLockfile(Ty, Hits[at].file) /\ Rank(Hits[at].file) <= priority
       /\ IF version = None
          THEN UNCHANGED <<resolved, source, priority>>
          ELSE /\ resolved' = version
               /\ source' = Hits[at].file
               /\ priority' = Rank(Hits[at].file)
       /\ UNCHANGED constraint

\* npm: a lock file of a better rank gives the version, and the source.
ReadBetterLockfile ==
    LET version == ParseLockfile(Hits[at])
    IN /\ Parsing
       /\ Ty = "npm"
       /\ IsLockfile(Ty, Hits[at].file) /\ Rank(Hits[at].file) < priority
       /\ IF version = None
          THEN UNCHANGED <<resolved, source, priority>>
          ELSE /\ resolved' = version
               /\ source' = Hits[at].file
               /\ priority' = Rank(Hits[at].file)
       /\ UNCHANGED constraint

\* The others: the first lock file that states the package gives them.
ReadLockfile ==
    LET version == ParseLockfile(Hits[at])
    IN /\ Parsing
       /\ Ty # "npm"
       /\ IsLockfile(Ty, Hits[at].file) /\ resolved = None
       /\ resolved' = version
       /\ source' = IF version = None THEN source ELSE Hits[at].file
       /\ UNCHANGED <<constraint, priority>>

\* A file the finder does not hand over, or the parser has no use for.
SkipFile ==
    /\ Parsing
    /\ IsManifest(Ty, Hits[at].file) => constraint # None
    /\ IsLockfile(Ty, Hits[at].file) =>
           IF Ty = "npm" THEN Rank(Hits[at].file) >= priority ELSE resolved # None
    /\ UNCHANGED parseVars

Parsed == pc = "parse" /\ (at > read \/ Enough)

NotFound ==
    /\ Step("parse", "factory") /\ Parsed
    /\ constraint = None /\ resolved = None
    /\ Finish("nothing")
    /\ UNCHANGED <<result, cached, faults>>

Found ==
    /\ Step("parse", "type") /\ Parsed
    /\ constraint # None \/ resolved # None
    /\ UNCHANGED <<scans, branch, read, at, parseVars, outcome, result, cached, faults>>

\* The row goes to MySQL with the id of its type.
Store(dbType) ==
    result' = [result EXCEPT ![branch] =
        [constraint |-> constraint, resolved |-> resolved, source |-> source,
         type |-> dbType]]

\* Mistake: the cache has one key for all names.
TypeCachedUnderAny ==
    /\ Step("type", "factory")
    /\ \E t \in PackageType : cached[t] # None /\ Store(cached[t])
    /\ Finish("found")
    /\ UNCHANGED <<cached, faults>>

TypeCached ==
    /\ Step("type", "factory") /\ cached[Ty] # None
    /\ Store(cached[Ty])
    /\ Finish("found")
    /\ UNCHANGED <<cached, faults>>

TypeRead ==
    /\ Step("type", "factory") /\ cached[Ty] = None
    /\ Store(Ty)
    /\ Finish("found")
    /\ cached' = [cached EXCEPT ![Ty] = Ty]
    /\ UNCHANGED faults

\* A page of blobs, or the row of the package type, cannot be read.  Neither
\* an error nor a half read answer is kept.
CallFails ==
    /\ faults < MaxFaults /\ faults' = faults + 1
    /\ Step("find", "factory") \/ (Step("type", "factory") /\ cached[Ty] = None)
    /\ Finish("reported")
    /\ UNCHANGED <<result, cached>>

\* A type is kept for 24 hours.
CacheExpires ==
    /\ \E t \in PackageType : cached[t] # None /\ cached' = [cached EXCEPT ![t] = None]
    /\ UNCHANGED <<scans, branch, pc, read, at, parseVars, outcome, result, faults>>

Process ==
    \/ GetManager \/ NotRegistered \/ FetchPage
    \/ ReadManifest \/ ReadBetterLockfile \/ ReadLockfile \/ SkipFile
    \/ NotFound \/ Found
    \/ TypeCached \/ TypeRead

Next == Process \/ CallFails \/ CacheExpires

Spec == Init /\ [][Next]_vars

\* ProcessProject runs to its end; what fails or expires need not.
FairSpec == Spec /\ WF_vars(Process)

----------------------------------------------------------------------------
(* What a scan promises.                                                   *)

\* The files that state a constraint, and those that state a version.
Naming(t, h) == {i \in 1..Len(h) : IsManifest(t, h[i].file) /\ ParseManifest(h[i]) # None}
Locking(t, h) == {i \in 1..Len(h) : IsLockfile(t, h[i].file) /\ ParseLockfile(h[i]) # None}
Earliest(S, i) == i \in S /\ \A j \in S : i <= j
Before(h, i, j) ==
    \/ Rank(h[i].file) < Rank(h[j].file)
    \/ Rank(h[i].file) = Rank(h[j].file) /\ i <= j
Best(h, S, i) == i \in S /\ \A j \in S : Before(h, i, j)

\* The constraint is that of the earliest manifest that states the package,
\* the version and the source those of the best lock file, the earliest of
\* its rank, or else the source is the manifest: wherever the pages of the
\* answer end and however early the loop over the files is left.
IsBest(t, h, r) ==
    /\ IF Naming(t, h) = {} THEN r.constraint = None
       ELSE \E i \in Naming(t, h) :
                Earliest(Naming(t, h), i) /\ r.constraint = ParseManifest(h[i])
    /\ IF Locking(t, h) = {} THEN r.resolved = None
       ELSE \E i \in Locking(t, h) :
                /\ Best(h, Locking(t, h), i)
                /\ r.resolved = ParseLockfile(h[i]) /\ r.source = h[i].file
    /\ Locking(t, h) = {} /\ Naming(t, h) # {} =>
           \E i \in Naming(t, h) : Earliest(Naming(t, h), i) /\ r.source = h[i].file

\* A branch whose scan is finished has the best result its files allow, and
\* is passed over only if no file states a thing.
ResultIsBest ==
    \A b \in Branch :
        /\ outcome[b] = "found" => IsBest(scans[b].type, scans[b].hits, result[b])
        /\ outcome[b] = "nothing" /\ scans[b].type \in Registered =>
               Naming(scans[b].type, scans[b].hits) = {} /\ Locking(scans[b].type, scans[b].hits) = {}

\* A dependency is stored only for a branch of which a file names this very
\* package, and that file is its source.  The version may still be that of a
\* neighbour in composer.lock.  npm is left out: a package-lock.json that names
\* a longer package is enough there.
FoundIsNamed ==
    \A b \in Branch :
        outcome[b] = "found" /\ scans[b].type # "npm" =>
            \E i \in 1..Len(scans[b].hits) :
                scans[b].hits[i].file = result[b].source /\ scans[b].hits[i].named

\* A dependency is stored under the type of its search, whatever searches of
\* other types have left in the cache.
StoredUnderItsType ==
    \A b \in Branch : outcome[b] = "found" => result[b].type = scans[b].type

\* Every branch is answered, however many pages GitLab finds.
EveryBranchAnswered == <>(\A b \in Branch : outcome[b] # "pending")

=============================================================================
