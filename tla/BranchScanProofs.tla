------------------------- MODULE BranchScanProofs --------------------------
(* Theorems about BranchScan: for any number of branches, files and pages, *)
(* any types of packages and any failures.                                 *)
EXTENDS BranchScan, TLAPS, SequenceTheorems

----------------------------------------------------------------------------
(* What the parsers return.                                                *)

LEMMA ManifestParsed ==
    ASSUME NEW t \in Registered, NEW blob \in Blob, IsManifest(t, blob.file)
    PROVE  /\ ParseManifest(blob) = blob.own
           /\ ParseManifest(blob) # None => blob.named
<1>1. blob.file \in {"package.json", "composer.json", "go.mod"}
  BY DEF IsManifest, Registered, Managers, NpmPatterns, ComposerPatterns, GoPatterns
<1> QED
  BY <1>1
  DEF ParseManifest, ParsePackageJson, ParseComposerJson, ParseGoMod, Blob

\* Only the lock files of npm need not name the package at all.
LEMMA LockfileParsed ==
    ASSUME NEW t \in Registered, NEW blob \in Blob, IsLockfile(t, blob.file)
    PROVE  /\ ParseLockfile(blob) \in {None, blob.own, blob.first}
           /\ t # "npm" => (ParseLockfile(blob) # None => blob.named)
<1>1. CASE t = "npm"
  <2>1. blob.file \in {"package-lock.json", "yarn.lock", "pnpm-lock.yaml", "bun.lock"}
    BY <1>1 DEF IsLockfile, Managers, NpmPatterns
  <2>2. ParseLockfile(blob) \in {blob.own, blob.first}
    BY <2>1
    DEF ParseLockfile, ParsePackageLock, ParseYarnLock, ParsePnpmLock, ParseBunLock
  <2> QED  BY <1>1, <2>2
<1>2. CASE t = "composer"
  <2>1. blob.file = "composer.lock"
    BY <1>2 DEF IsLockfile, Managers, ComposerPatterns
  <2> QED  BY <2>1 DEF ParseLockfile, ParseComposerLock
<1>3. CASE t = "go"
  <2>1. blob.file = "go.sum"
    BY <1>3 DEF IsLockfile, Managers, GoPatterns
  <2> QED  BY <2>1 DEF ParseLockfile, ParseGoSum, Blob
<1> QED  BY <1>1, <1>2, <1>3 DEF Registered, Managers

----------------------------------------------------------------------------
(* Types.                                                                  *)

\* A branch is in hand, of a registered type, while anything is done with it.
InHand ==
    pc # "factory" => branch \in Branch /\ Ty \in Registered

ScanInv == TypeOK /\ InHand

LEMMA BlobsOfScans ==
    ASSUME ScanInv, NEW b \in Branch
    PROVE  \A i \in 1..Len(scans[b].hits) : scans[b].hits[i] \in Blob
<1> DEFINE S == [type : PackageType, hits : Seq(Blob)]
<1>1. scans \in Seq(S) /\ b \in 1..Len(scans)
  BY DEF ScanInv, TypeOK, Branch
<1> HIDE DEF S
<1>2. scans[b] \in S
  BY <1>1, ElementOfSeq
<1>3. scans[b].hits \in Seq(Blob)
  BY <1>2 DEF S
<1> QED  BY <1>3

\* The branch and the blob a step works on.
LEMMA AtHand ==
    ASSUME ScanInv, branch \in Branch
    PROVE  /\ Ty \in PackageType /\ Hits \in Seq(Blob) /\ Len(Hits) \in Nat
           /\ branch \in Nat /\ branch + 1 \in 1..Len(scans) + 1
           /\ \A i \in 1..Len(Hits) : Hits[i] \in Blob
<1>1. branch \in 1..Len(scans) /\ Len(scans) \in Nat
  BY DEF ScanInv, TypeOK, Branch
<1>2. scans[branch] \in [type : PackageType, hits : Seq(Blob)]
  <2> DEFINE S == [type : PackageType, hits : Seq(Blob)]
  <2>1. scans \in Seq(S)
    BY DEF ScanInv, TypeOK
  <2> HIDE DEF S
  <2>2. scans[branch] \in S
    BY <1>1, <2>1, ElementOfSeq
  <2> QED  BY <2>2 DEF S
<1>3. Ty \in PackageType /\ Hits \in Seq(Blob)
  BY <1>2 DEF Ty, Hits
<1>4. Len(Hits) \in Nat /\ \A i \in 1..Len(Hits) : Hits[i] \in Blob
  BY <1>3
<1> QED  BY <1>1, <1>3, <1>4

LEMMA BlobType ==
    ASSUME NEW blob \in Blob
    PROVE  /\ blob.file \in FileName
           /\ blob.own \in Version \cup {None} /\ blob.first \in Version \cup {None}
BY DEF Blob

LEMMA StillAhead ==
    ASSUME NEW a \in Nat, NEW b \in Nat, NEW c \in Nat, a <= b + 1, b <= c
    PROVE  a <= c + 1
OBVIOUS

\* A branch is done with, in one way or another.
LEMMA FinishType ==
    ASSUME ScanInv, branch \in Branch, NEW how \in {"nothing", "reported", "found"},
           Finish(how), pc' = "factory",
           result' \in [Branch -> Result],
           cached' \in [PackageType -> PackageType \cup {None}],
           faults' \in 0..MaxFaults
    PROVE  ScanInv'
<1>1. scans' = scans /\ Branch' = Branch
  BY DEF Finish, Branch
<1>2. outcome' \in [Branch -> {"pending", "nothing", "reported", "found"}]
  BY DEF Finish, ScanInv, TypeOK
<1>3. branch' \in 1..Len(scans) + 1
  BY AtHand DEF Finish
<1>4. branch' \in Branch => Len(scans[branch'].hits) \in Nat
  BY <1>1 DEF ScanInv, TypeOK, Branch
<1>5. TypeOK'
  BY <1>1, <1>2, <1>3, <1>4 DEF Finish, ScanInv, TypeOK, NoLock, Hits
<1> QED  BY <1>5 DEF ScanInv, InHand

LEMMA StoreType ==
    ASSUME ScanInv, branch \in Branch, NEW t \in PackageType, Store(t)
    PROVE  result' \in [Branch -> Result]
<1>1. [constraint |-> constraint, resolved |-> resolved, source |-> source, type |-> t]
        \in Result
  BY DEF Result, ScanInv, TypeOK
<1> QED  BY <1>1 DEF Store, ScanInv, TypeOK

LEMMA ParsingType ==
    ASSUME ScanInv, Parsing,
           constraint' \in Version \cup {None}, resolved' \in Version \cup {None},
           source' \in FileName \cup {None}, priority' \in Nat
    PROVE  ScanInv'
<1>1. branch \in Branch /\ pc' = "parse" /\ pc = "parse" /\ at <= read /\ at' = at + 1
  BY DEF Parsing, Step
<1>2. UNCHANGED <<scans, branch, read, outcome, result, cached, faults>>
  BY DEF Parsing
<1>3. Branch' = Branch /\ Hits' = Hits /\ Ty' = Ty
  BY <1>2 DEF Branch, Hits, Ty
<1> QED  BY <1>1, <1>2, <1>3 DEF ScanInv, InHand, TypeOK

LEMMA ScanStep ==
    ASSUME ScanInv, [Next]_vars
    PROVE  ScanInv'
<1>1. CASE GetManager \/ Found
  <2>1. UNCHANGED <<scans, branch, read, at, parseVars, outcome, result, cached, faults>>
    BY <1>1 DEF GetManager, Found
  <2>2. branch \in Branch /\ pc' \in {"find", "type"} /\ Ty \in Registered
    BY <1>1 DEF GetManager, Found, Step, ScanInv, InHand
  <2> QED
    BY <2>1, <2>2 DEF ScanInv, InHand, TypeOK, parseVars, Branch, Ty, Hits
<1>2. CASE FetchPage
  <2>1. branch \in Branch /\ pc = "find" /\ pc' \in {"find", "parse"}
    BY <1>2 DEF FetchPage, Step
  <2>2. read' \in Nat /\ read' <= Len(Hits) /\ read <= read'
    BY <1>2, <2>1, AtHand, PerPageAssumption DEF FetchPage, ScanInv, TypeOK
  <2>3. UNCHANGED <<scans, branch, at, parseVars, outcome, result, cached, faults>>
    BY <1>2 DEF FetchPage
  <2>4. at' \in Nat /\ at' <= read' + 1
    <3>1. at \in Nat /\ read \in Nat /\ at <= read + 1 /\ at' = at
      BY <2>1, <2>3 DEF ScanInv, TypeOK
    <3> QED  BY <2>2, <3>1, StillAhead
  <2>5. Branch' = Branch /\ Hits' = Hits /\ Ty' = Ty
    BY <2>3 DEF Branch, Hits, Ty
  <2>6. TypeOK'
    BY <2>1, <2>2, <2>3, <2>4, <2>5 DEF ScanInv, TypeOK, parseVars
  <2>7. branch' = branch /\ Ty \in Registered
    BY <2>1, <2>3 DEF ScanInv, InHand
  <2>8. InHand'
    BY <2>1, <2>5, <2>7 DEF InHand
  <2> QED  BY <2>6, <2>8 DEF ScanInv
<1>3. CASE ReadManifest \/ ReadBetterLockfile \/ ReadLockfile \/ SkipFile
  <2>1. Parsing /\ branch \in Branch /\ Ty \in Registered /\ at \in 1..Len(Hits)
    BY <1>3, AtHand
    DEF ReadManifest, ReadBetterLockfile, ReadLockfile, SkipFile, Parsing, Step,
        ScanInv, InHand, TypeOK
  <2>2. /\ Hits[at] \in Blob /\ Hits[at].file \in FileName
        /\ Hits[at].own \in Version \cup {None}
        /\ Hits[at].first \in Version \cup {None}
    BY <2>1, AtHand, BlobType
  <2>3. CASE ReadManifest
    <3>1. ParseManifest(Hits[at]) = Hits[at].own
      BY <2>1, <2>2, <2>3, ManifestParsed DEF ReadManifest
    <3> QED
      BY <2>1, <2>2, <2>3, <3>1, ParsingType DEF ReadManifest, ScanInv, TypeOK
  <2>4. CASE ReadBetterLockfile \/ ReadLockfile
    <3>1. ParseLockfile(Hits[at]) \in Version \cup {None}
      BY <2>1, <2>2, <2>4, LockfileParsed DEF ReadBetterLockfile, ReadLockfile
    <3>2. Rank(Hits[at].file) \in Nat
      BY DEF Rank
    <3> QED
      BY <2>1, <2>2, <2>4, <3>1, <3>2, ParsingType
      DEF ReadBetterLockfile, ReadLockfile, ScanInv, TypeOK
  <2>5. CASE SkipFile
    BY <2>1, <2>5, ParsingType DEF SkipFile, parseVars, ScanInv, TypeOK
  <2> QED  BY <1>3, <2>3, <2>4, <2>5
<1>4. CASE NotRegistered \/ NotFound
  BY <1>4, FinishType DEF NotRegistered, NotFound, Step, ScanInv, TypeOK
<1>5. CASE TypeCached \/ TypeRead
  <2>1. branch \in Branch /\ pc' = "factory" /\ Ty \in PackageType /\ Finish("found")
    BY <1>5, AtHand DEF TypeCached, TypeRead, Step
  <2>2. \E t \in PackageType : Store(t)
    BY <1>5, <2>1 DEF TypeCached, TypeRead, ScanInv, TypeOK
  <2>3. /\ cached' \in [PackageType -> PackageType \cup {None}]
        /\ faults' \in 0..MaxFaults
    BY <1>5, <2>1 DEF TypeCached, TypeRead, ScanInv, TypeOK
  <2> QED  BY <2>1, <2>2, <2>3, StoreType, FinishType
<1>6. CASE CallFails
  <2>1. faults' \in 0..MaxFaults
    BY <1>6, FaultsAssumption DEF CallFails, ScanInv, TypeOK
  <2> QED
    BY <1>6, <2>1, FinishType DEF CallFails, Step, ScanInv, TypeOK
<1>7. CASE CacheExpires
  <2>1. cached' \in [PackageType -> PackageType \cup {None}]
    BY <1>7 DEF CacheExpires, ScanInv, TypeOK
  <2> QED
    BY <1>7, <2>1
    DEF CacheExpires, parseVars, ScanInv, InHand, TypeOK, Branch, Ty, Hits
<1>8. CASE UNCHANGED vars
  BY <1>8 DEF vars, parseVars, ScanInv, InHand, TypeOK, Branch, Ty, Hits
<1> QED
  BY <1>1, <1>2, <1>3, <1>4, <1>5, <1>6, <1>7, <1>8 DEF Next, Process

LEMMA ScanInit ==
    ASSUME Init
    PROVE  ScanInv
<1>1. scans \in Seq([type : PackageType, hits : Seq(Blob)])
  BY ScansAssumption DEF Init
<1>2. Len(scans) \in Nat /\ (1 \in Branch => Len(scans[1].hits) \in Nat)
  <2>1. Len(scans) \in Nat
    BY <1>1
  <2> DEFINE S == [type : PackageType, hits : Seq(Blob)]
  <2>2. scans \in Seq(S)
    BY <1>1
  <2> HIDE DEF S
  <2>3. 1 \in Branch => scans[1] \in S
    BY <2>2, ElementOfSeq DEF Branch
  <2> QED  BY <2>1, <2>3 DEF S
<1>3. result \in [Branch -> Result] /\ NoLock \in Nat
  BY DEF Init, NoResult, Result, NoLock
<1> QED
  BY <1>1, <1>2, <1>3, FaultsAssumption DEF Init, ScanInv, InHand, TypeOK, Hits

\* Whatever GitLab answers and whatever fails, every local and stored value has
\* its type, and no file is parsed before it is read.
THEOREM ScanTypeCorrect == Spec => []TypeOK
<1>1. Init => ScanInv
  BY ScanInit
<1>2. ScanInv /\ [Next]_vars => ScanInv'
  BY ScanStep
<1>3. ScanInv => TypeOK
  BY DEF ScanInv
<1> QED  BY <1>1, <1>2, <1>3, PTL DEF Spec

----------------------------------------------------------------------------
(* The best of the files read so far.                                      *)

NamingTo(t, h, n) == {i \in Naming(t, h) : i <= n}
LockingTo(t, h, n) == {i \in Locking(t, h) : i <= n}

FirstNaming(t, h, n, i) == i \in NamingTo(t, h, n) /\ Earliest(NamingTo(t, h, n), i)
BestLocking(t, h, n, i) == Best(h, LockingTo(t, h, n), i)

\* What the locals of ParseDependency are after n files.
BestSoFar(t, h, n, c, r, s, p) ==
    /\ IF NamingTo(t, h, n) = {} THEN c = None
       ELSE \E i : FirstNaming(t, h, n, i) /\ c = ParseManifest(h[i])
    /\ IF LockingTo(t, h, n) = {} THEN r = None /\ p = NoLock
       ELSE \E i : /\ BestLocking(t, h, n, i)
                   /\ r = ParseLockfile(h[i]) /\ s = h[i].file
                   /\ t = "npm" => p = Rank(h[i].file)
    /\ LockingTo(t, h, n) = {} =>
           IF NamingTo(t, h, n) = {} THEN s = None
           ELSE \E i : FirstNaming(t, h, n, i) /\ s = h[i].file

\* No file is a manifest and a lock file, and only npm ranks its lock files.
LEMMA Files ==
    ASSUME NEW t \in Registered, NEW file
    PROVE  /\ ~(IsManifest(t, file) /\ IsLockfile(t, file))
           /\ t # "npm" /\ IsLockfile(t, file) => Rank(file) = 1
           /\ Rank(file) \in 1..4
<1>1. CASE t = "npm"
  BY <1>1 DEF IsManifest, IsLockfile, Managers, NpmPatterns, Rank
<1>2. CASE t = "composer"
  BY <1>2 DEF IsManifest, IsLockfile, Managers, ComposerPatterns, Rank
<1>3. CASE t = "go"
  BY <1>3 DEF IsManifest, IsLockfile, Managers, GoPatterns, Rank
<1> QED  BY <1>1, <1>2, <1>3 DEF Registered, Managers

IsNaming(t, h, i) == IsManifest(t, h[i].file) /\ ParseManifest(h[i]) # None
IsLocking(t, h, i) == IsLockfile(t, h[i].file) /\ ParseLockfile(h[i]) # None

\* One file more.
LEMMA OneMore ==
    ASSUME NEW t, NEW h, Len(h) \in Nat, NEW n \in Nat, n < Len(h)
    PROVE  /\ NamingTo(t, h, n + 1) =
                IF IsNaming(t, h, n + 1) THEN NamingTo(t, h, n) \cup {n + 1}
                ELSE NamingTo(t, h, n)
           /\ LockingTo(t, h, n + 1) =
                IF IsLocking(t, h, n + 1) THEN LockingTo(t, h, n) \cup {n + 1}
                ELSE LockingTo(t, h, n)
           /\ NamingTo(t, h, n) \subseteq 1..n /\ LockingTo(t, h, n) \subseteq 1..n
BY DEF NamingTo, LockingTo, Naming, Locking, IsNaming, IsLocking


\* A file that states nothing new to either set leaves the best as it was.
LEMMA NothingNew ==
    ASSUME NEW t, NEW h, Len(h) \in Nat, NEW n \in Nat, n < Len(h),
           NEW c, NEW r, NEW s, NEW p, BestSoFar(t, h, n, c, r, s, p),
           ~IsNaming(t, h, n + 1), ~IsLocking(t, h, n + 1)
    PROVE  BestSoFar(t, h, n + 1, c, r, s, p)
<1>1. NamingTo(t, h, n + 1) = NamingTo(t, h, n) /\ LockingTo(t, h, n + 1) = LockingTo(t, h, n)
  BY OneMore
<1> QED  BY <1>1, Zenon DEF BestSoFar, FirstNaming, BestLocking

\* What is found so far tells whether a file of its kind was there.
LEMMA SoFarNone ==
    ASSUME NEW t, NEW h, NEW n, NEW c, NEW r, NEW s, NEW p,
           BestSoFar(t, h, n, c, r, s, p)
    PROVE  /\ c = None <=> NamingTo(t, h, n) = {}
           /\ r = None <=> LockingTo(t, h, n) = {}
BY DEF BestSoFar, FirstNaming, BestLocking, Best, NamingTo, LockingTo, Naming, Locking

LEMMA ManifestStep ==
    ASSUME NEW t \in Registered, NEW h, Len(h) \in Nat, NEW n \in Nat, n < Len(h),
           \A i \in 1..Len(h) : h[i] \in Blob,
           NEW c, NEW r, NEW s, NEW p, BestSoFar(t, h, n, c, r, s, p),
           IsManifest(t, h[n + 1].file), c = None,
           NEW own, own = ParseManifest(h[n + 1]),
           NEW src, src = IF own # None /\ s = None THEN h[n + 1].file ELSE s
    PROVE  BestSoFar(t, h, n + 1, own, r, src, p)
<1> DEFINE L == LockingTo(t, h, n)
<1>1. ~IsLocking(t, h, n + 1) /\ LockingTo(t, h, n + 1) = L
  BY Files, OneMore DEF IsLocking
<1>2. NamingTo(t, h, n) = {}
  BY SoFarNone
<1>3. CASE own = None
  <2>1. ~IsNaming(t, h, n + 1) /\ src = s
    BY <1>3 DEF IsNaming
  <2> QED  BY <1>1, <1>3, <2>1, NothingNew
<1>4. CASE own # None
  <2>1. NamingTo(t, h, n + 1) = {n + 1}
    <3>1. IsNaming(t, h, n + 1)
      BY <1>4 DEF IsNaming
    <3> QED  BY <1>2, <3>1, OneMore
  <2>2. FirstNaming(t, h, n + 1, n + 1)
    BY <2>1 DEF FirstNaming, Earliest
  <2>3. CASE L = {}
    <3>1. s = None /\ r = None /\ p = NoLock
      BY <1>2, <2>3 DEF BestSoFar
    <3>2. src = h[n + 1].file
      BY <1>4, <3>1
    <3> QED  BY <1>1, <2>1, <2>2, <2>3, <3>1, <3>2 DEF BestSoFar
  <2>4. CASE L # {}
    <3>1. PICK i : /\ BestLocking(t, h, n, i)
                   /\ r = ParseLockfile(h[i]) /\ s = h[i].file
                   /\ t = "npm" => p = Rank(h[i].file)
      BY <2>4 DEF BestSoFar
    <3>2. i \in 1..Len(h)
      BY <3>1 DEF BestLocking, Best, LockingTo, Locking
    <3>3. s # None
      BY <3>1, <3>2, BlobType DEF FileName, None
    <3>4. BestLocking(t, h, n + 1, i) /\ src = s
      BY <1>1, <3>1, <3>3 DEF BestLocking
    <3> QED  BY <1>1, <2>1, <2>2, <2>4, <3>1, <3>4 DEF BestSoFar
  <2> QED  BY <2>3, <2>4
<1> QED  BY <1>3, <1>4

\* A lock file that is read: the first one, or one of a better rank.
LEMMA LockfileStep ==
    ASSUME NEW t \in Registered, NEW h, Len(h) \in Nat, NEW n \in Nat, n < Len(h),
           \A i \in 1..Len(h) : h[i] \in Blob,
           NEW c, NEW r, NEW s, NEW p, BestSoFar(t, h, n, c, r, s, p),
           IsLockfile(t, h[n + 1].file),
           IF t = "npm" THEN Rank(h[n + 1].file) < p ELSE r = None,
           ParseLockfile(h[n + 1]) # None,
           NEW q, t = "npm" => q = Rank(h[n + 1].file)
    PROVE  BestSoFar(t, h, n + 1, c, ParseLockfile(h[n + 1]), h[n + 1].file, q)
<1> DEFINE L == LockingTo(t, h, n)
<1>1. NamingTo(t, h, n + 1) = NamingTo(t, h, n)
  BY Files, OneMore DEF IsNaming
<1>2. LockingTo(t, h, n + 1) = L \cup {n + 1} /\ L \subseteq 1..n
  BY OneMore DEF IsLocking
<1>3. \A j \in L : Rank(h[n + 1].file) < Rank(h[j].file)
  <2>1. CASE t = "npm"
    <3> SUFFICES ASSUME NEW j \in L
                 PROVE  Rank(h[n + 1].file) < Rank(h[j].file)
      OBVIOUS
    <3>1. PICK i : BestLocking(t, h, n, i) /\ p = Rank(h[i].file)
      BY <2>1 DEF BestSoFar
    <3>2. Rank(h[i].file) <= Rank(h[j].file)
      <4>1. Before(h, i, j)
        BY <3>1 DEF BestLocking, Best
      <4>2. Rank(h[i].file) \in Int /\ Rank(h[j].file) \in Int
        BY Files
      <4> QED  BY <4>1, <4>2 DEF Before
    <3>3. Rank(h[n + 1].file) \in Int /\ Rank(h[i].file) \in Int /\ Rank(h[j].file) \in Int
      BY Files
    <3> QED  BY <2>1, <3>1, <3>2, <3>3
  <2>2. CASE t # "npm"
    BY <2>2, SoFarNone
  <2> QED  BY <2>1, <2>2
<1>4. BestLocking(t, h, n + 1, n + 1)
  BY <1>2, <1>3 DEF BestLocking, Best, Before
<1>5. LockingTo(t, h, n + 1) # {}
  BY <1>2
<1>6. IF NamingTo(t, h, n + 1) = {} THEN c = None
      ELSE \E i : FirstNaming(t, h, n + 1, i) /\ c = ParseManifest(h[i])
  BY <1>1 DEF BestSoFar, FirstNaming
<1> QED  BY <1>4, <1>5, <1>6 DEF BestSoFar

\* A file that is not parsed would change nothing.
LEMMA SkipStep ==
    ASSUME NEW t \in Registered, NEW h, Len(h) \in Nat, NEW n \in Nat, n < Len(h),
           \A i \in 1..Len(h) : h[i] \in Blob,
           NEW c, NEW r, NEW s, NEW p, BestSoFar(t, h, n, c, r, s, p),
           IsManifest(t, h[n + 1].file) => c # None,
           IsLockfile(t, h[n + 1].file) =>
               IF t = "npm" THEN Rank(h[n + 1].file) >= p ELSE r # None
    PROVE  BestSoFar(t, h, n + 1, c, r, s, p)
<1>1. CASE IsNaming(t, h, n + 1)
  <2>1. LockingTo(t, h, n + 1) = LockingTo(t, h, n)
    BY <1>1, Files, OneMore DEF IsNaming, IsLocking
  <2>2. /\ NamingTo(t, h, n + 1) = NamingTo(t, h, n) \cup {n + 1}
        /\ NamingTo(t, h, n) \subseteq 1..n /\ NamingTo(t, h, n) # {}
    BY <1>1, OneMore, SoFarNone DEF IsNaming
  <2>3. \A i : FirstNaming(t, h, n, i) => FirstNaming(t, h, n + 1, i)
    BY <2>2 DEF FirstNaming, Earliest
  <2>4. \A i : BestLocking(t, h, n, i) <=> BestLocking(t, h, n + 1, i)
    BY <2>1 DEF BestLocking
  <2>5. NamingTo(t, h, n + 1) # {}
    BY <2>2
  <2> QED  BY <2>1, <2>2, <2>3, <2>4, <2>5, Zenon DEF BestSoFar
<1>2. CASE IsLocking(t, h, n + 1)
  <2>1. NamingTo(t, h, n + 1) = NamingTo(t, h, n)
    BY <1>2, Files, OneMore DEF IsNaming, IsLocking
  <2>2. /\ LockingTo(t, h, n + 1) = LockingTo(t, h, n) \cup {n + 1}
        /\ LockingTo(t, h, n) \subseteq 1..n
    BY <1>2, OneMore
  <2>3. LockingTo(t, h, n) # {}
    <3>1. CASE t = "npm"
      <4>1. Rank(h[n + 1].file) \in 1..4
        BY Files
      <4>2. Rank(h[n + 1].file) >= p
        BY <1>2, <3>1 DEF IsLocking
      <4>3. p # NoLock
        BY <4>1, <4>2 DEF NoLock
      <4> QED  BY <4>3 DEF BestSoFar
    <3>2. CASE t # "npm"
      BY <1>2, <3>2, SoFarNone DEF IsLocking
    <3> QED  BY <3>1, <3>2
  <2>4. PICK i : /\ BestLocking(t, h, n, i)
                 /\ r = ParseLockfile(h[i]) /\ s = h[i].file
                 /\ t = "npm" => p = Rank(h[i].file)
    BY <2>3 DEF BestSoFar
  <2>5. i \in LockingTo(t, h, n) /\ i \in 1..n /\ i \in 1..Len(h) /\ IsLocking(t, h, i)
    BY <2>2, <2>4 DEF BestLocking, Best, LockingTo, Locking, IsLocking
  <2>6. Before(h, i, n + 1)
    <3>1. Rank(h[i].file) <= Rank(h[n + 1].file)
      <4>1. CASE t = "npm"
        BY <1>2, <2>4, <4>1, Files DEF IsLocking
      <4>2. CASE t # "npm"
        <5>1. Rank(h[i].file) = 1 /\ Rank(h[n + 1].file) = 1
          BY <1>2, <2>5, <4>2, Files DEF IsLocking
        <5> QED  BY <5>1
      <4> QED  BY <4>1, <4>2
    <3>2. Rank(h[i].file) \in Int /\ Rank(h[n + 1].file) \in Int
      BY Files
    <3> QED  BY <2>5, <3>1, <3>2 DEF Before
  <2>7. BestLocking(t, h, n + 1, i)
    BY <2>2, <2>4, <2>6 DEF BestLocking, Best
  <2>8. LockingTo(t, h, n + 1) # {}
    BY <2>2
  <2>9. IF NamingTo(t, h, n + 1) = {} THEN c = None
        ELSE \E j : FirstNaming(t, h, n + 1, j) /\ c = ParseManifest(h[j])
    BY <2>1 DEF BestSoFar, FirstNaming
  <2> QED  BY <2>4, <2>7, <2>8, <2>9 DEF BestSoFar
<1>3. CASE ~IsNaming(t, h, n + 1) /\ ~IsLocking(t, h, n + 1)
  BY <1>3, NothingNew
<1> QED  BY <1>1, <1>2, <1>3

\* Nothing read, nothing found.
LEMMA NothingRead ==
    ASSUME NEW t, NEW h
    PROVE  BestSoFar(t, h, 0, None, None, None, NoLock)
<1>1. NamingTo(t, h, 0) = {} /\ LockingTo(t, h, 0) = {}
  BY DEF NamingTo, LockingTo, Naming, Locking
<1> QED  BY <1>1 DEF BestSoFar

\* At the end, or as soon as nothing can get better, the best so far is the
\* best of all.
LEMMA LoopLeft ==
    ASSUME NEW t \in Registered, NEW h, Len(h) \in Nat, NEW n \in 0..Len(h),
           \A i \in 1..Len(h) : h[i] \in Blob,
           NEW c, NEW r, NEW s, NEW p, BestSoFar(t, h, n, c, r, s, p),
           \/ n = Len(h)
           \/ c # None /\ IF t = "npm" THEN p = 1 ELSE r # None,
           NEW x, x.constraint = c, x.resolved = r, x.source = s
    PROVE  IsBest(t, h, x)
<1>1. CASE n = Len(h)
  <2>1. NamingTo(t, h, n) = Naming(t, h) /\ LockingTo(t, h, n) = Locking(t, h)
    BY <1>1 DEF NamingTo, LockingTo, Naming, Locking
  <2>2. \A i : FirstNaming(t, h, n, i) <=> i \in Naming(t, h) /\ Earliest(Naming(t, h), i)
    BY <2>1 DEF FirstNaming
  <2>3. \A i : BestLocking(t, h, n, i) <=> i \in Locking(t, h) /\ Best(h, Locking(t, h), i)
    BY <2>1 DEF BestLocking, Best
  <2> QED  BY <2>1, <2>2, <2>3, Zenon DEF BestSoFar, IsBest
<1>2. CASE c # None /\ IF t = "npm" THEN p = 1 ELSE r # None
  <2>1. PICK i : FirstNaming(t, h, n, i) /\ c = ParseManifest(h[i])
    BY <1>2 DEF BestSoFar
  <2>2. i \in Naming(t, h) /\ i <= n /\ i \in Nat
    BY <2>1 DEF FirstNaming, NamingTo, Naming
  <2>3. Earliest(Naming(t, h), i)
    <3> SUFFICES ASSUME NEW j \in Naming(t, h)
                 PROVE  i <= j
      BY <2>2 DEF Earliest
    <3>1. j \in Nat
      BY DEF Naming
    <3>2. j <= n => i <= j
      BY <2>1 DEF FirstNaming, Earliest, NamingTo
    <3> QED  BY <2>2, <3>1, <3>2
  <2>4. LockingTo(t, h, n) # {}
    <3>1. CASE t = "npm"
      BY <1>2, <3>1 DEF BestSoFar, NoLock
    <3>2. CASE t # "npm"
      BY <1>2, <3>2, SoFarNone
    <3> QED  BY <3>1, <3>2
  <2>5. PICK k : /\ BestLocking(t, h, n, k)
                 /\ r = ParseLockfile(h[k]) /\ s = h[k].file
                 /\ t = "npm" => p = Rank(h[k].file)
    BY <2>4 DEF BestSoFar
  <2>6. k \in Locking(t, h) /\ k <= n /\ k \in Nat
    BY <2>5 DEF BestLocking, Best, LockingTo, Locking
  <2>7. Rank(h[k].file) = 1
    <3>1. CASE t = "npm"
      BY <1>2, <2>5, <3>1
    <3>2. CASE t # "npm"
      BY <2>6, <3>2, Files DEF Locking
    <3> QED  BY <3>1, <3>2
  <2>8. Best(h, Locking(t, h), k)
    <3> SUFFICES ASSUME NEW j \in Locking(t, h)
                 PROVE  Before(h, k, j)
      BY <2>6 DEF Best
    <3>1. j \in Nat /\ Rank(h[j].file) \in 1..4
      BY Files DEF Locking
    <3>2. CASE j <= n
      BY <2>5, <3>2 DEF BestLocking, Best, LockingTo
    <3>3. CASE ~(j <= n)
      BY <2>6, <2>7, <3>1, <3>3 DEF Before
    <3> QED  BY <3>2, <3>3
  <2> QED  BY <2>1, <2>2, <2>3, <2>5, <2>6, <2>8 DEF IsBest
<1> QED  BY <1>1, <1>2

----------------------------------------------------------------------------
(* Correctness of what is stored.                                          *)

Reset == constraint = None /\ resolved = None /\ source = None /\ priority = NoLock /\ at = 1

Local(t) == [constraint |-> constraint, resolved |-> resolved, source |-> source, type |-> t]
States(r) == r.constraint # None \/ r.resolved # None

\* The locals hold the best of the files parsed so far, then of all files,
\* and the cache knows every type by its own name.
InLoop ==
    /\ pc \in {"factory", "find"} => Reset
    /\ pc = "parse" =>
           /\ read = Len(Hits)
           /\ BestSoFar(Ty, Hits, at - 1, constraint, resolved, source, priority)
    /\ pc = "type" => \A t : IsBest(Ty, Hits, Local(t)) /\ States(Local(t))

Stored ==
    \A b \in Branch :
        /\ outcome[b] = "found" =>
               /\ scans[b].type \in Registered
               /\ IsBest(scans[b].type, scans[b].hits, result[b])
               /\ States(result[b]) /\ result[b].type = scans[b].type
        /\ outcome[b] = "nothing" /\ scans[b].type \in Registered =>
               /\ Naming(scans[b].type, scans[b].hits) = {}
               /\ Locking(scans[b].type, scans[b].hits) = {}

OwnTypes == \A t \in PackageType : cached[t] \in {None, t}

BestInv == ScanInv /\ InLoop /\ Stored /\ OwnTypes

\* A branch is done with: only its own outcome and result are new.
LEMMA FinishBest ==
    ASSUME BestInv, branch \in Branch, NEW how, Finish(how), pc' = "factory",
           \A b \in Branch : b # branch => result'[b] = result[b],
           how = "found" =>
               /\ Ty \in Registered /\ IsBest(Ty, Hits, result'[branch])
               /\ States(result'[branch]) /\ result'[branch].type = Ty,
           how = "nothing" /\ Ty \in Registered => Naming(Ty, Hits) = {} /\ Locking(Ty, Hits) = {}
    PROVE  InLoop' /\ Stored'
<1>1. scans' = scans /\ Branch' = Branch
  BY DEF Finish, Branch
<1>2. InLoop'
  BY DEF Finish, InLoop, Reset
<1>3. outcome \in [Branch -> {"pending", "nothing", "reported", "found"}]
  BY DEF BestInv, ScanInv, TypeOK
<1>4. outcome' = [outcome EXCEPT ![branch] = how]
  BY DEF Finish
<1>5. \A b \in Branch : b # branch => outcome'[b] = outcome[b]
  BY <1>3, <1>4
<1>6. outcome'[branch] = how
  BY <1>3, <1>4
<1>7. ASSUME NEW b \in Branch, b # branch
      PROVE  /\ outcome'[b] = "found" =>
                    /\ scans[b].type \in Registered
                    /\ IsBest(scans[b].type, scans[b].hits, result'[b])
                    /\ States(result'[b]) /\ result'[b].type = scans[b].type
             /\ outcome'[b] = "nothing" /\ scans[b].type \in Registered =>
                    /\ Naming(scans[b].type, scans[b].hits) = {}
                    /\ Locking(scans[b].type, scans[b].hits) = {}
  BY <1>5, <1>7 DEF BestInv, Stored
<1>8. /\ outcome'[branch] = "found" =>
             /\ scans[branch].type \in Registered
             /\ IsBest(scans[branch].type, scans[branch].hits, result'[branch])
             /\ States(result'[branch]) /\ result'[branch].type = scans[branch].type
      /\ outcome'[branch] = "nothing" /\ scans[branch].type \in Registered =>
             /\ Naming(scans[branch].type, scans[branch].hits) = {}
             /\ Locking(scans[branch].type, scans[branch].hits) = {}
  BY <1>6 DEF Ty, Hits
<1>9. Stored'
  BY <1>1, <1>7, <1>8 DEF Stored
<1> QED  BY <1>2, <1>9

\* Nothing is stored while a branch is in hand.
LEMMA StoredStays ==
    ASSUME Stored, UNCHANGED <<scans, outcome, result>>
    PROVE  Stored'
BY DEF Stored, Branch

\* One file is parsed.
LEMMA ParsingBest ==
    ASSUME BestInv, ReadManifest \/ ReadBetterLockfile \/ ReadLockfile \/ SkipFile
    PROVE  InLoop'
<1> DEFINE n == at - 1
<1>1. Parsing /\ pc = "parse" /\ branch \in Branch /\ at <= read /\ at' = at + 1
  BY DEF ReadManifest, ReadBetterLockfile, ReadLockfile, SkipFile, Parsing, Step
<1>2. Ty \in Registered /\ read = Len(Hits) /\ at \in Nat \ {0} /\ read \in Nat
  BY <1>1 DEF BestInv, ScanInv, TypeOK, InHand, InLoop
<1>3. n \in Nat /\ n < Len(Hits) /\ n + 1 = at /\ at' - 1 = n + 1
  BY <1>1, <1>2
<1>4. Len(Hits) \in Nat /\ \A i \in 1..Len(Hits) : Hits[i] \in Blob
  BY <1>1, AtHand DEF BestInv
<1>5. BestSoFar(Ty, Hits, n, constraint, resolved, source, priority)
  BY <1>1 DEF BestInv, InLoop
<1>6. Ty' = Ty /\ Hits' = Hits /\ read' = read /\ pc' = "parse"
  BY <1>1 DEF Parsing, Step, Ty, Hits
<1> HIDE DEF n
<1>7. BestSoFar(Ty, Hits, n + 1, constraint', resolved', source', priority')
  <2>1. CASE ReadManifest
    <3> DEFINE own == ParseManifest(Hits[n + 1])
               src == IF own # None /\ source = None THEN Hits[n + 1].file ELSE source
    <3>1. IsManifest(Ty, Hits[n + 1].file) /\ constraint = None
      BY <1>3, <2>1 DEF ReadManifest
    <3>2. BestSoFar(Ty, Hits, n + 1, own, resolved, src, priority)
      BY <1>2, <1>3, <1>4, <1>5, <3>1, ManifestStep
    <3>3. constraint' = own /\ source' = src /\ resolved' = resolved /\ priority' = priority
      BY <1>3, <2>1 DEF ReadManifest
    <3> QED  BY <3>2, <3>3
  <2>2. CASE ReadBetterLockfile \/ ReadLockfile
    <3> DEFINE version == ParseLockfile(Hits[n + 1])
    <3>1. /\ IsLockfile(Ty, Hits[n + 1].file)
          /\ IF Ty = "npm" THEN Rank(Hits[n + 1].file) < priority ELSE resolved = None
      BY <1>3, <2>2 DEF ReadBetterLockfile, ReadLockfile
    <3>2. CASE version = None
      <4>1. ~IsLocking(Ty, Hits, n + 1) /\ ~IsNaming(Ty, Hits, n + 1)
        BY <1>2, <3>1, <3>2, Files DEF IsLocking, IsNaming
      <4>2. UNCHANGED parseVars
        BY <1>3, <2>2, <3>2 DEF ReadBetterLockfile, ReadLockfile, parseVars
      <4>3. BestSoFar(Ty, Hits, n + 1, constraint, resolved, source, priority)
        BY <1>3, <1>4, <1>5, <4>1, NothingNew
      <4> QED  BY <4>2, <4>3 DEF parseVars
    <3>3. CASE version # None
      <4>1. /\ constraint' = constraint /\ resolved' = version
            /\ source' = Hits[n + 1].file
            /\ Ty = "npm" => priority' = Rank(Hits[n + 1].file)
        BY <1>3, <2>2, <3>3 DEF ReadBetterLockfile, ReadLockfile
      <4>2. BestSoFar(Ty, Hits, n + 1, constraint, version, Hits[n + 1].file, priority')
        BY <1>2, <1>3, <1>4, <1>5, <3>1, <3>3, <4>1, LockfileStep
      <4> QED  BY <4>1, <4>2
    <3> QED  BY <3>2, <3>3
  <2>3. CASE SkipFile
    <3>1. /\ IsManifest(Ty, Hits[n + 1].file) => constraint # None
          /\ IsLockfile(Ty, Hits[n + 1].file) =>
                 IF Ty = "npm" THEN Rank(Hits[n + 1].file) >= priority ELSE resolved # None
      BY <1>3, <2>3 DEF SkipFile
    <3>2. BestSoFar(Ty, Hits, n + 1, constraint, resolved, source, priority)
      BY <1>2, <1>3, <1>4, <1>5, <3>1, SkipStep
    <3> QED  BY <2>3, <3>2 DEF SkipFile, parseVars
  <2> QED  BY <2>1, <2>2, <2>3
<1> QED  BY <1>2, <1>3, <1>6, <1>7 DEF InLoop

\* What the loop over the files leaves behind.
LEMMA ParsedIsBest ==
    ASSUME BestInv, Parsed, branch \in Branch
    PROVE  \A t : IsBest(Ty, Hits, Local(t))
<1> DEFINE n == at - 1
<1>1. /\ Ty \in Registered /\ read = Len(Hits) /\ at \in Nat \ {0}
      /\ at <= read + 1 /\ read \in Nat
  BY DEF BestInv, ScanInv, TypeOK, InHand, InLoop, Parsed
<1>2. n \in 0..Len(Hits) /\ (at > read => n = Len(Hits))
  BY <1>1
<1>3. Len(Hits) \in Nat /\ \A i \in 1..Len(Hits) : Hits[i] \in Blob
  BY AtHand DEF BestInv
<1>4. BestSoFar(Ty, Hits, n, constraint, resolved, source, priority)
  BY DEF BestInv, InLoop, Parsed
<1>5. \/ n = Len(Hits)
      \/ constraint # None /\ IF Ty = "npm" THEN priority = 1 ELSE resolved # None
  BY <1>2 DEF Parsed, Enough
<1> HIDE DEF n
<1> SUFFICES ASSUME NEW t
             PROVE  IsBest(Ty, Hits, Local(t))
  OBVIOUS
<1>6. Local(t).constraint = constraint /\ Local(t).resolved = resolved /\ Local(t).source = source
  BY DEF Local
<1> QED  BY <1>1, <1>2, <1>3, <1>4, <1>5, <1>6, LoopLeft

\* A dependency goes to MySQL: the locals, under the type of the search.
LEMMA StoreBest ==
    ASSUME BestInv, branch \in Branch, pc = "type", Store(Ty)
    PROVE  /\ result'[branch] = Local(Ty)
           /\ \A b \in Branch : b # branch => result'[b] = result[b]
           /\ Ty \in Registered /\ IsBest(Ty, Hits, result'[branch])
           /\ States(result'[branch]) /\ result'[branch].type = Ty
<1>1. result \in [Branch -> Result]
  BY DEF BestInv, ScanInv, TypeOK
<1>2. result' = [result EXCEPT ![branch] = Local(Ty)]
  BY DEF Store, Local
<1>3. result'[branch] = Local(Ty) /\ \A b \in Branch : b # branch => result'[b] = result[b]
  BY <1>1, <1>2
<1>4. Ty \in Registered /\ IsBest(Ty, Hits, Local(Ty)) /\ States(Local(Ty))
  BY DEF BestInv, ScanInv, InHand, InLoop
<1>5. Local(Ty).type = Ty
  BY DEF Local
<1> QED  BY <1>3, <1>4, <1>5

LEMMA BestStep ==
    ASSUME BestInv, [Next]_vars
    PROVE  BestInv'
<1>1. ScanInv'
  BY ScanStep DEF BestInv
<1>2. CASE GetManager
  <2>1. pc' = "find" /\ pc = "factory"
        /\ UNCHANGED <<scans, branch, read, at, parseVars, outcome, result, cached, faults>>
    BY <1>2 DEF GetManager, Step
  <2>2. InLoop'
    BY <2>1 DEF BestInv, InLoop, Reset, parseVars
  <2>3. Stored' /\ OwnTypes'
    BY <2>1, StoredStays DEF BestInv, OwnTypes
  <2> QED  BY <1>1, <2>2, <2>3 DEF BestInv
<1>3. CASE FetchPage
  <2>1. /\ branch \in Branch /\ pc = "find"
        /\ UNCHANGED <<scans, branch, at, parseVars, outcome, result, cached, faults>>
    BY <1>3 DEF FetchPage, Step
  <2>2. pc' = "find" \/ (pc' = "parse" /\ read' = Len(Hits))
    BY <1>3 DEF FetchPage, Step
  <2>3. Reset /\ Reset' /\ Ty' = Ty /\ Hits' = Hits
    BY <2>1 DEF BestInv, InLoop, Reset, parseVars, Ty, Hits
  <2>4. at' - 1 = 0
    BY <2>3 DEF Reset
  <2>5. BestSoFar(Ty, Hits, 0, None, None, None, NoLock)
    BY NothingRead
  <2>6. InLoop'
    BY <2>2, <2>3, <2>4, <2>5 DEF InLoop, Reset
  <2>7. Stored' /\ OwnTypes'
    BY <2>1, StoredStays DEF BestInv, OwnTypes
  <2> QED  BY <1>1, <2>6, <2>7 DEF BestInv
<1>4. CASE ReadManifest \/ ReadBetterLockfile \/ ReadLockfile \/ SkipFile
  <2>1. UNCHANGED <<scans, branch, read, outcome, result, cached, faults>>
    BY <1>4 DEF ReadManifest, ReadBetterLockfile, ReadLockfile, SkipFile, Parsing
  <2>2. Stored' /\ OwnTypes'
    BY <2>1, StoredStays DEF BestInv, OwnTypes
  <2> QED  BY <1>1, <1>4, <2>2, ParsingBest DEF BestInv
<1>5. CASE NotRegistered
  <2>1. /\ branch \in Branch /\ pc' = "factory" /\ Finish("nothing")
        /\ Ty \notin Registered /\ UNCHANGED <<result, cached>>
    BY <1>5 DEF NotRegistered, Step
  <2>2. InLoop' /\ Stored'
    BY <2>1, FinishBest
  <2> QED  BY <1>1, <2>1, <2>2 DEF BestInv, OwnTypes
<1>6. CASE NotFound
  <2>1. /\ branch \in Branch /\ pc' = "factory" /\ Finish("nothing") /\ Parsed
        /\ constraint = None /\ resolved = None /\ UNCHANGED <<result, cached>>
    BY <1>6 DEF NotFound, Step
  <2>2. IsBest(Ty, Hits, Local(None))
    BY <2>1, ParsedIsBest
  <2>3. Naming(Ty, Hits) = {} /\ Locking(Ty, Hits) = {}
    <3>1. Local(None).constraint = None /\ Local(None).resolved = None
      BY <2>1 DEF Local
    <3> QED  BY <2>2, <3>1 DEF IsBest, Naming, Locking
  <2>4. InLoop' /\ Stored'
    BY <2>1, <2>3, FinishBest
  <2> QED  BY <1>1, <2>1, <2>4 DEF BestInv, OwnTypes
<1>7. CASE Found
  <2>1. /\ branch \in Branch /\ pc' = "type" /\ Parsed /\ (constraint # None \/ resolved # None)
        /\ UNCHANGED <<scans, branch, read, at, parseVars, outcome, result, cached, faults>>
    BY <1>7 DEF Found, Step
  <2>2. \A t : IsBest(Ty, Hits, Local(t)) /\ States(Local(t))
    BY <2>1, ParsedIsBest DEF States, Local
  <2>3. Ty' = Ty /\ Hits' = Hits /\ \A t : Local(t)' = Local(t)
    BY <2>1 DEF Ty, Hits, Local, parseVars
  <2>4. \A t : (IsBest(Ty, Hits, Local(t)) /\ States(Local(t)))'
    <3>1. Branch' = Branch /\ UNCHANGED <<constraint, resolved, source>>
      BY <2>1 DEF Branch, parseVars
    <3> QED  BY <2>2, <2>3, <3>1
        DEF Local, States, IsBest, Naming, Locking
  <2>5. InLoop'
    BY <2>1, <2>4 DEF InLoop
  <2>6. Stored' /\ OwnTypes'
    BY <2>1, StoredStays DEF BestInv, OwnTypes
  <2> QED  BY <1>1, <2>5, <2>6 DEF BestInv
<1>8. CASE TypeCached \/ TypeRead
  <2>1. branch \in Branch /\ pc = "type" /\ pc' = "factory" /\ Finish("found")
    BY <1>8 DEF TypeCached, TypeRead, Step
  <2>2. Ty \in PackageType
    BY <2>1, AtHand DEF BestInv
  <2>3. Store(Ty)
    BY <1>8, <2>2 DEF TypeCached, TypeRead, BestInv, OwnTypes
  <2>4. InLoop' /\ Stored'
    BY <2>1, <2>3, StoreBest, FinishBest
  <2>5. cached \in [PackageType -> PackageType \cup {None}]
    BY DEF BestInv, ScanInv, TypeOK
  <2>6. OwnTypes'
    BY <1>8, <2>5 DEF TypeCached, TypeRead, BestInv, OwnTypes
  <2> QED  BY <1>1, <2>4, <2>6 DEF BestInv
<1>9. CASE CallFails
  <2>1. /\ branch \in Branch /\ pc' = "factory" /\ Finish("reported")
        /\ UNCHANGED <<result, cached>>
    BY <1>9 DEF CallFails, Step
  <2>2. InLoop' /\ Stored'
    BY <2>1, FinishBest
  <2> QED  BY <1>1, <2>1, <2>2 DEF BestInv, OwnTypes
<1>10. CASE CacheExpires
  <2>1. UNCHANGED <<scans, branch, pc, read, at, parseVars, outcome, result, faults>>
    BY <1>10 DEF CacheExpires
  <2>2. OwnTypes'
    BY <1>10 DEF CacheExpires, BestInv, ScanInv, TypeOK, OwnTypes
  <2>3. InLoop'
    BY <2>1
    DEF BestInv, InLoop, Reset, parseVars, Ty, Hits, Local, States,
        BestSoFar, IsBest, FirstNaming, BestLocking, NamingTo, LockingTo
  <2> QED  BY <1>1, <2>1, <2>2, <2>3, StoredStays DEF BestInv
<1>11. CASE UNCHANGED vars
  <2>1. UNCHANGED <<scans, branch, pc, read, at, parseVars, outcome, result, cached, faults>>
    BY <1>11 DEF vars
  <2>2. OwnTypes'
    BY <2>1 DEF BestInv, OwnTypes
  <2>3. InLoop'
    BY <2>1
    DEF BestInv, InLoop, Reset, parseVars, Ty, Hits, Local, States,
        BestSoFar, IsBest, FirstNaming, BestLocking, NamingTo, LockingTo
  <2> QED  BY <1>1, <2>1, <2>2, <2>3, StoredStays DEF BestInv
<1> QED
  BY <1>2, <1>3, <1>4, <1>5, <1>6, <1>7, <1>8, <1>9, <1>10, <1>11 DEF Next, Process

LEMMA BestInvariant == Spec => []BestInv
<1>1. Init => BestInv
  <2> SUFFICES ASSUME Init
               PROVE  BestInv
    OBVIOUS
  <2>1. ScanInv
    BY ScanInit
  <2>2. InLoop /\ OwnTypes
    BY DEF Init, InLoop, Reset, OwnTypes
  <2>3. Stored
    BY DEF Init, Stored
  <2> QED  BY <2>1, <2>2, <2>3 DEF BestInv
<1>2. BestInv /\ [Next]_vars => BestInv'
  BY BestStep
<1> QED  BY <1>1, <1>2, PTL DEF Spec

\* The pages of the answer, their order and the early end of the loop over the
\* files make no difference: every finished scan has the best result, and a
\* branch is passed over only if none of its files states the package.
THEOREM ResultIsBestCorrect == Spec => []ResultIsBest
<1>1. BestInv => ResultIsBest
  BY DEF BestInv, Stored, ResultIsBest
<1> QED  BY <1>1, BestInvariant, PTL

\* A dependency of Composer or Go is stored only with a source that names the
\* package: files that only have longer names are not enough.
THEOREM FoundIsNamedCorrect == Spec => []FoundIsNamed
<1>1. ASSUME BestInv
      PROVE  FoundIsNamed
  <2> SUFFICES ASSUME NEW b \in Branch, outcome[b] = "found", scans[b].type # "npm"
               PROVE  \E i \in 1..Len(scans[b].hits) :
                          scans[b].hits[i].file = result[b].source /\ scans[b].hits[i].named
    BY DEF FoundIsNamed
  <2> DEFINE t == scans[b].type
             h == scans[b].hits
             s == result[b].source
  <2>1. t \in Registered /\ t # "npm" /\ IsBest(t, h, result[b]) /\ States(result[b])
    BY <1>1 DEF BestInv, Stored
  <2>2. \A i \in 1..Len(h) : h[i] \in Blob
    BY <1>1, BlobsOfScans DEF BestInv
  <2> HIDE DEF t, h
  <2>3. CASE Locking(t, h) # {}
    <3>1. PICK i \in Locking(t, h) : s = h[i].file
      BY <2>1, <2>3 DEF IsBest, Best
    <3>2. i \in 1..Len(h) /\ IsLockfile(t, h[i].file) /\ ParseLockfile(h[i]) # None
      BY DEF Locking
    <3>3. h[i].named
      BY <2>1, <2>2, <3>2, LockfileParsed
    <3> QED  BY <3>1, <3>2, <3>3 DEF h
  <2>4. CASE Locking(t, h) = {}
    <3>1. Naming(t, h) # {}
      BY <2>1, <2>4 DEF IsBest, States
    <3>2. PICK i \in Naming(t, h) : s = h[i].file
      BY <2>1, <2>4, <3>1 DEF IsBest, Earliest
    <3>3. i \in 1..Len(h) /\ IsManifest(t, h[i].file) /\ ParseManifest(h[i]) # None
      BY DEF Naming
    <3>4. h[i].named
      BY <2>1, <2>2, <3>3, ManifestParsed
    <3> QED  BY <3>2, <3>3, <3>4 DEF h
  <2> QED  BY <2>3, <2>4
<1> QED  BY <1>1, BestInvariant, PTL

\* Searches of several types share one cache without mixing up their types.
THEOREM StoredUnderItsTypeCorrect == Spec => []StoredUnderItsType
<1>1. BestInv => StoredUnderItsType
  BY DEF BestInv, Stored, StoredUnderItsType
<1> QED  BY <1>1, BestInvariant, PTL

=============================================================================
