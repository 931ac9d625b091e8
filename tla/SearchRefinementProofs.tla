----------------------- MODULE SearchRefinementProofs -----------------------
(* PackageSearch implements Search, for any number of requests, workers,   *)
(* searches and projects and any size of the pages, as long as nothing     *)
(* fails and no key expires: every step is a step of Search or a stutter.  *)
EXTENDS SearchRefinement, PackageSearchProofs, FiniteSetTheorems,
        WellFoundedInduction

----------------------------------------------------------------------------
(* The listing, page by page.                                              *)

BranchesAt(i) == {Catalog[i][j] : j \in 1..Len(Catalog[i])}
UpTo(k) == UNION {BranchesAt(i) : i \in 1..k}

\* The last project of a page.
Last(page) == IF page * PageSize < Len(Catalog) THEN page * PageSize ELSE Len(Catalog)

LEMMA PageTimes ==
    ASSUME NEW page \in Nat
    PROVE  /\ page * PageSize \in Nat /\ PageSize \in Nat /\ PageSize >= 1
           /\ (page + 1) * PageSize = page * PageSize + PageSize
BY PageSizeAssumption

LEMMA CatalogType ==
    /\ Len(Catalog) \in Nat
    /\ \A i \in 1..Len(Catalog) : Catalog[i] \in Seq(Branch) /\ Len(Catalog[i]) \in Nat
<1> DEFINE S == Seq(Branch)
<1>1. Catalog \in Seq(S)
  BY CatalogAssumption
<1> HIDE DEF S
<1>2. Len(Catalog) \in Nat /\ \A i \in 1..Len(Catalog) : Catalog[i] \in S
  BY <1>1, ElementOfSeq
<1> QED  BY <1>2 DEF S

\* A page is the window between the last project of the page before and its own
\* last; it is empty when the page before ended the catalog.
LEMMA PageWindow ==
    ASSUME NEW page \in Nat
    PROVE  /\ Last(page) \in 0..Len(Catalog)
           /\ PageOf(page + 1) = << >> => Last(page) = Len(Catalog)
           /\ PageOf(page + 1) # << >> =>
                  /\ Last(page) < Last(page + 1)
                  /\ PageOf(page + 1) = SubSeq(Catalog, Last(page) + 1, Last(page + 1))
<1> DEFINE n == page * PageSize
           m == (page + 1) * PageSize
<1>1. n \in Nat /\ m \in Nat /\ PageSize \in Nat /\ PageSize >= 1 /\ m = n + PageSize
  BY PageTimes
<1>2. Len(Catalog) \in Nat
  BY CatalogType
<1>3. Last(page) \in 0..Len(Catalog) /\ Last(page + 1) \in 0..Len(Catalog)
  BY <1>1, <1>2 DEF Last
<1>4. m - PageSize + 1 = n + 1
  BY <1>1
<1>5. PageOf(page + 1) = SubSeq(Catalog, n + 1, Last(page + 1))
  <2>1. PageOf(page + 1) =
            SubSeq(Catalog, m - PageSize + 1, IF m < Len(Catalog) THEN m ELSE Len(Catalog))
    BY DEF PageOf
  <2> QED  BY <1>4, <2>1 DEF Last
<1>6. Last(page) = (IF n < Len(Catalog) THEN n ELSE Len(Catalog))
      /\ Last(page + 1) = (IF m < Len(Catalog) THEN m ELSE Len(Catalog))
  BY DEF Last
<1> HIDE DEF n, m
<1>7. CASE n < Len(Catalog)
  <2>1. Last(page) = n /\ n < Last(page + 1)
    BY <1>1, <1>2, <1>6, <1>7
  <2>2. Len(SubSeq(Catalog, n + 1, Last(page + 1))) = Last(page + 1) - n
    BY <1>1, <1>2, <1>3, <2>1, CatalogAssumption
  <2>3. PageOf(page + 1) # << >>
    BY <1>1, <1>3, <1>5, <2>1, <2>2
  <2> QED  BY <1>3, <1>5, <2>1, <2>3
<1>8. CASE ~(n < Len(Catalog))
  <2>1. Last(page) = Len(Catalog) /\ Last(page + 1) = Len(Catalog)
    BY <1>1, <1>2, <1>6, <1>8
  <2>2. PageOf(page + 1) = << >>
    BY <1>1, <1>2, <1>5, <1>8, <2>1, CatalogAssumption
  <2> QED  BY <1>3, <2>1, <2>2
<1> QED  BY <1>7, <1>8

\* The projects of a page that are still to push, without the first of them.
LEMMA WindowTail ==
    ASSUME NEW k \in Nat, NEW m \in 0..Len(Catalog), k < m,
           NEW todo, todo = SubSeq(Catalog, k + 1, m)
    PROVE  /\ Head(todo) = Catalog[k + 1] /\ k + 1 \in 1..Len(Catalog)
           /\ Tail(todo) = SubSeq(Catalog, k + 2, m)
           /\ Tail(todo) = << >> <=> k + 1 = m
<1>1. Len(Catalog) \in Nat /\ k + 1 \in 1..Len(Catalog) /\ m \in (k + 1)..Len(Catalog)
  BY CatalogType
<1>2. Head(todo) = Catalog[k + 1] /\ Tail(todo) = SubSeq(Catalog, (k + 1) + 1, m)
  BY <1>1, CatalogAssumption, HeadTailOfSubSeq
<1>3. \A i \in (k + 2)..m : Catalog[i] \in Seq(Branch)
  BY <1>1, CatalogType
<1>4. Len(SubSeq(Catalog, k + 2, m)) = IF k + 2 <= m THEN m - (k + 2) + 1 ELSE 0
  BY <1>1, <1>3, SubSeqProperties
<1>5. k + 1 = m => SubSeq(Catalog, k + 2, m) = << >>
  BY <1>1, SubSeqEmpty
<1>6. k + 1 # m => SubSeq(Catalog, k + 2, m) # << >>
  BY <1>1, <1>4
<1>7. (k + 1) + 1 = k + 2
  OBVIOUS
<1> QED  BY <1>1, <1>2, <1>5, <1>6, <1>7

LEMMA Successor ==
    ASSUME NEW k \in Nat, NEW m \in Int, k < m, k + 1 # m
    PROVE  k + 1 < m /\ (k + 1) + 1 = k + 2 /\ k + 1 \in Nat
OBVIOUS

LEMMA UpToNext ==
    ASSUME NEW k \in Nat
    PROVE  UpTo(k + 1) = UpTo(k) \cup BranchesAt(k + 1)
BY DEF UpTo

LEMMA UpToAll == UpTo(Len(Catalog)) = AllBranches /\ UpTo(0) = {}
BY DEF UpTo, AllBranches, BranchesAt

\* Another project's branches are new.
LEMMA NewBranches ==
    ASSUME NEW k \in Nat, k + 1 \in 1..Len(Catalog)
    PROVE  UpTo(k) \cap BranchesAt(k + 1) = {}
BY CatalogType, BranchesAreDistinct DEF UpTo, BranchesAt

----------------------------------------------------------------------------
(* Sets of numbers.                                                        *)

LEMMA Least ==
    ASSUME NEW T, T \subseteq Nat, T # {}
    PROVE  \E x \in T : \A y \in T : x <= y
<1>1. PICK x \in T : \A y \in T : ~(<<y, x>> \in OpToRel(<, Nat))
  BY NatLessThanWellFounded, WFMin
<1>2. ASSUME NEW y \in T
      PROVE  x <= y
  <2>1. <<y, x>> \notin OpToRel(<, Nat)
    BY <1>1
  <2>2. <<y, x>> \notin {p \in Nat \X Nat : p[1] < p[2]}
    BY <2>1, Zenon DEF OpToRel
  <2>3. x \in Nat /\ y \in Nat
    OBVIOUS
  <2>4. ~(y < x)
    BY ONLY <2>2, <2>3, x \in Nat, y \in Nat
  <2> QED  BY <2>3, <2>4
<1> QED  BY <1>2

LEMMA Greatest ==
    ASSUME NEW n \in Nat, NEW T, T \subseteq 0..n, T # {}
    PROVE  \E x \in T : \A y \in T : y <= x
<1> DEFINE U == {i \in 0..n : n - i \in T}
<1>1. U \subseteq Nat /\ U # {}
  <2>1. PICK t \in T : TRUE
    OBVIOUS
  <2>2. n - t \in 0..n /\ n - (n - t) = t
    BY <2>1
  <2>3. n - t \in U
    BY <2>1, <2>2
  <2> QED  BY <2>3
<1>2. PICK u \in U : \A v \in U : u <= v
  BY <1>1, Least
<1>3. u \in 0..n /\ n - u \in T
  BY <1>2
<1>4. ASSUME NEW y \in T
      PROVE  y <= n - u
  <2>1. n - y \in 0..n /\ n - (n - y) = y
    OBVIOUS
  <2>2. u <= n - y
    BY <1>2, <2>1
  <2> QED  BY <1>3, <2>1, <2>2
<1> QED  BY <1>3, <1>4

----------------------------------------------------------------------------
(* Queues as sets.                                                         *)

Items(q) == {q[i] : i \in 1..Len(q)}
Once(q) == \A i, j \in 1..Len(q) : q[i] = q[j] => i = j

LEMMA ConcatItems ==
    ASSUME NEW S, NEW p \in Seq(S), NEW q \in Seq(S)
    PROVE  /\ Items(p \o q) = Items(p) \cup Items(q)
           /\ Once(p) /\ Once(q) /\ Items(p) \cap Items(q) = {} => Once(p \o q)
<1> DEFINE m == Len(p)
           n == Len(q)
           r == p \o q
<1>1. /\ m \in Nat /\ n \in Nat /\ Len(r) = m + n
      /\ \A i \in 1..(m + n) : r[i] = IF i <= m THEN p[i] ELSE q[i - m]
  BY ConcatProperties, LenProperties
<1> HIDE DEF r
<1>2. \A x \in Items(r) : x \in Items(p) \cup Items(q)
  BY <1>1 DEF Items
<1>3. \A x \in Items(p) : x \in Items(r)
  <2> SUFFICES ASSUME NEW i \in 1..m
               PROVE  p[i] \in Items(r)
    BY DEF Items
  <2>1. i \in 1..Len(r) /\ r[i] = p[i]
    BY <1>1
  <2> QED  BY <2>1 DEF Items
<1>4. \A x \in Items(q) : x \in Items(r)
  <2> SUFFICES ASSUME NEW i \in 1..n
               PROVE  q[i] \in Items(r)
    BY DEF Items
  <2>1. m + i \in 1..Len(r) /\ ~(m + i <= m) /\ (m + i) - m = i
    BY <1>1
  <2>2. r[m + i] = q[i]
    BY <1>1, <2>1
  <2> QED  BY <2>1, <2>2 DEF Items
<1>5. ASSUME Once(p), Once(q), Items(p) \cap Items(q) = {}
      PROVE  Once(r)
  <2> SUFFICES ASSUME NEW i \in 1..(m + n), NEW j \in 1..(m + n), r[i] = r[j]
               PROVE  i = j
    BY <1>1 DEF Once
  <2>1. CASE i <= m /\ j <= m
    BY <1>1, <1>5, <2>1 DEF Once
  <2>2. CASE ~(i <= m) /\ ~(j <= m)
    <3>1. i - m \in 1..n /\ j - m \in 1..n
      BY <1>1, <2>2
    <3>2. q[i - m] = q[j - m]
      BY <1>1, <2>2
    <3>3. i - m = j - m
      BY <1>5, <3>1, <3>2 DEF Once
    <3> QED  BY <1>1, <3>3
  <2>3. CASE i <= m /\ ~(j <= m)
    <3>1. r[i] = p[i] /\ i \in 1..m /\ r[j] = q[j - m] /\ j - m \in 1..n
      BY <1>1, <2>3
    <3>2. r[i] \in Items(p) /\ r[j] \in Items(q)
      BY <3>1 DEF Items
    <3> QED  BY <1>5, <3>2
  <2>4. CASE ~(i <= m) /\ j <= m
    <3>1. r[j] = p[j] /\ j \in 1..m /\ r[i] = q[i - m] /\ i - m \in 1..n
      BY <1>1, <2>4
    <3>2. r[j] \in Items(p) /\ r[i] \in Items(q)
      BY <3>1 DEF Items
    <3> QED  BY <1>5, <3>2
  <2> QED  BY <2>1, <2>2, <2>3, <2>4
<1> QED  BY <1>2, <1>3, <1>4, <1>5 DEF r

LEMMA TailItems ==
    ASSUME NEW S, NEW q \in Seq(S), q # << >>
    PROVE  /\ Head(q) \in Items(q)
           /\ Once(q) => Items(Tail(q)) = Items(q) \ {Head(q)} /\ Once(Tail(q))
<1>1. /\ Len(q) \in Nat \ {0} /\ Head(q) = q[1]
      /\ Len(Tail(q)) = Len(q) - 1
      /\ \A i \in 1..(Len(q) - 1) : Tail(q)[i] = q[i + 1]
  BY HeadTailProperties, EmptySeq
<1>2. Head(q) \in Items(q)
  BY <1>1 DEF Items
<1>3. ASSUME Once(q)
      PROVE  Items(Tail(q)) = Items(q) \ {Head(q)} /\ Once(Tail(q))
  <2> DEFINE t == Tail(q)
  <2>1. \A i \in 1..Len(t) : i + 1 \in 1..Len(q) /\ t[i] = q[i + 1]
    BY <1>1
  <2>2. \A i \in 1..Len(q) : i # 1 => i - 1 \in 1..Len(t) /\ t[i - 1] = q[i]
    BY <1>1
  <2> HIDE DEF t
  <2>3. Once(t)
    <3> SUFFICES ASSUME NEW i \in 1..Len(t), NEW j \in 1..Len(t), t[i] = t[j]
                 PROVE  i = j
      BY DEF Once
    <3>1. i + 1 = j + 1
      BY <1>3, <2>1 DEF Once
    <3> QED  BY <3>1
  <2>4. \A x \in Items(t) : x \in Items(q) /\ x # Head(q)
    <3> SUFFICES ASSUME NEW i \in 1..Len(t)
                 PROVE  t[i] \in Items(q) /\ t[i] # Head(q)
      BY DEF Items
    <3>1. i + 1 # 1 /\ 1 \in 1..Len(q)
      BY <1>1
    <3> QED  BY <1>1, <1>3, <2>1, <3>1 DEF Items, Once
  <2>5. \A x \in Items(q) : x # Head(q) => x \in Items(t)
    <3> SUFFICES ASSUME NEW i \in 1..Len(q), q[i] # Head(q)
                 PROVE  q[i] \in Items(t)
      BY DEF Items
    <3>1. i # 1
      BY <1>1
    <3> QED  BY <2>2, <3>1 DEF Items
  <2> QED  BY <2>3, <2>4, <2>5 DEF t
<1> QED  BY <1>2, <1>3

LEMMA NoItems ==
    ASSUME NEW S, NEW q \in Seq(S)
    PROVE  q = << >> <=> Items(q) = {}
<1>1. q # << >> => Head(q) \in Items(q)
  BY TailItems
<1> QED  BY <1>1 DEF Items

----------------------------------------------------------------------------
(* The inductive invariant: what the listing has pushed so far, and that a *)
(* branch of a search is at one place.                                     *)

Holds(w, s) == Working(w, s) /\ wpc[w] \in Holding

Pushed(r, s) ==
    /\ rpc[r] = "page" => Waiting(s) = UpTo(Last(rpage[r] - 1))
    /\ rpc[r] = "push" =>
           \E k \in Nat :
               /\ k < Last(rpage[r])
               /\ rtodo[r] = SubSeq(Catalog, k + 1, Last(rpage[r]))
               /\ Waiting(s) = UpTo(k)
    /\ rpc[r] = "enqueue" => Waiting(s) = AllBranches

ListingInv(s) == \A r \in Request : rsid[r] = s => Pushed(r, s)

OnePlaceInv(s) ==
    /\ Once(queue[s]) /\ Waiting(s) \subseteq AllBranches
    /\ \A w \in Worker : Holds(w, s) => witem[w] \in AllBranches \ Waiting(s)
    /\ \A v, w \in Worker : Holds(v, s) /\ Holds(w, s) /\ witem[v] = witem[w] => v = w
    /\ named[s] /\ queue[s] # << >> => score[s] > 0

FirstPages == \A r \in Request : rpc[r] \in {"idle", "acquire", "lookup"} => rpage[r] = 1
CachedNamed == \A r \in Request : rpc[r] = "cached_complete" => named[rsid[r]]

ImplInv ==
    /\ TypeOK /\ OwnerInv /\ FirstPages /\ CachedNamed
    /\ \A s \in SearchID : SearchInv(s) /\ ListingInv(s) /\ OnePlaceInv(s)

LEMMA WaitingIsItems == ASSUME NEW s PROVE Waiting(s) = Items(queue[s])
BY DEF Waiting, Items

Undisturbed == faults = 0 /\ expiries = 0

LEMMA OnlySteps ==
    ASSUME TypeOK, Undisturbed', Next
    PROVE  \/ \E r \in Request, s \in SearchID : Arrive(r, s)
           \/ \E r \in Request : RequestStep(r)
           \/ \E w \in Worker : WorkerStep(w)
<1>1. faults' # faults + 1 /\ expiries' # expiries + 1
  BY BoundsAssumption DEF TypeOK, Undisturbed
<1>2. \A r \in Request : ~RequestFault(r)
  BY <1>1 DEF RequestFault, RequestDies, ReplyLost, FindDependenciesFails,
             PushFails, Fault
<1>3. \A w \in Worker : ~WorkerFault(w)
  BY <1>1 DEF WorkerFault, WorkerDies, TakeRetried, MarkFails, ProcessFails, Fault
<1>4. \A s \in SearchID : ~Expire(s)
  BY <1>1 DEF Expire
<1> QED  BY <1>2, <1>3, <1>4 DEF Next

\* What a request of another search leaves alone.
LEMMA OtherRequest ==
    ASSUME TypeOK, NEW r \in Request, RequestStep(r),
           NEW s \in SearchID, s # rsid[r]
    PROVE  /\ status'[s] = status[s] /\ named'[s] = named[s]
           /\ score'[s] = score[s] /\ queue'[s] = queue[s]
           /\ \A q \in Request : rsid[q] = s =>
                  rpc'[q] = rpc[q] /\ rpage'[q] = rpage[q] /\ rtodo'[q] = rtodo[q]
<1> USE DEF ReqStep, StorageTypeOK, TypeOK, storageVars
<1>1. CASE Acquire(r)
  BY <1>1 DEF Acquire, AcquireSearch
<1>2. CASE FindDependencies(r) \/ ReadPage(r)
  BY <1>2 DEF FindDependencies, ReadPage
<1>3. CASE AddCached(r) \/ Enqueue(r)
  BY <1>3 DEF AddCached, Enqueue, AddSearchToQueue
<1>4. CASE CompleteCached(r)
  BY <1>4 DEF CompleteCached, CompleteSearch
<1>5. CASE PushProject(r)
  BY <1>5 DEF PushProject, NextProject, AddProjectsToQueue
<1> QED  BY <1>1, <1>2, <1>3, <1>4, <1>5 DEF RequestStep

LEMMA RequestKeeps ==
    ASSUME TypeOK, NEW r \in Request, RequestStep(r)
    PROVE  UNCHANGED <<workerVars, handled, rsid, budgetVars, dbVars>> /\ rsid[r] \in SearchID
BY DEF RequestStep, Acquire, FindDependencies, AddCached, CompleteCached,
       ReadPage, PushProject, NextProject, Enqueue, ReqStep, NoWorker, TypeOK

\* The owner of a search is the only request that lists it.
LEMMA OwnerLists ==
    ASSUME OwnerInv, NEW s \in SearchID, NEW r \in Request, rsid[r] = s, rpc[r] \in Owning,
           UNCHANGED rsid, \A q \in Request : q # r => rpc'[q] = rpc[q],
           Pushed(r, s)'
    PROVE  ListingInv(s)'
<1> SUFFICES ASSUME NEW q \in Request, q # r, rsid[q] = s
             PROVE  Pushed(q, s)'
  BY DEF ListingInv
<1>1. rpc[q] \notin Owning
  BY DEF OwnerInv, OneOwner
<1>2. rpc'[q] \notin {"page", "push", "enqueue"}
  BY <1>1 DEF Owning, Unpublished
<1> QED  BY <1>2 DEF Pushed

LEMMA ListingRequest ==
    ASSUME ImplInv, NEW r \in Request, RequestStep(r), NEW s \in SearchID
    PROVE  ListingInv(s)'
<1> USE DEF ReqStep
<1>1. /\ TypeOK /\ OwnerInv /\ FirstPages /\ SearchInv(s) /\ ListingInv(s)
      /\ UNCHANGED rsid /\ rsid[r] \in SearchID
  BY RequestKeeps DEF ImplInv
<1>2. CASE s # rsid[r]
  <2>1. Waiting(s)' = Waiting(s)
    BY <1>1, <1>2, OtherRequest DEF Waiting
  <2>2. \A q \in Request : rsid[q] = s =>
            rpc'[q] = rpc[q] /\ rpage'[q] = rpage[q] /\ rtodo'[q] = rtodo[q]
    BY <1>1, <1>2, OtherRequest
  <2> QED  BY <1>1, <2>1, <2>2 DEF ListingInv, Pushed
<1>3. CASE s = rsid[r] /\ Acquire(r)
  <2>1. Waiting(s)' = Waiting(s) /\ UNCHANGED <<rpage, rtodo>>
    BY <1>3 DEF Acquire, AcquireSearch, Waiting
  <2>2. \A q \in Request : rpc'[q] \in {"page", "push", "enqueue"} => rpc'[q] = rpc[q]
    BY <1>1, <1>3 DEF Acquire, TypeOK
  <2> QED  BY <1>1, <2>1, <2>2 DEF ListingInv, Pushed
<1>4. CASE s = rsid[r] /\ ~Acquire(r)
  <2>1. rpc[r] \in Owning /\ \A q \in Request : q # r => rpc'[q] = rpc[q]
    BY <1>1, <1>4
    DEF RequestStep, FindDependencies, AddCached, CompleteCached, ReadPage,
        PushProject, NextProject, Enqueue, Owning, Unpublished, TypeOK
  <2>2. rpc'[r] \notin {"page", "push", "enqueue"} => Pushed(r, s)'
    BY DEF Pushed
  <2>3. CASE AddCached(r) \/ CompleteCached(r) \/ Enqueue(r)
    <3>1. rpc'[r] \notin {"page", "push", "enqueue"}
      BY <1>1, <2>3 DEF AddCached, CompleteCached, Enqueue, TypeOK
    <3> QED  BY <1>1, <1>4, <2>1, <2>2, <3>1, OwnerLists
  <2>4. CASE FindDependencies(r)
    <3>1. rpc[r] = "lookup" /\ rpc'[r] \in {"cached_add", "page"} /\ rpage'[r] = 1
      BY <1>1, <2>4 DEF FindDependencies, FirstPages, TypeOK
    <3>2. Waiting(s)' = {}
      <4>1. queue[s] = << >> /\ queue' = queue
        BY <1>1, <1>4, <2>4, <3>1 DEF SearchInv, FindDependencies, storageVars
      <4> QED  BY <4>1 DEF Waiting
    <3>3. rpage'[r] - 1 = 0 /\ Last(0) = 0
      BY <3>1, CatalogType, PageTimes, PageSizeAssumption DEF Last
    <3>4. Pushed(r, s)'
      BY <3>1, <3>2, <3>3, UpToAll DEF Pushed
    <3> QED  BY <1>1, <1>4, <2>1, <3>4, OwnerLists
  <2>5. CASE ReadPage(r)
    <3> DEFINE page == rpage[r] - 1
    <3>1. page \in Nat /\ page + 1 = rpage[r] /\ rpage' = rpage
      BY <1>1, <2>5 DEF ReadPage, TypeOK
    <3>2. Waiting(s) = UpTo(Last(page)) /\ Waiting(s)' = Waiting(s)
      BY <1>1, <1>4, <2>5 DEF ReadPage, storageVars, ListingInv, Pushed, Waiting
    <3>3. rtodo'[r] = PageOf(page + 1)
          /\ rpc'[r] = IF PageOf(page + 1) = << >> THEN "enqueue" ELSE "push"
      BY <1>1, <2>5, <3>1 DEF ReadPage, TypeOK
    <3> HIDE DEF page
    <3>4. Last(page) \in Nat
      BY <3>1, PageWindow, CatalogType
    <3>5. CASE PageOf(page + 1) = << >>
      <4>1. Waiting(s)' = AllBranches
        BY <3>1, <3>2, <3>5, PageWindow, UpToAll
      <4> QED  BY <1>1, <1>4, <2>1, <3>3, <3>5, <4>1, OwnerLists DEF Pushed
    <3>6. CASE PageOf(page + 1) # << >>
      <4>1. /\ Last(page) < Last(rpage'[r])
            /\ rtodo'[r] = SubSeq(Catalog, Last(page) + 1, Last(rpage'[r]))
            /\ Waiting(s)' = UpTo(Last(page))
        BY <3>1, <3>2, <3>3, <3>6, PageWindow
      <4>2. Pushed(r, s)'
        BY <3>3, <3>4, <3>6, <4>1 DEF Pushed
      <4> QED  BY <1>1, <1>4, <2>1, <4>2, OwnerLists
    <3> QED  BY <3>5, <3>6
  <2>6. CASE PushProject(r)
    <3>1. rpc[r] = "push" /\ rpage[r] \in Nat \ {0} /\ queue[s] \in Seq(Branch)
      BY <1>1, <2>6 DEF PushProject, NextProject, TypeOK, StorageTypeOK
    <3>2. PICK k \in Nat :
               /\ k < Last(rpage[r])
               /\ rtodo[r] = SubSeq(Catalog, k + 1, Last(rpage[r]))
               /\ Waiting(s) = UpTo(k)
      BY <1>1, <1>4, <3>1 DEF ListingInv, Pushed
    <3>3. Last(rpage[r]) \in 0..Len(Catalog)
      BY <3>1, PageWindow
    <3>4. /\ Head(rtodo[r]) = Catalog[k + 1] /\ k + 1 \in 1..Len(Catalog)
          /\ Tail(rtodo[r]) = SubSeq(Catalog, k + 2, Last(rpage[r]))
          /\ Tail(rtodo[r]) = << >> <=> k + 1 = Last(rpage[r])
      BY <3>2, <3>3, WindowTail
    <3>5. queue'[s] = queue[s] \o Catalog[k + 1]
      BY <1>1, <1>4, <2>6, <3>4
      DEF PushProject, AddProjectsToQueue, TypeOK, StorageTypeOK
    <3>6. Waiting(s)' = UpTo(k + 1)
      <4>1. Catalog[k + 1] \in Seq(Branch) /\ Items(Catalog[k + 1]) = BranchesAt(k + 1)
        BY <3>4, CatalogType DEF Items, BranchesAt
      <4>2. Items(queue[s] \o Catalog[k + 1]) = Items(queue[s]) \cup BranchesAt(k + 1)
        BY <3>1, <4>1, ConcatItems
      <4>3. Waiting(s)' = Items(queue'[s])
        BY DEF Waiting, Items
      <4>4. Waiting(s)' = Items(queue[s]) \cup BranchesAt(k + 1)
        BY <3>5, <4>2, <4>3
      <4> QED  BY <3>2, <4>4, WaitingIsItems, UpToNext
    <3>7. /\ rpc'[r] = IF Tail(rtodo[r]) = << >> THEN "page" ELSE "push"
          /\ rtodo'[r] = Tail(rtodo[r])
          /\ rpage'[r] = IF Tail(rtodo[r]) = << >> THEN rpage[r] + 1 ELSE rpage[r]
      BY <1>1, <2>6 DEF PushProject, NextProject, TypeOK
    <3>8. CASE Tail(rtodo[r]) = << >>
      <4>1. rpc'[r] = "page" /\ rpage'[r] - 1 = rpage[r] /\ Waiting(s)' = UpTo(Last(rpage[r]))
        BY <3>1, <3>4, <3>6, <3>7, <3>8
      <4>2. Pushed(r, s)'
        BY <4>1 DEF Pushed
      <4> QED  BY <1>1, <1>4, <2>1, <4>2, OwnerLists
    <3>9. CASE Tail(rtodo[r]) # << >>
      <4>1. k + 1 < Last(rpage[r]) /\ (k + 1) + 1 = k + 2 /\ k + 1 \in Nat
        <5>1. k + 1 # Last(rpage[r])
          BY <3>4, <3>9, Zenon
        <5>2. Last(rpage[r]) \in Int
          BY <3>3, CatalogType
        <5> QED  BY <3>2, <5>1, <5>2, Successor
      <4>2. Pushed(r, s)'
        BY <3>4, <3>6, <3>7, <3>9, <4>1 DEF Pushed
      <4> QED  BY <1>1, <1>4, <2>1, <4>2, OwnerLists
    <3> QED  BY <3>8, <3>9
  <2> QED  BY <2>3, <2>4, <2>5, <2>6, <1>4 DEF RequestStep
<1> QED  BY <1>2, <1>3, <1>4

LEMMA OnePlaceRequest ==
    ASSUME ImplInv, NEW r \in Request, RequestStep(r), NEW s \in SearchID
    PROVE  OnePlaceInv(s)'
<1> USE DEF ReqStep
<1>1. /\ TypeOK /\ OwnerInv /\ SearchInv(s) /\ ListingInv(s) /\ OnePlaceInv(s)
      /\ UNCHANGED <<wpc, wsid, witem>> /\ rsid[r] \in SearchID
  BY RequestKeeps DEF ImplInv, workerVars
<1>2. \A v \in Worker : Holds(v, s)' <=> Holds(v, s)
  BY <1>1 DEF Holds, Working
<1>3. CASE ~(s = rsid[r] /\ PushProject(r))
  <2>1. queue'[s] = queue[s]
    BY <1>1, <1>3, OtherRequest
    DEF RequestStep, Acquire, AcquireSearch, FindDependencies, AddCached,
        CompleteCached, ReadPage, Enqueue, AddSearchToQueue, CompleteSearch, storageVars
  <2>2. Waiting(s)' = Waiting(s)
    BY <2>1 DEF Waiting
  <2>3. named'[s] /\ queue'[s] # << >> => score'[s] > 0
    <3>1. CASE s # rsid[r]
      BY <1>1, <3>1, OtherRequest DEF OnePlaceInv
    <3>2. CASE s = rsid[r] /\ (AddCached(r) \/ Enqueue(r))
      BY <1>1, <3>2 DEF AddCached, Enqueue, AddSearchToQueue, TypeOK, StorageTypeOK
    <3>3. CASE s = rsid[r] /\ CompleteCached(r)
      <4>1. queue[s] = << >>
        BY <1>1, <3>3 DEF CompleteCached, SearchInv
      <4> QED  BY <2>1, <4>1
    <3>4. CASE s = rsid[r] /\ (Acquire(r) \/ FindDependencies(r) \/ ReadPage(r))
      BY <1>1, <2>1, <3>4
      DEF Acquire, AcquireSearch, FindDependencies, ReadPage, storageVars, OnePlaceInv
    <3> QED  BY <1>3, <3>1, <3>2, <3>3, <3>4 DEF RequestStep
  <2> QED  BY <1>1, <1>2, <2>1, <2>2, <2>3 DEF OnePlaceInv
<1>4. CASE s = rsid[r] /\ PushProject(r)
  <2>1. /\ rpc[r] = "push" /\ rpage[r] \in Nat \ {0} /\ queue[s] \in Seq(Branch)
        /\ ~named[s] /\ named' = named
    BY <1>1, <1>4
    DEF PushProject, NextProject, AddProjectsToQueue, SearchInv, Unpublished,
        TypeOK, StorageTypeOK
  <2>2. PICK k \in Nat :
             /\ k < Last(rpage[r])
             /\ rtodo[r] = SubSeq(Catalog, k + 1, Last(rpage[r]))
             /\ Waiting(s) = UpTo(k)
    BY <1>1, <1>4, <2>1 DEF ListingInv, Pushed
  <2>3. Last(rpage[r]) \in 0..Len(Catalog)
    BY <2>1, PageWindow
  <2>4. Head(rtodo[r]) = Catalog[k + 1] /\ k + 1 \in 1..Len(Catalog)
    BY <2>2, <2>3, WindowTail
  <2>5. queue'[s] = queue[s] \o Catalog[k + 1]
    BY <1>1, <1>4, <2>4 DEF PushProject, AddProjectsToQueue, TypeOK, StorageTypeOK
  <2>6. /\ Catalog[k + 1] \in Seq(Branch) /\ Items(Catalog[k + 1]) = BranchesAt(k + 1)
        /\ Once(Catalog[k + 1])
    BY <2>4, CatalogType, BranchesAreDistinct DEF Items, BranchesAt, Once
  <2>7. Items(queue[s]) \cap Items(Catalog[k + 1]) = {}
    BY <2>2, <2>4, <2>6, NewBranches, WaitingIsItems
  <2>10. Waiting(s)' \subseteq AllBranches
    <3>1. Items(queue'[s]) = Items(queue[s]) \cup BranchesAt(k + 1)
      BY <2>1, <2>5, <2>6, ConcatItems
    <3>2. BranchesAt(k + 1) \subseteq AllBranches
      BY <2>4 DEF BranchesAt, AllBranches
    <3>3. Items(queue[s]) \subseteq AllBranches
      BY <1>1, WaitingIsItems DEF OnePlaceInv
    <3>4. Waiting(s)' = Items(queue'[s])
      BY DEF Waiting, Items
    <3> QED  BY <3>1, <3>2, <3>3, <3>4
  <2>8. Once(queue'[s])
    BY <1>1, <2>1, <2>5, <2>6, <2>7, ConcatItems DEF OnePlaceInv
  <2>9. \A v \in Worker : ~Holds(v, s)'
    BY <1>1, <1>2, <2>1 DEF SearchInv, Holds, Working
  <2> QED  BY <2>1, <2>8, <2>9, <2>10 DEF OnePlaceInv
<1> QED  BY <1>3, <1>4

\* A worker that does not take a branch puts the one in its hand down, or keeps it.
LEMMA WorkerKeeps ==
    ASSUME TypeOK, NEW w \in Worker, WorkerStep(w)
    PROVE  /\ UNCHANGED requestVars /\ UNCHANGED named
           /\ ~TakeProject(w) =>
                  /\ UNCHANGED queue
                  /\ \A v \in Worker, s \in SearchID :
                         Holds(v, s)' => Holds(v, s) /\ witem'[v] = witem[v]
           /\ ~Complete(w) => UNCHANGED score
<1> USE DEF WorkStep, NoRequest
<1>1. UNCHANGED requestVars /\ UNCHANGED named
  BY DEF WorkerStep, PeekSearch, PollNothing, GetDetails, DetailsMissing,
      TakeProject, NoProjectLeft, Complete, ReadStatus, MarkProcessing,
      ScanNothing, ScanFinds, LookupPackage, CreatePackage, AttachPackage,
      ReportFailure, vars, storageVars, GetProjectFromQueue, CompleteSearch,
      UpdateSearchStatus, AddFailedRepository
<1>2. ~Complete(w) => UNCHANGED score
  BY DEF WorkerStep, PeekSearch, PollNothing, GetDetails, DetailsMissing,
      TakeProject, NoProjectLeft, ReadStatus, MarkProcessing,
      ScanNothing, ScanFinds, LookupPackage, CreatePackage, AttachPackage,
      ReportFailure, vars, storageVars, GetProjectFromQueue,
      UpdateSearchStatus, AddFailedRepository
<1>3. ~TakeProject(w) => UNCHANGED queue
  BY DEF WorkerStep, PeekSearch, PollNothing, GetDetails, DetailsMissing,
      NoProjectLeft, Complete, ReadStatus, MarkProcessing,
      ScanNothing, ScanFinds, LookupPackage, CreatePackage, AttachPackage,
      ReportFailure, vars, storageVars, CompleteSearch,
      UpdateSearchStatus, AddFailedRepository
<1>4. ASSUME ~TakeProject(w), NEW v \in Worker, NEW s \in SearchID, Holds(v, s)'
      PROVE  Holds(v, s) /\ witem'[v] = witem[v]
  <2>1. CASE PollNothing(w)
    BY <1>4, <2>1 DEF PollNothing, vars, workerVars, Holds, Working
  <2>2. CASE PeekSearch(w)
    BY <1>4, <2>2 DEF PeekSearch, Holds, Working, Holding, InProcessProject, TypeOK
  <2>3. CASE \/ GetDetails(w) \/ NoProjectLeft(w) \/ ReadStatus(w)
             \/ MarkProcessing(w) \/ ScanFinds(w) \/ LookupPackage(w) \/ CreatePackage(w)
    <3>1. UNCHANGED <<wsid, witem>>
      BY <2>3 DEF GetDetails, NoProjectLeft, ReadStatus, MarkProcessing, ScanFinds,
                  LookupPackage, CreatePackage
    <3>2. \/ wpc'[v] = wpc[v] \/ wpc'[v] \in {"pop", "complete"}
          \/ v = w /\ wpc[v] \in Holding
      BY <2>3 DEF GetDetails, NoProjectLeft, ReadStatus, MarkProcessing, ScanFinds,
                  LookupPackage, CreatePackage, Holding, InProcessProject, TypeOK
    <3>3. wpc[v] \in Holding
      BY <1>4, <3>2 DEF Holds, Holding, InProcessProject
    <3> QED  BY <1>4, <3>1, <3>3 DEF Holds, Working, Holding, InProcessProject
  <2>4. CASE \/ DetailsMissing(w) \/ Complete(w) \/ ScanNothing(w) \/ AttachPackage(w)
             \/ ReportFailure(w)
    <3>1. Return(w)
      BY <2>4 DEF DetailsMissing, Complete, ScanNothing, AttachPackage, ReportFailure, Settle
    <3> QED  BY <1>4, <3>1 DEF Return, Holds, Working, TypeOK
  <2> QED  BY <1>4, <2>1, <2>2, <2>3, <2>4 DEF WorkerStep
<1> QED  BY <1>1, <1>2, <1>3, <1>4

\* Taking the head of a queue.
LEMMA TakeHead ==
    ASSUME ImplInv, NEW w \in Worker, TakeProject(w), NEW s \in SearchID, s = wsid[w]
    PROVE  /\ queue[s] \in Seq(Branch) /\ queue[s] # << >> /\ named[s] /\ score[s] > 0
           /\ queue'[s] = Tail(queue[s]) /\ Once(queue'[s])
           /\ \A t \in SearchID : t # s => queue'[t] = queue[t]
           /\ Waiting(s)' = Waiting(s) \ {Head(queue[s])}
           /\ Head(queue[s]) \in Waiting(s)
           /\ witem'[w] = Head(queue[s]) /\ Holds(w, s)' /\ ~Holds(w, s)
           /\ \A v \in Worker, t \in SearchID : v # w \/ t # s =>
                  (Holds(v, t)' <=> Holds(v, t)) /\ (Holds(v, t) => witem'[v] = witem[v])
<1>1. TypeOK /\ wpc[w] = "pop" /\ SearchInv(s) /\ OnePlaceInv(s)
  BY DEF TakeProject, WorkStep, ImplInv
<1>2. queue[s] \in Seq(Branch) /\ queue[s] # << >> /\ queue' = [queue EXCEPT ![s] = Tail(@)]
  BY <1>1 DEF TakeProject, GetProjectFromQueue, TypeOK, StorageTypeOK
<1>3. named[s] /\ score[s] > 0 /\ Once(queue[s])
  BY <1>1, <1>2 DEF SearchInv, OnePlaceInv
<1>4. queue'[s] = Tail(queue[s]) /\ \A t \in SearchID : t # s => queue'[t] = queue[t]
  BY <1>1, <1>2 DEF TypeOK, StorageTypeOK
<1>5. /\ Once(queue'[s]) /\ Items(queue'[s]) = Items(queue[s]) \ {Head(queue[s])}
      /\ Head(queue[s]) \in Items(queue[s])
  BY <1>2, <1>3, <1>4, TailItems
<1>6. Waiting(s)' = Items(queue'[s]) /\ Waiting(s) = Items(queue[s])
  BY WaitingIsItems DEF Waiting, Items
<1>7. wsid' = wsid /\ wpc' = [wpc EXCEPT ![w] = "status"]
      /\ witem' = [witem EXCEPT ![w] = Head(queue[s])]
  BY DEF TakeProject, WorkStep
<1>8. witem'[w] = Head(queue[s]) /\ Holds(w, s)' /\ ~Holds(w, s)
  BY <1>1, <1>7 DEF Holds, Working, Holding, InProcessProject, TypeOK
<1>9. \A v \in Worker, t \in SearchID : v # w \/ t # s =>
          (Holds(v, t)' <=> Holds(v, t)) /\ (Holds(v, t) => witem'[v] = witem[v])
  BY <1>1, <1>7 DEF Holds, Working, Holding, InProcessProject, TypeOK
<1> QED  BY <1>2, <1>3, <1>4, <1>5, <1>6, <1>8, <1>9

LEMMA TakenFrom ==
    ASSUME TypeOK, NEW w \in Worker, TakeProject(w)
    PROVE  wsid[w] \in SearchID
BY DEF TakeProject, WorkStep, TypeOK

LEMMA ListingWorker ==
    ASSUME ImplInv, NEW w \in Worker, WorkerStep(w), NEW s \in SearchID
    PROVE  ListingInv(s)'
<1>1. /\ TypeOK /\ SearchInv(s) /\ ListingInv(s) /\ UNCHANGED <<rpc, rsid, rpage, rtodo>>
  BY WorkerKeeps DEF ImplInv, requestVars
<1>2. CASE queue'[s] = queue[s]
  <2>1. Waiting(s)' = Waiting(s)
    BY <1>2 DEF Waiting
  <2> QED  BY <1>1, <2>1 DEF ListingInv, Pushed
<1>3. CASE queue'[s] # queue[s]
  <2>0. TakeProject(w)
    BY <1>1, <1>3, WorkerKeeps
  <2> PICK t \in SearchID : t = wsid[w]
    BY <1>1, <2>0, TakenFrom
  <2>1. s = t /\ named[t]
    BY <1>3, <2>0, TakeHead
  <2>2. \A r \in Request : rsid[r] = s => rpc[r] \notin Unpublished
    BY <1>1, <2>1 DEF SearchInv
  <2> QED  BY <1>1, <2>2 DEF ListingInv, Pushed, Unpublished
<1> QED  BY <1>2, <1>3

LEMMA OnePlaceWorker ==
    ASSUME ImplInv, NEW w \in Worker, WorkerStep(w), NEW s \in SearchID
    PROVE  OnePlaceInv(s)'
<1>1. TypeOK /\ SearchInv(s) /\ OnePlaceInv(s) /\ UNCHANGED named
  BY WorkerKeeps DEF ImplInv
<1>2. CASE ~TakeProject(w)
  <2>1. queue' = queue /\ Waiting(s)' = Waiting(s)
    BY <1>1, <1>2, WorkerKeeps DEF Waiting
  <2>2. \A v \in Worker : Holds(v, s)' => Holds(v, s) /\ witem'[v] = witem[v]
    BY <1>1, <1>2, WorkerKeeps
  <2>3. named'[s] /\ queue'[s] # << >> => score'[s] > 0
    <3>1. CASE ~Complete(w)
      BY <1>1, <2>1, <3>1, WorkerKeeps DEF OnePlaceInv
    <3>2. CASE Complete(w) /\ s # wsid[w]
      BY <1>1, <2>1, <3>2 DEF Complete, CompleteSearch, OnePlaceInv, TypeOK, StorageTypeOK
    <3>3. CASE Complete(w) /\ s = wsid[w]
      <4>1. queue[s] = << >>
        BY <1>1, <3>3 DEF Complete, SearchInv
      <4> QED  BY <2>1, <4>1
    <3> QED  BY <3>1, <3>2, <3>3
  <2> QED  BY <1>1, <2>1, <2>2, <2>3 DEF OnePlaceInv
<1>3. CASE TakeProject(w) /\ s # wsid[w]
  <2> PICK t \in SearchID : t = wsid[w]
    BY <1>1, <1>3, TakenFrom
  <2>1. queue'[s] = queue[s] /\ score' = score /\ Waiting(s)' = Waiting(s)
    BY <1>3, TakeHead DEF TakeProject, GetProjectFromQueue, Waiting
  <2>2. \A v \in Worker : Holds(v, s)' => Holds(v, s) /\ witem'[v] = witem[v]
    BY <1>3, TakeHead
  <2> QED  BY <1>1, <2>1, <2>2 DEF OnePlaceInv
<1>4. CASE TakeProject(w) /\ s = wsid[w]
  <2>1. score' = score /\ score[s] > 0
    BY <1>4, TakeHead DEF TakeProject, GetProjectFromQueue
  <2>2. /\ Waiting(s)' = Waiting(s) \ {Head(queue[s])} /\ Head(queue[s]) \in Waiting(s)
        /\ witem'[w] = Head(queue[s]) /\ Once(queue'[s])
    BY <1>4, TakeHead
  <2>3. \A v \in Worker : v # w =>
            (Holds(v, s)' <=> Holds(v, s)) /\ (Holds(v, s) => witem'[v] = witem[v])
    BY <1>4, TakeHead
  <2> QED  BY <1>1, <2>1, <2>2, <2>3 DEF OnePlaceInv
<1> QED  BY <1>2, <1>3, <1>4

LEMMA ImplStep ==
    ASSUME ImplInv, [Next]_vars, Undisturbed'
    PROVE  ImplInv'
<1> USE DEF ReqStep
<1>1. TypeOK' /\ OwnerInv'
  BY StepType, OwnerInvStep DEF ImplInv
<1>2. CASE UNCHANGED vars
  <2>1. UNCHANGED <<storageVars, requestVars, workerVars>>
    BY <1>2 DEF vars
  <2>2. FirstPages' /\ CachedNamed'
    BY <2>1 DEF ImplInv, FirstPages, CachedNamed, requestVars, storageVars
  <2>3. ASSUME NEW s \in SearchID
        PROVE  SearchInv(s)' /\ ListingInv(s)' /\ OnePlaceInv(s)'
    <3>1. SearchInv(s) /\ ListingInv(s) /\ OnePlaceInv(s)
      BY DEF ImplInv
    <3>2. SearchInv(s)'
      BY <2>1, <3>1 DEF SearchInv, storageVars, requestVars, workerVars
    <3>3. ListingInv(s)'
      BY <2>1, <3>1 DEF ListingInv, Pushed, Waiting, storageVars, requestVars
    <3>4. OnePlaceInv(s)'
      BY <2>1, <3>1 DEF OnePlaceInv, Holds, Working, Waiting, storageVars, workerVars
    <3> QED  BY <3>2, <3>3, <3>4
  <2> QED  BY <1>1, <2>2, <2>3 DEF ImplInv
<1>3. CASE \E r \in Request, t \in SearchID : Arrive(r, t)
  <2> PICK r \in Request, t \in SearchID : Arrive(r, t)
    BY <1>3
  <2>1. /\ UNCHANGED <<status, named, score, queue, rpage, rtodo, wpc, wsid, witem>>
        /\ \A q \in Request :
               \/ rpc'[q] = rpc[q] /\ rsid'[q] = rsid[q]
               \/ rpc[q] = "idle" /\ rpc'[q] = "acquire"
    BY DEF Arrive, ImplInv, TypeOK, storageVars, NoWorker, workerVars
  <2>2. FirstPages' /\ CachedNamed'
    BY <2>1 DEF ImplInv, FirstPages, CachedNamed
  <2>3. ASSUME NEW s \in SearchID
        PROVE  SearchInv(s)' /\ ListingInv(s)' /\ OnePlaceInv(s)'
    <3>1. SearchInv(s) /\ ListingInv(s) /\ OnePlaceInv(s)
      BY DEF ImplInv
    <3>2. SearchInv(s)'
      BY <2>1, <3>1, SearchInvFrame DEF SearchInv, Owning, Unpublished
    <3>3. ListingInv(s)'
      <4>1. Waiting(s)' = Waiting(s)
        BY <2>1 DEF Waiting
      <4>2. ASSUME NEW q \in Request, rsid'[q] = s
            PROVE  Pushed(q, s)'
        <5>1. CASE rpc'[q] = rpc[q] /\ rsid'[q] = rsid[q]
          BY <2>1, <3>1, <4>1, <4>2, <5>1 DEF ListingInv, Pushed
        <5>2. CASE rpc'[q] = "acquire"
          BY <5>2 DEF Pushed
        <5> QED  BY <2>1, <5>1, <5>2
      <4> QED  BY <4>2 DEF ListingInv
    <3>4. OnePlaceInv(s)'
      BY <2>1, <3>1 DEF OnePlaceInv, Holds, Working, Waiting
    <3> QED  BY <3>2, <3>3, <3>4
  <2> QED  BY <1>1, <2>2, <2>3 DEF ImplInv
<1>4. CASE \E r \in Request : RequestStep(r)
  <2> PICK r \in Request : RequestStep(r)
    BY <1>4
  <2>1. FirstPages'
    <3>1. CASE Acquire(r) \/ FindDependencies(r) \/ ReadPage(r) \/ AddCached(r)
               \/ CompleteCached(r) \/ Enqueue(r)
      <4>1. rpage' = rpage
        BY <3>1 DEF Acquire, FindDependencies, ReadPage, AddCached, CompleteCached, Enqueue
      <4>2. \A q \in Request : rpc'[q] \in {"idle", "acquire", "lookup"} =>
                rpc[q] \in {"idle", "acquire", "lookup"}
        BY <3>1
        DEF Acquire, FindDependencies, ReadPage, AddCached, CompleteCached, Enqueue,
            ImplInv, TypeOK
      <4> QED  BY <4>1, <4>2 DEF ImplInv, FirstPages
    <3>2. CASE PushProject(r)
      <4>1. rpc'[r] \in {"page", "push"} /\ \A q \in Request : q # r =>
                rpc'[q] = rpc[q] /\ rpage'[q] = rpage[q]
        BY <3>2 DEF PushProject, NextProject, ImplInv, TypeOK
      <4> QED  BY <4>1 DEF ImplInv, FirstPages
    <3> QED  BY <3>1, <3>2 DEF RequestStep
  <2>2. CachedNamed'
    <3> SUFFICES ASSUME NEW q \in Request, rpc'[q] = "cached_complete"
                 PROVE  named'[rsid'[q]]
      BY DEF CachedNamed
    <3>1. rsid' = rsid /\ rsid[r] \in SearchID
      BY RequestKeeps DEF ImplInv
    <3>2. CASE AddCached(r) \/ Enqueue(r)
      <4>1. \A s \in SearchID : named[s] => named'[s]
        BY <3>2 DEF AddCached, Enqueue, AddSearchToQueue, ImplInv, TypeOK, StorageTypeOK
      <4>2. rsid[q] \in SearchID
        BY <1>1, <3>1 DEF TypeOK
      <4>3. CASE q = r
        BY <3>1, <3>2, <4>3
        DEF AddCached, Enqueue, AddSearchToQueue, ImplInv, TypeOK, StorageTypeOK
      <4>4. CASE q # r
        BY <3>1, <3>2, <4>1, <4>2, <4>4 DEF AddCached, Enqueue, ImplInv, TypeOK, CachedNamed
      <4> QED  BY <4>3, <4>4
    <3>3. CASE ~AddCached(r) /\ ~Enqueue(r)
      <4>1. named' = named
        BY <3>3
        DEF RequestStep, Acquire, AcquireSearch, FindDependencies, CompleteCached,
            CompleteSearch, ReadPage, PushProject, AddProjectsToQueue, storageVars
      <4>2. rpc[q] = "cached_complete"
        BY <3>3
        DEF RequestStep, Acquire, FindDependencies, CompleteCached, ReadPage,
            PushProject, NextProject, ImplInv, TypeOK
      <4> QED  BY <3>1, <4>1, <4>2 DEF ImplInv, CachedNamed
    <3> QED  BY <3>2, <3>3
  <2>3. ASSUME NEW s \in SearchID
        PROVE  SearchInv(s)' /\ ListingInv(s)' /\ OnePlaceInv(s)'
    BY ListingRequest, OnePlaceRequest, SearchInvRequest DEF ImplInv
  <2> QED  BY <1>1, <2>1, <2>2, <2>3 DEF ImplInv
<1>5. CASE \E w \in Worker : WorkerStep(w)
  <2> PICK w \in Worker : WorkerStep(w)
    BY <1>5
  <2>1. FirstPages' /\ CachedNamed'
    BY WorkerKeeps DEF ImplInv, FirstPages, CachedNamed, requestVars
  <2>2. ASSUME NEW s \in SearchID
        PROVE  SearchInv(s)' /\ ListingInv(s)' /\ OnePlaceInv(s)'
    BY ListingWorker, OnePlaceWorker, SearchInvWorker DEF ImplInv
  <2> QED  BY <1>1, <2>1, <2>2 DEF ImplInv
<1>6. Next => \/ \E r \in Request, s \in SearchID : Arrive(r, s)
              \/ \E r \in Request : RequestStep(r)
              \/ \E w \in Worker : WorkerStep(w)
  BY OnlySteps DEF ImplInv
<1> QED  BY <1>2, <1>3, <1>4, <1>5, <1>6

LEMMA ImplInit ==
    ASSUME Init
    PROVE  ImplInv
<1>1. TypeOK
  BY InitType
<1>2. /\ \A r \in Request : rpc[r] = "idle" /\ rpage[r] = 1
      /\ \A w \in Worker : wpc[w] = "poll"
      /\ \A s \in SearchID : /\ status[s] = Absent /\ ~named[s] /\ score[s] = 0
                            /\ queue[s] = << >>
  BY DEF Init, StorageInit
<1>3. OwnerInv /\ FirstPages /\ CachedNamed
  BY <1>2 DEF OwnerInv, OneOwner, Owning, Unpublished, FirstPages, CachedNamed
<1>4. ASSUME NEW s \in SearchID
      PROVE  SearchInv(s) /\ ListingInv(s) /\ OnePlaceInv(s)
  <2>1. ~(score[s] > 0) /\ status[s] # "completed"
    BY <1>2 DEF Absent
  <2>2. SearchInv(s)
    BY <1>2, <2>1 DEF SearchInv, Unpublished
  <2>3. ListingInv(s)
    BY <1>2 DEF ListingInv, Pushed
  <2>4. OnePlaceInv(s)
    BY <1>2 DEF OnePlaceInv, Once, Holds, Working, Waiting
  <2> QED  BY <2>2, <2>3, <2>4
<1> QED  BY <1>1, <1>3, <1>4 DEF ImplInv

----------------------------------------------------------------------------
(* The simulation.  What Search sees of a search, and what it is told of a *)
(* step: one search moves, or none, and the others stay as they are.       *)

WaitingOf(s) == IF PhaseOf(s) = "claimed" THEN {} ELSE Waiting(s)

PhaseBar == [s \in SearchID |-> PhaseOf(s)]
WaitingBar == [s \in SearchID |-> WaitingOf(s)]
TakenBar == [s \in SearchID |-> InHand(s)]

SamePhase(s) == PhaseOf(s)' = PhaseOf(s)
SameWaiting(s) == WaitingOf(s)' = WaitingOf(s)
SameHand(s) == InHand(s)' = InHand(s)
SameHandled(s) == handled'[s] = handled[s]
Same(s) == SamePhase(s) /\ SameWaiting(s) /\ SameHand(s) /\ SameHandled(s)

Becomes(s, from, to) == PhaseOf(s) = from /\ PhaseOf(s)' = to

Move(s) ==
    \/ Same(s)
    \/ /\ Becomes(s, "absent", "claimed")
       /\ SameWaiting(s) /\ SameHand(s) /\ SameHandled(s)
    \/ /\ Becomes(s, "claimed", "open")
       /\ WaitingOf(s)' = AllBranches \/ SameWaiting(s)
       /\ SameHand(s) /\ SameHandled(s)
    \/ /\ Becomes(s, "open", "closed")
       /\ WaitingOf(s) = {}
       /\ SameWaiting(s) /\ SameHand(s) /\ SameHandled(s)
    \/ \E b \in AllBranches :
           /\ PhaseOf(s) = "open" /\ b \in WaitingOf(s)
           /\ WaitingOf(s)' = WaitingOf(s) \ {b}
           /\ InHand(s)' = InHand(s) \cup {b}
           /\ SamePhase(s) /\ SameHandled(s)
    \/ \E b \in AllBranches :
           /\ b \in InHand(s)
           /\ InHand(s)' = InHand(s) \ {b}
           /\ handled'[s] = handled[s] \cup {b}
           /\ SamePhase(s) /\ SameWaiting(s)

OneMoves == \E s \in SearchID : Move(s) /\ \A t \in SearchID : t # s => Same(t)
NoneMoves == \A s \in SearchID : Same(s)

LEMMA BarsOf ==
    ASSUME TypeOK, TypeOK', NEW s \in SearchID,
           \A t \in SearchID : t # s => Same(t)
    PROVE  /\ PhaseBar' = [PhaseBar EXCEPT ![s] = PhaseOf(s)']
           /\ WaitingBar' = [WaitingBar EXCEPT ![s] = WaitingOf(s)']
           /\ TakenBar' = [TakenBar EXCEPT ![s] = InHand(s)']
           /\ handled' = [handled EXCEPT ![s] = handled'[s]]
           /\ PhaseBar[s] = PhaseOf(s) /\ WaitingBar[s] = WaitingOf(s)
           /\ TakenBar[s] = InHand(s)
<1>1. PhaseBar' = [PhaseBar EXCEPT ![s] = PhaseOf(s)'] /\ PhaseBar[s] = PhaseOf(s)
  BY DEF PhaseBar, Same, SamePhase
<1>2. WaitingBar' = [WaitingBar EXCEPT ![s] = WaitingOf(s)'] /\ WaitingBar[s] = WaitingOf(s)
  BY DEF WaitingBar, Same, SameWaiting
<1>3. TakenBar' = [TakenBar EXCEPT ![s] = InHand(s)'] /\ TakenBar[s] = InHand(s)
  BY DEF TakenBar, Same, SameHand
<1>4. handled' = [handled EXCEPT ![s] = handled'[s]]
  BY DEF TypeOK, Same, SameHandled
<1> QED  BY <1>1, <1>2, <1>3, <1>4

LEMMA MoveIsAbstract ==
    ASSUME TypeOK, TypeOK', OneMoves
    PROVE  [Abstract!Next]_Abstract!searchVars
<1> PICK s \in SearchID : Move(s) /\ \A t \in SearchID : t # s => Same(t)
  BY DEF OneMoves
<1>1. /\ PhaseBar' = [PhaseBar EXCEPT ![s] = PhaseOf(s)']
      /\ WaitingBar' = [WaitingBar EXCEPT ![s] = WaitingOf(s)']
      /\ TakenBar' = [TakenBar EXCEPT ![s] = InHand(s)']
      /\ handled' = [handled EXCEPT ![s] = handled'[s]]
      /\ PhaseBar[s] = PhaseOf(s) /\ WaitingBar[s] = WaitingOf(s)
      /\ TakenBar[s] = InHand(s)
  BY BarsOf
<1>2. PhaseBar = [PhaseBar EXCEPT ![s] = PhaseBar[s]]
  BY DEF PhaseBar
<1>3. WaitingBar = [WaitingBar EXCEPT ![s] = WaitingBar[s]]
  BY DEF WaitingBar
<1>4. TakenBar = [TakenBar EXCEPT ![s] = TakenBar[s]]
  BY DEF TakenBar
<1>5. handled = [handled EXCEPT ![s] = handled[s]]
  BY DEF TypeOK
<1>6. SamePhase(s) => PhaseBar' = PhaseBar
  BY <1>1, <1>2 DEF SamePhase
<1>7. SameWaiting(s) => WaitingBar' = WaitingBar
  BY <1>1, <1>3 DEF SameWaiting
<1>8. SameHand(s) => TakenBar' = TakenBar
  BY <1>1, <1>4 DEF SameHand
<1>9. SameHandled(s) => handled' = handled
  BY <1>1, <1>5 DEF SameHandled
<1>10. CASE Same(s)
  <2>1. UNCHANGED <<PhaseBar, WaitingBar, TakenBar, handled>>
    BY <1>6, <1>7, <1>8, <1>9, <1>10 DEF Same
  <2> QED  BY <2>1 DEF Abstract!searchVars, PhaseBar, WaitingBar, WaitingOf, TakenBar
<1>11. CASE /\ Becomes(s, "absent", "claimed")
            /\ SameWaiting(s) /\ SameHand(s) /\ SameHandled(s)
  <2>1. /\ PhaseBar[s] = "absent" /\ PhaseBar' = [PhaseBar EXCEPT ![s] = "claimed"]
        /\ UNCHANGED <<WaitingBar, TakenBar, handled>>
    BY <1>1, <1>7, <1>8, <1>9, <1>11 DEF Becomes
  <2>2. Abstract!Claim(s)
    BY <2>1 DEF Abstract!Claim, Abstract!Become, PhaseBar, WaitingBar, WaitingOf, TakenBar
  <2> QED  BY <2>2 DEF Abstract!Next
<1>12. CASE /\ Becomes(s, "claimed", "open")
            /\ WaitingOf(s)' = AllBranches \/ SameWaiting(s)
            /\ SameHand(s) /\ SameHandled(s)
  <2>1. /\ PhaseBar[s] = "claimed" /\ PhaseBar' = [PhaseBar EXCEPT ![s] = "open"]
        /\ UNCHANGED <<TakenBar, handled>>
        /\ WaitingBar' = [WaitingBar EXCEPT ![s] = AllBranches] \/ WaitingBar' = WaitingBar
    BY <1>1, <1>7, <1>8, <1>9, <1>12 DEF Becomes
  <2>2. Abstract!Publish(s)
    BY <2>1 DEF Abstract!Publish, Abstract!Open, Abstract!OpenKnown, Abstract!Become,
                PhaseBar, WaitingBar, WaitingOf, TakenBar
  <2> QED  BY <2>2 DEF Abstract!Next
<1>13. CASE /\ Becomes(s, "open", "closed")
            /\ WaitingOf(s) = {}
            /\ SameWaiting(s) /\ SameHand(s) /\ SameHandled(s)
  <2>1. /\ PhaseBar[s] = "open" /\ PhaseBar' = [PhaseBar EXCEPT ![s] = "closed"]
        /\ WaitingBar[s] = {}
        /\ UNCHANGED <<WaitingBar, TakenBar, handled>>
    BY <1>1, <1>7, <1>8, <1>9, <1>13 DEF Becomes
  <2>2. Abstract!Close(s)
    BY <2>1 DEF Abstract!Close, Abstract!Become, PhaseBar, WaitingBar, WaitingOf, TakenBar
  <2> QED  BY <2>2 DEF Abstract!Next, Abstract!Progress
<1>14. ASSUME NEW b \in AllBranches,
              /\ PhaseOf(s) = "open" /\ b \in WaitingOf(s)
              /\ WaitingOf(s)' = WaitingOf(s) \ {b}
              /\ InHand(s)' = InHand(s) \cup {b}
              /\ SamePhase(s) /\ SameHandled(s)
       PROVE  Abstract!Next
  <2>1. /\ PhaseBar[s] = "open" /\ b \in WaitingBar[s]
        /\ WaitingBar' = [WaitingBar EXCEPT ![s] = WaitingBar[s] \ {b}]
        /\ TakenBar' = [TakenBar EXCEPT ![s] = TakenBar[s] \cup {b}]
        /\ UNCHANGED <<PhaseBar, handled>>
    BY <1>1, <1>6, <1>9, <1>14
  <2>2. Abstract!Take(s, b)
    BY <2>1 DEF Abstract!Take, PhaseBar, WaitingBar, WaitingOf, TakenBar
  <2> QED  BY <2>2 DEF Abstract!Next, Abstract!Progress
<1>15. ASSUME NEW b \in AllBranches,
              /\ b \in InHand(s)
              /\ InHand(s)' = InHand(s) \ {b}
              /\ handled'[s] = handled[s] \cup {b}
              /\ SamePhase(s) /\ SameWaiting(s)
       PROVE  Abstract!Next
  <2>1. /\ b \in TakenBar[s]
        /\ TakenBar' = [TakenBar EXCEPT ![s] = TakenBar[s] \ {b}]
        /\ handled' = [handled EXCEPT ![s] = handled[s] \cup {b}]
        /\ UNCHANGED <<PhaseBar, WaitingBar>>
    BY <1>1, <1>6, <1>7, <1>15
  <2>2. Abstract!Settle(s, b)
    BY <2>1 DEF Abstract!Settle, PhaseBar, WaitingBar, WaitingOf, TakenBar
  <2> QED  BY <2>2 DEF Abstract!Next
<1> QED  BY <1>10, <1>11, <1>12, <1>13, <1>14, <1>15 DEF Move

\* The keys and the phase of a search.
LEMMA SameFromKeys ==
    ASSUME NEW s \in SearchID,
           queue'[s] = queue[s], named'[s] = named[s], score'[s] = score[s],
           status'[s] = Absent <=> status[s] = Absent
    PROVE  SamePhase(s) /\ SameWaiting(s)
<1>1. PhaseOf(s)' = PhaseOf(s)
  BY DEF PhaseOf
<1>2. Waiting(s)' = Waiting(s)
  BY DEF Waiting
<1> QED  BY <1>1, <1>2 DEF SamePhase, SameWaiting, WaitingOf

\* The branches in hand, as the workers hold them.
LEMMA HandOf ==
    ASSUME NEW s \in SearchID
    PROVE  /\ InHand(s) = {witem[w] : w \in {v \in Worker : Holds(v, s)}}
           /\ InHand(s)' = {witem'[w] : w \in {v \in Worker : Holds(v, s)'}}
BY DEF InHand, Holds

LEMMA SameFromHands ==
    ASSUME NEW s \in SearchID,
           \A v \in Worker : Holds(v, s)' <=> Holds(v, s),
           \A v \in Worker : Holds(v, s) => witem'[v] = witem[v]
    PROVE  SameHand(s)
<1>1. {v \in Worker : Holds(v, s)'} = {v \in Worker : Holds(v, s)}
  OBVIOUS
<1>2. {witem'[w] : w \in {v \in Worker : Holds(v, s)}}
          = {witem[w] : w \in {v \in Worker : Holds(v, s)}}
  OBVIOUS
<1> QED  BY <1>1, <1>2, HandOf DEF SameHand

LEMMA MoveOfRequest ==
    ASSUME ImplInv, NEW r \in Request, RequestStep(r)
    PROVE  OneMoves
<1> USE DEF ReqStep
<1>1. TypeOK /\ OwnerInv /\ UNCHANGED <<wpc, wsid, witem, handled>> /\ rsid[r] \in SearchID
  BY RequestKeeps DEF ImplInv, workerVars
<1>2. \A t \in SearchID : SameHand(t) /\ SameHandled(t)
  <2>1. \A t \in SearchID, v \in Worker : Holds(v, t)' <=> Holds(v, t)
    BY <1>1 DEF Holds, Working
  <2> QED  BY <1>1, <2>1, SameFromHands DEF SameHandled
<1>3. \A t \in SearchID : t # rsid[r] => Same(t)
  BY <1>1, <1>2, OtherRequest, SameFromKeys DEF Same
<1> SUFFICES ASSUME NEW s \in SearchID, s = rsid[r]
             PROVE  Move(s)
  BY <1>1, <1>3 DEF OneMoves
<1>4. SearchInv(s) /\ ListingInv(s) /\ OnePlaceInv(s)
  BY DEF ImplInv
<1>5. SamePhase(s) /\ SameWaiting(s) => Move(s)
  BY <1>2 DEF Move, Same
<1>6. score[s] \in Nat /\ StorageTypeOK
  BY <1>1 DEF TypeOK, StorageTypeOK
<1>7. CASE Acquire(r)
  <2>1. /\ UNCHANGED <<queue, named, score>>
        /\ status' = [status EXCEPT ![s] = IF CanAcquire(s) THEN "pending" ELSE @]
    BY <1>7 DEF Acquire, AcquireSearch
  <2>2. CASE status[s] # Absent
    <3>1. status'[s] = status[s]
      BY <1>6, <2>1, <2>2 DEF CanAcquire, StorageTypeOK
    <3> QED  BY <1>5, <2>1, <3>1, SameFromKeys
  <2>3. CASE status[s] = Absent
    <3>1. status'[s] = "pending" /\ ~named[s] /\ queue[s] = << >> /\ ~(score[s] > 0)
      BY <1>4, <1>6, <2>1, <2>3 DEF CanAcquire, StorageTypeOK, SearchInv
    <3>2. Becomes(s, "absent", "claimed")
      BY <2>1, <2>3, <3>1 DEF Becomes, PhaseOf, Absent
    <3>3. WaitingOf(s) = {} /\ WaitingOf(s)' = {}
      BY <2>1, <3>1, <3>2 DEF WaitingOf, Waiting, Becomes
    <3> QED  BY <1>2, <3>2, <3>3 DEF Move, SameWaiting
  <2> QED  BY <2>2, <2>3
<1>8. CASE FindDependencies(r) \/ ReadPage(r)
  <2>1. UNCHANGED <<queue, named, score, status>>
    BY <1>8 DEF FindDependencies, ReadPage, storageVars
  <2> QED  BY <1>5, <2>1, SameFromKeys
<1>9. CASE PushProject(r)
  <2>1. UNCHANGED <<named, score, status>> /\ rpc[r] \in Unpublished
    BY <1>9 DEF PushProject, NextProject, AddProjectsToQueue, Unpublished
  <2>2. PhaseOf(s) = "claimed" /\ PhaseOf(s)' = "claimed"
    <3>1. status[s] = "pending" /\ ~named[s] /\ ~(score[s] > 0)
      BY <1>4, <2>1 DEF SearchInv
    <3> QED  BY <2>1, <3>1 DEF PhaseOf, Absent
  <2>3. WaitingOf(s) = {} /\ WaitingOf(s)' = {}
    BY <2>2 DEF WaitingOf
  <2> QED  BY <1>5, <2>2, <2>3 DEF SamePhase, SameWaiting
<1>10. CASE AddCached(r) \/ Enqueue(r)
  <2>1. AddSearchToQueue(s) /\ rpc[r] \in Unpublished
    BY <1>10 DEF AddCached, Enqueue, Unpublished
  <2>2. /\ queue' = queue /\ named'[s] /\ status'[s] = "pending"
        /\ score'[s] = score[s] + 1
    BY <1>6, <2>1 DEF AddSearchToQueue, StorageTypeOK
  <2>3. Becomes(s, "claimed", "open")
    <3>1. status[s] = "pending" /\ ~named[s] /\ ~(score[s] > 0)
      BY <1>4, <2>1 DEF SearchInv
    <3>2. score'[s] > 0
      BY <1>6, <2>2
    <3>3. PhaseOf(s) = "claimed"
      BY <3>1 DEF PhaseOf, Absent
    <3>4. PhaseOf(s)' = "open"
      BY <2>2, <3>2 DEF PhaseOf, Absent
    <3> QED  BY <3>3, <3>4 DEF Becomes
  <2>4. WaitingOf(s) = {} /\ WaitingOf(s)' = Waiting(s)
    BY <2>2, <2>3 DEF WaitingOf, Waiting, Becomes
  <2>5. Waiting(s) = AllBranches \/ Waiting(s) = {}
    <3>1. CASE Enqueue(r)
      BY <1>4, <3>1 DEF Enqueue, ListingInv, Pushed
    <3>2. CASE AddCached(r)
      <4>1. queue[s] = << >>
        BY <1>4, <3>2 DEF AddCached, SearchInv
      <4> QED  BY <4>1 DEF Waiting
    <3> QED  BY <1>10, <3>1, <3>2
  <2> QED  BY <1>2, <2>3, <2>4, <2>5 DEF Move, SameWaiting
<1>11. CASE CompleteCached(r)
  <2>1. /\ UNCHANGED <<queue, named>> /\ named[s] /\ queue[s] = << >>
        /\ status[s] # Absent /\ status'[s] # Absent
        /\ score'[s] = 0
    BY <1>4, <1>6, <1>11
    DEF CompleteCached, CompleteSearch, StorageTypeOK, ImplInv, CachedNamed,
        SearchInv, Absent
  <2>2. PhaseOf(s)' = "closed" /\ PhaseOf(s) \in {"open", "closed"}
    BY <2>1 DEF PhaseOf
  <2>3. WaitingOf(s) = {} /\ WaitingOf(s)' = {}
    BY <2>1 DEF WaitingOf, Waiting
  <2> QED  BY <1>2, <2>2, <2>3 DEF Move, Same, SamePhase, SameWaiting, Becomes
<1> QED  BY <1>7, <1>8, <1>9, <1>10, <1>11 DEF RequestStep

\* A branch leaves the hand of the worker that settles it.
LEMMA SettleHand ==
    ASSUME ImplInv, NEW w \in Worker, Settle(w), wpc[w] \in Holding,
           NEW s \in SearchID, s = wsid[w]
    PROVE  /\ witem[w] \in InHand(s) /\ witem[w] \in AllBranches
           /\ InHand(s)' = InHand(s) \ {witem[w]}
           /\ handled'[s] = handled[s] \cup {witem[w]}
           /\ \A t \in SearchID : t # s => SameHand(t) /\ SameHandled(t)
<1>1. /\ TypeOK /\ OnePlaceInv(s)
      /\ wpc' = [wpc EXCEPT ![w] = "poll"]
      /\ wsid' = [wsid EXCEPT ![w] = None]
      /\ witem' = [witem EXCEPT ![w] = None]
      /\ handled' = [handled EXCEPT ![s] = @ \cup {witem[w]}]
  BY DEF ImplInv, Settle, Return
<1>2. Holds(w, s)
  BY <1>1 DEF Holds, Working, Holding, InProcessProject
<1>3. \A v \in Worker : v # w => wpc'[v] = wpc[v] /\ wsid'[v] = wsid[v] /\ witem'[v] = witem[v]
  BY <1>1 DEF TypeOK
<1>4. \A v \in Worker, t \in SearchID :
          v # w => (Holds(v, t)' <=> Holds(v, t)) /\ witem'[v] = witem[v]
  BY <1>3 DEF Holds, Working
<1>5. \A t \in SearchID : ~Holds(w, t)'
  BY <1>1 DEF Holds, Working, TypeOK
<1>6. \A v \in Worker : Holds(v, s) /\ witem[v] = witem[w] => v = w
  BY <1>1, <1>2 DEF OnePlaceInv
<1>7. InHand(s)' = InHand(s) \ {witem[w]}
  <2>1. \A x \in InHand(s)' : x \in InHand(s) /\ x # witem[w]
    BY <1>4, <1>5, <1>6, HandOf
  <2>2. \A x \in InHand(s) : x # witem[w] => x \in InHand(s)'
    BY <1>4, HandOf
  <2> QED  BY <2>1, <2>2
<1>8. witem[w] \in InHand(s) /\ witem[w] \in AllBranches
  BY <1>1, <1>2, HandOf DEF OnePlaceInv
<1>9. ASSUME NEW t \in SearchID, t # s
      PROVE  SameHand(t) /\ SameHandled(t)
  <2>1. ~Holds(w, t)
    BY <1>9 DEF Holds, Working
  <2>2. SameHand(t)
    BY <1>4, <1>5, <2>1, SameFromHands
  <2> QED  BY <1>1, <1>9, <2>2 DEF SameHandled, TypeOK
<1>10. handled'[s] = handled[s] \cup {witem[w]}
  BY <1>1 DEF TypeOK
<1> QED  BY <1>7, <1>8, <1>9, <1>10

\* A worker on its way without a branch, and one that goes on with its branch.
LEMMA EmptyHand ==
    ASSUME NEW w \in Worker, UNCHANGED handled,
           wpc[w] \notin Holding, wpc'[w] \notin Holding,
           \A v \in Worker : v # w =>
               wpc'[v] = wpc[v] /\ wsid'[v] = wsid[v] /\ witem'[v] = witem[v]
    PROVE  \A s \in SearchID : SameHand(s) /\ SameHandled(s)
<1> TAKE s \in SearchID
<1>1. \A v \in Worker : Holds(v, s)' <=> Holds(v, s)
  BY DEF Holds, Working, Holding, InProcessProject
<1>2. \A v \in Worker : Holds(v, s) => witem'[v] = witem[v]
  BY DEF Holds
<1> QED  BY <1>1, <1>2, SameFromHands DEF SameHandled

LEMMA FullHand ==
    ASSUME NEW w \in Worker, UNCHANGED <<handled, wsid, witem>>,
           wpc[w] \in Holding, wpc'[w] \in Holding,
           \A v \in Worker : v # w => wpc'[v] = wpc[v]
    PROVE  \A s \in SearchID : SameHand(s) /\ SameHandled(s)
<1> TAKE s \in SearchID
<1>1. \A v \in Worker : Holds(v, s)' <=> Holds(v, s)
  BY DEF Holds, Working, Holding, InProcessProject
<1> QED  BY <1>1, SameFromHands DEF SameHandled

LEMMA MoveOfWorker ==
    ASSUME ImplInv, NEW w \in Worker, WorkerStep(w)
    PROVE  OneMoves \/ NoneMoves
<1> USE DEF WorkStep
<1>1. TypeOK /\ StorageTypeOK /\ UNCHANGED named
  BY WorkerKeeps DEF ImplInv, TypeOK
<1>2. CASE PollNothing(w)
  <2>1. UNCHANGED <<status, named, score, queue, wpc, wsid, witem, handled>>
    BY <1>2 DEF PollNothing, vars, storageVars, workerVars
  <2>2. ASSUME NEW s \in SearchID
        PROVE  Same(s)
    <3>1. SamePhase(s) /\ SameWaiting(s)
      BY <2>1, SameFromKeys
    <3>2. \A v \in Worker : Holds(v, s)' <=> Holds(v, s)
      BY <2>1 DEF Holds, Working
    <3> QED  BY <2>1, <3>1, <3>2, SameFromHands DEF Same, SameHandled
  <2> QED  BY <2>2 DEF NoneMoves
<1>3. CASE PeekSearch(w) \/ GetDetails(w) \/ DetailsMissing(w) \/ NoProjectLeft(w)
           \/ ReadStatus(w) \/ ScanFinds(w) \/ LookupPackage(w) \/ CreatePackage(w)
  <2>1. UNCHANGED <<status, named, score, queue, handled>>
    BY <1>3 DEF PeekSearch, GetDetails, DetailsMissing, NoProjectLeft, ReadStatus, ScanFinds,
                LookupPackage, CreatePackage, storageVars
  <2>2. \A v \in Worker : v # w => wpc'[v] = wpc[v] /\ wsid'[v] = wsid[v] /\ witem'[v] = witem[v]
    BY <1>1, <1>3 DEF PeekSearch, GetDetails, DetailsMissing, Return, NoProjectLeft,
                      ReadStatus, ScanFinds, LookupPackage, CreatePackage, TypeOK
  <2>3. CASE PeekSearch(w) \/ GetDetails(w) \/ DetailsMissing(w) \/ NoProjectLeft(w)
    <3>1. wpc[w] \notin Holding /\ wpc'[w] \notin Holding
      BY <1>1, <2>3 DEF PeekSearch, GetDetails, DetailsMissing, Return, NoProjectLeft,
                        Holding, InProcessProject, TypeOK
    <3>2. \A t \in SearchID : SameHand(t) /\ SameHandled(t)
      BY <2>1, <2>2, <3>1, EmptyHand
    <3> QED  BY <2>1, <3>2, SameFromKeys DEF NoneMoves, Same
  <2>4. CASE ReadStatus(w) \/ ScanFinds(w) \/ LookupPackage(w) \/ CreatePackage(w)
    <3>1. wpc[w] \in Holding /\ wpc'[w] \in Holding /\ UNCHANGED <<wsid, witem>>
      BY <1>1, <2>4 DEF ReadStatus, ScanFinds, LookupPackage, CreatePackage,
                        Holding, InProcessProject, TypeOK
    <3>2. \A t \in SearchID : SameHand(t) /\ SameHandled(t)
      BY <2>1, <2>2, <3>1, FullHand
    <3> QED  BY <2>1, <3>2, SameFromKeys DEF NoneMoves, Same
  <2> QED  BY <1>3, <2>3, <2>4
<1>4. CASE MarkProcessing(w)
  <2> PICK s \in SearchID : s = wsid[w]
    BY <1>1, <1>4 DEF MarkProcessing, TypeOK
  <2>1. /\ UNCHANGED <<named, score, queue, handled, wsid, witem>>
        /\ status' = [status EXCEPT ![s] = "processing"]
        /\ wpc[w] = "mark" /\ wpc' = [wpc EXCEPT ![w] = "scan"]
    BY <1>4 DEF MarkProcessing, UpdateSearchStatus
  <2>2. status[s] # Absent
    BY <2>1 DEF ImplInv, SearchInv
  <2>3. \A t \in SearchID : status'[t] = Absent <=> status[t] = Absent
    BY <1>1, <2>1, <2>2 DEF StorageTypeOK, Absent
  <2>4. wpc[w] \in Holding /\ wpc'[w] \in Holding
        /\ \A v \in Worker : v # w => wpc'[v] = wpc[v]
    BY <1>1, <2>1 DEF Holding, InProcessProject, TypeOK
  <2>5. \A t \in SearchID : SameHand(t) /\ SameHandled(t)
    BY <2>1, <2>4, FullHand
  <2> QED  BY <2>1, <2>3, <2>5, SameFromKeys DEF NoneMoves, Same
<1>5. CASE Complete(w)
  <2> PICK s \in SearchID : s = wsid[w]
    BY <1>1, <1>5 DEF Complete, TypeOK
  <2>1. /\ UNCHANGED <<named, queue, handled>>
        /\ score' = [score EXCEPT ![s] = 0] /\ status' = [status EXCEPT ![s] = "completed"]
        /\ wpc[w] = "complete" /\ Return(w)
    BY <1>5 DEF Complete, CompleteSearch
  <2>2. named[s] /\ queue[s] = << >> /\ status[s] # Absent
    BY <2>1 DEF ImplInv, SearchInv
  <2>3. \A t \in SearchID : SameHand(t) /\ SameHandled(t)
    <3>1. wpc[w] \notin Holding /\ wpc'[w] \notin Holding
      BY <1>1, <2>1 DEF Return, Holding, InProcessProject, TypeOK
    <3>2. \A v \in Worker : v # w =>
              wpc'[v] = wpc[v] /\ wsid'[v] = wsid[v] /\ witem'[v] = witem[v]
      BY <1>1, <2>1 DEF Return, TypeOK
    <3> QED  BY <2>1, <3>1, <3>2, EmptyHand
  <2>4. \A t \in SearchID : t # s => Same(t)
    BY <1>1, <2>1, <2>3, SameFromKeys DEF Same, StorageTypeOK
  <2>5. status'[s] # Absent /\ score'[s] = 0
    BY <1>1, <2>1 DEF StorageTypeOK, Absent
  <2>6. PhaseOf(s)' = "closed" /\ PhaseOf(s) \in {"open", "closed"}
    BY <2>1, <2>2, <2>5 DEF PhaseOf
  <2>7. WaitingOf(s) = {} /\ WaitingOf(s)' = {}
    BY <2>1, <2>2 DEF WaitingOf, Waiting
  <2>8. Move(s)
    BY <2>3, <2>6, <2>7 DEF Move, Same, SamePhase, SameWaiting, Becomes
  <2> QED  BY <2>4, <2>8 DEF OneMoves
<1>6. CASE TakeProject(w)
  <2> PICK s \in SearchID : s = wsid[w]
    BY <1>1, <1>6, TakenFrom
  <2>1. UNCHANGED <<status, named, score, handled>>
    BY <1>6 DEF TakeProject, GetProjectFromQueue
  <2>2. \A t \in SearchID : t # s => Same(t)
    <3> SUFFICES ASSUME NEW t \in SearchID, t # s
                 PROVE  Same(t)
      OBVIOUS
    <3>1. SamePhase(t) /\ SameWaiting(t)
      BY <1>6, <2>1, TakeHead, SameFromKeys
    <3>2. SameHand(t)
      BY <1>6, TakeHead, SameFromHands
    <3> QED  BY <2>1, <3>1, <3>2 DEF Same, SameHandled
  <2> DEFINE b == Head(queue[s])
  <2>3. /\ named[s] /\ score[s] > 0 /\ b \in Waiting(s) /\ Waiting(s)' = Waiting(s) \ {b}
        /\ witem'[w] = b /\ Holds(w, s)' /\ ~Holds(w, s)
        /\ \A v \in Worker : v # w =>
               (Holds(v, s)' <=> Holds(v, s)) /\ (Holds(v, s) => witem'[v] = witem[v])
    BY <1>6, TakeHead
  <2>4. b \in AllBranches
    BY <2>3 DEF ImplInv, OnePlaceInv
  <2> HIDE DEF b
  <2>5. PhaseOf(s) = "open" /\ PhaseOf(s)' = "open"
    <3>1. status[s] # Absent
      BY <2>3 DEF ImplInv, SearchInv
    <3> QED  BY <2>1, <2>3, <3>1 DEF PhaseOf
  <2>6. WaitingOf(s) = Waiting(s) /\ WaitingOf(s)' = Waiting(s) \ {b}
    BY <2>3, <2>5 DEF WaitingOf
  <2>7. InHand(s)' = InHand(s) \cup {b}
    <3>1. \A x \in InHand(s)' : x \in InHand(s) \/ x = b
      BY <2>3, HandOf
    <3>2. \A x \in InHand(s) : x \in InHand(s)'
      BY <2>3, HandOf
    <3>3. b \in InHand(s)'
      BY <2>3, HandOf
    <3> QED  BY <3>1, <3>2, <3>3
  <2>8. Move(s)
    BY <2>1, <2>3, <2>4, <2>5, <2>6, <2>7 DEF Move, SamePhase, SameHandled
  <2> QED  BY <2>2, <2>8 DEF OneMoves
<1>7. CASE ScanNothing(w) \/ AttachPackage(w) \/ ReportFailure(w)
  <2>1. /\ wpc[w] \in {"scan", "attach", "report"} /\ Settle(w)
        /\ UNCHANGED <<status, named, score, queue>>
    BY <1>7 DEF ScanNothing, AttachPackage, ReportFailure, AddFailedRepository, storageVars
  <2>2. wpc[w] \in Holding /\ wsid[w] \in SearchID
    BY <1>1, <2>1 DEF Holding, InProcessProject, TypeOK
  <2> PICK s \in SearchID : s = wsid[w]
    BY <2>2
  <2>3. /\ witem[w] \in InHand(s) /\ witem[w] \in AllBranches
        /\ InHand(s)' = InHand(s) \ {witem[w]}
        /\ handled'[s] = handled[s] \cup {witem[w]}
        /\ \A t \in SearchID : t # s => SameHand(t) /\ SameHandled(t)
    BY <2>1, <2>2, SettleHand
  <2>4. \A t \in SearchID : SamePhase(t) /\ SameWaiting(t)
    BY <2>1, SameFromKeys
  <2>5. Move(s)
    BY <2>3, <2>4 DEF Move
  <2> QED  BY <2>3, <2>4, <2>5 DEF OneMoves, Same
<1> QED  BY <1>2, <1>3, <1>4, <1>5, <1>6, <1>7 DEF WorkerStep

LEMMA NoMoveIsStutter ==
    ASSUME TypeOK, TypeOK', NoneMoves
    PROVE  UNCHANGED Abstract!searchVars
<1>1. \A s \in SearchID :
          /\ PhaseOf(s)' = PhaseOf(s) /\ WaitingOf(s)' = WaitingOf(s)
          /\ InHand(s)' = InHand(s) /\ handled'[s] = handled[s]
  BY DEF NoneMoves, Same, SamePhase, SameWaiting, SameHand, SameHandled
<1>2. UNCHANGED <<PhaseBar, WaitingBar, TakenBar>>
  BY <1>1 DEF PhaseBar, WaitingBar, TakenBar
<1>3. UNCHANGED handled
  BY <1>1 DEF TypeOK
<1> QED  BY <1>2, <1>3 DEF Abstract!searchVars, PhaseBar, WaitingBar, WaitingOf, TakenBar

LEMMA StepMoves ==
    ASSUME ImplInv, [Next]_vars, Undisturbed'
    PROVE  OneMoves \/ NoneMoves
<1>1. CASE \E r \in Request : RequestStep(r)
  BY <1>1, MoveOfRequest
<1>2. CASE \E w \in Worker : WorkerStep(w)
  BY <1>2, MoveOfWorker
<1>3. CASE UNCHANGED vars \/ \E r \in Request, s \in SearchID : Arrive(r, s)
  <2>1. UNCHANGED <<status, named, score, queue, wpc, wsid, witem, handled>>
    BY <1>3 DEF Arrive, vars, storageVars, workerVars, NoWorker
  <2>2. ASSUME NEW s \in SearchID
        PROVE  Same(s)
    <3>1. \A v \in Worker : Holds(v, s)' <=> Holds(v, s)
      BY <2>1 DEF Holds, Working
    <3> QED  BY <2>1, <3>1, SameFromKeys, SameFromHands DEF Same, SameHandled
  <2> QED  BY <2>2 DEF NoneMoves
<1> QED  BY <1>1, <1>2, <1>3, OnlySteps DEF ImplInv

LEMMA StepMapped ==
    ASSUME ImplInv, ImplInv', [Next]_vars, Undisturbed'
    PROVE  [Abstract!Next]_Abstract!searchVars
<1>1. TypeOK /\ TypeOK'
  BY DEF ImplInv
<1> QED  BY <1>1, StepMoves, MoveIsAbstract, NoMoveIsStutter

LEMMA InitMapped == Init => Abstract!Init
<1> SUFFICES ASSUME Init
             PROVE  Abstract!Init
  OBVIOUS
<1>1. \A s \in SearchID :
          status[s] = Absent /\ queue[s] = << >> /\ \A w \in Worker : wpc[w] = "poll"
  BY DEF Init, StorageInit
<1>2. ASSUME NEW s \in SearchID
      PROVE  PhaseOf(s) = "absent" /\ Waiting(s) = {} /\ InHand(s) = {}
  BY <1>1 DEF PhaseOf, Waiting, InHand, Working
<1>3. handled = [s \in SearchID |-> {}]
  BY DEF Init
<1> QED  BY <1>2, <1>3 DEF Abstract!Init

\* PackageSearch does what Search says, as long as nothing fails: a search is
\* claimed once and opened once with all its branches, each branch is popped
\* once and settled once, and the search is closed over an empty queue, however
\* many requests and workers share it (ImplementsSearch without its fairness).
THEOREM ImplementsSearchSafely ==
    NothingFails /\ Spec => Abstract!Spec
<1> SUFFICES ASSUME NothingFails
             PROVE  Spec => Abstract!Spec
  OBVIOUS
<1>1. Init => ImplInv /\ Abstract!Init
  BY ImplInit, InitMapped
<1>2. ImplInv /\ [Next]_vars => ImplInv'
  <2> SUFFICES ASSUME ImplInv, [Next]_vars
               PROVE  ImplInv'
    OBVIOUS
  <2>1. TypeOK'
    BY StepType DEF ImplInv
  <2>2. Undisturbed'
    BY <2>1 DEF NothingFails, TypeOK, Undisturbed
  <2> QED  BY <2>2, ImplStep
<1>3. ImplInv /\ ImplInv' /\ [Next]_vars => [Abstract!Next]_Abstract!searchVars
  <2> SUFFICES ASSUME ImplInv, ImplInv', [Next]_vars
               PROVE  [Abstract!Next]_Abstract!searchVars
    OBVIOUS
  <2>1. Undisturbed'
    BY DEF ImplInv, NothingFails, TypeOK, Undisturbed
  <2> QED  BY <2>1, StepMapped
<1> QED  BY <1>1, <1>2, <1>3, PTL DEF Spec, Abstract!Spec

----------------------------------------------------------------------------
(* No branch of a listed search is lost or handed out twice while nothing  *)
(* fails: the moves above, followed to the numbers of branches.            *)

Places(s) == WaitingOf(s) \cup InHand(s) \cup handled[s]

\* Nothing is in hand or settled before the search is open, and what is settled
\* is nowhere else.
ApartInv(s) ==
    /\ InHand(s) \subseteq AllBranches /\ handled[s] \subseteq AllBranches
    /\ PhaseOf(s) \in {"absent", "claimed"} => InHand(s) = {} /\ handled[s] = {}
    /\ WaitingOf(s) \cap InHand(s) = {}
    /\ WaitingOf(s) \cap handled[s] = {}
    /\ InHand(s) \cap handled[s] = {}

LEMMA ApartMove ==
    ASSUME NEW s \in SearchID, ApartInv(s), Move(s)
    PROVE  /\ ApartInv(s)'
           /\ PhaseOf(s) \in {"open", "closed"} =>
                  PhaseOf(s)' \in {"open", "closed"} /\ Places(s)' = Places(s)
<1> USE DEF ApartInv, Places, SamePhase, SameWaiting, SameHand, SameHandled, Becomes
<1>1. CASE Same(s)
  BY <1>1 DEF Same
<1>2. CASE /\ Becomes(s, "absent", "claimed")
           /\ SameWaiting(s) /\ SameHand(s) /\ SameHandled(s)
  BY <1>2
<1>3. CASE /\ Becomes(s, "claimed", "open")
           /\ WaitingOf(s)' = AllBranches \/ SameWaiting(s)
           /\ SameHand(s) /\ SameHandled(s)
  BY <1>3
<1>4. CASE /\ Becomes(s, "open", "closed")
           /\ WaitingOf(s) = {}
           /\ SameWaiting(s) /\ SameHand(s) /\ SameHandled(s)
  BY <1>4
<1>5. ASSUME NEW b \in AllBranches,
             /\ PhaseOf(s) = "open" /\ b \in WaitingOf(s)
             /\ WaitingOf(s)' = WaitingOf(s) \ {b}
             /\ InHand(s)' = InHand(s) \cup {b}
             /\ SamePhase(s) /\ SameHandled(s)
      PROVE  /\ ApartInv(s)'
             /\ PhaseOf(s)' \in {"open", "closed"} /\ Places(s)' = Places(s)
  BY <1>5
<1>6. ASSUME NEW b \in AllBranches,
             /\ b \in InHand(s)
             /\ InHand(s)' = InHand(s) \ {b}
             /\ handled'[s] = handled[s] \cup {b}
             /\ SamePhase(s) /\ SameWaiting(s)
      PROVE  ApartInv(s)' /\ Places(s)' = Places(s)
  BY <1>6
<1> QED  BY <1>1, <1>2, <1>3, <1>4, <1>5, <1>6 DEF Move

\* A listed search has all its branches somewhere.
WholeInv(s) ==
    Listed(s) => PhaseOf(s) \in {"open", "closed"} /\ Places(s) = AllBranches

LEMMA WholeEnqueue ==
    ASSUME ImplInv, NEW r \in Request, Enqueue(r), NEW s \in SearchID, s = rsid[r],
           ApartInv(s)'
    PROVE  PhaseOf(s)' = "open" /\ Places(s)' = AllBranches
<1>1. StorageTypeOK /\ Waiting(s) = AllBranches
  BY DEF Enqueue, ReqStep, ImplInv, ListingInv, Pushed, TypeOK
<1>2. queue' = queue /\ status'[s] = "pending" /\ score'[s] = score[s] + 1 /\ score[s] \in Nat
  BY <1>1 DEF Enqueue, AddSearchToQueue, StorageTypeOK
<1>3. score'[s] > 0 /\ status'[s] # Absent
  BY <1>2 DEF Absent
<1>4. PhaseOf(s)' = "open"
  BY <1>3 DEF PhaseOf
<1>5. WaitingOf(s)' = AllBranches
  BY <1>1, <1>2, <1>4 DEF WaitingOf, Waiting
<1> QED  BY <1>4, <1>5 DEF ApartInv, Places

LEMMA WholeStep ==
    ASSUME ImplInv, [Next]_vars, Undisturbed', NEW s \in SearchID,
           ApartInv(s), WholeInv(s)
    PROVE  ApartInv(s)' /\ WholeInv(s)'
<1>1. Move(s)
  BY StepMoves DEF OneMoves, NoneMoves, Move
<1>2. ApartInv(s)'
  BY <1>1, ApartMove
<1>3. CASE Listed(s)
  BY <1>1, <1>2, <1>3, ApartMove DEF WholeInv
<1>4. CASE ~Listed(s) /\ Listed(s)'
  <2>1. PICK r \in Request : rsid'[r] = s /\ rpc'[r] = "listed"
    BY <1>4 DEF Listed
  <2>2. ~(rsid[r] = s /\ rpc[r] = "listed")
    BY <1>4 DEF Listed
  <2>3. Enqueue(r) /\ s = rsid[r]
    <3>1. CASE UNCHANGED vars
      BY <2>1, <2>2, <3>1 DEF vars, requestVars
    <3>2. CASE \E q \in Request, t \in SearchID : Arrive(q, t)
      BY <2>1, <2>2, <3>2 DEF Arrive, ReqStep, ImplInv, TypeOK
    <3>3. CASE \E q \in Request : RequestStep(q)
      <4> PICK q \in Request : RequestStep(q)
        BY <3>3
      <4>1. rsid' = rsid /\ TypeOK
        BY RequestKeeps DEF ImplInv
      <4> QED
        BY <2>1, <2>2, <4>1
        DEF RequestStep, Acquire, FindDependencies, AddCached, CompleteCached,
            ReadPage, PushProject, NextProject, Enqueue, ReqStep, TypeOK
    <3>4. CASE \E w \in Worker : WorkerStep(w)
      BY <2>1, <2>2, <3>4, WorkerKeeps DEF requestVars, ImplInv
    <3> QED  BY <3>1, <3>2, <3>3, <3>4, OnlySteps DEF ImplInv
  <2> QED  BY <1>2, <2>3, WholeEnqueue DEF WholeInv
<1> QED  BY <1>2, <1>3, <1>4 DEF WholeInv

----------------------------------------------------------------------------
(* Counting.                                                               *)

\* A queue that names no branch twice is as long as its set of branches.
LEMMA CountItems ==
    ASSUME NEW S, NEW q \in Seq(S), Once(q)
    PROVE  IsFiniteSet(Items(q)) /\ Cardinality(Items(q)) = Len(q)
<1> DEFINE f == [i \in 1..Len(q) |-> q[i]]
<1>1. Len(q) \in Nat
  OBVIOUS
<1>2. f \in Bijection(1..Len(q), Items(q))
  <2>1. f \in [1..Len(q) -> Items(q)]
    BY DEF Items
  <2>2. \A i, j \in 1..Len(q) : f[i] = f[j] => i = j
    BY DEF Once
  <2>3. \A x \in Items(q) : \E i \in 1..Len(q) : f[i] = x
    BY DEF Items
  <2> QED  BY <2>1, <2>2, <2>3 DEF Bijection, Injection, Surjection, IsInjective
<1>3. ExistsBijection(1..Len(q), Items(q))
  BY <1>2 DEF ExistsBijection
<1>4. IsFiniteSet(1..Len(q)) /\ Cardinality(1..Len(q)) = Len(q)
  BY <1>1, FS_Interval
<1> QED  BY <1>3, <1>4, FS_Bijection

LEMMA FiniteBranches == IsFiniteSet(AllBranches)
<1>1. Len(Catalog) \in Nat
  BY CatalogType
<1> DEFINE Sets == {BranchesAt(i) : i \in 1..Len(Catalog)}
<1>2. IsFiniteSet(Sets)
  <2> DEFINE f == [i \in 1..Len(Catalog) |-> BranchesAt(i)]
  <2>1. f \in Surjection(1..Len(Catalog), Sets)
    BY DEF Surjection
  <2> QED  BY <1>1, <2>1, FS_Interval, FS_Surjection
<1>3. ASSUME NEW i \in 1..Len(Catalog)
      PROVE  IsFiniteSet(BranchesAt(i))
  <2> DEFINE f == [j \in 1..Len(Catalog[i]) |-> Catalog[i][j]]
  <2>1. f \in Surjection(1..Len(Catalog[i]), BranchesAt(i))
    BY DEF Surjection, BranchesAt
  <2>2. Len(Catalog[i]) \in Int
    BY CatalogType
  <2>3. IsFiniteSet(1..Len(Catalog[i]))
    BY <2>2, FS_Interval
  <2> HIDE DEF f
  <2> QED  BY <2>1, <2>3, FS_Surjection
<1>4. AllBranches = UNION Sets
  BY DEF AllBranches, BranchesAt
<1> QED  BY <1>2, <1>3, <1>4, FS_UNION

\* No two workers hold one branch of a search.
LEMMA CountHands ==
    ASSUME NEW s \in SearchID, OnePlaceInv(s), IsFiniteSet(InHand(s))
    PROVE  Cardinality({w \in Worker : Holds(w, s)}) = Cardinality(InHand(s))
<1> DEFINE H == {w \in Worker : Holds(w, s)}
           f == [w \in H |-> witem[w]]
<1>1. InHand(s) = {witem[w] : w \in H}
  BY HandOf
<1>2. \A v, w \in H : witem[v] = witem[w] => v = w
  BY DEF OnePlaceInv
<1> HIDE DEF H
<1>3. f \in Injection(H, InHand(s)) /\ f \in Surjection(H, InHand(s))
  BY <1>1, <1>2 DEF Injection, Surjection, IsInjective
<1> HIDE DEF f
<1>4. Cardinality(H) = Cardinality(InHand(s))
  BY <1>3, FS_Injection
<1> QED  BY <1>4 DEF H

LEMMA Zeros ==
    ASSUME NEW i \in Nat, NEW j \in Nat, NEW k \in Nat, NEW z, z = 0, NEW y, y = 0
    PROVE  (i + j - z) + k - y = i + j + k
OBVIOUS

LEMMA CountPlaces ==
    ASSUME ImplInv, NEW s \in SearchID, ApartInv(s), WholeInv(s), Listed(s)
    PROVE  /\ Waiting(s) \cup InHand(s) \cup handled[s] = AllBranches
           /\ Cardinality(AllBranches) =
                   Len(queue[s]) + Cardinality(handled[s])
                   + Cardinality({w \in Worker : Working(w, s) /\ wpc[w] \in Holding})
<1> DEFINE W == Waiting(s)
           I == InHand(s)
           D == handled[s]
<1>1. PhaseOf(s) \in {"open", "closed"} /\ Places(s) = AllBranches
  BY DEF WholeInv
<1>2. WaitingOf(s) = W
  BY <1>1 DEF WaitingOf
<1>3. W \cup I \cup D = AllBranches
  BY <1>1, <1>2 DEF Places
<1>4. W \cap I = {} /\ (W \cup I) \cap D = {}
  BY <1>2 DEF ApartInv
<1>5. OnePlaceInv(s) /\ queue[s] \in Seq(Branch)
  BY DEF ImplInv, TypeOK, StorageTypeOK
<1>6. Cardinality(W) = Len(queue[s])
  BY <1>5, CountItems, WaitingIsItems DEF OnePlaceInv
<1>7. IsFiniteSet(W) /\ IsFiniteSet(I) /\ IsFiniteSet(D)
  BY <1>3, FiniteBranches, FS_Subset
<1>8. Cardinality({w \in Worker : Working(w, s) /\ wpc[w] \in Holding}) = Cardinality(I)
  BY <1>5, <1>7, CountHands DEF Holds
<1> HIDE DEF W, I, D
<1>9. /\ Cardinality(W) \in Nat /\ Cardinality(I) \in Nat /\ Cardinality(D) \in Nat
      /\ Cardinality({}) = 0 /\ IsFiniteSet(W \cup I)
  BY <1>7, FS_CardinalityType, FS_EmptySet, FS_Union
<1>10. Cardinality(W \cup I) = Cardinality(W) + Cardinality(I) - Cardinality(W \cap I)
  BY <1>7, FS_Union
<1>11. Cardinality((W \cup I) \cup D) =
           Cardinality(W \cup I) + Cardinality(D) - Cardinality((W \cup I) \cap D)
  BY <1>7, <1>9, FS_Union
<1>12. Cardinality(AllBranches) = Cardinality(W) + Cardinality(I) + Cardinality(D)
  <2>1. Cardinality(W \cap I) = 0 /\ Cardinality((W \cup I) \cap D) = 0
    BY <1>4, <1>9
  <2>2. Cardinality(AllBranches) =
            (Cardinality(W) + Cardinality(I) - Cardinality(W \cap I))
            + Cardinality(D) - Cardinality((W \cup I) \cap D)
    BY <1>3, <1>10, <1>11
  <2> QED  BY <1>9, <2>1, <2>2, Zeros
<1> QED  BY <1>3, <1>6, <1>8, <1>9, <1>12 DEF W, I, D

----------------------------------------------------------------------------

\* Once something has failed or expired, only the types and the owner are known.
EveryInv ==
    /\ TypeOK
    /\ Undisturbed => ImplInv /\ \A s \in SearchID : ApartInv(s) /\ WholeInv(s)

LEMMA CountersGrow ==
    ASSUME TypeOK, [Next]_vars, Undisturbed'
    PROVE  Undisturbed
<1>1. UNCHANGED budgetVars
  <2>1. CASE UNCHANGED vars
    BY <2>1 DEF vars
  <2>2. CASE \E r \in Request, s \in SearchID : Arrive(r, s)
    BY <2>2 DEF Arrive
  <2>3. CASE \E r \in Request : RequestStep(r)
    BY <2>3, RequestKeeps
  <2>4. CASE \E w \in Worker : WorkerStep(w)
    BY <2>4 DEF WorkerStep, PeekSearch, PollNothing, GetDetails, DetailsMissing,
                TakeProject, NoProjectLeft, Complete, ReadStatus, MarkProcessing,
                ScanNothing, ScanFinds, LookupPackage, CreatePackage, AttachPackage,
                ReportFailure, vars
  <2> QED  BY <2>1, <2>2, <2>3, <2>4, OnlySteps
<1> QED  BY <1>1 DEF Undisturbed, budgetVars

LEMMA EveryInit == Init => EveryInv
<1> SUFFICES ASSUME Init
             PROVE  EveryInv
  OBVIOUS
<1>1. ImplInv
  BY ImplInit
<1>2. ASSUME NEW s \in SearchID
      PROVE  ApartInv(s) /\ WholeInv(s)
  <2>1. queue[s] = << >> /\ handled[s] = {} /\ \A w \in Worker : wpc[w] = "poll"
    BY DEF Init, StorageInit
  <2>2. Waiting(s) = {} /\ InHand(s) = {}
    BY <2>1 DEF Waiting, InHand, Working
  <2>3. ~Listed(s)
    BY DEF Listed, Init
  <2> QED  BY <2>1, <2>2, <2>3 DEF ApartInv, WholeInv, WaitingOf
<1> QED  BY <1>1, <1>2 DEF EveryInv, ImplInv

LEMMA EveryStep ==
    ASSUME EveryInv, [Next]_vars
    PROVE  EveryInv'
<1>1. TypeOK'
  BY StepType DEF EveryInv
<1>2. ASSUME Undisturbed'
      PROVE  ImplInv' /\ \A s \in SearchID : ApartInv(s)' /\ WholeInv(s)'
  <2>1. Undisturbed
    BY <1>2, CountersGrow DEF EveryInv
  <2>2. ImplInv /\ \A s \in SearchID : ApartInv(s) /\ WholeInv(s)
    BY <2>1 DEF EveryInv
  <2>3. ImplInv'
    BY <1>2, <2>2, ImplStep
  <2> QED  BY <1>2, <2>2, <2>3, WholeStep
<1> QED  BY <1>1, <1>2 DEF EveryInv

\* While nothing has failed or expired, each branch of a search that went
\* through listing is at exactly one place: in the queue StartSearch filled, in
\* the hand of one worker between its pop and the end of ProcessProject, or
\* settled; none is lost and none is scanned twice.
THEOREM EveryBranchOnceCorrect == Spec => []EveryBranchOnce
<1>1. Init => EveryInv
  BY EveryInit
<1>2. EveryInv /\ [Next]_vars => EveryInv'
  BY EveryStep
<1>3. EveryInv => EveryBranchOnce
  BY CountPlaces DEF EveryInv, Undisturbed, EveryBranchOnce
<1> QED  BY <1>1, <1>2, <1>3, PTL DEF Spec

=============================================================================
