------------------------ MODULE SearchListingProofs ------------------------
(* Theorems about SearchListing: for any projects, branches, sizes of the  *)
(* pages and number of statements that change the tables meanwhile.        *)
EXTENDS SearchListing, FiniteSetTheorems, TLAPS

----------------------------------------------------------------------------
(* Ranks in a finite set of numbers, and windows of them.                  *)

PlaceIn(S, p) == Cardinality({q \in S : q < p})
WindowOf(S, a, m) == {p \in S : a <= PlaceIn(S, p) /\ PlaceIn(S, p) < a + m}

\* Few(X, n): X has at most n members.
Few(X, n) == IsFiniteSet(X) /\ Cardinality(X) <= n

LEMMA Places ==
    ASSUME NEW S \in SUBSET Nat, IsFiniteSet(S)
    PROVE  /\ Cardinality(S) \in Nat
           /\ \A p \in S : PlaceIn(S, p) \in 0..Cardinality(S) - 1
           /\ \A p, q \in S : p < q => PlaceIn(S, p) < PlaceIn(S, q)
<1> DEFINE Below(p) == {q \in S : q < p}
<1>1. \A p \in S : IsFiniteSet(Below(p)) /\ Cardinality(Below(p)) \in Nat
  BY FS_Subset, FS_CardinalityType
<1>2. Cardinality(S) \in Nat
  BY FS_CardinalityType
<1>3. ASSUME NEW p \in S
      PROVE  Cardinality(Below(p)) < Cardinality(S)
  <2>1. Below(p) \subseteq S /\ p \notin Below(p)
    OBVIOUS
  <2> HIDE DEF Below
  <2>2. Cardinality(Below(p)) <= Cardinality(S)
        /\ (Cardinality(Below(p)) = Cardinality(S) => Below(p) = S)
    BY <2>1, FS_Subset
  <2> QED  BY <1>1, <1>2, <2>1, <2>2
<1>4. ASSUME NEW p \in S, NEW q \in S, p < q
      PROVE  Cardinality(Below(p)) < Cardinality(Below(q))
  <2>1. p \in Nat /\ q \in Nat /\ \A r \in S : r \in Nat
    OBVIOUS
  <2>2. Below(p) \subseteq Below(q) /\ p \notin Below(p) /\ p \in Below(q)
    <3>1. \A r \in S : r < p => r < q
      BY <1>4, <2>1
    <3>2. p \notin Below(p)
      BY <2>1
    <3>3. p \in Below(q)
      BY <1>4
    <3>4. Below(p) \subseteq Below(q)
      BY <3>1
    <3> QED  BY <3>2, <3>3, <3>4
  <2> HIDE DEF Below
  <2>3. Cardinality(Below(p)) <= Cardinality(Below(q))
        /\ (Cardinality(Below(p)) = Cardinality(Below(q)) => Below(p) = Below(q))
    BY <1>1, <2>2, FS_Subset
  <2> QED  BY <1>1, <2>2, <2>3
<1>5. \A p \in S : PlaceIn(S, p) = Cardinality(Below(p))
  BY DEF PlaceIn
<1> HIDE DEF Below
<1> QED  BY <1>1, <1>2, <1>3, <1>4, <1>5

LEMMA PlacesDiffer ==
    ASSUME NEW S \in SUBSET Nat, IsFiniteSet(S)
    PROVE  /\ \A p \in S : PlaceIn(S, p) \in Nat
           /\ \A p, q \in S : PlaceIn(S, p) = PlaceIn(S, q) => p = q
<1>1. /\ Cardinality(S) \in Nat
      /\ \A p \in S : PlaceIn(S, p) \in 0..Cardinality(S) - 1
      /\ \A p, q \in S : p < q => PlaceIn(S, p) < PlaceIn(S, q)
  BY Places
<1>2. \A p \in S : PlaceIn(S, p) \in Nat
  BY <1>1
<1>3. ASSUME NEW p \in S, NEW q \in S, p # q
      PROVE  PlaceIn(S, p) # PlaceIn(S, q)
  <2>1. p < q \/ q < p
    BY <1>3
  <2> QED  BY <1>1, <1>2, <2>1
<1> QED  BY <1>2, <1>3

\* Places are distinct, so a window holds no more elements than places.
LEMMA WindowFits ==
    ASSUME NEW S \in SUBSET Nat, IsFiniteSet(S), NEW a \in Nat, NEW m \in Nat
    PROVE  Few(WindowOf(S, a, m), m)
<1> DEFINE W == WindowOf(S, a, m)
           f == [p \in W |-> PlaceIn(S, p)]
<1>1. W \subseteq S /\ IsFiniteSet(W)
  BY FS_Subset DEF WindowOf
<1>2. \A p \in W : PlaceIn(S, p) \in a..a + m - 1
  <2> TAKE p \in W
  <2>1. PlaceIn(S, p) \in Nat
    BY <1>1, PlacesDiffer
  <2> QED  BY <2>1 DEF WindowOf
<1>3. \A p, q \in W : PlaceIn(S, p) = PlaceIn(S, q) => p = q
  BY <1>1, PlacesDiffer
<1>4. f \in Injection(W, a..a + m - 1)
  BY <1>2, <1>3 DEF Injection, IsInjective
<1> HIDE DEF f, W
<1>5. IsFiniteSet(a..a + m - 1) /\ Cardinality(a..a + m - 1) = m
  BY FS_Interval
<1>6. Cardinality(W) <= m
  BY <1>4, <1>5, FS_Injection
<1> QED  BY <1>1, <1>6 DEF W, Few

\* No place below another one is free.
LEMMA NoGap ==
    ASSUME NEW S \in SUBSET Nat, IsFiniteSet(S), NEW a \in Nat,
           NEW p \in S, a <= PlaceIn(S, p)
    PROVE  \E q \in S : PlaceIn(S, q) = a
<1> SUFFICES ASSUME \A q \in S : PlaceIn(S, q) # a
             PROVE  FALSE
  OBVIOUS
<1> DEFINE n == Cardinality(S)
           E == 0..n - 1
           D == E \ {a}
           f == [q \in S |-> PlaceIn(S, q)]
<1>1. /\ n \in Nat /\ \A q \in S : PlaceIn(S, q) \in E
      /\ \A q, r \in S : PlaceIn(S, q) = PlaceIn(S, r) => q = r
  BY Places, PlacesDiffer
<1>2. f \in Injection(S, D)
  BY <1>1 DEF Injection, IsInjective
<1>3. IsFiniteSet(E) /\ Cardinality(E) = n /\ a \in E
  <2>1. n >= 1 /\ n - 1 \in Int /\ a \in E
    BY <1>1
  <2>2. IsFiniteSet(E) /\ Cardinality(E) = IF 0 > n - 1 THEN 0 ELSE n - 1 - 0 + 1
    BY <2>1, FS_Interval
  <2> HIDE DEF n, E
  <2> QED  BY <1>1, <2>1, <2>2
<1> HIDE DEF f, n, E
<1>4. IsFiniteSet(D) /\ Cardinality(D) = n - 1
  BY <1>3, FS_RemoveElement
<1> HIDE DEF D
<1>5. Cardinality(S) <= Cardinality(D)
  BY <1>2, <1>4, FS_Injection
<1> QED  BY <1>1, <1>4, <1>5, FS_CardinalityType DEF n

\* What leaves a set moves the others down by no more places.
LEMMA PlaceMoves ==
    ASSUME NEW S \in SUBSET Nat, IsFiniteSet(S), NEW T \in SUBSET Nat, IsFiniteSet(T),
           NEW p \in S, p \in T
    PROVE  /\ Cardinality(S \ T) \in Nat
           /\ PlaceIn(S, p) <= PlaceIn(T, p) + Cardinality(S \ T)
<1> DEFINE A == {q \in S : q < p}
           B == {q \in T : q < p}
           C == S \ T
<1>1. IsFiniteSet(A) /\ IsFiniteSet(B) /\ IsFiniteSet(C) /\ A \subseteq B \cup C
  BY FS_Subset
<1>2. PlaceIn(S, p) = Cardinality(A) /\ PlaceIn(T, p) = Cardinality(B)
  BY DEF PlaceIn
<1> HIDE DEF A, B, C
<1>3. /\ IsFiniteSet(B \cup C) /\ IsFiniteSet(B \cap C)
      /\ Cardinality(B \cup C) = Cardinality(B) + Cardinality(C) - Cardinality(B \cap C)
  BY <1>1, FS_Union, FS_Intersection
<1>4. Cardinality(A) <= Cardinality(B \cup C)
  BY <1>1, <1>3, FS_Subset
<1>5. Cardinality(A) \in Nat /\ Cardinality(B) \in Nat /\ Cardinality(C) \in Nat
      /\ Cardinality(B \cap C) \in Nat
  BY <1>1, <1>3, FS_CardinalityType
<1>6. Cardinality(A) <= Cardinality(B) + Cardinality(C)
  BY <1>3, <1>4, <1>5
<1> QED  BY <1>2, <1>5, <1>6 DEF C

----------------------------------------------------------------------------
(* A reader of pages is at place a of S; of the members it is to see, St,  *)
(* it has seen each so many times.                                         *)

Skipped(S, St, seen, a) == {p \in St : seen[p] = 0 /\ PlaceIn(S, p) < a}
Again(S, St, seen, a) ==
    {p \in St : seen[p] > 1 \/ (seen[p] > 0 /\ PlaceIn(S, p) >= a)}

LEMMA FewOf ==
    ASSUME NEW X, NEW Y, NEW Z, NEW n \in Nat, NEW m \in Nat,
           Few(X, n), Few(Y, m), Z \subseteq X \cup Y
    PROVE  Few(Z, n + m)
<1>1. IsFiniteSet(X) /\ IsFiniteSet(Y) /\ Cardinality(X) \in Nat /\ Cardinality(Y) \in Nat
  BY FS_CardinalityType DEF Few
<1>2. /\ IsFiniteSet(X \cup Y)
      /\ Cardinality(X \cup Y) = Cardinality(X) + Cardinality(Y) - Cardinality(X \cap Y)
  BY <1>1, FS_Union
<1>3. IsFiniteSet(X \cap Y) /\ Cardinality(X \cap Y) \in Nat
  BY <1>1, FS_Subset, FS_CardinalityType
<1>4. IsFiniteSet(Z) /\ Cardinality(Z) <= Cardinality(X \cup Y) /\ Cardinality(Z) \in Nat
  BY <1>2, FS_Subset, FS_CardinalityType
<1> QED  BY <1>1, <1>2, <1>3, <1>4 DEF Few

LEMMA FewerOf ==
    ASSUME NEW X, NEW n \in Nat, Few(X, n), NEW Z, Z \subseteq X
    PROVE  Few(Z, n)
<1>1. /\ IsFiniteSet(Z) /\ Cardinality(Z) <= Cardinality(X)
      /\ Cardinality(Z) \in Nat /\ Cardinality(X) \in Nat
  BY FS_Subset, FS_CardinalityType DEF Few
<1> QED  BY <1>1 DEF Few

\* A write shifts no more members over the reader's place, one way or the
\* other, than it takes out of the listing or puts into it.
LEMMA WriteShifts ==
    ASSUME NEW S \in SUBSET Nat, IsFiniteSet(S), NEW T \in SUBSET Nat, IsFiniteSet(T),
           NEW St \in SUBSET S, NEW Su \in SUBSET (St \cap T), NEW seen,
           NEW a \in Nat, NEW o \in Nat, NEW i \in Nat,
           Few(Skipped(S, St, seen, a), o), Few(Again(S, St, seen, a), i)
    PROVE  /\ Few(Skipped(T, Su, seen, a), o + Cardinality(S \ T))
           /\ Few(Again(T, Su, seen, a), i + Cardinality(T \ S))
<1> DEFINE x == Cardinality(S \ T)
           y == Cardinality(T \ S)
<1>1. x \in Nat /\ y \in Nat
  BY FS_Difference, FS_CardinalityType
<1>2. \A p \in Su : /\ PlaceIn(S, p) \in Nat /\ PlaceIn(T, p) \in Nat
                    /\ PlaceIn(S, p) <= PlaceIn(T, p) + x
                    /\ PlaceIn(T, p) <= PlaceIn(S, p) + y
  BY PlacesDiffer, PlaceMoves
<1> HIDE DEF x, y
<1>3. Few(WindowOf(S, a, x), x) /\ Few(WindowOf(T, a, y), y)
  BY <1>1, WindowFits
<1>4. Skipped(T, Su, seen, a) \subseteq Skipped(S, St, seen, a) \cup WindowOf(S, a, x)
  <2> SUFFICES ASSUME NEW p \in Su, seen[p] = 0, PlaceIn(T, p) < a,
                      ~(PlaceIn(S, p) < a)
               PROVE  p \in S /\ a <= PlaceIn(S, p) /\ PlaceIn(S, p) < a + x
    BY DEF Skipped, WindowOf
  <2> QED  BY <1>1, <1>2
<1>5. Again(T, Su, seen, a) \subseteq Again(S, St, seen, a) \cup WindowOf(T, a, y)
  <2> SUFFICES ASSUME NEW p \in Su, PlaceIn(T, p) >= a,
                      ~(PlaceIn(S, p) >= a)
               PROVE  p \in T /\ a <= PlaceIn(T, p) /\ PlaceIn(T, p) < a + y
    BY DEF Again, WindowOf
  <2> QED  BY <1>1, <1>2
<1> QED  BY <1>1, <1>3, <1>4, <1>5, FewOf DEF x, y

CountsOn(S, page, seen, seen2) ==
    \A p \in S : /\ seen[p] \in Nat
                 /\ seen2[p] = IF p \in page THEN seen[p] + 1 ELSE seen[p]

\* A page is read, and the reader moves behind it.
LEMMA PageReads ==
    ASSUME NEW S \in SUBSET Nat, IsFiniteSet(S), NEW St \in SUBSET S,
           NEW a \in Nat, NEW m \in Nat, NEW seen, NEW seen2, CountsOn(S, WindowOf(S, a, m), seen, seen2),
           NEW b \in Nat, b = a + m,
           NEW o \in Nat, NEW i \in Nat,
           Few(Skipped(S, St, seen, a), o), Few(Again(S, St, seen, a), i)
    PROVE  Few(Skipped(S, St, seen2, b), o) /\ Few(Again(S, St, seen2, b), i)
<1>1. \A p \in St : PlaceIn(S, p) \in Nat
  BY PlacesDiffer
<1>2. \A p \in St : /\ seen[p] \in Nat
                    /\ a <= PlaceIn(S, p) /\ PlaceIn(S, p) < a + m => seen2[p] = seen[p] + 1
                    /\ ~(a <= PlaceIn(S, p) /\ PlaceIn(S, p) < a + m) => seen2[p] = seen[p]
  BY DEF WindowOf, CountsOn
<1>3. Skipped(S, St, seen2, b) \subseteq Skipped(S, St, seen, a)
  <2> SUFFICES ASSUME NEW p \in St, seen2[p] = 0, PlaceIn(S, p) < b
               PROVE  seen[p] = 0 /\ PlaceIn(S, p) < a
    BY DEF Skipped
  <2> QED  BY <1>1, <1>2
<1>4. Again(S, St, seen2, b) \subseteq Again(S, St, seen, a)
  <2> SUFFICES ASSUME NEW p \in St,
                      seen2[p] > 1 \/ (seen2[p] > 0 /\ PlaceIn(S, p) >= b)
               PROVE  seen[p] > 1 \/ (seen[p] > 0 /\ PlaceIn(S, p) >= a)
    BY DEF Again
  <2> QED  BY <1>1, <1>2
<1> QED  BY <1>3, <1>4, FewerOf

\* No page is empty before the last member.
LEMMA EmptyPageIsLast ==
    ASSUME NEW S \in SUBSET Nat, IsFiniteSet(S), NEW a \in Nat, NEW m \in Nat \ {0},
           WindowOf(S, a, m) = {}
    PROVE  \A p \in S : PlaceIn(S, p) < a
<1> SUFFICES ASSUME NEW p \in S, ~(PlaceIn(S, p) < a)
             PROVE  FALSE
  OBVIOUS
<1>1. PlaceIn(S, p) \in Nat /\ a <= PlaceIn(S, p)
  BY PlacesDiffer
<1>2. PICK q \in S : PlaceIn(S, q) = a
  BY <1>1, NoGap
<1>3. q \in WindowOf(S, a, m)
  BY <1>2 DEF WindowOf
<1> QED  BY <1>3

----------------------------------------------------------------------------
(* Types, and what a search or a client has counted so far.                *)

CountsTypeOK ==
    /\ TablesTypeOK
    /\ lpage \in Nat /\ bpage \in Nat
    /\ btotal \in 0..Cardinality(Project) \cup {-1}
    /\ listed \in [Project -> Nat] /\ shown \in [Project -> Nat]
    /\ stable \subseteq Offered(SearchType) /\ bstable \subseteq Wanted
    /\ drift \in Drift /\ bdrift \in Drift
    /\ writes \in 0..MaxWrites

\* The place in the listing where the page begins that is read next.
PlaceOf(page) == (page - 1) * PageSize

SearchCounts ==
    IF lpage # 0
    THEN LET offered == Offered(SearchType)
         IN /\ Few(Skipped(offered, stable, listed, PlaceOf(lpage)), drift.out)
            /\ Few(Again(offered, stable, listed, PlaceOf(lpage)), drift.in)
    ELSE /\ Few({p \in stable : listed[p] = 0}, drift.out)
         /\ Few({p \in stable : listed[p] > 1}, drift.in)

ClientCounts ==
    IF bpage # 0
    THEN /\ Few(Skipped(Wanted, bstable, shown, PlaceOf(bpage)), bdrift.out)
         /\ Few(Again(Wanted, bstable, shown, PlaceOf(bpage)), bdrift.in)
         /\ btotal # -1 => Cardinality(Wanted) <= btotal + bdrift.in
    ELSE /\ Few({p \in bstable : shown[p] = 0}, bdrift.out + bdrift.in)
         /\ Few({p \in bstable : shown[p] > 1}, bdrift.in)

LEMMA TypedTables ==
    ASSUME TablesTypeOK
    PROVE  /\ IsFiniteSet(projects) /\ projects \subseteq Nat
           /\ Offered(SearchType) \in SUBSET Nat /\ IsFiniteSet(Offered(SearchType))
           /\ Offered(SearchType) \subseteq Project
           /\ Wanted \in SUBSET Nat /\ IsFiniteSet(Wanted) /\ Wanted \subseteq Project
           /\ Cardinality(Wanted) \in 0..Cardinality(Project)
<1>1. projects \subseteq Project /\ Project \subseteq Nat /\ IsFiniteSet(Project)
  BY ProjectAssumption, ProjectsFinite DEF TablesTypeOK
<1>2. Offered(SearchType) \subseteq projects /\ Wanted \subseteq projects
  BY DEF Offered, Wanted
<1>3. Wanted \subseteq Project
  BY <1>1, <1>2
<1> HIDE DEF Wanted
<1>4. /\ Cardinality(Wanted) <= Cardinality(Project)
      /\ Cardinality(Project) \in Nat /\ Cardinality(Wanted) \in Nat
  BY <1>1, <1>3, FS_Subset, FS_CardinalityType
<1>5. IsFiniteSet(projects) /\ IsFiniteSet(Wanted) /\ IsFiniteSet(Offered(SearchType))
  BY <1>1, <1>2, FS_Subset
<1>6. /\ projects \subseteq Nat /\ Wanted \subseteq Nat
      /\ Offered(SearchType) \subseteq Nat /\ Offered(SearchType) \subseteq Project
  BY <1>1, <1>2
<1>7. Cardinality(Wanted) \in 0..Cardinality(Project)
  BY <1>4
<1> QED  BY <1>3, <1>5, <1>6, <1>7

LEMMA Drifting ==
    ASSUME NEW S \in SUBSET Project, NEW T \in SUBSET Project, NEW d \in Drift
    PROVE  /\ IsFiniteSet(S) /\ IsFiniteSet(T) /\ S \in SUBSET Nat /\ T \in SUBSET Nat
           /\ Drifted(d, S, T) \in Drift
           /\ Drifted(d, S, T).out = d.out + Cardinality(S \ T)
           /\ Drifted(d, S, T).in = d.in + Cardinality(T \ S)
           /\ d.out \in Nat /\ d.in \in Nat
           /\ Cardinality(S \ T) \in Nat /\ Cardinality(T \ S) \in Nat
<1>1. IsFiniteSet(S) /\ IsFiniteSet(T)
  BY ProjectsFinite, FS_Subset
<1>2. Cardinality(S \ T) \in Nat /\ Cardinality(T \ S) \in Nat
  BY <1>1, FS_Difference, FS_CardinalityType
<1>3. S \in SUBSET Nat /\ T \in SUBSET Nat
  BY ProjectAssumption
<1>4. d.out \in Nat /\ d.in \in Nat
  BY DEF Drift
<1> QED  BY <1>1, <1>2, <1>3, <1>4 DEF Drifted, Drift

\* What every statement that changes the tables has in common.
LEMMA Writing ==
    ASSUME TablesTypeOK, Writes
    PROVE  Write /\ TablesTypeOK'
<1> USE DEF TablesTypeOK
<1>1. ASSUME NEW p \in Project, NewProject(p)
      PROVE  Write /\ TablesTypeOK'
  BY <1>1 DEF NewProject, UpSert
<1>2. ASSUME NEW p \in projects, NEW ts \in SUBSET PackageType, SetTypes(p, ts)
      PROVE  Write /\ TablesTypeOK'
  BY <1>2 DEF SetTypes, SyncPackageTypes
<1>3. ASSUME NEW p \in projects, NEW n \in Name, AddBranch(p, n)
      PROVE  Write /\ TablesTypeOK'
  BY <1>3 DEF AddBranch, CreateBranchRow
<1>4. ASSUME NEW b \in branches, DropBranch(b)
      PROVE  Write /\ TablesTypeOK'
  BY <1>4 DEF DropBranch, DeleteBranchRow
<1>5. ASSUME NEW p \in projects, DropProject(p)
      PROVE  Write /\ TablesTypeOK'
  BY <1>5 DEF DropProject, DeleteProjectRow
<1> QED  BY <1>1, <1>2, <1>3, <1>4, <1>5 DEF Writes

LEMMA CountsTyped ==
    ASSUME CountsTypeOK, [Next]_vars
    PROVE  CountsTypeOK'
<1> USE DEF CountsTypeOK
<1>1. CASE ListPage
  BY <1>1 DEF ListPage, NoWrite, tableVars, driftVars, clientVars, TablesTypeOK,
              Offered, Wanted
<1>2. CASE Take \/ ScanNothing \/ Attach \/ UNCHANGED vars
  BY <1>2 DEF Take, ScanNothing, Attach, vars, NoWrite, tableVars, driftVars,
              clientVars, searchVars, TablesTypeOK, Offered, Wanted
<1>3. CASE CountProjects
  BY <1>3, TypedTables
  DEF CountProjects, NoWrite, tableVars, driftVars, clientVars, searchVars,
      TablesTypeOK, Offered, Wanted
<1>4. CASE ReadProjects
  BY <1>4
  DEF ReadProjects, NoWrite, tableVars, driftVars, clientVars, searchVars,
      TablesTypeOK, Offered, Wanted
<1>5. CASE Writes
  <2>1. Write /\ TablesTypeOK'
    BY <1>5, Writing
  <2>2. /\ Offered(SearchType) \in SUBSET Project /\ Wanted \in SUBSET Project
        /\ Offered(SearchType)' \in SUBSET Project /\ Wanted' \in SUBSET Project
    BY <2>1 DEF TablesTypeOK, Offered, Wanted
  <2>3. drift' \in Drift /\ bdrift' \in Drift
    BY <2>1, <2>2, Drifting DEF Write
  <2>4. writes' \in 0..MaxWrites
    BY <2>1, SizesAssumption DEF Write
  <2> QED  BY <2>1, <2>3, <2>4 DEF Write, clientVars, searchVars
<1> QED  BY <1>1, <1>2, <1>3, <1>4, <1>5 DEF Next

LEMMA Pages ==
    ASSUME NEW page \in Nat \ {0}, NEW S \in SUBSET Nat, IsFiniteSet(S)
    PROVE  /\ PlaceOf(page) \in Nat
           /\ PlaceOf(page + 1) = PlaceOf(page) + PageSize
           /\ PageOf(S, page) = WindowOf(S, PlaceOf(page), PageSize)
<1>1. PageSize \in Nat \ {0} /\ page - 1 \in Nat
  BY SizesAssumption
<1>2. page * PageSize = (page - 1) * PageSize + PageSize
  BY <1>1
<1>3. (page - 1) * PageSize \in Nat
  BY <1>1
<1>4. PlaceOf(page + 1) = PlaceOf(page) + PageSize
  BY <1>1, <1>2 DEF PlaceOf
<1> QED  BY <1>2, <1>3, <1>4 DEF PlaceOf, PageOf, WindowOf, PlaceIn

LEMMA SearchCountsKept ==
    ASSUME CountsTypeOK, SearchCounts, [Next]_vars
    PROVE  SearchCounts'
<1> DEFINE S == Offered(SearchType)
           T == Offered(SearchType)'
           a == PlaceOf(lpage)
<1>1. /\ TablesTypeOK /\ lpage \in Nat /\ listed \in [Project -> Nat]
      /\ stable \in SUBSET S /\ drift \in Drift /\ drift.out \in Nat /\ drift.in \in Nat
  BY DEF CountsTypeOK, Drift
<1>2. S \in SUBSET Nat /\ IsFiniteSet(S) /\ S \subseteq Project
  BY <1>1, TypedTables
<1>3. CASE ListPage
  <2> DEFINE page == PageOf(S, lpage)
  <2>1. /\ lpage \in Nat \ {0} /\ T = S /\ stable' = stable /\ drift' = drift
        /\ listed' = [p \in Project |-> IF p \in page THEN listed[p] + 1 ELSE listed[p]]
        /\ lpage' = IF page = {} THEN 0 ELSE lpage + 1
    BY <1>1, <1>3 DEF ListPage, NoWrite, tableVars, driftVars, Offered
  <2>2. /\ a \in Nat /\ PlaceOf(lpage + 1) = a + PageSize
        /\ page = WindowOf(S, a, PageSize)
    BY <1>2, <2>1, Pages
  <2>3. Few(Skipped(S, stable, listed, a), drift.out)
        /\ Few(Again(S, stable, listed, a), drift.in)
    BY <2>1 DEF SearchCounts
  <2> HIDE DEF page, a, S, T
  <2>4. CASE page = {}
    <3>1. \A p \in S : PlaceIn(S, p) < a
      BY <1>2, <2>2, <2>4, EmptyPageIsLast, SizesAssumption
    <3>2. \A p \in stable : p \in S /\ listed'[p] = listed[p]
      BY <1>1, <1>2, <2>1, <2>4
    <3>3. /\ {p \in stable' : listed'[p] = 0} \subseteq Skipped(S, stable, listed, a)
          /\ {p \in stable' : listed'[p] > 1} \subseteq Again(S, stable, listed, a)
      BY <2>1, <3>1, <3>2 DEF Skipped, Again
    <3>4. /\ Few({p \in stable' : listed'[p] = 0}, drift.out)
          /\ Few({p \in stable' : listed'[p] > 1}, drift.in)
      BY <1>1, <2>3, <3>3, FewerOf
    <3> QED  BY <2>1, <2>4, <3>4 DEF SearchCounts
  <2>5. CASE page # {}
    <3>1. CountsOn(S, WindowOf(S, a, PageSize), listed, listed')
      BY <1>1, <1>2, <2>1, <2>2 DEF CountsOn
    <3>2. PICK b \in Nat : b = a + PageSize
      BY <2>2, SizesAssumption
    <3>3. /\ Few(Skipped(S, stable, listed', b), drift.out)
          /\ Few(Again(S, stable, listed', b), drift.in)
      BY <1>1, <1>2, <2>2, <2>3, <3>1, <3>2, PageReads, SizesAssumption
    <3>4. Few(Skipped(T, stable', listed', PlaceOf(lpage')), drift'.out)
          /\ Few(Again(T, stable', listed', PlaceOf(lpage')), drift'.in)
      BY <2>1, <2>2, <2>5, <3>2, <3>3
    <3> QED  BY <2>1, <2>5, <3>4 DEF SearchCounts, T
  <2> QED  BY <2>4, <2>5
<1>4. CASE Take \/ ScanNothing \/ Attach \/ CountProjects \/ ReadProjects \/ UNCHANGED vars
  BY <1>4 DEF Take, ScanNothing, Attach, CountProjects, ReadProjects, vars, NoWrite,
              tableVars, driftVars, searchVars, SearchCounts, Offered
<1>5. CASE Writes
  <2>1. /\ Write /\ TablesTypeOK' /\ T \in SUBSET Project /\ IsFiniteSet(T)
        /\ T \in SUBSET Nat
    <3>1. Write /\ TablesTypeOK'
      BY <1>1, <1>5, Writing
    <3>2. T \in SUBSET Project
      BY <3>1 DEF TablesTypeOK, Offered
    <3> QED  BY <1>1, <1>2, <3>1, <3>2, Drifting
  <2>2. /\ lpage' = lpage /\ listed' = listed /\ stable' \in SUBSET (stable \cap T)
        /\ drift' = IF lpage = 0 THEN drift ELSE Drifted(drift, S, T)
    BY <2>1 DEF Write, searchVars
  <2>3. CASE lpage = 0
    <3>1. /\ Few({p \in stable' : listed[p] = 0}, drift.out)
          /\ Few({p \in stable' : listed[p] > 1}, drift.in)
      BY <1>1, <2>2, <2>3, FewerOf DEF SearchCounts
    <3> QED  BY <2>2, <2>3, <3>1 DEF SearchCounts
  <2>4. CASE lpage # 0
    <3>1. a \in Nat
      BY <1>1, <1>2, <2>4, Pages
    <3>2. Few(Skipped(S, stable, listed, a), drift.out)
          /\ Few(Again(S, stable, listed, a), drift.in)
      BY <2>4 DEF SearchCounts
    <3> HIDE DEF a, S, T
    <3>3. /\ drift'.out = drift.out + Cardinality(S \ T)
          /\ drift'.in = drift.in + Cardinality(T \ S)
      <4>1. drift' = Drifted(drift, S, T) /\ S \in SUBSET Project
        BY <1>2, <2>2, <2>4
      <4> QED  BY <1>1, <2>1, <4>1, Drifting
    <3>4. /\ Few(Skipped(T, stable', listed, a), drift'.out)
          /\ Few(Again(T, stable', listed, a), drift'.in)
      BY <1>1, <1>2, <2>1, <2>2, <3>1, <3>2, <3>3, WriteShifts
    <3> QED  BY <2>2, <2>4, <3>4 DEF SearchCounts, T, a
  <2> QED  BY <2>3, <2>4
<1> QED  BY <1>3, <1>4, <1>5 DEF Next

\* The pages that the client reads hold as many rows as it was told there are.
LEMMA PagesSuffice ==
    ASSUME NEW total \in Nat, NEW page \in Nat \ {0}, TotalPages(total) <= page
    PROVE  total <= PlaceOf(page) + PageSize
<1> DEFINE k == TotalPages(total)
<1>1. PageSize \in Nat \ {0}
  BY SizesAssumption
<1>2. PlaceOf(page) + PageSize = page * PageSize /\ page * PageSize \in Nat
  BY <1>1 DEF PlaceOf
<1>3. CASE total = 0
  BY <1>2, <1>3
<1>4. CASE total # 0
  <2>1. k = (total + PageSize - 1) \div PageSize
    BY <1>4 DEF TotalPages
  <2>2. k \in Nat /\ total <= k * PageSize
    BY <1>1, <2>1
  <2>3. k * PageSize <= page * PageSize
    BY <1>1, <2>2
  <2> HIDE DEF k
  <2>4. k * PageSize \in Nat
    BY <1>1, <2>2
  <2> QED  BY <1>2, <2>2, <2>3, <2>4
<1> QED  BY <1>3, <1>4

LEMMA Grows ==
    ASSUME NEW S \in SUBSET Project, NEW T \in SUBSET Project
    PROVE  /\ Cardinality(S) \in Nat /\ Cardinality(T) \in Nat
           /\ Cardinality(T) <= Cardinality(S) + Cardinality(T \ S)
<1>1. IsFiniteSet(S) /\ IsFiniteSet(T) /\ IsFiniteSet(T \ S)
  BY ProjectsFinite, FS_Subset, FS_Difference
<1>2. /\ Cardinality(S) \in Nat /\ Cardinality(T) \in Nat
      /\ Cardinality(T \ S) \in Nat
  BY <1>1, FS_CardinalityType
<1>3. Few(S, Cardinality(S)) /\ Few(T \ S, Cardinality(T \ S))
  BY <1>1, <1>2 DEF Few
<1>4. Few(T, Cardinality(S) + Cardinality(T \ S))
  BY <1>2, <1>3, FewOf
<1> QED  BY <1>2, <1>4 DEF Few

LEMMA ClientCountsKept ==
    ASSUME CountsTypeOK, ClientCounts, [Next]_vars
    PROVE  ClientCounts'
<1> DEFINE S == Wanted
           T == Wanted'
           a == PlaceOf(bpage)
<1>1. /\ TablesTypeOK /\ bpage \in Nat /\ shown \in [Project -> Nat]
      /\ btotal \in Nat \cup {-1}
      /\ bstable \in SUBSET S /\ bdrift \in Drift /\ bdrift.out \in Nat /\ bdrift.in \in Nat
  BY ProjectsFinite, FS_CardinalityType DEF CountsTypeOK, Drift
<1>2. S \in SUBSET Nat /\ IsFiniteSet(S) /\ S \in SUBSET Project
      /\ Cardinality(S) \in Nat
  BY <1>1, TypedTables
<1>3. CASE ReadProjects
  <2> DEFINE page == PageOf(S, bpage)
  <2>1. /\ bpage \in Nat \ {0} /\ btotal \in Nat /\ T = S
        /\ bstable' = bstable /\ bdrift' = bdrift
        /\ shown' = [p \in Project |-> IF p \in page THEN shown[p] + 1 ELSE shown[p]]
        /\ bpage' = IF bpage < TotalPages(btotal) THEN bpage + 1 ELSE 0
        /\ btotal' = -1
    BY <1>1, <1>3 DEF ReadProjects, ClientRows, NoWrite, tableVars, driftVars, Wanted
  <2>2. /\ a \in Nat /\ PlaceOf(bpage + 1) = a + PageSize
        /\ page = WindowOf(S, a, PageSize)
    BY <1>2, <2>1, Pages
  <2>3. /\ Few(Skipped(S, bstable, shown, a), bdrift.out)
        /\ Few(Again(S, bstable, shown, a), bdrift.in)
        /\ Cardinality(S) <= btotal + bdrift.in
    BY <2>1 DEF ClientCounts
  <2> HIDE DEF page, a, S, T
  <2>4. CountsOn(S, WindowOf(S, a, PageSize), shown, shown')
    BY <1>1, <1>2, <2>1, <2>2 DEF CountsOn
  <2>5. PICK b \in Nat : b = a + PageSize
    BY <2>2, SizesAssumption
  <2>6. /\ Few(Skipped(S, bstable, shown', b), bdrift.out)
        /\ Few(Again(S, bstable, shown', b), bdrift.in)
    BY <1>1, <1>2, <2>2, <2>3, <2>4, <2>5, PageReads, SizesAssumption
  <2>7. CASE bpage < TotalPages(btotal)
    <3>1. bpage' = bpage + 1 /\ bpage' # 0
      BY <2>1, <2>7
    <3>2. Few(Skipped(T, bstable', shown', PlaceOf(bpage')), bdrift'.out)
          /\ Few(Again(T, bstable', shown', PlaceOf(bpage')), bdrift'.in)
      BY <2>1, <2>2, <2>5, <2>6, <3>1
    <3> QED  BY <2>1, <3>1, <3>2 DEF ClientCounts, T
  <2>8. CASE ~(bpage < TotalPages(btotal))
    <3>1. btotal <= b
      <4>1. TotalPages(btotal) \in Nat
        BY <2>1, SizesAssumption DEF TotalPages
      <4>2. TotalPages(btotal) <= bpage
        BY <2>1, <2>8, <4>1
      <4> QED  BY <2>1, <2>5, <4>2, PagesSuffice DEF a
    <3>2. Few(WindowOf(S, btotal, bdrift.in), bdrift.in)
      BY <1>1, <1>2, <2>1, WindowFits
    <3>3. \A p \in S : PlaceIn(S, p) \in Nat /\ PlaceIn(S, p) < Cardinality(S)
      BY <1>2, Places
    <3>4. {p \in bstable : shown'[p] = 0}
                \subseteq Skipped(S, bstable, shown', b) \cup WindowOf(S, btotal, bdrift.in)
      <4> SUFFICES ASSUME NEW p \in bstable, ~(PlaceIn(S, p) < b)
                   PROVE  /\ p \in S
                          /\ btotal <= PlaceIn(S, p)
                          /\ PlaceIn(S, p) < btotal + bdrift.in
        BY DEF Skipped, WindowOf
      <4> QED  BY <1>1, <1>2, <2>1, <2>3, <2>5, <3>1, <3>3
    <3>5. Few({p \in bstable : shown'[p] = 0}, bdrift.out + bdrift.in)
      BY <1>1, <2>6, <3>2, <3>4, FewOf
    <3>6. {p \in bstable : shown'[p] > 1} \subseteq Again(S, bstable, shown', b)
      BY DEF Again
    <3>7. Few({p \in bstable : shown'[p] > 1}, bdrift.in)
      BY <1>1, <2>6, <3>6, FewerOf
    <3> QED  BY <2>1, <2>8, <3>5, <3>7 DEF ClientCounts
  <2> QED  BY <2>7, <2>8
<1>4. CASE CountProjects
  <2>1. Cardinality(Wanted) <= Cardinality(Wanted) + bdrift.in
    BY <1>1, <1>2
  <2> QED  BY <1>4, <2>1 DEF CountProjects, NoWrite, tableVars, driftVars, ClientCounts, Wanted
<1>5. CASE ListPage \/ Take \/ ScanNothing \/ Attach \/ UNCHANGED vars
  BY <1>5 DEF ListPage, Take, ScanNothing, Attach, vars, NoWrite,
              tableVars, driftVars, clientVars, ClientCounts, Wanted
<1>6. CASE Writes
  <2>1. Write /\ T \in SUBSET Project /\ IsFiniteSet(T) /\ T \in SUBSET Nat
    <3>1. Write /\ TablesTypeOK'
      BY <1>1, <1>6, Writing
    <3>2. T \in SUBSET Project
      BY <3>1 DEF TablesTypeOK, Wanted
    <3> QED  BY <1>1, <1>2, <3>1, <3>2, Drifting
  <2>2. /\ bpage' = bpage /\ shown' = shown /\ btotal' = btotal
        /\ bstable' \in SUBSET (bstable \cap T)
        /\ bdrift' = IF bpage = 0 THEN bdrift ELSE Drifted(bdrift, S, T)
    BY <2>1 DEF Write, clientVars
  <2>3. CASE bpage = 0
    <3>1. bdrift.out + bdrift.in \in Nat
      BY <1>1
    <3>2. /\ Few({p \in bstable' : shown[p] = 0}, bdrift.out + bdrift.in)
          /\ Few({p \in bstable' : shown[p] > 1}, bdrift.in)
      BY <1>1, <2>2, <2>3, <3>1, FewerOf DEF ClientCounts
    <3> QED  BY <2>2, <2>3, <3>2 DEF ClientCounts
  <2>4. CASE bpage # 0
    <3>1. a \in Nat
      BY <1>1, <1>2, <2>4, Pages
    <3>2. /\ Few(Skipped(S, bstable, shown, a), bdrift.out)
          /\ Few(Again(S, bstable, shown, a), bdrift.in)
          /\ btotal # -1 => Cardinality(S) <= btotal + bdrift.in
      BY <2>4 DEF ClientCounts
    <3> HIDE DEF a, S, T
    <3>3. /\ bdrift'.out = bdrift.out + Cardinality(S \ T)
          /\ bdrift'.in = bdrift.in + Cardinality(T \ S)
          /\ Cardinality(T \ S) \in Nat
      <4>1. bdrift' = Drifted(bdrift, S, T) /\ S \in SUBSET Project
        BY <1>2, <2>2, <2>4
      <4> QED  BY <1>1, <2>1, <4>1, Drifting
    <3>4. /\ Few(Skipped(T, bstable', shown, a), bdrift'.out)
          /\ Few(Again(T, bstable', shown, a), bdrift'.in)
      BY <1>1, <1>2, <2>1, <2>2, <3>1, <3>2, <3>3, WriteShifts
    <3>5. btotal # -1 => Cardinality(T) <= btotal + bdrift'.in
      <4>1. Cardinality(S) \in Nat /\ Cardinality(T) \in Nat
            /\ Cardinality(T) <= Cardinality(S) + Cardinality(T \ S)
        BY <1>2, <2>1, Grows
      <4> QED  BY <1>1, <3>2, <3>3, <4>1
    <3> QED  BY <2>2, <2>4, <3>4, <3>5 DEF ClientCounts, T, a
  <2> QED  BY <2>3, <2>4
<1> QED  BY <1>3, <1>4, <1>5, <1>6 DEF Next

LEMMA CountsInit ==
    ASSUME Init
    PROVE  CountsTypeOK /\ SearchCounts /\ ClientCounts
<1>1. CountsTypeOK
  <2>1. TablesTypeOK
    BY FirstAssumption DEF Init, TablesTypeOK
  <2>2. /\ listed \in [Project -> Nat] /\ shown \in [Project -> Nat]
        /\ drift \in Drift /\ bdrift \in Drift /\ writes \in 0..MaxWrites
    BY SizesAssumption DEF Init, Drift, NoDrift
  <2>3. stable \subseteq Offered(SearchType) /\ bstable \subseteq Wanted
    BY DEF Init
  <2> QED  BY <2>1, <2>2, <2>3 DEF Init, CountsTypeOK
<1>2. /\ drift.out = 0 /\ drift.in = 0 /\ bdrift.out = 0 /\ bdrift.in = 0 /\ PlaceOf(1) = 0
      /\ \A p \in Project : listed[p] = 0 /\ shown[p] = 0
  BY SizesAssumption DEF Init, NoDrift, PlaceOf
<1>3. Few({}, 0)
  BY FS_EmptySet DEF Few
<1>4. Offered(SearchType) \in SUBSET Nat /\ IsFiniteSet(Offered(SearchType))
      /\ Wanted \in SUBSET Nat /\ IsFiniteSet(Wanted)
      /\ Offered(SearchType) \subseteq Project /\ Wanted \subseteq Project
  BY <1>1, TypedTables DEF CountsTypeOK
<1>5. SearchCounts
  <2> DEFINE S == Offered(SearchType)
  <2>1. \A p \in S : PlaceIn(S, p) \in Nat
    BY <1>4, PlacesDiffer
  <2>2. stable \subseteq S /\ S \subseteq Project
    BY <1>1, <1>4 DEF CountsTypeOK
  <2>3. Skipped(S, stable, listed, 0) = {} /\ Again(S, stable, listed, 0) = {}
    BY <1>2, <2>1, <2>2 DEF Skipped, Again
  <2>4. lpage = 0 => stable = {}
    BY DEF Init
  <2>5. lpage # 0 => lpage = 1
    BY DEF Init
  <2>6. CASE lpage = 0
    <3>1. {p \in stable : listed[p] = 0} = {} /\ {p \in stable : listed[p] > 1} = {}
      BY <2>4, <2>6
    <3> QED  BY <1>2, <1>3, <2>6, <3>1 DEF SearchCounts
  <2>7. CASE lpage # 0
    BY <1>2, <1>3, <2>3, <2>5, <2>7 DEF SearchCounts
  <2> QED  BY <2>6, <2>7
<1>6. ClientCounts
  <2> DEFINE S == Wanted
  <2>1. \A p \in S : PlaceIn(S, p) \in Nat
    BY <1>4, PlacesDiffer
  <2>2. bstable \subseteq S /\ S \subseteq Project
    BY <1>1, <1>4 DEF CountsTypeOK
  <2>3. Skipped(S, bstable, shown, 0) = {} /\ Again(S, bstable, shown, 0) = {}
    BY <1>2, <2>1, <2>2 DEF Skipped, Again
  <2>4. /\ bpage = 0 => bstable = {}
        /\ bpage # 0 => bpage = 1
        /\ btotal = -1
    BY DEF Init
  <2>5. CASE bpage = 0
    <3>1. {p \in bstable : shown[p] = 0} = {} /\ {p \in bstable : shown[p] > 1} = {}
      BY <2>4, <2>5
    <3> QED  BY <1>2, <1>3, <2>5, <3>1 DEF ClientCounts
  <2>6. CASE bpage # 0
    BY <1>2, <1>3, <2>3, <2>4, <2>6 DEF ClientCounts
  <2> QED  BY <2>5, <2>6
<1> QED  BY <1>1, <1>5, <1>6

CountsInv == CountsTypeOK /\ SearchCounts /\ ClientCounts

LEMMA CountsInductive == Spec => []CountsInv
<1>1. Init => CountsInv
  BY CountsInit DEF CountsInv
<1>2. CountsInv /\ [Next]_vars => CountsInv'
  BY CountsTyped, SearchCountsKept, ClientCountsKept DEF CountsInv
<1> QED  BY <1>1, <1>2, PTL DEF Spec

\* Of the projects that are offered throughout, a search skips no more than
\* have left its listing meanwhile and queues no more of them twice than have
\* come in, whatever the page size and however the statements of the sync and
\* of the API fall between the pages that addProjectsToQueue reads.
THEOREM SearchDriftsCorrect == Spec => []SearchDrifts
<1>1. CountsInv => SearchDrifts
  BY DEF CountsInv, SearchCounts, SearchDrifts, Repeats, Few
<1> QED  BY <1>1, CountsInductive, PTL

\* A client that leafs through GET /internal/projects up to the last page that
\* its last answer names misses no more of the projects that match throughout
\* than have come in or left meanwhile, and sees no more twice than have come
\* in: its last count may be older than the rows of the same answer.
THEOREM ClientDriftsCorrect == Spec => []ClientDrifts
<1>1. CountsInv => ClientDrifts
  BY DEF CountsInv, ClientCounts, ClientDrifts, Repeats, Few
<1> QED  BY <1>1, CountsInductive, PTL

----------------------------------------------------------------------------
(* Rows of project_branches, and the items that are made of them.          *)

LEMMA SeqOfSet ==
    ASSUME NEW S, IsFiniteSet(S)
    PROVE  SetToSeq(S) \in [1..Cardinality(S) -> S] /\ Cardinality(S) \in Nat
<1>1. \E f \in [1..Cardinality(S) -> S] : IsInjective(f)
  BY FS_CardinalityType DEF ExistsBijection, Bijection, Injection
<1> QED  BY <1>1, FS_CardinalityType DEF SetToSeq

LEMMA FiniteValues ==
    ASSUME NEW f, IsFiniteSet(DOMAIN f), f = [x \in DOMAIN f |-> f[x]]
    PROVE  IsFiniteSet({f[x] : x \in DOMAIN f})
<1> DEFINE T == {f[x] : x \in DOMAIN f}
<1>1. f \in Surjection(DOMAIN f, T)
  BY DEF Surjection
<1> QED  BY <1>1, FS_Surjection

RowsInv ==
    /\ IsFiniteSet(branches)
    /\ \A b \in branches : b.id < nextID
    /\ \A b, c \in branches : b.id = c.id => b = c

\* The rank of a branch among the rows of its project.
LEMMA RanksDiffer ==
    ASSUME TablesTypeOK, RowsInv, NEW p \in Project
    PROVE  /\ IsFiniteSet(BranchesOf(p)) /\ Cardinality(BranchesOf(p)) \in Nat
           /\ \A b \in BranchesOf(p) : RowRank(p, b.id) \in 0..Cardinality(BranchesOf(p)) - 1
           /\ \A b, c \in BranchesOf(p) : RowRank(p, b.id) = RowRank(p, c.id) => b = c
<1> DEFINE B == BranchesOf(p)
           Below(i) == {c \in B : c.id < i}
<1>1. B \subseteq branches /\ IsFiniteSet(B) /\ Cardinality(B) \in Nat
      /\ \A b \in B : b.id \in Nat
  BY FS_Subset, FS_CardinalityType DEF RowsInv, BranchesOf, TablesTypeOK
<1>2. \A b, c \in B : b.id = c.id => b = c
  BY <1>1 DEF RowsInv
<1>3. \A i : RowRank(p, i) = Cardinality(Below(i))
  BY DEF RowRank
<1> HIDE DEF B
<1>4. \A i : IsFiniteSet(Below(i)) /\ Cardinality(Below(i)) \in Nat
             /\ Cardinality(Below(i)) <= Cardinality(B)
             /\ (Cardinality(Below(i)) = Cardinality(B) => Below(i) = B)
  <2> TAKE i
  <2>1. Below(i) \in SUBSET B
    OBVIOUS
  <2> HIDE DEF Below
  <2> QED  BY <1>1, <2>1, FS_Subset, FS_CardinalityType
<1>5. ASSUME NEW b \in B
      PROVE  Cardinality(Below(b.id)) < Cardinality(B)
  <2>1. b \notin Below(b.id)
    BY <1>1
  <2> HIDE DEF Below
  <2>2. Below(b.id) # B
    BY <2>1
  <2> QED  BY <1>1, <1>4, <2>2
<1>6. ASSUME NEW b \in B, NEW c \in B, b.id < c.id
      PROVE  Cardinality(Below(b.id)) < Cardinality(Below(c.id))
  <2>1. \A d \in B : d.id < b.id => d.id < c.id
    BY <1>1, <1>6
  <2>2. b \notin Below(b.id) /\ b \in Below(c.id)
    BY <1>1, <1>6
  <2>3. Below(b.id) \in SUBSET Below(c.id)
    BY <2>1
  <2> HIDE DEF Below
  <2>4. Cardinality(Below(b.id)) <= Cardinality(Below(c.id))
        /\ (Cardinality(Below(c.id)) = Cardinality(Below(b.id)) => Below(c.id) = Below(b.id))
    BY <1>4, <2>3, FS_Subset
  <2> QED  BY <1>4, <2>2, <2>4
<1> HIDE DEF Below
<1>7. ASSUME NEW b \in B, NEW c \in B, b # c
      PROVE  Cardinality(Below(b.id)) # Cardinality(Below(c.id))
  <2>1. b.id < c.id \/ c.id < b.id
    BY <1>1, <1>2, <1>7
  <2>2. Cardinality(Below(b.id)) \in Nat /\ Cardinality(Below(c.id)) \in Nat
    BY <1>4
  <2> QED  BY <1>6, <2>1, <2>2
<1>8. \A b \in B : RowRank(p, b.id) \in 0..Cardinality(B) - 1
  BY <1>1, <1>3, <1>4, <1>5
<1> QED  BY <1>1, <1>3, <1>7, <1>8 DEF B

\* There is a row of every rank.
LEMMA RanksFill ==
    ASSUME TablesTypeOK, RowsInv, NEW p \in Project,
           NEW k \in 0..Cardinality(BranchesOf(p)) - 1
    PROVE  \E b \in BranchesOf(p) : RowRank(p, b.id) = k
<1> DEFINE B == BranchesOf(p)
           N == Cardinality(B)
           f == [b \in B |-> RowRank(p, b.id)]
           T == {f[b] : b \in B}
<1>1. /\ IsFiniteSet(B) /\ N \in Nat
      /\ \A b \in B : RowRank(p, b.id) \in 0..N - 1
      /\ \A b, c \in B : RowRank(p, b.id) = RowRank(p, c.id) => b = c
  BY RanksDiffer
<1>2. k \in 0..N - 1
  OBVIOUS
<1> HIDE DEF B
<1>3. f \in Bijection(B, T) /\ T \subseteq 0..N - 1
  BY <1>1 DEF Bijection, Injection, Surjection, IsInjective
<1> HIDE DEF f, T
<1>4. Cardinality(T) = N
  BY <1>1, <1>3, FS_Bijection DEF ExistsBijection
<1>5. IsFiniteSet(0..N - 1) /\ Cardinality(0..N - 1) = N
  BY <1>1, <1>2, FS_Interval DEF N
<1>6. T = 0..N - 1
  BY <1>3, <1>4, <1>5, FS_Subset
<1> QED  BY <1>2, <1>6 DEF T, f, B

\* The rank of a name is less than the number of names, and these are no more
\* than the rows.
LEMMA NamesRank ==
    ASSUME TablesTypeOK, RowsInv, NEW p \in Project
    PROVE  /\ IsFiniteSet(NamesOf(p))
           /\ Cardinality(NamesOf(p)) \in 0..Cardinality(BranchesOf(p))
           /\ \A n \in NamesOf(p) : NameRank(p, n) \in 0..Cardinality(NamesOf(p)) - 1
<1> DEFINE B == BranchesOf(p)
           f == [b \in B |-> b.name]
           Before(n) == {m \in Name : \E b \in B :
                            b.name = m /\ \A c \in B : c.name = n => b.id < c.id}
<1>1. /\ IsFiniteSet(B) /\ Cardinality(B) \in Nat
      /\ \A b \in B : b.id \in Nat
  BY RanksDiffer DEF BranchesOf, TablesTypeOK
<1>2. NamesOf(p) = {b.name : b \in B} /\ \A n : NameRank(p, n) = Cardinality(Before(n))
  BY DEF NamesOf, NameRank
<1> HIDE DEF B
<1>3. f \in Surjection(B, NamesOf(p))
  BY <1>2 DEF Surjection
<1> HIDE DEF f
<1>4. /\ IsFiniteSet(NamesOf(p)) /\ Cardinality(NamesOf(p)) \in Nat
      /\ Cardinality(NamesOf(p)) <= Cardinality(B)
  BY <1>1, <1>3, FS_Surjection, FS_CardinalityType
<1>5. ASSUME NEW n \in NamesOf(p)
      PROVE  NameRank(p, n) \in 0..Cardinality(NamesOf(p)) - 1
  <2>1. Before(n) \subseteq NamesOf(p) /\ n \notin Before(n)
    BY <1>1, <1>2
  <2> HIDE DEF Before
  <2>2. /\ IsFiniteSet(Before(n)) /\ Cardinality(Before(n)) \in Nat
        /\ Cardinality(Before(n)) <= Cardinality(NamesOf(p))
        /\ Cardinality(Before(n)) # Cardinality(NamesOf(p))
    BY <1>4, <1>5, <2>1, FS_Subset, FS_CardinalityType
  <2> QED  BY <1>2, <1>4, <2>2
<1> QED  BY <1>1, <1>4, <1>5 DEF B

\* Where no two rows share a name, ids and names have one order.
LEMMA NamesRankAsRows ==
    ASSUME TablesTypeOK, RowsInv, NEW p \in Project, ~Mixed(p), NEW d \in BranchesOf(p)
    PROVE  NameRank(p, d.name) = RowRank(p, d.id)
<1> DEFINE B == BranchesOf(p)
           L == {c \in B : c.id < d.id}
           M == {m \in Name : \E b \in B : /\ b.name = m
                                           /\ \A c \in B : c.name = d.name => b.id < c.id}
           f == [c \in L |-> c.name]
<1>1. /\ B \subseteq branches /\ d \in B /\ IsFiniteSet(B)
      /\ \A b \in B : b.name \in Name /\ b.project = p
  BY RanksDiffer DEF BranchesOf, TablesTypeOK
<1>2. \A b, c \in B : b.name = c.name => b = c
  BY DEF Mixed
<1>3. RowRank(p, d.id) = Cardinality(L) /\ NameRank(p, d.name) = Cardinality(M)
  BY DEF RowRank, NameRank
<1> HIDE DEF B
<1>4. M = {m \in Name : \E b \in L : b.name = m}
  BY <1>1, <1>2
<1>5. \A c \in L : c \in B /\ c.name \in M
  BY <1>1, <1>4
<1>6. IsFiniteSet(L)
  BY <1>1, FS_Subset
<1> HIDE DEF L, M
<1>7. f \in Bijection(L, M)
  BY <1>2, <1>4, <1>5 DEF Bijection, Injection, Surjection, IsInjective
<1>8. ExistsBijection(L, M)
  BY <1>7 DEF ExistsBijection
<1> QED  BY <1>3, <1>6, <1>8, FS_Bijection

\* toDetailedDomain pairs every name with the id of a row, and nothing else; the
\* id is that of the name's own row unless a name has two.
LEMMA PairsOfRows ==
    ASSUME TablesTypeOK, RowsInv, NEW p \in Project
    PROVE  /\ IsFiniteSet(Paired(p))
           /\ \A x \in Paired(p) : /\ x[1] \in BranchesOf(p) /\ x[2] \in NamesOf(p)
                                   /\ RowRank(p, x[1].id) < Cardinality(NamesOf(p))
           /\ \A n \in NamesOf(p) : \E b \in BranchesOf(p) : <<b, n>> \in Paired(p)
           /\ ~Mixed(p) => Paired(p) = {x \in BranchesOf(p) \X NamesOf(p) : x[2] = x[1].name}
<1> DEFINE B == BranchesOf(p)
           Ns == NamesOf(p)
<1>1. /\ IsFiniteSet(B) /\ Cardinality(B) \in Nat
      /\ IsFiniteSet(Ns) /\ Cardinality(Ns) \in 0..Cardinality(B)
      /\ \A n \in Ns : NameRank(p, n) \in 0..Cardinality(Ns) - 1
      /\ \A b \in B : b.name \in Ns
  BY RanksDiffer, NamesRank DEF NamesOf
<1>2. Paired(p) = {x \in B \X Ns : RowRank(p, x[1].id) = NameRank(p, x[2])}
  BY DEF Paired, NamesOf
<1>3. \A k \in 0..Cardinality(B) - 1 : \E b \in B : RowRank(p, b.id) = k
  BY RanksFill
<1>4. \A b, c \in B : RowRank(p, b.id) = RowRank(p, c.id) => b = c
  BY RanksDiffer
<1>5. ~Mixed(p) => \A b \in B : NameRank(p, b.name) = RowRank(p, b.id)
  BY NamesRankAsRows
<1>6. \A n \in Ns : \E b \in B : b.name = n
  BY DEF NamesOf
<1> HIDE DEF B, Ns
<1>7. IsFiniteSet(Paired(p))
  <2>1. IsFiniteSet(B \X Ns)
    BY <1>1, FS_Product
  <2> QED  BY <1>2, <2>1, FS_Subset
<1>8. ASSUME NEW x \in Paired(p)
      PROVE  x[1] \in B /\ x[2] \in Ns /\ RowRank(p, x[1].id) < Cardinality(Ns)
  <2>1. x[1] \in B /\ x[2] \in Ns /\ RowRank(p, x[1].id) = NameRank(p, x[2])
    BY <1>2
  <2> QED  BY <1>1, <2>1
<1>9. ASSUME NEW n \in Ns
      PROVE  \E b \in B : <<b, n>> \in Paired(p)
  <2>1. NameRank(p, n) \in 0..Cardinality(B) - 1
    BY <1>1
  <2>2. PICK b \in B : RowRank(p, b.id) = NameRank(p, n)
    BY <1>3, <2>1
  <2> QED  BY <1>2, <2>2
<1>10. ASSUME ~Mixed(p)
       PROVE  Paired(p) = {x \in B \X Ns : x[2] = x[1].name}
  <2>1. \A b \in B, n \in Ns : RowRank(p, b.id) = NameRank(p, n) <=> n = b.name
    BY <1>4, <1>5, <1>6, <1>10
  <2> QED  BY <1>2, <2>1
<1> QED  BY <1>7, <1>8, <1>9, <1>10 DEF B, Ns

LEMMA ZippedOfRows ==
    ASSUME TablesTypeOK, RowsInv, NEW p \in Project
    PROVE  /\ IsFiniteSet(Zipped(p))
           /\ \A z \in Zipped(p) :
                /\ z = [id |-> z.id, project |-> p, name |-> z.name]
                /\ z.name \in NamesOf(p) /\ \E b \in BranchesOf(p) : b.id = z.id
                /\ RowRank(p, z.id) \in Nat
                /\ RowRank(p, z.id) < Cardinality(NamesOf(p))
           /\ \A n \in NamesOf(p) : \E z \in Zipped(p) : z.name = n
           /\ ~Mixed(p) => Zipped(p) = BranchesOf(p)
<1> DEFINE P == Paired(p)
           f == [x \in P |-> [id |-> x[1].id, project |-> p, name |-> x[2]]]
           B == BranchesOf(p)
<1>1. Zipped(p) = {f[x] : x \in DOMAIN f}
  BY DEF Zipped
<1>2. /\ IsFiniteSet(P)
      /\ \A x \in P : /\ x[1] \in B /\ x[2] \in NamesOf(p)
                      /\ RowRank(p, x[1].id) < Cardinality(NamesOf(p))
      /\ \A n \in NamesOf(p) : \E b \in B : <<b, n>> \in P
      /\ ~Mixed(p) => P = {x \in B \X NamesOf(p) : x[2] = x[1].name}
  BY PairsOfRows
<1>3. /\ \A b \in B : RowRank(p, b.id) \in Nat /\ b.name \in NamesOf(p)
      /\ \A b \in B : b = [id |-> b.id, project |-> p, name |-> b.name]
  <2>1. \A b \in B : RowRank(p, b.id) \in Nat /\ b.name \in NamesOf(p)
    BY RanksDiffer DEF NamesOf
  <2>2. \A b \in B : b \in [id : Nat, project : Project, name : Name] /\ b.project = p
    BY DEF BranchesOf, TablesTypeOK
  <2> QED  BY <2>1, <2>2
<1> HIDE DEF P, B
<1>4. IsFiniteSet(Zipped(p))
  <2>1. IsFiniteSet(DOMAIN f) /\ f = [x \in DOMAIN f |-> f[x]]
    BY <1>2
  <2> HIDE DEF f
  <2> QED  BY <1>1, <2>1, FiniteValues
<1>5. ASSUME NEW z \in Zipped(p)
      PROVE  /\ z = [id |-> z.id, project |-> p, name |-> z.name]
             /\ z.name \in NamesOf(p) /\ \E b \in B : b.id = z.id
             /\ RowRank(p, z.id) \in Nat
             /\ RowRank(p, z.id) < Cardinality(NamesOf(p))
  <2>1. PICK x \in P : z = [id |-> x[1].id, project |-> p, name |-> x[2]]
    BY <1>1
  <2>2. z.id = x[1].id /\ z.name = x[2]
    BY <2>1
  <2> QED  BY <1>2, <1>3, <2>1, <2>2
<1>6. ASSUME NEW n \in NamesOf(p)
      PROVE  \E z \in Zipped(p) : z.name = n
  <2>1. PICK b \in B : <<b, n>> \in P
    BY <1>2
  <2>2. f[<<b, n>>] \in Zipped(p) /\ f[<<b, n>>].name = n
    BY <1>1, <2>1
  <2> QED  BY <2>2
<1>7. ASSUME ~Mixed(p)
      PROVE  Zipped(p) = B
  <2>1. \A x \in P : f[x] = x[1] /\ x[1] \in B
    BY <1>2, <1>3, <1>7
  <2>2. \A b \in B : <<b, b.name>> \in P /\ f[<<b, b.name>>] = b
    BY <1>2, <1>3, <1>7
  <2>3. DOMAIN f = P
    OBVIOUS
  <2> HIDE DEF f
  <2> QED  BY <1>1, <2>1, <2>2, <2>3
<1> QED  BY <1>4, <1>5, <1>6, <1>7 DEF B

\* What GROUP_CONCAT leaves of a project's branches: if the two strings are long
\* enough, every name with the id of a row of the project, and of its own row
\* where no name has two; and never an id that is not given out yet.
LEMMA ItemsOfRows ==
    ASSUME TablesTypeOK, RowsInv, NEW p \in Project
    PROVE  /\ IsFiniteSet(Items(p)) /\ Items(p) \subseteq Item
           /\ \A q \in Items(p) : q.id < nextID /\ q.project = p
           /\ ~Crowded(p) =>
                /\ \A q \in Items(p) : \E b \in BranchesOf(p) : b.id = q.id
                /\ \A b \in BranchesOf(p) : \E q \in Items(p) : q.name = b.name
                /\ ~Mixed(p) => Items(p) = BranchesOf(p)
<1> DEFINE Z == Zipped(p)
           B == BranchesOf(p)
           Y == {y \in Z : RowRank(p, y.id) <= IdLimit /\ RowRank(p, y.id) <= NameLimit}
           f == [z \in Y |-> [id |-> IF RowRank(p, z.id) < IdLimit THEN z.id ELSE z.id \div 10,
                              project |-> p,
                              name |-> IF RowRank(p, z.id) < NameLimit THEN z.name ELSE CutName]]
<1>1. /\ IsFiniteSet(Z) /\ Cardinality(NamesOf(p)) \in Nat
      /\ \A z \in Z : /\ z = [id |-> z.id, project |-> p, name |-> z.name]
                      /\ z.name \in NamesOf(p) /\ \E b \in B : b.id = z.id
                      /\ RowRank(p, z.id) \in Nat
                      /\ RowRank(p, z.id) < Cardinality(NamesOf(p))
      /\ \A n \in NamesOf(p) : \E z \in Z : z.name = n
      /\ ~Mixed(p) => Z = B
  BY ZippedOfRows, NamesRank, RanksDiffer
<1>2. \A b \in B : b.id \in Nat /\ b.name \in Name /\ b.id < nextID /\ b.name \in NamesOf(p)
  BY DEF BranchesOf, TablesTypeOK, RowsInv, NamesOf
<1>3. Items(p) = {f[z] : z \in DOMAIN f}
  BY DEF Items
<1>4. NamesOf(p) \subseteq Name
  BY <1>2 DEF NamesOf
<1> HIDE DEF Z, B
<1>5. IsFiniteSet(Items(p))
  <2>1. IsFiniteSet(DOMAIN f) /\ f = [z \in DOMAIN f |-> f[z]]
    BY <1>1, FS_Subset
  <2> HIDE DEF f
  <2> QED  BY <1>3, <2>1, FiniteValues
<1>6. \A z \in Y : f[z] \in Item /\ f[z].id < nextID /\ f[z].project = p
  <2> SUFFICES ASSUME NEW z \in Y
               PROVE  f[z] \in Item /\ f[z].id < nextID /\ f[z].project = p
    OBVIOUS
  <2>1. z.id \in Nat /\ z.id < nextID /\ z.name \in Name /\ nextID \in Nat
    BY <1>1, <1>2, <1>4 DEF TablesTypeOK
  <2>2. z.id \div 10 \in Nat /\ z.id \div 10 <= z.id
    BY <2>1
  <2>3. f[z].id \in Nat /\ f[z].id < nextID
    BY <2>1, <2>2
  <2> QED  BY <2>1, <2>2, <2>3 DEF Item
<1>7. ASSUME ~Crowded(p)
      PROVE  Items(p) = Z
  <2>1. \A z \in Z : RowRank(p, z.id) < IdLimit /\ RowRank(p, z.id) < NameLimit
                     /\ RowRank(p, z.id) <= IdLimit /\ RowRank(p, z.id) <= NameLimit
    BY <1>1, <1>7, SizesAssumption DEF Crowded
  <2>2. DOMAIN f = Z
    BY <2>1
  <2>3. \A z \in Z : f[z] = [id |-> z.id, project |-> p, name |-> z.name]
    BY <2>1
  <2> HIDE DEF f
  <2>4. \A z \in Z : f[z] = z
    BY <1>1, <2>3
  <2> QED  BY <1>3, <2>2, <2>4
<1> HIDE DEF f
<1>8. DOMAIN f = Y
  BY DEF f
<1>9. ASSUME ~Crowded(p)
      PROVE  /\ \A q \in Items(p) : \E b \in B : b.id = q.id
             /\ \A b \in B : \E q \in Items(p) : q.name = b.name
             /\ ~Mixed(p) => Items(p) = B
  BY <1>1, <1>2, <1>7, <1>9
<1> QED  BY <1>3, <1>5, <1>6, <1>8, <1>9 DEF B

----------------------------------------------------------------------------
(* The items that a search has queued, and the rows they were made of.     *)

ItemsTypeOK ==
    /\ cut \in BOOLEAN /\ mixed \subseteq Project
    /\ queued \subseteq Item /\ \A q \in queued : q.id < nextID
    /\ queue \in Seq(Item) /\ \A i \in 1..Len(queue) : queue[i] \in queued
    /\ hand \in queued \cup {NoItem}
    /\ deps \subseteq queued /\ failed \subseteq queued
    /\ rows \subseteq branches

\* A row that has the id of an item is a row of the item's project, and the one
\* it was made of unless a name had two.
OwnRows ==
    ~cut => \A q \in queued : \A b \in branches : b.id = q.id =>
                b.project = q.project /\ (q.project \notin mixed => b = q)

ForeignKey == \A d \in deps : \E b \in branches : b.id = d.id

RowsQueued ==
    ~cut => \A b \in rows : listed[b.project] > 0 =>
                /\ \E q \in queued : q.project = b.project /\ q.name = b.name
                /\ b.project \notin mixed => b \in queued

ItemsInv ==
    /\ CountsTypeOK /\ RowsInv /\ ItemsTypeOK
    /\ OwnRows /\ ForeignKey /\ RowsQueued /\ OnlyGoneFail

LEMMA ItemsInit == Init => ItemsInv
<1> SUFFICES ASSUME Init PROVE ItemsInv
  OBVIOUS
<1>1. CountsTypeOK
  BY CountsInit
<1>2. RowsInv
  BY FirstAssumption DEF Init, RowsInv
<1>3. ItemsTypeOK /\ OwnRows /\ ForeignKey /\ OnlyGoneFail
  <2>1. queue = << >> /\ queued = {} /\ deps = {} /\ failed = {} /\ hand = NoItem
        /\ cut = FALSE /\ mixed = {} /\ rows = branches
    BY DEF Init
  <2>2. queue \in Seq(Item) /\ \A i \in 1..Len(queue) : queue[i] \in queued
    BY <2>1
  <2>3. cut \in BOOLEAN /\ mixed \subseteq Project /\ hand \in queued \cup {NoItem} /\ queued \subseteq Item
        /\ \A q \in queued : q.id < nextID
    BY <2>1, Zenon
  <2>4. ItemsTypeOK
    BY <2>1, <2>2, <2>3 DEF ItemsTypeOK
  <2> QED  BY <2>1, <2>4 DEF OwnRows, ForeignKey, OnlyGoneFail
<1>4. RowsQueued
  <2>1. \A b \in rows : b.project \in Project
    BY <1>1, <1>3 DEF CountsTypeOK, TablesTypeOK, ItemsTypeOK
  <2>2. \A b \in rows : listed[b.project] = 0
    BY <2>1 DEF Init
  <2> QED  BY <2>2 DEF RowsQueued
<1> QED  BY <1>1, <1>2, <1>3, <1>4 DEF ItemsInv

LEMMA ListPageItems ==
    ASSUME ItemsInv, ListPage
    PROVE  RowsInv' /\ ItemsTypeOK' /\ OwnRows' /\ ForeignKey' /\ RowsQueued' /\ OnlyGoneFail'
<1> DEFINE page == PageOf(Offered(SearchType), lpage)
           items == UNION {Items(p) : p \in page}
           f == [p \in page |-> Items(p)]
<1>1. TablesTypeOK /\ RowsInv /\ ItemsTypeOK /\ listed \in [Project -> Nat]
  BY DEF ItemsInv, CountsTypeOK
<1>2. /\ queue' = queue \o SetToSeq(items) /\ queued' = queued \cup items
      /\ cut' = (cut \/ \E p \in page : Crowded(p))
      /\ mixed' = mixed \cup {p \in page : Mixed(p)}
      /\ listed' = [p \in Project |-> IF p \in page THEN listed[p] + 1 ELSE listed[p]]
      /\ UNCHANGED <<projects, branches, types, nextID, hand, deps, failed, rows>>
  BY DEF ListPage, NoWrite, tableVars, driftVars, workerVars
<1>3. page \subseteq Project /\ IsFiniteSet(page)
  <2>1. page \subseteq Offered(SearchType)
    BY DEF PageOf
  <2> HIDE DEF page
  <2> QED  BY <1>1, <2>1, TypedTables, FS_Subset
<1> HIDE DEF page
<1>4. \A p \in page : /\ IsFiniteSet(Items(p)) /\ Items(p) \subseteq Item
                      /\ \A q \in Items(p) : q.id < nextID /\ q.project = p
                      /\ ~Crowded(p) =>
                            /\ \A q \in Items(p) : \E b \in BranchesOf(p) : b.id = q.id
                            /\ \A b \in BranchesOf(p) : \E q \in Items(p) : q.name = b.name
                            /\ ~Mixed(p) => Items(p) = BranchesOf(p)
  BY <1>1, <1>3, ItemsOfRows
<1>5. items \subseteq Item /\ \A q \in items : q.id < nextID
  BY <1>4
<1>6. IsFiniteSet(items)
  <2>1. DOMAIN f = page /\ f = [p \in DOMAIN f |-> f[p]]
        /\ {Items(p) : p \in page} = {f[p] : p \in DOMAIN f}
    OBVIOUS
  <2> HIDE DEF f
  <2>2. IsFiniteSet({Items(p) : p \in page})
    BY <1>3, <2>1, FiniteValues
  <2>3. \A T \in {Items(p) : p \in page} : IsFiniteSet(T)
    BY <1>4
  <2> QED  BY <2>2, <2>3, FS_UNION
<1>7. ~cut' =>
          /\ ~cut
          /\ \A q \in items : /\ q.project \in page
                              /\ \E b \in branches : b.id = q.id /\ b.project = q.project
                              /\ q.project \notin mixed' => q \in branches
          /\ \A b \in branches : b.project \in page =>
                              /\ \E q \in items : q.project = b.project /\ q.name = b.name
                              /\ b.project \notin mixed' => b \in items
  <2> SUFFICES ASSUME ~cut'
               PROVE  /\ ~cut
                      /\ \A p \in page :
                            /\ \A q \in Items(p) :
                                /\ \E b \in branches : b.id = q.id /\ b.project = q.project
                                /\ q.project \notin mixed' => q \in branches
                            /\ \A b \in branches : b.project = p =>
                                /\ \E q \in Items(p) : q.project = p /\ q.name = b.name
                                /\ p \notin mixed' => b \in Items(p)
    BY <1>4
  <2>1. ~cut /\ \A p \in page : ~Crowded(p) /\ (p \notin mixed' => ~Mixed(p))
    BY <1>2
  <2>2. \A p \in page : \A b : b \in BranchesOf(p) <=> b \in branches /\ b.project = p
    BY DEF BranchesOf
  <2> QED  BY <1>4, <2>1, <2>2
<1> HIDE DEF items
<1>9. RowsInv'
  BY <1>1, <1>2 DEF RowsInv
<1>10. ItemsTypeOK'
  <2>1. SetToSeq(items) \in [1..Cardinality(items) -> items] /\ Cardinality(items) \in Nat
    BY <1>6, SeqOfSet
  <2>2. PICK t : t = SetToSeq(items)
    OBVIOUS
  <2>3. t \in Seq(Item) /\ \A i \in 1..Len(t) : t[i] \in items
    BY <1>5, <2>1, <2>2
  <2>4. queue' \in Seq(Item) /\ \A i \in 1..Len(queue') : queue'[i] \in queued'
    BY <1>1, <1>2, <2>2, <2>3 DEF ItemsTypeOK
  <2>5. cut' \in BOOLEAN /\ mixed' \subseteq Project
    BY <1>1, <1>2, <1>3 DEF ItemsTypeOK
  <2>6. queued' \subseteq Item /\ \A q \in queued' : q.id < nextID'
    BY <1>1, <1>2, <1>5 DEF ItemsTypeOK
  <2> QED  BY <1>1, <1>2, <2>4, <2>5, <2>6 DEF ItemsTypeOK
<1>11. OwnRows'
  <2> SUFFICES ASSUME ~cut', NEW q \in queued', NEW b \in branches, b.id = q.id
               PROVE  b.project = q.project /\ (q.project \notin mixed' => b = q)
    BY <1>2 DEF OwnRows
  <2>1. CASE q \in queued
    BY <1>2, <1>7, <2>1 DEF ItemsInv, OwnRows
  <2>2. CASE q \in items
    BY <1>1, <1>7, <2>2 DEF RowsInv
  <2> QED  BY <1>2, <2>1, <2>2
<1>12. RowsQueued'
  <2> SUFFICES ASSUME ~cut', NEW b \in rows, listed'[b.project] > 0
               PROVE  /\ \E q \in queued \cup items : q.project = b.project /\ q.name = b.name
                      /\ b.project \notin mixed' => b \in queued \cup items
    BY <1>2 DEF RowsQueued
  <2>1. b \in branches /\ b.project \in Project
    BY <1>1 DEF ItemsTypeOK, TablesTypeOK
  <2>2. CASE b.project \in page
    BY <1>7, <2>1, <2>2
  <2>3. CASE b.project \notin page
    <3>1. listed[b.project] > 0 /\ ~cut
      BY <1>2, <1>7, <2>1, <2>3
    <3> QED  BY <1>2, <3>1 DEF ItemsInv, RowsQueued
  <2> QED  BY <2>2, <2>3
<1>13. ForeignKey' /\ OnlyGoneFail'
  BY <1>2 DEF ItemsInv, ForeignKey, OnlyGoneFail
<1> QED  BY <1>9, <1>10, <1>11, <1>12, <1>13

LEMMA WorkerItems ==
    ASSUME ItemsInv, Take \/ ScanNothing \/ Attach
    PROVE  RowsInv' /\ ItemsTypeOK' /\ OwnRows' /\ ForeignKey' /\ RowsQueued' /\ OnlyGoneFail'
<1>1. CASE Take
  <2>1. /\ queue \in Seq(Item) /\ queue # << >>
        /\ hand' = Head(queue) /\ queue' = Tail(queue)
        /\ UNCHANGED <<lpage, queued, cut, mixed, listed, deps, failed, rows, branches, nextID>>
    BY <1>1 DEF ItemsInv, ItemsTypeOK, Take, NoWrite, tableVars, driftVars
  <2>2. hand' \in queued /\ queue' \in Seq(Item)
        /\ \A i \in 1..Len(queue') : queue'[i] \in queued
    BY <2>1 DEF ItemsInv, ItemsTypeOK
  <2> QED  BY <2>1, <2>2 DEF ItemsInv, RowsInv, ItemsTypeOK, OwnRows, ForeignKey,
                             RowsQueued, OnlyGoneFail
<1>2. CASE ScanNothing
  BY <1>2 DEF ScanNothing, NoWrite, tableVars, searchVars, driftVars, ItemsInv, RowsInv,
              ItemsTypeOK, OwnRows, ForeignKey, RowsQueued, OnlyGoneFail
<1>3. CASE Attach
  <2>1. /\ hand \in queued /\ hand' = NoItem
        /\ UNCHANGED <<queue, queued, cut, mixed, listed, rows, branches, nextID>>
        /\ IF \E b \in branches : b.id = hand.id
           THEN deps' = deps \cup {hand} /\ failed' = failed
           ELSE failed' = failed \cup {hand} /\ deps' = deps
    BY <1>3 DEF Attach, NoWrite, tableVars, searchVars, driftVars, ItemsInv, ItemsTypeOK
  <2>2. ItemsTypeOK' /\ RowsInv' /\ OwnRows' /\ RowsQueued'
    BY <2>1 DEF ItemsInv, RowsInv, ItemsTypeOK, OwnRows, RowsQueued
  <2>3. ForeignKey' /\ OnlyGoneFail'
    BY <2>1 DEF ItemsInv, ForeignKey, OnlyGoneFail
  <2> QED  BY <2>2, <2>3
<1> QED  BY <1>1, <1>2, <1>3

\* The statements: rows go, or one comes with an id that no item has yet.
LEMMA WriteItems ==
    ASSUME ItemsInv, Writes
    PROVE  RowsInv' /\ ItemsTypeOK' /\ OwnRows' /\ ForeignKey' /\ RowsQueued' /\ OnlyGoneFail'
<1>1. TablesTypeOK /\ nextID \in Nat /\ \A q \in queued : q.id \in Nat /\ q.id < nextID
  BY DEF ItemsInv, CountsTypeOK, TablesTypeOK, ItemsTypeOK, Item
<1>2. /\ UNCHANGED <<lpage, queue, queued, cut, mixed, listed, hand, failed>>
      /\ rows' = rows \cap branches'
  BY <1>1, Writing DEF Write, searchVars
<1>3. \/ /\ branches' \subseteq branches /\ nextID' = nextID
         /\ \/ deps' = deps /\ branches' = branches
            \/ deps' = {d \in deps : \E b \in branches' : b.id = d.id}
      \/ \E p \in projects, n \in Name :
            /\ branches' = branches \cup {[id |-> nextID, project |-> p, name |-> n]}
            /\ nextID' = nextID + 1 /\ deps' = deps
  <2>1. ASSUME NEW p \in Project, NewProject(p)
        PROVE  branches' = branches /\ nextID' = nextID /\ deps' = deps
    BY <2>1 DEF NewProject, UpSert
  <2>2. ASSUME NEW p \in projects, NEW ts \in SUBSET PackageType, SetTypes(p, ts)
        PROVE  branches' = branches /\ nextID' = nextID /\ deps' = deps
    BY <2>2 DEF SetTypes, SyncPackageTypes
  <2>3. ASSUME NEW p \in projects, NEW n \in Name, AddBranch(p, n)
        PROVE  /\ branches' = branches \cup {[id |-> nextID, project |-> p, name |-> n]}
               /\ nextID' = nextID + 1 /\ deps' = deps
    BY <2>3 DEF AddBranch, CreateBranchRow
  <2>4. ASSUME NEW b \in branches, DropBranch(b)
        PROVE  /\ branches' \subseteq branches /\ nextID' = nextID
               /\ deps' = {d \in deps : \E c \in branches' : c.id = d.id}
    BY <2>4 DEF DropBranch, DeleteBranchRow, Cascade
  <2>5. ASSUME NEW p \in projects, DropProject(p)
        PROVE  /\ branches' \subseteq branches /\ nextID' = nextID
               /\ deps' = {d \in deps : \E c \in branches' : c.id = d.id}
    BY <2>5 DEF DropProject, DeleteProjectRow, Cascade
  <2> QED  BY <2>1, <2>2, <2>3, <2>4, <2>5 DEF Writes
<1>4. CASE /\ branches' \subseteq branches /\ nextID' = nextID
           /\ \/ deps' = deps /\ branches' = branches
              \/ deps' = {d \in deps : \E b \in branches' : b.id = d.id}
  <2>1. RowsInv'
    BY <1>4, FS_Subset DEF ItemsInv, RowsInv
  <2>2. ForeignKey' /\ deps' \subseteq deps
    BY <1>4 DEF ItemsInv, ForeignKey
  <2> QED  BY <1>2, <1>4, <2>1, <2>2 DEF ItemsInv, ItemsTypeOK, OwnRows, RowsQueued, OnlyGoneFail
<1>5. ASSUME NEW p \in projects, NEW n \in Name,
             branches' = branches \cup {[id |-> nextID, project |-> p, name |-> n]},
             nextID' = nextID + 1, deps' = deps
      PROVE  RowsInv' /\ ItemsTypeOK' /\ OwnRows' /\ ForeignKey' /\ RowsQueued' /\ OnlyGoneFail'
  <2> DEFINE new == [id |-> nextID, project |-> p, name |-> n]
  <2>1. \A b \in branches : b.id \in Nat /\ b.id < nextID
    BY <1>1 DEF ItemsInv, RowsInv, TablesTypeOK
  <2>2. new.id = nextID /\ new.project = p /\ new.name = n
    OBVIOUS
  <2>3. branches' = branches \cup {new}
    BY <1>5
  <2> HIDE DEF new
  <2>4. IsFiniteSet(branches')
    BY <2>3, FS_AddElement DEF ItemsInv, RowsInv
  <2>5. \A b \in branches' : b.id < nextID'
    BY <1>1, <1>5, <2>1, <2>2, <2>3
  <2>6. \A b, c \in branches' : b.id = c.id => b = c
    BY <1>1, <2>1, <2>2, <2>3 DEF ItemsInv, RowsInv
  <2>7. RowsInv'
    BY <2>4, <2>5, <2>6 DEF RowsInv
  <2>8. rows' = rows
    BY <1>2, <2>3 DEF ItemsInv, ItemsTypeOK
  <2>9. \A q \in queued : q.id # new.id /\ q.id < nextID'
    BY <1>1, <1>5, <2>2
  <2>10. ItemsTypeOK' /\ ForeignKey' /\ RowsQueued'
    BY <1>2, <1>5, <2>3, <2>8, <2>9 DEF ItemsInv, ItemsTypeOK, ForeignKey, RowsQueued
  <2>11. OwnRows' /\ OnlyGoneFail'
    BY <1>2, <2>3, <2>9 DEF ItemsInv, ItemsTypeOK, OwnRows, OnlyGoneFail
  <2> QED  BY <2>7, <2>10, <2>11
<1> QED  BY <1>3, <1>4, <1>5

LEMMA ItemsInductive == Spec => []ItemsInv
<1>1. ItemsInv /\ [Next]_vars => ItemsInv'
  <2> SUFFICES ASSUME ItemsInv, [Next]_vars
               PROVE  ItemsInv'
    OBVIOUS
  <2>1. CountsTypeOK'
    BY CountsTyped DEF ItemsInv
  <2>2. CASE ListPage
    BY <2>1, <2>2, ListPageItems DEF ItemsInv
  <2>3. CASE Take \/ ScanNothing \/ Attach
    BY <2>1, <2>3, WorkerItems DEF ItemsInv
  <2>4. CASE CountProjects \/ ReadProjects \/ UNCHANGED vars
    BY <2>1, <2>4
    DEF CountProjects, ReadProjects, NoWrite, vars, tableVars, searchVars, workerVars,
        driftVars, ItemsInv, RowsInv, ItemsTypeOK, OwnRows, ForeignKey, RowsQueued, OnlyGoneFail
  <2>5. CASE Writes
    BY <2>1, <2>5, WriteItems DEF ItemsInv
  <2> QED  BY <2>2, <2>3, <2>4, <2>5 DEF Next
<1> QED  BY <1>1, ItemsInit, PTL DEF Spec

\* Every branch that was there all along, of a project the search has met, is
\* queued under its name unless GROUP_CONCAT cut a list short, also where a name
\* has two rows; and under its own id unless its project was met like that.
THEOREM QueuedUnlessCutCorrect == Spec => []QueuedUnlessCut
<1>1. ItemsInv => QueuedUnlessCut
  BY DEF ItemsInv, RowsQueued, QueuedUnlessCut
<1> QED  BY <1>1, ItemsInductive, PTL

\* Unless a list was cut, a dependency belongs to the branch it was found on,
\* however many branches come and go before the worker attaches it, and stays in
\* its project even where a name had two rows.
THEOREM AttachedWhereFoundCorrect == Spec => []AttachedWhereFound
<1>1. ItemsInv => AttachedWhereFound
  BY DEF ItemsInv, ItemsTypeOK, OwnRows, ForeignKey, AttachedWhereFound
<1> QED  BY <1>1, ItemsInductive, PTL

\* A branch is reported as failed only when its row is gone, and no other ever
\* takes its id: AUTO_INCREMENT never gives one out again, and the rest of an
\* id that was cut is below it.
THEOREM OnlyGoneFailCorrect == Spec => []OnlyGoneFail
<1>1. ItemsInv => OnlyGoneFail
  BY DEF ItemsInv
<1> QED  BY <1>1, ItemsInductive, PTL

\* The variables keep their types; every dependency has its branch (the foreign
\* key), every item in the queue, at a worker or reported was queued by the
\* search, and the history names only what is in the tables.
THEOREM ListingTypeCorrect == Spec => []TypeOK
<1>1. ItemsInv => TypeOK
  BY DEF ItemsInv, CountsTypeOK, ItemsTypeOK, ForeignKey, TypeOK
<1> QED  BY <1>1, ItemsInductive, PTL

=============================================================================
