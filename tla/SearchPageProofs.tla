-------------------------- MODULE SearchPageProofs --------------------------
(* Theorems about SearchPage, for any searches, pages, stages and bounds,  *)
(* any order of the answers and any failures.                              *)
EXTENDS SearchPage, TLAPS

----------------------------------------------------------------------------
(* The requests without an answer.                                         *)

\* The place in sent of what is at place j once request i is answered.
Before(i, j) == IF j < i THEN j ELSE j + 1

LEMMA WithoutOne ==
    ASSUME NEW S, sent \in Seq(S), NEW i \in 1..Len(sent)
    PROVE  /\ Without(i) \in Seq(S) /\ Len(Without(i)) = Len(sent) - 1
           /\ \A j \in 1..(Len(sent) - 1) :
                  Before(i, j) \in 1..Len(sent) /\ Without(i)[j] = sent[Before(i, j)]
<1> DEFINE n == Len(sent)
           p == SubSeq(sent, 1, i - 1)
           q == SubSeq(sent, i + 1, n)
<1>1. n \in Nat /\ i \in Int /\ 1 <= i /\ i <= n
  OBVIOUS
<1>2. p \in Seq(S) /\ Len(p) = i - 1 /\ \A j \in 1..(i - 1) : p[j] = sent[j]
  OBVIOUS
<1>3. q \in Seq(S) /\ Len(q) = n - i /\ \A j \in 1..(n - i) : q[j] = sent[j + i]
  <2>1. q \in Seq(S) /\ Len(q) = n - i
    OBVIOUS
  <2>2. ASSUME NEW j \in 1..(n - i)
        PROVE  q[j] = sent[j + i]
    <3>1. q[j] = sent[(i + 1) + j - 1]
      BY <1>1, <2>1
    <3>2. (i + 1) + j - 1 = j + i
      BY <1>1
    <3> QED  BY <3>1, <3>2
  <2> QED  BY <2>1, <2>2
<1> HIDE DEF p, q
<1>4. Without(i) = p \o q
  BY DEF Without, p, q
<1>5. Without(i) \in Seq(S) /\ Len(Without(i)) = n - 1
  BY <1>1, <1>2, <1>3, <1>4
<1>6. ASSUME NEW j \in 1..(n - 1)
      PROVE  Before(i, j) \in 1..n /\ Without(i)[j] = sent[Before(i, j)]
  <2>1. CASE j < i
    <3>1. j \in 1..Len(p)
      BY <1>1, <1>2, <2>1
    <3>2. (p \o q)[j] = p[j]
      BY <1>2, <1>3, <3>1
    <3> QED  BY <1>1, <1>2, <1>4, <2>1, <3>1, <3>2 DEF Before
  <2>2. CASE ~(j < i)
    <3> DEFINE k == j - (i - 1)
    <3>1. k \in 1..(n - i) /\ k + i = j + 1 /\ j = Len(p) + k
      BY <1>1, <1>2, <2>2
    <3> HIDE DEF k
    <3>2. (p \o q)[Len(p) + k] = q[k]
      BY <1>2, <1>3, <3>1
    <3>3. (p \o q)[j] = sent[j + 1]
      BY <1>3, <3>1, <3>2
    <3> QED  BY <1>1, <1>4, <2>2, <3>3 DEF Before
  <2> QED  BY <2>1, <2>2
<1> QED  BY <1>5, <1>6

----------------------------------------------------------------------------
(* Types.  Only a search is asked for before the page has the id of one.   *)

LEMMA StagesKnown ==
    0 \in Stage /\ 1 \in Stage /\ Completed \in Stage /\ Unanswered \notin Stage
BY CompletedAssumption DEF Stage, Unanswered

\* What asks for rows is answered after they are read.
RowsFirst(r) == r.kind \in {"packages", "page"} /\ r.reply \in Stage => r.rows \in Stage

PageInv ==
    /\ TypeOK
    /\ \A i \in 1..Len(sent) :
           RowsFirst(sent[i]) /\ (sent[i].kind # "search" => searchId # None)

Fine(r, id) ==
    r \in Request /\ r.search # None /\ RowsFirst(r) /\ (r.kind # "search" => id # None)
AllFine(q, id) == q \in Seq(Request) /\ \A i \in 1..Len(q) : Fine(q[i], id)

LEMMA FineInv ==
    PageInv => AllFine(sent, searchId)
BY DEF PageInv, TypeOK, AllFine, Fine

LEMMA FineWithout ==
    ASSUME AllFine(sent, searchId), NEW i \in 1..Len(sent)
    PROVE  AllFine(Without(i), searchId)
<1>1. sent \in Seq(Request)
  BY DEF AllFine
<1> QED  BY <1>1, WithoutOne DEF AllFine

LEMMA FineAppend ==
    ASSUME NEW q, NEW id, NEW r, AllFine(q, id), Fine(r, id)
    PROVE  AllFine(Append(q, r), id)
<1>1. q \in Seq(Request) /\ r \in Request /\ Len(q) \in Nat
  BY DEF AllFine, Fine
<1>2. Append(q, r) \in Seq(Request) /\ Len(Append(q, r)) = Len(q) + 1
  BY <1>1
<1>3. ASSUME NEW i \in 1..Len(Append(q, r))
      PROVE  Fine(Append(q, r)[i], id)
  <2>1. CASE i = Len(q) + 1
    BY <1>1, <2>1 DEF AllFine
  <2>2. CASE i # Len(q) + 1
    <3>1. i \in 1..Len(q)
      BY <1>1, <1>2, <2>2
    <3> QED  BY <1>1, <3>1 DEF AllFine
  <2> QED  BY <2>1, <2>2
<1> QED  BY <1>2, <1>3 DEF AllFine

LEMMA FineAsk ==
    ASSUME NEW kind \in Kind, NEW s \in Search, NEW p \in Page, NEW id,
           kind # "search" => id # None
    PROVE  Fine(Ask(kind, s, p), id)
BY NoSearch, StagesKnown DEF Fine, RowsFirst, Ask, Request, None

\* What the page shows and counts; the requests are in AllFine.
ShownOK ==
    /\ stage \in [Search -> Stage]
    /\ searchId \in Search \cup {None}
    /\ searchStatus \in Stage
    /\ packages \in Rows \cup {NoRows}
    /\ packagesPage \in Page
    /\ failedRepos \in Rows \cup {NoRows}
    /\ timer \in BOOLEAN /\ leaked \in Nat
    /\ wanted \in Search \cup {None}
    /\ events \in 0..MaxEvents
    /\ broken \subseteq Kind
    /\ reordered \in BOOLEAN /\ torn \in BOOLEAN
    /\ hasty \in BOOLEAN /\ left \in BOOLEAN
    /\ timer \/ leaked > 0 => searchId # None

LEMMA PageInvParts == PageInv <=> ShownOK /\ AllFine(sent, searchId)
BY DEF PageInv, TypeOK, ShownOK, AllFine, Fine

LEMMA PageInvPartsNext == PageInv' <=> ShownOK' /\ AllFine(sent', searchId')
BY DEF PageInv, TypeOK, ShownOK, AllFine, Fine

LEMMA EventCounted == ASSUME events \in 0..MaxEvents, Event PROVE events' \in 0..MaxEvents
BY BoundsAssumption DEF Event

LEMMA RequestHere ==
    ASSUME PageInv, NEW i \in 1..Len(sent)
    PROVE  /\ sent \in Seq(Request) /\ sent[i] \in Request /\ RowsFirst(sent[i])
           /\ sent[i].search \in Search
           /\ stage \in [Search -> Stage] /\ stage[sent[i].search] \in Stage
<1>1. /\ sent \in Seq(Request) /\ sent[i] \in Request /\ RowsFirst(sent[i])
      /\ stage \in [Search -> Stage] /\ sent[i].search # None
  BY DEF PageInv, TypeOK
<1>2. sent[i].search \in Search
  BY <1>1 DEF Request
<1> QED  BY <1>1, <1>2

\* A request in flight names a search and, once answered, a stage, also of its rows.
LEMMA AnsweredRows ==
    ASSUME PageInv, NEW i \in 1..Len(sent), sent[i].reply \in Stage
    PROVE  /\ sent[i].search \in Search /\ sent[i].page \in Page
           /\ sent[i].kind \in Kind
           /\ Answered(i, sent[i].reply) \in Rows
           /\ sent[i].kind \in {"packages", "page"} => Answered(i, sent[i].rows) \in Rows
<1>1. sent[i] \in Request /\ sent[i].search # None /\ RowsFirst(sent[i])
  BY DEF PageInv, TypeOK
<1> QED  BY <1>1 DEF Request, Answered, Rows, RowsFirst

LEMMA PageInvUser ==
    ASSUME PageInv, User
    PROVE  PageInv'
<1>1. ShownOK /\ AllFine(sent, searchId)
  BY PageInvParts
<1>2. CASE \E s \in Search : StartSearch(s)
  <2> PICK s \in Search : StartSearch(s)
    BY <1>2
  <2>1. ShownOK'
    BY <1>1, EventCounted, StagesKnown, FirstPage DEF StartSearch, StopPolling, ShownOK
  <2>2. AllFine(sent', searchId')
    BY <1>1, FineAsk, FineAppend, FirstPage DEF StartSearch, Kind
  <2> QED  BY <2>1, <2>2, PageInvPartsNext
<1>3. CASE \E p \in Page : TurnPage(p)
  <2> PICK p \in Page : TurnPage(p)
    BY <1>3
  <2>1. ShownOK'
    BY <1>1, EventCounted DEF TurnPage, ShownOK
  <2>2. AllFine(sent', searchId')
    BY <1>1, FineAsk, FineAppend DEF TurnPage, Kind, ShownOK
  <2> QED  BY <2>1, <2>2, PageInvPartsNext
<1>4. CASE OpenProjects
  BY <1>1, <1>4, EventCounted, PageInvPartsNext DEF OpenProjects, StopPolling, ShownOK
<1> QED  BY <1>2, <1>3, <1>4 DEF User

LEMMA PageInvScript ==
    ASSUME PageInv, NEW i \in 1..Len(sent), Script(i)
    PROVE  PageInv'
<1>1. ShownOK /\ AllFine(sent, searchId) /\ AllFine(Without(i), searchId)
  BY PageInvParts, FineWithout
<1>2. /\ sent[i].reply \in Stage
      /\ UNCHANGED <<stage, wanted, events, broken, hasty, left, torn>>
      /\ reordered' \in BOOLEAN
  BY <1>1 DEF Script, SearchStarted, Polled, FailedLoaded, PageLoaded, Apply, historyVars, ShownOK
<1>3. /\ sent[i].search \in Search /\ sent[i].page \in Page
      /\ Answered(i, sent[i].reply) \in Rows
      /\ sent[i].kind \in {"packages", "page"} => Answered(i, sent[i].rows) \in Rows
  BY <1>2, AnsweredRows
<1>4. sent[i].kind # "search" => searchId \in Search
  BY <1>1 DEF AllFine, Fine, ShownOK
<1>5. CASE SearchStarted(i)
  <2>1. ShownOK'
    BY <1>1, <1>2, <1>3, <1>5, NoSearch DEF SearchStarted, ShownOK, None
  <2>2. AllFine(Without(i), searchId')
    BY <1>1, <1>3, <1>5, NoSearch DEF SearchStarted, AllFine, Fine, None
  <2>3. AllFine(sent', searchId')
    BY <1>1, <1>3, <1>5, <2>2, FineAsk, FineAppend, NoSearch
    DEF SearchStarted, Kind, ShownOK, None
  <2> QED  BY <2>1, <2>3, PageInvPartsNext
<1>6. CASE Polled(i)
  <2>1. ShownOK'
    BY <1>1, <1>2, <1>3, <1>6 DEF Polled, Apply, StopPolling, ShownOK
  <2>2. AllFine(sent', searchId')
    BY <1>1, <1>4, <1>6, FineAsk, FineAppend, FirstPage, NoSearch DEF Polled, Apply, Kind, None
  <2> QED  BY <2>1, <2>2, PageInvPartsNext
<1>7. CASE FailedLoaded(i)
  BY <1>1, <1>2, <1>3, <1>7, PageInvPartsNext DEF FailedLoaded, ShownOK
<1>8. CASE PageLoaded(i)
  BY <1>1, <1>2, <1>3, <1>8, PageInvPartsNext DEF PageLoaded, Apply, ShownOK
<1> QED  BY <1>5, <1>6, <1>7, <1>8 DEF Script

\* One request is answered, or its rows are read.
LEMMA FineOne ==
    ASSUME AllFine(sent, searchId), NEW i \in 1..Len(sent), NEW r, Fine(r, searchId),
           sent' = [sent EXCEPT ![i] = r], searchId' = searchId
    PROVE  AllFine(sent', searchId')
<1>1. r \in Request
  BY DEF Fine
<1>2. sent' \in Seq(Request) /\ Len(sent') = Len(sent)
      /\ \A j \in 1..Len(sent) : sent'[j] = IF j = i THEN r ELSE sent[j]
  BY <1>1 DEF AllFine
<1> QED  BY <1>2 DEF AllFine

LEMMA FineAnswer ==
    ASSUME PageInv, NEW i \in 1..Len(sent), NEW s \in Stage, Answer(i, s),
           sent[i].kind \in {"packages", "page"} => sent[i].rows \in Stage
    PROVE  AllFine(sent', searchId')
<1>1. AllFine(sent, searchId) /\ searchId' = searchId
  BY PageInvParts DEF Answer, pageVars
<1>2. Fine(sent[i], searchId) /\ sent' = [sent EXCEPT ![i].reply = s]
  BY <1>1 DEF AllFine, Answer
<1> DEFINE r == [sent[i] EXCEPT !.reply = s]
<1>3. Fine(r, searchId)
  BY <1>2 DEF Fine, RowsFirst, Request
<1>4. sent' = [sent EXCEPT ![i] = r]
  BY <1>2
<1> HIDE DEF r
<1> QED  BY <1>1, <1>3, <1>4, FineOne

LEMMA FineRead ==
    ASSUME PageInv, NEW i \in 1..Len(sent), FindDependencies(i)
    PROVE  AllFine(sent', searchId')
<1>1. AllFine(sent, searchId) /\ searchId' = searchId
  BY PageInvParts DEF FindDependencies, pageVars
<1>2. Fine(sent[i], searchId)
  BY <1>1 DEF AllFine
<1> DEFINE s == stage[sent[i].search]
           r == [sent[i] EXCEPT !.rows = s]
<1>3. s \in Stage /\ sent' = [sent EXCEPT ![i] = r]
  BY <1>2 DEF Fine, Request, PageInv, TypeOK, FindDependencies
<1> HIDE DEF s
<1>4. Fine(r, searchId)
  BY <1>2, <1>3 DEF Fine, RowsFirst, Request
<1> HIDE DEF r
<1> QED  BY <1>1, <1>3, <1>4, FineOne

\* What the server does to request i.
LEMMA ServerAnswers ==
    ASSUME PageInv, NEW i \in 1..Len(sent), Server(i)
    PROVE  \/ FindDependencies(i)
           \/ \E s \in Stage :
                 /\ Answer(i, s)
                 /\ sent[i].kind \in {"packages", "page"} => sent[i].rows \in Stage
                 /\ \/ sent[i].kind = "search" /\ s = 0
                    \/ sent[i].kind # "search" /\ s = stage[sent[i].search]
<1>1. /\ sent[i] \in Request /\ sent[i].search \in Search
      /\ stage[sent[i].search] \in Stage
  BY RequestHere
<1>2. sent[i].rows \in Stage \cup {Unanswered}
  BY <1>1 DEF Request
<1>3. CASE SearchPackages(i)
  BY <1>3, StagesKnown DEF SearchPackages
<1>4. CASE GetPackagesBySearch(i)
  BY <1>1, <1>2, <1>4 DEF GetPackagesBySearch
<1>5. CASE GetFailedRepositories(i)
  BY <1>1, <1>5 DEF GetFailedRepositories
<1> QED  BY <1>3, <1>4, <1>5 DEF Server

LEMMA PageInvServer ==
    ASSUME PageInv, NEW i \in 1..Len(sent), Server(i)
    PROVE  PageInv'
<1>1. ShownOK /\ sent[i] \in Request /\ sent[i].search \in Search
  BY PageInvParts DEF AllFine, Fine, Request
<1>2. stage' \in [Search -> Stage] /\ torn' \in BOOLEAN
  BY <1>1, StagesKnown DEF Server, SearchPackages, FindDependencies, GetPackagesBySearch,
                           GetFailedRepositories, ShownOK
<1>3. CASE FindDependencies(i)
  BY <1>1, <1>2, <1>3, FineRead, PageInvPartsNext
  DEF FindDependencies, pageVars, historyVars, ShownOK
<1>4. CASE ~FindDependencies(i)
  <2>1. PICK s \in Stage : Answer(i, s) /\ (sent[i].kind \in {"packages", "page"}
                                            => sent[i].rows \in Stage)
    BY <1>4, ServerAnswers
  <2>2. ShownOK'
    BY <1>1, <1>2, <2>1 DEF Answer, pageVars, historyVars, ShownOK
  <2> QED  BY <2>1, <2>2, FineAnswer, PageInvPartsNext
<1> QED  BY <1>3, <1>4

LEMMA PageInvStep ==
    ASSUME PageInv, [Next]_vars
    PROVE  PageInv'
<1>1. ShownOK /\ AllFine(sent, searchId)
  BY PageInvParts
<1>2. CASE Tick
  <2>1. searchId \in Search
    BY <1>1, <1>2 DEF Tick, ShownOK
  <2>2. AllFine(sent', searchId')
    BY <1>1, <1>2, <2>1, FineAsk, FineAppend, NoSearch DEF Tick, pageVars, ShownOK, Kind, None
  <2> QED  BY <1>1, <1>2, <2>2, PageInvPartsNext DEF Tick, pageVars, historyVars, ShownOK
<1>3. CASE \E i \in 1..Len(sent) : RequestFails(i)
  <2> PICK i \in 1..Len(sent) : RequestFails(i)
    BY <1>3
  <2>1. sent[i].kind \in Kind
    BY <1>1 DEF AllFine, Fine, Request
  <2>2. ShownOK'
    BY <1>1, <2>1, EventCounted DEF RequestFails, pageVars, ShownOK
  <2>3. AllFine(sent', searchId')
    BY <1>1, FineWithout DEF RequestFails, pageVars
  <2> QED  BY <2>2, <2>3, PageInvPartsNext
<1>4. CASE \E s \in Search : Progress(s)
  <2> PICK s \in Search : Progress(s)
    BY <1>4
  <2>1. stage' \in [Search -> Stage]
    BY <1>1, CompletedAssumption DEF Progress, Stage, ShownOK
  <2> QED  BY <1>1, <2>1, PageInvPartsNext DEF Progress, pageVars, historyVars, ShownOK
<1>5. CASE UNCHANGED vars
  BY <1>1, <1>5, PageInvPartsNext DEF vars, pageVars, historyVars, ShownOK
<1> QED
  BY <1>2, <1>3, <1>4, <1>5, PageInvUser, PageInvScript, PageInvServer DEF Next, Reply

LEMMA InitPage == Init => PageInv
<1> SUFFICES ASSUME Init
             PROVE  PageInv
  OBVIOUS
<1>1. ShownOK
  <2>1. events \in 0..MaxEvents /\ leaked \in Nat /\ ~(leaked > 0)
    BY BoundsAssumption DEF Init
  <2>2. /\ stage \in [Search -> Stage] /\ searchStatus \in Stage
        /\ packagesPage \in Page
    BY FirstPage, StagesKnown DEF Init
  <2> QED  BY <2>1, <2>2 DEF Init, ShownOK
<1>2. AllFine(sent, searchId)
  BY DEF Init, AllFine
<1> QED  BY <1>1, <1>2, PageInvParts

\* The page, the requests and the server stay within their types; a request
\* that is not for a new search names one.
THEOREM PageTypeCorrect == Spec => []TypeOK
<1>1. Init => PageInv
  BY InitPage
<1>2. PageInv /\ [Next]_vars => PageInv'
  BY PageInvStep
<1>3. PageInv => TypeOK
  BY DEF PageInv
<1> QED  BY <1>1, <1>2, <1>3, PTL DEF Spec

----------------------------------------------------------------------------
(* Intervals.                                                              *)

NoAsk(q) == \A i \in 1..Len(q) : q[i].kind # "search"
OneAsk(q) ==
    \A i, j \in 1..Len(q) : q[i].kind = "search" /\ q[j].kind = "search" => i = j

\* While nobody was hasty there is one running interval or one request that will
\* start it, never both and never two of one.
CalmInv ==
    ~hasty => leaked = 0 /\ OneAsk(sent) /\ (timer => NoAsk(sent))

LEMMA AppendAsk ==
    ASSUME NEW q \in Seq(Request), NEW r \in Request
    PROVE  /\ NoAsk(q) => OneAsk(Append(q, r))
           /\ NoAsk(q) /\ r.kind # "search" => NoAsk(Append(q, r))
           /\ OneAsk(q) /\ r.kind # "search" => OneAsk(Append(q, r))
<1>1. /\ Len(q) \in Nat /\ Len(Append(q, r)) = Len(q) + 1
      /\ Append(q, r)[Len(q) + 1] = r
      /\ \A i \in 1..Len(q) : Append(q, r)[i] = q[i]
  OBVIOUS
<1> DEFINE a == Append(q, r)
<1> HIDE DEF a
<1>2. Len(a) = Len(q) + 1 /\ a[Len(q) + 1] = r /\ \A i \in 1..Len(q) : a[i] = q[i]
  BY <1>1 DEF a
<1>3. \A i \in 1..Len(a) :
          \/ i \in 1..Len(q) /\ a[i] = q[i]
          \/ i = Len(q) + 1 /\ a[i] = r
  BY <1>1, <1>2
<1>4. NoAsk(q) => OneAsk(a)
  BY <1>3 DEF NoAsk, OneAsk
<1>5. NoAsk(q) /\ r.kind # "search" => NoAsk(a)
  BY <1>3 DEF NoAsk
<1>6. OneAsk(q) /\ r.kind # "search" => OneAsk(a)
  BY <1>3 DEF OneAsk
<1> QED  BY <1>4, <1>5, <1>6 DEF a

LEMMA WithoutAsk ==
    ASSUME sent \in Seq(Request), NEW i \in 1..Len(sent)
    PROVE  /\ NoAsk(sent) => NoAsk(Without(i))
           /\ OneAsk(sent) => OneAsk(Without(i))
           /\ OneAsk(sent) /\ sent[i].kind = "search" => NoAsk(Without(i))
<1> DEFINE q == Without(i)
           n == Len(sent)
<1>1. /\ Len(q) = n - 1 /\ n \in Nat
      /\ \A j \in 1..(n - 1) : Before(i, j) \in 1..n /\ q[j] = sent[Before(i, j)]
  BY WithoutOne
<1>2. \A j, k \in Int : Before(i, j) # i /\ (Before(i, j) = Before(i, k) => j = k)
  BY DEF Before
<1> HIDE DEF q
<1>3. \A j \in 1..Len(q) : /\ j \in Int /\ Before(i, j) \in 1..n /\ Before(i, j) # i
                          /\ q[j] = sent[Before(i, j)]
  BY <1>1, <1>2
<1>4. NoAsk(sent) => NoAsk(q)
  BY <1>3 DEF NoAsk
<1>5. OneAsk(sent) => OneAsk(q)
  BY <1>2, <1>3 DEF OneAsk
<1>6. OneAsk(sent) /\ sent[i].kind = "search" => NoAsk(q)
  BY <1>3 DEF OneAsk, NoAsk
<1> QED  BY <1>4, <1>5, <1>6 DEF q

\* The server changes no kind.
LEMMA ServerAsk ==
    ASSUME PageInv, NEW i \in 1..Len(sent), Server(i)
    PROVE  (NoAsk(sent) => NoAsk(sent')) /\ (OneAsk(sent) => OneAsk(sent'))
<1>1. sent \in Seq(Request) /\ sent[i] \in Request /\ stage[sent[i].search] \in Stage
  BY RequestHere
<1>2. PICK r \in Request : sent' = [sent EXCEPT ![i] = r] /\ r.kind = sent[i].kind
  <2>1. CASE FindDependencies(i)
    <3> DEFINE s == stage[sent[i].search]
               r == [sent[i] EXCEPT !.rows = s]
    <3>1. sent' = [sent EXCEPT ![i] = r]
      BY <2>1 DEF FindDependencies
    <3> HIDE DEF s
    <3>2. r \in Request /\ r.kind = sent[i].kind
      BY <1>1 DEF Request, s
    <3> QED  BY <3>1, <3>2
  <2>2. CASE ~FindDependencies(i)
    <3>1. PICK s \in Stage : Answer(i, s)
      BY <2>2, ServerAnswers
    <3> DEFINE r == [sent[i] EXCEPT !.reply = s]
    <3>2. sent' = [sent EXCEPT ![i] = r]
      BY <3>1 DEF Answer
    <3>3. r \in Request /\ r.kind = sent[i].kind
      BY <1>1 DEF Request
    <3> QED  BY <3>2, <3>3
  <2> QED  BY <2>1, <2>2
<1>3. Len(sent') = Len(sent) /\ \A j \in 1..Len(sent) : sent'[j].kind = sent[j].kind
  BY <1>1, <1>2
<1> QED  BY <1>3 DEF NoAsk, OneAsk

LEMMA CalmScript ==
    ASSUME PageInv, CalmInv, NEW i \in 1..Len(sent), Script(i), ~hasty
    PROVE  leaked' = 0 /\ OneAsk(sent') /\ (timer' => NoAsk(sent'))
<1>1. /\ sent \in Seq(Request) /\ Without(i) \in Seq(Request) /\ sent[i] \in Request
      /\ OneAsk(sent) /\ OneAsk(Without(i)) /\ leaked = 0
      /\ timer => NoAsk(sent) /\ NoAsk(Without(i))
  BY WithoutOne, WithoutAsk DEF PageInv, TypeOK, CalmInv
<1>2. sent[i].reply \in Stage
  BY DEF Script, SearchStarted, Polled, FailedLoaded, PageLoaded, Apply
<1>3. sent[i].search \in Search /\ packagesPage \in Page
      /\ (sent[i].kind # "search" => searchId \in Search)
  BY <1>2, AnsweredRows DEF PageInv, TypeOK
<1>4. CASE SearchStarted(i)
  <2>1. sent[i].kind = "search" /\ ~timer /\ NoAsk(Without(i))
    BY <1>1, <1>4, WithoutAsk DEF SearchStarted, Apply, NoAsk
  <2>2. Ask("packages", sent[i].search, packagesPage) \in Request
    BY <1>3, FineAsk DEF Fine, Kind
  <2>3. Ask("packages", sent[i].search, packagesPage).kind # "search"
    BY DEF Ask
  <2> QED  BY <1>1, <1>4, <2>1, <2>2, <2>3, AppendAsk DEF SearchStarted
<1>5. CASE Polled(i)
  <2>0. sent[i].kind = "packages" /\ searchId \in Search /\ 1 \in Page /\ "failed" \in Kind
    BY <1>3, <1>5, FirstPage DEF Polled, Apply, Kind
  <2>1. Ask("failed", searchId, 1) \in Request
    BY <2>0 DEF Ask, Request
  <2>2. Ask("failed", searchId, 1).kind # "search"
    BY DEF Ask
  <2>3. timer' => timer
    BY <1>5 DEF Polled, StopPolling
  <2> QED  BY <1>1, <1>5, <2>1, <2>2, <2>3, AppendAsk DEF Polled
<1>6. CASE FailedLoaded(i) \/ PageLoaded(i)
  BY <1>1, <1>6 DEF FailedLoaded, PageLoaded
<1> QED  BY <1>4, <1>5, <1>6 DEF Script

LEMMA CalmStep ==
    ASSUME PageInv, CalmInv, [Next]_vars
    PROVE  CalmInv'
<1>1. sent \in Seq(Request) /\ (hasty => hasty')
  BY DEF PageInv, TypeOK, Next, User, StartSearch, TurnPage, OpenProjects, Tick, Reply,
         Script, SearchStarted, Polled, FailedLoaded, PageLoaded, Apply,
         Server, SearchPackages, FindDependencies, GetPackagesBySearch,
         GetFailedRepositories, Answer, RequestFails, Progress, vars, historyVars
<1> SUFFICES ASSUME ~hasty'
             PROVE  leaked' = 0 /\ OneAsk(sent') /\ (timer' => NoAsk(sent'))
  BY DEF CalmInv
<1>2. leaked = 0 /\ OneAsk(sent) /\ (timer => NoAsk(sent)) /\ ~hasty
  BY <1>1 DEF CalmInv
<1>3. CASE \E s \in Search : StartSearch(s)
  <2> PICK s \in Search : StartSearch(s)
    BY <1>3
  <2>1. NoAsk(sent) /\ timer' = FALSE /\ leaked' = leaked
    BY DEF StartSearch, StopPolling, NoAsk
  <2>2. Ask("search", s, 1) \in Request
    BY FineAsk, FirstPage DEF Fine, Kind
  <2> QED  BY <1>1, <1>2, <2>1, <2>2, AppendAsk DEF StartSearch
<1>4. CASE \E p \in Page : TurnPage(p)
  <2> PICK p \in Page : TurnPage(p)
    BY <1>4
  <2>1. CASE searchId = None
    BY <1>2, <2>1 DEF TurnPage
  <2>2. CASE searchId # None
    <3>1. Ask("page", searchId, p) \in Request /\ Ask("page", searchId, p).kind # "search"
      BY <2>2, FineAsk DEF PageInv, TypeOK, Fine, Ask, Kind
    <3> QED  BY <1>1, <1>2, <2>2, <3>1, AppendAsk DEF TurnPage
  <2> QED  BY <2>1, <2>2
<1>5. CASE OpenProjects
  BY <1>2, <1>5 DEF OpenProjects, StopPolling
<1>6. CASE Tick
  <2>1. Ask("packages", searchId, packagesPage) \in Request
        /\ Ask("packages", searchId, packagesPage).kind # "search"
    BY <1>6, FineAsk DEF Tick, PageInv, TypeOK, Fine, Ask, Kind
  <2> QED  BY <1>1, <1>2, <1>6, <2>1, AppendAsk DEF Tick, pageVars
<1>7. CASE \E i \in 1..Len(sent) : Script(i)
  BY <1>2, <1>7, CalmScript
<1>8. CASE \E i \in 1..Len(sent) : Server(i)
  <2> PICK i \in 1..Len(sent) : Server(i)
    BY <1>8
  <2>1. UNCHANGED <<leaked, timer>>
    BY DEF Server, SearchPackages, FindDependencies, GetPackagesBySearch,
           GetFailedRepositories, Answer, pageVars
  <2> QED  BY <1>2, <2>1, ServerAsk
<1>9. CASE \E i \in 1..Len(sent) : RequestFails(i)
  BY <1>1, <1>2, <1>9, WithoutAsk DEF RequestFails, pageVars
<1>10. CASE UNCHANGED vars \/ \E s \in Search : Progress(s)
  BY <1>2, <1>10 DEF Progress, vars, pageVars
<1> QED  BY <1>3, <1>4, <1>5, <1>6, <1>7, <1>8, <1>9, <1>10 DEF Next, User, Reply

\* The script never loses the name of a running interval, whatever searches
\* follow one another, in whatever order the answers come and whatever fails,
\* unless a search is asked for while the id of the last is on its way.
THEOREM OneIntervalCorrect == Spec => []OneInterval
<1>1. Init => PageInv /\ CalmInv
  <2> SUFFICES ASSUME Init
               PROVE  PageInv /\ CalmInv
    OBVIOUS
  <2>1. PageInv
    BY InitPage
  <2>2. CalmInv
    BY DEF Init, CalmInv, OneAsk, NoAsk
  <2> QED  BY <2>1, <2>2
<1>2. PageInv /\ CalmInv /\ [Next]_vars => (PageInv /\ CalmInv)'
  BY PageInvStep, CalmStep
<1>3. PageInv /\ CalmInv => OneInterval
  BY DEF CalmInv, OneInterval
<1> QED  BY <1>1, <1>2, <1>3, PTL DEF Spec

----------------------------------------------------------------------------
(* What the page shows at rest.                                            *)

\* The server answers in the order of sending.
Fifo(q) ==
    \A i, j \in 1..Len(q) : i < j /\ q[j].reply \in Stage => q[i].reply \in Stage

\* A new search is the last one asked for, and nothing is polled behind it.
AskedFor(q, w) ==
    \A i, j \in 1..Len(q) :
        q[i].kind = "search" =>
            q[i].search = w /\ (i < j => q[j].kind # "packages")

\* Polls, and what is asked behind them, are of the last search.
Polls(q, w) ==
    \A i, j \in 1..Len(q) : q[i].kind = "packages" /\ i <= j => q[j].search = w

\* Once an answer shows a search completed, all later ones do.
Later(q, st) ==
    \A i, j \in 1..Len(q) :
        q[i].reply = Completed =>
            /\ st[q[i].search] = Completed
            /\ i < j /\ q[j].kind # "search" /\ q[j].search = q[i].search
               /\ q[j].reply \in Stage => q[j].reply = Completed

\* The list of failures is asked for from its first page.
FromFirst(q) == \A i \in 1..Len(q) : q[i].kind = "failed" => q[i].page = 1

\* All that is still to come is final.
Final(q, w) ==
    \A i \in 1..Len(q) : q[i].search = w /\ q[i].reply \in {Unanswered, Completed}

Asks(q, kind) == \E i \in 1..Len(q) : q[i].kind = kind

\* A completed answer has the final rows, but for one torn.
Whole(q) ==
    \A i \in 1..Len(q) :
        q[i].kind \in {"packages", "page"} /\ q[i].reply = Completed => q[i].rows = Completed

WholeInv == torn \/ Whole(sent)

Orderly == ~reordered /\ ~hasty /\ broken \subseteq {"packages"}

InOrder ==
    /\ Fifo(sent) /\ AskedFor(sent, wanted) /\ Later(sent, stage) /\ FromFirst(sent)
    /\ NoAsk(sent) /\ wanted # None => searchId = wanted /\ Polls(sent, wanted)

\* The polling has come to its end.
AtRest == NoAsk(sent) /\ ~timer /\ ~left /\ wanted # None

Rested ==
    /\ searchStatus = Completed /\ stage[wanted] = Completed
    /\ Final(sent, wanted)
    /\ packages.search = wanted /\ (torn \/ packages.stage = Completed)
    /\ packages.page = packagesPage \/ Asks(sent, "page")
    /\ \/ failedRepos = [search |-> wanted, page |-> 1, stage |-> Completed]
       \/ Asks(sent, "failed")

ShowInv == Orderly => InOrder /\ (AtRest => Rested)

LEMMA WholeWithout ==
    ASSUME sent \in Seq(Request), NEW i \in 1..Len(sent), Whole(sent)
    PROVE  Whole(Without(i))
BY WithoutOne DEF Whole

LEMMA WholeAppend ==
    ASSUME NEW q \in Seq(Request), NEW r \in Request, r.reply = Unanswered, Whole(q)
    PROVE  Whole(Append(q, r))
<1>1. /\ Len(q) \in Nat /\ Len(Append(q, r)) = Len(q) + 1
      /\ Append(q, r)[Len(q) + 1] = r
      /\ \A i \in 1..Len(q) : Append(q, r)[i] = q[i]
  OBVIOUS
<1>2. Unanswered # Completed
  BY StagesKnown
<1>3. \A i \in 1..(Len(q) + 1) : i = Len(q) + 1 \/ i \in 1..Len(q)
  BY <1>1
<1> QED  BY <1>1, <1>2, <1>3 DEF Whole

LEMMA WholeScript ==
    ASSUME PageInv, WholeInv, NEW i \in 1..Len(sent), Script(i)
    PROVE  WholeInv'
<1>1. sent \in Seq(Request) /\ torn' = torn
  BY DEF PageInv, TypeOK, Script, SearchStarted, Polled, FailedLoaded, PageLoaded, Apply
<1> SUFFICES ASSUME ~torn
             PROVE  Whole(sent')
  BY <1>1 DEF WholeInv
<1>2. Without(i) \in Seq(Request) /\ Whole(Without(i))
  BY <1>1, WithoutOne, WholeWithout DEF WholeInv
<1>3. sent[i].reply \in Stage
  BY DEF Script, SearchStarted, Polled, FailedLoaded, PageLoaded, Apply
<1>4. sent[i].search \in Search /\ packagesPage \in Page
      /\ (sent[i].kind # "search" => searchId \in Search)
  BY <1>3, AnsweredRows DEF PageInv, TypeOK
<1>5. CASE SearchStarted(i)
  <2>1. /\ Ask("packages", sent[i].search, packagesPage) \in Request
        /\ Ask("packages", sent[i].search, packagesPage).reply = Unanswered
    BY <1>4 DEF Ask, Request, Kind
  <2> QED  BY <1>2, <1>5, <2>1, WholeAppend DEF SearchStarted
<1>6. CASE Polled(i)
  <2>1. searchId \in Search
    BY <1>4, <1>6 DEF Polled, Apply
  <2>2. Ask("failed", searchId, 1) \in Request /\ Ask("failed", searchId, 1).reply = Unanswered
    BY <2>1, FirstPage DEF Ask, Request, Kind
  <2> QED  BY <1>2, <1>6, <2>2, WholeAppend DEF Polled
<1>7. CASE FailedLoaded(i) \/ PageLoaded(i)
  BY <1>2, <1>7 DEF FailedLoaded, PageLoaded
<1> QED  BY <1>5, <1>6, <1>7 DEF Script

LEMMA WholeServer ==
    ASSUME PageInv, WholeInv, NEW i \in 1..Len(sent), Server(i)
    PROVE  WholeInv'
<1>1. sent \in Seq(Request) /\ sent[i] \in Request /\ (torn => torn') /\ RowsFirst(sent[i])
  BY DEF PageInv, TypeOK, Server, SearchPackages, FindDependencies, GetPackagesBySearch,
         GetFailedRepositories
<1> SUFFICES ASSUME ~torn'
             PROVE  Whole(sent')
  BY DEF WholeInv
<1>2. Whole(sent) /\ 0 # Completed /\ Unanswered \notin Stage
      /\ Completed \in Stage /\ Unanswered # Completed
  BY <1>1, StagesKnown, CompletedAssumption DEF WholeInv
<1>3. PICK r \in Request :
          /\ sent' = [sent EXCEPT ![i] = r]
          /\ r.kind \in {"packages", "page"} /\ r.reply = Completed => r.rows = Completed
  <2>1. CASE SearchPackages(i)
    <3> DEFINE r == [sent[i] EXCEPT !.reply = 0]
    <3>1. r \in Request /\ r.kind = "search" /\ sent' = [sent EXCEPT ![i] = r]
      BY <1>1, <2>1, StagesKnown DEF SearchPackages, Answer, Request
    <3> QED  BY <3>1
  <2>2. CASE FindDependencies(i)
    <3> DEFINE r == [sent[i] EXCEPT !.rows = stage[sent[i].search]]
    <3>1. sent[i].search \in Search /\ stage \in [Search -> Stage]
      BY RequestHere
    <3>2. sent[i].reply = Unanswered
      BY <1>1, <1>2, <2>2 DEF FindDependencies, RowsFirst, Request
    <3>3. /\ r \in Request /\ r.reply = Unanswered
          /\ sent' = [sent EXCEPT ![i] = r]
      BY <1>1, <2>2, <3>1, <3>2 DEF FindDependencies, Request
    <3> QED  BY <1>2, <3>3
  <2>3. CASE GetPackagesBySearch(i)
    <3> DEFINE s == stage[sent[i].search]
               r == [sent[i] EXCEPT !.reply = s]
    <3>1. s \in Stage
      BY RequestHere
    <3>2. sent' = [sent EXCEPT ![i] = r] /\ (s = Completed => sent[i].rows = Completed)
      BY <2>3 DEF GetPackagesBySearch, Answer
    <3> HIDE DEF s
    <3>3. r \in Request /\ r.reply = s /\ r.rows = sent[i].rows
      BY <1>1, <3>1 DEF Request
    <3> QED  BY <3>2, <3>3
  <2>4. CASE GetFailedRepositories(i)
    <3> DEFINE r == [sent[i] EXCEPT !.reply = stage[sent[i].search]]
    <3>1. sent[i].search \in Search /\ stage \in [Search -> Stage]
      BY RequestHere
    <3>2. r \in Request /\ r.kind = "failed" /\ sent' = [sent EXCEPT ![i] = r]
      BY <1>1, <2>4, <3>1 DEF GetFailedRepositories, Answer, Request
    <3> QED  BY <3>2
  <2> QED  BY <2>1, <2>2, <2>3, <2>4 DEF Server
<1>4. Len(sent') = Len(sent)
      /\ \A j \in 1..Len(sent) : sent'[j] = IF j = i THEN r ELSE sent[j]
  BY <1>1, <1>3
<1> QED  BY <1>2, <1>3, <1>4 DEF Whole

LEMMA WholeStep ==
    ASSUME PageInv, WholeInv, [Next]_vars
    PROVE  WholeInv'
<1>1. sent \in Seq(Request) /\ searchId \in Search \cup {None} /\ packagesPage \in Page
  BY DEF PageInv, TypeOK
<1>2. CASE \E s \in Search : StartSearch(s)
  <2> PICK s \in Search : StartSearch(s)
    BY <1>2
  <2>1. Ask("search", s, 1) \in Request /\ Ask("search", s, 1).reply = Unanswered
    BY FirstPage DEF Ask, Request, Kind
  <2> QED  BY <1>1, <2>1, WholeAppend DEF StartSearch, WholeInv
<1>3. CASE \E p \in Page : TurnPage(p)
  <2> PICK p \in Page : TurnPage(p)
    BY <1>3
  <2>1. CASE searchId = None
    BY <2>1 DEF TurnPage, WholeInv
  <2>2. CASE searchId # None
    <3>1. Ask("page", searchId, p) \in Request /\ Ask("page", searchId, p).reply = Unanswered
      BY <1>1, <2>2 DEF Ask, Request, Kind
    <3> QED  BY <1>1, <2>2, <3>1, WholeAppend DEF TurnPage, WholeInv
  <2> QED  BY <2>1, <2>2
<1>4. CASE Tick
  <2>1. searchId \in Search
    BY <1>1, <1>4 DEF Tick, PageInv, TypeOK
  <2>2. /\ Ask("packages", searchId, packagesPage) \in Request
        /\ Ask("packages", searchId, packagesPage).reply = Unanswered
    BY <1>1, <2>1 DEF Ask, Request, Kind
  <2> QED  BY <1>1, <1>4, <2>2, WholeAppend DEF Tick, WholeInv
<1>5. CASE \E i \in 1..Len(sent) : RequestFails(i)
  BY <1>1, <1>5, WholeWithout DEF RequestFails, WholeInv
<1>6. CASE OpenProjects \/ UNCHANGED vars \/ \E s \in Search : Progress(s)
  BY <1>6 DEF OpenProjects, Progress, vars, WholeInv
<1> QED
  BY <1>2, <1>3, <1>4, <1>5, <1>6, WholeScript, WholeServer DEF Next, User, Reply

\* The first request is done with.
LEMMA DropFirst ==
    ASSUME sent \in Seq(Request), 1 \in 1..Len(sent), NEW q, q = Without(1), NEW w, NEW st
    PROVE  /\ q \in Seq(Request)
           /\ Fifo(sent) => Fifo(q)
           /\ AskedFor(sent, w) => AskedFor(q, w)
           /\ Polls(sent, w) => Polls(q, w)
           /\ Later(sent, st) => Later(q, st)
           /\ FromFirst(sent) => FromFirst(q)
           /\ Final(sent, w) => Final(q, w)
           /\ sent[1].kind # "search" => (NoAsk(q) <=> NoAsk(sent))
           /\ \A k : sent[1].kind # k /\ Asks(sent, k) => Asks(q, k)
           /\ AskedFor(sent, w) /\ sent[1].kind = "search" => ~Asks(q, "packages")
<1> DEFINE n == Len(sent)
<1>1. /\ n \in Nat /\ q \in Seq(Request) /\ Len(q) = n - 1
      /\ \A j \in 1..(n - 1) : Before(1, j) \in 1..n /\ q[j] = sent[Before(1, j)]
  <2>1. /\ Without(1) \in Seq(Request) /\ Len(Without(1)) = Len(sent) - 1
        /\ \A j \in 1..(Len(sent) - 1) :
               Before(1, j) \in 1..Len(sent) /\ Without(1)[j] = sent[Before(1, j)]
    BY WithoutOne
  <2>2. Len(sent) \in Nat
    OBVIOUS
  <2> QED  BY <2>1, <2>2
<1>2. \A j \in 1..(n - 1) : Before(1, j) = j + 1
  BY DEF Before
<1>3. \A j \in 1..Len(q) : /\ j \in Int /\ j + 1 \in 1..n /\ j + 1 \in Int /\ 1 < j + 1
                          /\ q[j] = sent[j + 1]
  BY <1>1, <1>2
<1>4. \A j \in 1..n : j # 1 => j - 1 \in 1..Len(q) /\ q[j - 1] = sent[j]
  <2> SUFFICES ASSUME NEW j \in 1..n, j # 1
               PROVE  j - 1 \in 1..Len(q) /\ q[j - 1] = sent[j]
    OBVIOUS
  <2>1. j - 1 \in 1..Len(q) /\ (j - 1) + 1 = j
    BY <1>1
  <2> QED  BY <1>3, <2>1
<1>5. \A i, j \in 1..Len(q) : (i < j => i + 1 < j + 1) /\ (i <= j => i + 1 <= j + 1)
  OBVIOUS
<1>6. Fifo(sent) => Fifo(q)
  BY <1>3, <1>5 DEF Fifo
<1>7. AskedFor(sent, w) => AskedFor(q, w)
  BY <1>3, <1>5 DEF AskedFor
<1>8. Polls(sent, w) => Polls(q, w)
  BY <1>3, <1>5 DEF Polls
<1>9. Later(sent, st) => Later(q, st)
  BY <1>3, <1>5 DEF Later
<1>10. (FromFirst(sent) => FromFirst(q)) /\ (Final(sent, w) => Final(q, w))
  BY <1>3 DEF FromFirst, Final
<1>11. sent[1].kind # "search" => (NoAsk(q) <=> NoAsk(sent))
  <2>1. NoAsk(sent) => NoAsk(q)
    BY <1>3 DEF NoAsk
  <2>2. sent[1].kind # "search" /\ NoAsk(q) => NoAsk(sent)
    <3> SUFFICES ASSUME sent[1].kind # "search", NoAsk(q), NEW j \in 1..n
                 PROVE  sent[j].kind # "search"
      BY DEF NoAsk
    <3> QED  BY <1>4 DEF NoAsk
  <2> QED  BY <2>1, <2>2
<1>12. \A k : sent[1].kind # k /\ Asks(sent, k) => Asks(q, k)
  BY <1>4 DEF Asks
<1>13. AskedFor(sent, w) /\ sent[1].kind = "search" => ~Asks(q, "packages")
  BY <1>3 DEF AskedFor, Asks
<1> QED  BY <1>1, <1>6, <1>7, <1>8, <1>9, <1>10, <1>11, <1>12, <1>13

\* One more request is sent.
LEMMA SendLast ==
    ASSUME NEW q \in Seq(Request), NEW r \in Request, r.reply = Unanswered,
           NEW a, a = Append(q, r), NEW w, NEW st
    PROVE  /\ Fifo(q) => Fifo(a)
           /\ AskedFor(q, w) /\ r.kind \notin {"search", "packages"} => AskedFor(a, w)
           /\ NoAsk(q) /\ (r.kind = "search" => r.search = w) => AskedFor(a, w)
           /\ Polls(q, w) /\ r.search = w => Polls(a, w)
           /\ ~Asks(q, "packages") /\ r.search = w => Polls(a, w)
           /\ Later(q, st) => Later(a, st)
           /\ FromFirst(q) /\ (r.kind = "failed" => r.page = 1) => FromFirst(a)
           /\ Final(q, w) /\ r.search = w => Final(a, w)
           /\ NoAsk(a) => NoAsk(q) /\ r.kind # "search"
           /\ \A k : Asks(q, k) \/ r.kind = k => Asks(a, k)
<1>1. /\ Len(q) \in Nat /\ Len(a) = Len(q) + 1 /\ a[Len(q) + 1] = r
      /\ \A i \in 1..Len(q) : a[i] = q[i]
  OBVIOUS
<1>2. \A i \in 1..Len(a) :
          \/ i \in 1..Len(q) /\ a[i] = q[i] /\ i < Len(q) + 1
          \/ i = Len(q) + 1 /\ a[i] = r
  BY <1>1
<1>3. \A i \in 1..Len(q) : i \in 1..Len(a) /\ a[i] = q[i]
  BY <1>1
<1>4. Len(q) + 1 \in 1..Len(a)
  BY <1>1
<1>5. \A i, j \in 1..Len(a) : i < j => i \in 1..Len(q) /\ a[i] = q[i]
  BY <1>1
<1>6. Unanswered \notin Stage /\ Unanswered # Completed
  BY StagesKnown
<1>7. Fifo(q) => Fifo(a)
  BY <1>2, <1>5, <1>6 DEF Fifo
<1>8. AskedFor(q, w) /\ r.kind \notin {"search", "packages"} => AskedFor(a, w)
  BY <1>2, <1>5 DEF AskedFor
<1>9. NoAsk(q) /\ (r.kind = "search" => r.search = w) => AskedFor(a, w)
  BY <1>2, <1>5 DEF AskedFor, NoAsk
<1>10. Polls(q, w) /\ r.search = w => Polls(a, w)
  <2> SUFFICES ASSUME Polls(q, w), r.search = w, NEW i \in 1..Len(a), NEW j \in 1..Len(a),
                      a[i].kind = "packages", i <= j
               PROVE  a[j].search = w
    BY DEF Polls
  <2>1. CASE j = Len(q) + 1
    BY <1>1, <2>1
  <2>2. CASE j # Len(q) + 1
    <3>1. j \in 1..Len(q) /\ i \in 1..Len(q)
      BY <1>1, <2>2
    <3> QED  BY <1>3, <3>1 DEF Polls
  <2> QED  BY <2>1, <2>2
<1>11. ~Asks(q, "packages") /\ r.search = w => Polls(a, w)
  <2> SUFFICES ASSUME ~Asks(q, "packages"), r.search = w,
                      NEW i \in 1..Len(a), NEW j \in 1..Len(a),
                      a[i].kind = "packages", i <= j
               PROVE  a[j].search = w
    BY DEF Polls
  <2>1. i = Len(q) + 1
    BY <1>2 DEF Asks
  <2>2. j = Len(q) + 1
    BY <1>1, <2>1
  <2> QED  BY <1>1, <2>2
<1>12. Later(q, st) => Later(a, st)
  BY <1>2, <1>5, <1>6 DEF Later
<1>13. FromFirst(q) /\ (r.kind = "failed" => r.page = 1) => FromFirst(a)
  BY <1>2 DEF FromFirst
<1>14. Final(q, w) /\ r.search = w => Final(a, w)
  BY <1>2 DEF Final
<1>15. NoAsk(a) => NoAsk(q) /\ r.kind # "search"
  BY <1>1, <1>3, <1>4 DEF NoAsk
<1>16. \A k : Asks(q, k) \/ r.kind = k => Asks(a, k)
  BY <1>1, <1>3, <1>4 DEF Asks
<1> QED
  BY <1>7, <1>8, <1>9, <1>10, <1>11, <1>12, <1>13, <1>14, <1>15, <1>16

\* The server answers what it was asked first.
LEMMA AnswerNext ==
    ASSUME sent \in Seq(Request), NEW i \in 1..Len(sent), NEW s \in Stage, Answer(i, s),
           ~reordered', Fifo(sent), NEW st, NEW st2, NEW w,
           \/ sent[i].kind = "search" /\ s = 0
           \/ sent[i].kind # "search" /\ s = st[sent[i].search],
           \A x \in Search : st[x] = Completed => st2[x] = Completed,
           st2[sent[i].search] = Completed \/ s # Completed,
           \A j \in 1..Len(sent) : sent[j].search \in Search
    PROVE  /\ Fifo(sent')
           /\ AskedFor(sent, w) => AskedFor(sent', w)
           /\ Polls(sent, w) => Polls(sent', w)
           /\ Later(sent, st) => Later(sent', st2)
           /\ FromFirst(sent) => FromFirst(sent')
           /\ NoAsk(sent) <=> NoAsk(sent')
           /\ \A k : Asks(sent, k) => Asks(sent', k)
           /\ NoAsk(sent) /\ Final(sent, w) /\ st[w] = Completed => Final(sent', w)
<1> DEFINE r == [sent[i] EXCEPT !.reply = s]
<1>1. sent' = [sent EXCEPT ![i] = r] /\ sent[i] \in Request /\ sent[i].reply = Unanswered
  BY DEF Answer
<1>2. /\ r.kind = sent[i].kind /\ r.search = sent[i].search /\ r.page = sent[i].page
      /\ r.reply = s
  BY <1>1 DEF Request
<1> HIDE DEF r
<1> PICK q : q = sent'
  OBVIOUS
<1>3. /\ Len(q) = Len(sent)
      /\ \A j \in 1..Len(sent) : q[j].kind = sent[j].kind /\ q[j].search = sent[j].search
                                 /\ q[j].page = sent[j].page
      /\ q[i].reply = s
      /\ \A j \in 1..Len(sent) : j # i => q[j].reply = sent[j].reply
  BY <1>1, <1>2
<1>4. Unanswered \notin Stage /\ Completed # 0
  BY StagesKnown, CompletedAssumption
<1>5. \A j \in 1..Len(sent) : j < i => sent[j].reply \in Stage
  <2>1. \A j \in 1..(i - 1) : sent[j].reply # Unanswered
    BY DEF Answer
  <2> SUFFICES ASSUME NEW j \in 1..Len(sent), j < i
               PROVE  sent[j].reply \in Stage
    OBVIOUS
  <2>2. j \in 1..(i - 1) /\ sent[j] \in Request
    OBVIOUS
  <2> QED  BY <2>1, <2>2 DEF Request
<1>6. \A j \in 1..Len(sent) : i < j => sent[j].reply \notin Stage
  BY <1>1, <1>4 DEF Fifo
<1>7. \A j \in 1..Len(sent) : j < i \/ j = i \/ i < j
  OBVIOUS
<1>8. Fifo(q)
  BY <1>3, <1>5, <1>6, <1>7 DEF Fifo
<1>9. /\ AskedFor(sent, w) => AskedFor(q, w)
      /\ Polls(sent, w) => Polls(q, w)
      /\ FromFirst(sent) => FromFirst(q)
      /\ NoAsk(sent) <=> NoAsk(q)
      /\ \A k : Asks(sent, k) => Asks(q, k)
  BY <1>3 DEF AskedFor, Polls, FromFirst, NoAsk, Asks
<1>10. ASSUME Later(sent, st)
       PROVE  Later(q, st2)
  <2> SUFFICES ASSUME NEW j \in 1..Len(sent), NEW k \in 1..Len(sent), q[j].reply = Completed
               PROVE  /\ st2[q[j].search] = Completed
                      /\ j < k /\ q[k].kind # "search" /\ q[k].search = q[j].search
                         /\ q[k].reply \in Stage => q[k].reply = Completed
    BY <1>3 DEF Later
  <2>1. CASE j = i
    BY <1>3, <1>6, <2>1
  <2>2. CASE j # i
    <3>1. sent[j].reply = Completed /\ sent[j].search \in Search
      BY <1>3, <2>2
    <3>2. st[sent[j].search] = Completed /\ st2[sent[j].search] = Completed
      BY <1>10, <3>1 DEF Later
    <3>3. k = i /\ q[k].kind # "search" /\ q[k].search = q[j].search
          => q[k].reply = Completed
      BY <1>3, <3>2
    <3>4. k # i /\ j < k /\ q[k].kind # "search" /\ q[k].search = q[j].search
          /\ q[k].reply \in Stage => q[k].reply = Completed
      BY <1>3, <1>10, <3>1 DEF Later
    <3> QED  BY <1>3, <3>2, <3>3, <3>4
  <2> QED  BY <2>1, <2>2
<1>11. NoAsk(sent) /\ Final(sent, w) /\ st[w] = Completed => Final(q, w)
  BY <1>3 DEF NoAsk, Final
<1> QED  BY <1>8, <1>9, <1>10, <1>11

\* To read the rows of an answer changes nothing else of it.
LEMMA ReadNext ==
    ASSUME sent \in Seq(Request), NEW i \in 1..Len(sent), FindDependencies(i),
           sent[i].search \in Search, stage \in [Search -> Stage], NEW st, NEW w
    PROVE  /\ Fifo(sent) => Fifo(sent')
           /\ AskedFor(sent, w) => AskedFor(sent', w)
           /\ Polls(sent, w) => Polls(sent', w)
           /\ Later(sent, st) => Later(sent', st)
           /\ FromFirst(sent) => FromFirst(sent')
           /\ NoAsk(sent) <=> NoAsk(sent')
           /\ \A k : Asks(sent, k) => Asks(sent', k)
           /\ Final(sent, w) => Final(sent', w)
<1> DEFINE r == [sent[i] EXCEPT !.rows = stage[sent[i].search]]
<1>1. sent' = [sent EXCEPT ![i] = r] /\ sent[i] \in Request
  BY DEF FindDependencies
<1>2. /\ r.kind = sent[i].kind /\ r.search = sent[i].search /\ r.page = sent[i].page
      /\ r.reply = sent[i].reply
  BY <1>1 DEF Request
<1> HIDE DEF r
<1> PICK q : q = sent'
  OBVIOUS
<1>3. /\ Len(q) = Len(sent)
      /\ \A j \in 1..Len(sent) :
             /\ q[j].kind = sent[j].kind /\ q[j].search = sent[j].search
             /\ q[j].page = sent[j].page /\ q[j].reply = sent[j].reply
  BY <1>1, <1>2
<1>4. (Fifo(sent) => Fifo(q)) /\ (Later(sent, st) => Later(q, st))
  BY <1>3 DEF Fifo, Later
<1>5. (AskedFor(sent, w) => AskedFor(q, w)) /\ (Polls(sent, w) => Polls(q, w))
  BY <1>3 DEF AskedFor, Polls
<1>6. /\ FromFirst(sent) => FromFirst(q)
      /\ NoAsk(sent) <=> NoAsk(q)
      /\ \A k : Asks(sent, k) => Asks(q, k)
      /\ Final(sent, w) => Final(q, w)
  BY <1>3 DEF FromFirst, NoAsk, Asks, Final
<1> QED  BY <1>4, <1>5, <1>6

LEMMA OrderlyBefore ==
    ASSUME PageInv, [Next]_vars, Orderly'
    PROVE  Orderly
BY DEF Orderly, PageInv, TypeOK, Next, User, StartSearch, TurnPage, OpenProjects, Tick,
       Reply, Script, SearchStarted, Polled, FailedLoaded, PageLoaded, Apply, Server,
       SearchPackages, FindDependencies, GetPackagesBySearch, GetFailedRepositories, Answer,
       RequestFails, Progress, vars, historyVars

LEMMA Asked ==
    ASSUME NEW kind \in Kind, NEW s \in Search, NEW p \in Page
    PROVE  /\ Ask(kind, s, p) \in Request /\ Ask(kind, s, p).kind = kind
           /\ Ask(kind, s, p).search = s /\ Ask(kind, s, p).page = p
           /\ Ask(kind, s, p).reply = Unanswered
BY DEF Ask, Request

\* What the steps below start from.
Known ==
    /\ sent \in Seq(Request) /\ wanted \in Search \cup {None}
    /\ searchId \in Search \cup {None} /\ packagesPage \in Page /\ 1 \in Page
    /\ timer \in BOOLEAN
    /\ leaked = 0 /\ OneAsk(sent) /\ (timer => NoAsk(sent) /\ searchId \in Search)
    /\ \A i \in 1..Len(sent) :
           /\ sent[i] \in Request /\ sent[i].search \in Search
           /\ sent[i].kind # "search" => searchId \in Search
    /\ WholeInv
    /\ InOrder /\ (AtRest => Rested)

LEMMA KnownHere ==
    ASSUME PageInv, CalmInv, WholeInv, ShowInv, Orderly
    PROVE  Known
<1>1. \A i \in 1..Len(sent) : sent[i] \in Request /\ sent[i].search \in Search
  <2> SUFFICES ASSUME NEW i \in 1..Len(sent)
               PROVE  sent[i] \in Request /\ sent[i].search \in Search
    OBVIOUS
  <2>1. sent[i] \in Request /\ sent[i].search # None
    BY DEF PageInv, TypeOK
  <2> QED  BY <2>1 DEF Request
<1> QED
  BY <1>1, FirstPage DEF Known, PageInv, TypeOK, CalmInv, ShowInv, Orderly

LEMMA ShowUser ==
    ASSUME Known, User, ~hasty'
    PROVE  (InOrder /\ (AtRest => Rested))'
<1> USE DEF Known
<1> PICK q : q = sent'
  OBVIOUS
<1>1. CASE \E s \in Search : StartSearch(s)
  <2> PICK s \in Search : StartSearch(s)
    BY <1>1
  <2> DEFINE r == Ask("search", s, 1)
  <2>1. /\ r \in Request /\ r.kind = "search" /\ r.search = s
        /\ r.reply = Unanswered
    BY Asked DEF Kind
  <2>2. NoAsk(sent) /\ wanted' = s /\ stage' = stage /\ q = Append(sent, r)
    BY DEF StartSearch, NoAsk
  <2> HIDE DEF r
  <2>3. /\ Fifo(q) /\ AskedFor(q, s) /\ Later(q, stage) /\ FromFirst(q) /\ ~NoAsk(q)
    BY <2>1, <2>2, SendLast DEF InOrder
  <2> QED  BY <2>2, <2>3 DEF InOrder, AtRest
<1>2. CASE \E p \in Page : TurnPage(p)
  <2> PICK p \in Page : TurnPage(p)
    BY <1>2
  <2>1. UNCHANGED <<stage, searchId, searchStatus, packages, failedRepos, timer, wanted, left,
                    torn>>
    BY DEF TurnPage
  <2>2. CASE searchId = None
    <3>1. sent' = sent
      BY <2>2 DEF TurnPage
    <3>2. ~(NoAsk(sent) /\ wanted # None)
      BY <2>2 DEF InOrder
    <3> QED  BY <2>1, <3>1, <3>2 DEF InOrder, AtRest
  <2>3. CASE searchId # None
    <3> DEFINE r == Ask("page", searchId, p)
    <3>1. /\ r \in Request /\ r.kind = "page" /\ r.search = searchId
          /\ r.reply = Unanswered
      BY <2>3, Asked DEF Kind
    <3>2. q = Append(sent, r)
      BY <2>3 DEF TurnPage
    <3> HIDE DEF r
    <3>3. /\ Fifo(q) /\ AskedFor(q, wanted) /\ Later(q, stage) /\ FromFirst(q)
          /\ NoAsk(q) => NoAsk(sent)
          /\ Polls(sent, searchId) => Polls(q, searchId)
          /\ Final(sent, searchId) => Final(q, searchId)
          /\ Asks(q, "page") /\ (Asks(sent, "failed") => Asks(q, "failed"))
      BY <3>1, <3>2, SendLast DEF InOrder
    <3>4. NoAsk(q) /\ wanted # None => searchId = wanted /\ Polls(q, wanted)
      BY <3>3 DEF InOrder
    <3>5. InOrder'
      BY <2>1, <3>3, <3>4 DEF InOrder
    <3>6. ASSUME AtRest'
          PROVE  Rested'
      <4>1. AtRest /\ Rested /\ searchId = wanted
        BY <2>1, <3>3, <3>4, <3>6 DEF AtRest
      <4> QED  BY <2>1, <3>3, <4>1 DEF Rested
    <3> QED  BY <3>5, <3>6
  <2> QED  BY <2>2, <2>3
<1>3. CASE OpenProjects
  BY <1>3 DEF OpenProjects, InOrder, AtRest
<1> QED  BY <1>1, <1>2, <1>3 DEF User

LEMMA ShowTick ==
    ASSUME Known, Tick
    PROVE  (InOrder /\ (AtRest => Rested))'
<1> USE DEF Known
<1> DEFINE r == Ask("packages", searchId, packagesPage)
<1> PICK q : q = sent'
  OBVIOUS
<1>1. timer /\ NoAsk(sent) /\ searchId \in Search
      /\ UNCHANGED <<stage, searchId, timer, wanted>>
  BY DEF Tick, pageVars, historyVars
<1>2. /\ r \in Request /\ r.kind = "packages" /\ r.search = searchId
      /\ r.reply = Unanswered
  BY <1>1, Asked DEF Kind
<1>3. q = Append(sent, r)
  BY DEF Tick
<1> HIDE DEF r
<1>4. /\ Fifo(q) /\ AskedFor(q, wanted) /\ Later(q, stage) /\ FromFirst(q)
      /\ Polls(sent, searchId) => Polls(q, searchId)
  BY <1>1, <1>2, <1>3, SendLast DEF InOrder
<1>5. wanted # None => searchId = wanted /\ Polls(q, wanted)
  BY <1>1, <1>4 DEF InOrder
<1> QED  BY <1>1, <1>4, <1>5 DEF InOrder, AtRest

LEMMA ShowServer ==
    ASSUME Known, PageInv, stage \in [Search -> Stage], NEW i \in 1..Len(sent), Server(i),
           ~FindDependencies(i), ~reordered'
    PROVE  (InOrder /\ (AtRest => Rested))'
<1> USE DEF Known
<1>1. PICK s \in Stage :
          /\ Answer(i, s)
          /\ \/ sent[i].kind = "search" /\ s = 0
             \/ sent[i].kind # "search" /\ s = stage[sent[i].search]
  BY ServerAnswers
<1>2. \A x \in Search : stage[x] = Completed => stage'[x] = Completed
  BY CompletedAssumption
  DEF Server, SearchPackages, GetPackagesBySearch, GetFailedRepositories, PageInv, TypeOK
<1>3. stage'[sent[i].search] = Completed \/ s # Completed
  BY <1>1, <1>2, CompletedAssumption
<1>4. UNCHANGED <<searchId, searchStatus, packages, packagesPage, failedRepos, timer,
                  wanted, left>>
  BY <1>1 DEF Answer, pageVars, historyVars
<1> PICK q : q = sent'
  OBVIOUS
<1> PICK st : st = stage'
  OBVIOUS
<1>5. /\ Fifo(q) /\ AskedFor(q, wanted) /\ Later(q, st) /\ FromFirst(q)
      /\ Polls(sent, wanted) => Polls(q, wanted)
      /\ NoAsk(q) <=> NoAsk(sent)
      /\ \A k : Asks(sent, k) => Asks(q, k)
      /\ NoAsk(sent) /\ Final(sent, wanted) /\ stage[wanted] = Completed => Final(q, wanted)
  BY <1>1, <1>2, <1>3, AnswerNext DEF InOrder
<1>6. InOrder'
  BY <1>4, <1>5 DEF InOrder
<1>7. torn => torn'
  BY DEF Server, SearchPackages, GetPackagesBySearch, GetFailedRepositories
<1>8. ASSUME AtRest'
      PROVE  Rested'
  <2>1. AtRest /\ Rested /\ NoAsk(sent) /\ wanted \in Search
    BY <1>4, <1>5, <1>8 DEF AtRest
  <2>2. stage'[wanted] = Completed /\ Final(q, wanted)
    BY <1>2, <1>5, <2>1 DEF Rested
  <2> QED  BY <1>4, <1>5, <1>7, <2>1, <2>2 DEF Rested
<1> QED  BY <1>6, <1>8

LEMMA ShowRead ==
    ASSUME Known, PageInv, NEW i \in 1..Len(sent), FindDependencies(i)
    PROVE  (InOrder /\ (AtRest => Rested))'
<1> USE DEF Known
<1>1. UNCHANGED <<stage, searchId, searchStatus, packages, packagesPage, failedRepos, timer,
                  wanted, left, torn>>
  BY DEF FindDependencies, pageVars, historyVars
<1> PICK q : q = sent'
  OBVIOUS
<1>2. stage \in [Search -> Stage]
  BY DEF PageInv, TypeOK
<1>3. /\ Fifo(q) /\ AskedFor(q, wanted) /\ Later(q, stage) /\ FromFirst(q)
      /\ Polls(sent, wanted) => Polls(q, wanted)
      /\ NoAsk(q) <=> NoAsk(sent)
      /\ \A k : Asks(sent, k) => Asks(q, k)
      /\ Final(sent, wanted) => Final(q, wanted)
  BY <1>2, ReadNext DEF InOrder
<1>4. InOrder'
  BY <1>1, <1>3 DEF InOrder
<1>5. ASSUME AtRest'
      PROVE  Rested'
  <2>1. AtRest /\ Rested
    BY <1>1, <1>3, <1>5 DEF AtRest
  <2> QED  BY <1>1, <1>3, <2>1 DEF Rested
<1> QED  BY <1>4, <1>5

LEMMA ShowScript ==
    ASSUME Known, NEW i \in 1..Len(sent), Script(i), ~reordered'
    PROVE  (InOrder /\ (AtRest => Rested))'
<1> USE DEF Known
<1>1. i = 1 /\ sent[1].reply \in Stage /\ UNCHANGED <<stage, wanted, left, torn>>
  <2>1. /\ reordered' = (reordered \/ i > 1) /\ sent[i].reply \in Stage
        /\ UNCHANGED <<stage, wanted, left, torn>>
    BY DEF Script, SearchStarted, Polled, FailedLoaded, PageLoaded, Apply, historyVars
  <2>2. ~(i > 1)
    BY <2>1
  <2>3. i = 1
    BY <2>2
  <2> QED  BY <2>1, <2>3
<1>2. 1 \in 1..Len(sent) /\ sent[1] \in Request /\ sent[1].search \in Search
      /\ (sent[1].kind # "search" => searchId \in Search)
  BY <1>1
<1> PICK q : q = Without(1)
  OBVIOUS
<1> PICK a : a = sent'
  OBVIOUS
<1>3. /\ q \in Seq(Request)
      /\ Fifo(q) /\ AskedFor(q, wanted) /\ Later(q, stage) /\ FromFirst(q)
      /\ Polls(sent, wanted) => Polls(q, wanted)
      /\ Final(sent, wanted) => Final(q, wanted)
      /\ sent[1].kind # "search" => (NoAsk(q) <=> NoAsk(sent))
      /\ \A k : sent[1].kind # k /\ Asks(sent, k) => Asks(q, k)
      /\ sent[1].kind = "search" => ~Asks(q, "packages")
  BY <1>2, DropFirst DEF InOrder
<1>4. CASE SearchStarted(1)
  <2> DEFINE r == Ask("packages", sent[1].search, packagesPage)
  <2>1. sent[1].kind = "search" /\ timer' = TRUE /\ searchId' = sent[1].search
        /\ sent[1].search = wanted
    BY <1>2, <1>4 DEF SearchStarted, Apply, InOrder, AskedFor
  <2>2. /\ r \in Request /\ r.kind = "packages" /\ r.search = wanted
        /\ r.reply = Unanswered
    BY <1>2, <2>1, Asked DEF Kind
  <2>3. a = Append(q, r)
    BY <1>4 DEF SearchStarted
  <2> HIDE DEF r
  <2>4. NoAsk(q)
    BY <1>2, <2>1, WithoutAsk
  <2>5. /\ Fifo(a) /\ AskedFor(a, wanted) /\ Later(a, stage) /\ FromFirst(a)
        /\ Polls(a, wanted)
    BY <1>3, <2>1, <2>2, <2>3, <2>4, SendLast
  <2> QED  BY <1>1, <2>1, <2>5 DEF InOrder, AtRest
<1>5. CASE Polled(1)
  <2> DEFINE r == Ask("failed", searchId, 1)
  <2>1. /\ sent[1].kind = "packages" /\ searchId' = searchId
        /\ timer' = IF sent[1].reply = Completed THEN FALSE ELSE timer
        /\ searchStatus' = sent[1].reply
        /\ packages' = Answered(1, sent[1].rows) /\ packagesPage' = sent[1].page
    BY <1>5 DEF Polled, Apply, StopPolling
  <2>2. /\ r \in Request /\ r.kind = "failed" /\ r.search = searchId /\ r.page = 1
        /\ r.reply = Unanswered
    BY <1>2, <2>1, Asked DEF Kind
  <2>3. a = Append(q, r)
    BY <1>5 DEF Polled
  <2> HIDE DEF r
  <2>4. /\ Fifo(a) /\ AskedFor(a, wanted) /\ Later(a, stage) /\ FromFirst(a)
        /\ Polls(q, searchId) => Polls(a, searchId)
        /\ Final(q, searchId) => Final(a, searchId)
        /\ NoAsk(a) => NoAsk(q)
        /\ Asks(a, "failed")
    BY <1>3, <2>2, <2>3, SendLast
  <2>5. NoAsk(a) => NoAsk(sent)
    BY <1>3, <2>1, <2>4
  <2>6. NoAsk(a) /\ wanted # None => searchId = wanted /\ Polls(a, wanted)
    BY <1>3, <2>4, <2>5 DEF InOrder
  <2>7. InOrder'
    BY <1>1, <2>1, <2>4, <2>6 DEF InOrder
  <2>8. ASSUME AtRest'
        PROVE  Rested'
    <3>1. NoAsk(sent) /\ searchId = wanted /\ wanted # None /\ ~left /\ Polls(sent, wanted)
      BY <1>1, <2>5, <2>8 DEF AtRest, InOrder
    <3>2. sent[1].reply = Completed
      <4>1. CASE timer
        BY <2>1, <2>8, <4>1 DEF AtRest
      <4>2. CASE ~timer
        <5>1. Final(sent, wanted)
          BY <3>1, <4>2 DEF AtRest, Rested
        <5> QED  BY <1>1, <1>2, <5>1, StagesKnown DEF Final
      <4> QED  BY <4>1, <4>2
    <3>3. \A j \in 1..Len(sent) : 1 <= j /\ (j # 1 => 1 < j)
      OBVIOUS
    <3>4. \A j \in 1..Len(sent) : sent[j].search = wanted
      BY <1>2, <2>1, <3>1, <3>3 DEF Polls
    <3>5. stage[wanted] = Completed
      BY <1>2, <3>2, <3>4 DEF InOrder, Later
    <3>6. \A j \in 1..Len(sent) : sent[j].reply \in {Unanswered, Completed}
      <4> SUFFICES ASSUME NEW j \in 1..Len(sent), sent[j].reply # Unanswered
                   PROVE  sent[j].reply = Completed
        OBVIOUS
      <4>1. sent[j] \in Request /\ sent[j].kind # "search"
        BY <3>1 DEF NoAsk
      <4>2. sent[j].reply \in Stage
        BY <4>1 DEF Request
      <4>3. sent[j].search = sent[1].search
        BY <1>2, <3>4
      <4> QED  BY <1>2, <3>2, <3>3, <4>1, <4>2, <4>3 DEF InOrder, Later
    <3>7. Final(a, wanted)
      <4>1. Final(sent, wanted)
        BY <3>4, <3>6 DEF Final
      <4> QED  BY <1>3, <2>4, <3>1, <4>1
    <3>8. /\ packages'.search = wanted /\ (torn' \/ packages'.stage = Completed)
          /\ packages'.page = packagesPage'
      BY <1>1, <1>2, <2>1, <3>2, <3>4 DEF Answered, WholeInv, Whole
    <3> QED  BY <1>1, <2>1, <2>4, <3>2, <3>5, <3>7, <3>8 DEF Rested
  <2> QED  BY <2>7, <2>8
<1>6. CASE FailedLoaded(1) \/ PageLoaded(1)
  <2>1. /\ sent[1].kind \in {"failed", "page"} /\ a = q
        /\ UNCHANGED <<searchId, searchStatus, timer>>
    BY <1>6 DEF FailedLoaded, PageLoaded, Apply
  <2>2. NoAsk(a) <=> NoAsk(sent)
    BY <1>3, <2>1
  <2>3. InOrder'
    BY <1>1, <1>3, <2>1, <2>2 DEF InOrder
  <2>4. ASSUME AtRest'
        PROVE  Rested'
    <3>1. AtRest /\ Rested
      BY <1>1, <2>1, <2>2, <2>4 DEF AtRest
    <3>2. sent[1].search = wanted /\ sent[1].reply = Completed
      BY <1>1, <1>2, <3>1, StagesKnown DEF Rested, Final
    <3>3. Final(a, wanted)
      BY <1>3, <2>1, <3>1 DEF Rested
    <3>4. CASE FailedLoaded(1)
      <4>1. /\ sent[1].kind = "failed" /\ failedRepos' = Answered(1, sent[1].reply)
            /\ UNCHANGED <<packages, packagesPage>>
        BY <3>4 DEF FailedLoaded, Apply
      <4>2. sent[1].page = 1
        BY <1>2, <4>1 DEF InOrder, FromFirst
      <4>3. failedRepos' = [search |-> wanted, page |-> 1, stage |-> Completed]
        BY <3>2, <4>1, <4>2 DEF Answered
      <4>4. Asks(sent, "page") => Asks(a, "page")
        BY <1>3, <2>1, <4>1
      <4> QED  BY <1>1, <2>1, <3>1, <3>3, <4>1, <4>3, <4>4 DEF Rested
    <3>5. CASE PageLoaded(1)
      <4>1. /\ sent[1].kind = "page" /\ packages' = Answered(1, sent[1].rows)
            /\ packagesPage' = sent[1].page /\ UNCHANGED failedRepos
        BY <3>5 DEF PageLoaded, Apply
      <4>2. /\ packages'.search = wanted /\ (torn' \/ packages'.stage = Completed)
            /\ packages'.page = packagesPage'
        BY <1>1, <1>2, <3>2, <4>1 DEF Answered, WholeInv, Whole
      <4>3. Asks(sent, "failed") => Asks(a, "failed")
        BY <1>3, <2>1, <4>1
      <4> QED  BY <1>1, <2>1, <3>1, <3>3, <4>1, <4>2, <4>3 DEF Rested
    <3> QED  BY <1>6, <3>4, <3>5
  <2> QED  BY <2>3, <2>4
<1> QED  BY <1>1, <1>4, <1>5, <1>6 DEF Script

LEMMA ShowFails ==
    ASSUME Known, NEW i \in 1..Len(sent), RequestFails(i), Orderly'
    PROVE  (InOrder /\ (AtRest => Rested))'
<1> USE DEF Known
<1>1. /\ i = 1 /\ sent[1].kind = "packages"
      /\ UNCHANGED <<stage, pageVars, wanted, hasty, left, torn>>
  <2>1. /\ reordered' = (reordered \/ i > 1) /\ broken' = broken \cup {sent[i].kind}
        /\ UNCHANGED <<stage, pageVars, wanted, hasty, left, torn>>
    BY DEF RequestFails
  <2>2. ~reordered' /\ broken' \subseteq {"packages"}
    BY DEF Orderly
  <2>3. ~(i > 1) /\ sent[i].kind \in {"packages"}
    BY <2>1, <2>2
  <2>4. i = 1
    BY <2>3
  <2> QED  BY <2>1, <2>3, <2>4
<1> PICK q : q = sent'
  OBVIOUS
<1>2. q = Without(1) /\ 1 \in 1..Len(sent)
  BY <1>1 DEF RequestFails
<1>3. /\ Fifo(q) /\ AskedFor(q, wanted) /\ Later(q, stage) /\ FromFirst(q)
      /\ Polls(sent, wanted) => Polls(q, wanted)
      /\ Final(sent, wanted) => Final(q, wanted)
      /\ NoAsk(q) <=> NoAsk(sent)
      /\ Asks(sent, "page") => Asks(q, "page")
      /\ Asks(sent, "failed") => Asks(q, "failed")
  BY <1>1, <1>2, DropFirst DEF InOrder
<1>4. InOrder'
  BY <1>1, <1>3 DEF InOrder, pageVars
<1>5. ASSUME AtRest'
      PROVE  Rested'
  <2>1. AtRest /\ Rested
    BY <1>1, <1>3, <1>5 DEF AtRest, pageVars
  <2> QED  BY <1>1, <1>3, <2>1 DEF Rested, pageVars
<1> QED  BY <1>4, <1>5

LEMMA ShowProgress ==
    ASSUME Known, stage \in [Search -> Stage], NEW s \in Search, Progress(s)
    PROVE  (InOrder /\ (AtRest => Rested))'
<1> USE DEF Known
<1>1. UNCHANGED <<sent, pageVars, historyVars, torn>>
  BY DEF Progress
<1>2. \A x \in Search : stage[x] = Completed => stage'[x] = Completed
  BY CompletedAssumption DEF Progress
<1> PICK st : st = stage'
  OBVIOUS
<1>3. Later(sent, st)
  BY <1>2 DEF InOrder, Later
<1>4. InOrder'
  BY <1>1, <1>3 DEF InOrder, pageVars, historyVars
<1>5. AtRest' => Rested'
  BY <1>1, <1>2 DEF AtRest, Rested, pageVars, historyVars
<1> QED  BY <1>4, <1>5

LEMMA ShowStep ==
    ASSUME PageInv, CalmInv, WholeInv, ShowInv, [Next]_vars
    PROVE  ShowInv'
<1> SUFFICES ASSUME Orderly'
             PROVE  (InOrder /\ (AtRest => Rested))'
  BY DEF ShowInv
<1>1. Known /\ stage \in [Search -> Stage] /\ ~hasty' /\ ~reordered'
  BY OrderlyBefore, KnownHere DEF Orderly, PageInv, TypeOK
<1>2. CASE User
  BY <1>1, <1>2, ShowUser
<1>3. CASE Tick
  BY <1>1, <1>3, ShowTick
<1>4. CASE \E i \in 1..Len(sent) : Script(i)
  BY <1>1, <1>4, ShowScript
<1>5. CASE \E i \in 1..Len(sent) : Server(i)
  BY <1>1, <1>5, ShowRead, ShowServer
<1>6. CASE \E i \in 1..Len(sent) : RequestFails(i)
  BY <1>1, <1>6, ShowFails
<1>7. CASE \E s \in Search : Progress(s)
  BY <1>1, <1>7, ShowProgress
<1>8. CASE UNCHANGED vars
  BY <1>1, <1>8 DEF vars, pageVars, historyVars, Known, InOrder, AtRest, Rested
<1> QED  BY <1>2, <1>3, <1>4, <1>5, <1>6, <1>7, <1>8 DEF Next, Reply

\* A page at rest shows the completed search that was asked for last, its final
\* rows and failures, for any number of requests in flight, polls that fail and
\* pages turned meanwhile, given a network in order and a patient user; its
\* rows are the final ones unless a search was completed between the rows and the
\* status of an answer.
THEOREM FinalIsShownCorrect == Spec => []FinalIsShown
<1>1. Init => PageInv /\ CalmInv /\ WholeInv /\ ShowInv
  <2> SUFFICES ASSUME Init
               PROVE  PageInv /\ CalmInv /\ WholeInv /\ ShowInv
    OBVIOUS
  <2>1. PageInv /\ CalmInv
    BY InitPage DEF Init, CalmInv, OneAsk, NoAsk
  <2>2. sent = << >> /\ wanted = None /\ Len(<< >>) = 0
    BY DEF Init
  <2>3. WholeInv /\ ShowInv
    BY <2>2 DEF WholeInv, Whole, ShowInv, InOrder, AtRest, Fifo, AskedFor, Later, FromFirst
  <2> QED  BY <2>1, <2>3
<1>2. PageInv /\ CalmInv /\ WholeInv /\ ShowInv /\ [Next]_vars
      => (PageInv /\ CalmInv /\ WholeInv /\ ShowInv)'
  BY PageInvStep, CalmStep, WholeStep, ShowStep
<1>3. PageInv /\ ShowInv => FinalIsShown
  <2> SUFFICES ASSUME PageInv, ShowInv, Quiet, wanted # None, ~left, Orderly
               PROVE  /\ searchStatus = Completed
                      /\ packages.search = wanted /\ packages.page = packagesPage
                      /\ ~torn => packages.stage = Completed
                      /\ failedRepos = [search |-> wanted, page |-> 1,
                                        stage |-> Completed]
    BY DEF FinalIsShown, Orderly
  <2>1. \A k : ~Asks(sent, k)
    BY DEF Quiet, Asks
  <2>2. AtRest
    BY DEF Quiet, AtRest, NoAsk
  <2>3. Rested
    BY <2>2 DEF ShowInv
  <2> QED  BY <2>1, <2>3 DEF Rested
<1> QED  BY <1>1, <1>2, <1>3, PTL DEF Spec

=============================================================================
