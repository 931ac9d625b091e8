SPECIFICATION FairResultsSpec
CONSTANTS
    r1 = r1  r2 = r2
    w1 = w1
    c1 = c1
    lodash = lodash  react = react  vue = vue
    SearchID = {1, 2, 3}
    Branch = {1, 2, 3}
    Request = {r1, r2}
    Worker = {w1}
    Package = {lodash, react, vue}
    PkgOf <- ThreePackages
    Catalog <- Catalog2
    PageSize = 1
    Contains <- Anywhere
    KnownDeps <- VueKnown
    MaxFaults = 0
    MaxExpiries = 0
    Client = {c1}
    Pages = {1, 2}
    Versioned = {1}
    Accepts <- Suits
    ResultsPage = 1
    BatchSize = 2
INVARIANTS
    ResultsTypeOK
    FinishedAnswerIsExact
    AnswerIsOfAMoment
    CompletedIsComplete
    NoSpuriousFailure
PROPERTIES
    PollingEnds
    StatusNeverRegresses
