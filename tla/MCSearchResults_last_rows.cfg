SPECIFICATION ResultsSpec
CONSTANTS
    r1 = r1  r2 = r2
    w1 = w1
    c1 = c1
    lodash = lodash  react = react  vue = vue
    SearchID = {2}
    Branch = {1, 2, 3}
    Request = {r1}
    Worker = {w1}
    Package = {lodash, react}
    PkgOf <- TwoPackages
    Catalog <- Catalog2
    PageSize = 1
    Contains <- Somewhere
    KnownDeps <- NoneKnown
    MaxFaults = 0
    MaxExpiries = 0
    Client = {c1}
    Pages = {1, 2}
    Versioned = {}
    Accepts = {}
    ResultsPage = 1
    BatchSize = 2
INVARIANTS
    CompletedAnswerIsExact
