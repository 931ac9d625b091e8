SPECIFICATION FairProcessSpec
CONSTANTS
    r1 = r1  r2 = r2
    w1 = w1  w2 = w2
    lodash = lodash
    SearchID = {1}
    Branch = {1, 2, 3}
    Request = {r1, r2}
    Worker = {w1, w2}
    Package = {lodash}
    PkgOf <- OnePackage
    Catalog <- Catalog2
    PageSize = 1
    Contains <- Somewhere
    KnownDeps <- NoneKnown
    MaxFaults = 1
    MaxExpiries = 0
    MaxSignals = 1
INVARIANTS
    OneOwner
    LossBound
    DrainedIsServed
PROPERTIES
    QueuedLeaves
    StopEnds
