SPECIFICATION Spec
CONSTANTS
    go = go  npm = npm
    main = main  dev = dev  fix = fix
    Project = {1, 2, 3, 4, 5}
    Name = {main, dev, fix}
    PackageType = {go, npm}
    SearchType = npm
    FirstTypes <- SomeTypes
    FirstRows <- SomeRows
    FirstID = 13
    PageSize = 2
    IdLimit = 2
    NameLimit = 3
    Containing <- SomeContain
    Matching = {1, 2, 3, 5}
    MaxWrites = 3
INVARIANTS
    TypeOK
    SearchDrifts
    ClientDrifts
    QueuedUnlessCut
    AttachedWhereFound
    OnlyGoneFail
CHECK_DEADLOCK FALSE
