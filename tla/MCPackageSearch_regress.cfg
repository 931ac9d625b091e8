SPECIFICATION Spec
CONSTANTS
    r1 = r1  r2 = r2  r3 = r3
    w1 = w1  w2 = w2
    lodash = lodash  react = react
    SearchID = {1}
    Branch = {1, 2, 3}
    Request = {r1, r2}
    Worker = {w1, w2}
    Package = {lodash, react}
    PkgOf <- TwoPackages
    Catalog <- Catalog3
    PageSize = 2
    Contains <- Everywhere
    KnownDeps <- NoneKnown
    MaxFaults = 0
    MaxExpiries = 0
PROPERTIES
    StatusNeverRegresses
