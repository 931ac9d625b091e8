-------------------------- MODULE MCPackageSearch --------------------------
(* Small instances of PackageSearch for TLC.                               *)
EXTENDS SearchRefinement

CONSTANTS r1, r2, r3, w1, w2, lodash, react

\* Search 1 asks for lodash, search 2 for react.
TwoPackages == [s \in SearchID |-> IF s = 1 THEN lodash ELSE react]
\* Both searches ask for lodash, in two versions.
TwoVersions == [s \in SearchID |-> lodash]

\* Three projects on two pages: one with two branches, one with none.
Catalog3 == << << >>, <<1, 2>>, <<3>> >>

\* lodash is on every branch, react on one.
Everywhere == ({lodash} \X Branch) \cup ({react} \X {2})
NoneKnown == {}
ReactKnown == {react} \X {2}

=============================================================================
