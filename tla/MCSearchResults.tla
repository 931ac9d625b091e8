-------------------------- MODULE MCSearchResults --------------------------
(* Small instances of SearchResults for TLC.                               *)
EXTENDS SearchResults

CONSTANTS r1, r2, w1, c1, lodash, react, vue

\* Search 1 asks for a version of lodash, search 2 for any of react.
TwoPackages == [s \in SearchID |-> IF s = 1 THEN lodash ELSE react]
\* Search 3 asks for vue, which an earlier search has found.
ThreePackages ==
    [s \in SearchID |-> CASE s = 1 -> lodash [] s = 2 -> react [] s = 3 -> vue]

\* Two projects on two pages of one, with three branches.
Catalog2 == << <<1, 2>>, <<3>> >>

\* lodash is on every branch, in a version that suits on 1 and 3; react is on
\* two, vue on one.
Somewhere == ({lodash} \X Branch) \cup ({react} \X {2, 3})
Anywhere == Somewhere \cup ({vue} \X {1})
Suits == {<<1, 1>>, <<1, 3>>}
NoneKnown == {}
VueKnown == {vue} \X {1}

=============================================================================
