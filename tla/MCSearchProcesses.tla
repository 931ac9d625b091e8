------------------------- MODULE MCSearchProcesses -------------------------
(* Small instance of SearchProcesses for TLC.                              *)
EXTENDS SearchProcesses

CONSTANTS r1, r2, w1, w2, lodash

OnePackage == [s \in SearchID |-> lodash]

\* Two projects on two pages of one: one has two branches, one has one.
Catalog2 == << <<1, 2>>, <<3>> >>

\* Two of the branches have the package.
Somewhere == {lodash} \X {2, 3}
NoneKnown == {}

=============================================================================
