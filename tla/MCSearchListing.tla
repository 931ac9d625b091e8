-------------------------- MODULE MCSearchListing --------------------------
(* A small instance of SearchListing for TLC.                              *)
EXTENDS SearchListing

CONSTANTS go, npm, main, dev, fix

\* Projects 1 to 4 of 5, of which 4 has no type and 1 is not for npm.  One
\* branch more for project 3, and its id is cut to that of project 2's; one more
\* for project 4, and it is paired with the second row of another.
SomeTypes == <<{go}, {npm}, {npm, go}, {}>>
SomeRows == {[id |-> 1, project |-> 2, name |-> main],
             [id |-> 9, project |-> 3, name |-> main],
             [id |-> 10, project |-> 3, name |-> dev],
             [id |-> 11, project |-> 4, name |-> main],
             [id |-> 12, project |-> 4, name |-> main]}
SomeContain == {<<2, main>>, <<3, dev>>, <<3, fix>>, <<4, dev>>}

=============================================================================
