---------------------------- MODULE MCBranchScan ----------------------------
(* A small instance of BranchScan for TLC.                                 *)
EXTENDS BranchScan

\* Blob i of an answer states version i for the package, perhaps after another
\* version for something else; or it names the package and shows only the other
\* version; or only a longer name.
V == <<"v1", "v2", "v3">>
Files == [composer |-> {"composer.json", "composer.lock", "README.md"},
          go |-> {"go.mod", "go.sum", "package.json"},
          npm |-> {"package.json", "package-lock.json", "yarn.lock", "bun.lock"},
          pip |-> {"README.md"}]
BlobsAt(t, i) ==
    [file : Files[t], named : {TRUE}, own : {V[i]}, first : {V[i], "other"}] \cup
    [file : Files[t], named : BOOLEAN, own : {None}, first : {"other"}]

Scan(t, hits) == [type |-> t, hits |-> hits]
Second == {Scan("go", <<[file |-> "go.mod", named |-> TRUE, own |-> V[1], first |-> V[1]]>>),
           Scan("npm", <<[file |-> "yarn.lock", named |-> FALSE, own |-> None, first |-> V[1]]>>)}

\* Every answer of up to three blobs, and then one branch more.
Answers(t) ==
    {<< >>}
    \cup {<<x>> : x \in BlobsAt(t, 1)}
    \cup {<<x, y>> : x \in BlobsAt(t, 1), y \in BlobsAt(t, 2)}
    \cup {<<x, y, z>> : x \in BlobsAt(t, 1), y \in BlobsAt(t, 2), z \in BlobsAt(t, 3)}
Scanned(t) == {<<Scan(t, hits), last>> : hits \in Answers(t), last \in Second}
TwoScans == Scanned("composer") \cup Scanned("go") \cup Scanned("npm") \cup Scanned("pip")

=============================================================================
