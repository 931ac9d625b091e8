--------------------------- MODULE MCProjectsSync ---------------------------
(* Small instances of ProjectsSync for TLC.                                *)
EXTENDS ProjectsSync

CONSTANTS main, dev, go, npm, c1, c2

\* All projects have the default branch main.
AllMain == [p \in Project |-> main]
\* The newest project is listed first, and a fourth may come.
Listing321 == <<3, 2, 1>>
\* Project 1 has two package types, project 3 one, the others none.
SomeTypes == [p \in Project |-> CASE p = 1 -> {go, npm} [] p = 3 -> {npm} [] OTHER -> {}]
\* Project 1 gives up go, project 2 takes it up, project 3 becomes unsupported.
LaterTypes == [p \in Project |-> CASE p = 1 -> {npm} [] p = 2 -> {go} [] OTHER -> {}]

=============================================================================
