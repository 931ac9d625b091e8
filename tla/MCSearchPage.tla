---------------------------- MODULE MCSearchPage ----------------------------
(* A small instance of SearchPage for TLC.                                 *)
EXTENDS SearchPage
=============================================================================
