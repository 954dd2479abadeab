------------------------------ MODULE MCTrust ------------------------------
(***************************************************************************)
(* Instances of Trust for TLC.                                             *)
(***************************************************************************)
EXTENDS Trust

CONSTANTS n1, n2, n3, n4

Four == <<n1, n2, n3, n4>>

\* Pairs that were let down, that never met, and that were served.
AnyBalance == {-1, 0, 1}
============================================================================
