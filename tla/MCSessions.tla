----------------------------- MODULE MCSessions -----------------------------
(***************************************************************************)
(* Instances of sessions and the console for TLC.                          *)
(***************************************************************************)
EXTENDS Sessions, TLC

Interchangeable ==
  Permutations(Requests) \union Permutations(Refreshes) \union Permutations(SignIns)
=============================================================================
