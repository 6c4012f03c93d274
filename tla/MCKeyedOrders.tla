--------------------------- MODULE MCKeyedOrders ----------------------------
(***************************************************************************)
(* Instances of keyed order creation for TLC.                              *)
(***************************************************************************)
EXTENDS KeyedOrders, TLC

Interchangeable == Permutations(Orders) \union Permutations(Vehicles) \union Permutations(Keys)
=============================================================================
