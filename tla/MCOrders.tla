------------------------------ MODULE MCOrders ------------------------------
(***************************************************************************)
(* Instances of the order service for TLC.                                 *)
(***************************************************************************)
EXTENDS Orders, TLC

\* Every status some caller or operator may ask for.
AllTargets == {"PAYMENT_PENDING", "PAID", "CANCELLED", "PROCESSING", "COMPLETED", "REFUNDED"}

\* Create requests are interchangeable, and so are transition calls.
Interchangeable == Permutations(Orders) \union Permutations(Tasks)
=============================================================================
