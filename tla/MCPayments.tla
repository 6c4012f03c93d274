----------------------------- MODULE MCPayments -----------------------------
(***************************************************************************)
(* Instances of the payment service for TLC.                               *)
(***************************************************************************)
EXTENDS Payments, TLC

CONSTANTS c1, c2, h1, h2, s1

OneCheckout == {c1}
TwoCheckouts == {c1, c2}
TwoHandlers == {h1, h2}

\* The checkouts and the handlers, with an operator beside them or without.
WithStaff == {c1, c2, h1, h2, s1}
NoStaff == {c1, c2, h1, h2}

\* The two handlers are interchangeable, and so are the two checkouts.
Interchangeable == Permutations(TwoHandlers) \union Permutations(TwoCheckouts)

\* On a sale of 100 the default of 8% leaves the first seller's commission just thick
\* enough and the second's one too thin: no rate agreed, and a rate of nothing.
BoundaryTerms == {[expected |-> 92, bps |-> Unknown], [expected |-> 93, bps |-> 0]}

Cancel == {"CANCELLED"}

\* Everything but progress; only final outcomes; and a provider that also reports a
\* payment in progress.
SafetyKinds == {"succeeded", "failed", "refunded", "mispriced", "unhandled"}
FinalKinds == {"succeeded", "failed"}
ProgressKinds == {"processing", "succeeded"}
RetryKinds == {"processing", "succeeded", "failed"}
=============================================================================
