----------------------------- MODULE Commission -----------------------------
(***************************************************************************)
(* The split of a sale (src/app/modules/commissions/service.py) and the    *)
(* document the payment service books for it.  Amounts are whole francs,   *)
(* rates are in basis points.                                              *)
(***************************************************************************)
EXTENDS Integers

CONSTANTS
  DefaultBps,       \* default_commission_bps
  PaymentFeeBps,    \* payment_fee_bps
  PaymentFeeFixed,  \* payment_fee_fixed_minor
  Unknown           \* a listing's rate, or a figure, that is not there

ASSUME CommissionAssumption ==
  /\ {DefaultBps, PaymentFeeBps, PaymentFeeFixed} \subseteq Nat
  /\ Unknown \notin Int

\* "commission_bps or default": an agreed rate of nothing counts as none agreed.
CommissionBps(terms) == IF terms.bps \in {Unknown, 0} THEN DefaultBps ELSE terms.bps

MinimumCommission(gross, bps) == (gross * bps) \div 10000

\* Mutation of Splits: the agreed rate is not asked for.
SplitsThin(gross, expected, bps) == gross > 0 /\ expected \in 0..gross

\* calculate raises unless the sale covers what the seller expects and the agreed rate.
Splits(gross, expected, bps) ==
  /\ gross > 0
  /\ expected \in 0..gross
  /\ gross - expected >= MinimumCommission(gross, bps)

\* What calculate returns otherwise.
Breakdown(gross, expected, bps) ==
  LET fees == (gross * PaymentFeeBps) \div 10000 + PaymentFeeFixed IN
    [gross |-> gross, settlement |-> expected, commission |-> gross - expected,
     fees |-> fees, net |-> gross - expected - fees, bps |-> bps, status |-> "PENDING"]

Unallocated(gross) ==
  [gross |-> gross, settlement |-> Unknown, commission |-> Unknown, fees |-> Unknown,
   net |-> Unknown, bps |-> Unknown, status |-> "NEEDS_REVIEW"]

\* The row of a sale at this price under the seller's terms.
Document(gross, terms) ==
  IF Splits(gross, terms.expected, CommissionBps(terms))
  THEN Breakdown(gross, terms.expected, CommissionBps(terms))
  ELSE Unallocated(gross)

\* The row accounts for the whole sale, pays the seller exactly what was promised and
\* keeps at least the rate that applies, to the franc; or it is left to a person, and
\* then no split would have done both.
Balances(doc, gross, terms) ==
  LET bps == CommissionBps(terms) IN
    /\ doc.gross = gross
    /\ \/ /\ doc.status = "PENDING"
          /\ doc.settlement + doc.commission = gross
          /\ doc.settlement = terms.expected
          /\ doc.commission >= 0
          /\ 10000 * (doc.commission + 1) > gross * bps
          /\ doc.net + doc.fees = doc.commission
       \/ /\ doc.status = "NEEDS_REVIEW"
          /\ doc.settlement = Unknown
          /\ \/ gross <= 0 \/ terms.expected < 0 \/ terms.expected > gross
             \/ 10000 * (gross - terms.expected) < gross * bps
=============================================================================
