---------------------------- MODULE Marketplace ----------------------------
(***************************************************************************)
(* What the order service promises, with no request, document or database  *)
(* call in sight: a vehicle on the market is claimed by one order at a     *)
(* time, the claim ends in a release or in a sale, an order that has let   *)
(* go never comes back, and a sale is final.  Orders.tla implements this.  *)
(***************************************************************************)
CONSTANTS
  Vehicles,   \* the listings
  Orders,     \* every order that may ever be placed
  None        \* "no order"; not a member of Orders

VARIABLES
  stage,      \* per vehicle: "free", "held" or "sold"
  holder,     \* per vehicle: the order that claimed or bought it, or None
  released    \* the orders that have given their vehicle back

marketVars == <<stage, holder, released>>

\* An order is fresh until it claims a vehicle, and once more never after it.
Fresh(o) == o \notin released /\ \A v \in Vehicles : holder[v] # o

MarketInit ==
  /\ stage = [v \in Vehicles |-> "free"]
  /\ holder = [v \in Vehicles |-> None]
  /\ released = {}

Claim(v, o) ==
  /\ stage[v] = "free"
  /\ Fresh(o)
  /\ stage' = [stage EXCEPT ![v] = "held"]
  /\ holder' = [holder EXCEPT ![v] = o]
  /\ UNCHANGED released

Release(v) ==
  /\ stage[v] = "held"
  /\ stage' = [stage EXCEPT ![v] = "free"]
  /\ holder' = [holder EXCEPT ![v] = None]
  /\ released' = released \union {holder[v]}

Sell(v) ==
  /\ stage[v] = "held"
  /\ stage' = [stage EXCEPT ![v] = "sold"]
  /\ UNCHANGED <<holder, released>>

MarketNext ==
  \E v \in Vehicles : (\E o \in Orders : Claim(v, o)) \/ Release(v) \/ Sell(v)

MarketSpec == MarketInit /\ [][MarketNext]_marketVars
=============================================================================
