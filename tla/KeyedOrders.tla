---------------------------- MODULE KeyedOrders -----------------------------
(***************************************************************************)
(* POST /orders with an Idempotency-Key: _replay_or_reserve and            *)
(* _store_idempotent_response (src/app/modules/orders/service.py) around   *)
(* the create_order of Orders.tla.                                         *)
(*                                                                         *)
(* A key stands for (user_id, endpoint, key), and the vehicle asked for    *)
(* stands for the whole request body and its fingerprint.  The indexes are *)
(* built, and a key's lifetime of 24 hours is longer than any request:     *)
(* its row does not expire here.                                           *)
(***************************************************************************)
EXTENDS Orders

CONSTANTS
  Keys,   \* idempotency keys; a request without one has None
  NoRow   \* no row

VARIABLES
  keyPc,  \* where each request is: around its key, or inside create_order
  keyOf,  \* the key each request came with
  body,   \* the body each request came with
  claim,  \* idempotency_keys collection: the row of each key, or NoRow
  reply   \* the order each request was answered with

keyVars == <<keyPc, keyOf, body, claim, reply>>
keyedVars == <<vehicle, order, version, wanted, creating, taskPc, job, indexed, abandons,
               keyPc, keyOf, body, claim, reply>>

KeyPc == {"new", "claim", "create", "answered", "refused", "abandoned"}

ASSUME KeysAssumption ==
  /\ StartIndexed = {TRUE}
  /\ None \notin Keys /\ NoRow \notin [body : Vehicles, response : Orders \union {None}]

KeyedInit ==
  /\ OrdersInit
  /\ keyPc = [o \in Orders |-> "new"]
  /\ keyOf = [o \in Orders |-> None]
  /\ body = [o \in Orders |-> None]
  /\ claim = [k \in Keys |-> NoRow]
  /\ reply = [o \in Orders |-> None]

MoveTo(o, pc) == keyPc' = [keyPc EXCEPT ![o] = pc]
Refuse(o) == MoveTo(o, "refused") /\ UNCHANGED reply

\* The request ends with order p as its answer.
Answer(o, p) == MoveTo(o, "answered") /\ reply' = [reply EXCEPT ![o] = p]

\* A request without a key goes straight to create_order.
Unkeyed(o, v) ==
  /\ keyPc[o] = "new"
  /\ body' = [body EXCEPT ![o] = v]
  /\ MoveTo(o, "create")
  /\ UNCHANGED <<orderVars, keyOf, claim, reply>>

\* Mutation of FindKey: the stored hash is not compared.
ReplayAnyBody(o, k, v) ==
  /\ keyPc[o] = "new"
  /\ keyOf' = [keyOf EXCEPT ![o] = k]
  /\ body' = [body EXCEPT ![o] = v]
  /\ \/ claim[k] = NoRow /\ MoveTo(o, "claim") /\ UNCHANGED reply
     \/ claim[k] # NoRow /\ claim[k].response = None /\ Refuse(o)
     \/ claim[k] # NoRow /\ claim[k].response # None /\ Answer(o, claim[k].response)
  /\ UNCHANGED <<orderVars, claim>>

\* The read of the key's row: a different body and a request in flight are refused, a
\* stored response is replayed.
FindKey(o, k, v) ==
  /\ keyPc[o] = "new"
  /\ keyOf' = [keyOf EXCEPT ![o] = k]
  /\ body' = [body EXCEPT ![o] = v]
  /\ \/ claim[k] = NoRow /\ MoveTo(o, "claim") /\ UNCHANGED reply
     \/ claim[k] # NoRow /\ (claim[k].body # v \/ claim[k].response = None) /\ Refuse(o)
     \/ /\ claim[k] # NoRow /\ claim[k].body = v /\ claim[k].response # None
        /\ Answer(o, claim[k].response)
  /\ UNCHANGED <<orderVars, claim>>

\* Mutation of ClaimKey: no unique index.
ClaimAnyway(o) ==
  /\ keyPc[o] = "claim"
  /\ claim' = [claim EXCEPT ![keyOf[o]] = [body |-> body[o], response |-> None]]
  /\ MoveTo(o, "create")
  /\ UNCHANGED <<orderVars, keyOf, body, reply>>

\* The insert of the key's row: uniq_scope_key refuses the loser of two.
ClaimKey(o) ==
  /\ keyPc[o] = "claim"
  /\ \/ /\ claim[keyOf[o]] = NoRow
        /\ claim' = [claim EXCEPT ![keyOf[o]] = [body |-> body[o], response |-> None]]
        /\ MoveTo(o, "create") /\ UNCHANGED reply
     \/ claim[keyOf[o]] # NoRow /\ Refuse(o) /\ UNCHANGED claim
  /\ UNCHANGED <<orderVars, keyOf, body>>

\* create_order proper.  Its refusals leave through an exception: the key's row stays.
Create(o) ==
  /\ keyPc[o] = "create"
  /\ ReadVehicle(o, body[o]) \/ CreateStep(o) \/ AbandonCreate(o)
  /\ UNCHANGED keyVars

\* Mutation of StoreResponse: stores the order's status for the order.
StoreStatus(o) ==
  /\ keyPc[o] = "create" /\ creating[o] = "done"
  /\ claim' = [k \in Keys |-> IF k = keyOf[o] THEN [claim[k] EXCEPT !.response = order[o]]
                              ELSE claim[k]]
  /\ Answer(o, o)
  /\ UNCHANGED <<orderVars, keyOf, body>>

\* The order stands: store the response, if there is a key, and answer.
StoreResponse(o) ==
  /\ keyPc[o] = "create" /\ creating[o] = "done"
  /\ claim' = [k \in Keys |-> IF k = keyOf[o] THEN [claim[k] EXCEPT !.response = o]
                              ELSE claim[k]]
  /\ Answer(o, o)
  /\ UNCHANGED <<orderVars, keyOf, body>>

\* The request ends between two calls on its key.
AbandonKey(o) ==
  /\ keyPc[o] = "claim" \/ (keyPc[o] = "create" /\ creating[o] \in {"idle", "done"})
  /\ abandons < MaxAbandons
  /\ abandons' = abandons + 1
  /\ MoveTo(o, "abandoned")
  /\ UNCHANGED <<docs, requests, tasks, indexed, keyOf, body, claim, reply>>

\* Orders move on meanwhile.
Transitions ==
  /\ \/ \E t \in Tasks, o \in Orders, s \in Targets : ReadOrder(t, o, s)
     \/ \E t \in Tasks : TaskStep(t) \/ AbandonTask(t)
  /\ UNCHANGED keyVars

KeyedNext ==
  \/ \E o \in Orders, v \in Vehicles : Unkeyed(o, v) \/ \E k \in Keys : FindKey(o, k, v)
  \/ \E o \in Orders : ClaimKey(o) \/ Create(o) \/ StoreResponse(o) \/ AbandonKey(o)
  \/ Transitions

KeyedSpec == KeyedInit /\ [][KeyedNext]_keyedVars

-----------------------------------------------------------------------------
\* Properties

\* Every variable stays in its type.
KeyedTypeOK ==
  /\ TypeOK
  /\ keyPc \in [Orders -> KeyPc]
  /\ keyOf \in [Orders -> Keys \union {None}]
  /\ body \in [Orders -> Vehicles \union {None}]
  /\ claim \in [Keys -> [body : Vehicles, response : Orders \union {None}] \union {NoRow}]
  /\ reply \in [Orders -> Orders \union {None}]

\* One key never creates two orders, however its requests race, die or are retried.
OneOrderPerKey ==
  \A o, p \in Orders :
    o # p /\ keyOf[o] = keyOf[p] /\ keyOf[o] # None => order[o] = Absent \/ order[p] = Absent

\* The order a request is answered with is one for the body it sent, created in full: a
\* replay never hands out an order that was, or is about to be, rolled back.
AnswerIsOrder ==
  \A o \in Orders :
    reply[o] # None =>
      LET p == reply[o] IN
        /\ order[p] # Absent /\ creating[p] = "done"
        /\ wanted[p] = body[o] /\ keyOf[p] = keyOf[o]
=============================================================================
