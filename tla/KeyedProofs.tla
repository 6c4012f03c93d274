---------------------------- MODULE KeyedProofs -----------------------------
(***************************************************************************)
(* Theorems about POST /orders under idempotency keys, for any number of   *)
(* keys, requests and vehicles, whichever requests die.                    *)
(***************************************************************************)
EXTENDS KeyedOrders, OrdersProofs

\* The types of the variables around the keys.
KeysTypeOK ==
  /\ keyPc \in [Orders -> KeyPc]
  /\ keyOf \in [Orders -> Keys \union {None}]
  /\ body \in [Orders -> Vehicles \union {None}]
  /\ claim \in [Keys -> [body : Vehicles, response : Orders \union {None}] \union {NoRow}]
  /\ reply \in [Orders -> Orders \union {None}]

\* create_order proper: it has begun only for a request that is past its key, works on
\* the body of that request, and has a document from its insert on.
CreationsOK ==
  \A o \in Orders :
    /\ keyPc[o] \in {"new", "claim"} => creating[o] = "idle" /\ reply[o] = None
    /\ keyPc[o] \in {"claim", "create"} => body[o] \in Vehicles
    /\ keyPc[o] = "new" => keyOf[o] = None
    /\ keyPc[o] = "claim" => keyOf[o] \in Keys
    /\ creating[o] # "idle" => wanted[o] = body[o]
    /\ creating[o] \in {"reserve", "rollback", "done"} => order[o] # Absent

\* The request is past its key and may create, or has created, an order.
Claimed(o) == keyPc[o] = "create" \/ creating[o] # "idle"

\* Whoever is past a key has its row, with the body it came with, and has it alone.
ClaimsOK ==
  \A o \in Orders :
    Claimed(o) /\ keyOf[o] # None =>
      /\ claim[keyOf[o]] # NoRow /\ claim[keyOf[o]].body = body[o]
      /\ \A p \in Orders : Claimed(p) /\ keyOf[p] = keyOf[o] => p = o

\* The order a row or a request was given is complete, and one for that key and body.
GivenOK(p, k, b) == creating[p] = "done" /\ keyOf[p] = k /\ wanted[p] = b

RepliesOK ==
  /\ \A k \in Keys : claim[k] # NoRow /\ claim[k].response # None =>
       GivenOK(claim[k].response, k, claim[k].body)
  /\ \A o \in Orders : reply[o] # None => GivenOK(reply[o], keyOf[o], body[o])

\* KeyedTypeOK, OneOrderPerKey and AnswerIsOrder made inductive.
KeyedInv == IndexInv /\ KeysTypeOK /\ CreationsOK /\ ClaimsOK /\ RepliesOK

LEMMA InitKeyedInv == KeyedInit => KeyedInv
<1> SUFFICES ASSUME KeyedInit PROVE KeyedInv
  OBVIOUS
<1>1. IndexInv
  BY InitIndexInv DEF KeyedInit
<1>2. KeysTypeOK
  BY DEF KeyedInit, KeysTypeOK, KeyPc
<1>3. CreationsOK /\ ClaimsOK /\ RepliesOK
  BY DEF KeyedInit, OrdersInit, CreationsOK, ClaimsOK, Claimed, RepliesOK
<1> QED BY <1>1, <1>2, <1>3 DEF KeyedInv

-----------------------------------------------------------------------------
\* Steps inside create_order and transition().

LEMMA CreateKeyedInv ==
  ASSUME KeyedInv, NEW o \in Orders, Create(o)
  PROVE  KeyedInv'
<1> USE DEF KeyedInv, keyVars
<1>1. body[o] \in Vehicles
  BY DEF Create, CreationsOK
<1>2. IndexInv'
  BY <1>1, ReadVehicleIndexInv, CreateStepIndexInv DEF Create
<1>3. UNCHANGED <<keyPc, keyOf, body, claim, reply>> /\ keyPc[o] = "create"
  BY DEF Create
<1>4. /\ \A p \in Orders \ {o} : /\ creating'[p] = creating[p] /\ wanted'[p] = wanted[p]
                                 /\ order'[p] = order[p]
      /\ creating[o] # "done" /\ creating'[o] # "idle"
      /\ wanted'[o] = body[o]
      /\ creating'[o] \in {"reserve", "rollback", "done"} => order'[o] # Absent
  BY DEF Create, ReadVehicle, CreateStep, InsertOrder, ReserveVehicle, RollBack,
         AbandonCreate, IndexInv, TypeOK, CreationsOK, docs, Absent
<1>5. KeysTypeOK'
  BY <1>3 DEF KeysTypeOK
<1>6. CreationsOK'
  BY <1>3, <1>4 DEF CreationsOK
<1>7. ClaimsOK'
  BY <1>3, <1>4 DEF ClaimsOK, Claimed
<1>8. RepliesOK'
  BY <1>3, <1>4 DEF RepliesOK, GivenOK, KeysTypeOK
<1> QED BY <1>2, <1>5, <1>6, <1>7, <1>8

LEMMA TransitionsKeyedInv ==
  ASSUME KeyedInv, Transitions
  PROVE  KeyedInv'
<1> USE DEF KeyedInv, keyVars
<1>1. IndexInv'
  BY ReadOrderIndexInv, SwapStatusIndexInv, ReleaseOrSellIndexInv, AbandonTaskIndexInv
     DEF Transitions, TaskStep
<1>2. UNCHANGED <<wanted, creating, keyPc, keyOf, body, claim, reply>>
  BY DEF Transitions, ReadOrder, TaskStep, SwapStatus, ReleaseOrSell, AbandonTask, docs,
         requests
<1>3. \A p \in Orders : order[p] # Absent => order'[p] # Absent
  <2>1. CASE order' = order
    BY <2>1
  <2>2. ASSUME NEW t \in Tasks, SwapStatus(t), Unchanged(t)
        PROVE  \A p \in Orders : order[p] # Absent => order'[p] # Absent
    <3>1. job[t].target \in OrderStatus
      BY <2>2, AllowedFacts DEF SwapStatus, IndexInv, RequestsOK
    <3> QED BY <2>2, <3>1 DEF SwapStatus, WriteStatus, IndexInv, TypeOK, OrderStatus, Absent
  <2> QED BY <2>1, <2>2
          DEF Transitions, ReadOrder, TaskStep, SwapStatus, ReleaseOrSell, AbandonTask, docs
<1>4. KeysTypeOK' /\ ClaimsOK' /\ RepliesOK'
  BY <1>2 DEF KeysTypeOK, ClaimsOK, Claimed, RepliesOK, GivenOK
<1>5. CreationsOK'
  BY <1>2, <1>3 DEF CreationsOK
<1> QED BY <1>1, <1>4, <1>5

-----------------------------------------------------------------------------
\* Steps on the key.

LEMMA SameOrders == IndexInv /\ UNCHANGED orderVars => IndexInv'
  BY DEF orderVars, IndexInv, TypeOK, RequestsOK, OneActiveOrder, Active

\* A new request goes on to its claim or without one, or ends.
LEMMA NewRequestKeyedInv ==
  ASSUME KeyedInv, NEW o \in Orders, NEW v \in Vehicles,
         Unkeyed(o, v) \/ \E k \in Keys : FindKey(o, k, v)
  PROVE  KeyedInv'
<1> USE DEF KeyedInv
<1>1. IndexInv'
  BY SameOrders DEF Unkeyed, FindKey
<1>2. PICK k \in Keys \union {None} :
        /\ keyPc[o] = "new"
        /\ UNCHANGED <<wanted, creating, order, claim>>
        /\ body' = [body EXCEPT ![o] = v]
        /\ keyOf' = IF k = None THEN keyOf ELSE [keyOf EXCEPT ![o] = k]
        /\ \/ k = None /\ MoveTo(o, "create") /\ UNCHANGED reply
           \/ k # None /\ MoveTo(o, "claim") /\ UNCHANGED reply
           \/ k # None /\ Refuse(o)
           \/ /\ k # None /\ claim[k] # NoRow /\ claim[k].body = v
              /\ claim[k].response # None
              /\ Answer(o, claim[k].response)
  BY KeysAssumption DEF Unkeyed, FindKey, orderVars
<1>3. PICK pc \in {"create", "claim", "refused", "answered"} :
        /\ keyPc' = [keyPc EXCEPT ![o] = pc]
        /\ pc = "create" <=> k = None
        /\ pc # "answered" => UNCHANGED reply
        /\ pc = "answered" => /\ claim[k] # NoRow /\ claim[k].body = v
                              /\ claim[k].response # None
                              /\ reply' = [reply EXCEPT ![o] = claim[k].response]
  BY <1>2 DEF MoveTo, Refuse, Answer
<1>4. creating[o] = "idle" /\ reply[o] = None /\ keyOf[o] = None
  BY <1>2 DEF CreationsOK
<1>5. /\ keyPc'[o] = pc /\ keyOf'[o] = k /\ body'[o] = v
      /\ \A p \in Orders \ {o} : /\ keyPc'[p] = keyPc[p] /\ keyOf'[p] = keyOf[p]
                                 /\ body'[p] = body[p] /\ reply'[p] = reply[p]
  BY <1>2, <1>3, <1>4 DEF KeysTypeOK
<1>6. KeysTypeOK'
  <2>1. pc = "answered" => claim[k].response \in Orders \union {None}
    BY <1>2, <1>3, KeysAssumption DEF KeysTypeOK
  <2>2. reply' \in [Orders -> Orders \union {None}]
    BY <1>3, <2>1 DEF KeysTypeOK
  <2> QED BY <1>2, <1>3, <2>2 DEF KeysTypeOK, KeyPc
<1>7. CreationsOK'
  BY <1>2, <1>3, <1>4, <1>5 DEF CreationsOK
<1>8. ClaimsOK'
  <2>1. \A p \in Orders : Claimed(p)' /\ keyOf'[p] # None =>
          p # o /\ Claimed(p) /\ keyOf'[p] = keyOf[p] /\ body'[p] = body[p]
    BY <1>2, <1>3, <1>4, <1>5 DEF Claimed
  <2>2. claim' = claim
    BY <1>2
  <2>3. ASSUME NEW p \in Orders, Claimed(p)', keyOf'[p] # None
        PROVE  /\ claim[keyOf'[p]] # NoRow /\ claim[keyOf'[p]].body = body'[p]
               /\ \A q \in Orders : Claimed(q)' /\ keyOf'[q] = keyOf'[p] => q = p
    BY <2>1, <2>3 DEF ClaimsOK
  <2> QED BY <2>2, <2>3 DEF ClaimsOK
<1>9. \A p \in Orders : creating[p] = "done" => p # o
  BY <1>4
<1>10. RepliesOK'
  <2>1. \A p \in Orders : \A x, b : GivenOK(p, x, b) => GivenOK(p, x, b)'
    BY <1>2, <1>5, <1>9 DEF GivenOK
  <2>2. \A x \in Keys : claim[x] # NoRow /\ claim[x].response # None =>
          claim[x].response \in Orders /\ GivenOK(claim[x].response, x, claim[x].body)
    BY DEF RepliesOK, KeysTypeOK
  <2>3. \A p \in Orders : reply[p] # None =>
          reply[p] \in Orders /\ GivenOK(reply[p], keyOf[p], body[p])
    BY DEF RepliesOK, KeysTypeOK
  <2>4. ASSUME NEW p \in Orders, reply'[p] # None
        PROVE  GivenOK(reply[p], keyOf[p], body[p])'
    <3>1. CASE p # o
      <4>1. /\ reply'[p] = reply[p] /\ keyOf'[p] = keyOf[p] /\ body'[p] = body[p]
            /\ GivenOK(reply[p], keyOf[p], body[p])
        BY <3>1, <1>5, <2>3, <2>4
      <4>2. creating' = creating /\ wanted' = wanted
        BY <1>2
      <4>3. creating[reply[p]] = "done" /\ keyOf[reply[p]] = keyOf[p] /\ wanted[reply[p]] = body[p]
        BY <4>1 DEF GivenOK
      <4>4. reply[p] # o
        BY <4>3, <1>4
      <4>5. keyOf'[reply[p]] = keyOf[reply[p]]
        BY <4>4, <1>5, <2>3, <3>1, <2>4
      <4> QED BY <4>1, <4>2, <4>3, <4>5 DEF GivenOK
    <3>2. CASE p = o /\ pc = "answered"
      <4>1. /\ k \in Keys /\ reply'[o] = claim[k].response /\ claim[k].body = v
            /\ claim[k] # NoRow /\ claim[k].response # None
        BY <1>3, <3>2 DEF KeysTypeOK
      <4>2. keyOf'[o] = k /\ body'[o] = v
        BY <1>5
      <4>3. GivenOK(claim[k].response, k, v)
        BY <4>1, <2>2
      <4> QED BY <4>1, <4>2, <4>3, <3>2, <1>2 DEF GivenOK
    <3>3. CASE p = o /\ pc # "answered"
      BY <3>3, <1>3, <1>4, <2>4
    <3> QED BY <3>1, <3>2, <3>3
  <2>5. \A x \in Keys : claim'[x] # NoRow /\ claim'[x].response # None =>
          GivenOK(claim[x].response, x, claim[x].body)'
    BY <1>2, <2>1, <2>2 DEF GivenOK
  <2> QED BY <2>4, <2>5 DEF RepliesOK
<1> QED BY <1>1, <1>6, <1>7, <1>8, <1>10

LEMMA ClaimKeyKeyedInv ==
  ASSUME KeyedInv, NEW o \in Orders, ClaimKey(o)
  PROVE  KeyedInv'
<1> DEFINE k == keyOf[o]
<1> USE DEF KeyedInv
<1>1. IndexInv'
  BY SameOrders DEF ClaimKey
<1>2. /\ UNCHANGED <<wanted, creating, order, keyOf, body, reply>>
      /\ k \in Keys /\ body[o] \in Vehicles /\ k # None /\ creating[o] = "idle"
      /\ keyPc[o] = "claim"
  BY KeysAssumption DEF ClaimKey, CreationsOK, orderVars, Refuse
<1>3. CASE claim[k] # NoRow
  <2>1. keyPc' = [keyPc EXCEPT ![o] = "refused"] /\ claim' = claim
    BY <1>3 DEF ClaimKey, Refuse, MoveTo
  <2>2. KeysTypeOK'
    BY <1>2, <2>1 DEF KeysTypeOK, KeyPc
  <2>3. CreationsOK'
    BY <1>2, <2>1 DEF CreationsOK, KeysTypeOK
  <2>4. ClaimsOK'
    BY <1>2, <2>1 DEF ClaimsOK, Claimed, KeysTypeOK
  <2>5. RepliesOK'
    BY <1>2, <2>1 DEF RepliesOK, GivenOK
  <2> QED BY <1>1, <2>2, <2>3, <2>4, <2>5
<1>4. CASE claim[k] = NoRow
  <2> DEFINE row == [body |-> body[o], response |-> None]
  <2>1. /\ keyPc' = [keyPc EXCEPT ![o] = "create"]
        /\ claim' = [claim EXCEPT ![k] = row]
    BY <1>4 DEF ClaimKey, MoveTo
  <2>2. row \in [body : Vehicles, response : Orders \union {None}]
        /\ row # NoRow /\ row.body = body[o] /\ row.response = None
    BY <1>2, KeysAssumption
  <2>3. \A x \in Keys : claim'[x] = IF x = k THEN row ELSE claim[x]
    BY <2>1 DEF KeysTypeOK
  <2> HIDE DEF row
  <2>4. KeysTypeOK'
    BY <1>2, <2>1, <2>2 DEF KeysTypeOK, KeyPc
  <2>5. CreationsOK'
    BY <1>2, <2>1 DEF CreationsOK, KeysTypeOK
  <2>6. ClaimsOK'
    <3>1. \A p \in Orders : Claimed(p) => keyOf[p] # k
      BY <1>2, <1>4 DEF ClaimsOK
    <3>2. \A p \in Orders : Claimed(p)' <=> Claimed(p) \/ p = o
      BY <1>2, <2>1 DEF Claimed, KeysTypeOK
    <3>3. \A p \in Orders : keyOf[p] \in Keys \union {None}
      BY DEF KeysTypeOK
    <3> QED BY <1>2, <2>2, <2>3, <3>1, <3>2, <3>3 DEF ClaimsOK
  <2>7. RepliesOK'
    BY <1>2, <2>2, <2>3 DEF RepliesOK, GivenOK
  <2> QED BY <1>1, <2>4, <2>5, <2>6, <2>7
<1> QED BY <1>3, <1>4

LEMMA StoreResponseKeyedInv ==
  ASSUME KeyedInv, NEW o \in Orders, StoreResponse(o)
  PROVE  KeyedInv'
<1> DEFINE k == keyOf[o]
<1> USE DEF KeyedInv
<1>1. IndexInv'
  BY SameOrders DEF StoreResponse
<1>2. /\ UNCHANGED <<wanted, creating, order, keyOf, body>>
      /\ keyPc[o] = "create" /\ creating[o] = "done" /\ wanted[o] = body[o]
      /\ keyPc' = [keyPc EXCEPT ![o] = "answered"]
      /\ reply' = [reply EXCEPT ![o] = o]
      /\ \A x \in Keys : claim'[x] = IF x = k THEN [claim[x] EXCEPT !.response = o]
                                    ELSE claim[x]
  BY DEF StoreResponse, CreationsOK, orderVars, Answer, MoveTo
<1>3. k \in Keys =>
        /\ claim[k] # NoRow /\ claim[k].body = body[o]
        /\ claim[k] \in [body : Vehicles, response : Orders \union {None}]
        /\ claim'[k] = [body |-> body[o], response |-> o]
        /\ claim'[k] \in [body : Vehicles, response : Orders \union {None}]
        /\ claim'[k] # NoRow
  <2> SUFFICES ASSUME k \in Keys
               PROVE  /\ claim[k] # NoRow /\ claim[k].body = body[o]
                      /\ claim[k] \in [body : Vehicles, response : Orders \union {None}]
                      /\ claim'[k] = [body |-> body[o], response |-> o]
                      /\ claim'[k] \in [body : Vehicles, response : Orders \union {None}]
                      /\ claim'[k] # NoRow
    OBVIOUS
  <2>1. claim[k] # NoRow /\ claim[k].body = body[o]
    BY <1>2, KeysAssumption DEF ClaimsOK, Claimed
  <2>2. claim[k] \in [body : Vehicles, response : Orders \union {None}]
    BY <2>1 DEF KeysTypeOK
  <2>3. claim'[k] = [claim[k] EXCEPT !.response = o]
    BY <1>2
  <2>4. claim'[k] = [body |-> body[o], response |-> o]
    BY <2>1, <2>2, <2>3
  <2>5. claim'[k] \in [body : Vehicles, response : Orders \union {None}]
    BY <2>4, <1>2 DEF CreationsOK
  <2> QED BY <2>1, <2>2, <2>4, <2>5, KeysAssumption
<1>4. KeysTypeOK'
  <2>1. claim' \in [Keys -> [body : Vehicles, response : Orders \union {None}] \union {NoRow}]
    <3>1. claim' = [x \in Keys |-> claim'[x]]
      BY Zenon DEF StoreResponse
    <3>2. \A x \in Keys : claim'[x] \in [body : Vehicles, response : Orders \union {None}]
                                       \union {NoRow}
      <4> SUFFICES ASSUME NEW x \in Keys
                   PROVE  claim'[x] \in [body : Vehicles, response : Orders \union {None}]
                                       \union {NoRow}
        OBVIOUS
      <4>1. CASE x = k
        BY <4>1, <1>3
      <4>2. CASE x # k
        <5>1. claim'[x] = claim[x]
          BY <4>2, <1>2
        <5> QED BY <5>1 DEF KeysTypeOK
      <4> QED BY <4>1, <4>2
    <3> QED BY <3>1, <3>2
  <2> QED BY <1>2, <2>1 DEF KeysTypeOK, KeyPc
<1>5. CreationsOK'
  BY <1>2 DEF CreationsOK, KeysTypeOK
<1>6. ClaimsOK'
  <2>1. \A p \in Orders : Claimed(p)' <=> Claimed(p)
    BY <1>2 DEF Claimed, KeysTypeOK
  <2>2. \A p \in Orders : keyOf[p] \in Keys \union {None}
    BY DEF KeysTypeOK
  <2>3. ASSUME NEW p \in Orders, Claimed(p), keyOf[p] # None
        PROVE  /\ claim'[keyOf[p]] # NoRow /\ claim'[keyOf[p]].body = body[p]
               /\ \A q \in Orders : Claimed(q) /\ keyOf[q] = keyOf[p] => q = p
    <3>1. keyOf[p] \in Keys
      BY <2>2, <2>3
    <3>2. /\ claim[keyOf[p]] # NoRow /\ claim[keyOf[p]].body = body[p]
          /\ \A q \in Orders : Claimed(q) /\ keyOf[q] = keyOf[p] => q = p
      BY <2>3 DEF ClaimsOK
    <3>3. CASE keyOf[p] = k
      <4>1. body[p] = body[o]
        BY <3>1, <3>2, <3>3, <1>3
      <4> QED BY <3>1, <3>2, <3>3, <4>1, <1>3
    <3>4. CASE keyOf[p] # k
      <4>1. claim'[keyOf[p]] = claim[keyOf[p]]
        BY <3>1, <3>4, <1>2
      <4> QED BY <3>2, <4>1
    <3> QED BY <3>3, <3>4
  <2> QED BY <1>2, <2>1, <2>3 DEF ClaimsOK
<1>7. RepliesOK'
  <2>1. ASSUME NEW x \in Keys, claim'[x] # NoRow, claim'[x].response # None
        PROVE  GivenOK(claim[x].response, x, claim[x].body)'
    <3>1. CASE x = k
      <4>1. claim'[x].response = o /\ claim'[x].body = body[o]
        BY <3>1, <1>3
      <4> QED BY <3>1, <4>1, <1>2 DEF GivenOK
    <3>2. CASE x # k
      <4>1. claim'[x] = claim[x]
        BY <3>2, <1>2
      <4>2. GivenOK(claim[x].response, x, claim[x].body)
        BY <2>1, <4>1 DEF RepliesOK
      <4> QED BY <4>1, <4>2, <1>2 DEF GivenOK
    <3> QED BY <3>1, <3>2
  <2>2. ASSUME NEW p \in Orders, reply'[p] # None
        PROVE  GivenOK(reply[p], keyOf[p], body[p])'
    <3>1. CASE p = o
      <4>1. reply'[p] = o
        BY <3>1, <1>2 DEF KeysTypeOK
      <4> QED BY <3>1, <4>1, <1>2 DEF GivenOK
    <3>2. CASE p # o
      <4>1. reply'[p] = reply[p]
        BY <3>2, <1>2 DEF KeysTypeOK
      <4>2. GivenOK(reply[p], keyOf[p], body[p])
        BY <2>2, <4>1 DEF RepliesOK
      <4> QED BY <4>1, <4>2, <1>2 DEF GivenOK
    <3> QED BY <3>1, <3>2
  <2> QED BY <2>1, <2>2 DEF RepliesOK
<1> QED BY <1>1, <1>4, <1>5, <1>6, <1>7

LEMMA AbandonKeyKeyedInv ==
  ASSUME KeyedInv, NEW o \in Orders, AbandonKey(o)
  PROVE  KeyedInv'
<1> USE DEF KeyedInv
<1>1. IndexInv'
  BY OrdersAssumption
     DEF AbandonKey, docs, requests, tasks, IndexInv, TypeOK, RequestsOK, OneActiveOrder,
         Active
<1>2. /\ UNCHANGED <<wanted, creating, order, keyOf, body, claim, reply>>
      /\ keyPc' = [keyPc EXCEPT ![o] = "abandoned"]
  BY DEF AbandonKey, docs, requests, MoveTo
<1>3. KeysTypeOK'
  BY <1>2 DEF KeysTypeOK, KeyPc
<1>4. CreationsOK'
  BY <1>2 DEF CreationsOK, KeysTypeOK
<1>5. ClaimsOK'
  BY <1>2 DEF ClaimsOK, Claimed, KeysTypeOK
<1>6. RepliesOK'
  BY <1>2 DEF RepliesOK, GivenOK
<1> QED BY <1>1, <1>3, <1>4, <1>5, <1>6

-----------------------------------------------------------------------------
LEMMA KeyedInvHolds == KeyedSpec => []KeyedInv
<1>1. KeyedInv /\ [KeyedNext]_keyedVars => KeyedInv'
  <2> SUFFICES ASSUME KeyedInv, [KeyedNext]_keyedVars PROVE KeyedInv'
    OBVIOUS
  <2>1. CASE \E o \in Orders, v \in Vehicles : Unkeyed(o, v) \/ \E k \in Keys : FindKey(o, k, v)
    BY <2>1, NewRequestKeyedInv
  <2>2. CASE \E o \in Orders : ClaimKey(o) \/ Create(o) \/ StoreResponse(o) \/ AbandonKey(o)
    BY <2>2, ClaimKeyKeyedInv, CreateKeyedInv, StoreResponseKeyedInv, AbandonKeyKeyedInv
  <2>3. CASE Transitions
    BY <2>3, TransitionsKeyedInv
  <2>4. CASE UNCHANGED keyedVars
    <3>1. UNCHANGED orderVars
      BY <2>4 DEF keyedVars, orderVars
    <3> QED BY <2>4, <3>1, SameOrders
            DEF keyedVars, KeyedInv, KeysTypeOK, CreationsOK, ClaimsOK, Claimed, RepliesOK,
                GivenOK
  <2> QED BY <2>1, <2>2, <2>3, <2>4 DEF KeyedNext
<1> QED BY <1>1, InitKeyedInv, PTL DEF KeyedSpec

\* Orders, requests and the rows of the keys keep their types.
THEOREM KeyedTypes == KeyedSpec => []KeyedTypeOK
<1>1. KeyedInv => KeyedTypeOK
  BY DEF KeyedInv, IndexInv, KeysTypeOK, KeyedTypeOK
<1> QED BY <1>1, KeyedInvHolds, PTL

\* One key never creates two orders, for any number of requests racing for it and
\* wherever they die: only the request that inserted the key's row goes on to
\* create_order.
THEOREM OneKeyOneOrder == KeyedSpec => []OneOrderPerKey
<1>1. KeyedInv => OneOrderPerKey
  BY DEF KeyedInv, IndexInv, RequestsOK, ClaimsOK, Claimed, OneOrderPerKey
<1> QED BY <1>1, KeyedInvHolds, PTL

\* A request is answered with an order for its own body under its own key that was
\* created in full, replays included.
THEOREM AnswersAreOrders == KeyedSpec => []AnswerIsOrder
<1>1. KeyedInv => AnswerIsOrder
  BY DEF KeyedInv, KeysTypeOK, CreationsOK, RepliesOK, GivenOK, AnswerIsOrder
<1> QED BY <1>1, KeyedInvHolds, PTL

\* What the index promises is not lost when requests come with keys.
THEOREM OneActiveOrderUnderKeys == KeyedSpec => []OneActiveOrder
<1>1. KeyedInv => OneActiveOrder
  BY DEF KeyedInv, IndexInv
<1> QED BY <1>1, KeyedInvHolds, PTL
=============================================================================
