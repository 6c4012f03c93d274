------------------------------- MODULE Limiter -------------------------------
(***************************************************************************)
(* What a limit promises that is enforced by counting first and recording  *)
(* afterwards, in two database calls: the lockout of password sign-in, the *)
(* number of saved searches and the hourly number of enquiries.  A call    *)
(* passes while the count is below the limit and adds to it later, if at   *)
(* all.  LimiterProofs.tla shows how far such a limit can be exceeded.     *)
(***************************************************************************)
EXTENDS Naturals, FiniteSets

CONSTANTS
  Keys,     \* what is counted for: a customer, an address
  Callers,  \* the calls that can be under way at once
  Limit     \* a call passes while fewer than this many are recorded

VARIABLES
  recorded,  \* how many are recorded for each key
  passed     \* the calls that have passed for each key and not yet ended

limiterVars == <<recorded, passed>>

LimiterInit ==
  /\ recorded = [k \in Keys |-> 0]
  /\ passed = [k \in Keys |-> {}]

\* The count.
Pass(k, c) ==
  /\ recorded[k] < Limit
  /\ passed' = [passed EXCEPT ![k] = @ \union {c}]
  /\ UNCHANGED recorded

\* The record, by a call that passed some time ago.
Record(k, c) ==
  /\ c \in passed[k]
  /\ recorded' = [recorded EXCEPT ![k] = @ + 1]
  /\ passed' = [passed EXCEPT ![k] = @ \ {c}]

\* A call ends without recording anything.
Give(k, c) ==
  /\ c \in passed[k]
  /\ passed' = [passed EXCEPT ![k] = @ \ {c}]
  /\ UNCHANGED recorded

\* Records are deleted or grow too old to count.
Forget(k) ==
  /\ \E n \in 0..recorded[k] : recorded' = [recorded EXCEPT ![k] = n]
  /\ UNCHANGED passed

\* A call ends and has the records deleted.
GiveAndForget(k, c) ==
  /\ c \in passed[k]
  /\ passed' = [passed EXCEPT ![k] = @ \ {c}]
  /\ recorded' = [recorded EXCEPT ![k] = 0]

LimiterNext ==
  \E k \in Keys :
    \/ Forget(k)
    \/ \E c \in Callers : Pass(k, c) \/ Record(k, c) \/ Give(k, c) \/ GiveAndForget(k, c)

LimiterSpec == LimiterInit /\ [][LimiterNext]_limiterVars
=============================================================================
