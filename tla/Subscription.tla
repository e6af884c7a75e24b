---------------------------- MODULE Subscription -----------------------------
(***************************************************************************)
(* What the item feed promises a device, without pages, row limits, byte   *)
(* limits or retries: rows are published in one order and may be dropped   *)
(* at any time; an answer moves the device's cursor to some later row and  *)
(* hands out exactly the rows in between that other devices sent.          *)
(***************************************************************************)
EXTENDS Naturals

CONSTANTS Devices, AccountOf

VARIABLES
  retained,     \* rows that can still be handed out
  horizon,      \* no published row is after it
  cursor, joined, start, got

vars == <<retained, horizon, cursor, joined, start, got>>

Between(d, from, to) ==
  {r \in retained : /\ r.account = AccountOf[d]
                    /\ r.device # d
                    /\ from < r.seq
                    /\ r.seq <= to}

Init ==
  /\ retained = {}
  /\ horizon = 0
  /\ cursor = [d \in Devices |-> 0]
  /\ joined = {}
  /\ start = [d \in Devices |-> 0]
  /\ got = [d \in Devices |-> {}]

\* A new row is after every earlier one; older rows may make room for it.
Publish ==
  /\ horizon' > horizon
  /\ \A r \in retained' : r \in retained \/ r.seq = horizon'
  /\ UNCHANGED <<cursor, joined, start, got>>

Drop ==
  /\ retained' \subseteq retained
  /\ UNCHANGED <<horizon, cursor, joined, start, got>>

\* A device joins behind everything published so far that is still there.
Join(d) ==
  /\ d \notin joined
  /\ joined' = joined \cup {d}
  /\ \A r \in retained : r.account = AccountOf[d] => r.seq <= cursor'[d]
  /\ cursor' = [cursor EXCEPT ![d] = cursor'[d]]
  /\ cursor'[d] <= horizon
  /\ start' = [start EXCEPT ![d] = cursor'[d]]
  /\ UNCHANGED <<retained, horizon, got>>

Deliver(d) ==
  \E r \in retained :
    /\ d \in joined
    /\ r.account = AccountOf[d]
    /\ r.seq > cursor[d]
    /\ cursor' = [cursor EXCEPT ![d] = r.seq]
    /\ got' = [got EXCEPT ![d] = @ \cup Between(d, cursor[d], r.seq)]
    /\ UNCHANGED <<retained, horizon, joined, start>>

Next ==
  \/ Publish
  \/ Drop
  \/ \E d \in Devices : Join(d) \/ Deliver(d)

Spec == Init /\ [][Next]_vars
=============================================================================
