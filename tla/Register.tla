------------------------------- MODULE Register -------------------------------
(* What an account promises about who is in it, without handlers, calls,      *)
(* pairings or clients: a device asks to be let in, lets itself in when nobody *)
(* is in, or is let in by one that has the account's secret; the secret goes  *)
(* only to whom it was granted; and whoever has left never comes back.        *)
EXTENDS Naturals

CONSTANTS Devices, None,
          Creator       \* the device that made the account, and its secret

VARIABLES
    standing,   \* of each device with the account
    grantor,    \* who let it in
    holders     \* who has the secret

vars == <<standing, grantor, holders>>

Init ==
    /\ standing = [d \in Devices |-> "stranger"]
    /\ grantor = [d \in Devices |-> None]
    /\ holders = {Creator}

Ask(d) ==
    /\ standing[d] = "stranger"
    /\ standing' = [standing EXCEPT ![d] = "waiting"]
    /\ UNCHANGED <<grantor, holders>>

LetItselfIn(d) ==
    /\ standing[d] = "waiting"
    /\ \A e \in Devices : standing[e] # "in"
    /\ standing' = [standing EXCEPT ![d] = "in"]
    /\ UNCHANGED <<grantor, holders>>

\* The one that grants may have been taken out a moment before.
Grant(o, d) ==
    /\ o \in holders
    /\ standing[o] \in {"in", "out"}
    /\ standing[d] \in {"stranger", "waiting"}
    /\ standing' = [standing EXCEPT ![d] = "in"]
    /\ grantor' = [grantor EXCEPT ![d] = o]
    /\ UNCHANGED holders

Learn(d) ==
    /\ grantor[d] # None
    /\ holders' = holders \cup {d}
    /\ UNCHANGED <<standing, grantor>>

\* Some are taken out, or give up and are forgotten, for good.
Leave(D) ==
    /\ \A d \in D : standing[d] \in {"waiting", "in"}
    /\ standing' = [d \in Devices |-> IF d \in D THEN "out" ELSE standing[d]]
    /\ UNCHANGED <<grantor, holders>>

Next ==
    \/ \E d \in Devices : Ask(d) \/ LetItselfIn(d) \/ Learn(d)
    \/ \E o, d \in Devices : Grant(o, d)
    \/ \E D \in SUBSET Devices : Leave(D)

Spec == Init /\ [][Next]_vars
=============================================================================
