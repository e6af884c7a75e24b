------------------------------- MODULE MCDevice -------------------------------
EXTENDS Device, Sequences

CONSTANTS menu, watcher, a, b, x, y

MCArrivals == <<x, ClearItem, y>>

\* The phone's fairness, in the sum (Mobile's Fairness).
MCSpec ==
    /\ DeviceSpec
    /\ SF_phone(OfPhone(M!Refresh))
    /\ WF_phone(OfPhone(M!Continue))

QueuedGetsSent == M!QueuedGetsSent
=============================================================================
