------------------------------- MODULE MCSync --------------------------------
EXTENDS Sync, TLC

CONSTANTS acc, d1, d2, c1, c2, x

\* Two devices of one account; every item fits any page, or none fits the
\* limit of a page.
MCAccountOf == (d1 :> acc) @@ (d2 :> acc)
MCSizeOf == [p \in Payloads |-> 1]
MCBig == [p \in Payloads |-> MaxPageBytes + 1]
MCOneWay == (c1 :> d1) @@ (c2 :> d1)
MCClearHere == (c1 :> d1) @@ (x :> d1)
=============================================================================
