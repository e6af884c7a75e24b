----------------------------- MODULE MCLongPoll -----------------------------
EXTENDS LongPoll, TLC

CONSTANTS mac, laptop, i1, i2

MCOwner == (i1 :> laptop) @@ (i2 :> laptop)
=============================================================================
