----------------------------- MODULE MCDelivery ------------------------------
EXTENDS Delivery

CONSTANTS d1, d2, i1, i2, x

\* One device copies, the other clears.
MCOneCopies == [id \in Ids |-> IF id = x THEN d2 ELSE d1]
MCCreated == [id \in Ids |-> CASE id = i1 -> 1 [] id = i2 -> 2 [] id = x -> 3]

=============================================================================
