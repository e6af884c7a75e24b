------------------------------- MODULE MCServer -------------------------------
EXTENDS Server, TLC

CONSTANTS mac, phone, n1, ann, bob, seb, i1, i2

\* Both type the same password: it may be the same person twice.
MCPassword == [c \in Clients |-> "p"]

Symmetry == Permutations(Clients) \cup Permutations(Invites)
=============================================================================
