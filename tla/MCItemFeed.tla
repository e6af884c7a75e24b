----------------------------- MODULE MCItemFeed ------------------------------
EXTENDS ItemFeed, TLC

CONSTANTS a1, a2, d1, d2, d3, small, big

\* Two devices of one account and one of another; two of the "big" payload do
\* not fit one page.
MCAccountOf == (d1 :> a1) @@ (d2 :> a1) @@ (d3 :> a2)
MCSizeOf == (small :> 1) @@ (big :> 3)
MCIdSymmetry == Permutations(Ids)
=============================================================================
