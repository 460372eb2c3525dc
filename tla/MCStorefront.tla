---------------------------- MODULE MCStorefront ----------------------------
(* Storefront for TLC: symmetric sets of ids. *)
EXTENDS StorefrontInv, TLC

Symmetry == Permutations(Tabs) \cup Permutations(Baskets)
               \cup Permutations(Txs) \cup Permutations(Stores)
=============================================================================
