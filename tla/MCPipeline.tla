------------------------------ MODULE MCPipeline -------------------------------
(* Two workers and two coins: enough for runs that overlap and for a cycle that   *)
(* goes on to the next coin.                                                      *)
EXTENDS Pipeline, TLC

CONSTANTS w1, w2, BTC, ETH
MCWorkers == {w1, w2}
MCCoins   == {BTC, ETH}
Symmetry  == Permutations(MCWorkers) \cup Permutations(MCCoins)
================================================================================
