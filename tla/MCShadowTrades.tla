---------------------------- MODULE MCShadowTrades -----------------------------
(* A symmetry of ShadowTrades that a .cfg cannot write.                          *)
EXTENDS ShadowTrades, TLC

\* No action prefers one signal to another; for runs without a liveness property.
Interchangeable == Permutations(Signals)
================================================================================
