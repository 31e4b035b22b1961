--------------------------- MODULE MCUpgradeCleanup ---------------------------
(* UpgradeCleanup for TLC. The releases are interchangeable: every one may be the first
   registered, and no property is a temporal one that symmetry would spoil. *)
EXTENDS UpgradeCleanup, TLC

Symmetry == Permutations(Releases)
===============================================================================
