---------------------------- MODULE MCAssetLock ----------------------------
(* Instances of AssetLock for TLC; inode numbers are interchangeable, and so *)
(* are processes.                                                           *)
EXTENDS AssetLock, TLC

Symmetry == Permutations(Procs) \cup Permutations(Inodes)
=============================================================================
