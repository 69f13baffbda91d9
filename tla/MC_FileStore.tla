---------------------------- MODULE MC_FileStore ----------------------------
(* FileStore with two files, which only housekeeping brings together, and  *)
(* two DELETE requests, which may name the same one.                       *)
EXTENDS FileStore, TLC

CONSTANTS f1, f2, d1, d2

MCFiles == {f1, f2}
MCDeleters == {d1, d2}

\* File ids and requests are interchangeable.
Symmetry == Permutations(MCFiles) \cup Permutations(MCDeleters)
=============================================================================
