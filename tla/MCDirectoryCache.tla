------------------------- MODULE MCDirectoryCache -------------------------
(* DirectoryCache for TLC: lookups are interchangeable model values. *)
EXTENDS DirectoryCache, TLC

LookupSymmetry == Permutations(Lookups)
=============================================================================
