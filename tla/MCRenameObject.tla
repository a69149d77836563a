-------------------------- MODULE MCRenameObject --------------------------
(***************************************************************************)
(* RenameObject for TLC: two keys, a plain rename, one that must not       *)
(* replace, and one back with conditions on both objects.                  *)
(***************************************************************************)
EXTENDS RenameObject, TLC

Op(s, d, im, inm, is) ==
    [src |-> s, dst |-> d, ifMatch |-> im, ifNoneMatch |-> inm, ifSource |-> is]

TwoOperations == {Op(1, 2, NoTag, NoTag, NoTag), Op(1, 2, NoTag, Star, NoTag)}
ThreeOperations == TwoOperations \cup {Op(2, 1, 1, NoTag, 2)}
RequestSymmetry == Permutations(Requests) \cup Permutations(Tokens)
=============================================================================
