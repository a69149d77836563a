----------------------------- MODULE MCListing -----------------------------
(***************************************************************************)
(* Listing for TLC: the names a, a- and the reserved one, in byte order    *)
(* ".s32p-mpu" < a < a- < a-/ < a/, in a tree with files on two levels.    *)
(***************************************************************************)
EXTENDS Listing, TLC

CONSTANTS na, nam, nmpu

ByteFileRank == nmpu :> 1 @@ na :> 3 @@ nam :> 4
ByteDirRank == nmpu :> 2 @@ nam :> 5 @@ na :> 6

TreeFiles == {<<nam>>, <<na, na>>, <<na, nam>>, <<nmpu, na>>}
TreeDirs == {<<na>>, <<nmpu>>}

List(v, rec, n, d, l) ==
    [version |-> v, recursive |-> rec, max |-> n, dir |-> d, leaf |-> l]
AllCalls ==
    {List(v, rec, n, Root, Names) : v \in {1, 2}, rec \in BOOLEAN, n \in {1, 2}}
      \cup {List(2, TRUE, 1, Root, {na}), List(1, TRUE, 1, <<na>>, Names),
             List(2, FALSE, 1, <<na>>, {nam})}
=============================================================================
