------------------------- MODULE MCAdministration -------------------------
(***************************************************************************)
(* Administration for TLC: a user, the user's group, and two buckets.      *)
(***************************************************************************)
EXTENDS Administration, TLC

CONSTANTS u1, g1, b1, b2

InGroup == u1 :> {g1}
Doc(n, acl) == [name |-> n, acl |-> acl]
Start1 == b1 :> Doc("n1", {<<u1, 2>>, <<g1, 1>>}) @@ b2 :> NoDoc

AclSet(b, acl) == [op |-> "acl-set", bucket |-> b, acl |-> acl]
AllCommands ==
    {[op |-> "user add", user |-> u1],
     [op |-> "user rm", user |-> u1, cleanup |-> TRUE],
     [op |-> "user rm", user |-> u1, cleanup |-> FALSE],
     [op |-> "bucket add", bucket |-> b2, doc |-> Doc("n1", {<<g1, 1>>, <<g1, 2>>})],
     [op |-> "bucket add", bucket |-> b2, doc |-> Doc("n2", {<<u1, 1>>})],
     [op |-> "bucket rm", bucket |-> b1],
     AclSet(b1, {<<g1, 2>>}), AclSet(b1, {<<u1, 1>>}),
     [op |-> "import", replace |-> TRUE, users |-> <<u1>>, bucket |-> b1,
      doc |-> Doc("n1", {<<u1, 1>>})]}

\* Administrators differ in nothing but their names.
AdminSymmetry == Permutations(Admins)
=============================================================================
