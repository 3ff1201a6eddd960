------------------------- MODULE MCProjectBootstrap -------------------------
(* A project of two full pages whose first package is a child of the last   *)
(* one, and a package with a text file that is created meanwhile.  A        *)
(* relation leads to a later page, one is listed on its target, one has an  *)
(* unknown type, one leads to the package it comes from and one to the new  *)
(* package.  The project is listed before its parent.                       *)
EXTENDS ProjectBootstrap, TLC

CONSTANTS k1, k2, k3, k4, k5

MCPackages == {k1, k2, k3, k4, k5}
MCListing == <<k1, k2, k3, k4>>
MCParent == k1 :> k4 @@ k2 :> NoParent @@ k3 :> k2 @@ k4 :> NoParent
            @@ k5 :> k3
Relation(on, source, target, mapped) ==
    [on |-> on, source |-> source, target |-> target, mapped |-> mapped]
MCRelations == {Relation(k1, k1, k4, TRUE), Relation(k2, k3, k2, TRUE),
                Relation(k3, k3, k1, FALSE), Relation(k4, k4, k4, TRUE),
                Relation(k2, k2, k5, TRUE)}
MCHierarchy == <<"project", "parent">>
MCAbove == [project |-> "parent", parent |-> NoParent]
=============================================================================
