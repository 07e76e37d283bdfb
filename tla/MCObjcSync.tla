------------------------------ MODULE MCObjcSync ------------------------------
(* ObjcSync.tla for TLC. *)
EXTENDS ObjcSync

CONSTANTS o1, o2

\* o2 is entered inside o1, each inside itself.
Ordered == {<<o1, o2>>}

\* Careless clients do not recurse.
Bounds == [careful |-> 2, careless |-> 1]
=============================================================================
