----------------------------- MODULE MCInitialize -----------------------------
(* Initialize.tla for TLC. *)
EXTENDS Initialize

CONSTANTS Root, A, B, C, D

\* B is a subclass of A, and D of B.
Hierarchy == [c \in Class |->
                 CASE c = Root -> None [] c = B -> A [] c = D -> B [] OTHER -> Root]

\* +[A initialize] messages its subclass, so does B's, and C's its sibling.
Sends == [c \in Class |->
             CASE c = A -> {B} [] c = B -> {D} [] c = C -> {A} [] OTHER -> {}]
=============================================================================
