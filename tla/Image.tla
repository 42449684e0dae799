------------------------------- MODULE Image -------------------------------
(***************************************************************************)
(* What values and XML are made of.  A value is drawn as an image: the     *)
(* cells reachable from a root.  Every XML element has the same fields;    *)
(* "s" is its text or name, "n" its number, "id" the address of the value  *)
(* it stands for (0: none).                                                *)
(***************************************************************************)
EXTENDS Integers, Sequences, FiniteSets

CONSTANTS IntMax,      \* the largest C int, kept small
          UseTypes     \* the build's TYPES

NoTree == [k |-> "none", s |-> "", kids |-> <<>>]
Tree(k, s, kids) == [k |-> k, s |-> s, kids |-> kids]

\* A cell: its kind, the name of its type, and what the kind needs.
Cell(k, type, n, s, kids) ==
    [k |-> k, type |-> type, n |-> n, s |-> s, kids |-> kids,
     params |-> NoTree, code |-> NoTree]
None == [root |-> 0, cell |-> <<>>, types |-> {}]

Element(tag, s, n, kids) ==
    [tag |-> tag, s |-> s, n |-> n, kids |-> kids,
     id |-> 0, typename |-> "", typeid |-> ""]

\* What atoi makes of the text of a number.
CInt(n) == ((n + IntMax + 1) % (2 * (IntMax + 1))) - (IntMax + 1)
=============================================================================
