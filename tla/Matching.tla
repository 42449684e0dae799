------------------------------ MODULE Matching ------------------------------
(***************************************************************************)
(* How a tuple is compared with a template: doesMatch of                   *)
(* linda/src/linda/tuplecontainer.py, in its default build (with types).   *)
(*                                                                         *)
(* A tuple or template is a sequence of elements.  An element is an actual *)
(* value or a type; a type in a template is a formal that any value of the *)
(* type fills.  Types are compared by their id: the isomorphisms between   *)
(* different types (iso_cache.py) are not modelled, so doesMatch is a      *)
(* predicate here (the converted tuple it returns is the tuple itself).    *)
(***************************************************************************)
EXTENDS Naturals, Sequences

Actual(type, val) == [isType |-> FALSE, type |-> type, val |-> val]
Formal(type)      == [isType |-> TRUE, type |-> type]

\* The recursive call on one element: the second argument plays the template.
elementMatches(e, templ) ==
    /\ e.type = templ.type
    /\ templ.isType \/ e = templ

\* doesMatch(tup, templ): not symmetric, a type only matches as the template.
doesMatch(tup, templ) ==
    /\ Len(tup) = Len(templ)
    /\ \A i \in DOMAIN tup : elementMatches(tup[i], templ[i])

\* A template without formals.
AllActual(templ) == \A i \in DOMAIN templ : ~templ[i].isType
=============================================================================
