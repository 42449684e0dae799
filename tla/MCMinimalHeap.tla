--------------------------- MODULE MCMinimalHeap ---------------------------
(* Small programs over the heap of libminimal: each uses the operations of *)
(* one part of the library, so that every part is explored to the end.     *)
EXTENDS MinimalHeap, TLC

Using(operations, cells, refs) ==
    [uses |-> operations \cup {"drop"}, cells |-> cells, held |-> refs]

MCPrograms == {
    Using({"pointer", "tuple", "set", "copy"}, 4, 1),
    Using({"pointer", "tuple", "set", "reference", "finalise"}, 3, 1),
    Using({"pointer", "tuple", "set", "reference"}, 2, 2),
    Using({"scalar", "pointer", "type", "leaf", "copy"}, 3, 1),
    Using({"scalar", "sum", "tuple", "set", "reference"}, 3, 1),
    Using({"leaf", "type", "spec", "typeId", "tuple", "setType", "reference", "finalise"}, 3, 1),
    Using({"leaf", "type", "layer", "setCurrent", "setTypeMap", "reference", "finalise"}, 4, 1),
    Using({"leaf", "function", "layer", "setCurrent", "name", "reference", "finalise"}, 4, 2),
    Using({"leaf", "def", "addFunction", "reference"}, 4, 2),
    Using({"leaf", "branches", "set", "call", "let", "args", "params", "op", "ifexpr",
           "index"}, 4, 1) }

\* A program that replaces what its pointers point to.
MCPointers == {Using({"scalar", "pointer", "set"}, 2, 1)}

Symmetry == Permutations(Cells)
=============================================================================
