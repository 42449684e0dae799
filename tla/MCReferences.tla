---------------------------- MODULE MCReferences ----------------------------
(* Small programs of two clients: each explores one way of sharing the     *)
(* references to two tuplespaces.                                          *)
EXTENDS References, TLC
CONSTANTS client1, client2, outer, inner

Symmetry == Permutations(Threads)

MCPrograms == {
    \* two clients pass a handle to and fro
    [creates |-> {<<client1, inner>>}, puts |-> {<<client1, UTS, inner>>, <<client2, UTS, inner>>},
     takes |-> {<<client1, UTS>>, <<client2, UTS>>}, leave |-> Procs,
     handles |-> 1, killlock |-> 1, threads |-> 1],
    \* one copies and frees several, and leaves with some of them
    [creates |-> {<<client1, inner>>}, puts |-> {}, takes |-> {}, leave |-> Procs,
     handles |-> 3, killlock |-> 1, threads |-> 2],
    \* one stores a tuplespace in another
    [creates |-> {<<client1, inner>>, <<client1, outer>>}, puts |-> {<<client1, outer, inner>>}, takes |-> {},
     leave |-> Procs, handles |-> 1, killlock |-> 1, threads |-> 2],
    [creates |-> {<<client1, inner>>, <<client1, outer>>}, puts |-> {<<client1, outer, inner>>}, takes |-> {},
     leave |-> {client1}, handles |-> 2, killlock |-> 1, threads |-> 1],
    \* one takes what the other has put into UTS, and stores it in its own
    [creates |-> {<<client1, inner>>, <<client2, outer>>}, puts |-> {<<client1, UTS, inner>>, <<client2, outer, inner>>},
     takes |-> {<<client2, UTS>>}, leave |-> {client2}, handles |-> 1, killlock |-> 1, threads |-> 1],
    [creates |-> {<<client1, inner>>, <<client2, outer>>}, puts |-> {<<client1, UTS, inner>>, <<client2, outer, inner>>},
     takes |-> {<<client2, UTS>>}, leave |-> {client1}, handles |-> 1, killlock |-> 1, threads |-> 1] }

\* The theorems on counts and deletion are about such programs.
ASSUME ProgramsTakeFromUTS == OnlyFromUTS
=============================================================================
