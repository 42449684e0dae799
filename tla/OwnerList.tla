------------------------------- MODULE OwnerList -------------------------------
(***************************************************************************)
(* The list of owners of a tuplespace (refs of tuplespace.py): an owner is *)
(* in it once for each reference it has.                                   *)
(***************************************************************************)
EXTENDS Naturals, Sequences, SequencesExt, FiniteSets

Times(list, o) == Cardinality({i \in DOMAIN list : list[i] = o})

\* refs.remove(o) until it raises ValueError.
Without(list, o) ==
    LET rest[n \in 0 .. Len(list)] ==
            IF n = 0 THEN <<>>
            ELSE IF list[n] = o THEN rest[n - 1]
            ELSE Append(rest[n - 1], list[n])
    IN  rest[Len(list)]
================================================================================
