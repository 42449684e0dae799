---------------------------- MODULE MCLindaServer ----------------------------
(* Small instances of LindaServer for TLC. *)
EXTENDS LindaServerProps, TLC

CONSTANTS a, b, c,       \* client threads
          p, q,          \* client processes
          s1, s2,        \* tuplespaces
          x1, x2, y1     \* tuple objects

one == <<Actual("int", 1)>>
two == <<Actual("int", 2)>>
int == <<Formal("int")>>

MCProc == [t \in Thread |-> IF t = a THEN p ELSE q]
MCValueOf == [x \in Tuple |-> IF x = y1 THEN two ELSE one]
MCTemplate == {one, two, int}

OutTo(s)            == [op |-> "out", ts |-> s]
MatchIn(op, s, tem) == [op |-> op, ts |-> s, pattern |-> tem]
CollectTo(op, s, d, tem) == [op |-> op, ts |-> s, dest |-> d, pattern |-> tem]

SafetyCalls == {OutTo(s1), MatchIn("in", s1, one), MatchIn("inp", s1, int),
                MatchIn("rd", s1, one)}

CollectCalls == {OutTo(s1), MatchIn("in", s2, int), MatchIn("rd", s2, one),
                 CollectTo("collect", s1, s2, int),
                 CollectTo("copy_collect", s1, s2, one)}

DeathCalls == {OutTo(s1), MatchIn("inp", s1, one), MatchIn("rd", s1, one)}

DeadlockCalls == {OutTo(s1), MatchIn("inp", s1, one), MatchIn("in", s1, two),
                  CollectTo("collect", s1, s1, one)}

RdpCalls == {OutTo(s1), MatchIn("rdp", s1, one)}

FormalCalls == {OutTo(s1), MatchIn("in", s1, int)}

Interchangeable == Permutations(Worker)
=============================================================================
