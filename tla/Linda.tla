-------------------------------- MODULE Linda --------------------------------
(***************************************************************************)
(* What the server promises its clients (linda/src/rawdocs/linda.c): each  *)
(* call takes effect at one moment between the request and the answer.     *)
(* There are no blocked lists, no server threads and no deadlock detection *)
(* here, only tuplespaces and calls.                                       *)
(***************************************************************************)
CONSTANTS Thread, TS, Tuple, Calls, NoCall,
          Fills(_, _),   \* Fills(x, p): stored tuple x fills template p
          Wakes(_, _),   \* Wakes(x, p): tuple x, when put, serves a waiting p
          Copies(_, _)   \* Copies(C, M): C is a copy of the set M of tuples

VARIABLES space,   \* the tuples in each tuplespace
          phase,   \* idle, pending, moving or done
          op,      \* the call in progress
          hand,    \* the tuples it carries
          fresh,   \* tuples not yet put into the system
          left     \* tuples the clients have taken out

vars == <<space, phase, op, hand, fresh, left>>

Takes(c) == c.op \in {"in", "inp"}
Reads(c) == c.op \in {"rd", "rdp"}

Init ==
    /\ space = [s \in TS |-> {}]
    /\ phase = [t \in Thread |-> "idle"]
    /\ op = [t \in Thread |-> NoCall]
    /\ hand = [t \in Thread |-> {}]
    /\ fresh = Tuple
    /\ left = {}

Invoke(t) ==
    /\ phase[t] = "idle"
    /\ \E c \in Calls :
        /\ op' = [op EXCEPT ![t] = c]
        /\ IF c.op = "out"
           THEN \E x \in fresh : /\ hand' = [hand EXCEPT ![t] = {x}]
                                 /\ fresh' = fresh \ {x}
           ELSE UNCHANGED <<hand, fresh>>
    /\ phase' = [phase EXCEPT ![t] = "pending"]
    /\ UNCHANGED <<space, left>>

\* Threads in a call on s that x would serve.
Waiting(s, x) ==
    {u \in Thread : /\ phase[u] = "pending"
                    /\ Takes(op[u]) \/ Reads(op[u])
                    /\ op[u].ts = s
                    /\ Wakes(x, op[u].pattern)}

\* x enters s: some waiting calls are served at once, at most one takes it.
Place(t, s, x, next) ==
    \E W \in SUBSET Waiting(s, x) :
        /\ \A u, v \in W : Takes(op[u]) /\ Takes(op[v]) => u = v
        /\ space' = IF \E u \in W : Takes(op[u]) THEN space
                    ELSE [space EXCEPT ![s] = @ \cup {x}]
        /\ phase' = [u \in Thread |-> IF u = t THEN next
                                      ELSE IF u \in W THEN "done"
                                      ELSE phase[u]]
        /\ hand' = [u \in Thread |-> IF u = t THEN hand[t] \ {x}
                                     ELSE IF u \in W THEN {x}
                                     ELSE hand[u]]

Put(t) ==
    /\ phase[t] = "pending"
    /\ op[t].op = "out"
    /\ \E x \in hand[t] : Place(t, op[t].ts, x, "done")
    /\ UNCHANGED <<op, fresh, left>>

Get(t) ==
    /\ phase[t] = "pending"
    /\ Takes(op[t]) \/ Reads(op[t])
    /\ \E x \in space[op[t].ts] :
        /\ Fills(x, op[t].pattern)
        /\ hand' = [hand EXCEPT ![t] = {x}]
        /\ space' = IF Takes(op[t]) THEN [space EXCEPT ![op[t].ts] = @ \ {x}]
                    ELSE space
    /\ phase' = [phase EXCEPT ![t] = "done"]
    /\ UNCHANGED <<op, fresh, left>>

\* Only inp answers with nothing, and never while a stored tuple would serve it.
Refuse(t) ==
    /\ phase[t] = "pending"
    /\ op[t].op = "inp"
    /\ \A x \in space[op[t].ts] : ~Wakes(x, op[t].pattern)
    /\ phase' = [phase EXCEPT ![t] = "done"]
    /\ UNCHANGED <<space, op, hand, fresh, left>>

Gather(t) ==
    LET M == {x \in space[op[t].ts] : Fills(x, op[t].pattern)}
    IN  /\ phase[t] = "pending"
        /\ \/ /\ op[t].op = "collect"
              /\ space' = [space EXCEPT ![op[t].ts] = @ \ M]
              /\ hand' = [hand EXCEPT ![t] = M]
              /\ UNCHANGED fresh
           \/ /\ op[t].op = "copy_collect"
              /\ \E C \in SUBSET fresh : /\ Copies(C, M)
                                         /\ hand' = [hand EXCEPT ![t] = C]
                                         /\ fresh' = fresh \ C
              /\ UNCHANGED space
        /\ phase' = [phase EXCEPT ![t] = "moving"]
        /\ UNCHANGED <<op, left>>

Move(t) ==
    /\ phase[t] = "moving"
    /\ \E x \in hand[t] : Place(t, op[t].dest, x, "moving")
    /\ UNCHANGED <<op, fresh, left>>

Moved(t) ==
    /\ phase[t] = "moving"
    /\ hand[t] = {}
    /\ phase' = [phase EXCEPT ![t] = "done"]
    /\ UNCHANGED <<space, op, hand, fresh, left>>

Return(t) ==
    /\ phase[t] = "done"
    /\ phase' = [phase EXCEPT ![t] = "idle"]
    /\ op' = [op EXCEPT ![t] = NoCall]
    /\ hand' = [hand EXCEPT ![t] = {}]
    /\ left' = IF Takes(op[t]) THEN left \cup hand[t] ELSE left
    /\ UNCHANGED <<space, fresh>>

Next == \E t \in Thread : \/ Invoke(t)
                          \/ Put(t)
                          \/ Get(t)
                          \/ Refuse(t)
                          \/ Gather(t)
                          \/ Move(t)
                          \/ Moved(t)
                          \/ Return(t)

Spec == Init /\ [][Next]_vars
=============================================================================
