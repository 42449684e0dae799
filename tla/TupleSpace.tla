----------------------------- MODULE TupleSpace -----------------------------
(***************************************************************************)
(* The state and the critical sections of class TupleSpace                 *)
(* (linda/src/linda/tuplespace.py).  Every operator below that primes a    *)
(* variable is the body of one method between self.lock.acquire() and      *)
(* self.lock.release(): the lock makes each a single step.                 *)
(*                                                                         *)
(* A member of Tuple is one tuple object in the server; ValueOf gives its  *)
(* contents, so two members may be equal as tuples.                        *)
(*                                                                         *)
(* An operator whose name ends in _faulty is a version of the next one     *)
(* with a plausible slip in it, which a property has to catch.             *)
(***************************************************************************)
EXTENDS Matching

CONSTANTS Thread,     \* client threads (a thread id is "P<guid>!<n>")
          TS,         \* tuplespaces
          Tuple,      \* tuple objects
          ValueOf,    \* the contents of each tuple object
          Template    \* templates clients ask for

VARIABLES tuples,        \* TupleSpace.ts: the tuples stored in each tuplespace
          blocked_list   \* TupleSpace.blocked_list: who waits, and for what

Entry == [tid: Thread, pattern: Template,
          unblockable: BOOLEAN, destructive: BOOLEAN]

TSTypeOK ==
    /\ tuples \in [TS -> SUBSET Tuple]
    /\ blocked_list \in [TS -> SUBSET Entry]

TSInit ==
    /\ tuples = [s \in TS |-> {}]
    /\ blocked_list = [s \in TS |-> {}]

\* TupleContainer.matchTuples: the stored tuples that fill a template.
matchTuples(s, pattern) ==
    {t \in tuples[s] : doesMatch(ValueOf[t], pattern)}

\* Faulty: only destructive waiters are looked at.
checkBlocked_faulty(s, t) ==
    {e \in blocked_list[s] : e.destructive /\ doesMatch(e.pattern, ValueOf[t])}

\* check_blocked: the waiting threads a new tuple is compared with.  The code
\* passes the waiting template first and the new tuple as the template.
checkBlocked(s, t) ==
    {e \in blocked_list[s] : doesMatch(e.pattern, ValueOf[t])}

\* The sets of threads _out may wake.  The dictionary has no order: readers
\* met before the first destructive waiter are woken with it, or all readers.
wakeable(s, t) ==
    LET takers  == {e \in checkBlocked(s, t) : e.destructive}
        readers == checkBlocked(s, t) \ takers
    IN  IF takers = {}
        THEN {readers}
        ELSE {R \cup {e} : R \in SUBSET readers, e \in takers}

\* Faulty: the woken threads stay in the blocked list.
out_faulty(s, t, woken) ==
    /\ woken \in wakeable(s, t)
    /\ UNCHANGED blocked_list
    /\ tuples' = IF \E e \in woken : e.destructive
                 THEN tuples
                 ELSE [tuples EXCEPT ![s] = @ \cup {t}]

\* _out: wake the threads of woken; store the tuple unless one of them takes it.
out(s, t, woken) ==
    /\ woken \in wakeable(s, t)
    /\ blocked_list' = [blocked_list EXCEPT ![s] = @ \ woken]
    /\ tuples' = IF \E e \in woken : e.destructive
                 THEN tuples
                 ELSE [tuples EXCEPT ![s] = @ \cup {t}]

\* Faulty: nothing is deleted from the tuplespace.
take_faulty(s, t, pattern, destructive) ==
    /\ t \in matchTuples(s, pattern)
    /\ UNCHANGED <<tuples, blocked_list>>

\* _in and _rd when a stored tuple matches.
take(s, t, pattern, destructive) ==
    /\ t \in matchTuples(s, pattern)
    /\ tuples' = IF destructive THEN [tuples EXCEPT ![s] = @ \ {t}] ELSE tuples
    /\ UNCHANGED blocked_list

\* _in and _rd when none does: the thread joins the blocked list.
block(s, entry) ==
    /\ matchTuples(s, entry.pattern) = {}
    /\ blocked_list' = [blocked_list EXCEPT ![s] =
                          {e \in @ : e.tid # entry.tid} \cup {entry}]
    /\ UNCHANGED tuples

\* Faulty: every unblockable entry leaves the blocked list.
unblock_faulty(s, entry) ==
    /\ entry \in blocked_list[s]
    /\ entry.unblockable
    /\ blocked_list' = [blocked_list EXCEPT ![s] = {e \in @ : ~e.unblockable}]
    /\ UNCHANGED tuples

\* unblockRandom: the entry it picks leaves the blocked list.
unblock(s, entry) ==
    /\ entry \in blocked_list[s]
    /\ entry.unblockable
    /\ blocked_list' = [blocked_list EXCEPT ![s] = @ \ {entry}]
    /\ UNCHANGED tuples

nothingToUnblock(s) == \A e \in blocked_list[s] : ~e.unblockable

\* collect: every matching tuple leaves the tuplespace.
collect(s, pattern) ==
    /\ tuples' = [tuples EXCEPT ![s] = @ \ matchTuples(s, pattern)]
    /\ UNCHANGED blocked_list
=============================================================================
