---------------------------- MODULE Ownership_proofs ----------------------------
(***************************************************************************)
(* Who owns a tuplespace, and when it goes: that the lists of owners are   *)
(* exact, that nothing a client can reach is deleted and that nothing      *)
(* without an owner stays, for clients that take handles from UTS only     *)
(* (OnlyFromUTS).                                                          *)
(*                                                                         *)
(* Four invariants are added to IInv of References_proofs, each inductive  *)
(* with those before it:                                                   *)
(*   Sound   an owner is in the list once for each handle, tuple, call and *)
(*           removal that accounts for it, and a walk for garbage          *)
(*           (doGarbageCollection) that has met no process can meet none;  *)
(*   Waited  a thread that will find its reference has the killlock;       *)
(*   Owned   what is in a tuple that can be reached is owned by where it   *)
(*           is;                                                           *)
(*   Tidy    a tuplespace without owners is being looked at, and one that  *)
(*           has gone gives up what was in its tuples (__del__).           *)
(* Step is Next with the records of the handlers taken apart; each         *)
(* invariant has a lemma for each of its disjuncts, or for several.        *)
(***************************************************************************)
EXTENDS References_proofs

(***************************************************************************)
(* The steps with their records taken apart.                               *)
(***************************************************************************)
Asks(p, t, s, c) ==
    /\ p \in pthreads /\ call[p].at = "idle" /\ c \in Calling
    /\ call' = [call EXCEPT ![p] = c]
    /\ UNCHANGED <<server, job, todo, history>>
    /\ \/ /\ c.at = "test" /\ c.op = "copy" /\ c.ts = t /\ t \in Spaces /\ held[p][t] > 0
          /\ UNCHANGED held
       \/ /\ c.at = "test" /\ c.op = "out" /\ c.ts = t /\ c.ref = s /\ t \in Spaces /\ held[p][t] > 0
          /\ s \in Spaces => held[p][s] > 0
          /\ UNCHANGED held
       \/ /\ c.at = "delete" /\ c.ts = t /\ t \in Spaces /\ held[p][t] > 0
          /\ held' = [held EXCEPT ![p][t] = @ - 1]
       \/ /\ c.at = "match" /\ c.from = s /\ <<p, s>> \in program.takes
          /\ UNCHANGED held

\* A client copies or frees a handle, or asks for an out or an in.
LEMMA ClientShape ==
    ASSUME Types, NEW p \in Procs,
           \/ \E t \in Spaces : Copy(p, t) \/ Delete(p, t)
           \/ \E s \in Stores, t \in Spaces : Out(p, s, t)
           \/ \E s \in Stores : In(p, s)
    PROVE  \E t, s, c : Asks(p, t, s, c)
<1>1. ASSUME NEW t \in Spaces, Copy(p, t) PROVE \E u, s, c : Asks(p, u, s, c)
    <2>1. PICK c : c = [at |-> "test", op |-> "copy", ts |-> t, ref |-> p]
        OBVIOUS
    <2>2. c \in Calling /\ c.at = "test" /\ c.op = "copy" /\ c.ts = t
        BY <2>1, CallForms
    <2>3. held[p][t] > 0
        BY <1>1, TypeFacts DEF Types, TypeOK, Copy
    <2>4. Asks(p, t, t, c)
        BY <1>1, <2>1, <2>2, <2>3 DEF Asks, Copy, Calls, Idle
    <2>. QED BY <2>4
<1>2. ASSUME NEW t \in Spaces, Delete(p, t) PROVE \E u, s, c : Asks(p, u, s, c)
    <2>1. PICK c : c = [at |-> "delete", ts |-> t]
        OBVIOUS
    <2>2. c \in Calling /\ c.at = "delete" /\ c.ts = t
        BY <2>1, CallForms
    <2>3. Asks(p, t, t, c)
        BY <1>2, <2>1, <2>2 DEF Asks, Delete, Calls, Idle
    <2>. QED BY <2>3
<1>3. ASSUME NEW s \in Stores, NEW t \in Spaces, Out(p, s, t) PROVE \E u, r, c : Asks(p, u, r, c)
    <2>1. PICK c : c = [at |-> "test", op |-> "out", ts |-> t, ref |-> s]
        OBVIOUS
    <2>2. c \in Calling /\ c.at = "test" /\ c.op = "out" /\ c.ts = t /\ c.ref = s
        BY <2>1, CallForms
    <2>3. s \in Spaces => held[p][s] > 0
        BY <1>3, ReferencesAssumption DEF Out, Holds
    <2>4. Asks(p, t, s, c)
        BY <1>3, <2>1, <2>2, <2>3 DEF Asks, Out, Calls, Idle
    <2>. QED BY <2>4
<1>4. ASSUME NEW s \in Stores, In(p, s) PROVE \E u, r, c : Asks(p, u, r, c)
    <2>1. PICK c : c = [at |-> "match", from |-> s]
        OBVIOUS
    <2>2. c \in Calling /\ c.at = "match" /\ c.from = s
        BY <2>1, CallForms
    <2>3. Asks(p, s, s, c)
        BY <1>4, <2>1, <2>2 DEF Asks, In, Calls, Idle
    <2>. QED BY <2>3
<1>. QED BY <1>1, <1>2, <1>3, <1>4

\* The steps of calls and removals that References_proofs takes apart otherwise.
Puts(p, t, s) ==
    /\ call[p].at = "put" /\ call[p].ts = t /\ call[p].into = s
    /\ t \in Spaces \cap born /\ s \in Stores
    /\ stored' = [stored EXCEPT ![s][t] = @ + 1] /\ call' = [call EXCEPT ![p] = NoCall]
    /\ UNCHANGED <<local_ts, refs, killlock, pthreads, held, job, todo, program, born, missed, skipped>>

\* The end of out_tuple stores the tuple, with the tuplespace its call names.
LEMMA PutTupleShape ==
    ASSUME Types, NEW p \in Procs, PutTuple(p)
    PROVE  \E t, s : Puts(p, t, s)
<1>1. PICK t, s : t = call[p].ts /\ s = call[p].into
    OBVIOUS
<1>2. t \in Spaces \cap born /\ s \in Stores
    BY <1>1, CallKinds, TypeFacts DEF Types, Known, PutTuple
<1>3. Puts(p, t, s)
    BY <1>1, <1>2 DEF PutTuple, Puts, history
<1>. QED BY <1>3

Answers(p, t) ==
    /\ call[p].at = "change" /\ call[p].ts = t /\ job[p].pc = "idle" /\ t \in Spaces \cap born
    /\ held' = [held EXCEPT ![p][t] = @ + 1] /\ call' = [call EXCEPT ![p] = NoCall]
    /\ UNCHANGED <<local_ts, refs, killlock, stored, pthreads, job, todo, program, born, missed, skipped>>

\* in_tuple answers with a handle to the tuplespace its call names.
LEMMA AnswerShape ==
    ASSUME Types, NEW p \in Procs, Answer(p)
    PROVE  \E t : Answers(p, t)
<1>1. PICK t : t = call[p].ts
    OBVIOUS
<1>2. t \in Spaces \cap born
    BY <1>1, CallKinds, TypeFacts DEF Types, Known, Answer
<1>3. Answers(p, t)
    BY <1>1, <1>2 DEF Answer, Answers, server, history
<1>. QED BY <1>3

\* One disjunct for each handler and each part of a removal.
Looks(a, j) ==
    /\ job[a].pc = "lookup" /\ job[a].ts \in Spaces /\ Becomes(a, j)
    /\ \/ /\ job[a].ts \in local_ts /\ j.pc = "remove"
          /\ j.ts = job[a].ts /\ j.ref = job[a].ref /\ j.every = job[a].every
       \/ job[a].ts \notin local_ts /\ j.pc = "idle"
    /\ UNCHANGED <<server, clients, todo, history>>

RemovesAll(t, o, j) ==
    /\ job[Watcher].pc = "remove" /\ job[Watcher].ts = t /\ job[Watcher].ref = o
    /\ t \in Spaces /\ o \in Procs \ pthreads /\ killlock[t] > 0
    /\ refs' = [refs EXCEPT ![t] = Without(@, o)]
    /\ Becomes(Watcher, j) /\ j.pc = "scan" /\ j.ts = t
    /\ UNCHANGED <<local_ts, killlock, stored, pthreads, clients, todo, history>>

Leaves(p) ==
    /\ p \in pthreads /\ call[p].at = "idle"
    /\ pthreads' = pthreads \ {p} /\ todo' = [todo EXCEPT ![p] = local_ts]
    /\ held' = [held EXCEPT ![p] = [t \in Spaces |-> 0]]
    /\ UNCHANGED <<local_ts, refs, killlock, stored, call, job, program, born, missed, skipped>>

Step ==
    \/ UNCHANGED vars
    \/ \E p \in Procs, t \in Spaces : Create(p, t)
    \/ \E p \in Procs : \E t, s, c : Asks(p, t, s, c)
    \/ \E p \in Procs : \E t, d : Tests(p, t, d)
    \/ \E p \in Procs : \E t, o, c : Adds(p, t, o, c)
    \/ \E p \in Procs : \E t, s : Puts(p, t, s)
    \/ \E p \in Procs : \E s, t : Takes(p, s, t)
    \/ \E p \in Procs : \E t, s, c : Changes(p, t, s, c)
    \/ \E p \in Procs : \E t : Answers(p, t)
    \/ \E p \in Procs : \E t : Frees(p, t)
    \/ \E a \in Agents : \E j : Looks(a, j)
    \/ \E a \in Agents : \E t, o, j : Removes(a, t, o, j)
    \/ \E t, o, j : RemovesAll(t, o, j)
    \/ \E a \in Agents : \E j : Searches(a, j)
    \/ \E s \in Spaces, t \in Spaces : \E j : Destroys(s, t, j)
    \/ \E p \in Procs : Leaves(p)
    \/ \E p \in Procs, t \in Spaces : Visits(p, t)

\* Each step of the server and its clients is one of these.
LEMMA Steps ==
    ASSUME Types, Departed, [Next]_vars
    PROVE  Step
<1>1. ASSUME NEW p \in Procs, NEW t \in Spaces, Create(p, t) \/ Copy(p, t) \/ Delete(p, t)
      PROVE  Step
    <2>1. CASE Create(p, t)
        BY <2>1 DEF Step
    <2>2. CASE Copy(p, t) \/ Delete(p, t)
        BY <2>2, ClientShape DEF Step
    <2>. QED BY <1>1, <2>1, <2>2
<1>2. ASSUME NEW p \in Procs, NEW s \in Stores, In(p, s) \/ \E t \in Spaces : Out(p, s, t)
      PROVE  Step
    <2>1. \E t, r, c : Asks(p, t, r, c)
        BY <1>2, ClientShape
    <2>. QED BY <2>1 DEF Step
<1>3. ASSUME NEW p \in Procs, TestTuplespace(p) PROVE Step
    BY <1>3, TestTuplespaceShape DEF Step
<1>4. ASSUME NEW p \in Procs, AddReference(p) PROVE Step
    BY <1>4, AddReferenceShape DEF Step
<1>5. ASSUME NEW p \in Procs, PutTuple(p) PROVE Step
    BY <1>5, PutTupleShape DEF Step
<1>6. ASSUME NEW p \in Procs, Match(p) PROVE Step
    BY <1>6, MatchShape DEF Step
<1>7. ASSUME NEW p \in Procs, ChangeOwner(p) PROVE Step
    BY <1>7, ChangeOwnerShape DEF Step
<1>8. ASSUME NEW p \in Procs, Answer(p) PROVE Step
    BY <1>8, AnswerShape DEF Step
<1>9. ASSUME NEW p \in Procs, DeleteReference(p) PROVE Step
    BY <1>9, DeleteReferenceShape DEF Step
<1>10. ASSUME NEW a \in Agents, Lookup(a) PROVE Step
    <2>1. CASE \E j : /\ Becomes(a, j) /\ j.pc = "remove" /\ j.ts = job[a].ts
                      /\ j.ref = job[a].ref /\ j.every = job[a].every
        <3>1. PICK j : /\ Becomes(a, j) /\ j.pc = "remove" /\ j.ts = job[a].ts
                       /\ j.ref = job[a].ref /\ j.every = job[a].every
            BY <2>1
        <3>2. CASE job[a].ts \in local_ts
            <4>1. Looks(a, j)
                BY <1>10, <3>1, <3>2, LookupShape DEF Looks
            <4>. QED BY <4>1 DEF Step
        <3>3. CASE job[a].ts \notin local_ts
            <4>1. Looks(a, NoJob)
                BY <1>10, <3>3, LookupShape, JobForms DEF Looks
            <4>. QED BY <4>1 DEF Step
        <3>. QED BY <3>2, <3>3
    <2>2. CASE job[a].ts \notin local_ts /\ Becomes(a, NoJob)
        <3>1. Looks(a, NoJob)
            BY <1>10, <2>2, LookupShape, JobForms DEF Looks
        <3>. QED BY <3>1 DEF Step
    <2>. QED BY <1>10, <2>1, <2>2, LookupShape
<1>11. ASSUME NEW a \in Agents, RemoveReference(a) PROVE Step
    BY <1>11, RemoveReferenceShape DEF Step
<1>12. ASSUME NEW a \in Agents, RemoveAnyReferences(a) PROVE Step
    <2>1. PICK t, o : t = job[Watcher].ts /\ o = job[Watcher].ref
        OBVIOUS
    <2>2. PICK j : Becomes(Watcher, j) /\ j.pc = "scan" /\ j.ts = job[Watcher].ts
        BY <1>12, RemoveAnyReferencesShape
    <2>3. RemovesAll(t, o, j)
        BY <1>12, <2>1, <2>2, RemoveAnyReferencesShape DEF RemovesAll
    <2>. QED BY <2>3 DEF Step
<1>13. ASSUME NEW a \in Agents, Search(a) PROVE Step
    BY <1>13, ScanShape, WalkShape, GarbageShape DEF Search, Step
<1>14. ASSUME NEW s \in Spaces, NEW t \in Spaces, Destroy(s, t) PROVE Step
    BY <1>14, DestroyTypes DEF Step
<1>15. ASSUME NEW p \in Procs, Leave(p) PROVE Step
    <2>1. Leaves(p)
        BY <1>15 DEF Leave, Leaves, Idle, history
    <2>. QED BY <2>1 DEF Step
<1>16. ASSUME NEW p \in Procs, NEW t \in Spaces, RemoveProcess(p, t) PROVE Step
    BY <1>16, RemoveProcessTypes DEF Step
<1>17. CASE UNCHANGED vars
    BY <1>17 DEF Step
<1>18. ASSUME NEW a \in Agents, RemovalStep(a) PROVE Step
    BY <1>10, <1>11, <1>12, <1>13, <1>18 DEF RemovalStep, Search
<1>19. ASSUME NEW p \in Procs, Handle(p) PROVE Step
    BY <1>3, <1>4, <1>5, <1>6, <1>7, <1>8, <1>9, <1>19 DEF Handle
<1>. QED BY <1>1, <1>2, <1>14, <1>15, <1>16, <1>17, <1>18, <1>19 DEF Next

(***************************************************************************)
(* Counting removals and handovers.                                        *)
(***************************************************************************)
About(j, t, o) == j.pc \in Holding /\ j.ts = t /\ j.ref = o
Removers(t, o) == {a \in Agents : About(job[a], t, o)}
\* Calls that put a handle into UTS or have taken one from there; calls that hold
\* an owner for what their client is to give up or to get.
Gives(c, t) ==
    \/ c.at = "own" /\ c.ts = t /\ c.from = UTS
    \/ c.at = "put" /\ c.ts = t /\ c.into = UTS
Givers(t) == {p \in Procs : Gives(call[p], t)}
Owes(c, t) == c.at \in {"delete", "change"} /\ c.ts = t

\* The removals under way are those of Removers.
LEMMA Removing == \A t, o : /\ ToRemove(t, o) = Cardinality(Removers(t, o))
                            /\ ToRemove(t, o)' = Cardinality(Removers(t, o)')
BY DEF ToRemove, Removers, About, Holding

\* Destructors do not remove for processes, nor for UTS: the others are few.
LEMMA FewRemovers ==
    ASSUME Types, NEW t, NEW o \in Procs \cup {UTS}
    PROVE  IsFiniteSet(Removers(t, o)) /\ Cardinality(Removers(t, o)) \in Nat
<1>1. Removers(t, o) \subseteq Threads \cup Procs \cup {Watcher}
    <2>1. \A a \in Spaces : ~About(job[a], t, o)
        BY Apart DEF Types, Roles, Role, About, Agents
    <2>. QED BY <2>1, Apart DEF Removers
<1>2. IsFiniteSet(Threads \cup Procs \cup {Watcher})
    BY ReferencesAssumption, FS_Union, FS_Singleton
<1>. QED BY <1>1, <1>2, FS_Subset, FS_CardinalityType

\* As many calls hand a handle over as there are processes, at most.
LEMMA FewGivers ==
    \A t : IsFiniteSet(Givers(t)) /\ Cardinality(Givers(t)) \in Nat
<1>1. \A S \in SUBSET Procs : IsFiniteSet(S) /\ Cardinality(S) \in Nat
    BY ReferencesAssumption, FS_Subset, FS_CardinalityType
<1>. QED BY <1>1 DEF Givers

\* One element of a set of those that satisfy something may change.
LEMMA OneChanges ==
    ASSUME NEW A, NEW B, NEW x, IsFiniteSet(A),
           \A y : y # x => (y \in A <=> y \in B)
    PROVE  /\ Cardinality(A) \in Nat
           /\ Cardinality(B) = Cardinality(A) + (IF x \in B THEN 1 ELSE 0)
                                              - (IF x \in A THEN 1 ELSE 0)
<1>1. Cardinality(A) \in Nat
    BY FS_CardinalityType
<1>2. CASE x \in A <=> x \in B
    <2>1. A = B
        BY <1>2
    <2>. QED BY <1>1, <2>1
<1>3. CASE x \in B /\ x \notin A
    <2>1. B = A \cup {x}
        BY <1>3
    <2>2. Cardinality(B) = Cardinality(A) + 1
        BY <1>3, <2>1, Counting
    <2>. QED BY <1>1, <1>3, <2>2
<1>4. CASE x \in A /\ x \notin B
    <2>1. B = A \ {x}
        BY <1>4
    <2>2. Cardinality(B) = Cardinality(A) - 1
        BY <1>4, <2>1, Counting
    <2>. QED BY <1>1, <1>4, <2>2
<1>. QED BY <1>2, <1>3, <1>4

\* A thread that goes on to another step of a removal, or begins or ends one.
LEMMA RemovingStep ==
    ASSUME Types, NEW a \in Agents, NEW j, Becomes(a, j), NEW t, NEW o \in Procs \cup {UTS}
    PROVE  /\ ToRemove(t, o) \in Nat
           /\ ToRemove(t, o)' = ToRemove(t, o) + (IF About(j, t, o) THEN 1 ELSE 0)
                                               - (IF About(job[a], t, o) THEN 1 ELSE 0)
<1>1. job'[a] = j /\ \A b \in Agents \ {a} : job'[b] = job[b]
    BY JobStep
<1>2. \A b : b # a => (b \in Removers(t, o) <=> b \in Removers(t, o)')
    BY <1>1 DEF Removers
<1>3. (a \in Removers(t, o) <=> About(job[a], t, o)) /\ (a \in Removers(t, o)' <=> About(j, t, o))
    BY <1>1 DEF Removers
<1>4. IsFiniteSet(Removers(t, o))
    BY FewRemovers
<1>5. PICK A, B : A = Removers(t, o) /\ B = Removers(t, o)'
    OBVIOUS
<1>6. /\ Cardinality(A) \in Nat
      /\ Cardinality(B) = Cardinality(A) + (IF a \in B THEN 1 ELSE 0) - (IF a \in A THEN 1 ELSE 0)
    <2>1. IsFiniteSet(A) /\ \A b : b # a => (b \in A <=> b \in B)
        BY <1>2, <1>4, <1>5
    <2>. QED BY <2>1, OneChanges
<1>7. ToRemove(t, o) = Cardinality(A) /\ ToRemove(t, o)' = Cardinality(B)
    BY <1>5, Removing
<1>. QED BY <1>3, <1>5, <1>6, <1>7

\* Removals that do not go on.
LEMMA RemovingSame ==
    ASSUME Types, UNCHANGED job, NEW t, NEW o \in Procs \cup {UTS}
    PROVE  ToRemove(t, o) \in Nat /\ ToRemove(t, o)' = ToRemove(t, o)
BY FewRemovers, Removing DEF ToRemove

\* p's call goes on to c.
LEMMA GivingStep ==
    ASSUME Types, NEW p \in Procs, NEW c, call' = [call EXCEPT ![p] = c], NEW t
    PROVE  /\ Cardinality(Givers(t)) \in Nat
           /\ Cardinality(Givers(t)') = Cardinality(Givers(t)) + (IF Gives(c, t) THEN 1 ELSE 0)
                                             - (IF Gives(call[p], t) THEN 1 ELSE 0)
<1>1. call'[p] = c /\ \A q \in Procs \ {p} : call'[q] = call[q]
    BY DEF Types, TypeOK
<1>2. PICK A, B : A = Givers(t) /\ B = Givers(t)'
    OBVIOUS
<1>3. /\ \A q : q # p => (q \in A <=> q \in B)
      /\ (p \in A <=> Gives(call[p], t)) /\ (p \in B <=> Gives(c, t))
    BY <1>1, <1>2 DEF Givers, Gives
<1>4. IsFiniteSet(A)
    BY <1>2, FewGivers
<1>5. /\ Cardinality(A) \in Nat
      /\ Cardinality(B) = Cardinality(A) + (IF p \in B THEN 1 ELSE 0) - (IF p \in A THEN 1 ELSE 0)
    BY <1>3, <1>4, OneChanges
<1>. QED BY <1>2, <1>3, <1>5

\* No call goes on.
LEMMA GivingSame ==
    ASSUME UNCHANGED call, NEW t
    PROVE  Cardinality(Givers(t)) \in Nat /\ Cardinality(Givers(t)') = Cardinality(Givers(t))
BY FewGivers DEF Givers

(***************************************************************************)
(* The invariant.                                                          *)
(***************************************************************************)
\* Nothing is asked, or handed over, by one that has no handle.
EntitledAt(p) ==
    /\ call[p].at \in {"test", "add", "put"} => held[p][call[p].ts] > 0
    /\ call[p].at \in {"test", "add"} =>
         (call[p].op = "out" /\ call[p].ref \in Spaces => held[p][call[p].ref] > 0)
    /\ call[p].at = "put" /\ call[p].into \in Spaces => held[p][call[p].into] > 0
    /\ call[p].at \in {"match", "own", "change"} => call[p].from = UTS
    /\ p \notin pthreads => \A t \in Spaces : held[p][t] = 0
    /\ job[p].pc # "idle" => call[p].at = "change"
    /\ job[p].pc \in Holding => job[p].ref = UTS
Entitled == \A p \in Procs : EntitledAt(p)

\* Owners and removals are about tuplespaces that were created.
Created ==
    /\ \A t \in Spaces : ToSet(refs[t]) \cap Spaces \subseteq born
    /\ \A s, t \in Spaces : stored[s][t] > 0 => s \in born
    /\ \A a \in Agents : job[a].pc \notin {"idle", "raised"} => job[a].ts \in born
    /\ \A a \in Agents : job[a].pc = "walking" =>
         /\ job[a].memo \subseteq born /\ job[a].ts \in job[a].memo
         /\ ToSet(job[a].queue) \cap Spaces \subseteq born

\* A tuplespace that is not in the container, or is about to go, has no owners.
Gone ==
    /\ \A t \in Spaces \ local_ts : refs[t] = <<>>
    /\ \A a \in Agents : job[a].pc = "drop" => refs[job[a].ts] = <<>>
    /\ \A s \in Spaces : job[s].pc \in Holding => s \in born \ local_ts

\* A process is an owner once for each handle its client has, each that is being
\* removed and the one of a call in between; UTS once for each tuple that is
\* there, or will be.
HandlesCounted == \A t \in Spaces, p \in pthreads :
    Times(refs[t], p) = held[p][t] + ToRemove(t, p) + (IF Owes(call[p], t) THEN 1 ELSE 0)
TuplesCounted == \A t \in Spaces :
    Times(refs[t], UTS) = stored[UTS][t] + ToRemove(t, UTS) + Cardinality(Givers(t))

\* A walk has a process or UTS before it, or all owners of the tuplespaces it
\* has been at: one that ends has met no process.
WalkOK ==
    \A a \in Agents : job[a].pc = "walking" =>
        \/ \E r \in ToSet(job[a].queue) : Active(r)
        \/ \A m \in job[a].memo : ToSet(refs[m]) \subseteq job[a].memo \cup ToSet(job[a].queue)

\* The first invariant: types, and what is counted, walked and created.
Sound == IInv /\ Entitled /\ Created /\ Gone /\ HandlesCounted /\ TuplesCounted /\ WalkOK

(***************************************************************************)
(* What the invariant says of a tuplespace that somebody has.              *)
(***************************************************************************)
LEMMA SoundFacts ==
    ASSUME Sound
    PROVE  Types /\ Departed /\ Passed /\ Entitled /\ Created /\ Gone /\ HandlesCounted /\ TuplesCounted
           /\ WalkOK /\ Left /\ TypeOK
BY DEF Sound, IInv, Passed, Types

\* Owners of a list and their number.
LEMMA TimesFacts ==
    ASSUME Types, NEW t \in Spaces, NEW o
    PROVE  /\ refs[t] \in Seq(Owners) /\ Times(refs[t], o) \in Nat
           /\ Times(refs[t], o) > 0 <=> o \in ToSet(refs[t])
BY TimesType, TypeFacts DEF Types

\* Who has a handle, or one to be removed, is registered and an owner.
LEMMA HandleHeld ==
    ASSUME Sound, NEW p \in Procs, NEW t \in Spaces,
           held[p][t] > 0 \/ (p \in pthreads /\ (Owes(call[p], t) \/ ToRemove(t, p) > 0))
    PROVE  p \in pthreads /\ p \in ToSet(refs[t])
<1>1. p \in pthreads
    BY SoundFacts DEF Entitled, EntitledAt
<1>2. held[p][t] \in Nat /\ ToRemove(t, p) \in Nat
    BY SoundFacts, TypeFacts, FewRemovers, Removing
<1>3. Times(refs[t], p) = held[p][t] + ToRemove(t, p) + (IF Owes(call[p], t) THEN 1 ELSE 0)
    BY <1>1, SoundFacts DEF HandlesCounted
<1>4. Times(refs[t], p) > 0
    BY <1>2, <1>3
<1>. QED BY <1>1, <1>4, TimesFacts, SoundFacts

\* UTS owns what is in its tuples, what will be and what a call has taken.
LEMMA TupleStored ==
    ASSUME Sound, NEW t \in Spaces,
           stored[UTS][t] > 0 \/ ToRemove(t, UTS) > 0 \/ \E p \in Procs : Gives(call[p], t)
    PROVE  UTS \in ToSet(refs[t])
<1>1. stored[UTS][t] \in Nat /\ ToRemove(t, UTS) \in Nat /\ Cardinality(Givers(t)) \in Nat
    BY SoundFacts, TypeFacts, FewRemovers, FewGivers, Removing DEF Stores
<1>2. (\E p \in Procs : Gives(call[p], t)) => Cardinality(Givers(t)) > 0
    BY <1>1, FewGivers, FS_EmptySet DEF Givers
<1>3. Times(refs[t], UTS) > 0
    BY <1>1, <1>2, SoundFacts DEF TuplesCounted
<1>. QED BY <1>3, TimesFacts, SoundFacts

\* A tuplespace that a process or UTS owns is there, and nobody is about to
\* delete it: it is not at the end of a removal, and a walk that has been there
\* has a process or UTS before it.
LEMMA Alive ==
    ASSUME Sound, NEW t \in Spaces, NEW o \in Procs \cup {UTS}, o \in ToSet(refs[t])
    PROVE  /\ t \in local_ts
           /\ \A a \in Agents : job[a].pc = "drop" => job[a].ts # t
           /\ \A a \in Agents : job[a].pc = "walking" /\ t \in job[a].memo =>
                \E r \in ToSet(job[a].queue) : Active(r)
<1>1. refs[t] # <<>>
    BY TimesEmpty
<1>2. t \in local_ts /\ \A a \in Agents : job[a].pc = "drop" => job[a].ts # t
    BY <1>1, SoundFacts DEF Gone
<1>3. ASSUME NEW a \in Agents, job[a].pc = "walking", t \in job[a].memo
      PROVE  \E r \in ToSet(job[a].queue) : Active(r)
    <2>1. o \notin job[a].memo
        <3>1. job[a].memo \subseteq Spaces
            BY <1>3, SoundFacts DEF Created, TypeOK
        <3>. QED BY <3>1, Apart
    <2>2. CASE \A m \in job[a].memo : ToSet(refs[m]) \subseteq job[a].memo \cup ToSet(job[a].queue)
        <3>1. o \in ToSet(job[a].queue)
            BY <1>3, <2>1, <2>2
        <3>. QED BY <3>1 DEF Active
    <2>. QED BY <1>3, <2>2, SoundFacts DEF WalkOK
<1>. QED BY <1>2, <1>3

(***************************************************************************)
(* Entitled.                                                               *)
(***************************************************************************)
LEMMA EntitledFrame ==
    ASSUME NEW q \in Procs, EntitledAt(q), call'[q] = call[q], job'[q] = job[q],
           held'[q] = held[q], q \in pthreads' <=> q \in pthreads
    PROVE  EntitledAt(q)'
BY DEF EntitledAt

\* create_tuplespace: the new handle is the only one.
LEMMA EntitledCreate ==
    ASSUME Sound, NEW p \in Procs, NEW t \in Spaces, Create(p, t)
    PROVE  Entitled'
<1> SUFFICES ASSUME NEW q \in Procs PROVE EntitledAt(q)'
    BY DEF Entitled
<1>1. EntitledAt(q)
    BY SoundFacts DEF Entitled
<1>2. /\ held' = [held EXCEPT ![p][t] = 1] /\ p \in pthreads
      /\ held \in [Procs -> [Spaces -> Nat]] /\ UNCHANGED <<pthreads, call, job>>
    BY SoundFacts DEF Create, Idle, TypeOK
<1>3. CASE q # p
    BY <1>1, <1>2, <1>3, EntitledFrame
<1>4. CASE q = p
    <2>1. \A u \in Spaces : held[p][u] > 0 => held'[p][u] > 0
        BY <1>2
    <2>2. call[q] \in Calling /\ (call[q].at \in {"test", "add", "put"} => call[q].ts \in Spaces)
        BY SoundFacts, TypeFacts, CallKinds
    <2>. QED BY <1>1, <1>2, <1>4, <2>1, <2>2 DEF EntitledAt
<1>. QED BY <1>3, <1>4

\* A step of p that changes its call and handles only.
LEMMA EntitledCall ==
    ASSUME Sound, NEW p \in Procs, NEW c \in Calling, call' = [call EXCEPT ![p] = c],
           UNCHANGED <<job, pthreads>>, \A q \in Procs \ {p} : held'[q] = held[q],
           p \in pthreads, job[p].pc = "idle",
           c.at \in {"test", "add", "put"} => held'[p][c.ts] > 0,
           c.at \in {"test", "add"} => (c.op = "out" /\ c.ref \in Spaces => held'[p][c.ref] > 0),
           c.at = "put" /\ c.into \in Spaces => held'[p][c.into] > 0,
           c.at \in {"match", "own", "change"} => c.from = UTS
    PROVE  Entitled'
<1> SUFFICES ASSUME NEW q \in Procs PROVE EntitledAt(q)'
    BY DEF Entitled
<1>1. EntitledAt(q) /\ call'[p] = c /\ \A r \in Procs \ {p} : call'[r] = call[r]
    BY SoundFacts DEF Entitled, TypeOK
<1>2. CASE q # p
    BY <1>1, <1>2, EntitledFrame
<1>3. CASE q = p
    BY <1>1, <1>3 DEF EntitledAt, Holding
<1>. QED BY <1>2, <1>3

\* The one who makes a call is there, and its handler removes nothing yet.
LEMMA Caller ==
    ASSUME Sound, NEW p \in Procs, call[p].at # "idle" \/ p \in pthreads
    PROVE  p \in pthreads /\ EntitledAt(p) /\ (call[p].at # "change" => job[p].pc = "idle")
BY SoundFacts DEF Left, Entitled, EntitledAt

\* A client asks about handles it has.
LEMMA EntitledAsks ==
    ASSUME OnlyFromUTS, Sound, NEW p \in Procs, NEW t, NEW s, NEW c, Asks(p, t, s, c)
    PROVE  Entitled'
<1>1. /\ p \in pthreads /\ job[p].pc = "idle" /\ c \in Calling /\ call' = [call EXCEPT ![p] = c]
      /\ UNCHANGED <<job, pthreads>>
    BY Caller DEF Asks, server
<1>2. \A q \in Procs \ {p} : held'[q] = held[q]
    BY SoundFacts DEF Asks, TypeOK
<1>3. c.at = "match" => c.from = UTS
    <2>1. program \in Programs
        BY SoundFacts DEF TypeOK
    <2>2. c.at = "match" => <<p, c.from>> \in program.takes
        BY DEF Asks
    <2>. QED BY <2>1, <2>2 DEF OnlyFromUTS
<1>4. c.at \in {"test", "delete", "match"}
    BY DEF Asks
<1>5. c.at = "test" => /\ held'[p][c.ts] > 0
                       /\ c.op = "out" /\ c.ref \in Spaces => held'[p][c.ref] > 0
    BY DEF Asks
<1>. QED BY <1>1, <1>2, <1>3, <1>4, <1>5, EntitledCall

\* Handlers that go on keep what entitles their call.
LEMMA EntitledHandler ==
    ASSUME Sound, NEW p \in Procs,
           \/ \E t, d : Tests(p, t, d)
           \/ \E t, o, c : Adds(p, t, o, c)
           \/ \E t, s : Puts(p, t, s)
           \/ \E s, t : Takes(p, s, t)
           \/ \E t : Answers(p, t)
    PROVE  Entitled'
<1>1. ASSUME NEW t, NEW d, Tests(p, t, d) PROVE Entitled'
    <2>1. p \in pthreads /\ EntitledAt(p) /\ job[p].pc = "idle"
        BY <1>1, Caller DEF Tests
    <2>2. /\ d \in Calling /\ call' = [call EXCEPT ![p] = d] /\ UNCHANGED <<job, pthreads, held>>
          /\ d.at = "add"
        BY <1>1 DEF Tests
    <2>3. held[p][d.ts] > 0 /\ (d.op = "out" /\ d.ref \in Spaces => held[p][d.ref] > 0)
        BY <1>1, <2>1 DEF Tests, EntitledAt
    <2>. QED BY <2>1, <2>2, <2>3, EntitledCall
<1>2. ASSUME NEW t, NEW o, NEW c, Adds(p, t, o, c) PROVE Entitled'
    <2>1. p \in pthreads /\ EntitledAt(p) /\ job[p].pc = "idle"
        BY <1>2, Caller DEF Adds
    <2>2. c \in Calling /\ call' = [call EXCEPT ![p] = c] /\ UNCHANGED <<job, pthreads>>
        BY <1>2 DEF Adds
    <2>3. \A q \in Procs \ {p} : held'[q] = held[q]
        BY <1>2, SoundFacts DEF Adds, TypeOK
    <2>4. \/ c.at \in {"hung", "idle"}
          \/ c.at = "put" /\ UNCHANGED held /\ held[p][c.ts] > 0 /\ (c.into \in Spaces => held[p][c.into] > 0)
        BY <1>2, <2>1, CallForms DEF Adds, EntitledAt
    <2>. QED BY <2>1, <2>2, <2>3, <2>4, EntitledCall
<1>3. ASSUME NEW t, NEW s, Puts(p, t, s) PROVE Entitled'
    <2>1. p \in pthreads /\ job[p].pc = "idle"
        BY <1>3, Caller DEF Puts
    <2>. QED BY <1>3, <2>1, EntitledCall, CallForms DEF Puts
<1>4. ASSUME NEW s, NEW t, Takes(p, s, t) PROVE Entitled'
    <2>1. p \in pthreads /\ EntitledAt(p) /\ job[p].pc = "idle"
        BY <1>4, Caller DEF Takes
    <2>2. PICK c : c = [at |-> "own", ts |-> t, from |-> s]
        OBVIOUS
    <2>3. c \in Calling /\ c.at = "own" /\ c.from = UTS
        BY <1>4, <2>1, <2>2, CallForms DEF Takes, EntitledAt
    <2>. QED BY <1>4, <2>1, <2>2, <2>3, EntitledCall DEF Takes
<1>5. ASSUME NEW t, Answers(p, t) PROVE Entitled'
    <2>1. p \in pthreads
        BY <1>5, Caller DEF Answers
    <2>2. \A q \in Procs \ {p} : held'[q] = held[q]
        BY <1>5, SoundFacts DEF Answers, TypeOK
    <2>. QED BY <1>5, <2>1, <2>2, EntitledCall, CallForms DEF Answers
<1>. QED BY <1>1, <1>2, <1>3, <1>4, <1>5

\* changeOwner: the handle of the taker replaces that of UTS.
LEMMA EntitledChanges ==
    ASSUME Sound, NEW p \in Procs, NEW t, NEW s, NEW c, Changes(p, t, s, c)
    PROVE  Entitled'
<1>1. p \in pthreads /\ EntitledAt(p) /\ job[p].pc = "idle" /\ s = UTS
    BY Caller DEF Changes, EntitledAt
<1>2. CASE UNCHANGED job /\ c.at = "hung"
    BY <1>1, <1>2, EntitledCall DEF Changes
<1>3. CASE c.at = "change" /\ c.from = s /\ job' = [job EXCEPT ![p] = Removal(t, s, FALSE)]
    <2> SUFFICES ASSUME NEW q \in Procs PROVE EntitledAt(q)'
        BY DEF Entitled
    <2>1. EntitledAt(q) /\ call' = [call EXCEPT ![p] = c] /\ UNCHANGED <<held, pthreads>>
        BY SoundFacts DEF Entitled, Changes
    <2>2. PICK j : j = Removal(t, s, FALSE)
        OBVIOUS
    <2>3. /\ j.ref = s
          /\ call'[p] = c /\ job'[p] = j
          /\ \A r \in Procs \ {p} : call'[r] = call[r] /\ job'[r] = job[r]
        BY <1>3, <2>1, <2>2, SoundFacts DEF Removal, TypeOK, Agents
    <2>4. CASE q # p
        BY <2>1, <2>3, <2>4, EntitledFrame
    <2>5. CASE q = p
        BY <1>1, <1>3, <2>1, <2>3, <2>5 DEF EntitledAt
    <2>. QED BY <2>4, <2>5
<1>. QED BY <1>2, <1>3 DEF Changes

\* delete_reference: the thread it starts removes a handle that was given up.
LEMMA EntitledFrees ==
    ASSUME Sound, NEW p \in Procs, NEW t, Frees(p, t)
    PROVE  Entitled'
<1>1. p \in pthreads /\ job[p].pc = "idle"
    BY Caller DEF Frees
<1>2. call' = [call EXCEPT ![p] = NoCall] /\ UNCHANGED <<held, pthreads>>
    BY DEF Frees
<1>3. \A q \in Procs : job'[q] = job[q]
    <2>1. CASE UNCHANGED job
        BY <2>1
    <2>2. CASE \E w \in Threads : job' = [job EXCEPT ![w] = Removal(t, p, FALSE)]
        <3>1. PICK w \in Threads : job' = [job EXCEPT ![w] = Removal(t, p, FALSE)]
            BY <2>2
        <3>2. job \in [Agents -> Jobs] /\ Procs \subseteq Agents /\ w \notin Procs
            BY SoundFacts, Apart DEF TypeOK, Agents
        <3>. QED BY <3>1, <3>2
    <2>. QED BY <2>1, <2>2 DEF Frees
<1> SUFFICES ASSUME NEW q \in Procs PROVE EntitledAt(q)'
    BY DEF Entitled
<1>4. /\ EntitledAt(q) /\ call'[p] = NoCall
      /\ \A r \in Procs \ {p} : call'[r] = call[r]
    BY <1>2, SoundFacts DEF Entitled, TypeOK
<1>5. CASE q # p
    BY <1>2, <1>3, <1>4, <1>5, EntitledFrame
<1>6. CASE q = p
    BY <1>1, <1>2, <1>3, <1>4, <1>6, CallForms DEF EntitledAt, Holding
<1>. QED BY <1>5, <1>6

\* A removal that is under way stays a removal of its caller's.
LEMMA EntitledJob ==
    ASSUME Sound, NEW a \in Agents, NEW j, Becomes(a, j), UNCHANGED <<call, held, pthreads>>,
           a \notin Procs \/ (job[a].pc # "idle" /\ (j.pc \in Holding => j.ref = job[a].ref /\ job[a].pc \in Holding))
    PROVE  Entitled'
<1> SUFFICES ASSUME NEW q \in Procs PROVE EntitledAt(q)'
    BY DEF Entitled
<1>1. EntitledAt(q) /\ job'[a] = j /\ \A b \in Agents \ {a} : job'[b] = job[b]
    BY SoundFacts, JobStep DEF Entitled
<1>2. CASE q # a
    <2>1. job'[q] = job[q]
        BY <1>1, <1>2 DEF Agents
    <2>. QED BY <1>1, <2>1, EntitledFrame
<1>3. CASE q = a
    BY <1>1, <1>3 DEF EntitledAt
<1>. QED BY <1>2, <1>3

\* Entitled is kept by each step.
LEMMA EntitledStep ==
    ASSUME OnlyFromUTS, Sound, Step
    PROVE  Entitled'
<1>1. ASSUME NEW a \in Agents, NEW j, Looks(a, j) PROVE Entitled'
    BY <1>1, EntitledJob DEF Looks, server, clients, Holding
<1>2. ASSUME NEW a \in Agents, NEW t, NEW o, NEW j, Removes(a, t, o, j) PROVE Entitled'
    BY <1>2, EntitledJob DEF Removes, clients, Holding
<1>3. ASSUME NEW t, NEW o, NEW j, RemovesAll(t, o, j) PROVE Entitled'
    BY <1>3, EntitledJob, Apart DEF RemovesAll, clients, Agents
<1>4. ASSUME NEW a \in Agents, NEW j, Searches(a, j) PROVE Entitled'
    BY <1>4, EntitledJob DEF Searches, clients
<1>5. ASSUME NEW s \in Spaces, NEW t \in Spaces, NEW j, Destroys(s, t, j) PROVE Entitled'
    BY <1>5, EntitledJob, Apart DEF Destroys, clients
<1>6. ASSUME NEW p \in Procs, Leaves(p) PROVE Entitled'
    <2> SUFFICES ASSUME NEW q \in Procs PROVE EntitledAt(q)'
        BY DEF Entitled
    <2>1. EntitledAt(q)
        BY SoundFacts DEF Entitled
    <2>2. job[p].pc = "idle"
        BY <1>6, Caller DEF Leaves
    <2>3. CASE q # p
        <3>1. held'[q] = held[q] /\ call'[q] = call[q] /\ job'[q] = job[q] /\ (q \in pthreads' <=> q \in pthreads)
            BY <1>6, <2>3, SoundFacts DEF Leaves, TypeOK
        <3>. QED BY <2>1, <3>1, EntitledFrame
    <2>4. CASE q = p
        <3>1. \A t \in Spaces : held'[p][t] = 0
            BY <1>6, SoundFacts DEF Leaves, TypeOK
        <3>. QED BY <1>6, <2>2, <2>4, <3>1 DEF Leaves, EntitledAt, Holding
    <2>. QED BY <2>3, <2>4
<1>7. ASSUME NEW p \in Procs, NEW t \in Spaces, Visits(p, t) PROVE Entitled'
    <2>1. Watcher \notin Procs /\ Watcher \in Agents /\ UNCHANGED <<call, held, pthreads>>
        BY <1>7, Apart DEF Visits, server, clients, Agents
    <2>2. CASE UNCHANGED job
        BY <2>1, <2>2, SoundFacts DEF Entitled, EntitledAt
    <2>3. CASE \E j : Becomes(Watcher, j)
        BY <2>1, <2>3, EntitledJob
    <2>. QED BY <1>7, <2>2, <2>3 DEF Visits
<1>8. CASE UNCHANGED vars
    BY <1>8, SoundFacts DEF vars, server, clients, Entitled, EntitledAt
<1>. QED BY <1>1, <1>2, <1>3, <1>4, <1>5, <1>6, <1>7, <1>8, EntitledCreate, EntitledAsks,
         EntitledHandler, EntitledChanges, EntitledFrees DEF Step

(***************************************************************************)
(* What a handler asks about is there.                                     *)
(***************************************************************************)
LEMMA TestsThere ==
    ASSUME Sound, NEW p \in Procs, NEW t, NEW d, Tests(p, t, d)
    PROVE  t \in local_ts /\ p \in ToSet(refs[t]) /\ UNCHANGED <<refs, killlock, local_ts>>
<1>1. p \in pthreads /\ EntitledAt(p)
    BY Caller DEF Tests
<1>2. t \in Spaces /\ held[p][t] > 0
    BY <1>1 DEF Tests, EntitledAt
<1>3. t \in local_ts /\ p \in ToSet(refs[t])
    BY <1>2, HandleHeld, Alive
<1>. QED BY <1>3 DEF Tests

\* add_reference: the process that asks owns the tuplespace, which is there.
LEMMA AddsThere ==
    ASSUME Sound, NEW p \in Procs, NEW t, NEW o, NEW c, Adds(p, t, o, c)
    PROVE  /\ t \in Spaces /\ t \in local_ts /\ p \in ToSet(refs[t]) /\ p \in pthreads
           /\ refs' = [refs EXCEPT ![t] = Append(@, o)] /\ o \in Owners
           /\ o \in Spaces => o \in born
           /\ \/ o = p /\ held' = [held EXCEPT ![p][t] = @ + 1] /\ c.at = "idle"
              \/ o \in Stores /\ UNCHANGED held /\ c.at = "put" /\ c.ts = t /\ c.into = o
<1>1. p \in pthreads /\ EntitledAt(p)
    BY Caller DEF Adds
<1>2. t \in Spaces /\ held[p][t] > 0
    BY <1>1 DEF Adds, EntitledAt
<1>3. t \in local_ts /\ p \in ToSet(refs[t])
    BY <1>2, HandleHeld, Alive
<1>4. call[p].at = "add" /\ call[p].ref = o
    BY DEF Adds
<1>5. CASE call[p].op = "copy"
    <2>1. o = p
        BY <1>4, <1>5, SoundFacts DEF Passed, OwnCopies
    <2>. QED BY <1>1, <1>2, <1>3, <1>5, <2>1, Apart, CallForms DEF Adds, Owners
<1>6. CASE call[p].op = "out" /\ o \in Stores
    <2>1. o \in Spaces => held[p][o] > 0
        BY <1>1, <1>4, <1>6 DEF EntitledAt
    <2>2. o \in Spaces => o \in born
        BY <2>1, SoundFacts DEF Types, Known
    <2>. QED BY <1>1, <1>2, <1>3, <1>6, <2>2 DEF Adds, Owners
<1>. QED BY <1>3, <1>5, <1>6 DEF Adds

\* changeOwner: UTS owns the tuplespace of the tuple, which is there.
LEMMA ChangesThere ==
    ASSUME Sound, NEW p \in Procs, NEW t, NEW s, NEW c, Changes(p, t, s, c)
    PROVE  /\ t \in Spaces /\ t \in local_ts /\ UTS \in ToSet(refs[t]) /\ p \in pthreads /\ s = UTS
           /\ refs' = [refs EXCEPT ![t] = Append(@, p)]
           /\ c.at = "change" /\ c.ts = t
           /\ \E j : Becomes(p, j) /\ j.pc = "lookup" /\ j.ts = t /\ j.ref = UTS /\ job[p].pc = "idle"
<1>1. p \in pthreads /\ s = UTS /\ call[p].from = UTS /\ job[p].pc = "idle"
    BY Caller DEF Changes, EntitledAt
<1>2. t \in Spaces /\ Gives(call[p], t)
    BY <1>1 DEF Changes, Gives
<1>3. t \in local_ts /\ UTS \in ToSet(refs[t])
    BY <1>2, TupleStored, Alive
<1>4. job' = [job EXCEPT ![p] = Removal(t, s, FALSE)] /\ refs' = [refs EXCEPT ![t] = Append(@, p)]
      /\ c.at = "change" /\ c.ts = t
    BY <1>3 DEF Changes
<1>5. PICK j : j = Removal(t, s, FALSE)
    OBVIOUS
<1>6. j.pc = "lookup" /\ j.ts = t /\ j.ref = UTS
    BY <1>1, <1>5 DEF Removal
<1>7. j \in Jobs
    BY <1>1, <1>2, <1>5, JobForms DEF Owners, Stores
<1>8. Becomes(p, j)
    BY <1>4, <1>5, <1>7 DEF Becomes
<1>. QED BY <1>1, <1>2, <1>3, <1>4, <1>6, <1>8

\* delete_reference: the process owns the tuplespace, and its killlock is free.
LEMMA FreesThere ==
    ASSUME Sound, NEW p \in Procs, NEW t, Frees(p, t)
    PROVE  /\ t \in Spaces /\ t \in local_ts /\ p \in pthreads /\ p \in ToSet(refs[t])
           /\ killlock[t] > 0 /\ killlock' = [killlock EXCEPT ![t] = @ - 1]
           /\ \E w \in Threads : \E j : /\ job[w].pc = "idle" /\ Becomes(w, j)
                                        /\ j.pc = "lookup" /\ j.ts = t /\ j.ref = p
<1>1. p \in pthreads
    BY Caller DEF Frees
<1>2. t \in Spaces /\ Owes(call[p], t)
    BY DEF Frees, Owes
<1>3. t \in local_ts /\ p \in ToSet(refs[t])
    BY <1>1, <1>2, HandleHeld, Alive
<1>4. PICK w \in Threads : job[w].pc = "idle" /\ job' = [job EXCEPT ![w] = Removal(t, p, FALSE)]
    BY <1>3 DEF Frees
<1>5. PICK j : j = Removal(t, p, FALSE)
    OBVIOUS
<1>6. j.pc = "lookup" /\ j.ts = t /\ j.ref = p
    BY <1>5 DEF Removal
<1>7. j \in Jobs
    BY <1>2, <1>5, JobForms DEF Owners
<1>8. Becomes(w, j)
    BY <1>4, <1>5, <1>7 DEF Becomes
<1>. QED BY <1>1, <1>2, <1>3, <1>4, <1>6, <1>8 DEF Frees

(***************************************************************************)
(* Created, Gone and WalkOK.                                               *)
(***************************************************************************)
LEMMA CreatedKept ==
    ASSUME Sound, born \subseteq born',
           \A t \in Spaces : ToSet(refs'[t]) \cap Spaces \subseteq ToSet(refs[t]) \cup born',
           \A s, t \in Spaces : stored'[s][t] > 0 => stored[s][t] > 0 \/ s \in born',
           \/ UNCHANGED job
           \/ \E a \in Agents : \E j : /\ Becomes(a, j) /\ j.pc # "walking"
                                       /\ j.pc \notin {"idle", "raised"} => j.ts \in born'
    PROVE  Created'
<1>1. Created /\ Types
    BY SoundFacts
<1>2. \A t \in Spaces : ToSet(refs'[t]) \cap Spaces \subseteq born'
    BY <1>1 DEF Created
<1>3. \A s, t \in Spaces : stored'[s][t] > 0 => s \in born'
    BY <1>1 DEF Created
<1>4. ASSUME NEW a \in Agents
      PROVE  /\ job'[a].pc \notin {"idle", "raised"} => job'[a].ts \in born'
             /\ job'[a].pc = "walking" => job'[a] = job[a]
    <2>1. CASE job'[a] = job[a]
        BY <1>1, <2>1 DEF Created
    <2>2. CASE \E j : job'[a] = j /\ j.pc # "walking" /\ (j.pc \notin {"idle", "raised"} => j.ts \in born')
        BY <2>2
    <2>. QED BY <1>1, <2>1, <2>2, JobStep
<1>5. ASSUME NEW a \in Agents, job'[a].pc = "walking"
      PROVE  /\ job'[a].memo \subseteq born' /\ job'[a].ts \in job'[a].memo
             /\ ToSet(job'[a].queue) \cap Spaces \subseteq born'
    BY <1>1, <1>4, <1>5 DEF Created
<1>. QED BY <1>2, <1>3, <1>4, <1>5 DEF Created

\* Gone is kept when lists are emptied only and no one is about to be dropped again.
LEMMA GoneKept ==
    ASSUME Sound, born \subseteq born',
           \A t \in Spaces \ local_ts' : refs'[t] = <<>>,
           \A t \in Spaces : refs[t] = <<>> /\ refs'[t] # <<>> =>
               \A a \in Agents : job[a].pc = "drop" => job[a].ts # t,
           \A t \in local_ts' : t \in local_ts \/ t \notin born,
           \/ UNCHANGED job
           \/ \E a \in Agents : \E j : /\ Becomes(a, j) /\ (j.pc = "drop" => refs'[j.ts] = <<>>)
                                       /\ a \in Spaces /\ j.pc \in Holding =>
                                            job[a].pc \in Holding \/ a \in born' \ local_ts'
    PROVE  Gone'
<1>1. Gone /\ Created /\ Types
    BY SoundFacts
<1>2. ASSUME NEW a \in Agents, job'[a].pc = "drop" PROVE refs'[job'[a].ts] = <<>>
    <2>1. CASE job'[a] = job[a]
        <3>1. job[a].ts \in Spaces
            BY <1>1, <1>2, <2>1, TypeFacts, JobKinds DEF Types
        <3>. QED BY <1>1, <1>2, <2>1, <3>1 DEF Gone
    <2>2. CASE \E j : job'[a] = j /\ (j.pc = "drop" => refs'[j.ts] = <<>>)
        BY <1>2, <2>2
    <2>. QED BY <1>1, <2>1, <2>2, JobStep
<1>3. ASSUME NEW s \in Spaces, job'[s].pc \in Holding PROVE s \in born' \ local_ts'
    <2>1. s \in Agents
        BY Apart
    <2>2. CASE job[s].pc \in Holding
        BY <1>1, <2>2 DEF Gone
    <2>3. CASE job[s].pc \notin Holding /\ job'[s] # job[s]
        <3>1. PICK a \in Agents : \E j : /\ Becomes(a, j)
                                         /\ a \in Spaces /\ j.pc \in Holding =>
                                              job[a].pc \in Holding \/ a \in born' \ local_ts'
            BY <2>3
        <3>2. PICK j : /\ Becomes(a, j)
                       /\ a \in Spaces /\ j.pc \in Holding =>
                            job[a].pc \in Holding \/ a \in born' \ local_ts'
            BY <3>1
        <3>3. a = s /\ job'[s] = j
            BY <1>1, <2>1, <2>3, <3>2, JobStep
        <3>. QED BY <1>3, <2>3, <3>2, <3>3
    <2>. QED BY <1>3, <2>2, <2>3
<1>. QED BY <1>2, <1>3 DEF Gone

\* WalkOK is kept when owners are added only to what has a process or UTS.
LEMMA WalkKept ==
    ASSUME Sound,
           \A t \in born : \/ ToSet(refs'[t]) \subseteq ToSet(refs[t])
                           \/ \E o \in Procs \cup {UTS} : o \in ToSet(refs[t]),
           \/ UNCHANGED job
           \/ \E a \in Agents : \E j : Becomes(a, j) /\ j.pc # "walking"
    PROVE  WalkOK'
<1> SUFFICES ASSUME NEW a \in Agents, job'[a].pc = "walking"
             PROVE  \/ \E r \in ToSet(job'[a].queue) : Active(r)
                    \/ \A m \in job'[a].memo : ToSet(refs'[m]) \subseteq job'[a].memo \cup ToSet(job'[a].queue)
    BY DEF WalkOK
<1>1. job'[a] = job[a]
    <2>1. ASSUME NEW b \in Agents, NEW j, Becomes(b, j), j.pc # "walking" PROVE job'[a] = job[a]
        BY <2>1, SoundFacts, JobStep
    <2>. QED BY <2>1
<1>2. job[a].memo \subseteq born /\ born \subseteq Spaces
    BY <1>1, SoundFacts DEF Created, TypeOK
<1>3. CASE \E m \in job[a].memo : \E o \in Procs \cup {UTS} : o \in ToSet(refs[m])
    BY <1>1, <1>2, <1>3, Alive
<1>4. CASE \A m \in job[a].memo : ToSet(refs'[m]) \subseteq ToSet(refs[m])
    BY <1>1, <1>4, SoundFacts DEF WalkOK
<1>. QED BY <1>2, <1>3, <1>4

\* The three parts on lists of owners.
Placed == Created /\ Gone /\ WalkOK

\* A list without elements is the empty one.
LEMMA SetEmpty ==
    ASSUME NEW list \in Seq(Owners), ToSet(list) = {}
    PROVE  list = <<>>
<1>1. \A i \in 1 .. Len(list) : list[i] \in ToSet(list)
    BY DEF ToSet
<1>2. Len(list) = 0
    BY <1>1
<1>. QED BY <1>2

\* An owner more.
LEMMA Appended ==
    ASSUME Types, NEW t \in Spaces, NEW o \in Owners, refs' = [refs EXCEPT ![t] = Append(@, o)]
    PROVE  /\ \A u \in Spaces \ {t} : refs'[u] = refs[u]
           /\ ToSet(refs'[t]) = ToSet(refs[t]) \cup {o}
           /\ \A u \in Spaces : \A q :
                Times(refs'[u], q) = Times(refs[u], q) + (IF u = t /\ q = o THEN 1 ELSE 0)
           /\ refs'[t] # <<>>
<1>1. refs[t] \in Seq(Owners) /\ refs'[t] = Append(refs[t], o) /\ \A u \in Spaces \ {t} : refs'[u] = refs[u]
    BY DEF Types, TypeOK
<1>2. /\ ToSet(Append(refs[t], o)) = ToSet(refs[t]) \cup {o}
      /\ \A q : Times(Append(refs[t], o), q) = Times(refs[t], q) + (IF o = q THEN 1 ELSE 0)
    <2>1. \A q : /\ Times(Append(refs[t], o), q) = Times(refs[t], q) + (IF o = q THEN 1 ELSE 0)
                 /\ ToSet(Append(refs[t], o)) = ToSet(refs[t]) \cup {o}
        BY <1>1, TimesAppend
    <2>. QED BY <2>1
<1>3. ASSUME NEW u \in Spaces, NEW q
      PROVE  Times(refs'[u], q) = Times(refs[u], q) + (IF u = t /\ q = o THEN 1 ELSE 0)
    <2>1. Times(refs[u], q) \in Nat
        BY TimesFacts
    <2>2. CASE u = t
        BY <1>1, <1>2, <2>2
    <2>3. CASE u # t
        BY <1>1, <2>1, <2>3
    <2>. QED BY <2>2, <2>3
<1>4. refs'[t] # <<>>
    <2>1. o \in ToSet(refs'[t])
        BY <1>1, <1>2
    <2>. QED BY <2>1, TimesEmpty
<1>. QED BY <1>1, <1>2, <1>3, <1>4

\* Appending an owner to a tuplespace that has one.
LEMMA PlacedAdds ==
    ASSUME Sound, NEW t \in Spaces, NEW o \in Owners, NEW r \in Procs \cup {UTS}, r \in ToSet(refs[t]),
           refs' = [refs EXCEPT ![t] = Append(@, o)], o \in Spaces => o \in born,
           UNCHANGED <<local_ts, stored, born>>,
           \/ UNCHANGED job
           \/ \E a \in Agents \ Spaces : \E j : Becomes(a, j) /\ j.pc = "lookup" /\ j.ts = t
    PROVE  Placed'
<1>1. t \in local_ts /\ \A a \in Agents : job[a].pc = "drop" => job[a].ts # t
    BY Alive
<1>2. t \in born
    BY <1>1, SoundFacts DEF TypeOK
<1>3. /\ ToSet(refs'[t]) = ToSet(refs[t]) \cup {o} /\ refs'[t] # <<>>
      /\ \A u \in Spaces \ {t} : refs'[u] = refs[u]
    BY SoundFacts, Appended
<1>4. Created'
    BY <1>2, <1>3, CreatedKept
<1>5. Gone'
    <2>1. \A u \in Spaces \ local_ts' : refs'[u] = <<>>
        BY <1>1, <1>3, SoundFacts DEF Gone
    <2>2. \A u \in Spaces : refs[u] = <<>> /\ refs'[u] # <<>> => u = t
        BY <1>3
    <2>. QED BY <1>1, <2>1, <2>2, GoneKept DEF Holding
<1>6. WalkOK'
    <2>1. \A u \in born : ToSet(refs'[u]) \subseteq ToSet(refs[u]) \/ r \in ToSet(refs[u])
        <3>1. born \subseteq Spaces
            BY SoundFacts DEF TypeOK
        <3>. QED BY <1>3, <3>1
    <2>. QED BY <2>1, WalkKept
<1>. QED BY <1>4, <1>5, <1>6 DEF Placed

\* Owners go, or none changes.
LEMMA PlacedLess ==
    ASSUME Sound, NEW t \in Spaces,
           refs' = [refs EXCEPT ![t] = refs'[t]] \/ UNCHANGED refs,
           ToSet(refs'[t]) \subseteq ToSet(refs[t]), refs[t] = <<>> => refs'[t] = <<>>,
           \A u, s \in Spaces : stored'[s][u] > 0 => stored[s][u] > 0 \/ s \in born,
           UNCHANGED <<local_ts, born>>,
           \/ UNCHANGED job
           \/ \E a \in Agents : \E j : /\ Becomes(a, j) /\ j.pc # "walking"
                                       /\ j.pc \notin {"idle", "raised"} => j.ts \in born
                                       /\ j.pc = "drop" => refs'[j.ts] = <<>>
                                       /\ a \in Spaces /\ j.pc \in Holding =>
                                            job[a].pc \in Holding \/ a \in born' \ local_ts'
    PROVE  Placed'
<1>1. \A u \in Spaces : ToSet(refs'[u]) \subseteq ToSet(refs[u]) /\ (refs[u] = <<>> => refs'[u] = <<>>)
    BY SoundFacts DEF TypeOK
<1>2. Created'
    BY <1>1, CreatedKept
<1>3. Gone'
    <2>1. \A u \in Spaces \ local_ts' : refs'[u] = <<>>
        BY <1>1, SoundFacts DEF Gone
    <2>. QED BY <1>1, <2>1, GoneKept
<1>4. WalkOK'
    <2>1. born \subseteq Spaces
        BY SoundFacts DEF TypeOK
    <2>. QED BY <1>1, <2>1, WalkKept
<1>. QED BY <1>2, <1>3, <1>4 DEF Placed

\* No list of owners changes.
LEMMA PlacedSame ==
    ASSUME Sound, UNCHANGED <<refs, local_ts, born>>,
           \A u, s \in Spaces : stored'[s][u] > 0 => stored[s][u] > 0 \/ s \in born,
           \/ UNCHANGED job
           \/ \E a \in Agents : \E j : /\ Becomes(a, j) /\ j.pc # "walking"
                                       /\ j.pc \notin {"idle", "raised"} => j.ts \in born
                                       /\ j.pc = "drop" => refs[j.ts] = <<>>
                                       /\ a \in Spaces /\ j.pc \in Holding =>
                                            job[a].pc \in Holding \/ a \in born \ local_ts
    PROVE  Placed'
<1>1. Created'
    BY CreatedKept
<1>2. Gone'
    <2>1. \A u \in Spaces \ local_ts' : refs'[u] = <<>>
        BY SoundFacts DEF Gone
    <2>. QED BY <2>1, GoneKept
<1>3. WalkOK'
    BY WalkKept
<1>. QED BY <1>1, <1>2, <1>3 DEF Placed

\* create_tuplespace makes its process the only owner.
LEMMA PlacedCreate ==
    ASSUME Sound, NEW p \in Procs, NEW t \in Spaces, Create(p, t)
    PROVE  Placed'
<1>1. /\ refs' = [refs EXCEPT ![t] = <<p>>] /\ refs \in [Spaces -> Seq(Owners)]
      /\ local_ts' = local_ts \cup {t} /\ born' = born \cup {t} /\ t \notin born
      /\ UNCHANGED <<stored, job>> /\ local_ts \subseteq born /\ born \subseteq Spaces
    BY SoundFacts DEF Create, TypeOK
<1>2. /\ refs'[t] = <<p>> /\ \A u \in Spaces \ {t} : refs'[u] = refs[u]
      /\ ToSet(<<p>>) = {p} /\ p \notin Spaces
    BY <1>1, Apart DEF ToSet
<1>3. Created'
    <2>1. \A u \in Spaces : ToSet(refs'[u]) \cap Spaces \subseteq ToSet(refs[u]) \cup born'
        BY <1>2
    <2>. QED BY <1>1, <2>1, CreatedKept
<1>4. Gone'
    <2>1. \A u \in Spaces \ local_ts' : refs'[u] = <<>>
        BY <1>1, <1>2, SoundFacts DEF Gone
    <2>2. \A a \in Agents : job[a].pc = "drop" => job[a].ts # t
        BY <1>1, SoundFacts DEF Created
    <2>3. \A u \in Spaces : refs[u] = <<>> /\ refs'[u] # <<>> => u = t
        BY <1>2
    <2>. QED BY <1>1, <2>1, <2>2, <2>3, GoneKept
<1>5. WalkOK'
    <2>1. \A u \in born : refs'[u] = refs[u]
        BY <1>1, <1>2
    <2>. QED BY <1>1, <2>1, WalkKept
<1>. QED BY <1>3, <1>4, <1>5 DEF Placed

\* The calls and handlers that leave the lists of owners alone.
LEMMA PlacedHandler ==
    ASSUME Sound, NEW p \in Procs,
           \/ \E t, s, c : Asks(p, t, s, c)
           \/ \E t, d : Tests(p, t, d)
           \/ \E t, s : Puts(p, t, s)
           \/ \E s, t : Takes(p, s, t)
           \/ \E t : Answers(p, t)
           \/ \E t : Frees(p, t)
           \/ Leaves(p)
    PROVE  Placed'
<1>1. stored \in [Stores -> [Spaces -> Nat]] /\ Spaces \subseteq Stores
    BY SoundFacts DEF TypeOK, Stores
<1>2. ASSUME NEW t, NEW s, NEW c, Asks(p, t, s, c) PROVE Placed'
    BY <1>2, PlacedSame DEF Asks, server, history
<1>3. ASSUME NEW t, NEW d, Tests(p, t, d) PROVE Placed'
    BY <1>3, TestsThere, PlacedSame DEF Tests
<1>4. ASSUME NEW t, NEW s, Puts(p, t, s) PROVE Placed'
    <2>1. s \in Spaces => s \in born
        BY <1>4, Caller, SoundFacts DEF Puts, EntitledAt, Types, Known
    <2>2. \A u, r \in Spaces : stored'[r][u] > 0 => stored[r][u] > 0 \/ r \in born
        BY <1>1, <1>4, <2>1 DEF Puts
    <2>. QED BY <1>4, <2>2, PlacedSame DEF Puts
<1>5. ASSUME NEW s, NEW t, Takes(p, s, t) PROVE Placed'
    <2>1. \A u, r \in Spaces : stored'[r][u] > 0 => stored[r][u] > 0
        BY <1>1, <1>5 DEF Takes
    <2>. QED BY <1>5, <2>1, PlacedSame DEF Takes
<1>6. ASSUME NEW t, Answers(p, t) PROVE Placed'
    BY <1>6, PlacedSame DEF Answers
<1>7. ASSUME NEW t, Frees(p, t) PROVE Placed'
    <2>1. PICK w \in Threads : \E j : Becomes(w, j) /\ j.pc = "lookup" /\ j.ts = t
        BY <1>7, FreesThere
    <2>2. w \in Agents /\ w \notin Spaces
        BY Apart
    <2>. QED BY <1>7, <2>1, <2>2, PlacedSame DEF Frees
<1>8. ASSUME Leaves(p) PROVE Placed'
    BY <1>8, PlacedSame DEF Leaves
<1>. QED BY <1>2, <1>3, <1>4, <1>5, <1>6, <1>7, <1>8

\* add_reference and changeOwner append an owner to a list that has one.
LEMMA PlacedOwns ==
    ASSUME Sound, NEW p \in Procs,
           \/ \E t, o, c : Adds(p, t, o, c)
           \/ \E t, s, c : Changes(p, t, s, c)
    PROVE  Placed'
<1>1. p \in Owners /\ p \in Agents \ Spaces /\ p \notin Spaces
    BY Apart DEF Owners
<1>2. ASSUME NEW t, NEW o, NEW c, Adds(p, t, o, c) PROVE Placed'
    <2>1. /\ t \in Spaces /\ p \in ToSet(refs[t]) /\ refs' = [refs EXCEPT ![t] = Append(@, o)]
          /\ o \in Owners /\ (o \in Spaces => o \in born)
        BY <1>2, AddsThere
    <2>. QED BY <1>2, <2>1, PlacedAdds DEF Adds
<1>3. ASSUME NEW t, NEW s, NEW c, Changes(p, t, s, c) PROVE Placed'
    <2>1. /\ t \in Spaces /\ UTS \in ToSet(refs[t]) /\ refs' = [refs EXCEPT ![t] = Append(@, p)]
          /\ \E j : Becomes(p, j) /\ j.pc = "lookup" /\ j.ts = t
        BY <1>3, ChangesThere
    <2>. QED BY <1>1, <1>3, <2>1, PlacedAdds DEF Changes
<1>. QED BY <1>2, <1>3

\* The steps of removals up to the search.
LEMMA PlacedRemoval ==
    ASSUME Sound,
           \/ \E a \in Agents : \E j : Looks(a, j)
           \/ \E a \in Agents : \E t, o, j : Removes(a, t, o, j)
           \/ \E t, o, j : RemovesAll(t, o, j)
           \/ \E s \in Spaces, t \in Spaces : \E j : Destroys(s, t, j)
           \/ \E p \in Procs, t \in Spaces : Visits(p, t)
    PROVE  Placed'
<1>1. refs \in [Spaces -> Seq(Owners)] /\ stored \in [Stores -> [Spaces -> Nat]] /\ Spaces \subseteq Stores
    BY SoundFacts DEF TypeOK, Stores
<1>2. ASSUME NEW a \in Agents, NEW j, Looks(a, j) PROVE Placed'
    <2>1. job[a].ts \in born
        BY <1>2, SoundFacts DEF Looks, Created
    <2>. QED BY <1>2, <2>1, PlacedSame DEF Looks, server, history, Holding
<1>3. ASSUME NEW a \in Agents, NEW t, NEW o, NEW j, Removes(a, t, o, j) PROVE Placed'
    <2>1. t \in born /\ t \in Spaces /\ refs[t] \in Seq(Owners)
        BY <1>1, <1>3, SoundFacts DEF Removes, Created
    <2>2. CASE o \notin ToSet(refs[t]) /\ UNCHANGED refs /\ j.pc \in {"idle", "raised"}
        BY <1>3, <2>2, PlacedSame DEF Removes, Holding
    <2>3. CASE o \in ToSet(refs[t]) /\ refs' = [refs EXCEPT ![t] = RemoveFirst(@, o)] /\ j.pc = "scan" /\ j.ts = t
        <3>1. refs'[t] = RemoveFirst(refs[t], o) /\ refs' = [refs EXCEPT ![t] = refs'[t]]
            BY <1>1, <2>1, <2>3
        <3>2. ToSet(refs'[t]) \subseteq ToSet(refs[t])
            BY <2>1, <2>3, <3>1, ToSetRemoveFirst
        <3>3. refs[t] # <<>>
            BY <2>3, TimesEmpty
        <3>. QED BY <1>3, <2>1, <2>3, <3>1, <3>2, <3>3, PlacedLess DEF Removes, Holding
    <2>. QED BY <1>3, <2>2, <2>3 DEF Removes
<1>4. ASSUME NEW t, NEW o, NEW j, RemovesAll(t, o, j) PROVE Placed'
    <2>1. t \in born /\ t \in Spaces /\ refs[t] \in Seq(Owners) /\ Watcher \in Agents
        BY <1>1, <1>4, Apart, SoundFacts DEF RemovesAll, Created
    <2>2. refs'[t] = Without(refs[t], o) /\ refs' = [refs EXCEPT ![t] = refs'[t]]
        BY <1>1, <1>4, <2>1 DEF RemovesAll
    <2>3. ToSet(refs'[t]) \subseteq ToSet(refs[t])
        BY <2>1, <2>2, ToSetWithout
    <2>4. refs[t] = <<>> => refs'[t] = <<>>
        <3>1. SUFFICES ASSUME refs[t] = <<>> PROVE refs'[t] = <<>>
            OBVIOUS
        <3>2. refs'[t] \in Seq(Owners) /\ ToSet(refs'[t]) = {}
            BY <2>1, <2>2, <2>3, <3>1, TimesEmpty, TimesWithout
        <3>. QED BY <3>2, SetEmpty
    <2>. QED BY <1>4, <2>1, <2>2, <2>3, <2>4, PlacedLess DEF RemovesAll, clients, history, Holding
<1>5. ASSUME NEW s \in Spaces, NEW t \in Spaces, NEW j, Destroys(s, t, j) PROVE Placed'
    <2>1. t \in born
        BY <1>1, <1>5, SoundFacts DEF Destroys, Types, Known
    <2>2. \A u, r \in Spaces : stored'[r][u] > 0 => stored[r][u] > 0
        BY <1>1, <1>5 DEF Destroys
    <2>3. s \in Agents /\ s \in born \ local_ts /\ Becomes(s, j) /\ j.pc = "lookup" /\ j.ts = t
          /\ UNCHANGED <<refs, local_ts, born>>
        BY <1>5 DEF Destroys, history
    <2>. QED BY <2>1, <2>2, <2>3, PlacedSame
<1>6. ASSUME NEW p \in Procs, NEW t \in Spaces, Visits(p, t) PROVE Placed'
    <2>1. Watcher \in Agents /\ Watcher \notin Spaces /\ local_ts \subseteq born
        BY Apart, SoundFacts DEF TypeOK
    <2>2. UNCHANGED <<refs, local_ts, born, stored>>
        BY <1>6 DEF Visits, server, history
    <2>3. UNCHANGED job \/ \E j : Becomes(Watcher, j) /\ j.pc = "lookup" /\ j.ts \in born
        BY <1>6, <2>1 DEF Visits
    <2>. QED BY <2>1, <2>2, <2>3, PlacedSame
<1>. QED BY <1>2, <1>3, <1>4, <1>5, <1>6

\* Head and tail of a queue.
LEMMA QueueParts ==
    ASSUME NEW q \in Seq(Owners), q # <<>>
    PROVE  Tail(q) \in Seq(Owners) /\ Head(q) \in Owners /\ ToSet(q) = {Head(q)} \cup ToSet(Tail(q))
<1> DEFINE n == Len(q)
<1>1. n \in Nat /\ n >= 1 /\ DOMAIN q = 1 .. n /\ Head(q) = q[1] /\ Tail(q) \in Seq(Owners)
      /\ DOMAIN Tail(q) = 1 .. (n - 1) /\ \A i \in 1 .. (n - 1) : Tail(q)[i] = q[i + 1]
    OBVIOUS
<1>2. ASSUME NEW i \in 1 .. n PROVE q[i] \in {Head(q)} \cup ToSet(Tail(q))
    <2>1. CASE i = 1
        BY <1>1, <2>1
    <2>2. CASE i # 1
        <3>1. i - 1 \in DOMAIN Tail(q) /\ Tail(q)[i - 1] = q[i]
            BY <1>1, <2>2
        <3>. QED BY <3>1 DEF ToSet
    <2>. QED BY <2>1, <2>2
<1>3. ASSUME NEW i \in DOMAIN Tail(q) PROVE Tail(q)[i] \in ToSet(q)
    <2>1. i + 1 \in DOMAIN q /\ Tail(q)[i] = q[i + 1]
        BY <1>1, <1>3
    <2>. QED BY <2>1 DEF ToSet
<1>4. Head(q) \in ToSet(q) /\ Head(q) \in Owners
    BY <1>1 DEF ToSet
<1>. QED BY <1>1, <1>2, <1>3, <1>4 DEF ToSet

\* The elements of two queues put together.
LEMMA QueuesJoined ==
    ASSUME NEW q \in Seq(Owners), NEW r \in Seq(Owners)
    PROVE  ToSet(q \o r) = ToSet(q) \cup ToSet(r)
<1>1. /\ Len(q) \in Nat /\ Len(r) \in Nat /\ DOMAIN q = 1 .. Len(q) /\ DOMAIN r = 1 .. Len(r)
      /\ DOMAIN (q \o r) = 1 .. (Len(q) + Len(r))
      /\ \A i \in 1 .. (Len(q) + Len(r)) :
            (q \o r)[i] = IF i <= Len(q) THEN q[i] ELSE r[i - Len(q)]
    BY Concatenation
<1>2. ASSUME NEW i \in DOMAIN (q \o r) PROVE (q \o r)[i] \in ToSet(q) \cup ToSet(r)
    <2>1. CASE i <= Len(q)
        <3>1. i \in DOMAIN q /\ (q \o r)[i] = q[i]
            BY <1>1, <2>1
        <3>. QED BY <3>1 DEF ToSet
    <2>2. CASE i > Len(q)
        <3>1. i - Len(q) \in DOMAIN r /\ (q \o r)[i] = r[i - Len(q)]
            BY <1>1, <2>2
        <3>. QED BY <3>1 DEF ToSet
    <2>. QED BY <1>1, <2>1, <2>2
<1>3. ASSUME NEW i \in DOMAIN q PROVE q[i] \in ToSet(q \o r)
    <2>1. i \in DOMAIN (q \o r) /\ (q \o r)[i] = q[i]
        BY <1>1
    <2>. QED BY <2>1 DEF ToSet
<1>4. ASSUME NEW i \in DOMAIN r PROVE r[i] \in ToSet(q \o r)
    <2>1. i + Len(q) \in DOMAIN (q \o r) /\ (q \o r)[i + Len(q)] = r[i]
        BY <1>1
    <2>. QED BY <2>1 DEF ToSet
<1>. QED BY <1>2, <1>3, <1>4 DEF ToSet

\* A walk goes on to another tuplespace.
LEMMA WalksOn ==
    ASSUME Sound, NEW a \in Agents, NEW j \in Jobs, j.pc = "walking", j.ts = job[a].ts, Walks(a, j)
    PROVE  /\ j.memo \subseteq born /\ j.ts \in j.memo /\ ToSet(j.queue) \cap Spaces \subseteq born
           /\ \/ \E r \in ToSet(j.queue) : Active(r)
              \/ \A m \in j.memo : ToSet(refs[m]) \subseteq j.memo \cup ToSet(j.queue)
<1>1. job[a] \in Jobs /\ \A t \in Spaces : refs[t] \in Seq(Owners)
    BY SoundFacts, TypeFacts
<1>2. CASE job[a].pc = "walk" /\ j.queue = refs[j.ts] /\ j.memo = {j.ts}
    <2>1. j.ts \in born /\ j.ts \in Spaces
        BY <1>1, <1>2, JobKinds, SoundFacts DEF Created
    <2>2. ToSet(refs[j.ts]) \cap Spaces \subseteq born
        BY <2>1, SoundFacts DEF Created
    <2>. QED BY <1>2, <2>1, <2>2
<1>3. CASE job[a].pc = "walking"
    <2>1. PICK q, m, r : q = job[a].queue /\ m = job[a].memo /\ r = Head(q)
        OBVIOUS
    <2>2. /\ q \in Seq(Owners) /\ m \subseteq born /\ m \subseteq Spaces /\ job[a].ts \in m
          /\ ToSet(q) \cap Spaces \subseteq born
        <3>1. q \in Seq(Owners)
            BY <1>1, <1>3, <2>1, JobKinds
        <3>2. m \subseteq born /\ job[a].ts \in m /\ ToSet(q) \cap Spaces \subseteq born
            BY <1>3, <2>1, SoundFacts DEF Created
        <3>3. born \subseteq Spaces
            BY SoundFacts DEF TypeOK
        <3>. QED BY <3>1, <3>2, <3>3
    <2>3. \/ \E s \in ToSet(q) : Active(s)
          \/ \A u \in m : ToSet(refs[u]) \subseteq m \cup ToSet(q)
        BY <1>3, <2>1, SoundFacts DEF WalkOK
    <2>4. q # <<>> /\ Tail(q) \in Seq(Owners) /\ ToSet(q) = {r} \cup ToSet(Tail(q))
        BY <1>3, <2>1, <2>2, QueueParts DEF Walks
    <2>5. \A s \in Spaces : ~Active(s)
        BY Apart DEF Active
    <2>6. CASE r \in m /\ j.memo = m /\ j.queue = Tail(q)
        <3>1. \/ \E s \in ToSet(Tail(q)) : Active(s)
              \/ \A u \in m : ToSet(refs[u]) \subseteq m \cup ToSet(Tail(q))
            BY <2>2, <2>3, <2>4, <2>5, <2>6
        <3>. QED BY <2>2, <2>4, <2>6, <3>1
    <2>7. CASE /\ r \in Spaces \ m /\ j.memo = m \cup {r}
               /\ j.queue = Tail(q) \o (IF r \in local_ts THEN refs[r] ELSE <<>>)
        <3>1. r \in local_ts \/ refs[r] = <<>>
            BY <2>7, SoundFacts DEF Gone
        <3>2. j.queue = Tail(q) \o refs[r] /\ refs[r] \in Seq(Owners)
            BY <1>1, <2>7, <3>1
        <3>3. ToSet(j.queue) = ToSet(Tail(q)) \cup ToSet(refs[r])
            BY <2>4, <3>2, QueuesJoined
        <3>4. r \in born /\ ToSet(refs[r]) \cap Spaces \subseteq born
            BY <2>2, <2>4, <2>7, SoundFacts DEF Created
        <3>5. \/ \E s \in ToSet(Tail(q)) : Active(s)
              \/ \A u \in m : ToSet(refs[u]) \subseteq m \cup {r} \cup ToSet(Tail(q))
            BY <2>3, <2>4, <2>5, <2>7
        <3>. QED BY <2>2, <2>4, <2>7, <3>3, <3>4, <3>5
    <2>. QED BY <1>3, <2>1, <2>6, <2>7 DEF Walks
<1>. QED BY <1>2, <1>3 DEF Walks

\* The steps of isLocallyDeadlocked and doGarbageCollection.
LEMMA PlacedSearches ==
    ASSUME Sound, NEW a \in Agents, NEW j, Searches(a, j)
    PROVE  Placed'
<1>1. /\ Becomes(a, j) /\ job[a].ts \in Spaces /\ job[a].ts \in born /\ j.pc \notin Holding /\ j \in Jobs
      /\ j.pc \notin {"idle", "raised"} => j.ts = job[a].ts
      /\ j.pc = "drop" => refs[job[a].ts] = <<>>
      /\ UNCHANGED <<stored, born>>
    BY SoundFacts DEF Searches, Created, Becomes
<1>2. refs \in [Spaces -> Seq(Owners)]
    BY SoundFacts DEF TypeOK
<1>3. CASE Clears(a, j)
    <2>1. refs'[job[a].ts] = <<>> /\ refs' = [refs EXCEPT ![job[a].ts] = refs'[job[a].ts]]
          /\ UNCHANGED local_ts /\ j.pc = "garbage"
        BY <1>1, <1>2, <1>3 DEF Clears
    <2>2. ToSet(refs'[job[a].ts]) \subseteq ToSet(refs[job[a].ts])
        BY <2>1, TimesEmpty
    <2>. QED BY <1>1, <2>1, <2>2, PlacedLess DEF Holding
<1>4. CASE Drops(a, j)
    <2>1. local_ts' = local_ts \ {job[a].ts} /\ UNCHANGED refs /\ j.pc = "idle" /\ job[a].pc = "drop"
        BY <1>4 DEF Drops
    <2>2. Created'
        BY <1>1, <2>1, CreatedKept
    <2>3. Gone'
        <3>1. refs[job[a].ts] = <<>>
            BY <2>1, SoundFacts DEF Gone
        <3>2. \A u \in Spaces \ local_ts' : refs'[u] = <<>>
            BY <2>1, <3>1, SoundFacts DEF Gone
        <3>. QED BY <1>1, <2>1, <3>2, GoneKept
    <2>4. WalkOK'
        BY <1>1, <2>1, WalkKept
    <2>. QED BY <2>2, <2>3, <2>4 DEF Placed
<1>5. CASE UNCHANGED <<refs, local_ts>> /\ j.pc # "walking"
    BY <1>1, <1>5, PlacedSame
<1>6. CASE UNCHANGED <<refs, local_ts>> /\ j.pc = "walking"
    <2>1. /\ job'[a] = j /\ \A b \in Agents \ {a} : job'[b] = job[b]
        BY <1>1, SoundFacts, JobStep
    <2>2. /\ j.memo \subseteq born /\ j.ts \in j.memo /\ ToSet(j.queue) \cap Spaces \subseteq born
          /\ \/ \E r \in ToSet(j.queue) : Active(r)
             \/ \A m \in j.memo : ToSet(refs[m]) \subseteq j.memo \cup ToSet(j.queue)
        BY <1>1, <1>6, WalksOn DEF Searches
    <2>3. Created'
        <3>1. \A b \in Agents : job'[b].pc \notin {"idle", "raised"} => job'[b].ts \in born
            BY <1>1, <1>6, <2>1, SoundFacts DEF Created
        <3>2. \A b \in Agents : job'[b].pc = "walking" =>
                /\ job'[b].memo \subseteq born /\ job'[b].ts \in job'[b].memo
                /\ ToSet(job'[b].queue) \cap Spaces \subseteq born
            BY <2>1, <2>2, SoundFacts DEF Created
        <3>. QED BY <1>1, <1>6, <3>1, <3>2, SoundFacts DEF Created
    <2>4. Gone'
        <3>1. \A u \in Spaces \ local_ts' : refs'[u] = <<>>
            BY <1>6, SoundFacts DEF Gone
        <3>. QED BY <1>1, <1>6, <3>1, GoneKept
    <2>5. WalkOK'
        <3> SUFFICES ASSUME NEW b \in Agents, job'[b].pc = "walking"
                     PROVE  \/ \E r \in ToSet(job'[b].queue) : Active(r)
                            \/ \A m \in job'[b].memo : ToSet(refs'[m]) \subseteq job'[b].memo \cup ToSet(job'[b].queue)
            BY DEF WalkOK
        <3>1. CASE b = a
            BY <1>6, <2>1, <2>2, <3>1
        <3>2. CASE b # a
            BY <1>6, <2>1, <3>2, SoundFacts DEF WalkOK
        <3>. QED BY <3>1, <3>2
    <2>. QED BY <2>3, <2>4, <2>5 DEF Placed
<1>. QED BY <1>3, <1>4, <1>5, <1>6 DEF Searches

\* Each step.
LEMMA PlacedStep ==
    ASSUME Sound, Step
    PROVE  Placed'
<1>1. CASE UNCHANGED vars
    BY <1>1, PlacedSame DEF vars, server, history
<1>. QED BY <1>1, PlacedCreate, PlacedHandler, PlacedOwns, PlacedRemoval, PlacedSearches DEF Step

(***************************************************************************)
(* The counts.                                                             *)
(***************************************************************************)
Owing(c, t) == IF Owes(c, t) THEN 1 ELSE 0
HandlesAt(t, p) == Times(refs[t], p) = held[p][t] + ToRemove(t, p) + Owing(call[p], t)
TuplesAt(t) == Times(refs[t], UTS) = stored[UTS][t] + ToRemove(t, UTS) + Cardinality(Givers(t))
Counted == HandlesCounted /\ TuplesCounted

\* The counts, tuplespace by tuplespace.
LEMMA CountedAt ==
    /\ Counted <=> (\A t \in Spaces, p \in pthreads : HandlesAt(t, p)) /\ \A t \in Spaces : TuplesAt(t)
    /\ Counted' <=> (\A t \in Spaces, p \in pthreads' : HandlesAt(t, p)') /\ \A t \in Spaces : TuplesAt(t)'
BY DEF Counted, HandlesCounted, TuplesCounted, HandlesAt, TuplesAt, Owing

\* Each term of a count is a number.
LEMMA Numbers ==
    ASSUME Sound, NEW t \in Spaces, NEW p \in pthreads
    PROVE  /\ p \in Procs /\ HandlesAt(t, p) /\ TuplesAt(t)
           /\ Times(refs[t], p) \in Nat /\ Times(refs[t], UTS) \in Nat
           /\ held[p][t] \in Nat /\ stored[UTS][t] \in Nat
           /\ ToRemove(t, p) \in Nat /\ ToRemove(t, UTS) \in Nat
           /\ Cardinality(Givers(t)) \in Nat
<1>1. p \in Procs /\ Types
    BY SoundFacts DEF TypeOK
<1>2. HandlesAt(t, p) /\ TuplesAt(t)
    BY SoundFacts, CountedAt DEF Counted
<1>3. Times(refs[t], p) \in Nat /\ Times(refs[t], UTS) \in Nat
    BY <1>1, TimesFacts
<1>4. held[p][t] \in Nat /\ stored[UTS][t] \in Nat
    BY <1>1, TypeFacts DEF Types, Stores
<1>5. ToRemove(t, p) \in Nat /\ ToRemove(t, UTS) \in Nat /\ Cardinality(Givers(t)) \in Nat
    BY <1>1, FewRemovers, FewGivers, Removing
<1>. QED BY <1>1, <1>2, <1>3, <1>4, <1>5

\* The same for UTS alone.
LEMMA UTSNumbers ==
    ASSUME Sound, NEW t \in Spaces
    PROVE  /\ TuplesAt(t) /\ Times(refs[t], UTS) \in Nat /\ stored[UTS][t] \in Nat
           /\ ToRemove(t, UTS) \in Nat /\ Cardinality(Givers(t)) \in Nat
<1>1. TuplesAt(t) /\ Types
    BY SoundFacts, CountedAt DEF Counted
<1>2. Times(refs[t], UTS) \in Nat /\ stored[UTS][t] \in Nat
    BY <1>1, TimesFacts, TypeFacts DEF Types, Stores
<1>3. ToRemove(t, UTS) \in Nat /\ Cardinality(Givers(t)) \in Nat
    BY <1>1, FewRemovers, FewGivers, Removing
<1>. QED BY <1>1, <1>2, <1>3

\* A step that touches none of the terms.
LEMMA CountsKept ==
    ASSUME Sound, pthreads' \subseteq pthreads, \A t \in Spaces : refs'[t] = refs[t],
           \A p \in pthreads' : held'[p] = held[p], UNCHANGED call,
           \A t \in Spaces : stored'[UTS][t] = stored[UTS][t],
           \A t \in Spaces : \A o \in Procs \cup {UTS} : ToRemove(t, o)' = ToRemove(t, o)
    PROVE  Counted'
<1>1. ASSUME NEW t \in Spaces, NEW p \in pthreads' PROVE HandlesAt(t, p)'
    <2>1. p \in pthreads /\ p \in Procs /\ HandlesAt(t, p)
        BY <1>1, Numbers
    <2>. QED BY <2>1 DEF HandlesAt
<1>2. ASSUME NEW t \in Spaces PROVE TuplesAt(t)'
    <2>1. TuplesAt(t) /\ Cardinality(Givers(t)') = Cardinality(Givers(t))
        BY <1>2, UTSNumbers, GivingSame
    <2>. QED BY <1>2, <2>1 DEF TuplesAt
<1>. QED BY <1>1, <1>2, CountedAt

\* What a call that goes on counts for.
LEMMA CallCounts ==
    ASSUME Sound, NEW p \in Procs, NEW c, call' = [call EXCEPT ![p] = c]
    PROVE  /\ call'[p] = c /\ \A q \in Procs \ {p} : call'[q] = call[q]
           /\ \A t : (Gives(c, t) <=> Gives(call[p], t)) => Cardinality(Givers(t)') = Cardinality(Givers(t))
<1>1. call'[p] = c /\ \A q \in Procs \ {p} : call'[q] = call[q]
    BY SoundFacts DEF TypeOK
<1>2. ASSUME NEW t, Gives(c, t) <=> Gives(call[p], t) PROVE Cardinality(Givers(t)') = Cardinality(Givers(t))
    <2>1. /\ Cardinality(Givers(t)) \in Nat
          /\ Cardinality(Givers(t)') = Cardinality(Givers(t)) + (IF Gives(c, t) THEN 1 ELSE 0)
                                             - (IF Gives(call[p], t) THEN 1 ELSE 0)
        BY SoundFacts, GivingStep
    <2>. QED BY <1>2, <2>1
<1>. QED BY <1>1, <1>2

\* create_tuplespace: one handle, one owner.
LEMMA CountedCreate ==
    ASSUME Sound, NEW p \in Procs, NEW t \in Spaces, Create(p, t)
    PROVE  Counted'
<1>1. /\ t \notin born /\ p \in pthreads /\ held' = [held EXCEPT ![p][t] = 1]
      /\ refs' = [refs EXCEPT ![t] = <<p>>] /\ UNCHANGED <<stored, pthreads, call, job>>
      /\ held \in [Procs -> [Spaces -> Nat]] /\ pthreads \subseteq Procs
    BY SoundFacts DEF Create, Idle, TypeOK
<1>2. refs[t] = <<>>
    BY <1>1, SoundFacts DEF Gone, TypeOK
<1>3. Append(<<>>, p) = <<p>>
    OBVIOUS
<1>4. \A u \in Spaces : \A q :
        Times(refs'[u], q) = Times(refs[u], q) + (IF u = t /\ q = p THEN 1 ELSE 0)
    <2>1. refs' = [refs EXCEPT ![t] = Append(@, p)] /\ p \in Owners
        BY <1>1, <1>2, <1>3 DEF Owners
    <2>. QED BY <2>1, SoundFacts, Appended
<1>5. \A q : Times(refs[t], q) = 0
    BY <1>2, TimesEmpty
<1>6. ASSUME NEW u \in Spaces, NEW q \in pthreads' PROVE HandlesAt(u, q)'
    <2>1. /\ q \in Procs /\ q \in pthreads /\ HandlesAt(u, q) /\ Times(refs[u], q) \in Nat
          /\ held[q][u] \in Nat /\ ToRemove(u, q) \in Nat
        BY <1>1, Numbers
    <2>2. ToRemove(u, q)' = ToRemove(u, q)
        BY <1>1, <2>1, SoundFacts, RemovingSame
    <2>3. CASE u = t /\ q = p
        <3>1. held[q][u] = 0 /\ ToRemove(u, q) = 0 /\ Owing(call[q], u) = 0
            BY <1>5, <2>1, <2>3 DEF HandlesAt, Owing
        <3>2. held'[q][u] = 1
            BY <1>1, <2>3
        <3>3. Times(refs'[u], q) = 1
            BY <1>4, <1>5, <2>3
        <3>. QED BY <1>1, <2>2, <3>1, <3>2, <3>3 DEF HandlesAt
    <2>4. CASE u # t \/ q # p
        <3>1. held'[q][u] = held[q][u]
            BY <1>1, <2>1, <2>4
        <3>2. Times(refs'[u], q) = Times(refs[u], q)
            BY <1>4, <2>1, <2>4
        <3>. QED BY <1>1, <2>1, <2>2, <3>1, <3>2 DEF HandlesAt
    <2>. QED BY <2>3, <2>4
<1>7. ASSUME NEW u \in Spaces PROVE TuplesAt(u)'
    <2>1. TuplesAt(u) /\ Times(refs[u], UTS) \in Nat
        BY UTSNumbers
    <2>2. Times(refs'[u], UTS) = Times(refs[u], UTS)
        BY <1>4, <2>1, Apart
    <2>3. ToRemove(u, UTS)' = ToRemove(u, UTS) /\ Cardinality(Givers(u)') = Cardinality(Givers(u))
        BY <1>1, SoundFacts, RemovingSame, GivingSame
    <2>. QED BY <1>1, <2>1, <2>2, <2>3 DEF TuplesAt
<1>. QED BY <1>6, <1>7, CountedAt

\* A step of p's call that changes no list, no job and no tuple.
LEMMA CountedCall ==
    ASSUME Sound, NEW p \in pthreads, NEW t, NEW c, call' = [call EXCEPT ![p] = c],
           UNCHANGED <<refs, stored, pthreads, job>>,
           \A q \in Procs \ {p} : held'[q] = held[q],
           \A u : ~Gives(c, u) /\ ~Gives(call[p], u),
           \A u \in Spaces \ {t} : held'[p][u] = held[p][u],
           \A u \in Spaces : Owes(c, u) \/ Owes(call[p], u) => u = t,
           t \in Spaces => held'[p][t] + Owing(c, t) = held[p][t] + Owing(call[p], t),
           t \in Spaces => held'[p][t] \in Nat
    PROVE  Counted'
<1>1. p \in Procs /\ pthreads \subseteq Procs
    BY SoundFacts DEF TypeOK
<1>2. call'[p] = c /\ (\A q \in Procs \ {p} : call'[q] = call[q]) /\
      \A u : Cardinality(Givers(u)') = Cardinality(Givers(u))
    <2>1. call'[p] = c /\ \A q \in Procs \ {p} : call'[q] = call[q]
        BY <1>1, SoundFacts DEF TypeOK
    <2>2. \A u : Givers(u)' = Givers(u)
        BY <1>1, <2>1 DEF Givers, Gives
    <2>. QED BY <2>1, <2>2
<1>3. ASSUME NEW u \in Spaces, NEW q \in pthreads' PROVE HandlesAt(u, q)'
    <2>1. /\ q \in Procs /\ q \in pthreads /\ HandlesAt(u, q) /\ Times(refs[u], q) \in Nat
          /\ held[q][u] \in Nat /\ ToRemove(u, q) \in Nat
        BY Numbers
    <2>2. ToRemove(u, q)' = ToRemove(u, q)
        BY <2>1, SoundFacts, RemovingSame
    <2>3. CASE q # p
        BY <1>2, <2>1, <2>2, <2>3 DEF HandlesAt
    <2>4. CASE q = p /\ u # t
        BY <1>2, <2>1, <2>2, <2>4 DEF HandlesAt, Owing
    <2>5. CASE q = p /\ u = t
        BY <1>2, <2>1, <2>2, <2>5 DEF HandlesAt, Owing
    <2>. QED BY <2>3, <2>4, <2>5
<1>4. ASSUME NEW u \in Spaces PROVE TuplesAt(u)'
    <2>1. TuplesAt(u) /\ ToRemove(u, UTS)' = ToRemove(u, UTS)
        BY SoundFacts, UTSNumbers, RemovingSame
    <2>. QED BY <1>2, <2>1 DEF TuplesAt
<1>. QED BY <1>3, <1>4, CountedAt

\* Handles that a client gives up are in its call, handles it gets were; one that
\* leaves is counted no more.
LEMMA CountedHandles ==
    ASSUME Sound, NEW p \in Procs,
           \/ \E t, s, c : Asks(p, t, s, c)
           \/ \E t, d : Tests(p, t, d)
           \/ \E t : Answers(p, t)
           \/ Leaves(p)
    PROVE  Counted'
<1>1. held \in [Procs -> [Spaces -> Nat]] /\ pthreads \subseteq Procs
    BY SoundFacts DEF TypeOK
<1>2. ASSUME NEW t, NEW s, NEW c, Asks(p, t, s, c) PROVE Counted'
    <2>1. /\ p \in pthreads /\ call' = [call EXCEPT ![p] = c] /\ UNCHANGED <<refs, stored, pthreads, job>>
          /\ call[p].at = "idle" /\ c.at \in {"test", "delete", "match"}
        BY <1>2 DEF Asks, server
    <2>2. \A u : ~Gives(c, u) /\ ~Gives(call[p], u) /\ ~Owes(call[p], u)
        BY <2>1 DEF Gives, Owes
    <2>3. CASE c.at = "delete"
        <3>1. t \in Spaces /\ held[p][t] > 0 /\ held' = [held EXCEPT ![p][t] = @ - 1] /\ c.ts = t
            BY <1>2, <2>3 DEF Asks
        <3>2. held'[p][t] = held[p][t] - 1 /\ held[p][t] \in Nat
            BY <1>1, <3>1
        <3>3. /\ \A q \in Procs \ {p} : held'[q] = held[q]
              /\ \A u \in Spaces \ {t} : held'[p][u] = held[p][u]
            BY <1>1, <3>1
        <3>4. Owing(c, t) = 1 /\ Owing(call[p], t) = 0 /\ \A u : Owes(c, u) => u = t
            BY <2>2, <2>3, <3>1 DEF Owes, Owing
        <3>5. held'[p][t] + Owing(c, t) = held[p][t] + Owing(call[p], t) /\ held'[p][t] \in Nat
            BY <3>1, <3>2, <3>4
        <3>6. \A u : ~Gives(c, u) /\ ~Gives(call[p], u)
            BY <2>2
        <3>7. \A u \in Spaces : Owes(c, u) \/ Owes(call[p], u) => u = t
            BY <2>2, <3>4
        <3>. QED BY <2>1, <3>3, <3>5, <3>6, <3>7, CountedCall
    <2>4. CASE c.at # "delete"
        <3>1. UNCHANGED held
            BY <1>2, <2>4 DEF Asks
        <3>2. \A u : ~Owes(c, u)
            BY <2>1, <2>4 DEF Owes
        <3>3. Owing(c, t) = 0 /\ Owing(call[p], t) = 0
            BY <2>2, <3>2 DEF Owing
        <3>. QED BY <1>1, <2>1, <2>2, <3>1, <3>2, <3>3, CountedCall
    <2>. QED BY <2>3, <2>4
<1>3. ASSUME NEW t, NEW d, Tests(p, t, d) PROVE Counted'
    <2>1. /\ p \in pthreads /\ call' = [call EXCEPT ![p] = d] /\ UNCHANGED <<refs, stored, pthreads, job, held>>
          /\ call[p].at = "test" /\ d.at = "add" /\ t \in Spaces
        BY <1>3, Caller, TestsThere DEF Tests
    <2>2. \A u : ~Gives(d, u) /\ ~Gives(call[p], u) /\ ~Owes(call[p], u) /\ ~Owes(d, u)
        BY <2>1 DEF Gives, Owes
    <2>3. Owing(d, t) = 0 /\ Owing(call[p], t) = 0
        BY <2>2 DEF Owing
    <2>. QED BY <1>1, <2>1, <2>2, <2>3, CountedCall
<1>4. ASSUME NEW t, Answers(p, t) PROVE Counted'
    <2>1. /\ p \in pthreads /\ call' = [call EXCEPT ![p] = NoCall] /\ UNCHANGED <<refs, stored, pthreads, job>>
          /\ call[p].at = "change" /\ call[p].ts = t /\ t \in Spaces
          /\ held' = [held EXCEPT ![p][t] = @ + 1] /\ NoCall.at = "idle"
        BY <1>4, Caller, CallForms DEF Answers
    <2>2. \A u : ~Gives(NoCall, u) /\ ~Gives(call[p], u) /\ ~Owes(NoCall, u) /\ (Owes(call[p], u) => u = t)
        BY <2>1 DEF Gives, Owes
    <2>3. Owing(NoCall, t) = 0 /\ Owing(call[p], t) = 1
        BY <2>1, <2>2 DEF Owing, Owes
    <2>4. /\ held'[p][t] = held[p][t] + 1 /\ held[p][t] \in Nat
          /\ \A q \in Procs \ {p} : held'[q] = held[q]
          /\ \A u \in Spaces \ {t} : held'[p][u] = held[p][u]
        BY <1>1, <2>1
    <2>5. held'[p][t] + Owing(NoCall, t) = held[p][t] + Owing(call[p], t) /\ held'[p][t] \in Nat
        BY <2>3, <2>4
    <2>6. PICK c : c = NoCall
        OBVIOUS
    <2>7. /\ call' = [call EXCEPT ![p] = c]
          /\ \A u : ~Gives(c, u) /\ ~Gives(call[p], u)
          /\ \A u \in Spaces : Owes(c, u) \/ Owes(call[p], u) => u = t
        BY <2>1, <2>2, <2>6
    <2>8. held'[p][t] + Owing(c, t) = held[p][t] + Owing(call[p], t) /\ held'[p][t] \in Nat
        BY <2>5, <2>6
    <2>9. p \in pthreads /\ UNCHANGED <<refs, stored, pthreads, job>>
        BY <2>1
    <2>. QED BY <2>4, <2>7, <2>8, <2>9, CountedCall
<1>5. ASSUME Leaves(p) PROVE Counted'
    <2>1. pthreads' = pthreads \ {p} /\ UNCHANGED <<refs, call, stored, job>>
          /\ \A q \in Procs \ {p} : held'[q] = held[q]
        BY <1>1, <1>5 DEF Leaves
    <2>2. \A t \in Spaces : \A o \in Procs \cup {UTS} : ToRemove(t, o)' = ToRemove(t, o)
        BY <2>1, SoundFacts, RemovingSame
    <2>. QED BY <1>1, <2>1, <2>2, CountsKept
<1>. QED BY <1>2, <1>3, <1>4, <1>5

\* A call that ends with a job begun for it.
LEMMA CountedFrees ==
    ASSUME Sound, NEW p \in Procs, NEW t, Frees(p, t)
    PROVE  Counted'
<1>1. /\ t \in Spaces /\ p \in pthreads /\ pthreads \subseteq Procs
      /\ UNCHANGED <<refs, stored, pthreads, held>> /\ call' = [call EXCEPT ![p] = NoCall]
      /\ call[p].at = "delete" /\ call[p].ts = t /\ NoCall.at = "idle"
    BY FreesThere, SoundFacts, CallForms DEF Frees, TypeOK
<1>2. PICK w \in Threads : \E j : /\ job[w].pc = "idle" /\ Becomes(w, j)
                                  /\ j.pc = "lookup" /\ j.ts = t /\ j.ref = p
    BY FreesThere
<1>3. PICK j : /\ job[w].pc = "idle" /\ Becomes(w, j) /\ j.pc = "lookup" /\ j.ts = t /\ j.ref = p
    BY <1>2
<1>4. w \in Agents
    BY Apart
<1>5. \A u : ~Gives(NoCall, u) /\ ~Gives(call[p], u) /\ ~Owes(NoCall, u) /\ (Owes(call[p], u) <=> u = t)
    BY <1>1 DEF Gives, Owes
<1>6. call'[p] = NoCall /\ (\A q \in Procs \ {p} : call'[q] = call[q]) /\
      \A u : Cardinality(Givers(u)') = Cardinality(Givers(u))
    BY <1>1, <1>5, CallCounts
<1>7. ASSUME NEW u \in Spaces, NEW o \in Procs \cup {UTS}
      PROVE  ToRemove(u, o)' = ToRemove(u, o) + (IF u = t /\ o = p THEN 1 ELSE 0)
    <2>1. ~About(job[w], u, o) /\ (About(j, u, o) <=> u = t /\ o = p)
        BY <1>3 DEF About, Holding
    <2>2. /\ ToRemove(u, o) \in Nat
          /\ ToRemove(u, o)' = ToRemove(u, o) + (IF About(j, u, o) THEN 1 ELSE 0)
                                              - (IF About(job[w], u, o) THEN 1 ELSE 0)
        BY <1>3, <1>4, SoundFacts, RemovingStep
    <2>. QED BY <2>1, <2>2
<1>8. ASSUME NEW u \in Spaces, NEW q \in pthreads' PROVE HandlesAt(u, q)'
    <2>1. /\ q \in Procs /\ q \in pthreads /\ HandlesAt(u, q) /\ Times(refs[u], q) \in Nat
          /\ held[q][u] \in Nat /\ ToRemove(u, q) \in Nat
        BY <1>1, Numbers
    <2>2. ToRemove(u, q)' = ToRemove(u, q) + (IF u = t /\ q = p THEN 1 ELSE 0)
        BY <1>7, <2>1
    <2>3. CASE u = t /\ q = p
        BY <1>1, <1>5, <1>6, <2>1, <2>2, <2>3 DEF HandlesAt, Owing
    <2>4. CASE q # p
        BY <1>1, <1>6, <2>1, <2>2, <2>4 DEF HandlesAt
    <2>5. CASE q = p /\ u # t
        BY <1>1, <1>5, <1>6, <2>1, <2>2, <2>5 DEF HandlesAt, Owing
    <2>. QED BY <2>3, <2>4, <2>5
<1>9. ASSUME NEW u \in Spaces PROVE TuplesAt(u)'
    <2>1. TuplesAt(u) /\ ToRemove(u, UTS) \in Nat
        BY UTSNumbers
    <2>2. ToRemove(u, UTS)' = ToRemove(u, UTS)
        BY <1>1, <1>7, <2>1, Apart
    <2>. QED BY <1>1, <1>6, <2>1, <2>2 DEF TuplesAt
<1>. QED BY <1>8, <1>9, CountedAt

\* A tuple is stored, or taken: the handler that gives the handle to UTS, or
\* takes it from there, counts with the tuple.
LEMMA CountedTuples ==
    ASSUME Sound, NEW p \in Procs,
           \/ \E t, s : Puts(p, t, s)
           \/ \E s, t : Takes(p, s, t)
    PROVE  Counted'
<1>1. stored \in [Stores -> [Spaces -> Nat]] /\ UTS \in Stores /\ pthreads \subseteq Procs
    BY SoundFacts DEF TypeOK, Stores
<1>2. ASSUME NEW c, NEW t \in Spaces, call' = [call EXCEPT ![p] = c],
             UNCHANGED <<refs, pthreads, held, job>>,
             \A u : ~Owes(c, u) /\ ~Owes(call[p], u),
             \A u : Gives(c, u) \/ Gives(call[p], u) => u = t,
             \A u \in Spaces \ {t} : stored'[UTS][u] = stored[UTS][u],
             stored'[UTS][t] \in Nat,
             stored'[UTS][t] + (IF Gives(c, t) THEN 1 ELSE 0)
               = stored[UTS][t] + (IF Gives(call[p], t) THEN 1 ELSE 0)
      PROVE  Counted'
    <2>1. call'[p] = c /\ \A q \in Procs \ {p} : call'[q] = call[q]
        BY <1>2, CallCounts
    <2>2. ASSUME NEW u \in Spaces, NEW q \in pthreads' PROVE HandlesAt(u, q)'
        <3>1. q \in Procs /\ q \in pthreads /\ HandlesAt(u, q)
            BY <1>2, Numbers
        <3>2. ToRemove(u, q)' = ToRemove(u, q)
            BY <1>2, <3>1, SoundFacts, RemovingSame
        <3>3. Owing(call'[q], u) = Owing(call[q], u)
            BY <1>2, <2>1, <3>1 DEF Owing
        <3>. QED BY <1>2, <3>1, <3>2, <3>3 DEF HandlesAt
    <2>3. ASSUME NEW u \in Spaces PROVE TuplesAt(u)'
        <3>1. TuplesAt(u) /\ stored[UTS][u] \in Nat /\ ToRemove(u, UTS) \in Nat /\ Cardinality(Givers(u)) \in Nat
            BY UTSNumbers
        <3>2. ToRemove(u, UTS)' = ToRemove(u, UTS)
            BY <1>2, SoundFacts, RemovingSame
        <3>3. Cardinality(Givers(u)') = Cardinality(Givers(u)) + (IF Gives(c, u) THEN 1 ELSE 0)
                                             - (IF Gives(call[p], u) THEN 1 ELSE 0)
            BY <1>2, SoundFacts, GivingStep
        <3>4. stored'[UTS][u] + (IF Gives(c, u) THEN 1 ELSE 0)
               = stored[UTS][u] + (IF Gives(call[p], u) THEN 1 ELSE 0) /\ stored'[UTS][u] \in Nat
            BY <1>2, <3>1
        <3>5. stored'[UTS][u] + Cardinality(Givers(u)') = stored[UTS][u] + Cardinality(Givers(u))
            BY <3>1, <3>3, <3>4
        <3>6. Cardinality(Givers(u)') \in Int
            BY <3>1, <3>3
        <3>. QED BY <1>2, <3>1, <3>2, <3>4, <3>5, <3>6 DEF TuplesAt
    <2>. QED BY <2>2, <2>3, CountedAt
<1>3. ASSUME NEW t, NEW s, Puts(p, t, s) PROVE Counted'
    <2>1. /\ t \in Spaces /\ s \in Stores /\ call' = [call EXCEPT ![p] = NoCall]
          /\ UNCHANGED <<refs, pthreads, held, job>> /\ call[p].at = "put" /\ call[p].ts = t /\ call[p].into = s
          /\ stored' = [stored EXCEPT ![s][t] = @ + 1] /\ NoCall.at = "idle"
        BY <1>3, CallForms DEF Puts
    <2>2. /\ \A u : ~Owes(NoCall, u) /\ ~Owes(call[p], u) /\ ~Gives(NoCall, u)
          /\ \A u : Gives(call[p], u) <=> u = t /\ s = UTS
        BY <2>1 DEF Owes, Gives
    <2>3. /\ \A u \in Spaces \ {t} : stored'[UTS][u] = stored[UTS][u]
          /\ stored[UTS][t] \in Nat /\ stored'[UTS][t] = stored[UTS][t] + (IF s = UTS THEN 1 ELSE 0)
        BY <1>1, <2>1
    <2>4. /\ stored'[UTS][t] \in Nat
          /\ stored'[UTS][t] + (IF Gives(NoCall, t) THEN 1 ELSE 0)
               = stored[UTS][t] + (IF Gives(call[p], t) THEN 1 ELSE 0)
        BY <2>2, <2>3
    <2>. QED BY <1>2, <2>1, <2>2, <2>3, <2>4
<1>4. ASSUME NEW s, NEW t, Takes(p, s, t) PROVE Counted'
    <2>1. PICK c : c = [at |-> "own", ts |-> t, from |-> s]
        OBVIOUS
    <2>2. /\ t \in Spaces /\ s \in Stores /\ call' = [call EXCEPT ![p] = c]
          /\ UNCHANGED <<refs, pthreads, held, job>> /\ call[p].at = "match"
          /\ stored' = [stored EXCEPT ![s][t] = @ - 1] /\ stored[s][t] > 0
          /\ c.at = "own" /\ c.ts = t /\ c.from = s
        BY <1>4, <2>1 DEF Takes
    <2>3. /\ \A u : ~Owes(c, u) /\ ~Owes(call[p], u) /\ ~Gives(call[p], u)
          /\ \A u : Gives(c, u) <=> u = t /\ s = UTS
        BY <2>2 DEF Owes, Gives
    <2>4. /\ \A u \in Spaces \ {t} : stored'[UTS][u] = stored[UTS][u]
          /\ stored[UTS][t] \in Nat /\ stored'[UTS][t] = stored[UTS][t] - (IF s = UTS THEN 1 ELSE 0)
          /\ stored'[UTS][t] \in Nat
        BY <1>1, <2>2
    <2>5. stored'[UTS][t] + (IF Gives(c, t) THEN 1 ELSE 0)
               = stored[UTS][t] + (IF Gives(call[p], t) THEN 1 ELSE 0)
        BY <2>3, <2>4
    <2>. QED BY <1>2, <2>2, <2>3, <2>4, <2>5
<1>. QED BY <1>3, <1>4

\* An owner is added: to the copy's count with the handle it gets, to UTS's
\* with the tuple that is to be put there, to the taker's with what it is owed.
LEMMA CountedAdds ==
    ASSUME Sound, NEW p \in Procs, NEW t, NEW o, NEW c, Adds(p, t, o, c)
    PROVE  Counted'
<1>1. /\ t \in Spaces /\ p \in pthreads /\ refs' = [refs EXCEPT ![t] = Append(@, o)] /\ o \in Owners
      /\ \/ o = p /\ held' = [held EXCEPT ![p][t] = @ + 1] /\ c.at = "idle"
         \/ o \in Stores /\ UNCHANGED held /\ c.at = "put" /\ c.ts = t /\ c.into = o
    BY AddsThere
<1>2. /\ call' = [call EXCEPT ![p] = c] /\ call[p].at = "add" /\ UNCHANGED <<stored, pthreads, job>>
      /\ held \in [Procs -> [Spaces -> Nat]]
    BY SoundFacts DEF Adds, TypeOK
<1>3. \A u \in Spaces : \A q :
        Times(refs'[u], q) = Times(refs[u], q) + (IF u = t /\ q = o THEN 1 ELSE 0)
    BY <1>1, SoundFacts, Appended
<1>4. call'[p] = c /\ \A q \in Procs \ {p} : call'[q] = call[q]
    BY <1>2, CallCounts
<1>5. \A u : ~Owes(c, u) /\ ~Owes(call[p], u)
    BY <1>1, <1>2 DEF Owes
<1>6. \A u \in Spaces : ~Gives(call[p], u) /\ (Gives(c, u) <=> u = t /\ o = UTS)
    BY <1>1, <1>2, Apart DEF Gives
<1>7. ASSUME NEW u \in Spaces, NEW q \in pthreads'
      PROVE  held'[q][u] = held[q][u] + (IF u = t /\ q = o THEN 1 ELSE 0)
    <2>1. q \in Procs /\ held[q][u] \in Nat
        BY <1>2, Numbers
    <2>2. o \in Stores => q # o
        BY <2>1, ReferencesAssumption
    <2>. QED BY <1>1, <1>2, <2>1, <2>2
<1>8. ASSUME NEW u \in Spaces, NEW q \in pthreads' PROVE HandlesAt(u, q)'
    <2>1. /\ q \in Procs /\ HandlesAt(u, q) /\ held[q][u] \in Nat /\ ToRemove(u, q) \in Nat
        BY <1>2, Numbers
    <2>2. ToRemove(u, q)' = ToRemove(u, q)
        BY <1>2, <2>1, SoundFacts, RemovingSame
    <2>3. Owing(call'[q], u) = Owing(call[q], u) /\ Owing(call[q], u) \in Nat
        BY <1>4, <1>5, <2>1 DEF Owing
    <2>4. Times(refs'[u], q) = Times(refs[u], q) + (IF u = t /\ q = o THEN 1 ELSE 0)
        BY <1>3
    <2>. QED BY <1>7, <2>1, <2>2, <2>3, <2>4 DEF HandlesAt
<1>9. ASSUME NEW u \in Spaces PROVE TuplesAt(u)'
    <2>1. TuplesAt(u) /\ stored[UTS][u] \in Nat /\ ToRemove(u, UTS) \in Nat /\ Cardinality(Givers(u)) \in Nat
        BY UTSNumbers
    <2>2. ToRemove(u, UTS)' = ToRemove(u, UTS)
        BY <1>2, SoundFacts, RemovingSame
    <2>3. Cardinality(Givers(u)') = Cardinality(Givers(u)) + (IF Gives(c, u) THEN 1 ELSE 0)
                                             - (IF Gives(call[p], u) THEN 1 ELSE 0)
        BY <1>2, SoundFacts, GivingStep
    <2>4. Times(refs'[u], UTS) = Times(refs[u], UTS) + (IF u = t /\ UTS = o THEN 1 ELSE 0)
        BY <1>3
    <2>5. Cardinality(Givers(u)') = Cardinality(Givers(u)) + (IF u = t /\ UTS = o THEN 1 ELSE 0)
        BY <1>6, <2>1, <2>3
    <2>6. PICK n \in Nat : n = IF u = t /\ UTS = o THEN 1 ELSE 0
        OBVIOUS
    <2>7. Times(refs'[u], UTS) = Times(refs[u], UTS) + n /\ Cardinality(Givers(u)') = Cardinality(Givers(u)) + n
        BY <2>4, <2>5, <2>6
    <2>. QED BY <1>2, <2>1, <2>2, <2>7 DEF TuplesAt
<1>. QED BY <1>8, <1>9, CountedAt

\* changeOwner: the taker is one owner more, and UTS's goes to a removal.
LEMMA CountedChanges ==
    ASSUME Sound, NEW p \in Procs, NEW t, NEW s, NEW c, Changes(p, t, s, c)
    PROVE  Counted'
<1>1. /\ t \in Spaces /\ p \in pthreads /\ refs' = [refs EXCEPT ![t] = Append(@, p)]
      /\ c.at = "change" /\ c.ts = t /\ s = UTS /\ p \in Owners /\ p \in Agents /\ p # UTS
    BY ChangesThere, Apart DEF Owners
<1>2. PICK j : Becomes(p, j) /\ j.pc = "lookup" /\ j.ts = t /\ j.ref = UTS /\ job[p].pc = "idle"
    BY ChangesThere
<1>3. /\ call' = [call EXCEPT ![p] = c] /\ call[p].at = "own" /\ call[p].ts = t /\ call[p].from = UTS
      /\ UNCHANGED <<stored, pthreads, held>>
    BY <1>1 DEF Changes
<1>4. \A u \in Spaces : \A q :
        Times(refs'[u], q) = Times(refs[u], q) + (IF u = t /\ q = p THEN 1 ELSE 0)
    BY <1>1, SoundFacts, Appended
<1>5. call'[p] = c /\ \A q \in Procs \ {p} : call'[q] = call[q]
    BY <1>3, CallCounts
<1>6. \A u : /\ (Owes(c, u) <=> u = t) /\ ~Owes(call[p], u)
             /\ ~Gives(c, u) /\ (Gives(call[p], u) <=> u = t)
    BY <1>1, <1>3 DEF Owes, Gives
<1>7. ASSUME NEW u \in Spaces, NEW o \in Procs \cup {UTS}
      PROVE  ToRemove(u, o)' = ToRemove(u, o) + (IF u = t /\ o = UTS THEN 1 ELSE 0)
    <2>1. ~About(job[p], u, o) /\ (About(j, u, o) <=> u = t /\ o = UTS)
        BY <1>2 DEF About, Holding
    <2>2. /\ ToRemove(u, o) \in Nat
          /\ ToRemove(u, o)' = ToRemove(u, o) + (IF About(j, u, o) THEN 1 ELSE 0)
                                              - (IF About(job[p], u, o) THEN 1 ELSE 0)
        BY <1>1, <1>2, SoundFacts, RemovingStep
    <2>. QED BY <2>1, <2>2
<1>8. ASSUME NEW u \in Spaces, NEW q \in pthreads' PROVE HandlesAt(u, q)'
    <2>1. /\ q \in Procs /\ HandlesAt(u, q) /\ held[q][u] \in Nat /\ ToRemove(u, q) \in Nat
        BY <1>3, Numbers
    <2>2. ToRemove(u, q)' = ToRemove(u, q)
        BY <1>7, <2>1, Apart
    <2>3. Owing(call'[q], u) = Owing(call[q], u) + (IF u = t /\ q = p THEN 1 ELSE 0) /\ Owing(call[q], u) \in Nat
        BY <1>5, <1>6, <2>1 DEF Owing
    <2>4. Times(refs'[u], q) = Times(refs[u], q) + (IF u = t /\ q = p THEN 1 ELSE 0)
        BY <1>4
    <2>. QED BY <1>3, <2>1, <2>2, <2>3, <2>4 DEF HandlesAt
<1>9. ASSUME NEW u \in Spaces PROVE TuplesAt(u)'
    <2>1. TuplesAt(u) /\ stored[UTS][u] \in Nat /\ ToRemove(u, UTS) \in Nat /\ Cardinality(Givers(u)) \in Nat
        BY UTSNumbers
    <2>2. ToRemove(u, UTS)' = ToRemove(u, UTS) + (IF u = t THEN 1 ELSE 0)
        BY <1>7
    <2>3. Cardinality(Givers(u)') = Cardinality(Givers(u)) + (IF Gives(c, u) THEN 1 ELSE 0)
                                             - (IF Gives(call[p], u) THEN 1 ELSE 0)
        BY <1>3, SoundFacts, GivingStep
    <2>4. Times(refs'[u], UTS) = Times(refs[u], UTS) /\ Times(refs[u], UTS) \in Nat
        <3>1. Times(refs'[u], UTS) = Times(refs[u], UTS) + (IF u = t /\ UTS = p THEN 1 ELSE 0)
            BY <1>4
        <3>2. Times(refs[u], UTS) \in Nat
            BY UTSNumbers
        <3>. QED BY <1>1, <3>1, <3>2
    <2>5. Cardinality(Givers(u)') = Cardinality(Givers(u)) - (IF u = t THEN 1 ELSE 0)
        BY <1>6, <2>1, <2>3
    <2>. QED BY <1>3, <2>1, <2>2, <2>4, <2>5 DEF TuplesAt
<1>. QED BY <1>8, <1>9, CountedAt

\* A reference of UTS, or of a process that is there, that is to be removed.
LEMMA RemoverThere ==
    ASSUME Sound, NEW a \in Agents, NEW t \in Spaces, NEW o \in pthreads \cup {UTS}, About(job[a], t, o)
    PROVE  o \in ToSet(refs[t]) /\ t \in local_ts
<1>1. o \in Procs \cup {UTS}
    BY SoundFacts DEF TypeOK
<1>2. ToRemove(t, o) > 0
    <2>1. a \in Removers(t, o)
        BY DEF Removers
    <2>2. IsFiniteSet(Removers(t, o)) /\ Cardinality(Removers(t, o)) \in Nat
        BY <1>1, SoundFacts, FewRemovers
    <2>3. Cardinality(Removers(t, o)) # 0
        BY <2>1, <2>2, FS_EmptySet
    <2>. QED BY <2>2, <2>3, Removing
<1>3. o \in ToSet(refs[t])
    <2>1. CASE o = UTS
        BY <1>2, <2>1, TupleStored
    <2>2. CASE o \in pthreads /\ o \in Procs
        BY <1>2, <2>2, HandleHeld
    <2>. QED BY <1>1, <2>1, <2>2
<1>. QED BY <1>1, <1>3, Alive

\* A thread goes on, no list changes for those that are there.
LEMMA CountedJob ==
    ASSUME Sound, NEW a \in Agents, NEW j, Becomes(a, j), UNCHANGED <<pthreads, held, call>>,
           \A t \in Spaces : stored'[UTS][t] = stored[UTS][t],
           \A t \in Spaces : \A o \in pthreads \cup {UTS} :
              Times(refs'[t], o) = Times(refs[t], o) + (IF About(j, t, o) THEN 1 ELSE 0)
                                                     - (IF About(job[a], t, o) THEN 1 ELSE 0)
    PROVE  Counted'
<1>1. pthreads \subseteq Procs
    BY SoundFacts DEF TypeOK
<1>2. \A t \in Spaces : \A o \in pthreads \cup {UTS} :
          /\ ToRemove(t, o) \in Nat
          /\ ToRemove(t, o)' = ToRemove(t, o) + (IF About(j, t, o) THEN 1 ELSE 0)
                                              - (IF About(job[a], t, o) THEN 1 ELSE 0)
    BY <1>1, SoundFacts, RemovingStep
<1>3. ASSUME NEW t \in Spaces, NEW p \in pthreads' PROVE HandlesAt(t, p)'
    <2>1. /\ p \in pthreads /\ HandlesAt(t, p) /\ held[p][t] \in Nat
        BY Numbers
    <2>2. Owing(call[p], t) \in Nat
        BY DEF Owing
    <2>3. PICK n \in Int : n = (IF About(j, t, p) THEN 1 ELSE 0) - (IF About(job[a], t, p) THEN 1 ELSE 0)
        OBVIOUS
    <2>4. Times(refs'[t], p) = Times(refs[t], p) + n /\ ToRemove(t, p)' = ToRemove(t, p) + n
          /\ ToRemove(t, p) \in Nat /\ Times(refs[t], p) \in Nat
        BY <1>2, <2>1, <2>3, Numbers
    <2>. QED BY <2>1, <2>2, <2>4 DEF HandlesAt
<1>4. ASSUME NEW t \in Spaces PROVE TuplesAt(t)'
    <2>1. /\ TuplesAt(t) /\ stored[UTS][t] \in Nat /\ Times(refs[t], UTS) \in Nat
          /\ Cardinality(Givers(t)) \in Nat /\ Cardinality(Givers(t)') = Cardinality(Givers(t))
        BY UTSNumbers, GivingSame
    <2>2. PICK n \in Int : n = (IF About(j, t, UTS) THEN 1 ELSE 0) - (IF About(job[a], t, UTS) THEN 1 ELSE 0)
        OBVIOUS
    <2>3. Times(refs'[t], UTS) = Times(refs[t], UTS) + n /\ ToRemove(t, UTS)' = ToRemove(t, UTS) + n
          /\ ToRemove(t, UTS) \in Nat
        BY <1>2, <2>1, <2>2
    <2>. QED BY <2>1, <2>3 DEF TuplesAt
<1>. QED BY <1>3, <1>4, CountedAt

\* A removal takes one owner out and is one less (removereference), or is for a
\* process that has left (removeanyreferences), or does nothing.
LEMMA CountedRemoval ==
    ASSUME Sound,
           \/ \E a \in Agents : \E j : Looks(a, j)
           \/ \E a \in Agents : \E t, o, j : Removes(a, t, o, j)
           \/ \E t, o, j : RemovesAll(t, o, j)
           \/ \E s \in Spaces, t \in Spaces : \E j : Destroys(s, t, j)
           \/ \E p \in Procs, t \in Spaces : Visits(p, t)
    PROVE  Counted'
<1>1. /\ refs \in [Spaces -> Seq(Owners)] /\ stored \in [Stores -> [Spaces -> Nat]]
      /\ pthreads \subseteq Procs
      /\ \A t \in Spaces : \A o : Times(refs[t], o) \in Nat
    BY SoundFacts, TimesFacts DEF TypeOK
<1>2. ASSUME NEW a \in Agents, NEW j, Becomes(a, j), UNCHANGED <<pthreads, held, call, refs>>,
             \A t \in Spaces : stored'[UTS][t] = stored[UTS][t],
             \A t \in Spaces : \A o \in pthreads \cup {UTS} : About(j, t, o) <=> About(job[a], t, o)
      PROVE  Counted'
    <2>1. ASSUME NEW t \in Spaces, NEW o \in pthreads \cup {UTS}
          PROVE  Times(refs'[t], o) = Times(refs[t], o) + (IF About(j, t, o) THEN 1 ELSE 0)
                                        - (IF About(job[a], t, o) THEN 1 ELSE 0)
        <3>1. Times(refs'[t], o) = Times(refs[t], o) /\ Times(refs[t], o) \in Nat
            BY <1>1, <1>2
        <3>2. About(j, t, o) <=> About(job[a], t, o)
            BY <1>2
        <3>. QED BY <3>1, <3>2
    <2>2. Becomes(a, j) /\ UNCHANGED <<pthreads, held, call>> /\ \A t \in Spaces : stored'[UTS][t] = stored[UTS][t]
        BY <1>2
    <2>. QED BY <2>1, <2>2, CountedJob
<1>3. ASSUME NEW a \in Agents, NEW j, Looks(a, j) PROVE Counted'
    <2>1. Becomes(a, j) /\ UNCHANGED <<pthreads, held, call, refs, stored>> /\ job[a].pc = "lookup"
        BY <1>3 DEF Looks, server, clients
    <2>2. ASSUME NEW t \in Spaces, NEW o \in pthreads \cup {UTS} PROVE About(j, t, o) <=> About(job[a], t, o)
        <3>1. CASE j.pc = "remove" /\ j.ts = job[a].ts /\ j.ref = job[a].ref
            BY <2>1, <3>1 DEF About, Holding
        <3>2. CASE job[a].ts \notin local_ts /\ j.pc = "idle"
            <4>1. ~About(job[a], t, o)
                BY <3>2, RemoverThere DEF About
            <4>. QED BY <3>2, <4>1 DEF About, Holding
        <3>. QED BY <1>3, <3>1, <3>2 DEF Looks
    <2>. QED BY <1>2, <2>1, <2>2
<1>4. ASSUME NEW a \in Agents, NEW t, NEW o, NEW j, Removes(a, t, o, j) PROVE Counted'
    <2>1. /\ Becomes(a, j) /\ UNCHANGED <<pthreads, held, call, stored>> /\ t \in Spaces
          /\ job[a].pc = "remove" /\ job[a].ts = t /\ job[a].ref = o /\ j.pc \in {"scan", "idle", "raised"}
        BY <1>4 DEF Removes, clients
    <2>2. \A u, q : ~About(j, u, q) /\ (About(job[a], u, q) <=> u = t /\ q = o)
        BY <2>1 DEF About, Holding
    <2>3. CASE o \notin ToSet(refs[t]) /\ UNCHANGED refs
        <3>1. \A u \in Spaces : \A q \in pthreads \cup {UTS} : ~About(job[a], u, q)
            BY <2>1, <2>2, <2>3, RemoverThere
        <3>. QED BY <1>2, <2>1, <2>2, <2>3, <3>1
    <2>4. CASE o \in ToSet(refs[t]) /\ refs' = [refs EXCEPT ![t] = RemoveFirst(@, o)]
        <3>1. ASSUME NEW u \in Spaces, NEW q
              PROVE  Times(refs'[u], q) = Times(refs[u], q) - (IF u = t /\ q = o THEN 1 ELSE 0)
            <4>1. refs'[t] = RemoveFirst(refs[t], o) /\ refs[t] \in Seq(Owners)
                BY <1>1, <2>1, <2>4
            <4>2. Times(refs'[t], q) = Times(refs[t], q) - (IF o = q THEN 1 ELSE 0)
                BY <2>4, <4>1, TimesRemoveFirst
            <4>3. CASE u = t
                BY <4>2, <4>3
            <4>4. CASE u # t
                BY <1>1, <2>4, <4>4
            <4>. QED BY <4>3, <4>4
        <3>2. \A u \in Spaces : \A q \in pthreads \cup {UTS} :
              Times(refs'[u], q) = Times(refs[u], q) + (IF About(j, u, q) THEN 1 ELSE 0)
                                                     - (IF About(job[a], u, q) THEN 1 ELSE 0)
            BY <1>1, <2>2, <3>1
        <3>. QED BY <2>1, <3>2, CountedJob
    <2>. QED BY <1>4, <2>3, <2>4 DEF Removes
<1>5. ASSUME NEW t, NEW o, NEW j, RemovesAll(t, o, j) PROVE Counted'
    <2>1. /\ Becomes(Watcher, j) /\ UNCHANGED <<pthreads, held, call, stored>> /\ t \in Spaces
          /\ job[Watcher].ref = o /\ o \notin pthreads \cup {UTS} /\ j.pc = "scan" /\ Watcher \in Agents
          /\ refs' = [refs EXCEPT ![t] = Without(@, o)]
        BY <1>5, Apart DEF RemovesAll, clients
    <2>2. \A u \in Spaces : \A q \in pthreads \cup {UTS} : ~About(j, u, q) /\ ~About(job[Watcher], u, q)
        BY <2>1 DEF About, Holding
    <2>3. ASSUME NEW u \in Spaces, NEW q \in pthreads \cup {UTS} PROVE Times(refs'[u], q) = Times(refs[u], q)
        <3>1. refs'[t] = Without(refs[t], o) /\ refs[t] \in Seq(Owners) /\ q # o
            BY <1>1, <2>1
        <3>2. Times(refs'[t], q) = Times(refs[t], q)
            BY <3>1, TimesWithout
        <3>. QED BY <1>1, <2>1, <3>2
    <2>4. \A u \in Spaces : \A q \in pthreads \cup {UTS} :
              Times(refs'[u], q) = Times(refs[u], q) + (IF About(j, u, q) THEN 1 ELSE 0)
                                                     - (IF About(job[Watcher], u, q) THEN 1 ELSE 0)
        BY <1>1, <2>2, <2>3
    <2>. QED BY <2>1, <2>4, CountedJob
<1>6. ASSUME NEW s \in Spaces, NEW t \in Spaces, NEW j, Destroys(s, t, j) PROVE Counted'
    <2>1. /\ Becomes(s, j) /\ UNCHANGED <<pthreads, held, call, refs>> /\ s \in Agents
          /\ job[s].pc = "idle" /\ j.ref = s /\ s # UTS /\ s \notin Procs
          /\ stored' = [stored EXCEPT ![s][t] = @ - 1]
        BY <1>6, Apart DEF Destroys, clients
    <2>2. \A u \in Spaces : stored'[UTS][u] = stored[UTS][u]
        BY <1>1, <2>1 DEF Stores
    <2>3. \A u \in Spaces : \A q \in pthreads \cup {UTS} : ~About(j, u, q) /\ ~About(job[s], u, q)
        BY <1>1, <2>1 DEF About, Holding
    <2>. QED BY <1>2, <2>1, <2>2, <2>3
<1>7. ASSUME NEW p \in Procs, NEW t \in Spaces, Visits(p, t) PROVE Counted'
    <2>1. /\ UNCHANGED <<pthreads, held, call, refs, stored>> /\ Watcher \in Agents
          /\ job[Watcher].pc = "idle" /\ p \notin pthreads \cup {UTS}
        BY <1>7, Apart, SoundFacts DEF Visits, server, clients, Departed
    <2>2. CASE UNCHANGED job
        <3>1. \A u \in Spaces : \A o \in Procs \cup {UTS} : ToRemove(u, o)' = ToRemove(u, o)
            BY <2>2, SoundFacts, RemovingSame
        <3>. QED BY <1>1, <2>1, <3>1, CountsKept
    <2>3. CASE \E j : Becomes(Watcher, j) /\ j.ref = p
        <3>1. PICK j : Becomes(Watcher, j) /\ j.ref = p
            BY <2>3
        <3>2. \A u \in Spaces : \A q \in pthreads \cup {UTS} : ~About(j, u, q) /\ ~About(job[Watcher], u, q)
            BY <2>1, <3>1 DEF About, Holding
        <3>. QED BY <1>2, <2>1, <3>1, <3>2
    <2>. QED BY <1>7, <2>2, <2>3 DEF Visits
<1>. QED BY <1>3, <1>4, <1>5, <1>6, <1>7

\* A walk that comes to its end has met no process and not UTS.
LEMMA CountedSearches ==
    ASSUME Sound, NEW a \in Agents, NEW j, Searches(a, j)
    PROVE  Counted'
<1>1. /\ Becomes(a, j) /\ job[a].pc \notin Holding /\ j.pc \notin Holding /\ job[a].ts \in Spaces
      /\ UNCHANGED <<pthreads, held, call, stored>>
    BY DEF Searches, clients, Holding
<1>2. \A t, o : ~About(j, t, o) /\ ~About(job[a], t, o)
    BY <1>1 DEF About
<1>3. ASSUME NEW t \in Spaces, NEW o \in pthreads \cup {UTS}
      PROVE  Times(refs'[t], o) = Times(refs[t], o) /\ Times(refs[t], o) \in Nat
    <2>1. o \in Procs \cup {UTS} /\ refs \in [Spaces -> Seq(Owners)]
          /\ Times(refs[t], o) \in Nat /\ (Times(refs[t], o) > 0 => o \in ToSet(refs[t]))
        BY SoundFacts, TimesFacts DEF TypeOK
    <2>2. CASE Clears(a, j) /\ t = job[a].ts
        <3>1. job[a].pc = "walking" /\ job[a].queue = <<>> /\ t \in job[a].memo
            BY <2>2, SoundFacts DEF Clears, Created
        <3>2. o \notin ToSet(refs[t])
            <4>1. ToSet(job[a].queue) = {}
                BY <3>1, TimesEmpty
            <4>. QED BY <2>1, <3>1, <4>1, Alive
        <3>3. refs'[t] = <<>>
            BY <1>1, <2>1, <2>2 DEF Clears
        <3>. QED BY <2>1, <3>2, <3>3, TimesEmpty
    <2>3. CASE ~(Clears(a, j) /\ t = job[a].ts)
        <3>1. refs'[t] = refs[t]
            BY <1>1, <2>1, <2>3 DEF Searches, Clears, Drops
        <3>. QED BY <2>1, <3>1
    <2>. QED BY <2>2, <2>3
<1>. QED BY <1>1, <1>2, <1>3, CountedJob

\* Each step.
LEMMA CountedStep ==
    ASSUME Sound, Step
    PROVE  Counted'
<1>1. CASE UNCHANGED vars
    <2>1. \A t \in Spaces : \A o \in Procs \cup {UTS} : ToRemove(t, o)' = ToRemove(t, o)
        BY <1>1, SoundFacts, RemovingSame DEF vars
    <2>. QED BY <1>1, <2>1, CountsKept DEF vars, server, clients
<1>. QED BY <1>1, CountedCreate, CountedHandles, CountedFrees, CountedTuples, CountedAdds,
         CountedChanges, CountedRemoval, CountedSearches DEF Step

(***************************************************************************)
(* The invariant is inductive.                                             *)
(***************************************************************************)
LEMMA SoundInitially == Init => Sound
<1> SUFFICES ASSUME Init PROVE Sound
    OBVIOUS
<1>1. IInv
    BY Initial
<1>2. /\ \A p \in Procs : call[p].at = "idle" /\ \A t \in Spaces : held[p][t] = 0
      /\ \A t \in Spaces : refs[t] = <<>> /\ \A s \in Stores : stored[s][t] = 0
      /\ \A a \in Agents : job[a].pc = "idle"
      /\ local_ts = {} /\ pthreads = Procs
    BY CallForms, JobForms DEF Init
<1>3. Entitled
    BY <1>2, Apart DEF Entitled, EntitledAt, Holding
<1>4. Created
    BY <1>2, TimesEmpty DEF Created, Stores
<1>5. Gone
    BY <1>2, Apart DEF Gone, Holding
<1>6. WalkOK
    BY <1>2 DEF WalkOK
<1>7. \A t, o : Removers(t, o) = {} /\ ToRemove(t, o) = 0
    <2>1. \A t, o : Removers(t, o) = {}
        BY <1>2 DEF Removers, About, Holding
    <2>. QED BY <2>1, Removing, FS_EmptySet
<1>8. HandlesCounted
    BY <1>2, <1>7, TimesEmpty DEF HandlesCounted, Owes
<1>9. TuplesCounted
    <2>1. \A t : Givers(t) = {} /\ Cardinality(Givers(t)) = 0
        <3>1. \A t : Givers(t) = {}
            BY <1>2 DEF Givers, Gives
        <3>. QED BY <3>1, FS_EmptySet
    <2>. QED BY <1>2, <1>7, <2>1, TimesEmpty DEF TuplesCounted, Stores
<1>. QED BY <1>1, <1>3, <1>4, <1>5, <1>6, <1>8, <1>9 DEF Sound

\* The invariant passes each step.
LEMMA SoundInductive == OnlyFromUTS /\ Sound /\ [Next]_vars => Sound'
<1> SUFFICES ASSUME OnlyFromUTS, Sound, [Next]_vars PROVE Sound'
    OBVIOUS
<1>1. Step
    BY SoundFacts, Steps
<1>2. IInv'
    BY Inductive DEF Sound
<1>. QED BY <1>1, <1>2, EntitledStep, PlacedStep, CountedStep DEF Sound, Placed, Counted

\* The invariant holds, whatever the clients do with what they take from UTS.
LEMMA SoundAlways == ASSUME OnlyFromUTS PROVE Spec => []Sound
<1>1. Sound /\ [Next]_vars => Sound'
    BY SoundInductive
<1>. QED BY <1>1, SoundInitially, PTL DEF Spec

\* The list of owners has a process as many times as it has handles, and UTS as
\* many times as there are tuples with a handle there, with those under way
\* (add_reference, changeOwner, removereference).
THEOREM CountsAreExact == ASSUME OnlyFromUTS PROVE Spec => []CountsExact
<1>1. ASSUME Sound PROVE CountsExact
    <2> SUFFICES ASSUME NEW t \in local_ts
                 PROVE  /\ \A p \in pthreads :
                             Times(refs[t], p) = held[p][t] + ToRemove(t, p)
                                                 + One(InCall(p, t, {"delete", "change"}))
                        /\ Times(refs[t], UTS) = stored[UTS][t] + ToRemove(t, UTS)
                             + Cardinality({p \in Procs : \/ InCall(p, t, {"own"}) /\ call[p].from = UTS
                                                          \/ InCall(p, t, {"put"}) /\ call[p].into = UTS})
        BY DEF CountsExact
    <2>1. t \in Spaces
        BY <1>1, SoundFacts, TypeFacts
    <2>2. \A p : One(InCall(p, t, {"delete", "change"})) = Owing(call[p], t)
        BY DEF One, InCall, Owing, Owes
    <2>3. {p \in Procs : \/ InCall(p, t, {"own"}) /\ call[p].from = UTS
                         \/ InCall(p, t, {"put"}) /\ call[p].into = UTS} = Givers(t)
        BY DEF InCall, Givers, Gives
    <2>4. TuplesAt(t) /\ \A p \in pthreads : HandlesAt(t, p)
        BY <1>1, <2>1, SoundFacts, CountedAt DEF Counted
    <2>. QED BY <2>2, <2>3, <2>4 DEF TuplesAt, HandlesAt
<1>. QED BY <1>1, SoundAlways, PTL

(***************************************************************************)
(* References that are missed.                                             *)
(***************************************************************************)
\* The threads that will find what they are to remove: with them the killlock
\* counts at least one.  One that will not find it is one too many.
Awaited(t) == {w \in Pending(t) : job[w].ref \in ToSet(refs[t])}
Waited == \A t \in Spaces : killlock[t] + Cardinality(Awaited(t)) >= 1

\* The awaited threads can be counted.
LEMMA AwaitedFinite ==
    \A t : /\ IsFiniteSet(Awaited(t)) /\ Cardinality(Awaited(t)) \in Nat
           /\ IsFiniteSet(Awaited(t)') /\ Cardinality(Awaited(t)') \in Nat
<1>1. \A S \in SUBSET Threads : IsFiniteSet(S) /\ Cardinality(S) \in Nat
    BY FS_Subset, FS_CardinalityType, ReferencesAssumption
<1>. QED BY <1>1 DEF Pending, Awaited

\* The awaited threads, by what they are about to remove.
LEMMA AwaitedAbout ==
    ASSUME NEW t \in Spaces
    PROVE  /\ \A w : w \in Awaited(t) <=>
                w \in Threads /\ \E o : o \in ToSet(refs[t]) /\ About(job[w], t, o)
           /\ \A w : w \in Awaited(t)' <=>
                w \in Threads /\ \E o : o \in ToSet(refs'[t]) /\ About(job'[w], t, o)
BY DEF Awaited, Pending, About

\* A step that raises the killlock or leaves it with the list, and loses no thread.
LEMMA WaitedKept ==
    ASSUME Sound, Waited, Types',
           \A t \in Spaces : \/ killlock'[t] >= 1
                             \/ killlock'[t] = killlock[t] /\ ToSet(refs[t]) \cap Procs \subseteq ToSet(refs'[t]),
           \/ UNCHANGED job
           \/ \E a \in Agents : \E j : /\ Becomes(a, j)
                                       /\ a \in Threads => \A t \in Spaces : \A o \in ToSet(refs[t]) :
                                            About(job[a], t, o) => About(j, t, o) \/ killlock'[t] >= 1
    PROVE  Waited'
<1> SUFFICES ASSUME NEW t \in Spaces PROVE killlock'[t] + Cardinality(Awaited(t)') >= 1
    BY DEF Waited
<1>1. /\ killlock'[t] \in Nat /\ killlock[t] \in Nat
      /\ Cardinality(Awaited(t)) \in Nat /\ Cardinality(Awaited(t)') \in Nat
    BY SoundFacts, AwaitedFinite DEF Types, TypeOK
<1>2. CASE killlock'[t] >= 1
    BY <1>1, <1>2
<1>3. CASE killlock'[t] = killlock[t] /\ killlock'[t] = 0
    <2>1. ASSUME NEW w, w \in Awaited(t) PROVE w \in Awaited(t)'
        <3>1. PICK o : w \in Threads /\ o \in ToSet(refs[t]) /\ About(job[w], t, o)
            BY <2>1, AwaitedAbout
        <3>2. w \in Agents /\ o \in Procs
            BY <3>1, SoundFacts, Apart DEF Types, Roles, Role, About
        <3>3. o \in ToSet(refs'[t])
            BY <1>1, <1>3, <3>1, <3>2
        <3>4. About(job'[w], t, o)
            <4>1. CASE UNCHANGED job
                BY <3>1, <4>1
            <4>2. ASSUME NEW a \in Agents, NEW j, Becomes(a, j),
                         a \in Threads => \A u \in Spaces : \A q \in ToSet(refs[u]) :
                               About(job[a], u, q) => About(j, u, q) \/ killlock'[u] >= 1
                  PROVE  About(job'[w], t, o)
                <5>1. CASE w # a
                    BY <3>1, <3>2, <4>2, <5>1, SoundFacts, JobStep
                <5>2. CASE w = a
                    BY <1>1, <1>3, <3>1, <4>2, <5>2, SoundFacts, JobStep
                <5>. QED BY <5>1, <5>2
            <4>. QED BY <4>1, <4>2
        <3>. QED BY <3>1, <3>3, <3>4, AwaitedAbout
    <2>2. Cardinality(Awaited(t)) <= Cardinality(Awaited(t)')
        BY <2>1, AwaitedFinite, FS_Subset
    <2>. QED BY <1>1, <1>3, <2>2 DEF Waited
<1>. QED BY <1>1, <1>2, <1>3

\* delete_reference: a thread more for a killlock less.
LEMMA WaitedFrees ==
    ASSUME Sound, Waited, Types', NEW p \in Procs, NEW t, Frees(p, t)
    PROVE  Waited'
<1>1. /\ t \in Spaces /\ p \in ToSet(refs[t]) /\ killlock[t] > 0
      /\ killlock' = [killlock EXCEPT ![t] = @ - 1] /\ UNCHANGED refs
      /\ killlock \in [Spaces -> Nat]
    <2>1. killlock \in [Spaces -> Nat]
        BY SoundFacts DEF TypeOK
    <2>2. UNCHANGED refs
        BY DEF Frees
    <2>. QED BY <2>1, <2>2, FreesThere
<1>2. PICK w \in Threads : \E j : /\ job[w].pc = "idle" /\ Becomes(w, j)
                                  /\ j.pc = "lookup" /\ j.ts = t /\ j.ref = p
    BY FreesThere
<1>3. PICK j : /\ job[w].pc = "idle" /\ Becomes(w, j) /\ j.pc = "lookup" /\ j.ts = t /\ j.ref = p
    BY <1>2
<1>4. w \in Agents /\ job'[w] = j /\ \A b \in Threads : b # w => job'[b] = job[b]
    BY <1>3, SoundFacts, Apart, JobStep
<1> SUFFICES ASSUME NEW u \in Spaces PROVE killlock'[u] + Cardinality(Awaited(u)') >= 1
    BY DEF Waited
<1>5. Cardinality(Awaited(u)) \in Nat /\ Cardinality(Awaited(u)') \in Nat /\ killlock'[u] \in Nat
    BY SoundFacts, AwaitedFinite DEF Types, TypeOK
<1>6. CASE u = t
    <2>1. w \in Awaited(u)'
        BY <1>1, <1>3, <1>4, <1>6, AwaitedAbout DEF About, Holding
    <2>2. Cardinality(Awaited(u)') # 0
        BY <2>1, AwaitedFinite, FS_EmptySet
    <2>. QED BY <1>5, <2>2
<1>7. CASE u # t
    <2>1. ASSUME NEW v, v \in Awaited(u) PROVE v \in Awaited(u)'
        <3>1. PICK o : v \in Threads /\ o \in ToSet(refs[u]) /\ About(job[v], u, o)
            BY <2>1, AwaitedAbout
        <3>2. v # w
            BY <1>3, <3>1 DEF About, Holding
        <3>. QED BY <1>1, <1>4, <3>1, <3>2, AwaitedAbout
    <2>2. Cardinality(Awaited(u)) <= Cardinality(Awaited(u)')
        BY <2>1, AwaitedFinite, FS_Subset
    <2>3. killlock'[u] = killlock[u] /\ killlock[u] \in Nat
        BY <1>1, <1>7
    <2>. QED BY <1>5, <2>2, <2>3 DEF Waited
<1>. QED BY <1>6, <1>7

\* A walk that empties a list met no process in it: no thread is awaited there.
LEMMA WaitedSearches ==
    ASSUME Sound, Waited, Types', NEW a \in Agents, NEW j, Searches(a, j)
    PROVE  Waited'
<1>1. /\ Becomes(a, j) /\ job[a].pc \notin Holding /\ job[a].ts \in Spaces /\ UNCHANGED killlock
      /\ killlock \in [Spaces -> Nat] /\ refs \in [Spaces -> Seq(Owners)]
    BY SoundFacts DEF Searches, Holding, TypeOK
<1>2. \A t, o : ~About(job[a], t, o)
    BY <1>1 DEF About
<1>3. ASSUME NEW t \in Spaces
      PROVE  killlock'[t] >= 1 \/ (killlock'[t] = killlock[t] /\ ToSet(refs[t]) \cap Procs \subseteq ToSet(refs'[t]))
    <2>1. CASE Clears(a, j) /\ t = job[a].ts
        <3>1. job[a].pc = "walking" /\ ToSet(job[a].queue) = {} /\ t \in job[a].memo
            BY <2>1, TimesEmpty, SoundFacts DEF Clears, Created
        <3>2. \A o \in Procs : o \notin ToSet(refs[t])
            BY <3>1, Alive
        <3>. QED BY <1>1, <3>2
    <2>2. CASE ~(Clears(a, j) /\ t = job[a].ts)
        <3>1. refs'[t] = refs[t]
            BY <1>1, <2>2 DEF Searches, Clears, Drops
        <3>. QED BY <1>1, <3>1
    <2>. QED BY <2>1, <2>2
<1>. QED BY <1>1, <1>2, <1>3, WaitedKept

\* Each step.
LEMMA WaitedStep ==
    ASSUME Sound, Waited, Types', Step
    PROVE  Waited'
<1>1. /\ killlock \in [Spaces -> Nat] /\ refs \in [Spaces -> Seq(Owners)]
    BY SoundFacts DEF TypeOK
<1>2. ASSUME UNCHANGED <<refs, killlock, job>> PROVE Waited'
    BY <1>1, <1>2, WaitedKept
<1>3. ASSUME NEW p \in Procs, NEW t \in Spaces, Create(p, t) PROVE Waited'
    <2>1. refs' = [refs EXCEPT ![t] = <<p>>] /\ killlock' = [killlock EXCEPT ![t] = 1] /\ UNCHANGED job
        BY <1>3 DEF Create
    <2>2. killlock'[t] = 1 /\ \A u \in Spaces \ {t} : killlock'[u] = killlock[u] /\ refs'[u] = refs[u]
        BY <1>1, <2>1
    <2>3. \A u \in Spaces : \/ killlock'[u] >= 1
                            \/ killlock'[u] = killlock[u] /\ ToSet(refs[u]) \cap Procs \subseteq ToSet(refs'[u])
        BY <2>2
    <2>. QED BY <2>1, <2>3, WaitedKept
<1>4. ASSUME NEW p \in Procs, \/ \E t, s, c : Asks(p, t, s, c)
                              \/ \E t, s : Puts(p, t, s)
                              \/ \E s, t : Takes(p, s, t)
                              \/ \E t : Answers(p, t)
                              \/ Leaves(p)
      PROVE  Waited'
    BY <1>2, <1>4 DEF Asks, Puts, Takes, Answers, Leaves, server
<1>5. ASSUME NEW p \in Procs, NEW t, NEW d, Tests(p, t, d) PROVE Waited'
    BY <1>2, <1>5, TestsThere DEF Tests
<1>6. ASSUME NEW t \in Spaces, NEW o \in Owners, refs' = [refs EXCEPT ![t] = Append(@, o)], UNCHANGED killlock
      PROVE  \A u \in Spaces : killlock'[u] = killlock[u] /\ ToSet(refs[u]) \cap Procs \subseteq ToSet(refs'[u])
    <2>1. ToSet(refs'[t]) = ToSet(refs[t]) \cup {o} /\ \A u \in Spaces \ {t} : refs'[u] = refs[u]
        BY <1>6, SoundFacts, Appended
    <2>. QED BY <1>6, <2>1
<1>7. ASSUME NEW p \in Procs, NEW t, NEW o, NEW c, Adds(p, t, o, c) PROVE Waited'
    <2>1. UNCHANGED <<killlock, job>>
        BY <1>7 DEF Adds
    <2>2. t \in Spaces /\ o \in Owners /\ refs' = [refs EXCEPT ![t] = Append(@, o)]
        BY <1>7, AddsThere
    <2>3. \A u \in Spaces : killlock'[u] = killlock[u] /\ ToSet(refs[u]) \cap Procs \subseteq ToSet(refs'[u])
        BY <1>6, <2>1, <2>2
    <2>. QED BY <2>1, <2>3, WaitedKept
<1>8. ASSUME NEW p \in Procs, NEW t, NEW s, NEW c, Changes(p, t, s, c) PROVE Waited'
    <2>1. /\ t \in Spaces /\ refs' = [refs EXCEPT ![t] = Append(@, p)] /\ UNCHANGED killlock
          /\ \E j : Becomes(p, j)
          /\ p \in Owners /\ p \in Agents /\ p \notin Threads
        <3>1. t \in Spaces /\ refs' = [refs EXCEPT ![t] = Append(@, p)] /\ \E j : Becomes(p, j)
            BY <1>8, ChangesThere
        <3>2. UNCHANGED killlock
            BY <1>8 DEF Changes
        <3>. QED BY <3>1, <3>2, Apart DEF Owners
    <2>2. \A u \in Spaces : killlock'[u] = killlock[u] /\ ToSet(refs[u]) \cap Procs \subseteq ToSet(refs'[u])
        BY <1>6, <2>1
    <2>. QED BY <2>1, <2>2, WaitedKept
<1>9. ASSUME NEW a \in Agents, NEW j, Looks(a, j) PROVE Waited'
    <2>1. Becomes(a, j) /\ UNCHANGED <<refs, killlock>> /\ job[a].pc = "lookup"
        BY <1>9 DEF Looks, server
    <2>2. ASSUME NEW t \in Spaces, NEW o \in ToSet(refs[t]), About(job[a], t, o) PROVE About(j, t, o)
        <3>1. CASE j.pc = "remove" /\ j.ts = job[a].ts /\ j.ref = job[a].ref
            BY <2>2, <3>1 DEF About, Holding
        <3>2. CASE job[a].ts \notin local_ts
            <4>1. refs[t] = <<>>
                BY <2>2, <3>2, SoundFacts DEF About, Gone
            <4>. QED BY <2>2, <4>1, TimesEmpty
        <3>. QED BY <1>9, <3>1, <3>2 DEF Looks
    <2>. QED BY <2>1, <2>2, WaitedKept
<1>10. ASSUME NEW a \in Agents, NEW t, NEW o, NEW j, Removes(a, t, o, j) PROVE Waited'
    <2>1. /\ Becomes(a, j) /\ t \in Spaces /\ job[a].ts = t /\ killlock' = [killlock EXCEPT ![t] = @ + 1]
          /\ UNCHANGED refs \/ refs' = [refs EXCEPT ![t] = RemoveFirst(@, o)]
        BY <1>10 DEF Removes
    <2>2. /\ killlock'[t] >= 1
          /\ \A u \in Spaces \ {t} : killlock'[u] = killlock[u] /\ refs'[u] = refs[u]
        BY <1>1, <2>1
    <2>3. \A u \in Spaces : \A q : About(job[a], u, q) => u = t
        BY <2>1 DEF About
    <2>4. \A u \in Spaces : \/ killlock'[u] >= 1
                            \/ killlock'[u] = killlock[u] /\ ToSet(refs[u]) \cap Procs \subseteq ToSet(refs'[u])
        BY <2>2
    <2>. QED BY <2>1, <2>2, <2>3, <2>4, WaitedKept
<1>11. ASSUME NEW t, NEW o, NEW j, RemovesAll(t, o, j) PROVE Waited'
    <2>1. /\ Becomes(Watcher, j) /\ t \in Spaces /\ Watcher \in Agents /\ Watcher \notin Threads
          /\ UNCHANGED killlock /\ killlock[t] > 0 /\ refs' = [refs EXCEPT ![t] = Without(@, o)]
        BY <1>11, Apart DEF RemovesAll
    <2>2. /\ killlock'[t] >= 1
          /\ \A u \in Spaces \ {t} : killlock'[u] = killlock[u] /\ refs'[u] = refs[u]
        BY <1>1, <2>1
    <2>3. \A u \in Spaces : \/ killlock'[u] >= 1
                            \/ killlock'[u] = killlock[u] /\ ToSet(refs[u]) \cap Procs \subseteq ToSet(refs'[u])
        BY <2>2
    <2>. QED BY <2>1, <2>3, WaitedKept
<1>12. ASSUME NEW s \in Spaces, NEW t \in Spaces, NEW j, Destroys(s, t, j) PROVE Waited'
    <2>1. Becomes(s, j) /\ s \in Agents /\ s \notin Threads /\ UNCHANGED <<refs, killlock>>
        BY <1>12, Apart DEF Destroys
    <2>. QED BY <2>1, WaitedKept
<1>13. ASSUME NEW p \in Procs, NEW t \in Spaces, Visits(p, t) PROVE Waited'
    <2>1. Watcher \in Agents /\ Watcher \notin Threads /\ UNCHANGED <<refs, killlock>>
          /\ (UNCHANGED job \/ \E j : Becomes(Watcher, j))
        BY <1>13, Apart DEF Visits, server
    <2>. QED BY <2>1, WaitedKept
<1>14. CASE UNCHANGED vars
    BY <1>2, <1>14 DEF vars, server
<1>. QED BY <1>3, <1>4, <1>5, <1>7, <1>8, <1>9, <1>10, <1>11, <1>12, <1>13, <1>14,
         WaitedFrees, WaitedSearches DEF Step

\* The killlock waits for threads that will find what they are to remove.
LEMMA WaitedAlways == ASSUME OnlyFromUTS PROVE Spec => []Waited
<1>1. Init => Waited
    <2>1. \A n \in Nat : 1 + n >= 1
        OBVIOUS
    <2>. QED BY <2>1, AwaitedFinite DEF Init, Waited
<1>2. Sound /\ Waited /\ Sound' /\ [Next]_vars => Waited'
    BY SoundFacts, Steps, WaitedStep DEF Sound, IInv
<1>. QED BY <1>1, <1>2, SoundAlways, PTL DEF Spec

\* removereference raises its "Internal reference counting error" only for a
\* process whose removal overtook a thread of delete_reference where the
\* killlock was released once too often, or for a tuplespace that is destroyed.
THEOREM MissesAreExplained == ASSUME OnlyFromUTS PROVE Spec => MissesExplained
<1>1. ASSUME Sound, Waited, [Next]_vars, NEW m \in missed' \ missed
      PROVE  \/ m[2] \in Procs \ pthreads /\ OverReleased(m[1])
             \/ m[2] \in Spaces \ local_ts
    <2>1. Step
        BY <1>1, SoundFacts, Steps
    <2>2. PICK a \in Agents : \E t, o, j : Removes(a, t, o, j) /\ m = <<t, o>> /\ o \notin ToSet(refs[t])
        <3>1. \/ UNCHANGED missed
              \/ \E a \in Agents : \E t, o, j : Removes(a, t, o, j)
            <4>1. ASSUME NEW p \in Procs, \/ \E t \in Spaces : Create(p, t)
                                          \/ \E t, s, c : Asks(p, t, s, c)
                                          \/ \E t, d : Tests(p, t, d)
                                          \/ \E t, o, c : Adds(p, t, o, c)
                  PROVE  UNCHANGED missed
                BY <4>1 DEF Create, Asks, Tests, Adds, history
            <4>2. ASSUME NEW p \in Procs, \/ \E t, s : Puts(p, t, s)
                                          \/ \E s, t : Takes(p, s, t)
                                          \/ \E t, s, c : Changes(p, t, s, c)
                                          \/ \E t : Answers(p, t)
                  PROVE  UNCHANGED missed
                BY <4>2 DEF Puts, Takes, Changes, Answers
            <4>3. ASSUME NEW p \in Procs, \/ \E t : Frees(p, t)
                                          \/ Leaves(p)
                                          \/ \E t \in Spaces : Visits(p, t)
                  PROVE  UNCHANGED missed
                BY <4>3 DEF Frees, Leaves, Visits, history
            <4>4. ASSUME NEW a \in Agents, NEW j, Looks(a, j) \/ Searches(a, j) PROVE UNCHANGED missed
                BY <4>4 DEF Looks, Searches, history
            <4>5. ASSUME NEW t, NEW o, NEW j, RemovesAll(t, o, j) PROVE UNCHANGED missed
                BY <4>5 DEF RemovesAll, history
            <4>6. ASSUME NEW s \in Spaces, NEW t \in Spaces, NEW j, Destroys(s, t, j) PROVE UNCHANGED missed
                BY <4>6 DEF Destroys, history
            <4>7. CASE UNCHANGED vars
                BY <4>7 DEF vars, history
            <4>. QED BY <2>1, <4>1, <4>2, <4>3, <4>4, <4>5, <4>6, <4>7 DEF Step
        <3>2. ASSUME NEW a \in Agents, NEW t, NEW o, NEW j, Removes(a, t, o, j)
              PROVE  m = <<t, o>> /\ o \notin ToSet(refs[t])
            BY <1>1, <3>2 DEF Removes
        <3>. QED BY <1>1, <3>1, <3>2
    <2>3. PICK t, o, j : Removes(a, t, o, j) /\ m = <<t, o>> /\ o \notin ToSet(refs[t])
        BY <2>2
    <2>4. /\ t \in Spaces /\ job[a].pc \in Holding /\ About(job[a], t, o) /\ ~job[a].every
          /\ Role(a, job[a]) /\ job[a].ref = o
        BY <1>1, <2>3, SoundFacts DEF Removes, About, Holding, Types, Roles
    <2>5. o \notin pthreads \cup {UTS}
        BY <1>1, <2>3, <2>4, RemoverThere
    <2>6. CASE a \in Threads
        <3>1. o \in Procs \ pthreads
            BY <2>4, <2>5, <2>6 DEF Role
        <3>2. a \in Pending(t) /\ a \notin Awaited(t) /\ Awaited(t) \subseteq Pending(t) \ {a}
            BY <2>3, <2>4, <2>6 DEF Pending, Awaited, About
        <3>3. Cardinality(Awaited(t)) <= Cardinality(Pending(t)) - 1
            <4>1. IsFiniteSet(Pending(t)) /\ Cardinality(Pending(t) \ {a}) = Cardinality(Pending(t)) - 1
                BY <3>2, PendingFinite, Counting
            <4>2. IsFiniteSet(Pending(t) \ {a})
                BY <4>1, FS_Subset
            <4>. QED BY <3>2, <4>1, <4>2, FS_Subset
        <3>4. killlock[t] \in Nat /\ Cardinality(Pending(t)) \in Nat /\ Cardinality(Awaited(t)) \in Nat
            BY <1>1, <2>4, SoundFacts, TypeFacts, PendingFinite, AwaitedFinite
        <3>5. killlock[t] + Cardinality(Pending(t)) > 1
            BY <1>1, <2>4, <3>3, <3>4 DEF Waited
        <3>6. OverReleased(t)
            BY <3>5 DEF OverReleased, Pending, Holding
        <3>. QED BY <2>3, <3>1, <3>6
    <2>7. CASE a \in Procs
        BY <1>1, <2>4, <2>5, <2>7, SoundFacts DEF Entitled, EntitledAt
    <2>8. CASE a \in Spaces
        <3>1. o = a /\ a \notin local_ts
            BY <1>1, <2>4, <2>8, SoundFacts DEF Role, Gone
        <3>. QED BY <2>3, <2>8, <3>1
    <2>9. CASE a = Watcher
        BY <2>4, <2>9 DEF Role
    <2>. QED BY <2>6, <2>7, <2>8, <2>9, Apart
<1>2. Sound /\ Waited /\ [Next]_vars =>
        [\A m \in missed' \ missed :
            \/ m[2] \in Procs \ pthreads /\ OverReleased(m[1])
            \/ m[2] \in Spaces \ local_ts]_vars
    BY <1>1
<1>. QED BY <1>2, SoundAlways, WaitedAlways, PTL DEF Spec, MissesExplained

(***************************************************************************)
(* What can be reached.                                                    *)
(***************************************************************************)
Handing == {"test", "add", "put", "own", "change"}
\* A tuple with t is in s, or is about to be put there.
PutInto(c, s, t) == c.at = "put" /\ c.ts = t /\ c.into = s
Keeps(s, t) == stored[s][t] > 0 \/ \E p \in Procs : PutInto(call[p], s, t)

\* A tuplespace that can be reached owns those in its tuples and those that are
\* about to be put there.
Owned == \A s \in Reached, t \in Spaces : Keeps(s, t) => s \in ToSet(refs[t])

\* What a client has, UTS holds or a call hands over.
LEMMA RootsAre ==
    /\ Roots = {t \in Spaces : \/ stored[UTS][t] > 0
                               \/ \E p \in Procs : held[p][t] > 0 \/ (call[p].at \in Handing /\ call[p].ts = t)}
    /\ Roots' = {t \in Spaces : \/ stored'[UTS][t] > 0
                                \/ \E p \in Procs : held'[p][t] > 0 \/ (call'[p].at \in Handing /\ call'[p].ts = t)}
BY DEF Roots, InCall, Handing

\* What can be reached is in each closed set with the roots.
LEMMA ReachedLeast ==
    ASSUME NEW c \in SUBSET Spaces
    PROVE  /\ Roots \subseteq c /\ (\A s \in c, t \in Spaces : stored[s][t] > 0 => t \in c) => Reached \subseteq c
           /\ Roots' \subseteq c /\ (\A s \in c, t \in Spaces : stored'[s][t] > 0 => t \in c) => Reached' \subseteq c
BY DEF Reached, Closed

\* What can be reached is closed.
LEMMA ReachedClosed ==
    /\ Roots \subseteq Reached /\ Reached \subseteq Spaces
    /\ \A s \in Reached, t \in Spaces : stored[s][t] > 0 => t \in Reached
<1>1. Roots \subseteq Reached /\ Reached \subseteq Spaces
    BY DEF Reached, Roots
<1>2. ASSUME NEW s \in Reached, NEW t \in Spaces, stored[s][t] > 0 PROVE t \in Reached
    <2>1. ASSUME NEW c \in SUBSET Spaces, Roots \subseteq c, Closed(c) PROVE t \in c
        <3>1. s \in c
            BY <2>1 DEF Reached
        <3>. QED BY <1>2, <2>1, <3>1 DEF Closed
    <2>. QED BY <2>1 DEF Reached
<1>. QED BY <1>1, <1>2

\* A root has a process or UTS as an owner.
LEMMA RootOwned ==
    ASSUME Sound, NEW t \in Roots
    PROVE  t \in Spaces /\ \E o \in Procs \cup {UTS} : o \in ToSet(refs[t])
<1>1. t \in Spaces
    BY RootsAre
<1>2. CASE stored[UTS][t] > 0
    BY <1>1, <1>2, TupleStored
<1>3. ASSUME NEW p \in Procs, held[p][t] > 0 PROVE \E o \in Procs \cup {UTS} : o \in ToSet(refs[t])
    BY <1>1, <1>3, HandleHeld
<1>4. ASSUME NEW p \in Procs, call[p].at \in Handing, call[p].ts = t
      PROVE  \E o \in Procs \cup {UTS} : o \in ToSet(refs[t])
    <2>1. p \in pthreads /\ EntitledAt(p)
        BY <1>4, Caller DEF Handing
    <2>2. CASE call[p].at \in {"test", "add", "put"}
        BY <1>1, <1>4, <2>1, <2>2, HandleHeld DEF EntitledAt
    <2>3. CASE call[p].at = "own"
        <3>1. Gives(call[p], t)
            BY <1>4, <2>1, <2>3 DEF EntitledAt, Gives
        <3>. QED BY <1>1, <3>1, TupleStored
    <2>4. CASE call[p].at = "change"
        <3>1. Owes(call[p], t)
            BY <1>4, <2>4 DEF Owes
        <3>. QED BY <1>1, <2>1, <3>1, HandleHeld
    <2>. QED BY <1>4, <2>2, <2>3, <2>4 DEF Handing
<1>. QED BY <1>1, <1>2, <1>3, <1>4, RootsAre

\* What can be reached and is no root is in a tuple of what can be reached, so
\* all that can be reached is owned, and there.
LEMMA ReachedStored ==
    ASSUME NEW t \in Reached, t \notin Roots
    PROVE  \E s \in Reached : stored[s][t] > 0
<1> SUFFICES ASSUME \A s \in Reached : ~(stored[s][t] > 0) PROVE FALSE
    OBVIOUS
<1>1. Reached \ {t} \in SUBSET Spaces /\ Roots \subseteq Reached \ {t}
    BY ReachedClosed
<1>2. \A s \in Reached \ {t}, u \in Spaces : stored[s][u] > 0 => u \in Reached \ {t}
    BY ReachedClosed
<1>. QED BY <1>1, <1>2, ReachedLeast

\* What can be reached is in the container.
LEMMA ReachedThere ==
    ASSUME Sound, Owned
    PROVE  Reached \subseteq local_ts
<1> SUFFICES ASSUME NEW t \in Reached PROVE t \in local_ts
    OBVIOUS
<1>1. t \in Spaces
    BY ReachedClosed
<1>2. CASE t \in Roots
    BY <1>1, <1>2, RootOwned, Alive
<1>3. CASE t \notin Roots
    <2>1. PICK s \in Reached : stored[s][t] > 0
        BY <1>3, ReachedStored
    <2>2. s \in ToSet(refs[t])
        BY <1>1, <2>1 DEF Owned, Keeps
    <2>3. refs[t] # <<>>
        BY <2>2, TimesEmpty
    <2>. QED BY <1>1, <2>3, SoundFacts DEF Gone
<1>. QED BY <1>2, <1>3

\* A walk that comes to its end has been at nothing that can be reached.
LEMMA WalkedUnreached ==
    ASSUME Sound, Owned, NEW a \in Agents, job[a].pc = "walking", job[a].queue = <<>>
    PROVE  \A m \in job[a].memo : m \notin Reached
<1>1. ToSet(job[a].queue) = {} /\ job[a].memo \subseteq Spaces
    BY TimesEmpty, SoundFacts DEF Created, TypeOK
<1>2. \A m \in job[a].memo : m \notin Roots
    BY <1>1, RootOwned, Alive
<1>3. \A m \in job[a].memo : ToSet(refs[m]) \subseteq job[a].memo
    BY <1>1, SoundFacts DEF WalkOK
<1>4. PICK c : c = Reached \ job[a].memo
    OBVIOUS
<1>5. c \in SUBSET Spaces /\ Roots \subseteq c
    BY <1>2, <1>4, ReachedClosed
<1>6. ASSUME NEW s \in c, NEW t \in Spaces, stored[s][t] > 0 PROVE t \in c
    <2>1. s \in Reached /\ s \notin job[a].memo /\ t \in Reached
        BY <1>4, <1>6, ReachedClosed
    <2>2. s \in ToSet(refs[t])
        BY <1>6, <2>1 DEF Owned, Keeps
    <2>. QED BY <1>3, <1>4, <2>1, <2>2
<1>7. Reached \subseteq c
    BY <1>5, <1>6, ReachedLeast
<1>. QED BY <1>4, <1>7

\* A step that makes nothing reachable that was not, and takes no owner that is needed.
LEMMA OwnedKept ==
    ASSUME Owned, Roots' \subseteq Reached,
           \A s \in Reached, t \in Spaces : stored'[s][t] > 0 => stored[s][t] > 0 \/ t \in Reached,
           \A s \in Reached, t \in Spaces : Keeps(s, t)' => Keeps(s, t) \/ s \in ToSet(refs'[t]),
           \A s \in Reached, t \in Spaces : Keeps(s, t) /\ s \in ToSet(refs[t]) => s \in ToSet(refs'[t])
    PROVE  Owned'
<1>1. Reached' \subseteq Reached
    <2>1. Reached \in SUBSET Spaces /\ \A s \in Reached, t \in Spaces : stored'[s][t] > 0 => t \in Reached
        BY ReachedClosed
    <2>. QED BY <2>1, ReachedLeast
<1>. QED BY <1>1 DEF Owned

\* No call goes on, and nobody gets a handle.
LEMMA OwnedJob ==
    ASSUME Sound, Owned, UNCHANGED call,
           \A p \in Procs, t \in Spaces : held'[p][t] > 0 => held[p][t] > 0,
           \A s \in Stores, t \in Spaces : stored'[s][t] > 0 => stored[s][t] > 0,
           \A s \in Reached, t \in Spaces : Keeps(s, t) /\ s \in ToSet(refs[t]) => s \in ToSet(refs'[t])
    PROVE  Owned'
<1>1. Roots' \subseteq Roots
    BY RootsAre DEF Stores
<1>2. \A s \in Reached : s \in Stores
    BY ReachedClosed DEF Stores
<1>3. \A s \in Reached, t \in Spaces : Keeps(s, t)' => Keeps(s, t)
    BY <1>2 DEF Keeps
<1>. QED BY <1>1, <1>2, <1>3, ReachedClosed, OwnedKept

\* p's call goes on to c.
LEMMA OwnedCall ==
    ASSUME Sound, Owned, NEW p \in Procs, NEW c, call' = [call EXCEPT ![p] = c],
           \A q \in Procs \ {p} : held'[q] = held[q],
           \A t \in Spaces : held'[p][t] > 0 => t \in Roots,
           c.at \in Handing => c.ts \in Roots,
           \A t \in Spaces : stored'[UTS][t] > 0 => t \in Roots,
           \A s, t \in Spaces : stored'[s][t] > 0 => stored[s][t] > 0 \/ (PutInto(call[p], s, t) /\ t \in Roots),
           \A s, t \in Spaces : PutInto(c, s, t) => s \in ToSet(refs'[t]),
           \A s, t \in Spaces : s \in ToSet(refs[t]) => s \in ToSet(refs'[t])
    PROVE  Owned'
<1>1. call'[p] = c /\ \A q \in Procs \ {p} : call'[q] = call[q]
    BY SoundFacts DEF TypeOK
<1>2. Reached \subseteq Spaces /\ Roots \subseteq Reached
    BY ReachedClosed
<1>3. Roots' \subseteq Roots
    <2> SUFFICES ASSUME NEW t \in Roots' PROVE t \in Roots
        OBVIOUS
    <2>1. \/ stored'[UTS][t] > 0
          \/ \E q \in Procs : held'[q][t] > 0 \/ (call'[q].at \in Handing /\ call'[q].ts = t)
        BY RootsAre
    <2>2. t \in Spaces
        BY RootsAre
    <2>3. ASSUME NEW q \in Procs, held'[q][t] > 0 \/ (call'[q].at \in Handing /\ call'[q].ts = t)
          PROVE  t \in Roots
        <3>1. CASE q = p
            BY <1>1, <2>2, <2>3, <3>1
        <3>2. CASE q # p
            BY <1>1, <2>2, <2>3, <3>2, RootsAre
        <3>. QED BY <3>1, <3>2
    <2>. QED BY <2>1, <2>2, <2>3
<1>4. \A s \in Reached, t \in Spaces : Keeps(s, t)' => Keeps(s, t) \/ s \in ToSet(refs'[t])
    BY <1>1, <1>2 DEF Keeps
<1>. QED BY <1>2, <1>3, <1>4, OwnedKept

\* A tuplespace that begins is in no tuple and is no owner.
LEMMA OwnedCreate ==
    ASSUME Sound, Owned, NEW p \in Procs, NEW t \in Spaces, Create(p, t)
    PROVE  Owned'
<1>1. /\ refs' = [refs EXCEPT ![t] = <<p>>] /\ refs \in [Spaces -> Seq(Owners)]
      /\ held' = [held EXCEPT ![p][t] = 1] /\ held \in [Procs -> [Spaces -> Nat]]
      /\ t \notin born /\ UNCHANGED <<stored, call>>
    BY SoundFacts DEF Create, TypeOK
<1>2. \A u \in Spaces \ {t} : refs'[u] = refs[u] /\ \A q \in Procs : held'[q][u] = held[q][u]
    BY <1>1
<1>3. \A u \in Spaces : ~(stored[t][u] > 0)
    BY <1>1, SoundFacts DEF Created
<1>4. PICK c : c = Reached \cup {t}
    OBVIOUS
<1>5. c \in SUBSET Spaces /\ Roots \subseteq c /\ \A s \in c, u \in Spaces : stored[s][u] > 0 => u \in c
    BY <1>3, <1>4, ReachedClosed
<1>6. Roots' \subseteq c
    <2> SUFFICES ASSUME NEW u \in Roots', u # t PROVE u \in c
        BY <1>4
    <2>1. u \in Spaces /\ (\/ stored[UTS][u] > 0
                           \/ \E q \in Procs : held[q][u] > 0 \/ (call[q].at \in Handing /\ call[q].ts = u))
        BY <1>1, <1>2, RootsAre
    <2>2. u \in Roots
        BY <2>1, RootsAre
    <2>. QED BY <1>5, <2>2
<1>7. Reached' \subseteq c
    BY <1>1, <1>5, <1>6, ReachedLeast
<1>8. ASSUME NEW s \in Spaces, NEW u \in Spaces, Keeps(s, u) PROVE s # t /\ u # t
    <2>1. CASE stored[s][u] > 0
        <3>1. s \in born /\ u \in born
            BY <2>1, SoundFacts DEF Created, Types, Known, Stores
        <3>. QED BY <1>1, <3>1
    <2>2. ASSUME NEW q \in Procs, PutInto(call[q], s, u) PROVE s # t /\ u # t
        <3>1. call[q].at = "put" /\ call[q].ts = u /\ call[q].into = s
            BY <2>2 DEF PutInto
        <3>2. held[q][u] > 0 /\ held[q][s] > 0
            BY <3>1, SoundFacts DEF Entitled, EntitledAt
        <3>3. u \in born /\ s \in born
            BY <3>2, SoundFacts DEF Types, Known
        <3>. QED BY <1>1, <3>3
    <2>. QED BY <1>8, <2>1, <2>2 DEF Keeps
<1>9. ASSUME NEW s \in Reached', NEW u \in Spaces, Keeps(s, u)' PROVE s \in ToSet(refs'[u])
    <2>1. s \in Spaces /\ Keeps(s, u)
        BY <1>1, <1>5, <1>7, <1>9 DEF Keeps
    <2>2. s # t /\ u # t
        BY <1>8, <2>1
    <2>3. s \in Reached
        BY <1>4, <1>7, <2>2
    <2>. QED BY <1>2, <2>1, <2>2, <2>3 DEF Owned
<1>. QED BY <1>9 DEF Owned

\* The calls and the handlers.
LEMMA OwnedAsks ==
    ASSUME Sound, Owned, NEW p \in Procs, NEW t, NEW s, NEW c, Asks(p, t, s, c)
    PROVE  Owned'
<1>1. /\ call' = [call EXCEPT ![p] = c] /\ UNCHANGED <<refs, stored>>
      /\ held \in [Procs -> [Spaces -> Nat]]
    BY SoundFacts DEF Asks, server, TypeOK
<1>2. \/ UNCHANGED held
      \/ t \in Spaces /\ held' = [held EXCEPT ![p][t] = @ - 1]
    BY DEF Asks
<1>3. \A q \in Procs \ {p} : held'[q] = held[q]
    BY <1>1, <1>2
<1>4. \A u \in Spaces : held'[p][u] > 0 => held[p][u] > 0
    <2>1. \A u \in Spaces : held[p][u] \in Nat
        BY <1>1
    <2>2. CASE UNCHANGED held
        BY <2>2
    <2>3. CASE t \in Spaces /\ held' = [held EXCEPT ![p][t] = @ - 1]
        <3>1. held'[p][t] = held[p][t] - 1 /\ \A u \in Spaces \ {t} : held'[p][u] = held[p][u]
            BY <1>1, <2>3
        <3>. QED BY <2>1, <2>3, <3>1
    <2>. QED BY <1>2, <2>2, <2>3
<1>5. c.at \in Handing => c.ts = t /\ t \in Spaces /\ held[p][t] > 0
    BY DEF Asks, Handing
<1>6. c.at # "put"
    BY DEF Asks
<1>7. \A u \in Spaces : held[p][u] > 0 \/ stored[UTS][u] > 0 => u \in Roots
    BY RootsAre
<1>8. \A u \in Spaces : held'[p][u] > 0 => u \in Roots
    BY <1>4, <1>7
<1>9. c.at \in Handing => c.ts \in Roots
    BY <1>5, <1>7
<1>10. \A r, u \in Spaces : ~PutInto(c, r, u)
    BY <1>6 DEF PutInto
<1>11. \A u \in Spaces : stored'[UTS][u] > 0 => u \in Roots
    BY <1>1, <1>7
<1>. QED BY <1>1, <1>3, <1>8, <1>9, <1>10, <1>11, OwnedCall

\* The test of out_tuple and add_reference hands on what the client has.
LEMMA OwnedTests ==
    ASSUME Sound, Owned, NEW p \in Procs, NEW t, NEW d, Tests(p, t, d)
    PROVE  Owned'
<1>1. /\ call' = [call EXCEPT ![p] = d] /\ UNCHANGED <<refs, stored, held>>
      /\ d.at = "add" /\ d.ts = t /\ t \in Spaces /\ call[p].at = "test" /\ call[p].ts = t
    BY TestsThere DEF Tests
<1>2. t \in Roots
    BY <1>1, RootsAre DEF Handing
<1>3. \A u \in Spaces : held[p][u] > 0 \/ stored[UTS][u] > 0 => u \in Roots
    BY RootsAre
<1>4. \A r, u \in Spaces : ~PutInto(d, r, u)
    BY <1>1 DEF PutInto
<1>. QED BY <1>1, <1>2, <1>3, <1>4, OwnedCall

\* add_reference: who gets the handle, or the tuple, is an owner.
LEMMA OwnedAdds ==
    ASSUME Sound, Owned, NEW p \in Procs, NEW t, NEW o, NEW c, Adds(p, t, o, c)
    PROVE  Owned'
<1>1. /\ t \in Spaces /\ o \in Owners /\ refs' = [refs EXCEPT ![t] = Append(@, o)]
      /\ \/ o = p /\ held' = [held EXCEPT ![p][t] = @ + 1] /\ c.at = "idle"
         \/ UNCHANGED held /\ c.at = "put" /\ c.ts = t /\ c.into = o
    BY AddsThere
<1>2. /\ call' = [call EXCEPT ![p] = c] /\ UNCHANGED stored
      /\ call[p].at = "add" /\ call[p].ts = t
      /\ held \in [Procs -> [Spaces -> Nat]]
    BY SoundFacts DEF Adds, TypeOK
<1>3. t \in Roots
    BY <1>1, <1>2, RootsAre DEF Handing
<1>4. \A u \in Spaces : held[p][u] > 0 \/ stored[UTS][u] > 0 => u \in Roots
    BY RootsAre
<1>5. (\A q \in Procs \ {p} : held'[q] = held[q]) /\ (\A u \in Spaces \ {t} : held'[p][u] = held[p][u])
    BY <1>1, <1>2
<1>6. \A u \in Spaces : held'[p][u] > 0 => u \in Roots
    BY <1>3, <1>4, <1>5
<1>7. ToSet(refs'[t]) = ToSet(refs[t]) \cup {o} /\ \A u \in Spaces \ {t} : refs'[u] = refs[u]
    BY <1>1, SoundFacts, Appended
<1>8. \A r, u \in Spaces : r \in ToSet(refs[u]) => r \in ToSet(refs'[u])
    BY <1>7
<1>9. \A r, u \in Spaces : PutInto(c, r, u) => r \in ToSet(refs'[u])
    BY <1>1, <1>7 DEF PutInto
<1>10. c.at \in Handing => c.ts \in Roots
    BY <1>1, <1>3 DEF Handing
<1>. QED BY <1>2, <1>4, <1>5, <1>6, <1>8, <1>9, <1>10, OwnedCall


\* out_tuple: its tuplespace was made an owner before.
LEMMA OwnedPuts ==
    ASSUME Sound, Owned, NEW p \in Procs, NEW t, NEW s, Puts(p, t, s)
    PROVE  Owned'
<1>1. /\ call[p].at = "put" /\ call[p].ts = t /\ call[p].into = s /\ t \in Spaces /\ s \in Stores
      /\ stored' = [stored EXCEPT ![s][t] = @ + 1] /\ call' = [call EXCEPT ![p] = NoCall]
      /\ UNCHANGED <<refs, held>> /\ stored \in [Stores -> [Spaces -> Nat]]
    BY SoundFacts DEF Puts, TypeOK
<1>2. PICK c : c = NoCall
    OBVIOUS
<1>3. c.at = "idle"
    BY <1>2, CallForms
<1>4. t \in Roots
    BY <1>1, RootsAre DEF Handing
<1>5. \A u \in Spaces : held[p][u] > 0 \/ stored[UTS][u] > 0 => u \in Roots
    BY RootsAre
<1>6. \A r \in Stores, u \in Spaces : stored'[r][u] = stored[r][u] \/ (r = s /\ u = t)
    BY <1>1
<1>7. \A u \in Spaces : stored'[UTS][u] > 0 => u \in Roots
    BY <1>4, <1>5, <1>6 DEF Stores
<1>8. \A r, u \in Spaces : stored'[r][u] > 0 => stored[r][u] > 0 \/ (PutInto(call[p], r, u) /\ u \in Roots)
    BY <1>1, <1>4, <1>6 DEF PutInto, Stores
<1>9. (\A r, u \in Spaces : ~PutInto(c, r, u)) /\ c.at \notin Handing
    BY <1>3 DEF PutInto, Handing
<1>. QED BY <1>1, <1>2, <1>5, <1>7, <1>8, <1>9, OwnedCall

\* A tuple is taken from UTS, so that no tuplespace loses an owner by it.
LEMMA OwnedTakes ==
    ASSUME Sound, Owned, NEW p \in Procs, NEW s, NEW t, Takes(p, s, t)
    PROVE  Owned'
<1>1. /\ call[p].at = "match" /\ call[p].from = s /\ t \in Spaces /\ s = UTS /\ stored[UTS][t] > 0
      /\ stored' = [stored EXCEPT ![s][t] = @ - 1]
      /\ UNCHANGED <<refs, held>> /\ stored \in [Stores -> [Spaces -> Nat]]
    BY SoundFacts, Caller DEF Takes, EntitledAt, TypeOK
<1>2. PICK c : c = [at |-> "own", ts |-> t, from |-> s]
    OBVIOUS
<1>3. c.at = "own" /\ c.ts = t /\ call' = [call EXCEPT ![p] = c]
    BY <1>2 DEF Takes
<1>4. \A u \in Spaces : held[p][u] > 0 \/ stored[UTS][u] > 0 => u \in Roots
    BY RootsAre
<1>5. \A r \in Stores \ {UTS} : stored'[r] = stored[r]
    BY <1>1
<1>6. \A u \in Spaces : stored'[UTS][u] > 0 => u \in Roots
    <2>1. stored'[UTS] = [stored[UTS] EXCEPT ![t] = @ - 1]
        BY <1>1 DEF Stores
    <2>2. stored[UTS] \in [Spaces -> Nat]
        BY <1>1 DEF Stores
    <2>3. \A u \in Spaces \ {t} : stored'[UTS][u] = stored[UTS][u]
        BY <2>1, <2>2
    <2>. QED BY <1>1, <1>4, <2>3
<1>7. \A r, u \in Spaces : stored'[r][u] > 0 => stored[r][u] > 0
    BY <1>5, Apart DEF Stores
<1>8. (\A r, u \in Spaces : ~PutInto(c, r, u)) /\ c.ts \in Roots
    BY <1>1, <1>3, <1>4 DEF PutInto
<1>. QED BY <1>1, <1>3, <1>4, <1>6, <1>7, <1>8, OwnedCall

\* changeOwner touches no tuplespace as an owner.
LEMMA OwnedChanges ==
    ASSUME Sound, Owned, NEW p \in Procs, NEW t, NEW s, NEW c, Changes(p, t, s, c)
    PROVE  Owned'
<1>1. /\ t \in Spaces /\ refs' = [refs EXCEPT ![t] = Append(@, p)] /\ c.at = "change" /\ c.ts = t
    BY ChangesThere
<1>2. /\ call' = [call EXCEPT ![p] = c] /\ UNCHANGED <<stored, held>>
      /\ call[p].at = "own" /\ call[p].ts = t
    BY DEF Changes
<1>3. t \in Roots
    BY <1>1, <1>2, RootsAre DEF Handing
<1>4. \A u \in Spaces : held[p][u] > 0 \/ stored[UTS][u] > 0 => u \in Roots
    BY RootsAre
<1>5. p \in Owners
    BY DEF Owners
<1>6. ToSet(refs'[t]) = ToSet(refs[t]) \cup {p} /\ \A u \in Spaces \ {t} : refs'[u] = refs[u]
    BY <1>1, <1>5, SoundFacts, Appended
<1>7. \A r, u \in Spaces : r \in ToSet(refs[u]) => r \in ToSet(refs'[u])
    BY <1>6
<1>8. \A r, u \in Spaces : ~PutInto(c, r, u)
    BY <1>1 DEF PutInto
<1>. QED BY <1>1, <1>2, <1>3, <1>4, <1>7, <1>8, OwnedCall

\* in_tuple answers: its client has what the call had.
LEMMA OwnedAnswers ==
    ASSUME Sound, Owned, NEW p \in Procs, NEW t, Answers(p, t)
    PROVE  Owned'
<1>1. /\ call[p].at = "change" /\ call[p].ts = t /\ t \in Spaces
      /\ held' = [held EXCEPT ![p][t] = @ + 1] /\ call' = [call EXCEPT ![p] = NoCall]
      /\ UNCHANGED <<refs, stored>> /\ held \in [Procs -> [Spaces -> Nat]]
    BY SoundFacts DEF Answers, TypeOK
<1>2. PICK c : c = NoCall
    OBVIOUS
<1>3. c.at = "idle"
    BY <1>2, CallForms
<1>4. t \in Roots
    BY <1>1, RootsAre DEF Handing
<1>5. \A u \in Spaces : held[p][u] > 0 \/ stored[UTS][u] > 0 => u \in Roots
    BY RootsAre
<1>6. (\A q \in Procs \ {p} : held'[q] = held[q]) /\ (\A u \in Spaces \ {t} : held'[p][u] = held[p][u])
    BY <1>1
<1>7. \A u \in Spaces : held'[p][u] > 0 => u \in Roots
    BY <1>4, <1>5, <1>6
<1>8. (\A r, u \in Spaces : ~PutInto(c, r, u)) /\ c.at \notin Handing
    BY <1>3 DEF PutInto, Handing
<1>. QED BY <1>1, <1>2, <1>5, <1>6, <1>7, <1>8, OwnedCall

\* delete_reference: what it gives up was reachable and may be no more.
LEMMA OwnedFrees ==
    ASSUME Sound, Owned, NEW p \in Procs, NEW t, Frees(p, t)
    PROVE  Owned'
<1>1. call' = [call EXCEPT ![p] = NoCall] /\ UNCHANGED <<refs, stored, held>>
    BY DEF Frees
<1>2. PICK c : c = NoCall
    OBVIOUS
<1>3. c.at = "idle"
    BY <1>2, CallForms
<1>4. \A u \in Spaces : held[p][u] > 0 \/ stored[UTS][u] > 0 => u \in Roots
    BY RootsAre
<1>5. (\A r, u \in Spaces : ~PutInto(c, r, u)) /\ c.at \notin Handing
    BY <1>3 DEF PutInto, Handing
<1>. QED BY <1>1, <1>2, <1>4, <1>5, OwnedCall

\* Who removes a tuplespace as an owner is its destructor, and what is destroyed
\* cannot be reached.
LEMMA OwnedRemoval ==
    ASSUME Sound, Owned, NEW a \in Agents, NEW t, NEW o, NEW j,
           Removes(a, t, o, j) \/ (a = Watcher /\ RemovesAll(t, o, j))
    PROVE  Owned'
<1>1. /\ t \in Spaces /\ UNCHANGED <<stored, call, held>>
      /\ \/ o \in ToSet(refs[t]) /\ refs' = [refs EXCEPT ![t] = RemoveFirst(@, o)]
         \/ UNCHANGED refs
         \/ refs' = [refs EXCEPT ![t] = Without(@, o)]
    BY DEF Removes, RemovesAll, clients
<1>2. refs \in [Spaces -> Seq(Owners)] /\ refs[t] \in Seq(Owners)
    BY <1>1, SoundFacts DEF TypeOK
<1>3. ToSet(refs[t]) \subseteq ToSet(refs'[t]) \cup {o} /\ \A u \in Spaces \ {t} : refs'[u] = refs[u]
    <2>1. CASE o \in ToSet(refs[t]) /\ refs' = [refs EXCEPT ![t] = RemoveFirst(@, o)]
        <3>1. refs'[t] = RemoveFirst(refs[t], o) /\ \A u \in Spaces \ {t} : refs'[u] = refs[u]
            BY <1>1, <1>2, <2>1
        <3>2. ToSet(refs[t]) \subseteq ToSet(RemoveFirst(refs[t], o)) \cup {o}
            BY <1>2, <2>1, ToSetRemoveFirst
        <3>. QED BY <3>1, <3>2
    <2>2. CASE refs' = [refs EXCEPT ![t] = Without(@, o)]
        <3>1. refs'[t] = Without(refs[t], o) /\ \A u \in Spaces \ {t} : refs'[u] = refs[u]
            BY <1>1, <1>2, <2>2
        <3>2. ToSet(Without(refs[t], o)) = ToSet(refs[t]) \ {o}
            BY <1>2, ToSetWithout
        <3>. QED BY <3>1, <3>2
    <2>3. CASE UNCHANGED refs
        BY <2>3
    <2>. QED BY <1>1, <2>1, <2>2, <2>3
<1>4. o \notin Reached
    <2>1. CASE a = Watcher /\ RemovesAll(t, o, j)
        <3>1. o \in Procs
            BY <2>1 DEF RemovesAll
        <3>. QED BY <3>1, Apart, ReachedClosed
    <2>2. CASE Removes(a, t, o, j)
        <3>1. /\ job[a].pc \in Holding /\ ~job[a].every /\ job[a].ref = o /\ Role(a, job[a])
            BY <2>2, SoundFacts DEF Removes, Holding, Types, Roles
        <3>2. CASE a \in Threads \cup {Watcher}
            <4>1. o \in Procs
                BY <3>1, <3>2 DEF Role
            <4>. QED BY <4>1, Apart, ReachedClosed
        <3>3. CASE a \in Procs
            <4>1. o = UTS
                BY <3>1, <3>3, SoundFacts DEF Entitled, EntitledAt
            <4>. QED BY <4>1, Apart, ReachedClosed
        <3>4. CASE a \in Spaces
            <4>1. o = a /\ a \notin local_ts
                BY <3>1, <3>4, SoundFacts DEF Role, Gone
            <4>. QED BY <4>1, ReachedThere
        <3>. QED BY <3>2, <3>3, <3>4, Apart
    <2>. QED BY <2>1, <2>2
<1>5. \A s \in Reached, u \in Spaces : s \in ToSet(refs[u]) => s \in ToSet(refs'[u])
    BY <1>3, <1>4
<1>. QED BY <1>1, <1>5, OwnedJob

\* A list that is emptied has no owner that can be reached.
LEMMA OwnedSearches ==
    ASSUME Sound, Owned, NEW a \in Agents, NEW j, Searches(a, j)
    PROVE  Owned'
<1>1. /\ UNCHANGED <<stored, call, held>> /\ refs \in [Spaces -> Seq(Owners)] /\ job[a].ts \in Spaces
      /\ UNCHANGED refs \/ Clears(a, j)
    BY SoundFacts DEF Searches, clients, Drops, TypeOK
<1>2. CASE UNCHANGED refs
    BY <1>1, <1>2, OwnedJob
<1>3. CASE Clears(a, j)
    <2>1. /\ job[a].pc = "walking" /\ job[a].queue = <<>> /\ refs' = [refs EXCEPT ![job[a].ts] = <<>>]
        BY <1>3 DEF Clears
    <2>2. job[a].ts \in job[a].memo
        BY <2>1, SoundFacts DEF Created
    <2>3. job[a].ts \notin Reached
        BY <2>1, <2>2, WalkedUnreached
    <2>4. ASSUME NEW s \in Reached, NEW t \in Spaces, Keeps(s, t) PROVE t \in Reached
        <3>1. CASE stored[s][t] > 0
            BY <3>1, ReachedClosed
        <3>2. ASSUME NEW p \in Procs, PutInto(call[p], s, t) PROVE t \in Reached
            <4>1. t \in Roots
                BY <3>2, RootsAre DEF PutInto, Handing
            <4>. QED BY <4>1, ReachedClosed
        <3>. QED BY <2>4, <3>1, <3>2 DEF Keeps
    <2>5. \A t \in Spaces \ {job[a].ts} : refs'[t] = refs[t]
        BY <1>1, <2>1
    <2>6. \A s \in Reached, t \in Spaces : Keeps(s, t) /\ s \in ToSet(refs[t]) => s \in ToSet(refs'[t])
        BY <2>3, <2>4, <2>5
    <2>. QED BY <1>1, <2>6, OwnedJob
<1>. QED BY <1>1, <1>2, <1>3

\* Each step.
LEMMA OwnedStep ==
    ASSUME Sound, Owned, Step
    PROVE  Owned'
<1>1. ASSUME UNCHANGED <<refs, stored, call, held>> PROVE Owned'
    BY <1>1, OwnedJob
<1>2. ASSUME NEW a \in Agents, NEW j, Looks(a, j) PROVE Owned'
    BY <1>1, <1>2 DEF Looks, server, clients
<1>3. ASSUME NEW s \in Spaces, NEW t \in Spaces, NEW j, Destroys(s, t, j) PROVE Owned'
    <2>1. /\ UNCHANGED <<refs, call, held>> /\ stored' = [stored EXCEPT ![s][t] = @ - 1]
          /\ stored \in [Stores -> [Spaces -> Nat]] /\ stored[s][t] > 0 /\ s \in Stores
        BY <1>3, SoundFacts DEF Destroys, clients, TypeOK, Stores
    <2>2. \A r \in Stores, u \in Spaces : stored'[r][u] = stored[r][u] \/ (r = s /\ u = t)
        BY <2>1
    <2>3. \A r \in Stores, u \in Spaces : stored'[r][u] > 0 => stored[r][u] > 0
        BY <2>1, <2>2
    <2>. QED BY <2>1, <2>3, OwnedJob
<1>4. ASSUME NEW p \in Procs, Leaves(p) PROVE Owned'
    <2>1. /\ UNCHANGED <<refs, call, stored>> /\ held' = [held EXCEPT ![p] = [t \in Spaces |-> 0]]
          /\ held \in [Procs -> [Spaces -> Nat]]
        BY <1>4, SoundFacts DEF Leaves, TypeOK
    <2>2. \A q \in Procs, u \in Spaces : held'[q][u] = held[q][u] \/ held'[q][u] = 0
        BY <2>1
    <2>3. \A q \in Procs, u \in Spaces : held'[q][u] > 0 => held[q][u] > 0
        BY <2>2
    <2>. QED BY <2>1, <2>3, OwnedJob
<1>5. ASSUME NEW p \in Procs, NEW t \in Spaces, Visits(p, t) PROVE Owned'
    BY <1>1, <1>5 DEF Visits, server, clients
<1>6. CASE UNCHANGED vars
    BY <1>1, <1>6 DEF vars, server, clients
<1>7. ASSUME NEW t, NEW o, NEW j, RemovesAll(t, o, j) PROVE Owned'
    <2>1. Watcher \in Agents
        BY Apart
    <2>. QED BY <1>7, <2>1, OwnedRemoval
<1>. QED BY <1>2, <1>3, <1>4, <1>5, <1>6, <1>7, OwnedCreate, OwnedAsks, OwnedTests, OwnedAdds, OwnedPuts,
         OwnedTakes, OwnedChanges, OwnedAnswers, OwnedFrees, OwnedRemoval, OwnedSearches DEF Step

\* What can be reached is owned.
LEMMA OwnedAlways == ASSUME OnlyFromUTS PROVE Spec => []Owned
<1>1. Init => Owned
    <2>1. ASSUME Init, NEW s \in Reached, NEW t \in Spaces, Keeps(s, t) PROVE FALSE
        <3>1. s \in Stores /\ stored[s][t] = 0
            BY <2>1, ReachedClosed DEF Init, Stores
        <3>2. \A p \in Procs : call[p].at = "idle"
            BY <2>1 DEF Init, NoCall
        <3>. QED BY <2>1, <3>1, <3>2 DEF Keeps, PutInto
    <2>. QED BY <2>1 DEF Owned
<1>2. Sound /\ Owned /\ [Next]_vars => Owned'
    BY SoundFacts, Steps, OwnedStep
<1>. QED BY <1>1, <1>2, SoundAlways, PTL DEF Spec

\* No tuplespace goes too early: what a client has a handle to, what is in a
\* tuple that can be taken, directly or through tuplespaces in tuples, and what
\* a call is about to hand over is in the container, whatever collections,
\* changes of owner and removals of processes are under way (garbage of
\* tscontainer.py and doGarbageCollection of tuplespace.py).
THEOREM NothingGoesEarly == ASSUME OnlyFromUTS PROVE Spec => []NoEarlyDeletion
<1>1. Sound /\ Owned => NoEarlyDeletion
    BY ReachedThere DEF NoEarlyDeletion
<1>. QED BY <1>1, SoundAlways, OwnedAlways, PTL


(***************************************************************************)
(* Nothing is left over.                                                   *)
(***************************************************************************)
Searching == {"scan", "scanning", "walk", "walking", "garbage", "drop"}
InSearch(j, t) == j.pc \in Searching /\ j.ts = t
Putters(s, t) == {p \in Procs : PutInto(call[p], s, t)}

\* Whoever removed the last owner of a tuplespace goes on to delete it, unless an
\* exception ends that.
Orphaned == \A t \in local_ts : refs[t] = <<>> => t \in skipped \/ \E a \in Agents : InSearch(job[a], t)

\* A destructor runs for a tuplespace that is gone.
Destroyed == \A s \in Spaces : job[s].pc # "idle" => s \in born \ local_ts

\* What an exception in a destructor or in the watcher left is in the history.
Cut ==
    /\ \A s, t \in Spaces : job[s].pc = "raised" /\ stored[s][t] > 0 => t \in skipped
    /\ job[Watcher].pc = "raised" => \A p \in Procs : todo[p] \subseteq skipped

\* A tuplespace is an owner as often as it has tuples, or will have had them.
StoresAt(s, t) ==
    Times(refs[t], s) <= stored[s][t] + (IF About(job[s], t, s) THEN 1 ELSE 0) + Cardinality(Putters(s, t))
StoresCounted == \A s, t \in Spaces : StoresAt(s, t)

\* The last invariant.
Tidy == Orphaned /\ Destroyed /\ Cut /\ StoresCounted

\* A thread that looks for a deadlock or for garbage goes on, or has deleted the
\* tuplespace or found an owner of it, or raises.
LEMMA SearchGoesOn ==
    ASSUME Types, NEW a \in Agents, Search(a)
    PROVE  /\ job[a].pc \in Searching /\ job[a].ts \in Spaces
           /\ \A b \in Agents \ {a} : job'[b] = job[b]
           /\ UNCHANGED <<stored, todo>>
           /\ \/ Raise(a)
              \/ /\ UNCHANGED skipped /\ job'[a].pc # "raised"
                 /\ \/ InSearch(job'[a], job[a].ts)
                    \/ job[a].ts \notin local_ts'
                    \/ refs'[job[a].ts] # <<>>
<1>1. PICK j : Searches(a, j)
    BY ScanShape, WalkShape, GarbageShape DEF Search
<1>2. /\ Becomes(a, j) /\ job'[a] = j /\ \A b \in Agents \ {a} : job'[b] = job[b]
      /\ j \in Jobs /\ j.pc \notin Holding /\ (j.pc \notin {"idle", "raised"} => j.ts = job[a].ts)
      /\ job[a].pc \in Searching /\ job[a].ts \in Spaces /\ UNCHANGED <<stored, todo>>
    BY <1>1, JobStep DEF Searches, Becomes, Searching
<1>3. j.pc \in {"idle", "raised"} \cup Searching
    BY <1>2, JobKinds DEF Searching, Holding
<1>4. PICK k : k = job[a]
    OBVIOUS
<1>5. k \in Jobs
    BY <1>4, TypeFacts DEF Types
<1>6. job \in [Agents -> Jobs]
    BY DEF Types, TypeOK
<1>7. CASE BeginScan(a)
    <2>1. j.pc = "scanning" /\ UNCHANGED skipped
        BY <1>2, <1>6, <1>7 DEF BeginScan, history
    <2>. QED BY <1>2, <2>1 DEF InSearch, Searching
<1>8. CASE Scan(a)
    <2>1. Raise(a) \/ (UNCHANGED skipped /\ j.pc \in {"scanning", "walk"})
        <3>1. k.pc = "scanning" /\ k \in [pc : {"scanning"}, ts : Spaces, queue : Queue]
            BY <1>4, <1>5, <1>8, JobKinds DEF Scan, At
        <3>2. \/ Raise(a)
              \/ Proceed(a, "walk") /\ UNCHANGED skipped
              \/ UNCHANGED skipped /\ \E q : job' = [job EXCEPT ![a].queue = q]
            BY <1>8 DEF Scan
        <3>3. ASSUME Proceed(a, "walk") PROVE j.pc = "walk"
            BY <1>2, <1>6, <3>3 DEF Proceed
        <3>4. ASSUME NEW q, job' = [job EXCEPT ![a].queue = q] PROVE j.pc = "scanning"
            <4>1. j = [k EXCEPT !.queue = q]
                BY <1>2, <1>4, <1>6, <3>4
            <4>. QED BY <3>1, <4>1
        <3>. QED BY <3>2, <3>3, <3>4
    <2>. QED BY <1>2, <2>1 DEF InSearch, Searching
<1>9. CASE BeginWalk(a)
    <2>1. j.pc = "walking" /\ UNCHANGED skipped
        BY <1>2, <1>6, <1>9 DEF BeginWalk, history
    <2>. QED BY <1>2, <2>1 DEF InSearch, Searching
<1>10. CASE Walk(a)
    <2>1. UNCHANGED skipped /\ j.pc \in {"walking", "garbage"}
        <3>1. k.pc = "walking" /\ k \in [pc : {"walking"}, ts : Spaces, queue : Seq(Owners), memo : SUBSET Stores]
            BY <1>4, <1>5, <1>10, JobKinds DEF Walk, At
        <3>2. Clear(a) \/ \E r : Visit(a, r)
            BY <1>10 DEF Walk
        <3>3. \/ Proceed(a, "garbage")
              \/ \E q : job' = [job EXCEPT ![a].queue = q]
              \/ \E t, m, q : job' = [job EXCEPT ![a] = [pc |-> "walking", ts |-> t, memo |-> m, queue |-> q]]
            BY <3>2 DEF Clear, Visit
        <3>4. ASSUME Proceed(a, "garbage") PROVE j.pc = "garbage"
            BY <1>2, <1>6, <3>4 DEF Proceed
        <3>5. ASSUME NEW q, job' = [job EXCEPT ![a].queue = q] PROVE j.pc = "walking"
            <4>1. j = [k EXCEPT !.queue = q]
                BY <1>2, <1>4, <1>6, <3>5
            <4>. QED BY <3>1, <4>1
        <3>6. ASSUME NEW t, NEW m, NEW q,
                     job' = [job EXCEPT ![a] = [pc |-> "walking", ts |-> t, memo |-> m, queue |-> q]]
              PROVE  j.pc = "walking"
            BY <1>2, <1>6, <3>6
        <3>. QED BY <1>10, <3>3, <3>4, <3>5, <3>6 DEF Walk, history
    <2>. QED BY <1>2, <2>1 DEF InSearch, Searching
<1>11. CASE Garbage(a)
    <2>1. UNCHANGED <<skipped, refs>> /\ (\/ refs[job[a].ts] # <<>> /\ Finish(a)
                                          \/ Proceed(a, "drop"))
        BY <1>11 DEF Garbage, server, history
    <2>2. ASSUME Finish(a) PROVE j.pc = "idle"
        BY <1>2, <1>6, <2>2 DEF Finish, NoJob
    <2>3. ASSUME Proceed(a, "drop") PROVE j.pc = "drop"
        BY <1>2, <1>6, <2>3 DEF Proceed
    <2>. QED BY <1>2, <2>1, <2>2, <2>3 DEF InSearch, Searching
<1>12. CASE Drop(a)
    <2>1. UNCHANGED skipped /\ local_ts' = local_ts \ {job[a].ts} /\ j.pc = "idle"
        BY <1>2, <1>6, <1>12 DEF Drop, Finish, NoJob, history
    <2>. QED BY <1>2, <2>1
<1>. QED BY <1>7, <1>8, <1>9, <1>10, <1>11, <1>12 DEF Search


\* What a step does to removals, to the history and to the watcher's list.
Endings ==
    /\ skipped \subseteq skipped'
    /\ \A a \in Agents, t \in Spaces : InSearch(job[a], t) =>
         InSearch(job'[a], t) \/ t \in skipped' \/ t \notin local_ts' \/ refs'[t] # <<>>
    /\ \A s \in Spaces : job'[s].pc = "raised" =>
         /\ job[s].pc # "idle"
         /\ job[s].pc = "raised" \/ \A t \in Spaces : stored[s][t] > 0 => t \in skipped'
    /\ job'[Watcher].pc = "raised" =>
         /\ \A p \in Procs : todo'[p] \subseteq todo[p]
         /\ job[Watcher].pc = "raised" \/ \A p \in Procs : todo[p] \subseteq skipped'
    /\ \A s \in Spaces : job[s].pc = "idle" /\ job'[s].pc # "idle" => s \in born \ local_ts

\* Steps that end no search and raise nothing.
LEMMA EndingsQuiet ==
    ASSUME UNCHANGED skipped,
           \A a \in Agents : job'[a] = job[a] \/ (job[a].pc \notin Searching /\ job'[a].pc # "raised"),
           \A s \in Spaces : job'[s] = job[s] \/ job[s].pc # "idle" \/ s \in born \ local_ts,
           job'[Watcher].pc = "raised" => \A p \in Procs : todo'[p] \subseteq todo[p]
    PROVE  Endings
<1>1. \A s \in Spaces : job'[s].pc = "raised" => job[s].pc = "raised"
    BY Apart
<1>2. job'[Watcher].pc = "raised" => job[Watcher].pc = "raised"
    BY Apart
<1>3. \A a \in Agents, t \in Spaces : InSearch(job[a], t) => InSearch(job'[a], t)
    BY DEF InSearch
<1>. QED BY <1>1, <1>2, <1>3 DEF Endings

\* Steps that no removal makes.
LEMMA EndingsSame ==
    ASSUME UNCHANGED <<skipped, job, todo>>
    PROVE  Endings
BY EndingsQuiet

\* An exception is written into the history.
LEMMA EndingsRaise ==
    ASSUME NEW a \in Agents, Raise(a), job[a].pc \notin {"idle", "raised"},
           \A b \in Agents \ {a} : job'[b] = job[b], UNCHANGED todo
    PROVE  Endings
<1>1. /\ skipped \subseteq skipped' /\ job[a].ts \in skipped'
      /\ a = Watcher => \A p \in Procs : todo[p] \subseteq skipped'
      /\ a \in Spaces => \A t \in Spaces : stored[a][t] > 0 => t \in skipped'
    BY DEF Raise
<1>2. \A b \in Agents, t \in Spaces : InSearch(job[b], t) => InSearch(job'[b], t) \/ t \in skipped'
    BY <1>1 DEF InSearch
<1>3. \A s \in Spaces : job'[s].pc = "raised" =>
         /\ job[s].pc # "idle"
         /\ job[s].pc = "raised" \/ \A t \in Spaces : stored[s][t] > 0 => t \in skipped'
    BY <1>1, Apart
<1>4. job'[Watcher].pc = "raised" => job[Watcher].pc = "raised" \/ \A p \in Procs : todo[p] \subseteq skipped'
    BY <1>1, Apart
<1>5. \A s \in Spaces : job[s].pc = "idle" => job'[s] = job[s]
    BY Apart
<1>. QED BY <1>1, <1>2, <1>3, <1>4, <1>5 DEF Endings

\* One thread goes on with a removal, or begins one.
LEMMA EndingsJob ==
    ASSUME Types, NEW a \in Agents, NEW j, Becomes(a, j), UNCHANGED skipped,
           job[a].pc \notin Searching, j.pc # "raised",
           a \in Spaces => job[a].pc # "idle" \/ a \in born \ local_ts,
           \A p \in Procs : todo'[p] \subseteq todo[p]
    PROVE  Endings
<1>1. job'[a] = j /\ \A b \in Agents \ {a} : job'[b] = job[b]
    BY JobStep
<1>2. \A b \in Agents : job'[b] = job[b] \/ (job[b].pc \notin Searching /\ job'[b].pc # "raised")
    BY <1>1
<1>3. \A s \in Spaces : job'[s] = job[s] \/ job[s].pc # "idle" \/ s \in born \ local_ts
    BY <1>1, Apart
<1>. QED BY <1>2, <1>3, EndingsQuiet

\* Handlers begin removals, and end none.
LEMMA EndingsHandle ==
    ASSUME Sound, NEW p \in Procs, Handle(p)
    PROVE  Endings
<1>1. CASE TestTuplespace(p) \/ AddReference(p) \/ PutTuple(p) \/ Match(p) \/ Answer(p)
    <2>1. UNCHANGED <<skipped, job, todo>>
        BY <1>1 DEF TestTuplespace, AddReference, PutTuple, Match, Answer, history
    <2>. QED BY <2>1, EndingsSame
<1>2. CASE ChangeOwner(p)
    <2>1. PICK t, s, c : Changes(p, t, s, c)
        BY <1>2, SoundFacts, ChangeOwnerShape
    <2>2. PICK j : Becomes(p, j) /\ j.pc = "lookup" /\ job[p].pc = "idle"
        BY <2>1, ChangesThere
    <2>3. UNCHANGED <<skipped, todo>> /\ p \in Agents /\ p \notin Spaces
        BY <2>1, Apart DEF Changes
    <2>. QED BY <2>2, <2>3, SoundFacts, EndingsJob DEF Searching
<1>3. CASE DeleteReference(p)
    <2>1. PICK t : Frees(p, t)
        BY <1>3, SoundFacts, DeleteReferenceShape
    <2>2. PICK w \in Threads : \E j : job[w].pc = "idle" /\ Becomes(w, j) /\ j.pc = "lookup"
        BY <2>1, FreesThere
    <2>3. UNCHANGED <<skipped, todo>> /\ w \in Agents /\ w \notin Spaces
        BY <2>1, Apart DEF Frees
    <2>. QED BY <2>2, <2>3, SoundFacts, EndingsJob DEF Searching
<1>. QED BY <1>1, <1>2, <1>3 DEF Handle

\* A removal goes on, ends or raises.
LEMMA EndingsRemoval ==
    ASSUME Sound, NEW a \in Agents, RemovalStep(a)
    PROVE  Endings
<1>1. CASE Lookup(a)
    <2>1. PICK j : Becomes(a, j) /\ j.pc \in {"remove", "idle"}
        BY <1>1, SoundFacts, LookupShape, JobForms
    <2>2. job[a].pc = "lookup" /\ UNCHANGED <<skipped, todo>>
        BY <1>1, SoundFacts, LookupShape DEF history
    <2>. QED BY <2>1, <2>2, SoundFacts, EndingsJob DEF Searching
<1>2. CASE RemoveReference(a)
    <2>1. PICK t, o, j : Removes(a, t, o, j)
        BY <1>2, SoundFacts, RemoveReferenceShape
    <2>2. Becomes(a, j) /\ job[a].pc = "remove" /\ UNCHANGED todo /\ job[a].ts = t /\ job[a].ref = o
        BY <2>1 DEF Removes
    <2>3. CASE o \in ToSet(refs[t])
        <3>1. UNCHANGED skipped /\ j.pc = "scan"
            BY <2>1, <2>3 DEF Removes
        <3>. QED BY <2>2, <3>1, SoundFacts, EndingsJob DEF Searching
    <2>4. CASE o \notin ToSet(refs[t])
        <3>1. Raise(a)
            BY <1>2, <2>2, <2>4 DEF RemoveReference
        <3>2. \A b \in Agents \ {a} : job'[b] = job[b]
            BY <2>2, SoundFacts, JobStep
        <3>. QED BY <2>2, <3>1, <3>2, EndingsRaise
    <2>. QED BY <2>3, <2>4
<1>3. CASE RemoveAnyReferences(a)
    <2>1. PICK j : Becomes(a, j) /\ j.pc = "scan"
        BY <1>3, SoundFacts, RemoveAnyReferencesShape
    <2>2. job[a].pc = "remove" /\ UNCHANGED <<skipped, todo>>
        BY <1>3, SoundFacts, RemoveAnyReferencesShape DEF history
    <2>. QED BY <2>1, <2>2, SoundFacts, EndingsJob DEF Searching
<1>4. CASE Search(a)
    <2>1. /\ job[a].pc \in Searching /\ job[a].ts \in Spaces
          /\ \A b \in Agents \ {a} : job'[b] = job[b]
          /\ UNCHANGED <<stored, todo>>
          /\ \/ Raise(a)
             \/ /\ UNCHANGED skipped /\ job'[a].pc # "raised"
                /\ \/ InSearch(job'[a], job[a].ts)
                   \/ job[a].ts \notin local_ts'
                   \/ refs'[job[a].ts] # <<>>
        BY <1>4, SoundFacts, SearchGoesOn
    <2>2. CASE Raise(a)
        BY <2>1, <2>2, EndingsRaise DEF Searching
    <2>3. CASE ~Raise(a)
        <3>1. \A b \in Agents, t \in Spaces : InSearch(job[b], t) =>
                InSearch(job'[b], t) \/ t \notin local_ts' \/ refs'[t] # <<>>
            BY <2>1, <2>3 DEF InSearch
        <3>2. \A b \in Agents : job'[b].pc = "raised" => job'[b] = job[b]
            BY <2>1, <2>3
        <3>3. \A b \in Agents : job[b].pc = "idle" => job'[b] = job[b]
            BY <2>1 DEF Searching
        <3>4. \A s \in Spaces : s \in Agents
            BY Apart
        <3>5. Watcher \in Agents
            BY Apart
        <3>. QED BY <2>1, <2>3, <3>1, <3>2, <3>3, <3>4, <3>5 DEF Endings
    <2>. QED BY <2>2, <2>3
<1>. QED BY <1>1, <1>2, <1>3, <1>4 DEF RemovalStep, Search

\* Each step.
LEMMA EndingsStep ==
    ASSUME Sound, [Next]_vars
    PROVE  Endings
<1>1. ASSUME NEW p \in Procs, NEW t \in Spaces, Create(p, t) \/ Copy(p, t) \/ Delete(p, t)
      PROVE  Endings
    BY <1>1, EndingsSame DEF Create, Copy, Delete, Calls, history
<1>2. ASSUME NEW p \in Procs, NEW s \in Stores, In(p, s) \/ \E t \in Spaces : Out(p, s, t)
      PROVE  Endings
    BY <1>2, EndingsSame DEF In, Out, Calls, history
<1>3. ASSUME NEW p \in Procs, Leave(p) PROVE Endings
    <2>1. UNCHANGED <<skipped, job>> /\ job[Watcher].pc = "idle"
        BY <1>3 DEF Leave, Watching, history
    <2>. QED BY <2>1, EndingsQuiet
<1>4. ASSUME NEW s \in Spaces, NEW t \in Spaces, Destroy(s, t) PROVE Endings
    <2>1. PICK j : Destroys(s, t, j)
        BY <1>4, SoundFacts, DestroyTypes
    <2>2. /\ Becomes(s, j) /\ job[s].pc = "idle" /\ j.pc = "lookup" /\ s \in born \ local_ts
          /\ UNCHANGED <<skipped, todo>> /\ s \in Agents
        BY <2>1 DEF Destroys, history
    <2>. QED BY <2>2, SoundFacts, EndingsJob DEF Searching
<1>5. ASSUME NEW p \in Procs, NEW t \in Spaces, RemoveProcess(p, t) PROVE Endings
    <2>1. Visits(p, t)
        BY <1>5, SoundFacts, RemoveProcessTypes
    <2>2. /\ job[Watcher].pc = "idle" /\ UNCHANGED skipped /\ todo' = [todo EXCEPT ![p] = @ \ {t}]
          /\ UNCHANGED job \/ \E j : Becomes(Watcher, j) /\ j.pc = "lookup"
        BY <2>1 DEF Visits, history
    <2>3. \A q \in Procs : todo'[q] \subseteq todo[q]
        <3>1. todo \in [Procs -> SUBSET Spaces]
            BY SoundFacts DEF TypeOK
        <3>. QED BY <2>2, <3>1
    <2>4. CASE UNCHANGED job
        BY <2>2, <2>3, <2>4, EndingsQuiet
    <2>5. ASSUME NEW j, Becomes(Watcher, j), j.pc = "lookup" PROVE Endings
        BY <2>2, <2>3, <2>5, SoundFacts, Apart, EndingsJob DEF Searching
    <2>. QED BY <2>2, <2>4, <2>5
<1>6. CASE UNCHANGED vars
    BY <1>6, EndingsSame DEF vars, history
<1>. QED BY <1>1, <1>2, <1>3, <1>4, <1>5, <1>6, EndingsHandle, EndingsRemoval DEF Next


\* A tuplespace comes into the container once, when it is created.
LEMMA LocalGrows ==
    ASSUME Sound, Step
    PROVE  born \subseteq born' /\ local_ts' \cap born \subseteq local_ts
<1>1. ASSUME NEW p \in Procs, NEW t \in Spaces, Create(p, t) PROVE born \subseteq born' /\ local_ts' \cap born \subseteq local_ts
    BY <1>1 DEF Create
<1>2. ASSUME NEW p \in Procs, NEW t, NEW d, Tests(p, t, d) PROVE UNCHANGED <<born, local_ts>>
    BY <1>2, TestsThere DEF Tests
<1>3. ASSUME NEW a \in Agents, NEW j, Searches(a, j) PROVE UNCHANGED born /\ local_ts' \subseteq local_ts
    BY <1>3 DEF Searches, Clears, Drops
<1>4. ASSUME NEW p \in Procs, \/ \E t, s, c : Asks(p, t, s, c)
                              \/ \E t, o, c : Adds(p, t, o, c)
                              \/ \E t, s : Puts(p, t, s)
                              \/ \E s, t : Takes(p, s, t)
                              \/ \E t, s, c : Changes(p, t, s, c)
                              \/ \E t : Answers(p, t)
                              \/ \E t : Frees(p, t)
                              \/ Leaves(p)
      PROVE  UNCHANGED <<born, local_ts>>
    BY <1>4 DEF Asks, Adds, Puts, Takes, Changes, Answers, Frees, Leaves, server, history
<1>5. ASSUME NEW a \in Agents, \/ \E j : Looks(a, j)
                               \/ \E t, o, j : Removes(a, t, o, j)
      PROVE  UNCHANGED <<born, local_ts>>
    BY <1>5 DEF Looks, Removes, server, history
<1>6. ASSUME NEW t, NEW o, NEW j, RemovesAll(t, o, j) PROVE UNCHANGED <<born, local_ts>>
    BY <1>6 DEF RemovesAll, history
<1>7. ASSUME NEW s \in Spaces, NEW t \in Spaces, NEW j, Destroys(s, t, j) PROVE UNCHANGED <<born, local_ts>>
    BY <1>7 DEF Destroys, history
<1>8. ASSUME NEW p \in Procs, NEW t \in Spaces, Visits(p, t) PROVE UNCHANGED <<born, local_ts>>
    BY <1>8 DEF Visits, server, history
<1>9. CASE UNCHANGED vars
    BY <1>9 DEF vars, server, history
<1>. QED BY <1>1, <1>2, <1>3, <1>4, <1>5, <1>6, <1>7, <1>8, <1>9 DEF Step

\* Tuples are put into tuplespaces that are there.
LEMMA StoredGrows ==
    ASSUME Sound, Step
    PROVE  \A s, t \in Spaces : stored'[s][t] > 0 => stored[s][t] > 0 \/ s \in local_ts
<1> DEFINE Goal == \A s, t \in Spaces : stored'[s][t] > 0 => stored[s][t] > 0 \/ s \in local_ts
<1>1. ASSUME NEW p \in Procs, NEW t, NEW s, Puts(p, t, s) PROVE Goal
    <2>1. /\ s \in Stores /\ stored' = [stored EXCEPT ![s][t] = @ + 1] /\ stored \in [Stores -> [Spaces -> Nat]]
          /\ call[p].at = "put" /\ call[p].into = s
        BY <1>1, SoundFacts DEF Puts, TypeOK
    <2>2. s \in Spaces => s \in local_ts
        <3>1. s \in Spaces => held[p][s] > 0
            BY <2>1, SoundFacts DEF Entitled, EntitledAt
        <3>. QED BY <3>1, HandleHeld, Alive
    <2>3. \A r \in Stores \ {s} : stored'[r] = stored[r]
        BY <2>1
    <2>. QED BY <2>2, <2>3 DEF Stores
<1>2. ASSUME NEW p \in Procs, NEW s, NEW t, Takes(p, s, t) PROVE Goal
    <2>1. s = UTS /\ stored' = [stored EXCEPT ![s][t] = @ - 1] /\ stored \in [Stores -> [Spaces -> Nat]]
        BY <1>2, SoundFacts, Caller DEF Takes, EntitledAt, TypeOK
    <2>2. \A r \in Stores \ {UTS} : stored'[r] = stored[r]
        BY <2>1
    <2>. QED BY <2>2, Apart DEF Stores
<1>3. ASSUME NEW s \in Spaces, NEW t \in Spaces, NEW j, Destroys(s, t, j) PROVE Goal
    <2>1. s \in Stores /\ stored[s][t] > 0 /\ stored' = [stored EXCEPT ![s][t] = @ - 1] /\ stored \in [Stores -> [Spaces -> Nat]]
        BY <1>3, SoundFacts DEF Destroys, TypeOK, Stores
    <2>2. \A r \in Stores, u \in Spaces : stored'[r][u] = stored[r][u] \/ (r = s /\ u = t)
        BY <2>1
    <2>. QED BY <2>1, <2>2 DEF Stores
<1>4. ASSUME NEW p \in Procs, \/ \E t \in Spaces : Create(p, t)
                              \/ \E t, s, c : Asks(p, t, s, c)
                              \/ \E t, d : Tests(p, t, d)
                              \/ \E t, o, c : Adds(p, t, o, c)
                              \/ \E t, s, c : Changes(p, t, s, c)
                              \/ \E t : Answers(p, t)
                              \/ \E t : Frees(p, t)
                              \/ Leaves(p)
      PROVE  UNCHANGED stored
    BY <1>4 DEF Create, Asks, Tests, Adds, Changes, Answers, Frees, Leaves, server
<1>5. ASSUME NEW a \in Agents, \/ \E j : Looks(a, j)
                               \/ \E t, o, j : Removes(a, t, o, j)
                               \/ \E j : Searches(a, j)
      PROVE  UNCHANGED stored
    BY <1>5 DEF Looks, Removes, Searches, server
<1>6. ASSUME NEW t, NEW o, NEW j, RemovesAll(t, o, j) PROVE UNCHANGED stored
    BY <1>6 DEF RemovesAll
<1>7. ASSUME NEW p \in Procs, NEW t \in Spaces, Visits(p, t) PROVE UNCHANGED stored
    BY <1>7 DEF Visits, server
<1>8. CASE UNCHANGED vars
    BY <1>8 DEF vars, server
<1>. QED BY <1>1, <1>2, <1>3, <1>4, <1>5, <1>6, <1>7, <1>8 DEF Step

\* A list of owners becomes empty by a thread that goes on to look for garbage.
LEMMA Emptied ==
    ASSUME Sound, Step
    PROVE  \A u \in local_ts' : refs'[u] = <<>> =>
             (u \in local_ts /\ refs[u] = <<>>) \/ \E a \in Agents : InSearch(job'[a], u)
<1> DEFINE Goal == \A u \in local_ts' : refs'[u] = <<>> =>
             (u \in local_ts /\ refs[u] = <<>>) \/ \E a \in Agents : InSearch(job'[a], u)
<1>1. refs \in [Spaces -> Seq(Owners)] /\ local_ts \subseteq Spaces
    BY SoundFacts, TypeFacts DEF TypeOK
<1>2. ASSUME NEW t \in Spaces, NEW o \in Owners, refs' = [refs EXCEPT ![t] = Append(@, o)], UNCHANGED local_ts
      PROVE  Goal
    <2>1. refs'[t] # <<>> /\ \A u \in Spaces \ {t} : refs'[u] = refs[u]
        BY <1>2, SoundFacts, Appended
    <2>. QED BY <1>1, <1>2, <2>1
<1>3. ASSUME NEW a \in Agents, NEW j, Becomes(a, j), NEW t \in Spaces, InSearch(j, t),
             \A u \in Spaces \ {t} : refs'[u] = refs[u], UNCHANGED local_ts
      PROVE  Goal
    <2>1. job'[a] = j
        BY <1>3, SoundFacts, JobStep
    <2>. QED BY <1>1, <1>3, <2>1
<1>4. ASSUME NEW p \in Procs, NEW t \in Spaces, Create(p, t) PROVE Goal
    <2>1. refs' = [refs EXCEPT ![t] = <<p>>] /\ local_ts' = local_ts \cup {t}
        BY <1>4 DEF Create
    <2>2. refs'[t] # <<>> /\ \A u \in Spaces \ {t} : refs'[u] = refs[u]
        BY <1>1, <2>1
    <2>. QED BY <1>1, <2>1, <2>2
<1>5. ASSUME NEW p \in Procs, NEW t, NEW d, Tests(p, t, d) PROVE Goal
    BY <1>5, TestsThere
<1>6. ASSUME NEW p \in Procs, NEW t, NEW o, NEW c, Adds(p, t, o, c) PROVE Goal
    <2>1. t \in Spaces /\ o \in Owners /\ refs' = [refs EXCEPT ![t] = Append(@, o)]
        BY <1>6, AddsThere
    <2>2. UNCHANGED local_ts
        BY <1>6 DEF Adds
    <2>. QED BY <1>2, <2>1, <2>2
<1>7. ASSUME NEW p \in Procs, NEW t, NEW s, NEW c, Changes(p, t, s, c) PROVE Goal
    <2>1. t \in Spaces /\ refs' = [refs EXCEPT ![t] = Append(@, p)]
        BY <1>7, ChangesThere
    <2>2. UNCHANGED local_ts /\ p \in Owners
        BY <1>7 DEF Changes, Owners
    <2>. QED BY <1>2, <2>1, <2>2
<1>8. ASSUME NEW a \in Agents, NEW t, NEW o, NEW j, Removes(a, t, o, j) PROVE Goal
    <2>1. /\ t \in Spaces /\ Becomes(a, j) /\ UNCHANGED local_ts
          /\ \/ refs' = [refs EXCEPT ![t] = RemoveFirst(@, o)] /\ j.pc = "scan" /\ j.ts = t
             \/ UNCHANGED refs
        BY <1>8 DEF Removes
    <2>2. CASE refs' = [refs EXCEPT ![t] = RemoveFirst(@, o)] /\ j.pc = "scan" /\ j.ts = t
        <3>1. InSearch(j, t) /\ \A u \in Spaces \ {t} : refs'[u] = refs[u]
            BY <1>1, <2>2 DEF InSearch, Searching
        <3>. QED BY <1>3, <2>1, <3>1
    <2>. QED BY <2>1, <2>2
<1>9. ASSUME NEW t, NEW o, NEW j, RemovesAll(t, o, j) PROVE Goal
    <2>1. /\ t \in Spaces /\ Becomes(Watcher, j) /\ UNCHANGED local_ts /\ j.pc = "scan" /\ j.ts = t
          /\ refs' = [refs EXCEPT ![t] = Without(@, o)] /\ Watcher \in Agents
        BY <1>9, Apart DEF RemovesAll
    <2>2. InSearch(j, t) /\ \A u \in Spaces \ {t} : refs'[u] = refs[u]
        BY <1>1, <2>1 DEF InSearch, Searching
    <2>. QED BY <1>3, <2>1, <2>2
<1>10. ASSUME NEW a \in Agents, NEW j, Searches(a, j) PROVE Goal
    <2>1. /\ Becomes(a, j) /\ job[a].ts \in Spaces /\ (j.pc \notin {"idle", "raised"} => j.ts = job[a].ts)
          /\ UNCHANGED <<refs, local_ts>> \/ Clears(a, j) \/ Drops(a, j)
        BY <1>10 DEF Searches
    <2>2. CASE Clears(a, j)
        <3>1. /\ UNCHANGED local_ts /\ InSearch(j, job[a].ts)
              /\ \A u \in Spaces \ {job[a].ts} : refs'[u] = refs[u]
            BY <1>1, <2>1, <2>2 DEF Clears, InSearch, Searching
        <3>. QED BY <1>3, <2>1, <3>1
    <2>3. CASE Drops(a, j)
        BY <2>3 DEF Drops
    <2>. QED BY <2>1, <2>2, <2>3
<1>11. ASSUME NEW p \in Procs, \/ \E t, s, c : Asks(p, t, s, c)
                               \/ \E t, s : Puts(p, t, s)
                               \/ \E s, t : Takes(p, s, t)
                               \/ \E t : Answers(p, t)
                               \/ \E t : Frees(p, t)
                               \/ Leaves(p)
       PROVE  UNCHANGED <<refs, local_ts>>
    BY <1>11 DEF Asks, Puts, Takes, Answers, Frees, Leaves, server
<1>12. ASSUME NEW a \in Agents, NEW j, Looks(a, j) PROVE UNCHANGED <<refs, local_ts>>
    BY <1>12 DEF Looks, server
<1>13. ASSUME NEW s \in Spaces, NEW t \in Spaces, NEW j, Destroys(s, t, j) PROVE UNCHANGED <<refs, local_ts>>
    BY <1>13 DEF Destroys
<1>14. ASSUME NEW p \in Procs, NEW t \in Spaces, Visits(p, t) PROVE UNCHANGED <<refs, local_ts>>
    BY <1>14 DEF Visits, server
<1>15. CASE UNCHANGED vars
    BY <1>15 DEF vars, server
<1>16. UNCHANGED <<refs, local_ts>> => Goal
    OBVIOUS
<1>. QED BY <1>4, <1>5, <1>6, <1>7, <1>8, <1>9, <1>10, <1>11, <1>12, <1>13, <1>14, <1>15, <1>16 DEF Step

\* Orphaned is kept by each step.
LEMMA OrphanedStep ==
    ASSUME Sound, Orphaned, Endings, Step
    PROVE  Orphaned'
<1> SUFFICES ASSUME NEW t \in local_ts', refs'[t] = <<>>
             PROVE  t \in skipped' \/ \E a \in Agents : InSearch(job'[a], t)
    BY DEF Orphaned, InSearch
<1>1. CASE t \in local_ts /\ refs[t] = <<>>
    <2>1. t \in Spaces
        BY <1>1, SoundFacts, TypeFacts
    <2>. QED BY <1>1, <2>1 DEF Orphaned, Endings
<1>. QED BY <1>1, Emptied

\* Destroyed is kept by each step.
LEMMA DestroyedStep ==
    ASSUME Sound, Destroyed, Endings, Step
    PROVE  Destroyed'
<1>1. born \subseteq born' /\ local_ts' \cap born \subseteq local_ts
    BY LocalGrows
<1>2. \A s \in Spaces : job'[s].pc # "idle" => s \in born \ local_ts
    BY DEF Destroyed, Endings
<1>. QED BY <1>1, <1>2 DEF Destroyed

\* Cut is kept by each step.
LEMMA CutStep ==
    ASSUME Sound, Destroyed, Cut, Endings, Step
    PROVE  Cut'
<1>1. ASSUME NEW s \in Spaces, NEW t \in Spaces, job'[s].pc = "raised", stored'[s][t] > 0
      PROVE  t \in skipped'
    <2>1. s \notin local_ts
        BY <1>1 DEF Destroyed, Endings
    <2>2. stored[s][t] > 0
        BY <1>1, <2>1, StoredGrows
    <2>. QED BY <1>1, <2>2 DEF Cut, Endings
<1>2. ASSUME job'[Watcher].pc = "raised", NEW p \in Procs PROVE todo'[p] \subseteq skipped'
    BY <1>2 DEF Cut, Endings
<1>. QED BY <1>1, <1>2 DEF Cut


Putting(c, s, t) == IF PutInto(c, s, t) THEN 1 ELSE 0

\* Tuples on their way can be counted.
LEMMA PuttersFinite ==
    \A s, t : IsFiniteSet(Putters(s, t)) /\ Cardinality(Putters(s, t)) \in Nat
<1>1. \A S \in SUBSET Procs : IsFiniteSet(S) /\ Cardinality(S) \in Nat
    BY ReferencesAssumption, FS_Subset, FS_CardinalityType
<1>. QED BY <1>1 DEF Putters

\* p's call goes on to c.
LEMMA PuttersStep ==
    ASSUME Sound, NEW p \in Procs, NEW c, call' = [call EXCEPT ![p] = c], NEW s, NEW t
    PROVE  /\ Cardinality(Putters(s, t)) \in Nat
           /\ Cardinality(Putters(s, t)') = Cardinality(Putters(s, t)) + Putting(c, s, t) - Putting(call[p], s, t)
<1>1. call'[p] = c /\ \A q \in Procs \ {p} : call'[q] = call[q]
    BY SoundFacts DEF TypeOK
<1>2. PICK A, B : A = Putters(s, t) /\ B = Putters(s, t)'
    OBVIOUS
<1>3. /\ \A q : q # p => (q \in A <=> q \in B)
      /\ (p \in A <=> PutInto(call[p], s, t)) /\ (p \in B <=> PutInto(c, s, t))
    BY <1>1, <1>2 DEF Putters, PutInto
<1>4. IsFiniteSet(A)
    BY <1>2, PuttersFinite
<1>5. /\ Cardinality(A) \in Nat
      /\ Cardinality(B) = Cardinality(A) + (IF p \in B THEN 1 ELSE 0) - (IF p \in A THEN 1 ELSE 0)
    BY <1>3, <1>4, OneChanges
<1>. QED BY <1>2, <1>3, <1>5 DEF Putting

\* A call that goes on and puts nothing.
LEMMA PuttersSame ==
    ASSUME Sound, NEW p \in Procs, NEW c, call' = [call EXCEPT ![p] = c],
           c.at # "put", call[p].at # "put"
    PROVE  \A s, t : Putters(s, t)' = Putters(s, t)
<1>1. call'[p] = c /\ \A q \in Procs \ {p} : call'[q] = call[q]
    BY SoundFacts DEF TypeOK
<1>. QED BY <1>1 DEF Putters, PutInto

\* No owner more, and no tuple less.
LEMMA StoresLess ==
    ASSUME Sound, StoresCounted, \A s \in Spaces : stored'[s] = stored[s],
           \A s, t \in Spaces : Putters(s, t)' = Putters(s, t),
           \A s, t \in Spaces :
              \/ Times(refs'[t], s) = 0
              \/ Times(refs'[t], s) = Times(refs[t], s) /\ (About(job[s], t, s) => About(job'[s], t, s))
    PROVE  StoresCounted'
<1> SUFFICES ASSUME NEW s \in Spaces, NEW t \in Spaces PROVE StoresAt(s, t)'
    BY DEF StoresCounted
<1>1. /\ StoresAt(s, t) /\ stored[s][t] \in Nat /\ Cardinality(Putters(s, t)) \in Nat /\ Times(refs[t], s) \in Nat
      /\ stored'[s][t] = stored[s][t] /\ Cardinality(Putters(s, t)') = Cardinality(Putters(s, t))
    BY SoundFacts, TypeFacts, PuttersFinite, TimesFacts DEF StoresCounted, Stores
<1>. QED BY <1>1 DEF StoresAt

\* No list, no tuple and no destructor changes.
LEMMA StoresSame ==
    ASSUME Sound, StoresCounted, UNCHANGED refs, \A s \in Spaces : stored'[s] = stored[s] /\ job'[s] = job[s],
           \A s, t \in Spaces : Putters(s, t)' = Putters(s, t)
    PROVE  StoresCounted'
BY StoresLess

\* create_tuplespace: the new tuplespace is in no tuple and has none.
LEMMA StoresCreate ==
    ASSUME Sound, StoresCounted, NEW p \in Procs, NEW t \in Spaces, Create(p, t)
    PROVE  StoresCounted'
<1>1. /\ refs' = [refs EXCEPT ![t] = <<p>>] /\ refs \in [Spaces -> Seq(Owners)]
      /\ UNCHANGED <<stored, call, job>>
    BY SoundFacts DEF Create, TypeOK
<1>2. refs'[t] = <<p>> /\ \A u \in Spaces \ {t} : refs'[u] = refs[u]
    BY <1>1
<1>3. \A s \in Spaces : Times(<<p>>, s) = 0
    <2> SUFFICES ASSUME NEW s \in Spaces PROVE Times(<<p>>, s) = 0
        OBVIOUS
    <2>1. <<p>> \in Seq(Owners) /\ s \notin ToSet(<<p>>)
        BY Apart DEF ToSet, Owners
    <2>2. Times(<<p>>, s) \in Nat /\ ~(Times(<<p>>, s) > 0)
        BY <2>1, TimesType
    <2>. QED BY <2>2
<1>4. \A s, u \in Spaces : Putters(s, u)' = Putters(s, u)
    BY <1>1 DEF Putters
<1>. QED BY <1>1, <1>2, <1>3, <1>4, StoresLess

\* An owner more that is a process.
LEMMA StoresOwner ==
    ASSUME Sound, StoresCounted, NEW t \in Spaces, NEW p \in Procs, refs' = [refs EXCEPT ![t] = Append(@, p)],
           UNCHANGED stored, \A s \in Spaces : job'[s] = job[s],
           \A s, u \in Spaces : Putters(s, u)' = Putters(s, u)
    PROVE  StoresCounted'
<1>1. p \in Owners
    BY DEF Owners
<1>2. \A u \in Spaces : \A q : Times(refs'[u], q) = Times(refs[u], q) + (IF u = t /\ q = p THEN 1 ELSE 0)
    BY <1>1, SoundFacts, Appended
<1>3. \A s, u \in Spaces : Times(refs'[u], s) = Times(refs[u], s)
    <2> SUFFICES ASSUME NEW s \in Spaces, NEW u \in Spaces PROVE Times(refs'[u], s) = Times(refs[u], s)
        OBVIOUS
    <2>1. s # p /\ Times(refs[u], s) \in Nat
        BY SoundFacts, TimesFacts, Apart
    <2>2. Times(refs'[u], s) = Times(refs[u], s) + (IF u = t /\ s = p THEN 1 ELSE 0)
        BY <1>2
    <2>. QED BY <2>1, <2>2
<1>. QED BY <1>3, StoresLess

\* add_reference for an out: an owner for the tuple that will be put.
LEMMA StoresAdds ==
    ASSUME Sound, StoresCounted, NEW p \in Procs, NEW t, NEW o, NEW c, Adds(p, t, o, c)
    PROVE  StoresCounted'
<1>1. /\ t \in Spaces /\ o \in Owners /\ refs' = [refs EXCEPT ![t] = Append(@, o)]
      /\ \/ o = p /\ c.at = "idle"
         \/ c.at = "put" /\ c.ts = t /\ c.into = o
    BY AddsThere
<1>2. call' = [call EXCEPT ![p] = c] /\ UNCHANGED <<stored, job>> /\ call[p].at = "add"
    BY DEF Adds
<1>3. CASE o = p /\ c.at = "idle"
    <2>1. \A s, u \in Spaces : Putters(s, u)' = Putters(s, u)
        BY <1>2, <1>3, PuttersSame
    <2>. QED BY <1>1, <1>2, <1>3, <2>1, StoresOwner
<1>4. CASE c.at = "put" /\ c.ts = t /\ c.into = o
    <2> SUFFICES ASSUME NEW s \in Spaces, NEW u \in Spaces PROVE StoresAt(s, u)'
        BY DEF StoresCounted
    <2>0. \A v \in Spaces : \A q : Times(refs'[v], q) = Times(refs[v], q) + (IF v = t /\ q = o THEN 1 ELSE 0)
        <3>1. t \in Spaces /\ o \in Owners /\ refs' = [refs EXCEPT ![t] = Append(@, o)] /\ Types
            BY <1>1, SoundFacts
        <3>. QED BY <3>1, Appended
    <2>1. Times(refs'[u], s) = Times(refs[u], s) + (IF u = t /\ s = o THEN 1 ELSE 0)
        BY <2>0
    <2>2. /\ Cardinality(Putters(s, u)) \in Nat
          /\ Cardinality(Putters(s, u)') = Cardinality(Putters(s, u)) + Putting(c, s, u) - Putting(call[p], s, u)
        <3>1. call' = [call EXCEPT ![p] = c]
            BY <1>2
        <3>. QED BY <3>1, PuttersStep
    <2>3. ~PutInto(call[p], s, u) /\ (PutInto(c, s, u) <=> u = t /\ s = o)
        BY <1>2, <1>4 DEF PutInto
    <2>4. StoresAt(s, u) /\ stored[s][u] \in Nat /\ Times(refs[u], s) \in Nat
        BY SoundFacts, TypeFacts, TimesFacts DEF StoresCounted, Stores
    <2>5. stored'[s][u] = stored[s][u] /\ (About(job'[s], u, s) <=> About(job[s], u, s))
        BY <1>2
    <2>6. PICK n : n = IF u = t /\ s = o THEN 1 ELSE 0
        OBVIOUS
    <2>7. Cardinality(Putters(s, u)') = Cardinality(Putters(s, u)) + n
        BY <2>2, <2>3, <2>6 DEF Putting
    <2>8. Times(refs'[u], s) = Times(refs[u], s) + n /\ n \in Nat
        BY <2>1, <2>6
    <2>. QED BY <2>2, <2>4, <2>5, <2>7, <2>8 DEF StoresAt
<1>. QED BY <1>1, <1>3, <1>4

\* out_tuple: the tuple that was to be put is there.
LEMMA StoresPuts ==
    ASSUME Sound, StoresCounted, NEW p \in Procs, NEW t, NEW r, Puts(p, t, r)
    PROVE  StoresCounted'
<1>1. /\ call[p].at = "put" /\ call[p].ts = t /\ call[p].into = r /\ t \in Spaces /\ r \in Stores
      /\ stored' = [stored EXCEPT ![r][t] = @ + 1] /\ call' = [call EXCEPT ![p] = NoCall]
      /\ UNCHANGED <<refs, job>> /\ stored \in [Stores -> [Spaces -> Nat]]
    BY SoundFacts DEF Puts, TypeOK
<1> SUFFICES ASSUME NEW s \in Spaces, NEW u \in Spaces PROVE StoresAt(s, u)'
    BY DEF StoresCounted
<1>2. StoresAt(s, u) /\ stored[s][u] \in Nat /\ Times(refs[u], s) \in Nat
    BY SoundFacts, TypeFacts, TimesFacts DEF StoresCounted, Stores
<1>3. stored'[s][u] = stored[s][u] + (IF u = t /\ s = r THEN 1 ELSE 0)
    <2>1. s \in Stores
        BY DEF Stores
    <2>2. CASE u = t /\ s = r
        BY <1>1, <2>1, <2>2
    <2>3. CASE ~(u = t /\ s = r)
        <3>1. stored'[s][u] = stored[s][u]
            BY <1>1, <2>1, <2>3
        <3>. QED BY <1>2, <2>3, <3>1
    <2>. QED BY <2>2, <2>3
<1>4. PICK c : c = NoCall
    OBVIOUS
<1>5. /\ Cardinality(Putters(s, u)) \in Nat
      /\ Cardinality(Putters(s, u)') = Cardinality(Putters(s, u)) + Putting(c, s, u) - Putting(call[p], s, u)
    <2>1. call' = [call EXCEPT ![p] = c]
        BY <1>1, <1>4
    <2>. QED BY <2>1, PuttersStep
<1>6. ~PutInto(c, s, u) /\ (PutInto(call[p], s, u) <=> u = t /\ s = r)
    BY <1>1, <1>4, CallForms DEF PutInto
<1>7. Times(refs'[u], s) = Times(refs[u], s) /\ (About(job'[s], u, s) <=> About(job[s], u, s))
    BY <1>1
<1>8. PICK n : n = IF u = t /\ s = r THEN 1 ELSE 0
    OBVIOUS
<1>9. Cardinality(Putters(s, u)') = Cardinality(Putters(s, u)) - n
    BY <1>5, <1>6, <1>8 DEF Putting
<1>10. stored'[s][u] = stored[s][u] + n /\ n \in Nat
    BY <1>3, <1>8
<1>. QED BY <1>2, <1>5, <1>7, <1>9, <1>10 DEF StoresAt

\* __del__: a tuple of what is destroyed becomes a removal.
LEMMA StoresDestroys ==
    ASSUME Sound, StoresCounted, NEW r \in Spaces, NEW t \in Spaces, NEW j, Destroys(r, t, j)
    PROVE  StoresCounted'
<1>1. /\ job[r].pc = "idle" /\ r \in Agents /\ Becomes(r, j) /\ j.pc = "lookup" /\ j.ts = t /\ j.ref = r
      /\ stored[r][t] > 0 /\ stored' = [stored EXCEPT ![r][t] = @ - 1]
      /\ UNCHANGED <<refs, call>> /\ stored \in [Stores -> [Spaces -> Nat]]
    BY SoundFacts DEF Destroys, clients, TypeOK
<1> SUFFICES ASSUME NEW s \in Spaces, NEW u \in Spaces PROVE StoresAt(s, u)'
    BY DEF StoresCounted
<1>2. StoresAt(s, u) /\ stored[s][u] \in Nat /\ Times(refs[u], s) \in Nat /\ Cardinality(Putters(s, u)) \in Nat
    BY SoundFacts, TypeFacts, TimesFacts, PuttersFinite DEF StoresCounted, Stores
<1>3. Times(refs'[u], s) = Times(refs[u], s) /\ Putters(s, u)' = Putters(s, u)
    BY <1>1 DEF Putters
<1>4. job'[r] = j /\ \A b \in Agents \ {r} : job'[b] = job[b]
    BY <1>1, SoundFacts, JobStep
<1>5. CASE s = r /\ u = t
    <2>1. stored'[s][u] = stored[s][u] - 1
        BY <1>1, <1>5 DEF Stores
    <2>2. ~About(job[s], u, s) /\ About(job'[s], u, s)
        BY <1>1, <1>4, <1>5 DEF About, Holding
    <2>. QED BY <1>2, <1>3, <2>1, <2>2 DEF StoresAt
<1>6. CASE ~(s = r /\ u = t)
    <2>1. stored'[s][u] = stored[s][u]
        BY <1>1, <1>6 DEF Stores
    <2>2. About(job[s], u, s) => About(job'[s], u, s)
        BY <1>1, <1>4, Apart DEF About, Holding
    <2>. QED BY <1>2, <1>3, <2>1, <2>2 DEF StoresAt
<1>. QED BY <1>5, <1>6

\* removereference takes one owner out for one removal.
LEMMA StoresRemoval ==
    ASSUME Sound, StoresCounted, NEW a \in Agents, NEW t, NEW o, NEW j, Removes(a, t, o, j)
    PROVE  StoresCounted'
<1>1. /\ job[a].pc = "remove" /\ job[a].ts = t /\ job[a].ref = o /\ t \in Spaces /\ Becomes(a, j)
      /\ UNCHANGED <<stored, call>> /\ refs \in [Spaces -> Seq(Owners)] /\ refs[t] \in Seq(Owners)
      /\ j.pc \notin Holding
      /\ \/ o \in ToSet(refs[t]) /\ refs' = [refs EXCEPT ![t] = RemoveFirst(@, o)]
         \/ o \notin ToSet(refs[t]) /\ UNCHANGED refs
    BY SoundFacts DEF Removes, clients, TypeOK, Holding
<1>2. job'[a] = j /\ \A b \in Agents \ {a} : job'[b] = job[b]
    BY <1>1, SoundFacts, JobStep
<1>3. a \in Spaces => o = a
    <2>1. Role(a, job[a]) /\ job[a].pc \in Holding
        BY <1>1, SoundFacts DEF Types, Roles, Holding
    <2>. QED BY <1>1, <2>1 DEF Role
<1> SUFFICES ASSUME NEW s \in Spaces, NEW u \in Spaces PROVE StoresAt(s, u)'
    BY DEF StoresCounted
<1>4. StoresAt(s, u) /\ stored[s][u] \in Nat /\ Times(refs[u], s) \in Nat /\ Cardinality(Putters(s, u)) \in Nat
    BY SoundFacts, TypeFacts, TimesFacts, PuttersFinite DEF StoresCounted, Stores
<1>5. stored'[s][u] = stored[s][u] /\ Putters(s, u)' = Putters(s, u)
    BY <1>1 DEF Putters
<1>6. Times(refs'[u], s) = Times(refs[u], s) - (IF u = t /\ s = o /\ o \in ToSet(refs[t]) THEN 1 ELSE 0)
    <2>1. CASE u # t \/ UNCHANGED refs
        <3>1. refs'[u] = refs[u]
            BY <1>1, <2>1
        <3>2. ~(u = t /\ s = o /\ o \in ToSet(refs[t]))
            <4>1. CASE u # t
                BY <4>1
            <4>2. CASE UNCHANGED refs /\ u = t /\ s = o /\ o \in ToSet(refs[t])
                <5>1. refs[t] = RemoveFirst(refs[t], o)
                    BY <1>1, <4>2
                <5>2. Times(RemoveFirst(refs[t], o), o) = Times(refs[t], o) - 1
                    BY <1>1, <4>2, TimesRemoveFirst
                <5>. QED BY <1>4, <4>2, <5>1, <5>2
            <4>. QED BY <2>1, <4>1, <4>2
        <3>. QED BY <1>4, <3>1, <3>2
    <2>2. CASE u = t /\ o \in ToSet(refs[t]) /\ refs' = [refs EXCEPT ![t] = RemoveFirst(@, o)]
        <3>1. refs'[u] = RemoveFirst(refs[t], o)
            BY <1>1, <2>2
        <3>2. Times(RemoveFirst(refs[t], o), s) = Times(refs[t], s) - (IF o = s THEN 1 ELSE 0)
            BY <1>1, <2>2, TimesRemoveFirst
        <3>. QED BY <2>2, <3>1, <3>2
    <2>. QED BY <1>1, <2>1, <2>2
<1>7. CASE s = a /\ u = t /\ o \in ToSet(refs[t])
    <2>1. Times(refs'[u], s) = Times(refs[u], s) - 1
        BY <1>3, <1>6, <1>7
    <2>. QED BY <1>4, <1>5, <2>1 DEF StoresAt
<1>8. CASE s = a /\ u = t /\ o \notin ToSet(refs[t])
    <2>1. Times(refs'[u], s) = Times(refs[u], s)
        BY <1>4, <1>6, <1>8
    <2>2. Times(refs[u], s) = 0
        BY <1>3, <1>4, <1>8, SoundFacts, TimesFacts
    <2>. QED BY <1>4, <1>5, <2>1, <2>2 DEF StoresAt
<1>9. CASE ~(s = a /\ u = t)
    <2>1. Times(refs'[u], s) <= Times(refs[u], s) /\ Times(refs'[u], s) \in Int
        BY <1>4, <1>6
    <2>2. About(job[s], u, s) => About(job'[s], u, s)
        BY <1>1, <1>2, <1>9, Apart DEF About
    <2>. QED BY <1>4, <1>5, <2>1, <2>2 DEF StoresAt
<1>. QED BY <1>7, <1>8, <1>9


\* A walk that empties a list leaves tuplespaces that are gone only.
LEMMA StoresSearches ==
    ASSUME Sound, StoresCounted, NEW a \in Agents, NEW j, Searches(a, j)
    PROVE  StoresCounted'
<1>1. /\ Becomes(a, j) /\ job[a].ts \in Spaces /\ UNCHANGED <<stored, call>> /\ job[a].pc \notin Holding
      /\ UNCHANGED refs \/ refs' = [refs EXCEPT ![job[a].ts] = <<>>]
      /\ refs \in [Spaces -> Seq(Owners)]
    BY SoundFacts DEF Searches, clients, Clears, Drops, Holding, TypeOK
<1>2. \A b \in Agents \ {a} : job'[b] = job[b]
    BY <1>1, SoundFacts, JobStep
<1>3. \A s, t \in Spaces : About(job[s], t, s) => About(job'[s], t, s)
    BY <1>1, <1>2, Apart DEF About
<1>4. \A s, t \in Spaces : Putters(s, t)' = Putters(s, t)
    BY <1>1 DEF Putters
<1>5. \A t \in Spaces : refs'[t] = refs[t] \/ refs'[t] = <<>>
    BY <1>1
<1>6. \A s, t \in Spaces : Times(refs'[t], s) = 0 \/ Times(refs'[t], s) = Times(refs[t], s)
    BY <1>5, TimesEmpty
<1>. QED BY <1>1, <1>3, <1>4, <1>6, StoresLess

\* Each step.
LEMMA StoresStep ==
    ASSUME Sound, StoresCounted, Step
    PROVE  StoresCounted'
<1>0. UNCHANGED call => \A s, t \in Spaces : Putters(s, t)' = Putters(s, t)
    BY DEF Putters
<1>1. ASSUME UNCHANGED <<refs, stored, job, call>> PROVE StoresCounted'
    BY <1>0, <1>1, StoresSame
<1>2. ASSUME NEW p \in Procs, NEW t, NEW s, NEW c, Asks(p, t, s, c) PROVE StoresCounted'
    <2>1. call' = [call EXCEPT ![p] = c] /\ UNCHANGED <<refs, stored, job>> /\ call[p].at # "put" /\ c.at # "put"
        BY <1>2 DEF Asks, server
    <2>2. \A r, u \in Spaces : Putters(r, u)' = Putters(r, u)
        BY <2>1, PuttersSame
    <2>. QED BY <2>1, <2>2, StoresSame
<1>3. ASSUME NEW p \in Procs, NEW t, NEW d, Tests(p, t, d) PROVE StoresCounted'
    <2>1. call' = [call EXCEPT ![p] = d] /\ UNCHANGED <<refs, stored, job>> /\ call[p].at # "put" /\ d.at # "put"
        BY <1>3, TestsThere DEF Tests
    <2>2. \A r, u \in Spaces : Putters(r, u)' = Putters(r, u)
        BY <2>1, PuttersSame
    <2>. QED BY <2>1, <2>2, StoresSame
<1>4. ASSUME NEW p \in Procs, NEW s, NEW t, Takes(p, s, t) PROVE StoresCounted'
    <2>1. /\ s = UTS /\ stored' = [stored EXCEPT ![s][t] = @ - 1] /\ stored \in [Stores -> [Spaces -> Nat]]
          /\ UNCHANGED <<refs, job>> /\ call[p].at # "put"
        BY <1>4, SoundFacts, Caller DEF Takes, EntitledAt, TypeOK
    <2>2. PICK c : c = [at |-> "own", ts |-> t, from |-> s]
        OBVIOUS
    <2>3. call' = [call EXCEPT ![p] = c] /\ c.at # "put"
        BY <1>4, <2>2 DEF Takes
    <2>4. \A r, u \in Spaces : Putters(r, u)' = Putters(r, u)
        BY <2>1, <2>3, PuttersSame
    <2>5. \A r \in Spaces : stored'[r] = stored[r]
        BY <2>1, Apart DEF Stores
    <2>. QED BY <2>1, <2>4, <2>5, StoresSame
<1>5. ASSUME NEW p \in Procs, NEW t, NEW s, NEW c, Changes(p, t, s, c) PROVE StoresCounted'
    <2>1. /\ t \in Spaces /\ refs' = [refs EXCEPT ![t] = Append(@, p)] /\ c.at = "change" /\ \E j : Becomes(p, j)
        BY <1>5, ChangesThere
    <2>2. call' = [call EXCEPT ![p] = c] /\ UNCHANGED stored /\ call[p].at = "own"
        BY <1>5 DEF Changes
    <2>3. \A r, u \in Spaces : Putters(r, u)' = Putters(r, u)
        BY <2>1, <2>2, PuttersSame
    <2>4. \A r \in Spaces : job'[r] = job[r]
        BY <2>1, SoundFacts, JobStep, Apart
    <2>. QED BY <2>1, <2>2, <2>3, <2>4, StoresOwner
<1>6. ASSUME NEW p \in Procs, NEW t, Answers(p, t) PROVE StoresCounted'
    <2>1. PICK c : c = NoCall
        OBVIOUS
    <2>2. /\ call' = [call EXCEPT ![p] = c] /\ UNCHANGED <<refs, stored, job>> /\ call[p].at # "put" /\ c.at # "put"
        BY <1>6, <2>1, CallForms DEF Answers
    <2>3. \A r, u \in Spaces : Putters(r, u)' = Putters(r, u)
        BY <2>2, PuttersSame
    <2>. QED BY <2>2, <2>3, StoresSame
<1>7. ASSUME NEW p \in Procs, NEW t, Frees(p, t) PROVE StoresCounted'
    <2>1. PICK c : c = NoCall
        OBVIOUS
    <2>2. /\ call' = [call EXCEPT ![p] = c] /\ UNCHANGED <<refs, stored>> /\ call[p].at # "put" /\ c.at # "put"
        BY <1>7, <2>1, CallForms DEF Frees
    <2>3. \A r, u \in Spaces : Putters(r, u)' = Putters(r, u)
        BY <2>2, PuttersSame
    <2>4. \A r \in Spaces : job'[r] = job[r]
        <3>1. PICK w \in Threads : \E j : Becomes(w, j)
            BY <1>7, FreesThere
        <3>. QED BY <3>1, SoundFacts, JobStep, Apart
    <2>. QED BY <2>2, <2>3, <2>4, StoresSame
<1>8. ASSUME NEW a \in Agents, NEW j, Looks(a, j) PROVE StoresCounted'
    <2>1. Becomes(a, j) /\ UNCHANGED <<refs, stored, call>> /\ job[a].ts \in Spaces
        BY <1>8 DEF Looks, server, clients
    <2>2. job'[a] = j /\ \A b \in Agents \ {a} : job'[b] = job[b]
        BY <2>1, SoundFacts, JobStep
    <2>3. ASSUME NEW s \in Spaces, NEW t \in Spaces, About(job[s], t, s), ~About(job'[s], t, s)
          PROVE  Times(refs'[t], s) = 0
        <3>1. s = a
            BY <2>2, <2>3, Apart
        <3>2. ~(j.pc = "remove" /\ j.ts = job[a].ts /\ j.ref = job[a].ref) /\ job[a].ts = t
            BY <2>2, <2>3, <3>1 DEF About, Holding
        <3>3. t \notin local_ts
            BY <1>8, <3>2 DEF Looks
        <3>4. refs'[t] = <<>>
            BY <2>1, <3>3, SoundFacts DEF Gone
        <3>. QED BY <3>4, TimesEmpty
    <2>4. \A s \in Spaces : stored'[s] = stored[s]
        BY <2>1
    <2>5. \A s, t \in Spaces : \/ Times(refs'[t], s) = 0
                               \/ Times(refs'[t], s) = Times(refs[t], s) /\ (About(job[s], t, s) => About(job'[s], t, s))
        BY <2>1, <2>3
    <2>. QED BY <1>0, <2>1, <2>4, <2>5, StoresLess
<1>9. ASSUME NEW t, NEW o, NEW j, RemovesAll(t, o, j) PROVE StoresCounted'
    <2>1. /\ Becomes(Watcher, j) /\ Watcher \in Agents /\ UNCHANGED <<stored, call>> /\ t \in Spaces /\ o \in Procs
          /\ refs' = [refs EXCEPT ![t] = Without(@, o)] /\ refs \in [Spaces -> Seq(Owners)] /\ refs[t] \in Seq(Owners)
        BY <1>9, SoundFacts, Apart DEF RemovesAll, clients, TypeOK
    <2>2. \A s \in Spaces : job'[s] = job[s]
        BY <2>1, SoundFacts, JobStep, Apart
    <2>3. refs'[t] = Without(refs[t], o) /\ \A u \in Spaces \ {t} : refs'[u] = refs[u]
        BY <2>1
    <2>4. ASSUME NEW s \in Spaces PROVE Times(refs'[t], s) = Times(refs[t], s)
        <3>1. o # s
            BY <2>1, Apart
        <3>2. Times(Without(refs[t], o), s) = IF o = s THEN 0 ELSE Times(refs[t], s)
            BY <2>1, TimesWithout
        <3>. QED BY <2>3, <3>1, <3>2
    <2>5. \A s, u \in Spaces : Times(refs'[u], s) = Times(refs[u], s)
        BY <2>3, <2>4
    <2>. QED BY <1>0, <2>1, <2>2, <2>5, StoresLess
<1>10. ASSUME NEW p \in Procs, Leaves(p) PROVE StoresCounted'
    BY <1>1, <1>10 DEF Leaves
<1>11. ASSUME NEW p \in Procs, NEW t \in Spaces, Visits(p, t) PROVE StoresCounted'
    <2>1. /\ UNCHANGED <<refs, stored, call>> /\ Watcher \in Agents
          /\ UNCHANGED job \/ \E j : Becomes(Watcher, j)
        BY <1>11, Apart DEF Visits, server, clients
    <2>2. \A s \in Spaces : job'[s] = job[s]
        BY <2>1, SoundFacts, JobStep, Apart
    <2>. QED BY <1>0, <2>1, <2>2, StoresSame
<1>12. CASE UNCHANGED vars
    BY <1>1, <1>12 DEF vars, server, clients
<1>. QED BY <1>2, <1>3, <1>4, <1>5, <1>6, <1>7, <1>8, <1>9, <1>10, <1>11, <1>12, StoresCreate, StoresAdds,
         StoresPuts, StoresDestroys, StoresRemoval, StoresSearches DEF Step

\* What has no owner is on its way out.
LEMMA TidyAlways == ASSUME OnlyFromUTS PROVE Spec => []Tidy
<1>1. Init => Tidy
    <2> SUFFICES ASSUME Init PROVE Tidy
        OBVIOUS
    <2>1. Orphaned
        BY DEF Init, Orphaned
    <2>2. \A a \in Agents : job[a].pc = "idle"
        BY DEF Init, NoJob
    <2>3. Destroyed /\ Cut
        BY <2>2, Apart DEF Destroyed, Cut
    <2>4. ASSUME NEW s \in Spaces, NEW t \in Spaces PROVE StoresAt(s, t)
        <3>1. Times(refs[t], s) = 0 /\ stored[s][t] = 0
            BY TimesEmpty DEF Init, Stores
        <3>. QED BY <3>1, PuttersFinite DEF StoresAt
    <2>. QED BY <2>1, <2>3, <2>4 DEF Tidy, StoresCounted
<1>2. Sound /\ Tidy /\ [Next]_vars => Tidy'
    <2> SUFFICES ASSUME Sound, Tidy, [Next]_vars PROVE Tidy'
        OBVIOUS
    <2>1. Step /\ Endings
        BY SoundFacts, Steps, EndingsStep
    <2>. QED BY <2>1, OrphanedStep, DestroyedStep, CutStep, StoresStep DEF Tidy
<1>. QED BY <1>1, <1>2, SoundAlways, PTL DEF Spec

\* An owner of a tuplespace when nothing is under way.
LEMMA QuietOwner ==
    ASSUME Sound, Tidy, Quiet, NEW t \in local_ts, NEW o \in ToSet(refs[t])
    PROVE  \/ t \in Reached \cup skipped
           \/ \E s \in local_ts : stored[s][t] > 0
<1>1. t \in Spaces /\ refs[t] \in Seq(Owners) /\ o \in Owners
    BY SoundFacts, TypeFacts DEF ToSet
<1>2. Times(refs[t], o) \in Nat /\ Times(refs[t], o) > 0
    BY <1>1, SoundFacts, TimesFacts
<1>3. \A a \in Agents : job[a].pc \notin Holding
    BY DEF Quiet, Holding
<1>4. \A q : ToRemove(t, q) = 0
    <2> SUFFICES ASSUME NEW q PROVE ToRemove(t, q) = 0
        OBVIOUS
    <2>1. Removers(t, q) = {}
        BY <1>3 DEF Removers, About
    <2>. QED BY <2>1, Removing, FS_EmptySet
<1>5. \A p \in Procs : call[p].at \in {"delete", "own"} => FALSE
    <2> SUFFICES ASSUME NEW p \in Procs, call[p].at \in {"delete", "own"} PROVE FALSE
        OBVIOUS
    <2>1. job[p].pc = "idle"
        BY Caller
    <2>. QED BY <2>1 DEF Quiet, At
<1>6. Roots \subseteq Reached
    BY ReachedClosed
<1>7. CASE o \in pthreads
    <2>1. o \in Procs /\ Times(refs[t], o) = held[o][t] + ToRemove(t, o) + (IF Owes(call[o], t) THEN 1 ELSE 0)
        BY <1>1, <1>7, SoundFacts DEF HandlesCounted, TypeOK
    <2>2. held[o][t] \in Nat
        BY <1>1, <2>1, SoundFacts, TypeFacts
    <2>3. held[o][t] > 0 \/ Owes(call[o], t)
        BY <1>2, <1>4, <2>1, <2>2
    <2>4. Owes(call[o], t) => call[o].at \in Handing /\ call[o].ts = t
        BY <1>5, <2>1 DEF Owes, Handing
    <2>5. t \in Roots
        BY <1>1, <2>1, <2>3, <2>4, RootsAre
    <2>. QED BY <1>6, <2>5
<1>8. CASE o \in Procs \ pthreads
    <2>1. t \in todo[o]
        BY <1>3, <1>8, SoundFacts, Apart DEF Passed, Dead, SeenTo
    <2>2. job[Watcher].pc = "raised"
        BY <1>8, <2>1 DEF Quiet, At
    <2>. QED BY <1>8, <2>1, <2>2 DEF Tidy, Cut
<1>9. CASE o = UTS
    <2>1. Times(refs[t], UTS) = stored[UTS][t] + ToRemove(t, UTS) + Cardinality(Givers(t))
        BY <1>1, SoundFacts DEF TuplesCounted
    <2>2. stored[UTS][t] \in Nat /\ Cardinality(Givers(t)) \in Nat
        BY <1>1, SoundFacts, TypeFacts, FewGivers DEF Stores
    <2>3. stored[UTS][t] > 0 \/ Cardinality(Givers(t)) > 0
        BY <1>2, <1>4, <1>9, <2>1, <2>2
    <2>4. Cardinality(Givers(t)) > 0 => \E p \in Procs : call[p].at \in Handing /\ call[p].ts = t
        <3>1. Givers(t) = {} => Cardinality(Givers(t)) = 0
            BY FS_EmptySet
        <3>2. \A p \in Givers(t) : p \in Procs /\ call[p].at \in Handing /\ call[p].ts = t
            BY DEF Givers, Gives, Handing
        <3>. QED BY <2>2, <3>1, <3>2
    <2>5. t \in Roots
        BY <1>1, <2>3, <2>4, RootsAre
    <2>. QED BY <1>6, <2>5
<1>10. CASE o \in Spaces
    <2>1. StoresAt(o, t) /\ ~About(job[o], t, o)
        BY <1>1, <1>3, <1>10, Apart DEF Tidy, StoresCounted, About
    <2>2. stored[o][t] \in Nat /\ Cardinality(Putters(o, t)) \in Nat
        BY <1>1, <1>10, SoundFacts, TypeFacts, PuttersFinite DEF Stores
    <2>3. stored[o][t] > 0 \/ Cardinality(Putters(o, t)) > 0
        BY <1>2, <2>1, <2>2 DEF StoresAt
    <2>4. Cardinality(Putters(o, t)) > 0 => \E p \in Procs : call[p].at \in Handing /\ call[p].ts = t
        <3>1. Putters(o, t) = {} => Cardinality(Putters(o, t)) = 0
            BY FS_EmptySet
        <3>2. \A p \in Putters(o, t) : p \in Procs /\ call[p].at \in Handing /\ call[p].ts = t
            BY DEF Putters, PutInto, Handing
        <3>. QED BY <2>2, <3>1, <3>2
    <2>5. CASE stored[o][t] > 0 /\ o \notin local_ts
        <3>1. o \in born
            BY <1>1, <1>10, <2>5, SoundFacts DEF Created
        <3>2. job[o].pc = "raised"
            BY <1>1, <2>5, <3>1 DEF Quiet, At
        <3>. QED BY <1>1, <1>10, <2>5, <3>2 DEF Tidy, Cut
    <2>6. CASE Cardinality(Putters(o, t)) > 0
        <3>1. t \in Roots
            BY <1>1, <2>4, <2>6, RootsAre
        <3>. QED BY <1>6, <3>1
    <2>. QED BY <2>3, <2>5, <2>6
<1>. QED BY <1>1, <1>7, <1>8, <1>9, <1>10 DEF Owners, Stores

\* Nothing is left over: when nothing is under way, a tuplespace in the container
\* is one that can be reached, is in a tuple of one that is there, or is one that
\* the removal of an exception was to see to (removereference, removeProcess and
\* __del__ delete what they leave without an owner).
THEOREM NothingIsLeft == ASSUME OnlyFromUTS PROVE Spec => []NoLeak
<1>1. ASSUME Sound, Tidy, Quiet, NEW t \in local_ts
      PROVE  \/ t \in Reached \cup skipped
             \/ \E s \in local_ts : stored[s][t] > 0
    <2>1. CASE refs[t] = <<>>
        <3>1. \A a \in Agents : ~InSearch(job[a], t)
            BY <1>1 DEF Quiet, InSearch, Searching
        <3>. QED BY <1>1, <2>1, <3>1 DEF Tidy, Orphaned
    <2>2. CASE refs[t] # <<>>
        <3>1. refs[t] \in Seq(Owners)
            BY <1>1, SoundFacts, TypeFacts
        <3>2. ToSet(refs[t]) # {}
            BY <2>2, <3>1, SetEmpty
        <3>. QED BY <1>1, <3>2, QuietOwner
    <2>. QED BY <2>1, <2>2
<1>2. Sound /\ Tidy => NoLeak
    BY <1>1 DEF NoLeak
<1>. QED BY <1>2, SoundAlways, TidyAlways, PTL

================================================================================
