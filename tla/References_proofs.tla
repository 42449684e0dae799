--------------------------- MODULE References_proofs ---------------------------
(***************************************************************************)
(* Types, the killlock and the processes that have left, whatever the      *)
(* clients do.  The invariant IInv is TypeOK with what it takes to be      *)
(* inductive: an id that is held, stored or in a call was given out; which *)
(* thread removes what for whom; the killlock of a tuplespace counts with  *)
(* the threads that will release it; and a process that has left is an     *)
(* owner only where the watcher has still to go.                           *)
(*                                                                         *)
(* Each handler has a lemma (...Shape) that takes its record apart, and    *)
(* one for each part of the invariant.                                     *)
(***************************************************************************)
EXTENDS References, OwnerList_proofs

Holding == {"lookup", "remove"}      \* where a removal has yet to release

\* Threads, handlers, destructors and the watcher are apart.
LEMMA Apart == /\ Threads \cap (Procs \cup Spaces \cup {Watcher}) = {}
               /\ Procs \cap (Spaces \cup {Watcher}) = {} /\ Watcher \notin Spaces
               /\ UTS \notin Spaces /\ UTS \notin Procs
               /\ Procs \cup Threads \cup Spaces \cup {Watcher} = Agents
BY ReferencesAssumption DEF Stores, Agents

(***************************************************************************)
(* Types.                                                                  *)
(***************************************************************************)
\* A tuplespace that somebody has, stores or asks about was created.
Known ==
    /\ \A p \in Procs, t \in Spaces : held[p][t] > 0 => t \in born
    /\ \A s \in Stores, t \in Spaces : stored[s][t] > 0 => t \in born
    /\ \A p \in Procs : call[p].at \notin {"idle", "hung", "match"} => call[p].ts \in born

\* A thread that delete_reference starts removes one reference of a process, a
\* handler and a destructor one of a tuplespace, the watcher all those of a
\* process that has left.
Role(a, j) ==
    j.pc \in Holding =>
        /\ a \in Threads => ~j.every /\ j.ref \in Procs
        /\ a \in Procs => ~j.every /\ j.ref \in Stores
        /\ a \in Spaces => ~j.every /\ j.ref = a
        /\ a = Watcher => j.every /\ j.ref \in Procs \ pthreads
Roles == \A a \in Agents : Role(a, job[a])

Types == TypeOK /\ Known /\ Roles

\* What a call and a removal are about at each place, and which there are.
LEMMA CallKinds ==
    ASSUME NEW c \in Calling
    PROVE  /\ c.at \in {"idle", "hung", "test", "add", "put", "match", "own", "change", "delete"}
           /\ c.at \notin {"idle", "hung", "match"} => c.ts \in Spaces
           /\ c.at \in {"test", "add"} =>
                /\ c.op \in {"copy", "out"}
                /\ c.op = "copy" => c.ref \in Procs
                /\ c.op = "out" => c.ref \in Stores
           /\ c.at = "put" => c.into \in Stores
           /\ c.at \in {"match", "own", "change"} => c.from \in Stores
<1>1. c.at \in {"idle", "hung", "test", "add", "put", "match", "own", "change", "delete"}
    BY DEF Calling, NoCall
<1>2. c.at \notin {"idle", "hung", "match"} => c.ts \in Spaces
    BY DEF Calling, NoCall
<1>3. c.at \in {"test", "add"} =>
                /\ c.op \in {"copy", "out"}
                /\ c.op = "copy" => c.ref \in Procs
                /\ c.op = "out" => c.ref \in Stores
    BY DEF Calling, NoCall
<1>4. c.at = "put" => c.into \in Stores
    BY DEF Calling, NoCall
<1>5. c.at \in {"match", "own", "change"} => c.from \in Stores
    BY DEF Calling, NoCall
<1>. QED BY <1>1, <1>2, <1>3, <1>4, <1>5

LEMMA CallForms ==
    /\ NoCall \in Calling /\ [at |-> "hung"] \in Calling
    /\ \A t \in Spaces, p \in Procs : [at |-> "test", op |-> "copy", ts |-> t, ref |-> p] \in Calling
    /\ \A t \in Spaces, s \in Stores : [at |-> "test", op |-> "out", ts |-> t, ref |-> s] \in Calling
    /\ \A t \in Spaces, s \in Stores : [at |-> "put", ts |-> t, into |-> s] \in Calling
    /\ \A s \in Stores : [at |-> "match", from |-> s] \in Calling
    /\ \A t \in Spaces, s \in Stores : [at |-> "own", ts |-> t, from |-> s] \in Calling
    /\ \A t \in Spaces : [at |-> "delete", ts |-> t] \in Calling
    /\ NoCall.at = "idle"
<1>1. NoCall \in Calling /\ [at |-> "hung"] \in Calling /\ NoCall.at = "idle"
    BY DEF Calling, NoCall
<1>2. \A t \in Spaces, p \in Procs : [at |-> "test", op |-> "copy", ts |-> t, ref |-> p] \in Calling
    BY DEF Calling
<1>3. \A t \in Spaces, s \in Stores : [at |-> "test", op |-> "out", ts |-> t, ref |-> s] \in Calling
    BY DEF Calling
<1>4. \A t \in Spaces, s \in Stores : [at |-> "put", ts |-> t, into |-> s] \in Calling
    BY DEF Calling
<1>5. \A s \in Stores : [at |-> "match", from |-> s] \in Calling
    BY DEF Calling
<1>6. \A t \in Spaces, s \in Stores : [at |-> "own", ts |-> t, from |-> s] \in Calling
    BY DEF Calling
<1>7. \A t \in Spaces : [at |-> "delete", ts |-> t] \in Calling
    BY DEF Calling
<1>. QED BY <1>1, <1>2, <1>3, <1>4, <1>5, <1>6, <1>7

\* The two places where a call goes on with the record it has.
LEMMA CallGoesOn ==
    ASSUME NEW c \in Calling, NEW d,
           \/ c.at = "test" /\ d = [c EXCEPT !.at = "add"]
           \/ c.at = "own" /\ d = [c EXCEPT !.at = "change"]
    PROVE  /\ d \in Calling /\ d.ts = c.ts
           /\ c.at = "test" => d.at = "add" /\ d.op = c.op /\ d.ref = c.ref
           /\ c.at = "own" => d.at = "change" /\ d.from = c.from
<1>1. CASE c \in [at : {"test", "add"}, op : {"copy"}, ts : Spaces, ref : Procs] /\ c.at = "test"
    <2>1. d = [c EXCEPT !.at = "add"]
        BY <1>1
    <2>2. d \in [at : {"test", "add"}, op : {"copy"}, ts : Spaces, ref : Procs]
        BY <1>1, <2>1
    <2>. QED BY <1>1, <2>1, <2>2 DEF Calling
<1>2. CASE c \in [at : {"test", "add"}, op : {"out"}, ts : Spaces, ref : Stores] /\ c.at = "test"
    <2>1. d = [c EXCEPT !.at = "add"]
        BY <1>2
    <2>2. d \in [at : {"test", "add"}, op : {"out"}, ts : Spaces, ref : Stores]
        BY <1>2, <2>1
    <2>. QED BY <1>2, <2>1, <2>2 DEF Calling
<1>3. CASE c \in [at : {"own", "change"}, ts : Spaces, from : Stores] /\ c.at = "own"
    <2>1. d = [c EXCEPT !.at = "change"]
        BY <1>3
    <2>2. d \in [at : {"own", "change"}, ts : Spaces, from : Stores]
        BY <1>3, <2>1
    <2>. QED BY <1>3, <2>1, <2>2 DEF Calling
<1>4. \/ c \in [at : {"test", "add"}, op : {"copy"}, ts : Spaces, ref : Procs] /\ c.at = "test"
      \/ c \in [at : {"test", "add"}, op : {"out"}, ts : Spaces, ref : Stores] /\ c.at = "test"
      \/ c \in [at : {"own", "change"}, ts : Spaces, from : Stores] /\ c.at = "own"
    BY DEF Calling, NoCall
<1>. QED BY <1>1, <1>2, <1>3, <1>4

LEMMA JobKinds ==
    ASSUME NEW j \in Jobs
    PROVE  /\ j.pc \in {"idle", "raised", "lookup", "remove", "scan", "walk", "garbage",
                        "drop", "scanning", "walking"}
           /\ j.pc \notin {"idle", "raised"} => j.ts \in Spaces
           /\ j.pc \in Holding =>
                j \in [pc : Holding, ts : Spaces, ref : Owners, every : BOOLEAN]
           /\ j.pc = "scanning" => j \in [pc : {"scanning"}, ts : Spaces, queue : Queue]
           /\ j.pc = "walking" =>
                j \in [pc : {"walking"}, ts : Spaces, queue : Seq(Owners), memo : SUBSET Stores]
<1>1. j.pc \in {"idle", "raised", "lookup", "remove", "scan", "walk", "garbage",
                "drop", "scanning", "walking"}
    BY DEF Jobs, NoJob
<1>2. j.pc \notin {"idle", "raised"} => j.ts \in Spaces
    BY DEF Jobs, NoJob
<1>3. j.pc \in Holding => j \in [pc : Holding, ts : Spaces, ref : Owners, every : BOOLEAN]
    BY DEF Jobs, NoJob, Holding
<1>4. j.pc = "scanning" => j \in [pc : {"scanning"}, ts : Spaces, queue : Queue]
    BY DEF Jobs, NoJob
<1>5. j.pc = "walking" =>
        j \in [pc : {"walking"}, ts : Spaces, queue : Seq(Owners), memo : SUBSET Stores]
    BY DEF Jobs, NoJob
<1>. QED BY <1>1, <1>2, <1>3, <1>4, <1>5

LEMMA JobForms ==
    /\ NoJob \in Jobs /\ NoJob.pc = "idle" /\ [pc |-> "raised"] \in Jobs
    /\ \A t \in Spaces, o \in Owners, e \in BOOLEAN : Removal(t, o, e) \in Jobs
    /\ \A t \in Spaces, c \in {"scan", "walk", "garbage", "drop"} : [pc |-> c, ts |-> t] \in Jobs
    /\ \A t \in Spaces, q \in Queue : [pc |-> "scanning", ts |-> t, queue |-> q] \in Jobs
    /\ \A t \in Spaces, q \in Seq(Owners), m \in SUBSET Stores :
         [pc |-> "walking", ts |-> t, queue |-> q, memo |-> m] \in Jobs
<1>1. NoJob \in Jobs /\ NoJob.pc = "idle" /\ [pc |-> "raised"] \in Jobs
    BY DEF Jobs, NoJob
<1>2. \A t \in Spaces, o \in Owners, e \in BOOLEAN : Removal(t, o, e) \in Jobs
    BY DEF Jobs, Removal
<1>3. \A t \in Spaces, c \in {"scan", "walk", "garbage", "drop"} : [pc |-> c, ts |-> t] \in Jobs
    BY DEF Jobs
<1>4. \A t \in Spaces, q \in Queue : [pc |-> "scanning", ts |-> t, queue |-> q] \in Jobs
    BY DEF Jobs
<1>5. \A t \in Spaces, q \in Seq(Owners), m \in SUBSET Stores :
         [pc |-> "walking", ts |-> t, queue |-> q, memo |-> m] \in Jobs
    BY DEF Jobs
<1>. QED BY <1>1, <1>2, <1>3, <1>4, <1>5

LEMMA TypeFacts ==
    ASSUME TypeOK
    PROVE  /\ \A p \in Procs : call[p] \in Calling
           /\ \A a \in Agents : job[a] \in Jobs
           /\ \A t \in Spaces : refs[t] \in Seq(Owners) /\ killlock[t] \in Nat
           /\ \A s \in Stores, t \in Spaces : stored[s][t] \in Nat
           /\ \A p \in Procs, t \in Spaces : held[p][t] \in Nat
           /\ \A p \in Procs : todo[p] \subseteq Spaces
           /\ \A o \in Procs \cup Spaces \cup {UTS} : o \in Owners
           /\ local_ts \subseteq Spaces
BY DEF TypeOK, Owners, Stores

LEMMA CreateTypes ==
    ASSUME Types, NEW p \in Procs, NEW t \in Spaces, Create(p, t)
    PROVE  Types'
<1>1. <<p>> \in Seq(Owners)
    BY DEF Owners
<1>2. TypeOK'
    BY <1>1 DEF Types, TypeOK, Create
<1>3. Known'
    BY DEF Types, Known, TypeOK, Create
<1>4. Roles'
    BY DEF Types, Roles, Role, Create
<1>. QED BY <1>2, <1>3, <1>4 DEF Types

LEMMA ClientTypes ==
    ASSUME Types, NEW p \in Procs,
           \/ \E t \in Spaces : Copy(p, t) \/ Delete(p, t)
           \/ \E s \in Stores, t \in Spaces : Out(p, s, t)
           \/ \E s \in Stores : In(p, s)
    PROVE  Types'
<1>1. ASSUME NEW c \in Calling, Calls(p, c), held' \in [Procs -> [Spaces -> Nat]],
             \A q \in Procs, u \in Spaces : held'[q][u] <= held[q][u],
             c.at \notin {"idle", "hung", "match"} => c.ts \in born
      PROVE  Types'
    <2>1. TypeOK'
        BY <1>1 DEF Types, TypeOK, Calls, server, history
    <2>2. Known'
        <3>1. ASSUME NEW q \in Procs, NEW u \in Spaces, held'[q][u] > 0 PROVE u \in born
            <4>1. held'[q][u] \in Nat /\ held[q][u] \in Nat /\ held'[q][u] <= held[q][u]
                BY <1>1, TypeFacts DEF Types
            <4>. QED BY <3>1, <4>1 DEF Types, Known
        <3>. QED BY <1>1, <3>1 DEF Types, Known, TypeOK, Calls, server, history
    <2>3. Roles'
        BY <1>1 DEF Types, Roles, Role, Calls, server
    <2>. QED BY <2>1, <2>2, <2>3 DEF Types
<1>2. UNCHANGED held => /\ held' \in [Procs -> [Spaces -> Nat]]
                        /\ \A q \in Procs, u \in Spaces : held'[q][u] <= held[q][u]
    BY TypeFacts DEF Types, TypeOK
<1>3. CASE \E t \in Spaces : Copy(p, t)
    <2>1. PICK t \in Spaces : Copy(p, t)
        BY <1>3
    <2>2. held[p][t] > 0
        BY <2>1, TypeFacts DEF Types, TypeOK, Copy
    <2>3. t \in born
        BY <2>2 DEF Types, Known
    <2>. QED BY <2>1, <2>3, <1>1, <1>2, CallForms DEF Copy
<1>4. CASE \E t \in Spaces : Delete(p, t)
    <2>1. PICK t \in Spaces : Delete(p, t)
        BY <1>4
    <2>2. t \in born
        BY <2>1 DEF Types, Known, Delete
    <2>3. /\ held' = [held EXCEPT ![p][t] = @ - 1] /\ held[p][t] > 0
          /\ held \in [Procs -> [Spaces -> Nat]]
        BY <2>1 DEF Delete, Types, TypeOK
    <2>4. /\ held' \in [Procs -> [Spaces -> Nat]]
          /\ \A q \in Procs, u \in Spaces : held'[q][u] <= held[q][u]
        BY <2>3
    <2>. QED BY <2>1, <2>2, <2>4, <1>1, CallForms DEF Delete
<1>5. CASE \E s \in Stores, t \in Spaces : Out(p, s, t)
    <2>1. PICK s \in Stores, t \in Spaces : Out(p, s, t)
        BY <1>5
    <2>2. t \in born
        BY <2>1 DEF Types, Known, Out
    <2>. QED BY <2>1, <2>2, <1>1, <1>2, CallForms DEF Out
<1>6. CASE \E s \in Stores : In(p, s)
    BY <1>6, <1>1, <1>2, CallForms DEF In
<1>. QED BY <1>3, <1>4, <1>5, <1>6

\* The handlers with the record of the call taken apart.
Tests(p, t, d) ==
    /\ t \in Spaces \cap born /\ d \in Calling /\ call[p].at = "test" /\ call[p].ts = t
    /\ d.at = "add" /\ d.ts = t /\ d.op = call[p].op /\ d.ref = call[p].ref
    /\ call' = [call EXCEPT ![p] = d]
    /\ local_ts' = local_ts \cup {t}
    /\ t \in local_ts => UNCHANGED <<refs, killlock>>
    /\ t \notin local_ts => /\ refs' = [refs EXCEPT ![t] = <<>>]
                            /\ killlock' = [killlock EXCEPT ![t] = 1]
    /\ UNCHANGED <<stored, pthreads, held, job, todo, program, born, missed, skipped>>

LEMMA TestTuplespaceShape ==
    ASSUME Types, NEW p \in Procs, TestTuplespace(p)
    PROVE  \E t, d : Tests(p, t, d)
<1>1. PICK t : t = call[p].ts
    OBVIOUS
<1>2. PICK d : d = [call[p] EXCEPT !.at = "add"]
    OBVIOUS
<1>3. call[p] \in Calling /\ call[p].at = "test"
    BY TypeFacts DEF Types, TestTuplespace
<1>4. t \in Spaces \cap born
    BY <1>1, <1>3, CallKinds DEF Types, Known
<1>5. d \in Calling /\ d.at = "add" /\ d.ts = t /\ d.op = call[p].op /\ d.ref = call[p].ref
    BY <1>1, <1>2, <1>3, CallGoesOn
<1>6. call' = [call EXCEPT ![p] = d]
    BY <1>2 DEF TestTuplespace
<1>7. /\ local_ts' = local_ts \cup {t}
      /\ t \in local_ts => UNCHANGED <<refs, killlock>>
      /\ t \notin local_ts => /\ refs' = [refs EXCEPT ![t] = <<>>]
                              /\ killlock' = [killlock EXCEPT ![t] = 1]
      /\ UNCHANGED <<stored, pthreads, held, job, todo, program, born, missed, skipped>>
    BY <1>1 DEF TestTuplespace, history
<1>8. Tests(p, t, d)
    BY <1>1, <1>3, <1>4, <1>5, <1>6, <1>7 DEF Tests
<1>. QED BY <1>8

LEMMA TestTuplespaceTypes ==
    ASSUME Types, NEW p \in Procs, TestTuplespace(p)
    PROVE  Types'
<1>1. PICK t, d : Tests(p, t, d)
    BY TestTuplespaceShape
<1>2. TypeOK'
    <2>1. <<>> \in Seq(Owners) /\ 1 \in Nat
        OBVIOUS
    <2>2. refs \in [Spaces -> Seq(Owners)] /\ killlock \in [Spaces -> Nat]
        BY DEF Types, TypeOK
    <2>3. refs' \in [Spaces -> Seq(Owners)]
        BY <1>1, <2>1, <2>2 DEF Tests
    <2>4. killlock' \in [Spaces -> Nat]
        BY <1>1, <2>1, <2>2 DEF Tests
    <2>. QED BY <1>1, <2>3, <2>4 DEF Types, TypeOK, Tests
<1>3. Known'
    BY <1>1 DEF Types, Known, TypeOK, Tests
<1>4. Roles'
    BY <1>1 DEF Types, Roles, Role, Tests
<1>. QED BY <1>2, <1>3, <1>4 DEF Types

\* add_reference for a tuplespace that is gone, and the two answers it has:
\* a copy gets its handle, out goes on to store its tuple.
Adds(p, t, o, c) ==
    /\ t \in Spaces \cap born /\ call[p].at = "add" /\ call[p].ts = t /\ call[p].ref = o
    /\ call' = [call EXCEPT ![p] = c] /\ c \in Calling
    /\ \/ /\ t \notin local_ts /\ c = [at |-> "hung"]
          /\ UNCHANGED <<refs, held>>
       \/ /\ t \in local_ts /\ call[p].op = "copy" /\ o \in Procs
          /\ c = NoCall
          /\ refs' = [refs EXCEPT ![t] = Append(@, o)]
          /\ held' = [held EXCEPT ![p][t] = @ + 1]
       \/ /\ t \in local_ts /\ call[p].op = "out" /\ o \in Stores
          /\ c = [at |-> "put", ts |-> t, into |-> o]
          /\ refs' = [refs EXCEPT ![t] = Append(@, o)]
          /\ UNCHANGED held
    /\ UNCHANGED <<local_ts, killlock, stored, pthreads, job, todo, program, born, missed, skipped>>

LEMMA AddReferenceShape ==
    ASSUME Types, NEW p \in Procs, AddReference(p)
    PROVE  \E t, o, c : Adds(p, t, o, c)
<1>1. PICK t, o : t = call[p].ts /\ o = call[p].ref
    OBVIOUS
<1>2. /\ call[p] \in Calling /\ call[p].at = "add" /\ t \in Spaces \cap born
      /\ call[p].op \in {"copy", "out"} /\ (call[p].op = "copy" => o \in Procs)
      /\ (call[p].op = "out" => o \in Stores)
    BY <1>1, CallKinds, TypeFacts DEF Types, Known, AddReference
<1>3. UNCHANGED <<local_ts, killlock, stored, pthreads, job, todo, program, born, missed, skipped>>
    BY DEF AddReference, history
<1>4. CASE t \notin local_ts
    <2>1. call' = [call EXCEPT ![p] = [at |-> "hung"]] /\ UNCHANGED <<refs, held>>
        BY <1>1, <1>4 DEF AddReference
    <2>. QED BY <2>1, <1>1, <1>2, <1>3, <1>4, CallForms DEF Adds
<1>5. CASE t \in local_ts /\ call[p].op = "copy"
    <2>1. /\ call' = [call EXCEPT ![p] = NoCall]
          /\ refs' = [refs EXCEPT ![t] = Append(@, o)]
          /\ held' = [held EXCEPT ![p][t] = @ + 1]
        BY <1>1, <1>5 DEF AddReference
    <2>. QED BY <2>1, <1>1, <1>2, <1>3, <1>5, CallForms DEF Adds
<1>6. CASE t \in local_ts /\ call[p].op = "out"
    <2>1. /\ call' = [call EXCEPT ![p] = [at |-> "put", ts |-> t, into |-> o]]
          /\ refs' = [refs EXCEPT ![t] = Append(@, o)] /\ UNCHANGED held
        BY <1>1, <1>6 DEF AddReference
    <2>. QED BY <2>1, <1>1, <1>2, <1>3, <1>6, CallForms DEF Adds
<1>. QED BY <1>2, <1>4, <1>5, <1>6

LEMMA AddReferenceTypes ==
    ASSUME Types, NEW p \in Procs, AddReference(p)
    PROVE  Types'
<1>1. PICK t, o, c : Adds(p, t, o, c)
    BY AddReferenceShape
<1>2. refs' \in [Spaces -> Seq(Owners)] /\ held' \in [Procs -> [Spaces -> Nat]]
    <2>1. t \in Spaces /\ refs[t] \in Seq(Owners) /\ refs \in [Spaces -> Seq(Owners)]
          /\ held \in [Procs -> [Spaces -> Nat]]
        BY <1>1 DEF Adds, Types, TypeOK
    <2>2. o \in Owners => Append(refs[t], o) \in Seq(Owners)
        BY <2>1
    <2>3. refs' \in [Spaces -> Seq(Owners)]
        BY <1>1, <2>1, <2>2 DEF Adds, Owners
    <2>4. held' \in [Procs -> [Spaces -> Nat]]
        BY <1>1, <2>1 DEF Adds
    <2>. QED BY <2>3, <2>4
<1>3. TypeOK'
    BY <1>1, <1>2 DEF Types, TypeOK, Adds
<1>4. Known'
    <2>1. ASSUME NEW q \in Procs, NEW u \in Spaces, held'[q][u] > 0 PROVE u \in born
        <3>1. held'[q][u] = held[q][u] \/ u = t
            BY <1>1 DEF Adds, Types, TypeOK
        <3>. QED BY <2>1, <3>1, <1>1 DEF Adds, Types, Known
    <2>2. ASSUME NEW q \in Procs, call'[q].at \notin {"idle", "hung", "match"} PROVE call'[q].ts \in born
        <3>1. CASE q # p
            BY <3>1, <2>2, <1>1 DEF Adds, Types, Known, TypeOK
        <3>2. CASE q = p
            <4>1. call'[q] = c
                BY <3>2, <1>1 DEF Adds, Types, TypeOK
            <4>. QED BY <4>1, <2>2, <1>1 DEF Adds, NoCall
        <3>. QED BY <3>1, <3>2
    <2>. QED BY <1>1, <2>1, <2>2 DEF Adds, Types, Known
<1>5. Roles'
    BY <1>1 DEF Types, Roles, Role, Adds
<1>. QED BY <1>3, <1>4, <1>5 DEF Types

LEMMA PutTupleTypes ==
    ASSUME Types, NEW p \in Procs, PutTuple(p)
    PROVE  Types'
<1>1. PICK s, t : s = call[p].into /\ t = call[p].ts
    OBVIOUS
<1>2. s \in Stores /\ t \in Spaces \cap born
    BY <1>1, CallKinds, TypeFacts DEF Types, Known, PutTuple
<1>3. /\ stored' = [stored EXCEPT ![s][t] = @ + 1] /\ call' = [call EXCEPT ![p] = NoCall]
      /\ UNCHANGED <<local_ts, refs, killlock, pthreads, held, job, todo, program, born, missed, skipped>>
    BY <1>1 DEF PutTuple, history
<1>4. stored \in [Stores -> [Spaces -> Nat]]
    BY DEF Types, TypeOK
<1>5. /\ stored' \in [Stores -> [Spaces -> Nat]]
      /\ \A r \in Stores, u \in Spaces : stored'[r][u] = stored[r][u] \/ u = t
    BY <1>2, <1>3, <1>4
<1>6. TypeOK'
    BY <1>3, <1>5, CallForms DEF Types, TypeOK
<1>7. Known'
    BY <1>2, <1>3, <1>5, CallForms DEF Types, Known, TypeOK
<1>8. Roles'
    BY <1>3 DEF Types, Roles, Role
<1>. QED BY <1>6, <1>7, <1>8 DEF Types

\* in takes a tuple with a handle to t out of s.
Takes(p, s, t) ==
    /\ call[p].at = "match" /\ call[p].from = s /\ s \in Stores
    /\ t \in Spaces \cap born /\ stored[s][t] > 0
    /\ stored' = [stored EXCEPT ![s][t] = @ - 1]
    /\ call' = [call EXCEPT ![p] = [at |-> "own", ts |-> t, from |-> s]]
    /\ UNCHANGED <<local_ts, refs, killlock, pthreads, held, job, todo, program, born, missed, skipped>>

LEMMA MatchShape ==
    ASSUME Types, NEW p \in Procs, Match(p)
    PROVE  \E s, t : Takes(p, s, t)
<1>1. PICK s : s = call[p].from
    OBVIOUS
<1>2. call[p].at = "match" /\ s \in Stores
    BY <1>1, CallKinds, TypeFacts DEF Types, Match
<1>3. PICK t \in Spaces : /\ stored[s][t] > 0
                          /\ stored' = [stored EXCEPT ![s][t] = @ - 1]
                          /\ call' = [call EXCEPT ![p] = [at |-> "own", ts |-> t, from |-> s]]
    BY <1>1 DEF Match
<1>4. t \in born
    BY <1>2, <1>3 DEF Types, Known
<1>5. UNCHANGED <<local_ts, refs, killlock, pthreads, held, job, todo, program, born, missed, skipped>>
    BY DEF Match, history
<1>. QED BY <1>1, <1>2, <1>3, <1>4, <1>5 DEF Takes

LEMMA MatchTypes ==
    ASSUME Types, NEW p \in Procs, Match(p)
    PROVE  Types'
<1>1. PICK s, t : Takes(p, s, t)
    BY MatchShape
<1>2. stored \in [Stores -> [Spaces -> Nat]] /\ s \in Stores /\ t \in Spaces /\ stored[s][t] > 0
      /\ stored' = [stored EXCEPT ![s][t] = @ - 1]
    BY <1>1 DEF Types, TypeOK, Takes
<1>3. /\ stored' \in [Stores -> [Spaces -> Nat]]
      /\ \A r \in Stores, u \in Spaces : stored'[r][u] > 0 => stored[r][u] > 0
    BY <1>2
<1>4. TypeOK'
    BY <1>1, <1>3, CallForms DEF Types, TypeOK, Takes
<1>5. Known'
    BY <1>1, <1>3 DEF Types, Known, TypeOK, Takes
<1>6. Roles'
    BY <1>1 DEF Types, Roles, Role, Takes
<1>. QED BY <1>4, <1>5, <1>6 DEF Types

LEMMA AnswerTypes ==
    ASSUME Types, NEW p \in Procs, Answer(p)
    PROVE  Types'
<1>1. PICK t : t = call[p].ts
    OBVIOUS
<1>2. t \in Spaces \cap born
    BY <1>1, CallKinds, TypeFacts DEF Types, Known, Answer
<1>3. /\ held' = [held EXCEPT ![p][t] = @ + 1] /\ call' = [call EXCEPT ![p] = NoCall]
      /\ UNCHANGED <<local_ts, refs, killlock, stored, pthreads, job, todo, program, born, missed, skipped>>
    BY <1>1 DEF Answer, server, history
<1>4. held \in [Procs -> [Spaces -> Nat]]
    BY DEF Types, TypeOK
<1>5. /\ held' \in [Procs -> [Spaces -> Nat]]
      /\ \A q \in Procs, u \in Spaces : held'[q][u] = held[q][u] \/ u = t
    BY <1>2, <1>3, <1>4
<1>6. TypeOK'
    BY <1>3, <1>5, CallForms DEF Types, TypeOK
<1>7. Known'
    BY <1>2, <1>3, <1>5, CallForms DEF Types, Known, TypeOK
<1>8. Roles'
    BY <1>3 DEF Types, Roles, Role
<1>. QED BY <1>6, <1>7, <1>8 DEF Types

\* changeOwner for a tuplespace that is gone, or one that is there.
Changes(p, t, s, c) ==
    /\ call[p].at = "own" /\ call[p].ts = t /\ call[p].from = s
    /\ t \in Spaces \cap born /\ s \in Stores /\ c \in Calling
    /\ call' = [call EXCEPT ![p] = c]
    /\ \/ /\ t \notin local_ts /\ c.at = "hung" /\ UNCHANGED <<refs, job>>
       \/ /\ t \in local_ts /\ c.at = "change" /\ c.ts = t /\ c.from = s
          /\ refs' = [refs EXCEPT ![t] = Append(@, p)]
          /\ job' = [job EXCEPT ![p] = Removal(t, s, FALSE)]
    /\ UNCHANGED <<local_ts, killlock, stored, pthreads, held, todo, program, born, missed, skipped>>

LEMMA ChangeOwnerShape ==
    ASSUME Types, NEW p \in Procs, ChangeOwner(p)
    PROVE  \E t, s, c : Changes(p, t, s, c)
<1>1. PICK t, s : t = call[p].ts /\ s = call[p].from
    OBVIOUS
<1>2. PICK d : d = [call[p] EXCEPT !.at = "change"]
    OBVIOUS
<1>3. call[p] \in Calling /\ call[p].at = "own"
    BY TypeFacts DEF Types, ChangeOwner
<1>4. s \in Stores /\ t \in Spaces \cap born
    BY <1>1, <1>3, CallKinds DEF Types, Known
<1>5. d \in Calling /\ d.at = "change" /\ d.ts = t /\ d.from = s
    BY <1>1, <1>2, <1>3, CallGoesOn
<1>6. UNCHANGED <<local_ts, killlock, stored, pthreads, held, todo, program, born, missed, skipped>>
    BY DEF ChangeOwner, history
<1>7. CASE t \in local_ts
    <2>1. /\ call' = [call EXCEPT ![p] = d] /\ refs' = [refs EXCEPT ![t] = Append(@, p)]
          /\ job' = [job EXCEPT ![p] = Removal(t, s, FALSE)]
        BY <1>1, <1>2, <1>7 DEF ChangeOwner
    <2>2. Changes(p, t, s, d)
        BY <2>1, <1>1, <1>3, <1>4, <1>5, <1>6, <1>7 DEF Changes
    <2>. QED BY <2>2
<1>8. CASE t \notin local_ts
    <2>1. call' = [call EXCEPT ![p] = [at |-> "hung"]] /\ UNCHANGED <<refs, job>>
        BY <1>1, <1>8 DEF ChangeOwner
    <2>2. Changes(p, t, s, [at |-> "hung"])
        BY <2>1, <1>1, <1>3, <1>4, <1>6, <1>8, CallForms DEF Changes
    <2>. QED BY <2>2
<1>. QED BY <1>7, <1>8

\* What is done to a job: its thread goes on to j.
Becomes(a, j) == j \in Jobs /\ job' = [job EXCEPT ![a] = j]

LEMMA NewJob ==
    ASSUME Types, NEW a \in Agents, NEW j, Becomes(a, j), pthreads' \subseteq pthreads,
           UNCHANGED pthreads \/ a # Watcher,
           j.pc \in Holding =>
             /\ a \in Threads => ~j.every /\ j.ref \in Procs
             /\ a \in Procs => ~j.every /\ j.ref \in Stores
             /\ a \in Spaces => ~j.every /\ j.ref = a
             /\ a = Watcher => j.every /\ j.ref \in Procs \ pthreads
    PROVE  job' \in [Agents -> Jobs] /\ Roles'
<1>1. job \in [Agents -> Jobs]
    BY DEF Types, TypeOK
<1>2. job' \in [Agents -> Jobs] /\ job'[a] = j /\ \A b \in Agents \ {a} : job'[b] = job[b]
    BY <1>1 DEF Becomes
<1>3. Role(a, j)'
    BY DEF Role
<1>4. \A b \in Agents : Role(b, job[b])
    BY DEF Types, Roles
<1>5. Roles'
    BY <1>2, <1>3, <1>4 DEF Roles, Role
<1>. QED BY <1>2, <1>5

LEMMA ChangeOwnerTypes ==
    ASSUME Types, NEW p \in Procs, ChangeOwner(p)
    PROVE  Types'
<1>1. PICK t, s, c : Changes(p, t, s, c)
    BY ChangeOwnerShape
<1>2. t \in Spaces \cap born /\ s \in Owners /\ p \in Owners /\ p \in Agents /\ s \in Stores
      /\ p \notin Threads \cup Spaces \cup {Watcher}
    BY <1>1, Apart DEF Changes, Owners, Agents
<1>3. refs' \in [Spaces -> Seq(Owners)]
    <2>1. refs \in [Spaces -> Seq(Owners)] /\ refs[t] \in Seq(Owners)
        BY <1>2 DEF Types, TypeOK
    <2>2. Append(refs[t], p) \in Seq(Owners)
        BY <2>1, <1>2
    <2>. QED BY <2>1, <2>2, <1>1, <1>2 DEF Changes
<1>4. job' \in [Agents -> Jobs] /\ Roles'
    <2>1. CASE UNCHANGED job
        BY <2>1, <1>1 DEF Types, TypeOK, Roles, Role, Changes
    <2>2. CASE job' = [job EXCEPT ![p] = Removal(t, s, FALSE)]
        <3>1. Becomes(p, Removal(t, s, FALSE))
            BY <2>2, <1>2, JobForms DEF Becomes
        <3>2. ~Removal(t, s, FALSE).every /\ Removal(t, s, FALSE).ref = s
            BY DEF Removal
        <3>3. UNCHANGED pthreads
            BY <1>1 DEF Changes
        <3>. QED BY <3>1, <3>2, <3>3, <1>2, NewJob
    <2>. QED BY <2>1, <2>2, <1>1 DEF Changes
<1>5. TypeOK'
    BY <1>1, <1>3, <1>4 DEF Types, TypeOK, Changes
<1>6. Known'
    <2>1. c.at \notin {"idle", "hung", "match"} => c.ts \in born
        BY <1>1 DEF Changes
    <2>2. /\ call \in [Procs -> Calling] /\ call' = [call EXCEPT ![p] = c]
          /\ UNCHANGED <<held, stored, born>>
        BY <1>1 DEF Types, TypeOK, Changes
    <2>3. Known
        BY DEF Types
    <2>. QED BY <2>1, <2>2, <2>3 DEF Known
<1>. QED BY <1>4, <1>5, <1>6 DEF Types

\* delete_reference for a tuplespace that is gone, or one that is there.
Frees(p, t) ==
    /\ call[p].at = "delete" /\ call[p].ts = t /\ t \in Spaces \cap born
    /\ call' = [call EXCEPT ![p] = NoCall]
    /\ \/ t \notin local_ts /\ UNCHANGED <<killlock, job>>
       \/ /\ t \in local_ts /\ killlock[t] > 0 /\ killlock' = [killlock EXCEPT ![t] = @ - 1]
          /\ \E w \in Threads : job[w].pc = "idle" /\ job' = [job EXCEPT ![w] = Removal(t, p, FALSE)]
    /\ UNCHANGED <<local_ts, refs, stored, pthreads, held, todo, program, born, missed, skipped>>

LEMMA DeleteReferenceShape ==
    ASSUME Types, NEW p \in Procs, DeleteReference(p)
    PROVE  \E t : Frees(p, t)
<1>1. PICK t : t = call[p].ts
    OBVIOUS
<1>2. call[p].at = "delete" /\ t \in Spaces \cap born
    BY <1>1, CallKinds, TypeFacts DEF Types, Known, DeleteReference
<1>3. /\ call' = [call EXCEPT ![p] = NoCall]
      /\ UNCHANGED <<local_ts, refs, stored, pthreads, held, todo, program, born, missed, skipped>>
    BY DEF DeleteReference, history
<1>4. \/ t \notin local_ts /\ UNCHANGED <<killlock, job>>
      \/ /\ t \in local_ts /\ killlock[t] > 0 /\ killlock' = [killlock EXCEPT ![t] = @ - 1]
         /\ \E w \in Threads : job[w].pc = "idle" /\ job' = [job EXCEPT ![w] = Removal(t, p, FALSE)]
    BY <1>1 DEF DeleteReference, Acquire, FreeThreads
<1>5. Frees(p, t)
    BY <1>1, <1>2, <1>3, <1>4 DEF Frees
<1>. QED BY <1>5

LEMMA DeleteReferenceTypes ==
    ASSUME Types, NEW p \in Procs, DeleteReference(p)
    PROVE  Types'
<1>1. PICK t : Frees(p, t)
    BY DeleteReferenceShape
<1>2. killlock' \in [Spaces -> Nat]
    <2>1. killlock \in [Spaces -> Nat] /\ t \in Spaces
        BY <1>1 DEF Types, TypeOK, Frees
    <2>2. CASE killlock[t] > 0 /\ killlock' = [killlock EXCEPT ![t] = @ - 1]
        BY <2>1, <2>2
    <2>. QED BY <2>1, <2>2, <1>1 DEF Frees
<1>3. job' \in [Agents -> Jobs] /\ Roles'
    <2>1. CASE UNCHANGED job
        BY <2>1, <1>1 DEF Types, TypeOK, Roles, Role, Frees
    <2>2. CASE \E w \in Threads : job' = [job EXCEPT ![w] = Removal(t, p, FALSE)]
        <3>1. PICK w \in Threads : job' = [job EXCEPT ![w] = Removal(t, p, FALSE)]
            BY <2>2
        <3>2. w \in Agents /\ w \notin Procs \cup Spaces \cup {Watcher} /\ t \in Spaces /\ p \in Owners
            BY <1>1, Apart DEF Agents, Owners, Frees
        <3>3. Becomes(w, Removal(t, p, FALSE))
            BY <3>1, <3>2, JobForms DEF Becomes
        <3>4. ~Removal(t, p, FALSE).every /\ Removal(t, p, FALSE).ref = p
            BY DEF Removal
        <3>5. UNCHANGED pthreads
            BY <1>1 DEF Frees
        <3>. QED BY <3>2, <3>3, <3>4, <3>5, NewJob
    <2>. QED BY <2>1, <2>2, <1>1 DEF Frees
<1>4. TypeOK'
    BY <1>1, <1>2, <1>3, CallForms DEF Types, TypeOK, Frees
<1>5. Known'
    BY <1>1, CallForms DEF Types, Known, TypeOK, Frees
<1>. QED BY <1>3, <1>4, <1>5 DEF Types

LEMMA LookupShape ==
    ASSUME Types, NEW a \in Agents, Lookup(a)
    PROVE  /\ \/ /\ job[a].ts \in local_ts
                 /\ \E j : /\ Becomes(a, j) /\ j.pc = "remove" /\ j.ts = job[a].ts
                           /\ j.ref = job[a].ref /\ j.every = job[a].every
              \/ job[a].ts \notin local_ts /\ Becomes(a, NoJob)
           /\ job[a].pc = "lookup" /\ job[a].ts \in Spaces
           /\ UNCHANGED <<server, clients, todo, history>>
<1>1. job[a] \in [pc : Holding, ts : Spaces, ref : Owners, every : BOOLEAN] /\ job[a].pc = "lookup"
    BY TypeFacts, JobKinds DEF Types, Lookup, At, Holding
<1>2. CASE job[a].ts \in local_ts
    <2>1. PICK j : j = [job[a] EXCEPT !.pc = "remove"]
        OBVIOUS
    <2>2. /\ j = [pc |-> "remove", ts |-> job[a].ts, ref |-> job[a].ref, every |-> job[a].every]
          /\ j.pc = "remove" /\ j.ts = job[a].ts
          /\ j.ref = job[a].ref /\ j.every = job[a].every
        BY <1>1, <2>1
    <2>3. j \in Jobs
        BY <1>1, <2>2 DEF Jobs
    <2>4. job' = [job EXCEPT ![a] = j]
        BY <1>2, <2>1 DEF Lookup, Goto
    <2>. QED BY <1>1, <1>2, <2>2, <2>3, <2>4 DEF Lookup, Becomes
<1>3. CASE job[a].ts \notin local_ts
    BY <1>1, <1>3, JobForms DEF Lookup, Finish, Becomes
<1>. QED BY <1>2, <1>3

LEMMA LookupTypes ==
    ASSUME Types, NEW a \in Agents, Lookup(a)
    PROVE  Types'
<1>1. UNCHANGED <<server, clients, todo, history>> /\ job[a].pc = "lookup"
    BY LookupShape
<1>2. job' \in [Agents -> Jobs] /\ Roles'
    <2>1. CASE Becomes(a, NoJob)
        BY <2>1, <1>1, NewJob, JobForms DEF Holding, server
    <2>2. CASE \E j : /\ Becomes(a, j) /\ j.pc = "remove" /\ j.ts = job[a].ts
                      /\ j.ref = job[a].ref /\ j.every = job[a].every
        <3>1. PICK j : /\ Becomes(a, j) /\ j.pc = "remove" /\ j.ts = job[a].ts
                       /\ j.ref = job[a].ref /\ j.every = job[a].every
            BY <2>2
        <3>2. Role(a, job[a])
            BY DEF Types, Roles
        <3>. QED BY <3>1, <3>2, <1>1, NewJob DEF Role, Holding, server
    <2>. QED BY <2>1, <2>2, LookupShape
<1>3. TypeOK'
    BY <1>1, <1>2 DEF Types, TypeOK, server, clients, history
<1>4. Known'
    BY <1>1 DEF Types, Known, server, clients, history
<1>. QED BY <1>2, <1>3, <1>4 DEF Types

\* removereference of an owner that is there, or that is not.
Removes(a, t, o, j) ==
    /\ job[a].pc = "remove" /\ job[a].ts = t /\ job[a].ref = o /\ ~job[a].every
    /\ t \in Spaces /\ o \in Owners /\ Becomes(a, j)
    /\ killlock' = [killlock EXCEPT ![t] = @ + 1]
    /\ \/ /\ o \in ToSet(refs[t]) /\ refs' = [refs EXCEPT ![t] = RemoveFirst(@, o)]
          /\ j.pc = "scan" /\ j.ts = t /\ UNCHANGED <<missed, skipped>>
       \/ /\ o \notin ToSet(refs[t]) /\ UNCHANGED refs
          /\ j.pc = IF a \in Threads THEN "idle" ELSE "raised"
          /\ missed' = missed \cup {<<t, o>>} /\ skipped' \subseteq Spaces
    /\ UNCHANGED <<local_ts, stored, pthreads, clients, todo, program, born>>

LEMMA RaiseShape ==
    ASSUME Types, NEW a \in Agents, Raise(a), job[a].ts \in Spaces
    PROVE  /\ \E j : Becomes(a, j) /\ j.pc = IF a \in Threads THEN "idle" ELSE "raised"
           /\ skipped' \subseteq Spaces
<1>1. skipped' \subseteq Spaces
    <2>1. UNION {todo[p] : p \in Procs} \subseteq Spaces /\ skipped \subseteq Spaces
        BY TypeFacts DEF Types, TypeOK
    <2>. QED BY <2>1 DEF Raise
<1>2. PICK j : j = IF a \in Threads THEN NoJob ELSE [pc |-> "raised"]
    OBVIOUS
<1>3. j \in Jobs /\ j.pc = IF a \in Threads THEN "idle" ELSE "raised"
    BY <1>2, JobForms
<1>4. Becomes(a, j)
    BY <1>2, <1>3 DEF Raise, Becomes
<1>. QED BY <1>1, <1>3, <1>4

\* A list without the owner stays as it is.
LEMMA RemoveFirstAbsent ==
    ASSUME NEW list \in Seq(Owners), NEW o, o \notin ToSet(list)
    PROVE  RemoveFirst(list, o) = list
BY DEF RemoveFirst, ToSet

LEMMA RemoveReferenceShape ==
    ASSUME Types, NEW a \in Agents, RemoveReference(a)
    PROVE  \E t, o, j : Removes(a, t, o, j)
<1>1. PICK t, o : t = job[a].ts /\ o = job[a].ref
    OBVIOUS
<1>2. job[a].pc = "remove" /\ ~job[a].every /\ t \in Spaces /\ o \in Owners
    BY <1>1, TypeFacts, JobKinds DEF Types, RemoveReference, At, Holding
<1>3. /\ killlock' = [killlock EXCEPT ![t] = @ + 1]
      /\ refs' = [refs EXCEPT ![t] = RemoveFirst(@, o)]
      /\ UNCHANGED <<local_ts, stored, pthreads, clients, todo, program, born>>
    BY <1>1 DEF RemoveReference, RefsWithout
<1>4. CASE o \in ToSet(refs[t])
    <2>1. job' = [job EXCEPT ![a] = [pc |-> "scan", ts |-> t]] /\ UNCHANGED <<missed, skipped>>
        BY <1>1, <1>4 DEF RemoveReference, Proceed
    <2>2. Becomes(a, [pc |-> "scan", ts |-> t])
        BY <1>2, <2>1, JobForms DEF Becomes
    <2>3. Removes(a, t, o, [pc |-> "scan", ts |-> t])
        BY <1>1, <1>2, <1>3, <1>4, <2>1, <2>2 DEF Removes
    <2>. QED BY <2>3
<1>5. CASE o \notin ToSet(refs[t])
    <2>1. Raise(a) /\ missed' = missed \cup {<<t, o>>}
        BY <1>1, <1>5 DEF RemoveReference
    <2>2. PICK j : Becomes(a, j) /\ j.pc = IF a \in Threads THEN "idle" ELSE "raised"
        BY <1>1, <1>2, <2>1, RaiseShape
    <2>3. skipped' \subseteq Spaces
        BY <1>1, <1>2, <2>1, RaiseShape
    <2>4. refs \in [Spaces -> Seq(Owners)]
        BY DEF Types, TypeOK
    <2>5. UNCHANGED refs
        <3>1. RemoveFirst(refs[t], o) = refs[t]
            BY <1>2, <1>5, <2>4, RemoveFirstAbsent
        <3>. QED BY <1>3, <2>4, <3>1
    <2>6. Removes(a, t, o, j)
        BY <1>1, <1>2, <1>3, <1>5, <2>1, <2>2, <2>3, <2>5 DEF Removes
    <2>. QED BY <2>6
<1>. QED BY <1>4, <1>5

LEMMA RemoveReferenceTypes ==
    ASSUME Types, NEW a \in Agents, RemoveReference(a)
    PROVE  Types'
<1>1. PICK t, o, j : Removes(a, t, o, j)
    BY RemoveReferenceShape
<1>2. refs' \in [Spaces -> Seq(Owners)] /\ killlock' \in [Spaces -> Nat]
    <2>1. refs \in [Spaces -> Seq(Owners)] /\ killlock \in [Spaces -> Nat] /\ t \in Spaces
        BY <1>1 DEF Types, TypeOK, Removes
    <2>2. killlock' \in [Spaces -> Nat]
        BY <1>1, <2>1 DEF Removes
    <2>3. CASE o \in ToSet(refs[t]) /\ refs' = [refs EXCEPT ![t] = RemoveFirst(@, o)]
        <3>1. RemoveFirst(refs[t], o) \in Seq(Owners)
            BY <2>1, <2>3, TimesRemoveFirst
        <3>. QED BY <2>1, <2>2, <2>3, <3>1
    <2>. QED BY <1>1, <2>1, <2>2, <2>3 DEF Removes
<1>3. job' \in [Agents -> Jobs] /\ Roles'
    <2>1. Becomes(a, j) /\ j.pc \notin Holding /\ UNCHANGED pthreads
        BY <1>1 DEF Removes, Holding
    <2>. QED BY <2>1, NewJob
<1>4. TypeOK'
    BY <1>1, <1>2, <1>3 DEF Types, TypeOK, Removes, clients
<1>5. Known'
    BY <1>1 DEF Types, Known, Removes, clients
<1>. QED BY <1>3, <1>4, <1>5 DEF Types

LEMMA RemoveAnyReferencesShape ==
    ASSUME Types, NEW a \in Agents, RemoveAnyReferences(a)
    PROVE  /\ a = Watcher /\ job[a].pc = "remove" /\ job[a].every
           /\ job[a].ts \in Spaces /\ job[a].ref \in Procs \ pthreads
           /\ killlock[job[a].ts] > 0
           /\ refs' = [refs EXCEPT ![job[a].ts] = Without(@, job[a].ref)]
           /\ \E j : Becomes(a, j) /\ j.pc = "scan" /\ j.ts = job[a].ts
           /\ UNCHANGED <<local_ts, killlock, stored, pthreads, clients, todo, history>>
<1>1. job[a].pc = "remove" /\ job[a].every /\ job[a].ts \in Spaces
    BY TypeFacts, JobKinds DEF Types, RemoveAnyReferences, At, Holding
<1>2. Role(a, job[a])
    BY DEF Types, Roles
<1>3. a = Watcher /\ job[a].ref \in Procs \ pthreads
    BY <1>1, <1>2, Apart DEF Role, Holding
<1>4. Becomes(a, [pc |-> "scan", ts |-> job[a].ts])
    BY <1>1, JobForms DEF RemoveAnyReferences, Proceed, Becomes
<1>. QED BY <1>1, <1>3, <1>4 DEF RemoveAnyReferences

LEMMA RemoveAnyReferencesTypes ==
    ASSUME Types, NEW a \in Agents, RemoveAnyReferences(a)
    PROVE  Types'
<1>1. PICK t, o : t = job[a].ts /\ o = job[a].ref
    OBVIOUS
<1>2. PICK j : Becomes(a, j) /\ j.pc = "scan" /\ j.ts = job[a].ts
    BY RemoveAnyReferencesShape
<1>3. /\ refs' = [refs EXCEPT ![t] = Without(@, o)] /\ t \in Spaces
      /\ UNCHANGED <<local_ts, killlock, stored, pthreads, clients, todo, history>>
    BY <1>1, RemoveAnyReferencesShape
<1>4. refs' \in [Spaces -> Seq(Owners)]
    <2>1. refs \in [Spaces -> Seq(Owners)]
        BY DEF Types, TypeOK
    <2>2. Without(refs[t], o) \in Seq(Owners)
        BY <1>3, <2>1, TimesWithout
    <2>. QED BY <1>3, <2>1, <2>2
<1>5. job' \in [Agents -> Jobs] /\ Roles'
    BY <1>2, <1>3, NewJob DEF Holding
<1>6. TypeOK'
    BY <1>3, <1>4, <1>5 DEF Types, TypeOK, clients, history
<1>7. Known'
    BY <1>3 DEF Types, Known, clients, history
<1>. QED BY <1>5, <1>6, <1>7 DEF Types

\* A step of the search for a deadlock and for garbage: how a walk begins and
\* goes on, and the two that change the container.
Walks(a, j) ==
    \/ job[a].pc = "walk" /\ j.queue = refs[j.ts] /\ j.memo = {j.ts}
    \/ /\ job[a].pc = "walking" /\ job[a].queue # <<>>
       /\ LET q == job[a].queue m == job[a].memo r == Head(q) IN
          \/ r \in m /\ j.memo = m /\ j.queue = Tail(q)
          \/ /\ r \in Spaces \ m /\ j.memo = m \cup {r}
             /\ j.queue = Tail(q) \o (IF r \in local_ts THEN refs[r] ELSE <<>>)
Clears(a, j) ==
    /\ job[a].pc = "walking" /\ job[a].queue = <<>> /\ j.pc = "garbage"
    /\ refs' = [refs EXCEPT ![job[a].ts] = <<>>] /\ UNCHANGED local_ts
Drops(a, j) ==
    /\ job[a].pc = "drop" /\ j.pc = "idle"
    /\ local_ts' = local_ts \ {job[a].ts} /\ UNCHANGED refs
Searches(a, j) ==
    /\ Becomes(a, j) /\ job[a].ts \in Spaces
    /\ job[a].pc \in {"scan", "scanning", "walk", "walking", "garbage", "drop"}
    /\ j.pc \notin Holding
    /\ j.pc \notin {"idle", "raised"} => j.ts = job[a].ts
    /\ j.pc = "walking" => Walks(a, j)
    /\ j.pc = "drop" => refs[job[a].ts] = <<>>
    /\ UNCHANGED <<refs, local_ts>> \/ Clears(a, j) \/ Drops(a, j)
    /\ skipped' \subseteq Spaces
    /\ UNCHANGED <<killlock, stored, pthreads, clients, todo, program, born, missed>>

LEMMA ScanShape ==
    ASSUME Types, NEW a \in Agents, BeginScan(a) \/ Scan(a)
    PROVE  \E j : Searches(a, j)
<1>1. /\ UNCHANGED <<refs, local_ts, killlock, stored, pthreads, clients, todo, program, born, missed>>
      /\ job[a].pc \in {"scan", "scanning"} /\ job[a].ts \in Spaces
    BY TypeFacts, JobKinds DEF Types, BeginScan, Scan, At, server, history
<1>2. skipped \subseteq Spaces
    BY DEF Types, TypeOK
<1>3. ASSUME NEW q \in Queue,
             job' = [job EXCEPT ![a] = [pc |-> "scanning", ts |-> job[a].ts, queue |-> q]],
             UNCHANGED skipped
      PROVE  \E j : Searches(a, j)
    <2>1. PICK j : j = [pc |-> "scanning", ts |-> job[a].ts, queue |-> q]
        OBVIOUS
    <2>2. Becomes(a, j) /\ j.pc = "scanning" /\ j.ts = job[a].ts
        BY <1>1, <1>3, <2>1, JobForms DEF Becomes
    <2>. QED BY <1>1, <1>2, <1>3, <2>2 DEF Searches, Holding
<1>4. Seq(Owners) \subseteq Queue
    BY DEF Queue
<1>5. CASE BeginScan(a)
    <2>1. refs[job[a].ts] \in Queue
        BY <1>1, <1>4, TypeFacts DEF Types
    <2>. QED BY <1>3, <1>5, <2>1 DEF BeginScan, history
<1>6. CASE Scan(a)
    <2>1. job[a] \in [pc : {"scanning"}, ts : Spaces, queue : Queue]
        BY <1>6, TypeFacts, JobKinds DEF Types, Scan, At
    <2>2. CASE Proceed(a, "walk") /\ UNCHANGED skipped
        <3>1. PICK j : j = [pc |-> "walk", ts |-> job[a].ts]
            OBVIOUS
        <3>2. Becomes(a, j) /\ j.pc = "walk" /\ j.ts = job[a].ts
            BY <1>1, <2>2, <3>1, JobForms DEF Becomes, Proceed
        <3>. QED BY <1>1, <1>2, <2>2, <3>2 DEF Searches, Holding
    <2>3. CASE Raise(a)
        <3>1. PICK j : Becomes(a, j) /\ j.pc = IF a \in Threads THEN "idle" ELSE "raised"
            BY <1>1, <2>3, RaiseShape
        <3>2. skipped' \subseteq Spaces
            BY <1>1, <2>3, RaiseShape
        <3>. QED BY <1>1, <3>1, <3>2 DEF Searches, Holding
    <2>4. CASE /\ ~EndsScan(job[a].queue) /\ UNCHANGED skipped
               /\ job' = [job EXCEPT ![a].queue = Tail(job[a].queue) \o OwnersOf(Head(job[a].queue))]
        <3>1. PICK q : q = Tail(job[a].queue) \o OwnersOf(Head(job[a].queue))
            OBVIOUS
        <3>2. OwnersOf(Head(job[a].queue)) \in Queue
            <4>1. \A s \in Spaces : refs[s] \in Queue
                BY <1>4, TypeFacts DEF Types
            <4>2. \A p \in Procs : <<[thread |-> p]>> \in Queue
                BY DEF Queue
            <4>3. <<>> \in Queue
                BY DEF Queue
            <4>. QED BY <4>1, <4>2, <4>3 DEF OwnersOf
        <3>3. job[a].queue \in Queue /\ job[a].queue # <<>>
            BY <2>1, <2>4 DEF EndsScan
        <3>4. q \in Queue
            BY <3>1, <3>2, <3>3 DEF Queue
        <3>5. [job[a] EXCEPT !.queue = q] = [pc |-> "scanning", ts |-> job[a].ts, queue |-> q]
            BY <2>1
        <3>6. job' = [job EXCEPT ![a] = [pc |-> "scanning", ts |-> job[a].ts, queue |-> q]]
            BY <2>4, <3>1, <3>5
        <3>. QED BY <1>3, <2>4, <3>4, <3>6
    <2>. QED BY <1>6, <2>2, <2>3, <2>4 DEF Scan
<1>. QED BY <1>5, <1>6

LEMMA WalkShape ==
    ASSUME Types, NEW a \in Agents, BeginWalk(a) \/ Walk(a)
    PROVE  \E j : Searches(a, j)
<1>1. /\ UNCHANGED <<local_ts, killlock, stored, pthreads, clients, todo, program, born, missed, skipped>>
      /\ job[a].pc \in {"walk", "walking"} /\ job[a].ts \in Spaces
    BY TypeFacts, JobKinds DEF Types, BeginWalk, Walk, At, server, history
<1>2. skipped \subseteq Spaces /\ \A t \in Spaces : refs[t] \in Seq(Owners)
    BY DEF Types, TypeOK
<1>3. ASSUME NEW j, j.ts = job[a].ts, j.pc = "walking", j \in Jobs, Walks(a, j),
             job' = [job EXCEPT ![a] = j], UNCHANGED refs
      PROVE  \E i : Searches(a, i)
    <2>1. Searches(a, j)
        BY <1>1, <1>2, <1>3 DEF Searches, Holding, Becomes
    <2>. QED BY <2>1
<1>4. CASE BeginWalk(a)
    <2>1. PICK j : j = [pc |-> "walking", ts |-> job[a].ts, queue |-> refs[job[a].ts], memo |-> {job[a].ts}]
        OBVIOUS
    <2>2. /\ j.pc = "walking" /\ j.ts = job[a].ts /\ j.queue = refs[j.ts] /\ j.memo = {j.ts}
          /\ j \in Jobs
        BY <1>1, <1>2, <2>1, JobForms DEF Stores
    <2>3. Walks(a, j)
        BY <1>4, <2>2 DEF Walks, BeginWalk, At
    <2>. QED BY <1>3, <1>4, <2>1, <2>2, <2>3 DEF BeginWalk, server
<1>5. CASE Walk(a)
    <2>0. IF job[a].queue = <<>> THEN Clear(a) ELSE Visit(a, Head(job[a].queue))
        BY <1>5 DEF Walk
    <2>1. job[a] \in [pc : {"walking"}, ts : Spaces, queue : Seq(Owners), memo : SUBSET Stores]
        <3>1. job[a].pc = "walking" /\ job[a] \in Jobs
            BY <1>5, TypeFacts DEF Types, Walk, At
        <3>. QED BY <3>1, JobKinds
    <2>2. PICK t, q, m : t = job[a].ts /\ q = job[a].queue /\ m = job[a].memo
        OBVIOUS
    <2>3. q \in Seq(Owners) /\ m \subseteq Stores /\ t \in Spaces
        BY <2>1, <2>2
    <2>4. ASSUME Proceed(a, "garbage")
          PROVE  \E j : /\ Becomes(a, j) /\ j.pc = "garbage" /\ j.ts = t
        <3>1. PICK j : j = [pc |-> "garbage", ts |-> t]
            OBVIOUS
        <3>2. j \in Jobs /\ j.pc = "garbage" /\ j.ts = t
            BY <3>1, <2>3, JobForms
        <3>3. job' = [job EXCEPT ![a] = j]
            BY <3>1, <2>2, <2>4 DEF Proceed
        <3>. QED BY <3>2, <3>3 DEF Becomes
    <2>5. CASE q = <<>>
        <3>1. PICK j : Becomes(a, j) /\ j.pc = "garbage" /\ j.ts = t
            BY <2>0, <2>2, <2>4, <2>5 DEF Clear
        <3>2. refs' = [refs EXCEPT ![t] = <<>>]
            BY <2>0, <2>2, <2>5 DEF Clear
        <3>3. Clears(a, j)
            BY <1>1, <2>1, <2>2, <2>5, <3>1, <3>2 DEF Clears
        <3>. QED BY <1>1, <1>2, <2>2, <3>1, <3>3 DEF Searches, Holding
    <2>6. CASE q # <<>> /\ Head(q) \in m
        <3>1. [job[a] EXCEPT !.queue = Tail(q)] = [pc |-> "walking", ts |-> t, queue |-> Tail(q), memo |-> m]
            <4>1. PICK n : n = Tail(q)
                OBVIOUS
            <4>2. [job[a] EXCEPT !.queue = n]
                    = [pc |-> "walking", ts |-> job[a].ts, queue |-> n, memo |-> job[a].memo]
                BY <2>1
            <4>. QED BY <2>2, <4>1, <4>2
        <3>2. PICK j : j = [pc |-> "walking", ts |-> t, queue |-> Tail(q), memo |-> m]
            OBVIOUS
        <3>3. /\ j.pc = "walking" /\ j.ts = t /\ j.queue = Tail(q) /\ j.memo = m /\ j \in Jobs
            <4>1. Tail(q) \in Seq(Owners)
                BY <2>3, <2>6
            <4>. QED BY <2>3, <3>2, <4>1, JobForms
        <3>4. Walks(a, j)
            BY <2>1, <2>2, <2>6, <3>3 DEF Walks
        <3>5. job' = [job EXCEPT ![a] = j] /\ UNCHANGED refs
            BY <2>0, <2>2, <2>6, <3>1, <3>2 DEF Visit
        <3>. QED BY <1>3, <2>2, <3>3, <3>4, <3>5
    <2>7. CASE q # <<>> /\ Head(q) \notin m /\ Active(Head(q))
        <3>1. PICK j : Becomes(a, j) /\ j.pc = "garbage" /\ j.ts = t
            BY <2>0, <2>2, <2>4, <2>7 DEF Visit
        <3>2. UNCHANGED refs
            BY <2>0, <2>2, <2>7 DEF Visit
        <3>. QED BY <1>1, <1>2, <2>2, <3>1, <3>2 DEF Searches, Holding
    <2>8. CASE q # <<>> /\ Head(q) \notin m /\ ~Active(Head(q))
        <3>1. PICK r : r = Head(q)
            OBVIOUS
        <3>2. r \in Spaces
            BY <2>3, <2>8, <3>1 DEF Active, Owners, Stores
        <3>3. PICK g : g = Tail(q) \o (IF r \in local_ts THEN refs[r] ELSE <<>>)
            OBVIOUS
        <3>4. g \in Seq(Owners)
            <4>1. Tail(q) \in Seq(Owners)
                BY <2>3, <2>8
            <4>2. (IF r \in local_ts THEN refs[r] ELSE <<>>) \in Seq(Owners)
                BY <1>2, <3>2
            <4>. QED BY <3>3, <4>1, <4>2
        <3>5. PICK j : j = [pc |-> "walking", ts |-> t, queue |-> g, memo |-> m \cup {r}]
            OBVIOUS
        <3>6. /\ j.pc = "walking" /\ j.ts = t /\ j.queue = g /\ j.memo = m \cup {r} /\ j \in Jobs
            <4>1. m \cup {r} \subseteq Stores
                BY <2>3, <3>2 DEF Stores
            <4>. QED BY <2>3, <3>4, <3>5, <4>1, JobForms
        <3>7. Walks(a, j)
            BY <2>1, <2>2, <2>8, <3>1, <3>2, <3>3, <3>6 DEF Walks
        <3>8. job' = [job EXCEPT ![a] = j] /\ UNCHANGED refs
            <4>1. j = [pc |-> "walking", ts |-> t, memo |-> m \cup {r}, queue |-> g]
                BY <3>5
            <4>2. /\ UNCHANGED refs
                  /\ job' = [job EXCEPT ![a] =
                       [pc |-> "walking", ts |-> t, memo |-> m \cup {Head(q)},
                        queue |-> Tail(q) \o (IF Head(q) \in local_ts THEN refs[Head(q)] ELSE <<>>)]]
                BY <2>0, <2>2, <2>8 DEF Visit
            <4>. QED BY <3>1, <3>3, <4>1, <4>2
        <3>. QED BY <1>3, <2>2, <3>6, <3>7, <3>8
    <2>. QED BY <2>5, <2>6, <2>7, <2>8
<1>. QED BY <1>4, <1>5

LEMMA GarbageShape ==
    ASSUME Types, NEW a \in Agents, Garbage(a) \/ Drop(a)
    PROVE  \E j : Searches(a, j)
<1>1. /\ UNCHANGED <<refs, killlock, stored, pthreads, clients, todo, program, born, missed, skipped>>
      /\ job[a].pc \in {"garbage", "drop"} /\ job[a].ts \in Spaces
    BY TypeFacts, JobKinds DEF Types, Garbage, Drop, At, server, history
<1>2. skipped \subseteq Spaces
    BY DEF Types, TypeOK
<1>3. CASE Drop(a) \/ Finish(a)
    <2>1. UNCHANGED local_ts \/ Drops(a, NoJob)
        BY <1>1, <1>3, JobForms DEF Garbage, Drop, Drops, At, server
    <2>2. Becomes(a, NoJob)
        BY <1>3, JobForms DEF Drop, Finish, Becomes
    <2>3. Searches(a, NoJob)
        BY <1>1, <1>2, <2>1, <2>2, JobForms DEF Searches, Holding
    <2>. QED BY <2>3
<1>4. CASE Garbage(a) /\ refs[job[a].ts] = <<>> /\ Proceed(a, "drop")
    <2>1. PICK j : j = [pc |-> "drop", ts |-> job[a].ts]
        OBVIOUS
    <2>2. Becomes(a, j) /\ j.pc = "drop" /\ j.ts = job[a].ts
        BY <1>1, <1>4, <2>1, JobForms DEF Becomes, Proceed
    <2>3. UNCHANGED local_ts
        BY <1>4 DEF Garbage, server
    <2>. QED BY <1>1, <1>2, <1>4, <2>2, <2>3 DEF Searches, Holding
<1>. QED BY <1>3, <1>4 DEF Garbage

Search(a) == BeginScan(a) \/ Scan(a) \/ BeginWalk(a) \/ Walk(a) \/ Garbage(a) \/ Drop(a)

LEMMA SearchTypes ==
    ASSUME Types, NEW a \in Agents, NEW j, Searches(a, j)
    PROVE  Types'
<1>1. job' \in [Agents -> Jobs] /\ Roles'
    BY NewJob DEF Searches
<1>2. refs' \in [Spaces -> Seq(Owners)] /\ local_ts' \subseteq local_ts
    <2>1. <<>> \in Seq(Owners) /\ refs \in [Spaces -> Seq(Owners)]
        BY DEF Types, TypeOK
    <2>. QED BY <2>1 DEF Searches, Clears, Drops
<1>3. /\ skipped' \subseteq Spaces
      /\ UNCHANGED <<killlock, stored, pthreads, clients, todo, program, born, missed>>
    BY DEF Searches
<1>4. TypeOK'
    BY <1>1, <1>2, <1>3 DEF Types, TypeOK, clients
<1>5. Known'
    BY <1>3 DEF Types, Known, clients
<1>. QED BY <1>1, <1>4, <1>5 DEF Types

\* The destructor begins a removal for a tuple it has.
Destroys(s, t, j) ==
    /\ s \in born \ local_ts /\ job[s].pc = "idle" /\ Unused(s) /\ s \in Agents
    /\ stored[s][t] > 0 /\ stored' = [stored EXCEPT ![s][t] = @ - 1]
    /\ Becomes(s, j) /\ j.pc = "lookup" /\ j.ts = t /\ j.ref = s /\ ~j.every
    /\ UNCHANGED <<local_ts, refs, killlock, pthreads, clients, todo, history>>

LEMMA DestroyTypes ==
    ASSUME Types, NEW s \in Spaces, NEW t \in Spaces, Destroy(s, t)
    PROVE  Types' /\ \E j : Destroys(s, t, j)
<1>1. s \in Agents /\ s \in Owners /\ s \in Stores /\ s \notin Procs \cup Threads \cup {Watcher}
    BY Apart DEF Agents, Owners, Stores
<1>2. PICK j : j = Removal(t, s, FALSE)
    OBVIOUS
<1>3. Becomes(s, j) /\ j.pc = "lookup" /\ j.ts = t /\ j.ref = s /\ ~j.every
    <2>1. j.pc = "lookup" /\ j.ts = t /\ j.ref = s /\ ~j.every
        BY <1>2 DEF Removal
    <2>2. j \in Jobs
        BY <1>1, <1>2, JobForms
    <2>3. job' = [job EXCEPT ![s] = j]
        BY <1>2 DEF Destroy
    <2>. QED BY <2>1, <2>2, <2>3 DEF Becomes
<1>4. Destroys(s, t, j)
    BY <1>1, <1>3 DEF Destroys, Destroy, At
<1>5. stored \in [Stores -> [Spaces -> Nat]]
    BY DEF Types, TypeOK
<1>6. /\ stored' \in [Stores -> [Spaces -> Nat]]
      /\ \A r \in Stores, u \in Spaces : stored'[r][u] > 0 => stored[r][u] > 0
    BY <1>1, <1>4, <1>5 DEF Destroys
<1>7. UNCHANGED <<local_ts, refs, killlock, pthreads, clients, todo, history>>
    BY <1>4 DEF Destroys
<1>8. job' \in [Agents -> Jobs] /\ Roles'
    BY <1>1, <1>3, <1>7, NewJob
<1>9. TypeOK'
    BY <1>6, <1>7, <1>8 DEF Types, TypeOK, clients, history
<1>10. Known'
    BY <1>6, <1>7 DEF Types, Known, clients, history
<1>. QED BY <1>4, <1>8, <1>9, <1>10 DEF Types

LEMMA LeaveTypes ==
    ASSUME Types, NEW p \in Procs, Leave(p)
    PROVE  Types'
<1>1. /\ pthreads' = pthreads \ {p} /\ todo' = [todo EXCEPT ![p] = local_ts]
      /\ held' = [held EXCEPT ![p] = [t \in Spaces |-> 0]] /\ job[Watcher].pc = "idle"
      /\ UNCHANGED <<local_ts, refs, killlock, stored, call, job, program, born, missed, skipped>>
    BY DEF Leave, Watching, history
<1>2. local_ts \subseteq Spaces
    BY DEF Types, TypeOK
<1>3. TypeOK'
    BY <1>1, <1>2 DEF Types, TypeOK
<1>4. Known'
    BY <1>1 DEF Types, TypeOK, Known
<1>5. Roles'
    BY <1>1 DEF Types, Roles, Role, Holding
<1>. QED BY <1>3, <1>4, <1>5 DEF Types

\* The watcher goes on to another tuplespace.
Visits(p, t) ==
    /\ job[Watcher].pc = "idle" /\ t \in todo[p] /\ todo' = [todo EXCEPT ![p] = @ \ {t}]
    /\ \/ t \notin local_ts /\ UNCHANGED job
       \/ /\ t \in local_ts
          /\ \E j : /\ Becomes(Watcher, j) /\ j.pc = "lookup" /\ j.ts = t /\ j.ref = p /\ j.every
    /\ UNCHANGED <<server, clients, history>>

\* Only for processes that have left there is something to do.
Departed == \A p \in pthreads : todo[p] = {}

LEMMA RemoveProcessTypes ==
    ASSUME Types, Departed, NEW p \in Procs, NEW t \in Spaces, RemoveProcess(p, t)
    PROVE  Types' /\ Visits(p, t)
<1>1. p \in Owners /\ Watcher \in Agents /\ Watcher \notin Procs \cup Threads \cup Spaces
      /\ p \notin pthreads
    BY ReferencesAssumption DEF Agents, Owners, Departed, RemoveProcess
<1>2. PICK j : j = Removal(t, p, TRUE)
    OBVIOUS
<1>3. j \in Jobs /\ j.pc = "lookup" /\ j.ts = t /\ j.ref = p /\ j.every
    <2>1. j.pc = "lookup" /\ j.ts = t /\ j.ref = p /\ j.every
        BY <1>2 DEF Removal
    <2>2. j \in Jobs
        BY <1>1, <1>2, JobForms
    <2>. QED BY <2>1, <2>2
<1>4. IF t \in local_ts THEN Becomes(Watcher, j) ELSE UNCHANGED job
    BY <1>2, <1>3 DEF RemoveProcess, Becomes
<1>5. Visits(p, t)
    BY <1>3, <1>4 DEF Visits, RemoveProcess, At
<1>6. /\ UNCHANGED <<server, clients, history>> /\ todo' = [todo EXCEPT ![p] = @ \ {t}]
    BY <1>5 DEF Visits
<1>7. job' \in [Agents -> Jobs] /\ Roles'
    <2>1. CASE Becomes(Watcher, j)
        BY <1>1, <1>3, <1>6, <2>1, NewJob DEF server
    <2>2. CASE UNCHANGED job
        BY <1>6, <2>2 DEF Types, TypeOK, Roles, Role, server
    <2>. QED BY <1>4, <2>1, <2>2
<1>8. TypeOK'
    BY <1>6, <1>7 DEF Types, TypeOK, server, clients, history
<1>9. Known'
    BY <1>6 DEF Types, Known, server, clients, history
<1>. QED BY <1>5, <1>7, <1>8, <1>9 DEF Types

(***************************************************************************)
(* The killlock.                                                           *)
(***************************************************************************)
Pending(t) == {w \in Threads : job[w].pc \in Holding /\ job[w].ts = t}
Sums == \A t \in local_ts : killlock[t] + Cardinality(Pending(t)) >= 1

\* The threads at work on a tuplespace are finitely many, and one more or one
\* less changes their number by one.
LEMMA Counting ==
    ASSUME NEW S, IsFiniteSet(S), NEW w
    PROVE  /\ Cardinality(S) \in Nat
           /\ w \notin S => Cardinality(S \cup {w}) = Cardinality(S) + 1
           /\ w \in S => Cardinality(S \ {w}) = Cardinality(S) - 1
BY FS_CardinalityType, FS_AddElement, FS_RemoveElement

LEMMA PendingFinite ==
    \A t : /\ IsFiniteSet(Pending(t)) /\ Cardinality(Pending(t)) \in Nat
           /\ IsFiniteSet(Pending(t)') /\ Cardinality(Pending(t)') \in Nat
<1>1. \A S \in SUBSET Threads : IsFiniteSet(S) /\ Cardinality(S) \in Nat
    BY FS_Subset, FS_CardinalityType, ReferencesAssumption
<1>. QED BY <1>1 DEF Pending

\* A step keeps the sums when no thread gets or ends a removal, and a killlock
\* stays as it is, is released, or is new.
LEMMA Untouched ==
    ASSUME Types, Types', Sums, \A t \in Spaces : Pending(t)' = Pending(t),
           \A t \in local_ts' : \/ t \in local_ts /\ killlock'[t] >= killlock[t]
                                \/ killlock'[t] = 1
    PROVE  Sums'
<1> SUFFICES ASSUME NEW t \in local_ts'
             PROVE  killlock'[t] + Cardinality(Pending(t)') >= 1
    BY DEF Sums
<1>1. Cardinality(Pending(t)) \in Nat /\ Cardinality(Pending(t)') \in Nat
    BY PendingFinite
<1>2. t \in Spaces /\ killlock'[t] \in Nat /\ Pending(t)' = Pending(t)
    BY DEF Types, TypeOK
<1>3. CASE t \in local_ts /\ killlock'[t] >= killlock[t]
    <2>1. killlock[t] \in Nat /\ killlock[t] + Cardinality(Pending(t)) >= 1
        BY <1>2, <1>3 DEF Types, TypeOK, Sums
    <2>. QED BY <2>1, <1>1, <1>2, <1>3
<1>4. CASE killlock'[t] = 1
    BY <1>4, <1>1
<1>. QED BY <1>3, <1>4

LEMMA SumsKept ==
    ASSUME Types, Types', Sums, UNCHANGED killlock, local_ts' \subseteq local_ts,
           \A t \in Spaces : Pending(t)' = Pending(t)
    PROVE  Sums'
<1>1. \A t \in local_ts' : t \in local_ts /\ killlock'[t] >= killlock[t]
    BY DEF Types, TypeOK
<1>. QED BY <1>1, Untouched

\* What others than threads do, and what a thread does after it has released,
\* is of no account.
LEMMA JobStep ==
    ASSUME Types, NEW a \in Agents, NEW j, Becomes(a, j)
    PROVE  /\ job'[a] = j /\ job[a] \in Jobs
           /\ \A b \in Agents \ {a} : job'[b] = job[b]
           /\ \A b \in Threads : b # a => job'[b] = job[b]
BY DEF Becomes, Types, TypeOK, Agents

LEMMA PendingKept ==
    ASSUME Types, NEW a \in Agents, NEW j, Becomes(a, j),
           \/ a \notin Threads
           \/ job[a].pc \notin Holding /\ j.pc \notin Holding
           \/ job[a].pc \in Holding /\ j.pc \in Holding /\ j.ts = job[a].ts
    PROVE  \A t \in Spaces : Pending(t)' = Pending(t)
BY JobStep DEF Pending

LEMMA PendingSame == UNCHANGED job => \A t \in Spaces : Pending(t)' = Pending(t)
BY DEF Pending

\* The thread that delete_reference starts has the killlock it acquired.
LEMMA FreesSums ==
    ASSUME Types, Types', Sums, NEW p \in Procs, NEW t, Frees(p, t)
    PROVE  Sums'
<1>1. t \in Spaces /\ UNCHANGED local_ts
    BY DEF Frees
<1>2. CASE UNCHANGED <<killlock, job>>
    BY <1>1, <1>2, PendingSame, SumsKept
<1>3. ASSUME NEW w \in Threads, job[w].pc = "idle", job' = [job EXCEPT ![w] = Removal(t, p, FALSE)],
             killlock[t] > 0, killlock' = [killlock EXCEPT ![t] = @ - 1]
      PROVE  Sums'
    <2>1. PICK j : j = Removal(t, p, FALSE)
        OBVIOUS
    <2>2. j.pc \in Holding /\ j.ts = t
        BY <2>1 DEF Removal, Holding
    <2>3. job'[w] = j /\ \A v \in Threads \ {w} : job'[v] = job[v]
        BY <1>3, <2>1 DEF Types, TypeOK, Agents
    <2>4. /\ w \notin Pending(t) /\ Pending(t)' = Pending(t) \cup {w}
          /\ \A u \in Spaces \ {t} : Pending(u)' = Pending(u)
        BY <1>3, <2>2, <2>3 DEF Pending, Holding
    <2> SUFFICES ASSUME NEW u \in local_ts'
                 PROVE  killlock'[u] + Cardinality(Pending(u)') >= 1
        BY DEF Sums
    <2>5. /\ u \in local_ts /\ u \in Spaces /\ killlock[u] \in Nat
          /\ killlock[u] + Cardinality(Pending(u)) >= 1
        BY <1>1 DEF Types, TypeOK, Sums
    <2>6. Cardinality(Pending(u)) \in Nat
        BY PendingFinite
    <2>7. CASE u = t
        <3>1. Cardinality(Pending(t)') = Cardinality(Pending(t)) + 1
            BY <2>4, Counting, PendingFinite
        <3>2. killlock'[t] = killlock[t] - 1
            BY <1>1, <1>3 DEF Types, TypeOK
        <3>. QED BY <2>5, <2>6, <2>7, <3>1, <3>2
    <2>8. CASE u # t
        <3>1. killlock'[u] = killlock[u] /\ Pending(u)' = Pending(u)
            BY <1>3, <2>4, <2>5, <2>8 DEF Types, TypeOK
        <3>. QED BY <2>5, <3>1
    <2>. QED BY <2>7, <2>8
<1>. QED BY <1>2, <1>3 DEF Frees

\* The end of a removal takes its thread from those that have yet to release.
LEMMA Released ==
    ASSUME Types, NEW a \in Agents, NEW j, Becomes(a, j), j.pc \notin Holding
    PROVE  \A u \in Spaces : /\ u # job[a].ts => Pending(u)' = Pending(u)
                             /\ Cardinality(Pending(u)') >= Cardinality(Pending(u)) - 1
<1>1. ASSUME NEW u \in Spaces
      PROVE  /\ u # job[a].ts => Pending(u)' = Pending(u)
             /\ Pending(u)' = Pending(u) \/ (a \in Pending(u) /\ Pending(u)' = Pending(u) \ {a})
    BY JobStep DEF Pending
<1>2. ASSUME NEW u \in Spaces
      PROVE  Cardinality(Pending(u)') >= Cardinality(Pending(u)) - 1
    <2>1. Cardinality(Pending(u)) \in Nat
        BY PendingFinite
    <2>2. CASE Pending(u)' = Pending(u)
        BY <2>1, <2>2
    <2>3. CASE a \in Pending(u) /\ Pending(u)' = Pending(u) \ {a}
        <3>1. Cardinality(Pending(u)') = Cardinality(Pending(u)) - 1
            BY <2>3, Counting, PendingFinite
        <3>. QED BY <2>1, <3>1
    <2>. QED BY <1>1, <2>2, <2>3
<1>. QED BY <1>1, <1>2

\* A removal whose tuplespace is gone is over, and nobody waits for it there.
LEMMA LookupSums ==
    ASSUME Types, Types', Sums, NEW a \in Agents, Lookup(a)
    PROVE  Sums'
<1>1. UNCHANGED <<local_ts, killlock>> /\ job[a].pc = "lookup"
    BY LookupShape DEF server
<1>2. CASE \E j : Becomes(a, j) /\ j.pc = "remove" /\ j.ts = job[a].ts
    BY <1>1, <1>2, PendingKept, SumsKept DEF Holding
<1>3. CASE job[a].ts \notin local_ts /\ Becomes(a, NoJob)
    <2>1. \A u \in local_ts : Pending(u)' = Pending(u)
        BY <1>3, Released, JobForms DEF Holding, Types, TypeOK
    <2>. QED BY <1>1, <2>1 DEF Sums
<1>. QED BY <1>2, <1>3, LookupShape

\* removereference releases, whoever called it.
LEMMA RemoveReferenceSums ==
    ASSUME Types, Types', Sums, NEW a \in Agents, RemoveReference(a)
    PROVE  Sums'
<1>1. PICK t, o, j : Removes(a, t, o, j)
    BY RemoveReferenceShape
<1>2. /\ t \in Spaces /\ t = job[a].ts /\ UNCHANGED local_ts
      /\ killlock' = [killlock EXCEPT ![t] = @ + 1] /\ Becomes(a, j) /\ j.pc \notin Holding
    BY <1>1 DEF Removes, Holding
<1>3. \A u \in Spaces : /\ u # t => Pending(u)' = Pending(u)
                        /\ Cardinality(Pending(u)') >= Cardinality(Pending(u)) - 1
    BY <1>2, Released
<1> SUFFICES ASSUME NEW u \in local_ts'
             PROVE  killlock'[u] + Cardinality(Pending(u)') >= 1
    BY DEF Sums
<1>4. /\ u \in Spaces /\ killlock[u] \in Nat /\ killlock[u] + Cardinality(Pending(u)) >= 1
    BY <1>2 DEF Types, TypeOK, Sums
<1>5. Cardinality(Pending(u)) \in Nat /\ Cardinality(Pending(u)') \in Nat
    BY PendingFinite
<1>6. CASE u = t
    <2>1. killlock'[u] = killlock[u] + 1
        BY <1>2, <1>4, <1>6 DEF Types, TypeOK
    <2>. QED BY <2>1, <1>3, <1>4, <1>5
<1>7. CASE u # t
    <2>1. killlock'[u] = killlock[u] /\ Pending(u)' = Pending(u)
        BY <1>2, <1>3, <1>4, <1>7 DEF Types, TypeOK
    <2>. QED BY <2>1, <1>4
<1>. QED BY <1>6, <1>7

(***************************************************************************)
(* The references of a process that has left.                              *)
(***************************************************************************)
Left == \A p \in Procs \ pthreads : call[p].at = "idle"
OwnCopies == \A p \in Procs :
    call[p].at \in {"test", "add"} => (call[p].op = "copy" => call[p].ref = p)

\* Where a process that has left is an owner the watcher has still to go, or is.
SeenTo(p, t) ==
    \/ t \in todo[p]
    \/ job[Watcher].pc \in Holding /\ job[Watcher].ts = t /\ job[Watcher].ref = p
Dead == \A p \in Procs \ pthreads, t \in local_ts : p \in ToSet(refs[t]) => SeenTo(p, t)

Passed == Left /\ OwnCopies /\ Dead

\* Nothing is taken from the watcher, and who has left is nowhere a new owner.
LEMMA DeadKept ==
    ASSUME Dead, UNCHANGED pthreads,
           \A p \in Procs \ pthreads, t \in local_ts' :
              p \in ToSet(refs[t])' => t \in local_ts /\ p \in ToSet(refs[t]),
           \A p \in Procs \ pthreads, t \in local_ts' :
              SeenTo(p, t) /\ p \in ToSet(refs[t])' => SeenTo(p, t)'
    PROVE  Dead'
BY DEF Dead

LEMMA SameWatcher ==
    ASSUME Types, UNCHANGED todo,
           \/ UNCHANGED job
           \/ \E a \in Agents : \E j : Becomes(a, j) /\ (a # Watcher \/ job[a].pc \notin Holding)
    PROVE  \A p, t : SeenTo(p, t) => SeenTo(p, t)'
<1>1. Watcher \in Agents
    BY DEF Agents
<1>. QED BY <1>1, JobStep DEF SeenTo

\* The calls of the living.
LEMMA CallsKept ==
    ASSUME Types, Left, OwnCopies, UNCHANGED pthreads, NEW p \in Procs, NEW c \in Calling,
           call' = [call EXCEPT ![p] = c], p \in pthreads \/ c.at = "idle",
           c.at \in {"test", "add"} => (c.op = "copy" => c.ref = p)
    PROVE  Left' /\ OwnCopies'
<1>1. call'[p] = c /\ \A q \in Procs \ {p} : call'[q] = call[q]
    BY DEF Types, TypeOK
<1>. QED BY <1>1 DEF Left, OwnCopies

LEMMA CreatePassed ==
    ASSUME Types, Passed, NEW p \in Procs, NEW t \in Spaces, Create(p, t)
    PROVE  Passed'
<1>1. /\ refs' = [refs EXCEPT ![t] = <<p>>] /\ local_ts' = local_ts \cup {t} /\ p \in pthreads
      /\ UNCHANGED <<pthreads, call, job, todo>>
    BY DEF Create, Idle
<1>2. ToSet(<<p>>) = {p}
    BY DEF ToSet
<1>3. ASSUME NEW q \in Procs \ pthreads, NEW u \in local_ts', q \in ToSet(refs[u])'
      PROVE  u \in local_ts /\ q \in ToSet(refs[u])
    BY <1>1, <1>2, <1>3 DEF Types, TypeOK
<1>4. \A q, u : SeenTo(q, u) => SeenTo(q, u)'
    BY <1>1 DEF SeenTo
<1>5. Dead'
    BY <1>1, <1>3, <1>4, DeadKept DEF Passed
<1>. QED BY <1>1, <1>5 DEF Passed, Left, OwnCopies

\* A step of a client, or of a handler, that makes no owner.
LEMMA CallPassed ==
    ASSUME Types, Passed, UNCHANGED <<pthreads, todo, job, refs>>, local_ts' \subseteq local_ts,
           NEW p \in Procs, NEW c \in Calling,
           call' = [call EXCEPT ![p] = c], p \in pthreads \/ c.at = "idle",
           c.at \in {"test", "add"} => (c.op = "copy" => c.ref = p)
    PROVE  Passed'
<1>1. Left' /\ OwnCopies'
    BY CallsKept DEF Passed
<1>2. Dead'
    BY SameWatcher, DeadKept DEF Passed
<1>. QED BY <1>1, <1>2 DEF Passed

LEMMA ClientPassed ==
    ASSUME Types, Passed, NEW p \in Procs,
           \/ \E t \in Spaces : Copy(p, t) \/ Delete(p, t)
           \/ \E s \in Stores, t \in Spaces : Out(p, s, t)
           \/ \E s \in Stores : In(p, s)
    PROVE  Passed'
<1>1. ASSUME NEW c \in Calling, Calls(p, c), c.at \in {"test", "add"} => (c.op = "copy" => c.ref = p)
      PROVE  Passed'
    BY <1>1, CallPassed DEF Calls, Idle, server
<1>2. ASSUME NEW t \in Spaces, Copy(p, t) \/ Delete(p, t)
      PROVE  Passed'
    BY <1>1, <1>2, CallForms DEF Copy, Delete
<1>3. ASSUME NEW s \in Stores, NEW t \in Spaces, Out(p, s, t)
      PROVE  Passed'
    BY <1>1, <1>3, CallForms DEF Out
<1>4. ASSUME NEW s \in Stores, In(p, s)
      PROVE  Passed'
    BY <1>1, <1>4, CallForms DEF In
<1>. QED BY <1>2, <1>3, <1>4

LEMMA HandlerPassed ==
    ASSUME Types, Passed, NEW p \in Procs, PutTuple(p) \/ Match(p) \/ Answer(p)
    PROVE  Passed'
<1>1. p \in pthreads
    <2>1. call[p].at # "idle"
        BY DEF PutTuple, Match, Answer
    <2>. QED BY <2>1 DEF Passed, Left
<1>2. CASE PutTuple(p) \/ Answer(p)
    BY <1>1, <1>2, CallPassed, CallForms DEF PutTuple, Answer, server
<1>3. CASE Match(p)
    <2>1. PICK s, t : Takes(p, s, t)
        BY <1>3, MatchShape
    <2>2. PICK c : c = [at |-> "own", ts |-> t, from |-> s]
        OBVIOUS
    <2>3. c \in Calling /\ c.at = "own"
        BY <2>1, <2>2, CallForms DEF Takes
    <2>. QED BY <1>1, <2>1, <2>2, <2>3, CallPassed DEF Takes
<1>. QED BY <1>2, <1>3

LEMMA TestTuplespacePassed ==
    ASSUME Types, Passed, NEW p \in Procs, TestTuplespace(p)
    PROVE  Passed'
<1>1. PICK t, d : Tests(p, t, d)
    BY TestTuplespaceShape
<1>2. p \in pthreads
    BY <1>1 DEF Tests, Passed, Left
<1>3. Left' /\ OwnCopies'
    <2>1. d.op = "copy" => d.ref = p
        BY <1>1 DEF Tests, Passed, OwnCopies
    <2>. QED BY <1>1, <1>2, <2>1, CallsKept DEF Tests, Passed
<1>4. ASSUME NEW q \in Procs \ pthreads, NEW u \in local_ts', q \in ToSet(refs[u])'
      PROVE  u \in local_ts /\ q \in ToSet(refs[u])
    BY <1>1, <1>4, TimesEmpty DEF Tests, Types, TypeOK
<1>5. Dead'
    BY <1>1, <1>4, SameWatcher, DeadKept DEF Tests, Passed
<1>. QED BY <1>3, <1>5 DEF Passed

\* An owner that is added is a living process, or a tuplespace.
LEMMA Added ==
    ASSUME Types, NEW t \in Spaces, NEW o \in Owners, o \notin Procs \ pthreads,
           refs' = [refs EXCEPT ![t] = Append(@, o)]
    PROVE  \A q \in Procs \ pthreads, u \in Spaces : q \in ToSet(refs[u])' => q \in ToSet(refs[u])
<1>1. refs \in [Spaces -> Seq(Owners)]
    BY DEF Types, TypeOK
<1>2. refs[t] \in Seq(Owners)
    BY <1>1
<1>3. ToSet(Append(refs[t], o)) = ToSet(refs[t]) \cup {o}
    BY <1>2, ToSetAppend
<1>. QED BY <1>1, <1>3

LEMMA AddReferencePassed ==
    ASSUME Types, Passed, NEW p \in Procs, AddReference(p)
    PROVE  Passed'
<1>1. PICK t, o, c : Adds(p, t, o, c)
    BY AddReferenceShape
<1>2. p \in pthreads
    BY <1>1 DEF Adds, Passed, Left
<1>3. Left' /\ OwnCopies'
    <2>1. c \in Calling /\ c.at \notin {"test", "add"}
        BY <1>1, CallForms DEF Adds
    <2>. QED BY <1>1, <1>2, <2>1, CallsKept DEF Adds, Passed
<1>4. \A q \in Procs \ pthreads, u \in Spaces : q \in ToSet(refs[u])' => q \in ToSet(refs[u])
    <2>1. CASE UNCHANGED refs
        BY <2>1
    <2>2. CASE refs' = [refs EXCEPT ![t] = Append(@, o)] /\ o \in Procs /\ call[p].op = "copy"
        <3>1. o = p
            BY <1>1, <2>2 DEF Adds, Passed, OwnCopies
        <3>2. o \in Owners /\ o \notin Procs \ pthreads /\ t \in Spaces
            BY <1>1, <1>2, <3>1 DEF Owners, Adds
        <3>. QED BY <2>2, <3>2, Added
    <2>3. CASE refs' = [refs EXCEPT ![t] = Append(@, o)] /\ o \in Stores
        <3>1. o \in Owners /\ o \notin Procs \ pthreads /\ t \in Spaces
            BY <1>1, <2>3, ReferencesAssumption DEF Owners, Adds
        <3>. QED BY <2>3, <3>1, Added
    <2>. QED BY <1>1, <2>1, <2>2, <2>3 DEF Adds
<1>5. Dead'
    <2>1. UNCHANGED <<local_ts, pthreads, todo, job>>
        BY <1>1 DEF Adds
    <2>. QED BY <1>4, <2>1, SameWatcher, DeadKept, TypeFacts DEF Passed, Types
<1>. QED BY <1>3, <1>5 DEF Passed

LEMMA ChangeOwnerPassed ==
    ASSUME Types, Passed, NEW p \in Procs, ChangeOwner(p)
    PROVE  Passed'
<1>1. PICK t, s, c : Changes(p, t, s, c)
    BY ChangeOwnerShape
<1>2. p \in pthreads
    BY <1>1 DEF Changes, Passed, Left
<1>3. Left' /\ OwnCopies'
    <2>1. c \in Calling /\ c.at \notin {"test", "add"}
        BY <1>1 DEF Changes
    <2>. QED BY <1>1, <1>2, <2>1, CallsKept DEF Changes, Passed
<1>4. \A q \in Procs \ pthreads, u \in Spaces : q \in ToSet(refs[u])' => q \in ToSet(refs[u])
    <2>1. CASE UNCHANGED refs
        BY <2>1
    <2>2. CASE refs' = [refs EXCEPT ![t] = Append(@, p)]
        BY <1>1, <1>2, <2>2, Added DEF Owners, Changes
    <2>. QED BY <1>1, <2>1, <2>2 DEF Changes
<1>5. \A q, u : SeenTo(q, u) => SeenTo(q, u)'
    <2>1. UNCHANGED todo
        BY <1>1 DEF Changes
    <2>2. CASE UNCHANGED job
        BY <2>1, <2>2, SameWatcher
    <2>3. CASE job' = [job EXCEPT ![p] = Removal(t, s, FALSE)]
        <3>1. p # Watcher /\ p \in Agents /\ Watcher \in Agents
            BY Apart DEF Agents
        <3>2. job'[Watcher] = job[Watcher]
            BY <2>3, <3>1 DEF Types, TypeOK
        <3>. QED BY <2>1, <3>2 DEF SeenTo
    <2>. QED BY <1>1, <2>2, <2>3 DEF Changes
<1>6. Dead'
    <2>1. UNCHANGED <<local_ts, pthreads>>
        BY <1>1 DEF Changes
    <2>. QED BY <1>4, <1>5, <2>1, DeadKept, TypeFacts DEF Passed, Types
<1>. QED BY <1>3, <1>6 DEF Passed

LEMMA DeleteReferencePassed ==
    ASSUME Types, Passed, NEW p \in Procs, DeleteReference(p)
    PROVE  Passed'
<1>1. PICK t : Frees(p, t)
    BY DeleteReferenceShape
<1>2. p \in pthreads
    BY <1>1 DEF Frees, Passed, Left
<1>3. Left' /\ OwnCopies'
    BY <1>1, <1>2, CallsKept, CallForms DEF Frees, Passed
<1>4. \A q, u : SeenTo(q, u) => SeenTo(q, u)'
    <2>1. UNCHANGED todo
        BY <1>1 DEF Frees
    <2>2. CASE UNCHANGED job
        BY <2>1, <2>2, SameWatcher
    <2>3. ASSUME NEW w \in Threads, job' = [job EXCEPT ![w] = Removal(t, p, FALSE)]
          PROVE  \A q, u : SeenTo(q, u) => SeenTo(q, u)'
        <3>1. w # Watcher /\ w \in Agents /\ Watcher \in Agents
            BY Apart DEF Agents
        <3>2. job'[Watcher] = job[Watcher]
            BY <2>3, <3>1 DEF Types, TypeOK
        <3>. QED BY <2>1, <3>2 DEF SeenTo
    <2>. QED BY <1>1, <2>2, <2>3 DEF Frees
<1>5. Dead'
    BY <1>1, <1>4, DeadKept DEF Frees, Passed
<1>. QED BY <1>3, <1>5 DEF Passed

\* A step of a removal changes no call.
LEMMA JobPassed ==
    ASSUME Types, Passed, UNCHANGED <<pthreads, call>>, local_ts' \subseteq local_ts,
           \A u \in local_ts' : ToSet(refs[u])' \subseteq ToSet(refs[u]),
           \A q \in Procs \ pthreads, u \in local_ts' :
              SeenTo(q, u) /\ q \in ToSet(refs[u])' => SeenTo(q, u)'
    PROVE  Passed'
<1>1. Left' /\ OwnCopies'
    BY DEF Passed, Left, OwnCopies
<1>2. Dead'
    BY DeadKept DEF Passed
<1>. QED BY <1>1, <1>2 DEF Passed

LEMMA LookupPassed ==
    ASSUME Types, Passed, NEW a \in Agents, Lookup(a)
    PROVE  Passed'
<1>1. UNCHANGED <<local_ts, refs, pthreads, call, todo>> /\ job[a].pc = "lookup"
    BY LookupShape DEF server, clients
<1>2. ASSUME NEW q \in Procs \ pthreads, NEW u \in local_ts', SeenTo(q, u)
      PROVE  SeenTo(q, u)'
    <2>1. CASE a # Watcher
        <3>1. \E j : Becomes(a, j)
            BY LookupShape
        <3>. QED BY <1>1, <1>2, <2>1, <3>1, SameWatcher
    <2>2. CASE a = Watcher /\ job[a].ts \notin local_ts
        BY <1>1, <1>2, <2>2 DEF SeenTo
    <2>3. CASE a = Watcher /\ job[a].ts \in local_ts
        <3>1. PICK j : /\ Becomes(a, j) /\ j.pc = "remove" /\ j.ts = job[a].ts
                       /\ j.ref = job[a].ref
            BY <2>3, LookupShape
        <3>2. job'[Watcher] = j
            BY <2>3, <3>1, JobStep
        <3>. QED BY <1>1, <1>2, <2>3, <3>1, <3>2 DEF SeenTo, Holding
    <2>. QED BY <2>1, <2>2, <2>3
<1>. QED BY <1>1, <1>2, JobPassed

LEMMA RemoveReferencePassed ==
    ASSUME Types, Passed, NEW a \in Agents, RemoveReference(a)
    PROVE  Passed'
<1>1. PICK t, o, j : Removes(a, t, o, j)
    BY RemoveReferenceShape
<1>2. a # Watcher
    <2>1. Role(a, job[a])
        BY DEF Types, Roles
    <2>. QED BY <1>1, <2>1 DEF Removes, Role, Holding
<1>3. UNCHANGED <<local_ts, pthreads, call, todo>> /\ Becomes(a, j) /\ t \in Spaces
    BY <1>1 DEF Removes, clients
<1>4. \A q, u : SeenTo(q, u) => SeenTo(q, u)'
    BY <1>2, <1>3, SameWatcher
<1>5. \A u \in Spaces : ToSet(refs[u])' \subseteq ToSet(refs[u])
    <2>1. refs \in [Spaces -> Seq(Owners)]
        BY DEF Types, TypeOK
    <2>2. CASE o \in ToSet(refs[t]) /\ refs' = [refs EXCEPT ![t] = RemoveFirst(@, o)]
        <3>1. ToSet(RemoveFirst(refs[t], o)) \subseteq ToSet(refs[t])
            BY <1>3, <2>1, <2>2, ToSetRemoveFirst
        <3>. QED BY <1>3, <2>1, <2>2, <3>1
    <2>. QED BY <1>1, <2>2 DEF Removes
<1>6. local_ts' \subseteq Spaces
    BY <1>3, TypeFacts DEF Types
<1>. QED BY <1>3, <1>4, <1>5, <1>6, JobPassed

\* The watcher removes all of them.
LEMMA RemoveAnyReferencesPassed ==
    ASSUME Types, Passed, NEW a \in Agents, RemoveAnyReferences(a)
    PROVE  Passed'
<1>1. PICK t, o : t = job[Watcher].ts /\ o = job[Watcher].ref
    OBVIOUS
<1>2. /\ a = Watcher /\ t \in Spaces /\ job[Watcher].pc = "remove"
      /\ refs' = [refs EXCEPT ![t] = Without(@, o)]
      /\ UNCHANGED <<local_ts, pthreads, call, todo>>
    BY <1>1, RemoveAnyReferencesShape DEF clients
<1>3. refs \in [Spaces -> Seq(Owners)]
    BY DEF Types, TypeOK
<1>4. ToSet(Without(refs[t], o)) = ToSet(refs[t]) \ {o}
    BY <1>2, <1>3, ToSetWithout
<1>5. \A u \in local_ts' : ToSet(refs[u])' \subseteq ToSet(refs[u])
    BY <1>2, <1>3, <1>4, TypeFacts DEF Types
<1>6. ASSUME NEW q \in Procs \ pthreads, NEW u \in local_ts', SeenTo(q, u), q \in ToSet(refs[u])'
      PROVE  SeenTo(q, u)'
    <2>1. ~(u = t /\ q = o)
        BY <1>2, <1>3, <1>4, <1>6
    <2>. QED BY <1>1, <1>2, <1>6, <2>1 DEF SeenTo
<1>. QED BY <1>2, <1>5, <1>6, JobPassed

LEMMA SearchPassed ==
    ASSUME Types, Passed, NEW a \in Agents, NEW j, Searches(a, j)
    PROVE  Passed'
<1>1. /\ Becomes(a, j) /\ job[a].pc \notin Holding /\ local_ts' \subseteq local_ts
      /\ UNCHANGED <<pthreads, call, todo>>
    BY DEF Searches, Clears, Drops, clients, Holding
<1>2. \A q, u : SeenTo(q, u) => SeenTo(q, u)'
    BY <1>1, SameWatcher
<1>3. \A u \in Spaces : ToSet(refs[u])' \subseteq ToSet(refs[u])
    <2>1. CASE UNCHANGED refs
        BY <2>1
    <2>2. CASE refs' = [refs EXCEPT ![job[a].ts] = <<>>]
        BY <2>2, TimesEmpty DEF Types, TypeOK
    <2>. QED BY <2>1, <2>2 DEF Searches, Clears, Drops
<1>. QED BY <1>1, <1>2, <1>3, JobPassed, TypeFacts DEF Types

LEMMA DestroyPassed ==
    ASSUME Types, Passed, NEW s \in Spaces, NEW t \in Spaces, Destroy(s, t)
    PROVE  Passed'
<1>1. PICK j : Destroys(s, t, j)
    BY DestroyTypes
<1>2. UNCHANGED <<local_ts, refs, pthreads, call, todo>> /\ Becomes(s, j) /\ s \in Agents /\ s # Watcher
    BY <1>1, Apart DEF Destroys, clients
<1>3. \A q, u : SeenTo(q, u) => SeenTo(q, u)'
    BY <1>2, SameWatcher
<1>. QED BY <1>2, <1>3, JobPassed

LEMMA LeavePassed ==
    ASSUME Types, Passed, NEW p \in Procs, Leave(p)
    PROVE  Passed' 
<1>1. /\ pthreads' = pthreads \ {p} /\ todo' = [todo EXCEPT ![p] = local_ts]
      /\ call[p].at = "idle" /\ todo \in [Procs -> SUBSET Spaces]
      /\ UNCHANGED <<local_ts, refs, call, job>>
    BY DEF Leave, Idle, Types, TypeOK
<1>2. Left' /\ OwnCopies'
    BY <1>1 DEF Passed, Left, OwnCopies
<1>3. Dead'
    BY <1>1 DEF Passed, Dead, SeenTo
<1>. QED BY <1>2, <1>3 DEF Passed

LEMMA RemoveProcessPassed ==
    ASSUME Types, Passed, NEW p \in Procs, NEW t \in Spaces, Visits(p, t)
    PROVE  Passed'
<1>1. UNCHANGED <<local_ts, refs, pthreads, call>>
    BY DEF Visits, server, clients
<1>2. ASSUME NEW q \in Procs \ pthreads, NEW u \in local_ts', SeenTo(q, u)
      PROVE  SeenTo(q, u)'
    <2>1. u \in todo[q] /\ todo \in [Procs -> SUBSET Spaces]
        BY <1>2 DEF SeenTo, Visits, Holding, Types, TypeOK
    <2>2. CASE q = p /\ u = t
        <3>1. PICK j : Becomes(Watcher, j) /\ j.pc = "lookup" /\ j.ts = t /\ j.ref = p
            BY <1>1, <2>2 DEF Visits
        <3>2. job'[Watcher] = j
            BY <3>1, JobStep DEF Agents
        <3>. QED BY <2>2, <3>1, <3>2 DEF SeenTo, Holding
    <2>3. CASE ~(q = p /\ u = t)
        BY <2>1, <2>3 DEF SeenTo, Visits
    <2>. QED BY <2>2, <2>3
<1>. QED BY <1>1, <1>2, JobPassed

(***************************************************************************)
(* The invariant and what follows from it.                                 *)
(***************************************************************************)
IInv == Types /\ Departed /\ Sums /\ Passed

LEMMA Initial == Init => IInv
<1> SUFFICES ASSUME Init PROVE IInv
    OBVIOUS
<1>1. <<>> \in Seq(Owners) /\ 1 \in Nat /\ 0 \in Nat
    OBVIOUS
<1>2. TypeOK
    BY <1>1, CallForms, JobForms DEF Init, TypeOK
<1>3. Known /\ Roles
    BY CallForms, JobForms DEF Init, Known, Roles, Role, Holding
<1>4. Departed /\ Sums
    BY DEF Init, Departed, Sums
<1>5. Passed
    BY CallForms DEF Init, Passed, Left, OwnCopies, Dead
<1>. QED BY <1>2, <1>3, <1>4, <1>5 DEF IInv, Types

\* Every action keeps the types.
LEMMA TypesKept ==
    ASSUME Types, Departed, [Next]_vars
    PROVE  Types'
<1>1. CASE UNCHANGED vars
    BY <1>1 DEF vars, server, clients, history, Types, TypeOK, Known, Roles, Role
<1>2. ASSUME NEW p \in Procs, NEW t \in Spaces, Create(p, t) \/ Copy(p, t) \/ Delete(p, t)
      PROVE  Types'
    BY <1>2, CreateTypes, ClientTypes
<1>3. ASSUME NEW p \in Procs, NEW s \in Stores, In(p, s) \/ \E t \in Spaces : Out(p, s, t)
      PROVE  Types'
    BY <1>3, ClientTypes
<1>4. ASSUME NEW p \in Procs, Handle(p) \/ Leave(p)
      PROVE  Types'
    BY <1>4, TestTuplespaceTypes, AddReferenceTypes, PutTupleTypes, MatchTypes, ChangeOwnerTypes,
       AnswerTypes, DeleteReferenceTypes, LeaveTypes DEF Handle
<1>5. ASSUME NEW a \in Agents, RemovalStep(a)
      PROVE  Types'
    BY <1>5, LookupTypes, RemoveReferenceTypes, RemoveAnyReferencesTypes, ScanShape, WalkShape,
       GarbageShape, SearchTypes DEF RemovalStep
<1>6. ASSUME NEW s \in Spaces, NEW t \in Spaces, Destroy(s, t)
      PROVE  Types'
    BY <1>6, DestroyTypes
<1>7. ASSUME NEW p \in Procs, NEW t \in Spaces, RemoveProcess(p, t)
      PROVE  Types'
    BY <1>7, RemoveProcessTypes
<1>. QED BY <1>1, <1>2, <1>3, <1>4, <1>5, <1>6, <1>7 DEF Next

LEMMA DepartedKept ==
    ASSUME Types, Departed, [Next]_vars
    PROVE  Departed'
<1>1. CASE UNCHANGED <<pthreads, todo>>
    BY <1>1 DEF Departed
<1>2. ASSUME NEW p \in Procs, Leave(p)
      PROVE  Departed'
    BY <1>2 DEF Leave, Departed, Types, TypeOK
<1>3. ASSUME NEW p \in Procs, NEW t \in Spaces, RemoveProcess(p, t)
      PROVE  Departed'
    BY <1>3 DEF RemoveProcess, Departed, Types, TypeOK, server
<1>4. ASSUME NEW p \in Procs, NEW t \in Spaces, Create(p, t) \/ Copy(p, t) \/ Delete(p, t)
      PROVE  Departed'
    BY <1>1, <1>4 DEF Create, Copy, Delete, Calls, server
<1>5. ASSUME NEW p \in Procs, NEW s \in Stores, In(p, s) \/ \E t \in Spaces : Out(p, s, t)
      PROVE  Departed'
    BY <1>1, <1>5 DEF In, Out, Calls, server
<1>6. ASSUME NEW p \in Procs, Handle(p)
      PROVE  Departed'
    BY <1>1, <1>6 DEF Handle, TestTuplespace, AddReference, PutTuple, Match, ChangeOwner, Answer,
                DeleteReference, server
<1>7. ASSUME NEW a \in Agents, RemovalStep(a)
      PROVE  Departed'
    <2>1. CASE Search(a)
        BY <1>1, <2>1, ScanShape, WalkShape, GarbageShape DEF Search, Searches
    <2>. QED BY <1>1, <1>7, <2>1 DEF RemovalStep, Search, Lookup, RemoveReference,
                               RemoveAnyReferences, server
<1>8. ASSUME NEW s \in Spaces, NEW t \in Spaces, Destroy(s, t)
      PROVE  Departed'
    BY <1>1, <1>8 DEF Destroy
<1>9. CASE UNCHANGED vars
    BY <1>1, <1>9 DEF vars, server
<1>. QED BY <1>2, <1>3, <1>4, <1>5, <1>6, <1>7, <1>8, <1>9 DEF Next

LEMMA SumsStep ==
    ASSUME Types, Types', Departed, Sums, [Next]_vars
    PROVE  Sums'
<1>1. CASE UNCHANGED <<job, killlock, local_ts>>
    BY <1>1, PendingSame, SumsKept
<1>2. ASSUME NEW p \in Procs, NEW t \in Spaces, Create(p, t)
      PROVE  Sums'
    <2>1. /\ UNCHANGED job /\ local_ts' = local_ts \cup {t}
          /\ killlock' = [killlock EXCEPT ![t] = 1] /\ killlock \in [Spaces -> Nat]
        BY <1>2 DEF Create, Types, TypeOK
    <2>2. \A u \in local_ts' : (u \in local_ts /\ killlock'[u] >= killlock[u]) \/ killlock'[u] = 1
        BY <2>1, TypeFacts DEF Types
    <2>. QED BY <2>1, <2>2, PendingSame, Untouched
<1>3. ASSUME NEW p \in Procs, NEW t \in Spaces, Copy(p, t) \/ Delete(p, t)
      PROVE  UNCHANGED <<job, killlock, local_ts>>
    BY <1>3 DEF Copy, Delete, Calls, server
<1>4. ASSUME NEW p \in Procs, NEW s \in Stores, In(p, s) \/ \E t \in Spaces : Out(p, s, t)
      PROVE  UNCHANGED <<job, killlock, local_ts>>
    BY <1>4 DEF In, Out, Calls, server
<1>5. ASSUME NEW p \in Procs, AddReference(p) \/ PutTuple(p) \/ Match(p) \/ Answer(p) \/ Leave(p)
      PROVE  UNCHANGED <<job, killlock, local_ts>>
    BY <1>5 DEF AddReference, PutTuple, Match, Answer, Leave, server
<1>6. ASSUME NEW p \in Procs, TestTuplespace(p)
      PROVE  Sums'
    <2>1. PICK t, d : Tests(p, t, d)
        BY <1>6, TestTuplespaceShape
    <2>2. \A u \in local_ts' : (u \in local_ts /\ killlock'[u] >= killlock[u]) \/ killlock'[u] = 1
        BY <2>1 DEF Tests, Types, TypeOK
    <2>. QED BY <2>1, <2>2, PendingSame, Untouched DEF Tests
<1>7. ASSUME NEW p \in Procs, ChangeOwner(p)
      PROVE  Sums'
    <2>1. PICK t, s, c : Changes(p, t, s, c)
        BY <1>7, ChangeOwnerShape
    <2>2. p \in Agents \ Threads /\ UNCHANGED <<killlock, local_ts>>
        BY <2>1, Apart DEF Changes, Agents
    <2>3. \A w \in Threads : job'[w] = job[w]
        BY <2>1, <2>2 DEF Changes, Types, TypeOK, Agents
    <2>4. \A u \in Spaces : Pending(u)' = Pending(u)
        BY <2>3 DEF Pending
    <2>. QED BY <2>2, <2>4, SumsKept
<1>8. ASSUME NEW p \in Procs, DeleteReference(p)
      PROVE  Sums'
    BY <1>8, DeleteReferenceShape, FreesSums
<1>9. ASSUME NEW a \in Agents, RemoveAnyReferences(a)
      PROVE  Sums'
    <2>1. UNCHANGED <<killlock, local_ts>> /\ a \notin Threads /\ \E j : Becomes(a, j)
        BY <1>9, RemoveAnyReferencesShape, Apart
    <2>. QED BY <2>1, PendingKept, SumsKept
<1>10. ASSUME NEW a \in Agents, NEW j, Searches(a, j)
       PROVE  Sums'
    <2>1. /\ UNCHANGED killlock /\ local_ts' \subseteq local_ts /\ Becomes(a, j)
          /\ job[a].pc \notin Holding /\ j.pc \notin Holding
        BY <1>10 DEF Searches, Clears, Drops, Holding
    <2>. QED BY <2>1, PendingKept, SumsKept
<1>11. ASSUME NEW s \in Spaces, NEW t \in Spaces, Destroy(s, t)
       PROVE  Sums'
    <2>1. PICK j : Destroys(s, t, j)
        BY <1>11, DestroyTypes
    <2>2. UNCHANGED <<killlock, local_ts>> /\ s \in Agents \ Threads /\ Becomes(s, j)
        BY <2>1, Apart DEF Destroys
    <2>. QED BY <2>2, PendingKept, SumsKept
<1>12. ASSUME NEW p \in Procs, NEW t \in Spaces, RemoveProcess(p, t)
       PROVE  Sums'
    <2>1. UNCHANGED <<killlock, local_ts>> /\ Watcher \in Agents \ Threads
        BY <1>12, Apart DEF RemoveProcess, server, Agents
    <2>2. UNCHANGED job \/ \E j : Becomes(Watcher, j)
        BY <1>12, RemoveProcessTypes DEF Visits
    <2>. QED BY <2>1, <2>2, PendingKept, PendingSame, SumsKept
<1>13. ASSUME NEW p \in Procs, Handle(p)
       PROVE  Sums'
    BY <1>1, <1>5, <1>6, <1>7, <1>8, <1>13 DEF Handle
<1>14. ASSUME NEW a \in Agents, RemovalStep(a)
       PROVE  Sums'
    BY <1>9, <1>10, <1>14, LookupSums, RemoveReferenceSums, ScanShape, WalkShape, GarbageShape
       DEF RemovalStep
<1>15. CASE UNCHANGED vars
    BY <1>1, <1>15 DEF vars, server
<1>. QED BY <1>1, <1>2, <1>3, <1>4, <1>5, <1>11, <1>12, <1>13, <1>14, <1>15 DEF Next

LEMMA PassedStep ==
    ASSUME Types, Departed, Passed, [Next]_vars
    PROVE  Passed'
<1>1. ASSUME NEW p \in Procs, NEW t \in Spaces, Create(p, t) \/ Copy(p, t) \/ Delete(p, t)
      PROVE  Passed'
    BY <1>1, CreatePassed, ClientPassed
<1>2. ASSUME NEW p \in Procs, NEW s \in Stores, In(p, s) \/ \E t \in Spaces : Out(p, s, t)
      PROVE  Passed'
    BY <1>2, ClientPassed
<1>3. ASSUME NEW p \in Procs, Handle(p) \/ Leave(p)
      PROVE  Passed'
    BY <1>3, TestTuplespacePassed, AddReferencePassed, HandlerPassed, ChangeOwnerPassed,
       DeleteReferencePassed, LeavePassed DEF Handle
<1>4. ASSUME NEW a \in Agents, RemovalStep(a)
      PROVE  Passed'
    BY <1>4, LookupPassed, RemoveReferencePassed, RemoveAnyReferencesPassed, ScanShape, WalkShape,
       GarbageShape, SearchPassed DEF RemovalStep
<1>5. ASSUME NEW s \in Spaces, NEW t \in Spaces, Destroy(s, t)
      PROVE  Passed'
    BY <1>5, DestroyPassed
<1>6. ASSUME NEW p \in Procs, NEW t \in Spaces, RemoveProcess(p, t)
      PROVE  Passed'
    BY <1>6, RemoveProcessTypes, RemoveProcessPassed
<1>7. CASE UNCHANGED vars
    BY <1>7 DEF vars, server, clients, Passed, Left, OwnCopies, Dead, SeenTo
<1>. QED BY <1>1, <1>2, <1>3, <1>4, <1>5, <1>6, <1>7 DEF Next

\* Together the parts are inductive.
LEMMA Inductive == IInv /\ [Next]_vars => IInv'
BY TypesKept, DepartedKept, SumsStep, PassedStep DEF IInv

LEMMA Invariant == Spec => []IInv
BY Initial, Inductive, PTL DEF Spec

\* The types of the variables: a list of owners names processes and
\* tuplespaces, a removal is about a tuplespace that was created, a killlock
\* is never released below zero.
THEOREM Typing == Spec => []TypeOK
<1>1. IInv => TypeOK
    BY DEF IInv, Types
<1>. QED BY <1>1, Invariant, PTL

\* The killlock of a tuplespace is free, or a thread of delete_reference has it
\* and is on its way to release it (tuplespace.py, removereference): neither
\* delete_reference nor the removal of a process waits for it for ever.
THEOREM KilllockComesBack == Spec => []KilllockReturned
<1>1. IInv => KilllockReturned
    BY DEF IInv, Sums, KilllockReturned, Pending, Holding
<1>. QED BY <1>1, Invariant, PTL

\* Once removeProcess has been through the container nobody that is left has
\* the process as an owner (server.py, removeProcess; tuplespace.py,
\* removeanyreferences): a thread of delete_reference, a change of owner or an
\* add_reference that was under way does not bring it back.
THEOREM DeadHoldsNothing == Spec => []DeadHoldNothing
<1>1. IInv => DeadHoldNothing
    BY DEF IInv, Passed, Dead, SeenTo, DeadHoldNothing, Holding
<1>. QED BY <1>1, Invariant, PTL

================================================================================
