----------------------------- MODULE References -----------------------------
(***************************************************************************)
(* References to tuplespaces and their garbage collection on one node      *)
(* (tscontainer.py, the second half of tuplespace.py, removeProcess and    *)
(* the reference handlers of server.py).  A tuplespace lists its owners:   *)
(* a process for each handle its client holds, a tuplespace for each tuple *)
(* stored in it that contains a handle.  Owners go in background threads,  *)
(* in handlers, in the watcher thread when a process leaves, and in the    *)
(* destructor of a tuplespace; after each the remover looks for a deadlock *)
(* and for garbage, reading other tuplespaces without a lock.              *)
(* A tuple is one handle; a process has one thread and so one call at a    *)
(* time.                                                                   *)
(***************************************************************************)
EXTENDS OwnerList

CONSTANTS Procs, Spaces,
          UTS,            \* the universal tuplespace, never collected
          Watcher,        \* the thread that runs socket_watcher
          Threads,        \* the threads delete_reference starts
          Programs        \* what the clients do: who creates which tuplespace, a
                          \* tuple with which is put where, where tuples are taken,
                          \* who may leave; and the bound on a process's handles to
                          \* a tuplespace and on the killlock of one still stored

Stores == Spaces \cup {UTS}
Owners == Procs \cup Stores
Agents == Procs \cup Threads \cup Spaces \cup {Watcher}

ASSUME ReferencesAssumption ==
    /\ UTS \notin Spaces /\ Watcher \notin Procs \cup Threads \cup Spaces
    /\ Procs \cap Stores = {} /\ Threads \cap (Procs \cup Spaces) = {}
    /\ IsFiniteSet(Threads) /\ IsFiniteSet(Procs)
    /\ Programs \subseteq [creates : SUBSET (Procs \X Spaces), puts : SUBSET (Procs \X Stores \X Spaces),
                           takes : SUBSET (Procs \X Stores), leave : SUBSET Procs,
                           handles : Nat, killlock : Nat, threads : Nat]

\* Clients take tuples with handles from the universal tuplespace only.  A client
\* that takes one from a tuplespace which is given up meanwhile may find that a
\* walk has emptied the owners of its handle (tuplespace.py:378): what is said of
\* counts and of deletion is said for clients that do not.
OnlyFromUTS == \A g \in Programs : \A pt \in g.takes : pt[2] = UTS

VARIABLES
    program,
    local_ts,   \* the tuplespaces in the container
    refs,       \* the owners of each, in order
    killlock,   \* the counter of each tuplespace's semaphore
    stored,     \* how many tuples with a handle to t are stored in s
    pthreads,   \* the processes that are registered
    held,       \* the handles each client holds
    call,       \* the call a process makes and where its handler is
    job,        \* the removal each thread is at
    todo,       \* the tuplespaces removeProcess has still to see, per process
    born,       \* ids given out (an id is never used twice)
    missed,     \* history: <<t, owner>> that removereference did not find
    skipped     \* history: tuplespaces whose removal was cut short by an exception

server  == <<local_ts, refs, killlock, stored, pthreads>>
clients == <<held, call>>
history == <<program, born, missed, skipped>>
vars    == <<server, clients, job, todo, history>>

NoCall == [at |-> "idle"]
NoJob  == [pc |-> "idle"]

Init ==
    /\ program \in Programs
    /\ local_ts = {} /\ refs = [t \in Spaces |-> <<>>]
    /\ killlock = [t \in Spaces |-> 1]
    /\ stored = [s \in Stores |-> [t \in Spaces |-> 0]]
    /\ pthreads = Procs /\ held = [p \in Procs |-> [t \in Spaces |-> 0]]
    /\ call = [p \in Procs |-> NoCall] /\ job = [a \in Agents |-> NoJob]
    /\ todo = [p \in Procs |-> {}]
    /\ born = {} /\ missed = {} /\ skipped = {}

\* The watcher reads the next request when it is not removing a process; a
\* removal that raises ends it.
Watching == job[Watcher].pc = "idle" /\ \A p \in Procs : todo[p] = {}

Idle(p) == p \in pthreads /\ call[p].at = "idle"
Holds(p, s) == s \in {UTS} \cup {t \in Spaces : held[p][t] > 0}
Blocked(p) == call[p].at = "match"      \* p's thread is in blocked_threads

(***************************************************************************)
(* Calls.                                                                  *)
(***************************************************************************)
Create(p, t) ==
    /\ Watching /\ Idle(p) /\ t \notin born /\ <<p, t>> \in program.creates
    /\ local_ts' = local_ts \cup {t} /\ born' = born \cup {t}
    /\ refs' = [refs EXCEPT ![t] = <<p>>]
    /\ killlock' = [killlock EXCEPT ![t] = 1]
    /\ held' = [held EXCEPT ![p][t] = 1]
    /\ UNCHANGED <<stored, pthreads, call, job, todo, program, missed, skipped>>

Calls(p, c) ==
    /\ Watching /\ Idle(p)
    /\ call' = [call EXCEPT ![p] = c]
    /\ UNCHANGED <<server, job, todo, history>>

\* A value that is a tuplespace is copied.
Copy(p, t) ==
    /\ held[p][t] \in 1 .. program.handles - 1
    /\ Calls(p, [at |-> "test", op |-> "copy", ts |-> t, ref |-> p])
    /\ UNCHANGED held

\* out scans its tuple for handles and adds the references before it sends it.
Out(p, s, t) ==
    /\ Holds(p, s) /\ held[p][t] > 0 /\ <<p, s, t>> \in program.puts
    /\ stored[s][t] = 0 /\ killlock[t] <= program.killlock
    /\ Calls(p, [at |-> "test", op |-> "out", ts |-> t, ref |-> s])
    /\ UNCHANGED held

\* A value that is a tuplespace is freed.
FreeThreads == {w \in Threads : job[w].pc = "idle"}
Delete(p, t) ==
    /\ held[p][t] > 0
    /\ Cardinality({q \in Procs : call[q].at = "delete"} \cup (Threads \ FreeThreads))
         < program.threads
    /\ Calls(p, [at |-> "delete", ts |-> t])
    /\ held' = [held EXCEPT ![p][t] = @ - 1]

In(p, s) ==
    /\ Holds(p, s) /\ <<p, s>> \in program.takes
    /\ Calls(p, [at |-> "match", from |-> s])
    /\ UNCHANGED held

(***************************************************************************)
(* Handlers.                                                               *)
(***************************************************************************)
\* add_reference: test for the tuplespace, create it when it is not there, ...
TestTuplespace(p) ==
    /\ call[p].at = "test"
    /\ LET t == call[p].ts IN
       /\ call' = [call EXCEPT ![p].at = "add"]
       /\ local_ts' = local_ts \cup {t}
       /\ refs' = IF t \in local_ts THEN refs ELSE [refs EXCEPT ![t] = <<>>]
       /\ killlock' = IF t \in local_ts THEN killlock ELSE [killlock EXCEPT ![t] = 1]
    /\ UNCHANGED <<stored, pthreads, held, job, todo, history>>

\* ... then add; a tuplespace that is gone by then raises, and no answer comes.
AddReference(p) ==
    /\ call[p].at = "add"
    /\ LET c == call[p] found == c.ts \in local_ts IN
       /\ refs' = IF found THEN [refs EXCEPT ![c.ts] = Append(@, c.ref)] ELSE refs
       /\ call' = [call EXCEPT ![p] =
                     CASE ~found -> [at |-> "hung"]
                       [] found /\ c.op = "copy" -> NoCall
                       [] found /\ c.op = "out"  -> [at |-> "put", ts |-> c.ts, into |-> c.ref]]
       /\ held' = IF found /\ c.op = "copy" THEN [held EXCEPT ![p][c.ts] = @ + 1] ELSE held
    /\ UNCHANGED <<local_ts, killlock, stored, pthreads, job, todo, history>>

PutTuple(p) ==
    /\ Watching /\ call[p].at = "put"
    /\ stored' = [stored EXCEPT ![call[p].into][call[p].ts] = @ + 1]
    /\ call' = [call EXCEPT ![p] = NoCall]
    /\ UNCHANGED <<local_ts, refs, killlock, pthreads, held, job, todo, history>>

\* in matches a tuple at once, or is handed one by the out that brings it.
Match(p) ==
    /\ call[p].at = "match"
    /\ LET s == call[p].from IN
       \E t \in Spaces :
         /\ stored[s][t] > 0 /\ held[p][t] < program.handles
         /\ stored' = [stored EXCEPT ![s][t] = @ - 1]
         /\ call' = [call EXCEPT ![p] = [at |-> "own", ts |-> t, from |-> s]]
    /\ UNCHANGED <<local_ts, refs, killlock, pthreads, held, job, todo, history>>

Removal(t, ref, every) == [pc |-> "lookup", ts |-> t, ref |-> ref, every |-> every]

\* changeOwner: the process is added, then the tuplespace the tuple was in is
\* deleted by the handler itself.
ChangeOwner(p) ==
    /\ call[p].at = "own"
    /\ LET t == call[p].ts found == t \in local_ts IN
       /\ refs' = IF found THEN [refs EXCEPT ![t] = Append(@, p)] ELSE refs
       /\ call' = [call EXCEPT ![p] =
                     IF found THEN [@ EXCEPT !.at = "change"] ELSE [at |-> "hung"]]
       /\ job' = IF found THEN [job EXCEPT ![p] = Removal(t, call[p].from, FALSE)] ELSE job
    /\ UNCHANGED <<local_ts, killlock, stored, pthreads, held, todo, history>>

Answer(p) ==
    /\ call[p].at = "change" /\ job[p].pc = "idle"
    /\ call' = [call EXCEPT ![p] = NoCall]
    /\ held' = [held EXCEPT ![p][call[p].ts] = @ + 1]
    /\ UNCHANGED <<server, job, todo, history>>

\* delete_reference acquires the killlock, starts a thread and answers.
\* faulty: the killlock is not waited for.
Acquire_anyway(t) == killlock' = [killlock EXCEPT ![t] = @ - 1]
Acquire(t) == killlock[t] > 0 /\ killlock' = [killlock EXCEPT ![t] = @ - 1]

DeleteReference(p) ==
    /\ call[p].at = "delete"
    /\ LET t == call[p].ts IN
       IF t \in local_ts
       THEN /\ Acquire(t)
            /\ \E w \in FreeThreads : job' = [job EXCEPT ![w] = Removal(t, p, FALSE)]
       ELSE UNCHANGED <<killlock, job>>
    /\ call' = [call EXCEPT ![p] = NoCall]
    /\ UNCHANGED <<local_ts, refs, stored, pthreads, held, todo, history>>

(***************************************************************************)
(* Removing a reference: one step each for what is read or written without *)
(* a lock in between.                                                      *)
(***************************************************************************)
At(a, pc) == job[a].pc = pc
Goto(a, pc) == job' = [job EXCEPT ![a].pc = pc]
Proceed(a, pc) == job' = [job EXCEPT ![a] = [pc |-> pc, ts |-> @.ts]]
Finish(a) == job' = [job EXCEPT ![a] = NoJob]

\* An exception ends what the thread was doing: a started thread is gone, a
\* handler does not answer, the watcher reads no more, and a destructor leaves
\* the rest of its tuples.
Raise(a) ==
    /\ job' = [job EXCEPT ![a] = IF a \in Threads THEN NoJob ELSE [pc |-> "raised"]]
    /\ skipped' = skipped \cup {job[a].ts} \cup
         (IF a = Watcher THEN UNION {todo[p] : p \in Procs} ELSE {}) \cup
         (IF a \in Spaces THEN {t \in Spaces : stored[a][t] > 0} ELSE {})

\* deleteReference and deleteAllReferences: nothing is left to do for a
\* tuplespace that is gone.
Lookup(a) ==
    /\ At(a, "lookup")
    /\ IF job[a].ts \in local_ts THEN Goto(a, "remove") ELSE Finish(a)
    /\ UNCHANGED <<server, clients, todo, history>>

\* faulty: every reference of the owner goes.
RefsWithout_any(t, ref) == Without(refs[t], ref)
RefsWithout(t, ref) == RemoveFirst(refs[t], ref)

\* The killlock is released whoever called, the reference found or not.
RemoveReference(a) ==
    /\ At(a, "remove") /\ ~job[a].every
    /\ LET t == job[a].ts ref == job[a].ref IN
       /\ killlock' = [killlock EXCEPT ![t] = @ + 1]
       /\ refs' = [refs EXCEPT ![t] = RefsWithout(t, ref)]
       /\ IF ref \in ToSet(refs[t])
          THEN Proceed(a, "scan") /\ UNCHANGED <<missed, skipped>>
          ELSE Raise(a) /\ missed' = missed \cup {<<t, ref>>}
    /\ UNCHANGED <<local_ts, stored, pthreads, clients, todo, program, born>>

\* faulty: it does not wait for the threads of delete_reference;
RemoveAnyReferences_nowait(a) ==
    /\ At(a, "remove") /\ job[a].every
    /\ refs' = [refs EXCEPT ![job[a].ts] = Without(@, job[a].ref)]
    /\ Proceed(a, "scan")
    /\ UNCHANGED <<local_ts, killlock, stored, pthreads, clients, todo, history>>
\* faulty: it does not release the killlock;
RemoveAnyReferences_keeps(a) ==
    /\ At(a, "remove") /\ job[a].every /\ Acquire(job[a].ts)
    /\ refs' = [refs EXCEPT ![job[a].ts] = Without(@, job[a].ref)]
    /\ Proceed(a, "scan")
    /\ UNCHANGED <<local_ts, stored, pthreads, clients, todo, history>>
\* faulty: it removes one reference.
RemoveAnyReferences_one(a) ==
    /\ At(a, "remove") /\ job[a].every /\ killlock[job[a].ts] > 0
    /\ refs' = [refs EXCEPT ![job[a].ts] = RemoveFirst(@, job[a].ref)]
    /\ Proceed(a, "scan")
    /\ UNCHANGED <<local_ts, killlock, stored, pthreads, clients, todo, history>>
\* removeanyreferences holds the killlock while it removes them.
RemoveAnyReferences(a) ==
    /\ At(a, "remove") /\ job[a].every /\ killlock[job[a].ts] > 0
    /\ refs' = [refs EXCEPT ![job[a].ts] = Without(@, job[a].ref)]
    /\ Proceed(a, "scan")
    /\ UNCHANGED <<local_ts, killlock, stored, pthreads, clients, todo, history>>

\* isLocallyDeadlocked: a walk over owners that stops at a running thread.  A
\* thread is the record of its process.  Nobody waits in the tuplespace itself,
\* so that a deadlock found there unblocks nobody.
BeginScan(a) ==
    /\ At(a, "scan")
    /\ job' = [job EXCEPT ![a] = [pc |-> "scanning", ts |-> @.ts, queue |-> refs[@.ts]]]
    /\ UNCHANGED <<server, clients, todo, history>>

EndsScan(queue) ==
    \/ queue = <<>>
    \/ Head(queue) = UTS
    \/ Head(queue) \notin Owners /\ ~Blocked(Head(queue).thread)

OwnersOf(r) == IF r \in Spaces THEN refs[r]
               ELSE IF r \in Procs THEN <<[thread |-> r]>> ELSE <<>>

Scan(a) ==
    /\ At(a, "scanning")
    /\ LET queue == job[a].queue IN
       IF EndsScan(queue) THEN Proceed(a, "walk") /\ UNCHANGED skipped
       ELSE LET r == Head(queue) IN
            IF (r \in Spaces /\ r \notin local_ts) \/ (r \in Procs /\ r \notin pthreads)
            THEN Raise(a)
            ELSE /\ job' = [job EXCEPT ![a].queue = Tail(queue) \o OwnersOf(r)]
                 /\ UNCHANGED skipped
    /\ UNCHANGED <<server, clients, todo, program, born, missed>>

\* faulty: a tuplespace only UTS holds is not active.
Active_processes(r) == r \in Procs
Active(r) == r \in Procs \cup {UTS}

\* doGarbageCollection: a walk over owners that stops at a process; one that
\* comes to its end empties the list of owners, whatever it is by then.
BeginWalk(a) ==
    /\ At(a, "walk")
    /\ LET t == job[a].ts IN
       job' = [job EXCEPT ![a] = [pc |-> "walking", ts |-> t, queue |-> refs[t], memo |-> {t}]]
    /\ UNCHANGED <<server, clients, todo, history>>

Clear(a) == refs' = [refs EXCEPT ![job[a].ts] = <<>>] /\ Proceed(a, "garbage")

Visit(a, r) ==
    /\ IF r \in job[a].memo THEN job' = [job EXCEPT ![a].queue = Tail(@)]
       ELSE IF Active(r) THEN Proceed(a, "garbage")
       ELSE job' = [job EXCEPT ![a] =
              [pc |-> "walking", ts |-> @.ts, memo |-> @.memo \cup {r},
               queue |-> Tail(@.queue) \o (IF r \in local_ts THEN refs[r] ELSE <<>>)]]
    /\ UNCHANGED refs

Walk(a) ==
    /\ At(a, "walking")
    /\ IF job[a].queue = <<>> THEN Clear(a) ELSE Visit(a, Head(job[a].queue))
    /\ UNCHANGED <<local_ts, killlock, stored, pthreads, clients, todo, history>>

\* garbage: the test and the deletion are two steps.
Garbage(a) ==
    /\ At(a, "garbage")
    /\ IF refs[job[a].ts] = <<>> THEN Proceed(a, "drop") ELSE Finish(a)
    /\ UNCHANGED <<server, clients, todo, history>>

Drop(a) ==
    /\ At(a, "drop")
    /\ local_ts' = local_ts \ {job[a].ts}
    /\ Finish(a)
    /\ UNCHANGED <<refs, killlock, stored, pthreads, clients, todo, history>>

(***************************************************************************)
(* The ends of tuplespaces and of processes.                               *)
(***************************************************************************)
\* No thread removes from the tuplespace any more, so __del__ runs (a walk that
\* has just read it may put that off): it deletes the reference of each stored
\* tuple.
Unused(s) ==
    \A a \in Agents : job[a].pc \notin {"idle", "lookup", "raised"} => job[a].ts # s

\* faulty: the tuples go and their references stay.
Destroy_forgets(s, t) ==
    /\ s \in born \ local_ts /\ Unused(s)
    /\ At(s, "idle") /\ stored[s][t] > 0
    /\ stored' = [stored EXCEPT ![s][t] = @ - 1]
    /\ UNCHANGED <<local_ts, refs, killlock, pthreads, clients, job, todo, history>>
Destroy(s, t) ==
    /\ s \in born \ local_ts /\ Unused(s)
    /\ At(s, "idle") /\ stored[s][t] > 0
    /\ stored' = [stored EXCEPT ![s][t] = @ - 1]
    /\ job' = [job EXCEPT ![s] = Removal(t, s, FALSE)]
    /\ UNCHANGED <<local_ts, refs, killlock, pthreads, clients, todo, history>>

\* removeProcess: the process is forgotten, then its references are removed
\* from the tuplespaces there were at that time, in the order of a dictionary.
Leave(p) ==
    /\ Watching /\ Idle(p) /\ p \in program.leave
    /\ pthreads' = pthreads \ {p}
    /\ todo' = [todo EXCEPT ![p] = local_ts]
    /\ held' = [held EXCEPT ![p] = [t \in Spaces |-> 0]]
    /\ UNCHANGED <<local_ts, refs, killlock, stored, call, job, history>>

RemoveProcess(p, t) ==
    /\ At(Watcher, "idle") /\ t \in todo[p]
    /\ todo' = [todo EXCEPT ![p] = @ \ {t}]
    /\ job' = IF t \in local_ts THEN [job EXCEPT ![Watcher] = Removal(t, p, TRUE)] ELSE job
    /\ UNCHANGED <<server, clients, history>>

(***************************************************************************)
(* Specification.                                                          *)
(***************************************************************************)
Handle(p) ==
    \/ TestTuplespace(p) \/ AddReference(p) \/ PutTuple(p)
    \/ Match(p) \/ ChangeOwner(p) \/ Answer(p) \/ DeleteReference(p)

RemovalStep(a) ==
    \/ Lookup(a) \/ RemoveReference(a) \/ RemoveAnyReferences(a)
    \/ BeginScan(a) \/ Scan(a) \/ BeginWalk(a) \/ Walk(a) \/ Garbage(a) \/ Drop(a)

Next ==
    \/ \E p \in Procs, t \in Spaces : Create(p, t) \/ Copy(p, t) \/ Delete(p, t)
    \/ \E p \in Procs, s \in Stores, t \in Spaces : Out(p, s, t)
    \/ \E p \in Procs, s \in Stores : In(p, s)
    \/ \E p \in Procs : Handle(p) \/ Leave(p)
    \/ \E a \in Agents : RemovalStep(a)
    \/ \E s, t \in Spaces : Destroy(s, t)
    \/ \E p \in Procs, t \in Spaces : RemoveProcess(p, t)

Spec == Init /\ [][Next]_vars

(***************************************************************************)
(* Properties.                                                             *)
(***************************************************************************)
Queue == Seq(Owners \cup [thread : Procs])
Jobs == {NoJob, [pc |-> "raised"]}
    \cup [pc : {"lookup", "remove"}, ts : Spaces, ref : Owners, every : BOOLEAN]
    \cup [pc : {"scan", "walk", "garbage", "drop"}, ts : Spaces]
    \cup [pc : {"scanning"}, ts : Spaces, queue : Queue]
    \cup [pc : {"walking"}, ts : Spaces, queue : Seq(Owners), memo : SUBSET Stores]

Calling == {NoCall, [at |-> "hung"]}
    \cup [at : {"test", "add"}, op : {"copy"}, ts : Spaces, ref : Procs]
    \cup [at : {"test", "add"}, op : {"out"}, ts : Spaces, ref : Stores]
    \cup [at : {"put"}, ts : Spaces, into : Stores]
    \cup [at : {"match"}, from : Stores]
    \cup [at : {"own", "change"}, ts : Spaces, from : Stores]
    \cup [at : {"delete"}, ts : Spaces]

\* The type invariant of the module.
TypeOK ==
    /\ program \in Programs
    /\ local_ts \subseteq born /\ born \subseteq Spaces
    /\ refs \in [Spaces -> Seq(Owners)] /\ killlock \in [Spaces -> Nat]
    /\ stored \in [Stores -> [Spaces -> Nat]] /\ pthreads \subseteq Procs
    /\ held \in [Procs -> [Spaces -> Nat]]
    /\ call \in [Procs -> Calling] /\ job \in [Agents -> Jobs]
    /\ todo \in [Procs -> SUBSET Spaces]
    /\ missed \subseteq Spaces \X Owners /\ skipped \subseteq Spaces

ToRemove(t, o) ==
    Cardinality({a \in Agents : /\ job[a].pc \in {"lookup", "remove"}
                                /\ job[a].ts = t /\ job[a].ref = o})
InCall(p, t, steps) == IF call[p].at \in steps THEN call[p].ts = t ELSE FALSE
One(b) == IF b THEN 1 ELSE 0

\* What clients and calls have, the tuples in UTS, and what is stored in those.
Roots == {t \in Spaces :
            \/ stored[UTS][t] > 0
            \/ \E p \in Procs : \/ held[p][t] > 0
                               \/ InCall(p, t, {"test", "add", "put", "own", "change"})}
Closed(c) == \A s \in c, t \in Spaces : stored[s][t] > 0 => t \in c
Reached == {t \in Spaces : \A c \in SUBSET Spaces : Roots \subseteq c /\ Closed(c) => t \in c}

\* A tuplespace that a client has a handle to, that is in a stored tuple, or
\* that a call is about to hand over is in the container: no interleaving of
\* the collections of other tuplespaces, the changes of owner and the removal
\* of processes deletes it (tscontainer.py garbage, tuplespace.py
\* doGarbageCollection), and add_reference never finds it gone.
NoEarlyDeletion == Reached \subseteq local_ts

\* The list of owners has a process as many times as it has handles, counting
\* those it is giving up and those about to be handed to it; and UTS as many
\* times as there are tuples with a handle there (add_reference, changeOwner,
\* removereference).
CountsExact ==
    \A t \in local_ts :
        /\ \A p \in pthreads :
             Times(refs[t], p) = held[p][t] + ToRemove(t, p) + One(InCall(p, t, {"delete", "change"}))
        /\ Times(refs[t], UTS) = stored[UTS][t] + ToRemove(t, UTS)
             + Cardinality({p \in Procs : \/ InCall(p, t, {"own"}) /\ call[p].from = UTS
                                          \/ InCall(p, t, {"put"}) /\ call[p].into = UTS})

\* removereference raises its "Internal reference counting error" only for a
\* process whose removal overtook a thread of delete_reference, and that only
\* where a change of owner had released the killlock without acquiring it; or
\* for a tuplespace that is being destroyed itself (the NOTE at
\* removeanyreferences).
OverReleased(t) ==
    killlock[t] + Cardinality({w \in Threads : /\ job[w].pc \in {"lookup", "remove"}
                                               /\ job[w].ts = t}) > 1
MissesExplained ==
    [][\A m \in missed' \ missed :
         \/ m[2] \in Procs \ pthreads /\ OverReleased(m[1])
         \/ m[2] \in Spaces \ local_ts]_vars

\* The killlock of a tuplespace is free or there is a thread that will release
\* it: whoever waits for it, delete_reference or the removal of a process, is
\* not kept waiting for ever.
KilllockReturned ==
    \A t \in local_ts : killlock[t] + Cardinality({w \in Threads :
        job[w].pc \in {"lookup", "remove"} /\ job[w].ts = t}) >= 1

\* Once removeProcess has seen every tuplespace none that is left has the
\* process as an owner, whatever threads of delete_reference were under way.
DeadHoldNothing ==
    \A p \in Procs \ pthreads : todo[p] = {} /\ job[Watcher].pc = "idle" =>
        \A t \in local_ts : p \notin ToSet(refs[t])

\* When nothing is under way, a tuplespace in the container is one that can be
\* reached, is in a tuple of one that is there, or one that a removal cut short by
\* an exception was to see to.
Quiet ==
    /\ \A a \in Agents : job[a].pc \in {"idle", "raised"}
    /\ \A p \in Procs : \/ call[p].at \in {"idle", "match", "hung"}
                        \/ At(p, "raised")
                        \/ call[p].at = "put" /\ ~Watching
    /\ At(Watcher, "raised") \/ \A p \in Procs : todo[p] = {}
    /\ \A s \in born \ local_ts, t \in Spaces : stored[s][t] > 0 => At(s, "raised")
NoLeak == 
    Quiet => \A t \in local_ts :
        \/ t \in Reached \cup skipped
        \/ \E s \in local_ts : stored[s][t] > 0

=============================================================================
