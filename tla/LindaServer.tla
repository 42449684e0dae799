----------------------------- MODULE LindaServer -----------------------------
(***************************************************************************)
(* One Linda server (linda/src/linda/server.py) with its local tuplespaces *)
(* and the clients connected to it, no other server being a neighbour.     *)
(*                                                                         *)
(* Every message is handled by a thread of its own (thread_pool.py); a     *)
(* client thread waits for the answer before it sends again, so pc[t] is   *)
(* the progress of the only request of client thread t.  An in or rd that  *)
(* blocks starts another thread that looks for a deadlock: a member of     *)
(* Worker.  Connections are read, and lost ones cleaned up after, by the   *)
(* single thread of socket_watcher, which looks for deadlocks too.         *)
(*                                                                         *)
(* Bounds: a tuple object is put into the system once (fresh); no more     *)
(* deadlock checks than Cardinality(Worker) are in progress at a time.     *)
(***************************************************************************)
EXTENDS TupleSpace

CONSTANTS Process,       \* client processes
          proc,          \* the process of each thread (getProcessIdFromThreadId)
          UTS,           \* the universal tuplespace
          Calls,         \* the calls clients make
          Worker,        \* threads running add_tuples or deleteReference
          watcher,       \* the thread of socket_watcher
          NoCall,        \* no call in progress
          NoProcess,     \* socket_watcher is not removing a process
          MayDieInCall   \* whether a connection may be lost during a call

OutCall     == [op: {"out"}, ts: TS]
MatchCall   == [op: {"in", "inp", "rd", "rdp"}, ts: TS, pattern: Template]
CollectCall == [op: {"collect", "copy_collect"}, ts: TS, dest: TS,
                pattern: Template]
Call == OutCall \cup MatchCall \cup CollectCall

ASSUME ServerAssumption ==
    /\ proc \in [Thread -> Process]
    /\ Calls \subseteq Call
    /\ watcher \notin Worker
    /\ NoCall \notin Call
    /\ NoProcess \notin Process
    /\ MayDieInCall \in BOOLEAN
    /\ \A x \in Tuple : AllActual(ValueOf[x])   \* clients put no types in tuples

VARIABLES refs,             \* TupleSpace.refs: which processes hold a reference
          pthreads,         \* server.pthreads: the threads of each process
          processes,        \* the processes that are keys of server.pthreads
          blocked_threads,  \* server.blocked_threads: its keys
          pc, call, held,   \* the request of each thread, the tuples it carries
          life,             \* the connection of each thread
          job,              \* the deadlock check of each worker and the watcher
          watch,            \* what socket_watcher is doing
          fresh, left       \* history: tuples not yet put, tuples sent to clients

tsVars     == <<tuples, blocked_list>>
callVars   == <<pc, call, held, fresh, left>>
clientVars == <<refs, pthreads, processes, life>>
vars == <<tsVars, blocked_threads, callVars, clientVars, job, watch>>

Checker == Worker \cup {watcher}

Job == [step: {"free"}] \cup [step: {"start"}, ts: TS]
       \cup [step: {"scan"}, ts: TS, processes: SUBSET Process,
             threads: SUBSET Thread]
Free       == [step |-> "free"]
Start(s)   == [step |-> "start", ts |-> s]

TypeOK ==
    /\ TSTypeOK
    /\ refs \in [TS -> SUBSET Process]
    /\ pthreads \in [Process -> SUBSET Thread]
    /\ processes \subseteq Process
    /\ blocked_threads \subseteq Thread
    /\ pc \in [Thread -> {"idle", "handling", "marked", "found", "waiting",
                          "woken", "moving", "reply", "failed"}]
    /\ call \in [Thread -> Call \cup {NoCall}]
    /\ held \in [Thread -> SUBSET Tuple]
    /\ life \in [Thread -> {"unborn", "live", "closed", "gone"}]
    /\ job \in [Checker -> Job]
    /\ watch \in [step: {"idle", "sweep", "purge", "crashed"},
                  process: Process \cup {NoProcess},
                  threads: SUBSET Thread, todo: SUBSET TS]
    /\ fresh \subseteq Tuple
    /\ left \subseteq Tuple

Watching == [step |-> "idle", process |-> NoProcess, threads |-> {}, todo |-> {}]

\* Every process has connected, with at least one thread, and been given a
\* reference to every tuplespace; its other threads connect later.
Init ==
    /\ TSInit
    /\ refs = [s \in TS |-> IF s = UTS THEN {} ELSE Process]
    /\ life \in {l \in [Thread -> {"unborn", "live"}] :
                   \A p \in Process : \E t \in Thread :
                      proc[t] = p /\ l[t] = "live"}
    /\ pthreads = [p \in Process |-> {t \in Thread : proc[t] = p
                                                     /\ life[t] = "live"}]
    /\ processes = Process
    /\ blocked_threads = {}
    /\ pc = [t \in Thread |-> "idle"]
    /\ call = [t \in Thread |-> NoCall]
    /\ held = [t \in Thread |-> {}]
    /\ job = [w \in Checker |-> Free]
    /\ watch = Watching
    /\ fresh = Tuple
    /\ left = {}

-----------------------------------------------------------------------------
(* Requests *)

isMatch(c)     == c.op \in {"in", "inp", "rd", "rdp"}
destructive(c) == c.op \in {"in", "inp"}
\* Faulty: any destructive call may be refused.
unblockable_faulty(c) == destructive(c)

\* Both handlers compute unblockable as message == inp_tuple.
unblockable(c) == c.op = "inp"

Uses(c, s) == \/ s = c.ts
              \/ c.op \in {"collect", "copy_collect"} /\ s = c.dest

\* A client thread sends a call and socket_watcher starts its handler.
Send(t, c) ==
    /\ life[t] = "live"
    /\ pc[t] = "idle"
    /\ watch = Watching
    /\ \A s \in TS : Uses(c, s) => s = UTS \/ proc[t] \in refs[s]
    /\ pc' = [pc EXCEPT ![t] = "handling"]
    /\ call' = [call EXCEPT ![t] = c]
    /\ UNCHANGED <<tsVars, blocked_threads, clientVars, job, watch, left>>

Request(t) ==
    \E c \in Calls :
        /\ c.op # "out"
        /\ Send(t, c)
        /\ UNCHANGED <<held, fresh>>

RequestOut(t) ==
    \E c \in Calls, x \in fresh :
        /\ c.op = "out"
        /\ Send(t, c)
        /\ held' = [held EXCEPT ![t] = {x}]
        /\ fresh' = fresh \ {x}

\* The answer reaches the client, which may then make its next call.
Reply(t) ==
    /\ pc[t] = "reply"
    /\ pc' = [pc EXCEPT ![t] = "idle"]
    /\ call' = [call EXCEPT ![t] = NoCall]
    /\ held' = [held EXCEPT ![t] = {}]
    /\ left' = IF destructive(call[t]) THEN left \cup held[t] ELSE left
    /\ UNCHANGED <<tsVars, blocked_threads, clientVars, job, watch, fresh>>

-----------------------------------------------------------------------------
(* out, and the tuples that collect moves *)

\* t puts x into s with _out and goes on to next; the woken threads get x.
PutTuple(t, s, x, next) ==
    \E woken \in wakeable(s, x) :
        LET tids == {e.tid : e \in woken}
        IN  /\ out(s, x, woken)
            /\ pc' = [u \in Thread |-> IF u = t THEN next
                                       ELSE IF u \in tids THEN "woken"
                                       ELSE pc[u]]
            /\ held' = [u \in Thread |-> IF u = t THEN held[t] \ {x}
                                         ELSE IF u \in tids THEN {x}
                                         ELSE held[u]]

out_tuple(t) ==
    /\ pc[t] = "handling"
    /\ call[t].op = "out"
    /\ \E x \in held[t] : PutTuple(t, call[t].ts, x, "reply")
    /\ UNCHANGED <<blocked_threads, clientVars, job, watch, call, fresh, left>>

\* collect: the matching tuples are taken at once ...
Collect(t) ==
    /\ pc[t] = "handling"
    /\ call[t].op = "collect"
    /\ collect(call[t].ts, call[t].pattern)
    /\ held' = [held EXCEPT ![t] = matchTuples(call[t].ts, call[t].pattern)]
    /\ pc' = [pc EXCEPT ![t] = "moving"]
    /\ UNCHANGED <<blocked_threads, clientVars, job, watch, call, fresh, left>>

\* Faulty: the originals are moved, and stay.
CopyCollect_faulty(t) ==
    /\ pc[t] = "handling"
    /\ call[t].op = "copy_collect"
    /\ held' = [held EXCEPT ![t] = matchTuples(call[t].ts, call[t].pattern)]
    /\ pc' = [pc EXCEPT ![t] = "moving"]
    /\ UNCHANGED <<tsVars, blocked_threads, clientVars, job, watch, call, fresh,
                   left>>

\* C is a copy of M: as many tuple objects with the same contents.
Copies(C, M) ==
    \E f \in [M -> C] :
        /\ \A x \in M : ValueOf[f[x]] = ValueOf[x]
        /\ \A x, y \in M : f[x] = f[y] => x = y
        /\ \A z \in C : \E x \in M : f[x] = z

CopyCollect(t) ==
    /\ pc[t] = "handling"
    /\ call[t].op = "copy_collect"
    /\ \E C \in SUBSET fresh :
        /\ Copies(C, matchTuples(call[t].ts, call[t].pattern))
        /\ held' = [held EXCEPT ![t] = C]
        /\ fresh' = fresh \ C
    /\ pc' = [pc EXCEPT ![t] = "moving"]
    /\ UNCHANGED <<tsVars, blocked_threads, clientVars, job, watch, call, left>>

\* Faulty: the tuple is added without a look at the blocked list.
MoveTuple_faulty(t) ==
    /\ pc[t] = "moving"
    /\ \E x \in held[t] :
        /\ tuples' = [tuples EXCEPT ![call[t].dest] = @ \cup {x}]
        /\ held' = [held EXCEPT ![t] = @ \ {x}]
    /\ UNCHANGED <<blocked_list, blocked_threads, clientVars, job, watch, pc, call,
                   fresh, left>>

\* ... and put into the destination one by one, other threads running between.
MoveTuple(t) ==
    /\ pc[t] = "moving"
    /\ \E x \in held[t] : PutTuple(t, call[t].dest, x, "moving")
    /\ UNCHANGED <<blocked_threads, clientVars, job, watch, call, fresh, left>>

\* Faulty: the answer is sent while tuples are still to be moved.
Moved_faulty(t) ==
    /\ pc[t] = "moving"
    /\ pc' = [pc EXCEPT ![t] = "reply"]
    /\ UNCHANGED <<tsVars, blocked_threads, clientVars, job, watch, call, held,
                   fresh, left>>

Moved(t) ==
    /\ pc[t] = "moving"
    /\ held[t] = {}
    /\ pc' = [pc EXCEPT ![t] = "reply"]
    /\ UNCHANGED <<tsVars, blocked_threads, clientVars, job, watch, call, held,
                   fresh, left>>

-----------------------------------------------------------------------------
(* in, inp, rd, rdp *)

\* Faulty: the thread is not entered in blocked_threads.
Mark_faulty(t) ==
    /\ pc[t] = "handling"
    /\ isMatch(call[t])
    /\ pc' = [pc EXCEPT ![t] = "marked"]
    /\ UNCHANGED <<tsVars, blocked_threads, clientVars, job, watch, call, held,
                   fresh, left>>

\* The handler enters the thread in blocked_threads before it looks.
Mark(t) ==
    /\ pc[t] = "handling"
    /\ isMatch(call[t])
    /\ blocked_threads' = blocked_threads \cup {t}
    /\ pc' = [pc EXCEPT ![t] = "marked"]
    /\ UNCHANGED <<tsVars, clientVars, job, watch, call, held, fresh, left>>

Match(t) ==
    /\ pc[t] = "marked"
    /\ \E x \in Tuple :
        /\ take(call[t].ts, x, call[t].pattern, destructive(call[t]))
        /\ held' = [held EXCEPT ![t] = {x}]
    /\ pc' = [pc EXCEPT ![t] = "found"]
    /\ UNCHANGED <<blocked_threads, clientVars, job, watch, call, fresh, left>>

Block(t) ==
    /\ pc[t] = "marked"
    /\ block(call[t].ts, [tid |-> t, pattern |-> call[t].pattern,
                          unblockable |-> unblockable(call[t]),
                          destructive |-> destructive(call[t])])
    /\ \E w \in Worker :
        /\ job[w] = Free
        /\ job' = [job EXCEPT ![w] = Start(call[t].ts)]
    /\ pc' = [pc EXCEPT ![t] = "waiting"]
    /\ UNCHANGED <<blocked_threads, clientVars, watch, call, held, fresh, left>>

\* Faulty: a woken thread is not answered.
ReturnTuple_faulty(t) ==
    /\ pc[t] = "found"
    /\ pc' = [pc EXCEPT ![t] = "reply"]
    /\ blocked_threads' = blocked_threads \ {t}
    /\ UNCHANGED <<tsVars, clientVars, job, watch, call, held, fresh, left>>

\* The tuple is about to be sent: the thread leaves blocked_threads, and the
\* KeyError when it is no longer there ends the server's thread.
\* "found": the handler itself; "woken": do_return_tuple, started by _out.
ReturnTuple(t) ==
    /\ pc[t] \in {"found", "woken"}
    /\ IF t \in blocked_threads
       THEN pc' = [pc EXCEPT ![t] = "reply"]
       ELSE pc' = [pc EXCEPT ![t] = "failed"]
    /\ blocked_threads' = blocked_threads \ {t}
    /\ UNCHANGED <<tsVars, clientVars, job, watch, call, held, fresh, left>>

-----------------------------------------------------------------------------
(* The search for a deadlock: isDeadLocked, then unblockRandom.  The scan   *)
(* takes no lock: refs, pthreads and blocked_threads change under it.       *)

\* An exception ends a worker's thread, but socket_watcher and so the server.
Fail(w) ==
    /\ job' = [job EXCEPT ![w] = Free]
    /\ watch' = IF w = watcher THEN [watch EXCEPT !.step = "crashed"] ELSE watch

\* Faulty: the ids in refs are taken for threads.
BeginScan_faulty(w) ==
    /\ job[w].step = "start"
    /\ job' = [job EXCEPT ![w] =
                 IF job[w].ts = UTS THEN Free
                 ELSE [step |-> "scan", ts |-> job[w].ts,
                       processes |-> {}, threads |-> refs[job[w].ts]]]
    /\ UNCHANGED <<tsVars, blocked_threads, callVars, clientVars, watch>>

BeginScan(w) ==
    /\ job[w].step = "start"
    /\ job' = [job EXCEPT ![w] =
                 IF job[w].ts = UTS THEN Free
                 ELSE [step |-> "scan", ts |-> job[w].ts,
                       processes |-> refs[job[w].ts], threads |-> {}]]
    /\ UNCHANGED <<tsVars, blocked_threads, callVars, clientVars, watch>>

ScanProcess(w) ==
    /\ job[w].step = "scan"
    /\ \E p \in job[w].processes :
        IF p \in processes
        THEN /\ job' = [job EXCEPT ![w].processes = @ \ {p},
                                   ![w].threads = @ \cup pthreads[p]]
             /\ UNCHANGED watch
        ELSE Fail(w)
    /\ UNCHANGED <<tsVars, blocked_threads, callVars, clientVars>>

ScanThread(w) ==
    /\ job[w].step = "scan"
    /\ job[w].processes = {}
    /\ \E t \in job[w].threads :
        job' = IF t \in blocked_threads
               THEN [job EXCEPT ![w].threads = @ \ {t}]
               ELSE [job EXCEPT ![w] = Free]
    /\ UNCHANGED <<tsVars, blocked_threads, callVars, clientVars, watch>>

ScanFoundDeadlock(w) ==
    /\ job[w].step = "scan"
    /\ job[w].processes = {}
    /\ job[w].threads = {}

\* unblock_thread: its assertion fails for a thread not in blocked_threads.
UnblockRandom(w) ==
    /\ ScanFoundDeadlock(w)
    /\ \E s \in {job[w].ts} : \E e \in blocked_list[s] :
        /\ unblock(s, e)
        /\ IF e.tid \in blocked_threads
           THEN /\ pc' = [pc EXCEPT ![e.tid] = "reply"]
                /\ job' = [job EXCEPT ![w] = Free]
                /\ UNCHANGED watch
           ELSE /\ Fail(w)
                /\ UNCHANGED pc
        /\ blocked_threads' = blocked_threads \ {e.tid}
    /\ UNCHANGED <<clientVars, call, held, fresh, left>>

NothingToUnblock(w) ==
    /\ ScanFoundDeadlock(w)
    /\ nothingToUnblock(job[w].ts)
    /\ job' = [job EXCEPT ![w] = Free]
    /\ UNCHANGED <<tsVars, blocked_threads, callVars, clientVars, watch>>

-----------------------------------------------------------------------------
(* Connections, references and their end *)

RegisterThread(t) ==
    /\ life[t] = "unborn"
    /\ watch = Watching
    /\ proc[t] \in processes
    /\ life' = [life EXCEPT ![t] = "live"]
    /\ pthreads' = [pthreads EXCEPT ![proc[t]] = @ \cup {t}]
    /\ UNCHANGED <<tsVars, blocked_threads, callVars, refs, processes, job, watch>>

\* A client process gives up its last reference to s; no thread of it is using s.
DeleteReference(p, s) ==
    /\ p \in refs[s]
    /\ watch = Watching
    /\ \E t \in Thread : proc[t] = p /\ life[t] = "live" /\ pc[t] = "idle"
    /\ \A t \in Thread : proc[t] = p /\ pc[t] # "idle" => ~Uses(call[t], s)
    /\ refs' = [refs EXCEPT ![s] = @ \ {p}]
    /\ \E w \in Worker :
        /\ job[w] = Free
        /\ job' = [job EXCEPT ![w] = Start(s)]
    /\ UNCHANGED <<tsVars, blocked_threads, callVars, pthreads, processes, life,
                   watch>>

\* The connection of a client thread ends; the server has yet to notice.
Disconnect(t) ==
    /\ life[t] = "live"
    /\ pc[t] = "idle" \/ MayDieInCall
    /\ life' = [life EXCEPT ![t] = "closed"]
    /\ UNCHANGED <<tsVars, blocked_threads, callVars, refs, pthreads, processes,
                   job, watch>>

\* Faulty: no search for a deadlock when other threads of the process remain.
RemoveThread_faulty(t) ==
    LET pid == proc[t]
        others == pthreads[pid] \ {t}
    IN  /\ watch = Watching
        /\ life[t] = "closed"
        /\ life' = [life EXCEPT ![t] = "gone"]
        /\ pthreads' = [pthreads EXCEPT ![pid] = others]
        /\ watch' = IF others # {} THEN watch
                    ELSE [watch EXCEPT !.step = "purge", !.process = pid,
                            !.threads = {u \in blocked_threads : proc[u] = pid}]
        /\ UNCHANGED <<tsVars, blocked_threads, callVars, refs, processes, job>>

\* socket_watcher reads the end of file and calls removeProcess.
RemoveThread(t) ==
    LET pid == proc[t]
        others == pthreads[pid] \ {t}
    IN  /\ watch = Watching
        /\ life[t] = "closed"
        /\ life' = [life EXCEPT ![t] = "gone"]
        /\ pthreads' = [pthreads EXCEPT ![pid] = others]
        /\ watch' = IF others # {}
                    THEN [watch EXCEPT !.step = "sweep", !.todo = TS]
                    ELSE [watch EXCEPT !.step = "purge", !.process = pid,
                            !.threads = {u \in blocked_threads : proc[u] = pid}]
        /\ UNCHANGED <<tsVars, blocked_threads, callVars, refs, processes, job>>

\* The last thread of a process: its threads leave blocked_threads one by one.
PurgeBlocked ==
    /\ watch.step = "purge"
    /\ \E u \in watch.threads :
        /\ watch' = IF u \in blocked_threads
                    THEN [watch EXCEPT !.threads = @ \ {u}]
                    ELSE [watch EXCEPT !.step = "crashed"]
        /\ blocked_threads' = blocked_threads \ {u}
    /\ UNCHANGED <<tsVars, callVars, clientVars, job>>

ForgetProcess ==
    /\ watch.step = "purge"
    /\ watch.threads = {}
    /\ processes' = processes \ {watch.process}
    /\ watch' = [watch EXCEPT !.step = "sweep", !.todo = TS]
    /\ UNCHANGED <<tsVars, blocked_threads, callVars, refs, pthreads, life, job>>

\* Faulty: the search comes before the references are removed.
Sweep_faulty(s) ==
    /\ watch.step = "sweep"
    /\ job[watcher] = Free
    /\ s \in watch.todo
    /\ watch' = [watch EXCEPT !.todo = @ \ {s}]
    /\ job' = [job EXCEPT ![watcher] = Start(s)]
    /\ UNCHANGED <<tsVars, blocked_threads, callVars, clientVars>>

\* For each tuplespace: removeanyreferences if the process is gone (process is
\* NoProcess otherwise), then the search for a deadlock.
Sweep(s) ==
    /\ watch.step = "sweep"
    /\ job[watcher] = Free
    /\ s \in watch.todo
    /\ watch' = [watch EXCEPT !.todo = @ \ {s}]
    /\ refs' = [refs EXCEPT ![s] = @ \ {watch.process}]
    /\ job' = [job EXCEPT ![watcher] = Start(s)]
    /\ UNCHANGED <<tsVars, blocked_threads, callVars, pthreads, processes, life>>

SweepDone ==
    /\ watch.step = "sweep"
    /\ job[watcher] = Free
    /\ watch.todo = {}
    /\ watch' = Watching
    /\ UNCHANGED <<tsVars, blocked_threads, callVars, clientVars, job>>

-----------------------------------------------------------------------------
\* The server's threads that serve client thread t, check, or watch.
Handler(t) ==
    \/ Reply(t)
    \/ out_tuple(t)
    \/ Collect(t)
    \/ CopyCollect(t)
    \/ MoveTuple(t)
    \/ Moved(t)
    \/ Mark(t)
    \/ Match(t)
    \/ Block(t)
    \/ ReturnTuple(t)

Check(w) ==
    \/ BeginScan(w)
    \/ ScanProcess(w)
    \/ ScanThread(w)
    \/ UnblockRandom(w)
    \/ NothingToUnblock(w)

Watch ==
    \/ \E t \in Thread : RemoveThread(t)
    \/ PurgeBlocked
    \/ ForgetProcess
    \/ \E s \in TS : Sweep(s)
    \/ SweepDone

Client ==
    \/ \E t \in Thread : \/ Request(t)
                         \/ RequestOut(t)
                         \/ RegisterThread(t)
                         \/ Disconnect(t)
    \/ \E p \in Process, s \in TS : DeleteReference(p, s)

Next ==
    \/ Client
    \/ \E t \in Thread : Handler(t)
    \/ \E w \in Checker : Check(w)
    \/ Watch

Spec == Init /\ [][Next]_vars

\* The server's threads are scheduled; clients may do nothing more.
FairSpec ==
    /\ Spec
    /\ \A t \in Thread : WF_vars(Handler(t))
    /\ \A w \in Checker : WF_vars(Check(w))
    /\ WF_vars(Watch)
=============================================================================
