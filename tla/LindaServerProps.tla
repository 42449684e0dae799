--------------------------- MODULE LindaServerProps ---------------------------
(***************************************************************************)
(* The properties of LindaServer, and the specification it implements.     *)
(***************************************************************************)
EXTENDS LindaServer

\* A tuple is in one place at a time: not yet put, stored in one tuplespace,
\* carried for one thread (by an out, a collect, or the answer to an in or
\* inp), or sent to the client that took it.  Waking a reader, taking for a
\* blocked in and moving with collect must neither lose nor double it.
Holds(t, x) == call[t] # NoCall /\ call[t].op \notin {"rd", "rdp"} /\ x \in held[t]

InOnePlace(x) ==
    /\ x \in fresh \/ x \in left \/ (\E s \in TS : x \in tuples[s])
       \/ (\E t \in Thread : Holds(t, x))
    /\ x \in fresh => x \notin left
    /\ \A s \in TS : x \in tuples[s] =>
          /\ x \notin fresh \cup left
          /\ \A s2 \in TS : x \in tuples[s2] => s = s2
    /\ \A t \in Thread : Holds(t, x) =>
          /\ x \notin fresh \cup left
          /\ \A s \in TS : x \notin tuples[s]
          /\ \A u \in Thread : Holds(u, x) => t = u

TupleInOnePlace == \A x \in Tuple : InOnePlace(x)

\* The blocked list of s is exactly the threads whose handler left them
\* waiting on s, once each and with the template of the call they are in: a
\* thread missing from it would never be woken, one too many would be handed
\* a tuple it did not ask for (blocked_list is written by five methods).
EntryOf(t) == [tid |-> t, pattern |-> call[t].pattern,
               unblockable |-> unblockable(call[t]),
               destructive |-> destructive(call[t])]

BlockedListExact ==
    \A s \in TS : blocked_list[s] =
        {EntryOf(t) : t \in {u \in Thread : pc[u] = "waiting" /\ call[u].ts = s}}

\* No missed wakeup: while a thread waits with a template of actual values, no
\* stored tuple equals it.  _in looks and joins the blocked list, and _out
\* looks at the blocked list and stores, under the same lock.
NoMissedWakeup ==
    \A s \in TS : \A e \in blocked_list[s] :
        AllActual(e.pattern) => matchTuples(s, e.pattern) = {}

\* blocked_threads holds the threads whose call has begun to look for a tuple
\* and has not been answered, and no other: do_return_tuple and unblock_thread
\* find there whom they are to answer, and no idle thread counts as blocked in
\* the search for a deadlock.
BlockedThreadsExact ==
    blocked_threads =
        {t \in Thread : pc[t] \in {"marked", "found", "waiting", "woken"}}

\* Also when connections are lost during calls: whoever is in a blocked list
\* waits there with the call it made, and a thread that waits and that the
\* server still has in blocked_threads is listed, so that an out or a deadlock
\* can end its wait.
WaitersListed ==
    /\ \A s \in TS : \A e \in blocked_list[s] :
          pc[e.tid] = "waiting" /\ call[e.tid].ts = s /\ e = EntryOf(e.tid)
    /\ \A t \in Thread : pc[t] = "waiting" /\ t \in blocked_threads
                            => EntryOf(t) \in blocked_list[call[t].ts]

\* No KeyError reaches socket_watcher, whose thread the server dies with: a
\* process leaves pthreads before it leaves refs, and the deadlock check that
\* follows each removal walks refs into pthreads.
WatcherSurvives == watch.step # "crashed"

\* What the progress of a request says of its call and of what it carries: the
\* part of the inductive invariants that is about one thread alone.
CallShape ==
    \A t \in Thread :
        /\ pc[t] = "idle" => held[t] = {}
        /\ pc[t] # "idle" => call[t] \in Calls
        /\ pc[t] = "idle" => call[t] = NoCall
        /\ pc[t] = "handling" =>
              IF call[t].op = "out" THEN \A x, y \in held[t] : x = y
                                    ELSE held[t] = {}
        /\ pc[t] \in {"marked", "waiting"} => isMatch(call[t]) /\ held[t] = {}
        /\ pc[t] = "moving" => call[t].op \in {"collect", "copy_collect"}
        /\ pc[t] \in {"found", "woken", "failed"} => isMatch(call[t])
        /\ pc[t] = "reply" /\ ~isMatch(call[t]) => held[t] = {}

\* Every call is one atomic step of the abstract specification.
phase == [t \in Thread |->
            CASE pc[t] = "idle" -> "idle"
              [] pc[t] \in {"handling", "marked", "waiting"} -> "pending"
              [] pc[t] = "moving" -> "moving"
              [] OTHER -> "done"]

Fills(x, pattern) == doesMatch(ValueOf[x], pattern)
Wakes(x, pattern) == doesMatch(pattern, ValueOf[x])

Abstract == INSTANCE Linda WITH space <- tuples, op <- call, hand <- held
ImplementsLinda == Abstract!Spec

-----------------------------------------------------------------------------
(* Liveness *)

\* All the threads of the processes that know s wait, one of them in an inp.
Deadlocked(s) ==
    /\ s # UTS
    /\ \A p \in refs[s] : \A t \in pthreads[p] : pc[t] = "waiting"
    /\ \E t \in Thread : pc[t] = "waiting" /\ call[t].ts = s
                         /\ unblockable(call[t])

\* A deadlock with an inp in it does not last: the check that the last thread
\* to block starts, or the one after a thread or reference is gone, ends it.
DeadlockBroken == \A s \in TS : []<>~Deadlocked(s)

\* Calls that do not block are answered, and so is a thread that a tuple woke.
CallsReturn ==
    \A t \in Thread :
        /\ (pc[t] = "handling" /\ ~isMatch(call[t])) ~> (pc[t] = "idle")
        /\ pc[t] \in {"woken", "found"} ~> pc[t] = "idle"

-----------------------------------------------------------------------------
(* What the documentation says of a blocked call, and the code does not do.  *)

\* linda/src/rawdocs/linda.c:97: _rdp returns "the matching tuple or None if a
\* deadlock is detected", so no deadlock with an rdp in it lasts.
RdpDeadlockBroken ==
    \A s \in TS \ {UTS} :
        []<>~(/\ \A p \in refs[s] : \A t \in pthreads[p] : pc[t] = "waiting"
              /\ \E t \in Thread : /\ pc[t] = "waiting"
                                   /\ call[t].ts = s
                                   /\ call[t].op = "rdp")

\* linda/src/rawdocs/linda.c:81: _inp returns "the matching tuple or None if a
\* deadlock is detected": when inp is refused, every thread that could still
\* put a tuple into the tuplespace waits.
Refused(t) == pc[t] = "waiting" /\ pc'[t] = "reply"

InpRefusedOnlyInDeadlock ==
    [][\A t \in Thread : Refused(t) =>
          \A p \in refs[call[t].ts] : \A u \in pthreads[p] : pc[u] = "waiting"]_vars

\* linda/src/rawdocs/linda.c:69 (_rd; :50 of _in): the call "blocks
\* until a tuple matching the template is placed in the tuplespace", so no
\* thread waits while its tuplespace stores a tuple its template matches.
NoMatchWhileWaiting ==
    \A s \in TS : \A e \in blocked_list[s] : matchTuples(s, e.pattern) = {}

\* server.py:528, of a process that has left: "check that it wasn't blocked when
\* the connection was lost", and the sanity check of removeanyreferences
\* (tuplespace.py:335): no tuplespace keeps one of its threads waiting.
NoGhostWaiters ==
    watch = Watching =>
        \A s \in TS : \A e \in blocked_list[s] : proc[e.tid] \in processes
=============================================================================
