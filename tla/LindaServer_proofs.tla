------------------------- MODULE LindaServer_proofs -------------------------
(***************************************************************************)
(* Theorems about LindaServer, for every value of its constants.           *)
(***************************************************************************)
EXTENDS LindaServerProps, TLAPS

\* The values of pc, as TypeOK lists them.
PCs == {"idle", "handling", "marked", "found", "waiting",
        "woken", "moving", "reply", "failed"}

\* A call in progress is one of Calls, so it names tuplespaces and a template.
LEMMA CallParts ==
  ASSUME NEW c \in Calls
  PROVE  /\ c \in Call
         /\ c # NoCall
         /\ c.op \in {"out", "in", "inp", "rd", "rdp", "collect", "copy_collect"}
         /\ c.ts \in TS
         /\ c.op # "out" => c.pattern \in Template
         /\ c.op \in {"collect", "copy_collect"} => c.dest \in TS
  BY ServerAssumption DEF Call, OutCall, MatchCall, CollectCall

\* The threads that a new tuple wakes are threads of the blocked list.
LEMMA WokenAreListed ==
  ASSUME TypeOK, NEW s \in TS, NEW x, NEW woken \in wakeable(s, x)
  PROVE  /\ woken \subseteq blocked_list[s]
         /\ woken \subseteq Entry
         /\ \A e \in woken : e.tid \in Thread
  BY DEF TypeOK, TSTypeOK, wakeable, checkBlocked, Entry

\* _out, with the threads it wakes, keeps the types of what it changes.
LEMMA PutTupleType ==
  ASSUME TypeOK, NEW t \in Thread, NEW s \in TS, NEW x \in Tuple,
         NEW next \in PCs, PutTuple(t, s, x, next)
  PROVE  /\ tuples' \in [TS -> SUBSET Tuple]
         /\ blocked_list' \in [TS -> SUBSET Entry]
         /\ pc' \in [Thread -> PCs]
         /\ held' \in [Thread -> SUBSET Tuple]
<1>1. PICK woken \in wakeable(s, x) :
        /\ out(s, x, woken)
        /\ pc' = [u \in Thread |-> IF u = t THEN next
                                   ELSE IF u \in {e.tid : e \in woken} THEN "woken"
                                   ELSE pc[u]]
        /\ held' = [u \in Thread |-> IF u = t THEN held[t] \ {x}
                                     ELSE IF u \in {e.tid : e \in woken} THEN {x}
                                     ELSE held[u]]
  BY DEF PutTuple
<1>2. tuples' \in [TS -> SUBSET Tuple] /\ blocked_list' \in [TS -> SUBSET Entry]
  BY <1>1 DEF out, TypeOK, TSTypeOK
<1>3. pc' \in [Thread -> PCs]
  BY <1>1 DEF TypeOK, PCs
<1>4. held' \in [Thread -> SUBSET Tuple]
  BY <1>1 DEF TypeOK
<1> QED
  BY <1>2, <1>3, <1>4

\* _in and _rd that find a tuple keep the types of a tuplespace.
LEMMA TakeType ==
  ASSUME TypeOK, NEW s \in TS, NEW x, NEW pattern, NEW d,
         take(s, x, pattern, d)
  PROVE  /\ tuples' \in [TS -> SUBSET Tuple]
         /\ blocked_list' \in [TS -> SUBSET Entry]
  BY DEF take, TypeOK, TSTypeOK

\* unblockRandom keeps the types of a tuplespace.
LEMMA UnblockType ==
  ASSUME TypeOK, NEW s, NEW e, unblock(s, e)
  PROVE  /\ tuples' \in [TS -> SUBSET Tuple]
         /\ blocked_list' \in [TS -> SUBSET Entry]
  BY DEF unblock, TypeOK, TSTypeOK

-----------------------------------------------------------------------------
(* Types *)

\* The initial state is well typed, with every thread idle.
LEMMA InitType == Init => TypeOK /\ CallShape
  BY ServerAssumption DEF Init, TSInit, TypeOK, TSTypeOK, CallShape, Job, Free,
                          Watching, Checker

\* Every step keeps the types.  CallShape is needed for them: a handler uses
\* the tuplespace, destination and template its call names, and only a thread
\* in such a call runs that handler.
LEMMA NextType == TypeOK /\ CallShape /\ [Next]_vars => TypeOK'
<1> SUFFICES ASSUME TypeOK, CallShape, [Next]_vars PROVE TypeOK'
  OBVIOUS
<1> USE ServerAssumption
<1>1. ASSUME NEW t \in Thread, Request(t) PROVE TypeOK'
  BY <1>1 DEF TypeOK, TSTypeOK, Request, Send, tsVars, clientVars
<1>2. ASSUME NEW t \in Thread, RequestOut(t) PROVE TypeOK'
  BY <1>2 DEF TypeOK, TSTypeOK, RequestOut, Send, tsVars, clientVars
<1>3. ASSUME NEW t \in Thread, Reply(t) PROVE TypeOK'
  BY <1>3 DEF TypeOK, TSTypeOK, Reply, tsVars, clientVars
<1>4. ASSUME NEW t \in Thread, out_tuple(t) PROVE TypeOK'
  <2>1. PICK x \in held[t] : PutTuple(t, call[t].ts, x, "reply")
    BY <1>4 DEF out_tuple
  <2>2. x \in Tuple /\ call[t].ts \in TS /\ "reply" \in PCs
    BY <1>4, <2>1, CallParts DEF TypeOK, out_tuple, CallShape, PCs
  <2> QED
    BY <1>4, <2>1, <2>2, PutTupleType DEF TypeOK, TSTypeOK, out_tuple, clientVars, PCs
<1>5. ASSUME NEW t \in Thread, Collect(t) PROVE TypeOK'
  <2>1. call[t].ts \in TS
    BY <1>5, CallParts DEF Collect, CallShape
  <2>2. matchTuples(call[t].ts, call[t].pattern) \in SUBSET Tuple
    BY <2>1 DEF TypeOK, TSTypeOK, matchTuples
  <2>3. tuples' \in [TS -> SUBSET Tuple] /\ blocked_list' \in [TS -> SUBSET Entry]
    BY <1>5, <2>1 DEF Collect, collect, TypeOK, TSTypeOK
  <2> QED
    BY <1>5, <2>2, <2>3 DEF TypeOK, TSTypeOK, Collect, clientVars
<1>6. ASSUME NEW t \in Thread, CopyCollect(t) PROVE TypeOK'
  BY <1>6 DEF TypeOK, TSTypeOK, CopyCollect, tsVars, clientVars
<1>7. ASSUME NEW t \in Thread, MoveTuple(t) PROVE TypeOK'
  <2>1. PICK x \in held[t] : PutTuple(t, call[t].dest, x, "moving")
    BY <1>7 DEF MoveTuple
  <2>2. x \in Tuple /\ call[t].dest \in TS /\ "moving" \in PCs
    BY <1>7, <2>1, CallParts DEF TypeOK, MoveTuple, CallShape, PCs
  <2>3. /\ tuples' \in [TS -> SUBSET Tuple] /\ blocked_list' \in [TS -> SUBSET Entry]
        /\ pc' \in [Thread -> PCs] /\ held' \in [Thread -> SUBSET Tuple]
    BY <2>1, <2>2, PutTupleType
  <2> QED
    BY <1>7, <2>3 DEF TypeOK, TSTypeOK, MoveTuple, clientVars, PCs
<1>8. ASSUME NEW t \in Thread, Moved(t) PROVE TypeOK'
  BY <1>8 DEF TypeOK, TSTypeOK, Moved, tsVars, clientVars
<1>9. ASSUME NEW t \in Thread, Mark(t) PROVE TypeOK'
  BY <1>9 DEF TypeOK, TSTypeOK, Mark, tsVars, clientVars
<1>10. ASSUME NEW t \in Thread, Match(t) PROVE TypeOK'
  <2>1. tuples' \in [TS -> SUBSET Tuple] /\ blocked_list' \in [TS -> SUBSET Entry]
    BY <1>10, TakeType, CallParts DEF Match, CallShape
  <2>2. held' \in [Thread -> SUBSET Tuple]
    BY <1>10 DEF Match, TypeOK
  <2> QED
    BY <1>10, <2>1, <2>2 DEF TypeOK, TSTypeOK, Match, clientVars
<1>11. ASSUME NEW t \in Thread, Block(t) PROVE TypeOK'
  <2>1. call[t].ts \in TS /\ call[t].pattern \in Template
    BY <1>11, CallParts DEF Block, CallShape, isMatch
  <2>2. EntryOf(t) \in Entry
    BY <2>1 DEF EntryOf, Entry, unblockable, destructive
  <2>3. blocked_list' \in [TS -> SUBSET Entry]
    BY <1>11, <2>1, <2>2 DEF Block, block, EntryOf, TypeOK, TSTypeOK
  <2>4. Start(call[t].ts) \in Job
    BY <2>1 DEF Start, Job
  <2>5. job' \in [Checker -> Job]
    BY <1>11, <2>4 DEF Block, TypeOK
  <2>6. UNCHANGED tuples
    BY <1>11 DEF Block, block
  <2> QED
    BY <1>11, <2>3, <2>5, <2>6 DEF TypeOK, TSTypeOK, Block, clientVars
<1>12. ASSUME NEW t \in Thread, ReturnTuple(t) PROVE TypeOK'
  BY <1>12 DEF TypeOK, TSTypeOK, ReturnTuple, tsVars, clientVars
<1>13. ASSUME NEW w \in Checker, Check(w) PROVE TypeOK'
  <2>1. CASE BeginScan(w)
    BY <2>1 DEF TypeOK, TSTypeOK, BeginScan, Job, Free, tsVars, callVars, clientVars
  <2>2. CASE ScanProcess(w)
    <3>1. job[w] \in [step: {"scan"}, ts: TS, processes: SUBSET Process,
                      threads: SUBSET Thread]
      BY <2>2 DEF ScanProcess, TypeOK, Job
    <3>2. PICK p \in job[w].processes :
            IF p \in processes
            THEN /\ job' = [job EXCEPT ![w].processes = @ \ {p},
                                       ![w].threads = @ \cup pthreads[p]]
                 /\ UNCHANGED watch
            ELSE Fail(w)
      BY <2>2 DEF ScanProcess
    <3>3. CASE p \in processes
      <4>1. job' = [job EXCEPT ![w] =
                      [step |-> "scan", ts |-> job[w].ts,
                       processes |-> job[w].processes \ {p},
                       threads |-> job[w].threads \cup pthreads[p]]]
        BY <3>1, <3>2, <3>3 DEF TypeOK
      <4>2. pthreads[p] \subseteq Thread
        BY <3>1 DEF TypeOK
      <4>3. job' \in [Checker -> Job]
        BY <3>1, <4>1, <4>2 DEF TypeOK, Job
      <4> QED
        BY <2>2, <3>2, <3>3, <4>3 DEF TypeOK, TSTypeOK, ScanProcess, tsVars, callVars, clientVars
    <3>4. CASE p \notin processes
      BY <2>2, <3>2, <3>4 DEF TypeOK, TSTypeOK, ScanProcess, Fail, Job, Free, tsVars, callVars, clientVars
    <3> QED
      BY <3>3, <3>4
  <2>3. CASE ScanThread(w)
    <3>1. job[w] \in [step: {"scan"}, ts: TS, processes: SUBSET Process,
                      threads: SUBSET Thread]
      BY <2>3 DEF ScanThread, TypeOK, Job
    <3>2. job' \in [Checker -> Job]
      BY <2>3, <3>1 DEF ScanThread, TypeOK, Job, Free
    <3> QED
      BY <2>3, <3>2 DEF TypeOK, TSTypeOK, ScanThread, tsVars, callVars, clientVars
  <2>4. CASE UnblockRandom(w)
    <3>1. tuples' \in [TS -> SUBSET Tuple] /\ blocked_list' \in [TS -> SUBSET Entry]
      BY <2>4, UnblockType DEF UnblockRandom
    <3>2. pc' \in [Thread -> PCs]
      BY <2>4 DEF UnblockRandom, TypeOK, PCs
    <3>3. job' \in [Checker -> Job]
      BY <2>4 DEF UnblockRandom, Fail, TypeOK, Job, Free
    <3>4. watch' = watch \/ watch' = [watch EXCEPT !.step = "crashed"]
      BY <2>4 DEF UnblockRandom, Fail
    <3>5. blocked_threads' \subseteq Thread
      BY <2>4 DEF UnblockRandom, TypeOK
    <3> QED
      BY <2>4, <3>1, <3>2, <3>3, <3>4, <3>5 DEF TypeOK, TSTypeOK, UnblockRandom, PCs, clientVars
  <2>5. CASE NothingToUnblock(w)
    BY <2>5 DEF TypeOK, TSTypeOK, NothingToUnblock, Job, Free, tsVars, callVars, clientVars
  <2> QED
    BY <1>13, <2>1, <2>2, <2>3, <2>4, <2>5 DEF Check
<1>14. ASSUME Watch PROVE TypeOK'
  <2>1. ASSUME NEW t \in Thread, RemoveThread(t) PROVE TypeOK'
    BY <2>1 DEF TypeOK, TSTypeOK, RemoveThread, tsVars, callVars
  <2>2. CASE PurgeBlocked
    BY <2>2 DEF TypeOK, TSTypeOK, PurgeBlocked, tsVars, callVars, clientVars
  <2>3. CASE ForgetProcess
    BY <2>3 DEF TypeOK, TSTypeOK, ForgetProcess, tsVars, callVars
  <2>4. ASSUME NEW s \in TS, Sweep(s) PROVE TypeOK'
    BY <2>4 DEF TypeOK, TSTypeOK, Sweep, Start, Job, Checker, tsVars, callVars
  <2>5. CASE SweepDone
    BY <2>5 DEF TypeOK, TSTypeOK, SweepDone, Watching, tsVars, callVars, clientVars
  <2> QED
    BY <1>14, <2>1, <2>2, <2>3, <2>4, <2>5 DEF Watch
<1>15. ASSUME NEW t \in Thread, RegisterThread(t) PROVE TypeOK'
  <2>1. /\ UNCHANGED <<tuples, blocked_list, blocked_threads, pc, call, held, refs, processes, job, watch>>
        /\ UNCHANGED <<fresh, left>>
        /\ life' = [life EXCEPT ![t] = "live"]
        /\ pthreads' = [pthreads EXCEPT ![proc[t]] = @ \cup {t}]
    BY <1>15 DEF RegisterThread, tsVars, callVars
  <2>2. life' \in [Thread -> {"unborn", "live", "closed", "gone"}]
    BY <2>1 DEF TypeOK
  <2>3. pthreads' \in [Process -> SUBSET Thread]
    BY <2>1 DEF TypeOK
  <2> QED
    BY <2>1, <2>2, <2>3 DEF TypeOK, TSTypeOK
<1>16. ASSUME NEW t \in Thread, Disconnect(t) PROVE TypeOK'
  BY <1>16 DEF TypeOK, TSTypeOK, Disconnect, tsVars, callVars
<1>17. ASSUME NEW p \in Process, NEW s \in TS, DeleteReference(p, s) PROVE TypeOK'
  <2>1. PICK n : n = Start(s)
    OBVIOUS
  <2>2. n \in Job
    BY <2>1 DEF Start, Job
  <2>3. PICK w \in Worker : job' = [job EXCEPT ![w] = n]
    BY <1>17, <2>1 DEF DeleteReference
  <2>4. /\ UNCHANGED <<tuples, blocked_list, blocked_threads, pc, call, held, pthreads, processes, life, watch>>
        /\ UNCHANGED <<fresh, left>>
        /\ refs' = [refs EXCEPT ![s] = @ \ {p}]
    BY <1>17 DEF DeleteReference, tsVars, callVars
  <2>5. job' \in [Checker -> Job]
    BY <2>2, <2>3 DEF TypeOK
  <2>6. refs' \in [TS -> SUBSET Process]
    BY <2>4 DEF TypeOK
  <2> QED
    BY <2>4, <2>5, <2>6 DEF TypeOK, TSTypeOK
<1>18. CASE UNCHANGED vars
  BY <1>18 DEF TypeOK, TSTypeOK, vars, tsVars, callVars, clientVars
<1> QED
  BY <1>1, <1>2, <1>3, <1>4, <1>5, <1>6, <1>7, <1>8, <1>9, <1>10, <1>11, <1>12,
     <1>13, <1>14, <1>15, <1>16, <1>17, <1>18 DEF Next, Client, Handler

-----------------------------------------------------------------------------
(* Calls and blocked lists *)

\* The inductive invariant that also holds when connections are lost.
Inv1 == TypeOK /\ CallShape /\ WaitersListed

\* Inv1 holds initially: nobody waits and the blocked lists are empty.
LEMMA InitInv1 == Init => Inv1
<1>1. Init => WaitersListed
  BY DEF Init, TSInit, WaitersListed
<1> QED
  BY <1>1, InitType DEF Inv1

\* A tuple is put with PutTuple only by threads that do not wait, so the woken
\* threads are others, each in the call its entry describes.
LEMMA WokenThreads ==
  ASSUME Inv1, NEW s \in TS, NEW x, NEW woken \in wakeable(s, x), NEW e \in woken
  PROVE  /\ e \in blocked_list[s]
         /\ e.tid \in Thread
         /\ pc[e.tid] = "waiting"
         /\ call[e.tid] \in Calls
         /\ isMatch(call[e.tid])
         /\ call[e.tid].ts = s
         /\ e = EntryOf(e.tid)
  BY WokenAreListed DEF Inv1, WaitersListed, CallShape

\* _out keeps CallShape, for the thread that puts and for those it wakes.
LEMMA PutTupleShape ==
  ASSUME Inv1, NEW t \in Thread, NEW s \in TS, NEW x \in held[t],
         NEW next \in {"reply", "moving"}, PutTuple(t, s, x, next), call' = call,
         \/ pc[t] = "moving" /\ next = "moving"
         \/ pc[t] = "handling" /\ call[t].op = "out" /\ next = "reply"
  PROVE  CallShape'
<1>1. PICK woken \in wakeable(s, x) :
        /\ pc' = [u \in Thread |-> IF u = t THEN next
                                   ELSE IF u \in {e.tid : e \in woken} THEN "woken"
                                   ELSE pc[u]]
        /\ held' = [u \in Thread |-> IF u = t THEN held[t] \ {x}
                                     ELSE IF u \in {e.tid : e \in woken} THEN {x}
                                     ELSE held[u]]
  BY DEF PutTuple
<1> SUFFICES ASSUME NEW u \in Thread PROVE
        /\ pc'[u] = "idle" => held'[u] = {}
        /\ pc'[u] # "idle" => call[u] \in Calls
        /\ pc'[u] = "idle" => call[u] = NoCall
        /\ pc'[u] = "handling" =>
              IF call[u].op = "out" THEN \A y, z \in held'[u] : y = z
                                    ELSE held'[u] = {}
        /\ pc'[u] \in {"marked", "waiting"} => isMatch(call[u]) /\ held'[u] = {}
        /\ pc'[u] = "moving" => call[u].op \in {"collect", "copy_collect"}
        /\ pc'[u] \in {"found", "woken", "failed"} => isMatch(call[u])
        /\ pc'[u] = "reply" /\ ~isMatch(call[u]) => held'[u] = {}
  BY DEF CallShape, isMatch
<1>2. CASE u = t
  BY <1>1, <1>2 DEF Inv1, CallShape
<1>3. CASE u # t /\ u \in {e.tid : e \in woken}
  <2>1. isMatch(call[u]) /\ call[u] \in Calls
    BY <1>3, WokenThreads
  <2>2. pc'[u] = "woken"
    BY <1>1, <1>3
  <2> QED
    BY <2>1, <2>2
<1>4. CASE u # t /\ u \notin {e.tid : e \in woken}
  BY <1>1, <1>4 DEF Inv1, CallShape
<1> QED
  BY <1>2, <1>3, <1>4

\* Every step keeps CallShape.
LEMMA NextShape == Inv1 /\ [Next]_vars => CallShape'
<1> SUFFICES ASSUME Inv1, [Next]_vars PROVE CallShape'
  OBVIOUS
<1> USE ServerAssumption DEF Inv1
<1>1. ASSUME NEW t \in Thread, Request(t) PROVE CallShape'
  BY <1>1 DEF TypeOK, CallShape, Request, Send, isMatch
<1>2. ASSUME NEW t \in Thread, RequestOut(t) PROVE CallShape'
  BY <1>2 DEF TypeOK, CallShape, RequestOut, Send, isMatch
<1>3. ASSUME NEW t \in Thread, Reply(t) PROVE CallShape'
  BY <1>3 DEF TypeOK, CallShape, Reply, isMatch
<1>4. ASSUME NEW t \in Thread, out_tuple(t) PROVE CallShape'
  <2>1. PICK x \in held[t] : PutTuple(t, call[t].ts, x, "reply")
    BY <1>4 DEF out_tuple
  <2>2. x \in Tuple /\ call[t].ts \in TS
    BY <1>4, <2>1, CallParts DEF TypeOK, out_tuple, CallShape
  <2>3. call' = call /\ pc[t] = "handling" /\ call[t].op = "out"
    BY <1>4 DEF out_tuple
  <2> QED
    BY <2>1, <2>2, <2>3, PutTupleShape
<1>5. ASSUME NEW t \in Thread, Collect(t) PROVE CallShape'
  BY <1>5 DEF TypeOK, CallShape, Collect, isMatch
<1>6. ASSUME NEW t \in Thread, CopyCollect(t) PROVE CallShape'
  BY <1>6 DEF TypeOK, CallShape, CopyCollect, isMatch
<1>7. ASSUME NEW t \in Thread, MoveTuple(t) PROVE CallShape'
  <2>1. PICK x \in held[t] : PutTuple(t, call[t].dest, x, "moving")
    BY <1>7 DEF MoveTuple
  <2>2. x \in Tuple /\ call[t].dest \in TS
    BY <1>7, <2>1, CallParts DEF TypeOK, MoveTuple, CallShape
  <2>3. call' = call /\ pc[t] = "moving"
    BY <1>7 DEF MoveTuple
  <2> QED
    BY <2>1, <2>2, <2>3, PutTupleShape
<1>8. ASSUME NEW t \in Thread, Moved(t) PROVE CallShape'
  BY <1>8 DEF TypeOK, CallShape, Moved, isMatch
<1>9. ASSUME NEW t \in Thread, Mark(t) PROVE CallShape'
  BY <1>9 DEF TypeOK, CallShape, Mark, isMatch
<1>10. ASSUME NEW t \in Thread, Match(t) PROVE CallShape'
  BY <1>10 DEF TypeOK, CallShape, Match, isMatch
<1>11. ASSUME NEW t \in Thread, Block(t) PROVE CallShape'
  BY <1>11 DEF TypeOK, CallShape, Block, isMatch
<1>12. ASSUME NEW t \in Thread, ReturnTuple(t) PROVE CallShape'
  BY <1>12 DEF TypeOK, CallShape, ReturnTuple, isMatch
<1>13. ASSUME NEW w \in Checker, UnblockRandom(w) PROVE CallShape'
  <2>1. PICK e \in blocked_list[job[w].ts] :
          pc' = pc \/ pc' = [pc EXCEPT ![e.tid] = "reply"]
    BY <1>13 DEF UnblockRandom
  <2>2. job[w].ts \in TS
    BY <1>13 DEF UnblockRandom, ScanFoundDeadlock, TypeOK, Job
  <2>3. e.tid \in Thread /\ pc[e.tid] = "waiting"
    BY <2>2 DEF TypeOK, TSTypeOK, Entry, WaitersListed
  <2> QED
    BY <1>13, <2>1, <2>3 DEF UnblockRandom, TypeOK, CallShape, isMatch
<1>14. CASE UNCHANGED <<pc, call, held>>
  BY <1>14 DEF CallShape, isMatch
<1> QED
  BY <1>1, <1>2, <1>3, <1>4, <1>5, <1>6, <1>7, <1>8, <1>9, <1>10, <1>11, <1>12,
     <1>13, <1>14
  DEF Next, Client, Handler, Check, Watch, vars, callVars, BeginScan, ScanProcess,
      ScanThread, NothingToUnblock, RegisterThread, DeleteReference, Disconnect,
      RemoveThread, PurgeBlocked, ForgetProcess, Sweep, SweepDone

\* A thread that neither waits nor starts to wait does not disturb the lists.
LEMMA OtherThread ==
  ASSUME Inv1, NEW t \in Thread, pc[t] # "waiting", pc'[t] # "waiting",
         blocked_list' = blocked_list,
         blocked_threads' \subseteq blocked_threads \cup {t},
         \A u \in Thread \ {t} : pc'[u] = pc[u] /\ call'[u] = call[u]
  PROVE  WaitersListed'
<1>1. ASSUME NEW s \in TS, NEW e \in blocked_list[s]
      PROVE  pc'[e.tid] = "waiting" /\ call'[e.tid].ts = s /\ e = EntryOf(e.tid)'
  <2>1. e.tid \in Thread /\ pc[e.tid] = "waiting" /\ call[e.tid].ts = s
        /\ e = EntryOf(e.tid)
    BY DEF Inv1, TypeOK, TSTypeOK, Entry, WaitersListed
  <2>2. e.tid # t
    BY <2>1
  <2> QED
    BY <2>1, <2>2 DEF EntryOf, unblockable, destructive
<1>2. ASSUME NEW u \in Thread, pc'[u] = "waiting", u \in blocked_threads'
      PROVE  EntryOf(u)' \in blocked_list[call'[u].ts]
  BY <1>2 DEF Inv1, WaitersListed, EntryOf, unblockable, destructive
<1> QED
  BY <1>1, <1>2 DEF WaitersListed

\* _out keeps WaitersListed: it takes off the list exactly those it wakes.
LEMMA PutTupleListed ==
  ASSUME Inv1, NEW t \in Thread, NEW s \in TS, NEW x \in Tuple,
         NEW next \in {"reply", "moving"}, PutTuple(t, s, x, next),
         call' = call, blocked_threads' = blocked_threads, pc[t] # "waiting"
  PROVE  WaitersListed'
<1>1. PICK woken \in wakeable(s, x) :
        /\ blocked_list' = [blocked_list EXCEPT ![s] = @ \ woken]
        /\ pc' = [u \in Thread |-> IF u = t THEN next
                                   ELSE IF u \in {e.tid : e \in woken} THEN "woken"
                                   ELSE pc[u]]
  BY DEF PutTuple, out
<1>2. ASSUME NEW s2 \in TS, NEW e \in blocked_list'[s2]
      PROVE  pc'[e.tid] = "waiting" /\ call[e.tid].ts = s2 /\ e = EntryOf(e.tid)
  <2>1. e \in blocked_list[s2] /\ (s2 = s => e \notin woken)
    BY <1>1 DEF Inv1, TypeOK, TSTypeOK
  <2>2. e.tid \in Thread /\ pc[e.tid] = "waiting" /\ call[e.tid].ts = s2
        /\ e = EntryOf(e.tid)
    BY <2>1 DEF Inv1, TypeOK, TSTypeOK, Entry, WaitersListed
  <2>3. ASSUME NEW e2 \in woken, e2.tid = e.tid PROVE FALSE
    <3>1. call[e2.tid].ts = s /\ e2 = EntryOf(e2.tid)
      BY WokenThreads
    <3>2. s2 = s /\ e2 = e
      BY <2>2, <2>3, <3>1
    <3> QED
      BY <2>1, <3>2
  <2>4. pc'[e.tid] = "waiting"
    BY <1>1, <2>2, <2>3
  <2> QED
    BY <2>2, <2>4
<1>3. ASSUME NEW u \in Thread, pc'[u] = "waiting", u \in blocked_threads
      PROVE  EntryOf(u) \in blocked_list'[call[u].ts]
  <2>1. pc[u] = "waiting" /\ u \notin {e.tid : e \in woken}
    BY <1>1, <1>3
  <2>2. EntryOf(u) \in blocked_list[call[u].ts] /\ call[u].ts \in TS
    BY <1>3, <2>1, CallParts DEF Inv1, WaitersListed, CallShape
  <2>3. EntryOf(u) \notin woken
    BY <2>1 DEF EntryOf
  <2> QED
    BY <1>1, <2>2, <2>3 DEF Inv1, TypeOK, TSTypeOK
<1> QED
  BY <1>2, <1>3 DEF WaitersListed, EntryOf, unblockable, destructive

\* Every step keeps WaitersListed: _rd and _in list the thread as it starts to
\* wait, and _out and unblockRandom, which end waits, take it off.
LEMMA NextListed == Inv1 /\ [Next]_vars => WaitersListed'
<1> SUFFICES ASSUME Inv1, [Next]_vars PROVE WaitersListed'
  OBVIOUS
<1> USE ServerAssumption
<1>1. ASSUME NEW t \in Thread, Request(t) \/ RequestOut(t) PROVE WaitersListed'
  <2>1. pc[t] # "waiting" /\ pc'[t] # "waiting"
    BY <1>1 DEF Request, RequestOut, Send, Inv1, TypeOK
  <2> QED
    BY <1>1, <2>1, OtherThread DEF Request, RequestOut, Send, tsVars, Inv1, TypeOK
<1>2. ASSUME NEW t \in Thread,
             Reply(t) \/ Collect(t) \/ CopyCollect(t) \/ Moved(t) \/ Mark(t)
             \/ Match(t) \/ ReturnTuple(t)
      PROVE WaitersListed'
  <2>1. pc[t] # "waiting" /\ pc'[t] # "waiting"
        /\ \A u \in Thread \ {t} : pc'[u] = pc[u] /\ call'[u] = call[u]
    BY <1>2 DEF Inv1, TypeOK, Reply, Collect, CopyCollect, Moved, Mark, Match, ReturnTuple
  <2>2. blocked_list' = blocked_list
        /\ blocked_threads' \subseteq blocked_threads \cup {t}
    BY <1>2 DEF Reply, Collect, collect, CopyCollect, Moved, Mark, Match, take,
                ReturnTuple, tsVars
  <2> QED
    BY <2>1, <2>2, OtherThread
<1>3. ASSUME NEW t \in Thread, out_tuple(t) PROVE WaitersListed'
  <2>1. PICK x \in held[t] : PutTuple(t, call[t].ts, x, "reply")
    BY <1>3 DEF out_tuple
  <2>2. x \in Tuple /\ call[t].ts \in TS
    BY <1>3, <2>1, CallParts DEF Inv1, TypeOK, out_tuple, CallShape
  <2>3. call' = call /\ blocked_threads' = blocked_threads /\ pc[t] = "handling"
    BY <1>3 DEF out_tuple
  <2> QED
    BY <2>1, <2>2, <2>3, PutTupleListed
<1>4. ASSUME NEW t \in Thread, MoveTuple(t) PROVE WaitersListed'
  <2>1. PICK x \in held[t] : PutTuple(t, call[t].dest, x, "moving")
    BY <1>4 DEF MoveTuple
  <2>2. x \in Tuple /\ call[t].dest \in TS
    BY <1>4, <2>1, CallParts DEF Inv1, TypeOK, MoveTuple, CallShape
  <2>3. call' = call /\ blocked_threads' = blocked_threads /\ pc[t] = "moving"
    BY <1>4 DEF MoveTuple
  <2> QED
    BY <2>1, <2>2, <2>3, PutTupleListed
<1>5. ASSUME NEW t \in Thread, Block(t) PROVE WaitersListed'
  <2>1. /\ pc[t] = "marked"
        /\ pc' = [pc EXCEPT ![t] = "waiting"]
        /\ call' = call
        /\ blocked_threads' = blocked_threads
        /\ blocked_list' = [blocked_list EXCEPT ![call[t].ts] =
                              {e \in @ : e.tid # t} \cup {EntryOf(t)}]
    BY <1>5 DEF Block, block, EntryOf
  <2>2. call[t].ts \in TS
    BY <2>1, CallParts DEF Inv1, CallShape
  <2>3. ASSUME NEW s \in TS, NEW e \in blocked_list'[s]
        PROVE  pc'[e.tid] = "waiting" /\ call[e.tid].ts = s /\ e = EntryOf(e.tid)
    <3>1. CASE e \in blocked_list[s]
      BY <2>1, <3>1 DEF Inv1, TypeOK, TSTypeOK, Entry, WaitersListed
    <3>2. CASE e \notin blocked_list[s]
      <4>1. e = EntryOf(t) /\ s = call[t].ts
        BY <2>1, <2>2, <2>3, <3>2 DEF Inv1, TypeOK, TSTypeOK
      <4>2. e.tid = t
        BY <4>1 DEF EntryOf
      <4> QED
        BY <2>1, <4>1, <4>2 DEF Inv1, TypeOK
    <3> QED
      BY <3>1, <3>2
  <2>4. ASSUME NEW u \in Thread, pc'[u] = "waiting", u \in blocked_threads
        PROVE  EntryOf(u) \in blocked_list'[call[u].ts]
    <3>1. CASE u = t
      BY <2>1, <2>2, <3>1 DEF Inv1, TypeOK, TSTypeOK
    <3>2. CASE u # t
      <4>1. EntryOf(u) \in blocked_list[call[u].ts] /\ call[u].ts \in TS
        BY <2>1, <2>4, <3>2, CallParts DEF Inv1, TypeOK, WaitersListed, CallShape
      <4>2. EntryOf(u).tid # t
        BY <3>2 DEF EntryOf
      <4> QED
        BY <2>1, <4>1, <4>2 DEF Inv1, TypeOK, TSTypeOK
    <3> QED
      BY <3>1, <3>2
  <2> QED
    BY <2>1, <2>3, <2>4 DEF WaitersListed, EntryOf, unblockable, destructive
<1>6. ASSUME NEW w \in Checker, UnblockRandom(w) PROVE WaitersListed'
  <2>1. job[w].ts \in TS
    BY <1>6 DEF UnblockRandom, ScanFoundDeadlock, Inv1, TypeOK, Job
  <2>2. PICK e \in blocked_list[job[w].ts] :
          /\ blocked_list' = [blocked_list EXCEPT ![job[w].ts] = @ \ {e}]
          /\ IF e.tid \in blocked_threads
             THEN pc' = [pc EXCEPT ![e.tid] = "reply"]
             ELSE pc' = pc
          /\ blocked_threads' = blocked_threads \ {e.tid}
          /\ call' = call
    BY <1>6 DEF UnblockRandom, unblock
  <2>3. e.tid \in Thread /\ call[e.tid].ts = job[w].ts /\ e = EntryOf(e.tid)
    BY <2>1 DEF Inv1, TypeOK, TSTypeOK, Entry, WaitersListed
  <2>4. ASSUME NEW s \in TS, NEW e2 \in blocked_list'[s]
        PROVE  pc'[e2.tid] = "waiting" /\ call[e2.tid].ts = s /\ e2 = EntryOf(e2.tid)
    <3>1. e2 \in blocked_list[s] /\ (s = job[w].ts => e2 # e)
      BY <2>1, <2>2 DEF Inv1, TypeOK, TSTypeOK
    <3>2. /\ e2.tid \in Thread /\ pc[e2.tid] = "waiting"
          /\ call[e2.tid].ts = s /\ e2 = EntryOf(e2.tid)
      BY <3>1 DEF Inv1, TypeOK, TSTypeOK, Entry, WaitersListed
    <3>3. e2.tid # e.tid
      BY <2>3, <3>1, <3>2
    <3> QED
      BY <2>2, <3>2, <3>3 DEF Inv1, TypeOK
  <2>5. ASSUME NEW u \in Thread, pc'[u] = "waiting", u \in blocked_threads'
        PROVE  EntryOf(u) \in blocked_list'[call[u].ts]
    <3>1. u # e.tid /\ pc[u] = "waiting" /\ u \in blocked_threads
      BY <2>2, <2>5 DEF Inv1, TypeOK
    <3>2. EntryOf(u) \in blocked_list[call[u].ts] /\ call[u].ts \in TS
      BY <3>1, CallParts DEF Inv1, WaitersListed, CallShape
    <3>3. EntryOf(u) # e
      BY <3>1 DEF EntryOf
    <3> QED
      BY <2>2, <3>2, <3>3 DEF Inv1, TypeOK, TSTypeOK
  <2> QED
    BY <2>2, <2>4, <2>5 DEF WaitersListed, EntryOf, unblockable, destructive
<1>7. CASE /\ UNCHANGED <<blocked_list, pc, call>>
           /\ blocked_threads' \subseteq blocked_threads
  BY <1>7 DEF Inv1, WaitersListed, EntryOf, unblockable, destructive
<1> QED
  BY <1>1, <1>2, <1>3, <1>4, <1>5, <1>6, <1>7
  DEF Next, Client, Handler, Check, Watch, vars, callVars, tsVars, BeginScan,
      ScanProcess, ScanThread, NothingToUnblock, RegisterThread, DeleteReference,
      Disconnect, RemoveThread, PurgeBlocked, ForgetProcess, Sweep, SweepDone

\* Types, the shape of each call and the blocked lists hold together in every
\* state of the server.
THEOREM Inv1Holds == Spec => []Inv1
<1>1. Inv1 /\ [Next]_vars => Inv1'
  BY NextType, NextShape, NextListed DEF Inv1
<1> QED
  BY InitInv1, <1>1, PTL DEF Spec

\* Every state of the server is well typed: the handlers, the search for a
\* deadlock and removeProcess store only what the code means to store.
THEOREM TypeCorrect == Spec => []TypeOK
  BY Inv1Holds, PTL DEF Inv1

\* Whoever is in the blocked list of a tuplespace waits there with the call it
\* made, and every waiting thread in blocked_threads is listed: _in and _rd
\* list a thread as it starts to wait, also when connections are lost.
THEOREM WaitersAreListed == Spec => []WaitersListed
  BY Inv1Holds, PTL DEF Inv1

-----------------------------------------------------------------------------
(* No missed wakeup *)

\* With a template of actual values the arguments of doesMatch may be swapped,
\* as _out does.
LEMMA SwappedMatch ==
  ASSUME NEW v, NEW p, AllActual(p), doesMatch(v, p)
  PROVE  doesMatch(p, v)
  BY DEF AllActual, doesMatch, elementMatches

\* When nobody takes the new tuple everybody it matches is woken.
LEMMA AllReadersWoken ==
  ASSUME NEW s, NEW x, NEW woken \in wakeable(s, x), ~(\E f \in woken : f.destructive)
  PROVE  woken = checkBlocked(s, x)
<1> DEFINE takers == {f \in checkBlocked(s, x) : f.destructive}
<1>1. CASE takers = {}
  <2>1. woken = checkBlocked(s, x) \ takers
    BY <1>1 DEF wakeable
  <2> QED
    BY <1>1, <2>1
<1>2. CASE takers # {}
  <2>1. PICK f \in takers : f \in woken
    BY <1>2 DEF wakeable
  <2> QED
    BY <2>1
<1> QED
  BY <1>1, <1>2

\* Only PutTuple stores a tuple, and Block alone lists a thread.
LEMMA PutTupleNotMissed ==
  ASSUME TypeOK, NoMissedWakeup, NEW t \in Thread, NEW s \in TS, NEW x \in Tuple,
         NEW next, PutTuple(t, s, x, next)
  PROVE  NoMissedWakeup'
<1>1. PICK woken \in wakeable(s, x) : out(s, x, woken)
  BY DEF PutTuple
<1> SUFFICES ASSUME NEW s2 \in TS, NEW e \in blocked_list'[s2],
                    AllActual(e.pattern),
                    NEW y \in tuples'[s2], doesMatch(ValueOf[y], e.pattern)
             PROVE  FALSE
  BY DEF NoMissedWakeup, matchTuples
<1>2. e \in blocked_list[s2] /\ (s2 = s => e \notin woken)
  BY <1>1 DEF out, TypeOK, TSTypeOK
<1>3. y \notin tuples[s2]
  BY <1>2 DEF NoMissedWakeup, matchTuples
<1>4. y = x /\ s2 = s /\ ~(\E f \in woken : f.destructive)
  BY <1>1, <1>3 DEF out, TypeOK, TSTypeOK
<1>5. woken = checkBlocked(s, x)
  BY <1>4, AllReadersWoken
<1>6. e \in checkBlocked(s, x)
  BY <1>2, <1>4, SwappedMatch DEF checkBlocked
<1> QED
  BY <1>2, <1>4, <1>5, <1>6

\* Every step keeps NoMissedWakeup: a tuple is stored only when all that it
\* equals have been woken, a thread listed only when nothing stored matches.
LEMMA NextNotMissed == Inv1 /\ NoMissedWakeup /\ [Next]_vars => NoMissedWakeup'
<1> SUFFICES ASSUME Inv1, NoMissedWakeup, [Next]_vars PROVE NoMissedWakeup'
  OBVIOUS
<1>1. ASSUME NEW t \in Thread, out_tuple(t) PROVE NoMissedWakeup'
  <2>1. PICK x \in held[t] : PutTuple(t, call[t].ts, x, "reply")
    BY <1>1 DEF out_tuple
  <2>2. x \in Tuple /\ call[t].ts \in TS
    BY <1>1, <2>1, CallParts DEF Inv1, TypeOK, out_tuple, CallShape
  <2> QED
    BY <2>1, <2>2, PutTupleNotMissed DEF Inv1
<1>2. ASSUME NEW t \in Thread, MoveTuple(t) PROVE NoMissedWakeup'
  <2>1. PICK x \in held[t] : PutTuple(t, call[t].dest, x, "moving")
    BY <1>2 DEF MoveTuple
  <2>2. x \in Tuple /\ call[t].dest \in TS
    BY <1>2, <2>1, CallParts DEF Inv1, TypeOK, MoveTuple, CallShape
  <2> QED
    BY <2>1, <2>2, PutTupleNotMissed DEF Inv1
<1>3. ASSUME NEW t \in Thread, Block(t) PROVE NoMissedWakeup'
  <2>1. /\ matchTuples(call[t].ts, call[t].pattern) = {}
        /\ tuples' = tuples
        /\ blocked_list' = [blocked_list EXCEPT ![call[t].ts] =
                              {e \in @ : e.tid # t} \cup {EntryOf(t)}]
    BY <1>3 DEF Block, block, EntryOf
  <2> SUFFICES ASSUME NEW s \in TS, NEW e \in blocked_list'[s], AllActual(e.pattern)
               PROVE  matchTuples(s, e.pattern) = {}
    BY <2>1 DEF NoMissedWakeup, matchTuples
  <2>2. CASE e \in blocked_list[s]
    BY <2>2 DEF NoMissedWakeup
  <2>3. CASE e \notin blocked_list[s]
    <3>1. s = call[t].ts /\ e = EntryOf(t)
      BY <2>1, <2>3 DEF Inv1, TypeOK, TSTypeOK
    <3> QED
      BY <2>1, <3>1 DEF EntryOf
  <2> QED
    BY <2>2, <2>3
<1>4. CASE /\ \A s \in TS : tuples'[s] \subseteq tuples[s]
           /\ \A s \in TS : blocked_list'[s] \subseteq blocked_list[s]
  BY <1>4 DEF NoMissedWakeup, matchTuples
<1>5. ASSUME NEW t \in Thread, Match(t)
      PROVE  /\ \A s \in TS : tuples'[s] \subseteq tuples[s]
             /\ blocked_list' = blocked_list
  BY <1>5 DEF Match, take, Inv1, TypeOK, TSTypeOK
<1>6. ASSUME NEW t \in Thread, Collect(t)
      PROVE  /\ \A s \in TS : tuples'[s] \subseteq tuples[s]
             /\ blocked_list' = blocked_list
  BY <1>6 DEF Collect, collect, Inv1, TypeOK, TSTypeOK
<1>7. ASSUME NEW w \in Checker, UnblockRandom(w)
      PROVE  /\ tuples' = tuples
             /\ \A s \in TS : blocked_list'[s] \subseteq blocked_list[s]
  BY <1>7 DEF UnblockRandom, unblock, Inv1, TypeOK, TSTypeOK
<1> QED
  BY <1>1, <1>2, <1>3, <1>4, <1>5, <1>6, <1>7
  DEF Next, Client, Handler, Check, Watch, vars, tsVars, Request, RequestOut, Send,
      Reply, CopyCollect, Moved, Mark, ReturnTuple, BeginScan, ScanProcess,
      ScanThread, NothingToUnblock, RegisterThread, DeleteReference, Disconnect,
      RemoveThread, PurgeBlocked, ForgetProcess, Sweep, SweepDone

\* While a thread waits with a template of actual values, no tuple stored in
\* its tuplespace equals it: _in and _rd on one side and _out on the other are
\* atomic under the lock of the tuplespace.
THEOREM NoWakeupIsMissed == Spec => []NoMissedWakeup
<1>1. Init => NoMissedWakeup
  BY DEF Init, TSInit, NoMissedWakeup
<1>2. NoMissedWakeup /\ Inv1 /\ [Next]_vars => NoMissedWakeup'
  BY NextNotMissed
<1> QED
  BY <1>1, <1>2, Inv1Holds, PTL DEF Spec

-----------------------------------------------------------------------------
(* A tuple is in one place *)

\* A step that leaves a tuple where it is.
LEMMA NotMoved ==
  ASSUME NEW y, InOnePlace(y),
         y \in fresh' <=> y \in fresh,
         y \in left' <=> y \in left,
         \A s \in TS : y \in tuples'[s] <=> y \in tuples[s],
         \A t \in Thread : Holds(t, y)' <=> Holds(t, y)
  PROVE  InOnePlace(y)'
  BY DEF InOnePlace

\* A tuple that a thread holds is nowhere else.
LEMMA HeldElsewhere ==
  ASSUME NEW y, InOnePlace(y), NEW t \in Thread, Holds(t, y)
  PROVE  /\ y \notin fresh /\ y \notin left
         /\ \A s \in TS : y \notin tuples[s]
         /\ \A u \in Thread : Holds(u, y) => u = t
  BY DEF InOnePlace

\* At most one of the woken threads takes the tuple.
LEMMA OneTaker ==
  ASSUME NEW s, NEW x, NEW woken \in wakeable(s, x),
         NEW e \in woken, NEW f \in woken, e.destructive, f.destructive
  PROVE  e = f
<1> DEFINE takers == {g \in checkBlocked(s, x) : g.destructive}
<1> DEFINE readers == checkBlocked(s, x) \ takers
<1>0. takers = {} => woken = readers
  BY DEF wakeable
<1>1. takers # {} => \E R \in SUBSET readers : \E g \in takers : woken = R \cup {g}
  BY SMTT(20) DEF wakeable
<1>2. \A g \in readers : ~g.destructive
  OBVIOUS
<1> HIDE DEF takers, readers
<1>3. CASE takers = {}
  <2>1. woken = readers
    BY <1>0, <1>3
  <2> QED
    BY <1>2, <2>1
<1>4. CASE takers # {}
  <2>1. \E R \in SUBSET readers : \E g \in takers : woken = R \cup {g}
    BY <1>1, <1>4
  <2>2. PICK R \in SUBSET readers : \E g \in takers : woken = R \cup {g}
    BY <2>1
  <2>3. PICK g \in takers : woken = R \cup {g}
    BY <2>2
  <2> QED
    BY <1>2, <2>3
<1> QED
  BY <1>3, <1>4

\* _out moves the tuple from the thread that puts it to the tuplespace, or to
\* the one thread woken that takes it.
LEMMA PutTupleMoves ==
  ASSUME Inv1, TupleInOnePlace, NEW t \in Thread, NEW s \in TS, NEW x \in held[t],
         NEW next, PutTuple(t, s, x, next), UNCHANGED <<call, fresh, left>>,
         pc[t] \in {"handling", "moving"}, ~isMatch(call[t]), call[t] # NoCall
  PROVE  TupleInOnePlace'
<1>1. PICK woken \in wakeable(s, x) :
        /\ out(s, x, woken)
        /\ held' = [u \in Thread |-> IF u = t THEN held[t] \ {x}
                                     ELSE IF u \in {e.tid : e \in woken} THEN {x}
                                     ELSE held[u]]
  BY DEF PutTuple
<1> DEFINE tids == {e.tid : e \in woken}
<1>2. x \in Tuple
  BY DEF Inv1, TypeOK
<1>3. Holds(t, x)
  BY DEF Holds, isMatch
<1>4. ASSUME NEW u \in tids
      PROVE  u \in Thread /\ u # t /\ held[u] = {} /\ call[u] # NoCall
  <2>1. PICK e \in woken : u = e.tid
    OBVIOUS
  <2>2. u \in Thread /\ pc[u] = "waiting" /\ call[u] \in Calls
    BY <2>1, WokenThreads
  <2> QED
    BY <2>2, CallParts DEF Inv1, CallShape
<1>5. ASSUME NEW y \in Tuple, y # x PROVE InOnePlace(y)'
  <2>1. \A u \in Thread : Holds(u, y)' <=> Holds(u, y)
    BY <1>1, <1>4, <1>5 DEF Holds
  <2>2. \A s2 \in TS : y \in tuples'[s2] <=> y \in tuples[s2]
    BY <1>1, <1>5 DEF out, Inv1, TypeOK, TSTypeOK
  <2> QED
    BY <2>1, <2>2, NotMoved DEF TupleInOnePlace
<1>6. /\ x \notin fresh' /\ x \notin left'
      /\ \A s2 \in TS : x \notin tuples[s2]
      /\ \A u \in Thread : Holds(u, x) => u = t
  BY <1>2, <1>3, HeldElsewhere DEF TupleInOnePlace
<1>7. ASSUME NEW u \in Thread
      PROVE  Holds(u, x)' <=> \E e \in woken : u = e.tid /\ e.destructive
  <2>1. CASE u = t
    BY <1>1, <1>4, <2>1 DEF Holds
  <2>2. CASE u # t /\ u \notin tids
    BY <1>1, <1>6, <2>2 DEF Holds
  <2>3. CASE u \in tids
    <3>1. PICK e \in woken : u = e.tid
      BY <2>3
    <3>2. e = EntryOf(u) /\ isMatch(call[u]) /\ call[u] # NoCall
      BY <3>1, <1>4, WokenThreads
    <3>3. e.destructive <=> call[u].op \notin {"rd", "rdp"}
      BY <3>2 DEF EntryOf, destructive, isMatch
    <3>4. \A f \in woken : u = f.tid => f = e
      BY <3>2, WokenThreads
    <3>5. held'[u] = {x}
      BY <1>1, <1>4, <2>3
    <3> QED
      BY <3>1, <3>2, <3>3, <3>4, <3>5 DEF Holds
  <2> QED
    BY <2>1, <2>2, <2>3
<1>8. CASE \E e \in woken : e.destructive
  <2>1. PICK e \in woken : e.destructive
    BY <1>8
  <2>2. tuples' = tuples
    BY <1>1, <1>8 DEF out
  <2>3. e.tid \in Thread /\ Holds(e.tid, x)'
    BY <1>4, <1>7, <2>1
  <2>4. \A u \in Thread : Holds(u, x)' => u = e.tid
    BY <1>7, <2>1, OneTaker
  <2>5. InOnePlace(x)'
    BY <1>6, <2>2, <2>3, <2>4 DEF InOnePlace
  <2> QED
    BY <1>5, <2>5 DEF TupleInOnePlace
<1>9. CASE ~\E e \in woken : e.destructive
  <2>1. \A s2 \in TS : x \in tuples'[s2] <=> s2 = s
    BY <1>1, <1>6, <1>9 DEF out, Inv1, TypeOK, TSTypeOK
  <2>2. \A u \in Thread : ~Holds(u, x)'
    BY <1>7, <1>9
  <2>3. InOnePlace(x)'
    BY <1>6, <2>1, <2>2 DEF InOnePlace
  <2> QED
    BY <1>5, <2>3 DEF TupleInOnePlace
<1> QED
  BY <1>8, <1>9

\* Every step keeps TupleInOnePlace.
LEMMA NextInOnePlace == Inv1 /\ TupleInOnePlace /\ [Next]_vars => TupleInOnePlace'
<1> SUFFICES ASSUME Inv1, TupleInOnePlace, [Next]_vars PROVE TupleInOnePlace'
  OBVIOUS
<1> USE ServerAssumption
<1>1. ASSUME NEW t \in Thread, Request(t) PROVE TupleInOnePlace'
  <2>1. UNCHANGED <<tuples, fresh, left, held>>
        /\ \A u \in Thread \ {t} : call'[u] = call[u]
    BY <1>1 DEF Request, Send, tsVars, Inv1, TypeOK
  <2>2. held[t] = {}
    BY <1>1 DEF Request, Send, Inv1, CallShape
  <2> SUFFICES ASSUME NEW y \in Tuple PROVE InOnePlace(y)'
    BY DEF TupleInOnePlace
  <2>3. \A u \in Thread : Holds(u, y)' <=> Holds(u, y)
    BY <2>1, <2>2 DEF Holds
  <2> QED
    BY <2>1, <2>3, NotMoved DEF TupleInOnePlace
<1>2. ASSUME NEW t \in Thread, RequestOut(t) PROVE TupleInOnePlace'
  <2>1. PICK c \in Calls, x \in fresh :
          /\ c.op = "out"
          /\ call' = [call EXCEPT ![t] = c]
          /\ held' = [held EXCEPT ![t] = {x}]
          /\ fresh' = fresh \ {x}
          /\ UNCHANGED <<tuples, left>>
    BY <1>2 DEF RequestOut, Send, tsVars
  <2>2. held[t] = {} /\ c # NoCall
    BY <1>2, CallParts DEF RequestOut, Send, Inv1, CallShape
  <2>3. ASSUME NEW u \in Thread, NEW y \in Tuple
        PROVE  Holds(u, y)' <=> Holds(u, y) \/ (u = t /\ y = x)
    BY <2>1, <2>2 DEF Holds, Inv1, TypeOK
  <2> SUFFICES ASSUME NEW y \in Tuple PROVE InOnePlace(y)'
    BY DEF TupleInOnePlace
  <2>4. CASE y # x
    BY <2>1, <2>3, <2>4, NotMoved DEF TupleInOnePlace
  <2>5. CASE y = x
    <3>1. y \notin left /\ (\A s \in TS : y \notin tuples[s])
          /\ (\A u \in Thread : ~Holds(u, y))
      BY <2>1, <2>5 DEF TupleInOnePlace, InOnePlace
    <3> QED
      BY <2>1, <2>3, <2>5, <3>1 DEF InOnePlace
  <2> QED
    BY <2>4, <2>5
<1>3. ASSUME NEW t \in Thread, Reply(t) PROVE TupleInOnePlace'
  <2>1. /\ pc[t] = "reply"
        /\ call' = [call EXCEPT ![t] = NoCall]
        /\ held' = [held EXCEPT ![t] = {}]
        /\ left' = IF destructive(call[t]) THEN left \cup held[t] ELSE left
        /\ UNCHANGED <<tuples, fresh>>
    BY <1>3 DEF Reply, tsVars
  <2>2. ASSUME NEW u \in Thread, NEW y \in Tuple
        PROVE  Holds(u, y)' <=> Holds(u, y) /\ u # t
    BY <2>1 DEF Holds, Inv1, TypeOK
  <2> SUFFICES ASSUME NEW y \in Tuple PROVE InOnePlace(y)'
    BY DEF TupleInOnePlace
  <2>3. CASE Holds(t, y)
    <3>1. destructive(call[t]) /\ y \in held[t]
      BY <2>1, <2>3 DEF Holds, Inv1, CallShape, isMatch, destructive
    <3>2. /\ y \notin fresh /\ y \in left'
          /\ \A s \in TS : y \notin tuples[s]
          /\ \A u \in Thread : ~Holds(u, y)'
      BY <2>1, <2>2, <2>3, <3>1, HeldElsewhere DEF TupleInOnePlace
    <3> QED
      BY <2>1, <3>2 DEF InOnePlace
  <2>4. CASE ~Holds(t, y)
    <3>1. destructive(call[t]) => y \notin held[t]
      BY <2>1, <2>4, CallParts DEF Holds, destructive, Inv1, CallShape
    <3>2. y \in left' <=> y \in left
      BY <2>1, <3>1
    <3>3. \A u \in Thread : Holds(u, y)' <=> Holds(u, y)
      BY <2>2, <2>4
    <3> QED
      BY <2>1, <3>2, <3>3, NotMoved DEF TupleInOnePlace
  <2> QED
    BY <2>3, <2>4
<1>4. ASSUME NEW t \in Thread, out_tuple(t) PROVE TupleInOnePlace'
  <2>1. PICK x \in held[t] : PutTuple(t, call[t].ts, x, "reply")
    BY <1>4 DEF out_tuple
  <2>2. call[t].ts \in TS /\ call[t] # NoCall
    BY <1>4, CallParts DEF out_tuple, Inv1, CallShape
  <2> QED
    BY <1>4, <2>1, <2>2, PutTupleMoves DEF out_tuple, isMatch
<1>5. ASSUME NEW t \in Thread, MoveTuple(t) PROVE TupleInOnePlace'
  <2>1. PICK x \in held[t] : PutTuple(t, call[t].dest, x, "moving")
    BY <1>5 DEF MoveTuple
  <2>2. call[t].dest \in TS /\ call[t] # NoCall /\ ~isMatch(call[t])
    BY <1>5, CallParts DEF MoveTuple, Inv1, CallShape, isMatch
  <2> QED
    BY <1>5, <2>1, <2>2, PutTupleMoves DEF MoveTuple
<1>6. ASSUME NEW t \in Thread, Collect(t) PROVE TupleInOnePlace'
  <2> DEFINE s == call[t].ts
             M == matchTuples(s, call[t].pattern)
  <2>1. /\ tuples' = [tuples EXCEPT ![s] = @ \ M]
        /\ held' = [held EXCEPT ![t] = M]
        /\ UNCHANGED <<call, fresh, left>>
    BY <1>6 DEF Collect, collect
  <2>2. s \in TS /\ call[t] # NoCall /\ call[t].op = "collect" /\ held[t] = {}
    BY <1>6, CallParts DEF Collect, Inv1, CallShape
  <2>3. M \subseteq tuples[s]
    BY DEF matchTuples
  <2> HIDE DEF s, M
  <2>4. ASSUME NEW u \in Thread, NEW y \in Tuple
        PROVE  Holds(u, y)' <=> Holds(u, y) \/ (u = t /\ y \in M)
    BY <2>1, <2>2 DEF Holds, Inv1, TypeOK
  <2>5. ASSUME NEW s2 \in TS, NEW y \in Tuple
        PROVE  y \in tuples'[s2] <=> y \in tuples[s2] /\ ~(s2 = s /\ y \in M)
    BY <2>1, <2>2 DEF Inv1, TypeOK, TSTypeOK
  <2> SUFFICES ASSUME NEW y \in Tuple PROVE InOnePlace(y)'
    BY DEF TupleInOnePlace
  <2>6. CASE y \notin M
    BY <2>1, <2>4, <2>5, <2>6, NotMoved DEF TupleInOnePlace
  <2>7. CASE y \in M
    <3>1. /\ y \notin fresh /\ y \notin left
          /\ \A s2 \in TS : y \in tuples[s2] => s2 = s
          /\ \A u \in Thread : ~Holds(u, y)
      BY <2>2, <2>3, <2>7 DEF TupleInOnePlace, InOnePlace
    <3> QED
      BY <2>1, <2>4, <2>5, <2>7, <3>1 DEF InOnePlace
  <2> QED
    BY <2>6, <2>7
<1>7. ASSUME NEW t \in Thread, CopyCollect(t) PROVE TupleInOnePlace'
  <2>1. PICK C \in SUBSET fresh :
          /\ held' = [held EXCEPT ![t] = C]
          /\ fresh' = fresh \ C
          /\ UNCHANGED <<tuples, call, left>>
    BY <1>7 DEF CopyCollect, tsVars
  <2>2. call[t] # NoCall /\ call[t].op = "copy_collect" /\ held[t] = {}
    BY <1>7, CallParts DEF CopyCollect, Inv1, CallShape
  <2>3. ASSUME NEW u \in Thread, NEW y \in Tuple
        PROVE  Holds(u, y)' <=> Holds(u, y) \/ (u = t /\ y \in C)
    BY <2>1, <2>2 DEF Holds, Inv1, TypeOK
  <2> SUFFICES ASSUME NEW y \in Tuple PROVE InOnePlace(y)'
    BY DEF TupleInOnePlace
  <2>4. CASE y \notin C
    BY <2>1, <2>3, <2>4, NotMoved DEF TupleInOnePlace
  <2>5. CASE y \in C
    <3>1. y \notin left /\ (\A s \in TS : y \notin tuples[s])
          /\ (\A u \in Thread : ~Holds(u, y))
      BY <2>1, <2>5 DEF TupleInOnePlace, InOnePlace
    <3> QED
      BY <2>1, <2>3, <2>5, <3>1 DEF InOnePlace
  <2> QED
    BY <2>4, <2>5
<1>8. ASSUME NEW t \in Thread, Match(t) PROVE TupleInOnePlace'
  <2> DEFINE s == call[t].ts
             d == destructive(call[t])
  <2>1. PICK x \in Tuple :
          /\ x \in tuples[s]
          /\ tuples' = IF d THEN [tuples EXCEPT ![s] = @ \ {x}] ELSE tuples
          /\ held' = [held EXCEPT ![t] = {x}]
          /\ UNCHANGED <<call, fresh, left>>
    BY <1>8 DEF Match, take, matchTuples
  <2>2. s \in TS /\ call[t] # NoCall /\ held[t] = {} /\ (d <=> call[t].op \notin {"rd", "rdp"})
    BY <1>8, CallParts DEF Match, Inv1, CallShape, isMatch, destructive
  <2> HIDE DEF s, d
  <2>3. ASSUME NEW u \in Thread, NEW y \in Tuple
        PROVE  Holds(u, y)' <=> Holds(u, y) \/ (d /\ u = t /\ y = x)
    BY <2>1, <2>2 DEF Holds, Inv1, TypeOK
  <2>4. ASSUME NEW s2 \in TS, NEW y \in Tuple
        PROVE  y \in tuples'[s2] <=> y \in tuples[s2] /\ ~(d /\ s2 = s /\ y = x)
    BY <2>1, <2>2 DEF Inv1, TypeOK, TSTypeOK
  <2> SUFFICES ASSUME NEW y \in Tuple PROVE InOnePlace(y)'
    BY DEF TupleInOnePlace
  <2>5. CASE ~(d /\ y = x)
    BY <2>1, <2>3, <2>4, <2>5, NotMoved DEF TupleInOnePlace
  <2>6. CASE d /\ y = x
    <3>1. /\ y \notin fresh /\ y \notin left
          /\ \A s2 \in TS : y \in tuples[s2] => s2 = s
          /\ \A u \in Thread : ~Holds(u, y)
      BY <2>1, <2>2, <2>6 DEF TupleInOnePlace, InOnePlace
    <3> QED
      BY <2>1, <2>3, <2>4, <2>6, <3>1 DEF InOnePlace
  <2> QED
    BY <2>5, <2>6
<1>9. CASE UNCHANGED <<tuples, call, held, fresh, left>>
  BY <1>9 DEF TupleInOnePlace, InOnePlace, Holds
<1> QED
  BY <1>1, <1>2, <1>3, <1>4, <1>5, <1>6, <1>7, <1>8, <1>9
  DEF Next, Client, Handler, Check, Watch, vars, callVars, tsVars, Moved, Mark,
      Block, block, ReturnTuple, BeginScan, ScanProcess, ScanThread, UnblockRandom,
      unblock, NothingToUnblock, RegisterThread, DeleteReference, Disconnect,
      RemoveThread, PurgeBlocked, ForgetProcess, Sweep, SweepDone

\* No tuple is lost, doubled or handed out twice, whatever the calls in
\* progress, also when connections are lost: out, in, rd and collect move each
\* tuple from one place to the next under the locks of the tuplespaces.
THEOREM TupleStaysInOnePlace == Spec => []TupleInOnePlace
<1>1. Init => TupleInOnePlace
  BY DEF Init, TSInit, TupleInOnePlace, InOnePlace, Holds
<1>2. TupleInOnePlace /\ Inv1 /\ [Next]_vars => TupleInOnePlace'
  BY NextInOnePlace
<1> QED
  BY <1>1, <1>2, Inv1Holds, PTL DEF Spec

-----------------------------------------------------------------------------
(* When no connection is lost during a call (MayDieInCall is FALSE).        *)


\* The threads of a process are listed under it until their connection is
\* found closed, and only idle threads leave.
ThreadsKnown ==
    \A t \in Thread :
        /\ life[t] \in {"live", "closed"} => t \in pthreads[proc[t]]
        /\ life[t] # "live" => pc[t] = "idle"

\* A process that is gone is found in refs only where the sweep has yet to go.
RefsKnown ==
    \A s \in TS : \A p \in refs[s] :
        \/ p \in processes
        \/ watch.step = "sweep" /\ p = watch.process /\ s \in watch.todo

\* socket_watcher looks for deadlocks only while it sweeps, in tuplespaces it
\* has already removed the process from.
WatcherJob ==
    /\ watch.step # "sweep" => job[watcher] = Free
    /\ job[watcher].step = "start" => job[watcher].ts \notin watch.todo
    /\ job[watcher].step = "scan" => job[watcher].processes \subseteq processes
    /\ watch.step = "purge" => watch.threads = {}

\* The inductive invariant of a server whose clients leave between calls.
Inv2 == /\ BlockedThreadsExact /\ ThreadsKnown /\ RefsKnown /\ WatcherJob
        /\ WatcherSurvives

\* Inv2 holds initially.
LEMMA InitInv2 == Init => Inv2
<1> SUFFICES ASSUME Init PROVE Inv2
  OBVIOUS
<1>1. Init => TypeOK
  BY InitType
<1>2. BlockedThreadsExact /\ RefsKnown
  BY DEF Init, BlockedThreadsExact, RefsKnown
<1>3. ThreadsKnown
  BY ServerAssumption DEF Init, ThreadsKnown
<1>4. WatcherJob /\ WatcherSurvives
  BY DEF Init, WatcherJob, WatcherSurvives, Watching, Free, Checker
<1> QED
  BY <1>2, <1>3, <1>4 DEF Inv2

\* _out leaves blocked_threads exact: those it wakes stay in it until answered.
LEMMA PutTupleBlocked ==
  ASSUME Inv1, BlockedThreadsExact, ThreadsKnown,
         NEW t \in Thread, NEW s \in TS, NEW x, NEW next \in {"reply", "moving"},
         PutTuple(t, s, x, next), pc[t] \in {"handling", "moving"},
         UNCHANGED <<blocked_threads, clientVars>>
  PROVE  BlockedThreadsExact' /\ ThreadsKnown'
<1>1. PICK woken \in wakeable(s, x) :
        pc' = [u \in Thread |-> IF u = t THEN next
                                ELSE IF u \in {e.tid : e \in woken} THEN "woken"
                                ELSE pc[u]]
  BY DEF PutTuple
<1>2. \A u \in {e.tid : e \in woken} : u \in Thread /\ pc[u] = "waiting"
  BY WokenThreads
<1>3. BlockedThreadsExact'
  BY <1>1, <1>2 DEF BlockedThreadsExact
<1>4. ThreadsKnown'
  BY <1>1, <1>2 DEF ThreadsKnown, clientVars
<1> QED
  BY <1>3, <1>4

\* Every step keeps blocked_threads exact and the live threads known.
LEMMA NextBlockedThreads ==
  ASSUME MayDieInCall = FALSE, Inv1, Inv2, [Next]_vars
  PROVE  BlockedThreadsExact' /\ ThreadsKnown'
<1> USE DEF Inv2
<1> USE ServerAssumption
<1>1. ASSUME NEW t \in Thread,
             \/ Request(t) \/ RequestOut(t) \/ Reply(t) \/ Collect(t) \/ CopyCollect(t)
             \/ Moved(t) \/ Mark(t) \/ Match(t) \/ Block(t) \/ ReturnTuple(t)
      PROVE  BlockedThreadsExact' /\ ThreadsKnown'
  BY <1>1 DEF Inv1, TypeOK, BlockedThreadsExact, ThreadsKnown, Request, RequestOut,
     Send, Reply, Collect, CopyCollect, Moved, Mark, Match, Block, ReturnTuple,
     isMatch, clientVars
<1>2. ASSUME NEW t \in Thread, out_tuple(t) PROVE BlockedThreadsExact' /\ ThreadsKnown'
  <2>1. PICK x \in held[t] : PutTuple(t, call[t].ts, x, "reply")
    BY <1>2 DEF out_tuple
  <2>2. call[t].ts \in TS
    BY <1>2, CallParts DEF Inv1, out_tuple, CallShape
  <2> QED
    BY <1>2, <2>1, <2>2, PutTupleBlocked DEF out_tuple
<1>3. ASSUME NEW t \in Thread, MoveTuple(t) PROVE BlockedThreadsExact' /\ ThreadsKnown'
  <2>1. PICK x \in held[t] : PutTuple(t, call[t].dest, x, "moving")
    BY <1>3 DEF MoveTuple
  <2>2. call[t].dest \in TS
    BY <1>3, CallParts DEF Inv1, MoveTuple, CallShape
  <2> QED
    BY <1>3, <2>1, <2>2, PutTupleBlocked DEF MoveTuple
<1>4. ASSUME NEW w \in Checker, UnblockRandom(w)
      PROVE  BlockedThreadsExact' /\ ThreadsKnown'
  <2>1. job[w].ts \in TS
    BY <1>4 DEF UnblockRandom, ScanFoundDeadlock, Inv1, TypeOK, Job
  <2>2. PICK e \in blocked_list[job[w].ts] :
          /\ IF e.tid \in blocked_threads
             THEN pc' = [pc EXCEPT ![e.tid] = "reply"]
             ELSE pc' = pc
          /\ blocked_threads' = blocked_threads \ {e.tid}
          /\ UNCHANGED clientVars
    BY <1>4 DEF UnblockRandom
  <2>3. e.tid \in Thread /\ pc[e.tid] = "waiting"
    BY <2>1 DEF Inv1, TypeOK, TSTypeOK, Entry, WaitersListed
  <2>4. BlockedThreadsExact'
    BY <2>2, <2>3 DEF Inv1, TypeOK, BlockedThreadsExact
  <2>5. ThreadsKnown'
    BY <2>2, <2>3 DEF Inv1, TypeOK, BlockedThreadsExact, ThreadsKnown, clientVars
  <2> QED
    BY <2>4, <2>5
<1>5. ASSUME NEW t \in Thread, RegisterThread(t)
      PROVE  BlockedThreadsExact' /\ ThreadsKnown'
  BY <1>5 DEF RegisterThread, Inv1, TypeOK, BlockedThreadsExact, ThreadsKnown, callVars
<1>6. ASSUME NEW t \in Thread, Disconnect(t)
      PROVE  BlockedThreadsExact' /\ ThreadsKnown'
  BY <1>6 DEF Disconnect, Inv1, TypeOK, BlockedThreadsExact, ThreadsKnown, callVars
<1>7. ASSUME NEW t \in Thread, RemoveThread(t)
      PROVE  BlockedThreadsExact' /\ ThreadsKnown'
  BY <1>7 DEF RemoveThread, Inv1, TypeOK, BlockedThreadsExact, ThreadsKnown, callVars
<1>8. ASSUME PurgeBlocked PROVE BlockedThreadsExact' /\ ThreadsKnown'
  BY <1>8 DEF PurgeBlocked, WatcherJob
<1>9. CASE UNCHANGED <<pc, blocked_threads, life, pthreads>>
  BY <1>9 DEF BlockedThreadsExact, ThreadsKnown
<1> QED
  BY <1>1, <1>2, <1>3, <1>4, <1>5, <1>6, <1>7, <1>8, <1>9
  DEF Next, Client, Handler, Check, Watch, vars, callVars, clientVars, BeginScan,
      ScanProcess, ScanThread, NothingToUnblock, DeleteReference, ForgetProcess,
      Sweep, SweepDone

-----------------------------------------------------------------------------
(* What socket_watcher does *)

WatchPart == RefsKnown /\ WatcherJob /\ WatcherSurvives

\* Every step keeps the part about socket_watcher: removeProcess empties refs
\* one tuplespace at a time, each before it searches there.
LEMMA NextWatchPart ==
  ASSUME MayDieInCall = FALSE, Inv1, Inv2, [Next]_vars
  PROVE  WatchPart'
<1> USE ServerAssumption DEF Inv2, WatchPart
<1>1. ASSUME NEW w \in Checker, BeginScan(w) PROVE WatchPart'
  <2>1. UNCHANGED <<refs, processes, watch>>
    BY <1>1 DEF BeginScan, clientVars
  <2>2. CASE w = watcher
    <3>1. watch.step = "sweep" /\ job[w].ts \in TS /\ job[w].ts \notin watch.todo
      BY <1>1, <2>2 DEF BeginScan, WatcherJob, Inv1, TypeOK, Job, Free
    <3>2. refs[job[w].ts] \subseteq processes
      BY <3>1 DEF RefsKnown
    <3>3. \/ job'[watcher] = Free
          \/ job'[watcher] = [step |-> "scan", ts |-> job[w].ts,
                              processes |-> refs[job[w].ts], threads |-> {}]
      <4>1. w \in DOMAIN job
        BY DEF Inv1, TypeOK
      <4> QED
        BY <1>1, <2>2, <4>1 DEF BeginScan
    <3> QED
      BY <2>1, <3>1, <3>2, <3>3 DEF RefsKnown, WatcherJob, WatcherSurvives, Free
  <2>3. CASE w # watcher
    <3>1. job'[watcher] = job[watcher]
      BY <1>1, <2>3 DEF BeginScan, Inv1, TypeOK, Checker
    <3> QED
      BY <2>1, <3>1 DEF RefsKnown, WatcherJob, WatcherSurvives
  <2> QED
    BY <2>2, <2>3
<1>2. ASSUME NEW w \in Checker, ScanProcess(w) PROVE WatchPart'
  <2>1. PICK p \in job[w].processes :
          IF p \in processes
          THEN /\ job' = [job EXCEPT ![w].processes = @ \ {p},
                                     ![w].threads = @ \cup pthreads[p]]
               /\ UNCHANGED watch
          ELSE Fail(w)
    BY <1>2 DEF ScanProcess
  <2>2. UNCHANGED <<refs, processes>>
    BY <1>2 DEF ScanProcess, clientVars
  <2>3. CASE w = watcher
    <3>1. job[w].step = "scan" /\ watch.step = "sweep" /\ p \in processes
      BY <1>2, <2>1, <2>3 DEF ScanProcess, WatcherJob, Free
    <3>2. job[w] \in [step: {"scan"}, ts: TS, processes: SUBSET Process,
                      threads: SUBSET Thread]
      BY <3>1 DEF Inv1, TypeOK, Job
    <3>3. job'[w].step = "scan" /\ job'[w].processes \subseteq processes
      BY <2>1, <2>3, <3>1, <3>2 DEF WatcherJob, Inv1, TypeOK
    <3> QED
      BY <2>1, <2>2, <2>3, <3>1, <3>3 DEF RefsKnown, WatcherJob, WatcherSurvives
  <2>4. CASE w # watcher
    <3>1. job'[watcher] = job[watcher] /\ watch' = watch
      BY <2>1, <2>4 DEF Fail, Inv1, TypeOK, Checker
    <3> QED
      BY <2>2, <3>1 DEF RefsKnown, WatcherJob, WatcherSurvives
  <2> QED
    BY <2>3, <2>4
<1>3. ASSUME NEW w \in Checker, ScanThread(w) PROVE WatchPart'
  <2>1. UNCHANGED <<refs, processes, watch>>
    BY <1>3 DEF ScanThread, clientVars
  <2>2. job[w] \in [step: {"scan"}, ts: TS, processes: SUBSET Process,
                    threads: SUBSET Thread]
    BY <1>3 DEF ScanThread, Inv1, TypeOK, Job
  <2>3. \/ job'[watcher] = job[watcher]
        \/ job'[watcher] = Free
        \/ /\ job[watcher].step = "scan" /\ job'[watcher].step = "scan"
           /\ job'[watcher].processes = job[watcher].processes
    BY <1>3, <2>2 DEF ScanThread, Inv1, TypeOK, Checker
  <2> QED
    BY <2>1, <2>3 DEF RefsKnown, WatcherJob, WatcherSurvives, Free
<1>4. ASSUME NEW w \in Checker, UnblockRandom(w) PROVE WatchPart'
  <2>1. job[w].ts \in TS
    BY <1>4 DEF UnblockRandom, ScanFoundDeadlock, Inv1, TypeOK, Job
  <2>2. ASSUME NEW e \in blocked_list[job[w].ts] PROVE e.tid \in blocked_threads
    BY <2>1 DEF Inv1, TypeOK, TSTypeOK, Entry, WaitersListed, BlockedThreadsExact
  <2>3. /\ UNCHANGED <<refs, processes, watch>>
        /\ job' = [job EXCEPT ![w] = Free]
    BY <1>4, <2>2 DEF UnblockRandom, clientVars
  <2>4. job'[watcher] = job[watcher] \/ job'[watcher] = Free
    BY <2>3 DEF Inv1, TypeOK, Checker
  <2> QED
    BY <2>3, <2>4 DEF RefsKnown, WatcherJob, WatcherSurvives, Free
<1>5. ASSUME NEW w \in Checker, NothingToUnblock(w) PROVE WatchPart'
  <2>1. UNCHANGED <<refs, processes, watch>>
    BY <1>5 DEF NothingToUnblock, clientVars
  <2>2. job'[watcher] = job[watcher] \/ job'[watcher] = Free
    BY <1>5 DEF NothingToUnblock, Inv1, TypeOK, Checker
  <2> QED
    BY <2>1, <2>2 DEF RefsKnown, WatcherJob, WatcherSurvives, Free
<1>6. ASSUME NEW t \in Thread, Block(t) PROVE WatchPart'
  <2>1. UNCHANGED <<refs, processes, watch>> /\ job'[watcher] = job[watcher]
    BY <1>6 DEF Block, clientVars, Inv1, TypeOK, Checker
  <2> QED
    BY <2>1 DEF RefsKnown, WatcherJob, WatcherSurvives
<1>7. ASSUME NEW p \in Process, NEW s \in TS, DeleteReference(p, s) PROVE WatchPart'
  <2>1. UNCHANGED <<processes, watch>> /\ job'[watcher] = job[watcher]
    BY <1>7 DEF DeleteReference, Inv1, TypeOK, Checker
  <2>2. \A s2 \in TS : refs'[s2] \subseteq refs[s2]
    BY <1>7 DEF DeleteReference, Inv1, TypeOK
  <2> QED
    BY <2>1, <2>2 DEF RefsKnown, WatcherJob, WatcherSurvives
<1>8. ASSUME NEW t \in Thread, RemoveThread(t) PROVE WatchPart'
  <2>1. /\ UNCHANGED <<refs, processes, job>>
        /\ watch = Watching
        /\ watch'.step \in {"sweep", "purge"}
    BY <1>8 DEF RemoveThread, Inv1, TypeOK
  <2>2. job[watcher] = Free /\ \A s \in TS : refs[s] \subseteq processes
    BY <2>1 DEF WatcherJob, RefsKnown, Watching
  <2>3. watch'.step = "purge" => watch'.threads = {}
    <3> SUFFICES ASSUME watch'.step = "purge", NEW u \in blocked_threads,
                        proc[u] = proc[t]
                 PROVE  FALSE
      BY <1>8 DEF RemoveThread, Inv1, TypeOK
    <3>1. pthreads[proc[t]] \ {t} = {}
      BY <1>8, <2>1 DEF RemoveThread, Inv1, TypeOK
    <3>2. u \in Thread /\ pc[u] # "idle" /\ u \in pthreads[proc[u]]
      BY DEF BlockedThreadsExact, ThreadsKnown
    <3>3. u # t
      BY <1>8, <3>2 DEF RemoveThread, ThreadsKnown
    <3> QED
      BY <3>1, <3>2, <3>3
  <2> QED
    BY <2>1, <2>2, <2>3 DEF RefsKnown, WatcherJob, WatcherSurvives, Free
<1>9. ASSUME PurgeBlocked PROVE WatchPart'
  BY <1>9 DEF PurgeBlocked, WatcherJob
<1>10. ASSUME ForgetProcess PROVE WatchPart'
  <2>1. /\ watch.step = "purge" /\ watch'.step = "sweep" /\ watch'.todo = TS
        /\ watch'.process = watch.process
        /\ processes' = processes \ {watch.process}
        /\ UNCHANGED <<refs, job>>
    BY <1>10 DEF ForgetProcess, Inv1, TypeOK
  <2>2. job[watcher] = Free /\ \A s \in TS : refs[s] \subseteq processes
    BY <2>1 DEF WatcherJob, RefsKnown
  <2> QED
    BY <2>1, <2>2 DEF RefsKnown, WatcherJob, WatcherSurvives, Free
<1>11. ASSUME NEW s \in TS, Sweep(s) PROVE WatchPart'
  <2>1. /\ watch.step = "sweep" /\ watch'.step = "sweep"
        /\ watch'.todo = watch.todo \ {s}
        /\ watch'.process = watch.process
        /\ refs' = [refs EXCEPT ![s] = @ \ {watch.process}]
        /\ job'[watcher] = Start(s)
        /\ processes' = processes
    BY <1>11 DEF Sweep, Inv1, TypeOK, Checker
  <2> QED
    BY <2>1 DEF RefsKnown, WatcherJob, WatcherSurvives, Start, Inv1, TypeOK
<1>12. ASSUME SweepDone PROVE WatchPart'
  <2>1. /\ job[watcher] = Free /\ watch.todo = {} /\ watch' = Watching
        /\ UNCHANGED <<refs, processes, job>>
    BY <1>12 DEF SweepDone, clientVars
  <2> QED
    BY <2>1 DEF RefsKnown, WatcherJob, WatcherSurvives, Watching, Free
<1>13. CASE UNCHANGED <<refs, processes, watch, job>>
  BY <1>13 DEF RefsKnown, WatcherJob, WatcherSurvives
<1> QED
  BY <1>1, <1>2, <1>3, <1>4, <1>5, <1>6, <1>7, <1>8, <1>9, <1>10, <1>11, <1>12, <1>13
  DEF Next, Client, Handler, Check, Watch, vars, clientVars, Request, RequestOut, Send,
      Reply, out_tuple, Collect, CopyCollect, MoveTuple, Moved, Mark, Match,
      ReturnTuple, RegisterThread, Disconnect

-----------------------------------------------------------------------------
\* Inv2 holds in every state when no connection is lost during a call:
\* blocked_threads, the threads of each process, and refs agree.
THEOREM Inv2Holds ==
  ASSUME MayDieInCall = FALSE
  PROVE  Spec => []Inv2
<1>1. Inv1 /\ Inv2 /\ [Next]_vars => Inv2'
  BY NextBlockedThreads, NextWatchPart DEF Inv2, WatchPart
<1> QED
  BY InitInv2, Inv1Holds, <1>1, PTL DEF Spec

\* No exception ends socket_watcher, and the server with it, as long as no
\* connection is lost during a call: each process leaves pthreads and refs in an
\* order that keeps the search for a deadlock from missing it.
THEOREM WatcherNeverFails ==
  ASSUME MayDieInCall = FALSE
  PROVE  Spec => []WatcherSurvives
  BY Inv2Holds, PTL DEF Inv2

\* blocked_threads holds exactly the threads whose call looks for a tuple or has
\* one that is yet to be sent: read_tuple and in_tuple enter them, do_return_tuple
\* and unblock_thread remove them.
THEOREM BlockedThreadsAreExact ==
  ASSUME MayDieInCall = FALSE
  PROVE  Spec => []BlockedThreadsExact
  BY Inv2Holds, PTL DEF Inv2

\* The blocked list of each tuplespace is exactly its waiting threads, each once
\* and with the template of its call.
THEOREM BlockedListsAreExact ==
  ASSUME MayDieInCall = FALSE
  PROVE  Spec => []BlockedListExact
<1>1. Inv1 /\ Inv2 => BlockedListExact
  <2> SUFFICES ASSUME Inv1, Inv2, NEW s \in TS
               PROVE  blocked_list[s] = {EntryOf(t) :
                        t \in {u \in Thread : pc[u] = "waiting" /\ call[u].ts = s}}
    BY DEF BlockedListExact
  <2>1. ASSUME NEW e \in blocked_list[s]
        PROVE  /\ e.tid \in Thread /\ pc[e.tid] = "waiting" /\ call[e.tid].ts = s
               /\ e = EntryOf(e.tid)
    BY DEF Inv1, TypeOK, TSTypeOK, Entry, WaitersListed
  <2>2. ASSUME NEW t \in Thread, pc[t] = "waiting", call[t].ts = s
        PROVE  EntryOf(t) \in blocked_list[s]
    BY <2>2 DEF Inv1, Inv2, WaitersListed, BlockedThreadsExact
  <2> QED
    BY <2>1, <2>2
<1> QED
  BY <1>1, Inv1Holds, Inv2Holds, PTL
=============================================================================
