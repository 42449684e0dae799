-------------------------- MODULE Refinement_proofs --------------------------
(***************************************************************************)
(* LindaServer implements Linda: every step of the server is a step of the *)
(* abstract specification or changes nothing a client can see.             *)
(***************************************************************************)
EXTENDS LindaServer_proofs

\* The step functions of the refinement mapping, case by case.
LEMMA PhaseOf ==
  ASSUME NEW t \in Thread
  PROVE  /\ pc[t] = "idle" => phase[t] = "idle"
         /\ pc[t] \in {"handling", "marked", "waiting"} => phase[t] = "pending"
         /\ pc[t] = "moving" => phase[t] = "moving"
         /\ pc[t] \in {"found", "woken", "reply", "failed"} => phase[t] = "done"
  BY DEF phase

\* The same in the next state.
LEMMA PhaseNext ==
  ASSUME NEW t \in Thread
  PROVE  /\ pc'[t] = "idle" => phase'[t] = "idle"
         /\ pc'[t] \in {"handling", "marked", "waiting"} => phase'[t] = "pending"
         /\ pc'[t] = "moving" => phase'[t] = "moving"
         /\ pc'[t] \in {"found", "woken", "reply", "failed"} => phase'[t] = "done"
  BY DEF phase

\* One thread makes progress.
LEMMA PhaseStep ==
  ASSUME TypeOK, NEW t \in Thread, NEW next \in PCs, pc' = [pc EXCEPT ![t] = next]
  PROVE  phase' = [phase EXCEPT ![t] = phase'[t]]
<1>1. DOMAIN phase = Thread /\ DOMAIN phase' = Thread
  BY DEF phase
<1>2. \A u \in Thread : u # t => pc'[u] = pc[u]
  BY DEF TypeOK
<1>3. \A u \in Thread : u # t => phase'[u] = phase[u]
  BY <1>2 DEF phase
<1> QED
  BY <1>1, <1>3 DEF phase

\* The server starts where the abstract specification does.
LEMMA InitRefines == Init => Abstract!Init
<1> SUFFICES ASSUME Init PROVE Abstract!Init
  OBVIOUS
<1>1. phase = [t \in Thread |-> "idle"]
  BY DEF Init, phase
<1> QED
  BY <1>1 DEF Init, TSInit, Abstract!Init

\* Since stored tuples hold no types, a tuple that would wake a waiting thread
\* fills its template.
LEMMA WakesFills ==
  ASSUME NEW x \in Tuple, NEW p, Wakes(x, p)
  PROVE  Fills(x, p)
  BY ServerAssumption DEF Wakes, Fills, doesMatch, elementMatches, AllActual

\* No stored tuple would wake a waiting thread, whatever its template.
NoneWouldWake ==
    \A s \in TS : \A e \in blocked_list[s], x \in tuples[s] : ~Wakes(x, e.pattern)

\* _out wakes all that the tuple would wake, or does not store it.
LEMMA PutTupleNoneWake ==
  ASSUME TypeOK, NoneWouldWake, NEW t \in Thread, NEW s \in TS, NEW x \in Tuple,
         NEW next, PutTuple(t, s, x, next)
  PROVE  NoneWouldWake'
<1>1. PICK woken \in wakeable(s, x) : out(s, x, woken)
  BY DEF PutTuple
<1> SUFFICES ASSUME NEW s2 \in TS, NEW e \in blocked_list'[s2], NEW y \in tuples'[s2],
                    Wakes(y, e.pattern)
             PROVE  FALSE
  BY DEF NoneWouldWake, Wakes
<1>2. e \in blocked_list[s2] /\ (s2 = s => e \notin woken)
  BY <1>1 DEF out, TypeOK, TSTypeOK
<1>3. y \notin tuples[s2]
  BY <1>2 DEF NoneWouldWake
<1>4. y = x /\ s2 = s /\ ~(\E f \in woken : f.destructive)
  BY <1>1, <1>3 DEF out, TypeOK, TSTypeOK
<1>5. woken = checkBlocked(s, x)
  BY <1>1, <1>4, AllReadersWoken
<1>6. e \in checkBlocked(s, x)
  BY <1>2, <1>4 DEF checkBlocked, Wakes
<1> QED
  BY <1>2, <1>4, <1>5, <1>6

\* Every step keeps NoneWouldWake.
LEMMA NextNoneWake == Inv1 /\ NoneWouldWake /\ [Next]_vars => NoneWouldWake'
<1> SUFFICES ASSUME Inv1, NoneWouldWake, [Next]_vars PROVE NoneWouldWake'
  OBVIOUS
<1>1. ASSUME NEW t \in Thread, out_tuple(t) PROVE NoneWouldWake'
  <2>1. PICK x \in held[t] : PutTuple(t, call[t].ts, x, "reply")
    BY <1>1 DEF out_tuple
  <2>2. x \in Tuple /\ call[t].ts \in TS
    BY <1>1, <2>1, CallParts DEF Inv1, TypeOK, out_tuple, CallShape
  <2> QED
    BY <2>1, <2>2, PutTupleNoneWake DEF Inv1
<1>2. ASSUME NEW t \in Thread, MoveTuple(t) PROVE NoneWouldWake'
  <2>1. PICK x \in held[t] : PutTuple(t, call[t].dest, x, "moving")
    BY <1>2 DEF MoveTuple
  <2>2. x \in Tuple /\ call[t].dest \in TS
    BY <1>2, <2>1, CallParts DEF Inv1, TypeOK, MoveTuple, CallShape
  <2> QED
    BY <2>1, <2>2, PutTupleNoneWake DEF Inv1
<1>3. ASSUME NEW t \in Thread, Block(t) PROVE NoneWouldWake'
  <2>1. /\ matchTuples(call[t].ts, call[t].pattern) = {}
        /\ tuples' = tuples
        /\ blocked_list' = [blocked_list EXCEPT ![call[t].ts] =
                              {e \in @ : e.tid # t} \cup {EntryOf(t)}]
    BY <1>3 DEF Block, block, EntryOf
  <2> SUFFICES ASSUME NEW s \in TS, NEW e \in blocked_list'[s], NEW x \in tuples[s],
                      Wakes(x, e.pattern)
               PROVE  FALSE
    BY <2>1 DEF NoneWouldWake, Wakes
  <2>2. CASE e \in blocked_list[s]
    BY <2>2 DEF NoneWouldWake
  <2>3. CASE e \notin blocked_list[s]
    <3>1. s = call[t].ts /\ e = EntryOf(t)
      BY <2>1, <2>3 DEF Inv1, TypeOK, TSTypeOK
    <3>2. Fills(x, call[t].pattern)
      BY <3>1, WakesFills DEF EntryOf, Inv1, TypeOK, TSTypeOK
    <3> QED
      BY <2>1, <3>1, <3>2 DEF matchTuples, Fills
  <2> QED
    BY <2>2, <2>3
<1>4. CASE /\ \A s \in TS : tuples'[s] \subseteq tuples[s]
           /\ \A s \in TS : blocked_list'[s] \subseteq blocked_list[s]
  BY <1>4 DEF NoneWouldWake, Wakes
<1>5. ASSUME NEW t \in Thread, Match(t)
      PROVE  /\ \A s \in TS : tuples'[s] \subseteq tuples[s]
             /\ blocked_list' = blocked_list
  BY <1>5 DEF Match, take, Inv1, TypeOK, TSTypeOK
<1>6. ASSUME NEW t \in Thread, Collect(t)
      PROVE  /\ \A s \in TS : tuples'[s] \subseteq tuples[s]
             /\ blocked_list' = blocked_list
  BY <1>6 DEF Collect, collect, Inv1, TypeOK, TSTypeOK
<1>7. ASSUME NEW w \in Checker, UnblockRandom(w)
      PROVE  /\ tuples' = tuples
             /\ \A s \in TS : blocked_list'[s] \subseteq blocked_list[s]
  BY <1>7 DEF UnblockRandom, unblock, Inv1, TypeOK, TSTypeOK
<1> QED
  BY <1>1, <1>2, <1>3, <1>4, <1>5, <1>6, <1>7
  DEF Next, Client, Handler, Check, Watch, vars, tsVars, Request, RequestOut, Send,
      Reply, CopyCollect, Moved, Mark, ReturnTuple, BeginScan, ScanProcess,
      ScanThread, NothingToUnblock, RegisterThread, DeleteReference, Disconnect,
      RemoveThread, PurgeBlocked, ForgetProcess, Sweep, SweepDone

-----------------------------------------------------------------------------
(* The steps *)

\* Putting a tuple is the abstract Place, serving the threads that were woken.
LEMMA PutTupleRefines ==
  ASSUME Inv1, NEW t \in Thread, NEW s \in TS, NEW x \in held[t],
         NEW next \in {"reply", "moving"}, PutTuple(t, s, x, next),
         pc[t] \in {"handling", "moving"}
  PROVE  Abstract!Place(t, s, x, phase'[t])
<1>1. PICK woken \in wakeable(s, x) :
        /\ out(s, x, woken)
        /\ pc' = [u \in Thread |-> IF u = t THEN next
                                   ELSE IF u \in {e.tid : e \in woken} THEN "woken"
                                   ELSE pc[u]]
        /\ held' = [u \in Thread |-> IF u = t THEN held[t] \ {x}
                                     ELSE IF u \in {e.tid : e \in woken} THEN {x}
                                     ELSE held[u]]
  BY DEF PutTuple
<1> DEFINE W == {e.tid : e \in woken}
<1>2. ASSUME NEW e \in woken
      PROVE  /\ e.tid \in Thread /\ pc[e.tid] = "waiting" /\ isMatch(call[e.tid])
             /\ call[e.tid].ts = s
             /\ e.pattern = call[e.tid].pattern
             /\ e.destructive = destructive(call[e.tid])
             /\ e = EntryOf(e.tid)
             /\ Wakes(x, e.pattern)
  <2>1. e \in checkBlocked(s, x)
    BY DEF wakeable
  <2> QED
    BY <2>1, WokenThreads DEF EntryOf, checkBlocked, Wakes
<1>3. W \in SUBSET Abstract!Waiting(s, x)
  BY <1>2, PhaseOf DEF Abstract!Waiting, Abstract!Takes, Abstract!Reads, isMatch
<1>4. \A u, v \in W : Abstract!Takes(call[u]) /\ Abstract!Takes(call[v]) => u = v
  <2> SUFFICES ASSUME NEW e \in woken, NEW f \in woken,
                      Abstract!Takes(call[e.tid]), Abstract!Takes(call[f.tid])
               PROVE  e.tid = f.tid
    OBVIOUS
  <2>1. e.destructive /\ f.destructive
    BY <1>2 DEF Abstract!Takes, destructive
  <2>2. e = f
    BY <2>1, OneTaker
  <2> QED
    BY <2>2
<1>5. (\E u \in W : Abstract!Takes(call[u])) <=> \E e \in woken : e.destructive
  BY <1>2 DEF Abstract!Takes, destructive
<1>6. tuples' = IF \E u \in W : Abstract!Takes(call[u]) THEN tuples
               ELSE [tuples EXCEPT ![s] = @ \cup {x}]
  BY <1>1, <1>5 DEF out
<1>7. phase' = [u \in Thread |-> IF u = t THEN phase'[t]
                                ELSE IF u \in W THEN "done" ELSE phase[u]]
  <2>1. ASSUME NEW u \in Thread
        PROVE  phase'[u] = IF u = t THEN phase'[t]
                           ELSE IF u \in W THEN "done" ELSE phase[u]
    <3>1. CASE u = t
      BY <3>1
    <3>2. CASE u # t /\ u \in W
      BY <1>1, <3>2, PhaseNext
    <3>3. CASE u # t /\ u \notin W
      <4>1. pc'[u] = pc[u]
        BY <1>1, <3>3
      <4> QED
        BY <3>3, <4>1 DEF phase
    <3> QED
      BY <3>1, <3>2, <3>3
  <2> HIDE DEF W
  <2>2. phase' = [u \in Thread |-> phase'[u]]
    BY DEF phase
  <2> QED
    BY <2>1, <2>2
<1> QED
  BY <1>1, <1>3, <1>4, <1>6, <1>7 DEF Abstract!Place

\* Every step of the server is a step of the abstract specification, or one
\* that changes neither the tuples nor what its clients see.
LEMMA NextRefines ==
  Inv1 /\ Inv1' /\ NoneWouldWake /\ [Next]_vars => [Abstract!Next]_(Abstract!vars)
<1> SUFFICES ASSUME Inv1, Inv1', NoneWouldWake, [Next]_vars
             PROVE  Abstract!Next \/ UNCHANGED Abstract!vars
  OBVIOUS
<1> USE ServerAssumption
<1>1. ASSUME NEW t \in Thread, Request(t) PROVE Abstract!Next
  <2>1. phase[t] = "idle" /\ phase' = [phase EXCEPT ![t] = "pending"]
    <3>1. pc[t] = "idle" /\ pc' = [pc EXCEPT ![t] = "handling"]
      BY <1>1 DEF Request, Send
    <3>2. pc'[t] = "handling"
      BY <3>1 DEF Inv1, TypeOK
    <3> QED
      BY <3>1, <3>2, PhaseOf, PhaseNext, PhaseStep DEF Inv1, PCs
  <2>2. Abstract!Invoke(t)
    BY <1>1, <2>1 DEF Request, Send, tsVars, Abstract!Invoke
  <2> QED
    BY <2>2 DEF Abstract!Next
<1>2. ASSUME NEW t \in Thread, RequestOut(t) PROVE Abstract!Next
  <2>1. phase[t] = "idle" /\ phase' = [phase EXCEPT ![t] = "pending"]
    <3>1. pc[t] = "idle" /\ pc' = [pc EXCEPT ![t] = "handling"]
      BY <1>2 DEF RequestOut, Send
    <3>2. pc'[t] = "handling"
      BY <3>1 DEF Inv1, TypeOK
    <3> QED
      BY <3>1, <3>2, PhaseOf, PhaseNext, PhaseStep DEF Inv1, PCs
  <2>2. Abstract!Invoke(t)
    BY <1>2, <2>1 DEF RequestOut, Send, tsVars, Abstract!Invoke
  <2> QED
    BY <2>2 DEF Abstract!Next
<1>3. ASSUME NEW t \in Thread, Reply(t) PROVE Abstract!Next
  <2>1. phase[t] = "done" /\ phase' = [phase EXCEPT ![t] = "idle"]
    <3>1. pc[t] = "reply" /\ pc' = [pc EXCEPT ![t] = "idle"]
      BY <1>3 DEF Reply
    <3>2. pc'[t] = "idle"
      BY <3>1 DEF Inv1, TypeOK
    <3> QED
      BY <3>1, <3>2, PhaseOf, PhaseNext, PhaseStep DEF Inv1, PCs
  <2>2. Abstract!Return(t)
    BY <1>3, <2>1 DEF Reply, tsVars, destructive, Abstract!Takes, Abstract!Return
  <2> QED
    BY <2>2 DEF Abstract!Next
<1>4. ASSUME NEW t \in Thread, out_tuple(t) PROVE Abstract!Next
  <2>1. PICK x \in held[t] : PutTuple(t, call[t].ts, x, "reply")
    BY <1>4 DEF out_tuple
  <2>2. call[t].ts \in TS /\ pc[t] = "handling" /\ call[t].op = "out"
    BY <1>4, CallParts DEF Inv1, out_tuple, CallShape
  <2>3. phase[t] = "pending" /\ phase'[t] = "done"
    BY <2>1, <2>2, PhaseOf, PhaseNext DEF PutTuple
  <2>4. Abstract!Place(t, call[t].ts, x, "done")
    BY <2>1, <2>2, <2>3, PutTupleRefines
  <2>5. Abstract!Put(t)
    BY <1>4, <2>2, <2>3, <2>4 DEF out_tuple, Abstract!Put
  <2> QED
    BY <2>5 DEF Abstract!Next
<1>5. ASSUME NEW t \in Thread, MoveTuple(t) PROVE Abstract!Next
  <2>1. PICK x \in held[t] : PutTuple(t, call[t].dest, x, "moving")
    BY <1>5 DEF MoveTuple
  <2>2. call[t].dest \in TS /\ pc[t] = "moving"
    BY <1>5, CallParts DEF Inv1, MoveTuple, CallShape
  <2>3. phase[t] = "moving" /\ phase'[t] = "moving"
    BY <2>1, <2>2, PhaseOf, PhaseNext DEF PutTuple
  <2>4. Abstract!Place(t, call[t].dest, x, "moving")
    BY <2>1, <2>2, <2>3, PutTupleRefines
  <2>5. Abstract!Move(t)
    BY <1>5, <2>3, <2>4 DEF MoveTuple, Abstract!Move
  <2> QED
    BY <2>5 DEF Abstract!Next
<1>6. ASSUME NEW t \in Thread, Collect(t) PROVE Abstract!Next
  <2>1. phase[t] = "pending" /\ phase' = [phase EXCEPT ![t] = "moving"]
    <3>1. pc[t] = "handling" /\ pc' = [pc EXCEPT ![t] = "moving"]
      BY <1>6 DEF Collect
    <3>2. pc'[t] = "moving"
      BY <3>1 DEF Inv1, TypeOK
    <3> QED
      BY <3>1, <3>2, PhaseOf, PhaseNext, PhaseStep DEF Inv1, PCs
  <2>2. Abstract!Gather(t)
    BY <1>6, <2>1 DEF Collect, collect, matchTuples, Fills, Abstract!Gather
  <2> QED
    BY <2>2 DEF Abstract!Next
<1>7. ASSUME NEW t \in Thread, CopyCollect(t) PROVE Abstract!Next
  <2>1. phase[t] = "pending" /\ phase' = [phase EXCEPT ![t] = "moving"]
    <3>1. pc[t] = "handling" /\ pc' = [pc EXCEPT ![t] = "moving"]
      BY <1>7 DEF CopyCollect
    <3>2. pc'[t] = "moving"
      BY <3>1 DEF Inv1, TypeOK
    <3> QED
      BY <3>1, <3>2, PhaseOf, PhaseNext, PhaseStep DEF Inv1, PCs
  <2>2. matchTuples(call[t].ts, call[t].pattern)
          = {x \in tuples[call[t].ts] : Fills(x, call[t].pattern)}
    BY DEF matchTuples, Fills
  <2>3. Abstract!Gather(t)
    BY <1>7, <2>1, <2>2 DEF CopyCollect, tsVars, Abstract!Gather
  <2> QED
    BY <2>3 DEF Abstract!Next
<1>8. ASSUME NEW t \in Thread, Moved(t) PROVE Abstract!Next
  <2>1. phase[t] = "moving" /\ phase' = [phase EXCEPT ![t] = "done"]
    <3>1. pc[t] = "moving" /\ pc' = [pc EXCEPT ![t] = "reply"]
      BY <1>8 DEF Moved
    <3>2. pc'[t] = "reply"
      BY <3>1 DEF Inv1, TypeOK
    <3> QED
      BY <3>1, <3>2, PhaseOf, PhaseNext, PhaseStep DEF Inv1, PCs
  <2>2. Abstract!Moved(t)
    BY <1>8, <2>1 DEF Moved, tsVars, Abstract!Moved
  <2> QED
    BY <2>2 DEF Abstract!Next
<1>9. ASSUME NEW t \in Thread, Match(t) PROVE Abstract!Next
  <2>1. phase[t] = "pending" /\ phase' = [phase EXCEPT ![t] = "done"]
    <3>1. pc[t] = "marked" /\ pc' = [pc EXCEPT ![t] = "found"]
      BY <1>9 DEF Match
    <3>2. pc'[t] = "found"
      BY <3>1 DEF Inv1, TypeOK
    <3> QED
      BY <3>1, <3>2, PhaseOf, PhaseNext, PhaseStep DEF Inv1, PCs
  <2>2. PICK x \in Tuple :
          /\ take(call[t].ts, x, call[t].pattern, destructive(call[t]))
          /\ held' = [held EXCEPT ![t] = {x}]
    BY <1>9 DEF Match
  <2>3. x \in tuples[call[t].ts] /\ Fills(x, call[t].pattern)
    BY <2>2 DEF take, matchTuples, Fills
  <2>4. tuples' = IF Abstract!Takes(call[t])
                  THEN [tuples EXCEPT ![call[t].ts] = @ \ {x}] ELSE tuples
    BY <2>2 DEF take, destructive, Abstract!Takes
  <2>5. Abstract!Takes(call[t]) \/ Abstract!Reads(call[t])
    BY <1>9 DEF Match, Inv1, CallShape, isMatch, Abstract!Takes, Abstract!Reads
  <2>6. UNCHANGED <<call, fresh, left>>
    BY <1>9 DEF Match
  <2>7. Abstract!Get(t)
    BY <2>1, <2>2, <2>3, <2>4, <2>5, <2>6 DEF Abstract!Get
  <2> QED
    BY <2>7 DEF Abstract!Next
<1>10. ASSUME NEW w \in Checker, UnblockRandom(w)
       PROVE  Abstract!Next \/ UNCHANGED Abstract!vars
  <2>1. PICK e \in blocked_list[job[w].ts] :
          /\ unblock(job[w].ts, e)
          /\ IF e.tid \in blocked_threads
             THEN pc' = [pc EXCEPT ![e.tid] = "reply"]
             ELSE UNCHANGED pc
    BY <1>10 DEF UnblockRandom
  <2>2. UNCHANGED <<tuples, call, held, fresh, left>>
    BY <1>10, <2>1 DEF UnblockRandom, unblock
  <2>3. job[w].ts \in TS
    BY <1>10 DEF UnblockRandom, ScanFoundDeadlock, Inv1, TypeOK, Job
  <2>4. /\ e.tid \in Thread /\ pc[e.tid] = "waiting"
        /\ call[e.tid].ts = job[w].ts /\ e = EntryOf(e.tid)
    BY <2>3 DEF Inv1, TypeOK, TSTypeOK, Entry, WaitersListed
  <2>5. CASE e.tid \in blocked_threads
    <3>1. pc'[e.tid] = "reply"
      BY <2>1, <2>4, <2>5 DEF Inv1, TypeOK
    <3>2. phase[e.tid] = "pending" /\ phase' = [phase EXCEPT ![e.tid] = "done"]
      <4>1. phase[e.tid] = "pending" /\ phase'[e.tid] = "done"
        BY <2>4, <3>1, PhaseOf, PhaseNext
      <4>2. pc' = [pc EXCEPT ![e.tid] = "reply"] /\ "reply" \in PCs
        BY <2>1, <2>5 DEF PCs
      <4>3. phase' = [phase EXCEPT ![e.tid] = phase'[e.tid]]
        BY <2>4, <4>2, PhaseStep DEF Inv1
      <4> QED
        BY <4>1, <4>3
    <3>3. call[e.tid].op = "inp"
      <4>1. e.unblockable
        BY <2>1 DEF unblock
      <4>2. EntryOf(e.tid).unblockable
        BY <4>1, <2>4, Zenon
      <4>3. EntryOf(e.tid).unblockable = (call[e.tid].op = "inp")
        BY Zenon DEF EntryOf, unblockable
      <4> QED
        BY <4>2, <4>3, Zenon
    <3>4. e.pattern = call[e.tid].pattern
      BY <2>4 DEF EntryOf
    <3>5. \A x \in tuples[call[e.tid].ts] : ~Wakes(x, call[e.tid].pattern)
      BY <2>3, <2>4, <3>4 DEF NoneWouldWake
    <3>6. Abstract!Refuse(e.tid)
      BY <2>2, <3>2, <3>3, <3>5 DEF Abstract!Refuse
    <3> QED
      BY <2>4, <3>6 DEF Abstract!Next
  <2>6. CASE e.tid \notin blocked_threads
    <3>1. phase' = phase
      BY <2>1, <2>6 DEF phase
    <3> QED
      BY <2>2, <3>1 DEF Abstract!vars
  <2> QED
    BY <2>5, <2>6
<1>11. ASSUME NEW t \in Thread, Mark(t) \/ Block(t) \/ ReturnTuple(t)
       PROVE  UNCHANGED Abstract!vars
  <2>1. PICK next \in PCs : pc' = [pc EXCEPT ![t] = next] /\ phase'[t] = phase[t]
    <3>1. CASE Mark(t)
      <4>1. pc[t] = "handling" /\ pc' = [pc EXCEPT ![t] = "marked"]
            /\ pc'[t] = "marked"
        BY <3>1 DEF Mark, Inv1, TypeOK
      <4> QED
        BY <4>1, PhaseOf, PhaseNext DEF PCs
    <3>2. CASE Block(t)
      <4>1. pc[t] = "marked" /\ pc' = [pc EXCEPT ![t] = "waiting"]
            /\ pc'[t] = "waiting"
        BY <3>2 DEF Block, Inv1, TypeOK
      <4> QED
        BY <4>1, PhaseOf, PhaseNext DEF PCs
    <3>3. CASE ReturnTuple(t)
      <4>1. PICK next \in {"reply", "failed"} :
              /\ pc[t] \in {"found", "woken"}
              /\ pc' = [pc EXCEPT ![t] = next]
              /\ pc'[t] = next
        BY <3>3 DEF ReturnTuple, Inv1, TypeOK
      <4> QED
        BY <4>1, PhaseOf, PhaseNext DEF PCs
    <3> QED
      BY <1>11, <3>1, <3>2, <3>3
  <2>2. phase' = [phase EXCEPT ![t] = phase[t]]
    BY <2>1, PhaseStep DEF Inv1
  <2>3. phase' = phase
    BY <2>2 DEF phase
  <2>4. UNCHANGED <<tuples, call, held, fresh, left>>
    BY <1>11 DEF Mark, Block, block, ReturnTuple, tsVars
  <2> QED
    BY <2>3, <2>4 DEF Abstract!vars
<1>12. ASSUME UNCHANGED <<tuples, callVars>> PROVE UNCHANGED Abstract!vars
  <2>1. phase' = phase
    BY <1>12 DEF callVars, phase
  <2> QED
    BY <1>12, <2>1 DEF callVars, Abstract!vars
<1> QED
  BY <1>1, <1>2, <1>3, <1>4, <1>5, <1>6, <1>7, <1>8, <1>9, <1>10, <1>11, <1>12
  DEF Next, Client, Handler, Check, Watch, vars, tsVars, callVars, BeginScan,
      ScanProcess, ScanThread, NothingToUnblock, RegisterThread, DeleteReference,
      Disconnect, RemoveThread, PurgeBlocked, ForgetProcess, Sweep, SweepDone

\* The server implements the abstract Linda: whatever the interleaving of its
\* threads, of lost connections and of deadlock checks, each call of a client
\* takes effect at one moment between its request and its answer.
THEOREM Refinement == Spec => ImplementsLinda
<1>1. Init => NoneWouldWake
  BY DEF Init, TSInit, NoneWouldWake
<1>2. Spec => []NoneWouldWake
  BY <1>1, Inv1Holds, NextNoneWake, PTL DEF Spec
<1> QED
  BY <1>2, Inv1Holds, InitRefines, NextRefines, PTL
  DEF Spec, ImplementsLinda, Abstract!Spec
=============================================================================
