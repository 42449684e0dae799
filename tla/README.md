# PyLinda in TLA+

PyLinda is an implementation of Linda: processes coordinate by putting tuples
into shared *tuplespaces* (`out`) and by taking or reading those that match a
template (`in`, `rd`, and `inp`, `rdp`, which are refused in a deadlock).  This
directory holds TLA+ modules that model its server, the references and garbage
collection of tuplespaces, the client library's messages and their framing, and
the heap of its value library; the TLC configurations that check them on small
instances; and TLAPS proofs for every value of the constants.  Paths below are
relative to the repository; `server.py` and its neighbours are in
`linda/src/linda/`, the C libraries in `liblinda/` and `minimal/`.

## 1. The system: inventory

| Component | State | Operations | What is hard | What makes it correct |
|---|---|---|---|---|
| **Matching and storage** `tuplecontainer.py` | `contain`, a list of tuples | `add`, `matchOneTuple`, `matchTuples`, `delete`, `doesMatch` | matching is not symmetric; `delete` uses the tuple as a template | a template gets exactly the tuples that fill it |
| **Tuplespaces** `tuplespace.py` | `ts`, `blocked_list`, `refs`, `requests`, `partitions`, one lock and a `killlock` | `_out`, `_in`, `_rd`, `collect`, `copy_collect`, `unblockRandom`, `isLocallyDeadlocked`, references, garbage collection, requests of other nodes | a thread that looks and blocks crosses one that puts; tuples are handed over outside the lock; the deadlock search reads everything without locks | no tuple lost or doubled, no wakeup missed, a deadlock is found, a refusal means a deadlock |
| **Request handlers** `server.py`, `thread_pool.py` | `blocked_threads`, `pthreads`, `threads`, `processes`, `local_ts`, `neighbours` | one handler per message, `removeProcess`, `unblock_thread`, `cleanShutdown` | every message runs in its own thread; a process may vanish at any moment | each request is answered once; a lost process leaves nothing behind |
| **Connections** `connections.py` | `sockets`, `message_store`, `return_locks`, `req_out` | `socket_watcher`, `Connection.send`, `recv`, `sendrecv`, broadcasts, forwarding, `connectToMain` | one thread reads every connection, handles lost ones and forwards; an answer may come before its lock exists | every request between servers gets its own answer; the reader never stops |
| **References and garbage** `tscontainer.py`, `utils.py`, `tuplespace.py` | `TupleSpaceContainer.ts`, `refs` as a multiset of process and tuplespace ids | `newTupleSpace`, `addReference`, `deleteReference`, `deleteAllReferences`, `garbage`, `changeOwner` | deletion runs in its own thread while the process dies; cycles of tuplespaces; test-then-act creation | a tuplespace is removed once nothing can reach it, and never before |
| **Partitions** `tuplespace.py`, `server.py` | `partitions`, `requests` on each node | `register_partition`, `get_partitions`, `deleted_partition`, `tuple_request`, `cancel_request`, `multiple_in` | two nodes create a partition of one tuplespace at once; a tuple travels while its requester is served elsewhere | the partitions together hold each tuple once, and know each other |
| **Identifiers** `guid.py` | `counter`, `firstcounter`, `lasttime` | `generate` | the counter wraps within a millisecond; the clock may go back | no identifier is issued twice |
| **Type caches** `type_cache.py`, `iso_cache.py`, `interserver_types.py` | dictionaries of types and isomorphisms | registration, lookup, translation between nodes | recursion over cyclic types | isomorphic types, and only they, match |
| **Client library** `liblinda/src/linda.c`, `tuplespace.c`, `refcount.c`, `threading.c` | one connection and one pending request per thread | `Linda_connect`, `out`, `in`, `rd`, `inp`, `rdp`, `collect`, handles to tuplespaces copied and freed | the server may go between any two calls; a handle is a message | one request, one answer, or `NULL` |
| **Messages and framing** `liblinda/src/message.c`, `messageread.c`, `python/message.c` | a union of three words per message; the bytes of a frame | some thirty constructors, `Message_getString`, `BuildMessage`, `Message_free`, `Message_send`, `Message_recv`, conversion to and from Python | which word is a string and which a value is spread over five functions; `send` and `recv` take any part | what is handled is what was meant; each word is given back as what it is; a reader never loses its place |
| **Values as XML** `minimal/src/serialise.c`, `parsexml.c` | memo of pointers while writing and reading | `Minimal_serialise*`, `Minimal_parseXML` | pointers to what is still to come, cycles, types that must be explained first | what is read looks like what was written |
| **Minimal heap** `minimal/src/refcount.c`, `cyclic_garbage.c`, `values.c`, `syntax_tree.c`, `layer.c`, `syntax_map.c` | a count per object; layers; `current_layer` | constructors, setters, copies, `Minimal_addReference`, `Minimal_delReference`, `performCyclicCollection`, `Minimal_finalise` | counts and a cycle collector together; a drop frees recursively | an object lives as long as it is referenced |
| **Minimal's parser and evaluator** `minimal/src/parse.c`, `evaluate.c` | - | building and evaluating small expressions | recursion | - |
| **Bindings, monitor, options** | - | conversion of values, user interface | - | - |

How they interact: a client thread owns one connection and sends one request at
a time.  `socket_watcher` reads it and gives it to a thread of the pool, which
runs the handler in `server.py`; the handler calls a method of the tuplespace,
which takes the tuplespace's lock.  A call that finds no tuple stays in
`blocked_list`, and starts a thread (`add_tuples`) that looks for a deadlock
with `isDeadLocked` and refuses one `inp` with `unblockRandom`.  A later `_out`
takes the waiting threads off the list and starts a thread for each
(`do_return_tuple`) that sends the tuple.  When a connection is lost,
`socket_watcher` itself runs `removeProcess`, which takes the process out of
`blocked_threads`, `pthreads` and each tuplespace's `refs`, and looks for a
deadlock in each.  Between servers the same handlers run, for partitions and
references.

Every request and answer is a message of `liblinda`: it is built in C (by a
client) or from Python objects (by the server), written as XML by `minimal`, sent
as four bytes of length and the text, read in pieces, rebuilt, handed over and
freed.  The values in it are objects of `minimal`'s heap, in clients and in the
server alike.  A value that is a handle to a tuplespace sends `add_reference`
when a client copies it and `delete_reference` when it is freed; `out` sends one
`add_reference` for each handle in its tuple, and the server changes the owner
when an `in` takes it.

`PROJECT.json` lists the hazards of this code at their lines with the properties
that cover them; for those without one a note says why.

## 2. The modules

* **`Matching`** - `doesMatch`: elements, formals, and the asymmetry of the
  comparison.
* **`TupleSpace`** (extends `Matching`) - the critical sections of class
  `TupleSpace`, each the body of a method between `lock.acquire` and
  `lock.release`, as an operator over `tuples` and `blocked_list`.
* **`LindaServer`** (extends `TupleSpace`) - one server and its clients as a
  state machine.
* **`Linda`** - the abstract specification: what the clients are promised, with
  no threads, lists or searches; each call is one atomic step between its
  invocation and its return.
* **`LindaServerProps`** - the properties, and the refinement mapping (`phase`)
  under which `LindaServer` implements `Linda` (`ImplementsLinda`).
* **`MCLindaServer`** - constants of the small instances.
* **`OwnerList`** - the list of owners of a tuplespace: how often one is in it, and
  the list without it.
* **`References`** (extends `OwnerList`) - owners of tuplespaces on one node, from the
  handle in a client to the destructor in the server; **`MCReferences`** - the programs
  of its run.
* **`Stream`** - a connection: the loops of `Message_send` and `Message_recv` over
  `send(2)` and `recv(2)`.
* **`Image`** - what values and XML elements are made of.
* **`ValueXML`** (extends `Image`) - values, types and code written as XML and read back,
  and values made of Python objects, as operators.
* **`Message`** (extends `Image`) - the messages: constructors, writer, reader,
  conversion to Python, `Message_free`, as tables over kinds of message.  How one value
  is written and read, and when two look alike, are its constants `WriteValue`,
  `ReadValue` and `LookAlike`; the run gives them `Write`, `Read` and `Alike` of
  `ValueXML`.
* **`Wire`** (extends `Message` and `Stream`) - calls over a connection; its
  property `StreamSpec` says that calls use the connection as `Stream` allows.
  **`MCWire`** (extends `Wire` and `ValueXML`) - the calls of its run.
* **`MinimalHeap`** - the heap of `minimal`; **`MCMinimalHeap`** - the programs of
  its runs.
* **`LindaServer_proofs`**, **`Refinement_proofs`**, **`Stream_proofs`**,
  **`Wire_proofs`**, **`OwnerList_proofs`**, **`References_proofs`**,
  **`Ownership_proofs`**, **`MinimalHeap_proofs`** - the theorems.

State of `LindaServer` and the code it stands for:

| Variable | Code |
|---|---|
| `tuples`, `blocked_list` | `TupleSpace.ts`, `TupleSpace.blocked_list` of each tuplespace |
| `refs` | `TupleSpace.refs`, as the set of processes in it |
| `pthreads`, `processes` | `server.pthreads`, and its keys |
| `blocked_threads` | the keys of `server.blocked_threads` |
| `pc`, `call`, `held` | how far the handler of each thread's request has come; the request; the tuples it carries |
| `life` | the connection of each thread: not made, live, closed, and found closed |
| `job` | the progress of `isDeadLocked`/`unblockRandom` in each `add_tuples` thread, and in `socket_watcher` |
| `watch` | where `socket_watcher` is in `removeProcess` |
| `fresh`, `left` | history: tuples not yet put, tuples sent to those that took them |

The steps are the stretches of code between which another thread can run and
make a difference.  An `in` (`in_tuple` with `TupleSpace._in`) is `Request`
(the client sends), `Mark` (the thread enters `blocked_threads`), then `Match`
(the lock: a tuple is found and deleted) or `Block` (the lock: nothing matches,
the thread joins the list and a deadlock check starts), then `ReturnTuple` (it
leaves `blocked_threads` and is sent the tuple) and `Reply`.  An `out` is
`RequestOut`, `out_tuple` (the lock: the woken threads are taken off the list
and the tuple is stored or handed over), `Reply`.  A `collect` is `Collect` (the
lock: all matches leave), `MoveTuple` once for each tuple (each is an `_out`
into the destination), `Moved`, `Reply`.  The search is `BeginScan`,
`ScanProcess`, `ScanThread`, one step for each element read, since it takes no
lock, and ends in `UnblockRandom` or `NothingToUnblock`.  The loss of a
connection is `Disconnect`; `socket_watcher` then does `RemoveThread`, and for
the last thread of a process `PurgeBlocked`, `ForgetProcess` and one `Sweep` for
each tuplespace, each followed by a search.  It reads no request meanwhile
(`watch = Watching` guards every step that `socket_watcher` makes for a client).

State of `References`:

| Variable | Code |
|---|---|
| `local_ts`, `refs`, `killlock` | `server.local_ts` (the universal tuplespace is always there), and of each tuplespace `refs` in its order and the counter of the semaphore |
| `stored` | how many tuples with a handle to one tuplespace are in another |
| `pthreads` | the keys of `server.pthreads` |
| `held`, `call` | the handles a client holds; its call, and where its handler is |
| `job` | the removal of a reference each thread is at: the threads `delete_reference` starts, the handler of an `in` (`changeOwner`), `socket_watcher` (`removeProcess`), the destructor of a tuplespace |
| `todo` | the keys `removeProcess` still has to visit |
| `missed`, `skipped`, `born` | history: references not found, tuplespaces left behind by an exception, ids given out |

A removal is `Lookup` (the container), `RemoveReference` or `RemoveAnyReferences`
(the list, and the `killlock`), `BeginScan` and one `Scan` for each element
(`isLocallyDeadlocked`), `BeginWalk` and one `Walk` for each element
(`doGarbageCollection`), `Garbage` (the test) and `Drop` (the deletion); then
`Destroy` removes the references of the tuples that were stored there, each a
removal again.  The other threads run in between.  `Raise` is an exception: the
`KeyError` of a search that meets what is no longer there, or the "Internal
reference counting error".

State of `Stream` and `Wire`: `tx` is the sender's loop and its counter `sent`,
`wire` and `rx` what is in the kernel and in the reader's buffer, `open` the ends
that have not shut down; `caller`, `callee`, `call`, `asked`, `answer`, `reply`
follow one call.  `Send` and `Receive` move any number of units, `SendFails` and
`Lost` are the -1 and the 0 of a connection that is gone.  A call is `Call`,
`Sending` (any number), `Sent`, `Receiving`, `Request`, `Answer`, `Answered`,
`Reply` or `NoReply`.

State of `MinimalHeap`: `kind`, `slot`, `count` are the objects with their
pointers and counts; `held` what the program holds; `globals` the current layer
and the library's own references; `work` the stack of drops under way, since
libminimal is called from one thread at a time and the nesting of
`Minimal_delReference` is the only interleaving there is; `crashed` why a program
has stopped.  `Return` is one step of a drop: free, search, or come back from one.

### What is abstracted

In the server modules:

* Tuple objects are model values with contents `ValueOf`; each is put once
  (`fresh`), a copy made by `copy_collect` is another object with the same
  contents.  Clients put actual values, no types, into tuples
  (`ServerAssumption`).  Types are compared by identity: isomorphisms between
  types are not modelled.
* `matchOneTuple` returns the first match of the list; the model takes any.
  Which waiting thread a dictionary yields first is open in the code, and in the
  model: readers met before the first destructive waiter are woken with it.
* Tuples of `LindaServer` hold no tuplespaces, so `changeOwner` and `addReference`
  do nothing there.
* One server: `partitions` and `requests` are empty, so `broadcast_tonodes`
  contributes nothing to `isDeadLocked`.  In `LindaServer` `refs` holds
  processes only: tuplespaces stored in tuples, garbage collection and deletion
  are the subject of `References`.
* `delete_reference` and the thread it starts are one step, up to the search
  that follows; the `killlock` that makes `removeanyreferences` wait for that
  thread is the reason they can be.
* The two threads that `_in` and `_rd` start for `add_tuples` and for the answer
  are the entries of `job` and the `woken` state of `pc`; `add_tuples` starts in
  the step that blocks.  Requests to other nodes in `add_tuples` are skipped, there
  being none.
* A client registers threads only for a process that is connected; an answer
  written to a closed connection counts as sent.
* Every process of `LindaServer` starts with a reference to every tuplespace but
  the universal one.

In `References`:

* A tuple is the one handle it holds, a process has one thread, an `in` that finds
  nothing is handed the tuple by the `out` that brings it, and a reply is seen at
  once.  Forgetting a process (`pthreads`) and its thread is one step.
* `rd` and `collect` of tuples with handles are left out (their changes of owner
  are wrong by themselves: `tuplespace.py:117`, `server.py:301`), and clients leave
  between calls; `PROJECT.json` lists what this hides.  Nobody waits in a
  collected tuplespace, so that a deadlock found by a removal refuses nobody.
* A destructor may run as soon as no removal is under way on the tuplespace; a
  walk that has just read it may put that off in the code.

In `Stream`, `Message`, `ValueXML` and `Wire`:

* One XML element is one unit of a frame's body; `send` and `recv` move units.
  `SIGPIPE` is ignored, as Python does.
* A value is an image: the cells that can be reached from a root.  Built-in types
  are known to both ends and not written out.
* `REGISTER_TYPE`, `RESULT_TYPE` and `REQUEST_TYPE`, and the server's own
  `ADD_REFERENCE`, `DELETE_REFERENCE` and `CREATE_TUPLESPACE` (which measure a
  `thread_id` that is `NULL` there) are not sent by any call of the run.
* The values of the run avoid what is known to be lost: booleans (never added to
  the document), doubles (read back as floats), longs beyond a C int, pointers to
  values outside the tuple (written beside the root), parameters of type tuple,
  code with `if`, brackets or nothing.  `ValueXML` writes them as the code does.
* The reader keeps the tuplespace of `GET_PARTITIONS`, `GET_REQUESTS` and
  `INSPECT` as a value and frees it as a string, so that it is never given back:
  `FreedAsBuilt` excepts these (`KeptAsValue`).

In `MinimalHeap`:

* Kinds with the same pointers are one kind; arrays have two elements; all
  built-in types are one (`TypeType`); values of syntax trees and trees that
  contain themselves are not built.
* The order in which the pointers of a freed object are dropped, and the order in
  which a search meets the objects of a clique, are left open.  The two drops of
  `Minimal_setTypeMap` and `Minimal_finalise`'s of type, default and current layer
  are as in the code.
* A reference a program never drops is not a leak: `NoGarbage` speaks of objects
  nothing holds.
* With `AnySetter = FALSE` a setter does not replace a value that leads back to
  what holds it, and pointers are never `NULL`: the finding on setters is what
  happens otherwise.

## 3. The runs

| Run | Instance | Shows |
|---|---|---|
| `server_safety` | threads a of p; b, c of q; one tuplespace; one tuple; `out`, `in`, `inp`, `rd` | `TypeOK`, `TupleInOnePlace`, `BlockedListExact`, `NoMissedWakeup`, `BlockedThreadsExact`, `WatcherSurvives`, `ImplementsLinda` (534 thousand states) |
| `server_collect` | two threads, two tuplespaces, two equal tuples and another; `collect`, `copy_collect` between them | `TupleInOnePlace`, `NoMissedWakeup`, `ImplementsLinda` (2.4 million states) |
| `server_death` | two threads of one process, which may be lost during calls; two concurrent searches | `TupleInOnePlace`, `WaitersListed`, `ImplementsLinda` (266 thousand states) |
| `server_liveness` | as `server_safety`, with fairness | `DeadlockBroken`, `CallsReturn` (260 thousand states) |
| `rdp_deadlock`, `spurious_refusal`, `formal_template`, `ghost_waiter` | two threads | the first four findings below |
| `references` | two clients, two tuplespaces, six programs | `TypeOK`, `NoEarlyDeletion`, `CountsExact`, `KilllockReturned`, `DeadHoldNothing`, `NoLeak`, `MissesExplained` (968 thousand states) |
| `wire` | 33 calls of clients and servers, one at a time | `TypeOK`, `InSync`, `FrameIntact`, `MessageArrives`, `AnswerArrives`, `FreedAsBuilt`, `CallReturns`, `StreamSpec` (283 thousand states) |
| `heap_safety` | four objects, ten programs | `TypeOK`, `RefCountExact`, `NoDangling`, `NoGarbage`, `NeverCrashes` (230 thousand states) |
| `heap_setter` | two objects, setters without restriction | the fifth finding |

*Why these bounds are enough to be worth running.*  Three threads of two
processes are the fewest in which a process loses one thread and keeps another
while a third thread, of another process, makes the deadlock; with one tuple a
reader and a taker compete for it, and an `out` crosses both.  `copy_collect`
needs equal tuples, and a tuple that its template leaves behind.  A `collect` of
a tuplespace into itself is in the liveness run.  Two searches at a time
(`Worker = {w1, w2}`) let one find what another is about to change.  The bound
on searches (`Worker`) delays a `Block` until a search has ended, which hides no
order of the steps of fewer searches.  `w1` and `w2` are symmetric: they occur
in no other constant.  Deadlock is not checked, as the system may stop: when
every client has left, or all wait in an `in`.

The bounds of `references` are those of its programs: what each client creates,
puts and takes, one to three handles of a client to a tuplespace, one or two
threads of `delete_reference` at a time, and no more tuples stored once the
`killlock` of a tuplespace has gone above one.  Two clients pass a handle to and
fro through the universal tuplespace; one copies and frees several and leaves;
one stores a tuplespace in another, gives both up and leaves; one takes what the
other has put and stores it in its own.  Tuples with handles are taken from the
universal tuplespace only: with a program that takes one from a tuplespace that
is given up meanwhile, TLC finds the walk emptying the owners of a tuplespace whose
handle the client has just got (`tuplespace.py:378`).  Tuplespaces are not stored
in a cycle, for then the search of `isLocallyDeadlocked` has no end
(`tuplespace.py:391`).  Both are in the list of hazards.

In `wire` the kernel holds three units (`Capacity`), so that every frame is cut in
many ways; a counter that runs away is followed to -1 (`MaxBack`); the largest
integer is 7.  One call is under way, as one is for each thread of a client; the
two ends run on their own and either may shut down or die at any moment.  The
calls have each kind of message that clients and servers exchange, with tuples
that hold types, templates, pointers (to what is before, around and inside them),
functions, and types that must be explained.

In `heap_safety` each program uses the operations of one part of the library, on
two to four objects besides the built-in ones and with one or two references of
the program to each, so that every part is explored to the end: pointers and
tuples in cycles, copies of them, sums, types with their maps, layers, functions,
definitions, and all kinds of code.

*Fairness.*  `FairSpec` has weak fairness of each client thread's handler
(`Handler(t)`), of each search (`Check(w)`) and of `socket_watcher` (`Watch`):
each is an operating system thread of the server that holds no lock at the end
of a step and waits for none for ever.  Clients have none: they may never make
another call.  `Block(t)` needs a free worker, and one becomes free as searches
are finite: each step reads an element of a finite list.

`Wire`'s `Spec` has weak fairness of the kernel calls (`Sending`, `Failing`,
`Receiving`), of what the two ends do between them (`Sent`, `Request`, `Answered`,
`Reply`, `NoReply`, `Hangup`) and of the handlers (`Handled`): each end has a
thread for the connection, a call into the kernel returns when it can, and a
handler answers.  Nobody need call or shut down.  `CallReturns` excepts the loop
that never ends (`SendSpins`): when the server goes while the body is being sent,
-1 is added to the count for ever (`message.c:922`).

*Findings* (each is a run with expectation `violation`):

1. **`rdp` is never refused.**  `server.py:229` compares `message` with
   `inp_tuple` in the handler of `rd` and `rdp`, so `rdp` blocks for ever in a
   deadlock; `rawdocs/linda.c:97` promises `None`.
2. **`inp` is refused without a deadlock.**  `blocked_threads` is written before
   a call looks for its tuple (`server.py:253`) and until its tuple is about to
   be sent; the search takes such a thread for one that waits.
3. **A formal does not wake.**  `tuplespace.py:104` passes the arguments of
   `doesMatch` the other way round from `matchTuples`: a thread that waits with
   a formal is not woken by the tuple that fills it.
4. **A lost process keeps waiting.**  `removeProcess` cleans `blocked_threads`
   but not `blocked_list`: a later `out` is handed to nobody.
5. **A setter counts its object twice.**  A setter drops the old value before it
   overwrites the slot, and the search that the drop starts still finds the old
   value there (`values.c:472`): a count comes out below the number of references
   found among the objects, which the collector takes to be impossible.

The properties say what holds in spite of these: `NoMissedWakeup` is stated for
templates of actual values, `Wakes` and `Fills` are different operators in
`Linda`, `Refuse` is not tied to a deadlock there, and the safety run does not
lose connections in the middle of a call (`MayDieInCall`), where a `KeyError`
can end `socket_watcher` (`server.py:531`).  `server_death` shows what remains
true with such losses.

`MissesExplained` says when the error that the note at `removeanyreferences`
(`tuplespace.py:320`) speaks of can still happen: the `killlock` orders removals
until a change of owner has released it without acquiring it (`tuplespace.py:304`),
and not after.  `NoLeak` and `DeadHoldNothing` are stated for removals that no
exception has cut short: `removeProcess` forgets the process first, and a search
that then meets it among the owners of another tuplespace ends `socket_watcher`
(`tuplespace.py:393`), which the run reaches.

*Mutants.*  Next to some definitions is a version named `<definition>_<slip>` and
marked `faulty`, with a plausible slip: no deletion from a tuplespace, woken
threads left on the list, a `killlock` that is not awaited, a length that counts
its own four bytes, a drop forgotten, and so on.  With it in place of the definition the property named in
`PROJECT.json` fails.

## 4. The theorems

All are proved by `tlapm`, for every value of the constants that the assumption of
the module allows.  Those on the server rest on `ServerAssumption` alone (each thread
has a process, the calls are well formed, stored tuples hold no types): any sets of
threads, processes, tuplespaces, tuples, templates and searches.

| Theorem | Module | Says |
|---|---|---|
| `TypeCorrect` | `LindaServer_proofs` | `Spec => []TypeOK` |
| `WaitersAreListed` | `LindaServer_proofs` | `Spec => []WaitersListed` |
| `NoWakeupIsMissed` | `LindaServer_proofs` | `Spec => []NoMissedWakeup` |
| `TupleStaysInOnePlace` | `LindaServer_proofs` | `Spec => []TupleInOnePlace` |
| `Refinement` | `Refinement_proofs` | `Spec => ImplementsLinda` |
| `WatcherNeverFails` | `LindaServer_proofs` | no loss during calls: `Spec => []WatcherSurvives` |
| `BlockedThreadsAreExact` | `LindaServer_proofs` | no loss during calls: `Spec => []BlockedThreadsExact` |
| `BlockedListsAreExact` | `LindaServer_proofs` | no loss during calls: `Spec => []BlockedListExact` |
| `StreamInSync` | `Stream_proofs` | `StreamSpec => []InSync` |
| `StreamFrameIntact` | `Stream_proofs` | `StreamSpec => []FrameIntact` |
| `WireImplementsStream` | `Wire_proofs` | `Spec => StreamSpec` |
| `WireTyped` | `Wire_proofs` | `Spec => []TypeOK` |
| `MessagesArrive` | `Wire_proofs` | proper calls, values that survive: `Spec => []MessageArrives` |
| `AnswersArrive` | `Wire_proofs` | proper calls, values that survive: `Spec => []AnswerArrives` |
| `WordsAreFreed` | `Wire_proofs` | proper calls, values that survive: `Spec => []FreedAsBuilt` |
| `Typing` | `References_proofs` | `Spec => []TypeOK` |
| `KilllockComesBack` | `References_proofs` | `Spec => []KilllockReturned` |
| `DeadHoldsNothing` | `References_proofs` | `Spec => []DeadHoldNothing` |
| `CountsAreExact` | `Ownership_proofs` | handles come from UTS: `Spec => []CountsExact` |
| `MissesAreExplained` | `Ownership_proofs` | handles come from UTS: `Spec => MissesExplained` |
| `NothingGoesEarly` | `Ownership_proofs` | handles come from UTS: `Spec => []NoEarlyDeletion` |
| `NothingIsLeft` | `Ownership_proofs` | handles come from UTS: `Spec => []NoLeak` |
| `ObjectsTyped` | `MinimalHeap_proofs` | no setter replaces what leads back: `Spec => []TypeOK` |
| `ExactCounts` | `MinimalHeap_proofs` | no setter replaces what leads back: `Spec => []RefCountExact` |
| `ReferencesHold` | `MinimalHeap_proofs` | no setter replaces what leads back: `Spec => []NoDangling` |
| `GarbageIsFreed` | `MinimalHeap_proofs` | no setter replaces what leads back: `Spec => []NoGarbage` |
| `ProcessLives` | `MinimalHeap_proofs` | no setter replaces what leads back: `Spec => []NeverCrashes` |

*The argument.*  `Inv1 == TypeOK /\ CallShape /\ WaitersListed` is inductive and
holds whether or not connections are lost.  Types alone are not inductive: the
handler of a collect uses `call[t].dest`, which exists only in such a call, so
`CallShape` says which calls each value of `pc` allows and what they carry.
`WaitersListed` is needed for `_out`: the threads it wakes are those of its
entries, so that it wakes waiting threads only.

`NoMissedWakeup` and `TupleInOnePlace` are inductive relative to `Inv1`.  The
first rests on `SwappedMatch` (the two orders of comparison agree on actual
values) and `AllReadersWoken` (when nobody takes the tuple, all it matches are
woken, so storing it is safe); the second on `OneTaker`.

For the refinement `NoneWouldWake`, a stronger form of `NoMissedWakeup`, is what
justifies that a refused `inp` had no tuple that would have served it;
`PutTupleRefines` maps each `_out` to the abstract `Place`, and the steps of the
search and of `removeProcess` map to stuttering.

`Inv2` adds that `blocked_threads` is exact, that live
threads are in `pthreads`, that a process which has left `pthreads` is found only
in the `refs` that the sweep has yet to reach, and that `socket_watcher` searches
only where it has already swept.  It needs `MayDieInCall = FALSE`: with losses
during calls it is false, as the runs on losses show.

The theorems on `Stream` use `StreamAssumption` only (each end has a peer
that is not itself, bodies that are not empty, a kernel that holds something): any
bodies, any capacity.  What has arrived and what is on its way is always the start
of the frame being sent, and exactly as much of it as the sender has counted, part
by part; that level is what makes the invariant inductive, since the next `send`
goes on from the count.  When the sender is done the whole frame is there or part
of it has been lost with the connection.  A complete frame in the buffer is then
the frame that was sent.  A reader that meets an action it does not know exits; that its
end is then shut down is part of the same step as `Take`.

The theorems on `Wire` add `WireAssumption` (there are two ends, and what is said may be
sent): any calls, any answers.  The argument has three parts.

* *The connection.*  Every step of the caller, of the handler and of the kernel is a step
  of `Stream` or leaves the connection alone (`StepOfStream`): `WireImplementsStream`, and
  with it `InSync` and `FrameIntact` of calls.  `Bounded`, in `Stream_proofs`, bounds
  counters and buffers: `WireTyped`.
* *Taking turns.*  A reader parses a whole frame, but whose?  `Turns` is inductive: what is
  under way is the call or one of its answers (`Question`, `ItsAnswer`), an idle caller has
  left nothing behind on a connection that is still open at the other end (`AtRest`), and
  a handler at work has been asked and has not answered (`AtWork`).  It is needed because a
  caller goes back to `idle` also without an answer (`NoReply`); that happens only once the
  server has shut its end, so that no late answer is read by the next call.
* *There and back.*  `BuildMessage` is run over the elements one by one, each put into a
  word that depends on those before it (the second tuplespace of a collect, the second
  string of an `UPDATE_TYPE`).  `Reads(m, es, k)` says that reading `es` turns `m` into `k`;
  it composes (`ReadsOn`), by induction over the number of elements in the form of
  `OwnerList_proofs`.  For each kind of message a lemma (`...Trip`) follows the words from
  the constructor through the writer and the reader to the handler and to `Message_free`.

The last three theorems have two hypotheses on the calls.  `CallsProper`: a message has the
arguments its constructor takes, and the reader knows it (it has no case for `RESULT_TYPE`
and `REQUEST_TYPE`, and what `REGISTER_TYPE` says of its process is read into another word).
`ValuesArrive`: each string, number and value of a message survives being written and read by
itself.  They are what is left of the recursion over trees, and are false of the values that
section 2 lists as lost.  TLC evaluates both for the calls of the run, with `ValueXML`'s
operators for the constants (`CallsAreProper` in `MCWire`).

The theorems on `References` use `ReferencesAssumption` only: the kinds of thread and
owner are apart, programs are well formed, and there are finitely many processes and
threads of `delete_reference` at a time, for a sum over them to be a number.  There may
be any number of clients, programs and tuplespaces, and tuplespaces may be stored in
each other.

`KilllockComesBack` rests on the killlock.  In the container each tuplespace has a killlock
and threads that have yet to release it, whose sum is at least one.  That is
inductive with the shape of calls and removals and the fact that a thread of
`delete_reference` never removes all references of a process: a handler that starts
a thread takes one from the killlock and adds one to the threads, `removereference`
does the opposite, and a removal by a change of owner or by a destructor, which
releases what it never acquired, only raises the sum.  A thread that gives up
without releasing does so because its tuplespace has left the container.

`DeadHoldsNothing` adds that a process which has left is an owner only where the
watcher has still to go, or is just then removing it (`Departed`): it can get no new
reference, since handlers make owners of processes that are registered, and removing
all its references (`Without`) leaves none.

The other four theorems have the hypothesis `OnlyFromUTS`: clients take tuples with
handles from the universal tuplespace only, which the programs of the run satisfy
(`ProgramsTakeFromUTS`) and without which the properties fail (section 3).  They rest on
four invariants, each inductive with those before it, which TLC has checked on the run's
instance:

* `Sound` is `IInv` with the counts and what makes them right.  A process is in the list
  of owners once for each handle, for each removal under way and for a call between its
  two ends; UTS once for each tuple, and for one that is on its way (`HandlesCounted`,
  `TuplesCounted`).  That is `CountsExact` for every tuplespace that was created.  It is
  inductive only if nobody asks about what it does not have (`Entitled`), if a tuplespace
  that has gone has no owners (`Gone`), and if a walk for garbage that empties a list finds
  no process in it.  The walk reads other lists without a lock: `WalkOK` says that it
  has a process or UTS still in its queue, or every owner of where it has been is among
  what it has been at or has to go to.  Another thread can add an owner behind it only if
  the one who asks is an owner, so that the walk was never going to reach its end.
* `Waited` gives each thread that will find its reference a part of the killlock, so that
  `removeanyreferences` cannot take a reference from under it unless the killlock was
  released too often: `MissesExplained`.
* `Owned`: what is in a tuple of a tuplespace that can be reached has that tuplespace as an
  owner.  With the counts, everything that can be reached has a chain of owners up to a
  process or UTS, so that no walk ends on it and no deletion is under way (`Alive`):
  `NoEarlyDeletion`.
* `Tidy`: a tuplespace without owners has a thread that is looking at it or was cut short
  (`Orphaned`), a destructor runs for what has gone (`Destroyed`), what an exception left
  is in the history (`Cut`), and a tuplespace is an owner no more often than it has tuples
  or will have (`StoresCounted`).  When all is quiet an owner is then a process with a
  handle, UTS with a tuple, a tuplespace that is there with a tuple, or one whose
  destructor was cut short: `NoLeak`.

`OwnerList_proofs` has what these need of lists: how often an owner is in one after it was
appended or taken out once, or after all of it went.  `Without` is a recursive function
over the list; its facts are proved by induction over the length in the form of a set of
numbers that has 0 and with each number the next (`Induction`), which the provers can use
where the induction theorem of the library, which takes an operator, is beyond them.

The theorems on `MinimalHeap` use `ObjectsAreDistinct` (the built-in objects are apart,
and there are finitely many others) and the hypothesis `~AnySetter`: a setter replaces no
value that leads back to what holds it, and pointers are not set to `NULL`.
`heap_safety` satisfies it; without it they are false, which is the fifth finding
(`heap_setter`).  The objects, programs and bounds of the programs are any, and so is
the depth to which drops are nested.

`HeapInv` is inductive, and all five properties follow from it:

* Counts are exact (`Exact`): what the program holds, the globals, the pointers of objects
  not being torn down but for the one a waiting setter will overwrite (`Hidden`), and the
  drops still owed (`Owes`).  What is referred to is alive (`Safe`).
* `Covers` says that every set of objects which has all that is referred to from outside
  or owed a drop, and which no pointer leaves, has everything alive.  `NoGarbage` speaks of
  the time between two calls only, and reachability from outside is lost in the middle of
  a drop; that a drop is owed to what has just been cut off is what carries over.
* About the stack of drops: what is being torn down has one frame that does it (`Torn`,
  `Orderly`), its count is spent (`FrameOK`), and a setter that waits is alone at the
  bottom, its container still held, and no drop under way leads to the container
  (`Storing`, which is where `~AnySetter` is needed).
* A pointer that is dropped without a test is not `NULL` (`Filled`, `Layers`).

An operation of a program is a composition of a few rewrites of the heap: one slot changes
its value (`OneSlot`), only counts change (`OnlyCounts`), an object is new (`OneMore`,
`PointTo`), a clique is doubled (`DuplicateKeeps`); each keeps `Quiet`, which is `HeapInv`
between two calls.  The search (`Collect`) needs most: the counts of what it lists are the
references it finds inside plus those from elsewhere (`LeftIs`), so that no count can be
below the number found; with nothing left over the clique is referred to by nothing else
and may be torn down (`TornDown`), and otherwise what is left still leads to all of it
(`ReferredToElsewhere`, `StillReached`).  That `Reach` and `Copied` are the least sets
closed under pointers (`SpreadFacts`) holds because they are computed in as many steps as
there are objects, by induction in the form of `OwnerList_proofs`.

*Only model-checked:* `DeadlockBroken`, `CallsReturn` and `CallReturns`, which are
liveness under fairness; and that a value which is written and read looks like itself
(`ValuesArrive` for the values of the run): `ValueXML` is recursion over trees, in RECURSIVE
operators, which are beyond the provers.

## 5. What could follow

1. **Partitions**: two nodes, `register`, `tuple_request`, `cancel_request`,
   `get_requests`, `__del__`.  Abstract specification: one tuplespace, the union of
   its partitions.
2. **Connections** between nodes: `sendrecv` against the reader, `message_store`,
   `return_locks`, forwarding.  Safety: an answer reaches the thread that asked.
   Liveness: it is woken.
3. **Identifiers**: no identifier twice while the clock does not go back, for every
   `MAX_COUNTER`, as a theorem.
4. `rd` and `collect` of tuples with handles, and losses during calls, in
   `References`; a deadlock across two tuplespaces in `LindaServer`.

## 6. Not modelled

* The type caches of the server and Minimal's parser and evaluator: sequential
  transformations of trees with no interaction that a state machine would show.
  What the evaluator does to the heap are the operations of `MinimalHeap` in some
  order.
* Partitions of a tuplespace on several nodes, routing and forwarding between
  nodes, and identifiers: see section 5.
* The methods of the Python types, and the C++ and Scheme bindings (the latter
  generated), which wrap the C library and keep no state of their own.
* Sockets and their set-up, discovery, the monitor, statistics, options and
  start-up: input and output.
* The shutdown of the server, after which it makes no promise.
