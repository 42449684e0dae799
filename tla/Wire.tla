-------------------------------- MODULE Wire --------------------------------
(***************************************************************************)
(* Calls over a connection: a client of liblinda, or a server, writes a    *)
(* message and waits for the answer (linda.c, tuplespace.c, connections.py)*)
(* and the server that reads it answers it from Python (server.py).  The   *)
(* two ends run on their own; what one writes the other reads in pieces.   *)
(***************************************************************************)
EXTENDS Message, Stream

CONSTANT Calls   \* the calls: who makes it, the message, the answers there are

VARIABLES caller,    \* "idle", "sending", "awaiting"
          callee,    \* "reading", "handling", "answering"
          call,      \* the call under way,
          asked,     \* the body the callee has read (a set: one or none),
          answer,    \* what the callee answers (the same),
          reply      \* and the body the caller has read (the same)
exchange == <<caller, callee, call, asked, answer, reply>>
vars == <<tx, wire, rx, open, caller, callee, call, asked, answer, reply>>

TheEnds == {"caller", "callee"}
Other(e) == IF e = "caller" THEN "callee" ELSE "caller"

NoCall == [by |-> "client", type |-> "DONE", msgid |-> NoMsgid, args |-> <<>>, answers |-> {}]
Built(c) == [Construct(c.type, c.args) EXCEPT !.msgid = c.msgid]
Plan(c) == [type |-> c.type, msgid |-> c.msgid, args |-> c.args]
\* Message_getString of all that is ever said.
Said == {Plan(c) : c \in Calls} \cup UNION {c.answers : c \in Calls}
Encoded == [m \in Said |-> Encode(Built(m))]

ASSUME WireAssumption ==
    /\ Ends = TheEnds /\ \A e \in TheEnds : Peer(e) = Other(e)
    /\ \A m \in Said : Encoded[m] \in Bodies

Init == /\ StreamInit
        /\ caller = "idle" /\ callee = "reading" /\ call = NoCall
        /\ asked = {} /\ answer = {} /\ reply = {}

\* A function of linda.c or tuplespace.c, or a server, calls; LindaPython_send
\* raises for what it does not know.
Call(c) ==
    /\ caller = "idle" /\ Start("caller", Encoded[Plan(c)])
    /\ c.by = "server" => c.type \in SentByPython
    /\ caller' = "sending" /\ call' = c
    /\ asked' = {} /\ answer' = {} /\ reply' = {}
    /\ UNCHANGED <<wire, rx, open, callee>>

\* Message_send has returned, whether it sent the message or gave up.
Sent == /\ caller = "sending" /\ tx["caller"].stage = "idle" /\ open["caller"]
        /\ caller' = "awaiting"
        /\ UNCHANGED <<tx, wire, rx, open, callee, call, asked, answer, reply>>

\* The server reads the message, or exits; its handler gets it.
Request ==
    /\ callee = "reading" /\ Take("caller")
    /\ asked' = {Data(rx["caller"])}
    /\ open' = [open EXCEPT !["callee"] = ~Exits(Data(rx["caller"]))]
    /\ callee' = "handling"
    /\ UNCHANGED <<tx, wire, caller, call, answer, reply>>

Answer(a) ==
    /\ callee = "handling" /\ a.type \in SentByPython
    /\ Start("callee", Encoded[a])
    /\ answer' = {a} /\ callee' = "answering"
    /\ UNCHANGED <<wire, rx, open, caller, call, asked, reply>>

Answered == /\ callee = "answering" /\ tx["callee"].stage = "idle" /\ open["callee"]
            /\ callee' = "reading"
            /\ UNCHANGED <<tx, wire, rx, open, caller, call, asked, answer, reply>>

\* Message_recv at the caller: the answer, or NULL.
Reply == /\ caller = "awaiting" /\ Take("callee")
         /\ reply' = {Data(rx["callee"])} /\ caller' = "idle"
         /\ UNCHANGED <<tx, wire, open, callee, call, asked, answer>>
NoReply_closes == \* faulty: a lost answer also closes the connection
    /\ caller = "awaiting" /\ Lost("callee") /\ Close("caller") /\ caller' = "idle"
    /\ UNCHANGED <<tx, wire, callee, call, asked, answer, reply>>
NoReply == /\ caller = "awaiting" /\ Lost("callee") /\ caller' = "idle"
           /\ UNCHANGED <<tx, wire, open, callee, call, asked, answer, reply>>

\* The server's loop over Message_recv ends with the connection.
Hangup == /\ callee = "reading" /\ ~open["caller"] /\ wire["caller"] = <<>>
          /\ ~Complete("caller") /\ Close("callee")
          /\ UNCHANGED <<tx, wire, rx, caller, callee, call, asked, answer, reply>>

\* send(2) and recv(2); the latter is called by who waits for a message.
Sending   == \E e \in TheEnds, n \in 1..Capacity : Send(e, n) /\ UNCHANGED exchange
Failing   == \E e \in TheEnds : SendFails(e) /\ UNCHANGED exchange
Waits(e)  == IF e = "callee" THEN callee = "reading" ELSE caller = "awaiting"
Receiving == \E e \in TheEnds, n \in 1..Capacity :
                 Waits(Other(e)) /\ Receive(e, n) /\ UNCHANGED exchange
\* An end dies, or disconnects.
Shutdown  == \E e \in TheEnds : Close(e) /\ UNCHANGED <<tx, wire, rx, exchange>>

Handled == \E a \in call.answers : Answer(a)
Next == \/ \E c \in Calls : Call(c)
        \/ Sent \/ Request \/ Handled \/ Answered \/ Reply \/ NoReply \/ Hangup
        \/ Sending \/ Failing \/ Receiving \/ Shutdown

\* Each end has a thread for the connection, a call into the kernel returns
\* when it can, and a handler answers.
Spec == /\ Init /\ [][Next]_vars
        /\ WF_vars(Sending) /\ WF_vars(Failing) /\ WF_vars(Receiving)
        /\ WF_vars(Sent) /\ WF_vars(Request) /\ WF_vars(Handled) /\ WF_vars(Answered)
        /\ WF_vars(Reply) /\ WF_vars(NoReply) /\ WF_vars(Hangup)

-----------------------------------------------------------------------------
TypeOK ==
    /\ \A e \in TheEnds :
           /\ tx[e].stage \in {"idle", "header", "body"}
           /\ tx[e].sent \in -MaxBack..(IF tx[e].stage = "header" THEN HeaderSize - 1
                                        ELSE Len(tx[e].body))
           /\ Len(wire[e]) <= Capacity
           /\ open[e] \in BOOLEAN
    /\ caller \in {"idle", "sending", "awaiting"}
    /\ callee \in {"reading", "handling", "answering"}
    /\ call \in Calls \cup {NoCall}
    /\ Cardinality(asked) <= 1 /\ answer \subseteq call.answers /\ Cardinality(reply) <= 1

\* Two words mean the same: the same string or number, or values that look the
\* same, and the types of the one are explained to the reader of the other.
Same(a, b) == a.as = b.as /\ a.s = b.s /\ a.n = b.n /\ (a.as = "ref" => LookAlike(a.v, b.v))
\* The sender's process id is written as the third word of an UPDATE_TYPE.
Meant(c) == LET m == Built(c)
            IN Handed(IF c.type = "UPDATE_TYPE" THEN [m EXCEPT !.word[3] = Str(ProcessId)] ELSE m)
SameMessage(x, y) == /\ x.msgid = y.msgid /\ x.type = y.type /\ Len(x.args) = Len(y.args)
                     /\ \A i \in DOMAIN x.args : Same(x.args[i], y.args[i])

\* Which messages this can hold of: their arguments are as the constructors
\* have them, the reader knows them (it has no case for two of the three on
\* types, and the third loses the process id), and their strings, numbers and
\* values survive being written and read by themselves (ValueXML).
Understood == Known \ {"REGISTER_TYPE"}
OneElement(xml, tag) == xml = <<xml[1]>> /\ xml[1].tag = tag
TextArrives(s)   == OneElement(Text(s), "string") /\ Text(s)[1].s = s
NumberArrives(n) == LET xml == WriteValue(IntValue(n), FALSE, FALSE)
                    IN  OneElement(xml, "integer") /\ CInt(xml[1].n) = n
TupleArrives(v, types) == \* beside it may stand what its pointers point to
    LET xml == WriteValue(v, types, FALSE) IN
    /\ Len(xml) \in Nat /\ xml = [i \in 1..Len(xml) |-> xml[i]]
    /\ \A i \in 1..Len(xml) : xml[i].tag \notin {"action", "msgid", "ts", "tid"}
    /\ \E i \in 1..Len(xml) : /\ xml[i].tag = "tuple" /\ LookAlike(v, ReadValue(xml[i]))
                              /\ \A j \in (i + 1)..Len(xml) : xml[j].tag # "tuple"
TypeArrives(v)   == LookAlike(v, ReadValue(InElement(v, TRUE)[1]))
WordsArrive(m) ==
    /\ \A i \in DOMAIN m.args : /\ m.args[i].as = "str" => TextArrives(m.args[i].s)
                                /\ m.args[i].as = "int" => NumberArrives(m.args[i].n)
    /\ TupleWord(m) # 0 => TupleArrives(m.args[TupleWord(m)].v,
                                        IF m.type \in Requests THEN FALSE ELSE UseTypes)
    /\ m.type = "UPDATE_TYPE" => TypeArrives(m.args[2].v) /\ TextArrives(ProcessId)
CallsProper  == \A m \in Said : Proper(m) /\ m.type \in Understood
ValuesArrive == \A m \in Said : WordsArrive(m)

\* What a handler is given is what the caller meant, argument by argument:
\* strings, tuplespaces in their order, tuples down to the last pointer, types
\* and code (Message_getString, BuildMessage, LindaPython_recv).
MessageArrives ==
    \A es \in asked : ~Exits(es) /\ SameMessage(Meant(call), Handed(Decode(es)))

\* And so is the answer (LindaPython_send; Linda_in reads m->tuple of any answer).
AnswerArrives ==
    \A es \in reply, a \in answer : ~Exits(es) /\ SameMessage(Meant(a), Handed(Decode(es)))

\* Every word of a message is given back as what it is: a string to free, a
\* value to delReference (Message_free against the constructors and
\* BuildMessage).  The reader keeps the tuplespace of these three as a value
\* and frees it as a string: it is never given back.
KeptAsValue == Asks \cup {"INSPECT"}
FreedAsBuilt ==
    /\ Freed(Built(call)) /\ \A a \in answer : Freed(Built(a))
    /\ \A es \in asked \cup reply : LET m == Decode(es) IN m.type \in KeptAsValue \/ Freed(m)

\* A call returns, with the answer or with NULL, whatever becomes of the
\* server; except that Message_send goes on for ever when the server goes
\* while the body is being sent (message.c:922).
SendSpins == tx["caller"].stage = "body" /\ ~open["callee"]
CallReturns == caller = "sending" ~> (caller = "idle" \/ ~open["caller"] \/ SendSpins)
=============================================================================
