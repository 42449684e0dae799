----------------------------- MODULE Wire_proofs -----------------------------
(***************************************************************************)
(* Calls over a connection.  Every step of the two ends is a step of the   *)
(* connection, so what Stream_proofs says of frames holds of calls; the    *)
(* two ends take turns, so that what a handler reads is the call under way *)
(* and what the caller reads is the answer to it; and a message that is    *)
(* written and read back, word by word, is the message.                    *)
(***************************************************************************)
EXTENDS Wire, Stream_proofs, FiniteSetTheorems

\* The induction on lengths of lists that OwnerList_proofs has.
Lists == INSTANCE OwnerList_proofs

-----------------------------------------------------------------------------
(* The connection under the calls.                                         *)

\* An end is open or shut down, and the call is one of those there are.
Typed == open \in [Ends -> BOOLEAN] /\ call \in Calls \cup {NoCall}

\* What is said is a body that may be sent.
LEMMA SaidIsSent ==
    /\ \A c \in Calls : Encoded[Plan(c)] \in Bodies
    /\ \A c \in Calls \cup {NoCall} : \A a \in c.answers : Encoded[a] \in Bodies
<1>1. ASSUME NEW c \in Calls PROVE Encoded[Plan(c)] \in Bodies
    <2>1. Plan(c) \in Said
        BY DEF Said
    <2>. QED BY <2>1, WireAssumption
<1>2. ASSUME NEW c \in Calls, NEW a \in c.answers PROVE Encoded[a] \in Bodies
    <2>1. a \in Said
        BY <1>2 DEF Said
    <2>. QED BY <2>1, WireAssumption
<1>3. NoCall.answers = {}
    BY DEF NoCall
<1>. QED BY <1>1, <1>2, <1>3

\* There are two ends.
LEMMA TwoEnds ==
    /\ "caller" \in Ends /\ "callee" \in Ends /\ Ends = TheEnds
    /\ Peer("caller") = "callee" /\ Peer("callee") = "caller"
    /\ \A e \in Ends : e = "caller" \/ e = "callee"
BY WireAssumption DEF TheEnds, Other

\* Shutting an end down leaves a function of the ends.
LEMMA TypedStep ==
    ASSUME Typed, [Next]_vars PROVE Typed'
<1>1. CASE \E c \in Calls : Call(c)
    BY <1>1 DEF Call, Typed
<1>2. CASE Request
    <2>1. open' = [open EXCEPT !["callee"] = ~Exits(Data(rx["caller"]))] /\ call' = call
        BY <1>2 DEF Request
    <2>2. (~Exits(Data(rx["caller"]))) \in BOOLEAN
        BY DEF Exits
    <2>. QED BY <2>1, <2>2 DEF Typed
<1>3. CASE Hangup \/ Shutdown
    <2>1. call' = call /\ \E e : open' = [open EXCEPT ![e] = FALSE]
        BY <1>3 DEF Hangup, Shutdown, Close, exchange
    <2>. QED BY <2>1 DEF Typed
<1>4. CASE Sending \/ Failing \/ Receiving
    BY <1>4 DEF Sending, Failing, Receiving, Send, SendFails, Receive, exchange, Typed
<1>5. CASE UNCHANGED <<open, call>>
    BY <1>5 DEF Typed
<1>6. CASE Sent \/ Handled \/ Answered \/ Reply \/ NoReply
    <2>1. UNCHANGED <<open, call>>
        BY <1>6 DEF Sent, Handled, Answer, Answered, Reply, NoReply
    <2>. QED BY <2>1, <1>5
<1>. QED BY <1>1, <1>2, <1>3, <1>4, <1>5, <1>6 DEF Next, vars

\* Every step of the two ends is a step of the connection, or leaves it alone.
LEMMA StepOfStream ==
    ASSUME Typed, [Next]_vars PROVE [StreamNext]_stream
<1>1. CASE \E c \in Calls : Call(c)
    BY <1>1, SaidIsSent, TwoEnds DEF Call, StreamNext
<1>2. CASE Request
    <2>1. Take("caller") /\ UNCHANGED <<tx, wire>> /\ open["callee"]
          /\ open' = [open EXCEPT !["callee"] = ~Exits(Data(rx["caller"]))]
        BY <1>2, TwoEnds DEF Request, Take
    <2>2. CASE Exits(Data(rx["caller"]))
        <3>1. open' = [open EXCEPT !["callee"] = FALSE]
            BY <2>1, <2>2
        <3>2. Close(Peer("caller"))
            BY <2>1, <3>1, TwoEnds DEF Close
        <3>. QED BY <2>1, <3>2, TwoEnds DEF StreamNext
    <2>3. CASE ~Exits(Data(rx["caller"]))
        <3>1. open' = [open EXCEPT !["callee"] = TRUE]
            BY <2>1, <2>3
        <3>2. open["callee"] = TRUE
            BY <2>1, TwoEnds DEF Typed
        <3>3. open' = open
            BY <3>1, <3>2, TwoEnds DEF Typed
        <3>. QED BY <2>1, <3>3, TwoEnds DEF StreamNext
    <2>. QED BY <2>2, <2>3
<1>3. CASE Handled
    BY <1>3, SaidIsSent, TwoEnds DEF Handled, Answer, Typed, StreamNext
<1>4. CASE Reply
    BY <1>4, TwoEnds DEF Reply, StreamNext
<1>5. CASE NoReply
    BY <1>5, TwoEnds DEF NoReply, StreamNext
<1>6. CASE Hangup
    BY <1>6, TwoEnds DEF Hangup, StreamNext
<1>7. CASE Sending
    BY <1>7, TwoEnds DEF Sending, StreamNext
<1>8. CASE Failing
    BY <1>8, TwoEnds DEF Failing, StreamNext
<1>9. CASE Receiving
    BY <1>9, TwoEnds DEF Receiving, StreamNext
<1>10. CASE Shutdown
    BY <1>10, TwoEnds DEF Shutdown, StreamNext
<1>11. CASE Sent \/ Answered \/ UNCHANGED vars
    BY <1>11 DEF Sent, Answered, vars, stream
<1>. QED BY <1>1, <1>2, <1>3, <1>4, <1>5, <1>6, <1>7, <1>8, <1>9, <1>10, <1>11 DEF Next

\* The types are an invariant.
LEMMA AlwaysTyped == Spec => []Typed
<1>1. Init => Typed
    BY TwoEnds DEF Init, StreamInit, Typed
<1>. QED BY <1>1, TypedStep, PTL DEF Spec

\* A call is made and answered over a connection: whatever functions of the
\* client library and handlers of the server do, send(2) and recv(2) are called
\* as Message_send and Message_recv call them.
THEOREM WireImplementsStream == Spec => StreamSpec
<1>1. Init => StreamInit
    BY DEF Init
<1>. QED BY <1>1, AlwaysTyped, StepOfStream, PTL DEF Spec, StreamSpec

\* What was proved of every connection holds of calls.
LEMMA ConnectionHolds == Spec => [](Typed /\ IInv /\ Bounded)
BY AlwaysTyped, WireImplementsStream, StreamInductive, StreamBounded, PTL

-----------------------------------------------------------------------------
(* The two ends take turns.                                                *)

\* Nothing of the frame is under way, and nothing more of it will be.
Still(e) == /\ wire[e] = <<>> /\ rx[e] = <<>>
            /\ tx[e].stage = "idle" \/ ~open["caller"] \/ ~open["callee"]

\* An end that has not sent anything has nothing under way;
Fresh == \A e \in Ends : tx[e].body = <<>> =>
                            tx[e].stage = "idle" /\ wire[e] = <<>> /\ rx[e] = <<>>
\* the caller sends its call, and once the callee has read it nothing of it is
\* left;
Question ==
    /\ tx["caller"].body # <<>> => call \in Calls /\ tx["caller"].body = Encoded[Plan(call)]
    /\ asked = {} \/ (asked = {Encoded[Plan(call)]} /\ call \in Calls /\ Still("caller"))
\* the callee sends one of the answers to it, after it was asked;
ItsAnswer ==
    /\ answer = {} => Still("callee") /\ reply = {}
    /\ answer # {} => /\ asked # {}
                      /\ \E a \in call.answers : /\ answer = {a}
                                                 /\ tx["callee"].body = Encoded[a]
                                                 /\ reply = {} \/ reply = {Encoded[a]}
\* a caller that is idle leaves nothing behind that a later call could read;
AtRest == caller = "idle" => /\ Still("callee")
                             /\ open["callee"] => Still("caller") /\ callee # "handling"
\* and a handler at work has been asked and has not answered.
AtWork == (callee = "handling" /\ open["callee"]) => asked # {} /\ answer = {}
\* The inductive invariant: the two ends take turns.
Turns == Fresh /\ Question /\ ItsAnswer /\ AtRest /\ AtWork

\* A frame under way has a body.
LEMMA UnderWay ==
    ASSUME IInv, Fresh, NEW e \in Ends, Complete(e)
    PROVE  tx[e].body # <<>> /\ Data(rx[e]) = tx[e].body /\ rx[e] # <<>>
<1>1. tx[e] \in Stage /\ wire[e] \in Seq(Unit) /\ rx[e] \in Seq(Unit)
    BY DEF IInv, StreamTypes
<1>2. Follows(tx[e], wire[e], rx[e])
    BY DEF IInv, EndInv
<1>3. Len(rx[e]) >= HeaderSize /\ Need(rx[e]) = 0
    BY DEF Complete
<1>4. Data(rx[e]) = tx[e].body
    BY <1>1, <1>2, <1>3, CompleteFrame
<1>5. rx[e] # <<>>
    <2>1. Len(<<>>) = 0
        OBVIOUS
    <2>. QED BY <1>3, <2>1 DEF HeaderSize
<1>. QED BY <1>4, <1>5 DEF Fresh

\* A call begins.
LEMMA CallTurns ==
    ASSUME Typed, IInv, Turns, NEW c \in Calls, Call(c) PROVE Turns'
<1> DEFINE b == Encoded[Plan(c)]
<1>1. b \in Bodies /\ b # <<>>
    <2>1. b \in Bodies /\ Len(b) \in Nat \ {0}
        BY SaidIsSent, StreamAssumption
    <2>2. Len(<<>>) = 0
        OBVIOUS
    <2>. QED BY <2>1, <2>2
<1>2. /\ tx' = [tx EXCEPT !["caller"] = [stage |-> "header", sent |-> 0, body |-> b]]
      /\ UNCHANGED <<wire, rx, open, callee>> /\ caller = "idle" /\ caller' = "sending"
      /\ call' = c /\ asked' = {} /\ answer' = {} /\ reply' = {}
    BY DEF Call, Start
<1> HIDE DEF b
<1>3. tx'["callee"] = tx["callee"] /\ tx'["caller"].body = b
    BY <1>2, TwoEnds DEF IInv, StreamTypes
<1>4. Still("callee")'
    BY <1>2, <1>3 DEF Turns, AtRest, Still
<1>5. Fresh'
    BY <1>1, <1>2, <1>3, TwoEnds DEF Turns, Fresh
<1>6. Question'
    BY <1>2, <1>3 DEF Question, b
<1>7. ItsAnswer'
    BY <1>2, <1>4 DEF ItsAnswer
<1>8. AtRest' /\ AtWork'
    BY <1>2 DEF Turns, AtRest, AtWork
<1>. QED BY <1>5, <1>6, <1>7, <1>8 DEF Turns

\* The callee reads the call.
LEMMA RequestTurns ==
    ASSUME Typed, IInv, Turns, Request PROVE Turns'
<1>1. /\ Take("caller") /\ callee' = "handling" /\ asked' = {Data(rx["caller"])}
      /\ UNCHANGED <<tx, wire, caller, call, answer, reply>>
      /\ open' = [open EXCEPT !["callee"] = ~Exits(Data(rx["caller"]))]
    BY DEF Request
<1>2. open["callee"] /\ Complete("caller") /\ rx' = [rx EXCEPT !["caller"] = <<>>]
    BY <1>1, TwoEnds DEF Take
<1>3. rx["caller"] # <<>> /\ tx["caller"].body # <<>> /\ Data(rx["caller"]) = tx["caller"].body
    BY <1>2, UnderWay, TwoEnds DEF Turns
<1>4. call \in Calls /\ Data(rx["caller"]) = Encoded[Plan(call)]
    BY <1>3 DEF Turns, Question
<1>5. rx'["caller"] = <<>> /\ rx'["callee"] = rx["callee"]
    BY <1>2, TwoEnds DEF IInv, StreamTypes
<1>6. open'["callee"] => open["callee"]
    BY <1>2
<1>7. open'["caller"] = open["caller"]
    BY <1>1, TwoEnds DEF Typed
<1>8. Still("caller")'
    <2>1. wire["caller"] = <<>>
          /\ (tx["caller"].stage # "idle" => ~(open["caller"] /\ open["callee"]))
        BY <1>1, NothingLeft, TwoEnds
    <2>. QED BY <1>1, <1>5, <1>6, <1>7, <2>1 DEF Still
<1>9. caller # "idle" /\ asked = {} /\ answer = {}
    BY <1>2, <1>3 DEF Turns, AtRest, Question, ItsAnswer, Still
<1>10. Fresh'
    BY <1>1, <1>5, TwoEnds DEF Turns, Fresh
<1>11. Question'
    BY <1>1, <1>4, <1>8 DEF Turns, Question
<1>12. ItsAnswer'
    <2>1. Still("callee")' /\ reply = {}
        BY <1>1, <1>5, <1>6, <1>7, <1>9 DEF Turns, ItsAnswer, Still
    <2>. QED BY <1>1, <1>9, <2>1 DEF ItsAnswer
<1>13. AtRest' /\ AtWork'
    BY <1>1, <1>9 DEF AtRest, AtWork
<1>. QED BY <1>10, <1>11, <1>12, <1>13 DEF Turns

\* The handler answers.
LEMMA AnswerTurns ==
    ASSUME Typed, IInv, Turns, Handled PROVE Turns'
<1>1. PICK a \in call.answers : Answer(a)
    BY DEF Handled
<1> DEFINE b == Encoded[a]
<1>2. b # <<>>
    <2>1. Len(b) \in Nat \ {0}
        BY SaidIsSent, StreamAssumption DEF Typed
    <2>2. Len(<<>>) = 0
        OBVIOUS
    <2>. QED BY <2>1, <2>2
<1>3. /\ tx' = [tx EXCEPT !["callee"] = [stage |-> "header", sent |-> 0, body |-> b]]
      /\ UNCHANGED <<wire, rx, open, caller, call, asked, reply>>
      /\ callee = "handling" /\ open["callee"] /\ answer' = {a} /\ callee' = "answering"
    BY <1>1 DEF Answer, Start
<1> HIDE DEF b
<1>4. tx'["caller"] = tx["caller"] /\ tx'["callee"].body = b
    BY <1>3, TwoEnds DEF IInv, StreamTypes
<1>5. asked # {} /\ answer = {} /\ reply = {} /\ caller # "idle"
    BY <1>3 DEF Turns, AtWork, ItsAnswer, AtRest
<1>6. Fresh'
    BY <1>2, <1>3, <1>4, TwoEnds DEF Turns, Fresh
<1>7. Question'
    <2>1. Still("caller") => Still("caller")'
        BY <1>3, <1>4 DEF Still
    <2>. QED BY <1>3, <1>4, <2>1 DEF Turns, Question
<1>8. ItsAnswer'
    BY <1>3, <1>4, <1>5 DEF ItsAnswer, b
<1>9. AtRest' /\ AtWork'
    BY <1>3, <1>5 DEF AtRest, AtWork
<1>. QED BY <1>6, <1>7, <1>8, <1>9 DEF Turns

\* The caller reads the answer, or sees that there is none.
LEMMA ReplyTurns ==
    ASSUME Typed, IInv, Turns, Reply \/ NoReply PROVE Turns'
<1>1. /\ Lost("callee") \/ Take("callee")
      /\ caller = "awaiting" /\ caller' = "idle" /\ UNCHANGED <<tx, wire, open, callee, call, asked, answer>>
    BY DEF Reply, NoReply
<1>2. rx' = [rx EXCEPT !["callee"] = <<>>]
    BY <1>1 DEF Lost, Take
<1>3. rx'["callee"] = <<>> /\ rx'["caller"] = rx["caller"]
    BY <1>2, TwoEnds DEF IInv, StreamTypes
<1>4. Still("callee")'
    <2>1. wire["callee"] = <<>>
          /\ (tx["callee"].stage # "idle" => ~(open["caller"] /\ open["callee"]))
        BY <1>1, NothingLeft, TwoEnds
    <2>. QED BY <1>1, <1>3, <2>1 DEF Still
<1>5. Fresh'
    BY <1>1, <1>3, TwoEnds DEF Turns, Fresh
<1>6. Question'
    <2>1. Still("caller") => Still("caller")'
        BY <1>1, <1>3 DEF Still
    <2>. QED BY <1>1, <2>1 DEF Turns, Question
<1>7. CASE Reply
    <2>1. reply' = {Data(rx["callee"])} /\ Complete("callee")
        BY <1>7 DEF Reply, Take
    <2>2. rx["callee"] # <<>> /\ Data(rx["callee"]) = tx["callee"].body
        BY <2>1, UnderWay, TwoEnds DEF Turns
    <2>3. answer # {} /\ asked # {}
        BY <2>2 DEF Turns, ItsAnswer, Still
    <2>4. ItsAnswer'
        BY <1>1, <2>1, <2>2, <2>3 DEF Turns, ItsAnswer
    <2>5. Still("caller") /\ (open["callee"] => callee # "handling")
        BY <2>3 DEF Turns, Question, AtWork
    <2>6. AtRest' /\ AtWork'
        BY <1>1, <1>3, <1>4, <2>5 DEF Turns, AtRest, AtWork, Still
    <2>. QED BY <1>5, <1>6, <2>4, <2>6 DEF Turns
<1>8. CASE NoReply
    <2>1. reply' = reply /\ ~open["callee"]
        BY <1>8 DEF NoReply, Lost
    <2>2. ItsAnswer'
        BY <1>1, <1>4, <2>1 DEF Turns, ItsAnswer
    <2>3. AtRest' /\ AtWork'
        BY <1>1, <1>4, <2>1 DEF Turns, AtRest, AtWork
    <2>. QED BY <1>5, <1>6, <2>2, <2>3 DEF Turns
<1>. QED BY <1>7, <1>8

\* A frame moves on, or the sender finds its reader gone.
LEMMA MovingTurns ==
    ASSUME Typed, IInv, Turns, Sending \/ Failing \/ Receiving PROVE Turns'
<1>1. PICK e \in Ends : (\E n \in 1..Capacity : Send(e, n) \/ Receive(e, n)) \/ SendFails(e)
    BY TwoEnds DEF Sending, Failing, Receiving
<1>2. UNCHANGED exchange
    BY DEF Sending, Failing, Receiving
<1>3. open' = open
    BY <1>1 DEF Send, Receive, SendFails
<1>4. tx'[e].body = tx[e].body
    <2>1. tx[e] \in Stage /\ tx \in [Ends -> Stage]
        BY DEF IInv, StreamTypes
    <2>2. CASE \E n \in 1..Capacity : Send(e, n)
        BY <2>1, <2>2 DEF Send, Stage
    <2>3. CASE SendFails(e)
        BY <2>1, <2>3 DEF SendFails, Stage
    <2>4. CASE \E n \in 1..Capacity : Receive(e, n)
        BY <2>4 DEF Receive
    <2>. QED BY <1>1, <2>2, <2>3, <2>4
<1>5. \A x \in Ends : x # e => tx'[x] = tx[x] /\ wire'[x] = wire[x] /\ rx'[x] = rx[x]
    BY <1>1 DEF IInv, StreamTypes, Send, Receive, SendFails
<1>6. tx[e].stage # "idle" \/ wire[e] # <<>>
    <2>1. CASE \E n \in 1..Capacity : Receive(e, n)
        <3>1. PICK n \in 1..Capacity : n <= Len(wire[e])
            BY <2>1 DEF Receive
        <3>2. Len(<<>>) = 0 /\ n >= 1 /\ n \in Int
            BY StreamAssumption
        <3>. QED BY <3>1, <3>2
    <2>. QED BY <1>1, <2>1 DEF Send, SendFails
<1>7. tx[e].body # <<>>
    BY <1>6 DEF Turns, Fresh
<1>8. Still(e) => Still(e)'
    <2>1. CASE \E n \in 1..Capacity : Send(e, n) \/ Receive(e, n)
        <3>1. ~Still(e)
            BY <2>1, <1>6, TwoEnds DEF Still, Send, Receive
        <3>. QED BY <3>1
    <2>2. CASE SendFails(e)
        <3>1. wire' = wire /\ rx' = rx /\ ~open[Peer(e)]
            BY <2>2 DEF SendFails
        <3>. QED BY <1>3, <3>1, TwoEnds DEF Still
    <2>. QED BY <1>1, <2>1, <2>2
<1>9. \A x \in Ends : tx'[x].body = tx[x].body /\ (Still(x) => Still(x)')
    BY <1>3, <1>4, <1>5, <1>8 DEF Still
<1>10. Fresh'
    BY <1>4, <1>5, <1>7 DEF Turns, Fresh
<1>11. Question' /\ ItsAnswer' /\ AtRest' /\ AtWork'
    BY <1>2, <1>3, <1>9, TwoEnds DEF exchange, Turns, Question, ItsAnswer, AtRest, AtWork
<1>. QED BY <1>10, <1>11 DEF Turns

\* An end shuts down, or a program goes on to wait.
LEMMA ClosingTurns ==
    ASSUME Typed, IInv, Turns, UNCHANGED <<tx, wire, rx, call, asked, answer, reply>>,
           open'["caller"] => open["caller"], open'["callee"] => open["callee"],
           caller' = "idle" => caller = "idle", callee' = "handling" => callee = "handling"
    PROVE  Turns'
<1>1. \A e \in Ends : Still(e) => Still(e)'
    BY DEF Still
<1>2. Fresh'
    BY DEF Turns, Fresh
<1>3. Question' /\ ItsAnswer'
    BY <1>1, TwoEnds DEF Turns, Question, ItsAnswer
<1>4. AtRest' /\ AtWork'
    BY <1>1, TwoEnds DEF Turns, AtRest, AtWork
<1>. QED BY <1>2, <1>3, <1>4 DEF Turns

\* The two ends take turns in every call.
LEMMA TakeTurns == Spec => []Turns
<1>1. Init => Turns
    <2> SUFFICES ASSUME Init PROVE Turns
        OBVIOUS
    <2>1. \A e \in Ends : /\ tx[e] = [stage |-> "idle", sent |-> 0, body |-> <<>>]
                          /\ wire[e] = <<>> /\ rx[e] = <<>>
        BY DEF Init, StreamInit
    <2>2. Still("caller") /\ Still("callee")
        BY <2>1, TwoEnds DEF Still
    <2>3. Fresh /\ Question
        BY <2>1, TwoEnds DEF Fresh, Question, Init
    <2>. QED BY <2>2, <2>3 DEF Init, Turns, ItsAnswer, AtRest, AtWork
<1>2. Typed /\ IInv /\ Turns /\ [Next]_vars => Turns'
    <2> SUFFICES ASSUME Typed, IInv, Turns, [Next]_vars PROVE Turns'
        OBVIOUS
    <2>1. CASE \E c \in Calls : Call(c)
        BY <2>1, CallTurns
    <2>2. CASE Request
        BY <2>2, RequestTurns
    <2>3. CASE Handled
        BY <2>3, AnswerTurns
    <2>4. CASE Reply \/ NoReply
        BY <2>4, ReplyTurns
    <2>5. CASE Sending \/ Failing \/ Receiving
        BY <2>5, MovingTurns
    <2>6. CASE Sent \/ Answered \/ UNCHANGED vars
        BY <2>6, ClosingTurns DEF Sent, Answered, vars
    <2>7. CASE Hangup \/ Shutdown
        <3>1. PICK e \in Ends : Close(e)
            BY <2>7, TwoEnds DEF Hangup, Shutdown
        <3>2. \A x \in Ends : open'[x] => open[x]
            BY <3>1 DEF Close, Typed
        <3>3. UNCHANGED <<tx, wire, rx, caller, callee, call, asked, answer, reply>>
            BY <2>7 DEF Hangup, Shutdown, exchange
        <3>. QED BY <3>2, <3>3, TwoEnds, ClosingTurns
    <2>. QED BY <2>1, <2>2, <2>3, <2>4, <2>5, <2>6, <2>7 DEF Next
<1>. QED BY <1>1, <1>2, ConnectionHolds, PTL DEF Spec

\* Where the two programs may be.
Programs == /\ caller \in {"idle", "sending", "awaiting"}
            /\ callee \in {"reading", "handling", "answering"}

\* The loops of Message_send and Message_recv stay within their parts, and
\* there is one call, one question, one answer and one reply at a time.
THEOREM WireTyped == Spec => []TypeOK
<1>1. Spec => []Programs
    <2>1. Init => Programs
        BY DEF Init, Programs
    <2>2. Programs /\ [Next]_vars => Programs'
        BY DEF Programs, Next, vars, Call, Sent, Request, Handled, Answer, Answered, Reply,
               NoReply, Hangup, Sending, Failing, Receiving, Shutdown, exchange
    <2>. QED BY <2>1, <2>2, PTL DEF Spec
<1>2. Typed /\ IInv /\ Bounded /\ Turns /\ Programs => TypeOK
    <2> SUFFICES ASSUME Typed, IInv, Bounded, Turns, Programs PROVE TypeOK
        OBVIOUS
    <2>1. ASSUME NEW e \in TheEnds
          PROVE  /\ tx[e].stage \in {"idle", "header", "body"}
                 /\ tx[e].sent \in -MaxBack..(IF tx[e].stage = "header" THEN HeaderSize - 1
                                              ELSE Len(tx[e].body))
                 /\ Len(wire[e]) <= Capacity
                 /\ open[e] \in BOOLEAN
        <3>1. e \in Ends
            BY TwoEnds
        <3>2. tx[e] \in Stage
            BY <3>1 DEF IInv, StreamTypes
        <3>. QED BY <3>1, <3>2 DEF Stage, Typed, Bounded, EndBounded, Limit
    <2>2. Cardinality({}) = 0 /\ \A x : Cardinality({x}) = 1
        BY FS_EmptySet, FS_Singleton
    <2>3. (asked = {} \/ \E x : asked = {x}) /\ (reply = {} \/ \E x : reply = {x})
        BY DEF Turns, Question, ItsAnswer
    <2>4. Cardinality(asked) <= 1 /\ Cardinality(reply) <= 1
        <3>1. Cardinality(asked) \in {0, 1} /\ Cardinality(reply) \in {0, 1}
            BY <2>2, <2>3, Zenon
        <3>. QED BY <3>1
    <2>5. answer \subseteq call.answers
        BY DEF Turns, ItsAnswer
    <2>. QED BY <2>1, <2>4, <2>5 DEF TypeOK, Programs, Typed
<1>. QED BY <1>1, <1>2, ConnectionHolds, TakeTurns, PTL

-----------------------------------------------------------------------------
(* Reading one element after the other.                                    *)

\* es is a list of elements.
Listed(es) == Len(es) \in Nat /\ es = [i \in 1..Len(es) |-> es[i]]

\* Writing one list after another.
LEMMA ListedConcat ==
    ASSUME NEW es, NEW fs, Listed(es), Listed(fs)
    PROVE  /\ Listed(es \o fs) /\ Len(es \o fs) = Len(es) + Len(fs)
           /\ \A i \in 1..Len(es) : (es \o fs)[i] = es[i]
           /\ \A i \in 1..Len(fs) : (es \o fs)[Len(es) + i] = fs[i]
<1> DEFINE S == {es[i] : i \in 1..Len(es)} \cup {fs[i] : i \in 1..Len(fs)}
<1>1. Len(es) \in Nat /\ Len(fs) \in Nat
    BY DEF Listed
<1>2. es \in Seq(S) /\ fs \in Seq(S)
    <2>1. es \in [1..Len(es) -> S] /\ fs \in [1..Len(fs) -> S]
        BY DEF Listed
    <2> HIDE DEF S
    <2>. QED BY <1>1, <2>1, SeqDef
<1> HIDE DEF S
<1>3. /\ es \o fs \in Seq(S) /\ Len(es \o fs) = Len(es) + Len(fs)
      /\ \A i \in 1..(Len(es) + Len(fs)) :
             (es \o fs)[i] = IF i <= Len(es) THEN es[i] ELSE fs[i - Len(es)]
    BY <1>2, ConcatProperties
<1>4. Listed(es \o fs)
    BY <1>3, LenProperties DEF Listed
<1>5. ASSUME NEW i \in 1..Len(fs) PROVE (es \o fs)[Len(es) + i] = fs[i]
    <2>1. /\ Len(es) + i \in 1..(Len(es) + Len(fs)) /\ ~(Len(es) + i <= Len(es))
          /\ (Len(es) + i) - Len(es) = i
        BY <1>1
    <2>. QED BY <1>3, <2>1
<1>. QED BY <1>1, <1>3, <1>4, <1>5

\* No element and one element.
LEMMA ListedShort ==
    /\ Listed(<<>>) /\ Len(<<>>) = 0
    /\ \A e : Listed(<<e>>) /\ Len(<<e>>) = 1 /\ <<e>>[1] = e
<1>1. Len(<<>>) = 0 /\ <<>> = [i \in 1..0 |-> <<>>[i]]
    OBVIOUS
<1>2. ASSUME NEW e PROVE Len(<<e>>) = 1 /\ <<e>>[1] = e /\ <<e>> = [i \in 1..1 |-> <<e>>[i]]
    OBVIOUS
<1>. QED BY <1>1, <1>2 DEF Listed

\* A run of BuildMessage over the first n elements.
Run(m, es, n, g) == g[0] = m /\ \A i \in 1..n : g[i] = BuildMessage(g[i - 1], es[i])

\* The same run as one function, which a recursive definition gives.
Reading(m, es, n, g) ==
    g = [i \in 0..n |-> IF i = 0 THEN m ELSE BuildMessage(g[i - 1], es[i])]

\* The loop over the elements computes a function of the number read.
LEMMA ReadExists == \A m, es : \A N \in Nat : \E g : Reading(m, es, N, g)
<1> SUFFICES ASSUME NEW m, NEW es
             PROVE  \A N \in Nat : \E g : Reading(m, es, N, g)
    OBVIOUS
<1> DEFINE step(k, i) == BuildMessage(k, es[i])
           Good(g, N) == g = [i \in 0..N |-> IF i = 0 THEN m ELSE step(g[i - 1], i)]
           T == {N \in Nat : \E g : Good(g, N)}
<1>1. 0 \in T
    <2> HIDE DEF step
    <2>1. Good([i \in 0..0 |-> m], 0)
        OBVIOUS
    <2> HIDE DEF Good
    <2>. QED BY <2>1
<1>2. ASSUME NEW N \in Nat, N \in T PROVE N + 1 \in T
    <2>1. PICK g : Good(g, N)
        BY <1>2
    <2> HIDE DEF step
    <2> DEFINE last == step(g[N], N + 1)
               h == [i \in 0..(N + 1) |-> IF i = N + 1 THEN last ELSE g[i]]
    <2>2. \A i \in 0..N : g[i] = IF i = 0 THEN m ELSE step(g[i - 1], i)
        BY <2>1
    <2>3. ASSUME NEW i \in 0..(N + 1)
          PROVE  h[i] = IF i = 0 THEN m ELSE step(h[i - 1], i)
        <3>1. CASE i = N + 1
            BY <3>1
        <3>2. CASE i \in 0..N
            <4>1. h[i] = g[i] /\ (i # 0 => h[i - 1] = g[i - 1])
                BY <3>2
            <4>. QED BY <4>1, <3>2, <2>2
        <3>. QED BY <3>1, <3>2
    <2>4. Good(h, N + 1)
        BY <2>3
    <2> HIDE DEF Good
    <2>. QED BY <2>4
<1>3. Nat \subseteq T
    <2> HIDE DEF T
    <2>. QED BY <1>1, <1>2, Lists!Induction
<1>4. \A g, N : Good(g, N) = Reading(m, es, N, g)
    BY DEF Reading
<1>. QED BY <1>3, <1>4

\* What is read is the end of the run over the elements.
LEMMA ReadOnRun ==
    ASSUME NEW m, NEW es, Len(es) \in Nat
    PROVE  \E g : Run(m, es, Len(es), g) /\ ReadOn(m, es) = g[Len(es)]
<1> DEFINE read[i \in 0..Len(es)] == IF i = 0 THEN m ELSE BuildMessage(read[i - 1], es[i])
<1>1. \E g : Reading(m, es, Len(es), g)
    BY ReadExists
<1>2. Reading(m, es, Len(es), read)
    BY <1>1 DEF Reading
<1>3. ReadOn(m, es) = read[Len(es)]
    BY DEF ReadOn
<1> HIDE DEF read
<1>4. Run(m, es, Len(es), read)
    <2>1. 0 \in 0..Len(es) /\ \A i \in 1..Len(es) : i \in 0..Len(es) /\ i # 0
        OBVIOUS
    <2>2. read[0] = m
        BY <1>2, <2>1 DEF Reading
    <2>3. ASSUME NEW i \in 1..Len(es) PROVE read[i] = BuildMessage(read[i - 1], es[i])
        <3>1. read[i] = IF i = 0 THEN m ELSE BuildMessage(read[i - 1], es[i])
            BY <1>2, <2>1 DEF Reading
        <3>. QED BY <3>1, <2>1
    <2>. QED BY <2>2, <2>3 DEF Run
<1>. QED BY <1>3, <1>4

\* There is one such run.
LEMMA RunUnique ==
    ASSUME NEW m, NEW es, NEW n \in Nat, NEW g, NEW h, Run(m, es, n, g), Run(m, es, n, h)
    PROVE  g[n] = h[n]
<1> DEFINE T == {i \in Nat : i <= n => g[i] = h[i]}
<1>1. 0 \in T
    BY DEF Run
<1>2. ASSUME NEW i \in Nat, i \in T PROVE i + 1 \in T
    <2> SUFFICES ASSUME i + 1 <= n PROVE g[i + 1] = h[i + 1]
        OBVIOUS
    <2>1. g[i] = h[i] /\ i + 1 \in 1..n /\ (i + 1) - 1 = i
        BY <1>2
    <2>. QED BY <2>1 DEF Run
<1>3. Nat \subseteq T
    <2> HIDE DEF T
    <2>. QED BY <1>1, <1>2, Lists!Induction
<1>. QED BY <1>3

\* The elements es make m into k, and the reader knows them.
Reads(m, es, k) == Listed(es) /\ ~Exits(es) /\ ReadOn(m, es) = k

\* Nothing is read from nothing.
LEMMA ReadsNothing == \A m : Reads(m, <<>>, m)
<1> TAKE m
<1>1. PICK g : Run(m, <<>>, 0, g) /\ ReadOn(m, <<>>) = g[0]
    BY ReadOnRun, ListedShort
<1>2. ~Exits(<<>>)
    <2>1. DOMAIN <<>> = {}
        OBVIOUS
    <2>. QED BY <2>1 DEF Exits
<1>. QED BY <1>1, <1>2, ListedShort DEF Run, Reads

\* One element.
LEMMA ReadsElement ==
    ASSUME NEW m, NEW e, e.tag = "action" => e.s \in Known
    PROVE  Reads(m, <<e>>, BuildMessage(m, e))
<1>1. Len(<<e>>) = 1 /\ <<e>>[1] = e /\ Listed(<<e>>)
    BY ListedShort
<1>2. PICK g : Run(m, <<e>>, 1, g) /\ ReadOn(m, <<e>>) = g[1]
    BY <1>1, ReadOnRun
<1>3. ~Exits(<<e>>)
    <2>1. DOMAIN <<e>> = {1}
        OBVIOUS
    <2>. QED BY <1>1, <2>1 DEF Exits
<1>4. 1 \in 1..1 /\ 1 - 1 = 0
    OBVIOUS
<1>. QED BY <1>1, <1>2, <1>3, <1>4 DEF Run, Reads

\* One list after another.
LEMMA ReadsOn ==
    ASSUME NEW m, NEW es, NEW k, NEW fs, NEW j, Reads(m, es, k), Reads(k, fs, j)
    PROVE  Reads(m, es \o fs, j)
<1> DEFINE hs == es \o fs
           N == Len(es)
           M == Len(fs)
<1>1. N \in Nat /\ M \in Nat /\ Listed(es) /\ Listed(fs)
    BY DEF Reads, Listed
<1>2. /\ Listed(hs) /\ Len(hs) = N + M
      /\ \A i \in 1..N : hs[i] = es[i]
      /\ \A i \in 1..M : hs[N + i] = fs[i]
    BY <1>1, ListedConcat
<1> HIDE DEF hs
<1>3. PICK g : Run(m, es, N, g) /\ k = g[N]
    BY <1>1, ReadOnRun DEF Reads
<1>4. PICK h : Run(k, fs, M, h) /\ j = h[M]
    BY <1>1, ReadOnRun DEF Reads
<1>5. PICK f : Run(m, hs, N + M, f) /\ ReadOn(m, hs) = f[N + M]
    BY <1>1, <1>2, ReadOnRun
<1>6. f[N] = k
    <2>1. Run(m, es, N, f)
        BY <1>1, <1>2, <1>5 DEF Run
    <2>. QED BY <1>1, <1>3, <2>1, RunUnique
<1>7. f[N + M] = j
    <2> DEFINE d == [i \in 0..M |-> f[N + i]]
    <2>1. d[0] = k
        BY <1>1, <1>6
    <2>2. ASSUME NEW i \in 1..M PROVE d[i] = BuildMessage(d[i - 1], fs[i])
        <3>1. /\ N + i \in 1..(N + M) /\ i \in 0..M /\ i - 1 \in 0..M
              /\ (N + i) - 1 = N + (i - 1)
            BY <1>1
        <3>2. f[N + i] = BuildMessage(f[(N + i) - 1], hs[N + i])
            BY <1>5, <3>1 DEF Run
        <3>. QED BY <1>2, <3>1, <3>2
    <2>3. d[M] = f[N + M]
        BY <1>1
    <2> HIDE DEF d
    <2>4. Run(k, fs, M, d)
        BY <2>1, <2>2 DEF Run
    <2>. QED BY <1>1, <1>4, <2>3, <2>4, RunUnique
<1>8. ~Exits(hs)
    <2> SUFFICES ASSUME NEW i \in DOMAIN hs, hs[i].tag = "action", hs[i].s \notin Known PROVE FALSE
        BY DEF Exits
    <2>1. i \in 1..(N + M)
        <3>1. hs = [x \in 1..(N + M) |-> hs[x]]
            BY <1>2 DEF Listed
        <3>2. DOMAIN hs = 1..(N + M)
            BY <3>1
        <3>. QED BY <3>2
    <2>2. DOMAIN es = 1..N /\ DOMAIN fs = 1..M
        BY <1>1 DEF Listed
    <2>3. CASE i <= N
        <3>1. i \in 1..N
            BY <2>1, <2>3
        <3>. QED BY <1>2, <2>2, <3>1 DEF Reads, Exits
    <2>4. CASE i > N
        <3>1. i - N \in 1..M /\ N + (i - N) = i
            BY <1>1, <2>1, <2>4
        <3>2. hs[i] = fs[i - N]
            BY <1>2, <3>1
        <3>. QED BY <2>2, <3>1, <3>2 DEF Reads, Exits
    <2>. QED BY <1>1, <2>1, <2>3, <2>4
<1>. QED BY <1>2, <1>5, <1>7, <1>8 DEF Reads, hs

-----------------------------------------------------------------------------
(* Messages and their words.                                               *)

\* A message with its three words.
Msg(type, msgid, a, b, c) ==
    [type |-> type, msgid |-> msgid,
     word |-> [i \in 1..3 |-> IF i = 1 THEN a ELSE IF i = 2 THEN b ELSE c]]

\* The parts of a message, and what setting one does.
LEMMA MsgParts ==
    \A type, msgid, a, b, c :
        LET m == Msg(type, msgid, a, b, c) IN
        /\ m.type = type /\ m.msgid = msgid
        /\ m.word[1] = a /\ m.word[2] = b /\ m.word[3] = c
        /\ \A t : [m EXCEPT !.type = t] = Msg(t, msgid, a, b, c)
        /\ \A g : [m EXCEPT !.msgid = g] = Msg(type, g, a, b, c)
        /\ \A w : Put(m, 0, w) = m /\ Put(m, 1, w) = Msg(type, msgid, w, b, c)
        /\ \A w : Put(m, 2, w) = Msg(type, msgid, a, w, c)
        /\ \A w : Put(m, 3, w) = Msg(type, msgid, a, b, w)
<1> SUFFICES ASSUME NEW type, NEW msgid, NEW a, NEW b, NEW c
             PROVE  LET m == Msg(type, msgid, a, b, c) IN
                    /\ m.type = type /\ m.msgid = msgid
                    /\ m.word[1] = a /\ m.word[2] = b /\ m.word[3] = c
                    /\ \A t : [m EXCEPT !.type = t] = Msg(t, msgid, a, b, c)
                    /\ \A g : [m EXCEPT !.msgid = g] = Msg(type, g, a, b, c)
                    /\ \A w : Put(m, 0, w) = m /\ Put(m, 1, w) = Msg(type, msgid, w, b, c)
                    /\ \A w : Put(m, 2, w) = Msg(type, msgid, a, w, c)
                    /\ \A w : Put(m, 3, w) = Msg(type, msgid, a, b, w)
    OBVIOUS
<1> DEFINE W(x, y, z) == [i \in 1..3 |-> IF i = 1 THEN x ELSE IF i = 2 THEN y ELSE z]
           R(t, g, v) == [type |-> t, msgid |-> g, word |-> v]
           m == Msg(type, msgid, a, b, c)
<1>1. m.type = type /\ m.msgid = msgid /\ m.word[1] = a /\ m.word[2] = b /\ m.word[3] = c
    BY DEF Msg
<1>2. \A t, g, x, y, z : Msg(t, g, x, y, z) = R(t, g, W(x, y, z))
    BY DEF Msg
<1>3. ASSUME NEW w
      PROVE  /\ [W(a, b, c) EXCEPT ![1] = w] = W(w, b, c)
             /\ [W(a, b, c) EXCEPT ![2] = w] = W(a, w, c)
             /\ [W(a, b, c) EXCEPT ![3] = w] = W(a, b, w)
    <2> DEFINE V(j) == [W(a, b, c) EXCEPT ![j] = w]
    <2>a. \A j \in 1..3 : /\ V(j) = [i \in 1..3 |-> V(j)[i]]
                          /\ \A i \in 1..3 : V(j)[i] = IF i = j THEN w ELSE W(a, b, c)[i]
        OBVIOUS
    <2> HIDE DEF V
    <2>1. V(1) = W(w, b, c)
        BY <2>a
    <2>2. V(2) = W(a, w, c)
        BY <2>a
    <2>3. V(3) = W(a, b, w)
        BY <2>a
    <2> USE DEF V
    <2> HIDE DEF W
    <2>. QED BY <2>1, <2>2, <2>3
<1> HIDE DEF W
<1>4. ASSUME NEW t PROVE [m EXCEPT !.type = t] = Msg(t, msgid, a, b, c)
    <2>1. [R(type, msgid, W(a, b, c)) EXCEPT !.type = t] = R(t, msgid, W(a, b, c))
        OBVIOUS
    <2>. QED BY <1>2, <2>1
<1>5. ASSUME NEW g PROVE [m EXCEPT !.msgid = g] = Msg(type, g, a, b, c)
    <2>1. [R(type, msgid, W(a, b, c)) EXCEPT !.msgid = g] = R(type, g, W(a, b, c))
        OBVIOUS
    <2>. QED BY <1>2, <2>1
<1>6. ASSUME NEW i \in 1..3, NEW w
      PROVE  Put(m, i, w) = R(type, msgid, [W(a, b, c) EXCEPT ![i] = w])
    <2>1. [R(type, msgid, W(a, b, c)) EXCEPT !.word[i] = w] = R(type, msgid, [W(a, b, c) EXCEPT ![i] = w])
        OBVIOUS
    <2>. QED BY <1>2, <2>1 DEF Put
<1>7. \A w : Put(m, 0, w) = m
    BY DEF Put
<1> HIDE DEF R, m
<1>8. \A w : /\ Put(m, 1, w) = Msg(type, msgid, w, b, c)
             /\ Put(m, 2, w) = Msg(type, msgid, a, w, c)
             /\ Put(m, 3, w) = Msg(type, msgid, a, b, w)
    BY <1>2, <1>3, <1>6
<1>. QED BY <1>1, <1>4, <1>5, <1>7, <1>8 DEF m

-----------------------------------------------------------------------------
(* What the elements of a message do.                                      *)

\* The cases of BuildMessage.
ByTag(tag, action, msgid, ts, tid, tuple, string, integer, element, other) ==
    CASE tag = "action" -> action
      [] tag = "msgid"  -> msgid
      [] tag = "ts"     -> ts
      [] tag = "tid"    -> tid
      [] tag = "tuple"  -> tuple
      [] tag = "string" -> string
      [] tag = "integer" -> integer
      [] tag = "element" -> element
      [] OTHER -> other

\* Each kind of element has its case.
LEMMA ByTagCases ==
    \A tag, action, msgid, ts, tid, tuple, string, integer, element, other :
    LET b == ByTag(tag, action, msgid, ts, tid, tuple, string, integer, element, other) IN
    /\ tag = "action" => b = action
    /\ tag = "msgid" => b = msgid
    /\ tag = "ts" => b = ts
    /\ tag = "tid" => b = tid
    /\ tag = "tuple" => b = tuple
    /\ tag = "string" => b = string
    /\ tag = "integer" => b = integer
    /\ tag = "element" => b = element
    /\ tag \notin {"action", "msgid", "ts", "tid", "tuple", "string", "integer", "element"} => b = other
BY DEF ByTag

\* What each kind of element does.
LEMMA BuildCases ==
    ASSUME NEW m, NEW e
    PROVE
    /\ e.tag = "action" => BuildMessage(m, e) = [m EXCEPT !.type = e.s]
    /\ e.tag = "msgid"  => BuildMessage(m, e) = [m EXCEPT !.msgid = e.kids]
    /\ e.tag = "ts"     => BuildMessage(m, e) = Put(m, TsWord(m), IF m.type \in Refs THEN Str(e.s) ELSE Ref(TupleSpace(e.s)))
    /\ e.tag = "tid"    => BuildMessage(m, e) = Put(m, IF m.type \in Matches THEN 3 ELSE 0, Str(e.s))
    /\ e.tag = "tuple"  => BuildMessage(m, e) = Put(m, TupleWord(m), Ref(ReadValue(e)))
    /\ e.tag = "string" => BuildMessage(m, e) = Put(m, StringWord(m), Str(e.s))
    /\ e.tag = "integer" => BuildMessage(m, e) = Put(m, IF m.type = "RESULT_INT" THEN 1 ELSE 0, Num(CInt(e.n)))
    /\ e.tag = "element" => BuildMessage(m, e) = Put(m, IF m.type \in {"REGISTER_TYPE", "UPDATE_TYPE"} THEN 2 ELSE 0, Ref(ReadValue(e)))
    /\ e.tag \notin {"action", "msgid", "ts", "tid", "tuple", "string", "integer", "element"} => BuildMessage(m, e) = m
<1> DEFINE a == [m EXCEPT !.type = e.s]
           b == [m EXCEPT !.msgid = e.kids]
           c == Put(m, TsWord(m), IF m.type \in Refs THEN Str(e.s) ELSE Ref(TupleSpace(e.s)))
           d == Put(m, IF m.type \in Matches THEN 3 ELSE 0, Str(e.s))
           f == Put(m, TupleWord(m), Ref(ReadValue(e)))
           g == Put(m, StringWord(m), Str(e.s))
           h == Put(m, IF m.type = "RESULT_INT" THEN 1 ELSE 0, Num(CInt(e.n)))
           i == Put(m, IF m.type \in {"REGISTER_TYPE", "UPDATE_TYPE"} THEN 2 ELSE 0, Ref(ReadValue(e)))
           t == e.tag
<1>1. BuildMessage(m, e) = ByTag(t, a, b, c, d, f, g, h, i, m)
    BY Zenon DEF BuildMessage, ByTag
<1> HIDE DEF a, b, c, d, f, g, h, i, t
<1>2. /\ t = "action" => ByTag(t, a, b, c, d, f, g, h, i, m) = a
      /\ t = "msgid" => ByTag(t, a, b, c, d, f, g, h, i, m) = b
      /\ t = "ts" => ByTag(t, a, b, c, d, f, g, h, i, m) = c
      /\ t = "tid" => ByTag(t, a, b, c, d, f, g, h, i, m) = d
      /\ t = "tuple" => ByTag(t, a, b, c, d, f, g, h, i, m) = f
      /\ t = "string" => ByTag(t, a, b, c, d, f, g, h, i, m) = g
      /\ t = "integer" => ByTag(t, a, b, c, d, f, g, h, i, m) = h
      /\ t = "element" => ByTag(t, a, b, c, d, f, g, h, i, m) = i
      /\ t \notin {"action", "msgid", "ts", "tid", "tuple", "string", "integer", "element"} => ByTag(t, a, b, c, d, f, g, h, i, m) = m
    BY ByTagCases
<1>. QED BY <1>1, <1>2 DEF a, b, c, d, f, g, h, i, t

\* The messages that hold a tuple.
Holders == {"RESULT_TUPLE", "OUT"} \cup Matches \cup Collects \cup Requests

\* Where a tuple goes, and that nothing else beside it goes anywhere.
LEMMA HoldersRead ==
    ASSUME NEW k, k.type \in Holders, NEW e,
           e.tag \notin {"action", "msgid", "ts", "tid"}
    PROVE  /\ TupleWord(k) \in 1..3
           /\ BuildMessage(k, e) = IF e.tag = "tuple" THEN Put(k, TupleWord(k), Ref(ReadValue(e))) ELSE k
<1>1. TupleWord(k) \in 1..3
    BY DEF TupleWord, Holders, Matches, Collects, Requests
<1>2. StringWord(k) = 0
    BY DEF StringWord, Holders, Matches, Collects, Requests, Texts, Refs
<1>3. k.type \notin {"RESULT_INT", "REGISTER_TYPE", "UPDATE_TYPE"}
    BY DEF Holders, Matches, Collects, Requests
<1>4. \A w : Put(k, 0, w) = k
    BY DEF Put
<1>5. CASE e.tag = "tuple"
    BY <1>1, <1>5, BuildCases
<1>6. CASE e.tag # "tuple"
    <2>1. CASE e.tag = "string"
        BY <1>1, <1>2, <1>4, <2>1, BuildCases
    <2>2. CASE e.tag = "integer"
        BY <1>1, <1>3, <1>4, <2>2, BuildCases
    <2>3. CASE e.tag = "element"
        BY <1>1, <1>3, <1>4, <2>3, BuildCases
    <2>4. CASE e.tag \notin {"string", "integer", "element"}
        BY <1>1, <1>6, <2>4, BuildCases
    <2>. QED BY <1>6, <2>1, <2>2, <2>3, <2>4
<1>. QED BY <1>1, <1>5, <1>6

\* A tuple is read into its word, whatever its pointers point to.
LEMMA ReadsTuple ==
    ASSUME NEW type \in Holders, NEW msgid, NEW a, NEW b, NEW c, NEW v, NEW types,
           TupleArrives(v, types)
    PROVE  LET k == Msg(type, msgid, a, b, c)
           IN  \E u : LookAlike(v, u) /\ Reads(k, WriteValue(v, types, FALSE), Put(k, TupleWord(k), Ref(u)))
<1> DEFINE k == Msg(type, msgid, a, b, c)
           xml == WriteValue(v, types, FALSE)
           N == Len(xml)
           tw == TupleWord(k)
           p(w) == Put(k, tw, w)
<1>1. /\ N \in Nat /\ Listed(xml)
      /\ \A i \in 1..N : xml[i].tag \notin {"action", "msgid", "ts", "tid"}
    BY DEF TupleArrives, Listed
<1>2. PICK i \in 1..N : /\ xml[i].tag = "tuple" /\ LookAlike(v, ReadValue(xml[i]))
                        /\ \A j \in (i + 1)..N : xml[j].tag # "tuple"
    BY DEF TupleArrives
<1> DEFINE r == Ref(ReadValue(xml[i]))
<1>3. PICK g : Run(k, xml, N, g) /\ ReadOn(k, xml) = g[N]
    BY <1>1, ReadOnRun
<1>4. k.type = type /\ type \in Holders /\ tw \in 1..3
    <2>1. k.type = type
        BY MsgParts
    <2>2. ("string" \notin {"action", "msgid", "ts", "tid"})
        OBVIOUS
    <2>3. [tag |-> "string"].tag \notin {"action", "msgid", "ts", "tid"}
        OBVIOUS
    <2>. QED BY <2>1, <2>3, HoldersRead
<1>5. \A w : p(w).type = type /\ TupleWord(p(w)) = tw /\ \A x : Put(p(w), tw, x) = p(x)
    <2> TAKE w
    <2>1. PICK x1, y1, z1 : p(w) = Msg(type, msgid, x1, y1, z1)
        BY <1>4, MsgParts
    <2>2. p(w).type = type
        BY <2>1, MsgParts
    <2>3. TupleWord(p(w)) = tw
        BY <1>4, <2>2 DEF TupleWord
    <2>4. ASSUME NEW x PROVE Put(p(w), tw, x) = p(x)
        <3>1. CASE tw = 1
            BY <3>1, MsgParts
        <3>2. CASE tw = 2
            BY <3>2, MsgParts
        <3>3. CASE tw = 3
            BY <3>3, MsgParts
        <3>. QED BY <1>4, <3>1, <3>2, <3>3
    <2>. QED BY <2>2, <2>3, <2>4
<1> HIDE DEF k, xml, tw, p, r
<1>6. ASSUME NEW q, q = k \/ (\E w : q = p(w)), NEW n \in 1..N
      PROVE  BuildMessage(q, xml[n]) = IF xml[n].tag = "tuple" THEN p(Ref(ReadValue(xml[n]))) ELSE q
    <2>1. q.type \in Holders
        BY <1>4, <1>5, <1>6
    <2>2. BuildMessage(q, xml[n]) = IF xml[n].tag = "tuple"
                                    THEN Put(q, TupleWord(q), Ref(ReadValue(xml[n]))) ELSE q
        BY <1>1, <2>1, HoldersRead
    <2>3. \A x : Put(q, TupleWord(q), x) = p(x)
        <3>1. CASE q = k
            BY <3>1 DEF p, tw
        <3>2. CASE \E w : q = p(w)
            BY <3>2, <1>5
        <3>. QED BY <1>6, <3>1, <3>2
    <2>. QED BY <2>2, <2>3
<1> DEFINE P(n) == /\ g[n] = k \/ \E w : g[n] = p(w)
                   /\ n >= i => g[n] = p(r)
           T == {n \in Nat : n <= N => P(n)}
<1>7. 0 \in T
    BY <1>2, <1>3 DEF Run
<1>8. ASSUME NEW n \in Nat, n \in T PROVE n + 1 \in T
    <2> SUFFICES ASSUME n + 1 <= N PROVE P(n + 1)
        OBVIOUS
    <2>1. P(n) /\ n + 1 \in 1..N /\ (n + 1) - 1 = n
        BY <1>1, <1>8
    <2>2. g[n + 1] = BuildMessage(g[n], xml[n + 1])
        BY <1>3, <2>1 DEF Run
    <2>3. g[n + 1] = IF xml[n + 1].tag = "tuple" THEN p(Ref(ReadValue(xml[n + 1]))) ELSE g[n]
        BY <1>6, <2>1, <2>2
    <2>4. ASSUME n + 1 >= i PROVE g[n + 1] = p(r)
        <3>1. CASE n + 1 = i
            BY <1>2, <2>3, <3>1 DEF r
        <3>2. CASE n + 1 # i
            <4>1. n >= i /\ n + 1 \in (i + 1)..N
                BY <1>1, <1>2, <2>1, <2>4, <3>2
            <4>2. xml[n + 1].tag # "tuple"
                BY <1>2, <4>1
            <4>. QED BY <2>1, <2>3, <4>1, <4>2
        <3>. QED BY <3>1, <3>2
    <2>. QED BY <2>1, <2>3, <2>4
<1>9. Nat \subseteq T
    <2> HIDE DEF T
    <2>. QED BY <1>7, <1>8, Lists!Induction
<1>10. g[N] = p(r)
    <2>1. N \in T /\ N <= N /\ N >= i
        BY <1>1, <1>2, <1>9
    <2>. QED BY <2>1
<1>11. ~Exits(xml)
    <2>1. DOMAIN xml = 1..N
        BY <1>1 DEF Listed
    <2>. QED BY <1>1, <2>1 DEF Exits
<1>12. Reads(k, xml, p(r))
    BY <1>1, <1>3, <1>10, <1>11 DEF Reads
<1>. QED BY <1>2, <1>12 DEF k, xml, p, tw, r

\* The parts of an element.
LEMMA ElementParts ==
    \A tag, s, n, kids : LET e == Element(tag, s, n, kids)
                         IN  e.tag = tag /\ e.s = s /\ e.n = n /\ e.kids = kids
BY DEF Element

\* A string, a number, a tuplespace and a thread go where they belong.
LEMMA ReadsWords ==
    ASSUME NEW k
    PROVE  /\ \A s : TextArrives(s) => Reads(k, Text(s), Put(k, StringWord(k), Str(s)))
           /\ \A n : NumberArrives(n) =>
                  Reads(k, WriteValue(IntValue(n), FALSE, FALSE),
                        Put(k, IF k.type = "RESULT_INT" THEN 1 ELSE 0, Num(n)))
           /\ \A s : Reads(k, Ts(s), Put(k, TsWord(k), IF k.type \in Refs THEN Str(s)
                                                       ELSE Ref(TupleSpace(s))))
           /\ \A s : Reads(k, Tid(s), Put(k, IF k.type \in Matches THEN 3 ELSE 0, Str(s)))
           /\ \A v, spec : Reads(k, InElement(v, spec),
                                 Put(k, IF k.type \in {"REGISTER_TYPE", "UPDATE_TYPE"} THEN 2 ELSE 0,
                                     Ref(ReadValue(InElement(v, spec)[1]))))
<1>1. ASSUME NEW s, TextArrives(s) PROVE Reads(k, Text(s), Put(k, StringWord(k), Str(s)))
    <2> DEFINE e == Text(s)[1]
    <2>1. Text(s) = <<e>> /\ e.tag = "string" /\ e.s = s
        BY <1>1 DEF TextArrives, OneElement
    <2> HIDE DEF e
    <2>2. BuildMessage(k, e) = Put(k, StringWord(k), Str(s))
        BY <2>1, BuildCases
    <2>3. Reads(k, <<e>>, BuildMessage(k, e))
        BY <2>1, ReadsElement
    <2>. QED BY <2>1, <2>2, <2>3
<1>2. ASSUME NEW n, NumberArrives(n)
      PROVE  Reads(k, WriteValue(IntValue(n), FALSE, FALSE),
                   Put(k, IF k.type = "RESULT_INT" THEN 1 ELSE 0, Num(n)))
    <2> DEFINE xml == WriteValue(IntValue(n), FALSE, FALSE)
               e == xml[1]
    <2>1. xml = <<e>> /\ e.tag = "integer" /\ CInt(e.n) = n
        BY <1>2 DEF NumberArrives, OneElement
    <2> HIDE DEF e, xml
    <2>2. BuildMessage(k, e) = Put(k, IF k.type = "RESULT_INT" THEN 1 ELSE 0, Num(n))
        BY <2>1, BuildCases
    <2>3. Reads(k, <<e>>, BuildMessage(k, e))
        BY <2>1, ReadsElement
    <2>. QED BY <2>1, <2>2, <2>3 DEF xml
<1>3. ASSUME NEW s
      PROVE  Reads(k, Ts(s), Put(k, TsWord(k), IF k.type \in Refs THEN Str(s) ELSE Ref(TupleSpace(s))))
    <2> DEFINE e == Element("ts", s, 0, <<>>)
    <2>1. Ts(s) = <<e>> /\ e.tag = "ts" /\ e.s = s
        BY ElementParts DEF Ts
    <2> HIDE DEF e
    <2>2. BuildMessage(k, e) = Put(k, TsWord(k), IF k.type \in Refs THEN Str(s) ELSE Ref(TupleSpace(s)))
        BY <2>1, BuildCases
    <2>3. Reads(k, <<e>>, BuildMessage(k, e))
        BY <2>1, ReadsElement
    <2>. QED BY <2>1, <2>2, <2>3
<1>4. ASSUME NEW s PROVE Reads(k, Tid(s), Put(k, IF k.type \in Matches THEN 3 ELSE 0, Str(s)))
    <2> DEFINE e == Element("tid", s, 0, <<>>)
    <2>1. Tid(s) = <<e>> /\ e.tag = "tid" /\ e.s = s
        BY ElementParts DEF Tid
    <2> HIDE DEF e
    <2>2. BuildMessage(k, e) = Put(k, IF k.type \in Matches THEN 3 ELSE 0, Str(s))
        BY <2>1, BuildCases
    <2>3. Reads(k, <<e>>, BuildMessage(k, e))
        BY <2>1, ReadsElement
    <2>. QED BY <2>1, <2>2, <2>3
<1>5. ASSUME NEW v, NEW spec
      PROVE  Reads(k, InElement(v, spec),
                   Put(k, IF k.type \in {"REGISTER_TYPE", "UPDATE_TYPE"} THEN 2 ELSE 0,
                       Ref(ReadValue(InElement(v, spec)[1]))))
    <2> DEFINE e == Element("element", "", 0, WriteValue(v, UseTypes, spec))
    <2>1. InElement(v, spec) = <<e>> /\ e.tag = "element"
        <3>1. InElement(v, spec) = <<e>>
            BY DEF InElement
        <3>2. e.tag = "element"
            BY DEF Element
        <3>. QED BY <3>1, <3>2
    <2> HIDE DEF e
    <2>2. BuildMessage(k, e) = Put(k, IF k.type \in {"REGISTER_TYPE", "UPDATE_TYPE"} THEN 2 ELSE 0,
                                   Ref(ReadValue(e)))
        BY <2>1, BuildCases
    <2>3. Reads(k, <<e>>, BuildMessage(k, e))
        BY <2>1, ReadsElement
    <2>4. InElement(v, spec)[1] = e
        BY <2>1
    <2>. QED BY <2>1, <2>2, <2>3, <2>4
<1>. QED BY <1>1, <1>2, <1>3, <1>4, <1>5

\* The message's id, if it has one, and its action.
Header(type, msgid) ==
    (IF msgid = NoMsgid THEN <<>> ELSE <<[Element("msgid", "", 0, <<>>) EXCEPT !.kids = msgid]>>)
    \o <<Element("action", Action(type), 0, <<>>)>>
\* The elements that hold its words.
Content(m) == CASE m.type \in Plain -> <<>>
                [] m.type \in Operations -> OperationXML(m)
                [] m.type \in Services -> ServiceXML(m)
                [] OTHER -> NodeXML(m)

\* A message is written as its header and its words.
LEMMA EncodeParts == \A m : Encode(m) = Header(m.type, m.msgid) \o Content(m)
BY Zenon DEF Encode, Header, Content

\* The header makes a blank message one of its kind.
LEMMA ReadsHeader ==
    ASSUME NEW type \in Understood, NEW msgid
    PROVE  Reads(Blank, Header(type, msgid), Msg(type, msgid, Unset, Unset, Unset))
<1> DEFINE M(t, g) == Msg(t, g, Unset, Unset, Unset)
           f == [Element("msgid", "", 0, <<>>) EXCEPT !.kids = msgid]
           e == Element("action", Action(type), 0, <<>>)
           hd == IF msgid = NoMsgid THEN <<>> ELSE <<f>>
<1>1. Blank = M("DONE", NoMsgid)
    <2>1. [i \in 1..3 |-> IF i = 1 THEN Unset ELSE IF i = 2 THEN Unset ELSE Unset] = [i \in 1..3 |-> Unset]
        OBVIOUS
    <2>. QED BY <2>1 DEF Blank, Msg
<1>2. Reads(Blank, hd, M("DONE", msgid))
    <2>1. CASE msgid = NoMsgid
        BY <1>1, <2>1, ReadsNothing
    <2>2. CASE msgid # NoMsgid
        <3>1. f.tag = "msgid" /\ f.kids = msgid
            BY DEF Element
        <3> HIDE DEF f
        <3>2. BuildMessage(M("DONE", NoMsgid), f) = [M("DONE", NoMsgid) EXCEPT !.msgid = msgid]
            BY <3>1, BuildCases
        <3>3. BuildMessage(M("DONE", NoMsgid), f) = M("DONE", msgid)
            BY <3>2, MsgParts
        <3>4. Reads(M("DONE", NoMsgid), <<f>>, BuildMessage(M("DONE", NoMsgid), f))
            BY <3>1, ReadsElement
        <3>. QED BY <1>1, <2>2, <3>3, <3>4
    <2>. QED BY <2>1, <2>2
<1>3. Reads(M("DONE", msgid), <<e>>, M(type, msgid))
    <2>1. Action(type) = type /\ type \in Known
        BY DEF Understood, Known, Action
    <2>2. e.tag = "action" /\ e.s = type
        BY <2>1, ElementParts
    <2> HIDE DEF e
    <2>3. BuildMessage(M("DONE", msgid), e) = [M("DONE", msgid) EXCEPT !.type = type]
        BY <2>2, BuildCases
    <2>4. BuildMessage(M("DONE", msgid), e) = M(type, msgid)
        BY <2>3, MsgParts
    <2>. QED BY <2>1, <2>2, <2>4, ReadsElement
<1> HIDE DEF M, hd, e
<1>4. Reads(Blank, hd \o <<e>>, M(type, msgid))
    BY <1>2, <1>3, ReadsOn
<1>. QED BY <1>4 DEF Header, hd, e, M

-----------------------------------------------------------------------------
(* The kinds of message, one after the other.                              *)

\* The actions that have a way of their own to be written.
Single == {"RESULT_INT", "RESULT_TUPLE", "RESULT_TYPE", "OUT", "INSPECT",
           "REGISTER_TYPE", "UPDATE_TYPE", "REQUEST_TYPE"}

\* The kinds are apart.
LEMMA Apart ==
    ASSUME NEW t
    PROVE  /\ t \in Plain => t \notin Texts \cup Matches \cup Collects \cup Refs \cup Asks \cup Requests \cup Single
           /\ t \in Texts => t \notin Plain \cup Matches \cup Collects \cup Refs \cup Asks \cup Requests \cup Single
           /\ t \in Matches => t \notin Plain \cup Texts \cup Collects \cup Refs \cup Asks \cup Requests \cup Single
           /\ t \in Collects => t \notin Plain \cup Texts \cup Matches \cup Refs \cup Asks \cup Requests \cup Single
           /\ t \in Refs => t \notin Plain \cup Texts \cup Matches \cup Collects \cup Asks \cup Requests \cup Single
           /\ t \in Asks => t \notin Plain \cup Texts \cup Matches \cup Collects \cup Refs \cup Requests \cup Single
           /\ t \in Requests => t \notin Plain \cup Texts \cup Matches \cup Collects \cup Refs \cup Asks \cup Single
           /\ t \in Single => t \notin Plain \cup Texts \cup Matches \cup Collects \cup Refs \cup Asks \cup Requests
<1>1. t \in Plain => t \notin Texts \cup Matches \cup Collects \cup Refs \cup Asks \cup Requests \cup Single
    BY DEF Plain, Texts, Matches, Collects, Refs, Asks, Requests, Single
<1>2. t \in Texts => t \notin Plain \cup Matches \cup Collects \cup Refs \cup Asks \cup Requests \cup Single
    BY DEF Plain, Texts, Matches, Collects, Refs, Asks, Requests, Single
<1>3. t \in Matches => t \notin Plain \cup Texts \cup Collects \cup Refs \cup Asks \cup Requests \cup Single
    BY DEF Plain, Texts, Matches, Collects, Refs, Asks, Requests, Single
<1>4. t \in Collects => t \notin Plain \cup Texts \cup Matches \cup Refs \cup Asks \cup Requests \cup Single
    BY DEF Plain, Texts, Matches, Collects, Refs, Asks, Requests, Single
<1>5. t \in Refs => t \notin Plain \cup Texts \cup Matches \cup Collects \cup Asks \cup Requests \cup Single
    BY DEF Plain, Texts, Matches, Collects, Refs, Asks, Requests, Single
<1>6. t \in Asks => t \notin Plain \cup Texts \cup Matches \cup Collects \cup Refs \cup Requests \cup Single
    BY DEF Plain, Texts, Matches, Collects, Refs, Asks, Requests, Single
<1>7. t \in Requests => t \notin Plain \cup Texts \cup Matches \cup Collects \cup Refs \cup Asks \cup Single
    BY DEF Plain, Texts, Matches, Collects, Refs, Asks, Requests, Single
<1>8. t \in Single => t \notin Plain \cup Texts \cup Matches \cup Collects \cup Refs \cup Asks \cup Requests
    BY DEF Plain, Texts, Matches, Collects, Refs, Asks, Requests, Single
<1>. QED BY <1>1, <1>2, <1>3, <1>4, <1>5, <1>6, <1>7, <1>8

\* The actions by the number of words they have been built with.
One == Texts \cup Asks \cup {"INSPECT", "RESULT_INT", "RESULT_TUPLE"}
\* Two words.
Two == Refs \cup Requests \cup {"OUT", "UPDATE_TYPE"}
\* Three words.
Three == Matches \cup Collects

\* Every message the reader knows is of one of these kinds.
LEMMA Kinds ==
    ASSUME NEW type \in Understood
    PROVE  \/ type \in Plain \/ type \in Texts \/ type \in Asks \cup {"INSPECT"}
           \/ type = "RESULT_INT" \/ type = "RESULT_TUPLE"
           \/ type \in Refs \/ type \in {"OUT"} \cup Requests \/ type = "UPDATE_TYPE"
           \/ type \in Matches \/ type \in Collects
BY DEF Understood, Known, Types

\* Counting the words up to the i-th.
LEMMA Counting == \A n \in 1..3 : \A i \in 1..n : Cardinality((1..n) \cap (1..i)) = i
<1> SUFFICES ASSUME NEW n \in 1..3, NEW i \in 1..n PROVE Cardinality((1..n) \cap (1..i)) = i
    OBVIOUS
<1>1. (1..n) \cap (1..i) = 1..i
    OBVIOUS
<1>2. Cardinality(1..i) = i
    BY FS_Interval
<1>. QED BY <1>1, <1>2

\* What WordsOf says of each kind.
LEMMA WordsOfKinds ==
    ASSUME NEW type
    PROVE  /\ type \in Plain => WordsOf(type) = {}
           /\ type \in One => WordsOf(type) = 1..1
           /\ type \in Two => WordsOf(type) = 1..2
           /\ type \in Three => WordsOf(type) = 1..3
<1>1. ASSUME type \in Plain PROVE WordsOf(type) = {}
    <2>1. /\ type \notin {"RESULT_TYPE", "REGISTER_TYPE"} /\ type \notin Matches \cup Collects
          /\ type \notin Refs \cup Requests \cup {"OUT", "UPDATE_TYPE"}
        BY <1>1, Apart DEF Single
    <2>. QED BY <1>1, <2>1 DEF WordsOf
<1>2. ASSUME type \in One PROVE WordsOf(type) = 1..1
    <2>1. {1} = 1..1
        OBVIOUS
    <2>2. /\ type \notin Plain /\ type \notin {"RESULT_TYPE", "REGISTER_TYPE"}
          /\ type \notin Matches \cup Collects
          /\ type \notin Refs \cup Requests \cup {"OUT", "UPDATE_TYPE"}
        BY <1>2, Apart DEF One, Single
    <2>. QED BY <2>1, <2>2 DEF WordsOf
<1>3. ASSUME type \in Two PROVE WordsOf(type) = 1..2
    <2>1. /\ type \notin Plain /\ type \notin {"RESULT_TYPE", "REGISTER_TYPE"}
          /\ type \notin Matches \cup Collects
          /\ type \in Refs \cup Requests \cup {"OUT", "UPDATE_TYPE"}
        BY <1>3, Apart DEF Two, Single
    <2>. QED BY <2>1 DEF WordsOf
<1>4. ASSUME type \in Three PROVE WordsOf(type) = 1..3
    <2>1. /\ type \notin Plain /\ type \notin {"RESULT_TYPE", "REGISTER_TYPE"}
          /\ type \in Matches \cup Collects
          /\ type \notin Refs \cup Requests \cup {"OUT", "UPDATE_TYPE"}
        BY <1>4, Apart DEF Three, Single
    <2>. QED BY <2>1 DEF WordsOf
<1>. QED BY <1>1, <1>2, <1>3, <1>4

\* The words of a message as it is built.
LEMMA BuiltWords ==
    ASSUME NEW m
    PROVE  /\ m.type \in Plain => Built(m) = Msg(m.type, m.msgid, Unset, Unset, Unset)
           /\ m.type \in One => Built(m) = Msg(m.type, m.msgid, m.args[1], Unset, Unset)
           /\ m.type \in Two => Built(m) = Msg(m.type, m.msgid, m.args[1], m.args[2], Unset)
           /\ m.type \in Three => Built(m) = Msg(m.type, m.msgid, m.args[1], m.args[2], m.args[3])
<1> DEFINE type == m.type
           args == m.args
<1>1. ASSUME NEW a, NEW b, NEW c,
             \A i \in 1..3 : (IF i \in WordsOf(type) THEN args[Cardinality(WordsOf(type) \cap 1..i)]
                              ELSE Unset) = IF i = 1 THEN a ELSE IF i = 2 THEN b ELSE c
      PROVE  Built(m) = Msg(type, m.msgid, a, b, c)
    <2>1. Construct(type, args) = Msg(type, NoMsgid, a, b, c)
        BY <1>1 DEF Construct, Msg
    <2>2. Built(m) = [Msg(type, NoMsgid, a, b, c) EXCEPT !.msgid = m.msgid]
        BY <2>1 DEF Built
    <2>. QED BY <2>2, MsgParts
<1>2. ASSUME type \in Plain PROVE Built(m) = Msg(type, m.msgid, Unset, Unset, Unset)
    <2>1. WordsOf(type) = {}
        BY <1>2, WordsOfKinds
    <2>. QED BY <1>1, <2>1
<1>3. ASSUME type \in One PROVE Built(m) = Msg(type, m.msgid, args[1], Unset, Unset)
    <2>1. WordsOf(type) = 1..1 /\ Cardinality((1..1) \cap (1..1)) = 1
        BY <1>3, WordsOfKinds, Counting
    <2>. QED BY <1>1, <2>1
<1>4. ASSUME type \in Two PROVE Built(m) = Msg(type, m.msgid, args[1], args[2], Unset)
    <2>1. WordsOf(type) = 1..2 /\ Cardinality((1..2) \cap (1..1)) = 1
          /\ Cardinality((1..2) \cap (1..2)) = 2
        BY <1>4, WordsOfKinds, Counting
    <2>. QED BY <1>1, <2>1
<1>5. ASSUME type \in Three PROVE Built(m) = Msg(type, m.msgid, args[1], args[2], args[3])
    <2>1. WordsOf(type) = 1..3 /\ Cardinality((1..3) \cap (1..1)) = 1
          /\ Cardinality((1..3) \cap (1..2)) = 2 /\ Cardinality((1..3) \cap (1..3)) = 3
        BY <1>5, WordsOfKinds, Counting
    <2>. QED BY <1>1, <2>1
<1>. QED BY <1>2, <1>3, <1>4, <1>5

\* Which part of Message_getString writes a kind of message.
LEMMA Writers ==
    ASSUME NEW m
    PROVE  /\ m.type \in Plain => Content(m) = <<>>
           /\ m.type \in Operations => Content(m) = OperationXML(m)
           /\ m.type \in Services => Content(m) = ServiceXML(m)
           /\ m.type \in Asks \cup Requests
                  \cup {"MY_NAME_IS", "REGISTER_PARTITION", "DELETED_PARTITION",
                        "GET_CONNECTION_DETAILS"} => Content(m) = NodeXML(m)
<1>1. ASSUME m.type \in Plain PROVE Content(m) = <<>>
    <2>1. m.type \notin Operations /\ m.type \notin Services
        BY <1>1 DEF Plain, Operations, Services, Matches, Collects
    <2>. QED BY <1>1, <2>1 DEF Content
<1>2. ASSUME m.type \in Operations PROVE Content(m) = OperationXML(m)
    <2>1. m.type \notin Plain /\ m.type \notin Services
        BY <1>2 DEF Plain, Operations, Services, Matches, Collects
    <2>. QED BY <1>2, <2>1 DEF Content
<1>3. ASSUME m.type \in Services PROVE Content(m) = ServiceXML(m)
    <2>1. m.type \notin Plain /\ m.type \notin Operations
        BY <1>3 DEF Plain, Operations, Services, Matches, Collects
    <2>. QED BY <1>3, <2>1 DEF Content
<1>4. ASSUME m.type \in Asks \cup Requests
                 \cup {"MY_NAME_IS", "REGISTER_PARTITION", "DELETED_PARTITION",
                       "GET_CONNECTION_DETAILS"}
      PROVE  Content(m) = NodeXML(m)
    <2>1. m.type \notin Plain /\ m.type \notin Operations /\ m.type \notin Services
        BY <1>4 DEF Plain, Operations, Services, Matches, Collects, Asks, Requests
    <2>. QED BY <2>1 DEF Content
<1>. QED BY <1>1, <1>2, <1>3, <1>4

\* What is written of each kind.
LEMMA Contents ==
    ASSUME NEW m
    PROVE  LET w == m.word IN
           /\ (m.type \in Texts /\ (m.type \in {"REGISTER_THREAD", "MY_NAME_IS"} => w[1].s = ProcessId))
                  => Content(m) = Text(w[1].s)
           /\ m.type \in Asks \cup {"INSPECT"} => Content(m) = Ts(w[1].s)
           /\ m.type = "RESULT_INT" => Content(m) = WriteValue(IntValue(w[1].n), FALSE, FALSE)
           /\ m.type = "RESULT_TUPLE" => Content(m) = WriteValue(w[1].v, UseTypes, FALSE)
           /\ m.type \in Refs => Content(m) = Ts(w[1].s) \o Text(w[2].s)
           /\ m.type = "OUT" => Content(m) = Ts(NameOf(w[1].v)) \o WriteValue(w[2].v, UseTypes, FALSE)
           /\ m.type \in Requests =>
                  Content(m) = Ts(NameOf(w[1].v)) \o WriteValue(w[2].v, FALSE, FALSE)
           /\ m.type = "UPDATE_TYPE" =>
                  Content(m) = Text(w[1].s) \o InElement(w[2].v, TRUE) \o Text(ProcessId)
           /\ m.type \in Matches =>
                  Content(m) = Ts(NameOf(w[1].v)) \o WriteValue(w[2].v, UseTypes, FALSE) \o Tid(w[3].s)
           /\ m.type \in Collects =>
                  Content(m) = Ts(NameOf(w[1].v)) \o Ts(NameOf(w[2].v)) \o WriteValue(w[3].v, UseTypes, FALSE)
<1> DEFINE w == m.word
           t == m.type
<1>1. ASSUME t \in Texts, t \in {"REGISTER_THREAD", "MY_NAME_IS"} => w[1].s = ProcessId
      PROVE  Content(m) = Text(w[1].s)
    <2>1. CASE t = "RESULT_STRING"
        <3>1. t \in Operations /\ t \notin Matches /\ t \notin Collects
            BY <2>1 DEF Operations, Matches, Collects
        <3>. QED BY <2>1, <3>1, Writers DEF OperationXML
    <2>2. CASE t \in {"CREATE_TUPLESPACE", "REGISTER_THREAD"}
        <3>1. t \in Services
            BY <2>2 DEF Services
        <3>. QED BY <1>1, <2>2, <3>1, Writers DEF ServiceXML
    <2>3. CASE t \in {"MY_NAME_IS", "GET_CONNECTION_DETAILS"}
        <3>1. t \notin Asks /\ t \notin Requests
            BY <2>3 DEF Asks, Requests
        <3>. QED BY <1>1, <2>3, <3>1, Writers DEF NodeXML
    <2>. QED BY <1>1, <2>1, <2>2, <2>3 DEF Texts
<1>2. ASSUME t \in Asks \cup {"INSPECT"} PROVE Content(m) = Ts(w[1].s)
    <2>1. CASE t = "INSPECT"
        <3>1. t \in Services
            BY <2>1 DEF Services
        <3>. QED BY <2>1, <3>1, Writers DEF ServiceXML
    <2>2. CASE t \in Asks
        <3>1. t \notin Requests /\ t \notin {"MY_NAME_IS", "GET_CONNECTION_DETAILS",
                                             "REGISTER_PARTITION", "DELETED_PARTITION"}
            BY <2>2 DEF Asks, Requests
        <3>. QED BY <2>2, <3>1, Writers DEF NodeXML
    <2>. QED BY <1>2, <2>1, <2>2
<1>3. ASSUME t = "RESULT_INT" PROVE Content(m) = WriteValue(IntValue(w[1].n), FALSE, FALSE)
    <2>1. t \in Operations /\ t \notin Matches /\ t \notin Collects
        BY <1>3 DEF Operations, Matches, Collects
    <2>. QED BY <1>3, <2>1, Writers DEF OperationXML
<1>4. ASSUME t = "RESULT_TUPLE" PROVE Content(m) = WriteValue(w[1].v, UseTypes, FALSE)
    <2>1. t \in Operations /\ t \notin Matches /\ t \notin Collects
        BY <1>4 DEF Operations, Matches, Collects
    <2>. QED BY <1>4, <2>1, Writers DEF OperationXML
<1>5. ASSUME t \in Refs PROVE Content(m) = Ts(w[1].s) \o Text(w[2].s)
    <2>1. CASE t \in {"ADD_REFERENCE", "DELETE_REFERENCE"}
        <3>1. t \in Services
            BY <2>1 DEF Services
        <3>. QED BY <2>1, <3>1, Writers DEF ServiceXML
    <2>2. CASE t \in {"REGISTER_PARTITION", "DELETED_PARTITION"}
        <3>1. t \notin Asks /\ t \notin Requests
            BY <2>2 DEF Asks, Requests
        <3>. QED BY <2>2, <3>1, Writers DEF NodeXML
    <2>. QED BY <1>5, <2>1, <2>2 DEF Refs
<1>6. ASSUME t = "OUT"
      PROVE  Content(m) = Ts(NameOf(w[1].v)) \o WriteValue(w[2].v, UseTypes, FALSE)
    <2>1. t \in Operations /\ t \notin Matches /\ t \notin Collects
        BY <1>6 DEF Operations, Matches, Collects
    <2>. QED BY <1>6, <2>1, Writers DEF OperationXML
<1>7. ASSUME t \in Requests
      PROVE  Content(m) = Ts(NameOf(w[1].v)) \o WriteValue(w[2].v, FALSE, FALSE)
    <2>1. t \notin Asks /\ t \notin {"MY_NAME_IS", "GET_CONNECTION_DETAILS",
                                     "REGISTER_PARTITION", "DELETED_PARTITION"}
        BY <1>7 DEF Asks, Requests
    <2>. QED BY <1>7, <2>1, Writers DEF NodeXML
<1>8. ASSUME t = "UPDATE_TYPE"
      PROVE  Content(m) = Text(w[1].s) \o InElement(w[2].v, TRUE) \o Text(ProcessId)
    <2>1. t \in Services
        BY <1>8 DEF Services
    <2>. QED BY <1>8, <2>1, Writers DEF ServiceXML
<1>9. ASSUME t \in Matches
      PROVE  Content(m) = Ts(NameOf(w[1].v)) \o WriteValue(w[2].v, UseTypes, FALSE) \o Tid(w[3].s)
    <2>1. /\ t \in Operations /\ t \notin Collects
          /\ t \notin {"RESULT_STRING", "RESULT_INT", "RESULT_TUPLE", "OUT"}
        BY <1>9 DEF Operations, Matches, Collects
    <2>. QED BY <1>9, <2>1, Writers DEF OperationXML
<1>10. ASSUME t \in Collects
       PROVE  Content(m) = Ts(NameOf(w[1].v)) \o Ts(NameOf(w[2].v)) \o WriteValue(w[3].v, UseTypes, FALSE)
    <2>1. /\ t \in Operations /\ t \notin Matches
          /\ t \notin {"RESULT_STRING", "RESULT_INT", "RESULT_TUPLE", "OUT"}
        BY <1>10 DEF Operations, Matches, Collects
    <2>. QED BY <1>10, <2>1, Writers DEF OperationXML
<1>. QED BY <1>1, <1>2, <1>3, <1>4, <1>5, <1>6, <1>7, <1>8, <1>9, <1>10

\* The word each element of a kind of message goes to.
LEMMA WordFor ==
    ASSUME NEW m
    PROVE  /\ m.type \in Texts => StringWord(m) = 1
           /\ m.type \in Refs => StringWord(m) = 2
           /\ m.type = "UPDATE_TYPE" => StringWord(m) = IF m.word[1] = Unset THEN 1 ELSE 3
           /\ m.type \in {"OUT", "INSPECT"} \cup Matches \cup Refs \cup Asks \cup Requests => TsWord(m) = 1
           /\ m.type \in Collects => TsWord(m) = IF m.word[1] = Unset THEN 1 ELSE 2
           /\ m.type = "RESULT_TUPLE" => TupleWord(m) = 1
           /\ m.type \in {"OUT"} \cup Matches \cup Requests => TupleWord(m) = 2
           /\ m.type \in Collects => TupleWord(m) = 3
<1> DEFINE t == m.type
<1>1. ASSUME t \in Texts PROVE StringWord(m) = 1
    BY <1>1, Apart DEF StringWord, Single
<1>2. ASSUME t \in Refs PROVE StringWord(m) = 2
    BY <1>2, Apart DEF StringWord, Single
<1>3. ASSUME t = "UPDATE_TYPE" PROVE StringWord(m) = IF m.word[1] = Unset THEN 1 ELSE 3
    BY <1>3, Apart DEF StringWord, Single
<1>4. ASSUME t \in {"OUT", "INSPECT"} \cup Matches \cup Refs \cup Asks \cup Requests PROVE TsWord(m) = 1
    BY <1>4, Apart DEF TsWord, Single
<1>5. ASSUME t \in Collects PROVE TsWord(m) = IF m.word[1] = Unset THEN 1 ELSE 2
    <2>1. t \notin {"OUT", "INSPECT", "REGISTER_THREAD"} \cup Matches \cup Refs \cup Asks \cup Requests
        BY <1>5, Apart DEF Single, Texts
    <2>. QED BY <1>5, <2>1 DEF TsWord
<1>6. ASSUME t = "RESULT_TUPLE" PROVE TupleWord(m) = 1
    BY <1>6, Apart DEF TupleWord, Single
<1>7. ASSUME t \in {"OUT"} \cup Matches \cup Requests PROVE TupleWord(m) = 2
    BY <1>7, Apart DEF TupleWord, Single
<1>8. ASSUME t \in Collects PROVE TupleWord(m) = 3
    BY <1>8, Apart DEF TupleWord, Single
<1>. QED BY <1>1, <1>2, <1>3, <1>4, <1>5, <1>6, <1>7, <1>8

\* The words a handler is given.
LEMMA HandedWords ==
    ASSUME NEW m
    PROVE  LET w == m.word IN
           /\ Handed(m).msgid = m.msgid /\ Handed(m).type = m.type
           /\ m.type \in Plain => Handed(m).args = <<>>
           /\ m.type \in Texts \cup {"RESULT_INT", "RESULT_TUPLE"} => Handed(m).args = <<w[1]>>
           /\ m.type \in Asks \cup {"INSPECT"} => Handed(m).args = <<ByName(w[1])>>
           /\ m.type \in Refs => Handed(m).args = <<w[1], w[2]>>
           /\ m.type \in {"OUT"} \cup Requests => Handed(m).args = <<ByName(w[1]), w[2]>>
           /\ m.type = "UPDATE_TYPE" => Handed(m).args = <<w[1], w[2], w[3]>>
           /\ m.type \in Matches => Handed(m).args = <<ByName(w[1]), w[2], w[3]>>
           /\ m.type \in Collects => Handed(m).args = <<ByName(w[1]), ByName(w[2]), w[3]>>
<1> DEFINE t == m.type
           w == m.word
<1>1. Handed(m).msgid = m.msgid /\ Handed(m).type = m.type
    BY DEF Handed
<1>2. ASSUME t \in Plain PROVE Handed(m).args = <<>>
    <2>1. /\ t \notin {"OUT"} \cup Requests /\ t \notin Matches /\ t \notin Collects
          /\ t \notin Asks \cup {"INSPECT"} /\ t \notin Refs
          /\ t \notin {"RESULT_TYPE", "REGISTER_TYPE", "UPDATE_TYPE"}
        BY <1>2, Apart DEF Single
    <2>. QED BY <1>2, <2>1 DEF Handed
<1>3. ASSUME t \in Texts \cup {"RESULT_INT", "RESULT_TUPLE"} PROVE Handed(m).args = <<w[1]>>
    <2>1. /\ t \notin {"OUT"} \cup Requests /\ t \notin Matches /\ t \notin Collects
          /\ t \notin Asks \cup {"INSPECT"} /\ t \notin Refs /\ t \notin Plain
          /\ t \notin {"RESULT_TYPE", "REGISTER_TYPE", "UPDATE_TYPE"}
        BY <1>3, Apart DEF Single
    <2>. QED BY <2>1 DEF Handed
<1>4. ASSUME t \in Asks \cup {"INSPECT"} PROVE Handed(m).args = <<ByName(w[1])>>
    <2>1. /\ t \notin {"OUT"} \cup Requests /\ t \notin Matches /\ t \notin Collects
          /\ t \notin Refs /\ t \notin Plain
          /\ t \notin {"RESULT_TYPE", "REGISTER_TYPE", "UPDATE_TYPE"}
        BY <1>4, Apart DEF Single
    <2>. QED BY <1>4, <2>1 DEF Handed
<1>5. ASSUME t \in Refs PROVE Handed(m).args = <<w[1], w[2]>>
    <2>1. /\ t \notin {"OUT"} \cup Requests /\ t \notin Matches /\ t \notin Collects
          /\ t \notin Asks \cup {"INSPECT"} /\ t \notin Plain
          /\ t \notin {"RESULT_TYPE", "REGISTER_TYPE", "UPDATE_TYPE"}
        BY <1>5, Apart DEF Single
    <2>. QED BY <1>5, <2>1 DEF Handed
<1>6. ASSUME t \in {"OUT"} \cup Requests PROVE Handed(m).args = <<ByName(w[1]), w[2]>>
    <2>1. /\ t \notin Plain /\ t \notin Matches /\ t \notin Collects
          /\ t \notin Asks \cup {"INSPECT"} /\ t \notin Refs
          /\ t \notin {"RESULT_TYPE", "REGISTER_TYPE", "UPDATE_TYPE"}
        BY <1>6, Apart DEF Single
    <2>. QED BY <1>6, <2>1 DEF Handed
<1>7. ASSUME t = "UPDATE_TYPE" PROVE Handed(m).args = <<w[1], w[2], w[3]>>
    <2>1. /\ t \notin {"OUT"} \cup Requests /\ t \notin Matches /\ t \notin Collects
          /\ t \notin Asks \cup {"INSPECT"} /\ t \notin Refs /\ t \notin Plain
        BY <1>7, Apart DEF Single
    <2>. QED BY <1>7, <2>1 DEF Handed
<1>8. ASSUME t \in Matches PROVE Handed(m).args = <<ByName(w[1]), w[2], w[3]>>
    <2>1. /\ t \notin {"OUT"} \cup Requests /\ t \notin Plain /\ t \notin Collects
          /\ t \notin Asks \cup {"INSPECT"} /\ t \notin Refs
          /\ t \notin {"RESULT_TYPE", "REGISTER_TYPE", "UPDATE_TYPE"}
        BY <1>8, Apart DEF Single
    <2>. QED BY <1>8, <2>1 DEF Handed
<1>9. ASSUME t \in Collects PROVE Handed(m).args = <<ByName(w[1]), ByName(w[2]), w[3]>>
    <2>1. /\ t \notin {"OUT"} \cup Requests /\ t \notin Matches /\ t \notin Plain
          /\ t \notin Asks \cup {"INSPECT"} /\ t \notin Refs
          /\ t \notin {"RESULT_TYPE", "REGISTER_TYPE", "UPDATE_TYPE"}
        BY <1>9, Apart DEF Single
    <2>. QED BY <1>9, <2>1 DEF Handed
<1>. QED BY <1>1, <1>2, <1>3, <1>4, <1>5, <1>6, <1>7, <1>8, <1>9

\* What Message_free does with the words of each kind.
LEMMA FreesWords ==
    ASSUME NEW t
    PROVE  /\ t \in Plain \cup {"RESULT_INT"} => Frees(t) = <<"none", "none", "none">>
           /\ t \in Texts \cup Asks \cup {"INSPECT"} => Frees(t) = <<"str", "none", "none">>
           /\ t = "RESULT_TUPLE" => Frees(t) = <<"ref", "none", "none">>
           /\ t \in Refs => Frees(t) = <<"str", "str", "none">>
           /\ t \in {"OUT"} \cup Requests => Frees(t) = <<"ref", "ref", "none">>
           /\ t = "UPDATE_TYPE" => Frees(t) = <<"str", "ref", "str">>
           /\ t \in Matches => Frees(t) = <<"ref", "ref", "str">>
           /\ t \in Collects => Frees(t) = <<"ref", "ref", "ref">>
<1>1. ASSUME t \in Plain \cup {"RESULT_INT"} PROVE Frees(t) = <<"none", "none", "none">>
    <2>1. /\ t \notin Texts \cup Asks \cup {"INSPECT", "REQUEST_TYPE"} /\ t \notin Matches
          /\ t \notin Collects /\ t \notin Refs /\ t \notin {"OUT"} \cup Requests
          /\ t \notin {"RESULT_TUPLE", "RESULT_TYPE", "REGISTER_TYPE", "UPDATE_TYPE"}
        BY <1>1, Apart DEF Single
    <2>. QED BY <1>1, <2>1 DEF Frees
<1>2. ASSUME t \in Texts \cup Asks \cup {"INSPECT"} PROVE Frees(t) = <<"str", "none", "none">>
    <2>1. /\ t \notin Plain \cup {"RESULT_INT"} /\ t \notin Matches
          /\ t \notin Collects /\ t \notin Refs /\ t \notin {"OUT"} \cup Requests
          /\ t \notin {"RESULT_TUPLE", "RESULT_TYPE", "REGISTER_TYPE", "UPDATE_TYPE"}
        BY <1>2, Apart DEF Single
    <2>. QED BY <1>2, <2>1 DEF Frees
<1>3. ASSUME t = "RESULT_TUPLE" PROVE Frees(t) = <<"ref", "none", "none">>
    <2>1. /\ t \notin Plain \cup {"RESULT_INT"} /\ t \notin Matches
          /\ t \notin Texts \cup Asks \cup {"INSPECT", "REQUEST_TYPE"}
          /\ t \notin Collects /\ t \notin Refs /\ t \notin {"OUT"} \cup Requests
        BY <1>3, Apart DEF Single
    <2>. QED BY <1>3, <2>1 DEF Frees
<1>4. ASSUME t \in Refs PROVE Frees(t) = <<"str", "str", "none">>
    <2>1. /\ t \notin Plain \cup {"RESULT_INT"} /\ t \notin Matches
          /\ t \notin Texts \cup Asks \cup {"INSPECT", "REQUEST_TYPE"}
          /\ t \notin Collects /\ t \notin {"OUT"} \cup Requests
          /\ t \notin {"RESULT_TUPLE", "RESULT_TYPE", "REGISTER_TYPE", "UPDATE_TYPE"}
        BY <1>4, Apart DEF Single
    <2>. QED BY <1>4, <2>1 DEF Frees
<1>5. ASSUME t \in {"OUT"} \cup Requests PROVE Frees(t) = <<"ref", "ref", "none">>
    <2>1. /\ t \notin Plain \cup {"RESULT_INT"} /\ t \notin Matches
          /\ t \notin Texts \cup Asks \cup {"INSPECT", "REQUEST_TYPE"}
          /\ t \notin Collects /\ t \notin Refs
          /\ t \notin {"RESULT_TUPLE", "RESULT_TYPE", "REGISTER_TYPE", "UPDATE_TYPE"}
        BY <1>5, Apart DEF Single
    <2>. QED BY <1>5, <2>1 DEF Frees
<1>6. ASSUME t = "UPDATE_TYPE" PROVE Frees(t) = <<"str", "ref", "str">>
    <2>1. /\ t \notin Plain \cup {"RESULT_INT"} /\ t \notin Matches
          /\ t \notin Texts \cup Asks \cup {"INSPECT", "REQUEST_TYPE"}
          /\ t \notin Collects /\ t \notin Refs /\ t \notin {"OUT"} \cup Requests
        BY <1>6, Apart DEF Single
    <2>. QED BY <1>6, <2>1 DEF Frees
<1>7. ASSUME t \in Matches PROVE Frees(t) = <<"ref", "ref", "str">>
    <2>1. /\ t \notin Plain \cup {"RESULT_INT"} /\ t \notin Refs
          /\ t \notin Texts \cup Asks \cup {"INSPECT", "REQUEST_TYPE"}
          /\ t \notin Collects /\ t \notin {"OUT"} \cup Requests
          /\ t \notin {"RESULT_TUPLE", "RESULT_TYPE", "REGISTER_TYPE", "UPDATE_TYPE"}
        BY <1>7, Apart DEF Single
    <2>. QED BY <1>7, <2>1 DEF Frees
<1>8. ASSUME t \in Collects PROVE Frees(t) = <<"ref", "ref", "ref">>
    <2>1. /\ t \notin Plain \cup {"RESULT_INT"} /\ t \notin Refs /\ t \notin Matches
          /\ t \notin Texts \cup Asks \cup {"INSPECT", "REQUEST_TYPE"}
          /\ t \notin {"OUT"} \cup Requests
          /\ t \notin {"RESULT_TUPLE", "RESULT_TYPE", "REGISTER_TYPE", "UPDATE_TYPE"}
        BY <1>8, Apart DEF Single
    <2>. QED BY <1>8, <2>1 DEF Frees
<1>. QED BY <1>1, <1>2, <1>3, <1>4, <1>5, <1>6, <1>7, <1>8

\* The arguments of the constructors.
LEMMA ProperArgs ==
    ASSUME NEW m, Proper(m)
    PROVE  LET a == m.args
               t == m.type IN
           /\ t \in Texts \cup Asks \cup {"INSPECT"} => a[1] = Str(a[1].s) /\ 1 \in DOMAIN a
           /\ t = "RESULT_INT" => a[1] = Num(a[1].n) /\ 1 \in DOMAIN a
           /\ t = "RESULT_TUPLE" => a[1] = Ref(a[1].v)
           /\ t \in Refs => a[1] = Str(a[1].s) /\ a[2] = Str(a[2].s) /\ {1, 2} \subseteq DOMAIN a
           /\ t = "UPDATE_TYPE" => a[1] = Str(a[1].s) /\ a[2] = Ref(a[2].v) /\ 1 \in DOMAIN a
           /\ t \in {"OUT"} \cup Requests => a[1] = Ref(a[1].v) /\ a[2] = Ref(a[2].v)
           /\ t \in Matches => a[1] = Ref(a[1].v) /\ a[2] = Ref(a[2].v) /\ a[3] = Str(a[3].s)
           /\ t \in Collects => a[1] = Ref(a[1].v) /\ a[2] = Ref(a[2].v) /\ a[3] = Ref(a[3].v)
<1> DEFINE a == m.args
           t == m.type
           as == Arguments(t)
<1>1. DOMAIN a = DOMAIN as /\ \A i \in DOMAIN a : IsWord(a[i], as[i])
    BY DEF Proper
<1>2. \A w : /\ IsWord(w, "str") => w = Str(w.s)
             /\ IsWord(w, "ref") => w = Ref(w.v)
             /\ IsWord(w, "int") => w = Num(w.n)
    BY DEF IsWord
<1>3. ASSUME t \in Texts \cup Asks \cup {"INSPECT"} PROVE a[1] = Str(a[1].s) /\ 1 \in DOMAIN a
    <2>1. /\ t \notin Plain /\ t # "RESULT_INT" /\ t \notin {"RESULT_TUPLE", "RESULT_TYPE", "REGISTER_TYPE"}
          /\ t \notin Refs /\ t # "UPDATE_TYPE" /\ t \notin {"OUT"} \cup Requests
          /\ t \notin Matches /\ t \notin Collects
        BY <1>3, Apart DEF Single
    <2>2. as = <<"str">>
        BY <1>3, <2>1 DEF Arguments
    <2>3. DOMAIN as = {1} /\ as[1] = "str"
        BY <2>2
    <2>. QED BY <1>1, <1>2, <2>3
<1>4. ASSUME t = "RESULT_INT" PROVE a[1] = Num(a[1].n) /\ 1 \in DOMAIN a
    <2>1. /\ t \notin Plain /\ t \notin Texts \cup Asks \cup {"INSPECT", "REQUEST_TYPE"}
          /\ t \notin Refs /\ t # "UPDATE_TYPE" /\ t \notin {"OUT"} \cup Requests
          /\ t \notin Matches /\ t \notin Collects
        BY <1>4, Apart DEF Single
    <2>2. as = <<"int">>
        BY <1>4, <2>1 DEF Arguments
    <2>3. DOMAIN as = {1} /\ as[1] = "int"
        BY <2>2
    <2>. QED BY <1>1, <1>2, <2>3
<1>5. ASSUME t = "RESULT_TUPLE" PROVE a[1] = Ref(a[1].v)
    <2>1. /\ t \notin Plain /\ t \notin Texts \cup Asks \cup {"INSPECT", "REQUEST_TYPE"}
          /\ t \notin Refs /\ t # "UPDATE_TYPE" /\ t \notin {"OUT"} \cup Requests
          /\ t \notin Matches /\ t \notin Collects
        BY <1>5, Apart DEF Single
    <2>2. as = <<"ref">>
        BY <1>5, <2>1 DEF Arguments
    <2>3. DOMAIN as = {1} /\ as[1] = "ref"
        BY <2>2
    <2>. QED BY <1>1, <1>2, <2>3
<1>6. ASSUME t \in Refs PROVE a[1] = Str(a[1].s) /\ a[2] = Str(a[2].s) /\ {1, 2} \subseteq DOMAIN a
    <2>1. /\ t \notin Plain /\ t \notin Texts \cup Asks \cup {"INSPECT", "REQUEST_TYPE"}
          /\ t # "RESULT_INT" /\ t \notin {"RESULT_TUPLE", "RESULT_TYPE", "REGISTER_TYPE"}
          /\ t # "UPDATE_TYPE" /\ t \notin {"OUT"} \cup Requests
          /\ t \notin Matches /\ t \notin Collects
        BY <1>6, Apart DEF Single
    <2>2. as = <<"str", "str">>
        BY <1>6, <2>1 DEF Arguments
    <2>3. DOMAIN as = {1, 2} /\ as[1] = "str" /\ as[2] = "str"
        BY <2>2
    <2>. QED BY <1>1, <1>2, <2>3
<1>7. ASSUME t = "UPDATE_TYPE" PROVE a[1] = Str(a[1].s) /\ a[2] = Ref(a[2].v) /\ 1 \in DOMAIN a
    <2>1. /\ t \notin Plain /\ t \notin Texts \cup Asks \cup {"INSPECT", "REQUEST_TYPE"}
          /\ t \notin Refs /\ t \notin {"OUT"} \cup Requests
          /\ t \notin Matches /\ t \notin Collects
        BY <1>7, Apart DEF Single
    <2>2. as = <<"str", "ref">>
        BY <1>7, <2>1 DEF Arguments
    <2>3. DOMAIN as = {1, 2} /\ as[1] = "str" /\ as[2] = "ref"
        BY <2>2
    <2>. QED BY <1>1, <1>2, <2>3
<1>8. ASSUME t \in {"OUT"} \cup Requests PROVE a[1] = Ref(a[1].v) /\ a[2] = Ref(a[2].v)
    <2>1. /\ t \notin Plain /\ t \notin Texts \cup Asks \cup {"INSPECT", "REQUEST_TYPE"}
          /\ t # "RESULT_INT" /\ t \notin {"RESULT_TUPLE", "RESULT_TYPE", "REGISTER_TYPE"}
          /\ t # "UPDATE_TYPE" /\ t \notin Refs /\ t \notin Matches /\ t \notin Collects
        BY <1>8, Apart DEF Single
    <2>2. as = <<"ref", "ref">>
        BY <1>8, <2>1 DEF Arguments
    <2>3. DOMAIN as = {1, 2} /\ as[1] = "ref" /\ as[2] = "ref"
        BY <2>2
    <2>. QED BY <1>1, <1>2, <2>3
<1>9. ASSUME t \in Matches PROVE a[1] = Ref(a[1].v) /\ a[2] = Ref(a[2].v) /\ a[3] = Str(a[3].s)
    <2>1. /\ t \notin Plain /\ t \notin Texts \cup Asks \cup {"INSPECT", "REQUEST_TYPE"}
          /\ t # "RESULT_INT" /\ t \notin {"RESULT_TUPLE", "RESULT_TYPE", "REGISTER_TYPE"}
          /\ t # "UPDATE_TYPE" /\ t \notin Refs /\ t \notin {"OUT"} \cup Requests /\ t \notin Collects
        BY <1>9, Apart DEF Single
    <2>2. as = <<"ref", "ref", "str">>
        BY <1>9, <2>1 DEF Arguments
    <2>3. DOMAIN as = {1, 2, 3} /\ as[1] = "ref" /\ as[2] = "ref" /\ as[3] = "str"
        BY <2>2
    <2>. QED BY <1>1, <1>2, <2>3
<1>10. ASSUME t \in Collects PROVE a[1] = Ref(a[1].v) /\ a[2] = Ref(a[2].v) /\ a[3] = Ref(a[3].v)
    <2>1. /\ t \notin Plain /\ t \notin Texts \cup Asks \cup {"INSPECT", "REQUEST_TYPE"}
          /\ t # "RESULT_INT" /\ t \notin {"RESULT_TUPLE", "RESULT_TYPE", "REGISTER_TYPE"}
          /\ t # "UPDATE_TYPE" /\ t \notin Refs /\ t \notin {"OUT"} \cup Requests /\ t \notin Matches
        BY <1>10, Apart DEF Single
    <2>2. as = <<"ref", "ref", "ref">>
        BY <1>10, <2>1 DEF Arguments
    <2>3. DOMAIN as = {1, 2, 3} /\ as[1] = "ref" /\ as[2] = "ref" /\ as[3] = "ref"
        BY <2>2
    <2>. QED BY <1>1, <1>2, <2>3
<1>. QED BY <1>3, <1>4, <1>5, <1>6, <1>7, <1>8, <1>9, <1>10

\* The parts of a word, by name, and when two are the same.
LEMMA WordParts ==
    /\ \A s : Str(s).as = "str" /\ Str(s).s = s /\ Str(s) # Unset /\ ByName(Str(s)) = Str(s)
    /\ \A v : Ref(v).as = "ref" /\ Ref(v).v = v /\ Ref(v) # Unset /\ ByName(Ref(v)) = Str(NameOf(v))
    /\ \A n : Num(n).as = "int" /\ Num(n).n = n
    /\ Unset.as = "none"
    /\ \A s : NameOf(TupleSpace(s)) = s
    /\ \A s : Same(Str(s), Str(s))
    /\ \A n : Same(Num(n), Num(n))
    /\ \A v, u : LookAlike(v, u) => Same(Ref(v), Ref(u))
<1>1. \A s : Str(s).as = "str" /\ Str(s).s = s /\ Str(s) # Unset /\ ByName(Str(s)) = Str(s)
    BY DEF Str, Unset, ByName
<1>2. \A v : Ref(v).as = "ref" /\ Ref(v).v = v /\ Ref(v) # Unset /\ ByName(Ref(v)) = Str(NameOf(v))
    BY DEF Ref, Unset, ByName
<1>3. \A n : Num(n).as = "int" /\ Num(n).n = n
    BY DEF Num
<1>4. Unset.as = "none"
    BY DEF Unset
<1>5. \A s : NameOf(TupleSpace(s)) = s
    BY DEF NameOf, TupleSpace, Cell
<1>6. \A s : Same(Str(s), Str(s))
    BY DEF Same, Str
<1>7. \A n : Same(Num(n), Num(n))
    BY DEF Same, Num
<1>8. \A v, u : LookAlike(v, u) => Same(Ref(v), Ref(u))
    BY DEF Same, Ref
<1>. QED BY <1>1, <1>2, <1>3, <1>4, <1>5, <1>6, <1>7, <1>8

\* Messages that are handed over with the same arguments.
LEMMA SameArgs ==
    ASSUME NEW x, NEW y, x.msgid = y.msgid, x.type = y.type
    PROVE  /\ (x.args = <<>> /\ y.args = <<>>) => SameMessage(x, y)
           /\ \A a, p : (x.args = <<a>> /\ y.args = <<p>> /\ Same(a, p)) => SameMessage(x, y)
           /\ \A a, b, p, q : (x.args = <<a, b>> /\ y.args = <<p, q>> /\ Same(a, p) /\ Same(b, q))
                                  => SameMessage(x, y)
           /\ \A a, b, c, p, q, r :
                  (x.args = <<a, b, c>> /\ y.args = <<p, q, r>> /\ Same(a, p) /\ Same(b, q) /\ Same(c, r))
                      => SameMessage(x, y)
<1>1. ASSUME x.args = <<>>, y.args = <<>> PROVE SameMessage(x, y)
    BY <1>1 DEF SameMessage
<1>2. ASSUME NEW a, NEW p, x.args = <<a>>, y.args = <<p>>, Same(a, p) PROVE SameMessage(x, y)
    BY <1>2 DEF SameMessage
<1>3. ASSUME NEW a, NEW b, NEW p, NEW q, x.args = <<a, b>>, y.args = <<p, q>>, Same(a, p), Same(b, q)
      PROVE  SameMessage(x, y)
    BY <1>3 DEF SameMessage
<1>4. ASSUME NEW a, NEW b, NEW c, NEW p, NEW q, NEW r, x.args = <<a, b, c>>, y.args = <<p, q, r>>,
             Same(a, p), Same(b, q), Same(c, r)
      PROVE  SameMessage(x, y)
    BY <1>4 DEF SameMessage
<1>. QED BY <1>1, <1>2, <1>3, <1>4

\* A message is read to the end, and the words that are left are given back.
RoundTrip(m) ==
    \E k : /\ Reads(Blank, Encode(Built(m)), k)
           /\ SameMessage(Meant(m), Handed(k))
           /\ k.type \in KeptAsValue \/ Freed(k)
           /\ Freed(Built(m))

\* After the header come the words.
LEMMA ReadsMessage ==
    ASSUME NEW m, m.type \in Understood, NEW a, NEW b, NEW c,
           Built(m) = Msg(m.type, m.msgid, a, b, c), NEW k,
           Reads(Msg(m.type, m.msgid, Unset, Unset, Unset), Content(Built(m)), k)
    PROVE  Reads(Blank, Encode(Built(m)), k)
<1>1. Built(m).type = m.type /\ Built(m).msgid = m.msgid
    BY MsgParts
<1>2. Encode(Built(m)) = Header(m.type, m.msgid) \o Content(Built(m))
    BY <1>1, EncodeParts
<1>3. Reads(Blank, Header(m.type, m.msgid), Msg(m.type, m.msgid, Unset, Unset, Unset))
    BY ReadsHeader
<1>. QED BY <1>2, <1>3, ReadsOn

\* How a word may be given back.
Fits(w, as) == w.as = as \/ (w.as = "none" /\ as = "str") \/ (w.as = "int" /\ as = "none")

\* A message is freed when its three words are.
LEMMA FreedWords ==
    ASSUME NEW type, NEW msgid, NEW a, NEW b, NEW c, NEW x, NEW y, NEW z,
           Frees(type) = <<x, y, z>>, Fits(a, x), Fits(b, y), Fits(c, z)
    PROVE  Freed(Msg(type, msgid, a, b, c))
<1> DEFINE m == Msg(type, msgid, a, b, c)
<1>1. m.type = type /\ m.word[1] = a /\ m.word[2] = b /\ m.word[3] = c
    BY MsgParts
<1> HIDE DEF m
<1>2. Frees(m.type)[1] = x /\ Frees(m.type)[2] = y /\ Frees(m.type)[3] = z
    BY <1>1
<1>3. \A i \in 1..3 : Fits(m.word[i], Frees(m.type)[i])
    BY <1>1, <1>2
<1>. QED BY <1>3 DEF Freed, Fits, m

\* What is meant is what was built, except for the process id.
LEMMA MeantIs == \A m : m.type # "UPDATE_TYPE" => Meant(m) = Handed(Built(m))
BY DEF Meant

\* No words.
LEMMA PlainTrip ==
    ASSUME NEW m, Proper(m), WordsArrive(m), m.type \in Understood, m.type \in Plain
    PROVE  RoundTrip(m)
<1> DEFINE k == Msg(m.type, m.msgid, Unset, Unset, Unset)
<1>1. Built(m) = k /\ k.type = m.type /\ k.msgid = m.msgid
    BY BuiltWords, MsgParts
<1>2. Content(k) = <<>>
    BY <1>1, Writers
<1>3. Reads(k, <<>>, k)
    BY ReadsNothing
<1>4. Reads(Blank, Encode(Built(m)), k)
    BY <1>1, <1>2, <1>3, ReadsMessage
<1>5. m.type # "UPDATE_TYPE"
    BY Apart DEF Single
<1> HIDE DEF k
<1>6. SameMessage(Meant(m), Handed(k))
    BY <1>1, <1>5, MeantIs, HandedWords, SameArgs
<1>7. Freed(k)
    BY FreesWords, FreedWords, WordParts DEF k, Fits
<1>. QED BY <1>1, <1>4, <1>6, <1>7 DEF RoundTrip

\* A string.
LEMMA TextTrip ==
    ASSUME NEW m, Proper(m), WordsArrive(m), m.type \in Understood, m.type \in Texts
    PROVE  RoundTrip(m)
<1> DEFINE s == m.args[1].s
           blank == Msg(m.type, m.msgid, Unset, Unset, Unset)
           k == Msg(m.type, m.msgid, Str(s), Unset, Unset)
<1>1. m.args[1] = Str(s) /\ TextArrives(s)
    <2>1. m.args[1] = Str(s) /\ 1 \in DOMAIN m.args
        BY ProperArgs
    <2>2. m.args[1].as = "str"
        BY <2>1, WordParts
    <2>3. \A i \in DOMAIN m.args : m.args[i].as = "str" => TextArrives(m.args[i].s)
        BY DEF WordsArrive
    <2>. QED BY <2>1, <2>2, <2>3
<1>2. Built(m) = k
    BY <1>1, BuiltWords DEF One
<1>3. k.type = m.type /\ k.msgid = m.msgid /\ k.word[1] = Str(s) /\ blank.type = m.type
    BY MsgParts
<1>4. Content(k) = Text(s)
    <2>1. k.word[1].s = s
        BY <1>3, WordParts
    <2>2. k.type \in {"REGISTER_THREAD", "MY_NAME_IS"} => k.word[1].s = ProcessId
        BY <1>3, <2>1 DEF Proper
    <2> HIDE DEF k, s
    <2>. QED BY <1>3, <2>1, <2>2, Contents
<1>5. Reads(blank, Text(s), k)
    <2>1. Put(blank, StringWord(blank), Str(s)) = k
        BY <1>3, WordFor, MsgParts
    <2>. QED BY <1>1, <2>1, ReadsWords
<1>6. Reads(Blank, Encode(Built(m)), k)
    BY <1>2, <1>4, <1>5, ReadsMessage
<1>7. m.type # "UPDATE_TYPE"
    BY Apart DEF Single
<1> HIDE DEF k, s
<1>8. SameMessage(Meant(m), Handed(k))
    <2>1. Handed(k).args = <<Str(s)>>
        BY <1>3, HandedWords
    <2>. QED BY <1>2, <1>7, <2>1, MeantIs, SameArgs, WordParts
<1>9. Freed(k)
    BY FreesWords, FreedWords, WordParts DEF k, Fits
<1>. QED BY <1>2, <1>6, <1>8, <1>9 DEF RoundTrip

\* A tuplespace whose name is read into a value.
LEMMA AskTrip ==
    ASSUME NEW m, Proper(m), WordsArrive(m), m.type \in Understood, m.type \in Asks \cup {"INSPECT"}
    PROVE  RoundTrip(m)
<1> DEFINE s == m.args[1].s
           blank == Msg(m.type, m.msgid, Unset, Unset, Unset)
           b == Msg(m.type, m.msgid, Str(s), Unset, Unset)
           k == Msg(m.type, m.msgid, Ref(TupleSpace(s)), Unset, Unset)
<1>1. m.args[1] = Str(s)
    BY ProperArgs
<1>2. Built(m) = b
    BY <1>1, BuiltWords DEF One
<1>3. /\ k.type = m.type /\ k.msgid = m.msgid /\ k.word[1] = Ref(TupleSpace(s))
      /\ b.type = m.type /\ b.msgid = m.msgid /\ b.word[1] = Str(s) /\ blank.type = m.type
    BY MsgParts
<1>4. Content(b) = Ts(s)
    <2>1. b.word[1].s = s
        BY <1>3, WordParts
    <2> HIDE DEF b, s
    <2>. QED BY <1>3, <2>1, Contents
<1>5. Reads(blank, Ts(s), k)
    <2>1. m.type \notin Refs
        BY Apart DEF Single
    <2>2. TsWord(blank) = 1
        BY <1>3, WordFor
    <2>3. Put(blank, TsWord(blank), Ref(TupleSpace(s))) = k
        BY <2>2, MsgParts
    <2>. QED BY <1>3, <2>1, <2>3, ReadsWords
<1>6. Reads(Blank, Encode(Built(m)), k)
    BY <1>2, <1>4, <1>5, ReadsMessage
<1>7. m.type # "UPDATE_TYPE"
    BY Apart DEF Single
<1> HIDE DEF k, b, s
<1>8. SameMessage(Meant(m), Handed(k))
    <2>1. Handed(k).args = <<Str(s)>> /\ Handed(b).args = <<Str(s)>>
        BY <1>3, HandedWords, WordParts
    <2>2. Handed(k).msgid = Handed(b).msgid /\ Handed(k).type = Handed(b).type
        BY <1>3, HandedWords
    <2>. QED BY <1>2, <1>7, <2>1, <2>2, MeantIs, SameArgs, WordParts
<1>9. k.type \in KeptAsValue
    BY <1>3 DEF KeptAsValue
<1>10. Freed(b)
    BY FreesWords, FreedWords, WordParts DEF b, Fits
<1>. QED BY <1>2, <1>6, <1>8, <1>9, <1>10 DEF RoundTrip

\* A number.
LEMMA NumberTrip ==
    ASSUME NEW m, Proper(m), WordsArrive(m), m.type \in Understood, m.type = "RESULT_INT"
    PROVE  RoundTrip(m)
<1> DEFINE n == m.args[1].n
           blank == Msg(m.type, m.msgid, Unset, Unset, Unset)
           k == Msg(m.type, m.msgid, Num(n), Unset, Unset)
<1>1. m.args[1] = Num(n) /\ NumberArrives(n)
    BY ProperArgs, WordParts DEF WordsArrive
<1>2. Built(m) = k
    BY <1>1, BuiltWords DEF One
<1>3. k.type = m.type /\ k.msgid = m.msgid /\ k.word[1] = Num(n) /\ blank.type = m.type
    BY MsgParts
<1>4. Content(k) = WriteValue(IntValue(n), FALSE, FALSE)
    <2>1. k.word[1].n = n
        BY <1>3, WordParts
    <2> HIDE DEF k, n
    <2>. QED BY <1>3, <2>1, Contents
<1>5. Reads(blank, WriteValue(IntValue(n), FALSE, FALSE), k)
    <2>1. Put(blank, 1, Num(n)) = k
        BY MsgParts
    <2>. QED BY <1>1, <1>3, <2>1, ReadsWords
<1>6. Reads(Blank, Encode(Built(m)), k)
    BY <1>2, <1>4, <1>5, ReadsMessage
<1> HIDE DEF k, n
<1>7. SameMessage(Meant(m), Handed(k))
    <2>1. Handed(k).args = <<Num(n)>>
        BY <1>3, HandedWords
    <2>. QED BY <1>2, <2>1, MeantIs, SameArgs, WordParts
<1>8. Freed(k)
    BY FreesWords, FreedWords, WordParts DEF k, Fits
<1>. QED BY <1>2, <1>6, <1>7, <1>8 DEF RoundTrip

\* A tuple.
LEMMA TupleTrip ==
    ASSUME NEW m, Proper(m), WordsArrive(m), m.type \in Understood, m.type = "RESULT_TUPLE"
    PROVE  RoundTrip(m)
<1> DEFINE v == m.args[1].v
           blank == Msg(m.type, m.msgid, Unset, Unset, Unset)
           b == Msg(m.type, m.msgid, Ref(v), Unset, Unset)
<1>1. m.args[1] = Ref(v)
    BY ProperArgs
<1>2. TupleArrives(v, UseTypes)
    <2>1. TupleWord(m) = 1 /\ m.type \notin Requests
        BY WordFor, Apart DEF Single
    <2>. QED BY <2>1 DEF WordsArrive
<1>3. Built(m) = b
    BY <1>1, BuiltWords DEF One
<1>4. /\ b.type = m.type /\ b.msgid = m.msgid /\ b.word[1] = Ref(v) /\ blank.type = m.type
    BY MsgParts
<1>5. Content(b) = WriteValue(v, UseTypes, FALSE)
    <2>1. b.word[1].v = v
        BY <1>4, WordParts
    <2> HIDE DEF b, v
    <2>. QED BY <1>4, <2>1, Contents
<1>6. PICK u : LookAlike(v, u) /\ Reads(blank, WriteValue(v, UseTypes, FALSE), Put(blank, TupleWord(blank), Ref(u)))
    <2>1. m.type \in Holders
        BY DEF Holders
    <2> HIDE DEF v
    <2>. QED BY <1>2, <2>1, ReadsTuple
<1> DEFINE k == Msg(m.type, m.msgid, Ref(u), Unset, Unset)
<1>7. Put(blank, TupleWord(blank), Ref(u)) = k
    BY <1>4, WordFor, MsgParts
<1>8. Reads(Blank, Encode(Built(m)), k)
    BY <1>3, <1>5, <1>6, <1>7, ReadsMessage
<1>9. k.type = m.type /\ k.msgid = m.msgid /\ k.word[1] = Ref(u)
    BY MsgParts
<1> HIDE DEF k, b, v
<1>10. SameMessage(Meant(m), Handed(k))
    <2>1. Handed(k).args = <<Ref(u)>> /\ Handed(b).args = <<Ref(v)>>
        BY <1>4, <1>9, HandedWords
    <2>2. Handed(k).msgid = Handed(b).msgid /\ Handed(k).type = Handed(b).type
        BY <1>4, <1>9, HandedWords
    <2>. QED BY <1>3, <1>6, <2>1, <2>2, MeantIs, SameArgs, WordParts
<1>11. Freed(k) /\ Freed(b)
    BY FreesWords, FreedWords, WordParts DEF k, b, Fits
<1>. QED BY <1>3, <1>8, <1>10, <1>11 DEF RoundTrip

\* A tuplespace by its name, and a string.
LEMMA RefTrip ==
    ASSUME NEW m, Proper(m), WordsArrive(m), m.type \in Understood, m.type \in Refs
    PROVE  RoundTrip(m)
<1> DEFINE s == m.args[1].s
           r == m.args[2].s
           blank == Msg(m.type, m.msgid, Unset, Unset, Unset)
           j == Msg(m.type, m.msgid, Str(s), Unset, Unset)
           k == Msg(m.type, m.msgid, Str(s), Str(r), Unset)
<1>1. m.args[1] = Str(s) /\ m.args[2] = Str(r) /\ TextArrives(r)
    <2>1. m.args[1] = Str(s) /\ m.args[2] = Str(r) /\ 2 \in DOMAIN m.args
        BY ProperArgs
    <2>2. m.args[2].as = "str"
        BY <2>1, WordParts
    <2>. QED BY <2>1, <2>2 DEF WordsArrive
<1>2. Built(m) = k
    BY <1>1, BuiltWords DEF Two
<1>3. /\ k.type = m.type /\ k.msgid = m.msgid /\ k.word[1] = Str(s) /\ k.word[2] = Str(r)
      /\ blank.type = m.type /\ j.type = m.type
    BY MsgParts
<1>4. Content(k) = Ts(s) \o Text(r)
    <2>1. k.word[1].s = s /\ k.word[2].s = r
        BY <1>3, WordParts
    <2> HIDE DEF k, s, r
    <2>. QED BY <1>3, <2>1, Contents
<1>5. Reads(blank, Ts(s), j)
    <2>1. TsWord(blank) = 1
        BY <1>3, WordFor
    <2>2. Put(blank, TsWord(blank), Str(s)) = j
        BY <2>1, MsgParts
    <2>. QED BY <1>3, <2>2, ReadsWords
<1>6. Reads(j, Text(r), k)
    <2>1. StringWord(j) = 2
        BY <1>3, WordFor
    <2>2. Put(j, StringWord(j), Str(r)) = k
        BY <2>1, MsgParts
    <2>. QED BY <1>1, <2>2, ReadsWords
<1>7. Reads(Blank, Encode(Built(m)), k)
    <2>1. Reads(blank, Ts(s) \o Text(r), k)
        BY <1>5, <1>6, ReadsOn
    <2>. QED BY <1>2, <1>4, <2>1, ReadsMessage
<1>8. m.type # "UPDATE_TYPE"
    BY Apart DEF Single
<1> HIDE DEF k, s, r
<1>9. SameMessage(Meant(m), Handed(k))
    <2>1. Handed(k).args = <<Str(s), Str(r)>>
        BY <1>3, HandedWords
    <2>. QED BY <1>2, <1>8, <2>1, MeantIs, SameArgs, WordParts
<1>10. Freed(k)
    BY FreesWords, FreedWords, WordParts DEF k, Fits
<1>. QED BY <1>2, <1>7, <1>9, <1>10 DEF RoundTrip

\* A tuplespace and a tuple, whose types a request between servers leaves out.
LEMMA OutTrip ==
    ASSUME NEW m, Proper(m), WordsArrive(m), m.type \in Understood, m.type \in {"OUT"} \cup Requests
    PROVE  RoundTrip(m)
<1> DEFINE x == m.args[1].v
           v == m.args[2].v
           types == IF m.type \in Requests THEN FALSE ELSE UseTypes
           xml == WriteValue(v, types, FALSE)
           name == Ref(TupleSpace(NameOf(x)))
           blank == Msg(m.type, m.msgid, Unset, Unset, Unset)
           j == Msg(m.type, m.msgid, name, Unset, Unset)
           b == Msg(m.type, m.msgid, Ref(x), Ref(v), Unset)
<1>1. m.args[1] = Ref(x) /\ m.args[2] = Ref(v)
    BY ProperArgs
<1>2. TupleArrives(v, types)
    <2>1. TupleWord(m) = 2
        BY WordFor
    <2>2. TupleArrives(m.args[TupleWord(m)].v, types)
        <3>1. TupleWord(m) # 0
            BY <2>1
        <3>. QED BY <3>1, Zenon DEF WordsArrive
    <2>. QED BY <2>1, <2>2
<1>3. Built(m) = b
    BY <1>1, BuiltWords DEF Two
<1>4. /\ b.type = m.type /\ b.msgid = m.msgid /\ b.word[1] = Ref(x) /\ b.word[2] = Ref(v)
      /\ blank.type = m.type /\ j.type = m.type
    BY MsgParts
<1>5. m.type \notin Refs /\ m.type # "UPDATE_TYPE" /\ ("OUT" \notin Requests)
    BY Apart DEF Single
<1>6. Content(b) = Ts(NameOf(x)) \o xml
    <2>1. b.word[1].v = x /\ b.word[2].v = v
        BY <1>4, WordParts
    <2> HIDE DEF b, v, x
    <2>2. CASE m.type = "OUT"
        BY <1>4, <1>5, <2>1, <2>2, Contents
    <2>3. CASE m.type \in Requests
        BY <1>4, <2>1, <2>3, Contents
    <2>. QED BY <2>2, <2>3
<1> HIDE DEF types
<1>7. PICK u : LookAlike(v, u) /\ Reads(j, xml, Put(j, TupleWord(j), Ref(u)))
    <2>1. m.type \in Holders
        BY DEF Holders
    <2> HIDE DEF v, name
    <2>. QED BY <1>2, <2>1, ReadsTuple
<1> DEFINE k == Msg(m.type, m.msgid, name, Ref(u), Unset)
<1>8. Reads(blank, Ts(NameOf(x)), j)
    <2>1. TsWord(blank) = 1
        BY <1>4, WordFor
    <2>2. Put(blank, TsWord(blank), name) = j
        BY <2>1, MsgParts
    <2>. QED BY <1>4, <1>5, <2>2, ReadsWords
<1>9. Put(j, TupleWord(j), Ref(u)) = k
    <2>1. TupleWord(j) = 2
        BY <1>4, WordFor
    <2>. QED BY <2>1, MsgParts
<1>10. Reads(Blank, Encode(Built(m)), k)
    <2>1. Reads(blank, Ts(NameOf(x)) \o xml, k)
        BY <1>7, <1>8, <1>9, ReadsOn
    <2>. QED BY <1>3, <1>6, <2>1, ReadsMessage
<1>11. k.type = m.type /\ k.msgid = m.msgid /\ k.word[1] = name /\ k.word[2] = Ref(u)
    BY MsgParts
<1>12. ByName(name) = Str(NameOf(x)) /\ ByName(Ref(x)) = Str(NameOf(x))
    BY WordParts
<1> HIDE DEF k, b, v, x
<1>13. SameMessage(Meant(m), Handed(k))
    <2>1. /\ Handed(k).args = <<Str(NameOf(x)), Ref(u)>>
          /\ Handed(b).args = <<Str(NameOf(x)), Ref(v)>>
        BY <1>4, <1>11, <1>12, HandedWords
    <2>2. Handed(k).msgid = Handed(b).msgid /\ Handed(k).type = Handed(b).type
        BY <1>4, <1>11, HandedWords
    <2>. QED BY <1>3, <1>5, <1>7, <2>1, <2>2, MeantIs, SameArgs, WordParts
<1>14. Freed(k) /\ Freed(b)
    BY FreesWords, FreedWords, WordParts DEF k, b, Fits
<1>. QED BY <1>3, <1>10, <1>13, <1>14 DEF RoundTrip

\* A tuplespace, a template and the thread that looks for a match.
LEMMA MatchTrip ==
    ASSUME NEW m, Proper(m), WordsArrive(m), m.type \in Understood, m.type \in Matches
    PROVE  RoundTrip(m)
<1> DEFINE x == m.args[1].v
           v == m.args[2].v
           s == m.args[3].s
           xml == WriteValue(v, UseTypes, FALSE)
           name == Ref(TupleSpace(NameOf(x)))
           blank == Msg(m.type, m.msgid, Unset, Unset, Unset)
           i == Msg(m.type, m.msgid, name, Unset, Unset)
           b == Msg(m.type, m.msgid, Ref(x), Ref(v), Str(s))
<1>1. m.args[1] = Ref(x) /\ m.args[2] = Ref(v) /\ m.args[3] = Str(s)
    BY ProperArgs
<1>2. m.type \notin Refs /\ m.type # "UPDATE_TYPE" /\ m.type \notin Requests
    BY Apart DEF Single
<1>3. TupleArrives(v, UseTypes)
    <2>1. TupleWord(m) = 2
        BY WordFor
    <2>. QED BY <1>2, <2>1 DEF WordsArrive
<1>4. Built(m) = b
    BY <1>1, BuiltWords DEF Three
<1>5. /\ b.type = m.type /\ b.msgid = m.msgid
      /\ b.word[1] = Ref(x) /\ b.word[2] = Ref(v) /\ b.word[3] = Str(s)
      /\ blank.type = m.type /\ i.type = m.type
    BY MsgParts
<1>6. Content(b) = Ts(NameOf(x)) \o xml \o Tid(s)
    <2>1. b.word[1].v = x /\ b.word[2].v = v /\ b.word[3].s = s
        BY <1>5, WordParts
    <2> HIDE DEF b, v, x, s
    <2>. QED BY <1>5, <2>1, Contents
<1>7. PICK u : LookAlike(v, u) /\ Reads(i, xml, Put(i, TupleWord(i), Ref(u)))
    <2>1. m.type \in Holders
        BY DEF Holders
    <2> HIDE DEF v, name
    <2>. QED BY <1>3, <2>1, ReadsTuple
<1> DEFINE j == Msg(m.type, m.msgid, name, Ref(u), Unset)
           k == Msg(m.type, m.msgid, name, Ref(u), Str(s))
<1>8. Reads(blank, Ts(NameOf(x)), i)
    <2>1. TsWord(blank) = 1
        BY <1>5, WordFor
    <2>2. Put(blank, TsWord(blank), name) = i
        BY <2>1, MsgParts
    <2>. QED BY <1>2, <1>5, <2>2, ReadsWords
<1>9. Put(i, TupleWord(i), Ref(u)) = j
    <2>1. TupleWord(i) = 2
        BY <1>5, WordFor
    <2>. QED BY <2>1, MsgParts
<1>10. Reads(j, Tid(s), k)
    <2>1. j.type = m.type /\ Put(j, 3, Str(s)) = k
        BY MsgParts
    <2>. QED BY <2>1, ReadsWords
<1>11. Reads(Blank, Encode(Built(m)), k)
    <2>1. Reads(blank, Ts(NameOf(x)) \o xml, j)
        BY <1>7, <1>8, <1>9, ReadsOn
    <2>2. Reads(blank, Ts(NameOf(x)) \o xml \o Tid(s), k)
        <3> DEFINE front == Ts(NameOf(x)) \o xml
        <3> HIDE DEF front, blank, j, k
        <3>1. Reads(blank, front \o Tid(s), k)
            BY <1>10, <2>1, ReadsOn DEF front
        <3>. QED BY <3>1 DEF front
    <2>. QED BY <1>4, <1>6, <2>2, ReadsMessage
<1>12. /\ k.type = m.type /\ k.msgid = m.msgid
       /\ k.word[1] = name /\ k.word[2] = Ref(u) /\ k.word[3] = Str(s)
    BY MsgParts
<1>13. ByName(name) = Str(NameOf(x)) /\ ByName(Ref(x)) = Str(NameOf(x))
    BY WordParts
<1> HIDE DEF k, b, v, x, s
<1>14. SameMessage(Meant(m), Handed(k))
    <2>1. /\ Handed(k).args = <<Str(NameOf(x)), Ref(u), Str(s)>>
          /\ Handed(b).args = <<Str(NameOf(x)), Ref(v), Str(s)>>
        BY <1>5, <1>12, <1>13, HandedWords
    <2>2. Handed(k).msgid = Handed(b).msgid /\ Handed(k).type = Handed(b).type
        BY <1>5, <1>12, HandedWords
    <2>. QED BY <1>2, <1>4, <1>7, <2>1, <2>2, MeantIs, SameArgs, WordParts
<1>15. Freed(k) /\ Freed(b)
    BY FreesWords, FreedWords, WordParts DEF k, b, Fits
<1>. QED BY <1>4, <1>11, <1>14, <1>15 DEF RoundTrip

\* Two tuplespaces, in their order, and a template.
LEMMA CollectTrip ==
    ASSUME NEW m, Proper(m), WordsArrive(m), m.type \in Understood, m.type \in Collects
    PROVE  RoundTrip(m)
<1> DEFINE x == m.args[1].v
           y == m.args[2].v
           v == m.args[3].v
           xml == WriteValue(v, UseTypes, FALSE)
           from == Ref(TupleSpace(NameOf(x)))
           to == Ref(TupleSpace(NameOf(y)))
           blank == Msg(m.type, m.msgid, Unset, Unset, Unset)
           i == Msg(m.type, m.msgid, from, Unset, Unset)
           j == Msg(m.type, m.msgid, from, to, Unset)
           b == Msg(m.type, m.msgid, Ref(x), Ref(y), Ref(v))
<1>1. m.args[1] = Ref(x) /\ m.args[2] = Ref(y) /\ m.args[3] = Ref(v)
    BY ProperArgs
<1>2. m.type \notin Refs /\ m.type # "UPDATE_TYPE" /\ m.type \notin Requests
    BY Apart DEF Single
<1>3. TupleArrives(v, UseTypes)
    <2>1. TupleWord(m) = 3
        BY WordFor
    <2>. QED BY <1>2, <2>1 DEF WordsArrive
<1>4. Built(m) = b
    BY <1>1, BuiltWords DEF Three
<1>5. /\ b.type = m.type /\ b.msgid = m.msgid
      /\ b.word[1] = Ref(x) /\ b.word[2] = Ref(y) /\ b.word[3] = Ref(v)
      /\ blank.type = m.type /\ blank.word[1] = Unset
      /\ i.type = m.type /\ i.word[1] = from /\ j.type = m.type
    BY MsgParts
<1>6. Content(b) = Ts(NameOf(x)) \o Ts(NameOf(y)) \o xml
    <2>1. b.word[1].v = x /\ b.word[2].v = y /\ b.word[3].v = v
        BY <1>5, WordParts
    <2> HIDE DEF b, v, x, y
    <2>. QED BY <1>5, <2>1, Contents
<1>7. PICK u : LookAlike(v, u) /\ Reads(j, xml, Put(j, TupleWord(j), Ref(u)))
    <2>1. m.type \in Holders
        BY DEF Holders
    <2> HIDE DEF v, from, to
    <2>. QED BY <1>3, <2>1, ReadsTuple
<1> DEFINE k == Msg(m.type, m.msgid, from, to, Ref(u))
<1>8. Reads(blank, Ts(NameOf(x)), i)
    <2>1. TsWord(blank) = 1
        BY <1>5, WordFor
    <2>2. Put(blank, TsWord(blank), from) = i
        BY <2>1, MsgParts
    <2>. QED BY <1>2, <1>5, <2>2, ReadsWords
<1>9. Reads(i, Ts(NameOf(y)), j)
    <2>1. from # Unset
        BY WordParts
    <2>2. TsWord(i) = 2
        BY <1>5, <2>1, WordFor
    <2>3. Put(i, TsWord(i), to) = j
        BY <2>2, MsgParts
    <2>. QED BY <1>2, <1>5, <2>3, ReadsWords
<1>10. Put(j, TupleWord(j), Ref(u)) = k
    <2>1. TupleWord(j) = 3
        BY <1>5, WordFor
    <2>. QED BY <2>1, MsgParts
<1>11. Reads(Blank, Encode(Built(m)), k)
    <2>1. Reads(blank, Ts(NameOf(x)) \o Ts(NameOf(y)), j)
        BY <1>8, <1>9, ReadsOn
    <2>2. Reads(blank, Ts(NameOf(x)) \o Ts(NameOf(y)) \o xml, k)
        <3> DEFINE front == Ts(NameOf(x)) \o Ts(NameOf(y))
        <3> HIDE DEF front, blank, j, k, xml
        <3>1. Reads(blank, front \o xml, k)
            BY <1>7, <1>10, <2>1, ReadsOn DEF front
        <3>. QED BY <3>1 DEF front
    <2>. QED BY <1>4, <1>6, <2>2, ReadsMessage
<1>12. /\ k.type = m.type /\ k.msgid = m.msgid
       /\ k.word[1] = from /\ k.word[2] = to /\ k.word[3] = Ref(u)
    BY MsgParts
<1>13. /\ ByName(from) = Str(NameOf(x)) /\ ByName(Ref(x)) = Str(NameOf(x))
       /\ ByName(to) = Str(NameOf(y)) /\ ByName(Ref(y)) = Str(NameOf(y))
    BY WordParts
<1> HIDE DEF k, b, v, x, y
<1>14. SameMessage(Meant(m), Handed(k))
    <2>1. /\ Handed(k).args = <<Str(NameOf(x)), Str(NameOf(y)), Ref(u)>>
          /\ Handed(b).args = <<Str(NameOf(x)), Str(NameOf(y)), Ref(v)>>
        BY <1>5, <1>12, <1>13, HandedWords
    <2>2. Handed(k).msgid = Handed(b).msgid /\ Handed(k).type = Handed(b).type
        BY <1>5, <1>12, HandedWords
    <2>. QED BY <1>2, <1>4, <1>7, <2>1, <2>2, MeantIs, SameArgs, WordParts
<1>15. Freed(k) /\ Freed(b)
    BY FreesWords, FreedWords, WordParts DEF k, b, Fits
<1>. QED BY <1>4, <1>11, <1>14, <1>15 DEF RoundTrip

\* A type and its number; the process id is added as it is written.
LEMMA TypeTrip ==
    ASSUME NEW m, Proper(m), WordsArrive(m), m.type \in Understood, m.type = "UPDATE_TYPE"
    PROVE  RoundTrip(m)
<1> DEFINE s == m.args[1].s
           v == m.args[2].v
           p == ProcessId
           xml == InElement(v, TRUE)
           u == ReadValue(xml[1])
           blank == Msg(m.type, m.msgid, Unset, Unset, Unset)
           i == Msg(m.type, m.msgid, Str(s), Unset, Unset)
           j == Msg(m.type, m.msgid, Str(s), Ref(u), Unset)
           k == Msg(m.type, m.msgid, Str(s), Ref(u), Str(p))
           b == Msg(m.type, m.msgid, Str(s), Ref(v), Unset)
           c == Msg(m.type, m.msgid, Str(s), Ref(v), Str(p))
<1>1. m.args[1] = Str(s) /\ m.args[2] = Ref(v) /\ 1 \in DOMAIN m.args
    BY ProperArgs
<1>2. TextArrives(s) /\ LookAlike(v, u) /\ TextArrives(p)
    <2>1. m.args[1].as = "str"
        BY <1>1, WordParts
    <2>2. TextArrives(s)
        BY <1>1, <2>1 DEF WordsArrive
    <2>3. TypeArrives(v) /\ TextArrives(p)
        BY DEF WordsArrive
    <2>. QED BY <2>2, <2>3 DEF TypeArrives
<1>3. Built(m) = b
    BY <1>1, BuiltWords DEF Two
<1> HIDE DEF xml, u
<1>4. /\ b.type = m.type /\ b.msgid = m.msgid /\ b.word[1] = Str(s) /\ b.word[2] = Ref(v)
      /\ blank.type = m.type /\ blank.word[1] = Unset
      /\ i.type = m.type /\ j.type = m.type /\ j.word[1] = Str(s)
    BY MsgParts
<1>5. Content(b) = Text(s) \o xml \o Text(p)
    <2>1. b.word[1].s = s /\ b.word[2].v = v
        BY <1>4, WordParts
    <2> HIDE DEF b, v, s
    <2>. QED BY <1>4, <2>1, Contents DEF xml
<1>6. Reads(blank, Text(s), i)
    <2>1. StringWord(blank) = 1
        BY <1>4, WordFor
    <2>2. Put(blank, StringWord(blank), Str(s)) = i
        BY <2>1, MsgParts
    <2>. QED BY <1>2, <2>2, ReadsWords
<1>7. Reads(i, xml, j)
    <2>1. Put(i, 2, Ref(u)) = j
        BY MsgParts
    <2>2. i.type \in {"REGISTER_TYPE", "UPDATE_TYPE"}
        BY <1>4
    <2> HIDE DEF i, j, v
    <2>3. Reads(i, InElement(v, TRUE), Put(i, 2, Ref(ReadValue(InElement(v, TRUE)[1]))))
        BY <2>2, ReadsWords
    <2>. QED BY <2>1, <2>3 DEF xml, u
<1>8. Reads(j, Text(p), k)
    <2>1. Str(s) # Unset
        BY WordParts
    <2>2. StringWord(j) = 3
        BY <1>4, <2>1, WordFor
    <2>3. Put(j, StringWord(j), Str(p)) = k
        BY <2>2, MsgParts
    <2>. QED BY <1>2, <2>3, ReadsWords
<1>9. Reads(Blank, Encode(Built(m)), k)
    <2>1. Reads(blank, Text(s) \o xml, j)
        BY <1>6, <1>7, ReadsOn
    <2>2. Reads(blank, Text(s) \o xml \o Text(p), k)
        <3> DEFINE front == Text(s) \o xml
        <3> HIDE DEF front, blank, j, k
        <3>1. Reads(blank, front \o Text(p), k)
            BY <1>8, <2>1, ReadsOn DEF front
        <3>. QED BY <3>1 DEF front
    <2>. QED BY <1>3, <1>5, <2>2, ReadsMessage
<1>10. Meant(m) = Handed(c)
    <2>1. Put(b, 3, Str(p)) = c
        BY MsgParts
    <2>2. [b EXCEPT !.word[3] = Str(p)] = c
        BY <2>1 DEF Put
    <2>. QED BY <1>3, <2>2 DEF Meant
<1>11. /\ k.type = m.type /\ k.msgid = m.msgid
       /\ k.word[1] = Str(s) /\ k.word[2] = Ref(u) /\ k.word[3] = Str(p)
       /\ c.type = m.type /\ c.msgid = m.msgid
       /\ c.word[1] = Str(s) /\ c.word[2] = Ref(v) /\ c.word[3] = Str(p)
    BY MsgParts
<1> HIDE DEF k, b, c, v, s, p
<1>12. SameMessage(Meant(m), Handed(k))
    <2>1. /\ Handed(k).args = <<Str(s), Ref(u), Str(p)>>
          /\ Handed(c).args = <<Str(s), Ref(v), Str(p)>>
        BY <1>11, HandedWords
    <2>2. Handed(k).msgid = Handed(c).msgid /\ Handed(k).type = Handed(c).type
        BY <1>11, HandedWords
    <2>. QED BY <1>2, <1>10, <2>1, <2>2, SameArgs, WordParts
<1>13. Freed(k) /\ Freed(b)
    BY FreesWords, FreedWords, WordParts DEF k, b, Fits
<1>. QED BY <1>3, <1>9, <1>12, <1>13 DEF RoundTrip

\* Every message that is said makes the round trip.
LEMMA EveryTrip ==
    ASSUME CallsProper, ValuesArrive, NEW m \in Said PROVE RoundTrip(m)
<1>1. Proper(m) /\ WordsArrive(m) /\ m.type \in Understood
    BY DEF CallsProper, ValuesArrive
<1>. QED BY <1>1, Kinds, PlainTrip, TextTrip, AskTrip, NumberTrip, TupleTrip, RefTrip, OutTrip,
            TypeTrip, MatchTrip, CollectTrip

-----------------------------------------------------------------------------
(* What the two ends read.                                                 *)

\* What was written is read back, and freed.
LEMMA WhatIsRead ==
    ASSUME CallsProper, ValuesArrive, NEW m \in Said
    PROVE  /\ ~Exits(Encoded[m]) /\ SameMessage(Meant(m), Handed(Decode(Encoded[m])))
           /\ Decode(Encoded[m]).type \in KeptAsValue \/ Freed(Decode(Encoded[m]))
           /\ Freed(Built(m))
<1>1. PICK k : /\ Reads(Blank, Encode(Built(m)), k)
               /\ SameMessage(Meant(m), Handed(k))
               /\ k.type \in KeptAsValue \/ Freed(k)
               /\ Freed(Built(m))
    BY EveryTrip DEF RoundTrip
<1>2. Encoded[m] = Encode(Built(m))
    BY DEF Encoded
<1>3. ~Exits(Encoded[m]) /\ Decode(Encoded[m]) = k
    BY <1>1, <1>2 DEF Reads, Decode
<1>. QED BY <1>1, <1>3

\* A call and its plan are built and meant alike.
LEMMA PlanOf ==
    ASSUME NEW c
    PROVE  Built(c) = Built(Plan(c)) /\ Meant(c) = Meant(Plan(c)) /\ (c \in Calls => Plan(c) \in Said)
<1>1. Plan(c).type = c.type /\ Plan(c).msgid = c.msgid /\ Plan(c).args = c.args
    BY DEF Plan
<1>2. Built(c) = Built(Plan(c))
    BY <1>1 DEF Built
<1>3. Meant(c) = Meant(Plan(c))
    BY <1>1, <1>2 DEF Meant
<1>. QED BY <1>2, <1>3 DEF Said

\* An answer to a call is one of the things said.
LEMMA AnswersSaid ==
    ASSUME Typed, Turns, NEW a \in answer
    PROVE  a \in Said /\ answer = {a} /\ (reply = {} \/ reply = {Encoded[a]})
<1>1. PICK x \in call.answers : answer = {x} /\ (reply = {} \/ reply = {Encoded[x]})
    BY DEF Turns, ItsAnswer
<1>2. a = x /\ call \in Calls
    <2>1. NoCall.answers = {}
        BY DEF NoCall
    <2>. QED BY <1>1, <2>1 DEF Typed
<1>. QED BY <1>1, <1>2 DEF Said

\* Whatever the calls are, as long as they are built by the constructors, the
\* reader knows them and their values survive by themselves: a handler is given
\* what the caller meant (Message_getString, BuildMessage, LindaPython_recv),
\* however the connection cuts it up and whoever shuts it down.
THEOREM MessagesArrive ==
    ASSUME CallsProper, ValuesArrive PROVE Spec => []MessageArrives
<1>1. Typed /\ Turns => MessageArrives
    <2> SUFFICES ASSUME Typed, Turns, NEW es \in asked
                 PROVE  ~Exits(es) /\ SameMessage(Meant(call), Handed(Decode(es)))
        BY DEF MessageArrives
    <2>1. call \in Calls /\ es = Encoded[Plan(call)]
        BY DEF Turns, Question
    <2>2. Plan(call) \in Said /\ Meant(call) = Meant(Plan(call))
        BY <2>1, PlanOf
    <2>. QED BY <2>1, <2>2, WhatIsRead
<1>. QED BY <1>1, AlwaysTyped, TakeTurns, PTL

\* And the caller is given the answer the handler meant, the one to its own
\* call (LindaPython_send; the functions of tuplespace.c read m->tuple of it).
THEOREM AnswersArrive ==
    ASSUME CallsProper, ValuesArrive PROVE Spec => []AnswerArrives
<1>1. Typed /\ Turns => AnswerArrives
    <2> SUFFICES ASSUME Typed, Turns, NEW es \in reply, NEW a \in answer
                 PROVE  ~Exits(es) /\ SameMessage(Meant(a), Handed(Decode(es)))
        BY DEF AnswerArrives
    <2>1. a \in Said /\ es = Encoded[a]
        BY AnswersSaid
    <2>. QED BY <2>1, WhatIsRead
<1>. QED BY <1>1, AlwaysTyped, TakeTurns, PTL

\* Every word of a message, of the one that is sent and of the one that is read,
\* is given back as what it is (Message_free), but for the tuplespace of the
\* three that keep it as a value.
THEOREM WordsAreFreed ==
    ASSUME CallsProper, ValuesArrive PROVE Spec => []FreedAsBuilt
<1>1. Typed /\ Turns => FreedAsBuilt
    <2> SUFFICES ASSUME Typed, Turns PROVE FreedAsBuilt
        OBVIOUS
    <2>1. Freed(Built(call))
        <3>1. CASE call \in Calls
            BY <3>1, PlanOf, WhatIsRead
        <3>2. CASE call = NoCall
            <4>1. call.type = "DONE" /\ call.type \in Plain
                BY <3>2 DEF NoCall, Plain
            <4>2. Built(call) = Msg(call.type, call.msgid, Unset, Unset, Unset)
                BY <4>1, BuiltWords
            <4>3. Frees(call.type) = <<"none", "none", "none">> /\ Fits(Unset, "none")
                BY <4>1, FreesWords, WordParts DEF Fits
            <4>. QED BY <4>2, <4>3, FreedWords
        <3>. QED BY <3>1, <3>2 DEF Typed
    <2>2. ASSUME NEW a \in answer PROVE Freed(Built(a))
        BY AnswersSaid, WhatIsRead
    <2>3. ASSUME NEW es \in asked \cup reply
          PROVE  Decode(es).type \in KeptAsValue \/ Freed(Decode(es))
        <3>1. PICK m \in Said : es = Encoded[m]
            <4>1. CASE es \in asked
                <5>1. call \in Calls /\ es = Encoded[Plan(call)]
                    BY <4>1 DEF Turns, Question
                <5>. QED BY <5>1, PlanOf
            <4>2. CASE es \in reply
                <5>1. PICK a \in answer : TRUE
                    BY <4>2 DEF Turns, ItsAnswer
                <5>. QED BY <4>2, <5>1, AnswersSaid
            <4>. QED BY <4>1, <4>2
        <3>. QED BY <3>1, WhatIsRead
    <2>. QED BY <2>1, <2>2, <2>3 DEF FreedAsBuilt
<1>. QED BY <1>1, AlwaysTyped, TakeTurns, PTL
=============================================================================
