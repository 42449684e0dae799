---------------------------- MODULE Stream_proofs ----------------------------
(***************************************************************************)
(* A connection never loses its place: whatever the kernel takes and gives *)
(* at a time, and whoever shuts down when, what has arrived is the start   *)
(* of the frame being sent, and a message that is complete is what was     *)
(* sent.  The strengthening says where each end stands while both are      *)
(* open: what is in the kernel and in the reader's buffer is exactly what  *)
(* the sender's loop has counted.                                          *)
(***************************************************************************)
EXTENDS Stream, SequenceTheorems, TLAPS

FrameLen(b) == HeaderSize + Len(b)
Sendable == Bodies \cup {<<>>}
Unit == UNION {{Frame(b)[i] : i \in 1..FrameLen(b)} : b \in Sendable}
Stage == [stage : {"idle", "header", "body"}, sent : Int, body : Sendable]

StreamTypes ==
    /\ tx \in [Ends -> Stage]
    /\ wire \in [Ends -> Seq(Unit)] /\ rx \in [Ends -> Seq(Unit)]
    /\ DOMAIN open = Ends

\* What has arrived is the start of the frame.
Follows(t, w, r) ==
    \A i \in 1..Len(r \o w) : i <= FrameLen(t.body) /\ (r \o w)[i] = Frame(t.body)[i]
\* While both ends are open it is as long as the sender thinks.
Level(t, w, r) ==
    /\ Len(r) + Len(w) = Offset(t)
    /\ 0 <= t.sent /\ t.sent < (IF t.stage = "header" THEN HeaderSize ELSE Len(t.body))
EndInv(e) ==
    /\ tx[e].stage # "idle" => tx[e].body \in Bodies
    /\ Follows(tx[e], wire[e], rx[e])
    /\ (tx[e].stage # "idle" /\ open[e] /\ open[Peer(e)]) => Level(tx[e], wire[e], rx[e])
IInv == StreamTypes /\ \A e \in Ends : EndInv(e)

\* The length of what may be sent is a number, and it is a sequence.
LEMMA SendableLen ==
    \A b \in Sendable : /\ Len(b) \in Nat /\ b = [i \in 1..Len(b) |-> b[i]]
                        /\ FrameLen(b) \in Nat /\ FrameLen(b) >= HeaderSize
                        /\ b \in Bodies => Len(b) > 0
<1> SUFFICES ASSUME NEW b \in Sendable
             PROVE  /\ Len(b) \in Nat /\ b = [i \in 1..Len(b) |-> b[i]]
                    /\ b \in Bodies => Len(b) > 0
    BY DEF FrameLen, HeaderSize
<1>1. CASE b \in Bodies
    BY <1>1, StreamAssumption
<1>2. CASE b = <<>> /\ b \notin Bodies
    <2>1. Len(b) = 0
        BY <1>2
    <2>2. b = [i \in 1..0 |-> b[i]]
        BY <1>2
    <2>. QED BY <1>2, <2>1, <2>2
<1>. QED BY <1>1, <1>2 DEF Sendable

\* A frame is a sequence of units: its size, then the message.
LEMMA FrameShape ==
    \A b \in Sendable :
        /\ \A i \in 1..FrameLen(b) : Frame(b)[i] \in Unit
        /\ \A i \in 1..HeaderSize : Frame(b)[i] = <<"size", Len(b)>>
        /\ \A i \in (HeaderSize + 1)..FrameLen(b) : Frame(b)[i] = <<"data", b[i - HeaderSize]>>
        /\ DOMAIN Frame(b) = 1..FrameLen(b)
<1> SUFFICES ASSUME NEW b \in Sendable
             PROVE  /\ \A i \in 1..FrameLen(b) : Frame(b)[i] \in Unit
                    /\ \A i \in 1..HeaderSize : Frame(b)[i] = <<"size", Len(b)>>
                    /\ \A i \in (HeaderSize + 1)..FrameLen(b) :
                           Frame(b)[i] = <<"data", b[i - HeaderSize]>>
                    /\ DOMAIN Frame(b) = 1..FrameLen(b)
    OBVIOUS
<1>1. Len(b) \in Nat
    BY SendableLen
<1>2. \A i \in 1..FrameLen(b) : Frame(b)[i] \in Unit
    BY DEF Unit
<1>3. DOMAIN Frame(b) = 1..FrameLen(b)
    BY DEF Frame, FrameLen
<1>4. \A i \in 1..HeaderSize : Frame(b)[i] = <<"size", Len(b)>>
    BY <1>1 DEF Frame, HeaderSize
<1>5. \A i \in (HeaderSize + 1)..FrameLen(b) : Frame(b)[i] = <<"data", b[i - HeaderSize]>>
    BY <1>1 DEF Frame, FrameLen, HeaderSize
<1>. QED BY <1>2, <1>3, <1>4, <1>5

\* Sending the next n units of a frame keeps the two ends level.
LEMMA SendFollows ==
    ASSUME NEW t \in Stage, NEW w \in Seq(Unit), NEW r \in Seq(Unit), NEW n \in Nat \ {0},
           t.stage # "idle", t.body \in Bodies, n <= Left(t),
           Follows(t, w, r), Level(t, w, r)
    PROVE  LET x == SubSeq(Frame(t.body), Offset(t) + 1, Offset(t) + n)
               u == IF n = Left(t) THEN [t EXCEPT !.stage = NextStage(t), !.sent = 0]
                    ELSE [t EXCEPT !.sent = t.sent + n]
           IN /\ w \o x \in Seq(Unit) /\ Len(w \o x) = Len(w) + n
              /\ u \in Stage /\ u.body = t.body
              /\ Follows(u, w \o x, r)
              /\ u.stage # "idle" => Level(u, w \o x, r)
<1> DEFINE x == SubSeq(Frame(t.body), Offset(t) + 1, Offset(t) + n)
           u == IF n = Left(t) THEN [t EXCEPT !.stage = NextStage(t), !.sent = 0]
                ELSE [t EXCEPT !.sent = t.sent + n]
<1>1. t.body \in Sendable /\ Len(t.body) \in Nat \ {0} /\ t.sent \in Nat
    BY SendableLen DEF Stage, Sendable, Level
<1>2. u \in Stage /\ u.body = t.body
    <2>1. CASE n = Left(t)
        <3>1. u = [stage |-> NextStage(t), sent |-> 0, body |-> t.body]
            BY <2>1 DEF Stage
        <3>. QED BY <3>1 DEF Stage, NextStage
    <2>2. CASE n # Left(t)
        <3>1. u = [stage |-> t.stage, sent |-> t.sent + n, body |-> t.body]
            BY <2>2 DEF Stage
        <3>. QED BY <3>1, <1>1 DEF Stage
    <2>. QED BY <2>1, <2>2
<1>3. Offset(t) \in Nat /\ Offset(t) + n <= FrameLen(t.body)
    BY <1>1 DEF Offset, Left, FrameLen, HeaderSize, Stage
<1>4. /\ x \in Seq(Unit) /\ Len(x) = n
      /\ \A i \in 1..n : x[i] = Frame(t.body)[Offset(t) + i]
    <2>1. \A i \in (Offset(t) + 1)..(Offset(t) + n) : Frame(t.body)[i] \in Unit
        BY <1>1, <1>3, FrameShape, SendableLen
    <2>2. /\ x \in Seq(Unit)
          /\ Len(x) = IF Offset(t) + 1 <= Offset(t) + n
                      THEN (Offset(t) + n) - (Offset(t) + 1) + 1 ELSE 0
          /\ \A i \in 1..((Offset(t) + n) - (Offset(t) + 1) + 1) :
                 x[i] = Frame(t.body)[(Offset(t) + 1) + i - 1]
        <3> HIDE DEF x
        <3>1. Offset(t) + 1 \in Int /\ Offset(t) + n \in Int
            BY <1>3
        <3>. QED BY <2>1, <3>1, SubSeqProperties DEF x
    <2> HIDE DEF x
    <2>3. (Offset(t) + n) - (Offset(t) + 1) + 1 = n /\ Offset(t) + 1 <= Offset(t) + n
        BY <1>3
    <2>4. ASSUME NEW i \in 1..n PROVE x[i] = Frame(t.body)[Offset(t) + i]
        <3>1. (Offset(t) + 1) + i - 1 = Offset(t) + i
            BY <1>3
        <3>2. x[i] = Frame(t.body)[(Offset(t) + 1) + i - 1]
            BY <2>2, <2>3
        <3>. QED BY <3>1, <3>2
    <2>5. Len(x) = n
        BY <2>2, <2>3
    <2>. QED BY <2>2, <2>4, <2>5
<1> HIDE DEF x, u
<1>5. Len(w) \in Nat /\ Len(r) \in Nat
    BY LenProperties
<1>6. /\ w \o x \in Seq(Unit) /\ Len(w \o x) = Len(w) + n
      /\ \A i \in 1..(Len(w) + n) : (w \o x)[i] = IF i <= Len(w) THEN w[i] ELSE x[i - Len(w)]
    BY <1>4, ConcatProperties
<1>7. /\ Len(r \o w) = Len(r) + Len(w)
      /\ \A i \in 1..(Len(r) + Len(w)) :
             (r \o w)[i] = IF i <= Len(r) THEN r[i] ELSE w[i - Len(r)]
    BY ConcatProperties
<1>8. /\ Len(r \o (w \o x)) = Len(r) + Len(w) + n
      /\ \A i \in 1..(Len(r) + Len(w) + n) :
             (r \o (w \o x))[i] = IF i <= Len(r) THEN r[i] ELSE (w \o x)[i - Len(r)]
    <2>1. /\ Len(r \o (w \o x)) = Len(r) + Len(w \o x)
          /\ \A i \in 1..(Len(r) + Len(w \o x)) :
                 (r \o (w \o x))[i] = IF i <= Len(r) THEN r[i] ELSE (w \o x)[i - Len(r)]
        BY <1>6, ConcatProperties
    <2>2. Len(r) + Len(w \o x) = Len(r) + Len(w) + n
        BY <1>5, <1>6
    <2>. QED BY <2>1, <2>2
<1>9. Len(r) + Len(w) = Offset(t)
    BY DEF Level
<1>10. Follows(u, w \o x, r)
    <2> SUFFICES ASSUME NEW i \in 1..Len(r \o (w \o x))
                 PROVE  i <= FrameLen(t.body) /\ (r \o (w \o x))[i] = Frame(t.body)[i]
        BY <1>2 DEF Follows
    <2>1. i \in 1..(Offset(t) + n)
        BY <1>8, <1>9, <1>5
    <2>2. i <= FrameLen(t.body)
        BY <2>1, <1>3, <1>1, SendableLen
    <2>3. CASE i <= Offset(t)
        <3>1. (r \o (w \o x))[i] = (r \o w)[i]
            BY <2>1, <2>3, <1>5, <1>6, <1>7, <1>8, <1>9
        <3>2. (r \o w)[i] = Frame(t.body)[i]
            BY <2>1, <2>3, <1>7, <1>9, <1>3 DEF Follows
        <3>. QED BY <2>2, <3>1, <3>2
    <2>4. CASE i > Offset(t)
        <3>1. (r \o (w \o x))[i] = x[i - Offset(t)]
            <4>1. (r \o (w \o x))[i] = (w \o x)[i - Len(r)]
                BY <2>1, <2>4, <1>5, <1>8, <1>9
            <4>2. i - Len(r) \in 1..(Len(w) + n) /\ ~(i - Len(r) <= Len(w))
                BY <2>1, <2>4, <1>5, <1>9
            <4>3. (w \o x)[i - Len(r)] = x[(i - Len(r)) - Len(w)]
                BY <4>2, <1>6
            <4>4. (i - Len(r)) - Len(w) = i - Offset(t)
                BY <1>5, <1>9, <2>1
            <4>. QED BY <4>1, <4>3, <4>4
        <3>2. i - Offset(t) \in 1..n
            BY <2>1, <2>4, <1>3
        <3>3. x[i - Offset(t)] = Frame(t.body)[Offset(t) + (i - Offset(t))]
            BY <3>2, <1>4
        <3>4. Offset(t) + (i - Offset(t)) = i
            BY <1>3, <2>1
        <3>. QED BY <2>2, <3>1, <3>3, <3>4
    <2>. QED BY <2>1, <2>3, <2>4, <1>3
<1>11. ASSUME u.stage # "idle" PROVE Level(u, w \o x, r)
    <2>1. CASE n = Left(t)
        <3>1. u.stage = "body" /\ u.sent = 0 /\ t.stage = "header"
            BY <1>11, <2>1 DEF u, NextStage, Stage
        <3>2. Offset(t) + n = HeaderSize /\ Offset(u) = HeaderSize
            BY <3>1, <2>1, <1>1 DEF Offset, Left, HeaderSize
        <3>. QED BY <3>1, <3>2, <1>1, <1>2, <1>5, <1>6, <1>9 DEF Level, HeaderSize
    <2>2. CASE n # Left(t)
        <3>1. u.stage = t.stage /\ u.sent = t.sent + n
            BY <2>2 DEF u, Stage
        <3>2. Offset(u) = Offset(t) + n
            BY <3>1, <1>1 DEF Offset, HeaderSize
        <3>3. u.sent < (IF t.stage = "header" THEN HeaderSize ELSE Len(t.body))
            BY <3>1, <2>2, <1>1 DEF Left, HeaderSize
        <3>. QED BY <3>1, <3>2, <3>3, <1>1, <1>2, <1>5, <1>6, <1>9 DEF Level
    <2>. QED BY <2>1, <2>2
<1>. QED BY <1>2, <1>6, <1>10, <1>11 DEF x, u

\* What is complete is the whole frame, and nothing follows it.
LEMMA CompleteFrame ==
    ASSUME NEW t \in Stage, NEW w \in Seq(Unit), NEW r \in Seq(Unit),
           Follows(t, w, r), Len(r) >= HeaderSize, Need(r) = 0
    PROVE  Len(r) = FrameLen(t.body) /\ w = <<>> /\ Data(r) = t.body
<1>1. t.body \in Sendable /\ Len(t.body) \in Nat /\ FrameLen(t.body) = 4 + Len(t.body)
    BY SendableLen DEF Stage, FrameLen, HeaderSize
<1>2. Len(w) \in Nat /\ Len(r) \in Nat
    BY LenProperties
<1>3. /\ Len(r \o w) = Len(r) + Len(w)
      /\ \A i \in 1..(Len(r) + Len(w)) :
             (r \o w)[i] = IF i <= Len(r) THEN r[i] ELSE w[i - Len(r)]
    BY ConcatProperties
<1>4. \A i \in 1..Len(r) : i <= FrameLen(t.body) /\ r[i] = Frame(t.body)[i]
    BY <1>2, <1>3 DEF Follows
<1>5. r[4] = <<"size", Len(t.body)>>
    <2>1. 4 \in 1..Len(r) /\ 4 \in 1..HeaderSize
        BY <1>2 DEF HeaderSize
    <2>2. Frame(t.body)[4] = <<"size", Len(t.body)>>
        BY <1>1, <2>1, FrameShape
    <2>. QED BY <1>4, <2>1, <2>2
<1>6. Len(r) = FrameLen(t.body)
    <2>1. r[4][2] = Len(t.body)
        BY <1>5
    <2>. QED BY <1>1, <1>2, <2>1 DEF Need, HeaderSize
<1>7. w = <<>>
    <2>1. SUFFICES ASSUME Len(w) > 0 PROVE FALSE
        BY <1>2, EmptySeq
    <2>2. Len(r) + 1 \in 1..Len(r \o w)
        BY <1>2, <1>3, <2>1
    <2>3. Len(r) + 1 <= FrameLen(t.body)
        BY <2>2 DEF Follows
    <2>. QED BY <2>3, <1>2, <1>6
<1>8. Data(r) = t.body
    <2>1. Len(r) - HeaderSize = Len(t.body)
        BY <1>1, <1>6 DEF HeaderSize
    <2>2. ASSUME NEW i \in 1..Len(t.body) PROVE r[i + HeaderSize][2] = t.body[i]
        <3>1. i + HeaderSize \in (HeaderSize + 1)..FrameLen(t.body) /\ i + HeaderSize \in 1..Len(r)
              /\ (i + HeaderSize) - HeaderSize = i
            BY <1>1, <1>6 DEF HeaderSize
        <3>2. Frame(t.body)[i + HeaderSize] = <<"data", t.body[(i + HeaderSize) - HeaderSize]>>
            BY <1>1, <3>1, FrameShape
        <3>. QED BY <1>4, <3>1, <3>2
    <2>3. Data(r) = [i \in 1..Len(t.body) |-> t.body[i]]
        BY <2>1, <2>2 DEF Data
    <2>. QED BY <1>1, <2>3, SendableLen
<1>. QED BY <1>6, <1>7, <1>8

\* A step that leaves the connection of an end as it is, and opens nothing.
LEMMA OtherEnds ==
    ASSUME IInv, NEW e \in Ends, \A x \in Ends : open'[x] => open[x],
           tx'[e].stage = tx[e].stage \/ tx'[e].stage = "idle", tx'[e].body = tx[e].body,
           tx'[e].stage = tx[e].stage => (tx'[e].sent = tx[e].sent \/ ~open[Peer(e)]),
           Follows(tx[e], wire[e], rx[e]) => Follows(tx'[e], wire'[e], rx'[e]),
           Len(rx'[e]) + Len(wire'[e]) = Len(rx[e]) + Len(wire[e])
    PROVE  EndInv(e)'
<1>1. EndInv(e) /\ Peer(e) \in Ends
    BY StreamAssumption DEF IInv
<1>2. (tx[e].stage # "idle" => tx[e].body \in Bodies)'
    BY <1>1 DEF EndInv
<1>3. Follows(tx[e], wire[e], rx[e])'
    BY <1>1 DEF EndInv, Follows
<1>4. ASSUME tx'[e].stage # "idle", open'[e], open'[Peer(e)]
      PROVE  Level(tx[e], wire[e], rx[e])'
    <2>1. tx'[e].stage = tx[e].stage /\ open[e] /\ open[Peer(e)]
        BY <1>1, <1>4
    <2>2. Level(tx[e], wire[e], rx[e]) /\ tx'[e].sent = tx[e].sent
        BY <1>1, <1>4, <2>1 DEF EndInv
    <2>3. tx'[e].stage = tx[e].stage
        BY <2>1
    <2>4. Offset(tx'[e]) = Offset(tx[e])
        BY <2>2, <2>3 DEF Offset
    <2>5. /\ Len(rx[e]) + Len(wire[e]) = Offset(tx[e])
          /\ 0 <= tx[e].sent
          /\ tx[e].sent < (IF tx[e].stage = "header" THEN HeaderSize ELSE Len(tx[e].body))
        BY <2>2 DEF Level
    <2>6. Len(rx'[e]) + Len(wire'[e]) = Offset(tx'[e])
        BY <2>4, <2>5
    <2>. QED BY <2>2, <2>3, <2>5, <2>6 DEF Level
<1>. QED BY <1>2, <1>3, <1>4 DEF EndInv

\* A step at one end that leaves every other end's connection alone.
LEMMA OneEnd ==
    ASSUME IInv, NEW e \in Ends, \A x \in Ends : open'[x] => open[x],
           \A x \in Ends \ {e} : tx'[x] = tx[x] /\ wire'[x] = wire[x] /\ rx'[x] = rx[x],
           EndInv(e)'
    PROVE  \A x \in Ends : EndInv(x)'
<1> SUFFICES ASSUME NEW x \in Ends, x # e PROVE EndInv(x)'
    OBVIOUS
<1>. QED BY OtherEnds

\* The kernel takes n units.
LEMMA SendStep ==
    ASSUME IInv, NEW e \in Ends, NEW n \in 1..Capacity, Send(e, n) PROVE IInv'
<1> DEFINE t == tx[e]
           x == SubSeq(Frame(t.body), Offset(t) + 1, Offset(t) + n)
           u == IF n = Left(t) THEN [t EXCEPT !.stage = NextStage(t), !.sent = 0]
                ELSE [t EXCEPT !.sent = t.sent + n]
<1>1. n \in Nat \ {0}
    BY StreamAssumption
<1>2. t \in Stage /\ wire[e] \in Seq(Unit) /\ rx[e] \in Seq(Unit)
    BY DEF IInv, StreamTypes
<1>3. t.stage # "idle" /\ n <= Left(t)
    BY DEF Send
<1>4. t.body \in Bodies /\ Follows(t, wire[e], rx[e]) /\ Level(t, wire[e], rx[e])
    <2>1. open[e] /\ open[Peer(e)]
        BY DEF Send
    <2>. QED BY <1>3, <2>1 DEF IInv, EndInv
<1>5. /\ wire[e] \o x \in Seq(Unit) /\ Len(wire[e] \o x) = Len(wire[e]) + n
      /\ u \in Stage /\ u.body = t.body
      /\ Follows(u, wire[e] \o x, rx[e])
      /\ u.stage # "idle" => Level(u, wire[e] \o x, rx[e])
    BY <1>1, <1>2, <1>3, <1>4, SendFollows
<1>6. /\ wire' = [wire EXCEPT ![e] = @ \o x] /\ tx' = [tx EXCEPT ![e] = u]
      /\ rx' = rx /\ open' = open
    BY DEF Send
<1> HIDE DEF x, u
<1>7. tx'[e] = u /\ wire'[e] = wire[e] \o x /\ rx'[e] = rx[e]
    BY <1>6 DEF IInv, StreamTypes
<1>8. StreamTypes'
    BY <1>5, <1>6 DEF IInv, StreamTypes
<1>9. EndInv(e)'
    BY <1>4, <1>5, <1>7 DEF EndInv
<1>10. \A y \in Ends : open'[y] => open[y]
    BY <1>6
<1>11. \A y \in Ends \ {e} : tx'[y] = tx[y] /\ wire'[y] = wire[y] /\ rx'[y] = rx[y]
    BY <1>6 DEF IInv, StreamTypes
<1>. QED BY <1>8, <1>9, <1>10, <1>11, OneEnd DEF IInv

\* The other end gets n units.
LEMMA ReceiveStep ==
    ASSUME IInv, NEW e \in Ends, NEW n \in 1..Capacity, Receive(e, n) PROVE IInv'
<1> DEFINE a == SubSeq(wire[e], 1, n)
           b == SubSeq(wire[e], n + 1, Len(wire[e]))
<1>1. wire[e] \in Seq(Unit) /\ rx[e] \in Seq(Unit)
    BY DEF IInv, StreamTypes
<1>2. n \in Nat \ {0} /\ n <= Len(wire[e]) /\ Len(wire[e]) \in Nat
    BY <1>1, StreamAssumption, LenProperties DEF Receive
<1>3. /\ \A i \in 1..n : wire[e][i] \in Unit
      /\ \A i \in (n + 1)..Len(wire[e]) : wire[e][i] \in Unit
    BY <1>1, <1>2, ElementOfSeq
<1>4. a \in Seq(Unit) /\ b \in Seq(Unit)
    <2>1. n + 1 \in Int /\ 1 \in Int /\ n \in Int /\ Len(wire[e]) \in Int
        BY <1>2
    <2>2. a \in Seq(Unit)
        BY <1>3, <2>1, SubSeqProperties
    <2>3. b \in Seq(Unit)
        BY <1>3, <2>1, SubSeqProperties
    <2>. QED BY <2>2, <2>3
<1>5. a \o b = wire[e]
    <2>1. 1 \in 1..Len(wire[e]) + 1 /\ n \in 1 - 1..Len(wire[e])
          /\ Len(wire[e]) \in n..Len(wire[e])
        BY <1>2
    <2>2. a \o b = SubSeq(wire[e], 1, Len(wire[e]))
        BY <1>1, <2>1, ConcatAdjacentSubSeq
    <2>. QED BY <1>1, <2>2, SubSeqFull
<1> HIDE DEF a, b
<1>6. (rx[e] \o a) \o b = rx[e] \o wire[e] /\ rx[e] \o a \in Seq(Unit)
    <2>1. (rx[e] \o a) \o b = rx[e] \o (a \o b)
        <3>1. \A s, x, y \in Seq(Unit) : (s \o x) \o y = s \o (x \o y)
            BY ConcatAssociative, SMTT(30)
        <3>. QED BY <1>1, <1>4, <3>1
    <2>2. rx[e] \o a \in Seq(Unit)
        BY <1>1, <1>4, ConcatProperties
    <2>. QED BY <1>5, <2>1, <2>2
<1>7. /\ rx' = [rx EXCEPT ![e] = @ \o a] /\ wire' = [wire EXCEPT ![e] = b]
      /\ tx' = tx /\ open' = open
    BY DEF Receive, a, b
<1>8. tx'[e] = tx[e] /\ wire'[e] = b /\ rx'[e] = rx[e] \o a
    BY <1>7 DEF IInv, StreamTypes
<1>9. Len(rx[e] \o a) + Len(b) = Len(rx[e]) + Len(wire[e])
    <2>1. Len((rx[e] \o a) \o b) = Len(rx[e] \o a) + Len(b)
        BY <1>4, <1>6, ConcatProperties
    <2>2. Len(rx[e] \o wire[e]) = Len(rx[e]) + Len(wire[e])
        BY <1>1, ConcatProperties
    <2>. QED BY <1>6, <2>1, <2>2
<1>10. StreamTypes'
    BY <1>4, <1>6, <1>7 DEF IInv, StreamTypes
<1>11. \A y \in Ends : open'[y] => open[y]
    BY <1>7
<1>12. Follows(tx[e], wire[e], rx[e]) => Follows(tx'[e], wire'[e], rx'[e])
    BY <1>6, <1>8 DEF Follows
<1>13. EndInv(e)'
    BY <1>8, <1>9, <1>11, <1>12, OtherEnds
<1>14. \A y \in Ends \ {e} : tx'[y] = tx[y] /\ wire'[y] = wire[y] /\ rx'[y] = rx[y]
    BY <1>7 DEF IInv, StreamTypes
<1>. QED BY <1>10, <1>11, <1>13, <1>14, OneEnd DEF IInv

\* When the buffer of the other end is emptied nothing more is under way: the
\* message was whole, or the sender has gone.
LEMMA NothingLeft ==
    ASSUME IInv, NEW e \in Ends, Lost(e) \/ Take(e)
    PROVE  wire[e] = <<>> /\ (tx[e].stage # "idle" => ~(open[e] /\ open[Peer(e)]))
<1>1. tx[e] \in Stage /\ wire[e] \in Seq(Unit) /\ rx[e] \in Seq(Unit)
    BY DEF IInv, StreamTypes
<1>2. EndInv(e)
    BY DEF IInv
<1>3. CASE Lost(e)
    BY <1>3 DEF Lost
<1>4. CASE Take(e)
    <2>1. Len(rx[e]) >= HeaderSize /\ Need(rx[e]) = 0
        BY <1>4 DEF Take, Complete
    <2>2. Follows(tx[e], wire[e], rx[e])
        BY <1>2 DEF EndInv
    <2>3. Len(rx[e]) = FrameLen(tx[e].body) /\ wire[e] = <<>>
        BY <1>1, <2>1, <2>2, CompleteFrame
    <2>4. SUFFICES ASSUME tx[e].stage # "idle", Level(tx[e], wire[e], rx[e]) PROVE FALSE
        BY <1>2, <2>3 DEF EndInv
    <2>5. tx[e].body \in Sendable /\ Len(tx[e].body) \in Nat /\ tx[e].sent \in Int
        BY <1>1, SendableLen DEF Stage
    <2>6. Len(wire[e]) = 0
        BY <2>3
    <2>7. Len(rx[e]) \in Nat
        BY <1>1, LenProperties
    <2>8. FrameLen(tx[e].body) = Offset(tx[e])
        BY <2>3, <2>4, <2>6, <2>7 DEF Level
    <2>9. tx[e].sent < (IF tx[e].stage = "header" THEN HeaderSize ELSE Len(tx[e].body))
        BY <2>4 DEF Level
    <2>. QED BY <2>5, <2>8, <2>9 DEF Offset, FrameLen, HeaderSize
<1>. QED BY <1>3, <1>4

\* The buffer of the other end is emptied.
LEMMA EmptyStep ==
    ASSUME IInv, NEW e \in Ends, Lost(e) \/ Take(e), UNCHANGED <<tx, wire>>,
           UNCHANGED open \/ Close(Peer(e))
    PROVE  IInv'
<1>0. DOMAIN open' = Ends /\ \A y \in Ends : open'[y] => open[y]
    <2>1. CASE UNCHANGED open
        BY <2>1 DEF IInv, StreamTypes
    <2>2. CASE open' = [open EXCEPT ![Peer(e)] = FALSE]
        <3>1. DOMAIN open = Ends
            BY DEF IInv, StreamTypes
        <3>2. \A y \in Ends : open'[y] = IF y = Peer(e) THEN FALSE ELSE open[y]
            BY <2>2, <3>1
        <3>. QED BY <2>2, <3>1, <3>2
    <2>. QED BY <2>1, <2>2 DEF Close
<1>1. tx[e] \in Stage /\ wire[e] \in Seq(Unit) /\ rx[e] \in Seq(Unit)
    BY DEF IInv, StreamTypes
<1>2. rx' = [rx EXCEPT ![e] = <<>>] /\ rx'[e] = <<>>
    BY DEF IInv, StreamTypes, Lost, Take
<1>3. StreamTypes'
    BY <1>0, <1>2, EmptySeq DEF IInv, StreamTypes
<1>4. EndInv(e)
    BY DEF IInv
<1>5. wire[e] = <<>> /\ (tx[e].stage # "idle" => ~(open[e] /\ open[Peer(e)]))
    BY NothingLeft
<1>6. Len(<<>> \o <<>>) = 0
    BY EmptySeq, ConcatEmptySeq
<1>7. Follows(tx[e], <<>>, <<>>)
    BY <1>6 DEF Follows
<1>8. EndInv(e)'
    <2>1. Peer(e) \in Ends
        BY StreamAssumption
    <2>. QED BY <1>0, <1>2, <1>4, <1>5, <1>7, <2>1 DEF EndInv
<1>9. \A y \in Ends : open'[y] => open[y]
    BY <1>0
<1>10. \A y \in Ends \ {e} : tx'[y] = tx[y] /\ wire'[y] = wire[y] /\ rx'[y] = rx[y]
    BY <1>2 DEF IInv, StreamTypes
<1>. QED BY <1>3, <1>8, <1>9, <1>10, OneEnd DEF IInv

\* A message is started on a connection that is empty.
LEMMA StartStep ==
    ASSUME IInv, NEW e \in Ends, NEW b \in Bodies, Start(e, b), UNCHANGED <<wire, rx, open>>
    PROVE  IInv'
<1>1. b \in Sendable /\ Len(b) \in Nat \ {0}
    BY SendableLen DEF Sendable
<1> DEFINE u == [stage |-> "header", sent |-> 0, body |-> b]
<1>2. u \in Stage
    BY <1>1 DEF Stage
<1>3. tx' = [tx EXCEPT ![e] = u] /\ wire[e] = <<>> /\ rx[e] = <<>>
    BY DEF Start
<1>4. StreamTypes'
    BY <1>2, <1>3 DEF IInv, StreamTypes
<1>5. tx'[e] = u
    BY <1>3 DEF IInv, StreamTypes
<1>6. Len(<<>> \o <<>>) = 0
    BY EmptySeq, ConcatEmptySeq
<1>7. Follows(u, <<>>, <<>>) /\ Level(u, <<>>, <<>>)
    BY <1>6 DEF Follows, Level, Offset, HeaderSize
<1>8. EndInv(e)'
    BY <1>3, <1>5, <1>7 DEF EndInv
<1>9. \A y \in Ends : open'[y] => open[y]
    OBVIOUS
<1>10. \A y \in Ends \ {e} : tx'[y] = tx[y] /\ wire'[y] = wire[y] /\ rx'[y] = rx[y]
    BY <1>3 DEF IInv, StreamTypes
<1>. QED BY <1>4, <1>8, <1>9, <1>10, OneEnd DEF IInv

\* send(2) fails: the reader is gone, or is about to see the end.
LEMMA FailStep ==
    ASSUME IInv, NEW e \in Ends, SendFails(e) PROVE IInv'
<1> DEFINE t == tx[e]
           u == IF t.stage = "header" /\ t.sent = 0 THEN [t EXCEPT !.stage = "idle"]
                ELSE [t EXCEPT !.sent = IF t.sent = -MaxBack THEN t.sent ELSE t.sent - 1]
<1>1. t \in Stage
    BY DEF IInv, StreamTypes
<1>2. u \in Stage /\ u.body = t.body /\ (u.stage = t.stage \/ u.stage = "idle")
    <2>1. CASE t.stage = "header" /\ t.sent = 0
        <3>1. u = [stage |-> "idle", sent |-> t.sent, body |-> t.body]
            BY <1>1, <2>1 DEF Stage
        <3>. QED BY <1>1, <3>1 DEF Stage
    <2>2. CASE ~(t.stage = "header" /\ t.sent = 0)
        <3>1. u = [stage |-> t.stage, sent |-> u.sent, body |-> t.body] /\ u.sent \in Int
            BY <1>1, <2>2 DEF Stage
        <3>. QED BY <1>1, <3>1 DEF Stage
    <2>. QED BY <2>1, <2>2
<1>3. tx' = [tx EXCEPT ![e] = u] /\ wire' = wire /\ rx' = rx /\ open' = open
    BY DEF SendFails
<1>4. ~open[Peer(e)]
    BY DEF SendFails
<1> HIDE DEF u
<1>5. tx'[e] = u
    BY <1>3 DEF IInv, StreamTypes
<1>6. StreamTypes'
    BY <1>2, <1>3 DEF IInv, StreamTypes
<1>7. \A y \in Ends : open'[y] => open[y]
    BY <1>3
<1>8. Follows(tx[e], wire[e], rx[e]) => Follows(tx'[e], wire'[e], rx'[e])
    BY <1>2, <1>3, <1>5 DEF Follows
<1>9. EndInv(e)'
    BY <1>2, <1>3, <1>4, <1>5, <1>7, <1>8, OtherEnds
<1>10. \A y \in Ends \ {e} : tx'[y] = tx[y] /\ wire'[y] = wire[y] /\ rx'[y] = rx[y]
    BY <1>3 DEF IInv, StreamTypes
<1>. QED BY <1>6, <1>7, <1>9, <1>10, OneEnd DEF IInv

\* An end shuts down: what it had been sent stays where it is.
LEMMA CloseStep ==
    ASSUME IInv, NEW e \in Ends, Close(e), UNCHANGED <<tx, wire, rx>> PROVE IInv'
<1>1. open' = [open EXCEPT ![e] = FALSE]
    BY DEF Close
<1>2. DOMAIN open = Ends
    BY DEF IInv, StreamTypes
<1>3. \A y \in Ends : open'[y] => open[y]
    <2> SUFFICES ASSUME NEW y \in Ends, y # e PROVE open'[y] = open[y]
        BY <1>1, <1>2
    <2>. QED BY <1>1, <1>2
<1>4. StreamTypes'
    BY <1>1 DEF IInv, StreamTypes
<1>5. ASSUME NEW y \in Ends PROVE EndInv(y)'
    BY <1>3, OtherEnds
<1>. QED BY <1>4, <1>5 DEF IInv

\* The strengthening is an invariant of every connection.
LEMMA StreamInductive == StreamSpec => []IInv
<1>1. StreamInit => IInv
    <2> SUFFICES ASSUME StreamInit PROVE IInv
        OBVIOUS
    <2>1. [stage |-> "idle", sent |-> 0, body |-> <<>>] \in Stage
        BY DEF Stage, Sendable
    <2>2. StreamTypes
        BY <2>1, EmptySeq DEF StreamInit, StreamTypes
    <2>3. Len(<<>> \o <<>>) = 0
        BY EmptySeq, ConcatEmptySeq
    <2>4. ASSUME NEW e \in Ends PROVE EndInv(e)
        BY <2>3 DEF StreamInit, EndInv, Follows
    <2>. QED BY <2>2, <2>4 DEF IInv
<1>2. IInv /\ [StreamNext]_stream => IInv'
    <2> SUFFICES ASSUME IInv, [StreamNext]_stream PROVE IInv'
        OBVIOUS
    <2>1. CASE \E e \in Ends, b \in Bodies : Start(e, b) /\ UNCHANGED <<wire, rx, open>>
        BY <2>1, StartStep
    <2>2. CASE \E e \in Ends, n \in 1..Capacity : Send(e, n)
        BY <2>2, SendStep
    <2>3. CASE \E e \in Ends : SendFails(e)
        BY <2>3, FailStep
    <2>4. CASE \E e \in Ends, n \in 1..Capacity : Receive(e, n)
        BY <2>4, ReceiveStep
    <2>5. CASE \E e \in Ends : /\ Lost(e) \/ Take(e)
                               /\ UNCHANGED open \/ Close(Peer(e))
                               /\ UNCHANGED <<tx, wire>>
        BY <2>5, EmptyStep
    <2>6. CASE \E e \in Ends : Close(e) /\ UNCHANGED <<tx, wire, rx>>
        BY <2>6, CloseStep
    <2>7. CASE UNCHANGED stream
        BY <2>7 DEF stream, IInv, StreamTypes, EndInv, Follows, Level, Offset
    <2>. QED BY <2>1, <2>2, <2>3, <2>4, <2>5, <2>6, <2>7 DEF StreamNext
<1>. QED BY <1>1, <1>2, PTL DEF StreamSpec

\* The counter of a loop stays within its part, and the kernel holds what it can.
Limit(t) == IF t.stage = "header" THEN HeaderSize - 1 ELSE Len(t.body)
EndBounded(e) == tx[e].sent \in -MaxBack..Limit(tx[e]) /\ Len(wire[e]) <= Capacity
Bounded == \A e \in Ends : EndBounded(e)

\* A step that leaves the counters and the kernel of an end alone.
LEMMA BoundedElsewhere ==
    ASSUME NEW e, EndBounded(e), tx'[e] = tx[e], wire'[e] = wire[e]
    PROVE  EndBounded(e)'
BY DEF EndBounded, Limit

\* send(2) does not count beyond the part.
LEMMA SendBounded ==
    ASSUME IInv, Bounded, NEW e \in Ends, NEW n \in 1..Capacity, Send(e, n)
    PROVE  Bounded'
<1> DEFINE t == tx[e]
           x == SubSeq(Frame(t.body), Offset(t) + 1, Offset(t) + n)
           u == IF n = Left(t) THEN [t EXCEPT !.stage = NextStage(t), !.sent = 0]
                ELSE [t EXCEPT !.sent = t.sent + n]
<1>1. n \in Nat \ {0} /\ MaxBack \in Nat /\ Capacity \in Nat
    BY StreamAssumption
<1>2. t \in Stage /\ wire[e] \in Seq(Unit) /\ rx[e] \in Seq(Unit)
    BY DEF IInv, StreamTypes
<1>3. t.stage # "idle" /\ n <= Left(t) /\ Len(wire[e]) + n <= Capacity
    BY DEF Send
<1>4. t.body \in Bodies /\ Follows(t, wire[e], rx[e]) /\ Level(t, wire[e], rx[e])
    <2>1. open[e] /\ open[Peer(e)]
        BY DEF Send
    <2>. QED BY <1>3, <2>1 DEF IInv, EndInv
<1>5. /\ wire[e] \o x \in Seq(Unit) /\ Len(wire[e] \o x) = Len(wire[e]) + n
      /\ u \in Stage /\ u.body = t.body
      /\ Follows(u, wire[e] \o x, rx[e])
      /\ u.stage # "idle" => Level(u, wire[e] \o x, rx[e])
    BY <1>1, <1>2, <1>3, <1>4, SendFollows
<1>6. wire' = [wire EXCEPT ![e] = @ \o x] /\ tx' = [tx EXCEPT ![e] = u]
    BY DEF Send
<1>7. Len(t.body) \in Nat /\ t.sent \in Int /\ t.sent >= 0
    BY <1>2, <1>4, SendableLen DEF Stage, Level
<1>8. u.sent \in -MaxBack..Limit(u)
    <2>1. CASE n = Left(t)
        <3>1. u = [stage |-> NextStage(t), sent |-> 0, body |-> t.body]
            BY <1>2, <2>1 DEF Stage
        <3>. QED BY <1>1, <1>7, <3>1 DEF Limit, HeaderSize
    <2>2. CASE n # Left(t)
        <3>1. u = [stage |-> t.stage, sent |-> t.sent + n, body |-> t.body]
            BY <1>2, <2>2 DEF Stage
        <3>2. t.sent + n < (IF t.stage = "header" THEN HeaderSize ELSE Len(t.body))
            BY <1>1, <1>3, <1>7, <2>2 DEF Left, HeaderSize
        <3>. QED BY <1>1, <1>7, <3>1, <3>2 DEF Limit, HeaderSize
    <2>. QED BY <2>1, <2>2
<1> HIDE DEF x, u
<1>9. tx'[e] = u /\ wire'[e] = wire[e] \o x
    BY <1>6 DEF IInv, StreamTypes
<1>10. EndBounded(e)'
    BY <1>3, <1>5, <1>8, <1>9 DEF EndBounded, Limit
<1>11. ASSUME NEW y \in Ends, y # e PROVE EndBounded(y)'
    <2>1. tx'[y] = tx[y] /\ wire'[y] = wire[y]
        BY <1>6, <1>11 DEF IInv, StreamTypes
    <2>. QED BY <2>1, BoundedElsewhere DEF Bounded
<1>. QED BY <1>10, <1>11 DEF Bounded

\* A failing loop is followed to -MaxBack.
LEMMA FailBounded ==
    ASSUME IInv, Bounded, NEW e \in Ends, SendFails(e)
    PROVE  Bounded'
<1> DEFINE t == tx[e]
           u == IF t.stage = "header" /\ t.sent = 0 THEN [t EXCEPT !.stage = "idle"]
                ELSE [t EXCEPT !.sent = IF t.sent = -MaxBack THEN t.sent ELSE t.sent - 1]
<1>1. MaxBack \in Nat /\ t \in Stage /\ Len(t.body) \in Nat
    BY StreamAssumption, SendableLen DEF IInv, StreamTypes, Stage
<1>2. t.sent \in -MaxBack..Limit(t) /\ t.sent \in Int
    BY <1>1 DEF Bounded, EndBounded, Stage
<1>3. u.sent \in -MaxBack..Limit(u)
    <2>1. CASE t.stage = "header" /\ t.sent = 0
        <3>1. u = [stage |-> "idle", sent |-> 0, body |-> t.body]
            BY <1>1, <2>1 DEF Stage
        <3>. QED BY <1>1, <3>1 DEF Limit
    <2>2. CASE ~(t.stage = "header" /\ t.sent = 0)
        <3>1. u.stage = t.stage /\ u.body = t.body
              /\ u.sent = IF t.sent = -MaxBack THEN t.sent ELSE t.sent - 1
            BY <1>1, <2>2 DEF Stage
        <3>2. Limit(u) = Limit(t) /\ Limit(t) \in Int
            BY <1>1, <3>1 DEF Limit, HeaderSize
        <3>. QED BY <1>1, <1>2, <3>1, <3>2
    <2>. QED BY <2>1, <2>2
<1>4. tx' = [tx EXCEPT ![e] = u] /\ wire' = wire
    BY DEF SendFails
<1> HIDE DEF u
<1>5. tx'[e] = u /\ \A y \in Ends : y # e => tx'[y] = tx[y]
    BY <1>4 DEF IInv, StreamTypes
<1>6. EndBounded(e)'
    BY <1>3, <1>4, <1>5 DEF Bounded, EndBounded, Limit
<1>. QED BY <1>4, <1>5, <1>6, BoundedElsewhere DEF Bounded

\* What is received leaves the kernel.
LEMMA ReceiveBounded ==
    ASSUME IInv, Bounded, NEW e \in Ends, NEW n \in 1..Capacity, Receive(e, n)
    PROVE  Bounded'
<1> DEFINE b == SubSeq(wire[e], n + 1, Len(wire[e]))
<1>1. wire[e] \in Seq(Unit) /\ Len(wire[e]) \in Nat /\ n \in Nat \ {0} /\ n <= Len(wire[e])
      /\ Capacity \in Nat
    BY StreamAssumption, LenProperties DEF IInv, StreamTypes, Receive
<1>2. Len(b) <= Len(wire[e]) /\ Len(b) \in Nat
    <2>1. \A i \in (n + 1)..Len(wire[e]) : wire[e][i] \in Unit
        BY <1>1, ElementOfSeq
    <2>2. Len(b) = IF n + 1 <= Len(wire[e]) THEN Len(wire[e]) - (n + 1) + 1 ELSE 0
        BY <1>1, <2>1, SubSeqProperties
    <2>. QED BY <1>1, <2>2
<1>3. wire' = [wire EXCEPT ![e] = b] /\ tx' = tx
    BY DEF Receive
<1> HIDE DEF b
<1>4. wire'[e] = b /\ \A y \in Ends : y # e => wire'[y] = wire[y]
    BY <1>3 DEF IInv, StreamTypes
<1>5. EndBounded(e)'
    BY <1>1, <1>2, <1>3, <1>4 DEF Bounded, EndBounded, Limit
<1>. QED BY <1>3, <1>4, <1>5, BoundedElsewhere DEF Bounded

\* Counters and kernel buffers keep their bounds on every connection.
LEMMA StreamBounded == StreamSpec => []Bounded
<1>1. StreamInit => Bounded
    <2> SUFFICES ASSUME StreamInit, NEW e \in Ends PROVE EndBounded(e)
        BY DEF Bounded
    <2>1. tx[e] = [stage |-> "idle", sent |-> 0, body |-> <<>>] /\ wire[e] = <<>>
        BY DEF StreamInit
    <2>2. Len(<<>>) = 0 /\ MaxBack \in Nat /\ Capacity \in Nat
        BY StreamAssumption
    <2>. QED BY <2>1, <2>2 DEF EndBounded, Limit
<1>2. IInv /\ Bounded /\ [StreamNext]_stream => Bounded'
    <2> SUFFICES ASSUME IInv, Bounded, [StreamNext]_stream PROVE Bounded'
        OBVIOUS
    <2>1. CASE \E e \in Ends, b \in Bodies : Start(e, b) /\ UNCHANGED <<wire, rx, open>>
        <3>1. PICK e \in Ends, b \in Bodies : Start(e, b) /\ UNCHANGED <<wire, rx, open>>
            BY <2>1
        <3> DEFINE u == [stage |-> "header", sent |-> 0, body |-> b]
        <3>2. tx'[e] = u /\ (\A y \in Ends : y # e => tx'[y] = tx[y]) /\ wire' = wire
            BY <3>1 DEF Start, IInv, StreamTypes
        <3>3. 0 \in -MaxBack..Limit(u)
            BY StreamAssumption DEF Limit, HeaderSize
        <3>4. EndBounded(e)'
            BY <3>2, <3>3 DEF Bounded, EndBounded, Limit
        <3>. QED BY <3>2, <3>4, BoundedElsewhere DEF Bounded
    <2>2. CASE \E e \in Ends, n \in 1..Capacity : Send(e, n)
        BY <2>2, SendBounded
    <2>3. CASE \E e \in Ends : SendFails(e)
        BY <2>3, FailBounded
    <2>4. CASE \E e \in Ends, n \in 1..Capacity : Receive(e, n)
        BY <2>4, ReceiveBounded
    <2>5. CASE UNCHANGED <<tx, wire>>
        BY <2>5, BoundedElsewhere DEF Bounded
    <2>. QED BY <2>1, <2>2, <2>3, <2>4, <2>5 DEF StreamNext, stream
<1>. QED BY <1>1, <1>2, StreamInductive, PTL DEF StreamSpec

\* What has come in and what is on its way are the start of the frame being
\* sent (Message_send and Message_recv never lose their place in the stream).
THEOREM StreamInSync == StreamSpec => []InSync
<1>1. IInv => InSync
    <2> SUFFICES ASSUME IInv, NEW e \in Ends, NEW i \in DOMAIN Arrived(e)
                 PROVE  i \in DOMAIN Frame(tx[e].body) /\ Arrived(e)[i] = Frame(tx[e].body)[i]
        BY DEF InSync
    <2>1. rx[e] \o wire[e] \in Seq(Unit)
        BY ConcatProperties DEF IInv, StreamTypes
    <2>2. i \in 1..Len(rx[e] \o wire[e])
        BY <2>1, LenProperties DEF Arrived
    <2>3. i <= FrameLen(tx[e].body) /\ Arrived(e)[i] = Frame(tx[e].body)[i]
        BY <2>2 DEF IInv, EndInv, Follows, Arrived
    <2>4. tx[e].body \in Sendable
        BY DEF IInv, StreamTypes, Stage
    <2>. QED BY <2>1, <2>2, <2>3, <2>4, FrameShape, SendableLen, LenProperties
<1>. QED BY <1>1, StreamInductive, PTL

\* A message that is complete in the reader's buffer is the one that was sent
\* (Message_recv parses what Message_send wrote, whole).
THEOREM StreamFrameIntact == StreamSpec => []FrameIntact
<1>1. IInv => FrameIntact
    <2> SUFFICES ASSUME IInv, NEW e \in Ends, Complete(e) PROVE Data(rx[e]) = tx[e].body
        BY DEF FrameIntact
    <2>1. tx[e] \in Stage /\ wire[e] \in Seq(Unit) /\ rx[e] \in Seq(Unit)
        BY DEF IInv, StreamTypes
    <2>2. Follows(tx[e], wire[e], rx[e])
        BY DEF IInv, EndInv
    <2>3. Len(rx[e]) >= HeaderSize /\ Need(rx[e]) = 0
        BY DEF Complete
    <2>. QED BY <2>1, <2>2, <2>3, CompleteFrame
<1>. QED BY <1>1, StreamInductive, PTL
=============================================================================
