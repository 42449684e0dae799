------------------------------- MODULE Stream -------------------------------
(***************************************************************************)
(* A connection carries frames: four bytes that hold the length of a       *)
(* message, then the message (Message_send, Message_recv).  The kernel     *)
(* takes and gives as many bytes as it likes, at least one; an end may     *)
(* shut the connection down or die between any two calls.  wire[e] and     *)
(* rx[e] are what end e has sent: still in the kernel, and already in the  *)
(* buffer of the other end.  A unit of the body stands for a run of bytes. *)
(* One frame is under way in each direction: who sends waits for an answer.*)
(***************************************************************************)
EXTENDS Integers, Sequences

CONSTANTS Ends,        \* the two ends
          Peer(_),     \* the other end
          Bodies,      \* what may be sent
          Capacity,    \* what the kernel holds, in units
          MaxBack      \* how far a failing body loop is followed below zero

HeaderSize == 4

ASSUME StreamAssumption ==
    /\ \A e \in Ends : Peer(e) \in Ends /\ Peer(e) # e
    /\ \A b \in Bodies : Len(b) \in Nat \ {0} /\ b = [i \in 1..Len(b) |-> b[i]]
    /\ Capacity \in Nat \ {0} /\ MaxBack \in Nat

VARIABLES tx,     \* the sender's loop: where it is, and its counter "sent"
          wire, rx,
          open    \* ends that have not shut down
stream == <<tx, wire, rx, open>>

Frame(body) == [i \in 1..(HeaderSize + Len(body)) |->
                   IF i <= HeaderSize THEN <<"size", Len(body)>> ELSE <<"data", body[i - HeaderSize]>>]

StreamInit ==
    /\ tx = [e \in Ends |-> [stage |-> "idle", sent |-> 0, body |-> <<>>]]
    /\ wire = [e \in Ends |-> <<>>] /\ rx = [e \in Ends |-> <<>>]
    /\ open = [e \in Ends |-> TRUE]

-----------------------------------------------------------------------------
(* Message_send.                                                           *)

Start(e, body) ==
    /\ open[e] /\ tx[e].stage = "idle" /\ wire[e] = <<>> /\ rx[e] = <<>>
    /\ tx' = [tx EXCEPT ![e] = [stage |-> "header", sent |-> 0, body |-> body]]

\* What is left of the part being sent, and where in the frame it starts.
Left(t)   == (IF t.stage = "header" THEN HeaderSize ELSE Len(t.body)) - t.sent
Offset(t) == t.sent + (IF t.stage = "header" THEN 0 ELSE HeaderSize)
NextStage(t) == IF t.stage = "header" THEN "body" ELSE "idle"

Send_restart(e, n) == \* faulty: sending goes on from the start of the part
    LET t == tx[e] IN
    /\ open[e] /\ open[Peer(e)] /\ t.stage # "idle"
    /\ n <= Left(t) /\ Len(wire[e]) + n <= Capacity
    /\ wire' = [wire EXCEPT ![e] = @ \o SubSeq(Frame(t.body), Offset([t EXCEPT !.sent = 0]) + 1,
                                                 Offset([t EXCEPT !.sent = 0]) + n)]
    /\ tx' = [tx EXCEPT ![e] = IF n = Left(t) THEN [t EXCEPT !.stage = NextStage(t), !.sent = 0]
                               ELSE [t EXCEPT !.sent = t.sent + n]]
    /\ UNCHANGED <<rx, open>>
Send_noReset(e, n) == \* faulty: "sent" is not reset between the header and the body
    LET t == tx[e] IN
    /\ open[e] /\ open[Peer(e)] /\ t.stage # "idle"
    /\ n <= Left(t) /\ Len(wire[e]) + n <= Capacity
    /\ wire' = [wire EXCEPT ![e] = @ \o SubSeq(Frame(t.body), Offset(t) + 1, Offset(t) + n)]
    /\ tx' = [tx EXCEPT ![e] = [t EXCEPT !.stage = IF n = Left(t) THEN NextStage(t) ELSE @,
                                        !.sent = t.sent + n]]
    /\ UNCHANGED <<rx, open>>
Send(e, n) == \* send(2) takes n units
    LET t == tx[e] IN
    /\ open[e] /\ open[Peer(e)] /\ t.stage # "idle"
    /\ n <= Left(t) /\ Len(wire[e]) + n <= Capacity
    /\ wire' = [wire EXCEPT ![e] = @ \o SubSeq(Frame(t.body), Offset(t) + 1, Offset(t) + n)]
    /\ tx' = [tx EXCEPT ![e] = IF n = Left(t) THEN [t EXCEPT !.stage = NextStage(t), !.sent = 0]
                               ELSE [t EXCEPT !.sent = t.sent + n]]
    /\ UNCHANGED <<rx, open>>

\* send(2) returns -1, which is added to "sent": the header's loop gives up
\* once that is negative, the body's never does.
SendFails(e) ==
    LET t == tx[e] IN
    /\ open[e] /\ ~open[Peer(e)] /\ t.stage # "idle"
    /\ tx' = [tx EXCEPT ![e] =
                IF t.stage = "header" /\ t.sent = 0 THEN [t EXCEPT !.stage = "idle"]
                ELSE [t EXCEPT !.sent = IF t.sent = -MaxBack THEN t.sent ELSE t.sent - 1]]
    /\ UNCHANGED <<wire, rx, open>>

-----------------------------------------------------------------------------
(* Message_recv, at the other end.                                         *)

\* What recv(2) is asked for, and when the frame is complete.
Need_short(got) == \* faulty: the four bytes of the size are counted as message
    IF Len(got) < HeaderSize THEN HeaderSize - Len(got) ELSE got[HeaderSize][2] - Len(got)
Need(got) == IF Len(got) < HeaderSize THEN HeaderSize - Len(got)
             ELSE HeaderSize + got[HeaderSize][2] - Len(got)
Complete(e) == Len(rx[e]) >= HeaderSize /\ Need(rx[e]) = 0
Data(got) == [i \in 1..(Len(got) - HeaderSize) |-> got[i + HeaderSize][2]]

Receive(e, n) ==
    /\ open[Peer(e)] /\ n <= Len(wire[e]) /\ n <= Need(rx[e])
    /\ rx' = [rx EXCEPT ![e] = @ \o SubSeq(wire[e], 1, n)]
    /\ wire' = [wire EXCEPT ![e] = SubSeq(@, n + 1, Len(@))]
    /\ UNCHANGED <<tx, open>>

\* recv(2) returns 0: NULL.
Lost_between(e) == \* faulty: the end of the connection is noticed between messages only
    /\ open[Peer(e)] /\ ~open[e] /\ wire[e] = <<>> /\ rx[e] = <<>>
    /\ rx' = [rx EXCEPT ![e] = <<>>]
Lost(e) ==
    /\ open[Peer(e)] /\ ~open[e] /\ wire[e] = <<>> /\ ~Complete(e)
    /\ rx' = [rx EXCEPT ![e] = <<>>]

\* The complete message is parsed; a reader that does not know it exits.
Take(e) == /\ open[Peer(e)] /\ Complete(e)
           /\ rx' = [rx EXCEPT ![e] = <<>>]

\* Linda_disconnect, Linda_server_disconnect, or the end of the process.
Close(e) == open[e] /\ open' = [open EXCEPT ![e] = FALSE]

-----------------------------------------------------------------------------
StreamNext ==
    \/ \E e \in Ends, b \in Bodies : Start(e, b) /\ UNCHANGED <<wire, rx, open>>
    \/ \E e \in Ends, n \in 1..Capacity : Send(e, n)
    \/ \E e \in Ends : SendFails(e)
    \/ \E e \in Ends, n \in 1..Capacity : Receive(e, n)
    \/ \E e \in Ends : Lost(e) /\ UNCHANGED <<tx, wire, open>>
    \/ \E e \in Ends : Take(e) /\ (UNCHANGED open \/ Close(Peer(e))) /\ UNCHANGED <<tx, wire>>
    \/ \E e \in Ends : Close(e) /\ UNCHANGED <<tx, wire, rx>>

StreamSpec == StreamInit /\ [][StreamNext]_stream

\* What has come in and what is on its way are, together, the start of the
\* frame being sent, so that a size is never read from the middle of a message
\* (Message_recv trusts the four bytes it reads first).
Arrived(e) == rx[e] \o wire[e]
InSync == \A e \in Ends : \A i \in DOMAIN Arrived(e) :
              i \in DOMAIN Frame(tx[e].body) /\ Arrived(e)[i] = Frame(tx[e].body)[i]

\* What is parsed is what was sent, whole (Message_send, Message_recv).
FrameIntact == \A e \in Ends : Complete(e) => Data(rx[e]) = tx[e].body
=============================================================================
