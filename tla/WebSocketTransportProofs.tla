------------------------- MODULE WebSocketTransportProofs -------------------------
(***************************************************************************)
(* Proofs about one exchange over a WebSocket, for streams of any length.  *)
(***************************************************************************)
EXTENDS WebSocketTransport, SequenceTheorems, TLAPS

Frames == Seq(FrameTypes)

(* Sequences: to move the head of one to the end of another, and to read   *)
(* a prefix off a concatenation.                                           *)

LEMMA MoveHead ==
  ASSUME NEW S, NEW r \in Seq(S), NEW q \in Seq(S), q # <<>>
  PROVE  /\ Append(r, Head(q)) \in Seq(S) /\ Tail(q) \in Seq(S)
         /\ Append(r, Head(q)) \o Tail(q) = r \o q
<1>1. Head(q) \in S /\ Tail(q) \in Seq(S) /\ Len(Tail(q)) = Len(q) - 1
      /\ \A i \in 1 .. Len(Tail(q)) : Tail(q)[i] = q[i + 1]
  BY HeadTailProperties
<1>2. Head(q) = q[1] /\ Len(q) \in Nat \ {0} /\ Len(r) \in Nat
  BY EmptySeq, LenProperties
<1> DEFINE a == Append(r, Head(q))
<1>3. /\ a \in Seq(S) /\ Len(a) = Len(r) + 1
      /\ \A i \in 1 .. Len(r) : a[i] = r[i]
      /\ a[Len(r) + 1] = Head(q)
  BY <1>1, AppendProperties
<1> HIDE DEF a
<1>4. /\ a \o Tail(q) \in Seq(S) /\ Len(a \o Tail(q)) = Len(a) + Len(Tail(q))
      /\ \A i \in 1 .. Len(a) + Len(Tail(q)) :
            (a \o Tail(q))[i] = IF i <= Len(a) THEN a[i] ELSE Tail(q)[i - Len(a)]
  BY <1>1, <1>3, ConcatProperties
<1>5. /\ r \o q \in Seq(S) /\ Len(r \o q) = Len(r) + Len(q)
      /\ \A i \in 1 .. Len(r) + Len(q) :
            (r \o q)[i] = IF i <= Len(r) THEN r[i] ELSE q[i - Len(r)]
  BY ConcatProperties
<1>6. Len(a \o Tail(q)) = Len(r \o q)
  BY <1>1, <1>2, <1>3, <1>4, <1>5
<1>7. \A i \in 1 .. Len(a \o Tail(q)) : (a \o Tail(q))[i] = (r \o q)[i]
  <2> TAKE i \in 1 .. Len(a \o Tail(q))
  <2>1. i \in 1 .. Len(a) + Len(Tail(q)) /\ i \in 1 .. Len(r) + Len(q)
    BY <1>4, <1>5, <1>6
  <2>2. CASE i <= Len(r)
    BY <1>2, <1>3, <1>4, <1>5, <2>1, <2>2
  <2>3. CASE i = Len(r) + 1
    <3>1. (a \o Tail(q))[i] = Head(q)
      BY <1>2, <1>3, <1>4, <2>1, <2>3
    <3>2. (r \o q)[i] = q[1]
      BY <1>2, <1>5, <2>1, <2>3
    <3> QED BY <1>2, <3>1, <3>2
  <2>4. CASE i > Len(r) + 1
    <3>1. i - Len(a) \in 1 .. Len(Tail(q)) /\ i - Len(a) + 1 = i - Len(r)
      BY <1>1, <1>2, <1>3, <2>1, <2>4
    <3>2. (a \o Tail(q))[i] = Tail(q)[i - Len(a)]
      BY <1>2, <1>3, <1>4, <2>1, <2>4
    <3>3. (r \o q)[i] = q[i - Len(r)]
      BY <1>2, <1>5, <2>1, <2>4
    <3> QED BY <1>1, <3>1, <3>2, <3>3
  <2> QED BY <1>2, <2>1, <2>2, <2>3, <2>4
<1> QED BY <1>1, <1>3, <1>4, <1>5, <1>6, <1>7, SeqEqual DEF a

LEMMA PrefixOfConcat ==
  ASSUME NEW S, NEW s \in Seq(S), NEW t \in Seq(S)
  PROVE  IsPrefix(s, s \o t)
<1>1. Len(s) \in Nat /\ Len(t) \in Nat /\ Len(s \o t) = Len(s) + Len(t)
  BY LenProperties, ConcatProperties
<1>2. SubSeq(s, 1, Len(s)) = SubSeq(s \o t, 1, Len(s))
  <2>1. CASE Len(s) = 0
    BY <2>1, SubSeqEmpty
  <2>2. CASE Len(s) # 0
    BY <1>1, <2>2, SubSeqOfConcat1
  <2> QED BY <2>1, <2>2
<1> QED BY <1>1, <1>2 DEF IsPrefix

(* What is used of sequences, for those of frames. *)

LEMMA EmptyFrames ==
  /\ <<>> \in Frames /\ Len(<<>>) = 0
  /\ \A a \in Frames : Len(a) \in Nat /\ a \o <<>> = a /\ <<>> \o a = a
<1>1. <<>> \in Frames /\ Len(<<>>) = 0
  BY EmptySeq DEF Frames
<1>2. \A a \in Frames : Len(a) \in Nat /\ a \o <<>> = a /\ <<>> \o a = a
  BY LenProperties, ConcatEmptySeq DEF Frames
<1> QED BY <1>1, <1>2

LEMMA ConcatFrames == \A a, b \in Frames : a \o b \in Frames
BY ConcatProperties DEF Frames

LEMMA AssocFrames == \A a, b, c \in Frames : (a \o b) \o c = a \o (b \o c)
<1> TAKE a, b, c \in Frames
<1>1. a \in Seq(FrameTypes) /\ b \in Seq(FrameTypes) /\ c \in Seq(FrameTypes)
  BY DEF Frames
<1> QED BY <1>1, ConcatAssociative

LEMMA MoveFrames ==
  ASSUME NEW a \in Frames, NEW b \in Frames, b # <<>>
  PROVE  /\ Append(a, Head(b)) \in Frames /\ Tail(b) \in Frames
         /\ Append(a, Head(b)) \o Tail(b) = a \o b
BY MoveHead, Zenon DEF Frames

LEMMA AppendFrames ==
  ASSUME NEW a \in Frames, NEW t \in FrameTypes
  PROVE  /\ Append(a, t) \in Frames /\ <<t>> \in Frames
         /\ Append(a, t) = a \o <<t>> /\ Len(Append(a, t)) = Len(a) + 1
<1>1. <<t>> \in Frames
  BY DEF Frames
<1>2. Append(a, t) = a \o <<t>>
  BY AppendIsConcat, Zenon DEF Frames
<1>3. Append(a, t) \in Frames /\ Len(Append(a, t)) = Len(a) + 1
  BY AppendProperties, Zenon DEF Frames
<1> QED BY <1>1, <1>2, <1>3

LEMMA BoundedFrames ==
  ASSUME NEW s \in Frames, Len(s) <= MaxFrames + 1
  PROVE  s \in BoundedSeq(FrameTypes, MaxFrames + 1)
<1>1. Len(s) \in 0 .. (MaxFrames + 1) /\ s \in [1 .. Len(s) -> FrameTypes]
  BY LenProperties, WebSocketAssumption DEF Frames
<1> QED BY <1>1 DEF BoundedSeq, SeqOf

-----------------------------------------------------------------------------
(* The inductive invariant *)

Types ==
  /\ kind \in {"send", "stream"}
  /\ pc \in {"idle", "connecting", "awaiting", "waiting", "yielded"} \cup Settled
  /\ timer \in BOOLEAN /\ done \in BOOLEAN /\ woken \in BOOLEAN
  /\ error \in {"none", "timeout", "socket"}
  /\ conn \in {"none", "open", "ending", "down"}
  /\ serving \in {"none", "handling", "streaming", "over"}

FramesTyped ==
  queue \in Frames /\ wire \in Frames /\ sent \in Frames /\ received \in Frames

(* The server sends at most MaxFrames events, or one response. *)
SentBound ==
  /\ Len(sent) <= MaxFrames + 1
  /\ serving \in {"none", "handling"} => sent = <<>>
  /\ serving = "streaming" => Len(sent) <= MaxFrames

(* What is where is what was sent, but for an end that a broken connection *)
(* lost; while the connection is open nothing is lost.                     *)
Underway == (received \o queue) \o wire

Flow ==
  /\ \E lost \in Frames : Underway \o lost = sent
  /\ conn = "open" => Underway = sent

(* Before the connection opens nothing has happened. *)
Quiet ==
  pc \in {"idle", "connecting"} =>
    /\ queue = <<>> /\ received = <<>> /\ wire = <<>>
    /\ conn = "none" /\ serving = "none" /\ ~done /\ error = "none"

KindFits ==
  /\ kind = "send" => queue = <<>> /\ pc \notin {"waiting", "yielded"}
  /\ kind = "stream" => pc # "awaiting"

IInv ==
  /\ Types /\ FramesTyped /\ SentBound /\ Flow /\ Quiet /\ KindFits
  /\ NothingLeftBehind /\ NoLostWakeup

LEMMA InitIInv == Init => IInv
<1> SUFFICES ASSUME Init PROVE IInv
  OBVIOUS
<1>1. <<>> \in Frames /\ Len(<<>>) = 0 /\ <<>> \o <<>> = <<>>
  BY EmptySeq, ConcatEmptySeq DEF Frames
<1>2. Types /\ FramesTyped
  BY <1>1 DEF Init, Types, FramesTyped
<1>3. SentBound
  BY <1>1, WebSocketAssumption DEF Init, SentBound
<1>4. Flow
  BY <1>1 DEF Init, Flow, Underway
<1>5. Quiet /\ KindFits /\ NothingLeftBehind /\ NoLostWakeup
  BY DEF Init, Quiet, KindFits, NothingLeftBehind, NoLostWakeup
<1> QED BY <1>2, <1>3, <1>4, <1>5 DEF IInv

(* The order of what is under way: the ways in which a step may change it. *)

(* Nothing moves, and the connection does not open. *)
LEMMA FlowRests ==
  ASSUME Flow, UNCHANGED <<received, queue, wire, sent>>, conn' = "open" => conn = "open"
  PROVE  Flow'
BY DEF Flow, Underway

(* A frame moves on: off the wire into the queue, or out of the queue. *)
LEMMA FlowMoves ==
  ASSUME Flow, FramesTyped, conn' = conn, sent' = sent,
         \/ /\ wire # <<>> /\ queue' = Append(queue, Head(wire)) /\ wire' = Tail(wire)
            /\ received' = received
         \/ /\ queue # <<>> /\ received' = Append(received, Head(queue))
            /\ queue' = Tail(queue) /\ wire' = wire
  PROVE  Flow' /\ FramesTyped'
<1> USE DEF FramesTyped
<1>1. CASE wire # <<>> /\ queue' = Append(queue, Head(wire)) /\ wire' = Tail(wire)
           /\ received' = received
  <2>1. queue' \in Frames /\ wire' \in Frames /\ queue' \o wire' = queue \o wire
    BY <1>1, MoveFrames, Zenon
  <2>2. (received \o queue') \o wire' = received \o (queue' \o wire')
    BY <2>1, AssocFrames, Zenon
  <2>3. (received \o queue) \o wire = received \o (queue \o wire)
    BY AssocFrames, Zenon
  <2>4. Underway' = Underway
    BY <1>1, <2>1, <2>2, <2>3, Zenon DEF Underway
  <2> QED BY <1>1, <2>1, <2>4, Zenon DEF Flow
<1>2. CASE queue # <<>> /\ received' = Append(received, Head(queue))
           /\ queue' = Tail(queue) /\ wire' = wire
  <2>1. received' \in Frames /\ queue' \in Frames /\ received' \o queue' = received \o queue
    BY <1>2, MoveFrames, Zenon
  <2>2. Underway' = Underway
    BY <1>2, <2>1, Zenon DEF Underway
  <2> QED BY <1>2, <2>1, <2>2, Zenon DEF Flow
<1> QED BY <1>1, <1>2

(* The connection goes down, and the frames under way with it; send() has  *)
(* taken the first of them if it was there.                                *)
LEMMA FlowBreaks ==
  ASSUME Flow, FramesTyped, conn' = "down", sent' = sent, queue' = queue, wire' = <<>>,
         \/ received' = received
         \/ queue = <<>> /\ wire # <<>> /\ received' = Append(received, Head(wire))
  PROVE  Flow' /\ FramesTyped'
<1> USE DEF FramesTyped
<1>1. PICK lost \in Frames : Underway \o lost = sent
  BY DEF Flow
<1>2. <<>> \in Frames /\ wire \o lost \in Frames
  BY EmptyFrames, ConcatFrames
<1>3. CASE received' = received
  <2>1. received \o queue \in Frames
    BY ConcatFrames
  <2>2. Underway' = received \o queue
    BY <1>3, <2>1, EmptyFrames, Zenon DEF Underway
  <2>3. ((received \o queue) \o wire) \o lost = (received \o queue) \o (wire \o lost)
    BY <2>1, AssocFrames, Zenon
  <2>4. Underway' \o (wire \o lost) = sent
    BY <1>1, <2>2, <2>3, Zenon DEF Underway
  <2>5. \E left \in Frames : Underway' \o left = sent'
    BY <1>2, <2>4, Zenon
  <2> QED BY <1>2, <1>3, <2>5, Zenon DEF Flow
<1>4. CASE queue = <<>> /\ wire # <<>> /\ received' = Append(received, Head(wire))
  <2>1. received' \in Frames /\ Tail(wire) \in Frames /\ received' \o Tail(wire) = received \o wire
    BY <1>4, MoveFrames, Zenon
  <2>2. Underway = received \o wire
    BY <1>4, EmptyFrames, Zenon DEF Underway
  <2>3. Underway' = received'
    BY <1>4, <2>1, EmptyFrames, Zenon DEF Underway
  <2> DEFINE rest == Tail(wire)
  <2> HIDE DEF rest
  <2>4. rest \in Frames /\ received' \o rest = received \o wire
    BY <2>1 DEF rest
  <2>5. (received' \o rest) \o lost = received' \o (rest \o lost)
    <3> DEFINE got == received'
    <3>1. got \in Frames /\ rest \in Frames /\ lost \in Frames
      BY <1>1, <2>1, <2>4
    <3> HIDE DEF got
    <3>2. (got \o rest) \o lost = got \o (rest \o lost)
      BY ONLY <3>1, AssocFrames
    <3> QED BY <3>2 DEF got
  <2>6. Underway' \o (rest \o lost) = sent /\ rest \o lost \in Frames
    BY <1>1, <2>2, <2>3, <2>4, <2>5, ConcatFrames, Zenon
  <2>7. \E left \in Frames : Underway' \o left = sent'
    BY <2>6, Zenon
  <2> QED BY <1>2, <1>4, <2>1, <2>7, Zenon DEF Flow
<1> QED BY <1>3, <1>4

(* A frame is sent: on an open connection only, at the end of everything. *)
LEMMA FlowGrows ==
  ASSUME Flow, FramesTyped, NEW type \in FrameTypes, Send(type),
         UNCHANGED <<received, queue, conn>>
  PROVE  /\ Flow' /\ FramesTyped'
         /\ Len(sent') <= Len(sent) + 1
<1> USE DEF FramesTyped
<1>0. Len(sent) \in Nat
  BY EmptyFrames
<1>1. CASE conn = "open"
  <2>1. wire' = Append(wire, type) /\ sent' = Append(sent, type)
    BY <1>1 DEF Send
  <2>2. /\ wire' \in Frames /\ sent' \in Frames /\ <<type>> \in Frames
        /\ wire' = wire \o <<type>> /\ sent' = sent \o <<type>> /\ Len(sent') = Len(sent) + 1
    BY <2>1, AppendFrames, Zenon
  <2>3. received \o queue \in Frames
    BY ConcatFrames
  <2> DEFINE last == <<type>>
  <2> HIDE DEF last
  <2>4. last \in Frames /\ wire' = wire \o last /\ sent' = sent \o last
    BY <2>2 DEF last
  <2>5. Underway' = sent'
    <3>1. ((received \o queue) \o wire) \o last = (received \o queue) \o (wire \o last)
      <4> DEFINE front == received \o queue
      <4>1. front \in Frames /\ wire \in Frames /\ last \in Frames
        BY <2>3, <2>4
      <4> HIDE DEF front
      <4>2. (front \o wire) \o last = front \o (wire \o last)
        BY <4>1, AssocFrames
      <4> QED BY <4>2 DEF front
    <3> QED BY <1>1, <2>4, <3>1, Zenon DEF Flow, Underway
  <2>6. sent' \o <<>> = sent' /\ <<>> \in Frames
    BY <2>2, EmptyFrames, Zenon
  <2>7. Flow'
    BY <2>5, <2>6, Zenon DEF Flow
  <2>8. Len(sent') <= Len(sent) + 1
    BY <1>0, <2>2
  <2> QED BY <2>2, <2>7, <2>8
<1>2. CASE conn # "open"
  <2>1. UNCHANGED <<wire, sent>>
    BY <1>2 DEF Send
  <2> QED BY <1>0, <2>1, FlowRests
<1> QED BY <1>1, <1>2

-----------------------------------------------------------------------------
(* Every step keeps the invariant. *)

(* What the invariant says besides the frames themselves. *)
Control ==
  Types /\ SentBound /\ Quiet /\ KindFits /\ NothingLeftBehind /\ NoLostWakeup

LEMMA StepControl == IInv /\ Next /\ FramesTyped' => Control'
<1> SUFFICES ASSUME IInv, Next, FramesTyped' PROVE Control'
  OBVIOUS
<1> USE DEF IInv, Control, Types, Quiet, KindFits, NothingLeftBehind, NoLostWakeup, Settled,
            Settle, Wake
<1>0. /\ Len(sent) \in Nat /\ MaxFrames \in Nat /\ Len(<<>>) = 0
  BY EmptyFrames, WebSocketAssumption DEF FramesTyped
<1>1. CASE Connect \/ ConnectFails \/ ServerCloses
  BY <1>1 DEF Connect, ConnectFails, ServerCloses, serverVars, SentBound
<1>2. CASE Opened
  <2>1. SentBound'
    BY <1>0, <1>2 DEF Opened, SentBound
  <2> QED BY <1>2, <2>1 DEF Opened
<1>3. CASE ConsumerLeaves
  BY <1>3 DEF ConsumerLeaves, serverVars, SentBound
<1>4. CASE Resume
  <2>1. SentBound'
    BY <1>4 DEF Resume, Loop, serverVars, SentBound
  <2>2. Types'
    BY <1>4 DEF Resume, Loop, serverVars
  <2>3. Quiet' /\ KindFits'
    BY <1>4 DEF Resume, Loop, serverVars
  <2>4. NothingLeftBehind' /\ NoLostWakeup'
    BY <1>4 DEF Resume, Loop, serverVars
  <2> QED BY <2>1, <2>2, <2>3, <2>4
<1>5. CASE StreamFrame
  BY <1>5 DEF StreamFrame, serverVars, SentBound
<1>6. CASE FirstFrame
  BY <1>6 DEF FirstFrame, serverVars, SentBound
<1>7. CASE TimerFires
  <2>1. SentBound'
    BY <1>7 DEF TimerFires, Turn, serverVars, SentBound
  <2>2. Types'
    BY <1>7 DEF TimerFires, Turn, serverVars
  <2>3. Quiet' /\ KindFits'
    BY <1>7 DEF TimerFires, Turn, serverVars
  <2>4. NothingLeftBehind' /\ NoLostWakeup'
    BY <1>7 DEF TimerFires, Turn, serverVars
  <2> QED BY <2>1, <2>2, <2>3, <2>4
<1>8. CASE Closed
  <2>1. SentBound'
    BY <1>8 DEF Closed, serverVars, SentBound
  <2>2. Types'
    BY <1>8 DEF Closed, serverVars
  <2>3. Quiet' /\ KindFits'
    BY <1>8 DEF Closed, serverVars
  <2>4. NothingLeftBehind' /\ NoLostWakeup'
    BY <1>8 DEF Closed, serverVars
  <2> QED BY <2>1, <2>2, <2>3, <2>4
<1>9. ASSUME NEW e \in {"none", "socket"}, Breaks(e) PROVE Control'
  <2>1. SentBound'
    BY <1>9 DEF Breaks, serverVars, SentBound
  <2>2. Types'
    BY <1>9 DEF Breaks, serverVars
  <2>3. Quiet' /\ KindFits'
    BY <1>9 DEF Breaks, serverVars
  <2>4. NothingLeftBehind' /\ NoLostWakeup'
    BY <1>9 DEF Breaks, serverVars
  <2> QED BY <2>1, <2>2, <2>3, <2>4
<1>10. ASSUME NEW type \in FrameTypes, Yield(type) PROVE Control'
  <2>1. SentBound'
    <3>1. serving = "streaming" /\ serving' = serving /\ Len(sent) < MaxFrames /\ Send(type)
          /\ UNCHANGED <<received, queue, conn>>
      BY <1>10 DEF Yield
    <3>2. Len(sent') <= Len(sent) + 1 /\ Len(sent') \in Nat
      BY <1>10, <3>1, FlowGrows, EmptyFrames DEF FramesTyped
    <3> QED BY <1>0, <3>1, <3>2 DEF SentBound
  <2> QED BY <1>10, <2>1 DEF Yield
<1>11. CASE StreamOver \/ HandlerSilent
  BY <1>0, <1>11 DEF StreamOver, HandlerSilent, SentBound
<1>12. CASE HandlerReturns
  <2>1. SentBound'
    <3>1. serving = "handling" /\ serving' = "over" /\ sent = <<>> /\ Send("response")
          /\ UNCHANGED <<received, queue, conn>>
      BY <1>12 DEF HandlerReturns, SentBound
    <3>2. Len(sent') <= Len(sent) + 1 /\ Len(sent') \in Nat
      BY <3>1, FlowGrows, EmptyFrames DEF FramesTyped, FrameTypes
    <3> QED BY <1>0, <3>1, <3>2 DEF SentBound
  <2> QED BY <1>12, <2>1 DEF HandlerReturns
<1> QED BY <1>1, <1>2, <1>3, <1>4, <1>5, <1>6, <1>7, <1>8, <1>9, <1>10, <1>11, <1>12
        DEF Next, ClientStep

LEMMA StepFlow == IInv /\ Next => Flow' /\ FramesTyped'
<1> SUFFICES ASSUME IInv, Next PROVE Flow' /\ FramesTyped'
  OBVIOUS
<1> USE DEF IInv
<1>1. CASE UNCHANGED <<received, queue, wire, sent>> /\ (conn' = "open" => conn = "open")
  <2>1. Flow'
    BY <1>1, FlowRests
  <2> QED BY <1>1, <2>1 DEF FramesTyped
<1>2. CASE Connect \/ ConnectFails \/ ServerCloses \/ Closed \/ StreamOver \/ HandlerSilent
  BY <1>1, <1>2 DEF Connect, ConnectFails, ServerCloses, Closed, StreamOver, HandlerSilent,
                    serverVars
<1>3. CASE Opened
  <2>1. UNCHANGED <<received, queue, wire, sent>>
    BY <1>3 DEF Opened
  <2>2. received = <<>> /\ queue = <<>> /\ wire = <<>> /\ sent = <<>>
    BY <1>3 DEF Opened, Quiet, SentBound
  <2>3. <<>> \in Frames /\ <<>> \o <<>> = <<>>
    BY EmptyFrames
  <2>4. Underway' = sent' /\ Underway' \o <<>> = sent'
    BY <2>1, <2>2, <2>3 DEF Underway
  <2>5. Flow'
    BY <2>3, <2>4, Zenon DEF Flow
  <2> QED BY <2>1, <2>5 DEF FramesTyped
<1>4. CASE ConsumerLeaves
  BY <1>4, FlowBreaks DEF ConsumerLeaves, Settle, serverVars
<1>5. CASE Resume
  <2>1. sent' = sent
    BY <1>5 DEF Resume, serverVars
  <2>2. \/ /\ queue # <<>> /\ received' = Append(received, Head(queue))
           /\ queue' = Tail(queue) /\ wire' = wire /\ conn' = conn
        \/ UNCHANGED <<queue, received>> /\ conn' = "down" /\ wire' = <<>>
        \/ UNCHANGED <<queue, received, wire, conn>>
    BY <1>5 DEF Resume, Loop, Settle
  <2> QED BY <1>1, <2>1, <2>2, FlowMoves, FlowBreaks
<1>6. CASE StreamFrame
  BY <1>6, FlowMoves DEF StreamFrame, serverVars
<1>7. CASE FirstFrame
  <2>1. queue = <<>>
    BY <1>7 DEF FirstFrame, KindFits, Types
  <2> QED BY <1>7, <2>1, FlowBreaks DEF FirstFrame, Settle, serverVars
<1>8. CASE TimerFires
  <2>1. UNCHANGED <<received, queue, sent>>
        /\ ((conn' = "down" /\ wire' = <<>>) \/ UNCHANGED <<conn, wire>>)
    BY <1>8 DEF TimerFires, Settle, serverVars
  <2> QED BY <1>1, <2>1, FlowBreaks
<1>9. ASSUME NEW e \in {"none", "socket"}, Breaks(e) PROVE Flow' /\ FramesTyped'
  BY <1>9, FlowBreaks DEF Breaks, serverVars
<1>10. ASSUME NEW type \in FrameTypes, Yield(type) PROVE Flow' /\ FramesTyped'
  BY <1>10, FlowGrows DEF Yield
<1>11. CASE HandlerReturns
  BY <1>11, FlowGrows DEF HandlerReturns, FrameTypes
<1> QED BY <1>2, <1>3, <1>4, <1>5, <1>6, <1>7, <1>8, <1>9, <1>10, <1>11 DEF Next, ClientStep

LEMMA StepIInv == IInv /\ [Next]_vars => IInv'
<1> SUFFICES ASSUME IInv, [Next]_vars PROVE IInv'
  OBVIOUS
<1>1. CASE Next
  BY <1>1, StepFlow, StepControl DEF IInv, Control
<1>2. CASE UNCHANGED vars
  <2> USE <1>2 DEF IInv, vars
  <2>1. Types' /\ FramesTyped' /\ SentBound'
    BY DEF Types, FramesTyped, SentBound
  <2>2. Flow'
    BY FlowRests
  <2>3. Quiet' /\ KindFits' /\ NothingLeftBehind' /\ NoLostWakeup'
    BY DEF Quiet, KindFits, NothingLeftBehind, NoLostWakeup
  <2> QED BY <2>1, <2>2, <2>3
<1> QED BY <1>1, <1>2

-----------------------------------------------------------------------------
(* The theorems *)

(* The invariant above holds, for streams of any length. *)
THEOREM Invariance == Spec => []IInv
<1> QED BY InitIInv, StepIInv, PTL DEF Spec

(* No more frames are anywhere than were sent, and the server sends at     *)
(* most MaxFrames events or one response.                                  *)
LEMMA FramesBounded ==
  ASSUME IInv
  PROVE  {queue, wire, sent, received} \subseteq BoundedSeq(FrameTypes, MaxFrames + 1)
<1>1. PICK lost \in Frames : Underway \o lost = sent
  BY DEF IInv, Flow
<1>2. queue \in Frames /\ wire \in Frames /\ sent \in Frames /\ received \in Frames
  BY DEF IInv, FramesTyped
<1> DEFINE front == received \o queue
<1>3. front \in Frames /\ Len(front) = Len(received) + Len(queue)
  BY <1>2, ConcatProperties DEF Frames
<1> HIDE DEF front
<1> DEFINE all == front \o wire
<1>4. all \in Frames /\ Len(all) = Len(front) + Len(wire)
  BY <1>2, <1>3, ConcatProperties DEF Frames
<1>5. all \o lost = sent
  BY <1>1, Zenon DEF front, Underway
<1> HIDE DEF all
<1>6. Len(all \o lost) = Len(all) + Len(lost)
  BY <1>1, <1>4, ConcatProperties DEF Frames
<1>7. /\ Len(received) \in Nat /\ Len(queue) \in Nat /\ Len(wire) \in Nat /\ Len(lost) \in Nat
      /\ Len(sent) \in Nat /\ Len(front) \in Nat
  BY <1>1, <1>2, <1>3, EmptyFrames
<1>8. Len(sent) <= MaxFrames + 1 /\ MaxFrames \in Nat
  BY WebSocketAssumption DEF IInv, SentBound
<1>9. Len(queue) <= MaxFrames + 1 /\ Len(wire) <= MaxFrames + 1 /\ Len(received) <= MaxFrames + 1
  BY <1>3, <1>4, <1>5, <1>6, <1>7, <1>8
<1> QED BY <1>2, <1>8, <1>9, BoundedFrames

(* Every variable keeps its type: queue, wire and consumer hold no more    *)
(* frames than the server's handler sent.                                  *)
THEOREM TypeCorrect == Spec => []TypeOK
<1>1. IInv => TypeOK
  BY FramesBounded DEF IInv, Types, TypeOK
<1> QED BY <1>1, Invariance, PTL

(* The consumer gets the frames in the order they were sent, none twice    *)
(* and none skipped, whatever queue, wire and loop do in between.          *)
THEOREM InOrderHolds == Spec => []InOrder
<1>1. IInv => InOrder
  <2> SUFFICES ASSUME IInv PROVE InOrder
    OBVIOUS
  <2>1. PICK lost \in Frames : Underway \o lost = sent
    BY DEF IInv, Flow
  <2>2. Underway \in Frames
    BY ConcatFrames DEF IInv, FramesTyped, Underway
  <2>3. IsPrefix(Underway, Underway \o lost)
    BY <2>1, <2>2, PrefixOfConcat DEF Frames
  <2> QED BY <2>1, <2>3 DEF InOrder, Underway
<1> QED BY <1>1, Invariance, PTL

(* A stream that ends, with an error or without one, has been consumed to  *)
(* the last frame that reached the client.                                 *)
THEOREM NothingLeftBehindHolds == Spec => []NothingLeftBehind
<1>1. IInv => NothingLeftBehind
  BY DEF IInv
<1> QED BY <1>1, Invariance, PTL

(* The loop never sleeps while there is something for it to do: every      *)
(* callback that fills the queue or ends the stream wakes it.              *)
THEOREM NoLostWakeupHolds == Spec => []NoLostWakeup
<1>1. IInv => NoLostWakeup
  BY DEF IInv
<1> QED BY <1>1, Invariance, PTL

-----------------------------------------------------------------------------
(* What Settles rests on: somebody will wake a client that waits.          *)

(* A waiting send() has its timer running, and a waiting sendStream() has  *)
(* its timer running or its loop woken: silence of the server ends a call. *)
WaitsAreTimed ==
  /\ pc = "awaiting" => timer
  /\ pc = "waiting" => timer \/ woken

(* The callbacks that stop the timer of a stream set `done`. *)
TimedInv ==
  /\ pc = "awaiting" => timer
  /\ pc \in {"waiting", "yielded"} => timer \/ done

LEMMA StepTimed == IInv /\ TimedInv /\ [Next]_vars => TimedInv'
<1> SUFFICES ASSUME IInv, TimedInv, [Next]_vars PROVE TimedInv'
  OBVIOUS
<1> USE DEF TimedInv
<1>0. timer \in BOOLEAN /\ done \in BOOLEAN
  BY DEF IInv, Types
<1>1. CASE Connect \/ ConnectFails \/ Opened
  BY <1>1 DEF Connect, ConnectFails, Opened
<1>2. CASE ConsumerLeaves \/ FirstFrame
  BY <1>2 DEF ConsumerLeaves, FirstFrame, Settle
<1>3. CASE Resume
  BY <1>0, <1>3 DEF Resume, Loop, Settle
<1>4. CASE StreamFrame
  BY <1>4 DEF StreamFrame
<1>5. CASE TimerFires
  BY <1>5 DEF TimerFires, Settle, IInv, KindFits, Types
<1>6. CASE Closed
  BY <1>0, <1>6 DEF Closed
<1>7. ASSUME NEW e \in {"none", "socket"}, Breaks(e) PROVE TimedInv'
  BY <1>0, <1>7 DEF Breaks
<1>8. ASSUME NEW type \in FrameTypes, Yield(type) PROVE TimedInv'
  BY <1>8 DEF Yield
<1>9. CASE StreamOver \/ HandlerReturns \/ HandlerSilent \/ ServerCloses
  BY <1>9 DEF StreamOver, HandlerReturns, HandlerSilent, ServerCloses
<1>10. CASE UNCHANGED vars
  BY <1>10 DEF vars
<1> QED BY <1>1, <1>2, <1>3, <1>4, <1>5, <1>6, <1>7, <1>8, <1>9, <1>10 DEF Next, ClientStep

(* A waiting send() has its timer running, and a waiting sendStream() has  *)
(* its timer running or its loop woken: silence of the server ends a call. *)
THEOREM WaitsAreTimedHolds == Spec => []WaitsAreTimed
<1>1. Init => TimedInv
  BY DEF Init, TimedInv
<1>2. IInv /\ TimedInv => WaitsAreTimed
  BY DEF IInv, TimedInv, NoLostWakeup, WaitsAreTimed
<1> QED BY <1>1, <1>2, InitIInv, StepIInv, StepTimed, PTL DEF Spec
===================================================================================
