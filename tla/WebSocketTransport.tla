--------------------------- MODULE WebSocketTransport ---------------------------
(***************************************************************************)
(* WebSocketTransport: one send() or sendStream() of a client and the      *)
(* message handler of the server, over one connection.                     *)
(*                                                                         *)
(* The client's pc:                                                        *)
(*   idle, connecting (await connect)                                      *)
(*   awaiting  send(): on the promise of the first frame                   *)
(*   waiting   sendStream(): on `resolveWait`                              *)
(*   yielded   sendStream(): the consumer holds an event                   *)
(*   done, failed, left (the consumer broke out)                           *)
(* Frames are the SNAP messages the server sends; the connection keeps     *)
(* their order, and loses those under way when it breaks.                  *)
(***************************************************************************)
EXTENDS Integers, Sequences, SequencesExt

CONSTANTS
  HasStreamHandler,  \* was listenStream() given a handler?
  MaxFrames          \* bound: frames of one exchange

ASSUME WebSocketAssumption == HasStreamHandler \in BOOLEAN /\ MaxFrames \in Nat

VARIABLES
  kind,      \* "send" or "stream"
  pc,        \* the client
  timer,     \* is the client's timer running?
  queue,     \* frames received, not yielded
  done,      \* the flag of sendStream()
  error,     \* "none", "timeout" or "socket"
  woken,     \* has resolveWait been called since the client waits on it?
  conn,      \* "none", "open", "ending" (closed by the server), "down"
  wire,      \* frames under way
  serving,   \* the server's handler: "none", "handling", "streaming", "over"
  sent,      \* history: the frames sent
  received   \* history: the frames the consumer got

vars == <<kind, pc, timer, queue, done, error, woken, conn, wire, serving, sent, received>>
serverVars == <<serving, sent>>

FrameTypes == {"event", "response"}
Settled == {"done", "failed", "left"}

Init ==
  /\ kind \in {"send", "stream"}
  /\ pc = "idle" /\ timer = FALSE
  /\ queue = <<>> /\ done = FALSE /\ error = "none" /\ woken = FALSE
  /\ conn = "none" /\ wire = <<>>
  /\ serving = "none"
  /\ sent = <<>> /\ received = <<>>

(* A woken loop runs before the next timer or socket event is taken.       *)
Turn == ~(pc = "waiting" /\ woken)

-----------------------------------------------------------------------------
(* The client. *)

Connect ==
  /\ pc = "idle"
  /\ pc' = "connecting"
  /\ UNCHANGED <<kind, timer, queue, done, error, woken, conn, wire, serverVars, received>>

ConnectFails ==
  /\ pc = "connecting"
  /\ pc' = "failed"
  /\ UNCHANGED <<kind, timer, queue, done, error, woken, conn, wire, serverVars, received>>

(* The timer starts and the request leaves once the connection is open.    *)
(* The server routes on the method, which does not tell send() from        *)
(* sendStream(): message/stream goes to the stream handler.                *)
Opened ==
  /\ pc = "connecting"
  /\ pc' = IF kind = "send" THEN "awaiting" ELSE "waiting"
  /\ timer' = TRUE
  /\ conn' = "open"
  /\ serving' \in IF HasStreamHandler THEN {"handling", "streaming"} ELSE {"handling"}
  /\ UNCHANGED <<kind, queue, done, error, woken, wire, sent, received>>

(* The end of the generator, or of send(): ws.close(). *)
Settle(as) ==
  /\ pc' = as
  /\ timer' = FALSE
  /\ conn' = "down" /\ wire' = <<>>

(* Mutant: `done` is looked at before the queue. *)
Loop_DoneFirst ==
  \/ /\ done /\ Settle("done")
     /\ UNCHANGED <<queue, received>>
  \/ /\ ~done /\ queue # <<>>
     /\ pc' = "yielded"
     /\ queue' = Tail(queue)
     /\ received' = Append(received, Head(queue))
     /\ UNCHANGED <<timer, conn, wire>>
  \/ /\ ~done /\ queue = <<>>
     /\ pc' = "waiting"
     /\ UNCHANGED <<timer, queue, conn, wire, received>>

(* Mutant: the event handed out stays in the queue. *)
Loop_KeepsHead ==
  \/ /\ queue # <<>>
     /\ pc' = "yielded"
     /\ received' = Append(received, Head(queue))
     /\ UNCHANGED <<queue, timer, conn, wire>>
  \/ /\ queue = <<>>
     /\ error # "none" \/ done
     /\ Settle(IF error # "none" THEN "failed" ELSE "done")
     /\ UNCHANGED <<queue, received>>
  \/ /\ queue = <<>> /\ error = "none" /\ ~done
     /\ pc' = "waiting"
     /\ UNCHANGED <<timer, queue, conn, wire, received>>

(* The loop of sendStream(), from one suspension to the next. *)
Loop ==
  \/ /\ queue # <<>>
     /\ pc' = "yielded"
     /\ queue' = Tail(queue)
     /\ received' = Append(received, Head(queue))
     /\ UNCHANGED <<timer, conn, wire>>
  \/ /\ queue = <<>>
     /\ error # "none" \/ done
     /\ Settle(IF error # "none" THEN "failed" ELSE "done")
     /\ UNCHANGED <<queue, received>>
  \/ /\ queue = <<>> /\ error = "none" /\ ~done
     /\ pc' = "waiting"
     /\ UNCHANGED <<timer, queue, conn, wire, received>>

Resume ==
  /\ pc = "yielded" \/ (pc = "waiting" /\ woken)
  /\ woken' = FALSE
  /\ Loop
  /\ UNCHANGED <<kind, done, error, serverVars>>

ConsumerLeaves ==
  /\ pc = "yielded"
  /\ Settle("left")
  /\ UNCHANGED <<kind, queue, done, error, woken, serverVars, received>>

(* resolveWait is null while the consumer is busy: the call does nothing.  *)
Wake == woken' = (woken \/ pc = "waiting")

(* Mutant: resolveWait is called only when the stream is over. *)
StreamFrame_WakesOnResponse ==
  /\ pc \in {"waiting", "yielded"} /\ wire # <<>>
  /\ Turn \/ error = "none"
  /\ wire' = Tail(wire)
  /\ timer' = TRUE
  /\ queue' = Append(queue, Head(wire))
  /\ done' = (done \/ Head(wire) = "response")
  /\ woken' = (woken \/ (pc = "waiting" /\ done'))
  /\ UNCHANGED <<kind, pc, error, conn, serverVars, received>>

(* Mutant: the latest frame replaces the one that waits. *)
StreamFrame_KeepsLatest ==
  /\ pc \in {"waiting", "yielded"} /\ wire # <<>>
  /\ Turn \/ error = "none"
  /\ wire' = Tail(wire)
  /\ timer' = TRUE
  /\ queue' = <<Head(wire)>>
  /\ done' = (done \/ Head(wire) = "response")
  /\ Wake
  /\ UNCHANGED <<kind, pc, error, conn, serverVars, received>>

(* on('message') of sendStream(): the timer restarts, even after the       *)
(* response.  Frames that came in one chunk are handled in one turn.       *)
StreamFrame ==
  /\ pc \in {"waiting", "yielded"} /\ wire # <<>>
  /\ Turn \/ error = "none"
  /\ wire' = Tail(wire)
  /\ timer' = TRUE
  /\ queue' = Append(queue, Head(wire))
  /\ done' = (done \/ Head(wire) = "response")
  /\ Wake
  /\ UNCHANGED <<kind, pc, error, conn, serverVars, received>>

(* on('message') of send(): the first frame is the answer. *)
FirstFrame ==
  /\ pc = "awaiting" /\ wire # <<>>
  /\ received' = Append(received, Head(wire))
  /\ Settle("done")
  /\ UNCHANGED <<kind, queue, done, error, woken, serverVars>>

(* Mutant: the timeout is recorded, but the waiting loop is not woken. *)
TimerFires_NoWake ==
  /\ Turn /\ timer /\ pc \in {"awaiting", "waiting", "yielded"}
  /\ IF kind = "send"
     THEN Settle("failed") /\ UNCHANGED <<done, error, woken>>
     ELSE /\ timer' = FALSE
          /\ error' = "timeout"
          /\ done' = TRUE
          /\ UNCHANGED <<pc, conn, wire, woken>>
  /\ UNCHANGED <<kind, queue, serverVars, received>>

TimerFires ==
  /\ Turn /\ timer /\ pc \in {"awaiting", "waiting", "yielded"}
  /\ IF kind = "send"
     THEN Settle("failed") /\ UNCHANGED <<done, error, woken>>
     ELSE /\ timer' = FALSE
          /\ error' = "timeout"
          /\ done' = TRUE
          /\ Wake
          /\ UNCHANGED <<pc, conn, wire>>
  /\ UNCHANGED <<kind, queue, serverVars, received>>

(* on('close'), after every frame sent before it.  send() does not listen. *)
Closed ==
  /\ Turn /\ conn = "ending" /\ wire = <<>>
  /\ conn' = "down"
  /\ IF pc \in {"waiting", "yielded"}
     THEN timer' = FALSE /\ done' = TRUE /\ Wake
     ELSE UNCHANGED <<timer, done, woken>>
  /\ UNCHANGED <<kind, pc, queue, error, wire, serverVars, received>>

(* The connection breaks under the client, with or without an 'error'      *)
(* before the 'close'.                                                     *)
Breaks(e) ==
  /\ Turn /\ conn \in {"open", "ending"}
  /\ wire' = <<>>
  /\ IF pc = "awaiting"
     THEN IF e = "socket" THEN pc' = "failed" /\ timer' = FALSE /\ UNCHANGED <<done, error, woken>>
                          ELSE UNCHANGED <<pc, timer, done, error, woken>>
     ELSE /\ pc \in {"waiting", "yielded"}
          /\ timer' = FALSE
          /\ done' = TRUE
          /\ error' = IF e = "socket" THEN e ELSE error
          /\ Wake
          /\ UNCHANGED pc
  /\ conn' = "down"
  /\ UNCHANGED <<kind, queue, serverVars, received>>

-----------------------------------------------------------------------------
(* The server. *)

(* ws.send() on a closed connection drops the frame. *)
Send(type) ==
  IF conn = "open"
  THEN wire' = Append(wire, type) /\ sent' = Append(sent, type)
  ELSE UNCHANGED <<wire, sent>>

Yield(type) ==
  /\ serving = "streaming" /\ Len(sent) < MaxFrames
  /\ Send(type)
  /\ UNCHANGED <<kind, pc, timer, queue, done, error, woken, conn, serving, received>>

(* An error is only logged: for the client the handler falls silent. *)
StreamOver ==
  /\ serving = "streaming"
  /\ serving' = "over"
  /\ UNCHANGED <<kind, pc, timer, queue, done, error, woken, conn, wire, sent, received>>

HandlerReturns ==
  /\ serving = "handling"
  /\ serving' = "over"
  /\ Send("response")
  /\ UNCHANGED <<kind, pc, timer, queue, done, error, woken, conn, received>>

(* A handler without a result, one that throws, or no handler at all. *)
HandlerSilent ==
  /\ serving = "handling"
  /\ serving' = "over"
  /\ UNCHANGED <<kind, pc, timer, queue, done, error, woken, conn, wire, sent, received>>

ServerCloses ==
  /\ conn = "open"
  /\ conn' = "ending"
  /\ UNCHANGED <<kind, pc, timer, queue, done, error, woken, wire, serverVars, received>>

-----------------------------------------------------------------------------
ClientStep ==
  \/ Resume \/ StreamFrame \/ FirstFrame \/ TimerFires \/ Closed

Next ==
  \/ Connect \/ ConnectFails \/ Opened \/ ConsumerLeaves \/ ClientStep
  \/ \E e \in {"none", "socket"} : Breaks(e)
  \/ \E type \in FrameTypes : Yield(type)
  \/ StreamOver \/ HandlerReturns \/ HandlerSilent \/ ServerCloses

Spec == Init /\ [][Next]_vars

(* Timers fire, frames and close events arrive, the consumer asks for the  *)
(* next event.  Nothing is assumed of the server, nor of the handshake.    *)
FairSpec ==
  /\ Spec
  /\ WF_vars(Connect) /\ WF_vars(Resume) /\ WF_vars(StreamFrame) /\ WF_vars(FirstFrame)
  /\ WF_vars(TimerFires) /\ WF_vars(Closed)

-----------------------------------------------------------------------------
TypeOK ==
  /\ kind \in {"send", "stream"}
  /\ pc \in {"idle", "connecting", "awaiting", "waiting", "yielded"} \cup Settled
  /\ timer \in BOOLEAN /\ done \in BOOLEAN /\ woken \in BOOLEAN
  /\ error \in {"none", "timeout", "socket"}
  /\ conn \in {"none", "open", "ending", "down"}
  /\ serving \in {"none", "handling", "streaming", "over"}
  /\ {queue, wire, sent, received} \subseteq BoundedSeq(FrameTypes, MaxFrames + 1)

(* The consumer gets the frames in the order they were sent, none twice    *)
(* and none skipped, whatever queue, wire and loop do in between.          *)
InOrder == IsPrefix(received \o queue \o wire, sent)

(* A stream that ends without an error was consumed to its last frame: of  *)
(* what reached the client nothing is left in the queue.                   *)
NothingLeftBehind ==
  pc \in {"done", "failed"} => queue = <<>>

(* The loop never sleeps while there is something for it to do. *)
NoLostWakeup ==
  pc = "waiting" => woken \/ (queue = <<>> /\ ~done /\ error = "none")

(* Once connected, a call of send() or sendStream() settles, or its        *)
(* consumer leaves.                                                        *)
Settles == pc \in {"awaiting", "waiting", "yielded"} ~> pc \in Settled

(* "stream completes when final response (type=response) is received".     *)
ResponseCompletes ==
  pc = "failed" => \A i \in DOMAIN received : received[i] # "response"
=============================================================================
