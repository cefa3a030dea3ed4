----------------------------- MODULE HttpTransport -----------------------------
(***************************************************************************)
(* HttpTransport: send() and sendStream() of clients against the servers   *)
(* one transport object opens and closes.  An exchange is one request and  *)
(* its response.                                                           *)
(*                                                                         *)
(* The client side of an exchange:                                         *)
(*   idle -> fetching (await fetch) -> body (reading it) -> done | failed  *)
(*   left: the consumer broke out of the stream; nobody reads the rest     *)
(* The server side, handleRequest():                                       *)
(*   none -> reading -> handling | streaming -> ended                      *)
(*   abandoned: the stream handler threw, the response is never ended      *)
(* writeHead() only stores the header: it leaves with the first write().   *)
(***************************************************************************)
EXTENDS Integers, FiniteSets

CONSTANTS
  HasCard,     \* was the agent card set?  SnapAgent.start() does, before listen()
  Exchange,    \* the requests a behaviour may make
  MaxEvents,   \* bound: events of one stream
  MaxServers   \* bound: servers the transport opens, one after the other

ASSUME HttpAssumption ==
  HasCard \in BOOLEAN /\ MaxEvents \in Nat /\ MaxServers \in Nat \ {0}

VARIABLES
  server,   \* this.server: the number of the server in use, 0 for null
  handlers, \* the handlers given: "one" by listen(), "stream" by listenStream()
  state,    \* "unborn", "open", "closing" (close() pending) or "closed"
  via,      \* the server that accepted each exchange, 0 if none
  kind,     \* "send", "stream", "card" (discoverViaHttp) or "other": a POST
            \* whose body is no JSON, or a request to no path that is served
  client,   \* client side of each exchange
  timer,    \* is the client's abort timer running?
  conn,     \* is the connection of the exchange up?
  serving,  \* server side of each exchange
  status,   \* status code stored by writeHead, 0 before
  sent,     \* events written
  got       \* events the client's parser has yielded

vars == <<server, handlers, state, via, kind, client, timer, conn, serving, status, sent, got>>
clientVars == <<via, kind, client, timer, conn, got>>
serverVars == <<server, handlers, state>>

Servers == 1 .. MaxServers
Kinds == {"send", "stream", "card", "other"}
Waiting(x) == client[x] \in {"fetching", "body"}

Init ==
  /\ server = 0 /\ handlers = {}
  /\ state = [s \in Servers |-> "unborn"]
  /\ via = [x \in Exchange |-> 0]
  /\ kind = [x \in Exchange |-> "send"]
  /\ client = [x \in Exchange |-> "idle"]
  /\ timer = [x \in Exchange |-> FALSE]
  /\ conn = [x \in Exchange |-> FALSE]
  /\ serving = [x \in Exchange |-> "none"]
  /\ status = [x \in Exchange |-> 0]
  /\ sent = [x \in Exchange |-> 0]
  /\ got = [x \in Exchange |-> 0]

-----------------------------------------------------------------------------
(* The server's life: listen() / listenStream() and close(). *)

EnsureServer ==
  IF server # 0
  THEN UNCHANGED <<server, state>>
  ELSE \E s \in Servers :
         /\ state[s] = "unborn"
         /\ \A t \in Servers : t < s => state[t] # "unborn"
         /\ server' = s
         /\ state' = [state EXCEPT ![s] = "open"]

(* start() calls listen() and then listenStream(); requests may come in     *)
(* between.                                                                *)
Listen(handler) ==
  /\ handlers' = handlers \cup {handler}
  /\ EnsureServer
  /\ UNCHANGED <<clientVars, serving, status, sent>>

Close ==
  /\ server # 0
  /\ server' = 0
  /\ state' = [state EXCEPT ![server] = "closing"]
  /\ UNCHANGED <<handlers, clientVars, serving, status, sent>>

(* Mutant: close() does not wait for the responses under way. *)
CloseResolves_AtOnce(s) ==
  /\ state[s] = "closing"
  /\ state' = [state EXCEPT ![s] = "closed"]
  /\ UNCHANGED <<server, handlers, clientVars, serving, status, sent>>

(* Mutant: close() also waits for connections that are kept alive. *)
CloseResolves_WaitsForIdle(s) ==
  /\ state[s] = "closing"
  /\ \A x \in Exchange : via[x] = s => ~conn[x]
  /\ state' = [state EXCEPT ![s] = "closed"]
  /\ UNCHANGED <<server, handlers, clientVars, serving, status, sent>>

(* server.close() calls back when no connection has a response under way. *)
CloseResolves(s) ==
  /\ state[s] = "closing"
  /\ \A x \in Exchange : via[x] = s /\ conn[x] => serving[x] = "ended"
  /\ state' = [state EXCEPT ![s] = "closed"]
  /\ UNCHANGED <<server, handlers, clientVars, serving, status, sent>>

-----------------------------------------------------------------------------
(* The client. *)

Settle(x, as) ==
  /\ client' = [client EXCEPT ![x] = as]
  /\ timer' = [timer EXCEPT ![x] = FALSE]

(* send() starts its timer before fetch, sendStream() after it, and        *)
(* discoverViaHttp() has none.                                             *)
Post(x, k) ==
  /\ client[x] = "idle"
  /\ kind' = [kind EXCEPT ![x] = k]
  /\ IF server = 0
     THEN /\ client' = [client EXCEPT ![x] = "failed"]
          /\ UNCHANGED <<via, timer, conn, serving>>
     ELSE /\ client' = [client EXCEPT ![x] = "fetching"]
          /\ timer' = [timer EXCEPT ![x] = k \notin {"stream", "card"}]
          /\ via' = [via EXCEPT ![x] = server]
          /\ conn' = [conn EXCEPT ![x] = TRUE]
          /\ serving' = [serving EXCEPT ![x] = "reading"]
  /\ UNCHANGED <<serverVars, status, sent, got>>

HeaderArrived(x) == conn[x] /\ (serving[x] = "ended" \/ sent[x] > 0)

(* response.ok, and a body for sendStream(): a 204 has none. *)
HeaderIsGood(x) == status[x] \in 200 .. 299 /\ ~(kind[x] = "stream" /\ status[x] = 204)

FetchResolves(x) ==
  /\ client[x] = "fetching"
  /\ HeaderArrived(x)
  /\ IF HeaderIsGood(x)
     THEN /\ client' = [client EXCEPT ![x] = "body"]
          /\ timer' = [timer EXCEPT ![x] = kind[x] # "card"]
     ELSE Settle(x, "failed")
  /\ UNCHANGED <<serverVars, via, kind, conn, serving, status, sent, got>>

(* parseSSE yields an event, and restarts the timer. *)
ReadEvent(x) ==
  /\ client[x] = "body" /\ conn[x]
  /\ kind[x] = "stream" /\ got[x] < sent[x]
  /\ got' = [got EXCEPT ![x] = @ + 1]
  /\ UNCHANGED <<serverVars, via, kind, client, timer, conn, serving, status, sent>>

(* Mutant: the stream is taken to be over when nothing is buffered. *)
ReadEnd_NothingBuffered(x) ==
  /\ client[x] = "body" /\ conn[x]
  /\ kind[x] = "stream" => got[x] = sent[x]
  /\ Settle(x, IF status[x] = 204 THEN "failed" ELSE "done")
  /\ UNCHANGED <<serverVars, via, kind, conn, serving, status, sent, got>>

(* The end of the body.  send() parses it: that of a 204 is no JSON.       *)
(* parseSSE skips what holds no "data: " line, so a stream that was        *)
(* answered with one JSON document ends without an event.                  *)
ReadEnd(x) ==
  /\ client[x] = "body" /\ conn[x]
  /\ serving[x] = "ended"
  /\ kind[x] = "stream" => got[x] = sent[x]
  /\ Settle(x, IF status[x] = 204 THEN "failed" ELSE "done")
  /\ UNCHANGED <<serverVars, via, kind, conn, serving, status, sent, got>>

Disconnect(x, as) ==
  /\ Settle(x, as)
  /\ conn' = [conn EXCEPT ![x] = FALSE]
  /\ UNCHANGED <<serverVars, via, kind, serving, status, sent, got>>

(* Mutant: the abort signal is not passed on to fetch. *)
TimerFires_NoSignal(x) ==
  /\ timer[x] /\ Waiting(x)
  /\ timer' = [timer EXCEPT ![x] = FALSE]
  /\ UNCHANGED <<serverVars, via, kind, client, conn, serving, status, sent, got>>

TimerFires(x) == timer[x] /\ Waiting(x) /\ Disconnect(x, "failed")

ConnectionBreaks(x) == conn[x] /\ Waiting(x) /\ Disconnect(x, "failed")

(* Breaking out of the stream stops the timer and releases the reader, but *)
(* does not cancel the body.                                               *)
ConsumerLeaves(x) ==
  /\ client[x] = "body" /\ kind[x] = "stream" /\ got[x] > 0
  /\ Settle(x, "left")
  /\ UNCHANGED <<serverVars, via, kind, conn, serving, status, sent, got>>

(* The HTTP stack under fetch gives up on a silent connection by itself,   *)
(* minutes later.                                                          *)
StackGivesUp(x) ==
  /\ conn[x] /\ serving[x] # "ended"
  /\ client[x] \in {"fetching", "body", "left"}
  /\ Disconnect(x, IF client[x] = "left" THEN "left" ELSE "failed")

-----------------------------------------------------------------------------
(* The server: handleRequest(). *)

Respond(x, from, to, code) ==
  /\ serving[x] = from
  /\ serving' = [serving EXCEPT ![x] = to]
  /\ status' = [status EXCEPT ![x] = code]
  /\ UNCHANGED <<serverVars, clientVars, sent>>

(* 400, or 404: a client makes no difference. *)
NotServed(x) == kind[x] = "other" /\ Respond(x, "reading", "ended", 400)

ServeCard(x) ==
  kind[x] = "card" /\ Respond(x, "reading", "ended", IF HasCard THEN 200 ELSE 404)

(* The client went away while the body was read. *)
ReadBodyFails(x) ==
  ~conn[x] /\ kind[x] # "card" /\ Respond(x, "reading", "ended", 500)

StartStream(x) ==
  /\ conn[x] /\ kind[x] = "stream" /\ "stream" \in handlers
  /\ Respond(x, "reading", "streaming", 200)

(* Everything but an event stream that can be served as one. *)
WantsOne(x) == kind[x] = "send" \/ (kind[x] = "stream" /\ "stream" \notin handlers)

StartHandler(x) ==
  /\ conn[x] /\ "one" \in handlers
  /\ WantsOne(x)
  /\ Respond(x, "reading", "handling", 0)

(* The only error that is answered with 200 and an error object. *)
NoHandler(x) ==
  /\ conn[x] /\ "one" \notin handlers
  /\ WantsOne(x)
  /\ Respond(x, "reading", "ended", 200)

HandlerReturns(x) == \E code \in {200, 204} : Respond(x, "handling", "ended", code)

(* Validation, replay, routing, middleware and handler errors alike. *)
HandlerThrows(x) == Respond(x, "handling", "ended", 500)

Yield(x) ==
  /\ serving[x] = "streaming" /\ sent[x] < MaxEvents
  /\ sent' = [sent EXCEPT ![x] = @ + 1]
  /\ UNCHANGED <<serverVars, clientVars, serving, status>>

StreamEnds(x) == Respond(x, "streaming", "ended", 200)

(* headersSent is true since writeHead(): the catch in ensureServer() only *)
(* logs.                                                                   *)
StreamThrows(x) == Respond(x, "streaming", "abandoned", 200)

-----------------------------------------------------------------------------
ClientStep(x) ==
  \/ FetchResolves(x) \/ ReadEvent(x) \/ ReadEnd(x)
  \/ TimerFires(x) \/ ConnectionBreaks(x) \/ ConsumerLeaves(x) \/ StackGivesUp(x)

Serve(x) ==
  \/ NotServed(x) \/ ServeCard(x) \/ ReadBodyFails(x)
  \/ StartStream(x) \/ StartHandler(x) \/ NoHandler(x) \/ HandlerReturns(x)
  \/ HandlerThrows(x) \/ Yield(x) \/ StreamEnds(x) \/ StreamThrows(x)

Next ==
  \/ Close \/ \E handler \in {"one", "stream"} : Listen(handler)
  \/ \E s \in Servers : CloseResolves(s)
  \/ \E x \in Exchange :
        (\E k \in Kinds : Post(x, k)) \/ ClientStep(x) \/ Serve(x)

Spec == Init /\ [][Next]_vars

(* Timers fire and handlers end; nothing is assumed of the network or of   *)
(* the consumer of a stream.                                               *)
Fairness ==
  /\ \A s \in Servers : WF_vars(CloseResolves(s))
  /\ \A x \in Exchange :
        /\ WF_vars(Serve(x)) /\ WF_vars(TimerFires(x)) /\ WF_vars(StackGivesUp(x))

-----------------------------------------------------------------------------
TypeOK ==
  /\ server \in 0 .. MaxServers
  /\ handlers \subseteq {"one", "stream"}
  /\ state \in [Servers -> {"unborn", "open", "closing", "closed"}]
  /\ via \in [Exchange -> 0 .. MaxServers]
  /\ kind \in [Exchange -> Kinds]
  /\ client \in [Exchange -> {"idle", "fetching", "body", "left", "done", "failed"}]
  /\ timer \in [Exchange -> BOOLEAN]
  /\ conn \in [Exchange -> BOOLEAN]
  /\ serving \in [Exchange ->
       {"none", "reading", "handling", "streaming", "abandoned", "ended"}]
  /\ status \in [Exchange -> {0, 200, 204, 400, 404, 500}]
  /\ sent \in [Exchange -> 0 .. MaxEvents]
  /\ got \in [Exchange -> 0 .. MaxEvents]

(* A client reports success only when the server ended a 200 response, a   *)
(* stream only after every event of it was delivered, and discoverViaHttp() *)
(* only where a card was set.                                              *)
DoneMeansAnswered ==
  \A x \in Exchange :
    client[x] = "done" =>
      /\ serving[x] = "ended" /\ status[x] = 200
      /\ kind[x] # "other"
      /\ kind[x] = "card" => HasCard
      /\ kind[x] = "stream" => got[x] = sent[x]

(* Once close() has resolved no client still waits for an answer. *)
CloseDrains ==
  \A x \in Exchange :
    via[x] # 0 /\ state[via[x]] = "closed" /\ Waiting(x) => serving[x] = "ended"

(* send() settles, whatever server and network do. *)
SendSettles ==
  \A x \in Exchange : client[x] = "fetching" /\ kind[x] = "send" ~> client[x] \in {"done", "failed"}

(* close() resolves. *)
CloseSettles == \A s \in Servers : state[s] = "closing" ~> state[s] = "closed"
=============================================================================
