---------------------------- MODULE NostrTransport ----------------------------
(***************************************************************************)
(* NostrTransport: the send() calls of one agent and the listen() of       *)
(* another, over relays that lose, refuse, delay and duplicate events.     *)
(*                                                                         *)
(* A request is one send() call.  Each relay has its own connection, which *)
(* keeps the order of what is written to it: first the subscription for    *)
(* the response, then the request event.  A relay forwards an event to the *)
(* subscriptions it matches; one of the storable kind it also keeps, and   *)
(* replays to a later subscription.                                        *)
(*                                                                         *)
(* An event names the request it answers in its `e` tag, and is signed by  *)
(* its author: the pool drops events whose signature is not good.  Besides *)
(* the listener, other agents that know the id of a request may publish    *)
(* events that name it, with any content.                                  *)
(*                                                                         *)
(* The requester's pc: idle, waiting, cut (close() was called under it),   *)
(* resolved, failed.  The listening agent has a replay store: for it the   *)
(* first copy of a request counts, the others throw and are logged.        *)
(***************************************************************************)
EXTENDS Integers

CONSTANTS
  Listener,    \* the agent the requests are sent to
  Others,      \* other agents
  Relay,       \* config.relays
  Request,     \* the send() calls a behaviour may make
  Lookback,    \* responseLookbackSeconds
  Behind,      \* seconds the listener's clock is behind the requester's
  MaxElapsed,  \* bound: seconds a response may take
  MaxListens   \* bound: calls of listen()

ASSUME NostrAssumption ==
  /\ Listener \notin Others
  /\ Lookback \in Nat /\ Behind \in Nat
  /\ MaxElapsed \in Nat /\ MaxListens \in Nat

VARIABLES
  pc,         \* state of each send()
  cause,      \* why it failed: "none", "timeout" or "publish"
  answeredBy, \* history: the event it resolved with
  storable,   \* was it sent with persist, so as the storable kind?
  sub,        \* relays where its subscription is active
  ack,        \* what each relay said to the publication: "none", "ok", "no"
  carried,    \* relays that took the request event
  incoming,   \* events of the listener on their way to its subscription
  listens,    \* calls of listen() so far
  listening,  \* is a listen() in force?
  tooOld,     \* requests with a created_at before the `since` of its filter
  up,         \* relays where the listener's subscription is active
  copies,     \* relays whose copy of a request is on its way to the listener
  handler,    \* "none", "handling", "answered" or "silent", of each request
  via,        \* history: the relay whose copy started the handler
  elapsed,    \* seconds between the request and its response
  answers     \* relays that took the response event

vars == <<pc, cause, answeredBy, storable, sub, ack, carried, incoming,
          listens, listening, tooOld, up, copies, handler, via, elapsed, answers>>
requester == <<pc, cause, answeredBy, storable, sub, ack, carried, incoming>>
listener == <<listens, listening, tooOld, up, copies, handler, via, elapsed, answers>>

Init ==
  /\ pc = [r \in Request |-> "idle"]
  /\ cause = [r \in Request |-> "none"]
  /\ answeredBy = [r \in Request |-> {}]
  /\ storable \in [Request -> BOOLEAN]
  /\ sub = [r \in Request |-> {}]
  /\ ack = [r \in Request |-> [y \in Relay |-> "none"]]
  /\ carried = [r \in Request |-> {}]
  /\ incoming = [r \in Request |-> {}]
  /\ listens = 0 /\ listening = FALSE /\ tooOld = {} /\ up = {}
  /\ copies = [r \in Request |-> {}]
  /\ handler = [r \in Request |-> "none"]
  /\ via = [r \in Request |-> {}]
  /\ elapsed = [r \in Request |-> 0]
  /\ answers = [r \in Request |-> {}]

-----------------------------------------------------------------------------
(* send(). *)

(* The event an author publishes for a request: its content may not        *)
(* decrypt or parse; if it does, it is a message with a `from` and a type. *)
Authors == Others \cup {Listener}
Event == [names : Request, author : Authors, readable : BOOLEAN, from : Authors,
          type : {"request", "response"}]

(* What listen() publishes, for a handler that answers as SnapAgent does. *)
ResponseTo(q) == [names |-> q, author |-> Listener, readable |-> TRUE, from |-> Listener,
                  type |-> "response"]

(* The filter of r's subscription lets an event pass: `#e`, and `since`,   *)
(* Lookback before the request, against created_at by the author's clock.  *)
Matches(r, e) ==
  e.names = r /\ (e.author = Listener => Lookback + elapsed[r] >= Behind)

Send(r) ==
  /\ pc[r] = "idle"
  /\ pc' = [pc EXCEPT ![r] = "waiting"]
  /\ UNCHANGED <<cause, answeredBy, storable, sub, ack, carried, incoming, listener>>

(* The subscription arrives at a relay, which replays the stored responses. *)
Subscribe(r, y) ==
  /\ pc[r] = "waiting" /\ y \notin sub[r] /\ ack[r][y] = "none"
  /\ sub' = [sub EXCEPT ![r] = @ \cup {y}]
  /\ incoming' = [incoming EXCEPT ![r] =
       @ \cup {ResponseTo(q) : q \in {k \in Request :
                   y \in answers[k] /\ storable[k] /\ Matches(r, ResponseTo(k))}}]
  /\ UNCHANGED <<pc, cause, answeredBy, storable, ack, carried, listener>>

(* The request reaches the listener at once where it is subscribed. *)
Forward(r, y) ==
  copies' = [copies EXCEPT ![r] = IF y \in up /\ r \notin tooOld THEN @ \cup {y} ELSE @]

(* Mutant: the request is published before the subscription is set up. *)
Publish_First(r, y, said, took) ==
  /\ pc[r] # "idle" /\ ack[r][y] = "none"
  /\ pc[r] = "cut" => ~took
  /\ said = "ok" => took
  /\ ack' = [ack EXCEPT ![r][y] = said]
  /\ IF took THEN carried' = [carried EXCEPT ![r] = @ \cup {y}] /\ Forward(r, y)
             ELSE UNCHANGED <<carried, copies>>
  /\ UNCHANGED <<pc, cause, answeredBy, storable, sub, incoming,
                 listens, listening, tooOld, up, handler, via, elapsed, answers>>

(* The request arrives at a relay, behind the subscription unless that was *)
(* closed before it left.  A relay that says no may have taken it: an       *)
(* acknowledgement that comes too late counts as a refusal.                *)
Publish(r, y, said, took) ==
  /\ pc[r] # "idle" /\ ack[r][y] = "none"
  /\ pc[r] = "waiting" => y \in sub[r]
  /\ pc[r] = "cut" => ~took
  /\ said = "ok" => took
  /\ ack' = [ack EXCEPT ![r][y] = said]
  /\ IF took THEN carried' = [carried EXCEPT ![r] = @ \cup {y}] /\ Forward(r, y)
             ELSE UNCHANGED <<carried, copies>>
  /\ UNCHANGED <<pc, cause, answeredBy, storable, sub, incoming,
                 listens, listening, tooOld, up, handler, via, elapsed, answers>>

(* Every way out closes the subscription. *)
Settle(r, as) ==
  /\ pc' = [pc EXCEPT ![r] = as]
  /\ sub' = [sub EXCEPT ![r] = {}]
  /\ incoming' = [incoming EXCEPT ![r] = {}]

Pending(r) == pc[r] \in {"waiting", "cut"}

Fail(r, why) ==
  /\ Pending(r)
  /\ Settle(r, "failed")
  /\ cause' = [cause EXCEPT ![r] = why]
  /\ UNCHANGED <<answeredBy, storable, ack, carried, listener>>

(* Events of others are published at any time; those with an earlier       *)
(* created_at are let out: the filter does not pass them.                  *)
FromOthers(r) == {e \in Event : e.author \in Others /\ sub[r] # {} /\ Matches(r, e)}

(* Mutant: `from` is not compared with the author of the event. *)
IsResponse_AnyFrom(e) == e.readable /\ e.type = "response"

IsResponse(e) == e.readable /\ e.from = e.author /\ e.type = "response"

(* onevent: what does not decrypt, is no response or has another `from` is *)
(* passed over.  The author is not compared with the recipient.            *)
Receive(r, e) ==
  /\ pc[r] = "waiting" /\ e \in incoming[r] \cup FromOthers(r)
  /\ IF IsResponse(e)
     THEN Settle(r, "resolved") /\ answeredBy' = [answeredBy EXCEPT ![r] = {e}]
     ELSE incoming' = [incoming EXCEPT ![r] = @ \ {e}] /\ UNCHANGED <<pc, sub, answeredBy>>
  /\ UNCHANGED <<cause, storable, ack, carried, listener>>

(* publishToRelays() waits for all the relays, and throws if none accepted. *)
PublishFails(r) == (\A y \in Relay : ack[r][y] = "no") /\ Fail(r, "publish")

TimerFires(r) == Fail(r, "timeout")

(* close() of the requester destroys the pool, so every subscription, but  *)
(* not the timers.                                                         *)
Close ==
  /\ \E r \in Request : pc[r] = "waiting"
  /\ pc' = [r \in Request |-> IF pc[r] = "waiting" THEN "cut" ELSE pc[r]]
  /\ sub' = [r \in Request |-> {}]
  /\ incoming' = [r \in Request |-> {}]
  /\ UNCHANGED <<cause, answeredBy, storable, ack, carried, listener>>

-----------------------------------------------------------------------------
(* listen() and close() of the listener, and what it does with a request.  *)

(* `since` is the listener's current second: what was sent before it is    *)
(* left out, except for what its clock is behind.                          *)
Listen ==
  /\ ~listening /\ listens < MaxListens
  /\ listens' = listens + 1 /\ listening' = TRUE
  /\ tooOld' \in SUBSET {r \in Request : pc[r] # "idle"}
  /\ UNCHANGED <<requester, up, copies, handler, via, elapsed, answers>>

(* Mutant: the filter asks for the ephemeral kind only. *)
Attach_EphemeralOnly(y) ==
  /\ listening /\ y \notin up
  /\ up' = up \cup {y}
  /\ UNCHANGED <<requester, listens, listening, tooOld, copies, handler, via, elapsed, answers>>

(* The subscription arrives at a relay, which replays stored requests. *)
Attach(y) ==
  /\ listening /\ y \notin up
  /\ up' = up \cup {y}
  /\ copies' = [r \in Request |->
       IF y \in carried[r] /\ storable[r] /\ r \notin tooOld THEN copies[r] \cup {y} ELSE copies[r]]
  /\ UNCHANGED <<requester, listens, listening, tooOld, handler, via, elapsed, answers>>

(* close() of the listener.  A handler that runs goes on, and publishes. *)
Detach ==
  /\ listening
  /\ listening' = FALSE
  /\ up' = {}
  /\ copies' = [r \in Request |-> {}]
  /\ UNCHANGED <<requester, listens, tooOld, handler, via, elapsed, answers>>

Deliver(r, y) ==
  /\ y \in copies[r]
  /\ copies' = [copies EXCEPT ![r] = @ \ {y}]
  /\ handler' = [handler EXCEPT ![r] = IF @ = "none" THEN "handling" ELSE @]
  /\ via' = [via EXCEPT ![r] = IF handler[r] = "none" THEN {y} ELSE @]
  /\ UNCHANGED <<requester, listens, listening, tooOld, up, elapsed, answers>>

(* Mutant: created_at is rounded up. *)
HandlerReturns_RoundsUp(r) ==
  /\ handler[r] = "handling"
  /\ handler' = [handler EXCEPT ![r] = "answered"]
  /\ elapsed' \in {[elapsed EXCEPT ![r] = e + 1] : e \in 0 .. MaxElapsed}
  /\ UNCHANGED <<requester, listens, listening, tooOld, up, copies, via, answers>>

HandlerReturns(r) ==
  /\ handler[r] = "handling"
  /\ handler' = [handler EXCEPT ![r] = "answered"]
  /\ elapsed' \in {[elapsed EXCEPT ![r] = e] : e \in 0 .. MaxElapsed}
  /\ UNCHANGED <<requester, listens, listening, tooOld, up, copies, via, answers>>

(* No result, or an error, which is only logged. *)
HandlerSilent(r) ==
  /\ handler[r] = "handling"
  /\ handler' = [handler EXCEPT ![r] = "silent"]
  /\ UNCHANGED <<requester, listens, listening, tooOld, up, copies, via, elapsed, answers>>

(* A relay takes the response, which has the kind of the request.  That it *)
(* refuses it is the behaviour in which this step never comes.             *)
Respond(r, y) ==
  /\ handler[r] = "answered" /\ y \notin answers[r]
  /\ answers' = [answers EXCEPT ![r] = @ \cup {y}]
  /\ incoming' = [q \in Request |->
       IF y \in sub[q] /\ Matches(q, ResponseTo(r)) THEN incoming[q] \cup {ResponseTo(r)}
       ELSE incoming[q]]
  /\ UNCHANGED <<pc, cause, answeredBy, storable, sub, ack, carried,
                 listens, listening, tooOld, up, copies, handler, via, elapsed>>

-----------------------------------------------------------------------------
RequestStep(r) ==
  \/ Send(r) \/ PublishFails(r) \/ TimerFires(r) \/ HandlerReturns(r) \/ HandlerSilent(r)
  \/ \E e \in incoming[r] \cup FromOthers(r) : Receive(r, e)
  \/ \E y \in Relay :
        \/ Subscribe(r, y) \/ Deliver(r, y) \/ Respond(r, y)
        \/ \E said \in {"ok", "no"}, took \in BOOLEAN : Publish(r, y, said, took)

Next ==
  \/ Close \/ Listen \/ Detach
  \/ \E y \in Relay : Attach(y)
  \/ \E r \in Request : RequestStep(r)

Spec == Init /\ [][Next]_vars

-----------------------------------------------------------------------------
TypeOK ==
  /\ pc \in [Request -> {"idle", "waiting", "cut", "resolved", "failed"}]
  /\ cause \in [Request -> {"none", "timeout", "publish"}]
  /\ answeredBy \in [Request -> SUBSET Event]
  /\ storable \in [Request -> BOOLEAN]
  /\ sub \in [Request -> SUBSET Relay]
  /\ ack \in [Request -> [Relay -> {"none", "ok", "no"}]]
  /\ carried \in [Request -> SUBSET Relay]
  /\ incoming \in [Request -> SUBSET Event]
  /\ listens \in 0 .. MaxListens
  /\ listening \in BOOLEAN
  /\ tooOld \subseteq Request
  /\ up \subseteq Relay
  /\ copies \in [Request -> SUBSET Relay]
  /\ handler \in [Request -> {"none", "handling", "answered", "silent"}]
  /\ via \in [Request -> SUBSET Relay]
  /\ elapsed \in [Request -> 0 .. MaxElapsed]
  /\ answers \in [Request -> SUBSET Relay]

(* send() never resolves with a stale response to another request, and if  *)
(* the response says it is from the agent the request was sent to, that    *)
(* agent took the request from a relay, and its handler answered it.       *)
OwnAnswer ==
  \A r \in Request : pc[r] = "resolved" =>
    \E e \in answeredBy[r] :
      /\ e.names = r
      /\ e.from = Listener => handler[r] = "answered" /\ via[r] \cap carried[r] # {}

(* A fast responder is not missed: a response that is at the relay which   *)
(* brought the request is on its way while send() waits for it.            *)
FastAnswerIsHeard ==
  \A r \in Request :
    pc[r] = "waiting" /\ via[r] \cap answers[r] # {} /\ Matches(r, ResponseTo(r))
      => ResponseTo(r) \in incoming[r]

(* A storable request that was sent after listen() reaches the handler     *)
(* from every relay that carried it and that the listener has reached,     *)
(* whichever came first.                                                   *)
ListenerCatchesUp ==
  \A r \in Request, y \in up :
    y \in carried[r] /\ storable[r] /\ r \notin tooOld => y \in copies[r] \/ handler[r] # "none"
=============================================================================
