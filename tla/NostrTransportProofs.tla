------------------------- MODULE NostrTransportProofs -------------------------
(***************************************************************************)
(* Proofs about send() and listen() over relays, for any number of relays, *)
(* requests and calls of listen(), and any clock skew.                     *)
(***************************************************************************)
EXTENDS NostrTransport, TLAPS

(* The subscription lets nothing of the listener pass but its response to  *)
(* the request.                                                            *)
IncomingIsOwn == \A r \in Request : incoming[r] \subseteq {ResponseTo(r)}

(* A response exists only where the handler returned one. *)
ResponsesWereMade ==
  \A r \in Request : incoming[r] # {} \/ answers[r] # {} => handler[r] = "answered"

(* What the listener has, a relay brought: history of the copies. *)
CopiesWereCarried ==
  \A r \in Request :
    /\ copies[r] \subseteq carried[r] /\ via[r] \subseteq carried[r]
    /\ handler[r] # "none" <=> via[r] # {}

(* A relay that took the request has said something to it. *)
CarriedIsAcked ==
  \A r \in Request, y \in Relay : y \in carried[r] => ack[r][y] # "none"

IdleIsUnsent == \A r \in Request, y \in Relay : pc[r] = "idle" => ack[r][y] = "none"

(* While send() waits, its subscription is there before its request. *)
SubscribedFirst ==
  \A r \in Request, y \in Relay :
    pc[r] = "waiting" /\ ack[r][y] # "none" => y \in sub[r]

DetachedIsDown == ~listening => up = {}

(* What was sent, carried, handled and answered hangs together. *)
IInv ==
  /\ TypeOK /\ IncomingIsOwn /\ ResponsesWereMade /\ CopiesWereCarried
  /\ CarriedIsAcked /\ IdleIsUnsent /\ SubscribedFirst /\ DetachedIsDown
  /\ OwnAnswer /\ FastAnswerIsHeard /\ ListenerCatchesUp

-----------------------------------------------------------------------------
(* A response is an event, the one that a subscription to its request is   *)
(* for; what an agent signs as the response of another is passed over.     *)
LEMMA Responses ==
  /\ \A q \in Request :
       /\ ResponseTo(q) \in Event /\ IsResponse(ResponseTo(q))
       /\ ResponseTo(q).names = q /\ ResponseTo(q).from = Listener
  /\ \A r, q \in Request : Matches(r, ResponseTo(q)) <=> q = r /\ Lookback + elapsed[r] >= Behind
  /\ \A r \in Request : \A e \in FromOthers(r) :
       e \in Event /\ e.names = r /\ (IsResponse(e) => e.from # Listener)
BY NostrAssumption DEF ResponseTo, Event, Authors, IsResponse, Matches, FromOthers

LEMMA TypeInit == Init => TypeOK
<1> SUFFICES ASSUME Init PROVE TypeOK
  OBVIOUS
<1>1. /\ pc \in [Request -> {"idle", "waiting", "cut", "resolved", "failed"}]
      /\ cause \in [Request -> {"none", "timeout", "publish"}]
      /\ handler \in [Request -> {"none", "handling", "answered", "silent"}]
      /\ storable \in [Request -> BOOLEAN]
  BY DEF Init
<1>2. /\ answeredBy \in [Request -> SUBSET Event] /\ sub \in [Request -> SUBSET Relay]
      /\ carried \in [Request -> SUBSET Relay] /\ incoming \in [Request -> SUBSET Event]
      /\ copies \in [Request -> SUBSET Relay] /\ via \in [Request -> SUBSET Relay]
      /\ answers \in [Request -> SUBSET Relay]
  BY DEF Init
<1>3. ack \in [Request -> [Relay -> {"none", "ok", "no"}]]
  BY DEF Init
<1>4. listens \in 0 .. MaxListens
  BY NostrAssumption DEF Init
<1>5. elapsed \in [Request -> 0 .. MaxElapsed]
  <2>1. 0 \in 0 .. MaxElapsed
    BY NostrAssumption
  <2> QED BY <2>1 DEF Init
<1>6. listening \in BOOLEAN /\ tooOld \subseteq Request /\ up \subseteq Relay
  BY DEF Init
<1> QED BY <1>1, <1>2, <1>3, <1>4, <1>5, <1>6 DEF TypeOK

LEMMA PublishCases ==
  ASSUME TypeOK, NEW r \in Request, NEW y \in Relay, NEW said, NEW took, Publish(r, y, said, took)
  PROVE  /\ \/ UNCHANGED <<carried, copies>>
            \/ /\ carried' = [carried EXCEPT ![r] = @ \cup {y}]
               /\ copies' = copies /\ ~(y \in up /\ r \notin tooOld)
            \/ /\ carried' = [carried EXCEPT ![r] = @ \cup {y}]
               /\ copies' = [copies EXCEPT ![r] = @ \cup {y}]
         /\ UNCHANGED <<pc, cause, answeredBy, storable, sub, incoming,
                        listens, listening, tooOld, up, handler, via, elapsed, answers>>
<1>1. CASE took /\ y \in up /\ r \notin tooOld
  BY <1>1 DEF Publish, Forward
<1>2. CASE took /\ ~(y \in up /\ r \notin tooOld)
  <2>1. copies' = [copies EXCEPT ![r] = @]
    BY <1>2 DEF Publish, Forward
  <2>2. copies' = copies
    BY <2>1 DEF TypeOK
  <2> QED BY <1>2, <2>2 DEF Publish
<1>3. CASE ~took
  BY <1>3 DEF Publish
<1> QED BY <1>1, <1>2, <1>3

LEMMA TypeStep == TypeOK /\ [Next]_vars => TypeOK'
<1> SUFFICES ASSUME TypeOK, [Next]_vars PROVE TypeOK'
  OBVIOUS
<1> USE DEF requester, listener
<1>1. CASE UNCHANGED vars
  BY <1>1 DEF vars, TypeOK
<1>2. CASE Close
  <2>1. /\ pc' \in [Request -> {"idle", "waiting", "cut", "resolved", "failed"}]
        /\ sub' \in [Request -> SUBSET Relay] /\ incoming' \in [Request -> SUBSET Event]
    BY <1>2 DEF Close, TypeOK
  <2> QED BY <1>2, <2>1 DEF Close, TypeOK
<1>3. CASE Listen
  BY <1>3, NostrAssumption DEF Listen, TypeOK
<1>4. CASE Detach
  BY <1>4 DEF Detach, TypeOK
<1>5. ASSUME NEW r \in Request, Send(r) PROVE TypeOK'
  BY <1>5 DEF Send, TypeOK
<1>6. ASSUME NEW r \in Request, NEW why \in {"timeout", "publish"}, Fail(r, why) PROVE TypeOK'
  <2>1. /\ pc' \in [Request -> {"idle", "waiting", "cut", "resolved", "failed"}]
        /\ cause' \in [Request -> {"none", "timeout", "publish"}]
    BY <1>6 DEF Fail, Settle, TypeOK
  <2>2. /\ sub' \in [Request -> SUBSET Relay] /\ incoming' \in [Request -> SUBSET Event]
    BY <1>6 DEF Fail, Settle, TypeOK
  <2> QED BY <1>6, <2>1, <2>2 DEF Fail, TypeOK
<1>7. ASSUME NEW r \in Request, NEW y \in Relay, Subscribe(r, y) PROVE TypeOK'
  <2>1. sub' \in [Request -> SUBSET Relay] /\ incoming' \in [Request -> SUBSET Event]
    BY <1>7, Responses DEF Subscribe, TypeOK
  <2> QED BY <1>7, <2>1 DEF Subscribe, TypeOK
<1>8. ASSUME NEW r \in Request, NEW y \in Relay, NEW said \in {"ok", "no"}, NEW took \in BOOLEAN,
             Publish(r, y, said, took)
      PROVE  TypeOK'
  <2>1. ack' \in [Request -> [Relay -> {"none", "ok", "no"}]]
    BY <1>8 DEF Publish, TypeOK
  <2>2. carried' \in [Request -> SUBSET Relay] /\ copies' \in [Request -> SUBSET Relay]
    <3>1. carried \in [Request -> SUBSET Relay] /\ copies \in [Request -> SUBSET Relay]
      BY DEF TypeOK
    <3>2. \/ UNCHANGED <<carried, copies>>
          \/ /\ carried' = [carried EXCEPT ![r] = @ \cup {y}]
             /\ copies' = copies /\ ~(y \in up /\ r \notin tooOld)
          \/ /\ carried' = [carried EXCEPT ![r] = @ \cup {y}]
             /\ copies' = [copies EXCEPT ![r] = @ \cup {y}]
      BY <1>8, PublishCases
    <3> QED BY <3>1, <3>2
  <2> QED BY <1>8, <2>1, <2>2 DEF Publish, TypeOK
<1>9. ASSUME NEW r \in Request, NEW e, Receive(r, e) PROVE TypeOK'
  <2>1. e \in Event
    BY <1>9, Responses DEF Receive, TypeOK
  <2>2. CASE Settle(r, "resolved") /\ answeredBy' = [answeredBy EXCEPT ![r] = {e}]
    <3>1. /\ pc' \in [Request -> {"idle", "waiting", "cut", "resolved", "failed"}]
          /\ answeredBy' \in [Request -> SUBSET Event]
      BY <2>1, <2>2 DEF Settle, TypeOK
    <3>2. /\ sub' \in [Request -> SUBSET Relay] /\ incoming' \in [Request -> SUBSET Event]
      BY <2>2 DEF Settle, TypeOK
    <3> QED BY <1>9, <3>1, <3>2 DEF Receive, TypeOK
  <2>3. CASE incoming' = [incoming EXCEPT ![r] = @ \ {e}] /\ UNCHANGED <<pc, sub, answeredBy>>
    <3>1. incoming' \in [Request -> SUBSET Event]
      BY <2>3 DEF TypeOK
    <3> QED BY <1>9, <2>3, <3>1 DEF Receive, TypeOK
  <2> QED BY <1>9, <2>2, <2>3, Zenon DEF Receive
<1>10. ASSUME NEW y \in Relay, Attach(y) PROVE TypeOK'
  <2>1. copies' \in [Request -> SUBSET Relay] /\ up' \subseteq Relay
    BY <1>10 DEF Attach, TypeOK
  <2> QED BY <1>10, <2>1 DEF Attach, TypeOK
<1>11. ASSUME NEW r \in Request, NEW y \in Relay, Deliver(r, y) PROVE TypeOK'
  <2>1. copies' \in [Request -> SUBSET Relay] /\ via' \in [Request -> SUBSET Relay]
    BY <1>11 DEF Deliver, TypeOK
  <2>2. handler' \in [Request -> {"none", "handling", "answered", "silent"}]
    BY <1>11 DEF Deliver, TypeOK
  <2> QED BY <1>11, <2>1, <2>2 DEF Deliver, TypeOK
<1>12. ASSUME NEW r \in Request, HandlerReturns(r) PROVE TypeOK'
  <2>1. elapsed' \in [Request -> 0 .. MaxElapsed]
    BY <1>12 DEF HandlerReturns, TypeOK
  <2>2. handler' \in [Request -> {"none", "handling", "answered", "silent"}]
    BY <1>12 DEF HandlerReturns, TypeOK
  <2> QED BY <1>12, <2>1, <2>2 DEF HandlerReturns, TypeOK
<1>13. ASSUME NEW r \in Request, HandlerSilent(r) PROVE TypeOK'
  BY <1>13 DEF HandlerSilent, TypeOK
<1>14. ASSUME NEW r \in Request, NEW y \in Relay, Respond(r, y) PROVE TypeOK'
  <2>1. answers' \in [Request -> SUBSET Relay] /\ incoming' \in [Request -> SUBSET Event]
    BY <1>14, Responses DEF Respond, TypeOK
  <2> QED BY <1>14, <2>1 DEF Respond, TypeOK
<1> QED
  BY <1>1, <1>2, <1>3, <1>4, <1>5, <1>6, <1>7, <1>8, <1>9, <1>10, <1>11, <1>12, <1>13, <1>14
     DEF Next, RequestStep, PublishFails, TimerFires

(* The variables keep their types. *)
THEOREM TypeCorrect == Spec => []TypeOK
BY TypeInit, TypeStep, PTL DEF Spec

-----------------------------------------------------------------------------
(* One lemma per action that the invariant notices. *)

Links == IncomingIsOwn /\ ResponsesWereMade /\ CopiesWereCarried
Order == CarriedIsAcked /\ IdleIsUnsent /\ SubscribedFirst /\ DetachedIsDown
Promises == OwnAnswer /\ FastAnswerIsHeard /\ ListenerCatchesUp

LEMMA SendKeeps ==
  ASSUME IInv, NEW r \in Request, Send(r)
  PROVE  Links' /\ Order' /\ Promises'
<1> USE DEF IInv, listener
<1>1. Links'
  BY DEF Send, Links, IncomingIsOwn, ResponsesWereMade, CopiesWereCarried
<1>2. Order'
  BY DEF Send, TypeOK, Order, CarriedIsAcked, IdleIsUnsent, SubscribedFirst, DetachedIsDown
<1>3. OwnAnswer' /\ ListenerCatchesUp'
  BY DEF Send, TypeOK, OwnAnswer, ListenerCatchesUp
(* An idle request was never published, so nobody has answered it. *)
<1>4. FastAnswerIsHeard'
  <2> SUFFICES ASSUME NEW q \in Request, pc'[q] = "waiting", via[q] \cap answers[q] # {},
                      Matches(q, ResponseTo(q))
               PROVE  ResponseTo(q) \in incoming[q]
    BY DEF FastAnswerIsHeard, Send, Matches
  <2>1. CASE q = r
    <3>1. PICK y \in Relay : y \in via[r] /\ y \in carried[r]
      BY <2>1 DEF TypeOK, CopiesWereCarried
    <3> QED BY <3>1 DEF Send, CarriedIsAcked, IdleIsUnsent
  <2>2. CASE q # r
    BY <2>2 DEF FastAnswerIsHeard, Send, TypeOK
  <2> QED BY <2>1, <2>2
<1> QED BY <1>1, <1>2, <1>3, <1>4 DEF Promises

LEMMA SubscribeKeeps ==
  ASSUME IInv, NEW r \in Request, NEW y \in Relay, Subscribe(r, y)
  PROVE  Links' /\ Order' /\ Promises'
<1> USE DEF IInv, listener
<1>1. /\ \A q \in Request : incoming[q] \subseteq incoming'[q]
      /\ \A q \in Request : \A e \in incoming'[q] :
            e \in incoming[q] \/ (e = ResponseTo(q) /\ answers[q] # {})
      /\ \A q \in Request : sub[q] \subseteq sub'[q]
  BY Responses DEF Subscribe, TypeOK
<1>2. IncomingIsOwn'
  BY <1>1 DEF IncomingIsOwn
<1>3. ResponsesWereMade'
  BY <1>1 DEF Subscribe, TypeOK, ResponsesWereMade
<1>4. CopiesWereCarried'
  BY DEF Subscribe, CopiesWereCarried
<1>5. Order'
  BY <1>1 DEF Subscribe, Order, CarriedIsAcked, IdleIsUnsent, SubscribedFirst, DetachedIsDown
<1>6. Promises'
  BY <1>1 DEF Subscribe, Promises, OwnAnswer, FastAnswerIsHeard, ListenerCatchesUp, Matches
<1> QED BY <1>2, <1>3, <1>4, <1>5, <1>6 DEF Links

LEMMA PublishKeeps ==
  ASSUME IInv, NEW r \in Request, NEW y \in Relay, NEW said \in {"ok", "no"}, NEW took \in BOOLEAN,
         Publish(r, y, said, took)
  PROVE  Links' /\ Order' /\ Promises'
<1> USE DEF IInv
<1>1. /\ \A q \in Request, z \in Relay :
            ack'[q][z] # "none" <=> ack[q][z] # "none" \/ (q = r /\ z = y)
      /\ pc[r] # "idle" /\ (pc[r] = "waiting" => y \in sub[r])
  BY DEF Publish, TypeOK
<1>2. /\ \A q \in Request : carried[q] \subseteq carried'[q] /\ copies[q] \subseteq copies'[q]
      /\ \A q \in Request, z \in Relay :
            /\ z \in carried'[q] => z \in carried[q] \/ (q = r /\ z = y)
            /\ z \in copies'[q] => z \in copies[q] \/ z \in carried'[q]
            /\ z \in carried'[q] /\ z \notin carried[q] /\ z \in up /\ q \notin tooOld
                 => z \in copies'[q]
      /\ \A q \in Request : copies'[q] \subseteq Relay
  <2>1. carried \in [Request -> SUBSET Relay] /\ copies \in [Request -> SUBSET Relay]
    BY DEF TypeOK
  <2>2. \/ UNCHANGED <<carried, copies>>
        \/ /\ carried' = [carried EXCEPT ![r] = @ \cup {y}]
           /\ copies' = copies /\ ~(y \in up /\ r \notin tooOld)
        \/ /\ carried' = [carried EXCEPT ![r] = @ \cup {y}]
           /\ copies' = [copies EXCEPT ![r] = @ \cup {y}]
    BY PublishCases
  <2>3. CASE UNCHANGED <<carried, copies>>
    BY <2>1, <2>3
  <2>4. CASE carried' = [carried EXCEPT ![r] = @ \cup {y}] /\ copies' = copies
             /\ ~(y \in up /\ r \notin tooOld)
    BY <2>1, <2>4
  <2>5. CASE carried' = [carried EXCEPT ![r] = @ \cup {y}] /\ copies' = [copies EXCEPT ![r] = @ \cup {y}]
    BY <2>1, <2>5
  <2> QED BY <2>2, <2>3, <2>4, <2>5
<1>3. Links'
  <2>1. CopiesWereCarried'
    BY <1>2 DEF Publish, CopiesWereCarried
  <2> QED BY <2>1 DEF Publish, Links, IncomingIsOwn, ResponsesWereMade
<1>4. Order'
  BY <1>1, <1>2 DEF Publish, Order, CarriedIsAcked, IdleIsUnsent, SubscribedFirst, DetachedIsDown
<1>5. OwnAnswer' /\ FastAnswerIsHeard'
  BY <1>2 DEF Publish, OwnAnswer, FastAnswerIsHeard, Matches
<1>6. ListenerCatchesUp'
  BY <1>2 DEF Publish, TypeOK, ListenerCatchesUp
<1> QED BY <1>3, <1>4, <1>5, <1>6 DEF Promises

(* The three ways out of send(), and close(): subscriptions go, and a      *)
(* request that resolves does so with what its subscription let through.   *)
LEMMA LeavingKeeps ==
  ASSUME IInv, TypeOK', UNCHANGED <<storable, ack, carried, listener>>,
         \A q \in Request :
           \/ pc'[q] = pc[q] /\ sub'[q] = sub[q] /\ incoming'[q] = incoming[q]
              /\ answeredBy'[q] = answeredBy[q]
           \/ /\ pc'[q] \notin {"idle", "waiting"} /\ sub'[q] = {} /\ incoming'[q] = {}
              /\ pc'[q] = "resolved" =>
                   \/ pc[q] = "resolved" /\ answeredBy'[q] = answeredBy[q]
                   \/ \E e \in incoming[q] \cup FromOthers(q) : IsResponse(e) /\ answeredBy'[q] = {e}
           \/ /\ pc'[q] = pc[q] /\ pc[q] # "waiting" /\ sub'[q] = {} /\ incoming'[q] = {}
              /\ answeredBy'[q] = answeredBy[q]
  PROVE  Links' /\ Order' /\ Promises'
<1> USE DEF IInv, listener
<1>1. Links'
  BY DEF Links, IncomingIsOwn, ResponsesWereMade, CopiesWereCarried
<1>2. Order'
  BY DEF Order, CarriedIsAcked, IdleIsUnsent, SubscribedFirst, DetachedIsDown
<1>3. OwnAnswer'
  <2> SUFFICES ASSUME NEW q \in Request, pc'[q] = "resolved"
               PROVE  \E e \in answeredBy'[q] :
                        /\ e.names = q
                        /\ e.from = Listener =>
                             handler[q] = "answered" /\ via[q] \cap carried[q] # {}
    BY DEF OwnAnswer
  <2>1. CASE pc[q] = "resolved" /\ answeredBy'[q] = answeredBy[q]
    BY <2>1 DEF OwnAnswer
  <2>2. ASSUME NEW e \in incoming[q], answeredBy'[q] = {e}
        PROVE  e.names = q /\ handler[q] = "answered" /\ via[q] \cap carried[q] # {}
    <3>1. e = ResponseTo(q) /\ handler[q] = "answered"
      BY <2>2 DEF IncomingIsOwn, ResponsesWereMade
    <3>2. via[q] # {} /\ via[q] \subseteq carried[q]
      BY <3>1 DEF CopiesWereCarried
    <3> QED BY <3>1, <3>2, Responses
  <2>3. ASSUME NEW e \in FromOthers(q), IsResponse(e)
        PROVE  e.names = q /\ e.from # Listener
    BY <2>3, Responses
  <2> QED BY <2>1, <2>2, <2>3
<1>4. FastAnswerIsHeard' /\ ListenerCatchesUp'
  BY DEF FastAnswerIsHeard, ListenerCatchesUp, Matches
<1> QED BY <1>1, <1>2, <1>3, <1>4 DEF Promises

LEMMA ListenerKeeps ==
  ASSUME IInv, Listen \/ Detach \/ \E y \in Relay : Attach(y)
  PROVE  Links' /\ Order' /\ Promises'
<1> USE DEF IInv, requester
<1>1. CASE Listen
  <2>1. Links'
    BY <1>1 DEF Listen, Links, IncomingIsOwn, ResponsesWereMade, CopiesWereCarried
  <2>2. Order'
    BY <1>1 DEF Listen, Order, CarriedIsAcked, IdleIsUnsent, SubscribedFirst, DetachedIsDown
  <2>3. Promises'
    BY <1>1 DEF Listen, Promises, OwnAnswer, FastAnswerIsHeard, Matches, ListenerCatchesUp,
                DetachedIsDown
  <2> QED BY <2>1, <2>2, <2>3
<1>2. CASE Detach
  <2>1. Links'
    BY <1>2 DEF Detach, Links, IncomingIsOwn, ResponsesWereMade, CopiesWereCarried
  <2>2. Order'
    BY <1>2 DEF Detach, Order, CarriedIsAcked, IdleIsUnsent, SubscribedFirst, DetachedIsDown
  <2>3. Promises'
    BY <1>2 DEF Detach, Promises, OwnAnswer, FastAnswerIsHeard, Matches, ListenerCatchesUp
  <2> QED BY <2>1, <2>2, <2>3
<1>3. ASSUME NEW y \in Relay, Attach(y) PROVE Links' /\ Order' /\ Promises'
  <2>1. /\ \A r \in Request :
             copies'[r] = IF y \in carried[r] /\ storable[r] /\ r \notin tooOld
                          THEN copies[r] \cup {y} ELSE copies[r]
        /\ up' = up \cup {y} /\ listening
    BY <1>3 DEF Attach
  <2>2. Links'
    BY <1>3, <2>1 DEF Attach, Links, IncomingIsOwn, ResponsesWereMade, CopiesWereCarried
  <2>3. Order'
    BY <1>3 DEF Attach, Order, CarriedIsAcked, IdleIsUnsent, SubscribedFirst, DetachedIsDown
  <2>4. OwnAnswer' /\ FastAnswerIsHeard'
    BY <1>3 DEF Attach, OwnAnswer, FastAnswerIsHeard, Matches
  <2>5. ListenerCatchesUp'
    BY <1>3, <2>1 DEF Attach, ListenerCatchesUp
  <2> QED BY <2>2, <2>3, <2>4, <2>5 DEF Promises
<1> QED BY <1>1, <1>2, <1>3

LEMMA DeliverKeeps ==
  ASSUME IInv, NEW r \in Request, NEW y \in Relay, Deliver(r, y)
  PROVE  Links' /\ Order' /\ Promises'
<1> USE DEF IInv, requester
<1>1. /\ \A q \in Request : copies'[q] \subseteq copies[q] /\ (q # r => copies'[q] = copies[q])
      /\ \A q \in Request : handler[q] # "none" => handler'[q] = handler[q] /\ via'[q] = via[q]
      /\ \A q \in Request : q # r => handler'[q] = handler[q] /\ via'[q] = via[q]
      /\ handler[r] = "none" => handler'[r] = "handling" /\ via'[r] = {y}
      /\ y \in carried[r] /\ handler'[r] # "none"
  BY DEF Deliver, TypeOK, CopiesWereCarried
<1>2. Links'
  <2>1. IncomingIsOwn' /\ ResponsesWereMade'
    BY <1>1 DEF Deliver, IncomingIsOwn, ResponsesWereMade
  <2>2. CopiesWereCarried'
    BY <1>1 DEF Deliver, CopiesWereCarried
  <2> QED BY <2>1, <2>2 DEF Links
<1>3. Order'
  BY DEF Deliver, Order, CarriedIsAcked, IdleIsUnsent, SubscribedFirst, DetachedIsDown
<1>4. OwnAnswer' /\ ListenerCatchesUp'
  BY <1>1 DEF Deliver, OwnAnswer, ListenerCatchesUp
<1>5. FastAnswerIsHeard'
  <2>1. \A q \in Request : handler[q] = "none" => answers[q] = {}
    BY DEF ResponsesWereMade
  <2> QED BY <1>1, <2>1 DEF Deliver, FastAnswerIsHeard, Matches
<1> QED BY <1>2, <1>3, <1>4, <1>5 DEF Promises

(* Until the handler returns there is no response whose age could change. *)
LEMMA HandlerKeeps ==
  ASSUME IInv, NEW r \in Request, HandlerReturns(r) \/ HandlerSilent(r)
  PROVE  Links' /\ Order' /\ Promises'
<1> USE DEF IInv, requester
<1>1. /\ handler[r] = "handling" /\ handler'[r] # "none"
      /\ \A q \in Request \ {r} : handler'[q] = handler[q] /\ elapsed'[q] = elapsed[q]
      /\ UNCHANGED <<requester, listens, listening, tooOld, up, copies, via, answers>>
  <2>1. CASE HandlerReturns(r)
    BY <2>1 DEF HandlerReturns, TypeOK
  <2>2. CASE HandlerSilent(r)
    BY <2>2 DEF HandlerSilent, TypeOK
  <2> QED BY <2>1, <2>2
<1>6. answers[r] = {} /\ incoming[r] = {}
  BY <1>1 DEF ResponsesWereMade
<1>2. Links'
  BY <1>1, <1>6 DEF Links, IncomingIsOwn, ResponsesWereMade, CopiesWereCarried
<1>3. Order'
  BY <1>1 DEF Order, CarriedIsAcked, IdleIsUnsent, SubscribedFirst, DetachedIsDown
<1>4. OwnAnswer' /\ ListenerCatchesUp'
  BY <1>1 DEF OwnAnswer, ListenerCatchesUp
<1>5. FastAnswerIsHeard'
  BY <1>1, <1>6 DEF FastAnswerIsHeard, Matches
<1> QED BY <1>2, <1>3, <1>4, <1>5 DEF Promises

LEMMA RespondKeeps ==
  ASSUME IInv, NEW r \in Request, NEW y \in Relay, Respond(r, y)
  PROVE  Links' /\ Order' /\ Promises'
<1> USE DEF IInv
<1>1. /\ handler[r] = "answered"
      /\ \A q \in Request : q # r => answers'[q] = answers[q] /\ incoming'[q] = incoming[q]
      /\ answers'[r] = answers[r] \cup {y} /\ incoming[r] \subseteq incoming'[r]
      /\ incoming'[r] \subseteq incoming[r] \cup {ResponseTo(r)}
      /\ y \in sub[r] /\ Matches(r, ResponseTo(r)) => ResponseTo(r) \in incoming'[r]
  BY Responses DEF Respond, TypeOK
<1>2. Links'
  BY <1>1 DEF Respond, Links, IncomingIsOwn, ResponsesWereMade, CopiesWereCarried
<1>3. Order'
  BY DEF Respond, Order, CarriedIsAcked, IdleIsUnsent, SubscribedFirst, DetachedIsDown
<1>4. OwnAnswer' /\ ListenerCatchesUp'
  BY DEF Respond, OwnAnswer, ListenerCatchesUp
<1>5. FastAnswerIsHeard'
  <2> SUFFICES ASSUME NEW q \in Request, pc[q] = "waiting", via[q] \cap answers'[q] # {},
                      Matches(q, ResponseTo(q))
               PROVE  ResponseTo(q) \in incoming'[q]
    BY DEF FastAnswerIsHeard, Respond, Matches
  <2>1. CASE via[q] \cap answers[q] # {}
    BY <1>1, <2>1 DEF FastAnswerIsHeard
  <2>2. CASE q = r /\ y \in via[r]
    BY <1>1, <2>2 DEF CopiesWereCarried, CarriedIsAcked, SubscribedFirst
  <2> QED BY <1>1, <2>1, <2>2
<1> QED BY <1>2, <1>3, <1>4, <1>5 DEF Promises

-----------------------------------------------------------------------------
LEMMA StepIInv == IInv /\ [Next]_vars => IInv'
<1> SUFFICES ASSUME IInv, [Next]_vars PROVE IInv'
  OBVIOUS
<1>0. TypeOK'
  BY TypeStep DEF IInv
<1> SUFFICES Links' /\ Order' /\ Promises'
  BY <1>0 DEF IInv, Links, Order, Promises
<1>1. CASE UNCHANGED vars
  <2> USE <1>1 DEF vars, IInv
  <2>1. Links'
    BY DEF Links, IncomingIsOwn, ResponsesWereMade, CopiesWereCarried
  <2>2. Order'
    BY DEF Order, CarriedIsAcked, IdleIsUnsent, SubscribedFirst, DetachedIsDown
  <2>3. Promises'
    BY DEF Promises, OwnAnswer, FastAnswerIsHeard, ListenerCatchesUp, Matches
  <2> QED BY <2>1, <2>2, <2>3
<1>2. CASE Close
  BY <1>0, <1>2, LeavingKeeps DEF Close
<1>3. CASE Listen \/ Detach \/ \E y \in Relay : Attach(y)
  BY <1>3, ListenerKeeps
<1>4. ASSUME NEW r \in Request, RequestStep(r) PROVE Links' /\ Order' /\ Promises'
  <2>1. CASE Send(r)
    BY <2>1, SendKeeps
  <2>2. ASSUME NEW why, Fail(r, why) PROVE Links' /\ Order' /\ Promises'
    BY <1>0, <2>2, LeavingKeeps DEF Fail, Settle, Pending, IInv, TypeOK
  <2>3. CASE HandlerReturns(r) \/ HandlerSilent(r)
    BY <2>3, HandlerKeeps
  <2>4. ASSUME NEW e, Receive(r, e) PROVE Links' /\ Order' /\ Promises'
    <3>1. CASE IsResponse(e)
      BY <1>0, <2>4, <3>1, LeavingKeeps DEF Receive, Settle, IInv, TypeOK
    (* What is passed over is not the listener's, so nothing is lost. *)
    <3>2. CASE ~IsResponse(e)
      <4>1. e \notin incoming[r]
        BY <3>2, Responses DEF IInv, IncomingIsOwn
      <4>2. incoming' = incoming
        <5>1. incoming' = [incoming EXCEPT ![r] = incoming[r] \ {e}] /\ incoming[r] \ {e} = incoming[r]
          BY <2>4, <3>2, <4>1 DEF Receive
        <5> QED BY <5>1 DEF IInv, TypeOK
      <4> QED BY <1>0, <2>4, <3>2, <4>2, LeavingKeeps DEF Receive
    <3> QED BY <3>1, <3>2
  <2>5. ASSUME NEW y \in Relay, Subscribe(r, y) \/ Deliver(r, y) \/ Respond(r, y)
        PROVE  Links' /\ Order' /\ Promises'
    BY <2>5, SubscribeKeeps, DeliverKeeps, RespondKeeps
  <2>6. ASSUME NEW y \in Relay, NEW said \in {"ok", "no"}, NEW took \in BOOLEAN,
               Publish(r, y, said, took)
        PROVE  Links' /\ Order' /\ Promises'
    BY <2>6, PublishKeeps
  <2> QED
    BY <1>4, <2>1, <2>2, <2>3, <2>4, <2>5, <2>6 DEF RequestStep, PublishFails, TimerFires
<1> QED BY <1>1, <1>2, <1>3, <1>4 DEF Next

(* The invariant above holds, for any requests, relays and clock skew.     *)
THEOREM Invariance == Spec => []IInv
<1>1. Init => IInv
  <2> SUFFICES ASSUME Init PROVE IInv
    OBVIOUS
  <2>1. TypeOK
    BY TypeInit
  <2>2. IncomingIsOwn /\ ResponsesWereMade /\ CopiesWereCarried /\ CarriedIsAcked
    BY DEF Init, IncomingIsOwn, ResponsesWereMade, CopiesWereCarried, CarriedIsAcked
  <2>3. IdleIsUnsent /\ SubscribedFirst /\ DetachedIsDown
    BY DEF Init, IdleIsUnsent, SubscribedFirst, DetachedIsDown
  <2>4. OwnAnswer /\ FastAnswerIsHeard /\ ListenerCatchesUp
    BY DEF Init, OwnAnswer, FastAnswerIsHeard, ListenerCatchesUp
  <2> QED BY <2>1, <2>2, <2>3, <2>4 DEF IInv
<1> QED BY <1>1, StepIInv, PTL DEF Spec

(* send() resolves with an event that names its own request, whoever       *)
(* publishes what for it; and if the answer says it is from the agent the  *)
(* request was sent to, that agent took the request from a relay that      *)
(* carried it, and answered it.  An answer from another agent is accepted. *)
THEOREM OwnAnswerHolds == Spec => []OwnAnswer
<1>1. IInv => OwnAnswer
  BY DEF IInv
<1> QED BY <1>1, Invariance, PTL

(* The subscription for the response is at every relay before the request, *)
(* so no relay that brought the request can hold back a response to it.    *)
THEOREM FastAnswerIsHeardHolds == Spec => []FastAnswerIsHeard
<1>1. IInv => FastAnswerIsHeard
  BY DEF IInv
<1> QED BY <1>1, Invariance, PTL

(* The listener misses no storable request that is at a relay it reached.  *)
THEOREM ListenerCatchesUpHolds == Spec => []ListenerCatchesUp
<1>1. IInv => ListenerCatchesUp
  BY DEF IInv
<1> QED BY <1>1, Invariance, PTL
===============================================================================
