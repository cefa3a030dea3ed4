--------------------------- MODULE HttpTransportProofs ---------------------------
(***************************************************************************)
(* Proofs about HTTP exchanges: any number of them, streams of any length, *)
(* any number of servers one after the other, with or without a card.  The *)
(* second part is about the bytes of one event stream: any number of       *)
(* events, any texts, characters of any size, chunks that end anywhere.    *)
(***************************************************************************)
EXTENDS HttpTransport, EventStream, SequenceTheorems, TLAPS

(* Only an open server is in use. *)
InUseIsOpen == server # 0 => state[server] = "open"

(* A request that was not made has left no trace. *)
IdleIsUnborn ==
  \A x \in Exchange : client[x] = "idle" => serving[x] = "none"

(* Who waits for an answer still has the connection. *)
WaitingIsConnected == \A x \in Exchange : Waiting(x) => conn[x]

(* Nothing is read that was not written. *)
GotWasSent == \A x \in Exchange : got[x] <= sent[x]

(* What the header holds while the exchange is served, and afterwards. *)
StatusFits ==
  \A x \in Exchange :
    /\ serving[x] \in {"none", "reading", "handling"} => sent[x] = 0 /\ status[x] = 0
    /\ serving[x] = "handling" => kind[x] \in {"send", "stream"}
    /\ serving[x] \in {"streaming", "abandoned"} => kind[x] = "stream" /\ status[x] = 200
    /\ serving[x] = "ended" =>
         /\ kind[x] = "card" => status[x] = IF HasCard THEN 200 ELSE 404
         /\ kind[x] = "other" => status[x] \in {400, 500}

(* The body is read after a header that promised one. *)
BodyHasHeader ==
  \A x \in Exchange :
    client[x] = "body" =>
      serving[x] \in {"streaming", "abandoned", "ended"} /\ status[x] \in {200, 204}

Served ==
  /\ IdleIsUnborn /\ WaitingIsConnected /\ GotWasSent /\ StatusFits /\ BodyHasHeader
  /\ DoneMeansAnswered

IInv == TypeOK /\ InUseIsOpen /\ Served /\ CloseDrains

LEMMA InitIInv == Init => IInv
  BY HttpAssumption DEF Init, IInv, TypeOK, InUseIsOpen, Served, IdleIsUnborn,
     WaitingIsConnected, GotWasSent, StatusFits, BodyHasHeader, DoneMeansAnswered,
     CloseDrains, Waiting, Kinds, Servers

(* The server answers: what every use of Respond() in handleRequest() owes *)
(* the header.                                                             *)
LEMMA RespondKeeps ==
  ASSUME IInv, NEW x \in Exchange,
         NEW from \in {"reading", "handling", "streaming"},
         NEW to \in {"handling", "streaming", "abandoned", "ended"},
         NEW code \in {0, 200, 204, 400, 404, 500},
         Respond(x, from, to, code),
         to = "handling" => code = 0 /\ from = "reading" /\ kind[x] \in {"send", "stream"},
         to \in {"streaming", "abandoned"} => kind[x] = "stream" /\ code = 200,
         from = "streaming" => to # "streaming" /\ code = 200,
         to = "ended" =>
           /\ kind[x] = "card" => code = IF HasCard THEN 200 ELSE 404
           /\ kind[x] = "other" => code \in {400, 500}
  PROVE  IInv'
<1> USE DEF IInv, TypeOK, Respond, clientVars, serverVars
<1>1. TypeOK'
  OBVIOUS
<1>2. InUseIsOpen'
  BY DEF InUseIsOpen
<1>3. IdleIsUnborn' /\ WaitingIsConnected' /\ GotWasSent'
  BY DEF Served, IdleIsUnborn, WaitingIsConnected, GotWasSent, Waiting
<1>4. StatusFits'
  BY DEF Served, StatusFits
<1>5. BodyHasHeader'
  BY DEF Served, BodyHasHeader
<1>6. DoneMeansAnswered'
  BY DEF Served, DoneMeansAnswered
<1>7. CloseDrains'
  BY DEF CloseDrains, Waiting
<1> QED BY <1>1, <1>2, <1>3, <1>4, <1>5, <1>6, <1>7 DEF Served

LEMMA ServeKeeps == ASSUME IInv, NEW x \in Exchange, Serve(x) PROVE IInv'
<1>0. kind[x] \in Kinds
  BY DEF IInv, TypeOK
<1>1. CASE NotServed(x)
  BY <1>1, RespondKeeps DEF NotServed
<1>2. CASE ServeCard(x)
  BY <1>2, RespondKeeps DEF ServeCard
<1>3. CASE ReadBodyFails(x)
  BY <1>3, RespondKeeps DEF ReadBodyFails
<1>4. CASE StartStream(x)
  BY <1>4, RespondKeeps DEF StartStream
<1>5. CASE StartHandler(x)
  BY <1>5, RespondKeeps DEF StartHandler, WantsOne
<1>6. CASE NoHandler(x)
  BY <1>6, RespondKeeps DEF NoHandler, WantsOne
<1>7. CASE HandlerReturns(x) \/ HandlerThrows(x)
  <2>1. PICK code \in {200, 204, 500} : Respond(x, "handling", "ended", code)
    BY <1>7 DEF HandlerReturns, HandlerThrows
  <2>2. kind[x] \in {"send", "stream"}
    BY <2>1 DEF IInv, Served, StatusFits, Respond
  <2> QED BY <2>1, <2>2, RespondKeeps
<1>8. CASE StreamEnds(x) \/ StreamThrows(x)
  <2>1. PICK to \in {"ended", "abandoned"} : Respond(x, "streaming", to, 200)
    BY <1>8 DEF StreamEnds, StreamThrows
  <2>2. kind[x] = "stream"
    BY <2>1 DEF IInv, Served, StatusFits, Respond
  <2> QED BY <2>1, <2>2, RespondKeeps
<1>9. CASE Yield(x)
  <2> USE <1>9 DEF IInv, TypeOK, Yield, clientVars, serverVars
  <2>1. TypeOK' /\ InUseIsOpen'
    BY HttpAssumption DEF InUseIsOpen
  <2>2. IdleIsUnborn' /\ WaitingIsConnected' /\ GotWasSent'
    BY DEF Served, IdleIsUnborn, WaitingIsConnected, GotWasSent, Waiting
  <2>3. StatusFits' /\ BodyHasHeader'
    BY DEF Served, StatusFits, BodyHasHeader
  <2>4. DoneMeansAnswered'
    BY DEF Served, DoneMeansAnswered
  <2>5. CloseDrains'
    BY DEF CloseDrains, Waiting
  <2> QED BY <2>1, <2>2, <2>3, <2>4, <2>5 DEF Served
<1> QED BY <1>1, <1>2, <1>3, <1>4, <1>5, <1>6, <1>7, <1>8, <1>9 DEF Serve

LEMMA SetFlag ==
  ASSUME NEW f \in [Exchange -> BOOLEAN], NEW x \in Exchange, NEW b \in BOOLEAN
  PROVE  [f EXCEPT ![x] = b] \in [Exchange -> BOOLEAN]
OBVIOUS

(* A request is made: to a server that is open, or to none. *)
LEMMA PostKeeps ==
  ASSUME IInv, NEW x \in Exchange, NEW k \in Kinds, Post(x, k) PROVE IInv'
<1> USE DEF IInv, TypeOK, Post, serverVars
<1>1. serving[x] = "none" /\ sent[x] = 0 /\ status[x] = 0
  BY DEF Served, IdleIsUnborn, StatusFits
<1>2. TypeOK' /\ InUseIsOpen'
  <2>1. kind' \in [Exchange -> Kinds] /\ InUseIsOpen'
    BY DEF InUseIsOpen
  <2>2. CASE server = 0
    BY <2>1, <2>2
  <2>3. CASE server # 0
    <3> DEFINE b == k \notin {"stream", "card"}
    <3>0. b \in BOOLEAN /\ timer' = [timer EXCEPT ![x] = b]
      BY <2>3, Zenon
    <3> HIDE DEF b
    <3>1. timer' \in [Exchange -> BOOLEAN]
      BY <3>0, SetFlag, Zenon
    <3>2. /\ client' = [client EXCEPT ![x] = "fetching"]
          /\ via' = [via EXCEPT ![x] = server]
          /\ conn' = [conn EXCEPT ![x] = TRUE]
          /\ serving' = [serving EXCEPT ![x] = "reading"]
      BY <2>3, Zenon
    <3>3. conn' \in [Exchange -> BOOLEAN]
      BY <3>2, SetFlag
    <3>4. /\ client' \in [Exchange -> {"idle", "fetching", "body", "left", "done", "failed"}]
          /\ via' \in [Exchange -> 0 .. MaxServers]
          /\ serving' \in [Exchange ->
               {"none", "reading", "handling", "streaming", "abandoned", "ended"}]
      BY <3>2
    <3> HIDE DEF Post
    <3>5. UNCHANGED <<server, handlers, state, status, sent, got>>
      BY DEF Post
    <3> QED BY <2>1, <3>1, <3>3, <3>4, <3>5
  <2> QED BY <2>1, <2>2, <2>3
<1>3. IdleIsUnborn' /\ WaitingIsConnected' /\ GotWasSent'
  BY DEF Served, IdleIsUnborn, WaitingIsConnected, GotWasSent, Waiting
<1>4. StatusFits' /\ BodyHasHeader'
  BY <1>1 DEF Served, StatusFits, BodyHasHeader
<1>5. DoneMeansAnswered'
  BY DEF Served, DoneMeansAnswered
<1>6. CloseDrains'
  BY DEF CloseDrains, InUseIsOpen, Waiting
<1> QED BY <1>2, <1>3, <1>4, <1>5, <1>6 DEF Served

(* Settling, or losing the connection, takes the client out of waiting.    *)
LEMMA EndKeeps ==
  ASSUME IInv, NEW x \in Exchange, NEW as \in {"left", "done", "failed"},
         client[x] # "idle",
         Settle(x, as), conn' = conn \/ conn' = [conn EXCEPT ![x] = FALSE],
         UNCHANGED <<serverVars, via, kind, serving, status, sent, got>>,
         as = "done" =>
           /\ serving[x] = "ended" /\ client[x] = "body"
           /\ kind[x] = "stream" => got[x] = sent[x]
           /\ status[x] # 204
  PROVE  IInv'
<1> USE DEF IInv, TypeOK, Settle, serverVars
<1>1. TypeOK' /\ InUseIsOpen'
  <2>1. /\ timer' = [timer EXCEPT ![x] = FALSE]
        /\ timer \in [Exchange -> BOOLEAN] /\ conn \in [Exchange -> BOOLEAN]
    BY Zenon
  <2>2. timer' \in [Exchange -> BOOLEAN] /\ conn' \in [Exchange -> BOOLEAN]
    BY ONLY x \in Exchange, <2>1, SetFlag,
            conn' = conn \/ conn' = [conn EXCEPT ![x] = FALSE]
  <2>3. client' \in [Exchange -> {"idle", "fetching", "body", "left", "done", "failed"}]
    OBVIOUS
  <2>4. UNCHANGED <<server, handlers, state, via, kind, serving, status, sent, got>>
    BY Zenon
  <2>5. InUseIsOpen'
    BY <2>4, Zenon DEF InUseIsOpen
  <2>6. TypeOK'
    BY ONLY TypeOK, <2>2, <2>3, <2>4 DEF TypeOK
  <2> QED BY <2>5, <2>6
<1>0. /\ \A y \in Exchange : y # x => client'[y] = client[y]
      /\ client'[x] = as
  OBVIOUS
<1>2. IdleIsUnborn' /\ BodyHasHeader'
  <2>1. UNCHANGED <<serving, status>> /\ as \notin {"idle", "body"}
    OBVIOUS
  <2>2. IdleIsUnborn'
    BY ONLY <1>0, <2>1, Served DEF Served, IdleIsUnborn
  <2>3. BodyHasHeader'
    <3> SUFFICES ASSUME NEW y \in Exchange, client'[y] = "body"
                 PROVE  serving'[y] \in {"streaming", "abandoned", "ended"}
                        /\ status'[y] \in {200, 204}
      BY DEF BodyHasHeader
    <3>1. client[y] = "body"
      BY <1>0, <2>1, Zenon
    <3>2. serving[y] \in {"streaming", "abandoned", "ended"} /\ status[y] \in {200, 204}
      BY <3>1, Zenon DEF Served, BodyHasHeader
    <3> QED BY <2>1, <3>2, Zenon
  <2> QED BY <2>2, <2>3
<1>6. GotWasSent' /\ StatusFits'
  BY DEF Served, GotWasSent, StatusFits
<1>3. WaitingIsConnected'
  <2>1. \A y \in Exchange : y # x /\ conn[y] => conn'[y]
    <3>1. CASE conn' = conn
      BY <3>1
    <3>2. CASE conn' = [conn EXCEPT ![x] = FALSE]
      BY <3>2
    <3> QED BY <3>1, <3>2
  <2>2. as \notin {"fetching", "body"}
    OBVIOUS
  <2> QED BY ONLY <1>0, <2>1, <2>2, Served DEF Served, WaitingIsConnected, Waiting
<1>4. DoneMeansAnswered'
  <2> SUFFICES ASSUME NEW y \in Exchange, client'[y] = "done"
               PROVE  /\ serving[y] = "ended" /\ status[y] = 200
                      /\ kind[y] # "other"
                      /\ kind[y] = "card" => HasCard
                      /\ kind[y] = "stream" => got[y] = sent[y]
    BY DEF DoneMeansAnswered
  <2>1. CASE y = x
    BY <2>1 DEF Served, StatusFits, BodyHasHeader
  <2>2. CASE y # x
    BY <2>2 DEF Served, DoneMeansAnswered
  <2> QED BY <2>1, <2>2
<1>5. CloseDrains'
  BY DEF CloseDrains, Waiting
<1> QED BY <1>1, <1>2, <1>3, <1>4, <1>5, <1>6 DEF Served

LEMMA ClientKeeps == ASSUME IInv, NEW x \in Exchange, ClientStep(x) PROVE IInv'
<1>1. CASE FetchResolves(x)
  <2> USE <1>1 DEF FetchResolves, serverVars
  <2>1. CASE HeaderIsGood(x)
    <3> USE <2>1 DEF IInv, TypeOK
    <3>1. TypeOK' /\ InUseIsOpen'
      <4>1. client' \in [Exchange -> {"idle", "fetching", "body", "left", "done", "failed"}]
        BY <2>1
      <4> DEFINE b == kind[x] # "card"
      <4>0. b \in BOOLEAN /\ timer' = [timer EXCEPT ![x] = b]
        BY <2>1, Zenon
      <4> HIDE DEF b
      <4>2. timer' \in [Exchange -> BOOLEAN]
        BY <4>0, SetFlag, Zenon
      <4> QED BY <4>1, <4>2 DEF InUseIsOpen
    <3>2. IdleIsUnborn' /\ GotWasSent' /\ StatusFits' /\ WaitingIsConnected'
      BY DEF Served, IdleIsUnborn, GotWasSent, StatusFits, WaitingIsConnected, Waiting
    <3>3. BodyHasHeader'
      <4>1. serving[x] \in {"streaming", "abandoned", "ended"}
        BY DEF Served, StatusFits, HeaderArrived
      <4> QED BY <4>1 DEF Served, BodyHasHeader, HeaderIsGood
    <3>4. DoneMeansAnswered'
      BY DEF Served, DoneMeansAnswered
    <3>5. CloseDrains'
      BY DEF CloseDrains, Waiting
    <3> QED BY <3>1, <3>2, <3>3, <3>4, <3>5 DEF Served
  <2>2. CASE ~HeaderIsGood(x)
    BY <2>2, EndKeeps
  <2> QED BY <2>1, <2>2
<1>2. CASE ReadEvent(x)
  <2> USE <1>2 DEF IInv, TypeOK, ReadEvent, serverVars
  <2>1. TypeOK' /\ InUseIsOpen'
    BY HttpAssumption DEF InUseIsOpen
  <2>2. IdleIsUnborn' /\ GotWasSent' /\ StatusFits' /\ WaitingIsConnected' /\ BodyHasHeader'
    BY DEF Served, IdleIsUnborn, GotWasSent, StatusFits, WaitingIsConnected, BodyHasHeader,
           Waiting
  <2>3. DoneMeansAnswered'
    BY DEF Served, DoneMeansAnswered
  <2>4. CloseDrains'
    BY DEF CloseDrains, Waiting
  <2> QED BY <2>1, <2>2, <2>3, <2>4 DEF Served
<1>3. CASE ReadEnd(x)
  BY <1>3, EndKeeps DEF ReadEnd
<1>4. CASE TimerFires(x) \/ ConnectionBreaks(x)
  BY <1>4, EndKeeps DEF TimerFires, ConnectionBreaks, Disconnect, Waiting
<1>5. CASE ConsumerLeaves(x)
  BY <1>5, EndKeeps DEF ConsumerLeaves
<1>6. CASE StackGivesUp(x)
  BY <1>6, EndKeeps DEF StackGivesUp, Disconnect
<1> QED BY <1>1, <1>2, <1>3, <1>4, <1>5, <1>6 DEF ClientStep

(* The server's own life does not touch the exchanges. *)
LEMMA ServedRests ==
  ASSUME Served, UNCHANGED <<clientVars, serving, status, sent>> PROVE Served'
BY DEF Served, clientVars, IdleIsUnborn, WaitingIsConnected, GotWasSent, StatusFits,
       BodyHasHeader, DoneMeansAnswered, Waiting

LEMMA ServerKeeps ==
  ASSUME IInv,
         \/ Close
         \/ \E handler \in {"one", "stream"} : Listen(handler)
         \/ \E s \in Servers : CloseResolves(s)
  PROVE  IInv'
<1> USE DEF IInv
<1>1. CASE Close
  <2> USE <1>1 DEF Close
  <2>1. Served'
    BY ServedRests
  <2>2. TypeOK' /\ InUseIsOpen'
    BY HttpAssumption DEF TypeOK, InUseIsOpen, clientVars, Servers
  <2>3. CloseDrains'
    BY DEF TypeOK, CloseDrains, Waiting, clientVars, Servers
  <2> QED BY <2>1, <2>2, <2>3
<1>2. ASSUME NEW handler \in {"one", "stream"}, Listen(handler) PROVE IInv'
  <2> USE <1>2 DEF Listen
  <2>1. Served'
    BY ServedRests
  <2>2. TypeOK' /\ InUseIsOpen'
    BY HttpAssumption DEF TypeOK, InUseIsOpen, clientVars, Servers, EnsureServer
  <2>3. CloseDrains'
    <3>1. \A s \in Servers : state'[s] = "closed" => state[s] = "closed"
      BY DEF TypeOK, EnsureServer
    <3>2. \A x \in Exchange : via[x] # 0 => via[x] \in Servers
      BY HttpAssumption DEF TypeOK, Servers
    <3> QED BY <3>1, <3>2 DEF CloseDrains, Waiting, clientVars
  <2> QED BY <2>1, <2>2, <2>3
<1>3. ASSUME NEW s \in Servers, CloseResolves(s) PROVE IInv'
  <2> USE <1>3 DEF CloseResolves
  <2>1. Served'
    BY ServedRests
  <2>2. TypeOK' /\ InUseIsOpen'
    BY HttpAssumption DEF TypeOK, InUseIsOpen, clientVars, Servers
  <2>3. CloseDrains'
    BY DEF TypeOK, Served, WaitingIsConnected, CloseDrains, Waiting, clientVars, Servers
  <2> QED BY <2>1, <2>2, <2>3
<1> QED BY <1>1, <1>2, <1>3

LEMMA StepIInv == IInv /\ [Next]_vars => IInv'
<1> SUFFICES ASSUME IInv, [Next]_vars PROVE IInv'
  OBVIOUS
<1>1. ASSUME NEW x \in Exchange, NEW k \in Kinds, Post(x, k) PROVE IInv'
  BY <1>1, PostKeeps
<1>2. ASSUME NEW x \in Exchange, ClientStep(x) PROVE IInv'
  BY <1>2, ClientKeeps
<1>3. ASSUME NEW x \in Exchange, Serve(x) PROVE IInv'
  BY <1>3, ServeKeeps
<1>4. CASE UNCHANGED vars
  <2> USE <1>4 DEF vars, clientVars, IInv
  <2>1. Served'
    BY ServedRests
  <2>2. TypeOK' /\ InUseIsOpen' /\ CloseDrains'
    BY DEF TypeOK, InUseIsOpen, CloseDrains, Waiting
  <2> QED BY <2>1, <2>2
<1> QED BY <1>1, <1>2, <1>3, <1>4, ServerKeeps DEF Next

-----------------------------------------------------------------------------
(* The theorems *)

(* The invariant above holds, however many exchanges and servers there are. *)
THEOREM Invariance == Spec => []IInv
<1> QED BY InitIInv, StepIInv, PTL DEF Spec

(* Every variable keeps its type; in particular no more events are read    *)
(* than were written.                                                      *)
THEOREM TypeCorrect == Spec => []TypeOK
<1>1. IInv => TypeOK
  BY DEF IInv
<1> QED BY <1>1, Invariance, PTL

(* A client reports success only when the server ended a 200 response, a   *)
(* stream only after every event of it was delivered, and discoverViaHttp() *)
(* only where a card was set.                                              *)
THEOREM DoneMeansAnsweredHolds == Spec => []DoneMeansAnswered
<1>1. IInv => DoneMeansAnswered
  BY DEF IInv, Served
<1> QED BY <1>1, Invariance, PTL

(* Once close() has resolved no client still waits for an answer: one that *)
(* has its connection has been answered, and no request gets in later.     *)
THEOREM CloseDrainsHolds == Spec => []CloseDrains
<1>1. IInv => CloseDrains
  BY DEF IInv
<1> QED BY <1>1, Invariance, PTL

-----------------------------------------------------------------------------
(* What SendSettles and CloseSettles rest on, as invariants: whoever waits *)
(* has something to come.                                                  *)

(* The abort timer runs exactly while send() waits, while the answer of a  *)
(* stream is read, and never after the call is over.                       *)
TimerFits ==
  \A x \in Exchange :
    /\ timer[x] => Waiting(x)
    /\ client[x] = "fetching" => (timer[x] <=> kind[x] \notin {"stream", "card"})
    /\ client[x] = "body" => (timer[x] <=> kind[x] # "card")

(* A response that is not ended and that close() would wait for, for its   *)
(* connection is up, has a client side the HTTP stack will give up.        *)
HeldIsWatched ==
  \A x \in Exchange :
    conn[x] /\ serving[x] # "ended" => client[x] \in {"fetching", "body", "left"}

WatchInv == TimerFits /\ HeldIsWatched

(* One exchange at a time: the parts of WatchInv for x. *)
TimerFitsAt(x) ==
  /\ timer[x] => Waiting(x)
  /\ client[x] = "fetching" => (timer[x] <=> kind[x] \notin {"stream", "card"})
  /\ client[x] = "body" => (timer[x] <=> kind[x] # "card")

HeldAt(x) == conn[x] /\ serving[x] # "ended" => client[x] \in {"fetching", "body", "left"}

LEMMA WatchedByOne == WatchInv <=> \A x \in Exchange : TimerFitsAt(x) /\ HeldAt(x)
BY Zenon DEF WatchInv, TimerFits, HeldIsWatched, TimerFitsAt, HeldAt

(* A step that leaves client, timer and kind of an exchange alone, and     *)
(* takes no response back that had ended.                                  *)
LEMMA WatchRests ==
  ASSUME NEW x \in Exchange, TimerFitsAt(x), HeldAt(x),
         client'[x] = client[x], timer'[x] = timer[x], kind'[x] = kind[x],
         conn'[x] = conn[x], serving'[x] # "ended" => serving[x] # "ended"
  PROVE  TimerFitsAt(x)' /\ HeldAt(x)'
<1>1. TimerFitsAt(x)'
  BY Zenon DEF TimerFitsAt, Waiting
<1>2. HeldAt(x)'
  BY Zenon DEF HeldAt
<1> QED BY <1>1, <1>2

(* A client that settles stops its timer, and has lost the connection, was *)
(* answered in full, or left in the middle of a stream.                    *)
LEMMA WatchSettled ==
  ASSUME TypeOK, NEW x \in Exchange, NEW as \in {"left", "done", "failed"}, Settle(x, as),
         serving' = serving,
         as = "left" \/ serving[x] = "ended" \/ conn' = [conn EXCEPT ![x] = FALSE]
  PROVE  TimerFitsAt(x)' /\ HeldAt(x)'
<1>1. client'[x] = as /\ ~timer'[x] /\ ~Waiting(x)'
  <2>1. client' = [client EXCEPT ![x] = as] /\ timer' = [timer EXCEPT ![x] = FALSE]
    BY Zenon DEF Settle
  <2>2. DOMAIN client = Exchange /\ DOMAIN timer = Exchange
    BY Zenon DEF TypeOK
  <2>3. client'[x] = as
    BY <2>1, <2>2
  <2>4. ~timer'[x]
    BY <2>1, <2>2, Zenon
  <2> QED BY <2>3, <2>4 DEF Waiting
<1>2. TimerFitsAt(x)'
  BY <1>1 DEF TimerFitsAt
<1>3. HeldAt(x)'
  <2>1. CASE as = "left"
    BY <1>1, <2>1 DEF HeldAt
  <2>2. CASE serving[x] = "ended"
    BY <2>2 DEF HeldAt
  <2>3. CASE conn' = [conn EXCEPT ![x] = FALSE]
    <3>1. DOMAIN conn = Exchange
      BY Zenon DEF TypeOK
    <3>2. ~conn'[x]
      BY <2>3, <3>1, Zenon
    <3> QED BY <3>2 DEF HeldAt
  <2> QED BY <2>1, <2>2, <2>3
<1> QED BY <1>2, <1>3

(* The steps of one exchange touch no other. *)
LEMMA OthersRest ==
  ASSUME TypeOK, NEW x \in Exchange, NEW y \in Exchange, y # x,
         (\E k \in Kinds : Post(x, k)) \/ ClientStep(x) \/ Serve(x)
  PROVE  /\ client'[y] = client[y] /\ timer'[y] = timer[y] /\ kind'[y] = kind[y]
         /\ conn'[y] = conn[y] /\ serving'[y] = serving[y]
<1> DEFINE Rest == /\ client'[y] = client[y] /\ timer'[y] = timer[y] /\ kind'[y] = kind[y]
                   /\ conn'[y] = conn[y] /\ serving'[y] = serving[y]
<1>0. /\ DOMAIN client = Exchange /\ DOMAIN timer = Exchange /\ DOMAIN kind = Exchange
      /\ DOMAIN conn = Exchange /\ DOMAIN serving = Exchange
  BY Zenon DEF TypeOK
<1>1. ASSUME NEW k \in Kinds, Post(x, k) PROVE Rest
  BY <1>0, <1>1, Zenon DEF Post
<1>2. CASE ClientStep(x)
  BY <1>0, <1>2, Zenon DEF ClientStep, FetchResolves, ReadEvent, ReadEnd, TimerFires,
     ConnectionBreaks, ConsumerLeaves, StackGivesUp, Disconnect, Settle
<1>3. CASE Serve(x)
  BY <1>0, <1>3, Zenon DEF Serve, NotServed, ServeCard, ReadBodyFails, StartStream, StartHandler,
     NoHandler, HandlerReturns, HandlerThrows, Yield, StreamEnds, StreamThrows, Respond,
     clientVars
<1> QED BY <1>1, <1>2, <1>3

LEMMA PostWatched ==
  ASSUME IInv, NEW x \in Exchange, TimerFitsAt(x), HeldAt(x), NEW k \in Kinds, Post(x, k)
  PROVE  TimerFitsAt(x)' /\ HeldAt(x)'
<1>1. /\ client \in [Exchange -> {"idle", "fetching", "body", "left", "done", "failed"}]
      /\ DOMAIN timer = Exchange /\ DOMAIN kind = Exchange
      /\ DOMAIN conn = Exchange /\ DOMAIN serving = Exchange
      /\ client[x] = "idle" /\ serving[x] = "none"
  BY Zenon DEF IInv, TypeOK, Served, IdleIsUnborn, Post
<1>2. ~timer[x] /\ ~conn[x]
  BY <1>1 DEF TimerFitsAt, HeldAt, Waiting
<1>3. CASE server = 0
  <2>1. client'[x] = "failed" /\ timer' = timer /\ conn' = conn
    BY <1>1, <1>3 DEF Post
  <2> QED BY <1>2, <2>1 DEF TimerFitsAt, HeldAt
<1>4. CASE server # 0
  <2>1. /\ client' = [client EXCEPT ![x] = "fetching"]
        /\ timer' = [timer EXCEPT ![x] = k \notin {"stream", "card"}]
        /\ kind' = [kind EXCEPT ![x] = k]
    BY <1>4, Zenon DEF Post
  <2>2. client'[x] = "fetching" /\ kind'[x] = k
    BY <1>1, <2>1
  <2>3. timer'[x] = (k \notin {"stream", "card"})
    BY <1>1, <2>1, Zenon
  <2> QED BY <2>2, <2>3, Zenon DEF TimerFitsAt, HeldAt, Waiting
<1> QED BY <1>3, <1>4

LEMMA ClientWatched ==
  ASSUME IInv, NEW x \in Exchange, TimerFitsAt(x), HeldAt(x), ClientStep(x)
  PROVE  TimerFitsAt(x)' /\ HeldAt(x)'
<1>0. TypeOK
  BY DEF IInv
<1>1. CASE FetchResolves(x)
  <2>1. CASE HeaderIsGood(x)
    <3>1. /\ client' = [client EXCEPT ![x] = "body"]
          /\ timer' = [timer EXCEPT ![x] = kind[x] # "card"]
          /\ UNCHANGED <<kind, conn, serving>>
      BY <1>1, <2>1, Zenon DEF FetchResolves
    <3>2. client'[x] = "body"
      BY <1>0, <3>1 DEF TypeOK
    <3>3. DOMAIN timer = Exchange
      BY <1>0, Zenon DEF TypeOK
    <3>4. timer'[x] = (kind[x] # "card")
      BY <3>1, <3>3, Zenon
    <3> QED BY <3>1, <3>2, <3>4, Zenon DEF TimerFitsAt, HeldAt, Waiting
  <2>2. CASE ~HeaderIsGood(x)
    <3>1. Settle(x, "failed") /\ serving' = serving
      BY <1>1, <2>2 DEF FetchResolves
    (* An answer that is still being written is a stream, begun with 200. *)
    <3>2. serving[x] = "ended"
      <4>1. /\ serving[x] = "ended" \/ sent[x] > 0
            /\ serving[x] \in {"none", "reading", "handling", "streaming", "abandoned", "ended"}
        BY <1>0, <1>1 DEF FetchResolves, HeaderArrived, TypeOK
      <4>2. serving[x] \in {"none", "reading", "handling"} => sent[x] = 0
        BY DEF IInv, Served, StatusFits
      <4>3. serving[x] \in {"streaming", "abandoned"} => status[x] = 200
        BY DEF IInv, Served, StatusFits
      <4>4. status[x] = 200 => HeaderIsGood(x)
        BY DEF HeaderIsGood
      <4> QED BY <2>2, <4>1, <4>2, <4>3, <4>4
    <3> QED BY <1>0, <3>1, <3>2, WatchSettled
  <2> QED BY <2>1, <2>2
<1>2. CASE ReadEvent(x)
  BY <1>2, WatchRests DEF ReadEvent
<1>3. CASE ReadEnd(x)
  <2>1. serving[x] = "ended" /\ serving' = serving
        /\ \E as \in {"left", "done", "failed"} : Settle(x, as)
    BY <1>3 DEF ReadEnd
  <2> QED BY <1>0, <2>1, WatchSettled
<1>4. CASE TimerFires(x) \/ ConnectionBreaks(x) \/ StackGivesUp(x)
  <2>1. /\ serving' = serving /\ conn' = [conn EXCEPT ![x] = FALSE]
        /\ \E as \in {"left", "done", "failed"} : Settle(x, as)
    BY <1>4 DEF TimerFires, ConnectionBreaks, StackGivesUp, Disconnect
  <2> QED BY <1>0, <2>1, WatchSettled
<1>5. CASE ConsumerLeaves(x)
  BY <1>0, <1>5, WatchSettled DEF ConsumerLeaves
<1> QED BY <1>1, <1>2, <1>3, <1>4, <1>5 DEF ClientStep

LEMMA ServeWatched ==
  ASSUME IInv, NEW x \in Exchange, TimerFitsAt(x), HeldAt(x), Serve(x)
  PROVE  TimerFitsAt(x)' /\ HeldAt(x)'
<1>1. UNCHANGED clientVars /\ serving[x] # "ended"
  BY Zenon DEF Serve, NotServed, ServeCard, ReadBodyFails, StartStream, StartHandler, NoHandler,
     HandlerReturns, HandlerThrows, Yield, StreamEnds, StreamThrows, Respond
<1> QED BY <1>1, WatchRests DEF clientVars

(* The timer runs while a call waits and may, and no response is held by   *)
(* a connection that nobody gives up: the invariant above.                 *)
THEOREM WatchInvariance == Spec => []WatchInv
<1>1. Init => WatchInv
  <2> SUFFICES ASSUME Init, NEW x \in Exchange PROVE TimerFitsAt(x) /\ HeldAt(x)
    BY WatchedByOne
  <2>1. client[x] = "idle" /\ ~timer[x] /\ ~conn[x]
    BY DEF Init
  <2> QED BY <2>1 DEF TimerFitsAt, HeldAt
<1>2. IInv /\ WatchInv /\ [Next]_vars => WatchInv'
  <2> SUFFICES ASSUME IInv, WatchInv, [Next]_vars PROVE WatchInv'
    OBVIOUS
  <2>0. TypeOK /\ \A y \in Exchange : TimerFitsAt(y) /\ HeldAt(y)
    BY WatchedByOne DEF IInv
  <2>1. ASSUME UNCHANGED <<client, timer, kind, conn, serving>> PROVE WatchInv'
    BY <2>1, Zenon DEF WatchInv, TimerFits, HeldIsWatched, Waiting
  <2>2. CASE \/ UNCHANGED vars \/ Close
             \/ \E handler \in {"one", "stream"} : Listen(handler)
             \/ \E s \in Servers : CloseResolves(s)
    BY <2>1, <2>2, Zenon DEF vars, Close, Listen, CloseResolves, clientVars
  <2>3. ASSUME NEW x \in Exchange, (\E k \in Kinds : Post(x, k)) \/ ClientStep(x) \/ Serve(x)
        PROVE  WatchInv'
    <3>1. TimerFitsAt(x)' /\ HeldAt(x)'
      BY <2>0, <2>3, PostWatched, ClientWatched, ServeWatched
    <3>2. ASSUME NEW y \in Exchange, y # x PROVE TimerFitsAt(y)' /\ HeldAt(y)'
      <4>1. /\ client'[y] = client[y] /\ timer'[y] = timer[y] /\ kind'[y] = kind[y]
            /\ conn'[y] = conn[y] /\ serving'[y] = serving[y]
        BY <2>0, <2>3, <3>2, OthersRest
      <4> QED BY <2>0, <4>1, WatchRests
    <3>3. \A y \in Exchange : TimerFitsAt(y)' /\ HeldAt(y)'
      BY <3>1, <3>2
    <3> QED BY <3>3, Zenon DEF WatchInv, TimerFits, HeldIsWatched, TimerFitsAt, HeldAt
  <2> QED BY <2>2, <2>3, Zenon DEF Next
<1> QED BY <1>1, <1>2, Invariance, PTL DEF Spec

(* send() never waits without its timer, and no timer outlives its call.   *)
THEOREM TimerFitsHolds == Spec => []TimerFits
<1>1. WatchInv => TimerFits
  BY DEF WatchInv
<1> QED BY <1>1, WatchInvariance, PTL

(* Whatever close() waits for ends with the handler, or with a client that *)
(* the HTTP stack gives up.                                                *)
THEOREM HeldIsWatchedHolds == Spec => []HeldIsWatched
<1>1. WatchInv => HeldIsWatched
  BY DEF WatchInv
<1> QED BY <1>1, WatchInvariance, PTL

-----------------------------------------------------------------------------
(* The bytes of an event stream *)

StreamTypeOK ==
  /\ written \in Seq(Document) /\ yielded \in Seq(Document)
  /\ body \in Seq(Char) /\ buffer \in Seq(Char)
  /\ ended \in BOOLEAN
  /\ reader \in {"fetching", "reading", "done", "failed"}
  /\ read \in 0 .. Len(body) /\ half \in Nat

(* The body is the events written, framed; or it is one document.          *)
(* ends[i] is the place where the i-th event ends.                         *)
Framed(ends) ==
  /\ ends[0] = 0
  /\ \A i \in 1 .. Len(written) :
       /\ ends[i] = ends[i - 1] + Len(written[i]) + 3
       /\ body[ends[i - 1] + 1] = "data"
       /\ \A j \in 1 .. Len(written[i]) : body[ends[i - 1] + 1 + j] = written[i][j]
       /\ body[ends[i] - 1] = "nl" /\ body[ends[i]] = "nl"
  /\ \/ Len(body) = ends[Len(written)]
     \/ written = <<>> /\ body \in Document /\ ended

(* The buffer holds what has arrived since the end of the last event that  *)
(* was yielded.                                                            *)
Buffered(ends) ==
  /\ ends[Len(yielded)] <= read
  /\ buffer = SubSeq(body, ends[Len(yielded)] + 1, read)

Yielded == Len(yielded) <= Len(written) /\ \A i \in 1 .. Len(yielded) : yielded[i] = written[i]

StreamInv ==
  /\ StreamTypeOK /\ Yielded
  /\ \E ends \in [0 .. Len(written) -> 0 .. Len(body)] :
       Framed(ends) /\ (reader # "done" => Buffered(ends))
  /\ reader = "done" => ended /\ yielded = written

(* What the operators on texts return. *)
LEMMA MinIs ==
  ASSUME NEW S \in SUBSET Int, NEW m \in S, \A y \in S : m <= y
  PROVE  Min(S) = m
<1>1. \E x \in S : \A y \in S : x <= y
  OBVIOUS
<1>2. Min(S) \in S /\ \A y \in S : Min(S) <= y
  BY <1>1, Zenon DEF Min
<1>3. \A x \in S : x <= m /\ m <= x => x = m
  OBVIOUS
<1> QED BY <1>2, <1>3

LEMMA DocumentFacts ==
  ASSUME NEW text \in Document
  PROVE  /\ text \in Seq(Char) /\ Len(text) \in Nat \ {0}
         /\ text[1] # "data"
         /\ \A i \in 1 .. Len(text) : text[i] # "nl"
<1>1. text \in Seq(Char) /\ text # <<>>
  BY StreamAssumption
<1>2. text[1] # "data" /\ \A i \in 1 .. Len(text) : text[i] # "nl"
  BY StreamAssumption, Zenon
<1> QED BY <1>1, <1>2, EmptySeq

LEMMA PrefixFacts ==
  ASSUME NEW event \in Seq(Char)
  PROVE  LET part == <<"data">> \o event IN
         /\ part \in Seq(Char) /\ Len(part) = Len(event) + 1
         /\ part[1] = "data"
         /\ \A i \in 1 .. Len(event) : part[i + 1] = event[i]
<1> DEFINE part == <<"data">> \o event
<1>1. <<"data">> \in Seq(Char) /\ Len(<<"data">>) = 1 /\ <<"data">>[1] = "data"
  BY StreamAssumption
<1>2. Len(event) \in Nat
  OBVIOUS
<1>3. /\ part \in Seq(Char) /\ Len(part) = 1 + Len(event)
      /\ \A i \in 1 .. 1 + Len(event) :
           part[i] = IF i <= 1 THEN <<"data">>[i] ELSE event[i - 1]
  BY <1>1, ConcatProperties
<1> HIDE DEF part
<1>4. \A i \in 1 .. Len(event) : part[i + 1] = event[i]
  <2> TAKE i \in 1 .. Len(event)
  <2>1. i + 1 \in 1 .. 1 + Len(event) /\ ~(i + 1 <= 1) /\ (i + 1) - 1 = i
    BY <1>2
  <2> QED BY <1>3, <2>1
<1>5. part[1] = "data"
  BY <1>1, <1>2, <1>3
<1> QED BY <1>2, <1>3, <1>4, <1>5 DEF part

LEMMA FrameFacts ==
  ASSUME NEW event \in Seq(Char)
  PROVE  /\ Frame(event) \in Seq(Char) /\ Len(Frame(event)) = Len(event) + 3
         /\ Frame(event)[1] = "data"
         /\ \A j \in 1 .. Len(event) : Frame(event)[1 + j] = event[j]
         /\ Frame(event)[Len(event) + 2] = "nl" /\ Frame(event)[Len(event) + 3] = "nl"
<1> DEFINE part == <<"data">> \o event
           blank == <<"nl", "nl">>
<1>1. blank \in Seq(Char) /\ Len(blank) = 2 /\ blank[1] = "nl" /\ blank[2] = "nl"
  BY StreamAssumption
<1>2. /\ part \in Seq(Char) /\ Len(part) = Len(event) + 1 /\ part[1] = "data"
      /\ \A i \in 1 .. Len(event) : part[i + 1] = event[i]
      /\ Len(event) \in Nat
  BY PrefixFacts
<1> HIDE DEF part, blank
<1>3. /\ part \o blank \in Seq(Char) /\ Len(part \o blank) = Len(part) + 2
      /\ \A i \in 1 .. Len(part) + 2 :
           (part \o blank)[i] = IF i <= Len(part) THEN part[i] ELSE blank[i - Len(part)]
  <2>1. /\ part \o blank \in Seq(Char) /\ Len(part \o blank) = Len(part) + Len(blank)
        /\ \A i \in 1 .. Len(part) + Len(blank) :
             (part \o blank)[i] = IF i <= Len(part) THEN part[i] ELSE blank[i - Len(part)]
    BY <1>1, <1>2, ConcatProperties
  <2> QED BY <1>1, <2>1
<1>4. Frame(event) = part \o blank
  BY DEF Frame, part, blank
<1>5. \A j \in 1 .. Len(event) : Frame(event)[1 + j] = event[j]
  <2> TAKE j \in 1 .. Len(event)
  <2>1. 1 + j \in 1 .. Len(part) + 2 /\ 1 + j <= Len(part) /\ 1 + j = j + 1
    BY <1>2
  <2> QED BY <1>2, <1>3, <1>4, <2>1
<1>6. Frame(event)[1] = "data"
  BY <1>2, <1>3, <1>4
<1>7. Frame(event)[Len(event) + 2] = "nl" /\ Frame(event)[Len(event) + 3] = "nl"
  BY <1>1, <1>2, <1>3, <1>4
<1>8. Len(Frame(event)) = Len(event) + 3
  BY <1>2, <1>3, <1>4
<1> QED BY <1>3, <1>4, <1>5, <1>6, <1>7, <1>8

(* A piece of a text is a piece of every longer text. *)
LEMMA SubSeqInFront ==
  ASSUME NEW s \in Seq(Char), NEW t \in Seq(Char),
         NEW m \in Nat \ {0}, NEW n \in 0 .. Len(s)
  PROVE  SubSeq(s \o t, m, n) = SubSeq(s, m, n)
<1>1. CASE m > n
  BY <1>1, SubSeqEmpty
<1>2. CASE m <= n
  <2>1. m \in 1 .. Len(s) /\ n \in 1 .. Len(s)
    BY <1>2
  <2> QED BY <2>1, SubSeqOfConcat1
<1> QED BY <1>1, <1>2

LEMMA EventInFrame ==
  ASSUME NEW event \in Document
  PROVE  EventIn(<<"data">> \o event) = <<event>>
<1> DEFINE part == <<"data">> \o event
           starts == {i \in 1 .. Len(part) : part[i] = "data" /\ (i = 1 \/ part[i - 1] = "nl")}
           stops == {j \in 1 .. Len(part) + 1 : j = Len(part) + 1 \/ part[j] = "nl"}
<1>1. /\ event \in Seq(Char) /\ Len(event) \in Nat
      /\ \A i \in 1 .. Len(event) : event[i] # "nl"
  BY DocumentFacts
<1>2. /\ part \in Seq(Char) /\ Len(part) = Len(event) + 1 /\ part[1] = "data"
      /\ \A i \in 1 .. Len(event) : part[i + 1] = event[i] /\ event[i] # "nl"
  BY <1>1, PrefixFacts
<1>3. \A i \in 1 .. Len(part) : part[i] # "nl"
  <2> HIDE DEF part
  <2> TAKE i \in 1 .. Len(part)
  <2>1. CASE i = 1
    BY <2>1, <1>2
  <2>2. CASE i # 1
    <3>1. i - 1 \in 1 .. Len(event) /\ (i - 1) + 1 = i
      BY <2>2, <1>1, <1>2
    <3> QED BY <3>1, <1>2
  <2> QED BY <2>1, <2>2
<1> HIDE DEF part
<1>4. 1 \in starts /\ starts \subseteq Int /\ \A y \in starts : 1 <= y
  BY <1>1, <1>2
<1>5. Min(starts) = 1
  BY <1>4, MinIs
<1>6. /\ Len(part) + 1 \in stops /\ stops \subseteq Int
      /\ \A y \in stops : Len(part) + 1 <= y
  BY <1>1, <1>2, <1>3
<1>7. Min(stops) = Len(part) + 1
  BY <1>6, MinIs
<1>8. SubSeq(part, 2, Len(part)) = event
  <2>1. SubSeq(part, 2, Len(part)) \in Seq(Char)
        /\ Len(SubSeq(part, 2, Len(part))) = Len(event)
        /\ \A i \in 1 .. Len(event) : SubSeq(part, 2, Len(part))[i] = part[2 + i - 1]
    <3>1. /\ \A i \in 2 .. Len(part) : part[i] \in Char
          /\ 2 \in Int /\ Len(part) \in Int
          /\ (IF 2 <= Len(part) THEN Len(part) - 2 + 1 ELSE 0) = Len(event)
          /\ Len(part) - 2 + 1 = Len(event)
      BY <1>1, <1>2
    <3> QED BY <3>1, SubSeqProperties
  <2>2. \A i \in 1 .. Len(event) : 2 + i - 1 = i + 1
    BY <1>1
  <2>3. \A i \in 1 .. Len(event) : SubSeq(part, 2, Len(part))[i] = event[i]
    BY <1>2, <2>1, <2>2
  <2> QED BY <1>1, <2>1, <2>3, SeqEqual
<1>9. EventIn(part) = <<SubSeq(part, Min(starts) + 1, Min(stops) - 1)>>
  BY <1>4, <1>5 DEF EventIn
<1>10. Min(starts) + 1 = 2 /\ Min(stops) - 1 = Len(part)
  BY <1>1, <1>2, <1>5, <1>7
<1> QED BY <1>8, <1>9, <1>10 DEF part

LEMMA NoEventInDocument ==
  ASSUME NEW text \in Document \cup {<<>>} PROVE EventIn(text) = <<>>
<1>1. \A i \in 1 .. Len(text) : ~(text[i] = "data" /\ (i = 1 \/ text[i - 1] = "nl"))
  <2> TAKE i \in 1 .. Len(text)
  <2>1. /\ text \in Seq(Char) /\ text[1] # "data"
        /\ \A j \in 1 .. Len(text) : text[j] # "nl"
    BY DocumentFacts
  <2>2. i # 1 => text[i - 1] # "nl"
    BY <2>1
  <2> QED BY <2>1, <2>2
<1> QED BY <1>1 DEF EventIn

(* The first blank line of the buffer is the end of the next event, when   *)
(* that has arrived.                                                       *)
LEMMA NextBlank ==
  ASSUME StreamTypeOK, Yielded, NEW ends \in [0 .. Len(written) -> 0 .. Len(body)],
         Framed(ends), Buffered(ends)
  PROVE  LET k == Len(yielded) + 1 IN
         /\ k <= Len(written) /\ ends[k] <= read =>
              BlanksOf(buffer) # {} /\ Min(BlanksOf(buffer)) = Len(written[k]) + 2
         /\ BlanksOf(buffer) # {} => k <= Len(written) /\ ends[k] <= read
<1> DEFINE k == Len(yielded) + 1
           u == ends[k - 1]
<1> USE DEF StreamTypeOK, Yielded
<1>1. /\ k \in 1 .. Len(written) + 1 /\ u \in 0 .. Len(body) /\ u <= read
      /\ k - 1 = Len(yielded) /\ read \in 0 .. Len(body)
      /\ Len(written) \in Nat /\ Len(body) \in Nat
  BY DEF Buffered
<1>2. /\ Len(buffer) = read - u
      /\ \A i \in 1 .. read - u : buffer[i] = body[u + i]
  BY <1>1 DEF Buffered
<1>3. ASSUME k <= Len(written)
      PROVE  /\ Len(written[k]) \in Nat /\ ends[k] = u + Len(written[k]) + 3
             /\ ends[k] \in Nat
             /\ body[u + Len(written[k]) + 2] = "nl" /\ body[u + Len(written[k]) + 3] = "nl"
             /\ \A i \in 1 .. Len(written[k]) + 1 : body[u + i] # "nl"
  <2>1. /\ k \in 1 .. Len(written) /\ written[k] \in Document
        /\ written[k] \in Seq(Char) /\ Len(written[k]) \in Nat
        /\ \A j \in 1 .. Len(written[k]) : written[k][j] # "nl"
    BY <1>1, <1>3, DocumentFacts
  <2>2. /\ ends[k] = u + Len(written[k]) + 3
        /\ body[u + 1] = "data"
        /\ \A j \in 1 .. Len(written[k]) : body[u + 1 + j] = written[k][j]
        /\ body[ends[k] - 1] = "nl" /\ body[ends[k]] = "nl"
        /\ ends[k] \in 0 .. Len(body)
    <3>1. ends[k] \in 0 .. Len(body)
      BY <1>1, <2>1
    <3> QED BY ONLY <2>1, <3>1, Framed(ends) DEF Framed
  <2>3. ASSUME NEW i \in 1 .. Len(written[k]) + 1 PROVE body[u + i] # "nl"
    <3>1. CASE i = 1
      BY <3>1, <2>2
    <3>2. CASE i # 1
      <4>1. i - 1 \in 1 .. Len(written[k]) /\ u + 1 + (i - 1) = u + i
        BY <3>2, <2>1, <1>1
      <4>2. body[u + i] = written[k][i - 1] /\ written[k][i - 1] # "nl"
        BY <4>1, <2>1, <2>2
      <4> QED BY <4>2
    <3> QED BY <3>1, <3>2
  <2>4. ends[k] - 1 = u + Len(written[k]) + 2
    BY <2>1, <2>2, <1>1
  <2> QED BY <1>1, <2>1, <2>2, <2>3, <2>4
<1> HIDE DEF k, u
<1>4. ASSUME k <= Len(written), ends[k] <= read
      PROVE  BlanksOf(buffer) # {} /\ Min(BlanksOf(buffer)) = Len(written[k]) + 2
  <2> DEFINE m == Len(written[k]) + 2
  <2>0. Len(written[k]) \in Nat /\ ends[k] = u + Len(written[k]) + 3
    BY <1>3, <1>4
  <2>1. m \in Nat /\ m + 1 <= read - u
    BY <1>1, <1>4, <2>0
  <2>2. buffer[m] = "nl" /\ buffer[m + 1] = "nl"
    <3>1. m \in 1 .. read - u /\ m + 1 \in 1 .. read - u
      BY <1>1, <2>0, <2>1
    <3>2. buffer[m] = body[u + m] /\ buffer[m + 1] = body[u + (m + 1)]
      BY <1>2, <3>1
    <3>3. u + m = u + Len(written[k]) + 2 /\ u + (m + 1) = u + Len(written[k]) + 3
      BY <1>1, <2>0
    <3> QED BY <1>3, <1>4, <3>2, <3>3
  <2>3. m \in BlanksOf(buffer)
    <3>1. m \in 1 .. Len(buffer) - 1
      BY <1>1, <1>2, <2>0, <2>1
    <3> QED BY <2>2, <3>1 DEF BlanksOf
  <2>4. ASSUME NEW y \in BlanksOf(buffer) PROVE m <= y
    <3>1. y \in 1 .. read - u /\ buffer[y] = "nl"
      BY <1>1, <1>2 DEF BlanksOf
    <3>2. y \notin 1 .. Len(written[k]) + 1
      BY <1>1, <1>2, <1>3, <1>4, <3>1
    <3> QED BY <1>3, <1>4, <3>1, <3>2
  <2>5. BlanksOf(buffer) \in SUBSET Int
    BY DEF BlanksOf
  <2> QED BY <2>3, <2>4, <2>5, MinIs
<1>5. ASSUME BlanksOf(buffer) # {} PROVE k <= Len(written) /\ ends[k] <= read
  <2>1. PICK i \in BlanksOf(buffer) : TRUE
    BY <1>5
  <2>2. /\ i \in 1 .. read - u /\ i + 1 \in 1 .. read - u
        /\ body[u + i] = "nl" /\ body[u + (i + 1)] = "nl"
    BY <1>1, <1>2, <2>1 DEF BlanksOf
  <2>3. k <= Len(written)
    <3> SUFFICES ASSUME k = Len(written) + 1 PROVE FALSE
      BY <1>1
    <3>1. u < Len(body) /\ u = ends[Len(written)]
      BY <1>1, <2>2 DEF u
    <3>2. written = <<>> /\ body \in Document /\ u = 0
      BY <3>1, <1>1 DEF Framed
    <3>3. i \in 1 .. Len(body) /\ body[i] = "nl"
      BY <3>2, <2>2, <1>1
    <3> QED BY <3>2, <3>3, DocumentFacts
  <2>4. i \notin 1 .. Len(written[k]) + 1
    BY <1>3, <2>2, <2>3
  <2> QED BY <1>1, <1>3, <2>2, <2>3, <2>4
<1> QED BY <1>4, <1>5 DEF k
LEMMA InitStreamInv == StreamInit => StreamInv
<1> SUFFICES ASSUME StreamInit PROVE StreamInv
  OBVIOUS
<1> DEFINE ends == [i \in 0 .. 0 |-> 0]
<1>1. StreamTypeOK
  <2>1. <<>> \in Seq(Document) /\ <<>> \in Seq(Char)
    OBVIOUS
  <2>2. body \in Seq(Char)
    BY <2>1, DocumentFacts DEF StreamInit
  <2>3. 0 \in 0 .. Len(body) /\ 0 \in Nat
    BY <2>2
  <2> QED BY <2>1, <2>2, <2>3 DEF StreamInit, StreamTypeOK
<1>2. Len(written) = 0 /\ Len(yielded) = 0 /\ Len(body) \in Nat
  BY <1>1 DEF StreamInit, StreamTypeOK
<1>3. ends \in [0 .. Len(written) -> 0 .. Len(body)]
  BY <1>2
<1>4. Framed(ends)
  BY <1>2 DEF StreamInit, Framed
<1>5. Buffered(ends)
  BY <1>1, <1>2, SubSeqEmpty DEF StreamInit, Buffered
<1> QED BY <1>1, <1>2, <1>3, <1>4, <1>5 DEF StreamInit, StreamInv, Yielded

(* What the server writes goes behind what is already framed. *)
LEMMA WriteKeeps == ASSUME StreamInv, NEW event \in Document, Write(event) PROVE StreamInv'
<1> DEFINE n == Len(written)
           frame == Frame(event)
<1> USE DEF StreamInv
<1>1. PICK ends \in [0 .. n -> 0 .. Len(body)] :
        Framed(ends) /\ (reader # "done" => Buffered(ends))
  OBVIOUS
<1>2. /\ written' = Append(written, event) /\ body' = body \o frame /\ ~ended
      /\ UNCHANGED <<ended, reader, read, half, buffer, yielded>>
  BY DEF Write, clientSide
<1>3. /\ written \in Seq(Document) /\ yielded \in Seq(Document) /\ body \in Seq(Char)
      /\ n \in Nat /\ Len(body) \in Nat /\ Len(yielded) \in 0 .. n
      /\ read \in 0 .. Len(body) /\ reader # "done"
  BY <1>2 DEF StreamTypeOK, Yielded
<1>4. /\ event \in Seq(Char) /\ Len(event) \in Nat
  BY DocumentFacts
<1>5. /\ frame \in Seq(Char) /\ Len(frame) = Len(event) + 3
      /\ frame[1] = "data"
      /\ \A j \in 1 .. Len(event) : frame[1 + j] = event[j]
      /\ frame[Len(event) + 2] = "nl" /\ frame[Len(event) + 3] = "nl"
  BY <1>4, FrameFacts
<1>6. /\ written' \in Seq(Document) /\ Len(written') = n + 1
      /\ \A i \in 1 .. n : written'[i] = written[i]
      /\ written'[n + 1] = event
  BY <1>2, <1>3, AppendProperties
<1>7. /\ body' \in Seq(Char) /\ Len(body') = Len(body) + Len(event) + 3
      /\ \A i \in 1 .. Len(body) : body'[i] = body[i]
      /\ \A i \in 1 .. Len(event) + 3 : body'[Len(body) + i] = frame[i]
  <2>1. /\ body' \in Seq(Char) /\ Len(body') = Len(body) + Len(frame)
        /\ \A i \in 1 .. Len(body) + Len(frame) :
             body'[i] = IF i <= Len(body) THEN body[i] ELSE frame[i - Len(body)]
    BY <1>2, <1>3, <1>5, ConcatProperties
  <2>2. \A i \in 1 .. Len(event) + 3 :
          /\ Len(body) + i \in 1 .. Len(body) + Len(frame)
          /\ ~(Len(body) + i <= Len(body)) /\ (Len(body) + i) - Len(body) = i
    BY <1>3, <1>4, <1>5
  <2>3. \A i \in 1 .. Len(event) + 3 : body'[Len(body) + i] = frame[i]
    BY <2>1, <2>2
  <2> QED BY <1>3, <1>4, <1>5, <2>1, <2>3
<1> HIDE DEF n, frame
<1>8. StreamTypeOK' /\ Yielded'
  <2>1. StreamTypeOK'
    BY <1>2, <1>3, <1>4, <1>6, <1>7 DEF StreamTypeOK
  <2>2. Yielded'
    BY <1>2, <1>3, <1>6 DEF Yielded, n
  <2> QED BY <2>1, <2>2
<1>9. PICK ends1 \in [0 .. n + 1 -> 0 .. Len(body')] :
        (\A i \in 0 .. n : ends1[i] = ends[i]) /\ ends1[n + 1] = Len(body')
  <2> DEFINE more == [i \in 0 .. n + 1 |-> IF i <= n THEN ends[i] ELSE Len(body')]
  <2>1. more \in [0 .. n + 1 -> 0 .. Len(body')]
    BY <1>1, <1>3, <1>4, <1>7
  <2>2. (\A i \in 0 .. n : more[i] = ends[i]) /\ more[n + 1] = Len(body')
    BY <1>3
  <2> QED BY <2>1, <2>2
<1>10. ends[n] = Len(body)
  BY <1>1, <1>2 DEF Framed, n
<1>11. Framed(ends1)'
  <2>0. ends1[0] = 0 /\ ends1[n + 1] = Len(body') /\ ends1[n] = Len(body)
    BY <1>1, <1>3, <1>9, <1>10 DEF Framed
  <2>1. ASSUME NEW i \in 1 .. n
        PROVE  /\ ends1[i] = ends1[i - 1] + Len(written'[i]) + 3
               /\ body'[ends1[i - 1] + 1] = "data"
               /\ \A j \in 1 .. Len(written'[i]) :
                    body'[ends1[i - 1] + 1 + j] = written'[i][j]
               /\ body'[ends1[i] - 1] = "nl" /\ body'[ends1[i]] = "nl"
    <3>1. /\ i - 1 \in 0 .. n /\ i \in 0 .. n /\ written'[i] = written[i]
          /\ ends1[i] = ends[i] /\ ends1[i - 1] = ends[i - 1]
      BY <1>3, <1>6, <1>9
    <3>2. /\ ends[i] \in 0 .. Len(body) /\ ends[i - 1] \in Nat
          /\ Len(written[i]) \in Nat
      <4>1. written[i] \in Document
        BY <1>3 DEF n
      <4>2. Len(written[i]) \in Nat
        BY <4>1, DocumentFacts
      <4> QED BY <1>1, <1>3, <3>1, <4>2
    <3>3. /\ ends[i] = ends[i - 1] + Len(written[i]) + 3
          /\ body[ends[i - 1] + 1] = "data"
          /\ \A j \in 1 .. Len(written[i]) : body[ends[i - 1] + 1 + j] = written[i][j]
          /\ body[ends[i] - 1] = "nl" /\ body[ends[i]] = "nl"
      BY ONLY <1>1, i \in 1 .. n DEF Framed, n
    <3>4. /\ ends[i - 1] + 1 \in 1 .. Len(body)
          /\ \A j \in 1 .. Len(written[i]) : ends[i - 1] + 1 + j \in 1 .. Len(body)
          /\ ends[i] - 1 \in 1 .. Len(body) /\ ends[i] \in 1 .. Len(body)
      <4> DEFINE e == ends[i - 1]
                 l == Len(written[i])
      <4>1. e \in Nat /\ l \in Nat /\ ends[i] = e + l + 3 /\ e + l + 3 <= Len(body)
        BY <1>3, <3>2, <3>3
      <4> HIDE DEF e, l
      <4>2. /\ e + 1 \in 1 .. Len(body) /\ \A j \in 1 .. l : e + 1 + j \in 1 .. Len(body)
            /\ (e + l + 3) - 1 \in 1 .. Len(body) /\ e + l + 3 \in 1 .. Len(body)
        <5>1. Len(body) \in Nat
          BY <1>3
        <5>2. e + 1 \in 1 .. Len(body) /\ e + l + 3 \in 1 .. Len(body)
          BY ONLY <4>1, <5>1
        <5>3. (e + l + 3) - 1 \in 1 .. Len(body)
          BY ONLY <4>1, <5>1
        <5>4. ASSUME NEW j \in 1 .. l PROVE e + 1 + j \in 1 .. Len(body)
          BY ONLY <4>1, <5>1, j \in 1 .. l
        <5> QED BY <5>2, <5>3, <5>4
      <4> QED BY <4>1, <4>2 DEF e, l
    <3>5. \A p \in 1 .. Len(body) : body'[p] = body[p]
      BY <1>7
    <3>6. /\ body'[ends[i - 1] + 1] = "data"
          /\ body'[ends[i] - 1] = "nl" /\ body'[ends[i]] = "nl"
      BY ONLY <3>3, <3>4, <3>5
    <3>7. \A j \in 1 .. Len(written[i]) : body'[ends[i - 1] + 1 + j] = written[i][j]
      BY ONLY <3>3, <3>4, <3>5
    <3> QED BY ONLY <3>1, <3>3, <3>6, <3>7
  <2>2. /\ ends1[n + 1] = ends1[n] + Len(event) + 3
        /\ body'[ends1[n] + 1] = "data"
        /\ \A j \in 1 .. Len(event) : body'[ends1[n] + 1 + j] = event[j]
        /\ body'[ends1[n + 1] - 1] = "nl" /\ body'[ends1[n + 1]] = "nl"
    <3>1. \A j \in 1 .. Len(event) :
            1 + j \in 1 .. Len(event) + 3 /\ Len(body) + 1 + j = Len(body) + (1 + j)
      BY <1>3, <1>4
    <3>2. \A j \in 1 .. Len(event) : body'[ends1[n] + 1 + j] = event[j]
      BY <1>5, <1>7, <2>0, <3>1
    <3>3. /\ 1 \in 1 .. Len(event) + 3 /\ Len(event) + 2 \in 1 .. Len(event) + 3
          /\ Len(event) + 3 \in 1 .. Len(event) + 3
          /\ Len(body') - 1 = Len(body) + (Len(event) + 2)
          /\ Len(body') = Len(body) + (Len(event) + 3)
      BY <1>3, <1>4, <1>7
    <3>4. \A i \in 1 .. Len(event) + 3 : body'[Len(body) + i] = frame[i]
      BY <1>7
    <3>5. Len(body') = Len(body) + Len(event) + 3
      BY <1>7
    <3>6. /\ body'[Len(body) + 1] = "data"
          /\ body'[Len(body') - 1] = "nl" /\ body'[Len(body')] = "nl"
      BY ONLY <1>5, <3>3, <3>4
    <3> QED BY ONLY <2>0, <3>2, <3>5, <3>6
  <2>3. \A i \in 1 .. n + 1 : i \in 1 .. n \/ i = n + 1
    BY <1>3
  <2>4. (n + 1) - 1 = n
    BY <1>3
  <2>5. \A i \in 1 .. n + 1 :
          /\ ends1[i] = ends1[i - 1] + Len(written'[i]) + 3
          /\ body'[ends1[i - 1] + 1] = "data"
          /\ \A j \in 1 .. Len(written'[i]) : body'[ends1[i - 1] + 1 + j] = written'[i][j]
          /\ body'[ends1[i] - 1] = "nl" /\ body'[ends1[i]] = "nl"
    <3> TAKE i \in 1 .. n + 1
    <3>1. CASE i = n + 1
      BY ONLY <1>6, <2>2, <2>4, <3>1
    <3>2. CASE i \in 1 .. n
      BY ONLY <2>1, <3>2
    <3> QED BY <2>3, <3>1, <3>2
  <2> QED BY ONLY <1>6, <2>0, <2>5 DEF Framed
<1>12. Buffered(ends1)'
  <2>1. ends1[Len(yielded)] = ends[Len(yielded)]
    BY <1>3, <1>9
  <2>2. /\ ends[Len(yielded)] <= read
        /\ buffer = SubSeq(body, ends[Len(yielded)] + 1, read)
        /\ ends[Len(yielded)] \in 0 .. Len(body)
    BY <1>1, <1>3 DEF Buffered
  <2>3. SubSeq(body', ends[Len(yielded)] + 1, read) = SubSeq(body, ends[Len(yielded)] + 1, read)
    <3>1. ends[Len(yielded)] + 1 \in Nat \ {0} /\ read \in 0 .. Len(body)
      BY <1>3, <2>2
    <3> QED BY <1>2, <1>3, <1>5, <3>1, SubSeqInFront
  <2>4. UNCHANGED <<read, buffer, yielded>>
    BY <1>2
  <2> QED BY ONLY <2>1, <2>2, <2>3, <2>4 DEF Buffered
<1>13. ends1 \in [0 .. Len(written') -> 0 .. Len(body')]
  BY <1>6, <1>9
<1>14. reader' # "done"
  BY <1>2, <1>3
<1> QED BY ONLY <1>8, <1>11, <1>12, <1>13, <1>14 DEF StreamInv

(* Steps that move no text. *)
LEMMA RestKeeps ==
  ASSUME StreamInv,
         UNCHANGED <<written, body, read, half, buffer, yielded>>,
         reader # "done", reader' \in {reader, "reading", "failed"},
         ended' \in {ended, TRUE}
  PROVE  StreamInv'
<1> USE DEF StreamInv
<1>1. PICK ends \in [0 .. Len(written) -> 0 .. Len(body)] : Framed(ends) /\ Buffered(ends)
  OBVIOUS
<1>2. Framed(ends)' /\ Buffered(ends)'
  BY <1>1 DEF Framed, Buffered
<1>3. StreamTypeOK' /\ Yielded'
  BY DEF StreamTypeOK, Yielded
<1>4. ends \in [0 .. Len(written') -> 0 .. Len(body')]
  BY <1>1
<1>5. reader' # "done"
  OBVIOUS
<1> QED BY ONLY <1>2, <1>3, <1>4, <1>5 DEF StreamInv

(* A chunk continues the buffer. *)
LEMMA ReadChunkKeeps ==
  ASSUME StreamInv, NEW n \in read .. Len(body), NEW k \in Bytes(n), ReadChunk(n, k)
  PROVE  StreamInv'
<1> USE DEF StreamInv
<1>1. PICK ends \in [0 .. Len(written) -> 0 .. Len(body)] : Framed(ends) /\ Buffered(ends)
  BY DEF ReadChunk
<1>2. /\ read' = n /\ half' = k /\ buffer' = buffer \o SubSeq(body, read + 1, n)
      /\ UNCHANGED <<written, body, ended, reader, yielded>> /\ reader = "reading"
  BY DEF ReadChunk, Decoded, serverSide
<1>3. /\ body \in Seq(Char) /\ Len(body) \in Nat /\ read \in 0 .. Len(body)
      /\ Len(yielded) \in 0 .. Len(written) /\ n \in 0 .. Len(body)
  BY DEF StreamTypeOK, Yielded
<1>4. k \in Nat
  <2>1. CASE n < Len(body)
    <3>1. body[n + 1] \in Char
      BY <1>3, <2>1, ElementOfSeq
    <3>2. Size[body[n + 1]] \in Nat \ {0}
      BY <3>1, StreamAssumption
    <3> QED BY <2>1, <3>2 DEF Bytes
  <2>2. CASE ~(n < Len(body))
    BY <2>2 DEF Bytes
  <2> QED BY <2>1, <2>2
<1> DEFINE u == ends[Len(yielded)]
<1>5. u \in 0 .. Len(body) /\ u <= read /\ buffer = SubSeq(body, u + 1, read)
  BY <1>1, <1>3 DEF Buffered
<1>6. buffer' = SubSeq(body, u + 1, n)
  <2>1. /\ u + 1 \in 1 .. Len(body) + 1 /\ read \in (u + 1) - 1 .. Len(body)
        /\ n \in read .. Len(body)
    BY <1>3, <1>5
  <2> HIDE DEF u
  <2> QED BY <1>2, <1>3, <1>5, <2>1, ConcatAdjacentSubSeq
<1>7. Buffered(ends)'
  <2>1. u <= n /\ Len(yielded') = Len(yielded)
    BY <1>2, <1>3, <1>5
  <2> QED BY <1>2, <1>6, <2>1 DEF Buffered
<1>8. Framed(ends)'
  BY <1>1, <1>2 DEF Framed
<1>9. buffer' \in Seq(Char)
  <2>1. \A i \in u + 1 .. n : body[i] \in Char
    BY <1>3, <1>5, ElementOfSeq
  <2>2. u + 1 \in Int /\ n \in Int
    BY <1>3, <1>5
  <2> QED BY <1>6, <2>1, <2>2, SubSeqProperties
<1>10. StreamTypeOK' /\ Yielded'
  BY <1>2, <1>3, <1>4, <1>9 DEF StreamTypeOK, Yielded
<1> QED BY <1>1, <1>2, <1>7, <1>8, <1>10

(* What NextPart yields is the next of the events that were written.       *)
LEMMA NextPartYields ==
  ASSUME StreamInv, NextPart,
         NEW ends \in [0 .. Len(written) -> 0 .. Len(body)], Framed(ends), Buffered(ends)
  PROVE  LET k == Len(yielded) + 1 IN
         /\ k <= Len(written) /\ ends[k] <= read
         /\ yielded' = Append(yielded, written[k])
         /\ buffer' = SubSeq(body, ends[k] + 1, read)
<1> DEFINE k == Len(yielded) + 1
           u == ends[k - 1]
           l == Len(written[k])
           part == SubSeq(buffer, 1, l + 1)
           event == written[k]
<1>1. StreamTypeOK /\ Yielded /\ BlanksOf(buffer) # {}
  BY DEF StreamInv, NextPart
<1>2. k <= Len(written) /\ ends[k] <= read /\ Min(BlanksOf(buffer)) = l + 2
  BY <1>1, NextBlank
<1>3. /\ k \in 1 .. Len(written) /\ k - 1 = Len(yielded) /\ Len(body) \in Nat
      /\ yielded \in Seq(Document) /\ body \in Seq(Char) /\ read \in 0 .. Len(body)
      /\ event \in Document /\ event \in Seq(Char) /\ l \in Nat
      /\ u \in 0 .. Len(body) /\ ends[k] \in 0 .. Len(body)
  <2>1. k \in 1 .. Len(written) /\ k - 1 = Len(yielded) /\ k - 1 \in 0 .. Len(written)
    BY <1>1, <1>2 DEF StreamTypeOK, Yielded
  <2>2. event \in Document
    BY <1>1, <2>1 DEF StreamTypeOK
  <2> QED BY <1>1, <2>1, <2>2, DocumentFacts DEF StreamTypeOK
<1>4. /\ ends[k] = u + l + 3 /\ body[u + 1] = "data"
      /\ \A j \in 1 .. l : body[u + 1 + j] = event[j]
  BY ONLY <1>3, Framed(ends) DEF Framed
<1>5. /\ u <= read /\ buffer = SubSeq(body, u + 1, read)
  BY <1>3 DEF Buffered
<1> HIDE DEF k, u, l, event
<1>6. /\ Len(buffer) = read - u /\ buffer \in Seq(Char)
      /\ \A i \in 1 .. read - u : buffer[i] = body[u + i]
  <2>1. /\ u + 1 \in Int /\ read \in Int
        /\ \A i \in u + 1 .. read : body[i] \in Char
    BY <1>3, ElementOfSeq
  <2>2. /\ buffer \in Seq(Char)
        /\ Len(buffer) = IF u + 1 <= read THEN read - (u + 1) + 1 ELSE 0
        /\ \A i \in 1 .. read - (u + 1) + 1 : buffer[i] = body[u + 1 + i - 1]
    BY <1>5, <2>1, SubSeqProperties
  <2>3. \A i \in 1 .. read - u : i \in 1 .. read - (u + 1) + 1 /\ u + 1 + i - 1 = u + i
    BY <1>3
  <2> QED BY <1>3, <1>5, <2>2, <2>3
<1>7. part = <<"data">> \o event
  <2>1. /\ \A i \in 1 .. l + 1 : buffer[i] \in Char
        /\ 1 \in Int /\ l + 1 \in Int
        /\ (IF 1 <= l + 1 THEN l + 1 - 1 + 1 ELSE 0) = l + 1 /\ l + 1 - 1 + 1 = l + 1
        /\ l + 1 <= read - u
    BY <1>2, <1>3, <1>4, <1>6, ElementOfSeq
  <2>2. /\ part \in Seq(Char) /\ Len(part) = l + 1
        /\ \A i \in 1 .. l + 1 : part[i] = buffer[1 + i - 1]
    BY <2>1, SubSeqProperties
  <2>3. \A i \in 1 .. l + 1 : i \in 1 .. read - u /\ 1 + i - 1 = i
    BY <1>3, <2>1
  <2>4. \A i \in 1 .. l + 1 : part[i] = body[u + i]
    BY <1>6, <2>2, <2>3
  <2>5. /\ <<"data">> \o event \in Seq(Char) /\ Len(<<"data">> \o event) = l + 1
        /\ (<<"data">> \o event)[1] = "data"
        /\ \A i \in 1 .. l : (<<"data">> \o event)[i + 1] = event[i]
    BY <1>3, PrefixFacts DEF l, event
  <2>6. ASSUME NEW i \in 1 .. l + 1 PROVE part[i] = (<<"data">> \o event)[i]
    <3>1. CASE i = 1
      BY <1>4, <2>4, <2>5, <3>1
    <3>2. CASE i # 1
      <4>1. i - 1 \in 1 .. l /\ u + 1 + (i - 1) = u + i /\ (i - 1) + 1 = i
        BY <1>3, <3>2
      <4>2. (<<"data">> \o event)[i] = event[i - 1] /\ body[u + i] = event[i - 1]
        BY <1>4, <2>5, <4>1
      <4> QED BY <2>4, <4>2
    <3> QED BY <3>1, <3>2
  <2> QED BY <2>2, <2>5, <2>6, SeqEqual
<1>8. yielded' = yielded \o <<event>>
  <2>1. EventIn(part) = <<event>>
    BY <1>3, <1>7, EventInFrame
  <2>2. (l + 2) - 1 = l + 1
    BY <1>3
  <2> QED BY <1>2, <2>1, <2>2 DEF NextPart
<1>9. yielded \o <<event>> = Append(yielded, event)
  BY <1>3, AppendIsConcat
<1>10. buffer' = SubSeq(body, ends[k] + 1, read)
  <2>1. buffer' = SubSeq(buffer, l + 4, read - u)
    <3>1. (l + 2) + 2 = l + 4
      BY <1>3
    <3> QED BY <1>2, <1>6, <3>1 DEF NextPart
  <2>2. CASE ends[k] = read
    <3>1. read - u < l + 4 /\ read < ends[k] + 1
      BY <1>3, <1>4, <2>2
    <3>2. l + 4 \in Int /\ read - u \in Int /\ ends[k] + 1 \in Int /\ read \in Int
      BY <1>3
    <3> QED BY <2>1, <3>1, <3>2, SubSeqEmpty
  <2>3. CASE ends[k] # read
    <3>1. /\ u + 1 \in 1 .. Len(body) /\ read \in 1 .. Len(body)
          /\ l + 4 \in 1 .. read - (u + 1) + 1 /\ read - u \in 1 .. read - (u + 1) + 1
          /\ (u + 1) + (l + 4) - 1 = ends[k] + 1 /\ (u + 1) + (read - u) - 1 = read
      BY <1>2, <1>3, <1>4, <1>5, <2>3
    <3>2. SubSeq(SubSeq(body, u + 1, read), l + 4, read - u)
            = SubSeq(body, (u + 1) + (l + 4) - 1, (u + 1) + (read - u) - 1)
      BY ONLY <1>3, <3>1, SubSeqOfSubSeq
    <3> QED BY <1>5, <2>1, <3>1, <3>2
  <2> QED BY <2>2, <2>3
<1> QED BY <1>2, <1>8, <1>9, <1>10 DEF k, event

LEMMA NextPartKeeps == ASSUME StreamInv, NextPart PROVE StreamInv'
<1> USE DEF StreamInv
<1> DEFINE k == Len(yielded) + 1
<1>1. PICK ends \in [0 .. Len(written) -> 0 .. Len(body)] : Framed(ends) /\ Buffered(ends)
  BY DEF NextPart
<1>2. /\ k <= Len(written) /\ ends[k] <= read
      /\ yielded' = Append(yielded, written[k])
      /\ buffer' = SubSeq(body, ends[k] + 1, read)
  BY <1>1, NextPartYields
<1>3. /\ reader = "reading"
      /\ UNCHANGED <<written, body, ended, reader, read, half>>
  BY DEF NextPart, serverSide
<1>4. /\ written \in Seq(Document) /\ yielded \in Seq(Document) /\ body \in Seq(Char)
      /\ k \in 1 .. Len(written) /\ Len(body) \in Nat /\ read \in 0 .. Len(body)
      /\ written[k] \in Document /\ ends[k] \in 0 .. Len(body)
  BY <1>1, <1>2 DEF StreamTypeOK, Yielded
<1>5. /\ yielded' \in Seq(Document) /\ Len(yielded') = k
      /\ \A i \in 1 .. Len(yielded) : yielded'[i] = yielded[i]
      /\ yielded'[k] = written[k]
  BY <1>2, <1>4, AppendProperties
<1>6. Yielded'
  <2>1. \A i \in 1 .. k : i \in 1 .. Len(yielded) \/ i = k
    BY <1>4
  <2> QED BY <1>3, <1>4, <1>5, <2>1 DEF Yielded
<1>7. Buffered(ends)'
  BY <1>2, <1>3, <1>5 DEF Buffered
<1>8. Framed(ends)'
  BY <1>1, <1>3 DEF Framed
<1>9. StreamTypeOK'
  <2>1. \A i \in ends[k] + 1 .. read : body[i] \in Char
    BY <1>4, ElementOfSeq
  <2>2. ends[k] + 1 \in Int /\ read \in Int
    BY <1>4
  <2>3. buffer' \in Seq(Char)
    BY <1>2, <2>1, <2>2, SubSeqProperties
  <2> QED BY <1>3, <1>5, <2>3 DEF StreamTypeOK
<1> QED BY <1>1, <1>3, <1>6, <1>7, <1>8, <1>9

(* At the end of the body nothing is left to yield. *)
LEMMA NothingIsLeft ==
  ASSUME StreamInv, ReadToEnd PROVE yielded = written /\ yielded' = yielded
<1> USE DEF StreamInv
<1>1. PICK ends \in [0 .. Len(written) -> 0 .. Len(body)] : Framed(ends) /\ Buffered(ends)
  BY DEF ReadToEnd
<1>2. /\ written \in Seq(Document) /\ yielded \in Seq(Document) /\ body \in Seq(Char)
      /\ Len(yielded) \in 0 .. Len(written) /\ Len(written) \in Nat /\ Len(body) \in Nat
  BY DEF StreamTypeOK, Yielded
<1>3. BlanksOf(buffer) = {} /\ read = Len(body) /\ yielded' = yielded \o EventIn(buffer)
  BY DEF ReadToEnd
<1>4. Len(yielded) = Len(written)
  <2> SUFFICES ASSUME Len(yielded) + 1 <= Len(written) PROVE FALSE
    BY <1>2
  <2>1. ends[Len(yielded) + 1] <= read
    BY <1>1, <1>2, <1>3
  <2> QED BY <1>1, <1>3, <2>1, NextBlank
<1>5. yielded = written
  BY <1>2, <1>4, SeqEqual DEF Yielded
<1>6. buffer \in Document \cup {<<>>}
  <2>1. buffer = SubSeq(body, ends[Len(written)] + 1, Len(body))
    BY <1>1, <1>3, <1>4 DEF Buffered
  <2>2. CASE Len(body) = ends[Len(written)]
    <3>1. Len(body) < ends[Len(written)] + 1 /\ ends[Len(written)] + 1 \in Int
      BY <1>2, <2>2
    <3> QED BY <1>2, <2>1, <3>1, SubSeqEmpty
  <2>3. CASE written = <<>> /\ body \in Document
    <3>1. ends[Len(written)] + 1 = 1
      BY <1>1, <2>3 DEF Framed
    <3> QED BY <1>2, <2>1, <2>3, <3>1, SubSeqFull
  <2> QED BY <1>1, <2>2, <2>3 DEF Framed
<1>7. EventIn(buffer) = <<>>
  BY <1>6, NoEventInDocument
<1> QED BY <1>2, <1>3, <1>5, <1>7, ConcatEmptySeq

LEMMA ReadToEndKeeps == ASSUME StreamInv, ReadToEnd PROVE StreamInv'
<1>1. yielded = written /\ yielded' = yielded
  BY NothingIsLeft
<1>2. /\ ended /\ reader' = "done" /\ buffer' = <<>>
      /\ UNCHANGED <<written, body, ended, read, half>>
  BY DEF ReadToEnd, serverSide
<1>3. StreamTypeOK' /\ Yielded'
  BY <1>1, <1>2 DEF StreamInv, StreamTypeOK, Yielded
<1>4. PICK ends \in [0 .. Len(written) -> 0 .. Len(body)] : Framed(ends)
  BY DEF StreamInv
<1>5. Framed(ends)'
  BY <1>2, <1>4 DEF Framed
<1>6. ends \in [0 .. Len(written') -> 0 .. Len(body')]
  BY <1>2, <1>4
<1>7. ended' /\ yielded' = written'
  BY <1>1, <1>2
<1> QED BY ONLY <1>2, <1>3, <1>5, <1>6, <1>7 DEF StreamInv

LEMMA StepStreamInv == StreamInv /\ [StreamNext]_streamVars => StreamInv'
<1> SUFFICES ASSUME StreamInv, [StreamNext]_streamVars PROVE StreamInv'
  OBVIOUS
<1>1. ASSUME NEW event \in Document, Write(event) PROVE StreamInv'
  BY <1>1, WriteKeeps
<1>2. CASE End \/ OpenBody \/ ReadFails
  BY <1>2, RestKeeps DEF End, OpenBody, ReadFails, serverSide, clientSide, StreamInv
<1>3. ASSUME NEW n \in read .. Len(body), NEW k \in Bytes(n), ReadChunk(n, k)
      PROVE  StreamInv'
  BY <1>3, ReadChunkKeeps
<1>4. CASE UNCHANGED streamVars
  BY <1>4 DEF streamVars, serverSide, clientSide, StreamInv, StreamTypeOK, Yielded,
              Framed, Buffered
<1> QED BY <1>1, <1>2, <1>3, <1>4, NextPartKeeps, ReadToEndKeeps DEF StreamNext

(* The invariant of the stream holds, for every text and every cut. *)
THEOREM StreamInvariance == StreamSpec => []StreamInv
<1> QED BY InitStreamInv, StepStreamInv, PTL DEF StreamSpec

(* However the body of a response is cut, parseSSE() yields the events     *)
(* that were written, in their order, and no others; and all of them if it *)
(* ends without an error.                                                  *)
THEOREM EventsSurviveChunksHolds == StreamSpec => []EventsSurviveChunks
<1>1. StreamInv => EventsSurviveChunks
  <2> SUFFICES ASSUME StreamInv PROVE IsPrefix(yielded, written)
    BY DEF StreamInv, EventsSurviveChunks
  <2>1. /\ yielded \in Seq(Document) /\ written \in Seq(Document)
        /\ Len(yielded) \in Nat /\ Len(yielded) <= Len(written)
        /\ \A i \in 1 .. Len(yielded) : yielded[i] = written[i]
    BY DEF StreamInv, StreamTypeOK, Yielded
  <2>2. /\ \A i \in 1 .. Len(yielded) : written[i] \in Document
        /\ 1 \in Int /\ Len(yielded) \in Int
        /\ (IF 1 <= Len(yielded) THEN Len(yielded) - 1 + 1 ELSE 0) = Len(yielded)
        /\ \A i \in 1 .. Len(yielded) : 1 + i - 1 = i
        /\ Len(yielded) - 1 + 1 = Len(yielded)
    BY <2>1
  <2>3. /\ SubSeq(written, 1, Len(yielded)) \in Seq(Document)
        /\ Len(SubSeq(written, 1, Len(yielded))) = Len(yielded)
        /\ \A i \in 1 .. Len(yielded) : SubSeq(written, 1, Len(yielded))[i] = written[i]
    BY <2>2, SubSeqProperties
  <2>4. SubSeq(written, 1, Len(yielded)) = yielded
    BY <2>1, <2>3, SeqEqual
  <2> QED BY <2>1, <2>4, SubSeqFull DEF IsPrefix
<1> QED BY <1>1, StreamInvariance, PTL

(* Each step of the bytes, as a step of the exchange. *)
LEMMA StepWhole == StreamInv /\ [StreamNext]_streamVars => [Whole!Next]_(Whole!vars)
<1> SUFFICES ASSUME StreamInv, [StreamNext]_streamVars PROVE [Whole!Next]_(Whole!vars)
  OBVIOUS
<1>0. \A d, e : [[x \in {"x"} |-> d] EXCEPT !["x"] = e] = [x \in {"x"} |-> e]
  OBVIOUS
<1>c. reader # "failed" => [x \in {"x"} |-> reader # "failed"]["x"]
  <2>1. \A e : [x \in {"x"} |-> e]["x"] = e
    OBVIOUS
  <2> QED BY <2>1, Zenon
<1>1. ASSUME NEW event \in Document, Write(event) PROVE Whole!Yield("x")
  <2>1. Len(written') = Len(written) + 1 /\ Len(written) < MaxInBody /\ ~ended
        /\ UNCHANGED <<ended, reader, read, half, buffer, yielded>>
    BY <1>1, AppendProperties DEF Write, clientSide, StreamInv, StreamTypeOK
  <2> QED BY <2>1 DEF Whole!Yield, Whole!serverVars, Whole!clientVars
<1>2. CASE End
  <2>1. /\ ended = FALSE /\ ended' = TRUE
        /\ UNCHANGED <<written, reader, yielded>>
    BY <1>2 DEF End, clientSide, StreamInv, StreamTypeOK
  <2>2. Whole!StreamEnds("x")
    BY <2>1 DEF Whole!StreamEnds, Whole!Respond, Whole!serverVars, Whole!clientVars
  <2> QED BY <2>2 DEF Whole!Next, Whole!Serve
<1>3. CASE OpenBody
  <2>1. /\ reader = "fetching" /\ reader' = "reading"
        /\ UNCHANGED <<written, ended, yielded>>
    BY <1>3 DEF OpenBody, serverSide
  <2>2. ended \/ Len(written) > 0
    <3>1. body # <<>> \/ ended
      BY <1>3 DEF OpenBody
    <3>2. CASE ~ended
      <4>1. PICK ends : ends[0] = 0 /\ Len(body) = ends[Len(written)]
        BY <3>2 DEF StreamInv, Framed
      <4>2. Len(body) # 0 /\ Len(written) \in Nat
        BY <3>1, <3>2, EmptySeq DEF StreamInv, StreamTypeOK
      <4> QED BY <4>1, <4>2
    <3> QED BY <3>1, <3>2
  <2>3. Whole!HeaderArrived("x") /\ Whole!HeaderIsGood("x")
    BY <1>c, <2>1, <2>2 DEF Whole!HeaderArrived, Whole!HeaderIsGood
  <2>4. [x \in {"x"} |-> reader' = "reading"]
          = [[x \in {"x"} |-> reader = "reading"] EXCEPT !["x"] = "stream" # "card"]
    <3>1. (reader' = "reading") = ("stream" # "card")
      BY <2>1
    <3> QED BY <1>0, <3>1, Zenon
  <2>5. Whole!FetchResolves("x")
    BY <2>1, <2>3, <2>4 DEF Whole!FetchResolves, Whole!serverVars
  <2> QED BY <2>5 DEF Whole!Next, Whole!ClientStep
<1>4. ASSUME NEW n, NEW k, ReadChunk(n, k) PROVE UNCHANGED Whole!vars
  BY <1>4 DEF ReadChunk, serverSide, Whole!vars
<1>5. CASE NextPart
  <2>1. PICK ends \in [0 .. Len(written) -> 0 .. Len(body)] : Framed(ends) /\ Buffered(ends)
    BY <1>5 DEF NextPart, StreamInv
  <2>2. Len(yielded) + 1 <= Len(written)
        /\ yielded' = Append(yielded, written[Len(yielded) + 1])
    BY <1>5, <2>1, NextPartYields
  <2>3. yielded \in Seq(Document) /\ Len(yielded) \in Nat /\ Len(written) \in Nat
    BY DEF StreamInv, StreamTypeOK
  <2>4. Len(yielded') = Len(yielded) + 1
    BY <2>2, <2>3
  <2>5. reader = "reading" /\ UNCHANGED <<written, ended, reader>>
    BY <1>5 DEF NextPart, serverSide
  <2>6. Len(yielded) < Len(written)
        /\ [x \in {"x"} |-> Len(yielded')]
             = [[x \in {"x"} |-> Len(yielded)] EXCEPT !["x"] = Len(yielded) + 1]
    BY <1>0, <2>2, <2>3, <2>4
  <2>7. [x \in {"x"} |-> reader = "reading"]' = [x \in {"x"} |-> reader = "reading"]
        /\ [x \in {"x"} |-> reader # "failed"]' = [x \in {"x"} |-> reader # "failed"]
    BY <2>5, Zenon
  <2>8. Whole!ReadEvent("x")
    BY <1>c, <2>5, <2>6, <2>7 DEF Whole!ReadEvent, Whole!serverVars
  <2> QED BY <2>8 DEF Whole!Next, Whole!ClientStep
<1>6. CASE ReadToEnd
  <2>1. yielded = written /\ yielded' = yielded
    BY <1>6, NothingIsLeft
  <2>2. reader = "reading" /\ reader' = "done" /\ ended /\ UNCHANGED <<written, ended>>
    BY <1>6 DEF ReadToEnd, serverSide
  <2>4. [x \in {"x"} |-> reader' = "reading"]
          = [[x \in {"x"} |-> reader = "reading"] EXCEPT !["x"] = FALSE]
    <3>1. (reader' = "reading") = FALSE
      BY <2>2
    <3> QED BY <1>0, <3>1, Zenon
  <2>5. Whole!Settle("x", "done")
    BY <2>2, <2>4 DEF Whole!Settle
  <2>6. [x \in {"x"} |-> reader # "failed"]' = [x \in {"x"} |-> reader # "failed"]
    <3>1. (reader' # "failed") = (reader # "failed")
      BY <2>2
    <3> QED BY <3>1, Zenon
  <2>3. Whole!ReadEnd("x")
    BY <1>c, <2>1, <2>2, <2>5, <2>6 DEF Whole!ReadEnd, Whole!serverVars
  <2> QED BY <2>3 DEF Whole!Next, Whole!ClientStep
<1>7. CASE ReadFails
  <2>1. /\ reader \in {"fetching", "reading"} /\ reader' = "failed"
        /\ UNCHANGED <<written, ended, yielded>>
    BY <1>7 DEF ReadFails, serverSide
  <2>2. Whole!ConnectionBreaks("x")
    BY <2>1 DEF Whole!ConnectionBreaks, Whole!Waiting, Whole!Disconnect, Whole!Settle,
                Whole!serverVars
  <2> QED BY <2>2 DEF Whole!Next, Whole!ClientStep
<1>8. CASE UNCHANGED streamVars
  BY <1>8 DEF streamVars, serverSide, clientSide, Whole!vars
<1>9. ASSUME NEW event \in Document, Write(event) PROVE Whole!Next
  BY <1>1, <1>9 DEF Whole!Next, Whole!Serve
<1> QED BY <1>2, <1>3, <1>4, <1>5, <1>6, <1>7, <1>8, <1>9 DEF StreamNext

(* HttpTransport may count whole events: what the bytes do is one of the    *)
(* steps it allows the exchange, or a stutter.                             *)
THEOREM CountsWholeEventsHolds == StreamSpec => CountsWholeEvents
<1> QED BY StreamInvariance, StepWhole, PTL DEF StreamSpec, CountsWholeEvents
===================================================================================
