-------------------------- MODULE WebSocketServerProofs --------------------------
(***************************************************************************)
(* Proofs about the server side of WebSocketTransport, for any number of   *)
(* servers, calls of close(), clients and intervals.  What concerns the    *)
(* heartbeat holds in every configuration; what concerns close() is proved *)
(* for the callers that wait for it before they listen again.              *)
(***************************************************************************)
EXTENDS WebSocketServer, TLAPS

(* The two halves of the state: a step of a client leaves the first alone, *)
(* and a step of listen() or close() the second.                           *)
ServerTypes ==
  /\ wss \in 0 .. MaxServers /\ httpServer \in 0 .. MaxServers /\ heartbeat \in 0 .. MaxServers
  /\ http \in [Servers -> {"unborn", "starting", "listening", "closed"}]
  /\ sockets \in [Servers -> {"unborn", "open", "closed"}]
  /\ pc \in [Closer -> {"idle", "wss", "http", "resolved"}]
  /\ closing \in [Closer -> 0 .. MaxServers]

ClientTypes ==
  /\ on \in [Client -> 0 .. MaxServers]
  /\ state \in [Client -> {"absent", "up", "stalled", "gone"}]
  /\ isAlive \in [Client -> BOOLEAN]
  /\ pongs \in [Client -> 0 .. MaxPongs]
  /\ beats \in 0 .. MaxBeats
  /\ heard \in [Client -> Nat]
  /\ cut \subseteq Client

(* No client was heard of in an interval that is still to come. *)
BeatsBound == \A i \in Client : heard[i] <= beats

(* The interval timer belongs to the WebSocketServer in use. *)
TimerIsCurrent == heartbeat = wss

(* Nobody is connected to a server that does not exist yet. *)
OnRealServer == \A i \in Client : on[i] # 0 => http[on[i]] # "unborn"

(* What the flag of a connection says: it was heard of in this interval,   *)
(* or in the last one and not since.                                       *)
FlagIsRight ==
  \A i \in Client :
    wss # 0 /\ on[i] = wss /\ Connected(i) =>
      heard[i] = IF isAlive[i] THEN beats ELSE beats - 1

BeatInv ==
  ServerTypes /\ ClientTypes /\ BeatsBound /\ TimerIsCurrent /\ OnRealServer /\ FlagIsRight

LEMMA BeatInvTypes == BeatInv => TypeOK
<1> SUFFICES ASSUME BeatInv PROVE TypeOK
  OBVIOUS
<1> USE DEF BeatInv
<1>1. \A i \in Client : heard[i] \in 0 .. MaxBeats
  BY ServerAssumption DEF ClientTypes, BeatsBound
<1>2. heard \in [Client -> 0 .. MaxBeats]
  BY <1>1 DEF ClientTypes
<1> QED BY <1>2 DEF ServerTypes, ClientTypes, TimerIsCurrent, TypeOK

(* The steps of listen() and close(), and those of the clients. *)
ServerStep ==
  \/ EnsureServer
  \/ \E s \in Servers : Listening(s)
  \/ \E c \in Closer : Close(c) \/ WssClosed(c) \/ HttpClosed(c)

ClientStep ==
  \/ Beat
  \/ \E i \in Client :
        \/ \E s \in Servers : Connect(i, s)
        \/ Disconnect(i) \/ Stall(i) \/ GoOn(i) \/ SendPong(i) \/ Pong(i)

LEMMA TwoKinds == Next => ServerStep \/ ClientStep
BY DEF Next, ServerStep, ClientStep

LEMMA ServerStepFrame == ServerStep => UNCHANGED <<clients, beats>>
BY DEF ServerStep, EnsureServer, Listening, Close, WssClosed, HttpClosed, clients

LEMMA ClientStepFrame == ClientStep => UNCHANGED <<servers, closers>>
BY DEF ClientStep, Beat, Connect, Disconnect, Stall, GoOn, SendPong, Pong, servers, closers

LEMMA ServerTypesKept == ServerTypes /\ ServerStep => ServerTypes'
<1> SUFFICES ASSUME ServerTypes, ServerStep PROVE ServerTypes'
  OBVIOUS
<1> USE DEF ServerTypes, Servers
<1>0. ASSUME NEW c \in Closer, CloseHttp(c), UNCHANGED <<wss, sockets>>,
             heartbeat' \in 0 .. MaxServers, closing' \in [Closer -> 0 .. MaxServers]
      PROVE  ServerTypes'
  <2>1. CASE httpServer # 0
    <3>1. httpServer' = 0 /\ pc' = [pc EXCEPT ![c] = "http"]
          /\ http' = [http EXCEPT ![httpServer] = "closed"]
      BY <1>0, <2>1 DEF CloseHttp
    <3>2. http' \in [Servers -> {"unborn", "starting", "listening", "closed"}]
      BY <3>1
    <3>3. pc' \in [Closer -> {"idle", "wss", "http", "resolved"}]
      BY <3>1
    <3> QED BY <1>0, <3>1, <3>2, <3>3, ServerAssumption
  <2>2. CASE httpServer = 0
    BY <1>0, <2>2 DEF CloseHttp
  <2> QED BY <2>1, <2>2
<1>1. CASE EnsureServer
  BY <1>1 DEF EnsureServer, closers
<1>2. ASSUME NEW s \in Servers, Listening(s) PROVE ServerTypes'
  BY <1>2 DEF Listening, closers
<1>3. ASSUME NEW c \in Closer, Close(c) PROVE ServerTypes'
  <2>1. closing' \in [Closer -> 0 .. MaxServers] /\ heartbeat' \in 0 .. MaxServers
    BY <1>3, ServerAssumption DEF Close
  <2>2. CASE wss # 0
    BY <1>3, <2>1, <2>2, ServerAssumption DEF Close
  <2>3. CASE wss = 0
    BY <1>3, <1>0, <2>1, <2>3 DEF Close
  <2> QED BY <2>2, <2>3
<1>4. ASSUME NEW c \in Closer, WssClosed(c) PROVE ServerTypes'
  BY <1>4, <1>0 DEF WssClosed
<1>5. ASSUME NEW c \in Closer, HttpClosed(c) PROVE ServerTypes'
  BY <1>5 DEF HttpClosed, servers
<1> QED BY <1>1, <1>2, <1>3, <1>4, <1>5 DEF ServerStep

(* Servers come into being one at a time, and are never unborn again. *)
LEMMA ServerStepBirths ==
  ASSUME ServerTypes, ServerStep
  PROVE  /\ \A s \in Servers : http[s] # "unborn" => http'[s] # "unborn"
         /\ wss' \in {0, wss} \/ (wss' \in Servers /\ http[wss'] = "unborn")
<1> USE DEF ServerTypes, Servers
<1>0. ASSUME NEW c \in Closer, CloseHttp(c)
      PROVE  \A s \in Servers : http[s] # "unborn" => http'[s] # "unborn"
  BY <1>0 DEF CloseHttp
<1>1. CASE EnsureServer
  BY <1>1 DEF EnsureServer
<1>2. ASSUME NEW s \in Servers, Listening(s)
      PROVE  wss' = wss /\ \A t \in Servers : http[t] # "unborn" => http'[t] # "unborn"
  BY <1>2 DEF Listening
<1>3. ASSUME NEW c \in Closer, Close(c)
      PROVE  wss' = 0 /\ \A s \in Servers : http[s] # "unborn" => http'[s] # "unborn"
  BY <1>3, <1>0 DEF Close
<1>4. ASSUME NEW c \in Closer, WssClosed(c) \/ HttpClosed(c)
      PROVE  wss' = wss /\ \A s \in Servers : http[s] # "unborn" => http'[s] # "unborn"
  BY <1>4, <1>0 DEF WssClosed, HttpClosed, servers
<1> QED BY <1>1, <1>2, <1>3, <1>4 DEF ServerStep

LEMMA TimerKept == TimerIsCurrent /\ ServerStep => TimerIsCurrent'
<1> SUFFICES ASSUME TimerIsCurrent, ServerStep PROVE TimerIsCurrent'
  OBVIOUS
<1> USE DEF TimerIsCurrent
<1>1. CASE EnsureServer
  BY <1>1 DEF EnsureServer
<1>2. ASSUME NEW s \in Servers, Listening(s) PROVE TimerIsCurrent'
  BY <1>2 DEF Listening
<1>3. ASSUME NEW c \in Closer, Close(c) PROVE TimerIsCurrent'
  BY <1>3 DEF Close
<1>4. ASSUME NEW c \in Closer, WssClosed(c) \/ HttpClosed(c) PROVE TimerIsCurrent'
  BY <1>4 DEF WssClosed, HttpClosed, servers
<1> QED BY <1>1, <1>2, <1>3, <1>4 DEF ServerStep

LEMMA ServerStepBeats == BeatInv /\ ServerStep => BeatInv'
<1> SUFFICES ASSUME BeatInv, ServerStep PROVE BeatInv'
  OBVIOUS
<1> USE DEF BeatInv
<1>1. UNCHANGED <<on, state, isAlive, pongs, heard, cut, beats>>
  BY ServerStepFrame DEF clients
<1>2. ServerTypes' /\ TimerIsCurrent'
  BY ServerTypesKept, TimerKept
<1>3. ClientTypes' /\ BeatsBound'
  BY <1>1 DEF ClientTypes, BeatsBound
<1>4. OnRealServer'
  BY <1>1, ServerStepBirths DEF OnRealServer, ClientTypes, Servers
<1>5. FlagIsRight'
  BY <1>1, ServerStepBirths DEF FlagIsRight, OnRealServer, Connected
<1> QED BY <1>2, <1>3, <1>4, <1>5

LEMMA BeatBeats == BeatInv /\ Beat => BeatInv'
<1> SUFFICES ASSUME BeatInv, Beat PROVE BeatInv'
  OBVIOUS
<1> USE DEF BeatInv
<1>1. /\ beats \in Nat /\ beats' = beats + 1 /\ beats' \in 0 .. MaxBeats /\ wss # 0
      /\ cut' = cut \cup Dead /\ on' = on /\ heard' = heard
      /\ UNCHANGED <<servers, closers>>
  BY ServerAssumption DEF Beat, ClientTypes, TimerIsCurrent
<1>2. \A i \in Client :
        /\ state'[i] = IF i \in Dead THEN "gone" ELSE state[i]
        /\ isAlive'[i] = (isAlive[i] /\ i \notin Live)
        /\ pongs'[i] = IF i \in Dead THEN 0 ELSE pongs[i]
  BY DEF Beat, Unflag
<1>3. \A i \in Client : heard[i] \in Nat /\ 0 \in 0 .. MaxPongs
  BY ServerAssumption DEF ClientTypes
<1>4. ServerTypes' /\ TimerIsCurrent' /\ OnRealServer'
  BY <1>1 DEF ServerTypes, TimerIsCurrent, OnRealServer, servers, closers
<1>5. ClientTypes'
  <2>1. /\ state' \in [Client -> {"absent", "up", "stalled", "gone"}]
        /\ isAlive' \in [Client -> BOOLEAN]
    BY DEF Beat, Unflag, ClientTypes
  <2>2. pongs' \in [Client -> 0 .. MaxPongs]
    BY <1>3 DEF Beat, ClientTypes
  <2>3. cut' \subseteq Client
    BY <1>1 DEF Dead, ClientTypes
  <2> QED BY <1>1, <2>1, <2>2, <2>3 DEF ClientTypes
<1>6. BeatsBound'
  <2> SUFFICES ASSUME NEW i \in Client
               PROVE  heard'[i] <= beats'
    BY DEF BeatsBound
  <2>1. heard[i] <= beats
    BY DEF BeatsBound
  <2> QED BY <1>1, <1>2, <1>3, <2>1
<1>7. FlagIsRight'
  <2> SUFFICES ASSUME NEW i \in Client, on[i] = wss, Connected(i)'
               PROVE  heard[i] = IF isAlive'[i] THEN beats' ELSE beats' - 1
    BY <1>1 DEF FlagIsRight, servers
  <2>1. Connected(i) /\ i \notin Dead
    BY <1>2 DEF Connected
  <2>2. i \in Live /\ isAlive[i]
    BY <2>1 DEF Live, Dead
  <2>3. heard[i] = beats /\ ~isAlive'[i]
    BY <1>1, <1>2, <2>1, <2>2 DEF FlagIsRight
  <2> QED BY <1>1, <2>3
<1> QED BY <1>4, <1>5, <1>6, <1>7

LEMMA ClientStepBeats ==
  ASSUME BeatInv, NEW i \in Client,
         \/ \E s \in Servers : Connect(i, s)
         \/ Disconnect(i) \/ Stall(i) \/ GoOn(i) \/ SendPong(i) \/ Pong(i)
  PROVE  BeatInv'
<1> USE DEF BeatInv
<1>1. UNCHANGED <<wss, httpServer, heartbeat, http, sockets, pc, closing, beats, cut>>
  BY DEF Connect, Disconnect, Stall, GoOn, SendPong, Pong, servers, closers
<1>2. ServerTypes' /\ TimerIsCurrent'
  BY <1>1 DEF ServerTypes, TimerIsCurrent
<1>3. ClientTypes'
  <2>1. CASE \E s \in Servers : Connect(i, s)
    BY <2>1, <1>1 DEF Connect, ClientTypes, Servers
  <2>2. CASE Disconnect(i) \/ Stall(i) \/ GoOn(i)
    BY <2>2, ServerAssumption DEF Disconnect, Stall, GoOn, ClientTypes
  <2>3. CASE SendPong(i)
    BY <2>3, <1>1, ServerAssumption DEF SendPong, ClientTypes
  <2>4. CASE Pong(i)
    BY <2>4, <1>1, ServerAssumption DEF Pong, ClientTypes
  <2> QED BY <2>1, <2>2, <2>3, <2>4
<1>4. BeatsBound'
  <2>1. CASE \E s \in Servers : Connect(i, s)
    BY <2>1, <1>1 DEF Connect, ClientTypes, BeatsBound
  <2>2. CASE Disconnect(i)
    BY <2>2 DEF Disconnect, ClientTypes, BeatsBound
  <2>3. CASE Stall(i) \/ GoOn(i)
    BY <2>3 DEF Stall, GoOn, BeatsBound
  <2>4. CASE SendPong(i)
    BY <2>4, <1>1 DEF SendPong, ClientTypes, BeatsBound
  <2>5. CASE Pong(i)
    BY <2>5, <1>1 DEF Pong, ClientTypes, BeatsBound
  <2> QED BY <2>1, <2>2, <2>3, <2>4, <2>5
<1>5. OnRealServer'
  BY <1>1 DEF Connect, Disconnect, Stall, GoOn, SendPong, Pong, OnRealServer, ClientTypes
<1>6. FlagIsRight'
  <2>1. CASE \E s \in Servers : Connect(i, s)
    BY <2>1, <1>1 DEF Connect, ClientTypes, FlagIsRight, Connected
  <2>2. CASE Disconnect(i) \/ Stall(i) \/ GoOn(i)
    BY <2>2, <1>1 DEF Disconnect, Stall, GoOn, ClientTypes, FlagIsRight, Connected
  <2>3. CASE SendPong(i)
    BY <2>3, <1>1 DEF SendPong, FlagIsRight, Connected
  <2>4. CASE Pong(i)
    BY <2>4, <1>1 DEF Pong, ClientTypes, FlagIsRight, Connected
  <2> QED BY <2>1, <2>2, <2>3, <2>4
<1> QED BY <1>2, <1>3, <1>4, <1>5, <1>6

LEMMA BeatStep == BeatInv /\ [Next]_vars => BeatInv'
<1> SUFFICES ASSUME BeatInv, [Next]_vars PROVE BeatInv'
  OBVIOUS
<1>1. CASE UNCHANGED vars
  <2> USE <1>1 DEF vars, servers, closers, clients, BeatInv
  <2>1. ServerTypes' /\ ClientTypes' /\ TimerIsCurrent'
    BY DEF ServerTypes, ClientTypes, TimerIsCurrent
  <2>2. BeatsBound' /\ OnRealServer' /\ FlagIsRight'
    BY DEF BeatsBound, OnRealServer, FlagIsRight, Connected
  <2> QED BY <2>1, <2>2
<1>2. CASE ServerStep
  BY <1>2, ServerStepBeats
<1>3. CASE ClientStep
  BY <1>3, BeatBeats, ClientStepBeats DEF ClientStep
<1> QED BY <1>1, <1>2, <1>3, TwoKinds

(* In every configuration the flag isAlive tells which interval a client   *)
(* was last heard in: the invariant above.                                 *)
THEOREM BeatInvariance == Spec => []BeatInv
<1>1. Init => BeatInv
  <2> SUFFICES ASSUME Init PROVE BeatInv
    OBVIOUS
  <2>1. ServerTypes
    BY ServerAssumption DEF Init, ServerTypes
  <2>2. ClientTypes
    <3>1. 0 \in 0 .. MaxBeats /\ 0 \in 0 .. MaxServers /\ 0 \in 0 .. MaxPongs
      BY ServerAssumption
    <3> QED BY <3>1 DEF Init, ClientTypes
  <2>3. BeatsBound /\ TimerIsCurrent /\ OnRealServer /\ FlagIsRight
    BY DEF Init, BeatsBound, TimerIsCurrent, OnRealServer, FlagIsRight
  <2> QED BY <2>1, <2>2, <2>3 DEF BeatInv
<1> QED BY <1>1, BeatStep, PTL DEF Spec

(* The variables keep their types, and the heartbeat's timer goes with the *)
(* server it was started for, however calls overlap.                       *)
THEOREM TypeCorrect == Spec => []TypeOK
BY BeatInvariance, BeatInvTypes, PTL

(* A client that stays connected was heard of within two intervals: the    *)
(* heartbeat cuts the silent, in every configuration.                      *)
THEOREM SilentIsCutHolds == Spec => []SilentIsCut
<1>1. BeatInv => SilentIsCut
  <2> SUFFICES ASSUME BeatInv, NEW i \in Client, wss # 0, on[i] = wss, Connected(i)
               PROVE  beats - heard[i] <= 1
    BY DEF SilentIsCut
  <2>1. heard[i] = beats \/ heard[i] = beats - 1
    BY DEF BeatInv, FlagIsRight
  <2> QED BY <2>1, ServerAssumption DEF BeatInv, ClientTypes
<1> QED BY <1>1, BeatInvariance, PTL

(* And only the silent: whoever it cuts has missed a full interval.        *)
THEOREM CutOnlySilentHolds == Spec => CutOnlySilent
<1>1. BeatInv /\ [Next]_vars => [\A i \in cut' \ cut : beats' - heard[i] >= 2]_vars
  <2> SUFFICES ASSUME BeatInv, Next, NEW i \in cut' \ cut
               PROVE  beats' - heard[i] >= 2
    BY DEF vars
  <2>1. CASE Beat
    <3>1. wss # 0 /\ i \in Dead /\ beats' = beats + 1
      BY <2>1 DEF Beat, BeatInv, TimerIsCurrent
    <3>2. heard[i] = beats - 1 /\ beats \in Nat
      BY <3>1, ServerAssumption DEF BeatInv, FlagIsRight, Dead, ClientTypes
    <3> QED BY <3>1, <3>2
  <2>2. CASE ServerStep
    BY <2>2, ServerStepFrame DEF clients
  <2>3. CASE ClientStep /\ ~Beat
    BY <2>3 DEF ClientStep, Connect, Disconnect, Stall, GoOn, SendPong, Pong
  <2> QED BY <2>1, <2>2, <2>3, TwoKinds
<1> QED BY <1>1, BeatInvariance, PTL DEF Spec, CutOnlySilent

-----------------------------------------------------------------------------
(* Closing, by callers that wait for close() before they listen again. *)

(* close() is pending only while no server is in use. *)
PendingIsDown == \A c \in Closer : Pending(c) => wss = 0

(* The http server in use is up, and it is the one under wss, or the one   *)
(* that some close() will come to.                                         *)
HttpIsOwned ==
  /\ wss # 0 => httpServer = wss
  /\ httpServer # 0 => Up(httpServer)
  /\ httpServer # 0 /\ wss = 0 => \E c \in Closer : pc[c] = "wss"

(* A pending close() still has the server it was called on. *)
CloserKnowsServer ==
  \A c \in Closer :
    pc[c] = "wss" => /\ closing[c] # 0
                     /\ httpServer \in {0, closing[c]}
                     /\ http[closing[c]] # "unborn"

(* Past its second half, close() has closed that server. *)
ClosedIsClosed ==
  \A c \in Closer :
    pc[c] \in {"http", "resolved"} /\ closing[c] # 0 => http[closing[c]] = "closed"

(* ... and the clients of that server have left. *)
ClientsHaveLeft ==
  \A c \in Closer, i \in Client :
    pc[c] = "resolved" /\ closing[c] # 0 /\ on[i] = closing[c] => ~Connected(i)

CloseInv ==
  PendingIsDown /\ HttpIsOwned /\ CloserKnowsServer /\ ClosedIsClosed
  /\ ClientsHaveLeft /\ NoServerLeaks

LEMMA EnsureServerKeeps ==
  ASSUME ~MayOverlap, BeatInv, CloseInv, EnsureServer
  PROVE  CloseInv'
<1> USE DEF CloseInv
<1>1. PICK s \in Servers :
        /\ http[s] = "unborn" /\ wss' = s /\ httpServer' = s
        /\ http' = [http EXCEPT ![s] = "starting"]
  BY DEF EnsureServer
<1>2. /\ s # 0 /\ UNCHANGED <<pc, closing, on, state>>
      /\ \A c \in Closer : ~Pending(c)
      /\ \A t \in Servers : http'[t] = IF t = s THEN "starting" ELSE http[t]
  BY <1>1 DEF EnsureServer, Servers, closers, clients, BeatInv, ServerTypes
(* With no close() pending and no server in use nothing is up. *)
<1>3. \A t \in Servers : ~Up(t)
  <2>1. wss = 0
    BY DEF EnsureServer
  <2>2. httpServer = 0
    BY <1>2, <2>1 DEF HttpIsOwned, Pending
  <2> QED BY <2>2 DEF NoServerLeaks, Servers
<1>4. PendingIsDown' /\ CloserKnowsServer'
  BY <1>2 DEF PendingIsDown, CloserKnowsServer, Pending
<1>5. HttpIsOwned' /\ NoServerLeaks'
  BY <1>1, <1>2, <1>3 DEF HttpIsOwned, NoServerLeaks, Up
<1>6. ClosedIsClosed'
  BY <1>1, <1>2 DEF ClosedIsClosed, BeatInv, ServerTypes, Servers
<1>7. ClientsHaveLeft'
  BY <1>2 DEF ClientsHaveLeft, Connected
<1> QED BY <1>4, <1>5, <1>6, <1>7

LEMMA ListeningKeeps ==
  ASSUME BeatInv, CloseInv, NEW s \in Servers, Listening(s)
  PROVE  CloseInv'
<1> USE DEF CloseInv
<1>1. /\ UNCHANGED <<wss, httpServer, pc, closing, on, state>> /\ http[s] = "starting"
      /\ \A t \in Servers : http'[t] = IF t = s THEN "listening" ELSE http[t]
      /\ Servers = 1 .. MaxServers
  BY DEF Listening, Servers, closers, clients, BeatInv, ServerTypes
<1>2. httpServer \in 0 .. MaxServers /\ \A c \in Closer : closing[c] \in 0 .. MaxServers
  BY DEF BeatInv, ServerTypes
<1>3. \A t \in Servers : Up(t)' <=> Up(t)
  BY <1>1 DEF Up
<1>4. PendingIsDown' /\ CloserKnowsServer'
  BY <1>1, <1>2 DEF PendingIsDown, CloserKnowsServer, Pending
<1>5. HttpIsOwned' /\ NoServerLeaks'
  BY <1>1, <1>2, <1>3 DEF HttpIsOwned, NoServerLeaks
<1>6. ClosedIsClosed' /\ ClientsHaveLeft'
  BY <1>1, <1>2 DEF ClosedIsClosed, ClientsHaveLeft, Connected
<1> QED BY <1>4, <1>5, <1>6

(* What the second half of close() leaves behind. *)
LEMMA CloseHttpEffect ==
  ASSUME BeatInv, CloseInv, NEW c \in Closer, CloseHttp(c)
  PROVE  /\ httpServer' = 0
         /\ \A d \in Closer \ {c} : pc'[d] = pc[d]
         /\ \A s \in Servers : http'[s] = IF s = httpServer THEN "closed" ELSE http[s]
         /\ \A s \in Servers : ~Up(s)'
         /\ pc'[c] = IF httpServer = 0 THEN "resolved" ELSE "http"
<1>1. httpServer \in 0 .. MaxServers /\ \A s \in Servers : s # 0
  BY DEF BeatInv, ServerTypes, Servers
<1>2. CASE httpServer # 0
  <2>1. httpServer \in Servers
    BY <1>1, <1>2 DEF Servers
  <2>2. \A s \in Servers : http'[s] = IF s = httpServer THEN "closed" ELSE http[s]
    BY <1>2, <2>1 DEF CloseHttp, BeatInv, ServerTypes
  <2>3. \A s \in Servers : ~Up(s)'
    BY <2>2 DEF CloseInv, NoServerLeaks, Up
  <2> QED BY <1>2, <2>2, <2>3 DEF CloseHttp, BeatInv, ServerTypes
<1>3. CASE httpServer = 0
  BY <1>1, <1>3 DEF CloseHttp, CloseInv, NoServerLeaks, Up, BeatInv, ServerTypes
<1> QED BY <1>2, <1>3

LEMMA CloseKeeps ==
  ASSUME BeatInv, CloseInv, NEW c \in Closer, Close(c)
  PROVE  CloseInv'
<1> USE DEF CloseInv
<1>1. /\ pc[c] = "idle" /\ wss' = 0 /\ UNCHANGED <<on, state>>
      /\ \A d \in Closer \ {c} : closing'[d] = closing[d]
      /\ closing'[c] = IF wss # 0 THEN wss ELSE httpServer
  BY DEF Close, clients, BeatInv, ServerTypes
<1>2. /\ httpServer \in 0 .. MaxServers /\ wss \in 0 .. MaxServers
      /\ Servers = 1 .. MaxServers /\ \A d \in Closer : closing[d] \in 0 .. MaxServers
  BY DEF BeatInv, ServerTypes, Servers
<1>3. PendingIsDown'
  BY <1>1 DEF PendingIsDown
<1>4. CASE wss # 0
  <2>1. /\ UNCHANGED <<httpServer, http>> /\ pc'[c] = "wss"
        /\ \A d \in Closer \ {c} : pc'[d] = pc[d] /\ ~Pending(d)
        /\ closing'[c] = httpServer /\ httpServer # 0
    BY <1>1, <1>4 DEF Close, BeatInv, ServerTypes, PendingIsDown, HttpIsOwned
  <2>2. HttpIsOwned' /\ NoServerLeaks'
    BY <1>1, <2>1 DEF HttpIsOwned, NoServerLeaks, Up
  <2>3. CloserKnowsServer'
    BY <1>1, <2>1 DEF CloserKnowsServer, HttpIsOwned, Up, Pending
  <2>4. ClosedIsClosed' /\ ClientsHaveLeft'
    BY <1>1, <2>1 DEF ClosedIsClosed, ClientsHaveLeft, Connected
  <2> QED BY <1>3, <2>2, <2>3, <2>4
<1>5. CASE wss = 0
  <2>1. /\ httpServer' = 0
        /\ \A d \in Closer \ {c} : pc'[d] = pc[d]
        /\ \A s \in Servers : http'[s] = IF s = httpServer THEN "closed" ELSE http[s]
        /\ \A s \in Servers : ~Up(s)'
        /\ pc'[c] = IF httpServer = 0 THEN "resolved" ELSE "http"
        /\ closing'[c] = httpServer
    BY <1>1, <1>5, CloseHttpEffect DEF Close
  <2>2. HttpIsOwned' /\ NoServerLeaks'
    BY <1>1, <2>1 DEF HttpIsOwned, NoServerLeaks
  <2>3. CloserKnowsServer'
    BY <1>1, <1>2, <2>1 DEF CloserKnowsServer
  <2>4. ClosedIsClosed'
    BY <1>1, <1>2, <2>1 DEF ClosedIsClosed
  <2>5. ClientsHaveLeft'
    BY <1>1, <2>1 DEF ClientsHaveLeft, Connected
  <2> QED BY <1>3, <2>2, <2>3, <2>4, <2>5
<1> QED BY <1>4, <1>5

(* wss.close() has called back: the clients are gone, and this.httpServer  *)
(* is the server they were on or has been closed already.                  *)
LEMMA WssClosedKeeps ==
  ASSUME BeatInv, CloseInv, NEW c \in Closer, WssClosed(c)
  PROVE  CloseInv'
<1> USE DEF CloseInv
<1>1. /\ pc[c] = "wss" /\ UNCHANGED <<wss, closing, on, state>>
      /\ \A i \in Client : on[i] = closing[c] => ~Connected(i)
      /\ httpServer' = 0
      /\ \A d \in Closer \ {c} : pc'[d] = pc[d]
      /\ \A s \in Servers : http'[s] = IF s = httpServer THEN "closed" ELSE http[s]
      /\ \A s \in Servers : ~Up(s)'
      /\ pc'[c] = IF httpServer = 0 THEN "resolved" ELSE "http"
  BY CloseHttpEffect DEF WssClosed, clients
<1>2. /\ wss = 0 /\ Servers = 1 .. MaxServers
      /\ \A d \in Closer : closing[d] \in 0 .. MaxServers
  BY <1>1 DEF BeatInv, ServerTypes, Servers, PendingIsDown, Pending
<1>3. closing[c] \in Servers /\ http'[closing[c]] = "closed"
  <2>1. closing[c] \in Servers /\ http[closing[c]] # "unborn"
    BY <1>1, <1>2 DEF CloserKnowsServer
  <2>2. http'[closing[c]] # "unborn"
    BY <1>1, <2>1
  <2>3. ~Up(closing[c])'
    BY <1>1, <2>1
  <2>4. http' \in [Servers -> {"unborn", "starting", "listening", "closed"}]
    BY ServerTypesKept DEF BeatInv, ServerStep, ServerTypes
  <2> QED BY <1>1, <2>1, <2>2, <2>3, <2>4 DEF Up
<1>4. PendingIsDown' /\ HttpIsOwned' /\ NoServerLeaks'
  BY <1>1, <1>2 DEF PendingIsDown, HttpIsOwned, NoServerLeaks
<1>5. CloserKnowsServer'
  BY <1>1, <1>2 DEF CloserKnowsServer
<1>6. ClosedIsClosed'
  BY <1>1, <1>2, <1>3 DEF ClosedIsClosed
<1>7. ClientsHaveLeft'
  BY <1>1 DEF ClientsHaveLeft, Connected
<1> QED BY <1>4, <1>5, <1>6, <1>7

LEMMA HttpClosedKeeps ==
  ASSUME BeatInv, CloseInv, NEW c \in Closer, HttpClosed(c)
  PROVE  CloseInv'
<1> USE DEF CloseInv
<1>1. /\ pc[c] = "http" /\ pc'[c] = "resolved"
      /\ \A d \in Closer \ {c} : pc'[d] = pc[d]
      /\ UNCHANGED <<wss, httpServer, http, closing, on, state>>
      /\ \A i \in Client : on[i] # 0 /\ http[on[i]] = "closed" => ~Connected(i)
  BY DEF HttpClosed, servers, clients, BeatInv, ServerTypes
<1>2. PendingIsDown' /\ CloserKnowsServer' /\ ClosedIsClosed'
  BY <1>1 DEF PendingIsDown, CloserKnowsServer, ClosedIsClosed, Pending
<1>3. HttpIsOwned' /\ NoServerLeaks'
  BY <1>1 DEF HttpIsOwned, NoServerLeaks, Up
<1>4. ClientsHaveLeft'
  BY <1>1 DEF ClientsHaveLeft, ClosedIsClosed, Connected
<1> QED BY <1>2, <1>3, <1>4

(* Clients come only to a server that listens, and go. *)
LEMMA ClientStepKeeps ==
  ASSUME BeatInv, CloseInv, ClientStep
  PROVE  CloseInv'
<1> USE DEF CloseInv
<1>1. UNCHANGED <<wss, httpServer, http, pc, closing>>
  BY ClientStepFrame DEF servers, closers
<1>2. \A j \in Client, s \in Servers :
        on'[j] = s /\ Connected(j)' => (on[j] = s /\ Connected(j)) \/ http[s] = "listening"
  <2> USE DEF Connected, BeatInv, ClientTypes
  <2>1. CASE Beat
    BY <2>1 DEF Beat
  <2>2. ASSUME NEW i \in Client, NEW t \in Servers, Connect(i, t)
        PROVE  \A j \in Client, s \in Servers : on'[j] = s /\ Connected(j)' =>
                 (on[j] = s /\ Connected(j)) \/ http[s] = "listening"
    BY <2>2 DEF Connect
  <2>3. ASSUME NEW i \in Client, Disconnect(i) \/ Stall(i) \/ GoOn(i) \/ SendPong(i) \/ Pong(i)
        PROVE  on' = on /\ \A j \in Client : Connected(j)' => Connected(j)
    BY <2>3 DEF Disconnect, Stall, GoOn, SendPong, Pong
  <2> QED BY <2>1, <2>2, <2>3 DEF ClientStep
<1>3. PendingIsDown' /\ CloserKnowsServer' /\ ClosedIsClosed'
  BY <1>1 DEF PendingIsDown, CloserKnowsServer, ClosedIsClosed, Pending
<1>4. HttpIsOwned' /\ NoServerLeaks'
  BY <1>1 DEF HttpIsOwned, NoServerLeaks, Up
<1>5. ClientsHaveLeft'
  <2> SUFFICES ASSUME NEW c \in Closer, NEW i \in Client, pc[c] = "resolved", closing[c] # 0,
                      on'[i] = closing[c], Connected(i)'
               PROVE  FALSE
    BY <1>1 DEF ClientsHaveLeft
  <2>1. closing[c] \in Servers /\ http[closing[c]] = "closed"
    BY DEF ClosedIsClosed, BeatInv, ServerTypes, Servers
  <2> QED BY <1>2, <2>1 DEF ClientsHaveLeft
<1> QED BY <1>3, <1>4, <1>5

(* Where nobody listens while a close() is pending, every close() works on *)
(* the server it began with: the invariant above.                          *)
THEOREM CloseInvariance == ASSUME ~MayOverlap PROVE Spec => [](BeatInv /\ CloseInv)
<1>1. Init => CloseInv
  BY DEF Init, CloseInv, PendingIsDown, HttpIsOwned, CloserKnowsServer, ClosedIsClosed,
         ClientsHaveLeft, NoServerLeaks, Pending, Up
<1>2. BeatInv /\ CloseInv /\ [Next]_vars => CloseInv'
  <2> SUFFICES ASSUME BeatInv, CloseInv, [Next]_vars PROVE CloseInv'
    OBVIOUS
  <2>1. CASE UNCHANGED vars
    <3> USE <2>1 DEF vars, servers, closers, clients, CloseInv
    <3>1. PendingIsDown' /\ HttpIsOwned' /\ CloserKnowsServer'
      BY DEF PendingIsDown, HttpIsOwned, CloserKnowsServer, Pending, Up
    <3>2. ClosedIsClosed' /\ ClientsHaveLeft' /\ NoServerLeaks'
      BY DEF ClosedIsClosed, ClientsHaveLeft, NoServerLeaks, Connected, Up
    <3> QED BY <3>1, <3>2
  <2>2. CASE EnsureServer
    BY <2>2, EnsureServerKeeps
  <2>3. ASSUME NEW s \in Servers, Listening(s) PROVE CloseInv'
    BY <2>3, ListeningKeeps
  <2>4. ASSUME NEW c \in Closer, Close(c) \/ WssClosed(c) \/ HttpClosed(c) PROVE CloseInv'
    BY <2>4, CloseKeeps, WssClosedKeeps, HttpClosedKeeps
  <2>5. CASE ClientStep
    BY <2>5, ClientStepKeeps
  <2> QED BY <2>1, <2>2, <2>3, <2>4, <2>5, TwoKinds DEF ServerStep
<1> QED BY <1>1, <1>2, BeatInvariance, PTL DEF Spec

(* Where nobody listens while a close() is pending, a close() that has     *)
(* resolved has stopped the server it was called on and freed its clients. *)
THEOREM CloseStopsHolds == ASSUME ~MayOverlap PROVE Spec => []CloseStops
<1>1. CloseInv => CloseStops
  BY DEF CloseInv, ClosedIsClosed, ClientsHaveLeft, CloseStops, Up
<1> QED BY <1>1, CloseInvariance, PTL

(* And the only server that is up is the one the transport still knows.    *)
THEOREM NoServerLeaksHolds == ASSUME ~MayOverlap PROVE Spec => []NoServerLeaks
<1>1. CloseInv => NoServerLeaks
  BY DEF CloseInv
<1> QED BY <1>1, CloseInvariance, PTL
-----------------------------------------------------------------------------
(* What a listen() during a close() can do, and what it cannot.            *)

(* The WebSocketServer in use is the only one that takes clients. *)
OpenIsInUse == \A s \in Servers : sockets[s] = "open" <=> wss = s

BornTogether == \A s \in Servers : http[s] = "unborn" <=> sockets[s] = "unborn"

(* While its WebSocketServer is in use an http server is this.httpServer,  *)
(* or has been closed under it.                                            *)
UseIsKept == wss # 0 => httpServer = wss \/ ~Up(wss)

HttpIsUp == httpServer # 0 => Up(httpServer)

(* No WebSocketServer is closed but by a close() that was called on it. *)
ClosedIsCalled ==
  \A s \in Servers :
    sockets[s] = "closed" => \E c \in Closer : pc[c] # "idle" /\ closing[c] = s

(* A close() that waits for clients has asked them to leave. *)
WaitsForTheAsked ==
  \A c \in Closer : pc[c] = "wss" => closing[c] # 0 /\ sockets[closing[c]] = "closed"

OverlapInv ==
  /\ OpenIsInUse /\ BornTogether /\ UseIsKept /\ HttpIsUp
  /\ ClosedIsCalled /\ WaitsForTheAsked

(* An http server that is up and that the transport has lost is one that   *)
(* some close() was called on, and it takes no clients any more.           *)
LeaksAreDeaf ==
  \A s \in Servers :
    Up(s) /\ httpServer # s =>
      /\ sockets[s] = "closed"
      /\ \E c \in Closer : pc[c] # "idle" /\ closing[c] = s

(* The clients of an http server are asked to leave before it is closed. *)
AskedFirst == \A s \in Servers : http[s] = "closed" => sockets[s] = "closed"

(* The condition under which the callback that a close() awaits comes, and *)
(* the clients that have been asked to leave and are still there.          *)
MayEnd(c) ==
  IF pc[c] = "wss"
  THEN \A i \in Client : on[i] = closing[c] => ~Connected(i)
  ELSE \A i \in Client : on[i] # 0 /\ http[on[i]] = "closed" => ~Connected(i)

Leaving == {i \in Client : on[i] # 0 /\ Connected(i) /\ sockets[on[i]] = "closed"}

(* A pending close() waits for nobody but clients that were asked to leave. *)
PendingCanEnd == \A c \in Closer : Pending(c) => MayEnd(c) \/ Leaving # {}

(* The second half of close() closes this.httpServer, if there is one.     *)
LEMMA CloseHttpCloses ==
  ASSUME BeatInv, HttpIsUp, NEW c \in Closer, CloseHttp(c)
  PROVE  /\ httpServer' = 0
         /\ \A s \in Servers : http'[s] = IF s = httpServer THEN "closed" ELSE http[s]
         /\ \A s \in Servers : http'[s] = "unborn" <=> http[s] = "unborn"
         /\ \A d \in Closer : pc[d] # "idle" => pc'[d] # "idle"
         /\ \A d \in Closer : pc'[d] = "wss" => d # c /\ pc[d] = "wss"
<1>1. /\ httpServer \in 0 .. MaxServers /\ Servers = 1 .. MaxServers
      /\ http \in [Servers -> {"unborn", "starting", "listening", "closed"}]
      /\ pc \in [Closer -> {"idle", "wss", "http", "resolved"}]
  BY DEF BeatInv, ServerTypes, Servers
<1>2. CASE httpServer # 0
  <2>1. http[httpServer] # "unborn"
    BY <1>2 DEF HttpIsUp, Up
  <2> QED BY <1>1, <1>2, <2>1 DEF CloseHttp
<1>3. CASE httpServer = 0
  BY <1>1, <1>3 DEF CloseHttp
<1> QED BY <1>2, <1>3

LEMMA EnsureServerOverlap ==
  ASSUME BeatInv, OverlapInv, EnsureServer
  PROVE  OverlapInv'
<1> USE DEF OverlapInv
<1>1. PICK s \in Servers :
        /\ http[s] = "unborn" /\ wss' = s /\ httpServer' = s
        /\ http' = [http EXCEPT ![s] = "starting"]
        /\ sockets' = [sockets EXCEPT ![s] = "open"]
  BY DEF EnsureServer
<1>2. /\ wss = 0 /\ s # 0 /\ UNCHANGED <<pc, closing>>
      /\ \A t \in Servers : http'[t] = IF t = s THEN "starting" ELSE http[t]
      /\ \A t \in Servers : sockets'[t] = IF t = s THEN "open" ELSE sockets[t]
      /\ \A t \in Servers : t # 0
      /\ \A c \in Closer : closing[c] \in 0 .. MaxServers
  BY <1>1 DEF EnsureServer, Servers, closers, BeatInv, ServerTypes
<1>3. OpenIsInUse' /\ BornTogether' /\ UseIsKept' /\ HttpIsUp'
  BY <1>1, <1>2 DEF OpenIsInUse, BornTogether, UseIsKept, HttpIsUp, Up
<1>4. ClosedIsCalled'
  BY <1>2 DEF ClosedIsCalled
<1>5. WaitsForTheAsked'
  <2>1. sockets[s] = "unborn"
    BY <1>1 DEF BornTogether
  <2> QED BY <1>2, <2>1 DEF WaitsForTheAsked, Servers
<1> QED BY <1>3, <1>4, <1>5

(* close() takes the WebSocketServer out of use, or comes to the http      *)
(* server at once where there is none.                                     *)
LEMMA CloseOverlap ==
  ASSUME BeatInv, OverlapInv, NEW c \in Closer, Close(c)
  PROVE  OverlapInv'
<1> USE DEF OverlapInv
<1>1. /\ pc[c] = "idle" /\ wss' = 0 /\ wss \in 0 .. MaxServers /\ Servers = 1 .. MaxServers
      /\ \A d \in Closer \ {c} : closing'[d] = closing[d]
      /\ closing'[c] = IF wss # 0 THEN wss ELSE httpServer
      /\ \A d \in Closer : closing[d] \in 0 .. MaxServers
  BY DEF Close, BeatInv, ServerTypes, Servers
<1>2. UseIsKept'
  BY <1>1 DEF UseIsKept
<1>3. CASE wss # 0
  <2>1. /\ UNCHANGED <<httpServer, http>>
        /\ \A d \in Closer : pc'[d] = IF d = c THEN "wss" ELSE pc[d]
        /\ \A s \in Servers : sockets'[s] = IF s = wss THEN "closed" ELSE sockets[s]
        /\ wss \in Servers /\ \A s \in Servers : s # 0
    <3>1. wss \in Servers /\ \A s \in Servers : s # 0
      BY <1>1, <1>3
    <3>2. /\ UNCHANGED <<httpServer, http>> /\ pc' = [pc EXCEPT ![c] = "wss"]
          /\ sockets' = [sockets EXCEPT ![wss] = "closed"]
      BY <1>3 DEF Close
    <3> QED BY <3>1, <3>2 DEF BeatInv, ServerTypes
  <2>2. OpenIsInUse' /\ BornTogether' /\ HttpIsUp'
    BY <1>1, <1>3, <2>1 DEF OpenIsInUse, BornTogether, HttpIsUp, Up
  <2>3. ClosedIsCalled'
    BY <1>1, <1>3, <2>1 DEF ClosedIsCalled
  <2>4. WaitsForTheAsked'
    BY <1>1, <1>3, <2>1 DEF WaitsForTheAsked
  <2> QED BY <1>2, <2>2, <2>3, <2>4
<1>4. CASE wss = 0
  <2>1. CloseHttp(c) /\ UNCHANGED <<wss, sockets>>
    BY <1>4 DEF Close
  <2>2. OpenIsInUse' /\ BornTogether' /\ HttpIsUp'
    BY <2>1, CloseHttpCloses DEF OpenIsInUse, BornTogether, HttpIsUp
  <2>3. ClosedIsCalled'
    BY <1>1, <2>1, CloseHttpCloses DEF ClosedIsCalled
  <2>4. WaitsForTheAsked'
    BY <1>1, <2>1, CloseHttpCloses DEF WaitsForTheAsked
  <2> QED BY <1>2, <2>2, <2>3, <2>4
<1> QED BY <1>3, <1>4

LEMMA CallbackOverlap ==
  ASSUME BeatInv, OverlapInv, NEW c \in Closer, WssClosed(c) \/ HttpClosed(c)
  PROVE  OverlapInv'
<1> USE DEF OverlapInv
<1>1. CASE WssClosed(c)
  <2>1. CloseHttp(c) /\ UNCHANGED <<wss, sockets, closing>>
    BY <1>1 DEF WssClosed
  <2>2. OpenIsInUse' /\ BornTogether' /\ HttpIsUp'
    BY <2>1, CloseHttpCloses DEF OpenIsInUse, BornTogether, HttpIsUp
  <2>3. ClosedIsCalled' /\ WaitsForTheAsked'
    BY <2>1, CloseHttpCloses DEF ClosedIsCalled, WaitsForTheAsked
  <2>4. UseIsKept'
    <3>1. wss # 0 => wss \in Servers
      BY DEF BeatInv, ServerTypes, Servers
    <3>2. \A s \in Servers : http'[s] = IF s = httpServer THEN "closed" ELSE http[s]
      BY <2>1, CloseHttpCloses
    <3> QED BY <2>1, <3>1, <3>2 DEF UseIsKept, Up
  <2> QED BY <2>2, <2>3, <2>4
<1>2. CASE HttpClosed(c)
  <2>1. /\ pc[c] = "http" /\ UNCHANGED <<wss, httpServer, http, sockets, closing>>
        /\ \A d \in Closer : pc'[d] = IF d = c THEN "resolved" ELSE pc[d]
    BY <1>2 DEF HttpClosed, servers, BeatInv, ServerTypes
  <2>2. OpenIsInUse' /\ BornTogether' /\ HttpIsUp' /\ UseIsKept'
    BY <2>1 DEF OpenIsInUse, BornTogether, HttpIsUp, UseIsKept, Up
  <2>3. ClosedIsCalled' /\ WaitsForTheAsked'
    BY <2>1 DEF ClosedIsCalled, WaitsForTheAsked
  <2> QED BY <2>2, <2>3
<1> QED BY <1>1, <1>2

LEMMA ListeningOverlap ==
  ASSUME BeatInv, OverlapInv, NEW s \in Servers, Listening(s)
  PROVE  OverlapInv'
<1> USE DEF OverlapInv
<1>1. /\ UNCHANGED <<wss, httpServer, sockets, pc, closing>> /\ http[s] = "starting"
      /\ \A t \in Servers : http'[t] = IF t = s THEN "listening" ELSE http[t]
      /\ Servers = 1 .. MaxServers
      /\ wss \in 0 .. MaxServers /\ httpServer \in 0 .. MaxServers
  BY DEF Listening, closers, Servers, BeatInv, ServerTypes
<1>2. \A t \in Servers : Up(t)' <=> Up(t)
  BY <1>1 DEF Up
<1>3. OpenIsInUse' /\ BornTogether'
  BY <1>1 DEF OpenIsInUse, BornTogether
<1>4. UseIsKept' /\ HttpIsUp'
  BY <1>1, <1>2 DEF UseIsKept, HttpIsUp
<1>5. ClosedIsCalled' /\ WaitsForTheAsked'
  BY <1>1 DEF ClosedIsCalled, WaitsForTheAsked
<1> QED BY <1>3, <1>4, <1>5

(* In every configuration, listen() during close() included: which server  *)
(* is in use, which are closed, and by whom.                               *)
THEOREM OverlapInvariance == Spec => [](BeatInv /\ OverlapInv)
<1>1. Init => OverlapInv
  <2> SUFFICES ASSUME Init PROVE OverlapInv
    OBVIOUS
  <2>1. /\ \A s \in Servers : sockets[s] = "unborn" /\ http[s] = "unborn" /\ s # 0
        /\ wss = 0 /\ httpServer = 0 /\ \A c \in Closer : pc[c] = "idle"
    BY DEF Init, Servers
  <2> QED BY <2>1 DEF OverlapInv, OpenIsInUse, BornTogether, UseIsKept, HttpIsUp,
                      ClosedIsCalled, WaitsForTheAsked
<1>2. BeatInv /\ OverlapInv /\ [Next]_vars => OverlapInv'
  <2> SUFFICES ASSUME BeatInv, OverlapInv, [Next]_vars PROVE OverlapInv'
    OBVIOUS
  <2>1. CASE UNCHANGED <<servers, closers>>
    BY <2>1 DEF servers, closers, OverlapInv, OpenIsInUse, BornTogether, UseIsKept,
                HttpIsUp, ClosedIsCalled, WaitsForTheAsked, Up
  <2>2. CASE UNCHANGED vars \/ ClientStep
    BY <2>1, <2>2, ClientStepFrame DEF vars
  <2>3. CASE EnsureServer
    BY <2>3, EnsureServerOverlap
  <2>4. ASSUME NEW s \in Servers, Listening(s) PROVE OverlapInv'
    BY <2>4, ListeningOverlap
  <2>5. ASSUME NEW c \in Closer, Close(c) \/ WssClosed(c) \/ HttpClosed(c) PROVE OverlapInv'
    BY <2>5, CloseOverlap, CallbackOverlap
  <2> QED BY <2>2, <2>3, <2>4, <2>5, TwoKinds DEF ServerStep
<1> QED BY <1>1, <1>2, BeatInvariance, PTL DEF Spec

(* What is lost when somebody listens during a close(): an http server     *)
(* that a close() was called on and that takes no client any more, never   *)
(* one that serves.                                                        *)
THEOREM LeaksAreDeafHolds == Spec => []LeaksAreDeaf
<1>1. BeatInv /\ OverlapInv => LeaksAreDeaf
  <2> SUFFICES ASSUME BeatInv, OverlapInv, NEW s \in Servers, Up(s), httpServer # s
               PROVE  sockets[s] = "closed" /\ \E c \in Closer : pc[c] # "idle" /\ closing[c] = s
    BY DEF LeaksAreDeaf
  <2>1. s # 0 /\ http[s] # "unborn" /\ sockets[s] \in {"unborn", "open", "closed"}
    BY DEF Up, Servers, BeatInv, ServerTypes
  <2>2. sockets[s] = "closed"
    BY <2>1 DEF OverlapInv, OpenIsInUse, BornTogether, UseIsKept
  <2> QED BY <2>2 DEF OverlapInv, ClosedIsCalled
<1> QED BY <1>1, OverlapInvariance, PTL

(* An http server is closed when no WebSocketServer is in use, hence the   *)
(* one on top of it is closed, for it is not unborn.                       *)
LEMMA CloseHttpAsks ==
  ASSUME BeatInv, OverlapInv, AskedFirst, NEW c \in Closer, CloseHttp(c), wss = 0, sockets' = sockets
  PROVE  AskedFirst'
<1>1. httpServer # 0 => sockets[httpServer] = "closed"
  <2> HAVE httpServer # 0
  <2>1. httpServer \in Servers /\ http[httpServer] # "unborn"
    BY DEF BeatInv, ServerTypes, Servers, OverlapInv, HttpIsUp, Up
  <2>2. sockets[httpServer] \in {"open", "closed"}
    BY <2>1 DEF BeatInv, ServerTypes, OverlapInv, BornTogether
  <2> QED BY <2>1, <2>2 DEF OverlapInv, OpenIsInUse, Servers
<1>2. \A s \in Servers : http'[s] = IF s = httpServer THEN "closed" ELSE http[s]
  BY CloseHttpCloses DEF OverlapInv
<1> QED BY <1>1, <1>2 DEF AskedFirst, Servers

(* Where nobody listens while a close() is pending, clients are told to    *)
(* leave before their http server waits for them.                          *)
THEOREM AskedFirstHolds == ASSUME ~MayOverlap PROVE Spec => []AskedFirst
<1>1. Init => AskedFirst
  BY DEF Init, AskedFirst
<1>2. BeatInv /\ CloseInv /\ OverlapInv /\ AskedFirst /\ [Next]_vars => AskedFirst'
  <2> SUFFICES ASSUME BeatInv, CloseInv, OverlapInv, AskedFirst, [Next]_vars PROVE AskedFirst'
    OBVIOUS
  <2>1. CASE UNCHANGED vars \/ ClientStep
    BY <2>1, ClientStepFrame DEF vars, servers, AskedFirst
  <2>2. CASE EnsureServer
    BY <2>2 DEF EnsureServer, AskedFirst, BeatInv, ServerTypes
  <2>3. ASSUME NEW s \in Servers, Listening(s) PROVE AskedFirst'
    BY <2>3 DEF Listening, AskedFirst, BeatInv, ServerTypes
  <2>4. ASSUME NEW c \in Closer, Close(c) PROVE AskedFirst'
    <3>1. CASE wss # 0
      BY <2>4, <3>1 DEF Close, AskedFirst, BeatInv, ServerTypes
    <3>2. CASE wss = 0
      BY <2>4, <3>2, CloseHttpAsks DEF Close
    <3> QED BY <3>1, <3>2
  <2>5. ASSUME NEW c \in Closer, WssClosed(c) PROVE AskedFirst'
    <3>1. wss = 0
      BY <2>5 DEF WssClosed, CloseInv, PendingIsDown, Pending
    <3> QED BY <2>5, <3>1, CloseHttpAsks DEF WssClosed
  <2>6. ASSUME NEW c \in Closer, HttpClosed(c) PROVE AskedFirst'
    BY <2>6 DEF HttpClosed, servers, AskedFirst
  <2> QED BY <2>1, <2>2, <2>3, <2>4, <2>5, <2>6, TwoKinds DEF ServerStep
<1> QED BY <1>1, <1>2, CloseInvariance, OverlapInvariance, PTL DEF Spec

(* So a pending close() has its callback to come, or clients that were     *)
(* asked to leave and will: what CloseSettles rests on, as an invariant.   *)
THEOREM PendingCanEndHolds == ASSUME ~MayOverlap PROVE Spec => []PendingCanEnd
<1>1. BeatInv /\ OverlapInv /\ AskedFirst => PendingCanEnd
  <2> SUFFICES ASSUME BeatInv, OverlapInv, AskedFirst, NEW c \in Closer, Pending(c), Leaving = {}
               PROVE  MayEnd(c)
    BY DEF PendingCanEnd
  <2>1. \A i \in Client : on[i] \in 0 .. MaxServers
    BY DEF BeatInv, ClientTypes
  <2>2. CASE pc[c] = "wss"
    BY <2>2 DEF OverlapInv, WaitsForTheAsked, MayEnd, Leaving
  <2>3. CASE pc[c] = "http"
    BY <2>1, <2>3 DEF AskedFirst, MayEnd, Leaving, Servers
  <2> QED BY <2>2, <2>3 DEF Pending
<1> QED BY <1>1, AskedFirstHolds, OverlapInvariance, PTL
=================================================================================
