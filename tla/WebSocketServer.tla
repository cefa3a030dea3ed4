---------------------------- MODULE WebSocketServer ----------------------------
(***************************************************************************)
(* The server side of one WebSocketTransport: listen(), listenStream() and *)
(* close(), each an async function that calls of the others may overlap,   *)
(* over its fields this.wss and this.httpServer; the clients connected to  *)
(* it; and the heartbeat, which at every interval terminates the clients   *)
(* that have not answered the last ping and pings the others.              *)
(* Servers are numbered in the order ensureServer() creates them; 0 stands *)
(* for null.  A client may stall and go on, disconnect, and send pongs: the *)
(* server does not tell the answer to a ping from a pong it did not ask    *)
(* for, so pings are not modelled.                                         *)
(***************************************************************************)
EXTENDS Integers

CONSTANTS
  MaxServers,   \* bound: servers created
  Closer,       \* calls of close()
  Client,       \* connections a behaviour may make
  MaxBeats,     \* bound: heartbeat intervals
  MaxPongs,     \* bound: pongs under way from one client
  MayOverlap    \* may listen() be called while a close() is pending?

ASSUME ServerAssumption ==
  MaxServers \in Nat \ {0} /\ MaxBeats \in Nat /\ MaxPongs \in Nat /\ MayOverlap \in BOOLEAN

VARIABLES
  wss,         \* this.wss
  httpServer,  \* this.httpServer
  heartbeat,   \* this.heartbeatTimer: the server it was started for
  http,        \* "unborn", "starting", "listening" or "closed", of each server
  sockets,     \* "unborn", "open" or "closed": the WebSocketServer on top of it
  pc,          \* each close(): "idle", "wss", "http" or "resolved"
  closing,     \* history: the server that was in use when close() was called
  on,          \* the server each client is connected to
  state,       \* "absent", "up", "stalled" or "gone"
  isAlive,     \* the flag kept on each socket
  pongs,       \* pongs under way from it
  beats,       \* intervals elapsed
  heard,       \* history: `beats` when the client last connected or answered
  cut          \* history: the clients the heartbeat terminated

servers == <<wss, httpServer, heartbeat, http, sockets>>
closers == <<pc, closing>>
clients == <<on, state, isAlive, pongs, heard, cut>>
vars == <<servers, closers, clients, beats>>

Servers == 1 .. MaxServers
Pending(c) == pc[c] \in {"wss", "http"}
Connected(i) == state[i] \in {"up", "stalled"}

Init ==
  /\ wss = 0 /\ httpServer = 0 /\ heartbeat = 0
  /\ http = [s \in Servers |-> "unborn"]
  /\ sockets = [s \in Servers |-> "unborn"]
  /\ pc = [c \in Closer |-> "idle"]
  /\ closing = [c \in Closer |-> 0]
  /\ on = [i \in Client |-> 0]
  /\ state = [i \in Client |-> "absent"]
  /\ isAlive = [i \in Client |-> FALSE]
  /\ pongs = [i \in Client |-> 0]
  /\ beats = 0
  /\ heard = [i \in Client |-> 0]
  /\ cut = {}

-----------------------------------------------------------------------------
(* listen() and close(). *)

(* Mutant: ensureServer() looks at the timer to see whether it has run. *)
EnsureServer_ChecksTimer ==
  /\ heartbeat = 0
  /\ MayOverlap \/ \A c \in Closer : ~Pending(c)
  /\ \E s \in Servers :
        /\ http[s] = "unborn"
        /\ \A t \in Servers : t < s => http[t] # "unborn"
        /\ wss' = s /\ httpServer' = s /\ heartbeat' = 0
        /\ http' = [http EXCEPT ![s] = "starting"]
        /\ sockets' = [sockets EXCEPT ![s] = "open"]
  /\ UNCHANGED <<closers, clients, beats>>

(* ensureServer() creates both servers and starts the heartbeat; a call    *)
(* that finds wss set returns at once.  The port is ephemeral.             *)
EnsureServer ==
  /\ wss = 0
  /\ MayOverlap \/ \A c \in Closer : ~Pending(c)
  /\ \E s \in Servers :
        /\ http[s] = "unborn"
        /\ \A t \in Servers : t < s => http[t] # "unborn"
        /\ wss' = s /\ httpServer' = s /\ heartbeat' = s
        /\ http' = [http EXCEPT ![s] = "starting"]
        /\ sockets' = [sockets EXCEPT ![s] = "open"]
  /\ UNCHANGED <<closers, clients, beats>>

(* The callback of httpServer.listen(). *)
Listening(s) ==
  /\ http[s] = "starting"
  /\ http' = [http EXCEPT ![s] = "listening"]
  /\ UNCHANGED <<wss, httpServer, heartbeat, sockets, closers, clients, beats>>

(* The second half of close(), on whatever this.httpServer is by then; a   *)
(* server stops listening as soon as close() is called on it.              *)
CloseHttp(c) ==
  IF httpServer # 0
  THEN /\ http' = [http EXCEPT ![httpServer] = "closed"]
       /\ httpServer' = 0
       /\ pc' = [pc EXCEPT ![c] = "http"]
  ELSE pc' = [pc EXCEPT ![c] = "resolved"] /\ UNCHANGED <<http, httpServer>>

(* Mutant: the clients are not asked to leave. *)
Close_KeepsClients(c) ==
  /\ pc[c] = "idle"
  /\ heartbeat' = 0
  /\ closing' = [closing EXCEPT ![c] = IF wss # 0 THEN wss ELSE httpServer]
  /\ IF wss # 0
     THEN /\ wss' = 0
          /\ pc' = [pc EXCEPT ![c] = "wss"]
          /\ UNCHANGED <<httpServer, http, sockets>>
     ELSE CloseHttp(c) /\ UNCHANGED <<wss, sockets>>
  /\ UNCHANGED <<clients, beats>>

(* Mutant: the interval is not cleared. *)
Close_KeepsTimer(c) ==
  /\ pc[c] = "idle"
  /\ closing' = [closing EXCEPT ![c] = IF wss # 0 THEN wss ELSE httpServer]
  /\ IF wss # 0
     THEN /\ wss' = 0
          /\ sockets' = [sockets EXCEPT ![wss] = "closed"]
          /\ pc' = [pc EXCEPT ![c] = "wss"]
          /\ UNCHANGED <<httpServer, http>>
     ELSE CloseHttp(c) /\ UNCHANGED <<wss, sockets>>
  /\ UNCHANGED <<heartbeat, clients, beats>>

(* The first half: it asks the clients to leave and awaits wss.close().    *)
Close(c) ==
  /\ pc[c] = "idle"
  /\ heartbeat' = 0
  /\ closing' = [closing EXCEPT ![c] = IF wss # 0 THEN wss ELSE httpServer]
  /\ IF wss # 0
     THEN /\ wss' = 0
          /\ sockets' = [sockets EXCEPT ![wss] = "closed"]
          /\ pc' = [pc EXCEPT ![c] = "wss"]
          /\ UNCHANGED <<httpServer, http>>
     ELSE CloseHttp(c) /\ UNCHANGED <<wss, sockets>>
  /\ UNCHANGED <<clients, beats>>

(* Mutant: close() is done when the WebSocket server is. *)
WssClosed_Resolves(c) ==
  /\ pc[c] = "wss"
  /\ \A i \in Client : on[i] = closing[c] => ~Connected(i)
  /\ pc' = [pc EXCEPT ![c] = "resolved"]
  /\ UNCHANGED <<servers, closing, clients, beats>>

(* wss.close() calls back when its clients have left. *)
WssClosed(c) ==
  /\ pc[c] = "wss"
  /\ \A i \in Client : on[i] = closing[c] => ~Connected(i)
  /\ CloseHttp(c)
  /\ UNCHANGED <<wss, heartbeat, sockets, closing, clients, beats>>

(* httpServer.close() calls back when its connections have ended, the ones *)
(* upgraded to WebSocket included.                                         *)
HttpClosed(c) ==
  /\ pc[c] = "http"
  /\ \A i \in Client : on[i] # 0 /\ http[on[i]] = "closed" => ~Connected(i)
  /\ pc' = [pc EXCEPT ![c] = "resolved"]
  /\ UNCHANGED <<servers, closing, clients, beats>>

-----------------------------------------------------------------------------
(* Clients and heartbeat. *)

(* Mutant: isAlive is not set for a new connection, and reads as false. *)
Connect_NotAlive(i, s) ==
  /\ state[i] = "absent" /\ http[s] = "listening" /\ sockets[s] = "open"
  /\ on' = [on EXCEPT ![i] = s]
  /\ state' = [state EXCEPT ![i] = "up"]
  /\ heard' = [heard EXCEPT ![i] = beats]
  /\ UNCHANGED <<servers, closers, isAlive, pongs, beats, cut>>

Connect(i, s) ==
  /\ state[i] = "absent" /\ http[s] = "listening" /\ sockets[s] = "open"
  /\ on' = [on EXCEPT ![i] = s]
  /\ state' = [state EXCEPT ![i] = "up"]
  /\ isAlive' = [isAlive EXCEPT ![i] = TRUE]
  /\ heard' = [heard EXCEPT ![i] = beats]
  /\ UNCHANGED <<servers, closers, pongs, beats, cut>>

(* A client leaves, of its own accord or because the server asked it to;   *)
(* one that does not answer is dropped by ws after its close timeout.      *)
Disconnect(i) ==
  /\ Connected(i)
  /\ state' = [state EXCEPT ![i] = "gone"]
  /\ pongs' = [pongs EXCEPT ![i] = 0]
  /\ UNCHANGED <<servers, closers, on, isAlive, beats, heard, cut>>

Stall(i) ==
  /\ state[i] = "up"
  /\ state' = [state EXCEPT ![i] = "stalled"]
  /\ UNCHANGED <<servers, closers, on, isAlive, pongs, beats, heard, cut>>

GoOn(i) ==
  /\ state[i] = "stalled"
  /\ state' = [state EXCEPT ![i] = "up"]
  /\ UNCHANGED <<servers, closers, on, isAlive, pongs, beats, heard, cut>>

(* In answer to a ping, of this interval or an earlier one, or unasked.    *)
SendPong(i) ==
  /\ state[i] = "up" /\ pongs[i] < MaxPongs
  /\ pongs' = [pongs EXCEPT ![i] = @ + 1]
  /\ UNCHANGED <<servers, closers, on, state, isAlive, beats, heard, cut>>

Pong(i) ==
  /\ Connected(i) /\ pongs[i] > 0
  /\ pongs' = [pongs EXCEPT ![i] = @ - 1]
  /\ isAlive' = [isAlive EXCEPT ![i] = TRUE]
  /\ heard' = [heard EXCEPT ![i] = beats]
  /\ UNCHANGED <<servers, closers, on, state, beats, cut>>

(* The clients of the server in use, by what the interval does to them.    *)
Dead == {i \in Client : on[i] = wss /\ Connected(i) /\ ~isAlive[i]}
Live == {i \in Client : on[i] = wss /\ Connected(i) /\ isAlive[i]}

(* Mutant: the flag is not cleared, so no client is ever found dead. *)
Unflag_Never == isAlive' = isAlive

Unflag == isAlive' = [i \in Client |-> isAlive[i] /\ i \notin Live]

Beat ==
  /\ heartbeat # 0 /\ beats < MaxBeats
  /\ beats' = beats + 1
  /\ state' = [i \in Client |-> IF i \in Dead THEN "gone" ELSE state[i]]
  /\ cut' = cut \cup Dead
  /\ Unflag
  /\ pongs' = [i \in Client |-> IF i \in Dead THEN 0 ELSE pongs[i]]
  /\ UNCHANGED <<servers, closers, on, heard>>

-----------------------------------------------------------------------------
Next ==
  \/ EnsureServer \/ Beat
  \/ \E s \in Servers : Listening(s)
  \/ \E c \in Closer : Close(c) \/ WssClosed(c) \/ HttpClosed(c)
  \/ \E i \in Client :
        \/ \E s \in Servers : Connect(i, s)
        \/ Disconnect(i) \/ Stall(i) \/ GoOn(i) \/ SendPong(i) \/ Pong(i)

Spec == Init /\ [][Next]_vars

(* The callbacks of the servers come, and a client that was asked to leave *)
(* does (or is dropped by ws).                                             *)
FairSpec ==
  /\ Spec
  /\ \A c \in Closer : WF_vars(WssClosed(c)) /\ WF_vars(HttpClosed(c))
  /\ \A i \in Client : WF_vars(on[i] # 0 /\ sockets[on[i]] = "closed" /\ Disconnect(i))

-----------------------------------------------------------------------------
(* The heartbeat runs just as long as there is a server to run for: its    *)
(* timer is neither left behind by a close() nor started twice.            *)
TypeOK ==
  /\ {wss, httpServer, heartbeat} \subseteq 0 .. MaxServers /\ heartbeat = wss
  /\ http \in [Servers -> {"unborn", "starting", "listening", "closed"}]
  /\ sockets \in [Servers -> {"unborn", "open", "closed"}]
  /\ pc \in [Closer -> {"idle", "wss", "http", "resolved"}]
  /\ closing \in [Closer -> 0 .. MaxServers]
  /\ on \in [Client -> 0 .. MaxServers]
  /\ state \in [Client -> {"absent", "up", "stalled", "gone"}]
  /\ isAlive \in [Client -> BOOLEAN]
  /\ pongs \in [Client -> 0 .. MaxPongs]
  /\ beats \in 0 .. MaxBeats
  /\ heard \in [Client -> 0 .. MaxBeats]
  /\ cut \subseteq Client

Up(s) == http[s] \in {"starting", "listening"}

(* A close() that has resolved has stopped the server it was called on.    *)
(* This is what its comment promises: "Stop the WebSocket server".         *)
CloseStops ==
  \A c \in Closer : pc[c] = "resolved" /\ closing[c] # 0 =>
    ~Up(closing[c]) /\ \A i \in Client : on[i] = closing[c] => ~Connected(i)

(* A server that is up can still be closed: it is this.httpServer. *)
NoServerLeaks == \A s \in Servers : Up(s) => httpServer = s

(* Every close() resolves. *)
CloseSettles == \A c \in Closer : Pending(c) ~> pc[c] = "resolved"

(* The heartbeat terminates no client within a full interval of its last   *)
(* sign of life.                                                           *)
CutOnlySilent == [][\A i \in cut' \ cut : beats' - heard[i] >= 2]_vars

(* A client of the running server was heard of within two intervals. *)
SilentIsCut ==
  \A i \in Client : wss # 0 /\ on[i] = wss /\ Connected(i) => beats - heard[i] <= 1
=============================================================================
