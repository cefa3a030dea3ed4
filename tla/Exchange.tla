------------------------------- MODULE Exchange -------------------------------
(***************************************************************************)
(* SnapAgent.send() and sendStream() of one agent against the pipeline of  *)
(* another: the sender runs its outbound middlewares, then tries its       *)
(* transports in order with one and the same signed message; the receiver  *)
(* takes the first copy that reaches it.                                   *)
(*                                                                         *)
(* The detail of a transport is left out.  An attempt is refused, lost, or *)
(* arrives at once or later, also after the sender has given it up; its    *)
(* answer arrives, is lost, or comes too late.  Its state:                 *)
(*   unused, away (under way), accepted (past the replay check), handling, *)
(*   answer or error (under way back), over                                *)
(***************************************************************************)
EXTENDS MiddlewareChain, FiniteSets

CONSTANTS
  Transports,      \* number of transports of the sender
  Streaming,       \* those of them that have sendStream()
  HasReplayStore,  \* has the receiver a replay store?
  MaxRestarts      \* bound: restarts of the receiver

ASSUME ExchangeAssumption ==
  /\ Transports \in Nat /\ Streaming \subseteq 1 .. Transports
  /\ HasReplayStore \in BOOLEAN /\ MaxRestarts \in Nat

VARIABLES
  kind,      \* "send" or "stream"
  pc,        \* the sender: "idle", "trying", "resolved" or "failed"
  using,     \* the transport it is trying, 0 before and after
  attempt,   \* state of the attempt over each transport
  seen,      \* ids in the receiver's replay store
  accepted,  \* history: attempts accepted since the receiver started
  executed,  \* history: those of them whose handler was invoked
  restarts   \* restarts of the receiver

exchange == <<kind, pc, using, attempt, seen, accepted, executed, restarts>>
vars == <<chain, exchange>>
sender == <<chain, kind, pc, using>>
receiver == <<seen, accepted, executed, restarts>>

Attempts == 1 .. Transports

(* The message is built and signed once, before the loop. *)
MessageId(t) == 1

Init ==
  /\ ChainInit
  /\ kind \in {"send", "stream"}
  /\ pc = "idle" /\ using = 0
  /\ attempt = [t \in Attempts |-> "unused"]
  /\ seen = {} /\ accepted = {} /\ executed = {} /\ restarts = 0

-----------------------------------------------------------------------------
(* The sender. *)

Settle(as) == pc' = as /\ using' = 0

(* Mutant: a stream goes on with the next streaming transport. *)
Candidates_StreamsToo(t) == {u \in Attempts : u > t /\ (kind = "stream" => u \in Streaming)}

(* The transports still to be tried after t: for a stream none but the first. *)
Candidates(t) ==
  IF kind = "send" THEN {u \in Attempts : u > t}
  ELSE IF t = 0 THEN Streaming ELSE {}

(* On to the first of them; without one the last error is thrown. *)
GoOn(t) ==
  \/ Candidates(t) = {} /\ Settle("failed") /\ UNCHANGED attempt
  \/ \E u \in Candidates(t) :
       /\ \A v \in Candidates(t) : u <= v
       /\ pc' = "trying" /\ using' = u
       /\ attempt' = [attempt EXCEPT ![u] = "away"]

(* Before the transports, and beside them if a middleware does not await. *)
Middleware == ChainNext /\ UNCHANGED exchange

Begin ==
  /\ pc = "idle" /\ outcome = "proceed"
  /\ GoOn(0)
  /\ UNCHANGED <<chain, kind, receiver>>

(* The outbound middleware throws: nothing leaves. *)
MiddlewareThrows ==
  /\ pc = "idle" /\ outcome = "reject"
  /\ Settle("failed")
  /\ UNCHANGED <<chain, kind, attempt, receiver>>

(* The sender's process has not died of a rejection nobody handled. *)
Trying == pc = "trying" /\ outcome # "crash"

GetAnswer ==
  /\ Trying /\ attempt[using] = "answer"
  /\ Settle("resolved")
  /\ attempt' = [attempt EXCEPT ![using] = "over"]
  /\ UNCHANGED <<chain, kind, receiver>>

(* The transport's send() rejects: it was answered with an error, refused, *)
(* cut off or timed out.  In the last case the attempt may live on.        *)
TransportFails ==
  /\ Trying
  /\ GoOn(using)
  /\ UNCHANGED <<chain, kind, receiver>>

-----------------------------------------------------------------------------
(* The network. *)

Lost(t) ==
  /\ attempt[t] \in {"away", "answer", "error"}
  /\ attempt' = [attempt EXCEPT ![t] = "over"]
  /\ UNCHANGED <<sender, receiver>>

-----------------------------------------------------------------------------
(* The receiver: processMessage() or processStream(). *)

(* Turned away before the replay check: it came too late. *)
Expires(t) ==
  /\ attempt[t] = "away"
  /\ attempt' = [attempt EXCEPT ![t] = "error"]
  /\ UNCHANGED <<sender, receiver>>

(* Mutant: the store is not asked. *)
Accept_Unchecked(t) ==
  /\ attempt[t] = "away"
  /\ seen' = IF HasReplayStore THEN seen \cup {MessageId(t)} ELSE seen
  /\ accepted' = accepted \cup {t}
  /\ attempt' = [attempt EXCEPT ![t] = "accepted"]
  /\ UNCHANGED <<sender, executed, restarts>>

Accept(t) ==
  /\ attempt[t] = "away"
  /\ HasReplayStore => MessageId(t) \notin seen
  /\ seen' = IF HasReplayStore THEN seen \cup {MessageId(t)} ELSE seen
  /\ accepted' = accepted \cup {t}
  /\ attempt' = [attempt EXCEPT ![t] = "accepted"]
  /\ UNCHANGED <<sender, executed, restarts>>

Refuse(t) ==
  /\ attempt[t] = "away"
  /\ HasReplayStore /\ MessageId(t) \in seen
  /\ attempt' = [attempt EXCEPT ![t] = "error"]
  /\ UNCHANGED <<sender, seen, accepted, executed, restarts>>

Invoke(t) ==
  /\ attempt[t] = "accepted"
  /\ attempt' = [attempt EXCEPT ![t] = "handling"]
  /\ executed' = executed \cup {t}
  /\ UNCHANGED <<sender, seen, accepted, restarts>>

HandlerReturns(t) ==
  /\ attempt[t] = "handling"
  /\ attempt' = [attempt EXCEPT ![t] = "answer"]
  /\ UNCHANGED <<sender, receiver>>

(* Middleware, a missing handler, the handler, or the signing of its result. *)
Throws(t) ==
  /\ attempt[t] \in {"accepted", "handling"}
  /\ attempt' = [attempt EXCEPT ![t] = "error"]
  /\ UNCHANGED <<sender, receiver>>

Restart ==
  /\ restarts < MaxRestarts
  /\ restarts' = restarts + 1
  /\ seen' = {} /\ accepted' = {} /\ executed' = {}
  /\ attempt' = [t \in Attempts |->
       IF attempt[t] \in {"accepted", "handling"} THEN "over" ELSE attempt[t]]
  /\ UNCHANGED sender

-----------------------------------------------------------------------------
Next ==
  \/ Middleware \/ Begin \/ MiddlewareThrows \/ GetAnswer \/ TransportFails \/ Restart
  \/ \E t \in Attempts :
        \/ Lost(t) \/ Expires(t) \/ Accept(t) \/ Refuse(t)
        \/ Invoke(t) \/ HandlerReturns(t) \/ Throws(t)

Spec == Init /\ [][Next]_vars

FairSpec == Spec /\ ChainFairness

-----------------------------------------------------------------------------
TypeOK ==
  /\ kind \in {"send", "stream"}
  /\ pc \in {"idle", "trying", "resolved", "failed"}
  /\ using \in 0 .. Transports
  /\ attempt \in [Attempts ->
       {"unused", "away", "accepted", "handling", "answer", "error", "over"}]
  /\ seen \subseteq {1}
  /\ executed \subseteq accepted /\ accepted \subseteq Attempts
  /\ restarts \in 0 .. MaxRestarts

(* A stream is requested over one transport only: its events would come    *)
(* twice.                                                                  *)
StreamOnce ==
  kind = "stream" => Cardinality({t \in Attempts : attempt[t] # "unused"}) <= 1

Copies(ts) == {<<t, MessageId(t)>> : t \in ts}

Promise == INSTANCE AtMostOnce
             WITH Delivery <- Attempts, Message <- {1},
                  accepted <- Copies(accepted), executed <- Copies(executed)

(* However many transports the sender fell through, and whichever copies   *)
(* arrive late, a receiver with a store handles the request at most once   *)
(* while it lives: together they keep the promise of AtMostOnce.           *)
KeepsPromise == Promise!Spec
=============================================================================
