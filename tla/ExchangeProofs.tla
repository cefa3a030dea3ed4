---------------------------- MODULE ExchangeProofs ----------------------------
(***************************************************************************)
(* Proofs about Exchange, for any number of transports and of restarts.    *)
(***************************************************************************)
EXTENDS Exchange, FiniteSetTheorems, TLAPS

(* The sender goes through its transports in order: those behind the one   *)
(* it is trying are unused.                                                *)
Untouched ==
  /\ pc = "idle" => using = 0 /\ \A t \in Attempts : attempt[t] = "unused"
  /\ pc = "trying" => /\ using \in Attempts
                      /\ kind = "send" => \A t \in Attempts : t > using => attempt[t] = "unused"

(* What the receiver knows of an attempt, by how far it has come. *)
Recorded ==
  \A t \in Attempts :
    /\ attempt[t] \in {"unused", "away"} => t \notin accepted
    /\ attempt[t] = "accepted" => t \in accepted \ executed

StoreKnows == HasReplayStore /\ accepted # {} => seen = {1}

OneStream ==
  kind = "stream" =>
    \A s, t \in Attempts : attempt[s] # "unused" /\ attempt[t] # "unused" => s = t

IInv == TypeOK /\ Untouched /\ Recorded /\ StoreKnows /\ OneStream

-----------------------------------------------------------------------------
LEMMA InitIInv == Init => IInv
  BY ExchangeAssumption
  DEF Init, IInv, TypeOK, Untouched, Recorded, StoreKnows, OneStream, Attempts

LEMMA NextCandidate ==
  ASSUME TypeOK, Untouched, NEW t, (pc = "idle" /\ t = 0) \/ (pc = "trying" /\ t = using),
         NEW u \in Candidates(t)
  PROVE  /\ u \in Attempts /\ attempt[u] = "unused"
         /\ kind = "stream" => \A s \in Attempts : attempt[s] = "unused"
  BY ExchangeAssumption DEF TypeOK, Untouched, Candidates, Attempts

(* The sender goes on to the next transport, or gives up. *)
LEMMA GoOnPreserves ==
  ASSUME IInv, NEW t, (pc = "idle" /\ t = 0) \/ (pc = "trying" /\ t = using),
         GoOn(t), UNCHANGED <<kind, receiver>>
  PROVE  IInv'
<1> USE DEF IInv
<1>1. CASE Settle("failed") /\ UNCHANGED attempt
  BY <1>1, ExchangeAssumption
  DEF Settle, receiver, TypeOK, Untouched, Recorded, StoreKnows, OneStream, Attempts
<1>2. ASSUME NEW u \in Candidates(t), \A v \in Candidates(t) : u <= v,
             pc' = "trying", using' = u, attempt' = [attempt EXCEPT ![u] = "away"]
      PROVE  IInv'
  <2>1. /\ u \in Attempts /\ attempt[u] = "unused"
        /\ kind = "stream" => \A s \in Attempts : attempt[s] = "unused"
    BY NextCandidate
  <2>2. \A s \in Attempts : attempt'[s] = IF s = u THEN "away" ELSE attempt[s]
    BY <1>2, <2>1 DEF TypeOK
  <2>3. TypeOK'
    BY <1>2, <2>1, ExchangeAssumption DEF TypeOK, receiver, Attempts
  <2>4. Untouched'
    <3>1. kind' = kind
      OBVIOUS
    <3>2. ASSUME kind = "send", NEW s \in Attempts, s > u PROVE attempt[s] = "unused"
      BY <2>1, <3>2, ExchangeAssumption DEF Untouched, Candidates, Attempts, TypeOK
    <3> QED BY <1>2, <2>1, <2>2, <3>1, <3>2, ExchangeAssumption DEF Untouched, Attempts
  <2>5. Recorded'
    BY <2>1, <2>2 DEF Recorded, receiver
  <2>6. StoreKnows'
    BY DEF StoreKnows, receiver
  <2>7. OneStream'
    BY <2>1, <2>2 DEF OneStream
  <2> QED BY <2>3, <2>4, <2>5, <2>6, <2>7
<1> QED BY <1>1, <1>2 DEF GoOn

(* A step that moves one attempt on, away from where it was unused. *)
LEMMA MovePreserves ==
  ASSUME IInv, NEW t \in Attempts, attempt[t] # "unused",
         NEW to, attempt' = [attempt EXCEPT ![t] = to],
         UNCHANGED <<kind, pc, using>>
  PROVE  Untouched' /\ OneStream'
<1>1. \A s \in Attempts : attempt'[s] = IF s = t THEN to ELSE attempt[s]
  BY DEF IInv, TypeOK
<1>2. Untouched'
  BY <1>1 DEF IInv, Untouched
<1>3. OneStream'
  BY <1>1 DEF IInv, OneStream
<1> QED BY <1>2, <1>3

LEMMA NextIInv == IInv /\ [Next]_vars => IInv'
<1> SUFFICES ASSUME IInv, [Next]_vars PROVE IInv'
  OBVIOUS
<1>11. CASE Middleware
  BY <1>11 DEF Middleware, exchange, IInv, TypeOK, Untouched, Recorded, StoreKnows, OneStream
<1>1. CASE Begin
  <2>1. pc = "idle" /\ GoOn(0) /\ UNCHANGED <<kind, receiver>>
    BY <1>1 DEF Begin
  <2> QED BY ONLY <2>1, IInv, GoOnPreserves
<1>2. CASE MiddlewareThrows
  BY <1>2, ExchangeAssumption
  DEF MiddlewareThrows, Settle, receiver,
      IInv, TypeOK, Untouched, Recorded, StoreKnows, OneStream, Attempts
<1>3. CASE GetAnswer
  <2>1. using \in Attempts /\ attempt[using] = "answer"
    BY <1>3 DEF GetAnswer, Trying, IInv, Untouched
  <2>2. \A s \in Attempts : attempt'[s] = IF s = using THEN "over" ELSE attempt[s]
    BY <1>3, <2>1 DEF GetAnswer, IInv, TypeOK
  <2>3. TypeOK'
    BY <1>3, <2>1, ExchangeAssumption DEF GetAnswer, Settle, receiver, IInv, TypeOK, Attempts
  <2>4. Untouched'
    BY <1>3 DEF GetAnswer, Settle, Untouched
  <2>5. Recorded' /\ StoreKnows' /\ OneStream'
    BY <1>3, <2>1, <2>2 DEF GetAnswer, receiver, IInv, Recorded, StoreKnows, OneStream
  <2> QED BY <2>3, <2>4, <2>5 DEF IInv
<1>4. CASE TransportFails
  BY <1>4, GoOnPreserves DEF TransportFails, Trying
<1>5. CASE Restart
  <2>1. \A s \in Attempts : attempt'[s] = IF attempt[s] \in {"accepted", "handling"}
                                          THEN "over" ELSE attempt[s]
    BY <1>5 DEF Restart
  <2>2. TypeOK'
    BY <1>5, ExchangeAssumption DEF Restart, sender, IInv, TypeOK
  <2>3. Untouched' /\ OneStream'
    BY <1>5, <2>1 DEF Restart, sender, IInv, Untouched, OneStream
  <2>4. Recorded' /\ StoreKnows'
    BY <1>5, <2>1 DEF Restart, IInv, Recorded, StoreKnows
  <2> QED BY <2>2, <2>3, <2>4 DEF IInv
<1>6. ASSUME NEW t \in Attempts, Lost(t) \/ Expires(t) \/ HandlerReturns(t) \/ Throws(t)
      PROVE  IInv'
  <2>1. PICK to \in {"over", "error", "answer"} : attempt' = [attempt EXCEPT ![t] = to]
    BY <1>6 DEF Lost, Expires, HandlerReturns, Throws
  <2>2. attempt[t] # "unused" /\ UNCHANGED <<kind, pc, using, seen, accepted, executed, restarts>>
    BY <1>6 DEF Lost, Expires, HandlerReturns, Throws, sender, receiver
  <2>3. TypeOK'
    BY <2>1, <2>2 DEF IInv, TypeOK
  <2>4. Untouched' /\ OneStream'
    BY <2>1, <2>2, MovePreserves
  <2>5. Recorded' /\ StoreKnows'
    BY <2>1, <2>2 DEF IInv, TypeOK, Recorded, StoreKnows
  <2> QED BY <2>3, <2>4, <2>5 DEF IInv
<1>7. ASSUME NEW t \in Attempts, Accept(t) PROVE IInv'
  <2>1. /\ attempt[t] = "away" /\ attempt' = [attempt EXCEPT ![t] = "accepted"]
        /\ accepted' = accepted \cup {t}
        /\ UNCHANGED <<kind, pc, using, executed, restarts>>
    BY <1>7 DEF Accept, sender
  <2>2. seen' \subseteq {1} /\ (HasReplayStore => seen' = {1})
    BY <1>7 DEF Accept, MessageId, IInv, TypeOK
  <2>3. TypeOK'
    BY <2>1, <2>2 DEF IInv, TypeOK
  <2>4. Untouched' /\ OneStream'
    BY <2>1, MovePreserves
  <2>5. t \notin executed
    BY <2>1 DEF IInv, TypeOK, Recorded
  <2>6. Recorded' /\ StoreKnows'
    BY <2>1, <2>2, <2>5 DEF IInv, TypeOK, Recorded, StoreKnows
  <2> QED BY <2>3, <2>4, <2>6 DEF IInv
<1>8. ASSUME NEW t \in Attempts, Refuse(t) PROVE IInv'
  <2>1. /\ attempt[t] = "away" /\ attempt' = [attempt EXCEPT ![t] = "error"]
        /\ UNCHANGED <<kind, pc, using, seen, accepted, executed, restarts>>
    BY <1>8 DEF Refuse, sender
  <2>2. TypeOK'
    BY <2>1 DEF IInv, TypeOK
  <2>3. Untouched' /\ OneStream'
    BY <2>1, MovePreserves
  <2>4. Recorded' /\ StoreKnows'
    BY <2>1 DEF IInv, TypeOK, Recorded, StoreKnows
  <2> QED BY <2>2, <2>3, <2>4 DEF IInv
<1>9. ASSUME NEW t \in Attempts, Invoke(t) PROVE IInv'
  <2>1. /\ attempt[t] = "accepted" /\ attempt' = [attempt EXCEPT ![t] = "handling"]
        /\ executed' = executed \cup {t}
        /\ UNCHANGED <<kind, pc, using, seen, accepted, restarts>>
    BY <1>9 DEF Invoke, sender
  <2>2. TypeOK'
    BY <2>1 DEF IInv, TypeOK, Recorded
  <2>3. Untouched' /\ OneStream'
    BY <2>1, MovePreserves
  <2>4. Recorded' /\ StoreKnows'
    BY <2>1 DEF IInv, TypeOK, Recorded, StoreKnows
  <2> QED BY <2>2, <2>3, <2>4 DEF IInv
<1>10. CASE UNCHANGED vars
  BY <1>10 DEF vars, exchange, IInv, TypeOK, Untouched, Recorded, StoreKnows, OneStream
<1> QED
  BY <1>1, <1>2, <1>3, <1>4, <1>5, <1>6, <1>7, <1>8, <1>9, <1>10, <1>11 DEF Next

(* The invariant above holds, for any transports, losses and restarts.     *)
THEOREM Invariance == Spec => []IInv
  BY InitIInv, NextIInv, PTL DEF Spec

(* The variables of sender, network and receiver keep their types. *)
THEOREM TypeCorrect == Spec => []TypeOK
<1>1. IInv => TypeOK
  BY DEF IInv
<1> QED BY <1>1, Invariance, PTL

(* A stream is requested over one transport only, however many the sender  *)
(* has and whatever becomes of the attempt.                                *)
THEOREM StreamOnceHolds == Spec => []StreamOnce
<1>1. IInv => StreamOnce
  <2> SUFFICES ASSUME IInv, kind = "stream"
               PROVE  Cardinality({t \in Attempts : attempt[t] # "unused"}) <= 1
    BY DEF StreamOnce
  <2> DEFINE S == {t \in Attempts : attempt[t] # "unused"}
  <2>1. CASE S = {}
    BY <2>1, FS_EmptySet
  <2>2. ASSUME NEW t \in S PROVE Cardinality(S) <= 1
    <3>1. S = {t}
      BY <2>2 DEF IInv, OneStream
    <3> HIDE DEF S
    <3>2. Cardinality(S) = 1
      BY <3>1, FS_Singleton
    <3> QED BY <3>2
  <2> QED BY <2>1, <2>2
<1> QED BY <1>1, Invariance, PTL

-----------------------------------------------------------------------------
(* A receiver with a store keeps the promise: its acceptance is one of     *)
(* AtMostOnce, the call of the handler its execution.                      *)
LEMMA StepKeepsPromise ==
  ASSUME HasReplayStore, IInv, IInv', [Next]_vars
  PROVE  [Promise!Next]_(Promise!vars)
<1>1. CASE Restart
  BY <1>1 DEF Restart, Copies, Promise!Next, Promise!Restart
<1>2. ASSUME NEW t \in Attempts, Accept(t) PROVE Promise!Accept(t, 1)
  <2>1. accepted = {}
    BY <1>2 DEF Accept, MessageId, IInv, StoreKnows
  <2>2. accepted' = {t} /\ executed' = executed
    BY <1>2, <2>1 DEF Accept
  <2> QED BY <2>1, <2>2 DEF Copies, MessageId, Promise!Accept
<1>3. ASSUME NEW t \in Attempts, Invoke(t) PROVE Promise!Execute(t, 1)
  <2>1. t \in accepted \ executed
    BY <1>3 DEF Invoke, IInv, Recorded
  <2>2. accepted' = accepted /\ executed' = executed \cup {t}
    BY <1>3 DEF Invoke
  <2> QED BY <2>1, <2>2 DEF Copies, MessageId, Promise!Execute
<1>4. ASSUME UNCHANGED <<accepted, executed>> PROVE UNCHANGED Promise!vars
  BY <1>4 DEF Copies, Promise!vars
<1>5. CASE Middleware \/ Begin \/ MiddlewareThrows \/ GetAnswer \/ TransportFails
  BY <1>4, <1>5 DEF Middleware, exchange, Begin, MiddlewareThrows, GetAnswer, TransportFails, receiver
<1>6. ASSUME NEW t \in Attempts,
             Lost(t) \/ Expires(t) \/ Refuse(t) \/ HandlerReturns(t) \/ Throws(t)
      PROVE  UNCHANGED Promise!vars
  BY <1>4, <1>6 DEF Lost, Expires, Refuse, HandlerReturns, Throws, receiver
<1>7. CASE UNCHANGED vars
  BY <1>4, <1>7 DEF vars, exchange
<1> QED
  BY <1>1, <1>2, <1>3, <1>5, <1>6, <1>7 DEF Next, Promise!Next

(* Whatever the network does and however often the sender falls through, a *)
(* receiver with a replay store keeps the promise of AtMostOnce.           *)
THEOREM PromiseKept ==
  ASSUME HasReplayStore PROVE Spec => KeepsPromise
<1>1. Init => Promise!Init
  BY DEF Init, Copies, Promise!Init
<1>2. IInv /\ IInv' /\ [Next]_vars => [Promise!Next]_(Promise!vars)
  BY StepKeepsPromise
<1> QED BY <1>1, <1>2, Invariance, PTL DEF Spec, KeepsPromise, Promise!Spec
=============================================================================
