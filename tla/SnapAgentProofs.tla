---------------------------- MODULE SnapAgentProofs ----------------------------
(***************************************************************************)
(* Proofs about the inbound pipeline, for any number of calls, messages,   *)
(* ticks and restarts.  That nothing is handled twice needs the Guarded    *)
(* configuration; types, and what a rejection or a handler may rely on     *)
(* (the second half), hold in every one.                                   *)
(***************************************************************************)
EXTENDS SnapAgent, TLAPS

(* A message is accepted from FirstTick to LastTick, (2 * Drift + 1) whole *)
(* seconds less one tick apart: flooring the clock adds one second to the  *)
(* 2 * Drift of the rule.                                                  *)
LEMMA Window ==
  ASSUME NEW m \in Message
  PROVE  /\ FirstTick(m) \in Int
         /\ LastTick(m) = FirstTick(m) + (2 * Drift + 1) * TicksPerSecond - 1
         /\ (2 * Drift + 1) * TicksPerSecond \in Int
<1> DEFINE ts == m.timestamp
           T == TicksPerSecond
<1>1. ts \in Int /\ Drift \in Int /\ T \in Int
  BY AgentAssumption, ValidatorAssumption
<1>2. (ts + Drift + 1) * T = (ts - Drift) * T + (2 * Drift + 1) * T
  <2> HIDE DEF ts, T
  <2>1. \A a, b, t \in Int : (a + b) * t = a * t + b * t
    BY SMT
  <2>2. ts + Drift + 1 = (ts - Drift) + (2 * Drift + 1)
    BY <1>1, SMT
  <2> QED BY <1>1, <2>1, <2>2, SMT
<1>3. (ts - Drift) * T \in Int /\ (2 * Drift + 1) * T \in Int
  <2> HIDE DEF ts, T
  <2>1. ts - Drift \in Int /\ 2 * Drift + 1 \in Int
    BY <1>1, SMT
  <2>2. \A a, b \in Int : a * b \in Int
    BY SMT
  <2> QED BY <1>1, <2>1, <2>2
<1> HIDE DEF ts, T
<1>4. QED
  BY <1>2, <1>3, SMT DEF FirstTick, LastTick, ts, T

(* A clock at which the timestamp is within the drift lies in the window. *)
LEMMA FreshInWindow ==
  ASSUME NEW m \in Message, NEW now \in Nat, WithinDrift(m, now)
  PROVE  FirstTick(m) <= now /\ now <= LastTick(m)
<1> DEFINE ts == m.timestamp
           T == TicksPerSecond
           s == Seconds(now)
<1>1. ts \in Int /\ Drift \in Int /\ T \in Nat \ {0}
  BY AgentAssumption, ValidatorAssumption
<1>2. s \in Int /\ s * T <= now /\ now <= (s + 1) * T - 1
  BY <1>1, SMT DEF Seconds
<1>3. ts - Drift <= s /\ s + 1 <= ts + Drift + 1
  <2>1. s - ts <= Drift /\ ts - s <= Drift
    BY DEF WithinDrift
  <2> HIDE DEF s, ts, T
  <2> QED BY <1>1, <1>2, <2>1, SMT
<1>4. (ts - Drift) * T <= s * T /\ (s + 1) * T <= (ts + Drift + 1) * T
  <2> HIDE DEF s, ts, T
  <2>1. \A a, b \in Int, t \in Nat : a <= b => a * t <= b * t
    BY SMT
  <2>2. ts - Drift \in Int /\ s + 1 \in Int /\ ts + Drift + 1 \in Int /\ T \in Nat
    BY <1>1, <1>2, SMT
  <2> QED BY <1>2, <1>3, <2>1, <2>2
<1>5. (ts - Drift) * T \in Int /\ s * T \in Int /\ (s + 1) * T \in Int
      /\ (ts + Drift + 1) * T \in Int
  <2> HIDE DEF s, ts, T
  <2>1. \A a, b \in Int : a * b \in Int
    BY SMT
  <2>2. ts - Drift \in Int /\ s + 1 \in Int /\ ts + Drift + 1 \in Int /\ T \in Int
    BY <1>1, <1>2, SMT
  <2> QED BY <1>2, <2>1, <2>2
<1> HIDE DEF ts, T, s
<1>6. QED
  BY <1>2, <1>4, <1>5, SMT DEF FirstTick, LastTick, ts, T

-----------------------------------------------------------------------------
(* Type correctness *)

LEMMA VerdictType ==
  ASSUME NEW m, NEW now, m.sig \in SignatureKinds
  PROVE  Verdict(m, now) \in (Rejection \ {"Duplicate"}) \cup {"ok"}
<1>1. CASE m.sig = "absent"
  BY <1>1 DEF Verdict, Rejection
<1>2. CASE m.sig = "malformed"
  BY <1>2 DEF Verdict, StructureValid, Rejection
<1>3. CASE m.sig = "undecodable"
  BY <1>3 DEF Verdict, Rejection
<1>4. CASE m.sig = "wrong"
  BY <1>4 DEF Verdict, Rejection
<1>5. CASE m.sig = "good"
  BY <1>5 DEF Verdict, Rejection
<1> QED BY <1>1, <1>2, <1>3, <1>4, <1>5 DEF SignatureKinds

LEMMA TypeStep == TypeOK /\ [Next]_vars => TypeOK'
<1> USE AgentAssumption
<1> SUFFICES ASSUME TypeOK, [Next]_vars PROVE TypeOK'
  OBVIOUS
<1> USE DEF TypeOK, PC, Active, Settled
<1>1. CASE UNCHANGED vars
  BY <1>1 DEF vars
<1>2. CASE Tick
  BY <1>2 DEF Tick
<1>3. CASE Crash
  BY <1>3 DEF Crash, EmptyStore
<1>4. ASSUME NEW c \in Call, Invoke(c) PROVE TypeOK'
  <2> PICK m \in Message, k \in {"message", "stream"} :
         \/ RejectInvalid(c, m, k)
         \/ RejectMisaddressed(c, m, k)
         \/ SkipReplayCheck(c, m, k)
         \/ \E now \in clock .. (clock + Lag) : now <= MaxClock /\ LookUp(c, m, k, now)
    BY <1>4 DEF Invoke
  <2> USE DEF Start, Throw, Rejection
  <2>1. CASE RejectInvalid(c, m, k)
    <3>1. Verdict(m, clock) \in Rejection
      BY <2>1, VerdictType DEF RejectInvalid
    <3> QED BY <2>1, <3>1 DEF RejectInvalid
  <2>2. CASE RejectMisaddressed(c, m, k)
    BY <2>2 DEF RejectMisaddressed
  <2>3. CASE SkipReplayCheck(c, m, k)
    BY <2>3 DEF SkipReplayCheck
  <2>4. ASSUME NEW now \in clock .. (clock + Lag), now <= MaxClock, LookUp(c, m, k, now)
        PROVE  TypeOK'
    <3>1. clock' \in 0 .. MaxClock
      BY <2>4 DEF LookUp
    <3>2. HasSeen(seen, Key(m), now) \in BOOLEAN
      BY DEF HasSeen
    <3>3. AfterHasSeen(seen, Key(m), now) \in [Keys -> 0 .. MaxClock \cup {NoEntry}]
      BY DEF AfterHasSeen
    <3> QED BY <2>4, <3>1, <3>2, <3>3 DEF LookUp
  <2> QED BY <2>1, <2>2, <2>3, <2>4
<1>5. ASSUME NEW c \in Call, Resume(c) PROVE TypeOK'
  <2> USE DEF Goto, Fail, Throw, Proceed, Rejection, Failure
  <2>1. CASE RejectDuplicate(c)
    BY <2>1 DEF RejectDuplicate
  <2>2. CASE MarkAsSeen(c)
    BY <2>2 DEF MarkAsSeen, MarkSeen
  <2>3. CASE InvokeHandler(c)
    BY <2>3 DEF InvokeHandler
  <2>4. CASE InboundMiddlewareThrows(c) \/ MethodNotFound(c) \/ HandlerThrows(c)
             \/ SigningFails(c) \/ OutboundMiddlewareThrows(c)
    BY <2>4 DEF InboundMiddlewareThrows, MethodNotFound, HandlerThrows,
                SigningFails, OutboundMiddlewareThrows
  <2>5. CASE StreamEnds(c) \/ SignResponse(c) \/ Reply(c)
    BY <2>5 DEF StreamEnds, SignResponse, Reply
  <2> QED BY <1>5, <2>1, <2>2, <2>3, <2>4, <2>5 DEF Resume
<1> QED BY <1>1, <1>2, <1>3, <1>4, <1>5 DEF Next

(* The variables keep their types, in every configuration. *)
THEOREM TypeCorrect == Spec => []TypeOK
<1>1. Init => TypeOK
  BY AgentAssumption DEF Init, TypeOK, EmptyStore, PC
<1> QED BY <1>1, TypeStep, PTL DEF Spec

-----------------------------------------------------------------------------
(* The memory of the store.  It depends on the age of entries alone: not   *)
(* on when calls start, nor on which runs of the process have a store.     *)

(* Entries live for ever, or as long as a message is accepted. *)
Lasting == MaxAge = 0 \/ MaxAge >= (2 * Drift + 1) * TicksPerSecond - 1 + Lag

(* What a call's position says of its history variables. *)
CallsTyped ==
  \A c \in Call :
    /\ pc[c] = "idle" => born[c] = 0 /\ ~ran[c]
    /\ pc[c] # "idle" => msg[c] \in Message /\ born[c] \in 1 .. life
    /\ pc[c] \in Active => born[c] = life
    /\ pc[c] = "lost" => born[c] # life
    /\ pc[c] \in {"checking", "inbound"} => ~ran[c]

SeenInPast == \A k \in Keys : seen[k] <= clock

(* The store holds an entry at least as young as the window of m. *)
Remembered(m) == seen[Key(m)] # NoEntry /\ seen[Key(m)] >= FirstTick(m)

AdmittedIsKnown ==
  HasReplayStore =>
    \A c \in Call :
      born[c] = life /\ Admitted(c) => Remembered(msg[c]) \/ clock > LastTick(msg[c])

CheckedIsOpen == \A c \in Call : pc[c] = "checking" => FirstTick(msg[c]) <= clock

MemoryInv == TypeOK /\ CallsTyped /\ SeenInPast /\ AdmittedIsKnown /\ CheckedIsOpen

(* A step of an admitted call that stays admitted and touches nothing the  *)
(* replay check reads: all of processMessage after markSeen.               *)
Carries(c) ==
  /\ pc[c] \in {"inbound", "handling", "outbound"}
  /\ pc' \in [Call -> PC] /\ outcome' \in [Call -> Rejection \cup Failure \cup {"none"}]
  /\ pc'[c] \in {"handling", "outbound", "replied", "threw"}
  /\ pc'[c] = "threw" => outcome'[c] \in Failure
  /\ \A d \in Call \ {c} : pc'[d] = pc[d] /\ outcome'[d] = outcome[d] /\ ran'[d] = ran[d]
  /\ UNCHANGED <<clock, life, seen, msg, found, born>>

LEMMA CarriesMemory ==
  ASSUME NEW c \in Call, MemoryInv, TypeOK', Carries(c)
  PROVE  MemoryInv'
<1> USE DEF MemoryInv
<1>1. \A d \in Call : Admitted(d)' <=> Admitted(d)
  BY DEF Carries, Admitted
<1>2. \A d \in Call : pc'[d] = "checking" => pc[d] = "checking"
  BY DEF Carries
<1>3. CallsTyped'
  BY DEF Carries, CallsTyped, Active
<1>4. SeenInPast' /\ AdmittedIsKnown' /\ CheckedIsOpen'
  BY <1>1, <1>2 DEF Carries, SeenInPast, AdmittedIsKnown, CheckedIsOpen, Remembered,
                    HasReplayStore
<1> QED BY <1>3, <1>4

(* A call that is turned away, before or after the lookup. *)
TurnsAway(c) ==
  /\ pc[c] \in {"idle", "checking"}
  /\ pc'[c] = "threw" /\ outcome'[c] \notin Failure
  /\ \A d \in Call \ {c} :
        /\ pc'[d] = pc[d] /\ outcome'[d] = outcome[d]
        /\ msg'[d] = msg[d] /\ born'[d] = born[d]
  /\ msg'[c] \in Message /\ born'[c] = life
  /\ pc[c] = "checking" => msg'[c] = msg[c]
  /\ UNCHANGED <<clock, life, seen, found, ran>>

LEMMA TurnsAwayMemory ==
  ASSUME NEW c \in Call, MemoryInv, TypeOK', TurnsAway(c)
  PROVE  MemoryInv'
<1> USE DEF MemoryInv
<1>1. ~ran[c] /\ \A d \in Call : Admitted(d)' => d # c /\ Admitted(d)
  BY DEF TurnsAway, Admitted, CallsTyped
<1>2. \A d \in Call : pc'[d] = "checking" => d # c /\ pc[d] = "checking"
  BY DEF TurnsAway
<1>3. CallsTyped'
  BY <1>1 DEF TurnsAway, CallsTyped, Active, TypeOK
<1>4. SeenInPast' /\ AdmittedIsKnown' /\ CheckedIsOpen'
  BY <1>1, <1>2 DEF TurnsAway, SeenInPast, AdmittedIsKnown, CheckedIsOpen, Remembered,
                    HasReplayStore
<1> QED BY <1>3, <1>4

(* An entry expires only when the messages it stands for are stale: by the *)
(* clock validate() read, even if hasSeen() reads it Lag ticks later.      *)
LEMMA ExpiredIsStale ==
  ASSUME Lasting, TypeOK, NEW m \in Message, NEW now \in clock .. (clock + Lag),
         Remembered(m), Expired(seen, Key(m), now)
  PROVE  clock > LastTick(m)
<1>1. /\ clock \in Nat /\ now \in Int /\ now <= clock + Lag
      /\ Lag \in Nat /\ MaxAge \in Nat
      /\ seen[Key(m)] \in Int
  BY AgentAssumption, StoreAssumption DEF TypeOK, Keys, NoEntry
<1>2. seen[Key(m)] >= FirstTick(m) /\ MaxAge > 0 /\ now - seen[Key(m)] > MaxAge
  BY DEF Remembered, Expired
<1>3. /\ FirstTick(m) \in Int
      /\ LastTick(m) = FirstTick(m) + (2 * Drift + 1) * TicksPerSecond - 1
      /\ (2 * Drift + 1) * TicksPerSecond \in Int
  BY Window
<1>4. LastTick(m) \in Int /\ MaxAge >= LastTick(m) - FirstTick(m) + Lag
  BY <1>1, <1>2, <1>3, SMT DEF Lasting
<1> QED BY <1>1, <1>2, <1>3, <1>4, SMT

LEMMA LookUpMemory ==
  ASSUME Lasting, NEW c \in Call, NEW m \in Message, NEW k, NEW now \in clock .. (clock + Lag),
         MemoryInv, TypeOK', LookUp(c, m, k, now)
  PROVE  MemoryInv'
<1> USE AgentAssumption, StoreAssumption DEF MemoryInv
<1>1. clock \in Nat /\ now \in Nat /\ clock <= now /\ clock' = now
  BY DEF LookUp, TypeOK
<1>2. /\ pc[c] = "idle" /\ ~ran[c] /\ pc'[c] = "checking" /\ msg'[c] = m /\ born'[c] = life
      /\ seen' = AfterHasSeen(seen, Key(m), now)
      /\ WithinDrift(m, clock)
      /\ UNCHANGED <<life, outcome, ran>>
      /\ \A d \in Call \ {c} : pc'[d] = pc[d] /\ msg'[d] = msg[d] /\ born'[d] = born[d]
  BY DEF LookUp, MayStart, Start, TypeOK, CallsTyped, Verdict
<1>3. FirstTick(m) <= clock
  BY <1>1, <1>2, FreshInWindow
<1>4. \A d \in Call : Admitted(d)' => d # c /\ Admitted(d) /\ msg[d] \in Message
  BY <1>2 DEF Admitted, CallsTyped
<1>5. \A n \in Message : FirstTick(n) \in Int /\ LastTick(n) \in Int /\ Key(n) \in Keys
  <2> TAKE n \in Message
  <2>1. Key(n) \in Keys
    BY DEF Keys
  <2> QED BY <2>1, Window, SMT
<1>6. CallsTyped'
  BY <1>2 DEF CallsTyped, Active, TypeOK
<1>7. SeenInPast'
  <2> SUFFICES ASSUME NEW key \in Keys PROVE seen'[key] <= clock'
    BY DEF SeenInPast
  <2>1. seen[key] <= clock /\ seen[key] \in Int
    BY DEF SeenInPast, TypeOK, NoEntry
  <2>2. seen'[key] = seen[key] \/ seen'[key] = -1
    BY <1>2 DEF AfterHasSeen, NoEntry, TypeOK
  <2> QED BY <1>1, <2>1, <2>2
<1>8. AdmittedIsKnown'
  <2> SUFFICES ASSUME HasReplayStore, NEW d \in Call, born'[d] = life', Admitted(d)'
               PROVE  Remembered(msg[d])' \/ clock' > LastTick(msg'[d])
    BY <1>2 DEF AdmittedIsKnown, HasReplayStore
  <2>1. d # c /\ msg'[d] = msg[d] /\ born[d] = life /\ Admitted(d) /\ msg[d] \in Message
    BY <1>2, <1>4
  <2>2. CASE clock > LastTick(msg[d])
    <3>1. LastTick(msg[d]) \in Int
      BY <2>1, <1>5
    <3> QED BY <1>1, <2>1, <2>2, <3>1
  <2>3. CASE Remembered(msg[d]) /\ ~(clock > LastTick(msg[d]))
    <3>1. ~(Key(msg[d]) = Key(m) /\ Expired(seen, Key(m), now))
      BY <2>1, <2>3, ExpiredIsStale
    <3>2. seen'[Key(msg[d])] = seen[Key(msg[d])]
      BY <1>2, <1>5, <2>1, <3>1 DEF AfterHasSeen, TypeOK
    <3> QED BY <2>1, <2>3, <3>2 DEF Remembered
  <2> QED BY <2>1, <2>2, <2>3 DEF AdmittedIsKnown
<1>9. CheckedIsOpen'
  <2>1. \A d \in Call : pc'[d] = "checking" =>
          msg'[d] \in Message /\ FirstTick(msg'[d]) <= clock
    BY <1>2, <1>3 DEF CheckedIsOpen, CallsTyped
  <2> QED BY <1>1, <1>5, <2>1 DEF CheckedIsOpen
<1> QED BY <1>6, <1>7, <1>8, <1>9

(* A process without a store promises nothing about it. *)
LEMMA SkipMemory ==
  ASSUME NEW c \in Call, NEW m \in Message, NEW k, MemoryInv, TypeOK', SkipReplayCheck(c, m, k)
  PROVE  MemoryInv'
<1> USE DEF MemoryInv
<1>1. /\ pc[c] = "idle" /\ ~ran[c] /\ pc'[c] = "inbound" /\ msg'[c] = m /\ born'[c] = life
      /\ ~HasReplayStore /\ UNCHANGED <<clock, life, seen, outcome, ran>>
      /\ \A d \in Call \ {c} : pc'[d] = pc[d] /\ msg'[d] = msg[d] /\ born'[d] = born[d]
  BY DEF SkipReplayCheck, MayStart, Start, TypeOK, CallsTyped
<1>2. CallsTyped'
  BY <1>1 DEF CallsTyped, Active, TypeOK
<1>3. SeenInPast' /\ AdmittedIsKnown' /\ CheckedIsOpen'
  BY <1>1 DEF SeenInPast, AdmittedIsKnown, CheckedIsOpen, HasReplayStore
<1> QED BY <1>2, <1>3

LEMMA MarkMemory ==
  ASSUME NEW c \in Call, MemoryInv, TypeOK', MarkAsSeen(c)
  PROVE  MemoryInv'
<1> USE DEF MemoryInv
<1>1. /\ pc[c] = "checking" /\ pc'[c] = "inbound"
      /\ msg[c] \in Message /\ born[c] = life /\ ~ran[c]
      /\ \A d \in Call \ {c} : pc'[d] = pc[d]
      /\ seen' = [seen EXCEPT ![Key(msg[c])] = clock]
      /\ UNCHANGED <<clock, life, msg, outcome, born, ran>>
      /\ clock \in Nat
  BY DEF MarkAsSeen, Goto, MarkSeen, CallsTyped, TypeOK, Active
<1>2. \A d \in Call \ {c} : Admitted(d)' <=> Admitted(d)
  BY <1>1 DEF Admitted
<1>3. CallsTyped'
  BY <1>1 DEF CallsTyped, Active
<1>4. SeenInPast' /\ CheckedIsOpen'
  BY <1>1 DEF SeenInPast, CheckedIsOpen, TypeOK
<1>5. AdmittedIsKnown'
  <2> SUFFICES ASSUME HasReplayStore, NEW d \in Call, born'[d] = life', Admitted(d)'
               PROVE  Remembered(msg[d])' \/ clock' > LastTick(msg'[d])
    BY <1>1 DEF AdmittedIsKnown, HasReplayStore
  <2>1. msg[d] \in Message /\ Key(msg[d]) \in Keys /\ Key(msg[c]) \in Keys
    BY <1>1, <1>2 DEF CallsTyped, Keys, Admitted
  <2>2. FirstTick(msg[d]) \in Int
    BY <2>1, Window
  <2>3. CASE Key(msg[d]) # Key(msg[c])
    <3>1. seen'[Key(msg[d])] = seen[Key(msg[d])] /\ d # c
      BY <1>1, <2>1, <2>3 DEF TypeOK
    <3> QED BY <1>1, <1>2, <3>1 DEF AdmittedIsKnown, Remembered
  <2>4. CASE Key(msg[d]) = Key(msg[c])
    <3>1. seen'[Key(msg[d])] = clock /\ clock # NoEntry
      BY <1>1, <2>1, <2>4 DEF TypeOK, NoEntry
    <3>2. CASE d = c
      BY <1>1, <3>1, <3>2 DEF CheckedIsOpen, Remembered
    <3>3. CASE d # c /\ Remembered(msg[d])
      <4>1. seen[Key(msg[d])] <= clock /\ seen[Key(msg[d])] \in Int
        BY <2>1 DEF SeenInPast, TypeOK, NoEntry
      <4>2. clock >= FirstTick(msg[d])
        BY <1>1, <2>2, <3>3, <4>1 DEF Remembered
      <4> QED BY <1>1, <3>1, <4>2 DEF Remembered
    <3>4. CASE d # c /\ clock > LastTick(msg[d])
      BY <1>1, <3>4
    <3> QED BY <1>1, <1>2, <3>2, <3>3, <3>4 DEF AdmittedIsKnown
  <2> QED BY <2>3, <2>4
<1> QED BY <1>3, <1>4, <1>5

LEMMA TickMemory ==
  ASSUME MemoryInv, TypeOK', Tick
  PROVE  MemoryInv'
<1> USE DEF MemoryInv, Tick
<1>1. /\ clock \in Nat /\ clock' = clock + 1 /\ \A c \in Call : Admitted(c)' <=> Admitted(c)
      /\ HasReplayStore' <=> HasReplayStore
  BY DEF TypeOK, Admitted, HasReplayStore
<1>2. CallsTyped'
  BY <1>1 DEF CallsTyped
<1>3. SeenInPast'
  <2> SUFFICES ASSUME NEW k \in Keys PROVE seen[k] <= clock + 1
    BY DEF SeenInPast
  <2>1. seen[k] \in Int /\ seen[k] <= clock
    BY DEF SeenInPast, TypeOK, NoEntry
  <2> QED BY <1>1, <2>1
<1>4. AdmittedIsKnown' /\ CheckedIsOpen'
  <2> SUFFICES ASSUME NEW c \in Call
               PROVE  /\ HasReplayStore /\ born[c] = life /\ Admitted(c)
                           => Remembered(msg[c]) \/ clock + 1 > LastTick(msg[c])
                      /\ pc[c] = "checking" => FirstTick(msg[c]) <= clock + 1
    BY <1>1 DEF AdmittedIsKnown, CheckedIsOpen, Remembered
  <2>1. pc[c] # "idle" => FirstTick(msg[c]) \in Int /\ LastTick(msg[c]) \in Int
    BY Window, SMT DEF CallsTyped
  <2>2. Admitted(c) => pc[c] # "idle"
    BY DEF Admitted
  <2> QED BY <1>1, <2>1, <2>2 DEF AdmittedIsKnown, CheckedIsOpen
<1> QED BY <1>2, <1>3, <1>4

(* A new life: no call of it has been made yet. *)
LEMMA CrashMemory ==
  ASSUME MemoryInv, TypeOK', Crash
  PROVE  /\ MemoryInv'
         /\ \A c \in Call : born'[c] = born[c] /\ born[c] # life' /\ pc'[c] \notin Active
<1> USE DEF MemoryInv, Crash
<1>1. life \in Nat /\ life' = life + 1 /\ \A c \in Call : born'[c] = born[c] /\ born[c] # life'
  BY AgentAssumption, SMT DEF TypeOK, CallsTyped
<1>2. \A c \in Call : pc'[c] \notin Active
  BY DEF TypeOK, Active
<1>3. CallsTyped'
  BY <1>1, <1>2 DEF CallsTyped, Active, TypeOK
<1>4. SeenInPast'
  BY DEF SeenInPast, EmptyStore, NoEntry, TypeOK
<1>5. AdmittedIsKnown' /\ CheckedIsOpen'
  BY <1>1, <1>2 DEF AdmittedIsKnown, CheckedIsOpen, Active
<1> QED BY <1>1, <1>2, <1>3, <1>4, <1>5

LEMMA InitMemory == Init => MemoryInv /\ \A c \in Call : ~Admitted(c)
<1> SUFFICES ASSUME Init PROVE MemoryInv /\ \A c \in Call : ~Admitted(c)
  OBVIOUS
<1>1. TypeOK
  BY AgentAssumption DEF Init, TypeOK, EmptyStore, PC
<1>2. \A c \in Call : ~Admitted(c)
  BY DEF Init, Admitted
<1>3. CallsTyped /\ AdmittedIsKnown /\ CheckedIsOpen
  BY <1>2 DEF Init, CallsTyped, AdmittedIsKnown, CheckedIsOpen, Active
<1>4. SeenInPast
  BY DEF Init, SeenInPast, EmptyStore, NoEntry
<1> QED BY <1>1, <1>2, <1>3, <1>4 DEF MemoryInv

(* What each step of a call is, seen from the replay check. *)
LEMMA InvokeCases ==
  ASSUME TypeOK, NEW c \in Call, NEW m \in Message, NEW k,
         RejectInvalid(c, m, k) \/ RejectMisaddressed(c, m, k)
  PROVE  TurnsAway(c)
<1>1. Verdict(m, clock) \in Rejection \cup {"ok"}
  BY AgentAssumption, VerdictType DEF Rejection
<1>2. TypeOK /\ c \in Call /\ MayStart(c) /\ Start(c, m, k)
      /\ UNCHANGED <<clock, life, seen, found, ran>>
      /\ \E e \in Rejection : Throw(c, e)
  BY <1>1 DEF RejectInvalid, RejectMisaddressed, Rejection
<1> QED BY <1>2 DEF TurnsAway, MayStart, Start, Throw, TypeOK, Rejection, Failure

LEMMA ResumeCases ==
  ASSUME TypeOK, TypeOK', CallsTyped, NEW c \in Call, Resume(c)
  PROVE  MarkAsSeen(c) \/ TurnsAway(c) \/ Carries(c)
<1>1. CASE MarkAsSeen(c)
  BY <1>1
<1>2. CASE RejectDuplicate(c)
  BY <1>2 DEF RejectDuplicate, TurnsAway, Throw, TypeOK, CallsTyped, Failure, Active
<1>3. CASE \/ InboundMiddlewareThrows(c) \/ MethodNotFound(c) \/ HandlerThrows(c)
           \/ SigningFails(c) \/ OutboundMiddlewareThrows(c)
  BY <1>3 DEF InboundMiddlewareThrows, MethodNotFound, HandlerThrows, SigningFails,
              OutboundMiddlewareThrows, Fail, Throw, Carries, TypeOK, Failure
<1>4. CASE InvokeHandler(c)
  BY <1>4 DEF InvokeHandler, Goto, Carries, TypeOK
<1>5. CASE StreamEnds(c) \/ SignResponse(c) \/ Reply(c)
  BY <1>5 DEF StreamEnds, SignResponse, Reply, Proceed, Goto, Carries, TypeOK
<1> QED BY <1>1, <1>2, <1>3, <1>4, <1>5 DEF Resume

LEMMA MemoryStep ==
  ASSUME Lasting, MemoryInv, [Next]_vars
  PROVE  MemoryInv'
<1>0. TypeOK /\ TypeOK' /\ CallsTyped
  BY TypeStep DEF MemoryInv
<1>1. CASE UNCHANGED vars
  <2> USE <1>1 DEF MemoryInv, vars
  <2>1. (\A c \in Call : Admitted(c)' <=> Admitted(c)) /\ (HasReplayStore' <=> HasReplayStore)
    BY DEF Admitted, HasReplayStore
  <2> QED BY <1>0, <2>1 DEF CallsTyped, SeenInPast, AdmittedIsKnown, CheckedIsOpen, Remembered
<1>2. CASE Tick \/ Crash
  BY <1>0, <1>2, TickMemory, CrashMemory
<1>3. ASSUME NEW c \in Call, Invoke(c) PROVE MemoryInv'
  <2> PICK m \in Message, k \in {"message", "stream"} :
         \/ RejectInvalid(c, m, k)
         \/ RejectMisaddressed(c, m, k)
         \/ SkipReplayCheck(c, m, k)
         \/ \E now \in clock .. (clock + Lag) : now <= MaxClock /\ LookUp(c, m, k, now)
    BY <1>3 DEF Invoke
  <2>1. CASE RejectInvalid(c, m, k) \/ RejectMisaddressed(c, m, k)
    BY <1>0, <2>1, InvokeCases, TurnsAwayMemory
  <2>2. CASE SkipReplayCheck(c, m, k)
    BY <1>0, <2>2, SkipMemory
  <2>3. ASSUME NEW now \in clock .. (clock + Lag), LookUp(c, m, k, now) PROVE MemoryInv'
    BY <1>0, <2>3, LookUpMemory
  <2> QED BY <2>1, <2>2, <2>3
<1>4. ASSUME NEW c \in Call, Resume(c) PROVE MemoryInv'
  BY <1>0, <1>4, ResumeCases, MarkMemory, TurnsAwayMemory, CarriesMemory
<1> QED BY <1>1, <1>2, <1>3, <1>4 DEF Next

(* As long as entries outlive the window, the store knows every message    *)
(* that was admitted and could come again: the invariant above.  Calls may *)
(* start whenever they like, and processes run with a store or without.    *)
THEOREM MemoryInvariance == ASSUME Lasting PROVE Spec => []MemoryInv
<1>1. Init => MemoryInv
  BY InitMemory
<1>2. MemoryInv /\ [Next]_vars => MemoryInv'
  BY MemoryStep
<1> QED BY <1>1, <1>2, PTL DEF Spec

(* With lasting entries the store recognises every copy of an admitted     *)
(* message for as long as the validator would let it through, and Lag      *)
(* ticks longer, when hasSeen() comes to look.                             *)
LEMMA CopyIsSeen ==
  ASSUME Lasting, MemoryInv, HasReplayStore, NEW c \in Call, born[c] = life, Admitted(c),
         WithinDrift(msg[c], clock), NEW now \in clock .. (clock + Lag)
  PROVE  HasSeen(seen, Key(msg[c]), now)
<1>1. msg[c] \in Message /\ clock \in Nat /\ TypeOK
  BY DEF MemoryInv, TypeOK, CallsTyped, Admitted
<1>2. clock <= LastTick(msg[c]) /\ LastTick(msg[c]) \in Int
  <2>1. clock <= LastTick(msg[c])
    BY <1>1, FreshInWindow
  <2> QED BY <1>1, <2>1, Window, SMT
<1>3. ~(clock > LastTick(msg[c]))
  BY <1>1, <1>2
<1>4. Remembered(msg[c])
  BY <1>3 DEF MemoryInv, AdmittedIsKnown
<1>5. ~Expired(seen, Key(msg[c]), now)
  BY <1>1, <1>3, <1>4, ExpiredIsStale
<1> QED BY <1>4, <1>5 DEF HasSeen, Remembered

(* With lasting entries hasSeen() answers yes to every copy of an admitted *)
(* message that validate() would let through.                              *)
THEOREM StoreRemembersHolds == ASSUME Lasting PROVE Spec => []StoreRemembers
<1>1. MemoryInv => StoreRemembers
  <2> SUFFICES ASSUME MemoryInv, HasReplayStore, NEW c \in Call, born[c] = life, Admitted(c),
                      WithinDrift(msg[c], clock)
               PROVE  HasSeen(seen, Key(msg[c]), clock)
    BY DEF StoreRemembers
  <2>1. clock \in clock .. (clock + Lag)
    BY AgentAssumption DEF MemoryInv, TypeOK
  <2> QED BY <2>1, CopyIsSeen
<1> QED BY <1>1, MemoryInvariance, PTL

(* A copy that is looked up after another was admitted gets a yes, so only *)
(* copies that are looked up before the first of them is marked, those of  *)
(* one turn, can both be handled: what is left of the replay protection    *)
(* when several calls start at once.                                       *)
ComesLate(c, d) ==
  /\ pc[c] = "idle" /\ pc'[c] = "checking"
  /\ born[d] = life /\ Admitted(d) /\ msg[d] = msg'[c]

LateCopyIsRefused == [][\A c, d \in Call : ComesLate(c, d) => found'[c]]_vars

(* With lasting entries, however many calls start in one turn, a copy that *)
(* comes after one that was admitted is refused.                           *)
THEOREM LateCopyIsRefusedHolds == ASSUME Lasting PROVE Spec => LateCopyIsRefused
<1>1. MemoryInv /\ [Next]_vars =>
        [\A c, d \in Call : ComesLate(c, d) => found'[c]]_vars
  <2> SUFFICES ASSUME MemoryInv, [Next]_vars, vars' # vars,
                      NEW c \in Call, NEW d \in Call, ComesLate(c, d)
               PROVE  found'[c]
    BY Zenon
  <2> USE DEF ComesLate
  <2>0. Next
    OBVIOUS
  <2>1. \E m \in Message, k \in {"message", "stream"}, now \in clock .. (clock + Lag) :
          LookUp(c, m, k, now)
    <3> USE DEF MemoryInv, TypeOK
    <3>1. CASE Tick \/ Crash
      BY <3>1 DEF Tick, Crash
    <3>2. ASSUME NEW e \in Call, Resume(e) PROVE FALSE
      BY <3>2 DEF Resume, RejectDuplicate, MarkAsSeen, InboundMiddlewareThrows,
                  MethodNotFound, InvokeHandler, HandlerThrows, StreamEnds, SignResponse,
                  SigningFails, OutboundMiddlewareThrows, Reply, Goto, Fail, Proceed, Throw
    <3>3. ASSUME NEW e \in Call, NEW m \in Message, NEW k,
                 RejectInvalid(e, m, k) \/ RejectMisaddressed(e, m, k) \/ SkipReplayCheck(e, m, k)
          PROVE  FALSE
      BY <3>3 DEF RejectInvalid, RejectMisaddressed, SkipReplayCheck, Throw, MayStart
    <3>4. ASSUME NEW e \in Call, NEW m \in Message, NEW k, NEW now, LookUp(e, m, k, now)
          PROVE  e = c
      BY <3>4 DEF LookUp
    <3> QED BY <2>0, <3>1, <3>2, <3>3, <3>4 DEF Next, Invoke
  <2>2. PICK m \in Message, k \in {"message", "stream"}, now \in clock .. (clock + Lag) :
          LookUp(c, m, k, now)
    BY <2>1
  <2>3. /\ msg'[c] = m /\ HasReplayStore /\ WithinDrift(m, clock)
        /\ found'[c] = HasSeen(seen, Key(m), now)
    BY <2>2 DEF LookUp, Start, Verdict, MemoryInv, TypeOK
  <2> QED BY <2>3, CopyIsSeen
<1> QED BY <1>1, MemoryInvariance, PTL DEF Spec, LateCopyIsRefused

-----------------------------------------------------------------------------
(* The inductive invariant behind HandledAtMostOnce *)

RanWasAdmitted ==
  \A c \in Call : ran[c] /\ born[c] = life => Admitted(c)

OneChecker ==
  \A c, d \in Call : pc[c] = "checking" /\ pc[d] = "checking" => c = d

(* Between hasSeen and markSeen a negative answer stays true. *)
CheckedIsNew ==
  \A c, d \in Call :
    c # d /\ pc[c] = "checking" /\ ~found[c] /\ msg[d] = msg[c] /\ born[d] = life
      => ~Admitted(d)

AdmittedOnce ==
  \A c, d \in Call :
    c # d /\ msg[c] = msg[d] /\ born[c] = life /\ born[d] = life
      => ~(Admitted(c) /\ Admitted(d))

IInv ==
  /\ MemoryInv /\ RanWasAdmitted
  /\ OneChecker /\ CheckedIsNew /\ AdmittedOnce
  /\ HandledAtMostOnce

LEMMA CarriesKeeps ==
  ASSUME NEW c \in Call, IInv, TypeOK', Carries(c)
  PROVE  IInv'
<1> USE DEF IInv
<1>1. \A d \in Call : Admitted(d)' <=> Admitted(d)
  BY DEF Carries, Admitted
<1>2. Admitted(c)
  BY DEF Carries, Admitted
<1>3. \A d \in Call : pc'[d] = "checking" => pc[d] = "checking"
  BY DEF Carries
<1>4. MemoryInv'
  BY CarriesMemory
<1>5. RanWasAdmitted'
  BY <1>1, <1>2 DEF Carries, RanWasAdmitted
<1>6. OneChecker' /\ CheckedIsNew' /\ AdmittedOnce'
  BY <1>1, <1>3 DEF Carries, OneChecker, CheckedIsNew, AdmittedOnce
<1>7. HandledAtMostOnce'
  <2> SUFFICES ASSUME NEW d \in Call, NEW e \in Call, d # e,
                      msg[d] = msg[e], born[d] = born[e], ran'[d], ran'[e]
               PROVE  FALSE
    BY DEF HandledAtMostOnce, Carries
  <2>1. CASE d # c /\ e # c
    BY <2>1 DEF Carries, HandledAtMostOnce
  <2>2. CASE d = c \/ e = c
    <3>1. born[c] = life
      BY DEF Carries, MemoryInv, CallsTyped, Active
    <3> QED BY <2>2, <1>2, <3>1 DEF Carries, RanWasAdmitted, AdmittedOnce
  <2> QED BY <2>1, <2>2
<1> QED BY <1>4, <1>5, <1>6, <1>7

LEMMA TurnsAwayKeeps ==
  ASSUME NEW c \in Call, IInv, TypeOK', TurnsAway(c)
  PROVE  IInv'
<1> USE DEF IInv
<1>1. /\ \A d \in Call : Admitted(d)' => d # c /\ Admitted(d)
      /\ ~ran[c]
  BY DEF TurnsAway, Admitted, MemoryInv, CallsTyped
<1>2. \A d \in Call : pc'[d] = "checking" => d # c /\ pc[d] = "checking"
  BY DEF TurnsAway
<1>3. MemoryInv'
  BY TurnsAwayMemory
<1>4. RanWasAdmitted'
  BY <1>1 DEF TurnsAway, RanWasAdmitted, Admitted
<1>5. OneChecker' /\ CheckedIsNew' /\ AdmittedOnce' /\ HandledAtMostOnce'
  BY <1>1, <1>2 DEF TurnsAway, OneChecker, CheckedIsNew, AdmittedOnce, HandledAtMostOnce
<1> QED BY <1>3, <1>4, <1>5

LEMMA LookUpKeeps ==
  ASSUME Guarded, NEW c \in Call, NEW m \in Message, NEW k, NEW now \in clock .. (clock + Lag),
         IInv, TypeOK', LookUp(c, m, k, now)
  PROVE  IInv'
<1> USE DEF IInv
<1>1. /\ ~ran[c] /\ pc'[c] = "checking" /\ msg'[c] = m
      /\ found'[c] = HasSeen(seen, Key(m), now)
      /\ HasReplayStore /\ WithinDrift(m, clock)
      /\ UNCHANGED <<life, outcome, ran>>
      /\ \A d \in Call \ {c} :
            /\ pc'[d] = pc[d] /\ msg'[d] = msg[d] /\ born'[d] = born[d]
            /\ found'[d] = found[d] /\ pc[d] # "checking"
  BY DEF LookUp, MayStart, Guarded, Start, MemoryInv, TypeOK, CallsTyped, Verdict
<1>2. \A d \in Call : Admitted(d)' => d # c /\ Admitted(d)
  BY <1>1 DEF Admitted
<1>3. MemoryInv'
  BY LookUpMemory DEF Guarded, Lasting
<1>4. RanWasAdmitted' /\ OneChecker'
  BY <1>1 DEF RanWasAdmitted, OneChecker, Admitted
<1>5. CheckedIsNew'
  <2> SUFFICES ASSUME NEW d \in Call, d # c, ~found'[c], msg'[d] = m, born'[d] = life,
                      Admitted(d)'
               PROVE  FALSE
    BY <1>1 DEF CheckedIsNew
  <2>1. msg[d] = m /\ born[d] = life /\ Admitted(d)
    BY <1>1, <1>2
  <2> QED BY <1>1, <2>1, CopyIsSeen DEF Guarded, Lasting
<1>6. AdmittedOnce' /\ HandledAtMostOnce'
  BY <1>1, <1>2 DEF AdmittedOnce, HandledAtMostOnce
<1> QED BY <1>3, <1>4, <1>5, <1>6

LEMMA MarkKeeps ==
  ASSUME Guarded, NEW c \in Call, IInv, TypeOK', MarkAsSeen(c)
  PROVE  IInv'
<1> USE DEF IInv
<1>1. /\ pc[c] = "checking" /\ ~found[c] /\ pc'[c] = "inbound" /\ born[c] = life /\ ~ran[c]
      /\ \A d \in Call \ {c} : pc'[d] = pc[d]
      /\ UNCHANGED <<clock, life, msg, kind, found, outcome, born, ran>>
  BY DEF MarkAsSeen, Goto, MemoryInv, CallsTyped, TypeOK, Active
<1>2. \A d \in Call \ {c} : Admitted(d)' <=> Admitted(d)
  BY <1>1 DEF Admitted
<1>3. MemoryInv'
  BY MarkMemory
<1>4. RanWasAdmitted' /\ OneChecker'
  BY <1>1, <1>2 DEF RanWasAdmitted, OneChecker
<1>5. CheckedIsNew' /\ AdmittedOnce' /\ HandledAtMostOnce'
  BY <1>1, <1>2 DEF CheckedIsNew, AdmittedOnce, OneChecker, HandledAtMostOnce
<1> QED BY <1>3, <1>4, <1>5

LEMMA TickKeeps ==
  ASSUME IInv, TypeOK', Tick
  PROVE  IInv'
<1> USE DEF IInv, Tick
<1>1. \A c \in Call : Admitted(c)' <=> Admitted(c)
  BY DEF Admitted
<1>2. MemoryInv'
  BY TickMemory
<1>3. RanWasAdmitted' /\ OneChecker'
  BY <1>1 DEF RanWasAdmitted, OneChecker
<1>4. CheckedIsNew' /\ AdmittedOnce' /\ HandledAtMostOnce'
  BY <1>1 DEF CheckedIsNew, AdmittedOnce, HandledAtMostOnce
<1> QED BY <1>2, <1>3, <1>4

LEMMA CrashKeeps ==
  ASSUME IInv, TypeOK', Crash
  PROVE  IInv'
<1> USE DEF IInv
<1>1. \A c \in Call : born'[c] = born[c] /\ born[c] # life' /\ pc'[c] \notin Active
  BY CrashMemory
<1>2. MemoryInv'
  BY CrashMemory
<1>3. RanWasAdmitted' /\ AdmittedOnce'
  BY <1>1 DEF RanWasAdmitted, AdmittedOnce
<1>4. OneChecker' /\ CheckedIsNew' /\ HandledAtMostOnce'
  BY <1>1 DEF OneChecker, CheckedIsNew, HandledAtMostOnce, Active, Crash
<1> QED BY <1>2, <1>3, <1>4

LEMMA InitIInv == Init => IInv
BY InitMemory DEF Init, IInv, RanWasAdmitted, OneChecker, CheckedIsNew, AdmittedOnce,
                  HandledAtMostOnce

(* In the guarded configuration every run of the process has a store. *)
LEMMA StoreIsSet == ASSUME Guarded, TypeOK PROVE HasReplayStore
  BY DEF Guarded, TypeOK, HasReplayStore

LEMMA StepIInv ==
  ASSUME Guarded, IInv, TypeOK', [Next]_vars
  PROVE  IInv'
<1>0. TypeOK /\ CallsTyped
  BY DEF IInv, MemoryInv
<1>1. CASE UNCHANGED vars
  <2> USE <1>1 DEF IInv, vars
  <2>1. \A c \in Call : Admitted(c)' <=> Admitted(c)
    BY DEF Admitted
  <2>2. MemoryInv'
    BY MemoryStep DEF Guarded, Lasting
  <2>3. RanWasAdmitted' /\ OneChecker' /\ CheckedIsNew' /\ AdmittedOnce' /\ HandledAtMostOnce'
    BY <2>1 DEF RanWasAdmitted, OneChecker, CheckedIsNew, AdmittedOnce, HandledAtMostOnce
  <2> QED BY <2>2, <2>3
<1>2. CASE Tick
  BY <1>2, TickKeeps
<1>3. CASE Crash
  BY <1>3, CrashKeeps
<1>4. ASSUME NEW c \in Call, Invoke(c) PROVE IInv'
  <2> PICK m \in Message, k \in {"message", "stream"} :
         \/ RejectInvalid(c, m, k)
         \/ RejectMisaddressed(c, m, k)
         \/ SkipReplayCheck(c, m, k)
         \/ \E now \in clock .. (clock + Lag) : now <= MaxClock /\ LookUp(c, m, k, now)
    BY <1>4 DEF Invoke
  <2>1. CASE RejectInvalid(c, m, k) \/ RejectMisaddressed(c, m, k)
    BY <1>0, <2>1, InvokeCases, TurnsAwayKeeps
  <2>2. CASE SkipReplayCheck(c, m, k)
    BY <1>0, <2>2, StoreIsSet DEF SkipReplayCheck
  <2>3. ASSUME NEW now \in clock .. (clock + Lag), LookUp(c, m, k, now) PROVE IInv'
    BY <2>3, LookUpKeeps
  <2> QED BY <2>1, <2>2, <2>3
<1>5. ASSUME NEW c \in Call, Resume(c) PROVE IInv'
  BY <1>0, <1>5, ResumeCases, MarkKeeps, TurnsAwayKeeps, CarriesKeeps
<1> QED BY <1>1, <1>2, <1>3, <1>4, <1>5 DEF Next

(* In the guarded configuration hasSeen, markSeen and the clock between    *)
(* them keep the store ahead of the validator: the invariant above.        *)
THEOREM Invariance == ASSUME Guarded PROVE Spec => []IInv
<1>1. TypeOK /\ [Next]_vars => TypeOK'
  BY TypeStep
<1>2. IInv /\ [Next]_vars => IInv'
  BY <1>1, StepIInv DEF IInv, MemoryInv
<1> QED BY <1>2, InitIInv, PTL DEF Spec

(* In the guarded configuration no message is handled twice in one life of *)
(* the process.                                                            *)
THEOREM AtMostOnceHolds == ASSUME Guarded PROVE Spec => []HandledAtMostOnce
<1>1. IInv => HandledAtMostOnce
  BY DEF IInv
<1> QED BY <1>1, Invariance, PTL

-----------------------------------------------------------------------------
(* Refinement of AtMostOnce *)

(* Steps that neither admit a call, nor run a handler, nor end a life. *)
LEMMA SameView ==
  ASSUME HasReplayStore, UNCHANGED <<life, ran>>,
         \A d \in Call : ran[d] => born'[d] = born[d] /\ msg'[d] = msg[d],
         \A d \in Call : ~ran[d] => born'[d] = born[d] \/ born'[d] = life,
         \A d \in Call : born'[d] = life /\ Admitted(d)' <=> born[d] = life /\ Admitted(d),
         \A d \in Call : Admitted(d) => msg'[d] = msg[d]
  PROVE  UNCHANGED Promise!vars
<1> HasReplayStore'
  BY DEF HasReplayStore
<1>1. Accepted' = Accepted
  BY DEF Accepted, Here
<1>2. Executed' = Executed
  <2>1. \A d \in Call : born'[d] = life /\ ran[d] <=> born[d] = life /\ ran[d]
    OBVIOUS
  <2> QED BY <2>1 DEF Executed, Here
<1> QED BY <1>1, <1>2 DEF Promise!vars

LEMMA StepRefines ==
  ASSUME Guarded, IInv, IInv', [Next]_vars
  PROVE  [Promise!Next]_(Promise!vars)
<1> USE DEF IInv, MemoryInv
<1>0. HasReplayStore /\ HasReplayStore'
  <2>1. HasReplayStore
    BY StoreIsSet
  <2>2. HasReplayStore'
    BY DEF Guarded, TypeOK, HasReplayStore
  <2> QED BY <2>1, <2>2
<1>1. CASE UNCHANGED vars \/ Tick
  <2>1. UNCHANGED <<life, pc, msg, outcome, born, ran>>
    BY <1>1 DEF vars, Tick
  <2> QED BY <2>1, <1>0, SameView DEF Admitted
<1>2. CASE Crash
  <2>1. Here' = {}
    BY <1>2, AgentAssumption, SMT DEF Here, Crash, TypeOK, CallsTyped
  <2>2. Accepted' = {} /\ Executed' = {}
    BY <1>0, <2>1 DEF Accepted, Executed
  <2> QED BY <2>2 DEF Promise!Next, Promise!Restart
<1>3. ASSUME NEW c \in Call, TurnsAway(c) PROVE UNCHANGED Promise!vars
  <2>1. ~ran[c] /\ ~Admitted(c) /\ ~Admitted(c)' /\ UNCHANGED <<life, ran>>
    BY <1>3 DEF TurnsAway, Admitted, CallsTyped, RanWasAdmitted, Active
  <2>2. \A d \in Call \ {c} : born'[d] = born[d] /\ msg'[d] = msg[d] /\ (Admitted(d)' <=> Admitted(d))
    BY <1>3 DEF TurnsAway, Admitted
  <2>3. born'[c] = life
    BY <1>3 DEF TurnsAway
  <2> QED BY <2>1, <2>2, <2>3, <1>0, SameView
<1>4. ASSUME NEW c \in Call, Invoke(c) PROVE UNCHANGED Promise!vars
  <2> PICK m \in Message, k \in {"message", "stream"} :
         \/ RejectInvalid(c, m, k)
         \/ RejectMisaddressed(c, m, k)
         \/ SkipReplayCheck(c, m, k)
         \/ \E now \in clock .. (clock + Lag) : now <= MaxClock /\ LookUp(c, m, k, now)
    BY <1>4 DEF Invoke
  <2>1. CASE RejectInvalid(c, m, k) \/ RejectMisaddressed(c, m, k)
    BY <2>1, <1>3, InvokeCases
  <2>2. CASE SkipReplayCheck(c, m, k)
    BY <2>2, <1>0 DEF SkipReplayCheck
  <2>3. ASSUME NEW now \in clock .. (clock + Lag), LookUp(c, m, k, now)
        PROVE  UNCHANGED Promise!vars
    <3>1. ~ran[c] /\ ~Admitted(c) /\ ~Admitted(c)' /\ born'[c] = life /\ UNCHANGED <<life, ran>>
      BY <2>3 DEF LookUp, MayStart, Start, Admitted, CallsTyped, TypeOK
    <3>2. \A d \in Call \ {c} : born'[d] = born[d] /\ msg'[d] = msg[d] /\ (Admitted(d)' <=> Admitted(d))
      BY <2>3 DEF LookUp, Start, Admitted, TypeOK
    <3> QED BY <3>1, <3>2, <1>0, SameView
  <2> QED BY <2>1, <2>2, <2>3
<1>5. ASSUME NEW c \in Call, MarkAsSeen(c) PROVE Promise!Accept(c, msg[c])
  <2>1. /\ ~Admitted(c) /\ Admitted(c)' /\ c \in Here
        /\ UNCHANGED <<life, msg, born, ran>>
        /\ \A d \in Call \ {c} : Admitted(d)' <=> Admitted(d)
    BY <1>0, <1>5 DEF MarkAsSeen, Goto, Admitted, TypeOK, CallsTyped, Active, Here
  <2>2. \A e \in Call : <<e, msg[c]>> \notin Accepted
    BY <1>0, <2>1 DEF Accepted, Here, AdmittedOnce
  <2>3. Accepted' = Accepted \cup {<<c, msg[c]>>}
    BY <1>0, <2>1 DEF Accepted, Here
  <2>4. Executed' = Executed
    BY <1>0, <2>1 DEF Executed, Here
  <2> QED BY <2>2, <2>3, <2>4 DEF Promise!Accept
<1>6. ASSUME NEW c \in Call, InvokeHandler(c) PROVE Promise!Execute(c, msg[c])
  <2>1. /\ Admitted(c) /\ Admitted(c)' /\ ran'[c] /\ c \in Here
        /\ UNCHANGED <<life, msg, born>>
        /\ \A d \in Call \ {c} : (Admitted(d)' <=> Admitted(d)) /\ ran'[d] = ran[d]
    BY <1>0, <1>6 DEF InvokeHandler, Goto, Admitted, TypeOK, CallsTyped, Active, Here
  <2>2. ~ran[c]
    BY <1>6 DEF InvokeHandler, Goto, CallsTyped
  <2>3. <<c, msg[c]>> \in Accepted \ Executed
    BY <1>0, <2>1, <2>2 DEF Accepted, Executed, Here
  <2>4. Executed' = Executed \cup {<<c, msg[c]>>}
    BY <1>0, <2>1 DEF Executed, Here
  <2>5. Accepted' = Accepted
    BY <1>0, <2>1 DEF Accepted, Here
  <2> QED BY <2>3, <2>4, <2>5 DEF Promise!Execute
<1>7. ASSUME NEW c \in Call, Carries(c), UNCHANGED ran PROVE UNCHANGED Promise!vars
  <2>1. \A d \in Call : Admitted(d)' <=> Admitted(d)
    BY <1>7 DEF Carries, Admitted
  <2> QED BY <2>1, <1>7, <1>0, SameView DEF Carries
<1>8. ASSUME NEW c \in Call, Resume(c) PROVE [Promise!Next]_(Promise!vars)
  <2>1. msg[c] \in Message
    BY <1>8 DEF CallsTyped, Resume, RejectDuplicate, MarkAsSeen, InboundMiddlewareThrows,
                MethodNotFound, InvokeHandler, HandlerThrows, StreamEnds, SignResponse,
                SigningFails, OutboundMiddlewareThrows, Reply, Goto, Fail, Proceed
  <2>2. CASE MarkAsSeen(c)
    BY <1>5, <2>1, <2>2 DEF Promise!Next
  <2>3. CASE InvokeHandler(c)
    BY <1>6, <2>1, <2>3 DEF Promise!Next
  <2>4. CASE TurnsAway(c)
    BY <1>3, <2>4
  <2>5. CASE ~InvokeHandler(c) /\ Carries(c)
    <3>1. UNCHANGED ran
      BY <1>8, <2>5 DEF Resume, RejectDuplicate, MarkAsSeen, InboundMiddlewareThrows,
                MethodNotFound, HandlerThrows, StreamEnds, SignResponse,
                SigningFails, OutboundMiddlewareThrows, Reply, Goto, Fail, Proceed
    <3> QED BY <1>7, <2>5, <3>1
  <2> QED BY <1>8, <2>2, <2>3, <2>4, <2>5, ResumeCases
<1> QED BY <1>1, <1>2, <1>4, <1>8 DEF Next

(* In the guarded configuration the pipeline implements AtMostOnce: every  *)
(* step accepts a new message, executes an accepted one that has not been  *)
(* executed, forgets everything with a restart, or changes nothing of it.  *)
THEOREM PromiseKept == ASSUME Guarded PROVE Spec => KeepsPromise
<1>1. Init => Promise!Init
  <2> SUFFICES ASSUME Init PROVE Promise!Init
    OBVIOUS
  <2>1. Here = {}
    BY DEF Init, Here
  <2> QED BY <2>1 DEF Promise!Init, Accepted, Executed
<1>2. IInv /\ IInv' /\ [Next]_vars => [Promise!Next]_(Promise!vars)
  BY StepRefines
<1> QED BY <1>1, <1>2, Invariance, PTL DEF Spec, KeepsPromise, Promise!Spec

-----------------------------------------------------------------------------
(* What a call may do to the rest of the agent.  None of this depends on   *)
(* the configuration: not on the age of entries, nor on when calls start.  *)

Verified(m) ==
  /\ m.to \in {Self, NoAddressee}
  /\ m.sig \in {"good", "absent"}
  /\ m.type = "request" => m.sig = "good"

(* A call of this process with this key got past the replay check. *)
Known(k) == \E d \in Call : born[d] = life /\ Admitted(d) /\ Key(msg[d]) = k

(* The store has answered yes to c, or c was turned away for that. *)
Refused(c) ==
  \/ pc[c] = "checking" /\ found[c]
  \/ pc[c] = "threw" /\ outcome[c] = "Duplicate"

(* Only a call that passed the replay check reaches a handler. *)
RanStays == \A c \in Call : ran[c] => pc[c] = "lost" \/ Admitted(c)

(* Behind validate() and the test of the addressee a message is in order. *)
PassedChecks ==
  \A c \in Call : pc[c] = "checking" \/ Admitted(c) \/ ran[c] => Verified(msg[c])

(* An entry in the store was put there by a call that was admitted. *)
EntryIsDue == \A k \in Keys : seen[k] # NoEntry => Known(k)

(* So whoever is refused because of an entry can be shown that call. *)
RefusalIsDue ==
  \A c \in Call : born[c] = life /\ Refused(c) => Known(Key(msg[c]))

EffectInv ==
  TypeOK /\ CallsTyped /\ RanStays /\ PassedChecks /\ EntryIsDue /\ RefusalIsDue

(* While the process lives, no call that was admitted is forgotten. *)
LEMMA KnownStays ==
  ASSUME life' = life,
         \A d \in Call : Admitted(d) => Admitted(d)' /\ born'[d] = born[d] /\ msg'[d] = msg[d]
  PROVE  \A k : Known(k) => Known(k)'
BY DEF Known

(* What the validator lets through and is addressed here is verified. *)
LEMMA AcceptedIsVerified ==
  ASSUME NEW m \in Message, NEW now, Verdict(m, now) = "ok", ~Misaddressed(m)
  PROVE  Verified(m)
<1>1. m.sig \in SignatureKinds
  BY AgentAssumption
<1>2. m.to \in {Self, NoAddressee}
  BY DEF Misaddressed
<1>3. CASE m.sig = "absent"
  <2>1. m.type # "request"
    BY <1>3 DEF Verdict, StructureValid
  <2> QED BY <1>2, <1>3, <2>1 DEF Verified
<1>4. CASE m.sig = "malformed"
  BY <1>4 DEF Verdict, StructureValid
<1>5. CASE m.sig = "undecodable"
  BY <1>5 DEF Verdict
<1>6. CASE m.sig = "wrong"
  BY <1>6 DEF Verdict
<1>7. CASE m.sig = "good"
  BY <1>2, <1>7 DEF Verified
<1> QED BY <1>1, <1>3, <1>4, <1>5, <1>6, <1>7 DEF SignatureKinds

LEMMA CarriesEffect ==
  ASSUME NEW c \in Call, EffectInv, TypeOK', Carries(c), ran[c] => ran'[c]
  PROVE  EffectInv'
<1> USE DEF EffectInv
<1>1. \A d \in Call : Admitted(d)' <=> Admitted(d)
  BY DEF Carries, Admitted
<1>2. Admitted(c) /\ born[c] = life
  BY DEF Carries, Admitted, CallsTyped, Active
<1>3. \A k : Known(k) => Known(k)'
  BY <1>1, KnownStays DEF Carries
<1>4. CallsTyped'
  BY DEF Carries, CallsTyped, Active
<1>5. RanStays'
  BY <1>1, <1>2 DEF Carries, RanStays
<1>6. PassedChecks'
  BY <1>1, <1>2 DEF Carries, PassedChecks, Verified
<1>7. EntryIsDue'
  BY <1>3 DEF Carries, EntryIsDue
<1>8. RefusalIsDue'
  <2>1. \A d \in Call : Refused(d)' => Refused(d)
    BY DEF Carries, Refused, Failure
  <2> QED BY <1>3, <2>1 DEF Carries, RefusalIsDue
<1> QED BY <1>4, <1>5, <1>6, <1>7, <1>8

LEMMA TurnsAwayEffect ==
  ASSUME NEW c \in Call, EffectInv, TypeOK', TurnsAway(c),
         Refused(c)' => Refused(c)
  PROVE  EffectInv'
<1> USE DEF EffectInv
<1>1. /\ \A d \in Call : Admitted(d)' <=> Admitted(d)
      /\ ~Admitted(c) /\ ~ran[c]
  BY DEF TurnsAway, Admitted, CallsTyped
<1>2. \A k : Known(k) => Known(k)'
  BY <1>1, KnownStays DEF TurnsAway
<1>3. CallsTyped'
  BY <1>1 DEF TurnsAway, CallsTyped, Active, TypeOK
<1>4. RanStays' /\ PassedChecks'
  BY <1>1 DEF TurnsAway, RanStays, PassedChecks, Verified
<1>5. EntryIsDue'
  BY <1>2 DEF TurnsAway, EntryIsDue
<1>6. RefusalIsDue'
  <2> SUFFICES ASSUME NEW d \in Call, born'[d] = life', Refused(d)'
               PROVE  Known(Key(msg[d]))'
    BY DEF RefusalIsDue
  <2>1. born[d] = life /\ Refused(d) /\ msg'[d] = msg[d]
    BY DEF TurnsAway, Refused, CallsTyped, Active
  <2> QED BY <1>2, <2>1 DEF RefusalIsDue
<1> QED BY <1>3, <1>4, <1>5, <1>6

(* A yes of the store is due to a call that was admitted. *)
LEMMA LookUpEffect ==
  ASSUME NEW c \in Call, NEW m \in Message, NEW k, NEW now, EffectInv, TypeOK',
         LookUp(c, m, k, now)
  PROVE  EffectInv'
<1> USE DEF EffectInv
<1>1. /\ pc[c] = "idle" /\ ~ran[c] /\ pc'[c] = "checking" /\ msg'[c] = m /\ born'[c] = life
      /\ found'[c] = HasSeen(seen, Key(m), now)
      /\ seen' = AfterHasSeen(seen, Key(m), now)
      /\ Verdict(m, clock) = "ok" /\ ~Misaddressed(m)
      /\ UNCHANGED <<life, outcome, ran>>
      /\ \A d \in Call \ {c} :
            /\ pc'[d] = pc[d] /\ msg'[d] = msg[d] /\ born'[d] = born[d] /\ found'[d] = found[d]
  BY DEF LookUp, MayStart, Start, TypeOK, CallsTyped
<1>2. \A d \in Call : (Admitted(d)' <=> Admitted(d)) /\ (Admitted(d) => d # c)
  BY <1>1 DEF Admitted
<1>3. \A key : Known(key) => Known(key)'
  BY <1>1, <1>2, KnownStays
<1>4. CallsTyped'
  BY <1>1 DEF CallsTyped, Active, TypeOK
<1>5. RanStays'
  BY <1>1, <1>2 DEF RanStays
<1>6. PassedChecks'
  <2>1. Verified(m)
    BY <1>1, AcceptedIsVerified
  <2> QED BY <1>1, <1>2, <2>1 DEF PassedChecks
<1>7. EntryIsDue'
  <2> SUFFICES ASSUME NEW key \in Keys, seen'[key] # NoEntry PROVE Known(key)'
    BY DEF EntryIsDue
  <2>1. seen[key] # NoEntry
    BY <1>1 DEF AfterHasSeen, TypeOK
  <2> QED BY <1>3, <2>1 DEF EntryIsDue
<1>8. RefusalIsDue'
  <2> SUFFICES ASSUME NEW d \in Call, born'[d] = life', Refused(d)'
               PROVE  Known(Key(msg[d]))'
    BY DEF RefusalIsDue
  <2>1. CASE d = c
    <3>1. seen[Key(m)] # NoEntry /\ Key(m) \in Keys
      BY <1>1, <2>1 DEF Refused, HasSeen, Keys
    <3> QED BY <1>1, <1>3, <2>1, <3>1 DEF EntryIsDue
  <2>2. CASE d # c
    BY <1>1, <1>3, <2>2 DEF RefusalIsDue, Refused
  <2> QED BY <2>1, <2>2
<1> QED BY <1>4, <1>5, <1>6, <1>7, <1>8

(* Without a store a call is admitted as soon as it is invoked. *)
LEMMA SkipEffect ==
  ASSUME NEW c \in Call, NEW m \in Message, NEW k, EffectInv, TypeOK',
         SkipReplayCheck(c, m, k)
  PROVE  EffectInv'
<1> USE DEF EffectInv
<1>1. /\ pc[c] = "idle" /\ ~ran[c] /\ pc'[c] = "inbound" /\ msg'[c] = m /\ born'[c] = life
      /\ Verdict(m, clock) = "ok" /\ ~Misaddressed(m)
      /\ UNCHANGED <<life, seen, found, outcome, ran>>
      /\ \A d \in Call \ {c} : pc'[d] = pc[d] /\ msg'[d] = msg[d] /\ born'[d] = born[d]
  BY DEF SkipReplayCheck, MayStart, Start, TypeOK, CallsTyped
<1>2. \A d \in Call : (Admitted(d)' <=> Admitted(d) \/ d = c) /\ (Admitted(d) => d # c)
  BY <1>1 DEF Admitted
<1>3. \A key : Known(key) => Known(key)'
  BY <1>1, <1>2, KnownStays
<1>4. CallsTyped'
  BY <1>1 DEF CallsTyped, Active, TypeOK
<1>5. RanStays'
  BY <1>1, <1>2 DEF RanStays
<1>6. PassedChecks'
  <2>1. Verified(m)
    BY <1>1, AcceptedIsVerified
  <2> QED BY <1>1, <1>2, <2>1 DEF PassedChecks
<1>7. EntryIsDue'
  BY <1>1, <1>3 DEF EntryIsDue
<1>8. RefusalIsDue'
  <2> SUFFICES ASSUME NEW d \in Call, born'[d] = life', Refused(d)'
               PROVE  Known(Key(msg[d]))'
    BY DEF RefusalIsDue
  <2>1. d # c
    BY <1>1 DEF Refused
  <2> QED BY <1>1, <1>3, <2>1 DEF RefusalIsDue, Refused
<1> QED BY <1>4, <1>5, <1>6, <1>7, <1>8

(* The entry a call writes is its own, and it is admitted by that step. *)
LEMMA MarkEffect ==
  ASSUME NEW c \in Call, EffectInv, TypeOK', MarkAsSeen(c)
  PROVE  EffectInv'
<1> USE DEF EffectInv
<1>1. /\ pc[c] = "checking" /\ ~found[c] /\ pc'[c] = "inbound" /\ born[c] = life
      /\ msg[c] \in Message /\ ~ran[c]
      /\ seen' = MarkSeen(seen, Key(msg[c]), clock)
      /\ UNCHANGED <<clock, life, msg, found, outcome, born, ran>>
      /\ \A d \in Call \ {c} : pc'[d] = pc[d]
  BY DEF MarkAsSeen, Goto, TypeOK, CallsTyped, Active
<1>2. \A d \in Call : (Admitted(d)' <=> Admitted(d) \/ d = c) /\ (Admitted(d) => d # c)
  BY <1>1 DEF Admitted
<1>3. \A key : Known(key) => Known(key)'
  BY <1>1, <1>2, KnownStays
<1>4. CallsTyped'
  BY <1>1 DEF CallsTyped, Active, TypeOK
<1>5. RanStays' /\ PassedChecks'
  BY <1>1, <1>2 DEF RanStays, PassedChecks, Verified
<1>6. EntryIsDue'
  <2> SUFFICES ASSUME NEW key \in Keys, seen'[key] # NoEntry PROVE Known(key)'
    BY DEF EntryIsDue
  <2>1. CASE key = Key(msg[c])
    BY <1>1, <1>2, <2>1 DEF Known
  <2>2. CASE key # Key(msg[c])
    BY <1>1, <1>3, <2>2 DEF MarkSeen, TypeOK, EntryIsDue
  <2> QED BY <2>1, <2>2
<1>7. RefusalIsDue'
  <2>1. \A d \in Call : Refused(d)' => Refused(d)
    BY <1>1 DEF Refused
  <2> QED BY <1>1, <1>3, <2>1 DEF RefusalIsDue
<1> QED BY <1>4, <1>5, <1>6, <1>7

(* A crash empties the store and leaves no call of the new life. *)
LEMMA CrashEffect ==
  ASSUME EffectInv, TypeOK', Crash
  PROVE  EffectInv'
<1> USE DEF EffectInv, Crash
<1>1. life \in Nat /\ life' = life + 1 /\ \A c \in Call : born'[c] = born[c] /\ born[c] # life'
  BY AgentAssumption, SMT DEF TypeOK, CallsTyped
<1>2. \A c \in Call : /\ pc'[c] \notin Active
                      /\ pc'[c] # "lost" => pc'[c] = pc[c]
                      /\ Admitted(c)' => Admitted(c)
                      /\ pc[c] = "lost" => pc'[c] = "lost"
                      /\ Admitted(c) => Admitted(c)' \/ pc'[c] = "lost"
  BY DEF TypeOK, Active, Admitted
<1>3. CallsTyped'
  BY <1>1, <1>2 DEF CallsTyped, Active, TypeOK
<1>4. RanStays' /\ PassedChecks'
  BY <1>2 DEF RanStays, PassedChecks, Verified, Active
<1>5. EntryIsDue'
  BY DEF EntryIsDue, EmptyStore
<1>6. RefusalIsDue'
  BY <1>1 DEF RefusalIsDue
<1> QED BY <1>3, <1>4, <1>5, <1>6

LEMMA StepEffect == EffectInv /\ [Next]_vars => EffectInv'
<1> SUFFICES ASSUME EffectInv, [Next]_vars PROVE EffectInv'
  OBVIOUS
<1>0. TypeOK'
  BY TypeStep DEF EffectInv
<1>1. CASE UNCHANGED vars \/ Tick
  <2>1. UNCHANGED <<life, seen, pc, msg, found, outcome, born, ran>>
    BY <1>1 DEF vars, Tick
  <2>2. \A c \in Call : (Admitted(c)' <=> Admitted(c)) /\ (Refused(c)' <=> Refused(c))
    BY <2>1 DEF Admitted, Refused
  <2>3. \A k : Known(k) => Known(k)'
    BY <2>1, <2>2, KnownStays
  <2>4. CallsTyped' /\ RanStays' /\ PassedChecks'
    BY <2>1, <2>2 DEF EffectInv, CallsTyped, RanStays, PassedChecks, Verified
  <2>5. EntryIsDue' /\ RefusalIsDue'
    BY <2>1, <2>2, <2>3 DEF EffectInv, EntryIsDue, RefusalIsDue
  <2> QED BY <1>0, <2>4, <2>5 DEF EffectInv
<1>2. CASE Crash
  BY <1>0, <1>2, CrashEffect
<1>3. ASSUME NEW c \in Call, Invoke(c) PROVE EffectInv'
  <2> PICK m \in Message, k \in {"message", "stream"} :
         \/ RejectInvalid(c, m, k)
         \/ RejectMisaddressed(c, m, k)
         \/ SkipReplayCheck(c, m, k)
         \/ \E now \in clock .. (clock + Lag) : now <= MaxClock /\ LookUp(c, m, k, now)
    BY <1>3 DEF Invoke
  <2>1. CASE RejectInvalid(c, m, k) \/ RejectMisaddressed(c, m, k)
    <3>1. TurnsAway(c)
      BY <2>1, InvokeCases DEF EffectInv
    <3>2. ~Refused(c)'
      <4>1. Verdict(m, clock) # "Duplicate"
        BY AgentAssumption, VerdictType
      <4> QED BY <2>1, <4>1 DEF Refused, RejectInvalid, RejectMisaddressed, Throw,
                                EffectInv, TypeOK
    <3> QED BY <1>0, <3>1, <3>2, TurnsAwayEffect
  <2>2. CASE SkipReplayCheck(c, m, k)
    BY <1>0, <2>2, SkipEffect
  <2>3. ASSUME NEW now \in clock .. (clock + Lag), LookUp(c, m, k, now) PROVE EffectInv'
    BY <1>0, <2>3, LookUpEffect
  <2> QED BY <2>1, <2>2, <2>3
<1>4. ASSUME NEW c \in Call, Resume(c) PROVE EffectInv'
  <2>1. CASE RejectDuplicate(c)
    <3>1. TurnsAway(c)
      BY <2>1, <1>0, <1>4, ResumeCases
         DEF EffectInv, RejectDuplicate, MarkAsSeen, Carries
    <3>2. Refused(c)
      BY <2>1 DEF RejectDuplicate, Refused
    <3> QED BY <1>0, <3>1, <3>2, TurnsAwayEffect
  <2>2. CASE MarkAsSeen(c)
    BY <1>0, <2>2, MarkEffect
  <2>3. CASE ~RejectDuplicate(c) /\ ~MarkAsSeen(c)
    <3>1. Carries(c)
      <4>1. pc[c] # "idle" /\ pc[c] # "checking"
        BY <2>3, <1>4 DEF Resume, InboundMiddlewareThrows,
                  MethodNotFound, InvokeHandler, HandlerThrows, StreamEnds, SignResponse,
                  SigningFails, OutboundMiddlewareThrows, Reply, Goto, Fail, Proceed
      <4> QED BY <2>3, <4>1, <1>0, <1>4, ResumeCases DEF EffectInv, TurnsAway
    <3>2. ran[c] => ran'[c]
      BY <2>3, <1>4 DEF Resume, InboundMiddlewareThrows,
                MethodNotFound, InvokeHandler, HandlerThrows, StreamEnds, SignResponse,
                SigningFails, OutboundMiddlewareThrows, Reply, Goto, Fail, Proceed,
                EffectInv, TypeOK
    <3> QED BY <1>0, <3>1, <3>2, CarriesEffect
  <2> QED BY <2>1, <2>2, <2>3
<1> QED BY <1>1, <1>2, <1>3, <1>4 DEF Next

(* In every configuration the store holds only what some call put there,   *)
(* and a call got only as far as its checks let it: the invariant above.   *)
THEOREM EffectInvariance == Spec => []EffectInv
<1>1. Init => EffectInv
  <2> SUFFICES ASSUME Init PROVE EffectInv
    OBVIOUS
  <2>1. TypeOK
    BY AgentAssumption DEF Init, TypeOK, EmptyStore, PC
  <2>2. \A c \in Call : ~Admitted(c) /\ ~Refused(c) /\ ~ran[c]
    BY DEF Init, Admitted, Refused
  <2>3. CallsTyped /\ RanStays /\ PassedChecks
    BY <2>2 DEF Init, CallsTyped, RanStays, PassedChecks, Active
  <2>4. EntryIsDue /\ RefusalIsDue
    BY <2>2 DEF Init, EntryIsDue, RefusalIsDue, EmptyStore
  <2> QED BY <2>1, <2>3, <2>4 DEF EffectInv
<1> QED BY <1>1, StepEffect, PTL DEF Spec

(* What Known says to the caller who was turned away. *)
LEMMA KnownIsAnother ==
  ASSUME CallsTyped, NEW c \in Call, msg[c] \in Message, ~Admitted(c), Known(Key(msg[c]))
  PROVE  \E d \in Call \ {c} : born[d] = life /\ Admitted(d) /\ SameKey(c, d)
<1>1. PICK d \in Call : born[d] = life /\ Admitted(d) /\ Key(msg[d]) = Key(msg[c])
  BY DEF Known
<1>2. msg[d] \in Message /\ d # c
  BY <1>1 DEF CallsTyped, Admitted
<1>3. SameKey(c, d)
  BY <1>1, <1>2, AgentAssumption DEF SameKey, Key
<1> QED BY <1>1, <1>2, <1>3

(* In every configuration: a handler sees only messages for this agent,    *)
(* and requests only with a signature that verified.                       *)
THEOREM HandlerSeesVerifiedHolds == Spec => []HandlerSeesVerified
<1>1. EffectInv => HandlerSeesVerified
  BY DEF EffectInv, PassedChecks, Verified, HandlerSeesVerified
<1> QED BY <1>1, EffectInvariance, PTL

(* In every configuration: who is turned away as a duplicate can be shown  *)
(* another call of this process, of the same sender and id, that was not.  *)
THEOREM DuplicateIsJustifiedHolds == Spec => []DuplicateIsJustified
<1>1. EffectInv => DuplicateIsJustified
  <2> SUFFICES ASSUME EffectInv, NEW c \in Call,
                      born[c] = life, pc[c] = "threw", outcome[c] = "Duplicate"
               PROVE  \E d \in Call \ {c} : born[d] = life /\ Admitted(d) /\ SameKey(c, d)
    BY DEF DuplicateIsJustified
  <2>1. msg[c] \in Message /\ ~Admitted(c) /\ Known(Key(msg[c]))
    BY DEF EffectInv, CallsTyped, Admitted, Failure, RefusalIsDue, Refused
  <2> QED BY <2>1, KnownIsAnother DEF EffectInv
<1> QED BY <1>1, EffectInvariance, PTL

(* In every configuration: a call that was turned away ran no handler, and *)
(* is not the only call its entry in the store is due to.                  *)
THEOREM RejectedHasNoEffectHolds == Spec => []RejectedHasNoEffect
<1>1. EffectInv => RejectedHasNoEffect
  <2> SUFFICES ASSUME EffectInv, NEW c \in Call,
                      pc[c] = "threw", outcome[c] \in Rejection, born[c] = life
               PROVE  /\ ~ran[c]
                      /\ seen[Key(msg[c])] # NoEntry =>
                           \E d \in Call \ {c} : born[d] = life /\ SameKey(c, d)
    BY DEF RejectedHasNoEffect
  <2>1. msg[c] \in Message /\ ~Admitted(c) /\ Key(msg[c]) \in Keys
    BY DEF EffectInv, CallsTyped, Admitted, Rejection, Failure, Keys
  <2>2. ~ran[c]
    BY <2>1 DEF EffectInv, RanStays
  <2>3. seen[Key(msg[c])] # NoEntry => Known(Key(msg[c]))
    BY <2>1 DEF EffectInv, EntryIsDue
  <2> QED BY <2>1, <2>2, <2>3, KnownIsAnother DEF EffectInv
<1> QED BY <1>1, EffectInvariance, PTL

(* In every configuration: two copies never turn each other away.  Before  *)
(* the store has said yes to a call, another of its key was let through;   *)
(* a call it says no to goes on itself.  SomeCopyIsAdmitted rests on it.   *)
RefusalHasWinner ==
  \A c \in Call :
    pc[c] = "checking" /\ found[c] =>
      \E d \in Call \ {c} : born[d] = life /\ Admitted(d) /\ SameKey(c, d)

(* The store says yes only to a call of whose key another was admitted.    *)
THEOREM RefusalHasWinnerHolds == Spec => []RefusalHasWinner
<1>1. EffectInv => RefusalHasWinner
  <2> SUFFICES ASSUME EffectInv, NEW c \in Call, pc[c] = "checking", found[c]
               PROVE  \E d \in Call \ {c} : born[d] = life /\ Admitted(d) /\ SameKey(c, d)
    BY DEF RefusalHasWinner
  <2>1. msg[c] \in Message /\ ~Admitted(c) /\ born[c] = life
    BY DEF EffectInv, CallsTyped, Active, Admitted
  <2>2. Known(Key(msg[c]))
    BY <2>1 DEF EffectInv, RefusalIsDue, Refused
  <2> QED BY <2>1, <2>2, KnownIsAnother DEF EffectInv
<1> QED BY <1>1, EffectInvariance, PTL
=============================================================================
