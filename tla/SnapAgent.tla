------------------------------- MODULE SnapAgent -------------------------------
(***************************************************************************)
(* The inbound pipeline of SnapAgent: processMessage() and processStream() *)
(* over the message validator and the in-memory replay store.              *)
(*                                                                         *)
(* A call is one invocation of the pipeline by a transport.  It runs from  *)
(* one `await` to the next without interruption, so each action below is   *)
(* the code between two awaits.  The pc of a call names the promise it is  *)
(* waiting for:                                                            *)
(*   idle      not invoked yet                                             *)
(*   checking  hasSeen() has answered, the answer is not read yet          *)
(*   inbound   markSeen() and the inbound middleware                       *)
(*   handling  the registered handler (or stream handler)                  *)
(*   outbound  the outbound middleware                                     *)
(*   replied   returned a response, or the event stream ended              *)
(*   threw     rejected with `outcome`                                     *)
(*   lost      the process died before the call settled                    *)
(***************************************************************************)
EXTENDS MessageValidator, ReplayStore

CONSTANTS
  Call,            \* the invocations a behaviour may make
  Message,         \* the messages transports may deliver
  Self,            \* this agent's address
  Handlers,        \* methods with a handler
  StreamHandlers,  \* methods with a stream handler
  NoMessage,       \* msg of a call that is still idle
  StoreLives,      \* the runs of the process that called replayStore()
  Batched,         \* may a call start while another awaits hasSeen()?
  Lag,             \* most ticks validate() takes between its clock and hasSeen's
  MaxClock,        \* bound: the clock stops here
  MaxLife          \* bound: the process starts at most MaxLife times

Rejection == {"InvalidMessage", "TimestampExpired", "RawError",
              "SignatureInvalid", "SignatureMissing", "Duplicate"}
Failure == {"InboundMiddleware", "MethodNotFound", "Handler", "Unserialisable",
            "OutboundMiddleware"}

ASSUME AgentAssumption ==
  /\ \A m \in Message : m.timestamp \in Nat /\ m.sig \in SignatureKinds
  /\ NoMessage \notin Message
  /\ Batched \in BOOLEAN
  /\ Lag \in Nat /\ MaxClock \in Nat /\ MaxLife \in Nat \ {0}
  /\ StoreLives \subseteq 1 .. MaxLife

VARIABLES
  clock,    \* Date.now(), in ticks
  life,     \* which run of the process this is
  seen,     \* the Map of the InMemoryReplayStore
  pc,       \* what each call awaits
  msg,      \* the message each call was given
  kind,     \* "message" (processMessage) or "stream" (processStream)
  found,    \* the answer of hasSeen, until it is read
  outcome,  \* the error a call threw
  born,     \* history: the life a call was invoked in, 0 if it was not
  ran       \* history: the calls whose handler was invoked

vars == <<clock, life, seen, pc, msg, kind, found, outcome, born, ran>>

Keys == {Key(m) : m \in Message}
Active == {"checking", "inbound", "handling", "outbound"}
Settled == {"replied", "threw"}
PC == Active \cup Settled \cup {"idle", "lost"}

(* The agent is set up anew when its process starts, with a store or not.  *)
HasReplayStore == life \in StoreLives

(* The call got past the replay check (or there was none to pass). *)
Admitted(c) ==
  \/ pc[c] \in {"inbound", "handling", "outbound", "replied"}
  \/ pc[c] = "threw" /\ outcome[c] \in Failure

Init ==
  /\ clock = 0
  /\ life = 1
  /\ seen = EmptyStore(Keys)
  /\ pc = [c \in Call |-> "idle"]
  /\ msg = [c \in Call |-> NoMessage]
  /\ kind = [c \in Call |-> "message"]
  /\ found = [c \in Call |-> FALSE]
  /\ outcome = [c \in Call |-> "none"]
  /\ born = [c \in Call |-> 0]
  /\ ran = [c \in Call |-> FALSE]

Tick ==
  /\ clock < MaxClock
  /\ clock' = clock + 1
  /\ UNCHANGED <<life, seen, pc, msg, kind, found, outcome, born, ran>>

-----------------------------------------------------------------------------
(* Up to the first await: validation, destination, start of the replay check. *)

(* Mutant: no check of the destination. *)
Misaddressed_Unchecked(m) == FALSE

Misaddressed(m) == m.to # NoAddressee /\ m.to # Self

(* The event loop runs every callback of a settled promise before it takes *)
(* the next transport event, and the promise of hasSeen() is settled from  *)
(* the start: a call can overtake another one between hasSeen() and        *)
(* markSeen() only if the two were started by the same event (Batched).    *)
MayStart(c) ==
  /\ pc[c] = "idle"
  /\ Batched \/ \A d \in Call : pc[d] # "checking"

Start(c, m, k) ==
  /\ msg' = [msg EXCEPT ![c] = m]
  /\ kind' = [kind EXCEPT ![c] = k]
  /\ born' = [born EXCEPT ![c] = life]

Throw(c, error) ==
  /\ pc' = [pc EXCEPT ![c] = "threw"]
  /\ outcome' = [outcome EXCEPT ![c] = error]

Goto(c, from, to) ==
  /\ pc[c] = from
  /\ pc' = [pc EXCEPT ![c] = to]

RejectInvalid(c, m, k) ==
  /\ MayStart(c)
  /\ Verdict(m, clock) # "ok"
  /\ Start(c, m, k)
  /\ Throw(c, Verdict(m, clock))
  /\ UNCHANGED <<clock, life, seen, found, ran>>

(* Mutant: the message is marked before its destination is checked. *)
RejectMisaddressed_AfterMark(c, m, k) ==
  /\ MayStart(c)
  /\ Verdict(m, clock) = "ok"
  /\ Misaddressed(m)
  /\ Start(c, m, k)
  /\ Throw(c, "InvalidMessage")
  /\ seen' = MarkSeen(seen, Key(m), clock)
  /\ UNCHANGED <<clock, life, found, ran>>

RejectMisaddressed(c, m, k) ==
  /\ MayStart(c)
  /\ Verdict(m, clock) = "ok"
  /\ Misaddressed(m)
  /\ Start(c, m, k)
  /\ Throw(c, "InvalidMessage")
  /\ UNCHANGED <<clock, life, seen, found, ran>>

(* Mutant: the message is marked first and looked up afterwards. *)
LookUp_MarksFirst(c, m, k, now) ==
  /\ MayStart(c)
  /\ Verdict(m, clock) = "ok"
  /\ ~Misaddressed(m)
  /\ HasReplayStore
  /\ Start(c, m, k)
  /\ clock' = now
  /\ seen' = MarkSeen(seen, Key(m), now)
  /\ found' = [found EXCEPT ![c] = HasSeen(seen', Key(m), now)]
  /\ pc' = [pc EXCEPT ![c] = "checking"]
  /\ UNCHANGED <<life, outcome, ran>>

(* hasSeen() runs to its end here; it reads the clock again, after the     *)
(* signature has been verified.                                            *)
LookUp(c, m, k, now) ==
  /\ MayStart(c)
  /\ Verdict(m, clock) = "ok"
  /\ ~Misaddressed(m)
  /\ HasReplayStore
  /\ Start(c, m, k)
  /\ clock' = now
  /\ found' = [found EXCEPT ![c] = HasSeen(seen, Key(m), now)]
  /\ seen' = AfterHasSeen(seen, Key(m), now)
  /\ pc' = [pc EXCEPT ![c] = "checking"]
  /\ UNCHANGED <<life, outcome, ran>>

SkipReplayCheck(c, m, k) ==
  /\ MayStart(c)
  /\ Verdict(m, clock) = "ok"
  /\ ~Misaddressed(m)
  /\ ~HasReplayStore
  /\ Start(c, m, k)
  /\ pc' = [pc EXCEPT ![c] = "inbound"]
  /\ UNCHANGED <<clock, life, seen, found, outcome, ran>>

-----------------------------------------------------------------------------
(* After `await hasSeen`. *)

(* Mutant: a duplicate is dropped without an answer. *)
RejectDuplicate_Silent(c) == FALSE

RejectDuplicate(c) ==
  /\ pc[c] = "checking"
  /\ found[c]
  /\ Throw(c, "Duplicate")
  /\ UNCHANGED <<clock, life, seen, msg, kind, found, born, ran>>

(* Mutant: the entry gets the sender's timestamp, not the time of marking. *)
MarkAsSeen_SenderTime(c) ==
  /\ Goto(c, "checking", "inbound")
  /\ ~found[c]
  /\ seen' = MarkSeen(seen, Key(msg[c]), msg[c].timestamp)
  /\ UNCHANGED <<clock, life, msg, kind, found, outcome, born, ran>>

MarkAsSeen(c) ==
  /\ Goto(c, "checking", "inbound")
  /\ ~found[c]
  /\ seen' = MarkSeen(seen, Key(msg[c]), clock)
  /\ UNCHANGED <<clock, life, msg, kind, found, outcome, born, ran>>

(* After `await runMiddleware` (inbound): route, and invoke the handler. *)

HandlerExists(c) ==
  msg[c].method \in IF kind[c] = "message" THEN Handlers ELSE StreamHandlers

Fail(c, from, error) ==
  /\ pc[c] = from
  /\ Throw(c, error)
  /\ UNCHANGED <<clock, life, seen, msg, kind, found, born, ran>>

InboundMiddlewareThrows(c) == Fail(c, "inbound", "InboundMiddleware")

MethodNotFound(c) ==
  /\ Fail(c, "inbound", "MethodNotFound")
  /\ ~HandlerExists(c)

InvokeHandler(c) ==
  /\ Goto(c, "inbound", "handling")
  /\ HandlerExists(c)
  /\ ran' = [ran EXCEPT ![c] = TRUE]
  /\ UNCHANGED <<clock, life, seen, msg, kind, found, outcome, born>>

(* After `await handler`, and after `await runMiddleware` (outbound).  A   *)
(* stream has no outbound middleware; its events are signed one by one.    *)

Proceed(c, from, to) ==
  /\ Goto(c, from, to)
  /\ UNCHANGED <<clock, life, seen, msg, kind, found, outcome, born, ran>>

HandlerThrows(c) == Fail(c, "handling", "Handler")

StreamEnds(c) == kind[c] = "stream" /\ Proceed(c, "handling", "replied")

SignResponse(c) == kind[c] = "message" /\ Proceed(c, "handling", "outbound")

(* A handler that returns undefined: the payload cannot be canonicalised. *)
SigningFails(c) == kind[c] = "message" /\ Fail(c, "handling", "Unserialisable")

OutboundMiddlewareThrows(c) == Fail(c, "outbound", "OutboundMiddleware")

Reply(c) == Proceed(c, "outbound", "replied")

-----------------------------------------------------------------------------
(* The process dies; the next one starts with an empty in-memory store. *)
Crash ==
  /\ life < MaxLife
  /\ life' = life + 1
  /\ seen' = EmptyStore(Keys)
  /\ pc' = [c \in Call |-> IF pc[c] \in Active THEN "lost" ELSE pc[c]]
  /\ UNCHANGED <<clock, msg, kind, found, outcome, born, ran>>

Invoke(c) ==
  \E m \in Message, k \in {"message", "stream"} :
    \/ RejectInvalid(c, m, k)
    \/ RejectMisaddressed(c, m, k)
    \/ SkipReplayCheck(c, m, k)
    \/ \E now \in clock .. (clock + Lag) : now <= MaxClock /\ LookUp(c, m, k, now)

Resume(c) ==
  \/ RejectDuplicate(c) \/ MarkAsSeen(c)
  \/ InboundMiddlewareThrows(c) \/ MethodNotFound(c) \/ InvokeHandler(c)
  \/ HandlerThrows(c) \/ StreamEnds(c) \/ SignResponse(c) \/ SigningFails(c)
  \/ OutboundMiddlewareThrows(c) \/ Reply(c)

Next == Tick \/ Crash \/ \E c \in Call : Invoke(c) \/ Resume(c)

Spec == Init /\ [][Next]_vars

(* Every promise a call awaits settles: the store's by construction, those *)
(* of middleware and handlers because the application's code ends.         *)
FairSpec == Spec /\ \A c \in Call : WF_vars(Resume(c))

-----------------------------------------------------------------------------
(* Properties *)

(* The types of the variables. *)
TypeOK ==
  /\ clock \in 0 .. MaxClock
  /\ life \in 1 .. MaxLife
  /\ seen \in [Keys -> 0 .. MaxClock \cup {NoEntry}]
  /\ pc \in [Call -> PC]
  /\ msg \in [Call -> Message \cup {NoMessage}]
  /\ kind \in [Call -> {"message", "stream"}]
  /\ found \in [Call -> BOOLEAN]
  /\ outcome \in [Call -> Rejection \cup Failure \cup {"none"}]
  /\ born \in [Call -> 0 .. MaxLife]
  /\ ran \in [Call -> BOOLEAN]

(* Two calls were given messages with the same sender and id. *)
SameKey(c, d) ==
  /\ NoMessage \notin {msg[c], msg[d]}
  /\ msg[c].from = msg[d].from /\ msg[c].id = msg[d].id

(* The configuration that makes the replay check sound: a store, calls not *)
(* started in the same turn of the event loop, and entries that outlive    *)
(* the acceptance window.  With Drift = 60, 1000 ticks per second and      *)
(* Lag = 0 the last asks for a maxAge of 0, or of at least 120999 ms.      *)
Guarded ==
  /\ StoreLives = 1 .. MaxLife
  /\ ~Batched
  /\ MaxAge = 0 \/ MaxAge >= (2 * Drift + 1) * TicksPerSecond - 1 + Lag

(* Delivered twice to one process, a message reaches a handler at most     *)
(* once: what the replay check of processMessage is for.                   *)
HandledAtMostOnce ==
  \A c, d \in Call :
    c # d /\ msg[c] = msg[d] /\ born[c] = born[d] => ~(ran[c] /\ ran[d])

(* As long as validate() would let a copy of an admitted message in, the   *)
(* store answers that it has seen it: entries outlive the messages.        *)
StoreRemembers ==
  HasReplayStore =>
    \A c \in Call :
      born[c] = life /\ Admitted(c) /\ WithinDrift(msg[c], clock)
        => HasSeen(seen, Key(msg[c]), clock)

(* A call is turned away as a duplicate only if another call of the same   *)
(* process, with the same sender and id, got past the replay check.        *)
DuplicateIsJustified ==
  \A c \in Call :
    born[c] = life /\ pc[c] = "threw" /\ outcome[c] = "Duplicate" =>
      \E d \in Call \ {c} :
        born[d] = life /\ Admitted(d) /\ SameKey(c, d)

(* A handler sees only messages for this agent, and requests only when     *)
(* their signature verified.                                               *)
HandlerSeesVerified ==
  \A c \in Call :
    ran[c] => /\ msg[c].to \in {Self, NoAddressee}
              /\ msg[c].sig \in {"good", "absent"}
              /\ msg[c].type = "request" => msg[c].sig = "good"

(* A call that was turned away never had an effect: no handler ran for it, *)
(* and no entry of the store is due to it alone.                           *)
RejectedHasNoEffect ==
  \A c \in Call :
    pc[c] = "threw" /\ outcome[c] \in Rejection /\ born[c] = life =>
      /\ ~ran[c]
      /\ seen[Key(msg[c])] # NoEntry =>
           \E d \in Call \ {c} : born[d] = life /\ SameKey(c, d)

(* Every invocation settles, unless the process dies under it. *)
EveryCallSettles ==
  \A c \in Call : pc[c] \in Active ~> pc[c] \in Settled \cup {"lost"}

(* The replay check never turns all the copies of a message away: once one *)
(* is being checked, one of its key is admitted or the process dies.       *)
SomeCopyIsAdmitted ==
  \A c \in Call :
    pc[c] = "checking" ~>
      \/ pc[c] = "lost"
      \/ \E d \in Call : Admitted(d) /\ SameKey(c, d)

(* The abstract view: which calls of this process were accepted, which     *)
(* executed, and with which message.  A process without a store promises   *)
(* nothing, and shows nothing.                                             *)
Here == {c \in Call : HasReplayStore /\ born[c] = life}
Accepted == {<<c, msg[c]>> : c \in {d \in Here : Admitted(d)}}
Executed == {<<c, msg[c]>> : c \in {d \in Here : ran[d]}}

Promise == INSTANCE AtMostOnce
             WITH Delivery <- Call, accepted <- Accepted, executed <- Executed

(* The pipeline implements the promise of AtMostOnce. *)
KeepsPromise == Promise!Spec
=============================================================================
