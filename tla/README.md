# Verification of snap-protocol (TypeScript implementation)

TLA+ specifications of the run-time behaviour of `src/implementations/typescript`, TLC
configurations that model-check them on small instances, and TLAPS proofs of every safety
property the runs check. Paths below are relative to `src/implementations/typescript/src/`
unless they start with `docs/`, `tests/` or a file name in capitals.

## The system

A SNAP agent is one `SnapAgent` with a list of transports. It answers signed messages
and sends its own; there is no other server.

| Component | State | Operations | Correct when |
|---|---|---|---|
| Inbound pipeline, `agent/SnapAgent.ts:115-213` | none of its own; each call is suspended at one of its `await`s | `processMessage`, `processStream` | no message is handled twice; a handler sees only verified messages for this agent; a rejected one leaves no trace; every call settles |
| Validator, `messaging/MessageValidator.ts` | none | `validate` | structure, ±60 s, signature; the verdict is a function of message and clock |
| Replay store, `stores/InMemoryReplayStore.ts` | a `Map` key → time, in memory | `hasSeen`, `markSeen` | remembers a message as long as `validate` would accept it |
| Middleware, `SnapAgent.ts:343-355` | `index`, shared by all frames | `runMiddleware` | the handler comes after the chain; the chain settles |
| Outbound side, `SnapAgent.ts:218-277` | position in the transport list | `send`, `sendStream` | one request is handled once, whatever transports fail |
| HTTP, `transport/HttpTransport.ts` | `server`, handlers; a timer per request | `send`, `sendStream`, `listen`, `listenStream`, `close`, `handleRequest` | success means an answer; `send` and `close` settle; the events of a stream survive any cut into chunks |
| WebSocket, `transport/WebSocketTransport.ts` | `wss`, `httpServer`, `heartbeatTimer`; per stream a queue, `done`, `error`, `resolveWait` | the same operations, and the heartbeat | events in order, no lost wake-up; no server lost; exactly the silent clients are cut |
| Nostr, `transport/NostrTransport.ts` | relay pool, `subscriptionCloser`, key cache | `send`, `listen`, `publishToRelays`, `close`, discovery, offline inbox | a request takes no other request's answer and does not miss its own; a persisted request is not lost; a published card is found; a closed listener is silent |
| Keys and signatures, `crypto/`, `messaging/MessageBuilder.ts`, `MessageSigner.ts` | none | address, tweak, build, sign, verify; the signed card of `HttpTransport` | what an agent signs is accepted, and nothing else from it |
| Life cycle, `SnapAgent.start`, `stop` | the transports' own | a loop over the transports | each transport opens and closes once |
| Task store, plugin registry, `AgentCardBuilder` | small tables | get, set | sequential |

Interactions. `start()` hands `processMessage` and `processStream` to every transport, which
call them once per incoming message (a callback that may run any number of times
concurrently, interleaved at the awaits). The pipeline calls the store, the
middlewares and the application's handlers. `send()` builds and signs one message and
gives it to the transports in turn. Between two agents there is only the network.

What is hard. Everything runs on one event loop, so the interleavings are those of
awaits and callbacks; state is read before an await and used after it (the replay
check, `close()`); timers race answers; consumers of a stream may be slow or leave;
connections break between any two frames; the store is lost at a restart; relays refuse,
delay and duplicate; clocks of two agents differ; anyone may publish to a relay; a Nostr receiver is away while requests are stored,
and asks for them by the second they were made in, not the second they arrived; half of all private keys must be negated
before they are tweaked. `PROJECT.json` lists the hazards, each
at its line, with the properties that would catch it going wrong.

## The modules

| Module | Models | State and actions |
|---|---|---|
| `MessageValidator` | `validate()` | `Verdict(m, now)`, with the clock floored to seconds as in the code. A signature field is one of five kinds, which are what the verdict tells apart |
| `ReplayStore` | `InMemoryReplayStore` | operators `HasSeen`, `AfterHasSeen` (an expired entry is deleted by the look-up), `MarkSeen` on a function key → tick |
| `SnapAgent` | both pipelines | one action per piece of code between two awaits; `pc` names the promise a call waits for. `LookUp` is everything up to `await hasSeen`, `MarkAsSeen` what follows it; `SkipReplayCheck` the path without a store; one action per way to fail; `Crash` restarts the process with an empty store |
| `AtMostOnce` | the promise, abstractly | deliveries are accepted, at most one per message, and executed, at most once; a restart forgets |
| `MiddlewareChain` | `runMiddleware` | the part of a specification that others extend: `ChainInit`, `ChainNext` on the variables `chain`. Frames of middlewares over the shared `index`; a middleware is any program that calls `next()` up to `MaxCalls` times, awaits it or not, returns or throws |
| `HttpTransport` | clients and servers | client, connection and handler side of each exchange; servers that are opened, closed and opened again. A header leaves with the first `write()`, which decides when `fetch` resolves. Requests are messages, streams, the card of `discoverViaHttp`, and POSTs that are none of these |
| `EventStream` | `parseSSE` and the writes it reads | the server writes events and ends the body; the client reads chunks that end at any byte, decodes them, keeping half a character, splits the buffer at blank lines and yields the events of the whole parts. `EventsSurviveChunks` compares the events yielded with those written, and `CountsWholeEvents` is the refinement of `HttpTransport`, whose client only counts events |
| `WebSocketTransport` | one exchange | queue, `done`, `error`, wake-up and timer of the client; the frames under way; the message handler of the server |
| `WebSocketServer` | `ensureServer`, `close`, heartbeat | the three fields of the transport, both awaits of each `close()`, clients with `isAlive` and pongs. The server does not tell the answer to a ping from a pong it did not ask for, so a client sends pongs as it likes (`SendPong`) and pings are not modelled |
| `NostrTransport` | `send`, `listen` over relays | subscriptions, acknowledgements and copies per relay; the order subscription-then-publication per connection; `since` filters as time distances; events of other agents that name a request, readable or not, with any `from` and type, which `Receive` takes or passes over as `onevent` does |
| `Keys` | `KeyManager` | a symbolic group: a point is its scalar, an x-only key the pair of scalars `{k, Order - k}` that share the coordinate. Public keys, the tweak of public and of private keys, addresses |
| `Envelope` | `MessageBuilder`, `Signer`, `MessageSigner`, `verifySignature`, the signed card | the text that is signed as a sequence of characters, with its separators; signing and verification; `AcceptedFrom` and `Binds` say that both fit |
| `Mailbox` | `publishAgentCard`, `discoverAgents`, `send` with and without `persist`, `listen`, `fetchOfflineMessages`, `close` | what each relay keeps and acknowledged, the key cache, every subscription per relay with its `since`, on its way (`Attach`) or open until the connection drops (`Drop`), the one `subscriptionCloser` knows of, events under way, a clock in seconds. Extends `Envelope`, so that the identity check compares real addresses |
| `Exchange` | `send()` against a pipeline | the chain of outbound middlewares, then attempts over the transports that are refused, lost, late, answered; the receiver's store; restarts. Extends `MiddlewareChain`; it abstracts from `SnapAgent` and from the transports |
| `SnapAgentProofs`, `MiddlewareChainProofs`, `ExchangeProofs`, `HttpTransportProofs`, `WebSocketTransportProofs`, `WebSocketServerProofs`, `NostrTransportProofs`, `MailboxProofs` | | the theorems about the module in the name; those about `Keys` and `Envelope` are the first part of `MailboxProofs` |
| `MCSnapAgent`, `MCNostrTransport`, `MCHttpTransport`, `MCMailbox` | | messages, texts, the group, symmetries for TLC |

`SnapAgent` is composed of `MessageValidator` and `ReplayStore`, `Mailbox` of `Envelope` and `Keys`; `SnapAgent` and `Exchange`
each instantiate `AtMostOnce` with a refinement mapping, `EventStream` instantiates `HttpTransport`. Operators named `X_Something` and
headed "Mutant" are faulty variants of `X`: with `X` replaced by one, TLC refutes the property
that `PROJECT.json` names beside it. No specification uses them.

Modelling decisions worth knowing:

- `hasSeen()` of the in-memory store settles at once, so no event can come between it and
  `markSeen()`; only calls started by the *same* event can. The constant `Batched`
  says whether that happens. The receiver of `ws` (8.19, `allowSynchronousEvents`) emits all frames of one
  chunk in one turn, and a store with real I/O has the same effect, so `Batched = TRUE` is a configuration the code can be in.
- `validate()` and `hasSeen()` read the clock separately. `Lag` bounds the ticks between.
- The event loop runs a woken generator before it takes another timer or socket event
  (`Turn` in `WebSocketTransport`); frames of one chunk are the exception.
- The stack under `fetch` gives up on a silent connection (`StackGivesUp`); without it a
  stream handler that throws would keep `close()` waiting for ever when the consumer has left.
- In `Mailbox` the application is part of the protocol, since the library leaves it the choice of `since`. It goes by
  `docs/transport.md:310`: it takes the second of `close()` for the one it was last on line, and later asks for what was stored since then, or for
  `Overlap` seconds more. The documents have no overlap (`Mailbox_documented`, finding 4). `fetchOfflineMessages` returns one list
  and does not tell which relays it is from, nor does `subscribeMany` tell that a connection was lost, so the application knows neither. What relays did is history: `answered`, a relay that
  answered a query `Delay` after `listen()` (an event made before `listen()` and stored after an earlier query is seen by neither), and `gaps`, a relay that in some session
  did not answer, or lost the subscription. `NothingLost` is about the others, relay by relay. Events that take longer than `Delay` are recorded in `slow` and not promised.
- A relay that drops a connection stays unsubscribed until the next `listen()`: `listen()` passes no `onclose`, and the pool does not connect again.
- In `NostrTransport` the content of an event is what `onevent` tells apart: does it decrypt and parse, whom does `from` name, is the type `response`. `send()`
  compares `from` with the author of the event and not with the recipient, and leaves the message's own signature alone. So another agent's answer in its own name resolves the call, and
  `OwnAnswer` is stated for what is left: the answer names this request, and if it says it is from the recipient, the recipient gave it.
- A relay keeps the latest version of a card, of two of one second either (NIP-01 lets the lower id win, and an id is a hash).
- A refusal by a relay may be an acknowledgement that came too late: an event that was refused may be stored.

## The runs

| Run | Shows | Bounds, and why they suffice |
|---|---|---|
| `SnapAgent_safety` | `HandledAtMostOnce`, `StoreRemembers`, `DuplicateIsJustified` | three calls, three messages (same id twice with different timestamps, another id); `MaxAge` = 5 is the least sound value for the scaled window (`Drift` 1 s of 2 ticks); the clock runs past every window, so entries expire and are deleted |
| `SnapAgent_crash` | `HandlerSeesVerified`, `RejectedHasNoEffect`, `EveryCallSettles`, `SomeCopyIsAdmitted`, `KeepsPromise` (refinement) | ten messages, one per verdict and route; two calls, both kinds; three lives, the second without a replay store, which `HandlerSeesVerified` must not need; clock lag 1 |
| `SnapAgent_batched` | violates `HandledAtMostOnce`: finding 1 | two calls, one message |
| `HttpTransport` | `DoneMeansAnswered`, `CloseDrains`, `SendSettles`, `CloseSettles`; `EventsSurviveChunks`, `CountsWholeEvents` (refinement) | two exchanges of any kind, two servers in succession, one event per stream; for the framing, bodies of up to three events with characters of one and three bytes, in chunks that end at any byte. The two parts share no variable, so each is explored with the other at its start |
| `WebSocketTransport` | `InOrder`, `NothingLeftBehind`, `NoLostWakeup`, `Settles` | one exchange, four frames, every order of frames, timer, close, break, consumer |
| `WebSocketTransport_slow` | violates `ResponseCompletes`: finding 2 | two frames |
| `WebSocketServer` | `CloseStops`, `NoServerLeaks`, `SilentIsCut`, `CutOnlySilent`, `CloseSettles`; its `TypeOK` says too that the heartbeat goes with the server in use | two servers, two calls of `close()`, two clients with two pongs under way each, three intervals (a client is cut at the second after its last sign of life) |
| `NostrTransport` | `OwnAnswer`, `FastAnswerIsHeard`, `ListenerCatchesUp` | two requests, two relays, one other agent that publishes any event for them, a skew equal to the lookback, the most the code allows for |
| `Exchange` | `HandlerAfterChain`, `CompleteChain`, `ChainSettles`; `StreamOnce`, `KeepsPromise` (refinement: the request is handled once) | three middlewares, two calls of `next()` each: enough for a middleware to start its successor's successor; three transports, two of them streaming, one restart |
| `Mailbox` | `NothingLost`, `FreshCardIsFound`, `StopSilences`, `SignedIsAccepted`, `AcceptedIsSigned` | two relays; three cards, requests and calls of `listen()` together; seconds 0 to 2 with `Delay` and `Overlap` 1: enough for a request made before `listen()` to be stored after it, for one to be lost at `close()` and fetched on return, for a relay to miss a session, and for two versions of a card to overtake each other; a group of order 7, where the sender's key must be negated and the receiver's not; messages whose ids end in an address |
| `Mailbox_testnet` | violates `NothingLost`: finding 3 | the same on the test network |
| `Mailbox_documented` | violates `NothingLost`: finding 4 | the same with `Overlap` 0, as documented |

Each passing run also checks its module's `TypeOK` where the table of `PROJECT.json` says
so. Deadlock is not checked: every one of these systems may come to rest, when all
calls have settled or a bound is reached.

Fairness. Safety runs have none; `Mailbox` has none, for the application owes it nothing. `SnapAgent`: each call goes on (the store's promises
settle by construction, handlers and middlewares because application code is assumed to
end). `Exchange`: a frame of the chain that can resume, return or throw eventually does, though it need not call
`next()`; nothing is assumed of transports and receiver. `HttpTransport`: timers fire, handlers end, the HTTP stack gives up on silent
connections; nothing is assumed of network or consumer. `WebSocketTransport`: timers fire, frames
and close events arrive, the consumer asks for the next event or leaves; nothing is assumed of
the server. `WebSocketServer`: callbacks of `close()` come, and a client that was asked to
leave does (`ws` drops it after its close timeout). All weak: nothing in the code
needs more.

## What is proved

`SnapAgentProofs`, for every set of calls and messages, every clock bound, number of
restarts and value of the drift, from the assumptions `AgentAssumption`, `ValidatorAssumption` and `StoreAssumption`:

- `TypeCorrect`: `Spec => []TypeOK`, in every configuration.
- `MemoryInvariance`, `StoreRemembersHolds`, `LateCopyIsRefusedHolds`: when entries are `Lasting`, that is, old enough to outlive the
  window, the store remembers an admitted message while it is acceptable, and the look-up of a copy that comes after another was admitted
  is answered with yes. Neither needs a store in every life, nor that calls of one turn are excluded.
- `Invariance`, `AtMostOnceHolds`: in a `Guarded` configuration `IInv` and `HandledAtMostOnce` hold always.
- `PromiseKept`: in a `Guarded` configuration the pipeline implements `AtMostOnce`.
- `HandlerSeesVerifiedHolds`, `DuplicateIsJustifiedHolds`, `RejectedHasNoEffectHolds`, `RefusalHasWinnerHolds` (two copies never turn each other
  away), from the invariant `EffectInv`: in every configuration, with a store or without, with entries of any age, with calls of one turn and with restarts.

`MiddlewareChainProofs`, for a chain of any length and middlewares that call `next()` any number of times:
`TypeCorrect`, `HandlerAfterChainHolds`, `CompleteChainHolds`, and `PendingGoesOnHolds`: while runMiddleware is pending, some middleware can go on.

`ExchangeProofs`, for any number of transports, of restarts and any choice of streaming ones:

- `StreamOnceHolds`: a stream is taken from one transport only.
- `PromiseKept`: with a replay store, `Exchange` implements `AtMostOnce`.

`MailboxProofs`, first part, for a group of any order, any hash function of keys, and any encodings that are injective
(`KeysAssumption`, `EnvelopeAssumption`):

- `TweaksAgree`: `getPublicKey(tweakPrivateKey(d))` is `taprootTweak(getPublicKey(d))`; `AddressHoldsKey`: an address decodes to it.
- `RoundTrip`: what an agent signs, message or card, is accepted.
- `InputDetermines`: the signature input determines the seven fields it is made of; `NothingElseVerifies`: a signature
  verifies for no other message, and only with the signer's address.

`MailboxProofs`, second part, for any relays, keys and bounds:

- `TypeCorrect`, `StopSilencesHolds`, `FreshCardIsFoundHolds`.
- `NothingLostHolds`, on the main network and for any `Overlap` that is at least `Delay`: persisted requests that were not slow are not lost at a relay that served every
  session so far. Nothing is proved of a relay that missed one, nor of the documented query.
- `SignedIsAcceptedHolds`, `AcceptedIsSignedHolds`: the two facts about signatures, for the agents of the mailbox.

`HttpTransportProofs`, first part, for any number of exchanges, servers and events, with or without a card (`HttpAssumption`):

- `TypeCorrect`, `DoneMeansAnsweredHolds`, `CloseDrainsHolds`.
- `TimerFitsHolds`: the abort timer runs exactly while `send()` waits or a stream is read. `HeldIsWatchedHolds`: what `close()` waits for has a client
  side that a timer or the HTTP stack ends.

Second part, for bodies of any number of events, documents of any length over any characters of any width, and chunks that end anywhere (`StreamAssumption`: what
`JSON.stringify` makes holds no line break, is not empty and does not begin with `data: `):
`EventsSurviveChunksHolds`, and `CountsWholeEventsHolds`, the refinement of the transport's client.

`WebSocketTransportProofs`, for streams of any length, with or without a stream handler (`WebSocketAssumption`):
`TypeCorrect`, `InOrderHolds`, `NothingLeftBehindHolds`, `NoLostWakeupHolds`, and `WaitsAreTimedHolds`: whoever waits has a timer running or is woken.

`WebSocketServerProofs`, for any number of servers, `close()` calls, clients and intervals (`ServerAssumption`):

- `TypeCorrect` (which holds that the heartbeat runs for the server in use and no other), `SilentIsCutHolds`, `CutOnlySilentHolds` (an action property): in every configuration, a `listen()` during `close()` included.
- `LeaksAreDeafHolds`: in every configuration too. A server that is up and lost is one that some `close()` was called on, and takes no clients.
- `CloseStopsHolds`, `NoServerLeaksHolds`, `AskedFirstHolds`, `PendingCanEndHolds`: for `~MayOverlap`, that is, when nobody calls `listen()` while a
  `close()` is pending. Otherwise all four are false, as described below.

`NostrTransportProofs`, for any relays, requests, other agents and calls of `listen()`, any lookback and any clock skew (`NostrAssumption`):
`TypeCorrect`, `OwnAnswerHolds`, `FastAnswerIsHeardHolds`, `ListenerCatchesUpHolds`.

Each of these modules proves its `Invariance` first: an inductive invariant that TLC has also checked, on the constants of the
component's run, before it was proved. Every numeric bound of a model (`MaxFrames`, `MaxCalls`, `MaxPongs`, `MaxBeats`, ...) is a
constant, so the theorems hold for each value of it.

### The pipeline

`Guarded` is the condition under which the replay check is sound: a store is configured,
no two calls are started in one turn, and entries live for ever or for at least
`(2 * Drift + 1) * TicksPerSecond - 1 + Lag` ticks. With the code's numbers that is
120 999 ms plus the time between the two clock readings; the default of one hour is far above.

The argument. `HandledAtMostOnce` speaks of handlers, but the decision falls at the look-up, so it is not inductive.
`MemoryInv` is the half that needs only that entries are `Lasting`: a call's position tells what has happened to it (`CallsTyped`); entries lie
in the past (`SeenInPast`); in a life with a store, a message that was admitted is remembered by an entry no older than the opening of its
window, or its window has closed (`AdmittedIsKnown`); a call that waits for the answer of `hasSeen` holds a message whose window has opened
(`CheckedIsOpen`). The arithmetic is in `Window` and `FreshInWindow`: a message is accepted during `(2 * Drift + 1)` whole seconds, because the
clock is floored. So an entry that has expired belongs to a message that is no longer acceptable (`ExpiredIsStale`), and the look-up of an acceptable copy finds one
(`CopyIsSeen`). With one tick less of `MaxAge`, TLC refutes `StoreRemembers` on the constants of the run, so the bound cannot be lowered.

`IInv` adds what needs the rest of `Guarded`: only an admitted call has run (`RanWasAdmitted`), a call that waits for the answer of `hasSeen` is the only one
(`OneChecker`), and if the answer is no, no other call has admitted its message (`CheckedIsNew`). Then at most one call per message is admitted
(`AdmittedOnce`). Calls of one turn break exactly `OneChecker`: what remains without it is `LateCopyIsRefused`.
Steps after `markSeen` are treated together (`CarriesMemory`, `CarriesKeeps`), and so are the rejections (`TurnsAwayMemory`, `TurnsAwayKeeps`).

What does not depend on `Guarded` needs another invariant, `EffectInv`. A call past the checks holds a message that passed them
(`PassedChecks`), only an admitted call has run a handler (`RanStays`), every entry of the store is due to a call of this process that was
admitted (`EntryIsDue`), and so is every refusal as a duplicate, even after the entry has expired (`RefusalIsDue`). An admitted call of this process never
becomes one that was not (`KnownStays`), and a call that was refused is not admitted, hence another one is (`KnownIsAnother`).

### The middleware chain

`index` alone does not tell who still runs. While every `next()` is awaited the running frames are a stack (`Stacked`): each but the last
waits for a running frame, and none runs in between. So a frame that may go on is the last (`TopActs`), the first middleware is the last to end (`FirstIsLast`),
and runMiddleware settles with it (`FirstDecides`). A single `next()` that is not awaited makes `AllAwaited` false, and nothing is promised then.
`CompleteChain` follows from `CallStarts`, that a frame which called `next()` is not the last that was started unless the chain is at its end; the proof uses
neither that the calls were awaited nor that none threw.

`PendingGoesOn` holds whether calls are awaited or not: a middleware waits for one that was started after it (`AwaitsLater`), so the last one that runs
waits for nobody that still runs (`LastGoesOn`; that there is a last one is `LastOf`, from the well-foundedness of the natural numbers), and the first runs until
the chain is decided (`FirstRuns`).

### The outbound side

`IInv` of `ExchangeProofs` adds to the types that the transports behind the one in use are untouched (`Untouched`), that what the receiver
has accepted or executed follows from how far each attempt has come (`Recorded`), that the store knows the request as soon as a copy
was accepted in this life (`StoreKnows`), and that at most one attempt of a stream was ever made (`OneStream`). The refinement is by steps: an
accepted copy is the first of this life by `StoreKnows`, everything else the promise allows or does not see.

### HTTP

`IInv` says what a header holds at every stage of `handleRequest()` (`StatusFits`), and that a client reads a body only after a header that promised one
(`BodyHasHeader`), so that a success has a `200` behind it that nothing can change any more. `CloseDrains` rests on two facts: who
waits for an answer has a connection (`WaitingIsConnected`), so `server.close()` waited for it; and the server in use is open (`InUseIsOpen`), so
no request gets in after `close()`. The proof has one lemma for all uses of `Respond` (`RespondKeeps`) and one for all ways in which a client ends (`EndKeeps`). `WatchInv`, about the timers, is inductive together with `IInv`.

For the event stream, `StreamInv` says that there are places `ends` at which the frames of the body end: between two of them is the frame of one event (`Framed`), and the parser's buffer holds
what has arrived since the end of the last event it yielded (`Buffered`). A blank line is found at the end of a frame and nowhere else, since documents hold no line break, so the parts
of the buffer are the frames that have arrived whole. No definition of the module is recursive: splitting is stated by the places of the blank lines, which is what lets the
proof do without induction over texts. The UTF-8 decoder is the platform's and stands in the model by what it does: it withholds the bytes of a character that is not complete.

### WebSocket

For the order of frames `IInv` follows each frame: what the consumer has, what is queued and what is under way is, in this order, what was sent, but for an end that was lost with
the connection, and nothing is lost while it is open (`Flow`). Steps differ only in how they move a frame: nothing moves, one moves on, the wire is cut, one is added
(`FlowRests`, `FlowMoves`, `FlowBreaks`, `FlowGrows`). The first connection needs `Quiet`; that `send()` has no queue and never sleeps, `KindFits`.

For the heartbeat, `FlagIsRight`: `isAlive` says whether a client of the server in use was heard of in this interval or in the last one. It is what makes `terminate()`
at the next beat right in both directions, and it needs that the timer always belongs to the `WebSocketServer` in use (`TimerIsCurrent`). For `close()`, `CloseInv`: a pending `close()` means that no server is in use
(`PendingIsDown`), the `http` server without a `wss` is one that some `close()` will come to (`HttpIsOwned`), and what a `close()` finds in `this.httpServer` after its first await is the server it was called on, or nothing
(`CloserKnowsServer`). A `listen()` in between breaks exactly this one.

What a `listen()` in between cannot break is `OverlapInv`: the `WebSocketServer` in use is the only one that takes clients (`OpenIsInUse`), its http server is `this.httpServer` or was closed under
it (`UseIsKept`), and whoever is no longer in use was closed by somebody (`ClosedIsCalled`). So a server that is lost is at least deaf (`LeaksAreDeaf`).
`PendingCanEnd` needs `AskedFirst`, that clients are asked to leave before their http server is closed, which `CloserKnowsServer` gives.

For the exchange, `WaitsAreTimed` needs that the callbacks which stop the timer of a stream set `done` (`TimedInv`), and that nobody sleeps over `done` (`NoLostWakeup`).

### Nostr: a request and its answer

`FastAnswerIsHeard` needs `SubscribedFirst`: at each relay the subscription for the response is there before the relay has said anything to the request, hence before it carries it (`CarriedIsAcked`). The order
per connection is all that is needed, relays need not keep in step.

`OwnAnswer` has two halves. What other agents publish is taken only if it names this request and its `from` is its author, who is not the recipient (`Responses`): so it settles the call, but never in the
recipient's name. What the recipient publishes comes by the chain from the answer back to the publication: an answer was made by the handler (`ResponsesWereMade`), which got a copy from a relay that
carried the request (`CopiesWereCarried`), and the subscription lets no other event of the recipient pass (`IncomingIsOwn`). That the event's author is who it says is the pool's check of the Nostr signature, external here.

### Signatures

The tweak of the private key negates `d` when its point has an odd y, the tweak of the public key lifts the coordinate to the
point with an even y: both start from the same scalar (`TweaksAgree`). That the input determines the message is a chain of `JoinParts` and `JoinInjective`: a field that does
not hold the separator is determined by what follows; `validateStructure` keeps NUL out of every field in front of one. `version` is not part
of the input, so `Binds` leaves it out. The assumptions are the idealisation: SHA-256 without collisions, one signature per key and text.

### The mailbox

`FreshCardIsFound` needs `CardsKept`: a relay that has accepted a card keeps that version or a newer one of the same author and identity, and a
publication that resolved was accepted somewhere. `StopSilences` follows from the types: what is under way belongs to an open subscription.

`NothingLost` is not inductive: it speaks of the present session only. `LostInv` adds that requests are addressed to the
receiver and that their author's address is theirs, the cached keys included (`Requests`: here the network matters); that an event which is not slow is on its way for `Delay` at
most (`Settled`); that answers count from `Delay` after `listen()` on (`Session`); and three facts about a relay without gaps: the receiver has everything that lies before its next `since`
(`CaughtUp`), a relay that has answered in this session has given all that was made before it (`Before`), and a subscription that is open brings all that was made since its filter's second (`Since`). The critical steps are
`ArriveLost`, where an event that arrives after the query was made after `listen()` and is therefore forwarded, `AttachLost`, where a subscription that is late at its relay is replayed what it missed, `DropLost`, where
the relay no longer serves the session, and `CloseLost`, the one that needs `Overlap >= Delay`: what is lost on the way is young enough to be asked for again.

### Only model-checked

Liveness: `EveryCallSettles`, `SomeCopyIsAdmitted`, `ChainSettles`, `SendSettles`, `CloseSettles` (of both servers) and `Settles` are properties under fairness, which the
proof system does not reach. What most of them rest on is an invariant and proved: whoever waits has a timer (`TimerFits`, `WaitsAreTimed`), or a step that is possible
(`PendingGoesOn`, `PendingCanEnd`, `HeldIsWatched`), or a winner to be shown (`RefusalHasWinner`). What remains with TLC is that fairness turns the possible step into a step, and that there is no
endless detour. What the modules leave out (last sections) is not covered by the theorems either.

## Disagreements between code, documents and tests

Shown by a run:

1. `docs/authentication.md:251`, "Together, timestamp + replay store provide complete replay protection." Two copies handed over in one turn are both handled: `hasSeen` and `markSeen` are separate awaits (`SnapAgent.ts:126-130`).
2. `tests/transport/WebSocketTransport.test.ts:245`, "stream completes when final response (type=response) is received". The response restarts the timer (`WebSocketTransport.ts:117`) and `error` is looked at before `done`: a consumer slower than the timeout gets an error after the response.
3. `docs/transport.md:329`, "To ensure a message is available for offline retrieval, the sender must use `persist: true`", and `docs/constraints.md:58`, which lists a pair of testnet agents as valid. The three identity checks of `NostrTransport.ts` (`:164`, `:217`, `:342`) compute the address of the event's author without a network, which means mainnet (`KeyManager.ts:109`): two testnet agents drop each other's requests and responses.
4. `docs/transport.md:314`, "When an agent comes online, it queries for stored messages received while offline", with the query at `:320`, `since: lastOnlineTimestamp`. `since` is compared with `created_at`, the second a request was made in (`NostrTransport.ts:129`, `:326`), not the second it was received: a request made in a second before `close()`, and on its way to the receiver at `close()`, is never returned. With an overlap no shorter than an event's way it is (`NothingLostHolds`).

Met while modelling, visible in the definitions but not the subject of a run:

- `docs/authentication.md:187` asks to track ids for 120 s; the window in which a message is accepted is 120.999 s long, since the clock is floored (`MessageValidator.ts:80`). See `Guarded`.
- `TESTING.md:61`, "`validate()` only throws `SnapError`": `from` is decoded at `MessageValidator.ts:62`, and an address that fits the pattern but is no bech32m throws a plain `Error` (`"RawError"` in `Verdict`).
- `docs/errors.md:91` has `SignatureMissingError`; a request without a signature fails the structure test first (`MessageValidator.ts:48`) and gets `InvalidMessage`.
- `ARCHITECTURE.md:284`, "each middleware calls `next()` to pass control": a middleware that does not call it stops later middlewares, not the handler (`SnapAgent.ts:134`).
- `docs/messages.md:442`: a duplicate should be answered with the original result; it is answered with an error (`SnapAgent.ts:128`).
- `docs/transport.md:124`: authentication failures should be HTTP 200 with an error; they are HTTP 500 (`HttpTransport.ts:202`). `docs/transport.md:105`: a JSON answer to a streaming request is dropped by `parseSSE`.
- `docs/authentication.md:247`, "Agents without NTP may drift several seconds; 60s accommodates this": `send()` over Nostr subscribes since now minus 5 seconds (`NostrTransport.ts:150`), so the response of an agent whose clock is further behind is filtered out. `NostrTransport` is checked with `Behind` = `Lookback`; with one second more no answer matches its filter.
- `docs/constraints.md:53`, "implementations SHOULD reject mixed networks": nothing compares the networks of `from` and `to`. See `Envelope`, where both may be any address.
- `docs/discovery.md:139`, "Find agents that have all specified skills", and `:204`, "deduplicate results": the filter `#skill` matches any of them, and `discoverAgents` returns every version it is sent (`NostrTransport.ts:295`, `:304`).
- `discoverAgents` caches the event's author for whatever identity the card names (`NostrTransport.ts:310`), and `publishAgentCard` publishes any card; the address of the key and `card.identity` are never compared, as they are for messages. In `Mailbox` every card is its author's, so the order in which versions come does not matter to the cache.
- `discoverViaHttp` verifies a card's signature and does not look at its timestamp; `version` of a message is not signed (`Signer.ts:23`).
- `fetchOfflineMessages` returns whatever the author's identity check lets through, responses included, where `listen()` takes requests only (`NostrTransport.ts:211`); neither validation nor replay check is applied to them.
- `docs/transport.md:370`, "Handle relay disconnections gracefully": a relay that drops the connection is not subscribed to again, and nobody is told (`NostrTransport.ts:200`, no `onclose`). `gaps` in `Mailbox` are these relays.
- `send()` over Nostr resolves with a response of any agent whose `from` is its event's author (`NostrTransport.ts:164-173`); the recipient, known at `:108`, is not compared, and the message's signature is verified neither there nor in `SnapAgent.send`. See `Receive` and `OwnAnswer`.
- A port that is in use is an `error` event of the server, to which neither `HttpTransport.ts:207-211` nor `WebSocketTransport.ts:260-262` listens: `start()` is not rejected by it.
- A stream handler that throws leaves its HTTP response open (`HttpTransport.ts:199-205`), and `sendStream` has no timer before the headers (`:83`).
- A WebSocket stream cut before its response ends without an error (`WebSocketTransport.ts:133`); the handshake has no timeout (`:205`).
- `listen()` during a pending `close()` of a `WebSocketTransport` loses a server: `close()` goes on with `this.httpServer` of the new one (`:189`). Set `MayOverlap` to `TRUE` in `WebSocketServer.cfg` and `NoServerLeaks` and `CloseStops` fail; nothing in the repository forbids or uses that order.
  The lost server takes no clients (`LeaksAreDeaf`). The other harm is done to the new one: it is closed while its clients have not been asked to leave, so that this `close()` waits for as long as they
  stay (`AskedFirst` and `PendingCanEnd` fail).

## Not modelled

Curve arithmetic, SHA-256, bech32m and JSON canonicalisation (functions with the properties the assumptions state), `deriveKeyPair`,
`validateP2TR` and `detectNetwork`; the encryption of Nostr events; the discovery filters by skill and name; `AgentCardBuilder`; the task store, which only
application code calls; the plugin registry, which nothing uses; frames and bodies that are not JSON, except for a garbled POST; clocks that step back.

`start()` and `stop()` are loops over the transports without state of their own, and what they call is modelled. What is left is the order in which several transports open
and that an error at the second leaves the first open, which is visible in the code (`SnapAgent.ts:87`) and has no promise to be checked against.

## Plan

Built so far, in this order: validator, store, pipeline with its proofs; middleware; the three transports; the exchange; SSE framing; keys and
signatures with their proofs; the mailbox (cards, discovery, offline inbox) with its proofs; the proofs about the exchange; the unconditional half of the
pipeline; the proofs about chain, HTTP, WebSocket exchange, WebSocket server and Nostr requests.

Then, proofs again: the event stream and its refinement of the transport; what the liveness properties rest on; which assumption of `Guarded`
is needed for what; what is lost when `listen()` overlaps `close()`. And back to the models: other agents at the relays, connections that drop, an application that knows no more than
the library tells it.

Next, modelling, if the code grows there: `Exchange` refined by one transport in detail instead of abstract attempts, and the life cycle once `start()` undoes a partial start.
