-------------------------------- MODULE Mailbox --------------------------------
(***************************************************************************)
(* NostrTransport as a mailbox: one agent publishes its card and goes on   *)
(* and off line, another discovers it and sends it requests, stored by the *)
(* relays (`persist`) or only forwarded.                                   *)
(*                                                                         *)
(* Every event is signed with the internal key of its author and stamped   *)
(* with the second it was made in.  Relays answer subscriptions and        *)
(* queries by comparing that stamp with `since`, not the time of arrival.  *)
(*                                                                         *)
(* The receiving application goes by docs/transport.md: it takes the       *)
(* second of close() for the one it was last on line, and later asks for   *)
(* what was stored since then, or for Overlap seconds more: the documents  *)
(* have no overlap.  It learns nothing of single relays: which of them     *)
(* answered, and which connections held, is history that only the          *)
(* properties look at.                                                     *)
(***************************************************************************)
EXTENDS Envelope

CONSTANTS
  Relay,       \* config.relays, of both agents
  Alice, Bob,  \* the private keys of sender and receiver
  Network,     \* the network both agents are configured for
  Overlap,     \* seconds more than it was away that the receiver asks for
  Delay,       \* seconds an event takes, unless it is slow
  MaxClock,    \* bound: seconds
  MaxCalls     \* bound: cards published, requests sent and calls of listen()

ASSUME MailboxAssumption ==
  /\ Alice \in PrivateKeys /\ Bob \in PrivateKeys /\ Network \in Networks
  /\ Overlap \in Nat /\ Delay \in Nat /\ MaxClock \in Nat
  /\ MaxCalls \in Nat

VARIABLES
  clock,     \* seconds, by Date.now() of both agents
  made,      \* the events, in the order they were made
  ack,       \* what each relay said to each event: "none", "ok" or "no"
  stored,    \* events each relay keeps
  cache,     \* internalKeyCache of the sender
  listens,   \* calls of listen() so far
  asked,     \* <<call, since, relay>>: subscriptions on their way to a relay
  subs,      \* <<call, since, relay>>: subscriptions open at a relay
  closer,    \* the call that subscriptionCloser belongs to, 0 for null
  incoming,  \* <<call, event, relay>>: forwarded, not yet at the listener
  online,    \* history: is the receiver between listen() and close()?
  began,     \* history: the second it came on line
  answered,  \* history: relays that answered a query Delay after that or later
  gaps,      \* history: relays that did not serve the whole of some session
  lastOnline,\* the application's lastOnlineTimestamp
  received,  \* requests handed to the handler of listen() or returned by a query
  slow       \* history: events that took longer than Delay

vars == <<clock, made, ack, stored, cache, listens, asked, subs, closer, incoming,
          online, began, answered, gaps, lastOnline, received, slow>>
relays == <<ack, stored>>
session == <<listens, closer, online, began, lastOnline, gaps>>
receiver == <<session, asked, subs, answered>>

Events == 1 .. Len(made)
BobKey == GetPublicKey(Bob)

Init ==
  /\ clock = 0 /\ made = <<>> /\ ack = <<>>
  /\ stored = [y \in Relay |-> {}]
  /\ cache = [a \in {} |-> {}]
  /\ listens = 0 /\ asked = {} /\ subs = {} /\ closer = 0 /\ incoming = {}
  /\ online = FALSE /\ began = 0 /\ answered = {} /\ gaps = {} /\ lastOnline = 0
  /\ received = {} /\ slow = {}

OnItsWay(n) ==
  (\E y \in Relay : ack[n][y] = "none") \/ (\E i \in incoming : i[2] = n)

Tick ==
  /\ clock < MaxClock
  /\ clock' = clock + 1
  /\ slow' = slow \cup {n \in Events : OnItsWay(n) /\ clock + 1 > made[n].at + Delay}
  /\ UNCHANGED <<made, cache, incoming, received, relays, receiver>>

-----------------------------------------------------------------------------
(* Publishing: an event is made and written to every relay. *)

Make(event) ==
  /\ listens + Len(made) < MaxCalls
  /\ made' = Append(made, event)
  /\ ack' = Append(ack, [y \in Relay |-> "none"])
  /\ UNCHANGED <<clock, stored, cache, incoming, received, slow, receiver>>

PublishAgentCard ==
  Make([kind |-> "card", author |-> BobKey, at |-> clock, p |-> {},
        identity |-> GetAddress(Bob, Network)])

(* send(): the recipient's key comes with the call or from the cache, and  *)
(* without either it throws.  Its answer is the matter of NostrTransport.  *)
Send(persist, nostrPubkey) ==
  LET to == GetAddress(Bob, Network) IN
    /\ nostrPubkey = {} => to \in DOMAIN cache
    /\ Make([kind |-> IF persist THEN "storable" ELSE "ephemeral",
                author |-> GetPublicKey(Alice), at |-> clock,
                p |-> IF nostrPubkey = {} THEN cache[to] ELSE nostrPubkey,
                identity |-> GetAddress(Alice, Network)])

(* What a relay keeps: nothing of the ephemeral kind, and of the cards of  *)
(* one key with one identity the latest; of two of one second, either.     *)
Keeps(y, n) ==
  LET versions == {k \in stored[y] : /\ made[k].kind = "card" /\ made[n].kind = "card"
                                     /\ made[k].author = made[n].author
                                     /\ made[k].identity = made[n].identity}
      latest == (stored[y] \ versions) \cup {n}
  IN  IF made[n].kind = "ephemeral" \/ \E k \in versions : made[k].at > made[n].at
      THEN {stored[y]}
      ELSE IF \E k \in versions : made[k].at = made[n].at THEN {stored[y], latest} ELSE {latest}

(* The filter of a listen() called in the second `since`. *)
Listens(n, since) ==
  made[n].kind \in {"storable", "ephemeral"} /\ made[n].p = BobKey /\ made[n].at >= since

(* An event arrives at a relay.  One that says no may have taken it: an    *)
(* acknowledgement that comes too late counts as a refusal.  What is said  *)
(* to a request makes no difference here, and is "no".                     *)
Arrive(n, y, said, took) ==
  /\ n \in Events /\ ack[n][y] = "none"
  /\ said = "ok" => took
  /\ made[n].kind # "card" => said = "no"
  /\ ack' = [ack EXCEPT ![n][y] = said]
  /\ IF took
     THEN /\ \E kept \in Keeps(y, n) : stored' = [stored EXCEPT ![y] = kept]
          /\ incoming' = incoming \cup
               {<<s[1], n, y>> : s \in {u \in subs : u[3] = y /\ Listens(n, u[2])}}
     ELSE UNCHANGED <<stored, incoming>>
  /\ UNCHANGED <<clock, made, cache, received, slow, receiver>>

(* Mutant: a publication succeeds when every relay has answered. *)
Accepted_AnyAnswer(n) == \A y \in Relay : ack[n][y] # "none"

(* publishToRelays() waits for all relays and throws if none accepted. *)
Accepted(n) == (\A y \in Relay : ack[n][y] # "none") /\ (\E y \in Relay : ack[n][y] = "ok")

-----------------------------------------------------------------------------
(* discoverAgents(): the cards the relays in ys hold, in any order; of two *)
(* with one identity the last to come is the one whose key stays cached.   *)
Cards(ys) == {n \in UNION {stored[y] : y \in ys} : made[n].kind = "card"}

DiscoverAgents(ys) ==
  /\ Cards(ys) # {}
  /\ \E last \in [{made[n].identity : n \in Cards(ys)} -> Cards(ys)] :
       /\ \A a \in DOMAIN last : made[last[a]].identity = a
       /\ cache' = [a \in DOMAIN cache \cup DOMAIN last |->
                      IF a \in DOMAIN last THEN made[last[a]].author ELSE cache[a]]
  /\ UNCHANGED <<clock, made, incoming, received, slow, relays, receiver>>

-----------------------------------------------------------------------------
(* The receiver. *)

Listen ==
  /\ listens + Len(made) < MaxCalls
  /\ listens' = listens + 1
  /\ asked' = asked \cup {<<listens + 1, clock, y>> : y \in Relay}
  /\ closer' = listens + 1
  /\ online' = TRUE
  /\ IF online THEN UNCHANGED <<began, answered>> ELSE began' = clock /\ answered' = {}
  /\ UNCHANGED <<clock, made, cache, subs, incoming, gaps, lastOnline,
                 received, slow, relays>>

(* A subscription arrives at its relay, which replays what it keeps and    *)
(* the filter lets through.                                                *)
Attach(s) ==
  LET replayed == {n \in stored[s[3]] : Listens(n, s[2])} IN
    /\ s \in asked
    /\ asked' = asked \ {s} /\ subs' = subs \cup {s}
    /\ incoming' = incoming \cup {<<s[1], n, s[3]>> : n \in replayed}
    /\ slow' = slow \cup {n \in replayed : clock > made[n].at + Delay}
    /\ UNCHANGED <<clock, made, cache, session, answered, received, relays>>

(* The connection to a relay is lost, or was never made: what was under    *)
(* way over it is gone, and nobody subscribes there again.                 *)
Drop(y) ==
  /\ \E s \in asked \cup subs : s[3] = y
  /\ asked' = {s \in asked : s[3] # y} /\ subs' = {s \in subs : s[3] # y}
  /\ incoming' = {i \in incoming : i[3] # y}
  /\ UNCHANGED <<clock, made, cache, session, answered, received, slow, relays>>

(* The relay served the session so far: it answered, and a subscription    *)
(* from its beginning is open there.                                       *)
Served(y) == y \in answered /\ \E s \in subs : s[3] = y /\ s[2] = began

EndSession ==
  /\ online
  /\ online' = FALSE /\ lastOnline' = clock /\ closer' = 0
  /\ began' = 0 /\ answered' = {}
  /\ gaps' = gaps \cup {y \in Relay : ~ Served(y)}
  /\ UNCHANGED <<clock, made, cache, listens, received, slow, relays>>

(* Mutant: close() closes the subscription, and leaves the pool alone. *)
Close_KeepsPool ==
  /\ EndSession
  /\ asked' = {s \in asked : s[1] # closer} /\ subs' = {s \in subs : s[1] # closer}
  /\ incoming' = {i \in incoming : i[1] # closer}

(* The subscription last opened is closed, and the pool with every other. *)
Close == EndSession /\ asked' = {} /\ subs' = {} /\ incoming' = {}

(* The address of the key that signed the event must be the sender's: it   *)
(* is computed for the default network.                                    *)
IdentityMatches(n) == PublicKeyToP2TR(made[n].author, "mainnet") = made[n].identity

Deliver(i) ==
  /\ i \in incoming
  /\ incoming' = incoming \ {i}
  /\ received' = IF IdentityMatches(i[2]) THEN received \cup {i[2]} ELSE received
  /\ UNCHANGED <<clock, made, cache, slow, relays, receiver>>

(* Mutant: `since` is taken to be exclusive. *)
Fetches_After(n, since) ==
  made[n].kind = "storable" /\ made[n].p = BobKey /\ made[n].at > since

Fetches(n, since) ==
  made[n].kind = "storable" /\ made[n].p = BobKey /\ made[n].at >= since

(* The relays in ys answer; the caller gets the messages of all in one     *)
(* list, and does not learn which those are.                               *)
FetchOfflineMessages(ys) ==
  /\ received' = received \cup
       {n \in UNION {stored[y] : y \in ys} : Fetches(n, lastOnline - Overlap) /\ IdentityMatches(n)}
  /\ answered' = IF online /\ clock >= began + Delay THEN answered \cup ys ELSE answered
  /\ UNCHANGED <<clock, made, cache, session, asked, subs, incoming, slow, relays>>

-----------------------------------------------------------------------------
Next ==
  \/ Tick \/ PublishAgentCard \/ Listen \/ Close
  \/ \E persist \in BOOLEAN, nostrPubkey \in {{}, BobKey} : Send(persist, nostrPubkey)
  \/ \E n \in Events, y \in Relay, said \in {"ok", "no"}, took \in BOOLEAN :
       Arrive(n, y, said, took)
  \/ \E ys \in (SUBSET Relay) \ {{}} : DiscoverAgents(ys) \/ FetchOfflineMessages(ys)
  \/ \E s \in asked : Attach(s)
  \/ \E y \in Relay : Drop(y)
  \/ \E i \in incoming : Deliver(i)

Spec == Init /\ [][Next]_vars

-----------------------------------------------------------------------------
Kinds == {"card", "storable", "ephemeral"}

TypeOK ==
  /\ clock \in 0 .. MaxClock
  /\ made \in Seq([kind : Kinds, author : XOnlyKeys, at : 0 .. clock,
                   p : XOnlyKeys \cup {{}}, identity : Addresses])
  /\ ack \in Seq([Relay -> {"none", "ok", "no"}]) /\ Len(ack) = Len(made)
  /\ received \subseteq Events /\ slow \subseteq Events
  /\ stored \in [Relay -> SUBSET Events]
  /\ DOMAIN cache \subseteq Addresses /\ \A a \in DOMAIN cache : cache[a] \in XOnlyKeys
  /\ listens \in 0 .. MaxCalls /\ closer \in 0 .. listens
  /\ asked \cup subs \subseteq (1 .. listens) \X (0 .. clock) \X Relay
  /\ incoming \subseteq (1 .. listens) \X Events \X Relay
  /\ online \in BOOLEAN /\ (~ online => asked = {} /\ subs = {} /\ incoming = {})
  /\ began \in 0 .. clock /\ lastOnline \in 0 .. clock
  /\ answered \subseteq Relay /\ gaps \subseteq Relay

(* Persisted requests are not lost at a relay that serves the receiver: it *)
(* answers a query made Delay after listen(), the subscription of listen() *)
(* holds there, and so it was in every session before.  Each request it    *)
(* keeps that was not slow was returned, received, or is on its way from it,  *)
(* although the relay goes by created_at and not by the time of arrival.   *)
NothingLost ==
  online => \A y \in Relay \ gaps : Served(y) => \A n \in stored[y] \ slow :
    made[n].kind = "storable" =>
      n \in received \/ \E i \in incoming : i[2] = n /\ i[3] = y

(* After close() nothing is received, however often listen() was called. *)
StopSilences == [][\A i \in incoming : Deliver(i) => online]_vars

(* Once publishAgentCard() has resolved, a discovery that reaches every    *)
(* relay finds that version or a newer one, unless it was published in     *)
(* the same second; however the publications overtook each other.          *)
FreshCardIsFound ==
  \A n \in Events : made[n].kind = "card" /\ Accepted(n) => \E k \in Cards(Relay) :
    made[k].identity = made[n].identity /\ made[k].at >= made[n].at

(* What the author of an event signs is accepted by whoever verifies it:   *)
(* messages and cards, for private keys of either parity.                  *)
SignedIsAccepted ==
  \A n \in Events, d \in PrivateKeys : made[n].author = GetPublicKey(d) => AcceptedFrom[d]

(* What is accepted from the author of an event was signed: a signature is *)
(* good for one message and one sender only.                               *)
AcceptedIsSigned ==
  \A n \in Events, d \in PrivateKeys : made[n].author = GetPublicKey(d) => Binds[d]
=============================================================================
