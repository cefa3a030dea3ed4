--------------------------- MODULE MessageValidator ---------------------------
(***************************************************************************)
(* What MessageValidator.validate() decides about one inbound message.     *)
(*                                                                         *)
(* A message is a record; only what the decision depends on is kept:       *)
(*   from, id    the identity of the message (the replay key)              *)
(*   to          the addressee, or NoAddressee when the field is absent    *)
(*   type        "request", "response" or "event"                          *)
(*   method      the method routed on                                      *)
(*   timestamp   whole seconds                                             *)
(*   wellFormed  every field but sig passes its type and pattern test      *)
(*   sig         what the signature field holds:                           *)
(*     "absent"       no field                                             *)
(*     "malformed"    present, not 128 lower-case hex digits               *)
(*     "undecodable"  well-formed, but `from`, which matches the address   *)
(*                    pattern, is no bech32m address                       *)
(*     "wrong"        well-formed, does not verify under the key in `from` *)
(*     "good"         verifies                                             *)
(***************************************************************************)
EXTENDS Integers

CONSTANTS
  Drift,           \* maxClockDrift, in seconds (60 in the code)
  TicksPerSecond,  \* clock ticks in one second of a timestamp (1000 in the code)
  NoAddressee      \* stands for a message without a `to` field

ASSUME ValidatorAssumption == Drift \in Nat /\ TicksPerSecond \in Nat \ {0}

SignatureKinds == {"absent", "malformed", "undecodable", "wrong", "good"}

(* Mutant: one entry per sender. *)
Key_SenderOnly(m) == <<m.from, 0>>

(* The replay key `${from}:${id}`: ids hold no ':', so it names the pair. *)
Key(m) == <<m.from, m.id>>

(* Date.now() is in ticks, a timestamp in seconds: the division floors. *)
Seconds(now) == now \div TicksPerSecond

WithinDrift(m, now) ==
  /\ Seconds(now) - m.timestamp <= Drift
  /\ m.timestamp - Seconds(now) <= Drift

(* Requests need a signature of the right form; others may leave it out. *)
StructureValid(m) ==
  /\ m.wellFormed
  /\ m.sig # "malformed"
  /\ m.type = "request" => m.sig # "absent"

(* "ok", or the error thrown.  "RawError" is the plain Error of bech32m,   *)
(* which p2trToPublicKey lets through; the others are SnapErrors.          *)
Verdict(m, now) ==
  IF ~StructureValid(m) THEN "InvalidMessage"
  ELSE IF ~WithinDrift(m, now) THEN "TimestampExpired"
  ELSE CASE m.sig = "undecodable" -> "RawError"
         [] m.sig = "wrong"       -> "SignatureInvalid"
         [] m.sig = "good"        -> "ok"
         [] m.sig = "absent"      -> IF m.type = "request"
                                     THEN "SignatureMissing" ELSE "ok"

(* The first and the last tick at which the timestamp of m is accepted. *)
FirstTick(m) == (m.timestamp - Drift) * TicksPerSecond
LastTick(m) == (m.timestamp + Drift + 1) * TicksPerSecond - 1
=============================================================================
