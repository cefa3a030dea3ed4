------------------------------- MODULE Envelope -------------------------------
(***************************************************************************)
(* What is signed, with which key, and what verifies: MessageBuilder,      *)
(* Signer, MessageSigner, MessageValidator.verifySignature, and the agent  *)
(* card an HTTP server signs and discoverViaHttp() verifies.               *)
(*                                                                         *)
(* Texts are sequences of characters.  SHA-256 has no collisions here, so  *)
(* a signature is made over the text itself.                               *)
(***************************************************************************)
EXTENDS Keys, Sequences

CONSTANTS
  Char,      \* the characters of a text
  NUL, Bar,  \* the separators: NUL is none of these characters, '|' is one
  Canonical, \* the canonical JSON of a value: its domain are the values
  Decimal,   \* the digits of a timestamp: its domain are the timestamps
  Version,   \* the protocol version a built message carries
  Unsigned,  \* the unsigned messages considered
  Card       \* the agent cards considered

Text == Seq(Char)
Json == DOMAIN Canonical
Second == DOMAIN Decimal
Addresses == {Bech32m[c] : c \in Encodable}

(* What the patterns of validateStructure() leave: no field holds a NUL.   *)
(* An absent `to` is the empty text.                                       *)
WellFormed ==
  [id : Text, version : Text, from : Addresses, to : Addresses \cup {<<>>}, type : Text,
   method : Text, payload : Json, timestamp : Second]

ASSUME EnvelopeAssumption ==
  /\ NUL \notin Char /\ Bar \in Char
  /\ \A v \in Json : Canonical[v] \in Text
  /\ \A v, w \in Json : Canonical[v] = Canonical[w] => v = w
  /\ \A t \in Second : Decimal[t] \in Text
  /\ \A t, u \in Second : Decimal[t] = Decimal[u] => t = u
  /\ Version \in Text /\ Addresses \subseteq Text
  /\ Unsigned \subseteq WellFormed
  /\ Card \subseteq Json /\ \A card \in Card : card.identity \in Addresses

-----------------------------------------------------------------------------
(* Signer *)

(* Mutant: the fields are joined without a separator. *)
Join_Plain(field, rest) == field \o rest

Join(field, rest) == field \o <<NUL>> \o rest

SignatureInput(m) ==
  Join(m.id, Join(m.from, Join(m.to, Join(m.type, Join(m.method,
    Join(Canonical[m.payload], Decimal[m.timestamp]))))))

(* BIP-340: made with a private key over a text, it verifies for exactly   *)
(* the x coordinate of that key and the text.                              *)
Schnorr(key, text) == [by |-> XOnly(key), over |-> text]

Sign(m, privateKey) == Schnorr(privateKey, SignatureInput(m))

Verify(m, sig, publicKey) == sig = [by |-> publicKey, over |-> SignatureInput(m)]

(* MessageBuilder, MessageSigner and MessageValidator *)

GetAddress(d, network) == PublicKeyToP2TR(GetPublicKey(d), network)

(* build() throws without id, from, method or timestamp, and leaves `to`   *)
(* out when there is none; buildMessage() gives it all it needs.           *)
Build(id, from, to, type, method, payload, timestamp) ==
  [id |-> id, version |-> Version, from |-> from, to |-> to, type |-> type,
   method |-> method, payload |-> payload, timestamp |-> timestamp]

BuildMessage(id, d, network, to, type, method, payload, now) ==
  Build(id, GetAddress(d, network), to, type, method, payload, now)

SignMessage(m, d) == Sign(m, TweakPrivateKey(d))

VerifySignature(m, sig) == Verify(m, sig, P2trToPublicKey(m.from))

(* The well-known endpoint *)

CardText(card, timestamp) == Canonical[card] \o <<Bar>> \o Decimal[timestamp]

SetAgentCard(card, d, now) ==
  [card |-> card, timestamp |-> now,
   sig |-> Schnorr(TweakPrivateKey(d), CardText(card, now)),
   publicKey |-> P2trToPublicKey(card.identity)]

(* discoverViaHttp() returns the card, and does not throw. *)
Discovered(signed) ==
  /\ signed.sig = [by |-> signed.publicKey, over |-> CardText(signed.card, signed.timestamp)]
  /\ P2trToPublicKey(signed.card.identity) = signed.publicKey

-----------------------------------------------------------------------------
(* What the holder of a key signs verifies with the key in its address:    *)
(* its messages and its card, on either network.                           *)
AcceptedFrom ==
  [d \in PrivateKeys |->
     \A network \in Networks :
       /\ \A m \in Unsigned :
            m.from = GetAddress(d, network) => VerifySignature(m, SignMessage(m, d))
       /\ \A card \in Card, now \in Second :
            card.identity = GetAddress(d, network) => Discovered(SetAgentCard(card, d, now))]

(* All fields but `version`, which is not signed. *)
SameFields(m, n) ==
  /\ m.id = n.id /\ m.from = n.from /\ m.to = n.to /\ m.type = n.type
  /\ m.method = n.method /\ m.payload = n.payload /\ m.timestamp = n.timestamp

(* A signature made for one message verifies for no other, and only for a  *)
(* sender whose address holds the signer's key.                            *)
Binds ==
  [d \in PrivateKeys |->
     \A m, n \in Unsigned :
       VerifySignature(n, SignMessage(m, d)) =>
         SameFields(m, n) /\ P2trToPublicKey(n.from) = TaprootTweak(GetPublicKey(d))]
=============================================================================
