----------------------------- MODULE MailboxProofs -----------------------------
(***************************************************************************)
(* Proofs about Keys and Envelope, for every group, every hash, every set  *)
(* of messages and of cards the assumptions admit; and, on top of them,    *)
(* about Mailbox, for any relays, keys, delay and bounds.                  *)
(***************************************************************************)
EXTENDS Mailbox, SequenceTheorems, TLAPS

-----------------------------------------------------------------------------
(* Keys. *)

LEMMA NegationIsScalar == ASSUME NEW k \in Scalars PROVE Order - k \in Scalars
  BY KeysAssumption DEF Scalars

LEMMA SamePublicKey ==
  ASSUME NEW k \in Scalars PROVE XOnly(Order - k) = XOnly(k)
<1>1. Order - (Order - k) = k
  BY KeysAssumption DEF Scalars
<1> QED BY <1>1 DEF XOnly

(* Lifting a public key yields the private key, negated when its point has *)
(* an odd y.                                                               *)
LEMMA LiftIsEven ==
  ASSUME NEW d \in Scalars
  PROVE  LiftX(XOnly(d)) = IF d \in EvenY THEN d ELSE Order - d
  BY KeysAssumption DEF LiftX, XOnly

(* tweakPrivateKey() and taprootTweak() agree: the tweaked private key      *)
(* belongs to the tweaked public key.                                      *)
THEOREM TweaksAgree ==
  ASSUME NEW d \in Scalars
  PROVE  XOnly(TweakPrivateKey(d)) = TaprootTweak(GetPublicKey(d))
  BY LiftIsEven DEF TweakPrivateKey, TaprootTweak, GetPublicKey

LEMMA TweakedIsKey ==
  ASSUME NEW d \in PrivateKeys PROVE TaprootTweak(GetPublicKey(d)) \in XOnlyKeys
<1>1. d \in Scalars /\ TapTweak[XOnly(d)] \in Scalars /\ TweakPrivateKey(d) # 0
  BY DEF PrivateKeys
<1>2. TweakPrivateKey(d) \in 0 .. (Order - 1)
  <2>1. (IF d \in EvenY THEN d ELSE Order - d) \in Scalars
    BY <1>1, NegationIsScalar
  <2> DEFINE e == IF d \in EvenY THEN d ELSE Order - d
  <2>2. e + TapTweak[XOnly(d)] \in Nat /\ Order \in Nat \ {0}
    BY <1>1, <2>1, KeysAssumption DEF Scalars
  <2>3. (e + TapTweak[XOnly(d)]) % Order \in 0 .. (Order - 1)
    BY <2>2
  <2> QED BY <2>3 DEF TweakPrivateKey
<1>3. TweakPrivateKey(d) \in Scalars
  BY <1>1, <1>2 DEF Scalars
<1> QED BY <1>1, <1>3, TweaksAgree DEF XOnlyKeys

(* Decoding an address yields the key that was encoded. *)
LEMMA Decodes ==
  ASSUME NEW c \in Encodable PROVE P2trToPublicKey(Bech32m[c]) = c[2]
<1>1. (CHOOSE b \in Encodable : Bech32m[b] = Bech32m[c]) = c
  BY KeysAssumption
<1> QED BY <1>1 DEF P2trToPublicKey

(* The key in an agent's address is that of its tweaked private key. *)
THEOREM AddressHoldsKey ==
  ASSUME NEW d \in PrivateKeys, NEW network \in Networks
  PROVE  P2trToPublicKey(GetAddress(d, network)) = XOnly(TweakPrivateKey(d))
<1> DEFINE c == <<Prefix[network], TaprootTweak(GetPublicKey(d))>>
<1>1. Prefix[network] \in {"bc", "tb"}
  BY DEF Networks, Prefix
<1>2. c \in Encodable
  BY <1>1, TweakedIsKey DEF Encodable
<1>3. P2trToPublicKey(Bech32m[c]) = c[2]
  BY <1>2, Decodes
<1>4. d \in Scalars
  BY DEF PrivateKeys
<1> QED BY <1>3, <1>4, TweaksAgree DEF GetAddress, PublicKeyToP2TR

-----------------------------------------------------------------------------
(* Signatures. *)

(* What the holder of a key signs is accepted. *)
THEOREM RoundTrip == \A d \in PrivateKeys : AcceptedFrom[d]
<1> SUFFICES ASSUME NEW d \in PrivateKeys, NEW network \in Networks
             PROVE  /\ \A m \in Unsigned : m.from = GetAddress(d, network)
                                             => VerifySignature(m, SignMessage(m, d))
                    /\ \A card \in Card, now \in Second :
                         card.identity = GetAddress(d, network)
                           => Discovered(SetAgentCard(card, d, now))
  BY DEF AcceptedFrom
<1>1. P2trToPublicKey(GetAddress(d, network)) = XOnly(TweakPrivateKey(d))
  BY AddressHoldsKey
<1>2. ASSUME NEW m \in Unsigned, m.from = GetAddress(d, network)
      PROVE  VerifySignature(m, SignMessage(m, d))
  BY <1>1, <1>2 DEF VerifySignature, Verify, SignMessage, Sign, Schnorr
<1>3. ASSUME NEW card \in Card, NEW now \in Second, card.identity = GetAddress(d, network)
      PROVE  Discovered(SetAgentCard(card, d, now))
  BY <1>1, <1>3 DEF Discovered, SetAgentCard, Schnorr
<1> QED BY <1>2, <1>3

-----------------------------------------------------------------------------
(* The signature input. *)

Padded == Seq(Char \cup {NUL})

LEMMA TextIsPadded == \A f \in Text : f \in Padded
  BY SeqMonotonic DEF Text, Padded

(* Where the pieces of a joined text are. *)
LEMMA JoinParts ==
  ASSUME NEW f \in Text, NEW r \in Padded
  PROVE  /\ Join(f, r) \in Padded
         /\ Len(Join(f, r)) = Len(f) + 1 + Len(r)
         /\ \A i \in 1 .. Len(f) : Join(f, r)[i] = f[i]
         /\ Join(f, r)[Len(f) + 1] = NUL
         /\ \A i \in 1 .. Len(r) : Join(f, r)[Len(f) + 1 + i] = r[i]
<1> DEFINE S == Char \cup {NUL}
<1> DEFINE g == f \o <<NUL>>
<1>1. f \in Seq(S) /\ r \in Seq(S) /\ <<NUL>> \in Seq(S)
  BY TextIsPadded DEF Padded
<1>2. Len(f) \in Nat /\ Len(r) \in Nat /\ Len(<<NUL>>) = 1 /\ <<NUL>>[1] = NUL
  BY <1>1, LenProperties
<1>3. g \in Seq(S) /\ Len(g) = Len(f) + 1
      /\ \A i \in 1 .. Len(f) + 1 : g[i] = IF i <= Len(f) THEN f[i] ELSE <<NUL>>[i - Len(f)]
  <2>1. /\ f \o <<NUL>> \in Seq(S)
        /\ Len(f \o <<NUL>>) = Len(f) + Len(<<NUL>>)
        /\ \A i \in 1 .. Len(f) + Len(<<NUL>>) :
             (f \o <<NUL>>)[i] = IF i <= Len(f) THEN f[i] ELSE <<NUL>>[i - Len(f)]
    BY <1>1, ConcatProperties
  <2> QED BY <2>1, <1>2
<1> HIDE DEF g
<1>4. /\ g \o r \in Seq(S)
      /\ Len(g \o r) = Len(g) + Len(r)
      /\ \A i \in 1 .. Len(g) + Len(r) :
           (g \o r)[i] = IF i <= Len(g) THEN g[i] ELSE r[i - Len(g)]
  <2>1. g \in Seq(S) /\ r \in Seq(S)
    BY <1>1, <1>3
  <2> HIDE DEF S
  <2> QED BY <2>1, ConcatProperties
<1>5. Join(f, r) = g \o r
  BY DEF Join, g
<1>6. \A i \in 1 .. Len(f) : g[i] = f[i]
  BY <1>2, <1>3
<1>7. g[Len(f) + 1] = NUL
  BY <1>2, <1>3
<1>8. \A i \in 1 .. Len(f) + 1 : (g \o r)[i] = g[i]
  BY <1>2, <1>3, <1>4
<1>9. \A i \in 1 .. Len(r) : (g \o r)[Len(f) + 1 + i] = r[i]
  BY <1>2, <1>3, <1>4
<1> QED
  BY <1>2, <1>3, <1>4, <1>5, <1>6, <1>7, <1>8, <1>9 DEF Padded

(* The first NUL ends the first field: joined texts are equal only when    *)
(* their fields are.                                                       *)
LEMMA JoinInjective ==
  ASSUME NEW f \in Text, NEW g \in Text, NEW r \in Padded, NEW s \in Padded,
         Join(f, r) = Join(g, s)
  PROVE  f = g /\ r = s
<1>1. \A h \in Text : Len(h) \in Nat /\ \A i \in 1 .. Len(h) : h[i] # NUL
  BY EnvelopeAssumption, LenProperties, ElementOfSeq DEF Text
<1>2. Len(r) \in Nat /\ Len(s) \in Nat
  BY LenProperties DEF Padded
<1>3. ~ (Len(f) < Len(g))
  <2> SUFFICES ASSUME Len(f) < Len(g) PROVE FALSE
    OBVIOUS
  <2>1. Len(f) + 1 \in 1 .. Len(g)
    BY <1>1
  <2>2. Join(f, r)[Len(f) + 1] = NUL
    BY JoinParts
  <2>3. Join(g, s)[Len(f) + 1] = g[Len(f) + 1]
    BY <2>1, JoinParts
  <2> QED BY <1>1, <2>1, <2>2, <2>3
<1>4. ~ (Len(g) < Len(f))
  <2> SUFFICES ASSUME Len(g) < Len(f) PROVE FALSE
    OBVIOUS
  <2>1. Len(g) + 1 \in 1 .. Len(f)
    BY <1>1
  <2>2. Join(g, s)[Len(g) + 1] = NUL
    BY JoinParts
  <2>3. Join(f, r)[Len(g) + 1] = f[Len(g) + 1]
    BY <2>1, JoinParts
  <2> QED BY <1>1, <2>1, <2>2, <2>3
<1>5. Len(f) = Len(g)
  BY <1>1, <1>3, <1>4
<1>6. f = g
  <2>1. \A i \in 1 .. Len(f) : f[i] = g[i]
    <3> SUFFICES ASSUME NEW i \in 1 .. Len(f) PROVE f[i] = g[i]
      OBVIOUS
    <3>1. i \in 1 .. Len(g)
      BY <1>5
    <3>2. Join(f, r)[i] = f[i]
      BY JoinParts
    <3>3. Join(g, s)[i] = g[i]
      BY <3>1, JoinParts
    <3> QED BY <3>2, <3>3
  <2> QED BY <2>1, <1>5, SeqEqual DEF Text
<1>7. Len(r) = Len(s)
  <2>1. Len(Join(f, r)) = Len(f) + 1 + Len(r) /\ Len(Join(g, s)) = Len(g) + 1 + Len(s)
    BY JoinParts
  <2> QED BY <2>1, <1>1, <1>2, <1>5
<1>8. r = s
  <2>1. \A i \in 1 .. Len(r) : r[i] = s[i]
    <3> SUFFICES ASSUME NEW i \in 1 .. Len(r) PROVE r[i] = s[i]
      OBVIOUS
    <3>1. Join(f, r)[Len(f) + 1 + i] = r[i]
      BY JoinParts
    <3>2. Join(g, s)[Len(g) + 1 + i] = s[i]
      <4>1. i \in 1 .. Len(s)
        BY <1>7
      <4> QED BY <4>1, JoinParts
    <3> QED BY <3>1, <3>2, <1>5
  <2> QED BY <2>1, <1>7, SeqEqual DEF Padded
<1> QED BY <1>6, <1>8

(* Two messages have the same signature input only when they agree on      *)
(* every field that is signed.                                             *)
THEOREM InputDetermines ==
  ASSUME NEW m \in WellFormed, NEW n \in WellFormed, SignatureInput(m) = SignatureInput(n)
  PROVE  SameFields(m, n)
<1> DEFINE tail6(x) == Decimal[x.timestamp]
<1> DEFINE tail5(x) == Join(Canonical[x.payload], tail6(x))
<1> DEFINE tail4(x) == Join(x.method, tail5(x))
<1> DEFINE tail3(x) == Join(x.type, tail4(x))
<1> DEFINE tail2(x) == Join(x.to, tail3(x))
<1> DEFINE tail1(x) == Join(x.from, tail2(x))
<1>1. ASSUME NEW x \in WellFormed
      PROVE  /\ x.id \in Text /\ x.from \in Text /\ x.to \in Text /\ x.type \in Text
             /\ x.method \in Text /\ Canonical[x.payload] \in Text /\ Decimal[x.timestamp] \in Text
             /\ x.payload \in Json /\ x.timestamp \in Second
  <2>1. /\ x.id \in Text /\ x.from \in Addresses /\ x.to \in Addresses \cup {<<>>}
        /\ x.type \in Text /\ x.method \in Text /\ x.payload \in Json /\ x.timestamp \in Second
    BY DEF WellFormed
  <2>2. <<>> \in Text
    BY EmptySeq DEF Text
  <2> QED BY <2>1, <2>2, EnvelopeAssumption
<1>2. ASSUME NEW x \in WellFormed
      PROVE  /\ tail6(x) \in Padded /\ tail5(x) \in Padded /\ tail4(x) \in Padded
             /\ tail3(x) \in Padded /\ tail2(x) \in Padded /\ tail1(x) \in Padded
  <2>1. tail6(x) \in Padded
    BY <1>1, TextIsPadded
  <2> HIDE DEF tail6
  <2>2. tail5(x) \in Padded
    BY <2>1, <1>1, JoinParts
  <2> HIDE DEF tail5
  <2>3. tail4(x) \in Padded
    BY <2>2, <1>1, JoinParts
  <2> HIDE DEF tail4
  <2>4. tail3(x) \in Padded
    BY <2>3, <1>1, JoinParts
  <2> HIDE DEF tail3
  <2>5. tail2(x) \in Padded
    BY <2>4, <1>1, JoinParts
  <2> HIDE DEF tail2
  <2>6. tail1(x) \in Padded
    BY <2>5, <1>1, JoinParts
  <2> QED BY <2>1, <2>2, <2>3, <2>4, <2>5, <2>6
<1>3. Join(m.id, tail1(m)) = Join(n.id, tail1(n))
  BY DEF SignatureInput
<1> HIDE DEF tail1
<1>4. m.id = n.id /\ tail1(m) = tail1(n)
  BY <1>1, <1>2, <1>3, JoinInjective
<1>5. m.from = n.from /\ tail2(m) = tail2(n)
  <2>1. Join(m.from, tail2(m)) = Join(n.from, tail2(n))
    BY <1>4 DEF tail1
  <2> HIDE DEF tail2
  <2> QED BY <1>1, <1>2, <2>1, JoinInjective
<1>6. m.to = n.to /\ tail3(m) = tail3(n)
  <2>1. Join(m.to, tail3(m)) = Join(n.to, tail3(n))
    BY <1>5
  <2> HIDE DEF tail3
  <2> QED BY <1>1, <1>2, <2>1, JoinInjective
<1>7. m.type = n.type /\ tail4(m) = tail4(n)
  <2>1. Join(m.type, tail4(m)) = Join(n.type, tail4(n))
    BY <1>6
  <2> HIDE DEF tail4
  <2> QED BY <1>1, <1>2, <2>1, JoinInjective
<1>8. m.method = n.method /\ tail5(m) = tail5(n)
  <2>1. Join(m.method, tail5(m)) = Join(n.method, tail5(n))
    BY <1>7
  <2> HIDE DEF tail5
  <2> QED BY <1>1, <1>2, <2>1, JoinInjective
<1>9. Canonical[m.payload] = Canonical[n.payload] /\ tail6(m) = tail6(n)
  <2>1. Join(Canonical[m.payload], tail6(m)) = Join(Canonical[n.payload], tail6(n))
    BY <1>8
  <2> HIDE DEF tail6
  <2> QED BY <1>1, <1>2, <2>1, JoinInjective
<1>10. m.payload = n.payload /\ m.timestamp = n.timestamp
  BY <1>1, <1>9, EnvelopeAssumption
<1> QED BY <1>4, <1>5, <1>6, <1>7, <1>8, <1>10 DEF SameFields

(* What is accepted was signed. *)
THEOREM NothingElseVerifies == \A d \in PrivateKeys : Binds[d]
<1> SUFFICES ASSUME NEW d \in PrivateKeys, NEW m \in Unsigned, NEW n \in Unsigned,
                    VerifySignature(n, SignMessage(m, d))
             PROVE  SameFields(m, n) /\ P2trToPublicKey(n.from) = TaprootTweak(GetPublicKey(d))
  BY DEF Binds
<1>1. [by |-> XOnly(TweakPrivateKey(d)), over |-> SignatureInput(m)]
        = [by |-> P2trToPublicKey(n.from), over |-> SignatureInput(n)]
  BY DEF VerifySignature, Verify, SignMessage, Sign, Schnorr
<1>2. XOnly(TweakPrivateKey(d)) = P2trToPublicKey(n.from) /\ SignatureInput(m) = SignatureInput(n)
  BY <1>1
<1>3. SameFields(m, n)
  BY <1>2, EnvelopeAssumption, InputDetermines
<1>4. d \in Scalars
  BY DEF PrivateKeys
<1> QED BY <1>2, <1>3, <1>4, TweaksAgree

-----------------------------------------------------------------------------
(* The mailbox. *)

Event(now) ==
  [kind : Kinds, author : XOnlyKeys, at : 0 .. now, p : XOnlyKeys \cup {{}}, identity : Addresses]

Acks == [Relay -> {"none", "ok", "no"}]

-----------------------------------------------------------------------------
(* Types. *)

LEMMA PublicKeyIsKey == ASSUME NEW d \in PrivateKeys PROVE GetPublicKey(d) \in XOnlyKeys
  BY DEF PrivateKeys, GetPublicKey, XOnlyKeys

LEMMA AddressIsAddress ==
  ASSUME NEW d \in PrivateKeys, NEW network \in Networks
  PROVE  GetAddress(d, network) \in Addresses
<1>1. Prefix[network] \in {"bc", "tb"}
  BY DEF Networks, Prefix
<1>2. <<Prefix[network], TaprootTweak(GetPublicKey(d))>> \in Encodable
  BY <1>1, TweakedIsKey DEF Encodable
<1> QED BY <1>2 DEF GetAddress, PublicKeyToP2TR, Addresses

(* Events made so far stay as they are while one is added. *)
LEMMA MakeAdds ==
  ASSUME TypeOK, NEW e \in Event(clock), Make(e)
  PROVE  /\ made' \in Seq(Event(clock)) /\ ack' \in Seq(Acks)
         /\ Len(made') = Len(made) + 1 /\ Len(ack') = Len(ack) + 1
         /\ Events \subseteq Events' /\ Len(made) \in Nat
         /\ \A n \in Events : made'[n] = made[n] /\ ack'[n] = ack[n]
         /\ made'[Len(made) + 1] = e
         /\ ack'[Len(made) + 1] = [y \in Relay |-> "none"]
<1>1. made \in Seq(Event(clock)) /\ ack \in Seq(Acks) /\ Len(ack) = Len(made)
  BY DEF TypeOK, Event, Acks
<1>2. [y \in Relay |-> "none"] \in Acks
  BY DEF Acks
<1>3. made' = Append(made, e) /\ ack' = Append(ack, [y \in Relay |-> "none"])
  BY DEF Make
<1>4. Len(made) \in Nat
  BY <1>1, LenProperties
<1>5. /\ made' \in Seq(Event(clock)) /\ Len(made') = Len(made) + 1
      /\ \A n \in 1 .. Len(made) : made'[n] = made[n]
      /\ made'[Len(made) + 1] = e
  BY <1>1, <1>3, AppendProperties
<1>6. /\ ack' \in Seq(Acks) /\ Len(ack') = Len(ack) + 1
      /\ \A n \in 1 .. Len(ack) : ack'[n] = ack[n]
      /\ ack'[Len(ack) + 1] = [y \in Relay |-> "none"]
  BY <1>1, <1>2, <1>3, AppendProperties
<1> QED BY <1>1, <1>4, <1>5, <1>6 DEF Events

LEMMA MakeTyped ==
  ASSUME TypeOK, NEW e \in Event(clock), Make(e) PROVE TypeOK'
<1>1. /\ made' \in Seq(Event(clock)) /\ ack' \in Seq(Acks)
      /\ Len(ack') = Len(made') /\ Events \subseteq Events'
  BY MakeAdds DEF TypeOK
<1>2. UNCHANGED <<clock, stored, cache, incoming, received, slow, receiver>>
  BY DEF Make
<1>3. listens \in 0 .. MaxCalls /\ UNCHANGED listens
  BY <1>2 DEF TypeOK, receiver, session
<1> QED BY <1>1, <1>2, <1>3 DEF TypeOK, Event, Acks, receiver, session

(* The events that are made. *)
LEMMA CardMade ==
  ASSUME TypeOK, PublishAgentCard
  PROVE  \E e \in Event(clock) : Make(e) /\ e.at = clock /\ e.kind = "card" /\ e.author = BobKey
<1> DEFINE e == [kind |-> "card", author |-> BobKey, at |-> clock, p |-> {},
                 identity |-> GetAddress(Bob, Network)]
<1>1. clock \in 0 .. clock
  BY MailboxAssumption DEF TypeOK
<1>2. e \in Event(clock)
  BY <1>1, MailboxAssumption, PublicKeyIsKey, AddressIsAddress DEF Event, Kinds, BobKey
<1>3. Make(e)
  BY DEF PublishAgentCard
<1> QED BY <1>2, <1>3

LEMMA RequestMade ==
  ASSUME TypeOK, NEW persist \in BOOLEAN, NEW nostrPubkey \in {{}, BobKey},
         Send(persist, nostrPubkey)
  PROVE  \E e \in Event(clock) :
           /\ Make(e) /\ e.kind # "card" /\ e.at = clock
           /\ e.p = BobKey \/ \E a \in DOMAIN cache : e.p = cache[a]
           /\ e.author = GetPublicKey(Alice) /\ e.identity = GetAddress(Alice, Network)
<1> DEFINE to == GetAddress(Bob, Network)
           e == [kind |-> IF persist THEN "storable" ELSE "ephemeral",
                 author |-> GetPublicKey(Alice), at |-> clock,
                 p |-> IF nostrPubkey = {} THEN cache[to] ELSE nostrPubkey,
                 identity |-> GetAddress(Alice, Network)]
<1>1. BobKey \in XOnlyKeys /\ GetPublicKey(Alice) \in XOnlyKeys
  BY MailboxAssumption, PublicKeyIsKey DEF BobKey
<1>2. e.p \in XOnlyKeys /\ (e.p = BobKey \/ \E a \in DOMAIN cache : e.p = cache[a])
  BY <1>1 DEF Send, TypeOK
<1>3. GetAddress(Alice, Network) \in Addresses /\ clock \in 0 .. clock
  BY MailboxAssumption, AddressIsAddress DEF TypeOK
<1>4. e \in Event(clock)
  BY <1>1, <1>2, <1>3 DEF Event, Kinds
<1>5. Make(e)
  BY DEF Send
<1> QED BY <1>2, <1>4, <1>5

(* What was acknowledged changes for one event at one relay. *)
LEMMA ArriveAcks ==
  ASSUME TypeOK, NEW n, NEW y \in Relay, NEW said \in {"ok", "no"}, NEW took \in BOOLEAN,
         Arrive(n, y, said, took)
  PROVE  /\ ack' \in Seq(Acks) /\ Len(ack') = Len(ack)
         /\ ack'[n][y] = said
         /\ \A k \in Events, z \in Relay : k # n \/ z # y => ack'[k][z] = ack[k][z]
<1>1. n \in 1 .. Len(ack) /\ ack \in Seq(Acks) /\ Events = 1 .. Len(ack)
  BY DEF Arrive, TypeOK, Acks, Events
<1> DEFINE row == [ack[n] EXCEPT ![y] = said]
<1>2. ack[n] \in Acks /\ \A k \in Events : ack[k] \in Acks
  BY <1>1, ElementOfSeq
<1>3. row \in Acks /\ \A z \in Relay : row[z] = IF z = y THEN said ELSE ack[n][z]
  BY <1>2 DEF Acks
<1>4. ack' = [ack EXCEPT ![n] = row]
  BY DEF Arrive
<1> HIDE DEF row
<1>5. /\ ack' \in Seq(Acks) /\ Len(ack') = Len(ack)
      /\ \A k \in 1 .. Len(ack) : ack'[k] = IF k = n THEN row ELSE ack[k]
  BY <1>1, <1>3, <1>4, ExceptSeq
<1> QED BY <1>1, <1>3, <1>5

LEMMA KeepsTyped ==
  ASSUME TypeOK, NEW n \in Events, NEW y \in Relay, NEW kept \in Keeps(y, n)
  PROVE  kept \in SUBSET Events
<1>1. stored[y] \subseteq Events
  BY DEF TypeOK
<1> QED BY <1>1 DEF Keeps

LEMMA InitTyped == Init => TypeOK
<1> SUFFICES ASSUME Init PROVE TypeOK
  OBVIOUS
<1>1. made = <<>> /\ ack = <<>> /\ Len(made) = 0 /\ Len(ack) = 0
  BY DEF Init
<1>2. made \in Seq(Event(clock)) /\ ack \in Seq(Acks)
  BY <1>1, EmptySeq
<1>3. stored \in [Relay -> SUBSET Events] /\ received \subseteq Events /\ slow \subseteq Events
  BY DEF Init
<1>4. DOMAIN cache \subseteq Addresses /\ \A a \in DOMAIN cache : cache[a] \in XOnlyKeys
  BY DEF Init
<1>5. /\ clock \in 0 .. MaxClock /\ listens \in 0 .. MaxCalls /\ closer \in 0 .. listens
      /\ began \in 0 .. clock /\ lastOnline \in 0 .. clock
  BY MailboxAssumption DEF Init
<1>6. asked = {} /\ subs = {} /\ incoming = {} /\ online = FALSE /\ answered = {} /\ gaps = {}
  BY DEF Init
<1> QED BY <1>1, <1>2, <1>3, <1>4, <1>5, <1>6 DEF TypeOK, Event, Acks

(* Subscriptions that are asked for, and what comes through them. *)
Lines == (1 .. listens) \X (0 .. clock) \X Relay
Parcels == (1 .. listens) \X Events \X Relay

LEMMA TickTyped == ASSUME TypeOK, Tick PROVE TypeOK'
<1> USE DEF TypeOK
<1>1. clock' \in 0 .. MaxClock /\ clock < clock'
  BY MailboxAssumption DEF Tick
<1>2. made' \in Seq(Event(clock'))
  <2>1. made \in Seq(Event(clock)) /\ made' = made
    BY DEF Tick, Event
  <2>2. Event(clock) \subseteq Event(clock')
    BY DEF Tick, Event
  <2>3. Seq(Event(clock)) \subseteq Seq(Event(clock'))
    BY <2>2, SeqMonotonic
  <2> QED BY <2>1, <2>3
<1>3. asked' \cup subs' \subseteq (1 .. listens') \X (0 .. clock') \X Relay
  BY <1>1 DEF Tick, receiver, session
<1>4. slow' \subseteq Events'
  BY DEF Tick, Events
<1>5. began' \in 0 .. clock' /\ lastOnline' \in 0 .. clock'
  BY <1>1 DEF Tick, receiver, session
<1> QED
  BY <1>1, <1>2, <1>3, <1>4, <1>5 DEF Tick, relays, receiver, session, Events, Event

LEMMA ArriveTyped ==
  ASSUME TypeOK, NEW n \in Events, NEW y \in Relay, NEW said \in {"ok", "no"}, NEW took \in BOOLEAN,
         Arrive(n, y, said, took)
  PROVE  TypeOK'
<1>1. ack' \in Seq(Acks) /\ Len(ack') = Len(ack)
  BY ArriveAcks
<1>2. UNCHANGED <<clock, made, cache, received, slow, receiver>>
  BY DEF Arrive
<1>3. stored' \in [Relay -> SUBSET Events] /\ incoming' \subseteq Parcels /\ (~ online => incoming' = {})
  <2>1. CASE took
    <3>1. PICK kept \in Keeps(y, n) : stored' = [stored EXCEPT ![y] = kept]
      BY <2>1 DEF Arrive
    <3>2. kept \in SUBSET Events
      BY KeepsTyped
    <3>3. incoming' = incoming \cup
            {<<u[1], n, y>> : u \in {v \in subs : v[3] = y /\ Listens(n, v[2])}}
      BY <2>1 DEF Arrive
    <3>4. \A u \in subs : u[1] \in 1 .. listens
      BY DEF TypeOK
    <3>5. \A i \in incoming' : i \in incoming \/ \E u \in subs : i = <<u[1], n, y>>
      BY <3>3
    <3>6. \A i \in incoming' : i \in Parcels
      BY <3>4, <3>5 DEF TypeOK, Parcels
    <3> QED BY <3>1, <3>2, <3>5, <3>6 DEF TypeOK
  <2>2. CASE ~took
    BY <2>2 DEF Arrive, TypeOK, Parcels
  <2> QED BY <2>1, <2>2
<1> QED BY <1>1, <1>2, <1>3 DEF TypeOK, receiver, session, Events, Acks, Parcels

LEMMA DiscoverTyped == ASSUME TypeOK, NEW ys \in SUBSET Relay, DiscoverAgents(ys) PROVE TypeOK'
<1> USE DEF TypeOK
<1>1. Cards(ys) \subseteq Events
  BY DEF Cards
<1>2. \A n \in Events : made[n].author \in XOnlyKeys /\ made[n].identity \in Addresses
  <2>1. made \in Seq(Event(clock))
    BY DEF Event
  <2>2. \A n \in Events : made[n] \in Event(clock)
    BY <2>1, ElementOfSeq DEF Events
  <2> QED BY <2>2 DEF Event
<1>3. PICK last \in [{made[n].identity : n \in Cards(ys)} -> Cards(ys)] :
         cache' = [a \in DOMAIN cache \cup DOMAIN last |->
                     IF a \in DOMAIN last THEN made[last[a]].author ELSE cache[a]]
  BY DEF DiscoverAgents
<1>4. DOMAIN last \subseteq Addresses /\ \A a \in DOMAIN last : last[a] \in Events
  BY <1>1, <1>2
<1>5. DOMAIN cache' \subseteq Addresses /\ \A a \in DOMAIN cache' : cache'[a] \in XOnlyKeys
  BY <1>2, <1>3, <1>4
<1> QED BY <1>5 DEF DiscoverAgents, relays, receiver, session, Events

LEMMA ListenTyped == ASSUME TypeOK, Listen PROVE TypeOK'
<1>1. /\ listens \in Nat /\ listens' = listens + 1 /\ listens + 1 \in 1 .. MaxCalls
      /\ closer' = listens + 1 /\ online'
      /\ asked' = asked \cup {<<listens + 1, clock, y>> : y \in Relay}
      /\ UNCHANGED <<clock, made, cache, subs, incoming, gaps, lastOnline, received, slow, ack,
                     stored>>
  <2>1. Len(made) \in Nat /\ MaxCalls \in Nat /\ listens \in Nat
    BY MailboxAssumption, LenProperties DEF TypeOK
  <2> QED BY <2>1 DEF Listen, relays
<1>2. clock \in Nat
  BY MailboxAssumption DEF TypeOK
<1>3. asked' \cup subs' \subseteq (1 .. listens + 1) \X (0 .. clock) \X Relay
  <2>1. asked \cup subs \subseteq (1 .. listens + 1) \X (0 .. clock) \X Relay
    BY <1>1 DEF TypeOK
  <2>2. \A y \in Relay : <<listens + 1, clock, y>> \in (1 .. listens + 1) \X (0 .. clock) \X Relay
    BY <1>1, <1>2
  <2> QED BY <1>1, <2>1, <2>2
<1>4. incoming' \subseteq (1 .. listens + 1) \X Events \X Relay
  BY <1>1 DEF TypeOK
<1>5. began' \in 0 .. clock /\ answered' \subseteq Relay
  BY <1>2 DEF Listen, TypeOK
<1>6. closer' \in 0 .. listens' /\ listens' \in 0 .. MaxCalls
  BY <1>1
<1> QED BY <1>1, <1>3, <1>4, <1>5, <1>6 DEF TypeOK, Events

LEMMA AttachTyped == ASSUME TypeOK, NEW s \in asked, Attach(s) PROVE TypeOK'
<1>1. s[1] \in 1 .. listens /\ s[3] \in Relay /\ s \in Lines /\ online
  BY DEF TypeOK, Lines
<1>2. /\ asked' \cup subs' = asked \cup subs
      /\ UNCHANGED <<clock, made, cache, session, answered, received, relays>>
  BY DEF Attach
<1>3. /\ \A i \in incoming' : i \in incoming \/ \E n \in stored[s[3]] : i = <<s[1], n, s[3]>>
      /\ slow' \subseteq slow \cup stored[s[3]]
  BY DEF Attach
<1>4. stored[s[3]] \subseteq Events
  BY <1>1 DEF TypeOK
<1>5. incoming' \subseteq Parcels
  BY <1>1, <1>3, <1>4 DEF TypeOK, Parcels
<1> QED BY <1>1, <1>2, <1>3, <1>4, <1>5 DEF TypeOK, session, relays, Events, Parcels

LEMMA EndTyped ==
  ASSUME TypeOK, EndSession, asked' = {}, subs' = {}, incoming' = {}
  PROVE  TypeOK'
<1>1. /\ online' = FALSE /\ lastOnline' = clock /\ closer' = 0 /\ began' = 0 /\ answered' = {}
      /\ UNCHANGED <<clock, made, cache, listens, received, slow, ack, stored>>
      /\ gaps' \subseteq gaps \cup Relay
  BY DEF EndSession, relays
<1>2. lastOnline' \in 0 .. clock /\ began' \in 0 .. clock /\ closer' \in 0 .. listens
  BY <1>1, MailboxAssumption DEF TypeOK
<1> QED BY <1>1, <1>2 DEF TypeOK, Events

LEMMA NextTyped == ASSUME TypeOK, [Next]_vars PROVE TypeOK'
<1>1. CASE PublishAgentCard
  BY <1>1, CardMade, MakeTyped
<1>2. ASSUME NEW persist \in BOOLEAN, NEW nostrPubkey \in {{}, BobKey}, Send(persist, nostrPubkey)
      PROVE  TypeOK'
  BY <1>2, RequestMade, MakeTyped
<1>3. CASE Close
  BY <1>3, EndTyped DEF Close
<1>4. ASSUME NEW y \in Relay, Drop(y) PROVE TypeOK'
  <2>1. /\ asked' \subseteq asked /\ subs' \subseteq subs /\ incoming' \subseteq incoming
        /\ UNCHANGED <<clock, made, cache, session, answered, received, slow, relays>>
    BY <1>4 DEF Drop
  <2> QED BY <2>1 DEF TypeOK, session, relays, Events
<1>5. ASSUME NEW i \in incoming, Deliver(i) PROVE TypeOK'
  <2>1. /\ incoming' \subseteq incoming /\ received' \subseteq received \cup {i[2]} /\ i[2] \in Events
        /\ UNCHANGED <<clock, made, cache, slow, relays, receiver>>
    BY <1>5 DEF Deliver, TypeOK
  <2> QED BY <2>1 DEF TypeOK, session, receiver, relays, Events
<1>6. ASSUME NEW ys \in SUBSET Relay, FetchOfflineMessages(ys) PROVE TypeOK'
  <2>1. /\ received' \subseteq received \cup UNION {stored[y] : y \in ys}
        /\ answered' \subseteq answered \cup ys
        /\ UNCHANGED <<clock, made, cache, session, asked, subs, incoming, slow, relays>>
    BY <1>6 DEF FetchOfflineMessages
  <2>2. UNION {stored[y] : y \in ys} \subseteq Events
    BY DEF TypeOK
  <2> QED BY <2>1, <2>2 DEF TypeOK, session, relays, Events
<1>7. CASE UNCHANGED vars
  BY <1>7 DEF vars, relays, receiver, session, Events, TypeOK
<1> QED
  BY <1>1, <1>2, <1>3, <1>4, <1>5, <1>6, <1>7,
     TickTyped, ArriveTyped, DiscoverTyped, ListenTyped, AttachTyped DEF Next

(* The variables of the mailbox keep their types. *)
THEOREM TypeCorrect == Spec => []TypeOK
  BY InitTyped, NextTyped, PTL DEF Spec

(* After close() no subscription is open, so nothing is on its way: what   *)
(* is received from a subscription is received on line.                    *)
THEOREM StopSilencesHolds == Spec => StopSilences
<1>1. TypeOK => [\A i \in incoming : Deliver(i) => online]_vars
  BY DEF TypeOK
<1> QED BY <1>1, TypeCorrect, PTL DEF Spec, StopSilences

-----------------------------------------------------------------------------
(* Cards. *)

IsVersion(k, n) ==
  /\ made[k].kind = "card" /\ made[k].author = made[n].author
  /\ made[k].identity = made[n].identity /\ made[k].at >= made[n].at

(* A relay that accepted a card keeps that version or a newer one. *)
CardsKept ==
  \A n \in Events, y \in Relay :
    made[n].kind = "card" /\ ack[n][y] = "ok" => \E k \in stored[y] : IsVersion(k, n)

LEMMA EventTyped ==
  ASSUME TypeOK, NEW n \in Events
  PROVE  made[n] \in Event(clock) /\ made[n].at \in Nat
<1>1. made \in Seq(Event(clock))
  BY DEF TypeOK, Event
<1>2. made[n] \in Event(clock)
  BY <1>1, ElementOfSeq DEF Events
<1> QED BY <1>2 DEF Event

LEMMA MakeKeepsCards ==
  ASSUME TypeOK, CardsKept, NEW e \in Event(clock), Make(e) PROVE CardsKept'
<1>1. UNCHANGED stored
  BY DEF Make
<1>2. \A y \in Relay : stored[y] \subseteq Events
  BY DEF TypeOK
<1>3. \A n \in Events : made'[n] = made[n] /\ ack'[n] = ack[n]
  BY MakeAdds
<1>4. ASSUME NEW n \in Events', NEW y \in Relay, ack'[n][y] = "ok" PROVE n \in Events
  BY <1>4, MakeAdds DEF Events
<1> QED BY <1>1, <1>2, <1>3, <1>4 DEF CardsKept, IsVersion

LEMMA ArriveKeepsCards ==
  ASSUME TypeOK, CardsKept,
         NEW n \in Events, NEW y \in Relay, NEW said \in {"ok", "no"}, NEW took \in BOOLEAN,
         Arrive(n, y, said, took)
  PROVE  CardsKept'
<1>1. UNCHANGED made /\ Events' = Events
  BY DEF Arrive, Events
<1>2. /\ ack[n][y] = "none" /\ ack'[n][y] = said
      /\ \A k \in Events, z \in Relay : k # n \/ z # y => ack'[k][z] = ack[k][z]
  BY ArriveAcks DEF Arrive
<1>3. \A z \in Relay : stored[z] \subseteq Events
  BY DEF TypeOK
<1>4. \A k \in Events : made[k].at \in Nat
  BY EventTyped
<1>5. ASSUME NEW m \in Events, NEW z \in Relay, made[m].kind = "card", ack'[m][z] = "ok"
      PROVE  \E k \in stored'[z] : IsVersion(k, m)
  <2>1. CASE ~took
    <3>1. stored' = stored /\ said # "ok"
      BY <2>1 DEF Arrive
    <3>2. ack[m][z] = "ok"
      BY <1>2, <1>5, <3>1
    <3> QED BY <3>1, <3>2, <1>5 DEF CardsKept
  <2>2. CASE took
    <3>1. PICK kept \in Keeps(y, n) : stored' = [stored EXCEPT ![y] = kept]
      BY <2>2 DEF Arrive
    <3>2. \A x \in Relay : stored'[x] = IF x = y THEN kept ELSE stored[x]
      BY <3>1 DEF TypeOK
    <3>3. CASE z # y
      BY <1>2, <1>5, <3>2, <3>3 DEF CardsKept
    <3>4. CASE z = y
      <4> DEFINE versions == {k \in stored[y] : /\ made[k].kind = "card" /\ made[n].kind = "card"
                                                /\ made[k].author = made[n].author
                                                /\ made[k].identity = made[n].identity}
                 latest == (stored[y] \ versions) \cup {n}
      <4>1. \/ kept = stored[y] /\ (made[n].kind = "card" => \E k \in versions : made[k].at >= made[n].at)
            \/ kept = latest /\ \A k \in versions : ~ (made[k].at > made[n].at)
        BY <1>3, <1>4 DEF Keeps
      <4>2. CASE m = n
        <5>1. CASE kept = latest
          BY <1>4, <1>5, <3>2, <3>4, <4>2, <5>1 DEF IsVersion
        <5>2. ASSUME NEW k \in versions, kept = stored[y], made[k].at >= made[n].at
              PROVE  \E j \in stored'[z] : IsVersion(j, m)
          BY <3>2, <3>4, <4>2, <5>2 DEF IsVersion
        <5> QED BY <1>5, <4>1, <4>2, <5>1, <5>2
      <4>3. CASE m # n
        <5>1. PICK k \in stored[y] : IsVersion(k, m)
          BY <1>2, <1>5, <3>4, <4>3 DEF CardsKept
        <5>2. CASE k \in kept
          BY <3>2, <3>4, <5>1, <5>2
        <5>3. CASE k \notin kept
          <6>1. kept = latest /\ k \in versions /\ ~ (made[k].at > made[n].at)
            BY <4>1, <5>1, <5>3
          <6>2. IsVersion(n, m)
            BY <1>3, <1>4, <5>1, <6>1 DEF IsVersion
          <6> QED BY <3>2, <3>4, <6>1, <6>2
        <5> QED BY <5>2, <5>3
      <4> QED BY <4>2, <4>3
    <3> QED BY <3>3, <3>4
  <2> QED BY <2>1, <2>2
<1> QED BY <1>1, <1>5 DEF CardsKept, IsVersion

LEMMA NextKeepsCards == ASSUME TypeOK, CardsKept, [Next]_vars PROVE CardsKept'
<1>1. CASE PublishAgentCard
  BY <1>1, CardMade, MakeKeepsCards
<1>2. ASSUME NEW persist \in BOOLEAN, NEW nostrPubkey \in {{}, BobKey}, Send(persist, nostrPubkey)
      PROVE  CardsKept'
  BY <1>2, RequestMade, MakeKeepsCards
<1>3. ASSUME NEW n \in Events, NEW y \in Relay, NEW said \in {"ok", "no"}, NEW took \in BOOLEAN,
             Arrive(n, y, said, took)
      PROVE  CardsKept'
  BY <1>3, ArriveKeepsCards
<1>4. ASSUME UNCHANGED <<made, ack, stored>> PROVE CardsKept'
  BY <1>4 DEF CardsKept, IsVersion, Events
<1>5. CASE Tick \/ Listen \/ Close
  BY <1>4, <1>5 DEF Tick, Listen, Close, EndSession, relays
<1>6. ASSUME NEW ys \in SUBSET Relay, DiscoverAgents(ys) \/ FetchOfflineMessages(ys)
      PROVE  CardsKept'
  BY <1>4, <1>6 DEF DiscoverAgents, FetchOfflineMessages, relays
<1>7. ASSUME NEW i \in incoming, Deliver(i) PROVE CardsKept'
  BY <1>4, <1>7 DEF Deliver, relays
<1>8. ASSUME NEW x, Attach(x) \/ Drop(x) PROVE CardsKept'
  BY <1>4, <1>8 DEF Attach, Drop, relays
<1>9. CASE UNCHANGED vars
  BY <1>4, <1>9 DEF vars, relays
<1> QED
  BY <1>1, <1>2, <1>3, <1>5, <1>6, <1>7, <1>8, <1>9 DEF Next

(* A card whose publication succeeded, or a newer one, is found by every   *)
(* discovery that reaches all relays.                                      *)
THEOREM FreshCardIsFoundHolds == Spec => []FreshCardIsFound
<1>1. Init => CardsKept
  BY DEF Init, CardsKept, Events
<1>2. TypeOK /\ CardsKept => FreshCardIsFound
  <2> SUFFICES ASSUME TypeOK, CardsKept, NEW n \in Events, made[n].kind = "card", Accepted(n)
               PROVE  \E k \in Cards(Relay) :
                        made[k].identity = made[n].identity /\ made[k].at >= made[n].at
    BY DEF FreshCardIsFound
  <2>1. PICK y \in Relay : \E k \in stored[y] : IsVersion(k, n)
    BY DEF CardsKept, Accepted
  <2> QED BY <2>1 DEF Cards, IsVersion
<1> QED BY <1>1, <1>2, TypeCorrect, NextKeepsCards, PTL DEF Spec

-----------------------------------------------------------------------------
(* Signatures. *)

(* What an agent of the mailbox signs is accepted: for every group, every  *)
(* hash, every key the derivation does not refuse.                         *)
THEOREM SignedIsAcceptedHolds == Spec => []SignedIsAccepted
<1>1. SignedIsAccepted
  BY RoundTrip DEF SignedIsAccepted
<1> QED BY <1>1, PTL

(* What is accepted from an agent of the mailbox was signed by it. *)
THEOREM AcceptedIsSignedHolds == Spec => []AcceptedIsSigned
<1>1. AcceptedIsSigned
  BY NothingElseVerifies DEF AcceptedIsSigned
<1> QED BY <1>1, PTL

-----------------------------------------------------------------------------
(* Persisted requests. *)

(* Requests go to the receiver, with the address of their author. *)
Requests ==
  /\ \A n \in Events :
       /\ made[n].kind = "card" => made[n].author = BobKey
       /\ made[n].kind # "card" => made[n].p = BobKey /\ IdentityMatches(n)
  /\ \A a \in DOMAIN cache : cache[a] = BobKey

(* An event that was not slow is on its way for Delay at most. *)
Settled == \A n \in Events \ slow : clock > made[n].at + Delay => ~ OnItsWay(n)

Persisted(n) == made[n].kind = "storable"
ComingFrom(y, n) == \E i \in incoming : i[2] = n /\ i[3] = y

(* Answers count when nothing made before listen() can still come. *)
Session == online /\ answered # {} => clock >= began + Delay

(* What the receiver will not ask for any more it has. *)
CaughtUp ==
  \A y \in Relay \ gaps : \A n \in stored[y] \ slow :
    Persisted(n) /\ made[n].at + Overlap < lastOnline => n \in received

(* What was made before listen(), a relay that answered has given it. *)
Before ==
  online => \A y \in answered \ gaps : \A n \in stored[y] \ slow :
    Persisted(n) /\ made[n].at < began => n \in received

(* A subscription that is open brings all that was made since. *)
Since ==
  \A s \in subs : \A n \in stored[s[3]] :
    Persisted(n) /\ made[n].at >= s[2] => n \in received \/ ComingFrom(s[3], n)

LostInv == TypeOK /\ Requests /\ Settled /\ Session /\ CaughtUp /\ Before /\ Since

LEMMA Numbers ==
  ASSUME TypeOK
  PROVE  /\ clock \in Nat /\ Delay \in Nat /\ Overlap \in Nat
         /\ began \in 0 .. clock /\ lastOnline \in 0 .. clock
         /\ \A n \in Events : made[n].at \in Nat
         /\ \A y \in Relay : stored[y] \subseteq Events
  BY MailboxAssumption, EventTyped DEF TypeOK

LEMMA InitLost == Init => LostInv
  BY InitTyped DEF Init, LostInv, Requests, Settled, Session, CaughtUp, Before, Since, Events

LEMMA MakeLost ==
  ASSUME LostInv, NEW e \in Event(clock), Make(e), e.at = clock,
         e.kind = "card" => e.author = BobKey,
         e.kind # "card" => e.p = BobKey /\ PublicKeyToP2TR(e.author, "mainnet") = e.identity
  PROVE  LostInv'
<1>1. UNCHANGED <<clock, stored, cache, incoming, received, slow, receiver>>
  BY DEF Make
<1>2. /\ Events \subseteq Events' /\ Events' = Events \cup {Len(made) + 1}
      /\ \A n \in Events : made'[n] = made[n] /\ ack'[n] = ack[n]
      /\ made'[Len(made) + 1] = e /\ Len(made) + 1 \notin Events
  BY MakeAdds DEF LostInv, Events
<1>3. TypeOK'
  BY MakeTyped DEF LostInv
<1>4. Requests'
  BY <1>1, <1>2 DEF LostInv, Requests, IdentityMatches
<1>5. Settled'
  <2>1. ~ (clock > e.at + Delay)
    BY Numbers DEF LostInv
  <2>2. \A n \in Events : OnItsWay(n)' <=> OnItsWay(n)
    BY <1>1, <1>2 DEF OnItsWay
  <2> QED BY <1>1, <1>2, <2>1, <2>2 DEF LostInv, Settled
<1>6. /\ \A y \in Relay : stored[y] \subseteq Events
      /\ answered \subseteq Relay /\ \A s \in subs : s[3] \in Relay
  BY DEF LostInv, TypeOK
<1>7. Session'
  BY <1>1 DEF LostInv, Session, receiver, session
<1>8. CaughtUp' /\ Before' /\ Since'
  BY <1>1, <1>2, <1>6
     DEF LostInv, CaughtUp, Before, Since, Persisted, ComingFrom, receiver, session
<1> QED BY <1>3, <1>4, <1>5, <1>7, <1>8 DEF LostInv

LEMMA TickLost == ASSUME LostInv, Tick, TypeOK' PROVE LostInv'
<1>1. /\ UNCHANGED <<made, ack, stored, cache, incoming, received, receiver>>
      /\ Events' = Events /\ clock' = clock + 1
      /\ slow' = slow \cup {n \in Events : OnItsWay(n) /\ clock + 1 > made[n].at + Delay}
  BY DEF Tick, relays, Events
<1>2. Requests'
  BY <1>1 DEF LostInv, Requests, IdentityMatches
<1>3. Settled'
  BY <1>1 DEF Settled, OnItsWay
<1>4. Session'
  BY <1>1, Numbers DEF LostInv, Session, receiver, session
<1>5. CaughtUp' /\ Before' /\ Since'
  BY <1>1 DEF LostInv, CaughtUp, Before, Since, Persisted, ComingFrom, receiver, session
<1> QED BY <1>2, <1>3, <1>4, <1>5 DEF LostInv

(* An event that arrives and was not slow was made no more than Delay ago: *)
(* it is neither older than what the receiver no longer asks for, nor,     *)
(* after an answer, older than listen().                                   *)
LEMMA ArriveLost ==
  ASSUME Overlap >= Delay, LostInv, TypeOK',
         NEW n \in Events, NEW y \in Relay, NEW said \in {"ok", "no"}, NEW took \in BOOLEAN,
         Arrive(n, y, said, took)
  PROVE  LostInv'
<1>1. /\ UNCHANGED <<clock, made, cache, received, slow, receiver>>
      /\ Events' = Events /\ ack[n][y] = "none"
  BY DEF Arrive, Events
<1>2. \A k \in Events, z \in Relay : k # n \/ z # y => ack'[k][z] = ack[k][z]
  <2>1. TypeOK
    BY DEF LostInv
  <2> QED BY <2>1, ArriveAcks, ZenonT(30)
<1>3. /\ \A z \in Relay : \A k \in stored'[z] : k \in stored[z] \/ (k = n /\ z = y /\ took)
      /\ incoming \subseteq incoming' /\ \A i \in incoming' \ incoming : i[2] = n
      /\ took => \A s \in subs : s[3] = y /\ Listens(n, s[2]) => <<s[1], n, y>> \in incoming'
  <2>1. CASE took
    <3>1. PICK kept \in Keeps(y, n) : stored' = [stored EXCEPT ![y] = kept]
      BY <2>1 DEF Arrive
    <3>2. \A k \in kept : k \in stored[y] \/ k = n
      BY DEF Keeps
    <3>3. \A z \in Relay : stored'[z] = IF z = y THEN kept ELSE stored[z]
      BY <3>1 DEF LostInv, TypeOK
    <3>4. incoming' = incoming \cup
            {<<s[1], n, y>> : s \in {u \in subs : u[3] = y /\ Listens(n, u[2])}}
      BY <2>1 DEF Arrive
    <3> QED BY <2>1, <3>2, <3>3, <3>4
  <2>2. CASE ~took
    BY <2>2 DEF Arrive
  <2> QED BY <2>1, <2>2
<1>4. n \notin slow => ~ (clock > made[n].at + Delay)
  BY <1>1 DEF LostInv, Settled, OnItsWay
<1>5. Requests'
  BY <1>1 DEF LostInv, Requests, IdentityMatches
<1>6. Settled'
  <2>1. \A k \in Events \ {n} : OnItsWay(k)' => OnItsWay(k)
    BY <1>2, <1>3 DEF OnItsWay
  <2> QED BY <1>1, <1>4, <2>1 DEF LostInv, Settled
<1>7. Session'
  BY <1>1 DEF LostInv, Session, receiver, session
<1>8. CaughtUp'
  <2> SUFFICES ASSUME NEW z \in Relay \ gaps, NEW k \in stored'[z] \ slow, Persisted(k),
                      made[k].at + Overlap < lastOnline
               PROVE  k \in received
    BY <1>1 DEF CaughtUp, Persisted, receiver, session
  <2>1. k # n
    BY <1>4, Numbers DEF LostInv
  <2> QED BY <1>3, <2>1 DEF LostInv, CaughtUp
<1>9. Before'
  <2> SUFFICES ASSUME online, NEW z \in answered \ gaps, NEW k \in stored'[z] \ slow, Persisted(k),
                      made[k].at < began
               PROVE  k \in received
    BY <1>1 DEF Before, Persisted, receiver, session
  <2>1. z \in Relay
    BY DEF LostInv, TypeOK
  <2>2. clock >= began + Delay
    BY DEF LostInv, Session
  <2>3. k # n
    BY <1>4, <2>2, Numbers DEF LostInv
  <2> QED BY <1>3, <2>1, <2>3 DEF LostInv, Before
<1>10. Since'
  <2> SUFFICES ASSUME NEW s \in subs, NEW k \in stored'[s[3]], Persisted(k), made[k].at >= s[2]
               PROVE  k \in received \/ ComingFrom(s[3], k)'
    BY <1>1 DEF Since, Persisted, receiver
  <2>1. s[3] \in Relay
    BY DEF LostInv, TypeOK
  <2>2. CASE k \in stored[s[3]]
    BY <1>3, <2>2 DEF LostInv, Since, ComingFrom
  <2>3. CASE k = n /\ s[3] = y /\ took
    <3>1. Listens(n, s[2])
      BY <2>3 DEF Listens, LostInv, Requests, Persisted
    <3>2. <<s[1], n, y>> \in incoming'
      BY <1>3, <2>3, <3>1
    <3>3. <<s[1], n, y>>[2] = n /\ <<s[1], n, y>>[3] = y
      OBVIOUS
    <3> QED BY <2>3, <3>2, <3>3 DEF ComingFrom
  <2> QED BY <1>3, <2>1, <2>2, <2>3
<1> QED BY <1>5, <1>6, <1>7, <1>8, <1>9, <1>10 DEF LostInv

(* Every card is the receiver's, so the cache holds no other key. *)
LEMMA DiscoverLost ==
  ASSUME LostInv, TypeOK', NEW ys \in SUBSET Relay, DiscoverAgents(ys) PROVE LostInv'
<1>1. /\ UNCHANGED <<clock, made, incoming, received, slow, relays, receiver>>
      /\ Events' = Events
  BY DEF DiscoverAgents, Events
<1>2. PICK last \in [{made[n].identity : n \in Cards(ys)} -> Cards(ys)] :
         cache' = [a \in DOMAIN cache \cup DOMAIN last |->
                     IF a \in DOMAIN last THEN made[last[a]].author ELSE cache[a]]
  BY DEF DiscoverAgents
<1>3. \A n \in Cards(ys) : made[n].author = BobKey
  BY DEF Cards, LostInv, TypeOK, Requests
<1>4. \A a \in DOMAIN cache' : cache'[a] = BobKey
  <2> SUFFICES ASSUME NEW a \in DOMAIN cache' PROVE cache'[a] = BobKey
    OBVIOUS
  <2>1. CASE a \in DOMAIN last
    BY <1>2, <1>3, <2>1
  <2>2. CASE a \notin DOMAIN last
    BY <1>2, <2>2 DEF LostInv, Requests
  <2> QED BY <2>1, <2>2
<1>5. Requests'
  BY <1>1, <1>4 DEF LostInv, Requests, IdentityMatches
<1>6. Settled' /\ Session'
  BY <1>1 DEF LostInv, Settled, OnItsWay, Session, relays, receiver, session
<1>7. CaughtUp' /\ Before' /\ Since'
  BY <1>1
     DEF LostInv, CaughtUp, Before, Since, Persisted, ComingFrom, relays, receiver, session
<1> QED BY <1>5, <1>6, <1>7 DEF LostInv

(* Nothing of the session has come yet, and no relay has answered in it. *)
LEMMA ListenLost == ASSUME LostInv, TypeOK', Listen PROVE LostInv'
<1>1. /\ UNCHANGED <<clock, made, cache, subs, incoming, gaps, lastOnline, received, slow, ack,
                     stored>>
      /\ Events' = Events
      /\ (online /\ UNCHANGED <<began, answered>>) \/ answered' = {}
  BY DEF Listen, relays, Events
<1>2. Requests' /\ Settled'
  BY <1>1 DEF LostInv, Requests, IdentityMatches, Settled, OnItsWay
<1>3. Session'
  BY <1>1 DEF LostInv, Session
<1>4. CaughtUp' /\ Before' /\ Since'
  BY <1>1 DEF LostInv, CaughtUp, Before, Since, Persisted, ComingFrom
<1> QED BY <1>2, <1>3, <1>4 DEF LostInv

(* The relay replays what it keeps; what it sends late is slow. *)
LEMMA AttachLost == ASSUME LostInv, TypeOK', NEW s \in asked, Attach(s) PROVE LostInv'
<1> DEFINE replayed == {n \in stored[s[3]] : Listens(n, s[2])}
<1>1. /\ UNCHANGED <<clock, made, cache, session, answered, received, ack, stored>>
      /\ Events' = Events /\ subs' = subs \cup {s}
      /\ incoming' = incoming \cup {<<s[1], n, s[3]>> : n \in replayed}
      /\ slow' = slow \cup {n \in replayed : clock > made[n].at + Delay}
  BY DEF Attach, relays, Events
<1>2. s[3] \in Relay /\ \A u \in subs : u[3] \in Relay
  BY DEF LostInv, TypeOK
<1>3. Requests'
  BY <1>1 DEF LostInv, Requests, IdentityMatches
<1>4. Settled'
  <2> SUFFICES ASSUME NEW n \in Events \ slow', clock > made[n].at + Delay PROVE ~ OnItsWay(n)'
    BY <1>1 DEF Settled
  <2>1. ~ OnItsWay(n) /\ n \notin replayed
    BY <1>1 DEF LostInv, Settled
  <2>2. \A i \in incoming' : i \in incoming \/ \E k \in replayed : i = <<s[1], k, s[3]>>
    BY <1>1
  <2>3. \A i \in incoming' : i[2] # n
    BY <2>1, <2>2 DEF OnItsWay
  <2> QED BY <1>1, <2>1, <2>3 DEF OnItsWay
<1>5. Session'
  BY <1>1 DEF LostInv, Session, session
<1>6. CaughtUp' /\ Before'
  BY <1>1 DEF LostInv, CaughtUp, Before, Persisted, session
<1>7. Since'
  <2> SUFFICES ASSUME NEW u \in subs', NEW n \in stored[u[3]], Persisted(n), made[n].at >= u[2]
               PROVE  n \in received \/ ComingFrom(u[3], n)'
    BY <1>1 DEF Since, Persisted
  <2>1. CASE u \in subs
    BY <1>1, <2>1 DEF LostInv, Since, ComingFrom
  <2>2. CASE u = s
    <3>1. made[n].p = BobKey
      BY <1>2, <2>2, Numbers DEF LostInv, Requests, Persisted
    <3>2. n \in replayed
      BY <2>2, <3>1 DEF Listens, Persisted
    <3>3. <<s[1], n, s[3]>> \in incoming' /\ <<s[1], n, s[3]>>[2] = n /\ <<s[1], n, s[3]>>[3] = s[3]
      BY <1>1, <3>2
    <3> QED BY <2>2, <3>3 DEF ComingFrom
  <2> QED BY <1>1, <2>1, <2>2
<1> QED BY <1>3, <1>4, <1>5, <1>6, <1>7 DEF LostInv

(* A connection that is lost takes all its subscriptions with it. *)
LEMMA DropLost == ASSUME LostInv, TypeOK', NEW y \in Relay, Drop(y) PROVE LostInv'
<1>1. /\ UNCHANGED <<clock, made, cache, session, answered, received, slow, ack, stored>>
      /\ Events' = Events /\ subs' = {s \in subs : s[3] # y}
      /\ incoming' = {i \in incoming : i[3] # y}
  BY DEF Drop, relays, Events
<1>2. Requests' /\ Settled' /\ Session'
  BY <1>1 DEF LostInv, Requests, IdentityMatches, Settled, OnItsWay, Session, session
<1>3. CaughtUp' /\ Before'
  BY <1>1 DEF LostInv, CaughtUp, Before, Persisted, session
<1>4. Since'
  BY <1>1 DEF LostInv, Since, Persisted, ComingFrom
<1> QED BY <1>2, <1>3, <1>4 DEF LostInv

(* What is under way when a session ends is Delay old at most, so it will  *)
(* be asked for; of a relay that served the session the rest was received. *)
LEMMA CloseLost == ASSUME Overlap >= Delay, LostInv, TypeOK', Close PROVE LostInv'
<1>1. /\ UNCHANGED <<clock, made, cache, listens, received, slow, ack, stored>>
      /\ Events' = Events /\ subs' = {} /\ incoming' = {} /\ online' = FALSE /\ online
      /\ lastOnline' = clock /\ gaps' = gaps \cup {y \in Relay : ~ Served(y)}
  BY DEF Close, EndSession, relays, Events
<1>2. Requests' /\ Settled' /\ Session' /\ Before' /\ Since'
  BY <1>1
     DEF LostInv, Requests, IdentityMatches, Settled, OnItsWay, Session, Before, Since
<1>3. CaughtUp'
  <2> SUFFICES ASSUME NEW y \in Relay \ gaps, Served(y), NEW n \in stored[y], n \notin slow,
                      Persisted(n), made[n].at + Overlap < clock
               PROVE  n \in received
    BY <1>1 DEF CaughtUp, Persisted
  <2>1. n \in Events
    BY Numbers DEF LostInv
  <2>2. clock > made[n].at + Delay
    BY <2>1, Numbers DEF LostInv
  <2>3. ~ ComingFrom(y, n)
    BY <2>1, <2>2 DEF LostInv, Settled, OnItsWay, ComingFrom
  <2>4. CASE made[n].at < began
    BY <1>1, <2>4 DEF LostInv, Before, Served
  <2>5. CASE ~ (made[n].at < began)
    <3>1. PICK s \in subs : s[3] = y /\ s[2] = began
      BY DEF Served
    <3>2. made[n].at >= s[2]
      BY <2>1, <2>5, <3>1, Numbers DEF LostInv
    <3> QED BY <2>3, <3>1, <3>2 DEF LostInv, Since
  <2> QED BY <2>4, <2>5
<1> QED BY <1>2, <1>3 DEF LostInv

LEMMA DeliverLost ==
  ASSUME LostInv, TypeOK', NEW i \in incoming, Deliver(i) PROVE LostInv'
<1>1. /\ UNCHANGED <<clock, made, cache, slow, ack, stored, receiver>>
      /\ Events' = Events /\ incoming' = incoming \ {i} /\ received \subseteq received'
  BY DEF Deliver, relays, Events
<1>2. Requests' /\ Settled' /\ Session'
  BY <1>1
     DEF LostInv, Requests, IdentityMatches, Settled, OnItsWay, Session, receiver, session
<1>3. CaughtUp' /\ Before'
  BY <1>1 DEF LostInv, CaughtUp, Before, Persisted, receiver, session
<1>4. Since'
  <2> SUFFICES ASSUME NEW s \in subs, NEW n \in stored[s[3]], Persisted(n), made[n].at >= s[2]
               PROVE  n \in received' \/ ComingFrom(s[3], n)'
    BY <1>1 DEF Since, Persisted, receiver
  <2>1. n \in Events
    BY Numbers DEF LostInv, TypeOK
  <2>2. n \in received \/ ComingFrom(s[3], n)
    BY DEF LostInv, Since
  <2>3. CASE i[2] = n
    <3>1. IdentityMatches(n)
      BY <2>1 DEF LostInv, Requests, Persisted
    <3> QED BY <2>3, <3>1 DEF Deliver
  <2>4. CASE i[2] # n
    BY <1>1, <2>2, <2>4 DEF ComingFrom
  <2> QED BY <2>3, <2>4
<1> QED BY <1>2, <1>3, <1>4 DEF LostInv

(* A relay that answers returns what it keeps since lastOnline - Overlap:  *)
(* what is older the receiver has.                                         *)
LEMMA FetchLost ==
  ASSUME LostInv, TypeOK', NEW ys \in SUBSET Relay, FetchOfflineMessages(ys) PROVE LostInv'
<1>1. /\ UNCHANGED <<clock, made, cache, session, asked, subs, incoming, slow, ack, stored>>
      /\ Events' = Events /\ received \subseteq received'
      /\ \/ answered' = answered
         \/ answered' = answered \cup ys /\ clock >= began + Delay
  BY DEF FetchOfflineMessages, relays, Events
<1>2. Requests' /\ Settled' /\ Session'
  BY <1>1 DEF LostInv, Requests, IdentityMatches, Settled, OnItsWay, Session, session
<1>3. CaughtUp' /\ Since'
  BY <1>1 DEF LostInv, CaughtUp, Since, Persisted, ComingFrom, session
<1>4. Before'
  <2> SUFFICES ASSUME online, NEW y \in answered' \ gaps, NEW n \in stored[y] \ slow, Persisted(n),
                      made[n].at < began
               PROVE  n \in received'
    BY <1>1 DEF Before, Persisted, session
  <2>1. CASE y \in answered
    BY <1>1, <2>1 DEF LostInv, Before
  <2>2. CASE y \in ys
    <3>1. n \in Events
      BY <2>2, Numbers DEF LostInv
    <3>2. made[n].p = BobKey /\ IdentityMatches(n)
      BY <3>1 DEF LostInv, Requests, Persisted
    <3>3. made[n].at \in Nat /\ Overlap \in Nat /\ lastOnline \in Nat
      BY <3>1, Numbers DEF LostInv
    <3>4. CASE made[n].at >= lastOnline - Overlap
      <4>1. Fetches(n, lastOnline - Overlap)
        BY <3>2, <3>4 DEF Fetches, Persisted
      <4> QED BY <2>2, <3>2, <4>1 DEF FetchOfflineMessages
    <3>5. CASE ~ (made[n].at >= lastOnline - Overlap)
      <4>1. made[n].at + Overlap < lastOnline
        BY <3>3, <3>5
      <4> QED BY <1>1, <2>2, <4>1 DEF LostInv, CaughtUp
    <3> QED BY <3>4, <3>5
  <2> QED BY <1>1, <2>1, <2>2
<1> QED BY <1>2, <1>3, <1>4 DEF LostInv

LEMMA NextLost ==
  ASSUME Network = "mainnet", Overlap >= Delay, LostInv, [Next]_vars PROVE LostInv'
<1>1. TypeOK /\ TypeOK'
  BY NextTyped DEF LostInv
<1>2. CASE PublishAgentCard
  BY <1>1, <1>2, CardMade, MakeLost
<1>3. ASSUME NEW persist \in BOOLEAN, NEW nostrPubkey \in {{}, BobKey}, Send(persist, nostrPubkey)
      PROVE  LostInv'
  <2>1. PICK e \in Event(clock) :
          /\ Make(e) /\ e.kind # "card" /\ e.at = clock
          /\ e.p = BobKey \/ \E a \in DOMAIN cache : e.p = cache[a]
          /\ e.author = GetPublicKey(Alice) /\ e.identity = GetAddress(Alice, Network)
    BY <1>1, <1>3, RequestMade
  <2>2. e.p = BobKey
    BY <2>1 DEF LostInv, Requests
  <2>3. PublicKeyToP2TR(e.author, "mainnet") = e.identity
    BY <2>1 DEF GetAddress
  <2> QED BY <2>1, <2>2, <2>3, MakeLost
<1>4. ASSUME NEW n \in Events, NEW y \in Relay, NEW said \in {"ok", "no"}, NEW took \in BOOLEAN,
             Arrive(n, y, said, took)
      PROVE  LostInv'
  BY <1>1, <1>4, ArriveLost
<1>5. ASSUME NEW ys \in SUBSET Relay, DiscoverAgents(ys) \/ FetchOfflineMessages(ys)
      PROVE  LostInv'
  BY <1>1, <1>5, DiscoverLost, FetchLost
<1>6. CASE Tick \/ Listen \/ Close
  BY <1>1, <1>6, TickLost, ListenLost, CloseLost
<1>7. ASSUME NEW s \in asked, Attach(s) PROVE LostInv'
  BY <1>1, <1>7, AttachLost
<1>8. ASSUME NEW y \in Relay, Drop(y) PROVE LostInv'
  BY <1>1, <1>8, DropLost
<1>9. ASSUME NEW i \in incoming, Deliver(i) PROVE LostInv'
  BY <1>1, <1>9, DeliverLost
<1>10. CASE UNCHANGED vars
  <2>1. /\ UNCHANGED <<clock, made, stored, ack, cache, incoming, received, slow, receiver>>
        /\ Events' = Events
    BY <1>10 DEF vars, relays, receiver, session, Events
  <2>2. Requests' /\ Settled' /\ Session'
    BY <2>1
       DEF LostInv, Requests, IdentityMatches, Settled, OnItsWay, Session, receiver, session
  <2>3. CaughtUp' /\ Before' /\ Since'
    BY <2>1 DEF LostInv, CaughtUp, Before, Since, Persisted, ComingFrom, receiver, session
  <2> QED BY <1>1, <2>2, <2>3 DEF LostInv
<1> QED
  BY <1>2, <1>3, <1>4, <1>5, <1>6, <1>7, <1>8, <1>9, <1>10 DEF Next

(* On the main network, if the receiver asks for Delay seconds more than   *)
(* it was away, a relay that has served each of its sessions keeps no      *)
(* persisted request from it, unless the request was slow.  Nothing is     *)
(* said of a relay that missed a session, or one asked too early, nor of   *)
(* the documented query, which has no overlap.                             *)
THEOREM NothingLostHolds ==
  ASSUME Network = "mainnet", Overlap >= Delay PROVE Spec => []NothingLost
<1>1. LostInv => NothingLost
  <2> SUFFICES ASSUME LostInv, online, NEW y \in Relay \ gaps, Served(y), NEW n \in stored[y] \ slow,
                      Persisted(n)
               PROVE  n \in received \/ ComingFrom(y, n)
    BY DEF NothingLost, Persisted, ComingFrom
  <2>1. PICK s \in subs : s[3] = y /\ s[2] = began
    BY DEF Served
  <2>2. CASE made[n].at < began
    BY <2>2 DEF LostInv, Before, Served
  <2>3. CASE ~ (made[n].at < began)
    <3>1. made[n].at >= s[2]
      BY <2>1, <2>3, Numbers DEF LostInv
    <3> QED BY <2>1, <3>1 DEF LostInv, Since
  <2> QED BY <2>2, <2>3
<1>2. LostInv /\ [Next]_vars => LostInv'
  BY NextLost
<1> QED BY <1>1, <1>2, InitLost, PTL DEF Spec
=============================================================================
