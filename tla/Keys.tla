--------------------------------- MODULE Keys ---------------------------------
(***************************************************************************)
(* KeyManager: private keys, x-only public keys and P2TR addresses.        *)
(*                                                                         *)
(* A point of the curve is written as the scalar k of k*G.  A public key   *)
(* holds only the x coordinate, which k*G and its negation (Order - k)*G   *)
(* share: it is the set of the two.  Exactly one of them has an even y,    *)
(* and lifting an x coordinate yields that one.                            *)
(***************************************************************************)
EXTENDS Integers

CONSTANTS
  Order,    \* the order of the curve's group
  EvenY,    \* the scalars whose point has an even y
  TapTweak, \* the tagged hash of a public key, as a number
  Bech32m   \* the text that encodes a prefix and a key

Scalars == 1 .. (Order - 1)

(* x(k*G) *)
XOnly(k) == {k, Order - k}
XOnlyKeys == {XOnly(k) : k \in Scalars}

Networks == {"mainnet", "testnet"}
Prefix == [mainnet |-> "bc", testnet |-> "tb"]
Encodable == {"bc", "tb"} \X XOnlyKeys

ASSUME KeysAssumption ==
  /\ Order \in Nat \ {0}
  /\ \A k \in Scalars : k \in EvenY <=> Order - k \notin EvenY
  /\ TapTweak \in [XOnlyKeys -> Nat]
  /\ DOMAIN Bech32m = Encodable
  /\ \A c, d \in Encodable : Bech32m[c] = Bech32m[d] => c = d

-----------------------------------------------------------------------------
GetPublicKey(d) == XOnly(d)

LiftX(p) == CHOOSE k \in p : k \in EvenY

(* Q = P + t*G, of which the x coordinate is returned. *)
TaprootTweak(p) == XOnly((LiftX(p) + TapTweak[p]) % Order)

(* Mutant: an internal key with an odd y is not negated. *)
TweakPrivateKey_NotNegated(d) == (d + TapTweak[XOnly(d)]) % Order

TweakPrivateKey(d) ==
  ((IF d \in EvenY THEN d ELSE Order - d) + TapTweak[XOnly(d)]) % Order

(* Both functions throw when the hash is no scalar, and neither returns a  *)
(* key when the sum is zero: the keys for which this happens are left out. *)
PrivateKeys ==
  {d \in Scalars : TapTweak[XOnly(d)] \in Scalars /\ TweakPrivateKey(d) # 0}

PublicKeyToP2TR(p, network) == Bech32m[<<Prefix[network], TaprootTweak(p)>>]

(* The tweaked key in an address, whatever its network. *)
P2trToPublicKey(address) == (CHOOSE c \in Encodable : Bech32m[c] = address)[2]
=============================================================================
