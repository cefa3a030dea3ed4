------------------------------- MODULE MCMailbox -------------------------------
(* Instances of Mailbox and Envelope for TLC: a group of order 7 in which   *)
(* the points of odd scalars have an even y, and texts of small numbers.   *)
EXTENDS Mailbox, TLC

CONSTANTS hello, bye   \* two payloads

MCEvenY == {1, 3, 5}
MCTapTweak == (XOnly(1) :> 2) @@ (XOnly(2) :> 3) @@ (XOnly(3) :> 2)
MCBech32m ==
  [c \in Encodable |-> <<IF c[1] = "bc" THEN 8 ELSE 9, CHOOSE k \in c[2] : k \in MCEvenY>>]

MCChar == 1 .. 20
MCVersion == <<1>>
MCDecimal == [t \in 0 .. 1 |-> <<10 + t>>]
MCCard == [identity : Addresses, name : 1 .. 1]
MCCanonical ==
  [v \in {hello, bye} \cup MCCard |->
     CASE v = hello -> <<14>> [] v = bye -> <<14, 15>> [] OTHER -> <<16>> \o v.identity]

(* An id may end in an address, and `to` may be left out. *)
Own == GetAddress(Alice, "mainnet")
MCUnsigned ==
  {BuildMessage(id, d, network, to, <<3>>, <<2>>, payload, 1) :
     id \in {<<1>>, <<1>> \o Own}, d \in {Alice, Bob}, network \in Networks,
     to \in {<<>>, Own, GetAddress(Bob, "mainnet")}, payload \in {hello, bye}}

Relays == Permutations(Relay)
=============================================================================
