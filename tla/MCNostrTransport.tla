--------------------------- MODULE MCNostrTransport ---------------------------
(* Instances of NostrTransport for TLC. *)
EXTENDS NostrTransport, TLC

Interchangeable == Permutations(Request) \cup Permutations(Relay)
=============================================================================
