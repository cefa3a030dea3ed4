----------------------------- MODULE MCSnapAgent -----------------------------
(* Instances of SnapAgent for TLC.                                           *)
EXTENDS SnapAgent, TLC

Request(id, ts) ==
  [from |-> "alice", id |-> id, to |-> "bob", type |-> "request", method |-> "run",
   timestamp |-> ts, wellFormed |-> TRUE, sig |-> "good"]

(* Two ids; id 1 is also used again, in a message one second younger. *)
Copies == {Request(1, 2), Request(1, 3), Request(2, 2)}

(* One message per way of being turned away or of failing, and two that    *)
(* the pipeline takes: unaddressed, and an unsigned response.              *)
Assorted ==
  LET good == Request(1, 2)
  IN { good,
       [good EXCEPT !.wellFormed = FALSE],
       [good EXCEPT !.sig = "malformed"],
       [good EXCEPT !.sig = "absent"],
       [good EXCEPT !.sig = "undecodable"],
       [good EXCEPT !.sig = "wrong"],
       [good EXCEPT !.to = "carol"],
       [good EXCEPT !.to = "nobody"],
       [good EXCEPT !.method = "other"],
       [good EXCEPT !.type = "response", !.sig = "absent"] }

OneMessage == {Request(1, 2)}

Calls == Permutations(Call)
=============================================================================
