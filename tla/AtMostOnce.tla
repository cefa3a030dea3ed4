------------------------------ MODULE AtMostOnce ------------------------------
(***************************************************************************)
(* What the replay check of an agent promises, with no calls, no clock and *)
(* no store in sight.  A message may be delivered many times.  While the   *)
(* process lives, one of its deliveries at most is accepted, and only an   *)
(* accepted delivery is executed, at most once.  A restart forgets         *)
(* everything.                                                             *)
(***************************************************************************)
CONSTANTS Delivery, Message

VARIABLES
  accepted,  \* pairs of a delivery and its message
  executed   \* those of them whose handler was invoked

vars == <<accepted, executed>>

Init == accepted = {} /\ executed = {}

Accept(d, m) ==
  /\ \A e \in Delivery : <<e, m>> \notin accepted
  /\ accepted' = accepted \cup {<<d, m>>}
  /\ UNCHANGED executed

Execute(d, m) ==
  /\ <<d, m>> \in accepted \ executed
  /\ executed' = executed \cup {<<d, m>>}
  /\ UNCHANGED accepted

Restart == accepted' = {} /\ executed' = {}

Next == Restart \/ \E d \in Delivery, m \in Message : Accept(d, m) \/ Execute(d, m)

Spec == Init /\ [][Next]_vars
=============================================================================
