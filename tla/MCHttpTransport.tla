---------------------------- MODULE MCHttpTransport ----------------------------
(***************************************************************************)
(* HttpTransport, and the bytes of one of its event streams.  The two      *)
(* share no state, so each is explored with the other at its start.        *)
(***************************************************************************)
EXTENDS HttpTransport, EventStream

MCChar == {"nl", "data", "a", "wide"}
MCSize == [c \in MCChar |-> IF c = "wide" THEN 3 ELSE 1]
MCDocument == {<<"a">>, <<"wide">>, <<"wide", "a">>}

StreamAtStart == StreamInit /\ ~ended
NoneOpened == state = [s \in Servers |-> "unborn"] /\ client = [x \in Exchange |-> "idle"]

MCInit == Init /\ StreamInit

MCNext ==
  \/ StreamAtStart /\ Next /\ UNCHANGED streamVars
  \/ NoneOpened /\ StreamNext /\ UNCHANGED vars

MCSpec ==
  /\ MCInit /\ [][MCNext]_<<vars, streamVars>>
  /\ Fairness
=============================================================================
