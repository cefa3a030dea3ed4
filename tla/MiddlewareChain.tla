--------------------------- MODULE MiddlewareChain ---------------------------
(***************************************************************************)
(* SnapAgent.runMiddleware(): one run of the chain for one message.        *)
(*                                                                         *)
(* All middlewares share the closure `next` and its `index`.  A middleware *)
(* is application code: it may call next() any number of times, await the  *)
(* promise or not, return or throw.  A frame is one running handle(); an   *)
(* awaited next() suspends its frame until the frame it started settles.   *)
(* When the promise of a next() nobody awaits is rejected, nothing handles *)
(* the rejection and the process ends.                                     *)
(***************************************************************************)
EXTENDS Integers

CONSTANTS
  N,         \* length of the chain
  MaxCalls   \* bound: calls of next() by one middleware

ASSUME ChainAssumption == N \in Nat /\ MaxCalls \in Nat

VARIABLES
  index,     \* the next middleware to start, as in the code (counting from 0)
  frame,     \* "waiting" (not started), "running", "returned" or "threw"
  awaits,    \* the frame whose end a frame is suspended on, 0 if none
  awaited,   \* is the end of this frame awaited by the one that started it?
  calls,     \* history: calls of next() by each middleware
  outcome    \* "pending", "proceed" (runMiddleware resolved), "reject", "crash"

chain == <<index, frame, awaits, awaited, calls, outcome>>

Frames == 1 .. N
Started == 1 .. index
Ended(i) == frame[i] \in {"returned", "threw"}
MayAct(i) == outcome # "crash" /\ frame[i] = "running" /\ awaits[i] = 0

ChainInit ==
  /\ index = 0
  /\ frame = [i \in Frames |-> "waiting"]
  /\ awaits = [i \in Frames |-> 0]
  /\ awaited = [i \in Frames |-> FALSE]
  /\ calls = [i \in Frames |-> 0]
  /\ outcome = "pending"

(* Mutant: the last middleware is never started. *)
StartNext_OneShort(i, await) ==
  IF index < N - 1
  THEN /\ index' = index + 1
       /\ frame' = [frame EXCEPT ![index + 1] = "running"]
       /\ awaited' = [awaited EXCEPT ![index + 1] = await]
  ELSE UNCHANGED <<index, frame, awaited>>

(* The body of next(): start the middleware at `index`, if there is one. *)
StartNext(i, await) ==
  IF index < N
  THEN /\ index' = index + 1
       /\ frame' = [frame EXCEPT ![index + 1] = "running"]
       /\ awaited' = [awaited EXCEPT ![index + 1] = await]
  ELSE UNCHANGED <<index, frame, awaited>>

(* runMiddleware itself makes, and awaits, the first call. *)
Run ==
  /\ outcome = "pending" /\ index = 0
  /\ StartNext(0, TRUE)
  /\ outcome' = IF N = 0 THEN "proceed" ELSE "pending"
  /\ UNCHANGED <<awaits, calls>>

CallNext(i, await) ==
  /\ MayAct(i)
  /\ calls[i] < MaxCalls
  /\ calls' = [calls EXCEPT ![i] = @ + 1]
  /\ StartNext(i, await)
  /\ awaits' = [awaits EXCEPT ![i] = IF await /\ index < N THEN index + 1 ELSE 0]
  /\ UNCHANGED outcome

(* Mutant: the caller of an awaited next() goes on at once. *)
Resume_AtOnce(i) ==
  /\ outcome # "crash"
  /\ frame[i] = "running" /\ awaits[i] # 0
  /\ awaits' = [awaits EXCEPT ![i] = 0]
  /\ UNCHANGED <<index, frame, awaited, calls, outcome>>

(* Mutant: the promise of next() never resolves. *)
Resume_Never(i) == FALSE

(* The awaited frame has ended: its caller goes on. *)
Resume(i) ==
  /\ outcome # "crash"
  /\ frame[i] = "running" /\ awaits[i] # 0
  /\ Ended(awaits[i])
  /\ awaits' = [awaits EXCEPT ![i] = 0]
  /\ UNCHANGED <<index, frame, awaited, calls, outcome>>

Return(i) ==
  /\ MayAct(i)
  /\ frame' = [frame EXCEPT ![i] = "returned"]
  /\ outcome' = IF i = 1 THEN "proceed" ELSE outcome
  /\ UNCHANGED <<index, awaits, awaited, calls>>

(* A middleware throws, of its own accord or because the next() it awaited *)
(* did and it has no catch around it (Resume is the case that it has).     *)
Throw(i) ==
  /\ outcome # "crash"
  /\ frame[i] = "running"
  /\ awaits[i] # 0 => frame[awaits[i]] = "threw"
  /\ frame' = [frame EXCEPT ![i] = "threw"]
  /\ outcome' = IF ~awaited[i] THEN "crash" ELSE IF i = 1 THEN "reject" ELSE outcome
  /\ UNCHANGED <<index, awaits, awaited, calls>>

Frame(i) ==
  \/ \E await \in BOOLEAN : CallNext(i, await)
  \/ Resume(i) \/ Return(i) \/ Throw(i)

ChainNext == Run \/ \E i \in Frames : Frame(i)

ChainSpec == ChainInit /\ [][ChainNext]_chain

(* Middleware code ends: a frame that can go on does. *)
ChainFairness ==
  WF_chain(Run) /\ \A i \in Frames : WF_chain(Resume(i) \/ Return(i) \/ Throw(i))

-----------------------------------------------------------------------------
ChainTypeOK ==
  /\ index \in 0 .. N
  /\ frame \in [Frames -> {"waiting", "running", "returned", "threw"}]
  /\ awaits \in [Frames -> 0 .. N]
  /\ awaited \in [Frames -> BOOLEAN]
  /\ calls \in [Frames -> 0 .. MaxCalls]
  /\ outcome \in {"pending", "proceed", "reject", "crash"}

(* When every next() was awaited, nothing of the chain is still running    *)
(* once runMiddleware is done: the handler never overlaps a middleware.    *)
HandlerAfterChain ==
  outcome \in {"proceed", "reject"} /\ (\A i \in Started : awaited[i])
    => \A i \in Started : Ended(i)

(* When every middleware awaits next() at least once and none throws, the  *)
(* handler is reached only after all of them ran.                          *)
CompleteChain ==
  outcome = "proceed"
  /\ (\A i \in Started : awaited[i] /\ calls[i] > 0 /\ frame[i] # "threw")
    => index = N

(* If the middlewares end, so does the chain. *)
ChainSettles == <>(outcome # "pending")
=============================================================================
