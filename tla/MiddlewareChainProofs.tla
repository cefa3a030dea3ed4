-------------------------- MODULE MiddlewareChainProofs --------------------------
(***************************************************************************)
(* Proofs about the middleware chain, for chains of any length and         *)
(* middlewares that call next() as often as they like.                     *)
(***************************************************************************)
EXTENDS MiddlewareChain, WellFoundedInduction, TLAPS

Running(i) == frame[i] = "running"
AllAwaited == \A i \in Started : awaited[i]

(* The closure's index counts the middlewares that were started.           *)
IndexCounts == \A i \in Frames : i <= index <=> frame[i] # "waiting"

(* runMiddleware resolves or rejects with the first middleware.            *)
FirstDecides == outcome \in {"proceed", "reject"} => N = 0 \/ (index >= 1 /\ Ended(1))

(* A call of next() has started the following middleware, if there is one. *)
CallStarts == \A i \in Frames : calls[i] > 0 => index > i \/ index = N

(* While every next() is awaited the frames are a stack: each running      *)
(* frame but the last waits for the running one after it.                  *)
Stacked ==
  AllAwaited =>
    \A i, j \in Frames :
      Running(i) /\ Running(j) /\ i < j =>
        awaits[i] \in Frames /\ Running(awaits[i]) /\ awaits[i] <= j

(* The first middleware is at the bottom of the stack. *)
FirstIsLast == AllAwaited => \A i \in Frames : Running(i) => Running(1)

IInv == ChainTypeOK /\ IndexCounts /\ FirstDecides /\ CallStarts /\ Stacked /\ FirstIsLast

LEMMA InitIInv == ChainInit => IInv
  BY ChainAssumption DEF ChainInit, IInv, ChainTypeOK, IndexCounts, FirstDecides, CallStarts, Stacked,
     FirstIsLast, Running, AllAwaited, Started, Ended, Frames

(* The frame that may go on is on top of the stack. *)
LEMMA TopActs ==
  ASSUME IInv, AllAwaited, NEW i \in Frames, Running(i), awaits[i] = 0 \/ Ended(awaits[i])
  PROVE  \A j \in Frames : Running(j) /\ j # i =>
           j < i /\ awaits[j] \in Frames /\ Running(awaits[j]) /\ awaits[j] <= i
<1>1. ~Running(awaits[i]) \/ awaits[i] \notin Frames
  BY DEF Running, Ended, Frames
<1>2. \A j \in Frames : Running(j) => ~(i < j)
  BY <1>1 DEF IInv, Stacked
<1> QED BY <1>2 DEF IInv, Stacked, Frames

(* A frame ends: nothing runs above it. *)
LEMMA EndKeeps ==
  ASSUME IInv, NEW i \in Frames, NEW how \in {"returned", "threw"},
         Running(i), awaits[i] = 0 \/ Ended(awaits[i]),
         frame' = [frame EXCEPT ![i] = how],
         UNCHANGED <<index, awaits, awaited, calls>>,
         outcome' \in {"pending", "proceed", "reject", "crash"},
         outcome' \in {"proceed", "reject"} => i = 1 \/ outcome' = outcome
  PROVE  IInv'
<1>1. ChainTypeOK' /\ IndexCounts' /\ CallStarts'
  BY DEF IInv, ChainTypeOK, IndexCounts, CallStarts, Running
<1>2. FirstDecides'
  <2>1. index >= 1 /\ i <= index
    BY ChainAssumption DEF IInv, ChainTypeOK, IndexCounts, Running, Frames
  <2> QED BY <2>1, ChainAssumption DEF IInv, ChainTypeOK, FirstDecides, Ended, Frames
<1>3. \A j \in Frames : Running(j)' <=> Running(j) /\ j # i
  BY DEF IInv, ChainTypeOK, Running
<1>4. AllAwaited' <=> AllAwaited
  BY DEF AllAwaited, Started
<1>5. Stacked'
  <2> SUFFICES ASSUME AllAwaited, NEW j \in Frames, NEW k \in Frames,
                      Running(j), Running(k), j # i, k # i, j < k
               PROVE  awaits[j] \in Frames /\ Running(awaits[j])' /\ awaits[j] <= k
    BY <1>3, <1>4 DEF Stacked
  <2>1. k < i
    BY TopActs
  <2>2. awaits[j] \in Frames /\ Running(awaits[j]) /\ awaits[j] <= k
    BY DEF IInv, Stacked
  <2> QED BY <1>3, <2>1, <2>2 DEF Frames
<1>6. FirstIsLast'
  <2> SUFFICES ASSUME AllAwaited, NEW j \in Frames, Running(j), j # i
               PROVE  Running(1)'
    BY <1>3, <1>4 DEF FirstIsLast
  <2>1. j < i /\ Running(1) /\ 1 \in Frames
    <3>1. j < i
      BY TopActs
    <3>2. Running(1)
      BY DEF IInv, FirstIsLast
    <3> QED BY <3>1, <3>2, ChainAssumption DEF Frames
  <2> QED BY <1>3, <2>1 DEF Frames
<1> QED BY <1>1, <1>2, <1>5, <1>6 DEF IInv

(* The middleware that starts is the last one, and nothing is lost below   *)
(* it: its caller was on top of the stack.                                 *)
LEMMA StartKeeps ==
  ASSUME IInv, NEW i \in Frames, NEW await \in BOOLEAN, CallNext(i, await), index < N
  PROVE  IInv'
<1> DEFINE new == index + 1
<1>1. /\ new \in Frames /\ i \in Frames /\ i <= index /\ new = index + 1 /\ index \in Nat
      /\ frame[new] = "waiting" /\ Running(i) /\ awaits[i] = 0 /\ calls[i] < MaxCalls
      /\ N \in Nat
  BY ChainAssumption DEF IInv, ChainTypeOK, IndexCounts, CallNext, MayAct, Running, Frames
<1>2. /\ index' = new
      /\ frame' = [frame EXCEPT ![new] = "running"]
      /\ awaited' = [awaited EXCEPT ![new] = await]
      /\ awaits' = [awaits EXCEPT ![i] = IF await THEN new ELSE 0]
      /\ calls' = [calls EXCEPT ![i] = @ + 1]
      /\ outcome' = outcome
  BY <1>1 DEF CallNext, StartNext
<1> HIDE DEF new
<1>3. ChainTypeOK'
  <2>1. index' \in 0 .. N /\ calls' \in [Frames -> 0 .. MaxCalls]
    BY <1>1, <1>2, ChainAssumption DEF IInv, ChainTypeOK, Frames
  <2>2. awaited' \in [Frames -> BOOLEAN]
    BY <1>1, <1>2 DEF IInv, ChainTypeOK
  <2>3. /\ frame' \in [Frames -> {"waiting", "running", "returned", "threw"}]
        /\ awaits' \in [Frames -> 0 .. N]
        /\ outcome' \in {"pending", "proceed", "reject", "crash"}
    BY <1>1, <1>2 DEF IInv, ChainTypeOK, Frames
  <2> QED BY <2>1, <2>2, <2>3 DEF ChainTypeOK
<1>4. IndexCounts' /\ CallStarts'
  BY <1>1, <1>2 DEF IInv, ChainTypeOK, IndexCounts, CallStarts, Frames
<1>5. FirstDecides'
  BY <1>1, <1>2 DEF IInv, ChainTypeOK, FirstDecides, Ended, Frames
<1>6. \A j \in Frames : Running(j)' <=> Running(j) \/ j = new
  BY <1>1, <1>2 DEF IInv, ChainTypeOK, Running
<1>7. AllAwaited' => AllAwaited /\ await
  BY <1>1, <1>2 DEF IInv, ChainTypeOK, AllAwaited, Started, Frames
<1>8. \A j \in Frames : Running(j) => j < new
  BY <1>1 DEF IInv, IndexCounts, Running, Frames
<1>9. Stacked'
  <2> SUFFICES ASSUME AllAwaited, await = TRUE, NEW j \in Frames, NEW k \in Frames,
                      Running(j) \/ j = new, Running(k) \/ k = new, j < k
               PROVE  awaits'[j] \in Frames /\ frame'[awaits'[j]] = "running" /\ awaits'[j] <= k
    BY <1>6, <1>7 DEF Stacked, Running
  <2>1. j # new /\ Running(j) /\ j <= i
    <3>1. j # new
      BY <1>1, <1>8 DEF Frames
    <3> QED BY <1>1, <3>1, TopActs DEF Frames
  <2>2. CASE j = i
    <3>1. awaits'[j] = new
      BY <1>1, <1>2, <2>2 DEF IInv, ChainTypeOK
    <3>2. k = new
      BY <1>1, <2>2, TopActs DEF Frames
    <3> QED BY <1>1, <1>6, <3>1, <3>2 DEF Frames, Running
  <2>3. CASE j # i
    <3>1. awaits'[j] = awaits[j]
      BY <1>2, <2>3 DEF IInv, ChainTypeOK
    <3>2. awaits[j] \in Frames /\ Running(awaits[j]) /\ awaits[j] <= i
      BY <1>1, <2>1, <2>3, TopActs
    <3>3. awaits[j] <= k
      <4>1. CASE k = new
        BY <1>1, <3>2, <4>1 DEF Frames
      <4>2. CASE Running(k)
        BY <2>1, <4>2 DEF IInv, Stacked
      <4> QED BY <4>1, <4>2
    <3> QED BY <1>6, <3>1, <3>2, <3>3 DEF Running
  <2> QED BY <2>2, <2>3
<1>10. FirstIsLast'
  <2>1. AllAwaited => Running(1) /\ 1 \in Frames
    BY <1>1 DEF IInv, FirstIsLast, Frames
  <2> QED BY <1>6, <1>7, <2>1 DEF FirstIsLast
<1> QED BY <1>3, <1>4, <1>5, <1>9, <1>10 DEF IInv

(* A call at the end of the chain starts nothing; a caller goes on only    *)
(* when what it awaits has ended.                                          *)
LEMMA GoOnKeeps ==
  ASSUME IInv, NEW i \in Frames, Running(i), awaits[i] = 0 \/ Ended(awaits[i]),
         awaits' = [awaits EXCEPT ![i] = 0],
         UNCHANGED <<index, frame, awaited, outcome>>,
         \/ calls' = calls
         \/ index = N /\ calls[i] < MaxCalls /\ calls' = [calls EXCEPT ![i] = @ + 1]
  PROVE  IInv'
<1>1. ChainTypeOK'
  BY ChainAssumption DEF IInv, ChainTypeOK
<1>2. IndexCounts' /\ FirstDecides' /\ FirstIsLast'
  BY DEF IInv, IndexCounts, FirstDecides, FirstIsLast, Ended, Running, AllAwaited, Started
<1>3. CallStarts'
  BY DEF IInv, ChainTypeOK, CallStarts
<1>4. Stacked'
  <2> SUFFICES ASSUME AllAwaited, NEW j \in Frames, NEW k \in Frames,
                      Running(j), Running(k), j < k
               PROVE  awaits'[j] \in Frames /\ Running(awaits'[j]) /\ awaits'[j] <= k
    BY DEF Stacked, Running, AllAwaited, Started
  <2>1. j # i
    BY TopActs DEF Frames
  <2>2. awaits'[j] = awaits[j]
    BY <2>1 DEF IInv, ChainTypeOK
  <2> QED BY <2>2 DEF IInv, Stacked
<1> QED BY <1>1, <1>2, <1>3, <1>4 DEF IInv

LEMMA RunKeeps == IInv /\ Run => IInv'
<1> SUFFICES ASSUME IInv, Run PROVE IInv'
  OBVIOUS
<1>1. N \in Nat /\ index = 0 /\ UNCHANGED <<awaits, calls>>
  BY ChainAssumption DEF Run
<1>2. \A i \in Frames : frame[i] = "waiting"
  BY <1>1 DEF IInv, ChainTypeOK, IndexCounts, Frames
<1>3. CASE N = 0
  <2>1. UNCHANGED <<index, frame, awaited>> /\ outcome' = "proceed"
    BY <1>1, <1>3 DEF Run, StartNext
  <2> QED BY <1>1, <1>3, <2>1 DEF IInv, ChainTypeOK, IndexCounts, FirstDecides, CallStarts, Stacked,
             FirstIsLast, Running, AllAwaited, Started, Frames
<1>4. CASE N # 0
  <2>1. /\ index' = 1 /\ 1 \in Frames /\ outcome' = "pending"
        /\ frame' = [frame EXCEPT ![1] = "running"]
        /\ awaited' = [awaited EXCEPT ![1] = TRUE]
    BY <1>1, <1>4 DEF Run, StartNext, Frames
  <2>2. \A j \in Frames : frame'[j] = IF j = 1 THEN "running" ELSE "waiting"
    BY <1>2, <2>1 DEF IInv, ChainTypeOK
  <2>3. ChainTypeOK'
    BY <1>1, <1>4, <2>1 DEF IInv, ChainTypeOK, Frames
  <2>4. IndexCounts' /\ FirstDecides'
    BY <1>1, <2>1, <2>2 DEF IndexCounts, FirstDecides, Frames
  <2>5. CallStarts'
    BY <1>1, <1>4, <2>1 DEF IInv, ChainTypeOK, CallStarts, Frames
  <2>6. Stacked' /\ FirstIsLast'
    BY <2>1, <2>2 DEF Stacked, FirstIsLast, Running
  <2> QED BY <2>3, <2>4, <2>5, <2>6 DEF IInv
<1> QED BY <1>3, <1>4

LEMMA StepIInv == IInv /\ [ChainNext]_chain => IInv'
<1> SUFFICES ASSUME IInv, [ChainNext]_chain PROVE IInv'
  OBVIOUS
<1>1. ASSUME NEW i \in Frames, NEW await \in BOOLEAN, CallNext(i, await) PROVE IInv'
  <2>1. CASE index < N
    BY <1>1, <2>1, StartKeeps
  <2>2. CASE ~(index < N)
    <3>1. index = N
      BY <2>2, ChainAssumption DEF IInv, ChainTypeOK
    <3> QED BY <1>1, <2>2, <3>1, GoOnKeeps DEF CallNext, StartNext, MayAct, Running
  <2> QED BY <2>1, <2>2
<1>2. ASSUME NEW i \in Frames, Resume(i) PROVE IInv'
  BY <1>2, GoOnKeeps DEF Resume, Running
<1>3. ASSUME NEW i \in Frames, Return(i) PROVE IInv'
  BY <1>3, EndKeeps DEF Return, MayAct, Running, IInv, ChainTypeOK
<1>4. ASSUME NEW i \in Frames, Throw(i) PROVE IInv'
  <2>1. awaits[i] = 0 \/ Ended(awaits[i])
    BY <1>4 DEF Throw, Ended
  <2> QED BY <1>4, <2>1, EndKeeps DEF Throw, Running, IInv, ChainTypeOK
<1>5. CASE UNCHANGED chain
  BY <1>5 DEF chain, IInv, ChainTypeOK, IndexCounts, FirstDecides, CallStarts, Stacked, FirstIsLast,
              Running, AllAwaited, Started, Ended
<1> QED BY <1>1, <1>2, <1>3, <1>4, <1>5, RunKeeps DEF ChainNext, Frame

-----------------------------------------------------------------------------
(* The theorems *)

(* The invariant above holds, for every chain.                             *)
THEOREM Invariance == ChainSpec => []IInv
<1> QED BY InitIInv, StepIInv, PTL DEF ChainSpec

(* Every variable keeps its type: `index` never runs past the chain.       *)
THEOREM TypeCorrect == ChainSpec => []ChainTypeOK
<1>1. IInv => ChainTypeOK
  BY DEF IInv
<1> QED BY <1>1, Invariance, PTL

(* When every next() was awaited, nothing of the chain is still running    *)
(* once runMiddleware is done: the handler never overlaps a middleware.    *)
THEOREM HandlerAfterChainHolds == ChainSpec => []HandlerAfterChain
<1>1. IInv => HandlerAfterChain
  <2> SUFFICES ASSUME IInv, outcome \in {"proceed", "reject"}, AllAwaited,
                      NEW i \in Started
               PROVE  Ended(i)
    BY DEF HandlerAfterChain, AllAwaited
  <2>1. i \in Frames /\ frame[i] # "waiting" /\ N # 0
    BY ChainAssumption DEF IInv, ChainTypeOK, IndexCounts, Started, Frames
  <2>2. ~Running(1)
    BY <2>1 DEF IInv, FirstDecides, Ended, Running
  <2>3. ~Running(i)
    BY <2>1, <2>2 DEF IInv, FirstIsLast
  <2> QED BY <2>1, <2>3 DEF IInv, ChainTypeOK, Running, Ended
<1> QED BY <1>1, Invariance, PTL

(* When every middleware awaits next() at least once and none throws, the  *)
(* handler is reached only after all of them ran.                          *)
THEOREM CompleteChainHolds == ChainSpec => []CompleteChain
<1>1. IInv => CompleteChain
  <2> SUFFICES ASSUME IInv, outcome = "proceed", \A i \in Started : calls[i] > 0
               PROVE  index = N
    BY DEF CompleteChain
  <2>1. index \in 0 .. N /\ N \in Nat
    BY ChainAssumption DEF IInv, ChainTypeOK
  <2>2. CASE N = 0
    BY <2>1, <2>2
  <2>3. CASE N # 0
    <3>1. index >= 1
      BY <2>3 DEF IInv, FirstDecides
    <3>2. index \in Frames /\ index \in Started
      BY <2>1, <3>1 DEF Frames, Started
    <3>3. calls[index] > 0
      BY <3>2
    <3> QED BY <2>1, <3>2, <3>3 DEF IInv, CallStarts
  <2> QED BY <2>2, <2>3
<1> QED BY <1>1, Invariance, PTL

-----------------------------------------------------------------------------
(* What ChainSettles rests on: nobody waits in a circle.                   *)

MayGoOn(i) == Running(i) /\ (awaits[i] = 0 \/ Ended(awaits[i]))

(* While runMiddleware is pending, either its own call of next() is to     *)
(* come or some middleware can go on: no await leaves the chain stuck.     *)
PendingGoesOn == outcome = "pending" => index = 0 \/ \E i \in Frames : MayGoOn(i)

(* A middleware waits for one that was started after it. *)
AwaitsLater == \A i \in Frames : awaits[i] # 0 => i < awaits[i] /\ awaits[i] <= index

(* The first middleware runs, awaited, for as long as the chain is pending. *)
FirstRuns ==
  index > 0 => /\ 1 \in Frames /\ awaited[1] = TRUE
               /\ outcome = "pending" => Running(1)

WaitInv == AwaitsLater /\ FirstRuns

LEMMA StartWaits ==
  ASSUME IInv, WaitInv, NEW i \in Frames, NEW await \in BOOLEAN, CallNext(i, await), index < N
  PROVE  WaitInv'
<1>1. /\ index \in Nat /\ N \in Nat /\ i \in Int /\ 1 <= i /\ i <= index
      /\ DOMAIN frame = Frames /\ DOMAIN awaits = Frames /\ DOMAIN awaited = Frames
  BY ChainAssumption DEF IInv, ChainTypeOK, IndexCounts, CallNext, MayAct, Frames
<1>2. /\ index' = index + 1 /\ index + 1 \in Frames /\ outcome' = outcome
      /\ frame' = [frame EXCEPT ![index + 1] = "running"]
      /\ awaited' = [awaited EXCEPT ![index + 1] = await]
      /\ awaits' = [awaits EXCEPT ![i] = IF await THEN index + 1 ELSE 0]
  BY <1>1 DEF CallNext, StartNext, Frames
<1>3. AwaitsLater'
  <2> SUFFICES ASSUME NEW j \in Frames, awaits'[j] # 0
               PROVE  j < awaits'[j] /\ awaits'[j] <= index'
    BY DEF AwaitsLater
  <2>1. CASE j = i
    BY <1>1, <1>2, <2>1
  <2>2. CASE j # i
    <3>1. awaits'[j] = awaits[j] /\ awaits[j] \in Int
      BY <1>2, <2>2, ChainAssumption DEF IInv, ChainTypeOK
    <3> QED BY <1>1, <1>2, <3>1 DEF WaitInv, AwaitsLater
  <2> QED BY <2>1, <2>2
<1>4. FirstRuns'
  <2>1. 1 \in Frames /\ 1 # index + 1 /\ awaited[1] = TRUE /\ (outcome = "pending" => Running(1))
    BY <1>1 DEF WaitInv, FirstRuns
  <2>2. awaited'[1] = awaited[1] /\ frame'[1] = frame[1]
    BY <1>1, <1>2, <2>1, Zenon
  <2> QED BY <1>2, <2>1, <2>2 DEF FirstRuns, Running
<1> QED BY <1>3, <1>4 DEF WaitInv

(* Steps that start no middleware and let nobody wait. *)
LEMMA GoOnWaits ==
  ASSUME IInv, WaitInv, NEW i \in Frames, UNCHANGED <<index, awaited>>,
         awaits' = awaits \/ awaits' = [awaits EXCEPT ![i] = 0],
         outcome' = "pending" => outcome = "pending" /\ (Running(1) => Running(1)')
  PROVE  WaitInv'
<1>1. AwaitsLater'
  BY DEF WaitInv, AwaitsLater, IInv, ChainTypeOK
<1>2. FirstRuns'
  BY DEF WaitInv, FirstRuns
<1> QED BY <1>1, <1>2 DEF WaitInv

LEMMA StepWaits == IInv /\ WaitInv /\ [ChainNext]_chain => WaitInv'
<1> SUFFICES ASSUME IInv, WaitInv, [ChainNext]_chain PROVE WaitInv'
  OBVIOUS
<1>1. CASE Run
  <2>1. N \in Nat /\ index = 0 /\ awaits' = awaits /\ (index' > 0 => N # 0)
    BY <1>1, ChainAssumption DEF Run, StartNext
  <2>2. AwaitsLater'
    BY <2>1, ChainAssumption DEF WaitInv, AwaitsLater, IInv, ChainTypeOK, Frames
  <2>3. CASE N = 0
    BY <1>1, <2>1, <2>2, <2>3 DEF Run, StartNext, WaitInv, FirstRuns
  <2>4. CASE N # 0
    <3>1. /\ 1 \in Frames /\ frame' = [frame EXCEPT ![1] = "running"]
          /\ awaited' = [awaited EXCEPT ![1] = TRUE]
      BY <1>1, <2>1, <2>4 DEF Run, StartNext, Frames
    <3>2. DOMAIN frame = Frames /\ DOMAIN awaited = Frames
      BY DEF IInv, ChainTypeOK
    <3>3. frame'[1] = "running" /\ awaited'[1] = TRUE
      BY <3>1, <3>2, Zenon
    <3> QED BY <2>2, <3>1, <3>3 DEF WaitInv, FirstRuns, Running
  <2> QED BY <2>3, <2>4
<1>2. ASSUME NEW i \in Frames, NEW await \in BOOLEAN, CallNext(i, await) PROVE WaitInv'
  <2>1. CASE index < N
    BY <1>2, <2>1, StartWaits
  <2>2. CASE ~(index < N)
    BY <1>2, <2>2, GoOnWaits DEF CallNext, StartNext, Running
  <2> QED BY <2>1, <2>2
<1>3. ASSUME NEW i \in Frames, Resume(i) PROVE WaitInv'
  BY <1>3, GoOnWaits DEF Resume, Running
<1>4. ASSUME NEW i \in Frames, Return(i) PROVE WaitInv'
  BY <1>4, GoOnWaits DEF Return, Running, IInv, ChainTypeOK
<1>5. ASSUME NEW i \in Frames, Throw(i) PROVE WaitInv'
  <2>1. CASE i # 1
    BY <1>5, <2>1, GoOnWaits DEF Throw, Running, IInv, ChainTypeOK
  <2>2. CASE i = 1
    BY <1>5, <2>2, GoOnWaits DEF Throw
  <2> QED BY <2>1, <2>2
<1>6. CASE UNCHANGED chain
  BY <1>6 DEF chain, WaitInv, AwaitsLater, FirstRuns, Running
<1> QED BY <1>1, <1>2, <1>3, <1>4, <1>5, <1>6 DEF ChainNext, Frame

(* A set of frames that is not empty has a last one. *)
LEMMA LastOf ==
  ASSUME NEW n \in Nat, NEW T, T \subseteq 1 .. n, T # {}
  PROVE  \E x \in T : \A y \in T : y <= x
<1>1. \A x \in T : x \in Int /\ n - x \in Nat
  OBVIOUS
<1> DEFINE Above == {n - x : x \in T}
<1>2. Above \subseteq Nat
  BY <1>1, Zenon
<1>3. Above # {}
  OBVIOUS
<1>4. PICK u \in Above : \A v \in Above : ~(<<v, u>> \in OpToRel(<, Nat))
  <2> HIDE DEF Above
  <2> QED BY <1>2, <1>3, WFMin, NatLessThanWellFounded
<1>5. PICK x \in T : u = n - x
  BY <1>4
<1>6. \A y \in T : ~(n - y < n - x)
  BY <1>1, <1>4, <1>5 DEF OpToRel
<1> QED BY <1>1, <1>5, <1>6

(* The last running middleware waits for nobody that still runs. *)
LEMMA LastGoesOn ==
  ASSUME IInv, WaitInv, NEW r \in Frames, Running(r)
  PROVE  \E i \in Frames : MayGoOn(i)
<1> DEFINE Busy == {i \in Frames : Running(i)}
<1>1. N \in Nat /\ Busy \subseteq 1 .. N /\ Busy # {} /\ index \in 0 .. N
  BY ChainAssumption DEF Frames, IInv, ChainTypeOK
<1>2. PICK last \in Busy : \A j \in Busy : j <= last
  <2> HIDE DEF Busy
  <2> QED BY <1>1, LastOf
<1>3. last \in Frames /\ Running(last) /\ awaits[last] \in 0 .. N
  BY <1>2 DEF IInv, ChainTypeOK
<1>4. CASE awaits[last] = 0
  BY <1>3, <1>4 DEF MayGoOn
<1>5. CASE awaits[last] # 0
  <2> DEFINE later == awaits[last]
  <2>1. later \in Frames /\ last < later /\ later <= index
    BY <1>1, <1>3, <1>5 DEF WaitInv, AwaitsLater, Frames
  <2>2. ~Running(later)
    BY <1>1, <1>2, <2>1 DEF Frames
  <2>3. Ended(later)
    BY <2>1, <2>2 DEF IInv, ChainTypeOK, IndexCounts, Running, Ended
  <2> QED BY <1>3, <2>3 DEF MayGoOn
<1> QED BY <1>4, <1>5

(* Nobody waits for a middleware started before it, and the first one runs *)
(* until the chain is decided.                                             *)
THEOREM WaitInvariance == ChainSpec => [](IInv /\ WaitInv)
<1>1. ChainInit => WaitInv
  BY DEF ChainInit, WaitInv, AwaitsLater, FirstRuns
<1> QED BY <1>1, InitIInv, StepIInv, StepWaits, PTL DEF ChainSpec

(* While runMiddleware is pending, either its own call of next() is to     *)
(* come or some middleware can go on: no await leaves the chain stuck.     *)
THEOREM PendingGoesOnHolds == ChainSpec => []PendingGoesOn
<1>1. IInv /\ WaitInv => PendingGoesOn
  <2> SUFFICES ASSUME IInv, WaitInv, outcome = "pending", index # 0
               PROVE  \E i \in Frames : MayGoOn(i)
    BY DEF PendingGoesOn
  <2>1. 1 \in Frames /\ Running(1)
    BY ChainAssumption DEF WaitInv, FirstRuns, IInv, ChainTypeOK
  <2> QED BY <2>1, LastGoesOn
<1> QED BY <1>1, WaitInvariance, PTL
===================================================================================
