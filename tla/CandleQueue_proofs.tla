-------------------------- MODULE CandleQueue_proofs --------------------------
(***************************************************************************)
(* Proofs about CandleQueue, for every set of jobs, every batch size and   *)
(* every value of the bounds.                                              *)
(***************************************************************************)
EXTENDS CandleQueue, TLAPS

RunState ==
  [pc : {"idle", "claimed", "fetch", "missing", "got", "stored", "unpublished", "failed"},
   attempts : Nat]

\* While a job runs its row is the one its claim wrote, and nothing ages it: an
\* attempt that is given back was charged, and a settle judges the row's attempts.
InStep(j) ==
  run[j].pc # "idle" =>
    /\ job[j].status = "RUNNING" /\ ~job[j].stuck
    /\ job[j].attempts = run[j].attempts /\ run[j].attempts > 0

\* What a job has in hand is what the market did, or what it stored.
Earned(j) ==
  /\ run[j].pc = "got" => span[j] # "lagging"
  /\ run[j].pc = "stored" => chunk[j] # "none"
  /\ job[j].status = "DONE" => chunk[j] # "none"
  /\ job[j].status = "FAILED" => j \in unknown \/ job[j].attempts >= MaxAttempts

\* A job that waits, or was dropped by a fault, has an attempt left to be charged.
Charged(j) ==
  /\ job[j].attempts <= MaxAttempts + faults
  /\ run[j].pc = "idle" /\ job[j].status \in {"none", "PENDING", "RUNNING"}
       => job[j].attempts < MaxAttempts + faults

JobsSound == \A j \in Job : InStep(j) /\ Earned(j) /\ Charged(j)

\* The inductive invariant.
IInv == TypeOK /\ ChunksTrue /\ JobsSound

-----------------------------------------------------------------------------
LEMMA JobTyped ==
  ASSUME TypeOK, NEW j \in Job
  PROVE  /\ job[j] \in Row /\ job[j].attempts \in Nat /\ job[j].stuck \in BOOLEAN
         /\ run[j] \in RunState /\ run[j].attempts \in Nat
         /\ span[j] \in Span /\ faults \in Nat
BY QueueAssumptions DEF TypeOK, Row, RunState

\* The row a claim writes.
LEMMA ClaimStep ==
  ASSUME TypeOK, NEW j \in Job, Oldest(j), Claim(j)
  PROVE  /\ job' \in [Job -> Row]
         /\ job'[j] = [status |-> "RUNNING", attempts |-> job[j].attempts + 1, stuck |-> FALSE]
         /\ \A i \in Job \ {j} : job'[i] = job[i]
         /\ j \notin seen
         /\ Runnable(j)
<1>1. [status |-> "RUNNING", attempts |-> job[j].attempts + 1, stuck |-> FALSE] \in Row
  BY JobTyped DEF Row
<1> QED
  BY <1>1 DEF TypeOK, Claim, Oldest, Candidates, Excluded

LEMMA ToStep ==
  ASSUME TypeOK, NEW j \in Job,
         NEW pc \in {"missing", "got", "stored", "unpublished", "failed"}, To(j, pc)
  PROVE  /\ run' \in [Job -> RunState]
         /\ run'[j].pc = pc /\ run'[j].attempts = run[j].attempts
         /\ \A i \in Job \ {j} : run'[i] = run[i]
BY DEF TypeOK, To, RunState

LEMMA NotRunTyped == NotRun \in RunState /\ NotRun.pc = "idle"
BY DEF NotRun, RunState

\* How a job may be settled.
LEMMA OutcomeType ==
  ASSUME TypeOK, NEW j \in Job, InStep(j), Settling(j)
  PROVE  /\ Outcome(j) \in Row
         /\ Outcome(j).attempts <= job[j].attempts
         /\ \/ Outcome(j).status = "DONE" /\ run[j].pc = "stored"
            \/ /\ Outcome(j).status = "FAILED" /\ Outcome(j).attempts = run[j].attempts
               /\ j \in unknown \/ run[j].attempts >= MaxAttempts
            \/ /\ Outcome(j).status = "PENDING"
               /\ \/ Outcome(j).attempts < job[j].attempts
                  \/ Outcome(j).attempts < MaxAttempts
<1> DEFINE r == job[j]
           as(status) == [status |-> status, attempts |-> r.attempts, stuck |-> FALSE]
<1>1. /\ r.attempts \in Nat /\ r.attempts > 0 /\ r.attempts = run[j].attempts
      /\ r.attempts - 1 \in Nat /\ MaxAttempts \in Nat
  BY JobTyped, QueueAssumptions DEF InStep, Settling, Running
<1>2. CASE run[j].pc = "stored"
  <2>1. Outcome(j) = as("DONE")
    BY <1>2 DEF Outcome
  <2> QED
    BY <1>1, <1>2, <2>1 DEF Row
<1>3. CASE run[j].pc = "unpublished"
  <2>1. Outcome(j) = [as("PENDING") EXCEPT !.attempts = r.attempts - 1]
    BY <1>3 DEF Outcome, Uncharged
  <2>2. Outcome(j) = [status |-> "PENDING", attempts |-> r.attempts - 1, stuck |-> FALSE]
    BY <2>1
  <2> QED
    BY <1>1, <2>2 DEF Row
<1>4. CASE run[j].pc \notin {"stored", "unpublished"} /\ (j \in unknown \/ Exhausted(run[j].attempts))
  <2>1. Outcome(j) = as("FAILED")
    BY <1>4 DEF Outcome
  <2> QED
    BY <1>1, <1>4, <2>1 DEF Row, Exhausted
<1>5. CASE run[j].pc \notin {"stored", "unpublished"} /\ ~(j \in unknown \/ Exhausted(run[j].attempts))
  <2>1. Outcome(j) = as("PENDING")
    BY <1>5 DEF Outcome
  <2> QED
    BY <1>1, <1>5, <2>1 DEF Row, Exhausted
<1> QED
  BY <1>2, <1>3, <1>4, <1>5

-----------------------------------------------------------------------------
(* One lemma for each part of the next-state relation.                     *)

LEMMA ClockStep ==
  ASSUME IInv, NEW j \in Job, Enqueue(j) \/ TimePasses(j) \/ GetsStuck(j)
  PROVE  IInv'
<1> USE DEF IInv, market
<1>1. CASE Enqueue(j)
  <2>1. job' \in [Job -> Row] /\ queue' \in Seq(Job)
    <3>1. job' = [job EXCEPT ![j].status = "PENDING"] /\ job \in [Job -> Row]
      BY <1>1 DEF Enqueue, TypeOK
    <3>2. job' \in [Job -> Row]
      BY <3>1 DEF Row
    <3> QED
      BY <1>1, <3>2 DEF Enqueue, TypeOK
  <2>2. /\ job[j].status = "none" /\ job'[j].status = "PENDING" /\ job'[j].attempts = job[j].attempts
        /\ \A i \in Job \ {j} : job'[i] = job[i]
    BY <1>1 DEF Enqueue, TypeOK, Row
  <2>3. JobsSound'
    BY <1>1, <2>2 DEF Enqueue, JobsSound, InStep, Earned, Charged
  <2> QED
    BY <1>1, <2>1, <2>3 DEF Enqueue, TypeOK, ChunksTrue, Truth
<1>2. CASE TimePasses(j)
  <2>1. /\ span' \in [Job -> Span]
        /\ \A i \in Job : span[i] # "lagging" => span'[i] # "lagging"
    BY <1>2 DEF TimePasses, TypeOK, Span
  <2>2. JobsSound'
    BY <1>2, <2>1 DEF TimePasses, JobsSound, InStep, Earned, Charged
  <2> QED
    BY <1>2, <2>1, <2>2 DEF TimePasses, TypeOK, ChunksTrue, Truth
<1>3. CASE GetsStuck(j)
  <2>1. job' \in [Job -> Row]
    BY <1>3 DEF GetsStuck, TypeOK, Row
  <2>2. /\ job'[j].status = job[j].status /\ job'[j].attempts = job[j].attempts
        /\ \A i \in Job \ {j} : job'[i] = job[i]
    BY <1>3 DEF GetsStuck, TypeOK, Row
  <2>3. JobsSound'
    BY <1>3, <2>2 DEF GetsStuck, JobsSound, InStep, Earned, Charged
  <2> QED
    BY <1>3, <2>1, <2>3 DEF GetsStuck, TypeOK, ChunksTrue, Truth
<1> QED
  BY <1>1, <1>2, <1>3

LEMMA DrainStep ==
  ASSUME IInv, Drain
  PROVE  IInv'
<1> USE DEF IInv, market
<1>1. CASE DrainStarts \/ DrainReturns \/ BatchDone
  BY <1>1 DEF DrainStarts, DrainReturns, PassEnds, BatchDone, TypeOK, ChunksTrue, Truth,
     JobsSound, InStep, Earned, Charged
<1>2. CASE ClaimNext
  <2>1. PICK j \in Job :
          /\ Oldest(j) /\ Claim(j) /\ seen' = seen \cup {j}
          /\ run' = [run EXCEPT ![j] = [pc |-> "claimed", attempts |-> job[j].attempts + 1]]
    BY <1>2 DEF ClaimNext
  <2>2. [pc |-> "claimed", attempts |-> job[j].attempts + 1] \in RunState
    BY JobTyped DEF RunState
  <2>3. /\ run' \in [Job -> RunState]
        /\ run'[j] = [pc |-> "claimed", attempts |-> job[j].attempts + 1]
        /\ \A i \in Job \ {j} : run'[i] = run[i]
    BY <2>1, <2>2 DEF TypeOK, RunState
  <2>4. UNCHANGED <<queue, chunk, span, shut, unknown, pass, faults>>
    BY <1>2 DEF ClaimNext
  <2>0. /\ job' \in [Job -> Row] /\ Runnable(j)
        /\ job'[j] = [status |-> "RUNNING", attempts |-> job[j].attempts + 1, stuck |-> FALSE]
        /\ \A i \in Job \ {j} : job'[i] = job[i]
    BY <2>1, ClaimStep
  <2>5. InStep(j)' /\ Earned(j)' /\ Charged(j)'
    <3>1. run[j].pc = "idle" /\ job[j].attempts < MaxAttempts + faults
      BY <2>0 DEF JobsSound, InStep, Charged, Runnable
    <3>2. job[j].attempts \in Nat /\ faults \in Nat /\ MaxAttempts \in Nat
      BY JobTyped, QueueAssumptions
    <3> QED
      BY <2>0, <2>3, <2>4, <3>1, <3>2 DEF InStep, Earned, Charged
  <2>6. ASSUME NEW i \in Job \ {j} PROVE InStep(i)' /\ Earned(i)' /\ Charged(i)'
    <3>1. job'[i] = job[i] /\ run'[i] = run[i]
      BY <2>0, <2>3
    <3>2. InStep(i) /\ Earned(i) /\ Charged(i)
      BY DEF JobsSound
    <3> QED
      BY <2>4, <3>1, <3>2 DEF InStep, Earned, Charged
  <2>7. JobsSound'
    BY <2>5, <2>6 DEF JobsSound
  <2> QED
    BY <2>1, <2>3, <2>4, <2>7, ClaimStep DEF TypeOK, RunState, ChunksTrue, Truth
<1>3. CASE BatchStarts
  <2>1. \A i \in Job : /\ run'[i] \in RunState /\ run'[i].attempts = run[i].attempts
                       /\ \/ run'[i] = run[i]
                          \/ run[i].pc = "claimed" /\ run'[i].pc = "fetch"
    BY <1>3, JobTyped DEF BatchStarts, Claimed, RunState
  <2>2. run' \in [Job -> RunState]
    BY <1>3, <2>1 DEF BatchStarts
  <2>3. ASSUME NEW i \in Job PROVE InStep(i)' /\ Earned(i)' /\ Charged(i)'
    <3>1. InStep(i) /\ Earned(i) /\ Charged(i)
      BY DEF JobsSound
    <3>2. UNCHANGED <<job, chunk, span, shut, unknown, faults>>
      BY <1>3 DEF BatchStarts
    <3> QED
      BY <2>1, <3>1, <3>2 DEF InStep, Earned, Charged
  <2>4. JobsSound'
    BY <2>3 DEF JobsSound
  <2> QED
    BY <1>3, <2>2, <2>4 DEF BatchStarts, TypeOK, RunState, ChunksTrue, Truth
<1> QED
  BY <1>1, <1>2, <1>3 DEF Drain

\* A fault that drops the batch: the attempts of the dropped jobs stay charged, and
\* the fault pays for them.
LEMMA DropStep ==
  ASSUME IInv, ClaimThrows \/ Crash
  PROVE  IInv'
<1> USE DEF IInv, market, PassEnds
<1>1. run' = [j \in Job |-> NotRun] /\ faults' = faults + 1 /\ faults < MaxFaults
  BY DEF ClaimThrows, Crash, Faulty
<1>2. run' \in [Job -> RunState] /\ \A j \in Job : run'[j].pc = "idle"
  BY <1>1, NotRunTyped
<1>3. faults' \in 0..MaxFaults /\ MaxAttempts \in Nat /\ faults \in Nat
  BY <1>1, QueueAssumptions DEF TypeOK
<1>4. CASE UNCHANGED job
  <2>1. JobsSound'
    BY <1>1, <1>2, <1>3, <1>4, JobTyped
    DEF ClaimThrows, Crash, JobsSound, InStep, Earned, Charged
  <2> QED
    BY <1>2, <1>3, <1>4, <2>1 DEF ClaimThrows, Crash, TypeOK, RunState, ChunksTrue, Truth
<1>5. ASSUME ClaimThrows, NEW j \in Job, Oldest(j), Claim(j) PROVE IInv'
  <2>1. /\ job' \in [Job -> Row] /\ Runnable(j)
        /\ job'[j] = [status |-> "RUNNING", attempts |-> job[j].attempts + 1, stuck |-> FALSE]
        /\ \A i \in Job \ {j} : job'[i] = job[i]
    BY <1>5, ClaimStep
  <2>2. UNCHANGED <<queue, chunk, span, shut, unknown>>
    BY <1>5 DEF ClaimThrows
  <2>3. job[j].attempts \in Nat /\ job[j].attempts < MaxAttempts + faults
    BY <2>1, JobTyped DEF Runnable, JobsSound, InStep, Charged
  <2>4. InStep(j)' /\ Earned(j)' /\ Charged(j)'
    BY <1>1, <1>2, <1>3, <2>1, <2>3 DEF InStep, Earned, Charged
  <2>5. ASSUME NEW i \in Job \ {j} PROVE InStep(i)' /\ Earned(i)' /\ Charged(i)'
    <3>1. job'[i] = job[i] /\ job[i].attempts \in Nat /\ run'[i].pc = "idle"
      BY <1>2, <2>1, JobTyped
    <3>2. InStep(i) /\ Earned(i) /\ Charged(i)
      BY DEF JobsSound
    <3> QED
      BY <1>1, <1>3, <2>2, <3>1, <3>2 DEF InStep, Earned, Charged
  <2>6. JobsSound'
    BY <2>4, <2>5 DEF JobsSound
  <2> QED
    BY <1>2, <1>3, <1>5, <2>1, <2>2, <2>6 DEF ClaimThrows, TypeOK, RunState, ChunksTrue, Truth
<1> QED
  BY <1>4, <1>5 DEF ClaimThrows, Crash

\* A step of the fetch: the row is left alone.
LEMMA FetchStep ==
  ASSUME IInv, NEW j \in Job,
         FetchesDay(j) \/ JudgesMissing(j) \/ FetchesSpan(j) \/ FetchFails(j)
  PROVE  IInv'
<1> USE DEF IInv, market
<1>1. PICK pc \in {"missing", "got", "unpublished", "failed"} :
        To(j, pc) /\ (pc = "got" => span[j] # "lagging")
  BY DEF FetchesDay, JudgesMissing, MissingIsFinal, FetchesSpan, MayFold, FetchFails
<1>2. run[j].pc # "idle" /\ UNCHANGED <<job, queue, chunk, span, shut, unknown, pass, seen, faults>>
  BY DEF FetchesDay, JudgesMissing, FetchesSpan, FetchFails, Running
<1>3. /\ run' \in [Job -> RunState]
      /\ run'[j].pc = pc /\ run'[j].attempts = run[j].attempts
      /\ \A i \in Job \ {j} : run'[i] = run[i]
  BY <1>1, ToStep
<1>4. JobsSound'
  BY <1>1, <1>2, <1>3 DEF JobsSound, InStep, Earned, Charged
<1> QED
  BY <1>2, <1>3, <1>4 DEF TypeOK, RunState, ChunksTrue, Truth

\* What is stored is what the market did.
LEMMA FetchedTrue ==
  ASSUME TypeOK, NEW j \in Job, span[j] # "lagging"
  PROVE  Fetched(j) = Truth(j) /\ Fetched(j) \in {"full", "empty"}
BY DEF TypeOK, Fetched, Truth

LEMMA StoreStep ==
  ASSUME IInv, NEW j \in Job, Stores(j) \/ StoreThrows(j)
  PROVE  IInv'
<1> USE DEF IInv, market
<1>1. run[j].pc = "got" /\ span[j] # "lagging"
  BY DEF Stores, StoreThrows, Running, JobsSound, Earned
<1>2. /\ chunk' \in [Job -> {"none", "full", "empty", "short"}]
      /\ chunk' \in {chunk, [chunk EXCEPT ![j] = Fetched(j)]}
  BY <1>1, FetchedTrue DEF Stores, StoreThrows, TypeOK
<1>3. PICK pc \in {"stored", "failed"} :
        To(j, pc) /\ (pc = "stored" => chunk' = [chunk EXCEPT ![j] = Fetched(j)])
  BY DEF Stores, StoreThrows
<1>4. /\ run' \in [Job -> RunState]
      /\ run'[j].pc = pc /\ run'[j].attempts = run[j].attempts
      /\ \A i \in Job \ {j} : run'[i] = run[i]
  BY <1>3, ToStep
<1>5. /\ UNCHANGED <<job, queue, span, shut, unknown, pass, seen>>
      /\ faults' \in 0..MaxFaults /\ faults <= faults' /\ faults \in Nat /\ faults' \in Nat
      /\ MaxAttempts \in Nat
  BY QueueAssumptions DEF Stores, StoreThrows, Faulty, TypeOK
<1>6. /\ \A i \in Job : chunk'[i] = chunk[i] \/ (i = j /\ chunk'[i] = Truth(i) /\ chunk'[i] # "none")
      /\ pc = "stored" => chunk'[j] # "none"
  BY <1>1, <1>2, <1>3, FetchedTrue DEF TypeOK
<1>7. JobsSound'
  <2> SUFFICES ASSUME NEW i \in Job PROVE InStep(i)' /\ Earned(i)' /\ Charged(i)'
    BY DEF JobsSound
  <2>1. InStep(i) /\ Earned(i) /\ Charged(i) /\ job[i].attempts \in Nat
    BY JobTyped DEF JobsSound
  <2>2. InStep(i)' /\ Charged(i)'
    BY <1>1, <1>3, <1>4, <1>5, <2>1 DEF InStep, Charged
  <2>3. Earned(i)'
    BY <1>1, <1>3, <1>4, <1>5, <1>6, <2>1 DEF Earned
  <2> QED
    BY <2>2, <2>3
<1>8. ChunksTrue'
  BY <1>5, <1>6 DEF ChunksTrue, Truth
<1> QED
  BY <1>2, <1>4, <1>5, <1>7, <1>8 DEF TypeOK, RunState

LEMMA SettleStep ==
  ASSUME IInv, NEW j \in Job, Settles(j) \/ SettleFails(j)
  PROVE  IInv'
<1> USE DEF IInv, market
<1>1. /\ run' \in [Job -> RunState] /\ run'[j].pc = "idle"
      /\ \A i \in Job \ {j} : run'[i] = run[i]
  BY NotRunTyped DEF Settles, SettleFails, TypeOK, RunState
<1>2. /\ UNCHANGED <<queue, chunk, span, shut, unknown, pass, seen>> /\ Settling(j)
      /\ run[j].pc # "idle" /\ InStep(j) /\ Earned(j) /\ Charged(j)
  BY DEF Settles, SettleFails, Settling, Running, JobsSound
<1>3. job[j].attempts \in Nat /\ faults \in Nat /\ MaxAttempts \in Nat
  BY JobTyped, QueueAssumptions
<1>4. CASE Settles(j)
  <2>1. /\ job' \in [Job -> Row] /\ job'[j] = Outcome(j)
        /\ \A i \in Job \ {j} : job'[i] = job[i]
    BY <1>2, <1>4, OutcomeType DEF Settles, TypeOK
  <2>2. InStep(j)' /\ Earned(j)' /\ Charged(j)'
    <3>1. Outcome(j).attempts \in Nat
      BY <1>2, OutcomeType DEF Row
    <3>2. InStep(j)' /\ Earned(j)'
      BY <1>1, <1>2, <1>3, <2>1, <3>1, OutcomeType DEF InStep, Earned
    <3>3. faults' = faults
      BY <1>4 DEF Settles
    <3>4. Charged(j)'
      BY <1>1, <1>2, <1>3, <2>1, <3>1, <3>3, OutcomeType DEF Charged
    <3> QED
      BY <3>2, <3>4
  <2>3. JobsSound'
    BY <1>1, <1>2, <1>4, <2>1, <2>2 DEF Settles, JobsSound, InStep, Earned, Charged
  <2> QED
    BY <1>1, <1>2, <1>4, <2>1, <2>3 DEF Settles, TypeOK, RunState, ChunksTrue, Truth
<1>5. CASE SettleFails(j)
  <2>1. faults' = faults + 1 /\ faults' \in 0..MaxFaults /\ UNCHANGED job
    BY <1>3, <1>5, QueueAssumptions DEF SettleFails, Faulty
  <2>2. ASSUME NEW i \in Job PROVE InStep(i)' /\ Earned(i)' /\ Charged(i)'
    <3>1. InStep(i) /\ Earned(i) /\ Charged(i) /\ job[i].attempts \in Nat
      BY JobTyped DEF JobsSound
    <3> QED
      BY <1>1, <1>2, <1>3, <2>1, <3>1 DEF InStep, Earned, Charged
  <2>3. JobsSound'
    BY <2>2 DEF JobsSound
  <2> QED
    BY <1>1, <1>2, <2>1, <2>3 DEF TypeOK, RunState, ChunksTrue, Truth
<1> QED
  BY <1>4, <1>5

-----------------------------------------------------------------------------
(* The invariant and what follows from it.                                 *)

LEMMA InitInv == Init => IInv
<1> SUFFICES ASSUME Init PROVE IInv
  OBVIOUS
<1>1. NoRow \in Row /\ NotRun \in RunState
  BY NotRunTyped DEF NoRow, Row
<1>2. TypeOK
  BY <1>1, QueueAssumptions DEF Init, TypeOK, Span, RunState
<1>3. JobsSound
  BY QueueAssumptions DEF Init, JobsSound, InStep, Earned, Charged, NoRow, NotRun
<1> QED
  BY <1>2, <1>3 DEF IInv, Init, ChunksTrue

LEMMA StepInv == IInv /\ [Next]_vars => IInv'
<1> SUFFICES ASSUME IInv, [Next]_vars PROVE IInv'
  OBVIOUS
<1>1. CASE UNCHANGED vars
  BY <1>1 DEF vars, market, IInv, TypeOK, ChunksTrue, Truth, JobsSound, InStep, Earned, Charged
<1> QED
  BY <1>1, ClockStep, DrainStep, DropStep, FetchStep, StoreStep, SettleStep DEF Next, RunJob

\* The inductive invariant holds in every reachable state.
THEOREM Invariance == Spec => []IInv
BY InitInv, StepInv, PTL DEF Spec

\* Every variable keeps its type: an attempt is given back only where one was
\* charged.
THEOREM TypeCorrect == Spec => []TypeOK
<1>1. IInv => TypeOK
  BY DEF IInv
<1> QED
  BY <1>1, Invariance, PTL

\* No permanent chunk is stored before the archive had its time: it holds what the
\* market did, through every interleaving of the clock with the fetches.
THEOREM StoredForGood == Spec => []ChunksTrue
<1>1. IInv => ChunksTrue
  BY DEF IInv
<1> QED
  BY <1>1, Invariance, PTL

\* DONE stands over a stored chunk, FAILED over spent attempts or a job that cannot
\* succeed, and only the job's own failures and the faults are charged to it.
THEOREM SettledFairly == Spec => []OutcomesEarned
<1>1. IInv => OutcomesEarned
  BY DEF IInv, JobsSound, Earned, Charged, OutcomesEarned
<1> QED
  BY <1>1, Invariance, PTL

\* Within a pass a job that bounced is charged no second attempt.
THEOREM OneChargePerPass == Spec => OneAttemptPerPass
<1> DEFINE Kept == \A j \in seen : pass # "idle" /\ pass' # "idle"
                     => job'[j].attempts <= job[j].attempts
<1>1. IInv /\ [Next]_vars => [Kept]_vars
  <2> SUFFICES ASSUME IInv, [Next]_vars, NEW j \in seen, pass # "idle", pass' # "idle"
               PROVE  job'[j].attempts <= job[j].attempts
    OBVIOUS
  <2>1. j \in Job /\ job[j].attempts \in Nat
    BY JobTyped DEF IInv, TypeOK
  <2>2. CASE UNCHANGED job
    BY <2>1, <2>2
  <2>3. CASE ClaimNext
    <3>1. PICK i \in Job : Oldest(i) /\ Claim(i)
      BY <2>3 DEF ClaimNext
    <3>2. i \notin seen /\ \A k \in Job \ {i} : job'[k] = job[k]
      BY <3>1, ClaimStep DEF IInv
    <3> QED
      BY <2>1, <3>2
  <2>4. ASSUME NEW i \in Job, Enqueue(i) \/ GetsStuck(i)
        PROVE  job'[j].attempts <= job[j].attempts
    <3>1. job \in [Job -> Row]
      BY DEF IInv, TypeOK
    <3>2. \/ job' = [job EXCEPT ![i].status = "PENDING"]
          \/ job' = [job EXCEPT ![i].stuck = TRUE]
      BY <2>4 DEF Enqueue, GetsStuck
    <3>3. job'[j].attempts = job[j].attempts
      BY <2>1, <3>1, <3>2 DEF Row
    <3> QED
      BY <2>1, <3>3
  <2>5. ASSUME NEW i \in Job, Settles(i)
        PROVE  job'[j].attempts <= job[j].attempts
    <3>1. Settling(i) /\ job' = [job EXCEPT ![i] = Outcome(i)] /\ InStep(i) /\ TypeOK
      BY <2>5 DEF Settles, IInv, JobsSound
    <3>2. Outcome(i).attempts <= job[i].attempts
      BY <3>1, OutcomeType
    <3>3. job'[j] = IF j = i THEN Outcome(i) ELSE job[j]
      BY <2>1, <3>1 DEF TypeOK
    <3> QED
      BY <2>1, <3>2, <3>3
  <2> QED
    BY <2>1, <2>2, <2>3, <2>4, <2>5
    DEF Next, Drain, RunJob, TimePasses, DrainStarts, BatchStarts, DrainReturns, BatchDone,
        ClaimThrows, PassEnds, Crash, FetchesDay, JudgesMissing, FetchesSpan, FetchFails, Stores,
        StoreThrows, SettleFails, vars
<1> QED
  BY <1>1, Invariance, PTL DEF Spec, OneAttemptPerPass

=============================================================================
