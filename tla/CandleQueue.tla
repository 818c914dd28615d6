------------------------------ MODULE CandleQueue ------------------------------
(***************************************************************************)
(* The candle IngestWorkerService: one process drains a table of jobs,     *)
(* each naming a span of minutes to take from a price archive and to store *)
(* as a permanent chunk.  A pass claims batches of jobs, one claim at a    *)
(* time, and runs a batch concurrently.  The archive publishes a span some *)
(* hours after it ends, and has no file at all for a closed market; a      *)
(* chunk stored too early would be short or empty for good.  The process   *)
(* can die anywhere, and any database call can fail or land unanswered.    *)
(***************************************************************************)
EXTENDS Naturals, Sequences, FiniteSets

CONSTANTS Job,
          Wide,        \* jobs of resolution 1h or 1d, folded from many daily files
          Batch,       \* JOB_CONCURRENCY
          MaxAttempts, \* MAX_JOB_ATTEMPTS
          MaxFaults    \* bound: crashes and failed or unanswered database calls

ASSUME QueueAssumptions ==
  /\ Wide \subseteq Job
  /\ Batch \in Nat \ {0} /\ MaxAttempts \in Nat \ {0} /\ MaxFaults \in Nat

VARIABLES
  job,     \* job[j]: the CandleIngestJob row
  queue,   \* the jobs in order of createdAt
  chunk,   \* chunk[j]: what the CandleChunk row holds
  span,    \* span[j]: where the clock is for j
  shut,    \* 1m jobs of a day the market was closed: there never is a file
  unknown, \* jobs of an unknown symbol or a derived resolution
  pass,    \* drain: not running, claiming a batch, or running it
  seen,    \* jobs claimed in this pass
  run,     \* run[j]: runJob, for the jobs of the batch
  faults

market == <<shut, unknown>>
vars == <<job, queue, chunk, span, market, pass, seen, run, faults>>

NoRow == [status |-> "none", attempts |-> 0, stuck |-> FALSE]
NotRun == [pc |-> "idle", attempts |-> 0]

\* stuck: RUNNING and untouched for STUCK_RUNNING_RECLAIM_MS.
Row == [status : {"none", "PENDING", "RUNNING", "DONE", "FAILED"},
        attempts : Nat, stuck : BOOLEAN]

\* lagging: ended, no file yet; published: the file is there; settled: the safety
\* margin has passed as well.
Span == {"lagging", "published", "settled"}

TypeOK ==
  /\ job \in [Job -> Row]
  /\ queue \in Seq(Job)
  /\ chunk \in [Job -> {"none", "full", "empty", "short"}]
  /\ span \in [Job -> Span]
  /\ shut \subseteq Job \ Wide /\ unknown \subseteq Job
  /\ pass \in {"idle", "claim", "run"}
  /\ seen \subseteq Job
  /\ run \in [Job -> [pc : {"idle", "claimed", "fetch", "missing", "got", "stored",
                            "unpublished", "failed"},
                      attempts : Nat]]
  /\ faults \in 0..MaxFaults

Init ==
  /\ job = [j \in Job |-> NoRow] /\ queue = <<>>
  /\ chunk = [j \in Job |-> "none"]
  /\ span = [j \in Job |-> "lagging"] 
  /\ shut \in SUBSET (Job \ Wide) /\ unknown \in SUBSET Job
  /\ pass = "idle" /\ seen = {}
  /\ run = [j \in Job |-> NotRun]
  /\ faults = 0

-----------------------------------------------------------------------------
\* Variants with a plausible slip, kept to show that the properties notice it.
NothingExcluded == {}
PendingOnly(j) == job[j].status = "PENDING"
MissingMeansClosed(j) == TRUE
GivenBackTwice(r) == r.attempts - 2
AtFirstFailure(attempts) == TRUE

\* The where clause of claimNext.
Runnable(j) == job[j].status = "PENDING" \/ (job[j].status = "RUNNING" /\ job[j].stuck)

\* Jobs of this pass are not claimed again in it.
Excluded == seen

\* A missing file means a closed market only once the margin has passed.
MissingIsFinal(j) == span[j] = "settled"

\* A month or a year is folded only once its end is past the margin.
MayFold(j) == span[j] = "settled"

\* An unpublished span gives its attempt back.
Uncharged(r) == r.attempts - 1

\* The catch block of runJob.
Exhausted(attempts) == attempts >= MaxAttempts

\* What the market really did in the span of j.
Truth(j) == IF j \in shut THEN "empty" ELSE "full"

Faulty == faults < MaxFaults /\ faults' = faults + 1

-----------------------------------------------------------------------------
(* The web application and the clock.                                      *)

Enqueue(j) ==
  /\ job[j].status = "none"
  /\ job' = [job EXCEPT ![j].status = "PENDING"]
  /\ queue' = Append(queue, j)
  /\ UNCHANGED <<chunk, span, market, pass, seen, run, faults>>

\* The margin is hours longer than the archive's lag: a request does not last
\* from before the publication to after the margin.  No clock is read for an
\* unknown symbol.
TimePasses(j) ==
  /\ j \notin unknown
  /\ \/ span[j] = "lagging" /\ span' = [span EXCEPT ![j] = "published"]
     \/ /\ span[j] = "published" /\ (run[j].pc = "missing" => j \in shut)
        /\ span' = [span EXCEPT ![j] = "settled"]
  /\ UNCHANGED <<job, queue, chunk, market, pass, seen, run, faults>>

\* A row whose job still runs grows old too, but its pass does not claim it again.
GetsStuck(j) ==
  /\ job[j].status = "RUNNING" /\ ~job[j].stuck /\ run[j].pc = "idle"
  /\ job' = [job EXCEPT ![j].stuck = TRUE]
  /\ UNCHANGED <<queue, chunk, span, market, pass, seen, run, faults>>

-----------------------------------------------------------------------------
(* drain and claimNext.                                                    *)

DrainStarts ==
  /\ pass = "idle"
  /\ pass' = "claim"
  /\ UNCHANGED <<job, queue, chunk, span, market, seen, run, faults>>

Claimed == {j \in Job : run[j].pc = "claimed"}
Candidates == {i \in 1..Len(queue) : Runnable(queue[i]) /\ queue[i] \notin Excluded}
Oldest(j) == \E i \in Candidates : queue[i] = j /\ \A k \in Candidates : i <= k
Claim(j) == job' = [job EXCEPT ![j] = [status |-> "RUNNING", attempts |-> @.attempts + 1,
                                       stuck |-> FALSE]]
PassEnds == pass' = "idle" /\ seen' = {}

\* findFirst and the guarded updateMany are one step: the worker runs on one machine
\* only and nobody else writes an existing row, so the guard holds.
ClaimNext ==
  /\ pass = "claim" /\ Cardinality(Claimed) < Batch
  /\ \E j \in Job :
       /\ Oldest(j) /\ Claim(j)
       /\ seen' = seen \cup {j}
       /\ run' = [run EXCEPT ![j] = [pc |-> "claimed", attempts |-> job[j].attempts + 1]]
  /\ UNCHANGED <<queue, chunk, span, market, pass, faults>>

BatchStarts ==
  /\ pass = "claim" /\ Claimed # {}
  /\ Cardinality(Claimed) = Batch \/ Candidates = {}
  /\ pass' = "run"
  /\ run' = [j \in Job |-> IF j \in Claimed THEN [run[j] EXCEPT !.pc = "fetch"] ELSE run[j]]
  /\ UNCHANGED <<job, queue, chunk, span, market, seen, faults>>

DrainReturns ==
  /\ pass = "claim" /\ Claimed = {} /\ Candidates = {}
  /\ PassEnds
  /\ UNCHANGED <<job, queue, chunk, span, market, run, faults>>

\* A claim that throws, landed or not, ends the pass; the jobs already claimed are
\* dropped.
ClaimThrows ==
  /\ pass = "claim" /\ Cardinality(Claimed) < Batch /\ Faulty /\ PassEnds
  /\ run' = [j \in Job |-> NotRun]
  /\ UNCHANGED job \/ \E j \in Job : Oldest(j) /\ Claim(j)
  /\ UNCHANGED <<queue, chunk, span, market>>

\* Promise.all: the next batch is claimed when every job of this one has settled.
BatchDone ==
  /\ pass = "run" /\ \A j \in Job : run[j].pc = "idle"
  /\ pass' = "claim"
  /\ UNCHANGED <<job, queue, chunk, span, market, seen, run, faults>>

-----------------------------------------------------------------------------
(* runJob and ingest.                                                      *)

To(j, pc) == run' = [run EXCEPT ![j].pc = pc]
Running(j, pc) == pass = "run" /\ run[j].pc = pc

FetchesDay(j) ==
  /\ Running(j, "fetch") /\ j \notin unknown \cup Wide
  /\ To(j, IF span[j] = "lagging" \/ j \in shut THEN "missing" ELSE "got")
  /\ UNCHANGED <<job, queue, chunk, span, market, pass, seen, faults>>

\* The clock is read after the request.
JudgesMissing(j) ==
  /\ Running(j, "missing")
  /\ To(j, IF MissingIsFinal(j) THEN "got" ELSE "unpublished")
  /\ UNCHANGED <<job, queue, chunk, span, market, pass, seen, faults>>

FetchesSpan(j) ==
  /\ Running(j, "fetch") /\ j \in Wide \ unknown
  /\ To(j, IF MayFold(j) THEN "got" ELSE "unpublished")
  /\ UNCHANGED <<job, queue, chunk, span, market, pass, seen, faults>>

\* A request or the decoding fails.
FetchFails(j) ==
  /\ Running(j, "fetch") /\ j \notin unknown /\ (j \in Wide => MayFold(j))
  /\ To(j, "failed")
  /\ UNCHANGED <<job, queue, chunk, span, market, pass, seen, faults>>

\* The files at hand: a day without one gives no candles, a span folded before its
\* last day is published comes out short.
Fetched(j) ==
  IF j \in Wide THEN IF span[j] = "lagging" THEN "short" ELSE "full"
  ELSE IF span[j] = "lagging" THEN "empty" ELSE Truth(j)

Stores(j) ==
  /\ Running(j, "got")
  /\ chunk' = [chunk EXCEPT ![j] = Fetched(j)]
  /\ To(j, "stored")
  /\ UNCHANGED <<job, queue, span, market, pass, seen, faults>>

StoreThrows(j) ==
  /\ Running(j, "got") /\ Faulty
  /\ chunk' \in {chunk, [chunk EXCEPT ![j] = Fetched(j)]}
  /\ To(j, "failed")
  /\ UNCHANGED <<job, queue, span, market, pass, seen>>

Outcome(j) ==
  LET r == job[j]
      as(status) == [status |-> status, attempts |-> r.attempts, stuck |-> FALSE]
  IN IF run[j].pc = "stored" THEN as("DONE")
     ELSE IF run[j].pc = "unpublished" THEN [as("PENDING") EXCEPT !.attempts = Uncharged(r)]
     ELSE IF j \in unknown \/ Exhausted(run[j].attempts) THEN as("FAILED")
     ELSE as("PENDING")

\* A job that can never succeed is refused before any call.
Settling(j) ==
  \/ pass = "run" /\ run[j].pc \in {"stored", "unpublished", "failed"}
  \/ Running(j, "fetch") /\ j \in unknown

Settles(j) ==
  /\ Settling(j)
  /\ job' = [job EXCEPT ![j] = Outcome(j)]
  /\ run' = [run EXCEPT ![j] = NotRun]
  /\ UNCHANGED <<queue, chunk, span, market, pass, seen, faults>>

\* settle swallows its error; the row stays RUNNING.
SettleFails(j) ==
  /\ Settling(j) /\ Faulty
  /\ run' = [run EXCEPT ![j] = NotRun]
  /\ UNCHANGED <<job, queue, chunk, span, market, pass, seen>>

Crash ==
  /\ Faulty /\ PassEnds
  /\ run' = [j \in Job |-> NotRun]
  /\ UNCHANGED <<job, queue, chunk, span, market>>

-----------------------------------------------------------------------------
RunJob(j) ==
  \/ FetchesDay(j) \/ JudgesMissing(j) \/ FetchesSpan(j) \/ FetchFails(j)
  \/ Stores(j) \/ Settles(j)

Drain == DrainStarts \/ ClaimNext \/ BatchStarts \/ DrainReturns \/ BatchDone

Next ==
  \/ \E j \in Job : Enqueue(j) \/ TimePasses(j) \/ GetsStuck(j)
  \/ Drain \/ ClaimThrows \/ Crash
  \/ \E j \in Job : RunJob(j) \/ StoreThrows(j) \/ SettleFails(j)

\* Ticks fire, calls settle, the clock runs.  Nothing forces a fetch to succeed.
Fairness ==
  /\ WF_vars(Drain)
  /\ \A j \in Job : WF_vars(RunJob(j)) /\ WF_vars(TimePasses(j)) /\ WF_vars(GetsStuck(j))

Spec == Init /\ [][Next]_vars /\ Fairness

-----------------------------------------------------------------------------
(* Properties.                                                             *)

\* A permanent chunk is never short of what the market did: a missing file is not
\* taken for a closed day, nor a month folded, before the archive had its time.
ChunksTrue == \A j \in Job : chunk[j] \in {"none", Truth(j)}

\* The table says DONE only over a stored chunk, and FAILED only after the allowed
\* attempts or for a job that can never succeed.  However long the archive makes a job
\* wait, what is charged to it is its own failures and, for each crash or failed call,
\* one attempt more.
OutcomesEarned ==
  \A j \in Job :
    /\ job[j].status = "DONE" => chunk[j] # "none"
    /\ job[j].status = "FAILED" => j \in unknown \/ job[j].attempts >= MaxAttempts
    /\ job[j].attempts <= MaxAttempts + faults

\* A job that bounced waits for the next pass: one pass burns at most one attempt.
OneAttemptPerPass ==
  [][\A j \in seen : pass # "idle" /\ pass' # "idle" => job'[j].attempts <= job[j].attempts]_vars

\* Every job is settled for good: crashes, dropped claims and settles that failed
\* leave none behind.
JobsEnd == \A j \in Job : job[j].status = "PENDING" ~> job[j].status \in {"DONE", "FAILED"}

=============================================================================
