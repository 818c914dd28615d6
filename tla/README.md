# TLA+ models and proofs of tradetrack-api

tradetrack-api is the always-on worker of TradeTrack: one Node process (NestJS, one Fly
machine, restarted by every deploy) that keeps trading accounts connected to their brokers and
writes their trades into the Postgres database it shares with the web application.  Node runs one
thread, so code between two `await`s is atomic and everything else interleaves: stream frames,
timers, reconcile ticks, HTTP answers, database answers, and the writes of the web application.
All paths below are relative to the repository.

## The system

| part | state it keeps | operations | talks to |
| --- | --- | --- | --- |
| TradeLocker trade writer, `src/tradelocker/trade-writer.service.ts` | a map from position to the tail of its promise chain; the Trade rows | `recordOpen`, `recordClosed`, `recordUnrealized`, `serialize` | database; called by the manager |
| TradeLocker manager, `src/tradelocker/connection-manager.service.ts` | sessions (token, generation, synced, seenOpens), pendingCloses, finalizingCloses, closedSeen, primedAccounts, login promises and tokens, REST pacer | stream handlers, close finalization and its retries, scans, reconcile, connect/reconnect, deactivation | stream (`connection.ts`), REST (`client.ts`, `history.ts`), writer, database, Telegram |
| MetaApi manager, `src/metaapi/connection-manager.service.ts` | sessions, backoff, opening set, retry timers; the TradingAccount row; cloud terminals that cost money | `open`, `ensureAccount`, `handleFailure`, `teardown`, `destroyCloudAccount`, `reconcile` | MetaApi cloud, database, web app through row columns |
| MetaApi data path, `sync-listener.ts`, `deal-aggregator.ts`, `trade-writer.service.ts`, `backfill.service.ts` | open set and synchronized flag of each listener, promise chains, Trade rows | backfill of every connect, callbacks of the stream, deals of a position re-read and aggregated into absolute totals | RPC and stream of the manager, database |
| cTrader manager, `src/ctrader/ctrader-connection-manager.ts` | one session per environment (generation, accounts, signature, timer, connection), routing map, last probe | connect, token refresh, token invalidation, loss and reconnect, reconcile | Open API socket, OAuth, database |
| cTrader writer and backfill, `ctrader-trade-writer.ts`, `backfill.service.ts` | promise chains, Trade rows | execution events applied live, history backfilled | database |
| Candle ingest worker, `src/candles/*` | the CandleIngestJob table, CandleChunk rows | claim, run, settle, reclaim | S3 archive, database, web app (enqueues) |
| metrics, encryption, configuration, health, bootstrap | none | pure functions, HTTP probes, wiring | |

What is hard here, and what therefore must hold:

* **one position, many paths** (TradeLocker).  A close arrives as a live event, a retry, a deep scan or
  a periodic scan, over several awaits each; frames are lost, doubled or late; the report lags; the
  process restarts.  A position is finalized by one path at a time, announced once, never reopened,
  never skipped while its row is open, and eventually captured.
* **chains of promises** (all writers).  Writes of one position never overlap, a failure does not
  block the next, the map does not leak.
* **a resource that costs money** (MetaApi).  Every call may land and still be answered with an error.
  At most one terminal exists per account, no row is hidden before its terminal is gone, an initial
  connect and a teardown end.
* **a queue worked at least once** (candles).  The archive lags and closed days have no file; deploys and
  failed calls leave jobs half done.  A permanent chunk is true, waiting costs no attempt, a
  failure costs one, and every job ends.
* **adding and setting the same totals** (cTrader).  Execution events add to a row, the backfill of
  every connect sets it from history, requests outlive the socket they were sent on.  No deal counts
  twice, no open position is closed, no closed row reopened, and what ended in downtime is recovered.
* **totals from two readers** (MetaApi data).  The backfill and the listener read the deals of a position at
  different moments and both set its totals; history is replayed, the SDK reconnects by itself, the EA
  has booked a part.  A closed row is true, never loses a deal, and what either could see is captured.
* **rotating credentials on a shared socket** (cTrader manager).  Attempts overlap, each refresh kills the
  token before it, reconcile rewrites accounts and routing under them.  A token survives, events find
  their row, no session is left without timer or socket, and connected accounts are served.
* **many sessions, shared logins** (TradeLocker manager).  Accounts are stopped and started while their
  attempts run on.  An account streams once, no session is forgotten, sessions follow their rows,
  and a dead login is not repeated for ever.

`PROJECT.json` lists every hazard at its line, with the properties aimed at it.

## The modules

    TradeRows                 what the writer promises: one atomic write at a time per position
      ^ implements            (refinement, run trade_writer)
    TradeWriter               the writer as promises and database calls
    TradeRows <- CloseCapture the manager's paths to a Trade row, on top of the atomic writer
    TradeLockerSessions       the manager's sessions: logins, streams, reconnects, deactivation
                              (what a stream brings is in CloseCapture)
    MetaApiLifecycle          the MetaApi manager and the terminals of one account
    MetaApiDeals              what MetaApiLifecycle connects to: deals, backfill, listener, rows
    CtraderPool               the cTrader manager for one environment: attempts, tokens, routing
                              (what one account of it does is in CtraderTrades)
    CandleQueue               the candle ingest worker and its table of jobs
    CtraderTrades             the deals of a cTrader account as Trade rows: live events and backfill
    MC*                       constants and symmetry for TLC
    *_proofs                  theorems about each of the eight components (TradeWriter_proofs,
                              CloseCapture_proofs, TradeLockerSessions_proofs,
                              MetaApiLifecycle_proofs, MetaApiDeals_proofs, CandleQueue_proofs,
                              CtraderPool_proofs, CtraderTrades_proofs)

The MC modules only define small sets; every `.cfg` gives the constants of the component their
values.  Definitions named as variants ("with a plausible slip") stand next to the definition they
would replace; no specification uses them.

### TradeWriter and TradeRows

`TradeWriter` numbers the writes of `serialize` in the order they are issued.  A write has the number
of the write whose tail promise it was chained to (`Predecessor`, the chains map), and goes through
its database calls: `UpsertOpen`; `ReadRow` then `UpsertClosed`; `ReadRow` then `UpdateUnrealized`.
Any call may fail, or land and be answered with an error.  `Settled` is the promise the caller
holds, `TailRuns` the `finally` that removes the map entry.  The main application edits
riskPercentage at any moment.  A row is abstracted to open/closed, the origin of quantity and
entryDate (stream or report; the code sets them together), which money figure `pnl` holds, and
where the risk comes from.

`TradeRows` is the abstract writer: a FIFO chain per position, the head carried out in one step,
its answer delivered in a later one.  `ImplementsRows` maps a chain to the unsettled writes in order
of issue and a reply to their outcome (`InOrder` lists a set of numbers), so everything CloseCapture assumes about the writer
is what the promise code does.  `Spec` is the writer as it may stop anywhere; `LiveSpec` adds that
calls are answered.

### CloseCapture

One account.  The broker opens, modifies and closes positions and lists closes in the report
some time later (`published`).  While subscribed it sends frames; frames of one position arrive in
order, ClosePosition may be delivered again, and a lost socket takes its frames along.  An
asynchronous call is a *flow*: `finalizeClose` for a live event or for the retry loop, or
`backfillCloses`.  Each action is the code between two awaits.

| code | model |
| --- | --- |
| `handlePosition`, `handleAccountStatus`, `handleClose`, `handleSyncEnd` | `HandlePosition`, `HandleAccountStatus`, `HandleClose`, `HandleSyncEnd` |
| `finalizeClose` with `topUpClose` | `StartFinalize` (guard and claim), `FetchAnswered`, `FinalizeThrows`, `FinalizeMisses`, `FinalizeMatches`, `FinalizeSettles` |
| `retryPendingCloses` | `TickStarts` (the copy of the map), `Retry`, the `Charge` of the outcome |
| `backfillCloses`, `primeClosedSeen` | `StartScan`, `ScanLoggedIn`, `PrimeRead`, `PrimeApplied`, `ScanThrows`, `ScanWrites`, `ScanSettles`, `ScanEnds` |
| `reconcile` after the retries | `TickEnds`, `TickScans`, `TickChangesSession` |
| `connect` once subscribed, `handleLost`, `onJwtInvalid` | `StreamUp`, `StreamLost`, `JwtInvalid` |
| deploy or crash | `Restart` |

Abstractions.  The login of a finalize is merged with its fetch (nothing is read between them; the
check for a superseded session is made synchronously by `restParamsFor`, and its callers hold a
live session then).  The pages of one scan are one snapshot of the report, which cursor paging
gives for closes older than the cursor.  The throttle of AccountStatus lets any tick through or
not, also one that queues behind a running write or comes after the close.  A retry works on the entry of the map where the code keeps the captured object: sessions
change only in `reconcile`, after the loop.  The `lastSyncAt` stamp, HTTP 429 waits and the
Telegram send change nothing these properties see.

### MetaApiLifecycle

One account: its row (status, stored id, syncMethod marker, archived), the cloud terminals that
carry its name (`running` bills, `stopped` does not), the session, the attempts counter, armed
retry timers, and the calls in flight: one `open` (the `opening` set), the tick of `reconcile`, and
teardowns, which the tick starts without waiting.

| code | model |
| --- | --- |
| `open`, `ensureAccount`, `findByName`, `persistAccountId` | `StartOpen`, `GetAnswers`, `FindAnswers`, `CreateLands`, `CreateAnswers`, `PersistAnswers`, `DeployAnswers`, `ConnectAnswers`, `SuccessAnswers` |
| its catch block and `handleFailure` | `OpenUnauthorized` (401), `OpenNotFound`, `OpenRejected` (fatal codes), `OpenTransient` with `Lands`: what the failing call may have done |
| retry timer | `TimerFires`, with the snapshot it was armed with |
| `destroyCloudAccount` | `DestroyReads`, `Undeploys`, `Removes`, `DestroyFails`, `Probes`, `ProbeFails` |
| the write that hides the row, the write that clears the id | `HideLands`, `ClearLands`, `WriteFails` |
| `teardown` | `TickTearsDown` (its synchronous start), `TeardownFinds`, `TeardownFails`, destroy, hide |
| `reconcile` | `TickStarts`, `TickLoads`, `TickFails`, `TickVanished`, `TickTearsDown`, `TickOpens`, `TickPasses` |
| web app, EA | `UserConnects`, `UserDisconnects`, `MarkerClobbered` |

Abstractions.  Waiting for the terminal, the RPC connection, the backfill and the stream is one
step (`ConnectAnswers`), so the gates between them are one gate.  Generations are dropped: with one
open in flight a session that is present is its own.  MetaApi answers 404 only for a terminal that
is gone.  A create that is answered with an error, or is in flight at a crash, has landed by then or never
does: one that lands only after the next lookup by name is not modelled.  Timers with equal snapshots
coincide.  Delays are dropped but for one fact liveness needs: the longest retry delay (60 s) is
longer than a reconcile interval (30 s), so at the cap a tick comes first (`due`, `Waited`).

### CandleQueue

The CandleIngestJob rows, the chunks stored, and one worker: a pass of `drain` (`pass`, `seen`), the
jobs of the batch it runs (`run`).  For each job the clock and the archive are one value, `span`:
ended but not published, published, past the safety margin.  Which days were closed and which
jobs name an unknown symbol is chosen at the start.

| code | model |
| --- | --- |
| `drain`, `claimNext` | `DrainStarts`, `ClaimNext`, `BatchStarts`, `BatchDone`, `DrainReturns`; its catch block is `ClaimThrows` |
| `ingest`, `fetchDayMinuteCandles` | `FetchesDay` then `JudgesMissing` (1m), `FetchesSpan` (1h, 1d), `FetchFails` |
| `writeChunk` | `Stores`, `StoreThrows` |
| `runJob`, `settle` | `Outcome`, `Settles`, `SettleFails` |
| web app, clock, deploy | `Enqueue`, `TimePasses`, `GetsStuck`, `Crash` |

Abstractions.  The requests for the days of one span are one step.  The margin (6 h) exceeds the
publication lag (2 h) by more than a request takes, so a request never lasts from before the
publication to after the margin.  A row whose job is at work may grow old as well, but the only worker
excludes it.

### CtraderTrades

One account.  The broker executes deals that open a position or close a part of it; while the account
is authenticated each is announced by an event.  A Trade row is none, open or closed with its exit
time, and its money is how often each deal is counted in it.  A deal carries the volume left after
it, from which both sides tell whether the position is over.  One backfill is in flight at most.

| code | model |
| --- | --- |
| `connectEnv`, `fetchSymbolNames`, `handleLost` | `Connects`, `AuthTimesOut`, `NamesDone`, `NamesTimeOut` (of a lost socket), `ConnectionLost` |
| `handleExecution`, `record` | `HandleExecution` |
| `serialize` with `upsertOpen`, `applyClose`, `writeBackfill` | `WriteLands`, `WriteFails` on the head of the chain: `Ensured`, `DealApplied`, `TotalsSet` |
| `backfillAccount`, `watermark` | `BackfillStarts`, `ReadsWatermark`, `WatermarkFails` |
| `fetchOpenPositions`, `fetchDeals` | `ReconcileAnswers`, `ReconcileFails`, `ListAnswers`, `ListFails` |
| the loops of `run`, `reconstructClosed`, `reconstructWithoutReconcile` | `Decided`, `BackfillWrites`, `BackfillEnds` |
| deploy or crash | `Restart` |

Abstractions.  The chain is the FIFO of `TradeRows`: `serialize` is the same code as the one of the
TradeLocker writer, which TradeWriter models promise by promise, and nothing is tried again, so a
write that landed and failed is one that landed.  Messages of one socket arrive in order, so an answer
is handled after the events of the deals it knows (`Answers`); an answer whose events are still on the
way is the answer with those deals executed after it.  A request on a lost socket never answers and
times out.  Broker and worker have one clock; a tick stands for days, longer than anything in flight
(`AtRest`).  The limit of 10 000 deals per request is not modelled.

### CtraderPool

One environment: the table of tokens, the pairs cTrader accepts, the session with its array of account
objects, and the connect attempts that may be unfinished at once.  An attempt is where `connectEnv` waits
(`pc`), whether the generation is still its own (`own`), its socket, and the accounts it has
authenticated.

| code | model |
| --- | --- |
| `connectEnv` up to the loop | `Connecting` (its synchronous part), `OpenAnswers`, `AppAnswers`, `ConnectFails` |
| its loop and tail | `Loops`: superseded, next account, or `Finishes`; a failed account is skipped (`Skips`) |
| `ensureFreshToken`, `refreshAccessToken` | `Begins`, `RefreshAnswers`, `RefreshRejected`, `RefreshFails`, `StoreAnswers`, `StoreFails` |
| `accountAuth` | `AuthAnswers`, `AuthFails` |
| `deactivateDeadToken` | `Reaps`, `ReapFails` |
| `handleLost`, `handleTokenInvalidated`, the timer | `LossNoticed`, `TokenInvalidated`, `TimerFires` |
| `reconcile`, `applyReconcile` | `TickProbes`, `TickLoads`, `TickApplies` (`Seeds`, `Clears`, `Replaces`), `TickFails` |
| `start`, `onModuleDestroy`, crash | `Start`, `StartFails`, `Stop`, `Dies` |

Abstractions.  A pair stands for access token, refresh token and expiry, and pairs and table writes are
numbered by one clock, so a later pair expires later.  Whether a token is near its expiry is any answer.
A refresh that is answered with an error may have rotated the pair at cTrader.  The tick's
probe, its load and the application of what was loaded are three steps, with everything else between
them.  The load of `start` is one step with its seeding: no session exists yet, so only the table can
change between them, and the first tick loads again.  `lost` remembers the tokens whose newest pair a failed call,
a crash or the user took away.  Delays are dropped.

### TradeLockerSessions

One login group: the accounts share e-mail, server and environment and hence a password at the broker,
of which every row stores a copy; passwords and identities (what the signature covers) are versions.
Groups share nothing in this part of the code.  `attempt` has the connect attempts of an account that
are unfinished and the sockets of the finished; `parked` names the answers after which the code
arms no timer.

| code | model |
| --- | --- |
| `connect`, `authGroup` | `Connecting` with `Joined`, `LoginAnswers`, `LoginFails`, `Granted`, `NoToken`, `LoginLost`, `Rejected` |
| `open`, `subscribe` | `Opens`, `Subscribes`, `ConnectFails`, `SubscribeRefused` |
| `deactivateAccount` | `StampLands`, `StampFails` |
| `handleLost`, `scheduleReconnect` | `StreamLost`, `TimerFires` |
| `reconcile`, `stopSession`, `startAccount`, `loadAccounts` | `TickReads`, `TickApplies` with `ApplyReconcile` |
| `start`, `onApplicationShutdown`, crash | `Start`, `StartFails`, `Stop`, `Dies` |

Abstractions.  Closing a socket is immediate; an attempt whose socket was closed times out.  An expired
JWT at SUBSCRIBE is a passing refusal.  The pending closes that `stopSession` drops and the scans that
`reconcile` starts are in CloseCapture.

### MetaApiDeals

The deals of one MT5 account as the days on which they were made: the first deal of a position opens it,
each other closes a part.  `open()` is a phase: window, requests, writes, stream.  The SDK's callbacks
wait in `inbox`; a call of a listener goes on after its awaits, also when the listener has been replaced.

| code | model |
| --- | --- |
| `aggregateDeals` | `Aggregate`, with `ExitOf`, `Skipped` (no opening deal, or all booked by the EA), `Owned` (the clamp) |
| `run`, `resolveWatermark` | `Opens`, `ReadsWatermark` with `WindowFrom`, `DealsAnswer`, `PositionsAnswer`, `BackfillAggregates`, `BackfillWrites`, `BackfillEnds`, `BackfillFails` |
| `onPositionsReplaced`, `onPositionUpdated`, `onPositionRemoved`, `onDealAdded`, `onDealsSynchronized` | actions of the same names, then `Replaces`, `Prices` |
| `finalize` | `Finalizes`, `FetchReads` (the broker reads the deals), `FetchAnswers` (the answer is handled), `FetchFails` |
| `recordPosition`, `recordUnrealized`, `serialize` | `Enqueue`, `WriteLands`, `WriteFails` on the head of the chain |
| a superseded or closed session, a crash, the SDK's own reconnect | `Closes`, `Restart`, `StreamDrops` |

Abstractions.  A write is one step: its read and its upsert see the row alike, as the chain excludes
other writes, but for the risk the user edits.  Money is the set of deals counted.  A day is longer than
anything in flight (`AtRest`).  The history a stream replays is one event per position.  `Waits` says
whether the SDK awaits a callback before the next.  Reversals (INOUT deals) are not modelled.  `MaxDeals` bounds
the deals of each position.  `behind`, `older` and `unseen` are history variables that name the gaps of
the code, see Findings: without them `ClosesCaptured` and `ClosedIsTrue` are refuted.  `unseen` has the
positions closed in part while the listener did not have them for open, and those that a snapshot
whose write failed left out after such a close (`LeftOut`).

## What the runs check

The runs of CloseCapture, MetaApiLifecycle and CandleQueue check deadlock.  In the others
the bounded writes, deals, edits and connects run out and the system may rest.

| run | bounds | shows |
| --- | --- | --- |
| `close_capture` | 1 position that is not priced, 2 flows, 2 sessions (one change or restart), chains of 2, 2 retries | one finalize at a time, no leaked claim, `SeenIsClosed`, opens and closes announced once |
| `close_priced` | 1 position priced and modified while open, 1 flow, 2 sessions | `ClosedForever` with frames and price ticks around a close |
| `close_capture_live` | 2 positions closed in downtime, 1 flow, 1 session, pages of 1 row, a deep scan of 2 pages | `ClosesCaptured` |
| `trade_writer` | 3 writes on 2 positions, one editable | no chain left behind, every write settles, refinement of TradeRows |
| `metaapi` | 2 terminal ids, 1 teardown in flight, 2 attempts, 1 change by the user or EA, 1 restart, 1 timer | `OneTerminal`, `DestroyConfirmed` |
| `metaapi_live` | 1 terminal id, no restart | `ConnectEnds`, `TeardownEnds`, `HealthyReopened` |
| `metaapi_deals` | 1 position, 3 deals on 2 days, EA up to day 1, window of 1 day, 2 connects, 1 listener call at a time, 1 failed call or reconnect of the SDK | `ClosedIsTrue`, `TotalsGrow`, `ClosesCaptured` |
| `metaapi_lost` (violation) | 1 position, 2 deals, 3 days, window of 3 days with a buffer of 1, 2 connects, no failure | see Findings |
| `candle_queue` | 1 day, 1 month, batches of 2, 2 attempts, 2 crashes or failed calls | `ChunksTrue`, `OutcomesEarned`, `OneAttemptPerPass`, `JobsEnd` |
| `ctrader_trades` | 1 position, 3 deals of volume 1 or 2, 4 days, window of 2 with a buffer of 1, 2 reconnects or restarts, 2 failures | `CountedOnce`, `ClosedIsOver`, `BackfillCatchesUp` |
| `ctrader_pool` | 2 rows of one cTrader account, 2 attempts, a clock of 2, 1 failed call or lost socket, 1 failed load, 1 shutdown or crash | `EventsReachOwner`, `NeverStranded`, `RefreshSurvives`, `ConnectedServed` |
| `tl_sessions` | 2 accounts of one group, 2 attempts each, 1 change of password, 1 edit, 1 fault, 1 final refusal, 1 shutdown or crash | `OneStream`, `NeverStranded`, `SessionsFollowRows`, `DeadLoginsEnd` |

Why the bounds are enough.  The conflicts over a position are pairwise (a finalize against a
finalize, a scan or a retry), so two flows meet every pair, and positions share nothing but flows and
the pages of a scan.  Those are met in `close_capture_live`, where one of two closes is off the newest
page; its `ClosesCaptured` says that a reported close which stays on the newest page ends in the table,
and the closes behind that page are a finding (`DowntimeCovered`).  One position that is opened,
modified and closed while the worker streams passes the same property with `OnePosition`, no
`Downtime`, `Modified` that position, `PageSize` 2 and `DeepPages` 1.  The theorems
below remove these bounds for safety.  Three writes are the least where a chain has a first, a middle
and a last element.  Two attempts distinguish the last from the others; a second terminal id is what a
second create would need; a second user change (a reconnect of an account that was
disconnected) is not covered by the MetaApi runs. In `candle_queue` jobs share nothing but the
batch and its failures, which two jobs show; two faults let a job be dropped or left behind twice.
In `ctrader_trades` three deals are an opening, a partial and a final close; a second position
would only move the start of the window, which here moves with the clock.  Four days let a deal fall
out of the window while a later one is in it.  Positions have one opening deal; see Findings for more.
In `metaapi_deals` the three deals are an opening, a partial and a final close, the second day is the
least on which a deal is out of the window, and other positions matter through the watermark only, for
which `sibling` stands.  In `ctrader_pool` two rows of one cTrader account bring the choice of the
freshest and the change of owner that routing is about, and two attempts are the superseded one and
its successor; a clock of two lets one pair be rotated or replaced.  In `tl_sessions` two
accounts are what a shared login needs, and two attempts of each are the old and the new.

`MaxChain` holds back Position frames and price ticks; a flow waits for its write before the next, so it adds one
write at most.  Pricing is left to a run with one flow since it more than doubles the states.

Symmetry is used in the two safety runs only, over flows and over terminal ids.

### Fairness

`CloseCapture`: frames are delivered, calls in flight settle, ticks fire and a lost stream comes back
(weak fairness).  A call that is tried again and again succeeds at some point (strong fairness on a
database write, login, priming query and report), since reconcile never stops retrying it and outages
of broker and database end.  The periodic scan comes due again and again.  Nothing forces a live event,
a retry or the deep scan to succeed.  `SteadySpec` is the same on a stream that does not drop.

`MetaApiLifecycle`: calls settle, ticks and timers fire (weak fairness), and from some point on the
tick's query, the calls of a teardown, the success write and the worker's own token work
(`<>[][~Outage]_vars`).  Connecting may fail forever, in every way: that is what `ConnectEnds` is about.
The success write is in `Outage` because the attempts counter is reset before it (line 314), so an
account whose success write always fails is retried without bound.

`CandleQueue`: the poll timer fires, calls settle and the clock runs (weak fairness); faults are finitely
many.  A fetch may fail each time: the job then ends as FAILED.  Outside the model, a job that kills
the process each time is reclaimed for ever, since only a caught error compares its attempts with
the maximum (`ingest-worker.service.ts:174`).

`TradeWriter`: every call of a write is answered.

`CtraderPool` and `TradeLockerSessions`: every call is answered or times out (`command`, `open` and
`emitWithAck` race a timer), timers and the reconcile interval fire, a dead socket is noticed by the liveness
probe, and Fly restarts a process that ended; faults, edits and stops are finitely many.  `MetaApiDeals`:
the system as a whole goes on while any step of it is enabled; all its counters are
bounded, so no part can starve another.

## What is proved

Every safety invariant and every action property of the passing runs, and the refinement of
`TradeRows`, is a theorem of its component's `Spec` (tlapm with SMT and Zenon; PTL for the temporal
steps), for every value of the constants that satisfies the module's named `ASSUME` and for
as many positions, accounts, flows or attempts as one likes.  The assumptions say that bounds are numbers,
that sets whose maximum or listing the code takes are finite, and that the names standing for
"nobody" are no members.  Three theorems have a hypothesis of their own, stated with them: `ClosedRowsTrue` and
`NeverGoesBack` (`Waits`) and `NeverClosedEarly` (`Increased = {}`).

The argument is the same everywhere: an inductive invariant `IInv` with `InitInv` and `StepInv`, theorem
`Invariance`, and the properties as its consequences.  TLC checked each `IInv` as an invariant of the
component's run before it was proved.  None of the properties below is inductive alone; what each needs is:

**CloseCapture.**  `TypeOK`, `SeenIsClosed`, `OneFinalize`, `ClaimsMatchFlows`, `CloseToldOnce`, `OpenToldOnce`
and `ClosedForever`, and beyond the runs `ToldIsClosed` (what was announced is closed, in the table and at the
broker) and `RetryBudget` (a pending close never uses more tries than allowed).  `CloseToldOnce` needs that
once a close has been announced nothing is left that could finalize it again (`ToldIsOver`: no finalize in
flight, and unless the position is in closedSeen, as after a restart, no frame and no pending entry).
`SeenIsClosed` needs that a reply "ok" to a close write means the row is closed (`RepliesSound`), that
whoever awaits a write awaits a close (`FlowWritesClose`), and that rows read by the priming query are
closed (`FlowRowsSound`).  `ToldIsClosed` needs that only closed positions are reported or queued
(`BrokerSound`); `FlowShape` ties the program counter of a flow to what it carries.  `OpenToldOnce`
needs what `handlePosition` relies on across reconnects: a position that was spoken of is in
seenOpens, or still in the snapshot that comes before SyncEnd, or was closed before this stream came
up (`NoNews`, with `FramesSound` about the frames under way), and nobody else has it to announce (`OnceOver`).

**TradeWriter.**  `TypeOK`; `Serialized`, that while a write of a position is not done no later one has made a
call; and `Refines`, that the writer implements `TradeRows`.  `Chained` says that the chains map
holds the newest write of a position while one of them is not done, and that a write waits,
through the others, for all before it: so the write that runs is the least unsettled one (`BeforeDone`).
Under the mapping a call that lands is the abstract step of the head of the chain, a settled promise
removes it, a new write is appended (`ListMore`, `ListLess`), and all else stutters.  `Absent` (a row that does not
exist has no pnl) is what the create branch of the upsert relies on.

**TradeLockerSessions.**  `TypeOK`, `OneStream`, `NeverStranded`.  The invariant speaks of one account at a
time: one attempt owns the generation (`OwnerSound`), whatever socket is not closed is the connection of the
session and belongs to that attempt (`SocketSound`), beside an armed timer there is no connection, only
a SUBSCRIBE that is timing out (`TimerSound`), and a session has a timer, a final answer or an owner
(`Attended`).  `LoginAwaited` is part of `TypeOK`.

**MetaApiLifecycle.**  `TypeOK`, `OneTerminal`, `DestroyConfirmed`.  An open that is about to create a terminal
has looked by name and found none, and none has appeared since (`TerminalsSound`): no
other call in flight creates one.

**MetaApiDeals.** `TypeOK`; `CountsAll`, that a closed row counts every deal up to its exit that the EA
has not booked and no other; and under `Waits` `NeverGoesBack` (`TotalsGrow`) and `ClosedRowsTrue`
(`ClosedIsTrue`).  The writes queued for a position come in the order of what they have read
(`ChainSound`), and a backfill has read no less than the rows and queues hold, since no listener works
meanwhile (`UptoSound`): so no older total lands after a newer one.  That holds only because whoever has
a write in a queue waits for it (`Waiting`) and because a callback handles the deals it has read before
the next is made: what the one that works has read is no older than the rows and queues (`NoneNewer`).
`ClosedRowsTrue` needs that a position closed in part which the listener does not have for open is about
to be told to it, while no call is reading deals (`ReducedKnown`), for which callbacks must come one by
one (`OneBusy`).  Whether the SDK waits is not in the repository.  Without it two calls overlap, an
answer may be handled after one that was read later, and TLC refutes `TotalsGrow` (`Waits` FALSE,
`TwoCalls`, `MaxTroubles` 0, `MaxDay` 1, `Clamp` 0, `MaxOpens` 1; 30 states).  `CountsAll` needs no
hypothesis.

**CandleQueue.**  `TypeOK`, `ChunksTrue`, `OutcomesEarned`, `OneAttemptPerPass`.  While a job runs its row is the one
its claim wrote (`InStep`), a fetched day is one that was published (`Earned`), and a job that waits has an
attempt left beyond the faults (`Charged`).

**CtraderPool.**  `TypeOK`, `EventsReachOwner`, `NeverStranded`, `RefreshSurvives`.  One attempt owns the session
and its socket is the only one not closed (`ConnSound`), it works on the session's own array of accounts,
each of which is routed to itself (`RouteSound`), and a pair of tokens belongs to one row, those about
to be stored being in no row, no array and nothing the tick has read yet (`PairsSound`, `Held`); a load that
is applied late still has one row per cTrader account (`ReadSound`).

**CtraderTrades.**  `TypeOK`, `CountedOnce`, `BackfillCatchesUp`, `ClosedIsOver` where positions have one opening
deal, and `PlainClosedIsOver`: a position with one opening deal is not closed early even when others are
increased.  The invariant speaks of the deals, events, row, writes and plan of one position: a deal on its
way is counted nowhere and comes after no totals that have it (`QueueSound`), and totals that may be
set are of deals whose events have arrived (`TotalsSound`).  A clean backfill that owes a row its close
has planned it, queued it behind no later deal, or done it (`Owes`, `Pays`).  For increased positions
`ClosedIsOver` is false, see Findings, so the hypothesis cannot be dropped.

Only model-checked: the liveness properties (`ClosesCaptured` of both modules, `EveryWriteSettles`,
`ConnectEnds`, `TeardownEnds`, `HealthyReopened`, `JobsEnd`, `ConnectedServed`, `SessionsFollowRows`,
`DeadLoginsEnd`), since the proof system handles neither fairness nor ENABLED.

## Findings

One finding has a run of its own.  The others can be reproduced with the definition and constants named
here; each is argued at its line in `PROJECT.json`.

* **`metaapi_lost`**: a MetaApi position that closes while the first backfill runs and before the worker
  restarts; a close in another account of the user then moves the window of the next backfill past its
  opening deal, and the position is skipped.  No later window, no live event closes its row
  (`DowntimeRecovered` of MetaApiDeals).
* A deep scan that fails after SyncEnd is not repeated; closes of the downtime beyond the newest page stay
  open in the table until the next reconnect (`DowntimeCovered` under `SteadySpec` with the constants of
  `close_capture_live`).
* A Position write that lands after the finalization overwrites the report's quantity and entry date
  (`trade-writer.service.ts:97`).
* A risk edited between the read and the upsert of `writeClosed` is lost (`trade-writer.service.ts:121`).
* The give-up after the last connect attempt hides the row while a terminal whose id was never learnt is
  running (`StoppedBeforeHidden` with the constants of `metaapi_live`).
* The success write of an open overwrites 'disconnecting' that the user asked for while it was
  connecting (`connection-manager.service.ts:316`).  A terminal of a row that vanished is destroyed by one try only (`:120`).
* A MetaApi position closed between the start of the backfill and the end of the replayed history
  is seen by neither, and a close lost when the SDK reconnects by itself is not looked for
  (`ClosesCaptured` of MetaApiDeals without `behind`).
* A partial close handed over before its position was announced as open closes the row (`ClosedIsTrue`
  without `unseen`).
* A snapshot of open positions whose write fails half-way leaves the rest out of the listener's open set, and a
  replayed deal closes the row of one of them (`sync-listener.ts:67`).  The proof of `ClosedIsTrue` did not go
  through without this case.  With two positions, `OneCall`, `Waits` TRUE, `Lookback` 1, `Buffer` 0,
  `Clamp` 0, `MaxDay` 1, `MaxDeals` 2, `MaxBacklog` 1, `MaxOpens` 1 and `MaxTroubles` 2 TLC refutes it when
  `LeftOut` is empty (26 steps), and confirms it as it stands (1.3 million states).
* A cTrader row closed with all its partial closes loses those older than the window of the next
  backfill (`RerunIdempotent` with the constants of `ctrader_trades`).
* The final close of a cTrader position that is executed between the end of the backfill's window and the answer
  about open positions is overwritten by the totals of its earlier partial closes
  (`ClosingDealKept`, same constants).
* A cTrader backfill whose socket is lost shuts out the backfill of the next connect, so closes of the
  downtime are not recovered (`DowntimeRecovered` of CtraderTrades, same constants).
* Without the list of open positions a cTrader position with several opening deals may be closed while
  it is open (set `Increased` to the position in `CtraderTrades.cfg`).
* `invalid_grant` to a pair that has been replaced meanwhile deactivates the row that holds the new one
  (`OnlyDeadReaped` with the constants of `ctrader_pool`).
* The probe of the cTrader tick is remembered before the load it asks for succeeds, and a `start()` that fails arms
  no reconcile, here and in the TradeLocker manager (`FollowsDatabase`, same constants).
* A cTrader account skipped for a passing error waits for the next reconnect of its environment
  (`ctrader-connection-manager.ts:186`).
* The signature of a TradeLocker account leaves the password out, and a login in flight is shared whatever
  password it was sent with: a row with the good password can stay without a stream or be
  deactivated (`ReconnectRevives` with the constants of `tl_sessions`).

## Not modelled

* Candle decoding and aggregation, trade metrics: pure functions over binary files, calendars and
  doubles; TLC has neither floating point nor the data.
* Encryption, database pool, health endpoints, configuration, bootstrap: no state of their own.
* Sockets, HTTP, schemas, Telegram: what they deliver or lose is an input of the models.
* Several environments of cTrader and several login groups of TradeLocker: they share only the tick, which
  handles one after the other without an await.

## Plan

1. Done: TradeRows, TradeWriter, CloseCapture with its theorems, MetaApiLifecycle, MetaApiDeals,
   CandleQueue, CtraderTrades, CtraderPool, TradeLockerSessions.
2. Done: every safety invariant and action property of the runs and the refinement of TradeRows as
   theorems of their specifications.
3. Proofs that are left: what `ClosedIsTrue` becomes when the SDK does not wait for callbacks (`Waits`
   FALSE: the calls of a listener then overlap, and the set they judge by changes between their reads);
   `ClosedIsOver` for increased positions as long as no request for the open positions fails; `DowntimeRecovered`
   and `RerunIdempotent` under the conditions that their counterexamples break.
4. The fold of minute candles as an operator against a reference definition.
