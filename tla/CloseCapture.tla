----------------------------- MODULE CloseCapture -----------------------------
(***************************************************************************)
(* How the TradeLocker ConnectionManagerService turns one account's        *)
(* positions into Trade rows.  Opens come from the live Position stream;   *)
(* a close is only announced by the stream and is finalized from the REST  *)
(* report close-trades-history, which may lag.  Four paths lead to a       *)
(* finalized row: the live ClosePosition event (topUpClose), its bounded   *)
(* retry on the reconcile tick (retryPendingCloses), the deep scan after   *)
(* every SyncEnd and the periodic one-page scan (backfillCloses).          *)
(*                                                                         *)
(* The process is one thread: an action is the code between two awaits.    *)
(* A call that awaits is a flow; at most Cardinality(Flow) of them are in  *)
(* the air.  The module follows the sessions of one account, numbered in   *)
(* the order they are created; stream frames of one position arrive in     *)
(* order, frames of different positions in any order.                      *)
(***************************************************************************)
EXTENDS TradeRows, Naturals, FiniteSets

CONSTANTS Flow,        \* identities of the asynchronous calls in flight
          Nobody,      \* the caller of a write that no flow awaits
          NoPosition,
          MaxSession,  \* bound: sessions the account ever gets
          MaxChain,    \* bound: writes a chain has when a stream frame adds one, plus 1
          MaxRetries,  \* CLOSE_TOPUP_MAX_RETRIES
          Downtime,    \* positions closed while the worker was down, rows left open
          Modified,    \* bound: positions the broker may modify while open
          Priced,      \* bound: positions AccountStatus may price
          PageSize,    \* HISTORY_PAGE_LIMIT
          DeepPages    \* HISTORY_MAX_PAGES; the periodic scan reads one page

ASSUME Assumptions ==
  /\ Caller = Flow \cup {Nobody}
  /\ Nobody \notin Flow
  /\ NoPosition \notin Position /\ IsFiniteSet(Position)
  /\ MaxSession \in Nat \ {0} /\ MaxChain \in Nat \ {0} /\ MaxRetries \in Nat \ {0}
  /\ Downtime \subseteq Position
  /\ Modified \subseteq Position /\ Priced \subseteq Position
  /\ PageSize \in Nat \ {0} /\ DeepPages \in Nat \ {0}

VARIABLES
  \* the broker
  opened,       \* positions ever opened
  closedAt,     \* closedAt[p]: rank of p's close among all closes, 0 when open
  published,    \* closed positions that close-trades-history already lists
  \* the stream: frames in flight
  snap,         \* Position frames of the initial snapshot
  syncDue,      \* the SyncEnd frame
  opens,        \* later Position frames
  closes,       \* ClosePosition frames
  \* the manager
  sessions,     \* how many sessions the account has had
  live,         \* the session in the sessions map, 0 when there is none
  up,           \* its stream is subscribed
  token,        \* session.token is set
  synced,       \* session.synced
  seenOpens,    \* session.seenOpens
  closedSeen, finalizing, primed, pending,
  flow,         \* flow[f]: one asynchronous call
  tick, todo,   \* reconcile is running; the pending closes it has yet to retry
  \* what Telegram was asked to say
  openTold, closeTold

broker == <<opened, closedAt, published>>
wire == <<snap, syncDue, opens, closes>>
session == <<sessions, live, up, token, synced, seenOpens>>
memory == <<closedSeen, finalizing, primed, pending>>
told == <<openTold, closeTold>>
vars == <<rowVars, broker, wire, session, memory, flow, tick, todo, told>>

-----------------------------------------------------------------------------
\* A flow is idle, a finalizeClose started by a live event ("close") or by the
\* retry loop ("retry"), or a backfillCloses ("scan").  Only topUpClose looks at
\* its session again after an await, so sess is kept for "close" alone.
Idle == [by |-> "none", pc |-> "idle", sess |-> 0, pos |-> NoPosition,
         rows |-> {}, pages |-> 0]

FlowState ==
  [by : {"none", "close", "retry", "scan"},
   pc : {"idle", "login", "query", "queried", "fetch", "got", "write"},
   sess : 0..MaxSession, pos : Position \cup {NoPosition},
   rows : SUBSET Position, pages : {0, 1, DeepPages}]

NoEntry == [sess |-> 0, attempts |-> 0]
Entry == [sess : 0..MaxSession, attempts : 0..MaxRetries]

TypeOK ==
  /\ RowsTypeOK
  /\ opened \subseteq Position
  /\ closedAt \in [Position -> Nat]
  /\ published \subseteq Position
  /\ snap \subseteq Position /\ opens \subseteq Position /\ closes \subseteq Position
  /\ syncDue \in BOOLEAN
  /\ sessions \in 0..MaxSession /\ live \in 0..MaxSession
  /\ up \in BOOLEAN /\ token \in BOOLEAN /\ synced \in BOOLEAN
  /\ seenOpens \subseteq Position
  /\ closedSeen \subseteq Position /\ finalizing \subseteq Position
  /\ primed \in BOOLEAN
  /\ pending \in [Position -> Entry]
  /\ flow \in [Flow -> FlowState]
  /\ tick \in BOOLEAN
  /\ todo \subseteq Position
  /\ openTold \in [Position -> Nat] /\ closeTold \in [Position -> Nat]

Init ==
  /\ row = [p \in Position |-> IF p \in Downtime THEN Opened(NoRow) ELSE NoRow]
  /\ NoWrites
  /\ opened = Downtime /\ published = {}
  /\ closedAt \in {g \in [Position -> 0..Cardinality(Downtime)] :
                     \A p \in Position :
                       /\ g[p] > 0 <=> p \in Downtime
                       /\ \A q \in Downtime : g[q] = g[p] => q = p}
  /\ snap = {} /\ syncDue = FALSE /\ opens = {} /\ closes = {}
  /\ sessions = 1 /\ live = 1
  /\ up = FALSE /\ token = FALSE /\ synced = FALSE /\ seenOpens = {}
  /\ closedSeen = {} /\ finalizing = {} /\ primed = FALSE
  /\ pending = [p \in Position |-> NoEntry]
  /\ flow = [f \in Flow |-> Idle]
  /\ tick = FALSE /\ todo = {}
  /\ openTold = [p \in Position |-> 0] /\ closeTold = [p \in Position |-> 0]

-----------------------------------------------------------------------------
(* The broker: opens and closes positions, publishes closes in the report  *)
(* some time later, and sends frames while the account is subscribed.      *)

IsOpen(p) == p \in opened /\ closedAt[p] = 0
OpenNow == {p \in Position : IsOpen(p)}

BrokerOpen(p) ==
  /\ p \notin opened
  /\ opened' = opened \cup {p}
  /\ opens' = IF up THEN opens \cup {p} ELSE opens
  /\ UNCHANGED <<rowVars, closedAt, published, snap, syncDue, closes, session, memory,
                 flow, tick, todo, told>>

\* A modification of an open position is sent as another Position frame.
BrokerModify(p) ==
  /\ p \in Modified /\ IsOpen(p) /\ up /\ p \notin opens
  /\ opens' = opens \cup {p}
  /\ UNCHANGED <<rowVars, broker, snap, syncDue, closes, session, memory, flow,
                 tick, todo, told>>

BrokerClose(p) ==
  /\ IsOpen(p)
  /\ closedAt' = [closedAt EXCEPT ![p] = Cardinality(opened \ OpenNow) + 1]
  /\ closes' = IF up THEN closes \cup {p} ELSE closes
  /\ UNCHANGED <<rowVars, opened, published, snap, syncDue, opens, session, memory,
                 flow, tick, todo, told>>

Publish(p) ==
  /\ closedAt[p] > 0 /\ p \notin published
  /\ published' = published \cup {p}
  /\ UNCHANGED <<rowVars, opened, closedAt, wire, session, memory, flow, tick, todo, told>>

\* fetchClosedTrades: the first pages of the report, newest close first.
Report(pages) ==
  {p \in published :
     Cardinality({q \in published : closedAt[q] > closedAt[p]}) < pages * PageSize}

-----------------------------------------------------------------------------
(* The session: connected, lost, invalidated.  The handshake itself is in  *)
(* another component; here it either gets the stream up or has not yet.    *)

\* connect, up to the subscription: the guards of the snapshot are reset and
\* the broker replays the open positions, then SyncEnd.
StreamUp ==
  /\ live # 0 /\ ~up
  /\ up' = TRUE /\ token' = TRUE /\ synced' = FALSE /\ seenOpens' = {}
  /\ snap' = OpenNow /\ syncDue' = TRUE /\ opens' = {} /\ closes' = {}
  /\ UNCHANGED <<rowVars, broker, sessions, live, memory, flow, tick, todo, told>>

StreamDown == up' = FALSE /\ snap' = {} /\ syncDue' = FALSE /\ opens' = {} /\ closes' = {}

\* handleLost: frames of the old socket are gone with its listeners.
StreamLost ==
  /\ up
  /\ StreamDown
  /\ UNCHANGED <<rowVars, broker, sessions, live, token, synced, seenOpens, memory,
                 flow, tick, todo, told>>

\* onJwtInvalid, met by a SUBSCRIBE of a reconnect.
JwtInvalid ==
  /\ live # 0 /\ ~up /\ token
  /\ token' = FALSE
  /\ UNCHANGED <<rowVars, broker, wire, sessions, live, up, synced, seenOpens, memory,
                 flow, tick, todo, told>>

-----------------------------------------------------------------------------
(* The pieces finalizeClose is made of.                                    *)

\* Variants with a plausible slip, kept to show that the properties notice it.
MayFinalizeUnclaimed(p) == p \notin closedSeen
ClaimLeaked(p) == finalizing
ChargedForever(e) == [e EXCEPT !.attempts = @ + 1]
AnnouncedInSnapshot(p) == p \notin seenOpens
OpenRowsToo == {p \in Position : row[p].st # "none"}

\* The synchronous guard: not finalized yet, and no finalize in flight.
MayFinalize(p) == p \notin closedSeen /\ p \notin finalizing

\* The finally block gives the claim back on every way out.
Released(p) == finalizing \ {p}

Forget(p) == pending' = [pending EXCEPT ![p] = NoEntry]

\* topUpClose after a finalize that returned false.
Requeue(p, s) ==
  pending' = IF pending[p] = NoEntry
             THEN [pending EXCEPT ![p] = [sess |-> s, attempts |-> 0]]
             ELSE pending

\* retryPendingCloses after a try that returned false or threw.
Charged(e) ==
  IF e = NoEntry \/ e.attempts + 1 >= MaxRetries THEN NoEntry
  ELSE [e EXCEPT !.attempts = @ + 1]
Charge(p) == pending' = [pending EXCEPT ![p] = Charged(@)]

\* handlePosition's notifyNewOpen.
Announced(p) == synced /\ p \notin seenOpens

\* primeClosedSeen's query: rows of the account with an exitDate.
PrimedRows == {p \in Position : row[p].st = "closed"}

\* The awaited write came back without an error.
Written(p) == reply[p] = "ok"

Free(f) == flow[f] = Idle
End(f) == flow' = [flow EXCEPT ![f] = Idle]

\* The flow goes on to another await, about a position and some report rows.
Move(f, pc, pos, rows) ==
  flow' = [flow EXCEPT ![f] = [by |-> @.by, pc |-> pc, sess |-> @.sess, pos |-> pos,
                               rows |-> rows, pages |-> @.pages]]
Finalizes(f) == flow[f].by \in {"close", "retry"}

StartFinalize(f, by, p, s) ==
  /\ Free(f)
  /\ flow' = [flow EXCEPT ![f] = [by |-> by, pc |-> "fetch", sess |-> s, pos |-> p,
                                   rows |-> {}, pages |-> 0]]
  /\ finalizing' = finalizing \cup {p}

\* backfillCloses, up to its first await: the session was checked to be live.
StartScan(f, pages) ==
  /\ Free(f)
  /\ flow' = [flow EXCEPT ![f] = [by |-> "scan", pc |-> "login", sess |-> 0,
                                   pos |-> NoPosition, rows |-> {}, pages |-> pages]]

-----------------------------------------------------------------------------
(* Stream handlers.                                                        *)

HandlePosition(p) ==
  /\ p \in snap \cup opens
  /\ Len(chain[p]) < MaxChain
  /\ \/ p \in snap /\ snap' = snap \ {p} /\ UNCHANGED opens
     \/ p \notin snap /\ opens' = opens \ {p} /\ UNCHANGED snap
  /\ seenOpens' = seenOpens \cup {p}
  /\ Enqueue(p, [kind |-> "open", by |-> Nobody, tell |-> Announced(p)])
  /\ UNCHANGED <<row, reply, broker, syncDue, closes, sessions, live, up, token, synced,
                 memory, flow, tick, todo, told>>

\* A tick of AccountStatus prices a position that the broker holds open or has held
\* open: the tick may come before the row exists and after it was closed, and its
\* write queues behind whatever runs.  The throttle skips any tick it likes.
HandleAccountStatus(p) ==
  /\ p \in Priced /\ up
  /\ p \in opened
  /\ Len(chain[p]) < MaxChain
  /\ Enqueue(p, [kind |-> "pnl", by |-> Nobody, tell |-> FALSE])
  /\ UNCHANGED <<row, reply, broker, wire, session, memory, flow, tick, todo, told>>

\* handleClose: topUpClose up to its first await.  The event may be delivered
\* again.  A finalize that returns false at once is queued in the same turn.
HandleClose(p) ==
  /\ p \in closes \ (snap \cup opens)
  /\ closes' \in {closes, closes \ {p}}
  /\ \/ /\ p \in closedSeen
        /\ Forget(p)
        /\ UNCHANGED <<flow, finalizing>>
     \/ /\ p \notin closedSeen
        /\ ~MayFinalize(p)
        /\ Requeue(p, live)
        /\ UNCHANGED <<flow, finalizing>>
     \/ /\ MayFinalize(p)
        /\ \E f \in Flow : StartFinalize(f, "close", p, live)
        /\ UNCHANGED pending
  /\ UNCHANGED <<rowVars, broker, snap, syncDue, opens, session, closedSeen, primed,
                 tick, todo, told>>

HandleSyncEnd ==
  /\ syncDue /\ snap = {}
  /\ syncDue' = FALSE
  /\ synced' = TRUE
  /\ \E f \in Flow : StartScan(f, DeepPages)
  /\ UNCHANGED <<rowVars, broker, snap, opens, closes, sessions, live, up, token,
                 seenOpens, memory, tick, todo, told>>

-----------------------------------------------------------------------------
(* The flows: one action per await that settles.                           *)

\* The report answers; a finalize looks for its own position in every page.
FetchAnswered(f) ==
  /\ flow[f].pc = "fetch"
  /\ Move(f, "got", flow[f].pos, IF Finalizes(f) THEN Report(DeepPages) \cap {flow[f].pos}
                                                 ELSE Report(flow[f].pages))
  /\ UNCHANGED <<rowVars, broker, wire, session, memory, tick, todo, told>>

\* A finalize whose login or fetch throws: the claim is released and, for a
\* live event, nothing is queued; the retry loop counts the try.
FinalizeThrows(f) ==
  /\ Finalizes(f) /\ flow[f].pc = "fetch"
  /\ finalizing' = Released(flow[f].pos)
  /\ IF flow[f].by = "retry" THEN Charge(flow[f].pos) ELSE UNCHANGED pending
  /\ End(f)
  /\ UNCHANGED <<rowVars, broker, wire, session, closedSeen, primed, tick, todo, told>>

\* The fetched report has no row for the position.
FinalizeMisses(f) ==
  /\ Finalizes(f) /\ flow[f].pc = "got" /\ flow[f].rows = {}
  /\ finalizing' = Released(flow[f].pos)
  /\ IF flow[f].by = "retry" THEN Charge(flow[f].pos)
                             ELSE Requeue(flow[f].pos, flow[f].sess)
  /\ End(f)
  /\ UNCHANGED <<rowVars, broker, wire, session, closedSeen, primed, tick, todo, told>>

\* The report has the row: hand it to the writer.
FinalizeMatches(f) ==
  /\ Finalizes(f) /\ flow[f].pc = "got" /\ flow[f].rows # {}
  /\ Enqueue(flow[f].pos, [kind |-> "close", by |-> f, tell |-> FALSE])
  /\ Move(f, "write", flow[f].pos, {})
  /\ UNCHANGED <<row, reply, broker, wire, session, memory, tick, todo, told>>

\* The awaited write settles: recorded as finalized and announced, or thrown.
FinalizeSettles(f) ==
  LET p == flow[f].pos
  IN /\ Finalizes(f) /\ flow[f].pc = "write"
     /\ chain[p] # <<>> /\ Head(chain[p]).by = f
     /\ Settle(p)
     /\ finalizing' = Released(p)
     /\ End(f)
     /\ \/ /\ Written(p)
           /\ closedSeen' = closedSeen \cup {p}
           /\ Forget(p)
           /\ closeTold' = [closeTold EXCEPT ![p] = @ + 1]
        \/ /\ reply[p] = "err"
           /\ IF flow[f].by = "retry" THEN Charge(p) ELSE UNCHANGED pending
           /\ UNCHANGED <<closedSeen, closeTold>>
     /\ UNCHANGED <<broker, wire, session, primed, tick, todo, openTold>>

ScanLoggedIn(f) ==
  /\ flow[f].pc = "login"
  /\ Move(f, IF primed THEN "fetch" ELSE "query", NoPosition, {})
  /\ UNCHANGED <<rowVars, broker, wire, session, memory, tick, todo, told>>

\* primeClosedSeen: the database answers, then the answer is applied.
PrimeRead(f) ==
  /\ flow[f].pc = "query"
  /\ Move(f, "queried", NoPosition, PrimedRows)
  /\ UNCHANGED <<rowVars, broker, wire, session, memory, tick, todo, told>>

PrimeApplied(f) ==
  /\ flow[f].pc = "queried"
  /\ closedSeen' = closedSeen \cup flow[f].rows
  /\ primed' = TRUE
  /\ Move(f, "fetch", NoPosition, {})
  /\ UNCHANGED <<rowVars, broker, wire, session, finalizing, pending, tick, todo, told>>

\* A scan's login, query or fetch throws: the scan is over.
ScanThrows(f) ==
  /\ flow[f].by = "scan" /\ flow[f].pc \in {"login", "query", "fetch"}
  /\ End(f)
  /\ UNCHANGED <<rowVars, broker, wire, session, memory, tick, todo, told>>

\* The loop over the fetched rows, newest first, up to the next row to write;
\* rows already finalized or being finalized are passed over for good.
ToWrite(f) == {p \in flow[f].rows : MayFinalize(p)}

ScanWrites(f, p) ==
  /\ flow[f].by = "scan" /\ flow[f].pc = "got"
  /\ p \in ToWrite(f)
  /\ \A q \in ToWrite(f) : closedAt[q] <= closedAt[p]
  /\ Enqueue(p, [kind |-> "close", by |-> f, tell |-> FALSE])
  /\ Move(f, "write", p, {q \in flow[f].rows : closedAt[q] < closedAt[p]})
  /\ UNCHANGED <<row, reply, broker, wire, session, memory, tick, todo, told>>

ScanEnds(f) ==
  /\ flow[f].by = "scan" /\ flow[f].pc = "got" /\ ToWrite(f) = {}
  /\ End(f)
  /\ UNCHANGED <<rowVars, broker, wire, session, memory, tick, todo, told>>

\* The scan's write settles; one that throws abandons the remaining rows.
ScanSettles(f) ==
  LET p == flow[f].pos
  IN /\ flow[f].by = "scan" /\ flow[f].pc = "write"
     /\ chain[p] # <<>> /\ Head(chain[p]).by = f
     /\ Settle(p)
     /\ \/ /\ Written(p)
           /\ closedSeen' = closedSeen \cup {p}
           /\ Forget(p)
           /\ Move(f, "got", NoPosition, flow[f].rows)
        \/ /\ reply[p] = "err"
           /\ End(f)
           /\ UNCHANGED <<closedSeen, pending>>
     /\ UNCHANGED <<broker, wire, session, finalizing, primed, tick, todo, told>>

\* A stream write that nobody awaits settles; a new open is then announced.
StreamWriteSettles(p) ==
  /\ chain[p] # <<>> /\ Head(chain[p]).by = Nobody
  /\ Settle(p)
  /\ openTold' = IF reply[p] = "ok" /\ Head(chain[p]).tell
                 THEN [openTold EXCEPT ![p] = @ + 1] ELSE openTold
  /\ UNCHANGED <<broker, wire, session, memory, flow, tick, todo, closeTold>>

-----------------------------------------------------------------------------
(* The reconcile tick: the retry loop, then the account list.              *)

TickStarts ==
  /\ ~tick
  /\ tick' = TRUE
  /\ todo' = {p \in Position : pending[p] # NoEntry}
  /\ UNCHANGED <<rowVars, broker, wire, session, memory, flow, told>>

\* One turn of the loop; it awaits its finalize before it takes the next.
Retrying == \E f \in Flow : flow[f].by = "retry"

Retry(p) ==
  /\ tick /\ p \in todo /\ ~Retrying
  /\ todo' = todo \ {p}
  /\ \/ /\ pending[p].sess # live
        /\ Forget(p)
        /\ UNCHANGED <<flow, finalizing>>
     \/ /\ pending[p].sess = live
        /\ p \in finalizing \/ ~token
        /\ UNCHANGED <<flow, finalizing, pending>>
     \/ /\ pending[p].sess = live
        /\ p \notin finalizing /\ token /\ p \in closedSeen
        /\ Forget(p)
        /\ UNCHANGED <<flow, finalizing>>
     \/ /\ pending[p].sess = live
        /\ token /\ MayFinalize(p)
        /\ \E f \in Flow : StartFinalize(f, "retry", p, 0)
        /\ UNCHANGED pending
  /\ UNCHANGED <<rowVars, broker, wire, session, closedSeen, primed, tick, told>>

\* After the last retry reconcile awaits the account list.
Loading == tick /\ todo = {} /\ ~Retrying

\* loadAccounts throws, or finds nothing changed and no scan due.
TickEnds ==
  /\ Loading
  /\ tick' = FALSE
  /\ UNCHANGED <<rowVars, broker, wire, session, memory, flow, todo, told>>

\* The periodic net: a one-page scan of the account's session.
TickScans ==
  /\ Loading /\ live # 0
  /\ tick' = FALSE
  /\ \E f \in Flow : StartScan(f, 1)
  /\ UNCHANGED <<rowVars, broker, wire, session, memory, todo, told>>

\* stopSession and startAccount: s = 0 stops, a new number replaces or starts.
\* Pending closes of the stopped session are dropped.
BecomeSession(s) ==
  /\ live' = s
  /\ sessions' = IF s > sessions THEN s ELSE sessions
  /\ StreamDown
  /\ token' = FALSE /\ synced' = FALSE /\ seenOpens' = {}
  /\ pending' = [p \in Position |-> IF pending[p].sess = live THEN NoEntry ELSE pending[p]]

TickChangesSession ==
  /\ Loading
  /\ tick' = FALSE
  /\ \/ live # 0 /\ BecomeSession(0)
     \/ sessions < MaxSession /\ BecomeSession(sessions + 1)
  /\ UNCHANGED <<rowVars, broker, closedSeen, finalizing, primed, flow, todo, told>>

\* The process dies and starts again: memory and calls in flight are gone, the
\* table stays.
Restart ==
  /\ live # 0 /\ sessions < MaxSession
  /\ live' = sessions + 1 /\ sessions' = sessions + 1
  /\ StreamDown
  /\ token' = FALSE /\ synced' = FALSE /\ seenOpens' = {}
  /\ chain' = [p \in Position |-> <<>>] /\ reply' = [p \in Position |-> "none"]
  /\ closedSeen' = {} /\ finalizing' = {} /\ primed' = FALSE
  /\ pending' = [p \in Position |-> NoEntry]
  /\ flow' = [f \in Flow |-> Idle]
  /\ tick' = FALSE /\ todo' = {}
  /\ UNCHANGED <<row, broker, told>>

-----------------------------------------------------------------------------
DatabaseLands(p) ==
  WriteLands(p) /\ UNCHANGED <<broker, wire, session, memory, flow, tick, todo, told>>

DatabaseFails(p) ==
  WriteFails(p) /\ UNCHANGED <<broker, wire, session, memory, flow, tick, todo, told>>

PositionStep(p) ==
  \/ BrokerOpen(p) \/ BrokerModify(p) \/ BrokerClose(p) \/ Publish(p)
  \/ HandlePosition(p) \/ HandleAccountStatus(p) \/ HandleClose(p)
  \/ DatabaseLands(p) \/ DatabaseFails(p) \/ StreamWriteSettles(p)
  \/ Retry(p)

FlowStep(f) ==
  \/ FetchAnswered(f) \/ FinalizeThrows(f) \/ FinalizeMisses(f) \/ FinalizeMatches(f)
  \/ FinalizeSettles(f)
  \/ ScanLoggedIn(f) \/ PrimeRead(f) \/ PrimeApplied(f) \/ ScanThrows(f)
  \/ \E p \in Position : ScanWrites(f, p)
  \/ ScanEnds(f) \/ ScanSettles(f)

Next ==
  \/ \E p \in Position : PositionStep(p)
  \/ \E f \in Flow : FlowStep(f)
  \/ StreamUp \/ StreamLost \/ JwtInvalid \/ HandleSyncEnd
  \/ TickStarts \/ TickEnds \/ TickScans \/ TickChangesSession
  \/ Restart

Spec == Init /\ [][Next]_vars

-----------------------------------------------------------------------------
(* Safety.                                                                 *)

\* closedSeen makes both finalize and backfill skip a position for the rest of
\* the process's life, so a position in it whose row is still open would stay
\* open: every member has a finalized row, whichever of the four paths, lost
\* replies and supersessions put it there.
SeenIsClosed == \A p \in closedSeen : row[p].st = "closed"

\* A duplicate ClosePosition, or a live close that overlaps its retry, never
\* runs two finalizes of one position at a time.
OneFinalize ==
  \A f, g \in Flow : (Finalizes(f) /\ Finalizes(g) /\ flow[f].pos = flow[g].pos) => f = g

\* The claim is held exactly while a finalize of the position is in flight: a
\* claim that outlives its call would shut every path to that position.
ClaimsMatchFlows == finalizing = {flow[f].pos : f \in {g \in Flow : Finalizes(g)}}

\* A close is announced at most once, over retries, duplicates, scans that run
\* beside it, reconnects and restarts.
CloseToldOnce == \A p \in Position : closeTold[p] <= 1

\* An open is announced at most once: the snapshot of a reconnect or restart
\* never repeats it.
OpenToldOnce == \A p \in Position : openTold[p] <= 1

\* What has been announced as closed is closed in the table, and at the broker.
ToldIsClosed ==
  \A p \in Position : closeTold[p] > 0 => row[p].st = "closed" /\ closedAt[p] > 0

\* A pending close has used fewer than MaxRetries tries.
RetryBudget == \A p \in Position : pending[p].attempts < MaxRetries

\* A finalized row is never reopened, deleted, or returned to a floating pnl:
\* not by a Position frame or an AccountStatus tick that comes after the close.
ClosedForever ==
  [][\A p \in Position : row[p].st = "closed"
       => row'[p].st = "closed" /\ row'[p].pnl = "realized"]_vars

-----------------------------------------------------------------------------
(* What the safety properties rest on; with them it is inductive.          *)

\* A reply belongs to a queued write, and a close write the database answered
\* "ok" has closed the row.
RepliesSound ==
  \A p \in Position :
    /\ reply[p] # "none" => chain[p] # <<>>
    /\ reply[p] = "ok" /\ Head(chain[p]).kind = "close" => row[p].st = "closed"

\* What a flow awaits on a chain is the finalization of a closed position, and
\* nobody else queues one.
FlowWritesClose ==
  \A p \in Position : \A i \in 1..Len(chain[p]) :
    /\ chain[p][i].by # Nobody <=> chain[p][i].kind = "close"
    /\ chain[p][i].kind = "close" => closedAt[p] > 0

\* A finalize, and a scan that awaits a write, is about a position; a finalize
\* never holds another position's row.
ShapeOf(x) ==
  /\ x.by \in {"close", "retry"} => /\ x.pos \in Position
                                    /\ x.pc \in {"fetch", "got", "write"}
                                    /\ x.rows \subseteq {x.pos}
  /\ x.by = "scan" /\ x.pc = "write" => x.pos \in Position
  /\ x.by = "none" => x = Idle
FlowShape == \A f \in Flow : ShapeOf(flow[f])

\* The rows a flow holds are of closed positions: in the table once primed from
\* it, at the broker once fetched.
RowsSoundOf(x) ==
  /\ x.pc = "queried" => \A p \in x.rows : row[p].st = "closed"
  /\ x.pc \in {"got", "write"} => \A p \in x.rows : closedAt[p] > 0
FlowRowsSound == \A f \in Flow : RowsSoundOf(flow[f])

BrokerSound ==
  /\ \A p \in published : closedAt[p] > 0
  /\ \A p \in Position : row[p].st = "closed" => closedAt[p] > 0 /\ row[p].pnl = "realized"

\* Once announced, nothing is left that could finalize the position again.
ToldIsOver ==
  \A p \in Position : closeTold[p] > 0 =>
    /\ closedAt[p] > 0 /\ row[p].st = "closed"
    /\ \A f \in Flow : Finalizes(f) => flow[f].pos # p
    /\ p \notin closedSeen => p \notin closes /\ pending[p] = NoEntry

OfflineNoToken == live = 0 => ~token

IInv ==
  /\ TypeOK /\ SeenIsClosed /\ OneFinalize /\ ClaimsMatchFlows /\ CloseToldOnce
  /\ RepliesSound /\ FlowWritesClose /\ FlowShape /\ FlowRowsSound /\ BrokerSound
  /\ ToldIsOver /\ OfflineNoToken /\ RetryBudget

-----------------------------------------------------------------------------
(* Liveness.  Calls in flight settle, frames are delivered and ticks fire; *)
(* a lost stream comes back; a call that is tried again and again succeeds *)
(* at some point; the report lists every close at some point; the periodic *)
(* scan comes due again and again.                                         *)

Fairness ==
  /\ \A p \in Position :
       /\ WF_vars(Publish(p)) /\ WF_vars(HandlePosition(p)) /\ WF_vars(HandleClose(p))
       /\ WF_vars(StreamWriteSettles(p)) /\ WF_vars(Retry(p))
       /\ SF_vars(DatabaseLands(p) /\ reply'[p] = "ok")
  /\ \A f \in Flow :
       /\ WF_vars(FlowStep(f))
       /\ SF_vars(ScanLoggedIn(f)) /\ SF_vars(PrimeRead(f)) /\ SF_vars(FetchAnswered(f))
  /\ WF_vars(StreamUp) /\ SF_vars(HandleSyncEnd)
  /\ WF_vars(TickStarts) /\ SF_vars(TickScans)

LiveSpec == Spec /\ Fairness

\* The same on a stream that never drops once it is up.
SteadySpec == Init /\ [][Next /\ ~StreamLost]_vars /\ Fairness

\* A close the report lists ends up in the table, whatever single calls failed on
\* the way, unless the account is stopped or newer closes push it off the page that
\* the periodic scan reads.
ClosesCaptured ==
  \A p \in Position :
    p \in Report(1) ~> (row[p].st = "closed" \/ live = 0 \/ p \notin Report(1))

\* "SyncEnd uses the deeper default to also cover closes that happened during
\* downtime": every reported close does.  TLC refutes it under SteadySpec with two
\* positions closed in downtime and pages of one; see the findings.
DowntimeCovered ==
  \A p \in Position : p \in published ~> (row[p].st = "closed" \/ live = 0)

=============================================================================
