----------------------------- MODULE CtraderTrades -----------------------------
(***************************************************************************)
(* How the cTrader connector turns the deals of one account into Trade     *)
(* rows.  A deal opens a position or closes a part of it.  While the       *)
(* account is connected each deal is announced by an execution event and   *)
(* its result is added to the row (CtraderTradeWriter.record).  Every      *)
(* connect starts a backfill that reads the open positions and the deals   *)
(* since a watermark and sets the totals of the positions it finds closed  *)
(* (BackfillService).  Both queue their writes on one chain per position.  *)
(*                                                                         *)
(* A row's money is abstracted to how often each deal is counted in it.    *)
(***************************************************************************)
EXTENDS Naturals, Sequences, FiniteSets, FiniteSetsExt

CONSTANTS Position,
          Increased,  \* positions that may get more than one opening deal
          MaxDeals,   \* bound: deals of one position
          MaxVolume,  \* bound: volume of one deal
          MaxNow,     \* bound: ticks of the clock
          Lookback,   \* BACKFILL_LOOKBACK_MS
          Buffer,     \* BACKFILL_WATERMARK_BUFFER_MS
          MaxDrops,   \* bound: lost connections and restarts
          MaxFaults   \* bound: failed requests and failed writes

ASSUME TradesAssumptions ==
  /\ Increased \subseteq Position
  /\ MaxDeals \in Nat \ {0} /\ MaxVolume \in Nat \ {0} /\ MaxNow \in Nat
  /\ Lookback \in Nat /\ Buffer \in Nat
  /\ MaxDrops \in Nat /\ MaxFaults \in Nat

VARIABLES
  now,
  deals,   \* deals[p]: what the broker executed, in order; left: volume p had after it
  up,      \* the account is authenticated on a live socket
  naming,  \* its connect is fetching the symbol names
  late,    \* connects of lost sockets that are still fetching them
  wire,    \* wire[p]: deals whose execution event is in flight
  row,     \* row[p]: the Trade row
  chain,   \* chain[p]: the writes queued on the position
  bf,      \* the backfill in flight
  drops, faults

broker == <<now, deals>>
bounds == <<drops, faults>>
link == <<up, naming, late>>
vars == <<broker, link, wire, row, chain, bf, bounds>>

Deals == 1..MaxDeals
NoRow == [st |-> "none", exit |-> 0, counted |-> [k \in Deals |-> 0]]

\* What a backfill decided for a position: nothing, make sure that an open row
\* exists, or set the totals to these closing deals.
Nothing == [kind |-> "none", ks |-> {}]
Decision == [kind : {"none", "ensure", "set"}, ks : SUBSET Deals]
Write == [kind : {"deal"}, k : Deals] \cup [kind : {"ensure", "set"}, ks : SUBSET Deals]

\* from, to: the window; to is kept as the number of deals executed before it ends.
\* stale: its connection is gone; clean: nothing failed so far.
IdleBf == [pc |-> "idle", from |-> 0, to |-> [p \in Position |-> 0], openOk |-> FALSE,
           open |-> {}, plan |-> [p \in Position |-> Nothing], stale |-> FALSE,
           clean |-> TRUE]

TypeOK ==
  /\ now \in 0..MaxNow
  /\ deals \in [Position -> Seq([out : BOOLEAN, vol : 1..MaxVolume, left : Nat,
                                at : 0..MaxNow])]
  /\ \A p \in Position : Len(deals[p]) <= MaxDeals
  /\ up \in BOOLEAN /\ naming \in BOOLEAN /\ late \in 0..MaxDrops
  /\ wire \in [Position -> SUBSET Deals]
  /\ row \in [Position -> [st : {"none", "open", "closed"}, exit : 0..MaxNow,
                           counted : [Deals -> Nat]]]
  /\ chain \in [Position -> Seq(Write)]
  /\ bf \in [pc : {"idle", "watermark", "reconcile", "list", "write", "written"},
             from : 0..MaxNow, to : [Position -> 0..MaxDeals], openOk : BOOLEAN,
             open : SUBSET Position, plan : [Position -> Decision], stale : BOOLEAN,
             clean : BOOLEAN]
  /\ drops \in 0..MaxDrops /\ faults \in 0..MaxFaults

Init ==
  /\ now = 0
  /\ deals = [p \in Position |-> <<>>]
  /\ up = FALSE /\ naming = FALSE /\ late = 0
  /\ wire = [p \in Position |-> {}]
  /\ row = [p \in Position |-> NoRow]
  /\ chain = [p \in Position |-> <<>>]
  /\ bf = IdleBf
  /\ drops = 0 /\ faults = 0

-----------------------------------------------------------------------------
(* The broker.                                                             *)

Outs(p, ks) == {k \in ks : deals[p][k].out}
Ins(p, ks) == {k \in ks : ~deals[p][k].out}

\* The volume of the deals ks of p.
Volume(p, ks) ==
  LET sum[n \in 0..MaxDeals] ==
        IF n = 0 THEN 0
        ELSE IF n \in ks THEN sum[n - 1] + deals[p][n].vol ELSE sum[n - 1]
  IN  sum[MaxDeals]

\* The volume of the position after its first n deals.
Left(p, n) == IF n = 0 THEN 0 ELSE deals[p][n].left
OpenAfter(p, n) == Left(p, n) > 0
IsOpen(p) == OpenAfter(p, Len(deals[p]))
IsOver(p) == deals[p] # <<>> /\ ~IsOpen(p)

Execute(p, out, vol) ==
  /\ Len(deals[p]) < MaxDeals
  /\ LET left == Left(p, Len(deals[p]))
     IN deals' = [deals EXCEPT ![p] =
                    Append(@, [out |-> out, vol |-> vol, at |-> now,
                               left |-> IF out THEN left - vol ELSE left + vol])]
  /\ wire' = IF up THEN [wire EXCEPT ![p] = @ \cup {Len(deals[p]) + 1}] ELSE wire
  /\ UNCHANGED <<now, link, row, chain, bf, bounds>>

BrokerOpens(p) ==
  /\ deals[p] = <<>> \/ (p \in Increased /\ IsOpen(p))
  /\ \E vol \in 1..MaxVolume : Execute(p, FALSE, vol)

\* A part of the position, or all of it.
BrokerCloses(p) ==
  \E vol \in 1..MaxVolume :
    vol <= Left(p, Len(deals[p])) /\ Execute(p, TRUE, vol)

\* The connection's requests and the writes that have not ended.
AtRest ==
  /\ ~naming /\ late = 0 /\ bf.pc = "idle"
  /\ \A p \in Position : wire[p] = {} /\ chain[p] = <<>>

\* A tick is days; nothing in flight lasts that long.
Tick ==
  /\ AtRest /\ now < MaxNow /\ now' = now + 1
  /\ UNCHANGED <<deals, link, wire, row, chain, bf, bounds>>

-----------------------------------------------------------------------------
(* Variants with a plausible slip, kept to show that the properties notice *)
(* it.                                                                     *)
AnyCloseIsFull(p, k) == TRUE
WithOpening(p, ks) == Outs(p, ks) # {} /\ Ins(p, ks) # {}
TotalsAdded(p, r, ks) ==
  [st |-> "closed", exit |-> Max({deals[p][k].at : k \in ks}),
   counted |-> [k \in Deals |-> IF k \in ks THEN r.counted[k] + 1 ELSE r.counted[k]]]
Unbounded(exits) == IF exits = {} THEN now - Lookback ELSE Max(exits) - Buffer

-----------------------------------------------------------------------------
(* CtraderTradeWriter: the writes and their chains.                        *)

\* upsertOpen creates the row, or refreshes its entry data and leaves the rest.
Ensured(r) == IF r.st = "none" THEN [r EXCEPT !.st = "open"] ELSE r

\* positionStatus of the event that announces deal k.
FullyClosed(p, k) == ~OpenAfter(p, k)

\* applyClose adds the deal to what the row has.
DealApplied(p, r, k) ==
  [st |-> IF FullyClosed(p, k) THEN "closed" ELSE "open",
   exit |-> IF FullyClosed(p, k) THEN deals[p][k].at ELSE 0,
   counted |-> [r.counted EXCEPT ![k] = @ + 1]]

\* writeBackfill sets the totals.
TotalsSet(p, r, ks) ==
  [st |-> "closed", exit |-> IF ks = {} THEN now ELSE Max({deals[p][k].at : k \in ks}),
   counted |-> [k \in Deals |-> IF k \in ks THEN 1 ELSE 0]]

Apply(p, w, r) ==
  IF w.kind = "set" THEN TotalsSet(p, r, w.ks)
  ELSE IF w.kind = "deal" /\ deals[p][w.k].out THEN DealApplied(p, r, w.k)
  ELSE Ensured(r)

Enqueue(p, w) == chain' = [chain EXCEPT ![p] = Append(@, w)]

\* handleExecution and record.
HandleExecution(p) ==
  /\ wire[p] # {}
  /\ Enqueue(p, [kind |-> "deal", k |-> Min(wire[p])])
  /\ wire' = [wire EXCEPT ![p] = @ \ {Min(@)}]
  /\ UNCHANGED <<broker, link, row, bf, bounds>>

\* The backfill waits for its own write, whether it succeeds or throws.
Returns(p, clean) ==
  bf' = IF Head(chain[p]).kind = "deal" THEN bf
        ELSE [bf EXCEPT !.pc = "write", !.clean = @ /\ clean]

WriteLands(p) ==
  /\ chain[p] # <<>>
  /\ row' = [row EXCEPT ![p] = Apply(p, Head(chain[p]), @)]
  /\ chain' = [chain EXCEPT ![p] = Tail(@)]
  /\ Returns(p, TRUE)
  /\ UNCHANGED <<broker, link, wire, bounds>>

Faulty == faults < MaxFaults /\ faults' = faults + 1

\* Nothing is tried again; a write that landed and failed looks like one that landed.
WriteFails(p) ==
  /\ chain[p] # <<>> /\ Faulty
  /\ chain' = [chain EXCEPT ![p] = Tail(@)]
  /\ Returns(p, FALSE)
  /\ UNCHANGED <<broker, link, wire, row, drops>>

-----------------------------------------------------------------------------
(* The connection, and backfillAccount.                                    *)

\* The account is authenticated: events flow while connectEnv fetches the names.
Connects ==
  /\ ~up /\ up' = TRUE /\ naming' = TRUE
  /\ UNCHANGED <<broker, late, wire, row, chain, bf, bounds>>

\* The answer of the authentication is lost: connectEnv skips an account that the
\* broker serves.
AuthTimesOut ==
  /\ ~up /\ up' = TRUE /\ Faulty
  /\ UNCHANGED <<broker, naming, late, wire, row, chain, bf, drops>>

\* backfillAccount does nothing while a backfill is in flight.
BackfillStarts(stale) ==
  bf' = IF bf.pc = "idle" THEN [bf EXCEPT !.pc = "watermark", !.stale = stale] ELSE bf

\* With or without the names the backfill starts.
NamesDone ==
  /\ naming /\ naming' = FALSE
  /\ BackfillStarts(FALSE)
  /\ UNCHANGED <<broker, up, late, wire, row, chain, bounds>>

NamesTimeOut ==
  /\ late > 0 /\ late' = late - 1
  /\ BackfillStarts(TRUE)
  /\ UNCHANGED <<broker, up, naming, wire, row, chain, bounds>>

\* Events on the way are lost; requests on the socket will time out.
ConnectionLost ==
  /\ up /\ up' = FALSE
  /\ drops < MaxDrops /\ drops' = drops + 1
  /\ naming' = FALSE /\ late' = IF naming THEN late + 1 ELSE late
  /\ wire' = [p \in Position |-> {}]
  /\ bf' = IF bf.pc = "idle" THEN bf ELSE [bf EXCEPT !.stale = TRUE]
  /\ UNCHANGED <<broker, row, chain, faults>>

Restart ==
  /\ drops < MaxDrops /\ drops' = drops + 1
  /\ up' = FALSE /\ naming' = FALSE /\ late' = 0 /\ bf' = IdleBf
  /\ wire' = [p \in Position |-> {}] /\ chain' = [p \in Position |-> <<>>]
  /\ UNCHANGED <<broker, row, faults>>

\* a - b, where the clock starts at 0.
Before(a, b) == IF a < b THEN 0 ELSE a - b

\* watermark: the overlap before the last exit, and at most the lookback.
WindowFrom(exits) ==
  Max({Before(now, Lookback)} \cup {Before(t, Buffer) : t \in exits})

ReadsWatermark ==
  /\ bf.pc = "watermark"
  /\ bf' = [bf EXCEPT !.pc = "reconcile",
                      !.from = WindowFrom({row[p].exit : p \in {q \in Position :
                                                                row[q].st = "closed"}}),
                      !.to = [p \in Position |-> Len(deals[p])]]
  /\ UNCHANGED <<broker, link, wire, row, chain, bounds>>

WatermarkFails ==
  /\ bf.pc = "watermark" /\ Faulty
  /\ bf' = IdleBf
  /\ UNCHANGED <<broker, link, wire, row, chain, drops>>

\* An answer of the broker comes after the events of the deals it knows.
Answers == ~bf.stale /\ \A p \in Position : wire[p] = {}

ReconcileAnswers ==
  /\ bf.pc = "reconcile" /\ Answers
  /\ bf' = [bf EXCEPT !.pc = "list", !.openOk = TRUE,
                      !.open = {p \in Position : IsOpen(p)}]
  /\ UNCHANGED <<broker, link, wire, row, chain, bounds>>

\* A request times out or is refused.
RequestFails == IF bf.stale THEN UNCHANGED faults ELSE Faulty

ReconcileFails ==
  /\ bf.pc = "reconcile" /\ RequestFails
  /\ bf' = [bf EXCEPT !.pc = "list", !.clean = FALSE]
  /\ UNCHANGED <<broker, link, wire, row, chain, drops>>

\* The deals of p in the window.
Window(p) == {k \in 1..bf.to[p] : deals[p][k].at >= bf.from}

\* A position that is not open must have a closing deal to be written.
HasClose(p, ks) == Outs(p, ks) # {}

Set(p) == [kind |-> "set", ks |-> Outs(p, Window(p))]
Ensure == [kind |-> "ensure", ks |-> {}]

\* Without the open positions, the first opening deal's volume is compared with
\* the volume closed in the window.
Inferred(p) ==
  IF Ins(p, Window(p)) = {} THEN Nothing
  ELSE IF /\ Volume(p, Outs(p, Window(p))) >= deals[p][Min(Ins(p, Window(p)))].vol
          /\ HasClose(p, Window(p))
       THEN Set(p) ELSE Ensure

Decided(p) ==
  IF ~bf.openOk THEN Inferred(p)
  ELSE IF p \in bf.open THEN Ensure
  ELSE IF HasClose(p, Window(p)) THEN Set(p) ELSE Nothing

ListAnswers ==
  /\ bf.pc = "list" /\ Answers
  /\ bf' = [bf EXCEPT !.pc = "write", !.plan = [p \in Position |-> Decided(p)]]
  /\ UNCHANGED <<broker, link, wire, row, chain, bounds>>

\* Without deals there remain the open positions.
ListFails ==
  /\ bf.pc = "list" /\ RequestFails
  /\ bf' = [bf EXCEPT !.pc = "write", !.clean = FALSE,
                      !.plan = [p \in Position |->
                                  IF p \in bf.open THEN Ensure ELSE Nothing]]
  /\ UNCHANGED <<broker, link, wire, row, chain, drops>>

\* The loops write one position after the other, those found closed first.
Due == {p \in Position : bf.plan[p].kind # "none"}
BackfillWrites(p) ==
  /\ bf.pc = "write" /\ p \in Due
  /\ p \in bf.open => \A q \in Due : q \in bf.open
  /\ Enqueue(p, bf.plan[p])
  /\ bf' = [bf EXCEPT !.pc = "written", !.plan[p] = Nothing]
  /\ UNCHANGED <<broker, link, wire, row, bounds>>

BackfillEnds ==
  /\ bf.pc = "write" /\ Due = {}
  /\ bf' = IdleBf
  /\ UNCHANGED <<broker, link, wire, row, chain, bounds>>

-----------------------------------------------------------------------------
Next ==
  \/ \E p \in Position : BrokerOpens(p) \/ BrokerCloses(p)
  \/ Tick
  \/ \E p \in Position : HandleExecution(p) \/ WriteLands(p) \/ WriteFails(p)
  \/ Connects \/ AuthTimesOut \/ NamesDone \/ NamesTimeOut \/ ConnectionLost \/ Restart
  \/ ReadsWatermark \/ WatermarkFails \/ ReconcileAnswers \/ ReconcileFails
  \/ ListAnswers \/ ListFails \/ BackfillEnds
  \/ \E p \in Position : BackfillWrites(p)

Spec == Init /\ [][Next]_vars

-----------------------------------------------------------------------------
(* Properties.                                                             *)

\* The result of a deal is in a row's totals at most once, although live events add
\* and every reconnect sets: a deal is never added on top of totals that have it.  And
\* a position closed by one deal ends with exactly that deal in its totals, whatever
\* the window of the backfills and the failures on the way.
CountedOnce ==
  \A p \in Position :
    /\ \A k \in Deals : row[p].counted[k] <= 1
    /\ row[p].st = "closed" /\ Cardinality(Outs(p, DOMAIN deals[p])) = 1
         => \A k \in DOMAIN deals[p] :
              row[p].counted[k] = IF deals[p][k].out THEN 1 ELSE 0

\* No path closes a row while the broker holds the position open: not a deal list
\* read before or after the open positions, nor one read without them.
ClosedIsOver == \A p \in Position : row[p].st = "closed" => IsOver(p)

\* A backfill in which nothing failed has closed the row of every position whose last
\* deal is in its window.
BackfillCatchesUp ==
  [][\A p \in Position :
       (/\ bf.pc = "write" /\ bf'.pc = "idle" /\ Due = {} /\ bf.clean
        /\ bf.to[p] > 0 /\ ~OpenAfter(p, bf.to[p]) /\ bf.to[p] \in Window(p))
         => row[p].st = "closed"]_vars

\* The three properties below state comments of the code.  TLC refutes each within four
\* deals and one reconnect; see the findings.

\* "Idempotent across re-runs / reconnects" (writeBackfill): a closed row that
\* counts every close of its position keeps them when a backfill sets it again.
Complete(p) ==
  /\ row[p].st = "closed"
  /\ \A k \in Outs(p, DOMAIN deals[p]) : row[p].counted[k] = 1
RerunIdempotent ==
  [][\A p \in Position : Complete(p) /\ bf.to[p] = Len(deals[p]) => Complete(p)']_vars

\* "Realized P&L of partial closes on still-open positions is the one remaining gap"
\* (BackfillService): the totals of a closed row keep the deal that closed it.
ClosingDealKept ==
  [][\A p \in Position :
       row[p].st = "closed" /\ row[p].counted[Len(deals[p])] = 1
         => row'[p].counted[Len(deals[p])] = 1]_vars

\* "Deals that happened while the backend was down aren't lost" (BackfillService):
\* once connected, with nothing in flight and nothing failed, positions that are over
\* have a closed row.
DowntimeRecovered ==
  up /\ AtRest /\ faults = 0 => \A p \in Position : IsOver(p) => row[p].st = "closed"

=============================================================================
