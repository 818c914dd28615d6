----------------------------- MODULE MetaApiDeals -----------------------------
(***************************************************************************)
(* The data path of MetaApi: how the deals of one MT5 account become Trade *)
(* rows.  Every open() of the manager runs a backfill and then attaches a  *)
(* listener to the stream; the listener re-reads all deals of a position   *)
(* whenever one arrives or the position is removed.  Both aggregate the    *)
(* deals of a position into absolute totals.                               *)
(*                                                                         *)
(* Each action is the code between two awaits.  The deals of a position    *)
(* are the sequence of their days: the first opens it, the others close a  *)
(* part each.  Money is the set of deals that are counted.                 *)
(***************************************************************************)
EXTENDS Naturals, Sequences, FiniteSets, FiniteSetsExt, SequencesExt

CONSTANTS
    Position,    \* MT5 positions of the account
    Call,        \* listener calls that may be unfinished at once
    Backfill,    \* the backfill, as the one that waits for a write
    Waits,       \* whether the SDK awaits a callback before the next
    Lookback, Buffer,  \* of the backfill window, in days
    Clamp,       \* backfillFrom: the EA has booked up to this day (0: no EA)
    MaxDay,      \* bound on the clock
    MaxDeals,    \* bound on the deals of a position
    MaxBacklog,  \* bound on callbacks outstanding when a deal is executed
    MaxOpens,    \* bound on connects
    MaxTroubles  \* bound on failed calls and reconnects inside the SDK

ASSUME DealsAssumption ==
    /\ Backfill \notin Call
    /\ IsFiniteSet(Position)
    /\ Waits \in BOOLEAN
    /\ MaxDay \in Nat \ {0}
    /\ {Lookback, Buffer, Clamp, MaxDeals, MaxBacklog, MaxOpens,
        MaxTroubles} \subseteq Nat

VARIABLES
    now,       \* the day
    deals,     \* days of the deals of each position
    over,      \* positions that are closed at the broker
    sibling,   \* newest exit in the rows of the user's other accounts
    rows,      \* the Trade row of each position
    chain,     \* writes of each position, the first one running
    phase,     \* of open(): "off", "window", "requests", "writes", "stream"
    bf,        \* what the backfill holds
    link,      \* the stream is up
    inbox,     \* callbacks the SDK has still to make
    replaying, \* the end of the history is still to come
    told,      \* deals the SDK has handed over, per position
    cur,       \* number of the newest connect
    openPositionIds, dealsSynchronized,  \* of its listener
    call,      \* unfinished calls of the listeners
    faults, drops,
    behind,    \* closed during a connect, or its removal lost (history)
    older,     \* over, but opened before the newest window (history)
    unseen     \* closed in part while they were not known as open (history)

broker == <<now, deals, over, sibling>>
stream == <<link, inbox, replaying, told>>
history == <<behind, older, unseen>>
listener == <<cur, openPositionIds, dealsSynchronized>>
vars == <<broker, rows, chain, phase, bf, stream, listener, call, faults,
          drops, history>>

-----------------------------------------------------------------------------
(* Aggregation                                                             *)

Opened(p) == deals[p] # <<>>
OpenNow == {p \in Position : Opened(p) /\ p \notin over}

Closing(D) == D \ {1}

\* 0 while the position counts as open
ExitOf(p, D, ids) ==
    IF p \in ids \/ Closing(D) = {} THEN 0 ELSE Max(Closing(D))

\* No opening deal among them, or the EA owns the whole position
Skipped(p, D, ids) ==
    \/ 1 \notin D
    \/ /\ ExitOf(p, D, ids) # 0
       /\ deals[p][ExitOf(p, D, ids)] <= Clamp

\* With a plausible slip: the clamp drops whole positions only
AllOwned(p, D) == D

\* Deals after the clamp
Owned(p, D) == {i \in D : deals[p][i] > Clamp}

\* aggregateDeals for deals D of p, and the write recordPosition makes of it
Aggregate(p, D, ids, by) ==
    LET exit == ExitOf(p, D, ids)
    IN  [op |-> IF exit = 0 THEN "open" ELSE "closed", exit |-> exit,
         money |-> IF exit = 0 THEN {} ELSE Owned(p, D), by |-> by]

-----------------------------------------------------------------------------
(* Rows and chains                                                         *)

NoRow == [state |-> "none", exit |-> 0, money |-> {}, floating |-> FALSE]

Write(op, by) == [op |-> op, exit |-> 0, money |-> {}, by |-> by]

OpenedRow(row) == IF row.state = "none" THEN [NoRow EXCEPT !.state = "open"]
                  ELSE row

\* writePosition and writeUnrealized
Applied(row, w) ==
    CASE w.op = "open" -> OpenedRow(row)
      [] w.op = "closed" -> [state |-> "closed", exit |-> w.exit,
                             money |-> w.money, floating |-> FALSE]
      [] w.op = "price" -> [row EXCEPT !.floating = (row.state = "open") \/ @]

Enqueue(p, w) == chain' = [chain EXCEPT ![p] = Append(@, w)]

Pending(by) == \E p \in Position : \E i \in DOMAIN chain[p] : chain[p][i].by = by

\* With a plausible slip: the write is not awaited
NotAwaited(by) == TRUE

\* await recordPosition
Settled(by) == ~Pending(by)

\* With a plausible slip: every write of a position runs at once
Unserialized(p) == DOMAIN chain[p]

\* serialize: the first write of a position is the one that runs.
Running(p) == IF chain[p] = <<>> THEN {} ELSE {1}

\* The window ends when the backfill starts: upto counts the deals before that.
NotAsked == [from |-> 0, upto |-> [p \in Position |-> 0], answered |-> {},
             ids |-> {}, hist |-> [p \in Position |-> {}], todo |-> {}]

FreeCall == [pc |-> "free", by |-> 0, pos |-> {}, upto |-> 0]

Fault == faults + drops < MaxTroubles /\ faults' = faults + 1

WriteLands(p) ==
    /\ \E i \in Running(p) :
        /\ rows' = [rows EXCEPT ![p] = Applied(@, chain[p][i])]
        /\ chain' = [chain EXCEPT ![p] = RemoveAt(@, i)]
    /\ UNCHANGED <<broker, phase, bf, stream, listener, call, faults, drops,
                   history>>

\* A snapshot of the open positions ends with the write that throws: of those it
\* leaves out, these are closed in part.
LeftOut(by) ==
    IF by \in Call /\ call[by].pc = "writing" /\ call[by].by = cur
    THEN {p \in call[by].pos : Len(deals[p]) > 1} ELSE {}

\* The query or the upsert throws, and so does whoever awaits it: a call of
\* the listener ends, open() goes to its catch block.
WriteFails(p) ==
    /\ Fault
    /\ \E i \in Running(p) : LET w == chain[p][i] IN
        /\ chain' = [chain EXCEPT ![p] = RemoveAt(@, i)]
        /\ rows' \in {rows, [rows EXCEPT ![p] = Applied(@, w)]}
        /\ IF w.by = Backfill
           THEN phase' = "off" /\ bf' = NotAsked /\ UNCHANGED call
           ELSE /\ call' = [call EXCEPT ![w.by] = FreeCall]
                /\ UNCHANGED <<phase, bf>>
        /\ unseen' = unseen \cup LeftOut(w.by)
    /\ UNCHANGED <<broker, stream, listener, drops, behind, older>>

-----------------------------------------------------------------------------
(* Backfill                                                                *)

Opens ==
    /\ phase = "off"
    /\ cur < MaxOpens
    /\ cur' = cur + 1
    /\ phase' = "window"
    /\ bf' = [NotAsked EXCEPT !.upto = [p \in Position |-> Len(deals[p])]]
    /\ behind' = {} /\ older' = {}
    /\ UNCHANGED <<broker, rows, chain, stream, openPositionIds,
                   dealsSynchronized, call, faults, drops, unseen>>

Exits == {deals[p][rows[p].exit] : p \in {q \in Position : rows[q].exit # 0}}

Minus(a, b) == IF a > b THEN a - b ELSE 0

\* From the newest exit of the user, whatever the account
WindowFrom ==
    LET newest == Max(Exits \cup {sibling})
        floor == Minus(now, Lookback)
    IN  Max({IF newest = 0 THEN floor ELSE Minus(newest, Buffer), floor, Clamp})

ReadsWatermark ==
    /\ phase = "window"
    /\ phase' = "requests"
    /\ bf' = [bf EXCEPT !.from = WindowFrom]
    /\ UNCHANGED <<broker, rows, chain, stream, listener, call, faults, drops,
                   history>>

Asked(what) == phase = "requests" /\ what \notin bf.answered

BackfillMoves ==
    UNCHANGED <<broker, rows, chain, stream, listener, call, drops>>

DealsAnswer ==
    /\ Asked("deals")
    /\ bf' = [bf EXCEPT !.answered = @ \cup {"deals"},
                        !.hist = [p \in Position |->
                            {i \in 1 .. bf.upto[p] : deals[p][i] >= bf.from}]]
    /\ BackfillMoves
    /\ UNCHANGED <<phase, faults, history>>

PositionsAnswer ==
    /\ Asked("positions")
    /\ bf' = [bf EXCEPT !.answered = @ \cup {"positions"}, !.ids = OpenNow]
    /\ BackfillMoves
    /\ UNCHANGED <<phase, faults, history>>

\* The watermark query or one of the requests throws.
BackfillFails ==
    /\ phase \in {"window", "requests"}
    /\ Fault
    /\ phase' = "off"
    /\ bf' = NotAsked
    /\ BackfillMoves
    /\ UNCHANGED <<history>>

\* Promise.all and aggregateDeals
BackfillAggregates ==
    /\ phase = "requests"
    /\ bf.answered = {"deals", "positions"}
    /\ phase' = "writes"
    /\ bf' = [bf EXCEPT !.todo =
            {p \in Position : ~Skipped(p, bf.hist[p], bf.ids)}]
    /\ older' = {p \in over : 1 \notin bf.hist[p]}
    /\ BackfillMoves
    /\ UNCHANGED <<faults, behind, unseen>>

BackfillWrites(p) ==
    /\ phase = "writes"
    /\ p \in bf.todo
    /\ Settled(Backfill)
    /\ Enqueue(p, Aggregate(p, bf.hist[p], bf.ids, Backfill))
    /\ bf' = [bf EXCEPT !.todo = @ \ {p}]
    /\ UNCHANGED <<broker, rows, phase, stream, listener, call, faults, drops,
                   history>>

\* A new listener is attached to the stream.
BackfillEnds ==
    /\ phase = "writes"
    /\ bf.todo = {}
    /\ Settled(Backfill)
    /\ phase' = "stream"
    /\ bf' = NotAsked
    /\ told' = [p \in Position |-> 0]
    /\ openPositionIds' = {}
    /\ dealsSynchronized' = FALSE
    /\ UNCHANGED <<broker, rows, chain, link, inbox, replaying, cur, call, faults,
                   drops, history>>

\* The open was superseded meanwhile, or fails after the listener was
\* attached, or the session is closed; calls under way run on.
Closes ==
    /\ phase = "stream"
    /\ cur < MaxOpens
    /\ phase' = "off"
    /\ link' = FALSE
    /\ inbox' = <<>>
    /\ replaying' = FALSE
    /\ UNCHANGED <<broker, rows, chain, bf, told, listener, call, faults, drops,
                   history>>

Restart ==
    /\ phase # "off"
    /\ cur < MaxOpens
    /\ phase' = "off"
    /\ bf' = NotAsked
    /\ link' = FALSE
    /\ inbox' = <<>>
    /\ replaying' = FALSE
    /\ chain' = [p \in Position |-> <<>>]
    /\ call' = [c \in Call |-> FreeCall]
    /\ UNCHANGED <<broker, rows, told, listener, faults, drops, history>>

-----------------------------------------------------------------------------
(* The stream of the SDK                                                   *)

Event(kind, S) == [kind |-> kind, about |-> S, upto |-> 0]

\* onDealAdded for the deals of p up to the given one
DealEvent(p, n) == [kind |-> "deal", about |-> {p}, upto |-> n]

\* The stream is up: the open positions, then the deals not handed over yet
\* (a new listener ignores them), then onDealsSynchronized.
StreamUp ==
    /\ phase = "stream"
    /\ ~link
    /\ link' = TRUE
    /\ replaying' = TRUE
    /\ \E order \in SetToSeqs({p \in Position : told[p] < Len(deals[p])}) :
        inbox' = <<Event("replaced", OpenNow)>>
                 \o [i \in DOMAIN order |->
                        DealEvent(order[i], Len(deals[order[i]]))]
    /\ UNCHANGED <<broker, rows, chain, phase, bf, told, listener, call, faults,
                   drops, history>>

HistoryEnds ==
    /\ replaying
    /\ replaying' = FALSE
    /\ inbox' = Append(inbox, Event("synchronized", {}))
    /\ UNCHANGED <<broker, rows, chain, phase, bf, link, told, listener, call,
                   faults, drops, history>>

\* The SDK reconnects by itself; no backfill is run.
StreamDrops ==
    /\ link
    /\ faults + drops < MaxTroubles
    /\ drops' = drops + 1
    /\ link' = FALSE
    /\ inbox' = <<>>
    /\ replaying' = FALSE
    /\ behind' = behind \cup
            {p \in over : /\ Event("removed", {p}) \in Range(inbox)
                          /\ ~dealsSynchronized \/ told[p] = Len(deals[p])}
    /\ UNCHANGED <<broker, rows, chain, phase, bf, told, listener, call, faults,
                   older, unseen>>

-----------------------------------------------------------------------------
(* The listener                                                            *)

SpareCall ==
    LET free == {c \in Call : call[c].pc = "free"}
    IN  {c \in free : c = CHOOSE d \in free : TRUE}

Mine(c) == call[c].by = cur

\* The SDK may make the next callback, and c is free for it.
Ready(c) ==
    /\ inbox # <<>>
    /\ c \in SpareCall
    /\ Waits => \A d \in Call : Mine(d) => call[d].pc = "free"

Called(c, pc, S) ==
    call' = [call EXCEPT ![c] = [FreeCall EXCEPT !.pc = pc, !.by = cur, !.pos = S]]

OnEvent ==
    /\ inbox' = Tail(inbox)
    /\ UNCHANGED <<broker, rows, phase, bf, link, replaying, cur, faults, drops,
                   history>>

OnDealsSynchronized(c) ==
    /\ Ready(c)
    /\ Head(inbox).kind = "synchronized"
    /\ dealsSynchronized' = TRUE
    /\ OnEvent
    /\ UNCHANGED <<chain, told, openPositionIds, call>>

OnPositionsReplaced(c) ==
    /\ Ready(c)
    /\ Head(inbox).kind = "replaced"
    /\ openPositionIds' = {}
    /\ Called(c, "writing", Head(inbox).about)
    /\ OnEvent
    /\ UNCHANGED <<chain, told, dealsSynchronized>>

\* The loop of onPositionsReplaced, one position at a time
Replaces(c, p) ==
    /\ call[c].pc = "writing"
    /\ p \in call[c].pos
    /\ Settled(c)
    /\ openPositionIds' = IF Mine(c) THEN openPositionIds \cup {p}
                          ELSE openPositionIds
    /\ Enqueue(p, Write("open", c))
    /\ call' = [call EXCEPT ![c].pos = @ \ {p}]
    /\ UNCHANGED <<broker, rows, phase, bf, stream, cur, dealsSynchronized,
                   faults, drops, history>>

OnPositionUpdated(c) ==
    /\ Ready(c)
    /\ Head(inbox).kind = "updated"
    /\ LET p == CHOOSE q \in Position : q \in Head(inbox).about IN
        /\ openPositionIds' = openPositionIds \cup {p}
        /\ Enqueue(p, Write("open", c))
    /\ Called(c, "pricing", Head(inbox).about)
    /\ OnEvent
    /\ UNCHANGED <<told, dealsSynchronized>>

\* With or without an unrealized profit
Prices(c) ==
    /\ call[c].pc = "pricing"
    /\ Settled(c)
    /\ \/ \E p \in call[c].pos : Enqueue(p, Write("price", c))
       \/ UNCHANGED chain
    /\ call' = [call EXCEPT ![c] = [@ EXCEPT !.pc = "writing", !.pos = {}]]
    /\ UNCHANGED <<broker, rows, phase, bf, stream, listener, faults, drops,
                   history>>

\* finalize up to its first await, unless history is being replayed
Finalizes(c, S) ==
    IF dealsSynchronized THEN Called(c, "fetching", S) ELSE UNCHANGED call

\* With a plausible slip: the removed position is kept
KeptRemoved(ids, S) == ids

Dropped(ids, S) == ids \ S

OnPositionRemoved(c) ==
    /\ Ready(c)
    /\ Head(inbox).kind = "removed"
    /\ openPositionIds' = Dropped(openPositionIds, Head(inbox).about)
    /\ Finalizes(c, Head(inbox).about)
    /\ OnEvent
    /\ UNCHANGED <<chain, told, dealsSynchronized>>

OnDealAdded(c) ==
    /\ Ready(c)
    /\ Head(inbox).kind = "deal"
    /\ told' = [p \in Position |-> IF p \in Head(inbox).about
                                   THEN Head(inbox).upto ELSE told[p]]
    /\ Finalizes(c, Head(inbox).about)
    /\ OnEvent
    /\ UNCHANGED <<chain, openPositionIds, dealsSynchronized>>

\* A session closes its RPC connection before another open() starts.
Connected(c) == phase = "stream" /\ Mine(c)

\* The broker reads the deals of the position.
FetchReads(c, p) ==
    /\ call[c].pc = "fetching"
    /\ Connected(c)
    /\ p \in call[c].pos
    /\ call' = [call EXCEPT ![c] = [@ EXCEPT !.pc = "fetched", !.pos = {p},
                                            !.upto = Len(deals[p])]]
    /\ UNCHANGED <<broker, rows, chain, phase, bf, stream, listener, faults,
                   drops, history>>

\* The answer is handled: deals as of the read, openPositionIds as of now.
FetchAnswers(c, p) ==
    /\ call[c].pc = "fetched"
    /\ Connected(c)
    /\ p \in call[c].pos
    /\ LET D == 1 .. call[c].upto
           ids == openPositionIds
       IN  \/ /\ Skipped(p, D, ids)
              /\ call' = [call EXCEPT ![c] = FreeCall]
              /\ UNCHANGED chain
           \/ /\ ~Skipped(p, D, ids)
              /\ call' = [call EXCEPT ![c] = [@ EXCEPT !.pc = "writing", !.pos = {}]]
              /\ Enqueue(p, Aggregate(p, D, ids, c))
    /\ UNCHANGED <<broker, rows, phase, bf, stream, listener, faults, drops,
                   history>>

\* A closed connection answers nothing.
FetchFails(c) ==
    /\ call[c].pc \in {"fetching", "fetched"}
    /\ IF Connected(c) THEN Fault ELSE UNCHANGED faults
    /\ call' = [call EXCEPT ![c] = FreeCall]
    /\ UNCHANGED <<broker, rows, chain, phase, bf, stream, listener, drops,
                   history>>

\* The last write of the call has settled.
CallEnds(c) ==
    /\ call[c].pc = "writing"
    /\ call[c].pos = {}
    /\ Settled(c)
    /\ call' = [call EXCEPT ![c] = FreeCall]
    /\ UNCHANGED <<broker, rows, chain, phase, bf, stream, listener, faults,
                   drops, history>>

-----------------------------------------------------------------------------
(* The broker and the clock                                                *)

\* What the stream sends of one step at the broker: the deal may come before
\* or after the change of the position.
Sends(p, kind) ==
    LET change == Event(kind, {p})
        deal == DealEvent(p, Len(deals[p]) + 1)
    IN  IF link
        THEN \E news \in {<<change, deal>>, <<deal, change>>} :
                inbox' = inbox \o news
        ELSE UNCHANGED inbox

\* The stream will have handed over what happens now after the history.
Streaming ==
    /\ phase = "stream"
    /\ dealsSynchronized \/ (link /\ ~replaying)

Deal(p) ==
    /\ Len(deals[p]) < MaxDeals
    /\ Len(inbox) <= MaxBacklog
    /\ deals' = [deals EXCEPT ![p] = Append(@, now)]
    /\ UNCHANGED <<now, sibling, rows, chain, phase, bf, link, replaying, told,
                   listener, call, faults, drops>>

PositionOpens(p) ==
    /\ ~Opened(p)
    /\ Deal(p)
    /\ Sends(p, "updated")
    /\ UNCHANGED <<over, history>>

\* The listener has p for open; a backfill that has its deals asks later.
KnownOpen(p) == phase = "stream" => p \in openPositionIds

PartClosed(p) ==
    /\ p \in OpenNow
    /\ Deal(p)
    /\ Sends(p, "updated")
    /\ unseen' = IF KnownOpen(p) THEN unseen ELSE unseen \cup {p}
    /\ UNCHANGED <<over, behind, older>>

PositionCloses(p) ==
    /\ p \in OpenNow
    /\ Deal(p)
    /\ over' = over \cup {p}
    /\ Sends(p, "removed")
    /\ behind' = IF Streaming \/ phase = "off" THEN behind ELSE behind \cup {p}
    /\ UNCHANGED <<older, unseen>>

\* Another account of the user has a row closed today.  Only the watermark
\* query reads it, so that it happens before the connect loses nothing.
SiblingExits ==
    /\ phase = "off"
    /\ sibling' = now
    /\ UNCHANGED <<now, deals, over, rows, chain, phase, bf, stream, listener,
                   call, faults, drops, history>>

\* A day is longer than anything in flight.
AtRest ==
    /\ phase \in {"off", "stream"}
    /\ inbox = <<>>
    /\ ~replaying
    /\ \A c \in Call : call[c].pc = "free"
    /\ \A p \in Position : chain[p] = <<>>

DayPasses ==
    /\ AtRest
    /\ now < MaxDay
    /\ now' = now + 1
    /\ UNCHANGED <<deals, over, sibling, rows, chain, phase, bf, stream,
                   listener, call, faults, drops, history>>

-----------------------------------------------------------------------------
(* The specification                                                       *)

Init ==
    /\ now = 1
    /\ deals = [p \in Position |-> <<>>]
    /\ over = {}
    /\ sibling = 0
    /\ rows = [p \in Position |-> NoRow]
    /\ chain = [p \in Position |-> <<>>]
    /\ phase = "off"
    /\ bf = NotAsked
    /\ link = FALSE
    /\ inbox = <<>>
    /\ replaying = FALSE
    /\ told = [p \in Position |-> 0]
    /\ cur = 0
    /\ openPositionIds = {}
    /\ dealsSynchronized = FALSE
    /\ call = [c \in Call |-> FreeCall]
    /\ faults = 0 /\ drops = 0
    /\ behind = {} /\ older = {} /\ unseen = {}

Chains == \E p \in Position : WriteLands(p)

Backfills ==
    \/ Opens \/ ReadsWatermark \/ DealsAnswer \/ PositionsAnswer
    \/ BackfillAggregates \/ BackfillEnds
    \/ \E p \in Position : BackfillWrites(p)

Stream == StreamUp \/ HistoryEnds

Callback ==
    \E c \in Call :
        \/ OnDealsSynchronized(c) \/ OnPositionsReplaced(c)
        \/ OnPositionUpdated(c) \/ OnPositionRemoved(c) \/ OnDealAdded(c)

Continues(c) ==
    \/ \E p \in Position :
        Replaces(c, p) \/ FetchReads(c, p) \/ FetchAnswers(c, p)
    \/ Prices(c) \/ CallEnds(c)

Broker(p) == PositionOpens(p) \/ PartClosed(p) \/ PositionCloses(p)

System ==
    \/ Chains \/ Backfills \/ Stream \/ Callback
    \/ \E c \in Call : Continues(c) \/ FetchFails(c)

Next ==
    \/ System
    \/ \E p \in Position : Broker(p) \/ WriteFails(p)
    \/ BackfillFails \/ Closes \/ Restart \/ StreamDrops
    \/ SiblingExits \/ DayPasses

Spec == Init /\ [][Next]_vars

\* Calls are answered or fail, a stream comes up, callbacks are made, and
\* open() is called again after it failed.  Bounded deals, connects and troubles
\* leave finitely many steps, so that none of these can starve another.
Fairness == WF_vars(System)

LiveSpec == Spec /\ Fairness

-----------------------------------------------------------------------------
(* Properties                                                              *)

Index == 1 .. MaxDeals
Waiter == Call \cup {Backfill}
Writes == [op : {"open", "closed", "price"}, exit : 0 .. MaxDeals,
           money : SUBSET Index, by : Waiter]
Rows == [state : {"none", "open", "closed"}, exit : 0 .. MaxDeals,
         money : SUBSET Index, floating : BOOLEAN]
Calls == [pc : {"free", "writing", "pricing", "fetching", "fetched"},
          by : 0 .. MaxOpens, pos : SUBSET Position, upto : 0 .. MaxDeals]
Events == [kind : {"replaced", "updated", "removed", "deal", "synchronized"},
           about : SUBSET Position, upto : 0 .. MaxDeals]

BrokerOK ==
    /\ now \in 1 .. MaxDay /\ sibling \in 0 .. MaxDay
    /\ deals \in [Position -> Seq(1 .. MaxDay)]
    /\ \A p \in Position : Len(deals[p]) <= MaxDeals
    /\ over \in SUBSET Position

RowsOK == rows \in [Position -> Rows] /\ chain \in [Position -> Seq(Writes)]

BackfillOK ==
    /\ phase \in {"off", "window", "requests", "writes", "stream"}
    /\ bf \in [from : Nat, upto : [Position -> 0 .. MaxDeals],
               answered : SUBSET {"deals", "positions"},
               ids : SUBSET Position, hist : [Position -> SUBSET Index],
               todo : SUBSET Position]

StreamOK ==
    /\ link \in BOOLEAN /\ replaying \in BOOLEAN
    /\ inbox \in Seq(Events)
    /\ told \in [Position -> 0 .. MaxDeals]

ListenerOK ==
    /\ cur \in 0 .. MaxOpens
    /\ openPositionIds \in SUBSET Position
    /\ dealsSynchronized \in BOOLEAN
    /\ call \in [Call -> Calls]

BoundsOK ==
    /\ faults \in Nat /\ drops \in Nat /\ faults + drops <= MaxTroubles
    /\ {behind, older, unseen} \subseteq SUBSET Position

\* Every variable keeps its type; whoever has a write in a chain is at work.
TypeOK ==
    /\ BrokerOK /\ RowsOK /\ BackfillOK /\ StreamOK /\ ListenerOK /\ BoundsOK
    /\ Pending(Backfill) => phase = "writes"
    /\ \A c \in Call : Pending(c) => call[c].pc # "free"

\* A closed row is true: its position is over at the broker (no part closed of
\* a position that is known as open closes the row), it counts every deal of
\* the position up to its exit that is the worker's and none that the EA has
\* booked.
ClosedIsTrue ==
    \A p \in Position : rows[p].state = "closed" =>
        /\ p \in over \cup unseen
        /\ rows[p].money = {i \in 1 .. rows[p].exit : deals[p][i] > Clamp}

\* Whatever reads, callbacks and connects overlap, a row never goes back: a
\* closed row stays closed, keeps every deal it counts, and its result is
\* never a floating one again.
TotalsGrow ==
    [][\A p \in Position : rows[p].state = "closed" =>
        /\ rows'[p].state = "closed"
        /\ ~rows'[p].floating
        /\ rows[p].money \subseteq rows'[p].money]_vars

Complete(p) ==
    \/ deals[p][Len(deals[p])] <= Clamp
    \/ /\ rows[p].state = "closed"
       /\ rows[p].money = Owned(p, DOMAIN deals[p])

\* Every position that is over ends with a closed row that counts all its
\* deals, if no call failed, unless it was closed while nobody looked (between
\* the start of a backfill and the end of the history, or its removal lost in a
\* reconnect of the SDK) or is older than the window of the newest backfill.
ClosesCaptured ==
    <>[](faults > 0 \/ \A p \in over \ (behind \cup older) : Complete(p))

\* "A worker restart or a dropped socket never silently loses trades", and a
\* position that a backfill skips is picked up by "a wider window or a live event":
\* no row stays open of a position that was closed while the worker was down.
DowntimeRecovered ==
    <>[](faults > 0 \/ \A p \in over \ behind : rows[p].state # "open")

===============================================================================
