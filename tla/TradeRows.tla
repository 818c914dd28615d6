------------------------------ MODULE TradeRows ------------------------------
(***************************************************************************)
(* What the TradeLocker trade writer promises the connection manager: each *)
(* position owns one row of the Trade table and a first-in first-out chain *)
(* of writes (TradeWriterService.serialize).  A write is one atomic step   *)
(* on the row; the caller that awaits it learns the outcome in a later     *)
(* step, and an error reply does not say whether the write landed.         *)
(*                                                                         *)
(* TradeWriter.tla splits each write into its database calls and is        *)
(* checked to implement this module; CloseCapture.tla builds on it.        *)
(***************************************************************************)
EXTENDS Sequences

CONSTANTS Position, \* position ids of one account
          Caller    \* the flows that may await a write, and the value of nobody

VARIABLES row,      \* row[p]: the Trade row of position p
          chain,    \* chain[p]: the writes queued for p; the head is running
          reply     \* reply[p]: what the database answered to the head of chain[p]

rowVars == <<row, chain, reply>>

\* The state of a row: exitDate null or set, where quantity and entryDate were
\* taken from, and which money figure pnl holds.
Row == [st : {"none", "open", "closed"},
        qty : {"none", "stream", "report"},
        pnl : {"none", "floating", "realized"}]

NoRow == [st |-> "none", qty |-> "none", pnl |-> "none"]

\* A queued write: what it does, who awaits it, and whether a successful open
\* write is to be announced (handlePosition's notifyNewOpen).
WriteOp == [kind : {"open", "close", "pnl"}, by : Caller, tell : BOOLEAN]

RowsTypeOK ==
  /\ row \in [Position -> Row]
  /\ chain \in [Position -> Seq(WriteOp)]
  /\ reply \in [Position -> {"none", "ok", "err"}]

NoWrites ==
  /\ chain = [p \in Position |-> <<>>]
  /\ reply = [p \in Position |-> "none"]

RowsInit == row = [p \in Position |-> NoRow] /\ NoWrites

-----------------------------------------------------------------------------
\* Variants of the writes with a plausible slip in them, kept to show that the
\* properties notice it.
UnrealizedOnAnyRow(r) == IF r.st = "none" THEN r ELSE [r EXCEPT !.pnl = "floating"]

\* writeOpen: the upsert's create branch makes an open row; its update branch
\* refreshes the entry data and leaves exitDate alone.
Opened(r) == [st |-> IF r.st = "closed" THEN "closed" ELSE "open",
              qty |-> "stream", pnl |-> r.pnl]

\* writeClosed: both branches of the upsert set the same absolute data.
Closed(r) == [st |-> "closed", qty |-> "report", pnl |-> "realized"]

\* writeUnrealized: updates an open row only.
Unrealized(r) == IF r.st = "open" THEN [r EXCEPT !.pnl = "floating"] ELSE r

Apply(kind, r) ==
  IF kind = "open" THEN Opened(r) ELSE IF kind = "close" THEN Closed(r) ELSE Unrealized(r)

-----------------------------------------------------------------------------
\* serialize: append the write to the chain of its position.
Enqueue(p, op) == chain' = [chain EXCEPT ![p] = Append(@, op)]

\* The database carries out the head of a chain, and its answer may be lost.
WriteLands(p) ==
  /\ chain[p] # <<>>
  /\ reply[p] = "none"
  /\ row' = [row EXCEPT ![p] = Apply(Head(chain[p]).kind, @)]
  /\ \E a \in {"ok", "err"} : reply' = [reply EXCEPT ![p] = a]
  /\ UNCHANGED chain

\* The database refuses or never sees the head of a chain.
WriteFails(p) ==
  /\ chain[p] # <<>>
  /\ reply[p] = "none"
  /\ reply' = [reply EXCEPT ![p] = "err"]
  /\ UNCHANGED <<row, chain>>

\* The reply reaches the process: the promise of the head settles and the chain
\* moves on to the next write whatever the outcome (the tail catches errors).
Settle(p) ==
  /\ reply[p] # "none"
  /\ chain' = [chain EXCEPT ![p] = Tail(@)]
  /\ reply' = [reply EXCEPT ![p] = "none"]
  /\ UNCHANGED row

-----------------------------------------------------------------------------
RowsNext ==
  \E p \in Position :
    \/ \E op \in WriteOp : Enqueue(p, op) /\ UNCHANGED <<row, reply>>
    \/ WriteLands(p)
    \/ WriteFails(p)
    \/ Settle(p)

RowsSpec == RowsInit /\ [][RowsNext]_rowVars

=============================================================================
