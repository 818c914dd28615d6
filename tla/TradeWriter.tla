----------------------------- MODULE TradeWriter -----------------------------
(***************************************************************************)
(* The TradeLocker TradeWriterService: serialize's chain of promises and   *)
(* the database calls each write makes.                                    *)
(*                                                                         *)
(* A write is numbered when it is issued.  serialize makes it wait for the *)
(* promise the chains map holds for its position and puts its own tail     *)
(* promise there; the tail removes itself when it is still the last one.   *)
(* The main application edits riskPercentage of the same rows at any time. *)
(***************************************************************************)
EXTENDS Naturals, FiniteSets, Sequences

CONSTANTS Position,
          Nobody,      \* the caller of every write here
          Editable,    \* positions whose risk the user may edit in the main app
          MaxWrites    \* bound: writes ever issued

ASSUME WriterAssumptions == Editable \subseteq Position /\ MaxWrites \in Nat

VARIABLES row,     \* row[p]: the Trade row of p
          issued,  \* writes issued so far
          op,      \* op[n]: the n-th write
          last     \* last[p]: the write whose tail the chains map holds, or 0

vars == <<row, issued, op, last>>

\* Where riskPercentage comes from: null, the import default, or the user.
Risk == {"none", "default", "user"}
FullRow == [st : {"none", "open", "closed"}, qty : {"none", "stream", "report"},
            pnl : {"none", "floating", "realized"}, risk : Risk]
NoFullRow == [st |-> "none", qty |-> "none", pnl |-> "none", risk |-> "none"]

\* after: the write whose tail it waits for; risk: what its read returned.
Write == [pos : Position, kind : {"open", "close", "pnl"}, after : 0..MaxWrites,
          stage : {"queued", "read", "ok", "err", "settled", "done"}, risk : Risk]

\* Every variable keeps its type, and the chains map does not grow with the positions
\* ever written: an entry whose tail has run is gone.
TypeOK ==
  /\ row \in [Position -> FullRow]
  /\ issued \in 0..MaxWrites
  /\ op \in [1..issued -> Write]
  /\ last \in [Position -> 0..issued]
  /\ \A p \in Position : last[p] # 0 => op[last[p]].stage # "done"

Init ==
  /\ row = [p \in Position |-> NoFullRow]
  /\ issued = 0
  /\ op = <<>>
  /\ last = [p \in Position |-> 0]

-----------------------------------------------------------------------------
\* Variants with a plausible slip, kept to show that the properties notice it.
DroppedByAnyTail(p, n) == 0
NeverDropped(p, n) == last[p]
ResolvedOnSuccess(n) == op[n].stage = "ok"

\* serialize's previous: the tail the map holds, or a resolved promise.
Predecessor(p) == last[p]

\* The tail's finally: it leaves the map if no later write replaced it.
AfterTail(p, n) == IF last[p] = n THEN 0 ELSE last[p]

\* The tail catches a rejection, so an error resolves it too.
Resolved(n) == op[n].stage \in {"ok", "err"}

Issue(p, kind) ==
  /\ issued < MaxWrites
  /\ issued' = issued + 1
  /\ op' = Append(op, [pos |-> p, kind |-> kind, after |-> Predecessor(p),
                       stage |-> "queued", risk |-> "none"])
  /\ last' = [last EXCEPT ![p] = issued + 1]
  /\ UNCHANGED row

Ready(n) == op[n].stage = "queued"
            /\ op[n].after \in {0} \cup {m \in 1..issued : op[m].stage = "done"}

ToStage(n, stage) == op' = [op EXCEPT ![n].stage = stage]

-----------------------------------------------------------------------------
Defaulted(risk) == IF risk = "none" THEN "default" ELSE risk

\* writeOpen: one upsert.
UpsertOpen(n) ==
  LET p == op[n].pos
  IN /\ Ready(n) /\ op[n].kind = "open"
     /\ row' = [row EXCEPT ![p] =
                  IF @.st = "none"
                  THEN [st |-> "open", qty |-> "stream", pnl |-> "none", risk |-> "default"]
                  ELSE [@ EXCEPT !.qty = "stream"]]
     /\ \E stage \in {"ok", "err"} : ToStage(n, stage)
     /\ UNCHANGED <<issued, last>>

\* writeClosed and writeUnrealized read the row first; writeUnrealized is done
\* when there is no open row.
ReadRow(n) ==
  LET r == row[op[n].pos]
  IN /\ Ready(n) /\ op[n].kind \in {"close", "pnl"}
     /\ IF op[n].kind = "pnl" /\ r.st # "open"
        THEN ToStage(n, "ok")
        ELSE op' = [op EXCEPT ![n] = [@ EXCEPT !.stage = "read", !.risk = r.risk]]
     /\ UNCHANGED <<row, issued, last>>

\* writeClosed: the upsert sets every realized column, and the risk it read.
UpsertClosed(n) ==
  /\ op[n].stage = "read" /\ op[n].kind = "close"
  /\ row' = [row EXCEPT ![op[n].pos] = [st |-> "closed", qty |-> "report",
                                        pnl |-> "realized", risk |-> Defaulted(op[n].risk)]]
  /\ \E stage \in {"ok", "err"} : ToStage(n, stage)
  /\ UNCHANGED <<issued, last>>

\* writeUnrealized: updateMany with exitDate null in its where clause.
UpdateUnrealized(n) ==
  /\ op[n].stage = "read" /\ op[n].kind = "pnl"
  /\ row' = [row EXCEPT ![op[n].pos] =
               IF @.st = "open"
               THEN [@ EXCEPT !.pnl = "floating", !.risk = Defaulted(op[n].risk)] ELSE @]
  /\ \E stage \in {"ok", "err"} : ToStage(n, stage)
  /\ UNCHANGED <<issued, last>>

\* The database refuses a call of the write.
CallFails(n) ==
  /\ Ready(n) \/ op[n].stage = "read"
  /\ ToStage(n, "err")
  /\ UNCHANGED <<row, issued, last>>

\* The caller's promise settles, then the tail of the chain.
Settled(n) ==
  /\ Resolved(n)
  /\ ToStage(n, "settled")
  /\ UNCHANGED <<row, issued, last>>

TailRuns(n) ==
  /\ op[n].stage = "settled"
  /\ ToStage(n, "done")
  /\ last' = [last EXCEPT ![op[n].pos] = AfterTail(op[n].pos, n)]
  /\ UNCHANGED <<row, issued>>

\* The main app stores a hand-edited risk percentage.
UserEditsRisk(p) ==
  /\ p \in Editable /\ row[p].st # "none"
  /\ row' = [row EXCEPT ![p].risk = "user"]
  /\ UNCHANGED <<issued, op, last>>

WriteStep(n) ==
  \/ UpsertOpen(n) \/ ReadRow(n) \/ UpsertClosed(n) \/ UpdateUnrealized(n)
  \/ CallFails(n) \/ Settled(n) \/ TailRuns(n)

Next ==
  \/ \E p \in Position, kind \in {"open", "close", "pnl"} : Issue(p, kind)
  \/ \E n \in 1..issued : WriteStep(n)
  \/ \E p \in Position : UserEditsRisk(p)

Spec == Init /\ [][Next]_vars

\* The database answers every call, with an error at the latest, and promises settle.
Fairness == \A n \in 1..MaxWrites : WF_vars(n <= issued /\ WriteStep(n))

LiveSpec == Spec /\ Fairness

-----------------------------------------------------------------------------
(* Properties.                                                             *)

\* A write that fails does not stop the ones behind it: every write settles.
EveryWriteSettles ==
  \A n \in 1..MaxWrites : (n <= issued) ~> (n <= issued /\ op[n].stage = "done")

\* The numbers in S as a sequence, least first.
InOrder(S) ==
  CHOOSE s \in [1..Cardinality(S) -> S] :
    /\ S = {s[i] : i \in DOMAIN s}
    /\ \A i, j \in DOMAIN s : i < j => s[i] < s[j]

\* The abstract writer: reads are invisible, a write lands when it changes the
\* row, and the chain of a position is its unsettled writes in order of issue.
Unsettled(p) == {n \in 1..issued : op[n].pos = p /\ op[n].stage \notin {"settled", "done"}}
ChainOf(p) ==
  LET ns == InOrder(Unsettled(p))
  IN [i \in DOMAIN ns |-> [kind |-> op[ns[i]].kind, by |-> Nobody, tell |-> FALSE]]
ReplyOf(p) ==
  IF \E n \in Unsettled(p) : op[n].stage = "ok" THEN "ok"
  ELSE IF \E n \in Unsettled(p) : op[n].stage = "err" THEN "err" ELSE "none"

Rows == INSTANCE TradeRows
          WITH Caller <- {Nobody},
               row <- [p \in Position |-> [st |-> row[p].st, qty |-> row[p].qty,
                                           pnl |-> row[p].pnl]],
               chain <- [p \in Position |-> ChainOf(p)],
               reply <- [p \in Position |-> ReplyOf(p)]

\* Split into its database calls and chained by promises, the writer still
\* looks like one atomic write at a time per position, in the order issued.
ImplementsRows == Rows!RowsSpec

=============================================================================
