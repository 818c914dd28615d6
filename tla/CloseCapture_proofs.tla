------------------------- MODULE CloseCapture_proofs -------------------------
(***************************************************************************)
(* Proofs about CloseCapture, for every set of positions and flows and     *)
(* every value of the bounds.                                              *)
(***************************************************************************)
EXTENDS CloseCapture, FiniteSetTheorems, SequenceTheorems, TLAPS

\* The writer's part of the type invariant, one lemma per writer operation.
LEMMA ApplyType ==
  ASSUME NEW r \in Row, NEW kind \in {"open", "close", "pnl"}
  PROVE  Apply(kind, r) \in Row
BY DEF Apply, Opened, Closed, Unrealized, Row

LEMMA EnqueueType ==
  ASSUME RowsTypeOK, NEW p \in Position, NEW o \in WriteOp, Enqueue(p, o)
  PROVE  chain' \in [Position -> Seq(WriteOp)]
BY DEF RowsTypeOK, Enqueue

LEMMA SettleType ==
  ASSUME RowsTypeOK, NEW p \in Position, chain[p] # <<>>, Settle(p)
  PROVE  RowsTypeOK'
<1>1. Tail(chain[p]) \in Seq(WriteOp)
  BY DEF RowsTypeOK
<1> QED
  BY <1>1 DEF RowsTypeOK, Settle

LEMMA LandsType ==
  ASSUME RowsTypeOK, NEW p \in Position, WriteLands(p)
  PROVE  RowsTypeOK'
<1>1. Head(chain[p]) \in WriteOp
  BY DEF RowsTypeOK, WriteLands
<1>2. Apply(Head(chain[p]).kind, row[p]) \in Row
  BY <1>1, ApplyType DEF RowsTypeOK, WriteOp
<1> QED
  BY <1>2 DEF RowsTypeOK, WriteLands

-----------------------------------------------------------------------------
(* Type correctness.                                                       *)

LEMMA EntryType == NoEntry \in Entry /\ \A s \in 0..MaxSession : [sess |-> s, attempts |-> 0] \in Entry
BY Assumptions DEF Assumptions, NoEntry, Entry

LEMMA ChargedType ==
  ASSUME NEW e \in Entry
  PROVE  Charged(e) \in Entry
BY EntryType, Assumptions DEF Assumptions, Charged, NoEntry, Entry

LEMMA IdleType == Idle \in FlowState
BY Assumptions DEF Assumptions, Idle, FlowState

LEMMA MoveType ==
  ASSUME flow \in [Flow -> FlowState], NEW f \in Flow,
         NEW pc \in {"fetch", "query", "queried", "got", "write"},
         NEW pos \in Position \cup {NoPosition}, NEW rows \in SUBSET Position,
         Move(f, pc, pos, rows)
  PROVE  flow' \in [Flow -> FlowState]
BY DEF Move, FlowState

LEMMA EndType ==
  ASSUME flow \in [Flow -> FlowState], NEW f \in Flow, End(f)
  PROVE  flow' \in [Flow -> FlowState]
BY IdleType DEF End

LEMMA StartFinalizeType ==
  ASSUME flow \in [Flow -> FlowState], NEW f \in Flow, NEW by \in {"close", "retry"},
         NEW p \in Position, NEW s \in 0..MaxSession, StartFinalize(f, by, p, s)
  PROVE  flow' \in [Flow -> FlowState]
BY DEF StartFinalize, FlowState

LEMMA StartScanType ==
  ASSUME flow \in [Flow -> FlowState], NEW f \in Flow, NEW pages \in {1, DeepPages},
         StartScan(f, pages)
  PROVE  flow' \in [Flow -> FlowState]
BY Assumptions DEF Assumptions, StartScan, FlowState

LEMMA PendingType ==
  ASSUME pending \in [Position -> Entry], NEW p \in Position, NEW s \in 0..MaxSession,
         Forget(p) \/ Requeue(p, s) \/ Charge(p) \/ UNCHANGED pending
  PROVE  pending' \in [Position -> Entry]
BY EntryType, ChargedType DEF Forget, Requeue, Charge

\* Every step keeps the types.
LEMMA TypeStep == TypeOK /\ FlowShape /\ [Next]_vars => TypeOK'
<1> SUFFICES ASSUME TypeOK, FlowShape, [Next]_vars PROVE TypeOK'
  OBVIOUS
<1> USE DEF rowVars, broker, wire, session, memory, told
<1>1. CASE UNCHANGED vars
  BY <1>1 DEF vars, TypeOK, RowsTypeOK
<1>2. ASSUME NEW p \in Position, PositionStep(p) PROVE TypeOK'
  <2>1. CASE BrokerOpen(p)
    BY <2>1 DEF BrokerOpen, TypeOK, RowsTypeOK
  <2>2. CASE BrokerModify(p)
    BY <2>2 DEF BrokerModify, TypeOK, RowsTypeOK
  <2>3. CASE BrokerClose(p)
    <3>1. IsFiniteSet(opened \ OpenNow)
      BY Assumptions, FS_Subset DEF Assumptions, TypeOK
    <3>2. Cardinality(opened \ OpenNow) + 1 \in Nat
      BY <3>1, FS_CardinalityType
    <3> QED
      BY <2>3, <3>2 DEF BrokerClose, TypeOK, RowsTypeOK
  <2>4. CASE Publish(p)
    BY <2>4 DEF Publish, TypeOK, RowsTypeOK
  <2>5. CASE HandlePosition(p)
    <3> DEFINE o == [kind |-> "open", by |-> Nobody, tell |-> Announced(p)]
    <3>1. o \in WriteOp
      BY Assumptions DEF Assumptions, WriteOp, Announced, TypeOK
    <3>2. chain' \in [Position -> Seq(WriteOp)]
      BY <2>5, <3>1, EnqueueType DEF HandlePosition, TypeOK
    <3> QED
      BY <2>5, <3>2 DEF HandlePosition, TypeOK, RowsTypeOK
  <2>6. CASE HandleAccountStatus(p)
    <3> DEFINE o == [kind |-> "pnl", by |-> Nobody, tell |-> FALSE]
    <3>1. o \in WriteOp
      BY Assumptions DEF Assumptions, WriteOp, Announced, TypeOK
    <3>2. chain' \in [Position -> Seq(WriteOp)]
      BY <2>6, <3>1, EnqueueType DEF HandleAccountStatus, TypeOK
    <3> QED
      BY <2>6, <3>2 DEF HandleAccountStatus, TypeOK, RowsTypeOK
  <2>7. CASE HandleClose(p)
    <3>1. flow' \in [Flow -> FlowState]
      BY <2>7, StartFinalizeType DEF HandleClose, TypeOK
    <3>2. pending' \in [Position -> Entry]
      BY <2>7, PendingType DEF HandleClose, TypeOK
    <3>3. closes' \subseteq Position /\ finalizing' \subseteq Position
      BY <2>7 DEF HandleClose, StartFinalize, TypeOK
    <3> QED
      BY <2>7, <3>1, <3>2, <3>3 DEF HandleClose, TypeOK, RowsTypeOK
  <2>8. CASE DatabaseLands(p)
    <3>1. RowsTypeOK'
      BY <2>8, LandsType DEF DatabaseLands, TypeOK
    <3> QED
      BY <2>8, <3>1 DEF DatabaseLands, TypeOK
  <2>9. CASE DatabaseFails(p)
    BY <2>9 DEF DatabaseFails, TypeOK, RowsTypeOK, WriteFails
  <2>10. CASE StreamWriteSettles(p)
    <3>1. RowsTypeOK'
      BY <2>10, SettleType DEF StreamWriteSettles, TypeOK
    <3> QED
      BY <2>10, <3>1 DEF StreamWriteSettles, TypeOK
  <2>11. CASE Retry(p)
    <3>1. flow' \in [Flow -> FlowState]
      BY <2>11, StartFinalizeType, Assumptions DEF Assumptions, Retry, TypeOK
    <3>2. pending' \in [Position -> Entry]
      BY <2>11, PendingType DEF Retry, TypeOK
    <3>3. finalizing' \subseteq Position
      BY <2>11 DEF Retry, StartFinalize, TypeOK
    <3> QED
      BY <2>11, <3>1, <3>2, <3>3 DEF Retry, TypeOK, RowsTypeOK
  <2> QED
    BY <1>2, <2>1, <2>2, <2>3, <2>4, <2>5, <2>6, <2>7, <2>8, <2>9, <2>10, <2>11
    DEF PositionStep
<1>3. ASSUME NEW f \in Flow, FlowStep(f) PROVE TypeOK'
  <2> DEFINE q == flow[f].pos
  <2>0. /\ flow[f] \in FlowState /\ flow \in [Flow -> FlowState]
        /\ Finalizes(f) => q \in Position
        /\ flow[f].by = "scan" /\ flow[f].pc = "write" => q \in Position
    BY DEF TypeOK, FlowShape, ShapeOf, Finalizes
  <2>1. CASE FetchAnswered(f)
    <3>1. q \in Position \cup {NoPosition}
      BY <2>0 DEF FlowState
    <3>2. \A pages : Report(pages) \in SUBSET Position
      BY DEF Report, TypeOK
    <3>3. flow' \in [Flow -> FlowState]
      BY <2>0, <2>1, <3>1, <3>2, MoveType DEF FetchAnswered
    <3> QED
      BY <2>1, <3>3 DEF FetchAnswered, TypeOK, RowsTypeOK
  <2>2. CASE FinalizeThrows(f)
    <3>1. flow' \in [Flow -> FlowState] /\ pending' \in [Position -> Entry]
      BY <2>0, <2>2, EndType, PendingType DEF FinalizeThrows, TypeOK
    <3> QED
      BY <2>2, <3>1 DEF FinalizeThrows, Released, TypeOK, RowsTypeOK
  <2>3. CASE FinalizeMisses(f)
    <3>1. flow[f].sess \in 0..MaxSession
      BY <2>0 DEF FlowState
    <3>2. flow' \in [Flow -> FlowState] /\ pending' \in [Position -> Entry]
      BY <2>0, <2>3, <3>1, EndType, PendingType DEF FinalizeMisses, TypeOK
    <3> QED
      BY <2>3, <3>2 DEF FinalizeMisses, Released, TypeOK, RowsTypeOK
  <2>4. CASE FinalizeMatches(f)
    <3>1. [kind |-> "close", by |-> f, tell |-> FALSE] \in WriteOp
      BY Assumptions DEF Assumptions, WriteOp
    <3>2. chain' \in [Position -> Seq(WriteOp)]
      BY <2>0, <2>4, <3>1, EnqueueType DEF FinalizeMatches, TypeOK
    <3>3. flow' \in [Flow -> FlowState]
      BY <2>0, <2>4, MoveType DEF FinalizeMatches
    <3> QED
      BY <2>4, <3>2, <3>3 DEF FinalizeMatches, TypeOK, RowsTypeOK
  <2>5. CASE FinalizeSettles(f)
    <3>1. RowsTypeOK'
      BY <2>0, <2>5, SettleType DEF FinalizeSettles, Written, TypeOK
    <3>2. flow' \in [Flow -> FlowState] /\ pending' \in [Position -> Entry]
      BY <2>0, <2>5, EndType, PendingType DEF FinalizeSettles, Written, TypeOK
    <3>3. /\ q \in Position
          /\ \/ closeTold' = [closeTold EXCEPT ![q] = @ + 1] /\ closedSeen' = closedSeen \cup {q}
             \/ UNCHANGED <<closeTold, closedSeen>>
      BY <2>0, <2>5 DEF FinalizeSettles, Written
    <3>4. closeTold' \in [Position -> Nat] /\ closedSeen' \subseteq Position
      BY <3>3 DEF TypeOK
    <3> QED
      BY <2>5, <3>1, <3>2, <3>4 DEF FinalizeSettles, Written, Released, TypeOK
  <2>6. CASE ScanLoggedIn(f)
    <3>1. flow' \in [Flow -> FlowState]
      BY <2>0, <2>6, MoveType DEF ScanLoggedIn
    <3> QED
      BY <2>6, <3>1 DEF ScanLoggedIn, TypeOK, RowsTypeOK
  <2>7. CASE PrimeRead(f)
    <3>1. flow' \in [Flow -> FlowState]
      BY <2>0, <2>7, MoveType DEF PrimeRead, PrimedRows
    <3> QED
      BY <2>7, <3>1 DEF PrimeRead, TypeOK, RowsTypeOK
  <2>8. CASE PrimeApplied(f)
    <3>1. flow' \in [Flow -> FlowState]
      BY <2>0, <2>8, MoveType DEF PrimeApplied
    <3>2. closedSeen' \subseteq Position
      BY <2>0, <2>8 DEF PrimeApplied, FlowState, TypeOK
    <3> QED
      BY <2>8, <3>1, <3>2 DEF PrimeApplied, TypeOK, RowsTypeOK
  <2>9. CASE ScanThrows(f)
    <3>1. flow' \in [Flow -> FlowState]
      BY <2>0, <2>9, EndType DEF ScanThrows
    <3> QED
      BY <2>9, <3>1 DEF ScanThrows, TypeOK, RowsTypeOK
  <2>10. ASSUME NEW p \in Position, ScanWrites(f, p) PROVE TypeOK'
    <3>1. [kind |-> "close", by |-> f, tell |-> FALSE] \in WriteOp
      BY Assumptions DEF Assumptions, WriteOp
    <3>2. chain' \in [Position -> Seq(WriteOp)]
      BY <2>10, <3>1, EnqueueType DEF ScanWrites, TypeOK
    <3>3. {r \in flow[f].rows : closedAt[r] < closedAt[p]} \in SUBSET Position
      BY <2>0 DEF FlowState
    <3>4. flow' \in [Flow -> FlowState]
      BY <2>0, <2>10, <3>3, MoveType DEF ScanWrites
    <3> QED
      BY <2>10, <3>2, <3>4 DEF ScanWrites, TypeOK, RowsTypeOK
  <2>11. CASE ScanEnds(f)
    <3>1. flow' \in [Flow -> FlowState]
      BY <2>0, <2>11, EndType DEF ScanEnds
    <3> QED
      BY <2>11, <3>1 DEF ScanEnds, TypeOK, RowsTypeOK
  <2>12. CASE ScanSettles(f)
    <3>1. RowsTypeOK'
      BY <2>0, <2>12, SettleType DEF ScanSettles, Written, TypeOK
    <3>2. flow[f].rows \in SUBSET Position
      BY <2>0 DEF FlowState
    <3>3. flow' \in [Flow -> FlowState] /\ pending' \in [Position -> Entry]
      BY <2>0, <2>12, <3>2, MoveType, EndType, PendingType, Assumptions
      DEF Assumptions, ScanSettles, Written, TypeOK
    <3>4. closedSeen' \subseteq Position
      BY <2>0, <2>12 DEF ScanSettles, Written, TypeOK
    <3> QED
      BY <2>12, <3>1, <3>3, <3>4 DEF ScanSettles, Written, TypeOK
  <2> QED
    BY <1>3, <2>1, <2>2, <2>3, <2>4, <2>5, <2>6, <2>7, <2>8, <2>9, <2>10, <2>11, <2>12
    DEF FlowStep
<1>4. CASE StreamUp
  BY <1>4 DEF StreamUp, OpenNow, TypeOK, RowsTypeOK
<1>5. CASE StreamLost
  BY <1>5 DEF StreamLost, StreamDown, TypeOK, RowsTypeOK
<1>6. CASE JwtInvalid
  BY <1>6 DEF JwtInvalid, TypeOK, RowsTypeOK
<1>7. CASE HandleSyncEnd
  <2>1. flow' \in [Flow -> FlowState]
    BY <1>7, StartScanType DEF HandleSyncEnd, TypeOK
  <2> QED
    BY <1>7, <2>1 DEF HandleSyncEnd, TypeOK, RowsTypeOK
<1>8. CASE TickStarts
  BY <1>8 DEF TickStarts, TypeOK, RowsTypeOK
<1>9. CASE TickEnds
  BY <1>9 DEF TickEnds, TypeOK, RowsTypeOK
<1>10. CASE TickScans
  <2>1. flow' \in [Flow -> FlowState]
    BY <1>10, StartScanType DEF TickScans, TypeOK
  <2> QED
    BY <1>10, <2>1 DEF TickScans, TypeOK, RowsTypeOK
<1>11. CASE TickChangesSession
  <2>1. \A s \in 0..MaxSession : BecomeSession(s) =>
          /\ sessions' \in 0..MaxSession /\ live' \in 0..MaxSession
          /\ pending' \in [Position -> Entry]
    BY EntryType DEF BecomeSession, TypeOK
  <2>2. 0 \in 0..MaxSession /\ (sessions < MaxSession => sessions + 1 \in 0..MaxSession)
    BY Assumptions DEF Assumptions, TypeOK
  <2> QED
    BY <1>11, <2>1, <2>2 DEF TickChangesSession, BecomeSession, StreamDown, TypeOK, RowsTypeOK
<1>12. CASE Restart
  <2>1. sessions + 1 \in 0..MaxSession
    BY <1>12, Assumptions DEF Assumptions, Restart, TypeOK
  <2>2. /\ chain' \in [Position -> Seq(WriteOp)]
        /\ reply' \in [Position -> {"none", "ok", "err"}]
        /\ pending' \in [Position -> Entry] /\ flow' \in [Flow -> FlowState]
    BY <1>12, EntryType, IdleType DEF Restart
  <2> QED
    BY <1>12, <2>1, <2>2 DEF Restart, StreamDown, TypeOK, RowsTypeOK
<1> QED
  BY <1>1, <1>2, <1>3, <1>4, <1>5, <1>6, <1>7, <1>8, <1>9, <1>10, <1>11, <1>12 DEF Next

-----------------------------------------------------------------------------
(* Which actions touch what.                                               *)

LEMMA RowFrame == [Next]_vars => UNCHANGED row \/ \E p \in Position : DatabaseLands(p)
BY DEF Next, PositionStep, FlowStep, vars, rowVars, broker, wire, session, memory, told,
       BrokerOpen, BrokerModify, BrokerClose, Publish, HandlePosition, HandleAccountStatus,
       HandleClose, DatabaseFails, WriteFails, StreamWriteSettles, Settle, Retry,
       FetchAnswered, FinalizeThrows, FinalizeMisses, FinalizeMatches, FinalizeSettles, Written,
       ScanLoggedIn, PrimeRead, PrimeApplied, ScanThrows, ScanWrites, ScanEnds, ScanSettles,
       StreamUp, StreamLost, JwtInvalid, HandleSyncEnd, TickStarts, TickEnds, TickScans,
       TickChangesSession, Restart

LEMMA FlowFrame ==
  [Next]_vars =>
    \/ UNCHANGED flow
    \/ \E f \in Flow : FlowStep(f)
    \/ \E p \in Position : HandleClose(p) \/ Retry(p)
    \/ HandleSyncEnd \/ TickScans \/ Restart
BY DEF Next, PositionStep, vars, rowVars, broker, wire, session, memory, told,
       BrokerOpen, BrokerModify, BrokerClose, Publish, HandlePosition, HandleAccountStatus,
       DatabaseLands, DatabaseFails, StreamWriteSettles,
       StreamUp, StreamLost, JwtInvalid, TickStarts, TickEnds, TickChangesSession
LEMMA SeenFrame ==
  [Next]_vars =>
    \/ closedSeen' \subseteq closedSeen
    \/ \E f \in Flow : FinalizeSettles(f) \/ ScanSettles(f) \/ PrimeApplied(f)
BY DEF Next, PositionStep, FlowStep, vars, rowVars, broker, wire, session, memory, told,
       BrokerOpen, BrokerModify, BrokerClose, Publish, HandlePosition, HandleAccountStatus,
       HandleClose, DatabaseLands, DatabaseFails, StreamWriteSettles, Retry,
       FetchAnswered, FinalizeThrows, FinalizeMisses, FinalizeMatches,
       ScanLoggedIn, PrimeRead, ScanThrows, ScanWrites, ScanEnds,
       StreamUp, StreamLost, JwtInvalid, HandleSyncEnd, TickStarts, TickEnds, TickScans,
       TickChangesSession, Restart

LEMMA ClosedAtFrame == [Next]_vars => UNCHANGED closedAt \/ \E p \in Position : BrokerClose(p)
BY DEF Next, PositionStep, FlowStep, vars, rowVars, broker, wire, session, memory, told,
       BrokerOpen, BrokerModify, Publish, HandlePosition, HandleAccountStatus,
       HandleClose, DatabaseLands, DatabaseFails, StreamWriteSettles, Retry,
       FetchAnswered, FinalizeThrows, FinalizeMisses, FinalizeMatches, FinalizeSettles, Written,
       ScanLoggedIn, PrimeRead, PrimeApplied, ScanThrows, ScanWrites, ScanEnds, ScanSettles,
       StreamUp, StreamLost, JwtInvalid, HandleSyncEnd, TickStarts, TickEnds, TickScans,
       TickChangesSession, Restart

LEMMA ToldFrame ==
  [Next]_vars => UNCHANGED closeTold \/ \E f \in Flow : FinalizeSettles(f)
BY DEF Next, PositionStep, FlowStep, vars, rowVars, broker, wire, session, memory, told,
       BrokerOpen, BrokerModify, BrokerClose, Publish, HandlePosition, HandleAccountStatus,
       HandleClose, DatabaseLands, DatabaseFails, StreamWriteSettles, Retry,
       FetchAnswered, FinalizeThrows, FinalizeMisses, FinalizeMatches,
       ScanLoggedIn, PrimeRead, PrimeApplied, ScanThrows, ScanWrites, ScanEnds, ScanSettles, Written,
       StreamUp, StreamLost, JwtInvalid, HandleSyncEnd, TickStarts, TickEnds, TickScans,
       TickChangesSession, Restart

\* The broker closes a position once.
LEMMA ClosedAtStep ==
  ASSUME TypeOK, [Next]_vars
  PROVE  \A p \in Position : closedAt[p] > 0 => closedAt'[p] = closedAt[p]
<1>1. ASSUME NEW q \in Position, BrokerClose(q)
      PROVE  \A p \in Position : closedAt[p] > 0 => closedAt'[p] = closedAt[p]
  BY <1>1 DEF BrokerClose, IsOpen, TypeOK
<1> QED
  BY <1>1, ClosedAtFrame DEF TypeOK

\* A finalized row stays finalized, with its realized pnl.
LEMMA RowStep ==
  ASSUME TypeOK, BrokerSound, [Next]_vars
  PROVE  \A p \in Position : row[p].st = "closed"
           => row'[p].st = "closed" /\ row'[p].pnl = "realized"
<1>1. ASSUME NEW q \in Position, DatabaseLands(q)
      PROVE  \A p \in Position : row[p].st = "closed"
               => row'[p].st = "closed" /\ row'[p].pnl = "realized"
  <2>1. /\ row \in [Position -> Row]
        /\ row' = [row EXCEPT ![q] = Apply(Head(chain[q]).kind, row[q])]
    BY <1>1 DEF DatabaseLands, WriteLands, TypeOK, RowsTypeOK
  <2>2. row[q].st = "closed" => /\ Apply(Head(chain[q]).kind, row[q]).st = "closed"
                                /\ Apply(Head(chain[q]).kind, row[q]).pnl = "realized"
    BY DEF Apply, Opened, Closed, Unrealized, BrokerSound
  <2> QED
    BY <2>1, <2>2 DEF BrokerSound
<1> QED
  BY <1>1, RowFrame DEF BrokerSound

-----------------------------------------------------------------------------
(* Seen from the writer, a step of the manager is one of the writer's own, *)
(* or the restart that empties its chains.                                 *)

\* The writes the manager queues: a flow queues the finalization of a position the
\* broker has closed, the stream handlers queue the rest.
Owned(p, o) == (o.by # Nobody <=> o.kind = "close") /\ (o.kind = "close" => closedAt[p] > 0)

QueuesWrite ==
  \E p \in Position : \E o \in WriteOp :
    Owned(p, o) /\ Enqueue(p, o) /\ UNCHANGED <<row, reply>>
SettlesWrite == \E p \in Position : chain[p] # <<>> /\ Settle(p)
DatabaseStep == \E p \in Position : WriteLands(p) \/ WriteFails(p)

LEMMA WriterView ==
  ASSUME TypeOK, FlowShape, FlowRowsSound, [Next]_vars
  PROVE  UNCHANGED rowVars \/ QueuesWrite \/ SettlesWrite \/ DatabaseStep \/ Restart
<1> DEFINE Goal == UNCHANGED rowVars \/ QueuesWrite \/ SettlesWrite \/ DatabaseStep \/ Restart
<1>1. ASSUME NEW p \in Position, PositionStep(p) PROVE Goal
  <2>1. CASE HandlePosition(p)
    <3> DEFINE o == [kind |-> "open", by |-> Nobody, tell |-> Announced(p)]
    <3>1. o \in WriteOp /\ Owned(p, o)
      BY Assumptions DEF Assumptions, WriteOp, Announced, TypeOK, Owned
    <3> QED
      BY <2>1, <3>1 DEF HandlePosition, QueuesWrite
  <2>2. CASE HandleAccountStatus(p)
    <3> DEFINE o == [kind |-> "pnl", by |-> Nobody, tell |-> FALSE]
    <3>1. o \in WriteOp /\ Owned(p, o)
      BY Assumptions DEF Assumptions, WriteOp, Owned
    <3> QED
      BY <2>2, <3>1 DEF HandleAccountStatus, QueuesWrite
  <2>3. CASE StreamWriteSettles(p)
    BY <2>3 DEF StreamWriteSettles, SettlesWrite
  <2>4. CASE DatabaseLands(p) \/ DatabaseFails(p)
    BY <2>4 DEF DatabaseLands, DatabaseFails, DatabaseStep
  <2> QED
    BY <1>1, <2>1, <2>2, <2>3, <2>4
    DEF PositionStep, BrokerOpen, BrokerModify, BrokerClose, Publish, HandleClose, Retry
<1>2. ASSUME NEW f \in Flow, FlowStep(f) PROVE Goal
  <2> DEFINE q == flow[f].pos
             o == [kind |-> "close", by |-> f, tell |-> FALSE]
  <2>0. /\ Finalizes(f) => q \in Position /\ flow[f].rows \subseteq {q}
        /\ flow[f].by = "scan" /\ flow[f].pc = "write" => q \in Position
        /\ flow[f].pc = "got" => \A r \in flow[f].rows : closedAt[r] > 0
        /\ o \in WriteOp /\ f # Nobody
    BY Assumptions DEF Assumptions, FlowShape, ShapeOf, Finalizes, FlowRowsSound, RowsSoundOf,
                       WriteOp
  <2>1. CASE FinalizeMatches(f)
    <3>1. q \in Position /\ Owned(q, o)
      BY <2>0, <2>1 DEF FinalizeMatches, Owned
    <3> QED
      BY <2>0, <2>1, <3>1 DEF FinalizeMatches, QueuesWrite
  <2>2. ASSUME NEW p \in Position, ScanWrites(f, p) PROVE Goal
    <3>1. Owned(p, o)
      BY <2>0, <2>2 DEF ScanWrites, ToWrite, Owned
    <3> QED
      BY <2>0, <2>2, <3>1 DEF ScanWrites, QueuesWrite
  <2>3. CASE FinalizeSettles(f) \/ ScanSettles(f)
    BY <2>0, <2>3 DEF FinalizeSettles, Written, ScanSettles, SettlesWrite
  <2> QED
    BY <1>2, <2>1, <2>2, <2>3
    DEF FlowStep, FetchAnswered, FinalizeThrows, FinalizeMisses, ScanLoggedIn, PrimeRead,
        PrimeApplied, ScanThrows, ScanEnds
<1> QED
  BY <1>1, <1>2
  DEF Next, vars, StreamUp, StreamLost, JwtInvalid, HandleSyncEnd, TickStarts, TickEnds,
      TickScans, TickChangesSession

\* Replies belong to queued writes, and an acknowledged close is in the table.
LEMMA RepliesStep ==
  ASSUME TypeOK, FlowShape, FlowRowsSound, BrokerSound, RepliesSound, [Next]_vars
  PROVE  RepliesSound'
<1>0. RowsTypeOK /\ \A p \in Position : row[p].st = "closed" => row'[p].st = "closed"
  BY RowStep DEF TypeOK
<1>1. CASE UNCHANGED rowVars
  BY <1>1 DEF rowVars, RepliesSound
<1>2. CASE QueuesWrite
  <2> PICK q \in Position, o \in WriteOp : Enqueue(q, o) /\ UNCHANGED <<row, reply>>
    BY <1>2 DEF QueuesWrite
  <2>1. chain[q] \in Seq(WriteOp)
    BY <1>0 DEF RowsTypeOK
  <2>2. /\ Append(chain[q], o) # <<>>
        /\ chain[q] # <<>> => Head(Append(chain[q], o)) = Head(chain[q])
    BY <2>1, AppendProperties, HeadTailProperties
  <2> QED
    BY <1>0, <2>2 DEF Enqueue, RepliesSound, RowsTypeOK
<1>3. CASE SettlesWrite
  BY <1>0, <1>3 DEF SettlesWrite, Settle, RepliesSound, RowsTypeOK
<1>4. ASSUME NEW q \in Position, WriteLands(q) PROVE RepliesSound'
  <2>1. Head(chain[q]).kind = "close" => row'[q].st = "closed"
    BY <1>0, <1>4 DEF WriteLands, Apply, Closed, RowsTypeOK
  <2> QED
    BY <1>0, <1>4, <2>1 DEF WriteLands, RepliesSound, RowsTypeOK
<1>5. ASSUME NEW q \in Position, WriteFails(q) PROVE RepliesSound'
  BY <1>0, <1>5 DEF WriteFails, RepliesSound, RowsTypeOK
<1>6. CASE Restart
  BY <1>6 DEF Restart, RepliesSound
<1> QED
  BY <1>1, <1>2, <1>3, <1>4, <1>5, <1>6, WriterView DEF DatabaseStep

\* A flow has nothing but finalizations on the chains.
LEMMA FlowWritesStep ==
  ASSUME TypeOK, FlowShape, FlowRowsSound, FlowWritesClose, [Next]_vars
  PROVE  FlowWritesClose'
<1>0. RowsTypeOK /\ \A p \in Position : closedAt[p] > 0 => closedAt'[p] > 0
  BY ClosedAtStep DEF TypeOK
<1>1. CASE UNCHANGED rowVars \/ DatabaseStep
  <2>1. UNCHANGED chain
    BY <1>1 DEF rowVars, DatabaseStep, WriteLands, WriteFails
  <2> QED
    BY <1>0, <2>1 DEF FlowWritesClose
<1>2. CASE QueuesWrite
  <2> PICK q \in Position, o \in WriteOp : Owned(q, o) /\ Enqueue(q, o)
    BY <1>2 DEF QueuesWrite
  <2>1. \A i \in 1..Len(Append(chain[q], o)) :
          \/ i \in 1..Len(chain[q]) /\ Append(chain[q], o)[i] = chain[q][i]
          \/ Append(chain[q], o)[i] = o
    BY <1>0 DEF RowsTypeOK
  <2> QED
    BY <1>0, <2>1 DEF Enqueue, Owned, FlowWritesClose, RowsTypeOK
<1>3. CASE SettlesWrite
  <2> PICK q \in Position : chain[q] # <<>> /\ Settle(q)
    BY <1>3 DEF SettlesWrite
  <2>1. \A i \in 1..Len(Tail(chain[q])) :
          i + 1 \in 1..Len(chain[q]) /\ Tail(chain[q])[i] = chain[q][i + 1]
    BY <1>0 DEF RowsTypeOK
  <2> QED
    BY <1>0, <2>1 DEF Settle, FlowWritesClose, RowsTypeOK
<1>4. CASE Restart
  BY <1>4 DEF Restart, FlowWritesClose
<1> QED
  BY <1>1, <1>2, <1>3, <1>4, WriterView

-----------------------------------------------------------------------------
(* The flows.                                                              *)

\* A flow that ends, moves on or starts keeps its shape.
LEMMA FlowShapeStep ==
  ASSUME TypeOK, FlowShape, [Next]_vars
  PROVE  FlowShape'
<1>0. flow \in [Flow -> FlowState] /\ ShapeOf(Idle)
  BY DEF TypeOK, ShapeOf, Idle
<1>1. CASE UNCHANGED flow
  BY <1>1 DEF FlowShape
<1>2. ASSUME NEW f \in Flow, FlowStep(f) PROVE FlowShape'
  <2>0. ShapeOf(flow[f]) /\ (flow[f].by = "none" => flow[f].pc = "idle")
        /\ flow[f].by \in {"none", "close", "retry", "scan"}
    BY <1>0 DEF FlowShape, ShapeOf, Idle, FlowState
  <2>1. SUFFICES ShapeOf(flow'[f]) /\ \A g \in Flow : g # f => flow'[g] = flow[g]
    BY DEF FlowShape
  <2>2. CASE FetchAnswered(f)
    BY <1>0, <2>0, <2>2 DEF FetchAnswered, Move, ShapeOf, Finalizes
  <2>3. CASE FinalizeMatches(f)
    BY <1>0, <2>0, <2>3 DEF FinalizeMatches, Move, ShapeOf, Finalizes
  <2>4. CASE ScanLoggedIn(f) \/ PrimeRead(f) \/ PrimeApplied(f)
    BY <1>0, <2>0, <2>4 DEF ScanLoggedIn, PrimeRead, PrimeApplied, Move, ShapeOf
  <2>5. ASSUME NEW p \in Position, ScanWrites(f, p)
        PROVE  ShapeOf(flow'[f]) /\ \A g \in Flow : g # f => flow'[g] = flow[g]
    BY <1>0, <2>0, <2>5 DEF ScanWrites, Move, ShapeOf
  <2>6. CASE ScanSettles(f)
    BY <1>0, <2>0, <2>6 DEF ScanSettles, Written, Move, End, ShapeOf
  <2>7. CASE End(f)
    BY <1>0, <2>7 DEF End
  <2> QED
    BY <1>2, <2>2, <2>3, <2>4, <2>5, <2>6, <2>7
    DEF FlowStep, FinalizeThrows, FinalizeMisses, FinalizeSettles, Written, ScanThrows, ScanEnds
<1>3. ASSUME NEW f \in Flow, NEW by \in {"close", "retry"}, NEW p \in Position, NEW s,
             StartFinalize(f, by, p, s)
      PROVE  FlowShape'
  BY <1>0, <1>3 DEF StartFinalize, FlowShape, ShapeOf
<1>4. ASSUME NEW f \in Flow, NEW pages, StartScan(f, pages) PROVE FlowShape'
  BY <1>0, <1>4 DEF StartScan, FlowShape, ShapeOf
<1>5. CASE Restart
  BY <1>0, <1>5 DEF Restart, FlowShape
<1>6. ASSUME NEW p \in Position, HandleClose(p) \/ Retry(p) PROVE FlowShape'
  BY <1>1, <1>3, <1>6 DEF HandleClose, Retry
<1> QED
  BY <1>1, <1>2, <1>4, <1>5, <1>6, FlowFrame DEF HandleSyncEnd, TickScans

\* The rows a flow holds stay closed, and new ones come from a sound source.
LEMMA FlowRowsStep ==
  ASSUME TypeOK, FlowShape, FlowRowsSound, BrokerSound, [Next]_vars
  PROVE  FlowRowsSound'
<1>0. /\ flow \in [Flow -> FlowState]
      /\ \A p \in Position : row[p].st = "closed" => row'[p].st = "closed"
      /\ \A p \in Position : closedAt[p] > 0 => closedAt'[p] > 0
  BY RowStep, ClosedAtStep DEF TypeOK
<1>1. ASSUME NEW g \in Flow, flow'[g] = flow[g] PROVE RowsSoundOf(flow[g])'
  BY <1>0, <1>1 DEF FlowRowsSound, RowsSoundOf, FlowState
<1>2. CASE UNCHANGED flow
  BY <1>1, <1>2 DEF FlowRowsSound
<1>3. ASSUME NEW f \in Flow, FlowStep(f) PROVE FlowRowsSound'
  <2>1. SUFFICES RowsSoundOf(flow[f])' /\ \A g \in Flow : g # f => flow'[g] = flow[g]
    BY <1>1 DEF FlowRowsSound
  <2>2. flow[f].rows \subseteq Position /\ RowsSoundOf(flow[f])
    BY <1>0 DEF FlowState, FlowRowsSound
  <2>3. CASE FetchAnswered(f)
    <3>1. \A pages : \A p \in Report(pages) : closedAt[p] > 0 /\ p \in Position
      BY DEF Report, BrokerSound, TypeOK
    <3> QED
      BY <1>0, <2>3, <3>1 DEF FetchAnswered, Move, RowsSoundOf
  <2>4. CASE FinalizeMatches(f)
    BY <1>0, <2>4 DEF FinalizeMatches, Move, RowsSoundOf
  <2>5. CASE ScanLoggedIn(f) \/ PrimeApplied(f)
    BY <1>0, <2>5 DEF ScanLoggedIn, PrimeApplied, Move, RowsSoundOf
  <2>6. CASE PrimeRead(f)
    BY <1>0, <2>6 DEF PrimeRead, PrimedRows, Move, RowsSoundOf
  <2>7. ASSUME NEW p \in Position, ScanWrites(f, p)
        PROVE  RowsSoundOf(flow[f])' /\ \A g \in Flow : g # f => flow'[g] = flow[g]
    BY <1>0, <2>2, <2>7 DEF ScanWrites, Move, RowsSoundOf
  <2>8. CASE ScanSettles(f)
    BY <1>0, <2>2, <2>8 DEF ScanSettles, Written, Move, End, Idle, RowsSoundOf
  <2>9. CASE End(f)
    BY <1>0, <2>9 DEF End, Idle, RowsSoundOf
  <2> QED
    BY <1>3, <2>3, <2>4, <2>5, <2>6, <2>7, <2>8, <2>9
    DEF FlowStep, FinalizeThrows, FinalizeMisses, FinalizeSettles, Written, ScanThrows, ScanEnds
<1>4. ASSUME NEW f \in Flow, NEW by, NEW p, NEW s, StartFinalize(f, by, p, s)
      PROVE  FlowRowsSound'
  BY <1>0, <1>1, <1>4 DEF StartFinalize, FlowRowsSound, RowsSoundOf
<1>5. ASSUME NEW f \in Flow, NEW pages, StartScan(f, pages) PROVE FlowRowsSound'
  BY <1>0, <1>1, <1>5 DEF StartScan, FlowRowsSound, RowsSoundOf
<1>6. CASE Restart
  BY <1>6 DEF Restart, Idle, FlowRowsSound, RowsSoundOf
<1>7. ASSUME NEW p \in Position, HandleClose(p) \/ Retry(p) PROVE FlowRowsSound'
  BY <1>2, <1>4, <1>7 DEF HandleClose, Retry
<1> QED
  BY <1>2, <1>3, <1>5, <1>6, <1>7, FlowFrame DEF HandleSyncEnd, TickScans

\* A reply a flow waits for, when it is "ok", is of a close that is in the table.
LEMMA SettledIsClosed ==
  ASSUME TypeOK, RepliesSound, FlowWritesClose, NEW p \in Position,
         chain[p] # <<>>, Head(chain[p]).by # Nobody
  PROVE  closedAt[p] > 0 /\ (reply[p] = "ok" => row[p].st = "closed")
<1>1. 1 \in 1..Len(chain[p]) /\ Head(chain[p]) = chain[p][1]
  BY DEF TypeOK, RowsTypeOK
<1> QED
  BY <1>1 DEF RepliesSound, FlowWritesClose

\* closedSeen grows by finalized rows only.
LEMMA SeenStep ==
  ASSUME TypeOK, FlowShape, FlowRowsSound, BrokerSound, RepliesSound, FlowWritesClose,
         SeenIsClosed, [Next]_vars
  PROVE  SeenIsClosed'
<1>0. /\ closedSeen \subseteq Position
      /\ \A p \in Position : row[p].st = "closed" => row'[p].st = "closed"
  BY RowStep DEF TypeOK
<1>1. CASE closedSeen' \subseteq closedSeen
  BY <1>0, <1>1 DEF SeenIsClosed
<1>2. ASSUME NEW f \in Flow, FinalizeSettles(f) \/ ScanSettles(f) PROVE SeenIsClosed'
  <2> DEFINE q == flow[f].pos
  <2>1. q \in Position /\ chain[q] # <<>> /\ Head(chain[q]).by # Nobody
    BY <1>2, Assumptions DEF Assumptions, FinalizeSettles, Written, ScanSettles, FlowShape, ShapeOf,
                             Finalizes
  <2>2. \/ closedSeen' = closedSeen
        \/ closedSeen' = closedSeen \cup {q} /\ reply[q] = "ok"
    BY <1>2 DEF FinalizeSettles, Written, ScanSettles
  <2> QED
    BY <1>0, <2>1, <2>2, SettledIsClosed DEF SeenIsClosed
<1>3. ASSUME NEW f \in Flow, PrimeApplied(f) PROVE SeenIsClosed'
  <2>1. flow[f].rows \subseteq Position /\ \A p \in flow[f].rows : row[p].st = "closed"
    BY <1>3 DEF PrimeApplied, FlowRowsSound, RowsSoundOf, TypeOK, FlowState
  <2> QED
    BY <1>0, <1>3, <2>1 DEF PrimeApplied, SeenIsClosed
<1> QED
  BY <1>1, <1>2, <1>3, SeenFrame

\* Only a close write closes a row, and it is of a closed position.
LEMMA BrokerStep ==
  ASSUME TypeOK, BrokerSound, FlowWritesClose, [Next]_vars
  PROVE  BrokerSound'
<1>0. /\ \A p \in Position : row[p].st = "closed"
           => row'[p].st = "closed" /\ row'[p].pnl = "realized"
      /\ \A p \in Position : closedAt[p] > 0 => closedAt'[p] > 0
  BY RowStep, ClosedAtStep
<1>1. \A p \in published' : closedAt'[p] > 0
  <2>1. published' \subseteq published \/ \E q \in Position : Publish(q)
    BY DEF Next, PositionStep, FlowStep, vars, rowVars, broker, wire, session, memory, told,
       BrokerOpen, BrokerModify, BrokerClose, HandlePosition, HandleAccountStatus,
       HandleClose, DatabaseLands, DatabaseFails, StreamWriteSettles, Retry,
       FetchAnswered, FinalizeThrows, FinalizeMisses, FinalizeMatches, FinalizeSettles, Written,
       ScanLoggedIn, PrimeRead, PrimeApplied, ScanThrows, ScanWrites, ScanEnds, ScanSettles,
       StreamUp, StreamLost, JwtInvalid, HandleSyncEnd, TickStarts, TickEnds, TickScans,
       TickChangesSession, Restart
  <2> QED
    BY <1>0, <2>1 DEF Publish, BrokerSound, TypeOK
<1>2. \A p \in Position : row'[p].st = "closed"
        => closedAt'[p] > 0 /\ row'[p].pnl = "realized"
  <2>1. CASE UNCHANGED row
    BY <1>0, <2>1 DEF BrokerSound
  <2>2. ASSUME NEW q \in Position, DatabaseLands(q)
        PROVE  \A p \in Position : row'[p].st = "closed"
                 => closedAt'[p] > 0 /\ row'[p].pnl = "realized"
    <3> DEFINE k == Head(chain[q]).kind
    <3>1. /\ row \in [Position -> Row]
          /\ row' = [row EXCEPT ![q] = Apply(k, row[q])]
          /\ chain[q] # <<>> /\ chain[q] \in Seq(WriteOp)
      BY <2>2 DEF DatabaseLands, WriteLands, TypeOK, RowsTypeOK
    <3>2. k = "close" => closedAt[q] > 0
      <4>1. 1 \in 1..Len(chain[q]) /\ Head(chain[q]) = chain[q][1]
        BY <3>1
      <4> QED
        BY <4>1 DEF FlowWritesClose
    <3>3. row[q].st # "closed" /\ Apply(k, row[q]).st = "closed"
            => k = "close" /\ Apply(k, row[q]).pnl = "realized"
      BY <3>1 DEF Apply, Opened, Closed, Unrealized, Row
    <3> QED
      BY <1>0, <3>1, <3>2, <3>3 DEF BrokerSound
  <2> QED
    BY <2>1, <2>2, RowFrame
<1> QED
  BY <1>1, <1>2 DEF BrokerSound

-----------------------------------------------------------------------------
(* Claims: the only ways a step treats the finalizing set and its flows.   *)

FinalizeStarts ==
  \E f \in Flow, by \in {"close", "retry"}, p \in Position, s \in 0..MaxSession :
    p \notin finalizing /\ p \notin closedSeen /\ StartFinalize(f, by, p, s)
FinalizeEnds ==
  \E f \in Flow : Finalizes(f) /\ End(f) /\ finalizing' = Released(flow[f].pos)
\* Flow f goes on: as a finalize of the same position, or as none.
GoesOn(f) ==
  /\ UNCHANGED finalizing
  /\ \A g \in Flow : g # f => flow'[g] = flow[g]
  /\ Finalizes(f)' <=> Finalizes(f)
  /\ Finalizes(f) => flow'[f].pos = flow[f].pos

FinalizeReturns(f) == FinalizeThrows(f) \/ FinalizeMisses(f) \/ FinalizeSettles(f)

LEMMA FlowView ==
  ASSUME TypeOK, FlowShape, NEW f \in Flow, FlowStep(f)
  PROVE  FinalizeReturns(f) \/ GoesOn(f)
<1>0. /\ flow \in [Flow -> FlowState]
      /\ flow[f].by = "none" => flow[f].pc = "idle"
  BY DEF TypeOK, FlowShape, ShapeOf, Idle
<1>1. CASE FetchAnswered(f)
  BY <1>0, <1>1 DEF FetchAnswered, GoesOn, Move, Finalizes, memory
<1>2. CASE FinalizeMatches(f)
  BY <1>0, <1>2 DEF FinalizeMatches, GoesOn, Move, Finalizes, memory
<1>3. ASSUME ~Finalizes(f), UNCHANGED finalizing,
             \/ End(f)
             \/ \E pc, pos, rows : flow[f].by = "scan" /\ Move(f, pc, pos, rows)
      PROVE  GoesOn(f)
  BY <1>0, <1>3 DEF GoesOn, Move, End, Idle, Finalizes
<1>4. (flow[f].pc \in {"login", "query", "queried"} \/ flow[f].by = "scan") => ~Finalizes(f)
  BY DEF FlowShape, ShapeOf, Finalizes
<1>5. flow[f].pc \in {"login", "query", "queried"} => flow[f].by = "scan"
  BY <1>0, <1>4 DEF FlowState, Finalizes
<1>6. CASE ScanLoggedIn(f) \/ PrimeRead(f) \/ PrimeApplied(f)
  BY <1>3, <1>4, <1>5, <1>6 DEF ScanLoggedIn, PrimeRead, PrimeApplied, memory
<1>7. CASE ScanThrows(f) \/ ScanEnds(f) \/ ScanSettles(f)
  BY <1>3, <1>4, <1>7 DEF ScanThrows, ScanEnds, ScanSettles, Written, memory
<1>8. CASE \E p \in Position : ScanWrites(f, p)
  BY <1>3, <1>4, <1>8 DEF ScanWrites, memory
<1> QED
  BY <1>1, <1>2, <1>6, <1>7, <1>8 DEF FlowStep, FinalizeReturns

LEMMA ScanStartView ==
  ASSUME TypeOK, NEW f \in Flow, NEW pages, StartScan(f, pages), UNCHANGED finalizing
  PROVE  GoesOn(f)
BY DEF TypeOK, StartScan, GoesOn, Free, Idle, Finalizes

LEMMA ClaimView ==
  ASSUME TypeOK, FlowShape, [Next]_vars
  PROVE  \/ UNCHANGED <<flow, finalizing>>
         \/ FinalizeStarts \/ FinalizeEnds \/ Restart
         \/ \E f \in Flow : GoesOn(f)
<1> DEFINE Goal == \/ UNCHANGED <<flow, finalizing>>
                   \/ FinalizeStarts \/ FinalizeEnds \/ Restart
                   \/ \E f \in Flow : GoesOn(f)
<1>0. flow \in [Flow -> FlowState] /\ live \in 0..MaxSession /\ 0 \in 0..MaxSession
  BY Assumptions DEF Assumptions, TypeOK
<1>1. ASSUME NEW f \in Flow, FlowStep(f) PROVE Goal
  <2>1. CASE FinalizeReturns(f)
    BY <2>1 DEF FinalizeReturns, FinalizeThrows, FinalizeMisses, FinalizeSettles, Written, FinalizeEnds
  <2> QED
    BY <1>1, <2>1, FlowView
<1>3. CASE HandleSyncEnd \/ TickScans
  BY <1>3, ScanStartView DEF HandleSyncEnd, TickScans, memory
<1>4. ASSUME NEW p \in Position, PositionStep(p) PROVE Goal
  <2>1. CASE HandleClose(p)
    BY <1>0, <2>1 DEF HandleClose, MayFinalize, FinalizeStarts
  <2>2. CASE Retry(p)
    BY <1>0, <2>2 DEF Retry, MayFinalize, FinalizeStarts
  <2> QED
    BY <1>4, <2>1, <2>2
    DEF PositionStep, memory, BrokerOpen, BrokerModify, BrokerClose, Publish, HandlePosition,
        HandleAccountStatus, DatabaseLands, DatabaseFails, StreamWriteSettles
<1> QED
  BY <1>1, <1>3, <1>4
  DEF Next, vars, memory, StreamUp, StreamLost, JwtInvalid, TickStarts, TickEnds,
      TickChangesSession

\* One finalize per position, and the claims are theirs.
LEMMA ClaimStep ==
  ASSUME TypeOK, FlowShape, OneFinalize, ClaimsMatchFlows, [Next]_vars
  PROVE  OneFinalize' /\ ClaimsMatchFlows'
<1> DEFINE Held(p) == \E f \in Flow : Finalizes(f) /\ flow[f].pos = p
<1>0. flow \in [Flow -> FlowState] /\ \A p : p \in finalizing <=> Held(p)
  BY DEF TypeOK, ClaimsMatchFlows
<1>1. SUFFICES OneFinalize' /\ \A p : p \in finalizing' <=> Held(p)'
  BY DEF ClaimsMatchFlows
<1>2. CASE UNCHANGED <<flow, finalizing>>
  BY <1>0, <1>2 DEF OneFinalize, Finalizes
<1>3. CASE FinalizeStarts
  <2> PICK f \in Flow, by \in {"close", "retry"}, p \in Position, s \in 0..MaxSession :
             p \notin finalizing /\ StartFinalize(f, by, p, s)
    BY <1>3 DEF FinalizeStarts
  <2>1. /\ flow'[f].by = by /\ flow'[f].pos = p /\ ~Finalizes(f)
        /\ \A g \in Flow : g # f => flow'[g] = flow[g]
        /\ finalizing' = finalizing \cup {p}
    BY <1>0 DEF StartFinalize, Free, Idle, Finalizes
  <2> QED
    BY <1>0, <2>1 DEF OneFinalize, Finalizes
<1>4. CASE FinalizeEnds
  <2> PICK f \in Flow : Finalizes(f) /\ End(f) /\ finalizing' = Released(flow[f].pos)
    BY <1>4 DEF FinalizeEnds
  <2>1. /\ ~Finalizes(f)' /\ \A g \in Flow : g # f => flow'[g] = flow[g]
        /\ finalizing' = finalizing \ {flow[f].pos}
    BY <1>0 DEF End, Idle, Finalizes, Released
  <2> QED
    BY <1>0, <2>1 DEF OneFinalize, Finalizes
<1>5. ASSUME NEW f \in Flow, GoesOn(f)
      PROVE  OneFinalize' /\ \A p : p \in finalizing' <=> Held(p)'
  <2>1. \A g \in Flow : /\ Finalizes(g)' <=> Finalizes(g)
                        /\ Finalizes(g) => flow'[g].pos = flow[g].pos
    BY <1>5 DEF GoesOn, Finalizes
  <2> QED
    BY <1>0, <1>5, <2>1 DEF GoesOn, OneFinalize
<1>6. CASE Restart
  <2>1. \A g \in Flow : ~Finalizes(g)'
    BY <1>6 DEF Restart, Idle, Finalizes
  <2> QED
    BY <1>6, <2>1 DEF Restart, OneFinalize
<1> QED
  BY <1>2, <1>3, <1>4, <1>5, <1>6, ClaimView

-----------------------------------------------------------------------------
(* Announcements.                                                          *)

\* A position nothing could finalize any more: no finalize of it is in flight, and
\* unless closedSeen shields it no event or pending entry of it is left.
Over(p) ==
  /\ \A f \in Flow : Finalizes(f) => flow[f].pos # p
  /\ p \notin closedSeen => p \notin closes /\ pending[p] = NoEntry

LEMMA OverStep ==
  ASSUME TypeOK, FlowShape, OfflineNoToken, [Next]_vars,
         NEW p \in Position, closedAt[p] > 0, Over(p)
  PROVE  Over(p)'
<1>0. /\ flow \in [Flow -> FlowState] /\ pending \in [Position -> Entry]
      /\ closes \subseteq Position
  BY DEF TypeOK
<1>1. CASE UNCHANGED vars
  BY <1>1 DEF vars, memory, wire, Over, Finalizes
<1>2. ASSUME NEW q \in Position, PositionStep(q) PROVE Over(p)'
  <2>1. CASE BrokerClose(q)
    BY <2>1 DEF BrokerClose, IsOpen, memory, Over, Finalizes
  <2>2. CASE HandleClose(q)
    BY <1>0, <2>2
    DEF HandleClose, MayFinalize, StartFinalize, Forget, Requeue, Over, Finalizes
  <2>3. CASE Retry(q)
    <3>1. q \notin closedSeen /\ pending[q].sess = live /\ token => q # p
      BY Assumptions DEF Assumptions, OfflineNoToken, Over, NoEntry, TypeOK
    <3> QED
      BY <1>0, <2>3, <3>1
      DEF Retry, MayFinalize, StartFinalize, Forget, wire, Over, Finalizes
  <2> QED
    BY <1>2, <2>1, <2>2, <2>3
    DEF PositionStep, memory, wire, BrokerOpen, BrokerModify, Publish, HandlePosition,
        HandleAccountStatus, DatabaseLands, DatabaseFails, StreamWriteSettles, Over, Finalizes
<1>3. ASSUME NEW f \in Flow, GoesOn(f), closes' \in {closes, {}}, closedSeen \subseteq closedSeen',
             pending' = pending \/ \E q : Forget(q)
      PROVE  Over(p)'
  BY <1>0, <1>3 DEF GoesOn, Forget, Over, Finalizes
<1>4. ASSUME NEW f \in Flow, FlowStep(f) PROVE Over(p)'
  <2>1. CASE FinalizeReturns(f)
    <3>1. Finalizes(f) /\ flow[f].pos # p /\ End(f) /\ UNCHANGED closes
      BY <2>1 DEF FinalizeReturns, FinalizeThrows, FinalizeMisses, FinalizeSettles, Written, wire, Over
    <3>2. pending'[p] = pending[p] /\ closedSeen \subseteq closedSeen'
      BY <1>0, <2>1, <3>1 DEF FinalizeReturns, FinalizeThrows, FinalizeMisses,
                              FinalizeSettles, Written, Charge, Requeue, Forget
    <3> QED
      BY <1>0, <3>1, <3>2 DEF End, Idle, Over, Finalizes
  <2>2. CASE GoesOn(f) /\ ~FinalizeReturns(f)
    <3>1. /\ UNCHANGED closes /\ closedSeen \subseteq closedSeen'
          /\ pending' = pending \/ \E q : Forget(q)
      BY <1>4, <2>2
      DEF FlowStep, FinalizeReturns, memory, wire, FetchAnswered, FinalizeMatches,
          ScanLoggedIn, PrimeRead, PrimeApplied, ScanThrows, ScanWrites, ScanEnds, ScanSettles, Written
    <3> QED
      BY <1>3, <2>2, <3>1
  <2> QED
    BY <1>4, <2>1, <2>2, FlowView
<1>5. CASE HandleSyncEnd \/ TickScans
  <2>1. PICK f \in Flow : GoesOn(f)
    BY <1>5, ScanStartView DEF HandleSyncEnd, TickScans, memory
  <2>2. UNCHANGED <<closes, closedSeen, pending>>
    BY <1>5 DEF HandleSyncEnd, TickScans, wire, memory
  <2> QED
    BY <1>3, <2>1, <2>2
<1>6. CASE TickChangesSession
  <2>1. UNCHANGED <<flow, closedSeen>> /\ closes' = {} /\ pending'[p] \in {pending[p], NoEntry}
    BY <1>6 DEF TickChangesSession, BecomeSession, StreamDown
  <2> QED
    BY <2>1 DEF Over, Finalizes
<1>7. CASE Restart
  BY <1>7 DEF Restart, StreamDown, Idle, Over, Finalizes
<1> QED
  BY <1>1, <1>2, <1>4, <1>5, <1>6, <1>7
  DEF Next, memory, wire, StreamUp, StreamLost, StreamDown, JwtInvalid, TickStarts, TickEnds,
      Over, Finalizes

\* An announced close is over, and so it is announced once.
LEMMA ToldStep ==
  ASSUME TypeOK, FlowShape, OneFinalize, ToldIsOver, OfflineNoToken, CloseToldOnce,
         BrokerSound, RepliesSound, FlowWritesClose, [Next]_vars
  PROVE  ToldIsOver' /\ CloseToldOnce'
<1>0. /\ closeTold \in [Position -> Nat] /\ flow \in [Flow -> FlowState]
      /\ \A p \in Position : row[p].st = "closed" => row'[p].st = "closed"
      /\ \A p \in Position : closedAt[p] > 0 => closedAt'[p] > 0
  BY RowStep, ClosedAtStep DEF TypeOK
<1>1. \A p \in Position : closeTold[p] > 0 =>
        closedAt'[p] > 0 /\ row'[p].st = "closed" /\ Over(p)'
  BY <1>0, OverStep DEF ToldIsOver, Over
<1>2. CASE UNCHANGED closeTold
  BY <1>1, <1>2 DEF ToldIsOver, CloseToldOnce, Over
<1>3. ASSUME NEW f \in Flow, FinalizeSettles(f) PROVE ToldIsOver' /\ CloseToldOnce'
  <2> PICK q \in Position : q = flow[f].pos
    BY <1>3 DEF FinalizeSettles, Written, FlowShape, ShapeOf, Finalizes
  <2>1. /\ chain[q] # <<>> /\ Head(chain[q]).by # Nobody /\ Finalizes(f)
        /\ reply[q] \in {"ok", "err"} /\ End(f)
        /\ reply[q] = "ok" => /\ closeTold' = [closeTold EXCEPT ![q] = @ + 1]
                             /\ closedSeen' = closedSeen \cup {q}
        /\ reply[q] # "ok" => UNCHANGED closeTold
    BY <1>3, Assumptions DEF Assumptions, FinalizeSettles, Written
  <2>2. closeTold[q] = 0
    BY <1>0, <2>1 DEF ToldIsOver
  <2>3. CASE reply[q] = "ok"
    <3>1. closedAt'[q] > 0 /\ row'[q].st = "closed"
      BY <1>0, <2>1, <2>3, SettledIsClosed
    <3>2. Over(q)'
      BY <1>0, <2>1, <2>3 DEF OneFinalize, End, Idle, Finalizes, Over
    <3>3. \A p \in Position : p # q => closeTold'[p] = closeTold[p]
      BY <1>0, <2>1, <2>3
    <3>4. closeTold'[q] = 1
      BY <1>0, <2>1, <2>2, <2>3
    <3> QED
      BY <1>1, <3>1, <3>2, <3>3, <3>4 DEF ToldIsOver, CloseToldOnce, Over
  <2> QED
    BY <1>2, <2>1, <2>3
<1> QED
  BY <1>2, <1>3, ToldFrame

-----------------------------------------------------------------------------
(* The session's token and the retry budget.                               *)

LEMMA TokenStep ==
  ASSUME TypeOK, OfflineNoToken, [Next]_vars
  PROVE  OfflineNoToken'
<1>1. \A p \in Position : PositionStep(p) => UNCHANGED <<live, token>>
  BY DEF PositionStep, session, BrokerOpen, BrokerModify, BrokerClose, Publish,
         HandlePosition, HandleAccountStatus, HandleClose, DatabaseLands, DatabaseFails,
         StreamWriteSettles, Retry
<1>2. \A f \in Flow : FlowStep(f) => UNCHANGED <<live, token>>
  BY DEF FlowStep, session, FetchAnswered, FinalizeThrows, FinalizeMisses, FinalizeMatches,
         FinalizeSettles, Written, ScanLoggedIn, PrimeRead, PrimeApplied, ScanThrows, ScanWrites,
         ScanEnds, ScanSettles
<1>3. CASE UNCHANGED <<live, token>>
  BY <1>3 DEF OfflineNoToken
<1>4. CASE UNCHANGED vars \/ StreamLost \/ HandleSyncEnd \/ TickStarts \/ TickEnds \/ TickScans
  BY <1>3, <1>4 DEF vars, session, StreamLost, HandleSyncEnd, TickStarts, TickEnds, TickScans
<1>5. CASE StreamUp \/ JwtInvalid \/ TickChangesSession \/ Restart
  BY <1>5 DEF StreamUp, JwtInvalid, TickChangesSession, BecomeSession, Restart,
              OfflineNoToken, TypeOK
<1> QED
  BY <1>1, <1>2, <1>3, <1>4, <1>5 DEF Next

\* The ways a pending entry may change.
LEMMA PendingView ==
  ASSUME [Next]_vars, NEW p \in Position, TypeOK
  PROVE  \/ pending'[p] \in {pending[p], NoEntry, Charged(pending[p])}
         \/ \E s : pending'[p] = [sess |-> s, attempts |-> 0]
<1>0. pending \in [Position -> Entry]
  BY DEF TypeOK
<1>1. \/ UNCHANGED pending
      \/ \E q, s : Forget(q) \/ Charge(q) \/ Requeue(q, s)
      \/ TickChangesSession \/ Restart
  BY DEF Next, PositionStep, FlowStep, vars, rowVars, broker, wire, session, memory, told,
     BrokerOpen, BrokerModify, BrokerClose, Publish, HandlePosition, HandleAccountStatus,
     HandleClose, DatabaseLands, DatabaseFails, StreamWriteSettles, Retry,
     FetchAnswered, FinalizeThrows, FinalizeMisses, FinalizeMatches, FinalizeSettles, Written,
     ScanLoggedIn, PrimeRead, PrimeApplied, ScanThrows, ScanWrites, ScanEnds, ScanSettles,
     StreamUp, StreamLost, JwtInvalid, HandleSyncEnd, TickStarts, TickEnds, TickScans
<1>2. CASE \E q, s : Forget(q) \/ Charge(q) \/ Requeue(q, s)
  BY <1>0, <1>2 DEF Forget, Charge, Requeue
<1> QED
  BY <1>1, <1>2 DEF TickChangesSession, BecomeSession, Restart

LEMMA BudgetStep ==
  ASSUME TypeOK, RetryBudget, [Next]_vars
  PROVE  RetryBudget'
<1> SUFFICES ASSUME NEW p \in Position PROVE pending'[p].attempts < MaxRetries
  BY DEF RetryBudget
<1>1. pending[p] \in Entry /\ pending[p].attempts < MaxRetries /\ 0 < MaxRetries
  BY Assumptions DEF Assumptions, RetryBudget, TypeOK
<1>2. Charged(pending[p]).attempts < MaxRetries
  BY <1>1, Assumptions DEF Assumptions, Charged, NoEntry, Entry
<1>3. NoEntry.attempts < MaxRetries /\ \A s : [sess |-> s, attempts |-> 0].attempts < MaxRetries
  BY <1>1 DEF NoEntry
<1>4. \/ pending'[p] \in {pending[p], NoEntry, Charged(pending[p])}
      \/ \E s : pending'[p] = [sess |-> s, attempts |-> 0]
  BY PendingView
<1> QED
  BY <1>1, <1>2, <1>3, <1>4

-----------------------------------------------------------------------------
(* Opens that are announced.                                               *)

\* No snapshot frame is left once the session counts as synced, no frame is left
\* of a stream that is down, and a frame is about a position that was opened.
FramesSound ==
  /\ synced => snap = {}
  /\ ~up => snap = {} /\ opens = {}
  /\ snap \cup opens \subseteq opened

\* The open of p has been announced, or a queued write is to announce it.
TellIn(ops) == \E i \in 1..Len(ops) : ops[i].tell
Spoken(p) == openTold[p] > 0 \/ TellIn(chain[p])

\* It is announced once or by one queued write.
OnceOver(told_, ops) ==
  /\ told_ <= 1
  /\ \A i, k \in 1..Len(ops) : ops[i].tell /\ ops[k].tell => i = k
  /\ told_ > 0 => ~TellIn(ops)

\* What was spoken of is no news to the stream: the session has seen the position,
\* its snapshot still holds it, or it was closed before the stream came up.
NoNews(p) ==
  Spoken(p) =>
    /\ p \in opened
    /\ up => p \in seenOpens \cup snap \/ (closedAt[p] > 0 /\ p \notin opens)

OpensSound ==
  /\ FramesSound
  /\ \A p \in Position : OnceOver(openTold[p], chain[p]) /\ NoNews(p)

\* Who touches what the announcements of opens depend on.
LEMMA NewsFrame ==
  [Next]_vars =>
    \/ UNCHANGED <<opened, closedAt, snap, opens, up, synced, seenOpens>>
    \/ HandleSyncEnd
    \/ \E p \in Position : BrokerOpen(p) \/ BrokerModify(p) \/ BrokerClose(p) \/ HandlePosition(p)
    \/ StreamUp \/ StreamLost \/ TickChangesSession \/ Restart
BY DEF Next, PositionStep, FlowStep, vars, rowVars, broker, wire, session, memory, told,
       Publish, HandleAccountStatus, HandleClose, DatabaseLands, DatabaseFails,
       StreamWriteSettles, Retry,
       FetchAnswered, FinalizeThrows, FinalizeMisses, FinalizeMatches, FinalizeSettles, Written,
       ScanLoggedIn, PrimeRead, PrimeApplied, ScanThrows, ScanWrites, ScanEnds, ScanSettles,
       JwtInvalid, TickStarts, TickEnds, TickScans

LEMMA FramesStep == ASSUME TypeOK, FramesSound, [Next]_vars PROVE FramesSound'
<1> USE DEF FramesSound, rowVars, broker, wire, session, memory, told
<1>1. CASE UNCHANGED <<opened, closedAt, snap, opens, up, synced, seenOpens>>
  BY <1>1
<1>2. CASE HandleSyncEnd
  BY <1>2 DEF HandleSyncEnd
<1>3. ASSUME NEW p \in Position, BrokerOpen(p) \/ BrokerModify(p) \/ BrokerClose(p)
      PROVE  FramesSound'
  BY <1>3 DEF BrokerOpen, BrokerModify, BrokerClose, IsOpen
<1>4. ASSUME NEW p \in Position, HandlePosition(p) PROVE FramesSound'
  BY <1>4 DEF HandlePosition
<1>5. CASE StreamUp
  BY <1>5 DEF StreamUp, OpenNow, IsOpen
<1>6. CASE StreamLost \/ TickChangesSession \/ Restart
  BY <1>6 DEF StreamLost, TickChangesSession, BecomeSession, Restart, StreamDown
<1> QED
  BY <1>1, <1>2, <1>3, <1>4, <1>5, <1>6, NewsFrame

\* What a step does to the chain and the announcements of one position.
LEMMA TellView ==
  ASSUME TypeOK, FlowShape, FlowRowsSound, [Next]_vars, NEW p \in Position
  PROVE  \/ openTold'[p] = openTold[p] /\ chain'[p] = chain[p]
         \/ /\ openTold'[p] = openTold[p]
            /\ \E o \in WriteOp : /\ chain'[p] = Append(chain[p], o)
                                  /\ o.tell => HandlePosition(p) /\ Announced(p)
         \/ /\ chain[p] # <<>> /\ chain'[p] = Tail(chain[p])
            /\ \/ openTold'[p] = openTold[p]
               \/ openTold'[p] = openTold[p] + 1 /\ Head(chain[p]).tell
         \/ openTold'[p] = openTold[p] /\ chain'[p] = <<>>
<1> DEFINE Goal ==
      \/ openTold'[p] = openTold[p] /\ chain'[p] = chain[p]
      \/ /\ openTold'[p] = openTold[p]
         /\ \E o \in WriteOp : /\ chain'[p] = Append(chain[p], o)
                               /\ o.tell => HandlePosition(p) /\ Announced(p)
      \/ /\ chain[p] # <<>> /\ chain'[p] = Tail(chain[p])
         /\ \/ openTold'[p] = openTold[p]
            \/ openTold'[p] = openTold[p] + 1 /\ Head(chain[p]).tell
      \/ openTold'[p] = openTold[p] /\ chain'[p] = <<>>
<1>0. /\ chain \in [Position -> Seq(WriteOp)] /\ openTold \in [Position -> Nat]
  BY DEF TypeOK, RowsTypeOK
<1>1. ASSUME NEW q \in Position, NEW o \in WriteOp, Enqueue(q, o), UNCHANGED openTold,
             o.tell => HandlePosition(q) /\ Announced(q)
      PROVE  Goal
  <2>1. CASE q = p
    BY <1>0, <1>1, <2>1 DEF Enqueue
  <2>2. CASE q # p
    BY <1>0, <1>1, <2>2 DEF Enqueue
  <2> QED
    BY <2>1, <2>2
<1>2. ASSUME NEW q \in Position, chain[q] # <<>>, Settle(q),
             \/ UNCHANGED openTold
             \/ openTold' = [openTold EXCEPT ![q] = @ + 1] /\ Head(chain[q]).tell
      PROVE  Goal
  <2>1. CASE q = p
    BY <1>0, <1>2, <2>1 DEF Settle
  <2>2. CASE q # p
    BY <1>0, <1>2, <2>2 DEF Settle
  <2> QED
    BY <2>1, <2>2
<1>3. ASSUME NEW q \in Position, PositionStep(q) PROVE Goal
  <2>1. CASE HandlePosition(q)
    <3>1. [kind |-> "open", by |-> Nobody, tell |-> Announced(q)] \in WriteOp
      BY Assumptions DEF Assumptions, WriteOp, Announced, TypeOK
    <3>2. UNCHANGED openTold
      BY <2>1 DEF HandlePosition, told
    <3>3. [kind |-> "open", by |-> Nobody, tell |-> Announced(q)].tell => Announced(q)
      OBVIOUS
    <3> QED
      BY <1>1, <2>1, <3>1, <3>2, <3>3 DEF HandlePosition
  <2>2. CASE HandleAccountStatus(q)
    <3>1. [kind |-> "pnl", by |-> Nobody, tell |-> FALSE] \in WriteOp
      BY Assumptions DEF Assumptions, WriteOp
    <3> QED
      BY <1>1, <2>2, <3>1 DEF HandleAccountStatus, told
  <2>3. CASE StreamWriteSettles(q)
    BY <1>2, <2>3 DEF StreamWriteSettles
  <2> QED
    BY <1>3, <2>1, <2>2, <2>3
    DEF PositionStep, BrokerOpen, BrokerModify, BrokerClose, Publish, HandleClose, Retry,
        DatabaseLands, WriteLands, DatabaseFails, WriteFails, rowVars, told
<1>4. ASSUME NEW f \in Flow, FlowStep(f) PROVE Goal
  <2> DEFINE o == [kind |-> "close", by |-> f, tell |-> FALSE]
  <2>0. /\ Finalizes(f) => flow[f].pos \in Position
        /\ flow[f].by = "scan" /\ flow[f].pc = "write" => flow[f].pos \in Position
        /\ o \in WriteOp
    BY Assumptions DEF Assumptions, FlowShape, ShapeOf, Finalizes, WriteOp
  <2>1. CASE FinalizeMatches(f)
    BY <1>1, <2>0, <2>1 DEF FinalizeMatches, told
  <2>2. ASSUME NEW q \in Position, ScanWrites(f, q) PROVE Goal
    BY <1>1, <2>0, <2>2 DEF ScanWrites, told
  <2>3. CASE FinalizeSettles(f) \/ ScanSettles(f)
    <3>1. /\ flow[f].pos \in Position /\ chain[flow[f].pos] # <<>> /\ Settle(flow[f].pos)
          /\ UNCHANGED openTold
      BY <2>0, <2>3 DEF FinalizeSettles, ScanSettles, told
    <3> QED
      BY <1>2, <3>1
  <2> QED
    BY <1>4, <2>1, <2>2, <2>3
    DEF FlowStep, FetchAnswered, FinalizeThrows, FinalizeMisses, ScanLoggedIn, PrimeRead,
        PrimeApplied, ScanThrows, ScanEnds, rowVars, told
<1>5. CASE Restart
  BY <1>5 DEF Restart, told
<1> QED
  BY <1>3, <1>4, <1>5
  DEF Next, vars, StreamUp, StreamLost, JwtInvalid, HandleSyncEnd, TickStarts, TickEnds,
      TickScans, TickChangesSession, rowVars, told

\* A queue that is added to, or served.
LEMMA TellAppended ==
  ASSUME NEW ops \in Seq(WriteOp), NEW o \in WriteOp
  PROVE  /\ TellIn(Append(ops, o)) => TellIn(ops) \/ o.tell
         /\ \A n \in Nat : OnceOver(n, ops) /\ ~o.tell => OnceOver(n, Append(ops, o))
         /\ ~TellIn(ops) => OnceOver(0, Append(ops, o))
<1>1. /\ Len(Append(ops, o)) = Len(ops) + 1 /\ Len(ops) \in Nat
      /\ \A i \in 1..Len(Append(ops, o)) :
           \/ i \in 1..Len(ops) /\ Append(ops, o)[i] = ops[i]
           \/ i = Len(ops) + 1 /\ Append(ops, o)[i] = o
  OBVIOUS
<1>2. TellIn(Append(ops, o)) => TellIn(ops) \/ o.tell
  BY <1>1 DEF TellIn
<1>3. ASSUME ~TellIn(ops) PROVE OnceOver(0, Append(ops, o))
  BY <1>1, <1>3 DEF OnceOver, TellIn
<1>4. ASSUME NEW n \in Nat, OnceOver(n, ops), ~o.tell PROVE OnceOver(n, Append(ops, o))
  <2>1. \A i, k \in 1..Len(Append(ops, o)) :
          Append(ops, o)[i].tell /\ Append(ops, o)[k].tell => i = k
    BY <1>1, <1>4 DEF OnceOver
  <2> QED
    BY <1>2, <1>4, <2>1 DEF OnceOver
<1> QED
  BY <1>2, <1>3, <1>4

LEMMA TellServed ==
  ASSUME NEW ops \in Seq(WriteOp), ops # <<>>, NEW n \in Nat, OnceOver(n, ops)
  PROVE  /\ TellIn(Tail(ops)) => TellIn(ops)
         /\ OnceOver(n, Tail(ops))
         /\ Head(ops).tell => OnceOver(n + 1, Tail(ops)) /\ TellIn(ops)
<1>1. /\ Len(ops) \in Nat /\ 1 \in 1..Len(ops) /\ Head(ops) = ops[1]
      /\ \A i \in 1..Len(Tail(ops)) :
           i \in Nat /\ i > 0 /\ i + 1 \in 1..Len(ops) /\ Tail(ops)[i] = ops[i + 1]
  OBVIOUS
<1>2. TellIn(Tail(ops)) => TellIn(ops)
  BY <1>1 DEF TellIn
<1>3. \A i, k \in 1..Len(Tail(ops)) : Tail(ops)[i].tell /\ Tail(ops)[k].tell => i = k
  BY <1>1 DEF OnceOver
<1>4. OnceOver(n, Tail(ops))
  BY <1>2, <1>3 DEF OnceOver
<1>5. ASSUME Head(ops).tell PROVE OnceOver(n + 1, Tail(ops)) /\ TellIn(ops)
  <2>1. TellIn(ops)
    BY <1>1, <1>5 DEF TellIn
  <2>2. n = 0
    BY <2>1 DEF OnceOver
  <2>3. ~TellIn(Tail(ops))
    <3> SUFFICES ASSUME NEW i \in 1..Len(Tail(ops)), Tail(ops)[i].tell PROVE FALSE
      BY DEF TellIn
    <3>1. ops[i + 1].tell /\ ops[1].tell /\ i + 1 # 1
      BY <1>1, <1>5
    <3> QED
      BY <1>1, <3>1 DEF OnceOver
  <2> QED
    BY <1>3, <2>1, <2>2, <2>3 DEF OnceOver
<1> QED
  BY <1>2, <1>4, <1>5

\* A frame whose open is announced is news: the position was not spoken of.
LEMMA AnnouncedIsNews ==
  ASSUME OpensSound, NEW p \in Position, HandlePosition(p), Announced(p)
  PROVE  ~Spoken(p)
BY DEF OpensSound, FramesSound, NoNews, HandlePosition, Announced

LEMMA SpeakStep ==
  ASSUME TypeOK, FlowShape, FlowRowsSound, OpensSound, [Next]_vars, NEW p \in Position
  PROVE  /\ OnceOver(openTold[p], chain[p])'
         /\ Spoken(p)' => Spoken(p) \/ HandlePosition(p)
<1>0. /\ chain[p] \in Seq(WriteOp) /\ openTold[p] \in Nat
      /\ OnceOver(openTold[p], chain[p])
  BY DEF TypeOK, RowsTypeOK, OpensSound
<1>1. CASE openTold'[p] = openTold[p] /\ chain'[p] = chain[p]
  BY <1>0, <1>1 DEF OnceOver, TellIn, Spoken
<1>2. ASSUME NEW o \in WriteOp, openTold'[p] = openTold[p], chain'[p] = Append(chain[p], o),
             o.tell => HandlePosition(p) /\ Announced(p)
      PROVE  /\ OnceOver(openTold'[p], chain'[p])
             /\ Spoken(p)' => Spoken(p) \/ HandlePosition(p)
  <2>1. CASE o.tell
    <3>1. ~TellIn(chain[p]) /\ openTold[p] = 0
      BY <1>0, <1>2, <2>1, AnnouncedIsNews DEF Spoken
    <3> QED
      BY <1>0, <1>2, <2>1, <3>1, TellAppended
  <2>2. CASE ~o.tell
    BY <1>0, <1>2, <2>2, TellAppended DEF Spoken
  <2> QED
    BY <2>1, <2>2
<1>3. ASSUME chain[p] # <<>>, chain'[p] = Tail(chain[p]),
             \/ openTold'[p] = openTold[p]
             \/ openTold'[p] = openTold[p] + 1 /\ Head(chain[p]).tell
      PROVE  /\ OnceOver(openTold'[p], chain'[p])
             /\ Spoken(p)' => Spoken(p)
  BY <1>0, <1>3, TellServed DEF Spoken
<1>4. CASE openTold'[p] = openTold[p] /\ chain'[p] = <<>>
  <2>1. ~TellIn(<<>>)
    BY DEF TellIn
  <2> QED
    BY <1>0, <1>4, <2>1 DEF OnceOver, Spoken
<1>5. OnceOver(openTold[p], chain[p])' <=> OnceOver(openTold'[p], chain'[p])
  BY DEF OnceOver, TellIn
<1> QED
  BY <1>1, <1>2, <1>3, <1>4, <1>5, TellView

LEMMA NewsStep ==
  ASSUME TypeOK, OpensSound, [Next]_vars, NEW p \in Position,
         Spoken(p)', Spoken(p) \/ HandlePosition(p)
  PROVE  NoNews(p)'
<1> USE DEF rowVars, broker, wire, session, memory, told
<1>0. /\ closedAt \in [Position -> Nat]
      /\ Spoken(p) => NoNews(p)
      /\ FramesSound
  BY DEF TypeOK, OpensSound
<1>1. CASE HandlePosition(p)
  BY <1>0, <1>1 DEF HandlePosition, NoNews, FramesSound
<1>2. CASE Spoken(p) /\ UNCHANGED <<opened, closedAt, snap, opens, up, synced, seenOpens>>
  BY <1>0, <1>2 DEF NoNews
<1>3. CASE Spoken(p) /\ HandleSyncEnd
  BY <1>0, <1>3 DEF HandleSyncEnd, NoNews
<1>4. ASSUME Spoken(p), NEW q \in Position,
             BrokerOpen(q) \/ BrokerModify(q) \/ HandlePosition(q)
      PROVE  NoNews(p)'
  BY <1>0, <1>4 DEF BrokerOpen, BrokerModify, HandlePosition, IsOpen, NoNews
<1>5. ASSUME Spoken(p), NEW q \in Position, BrokerClose(q) PROVE NoNews(p)'
  <2>1. closedAt[p] > 0 => closedAt'[p] > 0
    BY <1>0, <1>5 DEF BrokerClose, IsOpen
  <2> QED
    BY <1>0, <1>5, <2>1 DEF BrokerClose, NoNews
<1>6. CASE Spoken(p) /\ StreamUp
  BY <1>0, <1>6 DEF StreamUp, OpenNow, IsOpen, NoNews
<1>7. CASE Spoken(p) /\ (StreamLost \/ TickChangesSession \/ Restart)
  BY <1>0, <1>7 DEF StreamLost, TickChangesSession, BecomeSession, Restart, StreamDown, NoNews
<1> QED
  BY <1>1, <1>2, <1>3, <1>4, <1>5, <1>6, <1>7, NewsFrame

LEMMA OpensStep ==
  ASSUME TypeOK, FlowShape, FlowRowsSound, OpensSound, [Next]_vars
  PROVE  OpensSound'
<1>1. FramesSound'
  BY FramesStep DEF OpensSound
<1>2. ASSUME NEW p \in Position PROVE OnceOver(openTold[p], chain[p])' /\ NoNews(p)'
  <2>1. CASE Spoken(p)'
    BY <2>1, SpeakStep, NewsStep
  <2>2. CASE ~Spoken(p)'
    BY <2>2, SpeakStep DEF NoNews
  <2> QED
    BY <2>1, <2>2
<1> QED
  BY <1>1, <1>2 DEF OpensSound

LEMMA OpensInit == Init => OpensSound
<1> SUFFICES ASSUME Init PROVE OpensSound
  OBVIOUS
<1>1. ~TellIn(<<>>)
  BY DEF TellIn
<1> QED
  BY <1>1 DEF Init, NoWrites, OpensSound, FramesSound, OnceOver, NoNews, Spoken

-----------------------------------------------------------------------------
(* The invariant.                                                          *)

LEMMA InitInv == Init => IInv
<1> SUFFICES ASSUME Init PROVE IInv
  OBVIOUS
<1>1. IsFiniteSet(Downtime) /\ Cardinality(Downtime) \in Nat
  BY Assumptions, FS_Subset, FS_CardinalityType DEF Assumptions
<1>2. /\ closedAt \in [Position -> Nat]
      /\ \A p \in Position : closedAt[p] > 0 <=> p \in Downtime
  BY <1>1 DEF Init
<1>3. row \in [Position -> Row] /\ \A p \in Position : row[p].st # "closed"
  BY DEF Init, Opened, NoRow, Row
<1>4. flow \in [Flow -> FlowState] /\ pending \in [Position -> Entry]
  BY IdleType, EntryType DEF Init
<1>5. TypeOK
  <2>1. RowsTypeOK
    BY <1>3 DEF Init, NoWrites, RowsTypeOK
  <2>2. 1 \in 0..MaxSession
    BY Assumptions DEF Assumptions
  <2>3. /\ openTold \in [Position -> Nat] /\ closeTold \in [Position -> Nat]
        /\ opened \subseteq Position
    BY Assumptions DEF Assumptions, Init
  <2> QED
    BY <1>2, <1>4, <2>1, <2>2, <2>3 DEF Init, TypeOK
<1>6. \A f \in Flow : ~Finalizes(f)
  BY DEF Init, Idle, Finalizes
<1>7. SeenIsClosed /\ OneFinalize /\ ClaimsMatchFlows /\ CloseToldOnce /\ ToldIsOver
      /\ OfflineNoToken
  BY <1>6 DEF Init, SeenIsClosed, OneFinalize, ClaimsMatchFlows, CloseToldOnce, ToldIsOver,
              OfflineNoToken
<1>8. RepliesSound /\ FlowWritesClose
  BY DEF Init, NoWrites, RepliesSound, FlowWritesClose
<1>9. FlowShape /\ FlowRowsSound
  BY DEF Init, Idle, FlowShape, ShapeOf, FlowRowsSound, RowsSoundOf
<1>10. BrokerSound /\ RetryBudget
  BY <1>3, Assumptions DEF Assumptions, Init, BrokerSound, RetryBudget, NoEntry
<1> QED
  BY <1>5, <1>7, <1>8, <1>9, <1>10 DEF IInv

LEMMA StepInv == IInv /\ [Next]_vars => IInv'
BY TypeStep, FlowShapeStep, FlowRowsStep, SeenStep, ClaimStep, ToldStep, RepliesStep,
   FlowWritesStep, BrokerStep, TokenStep, BudgetStep
DEF IInv

\* The conjunction of the safety properties and what they rest on holds in every
\* reachable state of the manager, the broker and the writer.
THEOREM Invariance == Spec => []IInv
BY InitInv, StepInv, PTL DEF Spec

\* Every variable keeps its type.
THEOREM TypeCorrect == Spec => []TypeOK
<1>1. IInv => TypeOK
  BY DEF IInv
<1> QED
  BY <1>1, Invariance, PTL

\* A position that closedSeen makes every path skip has a finalized row.
THEOREM SkippedIsFinalized == Spec => []SeenIsClosed
<1>1. IInv => SeenIsClosed
  BY DEF IInv
<1> QED
  BY <1>1, Invariance, PTL

\* Two calls of finalizeClose never work on one position at a time.
THEOREM FinalizeExclusion == Spec => []OneFinalize
<1>1. IInv => OneFinalize
  BY DEF IInv
<1> QED
  BY <1>1, Invariance, PTL

\* finalizing holds a position exactly while a finalizeClose of it is in flight.
THEOREM NoClaimLeaks == Spec => []ClaimsMatchFlows
<1>1. IInv => ClaimsMatchFlows
  BY DEF IInv
<1> QED
  BY <1>1, Invariance, PTL

\* A close is announced at most once, restarts included.
THEOREM CloseAnnouncedOnce == Spec => []CloseToldOnce
<1>1. IInv => CloseToldOnce
  BY DEF IInv
<1> QED
  BY <1>1, Invariance, PTL

\* An open is announced at most once: no snapshot of a reconnect, a new session or a
\* restart, and no modification, makes an announced position news again.
THEOREM OpenAnnouncedOnce == Spec => []OpenToldOnce
<1>1. Init => IInv /\ OpensSound
  BY InitInv, OpensInit
<1>2. IInv /\ OpensSound /\ [Next]_vars => (IInv /\ OpensSound)'
  BY StepInv, OpensStep DEF IInv
<1>3. OpensSound => OpenToldOnce
  BY DEF OpensSound, OnceOver, OpenToldOnce
<1> QED
  BY <1>1, <1>2, <1>3, PTL DEF Spec

\* An announced close is in the table and at the broker.
THEOREM AnnouncedIsTrue == Spec => []ToldIsClosed
<1>1. IInv => ToldIsClosed
  BY DEF IInv, ToldIsOver, ToldIsClosed
<1> QED
  BY <1>1, Invariance, PTL

\* A pending close never outlives its retry budget.
THEOREM BudgetKept == Spec => []RetryBudget
<1>1. IInv => RetryBudget
  BY DEF IInv
<1> QED
  BY <1>1, Invariance, PTL

\* A finalized row is never reopened, deleted or given a floating pnl.
THEOREM FinalizedForever == Spec => ClosedForever
<1>1. IInv /\ [Next]_vars =>
        [\A p \in Position : row[p].st = "closed"
           => row'[p].st = "closed" /\ row'[p].pnl = "realized"]_vars
  BY RowStep DEF IInv
<1> QED
  BY <1>1, Invariance, PTL DEF Spec, ClosedForever

=============================================================================
