-------------------------- MODULE MetaApiDeals_proofs --------------------------
(***************************************************************************)
(* Proofs about MetaApiDeals, for every finite set of positions, every set *)
(* of listener calls and every bound: a closed row is true, and no row     *)
(* ever goes back.                                                         *)
(***************************************************************************)
EXTENDS MetaApiDeals, FiniteSetTheorems, SequenceTheorems, WellFoundedInduction, TLAPS

-----------------------------------------------------------------------------
(* The inductive invariant.  First the totals: what the rows, the queues   *)
(* and the backfill hold of a position with deals d.                       *)

Numbers(s) == 1 .. Len(s)
Booked(d, n) == {i \in 1 .. n : d[i] > Clamp}

\* e is a row or a write that closes the position with the deals up to its exit.
Final(d, e) == e.exit \in 2 .. Len(d) /\ e.money = Booked(d, e.exit)

DaysSound(d) ==
    /\ \A i \in Numbers(d) : d[i] \in 1 .. MaxDay
    /\ \A i, j \in Numbers(d) : i < j => d[i] <= d[j]

RowSound(d, r) ==
    IF r.state = "closed" THEN Final(d, r) /\ ~r.floating ELSE r.exit = 0

\* The writes of a position come in the order of what they have read.
InOrder(r, c) ==
    /\ \A i \in Numbers(c) : c[i].op = "closed" => r.exit <= c[i].exit
    /\ \A i, j \in Numbers(c) :
        i < j /\ c[i].op = "closed" /\ c[j].op = "closed" => c[i].exit <= c[j].exit

ChainSound(d, r, c) ==
    /\ \A i \in Numbers(c) : c[i].op = "closed" => Final(d, c[i])
    /\ Waits => InOrder(r, c)

\* No row and no write has read more than the first n deals.
NoneNewer(n, r, c) ==
    /\ r.exit <= n
    /\ \A i \in Numbers(c) : c[i].op = "closed" => c[i].exit <= n

\* A backfill has read no less than the rows and the queues: no listener works meanwhile.
Backfilling(f) == f \in {"window", "requests", "writes"}
UptoSound(f, n, d, r, c) ==
    /\ n \in 0 .. Len(d)
    /\ Backfilling(f) => NoneNewer(n, r, c)

\* With the first deal of a position it has all of them.
HistSound(n, h) == h \subseteq 1 .. n /\ (1 \in h => h = 1 .. n)

Totals(f, b, p, d, r, c) ==
    /\ DaysSound(d) /\ RowSound(d, r) /\ ChainSound(d, r, c)
    /\ UptoSound(f, b.upto[p], d, r, c)
    /\ HistSound(b.upto[p], b.hist[p])
    /\ p \in b.todo => 1 \in b.hist[p]

BfSound ==
    /\ ~Backfilling(phase) => bf = NotAsked
    /\ phase = "writes" => bf.answered = {"deals", "positions"}
    /\ bf.todo # {} => phase = "writes"
    /\ \A p \in Position :
        /\ \A i \in Numbers(deals[p]) : deals[p][i] <= now
        /\ "positions" \in bf.answered /\ bf.upto[p] > 1 /\ p \notin bf.ids => p \in over

\* Whoever waits for a write has one.
Waiting ==
    /\ \A p, q \in Position : \A i \in Numbers(chain[p]), j \in Numbers(chain[q]) :
        chain[p][i].by = chain[q][j].by => p = q /\ i = j
    /\ \A p \in Position : \A i \in Numbers(chain[p]) : LET c == chain[p][i].by IN
        IF c = Backfill THEN phase = "writes" ELSE call[c].pc \in {"writing", "pricing"}

(* Then what the listener knows of the open positions.                     *)

Busy(c) == Mine(c) /\ call[c].pc # "free"
Snapshot(p) == \E c \in Call : Mine(c) /\ call[c].pc = "writing" /\ p \in call[c].pos
SnapshotNext == inbox # <<>> /\ inbox[1].kind = "replaced"

\* Open and closed in part.
Reduced(p) == p \in OpenNow /\ Len(deals[p]) > 1 /\ p \notin unseen

StreamSound ==
    /\ link => phase = "stream"
    /\ ~link => inbox = <<>> /\ ~replaying
    /\ \A c \in Call : call[c].by <= cur
    /\ Backfilling(phase) => \A c \in Call : ~Busy(c)
    /\ \A i \in Numbers(inbox) :
        /\ inbox[i].kind = "replaced" => i = 1
        /\ inbox[i].kind = "removed" => inbox[i].about \subseteq over
        /\ inbox[i].kind = "updated" => \E p \in Position : inbox[i].about = {p} /\ Opened(p)
    /\ openPositionIds \subseteq {p \in Position : Opened(p)}
    /\ \A p \in Position : Snapshot(p) => Opened(p)
    /\ SnapshotNext => \A p \in OpenNow :
        p \in openPositionIds \/ Snapshot(p) \/ Reduced(p) => p \in inbox[1].about
    /\ SnapshotNext => \A p \in inbox[1].about : Opened(p)

\* A call that asks for the deals of a position, or has its answer under way
Reading(c) == call[c].pc \in {"fetching", "fetched"}

\* An answer under way has no more deals than there are, and if the SDK waits, no fewer than
\* the rows and the queues.
AnswerSound(c, p) ==
    call[c].pc = "fetched" =>
        /\ call[c].upto <= Len(deals[p])
        /\ Waits /\ Mine(c) => NoneNewer(call[c].upto, rows[p], chain[p])

Answers == \A c \in Call : \A p \in call[c].pos : AnswerSound(c, p)

\* A reduced position that the listener does not have is about to be told to it, and no
\* call is reading deals meanwhile.
ReducedKnown ==
    phase = "stream" => \A p \in Position : Reduced(p) /\ p \notin openPositionIds =>
        /\ \A c \in Call : Mine(c) => ~Reading(c)
        /\ ~link \/ SnapshotNext \/ Snapshot(p)

OneBusy == \A c, d \in Call : Busy(c) /\ Busy(d) => c = d

\* Closed rows, and writes that close them, are of positions that are over.
ClosedKnown ==
    \A p \in Position : p \notin over \cup unseen =>
        /\ rows[p].state # "closed"
        /\ \A i \in Numbers(chain[p]) : chain[p][i].op # "closed"

IInv ==
    /\ TypeOK
    /\ \A p \in Position : Totals(phase, bf, p, deals[p], rows[p], chain[p])
    /\ BfSound
    /\ Waiting
    /\ StreamSound
    /\ Answers
    /\ Waits => OneBusy /\ ReducedKnown /\ ClosedKnown

-----------------------------------------------------------------------------
(* The largest of finitely many numbers, and sequences.                    *)

HasMax(S) == \E x \in S : \A y \in S : y <= x

LEMMA FiniteHasMax ==
    ASSUME NEW S \in SUBSET Nat, IsFiniteSet(S), S # {}
    PROVE  HasMax(S)
<1> DEFINE R == StrictSubsetOrdering(S)
           Bad == {T \in SUBSET S : T # {} /\ ~HasMax(T)}
<1>1. FiniteSubsetsOf(S) = SUBSET S
  BY FS_FiniteSubsetsOfFinite
<1>2. IsWellFoundedOn(R, SUBSET S)
  BY <1>1, FS_StrictSubsetOrderingWellFounded
<1>3. SUFFICES ASSUME Bad # {} PROVE FALSE
  BY <1>3
<1>4. PICK T \in Bad : \A U \in Bad : <<U, T>> \notin R
  <2>1. Bad \subseteq SUBSET S
    OBVIOUS
  <2> HIDE DEF Bad, R
  <2> QED
    BY <1>2, <1>3, <2>1, WFMin
<1>5. PICK x \in T : TRUE
  OBVIOUS
<1>6. T \ {x} \notin Bad
  <2>1. <<T \ {x}, T>> \in (SUBSET S) \X (SUBSET S)
    OBVIOUS
  <2>2. <<T \ {x}, T>> \in R
    BY <1>5, <2>1 DEF StrictSubsetOrdering
  <2> QED
    BY <1>4, <2>2
<1>7. CASE T = {x}
  BY <1>4, <1>7 DEF HasMax
<1>8. CASE T # {x}
  <2>1. HasMax(T \ {x})
    BY <1>5, <1>6, <1>8
  <2>2. PICK m \in T \ {x} : \A y \in T \ {x} : y <= m
    BY <2>1 DEF HasMax
  <2>3. m \in Nat /\ x \in Nat
    BY <1>5
  <2>4. CASE x <= m
    BY <1>4, <2>2, <2>4 DEF HasMax
  <2>5. CASE m <= x
    <3>1. \A y \in T : y \in Nat /\ (y = x \/ y <= m)
      BY <2>2
    <3>2. \A y \in T : y <= x
      BY <2>3, <2>5, <3>1
    <3> QED
      BY <1>4, <1>5, <3>2 DEF HasMax
  <2> QED
    BY <2>3, <2>4, <2>5
<1> QED
  BY <1>7, <1>8

LEMMA MaxIn ==
    ASSUME NEW S \in SUBSET Nat, IsFiniteSet(S), S # {}
    PROVE  Max(S) \in S
<1>1. \E x \in S : \A y \in S : x >= y
  BY FiniteHasMax DEF HasMax
<1> QED
  BY <1>1 DEF Max

LEMMA MaxOfDays ==
    ASSUME NEW m \in Nat, NEW S \in SUBSET (0 .. m), S # {}
    PROVE  Max(S) \in 0 .. m
<1>1. IsFiniteSet(0 .. m)
  BY FS_Interval
<1>2. IsFiniteSet(S)
  BY <1>1, FS_Subset
<1>3. S \in SUBSET Nat
  OBVIOUS
<1> QED
  BY <1>2, <1>3, MaxIn

LEMMA AppendFacts ==
    ASSUME NEW S, NEW s \in Seq(S), NEW e \in S
    PROVE  /\ Len(s) \in Nat /\ Append(s, e) \in Seq(S)
           /\ Len(Append(s, e)) = Len(s) + 1 /\ Append(s, e)[Len(s) + 1] = e
           /\ Append(s, e) # <<>>
           /\ \A i \in Numbers(s) : Append(s, e)[i] = s[i]
           /\ \A i \in Numbers(Append(s, e)) : i = Len(s) + 1 \/ i \in Numbers(s)
           /\ \A i \in Numbers(s) : i \in Numbers(Append(s, e)) /\ i <= Len(s)
BY AppendProperties DEF Numbers

\* t is s without its first element.
Rest(s, t) ==
    /\ \A i \in Numbers(t) :
        i \in Nat /\ i > 0 /\ i + 1 \in Numbers(s) /\ t[i] = s[i + 1]
    /\ \A i \in Numbers(s) : i # 1 => i > 1 /\ i - 1 \in Numbers(t) /\ (i - 1) + 1 = i

LEMMA TailFacts ==
    ASSUME NEW S, NEW s \in Seq(S), s # <<>>
    PROVE  /\ Len(s) \in Nat /\ Tail(s) \in Seq(S) /\ Head(s) = s[1] /\ Head(s) \in S
           /\ 1 \in Numbers(s) /\ Rest(s, Tail(s)) /\ Len(Tail(s)) = Len(s) - 1
<1>1. /\ Head(s) \in S /\ Tail(s) \in Seq(S) /\ Len(Tail(s)) = Len(s) - 1
      /\ \A i \in 1 .. Len(Tail(s)) : Tail(s)[i] = s[i + 1]
  BY HeadTailProperties
<1>2. Len(s) \in Nat /\ Len(s) > 0
  BY EmptySeq, LenProperties
<1>3. Head(s) = s[1]
  OBVIOUS
<1> QED
  BY <1>1, <1>2, <1>3 DEF Numbers, Rest

LEMMA FirstRemoved ==
    ASSUME NEW S, NEW s \in Seq(S), s # <<>>
    PROVE  /\ 1 \in Numbers(s) /\ s[1] \in S
           /\ RemoveAt(s, 1) \in Seq(S) /\ Rest(s, RemoveAt(s, 1))
<1>1. 1 - 1 = 0
  OBVIOUS
<1>0. 1 + 1 = 2
  OBVIOUS
<1>2. SubSeq(s, 1, 1 - 1) = <<>>
  BY <1>1, SubSeqEmpty
<1>3. SubSeq(s, 1 + 1, Len(s)) = Tail(s)
  BY <1>1, TailIsSubSeq
<1>4. RemoveAt(s, 1) = <<>> \o Tail(s)
  BY <1>2, <1>3 DEF RemoveAt
<1>5. Tail(s) \in Seq(S)
  BY HeadTailProperties
<1>6. RemoveAt(s, 1) = Tail(s)
  BY <1>4, <1>5, ConcatEmptySeq
<1> QED
  BY <1>6, TailFacts

-----------------------------------------------------------------------------
(* The totals of one position.                                             *)

Days == Seq(1 .. MaxDay)
Chain == Seq(Writes)

LEMMA WriteTypes ==
    /\ \A w \in Writes : /\ w.op \in {"open", "closed", "price"} /\ w.exit \in Nat
                         /\ w.money \subseteq Index /\ w.by \in Waiter
                         /\ w.exit \in 0 .. MaxDeals
    /\ \A r \in Rows : /\ r.state \in {"none", "open", "closed"} /\ r.exit \in Nat
                       /\ r.floating \in BOOLEAN
BY DealsAssumption DEF Writes, Rows

\* Final writes close rows with what they have counted, others leave closed rows alone.
LEMMA AppliedRow ==
    ASSUME NEW d \in Days, NEW r \in Rows, NEW w \in Writes, RowSound(d, r),
           w.op = "closed" => Final(d, w)
    PROVE  /\ Applied(r, w) \in Rows /\ RowSound(d, Applied(r, w))
           /\ Applied(r, w).exit = IF w.op = "closed" THEN w.exit ELSE r.exit
           /\ Applied(r, w).state = "closed" <=> w.op = "closed" \/ r.state = "closed"
           /\ w.op # "closed" /\ r.state = "closed" => Applied(r, w) = r
<1>0. 0 \in 0 .. MaxDeals
  BY DealsAssumption
<1> DEFINE o == [NoRow EXCEPT !.state = "open"]
<1>1. o \in Rows /\ o.state = "open" /\ o.exit = 0
  BY <1>0 DEF NoRow, Rows
<1> HIDE DEF o
<1>2. CASE w.op = "open"
  BY <1>1, <1>2 DEF Applied, OpenedRow, RowSound, Rows, Final, o
<1>3. CASE w.op = "closed"
  <2>1. Applied(r, w) = [state |-> "closed", exit |-> w.exit, money |-> w.money,
                         floating |-> FALSE]
    BY <1>3 DEF Applied
  <2>2. w.exit \in 0 .. MaxDeals /\ w.money \in SUBSET Index
    BY WriteTypes
  <2> QED
    BY <1>3, <2>1, <2>2 DEF RowSound, Rows, Final
<1>4. CASE w.op = "price"
  <2>1. Applied(r, w) = [r EXCEPT !.floating = (r.state = "open") \/ @]
    BY <1>4 DEF Applied
  <2> DEFINE x == (r.state = "open") \/ r.floating
  <2>2. x \in BOOLEAN /\ (r.state = "closed" /\ ~r.floating => x = r.floating)
    BY WriteTypes
  <2>3. Applied(r, w) = [r EXCEPT !.floating = x]
    BY <2>1
  <2> HIDE DEF x
  <2>4. /\ Applied(r, w) \in Rows
        /\ Applied(r, w).exit = r.exit /\ Applied(r, w).state = r.state
        /\ Applied(r, w).money = r.money /\ Applied(r, w).floating = x
    BY <2>2, <2>3 DEF Rows
  <2>5. r.state = "closed" => Applied(r, w) = r
    BY <2>2, <2>3 DEF Rows, RowSound
  <2>6. RowSound(d, Applied(r, w))
    BY <2>4, <2>5 DEF RowSound
  <2> QED
    BY <1>4, <2>4, <2>5, <2>6
<1> QED
  BY <1>2, <1>3, <1>4, WriteTypes

LEMMA ChainLess ==
    ASSUME NEW d \in Days, NEW r \in Rows, NEW c \in Chain, c # <<>>, RowSound(d, r),
           ChainSound(d, r, c), NEW s \in {r, Applied(r, c[1])}
    PROVE  /\ RemoveAt(c, 1) \in Chain /\ s \in Rows
           /\ RowSound(d, s) /\ ChainSound(d, s, RemoveAt(c, 1))
<1> DEFINE t == RemoveAt(c, 1)
           w == c[1]
<1>1. 1 \in Numbers(c) /\ w \in Writes /\ t \in Chain /\ Rest(c, t)
  BY FirstRemoved DEF Chain
<1>2. w.op = "closed" => Final(d, w) /\ (Waits => r.exit <= w.exit)
  BY <1>1 DEF ChainSound, InOrder
<1>3. s \in Rows /\ RowSound(d, s) /\ (s.exit = r.exit \/ (w.op = "closed" /\ s.exit = w.exit))
  <2>1. CASE s = r
    BY <2>1
  <2>2. CASE s = Applied(r, w)
    BY <1>1, <1>2, <2>2, AppliedRow
  <2> QED
    BY <2>1, <2>2
<1> HIDE DEF t, w
<1>4. \A i \in Numbers(t) : t[i].op = "closed" => Final(d, t[i])
  BY <1>1 DEF ChainSound, Rest
<1>5. ASSUME Waits, NEW i \in Numbers(t), t[i].op = "closed"
      PROVE  s.exit <= t[i].exit
  <2>1. i + 1 \in Numbers(c) /\ t[i] = c[i + 1] /\ 1 < i + 1
    BY <1>1, <1>5 DEF Rest
  <2>2. r.exit <= c[i + 1].exit
    BY <1>5, <2>1 DEF ChainSound, InOrder
  <2>3. w.op = "closed" => w.exit <= c[i + 1].exit
    BY <1>1, <1>5, <2>1 DEF ChainSound, InOrder, w
  <2> QED
    BY <1>3, <2>1, <2>2, <2>3
<1>6. ASSUME Waits, NEW i \in Numbers(t), NEW j \in Numbers(t),
             i < j, t[i].op = "closed", t[j].op = "closed"
      PROVE  t[i].exit <= t[j].exit
  <2>1. /\ i + 1 \in Numbers(c) /\ t[i] = c[i + 1] /\ j + 1 \in Numbers(c) /\ t[j] = c[j + 1]
        /\ i + 1 < j + 1
    BY <1>1, <1>6 DEF Rest
  <2> QED
    BY <1>6, <2>1 DEF ChainSound, InOrder
<1> QED
  BY <1>1, <1>3, <1>4, <1>5, <1>6 DEF ChainSound, InOrder, t

\* What nobody had read more than, a write that leaves the chain has not either.
LEMMA NewerLess ==
    ASSUME NEW n, NEW d \in Days, NEW r \in Rows, NEW c \in Chain, c # <<>>,
           RowSound(d, r), ChainSound(d, r, c), NoneNewer(n, r, c),
           NEW s \in {r, Applied(r, c[1])}
    PROVE  NoneNewer(n, s, RemoveAt(c, 1))
<1> DEFINE t == RemoveAt(c, 1)
           w == c[1]
<1>1. 1 \in Numbers(c) /\ w \in Writes /\ t \in Chain /\ Rest(c, t)
  BY FirstRemoved DEF Chain
<1>2. w.op = "closed" => Final(d, w)
  BY <1>1 DEF ChainSound
<1>3. s.exit = r.exit \/ (w.op = "closed" /\ s.exit = w.exit)
  <2>1. CASE s = Applied(r, w)
    BY <1>1, <1>2, <2>1, AppliedRow
  <2> QED
    BY <2>1
<1>4. w.op = "closed" => w.exit <= n
  BY <1>1 DEF NoneNewer
<1> HIDE DEF t, w
<1>5. \A i \in Numbers(t) : t[i] = c[i + 1] /\ i + 1 \in Numbers(c)
  BY <1>1 DEF Rest
<1>6. s.exit <= n /\ \A i \in Numbers(t) : t[i].op = "closed" => t[i].exit <= n
  BY <1>3, <1>4, <1>5 DEF NoneNewer
<1> QED
  BY <1>6 DEF NoneNewer, t

LEMMA UptoLess ==
    ASSUME NEW f, NEW n, NEW d \in Days, NEW r \in Rows, NEW c \in Chain, c # <<>>,
           RowSound(d, r), ChainSound(d, r, c), UptoSound(f, n, d, r, c),
           NEW s \in {r, Applied(r, c[1])}
    PROVE  UptoSound(f, n, d, s, RemoveAt(c, 1))
BY NewerLess DEF UptoSound

\* A write goes to the end of the chain: one that closes the row has read all of the first n
\* deals, and no write before has read more.
Newest(d, n, w) == w.op = "closed" => Final(d, w) /\ w.exit = n

LEMMA ChainMore ==
    ASSUME NEW d \in Days, NEW r \in Rows, NEW c \in Chain, NEW w \in Writes, NEW n,
           ChainSound(d, r, c), Newest(d, n, w),
           Waits /\ w.op = "closed" => NoneNewer(n, r, c)
    PROVE  Append(c, w) \in Chain /\ ChainSound(d, r, Append(c, w))
<1> DEFINE t == Append(c, w)
           m == Len(c) + 1
<1>1. /\ t \in Chain /\ t[m] = w /\ m \in Nat
      /\ \A i \in Numbers(c) : t[i] = c[i] /\ i < m
      /\ \A i \in Numbers(t) : i = m \/ i \in Numbers(c)
  BY AppendFacts DEF Chain, Numbers
<1> HIDE DEF t, m
<1>2. \A i \in Numbers(t) : t[i].op = "closed" => Final(d, t[i])
  BY <1>1 DEF ChainSound, Newest
<1>3. \A i \in Numbers(t) : Waits /\ t[i].op = "closed" => r.exit <= t[i].exit
  BY <1>1 DEF ChainSound, InOrder, Newest, NoneNewer
<1>4. ASSUME Waits, NEW i \in Numbers(t), NEW j \in Numbers(t),
             i < j, t[i].op = "closed", t[j].op = "closed"
      PROVE  t[i].exit <= t[j].exit
  <2>1. i \in Numbers(c) /\ t[i] = c[i]
    BY <1>1, <1>4 DEF Numbers
  <2>2. CASE j \in Numbers(c)
    BY <1>1, <1>4, <2>1, <2>2 DEF ChainSound, InOrder
  <2>3. CASE j = m
    BY <1>1, <1>4, <2>1, <2>3 DEF NoneNewer, Newest
  <2> QED
    BY <1>1, <2>2, <2>3
<1> QED
  BY <1>1, <1>2, <1>3, <1>4 DEF ChainSound, InOrder, t

LEMMA UptoMore ==
    ASSUME NEW f, NEW n, NEW d \in Days, NEW r \in Rows, NEW c \in Chain, NEW w \in Writes,
           UptoSound(f, n, d, r, c), Backfilling(f) => Newest(d, n, w)
    PROVE  UptoSound(f, n, d, r, Append(c, w))
<1> DEFINE t == Append(c, w)
           m == Len(c) + 1
<1>1. /\ t[m] = w
      /\ \A i \in Numbers(c) : t[i] = c[i]
      /\ \A i \in Numbers(t) : i = m \/ i \in Numbers(c)
  BY AppendFacts DEF Chain, Numbers
<1> HIDE DEF t, m
<1>2. n \in 0 .. Len(d)
  BY DEF UptoSound
<1>3. \A i \in Numbers(t) : Backfilling(f) /\ t[i].op = "closed" => t[i].exit <= n
  <2>1. SUFFICES ASSUME NEW i \in Numbers(t), Backfilling(f), t[i].op = "closed"
                 PROVE  t[i].exit <= n
    OBVIOUS
  <2>2. CASE i = m
    BY <1>1, <1>2, <2>1, <2>2 DEF Newest
  <2>3. CASE i \in Numbers(c)
    BY <1>1, <2>1, <2>3 DEF UptoSound, NoneNewer
  <2> QED
    BY <1>1, <2>2, <2>3
<1> QED
  BY <1>3 DEF UptoSound, NoneNewer, t

\* No write or row has more deals than there are.
LEMMA NoneAhead ==
    ASSUME NEW d \in Days, NEW r \in Rows, NEW c \in Chain, RowSound(d, r),
           ChainSound(d, r, c)
    PROVE  NoneNewer(Len(d), r, c)
<1>1. Len(d) \in Nat
  BY LenProperties DEF Days
<1>2. r.exit <= Len(d)
  BY <1>1 DEF RowSound, Final
<1> QED
  BY <1>1, <1>2 DEF ChainSound, NoneNewer, Final

\* The broker adds a deal: nothing that was read of the others changes.
LEMMA DealsMore ==
    ASSUME NEW f, NEW b, NEW p, NEW d \in Days, NEW r \in Rows, NEW c \in Chain,
           NEW day \in 1 .. MaxDay, Totals(f, b, p, d, r, c),
           \A i \in Numbers(d) : d[i] <= day
    PROVE  /\ Append(d, day) \in Days /\ Len(Append(d, day)) = Len(d) + 1
           /\ Totals(f, b, p, Append(d, day), r, c)
           /\ \A i \in Numbers(Append(d, day)) : Append(d, day)[i] <= day
<1> DEFINE e == Append(d, day)
           m == Len(d) + 1
<1>1. /\ e \in Days /\ e[m] = day /\ m \in Nat /\ Len(e) = m /\ Len(d) \in Nat
      /\ \A i \in Numbers(d) : e[i] = d[i] /\ i < m
      /\ \A i \in Numbers(e) : i = m \/ i \in Numbers(d)
  BY AppendFacts DEF Days, Numbers
<1>2. MaxDay \in Nat
  BY DealsAssumption
<1> HIDE DEF e, m
<1>3. DaysSound(d) /\ RowSound(d, r) /\ ChainSound(d, r, c) /\ UptoSound(f, b.upto[p], d, r, c)
  BY DEF Totals
<1>4. \A i \in Numbers(e) : e[i] \in 1 .. MaxDay /\ e[i] <= day
  BY <1>1, <1>3 DEF DaysSound
<1>5. \A i, j \in Numbers(e) : i < j => e[i] <= e[j]
  <2> TAKE i, j \in Numbers(e)
  <2> HAVE i < j
  <2>1. i \in Numbers(d)
    BY <1>1 DEF Numbers
  <2> QED
    BY <1>1, <1>3, <2>1 DEF DaysSound
<1>6. DaysSound(e)
  BY <1>4, <1>5 DEF DaysSound
<1>7. \A x : Final(d, x) => Final(e, x)
  <2>1. SUFFICES ASSUME NEW x, Final(d, x) PROVE Final(e, x)
    OBVIOUS
  <2>2. x.exit \in 2 .. Len(d) /\ x.exit \in 2 .. Len(e)
    BY <1>1, <2>1 DEF Final, m
  <2>3. \A i \in 1 .. x.exit : e[i] = d[i]
    BY <1>1, <2>2 DEF Numbers
  <2>4. Booked(e, x.exit) = Booked(d, x.exit)
    BY <2>3 DEF Booked
  <2> QED
    BY <2>1, <2>2, <2>4 DEF Final
<1>8. RowSound(e, r) /\ ChainSound(e, r, c)
  BY <1>3, <1>7 DEF RowSound, ChainSound
<1>9. UptoSound(f, b.upto[p], e, r, c)
  BY <1>1, <1>3 DEF UptoSound, m
<1> QED
  BY <1>1, <1>4, <1>6, <1>8, <1>9 DEF Totals, e, m

\* What aggregateDeals makes of the first n deals.
LEMMA AggregateFacts ==
    ASSUME BrokerOK, NEW p \in Position, NEW n \in 1 .. Len(deals[p]), NEW ids,
           NEW by \in Waiter
    PROVE  LET w == Aggregate(p, 1 .. n, ids, by) IN
           /\ w \in Writes /\ w.by = by /\ w.op \in {"open", "closed"}
           /\ Newest(deals[p], n, w)
           /\ w.op = "closed" => n > 1 /\ p \notin ids
<1> DEFINE exit == ExitOf(p, 1 .. n, ids)
           w == Aggregate(p, 1 .. n, ids, by)
<1>1. n \in Nat /\ n > 0 /\ n <= MaxDeals /\ MaxDeals \in Nat /\ Len(deals[p]) \in Nat
  BY DealsAssumption, LenProperties DEF BrokerOK
<1>2. exit = IF p \in ids \/ n = 1 THEN 0 ELSE n
  <2>1. Closing(1 .. n) = 2 .. n
    BY <1>1 DEF Closing
  <2>2. (Closing(1 .. n) = {}) <=> n = 1
    BY <1>1, <2>1
  <2>3. n # 1 => Max(2 .. n) = n
    <3>1. SUFFICES ASSUME n # 1 PROVE Max(2 .. n) = n
      OBVIOUS
    <3>2. n \in 2 .. n /\ \A y \in 2 .. n : n >= y
      BY <1>1, <3>1
    <3>3. \A x \in 2 .. n : (\A y \in 2 .. n : x >= y) => x = n
      BY <1>1, <3>2
    <3> QED
      BY <3>2, <3>3 DEF Max
  <2> QED
    BY <2>1, <2>2, <2>3 DEF ExitOf
<1> HIDE DEF exit
<1>3. w = [op |-> IF exit = 0 THEN "open" ELSE "closed", exit |-> exit,
           money |-> IF exit = 0 THEN {} ELSE Owned(p, 1 .. n), by |-> by]
  BY DEF Aggregate, exit
<1>4. Owned(p, 1 .. n) = Booked(deals[p], n) /\ Owned(p, 1 .. n) \subseteq Index
  BY <1>1 DEF Owned, Booked, Index
<1>5. exit \in 0 .. MaxDeals /\ (exit # 0 => exit = n /\ n > 1 /\ p \notin ids)
  BY <1>1, <1>2
<1>6. w \in Writes
  BY <1>3, <1>4, <1>5 DEF Writes
<1>7. w.op = "closed" => exit # 0
  BY <1>3
<1>8. Newest(deals[p], n, w)
  BY <1>1, <1>3, <1>4, <1>5, <1>7 DEF Newest, Final
<1> QED
  BY <1>3, <1>5, <1>6, <1>7, <1>8

-----------------------------------------------------------------------------
(* The totals, step by step.                                               *)

AllTotals == \A p \in Position : Totals(phase, bf, p, deals[p], rows[p], chain[p])

\* What the invariant says of one position.
LEMMA PositionFacts ==
    ASSUME IInv, NEW p \in Position
    PROVE  /\ deals[p] \in Days /\ rows[p] \in Rows /\ chain[p] \in Chain
           /\ Len(deals[p]) \in Nat /\ Len(deals[p]) <= MaxDeals
           /\ bf.upto[p] \in 0 .. MaxDeals /\ bf.hist[p] \subseteq Index
           /\ Totals(phase, bf, p, deals[p], rows[p], chain[p])
           /\ DaysSound(deals[p]) /\ RowSound(deals[p], rows[p])
           /\ ChainSound(deals[p], rows[p], chain[p])
           /\ UptoSound(phase, bf.upto[p], deals[p], rows[p], chain[p])
           /\ HistSound(bf.upto[p], bf.hist[p]) /\ (p \in bf.todo => 1 \in bf.hist[p])
           /\ \A i \in Numbers(deals[p]) : deals[p][i] <= now
<1>1. BrokerOK /\ RowsOK /\ BackfillOK /\ Totals(phase, bf, p, deals[p], rows[p], chain[p])
  BY DEF IInv, TypeOK
<1>2. deals[p] \in Days /\ rows[p] \in Rows /\ chain[p] \in Chain /\ Len(deals[p]) <= MaxDeals
  BY <1>1 DEF BrokerOK, RowsOK, Days, Chain
<1>3. Len(deals[p]) \in Nat
  BY <1>2, LenProperties DEF Days
<1>4. bf.upto[p] \in 0 .. MaxDeals /\ bf.hist[p] \subseteq Index
  BY <1>1 DEF BackfillOK
<1>5. \A i \in Numbers(deals[p]) : deals[p][i] <= now
  BY DEF IInv, BfSound
<1> QED
  BY <1>1, <1>2, <1>3, <1>4, <1>5 DEF Totals

\* A write leaves the chain of q, landed or not.
Takes(q) ==
    /\ chain[q] # <<>>
    /\ chain' = [chain EXCEPT ![q] = RemoveAt(@, 1)]
    /\ rows' \in {rows, [rows EXCEPT ![q] = Applied(@, chain[q][1])]}
    /\ (phase' = phase /\ bf' = bf) \/ (phase' = "off" /\ bf' = NotAsked)

LEMMA Taken ==
    ASSUME NEW q \in Position, WriteLands(q) \/ WriteFails(q)
    PROVE  Takes(q) /\ UNCHANGED broker
<1>1. CASE WriteLands(q)
  <2>1. PICK i \in Running(q) : /\ rows' = [rows EXCEPT ![q] = Applied(@, chain[q][i])]
                                /\ chain' = [chain EXCEPT ![q] = RemoveAt(@, i)]
    BY <1>1 DEF WriteLands
  <2>2. i = 1 /\ chain[q] # <<>>
    BY <2>1 DEF Running
  <2> QED
    BY <1>1, <2>1, <2>2 DEF WriteLands, Takes
<1>2. CASE WriteFails(q)
  <2>1. PICK i \in Running(q) :
          /\ rows' \in {rows, [rows EXCEPT ![q] = Applied(@, chain[q][i])]}
          /\ chain' = [chain EXCEPT ![q] = RemoveAt(@, i)]
          /\ (phase' = phase /\ bf' = bf) \/ (phase' = "off" /\ bf' = NotAsked)
    BY <1>2 DEF WriteFails
  <2>2. i = 1 /\ chain[q] # <<>>
    BY <2>1 DEF Running
  <2>3. UNCHANGED broker
    BY <1>2 DEF WriteFails
  <2> QED
    BY <2>1, <2>2, <2>3 DEF Takes
<1> QED
  BY <1>1, <1>2

\* The totals do not mind a backfill that ends.
LEMMA TotalsOff ==
    ASSUME NEW f, NEW b, NEW p \in Position, NEW d \in Days, NEW r, NEW c,
           Totals(f, b, p, d, r, c), NEW g, ~Backfilling(g)
    PROVE  Totals(g, NotAsked, p, d, r, c)
<1>1. Len(d) \in Nat
  BY LenProperties DEF Days
<1>2. /\ NotAsked.upto[p] = 0 /\ NotAsked.hist[p] = {} /\ NotAsked.todo = {}
  BY DEF NotAsked
<1>3. 1 .. 0 = {} /\ UptoSound(g, 0, d, r, c) /\ HistSound(0, {})
  BY <1>1 DEF UptoSound, HistSound
<1> QED
  BY <1>2, <1>3 DEF Totals

LEMMA TotalsTaken ==
    ASSUME IInv, NEW q \in Position, Takes(q), UNCHANGED broker
    PROVE  AllTotals' /\ RowsOK'
<1>1. rows \in [Position -> Rows] /\ chain \in [Position -> Chain]
  BY DEF IInv, TypeOK, RowsOK, Chain
<1>2. /\ \A p \in Position \ {q} : rows'[p] = rows[p] /\ chain'[p] = chain[p]
      /\ rows'[q] \in {rows[q], Applied(rows[q], chain[q][1])}
      /\ chain'[q] = RemoveAt(chain[q], 1)
  BY <1>1 DEF Takes
<1>3. ASSUME NEW p \in Position
      PROVE  /\ rows'[p] \in Rows /\ chain'[p] \in Chain
             /\ Totals(phase, bf, p, deals[p], rows'[p], chain'[p])
  <2>1. CASE p # q
    BY <1>2, <2>1, PositionFacts
  <2>2. CASE p = q
    <3> DEFINE d == deals[q]
               r == rows[q]
               c == chain[q]
               s == rows'[q]
               t == RemoveAt(c, 1)
    <3>1. /\ d \in Days /\ r \in Rows /\ c \in Chain /\ RowSound(d, r) /\ ChainSound(d, r, c)
          /\ c # <<>> /\ s \in {r, Applied(r, c[1])}
      BY <1>2, PositionFacts DEF Takes
    <3>2. UptoSound(phase, bf.upto[q], d, r, c)
      BY PositionFacts
    <3>3. Totals(phase, bf, q, d, r, c)
      BY PositionFacts
    <3> HIDE DEF d, r, c, s
    <3>4. t \in Chain /\ s \in Rows /\ RowSound(d, s) /\ ChainSound(d, s, t)
      BY <3>1, ChainLess
    <3>5. UptoSound(phase, bf.upto[q], d, s, t)
      BY <3>1, <3>2, UptoLess
    <3>6. Totals(phase, bf, q, d, s, t)
      BY <3>3, <3>4, <3>5 DEF Totals
    <3> QED
      BY <1>2, <2>2, <3>4, <3>6 DEF d, r, c, s
  <2> QED
    BY <2>1, <2>2
<1>4. UNCHANGED deals
  BY DEF broker
<1>5. AllTotals'
  <2>1. CASE phase' = phase /\ bf' = bf
    BY <1>3, <1>4, <2>1 DEF AllTotals
  <2>2. CASE phase' = "off" /\ bf' = NotAsked
    <3>1. ~Backfilling("off")
      BY DEF Backfilling
    <3>2. \A p \in Position : Totals("off", NotAsked, p, deals[p], rows'[p], chain'[p])
      BY <1>3, <3>1, TotalsOff, PositionFacts
    <3> QED
      BY <1>4, <2>2, <3>2 DEF AllTotals
  <2> QED
    BY <2>1, <2>2 DEF Takes
<1>6. rows' \in [Position -> Rows] /\ chain' \in [Position -> Chain]
  BY <1>1, <1>3 DEF Takes
<1> QED
  BY <1>5, <1>6 DEF RowsOK, Chain

\* Write w of q goes to the end of its chain; n deals of q were read for it.
Puts(q, w, n) ==
    /\ w \in Writes /\ chain' = [chain EXCEPT ![q] = Append(@, w)]
    /\ Newest(deals[q], n, w)
    /\ Waits /\ w.op = "closed" => NoneNewer(n, rows[q], chain[q])
    /\ Backfilling(phase) => Newest(deals[q], bf.upto[q], w)

\* What the backfill has read of a position it writes.
LEMMA TodoFacts ==
    ASSUME IInv, NEW q \in Position, q \in bf.todo
    PROVE  /\ bf.upto[q] \in 1 .. Len(deals[q]) /\ bf.hist[q] = 1 .. bf.upto[q]
           /\ phase = "writes" /\ NoneNewer(bf.upto[q], rows[q], chain[q])
<1>1. 1 \in bf.hist[q] /\ HistSound(bf.upto[q], bf.hist[q])
      /\ UptoSound(phase, bf.upto[q], deals[q], rows[q], chain[q])
  BY PositionFacts
<1>2. phase = "writes"
  BY DEF IInv, BfSound
<1> QED
  BY <1>1, <1>2 DEF UptoSound, HistSound, NoneNewer, Backfilling

\* Who closes a row has not found the position open: the backfill, or a call of the listener.
Reason(q, w) ==
    w.op = "closed" =>
        \/ phase = "writes" /\ bf.upto[q] > 1 /\ q \notin bf.ids
        \/ /\ phase = "stream" /\ Len(deals[q]) > 1 /\ q \notin openPositionIds
           /\ w.by \in Call /\ Mine(w.by) /\ call[w.by].pc = "fetched"

Enqueued(by) == \E q \in Position : \E w, n : Puts(q, w, n) /\ w.by = by /\ Reason(q, w)

LEMMA OpenWrite ==
    ASSUME IInv, NEW q \in Position, NEW c \in Call, NEW op \in {"open", "price"},
           Enqueue(q, Write(op, c))
    PROVE  Enqueued(c)
<1>1. Write(op, c) \in Writes /\ Write(op, c).op # "closed" /\ Write(op, c).by = c
  BY DealsAssumption DEF Write, Writes, Waiter
<1>2. Puts(q, Write(op, c), 0) /\ Reason(q, Write(op, c))
  BY <1>1 DEF Enqueue, Puts, Newest, Reason
<1> QED
  BY <1>1, <1>2 DEF Enqueued

LEMMA BackfillPuts ==
    ASSUME IInv, NEW q \in Position, BackfillWrites(q)
    PROVE  /\ Enqueued(Backfill)
           /\ UNCHANGED <<broker, rows, phase>>
           /\ q \in bf.todo /\ bf' = [bf EXCEPT !.todo = @ \ {q}]
<1>1. q \in bf.todo /\ Enqueue(q, Aggregate(q, bf.hist[q], bf.ids, Backfill)) /\ BrokerOK
  BY DEF BackfillWrites, IInv, TypeOK
<1>2. Backfill \in Waiter
  BY DEF Waiter
<1> DEFINE n == bf.upto[q]
           w == Aggregate(q, 1 .. n, bf.ids, Backfill)
<1>3. n \in 1 .. Len(deals[q]) /\ bf.hist[q] = 1 .. n /\ NoneNewer(n, rows[q], chain[q])
  BY <1>1, TodoFacts
<1>4. /\ w \in Writes /\ Newest(deals[q], n, w) /\ w.by = Backfill
      /\ w.op = "closed" => n > 1 /\ q \notin bf.ids
  BY <1>1, <1>2, <1>3, AggregateFacts
<1>5. Puts(q, w, n) /\ Reason(q, w)
  BY <1>1, <1>3, <1>4, TodoFacts DEF Puts, Enqueue, Reason
<1>6. Enqueued(Backfill)
  BY <1>4, <1>5 DEF Enqueued
<1> QED
  BY <1>1, <1>6 DEF BackfillWrites

\* The steps of a call that enqueue a write.
Enqueues(c) ==
    \/ \E q \in Position : Replaces(c, q) \/ FetchAnswers(c, q)
    \/ OnPositionUpdated(c) \/ Prices(c)

LEMMA CallPuts ==
    ASSUME IInv, NEW c \in Call, Enqueues(c)
    PROVE  /\ UNCHANGED chain \/ Enqueued(c)
           /\ UNCHANGED <<broker, rows, phase, bf>>
<1>1. BrokerOK /\ StreamOK /\ ListenerOK /\ StreamSound
  BY DEF IInv, TypeOK
<1>2. ASSUME NEW q \in Position, Replaces(c, q)
      PROVE  /\ Enqueued(c)
             /\ UNCHANGED <<broker, rows, phase, bf>>
  <2>1. Enqueued(c)
    BY <1>2, OpenWrite DEF Replaces
  <2> QED
    BY <1>2, <2>1 DEF Replaces
<1>3. CASE OnPositionUpdated(c)
  <2>1. inbox # <<>> /\ Head(inbox).kind = "updated"
    BY <1>3 DEF OnPositionUpdated, Ready
  <2>2. Head(inbox) = inbox[1] /\ 1 \in Numbers(inbox)
    BY <1>1, <2>1, TailFacts DEF StreamOK
  <2>3. \E p \in Position : Head(inbox).about = {p}
    BY <1>1, <2>1, <2>2 DEF StreamSound
  <2> DEFINE p == CHOOSE x \in Position : x \in Head(inbox).about
  <2>4. p \in Position
    BY <2>3
  <2>5. Enqueue(p, Write("open", c))
    BY <1>3 DEF OnPositionUpdated
  <2> HIDE DEF p
  <2>6. Enqueued(c)
    BY <2>4, <2>5, OpenWrite
  <2> QED
    BY <1>3, <2>4, <2>6 DEF OnPositionUpdated, OnEvent
<1>4. CASE Prices(c)
  <2>1. UNCHANGED chain \/ \E p \in call[c].pos : Enqueue(p, Write("price", c))
    BY <1>4 DEF Prices
  <2>2. call[c].pos \subseteq Position
    BY <1>1 DEF ListenerOK, Calls
  <2>3. \A p \in Position : Enqueue(p, Write("price", c)) => Enqueued(c)
    BY OpenWrite
  <2> QED
    BY <1>4, <2>1, <2>2, <2>3 DEF Prices
<1>5. ASSUME NEW q \in Position, FetchAnswers(c, q)
      PROVE  /\ UNCHANGED chain \/ Enqueued(c)
             /\ UNCHANGED <<broker, rows, phase, bf>>
  <2>1. UNCHANGED <<broker, rows, phase, bf>> /\ phase = "stream"
    BY <1>5 DEF FetchAnswers, Connected
  <2>2. CASE UNCHANGED chain
    BY <2>1, <2>2
  <2> DEFINE n == call[c].upto
             w == Aggregate(q, 1 .. n, openPositionIds, c)
  <2>3. /\ n \in Nat /\ Len(deals[q]) \in Nat /\ n <= Len(deals[q])
        /\ Waits => NoneNewer(n, rows[q], chain[q])
    <3>1. AnswerSound(c, q) /\ call[c].pc = "fetched" /\ Mine(c)
      BY <1>5 DEF IInv, Answers, FetchAnswers, Connected
    <3>2. n \in Nat
      BY <1>1, DealsAssumption DEF ListenerOK, Calls
    <3> QED
      BY <3>1, <3>2, PositionFacts DEF AnswerSound
  <2>4. CASE ~Skipped(q, 1 .. n, openPositionIds) /\ Enqueue(q, w)
    <3>1. n \in 1 .. Len(deals[q])
      BY <2>3, <2>4 DEF Skipped
    <3>2. c \in Waiter
      BY DEF Waiter
    <3>3. /\ w \in Writes /\ Newest(deals[q], n, w) /\ w.by = c
          /\ w.op = "closed" => n > 1 /\ q \notin openPositionIds
      BY <1>1, <3>1, <3>2, AggregateFacts
    <3>4. Puts(q, w, n)
      BY <2>1, <2>3, <2>4, <3>3 DEF Puts, Enqueue, Backfilling
    <3>5. w.op = "closed" => Len(deals[q]) > 1
      BY <2>3, <3>3
    <3>6. Reason(q, w)
      BY <1>5, <2>1, <3>3, <3>5 DEF Reason, FetchAnswers, Connected
    <3>7. Enqueued(c)
      BY <3>3, <3>4, <3>6 DEF Enqueued
    <3> QED
      BY <2>1, <3>7
  <2> QED
    BY <1>5, <2>2, <2>3, <2>4 DEF FetchAnswers
<1> QED
  BY <1>2, <1>3, <1>4, <1>5 DEF Enqueues

LEMMA TotalsPut ==
    ASSUME IInv, NEW q \in Position, NEW w, NEW n, Puts(q, w, n), UNCHANGED <<broker, rows, phase>>,
           bf' = bf \/ \E x : bf' = [bf EXCEPT !.todo = @ \ {x}]
    PROVE  AllTotals' /\ RowsOK'
<1>1. /\ rows \in [Position -> Rows] /\ chain \in [Position -> Chain]
      /\ UNCHANGED <<deals, rows, phase>> /\ BackfillOK
  BY DEF IInv, TypeOK, RowsOK, Chain, broker
<1>2. /\ \A p \in Position \ {q} : chain'[p] = chain[p]
      /\ chain'[q] = Append(chain[q], w)
  BY <1>1 DEF Puts
<1>3. ASSUME NEW p \in Position
      PROVE  /\ chain'[p] \in Chain
             /\ Totals(phase, bf, p, deals[p], rows[p], chain'[p])
  <2>1. CASE p # q
    BY <1>2, <2>1, PositionFacts
  <2>2. CASE p = q
    <3> DEFINE d == deals[q]
               r == rows[q]
               c == chain[q]
    <3>1. /\ d \in Days /\ r \in Rows /\ c \in Chain /\ ChainSound(d, r, c) /\ w \in Writes
          /\ UptoSound(phase, bf.upto[q], d, r, c) /\ Totals(phase, bf, q, d, r, c)
      BY PositionFacts DEF Puts
    <3>2. /\ Newest(d, n, w)
          /\ Waits /\ w.op = "closed" => NoneNewer(n, r, c)
          /\ Backfilling(phase) => Newest(d, bf.upto[q], w)
      BY DEF Puts
    <3> HIDE DEF d, r, c
    <3>3. Append(c, w) \in Chain /\ ChainSound(d, r, Append(c, w))
      BY <3>1, <3>2, ChainMore
    <3>4. UptoSound(phase, bf.upto[q], d, r, Append(c, w))
      BY <3>1, <3>2, UptoMore
    <3>5. Totals(phase, bf, q, d, r, Append(c, w))
      BY <3>1, <3>3, <3>4 DEF Totals
    <3> QED
      BY <1>2, <2>2, <3>3, <3>5 DEF d, r, c
  <2> QED
    BY <2>1, <2>2
<1>4. bf'.upto = bf.upto /\ bf'.hist = bf.hist /\ bf'.todo \subseteq bf.todo
  BY <1>1 DEF BackfillOK
<1>5. \A p \in Position : Totals(phase, bf', p, deals[p], rows[p], chain'[p])
  BY <1>3, <1>4 DEF Totals
<1>6. chain' \in [Position -> Chain]
  BY <1>1, <1>3 DEF Puts
<1> QED
  BY <1>1, <1>5, <1>6 DEF AllTotals, RowsOK, Chain

\* The steps of open() that write nothing.
OpenSteps ==
    \/ Opens \/ ReadsWatermark \/ DealsAnswer \/ PositionsAnswer \/ BackfillFails
    \/ BackfillAggregates \/ BackfillEnds \/ Closes

LEMMA TotalsOpenSteps ==
    ASSUME IInv, OpenSteps
    PROVE  AllTotals'
<1>1. UNCHANGED <<deals, rows, chain>>
  BY DEF OpenSteps, Opens, ReadsWatermark, DealsAnswer, PositionsAnswer, BackfillFails,
         BackfillAggregates, BackfillEnds, Closes, BackfillMoves, broker
<1> SUFFICES ASSUME NEW p \in Position
             PROVE  Totals(phase', bf', p, deals[p], rows[p], chain[p])
  BY <1>1 DEF AllTotals
<1> DEFINE d == deals[p]
           r == rows[p]
           c == chain[p]
<1>2. /\ Totals(phase, bf, p, d, r, c) /\ d \in Days /\ r \in Rows /\ c \in Chain
      /\ DaysSound(d) /\ RowSound(d, r) /\ ChainSound(d, r, c)
      /\ UptoSound(phase, bf.upto[p], d, r, c) /\ HistSound(bf.upto[p], bf.hist[p])
      /\ Len(d) \in Nat /\ BackfillOK /\ p \in Position
  BY PositionFacts DEF IInv, TypeOK
<1>3. phase # "writes" => p \notin bf.todo
  BY DEF IInv, BfSound
<1>4. NoneNewer(Len(d), r, c)
  BY <1>2, NoneAhead
<1>5. d = deals[p]
  OBVIOUS
<1> SUFFICES Totals(phase', bf', p, d, r, c)
  OBVIOUS
<1> HIDE DEF d, r, c
<1>6. CASE Opens
  <2>1. phase' = "window" /\ bf' = [NotAsked EXCEPT !.upto = [q \in Position |-> Len(deals[q])]]
    BY <1>6 DEF Opens
  <2>2. bf'.upto[p] = Len(d) /\ bf'.hist[p] = {} /\ bf'.todo = {}
    BY <1>5, <2>1 DEF NotAsked
  <2>3. UptoSound("window", Len(d), d, r, c) /\ HistSound(Len(d), {})
    BY <1>2, <1>4 DEF UptoSound, NoneNewer, HistSound
  <2> QED
    BY <1>2, <2>1, <2>2, <2>3 DEF Totals
<1>7. CASE ReadsWatermark
  <2>1. phase = "window" /\ phase' = "requests" /\ bf' = [bf EXCEPT !.from = WindowFrom]
    BY <1>7 DEF ReadsWatermark
  <2>2. bf'.upto = bf.upto /\ bf'.hist = bf.hist /\ bf'.todo = bf.todo
    BY <1>2, <2>1 DEF BackfillOK
  <2>3. UptoSound("requests", bf.upto[p], d, r, c)
    BY <1>2, <2>1 DEF UptoSound, Backfilling
  <2> QED
    BY <1>2, <2>1, <2>2, <2>3 DEF Totals
<1>8. CASE DealsAnswer
  <2>1. /\ phase = "requests" /\ phase' = phase
        /\ bf' = [bf EXCEPT !.answered = @ \cup {"deals"},
                  !.hist = [q \in Position |->
                              {i \in 1 .. bf.upto[q] : deals[q][i] >= bf.from}]]
    BY <1>8 DEF DealsAnswer, Asked
  <2>2. /\ bf'.upto = bf.upto /\ bf'.todo = bf.todo
        /\ bf'.hist[p] = {i \in 1 .. bf.upto[p] : d[i] >= bf.from}
    BY <1>2, <1>5, <2>1 DEF BackfillOK
  <2> DEFINE h == {i \in 1 .. bf.upto[p] : d[i] >= bf.from}
             n == bf.upto[p]
  <2>3. HistSound(n, h)
    <3>1. SUFFICES ASSUME 1 \in h, NEW i \in 1 .. n PROVE i \in h
      BY DEF HistSound
    <3>2. n \in 0 .. Len(d) /\ n \in Nat /\ bf.from \in Nat
      BY <1>2 DEF UptoSound, BackfillOK
    <3>3. 1 \in Numbers(d) /\ i \in Numbers(d) /\ d[1] >= bf.from
      BY <1>2, <3>1, <3>2 DEF Numbers
    <3>4. d[1] \in Nat /\ d[i] \in Nat /\ (i # 1 => d[1] <= d[i])
      BY <1>2, <3>3 DEF DaysSound, Numbers
    <3>5. d[i] >= bf.from
      BY <3>2, <3>3, <3>4
    <3> QED
      BY <3>1, <3>5
  <2> HIDE DEF h
  <2> QED
    BY <1>2, <1>3, <2>1, <2>2, <2>3 DEF Totals, h
<1>9. CASE PositionsAnswer
  <2>1. /\ phase' = phase
        /\ bf' = [bf EXCEPT !.answered = @ \cup {"positions"}, !.ids = OpenNow]
    BY <1>9 DEF PositionsAnswer
  <2>2. bf'.upto = bf.upto /\ bf'.hist = bf.hist /\ bf'.todo = bf.todo
    BY <1>2, <2>1 DEF BackfillOK
  <2> QED
    BY <1>2, <2>1, <2>2 DEF Totals
<1>10. CASE BackfillFails
  <2>1. phase' = "off" /\ bf' = NotAsked /\ ~Backfilling("off")
    BY <1>10 DEF BackfillFails, Backfilling
  <2> QED
    BY <1>2, <2>1, TotalsOff
<1>11. CASE BackfillAggregates
  <2>1. /\ phase = "requests" /\ phase' = "writes"
        /\ bf' = [bf EXCEPT !.todo = {q \in Position : ~Skipped(q, bf.hist[q], bf.ids)}]
    BY <1>11 DEF BackfillAggregates
  <2>2. bf'.upto = bf.upto /\ bf'.hist = bf.hist /\ (p \in bf'.todo => 1 \in bf.hist[p])
    BY <1>2, <2>1 DEF BackfillOK, Skipped
  <2>3. UptoSound("writes", bf.upto[p], d, r, c)
    BY <1>2, <2>1 DEF UptoSound, Backfilling
  <2> QED
    BY <1>2, <2>1, <2>2, <2>3 DEF Totals
<1>12. CASE BackfillEnds
  <2>1. phase' = "stream" /\ bf' = NotAsked /\ ~Backfilling("stream")
    BY <1>12 DEF BackfillEnds, Backfilling
  <2> QED
    BY <1>2, <2>1, TotalsOff
<1>13. CASE Closes
  <2>1. phase' = "off" /\ bf' = bf /\ ~Backfilling("off")
    BY <1>13 DEF Closes, Backfilling
  <2>2. UptoSound("off", bf.upto[p], d, r, c)
    BY <1>2, <2>1 DEF UptoSound
  <2> QED
    BY <1>2, <2>1, <2>2 DEF Totals
<1> QED
  BY <1>6, <1>7, <1>8, <1>9, <1>10, <1>11, <1>12, <1>13 DEF OpenSteps

LEMMA TotalsRestart ==
    ASSUME IInv, Restart
    PROVE  AllTotals' /\ RowsOK'
<1>1. /\ chain' = [p \in Position |-> <<>>] /\ UNCHANGED <<deals, rows>>
      /\ phase' = "off" /\ bf' = NotAsked /\ ~Backfilling("off")
  BY DEF Restart, broker, Backfilling
<1>2. <<>> \in Chain /\ Numbers(<<>>) = {}
  BY EmptySeq DEF Chain, Numbers
<1>3. ASSUME NEW p \in Position PROVE Totals("off", NotAsked, p, deals[p], rows[p], <<>>)
  <2>1. Totals("off", NotAsked, p, deals[p], rows[p], chain[p])
    BY <1>1, PositionFacts, TotalsOff
  <2>2. ChainSound(deals[p], rows[p], <<>>) /\ UptoSound("off", 0, deals[p], rows[p], <<>>)
    BY <1>1, <1>2, PositionFacts DEF ChainSound, InOrder, UptoSound
  <2>3. NotAsked.upto[p] = 0
    BY DEF NotAsked
  <2> QED
    BY <2>1, <2>2, <2>3 DEF Totals
<1> QED
  BY <1>1, <1>2, <1>3 DEF AllTotals, RowsOK, Chain, IInv, TypeOK

\* The broker adds a deal to position q.
LEMMA DealFacts ==
    ASSUME IInv, NEW q \in Position, Broker(q)
    PROVE  /\ Deal(q) /\ deals' = [deals EXCEPT ![q] = Append(@, now)]
           /\ deals'[q] = Append(deals[q], now) /\ Len(deals[q]) < MaxDeals
           /\ \A p \in Position \ {q} : deals'[p] = deals[p]
           /\ UNCHANGED <<now, sibling, rows, chain, phase, bf, link, replaying, told,
                          listener, call, faults, drops>>
<1>1. Deal(q)
  BY DEF Broker, PositionOpens, PartClosed, PositionCloses
<1>2. deals \in [Position -> Seq(1 .. MaxDay)]
  BY DEF IInv, TypeOK, BrokerOK
<1> QED
  BY <1>1, <1>2 DEF Deal

LEMMA TotalsDeal ==
    ASSUME IInv, NEW q \in Position, Broker(q)
    PROVE  /\ AllTotals' /\ deals' \in [Position -> Days]
           /\ \A p \in Position : /\ Len(deals'[p]) <= MaxDeals
                                  /\ \A i \in Numbers(deals'[p]) : deals'[p][i] <= now
<1>1. now \in 1 .. MaxDay /\ deals \in [Position -> Days] /\ MaxDeals \in Nat
  BY DealsAssumption DEF IInv, TypeOK, BrokerOK, Days
<1>2. ASSUME NEW p \in Position
      PROVE  /\ deals'[p] \in Days /\ Len(deals'[p]) <= MaxDeals
             /\ Totals(phase, bf, p, deals'[p], rows[p], chain[p])
             /\ \A i \in Numbers(deals'[p]) : deals'[p][i] <= now
  <2>1. CASE p # q
    BY <2>1, DealFacts, PositionFacts
  <2>2. CASE p = q
    <3> DEFINE d == deals[q]
               r == rows[q]
               c == chain[q]
    <3>1. /\ d \in Days /\ r \in Rows /\ c \in Chain /\ Totals(phase, bf, q, d, r, c)
          /\ \A i \in Numbers(d) : d[i] <= now
          /\ Len(d) \in Nat /\ Len(d) < MaxDeals /\ deals'[q] = Append(d, now)
      BY PositionFacts, DealFacts
    <3> HIDE DEF d, r, c
    <3>2. /\ Append(d, now) \in Days /\ Len(Append(d, now)) = Len(d) + 1
          /\ Totals(phase, bf, q, Append(d, now), r, c)
          /\ \A i \in Numbers(Append(d, now)) : Append(d, now)[i] <= now
      BY <1>1, <3>1, DealsMore
    <3>3. Len(Append(d, now)) <= MaxDeals
      BY <1>1, <3>1, <3>2
    <3> QED
      BY <2>2, <3>1, <3>2, <3>3 DEF d, r, c
  <2> QED
    BY <2>1, <2>2
<1>3. deals' \in [Position -> Days]
  BY <1>1, <1>2, DealFacts
<1> QED
  BY <1>2, <1>3, DealFacts DEF AllTotals

\* The steps that touch neither rows nor writes, and no deals.
Aside ==
    \/ StreamUp \/ HistoryEnds \/ StreamDrops \/ SiblingExits \/ DayPasses
    \/ \E c \in Call : \/ OnDealsSynchronized(c) \/ OnPositionsReplaced(c)
                       \/ OnPositionRemoved(c) \/ OnDealAdded(c)
                       \/ CallEnds(c) \/ FetchFails(c)
                       \/ \E q \in Position : FetchReads(c, q)

LEMMA AsideFacts ==
    ASSUME Aside
    PROVE  UNCHANGED <<deals, over, rows, chain, phase, bf>>
BY DEF Aside, StreamUp, HistoryEnds, StreamDrops, SiblingExits, DayPasses,
       OnDealsSynchronized, OnPositionsReplaced, OnPositionRemoved, OnDealAdded,
       CallEnds, FetchFails, FetchReads, OnEvent, broker, stream

LEMMA NextCases ==
    ASSUME [Next]_vars
    PROVE  \/ \E q \in Position : WriteLands(q) \/ WriteFails(q)
           \/ \E q \in Position : BackfillWrites(q)
           \/ \E c \in Call : Enqueues(c)
           \/ OpenSteps
           \/ Restart
           \/ \E q \in Position : Broker(q)
           \/ Aside
           \/ UNCHANGED vars
BY DEF Next, System, Chains, Backfills, Stream, Callback, Continues, Enqueues, OpenSteps, Aside

LEMMA TotalsStep ==
    ASSUME IInv, [Next]_vars
    PROVE  AllTotals' /\ RowsOK'
<1>0. AllTotals /\ RowsOK
  BY DEF IInv, TypeOK, AllTotals
<1>1. CASE \E q \in Position : WriteLands(q) \/ WriteFails(q)
  BY <1>1, Taken, TotalsTaken
<1>2. CASE \E q \in Position : BackfillWrites(q)
  BY <1>2, BackfillPuts, TotalsPut DEF Enqueued
<1>3. CASE \E c \in Call : Enqueues(c)
  <2>1. UNCHANGED <<broker, rows, phase, bf>>
    BY <1>3, CallPuts
  <2>2. CASE UNCHANGED chain
    BY <1>0, <2>1, <2>2 DEF AllTotals, RowsOK, broker
  <2>3. CASE \E c \in Call : Enqueued(c)
    BY <2>1, <2>3, TotalsPut DEF Enqueued
  <2> QED
    BY <1>3, <2>2, <2>3, CallPuts
<1>4. CASE OpenSteps
  <2>1. UNCHANGED <<rows, chain>>
    BY <1>4 DEF OpenSteps, Opens, ReadsWatermark, DealsAnswer, PositionsAnswer, BackfillFails,
           BackfillAggregates, BackfillEnds, Closes, BackfillMoves
  <2> QED
    BY <1>0, <1>4, <2>1, TotalsOpenSteps DEF RowsOK
<1>5. CASE Restart
  BY <1>5, TotalsRestart
<1>6. CASE \E q \in Position : Broker(q)
  <2>1. UNCHANGED <<rows, chain>>
    BY <1>6, DealFacts
  <2> QED
    BY <1>0, <1>6, <2>1, TotalsDeal DEF RowsOK
<1>7. CASE Aside
  BY <1>0, <1>7, AsideFacts DEF AllTotals, RowsOK
<1>8. CASE UNCHANGED vars
  BY <1>0, <1>8 DEF AllTotals, RowsOK, vars, broker
<1> QED
  BY <1>1, <1>2, <1>3, <1>4, <1>5, <1>6, <1>7, <1>8, NextCases

-----------------------------------------------------------------------------
(* Types, step by step.                                                    *)

LEMMA BrokerStep ==
    ASSUME IInv, [Next]_vars
    PROVE  BrokerOK'
<1>1. BrokerOK /\ MaxDay \in Nat
  BY DealsAssumption DEF IInv, TypeOK
<1>2. CASE UNCHANGED broker
  BY <1>1, <1>2 DEF broker, BrokerOK
<1>3. CASE \E q \in Position : Broker(q)
  <2>1. PICK q \in Position : Broker(q)
    BY <1>3
  <2>2. deals' \in [Position -> Days] /\ \A p \in Position : Len(deals'[p]) <= MaxDeals
    BY <2>1, TotalsDeal
  <2>3. UNCHANGED <<now, sibling>>
    BY <2>1, DealFacts
  <2>4. over' \in SUBSET Position
    BY <1>1, <2>1 DEF Broker, PositionOpens, PartClosed, PositionCloses, BrokerOK
  <2> QED
    BY <1>1, <2>2, <2>3, <2>4 DEF BrokerOK, Days
<1>4. CASE SiblingExits
  BY <1>1, <1>4 DEF SiblingExits, BrokerOK
<1>5. CASE DayPasses
  BY <1>1, <1>5 DEF DayPasses, BrokerOK
<1>6. CASE Aside /\ ~SiblingExits /\ ~DayPasses
  BY <1>2, <1>6 DEF Aside, StreamUp, HistoryEnds, StreamDrops,
         OnDealsSynchronized, OnPositionsReplaced, OnPositionRemoved, OnDealAdded,
         CallEnds, FetchFails, FetchReads, OnEvent
<1>7. CASE OpenSteps
  BY <1>2, <1>7 DEF OpenSteps, Opens, ReadsWatermark, DealsAnswer, PositionsAnswer,
         BackfillFails, BackfillAggregates, BackfillEnds, Closes, BackfillMoves
<1>8. CASE Restart \/ UNCHANGED vars
  BY <1>2, <1>8 DEF Restart, vars
<1> QED
  BY <1>2, <1>3, <1>4, <1>5, <1>6, <1>7, <1>8, NextCases, Taken, BackfillPuts, CallPuts

LEMMA NotAskedType ==
    /\ NotAsked \in [from : Nat, upto : [Position -> 0 .. MaxDeals],
                     answered : SUBSET {"deals", "positions"}, ids : SUBSET Position,
                     hist : [Position -> SUBSET Index], todo : SUBSET Position]
    /\ NotAsked.upto = [p \in Position |-> 0] /\ NotAsked.hist = [p \in Position |-> {}]
    /\ NotAsked.answered = {} /\ NotAsked.ids = {} /\ NotAsked.todo = {}
BY DealsAssumption DEF NotAsked

LEMMA WindowType == IInv => WindowFrom \in Nat
<1> SUFFICES ASSUME IInv PROVE WindowFrom \in Nat
  OBVIOUS
<1>1. /\ now \in Nat /\ sibling \in 0 .. MaxDay
      /\ MaxDay \in Nat /\ {Lookback, Buffer, Clamp} \subseteq Nat
  BY DealsAssumption DEF IInv, TypeOK, BrokerOK
<1>2. Exits \subseteq 0 .. MaxDay
  <2>1. SUFFICES ASSUME NEW p \in Position, rows[p].exit # 0
                 PROVE  deals[p][rows[p].exit] \in 0 .. MaxDay
    BY DEF Exits
  <2>2. RowSound(deals[p], rows[p]) /\ DaysSound(deals[p]) /\ Len(deals[p]) \in Nat
    BY PositionFacts
  <2>3. rows[p].exit \in 2 .. Len(deals[p])
    BY <2>1, <2>2 DEF RowSound, Final
  <2>4. rows[p].exit \in Numbers(deals[p])
    BY <2>2, <2>3 DEF Numbers
  <2> QED
    BY <1>1, <2>2, <2>4 DEF DaysSound
<1> DEFINE newest == Max(Exits \cup {sibling})
           floor == Minus(now, Lookback)
           first == IF newest = 0 THEN floor ELSE Minus(newest, Buffer)
<1>3. newest \in Nat
  <2>1. Exits \cup {sibling} \in SUBSET (0 .. MaxDay) /\ Exits \cup {sibling} # {}
    BY <1>1, <1>2
  <2>2. newest \in 0 .. MaxDay
    BY <1>1, <2>1, MaxOfDays
  <2> QED
    BY <2>2
<1> HIDE DEF newest
<1>4. floor \in Nat
  BY <1>1 DEF Minus
<1> HIDE DEF floor
<1>5. first \in Nat
  BY <1>1, <1>3, <1>4 DEF Minus
<1> HIDE DEF first
<1>6. Max({first, floor, Clamp}) \in {first, floor, Clamp}
  <2>1. \E x \in {first, floor, Clamp} : \A y \in {first, floor, Clamp} : x >= y
    BY <1>1, <1>4, <1>5
  <2> QED
    BY <2>1 DEF Max
<1> QED
  BY <1>1, <1>4, <1>5, <1>6 DEF WindowFrom, newest, floor, first

LEMMA BackfillStep ==
    ASSUME IInv, [Next]_vars
    PROVE  BackfillOK'
<1>1. BackfillOK
  BY DEF IInv, TypeOK
<1>2. CASE UNCHANGED <<phase, bf>>
  BY <1>1, <1>2 DEF BackfillOK
<1>3. CASE \E q \in Position : WriteLands(q) \/ WriteFails(q)
  <2>1. (phase' = phase /\ bf' = bf) \/ (phase' = "off" /\ bf' = NotAsked)
    BY <1>3, Taken DEF Takes
  <2> QED
    BY <1>1, <2>1, NotAskedType DEF BackfillOK
<1>4. CASE \E q \in Position : BackfillWrites(q)
  <2>1. PICK q \in Position : phase' = phase /\ bf' = [bf EXCEPT !.todo = @ \ {q}]
    BY <1>4, BackfillPuts
  <2> QED
    BY <1>1, <2>1 DEF BackfillOK
<1>5. CASE Opens
  <2> DEFINE n == [p \in Position |-> Len(deals[p])]
  <2>1. phase' = "window" /\ bf' = [NotAsked EXCEPT !.upto = n]
    BY <1>5 DEF Opens
  <2>2. n \in [Position -> 0 .. MaxDeals]
    BY PositionFacts
  <2> HIDE DEF n
  <2> QED
    BY <2>1, <2>2, NotAskedType DEF BackfillOK
<1>6. CASE ReadsWatermark
  <2>1. phase' = "requests" /\ bf' = [bf EXCEPT !.from = WindowFrom]
    BY <1>6 DEF ReadsWatermark
  <2> QED
    BY <1>1, <2>1, WindowType DEF BackfillOK
<1>7. CASE DealsAnswer
  <2> DEFINE h == [p \in Position |-> {i \in 1 .. bf.upto[p] : deals[p][i] >= bf.from}]
  <2>1. phase' = phase /\ bf' = [bf EXCEPT !.answered = @ \cup {"deals"}, !.hist = h]
    BY <1>7 DEF DealsAnswer
  <2>2. h \in [Position -> SUBSET Index]
    <3>1. SUFFICES ASSUME NEW p \in Position, NEW i \in 1 .. bf.upto[p] PROVE i \in Index
      OBVIOUS
    <3>2. bf.upto[p] \in 0 .. MaxDeals /\ MaxDeals \in Nat
      BY DealsAssumption, PositionFacts
    <3> QED
      BY <3>2 DEF Index
  <2> HIDE DEF h
  <2> QED
    BY <1>1, <2>1, <2>2 DEF BackfillOK
<1>8. CASE PositionsAnswer
  <2>1. phase' = phase /\ bf' = [bf EXCEPT !.answered = @ \cup {"positions"}, !.ids = OpenNow]
    BY <1>8 DEF PositionsAnswer
  <2> QED
    BY <1>1, <2>1 DEF BackfillOK, OpenNow
<1>9. CASE BackfillAggregates
  <2>1. /\ phase' = "writes"
        /\ bf' = [bf EXCEPT !.todo = {q \in Position : ~Skipped(q, bf.hist[q], bf.ids)}]
    BY <1>9 DEF BackfillAggregates
  <2> QED
    BY <1>1, <2>1 DEF BackfillOK
<1>10. CASE BackfillFails \/ BackfillEnds \/ Restart
  BY <1>10, NotAskedType DEF BackfillFails, BackfillEnds, Restart, BackfillOK
<1>11. CASE Closes
  BY <1>1, <1>11 DEF Closes, BackfillOK
<1>12. CASE OpenSteps
  BY <1>5, <1>6, <1>7, <1>8, <1>9, <1>10, <1>11, <1>12 DEF OpenSteps
<1> QED
  BY <1>2, <1>3, <1>4, <1>10, <1>12, NextCases, CallPuts, DealFacts, AsideFacts DEF vars

-----------------------------------------------------------------------------
(* The inbox of the listener, step by step.                                *)

LEMMA EventType ==
    /\ \A kind \in {"replaced", "updated", "removed", "synchronized"}, S \in SUBSET Position :
        Event(kind, S) \in Events /\ Event(kind, S).kind = kind /\ Event(kind, S).about = S
    /\ \A p \in Position, n \in 0 .. MaxDeals :
        DealEvent(p, n) \in Events /\ DealEvent(p, n).kind = "deal"
BY DealsAssumption DEF Event, DealEvent, Events

\* A stream that comes up tells the open positions first.
LEMMA StreamUpInbox ==
    ASSUME IInv, StreamUp
    PROVE  /\ inbox' \in Seq(Events) /\ inbox' # <<>>
           /\ inbox'[1] = Event("replaced", OpenNow)
           /\ \A i \in Numbers(inbox') : i # 1 => inbox'[i].kind = "deal"
<1> DEFINE S == {p \in Position : told[p] < Len(deals[p])}
           first == <<Event("replaced", OpenNow)>>
<1>1. PICK order \in SetToSeqs(S) :
        inbox' = first \o [i \in DOMAIN order |-> DealEvent(order[i], Len(deals[order[i]]))]
  BY DEF StreamUp
<1>2. Cardinality(S) \in Nat
  <2>1. IsFiniteSet(S)
    BY DealsAssumption, FS_Subset
  <2> QED
    BY <2>1, FS_CardinalityType
<1> DEFINE n == Cardinality(S)
           news == [i \in DOMAIN order |-> DealEvent(order[i], Len(deals[order[i]]))]
<1>3. order \in [1 .. n -> S]
  BY <1>1 DEF SetToSeqs
<1>4. \A i \in 1 .. n : order[i] \in Position
  BY <1>3
<1>5. \A i \in 1 .. n : Len(deals[order[i]]) \in 0 .. MaxDeals
  BY <1>4, PositionFacts
<1> HIDE DEF n, S
<1>6. news = [i \in 1 .. n |-> DealEvent(order[i], Len(deals[order[i]]))]
  BY <1>3
<1>7. news \in [1 .. n -> Events] /\ \A i \in 1 .. n : news[i].kind = "deal"
  BY <1>4, <1>5, <1>6, EventType
<1>8. news \in Seq(Events) /\ Len(news) = n
  <2>1. n \in Nat
    BY <1>2 DEF n
  <2> HIDE DEF news
  <2> QED
    BY <1>7, <2>1
<1>9. Event("replaced", OpenNow) \in Events
  BY EventType DEF OpenNow
<1>10. first \in Seq(Events) /\ Len(first) = 1 /\ first[1] = Event("replaced", OpenNow)
  BY <1>9
<1>11. inbox' = first \o news
  BY <1>1
<1> HIDE DEF first, news
<1>12. /\ inbox' \in Seq(Events) /\ Len(inbox') = 1 + n
       /\ \A i \in 1 .. Len(inbox') : inbox'[i] = IF i <= 1 THEN first[i] ELSE news[i - 1]
  <2>1. /\ first \o news \in Seq(Events) /\ Len(first \o news) = Len(first) + Len(news)
        /\ \A i \in 1 .. Len(first) + Len(news) :
             (first \o news)[i] = IF i <= Len(first) THEN first[i] ELSE news[i - Len(first)]
    BY <1>8, <1>10, ConcatProperties
  <2> QED
    BY <1>8, <1>10, <1>11, <2>1
<1>13. n \in Nat
  BY <1>2 DEF n
<1>14. inbox' # <<>>
  BY <1>12, <1>13
<1>15. 1 \in 1 .. Len(inbox')
  BY <1>12, <1>13
<1>16. \A i \in 1 .. Len(inbox') : i # 1 => i - 1 \in 1 .. n /\ ~(i <= 1)
  BY <1>12, <1>13
<1> QED
  BY <1>7, <1>10, <1>12, <1>14, <1>15, <1>16 DEF Numbers

\* What the stream sends comes after what is under way.
LEMMA SendsInbox ==
    ASSUME IInv, NEW q \in Position, NEW kind \in {"updated", "removed"}, Sends(q, kind),
           Len(deals[q]) < MaxDeals
    PROVE  /\ inbox' \in Seq(Events)
           /\ ~link => inbox' = inbox
           /\ \A i \in Numbers(inbox) : i \in Numbers(inbox') /\ inbox'[i] = inbox[i]
           /\ \A i \in Numbers(inbox') :
                \/ i \in Numbers(inbox) /\ inbox'[i] = inbox[i]
                \/ inbox'[i].kind = "deal"
                \/ inbox'[i] = Event(kind, {q})
<1> DEFINE change == Event(kind, {q})
           deal == DealEvent(q, Len(deals[q]) + 1)
<1>1. inbox \in Seq(Events) /\ Len(inbox) \in Nat
  BY LenProperties DEF IInv, TypeOK, StreamOK
<1>2. CASE ~link
  BY <1>1, <1>2 DEF Sends, Numbers
<1>3. CASE link
  <2>1. PICK news \in {<<change, deal>>, <<deal, change>>} : inbox' = inbox \o news
    BY <1>3 DEF Sends
  <2>2. change \in Events
    BY EventType
  <2>3. deal \in Events /\ deal.kind = "deal"
    <3>1. Len(deals[q]) + 1 \in 0 .. MaxDeals
      BY PositionFacts, DealsAssumption
    <3> QED
      BY <3>1, EventType
  <2> HIDE DEF change, deal
  <2>4. /\ news \in Seq(Events) /\ Len(news) = 2
        /\ \A i \in 1 .. 2 : news[i] \in {change, deal}
    BY <2>1, <2>2, <2>3
  <2>5. /\ inbox' \in Seq(Events) /\ Len(inbox') = Len(inbox) + 2
        /\ \A i \in 1 .. Len(inbox') :
             inbox'[i] = IF i <= Len(inbox) THEN inbox[i] ELSE news[i - Len(inbox)]
    <3>1. /\ inbox \o news \in Seq(Events) /\ Len(inbox \o news) = Len(inbox) + Len(news)
          /\ \A i \in 1 .. Len(inbox) + Len(news) :
               (inbox \o news)[i] = IF i <= Len(inbox) THEN inbox[i] ELSE news[i - Len(inbox)]
      BY <1>1, <2>4, ConcatProperties
    <3> QED
      BY <1>1, <2>1, <2>4, <3>1
  <2>6. \A i \in Numbers(inbox) : i \in Numbers(inbox') /\ inbox'[i] = inbox[i]
    BY <1>1, <2>5 DEF Numbers
  <2>7. ASSUME NEW i \in Numbers(inbox'), i \notin Numbers(inbox)
        PROVE  inbox'[i] \in {change, deal}
    <3>1. ~(i <= Len(inbox)) /\ i - Len(inbox) \in 1 .. 2
      BY <1>1, <2>5, <2>7 DEF Numbers
    <3> QED
      BY <2>4, <2>5, <2>7, <3>1 DEF Numbers
  <2> QED
    BY <1>3, <2>3, <2>5, <2>6, <2>7 DEF change
<1> QED
  BY <1>2, <1>3

\* The callback that is made is the first of the inbox.
LEMMA EventInbox ==
    ASSUME IInv, NEW c \in Call, Ready(c), OnEvent
    PROVE  /\ inbox # <<>> /\ inbox' \in Seq(Events) /\ Head(inbox) = inbox[1]
           /\ inbox[1] \in Events /\ 1 \in Numbers(inbox) /\ Rest(inbox, inbox')
           /\ inbox' # <<>> => 1 \in Numbers(inbox')
           /\ UNCHANGED <<broker, rows, phase, bf, link, replaying, cur, faults, drops,
                          history>>
<1>1. inbox \in Seq(Events)
  BY DEF IInv, TypeOK, StreamOK
<1>2. inbox # <<>> /\ inbox' = Tail(inbox)
  BY DEF Ready, OnEvent
<1>3. inbox' \in Seq(Events) /\ Rest(inbox, inbox') /\ Head(inbox) = inbox[1]
      /\ inbox[1] \in Events /\ 1 \in Numbers(inbox)
  BY <1>1, <1>2, TailFacts
<1>4. inbox' # <<>> => 1 \in Numbers(inbox')
  BY <1>3, EmptySeq, LenProperties DEF Numbers
<1> QED
  BY <1>2, <1>3, <1>4 DEF OnEvent

-----------------------------------------------------------------------------
(* Types of stream and listener, step by step.                             *)

\* The actions that change nothing of the stream.
OffStream ==
    \/ \E q \in Position : WriteLands(q) \/ WriteFails(q) \/ BackfillWrites(q)
    \/ Opens \/ ReadsWatermark \/ DealsAnswer \/ PositionsAnswer \/ BackfillFails
    \/ BackfillAggregates
    \/ \E c \in Call :
        \/ \E q \in Position : Replaces(c, q) \/ FetchReads(c, q) \/ FetchAnswers(c, q)
        \/ Prices(c) \/ CallEnds(c) \/ FetchFails(c)
    \/ SiblingExits \/ DayPasses

Callbacks(c) ==
    \/ OnDealsSynchronized(c) \/ OnPositionsReplaced(c)
    \/ OnPositionUpdated(c) \/ OnPositionRemoved(c) \/ OnDealAdded(c)

LEMMA OffStreamFacts ==
    ASSUME OffStream
    PROVE  UNCHANGED stream
BY DEF OffStream, WriteLands, WriteFails, BackfillWrites, Opens, ReadsWatermark, DealsAnswer,
       PositionsAnswer, BackfillFails, BackfillAggregates, BackfillMoves, Replaces, FetchReads, FetchAnswers,
       Prices, CallEnds, FetchFails, SiblingExits, DayPasses

LEMMA StreamCases ==
    ASSUME [Next]_vars
    PROVE  \/ OffStream \/ BackfillEnds \/ Closes \/ Restart \/ StreamUp \/ HistoryEnds
           \/ StreamDrops \/ \E c \in Call : Callbacks(c)
           \/ \E q \in Position : Broker(q)
           \/ UNCHANGED vars
BY DEF Next, System, Chains, Backfills, Stream, Callback, Continues, OffStream, Callbacks

LEMMA CallbackFacts ==
    ASSUME NEW c \in Call, Callbacks(c)
    PROVE  Ready(c) /\ OnEvent
BY DEF Callbacks, OnDealsSynchronized, OnPositionsReplaced, OnPositionUpdated, OnPositionRemoved,
       OnDealAdded

LEMMA StreamStep ==
    ASSUME IInv, [Next]_vars
    PROVE  StreamOK'
<1>1. StreamOK /\ MaxDeals \in Nat
  BY DealsAssumption DEF IInv, TypeOK
<1>2. <<>> \in Seq(Events)
  BY EmptySeq
<1>3. CASE UNCHANGED stream
  BY <1>1, <1>3 DEF StreamOK, stream
<1>4. CASE BackfillEnds
  BY <1>1, <1>4 DEF StreamOK, BackfillEnds
<1>5. CASE Closes \/ Restart \/ StreamDrops
  BY <1>1, <1>2, <1>5 DEF StreamOK, Closes, Restart, StreamDrops
<1>6. CASE StreamUp
  <2>1. inbox' \in Seq(Events)
    BY <1>6, StreamUpInbox
  <2> QED
    BY <1>1, <1>6, <2>1 DEF StreamOK, StreamUp
<1>7. CASE HistoryEnds
  <2>1. Event("synchronized", {}) \in Events
    BY EventType
  <2>2. Append(inbox, Event("synchronized", {})) \in Seq(Events)
    BY <1>1, <2>1, AppendProperties DEF StreamOK
  <2> QED
    BY <1>1, <1>7, <2>2 DEF StreamOK, HistoryEnds
<1>8. ASSUME NEW c \in Call, Callbacks(c) PROVE StreamOK'
  <2>1. /\ inbox' \in Seq(Events) /\ Head(inbox) \in Events /\ UNCHANGED <<link, replaying>>
    BY <1>8, CallbackFacts, EventInbox
  <2>2. told' \in [Position -> 0 .. MaxDeals]
    <3>1. CASE UNCHANGED told
      BY <1>1, <3>1 DEF StreamOK
    <3>2. CASE OnDealAdded(c)
      <4>1. told' = [p \in Position |-> IF p \in Head(inbox).about
                                        THEN Head(inbox).upto ELSE told[p]]
        BY <3>2 DEF OnDealAdded
      <4>2. Head(inbox).upto \in 0 .. MaxDeals
        BY <2>1 DEF Events
      <4>3. \A p \in Position : told[p] \in 0 .. MaxDeals
        BY <1>1 DEF StreamOK
      <4> QED
        BY <4>1, <4>2, <4>3
    <3> QED
      BY <1>8, <3>1, <3>2 DEF Callbacks, OnDealsSynchronized, OnPositionsReplaced,
             OnPositionUpdated, OnPositionRemoved
  <2> QED
    BY <1>1, <2>1, <2>2 DEF StreamOK
<1>9. ASSUME NEW q \in Position, Broker(q) PROVE StreamOK'
  <2>1. UNCHANGED <<link, replaying, told>> /\ Len(deals[q]) < MaxDeals
    BY <1>9, DealFacts
  <2>2. \E kind \in {"updated", "removed"} : Sends(q, kind)
    BY <1>9 DEF Broker, PositionOpens, PartClosed, PositionCloses
  <2>3. inbox' \in Seq(Events)
    BY <2>1, <2>2, SendsInbox
  <2> QED
    BY <1>1, <2>1, <2>3 DEF StreamOK
<1>10. CASE UNCHANGED vars
  BY <1>3, <1>10 DEF vars
<1> QED
  BY <1>3, <1>4, <1>5, <1>6, <1>7, <1>8, <1>9, <1>10, StreamCases, OffStreamFacts

Status == {"free", "writing", "pricing", "fetching", "fetched"}

LEMMA CallFacts ==
    ASSUME IInv
    PROVE  /\ call \in [Call -> Calls] /\ cur \in 0 .. MaxOpens /\ MaxOpens \in Nat
           /\ openPositionIds \subseteq Position
           /\ FreeCall \in Calls /\ FreeCall.pc = "free" /\ FreeCall.by = 0 /\ FreeCall.pos = {}
           /\ \A c \in Call : /\ call[c].pc \in Status /\ call[c].by \in 0 .. MaxOpens
                              /\ call[c].pos \subseteq Position /\ call[c].by <= cur
<1>1. MaxOpens \in Nat /\ MaxDeals \in Nat
  BY DealsAssumption
<1>2. \A c \in Call : call[c].by <= cur
  BY DEF IInv, StreamSound
<1>3. ListenerOK
  BY DEF IInv, TypeOK
<1> QED
  BY <1>1, <1>2, <1>3 DEF ListenerOK, Calls, Status, FreeCall

\* The listener's side of a step: one call at most changes.
CallTo(c, v) == v \in Calls /\ call' = [call EXCEPT ![c] = v]

\* The call that reads.
Read(c, p) == [call[c] EXCEPT !.pc = "fetched", !.pos = {p}, !.upto = Len(deals[p])]

LEMMA ReadsFacts ==
    ASSUME IInv, NEW c \in Call, NEW p \in Position, FetchReads(c, p)
    PROVE  /\ CallTo(c, Read(c, p)) /\ call'[c] = Read(c, p)
           /\ Read(c, p).pc = "fetched" /\ Read(c, p).by = call[c].by
           /\ Read(c, p).pos = {p} /\ Read(c, p).upto = Len(deals[p])
           /\ call[c].pc = "fetching"
<1> DEFINE v == Read(c, p)
           n == Len(deals[p])
<1>1. n \in 0 .. MaxDeals
  BY PositionFacts, DealsAssumption
<1>2. call \in [Call -> Calls] /\ call[c].pc = "fetching" /\ call' = [call EXCEPT ![c] = v]
  BY CallFacts DEF FetchReads, Read
<1>3. v = [call[c] EXCEPT !.pc = "fetched", !.pos = {p}, !.upto = n]
  BY DEF Read
<1> HIDE DEF v, n
<1>4. /\ v \in Calls /\ v.pc = "fetched" /\ v.by = call[c].by /\ v.pos = {p} /\ v.upto = n
  BY <1>1, <1>2, <1>3 DEF Calls
<1> QED
  BY <1>2, <1>4 DEF CallTo, v, n

LEMMA CallStep ==
    ASSUME IInv, [Next]_vars
    PROVE  \/ UNCHANGED call
           \/ \E c \in Call, v \in Calls : CallTo(c, v)
           \/ call' = [c \in Call |-> FreeCall]
<1>1. ASSUME NEW c \in Call, NEW pc \in Status, NEW S \in SUBSET Position, Called(c, pc, S)
      PROVE  \E v \in Calls : CallTo(c, v)
  <2> DEFINE v == [FreeCall EXCEPT !.pc = pc, !.by = cur, !.pos = S]
  <2>1. v \in Calls
    BY CallFacts DEF Calls, Status
  <2> HIDE DEF v
  <2> QED
    BY <1>1, <2>1 DEF CallTo, Called, v
<1>2. ASSUME NEW c \in Call, Callbacks(c)
      PROVE  UNCHANGED call \/ \E v \in Calls : CallTo(c, v)
  <2>1. Head(inbox) \in Events
    BY <1>2, CallbackFacts, EventInbox
  <2>2. Head(inbox).about \in SUBSET Position
    BY <2>1 DEF Events
  <2>3. UNCHANGED call \/ \E pc \in Status : Called(c, pc, Head(inbox).about)
    BY <1>2 DEF Callbacks, OnDealsSynchronized, OnPositionsReplaced, OnPositionUpdated,
           OnPositionRemoved, OnDealAdded, Finalizes, Status
  <2> QED
    BY <1>1, <2>2, <2>3
<1>3. ASSUME NEW c \in Call, NEW S \in SUBSET Position, NEW pc \in Status,
             call' = [call EXCEPT ![c] = [@ EXCEPT !.pc = pc, !.pos = S]]
      PROVE  \E v \in Calls : CallTo(c, v)
  <2>1. [call[c] EXCEPT !.pc = pc, !.pos = S] \in Calls
    BY CallFacts DEF Calls, Status
  <2> QED
    BY <1>3, <2>1 DEF CallTo
<1>4. ASSUME NEW c \in Call, call' = [call EXCEPT ![c] = FreeCall]
      PROVE  \E v \in Calls : CallTo(c, v)
  BY <1>4, CallFacts DEF CallTo
<1>5. ASSUME NEW c \in Call, NEW p \in Position, Replaces(c, p)
      PROVE  \E v \in Calls : CallTo(c, v)
  <2> DEFINE v == [call[c] EXCEPT !.pos = call[c].pos \ {p}]
  <2>1. call' = [call EXCEPT ![c] = v]
    BY <1>5, CallFacts DEF Replaces
  <2>2. v \in Calls
    BY CallFacts DEF Calls, Status
  <2> HIDE DEF v
  <2> QED
    BY <2>1, <2>2 DEF CallTo
<1>6. ASSUME NEW c \in Call, Prices(c) \/ CallEnds(c) \/ FetchFails(c)
      PROVE  UNCHANGED call \/ \E v \in Calls : CallTo(c, v)
  BY <1>3, <1>4, <1>6 DEF Prices, CallEnds, FetchFails, Status
<1>7. ASSUME NEW c \in Call, NEW p \in Position, FetchAnswers(c, p)
      PROVE  UNCHANGED call \/ \E v \in Calls : CallTo(c, v)
  BY <1>3, <1>4, <1>7 DEF FetchAnswers, Status
<1>12. ASSUME NEW c \in Call, NEW p \in Position, FetchReads(c, p)
      PROVE  \E v \in Calls : CallTo(c, v)
  BY <1>12, ReadsFacts DEF CallTo
<1>8. ASSUME NEW q \in Position, WriteFails(q)
      PROVE  UNCHANGED call \/ \E c \in Call, v \in Calls : CallTo(c, v)
  <2>1. PICK i \in Running(q) :
          \/ UNCHANGED call
          \/ chain[q][i].by # Backfill /\ call' = [call EXCEPT ![chain[q][i].by] = FreeCall]
    BY <1>8 DEF WriteFails
  <2>2. i = 1 /\ chain[q] # <<>>
    BY <2>1 DEF Running
  <2>3. chain[q][1] \in Writes
    BY <2>2, FirstRemoved, PositionFacts DEF Chain
  <2>4. chain[q][1].by # Backfill => chain[q][1].by \in Call
    BY <2>3, WriteTypes DEF Waiter
  <2> QED
    BY <1>4, <2>1, <2>2, <2>4
<1>9. CASE \E q \in Position : WriteLands(q) \/ BackfillWrites(q) \/ Broker(q)
  BY <1>9, DealFacts DEF WriteLands, BackfillWrites
<1>10. CASE OpenSteps \/ StreamUp \/ HistoryEnds \/ StreamDrops \/ SiblingExits \/ DayPasses
  BY <1>10 DEF OpenSteps, Opens, ReadsWatermark, DealsAnswer, PositionsAnswer, BackfillFails,
         BackfillAggregates, BackfillEnds, Closes, BackfillMoves, StreamUp, HistoryEnds,
         StreamDrops, SiblingExits, DayPasses
<1>11. CASE Restart \/ UNCHANGED vars
  BY <1>11 DEF Restart, vars
<1> QED
  BY <1>2, <1>5, <1>6, <1>7, <1>8, <1>9, <1>10, <1>11, <1>12 DEF Next, System, Chains,
     Backfills, Stream, Callback, Callbacks, Continues, OpenSteps

\* Whatever leaves the listener's own variables alone.
Elsewhere ==
    \/ \E q \in Position : WriteLands(q) \/ WriteFails(q) \/ BackfillWrites(q) \/ Broker(q)
    \/ ReadsWatermark \/ DealsAnswer \/ PositionsAnswer \/ BackfillFails \/ BackfillAggregates
    \/ Closes \/ Restart \/ StreamUp \/ HistoryEnds \/ StreamDrops
    \/ \E c \in Call : \/ \E q \in Position : FetchReads(c, q) \/ FetchAnswers(c, q)
                       \/ Prices(c) \/ CallEnds(c) \/ FetchFails(c)
    \/ SiblingExits \/ DayPasses \/ UNCHANGED vars

LEMMA ElsewhereFacts ==
    ASSUME IInv, Elsewhere
    PROVE  UNCHANGED listener
BY DealFacts DEF Elsewhere, WriteLands, WriteFails, BackfillWrites, ReadsWatermark, DealsAnswer,
       PositionsAnswer, BackfillFails, BackfillAggregates, BackfillMoves, Closes, Restart,
       StreamUp, HistoryEnds, StreamDrops, FetchReads, FetchAnswers, Prices, CallEnds, FetchFails,
       SiblingExits, DayPasses, vars

LEMMA ListenerCases ==
    ASSUME [Next]_vars
    PROVE  \/ Elsewhere \/ Opens \/ BackfillEnds
           \/ \E c \in Call : Callbacks(c) \/ \E q \in Position : Replaces(c, q)
BY DEF Next, System, Chains, Backfills, Stream, Callback, Continues, Callbacks, Elsewhere

\* The position of an update.
LEMMA UpdatedFacts ==
    ASSUME IInv, NEW c \in Call, OnPositionUpdated(c)
    PROVE  \E p \in Position :
             /\ Head(inbox).about = {p} /\ Opened(p)
             /\ openPositionIds' = openPositionIds \cup {p}
             /\ Enqueue(p, Write("open", c))
<1>1. inbox # <<>> /\ Head(inbox).kind = "updated" /\ StreamSound /\ inbox \in Seq(Events)
  BY DEF OnPositionUpdated, Ready, IInv, TypeOK, StreamOK
<1>2. Head(inbox) = inbox[1] /\ 1 \in Numbers(inbox)
  BY <1>1, TailFacts
<1>3. PICK p \in Position : Head(inbox).about = {p} /\ Opened(p)
  BY <1>1, <1>2 DEF StreamSound
<1>4. (CHOOSE x \in Position : x \in Head(inbox).about) = p
  BY <1>3
<1> QED
  BY <1>3, <1>4 DEF OnPositionUpdated

LEMMA ListenerStep ==
    ASSUME IInv, [Next]_vars
    PROVE  ListenerOK'
<1>1. ListenerOK /\ MaxOpens \in Nat
  BY DealsAssumption DEF IInv, TypeOK
<1>2. call' \in [Call -> Calls]
  BY CallStep, CallFacts DEF CallTo
<1>3. CASE Elsewhere
  BY <1>1, <1>2, <1>3, ElsewhereFacts DEF ListenerOK, Calls, Status, listener
<1>4. CASE Opens
  BY <1>1, <1>2, <1>4 DEF ListenerOK, Calls, Status, Opens
<1>5. CASE BackfillEnds
  BY <1>1, <1>2, <1>5 DEF ListenerOK, Calls, Status, BackfillEnds
<1>6. ASSUME NEW c \in Call, Callbacks(c) PROVE ListenerOK'
  <2>1. UNCHANGED cur
    BY <1>6, CallbackFacts, EventInbox
  <2>2. dealsSynchronized' \in BOOLEAN
    BY <1>1, <1>6 DEF ListenerOK, Callbacks, OnDealsSynchronized, OnPositionsReplaced,
           OnPositionUpdated, OnPositionRemoved, OnDealAdded
  <2>3. openPositionIds' \in SUBSET Position
    <3>1. CASE OnPositionUpdated(c)
      BY <1>1, <3>1, UpdatedFacts DEF ListenerOK
    <3> QED
      BY <1>1, <1>6, <3>1 DEF ListenerOK, Callbacks, OnDealsSynchronized,
             OnPositionsReplaced, OnPositionRemoved, OnDealAdded, Dropped
  <2> QED
    BY <1>1, <1>2, <2>1, <2>2, <2>3 DEF ListenerOK, Calls, Status
<1>7. ASSUME NEW c \in Call, NEW q \in Position, Replaces(c, q) PROVE ListenerOK'
  <2>1. UNCHANGED <<cur, dealsSynchronized>> /\ openPositionIds' \in SUBSET Position
    BY <1>1, <1>7 DEF Replaces, ListenerOK
  <2> QED
    BY <1>1, <1>2, <2>1 DEF ListenerOK, Calls, Status
<1> QED
  BY <1>3, <1>4, <1>5, <1>6, <1>7, ListenerCases

LEMMA BoundsStep ==
    ASSUME IInv, [Next]_vars
    PROVE  BoundsOK'
<1>1. BoundsOK /\ over \subseteq Position /\ MaxTroubles \in Nat
  BY DealsAssumption DEF IInv, TypeOK, BrokerOK
<1>2. CASE UNCHANGED <<faults, drops, history>>
  BY <1>1, <1>2 DEF BoundsOK, history
<1>3. Fault /\ drops' = drops => faults' \in Nat /\ faults' + drops' <= MaxTroubles
  BY <1>1 DEF Fault, BoundsOK
<1>4. ASSUME NEW q \in Position, WriteFails(q) PROVE BoundsOK'
  <2>1. \A x : LeftOut(x) \subseteq Position
    BY CallFacts DEF LeftOut
  <2>2. Fault /\ UNCHANGED <<drops, behind, older>> /\ unseen' \in SUBSET Position
    BY <1>1, <1>4, <2>1 DEF WriteFails, BoundsOK
  <2> QED
    BY <1>1, <1>3, <2>2 DEF BoundsOK
<1>5. CASE BackfillFails \/ \E c \in Call : FetchFails(c)
  <2>1. (Fault \/ UNCHANGED faults) /\ UNCHANGED <<drops, history>>
    BY <1>5 DEF BackfillFails, BackfillMoves, FetchFails
  <2> QED
    BY <1>1, <1>2, <1>3, <2>1 DEF BoundsOK, history
<1>6. CASE Opens
  BY <1>1, <1>6 DEF BoundsOK, Opens
<1>7. CASE BackfillAggregates
  BY <1>1, <1>7 DEF BoundsOK, BackfillAggregates, BackfillMoves
<1>8. CASE StreamDrops
  <2>1. /\ drops' = drops + 1 /\ faults + drops < MaxTroubles /\ UNCHANGED <<faults, older, unseen>>
        /\ behind' \subseteq behind \cup over
    BY <1>8 DEF StreamDrops
  <2> QED
    BY <1>1, <2>1 DEF BoundsOK
<1>9. ASSUME NEW q \in Position, Broker(q) PROVE BoundsOK'
  <2>1. UNCHANGED <<faults, drops>>
    BY <1>9, DealFacts
  <2>2. {behind', older', unseen'} \subseteq SUBSET Position
    BY <1>1, <1>9 DEF BoundsOK, Broker, PositionOpens, PartClosed, PositionCloses, history
  <2> QED
    BY <1>1, <2>1, <2>2 DEF BoundsOK
<1>10. ASSUME NEW c \in Call, Callbacks(c) PROVE BoundsOK'
  BY <1>2, <1>10, CallbackFacts, EventInbox
<1>11. CASE \/ \E q \in Position : WriteLands(q) \/ BackfillWrites(q)
            \/ ReadsWatermark \/ DealsAnswer \/ PositionsAnswer \/ BackfillEnds
            \/ Closes \/ Restart \/ StreamUp \/ HistoryEnds
            \/ \E c \in Call :
                \/ \E q \in Position : Replaces(c, q) \/ FetchReads(c, q) \/ FetchAnswers(c, q)
                \/ Prices(c) \/ CallEnds(c)
            \/ SiblingExits \/ DayPasses \/ UNCHANGED vars
  BY <1>2, <1>11 DEF WriteLands, BackfillWrites, ReadsWatermark, DealsAnswer, PositionsAnswer,
         BackfillEnds, BackfillMoves, Closes, Restart, StreamUp, HistoryEnds, Replaces,
         FetchReads, FetchAnswers, Prices, CallEnds, SiblingExits, DayPasses, vars
<1> QED
  BY <1>4, <1>5, <1>6, <1>7, <1>8, <1>9, <1>10, <1>11 DEF Next, System, Chains, Backfills, Stream,
     Callback, Continues, Callbacks

-----------------------------------------------------------------------------
(* What the backfill knows, step by step.                                  *)

\* The four parts of BfSound.
BfPhase ==
    /\ ~Backfilling(phase) => bf = NotAsked
    /\ phase = "writes" => bf.answered = {"deals", "positions"}
    /\ bf.todo # {} => phase = "writes"
DaysPast == \A p \in Position : \A i \in Numbers(deals[p]) : deals[p][i] <= now
IdsSound ==
    \A p \in Position :
        "positions" \in bf.answered /\ bf.upto[p] > 1 /\ p \notin bf.ids => p \in over

LEMMA BfParts ==
    /\ BfSound <=> BfPhase /\ DaysPast /\ IdsSound
    /\ BfSound' <=> BfPhase' /\ DaysPast' /\ IdsSound'
<1>1. BfSound <=> BfPhase /\ DaysPast /\ IdsSound
  BY DEF BfSound, BfPhase, DaysPast, IdsSound
<1>2. BfSound' <=> BfPhase' /\ DaysPast' /\ IdsSound'
  BY DEF BfSound, BfPhase, DaysPast, IdsSound
<1> QED
  BY <1>1, <1>2

LEMMA BfPhaseStep ==
    ASSUME IInv, [Next]_vars
    PROVE  BfPhase'
<1>1. BfPhase /\ BackfillOK
  BY BfParts DEF IInv, TypeOK
<1>2. CASE UNCHANGED <<phase, bf>>
  BY <1>1, <1>2 DEF BfPhase
<1>3. ASSUME phase' \in {"off", "stream"}, bf' = NotAsked PROVE BfPhase'
  BY <1>3, NotAskedType DEF BfPhase, Backfilling
<1>4. CASE \E q \in Position : WriteLands(q) \/ WriteFails(q)
  BY <1>2, <1>3, <1>4, Taken DEF Takes
<1>5. CASE \E q \in Position : BackfillWrites(q)
  <2>1. PICK q \in Position : /\ q \in bf.todo /\ phase' = phase
                              /\ bf' = [bf EXCEPT !.todo = @ \ {q}]
    BY <1>5, BackfillPuts
  <2>2. phase = "writes" /\ bf'.answered = bf.answered
    BY <1>1, <2>1 DEF BfPhase, BackfillOK
  <2> QED
    BY <1>1, <2>1, <2>2 DEF BfPhase, Backfilling
<1>6. CASE Opens
  <2> DEFINE n == [p \in Position |-> Len(deals[p])]
  <2>1. phase' = "window" /\ bf' = [NotAsked EXCEPT !.upto = n]
    BY <1>6 DEF Opens
  <2>2. bf'.todo = {}
    BY <2>1, NotAskedType
  <2> QED
    BY <2>1, <2>2 DEF BfPhase, Backfilling
<1>7. CASE ReadsWatermark
  <2>1. phase = "window" /\ phase' = "requests" /\ bf'.todo = bf.todo
    BY <1>1, <1>7 DEF ReadsWatermark, BackfillOK
  <2> QED
    BY <1>1, <2>1 DEF BfPhase, Backfilling
<1>8. CASE DealsAnswer \/ PositionsAnswer
  <2>1. phase = "requests" /\ phase' = "requests" /\ bf'.todo = bf.todo
    BY <1>1, <1>8 DEF DealsAnswer, PositionsAnswer, Asked, BackfillOK
  <2> QED
    BY <1>1, <2>1 DEF BfPhase, Backfilling
<1>9. CASE BackfillAggregates
  <2>1. phase' = "writes" /\ bf.answered = {"deals", "positions"} /\ bf'.answered = bf.answered
    BY <1>1, <1>9 DEF BackfillAggregates, BackfillOK
  <2> QED
    BY <2>1 DEF BfPhase, Backfilling
<1>10. CASE BackfillFails \/ BackfillEnds \/ Restart
  BY <1>3, <1>10 DEF BackfillFails, BackfillEnds, Restart
<1>11. CASE Closes
  BY <1>1, <1>11 DEF Closes, BfPhase, Backfilling
<1>12. CASE OpenSteps
  BY <1>6, <1>7, <1>8, <1>9, <1>10, <1>11, <1>12 DEF OpenSteps
<1> QED
  BY <1>2, <1>4, <1>5, <1>10, <1>12, NextCases, CallPuts, DealFacts, AsideFacts DEF vars

\* Time goes on, and nothing is over that was not.
LEMMA BrokerGrows ==
    ASSUME IInv, [Next]_vars
    PROVE  /\ DaysPast' /\ now <= now' /\ over \subseteq over'
           /\ \/ \E q \in Position : Broker(q)
              \/ UNCHANGED <<deals, over>>
<1>0. DaysPast /\ now \in Nat /\ deals \in [Position -> Days]
  BY BfParts DEF IInv, TypeOK, BrokerOK, Days
<1>1. CASE UNCHANGED broker
  BY <1>0, <1>1 DEF broker, DaysPast
<1>2. ASSUME NEW q \in Position, Broker(q) PROVE DaysPast' /\ now <= now' /\ over \subseteq over'
  <2>1. UNCHANGED now
    BY <1>2, DealFacts
  <2>2. over \subseteq over'
    BY <1>2 DEF Broker, PositionOpens, PartClosed, PositionCloses
  <2> QED
    BY <1>0, <1>2, <2>1, <2>2, TotalsDeal DEF DaysPast
<1>3. CASE SiblingExits
  BY <1>0, <1>3 DEF SiblingExits, DaysPast
<1>4. CASE DayPasses
  <2>1. now' = now + 1 /\ UNCHANGED <<deals, over>>
    BY <1>4 DEF DayPasses
  <2>2. \A p \in Position : \A i \in Numbers(deals[p]) : deals[p][i] \in Nat /\ deals[p][i] <= now
    <3>1. \A p \in Position : \A i \in Numbers(deals[p]) : deals[p][i] \in 1 .. MaxDay
      BY PositionFacts DEF DaysSound
    <3> QED
      BY <1>0, <3>1, DealsAssumption DEF DaysPast
  <2> QED
    BY <1>0, <2>1, <2>2 DEF DaysPast
<1>5. CASE Aside /\ ~SiblingExits /\ ~DayPasses
  BY <1>1, <1>5 DEF Aside, StreamUp, HistoryEnds, StreamDrops,
         OnDealsSynchronized, OnPositionsReplaced, OnPositionRemoved, OnDealAdded,
         CallEnds, FetchFails, FetchReads, OnEvent
<1>6. CASE OpenSteps \/ Restart \/ UNCHANGED vars
  BY <1>1, <1>6 DEF OpenSteps, Opens, ReadsWatermark, DealsAnswer, PositionsAnswer,
         BackfillFails, BackfillAggregates, BackfillEnds, Closes, BackfillMoves, Restart, vars
<1>7. CASE \/ \E q \in Position : WriteLands(q) \/ WriteFails(q) \/ BackfillWrites(q)
           \/ \E c \in Call : Enqueues(c)
  BY <1>1, <1>7, Taken, BackfillPuts, CallPuts
<1>8. (\E q \in Position : Broker(q)) \/ UNCHANGED <<deals, over>>
  <2>1. UNCHANGED broker => UNCHANGED <<deals, over>>
    BY DEF broker
  <2>2. OpenSteps \/ Restart \/ UNCHANGED vars => UNCHANGED broker
    BY DEF OpenSteps, Opens, ReadsWatermark, DealsAnswer, PositionsAnswer,
         BackfillFails, BackfillAggregates, BackfillEnds, Closes, BackfillMoves, Restart, vars
  <2> QED
    BY <2>1, <2>2, NextCases, Taken, BackfillPuts, CallPuts, AsideFacts
<1> QED
  BY <1>2, <1>3, <1>4, <1>5, <1>6, <1>7, <1>8, NextCases

LEMMA IdsStep ==
    ASSUME IInv, [Next]_vars
    PROVE  IdsSound'
<1>1. IdsSound /\ BackfillOK /\ over \subseteq over'
  BY BfParts, BrokerGrows DEF IInv, TypeOK
<1>2. CASE bf'.answered = bf.answered /\ bf'.upto = bf.upto /\ bf'.ids = bf.ids
  BY <1>1, <1>2 DEF IdsSound
<1>3. CASE bf'.answered = {}
  BY <1>3 DEF IdsSound
<1>4. CASE \E q \in Position : WriteLands(q) \/ WriteFails(q)
  BY <1>2, <1>3, <1>4, Taken, NotAskedType DEF Takes
<1>5. CASE \E q \in Position : BackfillWrites(q)
  <2>1. PICK q \in Position : bf' = [bf EXCEPT !.todo = @ \ {q}]
    BY <1>5, BackfillPuts
  <2>2. bf'.answered = bf.answered /\ bf'.upto = bf.upto /\ bf'.ids = bf.ids
    BY <1>1, <2>1 DEF BackfillOK
  <2> QED
    BY <1>2, <2>2
<1>6. CASE Opens
  <2> DEFINE n == [p \in Position |-> Len(deals[p])]
  <2>1. bf' = [NotAsked EXCEPT !.upto = n]
    BY <1>6 DEF Opens
  <2>2. bf'.answered = {}
    BY <2>1, NotAskedType
  <2> QED
    BY <1>3, <2>2
<1>7. CASE ReadsWatermark \/ BackfillAggregates
  <2>1. bf'.answered = bf.answered /\ bf'.upto = bf.upto /\ bf'.ids = bf.ids
    BY <1>1, <1>7 DEF ReadsWatermark, BackfillAggregates, BackfillOK
  <2> QED
    BY <1>2, <2>1
<1>8. CASE DealsAnswer
  <2>1. /\ "positions" \in bf'.answered => "positions" \in bf.answered
        /\ bf'.upto = bf.upto /\ bf'.ids = bf.ids
    BY <1>1, <1>8 DEF DealsAnswer, BackfillOK
  <2> QED
    BY <1>1, <2>1 DEF IdsSound
<1>9. CASE PositionsAnswer
  <2>1. bf'.upto = bf.upto /\ bf'.ids = OpenNow
    BY <1>1, <1>9 DEF PositionsAnswer, BackfillOK
  <2> SUFFICES ASSUME NEW p \in Position, bf.upto[p] > 1, p \notin OpenNow PROVE p \in over
    BY <1>1, <2>1 DEF IdsSound
  <2>2. bf.upto[p] \in 0 .. Len(deals[p]) /\ Len(deals[p]) \in Nat
    BY PositionFacts DEF UptoSound
  <2>3. deals[p] # <<>>
    BY <2>2
  <2> QED
    BY <2>3 DEF OpenNow, Opened
<1>10. CASE BackfillFails \/ BackfillEnds \/ Restart
  BY <1>3, <1>10, NotAskedType DEF BackfillFails, BackfillEnds, Restart
<1>11. CASE Closes
  BY <1>2, <1>11 DEF Closes
<1>12. CASE OpenSteps
  BY <1>6, <1>7, <1>8, <1>9, <1>10, <1>11, <1>12 DEF OpenSteps
<1>13. CASE UNCHANGED bf
  BY <1>2, <1>13
<1> QED
  BY <1>4, <1>5, <1>10, <1>12, <1>13, NextCases, CallPuts, DealFacts, AsideFacts DEF vars

-----------------------------------------------------------------------------
(* Whoever waits for a write has one, step by step.                        *)

\* The parts of Waiting.
Alone ==
    \A p, q \in Position : \A i \in Numbers(chain[p]), j \in Numbers(chain[q]) :
        chain[p][i].by = chain[q][j].by => p = q /\ i = j
Works(f, calls, by) ==
    IF by = Backfill THEN f = "writes" ELSE calls[by].pc \in {"writing", "pricing"}
Working(by) == Works(phase, call, by)
AllWorking == \A p \in Position : \A i \in Numbers(chain[p]) : Working(chain[p][i].by)

LEMMA WaitingParts ==
    /\ Waiting <=> Alone /\ AllWorking
    /\ Waiting' <=> Alone' /\ AllWorking'
<1>1. Waiting <=> Alone /\ AllWorking
  BY DEF Waiting, Alone, AllWorking, Working, Works
<1>2. Waiting' <=> Alone' /\ AllWorking'
  BY DEF Waiting, Alone, AllWorking, Working, Works
<1> QED
  BY <1>1, <1>2

\* by has no write in the chains.
Silent(by) == \A p \in Position : \A i \in Numbers(chain[p]) : chain[p][i].by # by

LEMMA SilentFacts ==
    ASSUME IInv
    PROVE  /\ \A by : Settled(by) <=> Silent(by)
           /\ \A c \in Call : call[c].pc \in {"free", "fetching", "fetched"} => Silent(c)
           /\ phase # "writes" => Silent(Backfill)
           /\ \A p \in Position : \A i \in Numbers(chain[p]) :
                chain[p][i] \in Writes /\ chain[p][i].by \in Waiter /\ Working(chain[p][i].by)
<1>1. \A p \in Position : DOMAIN chain[p] = Numbers(chain[p])
  BY PositionFacts, LenProperties DEF Numbers, Chain
<1>2. Alone /\ AllWorking
  BY WaitingParts DEF IInv
<1>3. \A by : Settled(by) <=> Silent(by)
  BY <1>1 DEF Settled, Pending, Silent
<1>4. Backfill \notin Call
  BY DealsAssumption
<1>5. ASSUME NEW p \in Position, NEW i \in Numbers(chain[p])
      PROVE  chain[p][i] \in Writes
  <2>1. chain[p] \in Chain
    BY PositionFacts
  <2> QED
    BY <2>1, ElementOfSeq DEF Chain, Numbers
<1>6. \A p \in Position : \A i \in Numbers(chain[p]) : chain[p][i].by \in Waiter
  BY <1>5, WriteTypes
<1>7. \A c \in Call : call[c].pc \in {"free", "fetching", "fetched"} => Silent(c)
  BY <1>2, <1>4 DEF AllWorking, Working, Works, Silent
<1>8. phase # "writes" => Silent(Backfill)
  BY <1>2 DEF AllWorking, Working, Works, Silent
<1> QED
  BY <1>2, <1>3, <1>5, <1>6, <1>7, <1>8 DEF AllWorking

LEMMA AloneTaken ==
    ASSUME IInv, NEW q \in Position, Takes(q)
    PROVE  /\ Alone'
           /\ \A p \in Position : \A i \in Numbers(chain'[p]) :
                \E j \in Numbers(chain[p]) : /\ chain'[p][i] = chain[p][j]
                                             /\ chain[p][j].by # chain[q][1].by
<1>1. Alone /\ chain \in [Position -> Chain]
  BY WaitingParts DEF IInv, TypeOK, RowsOK, Chain
<1>2. /\ \A p \in Position \ {q} : chain'[p] = chain[p]
      /\ chain'[q] = RemoveAt(chain[q], 1) /\ chain[q] # <<>> /\ chain[q] \in Chain
  BY <1>1 DEF Takes
<1>3. 1 \in Numbers(chain[q]) /\ Rest(chain[q], chain'[q])
  BY <1>2, FirstRemoved DEF Chain
<1> DEFINE Old(p, i) == IF p = q THEN i + 1 ELSE i
<1>4. \A p \in Position : \A i \in Numbers(chain'[p]) :
        /\ Old(p, i) \in Numbers(chain[p]) /\ chain'[p][i] = chain[p][Old(p, i)]
        /\ (p = q => Old(p, i) # 1) /\ i \in Int
  BY <1>2, <1>3 DEF Rest, Numbers
<1>5. \A p \in Position : \A i, j \in Numbers(chain'[p]) : Old(p, i) = Old(p, j) => i = j
  BY <1>4
<1> HIDE DEF Old
<1>6. Alone'
  <2> SUFFICES ASSUME NEW p1 \in Position, NEW p2 \in Position,
                      NEW i \in Numbers(chain'[p1]), NEW j \in Numbers(chain'[p2]),
                      chain'[p1][i].by = chain'[p2][j].by
               PROVE  p1 = p2 /\ i = j
    BY DEF Alone
  <2>1. p1 = p2 /\ Old(p1, i) = Old(p2, j)
    BY <1>1, <1>4 DEF Alone
  <2> QED
    BY <1>5, <2>1
<1>7. ASSUME NEW p \in Position, NEW i \in Numbers(chain'[p])
      PROVE  \E j \in Numbers(chain[p]) : /\ chain'[p][i] = chain[p][j]
                                          /\ chain[p][j].by # chain[q][1].by
  BY <1>1, <1>3, <1>4 DEF Alone
<1> QED
  BY <1>6, <1>7

LEMMA AlonePut ==
    ASSUME IInv, NEW by, Silent(by), Enqueued(by)
    PROVE  /\ Alone'
           /\ \A p \in Position : \A i \in Numbers(chain'[p]) :
                \/ chain'[p][i].by = by
                \/ \E j \in Numbers(chain[p]) : chain'[p][i] = chain[p][j]
<1>1. Alone /\ chain \in [Position -> Chain]
  BY WaitingParts DEF IInv, TypeOK, RowsOK, Chain
<1>2. PICK q \in Position : \E w, n : Puts(q, w, n) /\ w.by = by
  BY DEF Enqueued
<1>3. PICK w \in Writes : w.by = by /\ chain' = [chain EXCEPT ![q] = Append(@, w)]
  BY <1>2 DEF Puts
<1>4. /\ \A p \in Position \ {q} : chain'[p] = chain[p]
      /\ chain'[q] = Append(chain[q], w) /\ chain[q] \in Chain
  BY <1>1, <1>3
<1> DEFINE m == Len(chain[q]) + 1
<1>5. /\ chain'[q][m] = w /\ \A i \in Numbers(chain[q]) : chain'[q][i] = chain[q][i]
      /\ \A i \in Numbers(chain'[q]) : i = m \/ i \in Numbers(chain[q])
  BY <1>4, AppendFacts DEF Chain, Numbers
<1> HIDE DEF m
<1>6. \A p \in Position : \A i \in Numbers(chain'[p]) :
        \/ p = q /\ i = m /\ chain'[p][i].by = by
        \/ i \in Numbers(chain[p]) /\ chain'[p][i] = chain[p][i] /\ chain[p][i].by # by
  BY <1>3, <1>4, <1>5 DEF Silent
<1>7. Alone'
  <2> SUFFICES ASSUME NEW p1 \in Position, NEW p2 \in Position,
                      NEW i \in Numbers(chain'[p1]), NEW j \in Numbers(chain'[p2]),
                      chain'[p1][i].by = chain'[p2][j].by
               PROVE  p1 = p2 /\ i = j
    BY DEF Alone
  <2> QED
    BY <1>1, <1>6 DEF Alone
<1> QED
  BY <1>6, <1>7

LEMMA WaitingTaken ==
    ASSUME IInv, NEW q \in Position, WriteLands(q) \/ WriteFails(q)
    PROVE  Waiting'
<1>1. Takes(q)
  BY Taken
<1>2. Alone'
  BY <1>1, AloneTaken
<1> DEFINE by == chain[q][1].by
<1>3. 1 \in Numbers(chain[q]) /\ chain[q] \in Chain
  BY <1>1, FirstRemoved, PositionFacts DEF Takes, Chain
<1>4. by \in Waiter /\ Backfill \notin Call
  BY <1>3, SilentFacts, DealsAssumption
<1>5. \A x \in Waiter : Working(x) /\ x # by => Works(phase', call', x)
  <2>1. CASE WriteLands(q)
    BY <2>1 DEF WriteLands, Working, Works
  <2>2. CASE WriteFails(q)
    <3>1. PICK i \in Running(q) :
            IF chain[q][i].by = Backfill
            THEN phase' = "off" /\ bf' = NotAsked /\ UNCHANGED call
            ELSE /\ call' = [call EXCEPT ![chain[q][i].by] = FreeCall]
                 /\ UNCHANGED <<phase, bf>>
      BY <2>2 DEF WriteFails
    <3>2. i = 1
      BY <3>1 DEF Running
    <3>3. CASE by = Backfill
      BY <3>1, <3>2, <3>3 DEF Working, Works
    <3>4. CASE by # Backfill
      <4>1. UNCHANGED phase /\ \A x \in Call : x # by => call'[x] = call[x]
        BY <3>1, <3>2, <3>4, CallFacts
      <4> QED
        BY <4>1 DEF Working, Works, Waiter
    <3> QED
      BY <3>3, <3>4
  <2> QED
    BY <2>1, <2>2
<1>6. AllWorking'
  <2> SUFFICES ASSUME NEW p \in Position, NEW i \in Numbers(chain'[p])
               PROVE  Works(phase', call', chain'[p][i].by)
    BY DEF AllWorking, Working
  <2>1. PICK j \in Numbers(chain[p]) : chain'[p][i] = chain[p][j] /\ chain[p][j].by # by
    BY <1>1, AloneTaken
  <2>2. chain[p][j].by \in Waiter /\ Working(chain[p][j].by)
    BY SilentFacts
  <2> QED
    BY <1>5, <2>1, <2>2
<1> QED
  BY <1>2, <1>6, WaitingParts

LEMMA WaitingPut ==
    ASSUME IInv, NEW by, Silent(by), Enqueued(by), Works(phase', call', by),
           \A x \in Waiter : x # by /\ Working(x) => Works(phase', call', x)
    PROVE  Waiting'
<1>1. Alone'
  BY AlonePut
<1>2. AllWorking'
  <2> SUFFICES ASSUME NEW p \in Position, NEW i \in Numbers(chain'[p])
               PROVE  Works(phase', call', chain'[p][i].by)
    BY DEF AllWorking, Working
  <2>1. \/ chain'[p][i].by = by
        \/ \E j \in Numbers(chain[p]) : chain'[p][i] = chain[p][j]
    BY AlonePut
  <2>2. \A j \in Numbers(chain[p]) : chain[p][j].by \in Waiter /\ Working(chain[p][j].by)
    BY SilentFacts
  <2> QED
    BY <2>1, <2>2
<1> QED
  BY <1>1, <1>2, WaitingParts

LEMMA WaitingSame ==
    ASSUME IInv, UNCHANGED chain,
           \A x \in Waiter : Silent(x) \/ (Working(x) => Works(phase', call', x))
    PROVE  Waiting'
<1>1. Alone'
  BY WaitingParts DEF IInv, Alone
<1>2. AllWorking'
  <2> SUFFICES ASSUME NEW p \in Position, NEW i \in Numbers(chain[p])
               PROVE  Works(phase', call', chain[p][i].by)
    BY DEF AllWorking, Working
  <2>1. chain[p][i].by \in Waiter /\ Working(chain[p][i].by)
    BY SilentFacts
  <2>2. ~Silent(chain[p][i].by)
    BY DEF Silent
  <2> QED
    BY <2>1, <2>2
<1> QED
  BY <1>1, <1>2, WaitingParts

\* A step of call c leaves the others alone.
LEMMA OthersWork ==
    ASSUME IInv, NEW c \in Call, NEW v, CallTo(c, v), UNCHANGED phase
    PROVE  \A x \in Waiter : x # c /\ Working(x) => Works(phase', call', x)
<1>1. \A x \in Call : x # c => call'[x] = call[x]
  BY CallFacts DEF CallTo
<1> QED
  BY <1>1 DEF Working, Works, Waiter

\* Where a call stands when it makes a step, and after it.
LEMMA EnqueuesFacts ==
    ASSUME IInv, NEW c \in Call, Enqueues(c)
    PROVE  /\ Silent(c)
           /\ \E v \in Calls : (CallTo(c, v) /\ v.pc \in {"writing", "pricing"})
                             \/ (UNCHANGED chain /\ CallTo(c, v))
<1>1. ASSUME NEW q \in Position, Replaces(c, q)
      PROVE  Silent(c) /\ \E v \in Calls : (CallTo(c, v) /\ v.pc = "writing")
  <2> DEFINE v == [call[c] EXCEPT !.pos = call[c].pos \ {q}]
  <2>1. call' = [call EXCEPT ![c] = v] /\ call[c].pc = "writing" /\ Settled(c)
    BY <1>1, CallFacts DEF Replaces
  <2>2. v \in Calls /\ v.pc = call[c].pc
    BY CallFacts DEF Calls, Status
  <2> HIDE DEF v
  <2> QED
    BY <2>1, <2>2, SilentFacts DEF CallTo
<1>2. ASSUME OnPositionUpdated(c)
      PROVE  Silent(c) /\ \E v \in Calls : CallTo(c, v) /\ v.pc = "pricing"
  <2>1. Ready(c) /\ OnEvent /\ Called(c, "pricing", Head(inbox).about)
    BY <1>2 DEF OnPositionUpdated
  <2>2. Head(inbox) \in Events
    BY <2>1, EventInbox
  <2>3. Head(inbox).about \subseteq Position
    BY <2>2 DEF Events
  <2> DEFINE v == [FreeCall EXCEPT !.pc = "pricing", !.by = cur, !.pos = Head(inbox).about]
  <2>4. v \in Calls /\ v.pc = "pricing"
    BY <2>3, CallFacts DEF Calls, Status
  <2>5. CallTo(c, v)
    BY <2>1, <2>4 DEF CallTo, Called
  <2> HIDE DEF v
  <2>6. call[c].pc = "free"
    BY <2>1 DEF Ready, SpareCall
  <2> QED
    BY <2>4, <2>5, <2>6, SilentFacts
<1>3. ASSUME NEW pc \in {"pricing", "fetched"}, call[c].pc = pc,
             call' = [call EXCEPT ![c] = [@ EXCEPT !.pc = "writing", !.pos = {}]]
      PROVE  \E v \in Calls : (CallTo(c, v) /\ v.pc = "writing")
  <2> DEFINE v == [call[c] EXCEPT !.pc = "writing", !.pos = {}]
  <2>1. v \in Calls /\ v.pc = "writing"
    BY CallFacts DEF Calls, Status
  <2>2. CallTo(c, v)
    BY <1>3, <2>1 DEF CallTo
  <2> HIDE DEF v
  <2> QED
    BY <2>1, <2>2
<1>4. ASSUME Prices(c)
      PROVE  Silent(c) /\ \E v \in Calls : (CallTo(c, v) /\ v.pc = "writing")
  <2>1. Silent(c)
    BY <1>4, SilentFacts DEF Prices
  <2> QED
    BY <1>3, <1>4, <2>1 DEF Prices
<1>5. ASSUME NEW q \in Position, FetchAnswers(c, q)
      PROVE  Silent(c) /\ \E v \in Calls : (CallTo(c, v) /\ v.pc = "writing")
                                         \/ (UNCHANGED chain /\ CallTo(c, v))
  <2>1. Silent(c) /\ call[c].pc = "fetched"
    BY <1>5, SilentFacts DEF FetchAnswers
  <2>2. CASE call' = [call EXCEPT ![c] = FreeCall] /\ UNCHANGED chain
    BY <2>1, <2>2, CallFacts DEF CallTo
  <2>3. CASE call' = [call EXCEPT ![c] = [@ EXCEPT !.pc = "writing", !.pos = {}]]
    BY <1>3, <2>1, <2>3
  <2> QED
    BY <1>5, <2>2, <2>3 DEF FetchAnswers
<1> QED
  BY <1>1, <1>2, <1>4, <1>5 DEF Enqueues

\* A step aside changes no call that has a write.
LEMMA AsideCalls ==
    ASSUME IInv, Aside
    PROVE  UNCHANGED call \/ \E c \in Call : Silent(c) /\ \E v \in Calls : CallTo(c, v)
<1>1. ASSUME NEW c \in Call, OnDealsSynchronized(c) \/ OnPositionsReplaced(c)
                             \/ OnPositionRemoved(c) \/ OnDealAdded(c)
      PROVE  UNCHANGED call \/ (Silent(c) /\ \E v \in Calls : CallTo(c, v))
  <2>1. Callbacks(c) /\ Ready(c)
    BY <1>1 DEF Callbacks, OnDealsSynchronized, OnPositionsReplaced, OnPositionRemoved,
           OnDealAdded
  <2>2. Silent(c)
    BY <2>1, SilentFacts DEF Ready, SpareCall
  <2>3. Head(inbox) \in Events
    BY <2>1, CallbackFacts, EventInbox
  <2>4. Head(inbox).about \subseteq Position
    BY <2>3 DEF Events
  <2>5. UNCHANGED call \/ \E pc \in Status : Called(c, pc, Head(inbox).about)
    BY <1>1 DEF OnDealsSynchronized, OnPositionsReplaced, OnPositionRemoved, OnDealAdded,
           Finalizes, Status
  <2>6. ASSUME NEW pc \in Status, Called(c, pc, Head(inbox).about)
        PROVE  \E v \in Calls : CallTo(c, v)
    <3> DEFINE v == [FreeCall EXCEPT !.pc = pc, !.by = cur, !.pos = Head(inbox).about]
    <3>1. v \in Calls
      BY <2>4, CallFacts DEF Calls, Status
    <3> HIDE DEF v
    <3> QED
      BY <2>6, <3>1 DEF CallTo, Called, v
  <2> QED
    BY <2>2, <2>5, <2>6
<1>2. ASSUME NEW c \in Call, CallEnds(c) \/ FetchFails(c)
      PROVE  Silent(c) /\ \E v \in Calls : CallTo(c, v)
  <2>1. Silent(c) /\ call' = [call EXCEPT ![c] = FreeCall]
    BY <1>2, SilentFacts DEF CallEnds, FetchFails
  <2> QED
    BY <2>1, CallFacts DEF CallTo
<1>3. CASE StreamUp \/ HistoryEnds \/ StreamDrops \/ SiblingExits \/ DayPasses
  BY <1>3 DEF StreamUp, HistoryEnds, StreamDrops, SiblingExits, DayPasses
<1>4. ASSUME NEW c \in Call, NEW p \in Position, FetchReads(c, p)
      PROVE  Silent(c) /\ \E v \in Calls : CallTo(c, v)
  BY <1>4, ReadsFacts, SilentFacts DEF CallTo
<1> QED
  BY <1>1, <1>2, <1>3, <1>4 DEF Aside

LEMMA WaitingStep ==
    ASSUME IInv, [Next]_vars
    PROVE  Waiting'
<1>1. CASE \E q \in Position : WriteLands(q) \/ WriteFails(q)
  BY <1>1, WaitingTaken
<1>2. CASE \E q \in Position : BackfillWrites(q)
  <2>1. /\ Silent(Backfill) /\ Enqueued(Backfill) /\ phase = "writes"
        /\ UNCHANGED <<phase, call>>
    BY <1>2, BackfillPuts, SilentFacts DEF BackfillWrites
  <2> QED
    BY <2>1, WaitingPut DEF Working, Works
<1>3. ASSUME NEW c \in Call, Enqueues(c) PROVE Waiting'
  <2>1. PICK v \in Calls : /\ CallTo(c, v)
                           /\ v.pc \in {"writing", "pricing"} \/ UNCHANGED chain
    BY <1>3, EnqueuesFacts
  <2>2. Silent(c) /\ UNCHANGED phase
    BY <1>3, EnqueuesFacts, CallPuts
  <2>3. \A x \in Waiter : x # c /\ Working(x) => Works(phase', call', x)
    BY <2>1, <2>2, OthersWork
  <2>4. CASE UNCHANGED chain
    BY <2>2, <2>3, <2>4, WaitingSame
  <2>5. CASE ~UNCHANGED chain
    <3>1. Enqueued(c)
      BY <1>3, <2>5, CallPuts
    <3>2. call'[c] = v /\ c # Backfill
      BY <2>1, CallFacts, DealsAssumption DEF CallTo
    <3>3. Works(phase', call', c)
      BY <2>1, <2>5, <3>2 DEF Works
    <3> QED
      BY <2>2, <2>3, <3>1, <3>3, WaitingPut
  <2> QED
    BY <2>4, <2>5
<1>4. CASE OpenSteps
  <2>1. UNCHANGED <<chain, call>>
    BY <1>4 DEF OpenSteps, Opens, ReadsWatermark, DealsAnswer, PositionsAnswer, BackfillFails,
           BackfillAggregates, BackfillEnds, Closes, BackfillMoves
  <2>2. Silent(Backfill) \/ phase' = phase
    <3>1. CASE BackfillEnds
      BY <3>1, SilentFacts DEF BackfillEnds
    <3>2. CASE ~BackfillEnds
      BY <1>4, <3>2, SilentFacts DEF OpenSteps, Opens, ReadsWatermark, DealsAnswer,
             PositionsAnswer, BackfillFails, BackfillAggregates, Closes, Asked
    <3> QED
      BY <3>1, <3>2
  <2>3. \A x \in Waiter : Silent(x) \/ (Working(x) => Works(phase', call', x))
    BY <2>1, <2>2 DEF Working, Works
  <2> QED
    BY <2>1, <2>3, WaitingSame
<1>5. CASE Restart
  <2>1. \A p \in Position : Numbers(chain'[p]) = {}
    BY <1>5, EmptySeq DEF Restart, Numbers
  <2>2. Alone' /\ AllWorking'
    BY <2>1 DEF Alone, AllWorking
  <2> QED
    BY <2>2, WaitingParts
<1>6. CASE (\E q \in Position : Broker(q)) \/ UNCHANGED vars
  <2>1. UNCHANGED <<chain, call, phase>>
    BY <1>6, DealFacts DEF vars
  <2>2. \A x \in Waiter : Silent(x) \/ (Working(x) => Works(phase', call', x))
    BY <2>1 DEF Working, Works
  <2> QED
    BY <2>1, <2>2, WaitingSame
<1>7. CASE Aside
  <2>1. UNCHANGED <<chain, phase>>
    BY <1>7, AsideFacts
  <2>2. CASE UNCHANGED call
    <3>1. \A x \in Waiter : Silent(x) \/ (Working(x) => Works(phase', call', x))
      BY <2>1, <2>2 DEF Working, Works
    <3> QED
      BY <2>1, <3>1, WaitingSame
  <2>3. ASSUME NEW c \in Call, Silent(c), NEW v \in Calls, CallTo(c, v) PROVE Waiting'
    <3>1. \A x \in Waiter : x # c /\ Working(x) => Works(phase', call', x)
      BY <2>1, <2>3, OthersWork
    <3> QED
      BY <2>1, <2>3, <3>1, WaitingSame
  <2> QED
    BY <1>7, <2>2, <2>3, AsideCalls
<1> QED
  BY <1>1, <1>2, <1>3, <1>4, <1>5, <1>6, <1>7, NextCases

\* Whoever has a write in a chain is at work: the end of TypeOK.
Awake ==
    /\ Pending(Backfill) => phase = "writes"
    /\ \A c \in Call : Pending(c) => call[c].pc # "free"

LEMMA PendingParts == RowsOK /\ Waiting => Awake
<1> SUFFICES ASSUME RowsOK, Waiting PROVE Awake
  OBVIOUS
<1>1. \A p \in Position : DOMAIN chain[p] = Numbers(chain[p])
  BY LenProperties DEF Numbers, RowsOK
<1>2. Backfill \notin Call
  BY DealsAssumption
<1>3. \A by : Pending(by) => \E p \in Position : \E i \in Numbers(chain[p]) : chain[p][i].by = by
  BY <1>1 DEF Pending
<1>4. \A by : Pending(by) =>
        IF by = Backfill THEN phase = "writes" ELSE call[by].pc \in {"writing", "pricing"}
  BY <1>3 DEF Waiting
<1> QED
  BY <1>2, <1>4 DEF Awake

LEMMA TypeStep ==
    ASSUME IInv, [Next]_vars
    PROVE  TypeOK'
<1>1. BrokerOK' /\ RowsOK' /\ BackfillOK' /\ StreamOK' /\ ListenerOK' /\ BoundsOK' /\ Waiting'
  BY BrokerStep, TotalsStep, BackfillStep, StreamStep, ListenerStep, BoundsStep, WaitingStep
<1>2. (RowsOK /\ Waiting => Awake)'
  BY PendingParts, PTL
<1>3. Awake'
  BY <1>1, <1>2
<1> QED
  BY <1>1, <1>3 DEF TypeOK, Awake

-----------------------------------------------------------------------------
(* What the listener knows, step by step.                                  *)

\* What is opened stays opened.
LEMMA OpenedGrows ==
    ASSUME IInv, [Next]_vars, NEW p \in Position
    PROVE  /\ Opened(p) => deals'[p] # <<>>
           /\ deals'[p] = deals[p] \/ (Broker(p) /\ deals'[p] = Append(deals[p], now))
           /\ Opened(p)' <=> deals'[p] # <<>>
<1>1. CASE \E q \in Position : Broker(q)
  <2>1. PICK q \in Position : Broker(q)
    BY <1>1
  <2>2. CASE p = q
    <3>1. deals'[p] = Append(deals[p], now)
      BY <2>1, <2>2, DealFacts
    <3>2. Append(deals[p], now) # <<>>
      <4>1. now \in 1 .. MaxDay /\ deals[p] \in Seq(1 .. MaxDay)
        BY DEF IInv, TypeOK, BrokerOK
      <4> QED
        BY <4>1, AppendFacts
    <3> QED
      BY <2>1, <2>2, <3>1, <3>2 DEF Opened
  <2>3. CASE p # q
    BY <2>1, <2>3, DealFacts DEF Opened
  <2> QED
    BY <2>2, <2>3
<1>2. CASE UNCHANGED deals
  BY <1>2 DEF Opened
<1> QED
  BY <1>1, <1>2, BrokerGrows

\* The calls that a step may leave: as they were, freed, one that a callback starts, one
\* that reads the deals, or one that goes on with less to do.
Begins(c) ==
    /\ Callbacks(c) /\ call[c].pc = "free" /\ call'[c].by = cur
    /\ call'[c].pc = "writing" =>
        OnPositionsReplaced(c) /\ call'[c].pos = Head(inbox).about

Reads(c) == \E p \in Position : FetchReads(c, p) /\ call'[c] = Read(c, p)

LEMMA ReadsGoOn ==
    ASSUME IInv, NEW c \in Call, Reads(c)
    PROVE  call'[c].by = call[c].by /\ call[c].pc = "fetching" /\ call'[c].pc = "fetched"
BY ReadsFacts DEF Reads

GoesOn(c) ==
    /\ call'[c].by = call[c].by /\ call[c].pc # "free" /\ call'[c].pc = "writing"
    /\ call'[c].pos \subseteq IF call[c].pc = "writing" THEN call[c].pos ELSE {}

LEMMA CallChange ==
    ASSUME IInv, [Next]_vars, NEW c \in Call
    PROVE  call'[c] \in {call[c], FreeCall} \/ Begins(c) \/ Reads(c) \/ GoesOn(c)
<1>0. call \in [Call -> Calls]
  BY CallFacts
<1> DEFINE Goal == call'[c] \in {call[c], FreeCall} \/ Begins(c) \/ Reads(c) \/ GoesOn(c)
<1>1. ASSUME NEW d \in Call, Callbacks(d) PROVE Goal
  <2>1. call[d].pc = "free"
    BY <1>1, CallbackFacts DEF Ready, SpareCall
  <2>2. CASE UNCHANGED call
    BY <2>2
  <2>3. CASE d # c
    <3>1. UNCHANGED call \/ \E v : call' = [call EXCEPT ![d] = v]
      BY <1>1 DEF Callbacks, OnDealsSynchronized, OnPositionsReplaced, OnPositionUpdated,
             OnPositionRemoved, OnDealAdded, Finalizes, Called
    <3> QED
      BY <1>0, <2>3, <3>1
  <2>4. CASE d = c /\ ~UNCHANGED call
    <3>1. \/ OnPositionsReplaced(c) /\ Called(c, "writing", Head(inbox).about)
          \/ Called(c, "pricing", Head(inbox).about)
          \/ Called(c, "fetching", Head(inbox).about)
      BY <1>1, <2>4 DEF Callbacks, OnDealsSynchronized, OnPositionsReplaced,
             OnPositionUpdated, OnPositionRemoved, OnDealAdded, Finalizes
    <3>2. \A pc, S : Called(c, pc, S) =>
            call'[c].pc = pc /\ call'[c].pos = S /\ call'[c].by = cur
      BY <1>0 DEF Called, FreeCall
    <3> QED
      BY <1>1, <2>1, <2>4, <3>1, <3>2 DEF Begins
  <2> QED
    BY <2>2, <2>3, <2>4
<1>2. ASSUME NEW d \in Call, NEW pc \in {"pricing", "fetched"}, call[d].pc = pc,
             call' = [call EXCEPT ![d] = [@ EXCEPT !.pc = "writing", !.pos = {}]]
      PROVE  Goal
  <2>1. CASE c # d
    BY <1>0, <1>2, <2>1
  <2>2. CASE c = d
    BY <1>0, <1>2, <2>2 DEF GoesOn, Calls
  <2> QED
    BY <2>1, <2>2
<1>3. ASSUME NEW d \in Call, call' = [call EXCEPT ![d] = FreeCall] PROVE Goal
  BY <1>0, <1>3
<1>4. ASSUME NEW d \in Call, NEW p \in Position, Replaces(d, p) PROVE Goal
  <2> DEFINE v == [call[d] EXCEPT !.pos = call[d].pos \ {p}]
  <2>1. call' = [call EXCEPT ![d] = v] /\ call[d].pc = "writing"
    BY <1>0, <1>4 DEF Replaces
  <2>2. v.pc = "writing" /\ v.by = call[d].by /\ v.pos \subseteq call[d].pos
    BY <1>0, <2>1 DEF Calls
  <2> HIDE DEF v
  <2>3. CASE c # d
    BY <1>0, <2>1, <2>3
  <2>4. CASE c = d
    BY <1>0, <2>1, <2>2, <2>4 DEF GoesOn
  <2> QED
    BY <2>3, <2>4
<1>5. ASSUME NEW d \in Call, Prices(d) \/ CallEnds(d) \/ FetchFails(d) PROVE Goal
  BY <1>2, <1>3, <1>5 DEF Prices, CallEnds, FetchFails
<1>6. ASSUME NEW d \in Call, NEW p \in Position, FetchAnswers(d, p) PROVE Goal
  BY <1>2, <1>3, <1>6 DEF FetchAnswers
<1>7. ASSUME NEW q \in Position, WriteFails(q) PROVE Goal
  <2>1. UNCHANGED call \/ \E x : call' = [call EXCEPT ![x] = FreeCall]
    BY <1>7 DEF WriteFails
  <2> QED
    BY <1>0, <2>1
<1>8. CASE \E q \in Position : WriteLands(q) \/ BackfillWrites(q) \/ Broker(q)
  BY <1>8, DealFacts DEF WriteLands, BackfillWrites
<1>9. CASE OpenSteps \/ StreamUp \/ HistoryEnds \/ StreamDrops \/ SiblingExits \/ DayPasses
  BY <1>9 DEF OpenSteps, Opens, ReadsWatermark, DealsAnswer, PositionsAnswer, BackfillFails,
         BackfillAggregates, BackfillEnds, Closes, BackfillMoves, StreamUp, HistoryEnds,
         StreamDrops, SiblingExits, DayPasses
<1>10. CASE Restart \/ UNCHANGED vars
  BY <1>10 DEF Restart, vars
<1>12. ASSUME NEW d \in Call, NEW p \in Position, FetchReads(d, p) PROVE Goal
  <2>1. CASE c # d
    BY <1>0, <1>12, <2>1, ReadsFacts DEF CallTo
  <2>2. CASE c = d
    BY <1>12, <2>2, ReadsFacts DEF Reads
  <2> QED
    BY <2>1, <2>2
<1> HIDE DEF Goal
<1>11. Goal
  BY <1>1, <1>4, <1>5, <1>6, <1>7, <1>8, <1>9, <1>10, <1>12 DEF Next, System, Chains, Backfills,
     Stream, Callback, Callbacks, Continues, OpenSteps, Goal
<1> QED
  BY <1>11 DEF Goal

\* The parts of StreamSound.
LinkSound == (link => phase = "stream") /\ (~link => inbox = <<>> /\ ~replaying)

CallsSound ==
    /\ \A c \in Call : call[c].by <= cur
    /\ Backfilling(phase) => \A c \in Call : ~Busy(c)

InboxSound ==
    \A i \in Numbers(inbox) :
        /\ inbox[i].kind = "replaced" => i = 1
        /\ inbox[i].kind = "removed" => inbox[i].about \subseteq over
        /\ inbox[i].kind = "updated" => \E p \in Position : inbox[i].about = {p} /\ Opened(p)

KnownSound ==
    /\ openPositionIds \subseteq {p \in Position : Opened(p)}
    /\ \A p \in Position : Snapshot(p) => Opened(p)

ToldSound ==
    SnapshotNext =>
        /\ \A p \in OpenNow :
            p \in openPositionIds \/ Snapshot(p) \/ Reduced(p) => p \in inbox[1].about
        /\ \A p \in inbox[1].about : Opened(p)

LEMMA StreamParts ==
    StreamSound <=> LinkSound /\ CallsSound /\ InboxSound /\ KnownSound /\ ToldSound
BY DEF StreamSound, LinkSound, CallsSound, InboxSound, KnownSound, ToldSound

LEMMA StreamNow ==
    IInv => LinkSound /\ CallsSound /\ InboxSound /\ KnownSound /\ ToldSound
BY StreamParts DEF IInv

LEMMA LinkStep ==
    ASSUME IInv, [Next]_vars
    PROVE  LinkSound'
<1>1. LinkSound
  BY StreamNow
<1>2. CASE OffStream
  <2>1. UNCHANGED <<link, inbox, replaying>>
    BY <1>2, OffStreamFacts DEF stream
  <2>2. phase = "stream" => phase' = "stream"
    <3>1. ASSUME NEW q \in Position, WriteFails(q), phase = "stream" PROVE phase' = "stream"
      <4>1. Takes(q) /\ Silent(Backfill)
        BY <3>1, Taken, SilentFacts
      <4>2. 1 \in Numbers(chain[q])
        BY <4>1, FirstRemoved, PositionFacts DEF Takes, Chain
      <4>3. chain[q][1].by # Backfill
        BY <4>1, <4>2 DEF Silent
      <4>4. PICK i \in Running(q) : chain[q][i].by = Backfill \/ UNCHANGED phase
        BY <3>1 DEF WriteFails
      <4>5. i = 1
        BY <4>4 DEF Running
      <4> QED
        BY <3>1, <4>3, <4>4, <4>5
    <3> QED
      BY <1>2, <3>1 DEF OffStream, WriteLands, BackfillWrites, Opens, ReadsWatermark, DealsAnswer,
       PositionsAnswer, BackfillFails, BackfillAggregates, BackfillMoves, Replaces, FetchReads, FetchAnswers,
       Prices, CallEnds, FetchFails, SiblingExits, DayPasses, Asked
  <2> QED
    BY <1>1, <2>1, <2>2 DEF LinkSound
<1>3. CASE BackfillEnds
  BY <1>1, <1>3 DEF LinkSound, BackfillEnds
<1>4. CASE Closes \/ Restart \/ StreamDrops
  BY <1>4 DEF LinkSound, Closes, Restart, StreamDrops
<1>5. CASE StreamUp
  BY <1>5 DEF LinkSound, StreamUp
<1>6. CASE HistoryEnds
  BY <1>1, <1>6 DEF LinkSound, HistoryEnds
<1>7. ASSUME NEW c \in Call, Callbacks(c) PROVE LinkSound'
  BY <1>1, <1>7, CallbackFacts, EventInbox DEF LinkSound
<1>8. ASSUME NEW q \in Position, Broker(q) PROVE LinkSound'
  <2>1. UNCHANGED <<link, replaying, phase>> /\ Len(deals[q]) < MaxDeals
    BY <1>8, DealFacts
  <2>2. \E kind \in {"updated", "removed"} : Sends(q, kind)
    BY <1>8 DEF Broker, PositionOpens, PartClosed, PositionCloses
  <2>3. ~link => inbox' = inbox
    BY <2>1, <2>2, SendsInbox
  <2> QED
    BY <1>1, <2>1, <2>3 DEF LinkSound
<1>9. CASE UNCHANGED vars
  BY <1>1, <1>9 DEF LinkSound, vars, stream
<1> QED
  BY <1>2, <1>3, <1>4, <1>5, <1>6, <1>7, <1>8, <1>9, StreamCases

\* The connects count up, and only a new one starts a backfill.
LEMMA CurStep ==
    ASSUME IInv, [Next]_vars
    PROVE  \/ Opens /\ cur' = cur + 1
           \/ UNCHANGED cur /\ (Backfilling(phase') => Backfilling(phase))
<1>1. CASE Opens
  BY <1>1 DEF Opens
<1>2. CASE ~Opens
  <2>1. UNCHANGED cur
    <3>1. CASE Elsewhere
      BY <3>1, ElsewhereFacts DEF listener
    <3>2. CASE BackfillEnds \/ \E c \in Call : \E q \in Position : Replaces(c, q)
      BY <3>2 DEF BackfillEnds, Replaces
    <3>3. CASE \E c \in Call : Callbacks(c)
      BY <3>3, CallbackFacts, EventInbox
    <3> QED
      BY <1>2, <3>1, <3>2, <3>3, ListenerCases
  <2>2. Backfilling(phase') => Backfilling(phase)
    <3>1. CASE OpenSteps
      BY <1>2, <3>1 DEF OpenSteps, ReadsWatermark, DealsAnswer, PositionsAnswer, BackfillFails,
             BackfillAggregates, BackfillEnds, Closes, Backfilling, Asked
    <3>2. CASE Restart \/ UNCHANGED vars
      BY <3>2 DEF Restart, vars, Backfilling
    <3>3. CASE \E q \in Position : WriteLands(q) \/ WriteFails(q)
      BY <3>3, Taken DEF Takes, Backfilling
    <3> QED
      BY <3>1, <3>2, <3>3, NextCases, BackfillPuts, CallPuts, DealFacts, AsideFacts
  <2> QED
    BY <2>1, <2>2
<1> QED
  BY <1>1, <1>2

LEMMA CallsStep ==
    ASSUME IInv, [Next]_vars
    PROVE  CallsSound'
<1>1. CallsSound /\ LinkSound /\ cur \in Nat /\ \A c \in Call : call[c].by \in Nat
  BY StreamNow, CallFacts
<1>2. cur <= cur' /\ cur' \in Nat
  BY <1>1, CurStep
<1>3. ASSUME NEW c \in Call PROVE call'[c].by <= cur'
  <2>1. call'[c].by \in {call[c].by, 0, cur}
    BY CallChange, ReadsGoOn, CallFacts DEF Begins, GoesOn
  <2>2. call[c].by <= cur
    BY <1>1 DEF CallsSound
  <2> QED
    BY <1>1, <1>2, <2>1, <2>2
<1>4. ASSUME NEW c \in Call, Backfilling(phase'), call'[c].by = cur', call'[c].pc # "free"
      PROVE  FALSE
  <2>1. CASE Opens /\ cur' = cur + 1
    <3>1. UNCHANGED call
      BY <2>1 DEF Opens
    <3>2. call[c].by <= cur
      BY <1>1 DEF CallsSound
    <3> QED
      BY <1>1, <1>4, <2>1, <3>1, <3>2
  <2>2. CASE UNCHANGED cur /\ Backfilling(phase)
    <3>1. ~Busy(c)
      BY <1>1, <2>2 DEF CallsSound
    <3>2. ~Begins(c)
      <4>1. phase # "stream" /\ inbox = <<>>
        BY <1>1, <2>2 DEF LinkSound, Backfilling
      <4> QED
        BY <4>1, CallbackFacts DEF Begins, Ready
    <3>3. call'[c] # FreeCall
      BY <1>4, CallFacts
    <3>4. call'[c].by = call[c].by /\ call[c].pc # "free"
      BY <1>4, <3>2, <3>3, CallChange, ReadsGoOn DEF GoesOn
    <3> QED
      BY <1>4, <2>2, <3>1, <3>4 DEF Busy, Mine
  <2> QED
    BY <1>4, <2>1, <2>2, CurStep
<1> QED
  BY <1>3, <1>4 DEF CallsSound, Busy, Mine

\* An event that is under way stays true.
EventSound(i, e) ==
    /\ e.kind = "replaced" => i = 1
    /\ e.kind = "removed" => e.about \subseteq over
    /\ e.kind = "updated" => \E p \in Position : e.about = {p} /\ Opened(p)

EventSoundNext(i, e) ==
    /\ e.kind = "replaced" => i = 1
    /\ e.kind = "removed" => e.about \subseteq over'
    /\ e.kind = "updated" => \E p \in Position : e.about = {p} /\ deals'[p] # <<>>

LEMMA EventStays ==
    ASSUME IInv, [Next]_vars, NEW i, NEW e, EventSound(i, e)
    PROVE  EventSoundNext(i, e)
BY BrokerGrows, OpenedGrows DEF EventSound, EventSoundNext

LEMMA InboxStep ==
    ASSUME IInv, [Next]_vars
    PROVE  InboxSound'
<1>1. \A i \in Numbers(inbox) : EventSound(i, inbox[i])
  BY StreamNow DEF InboxSound, EventSound
<1>2. \A i \in Numbers(inbox) : EventSoundNext(i, inbox[i])
  BY <1>1, EventStays
<1> SUFFICES \A i \in Numbers(inbox') : EventSoundNext(i, inbox'[i])
  BY OpenedGrows DEF InboxSound, EventSoundNext
<1>3. CASE UNCHANGED inbox
  BY <1>2, <1>3
<1>4. CASE inbox' = <<>>
  <2>1. Numbers(inbox') = {}
    BY <1>4, EmptySeq DEF Numbers
  <2> QED
    BY <2>1
<1>5. CASE StreamUp
  <2>1. inbox'[1].kind = "replaced"
    BY <1>5, StreamUpInbox, EventType DEF OpenNow
  <2> QED
    BY <1>5, <2>1, StreamUpInbox DEF EventSoundNext
<1>6. CASE HistoryEnds
  <2>1. inbox \in Seq(Events) /\ Event("synchronized", {}) \in Events
        /\ Event("synchronized", {}).kind = "synchronized"
    BY EventType DEF IInv, TypeOK, StreamOK
  <2>2. inbox' = Append(inbox, Event("synchronized", {}))
    BY <1>6 DEF HistoryEnds
  <2>3. \A i \in Numbers(inbox') :
          \/ inbox'[i].kind = "synchronized"
          \/ i \in Numbers(inbox) /\ inbox'[i] = inbox[i]
    <3> DEFINE e == Event("synchronized", {})
    <3>1. /\ Append(inbox, e)[Len(inbox) + 1] = e
          /\ \A i \in Numbers(inbox) : Append(inbox, e)[i] = inbox[i]
          /\ \A i \in Numbers(Append(inbox, e)) : i = Len(inbox) + 1 \/ i \in Numbers(inbox)
      BY <2>1, AppendFacts DEF Numbers
    <3> QED
      BY <2>1, <2>2, <3>1
  <2> QED
    BY <1>2, <2>3 DEF EventSoundNext
<1>7. ASSUME NEW c \in Call, Callbacks(c)
      PROVE  \A i \in Numbers(inbox') : EventSoundNext(i, inbox'[i])
  <2>1. Rest(inbox, inbox')
    BY <1>7, CallbackFacts, EventInbox
  <2> SUFFICES ASSUME NEW i \in Numbers(inbox') PROVE EventSoundNext(i, inbox'[i])
    OBVIOUS
  <2>2. i \in Nat /\ i > 0 /\ i + 1 \in Numbers(inbox) /\ inbox'[i] = inbox[i + 1]
    BY <2>1 DEF Rest
  <2>3. i + 1 # 1
    BY <2>2
  <2> QED
    BY <1>2, <2>2, <2>3 DEF EventSoundNext
<1>8. ASSUME NEW q \in Position, Broker(q)
      PROVE  \A i \in Numbers(inbox') : EventSoundNext(i, inbox'[i])
  <2>1. Len(deals[q]) < MaxDeals /\ deals'[q] # <<>>
    <3>1. now \in 1 .. MaxDay /\ deals[q] \in Seq(1 .. MaxDay)
      BY DEF IInv, TypeOK, BrokerOK
    <3> QED
      BY <1>8, <3>1, DealFacts, AppendFacts
  <2>2. \E kind \in {"updated", "removed"} :
          Sends(q, kind) /\ (kind = "removed" => q \in over')
    BY <1>8 DEF Broker, PositionOpens, PartClosed, PositionCloses
  <2>3. PICK kind \in {"updated", "removed"} :
          Sends(q, kind) /\ (kind = "removed" => q \in over')
    BY <2>2
  <2>4. \A i \in Numbers(inbox') :
          \/ i \in Numbers(inbox) /\ inbox'[i] = inbox[i]
          \/ inbox'[i].kind = "deal"
          \/ inbox'[i] = Event(kind, {q})
    BY <2>1, <2>3, SendsInbox
  <2>5. Event(kind, {q}).kind = kind /\ Event(kind, {q}).about = {q}
    BY EventType
  <2>6. \A i : EventSoundNext(i, Event(kind, {q}))
    BY <2>1, <2>3, <2>5 DEF EventSoundNext
  <2>7. \A i, e : e.kind = "deal" => EventSoundNext(i, e)
    BY DEF EventSoundNext
  <2> QED
    BY <1>2, <2>4, <2>6, <2>7
<1>9. CASE OffStream \/ BackfillEnds \/ UNCHANGED vars
  BY <1>3, <1>9, OffStreamFacts DEF BackfillEnds, stream, vars
<1>10. CASE Closes \/ Restart \/ StreamDrops
  BY <1>4, <1>10 DEF Closes, Restart, StreamDrops
<1> QED
  BY <1>5, <1>6, <1>7, <1>8, <1>9, <1>10, StreamCases

\* What the listener writes of a snapshot, it was writing before, or the snapshot has come.
LEMMA SnapshotStep ==
    ASSUME IInv, [Next]_vars, NEW p \in Position, Snapshot(p)'
    PROVE  \/ Snapshot(p)
           \/ /\ SnapshotNext /\ p \in inbox[1].about
              /\ \E c \in Call : OnPositionsReplaced(c)
<1>1. PICK c \in Call : call'[c].by = cur' /\ call'[c].pc = "writing" /\ p \in call'[c].pos
  BY DEF Snapshot, Mine
<1>2. call'[c] # FreeCall
  BY <1>1, CallFacts
<1>3. CASE Begins(c)
  <2>1. OnPositionsReplaced(c) /\ p \in Head(inbox).about
    BY <1>1, <1>3 DEF Begins
  <2>2. Head(inbox) = inbox[1] /\ inbox # <<>> /\ Head(inbox).kind = "replaced"
    BY <1>3, <2>1, CallbackFacts, EventInbox DEF Begins, OnPositionsReplaced
  <2> QED
    BY <2>1, <2>2 DEF SnapshotNext
<1>4. CASE ~Begins(c)
  <2>1. /\ call'[c].by = call[c].by /\ call[c].pc = "writing" /\ p \in call[c].pos
    BY <1>1, <1>2, <1>4, CallChange, ReadsGoOn DEF GoesOn
  <2>2. call[c].by <= cur /\ call[c].by \in Nat /\ cur \in Nat
    BY CallFacts
  <2>3. cur' = cur
    BY <1>1, <2>1, <2>2, CurStep
  <2> QED
    BY <1>1, <2>1, <2>3 DEF Snapshot, Mine
<1> QED
  BY <1>3, <1>4

LEMMA KnownStep ==
    ASSUME IInv, [Next]_vars
    PROVE  KnownSound'
<1>1. KnownSound /\ ToldSound /\ InboxSound
  BY StreamNow
<1>2. \A p \in Position : Opened(p) => Opened(p)'
  BY OpenedGrows
<1>3. ASSUME NEW p \in Position, Snapshot(p)' PROVE Opened(p)'
  <2>1. Opened(p)
    BY <1>1, <1>3, SnapshotStep DEF KnownSound, ToldSound
  <2> QED
    BY <1>2, <2>1
<1>4. ASSUME NEW p \in openPositionIds' PROVE p \in Position /\ Opened(p)'
  <2>1. \A c \in Call, q \in Position : Replaces(c, q) =>
          openPositionIds' \subseteq openPositionIds \cup {x \in Position : Snapshot(x)}
    BY DEF Replaces, Snapshot
  <2>2. \A c \in Call : OnPositionUpdated(c) =>
          openPositionIds' \subseteq openPositionIds \cup {x \in Position : Opened(x)}
    BY UpdatedFacts
  <2>3. \A c \in Call : Callbacks(c) /\ ~OnPositionUpdated(c) =>
          openPositionIds' \subseteq openPositionIds
    BY DEF Callbacks, OnDealsSynchronized, OnPositionsReplaced, OnPositionRemoved, OnDealAdded,
           Dropped
  <2>4. Elsewhere \/ Opens \/ BackfillEnds => openPositionIds' \subseteq openPositionIds
    BY ElsewhereFacts DEF Opens, BackfillEnds, listener
  <2>5. p \in Position /\ (p \in openPositionIds \/ Snapshot(p) \/ Opened(p))
    <3>1. openPositionIds \subseteq Position
      BY CallFacts
    <3> QED
      BY <1>4, <2>1, <2>2, <2>3, <2>4, <3>1, ListenerCases
  <2> QED
    BY <1>1, <1>2, <2>5 DEF KnownSound
<1> QED
  BY <1>3, <1>4 DEF KnownSound

LEMMA UnseenGrows ==
    ASSUME IInv, [Next]_vars
    PROVE  unseen \subseteq unseen'
<1>1. CASE UNCHANGED history
  BY <1>1 DEF history
<1>2. CASE \E q \in Position : WriteFails(q) \/ Broker(q)
  BY <1>2 DEF WriteFails, Broker, PositionOpens, PartClosed, PositionCloses, history
<1>3. CASE OpenSteps \/ Restart \/ StreamUp \/ HistoryEnds \/ StreamDrops \/ UNCHANGED vars
  BY <1>3 DEF OpenSteps, Opens, ReadsWatermark, DealsAnswer, PositionsAnswer, BackfillFails,
         BackfillAggregates, BackfillEnds, Closes, Restart, StreamUp, HistoryEnds, StreamDrops,
         vars, history
<1>4. CASE \E c \in Call : Callbacks(c)
  BY <1>1, <1>4, CallbackFacts, EventInbox
<1>5. CASE \/ \E q \in Position : WriteLands(q) \/ BackfillWrites(q)
           \/ \E c \in Call :
                \/ \E q \in Position : Replaces(c, q) \/ FetchReads(c, q) \/ FetchAnswers(c, q)
                \/ Prices(c) \/ CallEnds(c) \/ FetchFails(c)
           \/ SiblingExits \/ DayPasses
  BY <1>1, <1>5 DEF WriteLands, BackfillWrites, Replaces, FetchReads, FetchAnswers, Prices, CallEnds,
         FetchFails, SiblingExits, DayPasses
<1> QED
  BY <1>2, <1>3, <1>4, <1>5 DEF Next, System, Chains, Backfills, Stream, Callback, Callbacks,
     Continues, OpenSteps

\* A position that gets to be open and closed in part was one, or is known as open.
LEMMA ReducedStep ==
    ASSUME IInv, [Next]_vars, NEW p \in Position, Reduced(p)'
    PROVE  p \in OpenNow /\ (Reduced(p) \/ (deals'[p] # deals[p] /\ PartClosed(p) /\ KnownOpen(p)))
<1>1. p \notin over' /\ Len(deals'[p]) > 1 /\ p \notin unseen' /\ deals'[p] # <<>>
  BY DEF Reduced, OpenNow, Opened
<1>2. p \notin over /\ p \notin unseen
  BY <1>1, BrokerGrows, UnseenGrows
<1>3. CASE deals'[p] = deals[p]
  BY <1>1, <1>2, <1>3 DEF Reduced, OpenNow, Opened
<1>4. CASE deals'[p] # deals[p]
  <2>1. Broker(p) /\ deals'[p] = Append(deals[p], now)
    BY <1>4, OpenedGrows
  <2>2. ~PositionOpens(p)
    <3>1. SUFFICES ASSUME deals[p] = <<>> PROVE FALSE
      BY DEF PositionOpens, Opened
    <3>2. now \in 1 .. MaxDay /\ deals[p] \in Seq(1 .. MaxDay) /\ Len(<<>>) = 0
      BY EmptySeq DEF IInv, TypeOK, BrokerOK
    <3>3. Len(deals'[p]) = Len(deals[p]) + 1
      BY <2>1, <3>2, AppendProperties
    <3> QED
      BY <1>1, <3>1, <3>2, <3>3
  <2>3. ~PositionCloses(p)
    BY <1>1 DEF PositionCloses
  <2>4. PartClosed(p) /\ p \in OpenNow
    BY <2>1, <2>2, <2>3 DEF Broker, PartClosed
  <2>5. KnownOpen(p)
    BY <1>1, <2>4 DEF PartClosed
  <2> QED
    BY <1>4, <2>4, <2>5
<1> QED
  BY <1>3, <1>4

\* The snapshot is next to be told as long as nothing else was.
LEMMA SnapshotStays ==
    ASSUME IInv, [Next]_vars, SnapshotNext', ~StreamUp
    PROVE  /\ SnapshotNext /\ inbox'[1] = inbox[1] /\ phase = "stream"
           /\ ~BackfillEnds /\ ~Opens /\ ~Closes /\ ~Restart /\ \A c \in Call : ~Callbacks(c)
<1>1. inbox \in Seq(Events) /\ LinkSound /\ InboxSound
  BY StreamNow DEF IInv, TypeOK, StreamOK
<1>2. inbox' # <<>> /\ inbox'[1].kind = "replaced"
  BY DEF SnapshotNext
<1>3. ASSUME SnapshotNext, inbox'[1] = inbox[1], \A c \in Call : ~Callbacks(c)
      PROVE  /\ phase = "stream" /\ ~BackfillEnds /\ ~Opens /\ ~Closes /\ ~Restart
  <2>1. phase = "stream"
    BY <1>1, <1>3 DEF SnapshotNext, LinkSound
  <2>2. ~Closes /\ ~Restart
    BY <1>2 DEF Closes, Restart
  <2> QED
    BY <2>1, <2>2 DEF BackfillEnds, Opens
<1>4. ASSUME NEW c \in Call, Callbacks(c) PROVE FALSE
  <2>1. Rest(inbox, inbox') /\ 1 \in Numbers(inbox')
    BY <1>2, <1>4, CallbackFacts, EventInbox
  <2>2. 1 + 1 \in Numbers(inbox) /\ inbox'[1] = inbox[1 + 1]
    BY <2>1 DEF Rest
  <2>3. 1 + 1 # 1
    OBVIOUS
  <2> QED
    BY <1>1, <1>2, <2>2, <2>3 DEF InboxSound
<1>5. SnapshotNext /\ inbox'[1] = inbox[1]
  <2>1. CASE UNCHANGED inbox
    BY <1>2, <2>1 DEF SnapshotNext
  <2>2. CASE HistoryEnds
    <3> DEFINE e == Event("synchronized", {})
    <3>1. e \in Events /\ e.kind = "synchronized" /\ inbox' = Append(inbox, e)
      BY <2>2, EventType DEF HistoryEnds
    <3> HIDE DEF e
    <3>2. /\ Append(inbox, e)[Len(inbox) + 1] = e /\ Len(inbox) \in Nat
          /\ \A i \in Numbers(inbox) : Append(inbox, e)[i] = inbox[i]
      BY <1>1, <3>1, AppendFacts DEF Numbers
    <3>3. CASE inbox = <<>>
      <4>1. Len(inbox) + 1 = 1
        BY <3>3, EmptySeq
      <4> QED
        BY <1>2, <3>1, <3>2, <4>1
    <3>4. CASE inbox # <<>>
      <4>1. 1 \in Numbers(inbox)
        BY <1>1, <3>4, TailFacts
      <4> QED
        BY <1>2, <3>1, <3>2, <3>4, <4>1 DEF SnapshotNext
    <3> QED
      BY <3>3, <3>4
  <2>3. ASSUME NEW q \in Position, Broker(q) PROVE SnapshotNext /\ inbox'[1] = inbox[1]
    <3>1. PICK kind \in {"updated", "removed"} : Sends(q, kind)
      BY <2>3 DEF Broker, PositionOpens, PartClosed, PositionCloses
    <3>2. /\ inbox' \in Seq(Events)
          /\ \A i \in Numbers(inbox') :
                \/ i \in Numbers(inbox) /\ inbox'[i] = inbox[i]
                \/ inbox'[i].kind = "deal"
                \/ inbox'[i] = Event(kind, {q})
      BY <2>3, <3>1, SendsInbox, DealFacts
    <3>3. 1 \in Numbers(inbox')
      BY <1>2, <3>2, EmptySeq, LenProperties DEF Numbers
    <3>4. Event(kind, {q}).kind = kind
      BY EventType
    <3>5. 1 \in Numbers(inbox) /\ inbox'[1] = inbox[1]
      BY <1>2, <3>2, <3>3, <3>4
    <3>6. inbox # <<>>
      BY <3>5, EmptySeq DEF Numbers
    <3> QED
      BY <1>2, <3>5, <3>6 DEF SnapshotNext
  <2>4. CASE OffStream \/ BackfillEnds \/ UNCHANGED vars
    BY <2>1, <2>4, OffStreamFacts DEF BackfillEnds, stream, vars
  <2>5. CASE Closes \/ Restart \/ StreamDrops
    BY <1>2, <2>5 DEF Closes, Restart, StreamDrops
  <2> QED
    BY <1>4, <2>2, <2>3, <2>4, <2>5, StreamCases
<1> QED
  BY <1>3, <1>4, <1>5

LEMMA ToldStep ==
    ASSUME IInv, [Next]_vars
    PROVE  ToldSound'
<1>1. KnownSound /\ ToldSound
  BY StreamNow
<1>2. CASE StreamUp /\ SnapshotNext'
  <2>1. inbox'[1].about = OpenNow
    BY <1>2, StreamUpInbox, EventType DEF OpenNow
  <2>2. UNCHANGED <<deals, over>>
    BY <1>2 DEF StreamUp, broker
  <2> QED
    BY <2>1, <2>2 DEF ToldSound, OpenNow, Opened
<1>3. CASE ~StreamUp /\ SnapshotNext'
  <2>1. /\ SnapshotNext /\ inbox'[1] = inbox[1] /\ phase = "stream"
        /\ ~BackfillEnds /\ ~Opens /\ \A c \in Call : ~Callbacks(c)
    BY <1>3, SnapshotStays
  <2>2. ASSUME NEW p \in inbox[1].about, p \in Position PROVE Opened(p)'
    BY <1>1, <2>1, <2>2, OpenedGrows DEF ToldSound
  <2>3. inbox[1].about \subseteq Position
    <3>1. inbox \in Seq(Events) /\ inbox # <<>>
      BY <2>1 DEF SnapshotNext, IInv, TypeOK, StreamOK
    <3>2. inbox[1] \in Events
      BY <3>1, TailFacts
    <3> QED
      BY <3>2 DEF Events
  <2>4. ASSUME NEW p \in Position, p \notin over',
               p \in openPositionIds' \/ Snapshot(p)' \/ Reduced(p)'
        PROVE  p \in inbox[1].about
    <3>1. p \notin over
      BY <2>4, BrokerGrows
    <3>2. CASE Snapshot(p)
      BY <1>1, <2>1, <3>1, <3>2 DEF KnownSound, ToldSound, OpenNow
    <3>3. CASE p \in openPositionIds
      BY <1>1, <2>1, <3>1, <3>3 DEF KnownSound, ToldSound, OpenNow
    <3>4. CASE p \in openPositionIds'
      <4>1. p \in openPositionIds \/ Snapshot(p)
        <5>1. CASE Elsewhere
          BY <3>4, <5>1, ElsewhereFacts DEF listener
        <5>2. CASE \E c \in Call : \E q \in Position : Replaces(c, q)
          BY <3>4, <5>2 DEF Replaces, Snapshot
        <5> QED
          BY <2>1, <5>1, <5>2, ListenerCases
      <4> QED
        BY <3>2, <3>3, <4>1
    <3>5. CASE Snapshot(p)'
      BY <3>2, <3>5, SnapshotStep
    <3>6. CASE Reduced(p)'
      <4>1. p \in OpenNow /\ (Reduced(p) \/ KnownOpen(p))
        BY <3>6, ReducedStep
      <4>2. Reduced(p) \/ p \in openPositionIds
        BY <2>1, <4>1 DEF KnownOpen
      <4> QED
        BY <1>1, <2>1, <4>1, <4>2 DEF ToldSound
    <3> QED
      BY <2>4, <3>4, <3>5, <3>6
  <2> QED
    BY <2>1, <2>2, <2>3, <2>4 DEF ToldSound, OpenNow
<1> QED
  BY <1>2, <1>3 DEF ToldSound

LEMMA StreamSoundStep ==
    ASSUME IInv, [Next]_vars
    PROVE  StreamSound'
<1>1. LinkSound' /\ CallsSound' /\ InboxSound' /\ KnownSound' /\ ToldSound'
  BY LinkStep, CallsStep, InboxStep, KnownStep, ToldStep
<1>2. (LinkSound /\ CallsSound /\ InboxSound /\ KnownSound /\ ToldSound => StreamSound)'
  BY StreamParts, PTL
<1> QED
  BY <1>1, <1>2

-----------------------------------------------------------------------------
(* If the SDK waits for a callback before it makes the next.               *)

\* Callbacks come one at a time, and when the listener has nothing left to do.
LEMMA WaitsFacts ==
    ASSUME IInv, Waits, NEW c \in Call, Callbacks(c)
    PROVE  /\ \A d \in Call : ~Busy(d) /\ (Callbacks(d) => d = c)
           /\ inbox # <<>> /\ link /\ phase = "stream"
<1>1. Ready(c) /\ LinkSound
  BY CallbackFacts, StreamNow
<1>2. \A d \in Call : Callbacks(d) => d = c
  BY <1>1, CallbackFacts DEF Ready, SpareCall
<1> QED
  BY <1>1, <1>2 DEF Ready, LinkSound, Busy

LEMMA BusyStep ==
    ASSUME IInv, [Next]_vars, NEW c \in Call, Busy(c)'
    PROVE  UNCHANGED cur /\ (Busy(c) \/ Begins(c))
<1>1. call'[c].by = cur' /\ call'[c] # FreeCall
  BY CallFacts DEF Busy, Mine
<1>2. UNCHANGED cur
  <2>1. SUFFICES ASSUME Opens, cur' = cur + 1 PROVE FALSE
    BY <2>1, CurStep
  <2>2. call'[c] = call[c]
    BY <2>1 DEF Opens
  <2> QED
    BY <1>1, <2>1, <2>2, CallFacts
<1> QED
  BY <1>1, <1>2, CallChange, ReadsGoOn DEF Busy, Mine, GoesOn

LEMMA OneBusyStep ==
    ASSUME IInv, [Next]_vars, Waits
    PROVE  OneBusy'
<1> SUFFICES ASSUME NEW c \in Call, NEW d \in Call, Busy(c)', Busy(d)' PROVE c = d
  BY DEF OneBusy
<1>1. (Busy(c) \/ Begins(c)) /\ (Busy(d) \/ Begins(d))
  BY BusyStep
<1>2. CASE Busy(c) /\ Busy(d)
  BY <1>2 DEF IInv, OneBusy
<1>3. CASE Begins(c)
  BY <1>1, <1>3, WaitsFacts DEF Begins
<1>4. CASE Begins(d)
  BY <1>1, <1>4, WaitsFacts DEF Begins
<1> QED
  BY <1>1, <1>2, <1>3, <1>4

\* An answer under way was read now, or was under way before.
LEMMA AnswerChange ==
    ASSUME IInv, [Next]_vars, NEW c \in Call, call'[c].pc = "fetched"
    PROVE  call'[c] = call[c] \/ Reads(c)
<1>1. call'[c] # FreeCall /\ ~GoesOn(c)
  BY CallFacts DEF GoesOn
<1>2. ~Begins(c)
  <2>1. SUFFICES ASSUME Callbacks(c), call[c].pc = "free" PROVE FALSE
    BY DEF Begins
  <2>2. \/ UNCHANGED call
         \/ \E S : Called(c, "writing", S) \/ Called(c, "pricing", S) \/ Called(c, "fetching", S)
    BY <2>1 DEF Callbacks, OnDealsSynchronized, OnPositionsReplaced, OnPositionUpdated,
       OnPositionRemoved, OnDealAdded, Finalizes
  <2>3. \A pc, S : Called(c, pc, S) => call'[c].pc = pc
    BY CallFacts DEF Called, FreeCall
  <2> QED
    BY <2>1, <2>2, <2>3
<1> QED
  BY <1>1, <1>2, CallChange

\* Nobody else closes a row while an answer is under way to a listener that is waited for.
LEMMA NewerStep ==
    ASSUME IInv, [Next]_vars, Waits, NEW c \in Call, Mine(c), call[c].pc = "fetched",
           call'[c] = call[c], NEW p \in Position, NEW n, NoneNewer(n, rows[p], chain[p])
    PROVE  NoneNewer(n, rows'[p], chain'[p])
<1>1. rows \in [Position -> Rows] /\ chain \in [Position -> Chain]
  BY DEF IInv, TypeOK, RowsOK, Chain
<1>2. CASE rows'[p] = rows[p] /\ chain'[p] = chain[p]
  BY <1>2
<1>3. ASSUME NEW q \in Position, Takes(q) PROVE NoneNewer(n, rows'[p], chain'[p])
  <2>1. CASE p # q
    BY <1>1, <1>2, <1>3, <2>1 DEF Takes
  <2>2. CASE p = q
    <3>1. /\ chain[p] # <<>> /\ chain'[p] = RemoveAt(chain[p], 1)
          /\ rows'[p] \in {rows[p], Applied(rows[p], chain[p][1])}
      BY <1>1, <1>3, <2>2 DEF Takes
    <3>2. /\ deals[p] \in Days /\ rows[p] \in Rows /\ chain[p] \in Chain
          /\ RowSound(deals[p], rows[p]) /\ ChainSound(deals[p], rows[p], chain[p])
      BY PositionFacts
    <3> QED
      BY <3>1, <3>2, NewerLess
  <2> QED
    BY <2>1, <2>2
<1>4. ASSUME NEW by, Enqueued(by), UNCHANGED rows, by \in Call => call'[by].pc # "fetched"
      PROVE  NoneNewer(n, rows'[p], chain'[p])
  <2>1. PICK q \in Position : \E w, m : Puts(q, w, m) /\ w.by = by /\ Reason(q, w)
    BY <1>4 DEF Enqueued
  <2>2. PICK w \in Writes :
          Reason(q, w) /\ w.by = by /\ chain' = [chain EXCEPT ![q] = Append(@, w)]
    BY <2>1 DEF Puts
  <2>3. CASE p # q
    BY <1>1, <1>2, <1>4, <2>2, <2>3
  <2>4. w.op # "closed"
    <3>1. SUFFICES ASSUME w.op = "closed" PROVE FALSE
      OBVIOUS
    <3>2. Busy(c) /\ CallsSound
      BY StreamNow DEF Busy
    <3>3. phase # "writes"
      BY <3>2 DEF CallsSound, Backfilling
    <3>4. by \in Call /\ Busy(by)
      BY <2>2, <3>1, <3>3 DEF Reason, Busy
    <3>5. by = c
      BY <3>2, <3>4 DEF IInv, OneBusy
    <3> QED
      BY <1>4, <3>5
  <2>5. CASE p = q
    <3> DEFINE k == chain[p]
    <3>1. k \in Seq(Writes) /\ chain'[p] = Append(k, w)
      BY <1>1, <2>2, <2>5 DEF Chain
    <3> HIDE DEF k
    <3>2. /\ Append(k, w)[Len(k) + 1] = w
          /\ \A i \in Numbers(k) : Append(k, w)[i] = k[i]
          /\ \A i \in Numbers(Append(k, w)) : i = Len(k) + 1 \/ i \in Numbers(k)
      BY <3>1, AppendFacts DEF Numbers
    <3> QED
      BY <1>4, <2>4, <3>1, <3>2 DEF NoneNewer, k
  <2> QED
    BY <2>3, <2>5
<1>5. CASE \E q \in Position : WriteLands(q) \/ WriteFails(q)
  BY <1>3, <1>5, Taken
<1>6. CASE \E q \in Position : BackfillWrites(q)
  BY <1>4, <1>6, BackfillPuts, DealsAssumption
<1>7. ASSUME NEW d \in Call, Enqueues(d) PROVE NoneNewer(n, rows'[p], chain'[p])
  <2>1. PICK v \in Calls : (CallTo(d, v) /\ v.pc \in {"writing", "pricing"})
                            \/ (UNCHANGED chain /\ CallTo(d, v))
    BY <1>7, EnqueuesFacts
  <2>2. CASE UNCHANGED chain
    BY <1>2, <1>7, <2>2, CallPuts
  <2>3. CASE CallTo(d, v) /\ v.pc \in {"writing", "pricing"}
    <3>1. call'[d].pc # "fetched"
      BY <2>3, CallFacts DEF CallTo
    <3> QED
      BY <1>2, <1>4, <1>7, <3>1, CallPuts
  <2> QED
    BY <2>1, <2>2, <2>3
<1>8. CASE Restart
  <2>1. chain'[p] = <<>> /\ UNCHANGED rows
    BY <1>8 DEF Restart
  <2>2. Numbers(chain'[p]) = {}
    BY <2>1, EmptySeq DEF Numbers
  <2> QED
    BY <2>1, <2>2 DEF NoneNewer
<1>9. CASE OpenSteps
  BY <1>2, <1>9 DEF OpenSteps, Opens, ReadsWatermark, DealsAnswer, PositionsAnswer,
     BackfillFails, BackfillAggregates, BackfillEnds, Closes, BackfillMoves
<1>10. CASE Aside \/ (\E q \in Position : Broker(q)) \/ UNCHANGED vars
  BY <1>2, <1>10, AsideFacts, DealFacts DEF vars
<1> QED
  BY <1>5, <1>6, <1>7, <1>8, <1>9, <1>10, NextCases

LEMMA AnswersStep ==
    ASSUME IInv, [Next]_vars
    PROVE  Answers'
<1> SUFFICES ASSUME NEW c \in Call, NEW p \in call'[c].pos, call'[c].pc = "fetched"
             PROVE  /\ call'[c].upto <= Len(deals'[p])
                    /\ Waits /\ Mine(c)' => NoneNewer(call'[c].upto, rows'[p], chain'[p])
  BY DEF Answers, AnswerSound
<1>1. CASE Reads(c)
  <2>1. PICK q \in Position : FetchReads(c, q) /\ call'[c] = Read(c, q)
    BY <1>1 DEF Reads
  <2>2. q = p /\ call'[c].upto = Len(deals[p])
    BY <2>1, ReadsFacts
  <2>3. UNCHANGED <<deals, rows, chain>>
    BY <2>1 DEF FetchReads, broker
  <2>4. NoneNewer(Len(deals[p]), rows[p], chain[p]) /\ Len(deals[p]) \in Nat
    BY <2>2, PositionFacts, NoneAhead
  <2> QED
    BY <2>2, <2>3, <2>4
<1>2. CASE call'[c] = call[c]
  <2>1. p \in Position /\ AnswerSound(c, p) /\ call[c].pc = "fetched"
    BY <1>2, CallFacts DEF IInv, Answers
  <2>2. call[c].upto <= Len(deals[p]) /\ call[c].upto \in Nat /\ deals[p] \in Days
    BY <2>1, PositionFacts, CallFacts, DealsAssumption DEF AnswerSound, Calls
  <2>3. deals'[p] = deals[p] \/ Len(deals'[p]) = Len(deals[p]) + 1
    <3>1. now \in 1 .. MaxDay
      BY DEF IInv, TypeOK, BrokerOK
    <3> QED
      BY <2>1, <2>2, <3>1, OpenedGrows, AppendProperties DEF Days
  <2>4. call'[c].upto <= Len(deals'[p])
    BY <1>2, <2>1, <2>2, <2>3, PositionFacts
  <2>5. ASSUME Waits, Mine(c)' PROVE NoneNewer(call'[c].upto, rows'[p], chain'[p])
    <3>1. Busy(c)'
      BY <2>5 DEF Busy
    <3>2. Mine(c)
      BY <1>2, <2>5, <3>1, BusyStep DEF Mine
    <3>3. NoneNewer(call[c].upto, rows[p], chain[p])
      BY <2>1, <2>5, <3>2 DEF AnswerSound
    <3> QED
      BY <1>2, <2>1, <2>5, <3>2, <3>3, NewerStep
  <2> QED
    BY <2>4, <2>5
<1> QED
  BY <1>1, <1>2, AnswerChange

\* No row of an open position is closed.
LEMMA ClosedStep ==
    ASSUME IInv, [Next]_vars, Waits
    PROVE  ClosedKnown'
<1>1. ClosedKnown /\ ReducedKnown /\ BfPhase /\ IdsSound
  BY BfParts DEF IInv
<1> SUFFICES ASSUME NEW p \in Position, p \notin over' \cup unseen'
             PROVE  /\ rows'[p].state # "closed"
                    /\ \A i \in Numbers(chain'[p]) : chain'[p][i].op # "closed"
  BY DEF ClosedKnown
<1>2. p \notin over \cup unseen
  BY BrokerGrows, UnseenGrows
<1>3. /\ rows[p].state # "closed"
      /\ \A i \in Numbers(chain[p]) : chain[p][i].op # "closed"
  BY <1>1, <1>2 DEF ClosedKnown
<1>4. CASE rows' = rows /\ chain' = chain
  BY <1>3, <1>4
<1>5. ASSUME NEW q \in Position, WriteLands(q) \/ WriteFails(q)
      PROVE  /\ rows'[p].state # "closed"
             /\ \A i \in Numbers(chain'[p]) : chain'[p][i].op # "closed"
  <2>1. Takes(q)
    BY <1>5, Taken
  <2>2. \A i \in Numbers(chain'[p]) : chain'[p][i].op # "closed"
    BY <1>3, <2>1, AloneTaken
  <2>3. rows \in [Position -> Rows]
    BY DEF IInv, TypeOK, RowsOK
  <2>4. CASE rows'[p] = rows[p]
    BY <1>3, <2>2, <2>4
  <2>5. CASE rows'[p] # rows[p]
    <3>1. p = q /\ rows'[p] = Applied(rows[p], chain[p][1]) /\ chain[p] # <<>>
      BY <2>1, <2>3, <2>5 DEF Takes
    <3>2. 1 \in Numbers(chain[p]) /\ chain[p][1] \in Writes
      BY <3>1, FirstRemoved, PositionFacts DEF Chain
    <3>3. chain[p][1].op # "closed" /\ rows[p] \in Rows /\ deals[p] \in Days
          /\ RowSound(deals[p], rows[p])
      BY <1>3, <3>2, PositionFacts
    <3>4. rows'[p].state # "closed"
      BY <1>3, <3>1, <3>2, <3>3, AppliedRow
    <3> QED
      BY <2>2, <3>4
  <2> QED
    BY <2>4, <2>5
<1>6. ASSUME NEW by, Enqueued(by), UNCHANGED rows
      PROVE  /\ rows'[p].state # "closed"
             /\ \A i \in Numbers(chain'[p]) : chain'[p][i].op # "closed"
  <2>1. PICK q \in Position : \E w, n : Puts(q, w, n) /\ Reason(q, w)
    BY <1>6 DEF Enqueued
  <2>2. PICK w \in Writes : Reason(q, w) /\ chain' = [chain EXCEPT ![q] = Append(@, w)]
    BY <2>1 DEF Puts
  <2>3. chain \in [Position -> Chain]
    BY DEF IInv, TypeOK, RowsOK, Chain
  <2>4. CASE p # q
    BY <1>3, <1>6, <2>2, <2>3, <2>4
  <2>5. CASE p = q
    <3>1. w.op # "closed"
      <4>1. SUFFICES ASSUME w.op = "closed" PROVE FALSE
        OBVIOUS
      <4>2. CASE phase = "writes" /\ bf.upto[q] > 1 /\ q \notin bf.ids
        BY <1>1, <1>2, <2>5, <4>2 DEF BfPhase, IdsSound
      <4>3. CASE /\ phase = "stream" /\ Len(deals[q]) > 1 /\ q \notin openPositionIds
                 /\ w.by \in Call /\ Mine(w.by) /\ call[w.by].pc = "fetched"
        <5>1. deals[q] # <<>>
          BY <4>3, EmptySeq
        <5>2. Reduced(q)
          BY <1>2, <2>5, <4>3, <5>1 DEF Reduced, OpenNow, Opened
        <5> QED
          BY <1>1, <4>3, <5>2 DEF ReducedKnown, Reading
      <4> QED
        BY <2>2, <4>1, <4>2, <4>3 DEF Reason
    <3> DEFINE c == chain[p]
    <3>2. c \in Seq(Writes) /\ chain'[p] = Append(c, w)
      BY <2>2, <2>3, <2>5 DEF Chain
    <3> HIDE DEF c
    <3>3. /\ Append(c, w)[Len(c) + 1] = w
          /\ \A i \in Numbers(c) : Append(c, w)[i] = c[i]
          /\ \A i \in Numbers(Append(c, w)) : i = Len(c) + 1 \/ i \in Numbers(c)
      BY <3>2, AppendFacts DEF Numbers
    <3> QED
      BY <1>3, <1>6, <3>1, <3>2, <3>3 DEF c
  <2> QED
    BY <2>4, <2>5
<1>7. CASE \E q \in Position : BackfillWrites(q)
  BY <1>6, <1>7, BackfillPuts
<1>8. CASE \E c \in Call : Enqueues(c)
  BY <1>4, <1>6, <1>8, CallPuts
<1>9. CASE Restart
  <2>1. chain'[p] = <<>> /\ UNCHANGED rows
    BY <1>9 DEF Restart
  <2>2. Numbers(chain'[p]) = {}
    BY <2>1, EmptySeq DEF Numbers
  <2> QED
    BY <1>3, <2>1, <2>2
<1>10. CASE OpenSteps
  BY <1>4, <1>10 DEF OpenSteps, Opens, ReadsWatermark, DealsAnswer, PositionsAnswer,
     BackfillFails, BackfillAggregates, BackfillEnds, Closes, BackfillMoves
<1>11. CASE Aside \/ (\E q \in Position : Broker(q)) \/ UNCHANGED vars
  BY <1>4, <1>11, AsideFacts, DealFacts DEF vars
<1> QED
  BY <1>5, <1>7, <1>8, <1>9, <1>10, <1>11, NextCases

\* Until a snapshot is handed over, it is next, if the stream stays up.
LEMMA SnapshotWaits ==
    ASSUME IInv, [Next]_vars, SnapshotNext, link', phase' = "stream",
           \A c \in Call : ~Callbacks(c)
    PROVE  SnapshotNext'
<1>1. inbox \in Seq(Events) /\ inbox # <<>> /\ inbox[1].kind = "replaced" /\ link
  BY StreamNow DEF IInv, TypeOK, StreamOK, SnapshotNext, LinkSound
<1>2. 1 \in Numbers(inbox) /\ Len(inbox) \in Nat
  BY <1>1, TailFacts
<1>3. CASE UNCHANGED inbox
  BY <1>1, <1>3 DEF SnapshotNext
<1>4. ASSUME inbox' \in Seq(Events), 1 \in Numbers(inbox'), inbox'[1] = inbox[1]
      PROVE  SnapshotNext'
  <2>1. inbox' # <<>>
    BY <1>4, EmptySeq DEF Numbers
  <2> QED
    BY <1>1, <1>4, <2>1 DEF SnapshotNext
<1>5. CASE HistoryEnds
  <2> DEFINE e == Event("synchronized", {})
  <2>1. e \in Events /\ inbox' = Append(inbox, e)
    BY <1>5, EventType DEF HistoryEnds
  <2> HIDE DEF e
  <2>2. /\ Append(inbox, e) \in Seq(Events) /\ Len(Append(inbox, e)) = Len(inbox) + 1
        /\ \A i \in Numbers(inbox) : Append(inbox, e)[i] = inbox[i]
    BY <1>1, <2>1, AppendFacts, AppendProperties DEF Numbers
  <2>3. 1 \in Numbers(Append(inbox, e))
    BY <1>2, <2>2 DEF Numbers
  <2> QED
    BY <1>2, <1>4, <2>1, <2>2, <2>3
<1>6. ASSUME NEW q \in Position, Broker(q) PROVE SnapshotNext'
  <2>1. PICK kind \in {"updated", "removed"} : Sends(q, kind)
    BY <1>6 DEF Broker, PositionOpens, PartClosed, PositionCloses
  <2>2. /\ inbox' \in Seq(Events)
        /\ \A i \in Numbers(inbox) : i \in Numbers(inbox') /\ inbox'[i] = inbox[i]
    BY <1>6, <2>1, SendsInbox, DealFacts
  <2> QED
    BY <1>2, <1>4, <2>2
<1>7. ~StreamUp /\ ~StreamDrops /\ ~Closes /\ ~Restart
  BY <1>1 DEF StreamUp, StreamDrops, Closes, Restart
<1>8. CASE OffStream \/ BackfillEnds \/ UNCHANGED vars
  BY <1>3, <1>8, OffStreamFacts DEF BackfillEnds, stream, vars
<1> QED
  BY <1>5, <1>6, <1>7, <1>8, StreamCases

\* A position of a snapshot that is being written gets known, or its write throws.
LEMMA SnapshotGoes ==
    ASSUME IInv, [Next]_vars, NEW p \in Position, Snapshot(p), Reduced(p)',
           phase' = "stream", p \notin openPositionIds'
    PROVE  Snapshot(p)'
<1>1. PICK c \in Call : Mine(c) /\ call[c].pc = "writing" /\ p \in call[c].pos
  BY DEF Snapshot
<1>2. UNCHANGED cur
  <2>1. ~Opens
    BY DEF Opens
  <2> QED
    BY <2>1, CurStep
<1>0. call \in [Call -> Calls]
  BY CallFacts
<1>3. ASSUME call'[c] = call[c] PROVE Snapshot(p)'
  BY <1>1, <1>2, <1>3 DEF Snapshot, Mine
<1>4. ASSUME NEW d \in Call, NEW v, call' = [call EXCEPT ![d] = v], d # c PROVE Snapshot(p)'
  <2>1. call'[c] = call[c]
    BY <1>0, <1>4
  <2> QED
    BY <1>3, <2>1
<1>5. CASE UNCHANGED call
  BY <1>3, <1>5
<1>6. ASSUME NEW d \in Call, NEW q \in Position, Replaces(d, q) PROVE Snapshot(p)'
  <2> DEFINE v == [call[d] EXCEPT !.pos = call[d].pos \ {q}]
  <2>1. call' = [call EXCEPT ![d] = v]
    BY <1>0, <1>6 DEF Replaces
  <2>2. d = c => q # p
    BY <1>1, <1>6 DEF Replaces
  <2>3. v.pc = call[d].pc /\ v.by = call[d].by /\ v.pos = call[d].pos \ {q}
    BY <1>0 DEF Calls
  <2> HIDE DEF v
  <2>4. CASE d = c
    <3>1. call'[c] = v
      BY <1>0, <2>1, <2>4
    <3> QED
      BY <1>1, <1>2, <2>2, <2>3, <2>4, <3>1 DEF Snapshot, Mine
  <2> QED
    BY <1>4, <2>1, <2>4
<1>7. ASSUME NEW q \in Position, WriteFails(q) PROVE Snapshot(p)'
  <2>1. PICK i \in Running(q) :
          /\ UNCHANGED call \/ call' = [call EXCEPT ![chain[q][i].by] = FreeCall]
          /\ unseen' = unseen \cup LeftOut(chain[q][i].by)
    BY <1>7 DEF WriteFails
  <2> DEFINE by == chain[q][i].by
  <2>2. CASE call' = [call EXCEPT ![by] = FreeCall] /\ by # c
    <3>1. call'[c] = call[c]
      BY <1>0, <2>2
    <3> QED
      BY <1>3, <3>1
  <2>3. CASE by = c
    <3>1. Len(deals[p]) > 1
      <4>1. UNCHANGED deals
        BY <1>7 DEF WriteFails, broker
      <4> QED
        BY <4>1 DEF Reduced
    <3>2. p \in LeftOut(by)
      BY <1>1, <2>3, <3>1 DEF LeftOut, Mine
    <3> QED
      BY <2>1, <3>2 DEF Reduced
  <2> QED
    BY <1>5, <2>1, <2>2, <2>3
<1>8. ASSUME NEW d \in Call, Callbacks(d) PROVE Snapshot(p)'
  <2>1. call[d].pc = "free"
    BY <1>8, CallbackFacts DEF Ready, SpareCall
  <2>2. d # c
    BY <1>1, <2>1
  <2>3. UNCHANGED call \/ \E v : call' = [call EXCEPT ![d] = v]
    BY <1>8 DEF Callbacks, OnDealsSynchronized, OnPositionsReplaced, OnPositionUpdated,
           OnPositionRemoved, OnDealAdded, Finalizes, Called
  <2> QED
    BY <1>4, <1>5, <2>2, <2>3
<1>9. ASSUME NEW d \in Call,
             \/ \E q \in Position : FetchReads(d, q) \/ FetchAnswers(d, q)
             \/ Prices(d) \/ FetchFails(d) \/ CallEnds(d)
      PROVE  Snapshot(p)'
  <2>1. call[d].pc # "writing" \/ call[d].pos = {}
    BY <1>9 DEF FetchReads, FetchAnswers, Prices, FetchFails, CallEnds
  <2>2. d # c
    BY <1>1, <2>1
  <2>3. \E v : call' = [call EXCEPT ![d] = v]
    BY <1>9 DEF FetchReads, FetchAnswers, Prices, FetchFails, CallEnds
  <2> QED
    BY <1>4, <2>2, <2>3
<1>10. CASE \E q \in Position : WriteLands(q) \/ BackfillWrites(q) \/ Broker(q)
  BY <1>5, <1>10, DealFacts DEF WriteLands, BackfillWrites
<1>11. CASE OpenSteps \/ StreamUp \/ HistoryEnds \/ StreamDrops \/ SiblingExits \/ DayPasses
  BY <1>5, <1>11 DEF OpenSteps, Opens, ReadsWatermark, DealsAnswer, PositionsAnswer,
     BackfillFails, BackfillAggregates, BackfillEnds, Closes, BackfillMoves, StreamUp,
     HistoryEnds, StreamDrops, SiblingExits, DayPasses
<1>12. CASE Restart \/ UNCHANGED vars
  BY <1>5, <1>12 DEF Restart, vars
<1> QED
  BY <1>6, <1>7, <1>8, <1>9, <1>10, <1>11, <1>12 DEF Next, System, Chains, Backfills,
     Stream, Callback, Callbacks, Continues, OpenSteps

LEMMA StreamBegins ==
    ASSUME IInv, [Next]_vars, phase' = "stream"
    PROVE  BackfillEnds \/ phase = "stream"
<1>1. CASE OpenSteps
  BY <1>1 DEF OpenSteps, Opens, ReadsWatermark, DealsAnswer, PositionsAnswer, BackfillFails,
     BackfillAggregates, Closes, Asked
<1>2. CASE Restart \/ UNCHANGED vars
  BY <1>2 DEF Restart, vars
<1>3. CASE \E q \in Position : WriteLands(q) \/ WriteFails(q)
  BY <1>3, Taken DEF Takes
<1>4. CASE \E q \in Position : BackfillWrites(q) \/ Broker(q)
  BY <1>4, DealFacts DEF BackfillWrites
<1> QED
  BY <1>1, <1>2, <1>3, <1>4, NextCases, CallPuts, AsideFacts

\* What the listener has for open, it keeps until a snapshot comes or it is over.
LEMMA KnownStays ==
    ASSUME IInv, [Next]_vars, NEW p \in openPositionIds, p \notin over, phase = "stream",
           phase' = "stream", \A c \in Call : ~OnPositionsReplaced(c)
    PROVE  p \in openPositionIds'
<1>1. CASE Elsewhere
  BY <1>1, ElsewhereFacts DEF listener
<1>2. ~Opens /\ ~BackfillEnds
  BY DEF Opens, BackfillEnds
<1>3. ASSUME NEW c \in Call, Callbacks(c) PROVE p \in openPositionIds'
  <2>1. CASE OnPositionRemoved(c)
    <3>1. Head(inbox) = inbox[1] /\ 1 \in Numbers(inbox)
      BY <1>3, CallbackFacts, EventInbox
    <3>2. Head(inbox).about \subseteq over
      BY <2>1, <3>1, StreamNow DEF OnPositionRemoved, InboxSound
    <3> QED
      BY <2>1, <3>2 DEF OnPositionRemoved, Dropped
  <2> QED
    BY <1>3, <2>1 DEF Callbacks, OnDealsSynchronized, OnPositionUpdated, OnDealAdded
<1>4. CASE \E c \in Call : \E q \in Position : Replaces(c, q)
  BY <1>4 DEF Replaces
<1> QED
  BY <1>1, <1>2, <1>3, <1>4, ListenerCases

LEMMA ReducedKnownStep ==
    ASSUME IInv, [Next]_vars, Waits
    PROVE  ReducedKnown'
<1> SUFFICES ASSUME phase' = "stream", NEW p \in Position, Reduced(p)',
                    p \notin openPositionIds'
             PROVE  /\ \A c \in Call : Mine(c)' => ~Reading(c)'
                    /\ ~link' \/ SnapshotNext' \/ Snapshot(p)'
  BY DEF ReducedKnown
<1>1. /\ LinkSound /\ CallsSound /\ InboxSound /\ ToldSound /\ ReducedKnown
      /\ p \in OpenNow /\ p \notin over
  BY StreamNow, ReducedStep DEF IInv, OpenNow
<1>2. CASE BackfillEnds
  <2>1. phase = "writes" /\ UNCHANGED <<call, cur, link>>
    BY <1>2 DEF BackfillEnds
  <2>2. ~link /\ \A c \in Call : ~Busy(c)
    BY <1>1, <2>1 DEF LinkSound, CallsSound, Backfilling
  <2>3. ~link'
    BY <2>1, <2>2
  <2>4. ASSUME NEW c \in Call, Mine(c)' PROVE ~Reading(c)'
    BY <2>1, <2>2, <2>4 DEF Busy, Mine, Reading
  <2> QED
    BY <2>3, <2>4
<1>3. CASE ~BackfillEnds
  <2>1. phase = "stream"
    BY <1>3, StreamBegins
  <2>2. ASSUME NEW c \in Call, Reading(c)', Mine(c)'
        PROVE  Begins(c) \/ (Mine(c) /\ Reading(c))
    <3>1. Busy(c)'
      BY <2>2 DEF Busy, Reading
    <3>2. call'[c] # FreeCall /\ call'[c].pc # "writing"
      BY <2>2, CallFacts DEF Reading
    <3>3. Reads(c) => Reading(c)
      BY ReadsGoOn DEF Reading
    <3> QED
      BY <2>2, <3>1, <3>2, <3>3, BusyStep, CallChange DEF Busy, Mine, GoesOn, Reading
  <2>3. ASSUME NEW c \in Call, OnPositionsReplaced(c)
        PROVE  /\ \A d \in Call : Mine(d)' => ~Reading(d)'
               /\ Snapshot(p)'
    <3>1. Callbacks(c)
      BY <2>3 DEF Callbacks
    <3>2. /\ Head(inbox) = inbox[1] /\ inbox # <<>> /\ inbox[1].kind = "replaced"
          /\ UNCHANGED <<deals, over, cur>>
      BY <2>3, <3>1, CallbackFacts, EventInbox DEF OnPositionsReplaced, broker
    <3>3. Reduced(p)
      BY <3>2, ReducedStep
    <3>4. p \in Head(inbox).about
      BY <1>1, <3>2, <3>3 DEF SnapshotNext, ToldSound
    <3>5. call'[c].pc = "writing" /\ call'[c].by = cur /\ call'[c].pos = Head(inbox).about
      BY <2>3, CallFacts DEF OnPositionsReplaced, Called
    <3>6. Snapshot(p)'
      BY <3>2, <3>4, <3>5 DEF Snapshot, Mine
    <3>7. ASSUME NEW d \in Call, Mine(d)', Reading(d)' PROVE FALSE
      <4>1. ~Busy(d) /\ (Callbacks(d) => d = c)
        BY <3>1, WaitsFacts
      <4>2. d = c
        BY <2>2, <3>7, <4>1 DEF Begins, Busy, Reading
      <4> QED
        BY <3>5, <3>7, <4>2 DEF Reading
    <3> QED
      BY <3>6, <3>7
  <2>4. CASE \A c \in Call : ~OnPositionsReplaced(c)
    <3>1. p \notin openPositionIds
      BY <1>1, <2>1, <2>4, KnownStays
    <3>2. Reduced(p)
      BY <2>1, <3>1, ReducedStep DEF KnownOpen
    <3>3. /\ \A c \in Call : Mine(c) => ~Reading(c)
          /\ ~link \/ SnapshotNext \/ Snapshot(p)
      BY <1>1, <2>1, <3>1, <3>2 DEF ReducedKnown
    <3>4. ASSUME NEW c \in Call, Callbacks(c) PROVE FALSE
      <4>1. link /\ ~Snapshot(p)
        BY <3>4, WaitsFacts DEF Snapshot, Busy
      <4>2. inbox[1].kind = "replaced"
        BY <3>3, <4>1 DEF SnapshotNext
      <4>3. Head(inbox) = inbox[1]
        BY <3>4, CallbackFacts, EventInbox
      <4> QED
        BY <2>4, <3>4, <4>2, <4>3 DEF Callbacks, OnDealsSynchronized, OnPositionUpdated,
           OnPositionRemoved, OnDealAdded
    <3>5. ASSUME NEW c \in Call, Mine(c)', Reading(c)' PROVE FALSE
      BY <2>2, <3>3, <3>4, <3>5 DEF Begins
    <3>6. ASSUME link' PROVE SnapshotNext' \/ Snapshot(p)'
      <4>1. CASE StreamUp
        BY <4>1, StreamUpInbox, EventType DEF SnapshotNext, OpenNow
      <4>2. CASE SnapshotNext
        BY <3>4, <3>6, <4>2, SnapshotWaits
      <4>3. CASE Snapshot(p)
        BY <4>3, SnapshotGoes
      <4>4. CASE ~StreamUp /\ ~link
        <5>1. UNCHANGED link
          BY <3>4, <3>6, <4>4, OffStreamFacts, StreamCases, DealFacts DEF stream, BackfillEnds,
             Closes, Restart, HistoryEnds, StreamDrops, vars
        <5> QED
          BY <3>6, <4>4, <5>1
      <4> QED
        BY <3>3, <4>1, <4>2, <4>3, <4>4
    <3> QED
      BY <3>5, <3>6
  <2> QED
    BY <2>3, <2>4
<1> QED
  BY <1>2, <1>3

-----------------------------------------------------------------------------
(* The theorems.                                                           *)

LEMMA InitInv == Init => IInv
<1> SUFFICES ASSUME Init PROVE IInv
  OBVIOUS
<1>1. /\ Len(<<>>) = 0 /\ \A S : <<>> \in Seq(S)
      /\ Numbers(<<>>) = {}
  BY EmptySeq DEF Numbers
<1>2. /\ deals = [p \in Position |-> <<>>] /\ chain = [p \in Position |-> <<>>]
      /\ rows = [p \in Position |-> NoRow] /\ phase = "off" /\ bf = NotAsked
      /\ inbox = <<>> /\ link = FALSE /\ replaying = FALSE /\ cur = 0 /\ now = 1 /\ sibling = 0
      /\ over = {} /\ openPositionIds = {} /\ dealsSynchronized = FALSE
      /\ told = [p \in Position |-> 0] /\ call = [c \in Call |-> FreeCall]
      /\ faults = 0 /\ drops = 0 /\ behind = {} /\ older = {} /\ unseen = {}
  BY DEF Init
<1>3. /\ MaxDay \in Nat \ {0}
      /\ {Lookback, Buffer, Clamp, MaxDeals, MaxBacklog, MaxOpens, MaxTroubles} \subseteq Nat
  BY DealsAssumption
<1>4. \A p \in Position : deals[p] = <<>> /\ chain[p] = <<>> /\ rows[p] = NoRow
  BY <1>2
<1>5. NoRow \in Rows /\ NoRow.state = "none" /\ NoRow.exit = 0
  BY <1>3 DEF NoRow, Rows
<1>6. \A c \in Call : ~Busy(c) /\ call[c].pos = {} /\ call[c].by = 0
  BY <1>2 DEF Busy, FreeCall
<1>7. BrokerOK
  BY <1>1, <1>2, <1>3 DEF BrokerOK
<1>8. RowsOK
  BY <1>1, <1>2, <1>5 DEF RowsOK
<1>9. BackfillOK
  BY <1>2, NotAskedType DEF BackfillOK
<1>10. StreamOK
  <2>1. told \in [Position -> 0 .. MaxDeals]
    BY <1>2, <1>3
  <2>2. inbox \in Seq(Events)
    BY <1>1, <1>2
  <2> QED
    BY <1>2, <2>1, <2>2 DEF StreamOK
<1>11. ListenerOK
  <2>1. 0 \in 0 .. MaxOpens
    BY <1>3
  <2>2. FreeCall \in Calls
    BY <1>3, <2>1 DEF FreeCall, Calls
  <2>3. call \in [Call -> Calls]
    BY <1>2, <2>2
  <2> QED
    BY <1>2, <2>1, <2>3 DEF ListenerOK
<1>12. BoundsOK
  BY <1>2, <1>3 DEF BoundsOK
<1>13. Waiting
  BY <1>1, <1>4 DEF Waiting
<1>14. (RowsOK /\ Waiting => Awake)
  BY PendingParts
<1>15. TypeOK
  BY <1>7, <1>8, <1>9, <1>10, <1>11, <1>12, <1>13, <1>14 DEF TypeOK, Awake
<1>16. ASSUME NEW p \in Position PROVE Totals(phase, bf, p, deals[p], rows[p], chain[p])
  <2>1. DaysSound(<<>>) /\ RowSound(<<>>, NoRow) /\ ChainSound(<<>>, NoRow, <<>>)
    BY <1>1, <1>5 DEF DaysSound, RowSound, ChainSound, InOrder
  <2>2. UptoSound("off", 0, <<>>, NoRow, <<>>)
    BY <1>1 DEF UptoSound, Backfilling
  <2>3. HistSound(0, {})
    BY DEF HistSound
  <2> QED
    BY <1>2, <1>4, <2>1, <2>2, <2>3, NotAskedType DEF Totals
<1>17. BfSound
  BY <1>1, <1>2, <1>4, NotAskedType DEF BfSound
<1>18. StreamSound
  BY <1>1, <1>2, <1>6 DEF StreamSound, Snapshot, SnapshotNext
<1>19. OneBusy /\ ReducedKnown /\ ClosedKnown
  BY <1>1, <1>2, <1>4, <1>5, <1>6 DEF OneBusy, ReducedKnown, ClosedKnown
<1>20. Answers
  BY <1>6 DEF Answers
<1> QED
  BY <1>13, <1>15, <1>16, <1>17, <1>18, <1>19, <1>20 DEF IInv

LEMMA StepInv == IInv /\ [Next]_vars => IInv'
<1> SUFFICES ASSUME IInv, [Next]_vars PROVE IInv'
  OBVIOUS
<1>1. TypeOK' /\ AllTotals' /\ Waiting' /\ StreamSound'
  BY TypeStep, TotalsStep, WaitingStep, StreamSoundStep
<1>2. BfSound'
  BY BfParts, BfPhaseStep, BrokerGrows, IdsStep
<1>3. Waits => OneBusy' /\ ReducedKnown' /\ ClosedKnown'
  BY OneBusyStep, ReducedKnownStep, ClosedStep
<1> QED
  BY <1>1, <1>2, <1>3, AnswersStep DEF IInv, AllTotals

\* Together: what rows, queues, backfill and listener hold stays true of the broker.
THEOREM Invariance == Spec => []IInv
BY InitInv, StepInv, PTL DEF Spec

\* Every variable keeps its type; whoever has a write in a chain is at work.
THEOREM TypeCorrect == Spec => []TypeOK
<1>1. IInv => TypeOK
  BY DEF IInv
<1> QED
  BY <1>1, Invariance, PTL

\* A closed row counts every deal of its position up to its exit that the EA has not booked.
ClosedCounts ==
    \A p \in Position : rows[p].state = "closed" =>
        rows[p].money = {i \in 1 .. rows[p].exit : deals[p][i] > Clamp}

\* The totals that backfill and finalize aggregate and write miss no deal and count none that
\* the EA has booked, whether the SDK waits for the callbacks or not.
THEOREM CountsAll == Spec => []ClosedCounts
<1>1. IInv => ClosedCounts
  BY PositionFacts DEF ClosedCounts, RowSound, Final, Booked
<1> QED
  BY <1>1, Invariance, PTL

\* If the SDK waits for a callback before it makes the next, a closed row is true: its
\* position is over, or was closed in part while the listener did not have it for open.
THEOREM ClosedRowsTrue == ASSUME Waits PROVE Spec => []ClosedIsTrue
<1>1. IInv => ClosedIsTrue
  BY PositionFacts DEF IInv, ClosedIsTrue, ClosedKnown, RowSound, Final, Booked
<1> QED
  BY <1>1, Invariance, PTL

\* A write never takes back what a closed row counts.
LEMMA RowGrows ==
    ASSUME Waits, IInv, [Next]_vars, NEW p \in Position, rows[p].state = "closed"
    PROVE  /\ rows'[p].state = "closed" /\ ~rows'[p].floating
           /\ rows[p].money \subseteq rows'[p].money
<1>1. RowSound(deals[p], rows[p]) /\ rows \in [Position -> Rows]
  BY PositionFacts DEF IInv, TypeOK, RowsOK
<1>2. CASE rows'[p] = rows[p]
  BY <1>1, <1>2 DEF RowSound
<1>3. ASSUME NEW q \in Position, Takes(q), rows'[p] # rows[p]
      PROVE  /\ rows'[p].state = "closed" /\ ~rows'[p].floating
             /\ rows[p].money \subseteq rows'[p].money
  <2> DEFINE w == chain[p][1]
  <2>1. p = q /\ rows'[p] = Applied(rows[p], w) /\ chain[p] # <<>>
    BY <1>1, <1>3 DEF Takes
  <2>2. 1 \in Numbers(chain[p]) /\ w \in Writes /\ ChainSound(deals[p], rows[p], chain[p])
    BY <2>1, FirstRemoved, PositionFacts DEF Chain
  <2>3. w.op = "closed"
    BY <1>1, <1>3, <2>1, <2>2, WriteTypes DEF Applied, OpenedRow, RowSound, Rows
  <2>4. Final(deals[p], w) /\ Final(deals[p], rows[p]) /\ rows[p].exit <= w.exit
    BY <1>1, <2>2, <2>3 DEF ChainSound, InOrder, RowSound
  <2>5. rows[p].money \subseteq w.money
    <3>1. Len(deals[p]) \in Nat
      BY PositionFacts
    <3>2. rows[p].exit \in Nat /\ w.exit \in Nat
      BY <2>4, <3>1 DEF Final
    <3>3. 1 .. rows[p].exit \subseteq 1 .. w.exit
      BY <2>4, <3>2
    <3> QED
      BY <2>4, <3>3 DEF Final, Booked
  <2> QED
    BY <2>1, <2>3, <2>5 DEF Applied
<1>4. UNCHANGED rows \/ \E q \in Position : Takes(q)
  <2>1. OpenSteps \/ Restart \/ UNCHANGED vars => UNCHANGED rows
    BY DEF OpenSteps, Opens, ReadsWatermark, DealsAnswer, PositionsAnswer, BackfillFails,
       BackfillAggregates, BackfillEnds, Closes, BackfillMoves, Restart, vars
  <2>2. \A q \in Position : BackfillWrites(q) \/ Broker(q) => UNCHANGED rows
    BY DealFacts DEF BackfillWrites
  <2> QED
    BY <2>1, <2>2, NextCases, Taken, CallPuts, AsideFacts
<1> QED
  BY <1>2, <1>3, <1>4

\* If the SDK waits for a callback before it makes the next, a row never goes back, whatever
\* reads, backfills and connects overlap.  (Without it an older answer may be handled after a
\* newer one.)
THEOREM NeverGoesBack == ASSUME Waits PROVE Spec => TotalsGrow
<1>1. IInv /\ [Next]_vars =>
        [\A p \in Position : rows[p].state = "closed" =>
            /\ rows'[p].state = "closed"
            /\ ~rows'[p].floating
            /\ rows[p].money \subseteq rows'[p].money]_vars
  BY RowGrows
<1> QED
  BY <1>1, Invariance, PTL DEF Spec, TotalsGrow

=============================================================================
