------------------------- MODULE CtraderTrades_proofs -------------------------
(***************************************************************************)
(* Proofs about CtraderTrades, for every set of positions and every        *)
(* bound: live events and backfills count no deal twice, no open position  *)
(* gets a closed row, and a clean backfill closes what its window ends.    *)
(***************************************************************************)
EXTENDS CtraderTrades, FiniteSetTheorems, SequenceTheorems, WellFoundedInduction, TLAPS

-----------------------------------------------------------------------------
(* The inductive invariant.  Its parts are about the values of one         *)
(* position: its deals d, events w, row r and writes c, and the backfill b.*)

Deal == [out : BOOLEAN, vol : 1..MaxVolume, left : Nat, at : 0..MaxNow]
RowState == [st : {"none", "open", "closed"}, exit : 0..MaxNow, counted : [Deals -> Nat]]
BfState == [pc : {"idle", "watermark", "reconcile", "list", "write", "written"},
            from : 0..MaxNow, to : [Position -> 0..MaxDeals], openOk : BOOLEAN,
            open : SUBSET Position, plan : [Position -> Decision], stale : BOOLEAN,
            clean : BOOLEAN]

Numbers(s) == 1 .. Len(s)
OutsOf(d) == {k \in Numbers(d) : d[k].out}
OverAt(d, k) == ~(d[k].left > 0)
Over(d) == d # <<>> /\ OverAt(d, Len(d))

\* The broker's arithmetic.  inc: the position may get more than one opening deal.
DealsSound(inc, d) ==
    \A k \in Numbers(d) :
        IF k = 1 THEN ~d[k].out /\ d[k].left = d[k].vol
        ELSE /\ d[k - 1].left > 0
             /\ ~inc => d[k].out
             /\ d[k].left = IF d[k].out THEN d[k - 1].left - d[k].vol
                            ELSE d[k - 1].left + d[k].vol

\* Totals that may be set: closing deals, whose events are no longer under way.
TotalsSound(inc, d, w, ks) ==
    /\ ks \subseteq OutsOf(d) /\ ks # {} /\ ks \cap w = {}
    /\ ~inc => Over(d)

\* A deal counts once at most, and only if it is a closing one.
RowSound(inc, d, r) ==
    /\ \A k \in Deals : r.counted[k] # 0 => r.counted[k] = 1 /\ k \in OutsOf(d)
    /\ r.st = "closed" => /\ \E k \in OutsOf(d) : r.counted[k] = 1
                          /\ ~inc => Over(d)

\* A deal on its way to the row is not counted in it, and comes after no totals that
\* have it.
QueueSound(inc, d, w, r, c) ==
    /\ w \subseteq Numbers(d)
    /\ \A k \in w : r.counted[k] = 0
    /\ \A i \in Numbers(c) : c[i].kind = "deal" =>
        c[i].k \in Numbers(d) /\ c[i].k \notin w /\ r.counted[c[i].k] = 0
    /\ \A i, j \in Numbers(c) : i < j /\ c[j].kind = "deal" =>
        /\ c[i].kind = "deal" => c[i].k # c[j].k
        /\ c[i].kind = "set" => c[j].k \notin c[i].ks
    /\ \A i \in Numbers(c) : c[i].kind = "set" => TotalsSound(inc, d, w, c[i].ks)

PlanSound(inc, d, w, pl) == pl.kind = "set" => TotalsSound(inc, d, w, pl.ks)

\* What the backfill knows of a position.
Knows(b, p, d) ==
    /\ b.to[p] <= Len(d)
    /\ b.openOk => /\ b.to[p] > 0 /\ p \notin b.open => Over(d)
                   /\ b.to[p] > 0 /\ OverAt(d, b.to[p]) => p \notin b.open

\* A clean backfill is to close the row of a position that ends in its window.
Owes(b, p, d) ==
    /\ b.pc \in {"write", "written"} /\ b.clean
    /\ b.to[p] > 0 /\ OverAt(d, b.to[p]) /\ d[b.to[p]].at >= b.from

\* It is about to, or has done so for good.
Pays(pl, w, r, c) ==
    /\ w = {}
    /\ \/ pl.kind = "set"
       \/ \E i \in Numbers(c) :
            /\ c[i].kind = "set"
            /\ \A j \in Numbers(c) : i < j => c[j].kind # "deal"
       \/ r.st = "closed" /\ \A i \in Numbers(c) : c[i].kind # "deal"

Sound(b, p, d, w, r, c) ==
    /\ DealsSound(p \in Increased, d)
    /\ RowSound(p \in Increased, d, r)
    /\ QueueSound(p \in Increased, d, w, r, c)
    /\ PlanSound(p \in Increased, d, w, b.plan[p])
    /\ Knows(b, p, d)
    /\ Owes(b, p, d) => Pays(b.plan[p], w, r, c)

\* The backfill has at most one write in the chains, and waits for it.
OneWrite ==
    /\ \A p \in Position : \A i \in Numbers(chain[p]) :
        chain[p][i].kind # "deal" => bf.pc = "written"
    /\ \A p, q \in Position : \A i \in Numbers(chain[p]), j \in Numbers(chain[q]) :
        chain[p][i].kind # "deal" /\ chain[q][j].kind # "deal" => p = q /\ i = j

\* The open positions are known after the first request, if it did not fail.
Asked(b) == b.pc \in {"list", "write", "written"}
PhaseSound(b) == (Asked(b) /\ b.clean => b.openOk) /\ (b.openOk => Asked(b))

IInv ==
    /\ TypeOK /\ late <= drops
    /\ \A p \in Position : Sound(bf, p, deals[p], wire[p], row[p], chain[p])
    /\ OneWrite
    /\ PhaseSound(bf)

-----------------------------------------------------------------------------
(* The largest and the least of finitely many numbers.                     *)

HasMax(S) == \E x \in S : \A y \in S : y <= x

LEMMA FiniteHasMax ==
    ASSUME NEW S \in SUBSET Nat, IsFiniteSet(S), S # {}
    PROVE  HasMax(S)
<1> DEFINE R == StrictSubsetOrdering(S)
           Bad == {T \in SUBSET S : T # {} /\ ~HasMax(T)}
<1>1. FiniteSubsetsOf(S) = SUBSET S
  BY FS_FiniteSubsetsOfFinite
<1>2. IsWellFoundedOn(R, SUBSET S)
  BY <1>1, FS_StrictSubsetOrderingWellFounded
<1>3. SUFFICES ASSUME Bad # {} PROVE FALSE
  BY <1>3
<1>4. PICK T \in Bad : \A U \in Bad : <<U, T>> \notin R
  <2>1. Bad \subseteq SUBSET S
    OBVIOUS
  <2> HIDE DEF Bad, R
  <2> QED
    BY <1>2, <1>3, <2>1, WFMin
<1>5. PICK x \in T : TRUE
  OBVIOUS
<1>6. T \ {x} \notin Bad
  <2>1. <<T \ {x}, T>> \in (SUBSET S) \X (SUBSET S)
    OBVIOUS
  <2>2. <<T \ {x}, T>> \in R
    BY <1>5, <2>1 DEF StrictSubsetOrdering
  <2> QED
    BY <1>4, <2>2
<1>7. CASE T = {x}
  BY <1>4, <1>7 DEF HasMax
<1>8. CASE T # {x}
  <2>1. HasMax(T \ {x})
    BY <1>5, <1>6, <1>8
  <2>2. PICK m \in T \ {x} : \A y \in T \ {x} : y <= m
    BY <2>1 DEF HasMax
  <2>3. m \in Nat /\ x \in Nat
    BY <1>5
  <2>4. CASE x <= m
    BY <1>4, <2>2, <2>4 DEF HasMax
  <2>5. CASE m <= x
    <3>1. \A y \in T : y \in Nat /\ (y = x \/ y <= m)
      BY <2>2
    <3>2. \A y \in T : y <= x
      BY <2>3, <2>5, <3>1
    <3> QED
      BY <1>4, <1>5, <3>2 DEF HasMax
  <2> QED
    BY <2>3, <2>4, <2>5
<1> QED
  BY <1>7, <1>8

LEMMA HasLeast ==
    ASSUME NEW S \in SUBSET Nat, S # {}
    PROVE  \E x \in S : \A y \in S : x <= y
<1>1. PICK m \in S : TRUE
  OBVIOUS
<1> DEFINE T == {x \in 0 .. m : \A y \in S : x <= y}
<1>2. T \in SUBSET Nat /\ IsFiniteSet(T) /\ 0 \in T
  <2>1. T \subseteq 0 .. m /\ IsFiniteSet(0 .. m)
    BY <1>1, FS_Interval
  <2> QED
    BY <1>1, <2>1, FS_Subset
<1>3. PICK x \in T : \A y \in T : y <= x
  BY <1>2, FiniteHasMax DEF HasMax
<1>4. x \in S
  <2>1. SUFFICES ASSUME x \notin S PROVE x + 1 \in T
    BY <1>1, <1>2, <1>3, <2>1
  <2>2. \A y \in S : y \in Nat /\ x <= y /\ x # y
    BY <1>3, <2>1
  <2> QED
    BY <1>1, <1>3, <2>2
<1> QED
  BY <1>3, <1>4

LEMMA MaxIn ==
    ASSUME NEW S \in SUBSET Nat, IsFiniteSet(S), S # {}
    PROVE  Max(S) \in S
<1>1. \E x \in S : \A y \in S : x >= y
  BY FiniteHasMax DEF HasMax
<1> QED
  BY <1>1 DEF Max

LEMMA MaxOfTimes ==
    ASSUME NEW S \in SUBSET (0..MaxNow), S # {}
    PROVE  Max(S) \in 0..MaxNow
<1>1. IsFiniteSet(0..MaxNow)
  BY TradesAssumptions, FS_Interval
<1>2. IsFiniteSet(S)
  BY <1>1, FS_Subset
<1>3. S \in SUBSET Nat
  BY TradesAssumptions
<1> QED
  BY <1>2, <1>3, MaxIn

LEMMA MinIn ==
    ASSUME NEW S \in SUBSET Nat, S # {}
    PROVE  Min(S) \in S /\ \A y \in S : Min(S) <= y
<1>1. \E x \in S : \A y \in S : x <= y
  BY HasLeast
<1> QED
  BY <1>1 DEF Min

-----------------------------------------------------------------------------
(* One position at a time.                                                 *)

LEMMA AppendFacts ==
    ASSUME NEW S, NEW s \in Seq(S), NEW e \in S
    PROVE  /\ Len(s) \in Nat /\ Append(s, e) \in Seq(S)
           /\ Len(Append(s, e)) = Len(s) + 1 /\ Append(s, e)[Len(s) + 1] = e
           /\ Append(s, e) # <<>>
           /\ \A i \in Numbers(s) : Append(s, e)[i] = s[i]
           /\ \A i \in Numbers(Append(s, e)) : i = Len(s) + 1 \/ i \in Numbers(s)
           /\ \A i \in Numbers(s) : i \in Numbers(Append(s, e)) /\ i <= Len(s)
BY AppendProperties DEF Numbers

LEMMA TailFacts ==
    ASSUME NEW S, NEW s \in Seq(S), s # <<>>
    PROVE  /\ Len(s) \in Nat /\ Tail(s) \in Seq(S) /\ Head(s) = s[1] /\ Head(s) \in S
           /\ 1 \in Numbers(s)
           /\ \A i \in Numbers(Tail(s)) :
                i \in Nat /\ i > 0 /\ i + 1 \in Numbers(s) /\ Tail(s)[i] = s[i + 1]
           /\ \A i \in Numbers(s) : i # 1 => i > 1 /\ i - 1 \in Numbers(Tail(s)) /\ (i - 1) + 1 = i
<1>1. /\ Head(s) \in S /\ Tail(s) \in Seq(S) /\ Len(Tail(s)) = Len(s) - 1
      /\ \A i \in 1 .. Len(Tail(s)) : Tail(s)[i] = s[i + 1]
  BY HeadTailProperties
<1>2. Len(s) \in Nat /\ Len(s) > 0
  BY EmptySeq, LenProperties
<1>3. Head(s) = s[1]
  OBVIOUS
<1> QED
  BY <1>1, <1>2, <1>3 DEF Numbers

\* A position that is over gets no more deals, so it is the last one that ended it.
LEMMA OverIsLast ==
    ASSUME NEW inc, NEW d \in Seq(Deal), DealsSound(inc, d),
           NEW k \in Numbers(d), OverAt(d, k)
    PROVE  k = Len(d) /\ Over(d)
<1>1. k \in Nat /\ Len(d) \in Nat /\ k <= Len(d) /\ k > 0
  BY LenProperties DEF Numbers
<1>2. SUFFICES ASSUME k < Len(d) PROVE FALSE
  BY <1>1 DEF Over
<1>3. k + 1 \in Numbers(d) /\ k + 1 # 1 /\ (k + 1) - 1 = k
  BY <1>1, <1>2 DEF Numbers
<1>4. d[(k + 1) - 1].left > 0
  BY <1>3 DEF DealsSound
<1> QED
  BY <1>3, <1>4 DEF OverAt

\* The broker executes deal e, and an account that is connected is told of it.
Executes(inc, d, e) ==
    \/ d = <<>> /\ ~e.out /\ e.left = e.vol
    \/ /\ d # <<>> /\ d[Len(d)].left > 0
       /\ \/ ~e.out /\ inc /\ e.left = d[Len(d)].left + e.vol
          \/ e.out /\ e.left = d[Len(d)].left - e.vol

LEMMA NotOver ==
    ASSUME NEW inc, NEW d \in Seq(Deal), NEW e \in Deal, Executes(inc, d, e), DealsSound(inc, d)
    PROVE  ~Over(d) /\ \A k \in Numbers(d) : ~OverAt(d, k)
<1>1. ~Over(d)
  BY DEF Executes, Over, OverAt
<1> QED
  BY <1>1, OverIsLast

LEMMA DealsMore ==
    ASSUME NEW inc, NEW d \in Seq(Deal), NEW e \in Deal, Executes(inc, d, e), DealsSound(inc, d)
    PROVE  DealsSound(inc, Append(d, e))
<1> DEFINE f == Append(d, e)
<1>1. /\ Len(d) \in Nat /\ f[Len(d) + 1] = e
      /\ \A k \in Numbers(d) : f[k] = d[k] /\ k \in Nat /\ k <= Len(d)
      /\ \A k \in Numbers(f) : k = Len(d) + 1 \/ k \in Numbers(d)
  BY AppendFacts DEF Numbers
<1> HIDE DEF f
<1>2. ASSUME NEW k \in Numbers(f)
      PROVE  IF k = 1 THEN ~f[k].out /\ f[k].left = f[k].vol
             ELSE /\ f[k - 1].left > 0
                  /\ ~inc => f[k].out
                  /\ f[k].left = IF f[k].out THEN f[k - 1].left - f[k].vol
                                 ELSE f[k - 1].left + f[k].vol
  <2>1. CASE k \in Numbers(d)
    <3>1. k # 1 => k - 1 \in Numbers(d)
      BY <1>1, <2>1 DEF Numbers
    <3> QED
      BY <1>1, <2>1, <3>1 DEF DealsSound
  <2>2. CASE k = Len(d) + 1 /\ d = <<>>
    BY <1>1, <2>2 DEF Executes
  <2>3. CASE k = Len(d) + 1 /\ d # <<>>
    <3>1. Len(d) \in Numbers(d) /\ k # 1 /\ k - 1 = Len(d)
      BY <1>1, <2>3, EmptySeq DEF Numbers
    <3>2. f[k] = e /\ f[k - 1] = d[Len(d)]
      BY <1>1, <2>3, <3>1
    <3> QED
      BY <2>3, <3>1, <3>2 DEF Executes
  <2> QED
    BY <1>1, <2>1, <2>2, <2>3
<1> QED
  BY <1>2 DEF DealsSound, f

LEMMA SoundMore ==
    ASSUME NEW b \in BfState, NEW p \in Position, NEW d \in Seq(Deal), NEW w \in SUBSET Deals,
           NEW r \in RowState, NEW c \in Seq(Write), Sound(b, p, d, w, r, c),
           NEW e \in Deal, Executes(p \in Increased, d, e), Len(d) < MaxDeals,
           NEW v \in {w, w \cup {Len(d) + 1}}
    PROVE  Sound(b, p, Append(d, e), v, r, c)
<1> DEFINE f == Append(d, e)
           inc == p \in Increased
           n == Len(d) + 1
<1>1. DealsSound(inc, d) /\ RowSound(inc, d, r) /\ QueueSound(inc, d, w, r, c)
      /\ PlanSound(inc, d, w, b.plan[p]) /\ Knows(b, p, d)
  BY DEF Sound
<1>2. ~Over(d) /\ \A k \in Numbers(d) : ~OverAt(d, k)
  BY <1>1, NotOver
<1>3. /\ Len(d) \in Nat /\ Len(f) = n /\ n \notin Numbers(d) /\ n \in Numbers(f)
      /\ \A k \in Numbers(d) : f[k] = d[k] /\ k \in Numbers(f)
  BY AppendFacts DEF Numbers
<1>4. DealsSound(inc, f)
  BY <1>1, DealsMore
<1> HIDE DEF f, inc
<1>5. \A k \in OutsOf(d) : k \in OutsOf(f) /\ k # n
  BY <1>3 DEF OutsOf
<1>6. RowSound(inc, f, r)
  BY <1>1, <1>2, <1>5 DEF RowSound
<1>7. \A ks : TotalsSound(inc, d, w, ks) => TotalsSound(inc, f, v, ks)
  BY <1>2, <1>5 DEF TotalsSound
<1>8. n \in Deals /\ r.counted[n] = 0
  <2>1. n \in Deals
    BY <1>3, TradesAssumptions DEF Deals, n
  <2>2. n \notin OutsOf(d)
    BY <1>3 DEF OutsOf
  <2> QED
    BY <1>1, <2>1, <2>2 DEF RowSound
<1> HIDE DEF n
<1>9. QueueSound(inc, f, v, r, c)
  <2>1. v \subseteq Numbers(f) /\ \A k \in v : r.counted[k] = 0
    BY <1>1, <1>3, <1>8 DEF QueueSound, n
  <2>2. \A i \in Numbers(c) : c[i].kind = "deal" =>
          c[i].k \in Numbers(f) /\ c[i].k \notin v /\ r.counted[c[i].k] = 0
    BY <1>1, <1>3 DEF QueueSound, n
  <2> QED
    BY <1>1, <1>7, <2>1, <2>2 DEF QueueSound
<1>10. PlanSound(inc, f, v, b.plan[p])
  BY <1>1, <1>7 DEF PlanSound
<1>11. b.to[p] \in Nat /\ b.to[p] <= Len(d) /\ (b.to[p] > 0 => b.to[p] \in Numbers(d))
  <2>1. b.to[p] \in 0 .. MaxDeals
    BY DEF BfState
  <2> QED
    BY <1>1, <1>3, <2>1 DEF Knows, Numbers
<1>12. b.to[p] > 0 => ~OverAt(f, b.to[p])
  BY <1>2, <1>3, <1>11 DEF OverAt
<1>13. Knows(b, p, f)
  BY <1>1, <1>2, <1>3, <1>11, <1>12 DEF Knows, n
<1>14. ~Owes(b, p, f)
  BY <1>12 DEF Owes
<1> QED
  BY <1>4, <1>6, <1>9, <1>10, <1>13, <1>14 DEF Sound, f, inc

\* The event of deal k becomes a write.
LEMMA SoundHandled ==
    ASSUME NEW b \in BfState, NEW p \in Position, NEW d \in Seq(Deal), NEW w \in SUBSET Deals,
           NEW r \in RowState, NEW c \in Seq(Write), Sound(b, p, d, w, r, c), NEW k \in w
    PROVE  Sound(b, p, d, w \ {k}, r, Append(c, [kind |-> "deal", k |-> k]))
<1> DEFINE inc == p \in Increased
           e == [kind |-> "deal", k |-> k]
           a == Append(c, e)
           v == w \ {k}
<1>1. DealsSound(inc, d) /\ RowSound(inc, d, r) /\ QueueSound(inc, d, w, r, c)
      /\ PlanSound(inc, d, w, b.plan[p]) /\ Knows(b, p, d) /\ ~Owes(b, p, d)
  BY DEF Sound, Pays
<1>2. e \in Write /\ e.kind = "deal" /\ e.k = k
  BY DEF Write
<1>3. /\ Len(c) \in Nat
      /\ \A i \in Numbers(c) : a[i] = c[i] /\ i \in Numbers(a) /\ i <= Len(c) /\ i \in Nat
      /\ \A i \in Numbers(a) : (i = Len(c) + 1 /\ a[i] = e) \/ i \in Numbers(c)
  BY <1>2, AppendFacts DEF Numbers
<1> HIDE DEF e, a
<1>4. \A ks : TotalsSound(inc, d, w, ks) => TotalsSound(inc, d, v, ks) /\ k \notin ks
  BY DEF TotalsSound
<1>5. QueueSound(inc, d, v, r, a)
  <2>1. v \subseteq Numbers(d) /\ \A n \in v : r.counted[n] = 0
    BY <1>1 DEF QueueSound
  <2>2. \A i \in Numbers(a) : a[i].kind = "deal" =>
          a[i].k \in Numbers(d) /\ a[i].k \notin v /\ r.counted[a[i].k] = 0
    BY <1>1, <1>2, <1>3 DEF QueueSound
  <2>3. \A i \in Numbers(a) : a[i].kind = "set" => TotalsSound(inc, d, v, a[i].ks) /\ k \notin a[i].ks
    BY <1>1, <1>2, <1>3, <1>4 DEF QueueSound
  <2>4. ASSUME NEW i \in Numbers(a), NEW j \in Numbers(a), i < j, a[j].kind = "deal"
        PROVE  /\ a[i].kind = "deal" => a[i].k # a[j].k
               /\ a[i].kind = "set" => a[j].k \notin a[i].ks
    <3>1. i \in Numbers(c) /\ a[i] = c[i]
      BY <1>3, <2>4
    <3>2. CASE j \in Numbers(c)
      BY <1>1, <1>3, <2>4, <3>1, <3>2 DEF QueueSound
    <3>3. CASE a[j] = e
      BY <1>1, <1>2, <2>3, <3>1, <3>3 DEF QueueSound
    <3> QED
      BY <1>3, <3>2, <3>3
  <2> QED
    BY <2>1, <2>2, <2>3, <2>4 DEF QueueSound
<1>6. PlanSound(inc, d, v, b.plan[p])
  BY <1>1, <1>4 DEF PlanSound
<1> QED
  BY <1>1, <1>5, <1>6 DEF Sound, a, e

\* The row r2 that write e leaves.
Written(d, e, r, r2) ==
    IF e.kind = "set"
    THEN r2.st = "closed" /\ \A k \in Deals : r2.counted[k] = IF k \in e.ks THEN 1 ELSE 0
    ELSE IF e.kind = "deal" /\ d[e.k].out
    THEN /\ r2.st = "closed" => OverAt(d, e.k)
         /\ \A k \in Deals : r2.counted[k] = IF k = e.k THEN r.counted[k] + 1 ELSE r.counted[k]
    ELSE /\ r2.st = "closed" <=> r.st = "closed"
         /\ \A k \in Deals : r2.counted[k] = r.counted[k]

\* The rest of a queue is as sound as the queue.
LEMMA RestSound ==
    ASSUME NEW inc, NEW d, NEW w, NEW r, NEW c \in Seq(Write), c # <<>>,
           QueueSound(inc, d, w, r, c)
    PROVE  QueueSound(inc, d, w, r, Tail(c))
<1> DEFINE a == Tail(c)
<1>1. /\ 1 \in Numbers(c)
      /\ \A i \in Numbers(a) : i \in Nat /\ i > 0 /\ i + 1 \in Numbers(c) /\ a[i] = c[i + 1]
  BY TailFacts
<1> HIDE DEF a
<1>2. \A i, j \in Numbers(a) : i < j => i + 1 < j + 1
  BY <1>1
<1>3. ASSUME NEW i \in Numbers(a), NEW j \in Numbers(a), i < j, a[j].kind = "deal"
      PROVE  /\ a[i].kind = "deal" => a[i].k # a[j].k
             /\ a[i].kind = "set" => a[j].k \notin a[i].ks
  <2>1. i + 1 \in Numbers(c) /\ j + 1 \in Numbers(c) /\ i + 1 < j + 1
        /\ a[i] = c[i + 1] /\ a[j] = c[j + 1]
    BY <1>1, <1>2, <1>3
  <2> QED
    BY <1>3, <2>1 DEF QueueSound
<1>4. \A i \in Numbers(a) : a[i].kind = "deal" =>
        a[i].k \in Numbers(d) /\ a[i].k \notin w /\ r.counted[a[i].k] = 0
  BY <1>1 DEF QueueSound
<1>5. \A i \in Numbers(a) : a[i].kind = "set" => TotalsSound(inc, d, w, a[i].ks)
  BY <1>1 DEF QueueSound
<1>6. w \subseteq Numbers(d) /\ \A k \in w : r.counted[k] = 0
  BY DEF QueueSound
<1> QED
  BY <1>3, <1>4, <1>5, <1>6 DEF QueueSound, a

\* A backfill that knows and plans the same and owes no more.
NoMore(b, b2, p, d) ==
    /\ b2.to[p] = b.to[p] /\ b2.openOk = b.openOk /\ b2.open = b.open
    /\ b2.plan[p] = b.plan[p]
    /\ Owes(b2, p, d) => Owes(b, p, d)

LEMMA SoundNoMore ==
    ASSUME NEW b, NEW b2, NEW p, NEW d, NEW w, NEW r, NEW c, Sound(b, p, d, w, r, c),
           NoMore(b, b2, p, d)
    PROVE  Sound(b2, p, d, w, r, c)
BY DEF Sound, NoMore, Knows

\* The first write of the queue lands.
LEMMA SoundLands ==
    ASSUME NEW b \in BfState, NEW p \in Position, NEW d \in Seq(Deal), NEW w \in SUBSET Deals,
           NEW r \in RowState, NEW c \in Seq(Write), Sound(b, p, d, w, r, c), c # <<>>,
           NEW r2 \in RowState, Written(d, Head(c), r, r2), Len(d) <= MaxDeals
    PROVE  Sound(b, p, d, w, r2, Tail(c))
<1> DEFINE inc == p \in Increased
           e == Head(c)
           a == Tail(c)
<1>1. DealsSound(inc, d) /\ RowSound(inc, d, r) /\ QueueSound(inc, d, w, r, c)
      /\ PlanSound(inc, d, w, b.plan[p]) /\ Knows(b, p, d)
      /\ (Owes(b, p, d) => Pays(b.plan[p], w, r, c))
  BY DEF Sound
<1>2. /\ 1 \in Numbers(c) /\ e = c[1] /\ e \in Write
      /\ \A i \in Numbers(a) : /\ i \in Nat /\ i > 0 /\ i + 1 \in Numbers(c)
                               /\ a[i] = c[i + 1] /\ 1 < i + 1
      /\ \A i \in Numbers(c) : i # 1 => i > 1 /\ i - 1 \in Numbers(a) /\ (i - 1) + 1 = i
  <2>1. /\ 1 \in Numbers(c) /\ Head(c) = c[1] /\ Head(c) \in Write
        /\ \A i \in Numbers(a) : i \in Nat /\ i > 0 /\ i + 1 \in Numbers(c) /\ a[i] = c[i + 1]
        /\ \A i \in Numbers(c) : i # 1 => i > 1 /\ i - 1 \in Numbers(a) /\ (i - 1) + 1 = i
    BY TailFacts
  <2> HIDE DEF a
  <2>2. \A i \in Numbers(a) : 1 < i + 1
    BY <2>1
  <2> QED
    BY <2>1, <2>2
<1>3. QueueSound(inc, d, w, r, a)
  BY <1>1, RestSound
<1>4. \A k \in Deals : r.counted[k] \in Nat
  BY DEF RowState
<1> HIDE DEF e, a
<1>5. \A k \in Numbers(d) : k \in Deals
  BY LenProperties, TradesAssumptions DEF Numbers, Deals
<1>6. /\ e.kind = "set" => TotalsSound(inc, d, w, e.ks)
      /\ e.kind = "deal" => e.k \in Numbers(d) /\ e.k \notin w /\ r.counted[e.k] = 0
      /\ \A i \in Numbers(a) : a[i].kind = "deal" =>
           /\ e.kind = "deal" => e.k # a[i].k
           /\ e.kind = "set" => a[i].k \notin e.ks
  BY <1>1, <1>2 DEF QueueSound
<1>7. RowSound(inc, d, r2) /\ \A k \in Deals :
        r2.counted[k] # 0 => r.counted[k] # 0 \/ (e.kind = "deal" /\ k = e.k) \/ (e.kind = "set" /\ k \in e.ks)
  <2>1. CASE e.kind = "set"
    <3>1. e.ks \subseteq OutsOf(d) /\ e.ks # {} /\ (~inc => Over(d)) /\ OutsOf(d) \subseteq Deals
      BY <1>5, <1>6, <2>1 DEF TotalsSound, OutsOf
    <3>2. \A k \in Deals : r2.counted[k] = IF k \in e.ks THEN 1 ELSE 0
      BY <2>1 DEF Written, e
    <3> QED
      BY <2>1, <3>1, <3>2 DEF RowSound
  <2>2. CASE e.kind = "deal" /\ d[e.k].out
    <3>1. e.k \in OutsOf(d) /\ e.k \in Deals /\ r.counted[e.k] = 0
      BY <1>5, <1>6, <2>2 DEF OutsOf
    <3>2. /\ r2.st = "closed" => OverAt(d, e.k)
          /\ \A k \in Deals : r2.counted[k] = IF k = e.k THEN r.counted[k] + 1 ELSE r.counted[k]
      BY <2>2 DEF Written, e
    <3>3. r2.counted[e.k] = 1
      BY <3>1, <3>2
    <3>4. r2.st = "closed" => Over(d)
      BY <1>1, <1>6, <2>2, <3>2, OverIsLast
    <3> QED
      BY <1>1, <2>2, <3>1, <3>2, <3>3, <3>4 DEF RowSound
  <2>3. CASE e.kind # "set" /\ ~(e.kind = "deal" /\ d[e.k].out)
    <3>1. /\ r2.st = "closed" <=> r.st = "closed"
          /\ \A k \in Deals : r2.counted[k] = r.counted[k]
      BY <2>3 DEF Written, e
    <3>2. OutsOf(d) \subseteq Deals
      BY <1>5 DEF OutsOf
    <3> QED
      BY <1>1, <3>1, <3>2 DEF RowSound
  <2> QED
    BY <2>1, <2>2, <2>3
<1>8. QueueSound(inc, d, w, r2, a)
  <2>1. \A k \in w : r2.counted[k] = 0
    <3>1. \A k \in w : r.counted[k] = 0
      BY <1>1 DEF QueueSound
    <3> QED
      BY <1>6, <1>7, <3>1 DEF TotalsSound
  <2>2. \A i \in Numbers(a) : a[i].kind = "deal" => r2.counted[a[i].k] = 0
    <3>1. \A i \in Numbers(a) : a[i].kind = "deal" => a[i].k \in Deals /\ r.counted[a[i].k] = 0
      BY <1>3, <1>5 DEF QueueSound
    <3> QED
      BY <1>6, <1>7, <3>1
  <2> QED
    BY <1>3, <2>1, <2>2 DEF QueueSound
<1>9. ASSUME Owes(b, p, d) PROVE Pays(b.plan[p], w, r2, a)
  <2>1. Pays(b.plan[p], w, r, c)
    BY <1>1, <1>9
  <2>2. CASE b.plan[p].kind = "set"
    BY <2>1, <2>2 DEF Pays
  <2>3. ASSUME NEW i \in Numbers(c), c[i].kind = "set",
               \A j \in Numbers(c) : i < j => c[j].kind # "deal"
        PROVE  Pays(b.plan[p], w, r2, a)
    <3>1. CASE i = 1
      <4>1. r2.st = "closed"
        BY <1>2, <2>3, <3>1 DEF Written, e
      <4>2. \A j \in Numbers(a) : a[j].kind # "deal"
        BY <1>2, <2>3, <3>1
      <4> QED
        BY <2>1, <4>1, <4>2 DEF Pays
    <3>2. CASE i # 1
      <4>1. i - 1 \in Numbers(a) /\ a[i - 1].kind = "set"
        BY <1>2, <2>3, <3>2
      <4>2. \A j \in Numbers(a) : i - 1 < j => j + 1 \in Numbers(c) /\ i < j + 1 /\ a[j] = c[j + 1]
        BY <1>2, <2>3, <3>2
      <4>3. \A j \in Numbers(a) : i - 1 < j => a[j].kind # "deal"
        BY <2>3, <4>2
      <4> QED
        BY <2>1, <4>1, <4>3 DEF Pays
    <3> QED
      BY <3>1, <3>2
  <2>4. CASE r.st = "closed" /\ \A i \in Numbers(c) : c[i].kind # "deal"
    <3>1. \A i \in Numbers(a) : a[i].kind # "deal"
      BY <1>2, <2>4
    <3>2. r2.st = "closed"
      BY <1>2, <2>4 DEF Written, e
    <3> QED
      BY <2>1, <3>1, <3>2 DEF Pays
  <2> QED
    BY <2>1, <2>2, <2>3, <2>4 DEF Pays
<1> QED
  BY <1>1, <1>7, <1>8, <1>9 DEF Sound, a

\* The first write of the queue fails.
LEMMA SoundDropped ==
    ASSUME NEW b \in BfState, NEW p \in Position, NEW d \in Seq(Deal), NEW w \in SUBSET Deals,
           NEW r \in RowState, NEW c \in Seq(Write), Sound(b, p, d, w, r, c), c # <<>>,
           Head(c).kind = "set" => ~Owes(b, p, d)
    PROVE  Sound(b, p, d, w, r, Tail(c))
<1> DEFINE inc == p \in Increased
           a == Tail(c)
<1>1. DealsSound(inc, d) /\ RowSound(inc, d, r) /\ QueueSound(inc, d, w, r, c)
      /\ PlanSound(inc, d, w, b.plan[p]) /\ Knows(b, p, d)
      /\ (Owes(b, p, d) => Pays(b.plan[p], w, r, c))
  BY DEF Sound
<1>2. /\ 1 \in Numbers(c) /\ Head(c) = c[1]
      /\ \A i \in Numbers(a) : /\ i \in Nat /\ i > 0 /\ i + 1 \in Numbers(c)
                               /\ a[i] = c[i + 1] /\ 1 < i + 1
      /\ \A i \in Numbers(c) : i # 1 => i > 1 /\ i - 1 \in Numbers(a) /\ (i - 1) + 1 = i
  <2>1. /\ 1 \in Numbers(c) /\ Head(c) = c[1] /\ Head(c) \in Write
        /\ \A i \in Numbers(a) : i \in Nat /\ i > 0 /\ i + 1 \in Numbers(c) /\ a[i] = c[i + 1]
        /\ \A i \in Numbers(c) : i # 1 => i > 1 /\ i - 1 \in Numbers(a) /\ (i - 1) + 1 = i
    BY TailFacts
  <2> HIDE DEF a
  <2>2. \A i \in Numbers(a) : 1 < i + 1
    BY <2>1
  <2> QED
    BY <2>1, <2>2
<1>3. QueueSound(inc, d, w, r, a)
  BY <1>1, RestSound
<1> HIDE DEF a
<1>4. ASSUME Owes(b, p, d) PROVE Pays(b.plan[p], w, r, a)
  <2>1. Pays(b.plan[p], w, r, c) /\ c[1].kind # "set"
    BY <1>1, <1>2, <1>4
  <2>2. CASE b.plan[p].kind = "set"
    BY <2>1, <2>2 DEF Pays
  <2>3. ASSUME NEW i \in Numbers(c), c[i].kind = "set",
               \A j \in Numbers(c) : i < j => c[j].kind # "deal"
        PROVE  Pays(b.plan[p], w, r, a)
    <3>1. i # 1
      BY <2>1, <2>3
    <3>2. i - 1 \in Numbers(a) /\ a[i - 1].kind = "set"
      BY <1>2, <2>3, <3>1
    <3>3. \A j \in Numbers(a) : i - 1 < j => j + 1 \in Numbers(c) /\ i < j + 1 /\ a[j] = c[j + 1]
      BY <1>2, <2>3, <3>1
    <3>4. \A j \in Numbers(a) : i - 1 < j => a[j].kind # "deal"
      BY <2>3, <3>3
    <3> QED
      BY <2>1, <3>2, <3>4 DEF Pays
  <2>4. CASE r.st = "closed" /\ \A i \in Numbers(c) : c[i].kind # "deal"
    <3>1. \A i \in Numbers(a) : a[i].kind # "deal"
      BY <1>2, <2>4
    <3> QED
      BY <2>1, <2>4, <3>1 DEF Pays
  <2> QED
    BY <2>1, <2>2, <2>3, <2>4 DEF Pays
<1> QED
  BY <1>1, <1>3, <1>4 DEF Sound, a

\* The backfill b queues what it planned; b2 is the backfill that did.
LEMMA SoundQueued ==
    ASSUME NEW b \in BfState, NEW p \in Position, NEW d \in Seq(Deal), NEW w \in SUBSET Deals,
           NEW r \in RowState, NEW c \in Seq(Write), Sound(b, p, d, w, r, c),
           NEW e \in Write, e = b.plan[p], e.kind # "deal",
           NEW b2, b2.to = b.to, b2.openOk = b.openOk, b2.open = b.open,
           b2.plan[p] = Nothing, Owes(b2, p, d) => Owes(b, p, d)
    PROVE  Sound(b2, p, d, w, r, Append(c, e))
<1> DEFINE inc == p \in Increased
           a == Append(c, e)
<1>1. DealsSound(inc, d) /\ RowSound(inc, d, r) /\ QueueSound(inc, d, w, r, c)
      /\ PlanSound(inc, d, w, e) /\ Knows(b, p, d)
      /\ (Owes(b, p, d) => Pays(e, w, r, c))
  BY DEF Sound
<1>2. /\ Len(c) \in Nat
      /\ \A i \in Numbers(c) : a[i] = c[i] /\ i \in Numbers(a) /\ i <= Len(c) /\ i \in Nat
      /\ \A i \in Numbers(a) : (i = Len(c) + 1 /\ a[i] = e) \/ i \in Numbers(c)
      /\ Len(c) + 1 \in Numbers(a) /\ a[Len(c) + 1] = e
  BY AppendFacts DEF Numbers
<1> HIDE DEF a
<1>3. QueueSound(inc, d, w, r, a)
  <2>1. \A i \in Numbers(a) : a[i].kind = "set" => TotalsSound(inc, d, w, a[i].ks)
    BY <1>1, <1>2 DEF QueueSound, PlanSound
  <2>2. \A i \in Numbers(a) : a[i].kind = "deal" => i \in Numbers(c) /\ a[i] = c[i]
    BY <1>2
  <2>3. \A i, j \in Numbers(a) : i < j /\ a[j].kind = "deal" =>
          i \in Numbers(c) /\ j \in Numbers(c) /\ a[i] = c[i] /\ a[j] = c[j]
    BY <1>2, <2>2
  <2> QED
    BY <1>1, <2>1, <2>2, <2>3 DEF QueueSound
<1>4. ASSUME Owes(b2, p, d) PROVE Pays(b2.plan[p], w, r, a)
  <2>1. Pays(e, w, r, c)
    BY <1>1, <1>4
  <2>2. CASE e.kind = "set"
    <3>1. \A j \in Numbers(a) : ~(Len(c) + 1 < j)
      BY <1>2
    <3> QED
      BY <1>2, <2>1, <2>2, <3>1 DEF Pays
  <2>3. ASSUME NEW i \in Numbers(c), c[i].kind = "set",
               \A j \in Numbers(c) : i < j => c[j].kind # "deal"
        PROVE  Pays(b2.plan[p], w, r, a)
    <3>1. i \in Numbers(a) /\ a[i].kind = "set" /\ \A j \in Numbers(a) : i < j => a[j].kind # "deal"
      BY <1>2, <2>3
    <3> QED
      BY <2>1, <3>1 DEF Pays
  <2>4. CASE r.st = "closed" /\ \A i \in Numbers(c) : c[i].kind # "deal"
    BY <1>2, <2>1, <2>4 DEF Pays
  <2> QED
    BY <2>1, <2>2, <2>3, <2>4 DEF Pays
<1>5. PlanSound(inc, d, w, b2.plan[p])
  BY DEF PlanSound, Nothing
<1>6. Knows(b2, p, d)
  BY <1>1 DEF Knows
<1> QED
  BY <1>1, <1>3, <1>4, <1>5, <1>6 DEF Sound, a

\* Events are lost.
LEMMA SoundLost ==
    ASSUME NEW b, NEW p, NEW d, NEW w, NEW r, NEW c, Sound(b, p, d, w, r, c)
    PROVE  Sound(b, p, d, {}, r, c)
<1>1. \A inc, ks : TotalsSound(inc, d, w, ks) => TotalsSound(inc, d, {}, ks)
  BY DEF TotalsSound
<1>2. QueueSound(p \in Increased, d, {}, r, c)
  BY <1>1 DEF Sound, QueueSound
<1> QED
  BY <1>1, <1>2 DEF Sound, PlanSound, Pays

\* The process ends, or only the backfill.
LEMMA SoundIdle ==
    ASSUME NEW b, NEW p \in Position, NEW d \in Seq(Deal), NEW w, NEW r, NEW c,
           Sound(b, p, d, w, r, c)
    PROVE  Sound(IdleBf, p, d, w, r, c) /\ Sound(IdleBf, p, d, {}, r, <<>>)
<1>1. Knows(IdleBf, p, d) /\ ~Owes(IdleBf, p, d) /\ IdleBf.plan[p] = Nothing
  BY LenProperties DEF Knows, Owes, IdleBf
<1>2. QueueSound(p \in Increased, d, {}, r, <<>>)
  BY DEF QueueSound, Numbers
<1> QED
  BY <1>1, <1>2 DEF Sound, PlanSound, Nothing

-----------------------------------------------------------------------------
(* What the backfill decides without the open positions.                   *)

Added(d, ks, f, n) ==
    IF n = 0 THEN 0 ELSE IF n \in ks THEN f[n - 1] + d[n].vol ELSE f[n - 1]
Sums(d, ks, m, f) == f = [n \in 0 .. m |-> Added(d, ks, f, n)]

\* The recursive function of Volume exists.
LEMMA SumsExist ==
    ASSUME NEW d, NEW ks
    PROVE  \E f : Sums(d, ks, MaxDeals, f)
<1> DEFINE Bad == {m \in 0 .. MaxDeals : ~\E f : Sums(d, ks, m, f)}
<1>1. SUFFICES ASSUME Bad # {} PROVE FALSE
  BY TradesAssumptions
<1>2. PICK m \in Bad : \A n \in Bad : m <= n
  <2>1. Bad \in SUBSET Nat
    OBVIOUS
  <2> HIDE DEF Bad
  <2> QED
    BY <1>1, <2>1, HasLeast
<1>3. m # 0
  <2>1. SUFFICES ASSUME m = 0 PROVE FALSE
    OBVIOUS
  <2> DEFINE f == [n \in 0 .. 0 |-> 0]
  <2>2. f = [n \in 0 .. 0 |-> Added(d, ks, f, n)]
    BY DEF Added
  <2>3. Sums(d, ks, 0, f)
    BY <2>2 DEF Sums
  <2> QED
    BY <1>2, <2>1, <2>3
<1>4. m - 1 \in 0 .. MaxDeals /\ m - 1 \notin Bad /\ m \in Nat
  BY <1>2, <1>3, TradesAssumptions
<1>5. PICK g : Sums(d, ks, m - 1, g)
  BY <1>4
<1>6. /\ DOMAIN g = 0 .. (m - 1)
      /\ \A n \in 0 .. (m - 1) : g[n] = Added(d, ks, g, n)
  BY <1>5 DEF Sums
<1> DEFINE f == [n \in 0 .. m |-> IF n = m THEN Added(d, ks, g, m) ELSE g[n]]
<1>7. \A n \in 0 .. m : f[n] = Added(d, ks, f, n)
  <2>1. \A n \in 0 .. m : /\ n # m => n \in 0 .. (m - 1)
                          /\ n # 0 => n - 1 \in 0 .. (m - 1) /\ n - 1 \in 0 .. m /\ n - 1 # m
    BY <1>4
  <2>2. \A n \in 0 .. m : n # 0 => f[n - 1] = g[n - 1]
    BY <2>1
  <2>3. \A n \in 0 .. m : f[n] = Added(d, ks, g, n)
    BY <1>6, <2>1
  <2> HIDE DEF f
  <2> QED
    BY <2>2, <2>3 DEF Added
<1>8. f = [n \in 0 .. m |-> Added(d, ks, f, n)]
  <2>1. f = [n \in 0 .. m |-> f[n]]
    OBVIOUS
  <2> HIDE DEF f
  <2> QED
    BY <1>7, <2>1
<1>9. Sums(d, ks, m, f)
  BY <1>8 DEF Sums
<1> QED
  BY <1>2, <1>9

LEMMA VolumeIs ==
    ASSUME NEW p, NEW ks
    PROVE  \E f : /\ Sums(deals[p], ks, MaxDeals, f)
                  /\ Volume(p, ks) = f[MaxDeals]
<1> DEFINE f == CHOOSE g : Sums(deals[p], ks, MaxDeals, g)
<1>1. Sums(deals[p], ks, MaxDeals, f)
  BY SumsExist
<1>2. Volume(p, ks) = f[MaxDeals]
  BY DEF Volume, Sums, Added
<1> QED
  BY <1>1, <1>2

\* What was closed of a position with one opening deal, and what is left of it, are no
\* more than that deal.
LEMMA VolumeBound ==
    ASSUME NEW p, NEW d \in Seq(Deal), d = deals[p], DealsSound(FALSE, d),
           Len(d) <= MaxDeals, NEW m \in Numbers(d), NEW ks \in SUBSET (2 .. m)
    PROVE  Volume(p, ks) \in Nat /\ Volume(p, ks) + d[m].left <= d[1].vol
<1>1. PICK f : Sums(d, ks, MaxDeals, f) /\ Volume(p, ks) = f[MaxDeals]
  BY VolumeIs
<1>2. /\ f[0] = 0
      /\ \A n \in 1 .. MaxDeals : f[n] = IF n \in ks THEN f[n - 1] + d[n].vol ELSE f[n - 1]
  BY <1>1, TradesAssumptions DEF Sums, Added
<1>3. /\ m \in Nat /\ m > 0 /\ m <= MaxDeals /\ MaxDeals \in Nat /\ Len(d) \in Nat
      /\ 1 \in Numbers(d) /\ 1 \notin ks
      /\ \A n \in Numbers(d) : n \in Nat /\ d[n].vol \in Nat /\ d[n].left \in Nat
  <2>1. Len(d) \in Nat /\ \A n \in Numbers(d) : d[n] \in Deal
    BY LenProperties, ElementOfSeq DEF Numbers
  <2>2. \A e \in Deal : e.vol \in Nat /\ e.left \in Nat
    BY TradesAssumptions DEF Deal
  <2>3. \A n \in Numbers(d) : n \in Nat
    BY DEF Numbers
  <2> QED
    BY <2>1, <2>2, <2>3, TradesAssumptions DEF Numbers
<1> DEFINE Good(n) == /\ f[n] \in Nat
                      /\ n <= m => f[n] + d[n].left <= d[1].vol
                      /\ m <= n => f[n] + d[m].left <= d[1].vol
           Bad == {n \in 1 .. MaxDeals : ~Good(n)}
<1>4. Bad = {}
  <2>1. SUFFICES ASSUME Bad # {} PROVE FALSE
    OBVIOUS
  <2>2. PICK n \in Bad : \A o \in Bad : n <= o
    <3>1. Bad \in SUBSET Nat
      OBVIOUS
    <3> HIDE DEF Bad
    <3> QED
      BY <2>1, <3>1, HasLeast
  <2>3. n \in 1 .. MaxDeals /\ n \in Nat /\ n > 0
    BY <2>2
  <2>4. n # 1
    <3>1. SUFFICES ASSUME n = 1 PROVE Good(1)
      BY <2>2
    <3>2. f[1] = 0
      BY <1>2, <1>3, TradesAssumptions
    <3>3. d[1].left = d[1].vol
      BY <1>3 DEF DealsSound
    <3>4. m <= 1 => m = 1
      BY <1>3
    <3> QED
      BY <1>3, <3>2, <3>3, <3>4
  <2>5. Good(n - 1) /\ n - 1 \in Nat
    <3>1. n - 1 \in 1 .. MaxDeals /\ n - 1 \in Nat /\ ~(n <= n - 1)
      BY <1>3, <2>3, <2>4
    <3>2. n - 1 \notin Bad
      BY <2>2, <3>1
    <3> QED
      BY <3>1, <3>2
  <2>6. f[n] = IF n \in ks THEN f[n - 1] + d[n].vol ELSE f[n - 1]
    BY <1>2, <2>3
  <2>7. CASE n <= m
    <3>1. n \in Numbers(d)
      BY <1>3, <2>3, <2>7 DEF Numbers
    <3>2. d[n].left = d[n - 1].left - d[n].vol /\ n - 1 \in Numbers(d)
      BY <1>3, <2>3, <2>4, <3>1 DEF DealsSound, Numbers
    <3>3. f[n - 1] \in Nat /\ f[n - 1] + d[n - 1].left <= d[1].vol
      BY <1>3, <2>3, <2>5, <2>7
    <3>4. f[n] \in Nat /\ f[n] + d[n].left <= d[1].vol
      <4>1. d[n].vol \in Nat /\ d[n].left \in Nat /\ d[n - 1].left \in Nat /\ d[1].vol \in Nat
        BY <1>3, <3>1, <3>2
      <4> DEFINE x == f[n - 1]
                 y == d[n - 1].left
                 z == d[1].vol
                 v == d[n].vol
                 u == d[n].left
                 g == f[n]
      <4>2. x \in Nat /\ y \in Nat /\ z \in Nat /\ v \in Nat /\ u \in Nat
            /\ x + y <= z /\ u = y - v /\ (g = x + v \/ g = x)
        BY <2>6, <3>2, <3>3, <4>1
      <4>3. g \in Nat /\ g + u <= z
        <5> HIDE DEF x, y, z, v, u, g
        <5> QED
          BY <4>2
      <4> QED
        BY <4>3
    <3>5. m <= n => n = m
      BY <1>3, <2>3, <2>7
    <3> QED
      BY <2>2, <3>4, <3>5
  <2>8. CASE m < n
    <3>1. n \notin ks
      BY <1>3, <2>8
    <3>2. m <= n - 1 /\ ~(n <= m)
      BY <1>3, <2>3, <2>8
    <3> QED
      BY <2>2, <2>5, <2>6, <3>1, <3>2
  <2> QED
    BY <1>3, <2>3, <2>7, <2>8
<1>5. Good(MaxDeals)
  BY <1>3, <1>4
<1> QED
  BY <1>1, <1>3, <1>5

\* The deals of the window, and the closing ones among them.
LEMMA WindowFacts ==
    ASSUME NEW p \in Position, bf \in BfState, deals[p] \in Seq(Deal),
           Len(deals[p]) <= MaxDeals, Knows(bf, p, deals[p])
    PROVE  /\ bf.to[p] \in Nat /\ (bf.to[p] > 0 => bf.to[p] \in Numbers(deals[p]))
           /\ Window(p) \subseteq Numbers(deals[p]) /\ Numbers(deals[p]) \subseteq Deals
           /\ \A k \in Window(p) : k <= bf.to[p] /\ bf.to[p] > 0
           /\ Outs(p, Window(p)) \subseteq OutsOf(deals[p])
           /\ Set(p) \in Decision /\ Ensure \in Decision /\ Nothing \in Decision
<1>1. bf.to[p] \in Nat /\ bf.to[p] <= Len(deals[p]) /\ Len(deals[p]) \in Nat
  <2>1. bf.to[p] \in 0 .. MaxDeals
    BY DEF BfState
  <2> QED
    BY <2>1, LenProperties DEF Knows
<1>2. Window(p) \subseteq Numbers(deals[p]) /\ \A k \in Window(p) : k <= bf.to[p] /\ bf.to[p] > 0
  BY <1>1 DEF Window, Numbers
<1>3. Numbers(deals[p]) \subseteq Deals
  BY <1>1, TradesAssumptions DEF Numbers, Deals
<1>4. Outs(p, Window(p)) \subseteq OutsOf(deals[p])
  BY <1>2 DEF Outs, OutsOf
<1>5. Outs(p, Window(p)) \subseteq Deals
  BY <1>2, <1>3 DEF Outs
<1>6. Set(p) \in Decision /\ Ensure \in Decision /\ Nothing \in Decision
  BY <1>5 DEF Set, Ensure, Nothing, Decision
<1>7. bf.to[p] > 0 => bf.to[p] \in Numbers(deals[p])
  BY <1>1 DEF Numbers
<1> QED
  BY <1>1, <1>2, <1>3, <1>4, <1>6, <1>7

\* The deal that leaves nothing is a closing one.
LEMMA EndIsOut ==
    ASSUME NEW inc, NEW d \in Seq(Deal), DealsSound(inc, d), NEW k \in Numbers(d), OverAt(d, k)
    PROVE  d[k].out
<1>1. \A n \in Numbers(d) : n \in Nat /\ d[n].vol \in Nat /\ d[n].vol > 0 /\ d[n].left \in Nat
  <2>1. \A e \in Deal : e.vol \in Nat /\ e.vol > 0 /\ e.left \in Nat
    BY TradesAssumptions DEF Deal
  <2>2. \A n \in Numbers(d) : d[n] \in Deal /\ n \in Nat
    BY LenProperties, ElementOfSeq DEF Numbers
  <2> QED
    BY <2>1, <2>2
<1>2. SUFFICES ASSUME ~d[k].out PROVE d[k].left > 0
  BY DEF OverAt
<1>3. CASE k = 1
  BY <1>1, <1>3 DEF DealsSound
<1>4. CASE k # 1
  <2>1. k - 1 \in Numbers(d)
    BY <1>1, <1>4, LenProperties DEF Numbers
  <2>2. d[k].left = d[k - 1].left + d[k].vol
    BY <1>2, <1>4 DEF DealsSound
  <2>3. d[k - 1].left \in Nat /\ d[k].vol \in Nat /\ d[k].vol > 0
    BY <1>1, <2>1
  <2> HIDE DEF DealsSound
  <2> QED
    BY <2>2, <2>3
<1> QED
  BY <1>3, <1>4

\* Without the open positions: what was closed of the only opening deal is all of it.
LEMMA InferredOver ==
    ASSUME NEW p \in Position, bf \in BfState, deals[p] \in Seq(Deal),
           Len(deals[p]) <= MaxDeals, Knows(bf, p, deals[p]), DealsSound(FALSE, deals[p]),
           Ins(p, Window(p)) # {},
           Volume(p, Outs(p, Window(p))) >= deals[p][Min(Ins(p, Window(p)))].vol
    PROVE  Over(deals[p])
<1> DEFINE d == deals[p]
           ks == Outs(p, Window(p))
           m == bf.to[p]
<1>1. /\ m \in Nat /\ (m > 0 => m \in Numbers(d))
      /\ Window(p) \subseteq Numbers(d)
      /\ \A k \in Window(p) : k <= m /\ m > 0
  BY WindowFacts
<1>2. \A k \in Numbers(d) : k \in Nat /\ k > 0 /\ (d[k].out <=> k # 1)
  <2>1. \A k \in Numbers(d) : k \in Nat /\ k > 0
    BY DEF Numbers
  <2>2. \A k \in Numbers(d) : d[k].out <=> k # 1
    BY DEF DealsSound
  <2> QED
    BY <2>1, <2>2
<1>3. Ins(p, Window(p)) = {1}
  BY <1>1, <1>2 DEF Ins
<1>4. Min(Ins(p, Window(p))) = 1
  <2>1. {1} \in SUBSET Nat /\ {1} # {}
    OBVIOUS
  <2>2. Min({1}) \in {1}
    BY <2>1, MinIn
  <2> QED
    BY <1>3, <2>2
<1>5. m \in Numbers(d) /\ m > 0
  BY <1>1, <1>3 DEF Ins
<1>6. ks \in SUBSET (2 .. m)
  <2>1. \A k \in ks : k \in Window(p) /\ d[k].out
    BY DEF Outs
  <2>2. \A k \in ks : k \in Nat /\ k > 0 /\ k # 1 /\ k <= m
    BY <1>1, <1>2, <2>1
  <2> HIDE DEF ks
  <2> QED
    BY <1>1, <2>2
<1>7. Volume(p, ks) \in Nat /\ Volume(p, ks) + d[m].left <= d[1].vol
  BY <1>5, <1>6, VolumeBound
<1>8. d[m].left \in Nat /\ d[1].vol \in Nat
  <2>1. \A e \in Deal : e.vol \in Nat /\ e.left \in Nat
    BY TradesAssumptions DEF Deal
  <2>2. 1 \in Numbers(d) /\ m \in Numbers(d)
    BY <1>1, <1>3, <1>5 DEF Ins
  <2>3. d[m] \in Deal /\ d[1] \in Deal
    BY <2>2, LenProperties, ElementOfSeq DEF Numbers
  <2> QED
    BY <2>1, <2>3
<1>9. Volume(p, ks) >= d[1].vol
  BY <1>4
<1>10. OverAt(d, m)
  <2> HIDE DEF ks, m, d
  <2> QED
    BY <1>7, <1>8, <1>9 DEF OverAt
<1> QED
  BY <1>5, <1>10, OverIsLast

LEMMA DecidedSound ==
    ASSUME NEW p \in Position, bf \in BfState, deals[p] \in Seq(Deal),
           Len(deals[p]) <= MaxDeals, Knows(bf, p, deals[p]),
           DealsSound(p \in Increased, deals[p])
    PROVE  /\ Decided(p) \in Decision
           /\ PlanSound(p \in Increased, deals[p], {}, Decided(p))
           /\ bf.openOk /\ bf.to[p] > 0 /\ OverAt(deals[p], bf.to[p])
              /\ deals[p][bf.to[p]].at >= bf.from => Decided(p).kind = "set"
<1> DEFINE d == deals[p]
           inc == p \in Increased
<1>1. /\ bf.to[p] \in Nat /\ (bf.to[p] > 0 => bf.to[p] \in Numbers(d))
      /\ \A k \in Window(p) : k <= bf.to[p] /\ bf.to[p] > 0
      /\ Window(p) \subseteq Numbers(d)
      /\ Outs(p, Window(p)) \subseteq OutsOf(d)
      /\ Set(p) \in Decision /\ Ensure \in Decision /\ Nothing \in Decision
  BY WindowFacts
<1>2. /\ Ensure.kind = "ensure" /\ Nothing.kind = "none"
      /\ Set(p).kind = "set" /\ Set(p).ks = Outs(p, Window(p))
  BY DEF Ensure, Nothing, Set
<1>3. Decided(p) \in Decision
  BY <1>1 DEF Decided, Inferred
<1>4. Decided(p).kind = "set" => Decided(p) = Set(p) /\ HasClose(p, Window(p))
  BY <1>2 DEF Decided, Inferred
<1>5. ASSUME Decided(p).kind = "set", ~inc PROVE Over(d)
  <2>1. CASE bf.openOk
    <3>1. p \notin bf.open
      BY <1>2, <1>5, <2>1 DEF Decided
    <3>2. bf.to[p] > 0
      BY <1>1, <1>4, <1>5 DEF HasClose, Outs
    <3> QED
      BY <2>1, <3>1, <3>2 DEF Knows
  <2>2. CASE ~bf.openOk
    <3>1. /\ Ins(p, Window(p)) # {}
          /\ Volume(p, Outs(p, Window(p))) >= deals[p][Min(Ins(p, Window(p)))].vol
      BY <1>2, <1>5, <2>2 DEF Decided, Inferred
    <3>2. DealsSound(FALSE, d)
      BY <1>5 DEF DealsSound
    <3> QED
      BY <3>1, <3>2, InferredOver
  <2> QED
    BY <2>1, <2>2
<1>6. PlanSound(inc, d, {}, Decided(p))
  BY <1>1, <1>2, <1>4, <1>5 DEF PlanSound, TotalsSound, HasClose
<1>7. ASSUME bf.openOk, bf.to[p] > 0, OverAt(d, bf.to[p]), d[bf.to[p]].at >= bf.from
      PROVE  Decided(p).kind = "set"
  <2>1. p \notin bf.open
    BY <1>7 DEF Knows
  <2>2. d[bf.to[p]].out
    BY <1>1, <1>7, EndIsOut
  <2>3. bf.to[p] \in Window(p)
    BY <1>1, <1>7 DEF Window
  <2>4. HasClose(p, Window(p))
    BY <2>2, <2>3 DEF HasClose, Outs
  <2> QED
    BY <1>2, <1>7, <2>1, <2>4 DEF Decided
<1> QED
  BY <1>3, <1>6, <1>7

-----------------------------------------------------------------------------
(* The steps.                                                              *)

Typed ==
    /\ now \in 0..MaxNow /\ up \in BOOLEAN /\ naming \in BOOLEAN /\ late \in 0..MaxDrops
    /\ drops \in 0..MaxDrops /\ faults \in 0..MaxFaults
    /\ deals \in [Position -> Seq(Deal)] /\ \A p \in Position : Len(deals[p]) <= MaxDeals
    /\ wire \in [Position -> SUBSET Deals]
    /\ row \in [Position -> RowState]
    /\ chain \in [Position -> Seq(Write)]
    /\ bf \in BfState

LEMMA TypedIs == TypeOK <=> Typed
BY DEF TypeOK, Typed, Deal, RowState, BfState

Sounds == \A p \in Position : Sound(bf, p, deals[p], wire[p], row[p], chain[p])

LEMMA Parts ==
    /\ IInv <=> Typed /\ late <= drops /\ Sounds /\ OneWrite /\ PhaseSound(bf)
    /\ IInv' <=> Typed' /\ late' <= drops' /\ Sounds' /\ OneWrite' /\ PhaseSound(bf')
<1>1. TypeOK' <=> Typed'
  BY TypedIs, PTL
<1> QED
  BY <1>1, TypedIs DEF IInv, Sounds

LEMMA PositionFacts ==
    ASSUME IInv, NEW p \in Position
    PROVE  /\ deals[p] \in Seq(Deal) /\ Len(deals[p]) <= MaxDeals
           /\ wire[p] \in SUBSET Deals /\ row[p] \in RowState /\ chain[p] \in Seq(Write)
           /\ bf \in BfState
           /\ Sound(bf, p, deals[p], wire[p], row[p], chain[p])
BY Parts DEF Typed, Sounds

LEMMA BfFacts ==
    ASSUME NEW b \in BfState
    PROVE  /\ b = [pc |-> b.pc, from |-> b.from, to |-> b.to, openOk |-> b.openOk,
                   open |-> b.open, plan |-> b.plan, stale |-> b.stale, clean |-> b.clean]
           /\ b.pc \in {"idle", "watermark", "reconcile", "list", "write", "written"}
           /\ b.from \in 0..MaxNow /\ b.to \in [Position -> 0..MaxDeals] /\ b.openOk \in BOOLEAN
           /\ b.open \in SUBSET Position /\ b.plan \in [Position -> Decision]
           /\ b.stale \in BOOLEAN /\ b.clean \in BOOLEAN
BY DEF BfState

\* What the chains and the broker do not see: the backfill or the connection changes.
LEMMA QuietStep ==
    ASSUME IInv, UNCHANGED <<deals, row, chain>>, bf' \in BfState,
           \A p \in Position : wire'[p] \in {wire[p], {}},
           \A p \in Position : NoMore(bf, bf', p, deals[p]),
           bf.pc = "written" => bf'.pc = "written"
    PROVE  Sounds' /\ OneWrite'
<1>1. ASSUME NEW p \in Position
      PROVE  Sound(bf', p, deals'[p], wire'[p], row'[p], chain'[p])
  <2>1. Sound(bf', p, deals[p], wire[p], row[p], chain[p])
    BY <1>1, PositionFacts, SoundNoMore
  <2>2. Sound(bf', p, deals[p], {}, row[p], chain[p])
    BY <2>1, SoundLost
  <2> QED
    BY <2>1, <2>2
<1>2. OneWrite
  BY Parts
<1>3. OneWrite'
  BY <1>2 DEF OneWrite
<1> QED
  BY <1>1, <1>3 DEF Sounds

LEMMA ExecuteStep ==
    ASSUME IInv, NEW p \in Position, NEW out \in BOOLEAN, NEW vol \in 1..MaxVolume,
           Execute(p, out, vol),
           \/ ~out /\ (deals[p] = <<>> \/ (p \in Increased /\ IsOpen(p)))
           \/ out /\ vol <= Left(p, Len(deals[p]))
    PROVE  IInv'
<1> DEFINE d == deals[p]
           l == Left(p, Len(d))
           e == [out |-> out, vol |-> vol, at |-> now, left |-> IF out THEN l - vol ELSE l + vol]
<1>1. d \in Seq(Deal) /\ wire[p] \in SUBSET Deals /\ row[p] \in RowState
      /\ chain[p] \in Seq(Write) /\ bf \in BfState
      /\ Sound(bf, p, d, wire[p], row[p], chain[p])
  BY PositionFacts
<1>2. Len(d) \in Nat /\ Len(d) < MaxDeals /\ vol \in Nat /\ vol > 0 /\ MaxDeals \in Nat
  BY LenProperties, TradesAssumptions DEF Execute
<1>3. Len(d) = 0 <=> d = <<>>
  BY EmptySeq, <1>1
<1>4. l \in Nat /\ (Len(d) # 0 => l = d[Len(d)].left)
  <2>1. Len(d) # 0 => Len(d) \in 1 .. Len(d)
    BY <1>2
  <2>2. Len(d) # 0 => d[Len(d)] \in Deal
    BY <1>1, <2>1, ElementOfSeq
  <2> QED
    BY <2>2 DEF Left, Deal
<1>5. now \in 0..MaxNow
  BY Parts DEF Typed
<1>6. e \in Deal
  <2>1. (IF out THEN l - vol ELSE l + vol) \in Nat
    BY <1>2, <1>4
  <2> QED
    BY <1>5, <2>1 DEF Deal
<1>7. Executes(p \in Increased, d, e)
  <2>1. CASE ~out /\ d = <<>>
    <3>1. l = 0
      BY <1>3, <2>1 DEF Left
    <3> QED
      BY <1>2, <2>1, <3>1 DEF Executes
  <2>2. CASE ~out /\ p \in Increased /\ IsOpen(p) /\ d # <<>>
    <3>1. l > 0
      BY <2>2 DEF IsOpen, OpenAfter
    <3> QED
      BY <1>3, <1>4, <2>2, <3>1 DEF Executes
  <2>3. CASE out /\ vol <= l
    <3>1. l > 0
      BY <1>2, <1>4, <2>3
    <3>2. d # <<>>
      BY <1>3, <3>1 DEF Left
    <3> QED
      BY <1>3, <1>4, <2>3, <3>1, <3>2 DEF Executes
  <2> QED
    BY <2>1, <2>2, <2>3
<1>8. deals' = [deals EXCEPT ![p] = Append(d, e)]
  BY DEF Execute
<1>9. wire' = wire \/ wire' = [wire EXCEPT ![p] = wire[p] \cup {Len(d) + 1}]
  BY DEF Execute
<1>10. UNCHANGED <<now, up, naming, late, row, chain, bf, drops, faults>>
  BY DEF Execute, link, bounds
<1> HIDE DEF e, l
<1>11. Typed /\ late <= drops /\ Sounds /\ OneWrite /\ PhaseSound(bf)
  BY Parts
<1>12. /\ Append(d, e) \in Seq(Deal) /\ Len(Append(d, e)) = Len(d) + 1
       /\ deals'[p] = Append(d, e)
       /\ \A q \in Position : q # p => deals'[q] = deals[q] /\ wire'[q] = wire[q]
       /\ wire'[p] \in {wire[p], wire[p] \cup {Len(d) + 1}}
  <2>1. Append(d, e) \in Seq(Deal) /\ Len(Append(d, e)) = Len(d) + 1
    BY <1>1, <1>6, AppendFacts
  <2>2. deals \in [Position -> Seq(Deal)] /\ wire \in [Position -> SUBSET Deals]
    BY <1>11 DEF Typed
  <2> HIDE DEF d
  <2> QED
    BY <1>8, <1>9, <2>1, <2>2
<1>13. Typed'
  <2>1. deals \in [Position -> Seq(Deal)] /\ wire \in [Position -> SUBSET Deals]
        /\ \A q \in Position : Len(deals[q]) <= MaxDeals
    BY <1>11 DEF Typed
  <2>2. deals' \in [Position -> Seq(Deal)]
    BY <1>8, <1>12, <2>1
  <2>3. wire' \in [Position -> SUBSET Deals]
    <3>1. Len(d) + 1 \in Deals
      BY <1>2 DEF Deals
    <3> QED
      BY <1>9, <2>1, <3>1
  <2>4. \A q \in Position : Len(deals'[q]) <= MaxDeals
    BY <1>2, <1>12, <2>1
  <2> QED
    BY <1>10, <1>11, <2>2, <2>3, <2>4 DEF Typed
<1>14. ASSUME NEW q \in Position
       PROVE  Sound(bf', q, deals'[q], wire'[q], row'[q], chain'[q])
  <2>1. CASE q = p
    <3> DEFINE v == wire'[p]
               w == wire[p]
               r == row[p]
               c == chain[p]
    <3>1. /\ d \in Seq(Deal) /\ w \in SUBSET Deals /\ r \in RowState /\ c \in Seq(Write)
          /\ bf \in BfState /\ Sound(bf, p, d, w, r, c) /\ e \in Deal /\ Len(d) < MaxDeals
          /\ Executes(p \in Increased, d, e) /\ v \in {w, w \cup {Len(d) + 1}}
      BY <1>1, <1>2, <1>6, <1>7, <1>12
    <3>2. Sound(bf, p, Append(d, e), v, r, c)
      <4> HIDE DEF d, v, w, r, c
      <4> QED
        BY <3>1, SoundMore
    <3> QED
      BY <1>10, <1>12, <2>1, <3>2
  <2>2. CASE q # p
    BY <1>10, <1>11, <1>12, <2>2 DEF Sounds
  <2> QED
    BY <2>1, <2>2
<1>15. OneWrite'
  BY <1>10, <1>11 DEF OneWrite
<1> QED
  BY <1>10, <1>11, <1>13, <1>14, <1>15, Parts DEF Sounds

LEMMA BrokerStep ==
    ASSUME IInv, NEW p \in Position, BrokerOpens(p) \/ BrokerCloses(p)
    PROVE  IInv'
<1>1. CASE BrokerOpens(p)
  BY <1>1, ExecuteStep DEF BrokerOpens
<1>2. CASE BrokerCloses(p)
  BY <1>2, ExecuteStep DEF BrokerCloses
<1> QED
  BY <1>1, <1>2

LEMMA HandleStep ==
    ASSUME IInv, NEW p \in Position, HandleExecution(p)
    PROVE  IInv'
<1> DEFINE k == Min(wire[p])
           e == [kind |-> "deal", k |-> k]
<1>1. deals[p] \in Seq(Deal) /\ wire[p] \in SUBSET Deals /\ row[p] \in RowState
      /\ chain[p] \in Seq(Write) /\ bf \in BfState
      /\ Sound(bf, p, deals[p], wire[p], row[p], chain[p])
  BY PositionFacts
<1>2. k \in wire[p]
  <2>1. wire[p] \in SUBSET Nat /\ wire[p] # {}
    BY <1>1 DEF HandleExecution, Deals
  <2> QED
    BY <2>1, MinIn
<1>3. /\ chain' = [chain EXCEPT ![p] = Append(chain[p], e)]
      /\ wire' = [wire EXCEPT ![p] = wire[p] \ {k}]
      /\ UNCHANGED <<now, deals, up, naming, late, row, bf, drops, faults>>
  BY DEF HandleExecution, Enqueue, broker, link, bounds
<1>4. e \in Write /\ e.kind = "deal"
  BY <1>1, <1>2 DEF Write
<1> HIDE DEF e, k
<1>5. Typed /\ late <= drops /\ Sounds /\ OneWrite /\ PhaseSound(bf)
  BY Parts
<1>6. /\ wire' \in [Position -> SUBSET Deals] /\ chain' \in [Position -> Seq(Write)]
      /\ wire'[p] = wire[p] \ {k} /\ chain'[p] = Append(chain[p], e)
      /\ \A q \in Position : q # p => wire'[q] = wire[q] /\ chain'[q] = chain[q]
  <2>1. Append(chain[p], e) \in Seq(Write)
    BY <1>1, <1>4, AppendFacts
  <2>2. wire \in [Position -> SUBSET Deals] /\ chain \in [Position -> Seq(Write)]
    BY <1>5 DEF Typed
  <2> QED
    BY <1>3, <2>1, <2>2
<1>7. Typed'
  BY <1>3, <1>5, <1>6 DEF Typed
<1>8. ASSUME NEW q \in Position
      PROVE  Sound(bf', q, deals'[q], wire'[q], row'[q], chain'[q])
  <2>1. CASE q = p
    <3>1. Sound(bf, p, deals[p], wire[p] \ {k}, row[p], Append(chain[p], e))
      BY <1>1, <1>2, SoundHandled DEF e
    <3> QED
      BY <1>3, <1>6, <2>1, <3>1
  <2>2. CASE q # p
    BY <1>3, <1>5, <1>6, <2>2 DEF Sounds
  <2> QED
    BY <2>1, <2>2
<1>9. OneWrite'
  <2>1. \A q \in Position : \A i \in Numbers(chain'[q]) : chain'[q][i].kind # "deal" =>
          i \in Numbers(chain[q]) /\ chain'[q][i] = chain[q][i]
    <3> DEFINE c == chain[p]
               a == chain'[p]
    <3>1. a = Append(c, e)
      BY <1>6
    <3>3. c \in Seq(Write) /\ e \in Write
      BY <1>1, <1>4
    <3>2. \A i \in Numbers(a) : a[i].kind # "deal" => i \in Numbers(c) /\ a[i] = c[i]
      <4> HIDE DEF a, c
      <4>1. /\ Append(c, e)[Len(c) + 1] = e
            /\ \A i \in Numbers(c) : Append(c, e)[i] = c[i]
            /\ \A i \in Numbers(Append(c, e)) : i = Len(c) + 1 \/ i \in Numbers(c)
        BY <3>3, AppendFacts DEF Numbers
      <4> QED
        BY <1>4, <3>1, <4>1
    <3> QED
      BY <1>6, <3>2
  <2>2. /\ \A q \in Position : \A i \in Numbers(chain[q]) : chain[q][i].kind # "deal" => bf.pc = "written"
        /\ \A o, q \in Position : \A i \in Numbers(chain[o]), j \in Numbers(chain[q]) :
             chain[o][i].kind # "deal" /\ chain[q][j].kind # "deal" => o = q /\ i = j
    BY <1>5 DEF OneWrite
  <2>3. \A q \in Position : \A i \in Numbers(chain'[q]) : chain'[q][i].kind # "deal" => bf'.pc = "written"
    BY <1>3, <2>1, <2>2
  <2>4. \A o, q \in Position : \A i \in Numbers(chain'[o]), j \in Numbers(chain'[q]) :
             chain'[o][i].kind # "deal" /\ chain'[q][j].kind # "deal" => o = q /\ i = j
    BY <2>1, <2>2
  <2> QED
    BY <2>3, <2>4 DEF OneWrite
<1> QED
  BY <1>3, <1>5, <1>7, <1>8, <1>9, Parts DEF Sounds

\* The queue of p loses its first write, for which a backfill may be waiting.
LEMMA TailStep ==
    ASSUME IInv, NEW p \in Position, NEW ok \in BOOLEAN, chain[p] # <<>>,
           chain' = [chain EXCEPT ![p] = Tail(@)], Returns(p, ok)
    PROVE  /\ chain' \in [Position -> Seq(Write)] /\ bf' \in BfState
           /\ chain'[p] = Tail(chain[p])
           /\ \A q \in Position : q # p => chain'[q] = chain[q]
           /\ Head(chain[p]) \in Write /\ Head(chain[p]) = chain[p][1] /\ 1 \in Numbers(chain[p])
           /\ \A q \in Position : NoMore(bf, bf', q, deals[q])
           /\ Head(chain[p]).kind # "deal" /\ ~ok => ~bf'.clean
           /\ OneWrite' /\ PhaseSound(bf')
<1> DEFINE c == chain[p]
           a == Tail(c)
           e == Head(c)
<1>1. Typed /\ OneWrite /\ PhaseSound(bf) /\ c \in Seq(Write) /\ bf \in BfState
  BY Parts, PositionFacts
<1>2. /\ a \in Seq(Write) /\ e = c[1] /\ e \in Write /\ 1 \in Numbers(c)
      /\ \A i \in Numbers(a) : /\ i \in Nat /\ i > 0 /\ i + 1 \in Numbers(c) /\ a[i] = c[i + 1]
  BY <1>1, TailFacts DEF Numbers
<1>3. bf' = IF e.kind = "deal" THEN bf ELSE [bf EXCEPT !.pc = "write", !.clean = bf.clean /\ ok]
  BY DEF Returns
<1>4. chain' \in [Position -> Seq(Write)] /\ chain'[p] = a
      /\ \A q \in Position : q # p => chain'[q] = chain[q]
  <2>1. chain \in [Position -> Seq(Write)]
    BY <1>1 DEF Typed
  <2> QED
    BY <1>2, <2>1
<1>5. e.kind # "deal" => bf.pc = "written"
  BY <1>1, <1>2 DEF OneWrite
<1> HIDE DEF a, e, c
<1>6. /\ bf'.to = bf.to /\ bf'.openOk = bf.openOk /\ bf'.open = bf.open /\ bf'.plan = bf.plan
      /\ bf'.from = bf.from /\ (bf'.clean => bf.clean) /\ bf' \in BfState
      /\ e.kind = "deal" => bf' = bf
      /\ e.kind # "deal" => bf'.pc = "write" /\ (~ok => ~bf'.clean)
  <2>1. CASE e.kind = "deal"
    BY <1>1, <1>3, <2>1
  <2>2. CASE e.kind # "deal"
    BY <1>1, <1>3, <2>2 DEF BfState
  <2> QED
    BY <2>1, <2>2
<1>7. ASSUME NEW q \in Position PROVE NoMore(bf, bf', q, deals[q])
  BY <1>5, <1>6 DEF NoMore, Owes
<1>8. PhaseSound(bf')
  BY <1>1, <1>5, <1>6 DEF PhaseSound, Asked
<1>9. /\ \A q \in Position : \A i \in Numbers(chain[q]) : chain[q][i].kind # "deal" => bf.pc = "written"
      /\ \A o, q \in Position : \A i \in Numbers(chain[o]), j \in Numbers(chain[q]) :
             chain[o][i].kind # "deal" /\ chain[q][j].kind # "deal" => o = q /\ i = j
  BY <1>1 DEF OneWrite
<1>10. CASE e.kind # "deal"
  <2>1. ASSUME NEW q \in Position, NEW i \in Numbers(chain'[q]) PROVE chain'[q][i].kind = "deal"
    <3>1. CASE q # p
      BY <1>2, <1>4, <1>9, <1>10, <2>1, <3>1 DEF c
    <3>2. CASE q = p
      <4>0. i \in Numbers(a) /\ chain'[p] = a
        BY <1>4, <2>1, <3>2
      <4>1. i + 1 \in Numbers(chain[p]) /\ chain'[p][i] = chain[p][i + 1] /\ i + 1 # 1
        <5>1. i \in Nat /\ i > 0 /\ i + 1 \in Numbers(c) /\ a[i] = c[i + 1]
          BY <1>2, <4>0
        <5>2. i + 1 # 1
          BY <5>1
        <5> QED
          BY <4>0, <5>1, <5>2 DEF c
      <4>2. chain[p][i + 1].kind # "deal" => i + 1 = 1
        BY <1>2, <1>9, <1>10, <4>1 DEF c
      <4> QED
        BY <3>2, <4>1, <4>2
    <3> QED
      BY <3>1, <3>2
  <2>2. OneWrite'
    BY <2>1 DEF OneWrite
  <2> QED
    BY <1>2, <1>4, <1>6, <1>7, <1>8, <2>2 DEF c, e, a
<1>11. CASE e.kind = "deal"
  <2> DEFINE s(q, i) == IF q = p THEN i + 1 ELSE i
  <2>1. \A q \in Position : \A i \in Numbers(chain'[q]) :
          s(q, i) \in Numbers(chain[q]) /\ chain'[q][i] = chain[q][s(q, i)]
    BY <1>2, <1>4 DEF c
  <2>2. \A q \in Position : \A i, j \in Numbers(chain'[q]) : s(q, i) = s(q, j) => i = j
    BY <1>2, <1>4 DEF Numbers
  <2> HIDE DEF s
  <2>3. ASSUME NEW q \in Position, NEW i \in Numbers(chain'[q]), chain'[q][i].kind # "deal"
        PROVE  bf'.pc = "written"
    <3>1. s(q, i) \in Numbers(chain[q]) /\ chain[q][s(q, i)].kind # "deal"
      BY <2>1, <2>3
    <3> QED
      BY <1>6, <1>9, <1>11, <3>1
  <2>4. \A o, q \in Position : \A i \in Numbers(chain'[o]), j \in Numbers(chain'[q]) :
             chain'[o][i].kind # "deal" /\ chain'[q][j].kind # "deal" => o = q /\ i = j
    <3> TAKE o, q \in Position
    <3> TAKE i \in Numbers(chain'[o]), j \in Numbers(chain'[q])
    <3> HAVE chain'[o][i].kind # "deal" /\ chain'[q][j].kind # "deal"
    <3>1. /\ s(o, i) \in Numbers(chain[o]) /\ chain[o][s(o, i)].kind # "deal"
          /\ s(q, j) \in Numbers(chain[q]) /\ chain[q][s(q, j)].kind # "deal"
      BY <2>1
    <3>2. o = q /\ s(o, i) = s(q, j)
      BY <1>9, <3>1
    <3> QED
      BY <2>2, <3>2
  <2>5. OneWrite'
    BY <2>3, <2>4 DEF OneWrite
  <2> QED
    BY <1>2, <1>4, <1>6, <1>7, <1>8, <1>11, <2>5 DEF c, e, a
<1> QED
  BY <1>10, <1>11

\* What the first write of a queue makes of the row.
LEMMA ApplyIs ==
    ASSUME IInv, NEW p \in Position, chain[p] # <<>>
    PROVE  /\ Apply(p, Head(chain[p]), row[p]) \in RowState
           /\ Written(deals[p], Head(chain[p]), row[p], Apply(p, Head(chain[p]), row[p]))
<1> DEFINE d == deals[p]
           e == Head(chain[p])
           r == row[p]
<1>1. d \in Seq(Deal) /\ Len(d) <= MaxDeals /\ r \in RowState /\ chain[p] \in Seq(Write)
      /\ QueueSound(p \in Increased, d, wire[p], r, chain[p])
  BY PositionFacts DEF Sound
<1>2. e \in Write /\ e = chain[p][1] /\ 1 \in Numbers(chain[p])
  BY <1>1, TailFacts DEF Numbers
<1>3. now \in 0..MaxNow
  BY Parts DEF Typed
<1>4. /\ e.kind = "set" => e.ks \subseteq OutsOf(d) /\ e.ks # {}
      /\ e.kind = "deal" => e.k \in Numbers(d)
  BY <1>1, <1>2 DEF QueueSound, TotalsSound
<1>5. \A k \in Numbers(d) : d[k].at \in 0..MaxNow /\ k \in Deals
  <2>1. \A k \in Numbers(d) : d[k] \in Deal
    BY <1>1, ElementOfSeq DEF Numbers
  <2>2. \A k \in Numbers(d) : k \in Deals
    BY <1>1, LenProperties, TradesAssumptions DEF Numbers, Deals
  <2> QED
    BY <2>1, <2>2 DEF Deal
<1>6. /\ r.st \in {"none", "open", "closed"} /\ r.exit \in 0..MaxNow
      /\ r.counted \in [Deals -> Nat]
      /\ r = [st |-> r.st, exit |-> r.exit, counted |-> r.counted]
  BY <1>1 DEF RowState
<1>7. CASE e.kind = "set"
  <2> DEFINE E == {d[k].at : k \in e.ks}
             m == IF e.ks = {} THEN now ELSE Max(E)
             n == [k \in Deals |-> IF k \in e.ks THEN 1 ELSE 0]
  <2>1. m \in 0..MaxNow
    <3>1. E \subseteq 0..MaxNow /\ E # {}
      BY <1>4, <1>5, <1>7 DEF OutsOf
    <3> HIDE DEF E
    <3>2. Max(E) \in 0..MaxNow
      BY <3>1, MaxOfTimes
    <3> QED
      BY <1>3, <3>2
  <2>2. Apply(p, e, r) = [st |-> "closed", exit |-> m, counted |-> n]
    BY <1>7 DEF Apply, TotalsSet
  <2>3. n \in [Deals -> Nat] /\ \A k \in Deals : n[k] = IF k \in e.ks THEN 1 ELSE 0
    OBVIOUS
  <2> HIDE DEF m, n
  <2> QED
    BY <1>7, <2>1, <2>2, <2>3 DEF RowState, Written
<1>8. CASE e.kind = "deal" /\ d[e.k].out
  <2> DEFINE n == [r.counted EXCEPT ![e.k] = r.counted[e.k] + 1]
             x == IF FullyClosed(p, e.k) THEN d[e.k].at ELSE 0
             st == IF FullyClosed(p, e.k) THEN "closed" ELSE "open"
  <2>1. Apply(p, e, r) = [st |-> st, exit |-> x, counted |-> n]
    BY <1>8 DEF Apply, DealApplied
  <2>2. n \in [Deals -> Nat] /\ \A k \in Deals : n[k] = IF k = e.k THEN r.counted[k] + 1 ELSE r.counted[k]
    <3> DEFINE cnt == r.counted
    <3>1. cnt \in [Deals -> Nat] /\ n = [cnt EXCEPT ![e.k] = cnt[e.k] + 1]
      BY <1>6
    <3>2. n \in [Deals -> Nat] /\ \A k \in Deals : n[k] = IF k = e.k THEN cnt[k] + 1 ELSE cnt[k]
      <4>1. e.k \in Deals
        BY <1>4, <1>5, <1>8
      <4> HIDE DEF cnt, n, e
      <4> QED
        BY <3>1, <4>1
    <3> QED
      BY <3>2
  <2>3. x \in 0..MaxNow /\ st \in {"none", "open", "closed"}
    <3>1. d[e.k].at \in 0..MaxNow /\ 0 \in 0..MaxNow
      BY <1>4, <1>5, <1>8, TradesAssumptions
    <3> QED
      BY <3>1
  <2>4. st = "closed" => OverAt(d, e.k)
    <3>1. e.k # 0
      BY <1>4, <1>8 DEF Numbers
    <3> QED
      BY <3>1 DEF FullyClosed, OpenAfter, Left, OverAt
  <2> HIDE DEF n, x, st
  <2> QED
    BY <1>8, <2>1, <2>2, <2>3, <2>4 DEF RowState, Written
<1>9. CASE e.kind # "set" /\ ~(e.kind = "deal" /\ d[e.k].out)
  <2>1. Apply(p, e, r) = Ensured(r)
    BY <1>9 DEF Apply
  <2>2. /\ Ensured(r) \in RowState /\ Ensured(r).counted = r.counted
        /\ Ensured(r).st = "closed" <=> r.st = "closed"
    BY <1>1, <1>6 DEF Ensured, RowState
  <2> QED
    BY <1>9, <2>1, <2>2 DEF Written
<1> QED
  BY <1>7, <1>8, <1>9

LEMMA LandsStep ==
    ASSUME IInv, NEW p \in Position, WriteLands(p)
    PROVE  IInv'
<1> DEFINE d == deals[p]
           w == wire[p]
           r == row[p]
           c == chain[p]
           s == Apply(p, Head(c), r)
<1>1. d \in Seq(Deal) /\ Len(d) <= MaxDeals /\ w \in SUBSET Deals /\ r \in RowState
      /\ c \in Seq(Write) /\ bf \in BfState /\ Sound(bf, p, d, w, r, c) /\ c # <<>>
  BY PositionFacts DEF WriteLands
<1>2. s \in RowState /\ Written(d, Head(c), r, s)
  BY <1>1, ApplyIs
<1>3. /\ chain' \in [Position -> Seq(Write)] /\ bf' \in BfState
      /\ chain'[p] = Tail(c)
      /\ \A q \in Position : q # p => chain'[q] = chain[q]
      /\ \A q \in Position : NoMore(bf, bf', q, deals[q])
      /\ OneWrite' /\ PhaseSound(bf')
  BY TailStep DEF WriteLands
<1>4. row' = [row EXCEPT ![p] = s]
      /\ UNCHANGED <<now, deals, up, naming, late, wire, drops, faults>>
  BY DEF WriteLands, broker, link, bounds
<1>5. Typed /\ late <= drops /\ Sounds
  BY Parts
<1>6. row' \in [Position -> RowState] /\ row'[p] = s
      /\ \A q \in Position : q # p => row'[q] = row[q]
  <2>1. row \in [Position -> RowState]
    BY <1>5 DEF Typed
  <2> HIDE DEF s
  <2> QED
    BY <1>2, <1>4, <2>1
<1>7. Typed'
  BY <1>3, <1>4, <1>5, <1>6 DEF Typed
<1>8. Sound(bf, p, d, w, s, Tail(c))
  <2> HIDE DEF d, w, r, c, s
  <2> QED
    BY <1>1, <1>2, SoundLands
<1>9. ASSUME NEW q \in Position
      PROVE  Sound(bf', q, deals'[q], wire'[q], row'[q], chain'[q])
  <2>1. Sound(bf, q, deals[q], wire[q], row'[q], chain'[q])
    <3>1. CASE q = p
      BY <1>3, <1>6, <1>8, <3>1
    <3>2. CASE q # p
      BY <1>3, <1>5, <1>6, <3>2 DEF Sounds
    <3> QED
      BY <3>1, <3>2
  <2>2. NoMore(bf, bf', q, deals[q])
    BY <1>3
  <2>3. Sound(bf', q, deals[q], wire[q], row'[q], chain'[q])
    BY <2>1, <2>2, SoundNoMore
  <2> QED
    BY <1>4, <2>3
<1> QED
  BY <1>3, <1>4, <1>5, <1>7, <1>9, Parts DEF Sounds

LEMMA FailsStep ==
    ASSUME IInv, NEW p \in Position, WriteFails(p)
    PROVE  IInv'
<1> DEFINE d == deals[p]
           w == wire[p]
           r == row[p]
           c == chain[p]
<1>1. d \in Seq(Deal) /\ Len(d) <= MaxDeals /\ w \in SUBSET Deals /\ r \in RowState
      /\ c \in Seq(Write) /\ bf \in BfState /\ Sound(bf, p, d, w, r, c) /\ c # <<>>
  BY PositionFacts DEF WriteFails
<1>2. /\ chain' \in [Position -> Seq(Write)] /\ bf' \in BfState
      /\ chain'[p] = Tail(c)
      /\ \A q \in Position : q # p => chain'[q] = chain[q]
      /\ \A q \in Position : NoMore(bf, bf', q, deals[q])
      /\ Head(c).kind # "deal" => ~bf'.clean
      /\ OneWrite' /\ PhaseSound(bf')
  BY TailStep DEF WriteFails
<1>3. UNCHANGED <<now, deals, up, naming, late, wire, row, drops>>
      /\ faults < MaxFaults /\ faults' = faults + 1
  BY DEF WriteFails, broker, link, Faulty
<1>4. Typed /\ late <= drops /\ Sounds
  BY Parts
<1>5. Typed'
  <2>1. faults' \in 0..MaxFaults
    BY <1>3, <1>4, TradesAssumptions DEF Typed
  <2> QED
    BY <1>2, <1>3, <1>4, <2>1 DEF Typed
<1>6. Sound(bf', p, d, w, r, c) /\ (Head(c).kind = "set" => ~Owes(bf', p, d))
  <2>1. NoMore(bf, bf', p, d)
    BY <1>2
  <2>2. Sound(bf', p, d, w, r, c)
    BY <1>1, <2>1, SoundNoMore
  <2> QED
    BY <1>2, <2>2 DEF Owes
<1>7. Sound(bf', p, d, w, r, Tail(c))
  <2> DEFINE b == bf'
  <2>1. Sound(b, p, d, w, r, c) /\ (Head(c).kind = "set" => ~Owes(b, p, d)) /\ b \in BfState
    BY <1>2, <1>6
  <2> HIDE DEF d, w, r, c, b
  <2>2. Sound(b, p, d, w, r, Tail(c))
    BY <1>1, <2>1, SoundDropped
  <2> QED
    BY <2>2 DEF b
<1>8. ASSUME NEW q \in Position
      PROVE  Sound(bf', q, deals'[q], wire'[q], row'[q], chain'[q])
  <2>1. CASE q = p
    BY <1>2, <1>3, <1>7, <2>1
  <2>2. CASE q # p
    <3>1. Sound(bf, q, deals[q], wire[q], row[q], chain[q]) /\ NoMore(bf, bf', q, deals[q])
      BY <1>2, <1>4 DEF Sounds
    <3>2. Sound(bf', q, deals[q], wire[q], row[q], chain[q])
      BY <3>1, SoundNoMore
    <3> QED
      BY <1>2, <1>3, <2>2, <3>2
  <2> QED
    BY <2>1, <2>2
<1> QED
  BY <1>2, <1>3, <1>4, <1>5, <1>8, Parts DEF Sounds

\* The connection changes and the backfill with it, or not: the queues and rows do not.
LEMMA LinkStep ==
    ASSUME IInv, UNCHANGED <<deals, row, chain>>, bf' \in BfState,
           now' \in 0..MaxNow, up' \in BOOLEAN, naming' \in BOOLEAN,
           late' \in 0..MaxDrops, late' <= drops', drops' \in 0..MaxDrops, faults' \in 0..MaxFaults,
           wire' = wire \/ wire' = [p \in Position |-> {}],
           \A p \in Position : NoMore(bf, bf', p, deals[p]),
           bf.pc = "written" => bf'.pc = "written", PhaseSound(bf')
    PROVE  IInv'
<1>1. Typed
  BY Parts
<1>2. wire' \in [Position -> SUBSET Deals] /\ \A p \in Position : wire'[p] \in {wire[p], {}}
  <2>1. wire \in [Position -> SUBSET Deals]
    BY <1>1 DEF Typed
  <2> QED
    BY <2>1
<1>3. Sounds' /\ OneWrite'
  BY <1>2, QuietStep
<1>4. Typed'
  BY <1>1, <1>2 DEF Typed
<1> QED
  BY <1>3, <1>4, Parts

LEMMA LinkFacts ==
    ASSUME IInv
    PROVE  /\ now \in 0..MaxNow /\ up \in BOOLEAN /\ naming \in BOOLEAN
           /\ late \in Nat /\ drops \in Nat /\ late <= drops /\ drops <= MaxDrops
           /\ faults \in Nat /\ faults <= MaxFaults
           /\ MaxDrops \in Nat /\ MaxFaults \in Nat /\ MaxNow \in Nat
           /\ bf \in BfState /\ PhaseSound(bf)
           /\ \A p \in Position : NoMore(bf, bf, p, deals[p])
BY Parts, TradesAssumptions DEF Typed, NoMore

LEMMA StartsFacts ==
    ASSUME IInv, NEW stale \in BOOLEAN, BackfillStarts(stale)
    PROVE  /\ bf' \in BfState /\ PhaseSound(bf')
           /\ \A p \in Position : NoMore(bf, bf', p, deals[p])
           /\ bf.pc = "written" => bf'.pc = "written"
<1>1. bf \in BfState /\ PhaseSound(bf)
  BY LinkFacts
<1>2. CASE bf.pc = "idle"
  <2>1. bf' = [bf EXCEPT !.pc = "watermark", !.stale = stale]
    BY <1>2 DEF BackfillStarts
  <2>2. /\ bf' \in BfState /\ bf'.pc = "watermark" /\ bf'.to = bf.to /\ bf'.openOk = bf.openOk
        /\ bf'.open = bf.open /\ bf'.plan = bf.plan
    BY <1>1, <2>1 DEF BfState
  <2> QED
    BY <1>1, <1>2, <2>2 DEF PhaseSound, Asked, NoMore, Owes
<1>3. CASE bf.pc # "idle"
  BY <1>3, LinkFacts DEF BackfillStarts
<1> QED
  BY <1>2, <1>3

LEMMA ConnectionStep ==
    ASSUME IInv, Tick \/ Connects \/ AuthTimesOut \/ NamesDone \/ NamesTimeOut \/ ConnectionLost
    PROVE  IInv'
<1>1. /\ now \in 0..MaxNow /\ up \in BOOLEAN /\ naming \in BOOLEAN
      /\ late \in Nat /\ drops \in Nat /\ late <= drops /\ drops <= MaxDrops
      /\ faults \in Nat /\ faults <= MaxFaults
      /\ MaxDrops \in Nat /\ MaxFaults \in Nat /\ MaxNow \in Nat
      /\ bf \in BfState /\ PhaseSound(bf)
      /\ \A p \in Position : NoMore(bf, bf, p, deals[p])
  BY LinkFacts
<1>2. late \in 0..MaxDrops /\ drops \in 0..MaxDrops /\ faults \in 0..MaxFaults
  BY <1>1
<1>3. CASE Tick
  <2>1. now' \in 0..MaxNow
    BY <1>1, <1>3 DEF Tick
  <2>2. UNCHANGED <<deals, row, chain, bf, up, naming, late, drops, faults, wire>>
    BY <1>3 DEF Tick, link, bounds
  <2> QED
    BY <1>1, <1>2, <2>1, <2>2, LinkStep
<1>4. CASE Connects
  <2>1. UNCHANGED <<now, deals, row, chain, bf, late, drops, faults, wire>> /\ up' /\ naming'
    BY <1>4 DEF Connects, broker, bounds
  <2>2. up' \in BOOLEAN /\ naming' \in BOOLEAN
    BY <1>4 DEF Connects
  <2> QED
    BY <1>1, <1>2, <2>1, <2>2, LinkStep
<1>5. CASE AuthTimesOut
  <2>1. UNCHANGED <<now, deals, row, chain, bf, naming, late, drops, wire>> /\ up' \in BOOLEAN
    BY <1>5 DEF AuthTimesOut, broker
  <2>2. faults' \in 0..MaxFaults
    BY <1>1, <1>5 DEF AuthTimesOut, Faulty
  <2> QED
    BY <1>1, <1>2, <2>1, <2>2, LinkStep
<1>6. CASE NamesDone
  <2>1. UNCHANGED <<now, deals, row, chain, up, late, drops, faults, wire>> /\ naming' \in BOOLEAN
    BY <1>6 DEF NamesDone, broker, bounds
  <2>2. BackfillStarts(FALSE)
    BY <1>6 DEF NamesDone
  <2> QED
    BY <1>1, <1>2, <2>1, <2>2, StartsFacts, LinkStep
<1>7. CASE NamesTimeOut
  <2>1. UNCHANGED <<now, deals, row, chain, up, naming, drops, faults, wire>>
    BY <1>7 DEF NamesTimeOut, broker, bounds
  <2>2. BackfillStarts(TRUE)
    BY <1>7 DEF NamesTimeOut
  <2>3. late' \in 0..MaxDrops /\ late' <= drops'
    BY <1>1, <1>7, <2>1 DEF NamesTimeOut
  <2> QED
    BY <1>1, <1>2, <2>1, <2>2, <2>3, StartsFacts, LinkStep
<1>8. CASE ConnectionLost
  <2>1. UNCHANGED <<now, deals, row, chain, faults>>
        /\ up' \in BOOLEAN /\ naming' \in BOOLEAN /\ wire' = [p \in Position |-> {}]
    BY <1>8 DEF ConnectionLost, broker
  <2>2. drops' = drops + 1 /\ drops < MaxDrops /\ (late' = late + 1 \/ late' = late)
    BY <1>8 DEF ConnectionLost
  <2>3. late' \in 0..MaxDrops /\ drops' \in 0..MaxDrops /\ late' <= drops'
    BY <1>1, <2>2
  <2>4. bf' = bf \/ bf' = [bf EXCEPT !.stale = TRUE]
    BY <1>8 DEF ConnectionLost
  <2>5. /\ bf' \in BfState /\ bf'.pc = bf.pc /\ bf'.to = bf.to /\ bf'.openOk = bf.openOk
        /\ bf'.open = bf.open /\ bf'.plan = bf.plan /\ bf'.clean = bf.clean /\ bf'.from = bf.from
    BY <1>1, <2>4 DEF BfState
  <2>6. \A p \in Position : NoMore(bf, bf', p, deals[p])
    BY <2>5 DEF NoMore, Owes
  <2>7. PhaseSound(bf')
    BY <1>1, <2>5 DEF PhaseSound, Asked
  <2> QED
    BY <1>1, <1>2, <2>1, <2>3, <2>5, <2>6, <2>7, LinkStep
<1> QED
  BY <1>3, <1>4, <1>5, <1>6, <1>7, <1>8

LEMMA IdleFacts == IdleBf \in BfState /\ PhaseSound(IdleBf) /\ Nothing \in Decision
<1>1. Nothing \in Decision
  BY DEF Nothing, Decision
<1>2. [p \in Position |-> 0] \in [Position -> 0..MaxDeals]
      /\ [p \in Position |-> Nothing] \in [Position -> Decision] /\ 0 \in 0..MaxNow
  BY <1>1, TradesAssumptions
<1>3. IdleBf \in BfState
  BY <1>2 DEF IdleBf, BfState
<1>4. PhaseSound(IdleBf)
  BY DEF PhaseSound, Asked, IdleBf
<1> QED
  BY <1>1, <1>3, <1>4

LEMMA RestartStep ==
    ASSUME IInv, Restart
    PROVE  IInv'
<1>1. Typed /\ Sounds
  BY Parts
<1>2. /\ UNCHANGED <<now, deals, row, faults>> /\ bf' = IdleBf
      /\ up' = FALSE /\ naming' = FALSE /\ late' = 0 /\ drops < MaxDrops /\ drops' = drops + 1
      /\ wire' = [p \in Position |-> {}] /\ chain' = [p \in Position |-> <<>>]
  BY DEF Restart, broker
<1>3. drops' \in 0..MaxDrops /\ late' \in 0..MaxDrops /\ late' <= drops'
  BY <1>2, LinkFacts
<1>4. wire' \in [Position -> SUBSET Deals] /\ chain' \in [Position -> Seq(Write)]
  BY <1>2
<1>5. Typed'
  BY <1>1, <1>2, <1>3, <1>4, IdleFacts DEF Typed
<1>6. ASSUME NEW q \in Position
      PROVE  Sound(bf', q, deals'[q], wire'[q], row'[q], chain'[q])
  <2>1. deals[q] \in Seq(Deal) /\ Sound(bf, q, deals[q], wire[q], row[q], chain[q])
    BY PositionFacts
  <2>2. Sound(IdleBf, q, deals[q], {}, row[q], <<>>)
    BY <2>1, SoundIdle
  <2> QED
    BY <1>2, <2>2
<1>7. OneWrite'
  <2>1. \A q \in Position : Numbers(chain'[q]) = {}
    BY <1>2 DEF Numbers
  <2> QED
    BY <2>1 DEF OneWrite
<1> QED
  BY <1>2, <1>3, <1>5, <1>6, <1>7, Parts, IdleFacts DEF Sounds

\* The backfill changes to b, which is told nothing by the queues, rows and events.
LEMMA BackfillStep ==
    ASSUME IInv, UNCHANGED <<now, deals, up, naming, late, wire, row, chain, drops>>,
           faults' \in 0..MaxFaults, bf' \in BfState, bf.pc # "written", PhaseSound(bf'),
           \A p \in Position : Sound(bf', p, deals[p], wire[p], row[p], chain[p])
    PROVE  IInv'
<1>1. Typed /\ late <= drops /\ OneWrite
  BY Parts
<1>2. Typed'
  BY <1>1 DEF Typed
<1>3. OneWrite'
  BY <1>1 DEF OneWrite
<1> QED
  BY <1>1, <1>2, <1>3, Parts DEF Sounds

LEMMA FaultyFacts ==
    ASSUME IInv, Faulty \/ UNCHANGED faults
    PROVE  faults' \in 0..MaxFaults
BY LinkFacts DEF Faulty

LEMMA WatermarkStep ==
    ASSUME IInv, ReadsWatermark
    PROVE  IInv'
<1> DEFINE X == {row[p].exit : p \in {q \in Position : row[q].st = "closed"}}
           from == WindowFrom(X)
           to == [p \in Position |-> Len(deals[p])]
<1>1. Typed /\ bf \in BfState /\ PhaseSound(bf) /\ now \in 0..MaxNow
  BY Parts, LinkFacts
<1>2. /\ bf.pc = "watermark" /\ bf' = [bf EXCEPT !.pc = "reconcile", !.from = from, !.to = to]
      /\ UNCHANGED <<now, deals, up, naming, late, wire, row, chain, drops, faults>>
  BY DEF ReadsWatermark, broker, link, bounds
<1>3. from \in 0..MaxNow
  <2> DEFINE S == {Before(now, Lookback)} \cup {Before(t, Buffer) : t \in X}
  <2>1. \A t \in 0..MaxNow, n \in Nat : Before(t, n) \in 0..MaxNow
    BY TradesAssumptions DEF Before
  <2>2. \A t \in X : t \in 0..MaxNow
    <3>1. \A p \in Position : row[p].exit \in 0..MaxNow
      BY PositionFacts DEF RowState
    <3> QED
      BY <3>1
  <2> HIDE DEF X
  <2>3. S \in SUBSET (0..MaxNow) /\ S # {}
    BY <1>1, <2>1, <2>2, TradesAssumptions
  <2> HIDE DEF S
  <2>4. Max(S) \in 0..MaxNow
    BY <2>3, MaxOfTimes
  <2> QED
    BY <2>4 DEF WindowFrom, S
<1>4. to \in [Position -> 0..MaxDeals] /\ \A p \in Position : to[p] <= Len(deals[p])
  <2>1. \A p \in Position : Len(deals[p]) \in 0..MaxDeals /\ Len(deals[p]) <= Len(deals[p])
    <3>1. \A p \in Position : Len(deals[p]) \in Nat /\ Len(deals[p]) <= MaxDeals
      BY PositionFacts, LenProperties
    <3> QED
      BY <3>1, TradesAssumptions
  <2> QED
    BY <2>1
<1> HIDE DEF from, to
<1>5. /\ bf' \in BfState /\ bf'.pc = "reconcile" /\ bf'.to = to /\ bf'.openOk = bf.openOk
      /\ bf'.plan = bf.plan
  BY <1>1, <1>2, <1>3, <1>4 DEF BfState
<1>6. ~bf.openOk
  BY <1>1, <1>2 DEF PhaseSound, Asked
<1>7. ASSUME NEW p \in Position
      PROVE  Sound(bf', p, deals[p], wire[p], row[p], chain[p])
  BY <1>4, <1>5, <1>6, PositionFacts DEF Sound, Knows, Owes
<1>8. PhaseSound(bf')
  BY <1>5, <1>6 DEF PhaseSound, Asked
<1>9. faults' \in 0..MaxFaults
  BY <1>2, FaultyFacts
<1> QED
  BY <1>2, <1>5, <1>7, <1>8, <1>9, BackfillStep

LEMMA IdleStep ==
    ASSUME IInv, WatermarkFails \/ BackfillEnds
    PROVE  IInv'
<1>1. /\ bf.pc # "written" /\ bf' = IdleBf
      /\ UNCHANGED <<now, deals, up, naming, late, wire, row, chain, drops>>
      /\ Faulty \/ UNCHANGED faults
  BY DEF WatermarkFails, BackfillEnds, broker, link, bounds
<1>2. faults' \in 0..MaxFaults
  BY <1>1, FaultyFacts
<1>3. ASSUME NEW p \in Position
      PROVE  Sound(bf', p, deals[p], wire[p], row[p], chain[p])
  BY <1>1, PositionFacts, SoundIdle
<1> QED
  BY <1>1, <1>2, <1>3, IdleFacts, BackfillStep

LEMMA ReconcileStep ==
    ASSUME IInv, ReconcileAnswers
    PROVE  IInv'
<1> DEFINE open == {p \in Position : IsOpen(p)}
<1>1. bf \in BfState /\ PhaseSound(bf)
  BY LinkFacts
<1>2. /\ bf.pc = "reconcile" /\ bf' = [bf EXCEPT !.pc = "list", !.openOk = TRUE, !.open = open]
      /\ UNCHANGED <<now, deals, up, naming, late, wire, row, chain, drops, faults>>
  BY DEF ReconcileAnswers, broker, link, bounds
<1>3. /\ bf' \in BfState /\ bf'.pc = "list" /\ bf'.to = bf.to /\ bf'.openOk /\ bf'.open = open
      /\ bf'.plan = bf.plan /\ bf'.openOk = TRUE
  BY <1>1, <1>2 DEF BfState
<1>4. ASSUME NEW p \in Position
      PROVE  Sound(bf', p, deals[p], wire[p], row[p], chain[p])
  <2> DEFINE d == deals[p]
             n == Len(d)
  <2>1. d \in Seq(Deal) /\ Sound(bf, p, d, wire[p], row[p], chain[p])
    BY PositionFacts
  <2>2. n \in Nat /\ (n = 0 <=> d = <<>>)
    BY <2>1, LenProperties, EmptySeq
  <2>3. n # 0 => (p \in open <=> ~Over(d))
    BY <2>2 DEF IsOpen, OpenAfter, Left, Over, OverAt
  <2>4. bf.to[p] \in 0..MaxDeals /\ bf.to[p] <= n
    BY <1>1, <2>1 DEF BfState, Sound, Knows
  <2>5. bf.to[p] > 0 => n # 0 /\ bf.to[p] \in Numbers(d)
    BY <2>2, <2>4, TradesAssumptions DEF Numbers
  <2>6. bf.to[p] > 0 /\ OverAt(d, bf.to[p]) => Over(d)
    BY <2>1, <2>5, OverIsLast DEF Sound
  <2>7. Knows(bf', p, d)
    BY <1>3, <2>3, <2>4, <2>5, <2>6 DEF Knows
  <2>8. ~Owes(bf', p, d)
    BY <1>3 DEF Owes
  <2> QED
    BY <1>3, <2>1, <2>7, <2>8 DEF Sound
<1>5. PhaseSound(bf')
  BY <1>3 DEF PhaseSound, Asked
<1>6. faults' \in 0..MaxFaults
  BY <1>2, FaultyFacts
<1> QED
  BY <1>2, <1>3, <1>4, <1>5, <1>6, BackfillStep

LEMMA ReconcileFailsStep ==
    ASSUME IInv, ReconcileFails
    PROVE  IInv'
<1>1. bf \in BfState /\ PhaseSound(bf)
  BY LinkFacts
<1>2. /\ bf.pc = "reconcile" /\ bf' = [bf EXCEPT !.pc = "list", !.clean = FALSE]
      /\ UNCHANGED <<now, deals, up, naming, late, wire, row, chain, drops>>
      /\ Faulty \/ UNCHANGED faults
  BY DEF ReconcileFails, RequestFails, broker, link
<1>3. /\ bf' \in BfState /\ bf'.pc = "list" /\ bf'.to = bf.to /\ bf'.openOk = bf.openOk
      /\ bf'.open = bf.open /\ bf'.plan = bf.plan /\ ~bf'.clean
  BY <1>1, <1>2 DEF BfState
<1>4. ASSUME NEW p \in Position
      PROVE  Sound(bf', p, deals[p], wire[p], row[p], chain[p])
  <2>1. NoMore(bf, bf', p, deals[p])
    BY <1>3 DEF NoMore, Owes
  <2> QED
    BY <2>1, PositionFacts, SoundNoMore
<1>5. PhaseSound(bf')
  BY <1>1, <1>2, <1>3 DEF PhaseSound, Asked
<1>6. faults' \in 0..MaxFaults
  BY <1>2, FaultyFacts
<1> QED
  BY <1>2, <1>3, <1>4, <1>5, <1>6, BackfillStep

LEMMA ListStep ==
    ASSUME IInv, ListAnswers
    PROVE  IInv'
<1> DEFINE plan == [p \in Position |-> Decided(p)]
<1>1. bf \in BfState /\ PhaseSound(bf)
  BY LinkFacts
<1>2. /\ bf.pc = "list" /\ bf' = [bf EXCEPT !.pc = "write", !.plan = plan]
      /\ UNCHANGED <<now, deals, up, naming, late, wire, row, chain, drops, faults>>
      /\ \A p \in Position : wire[p] = {}
  BY DEF ListAnswers, Answers, broker, link, bounds
<1>3. ASSUME NEW p \in Position
      PROVE  /\ Decided(p) \in Decision
             /\ PlanSound(p \in Increased, deals[p], {}, Decided(p))
             /\ bf.openOk /\ bf.to[p] > 0 /\ OverAt(deals[p], bf.to[p])
                /\ deals[p][bf.to[p]].at >= bf.from => Decided(p).kind = "set"
  BY PositionFacts, DecidedSound DEF Sound
<1>4. plan \in [Position -> Decision] /\ \A p \in Position : plan[p] = Decided(p)
  BY <1>3
<1> HIDE DEF plan
<1>5. /\ bf' \in BfState /\ bf'.pc = "write" /\ bf'.to = bf.to /\ bf'.openOk = bf.openOk
      /\ bf'.open = bf.open /\ bf'.plan = plan /\ bf'.clean = bf.clean /\ bf'.from = bf.from
  BY <1>1, <1>2, <1>4 DEF BfState
<1>6. ASSUME NEW p \in Position
      PROVE  Sound(bf', p, deals[p], wire[p], row[p], chain[p])
  <2>1. Sound(bf, p, deals[p], {}, row[p], chain[p]) /\ wire[p] = {}
    BY <1>2, PositionFacts
  <2>2. Knows(bf', p, deals[p])
    BY <1>5, <2>1 DEF Sound, Knows
  <2>3. Owes(bf', p, deals[p]) => plan[p].kind = "set"
    <3>1. bf.clean => bf.openOk
      BY <1>1, <1>2 DEF PhaseSound, Asked
    <3> QED
      BY <1>3, <1>4, <1>5, <3>1 DEF Owes
  <2> QED
    BY <1>3, <1>4, <1>5, <2>1, <2>2, <2>3 DEF Sound, Pays
<1>7. PhaseSound(bf')
  BY <1>1, <1>2, <1>5 DEF PhaseSound, Asked
<1>8. faults' \in 0..MaxFaults
  BY <1>2, FaultyFacts
<1> QED
  BY <1>2, <1>5, <1>6, <1>7, <1>8, BackfillStep

LEMMA ListFailsStep ==
    ASSUME IInv, ListFails
    PROVE  IInv'
<1> DEFINE plan == [p \in Position |-> IF p \in bf.open THEN Ensure ELSE Nothing]
<1>1. bf \in BfState /\ PhaseSound(bf)
  BY LinkFacts
<1>2. /\ bf.pc = "list" /\ bf' = [bf EXCEPT !.pc = "write", !.clean = FALSE, !.plan = plan]
      /\ UNCHANGED <<now, deals, up, naming, late, wire, row, chain, drops>>
      /\ Faulty \/ UNCHANGED faults
  BY DEF ListFails, RequestFails, broker, link
<1>3. plan \in [Position -> Decision] /\ \A p \in Position : plan[p].kind # "set"
  BY DEF Ensure, Nothing, Decision
<1> HIDE DEF plan
<1>4. /\ bf' \in BfState /\ bf'.pc = "write" /\ bf'.to = bf.to /\ bf'.openOk = bf.openOk
      /\ bf'.open = bf.open /\ bf'.plan = plan /\ ~bf'.clean
  BY <1>1, <1>2, <1>3 DEF BfState
<1>5. ASSUME NEW p \in Position
      PROVE  Sound(bf', p, deals[p], wire[p], row[p], chain[p])
  BY <1>3, <1>4, PositionFacts DEF Sound, PlanSound, Knows, Owes
<1>6. PhaseSound(bf')
  BY <1>1, <1>2, <1>4 DEF PhaseSound, Asked
<1>7. faults' \in 0..MaxFaults
  BY <1>2, FaultyFacts
<1> QED
  BY <1>2, <1>4, <1>5, <1>6, <1>7, BackfillStep

LEMMA WritesStep ==
    ASSUME IInv, NEW p \in Position, BackfillWrites(p)
    PROVE  IInv'
<1> DEFINE e == bf.plan[p]
           c == chain[p]
           plan == [bf.plan EXCEPT ![p] = Nothing]
<1>1. Typed /\ late <= drops /\ Sounds /\ OneWrite /\ PhaseSound(bf) /\ bf \in BfState
      /\ c \in Seq(Write)
  BY Parts, PositionFacts
<1>2. /\ bf.pc = "write" /\ e.kind # "none"
      /\ chain' = [chain EXCEPT ![p] = Append(c, e)]
      /\ bf' = [bf EXCEPT !.pc = "written", !.plan = plan]
      /\ UNCHANGED <<now, deals, up, naming, late, wire, row, drops, faults>>
  BY DEF BackfillWrites, Due, Enqueue, broker, link, bounds
<1>3. bf.plan \in [Position -> Decision] /\ e \in Decision
  BY <1>1 DEF BfState
<1>4. e \in Write /\ e.kind # "deal"
  BY <1>2, <1>3 DEF Decision, Write
<1>5. plan \in [Position -> Decision] /\ plan[p] = Nothing
      /\ \A q \in Position : q # p => plan[q] = bf.plan[q]
  BY <1>3, IdleFacts
<1> HIDE DEF plan, e
<1>6. /\ bf' \in BfState /\ bf'.pc = "written" /\ bf'.to = bf.to /\ bf'.openOk = bf.openOk
      /\ bf'.open = bf.open /\ bf'.plan = plan /\ bf'.clean = bf.clean /\ bf'.from = bf.from
  BY <1>1, <1>2, <1>5 DEF BfState
<1>7. /\ chain' \in [Position -> Seq(Write)] /\ chain'[p] = Append(c, e)
      /\ \A q \in Position : q # p => chain'[q] = chain[q]
  <2>1. chain \in [Position -> Seq(Write)] /\ Append(c, e) \in Seq(Write)
    BY <1>1, <1>4, AppendFacts DEF Typed
  <2> QED
    BY <1>2, <2>1
<1>8. Typed'
  BY <1>1, <1>2, <1>6, <1>7 DEF Typed
<1>9. \A q \in Position : Owes(bf', q, deals[q]) => Owes(bf, q, deals[q])
  BY <1>2, <1>6 DEF Owes
<1>10. ASSUME NEW q \in Position
       PROVE  Sound(bf', q, deals'[q], wire'[q], row'[q], chain'[q])
  <2> DEFINE b == bf
             b2 == bf'
             d == deals[q]
             w == wire[q]
             r == row[q]
             s == chain[q]
  <2>1. /\ d \in Seq(Deal) /\ w \in SUBSET Deals /\ r \in RowState /\ s \in Seq(Write)
        /\ b \in BfState /\ Sound(b, q, d, w, r, s)
    BY PositionFacts
  <2>2. CASE q = p
    <3>1. /\ e \in Write /\ e = b.plan[q] /\ e.kind # "deal"
          /\ b2.to = b.to /\ b2.openOk = b.openOk /\ b2.open = b.open
          /\ b2.plan[q] = Nothing /\ (Owes(b2, q, d) => Owes(b, q, d))
      BY <1>4, <1>5, <1>6, <1>9, <2>2 DEF e
    <3>2. Sound(b2, q, d, w, r, Append(s, e))
      <4> HIDE DEF b, b2, d, w, r, s
      <4> QED
        BY <2>1, <3>1, SoundQueued
    <3> QED
      BY <1>2, <1>7, <2>2, <3>2
  <2>3. CASE q # p
    <3>1. NoMore(bf, bf', q, deals[q])
      BY <1>5, <1>6, <1>9, <2>3 DEF NoMore
    <3>2. Sound(bf', q, deals[q], wire[q], row[q], chain[q])
      BY <2>1, <3>1, SoundNoMore
    <3> QED
      BY <1>2, <1>7, <2>3, <3>2
  <2> QED
    BY <2>2, <2>3
<1>11. \A q \in Position : \A i \in Numbers(chain'[q]) :
         chain'[q][i].kind # "deal" => q = p /\ i = Len(c) + 1
  <2>1. \A q \in Position : \A i \in Numbers(chain[q]) : chain[q][i].kind = "deal"
    BY <1>1, <1>2 DEF OneWrite
  <2>2. /\ \A i \in Numbers(c) : Append(c, e)[i] = c[i]
        /\ \A i \in Numbers(Append(c, e)) : i = Len(c) + 1 \/ i \in Numbers(c)
    <3> HIDE DEF c
    <3> QED
      BY <1>1, <1>4, AppendFacts DEF Numbers
  <2> QED
    <3> TAKE q \in Position
    <3> TAKE i \in Numbers(chain'[q])
    <3> HAVE chain'[q][i].kind # "deal"
    <3>1. CASE q = p
      <4>1. chain'[p] = Append(c, e) /\ i \in Numbers(Append(c, e))
        BY <1>7, <3>1
      <4>2. CASE i \in Numbers(c)
        BY <2>1, <2>2, <3>1, <4>1, <4>2
      <4> QED
        BY <2>2, <3>1, <4>1, <4>2
    <3>2. CASE q # p
      BY <1>7, <2>1, <3>2
    <3> QED
      BY <3>1, <3>2
<1>12. OneWrite'
  BY <1>6, <1>11 DEF OneWrite
<1>13. PhaseSound(bf')
  BY <1>1, <1>2, <1>6 DEF PhaseSound, Asked
<1> QED
  BY <1>1, <1>2, <1>8, <1>10, <1>12, <1>13, Parts DEF Sounds

-----------------------------------------------------------------------------
(* The theorems.                                                           *)

LEMMA InitInv == Init => IInv
<1> SUFFICES ASSUME Init PROVE IInv
  OBVIOUS
<1>1. NoRow \in RowState /\ \A k \in Deals : NoRow.counted[k] = 0
  <2>1. [k \in Deals |-> 0] \in [Deals -> Nat] /\ 0 \in 0..MaxNow
    BY TradesAssumptions
  <2> QED
    BY <2>1 DEF NoRow, RowState
<1>2. Typed
  <2>1. /\ deals \in [Position -> Seq(Deal)] /\ wire \in [Position -> SUBSET Deals]
        /\ row \in [Position -> RowState] /\ chain \in [Position -> Seq(Write)]
    BY <1>1 DEF Init
  <2>2. \A p \in Position : Len(deals[p]) <= MaxDeals
    BY TradesAssumptions DEF Init
  <2> QED
    <3>1. now \in 0..MaxNow /\ late \in 0..MaxDrops /\ drops \in 0..MaxDrops /\ faults \in 0..MaxFaults
      BY TradesAssumptions DEF Init
    <3>2. up \in BOOLEAN /\ naming \in BOOLEAN /\ bf \in BfState
      BY IdleFacts DEF Init
    <3> QED
      BY <2>1, <2>2, <3>1, <3>2 DEF Typed
<1>3. ASSUME NEW p \in Position
      PROVE  Sound(bf, p, deals[p], wire[p], row[p], chain[p])
  <2>1. deals[p] = <<>> /\ wire[p] = {} /\ row[p] = NoRow /\ chain[p] = <<>> /\ bf = IdleBf
    BY DEF Init
  <2>2. DealsSound(p \in Increased, <<>>)
    BY DEF DealsSound, Numbers
  <2>3. RowSound(p \in Increased, <<>>, NoRow)
    BY <1>1 DEF RowSound, NoRow
  <2>4. QueueSound(p \in Increased, <<>>, {}, NoRow, <<>>)
    BY DEF QueueSound, Numbers
  <2>5. PlanSound(p \in Increased, <<>>, {}, IdleBf.plan[p])
    BY DEF PlanSound, IdleBf, Nothing
  <2>6. Knows(IdleBf, p, <<>>) /\ ~Owes(IdleBf, p, <<>>)
    BY DEF Knows, Owes, IdleBf
  <2> QED
    BY <2>1, <2>2, <2>3, <2>4, <2>5, <2>6 DEF Sound
<1>4. OneWrite
  <2>1. \A q \in Position : Numbers(chain[q]) = {}
    BY DEF Init, Numbers
  <2> QED
    BY <2>1 DEF OneWrite
<1>5. late <= drops /\ PhaseSound(bf)
  BY IdleFacts DEF Init
<1> QED
  BY <1>2, <1>3, <1>4, <1>5, Parts DEF Sounds

LEMMA StepInv == IInv /\ [Next]_vars => IInv'
<1> SUFFICES ASSUME IInv, [Next]_vars PROVE IInv'
  OBVIOUS
<1>1. CASE UNCHANGED vars
  <2>1. UNCHANGED <<now, deals, up, naming, late, wire, row, chain, bf, drops, faults>>
    BY <1>1 DEF vars, broker, link, bounds
  <2>2. Typed /\ late <= drops /\ Sounds /\ OneWrite /\ PhaseSound(bf)
    BY Parts
  <2>3. Typed' /\ OneWrite' /\ Sounds'
    BY <2>1, <2>2 DEF Typed, OneWrite, Sounds
  <2> QED
    BY <2>1, <2>2, <2>3, Parts
<1>2. CASE Next
  <2>1. CASE \E p \in Position : BrokerOpens(p) \/ BrokerCloses(p)
    BY <2>1, BrokerStep
  <2>2. CASE \E p \in Position : HandleExecution(p) \/ WriteLands(p) \/ WriteFails(p)
    BY <2>2, HandleStep, LandsStep, FailsStep
  <2>3. CASE Tick \/ Connects \/ AuthTimesOut \/ NamesDone \/ NamesTimeOut \/ ConnectionLost
    BY <2>3, ConnectionStep
  <2>4. CASE Restart
    BY <2>4, RestartStep
  <2>5. CASE WatermarkFails \/ BackfillEnds
    BY <2>5, IdleStep
  <2>6. CASE ReadsWatermark
    BY <2>6, WatermarkStep
  <2>7. CASE ReconcileAnswers \/ ReconcileFails
    BY <2>7, ReconcileStep, ReconcileFailsStep
  <2>8. CASE ListAnswers \/ ListFails
    BY <2>8, ListStep, ListFailsStep
  <2>9. CASE \E p \in Position : BackfillWrites(p)
    BY <2>9, WritesStep
  <2> QED
    BY <1>2, <2>1, <2>2, <2>3, <2>4, <2>5, <2>6, <2>7, <2>8, <2>9 DEF Next
<1> QED
  BY <1>1, <1>2

\* The inductive invariant holds in every state of every behaviour.
THEOREM Invariance == Spec => []IInv
BY InitInv, StepInv, PTL DEF Spec

\* Every variable keeps its type.
THEOREM TypeCorrect == Spec => []TypeOK
<1>1. IInv => TypeOK
  BY DEF IInv
<1> QED
  BY <1>1, Invariance, PTL

LEMMA CountsOnce == IInv => CountedOnce
<1> SUFFICES ASSUME IInv, NEW p \in Position
             PROVE  /\ \A k \in Deals : row[p].counted[k] <= 1
                    /\ row[p].st = "closed" /\ Cardinality(Outs(p, DOMAIN deals[p])) = 1
                         => \A k \in DOMAIN deals[p] :
                              row[p].counted[k] = IF deals[p][k].out THEN 1 ELSE 0
  BY DEF CountedOnce
<1> DEFINE d == deals[p]
           r == row[p]
<1>1. d \in Seq(Deal) /\ Len(d) <= MaxDeals /\ r \in RowState /\ RowSound(p \in Increased, d, r)
  BY PositionFacts DEF Sound
<1>2. DOMAIN d = Numbers(d) /\ Len(d) \in Nat
  BY <1>1, LenProperties DEF Numbers
<1>3. Numbers(d) \subseteq Deals
  BY <1>1, <1>2, TradesAssumptions DEF Numbers, Deals
<1>4. \A k \in Deals : r.counted[k] \in Nat
  BY <1>1 DEF RowState
<1>5. \A k \in Deals : r.counted[k] <= 1
  BY <1>1, <1>4 DEF RowSound
<1>6. ASSUME r.st = "closed", Cardinality(Outs(p, DOMAIN d)) = 1, NEW k \in DOMAIN d
      PROVE  r.counted[k] = IF d[k].out THEN 1 ELSE 0
  <2>1. Outs(p, DOMAIN d) = OutsOf(d)
    BY <1>2 DEF Outs, OutsOf
  <2>2. IsFiniteSet(OutsOf(d))
    <3>1. IsFiniteSet(1 .. Len(d))
      BY <1>2, FS_Interval
    <3>2. OutsOf(d) \subseteq 1 .. Len(d)
      BY DEF OutsOf, Numbers
    <3> QED
      BY <3>1, <3>2, FS_Subset
  <2>3. PICK n : OutsOf(d) = {n}
    BY <1>6, <2>1, <2>2, FS_Singleton
  <2>4. r.counted[n] = 1
    BY <1>1, <1>6, <2>3 DEF RowSound
  <2>5. k \in Deals /\ (d[k].out <=> k \in OutsOf(d))
    BY <1>2, <1>3, <1>6 DEF OutsOf
  <2>6. k \notin OutsOf(d) => r.counted[k] = 0
    BY <1>1, <2>5 DEF RowSound
  <2> QED
    BY <2>3, <2>4, <2>5, <2>6
<1> QED
  BY <1>5, <1>6

\* Live events add and every backfill sets, in any order and with any failures: a deal
\* is counted at most once, and a position closed by one deal has exactly that deal.
THEOREM NothingTwice == Spec => []CountedOnce
BY CountsOnce, Invariance, PTL

\* A row is closed only when its position is over, unless the position may get a second
\* opening deal.
PlainIsOver == \A p \in Position \ Increased : row[p].st = "closed" => IsOver(p)

LEMMA PlainOver == IInv => PlainIsOver
<1> SUFFICES ASSUME IInv, NEW p \in Position, p \notin Increased, row[p].st = "closed"
             PROVE  IsOver(p)
  BY DEF PlainIsOver
<1>1. deals[p] \in Seq(Deal) /\ Over(deals[p])
  BY PositionFacts DEF Sound, RowSound
<1>2. Len(deals[p]) # 0
  BY <1>1, EmptySeq DEF Over
<1> QED
  BY <1>1, <1>2 DEF IsOver, IsOpen, OpenAfter, Left, Over, OverAt

\* writeBackfill and applyClose close the row of a position with one opening deal only
\* when the broker holds nothing of it, also when other positions are increased.
THEOREM PlainClosedIsOver == Spec => []PlainIsOver
BY PlainOver, Invariance, PTL

\* No path closes a row while the broker holds the position open: positions that are
\* opened by one deal, the case in which the first opening deal is the whole volume.
THEOREM NeverClosedEarly ==
    ASSUME Increased = {}
    PROVE  Spec => []ClosedIsOver
<1>1. PlainIsOver => ClosedIsOver
  BY DEF PlainIsOver, ClosedIsOver
<1> QED
  BY <1>1, PlainClosedIsOver, PTL

LEMMA EndsPaid ==
    ASSUME IInv, [Next]_vars, NEW p \in Position,
           bf.pc = "write", bf'.pc = "idle", Due = {}, bf.clean,
           bf.to[p] > 0, ~OpenAfter(p, bf.to[p]), bf.to[p] \in Window(p)
    PROVE  row[p].st = "closed"
<1>1. Sound(bf, p, deals[p], wire[p], row[p], chain[p]) /\ OneWrite
  BY PositionFacts, Parts
<1>2. Owes(bf, p, deals[p])
  BY DEF Owes, OpenAfter, Left, OverAt, Window
<1>3. Pays(bf.plan[p], wire[p], row[p], chain[p])
  BY <1>1, <1>2 DEF Sound
<1>4. bf.plan[p].kind = "none"
  BY DEF Due
<1>5. \A i \in Numbers(chain[p]) : chain[p][i].kind = "deal"
  BY <1>1 DEF OneWrite
<1> QED
  BY <1>3, <1>4, <1>5 DEF Pays

\* A backfill in which nothing failed has closed the row of every position whose last
\* deal is in its window, whatever events, writes and losses came in between.
THEOREM CatchesUp == Spec => BackfillCatchesUp
<1>1. IInv /\ [Next]_vars =>
        [\A p \in Position :
           (/\ bf.pc = "write" /\ bf'.pc = "idle" /\ Due = {} /\ bf.clean
            /\ bf.to[p] > 0 /\ ~OpenAfter(p, bf.to[p]) /\ bf.to[p] \in Window(p))
             => row[p].st = "closed"]_vars
  BY EndsPaid
<1> QED
  BY <1>1, Invariance, PTL DEF Spec, BackfillCatchesUp
=============================================================================
