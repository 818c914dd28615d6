-------------------------- MODULE TradeWriter_proofs --------------------------
(***************************************************************************)
(* Proofs about TradeWriter, for every set of positions and every bound on *)
(* the writes: the chain of promises runs the writes of a position one by  *)
(* one in the order issued, and so the writer implements TradeRows.        *)
(***************************************************************************)
EXTENDS TradeWriter, FiniteSetTheorems, SequenceTheorems, WellFoundedInduction, TLAPS

-----------------------------------------------------------------------------
(* Finite sets of numbers and their sequences.                             *)

HasMax(S) == \E x \in S : \A y \in S : y <= x

LEMMA FiniteHasMax ==
    ASSUME NEW S \in SUBSET Nat, IsFiniteSet(S), S # {}
    PROVE  HasMax(S)
<1> DEFINE R == StrictSubsetOrdering(S)
           Bad == {T \in SUBSET S : T # {} /\ ~HasMax(T)}
<1>1. FiniteSubsetsOf(S) = SUBSET S
  BY FS_FiniteSubsetsOfFinite
<1>2. IsWellFoundedOn(R, SUBSET S)
  BY <1>1, FS_StrictSubsetOrderingWellFounded
<1>3. SUFFICES ASSUME Bad # {} PROVE FALSE
  BY <1>3
<1>4. PICK T \in Bad : \A U \in Bad : <<U, T>> \notin R
  <2>1. Bad \subseteq SUBSET S
    OBVIOUS
  <2> HIDE DEF Bad, R
  <2> QED
    BY <1>2, <1>3, <2>1, WFMin
<1>5. PICK x \in T : TRUE
  OBVIOUS
<1>6. T \ {x} \notin Bad
  <2>1. <<T \ {x}, T>> \in (SUBSET S) \X (SUBSET S)
    OBVIOUS
  <2>2. <<T \ {x}, T>> \in R
    BY <1>5, <2>1 DEF StrictSubsetOrdering
  <2> QED
    BY <1>4, <2>2
<1>7. CASE T = {x}
  BY <1>4, <1>7 DEF HasMax
<1>8. CASE T # {x}
  <2>1. HasMax(T \ {x})
    BY <1>5, <1>6, <1>8
  <2>2. PICK m \in T \ {x} : \A y \in T \ {x} : y <= m
    BY <2>1 DEF HasMax
  <2>3. m \in Nat /\ x \in Nat
    BY <1>5
  <2>4. CASE x <= m
    BY <1>4, <2>2, <2>4 DEF HasMax
  <2>5. CASE m <= x
    <3>1. \A y \in T : y \in Nat /\ (y = x \/ y <= m)
      BY <2>2
    <3>2. \A y \in T : y <= x
      BY <2>3, <2>5, <3>1
    <3> QED
      BY <1>4, <1>5, <3>2 DEF HasMax
  <2> QED
    BY <2>3, <2>4, <2>5
<1> QED
  BY <1>7, <1>8

\* A set of numbers that is not empty has a least one.
LEMMA HasLeast ==
    ASSUME NEW S \in SUBSET Nat, S # {}
    PROVE  \E x \in S : \A y \in S : x <= y
<1>1. PICK m \in S : TRUE
  OBVIOUS
<1> DEFINE T == {x \in 0 .. m : \A y \in S : x <= y}
<1>2. T \in SUBSET Nat /\ IsFiniteSet(T) /\ 0 \in T
  <2>1. T \subseteq 0 .. m /\ IsFiniteSet(0 .. m)
    BY <1>1, FS_Interval
  <2> QED
    BY <1>1, <2>1, FS_Subset
<1>3. PICK x \in T : \A y \in T : y <= x
  BY <1>2, FiniteHasMax DEF HasMax
<1>4. x \in S
  <2>1. SUFFICES ASSUME x \notin S PROVE x + 1 \in T
    BY <1>1, <1>2, <1>3, <2>1
  <2>2. \A y \in S : y \in Nat /\ x <= y /\ x # y
    BY <1>3, <2>1
  <2> QED
    BY <1>1, <1>3, <2>2
<1> QED
  BY <1>3, <1>4

\* s lists S, least first.
Lists(s, S) ==
    /\ s \in [1..Cardinality(S) -> S]
    /\ S = {s[i] : i \in DOMAIN s}
    /\ \A i, j \in DOMAIN s : i < j => s[i] < s[j]

LEMMA ListOne ==
    ASSUME NEW S \in SUBSET Nat, IsFiniteSet(S), NEW s, NEW t, Lists(s, S), Lists(t, S)
    PROVE  s = t
<1>0. Cardinality(S) \in Nat
  BY FS_CardinalityType
<1> DEFINE D == 1 .. Cardinality(S)
           Differ == {i \in D : s[i] # t[i]}
<1>1. /\ s \in [D -> S] /\ t \in [D -> S]
      /\ \A n \in S : (\E i \in D : s[i] = n) /\ (\E i \in D : t[i] = n)
      /\ \A i, j \in D : i < j => s[i] < s[j] /\ t[i] < t[j]
  BY DEF Lists
<1>2. SUFFICES ASSUME Differ # {} PROVE FALSE
  <2>1. ASSUME Differ = {} PROVE s = t
    <3>1. \A i \in D : s[i] = t[i]
      BY <2>1
    <3>2. s = [i \in D |-> s[i]] /\ t = [i \in D |-> t[i]]
      BY <1>1
    <3> HIDE DEF D
    <3> QED
      BY <3>1, <3>2
  <2> QED
    BY <2>1
<1>3. Differ \in SUBSET Nat
  BY <1>0
<1>4. PICK i \in Differ : \A j \in Differ : i <= j
  BY <1>2, <1>3, HasLeast
<1>5. \A j \in D : j < i => s[j] = t[j]
  BY <1>0, <1>4
<1>6. i \in D /\ s[i] # t[i] /\ s[i] \in S /\ t[i] \in S
  BY <1>1, <1>4
<1>7. (\E j \in D : t[j] = s[i]) /\ (\E j \in D : s[j] = t[i])
  BY <1>1, <1>6
<1> HIDE DEF Differ
<1>8. \A j \in D : s[j] \in Nat /\ t[j] \in Nat
  BY <1>1
<1>9. CASE s[i] < t[i]
  <2>1. PICK j \in D : t[j] = s[i]
    BY <1>7
  <2>2. j \in Int /\ i \in Int /\ j # i
    BY <1>0, <1>6, <2>1
  <2>3. ~(j < i)
    BY <1>1, <1>5, <1>6, <1>8, <2>1
  <2>4. ~(i < j)
    BY <1>1, <1>6, <1>8, <1>9, <2>1
  <2> QED
    BY <2>2, <2>3, <2>4
<1>10. CASE t[i] < s[i]
  <2>1. PICK j \in D : s[j] = t[i]
    BY <1>7
  <2>2. j \in Int /\ i \in Int /\ j # i
    BY <1>0, <1>6, <2>1
  <2>3. ~(j < i)
    BY <1>1, <1>5, <1>6, <1>8, <2>1
  <2>4. ~(i < j)
    BY <1>1, <1>6, <1>8, <1>10, <2>1
  <2> QED
    BY <2>2, <2>3, <2>4
<1>11. s[i] \in Nat /\ t[i] \in Nat
  BY <1>6, <1>8
<1> QED
  BY <1>6, <1>9, <1>10, <1>11

\* A number above all of S goes to the end.
LEMMA ListMore ==
    ASSUME NEW S \in SUBSET Nat, IsFiniteSet(S), NEW s, Lists(s, S),
           NEW n \in Nat, \A m \in S : m < n
    PROVE  /\ Cardinality(S \cup {n}) = Cardinality(S) + 1
           /\ Lists([i \in 1 .. Cardinality(S) + 1 |->
                        IF i = Cardinality(S) + 1 THEN n ELSE s[i]], S \cup {n})
<1> DEFINE k == Cardinality(S)
           t == [i \in 1 .. k + 1 |-> IF i = k + 1 THEN n ELSE s[i]]
<1>1. k \in Nat /\ n \notin S
  BY FS_CardinalityType
<1>2. Cardinality(S \cup {n}) = k + 1
  BY <1>1, FS_AddElement
<1>3. s \in [1 .. k -> S] /\ (\A m \in S : \E i \in 1 .. k : s[i] = m)
      /\ (\A i, j \in 1 .. k : i < j => s[i] < s[j])
  BY DEF Lists
<1> HIDE DEF k
<1>4. \A i \in 1 .. k + 1 : i = k + 1 \/ i \in 1 .. k
  BY <1>1
<1>5. t \in [1 .. k + 1 -> S \cup {n}]
  BY <1>3, <1>4
<1>6. k + 1 \in 1 .. k + 1 /\ \A i \in 1 .. k : i \in 1 .. k + 1 /\ i # k + 1
  BY <1>1
<1>7. S \cup {n} = {t[i] : i \in DOMAIN t}
  BY <1>3, <1>4, <1>5, <1>6
<1>8. ASSUME NEW i \in 1 .. k + 1, NEW j \in 1 .. k + 1, i < j
      PROVE  t[i] < t[j]
  <2>1. i \in 1 .. k /\ t[i] = s[i] /\ s[i] \in S
    BY <1>1, <1>3, <1>8
  <2>2. CASE j = k + 1
    BY <1>1, <2>1, <2>2
  <2>3. CASE j # k + 1
    BY <1>3, <1>4, <1>8, <2>1, <2>3
  <2> QED
    BY <2>2, <2>3
<1> QED
  BY <1>2, <1>5, <1>7, <1>8 DEF Lists, k

\* Without its least number, S is listed by the rest.
LEMMA ListLess ==
    ASSUME NEW S \in SUBSET Nat, IsFiniteSet(S), NEW s, Lists(s, S),
           NEW n \in S, \A m \in S : n <= m
    PROVE  /\ Cardinality(S) \in Nat \ {0} /\ s[1] = n
           /\ Cardinality(S \ {n}) = Cardinality(S) - 1
           /\ Lists([i \in 1 .. Cardinality(S) - 1 |-> s[i + 1]], S \ {n})
<1> DEFINE k == Cardinality(S)
           t == [i \in 1 .. k - 1 |-> s[i + 1]]
<1>1. k \in Nat /\ Cardinality(S \ {n}) = k - 1
  BY FS_CardinalityType, FS_RemoveElement
<1>2. s \in [1 .. k -> S] /\ (\A m \in S : \E i \in 1 .. k : s[i] = m)
      /\ (\A i, j \in 1 .. k : i < j => s[i] < s[j])
  BY DEF Lists
<1> HIDE DEF k
<1>3. PICK i0 \in 1 .. k : s[i0] = n
  BY <1>2
<1>4. k # 0 /\ 1 \in 1 .. k /\ \A m \in S : m \in Nat
  BY <1>1, <1>3
<1>5. s[1] = n
  <2>1. s[1] \in S /\ n <= s[1]
    BY <1>2, <1>4
  <2>2. i0 = 1 \/ 1 < i0
    BY <1>1, <1>3
  <2> QED
    <3>1. 1 < i0 => s[1] < n
      BY <1>2, <1>3, <1>4
    <3>2. s[1] \in Nat /\ n \in Nat
      BY <1>4, <2>1
    <3> QED
      BY <1>3, <2>1, <2>2, <3>1, <3>2
<1>6. \A i \in 1 .. k : i = 1 \/ n < s[i]
  BY <1>1, <1>2, <1>4, <1>5
<1>7. \A i \in 1 .. k - 1 : i + 1 \in 1 .. k /\ i + 1 # 1
  BY <1>1
<1>8. t \in [1 .. k - 1 -> S \ {n}]
  BY <1>2, <1>4, <1>6, <1>7
<1>9. \A m \in S \ {n} : \E i \in 1 .. k - 1 : t[i] = m
  <2> SUFFICES ASSUME NEW m \in S \ {n} PROVE \E i \in 1 .. k - 1 : t[i] = m
    OBVIOUS
  <2>1. PICK j \in 1 .. k : s[j] = m
    BY <1>2
  <2>2. j - 1 \in 1 .. k - 1 /\ (j - 1) + 1 = j
    BY <1>1, <1>5, <2>1
  <2> QED
    BY <2>1, <2>2
<1>10. \A i, j \in 1 .. k - 1 : i < j => t[i] < t[j]
  BY <1>1, <1>2, <1>7
<1>11. S \ {n} = {t[i] : i \in DOMAIN t}
  BY <1>8, <1>9
<1>12. DOMAIN t = 1 .. k - 1
  OBVIOUS
<1>13. Lists(t, S \ {n})
  <2> HIDE DEF t
  <2> QED
    BY <1>1, <1>8, <1>10, <1>11, <1>12 DEF Lists
<1> QED
  BY <1>1, <1>4, <1>5, <1>13 DEF k

\* Every finite set of numbers is listed by InOrder.
LEMMA InOrderLists ==
    ASSUME NEW S \in SUBSET Nat, IsFiniteSet(S)
    PROVE  Lists(InOrder(S), S)
<1> DEFINE Listed(T) == \E s : Lists(s, T)
           R == StrictSubsetOrdering(S)
           Bad == {T \in SUBSET S : ~Listed(T)}
<1>1. FiniteSubsetsOf(S) = SUBSET S
  BY FS_FiniteSubsetsOfFinite
<1>2. IsWellFoundedOn(R, SUBSET S)
  BY <1>1, FS_StrictSubsetOrderingWellFounded
<1>3. Bad = {}
  <2>1. SUFFICES ASSUME Bad # {} PROVE FALSE
    OBVIOUS
  <2>2. PICK T \in Bad : \A U \in Bad : <<U, T>> \notin R
    <3>1. Bad \subseteq SUBSET S
      OBVIOUS
    <3> HIDE DEF Bad, R
    <3> QED
      BY <1>2, <2>1, <3>1, WFMin
  <2>3. T \in SUBSET S /\ T \in SUBSET Nat /\ IsFiniteSet(T) /\ ~Listed(T)
    BY <2>2, FS_Subset
  <2>4. T # {}
    <3>1. Lists([i \in 1 .. 0 |-> 0], {})
      BY FS_EmptySet DEF Lists
    <3> QED
      BY <2>3, <3>1
  <2>5. PICK n \in T : \A m \in T : m <= n
    BY <2>3, <2>4, FiniteHasMax DEF HasMax
  <2> DEFINE U == T \ {n}
  <2>6. U \in SUBSET S /\ U \in SUBSET Nat /\ IsFiniteSet(U) /\ T = U \cup {n}
    BY <2>3, FS_Subset
  <2>7. Listed(U)
    <3>1. <<U, T>> \in R
      BY <2>3, <2>5 DEF StrictSubsetOrdering
    <3> QED
      BY <2>2, <2>6, <3>1
  <2>8. PICK s : Lists(s, U)
    BY <2>7
  <2>9. n \in Nat /\ \A m \in U : m < n
    BY <2>3, <2>5
  <2> HIDE DEF U
  <2>10. \E t : Lists(t, U \cup {n})
    BY <2>6, <2>8, <2>9, ListMore
  <2> QED
    BY <2>3, <2>6, <2>10
<1>4. PICK s : Lists(s, S)
  BY <1>3
<1> QED
  BY <1>4 DEF InOrder, Lists

-----------------------------------------------------------------------------
(* The chain of promises.                                                  *)

Kinds == {"open", "close", "pnl"}
Stages == {"queued", "read", "ok", "err", "settled", "done"}

\* The chains map holds the newest write of a position while one of them is not
\* done, and a write waits, directly or through others, for all before it.
Chained ==
    /\ \A p \in Position : last[p] # 0 => op[last[p]].pos = p
    /\ \A n \in 1 .. issued :
        /\ last[op[n].pos] = 0 => op[n].stage = "done"
        /\ last[op[n].pos] # 0 => n <= last[op[n].pos]
    /\ \A n \in 1 .. issued :
        /\ op[n].after < n
        /\ op[n].after # 0 => op[op[n].after].pos = op[n].pos
    /\ \A m, n \in 1 .. issued :
        m < n /\ op[m].pos = op[n].pos /\ op[m].stage # "done" =>
            op[n].stage = "queued" /\ m <= op[n].after

\* A row that does not exist has no money figure (what its creation relies on).
Absent == \A p \in Position : row[p].st = "none" => row[p].pnl = "none"

\* The inductive invariant.
IInv == TypeOK /\ Chained /\ Absent

LEMMA WriteTyped ==
    ASSUME TypeOK, NEW n \in 1 .. issued
    PROVE  /\ issued \in Nat /\ n \in Nat /\ op[n] \in Write
           /\ op[n].pos \in Position /\ op[n].kind \in Kinds /\ op[n].stage \in Stages
           /\ op[n].risk \in Risk /\ op[n].after \in 0 .. MaxWrites /\ op[n].after \in Nat
BY WriterAssumptions DEF TypeOK, Write, Kinds, Stages

\* A write whose turn it is, or was, has only done ones before it.
LEMMA BeforeDone ==
    ASSUME IInv, NEW n \in 1 .. issued, Ready(n) \/ op[n].stage # "queued",
           NEW m \in 1 .. issued, m < n, op[m].pos = op[n].pos
    PROVE  op[m].stage = "done"
<1>1. SUFFICES ASSUME op[m].stage # "done" PROVE FALSE
  OBVIOUS
<1>2. op[n].stage = "queued" /\ m <= op[n].after
  BY <1>1 DEF IInv, Chained
<1>3. Ready(n) /\ m \in Nat /\ op[n].after \in Nat /\ op[n].after # 0
  BY <1>2, WriteTyped DEF IInv
<1> DEFINE a == op[n].after
<1>4. a \in 1 .. issued /\ op[a].stage = "done" /\ op[a].pos = op[n].pos /\ a < n
  BY <1>3 DEF Ready, IInv, Chained
<1>5. m # a
  BY <1>1, <1>4
<1>6. m < a /\ op[m].pos = op[a].pos
  BY <1>2, <1>3, <1>4, <1>5
<1>7. op[a].stage = "queued"
  BY <1>1, <1>4, <1>6 DEF IInv, Chained
<1> QED
  BY <1>4, <1>7

\* A step of write n changes its stage, and what it read.
Steps(n, stage) ==
    \E risk \in Risk :
        /\ op' = [op EXCEPT ![n] = [op[n] EXCEPT !.stage = stage, !.risk = risk]]
        /\ issued' = issued

LEMMA StepOp ==
    ASSUME TypeOK, NEW n \in 1 .. issued, NEW stage \in Stages, Steps(n, stage)
    PROVE  /\ op' \in [1 .. issued' -> Write]
           /\ op'[n].stage = stage
           /\ \A m \in 1 .. issued :
                /\ op'[m].pos = op[m].pos /\ op'[m].kind = op[m].kind
                /\ op'[m].after = op[m].after
                /\ m # n => op'[m] = op[m]
<1>1. PICK risk \in Risk :
        /\ op' = [op EXCEPT ![n] = [op[n] EXCEPT !.stage = stage, !.risk = risk]]
        /\ issued' = issued
  BY DEF Steps
<1>2. op \in [1 .. issued -> Write] /\ op[n] \in Write
  BY DEF TypeOK
<1> DEFINE w == [op[n] EXCEPT !.stage = stage, !.risk = risk]
<1>3. /\ w \in Write /\ w.stage = stage /\ w.pos = op[n].pos /\ w.kind = op[n].kind
      /\ w.after = op[n].after
  BY <1>2 DEF Write, Stages
<1>4. op' = [op EXCEPT ![n] = w]
  BY <1>1
<1> HIDE DEF w
<1> QED
  BY <1>1, <1>2, <1>3, <1>4

LEMMA ToStageSteps ==
    ASSUME TypeOK, NEW n \in 1 .. issued, NEW stage \in Stages, ToStage(n, stage),
           issued' = issued
    PROVE  Steps(n, stage)
<1>1. op \in [1 .. issued -> Write] /\ op[n] \in Write /\ op[n].risk \in Risk
  BY WriteTyped DEF TypeOK
<1>2. op' = [op EXCEPT ![n] = [op[n] EXCEPT !.stage = stage]]
  BY <1>1 DEF ToStage
<1>3. [op[n] EXCEPT !.stage = stage] = [op[n] EXCEPT !.stage = stage, !.risk = op[n].risk]
  BY <1>1 DEF Write
<1> QED
  BY <1>1, <1>2, <1>3 DEF Steps

\* A step that leaves the chains map keeps the order, unless the write is not done.
LEMMA StepChained ==
    ASSUME IInv, NEW n \in 1 .. issued, Ready(n) \/ op[n].stage \notin {"queued", "done"},
           NEW stage \in Stages \ {"queued"}, Steps(n, stage),
           \/ stage # "done" /\ UNCHANGED last
           \/ /\ stage = "done"
              /\ last' = [last EXCEPT ![op[n].pos] = AfterTail(op[n].pos, n)]
    PROVE  /\ Chained'
           /\ last' \in [Position -> 0 .. issued']
           /\ \A p \in Position : last'[p] # 0 => op'[last'[p]].stage # "done"
<1>0. TypeOK /\ Chained /\ issued \in Nat /\ issued' = issued
  BY WriteTyped DEF IInv, Steps
<1>1. /\ op'[n].stage = stage
      /\ \A m \in 1 .. issued :
            /\ op'[m].pos = op[m].pos /\ op'[m].after = op[m].after
            /\ m # n => op'[m] = op[m]
  BY <1>0, StepOp
<1>2. op[n].pos \in Position /\ \A m \in 1 .. issued : op[m].pos \in Position
  BY <1>0, WriteTyped
<1>3. \A m \in 1 .. issued : m < n /\ op[m].pos = op[n].pos => op[m].stage = "done"
  BY BeforeDone
<1>4. \A p \in Position :
        /\ last'[p] \in {0, last[p]}
        /\ last'[p] # last[p] => stage = "done" /\ p = op[n].pos /\ last[p] = n
        /\ stage = "done" => last'[p] # n
  <2>1. last \in [Position -> 0 .. issued] /\ n \in 1 .. issued
    BY <1>0 DEF TypeOK
  <2>2. CASE stage # "done"
    BY <2>1, <2>2
  <2>3. CASE stage = "done"
    <3>1. last' = [last EXCEPT ![op[n].pos] = AfterTail(op[n].pos, n)]
      BY <2>3
    <3>2. AfterTail(op[n].pos, n) \in {0, last[op[n].pos]}
          /\ (AfterTail(op[n].pos, n) # last[op[n].pos] => last[op[n].pos] = n)
          /\ AfterTail(op[n].pos, n) # n
      BY <1>0 DEF AfterTail
    <3>3. \A p \in Position : p # op[n].pos => last[p] # n
      BY <1>0 DEF Chained
    <3> QED
      BY <1>2, <2>1, <2>3, <3>1, <3>2, <3>3
  <2> QED
    BY <2>2, <2>3
<1>5. last' \in [Position -> 0 .. issued']
  <2>1. last \in [Position -> 0 .. issued]
    BY <1>0 DEF TypeOK
  <2>2. CASE stage # "done"
    BY <1>0, <2>1, <2>2
  <2>3. CASE stage = "done"
    <3>1. last[op[n].pos] \in 0 .. issued
      BY <1>2, <2>1
    <3>2. AfterTail(op[n].pos, n) \in 0 .. issued
      BY <1>0, <3>1 DEF AfterTail
    <3>3. last' = [last EXCEPT ![op[n].pos] = AfterTail(op[n].pos, n)]
      BY <2>3
    <3> QED
      BY <1>0, <1>2, <2>1, <3>2, <3>3
  <2> QED
    BY <2>2, <2>3
<1>6. \A p \in Position : last'[p] # 0 => last'[p] \in 1 .. issued /\ last'[p] = last[p]
  BY <1>0, <1>4 DEF TypeOK
<1>7. \A p \in Position : last'[p] # 0 => op'[last'[p]].stage # "done" /\ op'[last'[p]].pos = p
  BY <1>0, <1>1, <1>4, <1>6 DEF TypeOK, Chained
<1>8. ASSUME NEW m \in 1 .. issued
      PROVE  /\ last'[op'[m].pos] = 0 => op'[m].stage = "done"
             /\ last'[op'[m].pos] # 0 => m <= last'[op'[m].pos]
  <2>1. op'[m].pos = op[m].pos /\ op[m].pos \in Position
    BY <1>1, <1>2
  <2>2. CASE last'[op[m].pos] = last[op[m].pos]
    <3>1. m = n => last[op[m].pos] # 0
      <4>1. op[n].stage # "done"
        BY DEF Ready
      <4> QED
        BY <1>0, <4>1 DEF Chained
    <3> QED
      BY <1>0, <1>1, <2>1, <2>2, <3>1 DEF Chained
  <2>3. CASE last'[op[m].pos] # last[op[m].pos]
    <3>1. stage = "done" /\ op[m].pos = op[n].pos /\ last[op[m].pos] = n /\ last'[op[m].pos] = 0
      BY <1>4, <2>1, <2>3
    <3>2. m <= n /\ m \in Nat /\ n \in Nat
      BY <1>0, <2>1, <3>1 DEF Chained
    <3>3. op'[m].stage = "done"
      BY <1>1, <1>3, <3>1, <3>2
    <3> QED
      BY <2>1, <3>1, <3>3
  <2> QED
    BY <2>2, <2>3
<1>9. ASSUME NEW m \in 1 .. issued
      PROVE  /\ op'[m].after < m
             /\ op'[m].after # 0 => op'[op'[m].after].pos = op'[m].pos
  <2>1. op'[m].after = op[m].after /\ op[m].after \in Nat /\ op[m].after < m
    BY <1>0, <1>1, WriteTyped DEF Chained
  <2>2. op[m].after # 0 => op[m].after \in 1 .. issued
    BY <1>0, <2>1
  <2> QED
    BY <1>0, <1>1, <2>1, <2>2 DEF Chained
<1>10. ASSUME NEW l \in 1 .. issued, NEW m \in 1 .. issued,
              l < m, op'[l].pos = op'[m].pos, op'[l].stage # "done"
       PROVE  op'[m].stage = "queued" /\ l <= op'[m].after
  <2>1. op[l].pos = op[m].pos /\ op'[m].after = op[m].after
    BY <1>1, <1>10
  <2>2. op[l].stage # "done"
    <3>1. op[n].stage # "done"
      BY DEF Ready
    <3> QED
      BY <1>1, <1>10, <3>1
  <2>3. m # n
    BY <1>3, <1>10, <2>1, <2>2
  <2> QED
    BY <1>0, <1>1, <1>10, <2>1, <2>2, <2>3 DEF Chained
<1>11. Chained'
  BY <1>0, <1>7, <1>8, <1>9, <1>10 DEF Chained
<1> QED
  BY <1>5, <1>7, <1>11

-----------------------------------------------------------------------------
(* Every step keeps the invariant.                                         *)

LEMMA IssueOp ==
    ASSUME TypeOK, NEW p \in Position, NEW kind \in Kinds, Issue(p, kind)
    PROVE  /\ issued \in Nat /\ issued' = issued + 1 /\ issued' \in 0 .. MaxWrites
           /\ op' \in [1 .. issued' -> Write]
           /\ \A m \in 1 .. issued : op'[m] = op[m]
           /\ op'[issued'] = [pos |-> p, kind |-> kind, after |-> last[p],
                              stage |-> "queued", risk |-> "none"]
<1>1. issued \in Nat /\ MaxWrites \in Nat /\ issued' = issued + 1 /\ issued < MaxWrites
  BY WriterAssumptions DEF TypeOK, Issue
<1> DEFINE w == [pos |-> p, kind |-> kind, after |-> last[p],
                 stage |-> "queued", risk |-> "none"]
<1>2. last[p] \in 0 .. MaxWrites
  <2>1. last[p] \in 0 .. issued
    BY DEF TypeOK
  <2> QED
    BY <1>1, <2>1
<1>3. w \in Write
  BY <1>2 DEF Write, Kinds, Risk
<1>4. op \in Seq(Write) /\ Len(op) = issued /\ op' = Append(op, w)
  <2>1. op \in [1 .. issued -> Write]
    BY DEF TypeOK
  <2> QED
    BY <1>1, <2>1 DEF Issue, Predecessor
<1> HIDE DEF w
<1>5. op' \in Seq(Write) /\ Len(op') = issued + 1 /\ op'[issued + 1] = w
      /\ \A m \in 1 .. issued : op'[m] = op[m]
  BY <1>1, <1>3, <1>4, AppendProperties
<1>6. op' \in [1 .. issued' -> Write]
  BY <1>1, <1>5, LenProperties
<1> QED
  BY <1>1, <1>5, <1>6 DEF w

LEMMA IssueInv ==
    ASSUME IInv, NEW p \in Position, NEW kind \in Kinds, Issue(p, kind)
    PROVE  IInv'
<1> DEFINE k == issued + 1
<1>0. TypeOK /\ Chained /\ last \in [Position -> 0 .. issued] /\ UNCHANGED row
      /\ last' = [last EXCEPT ![p] = k]
  BY DEF IInv, TypeOK, Issue
<1>1. /\ issued \in Nat /\ issued' = k /\ issued' \in 0 .. MaxWrites
      /\ op' \in [1 .. issued' -> Write]
      /\ \A m \in 1 .. issued : op'[m] = op[m]
      /\ op'[k].pos = p /\ op'[k].after = last[p] /\ op'[k].stage = "queued"
  <2>1. /\ issued \in Nat /\ issued' = k /\ issued' \in 0 .. MaxWrites
        /\ op' \in [1 .. issued' -> Write]
        /\ \A m \in 1 .. issued : op'[m] = op[m]
        /\ op'[issued'] = [pos |-> p, kind |-> kind, after |-> last[p],
                           stage |-> "queued", risk |-> "none"]
    BY <1>0, IssueOp
  <2>2. op'[k] = [pos |-> p, kind |-> kind, after |-> last[p],
                  stage |-> "queued", risk |-> "none"]
    BY <2>1
  <2> HIDE DEF k
  <2> QED
    BY <2>1, <2>2
<1>2. k \in Nat /\ k # 0 /\ \A m \in 1 .. k : m = k \/ m \in 1 .. issued
  BY <1>1
<1>3. last' \in [Position -> 0 .. k] /\ last'[p] = k
      /\ \A q \in Position : q # p => last'[q] = last[q] /\ last[q] \in 0 .. issued
  BY <1>0, <1>1
<1>4. \A m \in 1 .. issued : op[m].pos \in Position
  BY <1>0, WriteTyped
<1> HIDE DEF k
<1>5. ASSUME NEW q \in Position, last'[q] # 0
      PROVE  op'[last'[q]].stage # "done" /\ op'[last'[q]].pos = q
  <2>1. CASE q = p
    BY <1>1, <1>3, <2>1
  <2>2. CASE q # p
    <3>1. last'[q] = last[q] /\ last[q] \in 1 .. issued
      BY <1>1, <1>3, <1>5, <2>2
    <3> QED
      BY <1>0, <1>1, <1>5, <3>1 DEF TypeOK, Chained
  <2> QED
    BY <2>1, <2>2
<1>6. TypeOK'
  <2>1. row' \in [Position -> FullRow]
    BY <1>0 DEF TypeOK
  <2> QED
    BY <1>1, <1>3, <1>5, <2>1 DEF TypeOK
<1>7. ASSUME NEW m \in 1 .. issued'
      PROVE  /\ last'[op'[m].pos] = 0 => op'[m].stage = "done"
             /\ last'[op'[m].pos] # 0 => m <= last'[op'[m].pos]
  <2>1. CASE m = k
    BY <1>1, <1>2, <1>3, <2>1
  <2>2. CASE m \in 1 .. issued
    <3>1. op'[m] = op[m] /\ op[m].pos \in Position
      BY <1>1, <1>4, <2>2
    <3>2. CASE op[m].pos = p
      BY <1>1, <1>2, <1>3, <2>2, <3>1, <3>2 DEF k
    <3>3. CASE op[m].pos # p
      BY <1>0, <1>3, <2>2, <3>1, <3>3 DEF Chained
    <3> QED
      BY <3>2, <3>3
  <2> QED
    BY <1>1, <1>2, <2>1, <2>2
<1>8. ASSUME NEW m \in 1 .. issued'
      PROVE  /\ op'[m].after < m
             /\ op'[m].after # 0 => op'[op'[m].after].pos = op'[m].pos
  <2>1. CASE m = k
    <3>1. last[p] \in 0 .. issued /\ last[p] < k
      BY <1>0, <1>1 DEF k
    <3>2. last[p] # 0 => last[p] \in 1 .. issued /\ op[last[p]].pos = p
      BY <1>0, <1>1, <3>1 DEF Chained
    <3> QED
      BY <1>1, <2>1, <3>1, <3>2
  <2>2. CASE m \in 1 .. issued
    <3>1. op'[m] = op[m] /\ op[m].after \in Nat /\ op[m].after < m
      BY <1>0, <1>1, <2>2, WriteTyped DEF Chained
    <3>2. op[m].after # 0 => op[m].after \in 1 .. issued
      BY <1>1, <2>2, <3>1
    <3> QED
      BY <1>0, <1>1, <2>2, <3>1, <3>2 DEF Chained
  <2> QED
    BY <1>1, <1>2, <2>1, <2>2
<1>9. ASSUME NEW l \in 1 .. issued', NEW m \in 1 .. issued',
             l < m, op'[l].pos = op'[m].pos, op'[l].stage # "done"
      PROVE  op'[m].stage = "queued" /\ l <= op'[m].after
  <2>1. l \in 1 .. issued
    BY <1>1, <1>9 DEF k
  <2>2. CASE m = k
    <3>1. op[l].pos = p /\ op[l].stage # "done"
      BY <1>1, <1>9, <2>1, <2>2
    <3>2. last[p] # 0 /\ l <= last[p]
      BY <1>0, <2>1, <3>1 DEF Chained
    <3> QED
      BY <1>1, <2>2, <3>2
  <2>3. CASE m \in 1 .. issued
    BY <1>0, <1>1, <1>9, <2>1, <2>3 DEF Chained
  <2> QED
    BY <1>1, <1>2, <2>2, <2>3
<1>10. Chained'
  BY <1>5, <1>7, <1>8, <1>9 DEF Chained
<1>11. Absent'
  BY <1>0 DEF Absent, IInv
<1> QED
  BY <1>6, <1>10, <1>11 DEF IInv

\* A step of a write that keeps the rows typed keeps the invariant.
LEMMA StepInv ==
    ASSUME IInv, NEW n \in 1 .. issued, Ready(n) \/ op[n].stage \notin {"queued", "done"},
           NEW stage \in Stages \ {"queued"}, Steps(n, stage),
           \/ stage # "done" /\ UNCHANGED last
           \/ /\ stage = "done"
              /\ last' = [last EXCEPT ![op[n].pos] = AfterTail(op[n].pos, n)],
           row' \in [Position -> FullRow], Absent'
    PROVE  IInv'
<1>1. TypeOK /\ issued' = issued /\ issued \in 0 .. MaxWrites
  BY DEF IInv, TypeOK, Steps
<1>2. /\ Chained'
      /\ last' \in [Position -> 0 .. issued']
      /\ \A p \in Position : last'[p] # 0 => op'[last'[p]].stage # "done"
  BY StepChained
<1>3. op' \in [1 .. issued' -> Write]
  <2>1. stage \in Stages
    OBVIOUS
  <2> QED
    BY <1>1, <2>1, StepOp
<1> QED
  BY <1>1, <1>2, <1>3 DEF IInv, TypeOK

\* The columns of a row the abstract writer keeps.
Brief(r) == [st |-> r.st, qty |-> r.qty, pnl |-> r.pnl]

\* Write n is the one that runs at its position.
Active(n) == Ready(n) \/ op[n].stage \in {"read", "ok", "err"}

\* A step of write n that carries the write out, as the abstract writer does it.
Lands(n) ==
    /\ Active(n) /\ op[n].stage \in {"queued", "read"}
    /\ \E stage \in {"ok", "err"} : Steps(n, stage)
    /\ UNCHANGED last
    /\ \E r \in FullRow :
        /\ row' = [row EXCEPT ![op[n].pos] = r]
        /\ Brief(r) = Rows!Apply(op[n].kind, Brief(row[op[n].pos]))

LEMMA RowTyped ==
    ASSUME IInv, NEW p \in Position
    PROVE  /\ row \in [Position -> FullRow] /\ row[p] \in FullRow
           /\ row[p].st = "none" => row[p].pnl = "none"
BY DEF IInv, TypeOK, Absent

LEMMA DefaultedTyped == ASSUME NEW r \in Risk PROVE Defaulted(r) \in Risk
BY DEF Defaulted, Risk

LEMMA ToStageLands ==
    ASSUME TypeOK, NEW n \in 1 .. issued, \E stage \in {"ok", "err"} : ToStage(n, stage),
           issued' = issued
    PROVE  \E stage \in {"ok", "err"} : Steps(n, stage)
<1>1. PICK stage \in {"ok", "err"} : ToStage(n, stage)
  OBVIOUS
<1>2. stage \in Stages
  BY DEF Stages
<1>3. Steps(n, stage)
  BY <1>1, <1>2, ToStageSteps
<1> QED
  BY <1>3

LEMMA UpsertOpenLands ==
    ASSUME IInv, NEW n \in 1 .. issued, UpsertOpen(n)
    PROVE  Lands(n)
<1> DEFINE p == op[n].pos
           r == IF row[p].st = "none"
                THEN [st |-> "open", qty |-> "stream", pnl |-> "none", risk |-> "default"]
                ELSE [row[p] EXCEPT !.qty = "stream"]
<1>0. TypeOK
  BY DEF IInv
<1>1. p \in Position /\ Ready(n) /\ op[n].kind = "open" /\ op[n].stage = "queued"
  BY <1>0, WriteTyped DEF UpsertOpen, Ready
<1>2. row \in [Position -> FullRow] /\ row[p] \in FullRow
      /\ (row[p].st = "none" => row[p].pnl = "none")
  BY <1>1, RowTyped
<1>3. \E stage \in {"ok", "err"} : Steps(n, stage)
  BY <1>0, ToStageLands DEF UpsertOpen
<1>4. row' = [row EXCEPT ![p] = r]
  BY <1>1, <1>2 DEF UpsertOpen
<1>5. r \in FullRow
  BY <1>2 DEF FullRow, Risk
<1>6. Brief(r) = Rows!Apply("open", Brief(row[p]))
  <2>1. row[p].st \in {"none", "open", "closed"}
    BY <1>2 DEF FullRow
  <2>2. CASE row[p].st = "none"
    BY <1>2, <2>2 DEF Brief, Rows!Apply, Rows!Opened
  <2>3. CASE row[p].st # "none"
    <3>1. r = [row[p] EXCEPT !.qty = "stream"]
      BY <2>3
    <3>2. r.st = row[p].st /\ r.qty = "stream" /\ r.pnl = row[p].pnl
      BY <1>2, <3>1 DEF FullRow
    <3> QED
      BY <2>1, <2>3, <3>2 DEF Brief, Rows!Apply, Rows!Opened
  <2> QED
    BY <2>2, <2>3
<1> HIDE DEF r
<1> QED
  BY <1>1, <1>3, <1>4, <1>5, <1>6 DEF Lands, Active, UpsertOpen

LEMMA UpsertClosedLands ==
    ASSUME IInv, NEW n \in 1 .. issued, UpsertClosed(n)
    PROVE  Lands(n)
<1> DEFINE p == op[n].pos
           r == [st |-> "closed", qty |-> "report", pnl |-> "realized",
                 risk |-> Defaulted(op[n].risk)]
<1>0. TypeOK
  BY DEF IInv
<1>1. p \in Position /\ op[n].kind = "close" /\ op[n].stage = "read" /\ op[n].risk \in Risk
  BY <1>0, WriteTyped DEF UpsertClosed
<1>3. \E stage \in {"ok", "err"} : Steps(n, stage)
  BY <1>0, ToStageLands DEF UpsertClosed
<1>4. row' = [row EXCEPT ![p] = r]
  BY DEF UpsertClosed
<1>5. r \in FullRow
  BY <1>1, DefaultedTyped DEF FullRow
<1>6. Brief(r) = Rows!Apply("close", Brief(row[p]))
  BY DEF Brief, Rows!Apply, Rows!Closed
<1> HIDE DEF r
<1> QED
  BY <1>1, <1>3, <1>4, <1>5, <1>6 DEF Lands, Active, UpsertClosed

LEMMA UpdateUnrealizedLands ==
    ASSUME IInv, NEW n \in 1 .. issued, UpdateUnrealized(n)
    PROVE  Lands(n)
<1> DEFINE p == op[n].pos
           d == Defaulted(op[n].risk)
           r == IF row[p].st = "open"
                THEN [row[p] EXCEPT !.pnl = "floating", !.risk = d] ELSE row[p]
<1>0. TypeOK
  BY DEF IInv
<1>1. p \in Position /\ op[n].kind = "pnl" /\ op[n].stage = "read" /\ d \in Risk
  BY <1>0, WriteTyped, DefaultedTyped DEF UpdateUnrealized
<1>2. row \in [Position -> FullRow] /\ row[p] \in FullRow
  BY <1>1, RowTyped
<1>3. \E stage \in {"ok", "err"} : Steps(n, stage)
  BY <1>0, ToStageLands DEF UpdateUnrealized
<1>4. row' = [row EXCEPT ![p] = r]
  BY <1>1, <1>2 DEF UpdateUnrealized
<1> HIDE DEF d
<1>5. r \in FullRow
  BY <1>1, <1>2 DEF FullRow
<1>6. Brief(r) = Rows!Apply("pnl", Brief(row[p]))
  BY <1>2 DEF Brief, Rows!Apply, Rows!Unrealized, FullRow
<1> HIDE DEF r
<1> QED
  BY <1>1, <1>3, <1>4, <1>5, <1>6 DEF Lands, Active, UpdateUnrealized

\* writeUnrealized is over after its read when there is no open row.
LEMMA ReadRowCases ==
    ASSUME IInv, NEW n \in 1 .. issued, ReadRow(n)
    PROVE  \/ Lands(n)
           \/ Ready(n) /\ Steps(n, "read") /\ UNCHANGED <<row, last>>
<1> DEFINE p == op[n].pos
<1>0. TypeOK
  BY DEF IInv
<1>1. p \in Position /\ Ready(n) /\ op[n].stage = "queued"
      /\ issued' = issued /\ UNCHANGED <<row, last>>
  BY <1>0, WriteTyped DEF ReadRow, Ready
<1>2. row \in [Position -> FullRow] /\ row[p] \in FullRow
  BY <1>1, RowTyped
<1>3. CASE op[n].kind = "pnl" /\ row[p].st # "open"
  <2>1. ToStage(n, "ok")
    BY <1>3 DEF ReadRow
  <2>2. \E stage \in {"ok", "err"} : Steps(n, stage)
    BY <1>0, <1>1, <2>1, ToStageLands
  <2>3. row' = [row EXCEPT ![p] = row[p]]
    BY <1>1, <1>2
  <2>4. Brief(row[p]) = Rows!Apply("pnl", Brief(row[p]))
    BY <1>3 DEF Brief, Rows!Apply, Rows!Unrealized
  <2> QED
    BY <1>1, <1>2, <1>3, <2>2, <2>3, <2>4 DEF Lands, Active
<1>4. CASE ~(op[n].kind = "pnl" /\ row[p].st # "open")
  <2>1. op' = [op EXCEPT ![n] = [op[n] EXCEPT !.stage = "read", !.risk = row[p].risk]]
    BY <1>0, <1>4 DEF ReadRow, TypeOK
  <2>2. row[p].risk \in Risk
    BY <1>2 DEF FullRow
  <2> QED
    BY <1>1, <2>1, <2>2 DEF Steps
<1> QED
  BY <1>3, <1>4

LEMMA LandsInv ==
    ASSUME IInv, NEW n \in 1 .. issued, Lands(n)
    PROVE  IInv'
<1>1. PICK stage \in {"ok", "err"} : Steps(n, stage)
  BY DEF Lands
<1>2. PICK r \in FullRow :
        /\ row' = [row EXCEPT ![op[n].pos] = r]
        /\ Brief(r) = Rows!Apply(op[n].kind, Brief(row[op[n].pos]))
  BY DEF Lands
<1>3. op[n].pos \in Position /\ op[n].kind \in Kinds
  BY WriteTyped DEF IInv
<1>4. row \in [Position -> FullRow] /\ row[op[n].pos] \in FullRow
      /\ (row[op[n].pos].st = "none" => row[op[n].pos].pnl = "none")
  BY <1>3, RowTyped
<1>5. r.st = "none" => r.pnl = "none"
  <2>1. r.st = Brief(r).st /\ r.pnl = Brief(r).pnl
    BY DEF Brief
  <2>2. Rows!Apply(op[n].kind, Brief(row[op[n].pos])).st = "none"
          => Rows!Apply(op[n].kind, Brief(row[op[n].pos])).pnl = "none"
    BY <1>4 DEF Brief, Rows!Apply, Rows!Opened, Rows!Closed, Rows!Unrealized
  <2> QED
    BY <1>2, <2>1, <2>2
<1>6. row' \in [Position -> FullRow]
  BY <1>2, <1>4
<1>7. Absent'
  <2>1. ASSUME NEW q \in Position PROVE row'[q].st = "none" => row'[q].pnl = "none"
    <3>1. CASE q = op[n].pos
      BY <1>2, <1>4, <1>5, <3>1
    <3>2. CASE q # op[n].pos
      BY <1>2, <1>4, <3>2, RowTyped
    <3> QED
      BY <3>1, <3>2
  <2> QED
    BY <2>1 DEF Absent
<1>8. stage \in Stages \ {"queued"} /\ stage # "done"
  BY DEF Stages
<1>9. Ready(n) \/ op[n].stage \notin {"queued", "done"}
  BY DEF Lands, Active
<1> QED
  BY <1>1, <1>6, <1>7, <1>8, <1>9, StepInv DEF Lands

\* A step of write n that settles nothing on the row: a refusal, its promise
\* settling, its tail.
LEMMA QuietInv ==
    ASSUME IInv, NEW n \in 1 .. issued, Ready(n) \/ op[n].stage \notin {"queued", "done"},
           NEW stage \in Stages \ {"queued"}, Steps(n, stage), UNCHANGED row,
           \/ stage # "done" /\ UNCHANGED last
           \/ /\ stage = "done"
              /\ last' = [last EXCEPT ![op[n].pos] = AfterTail(op[n].pos, n)]
    PROVE  IInv'
<1>1. row' \in [Position -> FullRow] /\ Absent'
  BY DEF IInv, TypeOK, Absent
<1> QED
  BY <1>1, StepInv

LEMMA WriteStepInv ==
    ASSUME IInv, NEW n \in 1 .. issued, WriteStep(n)
    PROVE  IInv'
<1>0. TypeOK
  BY DEF IInv
<1>1. CASE UpsertOpen(n)
  BY <1>1, UpsertOpenLands, LandsInv
<1>2. CASE ReadRow(n)
  <2>1. CASE Lands(n)
    BY <2>1, LandsInv
  <2>2. CASE Ready(n) /\ Steps(n, "read") /\ UNCHANGED <<row, last>>
    <3>1. "read" \in Stages \ {"queued"} /\ "read" # "done" /\ UNCHANGED row /\ UNCHANGED last
      BY <2>2 DEF Stages
    <3> QED
      BY <2>2, <3>1, QuietInv
  <2> QED
    BY <1>2, <2>1, <2>2, ReadRowCases
<1>3. CASE UpsertClosed(n)
  BY <1>3, UpsertClosedLands, LandsInv
<1>4. CASE UpdateUnrealized(n)
  BY <1>4, UpdateUnrealizedLands, LandsInv
<1>5. CASE CallFails(n)
  <2>1. /\ "err" \in Stages \ {"queued"} /\ "err" # "done" /\ UNCHANGED row /\ UNCHANGED last
        /\ issued' = issued /\ ToStage(n, "err") /\ "err" \in Stages
    BY <1>5 DEF CallFails, Stages
  <2>2. Ready(n) \/ op[n].stage \notin {"queued", "done"}
    BY <1>5 DEF CallFails
  <2>3. Steps(n, "err")
    BY <1>0, <2>1, ToStageSteps
  <2> QED
    BY <2>1, <2>2, <2>3, QuietInv
<1>6. CASE Settled(n)
  <2>1. /\ "settled" \in Stages \ {"queued"} /\ "settled" # "done" /\ UNCHANGED row
        /\ UNCHANGED last /\ issued' = issued /\ ToStage(n, "settled") /\ "settled" \in Stages
    BY <1>6 DEF Settled, Stages
  <2>2. Ready(n) \/ op[n].stage \notin {"queued", "done"}
    BY <1>6 DEF Settled, Resolved
  <2>3. Steps(n, "settled")
    BY <1>0, <2>1, ToStageSteps
  <2> QED
    BY <2>1, <2>2, <2>3, QuietInv
<1>7. CASE TailRuns(n)
  <2>1. /\ "done" \in Stages \ {"queued"} /\ UNCHANGED row /\ issued' = issued
        /\ ToStage(n, "done") /\ "done" \in Stages
        /\ last' = [last EXCEPT ![op[n].pos] = AfterTail(op[n].pos, n)]
    BY <1>7 DEF TailRuns, Stages
  <2>2. Ready(n) \/ op[n].stage \notin {"queued", "done"}
    BY <1>7 DEF TailRuns
  <2>3. Steps(n, "done")
    BY <1>0, <2>1, ToStageSteps
  <2> QED
    BY <2>1, <2>2, <2>3, QuietInv
<1> QED
  BY <1>1, <1>2, <1>3, <1>4, <1>5, <1>6, <1>7 DEF WriteStep

LEMMA EditRow ==
    ASSUME IInv, NEW p \in Position, UserEditsRisk(p)
    PROVE  /\ row' \in [Position -> FullRow] /\ UNCHANGED <<issued, op, last>>
           /\ \A q \in Position : Brief(row'[q]) = Brief(row[q])
<1>1. row \in [Position -> FullRow] /\ row[p] \in FullRow
  BY RowTyped
<1>2. row' = [row EXCEPT ![p] = [row[p] EXCEPT !.risk = "user"]]
  BY <1>1 DEF UserEditsRisk
<1>3. /\ [row[p] EXCEPT !.risk = "user"] \in FullRow
      /\ Brief([row[p] EXCEPT !.risk = "user"]) = Brief(row[p])
  BY <1>1 DEF FullRow, Risk, Brief
<1>4. row'[p] = [row[p] EXCEPT !.risk = "user"]
      /\ \A q \in Position : q # p => row'[q] = row[q]
  BY <1>1, <1>2
<1>5. row' \in [Position -> FullRow]
  BY <1>1, <1>2, <1>3
<1>6. ASSUME NEW q \in Position PROVE Brief(row'[q]) = Brief(row[q])
  BY <1>3, <1>4
<1> QED
  BY <1>5, <1>6 DEF UserEditsRisk

LEMMA EditInv ==
    ASSUME IInv, NEW p \in Position, UserEditsRisk(p)
    PROVE  IInv'
<1>1. /\ row' \in [Position -> FullRow] /\ UNCHANGED <<issued, op, last>>
      /\ \A q \in Position : Brief(row'[q]) = Brief(row[q])
  BY EditRow
<1>2. \A q \in Position : row'[q].st = row[q].st /\ row'[q].pnl = row[q].pnl
  BY <1>1 DEF Brief
<1>3. TypeOK' /\ Chained'
  BY <1>1 DEF IInv, TypeOK, Chained
<1>4. Absent'
  BY <1>2 DEF IInv, Absent
<1> QED
  BY <1>3, <1>4 DEF IInv

LEMMA InitInv == Init => IInv
<1> SUFFICES ASSUME Init PROVE IInv
  OBVIOUS
<1>1. NoFullRow \in FullRow /\ NoFullRow.st = "none" /\ NoFullRow.pnl = "none"
  BY DEF NoFullRow, FullRow, Risk
<1>2. issued = 0 /\ op = <<>> /\ 1 .. issued = {} /\ MaxWrites \in Nat
  BY WriterAssumptions DEF Init
<1>3. row \in [Position -> FullRow] /\ \A p \in Position : row[p] = NoFullRow
  BY <1>1 DEF Init
<1>4. last \in [Position -> 0 .. issued] /\ \A p \in Position : last[p] = 0
  BY <1>2 DEF Init
<1>5. op \in [1 .. issued -> Write]
  BY <1>2
<1>6. TypeOK
  BY <1>2, <1>3, <1>4, <1>5 DEF TypeOK
<1>7. Chained
  BY <1>2, <1>4 DEF Chained
<1> QED
  BY <1>1, <1>3, <1>6, <1>7 DEF IInv, Absent

LEMMA NextInv == IInv /\ [Next]_vars => IInv'
<1> SUFFICES ASSUME IInv, [Next]_vars PROVE IInv'
  OBVIOUS
<1>1. ASSUME NEW p \in Position, NEW kind \in {"open", "close", "pnl"}, Issue(p, kind)
      PROVE  IInv'
  BY <1>1, IssueInv DEF Kinds
<1>2. ASSUME NEW n \in 1 .. issued, WriteStep(n) PROVE IInv'
  BY <1>2, WriteStepInv
<1>3. ASSUME NEW p \in Position, UserEditsRisk(p) PROVE IInv'
  BY <1>3, EditInv
<1>4. CASE UNCHANGED vars
  BY <1>4 DEF vars, IInv, TypeOK, Chained, Absent
<1> QED
  BY <1>1, <1>2, <1>3, <1>4 DEF Next

\* Every reachable state satisfies the inductive invariant.
THEOREM Invariance == Spec => []IInv
BY InitInv, NextInv, PTL DEF Spec

\* TypeOK holds for any set of positions and any number of writes: the types, and
\* the chains map's entry of a position is gone once its tail has run.
THEOREM TypeCorrect == Spec => []TypeOK
<1>1. IInv => TypeOK
  BY DEF IInv
<1> QED
  BY <1>1, Invariance, PTL

\* While a write of a position is not done, none issued after it has made a call to
\* the database.
OneByOne ==
    \A m, n \in 1 .. issued :
        m < n /\ op[m].pos = op[n].pos /\ op[m].stage # "done" => op[n].stage = "queued"

\* serialize runs the writes of a position one by one in the order they were issued,
\* also when some of them fail.
THEOREM Serialized == Spec => []OneByOne
<1>1. IInv => OneByOne
  BY DEF IInv, Chained, OneByOne
<1> QED
  BY <1>1, Invariance, PTL

-----------------------------------------------------------------------------
(* The writer implements TradeRows.                                        *)

Entry(kind) == [kind |-> kind, by |-> Nobody, tell |-> FALSE]

\* The chain of the writes numbered S, in the table o of writes.
Entries(o, S) ==
    [i \in 1 .. Cardinality(S) |-> Entry(o[InOrder(S)[i]].kind)]

LEMMA EntriesTyped ==
    ASSUME NEW S \in SUBSET Nat, IsFiniteSet(S), NEW o, \A m \in S : o[m].kind \in Kinds
    PROVE  Entries(o, S) \in Seq(Rows!WriteOp) /\ Len(Entries(o, S)) = Cardinality(S)
<1>1. Cardinality(S) \in Nat /\ Lists(InOrder(S), S)
  BY FS_CardinalityType, InOrderLists
<1>2. \A i \in 1 .. Cardinality(S) : InOrder(S)[i] \in S
  BY <1>1 DEF Lists
<1>3. \A kind \in Kinds : Entry(kind) \in Rows!WriteOp
  BY DEF Entry, Kinds, Rows!WriteOp
<1>4. Entries(o, S) \in [1 .. Cardinality(S) -> Rows!WriteOp]
  BY <1>2, <1>3 DEF Entries
<1> QED
  BY <1>1, <1>4

\* Only the writes' kinds matter.
LEMMA EntriesSame ==
    ASSUME NEW S \in SUBSET Nat, IsFiniteSet(S), NEW o, NEW o2,
           \A m \in S : o2[m].kind = o[m].kind
    PROVE  Entries(o2, S) = Entries(o, S)
<1>1. Lists(InOrder(S), S)
  BY InOrderLists
<1>2. \A i \in 1 .. Cardinality(S) : InOrder(S)[i] \in S
  BY <1>1 DEF Lists
<1> QED
  BY <1>2 DEF Entries

\* A write above all others is appended.
LEMMA EntriesMore ==
    ASSUME NEW S \in SUBSET Nat, IsFiniteSet(S), NEW o,
           NEW n \in Nat, \A m \in S : m < n, \A m \in S \cup {n} : o[m].kind \in Kinds
    PROVE  Entries(o, S \cup {n}) = Append(Entries(o, S), Entry(o[n].kind))
<1> DEFINE k == Cardinality(S)
           T == S \cup {n}
           t == [i \in 1 .. k + 1 |-> IF i = k + 1 THEN n ELSE InOrder(S)[i]]
           e == Entries(o, S)
           f == Append(e, Entry(o[n].kind))
<1>1. k \in Nat /\ Lists(InOrder(S), S)
  BY FS_CardinalityType, InOrderLists
<1>2. Cardinality(T) = k + 1 /\ Lists(t, T)
  BY <1>1, ListMore
<1>3. T \in SUBSET Nat /\ IsFiniteSet(T)
  BY FS_AddElement
<1>4. InOrder(T) = t
  <2>1. Lists(InOrder(T), T)
    BY <1>3, InOrderLists
  <2> HIDE DEF T, t
  <2> QED
    BY <1>2, <1>3, <2>1, ListOne
<1>5. Entries(o, T) = [i \in 1 .. k + 1 |-> Entry(o[t[i]].kind)]
  BY <1>2, <1>4 DEF Entries
<1>6. e \in Seq(Rows!WriteOp) /\ Len(e) = k
  BY EntriesTyped
<1>7. Entry(o[n].kind) \in Rows!WriteOp
  BY DEF Entry, Kinds, Rows!WriteOp
<1>8. /\ f \in Seq(Rows!WriteOp) /\ Len(f) = k + 1 /\ f[k + 1] = Entry(o[n].kind)
      /\ \A i \in 1 .. k : f[i] = e[i]
  BY <1>6, <1>7, AppendProperties
<1>9. \A i \in 1 .. k : e[i] = Entry(o[InOrder(S)[i]].kind)
  BY DEF Entries
<1> HIDE DEF k, e, f
<1>10. \A i \in 1 .. k + 1 : i = k + 1 \/ (i # k + 1 /\ i \in 1 .. k)
  BY <1>1
<1>11. \A i \in 1 .. k + 1 : f[i] = Entry(o[t[i]].kind)
  BY <1>8, <1>9, <1>10
<1>12. f = [i \in 1 .. k + 1 |-> f[i]]
  BY <1>8
<1>13. f = [i \in 1 .. k + 1 |-> Entry(o[t[i]].kind)]
  <2> HIDE DEF t
  <2> QED
    BY <1>11, <1>12
<1> QED
  BY <1>5, <1>13 DEF f, e

\* The least write is the head, and the rest is the tail.
LEMMA EntriesLess ==
    ASSUME NEW S \in SUBSET Nat, IsFiniteSet(S), NEW o,
           NEW n \in S, \A m \in S : n <= m, \A m \in S : o[m].kind \in Kinds
    PROVE  /\ Entries(o, S) # <<>>
           /\ Head(Entries(o, S)) = Entry(o[n].kind)
           /\ Entries(o, S \ {n}) = Tail(Entries(o, S))
<1> DEFINE k == Cardinality(S)
           T == S \ {n}
           t == [i \in 1 .. k - 1 |-> InOrder(S)[i + 1]]
           e == Entries(o, S)
           f == Tail(e)
<1>1. Lists(InOrder(S), S)
  BY InOrderLists
<1>2. k \in Nat \ {0} /\ InOrder(S)[1] = n /\ Cardinality(T) = k - 1 /\ Lists(t, T)
  BY <1>1, ListLess
<1>3. T \in SUBSET Nat /\ IsFiniteSet(T)
  BY FS_RemoveElement
<1>4. InOrder(T) = t
  <2>1. Lists(InOrder(T), T)
    BY <1>3, InOrderLists
  <2> HIDE DEF T, t
  <2> QED
    BY <1>2, <1>3, <2>1, ListOne
<1>5. Entries(o, T) = [i \in 1 .. k - 1 |-> Entry(o[t[i]].kind)]
  BY <1>2, <1>4 DEF Entries
<1>6. e \in Seq(Rows!WriteOp) /\ Len(e) = k
  BY EntriesTyped
<1>7. \A i \in 1 .. k : e[i] = Entry(o[InOrder(S)[i]].kind)
  BY DEF Entries
<1> HIDE DEF k, e
<1>8. e # <<>>
  BY <1>2, <1>6
<1>9. Head(e) = Entry(o[n].kind)
  <2>1. Head(e) = e[1] /\ 1 \in 1 .. k
    BY <1>2, <1>6, <1>8
  <2> QED
    BY <1>2, <1>7, <2>1
<1>10. /\ f \in Seq(Rows!WriteOp) /\ Len(f) = k - 1
       /\ \A i \in 1 .. k - 1 : f[i] = e[i + 1]
  BY <1>2, <1>6, <1>8, HeadTailProperties
<1> HIDE DEF f
<1>11. \A i \in 1 .. k - 1 : i + 1 \in 1 .. k
  BY <1>2
<1>12. \A i \in 1 .. k - 1 : f[i] = Entry(o[t[i]].kind)
  BY <1>7, <1>10, <1>11
<1>13. f = [i \in 1 .. k - 1 |-> f[i]]
  BY <1>10
<1>14. f = [i \in 1 .. k - 1 |-> Entry(o[t[i]].kind)]
  <2> HIDE DEF t
  <2> QED
    BY <1>12, <1>13
<1> QED
  BY <1>5, <1>8, <1>9, <1>14 DEF f, e

\* The state the abstract writer is in.
AbsRow == [p \in Position |-> Brief(row[p])]
AbsChain == [p \in Position |-> Entries(op, Unsettled(p))]
AbsReply == [p \in Position |-> ReplyOf(p)]

LEMMA UnsettledNumbers ==
    ASSUME TypeOK, NEW p \in Position
    PROVE  /\ Unsettled(p) \in SUBSET Nat /\ IsFiniteSet(Unsettled(p))
           /\ \A m \in Unsettled(p) : m \in 1 .. issued /\ op[m].kind \in Kinds
<1>1. issued \in Nat /\ IsFiniteSet(1 .. issued) /\ Unsettled(p) \subseteq 1 .. issued
  BY FS_Interval DEF TypeOK, Unsettled
<1>2. IsFiniteSet(Unsettled(p))
  BY <1>1, FS_Subset
<1> QED
  BY <1>1, <1>2, WriteTyped

LEMMA ChainIs ==
    ASSUME TypeOK, NEW p \in Position
    PROVE  ChainOf(p) = Entries(op, Unsettled(p))
<1>1. Lists(InOrder(Unsettled(p)), Unsettled(p))
  BY UnsettledNumbers, InOrderLists
<1>2. DOMAIN InOrder(Unsettled(p)) = 1 .. Cardinality(Unsettled(p))
  BY <1>1 DEF Lists
<1> QED
  BY <1>2 DEF ChainOf, Entries, Entry

\* The write that runs is the head of its chain, and the others are queued.
LEMMA ActiveIsHead ==
    ASSUME IInv, NEW n \in 1 .. issued, Active(n)
    PROVE  /\ op[n].pos \in Position /\ n \in Unsettled(op[n].pos)
           /\ \A m \in Unsettled(op[n].pos) : n <= m /\ (m # n => op[m].stage = "queued")
           /\ ReplyOf(op[n].pos) = IF op[n].stage \in {"ok", "err"} THEN op[n].stage ELSE "none"
<1>1. op[n].pos \in Position /\ n \in Nat /\ issued \in Nat
  BY WriteTyped DEF IInv
<1>2. op[n].stage \in {"queued", "read", "ok", "err"}
  BY DEF Active, Ready
<1>3. n \in Unsettled(op[n].pos)
  BY <1>2 DEF Unsettled
<1>4. Ready(n) \/ op[n].stage # "queued"
  BY <1>2 DEF Active
<1>5. ASSUME NEW m \in Unsettled(op[n].pos)
      PROVE  n <= m /\ (m # n => op[m].stage = "queued")
  <2>1. m \in 1 .. issued /\ op[m].pos = op[n].pos /\ op[m].stage # "done"
    BY DEF Unsettled
  <2>2. ~(m < n)
    BY <1>4, <2>1, BeforeDone
  <2>3. n < m => op[m].stage = "queued"
    BY <1>2, <2>1 DEF IInv, Chained
  <2> QED
    BY <1>1, <2>1, <2>2, <2>3
<1>6. ReplyOf(op[n].pos) = IF op[n].stage \in {"ok", "err"} THEN op[n].stage ELSE "none"
  BY <1>2, <1>3, <1>5 DEF ReplyOf
<1> QED
  BY <1>1, <1>3, <1>5, <1>6

\* A step of the write that runs, short of settling, keeps the chains and answers for
\* its position only.
LEMMA StepAbs ==
    ASSUME IInv, NEW n \in 1 .. issued, Active(n),
           NEW stage \in {"read", "ok", "err"}, Steps(n, stage)
    PROVE  /\ AbsChain' = AbsChain
           /\ AbsReply' = [AbsReply EXCEPT ![op[n].pos] =
                             IF stage \in {"ok", "err"} THEN stage ELSE "none"]
<1>0. TypeOK /\ issued' = issued /\ stage \in Stages
  BY DEF IInv, Steps, Stages
<1>p. PICK p \in Position : p = op[n].pos
  BY <1>0, WriteTyped
<1>1. /\ op'[n].stage = stage
      /\ \A m \in 1 .. issued :
            /\ op'[m].pos = op[m].pos /\ op'[m].kind = op[m].kind
            /\ m # n => op'[m] = op[m]
  BY <1>0, StepOp
<1>2. /\ p \in Position /\ n \in Unsettled(p)
      /\ \A m \in Unsettled(p) : m # n => op[m].stage = "queued"
      /\ op[n].stage \in {"queued", "read", "ok", "err"}
  BY <1>p, ActiveIsHead DEF Active, Ready
<1>3. ASSUME NEW q \in Position PROVE Unsettled(q)' = Unsettled(q)
  BY <1>0, <1>1, <1>2 DEF Unsettled
<1>4. ASSUME NEW q \in Position
      PROVE  Entries(op', Unsettled(q)') = Entries(op, Unsettled(q))
  <2> DEFINE S == Unsettled(q)
  <2>1. S \in SUBSET Nat /\ IsFiniteSet(S) /\ \A m \in S : op'[m].kind = op[m].kind
    BY <1>0, <1>1, UnsettledNumbers
  <2>2. Entries(op', S) = Entries(op, S)
    <3> HIDE DEF S
    <3> QED
      BY <2>1, EntriesSame
  <2> QED
    BY <1>3, <2>2
<1>5. ReplyOf(p)' = IF stage \in {"ok", "err"} THEN stage ELSE "none"
  <2>1. ReplyOf(p)' = IF \E m \in Unsettled(p) : op'[m].stage = "ok" THEN "ok"
                      ELSE IF \E m \in Unsettled(p) : op'[m].stage = "err" THEN "err" ELSE "none"
    BY <1>1, <1>2, <1>3 DEF ReplyOf
  <2>2. \A m \in Unsettled(p) : m # n => op'[m].stage = "queued"
    <3>1. \A m \in Unsettled(p) : m \in 1 .. issued
      BY DEF Unsettled
    <3> QED
      BY <1>1, <1>2, <3>1
  <2> QED
    BY <1>1, <1>2, <2>1, <2>2
<1>6. ASSUME NEW q \in Position, q # p PROVE ReplyOf(q)' = ReplyOf(q)
  <2>1. \A m \in Unsettled(q) : op'[m] = op[m]
    BY <1>p, <1>1, <1>6 DEF Unsettled
  <2> QED
    BY <1>3, <2>1 DEF ReplyOf
<1>7. AbsChain' = AbsChain
  BY <1>4 DEF AbsChain
<1>8. AbsReply' = [AbsReply EXCEPT ![p] = IF stage \in {"ok", "err"} THEN stage ELSE "none"]
  <2> DEFINE a == IF stage \in {"ok", "err"} THEN stage ELSE "none"
  <2>1. AbsReply' = [q \in Position |-> ReplyOf(q)'] /\ AbsReply = [q \in Position |-> ReplyOf(q)]
    BY DEF AbsReply
  <2>2. \A q \in Position : ReplyOf(q)' = IF q = p THEN a ELSE ReplyOf(q)
    BY <1>5, <1>6
  <2> HIDE DEF a
  <2>3. AbsReply' = [q \in Position |-> IF q = p THEN a ELSE ReplyOf(q)]
    BY <2>1, <2>2
  <2>4. AbsReply' = [AbsReply EXCEPT ![p] = a]
    BY <1>2, <2>1, <2>3
  <2> QED
    BY <1>p, <2>4 DEF a
<1> QED
  BY <1>p, <1>7, <1>8

\* The steps of TradeRows, on that state.
AbsEnqueue(p) ==
    /\ \E entry \in Rows!WriteOp : AbsChain' = [AbsChain EXCEPT ![p] = Append(AbsChain[p], entry)]
    /\ AbsRow' = AbsRow /\ AbsReply' = AbsReply

AbsLands(p) ==
    /\ AbsChain[p] # <<>> /\ AbsReply[p] = "none"
    /\ AbsRow' = [AbsRow EXCEPT ![p] = Rows!Apply(Head(AbsChain[p]).kind, AbsRow[p])]
    /\ \E answer \in {"ok", "err"} : AbsReply' = [AbsReply EXCEPT ![p] = answer]
    /\ AbsChain' = AbsChain

AbsFails(p) ==
    /\ AbsChain[p] # <<>> /\ AbsReply[p] = "none"
    /\ AbsReply' = [AbsReply EXCEPT ![p] = "err"]
    /\ AbsRow' = AbsRow /\ AbsChain' = AbsChain

AbsSettle(p) ==
    /\ AbsReply[p] # "none"
    /\ AbsChain' = [AbsChain EXCEPT ![p] = Tail(AbsChain[p])]
    /\ AbsReply' = [AbsReply EXCEPT ![p] = "none"]
    /\ AbsRow' = AbsRow

AbsStutter == AbsRow' = AbsRow /\ AbsChain' = AbsChain /\ AbsReply' = AbsReply

AbsNext ==
    \/ \E p \in Position : AbsEnqueue(p) \/ AbsLands(p) \/ AbsFails(p) \/ AbsSettle(p)
    \/ AbsStutter

LEMMA RowsKept == ASSUME UNCHANGED row PROVE AbsRow' = AbsRow
BY DEF AbsRow

\* The chain of the write that runs.
LEMMA ActiveChain ==
    ASSUME IInv, NEW n \in 1 .. issued, Active(n), NEW p \in Position, p = op[n].pos
    PROVE  /\ AbsChain[p] # <<>> /\ Head(AbsChain[p]) = Entry(op[n].kind)
           /\ Entries(op, Unsettled(p) \ {n}) = Tail(AbsChain[p])
           /\ AbsReply[p] = IF op[n].stage \in {"ok", "err"} THEN op[n].stage ELSE "none"
<1> DEFINE S == Unsettled(p)
<1>1. TypeOK
  BY DEF IInv
<1>2. n \in S /\ \A m \in S : n <= m
  BY ActiveIsHead
<1>3. S \in SUBSET Nat /\ IsFiniteSet(S) /\ \A m \in S : op[m].kind \in Kinds
  BY <1>1, UnsettledNumbers
<1>4. AbsChain[p] = Entries(op, S)
  BY DEF AbsChain
<1>5. /\ Entries(op, S) # <<>>
      /\ Head(Entries(op, S)) = Entry(op[n].kind)
      /\ Entries(op, S \ {n}) = Tail(Entries(op, S))
  <2> HIDE DEF S
  <2> QED
    BY <1>2, <1>3, EntriesLess
<1>6. AbsReply[p] = ReplyOf(p)
  BY DEF AbsReply
<1> QED
  BY <1>4, <1>5, <1>6, ActiveIsHead

LEMMA LandsAbs ==
    ASSUME IInv, NEW n \in 1 .. issued, Lands(n)
    PROVE  \E p \in Position : AbsLands(p)
<1>0. TypeOK /\ Active(n) /\ op[n].stage \in {"queued", "read"}
  BY DEF IInv, Lands
<1>1. PICK p \in Position : p = op[n].pos
  BY <1>0, WriteTyped
<1>2. /\ AbsChain[p] # <<>> /\ Head(AbsChain[p]) = Entry(op[n].kind) /\ AbsReply[p] = "none"
  BY <1>0, <1>1, ActiveChain
<1>3. PICK stage \in {"ok", "err"} : Steps(n, stage)
  BY DEF Lands
<1>4. AbsChain' = AbsChain /\ AbsReply' = [AbsReply EXCEPT ![p] = stage]
  <2>1. stage \in {"read", "ok", "err"}
    OBVIOUS
  <2> QED
    BY <1>0, <1>1, <1>3, <2>1, StepAbs
<1>5. PICK r \in FullRow : row' = [row EXCEPT ![p] = r]
                           /\ Brief(r) = Rows!Apply(op[n].kind, Brief(row[p]))
  BY <1>1 DEF Lands
<1>6. AbsRow' = [AbsRow EXCEPT ![p] = Rows!Apply(op[n].kind, AbsRow[p])]
  <2>1. row \in [Position -> FullRow]
    BY <1>1, RowTyped
  <2>2. \A q \in Position : Brief(row'[q]) = IF q = p THEN Brief(r) ELSE Brief(row[q])
    BY <1>5, <2>1
  <2>3. AbsRow' = [q \in Position |-> Brief(row'[q])] /\ AbsRow = [q \in Position |-> Brief(row[q])]
    BY DEF AbsRow
  <2>4. AbsRow' = [q \in Position |-> IF q = p THEN Brief(r) ELSE Brief(row[q])]
    BY <2>2, <2>3
  <2>5. AbsRow' = [AbsRow EXCEPT ![p] = Brief(r)]
    BY <2>3, <2>4
  <2>6. AbsRow[p] = Brief(row[p])
    BY <2>3
  <2> QED
    BY <1>5, <2>5, <2>6
<1>7. Head(AbsChain[p]).kind = op[n].kind
  BY <1>2 DEF Entry
<1> QED
  BY <1>2, <1>4, <1>6, <1>7 DEF AbsLands

LEMMA FailsAbs ==
    ASSUME IInv, NEW n \in 1 .. issued, CallFails(n)
    PROVE  \E p \in Position : AbsFails(p)
<1>0. /\ TypeOK /\ Active(n) /\ op[n].stage \in {"queued", "read"} /\ UNCHANGED row
      /\ issued' = issued /\ ToStage(n, "err") /\ "err" \in Stages
  BY DEF IInv, CallFails, Active, Ready, Stages
<1>1. PICK p \in Position : p = op[n].pos
  BY <1>0, WriteTyped
<1>2. AbsChain[p] # <<>> /\ AbsReply[p] = "none"
  BY <1>0, <1>1, ActiveChain
<1>3. Steps(n, "err")
  BY <1>0, ToStageSteps
<1>4. AbsChain' = AbsChain /\ AbsReply' = [AbsReply EXCEPT ![p] = "err"]
  <2>1. "err" \in {"read", "ok", "err"}
    OBVIOUS
  <2> QED
    BY <1>0, <1>1, <1>3, <2>1, StepAbs
<1> QED
  BY <1>0, <1>2, <1>4, RowsKept DEF AbsFails

\* The read of a write that goes on is invisible.
LEMMA ReadAbs ==
    ASSUME IInv, NEW n \in 1 .. issued, Ready(n), Steps(n, "read"), UNCHANGED row
    PROVE  AbsStutter
<1>0. TypeOK /\ Active(n) /\ op[n].stage = "queued"
  BY DEF IInv, Active, Ready
<1>1. PICK p \in Position : p = op[n].pos
  BY <1>0, WriteTyped
<1>2. AbsReply[p] = "none"
  BY <1>0, <1>1, ActiveChain
<1>3. AbsChain' = AbsChain /\ AbsReply' = [AbsReply EXCEPT ![p] = "none"]
  <2>1. "read" \in {"read", "ok", "err"} /\ "read" \notin {"ok", "err"}
    OBVIOUS
  <2> QED
    BY <1>0, <1>1, <2>1, StepAbs
<1>4. AbsReply' = AbsReply
  <2>1. AbsReply = [q \in Position |-> ReplyOf(q)]
    BY DEF AbsReply
  <2> QED
    BY <1>2, <1>3, <2>1
<1> QED
  BY <1>3, <1>4, RowsKept DEF AbsStutter

\* The write that runs settles: its chain moves on to the next.
LEMMA SettledAbs ==
    ASSUME IInv, NEW n \in 1 .. issued, Settled(n)
    PROVE  \E p \in Position : AbsSettle(p)
<1>0. /\ TypeOK /\ Active(n) /\ op[n].stage \in {"ok", "err"} /\ UNCHANGED row
      /\ issued' = issued /\ ToStage(n, "settled") /\ "settled" \in Stages
  BY DEF IInv, Settled, Resolved, Active, Stages
<1>p. PICK p \in Position : p = op[n].pos
  BY <1>0, WriteTyped
<1>1. Steps(n, "settled")
  BY <1>0, ToStageSteps
<1>2. /\ op'[n].stage = "settled"
      /\ \A m \in 1 .. issued :
            /\ op'[m].pos = op[m].pos /\ op'[m].kind = op[m].kind
            /\ m # n => op'[m] = op[m]
  BY <1>0, <1>1, StepOp
<1>3. /\ AbsReply[p] # "none"
      /\ Entries(op, Unsettled(p) \ {n}) = Tail(AbsChain[p])
  BY <1>0, <1>p, ActiveChain
<1>4. Unsettled(p)' = Unsettled(p) \ {n}
  BY <1>0, <1>p, <1>2 DEF Unsettled
<1>5. ASSUME NEW q \in Position, q # p
      PROVE  Unsettled(q)' = Unsettled(q) /\ \A m \in Unsettled(q) : op'[m] = op[m]
  BY <1>0, <1>p, <1>2, <1>5 DEF Unsettled
<1>6. ASSUME NEW q \in Position
      PROVE  Entries(op', Unsettled(q)') =
               IF q = p THEN Tail(AbsChain[p]) ELSE Entries(op, Unsettled(q))
  <2> DEFINE S == Unsettled(q) \ {n}
  <2>1. S \in SUBSET Nat /\ IsFiniteSet(S) /\ \A m \in S : m \in 1 .. issued
    BY <1>0, UnsettledNumbers, FS_Subset
  <2>2. \A m \in S : op'[m].kind = op[m].kind
    BY <1>2, <2>1
  <2> HIDE DEF S
  <2>3. Entries(op', S) = Entries(op, S)
    BY <2>1, <2>2, EntriesSame
  <2>4. CASE q = p
    BY <1>3, <1>4, <2>3, <2>4 DEF S
  <2>5. CASE q # p
    <3>1. n \notin Unsettled(q)
      BY <1>p, <2>5 DEF Unsettled
    <3>2. Unsettled(q)' = Unsettled(q) /\ S = Unsettled(q)
      BY <1>5, <2>5, <3>1 DEF S
    <3> QED
      BY <2>3, <2>5, <3>2
  <2> QED
    BY <2>4, <2>5
<1>7. ReplyOf(p)' = "none"
  <2>1. \A m \in Unsettled(p) \ {n} : m \in 1 .. issued /\ op[m].stage = "queued"
    BY <1>0, <1>p, ActiveIsHead DEF Unsettled
  <2>2. \A m \in Unsettled(p) \ {n} : op'[m].stage = "queued"
    BY <1>2, <2>1
  <2> QED
    BY <1>4, <2>2 DEF ReplyOf
<1>8. ASSUME NEW q \in Position, q # p PROVE ReplyOf(q)' = ReplyOf(q)
  BY <1>5, <1>8 DEF ReplyOf
<1>9. AbsChain' = [AbsChain EXCEPT ![p] = Tail(AbsChain[p])]
  <2> DEFINE c == Tail(AbsChain[p])
  <2>1. /\ AbsChain' = [q \in Position |-> Entries(op', Unsettled(q)')]
        /\ AbsChain = [q \in Position |-> Entries(op, Unsettled(q))]
    BY DEF AbsChain
  <2>2. \A q \in Position : Entries(op', Unsettled(q)') = IF q = p THEN c ELSE Entries(op, Unsettled(q))
    BY <1>6
  <2> HIDE DEF c
  <2>3. AbsChain' = [q \in Position |-> IF q = p THEN c ELSE Entries(op, Unsettled(q))]
    BY <2>1, <2>2
  <2>4. AbsChain' = [AbsChain EXCEPT ![p] = c]
    BY <2>1, <2>3
  <2> QED
    BY <2>4 DEF c
<1>10. AbsReply' = [AbsReply EXCEPT ![p] = "none"]
  <2>1. /\ AbsReply' = [q \in Position |-> ReplyOf(q)']
        /\ AbsReply = [q \in Position |-> ReplyOf(q)]
    BY DEF AbsReply
  <2>2. \A q \in Position : ReplyOf(q)' = IF q = p THEN "none" ELSE ReplyOf(q)
    BY <1>7, <1>8
  <2>3. AbsReply' = [q \in Position |-> IF q = p THEN "none" ELSE ReplyOf(q)]
    BY <2>1, <2>2
  <2> QED
    BY <2>1, <2>3
<1> QED
  BY <1>0, <1>3, <1>9, <1>10, RowsKept DEF AbsSettle

\* The tail of a settled write is invisible.
LEMMA TailAbs ==
    ASSUME IInv, NEW n \in 1 .. issued, TailRuns(n)
    PROVE  AbsStutter
<1>0. /\ TypeOK /\ op[n].stage = "settled" /\ UNCHANGED row
      /\ issued' = issued /\ ToStage(n, "done") /\ "done" \in Stages
  BY DEF IInv, TailRuns, Stages
<1>1. Steps(n, "done")
  BY <1>0, ToStageSteps
<1>2. /\ op'[n].stage = "done"
      /\ \A m \in 1 .. issued :
            /\ op'[m].pos = op[m].pos /\ op'[m].kind = op[m].kind
            /\ m # n => op'[m] = op[m]
  BY <1>0, <1>1, StepOp
<1>3. ASSUME NEW q \in Position
      PROVE  Unsettled(q)' = Unsettled(q) /\ \A m \in Unsettled(q) : op'[m] = op[m]
  BY <1>0, <1>2 DEF Unsettled
<1>4. ASSUME NEW q \in Position
      PROVE  Entries(op', Unsettled(q)') = Entries(op, Unsettled(q))
  <2> DEFINE S == Unsettled(q)
  <2>1. S \in SUBSET Nat /\ IsFiniteSet(S) /\ \A m \in S : op'[m].kind = op[m].kind
    BY <1>0, <1>3, UnsettledNumbers
  <2>2. Entries(op', S) = Entries(op, S)
    <3> HIDE DEF S
    <3> QED
      BY <2>1, EntriesSame
  <2> QED
    BY <1>3, <2>2
<1>5. ASSUME NEW q \in Position PROVE ReplyOf(q)' = ReplyOf(q)
  BY <1>3 DEF ReplyOf
<1>6. AbsChain' = AbsChain
  BY <1>4 DEF AbsChain
<1>7. AbsReply' = AbsReply
  BY <1>5 DEF AbsReply
<1> QED
  BY <1>0, <1>6, <1>7, RowsKept DEF AbsStutter

\* A write that is issued joins the chain of its position.
LEMMA IssueAbs ==
    ASSUME IInv, NEW p \in Position, NEW kind \in Kinds, Issue(p, kind)
    PROVE  AbsEnqueue(p)
<1> DEFINE k == issued + 1
           w == [pos |-> p, kind |-> kind, after |-> last[p],
                 stage |-> "queued", risk |-> "none"]
<1>0. TypeOK /\ UNCHANGED row
  BY DEF IInv, Issue
<1>1. /\ issued \in Nat /\ issued' = k /\ k \in Nat
      /\ \A m \in 1 .. issued : op'[m] = op[m]
      /\ op'[issued'] = w
  BY <1>0, IssueOp
<1>2. op'[k] = w
  BY <1>1
<1>3. op'[k].pos = p /\ op'[k].kind = kind /\ op'[k].stage = "queued"
  BY <1>2
<1> HIDE DEF w
<1>4. 1 .. issued' = (1 .. issued) \cup {k} /\ \A m \in 1 .. issued : m < k
  BY <1>1
<1> HIDE DEF k
<1>5. Unsettled(p)' = Unsettled(p) \cup {k}
  BY <1>1, <1>3, <1>4 DEF Unsettled
<1>6. ASSUME NEW q \in Position, q # p PROVE Unsettled(q)' = Unsettled(q)
  BY <1>1, <1>3, <1>4, <1>6 DEF Unsettled
<1>7. ASSUME NEW q \in Position
      PROVE  /\ Unsettled(q) \in SUBSET Nat /\ IsFiniteSet(Unsettled(q))
             /\ \A m \in Unsettled(q) : op'[m] = op[m] /\ m < k /\ op[m].kind \in Kinds
             /\ Entries(op', Unsettled(q)) = Entries(op, Unsettled(q))
  <2> DEFINE S == Unsettled(q)
  <2>1. /\ S \in SUBSET Nat /\ IsFiniteSet(S)
        /\ \A m \in S : m \in 1 .. issued /\ op[m].kind \in Kinds
    BY <1>0, UnsettledNumbers
  <2>2. \A m \in S : op'[m] = op[m] /\ m < k
    BY <1>1, <1>4, <2>1
  <2>3. Entries(op', S) = Entries(op, S)
    <3>1. \A m \in S : op'[m].kind = op[m].kind
      BY <2>2
    <3> HIDE DEF S
    <3> QED
      BY <2>1, <3>1, EntriesSame
  <2> QED
    BY <2>1, <2>2, <2>3
<1>8. Entries(op', Unsettled(p)') = Append(AbsChain[p], Entry(kind))
  <2> DEFINE S == Unsettled(p)
  <2>1. /\ S \in SUBSET Nat /\ IsFiniteSet(S) /\ \A m \in S : m < k
        /\ \A m \in S \cup {k} : op'[m].kind \in Kinds
        /\ Entries(op', S) = Entries(op, S)
    BY <1>3, <1>7
  <2>2. Entries(op', S \cup {k}) = Append(Entries(op', S), Entry(op'[k].kind))
    <3> HIDE DEF S
    <3> QED
      BY <1>1, <2>1, EntriesMore
  <2>3. AbsChain[p] = Entries(op, S)
    BY DEF AbsChain
  <2> QED
    BY <1>3, <1>5, <2>1, <2>2, <2>3
<1>9. AbsChain' = [AbsChain EXCEPT ![p] = Append(AbsChain[p], Entry(kind))]
  <2> DEFINE c == Append(AbsChain[p], Entry(kind))
  <2>1. /\ AbsChain' = [q \in Position |-> Entries(op', Unsettled(q)')]
        /\ AbsChain = [q \in Position |-> Entries(op, Unsettled(q))]
    BY DEF AbsChain
  <2>2. \A q \in Position : Entries(op', Unsettled(q)') = IF q = p THEN c ELSE Entries(op, Unsettled(q))
    BY <1>6, <1>7, <1>8
  <2> HIDE DEF c
  <2>3. AbsChain' = [q \in Position |-> IF q = p THEN c ELSE Entries(op, Unsettled(q))]
    BY <2>1, <2>2
  <2>4. AbsChain' = [AbsChain EXCEPT ![p] = c]
    BY <2>1, <2>3
  <2> QED
    BY <2>4 DEF c
<1>10. ASSUME NEW q \in Position PROVE ReplyOf(q)' = ReplyOf(q)
  <2>1. \A m \in Unsettled(q) : op'[m] = op[m]
    BY <1>7
  <2>2. CASE q = p
    <3>1. Unsettled(q)' = Unsettled(q) \cup {k}
      BY <1>5, <2>2
    <3> QED
      BY <1>3, <2>1, <3>1 DEF ReplyOf
  <2>3. CASE q # p
    BY <1>6, <2>1, <2>3 DEF ReplyOf
  <2> QED
    BY <2>2, <2>3
<1>11. AbsReply' = AbsReply
  BY <1>10 DEF AbsReply
<1>12. Entry(kind) \in Rows!WriteOp
  BY DEF Entry, Kinds, Rows!WriteOp
<1> QED
  BY <1>0, <1>9, <1>11, <1>12, RowsKept DEF AbsEnqueue

LEMMA EditAbs ==
    ASSUME IInv, NEW p \in Position, UserEditsRisk(p)
    PROVE  AbsStutter
<1>1. UNCHANGED <<issued, op, last>> /\ \A q \in Position : Brief(row'[q]) = Brief(row[q])
  BY EditRow
<1>2. AbsRow' = AbsRow
  BY <1>1 DEF AbsRow
<1>3. AbsChain' = AbsChain /\ AbsReply' = AbsReply
  BY <1>1 DEF AbsChain, AbsReply, ReplyOf, Unsettled
<1> QED
  BY <1>2, <1>3 DEF AbsStutter

LEMMA WriteStepAbs ==
    ASSUME IInv, NEW n \in 1 .. issued, WriteStep(n)
    PROVE  AbsNext
<1>1. CASE Lands(n)
  BY <1>1, LandsAbs DEF AbsNext
<1>2. CASE ReadRow(n)
  <2>1. CASE Ready(n) /\ Steps(n, "read") /\ UNCHANGED <<row, last>>
    BY <2>1, ReadAbs DEF AbsNext
  <2> QED
    BY <1>1, <1>2, <2>1, ReadRowCases
<1>3. CASE CallFails(n)
  BY <1>3, FailsAbs DEF AbsNext
<1>4. CASE Settled(n)
  BY <1>4, SettledAbs DEF AbsNext
<1>5. CASE TailRuns(n)
  BY <1>5, TailAbs DEF AbsNext
<1> QED
  BY <1>1, <1>2, <1>3, <1>4, <1>5, UpsertOpenLands, UpsertClosedLands, UpdateUnrealizedLands
     DEF WriteStep

LEMMA NextAbs == IInv /\ [Next]_vars => AbsNext
<1> SUFFICES ASSUME IInv, [Next]_vars PROVE AbsNext
  OBVIOUS
<1>1. ASSUME NEW p \in Position, NEW kind \in {"open", "close", "pnl"}, Issue(p, kind)
      PROVE  AbsNext
  BY <1>1, IssueAbs DEF Kinds, AbsNext
<1>2. ASSUME NEW n \in 1 .. issued, WriteStep(n) PROVE AbsNext
  BY <1>2, WriteStepAbs
<1>3. ASSUME NEW p \in Position, UserEditsRisk(p) PROVE AbsNext
  BY <1>3, EditAbs DEF AbsNext
<1>4. CASE UNCHANGED vars
  BY <1>4 DEF vars, AbsNext, AbsStutter, AbsRow, AbsChain, AbsReply, ReplyOf, Unsettled
<1> QED
  BY <1>1, <1>2, <1>3, <1>4 DEF Next

\* The refinement mapping gives the abstract state above.
Linked ==
    /\ AbsRow = [p \in Position |-> [st |-> row[p].st, qty |-> row[p].qty, pnl |-> row[p].pnl]]
    /\ AbsChain = [p \in Position |-> ChainOf(p)]
    /\ AbsReply = [p \in Position |-> ReplyOf(p)]

LEMMA Links == IInv => Linked
<1> SUFFICES ASSUME IInv PROVE Linked
  OBVIOUS
<1>1. \A p \in Position : ChainOf(p) = Entries(op, Unsettled(p))
  BY ChainIs DEF IInv
<1>2. AbsChain = [p \in Position |-> ChainOf(p)]
  BY <1>1 DEF AbsChain
<1> QED
  BY <1>2 DEF Linked, AbsRow, AbsReply, Brief

LEMMA InitAbs == Init => Rows!RowsInit
<1> SUFFICES ASSUME Init PROVE Rows!RowsInit
  OBVIOUS
<1>1. IInv /\ Linked
  BY InitInv, Links
<1>2. \A p \in Position : Unsettled(p) = {}
  BY DEF Init, Unsettled
<1>3. ASSUME NEW p \in Position PROVE ChainOf(p) = <<>>
  <2>1. ChainOf(p) = Entries(op, {})
    BY <1>1, <1>2, ChainIs DEF IInv
  <2>2. Cardinality({}) = 0
    BY FS_EmptySet
  <2> QED
    BY <2>1, <2>2 DEF Entries
<1>4. \A p \in Position : ReplyOf(p) = "none"
  BY <1>2 DEF ReplyOf
<1>5. \A p \in Position : row[p] = NoFullRow
  BY DEF Init
<1> QED
  BY <1>3, <1>4, <1>5 DEF Rows!RowsInit, Rows!NoWrites, Rows!NoRow, NoFullRow

LEMMA StepRefines ==
    Linked /\ Linked' /\ AbsNext => [Rows!RowsNext]_(Rows!rowVars)
<1> SUFFICES ASSUME Linked, Linked', AbsNext PROVE [Rows!RowsNext]_(Rows!rowVars)
  OBVIOUS
<1>1. ASSUME NEW p \in Position, AbsEnqueue(p) PROVE Rows!RowsNext
  BY <1>1 DEF Linked, AbsEnqueue, Rows!RowsNext, Rows!Enqueue
<1>2. ASSUME NEW p \in Position, AbsLands(p) PROVE Rows!RowsNext
  <2>1. Rows!WriteLands(p)
    BY <1>2 DEF Linked, AbsLands, Rows!WriteLands
  <2> QED
    BY <2>1 DEF Rows!RowsNext
<1>3. ASSUME NEW p \in Position, AbsFails(p) PROVE Rows!RowsNext
  <2>1. Rows!WriteFails(p)
    BY <1>3 DEF Linked, AbsFails, Rows!WriteFails
  <2> QED
    BY <2>1 DEF Rows!RowsNext
<1>4. ASSUME NEW p \in Position, AbsSettle(p) PROVE Rows!RowsNext
  <2>1. Rows!Settle(p)
    BY <1>4 DEF Linked, AbsSettle, Rows!Settle
  <2> QED
    BY <2>1 DEF Rows!RowsNext
<1>5. CASE AbsStutter
  BY <1>5 DEF Linked, AbsStutter, Rows!rowVars
<1> QED
  BY <1>1, <1>2, <1>3, <1>4, <1>5 DEF AbsNext

\* Split into database calls and chained by promises, the writer implements the
\* atomic writer of TradeRows: one write at a time per position, in the order issued,
\* for any set of positions and any number of writes.
THEOREM Refines == Spec => ImplementsRows
<1>1. Init => Rows!RowsInit
  BY InitAbs
<1>2. IInv /\ IInv' /\ [Next]_vars => [Rows!RowsNext]_(Rows!rowVars)
  <2>1. IInv /\ [Next]_vars => AbsNext
    BY NextAbs
  <2>2. IInv' => Linked'
    BY Links, PTL
  <2> QED
    BY <2>1, <2>2, Links, StepRefines
<1> QED
  BY <1>1, <1>2, Invariance, PTL DEF Spec, ImplementsRows, Rows!RowsSpec
=============================================================================
