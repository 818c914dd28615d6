-------------------------- MODULE CtraderPool_proofs --------------------------
(***************************************************************************)
(* Proofs about CtraderPool, for every table of tokens, every number of    *)
(* overlapping connect attempts and every value of the bounds.             *)
(***************************************************************************)
EXTENDS CtraderPool, FiniteSetTheorems, WellFoundedInduction, TLAPS

\* An attempt that is free has no trace of its past; while it opens its socket and
\* still counts, the socket is its own and untouched.
ShapeSound(a) ==
    /\ attempt[a].pc = "free" => attempt[a] = Free
    /\ attempt[a].pc = "open" /\ ~Superseded(a) => attempt[a].sock = "opening"

\* One generation: the session's connection is the only socket that is not closed,
\* its attempt is the only one that owns the session, and a timer is armed only
\* when there is no connection.
ConnSound ==
    /\ timer => conn = None
    /\ conn # None => attempt[conn].own /\ attempt[conn].sock # "closed"
    /\ \A a \in Attempt : attempt[a].sock # "closed" => conn = a
    /\ \A a, b \in Attempt : attempt[a].own /\ attempt[b].own => a = b
    /\ \A a \in Attempt : ShapeSound(a)
    /\ phase # "up" => accounts = NoArray
    /\ accounts # NoArray => timer \/ conn # None

\* The attempt that owns the session works on its accounts, and each of them is
\* routed to itself.
RouteSound ==
    /\ \A a \in Attempt : attempt[a].own /\ phase # "stopped" =>
        /\ accounts # NoArray
        /\ attempt[a].authed \subseteq Members(arrays[accounts])
        /\ InFlight(a) => attempt[a].array = accounts
    /\ \A a \in Attempt : InFlight(a) =>
        attempt[a].todo \subseteq Members(arrays[attempt[a].array])
    /\ accounts # NoArray =>
        \A t \in Members(arrays[accounts]) : routed[Ctid[t]] = t

\* The pairs in memory that stand for row t: in an array, or read by the tick.
Held(t) == {tick.read[t].pair} \cup {arrays[x][t].pair : x \in Array}

\* A pair belongs to one token, and a pair that waits to be stored is alive, in no
\* row, no array and nothing the tick has read.
PairsSound ==
    /\ valid \subseteq 1 .. clock
    /\ \A t \in Token : rows[t].pair <= clock
    /\ \A t, u \in Token : rows[t].pair = rows[u].pair /\ rows[t].pair # 0 => t = u
    /\ \A t \in Token : \A p \in Held(t) :
        /\ p <= clock
        /\ \A u \in Token : p = rows[u].pair /\ rows[u].pair # 0 => t = u
    /\ \A a \in Attempt : attempt[a].pc = "store" =>
        /\ attempt[a].pair \in valid
        /\ \A t \in Token : rows[t].pair # attempt[a].pair
        /\ \A t \in Token : attempt[a].pair \notin Held(t)
        /\ \A b \in Attempt \ {a} :
            attempt[b].pc = "store" => attempt[b].pair # attempt[a].pair

\* What the tick has read has one row per cTrader account, however old it is.
ReadSound ==
    \A t, u \in Members(tick.read) : Ctid[t] = Ctid[u] => t = u

\* The inductive invariant.
IInv ==
    TypeOK /\ ConnSound /\ RouteSound /\ PairsSound /\ ReadSound /\ RefreshSurvives

-----------------------------------------------------------------------------
(* A finite, nonempty set of numbers has a maximum.                        *)

HasMax(S) == \E x \in S : \A y \in S : y <= x

LEMMA FiniteHasMax ==
    ASSUME NEW S \in SUBSET Nat, IsFiniteSet(S), S # {}
    PROVE  HasMax(S)
<1> DEFINE R == StrictSubsetOrdering(S)
           Bad == {T \in SUBSET S : T # {} /\ ~HasMax(T)}
<1>1. FiniteSubsetsOf(S) = SUBSET S
  BY FS_FiniteSubsetsOfFinite
<1>2. IsWellFoundedOn(R, SUBSET S)
  BY <1>1, FS_StrictSubsetOrderingWellFounded
<1>3. SUFFICES ASSUME Bad # {} PROVE FALSE
  BY <1>3
<1>4. PICK T \in Bad : \A U \in Bad : <<U, T>> \notin R
  <2>1. Bad \subseteq SUBSET S
    OBVIOUS
  <2> HIDE DEF Bad, R
  <2> QED
    BY <1>2, <1>3, <2>1, WFMin
<1>5. PICK x \in T : TRUE
  OBVIOUS
<1>6. T \ {x} \notin Bad
  <2>1. <<T \ {x}, T>> \in (SUBSET S) \X (SUBSET S)
    OBVIOUS
  <2>2. <<T \ {x}, T>> \in R
    BY <1>5, <2>1 DEF StrictSubsetOrdering
  <2> QED
    BY <1>4, <2>2
<1>7. CASE T = {x}
  BY <1>4, <1>7 DEF HasMax
<1>8. CASE T # {x}
  <2>1. HasMax(T \ {x})
    BY <1>5, <1>6, <1>8
  <2>2. PICK m \in T \ {x} : \A y \in T \ {x} : y <= m
    BY <2>1 DEF HasMax
  <2>3. m \in Nat /\ x \in Nat
    BY <1>5
  <2>4. CASE x <= m
    BY <1>4, <2>2, <2>4 DEF HasMax
  <2>5. CASE m <= x
    <3>1. \A y \in T : y \in Nat /\ (y = x \/ y <= m)
      BY <2>2
    <3>2. \A y \in T : y <= x
      BY <2>3, <2>5, <3>1
    <3> QED
      BY <1>4, <1>5, <3>2 DEF HasMax
  <2> QED
    BY <2>3, <2>4, <2>5
<1> QED
  BY <1>7, <1>8

LEMMA NewestType == ASSUME TypeOK PROVE Probe \in [count : Nat, at : Nat]
<1> DEFINE S == {rows[t].at : t \in Active}
           f == [t \in Active |-> rows[t].at]
<1>1. IsFiniteSet(Active) /\ Cardinality(Active) \in Nat
  BY PoolAssumption, FS_Subset, FS_CardinalityType DEF Active
<1>2. S \subseteq Nat
  BY DEF TypeOK, Rows, Active
<1>3. IsFiniteSet(S)
  <2>1. f \in Surjection(Active, S)
    BY DEF Surjection
  <2> HIDE DEF f, S
  <2> QED
    BY <1>1, <2>1, FS_Surjection
<1>4. S \cup {0} \in SUBSET Nat /\ IsFiniteSet(S \cup {0})
  BY <1>2, <1>3, FS_AddElement
<1>5. HasMax(S \cup {0})
  BY <1>4, FiniteHasMax
<1>6. Newest \in Nat
  BY <1>4, <1>5 DEF Newest, Max, HasMax
<1> QED
  BY <1>1, <1>6 DEF Probe

-----------------------------------------------------------------------------
(* Types of the pieces.                                                    *)

LEMMA Pieces ==
    /\ Free \in Attempts /\ Absent \in Account /\ Nobody \in Objects
    /\ Members(Nobody) = {} /\ \A t \in Token : Nobody[t].pair = 0
    /\ NoProbe \in [count : Nat, at : Nat]
    /\ NoArray \notin Array
<1>1. 0 \in Pair
  BY PoolAssumption DEF Pair
<1>2. Free \in Attempts
  BY <1>1 DEF Free, Attempts, Calls, Socks
<1>3. Absent \in Account /\ Nobody \in Objects
  BY <1>1 DEF Absent, Account, Nobody, Objects
<1>4. Members(Nobody) = {} /\ \A t \in Token : Nobody[t].pair = 0
  BY DEF Members, Nobody, Absent
<1>5. NoProbe \in [count : Nat, at : Nat]
  BY PoolAssumption, FS_CardinalityType DEF NoProbe
<1>6. NoArray \notin Array
  BY PoolAssumption, FS_CardinalityType DEF NoArray, Array
<1> QED
  BY <1>2, <1>3, <1>4, <1>5, <1>6

LEMMA AttemptTyped ==
    ASSUME TypeOK, NEW a \in Attempt
    PROVE  /\ attempt[a] \in Attempts
           /\ attempt[a].own \in BOOLEAN /\ attempt[a].sock \in Socks
           /\ attempt[a].array \in Array \cup {NoArray}
           /\ attempt[a].todo \subseteq Token /\ attempt[a].cur \in Token \cup {None}
           /\ attempt[a].pair \in Pair /\ attempt[a].authed \subseteq Token
BY DEF TypeOK, Attempts

\* What survives a collection: the arrays in use.
LEMMA CollectedFacts ==
    ASSUME NEW store \in [Array -> Objects], NEW at, NEW arr
    PROVE  /\ Collected(store, at, arr) \in [Array -> Objects]
           /\ \A x \in Array :
                /\ x \in InUse(at, arr) => Collected(store, at, arr)[x] = store[x]
                /\ Collected(store, at, arr)[x] \in {store[x], Nobody}
BY Pieces DEF Collected

\* There are more arrays than attempts.
LEMMA ArrayToSpare ==
    ASSUME TypeOK
    PROVE  /\ FreeArray \in Array
           /\ \A a \in Attempt : attempt[a].array # FreeArray
<1>1. SUFFICES \E x \in Array : \A a \in Attempt : attempt[a].array # x
  BY <1>1, Pieces DEF FreeArray, InUse
<1>2. SUFFICES ASSUME \A x \in Array : \E a \in Attempt : attempt[a].array = x
               PROVE  FALSE
  OBVIOUS
<1> DEFINE f == [x \in Array |-> CHOOSE a \in Attempt : attempt[a].array = x]
<1>3. f \in [Array -> Attempt] /\ \A x \in Array : attempt[f[x]].array = x
  BY <1>2
<1>4. Cardinality(Attempt) \in Nat /\ IsFiniteSet(Attempt)
  BY PoolAssumption, FS_CardinalityType
<1>5. IsFiniteSet(Array) /\ Cardinality(Attempt) < Cardinality(Array)
  BY <1>4, FS_Interval DEF Array
<1>6. \E x, y \in Array : x # y /\ f[x] = f[y]
  <2> HIDE DEF f
  <2> QED
    BY <1>3, <1>4, <1>5, FS_PigeonHole
<1> QED
  BY <1>3, <1>6

-----------------------------------------------------------------------------
(* What the accounts are loaded and routed as.                             *)

LEMMA LoadFacts ==
    ASSUME TypeOK, PairsSound
    PROVE  /\ LoadAccounts \in Objects
           /\ \A t \in Token : LoadAccounts[t].pair \in {0, rows[t].pair}
           /\ \A t, u \in Members(LoadAccounts) : Ctid[t] = Ctid[u] => t = u
<1>1. \A t \in Token : rows[t].pair \in Pair /\ rows[t].pair \in Nat
  BY DEF TypeOK, Rows, Pair
<1>2. \A t \in Token : [pair |-> rows[t].pair, forced |-> FALSE] \in Account
  BY <1>1 DEF Account
<1>3. LoadAccounts \in Objects
  BY <1>2, Pieces DEF LoadAccounts, Objects
<1>4. \A t \in Token : LoadAccounts[t].pair \in {0, rows[t].pair}
  BY DEF LoadAccounts, Absent
<1>5. ASSUME NEW t \in Members(LoadAccounts)
      PROVE  t \in Token /\ t \in DedupeByCtid(Active) /\ rows[t].pair # 0
  BY DEF Members, LoadAccounts, Absent
<1>6. ASSUME NEW t \in Members(LoadAccounts), NEW u \in Members(LoadAccounts),
             Ctid[t] = Ctid[u]
      PROVE  t = u
  <2>1. rows[t].pair <= rows[u].pair /\ rows[u].pair <= rows[t].pair
    BY <1>5, <1>6 DEF DedupeByCtid
  <2>2. rows[t].pair = rows[u].pair
    BY <1>1, <1>5, <2>1
  <2> QED
    BY <1>5, <2>2 DEF PairsSound
<1> QED
  BY <1>3, <1>4, <1>6

LEMMA RoutingFacts ==
    ASSUME NEW objects
    PROVE  /\ Routing(objects) \in [{Ctid[t] : t \in Token} -> Token \cup {None}]
           /\ (\A t, u \in Members(objects) : Ctid[t] = Ctid[u] => t = u)
                => \A t \in Members(objects) : Routing(objects)[Ctid[t]] = t
<1>1. Members(objects) \subseteq Token
  BY DEF Members
<1> QED
  BY <1>1 DEF Routing

-----------------------------------------------------------------------------
(* What an answered or failed call does.                                   *)

M(a) == Members(arrays[attempt[a].array])

\* The attempt goes on as v.
Advances(a, v) ==
    /\ v \in Attempts
    /\ v.own = attempt[a].own
    /\ v.sock # attempt[a].sock => attempt[a].sock # "closed" /\ v.sock # "closed"
    /\ v.pc \notin {"free", "open"}
    /\ v.authed \subseteq attempt[a].authed \cup M(a)
    /\ v.pc # "up" =>
        /\ v.array = attempt[a].array
        /\ v.todo \subseteq M(a)
        /\ v.pc \in {"refresh", "store", "auth", "reap"} => v.cur \in M(a)

\* The attempt returns, is given up, or goes on.
AttemptStep(a) ==
    \E v \in Attempts :
        /\ attempt' = [attempt EXCEPT ![a] = v]
        /\ \/ /\ v = Free
              /\ Superseded(a) \/ attempt[a].sock = "closed"
              /\ UNCHANGED <<conn, timer>>
           \/ /\ v = Free
              /\ ~Superseded(a)
              /\ conn' = None /\ timer' = (phase = "up")
           \/ /\ Advances(a, v)
              /\ UNCHANGED <<conn, timer>>

\* Collecting garbage and storing a pair leave the accounts that are in use.
KeepsMembers ==
    /\ arrays' \in [Array -> Objects]
    /\ \A x \in Array : x \in InUse(attempt', accounts) =>
        Members(arrays'[x]) = Members(arrays[x])

Frame == UNCHANGED <<phase, loads, stops, lastProbe, tick, accounts, routed>>

LEMMA MovesKeeps ==
    ASSUME TypeOK, Moves(arrays)
    PROVE  KeepsMembers /\ Frame
BY CollectedFacts DEF TypeOK, Moves, KeepsMembers, Frame

LEMMA ReturnStep ==
    ASSUME TypeOK, NEW a \in Attempt, Returns(a), Superseded(a)
    PROVE  AttemptStep(a) /\ signature' \in Objects
BY Pieces DEF Returns, AttemptStep, TypeOK

LEMMA GiveUpStep ==
    ASSUME TypeOK, NEW a \in Attempt, GivesUp(a), ~Superseded(a)
    PROVE  AttemptStep(a) /\ signature' \in Objects
BY Pieces DEF GivesUp, ScheduleReconnect, AttemptStep, TypeOK

LEMMA InFlightMembers ==
    ASSUME TypeOK, NEW a \in Attempt, InFlight(a)
    PROVE  /\ attempt[a].array \in Array /\ M(a) \subseteq Token
           /\ attempt[a].pc \in {"refresh", "store", "auth", "reap"} => attempt[a].cur \in M(a)
BY AttemptTyped DEF TypeOK, M, Members

\* The loop of connectEnv: its accounts are among those of the attempt.
LEMMA LoopStep ==
    ASSUME TypeOK, RouteSound, NEW a \in Attempt, InFlight(a),
           NEW todo \in SUBSET M(a), NEW authed \in SUBSET Token,
           authed \subseteq attempt[a].authed \cup M(a), Loops(a, todo, authed, arrays)
    PROVE  AttemptStep(a) /\ signature' \in Objects
<1>0. M(a) \subseteq Token /\ attempt[a] \in Attempts /\ attempt[a].array \in Array
  BY InFlightMembers DEF TypeOK
<1>1. CASE Superseded(a) /\ Returns(a)
  BY <1>1, ReturnStep
<1>2. CASE ~Superseded(a) /\ todo = {} /\ Finishes(a, authed, arrays)
  <2>1. attempt[a].own /\ accounts \in Array
    BY <1>2 DEF Superseded, RouteSound, TypeOK
  <2>2. signature' \in Objects
    BY <1>2, <2>1 DEF Finishes, ComputeSignature, TypeOK
  <2>3. CASE attempt[a].sock = "closed"
    BY <1>2, <2>2, <2>3, Pieces DEF Finishes, AttemptStep
  <2>4. CASE attempt[a].sock # "closed"
    <3> DEFINE v == [Free EXCEPT !.pc = "up", !.own = TRUE,
                                 !.sock = attempt[a].sock, !.authed = authed]
    <3>1. attempt' = [attempt EXCEPT ![a] = v] /\ UNCHANGED <<timer, conn>>
      BY <1>2, <2>4 DEF Finishes
    <3>2. /\ v \in Attempts /\ v.pc = "up" /\ v.own = TRUE
          /\ v.sock = attempt[a].sock /\ v.authed = authed
      BY <1>0, Pieces DEF Attempts, Calls, Free
    <3>3. Advances(a, v)
      BY <1>0, <2>1, <3>2 DEF Advances, Attempts
    <3> HIDE DEF v
    <3> QED
      BY <2>2, <3>1, <3>2, <3>3 DEF AttemptStep
  <2> QED
    BY <2>3, <2>4
<1>3. ASSUME ~Superseded(a), NEW t \in todo, Begins(a, t, todo \ {t}, authed, arrays)
      PROVE  AttemptStep(a) /\ signature' \in Objects
  <2>1. PICK pc \in {"refresh", "auth"} :
          /\ attempt' = [attempt EXCEPT ![a] =
                [attempt[a] EXCEPT !.pc = pc, !.cur = t, !.todo = todo \ {t}, !.pair = 0,
                                   !.authed = authed]]
          /\ UNCHANGED <<signature, timer, conn>>
    BY <1>3 DEF Begins, TypeOK
  <2> DEFINE v == [attempt[a] EXCEPT !.pc = pc, !.cur = t, !.todo = todo \ {t}, !.pair = 0,
                                     !.authed = authed]
  <2>2. t \in M(a) /\ t \in Token /\ todo \ {t} \subseteq Token /\ 0 \in Pair
    BY <1>0, PoolAssumption DEF Pair
  <2>3. v \in Attempts
    BY <1>0, <2>2 DEF Attempts, Calls
  <2>4. /\ v.pc = pc /\ v.own = attempt[a].own /\ v.sock = attempt[a].sock
        /\ v.array = attempt[a].array /\ v.todo = todo \ {t} /\ v.cur = t /\ v.authed = authed
    BY <1>0 DEF Attempts
  <2>5. v.todo \subseteq M(a)
    BY <2>4
  <2> HIDE DEF v
  <2>6. Advances(a, v)
    BY <2>2, <2>3, <2>4, <2>5 DEF Advances
  <2> QED
    BY <2>1, <2>3, <2>6 DEF AttemptStep, TypeOK, v
<1> QED
  BY <1>1, <1>2, <1>3 DEF Loops

LEMMA SkipStep ==
    ASSUME TypeOK, RouteSound, NEW a \in Attempt, InFlight(a), Skips(a, arrays)
    PROVE  AttemptStep(a) /\ signature' \in Objects /\ KeepsMembers /\ Frame
<1>1. attempt[a].todo \in SUBSET M(a) /\ attempt[a].authed \in SUBSET Token
  BY AttemptTyped DEF RouteSound, M
<1> QED
  BY <1>1, LoopStep, MovesKeeps DEF Skips

\* Changing the call of an attempt and the pair it holds.
LEMMA NextCall ==
    ASSUME TypeOK, RouteSound, NEW a \in Attempt, InFlight(a),
           NEW pc \in {"app", "store", "auth", "reap"}, NEW pair \in Pair, NEW sock \in Socks,
           sock # attempt[a].sock => attempt[a].sock # "closed" /\ sock # "closed",
           pc = "app" \/ attempt[a].cur \in M(a),
           attempt' = [attempt EXCEPT ![a] =
                [attempt[a] EXCEPT !.pc = pc, !.pair = pair, !.sock = sock]],
           UNCHANGED <<signature, timer, conn>>
    PROVE  AttemptStep(a) /\ signature' \in Objects
<1> DEFINE v == [attempt[a] EXCEPT !.pc = pc, !.pair = pair, !.sock = sock]
<1>1. attempt[a] \in Attempts /\ attempt[a].todo \subseteq M(a)
  BY DEF TypeOK, RouteSound, M
<1>2. v \in Attempts
  BY <1>1 DEF Attempts, Calls
<1>3. /\ v.pc = pc /\ v.own = attempt[a].own /\ v.sock = sock
      /\ v.array = attempt[a].array /\ v.todo = attempt[a].todo /\ v.cur = attempt[a].cur
      /\ v.authed = attempt[a].authed
  BY <1>1 DEF Attempts
<1>4. attempt' = [attempt EXCEPT ![a] = v]
  OBVIOUS
<1> HIDE DEF v
<1>5. Advances(a, v)
  BY <1>1, <1>2, <1>3 DEF Advances
<1> QED
  BY <1>2, <1>4, <1>5 DEF AttemptStep, TypeOK

\* Every answer moves its attempt and keeps the accounts in use.
LEMMA AnswerStep ==
    ASSUME IInv, NEW a \in Attempt, Answers(a)
    PROVE  AttemptStep(a) /\ signature' \in Objects /\ KeepsMembers /\ Frame
<1>0. /\ TypeOK /\ RouteSound /\ attempt[a] \in Attempts
      /\ Moves(arrays) => KeepsMembers /\ Frame
  BY MovesKeeps DEF IInv, TypeOK
<1>1. CASE OpenAnswers(a)
  <2>1. InFlight(a) /\ KeepsMembers /\ Frame
    BY <1>0, <1>1 DEF OpenAnswers, InFlight
  <2>2. CASE Superseded(a)
    BY <1>0, <1>1, <2>1, <2>2, ReturnStep DEF OpenAnswers
  <2>3. CASE ~Superseded(a)
    <3>1. attempt[a].sock = "opening"
      BY <1>1, <2>3 DEF IInv, ConnSound, ShapeSound, OpenAnswers
    <3>2. attempt' = [attempt EXCEPT ![a] =
                [attempt[a] EXCEPT !.pc = "app", !.pair = attempt[a].pair, !.sock = "open"]]
      BY <1>0, <1>1, <2>3 DEF OpenAnswers, TypeOK, Attempts
    <3>3. UNCHANGED <<signature, timer, conn>> /\ attempt[a].pair \in Pair /\ "open" \in Socks
      BY <1>0, <1>1, <2>3 DEF OpenAnswers, Attempts, Socks
    <3>4. "open" # attempt[a].sock => attempt[a].sock # "closed" /\ "open" # "closed"
      BY <3>1
    <3> QED
      BY <1>0, <2>1, <3>2, <3>3, <3>4, NextCall
  <2> QED
    BY <2>2, <2>3
<1>2. CASE AppAnswers(a)
  <2>1. InFlight(a) /\ KeepsMembers /\ Frame
    BY <1>0, <1>2 DEF AppAnswers, InFlight
  <2>2. Loops(a, M(a), {}, arrays)
    BY <1>2 DEF AppAnswers, M
  <2> QED
    BY <1>0, <2>1, <2>2, LoopStep
<1>3. CASE ConnectFails(a)
  BY <1>0, <1>3, ReturnStep, GiveUpStep DEF ConnectFails
<1>4. CASE RefreshAnswers(a)
  <2>1. InFlight(a) /\ KeepsMembers /\ Frame
    BY <1>0, <1>4 DEF RefreshAnswers, InFlight
  <2>2. clock' \in Pair /\ attempt[a].cur \in M(a) /\ attempt[a].sock \in Socks
    BY <1>0, <1>4, <2>1, InFlightMembers, PoolAssumption
    DEF RefreshAnswers, Pair, TypeOK, Attempts
  <2>3. attempt' = [attempt EXCEPT ![a] =
              [attempt[a] EXCEPT !.pc = "store", !.pair = clock', !.sock = attempt[a].sock]]
    BY <1>0, <1>4 DEF RefreshAnswers, TypeOK, Attempts
  <2>4. UNCHANGED <<signature, timer, conn>>
    BY <1>4 DEF RefreshAnswers
  <2> QED
    BY <1>0, <2>1, <2>2, <2>3, <2>4, NextCall
<1>5. CASE RefreshRejected(a)
  <2>1. InFlight(a) /\ KeepsMembers /\ Frame
    BY <1>0, <1>5 DEF RefreshRejected, InFlight
  <2>2. attempt[a].pair \in Pair /\ attempt[a].cur \in M(a) /\ attempt[a].sock \in Socks
    BY <1>0, <1>5, <2>1, InFlightMembers DEF RefreshRejected, Attempts
  <2>3. attempt' = [attempt EXCEPT ![a] =
              [attempt[a] EXCEPT !.pc = "reap", !.pair = attempt[a].pair, !.sock = attempt[a].sock]]
    BY <1>0, <1>5 DEF RefreshRejected, TypeOK, Attempts
  <2>4. UNCHANGED <<signature, timer, conn>>
    BY <1>5 DEF RefreshRejected
  <2> QED
    BY <1>0, <2>1, <2>2, <2>3, <2>4, NextCall
<1>6. CASE RefreshFails(a) \/ StoreFails(a) \/ AuthFails(a) \/ Reaps(a) \/ ReapFails(a)
  <2>1. InFlight(a) /\ Skips(a, arrays)
    BY <1>6 DEF RefreshFails, StoreFails, AuthFails, Reaps, ReapFails, InFlight
  <2> QED
    BY <1>0, <2>1, SkipStep
<1>7. CASE StoreAnswers(a)
  <2> DEFINE c == attempt[a].cur
             x == attempt[a].array
             fresh == [pair |-> attempt[a].pair, forced |-> FALSE]
             store == [arrays EXCEPT ![x][c] = fresh]
  <2>1. InFlight(a) /\ Moves(store)
    BY <1>7 DEF StoreAnswers, InFlight
  <2>2. c \in M(a) /\ c \in Token /\ x \in Array /\ attempt[a].sock \in Socks
    BY <1>0, <1>7, <2>1, InFlightMembers DEF StoreAnswers, Attempts
  <2>3. attempt[a].pair \in Pair /\ attempt[a].pair # 0
    BY <1>0, <1>7 DEF StoreAnswers, IInv, PairsSound, Attempts, TypeOK
  <2>4. store \in [Array -> Objects]
    <3>1. fresh \in Account
      BY <2>3 DEF Account
    <3>2. arrays \in [Array -> [Token -> Account]]
      BY <1>0 DEF TypeOK, Objects
    <3> QED
      BY <2>2, <3>1, <3>2 DEF Objects
  <2>5. \A y \in Array : Members(store[y]) = Members(arrays[y])
    <3>1. arrays \in [Array -> [Token -> Account]]
      BY <1>0 DEF TypeOK, Objects
    <3>2. arrays[x][c].pair # 0
      BY <2>2 DEF M, Members
    <3>3. ASSUME NEW y \in Array, NEW t \in Token
          PROVE  store[y][t].pair # 0 <=> arrays[y][t].pair # 0
      BY <2>2, <2>3, <3>1, <3>2
    <3> QED
      BY <3>3 DEF Members
  <2>6. KeepsMembers /\ Frame
    <3> HIDE DEF store
    <3>1. arrays' = Collected(store, attempt', accounts) /\ Frame
      BY <2>1 DEF Moves, Frame
    <3> QED
      BY <2>4, <2>5, <3>1, CollectedFacts DEF KeepsMembers
  <2>7. attempt' = [attempt EXCEPT ![a] =
              [attempt[a] EXCEPT !.pc = "auth", !.pair = 0, !.sock = attempt[a].sock]]
    BY <1>0, <1>7 DEF StoreAnswers, TypeOK, Attempts
  <2>8. UNCHANGED <<signature, timer, conn>> /\ 0 \in Pair
    BY <1>7, PoolAssumption DEF StoreAnswers, Pair
  <2> QED
    BY <1>0, <2>1, <2>2, <2>6, <2>7, <2>8, NextCall
<1>8. CASE AuthAnswers(a)
  <2>1. InFlight(a) /\ KeepsMembers /\ Frame
    BY <1>0, <1>8 DEF AuthAnswers, InFlight
  <2> DEFINE authed == attempt[a].authed \cup {attempt[a].cur}
  <2>2. attempt[a].cur \in M(a) /\ M(a) \subseteq Token
    BY <1>0, <1>8, <2>1, InFlightMembers DEF AuthAnswers
  <2>3. /\ authed \in SUBSET Token /\ authed \subseteq attempt[a].authed \cup M(a)
        /\ attempt[a].todo \in SUBSET M(a)
        /\ Loops(a, attempt[a].todo, authed, arrays)
    BY <1>0, <1>8, <2>1, <2>2 DEF AuthAnswers, Attempts, RouteSound, M
  <2> HIDE DEF authed
  <2> QED
    BY <1>0, <2>1, <2>3, LoopStep
<1> QED
  BY <1>1, <1>2, <1>3, <1>4, <1>5, <1>6, <1>7, <1>8 DEF Answers

-----------------------------------------------------------------------------
(* Sessions, connections and routing.                                      *)

\* The last parts of TypeOK: what it says of several variables at once.
Linked ==
    /\ conn # None => attempt[conn].pc # "free"
    /\ accounts = NoArray => conn = None /\ ~timer
    /\ \A a \in Attempt : InFlight(a) =>
        /\ attempt[a].array # NoArray
        /\ attempt[a].pc \in {"refresh", "store", "auth", "reap"} => attempt[a].cur \in M(a)

\* What an attempt step and the steps of the session have in common: the facts of
\* IInv that say nothing of tokens.
Served == Linked /\ ConnSound /\ RouteSound

LEMMA NoneIsNone == None \notin Attempt /\ None \notin Token
BY PoolAssumption

LEMMA AttemptKeeps ==
    ASSUME IInv, NEW a \in Attempt, InFlight(a), AttemptStep(a), KeepsMembers, Frame
    PROVE  Served'
<1>0. TypeOK /\ Linked /\ ConnSound /\ RouteSound
  BY DEF IInv, TypeOK, Linked, M
<1>1. PICK v \in Attempts :
        /\ attempt' = [attempt EXCEPT ![a] = v]
        /\ \/ /\ v = Free
              /\ Superseded(a) \/ attempt[a].sock = "closed"
              /\ UNCHANGED <<conn, timer>>
           \/ /\ v = Free
              /\ ~Superseded(a)
              /\ conn' = None /\ timer' = (phase = "up")
           \/ /\ Advances(a, v)
              /\ UNCHANGED <<conn, timer>>
  BY DEF AttemptStep
<1>2. \A b \in Attempt : attempt'[b] = IF b = a THEN v ELSE attempt[b]
  BY <1>0, <1>1 DEF TypeOK
<1>3. /\ phase' = phase /\ accounts' = accounts /\ routed' = routed
      /\ conn \in Attempt \cup {None} /\ accounts \in Array \cup {NoArray}
  BY <1>0 DEF Frame, TypeOK
<1>4. Free.pc = "free" /\ Free.own = FALSE /\ Free.sock = "closed"
  BY DEF Free
<1>5. /\ accounts # NoArray => Members(arrays[accounts])' = Members(arrays[accounts])
      /\ \A b \in Attempt : attempt'[b].array \in Array =>
            Members(arrays'[attempt'[b].array]) = Members(arrays[attempt'[b].array])
  BY <1>3 DEF KeepsMembers, InUse, Members
<1>9. ASSUME \A b \in Attempt \ {a} : attempt'[b] = attempt[b],
             attempt'[a] = v, v = Free \/ Advances(a, v)
      PROVE  RouteSound'
  <2>1. attempt[a].array \in Array /\ M(a) \subseteq Token /\ InFlight(a)
    BY <1>0, InFlightMembers
  <2>2. ASSUME NEW b \in Attempt, attempt'[b].own, phase # "stopped"
        PROVE  /\ attempt[b].own /\ accounts \in Array
               /\ attempt'[b].authed \subseteq Members(arrays[accounts])
               /\ InFlight(b)' => attempt'[b].array = accounts
    <3>1. CASE b # a
      BY <1>0, <1>3, <1>9, <2>2, <3>1 DEF RouteSound, InFlight
    <3>2. CASE b = a
      <4>1. Advances(a, v) /\ attempt[a].own
        BY <1>4, <1>9, <2>2, <3>2 DEF Advances
      <4>2. /\ accounts \in Array /\ attempt[a].array = accounts
            /\ attempt[a].authed \subseteq Members(arrays[accounts])
        BY <1>0, <1>3, <2>1, <2>2, <4>1 DEF RouteSound
      <4> QED
        BY <1>9, <3>2, <4>1, <4>2 DEF Advances, InFlight, M
    <3> QED
      BY <3>1, <3>2
  <2>3. ASSUME NEW b \in Attempt, InFlight(b)'
        PROVE  /\ attempt'[b].array \in Array
               /\ attempt'[b].todo \subseteq Members(arrays[attempt'[b].array])
    <3>1. CASE b # a
      <4>1. InFlight(b) /\ attempt'[b] = attempt[b]
        BY <1>9, <2>3, <3>1 DEF InFlight
      <4> QED
        BY <1>0, <4>1, InFlightMembers DEF RouteSound
    <3>2. CASE b = a
      BY <1>4, <1>9, <2>1, <2>3, <3>2 DEF Advances, InFlight, M
    <3> QED
      BY <3>1, <3>2
  <2>4. \A b \in Attempt : InFlight(b)' => attempt'[b].todo \subseteq Members(arrays'[attempt'[b].array])
    BY <1>5, <2>3
  <2>5. Members(arrays[accounts])' = Members(arrays'[accounts])
    BY <1>3 DEF Members
  <2>6. accounts # NoArray => \A t \in Members(arrays'[accounts]) : routed[Ctid[t]] = t
    BY <1>0, <1>5, <2>5 DEF RouteSound
  <2>7. ASSUME NEW b \in Attempt, attempt'[b].own, phase # "stopped"
        PROVE  /\ attempt'[b].authed \subseteq Members(arrays'[accounts])
               /\ InFlight(b)' => attempt'[b].array = accounts
               /\ accounts # NoArray
    BY <1>3, <1>5, <2>2, <2>5, <2>7, Pieces
  <2> QED
    BY <1>3, <2>4, <2>6, <2>7 DEF RouteSound, Members
<1>6. CASE v = Free /\ UNCHANGED <<conn, timer>> /\ (Superseded(a) \/ attempt[a].sock = "closed")
  <2>1. conn # a
    BY <1>0, <1>6, NoneIsNone DEF ConnSound, Superseded, Linked
  <2>2. Linked'
    BY <1>0, <1>2, <1>3, <1>4, <1>5, <1>6, <2>1, AttemptTyped DEF Linked, InFlight, M
  <2>3. ConnSound'
    BY <1>0, <1>2, <1>3, <1>4, <1>6, <2>1, NoneIsNone DEF ConnSound, ShapeSound, Superseded
  <2>4. RouteSound'
    BY <1>0, <1>2, <1>3, <1>4, <1>6, <1>9
  <2> QED
    BY <2>2, <2>3, <2>4 DEF Served
<1>7. CASE v = Free /\ ~Superseded(a) /\ conn' = None /\ timer' = (phase = "up")
  <2>1. attempt[a].own /\ accounts # NoArray /\ phase = "up"
    BY <1>0, <1>7 DEF ConnSound, RouteSound, Superseded
  <2>2. \A b \in Attempt : b # a => attempt[b].sock = "closed" /\ ~attempt[b].own
    BY <1>0, <2>1, NoneIsNone DEF ConnSound
  <2>3. Linked'
    BY <1>0, <1>2, <1>3, <1>4, <1>5, <1>7, <2>1, AttemptTyped DEF Linked, InFlight, M
  <2>4. ConnSound'
    BY <1>0, <1>2, <1>3, <1>4, <1>7, <2>1, <2>2, NoneIsNone DEF ConnSound, ShapeSound, Superseded
  <2>5. RouteSound'
    BY <1>0, <1>2, <1>3, <1>4, <1>7, <1>9
  <2> QED
    BY <2>3, <2>4, <2>5 DEF Served
<1>8. CASE Advances(a, v) /\ UNCHANGED <<conn, timer>>
  <2>1. /\ v.own = attempt[a].own /\ v.pc \notin {"free", "open"}
        /\ v.sock # attempt[a].sock => attempt[a].sock # "closed" /\ v.sock # "closed"
        /\ v.authed \subseteq attempt[a].authed \cup M(a)
        /\ v.pc # "up" =>
            /\ v.array = attempt[a].array
            /\ v.todo \subseteq M(a)
            /\ v.pc \in {"refresh", "store", "auth", "reap"} => v.cur \in M(a)
    BY <1>8 DEF Advances
  <2>2. RouteSound'
    BY <1>2, <1>8, <1>9
  <2>3. Linked'
    <3>1. attempt[a].array \in Array
      BY <1>0, InFlightMembers
    <3>2. ASSUME NEW b \in Attempt, InFlight(b)'
          PROVE  /\ attempt'[b].array \in Array
                 /\ attempt'[b].pc \in {"refresh", "store", "auth", "reap"} =>
                        attempt'[b].cur \in Members(arrays[attempt'[b].array])
      <4>1. CASE b # a
        <5>1. InFlight(b) /\ attempt'[b] = attempt[b]
          BY <1>2, <3>2, <4>1 DEF InFlight
        <5> QED
          BY <1>0, <5>1, InFlightMembers DEF M
      <4>2. CASE b = a
        BY <1>2, <2>1, <3>1, <3>2, <4>2 DEF InFlight, M
      <4> QED
        BY <4>1, <4>2
    <3>3. ASSUME NEW b \in Attempt, InFlight(b)'
          PROVE  /\ attempt'[b].array # NoArray
                 /\ attempt'[b].pc \in {"refresh", "store", "auth", "reap"} => attempt'[b].cur \in M(b)'
      BY <1>5, <3>2, <3>3, Pieces DEF M, Members
    <3>4. conn' # None => attempt'[conn'].pc # "free"
      BY <1>0, <1>2, <1>3, <1>8, <2>1 DEF Linked
    <3>5. accounts' = NoArray => conn' = None /\ ~timer'
      BY <1>0, <1>3, <1>8 DEF Linked
    <3> QED
      BY <3>3, <3>4, <3>5 DEF Linked
  <2>4. ConnSound'
    BY <1>0, <1>2, <1>3, <1>4, <1>8, <2>1, NoneIsNone DEF ConnSound, ShapeSound, Superseded
  <2> QED
    BY <2>2, <2>3, <2>4 DEF Served
<1> QED
  BY <1>1, <1>6, <1>7, <1>8

\* What is left of attempt b once its socket is closed for it.
Quieted(b, h) ==
    \/ h = Free
    \/ /\ attempt[b].pc # "free" /\ h.pc = attempt[b].pc
       /\ h.array = attempt[b].array /\ h.todo = attempt[b].todo
       /\ h.cur = attempt[b].cur /\ h.authed = attempt[b].authed
       /\ h.pair = attempt[b].pair
       /\ h.sock = "closed"

\* Every socket is closed, finished attempts are gone and the others go on without
\* one: a lost connection, a reconcile of the session, a stop, the end.
Silences ==
    /\ conn' = None
    /\ timer' = (accounts' # NoArray)
    /\ phase' # "up" => accounts' = NoArray
    /\ \A b \in Attempt :
        /\ Quieted(b, attempt'[b])
        /\ attempt'[b].own => attempt[b].own
        /\ attempt'[b].own /\ phase' # "stopped" =>
            /\ attempt[b].pc # "open" /\ phase # "stopped" /\ accounts' = accounts
            /\ Members(arrays'[accounts]) = Members(arrays[accounts])
        /\ InFlight(b)' => Members(arrays'[attempt[b].array]) = Members(arrays[attempt[b].array])
    /\ accounts' # NoArray => \A t \in Members(arrays'[accounts']) : routed'[Ctid[t]] = t

LEMMA SilenceKeeps ==
    ASSUME IInv, Silences
    PROVE  Served'
<1>0. TypeOK /\ Linked /\ ConnSound /\ RouteSound
  BY DEF IInv, TypeOK, Linked, M
<1>1. Free.pc = "free" /\ Free.own = FALSE /\ Free.sock = "closed"
  BY DEF Free
<1>2. ASSUME NEW b \in Attempt, InFlight(b)'
      PROVE  /\ InFlight(b) /\ attempt'[b].array = attempt[b].array
             /\ Members(arrays'[attempt[b].array]) = Members(arrays[attempt[b].array])
             /\ attempt'[b].pc = attempt[b].pc /\ attempt'[b].cur = attempt[b].cur
             /\ attempt'[b].todo = attempt[b].todo
  BY <1>1, <1>2 DEF Silences, Quieted, InFlight
<1>3. Linked'
  <2>1. ASSUME NEW b \in Attempt, InFlight(b)'
        PROVE  /\ attempt'[b].array # NoArray
               /\ attempt'[b].pc \in {"refresh", "store", "auth", "reap"} => attempt'[b].cur \in M(b)'
    BY <1>0, <1>2, <2>1, Pieces, InFlightMembers DEF M, Members
  <2> QED
    BY <2>1 DEF Linked, Silences
<1>4. ConnSound'
  <2>1. \A b \in Attempt : attempt'[b].sock = "closed"
    BY <1>1 DEF Silences, Quieted
  <2>2. \A b \in Attempt : attempt'[b].own => attempt[b].own
    BY <1>1 DEF Silences, Quieted
  <2>3. \A b, c \in Attempt : attempt'[b].own /\ attempt'[c].own => b = c
    BY <1>0, <2>2 DEF ConnSound
  <2>4. \A b \in Attempt : ShapeSound(b)'
    BY <1>1 DEF Silences, Quieted, ShapeSound, Superseded
  <2> QED
    BY <2>1, <2>3, <2>4 DEF ConnSound, Silences
<1>5. RouteSound'
  <2>1. ASSUME NEW b \in Attempt, attempt'[b].own, phase' # "stopped"
        PROVE  /\ accounts' # NoArray /\ attempt'[b].authed \subseteq Members(arrays'[accounts'])
               /\ InFlight(b)' => attempt'[b].array = accounts'
    <3>1. /\ attempt[b].own /\ phase # "stopped" /\ accounts' = accounts
          /\ Members(arrays'[accounts]) = Members(arrays[accounts])
          /\ attempt'[b].authed = attempt[b].authed
      BY <1>1, <2>1 DEF Silences, Quieted
    <3> QED
      BY <1>0, <1>2, <3>1 DEF RouteSound
  <2>2. ASSUME NEW b \in Attempt, InFlight(b)'
        PROVE  attempt'[b].todo \subseteq Members(arrays'[attempt'[b].array])
    BY <1>0, <1>2, <2>2 DEF RouteSound
  <2> QED
    BY <2>1, <2>2 DEF RouteSound, Silences, Members
<1> QED
  BY <1>3, <1>4, <1>5 DEF Served

\* connectEnv of a session without a connection.
Connects ==
    \E f \in Attempt :
        /\ attempt[f].pc = "free"
        /\ conn = None /\ conn' = f /\ ~timer'
        /\ attempt' = Connecting(attempt, f, accounts')
        /\ accounts' \in Array /\ phase' = "up"
        /\ \A b \in Attempt : InFlight(b) =>
            Members(arrays'[attempt[b].array]) = Members(arrays[attempt[b].array])
        /\ \A t \in Members(arrays'[accounts']) : routed'[Ctid[t]] = t

LEMMA ConnectKeeps ==
    ASSUME IInv, Connects
    PROVE  Served' /\ attempt' \in [Attempt -> Attempts] /\ conn' \in Attempt
<1>0. TypeOK /\ Linked /\ ConnSound /\ RouteSound
  BY DEF IInv, TypeOK, Linked, M
<1>1. PICK f \in Attempt :
        /\ attempt[f].pc = "free"
        /\ conn = None /\ conn' = f /\ ~timer'
        /\ attempt' = Connecting(attempt, f, accounts')
        /\ accounts' \in Array /\ phase' = "up"
        /\ \A b \in Attempt : InFlight(b) =>
            Members(arrays'[attempt[b].array]) = Members(arrays[attempt[b].array])
        /\ \A t \in Members(arrays'[accounts']) : routed'[Ctid[t]] = t
  BY DEF Connects
<1> DEFINE new == [Free EXCEPT !.pc = "open", !.own = TRUE, !.sock = "opening",
                               !.array = accounts']
<1>2. /\ new \in Attempts /\ new.pc = "open" /\ new.own = TRUE /\ new.sock = "opening"
      /\ new.array = accounts' /\ new.todo = {} /\ new.authed = {}
  BY <1>1, Pieces DEF Free, Attempts, Calls, Socks
<1>3. attempt'[f] = new
  BY <1>0, <1>1 DEF Connecting, Bumped
<1>4. attempt' = [Bumped(attempt) EXCEPT ![f] = new]
  BY <1>1 DEF Connecting
<1> HIDE DEF new
<1>5. ASSUME NEW b \in Attempt, b # f
      PROVE  /\ attempt'[b] \in Attempts /\ attempt'[b].own = FALSE
             /\ attempt'[b].pc = attempt[b].pc /\ attempt'[b].sock = attempt[b].sock
             /\ attempt'[b].array = attempt[b].array /\ attempt'[b].todo = attempt[b].todo
             /\ attempt'[b].cur = attempt[b].cur
             /\ attempt[b] = Free => attempt'[b] = Free
  <2>1. attempt'[b] = [attempt[b] EXCEPT !.own = FALSE]
    BY <1>4, <1>5 DEF Bumped
  <2>2. attempt[b] \in Attempts
    BY <1>0 DEF TypeOK
  <2>3. [Free EXCEPT !.own = FALSE] = Free
    <3>1. Free.own = FALSE
      BY DEF Free
    <3> QED
      BY <3>1, Pieces DEF Attempts
  <2>4. attempt[b] = Free => attempt'[b] = Free
    BY <2>1, <2>3
  <2> QED
    BY <2>1, <2>2, <2>4 DEF Attempts
<1>6. attempt' \in [Attempt -> Attempts]
  <2>1. DOMAIN attempt' = Attempt /\ attempt' = [b \in DOMAIN attempt' |-> attempt'[b]]
    BY <1>4 DEF Bumped
  <2> QED
    BY <1>2, <1>3, <1>5, <2>1
<1>7. conn' = f /\ f # None /\ \A b \in Attempt : attempt[b].sock = "closed"
  BY <1>0, <1>1, NoneIsNone DEF ConnSound
<1>8. ASSUME NEW b \in Attempt, b # f, InFlight(b)'
      PROVE  /\ InFlight(b) /\ attempt[b].array \in Array
             /\ Members(arrays'[attempt'[b].array]) = Members(arrays[attempt[b].array])
  BY <1>0, <1>1, <1>5, <1>8, InFlightMembers DEF InFlight
<1>9. Linked'
  <2>1. ASSUME NEW b \in Attempt, InFlight(b)'
        PROVE  /\ attempt'[b].array # NoArray
               /\ attempt'[b].pc \in {"refresh", "store", "auth", "reap"} => attempt'[b].cur \in M(b)'
    <3>1. CASE b = f
      BY <1>1, <1>2, <1>3, <3>1, Pieces
    <3>2. CASE b # f
      BY <1>0, <1>5, <1>8, <2>1, <3>2, Pieces, InFlightMembers DEF M, Members
    <3> QED
      BY <3>1, <3>2
  <2> QED
    BY <1>1, <1>2, <1>3, <2>1, Pieces DEF Linked
<1>10. ConnSound'
  <2>1. \A b \in Attempt : attempt'[b].own => b = f
    BY <1>5
  <2>2. \A b \in Attempt : attempt'[b].sock # "closed" => b = f
    BY <1>5, <1>7
  <2>3. ASSUME NEW b \in Attempt PROVE ShapeSound(b)'
    <3>1. CASE b = f
      BY <1>2, <1>3, <3>1 DEF ShapeSound
    <3>2. CASE b # f
      <4>1. attempt[b].pc = "free" => attempt[b] = Free
        BY <1>0 DEF ConnSound, ShapeSound
      <4>2. attempt'[b].own = FALSE /\ attempt'[b].pc = attempt[b].pc
        BY <1>5, <3>2
      <4>3. attempt[b] = Free => attempt'[b] = Free
        BY <1>5, <3>2
      <4> QED
        BY <4>1, <4>2, <4>3 DEF ShapeSound, Superseded
    <3> QED
      BY <3>1, <3>2
  <2> QED
    BY <1>1, <1>2, <1>3, <1>7, <2>1, <2>2, <2>3 DEF ConnSound
<1>11. RouteSound'
  <2>1. ASSUME NEW b \in Attempt, attempt'[b].own
        PROVE  /\ accounts' # NoArray /\ attempt'[b].authed \subseteq Members(arrays'[accounts'])
               /\ attempt'[b].array = accounts'
    BY <1>1, <1>2, <1>3, <1>5, <2>1, Pieces
  <2>2. ASSUME NEW b \in Attempt, InFlight(b)'
        PROVE  attempt'[b].todo \subseteq Members(arrays'[attempt'[b].array])
    BY <1>0, <1>2, <1>3, <1>5, <1>8, <2>2 DEF RouteSound
  <2> QED
    BY <1>1, <2>1, <2>2 DEF RouteSound, Members
<1> QED
  BY <1>6, <1>7, <1>9, <1>10, <1>11 DEF Served

LEMMA DropKeeps ==
    ASSUME IInv, NEW a \in Attempt, SocketDrops(a)
    PROVE  Served' /\ attempt' \in [Attempt -> Attempts]
<1>0. TypeOK /\ Linked /\ ConnSound /\ RouteSound /\ attempt[a] \in Attempts
  BY DEF IInv, TypeOK, Linked, M
<1>1. /\ attempt[a].sock = "open"
      /\ attempt' = [attempt EXCEPT ![a] = [attempt[a] EXCEPT !.sock = "dead"]]
      /\ UNCHANGED <<phase, session>>
  BY <1>0 DEF SocketDrops, TypeOK
<1>2. attempt' \in [Attempt -> Attempts]
  <2>1. [attempt[a] EXCEPT !.sock = "dead"] \in Attempts
    BY <1>0 DEF Attempts, Socks
  <2> QED
    BY <1>0, <1>1, <2>1 DEF TypeOK
<1>3. ASSUME NEW b \in Attempt
      PROVE  /\ attempt'[b].pc = attempt[b].pc /\ attempt'[b].own = attempt[b].own
             /\ attempt'[b].array = attempt[b].array /\ attempt'[b].todo = attempt[b].todo
             /\ attempt'[b].cur = attempt[b].cur /\ attempt'[b].authed = attempt[b].authed
             /\ attempt'[b].sock = IF b = a THEN "dead" ELSE attempt[b].sock
             /\ b # a => attempt'[b] = attempt[b]
  <2>1. attempt[b] \in Attempts
    BY <1>0 DEF TypeOK
  <2> QED
    BY <1>0, <1>1, <2>1 DEF Attempts, TypeOK
<1>4. attempt[a].pc # "free" /\ (attempt[a].pc = "open" => Superseded(a))
  BY <1>0, <1>1 DEF ConnSound, ShapeSound, Free
<1>5. Linked'
  BY <1>0, <1>1, <1>3 DEF Linked, InFlight, M, session, Members, TypeOK
<1>6. ConnSound'
  BY <1>0, <1>1, <1>3, <1>4 DEF ConnSound, ShapeSound, Superseded, session, TypeOK
<1>7. RouteSound'
  BY <1>0, <1>1, <1>3 DEF RouteSound, InFlight, session, Members
<1> QED
  BY <1>2, <1>5, <1>6, <1>7 DEF Served

-----------------------------------------------------------------------------
(* The steps of the session.                                               *)

LEMMA BumpedFacts ==
    ASSUME TypeOK
    PROVE  /\ Bumped(attempt) \in [Attempt -> Attempts]
           /\ \A b \in Attempt :
                /\ Bumped(attempt)[b] = [attempt[b] EXCEPT !.own = FALSE]
                /\ attempt[b] = Free => Bumped(attempt)[b] = Free
<1>1. \A b \in Attempt : Bumped(attempt)[b] = [attempt[b] EXCEPT !.own = FALSE]
  BY DEF Bumped
<1>2. \A b \in Attempt : [attempt[b] EXCEPT !.own = FALSE] \in Attempts
  <2>1. \A b \in Attempt : attempt[b] \in Attempts
    BY AttemptTyped
  <2> QED
    BY <2>1 DEF Attempts
<1>3. [Free EXCEPT !.own = FALSE] = Free
  <2>1. Free.own = FALSE
    BY DEF Free
  <2> QED
    BY <2>1, Pieces DEF Attempts
<1> QED
  BY <1>1, <1>2, <1>3 DEF Bumped

\* The session's connection is closed, its generation counted up or not.
LEMMA HungFacts ==
    ASSUME IInv, NEW at, at = attempt \/ at = Bumped(attempt)
    PROVE  /\ Hung(at, conn) \in [Attempt -> Attempts]
           /\ \A b \in Attempt :
                /\ Quieted(b, Hung(at, conn)[b])
                /\ Hung(at, conn)[b].own => at = attempt /\ attempt[b].own
                /\ Hung(at, conn)[b] = Free => attempt[b].pc \in {"free", "up"}
<1>0. TypeOK /\ ConnSound /\ (conn # None => attempt[conn].pc # "free")
  BY DEF IInv, TypeOK
<1>1. at \in [Attempt -> Attempts]
  BY <1>0, BumpedFacts DEF TypeOK
<1>2. ASSUME NEW b \in Attempt
      PROVE  /\ at[b].pc = attempt[b].pc /\ at[b].array = attempt[b].array
             /\ at[b].todo = attempt[b].todo /\ at[b].cur = attempt[b].cur
             /\ at[b].authed = attempt[b].authed /\ at[b].sock = attempt[b].sock
             /\ at[b].pair = attempt[b].pair
             /\ at[b].own => at = attempt /\ attempt[b].own
             /\ attempt[b].pc = "free" => at[b] = Free
  <2>1. attempt[b] \in Attempts /\ (attempt[b].pc = "free" => attempt[b] = Free)
    BY <1>0 DEF TypeOK, ConnSound, ShapeSound
  <2>2. CASE at = attempt
    BY <2>1, <2>2
  <2>3. CASE at = Bumped(attempt)
    <3>1. at[b] = [attempt[b] EXCEPT !.own = FALSE] /\ (attempt[b] = Free => at[b] = Free)
      BY <1>0, <2>3, BumpedFacts
    <3> QED
      BY <2>1, <3>1 DEF Attempts
  <2> QED
    BY <2>2, <2>3
<1>3. ASSUME NEW b \in Attempt
      PROVE  /\ Hung(at, conn)[b] \in Attempts
             /\ Quieted(b, Hung(at, conn)[b])
             /\ Hung(at, conn)[b].own => at = attempt /\ attempt[b].own
             /\ Hung(at, conn)[b] = Free => attempt[b].pc \in {"free", "up"}
  <2> DEFINE h == Hung(at, conn)[b]
  <2>1. at[b] \in Attempts
    BY <1>1
  <2>2. CASE b # conn
    <3>1. h = at[b] /\ attempt[b].sock = "closed"
      BY <1>0, <2>2 DEF Hung, ConnSound
    <3>2. h = Free => attempt[b].pc = "free"
      <4>1. Free.pc = "free"
        BY DEF Free
      <4> QED
        BY <1>2, <3>1, <4>1
    <3> QED
      BY <1>2, <2>1, <3>1, <3>2 DEF Quieted
  <2>3. CASE b = conn /\ at[b].pc = "up"
    <3>1. h = Free /\ Free.own = FALSE
      BY <2>3 DEF Hung, Free
    <3> QED
      BY <1>2, <2>3, <3>1, Pieces DEF Quieted
  <2>4. CASE b = conn /\ at[b].pc # "up"
    <3>1. h = [at[b] EXCEPT !.sock = "closed"] /\ attempt[b].pc # "free"
      BY <1>0, <2>4, NoneIsNone DEF Hung
    <3>2. /\ h \in Attempts /\ h.pc = at[b].pc /\ h.array = at[b].array /\ h.todo = at[b].todo
          /\ h.cur = at[b].cur /\ h.authed = at[b].authed /\ h.pair = at[b].pair
          /\ h.sock = "closed" /\ h.own = at[b].own
      BY <2>1, <3>1 DEF Attempts, Socks
    <3>3. h = Free => attempt[b].pc = "free"
      BY <1>2, <3>2 DEF Free
    <3> HIDE DEF h
    <3> QED
      BY <1>2, <3>1, <3>2, <3>3 DEF Quieted, h
  <2> QED
    BY <2>2, <2>3, <2>4
<1>4. Hung(at, conn) = [b \in Attempt |-> Hung(at, conn)[b]]
  BY DEF Hung
<1> QED
  BY <1>3, <1>4

\* Everything that TypeOK says of one variable at a time.
TableTyped ==
    /\ phase \in Phases
    /\ rows \in [Token -> Rows]
    /\ valid \in SUBSET Pair /\ lost \in SUBSET Token
    /\ clock \in Nat /\ faults \in Nat /\ loads \in Nat /\ stops \in Nat
    /\ lastProbe \in [count : Nat, at : Nat]
    /\ tick \in [pc : {"rest", "loading", "loaded"}, read : Objects]

SessionTyped ==
    /\ accounts \in Array \cup {NoArray}
    /\ arrays \in [Array -> Objects]
    /\ signature \in Objects
    /\ timer \in BOOLEAN
    /\ conn \in Attempt \cup {None}
    /\ attempt \in [Attempt -> Attempts]
    /\ routed \in [{Ctid[t] : t \in Token} -> Token \cup {None}]

LEMMA TypedAndLinked == TypeOK <=> TableTyped /\ SessionTyped /\ Linked
BY DEF TypeOK, TableTyped, SessionTyped, Linked, M

\* What the steps of the session keep.
Sound == SessionTyped /\ Served

LEMMA SessionUnchanged ==
    ASSUME IInv, UNCHANGED <<session, attempt>>,
           phase' = phase \/ (accounts = NoArray /\ "stopped" \notin {phase, phase'})
    PROVE  Sound'
<1>1. TypeOK /\ Linked /\ ConnSound /\ RouteSound /\ SessionTyped
  BY TypedAndLinked DEF IInv
<1>2. SessionTyped' /\ Linked'
  BY <1>1 DEF SessionTyped, Linked, InFlight, M, Members, session
<1>3. ConnSound'
  BY <1>1 DEF ConnSound, ShapeSound, Superseded, session
<1>4. RouteSound'
  BY <1>1 DEF RouteSound, InFlight, Members, session
<1> QED
  BY <1>2, <1>3, <1>4 DEF Sound, Served

\* The socket of an attempt that owns the session is the session's connection.
LEMMA OwnSocket ==
    ASSUME IInv, NEW a \in Attempt, attempt[a].own, attempt[a].sock \in {"open", "dead"}
    PROVE  /\ conn = a /\ accounts \in Array /\ phase = "up"
           /\ attempt[a].pc # "open"
           /\ \A b \in Attempt : attempt[b].own => b = a
<1>1. TypeOK /\ Linked /\ ConnSound /\ RouteSound
  BY DEF IInv, TypeOK, Linked, M
<1>2. conn = a
  BY <1>1 DEF ConnSound
<1>3. accounts \in Array /\ phase = "up"
  BY <1>1, <1>2, NoneIsNone DEF Linked, ConnSound, TypeOK
<1>4. attempt[a].pc # "open"
  BY <1>1, <1>3 DEF ConnSound, ShapeSound, Superseded
<1> QED
  BY <1>1, <1>2, <1>3, <1>4 DEF ConnSound

LEMMA LossKeeps ==
    ASSUME IInv, NEW a \in Attempt, attempt[a].own, attempt[a].sock \in {"open", "dead"},
           HandleLost(attempt), UNCHANGED <<phase, accounts, signature, routed>>,
           arrays' \in [Array -> Objects],
           \A x \in Array : Members(arrays'[x]) = Members(arrays[x])
    PROVE  Sound'
<1>1. TypeOK /\ RouteSound
  BY DEF IInv
<1>2. /\ conn = a /\ accounts \in Array /\ phase = "up" /\ attempt[a].pc # "open"
      /\ \A b \in Attempt : attempt[b].own => b = a
  BY OwnSocket
<1>3. /\ conn' = None /\ timer' = TRUE /\ attempt' = Hung(attempt, conn)
      /\ attempt' \in [Attempt -> Attempts]
      /\ \A b \in Attempt : Quieted(b, attempt'[b]) /\ (attempt'[b].own => attempt[b].own)
  BY <1>2, HungFacts DEF HandleLost, ScheduleReconnect
<1>4. \A t \in Members(arrays'[accounts]) : routed[Ctid[t]] = t
  BY <1>1, <1>2, Pieces DEF RouteSound
<1>5. ASSUME NEW b \in Attempt, InFlight(b)'
      PROVE  attempt[b].array \in Array
  <2>1. InFlight(b)
    BY <1>3, <1>5 DEF Quieted, Free, InFlight
  <2> QED
    BY <1>1, <2>1, InFlightMembers
<1>6. Silences
  BY <1>2, <1>3, <1>4, <1>5, Pieces DEF Silences
<1>7. SessionTyped'
  BY <1>1, <1>3 DEF TypeOK, SessionTyped
<1> QED
  BY <1>6, <1>7, SilenceKeeps DEF Sound

LEMMA ForcedAccount ==
    ASSUME NEW o \in Account
    PROVE  [o EXCEPT !.forced = TRUE] \in Account
BY DEF Account

LEMMA ForcedFacts ==
    ASSUME TypeOK, accounts \in Array, NEW t \in Token,
           arrays' = [arrays EXCEPT ![accounts][t].forced = TRUE]
    PROVE  /\ arrays' \in [Array -> Objects]
           /\ \A x \in Array, u \in Token : arrays'[x][u].pair = arrays[x][u].pair
           /\ \A x \in Array : Members(arrays'[x]) = Members(arrays[x])
<1>1. arrays \in [Array -> [Token -> Account]]
  BY DEF TypeOK, Objects
<1>2. arrays' = [arrays EXCEPT ![accounts] =
                    [arrays[accounts] EXCEPT ![t] = [arrays[accounts][t] EXCEPT !.forced = TRUE]]]
  BY <1>1
<1>3. [arrays[accounts][t] EXCEPT !.forced = TRUE] \in Account
  <2>1. arrays[accounts][t] \in Account
    BY <1>1
  <2> QED
    BY <2>1, ForcedAccount
<1>4. arrays' \in [Array -> [Token -> Account]]
  BY <1>1, <1>2, <1>3
<1>5. \A x \in Array, u \in Token : arrays'[x][u].pair = arrays[x][u].pair
  BY <1>1, <1>2 DEF Account
<1>6. \A x \in Array : Members(arrays'[x]) = Members(arrays[x])
  BY <1>5 DEF Members
<1> QED
  BY <1>4, <1>5, <1>6 DEF Objects

\* The new array of Seeds and Replaces: only the new session refers to it.
LEMMA NewArray ==
    ASSUME IInv, NEW objects \in Objects,
           \A t, u \in Members(objects) : Ctid[t] = Ctid[u] => t = u,
           arrays' = Collected([arrays EXCEPT ![FreeArray] = objects], attempt', FreeArray),
           accounts' = FreeArray, routed' = Routing(objects)
    PROVE  /\ arrays' \in [Array -> Objects]
           /\ accounts' \in Array /\ arrays'[accounts'] = objects
           /\ \A b \in Attempt : InFlight(b) /\ attempt'[b].array = attempt[b].array =>
                arrays'[attempt[b].array] = arrays[attempt[b].array]
           /\ \A x \in Array : arrays'[x] \in {arrays[x], objects, Nobody}
           /\ \A t \in Members(arrays'[accounts']) : routed'[Ctid[t]] = t
           /\ routed' \in [{Ctid[t] : t \in Token} -> Token \cup {None}]
<1> DEFINE store == [arrays EXCEPT ![FreeArray] = objects]
<1>1. TypeOK /\ FreeArray \in Array /\ \A a \in Attempt : attempt[a].array # FreeArray
  BY ArrayToSpare DEF IInv
<1>2. /\ store \in [Array -> Objects] /\ store[FreeArray] = objects
      /\ \A x \in Array : x # FreeArray => store[x] = arrays[x]
  BY <1>1 DEF TypeOK
<1>3. arrays' = Collected(store, attempt', FreeArray)
  OBVIOUS
<1> HIDE DEF store
<1>4. /\ arrays' \in [Array -> Objects]
      /\ \A x \in Array :
            /\ x \in InUse(attempt', FreeArray) => arrays'[x] = store[x]
            /\ arrays'[x] \in {store[x], Nobody}
  <2>1. /\ Collected(store, attempt', FreeArray) \in [Array -> Objects]
        /\ \A x \in Array :
            /\ x \in InUse(attempt', FreeArray) =>
                    Collected(store, attempt', FreeArray)[x] = store[x]
            /\ Collected(store, attempt', FreeArray)[x] \in {store[x], Nobody}
    BY <1>2, CollectedFacts
  <2> QED
    BY <1>3, <2>1
<1>5. arrays'[FreeArray] = objects
  BY <1>1, <1>2, <1>4 DEF InUse
<1>6. ASSUME NEW b \in Attempt, InFlight(b), attempt'[b].array = attempt[b].array
      PROVE  arrays'[attempt[b].array] = arrays[attempt[b].array]
  <2>1. attempt[b].array \in Array /\ attempt[b].array # FreeArray
    BY <1>1, <1>6, InFlightMembers
  <2>2. attempt[b].array \in InUse(attempt', FreeArray)
    BY <1>6 DEF InUse
  <2> QED
    BY <1>2, <1>4, <2>1, <2>2
<1>7. \A x \in Array : arrays'[x] \in {arrays[x], objects, Nobody}
  BY <1>2, <1>4
<1> QED
  BY <1>1, <1>4, <1>5, <1>6, <1>7, RoutingFacts

LEMMA SeedKeeps ==
    ASSUME IInv, NEW objects \in Objects, accounts = NoArray, phase' = "up",
           \A t, u \in Members(objects) : Ctid[t] = Ctid[u] => t = u,
           Seeds(objects)
    PROVE  Sound'
<1>1. TypeOK /\ Linked
  BY TypedAndLinked DEF IInv
<1>2. FreeAttempt \in Attempt /\ attempt[FreeAttempt].pc = "free"
  BY DEF Seeds, FreeAttempt, Idle
<1>3. /\ conn = None /\ conn' = FreeAttempt /\ ~timer' /\ timer' \in BOOLEAN
      /\ accounts' = FreeArray /\ attempt' = Connecting(attempt, FreeAttempt, accounts')
      /\ signature' = objects /\ routed' = Routing(objects)
      /\ arrays' = Collected([arrays EXCEPT ![FreeArray] = objects], attempt', FreeArray)
  BY <1>1 DEF Seeds, Linked, ComputeSignature
<1>4. ASSUME NEW b \in Attempt, InFlight(b) PROVE attempt'[b].array = attempt[b].array
  <2>1. b # FreeAttempt /\ attempt[b] \in Attempts
    BY <1>1, <1>2, <1>4 DEF InFlight, TypeOK
  <2> QED
    BY <1>3, <2>1 DEF Connecting, Bumped, Attempts
<1>5. /\ arrays' \in [Array -> Objects]
      /\ accounts' \in Array
      /\ \A b \in Attempt : InFlight(b) => arrays'[attempt[b].array] = arrays[attempt[b].array]
      /\ \A t \in Members(arrays'[accounts']) : routed'[Ctid[t]] = t
      /\ routed' \in [{Ctid[t] : t \in Token} -> Token \cup {None}]
  BY <1>3, <1>4, NewArray
<1>6. Connects
  BY <1>2, <1>3, <1>5 DEF Connects
<1>7. SessionTyped'
  BY <1>3, <1>5, <1>6, ConnectKeeps DEF SessionTyped
<1> QED
  BY <1>6, <1>7, ConnectKeeps DEF Sound

LEMMA ReplaceKeeps ==
    ASSUME IInv, NEW objects \in Objects, phase = "up", phase' = phase,
           \A t, u \in Members(objects) : Ctid[t] = Ctid[u] => t = u,
           Replaces(objects)
    PROVE  Sound'
<1>1. TypeOK
  BY DEF IInv
<1>2. /\ conn' = None /\ timer' = TRUE /\ accounts' = FreeArray
      /\ attempt' = Hung(Bumped(attempt), conn)
      /\ signature' = objects /\ routed' = Routing(objects)
      /\ arrays' = Collected([arrays EXCEPT ![FreeArray] = objects], attempt', FreeArray)
  BY DEF Replaces, HandleLost, ScheduleReconnect, ComputeSignature, SetRouting
<1>3. /\ attempt' \in [Attempt -> Attempts]
      /\ \A b \in Attempt : Quieted(b, attempt'[b]) /\ (attempt'[b].own => attempt[b].own)
  BY <1>2, HungFacts
<1>4. \A b \in Attempt : ~attempt'[b].own
  <2>1. ASSUME NEW b \in Attempt, attempt'[b].own PROVE FALSE
    <3>1. Bumped(attempt) = attempt /\ attempt[b].own
      BY <1>2, <2>1, HungFacts
    <3>2. Bumped(attempt)[b].own = FALSE
      BY <1>1, AttemptTyped, BumpedFacts DEF Attempts
    <3> QED
      BY <3>1, <3>2
  <2> QED
    BY <2>1
<1>5. ASSUME NEW b \in Attempt, InFlight(b)'
      PROVE  InFlight(b) /\ attempt'[b].array = attempt[b].array
  BY <1>3, <1>5 DEF Quieted, Free, InFlight
<1>6. /\ arrays' \in [Array -> Objects]
      /\ accounts' \in Array
      /\ \A b \in Attempt : InFlight(b)' => arrays'[attempt[b].array] = arrays[attempt[b].array]
      /\ \A t \in Members(arrays'[accounts']) : routed'[Ctid[t]] = t
      /\ routed' \in [{Ctid[t] : t \in Token} -> Token \cup {None}]
  BY <1>2, <1>5, NewArray
<1>7. Silences
  BY <1>2, <1>3, <1>4, <1>6, Pieces DEF Silences
<1>8. SessionTyped'
  BY <1>2, <1>3, <1>6 DEF SessionTyped
<1> QED
  BY <1>7, <1>8, SilenceKeeps DEF Sound

\* A session that ends: by a reconcile, a stop or the end of the process.
LEMMA ClearKeeps ==
    ASSUME IInv, Clears, attempt' \in [Attempt -> Attempts],
           \A b \in Attempt :
                /\ Quieted(b, attempt'[b]) /\ (attempt'[b].own => attempt[b].own)
                /\ attempt'[b].own => phase' = "stopped"
    PROVE  Sound'
<1>1. TypeOK /\ arrays \in [Array -> Objects]
  BY DEF IInv, TypeOK
<1>2. /\ conn' = None /\ timer' = FALSE /\ accounts' = NoArray
      /\ arrays' = Collected(arrays, attempt', NoArray)
      /\ signature' = Nobody /\ routed' = Routing(Nobody)
  BY DEF Clears
<1>3. ASSUME NEW b \in Attempt, InFlight(b)'
      PROVE  arrays'[attempt[b].array] = arrays[attempt[b].array]
  <2>1. InFlight(b) /\ attempt'[b].array = attempt[b].array
    BY <1>3 DEF Quieted, Free, InFlight
  <2>2. attempt[b].array \in Array /\ attempt[b].array \in InUse(attempt', NoArray)
    BY <1>1, <2>1, InFlightMembers DEF InUse
  <2> QED
    BY <1>1, <1>2, <2>2, CollectedFacts
<1>4. Silences
  BY <1>2, <1>3 DEF Silences
<1>5. SessionTyped'
  BY <1>1, <1>2, CollectedFacts, RoutingFacts, Pieces DEF SessionTyped
<1> QED
  BY <1>4, <1>5, SilenceKeeps DEF Sound

LEMMA ApplyKeeps ==
    ASSUME IInv, phase = "up", UNCHANGED phase, ApplyReconcile(tick.read)
    PROVE  Sound'
<1>1. /\ tick.read \in Objects
      /\ \A t, u \in Members(tick.read) : Ctid[t] = Ctid[u] => t = u
  BY DEF IInv, TypeOK, ReadSound
<1>2. CASE accounts = NoArray /\ Seeds(tick.read)
  BY <1>1, <1>2, SeedKeeps
<1>3. CASE attempt' = Hung(Bumped(attempt), conn) /\ Clears
  <2>1. /\ attempt' \in [Attempt -> Attempts]
        /\ \A b \in Attempt : Quieted(b, attempt'[b]) /\ (attempt'[b].own => attempt[b].own)
    BY <1>3, HungFacts
  <2>2. \A b \in Attempt : ~attempt'[b].own
    <3>1. ASSUME NEW b \in Attempt, attempt'[b].own PROVE FALSE
      <4>1. Bumped(attempt) = attempt /\ attempt[b].own
        BY <1>3, <3>1, HungFacts
      <4>2. Bumped(attempt)[b].own = FALSE
        BY BumpedFacts DEF IInv, TypeOK, Attempts
      <4> QED
        BY <4>1, <4>2
    <3> QED
      BY <3>1
  <2> QED
    BY <1>3, <2>1, <2>2, ClearKeeps
<1>4. CASE Replaces(tick.read)
  BY <1>1, <1>4, ReplaceKeeps
<1>5. CASE UNCHANGED <<session, attempt>>
  BY <1>5, SessionUnchanged
<1> QED
  BY <1>2, <1>3, <1>4, <1>5 DEF ApplyReconcile

\* Every step keeps the session as the invariant has it.
LEMMA StepSound ==
    ASSUME IInv, [Next]_vars
    PROVE  Sound'
<1>0. /\ TypeOK /\ Linked /\ ConnSound /\ RouteSound /\ SessionTyped /\ TableTyped
      /\ phase # "up" => accounts = NoArray
  BY TypedAndLinked DEF IInv, ConnSound
<1>1. ASSUME NEW a \in Attempt, Answers(a) PROVE Sound'
  <2>1. AttemptStep(a) /\ signature' \in Objects /\ KeepsMembers /\ Frame
    BY <1>1, AnswerStep
  <2>2. InFlight(a)
    BY <1>1 DEF Answers, OpenAnswers, AppAnswers, ConnectFails, RefreshAnswers, RefreshRejected,
        RefreshFails, StoreAnswers, StoreFails, AuthAnswers, AuthFails, Reaps, ReapFails, InFlight
  <2>3. SessionTyped'
    <3>1. conn' \in {conn, None} /\ timer' \in BOOLEAN /\ attempt' \in [Attempt -> Attempts]
      BY <1>0, <2>1 DEF AttemptStep, SessionTyped
    <3> QED
      BY <1>0, <2>1, <3>1 DEF SessionTyped, KeepsMembers, Frame
  <2> QED
    BY <2>1, <2>2, <2>3, AttemptKeeps DEF Sound
<1>2. ASSUME NEW a \in Attempt, SocketDrops(a) PROVE Sound'
  <2>1. Served' /\ attempt' \in [Attempt -> Attempts]
    BY <1>2, DropKeeps
  <2> QED
    BY <1>0, <1>2, <2>1 DEF Sound, SessionTyped, SocketDrops, session
<1>3. ASSUME NEW a \in Attempt, LossNoticed(a) PROVE Sound'
  <2>1. arrays' = arrays /\ arrays' \in [Array -> Objects]
    BY <1>0, <1>3 DEF LossNoticed, SessionTyped
  <2> QED
    BY <1>3, <2>1, LossKeeps DEF LossNoticed
<1>4. ASSUME NEW a \in Attempt, NEW t \in Token, TokenInvalidated(a, t) PROVE Sound'
  <2>1. accounts \in Array
    BY <1>4, OwnSocket DEF TokenInvalidated
  <2>2. /\ arrays' \in [Array -> Objects]
        /\ \A x \in Array : Members(arrays'[x]) = Members(arrays[x])
    BY <1>0, <1>4, <2>1, ForcedFacts DEF TokenInvalidated
  <2> QED
    BY <1>4, <2>2, LossKeeps DEF TokenInvalidated
<1>5. CASE TimerFires
  <2>1. conn = None /\ accounts \in Array /\ phase = "up"
    BY <1>0, <1>5 DEF TimerFires, ConnSound, Linked, SessionTyped
  <2>2. /\ FreeAttempt \in Attempt /\ attempt[FreeAttempt].pc = "free"
        /\ conn' = FreeAttempt /\ timer' = FALSE
        /\ attempt' = Connecting(attempt, FreeAttempt, accounts')
        /\ UNCHANGED <<phase, accounts, arrays, signature, routed>>
    BY <1>5 DEF TimerFires, FreeAttempt, Idle
  <2>3. \A t \in Members(arrays'[accounts']) : routed'[Ctid[t]] = t
    BY <1>0, <2>1, <2>2, Pieces DEF RouteSound
  <2>4. Connects
    BY <2>1, <2>2, <2>3 DEF Connects
  <2> QED
    BY <1>0, <2>2, <2>4, ConnectKeeps DEF Sound, SessionTyped
<1>6. CASE TickApplies
  <2>1. CASE phase = "up"
    BY <1>6, <2>1, ApplyKeeps DEF TickApplies
  <2>2. CASE phase # "up"
    BY <1>6, <2>2, SessionUnchanged DEF TickApplies
  <2> QED
    BY <2>1, <2>2
<1>7. CASE TickProbes \/ TickLoads \/ TickFails
  BY <1>7, SessionUnchanged DEF TickProbes, TickLoads, TickFails
<1>8. CASE Start
  <2>1. phase = "off" /\ phase' = "up" /\ accounts = NoArray
    BY <1>0, <1>8 DEF Start
  <2>2. CASE Seeds(LoadAccounts)
    BY <2>1, <2>2, LoadFacts, SeedKeeps DEF IInv
  <2>3. CASE UNCHANGED <<session, attempt>>
    BY <2>1, <2>3, SessionUnchanged
  <2> QED
    BY <1>8, <2>2, <2>3 DEF Start
<1>9. CASE StartFails
  BY <1>0, <1>9, SessionUnchanged DEF StartFails
<1>10. CASE Stop
  <2>1. attempt' = Hung(attempt, conn) /\ Clears /\ phase' = "stopped"
    BY <1>10 DEF Stop
  <2>2. /\ attempt' \in [Attempt -> Attempts]
        /\ \A b \in Attempt : Quieted(b, attempt'[b]) /\ (attempt'[b].own => attempt[b].own)
    BY <2>1, HungFacts
  <2> QED
    BY <2>1, <2>2, ClearKeeps
<1>11. CASE Dies
  <2>1. Clears /\ attempt' = [a \in Attempt |-> Free] /\ Free.own = FALSE
    BY <1>11 DEF Dies, Free
  <2>2. attempt' \in [Attempt -> Attempts] /\ \A b \in Attempt : attempt'[b] = Free
    BY <2>1, Pieces
  <2>3. \A b \in Attempt : Quieted(b, attempt'[b]) /\ ~attempt'[b].own
    BY <2>1, <2>2 DEF Quieted
  <2> QED
    BY <2>1, <2>2, <2>3, ClearKeeps
<1>12. ASSUME NEW t \in Token, Outside(t) PROVE Sound'
  BY <1>12, SessionUnchanged
  DEF Outside, UserConnects, UserDisconnects, UserReturns, Revoked, Elsewhere
<1>13. CASE UNCHANGED vars
  BY <1>13, SessionUnchanged DEF vars
<1> QED
  BY <1>1, <1>2, <1>3, <1>4, <1>5, <1>6, <1>7, <1>8, <1>9, <1>10, <1>11, <1>12, <1>13
  DEF Next, Tick, Process

-----------------------------------------------------------------------------
(* The table, and what the tick reads of it.                               *)

LEMMA ReadStep ==
    ASSUME IInv, [Next]_vars
    PROVE  /\ tick'.read \in {tick.read, LoadAccounts, Nobody}
           /\ TickLoads \/ tick'.read \in {tick.read, Nobody}
           /\ tick' \in [pc : {"rest", "loading", "loaded"}, read : Objects]
           /\ ReadSound'
<1>1. /\ tick \in [pc : {"rest", "loading", "loaded"}, read : Objects]
      /\ LoadAccounts \in Objects /\ ReadSound
      /\ \A t, u \in Members(LoadAccounts) : Ctid[t] = Ctid[u] => t = u
  BY LoadFacts DEF IInv, TypeOK
<1>2. CASE tick' = [pc |-> "loaded", read |-> LoadAccounts] /\ TickLoads
  BY <1>1, <1>2 DEF ReadSound, Members
<1>3. CASE tick' = AtRest \/ tick' = [AtRest EXCEPT !.pc = "loading"]
  <2>1. tick'.read = Nobody /\ tick' \in [pc : {"rest", "loading", "loaded"}, read : Objects]
    BY <1>3, Pieces DEF AtRest
  <2> QED
    BY <2>1, Pieces DEF ReadSound, Members
<1>4. CASE UNCHANGED tick
  BY <1>1, <1>4 DEF ReadSound, Members
<1>5. ASSUME NEW a \in Attempt, Answers(a) PROVE UNCHANGED tick
  BY <1>5, AnswerStep DEF Frame
<1>6. UNCHANGED vars => UNCHANGED tick
  BY DEF vars
<1>7. ASSUME NEW a \in Attempt,
             SocketDrops(a) \/ LossNoticed(a) \/ \E t \in Token : TokenInvalidated(a, t)
      PROVE  UNCHANGED tick
  BY <1>7 DEF SocketDrops, LossNoticed, TokenInvalidated
<1>8. ASSUME NEW t \in Token, Outside(t) PROVE UNCHANGED tick
  BY <1>8 DEF Outside, UserConnects, UserDisconnects, UserReturns, Revoked, Elsewhere
<1>9. CASE TimerFires \/ Start \/ StartFails \/ Stop
  BY <1>4, <1>9 DEF TimerFires, Start, StartFails, Stop
<1>10. CASE Tick \/ Dies
  BY <1>2, <1>3, <1>10 DEF Tick, TickProbes, TickLoads, TickApplies, TickFails, Dies
<1> QED
  BY <1>4, <1>5, <1>6, <1>7, <1>8, <1>9, <1>10 DEF Next, Process

LEMMA StepTyped ==
    ASSUME IInv, [Next]_vars
    PROVE  TableTyped'
<1>0. TypeOK /\ TableTyped
  BY TypedAndLinked DEF IInv
<1>1. /\ \A t \in Token : rows[t] \in Rows
      /\ tick' \in [pc : {"rest", "loading", "loaded"}, read : Objects]
  BY <1>0, ReadStep DEF TypeOK
<1>2. ASSUME NEW a \in Attempt, Answers(a) PROVE TableTyped'
  <2>1. UNCHANGED <<phase, loads, stops, lastProbe, tick>>
    BY <1>2, AnswerStep DEF Frame
  <2>2. faults' \in Nat
    BY <1>0, <1>2 DEF TableTyped, Answers, OpenAnswers, AppAnswers, ConnectFails, RefreshAnswers,
        RefreshRejected, RefreshFails, StoreAnswers, StoreFails, AuthAnswers, AuthFails, Reaps,
        ReapFails, Fault, FailsOn, table
  <2>3. clock' \in Nat /\ valid' \in SUBSET Pair
    BY <1>0, <1>2, PoolAssumption DEF TableTyped, Answers, OpenAnswers, AppAnswers, ConnectFails,
        RefreshAnswers, RefreshRejected, RefreshFails, StoreAnswers, StoreFails, AuthAnswers,
        AuthFails, Reaps, ReapFails, table, Pair
  <2>4. InFlight(a) /\ attempt[a].pair \in Pair
    BY <1>0, <1>2, AttemptTyped DEF Answers, OpenAnswers, AppAnswers, ConnectFails, RefreshAnswers,
        RefreshRejected, RefreshFails, StoreAnswers, StoreFails, AuthAnswers, AuthFails, Reaps,
        ReapFails, InFlight
  <2>5. attempt[a].pc \in {"refresh", "store", "auth", "reap"} => attempt[a].cur \in Token
    BY <1>0, <2>4, InFlightMembers
  <2>6. lost' \in SUBSET Token
    BY <1>0, <1>2, <2>5 DEF TableTyped, Answers, OpenAnswers, AppAnswers, ConnectFails,
        RefreshAnswers, RefreshRejected, RefreshFails, StoreAnswers, StoreFails, AuthAnswers,
        AuthFails, Reaps, ReapFails, table
  <2>7. rows' \in [Token -> Rows]
    <3>1. CASE UNCHANGED rows
      BY <1>0, <3>1 DEF TableTyped
    <3>2. CASE attempt[a].pc = "store" /\ Stored(a, clock')
      <4>1. [rows[attempt[a].cur] EXCEPT !.pair = attempt[a].pair, !.at = clock'] \in Rows
        BY <1>1, <2>3, <2>4, <2>5, <3>2 DEF Rows
      <4> QED
        BY <1>0, <2>5, <3>2, <4>1 DEF TableTyped, Stored
    <3>3. CASE Reaps(a)
      <4>1. [rows[attempt[a].cur] EXCEPT !.active = FALSE, !.rejected = TRUE] \in Rows
        BY <1>1, <2>5, <3>3 DEF Rows, Reaps
      <4> QED
        BY <1>0, <2>5, <3>3, <4>1 DEF TableTyped, Reaps
    <3> QED
      BY <1>2, <3>1, <3>2, <3>3 DEF Answers, OpenAnswers, AppAnswers, ConnectFails,
        RefreshAnswers, RefreshRejected, RefreshFails, StoreAnswers, StoreFails, AuthAnswers,
        AuthFails, ReapFails, table
  <2> QED
    BY <1>0, <2>1, <2>2, <2>3, <2>6, <2>7 DEF TableTyped
<1>3. ASSUME NEW a \in Attempt,
             SocketDrops(a) \/ LossNoticed(a) \/ \E t \in Token : TokenInvalidated(a, t)
      PROVE  TableTyped'
  BY <1>0, <1>3 DEF TableTyped, SocketDrops, LossNoticed, TokenInvalidated, Fault, table, bounds
<1>4. CASE TimerFires \/ Tick
  <2>1. Probe \in [count : Nat, at : Nat]
    BY <1>0, NewestType
  <2> QED
    BY <1>0, <1>1, <1>4, <2>1 DEF TableTyped, TimerFires, Tick, TickProbes, TickLoads, TickApplies, TickFails,
        table, bounds
<1>5. CASE Start \/ StartFails \/ Stop
  BY <1>0, <1>5 DEF TableTyped, Start, StartFails, Stop, table, bounds, Phases
<1>6. CASE Dies
  <2>1. \A a \in Attempt : attempt[a].pc = "store" => attempt[a].cur \in Token
    BY <1>0, InFlightMembers DEF InFlight
  <2>2. lost' \in SUBSET Token
    BY <1>0, <1>6, <2>1 DEF TableTyped, Dies
  <2> QED
    BY <1>0, <1>1, <1>6, <2>2, Pieces DEF TableTyped, Dies, Phases
<1>7. ASSUME NEW t \in Token, Outside(t) PROVE TableTyped'
  <2>1. UNCHANGED <<phase, faults, loads, stops, lastProbe, tick>>
    BY <1>7 DEF Outside, UserConnects, UserDisconnects, UserReturns, Revoked, Elsewhere, bounds
  <2>2. clock' \in Nat /\ valid' \in SUBSET Pair /\ lost' \in SUBSET Token
    BY <1>0, <1>7, PoolAssumption
    DEF TableTyped, Outside, UserConnects, UserDisconnects, UserReturns, Revoked, Pair
  <2>3. rows' \in [Token -> Rows]
    <3>1. CASE UserConnects(t)
      <4>1. [active |-> TRUE, rejected |-> FALSE, pair |-> clock', at |-> clock'] \in Rows
        BY <1>0, <2>2, <3>1, PoolAssumption DEF UserConnects, TableTyped, Rows, Pair
      <4> QED
        BY <1>0, <3>1, <4>1 DEF TableTyped, UserConnects
    <3>2. CASE UserDisconnects(t)
      <4>1. [rows[t] EXCEPT !.active = FALSE] \in Rows
        BY <1>1 DEF Rows
      <4> QED
        BY <1>0, <3>2, <4>1 DEF TableTyped, UserDisconnects
    <3>3. CASE UserReturns(t)
      <4>1. [rows[t] EXCEPT !.active = TRUE, !.at = clock'] \in Rows
        BY <1>1, <2>2 DEF Rows
      <4> QED
        BY <1>0, <3>3, <4>1 DEF TableTyped, UserReturns
    <3>4. CASE Revoked(t)
      BY <1>0, <3>4 DEF TableTyped, Revoked
    <3> QED
      BY <1>7, <3>1, <3>2, <3>3, <3>4 DEF Outside
  <2> QED
    BY <1>0, <2>1, <2>2, <2>3 DEF TableTyped
<1>8. CASE UNCHANGED vars
  BY <1>0, <1>8 DEF TableTyped, vars, table, bounds
<1> QED
  BY <1>2, <1>3, <1>4, <1>5, <1>6, <1>7, <1>8 DEF Next, Process

-----------------------------------------------------------------------------
(* Pairs and tokens.                                                       *)

\* No pair comes into memory but the one in the row.
HeldKept == \A t \in Token : Held(t)' \subseteq Held(t) \cup {0, rows[t].pair}

\* Attempt b goes on waiting for its pair to be stored, and no other begins to.
StoreKept(b) ==
    /\ attempt[b].pc = "store" =>
        /\ attempt'[b].pc = "store"
        /\ attempt'[b].pair = attempt[b].pair /\ attempt'[b].cur = attempt[b].cur
    /\ attempt'[b].pc = "store" => attempt[b].pc = "store"

LEMMA PairTypes ==
    ASSUME TypeOK
    PROVE  /\ clock \in Nat
           /\ \A t \in Token : rows[t].pair \in Nat
           /\ \A t \in Token : \A p \in Held(t) : p \in Nat
           /\ \A a \in Attempt : attempt[a].pair \in Nat
<1>1. \A p \in Pair : p \in Nat
  BY PoolAssumption DEF Pair
<1> QED
  BY <1>1 DEF TypeOK, Rows, Objects, Account, Attempts, Held

\* A step that issues no pair and stores none.
LEMMA PairsKept ==
    ASSUME IInv, clock' \in Nat, clock <= clock', valid' \subseteq valid, lost \subseteq lost',
           \A t \in Token : rows'[t].pair = rows[t].pair,
           HeldKept,
           \A t \in Token :
                rows[t].pair \in valid => rows[t].pair \in valid' \/ t \in lost',
           \A b \in Attempt :
                /\ attempt'[b].pc = "store" =>
                        attempt[b].pc = "store" /\ attempt'[b].pair = attempt[b].pair
                /\ attempt[b].pc = "store" =>
                    /\ attempt[b].pair \in valid'
                    /\ attempt[b].cur \in lost' \/ StoreKept(b)
    PROVE  PairsSound' /\ RefreshSurvives'
<1>0. TypeOK /\ PairsSound /\ RefreshSurvives
  BY DEF IInv
<1>1. valid' \subseteq 1 .. clock'
  <2>1. \A p \in valid : p \in 1 .. clock /\ p \in 1 .. clock'
    BY <1>0, PairTypes DEF PairsSound
  <2> QED
    BY <2>1
<1>2. \A t \in Token : rows'[t].pair <= clock'
  BY <1>0, PairTypes DEF PairsSound
<1>3. \A t, u \in Token : rows'[t].pair = rows'[u].pair /\ rows'[t].pair # 0 => t = u
  BY <1>0 DEF PairsSound
<1>4. ASSUME NEW t \in Token, NEW p \in Held(t)'
      PROVE  /\ p <= clock'
             /\ \A u \in Token : p = rows'[u].pair /\ rows'[u].pair # 0 => t = u
  <2>1. p \in Held(t) \/ p = 0 \/ p = rows[t].pair
    BY DEF HeldKept
  <2>2. CASE p \in Held(t)
    BY <1>0, <2>2, PairTypes DEF PairsSound
  <2>3. CASE p = 0
    BY <1>0, <2>3, PairTypes
  <2>4. CASE p = rows[t].pair
    BY <1>0, <2>4, PairTypes DEF PairsSound
  <2> QED
    BY <2>1, <2>2, <2>3, <2>4
<1>5. ASSUME NEW a \in Attempt, attempt'[a].pc = "store"
      PROVE  /\ attempt'[a].pair \in valid'
             /\ \A t \in Token : rows'[t].pair # attempt'[a].pair
             /\ \A t \in Token : attempt'[a].pair \notin Held(t)'
             /\ \A b \in Attempt \ {a} :
                    attempt'[b].pc = "store" => attempt'[b].pair # attempt'[a].pair
  <2>1. attempt[a].pc = "store" /\ attempt'[a].pair = attempt[a].pair
    BY <1>5
  <2>2. /\ attempt[a].pair # 0 /\ attempt[a].pair \in valid'
        /\ \A t \in Token : rows[t].pair # attempt[a].pair
        /\ \A t \in Token : attempt[a].pair \notin Held(t)
        /\ \A b \in Attempt \ {a} : attempt[b].pc = "store" => attempt[b].pair # attempt[a].pair
    BY <1>0, <2>1, PairTypes DEF PairsSound
  <2>3. \A t \in Token : attempt[a].pair \notin Held(t)'
    BY <2>2 DEF HeldKept
  <2> QED
    BY <2>1, <2>2, <2>3
<1>6. PairsSound'
  BY <1>1, <1>2, <1>3, <1>4, <1>5 DEF PairsSound
<1>7. RefreshSurvives'
  <2>1. SUFFICES ASSUME NEW t \in Token, rows[t].pair # 0, t \notin lost', rows[t].pair \notin valid'
                 PROVE  \E a \in Attempt :
                            /\ attempt'[a].pc = "store" /\ attempt'[a].cur = t
                            /\ attempt'[a].pair \in valid'
    BY <2>1 DEF RefreshSurvives
  <2>2. PICK a \in Attempt :
            attempt[a].pc = "store" /\ attempt[a].cur = t /\ attempt[a].pair \in valid
    BY <1>0, <2>1 DEF RefreshSurvives
  <2>3. attempt[a].pair \in valid' /\ StoreKept(a)
    BY <2>1, <2>2
  <2> QED
    BY <2>2, <2>3 DEF StoreKept
<1> QED
  BY <1>6, <1>7

\* What an attempt does when it does not begin to store or end storing.
LEMMA SameTable ==
    ASSUME IInv, clock' \in Nat, clock <= clock', UNCHANGED <<valid, lost>>, HeldKept,
           \A t \in Token : rows'[t].pair = rows[t].pair,
           \A b \in Attempt : StoreKept(b)
    PROVE  PairsSound' /\ RefreshSurvives'
<1>1. \A b \in Attempt : attempt[b].pc = "store" => attempt[b].pair \in valid
  BY DEF IInv, PairsSound
<1>2. \A b \in Attempt : attempt'[b].pc = "store" =>
        attempt[b].pc = "store" /\ attempt'[b].pair = attempt[b].pair
  BY DEF StoreKept
<1> QED
  BY <1>1, <1>2, PairsKept

\* The pair of attempt a is stored in its row.
LEMMA PairStored ==
    ASSUME IInv, NEW a \in Attempt, attempt[a].pc = "store", clock' \in Nat, clock <= clock',
           Stored(a, clock'), UNCHANGED <<valid, lost>>,
           attempt'[a].pc # "store", \A b \in Attempt \ {a} : attempt'[b] = attempt[b],
           \A t \in Token :
                Held(t)' \subseteq Held(t) \cup {0} \cup
                    (IF t = attempt[a].cur THEN {attempt[a].pair} ELSE {})
    PROVE  PairsSound' /\ RefreshSurvives'
<1> DEFINE c == attempt[a].cur
           p == attempt[a].pair
<1>0. TypeOK /\ PairsSound /\ RefreshSurvives /\ c \in Token
  BY InFlightMembers DEF IInv, InFlight
<1>1. /\ p \in valid /\ p # 0 /\ p \in Nat /\ p <= clock
      /\ \A t \in Token : rows[t].pair # p
      /\ \A t \in Token : p \notin Held(t)
      /\ \A b \in Attempt \ {a} : attempt[b].pc = "store" => attempt[b].pair # p
  BY <1>0, PairTypes DEF PairsSound
<1>2. \A t \in Token : rows'[t].pair = IF t = c THEN p ELSE rows[t].pair
  <2>1. \A t \in Token : rows[t] \in Rows
    BY <1>0 DEF TypeOK
  <2>2. rows' = [rows EXCEPT ![c] = [rows[c] EXCEPT !.pair = p, !.at = clock']]
    BY <1>0 DEF Stored, TypeOK
  <2> QED
    BY <1>0, <2>1, <2>2 DEF Rows, TypeOK
<1> HIDE DEF c, p
<1>3. \A p1 \in valid' : p1 \in 1 .. clock'
  BY <1>0, PairTypes DEF PairsSound
<1>4. \A t \in Token : rows'[t].pair <= clock'
  BY <1>0, <1>1, <1>2, PairTypes DEF PairsSound
<1>5. \A t, u \in Token : rows'[t].pair = rows'[u].pair /\ rows'[t].pair # 0 => t = u
  BY <1>0, <1>1, <1>2 DEF PairsSound
<1>6. ASSUME NEW t \in Token, NEW q \in Held(t)'
      PROVE  /\ q <= clock'
             /\ \A u \in Token : q = rows'[u].pair /\ rows'[u].pair # 0 => t = u
  <2>1. CASE q \in Held(t)
    <3>1. /\ q <= clock /\ q \in Nat /\ clock \in Nat /\ q # p
          /\ \A u \in Token : q = rows[u].pair /\ rows[u].pair # 0 => t = u
      BY <1>0, <1>1, <2>1, PairTypes DEF PairsSound
    <3> QED
      BY <1>2, <3>1
  <2>2. CASE q = 0
    BY <1>2, <2>2
  <2>3. CASE t = c /\ q = p
    BY <1>0, <1>1, <1>2, <2>3, PairTypes
  <2> QED
    BY <2>1, <2>2, <2>3 DEF c, p
<1>7. ASSUME NEW b \in Attempt, attempt'[b].pc = "store"
      PROVE  /\ attempt'[b].pair \in valid'
             /\ \A t \in Token : rows'[t].pair # attempt'[b].pair
             /\ \A t \in Token : attempt'[b].pair \notin Held(t)'
             /\ \A d \in Attempt \ {b} :
                    attempt'[d].pc = "store" => attempt'[d].pair # attempt'[b].pair
  <2>1. b # a /\ attempt'[b] = attempt[b] /\ attempt[b].pair # p
    BY <1>1, <1>7
  <2>2. /\ attempt[b].pair \in valid /\ attempt[b].pair # 0
        /\ \A t \in Token : rows[t].pair # attempt[b].pair
        /\ \A t \in Token : attempt[b].pair \notin Held(t)
        /\ \A d \in Attempt \ {b} : attempt[d].pc = "store" => attempt[d].pair # attempt[b].pair
    BY <1>0, <1>7, <2>1, PairTypes DEF PairsSound
  <2>3. \A t \in Token : attempt[b].pair \notin Held(t)'
    BY <2>1, <2>2 DEF p
  <2>4. \A d \in Attempt \ {b} : attempt'[d].pc = "store" => attempt'[d].pair # attempt[b].pair
    BY <2>2
  <2> QED
    BY <1>2, <2>1, <2>2, <2>3, <2>4
<1>8. PairsSound'
  BY <1>3, <1>4, <1>5, <1>6, <1>7 DEF PairsSound
<1>9. RefreshSurvives'
  <2>1. ASSUME NEW t \in Token, rows'[t].pair # 0, t \notin lost, rows'[t].pair \notin valid
        PROVE  \E b \in Attempt :
                    attempt'[b].pc = "store" /\ attempt'[b].cur = t /\ attempt'[b].pair \in valid
    <3>1. t # c /\ rows'[t].pair = rows[t].pair
      BY <1>1, <1>2, <2>1
    <3>2. PICK b \in Attempt :
            attempt[b].pc = "store" /\ attempt[b].cur = t /\ attempt[b].pair \in valid
      BY <1>0, <2>1, <3>1 DEF RefreshSurvives
    <3>3. b # a
      BY <3>1, <3>2 DEF c
    <3> QED
      BY <3>2, <3>3
  <2> QED
    BY <2>1 DEF RefreshSurvives
<1> QED
  BY <1>8, <1>9

\* An attempt that loops, returns or is given up does not begin to store a pair.
LEMMA LoopsOn ==
    ASSUME TypeOK, NEW a \in Attempt, NEW todo, NEW authed, NEW store,
           Loops(a, todo, authed, store) \/ Returns(a) \/ GivesUp(a)
    PROVE  /\ attempt'[a].pc # "store"
           /\ \A b \in Attempt \ {a} : attempt'[b] = attempt[b]
<1>1. attempt \in [Attempt -> Attempts] /\ Free.pc = "free"
  BY DEF TypeOK, Free
<1>2. CASE Returns(a) \/ GivesUp(a)
  BY <1>1, <1>2 DEF Returns, GivesUp
<1>3. CASE Finishes(a, authed, store)
  BY <1>1, <1>3 DEF Finishes, Free
<1>4. ASSUME NEW t, NEW rest, Begins(a, t, rest, authed, store)
      PROVE  /\ attempt'[a].pc # "store"
             /\ \A b \in Attempt \ {a} : attempt'[b] = attempt[b]
  BY <1>1, <1>4 DEF Begins, Attempts
<1> QED
  BY <1>2, <1>3, <1>4 DEF Loops

LEMMA MovesPairs ==
    ASSUME TypeOK, Moves(arrays)
    PROVE  \A t \in Token : Held(t)' \subseteq Held(t) \cup {0}
<1>1. \A x \in Array : arrays'[x] \in {arrays[x], Nobody}
  BY CollectedFacts DEF Moves, TypeOK
<1>2. tick' = tick
  BY DEF Moves
<1> QED
  BY <1>1, <1>2, Pieces DEF Held

LEMMA OthersKept ==
    ASSUME NEW a \in Attempt, attempt[a].pc # "store", attempt'[a].pc # "store",
           \A b \in Attempt \ {a} : attempt'[b] = attempt[b]
    PROVE  \A b \in Attempt : StoreKept(b)
BY DEF StoreKept

\* cTrader rotates the pair of an account.
LEMMA RefreshPairs ==
    ASSUME IInv, NEW a \in Attempt, RefreshAnswers(a)
    PROVE  PairsSound' /\ RefreshSurvives'
<1> DEFINE c == attempt[a].cur
           x0 == attempt[a].array
           m == arrays[x0][c].pair
<1>0. TypeOK /\ PairsSound /\ RefreshSurvives /\ attempt \in [Attempt -> Attempts]
  BY DEF IInv, TypeOK
<1>1. c \in Token /\ x0 \in Array /\ m # 0 /\ m \in Held(c)
  BY <1>0, InFlightMembers DEF RefreshAnswers, InFlight, M, Members, Held
<1>2. /\ clock' = clock + 1 /\ clock \in Nat /\ clock' \in Nat
      /\ valid' = (valid \ {m}) \cup {clock'}
      /\ rows' = rows /\ lost' = lost /\ attempt[a].pc = "refresh"
      /\ \A t \in Token : Held(t)' \subseteq Held(t) \cup {0}
  BY <1>0, MovesPairs, PairTypes DEF RefreshAnswers, Mine
<1>3. /\ attempt'[a].pc = "store" /\ attempt'[a].pair = clock' /\ attempt'[a].cur = c
      /\ \A b \in Attempt \ {a} : attempt'[b] = attempt[b]
  BY <1>0 DEF RefreshAnswers, Attempts
<1>4. \A b \in Attempt \ {a} : attempt[b].pc = "store" => attempt[b].pair # m
  BY <1>0, <1>1 DEF PairsSound
<1>5. \A t \in Token : rows[t].pair = m => t = c
  BY <1>0, <1>1 DEF PairsSound
<1> HIDE DEF m, c, x0
<1>6. \A p \in valid' : p \in 1 .. clock'
  BY <1>0, <1>2 DEF PairsSound
<1>7. /\ \A t \in Token : rows[t].pair <= clock' /\ rows[t].pair # clock'
      /\ \A t \in Token : \A p \in Held(t) : p <= clock' /\ p # clock'
      /\ \A b \in Attempt : attempt[b].pc = "store" => attempt[b].pair # clock'
  BY <1>0, <1>2, PairTypes DEF PairsSound
<1>8. ASSUME NEW t \in Token, NEW p \in Held(t)'
      PROVE  /\ p <= clock' /\ p # clock'
             /\ \A u \in Token : p = rows[u].pair /\ rows[u].pair # 0 => t = u
  <2>1. CASE p \in Held(t)
    BY <1>0, <1>7, <2>1 DEF PairsSound
  <2>2. CASE p = 0
    BY <1>2, <2>2
  <2> QED
    BY <1>2, <2>1, <2>2
<1>9. ASSUME NEW b \in Attempt, attempt'[b].pc = "store"
      PROVE  /\ attempt'[b].pair \in valid'
             /\ \A t \in Token : rows[t].pair # attempt'[b].pair
             /\ \A t \in Token : attempt'[b].pair \notin Held(t)'
             /\ \A d \in Attempt \ {b} :
                    attempt'[d].pc = "store" => attempt'[d].pair # attempt'[b].pair
  <2>1. CASE b = a
    BY <1>2, <1>3, <1>7, <1>8, <2>1
  <2>2. CASE b # a
    <3>1. attempt'[b] = attempt[b] /\ attempt[b].pc = "store"
      BY <1>3, <1>9, <2>2
    <3>2. /\ attempt[b].pair \in valid /\ attempt[b].pair # 0
          /\ \A t \in Token : rows[t].pair # attempt[b].pair
          /\ \A t \in Token : attempt[b].pair \notin Held(t)
          /\ \A d \in Attempt \ {b} : attempt[d].pc = "store" => attempt[d].pair # attempt[b].pair
      BY <1>0, <3>1, PairTypes DEF PairsSound
    <3>3. attempt[b].pair \in valid'
      BY <1>2, <1>4, <2>2, <3>1, <3>2
    <3>4. \A t \in Token : attempt[b].pair \notin Held(t)'
      BY <1>2, <3>2
    <3>5. \A d \in Attempt \ {b} : attempt'[d].pc = "store" => attempt'[d].pair # attempt[b].pair
      BY <1>3, <1>7, <3>1, <3>2
    <3> QED
      BY <3>1, <3>2, <3>3, <3>4, <3>5
  <2> QED
    BY <2>1, <2>2
<1>10. PairsSound'
  <2>1. \A t, u \in Token : rows[t].pair = rows[u].pair /\ rows[t].pair # 0 => t = u
    BY <1>0 DEF PairsSound
  <2> QED
    BY <1>2, <1>6, <1>7, <1>8, <1>9, <2>1 DEF PairsSound
<1>11. RefreshSurvives'
  <2>1. ASSUME NEW t \in Token, rows[t].pair # 0, t \notin lost, rows[t].pair \notin valid'
        PROVE  \E b \in Attempt :
                    attempt'[b].pc = "store" /\ attempt'[b].cur = t /\ attempt'[b].pair \in valid'
    <3>1. CASE t = c
      BY <1>2, <1>3, <3>1
    <3>2. CASE t # c
      <4>1. rows[t].pair \notin valid
        BY <1>2, <1>5, <2>1, <3>2
      <4>2. PICK b \in Attempt :
              attempt[b].pc = "store" /\ attempt[b].cur = t /\ attempt[b].pair \in valid
        BY <1>0, <2>1, <4>1 DEF RefreshSurvives
      <4>3. b # a /\ attempt[b].pair \in valid'
        BY <1>2, <1>4, <4>2
      <4> QED
        BY <1>3, <4>2, <4>3
    <3> QED
      BY <3>1, <3>2
  <2> QED
    BY <1>2, <2>1 DEF RefreshSurvives
<1> QED
  BY <1>10, <1>11

LEMMA AnswerPairs ==
    ASSUME IInv, NEW a \in Attempt, Answers(a)
    PROVE  PairsSound' /\ RefreshSurvives'
<1>0. TypeOK /\ attempt \in [Attempt -> Attempts] /\ PairsSound /\ clock \in Nat /\ clock <= clock
  BY DEF IInv, TypeOK
<1>1. CASE OpenAnswers(a) \/ AppAnswers(a) \/ ConnectFails(a) \/ RefreshRejected(a)
           \/ AuthAnswers(a) \/ AuthFails(a) \/ Reaps(a) \/ ReapFails(a)
  <2>1. attempt[a].pc # "store" /\ UNCHANGED <<valid, lost, clock>> /\ Moves(arrays)
    BY <1>1 DEF OpenAnswers, AppAnswers, ConnectFails, RefreshRejected, AuthAnswers, AuthFails,
        Reaps, ReapFails, Skips, table
  <2>2. attempt'[a].pc # "store" /\ \A b \in Attempt \ {a} : attempt'[b] = attempt[b]
    <3>1. CASE OpenAnswers(a)
      BY <1>0, <3>1, LoopsOn DEF OpenAnswers, Attempts
    <3>2. CASE RefreshRejected(a)
      BY <1>0, <3>2 DEF RefreshRejected, Attempts
    <3>3. CASE AppAnswers(a)
      BY <1>0, <3>3, LoopsOn DEF AppAnswers
    <3>4. CASE ConnectFails(a)
      BY <1>0, <3>4, LoopsOn DEF ConnectFails
    <3>5. CASE AuthAnswers(a) \/ AuthFails(a) \/ Reaps(a) \/ ReapFails(a)
      BY <1>0, <3>5, LoopsOn DEF AuthAnswers, AuthFails, Reaps, ReapFails, Skips
    <3> QED
      BY <1>1, <3>1, <3>2, <3>3, <3>4, <3>5
  <2>3. \A t \in Token : rows'[t].pair = rows[t].pair
    <3>1. CASE UNCHANGED rows
      BY <3>1
    <3>2. CASE Reaps(a)
      <4>1. rows \in [Token -> Rows] /\ attempt[a].cur \in Token
        BY <1>0, <3>2, InFlightMembers DEF Reaps, InFlight, TypeOK
      <4> QED
        BY <3>2, <4>1 DEF Reaps, Rows
    <3> QED
      BY <1>1, <3>1, <3>2 DEF OpenAnswers, AppAnswers, ConnectFails, RefreshRejected,
          AuthAnswers, AuthFails, ReapFails, table
  <2>4. HeldKept
    BY <1>0, <2>1, MovesPairs DEF HeldKept
  <2> QED
    BY <1>0, <2>1, <2>2, <2>3, <2>4, OthersKept, SameTable
<1>2. CASE RefreshAnswers(a)
  BY <1>2, RefreshPairs
<1>3. CASE RefreshFails(a)
  <2> DEFINE m == Mine(a).pair
  <2>1. /\ attempt[a].pc = "refresh" /\ UNCHANGED <<rows, clock>> /\ Moves(arrays)
        /\ Loops(a, attempt[a].todo, attempt[a].authed, arrays)
        /\ \/ UNCHANGED <<valid, lost>>
           \/ /\ valid' = valid \ {m}
              /\ lost' = IF m \in valid THEN lost \cup {attempt[a].cur} ELSE lost
    BY <1>3 DEF RefreshFails, Skips
  <2>2. attempt'[a].pc # "store" /\ \A b \in Attempt \ {a} : attempt'[b] = attempt[b]
    BY <1>0, <2>1, LoopsOn
  <2>3. attempt[a].cur \in Token /\ m # 0 /\ m \in Held(attempt[a].cur)
    BY <1>0, <2>1, InFlightMembers DEF InFlight, M, Members, Mine, Held
  <2>4. /\ \A t \in Token : rows[t].pair = m => t = attempt[a].cur
        /\ \A b \in Attempt : attempt[b].pc = "store" =>
                attempt[b].pair \in valid /\ attempt[b].pair # m
    BY <1>0, <2>3 DEF PairsSound
  <2> HIDE DEF m
  <2>5. valid' \subseteq valid /\ lost \subseteq lost'
    BY <2>1
  <2>6. \A t \in Token : rows[t].pair \in valid => rows[t].pair \in valid' \/ t \in lost'
    BY <2>1, <2>4
  <2>7. \A b \in Attempt : StoreKept(b)
    BY <2>1, <2>2, OthersKept
  <2>8. \A b \in Attempt :
            /\ attempt'[b].pc = "store" =>
                    attempt[b].pc = "store" /\ attempt'[b].pair = attempt[b].pair
            /\ attempt[b].pc = "store" => attempt[b].pair \in valid'
    BY <2>1, <2>4, <2>7 DEF StoreKept
  <2>9. HeldKept
    BY <1>0, <2>1, MovesPairs DEF HeldKept
  <2> QED
    BY <1>0, <2>1, <2>5, <2>6, <2>7, <2>8, <2>9, PairsKept
<1>4. CASE StoreAnswers(a)
  <2> DEFINE fresh == [pair |-> attempt[a].pair, forced |-> FALSE]
             store == [arrays EXCEPT ![attempt[a].array][attempt[a].cur] = fresh]
  <2>1. /\ attempt[a].pc = "store" /\ clock' = clock + 1 /\ Stored(a, clock')
        /\ UNCHANGED <<valid, lost>> /\ Moves(store)
    BY <1>4 DEF StoreAnswers
  <2>2. attempt'[a].pc # "store" /\ \A b \in Attempt \ {a} : attempt'[b] = attempt[b]
    BY <1>0, <1>4 DEF StoreAnswers, Attempts
  <2>3. attempt[a].cur \in Token /\ attempt[a].array \in Array /\ attempt[a].pair \in Pair
    BY <1>0, <2>1, InFlightMembers DEF InFlight, Attempts
  <2>4. arrays \in [Array -> [Token -> Account]] /\ fresh \in Account
    BY <1>0, <2>3 DEF TypeOK, Objects, Account
  <2>5. store \in [Array -> Objects]
    BY <2>3, <2>4 DEF Objects
  <2>6. \A x \in Array, t \in Token :
            store[x][t].pair \in {arrays[x][t].pair} \cup
                (IF t = attempt[a].cur THEN {attempt[a].pair} ELSE {})
    BY <2>3, <2>4
  <2>7. \A x \in Array : arrays'[x] \in {store[x], Nobody}
    <3> HIDE DEF store
    <3> QED
      BY <2>1, <2>5, CollectedFacts DEF Moves
  <2> HIDE DEF store
  <2>8. \A t \in Token :
            Held(t)' \subseteq Held(t) \cup {0} \cup
                (IF t = attempt[a].cur THEN {attempt[a].pair} ELSE {})
    <3>1. tick' = tick
      BY <2>1 DEF Moves
    <3> QED
      BY <2>6, <2>7, <3>1, Pieces DEF Held
  <2>9. clock' \in Nat /\ clock <= clock'
    BY <1>0, <2>1
  <2> QED
    BY <2>1, <2>2, <2>8, <2>9, PairStored
<1>5. CASE StoreFails(a)
  <2>1. /\ attempt[a].pc = "store" /\ UNCHANGED valid /\ Moves(arrays)
        /\ Loops(a, attempt[a].todo, attempt[a].authed, arrays)
    BY <1>5 DEF StoreFails, Skips
  <2>2. attempt'[a].pc # "store" /\ \A b \in Attempt \ {a} : attempt'[b] = attempt[b]
    BY <1>0, <2>1, LoopsOn
  <2>3. \A t \in Token : Held(t)' \subseteq Held(t) \cup {0}
    BY <1>0, <2>1, MovesPairs
  <2>4. CASE clock' = clock + 1 /\ Stored(a, clock') /\ UNCHANGED lost
    <3>1. clock' \in Nat /\ clock <= clock'
      BY <1>0, <2>4
    <3>2. \A t \in Token :
            Held(t)' \subseteq Held(t) \cup {0} \cup
                (IF t = attempt[a].cur THEN {attempt[a].pair} ELSE {})
      BY <2>3
    <3> QED
      BY <2>1, <2>2, <2>4, <3>1, <3>2, PairStored
  <2>5. CASE lost' = lost \cup {attempt[a].cur} /\ UNCHANGED <<rows, clock>>
    <3>1. \A b \in Attempt : attempt[b].pc = "store" => attempt[b].pair \in valid'
      BY <1>0, <2>1 DEF PairsSound
    <3>2. \A b \in Attempt :
            /\ attempt'[b].pc = "store" =>
                    attempt[b].pc = "store" /\ attempt'[b].pair = attempt[b].pair
            /\ attempt[b].cur \in lost' \/ StoreKept(b)
      BY <2>2, <2>5 DEF StoreKept
    <3>3. HeldKept
      BY <2>3 DEF HeldKept
    <3>4. valid' \subseteq valid /\ lost \subseteq lost'
      BY <2>1, <2>5
    <3>5. \A t \in Token : rows'[t].pair = rows[t].pair /\ (rows[t].pair \in valid => rows[t].pair \in valid')
      BY <2>1, <2>5
    <3> QED
      BY <1>0, <2>5, <3>1, <3>2, <3>3, <3>4, <3>5, PairsKept
  <2> QED
    BY <1>5, <2>4, <2>5 DEF StoreFails
<1> QED
  BY <1>1, <1>2, <1>3, <1>4, <1>5 DEF Answers

\* Closing a socket does not end a call to the token service or the database.
LEMMA HungStores ==
    ASSUME IInv, NEW at, at = attempt \/ at = Bumped(attempt), attempt' = Hung(at, conn)
    PROVE  \A b \in Attempt : StoreKept(b)
<1>1. Free.pc = "free"
  BY DEF Free
<1>2. \A b \in Attempt :
        /\ Quieted(b, attempt'[b])
        /\ attempt'[b] = Free => attempt[b].pc \in {"free", "up"}
  BY HungFacts
<1> QED
  BY <1>1, <1>2 DEF Quieted, StoreKept

LEMMA ConnectingStores ==
    ASSUME IInv, NEW f \in Attempt, attempt[f].pc = "free", NEW arr,
           attempt' = Connecting(attempt, f, arr)
    PROVE  \A b \in Attempt : StoreKept(b)
<1>1. attempt \in [Attempt -> Attempts]
  BY DEF IInv, TypeOK
<1>2. attempt'[f].pc = "open"
  BY DEF Connecting, Bumped, Free
<1>3. \A b \in Attempt \ {f} : attempt'[b] = [attempt[b] EXCEPT !.own = FALSE]
  BY DEF Connecting, Bumped
<1>4. \A b \in Attempt \ {f} :
        attempt'[b].pc = attempt[b].pc /\ attempt'[b].pair = attempt[b].pair
            /\ attempt'[b].cur = attempt[b].cur
  BY <1>1, <1>3 DEF Attempts
<1> QED
  BY <1>2, <1>4 DEF StoreKept

\* The objects of a new array were in the table, or had been when the tick read it.
LEMMA NewArrayPairs ==
    ASSUME IInv, NEW objects \in Objects, tick'.read \in {tick.read, Nobody},
           \A t \in Token : objects[t].pair \in Held(t) \cup {0, rows[t].pair},
           arrays' = Collected([arrays EXCEPT ![FreeArray] = objects], attempt', FreeArray)
    PROVE  HeldKept
<1> DEFINE store == [arrays EXCEPT ![FreeArray] = objects]
<1>1. TypeOK /\ arrays \in [Array -> Objects]
  BY DEF IInv, TypeOK
<1>2. store \in [Array -> Objects] /\ \A x \in Array : store[x] \in {arrays[x], objects}
  BY <1>1
<1>3. arrays' = Collected(store, attempt', FreeArray)
  OBVIOUS
<1> HIDE DEF store
<1>4. \A x \in Array : Collected(store, attempt', FreeArray)[x] \in {store[x], Nobody}
  BY <1>2, CollectedFacts
<1>5. \A x \in Array : arrays'[x] \in {arrays[x], objects, Nobody}
  BY <1>2, <1>3, <1>4
<1>6. ASSUME NEW t \in Token, NEW x \in Array
      PROVE  arrays'[x][t].pair \in Held(t) \cup {0} \cup {rows[t].pair}
  <2>1. arrays[x][t].pair \in Held(t)
    BY DEF Held
  <2> QED
    BY <1>5, <2>1, Pieces
<1>7. ASSUME NEW t \in Token
      PROVE  Held(t)' \subseteq Held(t) \cup {0} \cup {rows[t].pair}
  <2>1. tick'.read[t].pair \in Held(t) \cup {0}
    BY Pieces DEF Held
  <2> QED
    BY <1>6, <2>1 DEF Held
<1> QED
  BY <1>7 DEF HeldKept

LEMMA ClearedPairs ==
    ASSUME IInv, Clears, tick'.read \in {tick.read, Nobody}
    PROVE  HeldKept
<1>1. \A x \in Array : arrays'[x] \in {arrays[x], Nobody}
  <2>1. arrays \in [Array -> Objects] /\ arrays' = Collected(arrays, attempt', NoArray)
    BY DEF IInv, TypeOK, Clears
  <2> QED
    BY <2>1, CollectedFacts
<1> QED
  BY <1>1, Pieces DEF HeldKept, Held

LEMMA StepPairs ==
    ASSUME IInv, [Next]_vars
    PROVE  PairsSound' /\ RefreshSurvives'
<1>0. /\ TypeOK /\ PairsSound /\ RefreshSurvives /\ clock \in Nat /\ clock <= clock
      /\ attempt \in [Attempt -> Attempts] /\ rows \in [Token -> Rows]
  BY DEF IInv, TypeOK
<1>1. ASSUME UNCHANGED table, HeldKept, \A b \in Attempt : StoreKept(b)
      PROVE  PairsSound' /\ RefreshSurvives'
  BY <1>0, <1>1, SameTable DEF table
<1>2. ASSUME UNCHANGED arrays, tick'.read \in {tick.read, Nobody} PROVE HeldKept
  BY <1>2, Pieces DEF HeldKept, Held
<1>3. UNCHANGED attempt => \A b \in Attempt : StoreKept(b)
  BY DEF StoreKept
<1>4. ASSUME NEW a \in Attempt, SocketDrops(a) PROVE PairsSound' /\ RefreshSurvives'
  <2>1. \A b \in Attempt : StoreKept(b)
    BY <1>0, <1>4 DEF SocketDrops, StoreKept, Attempts
  <2> QED
    BY <1>1, <1>2, <1>4, <2>1 DEF SocketDrops, session
<1>5. ASSUME NEW a \in Attempt, LossNoticed(a) PROVE PairsSound' /\ RefreshSurvives'
  BY <1>1, <1>2, <1>5, HungStores DEF LossNoticed, HandleLost
<1>6. ASSUME NEW a \in Attempt, NEW t \in Token, TokenInvalidated(a, t)
      PROVE  PairsSound' /\ RefreshSurvives'
  <2>1. accounts \in Array
    BY <1>6, OwnSocket DEF TokenInvalidated
  <2>2. HeldKept
    BY <1>0, <1>6, <2>1, ForcedFacts DEF TokenInvalidated, HeldKept, Held
  <2> QED
    BY <1>1, <1>6, <2>2, HungStores DEF TokenInvalidated, HandleLost
<1>7. CASE TimerFires
  <2>1. FreeAttempt \in Attempt /\ attempt[FreeAttempt].pc = "free"
    BY <1>7 DEF TimerFires, FreeAttempt, Idle
  <2> QED
    BY <1>1, <1>2, <1>7, <2>1, ConnectingStores DEF TimerFires
<1>8. ASSUME NEW objects \in Objects, Seeds(objects) \/ Replaces(objects), UNCHANGED table,
             \A t \in Token : objects[t].pair \in Held(t) \cup {0, rows[t].pair},
             tick'.read \in {tick.read, Nobody}
      PROVE  PairsSound' /\ RefreshSurvives'
  <2>1. HeldKept
    BY <1>8, NewArrayPairs DEF Seeds, Replaces
  <2>2. CASE Seeds(objects)
    <3>1. FreeAttempt \in Attempt /\ attempt[FreeAttempt].pc = "free"
      BY <2>2 DEF Seeds, FreeAttempt, Idle
    <3> QED
      BY <1>1, <1>8, <2>1, <2>2, <3>1, ConnectingStores DEF Seeds
  <2>3. CASE Replaces(objects)
    BY <1>1, <1>8, <2>1, <2>3, HungStores DEF Replaces, HandleLost
  <2> QED
    BY <1>8, <2>2, <2>3
<1>9. ASSUME Clears, attempt' = Hung(attempt, conn) \/ attempt' = Hung(Bumped(attempt), conn),
             UNCHANGED table, tick'.read \in {tick.read, Nobody}
      PROVE  PairsSound' /\ RefreshSurvives'
  BY <1>1, <1>9, HungStores, ClearedPairs
<1>10. CASE TickApplies
  <2>1. /\ UNCHANGED table /\ tick'.read = Nobody
        /\ tick.read \in Objects
        /\ \A t \in Token : tick.read[t].pair \in Held(t)
    BY <1>0, <1>10 DEF TickApplies, AtRest, TypeOK, Held
  <2>2. CASE Seeds(tick.read) \/ Replaces(tick.read)
    BY <1>8, <2>1, <2>2
  <2>3. CASE Clears /\ attempt' = Hung(Bumped(attempt), conn)
    BY <1>9, <2>1, <2>3
  <2>4. CASE UNCHANGED <<session, attempt>>
    BY <1>1, <1>2, <1>3, <2>1, <2>4 DEF session
  <2> QED
    BY <1>10, <2>2, <2>3, <2>4 DEF TickApplies, ApplyReconcile
<1>11. CASE TickProbes \/ TickFails \/ StartFails
  <2>1. UNCHANGED <<table, session, attempt>> /\ tick'.read \in {tick.read, Nobody}
    BY <1>11 DEF TickProbes, TickFails, StartFails, AtRest
  <2> QED
    BY <1>1, <1>2, <1>3, <2>1 DEF session
<1>17. CASE TickLoads
  <2>1. UNCHANGED <<table, arrays, attempt>> /\ tick'.read = LoadAccounts
    BY <1>17 DEF TickLoads, session
  <2>2. HeldKept
    BY <1>0, <2>1, LoadFacts DEF HeldKept, Held
  <2> QED
    BY <1>1, <1>3, <2>1, <2>2
<1>12. CASE Start
  <2>1. LoadAccounts \in Objects /\ \A t \in Token : LoadAccounts[t].pair \in {0, rows[t].pair}
    BY <1>0, LoadFacts
  <2> QED
    BY <1>1, <1>2, <1>3, <1>8, <1>12, <2>1 DEF Start, session
<1>13. CASE Stop
  BY <1>9, <1>13 DEF Stop
<1>14. CASE Dies
  <2>1. /\ Clears /\ UNCHANGED <<rows, valid, clock>> /\ lost \subseteq lost'
        /\ tick'.read = Nobody
        /\ \A b \in Attempt : attempt[b].pc = "store" => attempt[b].cur \in lost'
        /\ \A b \in Attempt : attempt'[b].pc = "free"
    BY <1>14 DEF Dies, Free, AtRest
  <2>2. \A b \in Attempt : attempt[b].pc = "store" => attempt[b].pair \in valid'
    BY <1>0, <2>1 DEF PairsSound
  <2> QED
    BY <1>0, <2>1, <2>2, ClearedPairs, PairsKept
<1>15. ASSUME NEW t \in Token, Outside(t) PROVE PairsSound' /\ RefreshSurvives'
  <2>0. /\ HeldKept /\ arrays' = arrays /\ tick' = tick /\ attempt' = attempt
        /\ \A b \in Attempt : StoreKept(b) /\ \A u \in Token : Held(u)' = Held(u)
    BY <1>2, <1>3, <1>15
    DEF Outside, UserConnects, UserDisconnects, UserReturns, Revoked, Elsewhere, session, Held
  <2>1. CASE UserConnects(t)
    <3>1. /\ clock' = clock + 1 /\ clock' \in Nat /\ valid' = valid \cup {clock'}
          /\ \A u \in Token : rows'[u].pair = IF u = t THEN clock' ELSE rows[u].pair
          /\ lost' = lost \ {t}
      BY <1>0, <2>1 DEF UserConnects
    <3>2. /\ \A p \in valid : p \in 1 .. clock /\ p # clock'
          /\ \A u \in Token : rows[u].pair <= clock' /\ rows[u].pair # clock'
          /\ \A u \in Token : \A p \in Held(u) : p <= clock' /\ p # clock'
      BY <1>0, <3>1, PairTypes DEF PairsSound
    <3>3. \A p \in valid' : p \in 1 .. clock'
      BY <1>0, <3>1, <3>2
    <3>4. \A u, v \in Token : rows'[u].pair = rows'[v].pair /\ rows'[u].pair # 0 => u = v
      BY <1>0, <3>1, <3>2 DEF PairsSound
    <3>5. ASSUME NEW u \in Token, NEW p \in Held(u)
          PROVE  \A v \in Token : p = rows'[v].pair /\ rows'[v].pair # 0 => u = v
      <4>1. \A v \in Token : p = rows[v].pair /\ rows[v].pair # 0 => u = v
        BY <1>0 DEF PairsSound
      <4> QED
        BY <3>1, <3>2, <4>1
    <3>6. ASSUME NEW a \in Attempt, attempt[a].pc = "store"
          PROVE  /\ attempt[a].pair \in valid'
                 /\ \A u \in Token : rows'[u].pair # attempt[a].pair
                 /\ \A u \in Token : attempt[a].pair \notin Held(u)
                 /\ \A b \in Attempt \ {a} :
                        attempt[b].pc = "store" => attempt[b].pair # attempt[a].pair
      BY <1>0, <3>1, <3>2, <3>6 DEF PairsSound
    <3>7. PairsSound'
      <4>1. valid' \subseteq 1 .. clock' /\ \A u \in Token : rows'[u].pair <= clock'
        BY <3>1, <3>2, <3>3
      <4>2. ASSUME NEW u \in Token, NEW p \in Held(u)'
            PROVE  /\ p <= clock'
                   /\ \A v \in Token : p = rows'[v].pair /\ rows'[v].pair # 0 => u = v
        <5>1. p \in Held(u)
          BY <2>0, <4>2 DEF Held
        <5> QED
          BY <3>2, <3>5, <5>1
      <4>3. \A a \in Attempt : attempt'[a].pc = "store" =>
              /\ attempt'[a].pair \in valid'
              /\ \A u \in Token : rows'[u].pair # attempt'[a].pair
              /\ \A u \in Token : attempt'[a].pair \notin Held(u)'
              /\ \A b \in Attempt \ {a} :
                    attempt'[b].pc = "store" => attempt'[b].pair # attempt'[a].pair
        BY <2>0, <3>6
      <4> QED
        BY <3>4, <4>1, <4>2, <4>3 DEF PairsSound
    <3>8. RefreshSurvives'
      BY <1>0, <2>0, <3>1 DEF RefreshSurvives
    <3> QED
      BY <3>7, <3>8
  <2>2. CASE UserDisconnects(t) \/ UserReturns(t)
    <3>1. clock' = clock + 1 /\ UNCHANGED <<valid, lost>>
      BY <2>2 DEF UserDisconnects, UserReturns
    <3>2. \A u \in Token : rows'[u].pair = rows[u].pair
      <4>1. PICK row \in Rows : rows' = [rows EXCEPT ![t] = row] /\ row.pair = rows[t].pair
        <5>1. /\ [rows[t] EXCEPT !.active = FALSE] \in Rows
              /\ [rows[t] EXCEPT !.active = FALSE].pair = rows[t].pair
          BY <1>0 DEF Rows
        <5>2. /\ [rows[t] EXCEPT !.active = TRUE, !.at = clock'] \in Rows
              /\ [rows[t] EXCEPT !.active = TRUE, !.at = clock'].pair = rows[t].pair
          <6>1. rows[t] \in Rows /\ clock' \in Nat
            BY <1>0, <3>1
          <6> QED
            BY <6>1 DEF Rows
        <5> QED
          BY <1>0, <2>2, <5>1, <5>2 DEF UserDisconnects, UserReturns
      <4> QED
        BY <1>0, <4>1
    <3> QED
      BY <1>0, <2>0, <3>1, <3>2, SameTable
  <2>3. CASE Revoked(t)
    <3>1. /\ valid' = valid \ {rows[t].pair} /\ lost' = lost \cup {t}
          /\ UNCHANGED <<rows, clock>> /\ rows[t].pair # 0
      BY <1>0, <2>3 DEF Revoked, PairsSound
    <3>2. \A b \in Attempt : attempt[b].pc = "store" => attempt[b].pair \in valid'
      BY <1>0, <3>1 DEF PairsSound
    <3>3. \A u \in Token : rows[u].pair \in valid => rows[u].pair \in valid' \/ u \in lost'
      BY <1>0, <3>1 DEF PairsSound
    <3> QED
      BY <1>0, <2>0, <3>1, <3>2, <3>3, PairsKept
  <2> QED
    BY <1>15, <2>1, <2>2, <2>3 DEF Outside
<1>16. CASE UNCHANGED vars
  BY <1>1, <1>2, <1>3, <1>16 DEF vars, session
<1> QED
  BY <1>4, <1>5, <1>6, <1>7, <1>10, <1>11, <1>12, <1>13, <1>14, <1>15, <1>16, <1>17, AnswerPairs
  DEF Next, Tick, Process

-----------------------------------------------------------------------------
(* The theorems.                                                           *)

LEMMA InitInv == Init => IInv
<1> SUFFICES ASSUME Init PROVE IInv
  OBVIOUS
<1>1. /\ conn = None /\ accounts = NoArray /\ timer = FALSE /\ phase = "off"
      /\ attempt = [a \in Attempt |-> Free] /\ arrays = [x \in Array |-> Nobody]
      /\ signature = Nobody /\ routed = Routing(Nobody) /\ lastProbe = NoProbe /\ tick = AtRest
      /\ lost = {} /\ faults = 0 /\ loads = 0 /\ stops = 0
  BY DEF Init
<1>2. \A a \in Attempt : attempt[a] = Free
  BY <1>1
<1>3. Free.pc = "free" /\ Free.own = FALSE /\ Free.sock = "closed"
  BY DEF Free
<1>4. Linked /\ ConnSound /\ RouteSound
  BY <1>1, <1>2, <1>3 DEF Linked, ConnSound, ShapeSound, RouteSound, InFlight
<1>5. SessionTyped
  BY <1>1, Pieces, RoutingFacts DEF SessionTyped
<1>6. /\ clock \in Nat /\ valid \subseteq 1 .. clock /\ valid \in SUBSET Pair
      /\ rows \in [Token -> Rows]
      /\ \A t \in Token : rows[t].pair <= clock
      /\ \A t \in Token : rows[t].pair # 0 => rows[t].pair \in valid
      /\ \A t, u \in Token : rows[t].pair = rows[u].pair /\ rows[t].pair # 0 => t = u
  <2>0. 0 \in Pair /\ 1 \in Pair
    BY PoolAssumption DEF Pair
  <2>1. CASE rows = [t \in Token |-> NewRow] /\ clock = 0 /\ valid = {}
    <3>1. NewRow \in Rows /\ NewRow.pair = 0
      BY <2>0 DEF NewRow, Rows
    <3> QED
      BY <2>1, <3>1
  <2>2. ASSUME NEW t \in Token, rows = [u \in Token |-> IF u = t THEN PausedRow ELSE NewRow],
               clock = 1, valid = {1}
        PROVE  /\ clock \in Nat /\ valid \subseteq 1 .. clock /\ valid \in SUBSET Pair
               /\ rows \in [Token -> Rows]
               /\ \A u \in Token : rows[u].pair <= clock
               /\ \A u \in Token : rows[u].pair # 0 => rows[u].pair \in valid
               /\ \A u, v \in Token : rows[u].pair = rows[v].pair /\ rows[u].pair # 0 => u = v
    <3>1. NewRow \in Rows /\ NewRow.pair = 0
      BY <2>0 DEF NewRow, Rows
    <3>2. PausedRow \in Rows /\ PausedRow.pair = 1
      BY <2>0 DEF PausedRow, NewRow, Rows
    <3> QED
      BY <2>0, <2>2, <3>1, <3>2
  <2> QED
    BY <2>1, <2>2 DEF Init
<1>7. TableTyped
  BY <1>1, <1>6, Pieces DEF TableTyped, Phases, AtRest
<1>8. PairsSound
  <2>1. \A t \in Token : \A p \in Held(t) : p = 0
    BY <1>1, Pieces DEF Held, AtRest
  <2> QED
    BY <1>2, <1>3, <1>6, <2>1 DEF PairsSound
<1>9. RefreshSurvives
  BY <1>6 DEF RefreshSurvives
<1>10. ReadSound
  BY <1>1, Pieces DEF ReadSound, AtRest
<1> QED
  BY <1>4, <1>5, <1>7, <1>8, <1>9, <1>10, TypedAndLinked DEF IInv

\* The invariant is inductive: it holds at the start and every step keeps it.
THEOREM Invariance == Spec => []IInv
<1>1. IInv /\ [Next]_vars => IInv'
  <2> SUFFICES ASSUME IInv, [Next]_vars PROVE IInv'
    OBVIOUS
  <2>1. SessionTyped' /\ Linked' /\ ConnSound' /\ RouteSound'
    BY StepSound DEF Sound, Served
  <2>2. TypeOK'
    BY <2>1, StepTyped DEF TypeOK, TableTyped, SessionTyped, Linked, M
  <2> QED
    BY <2>1, <2>2, ReadStep, StepPairs DEF IInv
<1> QED
  BY <1>1, InitInv, PTL DEF Spec

\* Every variable keeps its type, and the links between them that TypeOK names.
THEOREM TypeCorrect == Spec => []TypeOK
<1>1. IInv => TypeOK
  BY DEF IInv
<1> QED
  BY <1>1, Invariance, PTL

\* However many connect attempts overlap (connectEnv and its generation guard), an
\* account is authenticated on one open socket and its events reach its own row.
THEOREM EventsRouted == Spec => []EventsReachOwner
<1>1. IInv => EventsReachOwner
  <2> SUFFICES ASSUME IInv, NEW a \in Attempt, attempt[a].sock = "open",
                      NEW t \in attempt[a].authed
               PROVE  /\ routed[Ctid[t]] = t
                      /\ \A b \in Attempt \ {a} :
                            attempt[b].sock = "open" => t \notin attempt[b].authed
    BY DEF EventsReachOwner
  <2>1. conn = a /\ attempt[a].own
    BY NoneIsNone DEF IInv, ConnSound
  <2>2. accounts # NoArray /\ phase = "up"
    BY <2>1, OwnSocket, Pieces
  <2>3. t \in Members(arrays[accounts])
    BY <2>1, <2>2 DEF IInv, RouteSound
  <2>4. routed[Ctid[t]] = t
    BY <2>2, <2>3 DEF IInv, RouteSound
  <2>5. \A b \in Attempt \ {a} : attempt[b].sock # "open"
    BY <2>1 DEF IInv, ConnSound
  <2> QED
    BY <2>4, <2>5
<1> QED
  BY <1>1, Invariance, PTL

\* No order of lost sockets, timers and reconciles leaves a session that waits for
\* nothing: a timer is armed, or a live connection is the session's own.
THEOREM SessionsAttended == Spec => []NeverStranded
<1>1. IInv => NeverStranded
  BY DEF IInv, NeverStranded, ConnSound, TypeOK
<1> QED
  BY <1>1, Invariance, PTL

\* A rotated token is in its row or about to be stored there, unless a failed call,
\* a crash or its user lost it, whatever attempts refresh it at once.
THEOREM RotationSurvives == Spec => []RefreshSurvives
<1>1. IInv => RefreshSurvives
  BY DEF IInv
<1> QED
  BY <1>1, Invariance, PTL

=============================================================================
