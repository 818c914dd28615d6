----------------------------- MODULE CtraderPool -----------------------------
(***************************************************************************)
(* The cTrader connection manager for one environment: one socket carries  *)
(* all accounts of the environment, their OAuth tokens rotate, and a tick  *)
(* brings the session in line with the table of tokens.                    *)
(*                                                                         *)
(* A connect attempt runs over many awaits; a lost socket, the reconnect   *)
(* timer and the tick start another while it is still under way.  Each     *)
(* action is the code between two awaits.                                  *)
(*                                                                         *)
(* A pair is an access and a refresh token with their expiry; pairs and    *)
(* the writes of the table are numbered by one logical clock.              *)
(***************************************************************************)
EXTENDS Naturals, FiniteSets, FiniteSetsExt

CONSTANTS
    Token,       \* rows of CtraderToken
    Ctid,        \* the cTrader account of each row
    Attempt,     \* connect attempts that may be unfinished at once
    None,        \* no attempt, no token
    MaxClock,    \* bound on issued pairs and table writes
    MaxFaults,   \* bound on failed calls, lost sockets and invalidations
    MaxLoads,    \* bound on failed loads of the accounts
    MaxStops     \* bound on shutdowns and crashes

ASSUME PoolAssumption ==
    /\ None \notin Token \cup Attempt
    /\ IsFiniteSet(Token) /\ IsFiniteSet(Attempt)
    /\ Ctid \in [Token -> {Ctid[t] : t \in Token}]
    /\ MaxClock \in Nat \ {0} /\ {MaxFaults, MaxLoads, MaxStops} \subseteq Nat

VARIABLES
    phase,       \* "off", "up", "idle" (start failed) or "stopped"
    rows,        \* the table of tokens
    valid,       \* pairs whose refresh token cTrader accepts
    lost,        \* tokens whose newest pair was lost or revoked (history)
    clock, faults, loads, stops,
    lastProbe,   \* count and newest write of active rows seen by the tick
    tick,        \* "rest", "loading" or "loaded", and what was read
    accounts,    \* session.accounts: an array, or NoArray without a session
    arrays,      \* the account objects of each array in use
    signature,   \* session.signature
    timer,       \* session.reconnectTimer is armed
    conn,        \* session.connection: the attempt that made it
    attempt,     \* connect attempts and the sockets they made
    routed       \* accountsByCtid

table == <<rows, valid, lost, clock>>
bounds == <<faults, loads, stops>>
session == <<accounts, arrays, signature, timer, conn, routed>>
vars == <<phase, table, bounds, lastProbe, tick, session, attempt>>

-----------------------------------------------------------------------------
(* Accounts in memory                                                      *)

Pair == 0 .. MaxClock
NoArray == 0
Array == 1 .. Cardinality(Attempt) + 1

\* An account object; pair 0 says that the array has no object for the row.
\* A forced object has its expiry set to the epoch.
Account == [pair : Pair, forced : BOOLEAN]
Absent == [pair |-> 0, forced |-> FALSE]
Nobody == [t \in Token |-> Absent]

\* The probe of a manager that has not probed yet: no table counts so many.
NoProbe == [count |-> Cardinality(Token) + 1, at |-> 0]

Active == {t \in Token : rows[t].active}

Members(objects) == {t \in Token : objects[t].pair # 0}

\* Expiry grows with the number of the pair; one row per cTrader account.
DedupeByCtid(S) ==
    {t \in S : \A u \in S : Ctid[u] = Ctid[t] => rows[u].pair <= rows[t].pair}

LoadAccounts ==
    LET kept == DedupeByCtid(Active)
    IN  [t \in Token |-> IF t \in kept
                         THEN [pair |-> rows[t].pair, forced |-> FALSE]
                         ELSE Absent]

AtRest == [pc |-> "rest", read |-> Nobody]

\* Row and expiry of every account; a pair has one expiry, a forced one none.
ComputeSignature(objects) == objects

Routing(objects) ==
    [c \in {Ctid[t] : t \in Token} |->
        IF \E t \in Members(objects) : Ctid[t] = c
        THEN CHOOSE t \in Members(objects) : Ctid[t] = c
        ELSE None]

\* With a plausible slip: setRouting before clearRouting
SetThenCleared(before, objects) ==
    [c \in {Ctid[t] : t \in Token} |->
        IF \E t \in Members(before) : Ctid[t] = c THEN None
        ELSE Routing(objects)[c]]

\* setRouting after clearRouting of the accounts managed before
SetRouting(before, objects) == Routing(objects)

-----------------------------------------------------------------------------
(* Connect attempts                                                        *)

Free == [pc |-> "free", own |-> FALSE, sock |-> "closed", array |-> NoArray,
         todo |-> {}, cur |-> None, pair |-> 0, authed |-> {}]

\* Generation and stop flag as the attempt sees them: own says that the
\* generation of the session is still the one it captured.
Superseded(a) == phase = "stopped" \/ ~attempt[a].own

InFlight(a) == attempt[a].pc \notin {"free", "up"}

\* session.generation += 1
Bumped(at) == [a \in Attempt |-> [at[a] EXCEPT !.own = FALSE]]

\* session.connection?.close(): a finished attempt is only its socket
Hung(at, c) ==
    [a \in Attempt |-> IF a # c THEN at[a]
                       ELSE IF at[a].pc = "up" THEN Free
                       ELSE [at[a] EXCEPT !.sock = "closed"]]

\* connectEnv up to its first await
Connecting(at, a, arr) ==
    [Bumped(at) EXCEPT ![a] =
        [Free EXCEPT !.pc = "open", !.own = TRUE, !.sock = "opening",
                     !.array = arr]]

ScheduleReconnect == timer' = (phase = "up")

InUse(at, arr) == {arr} \cup {at[a].array : a \in Attempt}

\* Arrays nothing refers to are garbage.
Collected(store, at, arr) ==
    [x \in Array |-> IF x \in InUse(at, arr) THEN store[x] ELSE Nobody]

Idle == {a \in Attempt : attempt[a].pc = "free"}
FreeAttempt == CHOOSE a \in Idle : TRUE
FreeArray == CHOOSE x \in Array : x \notin InUse(attempt, NoArray)

\* The attempt closes its socket and returns.
Returns(a) ==
    /\ attempt' = [attempt EXCEPT ![a] = Free]
    /\ UNCHANGED <<signature, timer, conn>>

\* After the last account: back off reset, signature taken again from the
\* accounts, which this attempt may have refreshed.
Finishes(a, authed, store) ==
    /\ attempt' = [attempt EXCEPT ![a] =
            IF attempt[a].sock = "closed" THEN Free
            ELSE [Free EXCEPT !.pc = "up", !.own = TRUE,
                              !.sock = attempt[a].sock, !.authed = authed]]
    /\ signature' = ComputeSignature(store[accounts])
    /\ UNCHANGED <<timer, conn>>

\* ensureFreshToken up to its first await, else accountAuth
Begins(a, t, todo, authed, store) ==
    \E pc \in {"refresh", "auth"} :
        /\ pc = "auth" => ~store[attempt[a].array][t].forced
        /\ attempt' = [attempt EXCEPT ![a] =
                [@ EXCEPT !.pc = pc, !.cur = t, !.todo = todo, !.pair = 0,
                          !.authed = authed]]
        /\ UNCHANGED <<signature, timer, conn>>

\* The loop of connectEnv from its head to the next await, and its tail.
Loops(a, todo, authed, store) ==
    \/ Superseded(a) /\ Returns(a)
    \/ /\ ~Superseded(a)
       /\ todo = {}
       /\ Finishes(a, authed, store)
    \/ /\ ~Superseded(a)
       /\ \E t \in todo : Begins(a, t, todo \ {t}, authed, store)

\* What stays behind when an attempt moves on.
Moves(store) ==
    /\ arrays' = Collected(store, attempt', accounts)
    /\ UNCHANGED <<phase, loads, stops, lastProbe, tick, accounts, routed>>

Fault == faults < MaxFaults /\ faults' = faults + 1

\* A call on a socket that is closed or dead only times out.
FailsOn(a) == IF attempt[a].sock \in {"opening", "open"} THEN Fault
              ELSE UNCHANGED faults

OpenAnswers(a) ==
    /\ attempt[a].pc = "open"
    /\ IF Superseded(a) THEN Returns(a)
       ELSE /\ attempt' = [attempt EXCEPT ![a] =
                    [@ EXCEPT !.pc = "app", !.sock = "open"]]
            /\ UNCHANGED <<signature, timer, conn>>
    /\ Moves(arrays)
    /\ UNCHANGED <<table, faults>>

\* applicationAuth
AppAnswers(a) ==
    /\ attempt[a].pc = "app"
    /\ attempt[a].sock = "open"
    /\ Loops(a, Members(arrays[attempt[a].array]), {}, arrays)
    /\ Moves(arrays)
    /\ UNCHANGED <<table, faults>>

\* With a plausible slip: the closed connection stays that of the session
GivesUpConnected(a) ==
    /\ attempt' = [attempt EXCEPT ![a] = Free]
    /\ ScheduleReconnect
    /\ UNCHANGED <<signature, conn>>

GivesUp(a) ==
    /\ attempt' = [attempt EXCEPT ![a] = Free]
    /\ conn' = None
    /\ ScheduleReconnect
    /\ UNCHANGED signature

\* The catch block of connectEnv
ConnectFails(a) ==
    /\ attempt[a].pc \in {"open", "app"}
    /\ FailsOn(a)
    /\ \/ Superseded(a) /\ Returns(a)
       \/ ~Superseded(a) /\ GivesUp(a)
    /\ Moves(arrays)
    /\ UNCHANGED table

Mine(a) == arrays[attempt[a].array][attempt[a].cur]

\* The catch block of one account: it is skipped.
Skips(a, store) ==
    /\ Loops(a, attempt[a].todo, attempt[a].authed, store)
    /\ Moves(store)

\* cTrader rotates: the old refresh token dies as the new pair is issued.
RefreshAnswers(a) ==
    /\ attempt[a].pc = "refresh"
    /\ Mine(a).pair \in valid
    /\ clock < MaxClock
    /\ clock' = clock + 1
    /\ valid' = (valid \ {Mine(a).pair}) \cup {clock'}
    /\ attempt' = [attempt EXCEPT ![a] =
            [@ EXCEPT !.pc = "store", !.pair = clock']]
    /\ Moves(arrays)
    /\ UNCHANGED <<rows, lost, faults, signature, timer, conn>>

\* invalid_grant
RefreshRejected(a) ==
    /\ attempt[a].pc = "refresh"
    /\ Mine(a).pair \notin valid
    /\ attempt' = [attempt EXCEPT ![a] = [@ EXCEPT !.pc = "reap"]]
    /\ Moves(arrays)
    /\ UNCHANGED <<table, faults, signature, timer, conn>>

\* Any other error; the rotation may have happened all the same.  At the
\* bound of the clock cTrader answers with errors only.
RefreshFails(a) ==
    /\ attempt[a].pc = "refresh"
    /\ IF clock < MaxClock THEN Fault ELSE UNCHANGED faults
    /\ \/ UNCHANGED <<valid, lost>>
       \/ /\ valid' = valid \ {Mine(a).pair}
          /\ lost' = IF Mine(a).pair \in valid
                     THEN lost \cup {attempt[a].cur} ELSE lost
    /\ Skips(a, arrays)
    /\ UNCHANGED <<rows, clock>>

\* With a plausible slip: the new pair is kept in memory only
StoredInMemory(a, at) == rows' = [rows EXCEPT ![attempt[a].cur] =
                                    [@ EXCEPT !.at = at]]

Stored(a, at) ==
    rows' = [rows EXCEPT ![attempt[a].cur] =
                [@ EXCEPT !.pair = attempt[a].pair, !.at = at]]

StoreAnswers(a) ==
    /\ attempt[a].pc = "store"
    /\ clock' = clock + 1
    /\ Stored(a, clock')
    /\ attempt' = [attempt EXCEPT ![a] = [@ EXCEPT !.pc = "auth", !.pair = 0]]
    /\ LET fresh == [pair |-> attempt[a].pair, forced |-> FALSE]
           store == [arrays EXCEPT ![attempt[a].array][attempt[a].cur] = fresh]
       IN  Moves(store)
    /\ UNCHANGED <<valid, lost, faults, signature, timer, conn>>

\* The update of the row throws; it may have landed.
StoreFails(a) ==
    /\ attempt[a].pc = "store"
    /\ Fault
    /\ \/ /\ clock' = clock + 1
          /\ Stored(a, clock')
          /\ UNCHANGED lost
       \/ /\ lost' = lost \cup {attempt[a].cur}
          /\ UNCHANGED <<rows, clock>>
    /\ Skips(a, arrays)
    /\ UNCHANGED valid

\* accountAuth and the symbol list, which never throws
AuthAnswers(a) ==
    /\ attempt[a].pc = "auth"
    /\ attempt[a].sock = "open"
    /\ Loops(a, attempt[a].todo, attempt[a].authed \cup {attempt[a].cur}, arrays)
    /\ Moves(arrays)
    /\ UNCHANGED <<table, faults>>

AuthFails(a) ==
    /\ attempt[a].pc = "auth"
    /\ FailsOn(a)
    /\ Skips(a, arrays)
    /\ UNCHANGED table

\* deactivateDeadToken
Reaps(a) ==
    /\ attempt[a].pc = "reap"
    /\ rows' = [rows EXCEPT ![attempt[a].cur] =
                    [@ EXCEPT !.active = FALSE, !.rejected = TRUE]]
    /\ Skips(a, arrays)
    /\ UNCHANGED <<valid, lost, clock, faults>>

ReapFails(a) ==
    /\ attempt[a].pc = "reap"
    /\ Fault
    /\ Skips(a, arrays)
    /\ UNCHANGED table

-----------------------------------------------------------------------------
(* The socket                                                              *)

\* handleLost of the session's own connection
HandleLost(at) ==
    /\ attempt' = Hung(at, conn)
    /\ conn' = None
    /\ ScheduleReconnect

SocketDrops(a) ==
    /\ attempt[a].sock = "open"
    /\ Fault
    /\ attempt' = [attempt EXCEPT ![a] = [@ EXCEPT !.sock = "dead"]]
    /\ UNCHANGED <<phase, table, loads, stops, lastProbe, tick, session>>

\* Disconnect event or failed liveness probe
LossNoticed(a) ==
    /\ attempt[a].sock = "dead"
    /\ attempt[a].own
    /\ HandleLost(attempt)
    /\ UNCHANGED <<phase, table, bounds, lastProbe, tick, accounts, arrays,
                   signature, routed>>

\* handleTokenInvalidated
TokenInvalidated(a, t) ==
    /\ attempt[a].sock = "open"
    /\ attempt[a].own
    /\ t \in attempt[a].authed
    /\ Fault
    /\ arrays' = [arrays EXCEPT ![accounts][t].forced = TRUE]
    /\ HandleLost(attempt)
    /\ UNCHANGED <<phase, table, loads, stops, lastProbe, tick, accounts,
                   signature, routed>>

TimerFires ==
    /\ timer
    /\ Idle # {}
    /\ timer' = FALSE
    /\ attempt' = Connecting(attempt, FreeAttempt, accounts)
    /\ conn' = FreeAttempt
    /\ UNCHANGED <<phase, table, bounds, lastProbe, tick, accounts, arrays,
                   signature, routed>>

-----------------------------------------------------------------------------
(* Reconcile                                                               *)

Newest == Max({rows[t].at : t \in Active} \cup {0})

\* With a plausible slip: only the number of accounts is looked at
CountedProbe == [count |-> Cardinality(Active), at |-> 0]

Probe == [count |-> Cardinality(Active), at |-> Newest]

\* A session for objects, connected at once
Seeds(objects) ==
    /\ Idle # {}
    /\ accounts' = FreeArray
    /\ attempt' = Connecting(attempt, FreeAttempt, FreeArray)
    /\ arrays' = Collected([arrays EXCEPT ![FreeArray] = objects],
                           attempt', FreeArray)
    /\ signature' = ComputeSignature(objects)
    /\ routed' = Routing(objects)
    /\ conn' = FreeAttempt
    /\ timer' = FALSE

\* No session
Clears ==
    /\ accounts' = NoArray
    /\ arrays' = Collected(arrays, attempt', NoArray)
    /\ signature' = Nobody
    /\ routed' = Routing(Nobody)
    /\ conn' = None
    /\ timer' = FALSE

\* With a plausible slip: handleLost is given the old generation and returns
ReplacesStale(objects) ==
    /\ accounts' = FreeArray
    /\ attempt' = Bumped(attempt)
    /\ arrays' = Collected([arrays EXCEPT ![FreeArray] = objects],
                           attempt', FreeArray)
    /\ signature' = ComputeSignature(objects)
    /\ routed' = SetRouting(arrays[accounts], objects)
    /\ UNCHANGED <<timer, conn>>

\* The account set changed: new array, new generation, one reconnect
Replaces(objects) ==
    /\ accounts' = FreeArray
    /\ HandleLost(Bumped(attempt))
    /\ arrays' = Collected([arrays EXCEPT ![FreeArray] = objects],
                           attempt', FreeArray)
    /\ signature' = ComputeSignature(objects)
    /\ routed' = SetRouting(arrays[accounts], objects)

ApplyReconcile(objects) ==
    \/ /\ accounts = NoArray
       /\ Members(objects) # {}
       /\ Seeds(objects)
    \/ /\ accounts # NoArray
       /\ Members(objects) = {}
       /\ attempt' = Hung(Bumped(attempt), conn)
       /\ Clears
    \/ /\ accounts # NoArray
       /\ Members(objects) # {}
       /\ ComputeSignature(objects) # signature
       /\ Replaces(objects)
    \/ /\ IF accounts = NoArray THEN Members(objects) = {}
          ELSE ComputeSignature(objects) = signature
       /\ UNCHANGED <<session, attempt>>

\* The probe sees a change and is remembered.
TickProbes ==
    /\ phase = "up"
    /\ tick.pc = "rest"
    /\ lastProbe # Probe
    /\ lastProbe' = Probe
    /\ tick' = [AtRest EXCEPT !.pc = "loading"]
    /\ UNCHANGED <<phase, table, bounds, session, attempt>>

\* The query of loadAccounts reads the table.
TickLoads ==
    /\ tick.pc = "loading"
    /\ tick' = [pc |-> "loaded", read |-> LoadAccounts]
    /\ UNCHANGED <<phase, table, bounds, lastProbe, session, attempt>>

\* What was read is applied, whatever has happened since.
TickApplies ==
    /\ tick.pc = "loaded"
    /\ tick' = AtRest
    /\ IF phase = "up" THEN ApplyReconcile(tick.read)
       ELSE UNCHANGED <<session, attempt>>
    /\ UNCHANGED <<phase, table, bounds, lastProbe>>

TickFails ==
    /\ tick.pc = "loading"
    /\ loads < MaxLoads
    /\ loads' = loads + 1
    /\ tick' = AtRest
    /\ UNCHANGED <<phase, table, faults, stops, lastProbe, session, attempt>>

-----------------------------------------------------------------------------
(* Start and end of the process                                            *)

Start ==
    /\ phase = "off"
    /\ phase' = "up"
    /\ \/ /\ Members(LoadAccounts) # {}
          /\ Seeds(LoadAccounts)
       \/ /\ Members(LoadAccounts) = {}
          /\ UNCHANGED <<session, attempt>>
    /\ UNCHANGED <<table, bounds, lastProbe, tick>>

\* start() rejects before it arms the reconcile interval.
StartFails ==
    /\ phase = "off"
    /\ loads < MaxLoads
    /\ loads' = loads + 1
    /\ phase' = "idle"
    /\ UNCHANGED <<table, faults, stops, lastProbe, tick, session, attempt>>

\* onModuleDestroy: attempts and a tick under way run on.
Stop ==
    /\ phase = "up"
    /\ stops < MaxStops
    /\ stops' = stops + 1
    /\ phase' = "stopped"
    /\ attempt' = Hung(attempt, conn)
    /\ Clears
    /\ UNCHANGED <<table, faults, loads, lastProbe, tick>>

\* The process ends, after a stop or by a crash; pairs not stored are gone.
Dies ==
    /\ phase # "off"
    /\ phase # "stopped" => stops < MaxStops
    /\ stops' = IF phase = "stopped" THEN stops ELSE stops + 1
    /\ phase' = "off"
    /\ attempt' = [a \in Attempt |-> Free]
    /\ Clears
    /\ lost' = lost \cup {attempt[a].cur : a \in {b \in Attempt : attempt[b].pc = "store"}}
    /\ lastProbe' = NoProbe
    /\ tick' = AtRest
    /\ UNCHANGED <<rows, valid, clock, faults, loads>>

-----------------------------------------------------------------------------
(* The main application and the user                                       *)

Elsewhere == UNCHANGED <<phase, bounds, lastProbe, tick, session, attempt>>

\* OAuth connect or reconnect: a new pair
UserConnects(t) ==
    /\ clock < MaxClock
    /\ clock' = clock + 1
    /\ valid' = valid \cup {clock'}
    /\ rows' = [rows EXCEPT ![t] =
            [active |-> TRUE, rejected |-> FALSE, pair |-> clock', at |-> clock']]
    /\ lost' = lost \ {t}
    /\ Elsewhere

UserDisconnects(t) ==
    /\ rows[t].active
    /\ clock < MaxClock
    /\ clock' = clock + 1
    /\ rows' = [rows EXCEPT ![t] = [@ EXCEPT !.active = FALSE]]
    /\ UNCHANGED <<valid, lost>>
    /\ Elsewhere

\* The returning user's account is enabled again unless its token is dead.
UserReturns(t) ==
    /\ rows[t].pair # 0
    /\ ~rows[t].active
    /\ ~rows[t].rejected
    /\ clock < MaxClock
    /\ clock' = clock + 1
    /\ rows' = [rows EXCEPT ![t] = [@ EXCEPT !.active = TRUE, !.at = clock']]
    /\ UNCHANGED <<valid, lost>>
    /\ Elsewhere

\* Access is taken back at cTrader.
Revoked(t) ==
    /\ rows[t].pair \in valid
    /\ valid' = valid \ {rows[t].pair}
    /\ lost' = lost \cup {t}
    /\ UNCHANGED <<rows, clock>>
    /\ Elsewhere

-----------------------------------------------------------------------------
(* The specification                                                       *)

NewRow == [active |-> FALSE, rejected |-> FALSE, pair |-> 0, at |-> 0]

PausedRow == [NewRow EXCEPT !.pair = 1, !.at = 1]

\* Nobody has connected yet, or one user has and is paused.
Init ==
    /\ phase = "off"
    /\ \/ /\ rows = [t \in Token |-> NewRow]
          /\ clock = 0 /\ valid = {}
       \/ /\ \E t \in Token : rows = [u \in Token |->
                    IF u = t THEN PausedRow ELSE NewRow]
          /\ clock = 1 /\ valid = {1}
    /\ lost = {}
    /\ faults = 0 /\ loads = 0 /\ stops = 0
    /\ lastProbe = NoProbe
    /\ tick = AtRest
    /\ accounts = NoArray
    /\ arrays = [x \in Array |-> Nobody]
    /\ signature = Nobody
    /\ timer = FALSE
    /\ conn = None
    /\ attempt = [a \in Attempt |-> Free]
    /\ routed = Routing(Nobody)

Answers(a) ==
    \/ OpenAnswers(a) \/ AppAnswers(a) \/ ConnectFails(a)
    \/ RefreshAnswers(a) \/ RefreshRejected(a) \/ RefreshFails(a)
    \/ StoreAnswers(a) \/ StoreFails(a)
    \/ AuthAnswers(a) \/ AuthFails(a)
    \/ Reaps(a) \/ ReapFails(a)

Process == Start \/ StartFails \/ Stop \/ Dies

Tick == TickProbes \/ TickLoads \/ TickApplies \/ TickFails

Outside(t) ==
    UserConnects(t) \/ UserDisconnects(t) \/ UserReturns(t) \/ Revoked(t)

Next ==
    \/ \E a \in Attempt :
        \/ Answers(a) \/ SocketDrops(a) \/ LossNoticed(a)
        \/ \E t \in Token : TokenInvalidated(a, t)
    \/ TimerFires
    \/ Tick
    \/ Process
    \/ \E t \in Token : Outside(t)

Spec == Init /\ [][Next]_vars

\* Every call is answered or times out, timers and the interval fire, a dead
\* socket is noticed by the liveness probe, and a dead process is restarted.
Fairness ==
    /\ \A a \in Attempt :
        /\ WF_vars(Answers(a))
        /\ WF_vars(LossNoticed(a))
    /\ WF_vars(TimerFires)
    /\ WF_vars(Tick)
    /\ WF_vars(Start)
    /\ WF_vars(phase = "stopped" /\ Dies)

LiveSpec == Spec /\ Fairness

-----------------------------------------------------------------------------
(* Properties                                                              *)

Phases == {"off", "up", "idle", "stopped"}
Calls == {"free", "open", "app", "refresh", "store", "auth", "reap", "up"}
Socks == {"opening", "open", "dead", "closed"}
Objects == [Token -> Account]

Attempts == [pc : Calls, own : BOOLEAN, sock : Socks,
             array : Array \cup {NoArray}, todo : SUBSET Token,
             cur : Token \cup {None}, pair : Pair, authed : SUBSET Token]

Rows == [active : BOOLEAN, rejected : BOOLEAN, pair : Pair, at : Nat]

\* Every variable keeps its type; the connection of the session is an attempt
\* that was not given up, an account being worked on is in the array of its
\* attempt, and a manager without a session has neither socket nor timer.
TypeOK ==
    /\ phase \in Phases
    /\ rows \in [Token -> Rows]
    /\ valid \in SUBSET Pair /\ lost \in SUBSET Token
    /\ clock \in Nat /\ faults \in Nat /\ loads \in Nat /\ stops \in Nat
    /\ lastProbe \in [count : Nat, at : Nat]
    /\ tick \in [pc : {"rest", "loading", "loaded"}, read : Objects]
    /\ accounts \in Array \cup {NoArray}
    /\ arrays \in [Array -> Objects]
    /\ signature \in Objects
    /\ timer \in BOOLEAN
    /\ conn \in Attempt \cup {None}
    /\ attempt \in [Attempt -> Attempts]
    /\ routed \in [{Ctid[t] : t \in Token} -> Token \cup {None}]
    /\ conn # None => attempt[conn].pc # "free"
    /\ accounts = NoArray => conn = None /\ ~timer
    /\ \A a \in Attempt : InFlight(a) =>
        /\ attempt[a].array # NoArray
        /\ attempt[a].pc \in {"refresh", "store", "auth", "reap"} =>
                attempt[a].cur \in Members(arrays[attempt[a].array])

\* However many connect attempts overlap, a cTrader account is authenticated
\* on one open socket, so its execution events arrive once, and they are
\* written for the row it was authenticated with (handleExecution looks the
\* account up in accountsByCtid, which reconcile changes under the attempts).
EventsReachOwner ==
    \A a \in Attempt : attempt[a].sock = "open" =>
        \A t \in attempt[a].authed :
            /\ routed[Ctid[t]] = t
            /\ \A b \in Attempt \ {a} :
                attempt[b].sock = "open" => t \notin attempt[b].authed

\* While the manager is up, a session has an armed timer, an attempt under
\* way that still owns it, or a socket whose loss it will hear of: no order
\* of losses, timers and reconciles leaves it waiting for nothing.
NeverStranded ==
    phase = "up" /\ accounts # NoArray =>
        \/ timer
        \/ /\ conn # None
           /\ attempt[conn].own
           /\ attempt[conn].pc # "free"
           /\ attempt[conn].sock # "closed"

\* A rotating token survives everything but a failed call, a crash between
\* rotation and update, or its user: the row holds a pair cTrader accepts,
\* or an attempt is about to store one, whatever attempts refresh it at once.
RefreshSurvives ==
    \A t \in Token : rows[t].pair # 0 =>
        \/ t \in lost
        \/ rows[t].pair \in valid
        \/ \E a \in Attempt :
            /\ attempt[a].pc = "store"
            /\ attempt[a].cur = t
            /\ attempt[a].pair \in valid

\* The account objects of the session, and its socket after a full connect.
Managed == IF accounts = NoArray THEN Nobody ELSE arrays[accounts]

Connected ==
    \/ accounts = NoArray
    \/ /\ conn # None
       /\ attempt[conn].pc = "up"
       /\ attempt[conn].sock = "open"

\* Once users, calls and sockets are quiet for good, the socket is up and the
\* cTrader account of every active row is managed with a pair no older than
\* the row's: the probe misses no connected account and no new token, and the
\* attempts that overlap settle.  Only a failed load of the accounts may end
\* this: the probe is stored before the load, and start() gives up.
ConnectedServed ==
    <>[](loads > 0 \/
         /\ phase = "up"
         /\ Connected
         /\ \A t \in Active : \E u \in Token :
                Ctid[u] = Ctid[t] /\ Managed[u].pair >= rows[t].pair)

\* "Periodically reconcile live connections with the DB so accounts a user
\* connects (or removes) are picked up": in the end the session manages
\* exactly what the table says.
FollowsDatabase == <>[](\A t \in Token : Managed[t].pair = LoadAccounts[t].pair)

\* "Flag a token inactive after cTrader definitively rejected its refresh
\* token": a row that is deactivated holds a pair that cTrader rejects.
OnlyDeadReaped ==
    [][\A t \in Token :
        ~rows[t].rejected /\ rows'[t].rejected => rows[t].pair \notin valid]_vars

=============================================================================
