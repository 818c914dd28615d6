-------------------------- MODULE TradeLockerSessions --------------------------
(***************************************************************************)
(* The sessions of the TradeLocker connection manager: one stream per      *)
(* account, logins shared by the accounts of one login group, reconnects   *)
(* with backoff, the reconcile tick, and the stamp that deactivates an     *)
(* account whose login the broker rejects.                                 *)
(*                                                                         *)
(* What arrives on a stream is the matter of CloseCapture.  The accounts   *)
(* here are one login group (same e-mail, server and environment): they    *)
(* have one password at the broker, and each row stores a copy of it.      *)
(* Passwords and identities are versions.                                  *)
(***************************************************************************)
EXTENDS Naturals

CONSTANTS
    Account,       \* rows of TradingAccount, one login group
    MaxPassword,   \* bound on password changes at the broker
    MaxEdits,      \* bound on writes of the main application
    MaxFaults,     \* bound on failed calls and lost sockets
    MaxRefusals,   \* bound on final answers of the broker to a good login
    MaxStops       \* bound on shutdowns and crashes

ASSUME SessionsAssumption ==
    {MaxPassword, MaxEdits, MaxFaults, MaxRefusals, MaxStops} \subseteq Nat

VARIABLES
    phase,      \* "off", "up", "idle" (start failed) or "stopped"
    rows,       \* status, stored password and identity of each account
    password,   \* the password the broker accepts
    login,      \* groupAuths: the password of the login in flight, or NoLogin
    session,    \* sessions: what the map holds for each account
    attempt,    \* connect attempts of each account and their sockets
    tick,       \* the rows the tick has read, or NoTick
    edits, faults, refusals, stops

bounds == <<edits, faults, refusals, stops>>
vars == <<phase, rows, password, login, session, attempt, tick, bounds>>

-----------------------------------------------------------------------------

Password == 0 .. MaxPassword
Identity == 0 .. MaxEdits
NoLogin == MaxPassword + 1
NoTick == [x \in {} |-> 0]

\* Attempts of one account that may be unfinished at once
Slot == 1 .. 2
NoSlot == 0

Free == [pc |-> "free", own |-> FALSE, sock |-> "closed"]

\* parked says why nothing will connect this session again, if so.
NoSession == [on |-> FALSE, pw |-> 0, id |-> 0, timer |-> FALSE,
              conn |-> NoSlot, parked |-> "no"]

Active(row) == row.status = "active"

\* stopped, another session in the map, or another generation
Superseded(x, i) == phase = "stopped" \/ ~attempt[x][i].own

\* session.generation += 1, or the session leaves the map
Bumped(slots) == [i \in Slot |-> [slots[i] EXCEPT !.own = FALSE]]

\* session.connection?.close(): a finished attempt is only its socket
Hung(slots, c) ==
    [i \in Slot |-> IF i # c THEN slots[i]
                    ELSE IF slots[i].pc = "up" THEN Free
                    ELSE [slots[i] EXCEPT !.sock = "closed"]]

Idle(slots) == {i \in Slot : slots[i].pc = "free"}

\* connect up to its first await, the login
Connecting(slots) ==
    LET j == CHOOSE i \in Idle(slots) : TRUE
    IN  [Bumped(slots) EXCEPT ![j] =
            [pc |-> "login", own |-> TRUE, sock |-> "closed"]]

\* authGroup: a login in flight is joined, whatever password it was sent with.
Joined(pw) == IF login = NoLogin THEN pw ELSE login

Fault == faults < MaxFaults /\ faults' = faults + 1

-----------------------------------------------------------------------------
(* A connect attempt                                                       *)

\* The attempt is over; it had no socket or has closed it.
Ended(x, i) == [attempt EXCEPT ![x] = [@ EXCEPT ![i] = Free]]

To(x, i, pc, sock) ==
    [attempt EXCEPT ![x][i].pc = pc, ![x][i].sock = sock]

Returns(x, i) == attempt' = Ended(x, i) /\ UNCHANGED session

\* With a plausible slip: the failed connection is kept
RetriesConnected(x, i) ==
    /\ attempt' = Ended(x, i)
    /\ session' = [session EXCEPT ![x] = [@ EXCEPT !.timer = TRUE]]

\* The catch block with a passing error: backoff
Retries(x, i) ==
    /\ attempt' = Ended(x, i)
    /\ session' = [session EXCEPT ![x] =
                    [@ EXCEPT !.conn = NoSlot, !.timer = TRUE]]

\* The attempt returns without a timer.
Parks(x, i, why) ==
    /\ attempt' = Ended(x, i)
    /\ session' = [session EXCEPT ![x] =
                    [@ EXCEPT !.conn = NoSlot, !.parked = why]]

Unless(x, i, action) == IF Superseded(x, i) THEN Returns(x, i) ELSE action

Manager == UNCHANGED <<phase, rows, password, tick, edits, stops>>

\* The login of the group is answered, to all that wait for it.
LoginSettles(pc) ==
    /\ login' = NoLogin
    /\ attempt' = [x \in Account |-> [i \in Slot |->
            IF attempt[x][i].pc = "login"
            THEN [attempt[x][i] EXCEPT !.pc = pc] ELSE attempt[x][i]]]
    /\ Manager
    /\ UNCHANGED <<session, refusals>>

LoginAnswers ==
    /\ login # NoLogin
    /\ LoginSettles(IF login = password THEN "granted" ELSE "rejected")
    /\ UNCHANGED faults

LoginFails ==
    /\ login # NoLogin
    /\ Fault
    /\ LoginSettles("failed")

\* Each waiter goes on by itself.
Granted(x, i) ==
    /\ attempt[x][i].pc = "granted"
    /\ Unless(x, i, /\ attempt' = To(x, i, "open", "opening")
                    /\ session' = [session EXCEPT ![x] = [@ EXCEPT !.conn = i]])
    /\ Manager
    /\ UNCHANGED <<login, faults, refusals>>

\* matchToken finds no token of this account.
NoToken(x, i) ==
    /\ attempt[x][i].pc = "granted"
    /\ ~Superseded(x, i)
    /\ refusals < MaxRefusals
    /\ refusals' = refusals + 1
    /\ Parks(x, i, "no token")
    /\ Manager
    /\ UNCHANGED <<login, faults>>

LoginLost(x, i) ==
    /\ attempt[x][i].pc = "failed"
    /\ Unless(x, i, Retries(x, i))
    /\ Manager
    /\ UNCHANGED <<login, faults, refusals>>

\* With a plausible slip: a rejected login is retried like any other error
RejectedRetries(x, i) == Retries(x, i)

\* 400, 401 or 403: the stamp is sent
Stamps(x, i) ==
    /\ attempt' = To(x, i, "stamp", "closed")
    /\ session' = [session EXCEPT ![x] = [@ EXCEPT !.conn = NoSlot]]

Rejected(x, i) ==
    /\ attempt[x][i].pc = "rejected"
    /\ Unless(x, i, Stamps(x, i))
    /\ Manager
    /\ UNCHANGED <<login, faults, refusals>>

\* deactivateAccount, by id alone; the session in the map may be another.
StampLands(x, i) ==
    /\ attempt[x][i].pc = "stamp"
    /\ rows' = [rows EXCEPT ![x] = [@ EXCEPT !.status = "deactivated"]]
    /\ IF Superseded(x, i) THEN Returns(x, i) ELSE Parks(x, i, "rejected")
    /\ UNCHANGED <<phase, password, login, tick, bounds>>

\* With a plausible slip: a stamp that failed is forgotten
StampForgotten(x, i) == Parks(x, i, "no")

StampRetried(x, i) == Retries(x, i)

StampFails(x, i) ==
    /\ attempt[x][i].pc = "stamp"
    /\ Fault
    /\ Unless(x, i, StampRetried(x, i))
    /\ Manager
    /\ UNCHANGED <<login, refusals>>

\* A closed or dead socket answers nothing; the call times out.
TimesOut(x, i) ==
    IF attempt[x][i].sock = "closed" THEN UNCHANGED faults ELSE Fault

Opens(x, i) ==
    /\ attempt[x][i].pc = "open"
    /\ attempt[x][i].sock = "opening"
    /\ Unless(x, i, attempt' = To(x, i, "subscribe", "open") /\ UNCHANGED session)
    /\ Manager
    /\ UNCHANGED <<login, faults, refusals>>

Subscribes(x, i) ==
    /\ attempt[x][i].pc = "subscribe"
    /\ attempt[x][i].sock = "open"
    /\ Unless(x, i, attempt' = To(x, i, "up", "open") /\ UNCHANGED session)
    /\ Manager
    /\ UNCHANGED <<login, faults, refusals>>

\* Connect error, timeout, or SUBSCRIBE refused for a passing reason
\* (rate limit, already connected, an expired JWT)
ConnectFails(x, i) ==
    /\ attempt[x][i].pc \in {"open", "subscribe"}
    /\ TimesOut(x, i)
    /\ Unless(x, i, Retries(x, i))
    /\ Manager
    /\ UNCHANGED <<login, refusals>>

\* SUBSCRIBE refused for good: bad account, permission, unknown host
SubscribeRefused(x, i) ==
    /\ attempt[x][i].pc = "subscribe"
    /\ attempt[x][i].sock = "open"
    /\ ~Superseded(x, i)
    /\ refusals < MaxRefusals
    /\ refusals' = refusals + 1
    /\ Parks(x, i, "refused")
    /\ Manager
    /\ UNCHANGED <<login, faults>>

-----------------------------------------------------------------------------
(* Loss and reconnect                                                      *)

\* Disconnect or `Disconnected`, during SUBSCRIBE or later.  handleLost: the
\* socket is closed and a reconnect scheduled; an attempt under way times out.
StreamLost(x, i) ==
    /\ attempt[x][i].sock = "open"
    /\ attempt[x][i].own
    /\ Fault
    /\ attempt' = [attempt EXCEPT ![x] = Hung(@, i)]
    /\ session' = [session EXCEPT ![x] =
                    [@ EXCEPT !.conn = NoSlot, !.timer = TRUE]]
    /\ Manager
    /\ UNCHANGED <<login, refusals>>

TimerFires(x) ==
    /\ session[x].timer
    /\ Idle(attempt[x]) # {}
    /\ session' = [session EXCEPT ![x] = [@ EXCEPT !.timer = FALSE]]
    /\ attempt' = [attempt EXCEPT ![x] = Connecting(@)]
    /\ login' = Joined(session[x].pw)
    /\ Manager
    /\ UNCHANGED <<faults, refusals>>

-----------------------------------------------------------------------------
(* Reconcile                                                               *)

\* With a plausible slip: sessions of rows that went away are kept
NotGone(x, loaded) == FALSE

Gone(x, loaded) == session[x].on /\ ~Active(loaded[x])

\* The signature leaves the password out.
Changed(x, loaded) ==
    session[x].on /\ Active(loaded[x]) /\ session[x].id # loaded[x].id

Starts(x, loaded) ==
    Active(loaded[x]) /\ (~session[x].on \/ Changed(x, loaded))

\* With a plausible slip: the connection is not closed
StoppedOpen(x) == Bumped(attempt[x])

\* stopSession
Stopped(x) == Hung(Bumped(attempt[x]), session[x].conn)

Started(row) == [NoSession EXCEPT !.on = TRUE, !.pw = row.pw, !.id = row.id]

\* stopSession and startAccount, for all accounts in one synchronous run
ApplyReconcile(loaded) ==
    LET stop == {x \in Account : Gone(x, loaded) \/ Changed(x, loaded)}
        start == {x \in Account : Starts(x, loaded)}
        slots(x) == IF x \in stop THEN Stopped(x) ELSE attempt[x]
    IN  /\ \A x \in start : Idle(slots(x)) # {}
        /\ attempt' = [x \in Account |->
                IF x \in start THEN Connecting(slots(x)) ELSE slots(x)]
        /\ session' = [x \in Account |->
                IF x \in start THEN Started(loaded[x])
                ELSE IF x \in stop THEN NoSession ELSE session[x]]
        /\ \/ start = {} /\ UNCHANGED login
           \/ \E x \in start : login' = Joined(loaded[x].pw)

\* loadAccounts: the rows as the database has them when it answers
TickReads ==
    /\ phase = "up"
    /\ tick = NoTick
    /\ tick' = rows
    /\ UNCHANGED <<phase, rows, password, login, session, attempt, bounds>>

TickApplies ==
    /\ tick # NoTick
    /\ tick' = NoTick
    /\ IF phase = "up" THEN ApplyReconcile(tick)
       ELSE UNCHANGED <<login, session, attempt>>
    /\ UNCHANGED <<phase, rows, password, bounds>>

-----------------------------------------------------------------------------
(* Start and end of the process                                            *)

Start ==
    /\ phase = "off"
    /\ phase' = "up"
    /\ ApplyReconcile(rows)
    /\ UNCHANGED <<rows, password, tick, bounds>>

\* start() rejects before it arms the reconcile interval.
StartFails ==
    /\ phase = "off"
    /\ Fault
    /\ phase' = "idle"
    /\ UNCHANGED <<rows, password, login, session, attempt, tick,
                   edits, refusals, stops>>

\* onApplicationShutdown: what is under way runs on.
Stop ==
    /\ phase = "up"
    /\ stops < MaxStops
    /\ stops' = stops + 1
    /\ phase' = "stopped"
    /\ attempt' = [x \in Account |-> Hung(attempt[x], session[x].conn)]
    /\ session' = [x \in Account |-> NoSession]
    /\ UNCHANGED <<rows, password, login, tick, edits, faults, refusals>>

Dies ==
    /\ phase # "off"
    /\ phase # "stopped" => stops < MaxStops
    /\ stops' = IF phase = "stopped" THEN stops ELSE stops + 1
    /\ phase' = "off"
    /\ attempt' = [x \in Account |-> [i \in Slot |-> Free]]
    /\ session' = [x \in Account |-> NoSession]
    /\ login' = NoLogin
    /\ tick' = NoTick
    /\ UNCHANGED <<rows, password, edits, faults, refusals>>

-----------------------------------------------------------------------------
(* The user, the main application and the broker                           *)

Edit(x, row) ==
    /\ edits < MaxEdits
    /\ edits' = edits + 1
    /\ rows' = [rows EXCEPT ![x] = row]
    /\ UNCHANGED <<phase, password, login, session, attempt, tick,
                   faults, refusals, stops>>

\* Reconnecting the terminal stores the password and resets the status.
Reconnects(x) ==
    Edit(x, [rows[x] EXCEPT !.status = "active", !.pw = password])

\* Another account number, server or e-mail
ChangesIdentity(x) ==
    /\ Active(rows[x])
    /\ Edit(x, [rows[x] EXCEPT !.id = edits + 1])

\* Archived or paused for inactivity
Pauses(x) ==
    /\ Active(rows[x])
    /\ Edit(x, [rows[x] EXCEPT !.status = "paused"])

Resumes(x) ==
    /\ rows[x].status = "paused"
    /\ Edit(x, [rows[x] EXCEPT !.status = "active"])

PasswordChanges ==
    /\ password < MaxPassword
    /\ password' = password + 1
    /\ UNCHANGED <<phase, rows, login, session, attempt, tick, bounds>>

-----------------------------------------------------------------------------
(* The specification                                                       *)

Init ==
    /\ phase = "off"
    /\ rows \in [Account -> {[status |-> s, pw |-> 0, id |-> 0] :
                                s \in {"active", "paused"}}]
    /\ password = 0
    /\ login = NoLogin
    /\ session = [x \in Account |-> NoSession]
    /\ attempt = [x \in Account |-> [i \in Slot |-> Free]]
    /\ tick = NoTick
    /\ edits = 0 /\ faults = 0 /\ refusals = 0 /\ stops = 0

Login == LoginAnswers \/ LoginFails

Step(x, i) ==
    \/ Granted(x, i) \/ NoToken(x, i) \/ LoginLost(x, i) \/ Rejected(x, i)
    \/ StampLands(x, i) \/ StampFails(x, i)
    \/ Opens(x, i) \/ Subscribes(x, i) \/ ConnectFails(x, i)
    \/ SubscribeRefused(x, i)

Tick == TickReads \/ TickApplies

Process == Start \/ StartFails \/ Stop \/ Dies

Outside(x) ==
    Reconnects(x) \/ ChangesIdentity(x) \/ Pauses(x) \/ Resumes(x)

Next ==
    \/ Login
    \/ \E x \in Account :
        \/ \E i \in Slot : Step(x, i) \/ StreamLost(x, i)
        \/ TimerFires(x)
        \/ Outside(x)
    \/ Tick \/ Process
    \/ PasswordChanges

Spec == Init /\ [][Next]_vars

\* Calls are answered or time out, timers and the interval fire, a process
\* that was shut down or died is started again.
Fairness ==
    /\ WF_vars(Login)
    /\ \A x \in Account :
        /\ \A i \in Slot : WF_vars(Step(x, i))
        /\ WF_vars(TimerFires(x))
    /\ WF_vars(TickReads) /\ WF_vars(TickApplies)
    /\ WF_vars(Start)
    /\ WF_vars(phase = "stopped" /\ Dies)

LiveSpec == Spec /\ Fairness

-----------------------------------------------------------------------------
(* Properties                                                              *)

Rows == [status : {"active", "paused", "deactivated"}, pw : Password,
         id : Identity]

Sessions == [on : BOOLEAN, pw : Password, id : Identity, timer : BOOLEAN,
             conn : Slot \cup {NoSlot},
             parked : {"no", "no token", "rejected", "refused"}]

Attempts == [pc : {"free", "login", "granted", "failed", "rejected", "stamp",
                   "open", "subscribe", "up"},
             own : BOOLEAN, sock : {"closed", "opening", "open"}]

\* Every variable keeps its type; what the session has as its connection is an
\* attempt that was not given up, and an attempt waits for a login only while
\* one is in flight.
TypeOK ==
    /\ phase \in {"off", "up", "idle", "stopped"}
    /\ rows \in [Account -> Rows]
    /\ password \in Password
    /\ login \in Password \cup {NoLogin}
    /\ session \in [Account -> Sessions]
    /\ attempt \in [Account -> [Slot -> Attempts]]
    /\ tick = NoTick \/ tick \in [Account -> Rows]
    /\ \A x \in Account :
        /\ session[x].conn # NoSlot => attempt[x][session[x].conn].pc # "free"
        /\ \A i \in Slot : attempt[x][i].pc = "login" => login # NoLogin

\* However often an account is stopped, changed and reconnected while older
\* attempts are under way, an open socket is the connection of the session in
\* the map: an account never streams twice and never after it was stopped.
OneStream ==
    \A x \in Account, i \in Slot :
        attempt[x][i].sock = "open" =>
            phase = "up" /\ session[x].on /\ session[x].conn = i
                         /\ attempt[x][i].own

\* A session in the map has a timer, an attempt that still owns it or a
\* stream, unless the broker gave it a final answer: rejected and stamped,
\* refused at SUBSCRIBE, or a login without a token for it.
NeverStranded ==
    \A x \in Account : session[x].on =>
        \/ session[x].timer
        \/ session[x].parked # "no"
        \/ \E i \in Slot : attempt[x][i].own /\ attempt[x][i].pc # "free"

Streams(x) ==
    session[x].conn # NoSlot /\ attempt[x][session[x].conn].pc = "up"

\* In the end the sessions are those of the active rows, with their identity,
\* and stream, unless the broker gave a final answer or the session was made
\* with a password that is no longer good; an inactive row has no session.
\* (A start() that failed leaves no reconcile behind.)
SessionsFollowRows ==
    <>[](phase = "idle" \/ \A x \in Account :
            IF Active(rows[x])
            THEN /\ session[x].on
                 /\ session[x].id = rows[x].id
                 /\ \/ Streams(x)
                    \/ session[x].parked # "no"
                    \/ session[x].pw # password
            ELSE ~session[x].on)

\* A login the broker rejects is not repeated for ever ("would hammer a dead
\* login"): the stamp is retried until it lands and then the logins end.
DeadLoginsEnd == <>[](login \in {NoLogin, password})

\* "Reconnecting the terminal in the UI resets the status": an active row with
\* the good password streams in the end, if nothing refuses it.
ReconnectRevives ==
    <>[](phase = "idle" \/ refusals > 0 \/ \A x \in Account :
            Active(rows[x]) /\ rows[x].pw = password => Streams(x))

=============================================================================
