---------------------- MODULE TradeLockerSessions_proofs ----------------------
(***************************************************************************)
(* Proofs about TradeLockerSessions, for every login group and every value *)
(* of the bounds.                                                          *)
(*                                                                         *)
(* An account's session and attempts change together and no action looks   *)
(* at another account's, so that the inductive invariant speaks of one     *)
(* account: SessionSound takes its session and attempts as values, the     *)
(* lemmas say that each change of them keeps it, and the step proof only   *)
(* names which change an action makes.                                     *)
(***************************************************************************)
EXTENDS TradeLockerSessions, TLAPS

Phase == {"off", "up", "idle", "stopped"}

\* Attempts own the generation one at a time, and only of a session in the map
\* (or of one that the shutdown took away).
OwnerSound(ph, s, at) ==
    /\ \A i \in Slot : at[i].own =>
        at[i].pc # "free" /\ ph \in {"up", "stopped"} /\ (ph = "up" => s.on)
    /\ \A i, j \in Slot : at[i].own /\ at[j].own => i = j

\* A socket that is open or opening is the connection of the session, and the
\* connection belongs to the attempt that owns the generation.
SocketSound(ph, s, at) ==
    /\ \A i \in Slot : at[i].sock # "closed" =>
        ph = "up" /\ s.on /\ s.conn = i /\ at[i].own
    /\ \A i \in Slot : /\ at[i].sock = "open" => at[i].pc \in {"subscribe", "up"}
                       /\ at[i].sock = "opening" => at[i].pc = "open"
    /\ s.conn # NoSlot => s.on /\ at[s.conn].own

\* An armed timer has no connection beside it: at most a SUBSCRIBE that waits
\* for its timeout on a closed socket.
TimerSound(s, at) ==
    s.timer =>
        /\ s.on /\ s.conn = NoSlot
        /\ \A i \in Slot : at[i].own => at[i].pc = "subscribe" /\ at[i].sock = "closed"

Attended(s, at) ==
    s.on => s.timer \/ s.parked # "no" \/ \E i \in Slot : at[i].own

SessionSound(ph, s, at) ==
    /\ s.on => ph = "up"
    /\ OwnerSound(ph, s, at)
    /\ SocketSound(ph, s, at)
    /\ TimerSound(s, at)
    /\ Attended(s, at)

Typed ==
    /\ phase \in Phase
    /\ rows \in [Account -> Rows]
    /\ password \in Password
    /\ login \in Password \cup {NoLogin}
    /\ session \in [Account -> Sessions]
    /\ attempt \in [Account -> [Slot -> Attempts]]
    /\ tick = NoTick \/ tick \in [Account -> Rows]
    /\ edits \in 0 .. MaxEdits

LoginAwaited ==
    \A x \in Account : \A i \in Slot : attempt[x][i].pc = "login" => login # NoLogin

\* The inductive invariant.
IInv ==
    /\ Typed
    /\ LoginAwaited
    /\ \A x \in Account : SessionSound(phase, session[x], attempt[x])

-----------------------------------------------------------------------------
(* What the code does to one account keeps it sound.                       *)

LEMMA NoSlotOut == NoSlot \notin Slot
BY DEF Slot, NoSlot

\* An attempt that has lost its session returns; it was not the connection.
LEMMA ReturnSound ==
    ASSUME NEW ph \in Phase, NEW s \in Sessions, NEW at \in [Slot -> Attempts],
           SessionSound(ph, s, at), NEW i \in Slot, 
           ph = "stopped" \/ ~at[i].own
    PROVE  SessionSound(ph, s, [at EXCEPT ![i] = Free])
<1> DEFINE A == [at EXCEPT ![i] = Free]
<1>1. A \in [Slot -> Attempts] /\ \A j \in Slot : j # i => A[j] = at[j]
  BY DEF Attempts, Free
<1>2. A[i].pc = "free" /\ ~A[i].own /\ A[i].sock = "closed"
  BY DEF Attempts, Free
<1>3. s.conn \in Slot \cup {NoSlot}
  BY DEF Sessions
<1> HIDE DEF A
<1>5. SessionSound(ph, s, A)
  BY <1>1, <1>2, <1>3, NoSlotOut
  DEF SessionSound, OwnerSound, SocketSound, TimerSound, Attended
<1> QED
  BY <1>5 DEF A

\* The owner gives up for now ...
LEMMA RetrySound ==
    ASSUME NEW ph \in Phase, NEW s \in Sessions, NEW at \in [Slot -> Attempts],
           SessionSound(ph, s, at), NEW i \in Slot, 
           ph # "stopped", at[i].own
    PROVE  SessionSound(ph, [s EXCEPT !.conn = NoSlot, !.timer = TRUE], [at EXCEPT ![i] = Free])
<1> DEFINE S == [s EXCEPT !.conn = NoSlot, !.timer = TRUE]
           A == [at EXCEPT ![i] = Free]
<1>1. A \in [Slot -> Attempts] /\ \A j \in Slot : j # i => A[j] = at[j]
  BY DEF Attempts, Free
<1>2. A[i].pc = "free" /\ ~A[i].own /\ A[i].sock = "closed"
  BY DEF Attempts, Free
<1>3. s.conn \in Slot \cup {NoSlot}
  BY DEF Sessions
<1>4. S.on = s.on /\ S.conn = NoSlot /\ S.timer
  BY DEF Sessions
<1> HIDE DEF S, A
<1>5. SessionSound(ph, S, A)
  BY <1>1, <1>2, <1>3, <1>4, NoSlotOut
  DEF SessionSound, OwnerSound, SocketSound, TimerSound, Attended
<1> QED
  BY <1>5 DEF S, A

\* ... or for good.
LEMMA ParkSound ==
    ASSUME NEW ph \in Phase, NEW s \in Sessions, NEW at \in [Slot -> Attempts],
           SessionSound(ph, s, at), NEW i \in Slot, 
           ph # "stopped", at[i].own,
           NEW why \in {"no token", "rejected", "refused"}
    PROVE  SessionSound(ph, [s EXCEPT !.conn = NoSlot, !.parked = why], [at EXCEPT ![i] = Free])
<1> DEFINE S == [s EXCEPT !.conn = NoSlot, !.parked = why]
           A == [at EXCEPT ![i] = Free]
<1>1. A \in [Slot -> Attempts] /\ \A j \in Slot : j # i => A[j] = at[j]
  BY DEF Attempts, Free
<1>2. A[i].pc = "free" /\ ~A[i].own /\ A[i].sock = "closed"
  BY DEF Attempts, Free
<1>3. s.conn \in Slot \cup {NoSlot}
  BY DEF Sessions
<1>4. S.on = s.on /\ S.conn = NoSlot /\ S.timer = s.timer /\ S.parked # "no"
  BY DEF Sessions
<1> HIDE DEF S, A
<1>5. SessionSound(ph, S, A)
  BY <1>1, <1>2, <1>3, <1>4, NoSlotOut
  DEF SessionSound, OwnerSound, SocketSound, TimerSound, Attended
<1> QED
  BY <1>5 DEF S, A

\* The owner is told that its login is rejected.
LEMMA StampSound ==
    ASSUME NEW ph \in Phase, NEW s \in Sessions, NEW at \in [Slot -> Attempts],
           SessionSound(ph, s, at), NEW i \in Slot, 
           ph # "stopped", at[i].own, at[i].pc = "rejected"
    PROVE  SessionSound(ph, [s EXCEPT !.conn = NoSlot], [at EXCEPT ![i] = [@ EXCEPT !.pc = "stamp", !.sock = "closed"]])
<1> DEFINE S == [s EXCEPT !.conn = NoSlot]
           A == [at EXCEPT ![i] = [@ EXCEPT !.pc = "stamp", !.sock = "closed"]]
<1>1. A \in [Slot -> Attempts] /\ \A j \in Slot : j # i => A[j] = at[j]
  BY DEF Attempts
<1>2. A[i].pc = "stamp" /\ A[i].own /\ A[i].sock = "closed"
  BY DEF Attempts
<1>3. s.conn \in Slot \cup {NoSlot}
  BY DEF Sessions
<1>4. S.on = s.on /\ S.conn = NoSlot /\ S.timer = s.timer /\ S.parked = s.parked
  BY DEF Sessions
<1> HIDE DEF S, A
<1>5. SessionSound(ph, S, A)
  BY <1>1, <1>2, <1>3, <1>4, NoSlotOut
  DEF SessionSound, OwnerSound, SocketSound, TimerSound, Attended
<1> QED
  BY <1>5 DEF S, A

\* The owner opens its socket, which becomes the connection.
LEMMA GrantSound ==
    ASSUME NEW ph \in Phase, NEW s \in Sessions, NEW at \in [Slot -> Attempts],
           SessionSound(ph, s, at), NEW i \in Slot, 
           ph # "stopped", at[i].own, at[i].pc = "granted"
    PROVE  SessionSound(ph, [s EXCEPT !.conn = i], [at EXCEPT ![i] = [@ EXCEPT !.pc = "open", !.sock = "opening"]])
<1> DEFINE S == [s EXCEPT !.conn = i]
           A == [at EXCEPT ![i] = [@ EXCEPT !.pc = "open", !.sock = "opening"]]
<1>1. A \in [Slot -> Attempts] /\ \A j \in Slot : j # i => A[j] = at[j]
  BY DEF Attempts
<1>2. A[i].pc = "open" /\ A[i].own /\ A[i].sock = "opening"
  BY DEF Attempts
<1>3. s.conn \in Slot \cup {NoSlot}
  BY DEF Sessions
<1>4. S.on = s.on /\ S.conn = i /\ S.timer = s.timer /\ S.parked = s.parked
  BY DEF Sessions
<1> HIDE DEF S, A
<1>5. SessionSound(ph, S, A)
  BY <1>1, <1>2, <1>3, <1>4, NoSlotOut
  DEF SessionSound, OwnerSound, SocketSound, TimerSound, Attended
<1> QED
  BY <1>5 DEF S, A

\* The socket opens, the account subscribes.
LEMMA OpenSound ==
    ASSUME NEW ph \in Phase, NEW s \in Sessions, NEW at \in [Slot -> Attempts],
           SessionSound(ph, s, at), NEW i \in Slot, 
           at[i].sock # "closed", NEW pc \in {"subscribe", "up"}
    PROVE  SessionSound(ph, s, [at EXCEPT ![i] = [@ EXCEPT !.pc = pc, !.sock = "open"]])
<1> DEFINE A == [at EXCEPT ![i] = [@ EXCEPT !.pc = pc, !.sock = "open"]]
<1>1. A \in [Slot -> Attempts] /\ \A j \in Slot : j # i => A[j] = at[j]
  BY DEF Attempts
<1>2. A[i].pc = pc /\ A[i].own = at[i].own /\ A[i].sock = "open"
  BY DEF Attempts
<1>3. s.conn \in Slot \cup {NoSlot}
  BY DEF Sessions
<1> HIDE DEF A
<1>5. SessionSound(ph, s, A)
  BY <1>1, <1>2, <1>3, NoSlotOut
  DEF SessionSound, OwnerSound, SocketSound, TimerSound, Attended
<1> QED
  BY <1>5 DEF A

\* Attempts that wait for the login of the group get its answer.
LEMMA SettleSound ==
    ASSUME NEW ph \in Phase, NEW s \in Sessions, NEW at \in [Slot -> Attempts],
           SessionSound(ph, s, at), NEW pc \in {"granted", "rejected", "failed"}
    PROVE  SessionSound(ph, s, [i \in Slot |-> IF at[i].pc = "login"
                                               THEN [at[i] EXCEPT !.pc = pc] ELSE at[i]])
<1> DEFINE A == [i \in Slot |-> IF at[i].pc = "login"
                                THEN [at[i] EXCEPT !.pc = pc] ELSE at[i]]
<1>1. \A i \in Slot : /\ A[i].own = at[i].own /\ A[i].sock = at[i].sock
                      /\ A[i].pc = IF at[i].pc = "login" THEN pc ELSE at[i].pc
  BY DEF Attempts
<1>2. s.conn \in Slot \cup {NoSlot}
  BY DEF Sessions
<1> HIDE DEF A
<1>3. SessionSound(ph, s, A)
  BY <1>1, <1>2 DEF SessionSound, OwnerSound, SocketSound, TimerSound, Attended
<1> QED
  BY <1>3 DEF A

LEMMA HungShape ==
    ASSUME NEW at \in [Slot -> Attempts], NEW c \in Slot \cup {NoSlot}
    PROVE  /\ Hung(at, c) \in [Slot -> Attempts]
           /\ \A i \in Slot : i # c => Hung(at, c)[i] = at[i]
           /\ \A i \in Slot : i = c =>
                /\ Hung(at, c)[i].sock = "closed"
                /\ at[i].pc = "up" => ~Hung(at, c)[i].own /\ Hung(at, c)[i].pc = "free"
                /\ at[i].pc # "up" => Hung(at, c)[i].own = at[i].own
                                      /\ Hung(at, c)[i].pc = at[i].pc
BY DEF Hung, Free, Attempts

\* A stream that is lost leaves a closed socket and a timer.
LEMMA LossSound ==
    ASSUME NEW ph \in Phase, NEW s \in Sessions, NEW at \in [Slot -> Attempts],
           SessionSound(ph, s, at), NEW i \in Slot, at[i].sock = "open"
    PROVE  SessionSound(ph, [s EXCEPT !.conn = NoSlot, !.timer = TRUE], Hung(at, i))
<1> DEFINE S == [s EXCEPT !.conn = NoSlot, !.timer = TRUE]
<1>1. S.on = s.on /\ S.conn = NoSlot /\ S.timer
  BY DEF Sessions
<1>2. /\ \A j \in Slot : j # i => Hung(at, i)[j] = at[j]
      /\ Hung(at, i)[i].sock = "closed"
      /\ at[i].pc = "up" => ~Hung(at, i)[i].own /\ Hung(at, i)[i].pc = "free"
      /\ at[i].pc # "up" => Hung(at, i)[i].own = at[i].own
                            /\ Hung(at, i)[i].pc = at[i].pc
  BY HungShape
<1> HIDE DEF S
<1>3. SessionSound(ph, S, Hung(at, i))
  BY <1>1, <1>2, NoSlotOut
  DEF SessionSound, OwnerSound, SocketSound, TimerSound, Attended
<1> QED
  BY <1>3 DEF S

LEMMA ConnectingShape ==
    ASSUME NEW at \in [Slot -> Attempts], Idle(at) # {}
    PROVE  /\ Connecting(at) \in [Slot -> Attempts]
           /\ \E j \in Slot :
                /\ Connecting(at)[j] = [pc |-> "login", own |-> TRUE, sock |-> "closed"]
                /\ \A i \in Slot : i # j =>
                    /\ ~Connecting(at)[i].own
                    /\ Connecting(at)[i].sock = at[i].sock
                    /\ Connecting(at)[i].pc = at[i].pc
<1> DEFINE j == CHOOSE i \in Idle(at) : TRUE
<1>1. j \in Slot
  BY DEF Idle
<1> HIDE DEF j
<1>2. Connecting(at) = [i \in Slot |->
                    IF i = j THEN [pc |-> "login", own |-> TRUE, sock |-> "closed"]
                    ELSE [at[i] EXCEPT !.own = FALSE]]
  BY <1>1 DEF Connecting, Bumped, j
<1>3. Connecting(at) \in [Slot -> Attempts]
  <2>1. [pc |-> "login", own |-> TRUE, sock |-> "closed"] \in Attempts
    BY DEF Attempts
  <2>2. \A i \in Slot : [at[i] EXCEPT !.own = FALSE] \in Attempts
    BY DEF Attempts
  <2> QED
    BY <1>2, <2>1, <2>2
<1>4. \A i \in Slot : i # j => /\ ~Connecting(at)[i].own
                              /\ Connecting(at)[i].sock = at[i].sock
                              /\ Connecting(at)[i].pc = at[i].pc
  <2> TAKE i \in Slot
  <2>1. i # j => Connecting(at)[i] = [at[i] EXCEPT !.own = FALSE]
    BY <1>2
  <2> QED
    BY <2>1 DEF Attempts
<1>5. Connecting(at)[j] = [pc |-> "login", own |-> TRUE, sock |-> "closed"]
  BY <1>1, <1>2
<1> QED
  BY <1>1, <1>3, <1>4, <1>5

\* A new attempt takes the generation over when no socket is left.
LEMMA ConnectSound ==
    ASSUME NEW s \in Sessions, NEW at \in [Slot -> Attempts],
           s.on, s.conn = NoSlot, ~s.timer, Idle(at) # {},
           \A i \in Slot : at[i].sock = "closed"
    PROVE  SessionSound("up", s, Connecting(at))
BY ConnectingShape DEF SessionSound, OwnerSound, SocketSound, TimerSound, Attended

\* stopSession closes whatever socket the account has.
LEMMA StopSound ==
    ASSUME NEW ph \in Phase, NEW s \in Sessions, NEW at \in [Slot -> Attempts],
           SessionSound(ph, s, at)
    PROVE  LET stopped == Hung(Bumped(at), s.conn)
           IN  /\ stopped \in [Slot -> Attempts]
               /\ \A i \in Slot : stopped[i].sock = "closed" /\ ~stopped[i].own
               /\ \A i \in Slot : stopped[i].pc \in {"free", at[i].pc}
<1>1. /\ Bumped(at) \in [Slot -> Attempts]
      /\ \A i \in Slot : ~Bumped(at)[i].own /\ Bumped(at)[i].sock = at[i].sock
                         /\ Bumped(at)[i].pc = at[i].pc
  BY DEF Bumped, Attempts
<1>2. s.conn \in Slot \cup {NoSlot}
  BY DEF Sessions
<1> DEFINE B == Bumped(at)
<1> HIDE DEF B
<1>3. B \in [Slot -> Attempts]
  BY <1>1 DEF B
<1>4. /\ Hung(B, s.conn) \in [Slot -> Attempts]
      /\ \A i \in Slot : i # s.conn => Hung(B, s.conn)[i] = B[i]
      /\ \A i \in Slot : i = s.conn =>
            /\ Hung(B, s.conn)[i].sock = "closed"
            /\ B[i].pc = "up" => ~Hung(B, s.conn)[i].own /\ Hung(B, s.conn)[i].pc = "free"
            /\ B[i].pc # "up" => Hung(B, s.conn)[i].own = B[i].own
                                 /\ Hung(B, s.conn)[i].pc = B[i].pc
  BY <1>2, <1>3, HungShape
<1>5. \A i \in Slot : at[i].sock # "closed" => s.conn = i
  BY DEF SessionSound, SocketSound
<1>6. \A i \in Slot : ~B[i].own /\ B[i].sock = at[i].sock /\ B[i].pc = at[i].pc
  BY <1>1 DEF B
<1> QED
  BY <1>4, <1>5, <1>6 DEF B

\* An account without a session, whatever attempts run out.
LEMMA NoneSound ==
    ASSUME NEW ph \in Phase, NEW at \in [Slot -> Attempts],
           \A i \in Slot : at[i].sock = "closed" /\ ~at[i].own
    PROVE  SessionSound(ph, NoSession, at)
BY DEF SessionSound, OwnerSound, SocketSound, TimerSound, Attended, NoSession

LEMMA OffSound ==
    ASSUME NEW ph \in Phase
    PROVE  SessionSound(ph, NoSession, [i \in Slot |-> Free])
<1>1. [i \in Slot |-> Free] \in [Slot -> Attempts]
  BY DEF Free, Attempts
<1>2. \A i \in Slot : [j \in Slot |-> Free][i] = Free
  OBVIOUS
<1> QED
  BY <1>1, <1>2, NoneSound DEF Free

\* The shutdown closes the socket and leaves the attempts to run out.
LEMMA ShutdownSound ==
    ASSUME NEW s \in Sessions, NEW at \in [Slot -> Attempts],
           SessionSound("up", s, at)
    PROVE  SessionSound("stopped", NoSession, Hung(at, s.conn))
<1>1. s.conn \in Slot \cup {NoSlot}
  BY DEF Sessions
<1> DEFINE H == Hung(at, s.conn)
<1>2. /\ \A i \in Slot : i # s.conn => H[i] = at[i]
      /\ \A i \in Slot : i = s.conn =>
            /\ H[i].sock = "closed"
            /\ at[i].pc = "up" => ~H[i].own /\ H[i].pc = "free"
            /\ at[i].pc # "up" => H[i].own = at[i].own /\ H[i].pc = at[i].pc
  BY <1>1, HungShape
<1> HIDE DEF H
<1>3. SessionSound("stopped", NoSession, H)
  BY <1>2 DEF SessionSound, OwnerSound, SocketSound, TimerSound, Attended, NoSession
<1> QED
  BY <1>3 DEF H

-----------------------------------------------------------------------------
(* Steps of one account.                                                   *)

\* The rest of the state, as the steps of an attempt leave it.
Beside == UNCHANGED <<phase, login, password, tick, edits>> /\ rows' \in [Account -> Rows]

LEMMA AccountStep ==
    ASSUME IInv, Beside, NEW x \in Account,
           NEW S \in Sessions, session' = [session EXCEPT ![x] = S],
           NEW A \in [Slot -> Attempts], attempt' = [attempt EXCEPT ![x] = A],
           \A i \in Slot : A[i].pc = "login" => attempt[x][i].pc = "login",
           SessionSound(phase, S, A)
    PROVE  IInv'
<1>1. Typed'
  BY DEF IInv, Typed, Beside
<1>2. LoginAwaited'
  BY DEF IInv, LoginAwaited, Beside, Typed
<1>3. \A y \in Account : SessionSound(phase', session'[y], attempt'[y])
  <2> TAKE y \in Account
  <2>1. phase' = phase
    BY DEF Beside
  <2>2. CASE y = x
    <3>1. session'[y] = S /\ attempt'[y] = A
      BY <2>2 DEF IInv, Typed
    <3> QED
      BY <2>1, <3>1
  <2>3. CASE y # x
    <3>1. session'[y] = session[y] /\ attempt'[y] = attempt[y]
      BY <2>3 DEF IInv, Typed
    <3> QED
      BY <2>1, <3>1 DEF IInv
  <2> QED
    BY <2>2, <2>3
<1> QED
  BY <1>1, <1>2, <1>3 DEF IInv

LEMMA AccountTyped ==
    ASSUME IInv, NEW x \in Account
    PROVE  /\ phase \in Phase
           /\ session[x] \in Sessions
           /\ attempt[x] \in [Slot -> Attempts]
           /\ SessionSound(phase, session[x], attempt[x])
BY DEF IInv, Typed

\* An attempt that is over leaves a free slot.
LEMMA EndedType ==
    ASSUME NEW at \in [Slot -> Attempts], NEW i \in Slot
    PROVE  /\ [at EXCEPT ![i] = Free] \in [Slot -> Attempts]
           /\ \A j \in Slot : [at EXCEPT ![i] = Free][j].pc = "login" => at[j].pc = "login"
BY DEF Free, Attempts

LEMMA ReturnsStep ==
    ASSUME IInv, Beside, NEW x \in Account, NEW i \in Slot,
           Superseded(x, i), Returns(x, i)
    PROVE  IInv'
<1> DEFINE A == [attempt[x] EXCEPT ![i] = Free]
<1>1. session' = [session EXCEPT ![x] = session[x]] /\ attempt' = [attempt EXCEPT ![x] = A]
  BY DEF Returns, Ended, IInv, Typed
<1>2. SessionSound(phase, session[x], A)
  BY AccountTyped, ReturnSound DEF Superseded
<1>3. /\ A \in [Slot -> Attempts]
      /\ \A j \in Slot : A[j].pc = "login" => attempt[x][j].pc = "login"
  BY AccountTyped, EndedType
<1> HIDE DEF A
<1> QED
  BY <1>1, <1>2, <1>3, AccountTyped, AccountStep

LEMMA RetriesStep ==
    ASSUME IInv, Beside, NEW x \in Account, NEW i \in Slot,
           ~Superseded(x, i), Retries(x, i)
    PROVE  IInv'
<1> DEFINE A == [attempt[x] EXCEPT ![i] = Free]
           S == [session[x] EXCEPT !.conn = NoSlot, !.timer = TRUE]
<1>1. session' = [session EXCEPT ![x] = S] /\ attempt' = [attempt EXCEPT ![x] = A]
  BY DEF Retries, Ended
<1>2. SessionSound(phase, S, A)
  BY AccountTyped, RetrySound DEF Superseded
<1>3. S \in Sessions
  BY AccountTyped DEF Sessions
<1>4. /\ A \in [Slot -> Attempts]
      /\ \A j \in Slot : A[j].pc = "login" => attempt[x][j].pc = "login"
  BY AccountTyped, EndedType
<1> HIDE DEF A, S
<1> QED
  BY <1>1, <1>2, <1>3, <1>4, AccountStep

LEMMA ParksStep ==
    ASSUME IInv, Beside, NEW x \in Account, NEW i \in Slot,
           NEW why \in {"no token", "rejected", "refused"},
           ~Superseded(x, i), Parks(x, i, why)
    PROVE  IInv'
<1> DEFINE A == [attempt[x] EXCEPT ![i] = Free]
           S == [session[x] EXCEPT !.conn = NoSlot, !.parked = why]
<1>1. session' = [session EXCEPT ![x] = S] /\ attempt' = [attempt EXCEPT ![x] = A]
  BY DEF Parks, Ended
<1>2. SessionSound(phase, S, A)
  BY AccountTyped, ParkSound DEF Superseded
<1>3. S \in Sessions
  BY AccountTyped DEF Sessions
<1>4. /\ A \in [Slot -> Attempts]
      /\ \A j \in Slot : A[j].pc = "login" => attempt[x][j].pc = "login"
  BY AccountTyped, EndedType
<1> HIDE DEF A, S
<1> QED
  BY <1>1, <1>2, <1>3, <1>4, AccountStep

\* The attempt goes on, with its socket and maybe another connection.
LEMMA ToStep ==
    ASSUME IInv, Beside, NEW x \in Account, NEW i \in Slot,
           NEW pc \in {"stamp", "open", "subscribe", "up"},
           NEW sock \in {"closed", "opening", "open"},
           attempt' = To(x, i, pc, sock),
           NEW S \in Sessions, session' = [session EXCEPT ![x] = S],
           SessionSound(phase, S, [attempt[x] EXCEPT ![i] =
                                    [@ EXCEPT !.pc = pc, !.sock = sock]])
    PROVE  IInv'
<1> DEFINE A == [attempt[x] EXCEPT ![i] = [@ EXCEPT !.pc = pc, !.sock = sock]]
<1>0. attempt \in [Account -> [Slot -> Attempts]] /\ attempt[x][i] \in Attempts
  BY AccountTyped DEF IInv, Typed
<1>1. attempt' = [attempt EXCEPT ![x] = A]
  BY <1>0 DEF To
<1>2. A \in [Slot -> Attempts]
  BY <1>0, AccountTyped DEF Attempts
<1>3. \A j \in Slot : A[j].pc = "login" => attempt[x][j].pc = "login"
  BY AccountTyped DEF Attempts
<1> QED
  BY <1>1, <1>2, <1>3, AccountStep

-----------------------------------------------------------------------------
(* The actions.                                                            *)

LEMMA StepStep ==
    ASSUME IInv, NEW x \in Account, NEW i \in Slot, Step(x, i)
    PROVE  IInv'
<1> USE AccountTyped
<1>0. rows \in [Account -> Rows]
  BY DEF IInv, Typed
<1>1. CASE Granted(x, i)
  <2>1. Beside
    BY <1>0, <1>1 DEF Granted, Manager, Beside
  <2>2. CASE Superseded(x, i)
    BY <1>1, <2>1, <2>2, ReturnsStep DEF Granted, Unless
  <2>3. CASE ~Superseded(x, i)
    <3> DEFINE S == [session[x] EXCEPT !.conn = i]
    <3>1. attempt' = To(x, i, "open", "opening") /\ session' = [session EXCEPT ![x] = S]
      BY <1>1, <2>3 DEF Granted, Unless
    <3>2. S \in Sessions
      BY DEF Sessions
    <3>3. SessionSound(phase, S, [attempt[x] EXCEPT ![i] =
                                    [@ EXCEPT !.pc = "open", !.sock = "opening"]])
      BY <1>1, <2>3, GrantSound DEF Granted, Superseded
    <3> QED
      BY <2>1, <3>1, <3>2, <3>3, ToStep
  <2> QED
    BY <2>2, <2>3
<1>2. CASE NoToken(x, i)
  BY <1>0, <1>2, ParksStep DEF NoToken, Manager, Beside
<1>3. CASE LoginLost(x, i)
  BY <1>0, <1>3, ReturnsStep, RetriesStep DEF LoginLost, Unless, Manager, Beside
<1>4. CASE Rejected(x, i)
  <2>1. Beside
    BY <1>0, <1>4 DEF Rejected, Manager, Beside
  <2>2. CASE Superseded(x, i)
    BY <1>4, <2>1, <2>2, ReturnsStep DEF Rejected, Unless
  <2>3. CASE ~Superseded(x, i)
    <3> DEFINE S == [session[x] EXCEPT !.conn = NoSlot]
    <3>1. attempt' = To(x, i, "stamp", "closed") /\ session' = [session EXCEPT ![x] = S]
      BY <1>4, <2>3 DEF Rejected, Stamps, Unless
    <3>2. S \in Sessions
      BY DEF Sessions
    <3>3. SessionSound(phase, S, [attempt[x] EXCEPT ![i] =
                                    [@ EXCEPT !.pc = "stamp", !.sock = "closed"]])
      BY <1>4, <2>3, StampSound DEF Rejected, Superseded
    <3> QED
      BY <2>1, <3>1, <3>2, <3>3, ToStep
  <2> QED
    BY <2>2, <2>3
<1>5. CASE StampLands(x, i)
  <2>1. rows' \in [Account -> Rows]
    BY <1>0, <1>5 DEF StampLands, Rows
  <2>2. Beside
    BY <1>5, <2>1 DEF StampLands, bounds, Beside
  <2> QED
    BY <1>5, <2>2, ReturnsStep, ParksStep DEF StampLands
<1>6. CASE StampFails(x, i)
  BY <1>0, <1>6, ReturnsStep, RetriesStep
  DEF StampFails, StampRetried, Unless, Manager, Beside
<1>7. CASE Opens(x, i) \/ Subscribes(x, i)
  <2>1. Beside
    BY <1>0, <1>7 DEF Opens, Subscribes, Manager, Beside
  <2>2. CASE Superseded(x, i)
    BY <1>7, <2>1, <2>2, ReturnsStep DEF Opens, Subscribes, Unless
  <2>3. CASE ~Superseded(x, i)
    <3>1. PICK pc \in {"subscribe", "up"} : attempt' = To(x, i, pc, "open")
      BY <1>7, <2>3 DEF Opens, Subscribes, Unless
    <3>2. session' = [session EXCEPT ![x] = session[x]]
      BY <1>7, <2>3 DEF Opens, Subscribes, Unless, IInv, Typed
    <3>3. SessionSound(phase, session[x], [attempt[x] EXCEPT ![i] =
                                    [@ EXCEPT !.pc = pc, !.sock = "open"]])
      BY <1>7, OpenSound DEF Opens, Subscribes
    <3> QED
      BY <2>1, <3>1, <3>2, <3>3, ToStep
  <2> QED
    BY <2>2, <2>3
<1>8. CASE ConnectFails(x, i)
  BY <1>0, <1>8, ReturnsStep, RetriesStep DEF ConnectFails, Unless, Manager, Beside
<1>9. CASE SubscribeRefused(x, i)
  BY <1>0, <1>9, ParksStep DEF SubscribeRefused, Manager, Beside
<1> QED
  BY <1>1, <1>2, <1>3, <1>4, <1>5, <1>6, <1>7, <1>8, <1>9 DEF Step

LEMMA StreamLostStep ==
    ASSUME IInv, NEW x \in Account, NEW i \in Slot, StreamLost(x, i)
    PROVE  IInv'
<1> DEFINE S == [session[x] EXCEPT !.conn = NoSlot, !.timer = TRUE]
           A == Hung(attempt[x], i)
<1>1. Beside
  BY DEF StreamLost, Manager, Beside, IInv, Typed
<1>2. session' = [session EXCEPT ![x] = S] /\ attempt' = [attempt EXCEPT ![x] = A]
  BY DEF StreamLost
<1>3. S \in Sessions
  BY AccountTyped DEF Sessions
<1>4. A \in [Slot -> Attempts] /\ SessionSound(phase, S, A)
  BY AccountTyped, HungShape, LossSound DEF StreamLost
<1>5. \A j \in Slot : A[j].pc = "login" => attempt[x][j].pc = "login"
  BY AccountTyped DEF Hung, Free
<1> QED
  BY <1>1, <1>2, <1>3, <1>4, <1>5, AccountStep

LEMMA NoLoginOut == NoLogin \notin Password
<1>1. MaxPassword \in Nat
  BY SessionsAssumption
<1> QED
  BY <1>1 DEF NoLogin, Password

LEMMA JoinedType ==
    ASSUME IInv, NEW pw \in Password
    PROVE  Joined(pw) \in Password
BY DEF IInv, Typed, Joined

LEMMA TimerFiresStep ==
    ASSUME IInv, NEW x \in Account, TimerFires(x)
    PROVE  IInv'
<1> DEFINE S == [session[x] EXCEPT !.timer = FALSE]
           A == Connecting(attempt[x])
<1>2. session' = [session EXCEPT ![x] = S] /\ attempt' = [attempt EXCEPT ![x] = A]
  BY DEF TimerFires
<1>3. S \in Sessions
  BY AccountTyped DEF Sessions
<1>4. /\ S.on = session[x].on /\ S.conn = session[x].conn /\ ~S.timer
      /\ session[x].timer /\ Idle(attempt[x]) # {}
  BY AccountTyped DEF Sessions, TimerFires
<1>5. /\ phase = "up" /\ S.on /\ S.conn = NoSlot
      /\ \A i \in Slot : attempt[x][i].sock = "closed"
  BY <1>4, AccountTyped, NoSlotOut DEF SessionSound, TimerSound, SocketSound
<1>6. A \in [Slot -> Attempts] /\ SessionSound("up", S, A)
  BY <1>3, <1>4, <1>5, AccountTyped, ConnectSound, ConnectingShape
<1>7. login' \in Password
  BY JoinedType, AccountTyped DEF TimerFires, Sessions
<1> HIDE DEF S, A
<1>8. /\ session' \in [Account -> Sessions] /\ attempt' \in [Account -> [Slot -> Attempts]]
      /\ phase' = phase
      /\ UNCHANGED <<rows, password, tick, edits>>
  BY <1>2, <1>3, <1>6 DEF IInv, Typed, TimerFires, Manager
<1>9. Typed'
  BY <1>7, <1>8 DEF IInv, Typed
<1>10. LoginAwaited'
  BY <1>7, NoLoginOut DEF LoginAwaited
<1>11. \A y \in Account : SessionSound(phase', session'[y], attempt'[y])
  <2> TAKE y \in Account
  <2>1. CASE y = x
    BY <1>2, <1>5, <1>6, <1>8, <2>1 DEF IInv, Typed
  <2>2. CASE y # x
    BY <1>2, <1>8, <2>2 DEF IInv, Typed
  <2> QED
    BY <2>1, <2>2
<1> QED
  BY <1>9, <1>10, <1>11 DEF IInv

\* The login of the group is answered for every account.
LEMMA LoginStep == ASSUME IInv, Login PROVE IInv'
<1>1. PICK pc \in {"granted", "rejected", "failed"} : LoginSettles(pc)
  BY DEF Login, LoginAnswers, LoginFails
<1> DEFINE A(x) == [i \in Slot |-> IF attempt[x][i].pc = "login"
                                  THEN [attempt[x][i] EXCEPT !.pc = pc]
                                  ELSE attempt[x][i]]
<1>2. attempt' = [x \in Account |-> A(x)]
  BY <1>1 DEF LoginSettles
<1>3. UNCHANGED <<phase, rows, password, tick, edits, session>> /\ login' = NoLogin
  BY <1>1 DEF LoginSettles, Manager
<1>4. ASSUME NEW x \in Account
      PROVE  /\ A(x) \in [Slot -> Attempts]
             /\ \A i \in Slot : A(x)[i].pc # "login"
             /\ SessionSound(phase, session[x], A(x))
  <2>1. \A i \in Slot : attempt[x][i] \in Attempts
    BY AccountTyped
  <2>2. \A i \in Slot : [attempt[x][i] EXCEPT !.pc = pc] \in Attempts
                        /\ [attempt[x][i] EXCEPT !.pc = pc].pc # "login"
    BY <2>1 DEF Attempts
  <2> QED
    BY <2>1, <2>2, AccountTyped, SettleSound
<1> HIDE DEF A
<1>5. Typed'
  BY <1>2, <1>3, <1>4 DEF IInv, Typed
<1>6. LoginAwaited'
  BY <1>2, <1>4 DEF LoginAwaited
<1>7. \A x \in Account : SessionSound(phase', session'[x], attempt'[x])
  BY <1>2, <1>3, <1>4
<1> QED
  BY <1>5, <1>6, <1>7 DEF IInv

\* A reconcile stops and starts sessions, each account for itself.
LEMMA ReconcileSound ==
    ASSUME IInv, NEW loaded \in [Account -> Rows], phase \in {"off", "up"},
           ApplyReconcile(loaded)
    PROVE  /\ session' \in [Account -> Sessions]
           /\ attempt' \in [Account -> [Slot -> Attempts]]
           /\ login' \in Password \cup {NoLogin}
           /\ LoginAwaited'
           /\ \A x \in Account : SessionSound("up", session'[x], attempt'[x])
<1> DEFINE stop == {x \in Account : Gone(x, loaded) \/ Changed(x, loaded)}
           start == {x \in Account : Starts(x, loaded)}
           slots(x) == IF x \in stop THEN Stopped(x) ELSE attempt[x]
           A(x) == IF x \in start THEN Connecting(slots(x)) ELSE slots(x)
           S(x) == IF x \in start THEN Started(loaded[x])
                   ELSE IF x \in stop THEN NoSession ELSE session[x]
<1>1. /\ \A x \in start : Idle(slots(x)) # {}
      /\ attempt' = [x \in Account |-> A(x)]
      /\ session' = [x \in Account |-> S(x)]
      /\ \/ start = {} /\ UNCHANGED login
         \/ \E x \in start : login' = Joined(loaded[x].pw)
  BY DEF ApplyReconcile
<1>2. ASSUME NEW x \in Account
      PROVE  /\ A(x) \in [Slot -> Attempts]
             /\ S(x) \in Sessions
             /\ SessionSound("up", S(x), A(x))
             /\ x \notin start => \A i \in Slot :
                    A(x)[i].pc = "login" => attempt[x][i].pc = "login"
  <2> USE AccountTyped
  <2>1. loaded[x].pw \in Password /\ loaded[x].id \in Identity
    BY DEF Rows
  <2>2. /\ Started(loaded[x]) \in Sessions
        /\ Started(loaded[x]).on /\ Started(loaded[x]).conn = NoSlot
        /\ ~Started(loaded[x]).timer
    BY <2>1 DEF Started, NoSession, Sessions, NoSlot
  <2>3. NoSession \in Sessions
    <3>1. 0 \in Password /\ 0 \in Identity
      BY SessionsAssumption DEF Password, Identity
    <3> QED
      BY <3>1 DEF NoSession, Sessions, NoSlot
  <2>4. /\ Stopped(x) \in [Slot -> Attempts]
        /\ \A i \in Slot : Stopped(x)[i].sock = "closed" /\ ~Stopped(x)[i].own
        /\ \A i \in Slot : Stopped(x)[i].pc \in {"free", attempt[x][i].pc}
    BY StopSound DEF Stopped
  <2>5. CASE x \in start
    <3>1. slots(x) \in [Slot -> Attempts]
      BY <2>4
    <3>2. \A i \in Slot : slots(x)[i].sock = "closed"
      <4>1. CASE x \in stop
        BY <2>4, <4>1
      <4>2. CASE x \notin stop
        <5>1. ~session[x].on
          BY <2>5, <4>2 DEF Starts, Changed
        <5> QED
          BY <4>2, <5>1 DEF SessionSound, SocketSound
      <4> QED
        BY <4>1, <4>2
    <3>3. Idle(slots(x)) # {}
      BY <1>1, <2>5
    <3> HIDE DEF slots
    <3>4. /\ Connecting(slots(x)) \in [Slot -> Attempts]
          /\ SessionSound("up", Started(loaded[x]), Connecting(slots(x)))
      BY <2>2, <3>1, <3>2, <3>3, ConnectSound, ConnectingShape
    <3> QED
      BY <2>2, <2>5, <3>4
  <2>6. CASE x \in stop \ start
    <3>1. SessionSound("up", NoSession, Stopped(x))
      BY <2>4, NoneSound DEF Phase
    <3> QED
      BY <2>3, <2>4, <2>6, <3>1
  <2>7. CASE x \notin stop \cup start
    <3>1. SessionSound("up", session[x], attempt[x])
      BY NoSlotOut DEF SessionSound, OwnerSound, SocketSound, TimerSound, Attended
    <3> QED
      BY <2>7, <3>1
  <2> QED
    BY <2>5, <2>6, <2>7
<1>3. (start = {} /\ login' = login) \/ login' \in Password
  BY <1>1, JoinedType DEF Rows
<1>4. start # {} => login' # NoLogin
  BY <1>3, NoLoginOut
<1>5. login' \in Password \cup {NoLogin}
  BY <1>3 DEF IInv, Typed
<1> HIDE DEF A, S, slots, stop
<1>6. session' \in [Account -> Sessions] /\ attempt' \in [Account -> [Slot -> Attempts]]
  BY <1>1, <1>2
<1>7. LoginAwaited'
  <2> SUFFICES ASSUME NEW x \in Account, NEW i \in Slot, attempt'[x][i].pc = "login"
               PROVE  login' # NoLogin
    BY DEF LoginAwaited
  <2>1. CASE start = {}
    <3>1. attempt[x][i].pc = "login" /\ login' = login
      BY <1>1, <1>2, <2>1
    <3> QED
      BY <3>1 DEF IInv, LoginAwaited
  <2> QED
    BY <1>4, <2>1
<1>8. \A x \in Account : SessionSound("up", session'[x], attempt'[x])
  BY <1>1, <1>2
<1> QED
  BY <1>5, <1>6, <1>7, <1>8

-----------------------------------------------------------------------------
(* The invariant.                                                          *)

LEMMA InitInv == Init => IInv
<1> SUFFICES ASSUME Init PROVE IInv
  OBVIOUS
<1>1. 0 \in Password /\ 0 \in Identity /\ 0 \in 0 .. MaxEdits
  BY SessionsAssumption DEF Password, Identity
<1>2. NoSession \in Sessions
  BY <1>1 DEF NoSession, Sessions, NoSlot
<1>3. [i \in Slot |-> Free] \in [Slot -> Attempts]
  BY DEF Free, Attempts
<1>4. \A st \in {"active", "paused"} : [status |-> st, pw |-> 0, id |-> 0] \in Rows
  BY <1>1 DEF Rows
<1>5. Typed
  BY <1>1, <1>2, <1>3, <1>4 DEF Init, Typed, Phase
<1>6. LoginAwaited
  BY DEF Init, LoginAwaited, Free
<1>7. \A x \in Account : SessionSound(phase, session[x], attempt[x])
  BY OffSound DEF Init, Phase
<1> QED
  BY <1>5, <1>6, <1>7 DEF IInv

\* Whoever leaves sessions, attempts and logins alone keeps what is said of
\* them.
LEMMA OutsideFrame ==
    ASSUME IInv, UNCHANGED <<phase, session, attempt, login>>, Typed'
    PROVE  IInv'
BY DEF IInv, LoginAwaited

LEMMA OutsideStep == ASSUME IInv, NEW x \in Account, Outside(x) PROVE IInv'
<1>1. PICK row \in Rows : Edit(x, row)
  <2>1. edits < MaxEdits => edits + 1 \in Identity
    BY SessionsAssumption DEF IInv, Typed, Identity
  <2>2. rows[x] \in Rows /\ password \in Password
    BY DEF IInv, Typed
  <2>3. CASE Reconnects(x)
    BY <2>2, <2>3 DEF Reconnects, Rows
  <2>4. CASE ChangesIdentity(x)
    BY <2>1, <2>2, <2>4 DEF ChangesIdentity, Edit, Rows
  <2>5. CASE Pauses(x) \/ Resumes(x)
    BY <2>2, <2>5 DEF Pauses, Resumes, Rows
  <2> QED
    BY <2>3, <2>4, <2>5 DEF Outside
<1>2. Typed'
  BY <1>1, SessionsAssumption DEF IInv, Typed, Edit
<1> QED
  BY <1>1, <1>2, OutsideFrame DEF Edit

LEMMA ProcessStep == ASSUME IInv, Process PROVE IInv'
<1>1. CASE Start
  <2>1. rows \in [Account -> Rows]
    BY DEF IInv, Typed
  <2>2. /\ session' \in [Account -> Sessions]
        /\ attempt' \in [Account -> [Slot -> Attempts]]
        /\ login' \in Password \cup {NoLogin}
        /\ LoginAwaited'
        /\ \A x \in Account : SessionSound("up", session'[x], attempt'[x])
    BY <1>1, <2>1, ReconcileSound DEF Start
  <2> QED
    BY <1>1, <2>2 DEF Start, bounds, IInv, Typed, Phase
<1>2. CASE StartFails
  <2>1. Typed'
    BY <1>2 DEF StartFails, IInv, Typed, Phase
  <2>2. ASSUME NEW x \in Account
        PROVE  SessionSound("idle", session[x], attempt[x])
    <3>1. SessionSound("off", session[x], attempt[x])
      BY <1>2 DEF StartFails, IInv
    <3> QED
      BY <3>1 DEF SessionSound, OwnerSound, SocketSound, TimerSound, Attended
  <2> QED
    BY <1>2, <2>1, <2>2 DEF StartFails, IInv, LoginAwaited
<1>3. CASE Stop
  <2>1. NoSession \in Sessions
    BY SessionsAssumption DEF NoSession, Sessions, NoSlot, Password, Identity
  <2>2. ASSUME NEW x \in Account
        PROVE  /\ Hung(attempt[x], session[x].conn) \in [Slot -> Attempts]
               /\ SessionSound("stopped", NoSession, Hung(attempt[x], session[x].conn))
               /\ \A i \in Slot : Hung(attempt[x], session[x].conn)[i].pc = "login"
                                    => attempt[x][i].pc = "login"
    <3>1. phase = "up" /\ session[x].conn \in Slot \cup {NoSlot}
      BY <1>3, AccountTyped DEF Stop, Sessions
    <3>2. \A i \in Slot : Hung(attempt[x], session[x].conn)[i].pc
                            \in {"free", attempt[x][i].pc}
      BY <3>1, AccountTyped DEF Hung, Free, Attempts
    <3> QED
      BY <3>1, <3>2, AccountTyped, HungShape, ShutdownSound
  <2>3. Typed'
    BY <1>3, <2>1, <2>2 DEF Stop, IInv, Typed, Phase
  <2>4. LoginAwaited'
    BY <1>3, <2>2 DEF Stop, IInv, LoginAwaited
  <2>5. \A x \in Account : SessionSound(phase', session'[x], attempt'[x])
    BY <1>3, <2>2 DEF Stop
  <2> QED
    BY <2>3, <2>4, <2>5 DEF IInv
<1>4. CASE Dies
  <2>1. NoSession \in Sessions /\ [i \in Slot |-> Free] \in [Slot -> Attempts]
    BY SessionsAssumption
    DEF NoSession, Sessions, NoSlot, Password, Identity, Free, Attempts
  <2>2. Typed'
    BY <1>4, <2>1 DEF Dies, IInv, Typed, Phase
  <2>3. LoginAwaited'
    BY <1>4 DEF Dies, LoginAwaited, Free
  <2>4. \A x \in Account : SessionSound(phase', session'[x], attempt'[x])
    BY <1>4, OffSound DEF Dies, Phase
  <2> QED
    BY <2>2, <2>3, <2>4 DEF IInv
<1> QED
  BY <1>1, <1>2, <1>3, <1>4 DEF Process

LEMMA TickStep == ASSUME IInv, Tick PROVE IInv'
<1>1. CASE TickReads
  <2>1. Typed'
    BY <1>1 DEF TickReads, bounds, IInv, Typed
  <2> QED
    BY <1>1, <2>1, OutsideFrame DEF TickReads
<1>2. CASE TickApplies
  <2>1. CASE phase = "up"
    <3>1. tick \in [Account -> Rows]
      BY <1>2 DEF TickApplies, IInv, Typed
    <3>2. /\ session' \in [Account -> Sessions]
          /\ attempt' \in [Account -> [Slot -> Attempts]]
          /\ login' \in Password \cup {NoLogin}
          /\ LoginAwaited'
          /\ \A x \in Account : SessionSound("up", session'[x], attempt'[x])
      BY <1>2, <2>1, <3>1, ReconcileSound DEF TickApplies
    <3> QED
      BY <1>2, <2>1, <3>2 DEF TickApplies, bounds, IInv, Typed
  <2>2. CASE phase # "up"
    <3>1. Typed'
      BY <1>2, <2>2 DEF TickApplies, bounds, IInv, Typed
    <3> QED
      BY <1>2, <2>2, <3>1, OutsideFrame DEF TickApplies
  <2> QED
    BY <2>1, <2>2
<1> QED
  BY <1>1, <1>2 DEF Tick

LEMMA StepInv == IInv /\ [Next]_vars => IInv'
<1> SUFFICES ASSUME IInv, [Next]_vars PROVE IInv'
  OBVIOUS
<1>1. CASE Login
  BY <1>1, LoginStep
<1>2. ASSUME NEW x \in Account, NEW i \in Slot, Step(x, i) \/ StreamLost(x, i)
      PROVE  IInv'
  BY <1>2, StepStep, StreamLostStep
<1>3. ASSUME NEW x \in Account, TimerFires(x) \/ Outside(x)
      PROVE  IInv'
  BY <1>3, TimerFiresStep, OutsideStep
<1>4. CASE Tick \/ Process
  BY <1>4, TickStep, ProcessStep
<1>5. CASE PasswordChanges
  <2>1. Typed'
    BY <1>5, SessionsAssumption DEF PasswordChanges, bounds, IInv, Typed, Password
  <2> QED
    BY <1>5, <2>1, OutsideFrame DEF PasswordChanges
<1>6. CASE UNCHANGED vars
  <2>1. Typed'
    BY <1>6 DEF vars, bounds, IInv, Typed
  <2> QED
    BY <1>6, <2>1, OutsideFrame DEF vars
<1> QED
  BY <1>1, <1>2, <1>3, <1>4, <1>5, <1>6 DEF Next

\* Sessions, attempts and sockets fit together in every reachable state.
THEOREM Invariance == Spec => []IInv
BY InitInv, StepInv, PTL DEF Spec

-----------------------------------------------------------------------------
(* What follows from it.                                                   *)

\* Every variable keeps its type, the connection of a session is an attempt
\* that was not given up, and an attempt waits only for a login in flight.
THEOREM TypeCorrect == Spec => []TypeOK
<1>1. IInv => TypeOK
  <2> SUFFICES ASSUME IInv PROVE TypeOK
    OBVIOUS
  <2>1. \A x \in Account :
            session[x].conn # NoSlot => attempt[x][session[x].conn].pc # "free"
    BY AccountTyped DEF SessionSound, SocketSound, OwnerSound, Sessions
  <2> QED
    BY <2>1 DEF IInv, Typed, LoginAwaited, TypeOK, Phase
<1> QED
  BY <1>1, Invariance, PTL

\* However an account is stopped, changed and reconnected while older attempts
\* run on, an open socket is the one connection of the session in the map.
THEOREM NeverStreamsTwice == Spec => []OneStream
<1>1. IInv => OneStream
  BY DEF IInv, OneStream, SessionSound, SocketSound
<1> QED
  BY <1>1, Invariance, PTL

\* Every session in the map has a timer, an attempt of its own or a stream,
\* unless the broker gave it a final answer.
THEOREM SessionsAttended == Spec => []NeverStranded
<1>1. IInv => NeverStranded
  BY DEF IInv, NeverStranded, SessionSound, OwnerSound, Attended
<1> QED
  BY <1>1, Invariance, PTL

=============================================================================
