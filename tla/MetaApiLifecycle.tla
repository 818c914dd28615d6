--------------------------- MODULE MetaApiLifecycle ---------------------------
(***************************************************************************)
(* The MetaApi ConnectionManagerService: one trading account, its row, and *)
(* the cloud terminals the worker creates, deploys, undeploys and deletes  *)
(* for it.  Creating a terminal starts its billing.  The web app only      *)
(* writes intent into the row.                                             *)
(*                                                                         *)
(* One open runs at a time (the opening set); teardowns are started by     *)
(* every reconcile tick and may overlap each other, the open, and the tick *)
(* itself.  A call that changes something can land and still be answered   *)
(* with an error.  Since only one open is in flight, a session in the map  *)
(* while it runs is its own: isStale is "no session".                      *)
(***************************************************************************)
EXTENDS Naturals, FiniteSets

CONSTANTS CloudId,     \* ids of cloud terminals; an unused id may be given again
          NoId,
          Teardown,    \* bound: teardowns in flight at a time
          MaxAttempts, \* CONNECT_MAX_ATTEMPTS
          MaxIntents,  \* bound: changes the web app or the EA make to the row
          MaxRestarts, \* bound: restarts of the process
          MaxTimers    \* bound: retry timers armed at a time

ASSUME LifecycleAssumptions ==
  /\ NoId \notin CloudId
  /\ {"open", "tick"} \cap Teardown = {}
  /\ MaxAttempts \in Nat \ {0} /\ MaxIntents \in Nat /\ MaxRestarts \in Nat
  /\ MaxTimers \in Nat \ {0}

VARIABLES
  row,               \* the TradingAccount row
  running, stopped,  \* the account's cloud terminals: deployed (billing), undeployed
  session,           \* the entry of the sessions map
  backoff,           \* the entry of the backoff map, 0 when absent
  timers,            \* armed retry timers: the account snapshot, and whether one may fire
  flow,              \* the calls in flight
  intents, restarts

cloud == <<running, stopped>>
bounds == <<intents, restarts>>
vars == <<row, cloud, session, backoff, timers, flow, bounds>>

\* terminalIntegrationStatus; "healthy" is null.
Status == {"connecting", "healthy", "disconnecting", "deactivated"}
MaybeId == CloudId \cup {NoId}
Flow == {"open", "tick"} \cup Teardown

\* marked: terminalSyncState.syncMethod is 'metaapi'.
Row == [status : Status, id : MaybeId, marked : BOOLEAN, archived : BOOLEAN]
NoSession == [up |-> FALSE, id |-> NoId]

\* status and id of a flow are the account it was started with, id moving on to
\* the terminal it works on; asleep: that terminal was seen undeployed; quits: the
\* flow gives up an initial connect.
Idle == [pc |-> "idle", status |-> "connecting", id |-> NoId, asleep |-> FALSE, quits |-> FALSE]
FlowState ==
  [pc : {"idle", "load", "loaded", "vanished", "get", "find", "create", "created", "persist",
         "deploy", "connect", "success", "destroy", "undeploy", "remove", "probe", "hide",
         "clear"},
   status : Status, id : MaybeId, asleep : BOOLEAN, quits : BOOLEAN]

TypeOK ==
  /\ row \in Row
  /\ running \subseteq CloudId /\ stopped \subseteq CloudId /\ running \cap stopped = {}
  /\ session \in [up : BOOLEAN, id : MaybeId]
  /\ backoff \in 0..MaxAttempts
  /\ timers \subseteq [status : Status, id : MaybeId, due : BOOLEAN]
  /\ flow \in [Flow -> FlowState]
  /\ intents \in 0..MaxIntents /\ restarts \in 0..MaxRestarts

Init ==
  /\ row = [status |-> "connecting", id |-> NoId, marked |-> TRUE, archived |-> FALSE]
  /\ running = {} /\ stopped = {}
  /\ session = NoSession /\ backoff = 0 /\ timers = {}
  /\ flow = [f \in Flow |-> Idle]
  /\ intents = 0 /\ restarts = 0

-----------------------------------------------------------------------------
(* Variants with a plausible slip, kept to show that the properties notice *)
(* it, each next to the definition it would replace.                       *)

SelectedNotNull(r) == r.marked /\ r.status \in {"connecting", "disconnecting"}
SelectedUnarchived(r) ==
  r.marked /\ ~r.archived /\ r.status \in {"connecting", "healthy", "disconnecting"}

\* loadAccounts: the rows the reconcile loop sees.
Selected(r) ==
  /\ r.marked /\ r.status \in {"connecting", "healthy", "disconnecting"}
  /\ ~r.archived \/ r.status = "disconnecting"

Exists == running \cup stopped
NoneExists == {}

\* findByName: the terminals that carry the account's deterministic name.
Found == Exists

\* An id nobody remembers any more, or never knew, stands for a new terminal.
Fresh == CloudId \ (Exists \cup {row.id, session.id} \cup {t.id : t \in timers}
                           \cup {flow[f].id : f \in Flow})

NeverGivesUp(status, attempts) == FALSE
GivesUp(status, attempts) == status = "connecting" /\ attempts >= MaxAttempts

NeverCounted(status) == backoff

\* Failures are counted; an initial connect stops at MaxAttempts by giving up, for a
\* live account the count only paces the retries and the model caps it.
Counted(status) ==
  IF status = "connecting" \/ backoff < MaxAttempts THEN backoff + 1 ELSE backoff

At(f, pc) == flow[f].pc = pc
End(f) == flow' = [flow EXCEPT ![f] = Idle]
Goto(f, pc) == flow' = [flow EXCEPT ![f].pc = pc]
Begun(pc, status, id) ==
  [pc |-> pc, status |-> status, id |-> id, asleep |-> FALSE, quits |-> FALSE]

-----------------------------------------------------------------------------
(* The web app and the EA's ingest handler.                                *)

Intends(r) ==
  /\ intents < MaxIntents /\ intents' = intents + 1
  /\ row' = r
  /\ UNCHANGED <<cloud, session, backoff, timers, flow, restarts>>

UserConnects ==
  /\ row.status = "deactivated"
  /\ Intends([row EXCEPT !.status = "connecting", !.marked = TRUE, !.archived = FALSE])

\* Archiving an account asks for its teardown as well.
UserDisconnects ==
  /\ row.status \in {"connecting", "healthy"}
  /\ \E archived \in {row.archived, TRUE} :
       Intends([row EXCEPT !.status = "disconnecting", !.archived = archived])

\* The shared terminalSyncState is overwritten wholesale.
MarkerClobbered ==
  /\ row.marked
  /\ Intends([row EXCEPT !.marked = FALSE])

-----------------------------------------------------------------------------
(* open: one action per call, and one for each way a call may fail.        *)

Opening == ~At("open", "idle")
OpenCalls == {"get", "find", "create", "created", "persist", "deploy", "connect", "success"}

\* The placeholder session claims the slot.
StartOpen(status, id) ==
  /\ session' = [up |-> TRUE, id |-> id]
  /\ flow' = [flow EXCEPT !["open"] = Begun(IF id = NoId THEN "find" ELSE "get", status, id),
                          !["tick"] = Idle]

\* ensureAccount returned terminal c: remember its id, or abandon the attempt.
Ensured(c, asleep) ==
  /\ session' = IF session.up THEN [session EXCEPT !.id = c] ELSE session
  /\ flow' = [flow EXCEPT !["open"] =
                IF session.up
                THEN [@ EXCEPT !.pc = IF asleep THEN "deploy" ELSE "connect", !.id = c]
                ELSE Idle]

GetAnswers ==
  /\ At("open", "get") /\ flow["open"].id \in Exists
  /\ Ensured(flow["open"].id, flow["open"].id \in stopped)
  /\ UNCHANGED <<row, cloud, backoff, timers, bounds>>

FindAnswers ==
  /\ At("open", "find")
  /\ \/ \E c \in Found :
          flow' = [flow EXCEPT !["open"].pc = "persist", !["open"].id = c,
                               !["open"].asleep = c \in stopped]
     \/ Found = {} /\ Goto("open", "create")
  /\ UNCHANGED <<row, cloud, session, backoff, timers, bounds>>

CreateLands ==
  /\ At("open", "create")
  /\ \E c \in Fresh :
       /\ running' = running \cup {c}
       /\ flow' = [flow EXCEPT !["open"].pc = "created", !["open"].id = c]
  /\ UNCHANGED <<row, stopped, session, backoff, timers, bounds>>

CreateAnswers ==
  /\ At("open", "created")
  /\ Goto("open", "persist")
  /\ UNCHANGED <<row, cloud, session, backoff, timers, bounds>>

PersistAnswers ==
  /\ At("open", "persist")
  /\ row' = [row EXCEPT !.id = flow["open"].id]
  /\ Ensured(flow["open"].id, flow["open"].asleep)
  /\ UNCHANGED <<cloud, backoff, timers, bounds>>

DeployAnswers ==
  /\ At("open", "deploy") /\ flow["open"].id \in Exists
  /\ running' = running \cup {flow["open"].id} /\ stopped' = stopped \ {flow["open"].id}
  /\ Goto("open", "connect")
  /\ UNCHANGED <<row, session, backoff, timers, bounds>>

\* waitConnected, the RPC connection, the backfill and the stream, up to the
\* success write; an attempt whose session was taken away is abandoned.
ConnectAnswers ==
  /\ At("open", "connect") /\ flow["open"].id \in running
  /\ IF session.up
     THEN /\ session' = [up |-> TRUE, id |-> flow["open"].id]
          /\ backoff' = 0
          /\ Goto("open", "success")
     ELSE End("open") /\ UNCHANGED <<session, backoff>>
  /\ UNCHANGED <<row, cloud, timers, bounds>>

\* terminalSyncState is written from the snapshot, which was marked.
Succeeded == [row EXCEPT !.status = "healthy", !.id = flow["open"].id, !.marked = TRUE]

SuccessAnswers ==
  /\ At("open", "success")
  /\ row' = Succeeded
  /\ End("open")
  /\ UNCHANGED <<cloud, session, backoff, timers, bounds>>

\* What a call may have done before it fails.
Lands ==
  \/ At("open", "persist") /\ row' = [row EXCEPT !.id = flow["open"].id] /\ UNCHANGED cloud
  \/ At("open", "success") /\ row' = Succeeded /\ UNCHANGED cloud
  \/ /\ At("open", "deploy") /\ flow["open"].id \in Exists
     /\ running' = running \cup {flow["open"].id} /\ stopped' = stopped \ {flow["open"].id}
     /\ UNCHANGED row
  \/ UNCHANGED <<row, cloud>>

\* The id handleFailure is given: ensureAccount that throws tells none of what it
\* found or created.
KnownId == IF flow["open"].pc \in {"find", "create", "created", "persist"}
           THEN NoId ELSE flow["open"].id

\* The catch block gives the session up; handleFailure goes on with x.
Caught(x) ==
  /\ session' = NoSession
  /\ flow' = [flow EXCEPT !["open"] = x]

\* On the way to hide the row, the terminal whose id is known is destroyed first.
Quitting(quits) ==
  [flow["open"] EXCEPT !.pc = IF KnownId = NoId THEN "hide" ELSE "destroy",
                       !.id = KnownId, !.quits = quits]

\* global-auth: the worker's own token was rejected.
OpenUnauthorized ==
  /\ flow["open"].pc \in OpenCalls \ {"persist", "success"}
  /\ Lands /\ Caught(Idle)
  /\ UNCHANGED <<backoff, timers, bounds>>

OpenNotFound ==
  /\ flow["open"].pc \in {"get", "deploy", "connect"} /\ flow["open"].id \notin Exists
  /\ IF GivesUp(flow["open"].status, backoff)
     THEN backoff' = 0 /\ Caught([flow["open"] EXCEPT !.pc = "hide"])
     ELSE UNCHANGED backoff /\ Caught([flow["open"] EXCEPT !.pc = "clear"])
  /\ UNCHANGED <<row, cloud, timers, bounds>>

\* fatal-account: the broker rejects the login.
OpenRejected ==
  /\ flow["open"].pc \in {"create", "connect"}
  /\ Caught(Quitting(FALSE))
  /\ UNCHANGED <<row, cloud, backoff, timers, bounds>>

OpenTransient ==
  /\ flow["open"].pc \in OpenCalls
  /\ Lands
  /\ IF GivesUp(flow["open"].status, backoff + 1)
     THEN /\ backoff' = IF KnownId = NoId THEN 0 ELSE MaxAttempts
          /\ Caught(Quitting(TRUE))
          /\ UNCHANGED timers
     ELSE /\ Cardinality(timers) < MaxTimers
          /\ backoff' = Counted(flow["open"].status)
          /\ timers' = timers \cup {[status |-> flow["open"].status, id |-> KnownId,
                                    due |-> backoff + 1 < MaxAttempts]}
          /\ Caught(Idle)
  /\ UNCHANGED bounds

\* The retry timer opens with the account it was armed with.
TimerFires ==
  /\ \E t \in timers :
       /\ t.due
       /\ timers' = timers \ {t}
       /\ IF session.up \/ Opening THEN UNCHANGED <<session, flow>>
          ELSE /\ session' = [up |-> TRUE, id |-> t.id]
               /\ flow' = [flow EXCEPT !["open"] =
                             Begun(IF t.id = NoId THEN "find" ELSE "get", t.status, t.id)]
  /\ UNCHANGED <<row, cloud, backoff, bounds>>

-----------------------------------------------------------------------------
(* destroyCloudAccount, for a failed open, a teardown or a vanished row.   *)

ProbeTrusted(f) == TRUE

\* The terminal of the flow is confirmed to be gone.
Confirmed(f) == flow[f].id \notin Exists

\* not-found, on any call, counts as done.
NotFoundIsDone(f) == Confirmed(f)

\* What a flow does once the terminal is destroyed; the tick has nothing more to do.
Destroyed(f) ==
  /\ IF f = "tick" THEN End(f) ELSE Goto(f, "hide")
  /\ backoff' = IF flow[f].quits THEN 0 ELSE backoff

DestroyReads(f) ==
  /\ At(f, "destroy")
  /\ IF flow[f].id \in Exists
     THEN /\ Goto(f, IF flow[f].id \in running THEN "undeploy" ELSE "remove")
          /\ UNCHANGED backoff
     ELSE IF NotFoundIsDone(f) THEN Destroyed(f) ELSE End(f) /\ UNCHANGED backoff
  /\ UNCHANGED <<row, cloud, session, timers, bounds>>

\* The answer may be lost, and then the terminal is probed.
Undeploys(f) ==
  /\ At(f, "undeploy")
  /\ IF flow[f].id \in Exists
     THEN /\ running' = running \ {flow[f].id} /\ stopped' = stopped \cup {flow[f].id}
          /\ \E pc \in {"remove", "probe"} : Goto(f, pc)
          /\ UNCHANGED backoff
     ELSE /\ UNCHANGED cloud
          /\ IF NotFoundIsDone(f) THEN Destroyed(f) ELSE End(f) /\ UNCHANGED backoff
  /\ UNCHANGED <<row, session, timers, bounds>>

\* remove may delete the terminal and throw afterwards.
Removes(f) ==
  /\ At(f, "remove")
  /\ running' = running \ {flow[f].id} /\ stopped' = stopped \ {flow[f].id}
  /\ \/ Destroyed(f)
     \/ Goto(f, "probe") /\ UNCHANGED backoff
  /\ UNCHANGED <<row, session, timers, bounds>>

\* A call that fails without effect: 401 gives up, anything else is probed.
DestroyFails(f) ==
  /\ flow[f].pc \in {"destroy", "undeploy", "remove"}
  /\ End(f) \/ Goto(f, "probe")
  /\ UNCHANGED <<row, cloud, session, backoff, timers, bounds>>

\* Done only if the probe finds the terminal gone.
ProbeSaysDone(f) == Confirmed(f)

Probes(f) ==
  /\ At(f, "probe")
  /\ IF ProbeSaysDone(f) THEN Destroyed(f) ELSE End(f) /\ UNCHANGED backoff
  /\ UNCHANGED <<row, cloud, session, timers, bounds>>

ProbeFails(f) ==
  /\ At(f, "probe")
  /\ End(f)
  /\ UNCHANGED <<row, cloud, session, backoff, timers, bounds>>

\* The write that takes the row out of the selection.  A teardown takes the
\* marker away, a failed open writes it back.
HideLands(f) ==
  /\ At(f, "hide")
  /\ row' = [row EXCEPT !.status = "deactivated", !.id = NoId, !.marked = f = "open"]
  /\ End(f)
  /\ UNCHANGED <<cloud, session, backoff, timers, bounds>>

ClearLands ==
  /\ At("open", "clear")
  /\ row' = [row EXCEPT !.id = NoId]
  /\ End("open")
  /\ UNCHANGED <<cloud, session, backoff, timers, bounds>>

WriteFails(f) ==
  /\ flow[f].pc \in {"hide", "clear"}
  /\ End(f)
  /\ UNCHANGED <<row, cloud, session, backoff, timers, bounds>>

-----------------------------------------------------------------------------
(* teardown, up to its destroy: the account is looked up by name when the  *)
(* row had no id.                                                          *)

TeardownFinds(t) ==
  /\ At(t, "find")
  /\ \/ \E c \in Found : flow' = [flow EXCEPT ![t].pc = "destroy", ![t].id = c]
     \/ Found = {} /\ Goto(t, "hide")
  /\ UNCHANGED <<row, cloud, session, backoff, timers, bounds>>

TeardownFails(t) ==
  /\ At(t, "find")
  /\ End(t)
  /\ UNCHANGED <<row, cloud, session, backoff, timers, bounds>>

-----------------------------------------------------------------------------
(* reconcile.                                                              *)

\* At the longest delays, RECONNECT_MAX_DELAY_MS, a tick comes before the timer.
Waited == {[t EXCEPT !.due = TRUE] : t \in timers}

TickStarts ==
  /\ At("tick", "idle")
  /\ Goto("tick", "load")
  /\ UNCHANGED <<row, cloud, session, backoff, timers, bounds>>

\* The database reads the row; the rest of the tick works on what it read.
TickLoads ==
  /\ At("tick", "load")
  /\ flow' = [flow EXCEPT !["tick"] =
                IF Selected(row) THEN Begun("loaded", row.status, row.id)
                ELSE Begun("vanished", row.status, NoId)]
  /\ UNCHANGED <<row, cloud, session, backoff, timers, bounds>>

TickFails ==
  /\ At("tick", "load")
  /\ End("tick")
  /\ timers' = Waited
  /\ UNCHANGED <<row, cloud, session, backoff, bounds>>

\* A session whose row is gone from the selection: close it and destroy the
\* terminal it remembers.
TickVanished ==
  /\ At("tick", "vanished")
  /\ session' = NoSession
  /\ IF session.up /\ session.id # NoId
     THEN flow' = [flow EXCEPT !["tick"].pc = "destroy", !["tick"].id = session.id]
     ELSE End("tick")
  /\ timers' = Waited
  /\ UNCHANGED <<row, cloud, backoff, bounds>>

TickTearsDown ==
  LET id == flow["tick"].id
  IN /\ At("tick", "loaded") /\ flow["tick"].status = "disconnecting"
     /\ session' = NoSession
     /\ \E t \in Teardown :
          /\ At(t, "idle")
          /\ flow' = [flow EXCEPT ![t] = Begun(IF id = NoId THEN "find" ELSE "destroy",
                                               "disconnecting", id),
                                  !["tick"] = Idle]
     /\ timers' = Waited
     /\ UNCHANGED <<row, cloud, backoff, bounds>>

TickOpens ==
  /\ At("tick", "loaded") /\ flow["tick"].status # "disconnecting"
  /\ ~session.up /\ ~Opening
  /\ StartOpen(flow["tick"].status, flow["tick"].id)
  /\ timers' = Waited
  /\ UNCHANGED <<row, cloud, backoff, bounds>>

TickPasses ==
  /\ At("tick", "loaded") /\ flow["tick"].status # "disconnecting"
  /\ session.up \/ Opening
  /\ End("tick")
  /\ timers' = Waited
  /\ UNCHANGED <<row, cloud, session, backoff, bounds>>

\* The process dies and starts again.
Restart ==
  /\ restarts < MaxRestarts /\ restarts' = restarts + 1
  /\ session' = NoSession /\ backoff' = 0 /\ timers' = {}
  /\ flow' = [f \in Flow |-> Idle]
  /\ UNCHANGED <<row, cloud, intents>>

-----------------------------------------------------------------------------
OpenGoesOn ==
  \/ GetAnswers \/ FindAnswers \/ CreateLands \/ CreateAnswers \/ PersistAnswers
  \/ DeployAnswers \/ ConnectAnswers \/ SuccessAnswers
  \/ OpenNotFound \/ OpenRejected \/ OpenTransient

FlowGoesOn(f) ==
  \/ DestroyReads(f) \/ Undeploys(f) \/ Removes(f) \/ Probes(f) \/ HideLands(f)

FlowBreaksOff(f) == DestroyFails(f) \/ ProbeFails(f) \/ WriteFails(f)

TickStep ==
  \/ TickStarts \/ TickLoads \/ TickFails \/ TickVanished \/ TickTearsDown \/ TickOpens
  \/ TickPasses

Next ==
  \/ UserConnects \/ UserDisconnects \/ MarkerClobbered
  \/ OpenGoesOn \/ OpenUnauthorized \/ ClearLands \/ TimerFires
  \/ \E f \in Flow : FlowGoesOn(f) \/ FlowBreaksOff(f)
  \/ \E t \in Teardown : TeardownFinds(t) \/ TeardownFails(t)
  \/ TickStep
  \/ Restart

Spec == Init /\ [][Next]_vars

-----------------------------------------------------------------------------
(* Safety.                                                                 *)

\* A retry never creates a second billable terminal: not after a create whose
\* answer was lost, a crash before its id was stored, or an overlapping teardown.
OneTerminal == Cardinality(Exists) <= 1

\* A flow that is about to hide the row knows its terminal to be gone, whatever
\* calls of the destroy failed, were lost or overlapped with another flow's.
DestroyConfirmed ==
  \A f \in Flow : At(f, "hide") /\ flow[f].id # NoId => flow[f].id \notin Exists

\* The lifecycle invariant in the class comment: no status that hides a row is
\* written before the cloud terminal has been stopped.  TLC refutes it with the
\* constants of metaapi_live: see the findings.
StoppedBeforeHidden ==
  [][row.status # "deactivated" /\ row'.status = "deactivated" => running = {}]_vars

-----------------------------------------------------------------------------
(* Liveness.  Calls settle and ticks and timers fire.  A tick, a teardown, *)
(* the worker's own token and the success write (the attempts are reset    *)
(* before it) are not broken forever; connecting may still fail every      *)
(* time, in every other way.                                               *)

Outage ==
  \/ OpenUnauthorized \/ TickFails
  \/ At("open", "success") /\ OpenTransient
  \/ \E f \in Flow : FlowBreaksOff(f)
  \/ \E t \in Teardown : TeardownFails(t)

Fairness ==
  /\ WF_vars(OpenGoesOn) /\ WF_vars(ClearLands) /\ WF_vars(TimerFires)
  /\ \A f \in Flow : WF_vars(FlowGoesOn(f))
  /\ \A t \in Teardown : WF_vars(TeardownFinds(t))
  /\ WF_vars(TickStep)

LiveSpec == Spec /\ Fairness /\ <>[][~Outage]_vars

Wants(status) == row.marked /\ ~row.archived /\ row.status = status

\* An initial connect never spins forever: it ends in success, in a bounded number
\* of failures, or in a teardown.
ConnectEnds == Wants("connecting") ~> ~Wants("connecting")

\* A row marked 'disconnecting' is torn down, restarts, lost answers and failed
\* calls in between.
TeardownEnds ==
  (row.marked /\ row.status = "disconnecting")
    ~> (row.status # "disconnecting" \/ ~row.marked)

\* A healthy account whose session was lost, to a failure or a restart, is opened
\* again.
HealthyReopened == Wants("healthy") ~> (session.up \/ ~Wants("healthy"))

=============================================================================
