----------------------- MODULE MetaApiLifecycle_proofs -----------------------
(***************************************************************************)
(* Proofs about MetaApiLifecycle, for every set of terminal ids and of     *)
(* teardowns and every value of the bounds.                                *)
(***************************************************************************)
EXTENDS MetaApiLifecycle, FiniteSetTheorems, TLAPS

\* The account has one terminal at most, and an open that is about to create
\* one has looked and found none.
TerminalsSound ==
  /\ \A c, d \in Exists : c = d
  /\ At("open", "create") => Exists = {}

\* The inductive invariant.
IInv == TypeOK /\ TerminalsSound /\ DestroyConfirmed

-----------------------------------------------------------------------------
(* Type correctness.                                                       *)

LEMMA IdleType == Idle \in FlowState
BY DEF Idle, FlowState, Status, MaybeId

LEMMA NoSessionType == NoSession \in [up : BOOLEAN, id : MaybeId]
BY DEF NoSession, MaybeId

LEMMA BegunType ==
  ASSUME NEW pc \in {"loaded", "vanished", "get", "find", "destroy"}, NEW st \in Status,
         NEW id \in MaybeId
  PROVE  Begun(pc, st, id) \in FlowState
BY DEF Begun, FlowState

LEMMA EndType ==
  ASSUME TypeOK, NEW f \in Flow, End(f)
  PROVE  flow' \in [Flow -> FlowState]
BY IdleType DEF TypeOK, End

\* A flow that goes on, with another terminal or the same.
LEMMA GotoType ==
  ASSUME TypeOK, NEW f \in Flow,
         NEW pc \in {"load", "create", "persist", "created", "connect", "success",
                     "undeploy", "remove", "probe", "hide", "destroy"},
         NEW id \in MaybeId, NEW asleep \in BOOLEAN,
         \/ Goto(f, pc)
         \/ flow' = [flow EXCEPT ![f].pc = pc, ![f].id = id]
         \/ flow' = [flow EXCEPT ![f].pc = pc, ![f].id = id, ![f].asleep = asleep]
  PROVE  flow' \in [Flow -> FlowState]
BY DEF TypeOK, Goto, FlowState

LEMMA FlowTyped ==
  ASSUME TypeOK, NEW f \in Flow
  PROVE  /\ flow[f] \in FlowState /\ flow[f].id \in MaybeId /\ flow[f].status \in Status
         /\ flow[f].quits \in BOOLEAN
BY DEF TypeOK, FlowState

LEMMA OpenIsFlow == "open" \in Flow /\ "tick" \in Flow /\ Teardown \subseteq Flow
BY DEF Flow

LEMMA EnsuredType ==
  ASSUME TypeOK, NEW c \in MaybeId, NEW pc \in {"deploy", "connect"},
         session' = (IF session.up THEN [session EXCEPT !.id = c] ELSE session),
         flow' = [flow EXCEPT !["open"] =
                    IF session.up THEN [@ EXCEPT !.pc = pc, !.id = c] ELSE Idle]
  PROVE  session' \in [up : BOOLEAN, id : MaybeId] /\ flow' \in [Flow -> FlowState]
<1>1. session' \in [up : BOOLEAN, id : MaybeId]
  BY DEF TypeOK
<1>2. flow["open"] \in FlowState
  BY FlowTyped, OpenIsFlow
<1>3. [flow["open"] EXCEPT !.pc = pc, !.id = c] \in FlowState
  BY <1>2 DEF FlowState
<1> QED
  BY <1>1, <1>3, IdleType DEF TypeOK

LEMMA QuittingType ==
  ASSUME TypeOK, NEW quits \in BOOLEAN
  PROVE  Quitting(quits) \in FlowState /\ KnownId \in MaybeId
BY FlowTyped, OpenIsFlow DEF Quitting, KnownId, FlowState, MaybeId

LEMMA RowTyped ==
  ASSUME TypeOK, NEW id \in MaybeId, NEW st \in Status, NEW marked \in BOOLEAN
  PROVE  /\ [row EXCEPT !.id = id] \in Row
         /\ [row EXCEPT !.status = st, !.id = id, !.marked = marked] \in Row
BY DEF TypeOK, Row

LEMMA LandsType ==
  ASSUME TypeOK, Lands
  PROVE  /\ row' \in Row
         /\ running' \subseteq CloudId /\ stopped' \subseteq CloudId
         /\ running' \cap stopped' = {}
<1>1. flow["open"].id \in MaybeId
  BY FlowTyped, OpenIsFlow
<1>2. row' \in Row
  BY <1>1, RowTyped DEF Lands, Succeeded, Status, TypeOK
<1>3. running' \subseteq CloudId /\ stopped' \subseteq CloudId /\ running' \cap stopped' = {}
  BY DEF Lands, cloud, Exists, TypeOK
<1> QED
  BY <1>2, <1>3

\* A flow may end, or go on to hide the row; giving up clears the backoff.
LEMMA DestroyedType ==
  ASSUME TypeOK, NEW f \in Flow, Destroyed(f)
  PROVE  flow' \in [Flow -> FlowState] /\ backoff' \in 0..MaxAttempts
<1>1. backoff' \in 0..MaxAttempts
  BY LifecycleAssumptions DEF Destroyed, TypeOK
<1>2. End(f) \/ Goto(f, "hide")
  BY DEF Destroyed
<1>3. NoId \in MaybeId
  BY DEF MaybeId
<1> QED
  BY <1>1, <1>2, <1>3, EndType, GotoType

LEMMA OpenGoesOnType == ASSUME TypeOK, OpenGoesOn \/ OpenUnauthorized \/ ClearLands PROVE TypeOK'
<1> USE DEF cloud, bounds
<1> DEFINE o == flow["open"]
<1>0. o \in FlowState /\ o.id \in MaybeId /\ o.status \in Status
  BY FlowTyped, OpenIsFlow
<1>1. CASE GetAnswers
  <2>1. session' \in [up : BOOLEAN, id : MaybeId] /\ flow' \in [Flow -> FlowState]
    <3>1. CASE o.id \in stopped
      BY <1>0, <1>1, <3>1, EnsuredType DEF GetAnswers, Ensured
    <3>2. CASE o.id \notin stopped
      BY <1>0, <1>1, <3>2, EnsuredType DEF GetAnswers, Ensured
    <3> QED
      BY <3>1, <3>2
  <2> QED
    BY <1>1, <2>1 DEF GetAnswers, TypeOK
<1>2. CASE FindAnswers
  <2>1. Found \subseteq MaybeId
    BY DEF Found, Exists, MaybeId, TypeOK
  <2>2. NoId \in MaybeId
    BY DEF MaybeId
  <2>3. CASE Found = {} /\ Goto("open", "create")
    BY <1>2, <2>2, <2>3, GotoType, OpenIsFlow DEF FindAnswers, TypeOK
  <2>4. ASSUME NEW c \in Found,
               flow' = [flow EXCEPT !["open"].pc = "persist", !["open"].id = c,
                                    !["open"].asleep = c \in stopped]
        PROVE  TypeOK'
    <3>1. PICK a \in BOOLEAN : flow' = [flow EXCEPT !["open"].pc = "persist",
                                          !["open"].id = c, !["open"].asleep = a]
      <4>1. CASE c \in stopped
        BY <2>4, <4>1
      <4>2. CASE c \notin stopped
        <5>1. (c \in stopped) = FALSE
          BY <4>2
        <5> QED
          BY <2>4, <5>1, Zenon
      <4> QED
        BY <4>1, <4>2
    <3>2. flow' \in [Flow -> FlowState]
      BY <2>1, <3>1, GotoType, OpenIsFlow
    <3> QED
      BY <1>2, <3>2 DEF FindAnswers, TypeOK
  <2> QED
    BY <1>2, <2>3, <2>4 DEF FindAnswers
<1>3. CASE CreateLands
  <2>1. PICK c \in Fresh :
          /\ running' = running \cup {c}
          /\ flow' = [flow EXCEPT !["open"].pc = "created", !["open"].id = c]
    BY <1>3 DEF CreateLands
  <2>2. c \in CloudId /\ c \notin Exists /\ c \in MaybeId
    BY DEF Fresh, MaybeId
  <2>3. flow' \in [Flow -> FlowState]
    BY <2>1, <2>2, GotoType, OpenIsFlow
  <2> QED
    BY <1>3, <2>1, <2>2, <2>3 DEF CreateLands, TypeOK, Exists
<1>4. CASE CreateAnswers
  <2>1. flow' \in [Flow -> FlowState]
    BY <1>0, <1>4, GotoType, OpenIsFlow DEF CreateAnswers
  <2> QED
    BY <1>4, <2>1 DEF CreateAnswers, TypeOK
<1>5. CASE PersistAnswers
  <2>1. o.asleep \in BOOLEAN /\ row' \in Row
    BY <1>0, <1>5, RowTyped DEF PersistAnswers, FlowState
  <2>2. session' \in [up : BOOLEAN, id : MaybeId] /\ flow' \in [Flow -> FlowState]
    <3>1. CASE o.asleep
      BY <1>0, <1>5, <3>1, EnsuredType DEF PersistAnswers, Ensured
    <3>2. CASE ~o.asleep
      BY <1>0, <1>5, <3>2, EnsuredType DEF PersistAnswers, Ensured
    <3> QED
      BY <3>1, <3>2
  <2> QED
    BY <1>5, <2>1, <2>2 DEF PersistAnswers, TypeOK
<1>6. CASE DeployAnswers
  <2>1. flow' \in [Flow -> FlowState]
    BY <1>0, <1>6, GotoType, OpenIsFlow DEF DeployAnswers
  <2> QED
    BY <1>6, <2>1 DEF DeployAnswers, TypeOK, Exists
<1>7. CASE ConnectAnswers
  <2>1. flow' \in [Flow -> FlowState]
    BY <1>0, <1>7, GotoType, EndType, OpenIsFlow DEF ConnectAnswers
  <2>2. session' \in [up : BOOLEAN, id : MaybeId] /\ backoff' \in 0..MaxAttempts
    <3>1. backoff' \in 0..MaxAttempts
      BY <1>7, LifecycleAssumptions DEF ConnectAnswers, TypeOK
    <3>2. session' \in [up : BOOLEAN, id : MaybeId]
      <4>1. [up |-> TRUE, id |-> o.id] \in [up : BOOLEAN, id : MaybeId]
        BY <1>0
      <4>2. session' = [up |-> TRUE, id |-> o.id] \/ session' = session
        BY <1>7 DEF ConnectAnswers
      <4> QED
        BY <4>1, <4>2 DEF TypeOK
    <3> QED
      BY <3>1, <3>2
  <2> QED
    BY <1>7, <2>1, <2>2 DEF ConnectAnswers, TypeOK
<1>8. CASE SuccessAnswers
  <2>1. flow' \in [Flow -> FlowState] /\ row' \in Row
    BY <1>0, <1>8, EndType, RowTyped, OpenIsFlow DEF SuccessAnswers, Succeeded, Status
  <2> QED
    BY <1>8, <2>1 DEF SuccessAnswers, TypeOK
<1>9. CASE OpenNotFound
  <2>1. \A pc \in {"hide", "clear"} : [o EXCEPT !.pc = pc] \in FlowState
    BY <1>0 DEF FlowState
  <2>2. flow' \in [Flow -> FlowState] /\ session' \in [up : BOOLEAN, id : MaybeId]
    BY <1>9, <2>1, NoSessionType DEF OpenNotFound, Caught, TypeOK
  <2>3. backoff' \in 0..MaxAttempts
    BY <1>9, LifecycleAssumptions DEF OpenNotFound, TypeOK
  <2> QED
    BY <1>9, <2>2, <2>3 DEF OpenNotFound, TypeOK
<1>10. CASE OpenRejected
  <2>1. flow' \in [Flow -> FlowState] /\ session' \in [up : BOOLEAN, id : MaybeId]
    BY <1>10, QuittingType DEF OpenRejected, Caught, NoSession, MaybeId, TypeOK
  <2> QED
    BY <1>10, <2>1 DEF OpenRejected, TypeOK
<1>11. CASE OpenTransient
  <2>1. flow' \in [Flow -> FlowState] /\ session' \in [up : BOOLEAN, id : MaybeId]
    BY <1>11, QuittingType, IdleType, NoSessionType
    DEF OpenTransient, Caught, TypeOK
  <2>2. backoff' \in 0..MaxAttempts
    <3>1. backoff \in 0..MaxAttempts /\ MaxAttempts \in Nat \ {0}
      BY LifecycleAssumptions DEF TypeOK
    <3>2. CASE GivesUp(o.status, backoff + 1)
      BY <1>11, <3>1, <3>2 DEF OpenTransient
    <3>3. CASE ~GivesUp(o.status, backoff + 1)
      <4>1. backoff' = Counted(o.status)
        BY <1>11, <3>3 DEF OpenTransient
      <4> QED
        BY <3>1, <3>3, <4>1 DEF GivesUp, Counted
    <3> QED
      BY <3>2, <3>3
  <2>3. timers' \subseteq [status : Status, id : MaybeId, due : BOOLEAN]
    <3>1. \A due \in BOOLEAN : [status |-> o.status, id |-> KnownId, due |-> due]
            \in [status : Status, id : MaybeId, due : BOOLEAN]
      BY <1>0, QuittingType
    <3>2. (backoff + 1 < MaxAttempts) \in BOOLEAN
      OBVIOUS
    <3> QED
      BY <1>11, <3>1, <3>2 DEF OpenTransient, TypeOK
  <2>4. UNCHANGED <<intents, restarts>> /\ Lands
    BY <1>11 DEF OpenTransient
  <2> QED
    BY <2>1, <2>2, <2>3, <2>4, LandsType DEF TypeOK
<1>12. CASE OpenUnauthorized
  <2>1. flow' \in [Flow -> FlowState] /\ session' \in [up : BOOLEAN, id : MaybeId]
    BY <1>12, IdleType DEF OpenUnauthorized, Caught, NoSession, MaybeId, TypeOK
  <2> QED
    BY <1>12, <2>1, LandsType DEF OpenUnauthorized, TypeOK
<1>13. CASE ClearLands
  <2>1. flow' \in [Flow -> FlowState] /\ row' \in Row
    BY <1>13, EndType, RowTyped, OpenIsFlow DEF ClearLands, MaybeId, Status
  <2> QED
    BY <1>13, <2>1 DEF ClearLands, TypeOK
<1> QED
  BY <1>1, <1>2, <1>3, <1>4, <1>5, <1>6, <1>7, <1>8, <1>9, <1>10, <1>11, <1>12, <1>13
  DEF OpenGoesOn

LEMMA FlowGoesOnType ==
  ASSUME TypeOK, NEW f \in Flow, FlowGoesOn(f) \/ FlowBreaksOff(f)
  PROVE  TypeOK'
<1> USE DEF cloud, bounds
<1>0. flow[f].id \in MaybeId /\ NoId \in MaybeId
  BY FlowTyped DEF MaybeId
<1>1. CASE DestroyReads(f)
  <2>1. flow' \in [Flow -> FlowState] /\ backoff' \in 0..MaxAttempts
    BY <1>0, <1>1, GotoType, EndType, DestroyedType DEF DestroyReads, TypeOK
  <2> QED
    BY <1>1, <2>1 DEF DestroyReads, TypeOK
<1>2. CASE Undeploys(f)
  <2>1. flow' \in [Flow -> FlowState] /\ backoff' \in 0..MaxAttempts
    BY <1>0, <1>2, GotoType, EndType, DestroyedType DEF Undeploys, TypeOK
  <2> QED
    BY <1>2, <2>1 DEF Undeploys, TypeOK, Exists
<1>3. CASE Removes(f)
  <2>1. flow' \in [Flow -> FlowState] /\ backoff' \in 0..MaxAttempts
    BY <1>0, <1>3, GotoType, DestroyedType DEF Removes, TypeOK
  <2> QED
    BY <1>3, <2>1 DEF Removes, TypeOK
<1>4. CASE Probes(f)
  <2>1. flow' \in [Flow -> FlowState] /\ backoff' \in 0..MaxAttempts
    BY <1>4, EndType, DestroyedType DEF Probes, TypeOK
  <2> QED
    BY <1>4, <2>1 DEF Probes, TypeOK
<1>5. CASE HideLands(f)
  <2>1. flow' \in [Flow -> FlowState] /\ row' \in Row
    BY <1>0, <1>5, EndType, RowTyped DEF HideLands, Status
  <2> QED
    BY <1>5, <2>1 DEF HideLands, TypeOK
<1>6. CASE FlowBreaksOff(f)
  <2>1. flow' \in [Flow -> FlowState]
    BY <1>0, <1>6, EndType, GotoType DEF FlowBreaksOff, DestroyFails, ProbeFails, WriteFails
  <2> QED
    BY <1>6, <2>1 DEF FlowBreaksOff, DestroyFails, ProbeFails, WriteFails, TypeOK
<1> QED
  BY <1>1, <1>2, <1>3, <1>4, <1>5, <1>6 DEF FlowGoesOn

LEMMA TeardownType ==
  ASSUME TypeOK, NEW t \in Teardown, TeardownFinds(t) \/ TeardownFails(t)
  PROVE  TypeOK'
<1> USE DEF cloud, bounds
<1>1. t \in Flow /\ Found \subseteq MaybeId /\ NoId \in MaybeId
  BY DEF Flow, Found, Exists, MaybeId, TypeOK
<1>2. flow' \in [Flow -> FlowState]
  BY <1>1, EndType, GotoType DEF TeardownFinds, TeardownFails
<1> QED
  BY <1>2 DEF TeardownFinds, TeardownFails, TypeOK

LEMMA TickType == ASSUME TypeOK, TickStep PROVE TypeOK'
<1> USE DEF cloud, bounds
<1> DEFINE k == flow["tick"]
<1>0. /\ k.id \in MaybeId /\ k.status \in Status /\ NoId \in MaybeId
      /\ row.id \in MaybeId /\ row.status \in Status /\ "disconnecting" \in Status
  BY FlowTyped, OpenIsFlow DEF MaybeId, TypeOK, Row, Status
<1>1. Waited \subseteq [status : Status, id : MaybeId, due : BOOLEAN]
  BY DEF Waited, TypeOK
<1>2. CASE TickStarts
  <2>1. flow' \in [Flow -> FlowState]
    BY <1>0, <1>2, GotoType, OpenIsFlow DEF TickStarts
  <2> QED
    BY <1>2, <2>1 DEF TickStarts, TypeOK
<1>3. CASE TickLoads
  <2>1. /\ Begun("loaded", row.status, row.id) \in FlowState
        /\ Begun("vanished", row.status, NoId) \in FlowState
    BY <1>0, BegunType
  <2>2. flow' \in [Flow -> FlowState]
    BY <1>3, <2>1 DEF TickLoads, TypeOK
  <2> QED
    BY <1>3, <2>2 DEF TickLoads, TypeOK
<1>4. CASE TickFails \/ TickPasses
  <2>1. flow' \in [Flow -> FlowState]
    BY <1>4, EndType, OpenIsFlow DEF TickFails, TickPasses
  <2> QED
    BY <1>1, <1>4, <2>1 DEF TickFails, TickPasses, TypeOK
<1>5. CASE TickVanished
  <2>1. session.id \in MaybeId
    BY DEF TypeOK
  <2>2. flow' \in [Flow -> FlowState]
    BY <1>5, <2>1, EndType, GotoType, OpenIsFlow DEF TickVanished
  <2> QED
    BY <1>1, <1>5, <2>2, NoSessionType DEF TickVanished, TypeOK
<1>6. CASE TickTearsDown
  <2>1. \A pc \in {"find", "destroy"} : Begun(pc, "disconnecting", k.id) \in FlowState
    BY <1>0, BegunType
  <2>2. flow' \in [Flow -> FlowState]
    BY <1>6, <2>1, IdleType DEF TickTearsDown, TypeOK
  <2> QED
    BY <1>1, <1>6, <2>2, NoSessionType DEF TickTearsDown, TypeOK
<1>7. CASE TickOpens
  <2>1. \A pc \in {"find", "get"} : Begun(pc, k.status, k.id) \in FlowState
    BY <1>0, BegunType
  <2>2. flow' \in [Flow -> FlowState]
    BY <1>7, <2>1, IdleType DEF TickOpens, StartOpen, TypeOK
  <2>3. session' \in [up : BOOLEAN, id : MaybeId]
    BY <1>0, <1>7 DEF TickOpens, StartOpen
  <2> QED
    BY <1>1, <1>7, <2>2, <2>3 DEF TickOpens, TypeOK
<1> QED
  BY <1>2, <1>3, <1>4, <1>5, <1>6, <1>7 DEF TickStep

LEMMA TimerFiresType == ASSUME TypeOK, TimerFires PROVE TypeOK'
<1> USE DEF cloud, bounds
<1>1. PICK t \in timers :
        /\ timers' = timers \ {t}
        /\ IF session.up \/ Opening THEN UNCHANGED <<session, flow>>
           ELSE /\ session' = [up |-> TRUE, id |-> t.id]
                /\ flow' = [flow EXCEPT !["open"] =
                              Begun(IF t.id = NoId THEN "find" ELSE "get", t.status, t.id)]
  BY DEF TimerFires
<1>2. t.id \in MaybeId /\ t.status \in Status
  BY DEF TypeOK
<1>3. \A pc \in {"find", "get"} : Begun(pc, t.status, t.id) \in FlowState
  BY <1>2, BegunType
<1>4. flow' \in [Flow -> FlowState]
  BY <1>1, <1>3 DEF TypeOK
<1>5. session' \in [up : BOOLEAN, id : MaybeId]
  <2>1. [up |-> TRUE, id |-> t.id] \in [up : BOOLEAN, id : MaybeId]
    BY <1>2
  <2>2. session' = [up |-> TRUE, id |-> t.id] \/ session' = session
    BY <1>1
  <2> QED
    BY <2>1, <2>2 DEF TypeOK
<1> QED
  BY <1>1, <1>4, <1>5 DEF TimerFires, TypeOK

LEMMA UserType ==
  ASSUME TypeOK, UserConnects \/ UserDisconnects \/ MarkerClobbered
  PROVE  TypeOK'
<1> USE DEF cloud
<1>1. PICK r \in Row : Intends(r)
  BY DEF UserConnects, UserDisconnects, MarkerClobbered, TypeOK, Row, Status
<1>2. intents' \in 0..MaxIntents
  BY <1>1, LifecycleAssumptions DEF Intends, TypeOK
<1> QED
  BY <1>1, <1>2 DEF Intends, TypeOK

LEMMA RestartType == ASSUME TypeOK, Restart PROVE TypeOK'
<1>1. restarts' \in 0..MaxRestarts /\ 0 \in 0..MaxAttempts
  BY LifecycleAssumptions DEF Restart, TypeOK
<1> QED
  BY <1>1, IdleType, NoSessionType DEF Restart, cloud, TypeOK

LEMMA TypeStep == TypeOK /\ [Next]_vars => TypeOK'
<1> SUFFICES ASSUME TypeOK, [Next]_vars PROVE TypeOK'
  OBVIOUS
<1>1. CASE UNCHANGED vars
  BY <1>1 DEF vars, cloud, bounds, TypeOK
<1> QED
  BY <1>1, OpenGoesOnType, FlowGoesOnType, TeardownType, TickType, TimerFiresType, UserType,
     RestartType
  DEF Next

-----------------------------------------------------------------------------
(* Terminals.                                                              *)

\* Only a create makes a terminal; every other step works on those there are.
LEMMA ExistsFrame == TypeOK /\ [Next]_vars => Exists' \subseteq Exists \/ CreateLands
<1> SUFFICES ASSUME TypeOK, [Next]_vars, ~CreateLands PROVE Exists' \subseteq Exists
  OBVIOUS
<1> USE DEF Exists, cloud
<1>1. CASE Lands
  BY <1>1 DEF Lands
<1>2. CASE DeployAnswers
  BY <1>2 DEF DeployAnswers
<1>3. CASE \E f \in Flow : Undeploys(f) \/ Removes(f)
  BY <1>3 DEF Undeploys, Removes
<1>4. CASE UNCHANGED cloud
  BY <1>4
<1>5. Lands \/ DeployAnswers \/ (\E f \in Flow : Undeploys(f) \/ Removes(f)) \/ UNCHANGED cloud
  <2>1. CASE OpenGoesOn \/ OpenUnauthorized \/ ClearLands
    BY <2>1 DEF OpenGoesOn, GetAnswers, FindAnswers, CreateAnswers, PersistAnswers,
       ConnectAnswers, SuccessAnswers, OpenNotFound, OpenRejected, OpenTransient,
       OpenUnauthorized, ClearLands
  <2>2. CASE \E f \in Flow : FlowGoesOn(f) \/ FlowBreaksOff(f)
    BY <2>2 DEF FlowGoesOn, FlowBreaksOff, DestroyReads, Probes, HideLands, DestroyFails,
       ProbeFails, WriteFails
  <2>3. CASE TickStep
    BY <2>3 DEF TickStep, TickStarts, TickLoads, TickFails, TickVanished, TickTearsDown,
       TickOpens, TickPasses
  <2>4. CASE UserConnects \/ UserDisconnects \/ MarkerClobbered \/ TimerFires \/ Restart
             \/ \E t \in Teardown : TeardownFinds(t) \/ TeardownFails(t)
    BY <2>4 DEF UserConnects, UserDisconnects, MarkerClobbered, Intends, TimerFires, Restart,
       TeardownFinds, TeardownFails
  <2>5. CASE UNCHANGED vars
    BY <2>5 DEF vars
  <2> QED
    BY <2>1, <2>2, <2>3, <2>4, <2>5 DEF Next
<1> QED
  BY <1>1, <1>2, <1>3, <1>4, <1>5

\* What the ways to move flow g leave behind, in g and in the others.
LEMMA EndFlow ==
  ASSUME flow \in [Flow -> FlowState], NEW g \in Flow, End(g)
  PROVE  flow'[g].pc = "idle" /\ \A f \in Flow \ {g} : flow'[f] = flow[f]
BY DEF End, Idle

LEMMA GotoFlow ==
  ASSUME flow \in [Flow -> FlowState], NEW g \in Flow, NEW pc, Goto(g, pc)
  PROVE  /\ flow'[g].pc = pc /\ flow'[g].id = flow[g].id
         /\ \A f \in Flow \ {g} : flow'[f] = flow[f]
BY DEF Goto, FlowState

LEMMA DestroyedFlow ==
  ASSUME flow \in [Flow -> FlowState], NEW g \in Flow, Destroyed(g)
  PROVE  /\ flow'[g].pc = "idle" \/ (flow'[g].pc = "hide" /\ flow'[g].id = flow[g].id)
         /\ \A f \in Flow \ {g} : flow'[f] = flow[f]
BY EndFlow, GotoFlow DEF Destroyed

LEMMA BegunFlow ==
  ASSUME NEW pc, NEW st, NEW id
  PROVE  Begun(pc, st, id).pc = pc /\ Begun(pc, st, id).id = id
BY DEF Begun

LEMMA EnsuredFlow ==
  ASSUME flow \in [Flow -> FlowState], NEW c, NEW asleep, Ensured(c, asleep)
  PROVE  /\ flow'["open"].pc \in {"deploy", "connect", "idle"}
         /\ \A f \in Flow \ {"open"} : flow'[f] = flow[f]
<1>1. flow["open"] \in FlowState /\ "open" \in Flow
  BY OpenIsFlow
<1>2. CASE session.up
  <2>1. flow' = [flow EXCEPT !["open"] =
                   [flow["open"] EXCEPT !.pc = IF asleep THEN "deploy" ELSE "connect", !.id = c]]
    BY <1>1, <1>2 DEF Ensured
  <2>2. [flow["open"] EXCEPT !.pc = IF asleep THEN "deploy" ELSE "connect", !.id = c].pc
          \in {"deploy", "connect"}
    BY <1>1 DEF FlowState
  <2> QED
    BY <1>1, <2>1, <2>2
<1>3. CASE ~session.up
  BY <1>1, <1>3 DEF Ensured, Idle
<1> QED
  BY <1>2, <1>3

LEMMA CaughtFlow ==
  ASSUME flow \in [Flow -> FlowState], NEW x, Caught(x)
  PROVE  flow'["open"] = x /\ \A f \in Flow \ {"open"} : flow'[f] = flow[f]
BY OpenIsFlow DEF Caught

\* Without a terminal that it knows the flow goes to hide the row at once.
LEMMA QuittingFlow ==
  ASSUME flow \in [Flow -> FlowState], NEW quits
  PROVE  /\ Quitting(quits).pc \in {"hide", "destroy"}
         /\ Quitting(quits).pc = "hide" => Quitting(quits).id = NoId
<1>1. flow["open"] \in FlowState
  BY OpenIsFlow
<1> QED
  BY <1>1 DEF Quitting, FlowState

\* Flow f goes to pc.
Comes(f, pc) == At(f, pc)' /\ flow'[f] # flow[f]

\* Where the pc that the two lemmas below are about can be entered from.
LEMMA OpenComes ==
  ASSUME TypeOK, OpenGoesOn \/ OpenUnauthorized \/ ClearLands, NEW f \in Flow,
         NEW pc \in {"create", "hide"}, Comes(f, pc)
  PROVE  /\ f = "open"
         /\ pc = "create" => FindAnswers /\ Found = {}
         /\ pc = "hide" => OpenNotFound \/ flow'[f].id = NoId
<1> USE DEF At, Comes
<1>0. flow \in [Flow -> FlowState] /\ "open" \in Flow /\ flow["open"] \in FlowState
  BY OpenIsFlow DEF TypeOK
<1>1. CASE GetAnswers \/ PersistAnswers
  BY <1>0, <1>1, EnsuredFlow DEF GetAnswers, PersistAnswers
<1>2. CASE FindAnswers
  <2>1. CASE Found = {} /\ Goto("open", "create")
    BY <1>0, <1>2, <2>1, GotoFlow
  <2>2. ASSUME NEW c, flow' = [flow EXCEPT !["open"].pc = "persist", !["open"].id = c,
                                           !["open"].asleep = c \in stopped]
        PROVE  FALSE
    <3>1. \A g \in Flow \ {"open"} : flow'[g] = flow[g]
      BY <1>0, <2>2
    <3>2. PICK a : flow' = [flow EXCEPT !["open"].pc = "persist", !["open"].id = c,
                                        !["open"].asleep = a]
      BY <2>2, Zenon
    <3>3. flow'["open"].pc = "persist"
      BY <1>0, <3>2 DEF FlowState
    <3> QED
      BY <3>1, <3>3
  <2> QED
    BY <1>2, <2>1, <2>2 DEF FindAnswers
<1>3. CASE CreateLands
  <2>1. PICK c : flow' = [flow EXCEPT !["open"].pc = "created", !["open"].id = c]
    BY <1>3 DEF CreateLands
  <2>2. flow'["open"].pc = "created" /\ \A g \in Flow \ {"open"} : flow'[g] = flow[g]
    BY <1>0, <2>1 DEF FlowState
  <2> QED
    BY <2>2
<1>4. CASE CreateAnswers \/ DeployAnswers \/ ConnectAnswers \/ SuccessAnswers \/ ClearLands
  BY <1>0, <1>4, EndFlow, GotoFlow
  DEF CreateAnswers, DeployAnswers, ConnectAnswers, SuccessAnswers, ClearLands
<1>5. CASE OpenNotFound
  <2>1. [flow["open"] EXCEPT !.pc = "clear"].pc = "clear"
        /\ [flow["open"] EXCEPT !.pc = "hide"].pc = "hide"
    BY <1>0 DEF FlowState
  <2> QED
    BY <1>0, <1>5, <2>1, CaughtFlow DEF OpenNotFound
<1>6. CASE OpenRejected \/ OpenTransient \/ OpenUnauthorized
  <2>1. Caught(Idle) \/ \E quits \in BOOLEAN : Caught(Quitting(quits))
    BY <1>6 DEF OpenRejected, OpenTransient, OpenUnauthorized
  <2> QED
    BY <1>0, <2>1, CaughtFlow, QuittingFlow DEF Idle
<1> QED
  BY <1>1, <1>2, <1>3, <1>4, <1>5, <1>6 DEF OpenGoesOn

\* A destroy goes on to hide the row when the terminal is seen gone, or removed.
LEMMA FlowComes ==
  ASSUME TypeOK, NEW g \in Flow, FlowGoesOn(g) \/ FlowBreaksOff(g), NEW f \in Flow,
         NEW pc \in {"create", "hide"}, Comes(f, pc)
  PROVE  pc = "hide" /\ flow'[f].id \notin Exists'
<1> USE DEF At, Comes
<1>0. flow \in [Flow -> FlowState] /\ flow[g] \in FlowState
  BY DEF TypeOK
<1>1. CASE DestroyReads(g) \/ Probes(g)
  <2>1. Exists' = Exists
    BY <1>1 DEF DestroyReads, Probes, cloud, Exists
  <2>2. Destroyed(g) => flow[g].id \notin Exists
    <3>1. CASE DestroyReads(g)
      <4>1. CASE flow[g].id \in Exists
        BY <1>0, <3>1, <4>1, GotoFlow, DestroyedFlow DEF DestroyReads
      <4> QED
        BY <4>1
    <3>2. CASE Probes(g)
      <4>1. CASE ProbeSaysDone(g)
        BY <4>1 DEF ProbeSaysDone, Confirmed
      <4>2. CASE ~ProbeSaysDone(g)
        BY <1>0, <3>2, <4>2, EndFlow DEF Probes
      <4> QED
        BY <4>1, <4>2
    <3> QED
      BY <1>1, <3>1, <3>2
  <2> QED
    BY <1>0, <1>1, <2>1, <2>2, EndFlow, GotoFlow, DestroyedFlow DEF DestroyReads, Probes
<1>2. CASE Undeploys(g)
  <2>1. CASE flow[g].id \in Exists
    BY <1>0, <1>2, <2>1, GotoFlow DEF Undeploys
  <2>2. CASE flow[g].id \notin Exists
    <3>1. Exists' = Exists
      BY <1>2, <2>2 DEF Undeploys, cloud, Exists
    <3> QED
      BY <1>0, <1>2, <2>2, <3>1, EndFlow, DestroyedFlow DEF Undeploys
  <2> QED
    BY <2>1, <2>2
<1>3. CASE Removes(g)
  <2>1. flow[g].id \notin Exists'
    BY <1>3 DEF Removes, Exists
  <2> QED
    BY <1>0, <1>3, <2>1, GotoFlow, DestroyedFlow DEF Removes
<1>4. CASE HideLands(g) \/ FlowBreaksOff(g)
  BY <1>0, <1>4, EndFlow, GotoFlow
  DEF HideLands, FlowBreaksOff, DestroyFails, ProbeFails, WriteFails
<1> QED
  BY <1>1, <1>2, <1>3, <1>4 DEF FlowGoesOn

LEMMA TeardownComes ==
  ASSUME TypeOK, NEW t \in Teardown, TeardownFinds(t) \/ TeardownFails(t), NEW f \in Flow,
         NEW pc \in {"create", "hide"}, Comes(f, pc)
  PROVE  pc = "hide" /\ Found = {} /\ Exists' = Exists
<1> USE DEF At, Comes
<1>0. flow \in [Flow -> FlowState] /\ t \in Flow /\ flow[t] \in FlowState
  BY OpenIsFlow DEF TypeOK
<1>1. CASE TeardownFails(t)
  BY <1>0, <1>1, EndFlow DEF TeardownFails
<1>2. CASE TeardownFinds(t)
  <2>1. ASSUME NEW c, flow' = [flow EXCEPT ![t].pc = "destroy", ![t].id = c]
        PROVE  FALSE
    <3>1. flow'[t].pc = "destroy" /\ \A g \in Flow \ {t} : flow'[g] = flow[g]
      BY <1>0, <2>1 DEF FlowState
    <3> QED
      BY <3>1
  <2>2. Found = {} /\ Goto(t, "hide")
    BY <1>2, <2>1 DEF TeardownFinds
  <2> QED
    BY <1>0, <1>2, <2>2, GotoFlow DEF TeardownFinds, cloud, Exists
<1> QED
  BY <1>1, <1>2

\* No tick, timer, user or restart brings a flow there.
LEMMA OthersComeNot ==
  ASSUME TypeOK, NEW f \in Flow, NEW pc \in {"create", "hide"},
         \/ TickStep \/ TimerFires \/ UserConnects \/ UserDisconnects \/ MarkerClobbered
         \/ Restart \/ UNCHANGED vars
  PROVE  ~Comes(f, pc)
<1> SUFFICES ASSUME Comes(f, pc) PROVE FALSE
  OBVIOUS
<1> USE DEF At, Comes
<1>0. flow \in [Flow -> FlowState] /\ "open" \in Flow /\ "tick" \in Flow /\ Teardown \subseteq Flow
  BY OpenIsFlow DEF TypeOK
<1>1. CASE TickStarts \/ TickFails \/ TickPasses
  BY <1>0, <1>1, EndFlow, GotoFlow DEF TickStarts, TickFails, TickPasses
<1>2. CASE TickLoads
  <2>1. PICK p \in {"loaded", "vanished"} : \E st, id :
          flow' = [flow EXCEPT !["tick"] = Begun(p, st, id)]
    <3>1. CASE Selected(row)
      BY <1>2, <3>1 DEF TickLoads
    <3>2. CASE ~Selected(row)
      BY <1>2, <3>2 DEF TickLoads
    <3> QED
      BY <3>1, <3>2
  <2> QED
    BY <1>0, <2>1, BegunFlow
<1>3. CASE TickVanished
  <2>1. CASE End("tick")
    BY <1>0, <2>1, EndFlow
  <2>2. ASSUME NEW c, flow' = [flow EXCEPT !["tick"].pc = "destroy", !["tick"].id = c]
        PROVE  FALSE
    <3>1. flow["tick"] \in FlowState
      BY <1>0
    <3>2. flow'["tick"].pc = "destroy" /\ \A g \in Flow \ {"tick"} : flow'[g] = flow[g]
      BY <1>0, <2>2, <3>1 DEF FlowState
    <3> QED
      BY <3>2
  <2> QED
    BY <1>3, <2>1, <2>2 DEF TickVanished
<1>4. CASE TickTearsDown
  <2>1. PICK t \in Teardown, p \in {"find", "destroy"} : \E id :
          flow' = [flow EXCEPT ![t] = Begun(p, "disconnecting", id), !["tick"] = Idle]
    BY <1>4 DEF TickTearsDown
  <2> QED
    BY <1>0, <2>1, BegunFlow DEF Idle
<1>5. CASE TickOpens
  <2>1. PICK p \in {"find", "get"} : \E st, id :
          flow' = [flow EXCEPT !["open"] = Begun(p, st, id), !["tick"] = Idle]
    BY <1>5 DEF TickOpens, StartOpen
  <2> QED
    BY <1>0, <2>1, BegunFlow DEF Idle
<1>6. CASE TimerFires
  <2>1. CASE UNCHANGED flow
    BY <2>1
  <2>2. ASSUME NEW p \in {"find", "get"}, NEW st, NEW id,
               flow' = [flow EXCEPT !["open"] = Begun(p, st, id)]
        PROVE  FALSE
    BY <1>0, <2>2, BegunFlow
  <2> QED
    BY <1>6, <2>1, <2>2 DEF TimerFires
<1>7. CASE UserConnects \/ UserDisconnects \/ MarkerClobbered \/ UNCHANGED vars
  BY <1>7 DEF UserConnects, UserDisconnects, MarkerClobbered, Intends, vars
<1>8. CASE Restart
  BY <1>8 DEF Restart, Idle
<1> QED
  BY <1>1, <1>2, <1>3, <1>4, <1>5, <1>6, <1>7, <1>8 DEF TickStep

\* An open gets to its create only from a search that found no terminal.
LEMMA CreateFrame ==
  ASSUME TypeOK, [Next]_vars, At("open", "create")', ~At("open", "create")
  PROVE  Exists = {} /\ ~CreateLands
<1>1. Comes("open", "create")
  BY DEF Comes, At
<1>2. OpenGoesOn \/ OpenUnauthorized \/ ClearLands
  BY <1>1, OpenIsFlow, FlowComes, TeardownComes, OthersComeNot DEF Next
<1>3. FindAnswers /\ Found = {}
  BY <1>1, <1>2, OpenIsFlow, OpenComes
<1> QED
  BY <1>3 DEF FindAnswers, CreateLands, At, Found

LEMMA TerminalsStep == TypeOK /\ TerminalsSound /\ [Next]_vars => TerminalsSound'
<1> SUFFICES ASSUME TypeOK, TerminalsSound, [Next]_vars PROVE TerminalsSound'
  OBVIOUS
<1>1. \A c, d \in Exists' : c = d
  <2>1. CASE CreateLands
    <3>1. Exists = {}
      BY <2>1 DEF CreateLands, TerminalsSound
    <3>2. PICK c \in Fresh : Exists' = {c}
      BY <2>1, <3>1 DEF CreateLands, Exists
    <3> QED
      BY <3>2
  <2>2. CASE Exists' \subseteq Exists
    BY <2>2 DEF TerminalsSound
  <2> QED
    BY <2>1, <2>2, ExistsFrame
<1>2. ASSUME At("open", "create")' PROVE Exists' = {}
  <2>1. CASE At("open", "create") /\ ~CreateLands
    BY <2>1, ExistsFrame DEF TerminalsSound
  <2>2. CASE CreateLands
    <3>1. flow["open"] \in FlowState /\ flow \in [Flow -> FlowState]
      BY OpenIsFlow DEF TypeOK
    <3>2. flow'["open"].pc = "created"
      BY <2>2, <3>1, OpenIsFlow DEF CreateLands, FlowState
    <3> QED
      BY <1>2, <3>2 DEF At
  <2> QED
    BY <1>2, <2>1, <2>2, CreateFrame, ExistsFrame
<1> QED
  BY <1>1, <1>2 DEF TerminalsSound

-----------------------------------------------------------------------------
(* What a flow knows of the terminal it destroys.                          *)

\* A flow that comes to hide the row with a terminal in hand comes from a
\* destroy that saw it gone, from one that removed it, or from a call on it
\* that said not-found.
LEMMA HideFrame ==
  ASSUME TypeOK, [Next]_vars, NEW f \in Flow, Comes(f, "hide"), flow'[f].id # NoId
  PROVE  flow'[f].id \notin Exists'
<1>1. CASE OpenGoesOn \/ OpenUnauthorized \/ ClearLands
  <2>1. f = "open" /\ OpenNotFound
    BY <1>1, OpenComes
  <2>2. Exists' = Exists /\ flow["open"].id \notin Exists
    BY <2>1 DEF OpenNotFound, Exists, cloud
  <2>3. flow["open"] \in FlowState /\ flow \in [Flow -> FlowState]
    BY OpenIsFlow DEF TypeOK
  <2>4. \A pc \in {"hide", "clear"} : [flow["open"] EXCEPT !.pc = pc].id = flow["open"].id
    BY <2>3 DEF FlowState
  <2> QED
    BY <2>1, <2>2, <2>3, <2>4, CaughtFlow DEF OpenNotFound
<1>2. CASE \E g \in Flow : FlowGoesOn(g) \/ FlowBreaksOff(g)
  BY <1>2, FlowComes
<1>3. CASE \E t \in Teardown : TeardownFinds(t) \/ TeardownFails(t)
  BY <1>3, TeardownComes DEF Found
<1> QED
  BY <1>1, <1>2, <1>3, OthersComeNot DEF Next

LEMMA DestroyStep == TypeOK /\ DestroyConfirmed /\ [Next]_vars => DestroyConfirmed'
<1> SUFFICES ASSUME TypeOK, DestroyConfirmed, [Next]_vars,
                    NEW f \in Flow, At(f, "hide")', flow'[f].id # NoId
             PROVE  flow'[f].id \notin Exists'
  BY DEF DestroyConfirmed
<1>1. CASE flow'[f] = flow[f]
  <2>1. flow[f].id \notin Exists
    BY <1>1 DEF DestroyConfirmed, At
  <2>2. CASE CreateLands
    BY <1>1, <2>1, <2>2 DEF CreateLands, Fresh, Exists
  <2> QED
    BY <1>1, <2>1, <2>2, ExistsFrame
<1> QED
  BY <1>1, HideFrame DEF Comes

-----------------------------------------------------------------------------
(* The invariant and what follows from it.                                 *)

LEMMA InitInv == Init => IInv
<1> SUFFICES ASSUME Init PROVE IInv
  OBVIOUS
<1>1. TypeOK
  BY IdleType, NoSessionType, LifecycleAssumptions DEF Init, TypeOK, Row, Status, MaybeId
<1>2. TerminalsSound /\ DestroyConfirmed
  BY OpenIsFlow DEF Init, TerminalsSound, DestroyConfirmed, Exists, At, Idle
<1> QED
  BY <1>1, <1>2 DEF IInv

\* The inductive invariant holds in every reachable state.
THEOREM Invariance == Spec => []IInv
<1>1. IInv /\ [Next]_vars => IInv'
  BY TypeStep, TerminalsStep, DestroyStep DEF IInv
<1> QED
  BY <1>1, InitInv, PTL DEF Spec

\* Every variable keeps its type, and no terminal is both deployed and not.
THEOREM TypeCorrect == Spec => []TypeOK
<1>1. IInv => TypeOK
  BY DEF IInv
<1> QED
  BY <1>1, Invariance, PTL

\* Lost answers, crashes before the id is stored and overlapping teardowns
\* never lead an open to create a second billable terminal.
THEOREM SingleTerminal == Spec => []OneTerminal
<1>1. IInv => OneTerminal
  <2> SUFFICES ASSUME IInv PROVE Cardinality(Exists) <= 1
    BY DEF OneTerminal
  <2>1. CASE Exists = {}
    BY <2>1, FS_EmptySet
  <2>2. CASE Exists # {}
    <3>1. PICK c \in Exists : Exists = {c}
      BY <2>2 DEF IInv, TerminalsSound
    <3> QED
      BY <3>1, FS_Singleton
  <2> QED
    BY <2>1, <2>2
<1> QED
  BY <1>1, Invariance, PTL

\* A flow that is about to hide the row with a terminal in hand knows that it
\* is gone, whatever calls failed or were lost on the way.
THEOREM HiddenAfterDestroyed == Spec => []DestroyConfirmed
<1>1. IInv => DestroyConfirmed
  BY DEF IInv
<1> QED
  BY <1>1, Invariance, PTL

=============================================================================
