--------------------------- MODULE HostdRunProofs ---------------------------
(***************************************************************************)
(* Theorems about the connection loop, for every set of tokens and of      *)
(* control requests, every backoff range and any number of restarts.       *)
(*                                                                         *)
(* The safety properties of HostdRun are inductive together with the type  *)
(* invariant and one fact about the loop: from the status write at the top *)
(* of a turn until runOnce returns, no error of an earlier turn is left    *)
(* over in "outcome".                                                      *)
(***************************************************************************)
EXTENDS HostdRun, TLAPS

OutcomeFresh ==
    pc \in {"load", "dial", "await", "accepted"} \cup SessionPcs => outcome = "none"

IInv ==
    /\ TypeOK
    /\ OutcomeFresh
    /\ HeartbeatTimerMatches
    /\ OnlyShutdownEndsRun
    /\ SessionShowsNoError
    /\ StatusTellsSession
    /\ TokenChangeNeverForgotten

-----------------------------------------------------------------------------
(* Type correctness *)

USE DEF AnyToken, PairingStates, StateNames, Outcomes, SessionPcs, Pcs

\* The pause stays between its bounds.
LEMMA BackoffBounds ==
  /\ MinBackoff \in MinBackoff .. MaxBackoff
  /\ backoff \in MinBackoff .. MaxBackoff =>
       NextBackoff \in MinBackoff .. MaxBackoff
  BY BackoffAssumption DEF NextBackoff

\* What a process starts with.
LEMMA StartTypes ==
  /\ [name |-> "starting", online |-> FALSE] \in StatusType
  /\ [h \in Handlers |-> "idle"] \in [Handlers -> {"idle", "saved", "stopping"}]
  /\ 0 \in 0 .. MaxRestarts
  /\ restarts \in 0 .. MaxRestarts /\ restarts < MaxRestarts =>
       restarts + 1 \in 0 .. MaxRestarts
<1>1. [name |-> "starting", online |-> FALSE] \in StatusType
  BY DEF StatusType
<1>2. [h \in Handlers |-> "idle"] \in [Handlers -> {"idle", "saved", "stopping"}]
  OBVIOUS
<1>3. 0 \in 0 .. MaxRestarts
  BY RestartAssumption
<1>4. ASSUME restarts \in 0 .. MaxRestarts, restarts < MaxRestarts
      PROVE  restarts + 1 \in 0 .. MaxRestarts
  BY <1>4, RestartAssumption
<1> QED
  BY <1>1, <1>2, <1>3, <1>4

LEMMA TypeInit == Init => TypeOK
<1> SUFFICES ASSUME Init PROVE TypeOK
  OBVIOUS
<1>1. status \in StatusType /\ ctl \in [Handlers -> {"idle", "saved", "stopping"}]
  BY StartTypes DEF Init
<1>2. backoff \in MinBackoff .. MaxBackoff /\ restarts \in 0 .. MaxRestarts
  BY BackoffBounds, StartTypes DEF Init
<1> QED
  BY <1>1, <1>2 DEF Init, TypeOK

\* What a save may leave in the file is a well-formed state.
LEMMA StoreShapes ==
  ASSUME store \in StoreType, NEW p \in PairingStates, NEW t \in AnyToken
  PROVE  /\ Welcomed(p) \in StoreType
         /\ [store EXCEPT !.lastError = TRUE] \in StoreType
         /\ [store EXCEPT !.lastError = TRUE, !.pairing = "pending"] \in StoreType
         /\ Renewed(t) \in StoreType
  BY DEF StoreType, Welcomed, Renewed

LEMMA TypeStep == TypeOK /\ [Next]_vars => TypeOK'
<1> SUFFICES ASSUME TypeOK, [Next]_vars
             PROVE  TypeOK'
  OBVIOUS
<1> USE DEF TypeOK
<1>s. /\ \A p \in PairingStates : Welcomed(p) \in StoreType
      /\ \A t \in AnyToken : Renewed(t) \in StoreType
      /\ [store EXCEPT !.lastError = TRUE] \in StoreType
      /\ [store EXCEPT !.lastError = TRUE, !.pairing = "pending"] \in StoreType
  <2>1. PICK t \in AnyToken : TRUE
    BY DEF AnyToken
  <2>2. "paired" \in PairingStates
    OBVIOUS
  <2> QED
    BY <2>1, <2>2, StoreShapes
<1>o. IOFailure \subseteq Outcomes
  BY DEF IOFailure
<1>st. \A n \in StateNames, b \in BOOLEAN : [name |-> n, online |-> b] \in StatusType
  BY DEF StatusType
<1>1. CASE Connect
  <2> USE <1>s, <1>o, <1>st DEF Return, LeaveWith, Goto, NoteError, TryUpdate,
          SetConnectionState, storeVars, sharedVars, heartbeatVars, procVars
  <2>1. CASE SetConnecting
    BY <2>1 DEF SetConnecting
  <2>2. CASE LoadOk
    BY ZenonT(100), <2>2 DEF LoadOk, StoreType
  <2>3. CASE LoadFails
    BY <2>3 DEF LoadFails
  <2>4. CASE DialOk
    BY <2>4 DEF DialOk
  <2>5. CASE DialFails
    BY <2>5 DEF DialFails
  <2>6. CASE HandshakeBreaks
    BY <2>6 DEF HandshakeBreaks
  <2>7. CASE PairingRequired
    BY <2>7 DEF PairingRequired
  <2>8. CASE ConnectRejected
    BY <2>8 DEF ConnectRejected
  <2>9. CASE HelloSaved
    BY <2>9 DEF HelloSaved
  <2>10. CASE HelloNotSaved
    BY <2>10 DEF HelloNotSaved
  <2>11. CASE SetConnected
    BY ZenonT(100), <2>11 DEF SetConnected
  <2> QED
    BY <1>1, <2>1, <2>2, <2>3, <2>4, <2>5, <2>6, <2>7, <2>8, <2>9, <2>10, <2>11
       DEF Connect
<1>2. CASE Serve
  <2> USE <1>s, <1>o DEF Return, LeaveWith, Goto, NoteError, TryUpdate,
          HeartbeatOff, storeVars, sharedVars, heartbeatVars, procVars, loopVars
  <2>1. CASE ServeCancelled
    BY <2>1 DEF ServeCancelled
  <2>2. CASE ServeReconnect
    BY <2>2 DEF ServeReconnect
  <2>3. CASE Probe
    BY <2>3 DEF Probe
  <2>4. CASE ProbeFails
    BY <2>4 DEF ProbeFails
  <2>5. CASE AckTimeout
    BY <2>5 DEF AckTimeout
  <2>6. CASE ReadFails
    BY <2>6 DEF ReadFails
  <2>7. CASE Frame
    BY ZenonT(100), <2>7 DEF Frame
  <2>8. CASE DispatchDone
    BY <2>8 DEF DispatchDone
  <2> QED
    BY <1>2, <2>1, <2>2, <2>3, <2>4, <2>5, <2>6, <2>7, <2>8 DEF Serve
<1>3. CASE Close
  BY ZenonT(100), <1>3, <1>st, BackoffBounds
     DEF Close, Leave, ReturnCancelled, RetryAtOnce, Retry, Report, Goto,
         SetConnectionState, storeVars, sharedVars, heartbeatVars, procVars
<1>4. CASE Wait
  <2> USE DEF Goto, storeVars, sharedVars, heartbeatVars, procVars
  <2>1. CASE WaitCancelled
    BY <2>1 DEF WaitCancelled
  <2>2. CASE WaitReconnect
    BY <2>2, BackoffBounds DEF WaitReconnect
  <2>3. CASE WaitElapsed
    BY <2>3, BackoffBounds DEF WaitElapsed
  <2> QED
    BY <1>4, <2>1, <2>2, <2>3 DEF Wait
<1>5. ASSUME NEW h \in Handlers, Control(h)
      PROVE  TypeOK'
  <2> USE <1>s, <1>st DEF SetConnectionState, storeVars, loopVars, sharedVars,
          heartbeatVars, procVars
  <2>1. ASSUME NEW t \in AnyToken, SaveToken(h, t) \/ SaveTokenUnsynced(h, t)
        PROVE  TypeOK'
    <3>1. Renewed(t) \in StoreType
      BY <1>s
    <3>2. CASE SaveToken(h, t)
      BY <3>1, <3>2 DEF SaveToken
    <3>3. CASE SaveTokenUnsynced(h, t)
      BY <3>1, <3>3 DEF SaveTokenUnsynced
    <3> QED
      BY <2>1, <3>2, <3>3
  <2>2. CASE SignalSaved(h)
    BY <2>2 DEF SignalSaved
  <2>3. CASE RequestReconnect(h)
    BY <2>3 DEF RequestReconnect
  <2>4. CASE AnnounceStop(h)
    BY ZenonT(100), <2>4 DEF AnnounceStop
  <2>5. CASE CancelRun(h)
    BY <2>5 DEF CancelRun
  <2> QED
    BY <1>5, <2>1, <2>2, <2>3, <2>4, <2>5 DEF Control
<1>6. CASE Interrupt
  BY <1>6 DEF Interrupt, storeVars, loopVars, heartbeatVars, procVars
<1>7. CASE Restart
  <2>1. status' \in StatusType /\ ctl' \in [Handlers -> {"idle", "saved", "stopping"}]
    BY <1>7, StartTypes DEF Restart, SetConnectionState
  <2>2. backoff' \in MinBackoff .. MaxBackoff /\ restarts' \in 0 .. MaxRestarts
    BY <1>7, BackoffBounds, StartTypes DEF Restart
  <2> QED
    BY <1>7, <2>1, <2>2 DEF Restart, HeartbeatOff
<1>8. CASE UNCHANGED vars
  BY <1>8 DEF vars
<1> QED
  BY <1>1, <1>2, <1>3, <1>4, <1>5, <1>6, <1>7, <1>8 DEF Next

\* Every variable keeps its type, for every value of the constants.
THEOREM TypeCorrect == Spec => []TypeOK
  BY TypeInit, TypeStep, PTL DEF Spec

-----------------------------------------------------------------------------
(* The parts of the inductive invariant, one lemma each *)

USE DEF storeVars, loopVars, sharedVars, heartbeatVars, procVars,
        Goto, Return, LeaveWith, SetConnectionState, HeartbeatOff

\* A turn of the loop starts without an outcome and gets one by returning.
LEMMA FreshStep == TypeOK /\ OutcomeFresh /\ [Next]_vars => OutcomeFresh'
<1> SUFFICES ASSUME TypeOK, OutcomeFresh, [Next]_vars
             PROVE  OutcomeFresh'
  OBVIOUS
<1> USE DEF OutcomeFresh
<1>1. CASE Connect
  BY <1>1 DEF Connect, SetConnecting, LoadOk, LoadFails, DialOk, DialFails,
              HandshakeBreaks, PairingRequired, ConnectRejected, HelloSaved,
              HelloNotSaved, SetConnected
<1>2. CASE Serve
  BY <1>2 DEF Serve, ServeCancelled, ServeReconnect, Probe, ProbeFails,
              AckTimeout, ReadFails, Frame, DispatchDone
<1>3. CASE Close
  BY <1>3 DEF Close, Leave, ReturnCancelled, RetryAtOnce, Retry, Report
<1>4. CASE Wait
  BY <1>4 DEF Wait, WaitCancelled, WaitReconnect, WaitElapsed
<1>5. ASSUME NEW h \in Handlers, Control(h)
      PROVE  OutcomeFresh'
  BY <1>5 DEF Control, SaveToken, SaveTokenUnsynced, SignalSaved,
              RequestReconnect, AnnounceStop, CancelRun
<1>6. CASE Interrupt \/ Restart \/ UNCHANGED vars
  BY <1>6 DEF Interrupt, Restart, vars
<1> QED
  BY <1>1, <1>2, <1>3, <1>4, <1>5, <1>6 DEF Next

\* Only the session touches the heartbeat, and it does so in pairs.
LEMMA TimerStep ==
  TypeOK /\ HeartbeatTimerMatches /\ [Next]_vars => HeartbeatTimerMatches'
<1> SUFFICES ASSUME TypeOK, HeartbeatTimerMatches, [Next]_vars
             PROVE  HeartbeatTimerMatches'
  OBVIOUS
<1> USE DEF HeartbeatTimerMatches
<1>1. CASE Connect
  BY <1>1 DEF Connect, SetConnecting, LoadOk, LoadFails, DialOk, DialFails,
              HandshakeBreaks, PairingRequired, ConnectRejected, HelloSaved,
              HelloNotSaved, SetConnected
<1>2. CASE Serve
  <2>1. CASE Frame
    BY <2>1 DEF Frame, TypeOK
  <2>2. CASE DispatchDone \/ Probe
    BY <2>2 DEF DispatchDone, Probe, TypeOK
  <2>3. CASE ServeCancelled \/ ServeReconnect \/ ProbeFails \/ AckTimeout \/ ReadFails
    BY <2>3 DEF ServeCancelled, ServeReconnect, ProbeFails, AckTimeout, ReadFails
  <2> QED
    BY <1>2, <2>1, <2>2, <2>3 DEF Serve
<1>3. CASE Close
  BY <1>3 DEF Close, Leave, ReturnCancelled, RetryAtOnce, Retry, Report
<1>4. CASE Wait
  BY <1>4 DEF Wait, WaitCancelled, WaitReconnect, WaitElapsed
<1>5. ASSUME NEW h \in Handlers, Control(h)
      PROVE  HeartbeatTimerMatches'
  BY <1>5 DEF Control, SaveToken, SaveTokenUnsynced, SignalSaved,
              RequestReconnect, AnnounceStop, CancelRun
<1>6. CASE Interrupt \/ Restart \/ UNCHANGED vars
  BY <1>6 DEF Interrupt, Restart, vars
<1> QED
  BY <1>1, <1>2, <1>3, <1>4, <1>5, <1>6 DEF Next

\* The context's own error is returned only when the context is done, and
\* nothing but a new process makes it undone.
LEMMA ShutdownStep ==
  TypeOK /\ OutcomeFresh /\ OnlyShutdownEndsRun /\ [Next]_vars
    => OnlyShutdownEndsRun'
<1> SUFFICES ASSUME TypeOK, OutcomeFresh, OnlyShutdownEndsRun, [Next]_vars
             PROVE  OnlyShutdownEndsRun'
  OBVIOUS
<1> USE DEF OnlyShutdownEndsRun
<1>f. \A o \in IOFailure : o = "canceled" => cancelled
  BY DEF IOFailure
<1>1. CASE Connect
  BY <1>1, <1>f DEF Connect, SetConnecting, LoadOk, LoadFails, DialOk, DialFails,
              HandshakeBreaks, PairingRequired, ConnectRejected, HelloSaved,
              HelloNotSaved, SetConnected
<1>2. CASE Serve
  BY <1>2, <1>f DEF Serve, ServeCancelled, ServeReconnect, Probe, ProbeFails,
              AckTimeout, ReadFails, Frame, DispatchDone
<1>3. CASE Close
  BY <1>3 DEF Close, Leave, ReturnCancelled, RetryAtOnce, Retry, Report
<1>4. CASE Wait
  BY <1>4 DEF Wait, WaitCancelled, WaitReconnect, WaitElapsed
<1>5. ASSUME NEW h \in Handlers, Control(h)
      PROVE  OnlyShutdownEndsRun'
  BY <1>5 DEF Control, SaveToken, SaveTokenUnsynced, SignalSaved,
              RequestReconnect, AnnounceStop, CancelRun
<1>6. CASE Interrupt \/ Restart \/ UNCHANGED vars
  BY <1>6 DEF Interrupt, Restart, vars
<1> QED
  BY <1>1, <1>2, <1>3, <1>4, <1>5, <1>6 DEF Next

\* A hello clears the error; a step that notes one leaves the session.
LEMMA NoErrorStep ==
  TypeOK /\ SessionShowsNoError /\ [Next]_vars => SessionShowsNoError'
<1> SUFFICES ASSUME TypeOK, SessionShowsNoError, [Next]_vars
             PROVE  SessionShowsNoError'
  OBVIOUS
<1> USE DEF SessionShowsNoError
<1>1. CASE Connect
  <2>1. CASE HelloSaved
    <3>1. \A p \in PairingStates : Welcomed(p).lastError = FALSE
      BY DEF Welcomed, TypeOK, StoreType
    <3> QED
      BY <2>1, <3>1 DEF HelloSaved
  <2>2. CASE ~HelloSaved
    BY <1>1, <2>2 DEF Connect, SetConnecting, LoadOk, LoadFails, DialOk, DialFails,
              HandshakeBreaks, PairingRequired, ConnectRejected,
              HelloNotSaved, SetConnected
  <2> QED
    BY <2>1, <2>2
<1>2. CASE Serve
  BY <1>2 DEF Serve, ServeCancelled, ServeReconnect, Probe, ProbeFails,
              AckTimeout, ReadFails, Frame, DispatchDone
<1>3. CASE Close
  BY <1>3 DEF Close, Leave, ReturnCancelled, RetryAtOnce, Retry, Report
<1>4. CASE Wait
  BY <1>4 DEF Wait, WaitCancelled, WaitReconnect, WaitElapsed
<1>5. ASSUME NEW h \in Handlers, Control(h)
      PROVE  SessionShowsNoError'
  <2>1. \A t \in AnyToken : Renewed(t).lastError = FALSE
    BY DEF Renewed
  <2> QED
    BY <1>5, <2>1 DEF Control, SaveToken, SaveTokenUnsynced, SignalSaved,
                      RequestReconnect, AnnounceStop, CancelRun
<1>6. CASE Interrupt \/ Restart \/ UNCHANGED vars
  BY <1>6 DEF Interrupt, Restart, vars
<1> QED
  BY <1>1, <1>2, <1>3, <1>4, <1>5, <1>6 DEF Next

\* A handler that has still to cancel keeps the right to have overwritten the
\* status; the loop itself never reports "online" outside a session.
LEMMA StatusStep ==
  TypeOK /\ OutcomeFresh /\ StatusTellsSession /\ [Next]_vars => StatusTellsSession'
<1> SUFFICES ASSUME TypeOK, OutcomeFresh, StatusTellsSession, [Next]_vars
             PROVE  StatusTellsSession'
  OBVIOUS
<1> USE DEF StatusTellsSession, StopAsked, Someone
<1>1. CASE Connect
  BY <1>1 DEF Connect, SetConnecting, LoadOk, LoadFails, DialOk, DialFails,
              HandshakeBreaks, PairingRequired, ConnectRejected, HelloSaved,
              HelloNotSaved, SetConnected
<1>2. CASE Serve
  BY <1>2 DEF Serve, ServeCancelled, ServeReconnect, Probe, ProbeFails,
              AckTimeout, ReadFails, Frame, DispatchDone
<1>3. CASE Close
  BY <1>3 DEF Close, Leave, ReturnCancelled, RetryAtOnce, Retry, Report
<1>4. CASE Wait
  BY <1>4 DEF Wait, WaitCancelled, WaitReconnect, WaitElapsed
<1>5. ASSUME NEW h \in Handlers, Control(h)
      PROVE  StatusTellsSession'
  <2>1. \A g \in Handlers : g # h => ctl'[g] = ctl[g]
    BY <1>5 DEF Control, SaveToken, SaveTokenUnsynced, SignalSaved,
                RequestReconnect, AnnounceStop, CancelRun, TypeOK
  <2>2. CASE AnnounceStop(h)
    <3>1. ctl'[h] = "stopping"
      BY <2>2 DEF AnnounceStop, TypeOK
    <3> QED
      BY <2>2, <3>1 DEF AnnounceStop
  <2>3. CASE CancelRun(h)
    BY <2>3 DEF CancelRun
  <2>4. CASE ~AnnounceStop(h) /\ ~CancelRun(h)
    <3>1. UNCHANGED <<pc, status, outcome, cancelled>>
      BY <1>5, <2>4 DEF Control, SaveToken, SaveTokenUnsynced, SignalSaved,
                        RequestReconnect
    <3>2. ctl[h] # "stopping"
      BY <1>5, <2>4 DEF Control, SaveToken, SaveTokenUnsynced, SignalSaved,
                        RequestReconnect
    <3>3. Someone("stopping") => Someone("stopping")'
      BY <2>1, <3>2
    <3> QED
      BY <3>1, <3>3
  <2> QED
    BY <2>2, <2>3, <2>4
<1>6. CASE Interrupt
  BY <1>6 DEF Interrupt
<1>7. CASE Restart \/ UNCHANGED vars
  BY <1>7 DEF Restart, vars
<1> QED
  BY <1>1, <1>2, <1>3, <1>4, <1>5, <1>6, <1>7 DEF Next

\* A save hands the debt to its handler, the handler to the channel, and the
\* loop to its next read of the file.
LEMMA TokenStep ==
  TypeOK /\ OutcomeFresh /\ TokenChangeNeverForgotten /\ [Next]_vars
    => TokenChangeNeverForgotten'
<1> SUFFICES ASSUME TypeOK, OutcomeFresh, TokenChangeNeverForgotten, [Next]_vars
             PROVE  TokenChangeNeverForgotten'
  OBVIOUS
<1> USE DEF TokenChangeNeverForgotten, ReloadOwed, Reloading, Someone
<1>t. /\ \A p \in PairingStates : Welcomed(p).token = store.token
      /\ [store EXCEPT !.lastError = TRUE].token = store.token
      /\ [store EXCEPT !.lastError = TRUE, !.pairing = "pending"].token = store.token
  BY DEF Welcomed, TypeOK, StoreType
<1>1. CASE Connect
  BY <1>1, <1>t DEF Connect, SetConnecting, LoadOk, LoadFails, DialOk, DialFails,
              HandshakeBreaks, PairingRequired, ConnectRejected, HelloSaved,
              HelloNotSaved, SetConnected, TryUpdate, NoteError, OutcomeFresh
<1>2. CASE Serve
  BY <1>2, <1>t DEF Serve, ServeCancelled, ServeReconnect, Probe, ProbeFails,
              AckTimeout, ReadFails, Frame, DispatchDone, TryUpdate, NoteError,
              OutcomeFresh
<1>3. CASE Close
  BY <1>3 DEF Close, Leave, ReturnCancelled, RetryAtOnce, Retry, Report
<1>4. CASE Wait
  BY <1>4 DEF Wait, WaitCancelled, WaitReconnect, WaitElapsed
<1>5. ASSUME NEW h \in Handlers, Control(h)
      PROVE  TokenChangeNeverForgotten'
  <2>1. \A g \in Handlers : g # h => ctl'[g] = ctl[g]
    BY <1>5 DEF Control, SaveToken, SaveTokenUnsynced, SignalSaved,
                RequestReconnect, AnnounceStop, CancelRun, TypeOK
  <2>2. ASSUME NEW t \in AnyToken, SaveToken(h, t) \/ SaveTokenUnsynced(h, t)
        PROVE  ReloadOwed'
    <3>1. SaveToken(h, t) => ctl'[h] = "saved"
      BY DEF SaveToken, TypeOK
    <3> QED
      BY <2>2, <3>1 DEF SaveTokenUnsynced
  <2>3. CASE SignalSaved(h) \/ RequestReconnect(h)
    BY <2>3 DEF SignalSaved, RequestReconnect
  <2>4. CASE AnnounceStop(h) \/ CancelRun(h)
    <3>1. UNCHANGED <<store, used, pc, outcome, reconnectCh, silent>>
      BY <2>4 DEF AnnounceStop, CancelRun
    <3>2. Someone("saved") => Someone("saved")'
      <4>1. ctl[h] # "saved"
        BY <2>4 DEF AnnounceStop, CancelRun
      <4> QED
        BY <4>1, <2>1
    <3> QED
      BY <3>1, <3>2
  <2> QED
    BY <1>5, <2>2, <2>3, <2>4 DEF Control
<1>6. CASE Interrupt
  BY <1>6 DEF Interrupt
<1>7. CASE Restart \/ UNCHANGED vars
  BY <1>7 DEF Restart, vars
<1> QED
  BY <1>1, <1>2, <1>3, <1>4, <1>5, <1>6, <1>7 DEF Next

-----------------------------------------------------------------------------
(* The inductive invariant and what follows from it *)

LEMMA InvInit == Init => IInv
<1> SUFFICES ASSUME Init PROVE IInv
  OBVIOUS
<1>1. TypeOK
  BY TypeInit
<1>2. OutcomeFresh /\ HeartbeatTimerMatches /\ OnlyShutdownEndsRun
  BY DEF Init, OutcomeFresh, HeartbeatTimerMatches, OnlyShutdownEndsRun
<1>3. SessionShowsNoError /\ StatusTellsSession
  BY DEF Init, SessionShowsNoError, StatusTellsSession
<1>4. TokenChangeNeverForgotten
  BY DEF Init, TokenChangeNeverForgotten, ReloadOwed, Reloading
<1> QED
  BY <1>1, <1>2, <1>3, <1>4 DEF IInv

LEMMA InvStep == IInv /\ [Next]_vars => IInv'
  BY TypeStep, FreshStep, TimerStep, ShutdownStep, NoErrorStep, StatusStep,
     TokenStep DEF IInv

\* The safety properties hold together in every reachable state.
THEOREM Invariance == Spec => []IInv
  BY InvInit, InvStep, PTL DEF Spec

\* A heartbeat is unanswered exactly while its timer runs, in a session only.
THEOREM HeartbeatTimer == Spec => []HeartbeatTimerMatches
<1>1. IInv => HeartbeatTimerMatches
  BY DEF IInv
<1> QED
  BY Invariance, <1>1, PTL

\* Run returns only after a shutdown was asked for.
THEOREM ShutdownOnly == Spec => []OnlyShutdownEndsRun
<1>1. IInv => OnlyShutdownEndsRun
  BY DEF IInv
<1> QED
  BY Invariance, <1>1, PTL

\* The state file notes no error while a session is being served.
THEOREM NoErrorInSession == Spec => []SessionShowsNoError
<1>1. IInv => SessionShowsNoError
  BY DEF IInv
<1> QED
  BY Invariance, <1>1, PTL

\* "Online" is reported in a session, and a session is reported as "online".
THEOREM StatusTruthful == Spec => []StatusTellsSession
<1>1. IInv => StatusTellsSession
  BY DEF IInv
<1> QED
  BY Invariance, <1>1, PTL

\* No change of the token is lost between the handlers and the loop.
THEOREM TokenNeverForgotten == Spec => []TokenChangeNeverForgotten
<1>1. IInv => TokenChangeNeverForgotten
  BY DEF IInv
<1> QED
  BY Invariance, <1>1, PTL

-----------------------------------------------------------------------------
(* Refinement: the loop and its handlers implement TokenHandoff *)

\* The token and its copy change in three ways only.
LEMMA TokenSteps ==
  ASSUME TypeOK, [Next]_vars
  PROVE  \/ store'.token = store.token /\ used' = used
         \/ used' = used /\ ReloadOwed'
         \/ store'.token = store.token /\ used' = store.token
         \/ store'.token = store.token /\ used' = NoToken /\ ReloadOwed'
<1>t. /\ \A p \in PairingStates : Welcomed(p).token = store.token
      /\ [store EXCEPT !.lastError = TRUE].token = store.token
      /\ [store EXCEPT !.lastError = TRUE, !.pairing = "pending"].token = store.token
  BY DEF Welcomed, TypeOK, StoreType
<1>1. CASE Connect
  BY <1>1, <1>t DEF Connect, SetConnecting, LoadOk, LoadFails, DialOk, DialFails,
              HandshakeBreaks, PairingRequired, ConnectRejected, HelloSaved,
              HelloNotSaved, SetConnected, TryUpdate, NoteError
<1>2. CASE Serve
  BY <1>2, <1>t DEF Serve, ServeCancelled, ServeReconnect, Probe, ProbeFails,
              AckTimeout, ReadFails, Frame, DispatchDone, TryUpdate, NoteError
<1>3. CASE Close \/ Wait
  BY <1>3 DEF Close, Leave, ReturnCancelled, RetryAtOnce, Retry, Report,
              Wait, WaitCancelled, WaitReconnect, WaitElapsed
<1>4. ASSUME NEW h \in Handlers, Control(h)
      PROVE  used' = used /\ (store'.token = store.token \/ ReloadOwed')
  <2>1. ASSUME NEW t \in AnyToken, SaveToken(h, t) \/ SaveTokenUnsynced(h, t)
        PROVE  used' = used /\ ReloadOwed'
    <3>1. SaveToken(h, t) => ctl'[h] = "saved"
      BY DEF SaveToken, TypeOK
    <3> QED
      BY <2>1, <3>1 DEF SaveToken, SaveTokenUnsynced, ReloadOwed, Someone
  <2>2. CASE SignalSaved(h) \/ RequestReconnect(h) \/ AnnounceStop(h) \/ CancelRun(h)
    BY <2>2 DEF SignalSaved, RequestReconnect, AnnounceStop, CancelRun
  <2> QED
    BY <1>4, <2>1, <2>2 DEF Control
<1>5. CASE Interrupt \/ UNCHANGED vars
  BY <1>5 DEF Interrupt, vars
<1>6. CASE Restart
  BY <1>6 DEF Restart, ReloadOwed, Reloading
<1> QED
  BY <1>1, <1>2, <1>3, <1>4, <1>5, <1>6 DEF Next

LEMMA HandoffInit == Init => Handoff!Init
  BY DEF Init, StoreType, ReloadOwed, Reloading, Handoff!Init, Handoff!AnyToken

\* A step that drops the debt leaves the token in use (TokenChangeNeverForgotten
\* afterwards), so it is an Adopt; one that raises it is an Owe or a Change.
LEMMA HandoffStep == IInv /\ IInv' /\ [Next]_vars => [Handoff!Next]_(Handoff!vars)
<1> SUFFICES ASSUME IInv, IInv', [Next]_vars
             PROVE  Handoff!Next \/ UNCHANGED Handoff!vars
  BY DEF Handoff!vars
<1> DEFINE owed == ReloadOwed
<1>1. store'.token \in AnyToken /\ store.token \in AnyToken
  BY DEF IInv, TypeOK, StoreType
<1>2. owed \in BOOLEAN /\ owed' \in BOOLEAN
  BY DEF IInv, TypeOK, ReloadOwed, Reloading, Someone
<1>3. ~owed' => used' = store'.token
  BY DEF IInv, TokenChangeNeverForgotten
<1>4. CASE store'.token = store.token /\ used' = used
  <2>1. CASE owed'
    BY <1>4, <2>1, <1>2 DEF Handoff!Next, Handoff!Owe
  <2>2. CASE ~owed'
    BY <1>4, <2>2, <1>2, <1>3 DEF Handoff!Next, Handoff!Adopt
  <2> QED
    BY <2>1, <2>2
<1>5. CASE used' = used /\ owed'
  BY <1>5, <1>1, <1>2 DEF Handoff!Next, Handoff!Change, Handoff!AnyToken
<1>6. CASE store'.token = store.token /\ used' = store.token
  BY <1>6, <1>2 DEF Handoff!Next, Handoff!Adopt
<1>7. CASE store'.token = store.token /\ used' = NoToken /\ owed'
  BY <1>7, <1>2 DEF Handoff!Next, Handoff!Restart
<1>8. TypeOK
  BY DEF IInv
<1> QED
  BY <1>4, <1>5, <1>6, <1>7, <1>8, TokenSteps

\* The daemon implements the handoff of the token.
THEOREM RefinesHandoff == Spec => ImplementsHandoff
<1>1. IInv /\ IInv' /\ [Next]_vars => [Handoff!Next]_(Handoff!vars)
  BY HandoffStep
<1> QED
  BY HandoffInit, <1>1, Invariance, PTL DEF Spec, ImplementsHandoff, Handoff!Spec
=============================================================================
