------------------------------ MODULE HostdRun ------------------------------
(***************************************************************************)
(* The connection loop of the host daemon (package hostdrun): the goroutine *)
(* of Runner.Run, the handlers of the control server that run beside it,   *)
(* the state file they share, the gateway's answers and the heartbeat.     *)
(*                                                                         *)
(* A step of the loop makes at most one access to what it shares with the  *)
(* handlers: the state file (one Store.Update, atomic within the process), *)
(* the status pair behind statusMu, the channel reconnectCh, the context.  *)
(***************************************************************************)
EXTENDS Naturals

CONSTANTS Tokens,       \* the runtime tokens a gateway may issue
          NoToken,      \* the empty token
          Handlers,     \* concurrent requests of the control server
          MinBackoff,   \* first pause between two attempts, in seconds (1)
          MaxBackoff,   \* longest pause, in seconds (30)
          MaxRestarts   \* bound: starts of the process after the first

ASSUME TokenAssumption == NoToken \notin Tokens

ASSUME BackoffAssumption ==
    /\ MinBackoff \in Nat
    /\ MaxBackoff \in Nat
    /\ 1 <= MinBackoff
    /\ MinBackoff <= MaxBackoff

ASSUME RestartAssumption == MaxRestarts \in Nat

VARIABLES
    store,         \* the state file: token, pairing state, is an error noted
    pc,            \* where Run and runOnce stand
    used,          \* the token runOnce read for this connection
    outcome,       \* the kind of error runOnce returns
    status,        \* stateName and online, what status queries report
    reconnectCh,   \* the channel of capacity 1 holds a request
    cancelled,     \* runCtx is done
    backoff,       \* the next pause
    awaitingPong,  \* a heartbeat is unanswered
    pongTimer,     \* the timer that limits the wait for an answer
    ctl,           \* what each control request has still to do
    silent,        \* a change reached the file though its save reported an
                   \* error, and the loop has not read the file since
    restarts       \* starts of the process so far

storeVars     == <<store, silent>>
loopVars      == <<pc, used, outcome, backoff>>
heartbeatVars == <<awaitingPong, pongTimer>>
sharedVars    == <<status, reconnectCh, cancelled>>
procVars      == <<ctl, restarts>>

vars == <<store, pc, used, outcome, status, reconnectCh, cancelled, backoff,
          awaitingPong, pongTimer, ctl, silent, restarts>>

-----------------------------------------------------------------------------
(* Types *)

AnyToken      == Tokens \cup {NoToken}
PairingStates == {"unpaired", "pending", "paired", "revoked"}
StateNames    == {"starting", "connecting", "connected", "backoff",
                  "waiting_for_pairing", "stopping"}
Outcomes      == {"none", "unread", "error", "pairing", "reconnect",
                  "canceled"}
SessionPcs    == {"serve", "dispatch"}
Pcs           == {"top", "load", "dial", "await", "accepted", "leave",
                  "classify", "report", "wait", "done"} \cup SessionPcs

StoreType  == [token: AnyToken, pairing: PairingStates, lastError: BOOLEAN]
StatusType == [name: StateNames, online: BOOLEAN]

TypeOK ==
    /\ store \in StoreType
    /\ pc \in Pcs
    /\ used \in AnyToken
    /\ outcome \in Outcomes
    /\ status \in StatusType
    /\ reconnectCh \in BOOLEAN
    /\ cancelled \in BOOLEAN
    /\ backoff \in MinBackoff .. MaxBackoff
    /\ awaitingPong \in BOOLEAN
    /\ pongTimer \in {"stopped", "armed"}
    /\ ctl \in [Handlers -> {"idle", "saved", "stopping"}]
    /\ silent \in BOOLEAN
    /\ restarts \in 0 .. MaxRestarts

-----------------------------------------------------------------------------
(* A process that starts: New, then Run up to the first turn of its loop.  *)

Init ==
    /\ store \in StoreType
    /\ pc = "top"
    /\ used = NoToken
    /\ outcome = "none"
    /\ status = [name |-> "starting", online |-> FALSE]
    /\ reconnectCh = FALSE
    /\ cancelled = FALSE
    /\ backoff = MinBackoff
    /\ awaitingPong = FALSE
    /\ pongTimer = "stopped"
    /\ ctl = [h \in Handlers |-> "idle"]
    /\ silent = FALSE
    /\ restarts = 0

-----------------------------------------------------------------------------
(* Pieces the actions are built from *)

SetConnectionState(name, online) == status' = [name |-> name, online |-> online]

Goto(l) ==
    /\ pc' = l
    /\ UNCHANGED <<used, outcome, backoff>>

\* runOnce returns at once, its status untouched.
Return(o) ==
    /\ pc' = "classify"
    /\ outcome' = o
    /\ UNCHANGED <<used, backoff>>

\* runOnce has a status to write before it returns.
LeaveWith(o) ==
    /\ pc' = "leave"
    /\ outcome' = o
    /\ UNCHANGED <<used, backoff>>

\* Variant: the error of a deadline or a closed peer is taken for cancellation.
AnyFailureCancels == {"error", "canceled"}

\* What a failing read, write or dial returns: the context's own error only
\* when the context is done.
IOFailure == {"error"} \cup (IF cancelled THEN {"canceled"} ELSE {})

\* An Update whose error the caller drops: the file may stay as it was.
TryUpdate(s) == store' \in {store, s}

NoteError == TryUpdate([store EXCEPT !.lastError = TRUE])

\* Variant: the doubled pause is not capped.
UncappedBackoff == IF backoff < MaxBackoff THEN 2 * backoff ELSE backoff

NextBackoff == IF 2 * backoff > MaxBackoff THEN MaxBackoff ELSE 2 * backoff

\* The session's timers and flags are locals of runOnce.
HeartbeatOff ==
    /\ awaitingPong' = FALSE
    /\ pongTimer' = "stopped"

-----------------------------------------------------------------------------
(* Opening a connection *)

SetConnecting ==
    /\ pc = "top"
    /\ SetConnectionState("connecting", FALSE)
    /\ pc' = "load"
    /\ outcome' = "none"
    /\ UNCHANGED <<storeVars, used, backoff, reconnectCh, cancelled,
                   heartbeatVars, procVars>>

LoadOk ==
    /\ pc = "load"
    /\ used' = store.token
    /\ silent' = FALSE
    /\ pc' = "dial"
    /\ UNCHANGED <<store, outcome, backoff, sharedVars, heartbeatVars,
                   procVars>>

LoadFails ==
    /\ pc = "load"
    /\ Return("unread")
    /\ UNCHANGED <<storeVars, sharedVars, heartbeatVars, procVars>>

\* The connection stands and the connect request, with its token, is on the way.
DialOk ==
    /\ pc = "dial"
    /\ Goto("await")
    /\ UNCHANGED <<storeVars, sharedVars, heartbeatVars, procVars>>

DialFails ==
    /\ pc = "dial"
    /\ NoteError
    /\ \E o \in IOFailure : LeaveWith(o)
    /\ UNCHANGED <<silent, sharedVars, heartbeatVars, procVars>>

\* The request cannot be written, no answer can be read, or it is no hello.
HandshakeBreaks ==
    /\ pc = "await"
    /\ \E o \in IOFailure : Return(o)
    /\ UNCHANGED <<storeVars, sharedVars, heartbeatVars, procVars>>

PairingRequired ==
    /\ pc = "await"
    /\ TryUpdate([store EXCEPT !.lastError = TRUE, !.pairing = "pending"])
    /\ Return("pairing")
    /\ UNCHANGED <<silent, sharedVars, heartbeatVars, procVars>>

ConnectRejected ==
    /\ pc = "await"
    /\ NoteError
    /\ LeaveWith("error")
    /\ UNCHANGED <<silent, sharedVars, heartbeatVars, procVars>>

\* Variant: the hello does not clear the last error.
KeptError(p) == [store EXCEPT !.pairing = p]

Welcomed(p) == [store EXCEPT !.pairing = p, !.lastError = FALSE]

HelloSaved ==
    /\ pc = "await"
    /\ \E p \in PairingStates : store' = Welcomed(p)
    /\ Goto("accepted")
    /\ UNCHANGED <<silent, sharedVars, heartbeatVars, procVars>>

HelloNotSaved ==
    /\ pc = "await"
    /\ \E p \in PairingStates : TryUpdate(Welcomed(p))
    /\ Return("error")
    /\ UNCHANGED <<silent, sharedVars, heartbeatVars, procVars>>

SetConnected ==
    /\ pc = "accepted"
    /\ SetConnectionState("connected", TRUE)
    /\ Goto("serve")
    /\ UNCHANGED <<storeVars, reconnectCh, cancelled, heartbeatVars, procVars>>

-----------------------------------------------------------------------------
(* The session: one action per branch of runOnce's select *)

\* Variant: the branch of the context goes round the loop again.
IgnoredCancel ==
    /\ pc = "serve"
    /\ cancelled
    /\ UNCHANGED vars

ServeCancelled ==
    /\ pc = "serve"
    /\ cancelled
    /\ Return("canceled")
    /\ HeartbeatOff
    /\ UNCHANGED <<storeVars, sharedVars, procVars>>

\* Variant: the request is drained but the session goes on.
DrainedRequest ==
    /\ pc = "serve"
    /\ reconnectCh
    /\ reconnectCh' = FALSE
    /\ UNCHANGED <<storeVars, loopVars, heartbeatVars, status, cancelled,
                   procVars>>

ServeReconnect ==
    /\ pc = "serve"
    /\ reconnectCh
    /\ reconnectCh' = FALSE
    /\ LeaveWith("reconnect")
    /\ HeartbeatOff
    /\ UNCHANGED <<storeVars, status, cancelled, procVars>>

\* Variant: the timer is not reset with the heartbeat.
UntimedProbe ==
    /\ pc = "serve"
    /\ ~awaitingPong
    /\ awaitingPong' = TRUE
    /\ UNCHANGED <<storeVars, loopVars, pongTimer, sharedVars, procVars>>

Probe ==
    /\ pc = "serve"
    /\ ~awaitingPong
    /\ awaitingPong' = TRUE
    /\ pongTimer' = "armed"
    /\ UNCHANGED <<storeVars, loopVars, sharedVars, procVars>>

ProbeFails ==
    /\ pc = "serve"
    /\ ~awaitingPong
    /\ NoteError
    /\ \E o \in IOFailure : LeaveWith(o)
    /\ HeartbeatOff
    /\ UNCHANGED <<silent, sharedVars, procVars>>

AckTimeout ==
    /\ pc = "serve"
    /\ pongTimer = "armed"
    /\ awaitingPong
    /\ NoteError
    /\ LeaveWith("error")
    /\ HeartbeatOff
    /\ UNCHANGED <<silent, sharedVars, procVars>>

ReadFails ==
    /\ pc = "serve"
    /\ NoteError
    /\ \E o \in IOFailure : LeaveWith(o)
    /\ HeartbeatOff
    /\ UNCHANGED <<silent, sharedVars, procVars>>

\* Variant: the answer does not stop the timer.
RunningTimer ==
    /\ pc = "serve"
    /\ awaitingPong' = FALSE
    /\ pc' \in {"serve", "dispatch"}
    /\ UNCHANGED <<storeVars, used, outcome, backoff, pongTimer, sharedVars,
                   procVars>>

\* Any frame counts as the answer to the heartbeat; a request is then
\* executed in the loop itself, an event is dropped.
Frame ==
    /\ pc = "serve"
    /\ awaitingPong' = FALSE
    /\ pongTimer' = IF awaitingPong THEN "stopped" ELSE pongTimer
    /\ pc' \in {"serve", "dispatch"}
    /\ UNCHANGED <<storeVars, used, outcome, backoff, sharedVars, procVars>>

DispatchDone ==
    /\ pc = "dispatch"
    /\ Goto("serve")
    /\ UNCHANGED <<storeVars, sharedVars, heartbeatVars, procVars>>

\* Variant: only a failure is reported.
QuietLeave ==
    /\ pc = "leave"
    /\ IF outcome = "reconnect" THEN UNCHANGED status
                                ELSE SetConnectionState("backoff", FALSE)
    /\ Goto("classify")
    /\ UNCHANGED <<storeVars, reconnectCh, cancelled, heartbeatVars, procVars>>

Leave ==
    /\ pc = "leave"
    /\ SetConnectionState(IF outcome = "reconnect" THEN "connecting" ELSE "backoff",
                          FALSE)
    /\ Goto("classify")
    /\ UNCHANGED <<storeVars, reconnectCh, cancelled, heartbeatVars, procVars>>

-----------------------------------------------------------------------------
(* What Run makes of runOnce's error, and its pause *)

ReturnCancelled ==
    /\ pc = "classify"
    /\ outcome = "canceled" \/ cancelled
    /\ Goto("done")
    /\ UNCHANGED <<storeVars, sharedVars, heartbeatVars, procVars>>

RetryAtOnce ==
    /\ pc = "classify"
    /\ outcome = "reconnect"
    /\ ~cancelled
    /\ backoff' = MinBackoff
    /\ pc' = "top"
    /\ UNCHANGED <<storeVars, used, outcome, sharedVars, heartbeatVars,
                   procVars>>

\* Variant: the loop ends when the gateway wants a pairing first.
GivesUpUnpaired ==
    /\ pc = "classify"
    /\ outcome \in {"unread", "error", "pairing"}
    /\ ~cancelled
    /\ pc' = IF outcome = "pairing" THEN "done" ELSE "report"
    /\ UNCHANGED <<storeVars, used, outcome, backoff, sharedVars,
                   heartbeatVars, procVars>>

Retry ==
    /\ pc = "classify"
    /\ outcome \in {"unread", "error", "pairing"}
    /\ ~cancelled
    /\ Goto("report")
    /\ UNCHANGED <<storeVars, sharedVars, heartbeatVars, procVars>>

Report ==
    /\ pc = "report"
    /\ SetConnectionState(IF outcome = "pairing" THEN "waiting_for_pairing"
                                                 ELSE "backoff", FALSE)
    /\ Goto("wait")
    /\ UNCHANGED <<storeVars, reconnectCh, cancelled, heartbeatVars, procVars>>

WaitCancelled ==
    /\ pc = "wait"
    /\ cancelled
    /\ Goto("done")
    /\ UNCHANGED <<storeVars, sharedVars, heartbeatVars, procVars>>

\* Variant: the request only shortens the next pause.
DrainedPause ==
    /\ pc = "wait"
    /\ reconnectCh
    /\ reconnectCh' = FALSE
    /\ backoff' = MinBackoff
    /\ UNCHANGED <<storeVars, pc, used, outcome, status, cancelled,
                   heartbeatVars, procVars>>

WaitReconnect ==
    /\ pc = "wait"
    /\ reconnectCh
    /\ reconnectCh' = FALSE
    /\ backoff' = MinBackoff
    /\ pc' = "top"
    /\ UNCHANGED <<storeVars, used, outcome, status, cancelled, heartbeatVars,
                   procVars>>

WaitElapsed ==
    /\ pc = "wait"
    /\ backoff' = NextBackoff
    /\ pc' = "top"
    /\ UNCHANGED <<storeVars, used, outcome, sharedVars, heartbeatVars,
                   procVars>>

-----------------------------------------------------------------------------
(* The handlers of the control server, and the signals of the process *)

Renewed(t) ==
    [token |-> t, lastError |-> FALSE,
     pairing |-> IF t = NoToken THEN "unpaired" ELSE "paired"]

\* Variant: the handler forgets to request the reconnect.
UnsignalledSave(h, t) ==
    /\ ctl[h] = "idle"
    /\ store' = Renewed(t)
    /\ UNCHANGED <<loopVars, heartbeatVars, sharedVars, procVars, silent>>

\* setRuntimeToken and clearRuntimeToken: the save, then the request.
SaveToken(h, t) ==
    /\ ctl[h] = "idle"
    /\ store' = Renewed(t)
    /\ ctl' = [ctl EXCEPT ![h] = "saved"]
    /\ UNCHANGED <<loopVars, heartbeatVars, sharedVars, silent, restarts>>

\* The file is replaced but the sync of its directory fails: the handler
\* answers with the error and requests nothing.
SaveTokenUnsynced(h, t) ==
    /\ ctl[h] = "idle"
    /\ store' = Renewed(t)
    /\ silent' = TRUE
    /\ UNCHANGED <<loopVars, heartbeatVars, sharedVars, procVars>>

SignalSaved(h) ==
    /\ ctl[h] = "saved"
    /\ reconnectCh' = TRUE
    /\ ctl' = [ctl EXCEPT ![h] = "idle"]
    /\ UNCHANGED <<storeVars, loopVars, heartbeatVars, status, cancelled,
                   restarts>>

\* requestReconnect on its own: a full channel drops the request.
RequestReconnect(h) ==
    /\ ctl[h] = "idle"
    /\ reconnectCh' = TRUE
    /\ UNCHANGED <<storeVars, loopVars, heartbeatVars, status, cancelled,
                   procVars>>

AnnounceStop(h) ==
    /\ ctl[h] = "idle"
    /\ SetConnectionState("stopping", FALSE)
    /\ ctl' = [ctl EXCEPT ![h] = "stopping"]
    /\ UNCHANGED <<storeVars, loopVars, heartbeatVars, reconnectCh, cancelled,
                   restarts>>

CancelRun(h) ==
    /\ ctl[h] = "stopping"
    /\ cancelled' = TRUE
    /\ ctl' = [ctl EXCEPT ![h] = "idle"]
    /\ UNCHANGED <<storeVars, loopVars, heartbeatVars, status, reconnectCh,
                   restarts>>

Interrupt ==
    /\ ~cancelled
    /\ cancelled' = TRUE
    /\ UNCHANGED <<storeVars, loopVars, heartbeatVars, status, reconnectCh,
                   procVars>>

\* The process exits after Run, or dies anywhere, and the service manager
\* starts it again; only the file survives.
Restart ==
    /\ restarts < MaxRestarts
    /\ restarts' = restarts + 1
    /\ pc' = "top"
    /\ used' = NoToken
    /\ outcome' = "none"
    /\ SetConnectionState("starting", FALSE)
    /\ ctl' = [h \in Handlers |-> "idle"]
    /\ reconnectCh' = FALSE
    /\ cancelled' = FALSE
    /\ backoff' = MinBackoff
    /\ HeartbeatOff
    /\ silent' = FALSE
    /\ UNCHANGED store

-----------------------------------------------------------------------------
Connect ==
    \/ SetConnecting \/ LoadOk \/ LoadFails \/ DialOk \/ DialFails
    \/ HandshakeBreaks \/ PairingRequired \/ ConnectRejected
    \/ HelloSaved \/ HelloNotSaved \/ SetConnected

Serve ==
    \/ ServeCancelled \/ ServeReconnect \/ Probe \/ ProbeFails \/ AckTimeout
    \/ ReadFails \/ Frame \/ DispatchDone

Close == Leave \/ ReturnCancelled \/ RetryAtOnce \/ Retry \/ Report

Wait == WaitCancelled \/ WaitReconnect \/ WaitElapsed

Control(h) ==
    \/ \E t \in AnyToken : SaveToken(h, t) \/ SaveTokenUnsynced(h, t)
    \/ SignalSaved(h) \/ RequestReconnect(h) \/ AnnounceStop(h) \/ CancelRun(h)

Next ==
    \/ Connect
    \/ Serve
    \/ Close
    \/ Wait
    \/ \E h \in Handlers : Control(h)
    \/ Interrupt
    \/ Restart

Spec == Init /\ [][Next]_vars

(***************************************************************************)
(* Fairness.  Outside its two selects the loop runs on: a dial, a write,   *)
(* the closing of a connection (which sends a close frame, after the write *)
(* under way) and the gateway's answer take finite time (the code sets no  *)
(* limit of its own, so this is an assumption on the network and the       *)
(* gateway: it reads, or the connection breaks), and so does a dispatched  *)
(* request (HostMethods has those that may not).  A select chooses uniformly among its     *)
(* ready branches, so one that is ready again and again is taken: strong   *)
(* fairness for the branches a property waits for.  The disk does not fail *)
(* for ever.  A control request that was begun is finished.                *)
(***************************************************************************)
Fairness ==
    /\ WF_vars(Connect)
    /\ WF_vars(DispatchDone)
    /\ WF_vars(Close)
    /\ WF_vars(Wait)
    /\ SF_vars(LoadOk)
    /\ SF_vars(ServeCancelled)
    /\ SF_vars(ServeReconnect)
    /\ WF_vars(Probe \/ ProbeFails)
    /\ WF_vars(AckTimeout)
    /\ \A h \in Handlers : WF_vars(SignalSaved(h)) /\ WF_vars(CancelRun(h))

FairSpec == Spec /\ Fairness

-----------------------------------------------------------------------------
(* Safety *)

Someone(step) == \E h \in Handlers : ctl[h] = step

\* The loop will read the file before it uses a token again, at once or
\* because it could not read it the last time.
Reloading ==
    \/ pc \in {"top", "load", "done"}
    \/ pc \in {"leave", "classify"} /\ outcome = "reconnect"
    \/ outcome = "unread"

ReloadOwed == Reloading \/ reconnectCh \/ Someone("saved") \/ silent

\* A connection runs under a token other than the stored one only while the
\* loop is about to reload, or a request to do so is in the channel or still to
\* be sent, or the save reported an error.  The wake-up of setRuntimeToken and
\* clearRuntimeToken comes after the save, the channel holds one request and
\* drops the rest, and the loop drains it at two places: none of this may lose
\* the last change.
TokenChangeNeverForgotten == used # store.token => ReloadOwed

StopAsked == cancelled \/ Someone("stopping")

\* The status tells whether a session is being served: "online" is reported
\* only during one or on the way out of it, and during one it is reported as
\* connected unless a shutdown was asked for (requestShutdown writes
\* "stopping" before it cancels).
StatusTellsSession ==
    /\ status.online =>
         \/ pc \in SessionPcs \cup {"leave"}
         \/ pc \in {"classify", "done"} /\ outcome = "canceled"
    /\ pc \in SessionPcs =>
         status = [name |-> "connected", online |-> TRUE] \/ StopAsked

\* The timer that ends the session for want of an answer runs exactly while a
\* heartbeat is unanswered, and never outlives the session that armed it.
HeartbeatTimerMatches ==
    /\ awaitingPong <=> (pongTimer = "armed")
    /\ awaitingPong => pc = "serve"

\* No failure of the network, the gateway or the disk ends Run: it returns
\* only after a shutdown, although it takes any error that is a
\* context.Canceled for one.
OnlyShutdownEndsRun ==
    (pc = "done" \/ outcome = "canceled") => cancelled

\* While a session is being served the state file notes no error: the one that
\* ended the previous attempt was cleared with the hello, and no step of the
\* session writes one without ending it.
SessionShowsNoError ==
    pc \in SessionPcs \cup {"accepted"} => ~store.lastError

(* The abstract specification *)

Handoff == INSTANCE TokenHandoff
              WITH desired <- store.token, inUse <- used, owed <- ReloadOwed

\* The loop and the handlers implement the handoff of the token.
ImplementsHandoff == Handoff!Spec

-----------------------------------------------------------------------------
(* Liveness, under FairSpec *)

\* A changed token is taken into use, unless the daemon is being shut down or
\* the change was reported as failed.
TokenAdopted ==
    (used # store.token) ~> (used = store.token \/ cancelled \/ silent)

\* A gateway that falls silent is probed and then dropped: no session waits for
\* an answer for ever.
SilenceEndsSession ==
    /\ (pc = "serve") ~> (awaitingPong \/ pc # "serve")
    /\ awaitingPong ~> ~awaitingPong

\* A shutdown stops the loop wherever it stands, although its selects may take
\* other ready branches first.
ShutdownCompletes == cancelled ~> (pc = "done" \/ ~cancelled)

\* Short of a shutdown the loop never gives up: it dials, or serves a session,
\* again and again.
KeepsTrying == []<>(pc \in {"dial"} \cup SessionPcs \/ cancelled)
=============================================================================
