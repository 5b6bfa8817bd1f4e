------------------------------ MODULE Session ------------------------------
(***************************************************************************)
(* One connection after the other and what is exchanged on each: the       *)
(* goroutine that reads frames (runOnce), the select loop that takes them  *)
(* from it, executes requests and writes answers and heartbeats, and the   *)
(* connection under both (package wsclient).  The reader hands over each   *)
(* frame on an unbuffered channel, so it holds at most one; it outlives    *)
(* its session, and with it the frame nobody takes any more.               *)
(*                                                                         *)
(* Whoever writes holds the write lock of the connection (wio), and        *)
(* closing a connection is a write too: a close frame goes out before it.  *)
(* So a write that the gateway leaves unread holds up the closing as well. *)
(*                                                                         *)
(* What HostdRun says of the loop (handshake, state file, status, timers)  *)
(* is left out: an end of the session for one of its reasons is EndEarly.  *)
(***************************************************************************)
EXTENDS Integers, Sequences

CONSTANTS MaxSessions,  \* (bound) connections of a behaviour
          MaxFrames     \* (bound) frames of each connection

Sessions == 1 .. MaxSessions

ASSUME SessionAssumption == MaxSessions \in Nat /\ MaxFrames \in [Sessions -> Nat]

\* A request, anything else that parses, and what does not.
Kinds == {"req", "event", "bad"}

VARIABLES
    session,   \* the current or last session
    pc,        \* where the loop stands
    frame,     \* the frame the loop has taken: its session and its number
    writing,   \* what the loop writes
    cause,     \* why the session ends
    stopping,  \* the context is cancelled
    conn,      \* what has become of each connection
    wio,       \* who writes on it: a Send, the closing loop, the closing reader
    sent,      \* what the gateway has sent on it
    received,  \* how many of these the reader has parsed
    reader,    \* what the reader does
    failed,    \* its error is in the (buffered) channel of errors
    taken,     \* (history) how many frames of a session the loop has taken
    executed,  \* (history) the requests executed, in order
    answered   \* (history) the last answer: the connection and the request

loopVars  == <<session, pc, frame, writing, cause>>
wireVars  == <<conn, wio, sent>>
readVars  == <<received, reader, failed>>
history   == <<taken, executed, answered>>

vars == <<session, pc, frame, writing, cause, stopping, conn, wio, sent, received,
          reader, failed, taken, executed, answered>>

Frames == Sessions \X (Nat \ {0})

\* Type of the variables: the loop serves a session only once one was dialled,
\* and what it executes and answers are frames of sessions.
SessionTypeOK ==
    /\ session \in 0 .. MaxSessions
    /\ pc \in {"dial", "select", "execute", "write", "giveup", "leave", "done"}
    /\ pc \in {"select", "execute", "write", "giveup", "leave"} => session \in Sessions
    /\ frame \in Frames \cup {<<0, 0>>}
    /\ writing \in {"none", "answer", "heartbeat"}
    /\ cause \in {"none", "error", "other"}
    /\ stopping \in BOOLEAN
    /\ conn \in [Sessions -> {"none", "open", "finished", "broken", "closed"}]
    /\ wio \in [Sessions -> {"none", "send", "loop", "reader"}]
    /\ sent \in [Sessions -> Seq(Kinds)]
    /\ received \in [Sessions -> Nat]
    /\ reader \in [Sessions -> {"none", "reading", "handing", "closing", "gone"}]
    /\ failed \in [Sessions -> BOOLEAN]
    /\ taken \in [Sessions -> Nat]
    /\ executed \in Seq(Frames)
    /\ answered \subseteq Sessions \X Frames

Init ==
    /\ session = 0
    /\ pc = "dial"
    /\ frame = <<0, 0>>
    /\ writing = "none"
    /\ cause = "none"
    /\ stopping = FALSE
    /\ conn = [s \in Sessions |-> "none"]
    /\ wio = [s \in Sessions |-> "none"]
    /\ sent = [s \in Sessions |-> <<>>]
    /\ received = [s \in Sessions |-> 0]
    /\ reader = [s \in Sessions |-> "none"]
    /\ failed = [s \in Sessions |-> FALSE]
    /\ taken = [s \in Sessions |-> 0]
    /\ executed = <<>>
    /\ answered = {}

-----------------------------------------------------------------------------
(* The gateway and the network *)

Send(s, kind) ==
    /\ conn[s] = "open"
    /\ Len(sent[s]) < MaxFrames[s]
    /\ sent' = [sent EXCEPT ![s] = Append(@, kind)]
    /\ UNCHANGED <<loopVars, stopping, conn, wio, readVars, history>>

\* The gateway closes the connection after its last frame, or it breaks.
Lose(s, how) ==
    /\ conn[s] = "open" \/ (conn[s] = "finished" /\ how = "broken")
    /\ conn' = [conn EXCEPT ![s] = how]
    /\ UNCHANGED <<loopVars, stopping, wio, sent, readVars, history>>

Stop ==
    /\ ~stopping
    /\ stopping' = TRUE
    /\ UNCHANGED <<loopVars, wireVars, readVars, history>>

-----------------------------------------------------------------------------
(* The reader of a session *)

\* Frames that have arrived are read even after the connection was closed.
Receive(s) ==
    /\ reader[s] = "reading"
    /\ received[s] < Len(sent[s])
    /\ sent[s][received[s] + 1] # "bad"
    /\ received' = [received EXCEPT ![s] = @ + 1]
    /\ reader' = [reader EXCEPT ![s] = "handing"]
    /\ UNCHANGED <<loopVars, stopping, wireVars, failed, history>>

Unread(s) == received[s] < Len(sent[s]) /\ sent[s][received[s] + 1] # "bad"

\* What ends a read: a frame that does not parse, the end of what the gateway
\* had to say, a connection that broke or was closed.
ReadBreaks(s) ==
    \/ ~Unread(s) /\ received[s] < Len(sent[s])
    \/ ~Unread(s) /\ conn[s] = "finished"
    \/ conn[s] \in {"broken", "closed"}

Fail(s, from) ==
    /\ reader[s] \in from
    /\ ReadBreaks(s)
    /\ reader' = [reader EXCEPT ![s] = "gone"]
    /\ failed' = [failed EXCEPT ![s] = TRUE]
    /\ UNCHANGED <<loopVars, stopping, wireVars, received, history>>

\* Variant: frames are handed over by a goroutine of their own.
FailAhead(s) == Fail(s, {"reading", "handing"})

ReadFails(s) == Fail(s, {"reading"})

\* When the context ends, the read is given up; what comes of it is lost.
ReadGivenUp(s) ==
    /\ reader[s] = "reading"
    /\ stopping
    /\ reader' = [reader EXCEPT ![s] = "closing"]
    /\ UNCHANGED <<loopVars, stopping, wireVars, received, failed, history>>

\* But the reader closes the connection before it says so.
ReaderCloses(s) ==
    /\ reader[s] = "closing"
    /\ wio[s] = "none"
    /\ wio' = [wio EXCEPT ![s] = "reader"]
    /\ UNCHANGED <<loopVars, stopping, conn, sent, readVars, history>>

ReaderClosed(s) ==
    /\ wio[s] = "reader"
    /\ conn' = [conn EXCEPT ![s] = "closed"]
    /\ wio' = [wio EXCEPT ![s] = "none"]
    /\ reader' = [reader EXCEPT ![s] = "gone"]
    /\ failed' = [failed EXCEPT ![s] = TRUE]
    /\ UNCHANGED <<loopVars, stopping, sent, received, history>>

-----------------------------------------------------------------------------
(* The loop *)

Dial ==
    /\ pc = "dial"
    /\ ~stopping
    /\ session < MaxSessions
    /\ session' = session + 1
    /\ pc' = "select"
    /\ conn' = [conn EXCEPT ![session'] = "open"]
    /\ reader' = [reader EXCEPT ![session'] = "reading"]
    /\ UNCHANGED <<frame, writing, cause, stopping, wio, sent, received, failed, history>>

Take(s) ==
    /\ pc = "select"
    /\ reader[s] = "handing"
    /\ reader' = [reader EXCEPT ![s] = "reading"]
    /\ taken' = [taken EXCEPT ![s] = @ + 1]
    /\ IF sent[s][received[s]] = "req"
       THEN pc' = "execute" /\ frame' = <<s, received[s]>>
       ELSE UNCHANGED <<pc, frame>>
    /\ UNCHANGED <<session, writing, cause, stopping, wireVars, received, failed,
                   executed, answered>>

\* Variant: the channel of frames belongs to the runner, not to the session.
TakeFromAny == \E s \in Sessions : s <= session /\ Take(s)

TakeFrame == session \in Sessions /\ Take(session)

\* Dispatch does not look at the context.
Execute ==
    /\ pc = "execute"
    /\ executed' = Append(executed, frame)
    /\ writing' = "answer"
    /\ pc' = "write"
    /\ UNCHANGED <<session, frame, cause, stopping, wireVars, readVars, taken,
                   answered>>

Tick ==
    /\ pc = "select"
    /\ writing' = "heartbeat"
    /\ pc' = "write"
    /\ UNCHANGED <<session, frame, cause, stopping, wireVars, readVars, history>>

WriteRest == UNCHANGED <<session, frame, stopping, sent, readVars, taken, executed>>

Unlocked == wio' = [wio EXCEPT ![session] = "none"]

\* The goroutine of the write gets the lock.
WriteBegins ==
    /\ pc = "write"
    /\ wio[session] = "none"
    /\ wio' = [wio EXCEPT ![session] = "send"]
    /\ UNCHANGED <<pc, writing, cause, conn, answered>>
    /\ WriteRest

Delivered ==
    answered' = IF writing = "answer" THEN {<<session, frame>>}
                ELSE answered

\* A heartbeat that cannot be written ends the session, an answer does not.
NotWritten ==
    /\ writing' = "none"
    /\ IF writing = "heartbeat" THEN pc' = "leave" /\ cause' = "other"
       ELSE pc' = "select" /\ UNCHANGED cause

GivenUp == pc = "giveup" /\ UNCHANGED <<pc, writing, cause>>

\* The write takes as long as the gateway takes to read; it has no deadline.
\* It goes on when the loop has given it up.
Written ==
    /\ pc \in {"write", "giveup"}
    /\ wio[session] = "send"
    /\ conn[session] \in {"open", "finished"}
    /\ Delivered
    /\ \/ pc = "write" /\ writing' = "none" /\ pc' = "select" /\ UNCHANGED cause
       \/ GivenUp
    /\ Unlocked
    /\ UNCHANGED conn
    /\ WriteRest

WriteEndsBadly ==
    /\ pc \in {"write", "giveup"}
    /\ wio[session] = "send"
    /\ conn[session] # "open"
    /\ (pc = "write" /\ NotWritten) \/ GivenUp
    /\ UNCHANGED <<conn, answered>>
    /\ WriteRest

\* Variant: a failed write returns without releasing the lock.
FailsLocked == WriteEndsBadly /\ UNCHANGED wio

WriteFails == WriteEndsBadly /\ Unlocked

\* When the context ends, the loop gives the write up, to close the connection.
WriteGivenUp ==
    /\ pc = "write"
    /\ stopping
    /\ pc' = "giveup"
    /\ UNCHANGED <<writing, cause, conn, wio, answered>>
    /\ WriteRest

\* Variant: the connection is not closed on the way out.
LeftOpen ==
    /\ pc = "leave"
    /\ pc' = "dial"
    /\ cause' = "none"
    /\ UNCHANGED <<writing, conn, wio, answered>>
    /\ WriteRest

\* The loop closes the connection, of a write given up or of a session it
\* leaves, as soon as nothing else is written on it.
CloseBegins ==
    /\ pc \in {"giveup", "leave"}
    /\ wio[session] = "none"
    /\ wio' = [wio EXCEPT ![session] = "loop"]
    /\ UNCHANGED <<pc, writing, cause, conn, answered>>
    /\ WriteRest

\* The close frame is out, or could not be written.
CloseEnds ==
    /\ pc \in {"giveup", "leave"}
    /\ wio[session] = "loop"
    /\ conn' = [conn EXCEPT ![session] = "closed"]
    /\ Unlocked
    /\ \/ pc = "giveup" /\ NotWritten
       \/ pc = "leave" /\ pc' = "dial" /\ cause' = "none" /\ UNCHANGED writing
    /\ UNCHANGED answered
    /\ WriteRest

Leave(why) ==
    /\ pc = "select"
    /\ pc' = "leave"
    /\ cause' = why
    /\ UNCHANGED <<session, frame, writing, stopping, wireVars, readVars, history>>

TakeError == session \in Sessions /\ failed[session] /\ Leave("error")

Cancelled == stopping /\ Leave("other")

\* A reconnect was asked for, or a heartbeat was not answered in time.
EndEarly == Leave("other")

Finish ==
    /\ pc = "dial"
    /\ stopping
    /\ pc' = "done"
    /\ UNCHANGED <<session, frame, writing, cause, stopping, wireVars, readVars,
                   history>>

-----------------------------------------------------------------------------
Reader(s) == Receive(s) \/ ReadFails(s) \/ ReadGivenUp(s) \/ ReaderCloses(s)

Loop == \/ TakeFrame \/ TakeError \/ Execute
        \/ WriteBegins \/ WriteGivenUp \/ CloseBegins \/ Finish

Next ==
    \/ \E s \in Sessions : \/ \E kind \in Kinds : Send(s, kind)
                           \/ Lose(s, "finished") \/ Lose(s, "broken")
                           \/ Reader(s) \/ ReaderClosed(s)
    \/ Stop
    \/ Dial \/ Loop \/ Tick \/ Written \/ WriteFails \/ CloseEnds
    \/ Cancelled \/ EndEarly

Spec == Init /\ [][Next]_vars

Lost(s) == s \in Sessions /\ conn[s] \in {"broken", "closed"}

\* Every goroutine goes on while it can, a request ends, and of the branches of
\* a select that are ready each is taken at some time.  What is written on a
\* lost connection fails; how long the gateway leaves any other write waiting,
\* that of the close frame too, is up to it.
FairSpec ==
    /\ Spec
    /\ WF_vars(Loop \/ (Lost(session) /\ (WriteFails \/ CloseEnds)))
    /\ SF_vars(Cancelled)
    /\ \A s \in Sessions : WF_vars(Reader(s) \/ (Lost(s) /\ ReaderClosed(s)))

-----------------------------------------------------------------------------
(* Properties *)

Before(e, f) == e[1] < f[1] \/ (e[1] = f[1] /\ e[2] < f[2])

\* No request is executed twice, before one sent earlier, or after the first of
\* a later session; and its answer never goes out on another connection than
\* the one it came on, however late the readers of earlier sessions are.
AnswersInOrder ==
    /\ \A i, j \in 1 .. Len(executed) : i < j => Before(executed[i], executed[j])
    /\ \A a \in answered : a[1] = a[2][1]

\* When a read error ends a session, the loop has taken every frame that was
\* parsed before it; and if the gateway closed the connection after its last
\* frame, all it sent, up to one that does not parse.
NothingLostBeforeError ==
    pc = "leave" /\ cause = "error" =>
        /\ taken[session] = received[session]
        /\ conn[session] = "finished" => ~Unread(session)

Over(s) == s < session \/ (s = session /\ pc \in {"dial", "done"})

\* The reader of a session that is over is gone at last, or holds one frame,
\* its last, that nobody takes: what a session leaves behind is bounded by it.
ReaderEnds == \A s \in Sessions : Over(s) ~> reader[s] \in {"gone", "handing"}

WriteUnread == session \in Sessions /\ wio[session] # "none" /\ ~Lost(session)

\* A shutdown ends the loop, unless an answer, a heartbeat or the close frame
\* is left unread for good by a gateway that keeps the connection: nothing
\* interrupts a write, and neither the loop nor the reader goes on before it
\* has closed the connection, which waits for the write.
StopCompletes == <>stopping => <>(pc = "done") \/ <>[]WriteUnread
=============================================================================
