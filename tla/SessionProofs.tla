--------------------------- MODULE SessionProofs ---------------------------
(***************************************************************************)
(* Proofs about the sessions: the type invariant, that requests are        *)
(* executed in order and answered where they came from, and that a read    *)
(* error comes after the last frame, for any number of sessions and        *)
(* frames.                                                                 *)
(***************************************************************************)
EXTENDS Session, TLAPS

\* A reader holds at most the last frame it has parsed; the loop has taken all
\* before it.
ReaderState(s) ==
    /\ received[s] <= Len(sent[s])
    /\ received[s] = IF reader[s] = "handing" THEN taken[s] + 1 ELSE taken[s]
    /\ failed[s] => reader[s] = "gone"
    /\ wio[s] = "reader" => reader[s] = "closing"
    /\ conn[s] = "none" <=> s > session
    /\ s > session => taken[s] = 0 /\ reader[s] = "none"

\* An error stands for the end of what there was to read: nothing that parses
\* will follow on a connection that is not lost.
ErrorState(s) ==
    failed[s] =>
        \/ conn[s] \in {"broken", "closed"}
        \/ ~Unread(s) /\ conn[s] \in {"open", "finished"}
                      /\ (conn[s] = "open" => received[s] < Len(sent[s]))

\* A request executed is one the loop has taken, and the last one taken only
\* once it was executed.
Taken(e) ==
    \/ e[1] < session
    \/ e[1] = session /\ e[2] <= taken[e[1]]

Past(e) == Taken(e) /\ (pc = "execute" => Before(e, frame))

LoopState ==
    /\ pc \in {"select", "execute", "write", "giveup", "leave"} => session \in Sessions
    /\ pc = "execute" => frame = <<session, taken[session]>> /\ frame \in Frames
    /\ writing = "answer" =>
          pc \in {"write", "giveup"} /\ frame \in Frames /\ frame[1] = session
    /\ cause = "error" => pc = "leave" /\ failed[session]

SessionInv ==
    /\ SessionTypeOK
    /\ \A s \in Sessions : ReaderState(s) /\ ErrorState(s)
    /\ LoopState
    /\ \A i \in 1 .. Len(executed) : Past(executed[i])
    /\ AnswersInOrder

-----------------------------------------------------------------------------
(* Type invariant *)

LEMMA InitInvariant == Init => SessionInv
  <1> SUFFICES ASSUME Init PROVE SessionInv
    OBVIOUS
  <1>1. SessionTypeOK
    <2>1. session \in 0 .. MaxSessions /\ received \in [Sessions -> Nat] /\ taken \in [Sessions -> Nat]
      BY SessionAssumption DEF Init
    <2>2. sent \in [Sessions -> Seq(Kinds)] /\ executed \in Seq(Frames)
      BY DEF Init
    <2>3. frame \in Frames \cup {<<0, 0>>}
      BY DEF Init
    <2>4. QED
      BY <2>1, <2>2, <2>3 DEF Init, SessionTypeOK
  <1>2. ASSUME NEW s \in Sessions
        PROVE  ReaderState(s) /\ ErrorState(s)
    BY <1>2 DEF Init, ReaderState, ErrorState, Sessions
  <1>3. LoopState
    BY DEF Init, LoopState
  <1>4. Len(executed) = 0 /\ answered = {}
    BY DEF Init
  <1>5. AnswersInOrder /\ \A i \in 1 .. Len(executed) : Past(executed[i])
    BY <1>4 DEF AnswersInOrder
  <1>6. QED
    BY <1>1, <1>2, <1>3, <1>5 DEF SessionInv

\* What the loop holds is a frame of its session.
LEMMA FrameType ==
  ASSUME SessionInv, pc = "execute" \/ writing = "answer"
  PROVE  frame \in Frames /\ frame[1] = session /\ session \in Sessions
  BY DEF SessionInv, LoopState

LEMMA TypeStep ==
  ASSUME SessionInv, [Next]_vars
  PROVE  SessionTypeOK'
  <1> USE SessionAssumption DEF Sessions, Kinds
  <1>0. SessionTypeOK /\ LoopState
    BY DEF SessionInv
  <1>1. ASSUME NEW s \in Sessions, NEW kind \in Kinds, Send(s, kind)
        PROVE  SessionTypeOK'
    <2>1. sent' \in [Sessions -> Seq(Kinds)]
      <3>1. sent[s] \in Seq(Kinds)
        BY <1>0 DEF SessionTypeOK
      <3>2. Append(sent[s], kind) \in Seq(Kinds)
        BY <3>1
      <3>3. QED
        BY <1>0, <1>1, <3>2 DEF Send, SessionTypeOK
    <2>2. UNCHANGED <<session, pc, frame, writing, cause, stopping, conn, wio, received, reader,
                      failed, taken, executed, answered>>
      BY <1>1 DEF Send, loopVars, readVars, history
    <2>3. QED
      BY ZenonT(100), <1>0, <2>1, <2>2 DEF SessionTypeOK
  <1>2. ASSUME NEW s \in Sessions, NEW how \in {"finished", "broken"}, Lose(s, how)
        PROVE  SessionTypeOK'
    BY ZenonT(100), <1>0, <1>2 DEF Lose, SessionTypeOK, loopVars, readVars, history
  <1>3. ASSUME NEW s \in Sessions, Receive(s)
        PROVE  SessionTypeOK'
    <2>1. /\ received' \in [Sessions -> Nat]
          /\ reader' \in [Sessions -> {"none", "reading", "handing", "closing", "gone"}]
      BY SMTT(60), <1>0, <1>3 DEF Receive, SessionTypeOK
    <2>2. UNCHANGED <<session, pc, frame, writing, cause, stopping, conn, wio, sent, failed, taken,
                      executed, answered>>
      BY <1>3 DEF Receive, loopVars, wireVars, history
    <2>3. QED
      BY <1>0, <2>1, <2>2 DEF SessionTypeOK
  <1>4. ASSUME NEW s \in Sessions, ReadFails(s)
        PROVE  SessionTypeOK'
    BY ZenonT(100), <1>0, <1>4 DEF ReadFails, Fail, SessionTypeOK, loopVars, wireVars, history
  <1>5. ASSUME NEW s \in Sessions, ReadGivenUp(s) \/ ReaderCloses(s)
         PROVE  SessionTypeOK'
    <2>1. CASE ReadGivenUp(s)
      BY SMTT(60), <1>0, <2>1 DEF ReadGivenUp, SessionTypeOK, loopVars, wireVars, history
    <2>2. CASE ReaderCloses(s)
      BY SMTT(60), <1>0, <2>2 DEF ReaderCloses, SessionTypeOK, loopVars, readVars, history
    <2>3. QED
      BY <1>5, <2>1, <2>2
  <1>6. ASSUME NEW s \in Sessions, ReaderClosed(s)
         PROVE  SessionTypeOK'
    BY SMTT(60), <1>0, <1>6 DEF ReaderClosed, SessionTypeOK, loopVars, history
  <1>7. CASE Stop
    BY SMTT(60), <1>0, <1>7 DEF Stop, SessionTypeOK, loopVars, wireVars, readVars, history
  <1>8. CASE Dial
    <2>1. session' \in Sessions /\ session' \in 0 .. MaxSessions
      BY <1>0, <1>8 DEF Dial, SessionTypeOK
    <2>2. /\ conn' \in [Sessions -> {"none", "open", "finished", "broken", "closed"}]
          /\ reader' \in [Sessions -> {"none", "reading", "handing", "closing", "gone"}]
      BY <1>0, <1>8, <2>1 DEF Dial, SessionTypeOK
    <2>3. /\ pc' = "select"
          /\ UNCHANGED <<frame, writing, cause, stopping, wio, sent, received, failed, taken,
                         executed, answered>>
      BY <1>8 DEF Dial, history
    <2>4. QED
      BY <1>0, <2>1, <2>2, <2>3 DEF SessionTypeOK
  <1>9. CASE TakeFrame
    <2>1. session \in Sessions /\ pc' \in {"select", "execute"}
      <3>1. session \in Sessions /\ pc = "select"
        BY <1>9 DEF TakeFrame, Take
      <3>2. pc' = "execute" \/ pc' = pc
        BY <1>9 DEF TakeFrame, Take
      <3>3. QED
        BY <3>1, <3>2
    <2>2. /\ taken' \in [Sessions -> Nat]
          /\ reader' \in [Sessions -> {"none", "reading", "handing", "closing", "gone"}]
      BY SMTT(60), <2>1, <1>9, <1>0 DEF TakeFrame, Take, SessionTypeOK
    <2>3. frame' \in Frames \cup {<<0, 0>>}
      <3>1. ReaderState(session)
        BY <2>1 DEF SessionInv
      <3>2. received[session] \in Nat \ {0}
        BY <3>1, <2>1, <1>9, <1>0 DEF ReaderState, TakeFrame, Take, SessionTypeOK
      <3>3. <<session, received[session]>> \in Frames
        BY <2>1, <3>2 DEF Frames
      <3>4. frame' = <<session, received[session]>> \/ frame' = frame
        BY <1>9 DEF TakeFrame, Take
      <3>5. QED
        BY <1>0, <3>3, <3>4 DEF SessionTypeOK
    <2>4. UNCHANGED <<session, writing, cause, stopping, conn, wio, sent, received, failed, executed,
                      answered>>
      BY <1>9 DEF TakeFrame, Take, wireVars
    <2>5. QED
      BY <1>0, <2>1, <2>2, <2>3, <2>4 DEF SessionTypeOK
  <1>10. CASE Execute
    <2>1. frame \in Frames
      BY <1>10, FrameType DEF Execute
    <2>2. executed' \in Seq(Frames)
      BY <2>1, <1>10, <1>0 DEF Execute, SessionTypeOK
    <2>3. QED
      BY <1>10, <1>0, <2>2 DEF Execute, SessionTypeOK, wireVars, readVars
  <1>11. CASE Tick
    BY <1>11, <1>0 DEF Tick, SessionTypeOK, LoopState, wireVars, readVars, history
  <1>12. CASE Written
    <2>1. answered' \subseteq Sessions \X Frames
      BY <1>12, <1>0, FrameType DEF Written, Delivered, SessionTypeOK
    <2>2. /\ session \in Sessions /\ pc' \in {"select", "giveup"}
          /\ writing' \in {writing, "none"}
      BY <1>12, <1>0 DEF Written, GivenUp, LoopState
    <2>3. wio' \in [Sessions -> {"none", "send", "loop", "reader"}]
      BY <2>2, <1>12, <1>0 DEF Written, Unlocked, SessionTypeOK
    <2>4. UNCHANGED <<session, frame, cause, stopping, conn, sent, received, reader, failed, taken,
                      executed>>
      BY <1>12 DEF Written, GivenUp, WriteRest, readVars
    <2>5. QED
      BY <1>0, <2>1, <2>2, <2>3, <2>4 DEF SessionTypeOK
  <1>13. CASE WriteFails
    <2>1. /\ session \in Sessions /\ pc' \in {"select", "giveup", "leave"}
          /\ writing' \in {writing, "none"} /\ cause' \in {cause, "other"}
      BY <1>13, <1>0 DEF WriteFails, WriteEndsBadly, GivenUp, NotWritten, LoopState
    <2>2. wio' \in [Sessions -> {"none", "send", "loop", "reader"}]
      BY <1>13, <1>0 DEF WriteFails, Unlocked, SessionTypeOK
    <2>3. UNCHANGED <<session, frame, stopping, conn, sent, received, reader, failed, taken,
                      executed, answered>>
      BY <1>13 DEF WriteFails, WriteEndsBadly, WriteRest, readVars
    <2>4. QED
      BY ZenonT(100), <1>0, <2>1, <2>2, <2>3 DEF SessionTypeOK
  <1>14. CASE WriteBegins \/ WriteGivenUp \/ CloseBegins
    <2>1. /\ pc' \in {"write", "giveup", "leave"} /\ session \in Sessions
          /\ UNCHANGED <<session, frame, writing, cause, stopping, conn, sent, received, reader,
                         failed, taken, executed, answered>>
      BY <1>14, <1>0 DEF WriteBegins, WriteGivenUp, CloseBegins, WriteRest, LoopState, readVars
    <2>2. wio' \in [Sessions -> {"none", "send", "loop", "reader"}]
      BY ZenonT(100), <1>14, <1>0, <2>1 DEF WriteBegins, WriteGivenUp, CloseBegins, SessionTypeOK
    <2>3. QED
      BY <1>0, <2>1, <2>2 DEF SessionTypeOK
  <1>15. CASE CloseEnds
    <2>1. /\ session \in Sessions /\ pc' \in {"select", "leave", "dial"}
          /\ writing' \in {writing, "none"} /\ cause' \in {cause, "none", "other"}
      BY <1>15, <1>0 DEF CloseEnds, NotWritten, LoopState
    <2>2. /\ conn' \in [Sessions -> {"none", "open", "finished", "broken", "closed"}]
          /\ wio' \in [Sessions -> {"none", "send", "loop", "reader"}]
      BY <1>15, <1>0 DEF CloseEnds, Unlocked, SessionTypeOK
    <2>3. UNCHANGED <<session, frame, stopping, sent, received, reader, failed, taken, executed,
                      answered>>
      BY <1>15 DEF CloseEnds, WriteRest, readVars
    <2>4. QED
      BY <1>0, <2>1, <2>2, <2>3 DEF SessionTypeOK
  <1>16. CASE TakeError \/ Cancelled \/ EndEarly
    BY ZenonT(100), <1>16, <1>0 DEF TakeError, Cancelled, EndEarly, Leave, SessionTypeOK, wireVars,
       readVars, history
  <1>17. CASE Finish
    BY <1>17, <1>0 DEF Finish, SessionTypeOK, wireVars, readVars, history
  <1>18. CASE UNCHANGED vars
    BY ZenonT(100), <1>18, <1>0 DEF vars, SessionTypeOK
  <1>19. QED
    BY <1>1, <1>2, <1>3, <1>4, <1>7, <1>8, <1>9, <1>10, <1>11, <1>12, <1>13, <1>14, <1>15, <1>16,
       <1>17, <1>18, <1>5, <1>6 DEF Next, Loop, Reader

-----------------------------------------------------------------------------
(* Readers and their errors *)

\* A step that leaves the reader of a session and what it reads alone keeps
\* what is known of them, also when it closes the connection.
LEMMA ReaderKept ==
  ASSUME SessionTypeOK, NEW s \in Sessions, ReaderState(s), ErrorState(s),
         session' = session,
         sent'[s] = sent[s], received'[s] = received[s], reader'[s] = reader[s],
         failed'[s] = failed[s], taken'[s] = taken[s],
         conn'[s] = conn[s] \/ (conn'[s] = "closed" /\ s <= session),
         wio'[s] = wio[s] \/ wio'[s] # "reader"
  PROVE  ReaderState(s)' /\ ErrorState(s)'
  BY DEF ReaderState, ErrorState, Unread, SessionTypeOK, Sessions

LEMMA ReaderStep ==
  ASSUME SessionInv, [Next]_vars, NEW s \in Sessions
  PROVE  ReaderState(s)' /\ ErrorState(s)'
  <1>0. /\ SessionTypeOK /\ LoopState /\ ReaderState(s) /\ ErrorState(s)
        /\ SessionTypeOK'
    BY TypeStep DEF SessionInv
  <1> USE DEF Sessions
  <1>1. ASSUME NEW t \in Sessions, NEW kind \in Kinds, Send(t, kind)
        PROVE  ReaderState(s)' /\ ErrorState(s)'
    <2>1. CASE t # s
      BY <1>1, <2>1, <1>0, ReaderKept DEF Send, SessionTypeOK, loopVars, readVars, history
    <2>2. CASE t = s
      <3>1. /\ sent[s] \in Seq(Kinds) /\ received[s] \in Nat
            /\ sent'[s] = Append(sent[s], kind)
        BY <1>1, <2>2, <1>0 DEF Send, SessionTypeOK
      <3>2. /\ Len(sent'[s]) = Len(sent[s]) + 1
            /\ \A i \in 1 .. Len(sent[s]) : sent'[s][i] = sent[s][i]
        BY <3>1
      <3>3. UNCHANGED <<session, conn, wio, received, reader, failed, taken>>
        BY <1>1 DEF Send, loopVars, readVars, history
      <3>4. conn[s] = "open"
        BY <1>1, <2>2 DEF Send
      <3>5. QED
        BY SMTT(60), <1>0, <3>1, <3>2, <3>3, <3>4 DEF ReaderState, ErrorState, Unread
    <2>3. QED
      BY <2>1, <2>2
  <1>2. ASSUME NEW t \in Sessions, NEW how \in {"finished", "broken"}, Lose(t, how)
        PROVE  ReaderState(s)' /\ ErrorState(s)'
    BY <1>2, <1>0 DEF Lose, SessionTypeOK, ReaderState, ErrorState, Unread, loopVars, readVars,
       history
  <1>3. ASSUME NEW t \in Sessions, Receive(t)
        PROVE  ReaderState(s)' /\ ErrorState(s)'
    BY SMTT(60), <1>3, <1>0
       DEF Receive, SessionTypeOK, ReaderState, ErrorState, Unread, loopVars, wireVars,
       history
  <1>4. ASSUME NEW t \in Sessions, ReadFails(t)
        PROVE  ReaderState(s)' /\ ErrorState(s)'
    <2>1. UNCHANGED <<session, conn, wio, sent, received, taken>>
      BY <1>4 DEF ReadFails, Fail, loopVars, wireVars, history
    <2>2. CASE t # s
      BY ZenonT(100), <1>4, <2>1, <2>2, <1>0, ReaderKept DEF ReadFails, Fail, SessionTypeOK
    <2>3. CASE t = s
      <3>1. /\ reader[s] = "reading" /\ reader'[s] = "gone" /\ failed'[s] = TRUE
            /\ s <= session
        BY <1>4, <2>3, <1>0 DEF ReadFails, Fail, SessionTypeOK, ReaderState
      <3>2. ReadBreaks(s)
        BY <1>4, <2>3 DEF ReadFails, Fail
      <3>3. /\ conn[s] \in {"open", "finished", "broken", "closed"}
            /\ received[s] \in Nat /\ Len(sent[s]) \in Nat
            /\ received[s] <= Len(sent[s])
        <4>1. conn[s] # "none"
          BY <3>1, <1>0 DEF ReaderState, SessionTypeOK
        <4>2. sent[s] \in Seq(Kinds) /\ received[s] \in Nat
          BY <1>0 DEF SessionTypeOK
        <4>3. Len(sent[s]) \in Nat
          BY <4>2
        <4>4. QED
          BY <4>1, <4>2, <4>3, <1>0 DEF ReaderState, SessionTypeOK
      <3>4. ReaderState(s)'
        BY <2>1, <3>1, <3>2, <3>3, <1>0 DEF ReaderState, SessionTypeOK
      <3>5. ErrorState(s)'
        <4>1. Unread(s)' <=> Unread(s)
          BY <2>1 DEF Unread
        <4>2. CASE conn[s] \in {"broken", "closed"}
          BY <2>1, <4>2 DEF ErrorState
        <4>3. CASE conn[s] \in {"open", "finished"}
          BY <2>1, <3>2, <3>3, <4>1, <4>3 DEF ReadBreaks, ErrorState
        <4>4. QED
          BY <3>3, <4>2, <4>3
      <3>6. QED
        BY <3>4, <3>5
    <2>4. QED
      BY <2>2, <2>3
  <1>5. ASSUME NEW t \in Sessions, ReadGivenUp(t)
         PROVE  ReaderState(s)' /\ ErrorState(s)'
    BY <1>5, <1>0 DEF ReadGivenUp, SessionTypeOK, ReaderState, ErrorState, Unread, loopVars,
       wireVars, history
  <1>6. ASSUME NEW t \in Sessions, ReaderCloses(t)
         PROVE  ReaderState(s)' /\ ErrorState(s)'
    BY <1>6, <1>0 DEF ReaderCloses, SessionTypeOK, ReaderState, ErrorState, Unread, loopVars,
       readVars, history
  <1>7. ASSUME NEW t \in Sessions, ReaderClosed(t)
         PROVE  ReaderState(s)' /\ ErrorState(s)'
    <2>1. UNCHANGED <<session, sent, received, taken>>
      BY <1>7 DEF ReaderClosed, loopVars, history
    <2>2. CASE t # s
      <3>1. /\ conn'[s] = conn[s] /\ wio'[s] = wio[s]
            /\ reader'[s] = reader[s] /\ failed'[s] = failed[s]
        <4>1. /\ conn \in [Sessions -> {"none", "open", "finished", "broken", "closed"}]
              /\ wio \in [Sessions -> {"none", "send", "loop", "reader"}]
              /\ reader \in [Sessions -> {"none", "reading", "handing", "closing", "gone"}]
              /\ failed \in [Sessions -> BOOLEAN]
          BY <1>0 DEF SessionTypeOK
        <4>2. QED
          BY ZenonT(100), <1>7, <2>2, <4>1 DEF ReaderClosed
      <3>2. QED
        BY <1>0, <2>1, <3>1, ReaderKept
    <2>3. CASE t = s
      <3>1. /\ reader[s] = "closing" /\ reader'[s] = "gone" /\ conn'[s] = "closed"
            /\ wio'[s] = "none" /\ conn[s] # "none"
        BY <1>7, <2>3, <1>0 DEF ReaderClosed, SessionTypeOK, ReaderState
      <3>2. QED
        BY <2>1, <3>1, <1>0 DEF ReaderState, ErrorState
    <2>4. QED
      BY <2>2, <2>3
  <1>8. CASE Stop
    BY <1>8, <1>0, ReaderKept DEF Stop, loopVars, wireVars, readVars, history
  <1>9. CASE Dial
    BY <1>9, <1>0 DEF Dial, SessionTypeOK, ReaderState, ErrorState, Unread, history
  <1>10. CASE TakeFrame
    BY <1>10, <1>0 DEF TakeFrame, Take, SessionTypeOK, ReaderState, ErrorState, Unread, wireVars
  <1>11. CASE Execute \/ Tick \/ TakeError \/ Cancelled \/ EndEarly \/ Finish
    BY <1>11, <1>0, ReaderKept DEF Execute, Tick, TakeError, Cancelled, EndEarly, Leave, Finish,
       wireVars, readVars, history
  <1>12. CASE Written \/ WriteFails \/ WriteBegins \/ WriteGivenUp \/ CloseBegins
    <2>1. /\ UNCHANGED <<session, conn, sent, received, reader, failed, taken>>
      BY <1>12 DEF Written, WriteFails, WriteEndsBadly, WriteBegins, WriteGivenUp, CloseBegins,
         WriteRest, readVars
    <2>2. wio'[s] = wio[s] \/ wio'[s] # "reader"
      BY <1>12, <1>0 DEF Written, WriteFails, WriteEndsBadly, WriteBegins, WriteGivenUp, CloseBegins,
         Unlocked, SessionTypeOK
    <2>3. QED
      BY <1>0, <2>1, <2>2, ReaderKept
  <1>13. CASE CloseEnds
    <2>1. UNCHANGED <<session, sent, received, reader, failed, taken>> /\ session \in Sessions
      BY <1>13, <1>0 DEF CloseEnds, WriteRest, readVars, LoopState
    <2>2. /\ conn'[s] = conn[s] \/ (conn'[s] = "closed" /\ s <= session)
          /\ wio'[s] = wio[s] \/ wio'[s] # "reader"
      BY <1>13, <1>0, <2>1 DEF CloseEnds, Unlocked, SessionTypeOK
    <2>3. QED
      BY <1>0, <2>1, <2>2, ReaderKept
  <1>14. CASE UNCHANGED vars
    BY <1>14, <1>0, ReaderKept DEF vars
  <1>15. QED
    BY <1>1, <1>2, <1>3, <1>4, <1>8, <1>9, <1>10, <1>11, <1>12, <1>13, <1>14, <1>5, <1>6, <1>7
       DEF Next, Loop, Reader

-----------------------------------------------------------------------------
(* The loop *)

LEMMA LoopStep ==
  ASSUME SessionInv, [Next]_vars
  PROVE  LoopState'
  <1>0. /\ SessionTypeOK /\ LoopState /\ SessionTypeOK'
        /\ \A s \in Sessions : ReaderState(s)
    BY TypeStep DEF SessionInv
  <1>1. ASSUME NEW s \in Sessions, NEW kind \in Kinds, Send(s, kind)
        PROVE  LoopState'
    BY <1>1, <1>0 DEF Send, LoopState, loopVars, readVars, history
  <1>2. ASSUME NEW s \in Sessions, NEW how \in {"finished", "broken"}, Lose(s, how)
        PROVE  LoopState'
    BY <1>2, <1>0 DEF Lose, LoopState, loopVars, readVars, history
  <1>3. ASSUME NEW s \in Sessions, Receive(s)
        PROVE  LoopState'
    BY <1>3, <1>0 DEF Receive, LoopState, loopVars, history
  <1>4. ASSUME NEW s \in Sessions, ReadFails(s)
        PROVE  LoopState'
    <2>1. /\ UNCHANGED <<session, pc, frame, writing, cause, taken>>
          /\ failed[session] /\ session \in Sessions => failed'[session]
      BY <1>4, <1>0 DEF ReadFails, Fail, loopVars, history, SessionTypeOK
    <2>2. QED
      BY <2>1, <1>0 DEF LoopState
  <1>5. ASSUME NEW s \in Sessions, ReadGivenUp(s) \/ ReaderCloses(s)
         PROVE  LoopState'
    BY <1>5, <1>0 DEF ReadGivenUp, ReaderCloses, LoopState, loopVars, readVars, history
  <1>6. ASSUME NEW s \in Sessions, ReaderClosed(s)
         PROVE  LoopState'
    <2>1. /\ UNCHANGED <<session, pc, frame, writing, cause, taken>>
          /\ failed[session] /\ session \in Sessions => failed'[session]
      BY <1>6, <1>0 DEF ReaderClosed, loopVars, history, SessionTypeOK
    <2>2. QED
      BY <2>1, <1>0 DEF LoopState
  <1>7. CASE Stop
    BY <1>7, <1>0 DEF Stop, LoopState, loopVars, readVars, history
  <1>8. CASE Dial
    <2>1. session' \in Sessions
      BY <1>8, <1>0 DEF Dial, SessionTypeOK, Sessions
    <2>2. QED
      BY <1>8, <1>0, <2>1 DEF Dial, LoopState
  <1>9. CASE TakeFrame
    <2>1. /\ session \in Sessions /\ received[session] = taken[session] + 1
          /\ taken'[session] = taken[session] + 1 /\ taken[session] \in Nat
      BY <1>9, <1>0 DEF TakeFrame, Take, ReaderState, SessionTypeOK
    <2>2. /\ UNCHANGED <<session, writing, cause, failed>> /\ pc = "select"
          /\ \/ pc' = "execute" /\ frame' = <<session, received[session]>>
             \/ pc' = pc /\ frame' = frame
      BY <1>9 DEF TakeFrame, Take
    <2>3. <<session, received[session]>> \in Frames
      BY <2>1 DEF Frames
    <2>4. QED
      BY <1>0, <2>1, <2>2, <2>3 DEF LoopState
  <1>10. CASE Execute
    BY <1>10, <1>0 DEF Execute, LoopState, readVars
  <1>11. CASE Tick
    BY <1>11, <1>0 DEF Tick, LoopState, readVars, history
  <1>12. CASE Written
    BY <1>12, <1>0 DEF Written, GivenUp, WriteRest, LoopState, readVars
  <1>13. CASE WriteFails
    BY <1>13, <1>0 DEF WriteFails, WriteEndsBadly, GivenUp, NotWritten, WriteRest, LoopState,
       readVars
  <1>14. CASE WriteBegins \/ WriteGivenUp \/ CloseBegins
    BY <1>14, <1>0 DEF WriteBegins, WriteGivenUp, CloseBegins, WriteRest, LoopState, readVars
  <1>15. CASE CloseEnds
    BY <1>15, <1>0 DEF CloseEnds, NotWritten, WriteRest, LoopState, readVars
  <1>16. CASE TakeError \/ Cancelled \/ EndEarly
    BY <1>16, <1>0 DEF TakeError, Cancelled, EndEarly, Leave, LoopState, readVars, history
  <1>17. CASE Finish
    BY <1>17, <1>0 DEF Finish, LoopState, readVars, history
  <1>18. CASE UNCHANGED vars
    BY <1>18, <1>0 DEF vars, LoopState
  <1>19. QED
    BY <1>1, <1>2, <1>3, <1>4, <1>7, <1>8, <1>9, <1>10, <1>11, <1>12, <1>13, <1>16, <1>17, <1>18,
       <1>5, <1>6, <1>14, <1>15 DEF Next, Loop, Reader

-----------------------------------------------------------------------------
(* The order of the requests *)

Ordered == \A i \in 1 .. Len(executed) : Past(executed[i])

\* Sessions and frames only become later, so what was past remains so, up to
\* the frame the loop has just taken.
LEMMA OrderedKept ==
  ASSUME SessionTypeOK, SessionTypeOK', Ordered, UNCHANGED executed,
         \/ session' = session /\ (session \in Sessions => taken[session] <= taken'[session])
         \/ session' = session + 1,
         pc' # "execute" \/ (pc = "execute" /\ frame' = frame)
  PROVE  Ordered'
  <1> SUFFICES ASSUME NEW i \in 1 .. Len(executed)
               PROVE  Past(executed[i])'
    BY DEF Ordered
  <1>1. executed[i] \in Frames
    BY DEF SessionTypeOK
  <1> DEFINE e == executed[i]
  <1>2. e[1] \in Sessions /\ e[2] \in Nat /\ session \in Nat /\ session' \in Nat
    <2>1. e[1] \in Sessions /\ e[2] \in Nat
      BY <1>1 DEF Frames
    <2>2. session \in Nat /\ session' \in Nat
      BY DEF SessionTypeOK
    <2>3. QED
      BY <2>1, <2>2
  <1>3. taken[e[1]] \in Nat /\ taken'[e[1]] \in Nat
    BY <1>2 DEF SessionTypeOK
  <1>4. Past(e)
    BY DEF Ordered
  <1>5. Taken(e)'
    BY SMTT(60), <1>2, <1>3, <1>4 DEF Past, Taken, Sessions
  <1>6. QED
    BY <1>4, <1>5 DEF Past, Before

LEMMA OrderStep ==
  ASSUME SessionInv, [Next]_vars
  PROVE  Ordered' /\ AnswersInOrder'
  <1>0. SessionTypeOK /\ SessionTypeOK' /\ Ordered /\ AnswersInOrder /\ LoopState
    BY TypeStep DEF SessionInv, Ordered
  <1>1. ASSUME UNCHANGED <<session, pc, frame, taken, executed, answered>>
        PROVE  Ordered' /\ AnswersInOrder'
    BY <1>1, <1>0 DEF Ordered, Past, Taken, AnswersInOrder
  <1>2. ASSUME UNCHANGED <<executed, answered>>
        PROVE  AnswersInOrder'
    BY <1>2, <1>0 DEF AnswersInOrder
  <1>3. CASE Dial
    BY <1>0, <1>2, <1>3, OrderedKept DEF Dial, history
  <1>4. CASE TakeFrame
    <2>1. /\ session \in Sessions /\ taken[session] \in Nat
          /\ taken'[session] = taken[session] + 1
          /\ received[session] = taken[session] + 1
      BY <1>4, <1>0 DEF TakeFrame, Take, SessionInv, ReaderState, SessionTypeOK
    <2>2. /\ UNCHANGED <<session, executed, answered>> /\ pc = "select"
          /\ \/ pc' = "execute" /\ frame' = <<session, received[session]>>
             \/ pc' = pc /\ frame' = frame
      BY <1>4 DEF TakeFrame, Take
    <2>3. CASE pc' = pc
      BY <1>0, <1>2, <2>1, <2>2, <2>3, OrderedKept
    <2>4. CASE pc' = "execute" /\ frame' = <<session, received[session]>>
      <3>1. ASSUME NEW i \in 1 .. Len(executed)
            PROVE  Past(executed[i])'
        <4> DEFINE e == executed[i]
        <4>1. e \in Frames
          BY <1>0 DEF SessionTypeOK
        <4>2. e[1] \in Nat /\ e[2] \in Nat /\ session \in Nat
          <5>1. e[1] \in Sessions /\ e[2] \in Nat
            BY <4>1 DEF Frames
          <5>2. session \in Nat
            BY <1>0 DEF SessionTypeOK
          <5>3. QED
            BY <5>1, <5>2 DEF Sessions
        <4>3. Taken(e)
          BY <1>0 DEF Ordered, Past
        <4>4. Taken(e)' /\ Before(e, frame')
          BY SMTT(60), <2>1, <2>2, <2>4, <4>2, <4>3 DEF Taken, Before
        <4>5. QED
          BY <2>2, <4>4 DEF Past
      <3>2. QED
        BY <1>2, <2>2, <3>1 DEF Ordered
    <2>5. QED
      BY <2>2, <2>3, <2>4
  <1>5. CASE Execute
    <2>1. /\ pc = "execute" /\ pc' = "write" /\ executed' = Append(executed, frame)
          /\ UNCHANGED <<session, taken, answered>>
      BY <1>5 DEF Execute
    <2>2. executed \in Seq(Frames) /\ frame \in Frames
      BY <1>0, <2>1, FrameType DEF SessionTypeOK
    <2>3. /\ Len(executed') = Len(executed) + 1
          /\ executed'[Len(executed) + 1] = frame
          /\ \A i \in 1 .. Len(executed) : executed'[i] = executed[i]
      BY <2>1, <2>2
    <2>4. \A i \in 1 .. Len(executed) : Taken(executed[i]) /\ Before(executed[i], frame)
      BY <1>0, <2>1 DEF Ordered, Past
    <2>5. Taken(frame)
      BY <1>0, <2>1 DEF LoopState, Taken, SessionTypeOK
    <2>6. Ordered'
      BY <2>1, <2>2, <2>3, <2>4, <2>5 DEF Ordered, Past, Taken
    <2>7. AnswersInOrder'
      BY <1>0, <2>1, <2>2, <2>3, <2>4 DEF AnswersInOrder
    <2>8. QED
      BY <2>6, <2>7
  <1>6. ASSUME Delivered, UNCHANGED executed
        PROVE  AnswersInOrder'
    <2>1. writing = "answer" => frame[1] = session
      BY <1>0 DEF LoopState
    <2>2. \A a \in answered' : a[1] = a[2][1]
      BY <1>0, <1>6, <2>1 DEF Delivered, AnswersInOrder
    <2>3. QED
      BY <1>0, <1>6, <2>2 DEF AnswersInOrder
  <1>7. CASE Written \/ WriteFails \/ WriteBegins \/ WriteGivenUp \/ CloseBegins \/ CloseEnds
    <2>1. /\ UNCHANGED <<session, frame, taken, executed>> /\ pc' # "execute"
          /\ Delivered \/ UNCHANGED answered
      BY <1>7 DEF Written, WriteFails, WriteEndsBadly, GivenUp, WriteBegins, WriteGivenUp,
         CloseBegins, CloseEnds, NotWritten, WriteRest
    <2>2. session \in Sessions => taken[session] <= taken'[session]
      BY <1>0, <2>1 DEF SessionTypeOK
    <2>3. Ordered'
      BY <1>0, <2>1, <2>2, OrderedKept
    <2>4. AnswersInOrder'
      BY <1>2, <1>6, <2>1
    <2>5. QED
      BY <2>3, <2>4
  <1>8. CASE Tick \/ TakeError \/ Cancelled \/ EndEarly \/ Finish
    <2>1. UNCHANGED <<session, frame, taken, executed, answered>> /\ pc' # "execute"
      BY <1>8 DEF Tick, TakeError, Cancelled, EndEarly, Leave, Finish, history
    <2>2. session \in Sessions => taken[session] <= taken'[session]
      BY <1>0, <2>1 DEF SessionTypeOK
    <2>3. QED
      BY <1>0, <1>2, <2>1, <2>2, OrderedKept
  <1>9. ASSUME NEW s \in Sessions, NEW kind \in Kinds, NEW how \in {"finished", "broken"},
               Send(s, kind) \/ Lose(s, how) \/ Reader(s) \/ ReaderClosed(s)
        PROVE  Ordered' /\ AnswersInOrder'
    BY <1>1, <1>9 DEF Send, Lose, Reader, Receive, ReadFails, Fail, ReadGivenUp, ReaderCloses,
       ReaderClosed, loopVars, history
  <1>10. CASE Stop \/ UNCHANGED vars
    BY <1>1, <1>10 DEF Stop, vars, loopVars, history
  <1>11. QED
    <2>1. "event" \in Kinds
      BY DEF Kinds
    <2>2. QED
      BY <1>3, <1>4, <1>5, <1>7, <1>8, <1>9, <1>10, <2>1 DEF Next, Loop

-----------------------------------------------------------------------------
(* Theorems *)

THEOREM SessionInvariant == Spec => []SessionInv
  <1>1. SessionInv /\ [Next]_vars => SessionInv'
    BY TypeStep, ReaderStep, LoopStep, OrderStep DEF SessionInv, Ordered
  <1>2. QED
    BY InitInvariant, <1>1, PTL DEF Spec

\* Every variable keeps its type, for any number of sessions and frames.
THEOREM SessionTypeCorrect == Spec => []SessionTypeOK
  <1>1. SessionInv => SessionTypeOK
    BY DEF SessionInv
  <1>2. QED
    BY SessionInvariant, <1>1, PTL

\* Requests are executed once, in the order in which they were sent, and
\* answered on the connection they came on (handleRequest, readFrames).
THEOREM RequestsInOrder == Spec => []AnswersInOrder
  <1>1. SessionInv => AnswersInOrder
    BY DEF SessionInv
  <1>2. QED
    BY SessionInvariant, <1>1, PTL

\* A read error ends a session only after the last frame that was read before
\* it (readErrors, readFrames).
THEOREM ErrorsComeLast == Spec => []NothingLostBeforeError
  <1>1. SessionInv => NothingLostBeforeError
    <2> SUFFICES ASSUME SessionInv, pc = "leave", cause = "error"
                 PROVE  /\ taken[session] = received[session]
                        /\ conn[session] = "finished" => ~Unread(session)
      BY DEF NothingLostBeforeError
    <2>1. failed[session] /\ session \in Sessions
      BY DEF SessionInv, LoopState
    <2>2. ReaderState(session) /\ ErrorState(session)
      BY <2>1 DEF SessionInv
    <2>3. QED
      BY <2>1, <2>2 DEF ReaderState, ErrorState
  <1>2. QED
    BY SessionInvariant, <1>1, PTL
=============================================================================
