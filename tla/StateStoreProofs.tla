-------------------------- MODULE StateStoreProofs --------------------------
(***************************************************************************)
(* Theorems about the state file, for every set of calls and processes.    *)
(* That the file is never torn needs the temporary file alone.  That an    *)
(* acknowledged update is durable needs the mutex as well, so it is proved *)
(* for calls of one process, where directories can be flushed.             *)
(***************************************************************************)
EXTENDS StateStore, TLAPS

USE DEF Updates, Forms, Content, Missing, Torn, Whole, Trailing, InFlight, At, Goto

-----------------------------------------------------------------------------
(* Type correctness *)

LEMMA StoreTypeInit == Init => StoreTypeOK
  BY CallAssumption DEF Init, StoreTypeOK

LEMMA StoreTypeStep == StoreTypeOK /\ [Next]_vars => StoreTypeOK'
<1> SUFFICES ASSUME StoreTypeOK, [Next]_vars
             PROVE  StoreTypeOK'
  OBVIOUS
<1>w. windows' = windows
  BY DEF Next, vars
<1> USE <1>w DEF StoreTypeOK
<1>1. ASSUME NEW c \in Calls, Step(c)
      PROVE  StoreTypeOK'
  <2>p. ProcOf[c] \in Procs
    BY CallAssumption
  <2>1. CASE Lock(c)
    BY <2>1, <2>p DEF Lock
  <2>2. CASE Read(c)
    BY <2>2 DEF Read
  <2>3. CASE WriteTemp(c)
    BY <2>3 DEF WriteTemp
  <2>4. CASE Flush(c)
    BY <2>4 DEF Flush
  <2>5. CASE Rename(c)
    BY <2>5 DEF Rename, Survivor
  <2>6. CASE RemoveTarget(c)
    BY <2>6 DEF RemoveTarget
  <2>7. CASE SyncDir(c)
    BY <2>7 DEF SyncDir, Saved
  <2>8. CASE Fail(c)
    BY <2>8 DEF Fail
  <2>9. CASE Return(c)
    BY <2>9, <2>p DEF Return
  <2> QED
    BY <1>1, <2>1, <2>2, <2>3, <2>4, <2>5, <2>6, <2>7, <2>8, <2>9 DEF Step
<1>2. ASSUME NEW p \in Procs, Crash(p)
      PROVE  StoreTypeOK'
  BY <1>2 DEF Crash, Kill
<1>3. CASE PowerLoss
  BY <1>3 DEF PowerLoss, Kill
<1>4. CASE UNCHANGED vars
  BY <1>4 DEF vars
<1> QED
  BY <1>1, <1>2, <1>3, <1>4 DEF Next

\* Every variable keeps its type, for every value of the constants.
THEOREM StoreTypeCorrect == Spec => []StoreTypeOK
  BY StoreTypeInit, StoreTypeStep, PTL DEF Spec

-----------------------------------------------------------------------------
(* The file is never torn *)

FlushedFirst == \A c \in Calls : pc[c] \in {"rename", "again"} => temp[c] = "flushed"

LEMMA WholeInit == Init => FlushedFirst /\ NeverTorn
  BY DEF Init, FlushedFirst, NeverTorn

LEMMA WholeStep ==
  StoreTypeOK /\ FlushedFirst /\ NeverTorn /\ [Next]_vars
    => FlushedFirst' /\ NeverTorn'
<1> SUFFICES ASSUME StoreTypeOK, FlushedFirst, NeverTorn, [Next]_vars
             PROVE  FlushedFirst' /\ NeverTorn'
  OBVIOUS
<1> USE DEF StoreTypeOK, FlushedFirst, NeverTorn
<1>1. ASSUME NEW c \in Calls, Step(c)
      PROVE  FlushedFirst' /\ NeverTorn'
  <2>1. CASE Lock(c) \/ Read(c) \/ WriteTemp(c) \/ Flush(c)
    BY <2>1 DEF Lock, Read, WriteTemp, Flush
  <2>2. CASE Rename(c)
    <3>1. Survivor(c) = Whole(value[c])
      BY <2>2 DEF Rename, Survivor
    <3> QED
      BY <2>2, <3>1 DEF Rename
  <2>3. CASE RemoveTarget(c)
    BY <2>3 DEF RemoveTarget
  <2>4. CASE SyncDir(c)
    BY <2>4 DEF SyncDir, Saved
  <2>5. CASE Fail(c) \/ Return(c)
    BY <2>5 DEF Fail, Return
  <2> QED
    BY <1>1, <2>1, <2>2, <2>3, <2>4, <2>5 DEF Step
<1>2. ASSUME NEW p \in Procs, Crash(p)
      PROVE  FlushedFirst' /\ NeverTorn'
  BY <1>2 DEF Crash, Kill
<1>3. CASE PowerLoss
  BY <1>3 DEF PowerLoss, Kill
<1>4. CASE UNCHANGED vars
  BY <1>4 DEF vars
<1> QED
  BY <1>1, <1>2, <1>3, <1>4 DEF Next

\* Whoever writes, crashes or loses power: the file is never half a document.
THEOREM FileNeverTorn == Spec => []NeverTorn
<1>1. Init => StoreTypeOK /\ FlushedFirst /\ NeverTorn
  BY StoreTypeInit, WholeInit
<1>2. (StoreTypeOK /\ FlushedFirst /\ NeverTorn) /\ [Next]_vars
        => (StoreTypeOK /\ FlushedFirst /\ NeverTorn)'
  BY StoreTypeStep, WholeStep
<1> QED
  BY <1>1, <1>2, PTL DEF Spec

-----------------------------------------------------------------------------
(* Acknowledged updates, for one process that can flush directories *)

OneProcess == \A c, d \in Calls : ProcOf[c] = ProcOf[d]

\* The mutex: a call under way holds it.
Holds == \A c \in Calls : pc[c] \in InFlight => lock[ProcOf[c]] = c

\* What the call under way knows of the file, at each of its places.
Knows(c) ==
    /\ pc[c] \in {"save", "sync", "rename"} =>
         file.ops \subseteq value[c] /\ value[c] \subseteq file.ops \cup {c}
    /\ pc[c] # "again"
    /\ pc[c] = "syncDir" => file = Whole(value[c])
    /\ pc[c] = "ok" => \A x \in mayHold : {c} \ Loads \subseteq x.ops

\* A rename only adds to what the file has, so a loss of power only takes away.
Growing == \A x \in mayHold : x.ops \subseteq file.ops

DurInv ==
    /\ ~windows
    /\ StoreTypeOK
    /\ FlushedFirst
    /\ NeverTorn
    /\ file \in mayHold
    /\ Growing
    /\ Holds
    /\ \A c \in Calls : Knows(c)
    /\ AcknowledgedDurable

LEMMA DurInit == Init /\ ~windows => DurInv
<1> SUFFICES ASSUME Init, ~windows PROVE DurInv
  OBVIOUS
<1>1. StoreTypeOK
  BY StoreTypeInit
<1>2. \A c \in Calls : Knows(c)
  BY DEF Init, Knows
<1> QED
  BY <1>1, <1>2, WholeInit DEF DurInv, Init, Holds, Growing, AcknowledgedDurable

\* At most one call is under way.
LEMMA Alone ==
  ASSUME OneProcess, StoreTypeOK, Holds, NEW c \in Calls, NEW d \in Calls, c # d,
         pc[c] \in InFlight
  PROVE  pc[d] \notin InFlight
  BY DEF OneProcess, Holds

LEMMA DurStep == OneProcess /\ DurInv /\ [Next]_vars => DurInv'
<1> SUFFICES ASSUME OneProcess, DurInv, [Next]_vars
             PROVE  DurInv'
  OBVIOUS
<1>t. StoreTypeOK' /\ FlushedFirst' /\ NeverTorn' /\ ~windows'
  BY StoreTypeStep, WholeStep DEF DurInv, Next, vars
<1> USE DEF DurInv, StoreTypeOK
<1>1. ASSUME NEW c \in Calls, Step(c)
      PROVE  DurInv'
  <2>a. \A d \in Calls : d # c => pc'[d] = pc[d] /\ value'[d] = value[d]
    BY <1>1 DEF Step, Lock, Read, WriteTemp, Flush, Rename, RemoveTarget, SyncDir,
                Saved, Fail, Return
  <2>b. \A d \in Calls : d # c => pc'[d] \notin InFlight
    <3> SUFFICES ASSUME NEW d \in Calls, d # c
                 PROVE  pc[d] \notin InFlight
      BY <2>a
    <3>1. CASE Lock(c)
      BY <3>1, CallAssumption DEF Lock, Holds, OneProcess
    <3>2. CASE pc[c] \in InFlight
      BY <3>2, Alone
    <3> QED
      BY <1>1, <3>1, <3>2 DEF Step, Read, WriteTemp, Flush, Rename, RemoveTarget,
                              SyncDir, Fail, Return
  <2>h. Holds'
    <3>1. pc'[c] \in InFlight => lock'[ProcOf[c]] = c
      <4>1. ProcOf[c] \in Procs
        BY CallAssumption
      <4> QED
        BY <1>1, <4>1 DEF Step, Lock, Read, WriteTemp, Flush, Rename, RemoveTarget,
                  SyncDir, Saved, Fail, Return, Holds
    <3> QED
      BY <2>b, <3>1 DEF Holds
  <2>k. \A d \in Calls : d # c => Knows(d)'
    BY <2>b DEF Knows
  <2>1. CASE Lock(c)
    <3>1. Knows(c)'
      BY <2>1 DEF Lock, Knows
    <3> QED
      BY <1>t, <2>1, <2>h, <2>k, <3>1 DEF Lock, Growing, AcknowledgedDurable
  <2>2. CASE Read(c)
    <3>1. Knows(c)'
      BY <2>2 DEF Read, Knows
    <3> QED
      BY <1>t, <2>2, <2>h, <2>k, <3>1 DEF Read, Growing, AcknowledgedDurable
  <2>3. CASE WriteTemp(c) \/ Flush(c) \/ Fail(c)
    <3>1. Knows(c)'
      BY <2>3 DEF WriteTemp, Flush, Fail, Knows
    <3> QED
      BY <1>t, <2>3, <2>h, <2>k, <3>1 DEF WriteTemp, Flush, Fail, Growing,
                                         AcknowledgedDurable
  <2>4. CASE Rename(c)
    <3>1. Knows(c)'
      BY <2>4 DEF Rename, Knows
    <3>2. pc[c] = "rename"
      BY <2>4 DEF Rename, Knows
    <3>3. file' = Whole(value[c]) /\ mayHold' = mayHold \cup {file'}
      BY <2>4, <3>2 DEF Rename, Survivor, FlushedFirst
    <3>4. acked \subseteq file'.ops
      BY <3>2, <3>3 DEF Knows, AcknowledgedDurable
    <3>5. AcknowledgedDurable'
      BY <2>4, <3>3, <3>4 DEF Rename, AcknowledgedDurable
    <3>6. Growing'
      BY <3>2, <3>3 DEF Knows, Growing
    <3> QED
      BY <1>t, <2>4, <2>h, <2>k, <3>1, <3>3, <3>5, <3>6
  <2>5. CASE SyncDir(c)
    <3>1. Knows(c)'
      BY <2>5 DEF SyncDir, Saved, Knows, OneProcess
    <3> QED
      BY <1>t, <2>5, <2>h, <2>k, <3>1 DEF SyncDir, Saved, Growing,
                                         AcknowledgedDurable, OneProcess
  <2>6. CASE Return(c)
    <3>1. Knows(c)'
      BY <2>6 DEF Return, Knows
    <3> QED
      BY <1>t, <2>6, <2>h, <2>k, <3>1 DEF Return, Knows, Growing,
                                         AcknowledgedDurable
  <2> QED
    BY <1>1, <2>1, <2>2, <2>3, <2>4, <2>5, <2>6 DEF Step, RemoveTarget, OneProcess
<1>2. ASSUME NEW p \in Procs, Crash(p)
      PROVE  DurInv'
  <2>1. \A c \in Calls : pc'[c] \in InFlight => pc'[c] = pc[c] /\ ProcOf[c] # p
    BY <1>2 DEF Crash, Kill
  <2>2. Holds'
    BY <1>2, <2>1, CallAssumption DEF Crash, Kill, Holds
  <2>3. \A c \in Calls : Knows(c)'
    BY <1>2, <2>1 DEF Crash, Knows
  <2> QED
    BY <1>t, <1>2, <2>2, <2>3 DEF Crash, Growing, AcknowledgedDurable
<1>3. CASE PowerLoss
  <2>1. \A c \in Calls : pc'[c] \notin InFlight
    BY <1>3, CallAssumption DEF PowerLoss, Kill
  <2>2. Holds'
    BY <2>1 DEF Holds
  <2>3. \A c \in Calls : Knows(c)'
    BY <2>1 DEF Knows
  <2>4. file' \in mayHold' /\ Growing' /\ AcknowledgedDurable'
    BY <1>3 DEF PowerLoss, Growing, AcknowledgedDurable
  <2> QED
    BY <1>t, <1>3, <2>1, <2>2, <2>3, <2>4
<1>4. CASE UNCHANGED vars
  BY <1>t, <1>4 DEF vars, Holds, Knows, Growing, AcknowledgedDurable
<1> QED
  BY <1>1, <1>2, <1>3, <1>4 DEF Next

\* In one process that can flush directories no acknowledged update is lost,
\* not even by a loss of power.
THEOREM Durable == OneProcess /\ Spec => []AcknowledgedDurable
<1> SUFFICES ASSUME OneProcess
             PROVE  Spec => []AcknowledgedDurable
  OBVIOUS
<1>1. Init => windows \/ DurInv
  BY DurInit
<1>2. (windows \/ DurInv) /\ [Next]_vars => (windows \/ DurInv)'
  <2>1. windows' = windows \/ ~[Next]_vars
    BY DEF Next, vars
  <2> QED
    BY <2>1, DurStep
<1>3. windows \/ DurInv => AcknowledgedDurable
  BY DEF DurInv, AcknowledgedDurable
<1> QED
  BY <1>1, <1>2, <1>3, PTL DEF Spec

-----------------------------------------------------------------------------
(* Where an acknowledged update may be lost, on any platform *)

\* What the call under way knows of the file on a platform that may remove it.
KnowsFile(c) ==
    /\ pc[c] \in {"save", "sync", "rename", "again"} => file.ops \subseteq value[c]
    /\ pc[c] = "syncDir" => file = Whole(value[c])
    /\ pc[c] = "ok" => {c} \ Loads \subseteq file.ops

LossInv == StoreTypeOK /\ Holds /\ \A c \in Calls : KnowsFile(c)

LEMMA LossStep == OneProcess /\ LossInv /\ [Next]_vars => LossInv'
<1> SUFFICES ASSUME OneProcess, LossInv, [Next]_vars
             PROVE  LossInv'
  OBVIOUS
<1>t. StoreTypeOK'
  BY StoreTypeStep DEF LossInv
<1> USE DEF LossInv, StoreTypeOK
<1>1. ASSUME NEW c \in Calls, Step(c)
      PROVE  LossInv'
  <2>a. \A d \in Calls : d # c => pc'[d] = pc[d]
    BY <1>1 DEF Step, Lock, Read, WriteTemp, Flush, Rename, RemoveTarget, SyncDir,
                Saved, Fail, Return
  <2>b. \A d \in Calls : d # c => pc'[d] \notin InFlight
    <3> SUFFICES ASSUME NEW d \in Calls, d # c
                 PROVE  pc[d] \notin InFlight
      BY <2>a
    <3>1. CASE Lock(c)
      BY <3>1, CallAssumption DEF Lock, Holds, OneProcess
    <3>2. CASE pc[c] \in InFlight
      BY <3>2, Alone
    <3> QED
      BY <1>1, <3>1, <3>2 DEF Step, Read, WriteTemp, Flush, Rename, RemoveTarget,
                              SyncDir, Fail, Return
  <2>h. Holds'
    <3>1. pc'[c] \in InFlight => lock'[ProcOf[c]] = c
      <4>1. ProcOf[c] \in Procs
        BY CallAssumption
      <4> QED
        BY <1>1, <4>1 DEF Step, Lock, Read, WriteTemp, Flush, Rename, RemoveTarget,
                  SyncDir, Saved, Fail, Return, Holds
    <3> QED
      BY <2>b, <3>1 DEF Holds
  <2>k. \A d \in Calls : d # c => KnowsFile(d)'
    BY <2>b DEF KnowsFile, InFlight
  <2>1. CASE Lock(c) \/ WriteTemp(c) \/ Flush(c) \/ Fail(c) \/ Return(c)
    BY <1>t, <2>1, <2>h, <2>k DEF Lock, WriteTemp, Flush, Fail, Return, Goto, KnowsFile
  <2>2. CASE Read(c)
    BY <1>t, <2>2, <2>h, <2>k DEF Read, Goto, KnowsFile
  <2>3. CASE Rename(c)
    BY <1>t, <2>3, <2>h, <2>k DEF Rename, Goto, KnowsFile
  <2>4. CASE RemoveTarget(c)
    BY <1>t, <2>4, <2>h, <2>k DEF RemoveTarget, Goto, KnowsFile, Missing
  <2>5. CASE SyncDir(c)
    <3>1. file = Whole(value[c]) /\ file' = file
      BY <2>5 DEF SyncDir, At, KnowsFile
    <3>2. KnowsFile(c)'
      BY <2>5, <3>1 DEF SyncDir, Saved, Goto, KnowsFile, Whole
    <3> QED
      BY <1>t, <2>h, <2>k, <3>2
  <2> QED
    BY <1>1, <2>1, <2>2, <2>3, <2>4, <2>5 DEF Step
<1>2. ASSUME NEW p \in Procs, Crash(p)
      PROVE  LossInv'
  <2>1. \A c \in Calls : pc'[c] \in InFlight => pc'[c] = pc[c] /\ ProcOf[c] # p
    BY <1>2 DEF Crash, Kill
  <2>2. Holds'
    BY <1>2, <2>1, CallAssumption DEF Crash, Kill, Holds
  <2>3. \A c \in Calls : KnowsFile(c)'
    BY <1>2, <2>1 DEF Crash, KnowsFile, InFlight
  <2> QED
    BY <1>t, <2>2, <2>3
<1>3. CASE PowerLoss
  <2>1. \A c \in Calls : pc'[c] \notin InFlight
    BY <1>3, CallAssumption DEF PowerLoss, Kill
  <2> QED
    BY <1>t, <2>1 DEF Holds, KnowsFile, InFlight
<1>4. CASE UNCHANGED vars
  BY <1>t, <1>4 DEF vars, Holds, KnowsFile
<1> QED
  BY <1>1, <1>2, <1>3, <1>4 DEF Next

\* In one process an acknowledged update disappears from the file only when a
\* refused replacement removes the target, or in a loss of power where
\* directories are not flushed.
THEOREM LossOnlyByRemoval == OneProcess /\ Spec => LostOnlyByRemoval
<1> SUFFICES ASSUME OneProcess
             PROVE  Spec => LostOnlyByRemoval
  OBVIOUS
<1> DEFINE Inv == LossInv /\ (windows \/ DurInv)
           Lost == acked \subseteq file.ops =>
                     \/ acked' \subseteq file'.ops
                     \/ windows /\ (file'.form = "missing" \/ PowerLoss)
<1>1. Init => Inv
  <2> SUFFICES ASSUME Init PROVE LossInv
    BY DurInit
  <2> QED
    BY StoreTypeInit DEF Init, LossInv, Holds, KnowsFile
<1>2. Inv /\ [Next]_vars => Inv'
  <2>1. windows' = windows \/ ~[Next]_vars
    BY DEF Next, vars
  <2> QED
    BY <2>1, DurStep, LossStep
<1>3. Inv /\ Inv' /\ [Next]_vars => Lost
  <2> SUFFICES ASSUME LossInv, LossInv', windows \/ DurInv, windows' \/ DurInv',
                      [Next]_vars, acked \subseteq file.ops
               PROVE  Lost
    OBVIOUS
  <2>1. CASE ~windows
    <3>1. ~windows'
      BY <2>1 DEF Next, vars
    <3> QED
      BY <3>1 DEF DurInv, AcknowledgedDurable
  <2>2. ASSUME NEW c \in Calls, Step(c), windows
        PROVE  Lost
    <3>1. CASE Lock(c) \/ Read(c) \/ WriteTemp(c) \/ Flush(c) \/ SyncDir(c) \/ Fail(c)
      BY <3>1 DEF Lock, Read, WriteTemp, Flush, SyncDir, Fail
    <3>2. CASE Rename(c)
      <4>1. file' = Whole(value[c]) /\ acked' = acked /\ file.ops \subseteq value[c]
        BY <3>2 DEF Rename, LossInv, KnowsFile
      <4> QED
        BY <4>1 DEF Whole
    <3>3. CASE RemoveTarget(c)
      BY <2>2, <3>3 DEF RemoveTarget, Missing
    <3>4. CASE Return(c)
      BY <3>4 DEF Return, At, LossInv, KnowsFile
    <3> QED
      BY <2>2, <3>1, <3>2, <3>3, <3>4 DEF Step
  <2>3. CASE \E p \in Procs : Crash(p)
    BY <2>3 DEF Crash
  <2>4. CASE PowerLoss /\ windows
    BY <2>4
  <2>5. CASE UNCHANGED vars
    BY <2>5 DEF vars
  <2> QED
    BY <2>1, <2>2, <2>3, <2>4, <2>5 DEF Next
<1>4. Spec => [](Inv)
  BY <1>1, <1>2, PTL DEF Spec
<1>5. Spec => [][Lost]_vars
  BY <1>3, <1>4, PTL DEF Spec
<1> QED
  BY <1>5 DEF LostOnlyByRemoval

-----------------------------------------------------------------------------
(* Refinement: one process that can flush directories implements AtomicState *)

LEMMA SameElements ==
  ASSUME NEW S, NEW T, S \subseteq T, T \subseteq S
  PROVE  S = T
  OBVIOUS

LEMMA AtomicInit == Init => Atomic!Init
  BY DEF Init, Atomic!Init

LEMMA AtomicStep ==
  OneProcess /\ DurInv /\ DurInv' /\ [Next]_vars => [Atomic!Next]_(Atomic!vars)
<1> SUFFICES ASSUME OneProcess, DurInv, DurInv', [Next]_vars
             PROVE  Atomic!Next \/ UNCHANGED <<~windows, file.ops, acked>>
  BY DEF Atomic!vars
<1>w. windows' = windows
  BY DEF Next, vars
<1> USE <1>w DEF DurInv, StoreTypeOK
<1>1. ASSUME NEW c \in Calls, Step(c)
      PROVE  Atomic!Next \/ UNCHANGED <<~windows, file.ops, acked>>
  <2>1. CASE Lock(c) \/ Read(c) \/ WriteTemp(c) \/ Flush(c) \/ SyncDir(c) \/ Fail(c)
    BY <2>1 DEF Lock, Read, WriteTemp, Flush, SyncDir, Fail
  <2>2. CASE Rename(c)
    <3>1. pc[c] = "rename" /\ file'.ops = value[c] /\ acked' = acked
      BY <2>2 DEF Rename, Knows
    <3>2. file.ops \subseteq value[c] /\ value[c] \subseteq file.ops \cup {c}
      BY <3>1 DEF Knows
    <3>3. CASE c \in value[c] /\ c \notin file.ops
      <4>1. c \in Updates /\ file'.ops = file.ops \cup {c}
        BY <3>1, <3>2, <3>3
      <4> QED
        BY <3>1, <3>3, <4>1 DEF Atomic!Next, Atomic!Commit
    <3>4. CASE ~(c \in value[c] /\ c \notin file.ops)
      <4>1. value[c] \subseteq file.ops
        BY <3>2, <3>4
      <4>2. value[c] = file.ops
        BY ZenonT(100), <3>2, <4>1, SameElements
      <4> QED
        BY <3>1, <4>2
    <3> QED
      BY <3>3, <3>4
  <2>3. CASE Return(c)
    <3>1. CASE pc[c] = "ok" /\ c \notin Loads
      <4>1. c \in Updates /\ c \in file.ops
        BY <3>1 DEF Knows
      <4>2. file'.ops = file.ops /\ acked' = acked \cup {c}
        BY <2>3, <3>1 DEF Return
      <4> QED
        BY <4>1, <4>2 DEF Atomic!Next, Atomic!Acknowledge
    <3>2. CASE ~(pc[c] = "ok" /\ c \notin Loads)
      BY <2>3, <3>2 DEF Return
    <3> QED
      BY <3>1, <3>2
  <2> QED
    BY <1>1, <2>1, <2>2, <2>3 DEF Step, RemoveTarget, OneProcess
<1>2. ASSUME NEW p \in Procs, Crash(p)
      PROVE  UNCHANGED <<~windows, file.ops, acked>>
  BY <1>2 DEF Crash
<1>3. CASE PowerLoss
  <2>1. acked' = acked /\ acked \subseteq file'.ops
    BY <1>3 DEF PowerLoss, AcknowledgedDurable
  <2>2. CASE file'.ops \subseteq file.ops
    BY <2>1, <2>2 DEF Atomic!Next, Atomic!Lose
  <2> QED
    BY <1>3, <2>2 DEF PowerLoss, Growing
<1>4. CASE UNCHANGED vars
  BY <1>4 DEF vars
<1> QED
  BY <1>1, <1>2, <1>3, <1>4 DEF Next

\* The calls of one process, with its crashes and losses of power, implement
\* AtomicState.
THEOREM RefinesAtomicState == OneProcess /\ ~windows /\ Spec => ImplementsAtomicState
<1> SUFFICES ASSUME OneProcess
             PROVE  ~windows /\ Spec => ImplementsAtomicState
  OBVIOUS
<1>1. DurInv /\ [Next]_vars => DurInv'
  BY DurStep
<1>2. DurInv /\ DurInv' /\ [Next]_vars => [Atomic!Next]_(Atomic!vars)
  BY AtomicStep
<1> QED
  BY DurInit, AtomicInit, <1>1, <1>2, PTL
     DEF Spec, ImplementsAtomicState, Atomic!Spec
=============================================================================
