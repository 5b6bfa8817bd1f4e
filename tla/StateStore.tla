----------------------------- MODULE StateStore -----------------------------
(***************************************************************************)
(* The state file and the calls that read and update it (package state):   *)
(* Store.Load and Store.Update as goroutines of one or several processes,  *)
(* each process with a mutex of its own, and writeFileAtomic step by step  *)
(* against crashes of a process and losses of power.                       *)
(*                                                                         *)
(* The content of the file is abstracted to the set of updates it          *)
(* includes: an Update reads the file, adds itself and writes the result.  *)
(***************************************************************************)
CONSTANTS Calls,       \* the calls made in a behaviour, each at most once
          Loads,       \* those that are a Load; the others are an Update
          Procs,       \* the processes that have the file open in a Store
          ProcOf,      \* the process of each call
          NoCall       \* an unlocked mutex

ASSUME CallAssumption ==
    /\ Loads \subseteq Calls
    /\ ProcOf \in [Calls -> Procs]
    /\ NoCall \notin Calls

VARIABLES
    windows,   \* the platform, which never changes: a file is replaced in two
               \* steps if it must, and a directory is not flushed
    file,      \* what readers find under the path
    mayHold,   \* what a loss of power may leave under the path
    lock,      \* the mutex of each process
    pc,        \* where each call stands
    value,     \* the updates each call has in its copy of the state
    temp,      \* the temporary file of each call
    acked      \* the updates whose call returned without an error

vars == <<windows, file, mayHold, lock, pc, value, temp, acked>>

Updates == Calls \ Loads

Forms == {"missing", "whole", "trailing", "torn"}

Content == [ops: SUBSET Updates, form: Forms]

Missing   == [ops |-> {}, form |-> "missing"]
Torn      == [ops |-> {}, form |-> "torn"]
Whole(s)  == [ops |-> s, form |-> "whole"]

\* A whole document followed by something else, as an older writer left it.
Trailing  == [ops |-> {}, form |-> "trailing"]

InFlight == {"read", "save", "sync", "rename", "again", "syncDir", "ok", "failed"}

StoreTypeOK ==
    /\ windows \in BOOLEAN
    /\ file \in Content
    /\ mayHold \subseteq Content
    /\ lock \in [Procs -> Calls \cup {NoCall}]
    /\ pc \in [Calls -> {"todo", "returned", "died"} \cup InFlight]
    /\ value \in [Calls -> SUBSET Updates]
    /\ temp \in [Calls -> {"none", "written", "flushed"}]
    /\ acked \subseteq Updates

Init ==
    /\ windows \in BOOLEAN
    /\ file \in {Missing, Whole({}), Trailing}
    /\ mayHold = {file}
    /\ lock = [p \in Procs |-> NoCall]
    /\ pc = [c \in Calls |-> "todo"]
    /\ value = [c \in Calls |-> {}]
    /\ temp = [c \in Calls |-> "none"]
    /\ acked = {}

-----------------------------------------------------------------------------
At(c, l) == pc[c] = l

Goto(c, l) == pc' = [pc EXCEPT ![c] = l]

\* What becomes of a temporary file that takes the place of the state file:
\* readers see its data at once, but a loss of power spares flushed data only.
Survivor(c) == IF temp[c] = "flushed" THEN Whole(value[c]) ELSE Torn

\* Variant: the mutex is not taken.
Unlocked(c) ==
    /\ At(c, "todo")
    /\ lock' = [lock EXCEPT ![ProcOf[c]] = c]
    /\ Goto(c, "read")
    /\ UNCHANGED <<file, mayHold, value, temp, acked>>

Lock(c) ==
    /\ At(c, "todo")
    /\ lock[ProcOf[c]] = NoCall
    /\ lock' = [lock EXCEPT ![ProcOf[c]] = c]
    /\ Goto(c, "read")
    /\ UNCHANGED <<file, mayHold, value, temp, acked>>

\* Variant: a Load adds itself like an Update.
CountsLoads(c) ==
    /\ At(c, "read")
    /\ file.form \in {"missing", "whole"}
    /\ value' = [value EXCEPT ![c] = file.ops \cup {c}]
    /\ Goto(c, "save")
    /\ UNCHANGED <<file, mayHold, lock, temp, acked>>

\* loadUnlocked, and for an Update the caller's change: trailing bytes are
\* first repaired by a save of what was read.
Read(c) ==
    /\ At(c, "read")
    /\ \/ /\ file.form = "trailing"
          /\ value' = [value EXCEPT ![c] = file.ops]
          /\ Goto(c, "save")
       \/ /\ file.form \in {"missing", "whole"}
          /\ value' = [value EXCEPT ![c] = file.ops \cup ({c} \ Loads)]
          /\ Goto(c, IF c \in Loads THEN "ok" ELSE "save")
    /\ UNCHANGED <<file, mayHold, lock, temp, acked>>

\* saveUnlocked and writeFileAtomic, up to the flushed temporary file.
WriteTemp(c) ==
    /\ At(c, "save")
    /\ temp' = [temp EXCEPT ![c] = "written"]
    /\ Goto(c, "sync")
    /\ UNCHANGED <<file, mayHold, lock, value, acked>>

\* Variant: the temporary file is not flushed before it is renamed.
SkipFlush(c) ==
    /\ At(c, "sync")
    /\ Goto(c, "rename")
    /\ UNCHANGED <<file, mayHold, lock, value, temp, acked>>

Flush(c) ==
    /\ At(c, "sync")
    /\ temp' = [temp EXCEPT ![c] = "flushed"]
    /\ Goto(c, "rename")
    /\ UNCHANGED <<file, mayHold, lock, value, acked>>

\* replaceFile, at its first attempt or at its second.
Rename(c) ==
    /\ pc[c] \in {"rename", "again"}
    /\ file' = Whole(value[c])
    /\ mayHold' = mayHold \cup {Survivor(c)}
    /\ temp' = [temp EXCEPT ![c] = "none"]
    /\ Goto(c, "syncDir")
    /\ UNCHANGED <<lock, value, acked>>

\* The first rename fails: Windows removes the target and tries again.
RemoveTarget(c) ==
    /\ windows
    /\ At(c, "rename")
    /\ file' = Missing
    /\ mayHold' = mayHold \cup {Missing}
    /\ Goto(c, "again")
    /\ UNCHANGED <<lock, value, temp, acked>>

\* After the repair of trailing bytes the call goes on with what it came for.
Saved(c) ==
    IF c \in Loads \/ c \in value[c]
    THEN Goto(c, "ok") /\ UNCHANGED value
    ELSE /\ Goto(c, "save")
         /\ value' = [value EXCEPT ![c] = @ \cup {c}]

\* Variant: the directory is never flushed.
SkipSyncDir(c) ==
    /\ At(c, "syncDir")
    /\ Saved(c)
    /\ UNCHANGED <<file, mayHold, lock, temp, acked>>

SyncDir(c) ==
    /\ At(c, "syncDir")
    /\ Saved(c)
    /\ mayHold' = IF windows THEN mayHold ELSE {file}
    /\ UNCHANGED <<file, lock, temp, acked>>

\* Any of these steps may fail; the temporary file, if there is one, goes.
Fail(c) ==
    /\ \/ pc[c] \in {"read", "save", "sync", "rename", "again"}
       \/ At(c, "syncDir") /\ ~windows
    /\ temp' = [temp EXCEPT ![c] = "none"]
    /\ Goto(c, "failed")
    /\ UNCHANGED <<file, mayHold, lock, value, acked>>

\* Variant: an error path leaves the mutex locked.
LeakyReturn(c) ==
    /\ pc[c] \in {"ok", "failed"}
    /\ lock' = IF At(c, "ok") THEN [lock EXCEPT ![ProcOf[c]] = NoCall] ELSE lock
    /\ acked' = IF At(c, "ok") THEN acked \cup ({c} \ Loads) ELSE acked
    /\ Goto(c, "returned")
    /\ UNCHANGED <<file, mayHold, value, temp>>

Return(c) ==
    /\ pc[c] \in {"ok", "failed"}
    /\ lock' = [lock EXCEPT ![ProcOf[c]] = NoCall]
    /\ acked' = IF At(c, "ok") THEN acked \cup ({c} \ Loads) ELSE acked
    /\ Goto(c, "returned")
    /\ UNCHANGED <<file, mayHold, value, temp>>

\* A process dies: its calls are gone, its temporary files stay behind.
Kill(procs) ==
    /\ pc' = [c \in Calls |->
                IF ProcOf[c] \in procs /\ pc[c] \in InFlight THEN "died" ELSE pc[c]]
    /\ lock' = [p \in Procs |-> IF p \in procs THEN NoCall ELSE lock[p]]

Crash(p) ==
    /\ \E c \in Calls : ProcOf[c] = p /\ pc[c] \in InFlight
    /\ Kill({p})
    /\ UNCHANGED <<file, mayHold, value, temp, acked>>

\* Power is lost: renames not yet flushed with the directory may be undone.
PowerLoss ==
    /\ Kill(Procs)
    /\ file' \in mayHold
    /\ mayHold' = {file'}
    /\ UNCHANGED <<value, temp, acked>>

Step(c) ==
    \/ Lock(c) \/ Read(c) \/ WriteTemp(c) \/ Flush(c) \/ Rename(c)
    \/ RemoveTarget(c) \/ SyncDir(c) \/ Fail(c) \/ Return(c)

Next ==
    /\ \/ \E c \in Calls : Step(c)
       \/ \E p \in Procs : Crash(p)
       \/ PowerLoss
    /\ UNCHANGED windows

Spec == Init /\ [][Next]_vars

\* Every call that can go on goes on; the mutex is not fair, but a call is
\* made only once.
FairSpec == Spec /\ \A c \in Calls : WF_vars(Step(c) /\ UNCHANGED windows)

-----------------------------------------------------------------------------
(* Properties *)

\* Neither a reader nor a restart after a crash or a loss of power ever finds
\* half a document, whichever processes write at the same time.
NeverTorn == \A x \in mayHold \cup {file} : x.form # "torn"

\* With one process on a platform that flushes directories, an update whose
\* call returned success is in the file, and in whatever a loss of power may
\* leave of it.
AcknowledgedDurable ==
    ~windows => \A x \in mayHold \cup {file} : acked \subseteq x.ops

\* Within one process an acknowledged update disappears from the file in one
\* way only: a replacement that Windows refused at first has just removed the
\* target.  (If the second rename fails as well, everything is gone for good.)
\* A loss of power takes updates only where directories are not flushed.
LostOnlyByRemoval ==
    [][acked \subseteq file.ops =>
         \/ acked' \subseteq file'.ops
         \/ windows /\ (file'.form = "missing" \/ PowerLoss)]_vars

\* The calls of one process and the crashes together implement AtomicState.
Atomic == INSTANCE AtomicState WITH value <- file.ops, durable <- ~windows

ImplementsAtomicState == Atomic!Spec

\* Every call returns, or dies with its process: no error path keeps the mutex.
CallsReturn == \A c \in Calls : <>(pc[c] \in {"returned", "died"})
=============================================================================
