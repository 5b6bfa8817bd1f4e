-------------------------- MODULE ReleaseDownload --------------------------
(***************************************************************************)
(* "hostd update download": several processes download release packages    *)
(* into one directory (updateDownload, downloadAsset).  Each looks for a   *)
(* name that is free (uniqueDownloadPath), asks for the package, creates   *)
(* the file under that name, copies what is served and compares its        *)
(* checksum; on failure it removes what is under the name.  Between these  *)
(* steps the others go on, a process may be killed and the user may move   *)
(* a file away.                                                            *)
(*                                                                         *)
(* All packages have the same name; a body is one of Bodies, in blocks,    *)
(* and its checksum stands for it.                                         *)
(***************************************************************************)
EXTENDS Integers, FiniteSets

CONSTANTS Procs,     \* the processes
          Bodies,    \* what may be published and served
          Length,    \* the blocks of a body
          Names,     \* (bound: 1000 in the code) how many names are tried
          MaxMoves   \* (bound) files the user moves away

ASSUME DownloadAssumption ==
    /\ {Length, Names} \subseteq Nat \ {0}
    /\ MaxMoves \in Nat
    /\ {"nobody", "earlier"} \cap Procs = {}

\* The name itself and those with a number, then that with the process id.
Paths == (0 .. Names - 1) \cup Procs

NoSum == "no checksum"

NoFile == [owner |-> "nobody", body |-> NoSum, blocks |-> 0]

\* A file of the directory from before.
Earlier == [owner |-> "earlier", body |-> NoSum, blocks |-> 0]

VARIABLES
    files,   \* the directory; a file is told from another by its owner
    pc,      \* where each process stands
    sum,     \* the checksum of the asset it has chosen
    target,  \* the name it tries or has chosen
    body,    \* what it is served
    at,      \* how many blocks of that it has copied and hashed
    moved    \* the names the user has moved a file away from

vars == <<files, pc, sum, target, body, at, moved>>

Init ==
    /\ files \in [Paths -> {NoFile, Earlier}]
    /\ \A p \in Procs : files[p] = NoFile
    /\ pc = [p \in Procs |-> "start"]
    /\ sum = [p \in Procs |-> NoSum]
    /\ target = [p \in Procs |-> 0]
    /\ body = [p \in Procs |-> NoSum]
    /\ at = [p \in Procs |-> 0]
    /\ moved = {}

-----------------------------------------------------------------------------
Step(p, from, to) == pc[p] = from /\ pc' = [pc EXCEPT ![p] = to]

\* The manifest cannot be had, or has no package for this platform.
NotFetched(p) == Step(p, "start", "failed") /\ UNCHANGED <<files, sum, target, body, at, moved>>

Fetch(p) ==
    /\ Step(p, "start", "name")
    /\ \E s \in Bodies \cup {NoSum} : sum' = [sum EXCEPT ![p] = s]
    /\ UNCHANGED <<files, target, body, at, moved>>

Free(p) ==
    /\ files[target[p]] = NoFile
    /\ Step(p, "name", "ask")
    /\ UNCHANGED <<files, sum, target, body, at, moved>>

Taken(p) ==
    /\ pc[p] = "name"
    /\ files[target[p]] # NoFile
    /\ LET left == target[p] < Names - 1
       IN  /\ target' = [target EXCEPT ![p] = IF left THEN @ + 1 ELSE p]
           /\ Step(p, "name", IF left THEN "name" ELSE "ask")
    /\ UNCHANGED <<files, sum, body, at, moved>>

\* The server has something else under the address, or does not answer.
Ask(p) ==
    /\ \/ /\ Step(p, "ask", "open")
          /\ \E b \in Bodies : body' = [body EXCEPT ![p] = b]
       \/ Step(p, "ask", "failed") /\ UNCHANGED body
    /\ UNCHANGED <<files, sum, target, at, moved>>

Opened(p) ==
    /\ Step(p, "open", "copy")
    /\ files' = [files EXCEPT ![target[p]] = [owner |-> p, body |-> body[p], blocks |-> 0]]

\* Variant: the file is opened without O_EXCL.
Truncate(p) == Opened(p) /\ UNCHANGED <<sum, target, body, at, moved>>

\* O_EXCL: the name must still be free.
Create(p) ==
    /\ \/ files[target[p]] = NoFile /\ Opened(p)
       \/ /\ files[target[p]] # NoFile
          /\ Step(p, "open", "failed")
          /\ UNCHANGED files
    /\ UNCHANGED <<sum, target, body, at, moved>>

\* A block goes to the file and into the hash; the file may have been moved.
Copy(p) ==
    /\ Step(p, "copy", "copy")
    /\ at[p] < Length
    /\ at' = [at EXCEPT ![p] = @ + 1]
    /\ files' = IF files[target[p]].owner = p
                THEN [files EXCEPT ![target[p]].blocks = @ + 1] ELSE files
    /\ UNCHANGED <<sum, target, body, moved>>

\* The copy, the sync or the close reports an error.
CopyFails(p) == Step(p, "copy", "undo") /\ UNCHANGED <<files, sum, target, body, at, moved>>

\* The body ends, perhaps early.
CopyEnds(p) == Step(p, "copy", "check") /\ UNCHANGED <<files, sum, target, body, at, moved>>

\* Variant: only the answer's own checksum is looked at, not what came.
TrustServer(p) ==
    /\ Step(p, "check", CASE sum[p] = NoSum     -> "unverified"
                          [] sum[p] = body[p]   -> "verified"
                          [] OTHER              -> "undo")
    /\ UNCHANGED <<files, sum, target, body, at, moved>>

Check(p) ==
    /\ Step(p, "check", CASE sum[p] = NoSum                      -> "unverified"
                          [] sum[p] = body[p] /\ at[p] = Length  -> "verified"
                          [] OTHER                               -> "undo")
    /\ UNCHANGED <<files, sum, target, body, at, moved>>

\* Whatever is under the name is removed.
Undo(p) ==
    /\ Step(p, "undo", "failed")
    /\ files' = [files EXCEPT ![target[p]] = NoFile]
    /\ UNCHANGED <<sum, target, body, at, moved>>

\* A process that is killed leaves its part of the file.
Killed(p) ==
    /\ pc[p] \notin {"failed", "verified", "unverified"}
    /\ pc' = [pc EXCEPT ![p] = "failed"]
    /\ UNCHANGED <<files, sum, target, body, at, moved>>

UserMoves(k) ==
    /\ Cardinality(moved) < MaxMoves
    /\ files[k] # NoFile
    /\ files' = [files EXCEPT ![k] = NoFile]
    /\ moved' = moved \cup {k}
    /\ UNCHANGED <<pc, sum, target, body, at>>

Download(p) ==
    \/ NotFetched(p) \/ Fetch(p) \/ Free(p) \/ Taken(p) \/ Ask(p) \/ Create(p)
    \/ Copy(p) \/ CopyFails(p) \/ CopyEnds(p) \/ Check(p) \/ Undo(p)

Next ==
    \/ \E p \in Procs : Download(p) \/ Killed(p)
    \/ \E k \in Paths : UserMoves(k)

Spec == Init /\ [][Next]_vars

-----------------------------------------------------------------------------
(* Properties *)

\* A package reported as verified is under the path reported, whole and the
\* one of the manifest, and stays so whatever other downloads do, retries after
\* a failed or killed one included; unless the user moved the file away.
VerifiedIsThere ==
    \A p \in Procs :
        pc[p] = "verified" /\ target[p] \notin moved
            => files[target[p]] = [owner |-> p, body |-> sum[p], blocks |-> Length]

\* A download never changes or removes a file that is not its own, though it
\* looks for a free name long before it creates the file: only where the user
\* has moved its file away, a failed one removes what is there by then.
OnlyOwnFileChanges ==
    [][\A k \in Paths \ moved' : files[k] \notin {NoFile, files'[k]} =>
          \E p \in Procs : files[k].owner = p /\ target[p] = k /\ pc[p] \in {"copy", "undo"}]_vars
=============================================================================
