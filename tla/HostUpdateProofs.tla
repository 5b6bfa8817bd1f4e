-------------------------- MODULE HostUpdateProofs --------------------------
(***************************************************************************)
(* Proofs about the host update: its type invariant, and that a command    *)
(* finds the package that was verified and the manifest that describes it, *)
(* for any number of processes and any packages.                           *)
(***************************************************************************)
EXTENDS HostUpdate, TLAPS

\* The first n blocks are those of package b, and there are no others.
Holds(b, n) == \A i \in Blocks : package[i] = IF i <= n THEN b ELSE NoBuild

PackageReady(u) ==
    asked[u].download /\ asked[u].sum # NoBuild => IsPackage(asked[u].sum)

\* What an undisturbed updater knows of the files at each stage.
CopyState(u) ==
    /\ At(u, "copy") => /\ served[u] \in Builds
                        /\ offset[u] < Length[served[u]]
                        /\ Holds(served[u], offset[u])
    /\ At(u, "verify") => served[u] \in Builds /\ IsPackage(served[u])

ManifestState(u) ==
    /\ At(u, "write") => manifest = EmptyManifest
    /\ InCommand(u) => manifest = Describes(asked[u])

Undisturbed(u) ==
    /\ CopyState(u)
    /\ pc[u] \in {"manifest", "write", "command", "running"} => PackageReady(u)
    /\ ManifestState(u)

\* A copy goes on only while blocks are missing, disturbed or not.
CopyBound(u) ==
    /\ pc[u] \in {"create", "copy", "verify"} => served[u] \in Builds
    /\ At(u, "copy") => offset[u] < Length[served[u]]

IInv ==
    /\ UpdateTypeOK
    /\ \A u \in Updaters : CopyBound(u)
    /\ \A u \in Updaters \ disturbed : Undisturbed(u)

USE DEF At, Goto, Finish, Disturb, HasFiles, Stages, Blocks

-----------------------------------------------------------------------------
(* Type invariant: the steps of one updater *)

LEMMA LengthType == \A b \in Builds : Length[b] \in 1 .. MaxLength
  BY BuildAssumption

LEMMA UpdateType ==
    /\ NoUpdate \in Update
    /\ \A a \in Update : a.download \in BOOLEAN
  BY DEF Update, NoUpdate

LEMMA ManifestType ==
    /\ {EmptyManifest, MixedManifest} \subseteq Manifest
    /\ \A a \in Update : Describes(a) \in Manifest
  BY UpdateType DEF Manifest, EmptyManifest, MixedManifest, Describes

LEMMA InitInvariant == Init => IInv
  BY BuildAssumption, UpdateType, ManifestType DEF Init, IInv, UpdateTypeOK, Undisturbed, CopyState,
     ManifestState, CopyBound, InCommand

\* The step changes none of the files and no other updater: what remains to be
\* shown concerns the updater itself.
LEMMA FilesKept ==
  ASSUME IInv, UpdateTypeOK', NEW u \in Updaters,
         UNCHANGED <<package, manifest>>, disturbed' = disturbed \/ disturbed' = disturbed \ {u},
         \A v \in Updaters \ {u} :
             /\ pc'[v] = pc[v]         /\ asked'[v] = asked[v]
             /\ served'[v] = served[v] /\ offset'[v] = offset[v],
         CopyBound(u)',
         u \notin disturbed' => Undisturbed(u)'
  PROVE  IInv'
  <1>1. \A v \in Updaters \ {u} : CopyBound(v)'
    BY DEF IInv, CopyBound
  <1>2. ASSUME NEW v \in Updaters \ {u}, v \notin disturbed'
        PROVE  Undisturbed(v)'
    <2>1. Undisturbed(v)
      BY <1>2 DEF IInv
    <2>2. QED
      BY <2>1 DEF Undisturbed, CopyState, ManifestState, PackageReady, IsPackage,
         Holds, InCommand
  <1>3. QED
    BY <1>1, <1>2 DEF IInv

\* The step writes a file: every other updater that has files is disturbed.
LEMMA FilesWritten ==
  ASSUME IInv, UpdateTypeOK', NEW u \in Updaters, Disturb(u),
         \A v \in Updaters \ {u} :
             /\ pc'[v] = pc[v]         /\ asked'[v] = asked[v]
             /\ served'[v] = served[v] /\ offset'[v] = offset[v],
         CopyBound(u)',
         u \notin disturbed' => Undisturbed(u)'
  PROVE  IInv'
  <1>1. \A v \in Updaters \ {u} : CopyBound(v)'
    BY DEF IInv, CopyBound
  <1>2. ASSUME NEW v \in Updaters \ {u}, v \notin disturbed'
        PROVE  Undisturbed(v)'
    <2>1. ~HasFiles(v)
      BY <1>2
    <2>2. QED
      BY <1>2, <2>1 DEF Undisturbed, CopyState, ManifestState, PackageReady,
         InCommand
  <1>3. QED
    BY <1>1, <1>2 DEF IInv

-----------------------------------------------------------------------------
(* One lemma per kind of step *)

LEMMA RequestStep == ASSUME IInv, NEW u \in Updaters, Request(u) PROVE IInv'
  <1>1. UpdateTypeOK'
    BY DEF IInv, UpdateTypeOK, Request
  <1>2. CopyBound(u)'
    BY DEF IInv, UpdateTypeOK, Request, CopyBound
  <1>3. u \notin disturbed' => Undisturbed(u)'
    BY DEF IInv, UpdateTypeOK, Request, Undisturbed, CopyState, ManifestState,
       PackageReady, InCommand
  <1>4. QED
    BY <1>1, <1>2, <1>3, FilesKept DEF IInv, UpdateTypeOK, Request

LEMMA FetchStep == ASSUME IInv, NEW u \in Updaters, Fetch(u) PROVE IInv'
  <1>1. UpdateTypeOK'
    BY DEF IInv, UpdateTypeOK, Fetch
  <1>2. CopyBound(u)'
    BY DEF IInv, UpdateTypeOK, Fetch, CopyBound
  <1>3. u \notin disturbed' => Undisturbed(u)'
    BY DEF IInv, UpdateTypeOK, Fetch, Undisturbed, CopyState, ManifestState,
       InCommand
  <1>4. QED
    BY <1>1, <1>2, <1>3, FilesKept DEF IInv, UpdateTypeOK, Fetch

LEMMA CreateStep == ASSUME IInv, NEW u \in Updaters, CreatePackage(u) PROVE IInv'
  <1>1. UpdateTypeOK'
    BY BuildAssumption DEF IInv, UpdateTypeOK, CreatePackage
  <1>2. served'[u] \in Builds /\ offset'[u] = 0 /\ At(u, "copy")'
    BY DEF IInv, UpdateTypeOK, CreatePackage, CopyBound
  <1>3. CopyBound(u)'
    BY <1>2, LengthType DEF CreatePackage, CopyBound
  <1>4. Holds(served[u], offset[u])'
    BY <1>2, BuildAssumption DEF CreatePackage, Holds
  <1>5. u \notin disturbed' => Undisturbed(u)'
    BY <1>2, <1>3, <1>4 DEF Undisturbed, CopyState, CopyBound, ManifestState, InCommand
  <1>6. QED
    BY <1>1, <1>3, <1>5, FilesWritten DEF IInv, UpdateTypeOK, CreatePackage

LEMMA CopyStep == ASSUME IInv, NEW u \in Updaters, Copy(u) PROVE IInv'
  <1> DEFINE b == served[u]
             n == offset[u]
  <1>1. /\ b \in Builds /\ n \in 0 .. MaxLength /\ n < Length[b]
        /\ Length[b] \in 1 .. MaxLength
    BY LengthType DEF IInv, UpdateTypeOK, Copy, CopyBound
  <1>2. n + 1 \in Blocks /\ n + 1 \in 0 .. MaxLength /\ n + 1 <= Length[b]
    BY <1>1, BuildAssumption
  <1>3. offset'[u] = n + 1 /\ served'[u] = b
    BY DEF IInv, UpdateTypeOK, Copy
  <1>4. UpdateTypeOK'
    <2>1. offset' \in [Updaters -> 0 .. MaxLength]
      BY <1>2 DEF IInv, UpdateTypeOK, Copy
    <2>2. package' \in [Blocks -> Builds \cup {NoBuild}]
      BY <1>1, <1>2 DEF IInv, UpdateTypeOK, Copy
    <2>3. QED
      BY <2>1, <2>2 DEF IInv, UpdateTypeOK, Copy
  <1>5. pc'[u] = IF n + 1 = Length[b] THEN "verify" ELSE "copy"
    BY <1>3 DEF IInv, UpdateTypeOK, Copy
  <1>6. CopyBound(u)'
    BY <1>1, <1>2, <1>3, <1>5 DEF CopyBound, Copy
  <1>7. ASSUME u \notin disturbed' PROVE Undisturbed(u)'
    <2>1. Holds(b, n)
      BY <1>7 DEF IInv, Undisturbed, CopyState, Copy
    <2>2. ASSUME NEW i \in Blocks
          PROVE  package'[i] = IF i <= n + 1 THEN b ELSE NoBuild
      <3>1. package' = [package EXCEPT ![n + 1] = b]
        BY DEF Copy
      <3>2. package[i] = IF i <= n THEN b ELSE NoBuild
        BY <2>1 DEF Holds
      <3>3. i \in Int /\ n \in Int
        BY <1>1, BuildAssumption
      <3>4. package \in [Blocks -> Builds \cup {NoBuild}]
        BY DEF IInv, UpdateTypeOK
      <3>5. QED
        BY <1>2, <3>1, <3>2, <3>3, <3>4
    <2>3. CopyState(u)'
      BY <1>1, <1>3, <1>5, <1>6, <2>2 DEF CopyState, CopyBound, Holds, IsPackage, Copy
    <2>4. QED
      BY <1>5, <2>3 DEF Undisturbed, ManifestState, InCommand
  <1>8. QED
    BY <1>4, <1>6, <1>7, FilesWritten DEF IInv, UpdateTypeOK, Copy

LEMMA VerifyStep == ASSUME IInv, NEW u \in Updaters, Verify(u) PROVE IInv'
  <1>1. UpdateTypeOK'
    <2>1. CASE Finish(u)
      BY <2>1, BuildAssumption, UpdateType DEF IInv, UpdateTypeOK, Verify
    <2>2. CASE Goto(u, "manifest") /\ UNCHANGED <<asked, served, offset, disturbed>>
      BY <2>2 DEF IInv, UpdateTypeOK, Verify
    <2>3. QED
      BY <2>1, <2>2 DEF Verify
  <1>2. CopyBound(u)'
    BY DEF IInv, UpdateTypeOK, Verify, CopyBound
  <1>3. CASE asked[u].sum \in {NoBuild, served[u]}
    <2>1. u \notin disturbed => IsPackage(served[u])
      BY DEF IInv, Undisturbed, CopyState, Verify
    <2>2. u \notin disturbed' => Undisturbed(u)'
      BY <1>3, <2>1 DEF IInv, UpdateTypeOK, Verify, Undisturbed, CopyState,
         ManifestState, PackageReady, IsPackage, InCommand
    <2>3. QED
      BY <1>1, <1>2, <1>3, <2>2, FilesKept DEF IInv, UpdateTypeOK, Verify
  <1>4. CASE asked[u].sum \notin {NoBuild, served[u]}
    <2>1. u \notin disturbed' => Undisturbed(u)'
      BY <1>4 DEF IInv, UpdateTypeOK, Verify, Undisturbed, CopyState,
         ManifestState, InCommand
    <2>2. QED
      BY <1>1, <1>2, <1>4, <2>1, FilesKept DEF IInv, UpdateTypeOK, Verify
  <1>5. QED
    BY <1>3, <1>4

LEMMA EmptyLatestStep == ASSUME IInv, NEW u \in Updaters, EmptyLatest(u) PROVE IInv'
  <1>1. UpdateTypeOK'
    BY ManifestType DEF IInv, UpdateTypeOK, EmptyLatest
  <1>2. CopyBound(u)'
    BY DEF IInv, UpdateTypeOK, EmptyLatest, CopyBound
  <1>3. u \notin disturbed' => Undisturbed(u)'
    BY DEF IInv, UpdateTypeOK, EmptyLatest, Undisturbed, CopyState,
       ManifestState, PackageReady, IsPackage, InCommand
  <1>4. QED
    BY <1>1, <1>2, <1>3, FilesWritten DEF IInv, UpdateTypeOK, EmptyLatest

LEMMA WriteLatestStep == ASSUME IInv, NEW u \in Updaters, WriteLatest(u) PROVE IInv'
  <1>1. UpdateTypeOK'
    BY ManifestType DEF IInv, UpdateTypeOK, WriteLatest
  <1>2. CopyBound(u)'
    BY DEF IInv, UpdateTypeOK, WriteLatest, CopyBound
  <1>3. u \notin disturbed' => Undisturbed(u)'
    BY DEF IInv, UpdateTypeOK, WriteLatest, Undisturbed, CopyState,
       ManifestState, PackageReady, IsPackage, InCommand
  <1>4. QED
    BY <1>1, <1>2, <1>3, FilesWritten DEF IInv, UpdateTypeOK, WriteLatest

\* The updater returns to rest, by an error, an answer or a restart.
LEMMA FinishStep ==
  ASSUME IInv, NEW u \in Updaters, Finish(u), UNCHANGED <<package, manifest>>
  PROVE  IInv'
  <1>1. UpdateTypeOK'
    BY BuildAssumption, UpdateType DEF IInv, UpdateTypeOK
  <1>2. CopyBound(u)'
    BY DEF IInv, UpdateTypeOK, CopyBound
  <1>3. Undisturbed(u)'
    BY DEF IInv, UpdateTypeOK, Undisturbed, CopyState, ManifestState, InCommand
  <1>4. QED
    BY <1>1, <1>2, <1>3, FilesKept DEF IInv, UpdateTypeOK

\* The steps of the command: they change nothing but the stage.
LEMMA CommandStep ==
  ASSUME IInv, NEW u \in Updaters,
         NEW s \in {"running", "killed", "result", "error", "panicked"},
         s = "running" => At(u, "command"),
         Goto(u, s),
         UNCHANGED <<asked, served, offset, package, manifest, disturbed>>
  PROVE  IInv'
  <1>1. UpdateTypeOK'
    BY DEF IInv, UpdateTypeOK
  <1>2. CopyBound(u)'
    BY DEF IInv, UpdateTypeOK, CopyBound
  <1>3. u \notin disturbed' => Undisturbed(u)'
    BY DEF IInv, UpdateTypeOK, Undisturbed, CopyState, ManifestState,
       PackageReady, IsPackage, InCommand
  <1>4. QED
    BY <1>1, <1>2, <1>3, FilesKept DEF IInv, UpdateTypeOK

LEMMA NextInvariant == IInv /\ [Next]_vars => IInv'
  <1> SUFFICES ASSUME IInv, [Next]_vars PROVE IInv'
    OBVIOUS
  <1>1. CASE UNCHANGED vars
    <2>1. UpdateTypeOK'
      BY <1>1 DEF vars, IInv, UpdateTypeOK
    <2>2. \A u \in Updaters : CopyBound(u)'
      BY <1>1 DEF vars, IInv, CopyBound
    <2>3. ASSUME NEW u \in Updaters \ disturbed' PROVE Undisturbed(u)'
      <3>1. Undisturbed(u)
        BY <1>1 DEF vars, IInv
      <3>2. QED
        BY <1>1, <3>1 DEF vars, Undisturbed, CopyState, ManifestState,
           PackageReady, IsPackage, Holds, InCommand
    <2>4. QED
      BY <2>1, <2>2, <2>3 DEF IInv
  <1>2. ASSUME NEW u \in Updaters,
               Request(u) \/ Work(u) \/ CommandExits(u) \/ Restart(u)
        PROVE  IInv'
    <2>1. CASE Request(u)
      BY <2>1, RequestStep
    <2>2. CASE Fetch(u)
      BY <2>2, FetchStep
    <2>3. CASE CreatePackage(u)
      BY <2>3, CreateStep
    <2>4. CASE Copy(u)
      BY <2>4, CopyStep
    <2>5. CASE Verify(u)
      BY <2>5, VerifyStep
    <2>6. CASE EmptyLatest(u)
      BY <2>6, EmptyLatestStep
    <2>7. CASE WriteLatest(u)
      BY <2>7, WriteLatestStep
    <2>8. CASE PrepareFails(u) \/ Answer(u) \/ Restart(u)
      BY <2>8, FinishStep DEF PrepareFails, Answer, Restart
    <2>9. CASE CommandStarts(u) \/ CommandNotFound(u) \/ CommandExits(u)
      BY <2>9, CommandStep DEF CommandStarts, CommandNotFound, CommandExits
    <2>10. CASE Deadline(u) \/ CommandKilled(u) \/ Panic(u)
      BY <2>10, CommandStep DEF Deadline, CommandKilled, Panic
    <2>11. QED
      BY <1>2, <2>1, <2>2, <2>3, <2>4, <2>5, <2>6, <2>7, <2>8, <2>9, <2>10 DEF Work
  <1>3. QED
    BY <1>1, <1>2 DEF Next

-----------------------------------------------------------------------------
LEMMA UpdateInvariant == Spec => []IInv
  BY InitInvariant, NextInvariant, PTL DEF Spec

\* Every variable of the host update keeps its type (applyUpdate and the calls
\* it makes), for any number of processes that share the update directory.
THEOREM UpdateTypeCorrect == Spec => []UpdateTypeOK
  <1>1. IInv => UpdateTypeOK
    BY DEF IInv
  <1>2. QED
    BY <1>1, UpdateInvariant, PTL

\* The command of an update that no other process has interfered with finds
\* the package that passed its checksum and its own manifest.
THEOREM VerifiedPackage == Spec => []CommandFindsWhatWasVerified
  <1>1. IInv => CommandFindsWhatWasVerified
    BY DEF IInv, Undisturbed, ManifestState, PackageReady,
       CommandFindsWhatWasVerified, InCommand
  <1>2. QED
    BY <1>1, UpdateInvariant, PTL
=============================================================================
