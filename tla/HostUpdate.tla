----------------------------- MODULE HostUpdate -----------------------------
(***************************************************************************)
(* host.update.apply (package host): a package is downloaded into the      *)
(* update directory under one fixed name, checked against a checksum,      *)
(* described by latest.json, and the configured command is run on the two. *)
(*                                                                         *)
(* An updater is a process that applies updates one after the other: the   *)
(* daemon, whose connection loop executes requests in turn, and any        *)
(* "hostd update apply" command.  All share the directory, without a lock. *)
(*                                                                         *)
(* A file that is opened again is the same file: it is emptied under       *)
(* whoever still writes it, and each writer goes on at its own offset.     *)
(***************************************************************************)
EXTENDS Integers

CONSTANTS Updaters,   \* the processes that apply updates
          Builds,     \* the packages a server may serve
          Length,     \* the blocks of each package
          MaxLength,  \* bound: the blocks of the longest package
          NoBuild     \* no package; a block that was never written

ASSUME BuildAssumption ==
    /\ NoBuild \notin Builds
    /\ MaxLength \in Nat
    /\ Length \in [Builds -> 1 .. MaxLength]

VARIABLES
    pc,         \* where each updater stands
    asked,      \* the update each was asked for
    served,     \* the package the server answers with
    offset,     \* the blocks written so far
    package,    \* the blocks of the file "package"
    manifest,   \* the update that latest.json describes
    disturbed   \* (history) the updaters whose files another one has opened
                \* or written since they did

vars == <<pc, asked, served, offset, package, manifest, disturbed>>

Blocks == 1 .. MaxLength

\* download: a package URL is given and downloads are configured.
Update == [download : BOOLEAN, sum : Builds \cup {NoBuild}]

NoUpdate == [download |-> FALSE, sum |-> NoBuild]

\* latest.json: it describes one update, is empty, or two writers left parts
\* of theirs.
Manifest == [form : {"empty", "mixed", "whole"}, of : Update]

EmptyManifest == [form |-> "empty", of |-> NoUpdate]
MixedManifest == [form |-> "mixed", of |-> NoUpdate]
Describes(a)  == [form |-> "whole", of |-> a]

Stages == {"idle", "fetch", "create", "copy", "verify", "manifest", "write",
           "command", "running", "killed", "result", "error", "panicked"}

\* Type of the variables.
UpdateTypeOK ==
    /\ pc \in [Updaters -> Stages]
    /\ asked \in [Updaters -> Update]
    /\ served \in [Updaters -> Builds \cup {NoBuild}]
    /\ offset \in [Updaters -> 0 .. MaxLength]
    /\ package \in [Blocks -> Builds \cup {NoBuild}]
    /\ manifest \in Manifest
    /\ disturbed \subseteq Updaters

Init ==
    /\ pc = [u \in Updaters |-> "idle"]
    /\ asked = [u \in Updaters |-> NoUpdate]
    /\ served = [u \in Updaters |-> NoBuild]
    /\ offset = [u \in Updaters |-> 0]
    /\ package = [i \in Blocks |-> NoBuild]
    /\ manifest = EmptyManifest
    /\ disturbed = {}

-----------------------------------------------------------------------------
At(u, stage) == pc[u] = stage

Goto(u, stage) == pc' = [pc EXCEPT ![u] = stage]

HasFiles(u) ==
    \/ pc[u] \in {"copy", "verify", "write", "command", "running", "killed"}
    \/ At(u, "manifest") /\ asked[u].download

Disturb(u) ==
    disturbed' = disturbed \cup {v \in Updaters \ {u} : HasFiles(v)}

\* applyUpdate returns, or its process ends: its locals are gone.
Finish(u) ==
    /\ Goto(u, "idle")
    /\ asked' = [asked EXCEPT ![u] = NoUpdate]
    /\ served' = [served EXCEPT ![u] = NoBuild]
    /\ offset' = [offset EXCEPT ![u] = 0]
    /\ disturbed' = disturbed \ {u}

\* The file holds package b and nothing else.
IsPackage(b) ==
    \A i \in Blocks : package[i] = IF i <= Length[b] THEN b ELSE NoBuild

-----------------------------------------------------------------------------
Request(u) ==
    /\ At(u, "idle")
    /\ \E a \in Update :
         /\ asked' = [asked EXCEPT ![u] = a]
         /\ Goto(u, IF a.download THEN "fetch" ELSE "manifest")
    /\ UNCHANGED <<served, offset, package, manifest, disturbed>>

\* The server answers with success, and with whatever package it holds.
Fetch(u) ==
    /\ At(u, "fetch")
    /\ \E b \in Builds : served' = [served EXCEPT ![u] = b]
    /\ Goto(u, "create")
    /\ UNCHANGED <<asked, offset, package, manifest, disturbed>>

\* Variant: the file is opened without being emptied.
OpenPackage(u) ==
    /\ At(u, "create")
    /\ offset' = [offset EXCEPT ![u] = 0]
    /\ Disturb(u)
    /\ Goto(u, "copy")
    /\ UNCHANGED <<asked, served, package, manifest>>

CreatePackage(u) ==
    /\ At(u, "create")
    /\ package' = [i \in Blocks |-> NoBuild]
    /\ offset' = [offset EXCEPT ![u] = 0]
    /\ Disturb(u)
    /\ Goto(u, "copy")
    /\ UNCHANGED <<asked, served, manifest>>

Copy(u) ==
    /\ At(u, "copy")
    /\ offset' = [offset EXCEPT ![u] = @ + 1]
    /\ package' = [package EXCEPT ![offset[u] + 1] = served[u]]
    /\ Disturb(u)
    /\ Goto(u, IF offset'[u] = Length[served[u]] THEN "verify" ELSE "copy")
    /\ UNCHANGED <<asked, served, manifest>>

\* The hash is taken of the bytes received; no checksum asked for is no check.
Verify(u) ==
    /\ At(u, "verify")
    /\ IF asked[u].sum \in {NoBuild, served[u]}
       THEN Goto(u, "manifest") /\ UNCHANGED <<asked, served, offset, disturbed>>
       ELSE Finish(u)
    /\ UNCHANGED <<package, manifest>>

\* os.WriteFile empties latest.json, then writes it.
EmptyLatest(u) ==
    /\ At(u, "manifest")
    /\ manifest' = EmptyManifest
    /\ Disturb(u)
    /\ Goto(u, "write")
    /\ UNCHANGED <<asked, served, offset, package>>

\* Over a longer document of another writer its tail remains.
WriteLatest(u) ==
    /\ At(u, "write")
    /\ \/ manifest' = Describes(asked[u])
       \/ manifest # EmptyManifest /\ manifest' = MixedManifest
    /\ Disturb(u)
    /\ Goto(u, "command")
    /\ UNCHANGED <<asked, served, offset, package>>

\* Everything up to the command may fail, and answers with an error: the
\* files stay as they are.
PrepareFails(u) ==
    /\ pc[u] \in {"fetch", "create", "copy", "manifest", "write"}
    /\ Finish(u)
    /\ UNCHANGED <<package, manifest>>

CommandStarts(u) ==
    /\ At(u, "command")
    /\ Goto(u, "running")
    /\ UNCHANGED <<asked, served, offset, package, manifest, disturbed>>

CommandNotFound(u) ==
    /\ At(u, "command")
    /\ Goto(u, "error")
    /\ UNCHANGED <<asked, served, offset, package, manifest, disturbed>>

\* Any exit code is a result.
CommandExits(u) ==
    /\ At(u, "running")
    /\ Goto(u, "result")
    /\ UNCHANGED <<asked, served, offset, package, manifest, disturbed>>

\* Variant: the command runs without a deadline.
NoDeadline(u) == FALSE /\ UNCHANGED vars

\* The deadline kills the command, not the processes it has started: the
\* call goes on until the last of them closes the output.
Deadline(u) ==
    /\ At(u, "running")
    /\ Goto(u, "killed")
    /\ UNCHANGED <<asked, served, offset, package, manifest, disturbed>>

CommandKilled(u) ==
    /\ At(u, "killed")
    /\ Goto(u, "error")
    /\ UNCHANGED <<asked, served, offset, package, manifest, disturbed>>

Answer(u) ==
    /\ At(u, "result")
    /\ Finish(u)
    /\ UNCHANGED <<package, manifest>>

\* The path of the manifest is added to the result before the error is looked
\* at; with an error there is no result, and adding to it ends the process.
Panic(u) ==
    /\ At(u, "error")
    /\ Goto(u, "panicked")
    /\ UNCHANGED <<asked, served, offset, package, manifest, disturbed>>

\* The process has panicked, or is killed at any moment; it, or another
\* command, starts afresh.
Restart(u) ==
    /\ ~At(u, "idle")
    /\ Finish(u)
    /\ UNCHANGED <<package, manifest>>

Work(u) ==
    \/ Fetch(u) \/ CreatePackage(u) \/ Copy(u) \/ Verify(u)
    \/ EmptyLatest(u) \/ WriteLatest(u) \/ PrepareFails(u)
    \/ CommandStarts(u) \/ CommandNotFound(u)
    \/ Deadline(u) \/ CommandKilled(u) \/ Answer(u) \/ Panic(u)

Next == \E u \in Updaters :
            Request(u) \/ Work(u) \/ CommandExits(u) \/ Restart(u)

Spec == Init /\ [][Next]_vars

\* Downloads have a time limit, and so has the command; what the command
\* leaves behind is assumed to close the output some day.
FairSpec == Spec /\ \A u \in Updaters : WF_vars(Work(u))

-----------------------------------------------------------------------------
(* Properties *)

InCommand(u) == pc[u] \in {"command", "running"}

\* A command that is asked to install a package of a given checksum finds that
\* package, whole and without remains of an earlier one, and a manifest that
\* describes it -- unless another process has applied an update meanwhile.
\* A check that passed must still hold when the command starts, after failed,
\* aborted and crashed downloads of any kind before it.
CommandFindsWhatWasVerified ==
    \A u \in Updaters :
        InCommand(u) /\ u \notin disturbed =>
            /\ manifest = Describes(asked[u])
            /\ asked[u].download /\ asked[u].sum # NoBuild =>
                 IsPackage(asked[u].sum)

\* No update occupies its process for ever, though its command may never end:
\* the daemon serves no other request meanwhile.
UpdateEnds ==
    \A u \in Updaters :
        ~At(u, "idle") ~> pc[u] \in {"idle", "panicked"}

\* A command that cannot be started or runs out of time is answered with its
\* error (COMMAND_NOT_FOUND, UPDATE_TIMEOUT), like any other failing step: it
\* does not end the process.
FailedCommandIsReported == \A u \in Updaters : ~At(u, "panicked")
=============================================================================
