---------------------------- MODULE HostMethods ----------------------------
(***************************************************************************)
(* The methods of the host component (package host): host.fs.stat, list,   *)
(* read, write and mkdir, and host.exec.run.  The daemon answers one       *)
(* request after the other; each is a few separate system calls, between   *)
(* which another process may change the same files and the daemon may be   *)
(* killed.                                                                 *)
(*                                                                         *)
(* The files are one directory, which may be missing or be a file itself,  *)
(* and names in it.  What is neither a file nor a directory (a FIFO, a     *)
(* device, a socket) is an "other": reading or writing it may last for     *)
(* ever, and no deadline ends it.  A content is a sequence of blocks, each *)
(* naming its writer, its place and the length it is part of.  A time      *)
(* stamp is the number of changes so far.  Output limits and encodings are *)
(* left to "bad", a parameter the method rejects.                          *)
(***************************************************************************)
EXTENDS Integers, Sequences, FiniteSets

CONSTANTS Dir,          \* the directory
          Names,        \* the paths in it
          MaxBlocks,    \* (bound) the length of a payload
          MaxRequests,  \* (bound) requests of a behaviour
          MaxChanges,   \* (bound) changes by the other process
          MaxCrashes    \* (bound) deaths of the daemon

Paths == {Dir} \cup Names

ASSUME MethodsAssumption ==
    /\ Dir \notin Names
    /\ MaxBlocks \in Nat \ {0}
    /\ {MaxRequests, MaxChanges, MaxCrashes} \subseteq Nat

VARIABLES
    node,     \* the file system: what is under each path
    clock,    \* the changes so far
    others,   \* those made by the other process
    pc,       \* where the daemon stands in a request
    req,      \* the request
    count,    \* requests so far; it names the payload of a write
    crashes,  \* deaths so far
    work,     \* what the request has gathered: the time stamp of a stat, the
              \* content or entries read, the entries still to be looked at,
              \* the file a write has open and the blocks written
    cmd,      \* the command of an exec: its process, whether somebody holds
              \* its output open, whether the deadline is over, what Wait returned
    answer,   \* the last answer
    expect,   \* (history) what each path must hold
    ever,     \* (history) what there was at some time during the request
    steady    \* (history) the paths that existed all through the request

fsVars    == <<node, clock, expect, ever, steady>>
boundVars == <<others, count, crashes>>

vars == <<node, clock, others, pc, req, count, crashes, work, cmd, answer,
          expect, ever, steady>>

Requests ==
    [op : {"stat", "list", "exec"}, path : Paths]
        \cup [op : {"read"}, path : Paths, bad : BOOLEAN]
        \cup [op : {"write"}, path : Paths, bad : BOOLEAN, len : 1 .. MaxBlocks]
        \cup [op : {"mkdir"}, path : Paths, parents : BOOLEAN]

\* A part of a file that was never written.
Hole == <<0, 0, 0>>

\* What a path must hold: that of a write that is not answered yet, and
\* nothing in particular once two have written at the same time.
Pending == <<Hole>>
Unknown == <<Hole, Hole>>

NoAnswer == [code |-> "none"]

None == [kind |-> "none", ino |-> 0, blocks |-> <<>>, mtime |-> 0]

NoWork == [seen |-> 0, got |-> {}, left |-> {}, ino |-> 0, at |-> 0]

NoCommand == [child |-> "none", piped |-> FALSE, late |-> FALSE, status |-> "none"]

Payload(w, n) == [i \in 1 .. n |-> <<w, i, n>>]

\* What a lookup of a path finds: a path in a file cannot be looked up at all.
LookupIn(fs, p) ==
    IF p \in Names /\ fs[Dir].kind # "dir"
    THEN IF fs[Dir].kind = "none" THEN "none" ELSE "error"
    ELSE fs[p].kind

\* What there may be under a path.
Kinds == {"file", "dir", "other"}

Lookup(p) == LookupIn(node, p)

Parent(p) == IF p \in Names THEN Lookup(Dir) ELSE "dir"

Existing(fs) == {p \in Paths : LookupIn(fs, p) \in Kinds}

Init ==
    /\ node \in [Paths -> {None, [None EXCEPT !.kind = "dir"],
                           [None EXCEPT !.kind = "other"],
                           [None EXCEPT !.kind = "file",
                                        !.blocks = Payload(0, MaxBlocks)]}]
    /\ \A p \in Names : node[p] # None => node[Dir].kind = "dir"
    /\ clock = 0
    /\ others = 0
    /\ pc = "idle"
    /\ req = [op |-> "none"]
    /\ count = 0
    /\ crashes = 0
    /\ work = NoWork
    /\ cmd = NoCommand
    /\ answer = NoAnswer
    /\ expect = [p \in Paths |-> node[p].blocks]
    /\ ever = {}
    /\ steady = {}

-----------------------------------------------------------------------------
(* The file system *)

\* Something else is under path p; the history follows until the answer.
Put(p, kind, ino, blocks) ==
    /\ clock' = clock + 1
    /\ node' = [node EXCEPT ![p] = [kind |-> kind, ino |-> ino,
                                    blocks |-> blocks, mtime |-> clock + 1]]
    /\ IF pc = "idle" THEN UNCHANGED <<ever, steady>>
       ELSE /\ ever' = ever \cup {<<q, LookupIn(node', q)>> : q \in Existing(node')}
            /\ steady' = steady \cap Existing(node')

\* The daemon has the file of its write open.
Open(p) == pc \in {"write", "written"} /\ req.path = p

\* Another process replaces, creates or removes what is under a path.
OtherChanges(p, kind) ==
    /\ others < MaxChanges
    /\ others' = others + 1
    /\ Parent(p) = "dir"
    /\ \/ kind = "none" /\ node[p].kind # "none"
       \/ kind = "dir" /\ node[p].kind = "none"
       \/ kind = "file" /\ node[p].kind # "dir"
       \/ kind = "other" /\ node[p].kind \in {"none", "file"}
    /\ p = Dir => \A q \in Names : node[q].kind = "none"
    /\ LET blocks == IF kind = "file" THEN Payload(-others - 1, 1) ELSE <<>>
           ino == IF node[p].kind = "file" /\ kind = "file" THEN node[p].ino
                  ELSE clock + 1
       IN  /\ Put(p, kind, ino, blocks)
           /\ expect' = [expect EXCEPT ![p] =
                            IF Open(p) THEN Unknown ELSE blocks]
    /\ UNCHANGED <<pc, req, count, crashes, work, cmd, answer>>

-----------------------------------------------------------------------------
(* A request *)

Goto(l) == pc' = l

Reply(a) ==
    /\ answer' = a
    /\ work' = NoWork
    /\ Goto("idle")

Refuse(c) == Reply([code |-> c])

Goes(l) == Goto(l) /\ UNCHANGED <<work, answer>>

At(op, l) == pc = l /\ req.op = op

Begin(r) ==
    /\ pc = "idle"
    /\ count < MaxRequests
    /\ count' = count + 1
    /\ req' = r
    /\ Goto("look")
    /\ cmd' = NoCommand
    /\ ever' = {<<q, Lookup(q)>> : q \in Existing(node)}
    /\ steady' = Existing(node)
    /\ answer' = NoAnswer
    /\ UNCHANGED <<node, clock, expect, others, crashes, work>>

\* Another component, a method there is none of, a path or a command left out.
RefusedAtOnce ==
    /\ pc = "idle"
    /\ count < MaxRequests
    /\ count' = count + 1
    /\ req' = [op |-> "none"]
    /\ \E c \in {"TARGET_COMPONENT_NOT_FOUND", "METHOD_NOT_SUPPORTED",
                "INVALID_PATH", "INVALID_ARGV"} : Refuse(c)
    /\ cmd' = NoCommand
    /\ UNCHANGED <<fsVars, others, crashes>>

\* The daemon dies at any point; its files stay as they are.
Crash ==
    /\ pc # "idle"
    /\ crashes < MaxCrashes
    /\ crashes' = crashes + 1
    /\ Reply(NoAnswer)
    /\ cmd' = NoCommand
    /\ UNCHANGED <<fsVars, others, req, count>>

PathError(found) == IF found = "none" THEN "PATH_NOT_FOUND" ELSE "PATH_ERROR"

Rest == UNCHANGED <<fsVars, boundVars, req, cmd>>

\* The daemon has no right to look; rights do not change during a request.
Denied ==
    /\ \/ pc = "look" /\ req.op \in {"stat", "list", "read", "exec"}
       \/ pc = "run" /\ req.op \in {"list", "read"}
    /\ Refuse("PERMISSION_DENIED")
    /\ Rest

Stat ==
    /\ At("stat", "look")
    /\ LET found == Lookup(req.path)
       IN  IF found = "error" THEN Refuse("PATH_ERROR")
           ELSE Reply([code |-> "ok", exists |-> found # "none"])
    /\ Rest

\* The first stat of a list, and of the directory of a command.
LookForDirectory ==
    /\ pc = "look"
    /\ req.op \in {"list", "exec"}
    /\ LET found == Lookup(req.path)
       IN  CASE found = "dir"               -> Goes("run")
             [] found \in {"file", "other"} -> Refuse("NOT_A_DIRECTORY")
             [] OTHER                       -> Refuse(PathError(found))
    /\ Rest

-----------------------------------------------------------------------------
(* host.fs.read and host.fs.list *)

LookForFile ==
    /\ At("read", "look")
    /\ LET found == Lookup(req.path)
       IN  CASE found \in {"file", "other"} ->
                  /\ work' = [work EXCEPT !.seen = node[req.path].mtime]
                  /\ Goto("run")
                  /\ UNCHANGED answer
             [] found = "dir" -> Refuse("NOT_A_FILE")
             [] OTHER         -> Refuse(PathError(found))
    /\ Rest

\* os.ReadFile
ReadContent ==
    /\ At("read", "run")
    /\ LET found == Lookup(req.path)
       IN  CASE found = "file" ->
                  /\ work' = [work EXCEPT !.got = {node[req.path]}]
                  /\ Goto("gathered")
                  /\ UNCHANGED answer
             [] found = "other" -> Goes("blocked")
             [] OTHER           -> Refuse(PathError(found))
    /\ Rest

\* Variant: the time stamp is taken after the content.
StampAfterwards ==
    /\ At("read", "gathered")
    /\ IF req.bad
       THEN Refuse("INVALID_ENCODING")
       ELSE Reply([code |-> "ok", read |-> work.got, mtime |-> node[req.path].mtime])
    /\ Rest

\* The encoding is looked at when the content has been read.
ReadReply ==
    /\ At("read", "gathered")
    /\ IF req.bad
       THEN Refuse("INVALID_ENCODING")
       ELSE Reply([code |-> "ok", read |-> work.got, mtime |-> work.seen])
    /\ Rest

\* os.ReadDir
ReadDir ==
    /\ At("list", "run")
    /\ IF Lookup(req.path) = "dir"
       THEN /\ work' = [work EXCEPT !.left = IF req.path = Dir
                         THEN {p \in Names : node[p].kind # "none"} ELSE {}]
            /\ Goto("entries")
            /\ UNCHANGED answer
       ELSE Refuse(PathError(Lookup(req.path)))
    /\ Rest

\* Variant: an entry that is gone ends the list.
StopAtVanished(p) ==
    /\ At("list", "entries")
    /\ p \in work.left
    /\ work' = IF Lookup(p) \in Kinds
               THEN [work EXCEPT !.left = @ \ {p}, !.got = @ \cup {<<p, Lookup(p)>>}]
               ELSE [work EXCEPT !.left = {}]
    /\ UNCHANGED <<pc, answer>>
    /\ Rest

\* An entry that is gone by now is passed over.
ListEntry(p) ==
    /\ At("list", "entries")
    /\ p \in work.left
    /\ work' = IF Lookup(p) \in Kinds
               THEN [work EXCEPT !.left = @ \ {p}, !.got = @ \cup {<<p, Lookup(p)>>}]
               ELSE [work EXCEPT !.left = @ \ {p}]
    /\ UNCHANGED <<pc, answer>>
    /\ Rest

ListReply ==
    /\ At("list", "entries")
    /\ work.left = {}
    /\ Reply([code |-> "ok", list |-> work.got])
    /\ Rest

-----------------------------------------------------------------------------
(* host.fs.write: os.WriteFile empties the file and writes it in place *)

LookForParent ==
    /\ At("write", "look")
    /\ CASE Parent(req.path) = "dir"  -> Goes("target")
         [] Parent(req.path) \in {"file", "other"} -> Refuse("NOT_A_DIRECTORY")
         [] OTHER                     -> Refuse("PARENT_NOT_FOUND")
    /\ Rest

\* The target must not be a directory, and the payload must decode.
LookForTarget ==
    /\ At("write", "target")
    /\ CASE Lookup(req.path) = "dir" -> Refuse("IS_A_DIRECTORY")
         [] Lookup(req.path) # "dir" /\ req.bad -> Refuse("INVALID_ENCODING")
         [] OTHER -> Goes("open")
    /\ Rest

\* The file is opened with O_TRUNC, or created.
OpenAs(blocks) ==
    /\ At("write", "open")
    /\ Parent(req.path) = "dir"
    /\ Lookup(req.path) \in {"none", "file"}
    /\ LET old == node[req.path]
           ino == IF old.kind = "file" THEN old.ino ELSE clock + 1
       IN  /\ Put(req.path, "file", ino, blocks)
           /\ work' = [work EXCEPT !.ino = ino]
    /\ expect' = [expect EXCEPT ![req.path] = Pending]
    /\ Goto("write")
    /\ UNCHANGED <<answer, boundVars, req, cmd>>

\* Variant: the file is not emptied.
OpenInPlace == OpenAs(node[req.path].blocks)

OpenEmptied == OpenAs(<<>>)

\* What is there by now is not a file.
OpenOther ==
    /\ At("write", "open")
    /\ Lookup(req.path) = "other"
    /\ Goes("blocked")
    /\ Rest

\* Another process has changed the path meanwhile, or the system refuses.
OpenFails == At("write", "open") /\ Refuse("WRITE_FAILED") /\ Rest

\* Writing goes on in a file that was removed, where nobody sees it.
WriteBlock ==
    /\ At("write", "write")
    /\ work.at < req.len
    /\ LET at == work.at + 1
           old == node[req.path].blocks
           new == [i \in 1 .. IF Len(old) > at THEN Len(old) ELSE at |->
                     CASE i = at -> <<count, at, req.len>>
                       [] i # at /\ i <= Len(old) -> old[i]
                       [] OTHER -> Hole]
       IN  /\ work' = [work EXCEPT !.at = at]
           /\ IF node[req.path].kind = "file" /\ node[req.path].ino = work.ino
              THEN Put(req.path, "file", work.ino, new)
              ELSE UNCHANGED <<node, clock, ever, steady>>
    /\ UNCHANGED <<pc, answer, expect, boundVars, req, cmd>>

\* Variant: the error of a write that stopped half-way is not looked at.
IgnoredBreak == At("write", "write") /\ Goes("written") /\ Rest

\* The disk is full, or something like it: a part of the payload is there.
WriteBreaks == At("write", "write") /\ Refuse("WRITE_FAILED") /\ Rest

WriteEnds ==
    /\ At("write", "write")
    /\ work.at = req.len
    /\ Goes("written")
    /\ Rest

\* The answer has the time stamp of a last stat.
WriteReply ==
    /\ req.op = "write"
    /\ pc \in {"written", "passed"}
    /\ IF Lookup(req.path) \in Kinds
       THEN /\ Reply([code |-> "ok", written |-> req.len])
            /\ expect' = [expect EXCEPT ![req.path] =
                            IF pc = "written" /\ @ = Pending
                            THEN Payload(count, req.len) ELSE @]
       ELSE Refuse("WRITE_FAILED") /\ UNCHANGED expect
    /\ UNCHANGED <<node, clock, ever, steady, boundVars, req, cmd>>

-----------------------------------------------------------------------------
(* A FIFO without a peer, a device without an end *)

\* The read or write of an "other" ends when what is behind it lets it, with
\* an error (that of a socket at once) or none; whether it does is not up to
\* the daemon.
Unblocked ==
    /\ pc = "blocked"
    /\ \/ req.op = "read" /\ (Goes("gathered") \/ Refuse("PATH_ERROR"))
       \/ req.op = "write" /\ (Goes("passed") \/ Refuse("WRITE_FAILED"))
    /\ Rest

-----------------------------------------------------------------------------
(* host.fs.mkdir *)

LookForPath ==
    /\ At("mkdir", "look")
    /\ CASE Lookup(req.path) \in {"file", "other"} -> Refuse("PATH_EXISTS_AS_FILE")
         [] Lookup(req.path) = "dir" -> Reply([code |-> "ok", created |-> FALSE])
         [] OTHER -> Goes(IF req.parents THEN "mkparent" ELSE "mkdir")
    /\ Rest

\* One system call: it needs the parent, and nothing under the path.
MakeDirectory(p, next) ==
    /\ Parent(p) = "dir"
    /\ Lookup(p) = "none"
    /\ Put(p, "dir", clock + 1, <<>>)
    /\ expect' = [expect EXCEPT ![p] = <<>>]
    /\ Goto(next)
    /\ UNCHANGED <<work, answer, boundVars, req, cmd>>

\* os.MkdirAll makes the parent first; it stays if the rest fails.
MakeParent ==
    /\ At("mkdir", "mkparent")
    /\ \/ req.path \in Names /\ MakeDirectory(Dir, "mkdir")
       \/ Parent(req.path) = "dir" /\ Goes("mkdir") /\ Rest

\* A directory somebody else has made meanwhile will do for os.MkdirAll.
MakePath ==
    /\ At("mkdir", "mkdir")
    /\ \/ MakeDirectory(req.path, "made")
       \/ req.parents /\ Lookup(req.path) = "dir" /\ Goes("made") /\ Rest

MkdirFails ==
    /\ req.op = "mkdir"
    /\ pc \in {"mkparent", "mkdir"}
    /\ Refuse("MKDIR_FAILED")
    /\ Rest

MkdirReply ==
    /\ At("mkdir", "made")
    /\ IF Lookup(req.path) \in Kinds
       THEN Reply([code |-> "ok", created |-> TRUE])
       ELSE Refuse("MKDIR_FAILED")
    /\ Rest

-----------------------------------------------------------------------------
(* host.exec.run: exec.CommandContext with a deadline, and Run *)

CmdRest == UNCHANGED <<fsVars, boundVars, req>>

CommandStarts ==
    /\ At("exec", "run")
    /\ cmd' = [NoCommand EXCEPT !.child = "running", !.piped = TRUE]
    /\ Goes("wait")
    /\ CmdRest

\* The command is not found on the path, or cannot be started.
StartFails ==
    /\ At("exec", "run")
    /\ \E c \in {"COMMAND_NOT_FOUND", "EXEC_FAILED"} : Refuse(c)
    /\ Rest

\* The command ends by itself; processes it leaves may hold its output open.
CommandExits ==
    /\ cmd.child = "running"
    /\ \E how \in {"zero", "nonzero"}, held \in BOOLEAN :
          cmd' = [cmd EXCEPT !.child = how, !.piped = held]
    /\ UNCHANGED <<pc, work, answer>>
    /\ CmdRest

CommandKilled ==
    /\ cmd.child = "doomed"
    /\ \E held \in BOOLEAN : cmd' = [cmd EXCEPT !.child = "killed", !.piped = held]
    /\ UNCHANGED <<pc, work, answer>>
    /\ CmdRest

OutputCloses ==
    /\ cmd.child \in {"zero", "nonzero", "killed"}
    /\ cmd.piped
    /\ cmd' = [cmd EXCEPT !.piped = FALSE]
    /\ UNCHANGED <<pc, work, answer>>
    /\ CmdRest

\* Variant: the command is left running when its time is over.
Spared ==
    /\ At("exec", "wait") \/ At("exec", "drain")
    /\ ~cmd.late
    /\ cmd' = [cmd EXCEPT !.late = TRUE]
    /\ UNCHANGED <<pc, work, answer>>
    /\ CmdRest

\* The kill may still find a command that has ended and was not waited for:
\* Wait then reports the deadline if it has nothing worse to report.
Deadline ==
    /\ At("exec", "wait") \/ At("exec", "drain")
    /\ ~cmd.late
    /\ cmd' = [cmd EXCEPT !.late = TRUE,
                          !.child = IF @ = "running" THEN "doomed" ELSE @,
                          !.status = IF pc = "wait" THEN "deadline" ELSE @]
    /\ UNCHANGED <<pc, work, answer>>
    /\ CmdRest

\* Variant: the answer does not wait for the command to be gone.
NotReaped ==
    /\ At("exec", "wait")
    /\ cmd.child # "running"
    /\ cmd' = [cmd EXCEPT !.status = IF cmd.child = "zero" THEN @ ELSE cmd.child]
    /\ Goes("drain")
    /\ CmdRest

Reap ==
    /\ At("exec", "wait")
    /\ cmd.child \in {"zero", "nonzero", "killed"}
    /\ cmd' = [cmd EXCEPT !.status =
                  CASE cmd.child # "zero" -> cmd.child
                    [] cmd.child = "zero" /\ @ = "deadline" -> @
                    [] OTHER -> "success"]
    /\ Goes("drain")
    /\ CmdRest

\* Run returns when nobody holds the output open any more.  An error is the
\* deadline's if the deadline is over by now.
ExecReply ==
    /\ At("exec", "drain")
    /\ ~cmd.piped
    /\ CASE cmd.status = "success" -> Reply([code |-> "ok", exit |-> "zero"])
         [] cmd.status # "success" /\ cmd.late -> Refuse("EXEC_TIMEOUT")
         [] OTHER -> Reply([code |-> "ok", exit |-> cmd.status])
    /\ Rest

-----------------------------------------------------------------------------
FileStep ==
    \/ Denied \/ Stat \/ LookForDirectory \/ LookForFile \/ ReadContent \/ ReadReply
    \/ ReadDir \/ (\E p \in Names : ListEntry(p)) \/ ListReply
    \/ LookForParent \/ LookForTarget \/ OpenEmptied \/ OpenOther \/ OpenFails
    \/ WriteBlock \/ WriteBreaks \/ WriteEnds \/ WriteReply
    \/ LookForPath \/ MakeParent \/ MakePath \/ MkdirFails \/ MkdirReply

ExecStep ==
    \/ CommandStarts \/ StartFails \/ Reap \/ ExecReply

Next ==
    \/ (\E r \in Requests : Begin(r)) \/ RefusedAtOnce
    \/ FileStep \/ Unblocked
    \/ ExecStep \/ CommandExits \/ CommandKilled \/ OutputCloses \/ Deadline
    \/ Crash
    \/ \E p \in Paths, kind \in Kinds \cup {"none"} : OtherChanges(p, kind)

Spec == Init /\ [][Next]_vars

\* The daemon goes on, a deadline passes and a killed command dies.  A command
\* need not end by itself, nor what it leaves behind, nor the read or write of
\* what is no file.
FairSpec ==
    /\ Spec
    /\ WF_vars(FileStep)
    /\ WF_vars(ExecStep)
    /\ WF_vars(Deadline)
    /\ WF_vars(CommandKilled)

-----------------------------------------------------------------------------
(* Properties *)

\* A write that was answered with success is in the file, whole and without
\* anything of what the file held before, until the path is written again.
\* Only a write that failed, was cut off by a crash or met another writer may
\* leave something else.  (What is written to a device or a FIFO is not kept.)
AnsweredWriteIsThere ==
    \A p \in Paths :
        node[p].kind = "file" /\ expect[p] \notin {Pending, Unknown}
            => node[p].blocks = expect[p]

\* A read never reports a time stamp newer than the content: a client that
\* reads again when a stat shows a newer one does not keep an old content.  A
\* list has every entry that existed all the time, and none that never did.  A
\* directory said to be there was there during the request.
AnswerWasTrue ==
    /\ "read" \in DOMAIN answer =>
         \A f \in answer.read : answer.mtime <= f.mtime
    /\ "created" \in DOMAIN answer => <<req.path, "dir">> \in ever
    /\ "list" \in DOMAIN answer =>
         /\ answer.list \subseteq ever
         /\ req.path = Dir => steady \cap Names \subseteq {e[1] : e \in answer.list}

\* When a command is answered its process is gone.  An exit code is that of a
\* command that ended by itself, and a command the deadline killed is answered
\* as timed out and nothing else.  A timeout may be answered for a command that
\* ended by itself, too: if its time was over before it was waited for, even
\* after a success, or, when it failed, before its output was closed.
ExecAnswerTrue ==
    pc = "idle" /\ req.op = "exec" /\ answer.code # "none" =>
        /\ cmd.child \notin {"running", "doomed"}
        /\ "exit" \in DOMAIN answer =>
              answer.exit \in {"zero", "nonzero"} /\ cmd.child = answer.exit
        /\ cmd.child = "killed" => answer.code = "EXEC_TIMEOUT"

\* Every request ends, the one whose command hangs too: the daemon comes back
\* for the next one.  Two things hold it up for good, and the deadline reaches
\* neither: a process the command has left behind that keeps its output open,
\* and the read or write of what is no file.
RequestEnds ==
    \/ []<>(pc = "idle")
    \/ <>[](pc = "drain" /\ cmd.piped)
    \/ <>[](pc = "blocked")
=============================================================================
