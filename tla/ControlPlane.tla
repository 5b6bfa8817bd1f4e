---------------------------- MODULE ControlPlane ----------------------------
(***************************************************************************)
(* The ways into a host: commands that change its token ("hostd app ..."   *)
(* through the control socket of the daemon, or the state file if there is *)
(* none; "hostd pair ..." always through the state file) against daemons   *)
(* that start, stop and die (packages appctl and cli, on Unix).            *)
(*                                                                         *)
(* Each command makes one change, and the token in the state file is       *)
(* represented by the command that put it there.  The connection loop is   *)
(* reduced to what HostdRun shows of it: it loads the file before each     *)
(* connection, and saves the file now and then, reading it first.          *)
(***************************************************************************)
EXTENDS Integers, FiniteSets

CONSTANTS Daemons,      \* the processes of the daemon, each started once
          Commands,     \* the commands, each run once
          AppCommands,  \* those of "hostd app": they try the control socket first
          NoDaemon,     \* no socket under the path; a change made by no daemon
          NoCommand     \* the token before the first change

ASSUME ControlAssumption ==
    /\ IsFiniteSet(Commands)
    /\ AppCommands \subseteq Commands
    /\ NoDaemon \notin Daemons
    /\ NoCommand \notin Commands

VARIABLES
    life,       \* the stage of each daemon process
    path,       \* the daemon whose socket is under the path of the socket
    listening,  \* the daemons with an open listener
    loop,       \* the connection loop: about to load, in use, or in one of
                \* its updates of the file
    loaded,     \* the token in use
    copy,       \* the token a save has read
    signal,     \* a request waits in the loop's channel
    pc,         \* the stage of each command
    server,     \* the daemon that handles a command's request
    job,        \* the stage of its handler
    file,       \* the token in the state file
    author,     \* who wrote each command's change: a daemon, or the command
    rank,       \* (history) the order in which the changes were written
    overlapped  \* (history) the daemons that ran beside another one

daemonVars  == <<life, path, listening, overlapped>>
loopVars    == <<loop, loaded, copy, signal>>
commandVars == <<pc, server, job>>
fileVars    == <<file, author, rank>>

vars == <<life, path, listening, overlapped, loop, loaded, copy, signal,
          pc, server, job, file, author, rank>>

Token == Commands \cup {NoCommand}

Ends == {"socket", "file", "refused", "failed"}

\* Type of the variables.
ControlTypeOK ==
    /\ life \in [Daemons -> {"off", "stale", "listen", "running", "stopping",
                             "closed", "removed", "dead"}]
    /\ path \in Daemons \cup {NoDaemon}
    /\ listening \subseteq Daemons
    /\ overlapped \subseteq Daemons
    /\ loop \in [Daemons -> {"load", "loading", "use", "saving"}]
    /\ loaded \in [Daemons -> Token]
    /\ copy \in [Daemons -> Token]
    /\ signal \in [Daemons -> BOOLEAN]
    /\ pc \in [Commands -> {"todo", "sent", "write"} \cup Ends]
    /\ server \in [Commands -> Daemons \cup {NoDaemon}]
    /\ job \in [Commands -> {"none", "queued", "saved", "signalled", "unsynced"}]
    /\ file \in Token
    /\ author \in [Commands -> Daemons \cup {NoDaemon}]
    /\ rank \in [Token -> 0 .. Cardinality(Commands)]

Init ==
    /\ life = [d \in Daemons |-> "off"]
    /\ path = NoDaemon
    /\ listening = {}
    /\ overlapped = {}
    /\ loop = [d \in Daemons |-> "load"]
    /\ loaded = [d \in Daemons |-> NoCommand]
    /\ copy = [d \in Daemons |-> NoCommand]
    /\ signal = [d \in Daemons |-> FALSE]
    /\ pc = [c \in Commands |-> "todo"]
    /\ server = [c \in Commands |-> NoDaemon]
    /\ job = [c \in Commands |-> "none"]
    /\ file = NoCommand
    /\ author = [c \in Commands |-> NoDaemon]
    /\ rank = [t \in Token |-> 0]

-----------------------------------------------------------------------------
Live(d) == life[d] \notin {"off", "dead"}

Looping(d) == life[d] \in {"running", "stopping", "closed", "removed"}

Becomes(d, stage) == life' = [life EXCEPT ![d] = stage]

\* The change of command c reaches the file.
Write(c, by) ==
    /\ file' = c
    /\ author' = [author EXCEPT ![c] = by]
    /\ rank' = [rank EXCEPT ![c] =
                    1 + Cardinality({x \in Commands : rank[x] > 0})]

-----------------------------------------------------------------------------
(* A daemon and its control socket *)

\* Nothing keeps a daemon from being started beside another one.
Start(d) ==
    /\ life[d] = "off"
    /\ Becomes(d, "stale")
    /\ overlapped' = overlapped \cup
           (IF \E e \in Daemons : Live(e)
            THEN {d} \cup {e \in Daemons : Live(e)} ELSE {})
    /\ UNCHANGED <<path, listening, loopVars, commandVars, fileVars>>

\* Whatever socket is under the path is taken for a stale one.
RemoveStale(d) ==
    /\ life[d] = "stale"
    /\ path' = NoDaemon
    /\ Becomes(d, "listen")
    /\ UNCHANGED <<listening, overlapped, loopVars, commandVars, fileVars>>

\* Variant: the stale socket is removed after the bind.
ListenFirst(d) ==
    /\ life[d] = "listen"
    /\ path' = NoDaemon
    /\ listening' = listening \cup {d}
    /\ Becomes(d, "running")
    /\ UNCHANGED <<overlapped, loopVars, commandVars, fileVars>>

Listen(d) ==
    /\ life[d] = "listen"
    /\ path = NoDaemon
    /\ path' = d
    /\ listening' = listening \cup {d}
    /\ Becomes(d, "running")
    /\ UNCHANGED <<overlapped, loopVars, commandVars, fileVars>>

\* The daemon runs on without a control server.
ListenFails(d) ==
    /\ life[d] \in {"stale", "listen"}
    /\ Becomes(d, "running")
    /\ UNCHANGED <<path, listening, overlapped, loopVars, commandVars, fileVars>>

\* Its context is done, by a signal or by "app shutdown".
Stop(d) ==
    /\ life[d] = "running"
    /\ Becomes(d, "stopping")
    /\ UNCHANGED <<path, listening, overlapped, loopVars, commandVars, fileVars>>

\* To close the listener is to unlink its path, and Close removes the path
\* once more when the last request is answered or a second is over.
CloseListener(d) ==
    /\ life[d] = "stopping"
    /\ d \in listening
    /\ listening' = listening \ {d}
    /\ path' = NoDaemon
    /\ Becomes(d, "closed")
    /\ UNCHANGED <<overlapped, loopVars, commandVars, fileVars>>

RemovePath(d) ==
    /\ life[d] = "closed"
    /\ path' = NoDaemon
    /\ Becomes(d, "removed")
    /\ UNCHANGED <<listening, overlapped, loopVars, commandVars, fileVars>>

\* Run returns without waiting for the two, and the process may also be
\* killed: the socket of a dead process stays under its path.
Die(d) ==
    /\ Live(d)
    /\ Becomes(d, "dead")
    /\ listening' = listening \ {d}
    /\ UNCHANGED <<path, overlapped, loopVars, commandVars, fileVars>>

-----------------------------------------------------------------------------
(* Its connection loop *)

Reads(d, stage) ==
    /\ copy' = [copy EXCEPT ![d] = file]
    /\ loop' = [loop EXCEPT ![d] = stage]
    /\ UNCHANGED <<daemonVars, loaded, signal, commandVars, fileVars>>

Writes(d) ==
    /\ file' = copy[d]
    /\ loop' = [loop EXCEPT ![d] = "use"]
    /\ UNCHANGED <<daemonVars, copy, signal, commandVars, author, rank>>

\* runOnce begins with an Update that returns the state it will use.
LoadReads(d) == Looping(d) /\ loop[d] = "load" /\ Reads(d, "loading")

LoadWrites(d) ==
    /\ Looping(d)
    /\ loop[d] = "loading"
    /\ Writes(d)
    /\ loaded' = [loaded EXCEPT ![d] = copy[d]]

\* The other Updates of the loop do not touch the token.
SaveReads(d) == Looping(d) /\ loop[d] = "use" /\ Reads(d, "saving")

SaveWrites(d) ==
    /\ Looping(d)
    /\ loop[d] = "saving"
    /\ Writes(d)
    /\ UNCHANGED loaded

\* The connection ends, for any reason or at a request.
Reconnect(d) ==
    /\ Looping(d)
    /\ loop[d] = "use"
    /\ loop' = [loop EXCEPT ![d] = "load"]
    /\ \/ UNCHANGED signal
       \/ signal[d] /\ signal' = [signal EXCEPT ![d] = FALSE]
    /\ UNCHANGED <<daemonVars, loaded, copy, commandVars, fileVars>>

-----------------------------------------------------------------------------
(* Commands *)

Step(c, stage) == pc' = [pc EXCEPT ![c] = stage]

\* A daemon listens: the request is on its way.
Connect(c) ==
    /\ pc[c] = "todo"
    /\ c \in AppCommands
    /\ path \in listening
    /\ Step(c, "sent")
    /\ server' = [server EXCEPT ![c] = path]
    /\ job' = [job EXCEPT ![c] = "queued"]
    /\ UNCHANGED <<daemonVars, loopVars, fileVars>>

\* There is no socket: ErrUnavailable, and the command writes the file itself.
Unavailable(c) ==
    /\ pc[c] = "todo"
    /\ c \in AppCommands
    /\ path = NoDaemon
    /\ Step(c, "write")
    /\ UNCHANGED <<daemonVars, loopVars, server, job, fileVars>>

\* The socket has no listener: the error of the dial wraps ECONNREFUSED in a
\* SyscallError, not in the PathError isUnavailableError looks for.
Refused(c) ==
    /\ pc[c] = "todo"
    /\ c \in AppCommands
    /\ path \in Daemons \ listening
    /\ Step(c, "refused")
    /\ UNCHANGED <<daemonVars, loopVars, server, job, fileVars>>

\* A command of "hostd pair" does not ask for a daemon.
Direct(c) ==
    /\ pc[c] = "todo"
    /\ c \notin AppCommands
    /\ Step(c, "write")
    /\ UNCHANGED <<daemonVars, loopVars, server, job, fileVars>>

WriteFile(c) ==
    /\ pc[c] = "write"
    /\ Write(c, NoDaemon)
    /\ Step(c, "file")
    /\ UNCHANGED <<daemonVars, loopVars, server, job>>

\* Variant: the handler's Update does not wait for the one of the loop.
UnlockedSave(c) ==
    /\ job[c] = "queued"
    /\ Looping(server[c])
    /\ Write(c, server[c])
    /\ job' = [job EXCEPT ![c] = "saved"]
    /\ UNCHANGED <<daemonVars, loopVars, pc, server>>

\* setRuntimeToken in the daemon: an Update, excluded by one of the loop.
HandlerSaves(c) ==
    /\ job[c] = "queued"
    /\ Looping(server[c])
    /\ loop[server[c]] \notin {"loading", "saving"}
    /\ Write(c, server[c])
    /\ job' = [job EXCEPT ![c] = "saved"]
    /\ UNCHANGED <<daemonVars, loopVars, pc, server>>

\* Variant: the handler answers without a request to the loop.
HandlerAnswers(c) ==
    /\ job[c] = "saved"
    /\ Looping(server[c])
    /\ job' = [job EXCEPT ![c] = "signalled"]
    /\ UNCHANGED <<daemonVars, loopVars, pc, server, fileVars>>

HandlerSignals(c) ==
    /\ job[c] = "saved"
    /\ Looping(server[c])
    /\ signal' = [signal EXCEPT ![server[c]] = TRUE]
    /\ job' = [job EXCEPT ![c] = "signalled"]
    /\ UNCHANGED <<daemonVars, loop, loaded, copy, pc, server, fileVars>>

\* The file cannot be saved; or it was, but its directory could not be flushed.
HandlerFails(c) ==
    /\ job[c] = "queued"
    /\ Looping(server[c])
    /\ loop[server[c]] \notin {"loading", "saving"}
    /\ Step(c, "failed")
    /\ \/ job' = [job EXCEPT ![c] = "none"] /\ UNCHANGED fileVars
       \/ job' = [job EXCEPT ![c] = "unsynced"] /\ Write(c, server[c])
    /\ UNCHANGED <<daemonVars, loopVars, server>>

Answered(c) ==
    /\ pc[c] = "sent"
    /\ job[c] = "signalled"
    /\ Live(server[c])
    /\ Step(c, "socket")
    /\ UNCHANGED <<daemonVars, loopVars, server, job, fileVars>>

\* Three seconds are over, or the connection breaks: the handler goes on.
GivesUp(c) ==
    /\ pc[c] = "sent"
    /\ Step(c, "failed")
    /\ UNCHANGED <<daemonVars, loopVars, server, job, fileVars>>

-----------------------------------------------------------------------------
DaemonStep(d) ==
    \/ Start(d) \/ RemoveStale(d) \/ Listen(d) \/ ListenFails(d)
    \/ Stop(d) \/ CloseListener(d) \/ RemovePath(d) \/ Die(d)
    \/ LoadReads(d) \/ LoadWrites(d) \/ Reconnect(d)
    \/ SaveReads(d) \/ SaveWrites(d)

CommandStep(c) ==
    \/ Connect(c) \/ Unavailable(c) \/ Refused(c) \/ Direct(c) \/ WriteFile(c)
    \/ HandlerSaves(c) \/ HandlerSignals(c) \/ HandlerFails(c)
    \/ Answered(c) \/ GivesUp(c)

Next ==
    \/ \E d \in Daemons : DaemonStep(d)
    \/ \E c \in Commands : CommandStep(c)

Spec == Init /\ [][Next]_vars

-----------------------------------------------------------------------------
(* Properties *)

\* A daemon with a control server can be reached through the socket for as long
\* as it runs, unless it was started beside another one: then either of the two
\* may have removed the socket of the other, at its start or at its end.
ReachableUnlessOverlapped ==
    \A d \in Daemons :
        life[d] = "running" /\ d \in listening /\ d \notin overlapped => path = d

Owed(d) ==
    \/ loop[d] \in {"load", "loading"}
    \/ signal[d]
    \/ \E c \in Commands : server[c] = d /\ job[c] = "saved"

\* A change made through the socket of a running daemon is in use or about to
\* be loaded, also when the command gave up before it was answered; only a
\* change that a command wrote itself, or that the daemon reported as failed
\* after it had replaced the file, may go unnoticed.  Daemons that run beside
\* each other undo each other's changes.
OutdatedOnlyByDirectWrite ==
    \A d \in Daemons \ overlapped :
        \A c \in Commands :
            /\ life[d] = "running"
            /\ file = c
            /\ author[c] = d
            /\ job[c] # "unsynced"
            => loaded[d] = c \/ Owed(d)

\* A change made through a socket is never undone by a save that read the file
\* before it: the file holds it or a later change, unless its daemon ran beside
\* another one.
SocketChangeNotUndone ==
    \A c \in Commands : author[c] \in Daemons \ overlapped => rank[file] >= rank[c]

\* A refused connection counts as "no daemon", and the command falls back to
\* the state file, as isUnavailableError lists it.
RefusedSocketFallsBack == \A c \in Commands : pc[c] # "refused"
=============================================================================
