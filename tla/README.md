# hostd: models, model checking and proofs

hostd is a daemon that keeps a host connected to a gateway over a WebSocket,
executes the requests the gateway sends (files, commands, updates) and is
administered by a command line that talks to it over a local control socket.
This directory holds TLA+ models of its core, the TLC configurations that check
them, and TLAPS proofs of the results that matter most. Line references are to
`src/`.

## 1. Inventory

| Component | Source | State it keeps | Operations | Modelled by |
|---|---|---|---|---|
| Connection loop | `internal/hostdrun/runner.go` | status pair (`stateName`, `online`), `reconnectCh` (capacity 1), run context, backoff; per session the heartbeat flag, its timer, the reader goroutine | `Run`, `runOnce`, `handleRequest`; handlers `setRuntimeToken`, `clearRuntimeToken`, `requestReconnect`, `requestShutdown`, `snapshotStatus` | HostdRun; its frames and its reader in Session |
| State file | `internal/state/store.go` | `state.json` (runtime id, token, pairing state, last error ...), one mutex per `Store` | `Load`, `Update`, `Save`; `writeFileAtomic`, `replaceFile`, `syncDir` | StateStore |
| Control socket | `internal/appctl` | listener, socket file | `Start`, `Close`, one route per handler; client requests with a limit of 3 s | ControlPlane (Unix) |
| Token commands | `internal/cli/cli.go` | none (a process per command) | `app set-token`, `clear-token`, `reconnect`, `shutdown`, `snapshot`; `pair set-token`, `clear-token`, `revoke`, `status` | ControlPlane (those that change the token) |
| Host update | `internal/host/component.go` 531-712 | update directory: the package file, `latest.json` | `applyUpdate` from the daemon and from `hostd update apply` | HostUpdate |
| Host files and commands | `internal/host/component.go` 182-529 | the host's files | `host.fs.stat/list/read/write/mkdir`, `host.exec.run` | HostMethods |
| Invite claim | `internal/cli/pair_invite.go` | `config.json`, state file, the gateway's token | `pair claim-invite` | InviteClaim, HostConfig |
| Release download | `internal/cli/update.go` | download directory | `update check`, `download`, `apply` | ReleaseDownload; `apply` as an updater of HostUpdate |
| WebSocket client | `internal/wsclient/client.go` | a connection | `Dial`, `ReadJSON`, `WriteJSON`, `Close` | Session; in HostdRun by its results |
| Wire types | `internal/protocol/types.go` | none | `ParseHelloPayload` | by its results in HostdRun, frames by their kind in Session |
| Configuration | `internal/config/config.go` | `config.json` | `Load`, `Save`, `ValidateForRun`, paths | HostConfig |
| Services | `internal/winsvc`, `internal/launchd`, `deploy/` | service registration | run under the service manager, install, uninstall | only the restart of the process, in HostdRun |
| Entry point, build info | `cmd/hostd`, `internal/buildinfo` | none | signals | the signal, in HostdRun |

How they interact:

- The loop and the control handlers are goroutines of one process. They share
  the state file (through one `Store`, so each `Update` is atomic within the
  process), the status pair (a mutex), `reconnectCh` and the run context.
- A change of the token is *save, then signal* (runner.go 518-552); the loop
  loads the state at the start of each connection (129-136) and drains the
  channel in the session (226) and in the pause (115).
- The CLI reaches a running daemon through the control socket. If the socket is
  "unavailable" it writes the state file itself; `hostd pair` always does. Two
  processes then share the file, each with a mutex of its own.
- The loop executes requests itself (261-273): a session, its heartbeats, its
  reconnects and its shutdown wait for the request.
- The reader goroutine of a session hands each frame to the loop over an
  unbuffered channel and its error over a buffered one (196-219); the loop writes
  answers and heartbeats on the same connection.
- The daemon and `hostd update apply` share the update directory, unlocked, and
  several `hostd update download` a download directory. The files that
  `host.fs.*` works on belong to every other process as well.
- `pair claim-invite` is the only writer of `config.json`. It spends an invite at
  the gateway, which makes a new token, and hands the token to the daemon through
  the socket or to the state file. The daemon reads `config.json` when it starts.

The behaviours that are hard to test are listed with their lines under
`hazards` in `PROJECT.json`: interleavings of loop and handlers around the one
pending signal, the ends of a session racing its timer, processes that share
the file and the socket, power loss around the rename, updates that fail
half-way, the classification of errors at the end of an attempt, frames and
errors that race each other, other processes at the same files between two
system calls, and commands that hang or leave processes behind.

What makes each part correct:

- *Loop*: no change of the token is forgotten; the status is truthful; only a
  shutdown ends it; a silent gateway is dropped; it keeps trying.
- *State file*: never half a document; an acknowledged update is durable; one
  process' calls behave as if each happened in one step; no call hangs.
- *Control plane*: a running daemon is reachable; a change that went through it
  is adopted and not undone; no daemon means fallback.
- *Update*: the command runs on what was verified; every failure is answered.
- *Session*: each request is executed once, in the order sent, and answered on
  the connection it came on; nothing that was read is lost to a read error; what
  a session leaves behind is bounded; a shutdown completes unless the gateway
  leaves a write unread.
- *Files and commands*: what an answer of success says is true; every request
  ends, so that the loop comes back, but for those no deadline reaches: the read or
  write of what is no file, and a command that leaves its output open behind it.
- *Release download*: a verified package stays whole under the path reported,
  and no download harms a file that is not its own.
- *Invite claim*: success means that the host holds the token the gateway takes,
  and that a running daemon uses it.
- *Configuration*: flags before environment before file before defaults; a saved
  file means what was loaded; a claim leaves a host that can start.

## 2. Modules

**HostdRun** (`MCHostdRun`). The goroutine of `Run` is a program counter `pc`
over the places where it touches something shared: one action is the code
between two such places, so an action never touches two of the file, the status
pair, the channel and the context. `load`..`accepted` is runOnce before its
loop, `serve` the select (one action per branch; `Frame` is the branch of a
frame, `dispatch` the request it may carry), `leave` the status write before a
return, `classify` and `report` what `Run` makes of the error (`outcome` is its
kind), `wait` the second select. `ctl[h]` is a request of the control server
between its two halves: `saved` (file written, signal to be sent) or `stopping`
(status written, cancel to be called). The file is reduced to token, pairing
state and "an error is noted". `silent` is history: the file was replaced but
the handler reported an error and signals nothing. `Restart` is the death of
the process anywhere and its restart by the service manager.

**TokenHandoff** is what the loop promises about tokens: a connection may use
an old token only as long as a reload is owed. HostdRun implements it under the
mapping `desired <- store.token, inUse <- used, owed <- ReloadOwed`.

**StateStore** (`MCStateStore`). Calls of one or more processes, each at `pc[c]`
in the sequence lock, read, write temp, flush, rename, flush directory, return.
The content is abstracted to the set of updates it includes. `mayHold` is the
set of contents a loss of power may leave: a rename adds the new file (torn, if
it was not flushed), the flush of the directory leaves only the current one.
`windows`, chosen in the initial state, stands for the platform: there a refused
rename removes the target and is tried again, and the flush of the directory
does nothing. A file with trailing bytes is repaired by `Read` as in the code.

**AtomicState** is what the file promises: updates in one step, durable once
acknowledged, if the platform is `durable`; on one that is not, updates may
waver. StateStore with one process implements it under the mapping
`durable <- ~windows, value <- file.ops`.

**ControlPlane** (`MCControlPlane`). Daemon processes from start to death with
their socket (`path` is whose socket is under the path, `listening` whose
listener is open), their loop reduced to *update on load, use, other updates*
(each in two halves, because another process may write between them), and
commands with their handlers. A token is represented by the command that set
it. `author` records who wrote a change, `rank` (history) when, and
`overlapped` (history) which daemons ran at the same time: nothing in the code
keeps a second daemon from being started, so the properties name the overlap.

**HostMethods** (`MCHostMethods`). One request after the other, at `pc` between
its system calls: `look` (the first stat), `run` (the call itself), `entries` of
a list, `open`/`write`/`written` of a write, `mkparent`/`mkdir`/`made`, and
`wait`/`drain` of a command. The files are one directory, which may be missing or
be no directory, and names in it. What `fileType` calls "other" (a FIFO, a device,
a socket) is looked up like anything else, but the methods open it: such a read or
write goes to `blocked` and comes back (`Unblocked`, `passed`) only if what is
behind it lets it. A content is a sequence of blocks that name their
writer, their place and their total, so that a part, a mixture or a tail of an
older file can be told from a whole. Another process replaces, creates and
removes paths at any time (`OtherChanges`), a write may fail half-way, the daemon
may die. `cmd` is the process of a command: whether it runs, is doomed by the
deadline, has ended, and whether somebody holds its output open. `expect`,
`ever` and `steady` are history: what an answered write has promised, and what
existed at some time, or all the time, during the request.

**Session** (`MCSession`). One connection after the other: what the gateway sent
(`sent`), what the reader has parsed (`received`) and whether it reads, hands
over or is gone (`reader`), what the loop has taken and does with it (`pc`,
`frame`, `writing`). The frame a reader holds when its session ends stays with
it. `wio[s]` is the write lock of the connection, a `Send`'s or that of a closing
one: `Conn.Close` of x/net/websocket writes a close frame, under the lock that a
`Send` holds while it writes, before it closes anything. So when the context ends
and a read or write is given up (client.go 74-76, 90-92, `ReadGivenUp`,
`WriteGivenUp`), its `Close` waits for the write under way (`CloseBegins`,
`ReaderCloses`) and for the gateway to take the close frame (`CloseEnds`,
`ReaderClosed`); so does the `Close` at every end of a session (runner.go 150).
Neither write has a deadline. The handshake, the state file and the
timers are HostdRun's; an end for one of its reasons is `EndEarly`.

**ReleaseDownload** (`MCReleaseDownload`). Processes that look for a free name,
ask for the package, create the file with O_EXCL, copy block by block, compare
the checksum and remove the file on failure. A server may serve any body, or
break off; files from earlier may be in the way; a process may be killed; the
user may move a file away.

**HostUpdate** (`MCHostUpdate`). Updaters run `applyUpdate` one after the other.
The package file is a sequence of blocks that is emptied by `os.Create` and
written at each writer's own offset, so two writers mix; the server may serve
any package; the manifest is emptied and then written. `disturbed` (history) is
the set of updaters whose files another one wrote to after they did.

**HostConfig** (`MCHostConfig`). A source is a partial function from settings to
raw values; `Load` is the composition of the code's steps (`ApplyFile`,
`ApplyEnv`, `ApplyOptions`, `Normalize` and `Acceptable` for its errors), each of
them a function that overrides the settings its source *decides*. The
administrator gives settings while nothing runs; claims load, change and save
the file (`SaveTruncates`, `SaveWrites`: os.WriteFile is not atomic) and may be
killed; the daemon starts from file, environment and flags. The environment of
a claim is its shell's, not the daemon's. `was` (history) is the file a claim
has loaded.

**InviteClaim** (`MCInviteClaim`). One claim after the other, each a program
counter through `pairClaimInvite`, its Updates in two halves; the handler of its
request in the daemon; the daemon's loop reduced to *load, dial, update, serve,
wait* (HostdRun has the whole of it); and the one token each gateway takes. A
token is named by its claim. A request that nobody waits for any more stays in
`abandoned` until the daemon handles it or stops. `disturbed` (history) has the
claims beside which a daemon was started or that were undone by such a request.

**HostdRunProofs, StateStoreProofs, HostUpdateProofs, SessionProofs,
ReleaseDownloadProofs, ControlPlaneProofs, ClaimProofs, HostMethodsProofs** hold
the theorems; ClaimProofs those about `pair claim-invite`, that is about both
InviteClaim and HostConfig.

The runs check a type invariant where it says something about the code (the
limit of the pause in HostdRun's TypeOK, StoreTypeOK). In the other modules a
`...TypeOK` documents the state; all are proved (for ReleaseDownload and
HostMethods the proof modules hold the definition).

Operators marked "Variant" are plausible mistakes in the definition that
follows them. They are used by no specification: replacing the definition by
its variant must make the property named in `PROJECT.json` fail, which shows
that the property depends on that piece of the code.

## 3. Runs

| Run | Question | Bounds |
|---|---|---|
| `hostdrun` | TypeOK and the five invariants of the loop, the refinement of TokenHandoff, TokenAdopted, SilenceEndsSession, ShutdownCompletes, KeepsTrying | a token and none, 1 control request at a time, pauses from 2 to 3, 1 restart |
| `statestore` | StoreTypeOK, NeverTorn, AcknowledgedDurable, LostOnlyByRemoval, CallsReturn, refinement of AtomicState | 2 updates, 1 load, both platforms, crashes and power losses at any step |
| `controlplane` | ReachableUnlessOverlapped, OutdatedOnlyByDirectWrite, SocketChangeNotUndone | 2 daemons that may overlap, an app and a pair command |
| `controlplane_refused` | RefusedSocketFallsBack (violated) | 1 daemon, 2 commands |
| `hostupdate_shared` | CommandFindsWhatWasVerified, UpdateEnds | daemon and CLI, packages of 1 and 2 blocks |
| `hostupdate_failure` | FailedCommandIsReported (violated) | the daemon alone |
| `hostconfig_sources` | SourcesInOrder, SavedConfigReadsBack, ClaimKeepsLists, ClaimedHostStarts, NoStartFromTornFile | any 3 settings out of 35, over the four sources |
| `hostconfig_disabled` | DisabledHostHasNoComponent (violated) | a gateway and a disabled host |
| `inviteclaim` | HostCanAuthenticate, NoSocketClaimUnnoticed, ClaimComesOnline | 2 claims at one gateway, a host that may be at another, any starts and stops |
| `hostmethods` | AnsweredWriteIsThere, AnswerWasTrue, ExecAnswerTrue, RequestEnds | a directory and 2 names, payloads of up to 2 blocks, 2 requests, 1 change by another process, 1 crash |
| `session` | AnswersInOrder, NothingLostBeforeError, ReaderEnds, StopCompletes | 2 connections, 2 frames on the first and 1 on the second |
| `releasedownload` | VerifiedIsThere, OnlyOwnFileChanges | 2 processes, 2 packages of 2 blocks, 2 names, 1 file moved |

Why the bounds are enough: the channel holds one signal and a handler sends it
without waiting, so one handler after another already leaves a drained, a
dropped and a pending one (the theorems are about any number of handlers at a
time); a token and "no token" are the old and the new value, and whether the
loop uses what the file holds is a comparison of two; pauses from 2 to 3 double
past the limit; one restart covers what survives. Two updates are one that was
acknowledged and one in flight, or begun after a crash; more of them, and other
processes, are left to the theorems of StateStoreProofs. A
package shorter than its predecessor leaves a tail unless the file is emptied,
and two blocks are the least that two writers can mix. A daemon and its
successor are enough for a stale and a stolen socket. Each value of a setting
stands for one branch of the code, and three settings are enough for one
setting in three sources, or a setting in one and the two that decide what
becomes of it (enabled, command) elsewhere; the theorems of ClaimProofs are about
any settings. Two claims are one that gives up while the daemon still holds its
request and one that meets that request; more of them are left to the theorems.
Two requests are a write
and what comes after it, a retry or another method; one change is enough to
replace or remove what a request has looked at; two blocks are the least a
write can leave half of. Two connections are the one
a reader outlives and the one it could disturb; two frames on the first are the
one in hand and the one behind it, and one on the second is what an older frame
could be taken for. Two processes and two names are a name that is free for
both, and one that was taken in between.

`CHECK_DEADLOCK FALSE` is set where the system really stops: calls, commands and
downloads are made only once (StateStore, ControlPlane, ReleaseDownload), requests
and changes are bounded (HostMethods), and a loop that was shut down is done
(Session). The other models never stop: even a loop that has ended leaves the
handlers' steps.

### What the runs show

All properties hold except three, which the code contradicts:

- **A failed update command ends the daemon.** `applyUpdate` writes into the
  result of `runCommand` (component.go 575) before it looks at the error (579).
  With an error the result is a nil map, and the write panics. A command that
  cannot be started, or that times out, is therefore never answered with
  `COMMAND_NOT_FOUND` or `UPDATE_TIMEOUT`.
- **A stale socket defeats the fallback.** `isUnavailableError`
  (appctl_transport_unix.go 43-55) means to treat ECONNREFUSED as "no daemon",
  but looks for it in a type the dial never returns. After a daemon was killed
  every app command fails until the next start removes the socket.
- **A disabled host is served.** `defaultRunnerFactory` (cli.go 467-488) builds
  the host component without asking `components.host.enabled`, and takes the
  empty list of methods of a disabled host for all methods. `buildComponents`
  (runner.go 333-336) does ask, so the component is in neither the connect request
  nor the heartbeats; `handleRequest` does not, and serves every request for it. The
  answer `HOST_COMPONENT_DISABLED` (runner.go 345-353) is never given.

Some properties state where the limits of a guarantee lie, because a simpler
form does not hold: a direct change of the file may go unnoticed by a running
daemon (OutdatedOnlyByDirectWrite); an update may be lost on Windows exactly
while the target is removed (LostOnlyByRemoval); a command may find files that
were not verified only if another process applies an update at the same time
(CommandFindsWhatWasVerified); the environment of the shell ends up in the saved
file, and an update that was not to download downloads after a claim
(SavedConfigReadsBack); a claim may be told success although the next start
fails: over the log level, over a pin that the daemon's own flags or environment
ask for or take away, or over methods in its environment that nobody looked at
while its host was disabled (ClaimedHostStarts, `Spoilt`); a daemon that starts while a claim is under way, or an
abandoned request of an older claim, may put an older token back
(HostCanAuthenticate); and a daemon started for another gateway stays there
(ClaimComesOnline). A claim killed inside `config.Save` leaves a file that no
daemon and no claim can load until it is repaired by hand; a claim of a
disabled host fails only after it has saved the file without its methods, hints
and update.

The same holds of what was added for requests, sessions and downloads: a write
that was answered with success is there, but one that failed, was cut off by a
crash or met a second writer may leave a part or a mixture, because the file is
written in place (AnsweredWriteIsThere); a request is held up for good only by a
process that holds the output of a command open, which the deadline does not
reach, or by the read or write of a FIFO without a peer or a device without an
end, which have no deadline (RequestEnds); a command may be answered with
EXEC_TIMEOUT although it ended by itself, even with success, when its deadline
passed before it was waited for, but never the other way round
(ExecAnswerTrue); each session may leave one goroutine behind with one frame
in hand (ReaderEnds); a write without a deadline, or the close frame of a session that ends, holds the
loop until the gateway reads or the connection breaks, and a shutdown does not get
out of it, because it closes the connection first (StopCompletes); a request that
ran
may stay unanswered when its connection ends first, and the code keeps no record
of request ids by which a repetition could be told (AnswersInOrder is about
frames); and a download that fails removes whatever is under its name by then,
which is another's only if the user has moved the unfinished file away
(OnlyOwnFileChanges).

### Fairness

HostdRun: outside its selects the loop goes on (weak fairness of `Connect`,
`Close`, `DispatchDone`, `Wait`). For the network this is an assumption: dial,
handshake and dispatched requests have no limit of their own in the code, so
each is assumed to end. So is every write and the closing of a connection, which
wait for a gateway that reads or a connection that breaks: Session and HostMethods
are about what happens otherwise (StopCompletes, RequestEnds). Go's select chooses uniformly among ready branches, so
a branch that is ready again and again is taken: strong fairness of
`ServeCancelled` and `ServeReconnect`. Ticker and timer fire: weak fairness of
the probe and of `AckTimeout`. The file can be read again some day (strong
fairness of `LoadOk`). A handler that was begun is finished. No fairness is
assumed of the gateway's frames, of requests, of signals or of restarts.

StateStore: each call takes its next step. No fairness of the mutex is needed,
because each call is made once.

HostUpdate: an updater goes on, and so does the deadline; nothing is assumed of
the command itself, but of the processes it leaves behind it is assumed that
they close the output some day, because `Run` waits for that.

HostMethods: the daemon goes on with a request, a deadline passes and a killed
command dies. Nothing is assumed of a command's own end, of the processes that
hold its output, or of the read and write of what is no file. In HostUpdate those
processes are assumed to close it some day, and RequestEnds shows what happens if
they do not.

Session: loop and reader go on while they can (weak fairness; a request ends, and
what is written on a lost connection fails), and a cancelled
context is noticed although other branches are ready again and again (strong
fairness of `Cancelled`). Nothing is assumed of the gateway: it need not send,
close, or read what is written to it.

ReleaseDownload states no fairness: its properties are about safety.

InviteClaim: the loop of the daemon goes on, a token the gateway keeps taking is
accepted some day although the network may fail any number of times (strong
fairness of `Accepted`), and a waiting signal is taken (strong fairness of
`Reconnects`, as in HostdRun). Nothing is assumed of commands, starts and stops.

## 4. Proofs

All proofs are checked by TLAPS for every value of the constants that satisfies
the named assumptions of the modules (NoToken is not a token, 1 <= MinBackoff
<= MaxBackoff, finitely many commands in ControlPlane, and so on).

- `HostdRunProofs`: TypeCorrect, HeartbeatTimer, ShutdownOnly, NoErrorInSession,
  StatusTruthful, TokenNeverForgotten and RefinesHandoff. The inductive
  invariant is TypeOK with the five properties and one conjunct more,
  `OutcomeFresh`: the properties speak of the kind of error runOnce left behind,
  which is meaningful only between the return and the next attempt, so the
  invariant has to say that it is reset before it could be misread. The proof
  has one lemma per group of actions. RefinesHandoff maps each step to a
  change, a debt, an adoption, a restart or a stutter; the step that settles the
  debt is always the one that loads the token.
- `StateStoreProofs`: StoreTypeCorrect and FileNeverTorn for any processes;
  Durable, LossOnlyByRemoval and RefinesAtomicState for one process (`OneProcess`).
  The invariant behind Durable and the refinement, which are about platforms that
  flush directories, says that the mutex is held by exactly the call that is
  under way, that this call's copy contains everything the file contains, and
  that every acknowledged update is in the file and in all of `mayHold`. That of
  LossOnlyByRemoval (`LossInv`) asks only, on any platform, that the copy contains
  what is in the file.
- `HostUpdateProofs`: UpdateTypeCorrect and VerifiedPackage, for any number of
  processes, packages and lengths. The invariant follows an undisturbed updater:
  while it copies, the file is the written prefix of the package and nothing
  else; once verified it is the whole package; between the emptying and the
  writing of the manifest the manifest is empty.
- `SessionProofs`: SessionTypeCorrect, RequestsInOrder and ErrorsComeLast, for
  any number of sessions and frames. The invariant says of each reader that it
  holds at most the last frame it has parsed and that the loop has taken all
  before it (`ReaderState`), of each error that nothing that parses can follow it
  (`ErrorState`), of the loop that what it executes or answers is the last frame
  taken of its own session (`LoopState`), and of each request executed that it
  lies before that (`Past`). Without the first of these a late reader could
  still break the order.
- `ReleaseDownloadProofs`: VerifiedStays and OthersUntouched, for any processes,
  packages and numbers of names. The invariant (`Progress`) makes each file the
  property of the process that created it: it is found only under the name that
  process has chosen and holds exactly what was hashed. That O_EXCL fails on a
  name that was taken meanwhile is what keeps two processes from owning one.

- `ControlPlaneProofs`: ControlTypeCorrect, LoneDaemonReachable,
  SocketChangeAdopted and SocketChangeStays, for any number of daemons and
  commands. Adoption is not inductive by itself: a daemon also writes the file
  back when it notes a status, from a copy it read before. The invariant
  therefore says of that copy what the property says of the file, once for
  adoption (`AdoptionInv`) and once for the order of the changes (`OrderInv`), and
  that daemons that live at the same time are both marked as overlapped
  (`Alone`). Ranks grow because a command changes the file once at most
  (`OnceAtMost`), which needs the commands to be finitely many.
- `ClaimProofs`, about InviteClaim: ClaimTypeCorrect, ClaimedTokenIsThere and
  ClaimNoticed, for any claims and gateways. The invariant follows the newest claim from the moment
  its token reaches the file (`Settled`): from then on every process that is about
  to write the file back, the daemon, the claim itself or the next one, holds a
  copy with this token. `NewestIsValid` ties the newest claim to what its gateway
  takes, and `Alone` says that a claim writes the file itself only while no daemon
  runs.
- `ClaimProofs`, about HostConfig: ConfigTypes, ConfigNoStartFromTornFile,
  ConfigSourcesInOrder, ConfigClaimKeepsLists, ConfigSavedConfigReadsBack and
  ConfigClaimedHostStarts, for any settings whose values fit their keys
  (`ConfigAssumption`: what the parsers of the file, the variables and the flags
  can return), any number of them at a time, and lists of any length.
  The inductive invariant (ConfigInvariant) has three parts. `SourcesFit`: the
  file is torn or holds values of the right kind, whoever wrote it, and so do the
  other sources, but for a variable that does not parse. `SavingInv`: what a claim
  holds in memory was loaded from the file it remembers (`was`) and then invited,
  and is what it saved; none of the four properties about a claim is inductive
  without it, because they compare the file with what was there before it.
  `DaemonInv`: a daemon runs with a configuration that was normalised.
  The rest is about the operators. `Picking`, `NonBlankItems` and `DistinctItems`
  say what dropping blank items and repeats leaves of a list, by counting
  positions, without induction; one lemma per source says what it decides
  (`FromFile`, `FromEnv`, `FromFlags`, together `RawFrom`); `Normalised` says what
  Normalize returns (`Normal`) and `StaysNormal` that normalising it again changes
  nothing, so that `Save`, which normalises once more, writes what the claim
  holds (`Saving`); `ReadingBack` says what of it the defaults replace, because
  `omitempty` has left it out: the methods of a disabled host and a download that
  was off. Winner is a CHOOSE over offers; `Winning` shows that the highest rank
  is unique. While ClaimedHostStarts was proved two more exceptions appeared that no
  run had met: a blank pin among the daemon's flags after a claim has saved a
  pin, and a daemon's methods that were not looked at while its host was disabled
  and are after the claim's environment has enabled it (`Spoilt`).
- `HostMethodsProofs`: MethodsTypeCorrect, AnsweredWriteStays, AnswersAreTrue and
  CommandAnswered, for any names, payloads, requests and changes by another
  process. A write that is under way holds the file with exactly the blocks
  written so far, unless somebody has touched the path (`OpenFile`); time stamps
  only grow, and what a request has gathered was there (`Stamps`, `Gathered`,
  `Followed`); a process lives only while it is waited for, and what Wait has
  returned is how it ended or the deadline, which must have passed before anything
  was killed (`CommandInv`).

Only model-checked are the liveness properties under fairness, which TLAPS cannot
prove: TokenAdopted, SilenceEndsSession, ShutdownCompletes and KeepsTrying of the
loop, CallsReturn of the store, UpdateEnds, ClaimComesOnline, RequestEnds,
ReaderEnds and StopCompletes. Every other property that a passing run checks is a
theorem.

## 5. Not modelled, and why

- TLS, proxies, JSON encoding, logging, flag parsing and output: no property
  depends on them.
- In HostConfig texts are representatives (one address that is no gateway's, one
  name in capitals, one blank), token and output limit of the update are left to
  its root and timeout, which the code treats alike, and an error of the file
  system other than a broken save is left out. Hints are names only.
- In InviteClaim claims do not overlap, the state file is only its token, and a
  running daemon always has its socket (ControlPlane has the exceptions).
- In HostMethods the limits of outputs and contents and the encodings are one
  parameter that is accepted or not, the times of files are counted in changes
  (the code reports whole seconds, RFC 3339, so that a client cannot tell two
  changes within a second apart), and rights do not change during a
  request. A deadline that passes before the command has started is left out.
  Symbolic links are left out: a list names a link itself, as "other", while stat,
  read and write follow it.
- In HostConfig whether the gateway is told of a component (`buildComponents`) is
  left out: `component` is what requests are answered for.
- In Session the handshake, timers and status are left to HostdRun. Pings and their
  answers, which the reader writes under the same lock, are left out, and the lock
  is given back in one step with the closing of the connection.
- In ReleaseDownload the choice of the asset, its address, proxies and file names
  that are not safe: all packages have one name there, which is the worst case.
  Neither manifest nor package is fetched under a time limit, so nothing is said
  about how long a download takes.
- `winsvc` is a select over the requests of the service manager that cancels the
  same context as a signal; `launchd` writes a plist and runs `launchctl` for a
  user at a terminal; the installers are scripts. Their outcome is that of
  programs outside the repository.
- Control pipes of Windows: what a pipe does when its owner dies is the operating
  system's, and the code has no cleanup of its own there.
- `snapshotStatus` reads file and status one after the other and may report a
  pair that never was; nothing in the code relies on it.
- That the pause between attempts is reset only by a request to reconnect, not by
  a session that worked, can be seen in HostdRun (`RetryAtOnce`,
  `WaitReconnect`), but no text says what it should be.
- In ControlPlane and StateStore a file is written by a rename that is atomic
  for readers, as the operating systems promise.

## 6. Plan

1. *Done*: HostdRun and TokenHandoff, StateStore and AtomicState, HostUpdate,
   ControlPlane, InviteClaim, HostConfig, HostMethods, Session, ReleaseDownload;
   proofs about all of them: every safety property, action property and
   refinement that a passing run checks is a theorem.
2. **ReleaseAssets**: the selection of an asset against a reference definition.
3. **ServiceHost**: winsvc's select over stop requests and the end of `Run`, and
   the order of the steps of the launchd installation.
