----------------------------- MODULE InviteClaim -----------------------------
(***************************************************************************)
(* "hostd pair claim-invite" and the daemon it hands a token to (packages  *)
(* cli and hostdrun).  A claim spends an invite: the gateway makes a new   *)
(* token for the host and takes no other from then on, and the token is in *)
(* the memory of the command until it has reached the state file.          *)
(*                                                                         *)
(* A token is named by the claim it was made for.  Of the state file only  *)
(* the token is kept, and of an Update the two halves that other processes *)
(* may come between: it reads all of the file, and later writes all of it. *)
(* HostConfig has the configuration file, ControlPlane the socket.         *)
(***************************************************************************)
EXTENDS Integers, FiniteSets

CONSTANTS Claims,     \* the runs of claim-invite, one after the other
          Gateways,
          Target,     \* the gateway of each claim's invite
          NoGateway,  \* no gateway is configured yet
          NoClaim     \* the token the host has before the first claim

ASSUME ClaimAssumption ==
    /\ Target \in [Claims -> Gateways]
    /\ NoGateway \notin Gateways
    /\ NoClaim \notin Claims

VARIABLES
    pc,          \* the stage of each claim
    held,        \* the token an Update of the command has read
    via,         \* the claims whose token a daemon has stored
    abandoned,   \* requests to the daemon nobody waits for any more
    disturbed,   \* (history) claims beside which a daemon started, and those
                 \* it has undone by doing what an abandoned request asked for
    configured,  \* the gateway in the configuration file
    file,        \* the token in the state file
    valid,       \* the token each gateway takes
    newest,      \* (history) the last claim a gateway has honoured
    stage,       \* the stage of the daemon
    target,      \* the gateway it was started with
    using,       \* the token it connects with
    copy,        \* the token its Update has read
    signal       \* a request to reconnect waits

claimVars  == <<pc, held, via, abandoned, disturbed>>
hostVars   == <<configured, file>>
remoteVars == <<valid, newest>>
daemonVars == <<stage, target, using, copy, signal>>

vars == <<pc, held, via, abandoned, disturbed, configured, file, valid, newest,
          stage, target, using, copy, signal>>

Token == Claims \cup {NoClaim}

Ended == {"done", "failed"}

\* The daemon is inside one of its Updates: its store is locked.
Updating == {"loading", "greeting", "regretting"}

\* Type of the variables.
ClaimTypeOK ==
    /\ pc \in [Claims -> {"todo", "configured", "ensuring", "ready", "honoured",
                          "asked", "stored", "answered", "store", "storing",
                          "bridged", "closing"} \cup Ended]
    /\ held \in Token
    /\ via \subseteq Claims
    /\ abandoned \subseteq Claims
    /\ disturbed \subseteq Claims
    /\ configured \in Gateways \cup {NoGateway}
    /\ file \in Token
    /\ valid \in [Gateways -> Token]
    /\ newest \in Token
    /\ stage \in {"off", "load", "dial", "accepted", "refused", "online", "wait"}
                     \cup Updating
    /\ target \in IF stage = "off" THEN {NoGateway} ELSE Gateways
    /\ using \in Token
    /\ copy \in Token
    /\ signal \in BOOLEAN

Init ==
    /\ pc = [c \in Claims |-> "todo"]
    /\ held = NoClaim
    /\ via = {}
    /\ abandoned = {}
    /\ disturbed = {}
    /\ configured \in Gateways \cup {NoGateway}
    /\ file = NoClaim
    /\ valid = [g \in Gateways |-> NoClaim]
    /\ newest = NoClaim
    /\ stage = "off"
    /\ target = NoGateway
    /\ using = NoClaim
    /\ copy = NoClaim
    /\ signal = FALSE

-----------------------------------------------------------------------------
(* The command *)

Step(c, from, to) == pc[c] = from /\ pc' = [pc EXCEPT ![c] = to]

\* The gateway of the invite is saved as the configured one.
SaveConfig(c) ==
    /\ \A d \in Claims \ {c} : pc[d] \in Ended \cup {"todo"}
    /\ Step(c, "todo", "configured")
    /\ configured' = Target[c]
    /\ UNCHANGED <<held, via, abandoned, disturbed, file, remoteVars, daemonVars>>

Reads(c, from, to) ==
    /\ Step(c, from, to)
    /\ held' = file
    /\ UNCHANGED <<via, abandoned, disturbed, hostVars, remoteVars, daemonVars>>

Writes(c, from, to, token) ==
    /\ Step(c, from, to)
    /\ file' = token
    /\ held' = NoClaim
    /\ UNCHANGED <<via, abandoned, disturbed, configured, remoteVars, daemonVars>>

\* EnsureRuntimeID, an Update that saves even when there is an id.
EnsureReads(c)  == Reads(c, "configured", "ensuring")
EnsureWrites(c) == Writes(c, "ensuring", "ready", held)

\* The request: the gateway may refuse it, and its answer may be lost.
Honoured(c) ==
    /\ Step(c, "ready", "honoured")
    /\ valid' = [valid EXCEPT ![Target[c]] = c]
    /\ newest' = c
    /\ UNCHANGED <<held, via, abandoned, disturbed, hostVars, daemonVars>>

Moves(c, from, to) ==
    /\ Step(c, from, to)
    /\ UNCHANGED <<held, via, abandoned, disturbed, hostVars, remoteVars, daemonVars>>

\* The daemon has a control server for as long as it runs.
AsksDaemon(c) == stage # "off" /\ Moves(c, "honoured", "asked")

\* ErrUnavailable: persistRuntimeToken, an Update of the command's own.
FallsBack(c) == stage = "off" /\ Moves(c, "honoured", "store")

StoreReads(c)  == Reads(c, "store", "storing")
StoreWrites(c) == Writes(c, "storing", "bridged", c)

\* Variant: the last Update does not read the file.
FinalReadsNothing(c) == Moves(c, "bridged", "closing")

\* The last Update: pairing state and gateway, not the token.
FinalReads(c)  == Reads(c, "bridged", "closing")
FinalWrites(c) == Writes(c, "closing", "done", held)

\* The claims that hold a token and have not ended.
HasToken == {c \in Claims : pc[c] \in {"honoured", "asked", "stored", "answered",
                                       "store", "storing", "bridged", "closing"}}

\* An error of any step, or the command is killed.
Fails(c) ==
    /\ \E from \in {"configured", "ensuring", "ready", "honoured", "stored",
                    "answered", "store", "storing", "bridged", "closing"} :
           Step(c, from, "failed")
    /\ held' = NoClaim
    /\ UNCHANGED <<via, abandoned, disturbed, hostVars, remoteVars, daemonVars>>

\* The request times out before the handler has got to it; the daemon may still
\* do what it asks for.
GivesUp(c) ==
    /\ Step(c, "asked", "failed")
    /\ abandoned' = IF stage = "off" THEN abandoned ELSE abandoned \cup {c}
    /\ UNCHANGED <<held, via, disturbed, hostVars, remoteVars, daemonVars>>

-----------------------------------------------------------------------------
(* The handler of its request, in the daemon *)

\* Variant: the handler does not wait for an Update of the loop.
HandlerSavesAnytime(c) ==
    /\ stage # "off"
    /\ Step(c, "asked", "stored")
    /\ file' = c
    /\ via' = via \cup {c}
    /\ UNCHANGED <<held, abandoned, disturbed, configured, remoteVars, daemonVars>>

HandlerSaves(c) ==
    /\ stage \notin Updating \cup {"off"}
    /\ Step(c, "asked", "stored")
    /\ file' = c
    /\ via' = via \cup {c}
    /\ UNCHANGED <<held, abandoned, disturbed, configured, remoteVars, daemonVars>>

\* Variant: the loop is not told.
HandlerAnswers(c) == stage # "off" /\ Moves(c, "stored", "answered")

\* Its answer may come too late for the command.
HandlerSignals(c) ==
    /\ stage # "off"
    /\ \E to \in {"answered", "failed"} : Step(c, "stored", to)
    /\ signal' = TRUE
    /\ UNCHANGED <<held, via, abandoned, disturbed, hostVars, remoteVars,
                   stage, target, using, copy>>

\* The command asks the daemon to reconnect once more, and ignores an error.  A
\* request nobody waits for any more would make the daemon load once more.
AsksReconnect(c) ==
    /\ stage # "off"
    /\ Step(c, "answered", "bridged")
    /\ signal' = TRUE
    /\ UNCHANGED <<held, via, abandoned, disturbed, hostVars, remoteVars,
                   stage, target, using, copy>>

ReconnectFails(c) == Moves(c, "answered", "bridged")

HandlerSavesLate(c) ==
    /\ c \in abandoned
    /\ stage \notin Updating \cup {"off"}
    /\ file' = c
    /\ abandoned' = abandoned \ {c}
    /\ disturbed' = disturbed \cup {d \in Claims : pc[d] # "todo"}
    /\ signal' = TRUE
    /\ UNCHANGED <<pc, held, via, configured, remoteVars,
                   stage, target, using, copy>>

-----------------------------------------------------------------------------
(* The daemon: its connection loop, as HostdRun has it *)

Goes(from, to) == stage = from /\ stage' = to

Elsewhere == UNCHANGED <<claimVars, hostVars, remoteVars>>

\* The gateway is that of the configuration file for as long as it runs.
Start ==
    /\ configured # NoGateway
    /\ Goes("off", "load")
    /\ target' = configured
    /\ disturbed' = disturbed \cup HasToken
    /\ UNCHANGED <<pc, held, via, abandoned, hostVars, remoteVars, using, copy, signal>>

\* At any time: requests it has not handled are gone.
Stop ==
    /\ stage # "off"
    /\ stage' = "off"
    /\ target' = NoGateway
    /\ using' = NoClaim
    /\ copy' = NoClaim
    /\ signal' = FALSE
    /\ abandoned' = {}
    /\ UNCHANGED <<pc, held, via, disturbed, hostVars, remoteVars>>

UpdateReads(from, to) ==
    /\ Goes(from, to)
    /\ copy' = file
    /\ Elsewhere
    /\ UNCHANGED <<target, using, signal>>

UpdateWrites(from, to) ==
    /\ Goes(from, to)
    /\ file' = copy
    /\ copy' = NoClaim
    /\ UNCHANGED <<claimVars, configured, remoteVars, target, signal>>

LoadReads  == UpdateReads("load", "loading")
LoadWrites == UpdateWrites("loading", "dial") /\ using' = copy

Turns(from, to) ==
    /\ Goes(from, to)
    /\ Elsewhere
    /\ UNCHANGED <<target, using, copy, signal>>

Accepted == Turns("dial", "accepted") /\ using = valid[target]

\* The token is refused, or the gateway cannot be reached.
Refused == Turns("dial", "refused")

GreetReads   == UpdateReads("accepted", "greeting")
GreetWrites  == UpdateWrites("greeting", "online") /\ UNCHANGED using
RegretReads  == UpdateReads("refused", "regretting")
RegretWrites == UpdateWrites("regretting", "wait") /\ UNCHANGED using

Disconnected == Turns("online", "refused")

\* Variant: the signal is taken, and the session goes on.
DrainedSignal ==
    /\ signal
    /\ stage \in {"online", "wait"}
    /\ signal' = FALSE
    /\ Elsewhere
    /\ UNCHANGED <<stage, target, using, copy>>

Reconnects ==
    /\ signal
    /\ \E from \in {"online", "wait"} : Goes(from, "load")
    /\ signal' = FALSE
    /\ Elsewhere
    /\ UNCHANGED <<target, using, copy>>

Retries == Turns("wait", "load")

-----------------------------------------------------------------------------
ClaimStep(c) ==
    \/ SaveConfig(c) \/ EnsureReads(c) \/ EnsureWrites(c) \/ Honoured(c)
    \/ AsksDaemon(c) \/ FallsBack(c) \/ StoreReads(c) \/ StoreWrites(c)
    \/ FinalReads(c) \/ FinalWrites(c) \/ Fails(c) \/ GivesUp(c)
    \/ HandlerSaves(c) \/ HandlerSignals(c) \/ HandlerSavesLate(c)
    \/ AsksReconnect(c) \/ ReconnectFails(c)

DaemonStep ==
    \/ LoadReads \/ LoadWrites \/ Accepted \/ Refused
    \/ GreetReads \/ GreetWrites \/ RegretReads \/ RegretWrites
    \/ Disconnected \/ Reconnects \/ Retries

Next ==
    \/ \E c \in Claims : ClaimStep(c)
    \/ DaemonStep
    \/ Start \/ Stop

Spec == Init /\ [][Next]_vars

\* The loop of a daemon goes on (its timers expire, its file can be saved, its
\* select takes a request that waits), and a gateway that keeps taking its
\* token is reached in the end.
Fairness ==
    /\ WF_vars(LoadReads) /\ WF_vars(LoadWrites)
    /\ WF_vars(Accepted \/ Refused) /\ SF_vars(Accepted)
    /\ WF_vars(GreetReads) /\ WF_vars(GreetWrites)
    /\ WF_vars(RegretReads) /\ WF_vars(RegretWrites)
    /\ WF_vars(Retries) /\ SF_vars(Reconnects)

FairSpec == Spec /\ Fairness

-----------------------------------------------------------------------------
(* Properties *)

\* A claim that reports success has left the host with the token the gateway
\* takes, unless a newer one was honoured: if no daemon was started beside it,
\* and none has got to the request of an older claim that had given up.
HostCanAuthenticate ==
    \A c \in Claims \ disturbed :
        pc[c] = "done" /\ newest = c => file = c /\ valid[Target[c]] = c

\* When the newest claim ends well, the daemon has stored its token, and it was
\* not disturbed, then the daemon uses this token or has a load of it ahead.
NoSocketClaimUnnoticed ==
    \A c \in via \ disturbed :
        pc[c] = "done" /\ newest = c /\ file = c /\ stage # "off" =>
            \/ using = c
            \/ signal
            \/ stage \in {"load", "loading"}

\* A daemon that is left running comes online with the token of a claim at the
\* gateway it was started for, while that token is in the file and is the one
\* the gateway takes.
ClaimComesOnline ==
    \A c \in Claims :
        (pc[c] = "done" /\ c \in via /\ file = c /\ target = Target[c] /\ stage # "off")
            ~> \/ stage = "online" /\ using = c
               \/ stage = "off"
               \/ file # c
               \/ valid[Target[c]] # c
=============================================================================
