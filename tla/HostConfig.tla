----------------------------- MODULE HostConfig -----------------------------
(***************************************************************************)
(* Where a daemon's settings come from (package config): defaults, the     *)
(* configuration file, the environment and the flags, normalised and       *)
(* validated; and the one command that writes the file, "hostd pair        *)
(* claim-invite", which loads it under the environment of its own shell.   *)
(*                                                                         *)
(* A source is a function from the keys it gives to their raw values.  One *)
(* text stands for any other that the code treats alike: two gateways, one *)
(* address that is no gateway's, one name in capitals, one blank.  The     *)
(* update's token and output limit are treated as its root and timeout.    *)
(***************************************************************************)
EXTENDS Integers, SequencesExt

CONSTANTS FileSettings,     \* the settings <<key, value>> an administrator
          ServiceSettings,  \* may give: in the file, in the environment of
          FlagSettings,     \* the daemon, in its flags, and in the
          ShellSettings,    \* environment of the shell of a command
          MaxSettings,      \* bound on the settings given at one time
          Unparsable,       \* a value that is no number or no boolean
          NoMethods         \* the daemon has no host component

-----------------------------------------------------------------------------
TextKeys   == {"wsURL", "tlsMode", "fingerprint", "displayName", "level"}
ListKeys   == {"methods", "hints", "command"}
UpdateKeys == {"command", "root", "download", "timeout"}
HostKeys   == {"enabled", "methods", "hints"} \cup UpdateKeys
Keys       == TextKeys \cup {"heartbeat"} \cup HostKeys
FlagKeys   == TextKeys \cup {"heartbeat", "enabled"}

IsList(list) == list \in Seq(ToSet(list))

\* The value is one that key k can have, once it has been parsed.
Fits(k, value) ==
    /\ k \in ListKeys => IsList(value)
    /\ k \in {"heartbeat", "timeout"} => value \in Int
    /\ k \in {"enabled", "download"} => value \in BOOLEAN

ASSUME ConfigAssumption ==
    /\ MaxSettings \in Nat
    /\ \A setting \in FileSettings :
           setting[1] \in Keys /\ Fits(setting[1], setting[2])
    /\ \A setting \in FlagSettings :
           setting[1] \in FlagKeys /\ Fits(setting[1], setting[2])
    /\ \A setting \in ServiceSettings \cup ShellSettings :
           /\ setting[1] \in Keys \ {"hints"}
           /\ setting[2] = Unparsable \/ Fits(setting[1], setting[2])

VARIABLES
    document,  \* the configuration file
    given,     \* the other sources: "service", "flags", "shell"
    claim,     \* the stage of claim-invite
    draft,     \* its configuration, in memory
    was,       \* (history) the file its configuration was loaded from
    daemon,    \* "off", "refused" or "running"
    running,   \* the configuration of the daemon
    component  \* the methods for which its host component answers requests

commandVars  == <<claim, draft, was>>
serviceVars == <<daemon, running, component>>

configVars == <<document, given, claim, draft, was, daemon, running, component>>

-----------------------------------------------------------------------------
Nothing == [k \in {} |-> ""]

\* The configuration that could not be loaded.
NoConfig == Nothing

\* A document that is no JSON: nothing can be read from it.
Torn == [torn |-> TRUE]

HostMethods == <<"stat", "exec", "update">>

GatewayURLs == {"ws://one", "wss://one", "ws://two", "wss://two"}
LogLevels == {"debug", "info", "warn", "error"}

Blank == " "

Trim(text) == IF text = Blank THEN "" ELSE text

Lower(text) == IF text = "OFF" THEN "off" ELSE text

Trimmed(list) == [i \in DOMAIN list |-> Trim(list[i])]

\* The items of list at the positions of at, in their order.
Pick(list, at) ==
    [n \in 1 .. Cardinality(at) |->
        list[CHOOSE i \in at : Cardinality({j \in at : j <= i}) = n]]

NonBlank(list) ==
    LET items == Trimmed(list)
    IN Pick(items, {i \in DOMAIN items : items[i] # ""})

Distinct(list) ==
    LET items == NonBlank(list)
    IN Pick(items, {i \in DOMAIN items : \A j \in 1 .. (i - 1) : items[j] # items[i]})

\* What json.Marshal leaves out when it is zero ("omitempty").
Zero == [fingerprint |-> "", hints |-> <<>>, command |-> <<>>, root |-> "",
         download |-> FALSE, timeout |-> 0]

NoUpdate == [command |-> <<>>, root |-> "", download |-> FALSE, timeout |-> 0]

Default ==
    [wsURL |-> "", tlsMode |-> "system", fingerprint |-> "",
     displayName |-> "hostname", level |-> "info", heartbeat |-> 20,
     enabled |-> TRUE, methods |-> HostMethods, hints |-> <<>>,
     command |-> <<>>, root |-> "", download |-> FALSE, timeout |-> 0]

Gives(source, k) == k \in DOMAIN source

\* config, with the keys of decided taken from source.
Override(config, decided, source) ==
    [k \in Keys |-> IF k \in decided THEN source[k] ELSE config[k]]

-----------------------------------------------------------------------------
(* The sources, lowest first *)

\* Empty values in the file decide nothing, but a section of the host decides
\* whether it is enabled, and a command decides all of the update; an update
\* in the file downloads unless it says otherwise.
Unsaid == [enabled |-> FALSE, command |-> <<>>, root |-> "", download |-> TRUE,
           timeout |-> 0]

FileDecides(source) ==
    {k \in TextKeys : Gives(source, k) /\ source[k] # ""}
    \cup {k \in {"heartbeat"} : Gives(source, k) /\ source[k] > 0}
    \cup {k \in {"enabled"} : HostKeys \cap DOMAIN source # {}}
    \cup {k \in {"methods", "hints"} : Gives(source, k) /\ source[k] # <<>>}
    \cup {k \in UpdateKeys : Gives(source, "command") /\ source.command # <<>>}

ApplyFile(source, config) ==
    Override(config, FileDecides(source),
             [k \in Keys |-> IF Gives(source, k) THEN source[k] ELSE Unsaid[k]])

\* A blank variable counts as one that is not set.
EnvDecides(source) ==
    {k \in DOMAIN source :
        /\ k \in TextKeys \cup {"root"} => Trim(source[k]) # ""
        /\ k \in ListKeys => source[k] # <<>>}

EnvParses(source) == \A k \in DOMAIN source : source[k] # Unparsable

ApplyEnv(source, config) ==
    Override(config, EnvDecides(source),
             [k \in DOMAIN source |->
                 IF k \in ListKeys THEN NonBlank(source[k]) ELSE source[k]])

\* Variant: a blank flag counts as one that is not given.
ApplyGivenOptions(source, config) ==
    Override(config, EnvDecides(source), source)

\* A flag that is given decides, even when it is blank.
ApplyOptions(source, config) ==
    Override(config, DOMAIN source,
             [k \in DOMAIN source |->
                 IF k \in TextKeys THEN Trim(source[k]) ELSE source[k]])

-----------------------------------------------------------------------------
(* Normalisation and validation *)

OrElse(text, fallback) == IF Trim(text) = "" THEN fallback ELSE Trim(text)

TLSMode(config) == OrElse(Lower(config.tlsMode), "system")

Positive(number, fallback) == IF number > 0 THEN number ELSE fallback

NormalMethods(list) == IF list = <<>> THEN HostMethods ELSE Distinct(list)

Acceptable(config) ==
    /\ TLSMode(config) \in {"off", "system", "pinned"}
    /\ config.enabled =>
           LET methods == NormalMethods(config.methods)
           IN methods # <<>> /\ ToSet(methods) \subseteq ToSet(HostMethods)

NormalUpdate(config) ==
    IF NonBlank(config.command) = <<>> THEN NoUpdate
    ELSE [command  |-> NonBlank(config.command),
          root     |-> OrElse(config.root, "tmp"),
          download |-> config.download,
          timeout  |-> Positive(config.timeout, 600)]

\* Variant: the hints are normalised away.
NormalHostUnhinted(config) ==
    IF config.enabled
    THEN [methods |-> NormalMethods(config.methods), hints |-> <<>>,
          update  |-> NormalUpdate(config)]
    ELSE [methods |-> <<>>, hints |-> <<>>, update |-> NoUpdate]

\* A host that is not enabled loses its settings.
NormalHost(config) ==
    IF config.enabled
    THEN [methods |-> NormalMethods(config.methods),
          hints   |-> Distinct(config.hints),
          update  |-> NormalUpdate(config)]
    ELSE [methods |-> <<>>, hints |-> <<>>, update |-> NoUpdate]

Normalize(config) ==
    LET host == NormalHost(config)
    IN [wsURL       |-> config.wsURL,
        tlsMode     |-> TLSMode(config),
        fingerprint |-> config.fingerprint,
        displayName |-> OrElse(config.displayName, "hostname"),
        level       |-> OrElse(Lower(config.level), "info"),
        heartbeat   |-> Positive(config.heartbeat, 20),
        enabled     |-> config.enabled,
        methods     |-> host.methods,
        hints       |-> host.hints,
        command     |-> host.update.command,
        root        |-> host.update.root,
        download    |-> host.update.download,
        timeout     |-> host.update.timeout]

\* Variant: a file that cannot be parsed is taken for one that is not there.
LoadLeniently(source, env, options) ==
    IF ~EnvParses(env) THEN NoConfig
    ELSE LET config == ApplyOptions(options, ApplyEnv(env,
                           IF source = Torn THEN Default
                           ELSE ApplyFile(source, Default)))
         IN IF Acceptable(config) THEN Normalize(config) ELSE NoConfig

Load(source, env, options) ==
    IF source = Torn \/ ~EnvParses(env) THEN NoConfig
    ELSE LET config == ApplyOptions(options,
                           ApplyEnv(env, ApplyFile(source, Default)))
         IN IF Acceptable(config) THEN Normalize(config) ELSE NoConfig

ValidForRun(config) ==
    /\ config # NoConfig
    /\ Trim(config.wsURL) \in GatewayURLs
    /\ config.tlsMode = "pinned" => Trim(config.fingerprint) # ""
    /\ config.level \in LogLevels

\* Variant: only the settings of the gateway are written.
SavedGateway(config) ==
    LET normal == Normalize(config)
    IN Restrict(normal, {"wsURL", "tlsMode", "fingerprint"})

\* The document Save writes, after it has normalised the configuration.
Saved(config) ==
    LET normal == Normalize(config)
    IN Restrict(normal, {k \in Keys : k \in DOMAIN Zero => normal[k] # Zero[k]})

\* NewComponent, as the daemon calls it: without methods it takes them all.
\* These are the methods a request is answered for; whether the gateway is told
\* of the component (buildComponents) is another matter, and not modelled.
ComponentMethods(config) ==
    LET methods == NormalMethods(config.methods)
    IN Pick(methods, {i \in DOMAIN methods :
                          methods[i] = "update" => config.command # <<>>})

-----------------------------------------------------------------------------
ConfigInit ==
    /\ document = Nothing
    /\ given = [from \in {"service", "flags", "shell"} |-> Nothing]
    /\ claim = "idle"
    /\ draft = NoConfig
    /\ was = Nothing
    /\ daemon = "off"
    /\ running = NoConfig
    /\ component = NoMethods

(* The administrator, before anything is started *)

Settings ==
    Cardinality(DOMAIN document) + Cardinality(DOMAIN given["service"])
        + Cardinality(DOMAIN given["flags"]) + Cardinality(DOMAIN given["shell"])

With(source, setting) ==
    [k \in DOMAIN source \cup {setting[1]} |->
        IF k = setting[1] THEN setting[2] ELSE source[k]]

EditFile(setting) ==
    /\ ~Gives(document, setting[1])
    /\ document' = With(document, setting)
    /\ UNCHANGED given

Give(from, setting) ==
    /\ ~Gives(given[from], setting[1])
    /\ given' = [given EXCEPT ![from] = With(@, setting)]
    /\ UNCHANGED document

Configure ==
    /\ claim = "idle"
    /\ daemon = "off"
    /\ Settings < MaxSettings
    /\ \/ \E setting \in FileSettings : EditFile(setting)
       \/ \E setting \in ServiceSettings : Give("service", setting)
       \/ \E setting \in FlagSettings : Give("flags", setting)
       \/ \E setting \in ShellSettings : Give("shell", setting)
    /\ UNCHANGED <<commandVars, serviceVars>>

-----------------------------------------------------------------------------
(* claim-invite *)

\* Variant: the pin is kept, whatever it is worth.
InvitedUnchecked(config, scheme) ==
    IF scheme = "http"
    THEN [config EXCEPT !.wsURL = "ws://two", !.tlsMode = "off"]
    ELSE [config EXCEPT !.wsURL = "wss://two"]

\* The gateway of the invite replaces the configured one; a pinned
\* certificate survives only an invite over https.
Invited(config, scheme) ==
    CASE scheme = "http" ->
             [config EXCEPT !.wsURL = "ws://two", !.tlsMode = "off",
                            !.fingerprint = ""]
      [] scheme = "https" /\ config.tlsMode = "pinned" /\ Trim(config.fingerprint) # "" ->
             [config EXCEPT !.wsURL = "wss://two"]
      [] OTHER ->
             [config EXCEPT !.wsURL = "wss://two", !.tlsMode = "system",
                            !.fingerprint = ""]

Shell == Load(document, given["shell"], Nothing)

ClaimLoads(scheme) ==
    /\ claim \in {"idle", "done", "failed"}
    /\ was' = document
    /\ LET config == Shell
       IN IF config = NoConfig
          THEN claim' = "failed" /\ draft' = NoConfig
          ELSE claim' = "loaded" /\ draft' = Invited(config, scheme)
    /\ UNCHANGED <<document, given, serviceVars>>

\* os.WriteFile empties the file, then writes it.
SaveTruncates ==
    /\ claim = "loaded"
    /\ document' = Torn
    /\ claim' = "saving"
    /\ UNCHANGED <<given, draft, was, serviceVars>>

SaveWrites ==
    /\ claim = "saving"
    /\ document' = Saved(draft)
    /\ claim' = "saved"
    /\ UNCHANGED <<given, draft, was, serviceVars>>

\* Only now it is asked whether there is a component to register.
ClaimEnds ==
    /\ claim = "saved"
    /\ claim' \in IF draft.enabled THEN {"done", "failed"} ELSE {"failed"}
    /\ UNCHANGED <<document, given, draft, was, serviceVars>>

ClaimKilled ==
    /\ claim \in {"loaded", "saving", "saved"}
    /\ claim' = "failed"
    /\ UNCHANGED <<document, given, draft, was, serviceVars>>

-----------------------------------------------------------------------------
(* The daemon, which its service manager starts again and again *)

Effective == Load(document, given["service"], given["flags"])

StartDaemon ==
    /\ daemon # "running"
    /\ LET config == Effective
       IN IF ValidForRun(config)
          THEN /\ daemon' = "running"
               /\ running' = config
               /\ component' = ComponentMethods(config)
          ELSE daemon' = "refused" /\ UNCHANGED <<running, component>>
    /\ UNCHANGED <<document, given, commandVars>>

StopDaemon ==
    /\ daemon = "running"
    /\ daemon' = "off"
    /\ running' = NoConfig
    /\ component' = NoMethods
    /\ UNCHANGED <<document, given, commandVars>>

ConfigNext ==
    \/ Configure
    \/ \E scheme \in {"http", "https"} : ClaimLoads(scheme)
    \/ SaveTruncates \/ SaveWrites \/ ClaimEnds \/ ClaimKilled
    \/ StartDaemon \/ StopDaemon

ConfigSpec == ConfigInit /\ [][ConfigNext]_configVars

-----------------------------------------------------------------------------
(* Properties *)

\* Type of the variables.
ConfigTypeOK ==
    /\ document = Torn \/ DOMAIN document \subseteq Keys
    /\ \A from \in DOMAIN given : DOMAIN given[from] \subseteq Keys
    /\ claim \in {"idle", "loaded", "saving", "saved", "done", "failed"}
    /\ draft = NoConfig \/ DOMAIN draft = Keys
    /\ was = Torn \/ DOMAIN was \subseteq Keys
    /\ daemon \in {"off", "refused", "running"}
    /\ daemon = "running" <=> running # NoConfig
    /\ running = NoConfig \/ DOMAIN running = Keys

GatewayKeys == {"wsURL", "tlsMode", "fingerprint"}

\* The value each source offers for key k, by rank: the highest wins.  Only a
\* flag may be empty, and a blank is nothing in the environment alone.
Offers(k) ==
    LET source == <<document, given["service"], given["flags"]>>
        Offered(rank) ==
            /\ Gives(source[rank], k)
            /\ rank = 1 => source[1][k] # ""
            /\ rank = 2 => Trim(source[2][k]) # ""
    IN {<<0, Default[k]>>}
       \cup {<<rank, source[rank][k]>> : rank \in {r \in 1 .. 3 : Offered(r)}}

Winner(k) ==
    (CHOOSE best \in Offers(k) : \A offer \in Offers(k) : offer[1] <= best[1])[2]

\* The texts a daemon would start with are those of the flags before those of
\* the environment, the file and the defaults; a blank one falls back to its
\* default only after it has won.
SourcesInOrder ==
    LET config == Effective
    IN config # NoConfig =>
        /\ \A k \in {"wsURL", "fingerprint"} : Trim(config[k]) = Trim(Winner(k))
        /\ config.displayName = OrElse(Winner("displayName"), "hostname")
        /\ config.level = OrElse(Lower(Winner("level")), "info")
        /\ config.tlsMode = OrElse(Lower(Winner("tlsMode")), "system")

\* The file claim-invite has saved reads back, in its own environment, as the
\* configuration it holds in memory: except for a gateway the environment
\* insists on, and for an update that was not to download, which does now.
SavedConfigReadsBack ==
    claim = "saved" =>
        LET config == Shell
        IN /\ config # NoConfig
           /\ \A k \in Keys :
                  \/ config[k] = draft[k]
                  \/ k \in GatewayKeys /\ Gives(given["shell"], k)
                  \/ k = "download" /\ draft.command # <<>> /\ config.download

\* A claim that succeeds keeps the lists that were in the file, unless its own
\* environment replaced them.
ClaimKeepsLists ==
    claim = "done" =>
        \A k \in ListKeys :
            Gives(was, k) /\ ~Gives(given["shell"], k) =>
                \/ ToSet(NonBlank(was[k])) = {}
                \/ /\ Gives(document, k)
                   /\ ToSet(document[k]) = ToSet(NonBlank(was[k]))

Startable(source) ==
    ValidForRun(Load(source, given["service"], given["flags"]))

\* What the daemon's own environment or flags can spoil in a file that is good.
Spoilt ==
    \/ /\ draft.fingerprint = ""
       /\ \E from \in {"service", "flags"} :
              Gives(given[from], "tlsMode") /\ given[from].tlsMode = "pinned"
    \/ /\ draft.tlsMode = "pinned"
       /\ Gives(given["flags"], "fingerprint")
       /\ Trim(given["flags"].fingerprint) = ""
    \/ /\ Gives(given["service"], "methods")
       /\ ~ ToSet(NonBlank(given["service"].methods)) \subseteq ToSet(HostMethods)

\* After a claim that succeeds the daemon starts, if it did before or if it
\* takes all its settings from the file: except with a level of the log that
\* only a start refuses, with a daemon told to pin a certificate that the claim
\* has removed, or told of none for the pin that it has saved, and with methods
\* in its environment that nobody looked at while its host was disabled.
ClaimedHostStarts ==
    /\ claim = "done"
    /\ Startable(was) \/ (given["service"] = Nothing /\ given["flags"] = Nothing)
    => Startable(document) \/ draft.level \notin LogLevels \/ Spoilt

\* No daemon starts from a file that is half saved, or was left like that by a
\* command that was killed.
NoStartFromTornFile ==
    [][daemon # "running" /\ daemon' = "running" => document # Torn]_configVars

\* A daemon whose host is not enabled serves no host component: it answers
\* requests with HOST_COMPONENT_DISABLED, "host.main is disabled".
DisabledHostHasNoComponent ==
    daemon = "running" /\ ~running.enabled => component = NoMethods
=============================================================================
