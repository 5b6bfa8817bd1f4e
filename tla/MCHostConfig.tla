---------------------------- MODULE MCHostConfig ----------------------------
(* Settings for TLC: each stands for a branch of the code. *)
EXTENDS HostConfig

MCFileSettings ==
    ({"tlsMode"} \X {"pinned", "OFF"})
    \cup ({"fingerprint"} \X {"cert", " "})
    \cup ({"enabled"} \X BOOLEAN)
    \cup ({"methods"} \X {<<"stat", " ", "stat">>, <<" ">>, <<"bogus">>})
    \cup ({"command"} \X {<<"sh">>, <<" ">>})
    \cup {<<"wsURL", "ws://one">>, <<"displayName", " ">>, <<"level", "trace">>,
          <<"heartbeat", -1>>, <<"hints", <<"home">>>>, <<"download", FALSE>>}

MCServiceSettings ==
    ({"wsURL"} \X {" ", "wss://one"})
    \cup {<<"tlsMode", "pinned">>, <<"level", "warn">>, <<"enabled", FALSE>>,
          <<"heartbeat", Unparsable>>, <<"methods", <<"bogus">>>>}

MCFlagSettings ==
    ({"wsURL"} \X {"", "ws://one"})
    \cup {<<"fingerprint", "">>, <<"level", "debug">>, <<"enabled", TRUE>>}

MCShellSettings ==
    ({"enabled"} \X BOOLEAN)
    \cup {<<"level", "trace">>, <<"fingerprint", "cert">>,
          <<"command", <<"sh">>>>, <<"methods", <<"exec">>>>}

\* Fewer, for the run about a host that is not enabled.
DisabledSettings == {<<"wsURL", "ws://one">>, <<"enabled", FALSE>>}
NoSettings == {}
=============================================================================
