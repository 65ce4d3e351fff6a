----------------------------- MODULE MCHubProcess -----------------------------
(***************************************************************************)
(* Two sidecars (one may be an orphan) and a Hub from a terminal.  The     *)
(* file does not parse at first.  The user repairs it, then edits it: to   *)
(* another port and TLS, and to a list of repositories that is invalid     *)
(* without the token one environment has; and to a service without         *)
(* endpoints, valid with --mock alone.                                     *)
(***************************************************************************)
EXTENDS HubProcess

CONSTANTS EnvToken

MCKeys ==
    << Broken,
       Nothing,
       [Nothing EXCEPT !["github.allowlist"] = "repos", !["hubPort"] = 5000,
                       !["voice.enabled"] = TRUE, !["voice.mock"] = FALSE,
                       !["tls.certPath"] = "crt", !["tls.keyPath"] = "key"],
       [Nothing EXCEPT !["intent.enabled"] = TRUE, !["intent.endpoints"] = NoEndpoints] >>

MCEnvironments ==
    {Nothing,
     [Nothing EXCEPT !["auth.token"] = EnvToken, !["github.token"] = "pat",
                     !["github.allowlist"] = "mine", !["mock"] = FALSE]}

MCFlags == {TRUE}

-----------------------------------------------------------------------------
\* config.ts layers its sources one variable after the other: what comes out is,
\* setting by setting, the flag's, the environment's or the file's value, and no
\* variable makes a section by itself that only its token may make.
Given(a, b, mock, voiceMock, intentMock) ==
    [Nothing EXCEPT !["github.token"] = a, !["github.allowlist"] = b, !["mock"] = mock,
                    !["voice.mock"] = voiceMock, !["intent.mock"] = intentMock]

Switches == {Absent, TRUE, FALSE}
Layers == {Given(a, b, m, v, i) : a \in {Absent, "pat"}, b \in {Absent, "repos"},
                                  m \in Switches, v \in Switches, i \in {Absent, FALSE}}

ASSUME ConfigIsLayered ==
    \A given \in Layers, env \in Layers, flag \in {Absent, TRUE}, path \in Paths :
        loadConfig(given, env, flag)[path] = Effective(given, env, flag, path)
=============================================================================
