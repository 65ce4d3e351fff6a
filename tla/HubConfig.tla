------------------------------ MODULE HubConfig ------------------------------
(***************************************************************************)
(* How the Hub's settings are put together (apps/hub config.ts): the       *)
(* config file, over it the environment, over that the --mock flag, then   *)
(* what mock hands down to the services that do not pin their own.         *)
(*                                                                         *)
(* A configuration maps dotted paths to values or Absent.  The paths are   *)
(* the port, the token, TLS, mock and what mock is handed down to, with    *)
(* the services whose validity it decides, and a section that not every    *)
(* variable may make.  Of the others, ntfy is like github, and the checks  *)
(* of the adapters' sections depend on neither mock nor the token.         *)
(***************************************************************************)
EXTENDS Naturals, Sequences

CONSTANTS Absent,
          DefaultPort,  \* 4317
          NoEndpoints   \* a list that is there and empty

ASSUME AbsentAssumption == Absent \notin BOOLEAN

Paths == {"hubPort", "auth.token", "tls.certPath", "tls.keyPath", "mock",
          "github.token", "github.allowlist",
          "voice.enabled", "voice.stt.endpoints", "voice.mock",
          "intent.enabled", "intent.endpoints", "intent.mock"}

Nothing == [path \in Paths |-> Absent]

IsConfig(config) == config = [path \in Paths |-> config[path]]

\* The paths below each section that must be there before some variables apply.
Section == [github |-> {"github.token", "github.allowlist"}, none |-> {}]

Has(config, section) == \E path \in Section[section] : config[path] # Absent

Override(path, section) == [path |-> path, section |-> section]

ENV_OVERRIDES ==
    << Override("hubPort", "none"), Override("auth.token", "none"),
       Override("tls.certPath", "none"), Override("tls.keyPath", "none"),
       Override("mock", "none"),
       Override("github.token", "none"), Override("github.allowlist", "github"),
       Override("voice.enabled", "none"), Override("voice.stt.endpoints", "none"),
       Override("voice.mock", "none"),
       Override("intent.enabled", "none"), Override("intent.endpoints", "none"),
       Override("intent.mock", "none") >>

\* A variable of a section that nothing made yet conjures none.
setConfigPath(config, env, o) ==
    [config EXCEPT ![o.path] =
        IF env[o.path] = Absent \/ (o.section # "none" /\ ~ Has(config, o.section))
        THEN @ ELSE env[o.path]]

applyEnvOverrides(config, env) ==
    LET After[n \in 0..Len(ENV_OVERRIDES)] ==
            IF n = 0 THEN config ELSE setConfigPath(After[n - 1], env, ENV_OVERRIDES[n])
    IN  After[Len(ENV_OVERRIDES)]

\* A service that pins its own value keeps it.
inheritGlobalMock(config) ==
    LET Inherited(path) == IF config[path] = Absent /\ config["mock"] = TRUE
                           THEN TRUE ELSE config[path]
    IN  [config EXCEPT !["voice.mock"] = Inherited("voice.mock"),
                       !["intent.mock"] = Inherited("intent.mock")]

loadConfig(file, env, flag) ==
    LET layered == applyEnvOverrides(file, env)
    IN  inheritGlobalMock(IF flag = Absent THEN layered
                          ELSE [layered EXCEPT !["mock"] = flag])

\* The paths of a service that mock decides about.
Service(enabled, endpoints, mock) == [enabled |-> enabled, endpoints |-> endpoints, mock |-> mock]

Services == {Service("voice.enabled", "voice.stt.endpoints", "voice.mock"),
             Service("intent.enabled", "intent.endpoints", "intent.mock")}

\* The schema supplies endpoints where none are given, and refuses an empty list
\* to a service that is enabled and no mock.
HasItsEndpoints(config, s) ==
    config[s.enabled] = TRUE /\ config[s.mock] # TRUE => config[s.endpoints] # NoEndpoints

\* aspexConfigSchema: a section is whole or not there at all.
Valid(config) ==
    /\ Has(config, "github") => config["github.token"] # Absent
    /\ config["tls.certPath"] = Absent <=> config["tls.keyPath"] = Absent
    /\ \A s \in Services : HasItsEndpoints(config, s)

PortOf(config) == IF config["hubPort"] = Absent THEN DefaultPort ELSE config["hubPort"]

ServesTls(config) == config["tls.certPath"] # Absent

-----------------------------------------------------------------------------
(* What the layers come to, setting by setting.                            *)

First(a, b) == IF a # Absent THEN a ELSE b

Effective(file, env, flag, path) ==
    CASE path = "mock" -> First(flag, First(env[path], file[path]))
      [] path \in {"voice.mock", "intent.mock"} ->
           First(First(env[path], file[path]),
                 IF First(flag, First(env["mock"], file["mock"])) = TRUE THEN TRUE ELSE Absent)
      [] path = "github.allowlist" ->
           IF Has(file, "github") \/ env["github.token"] # Absent
           THEN First(env[path], file[path]) ELSE Absent
      [] OTHER -> First(env[path], file[path])
=============================================================================
