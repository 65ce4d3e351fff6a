-------------------------- MODULE HubProcessProofs --------------------------
(***************************************************************************)
(* Theorems about HubConfig and HubProcess, for every number of Hubs, all  *)
(* editions of the file, all environments and any number of crashes.       *)
(***************************************************************************)
EXTENDS HubProcess, TLAPS

-----------------------------------------------------------------------------
(* How the settings are layered.                                           *)

\* One override changes its own path only.
LEMMA OneOverride ==
    ASSUME NEW config, IsConfig(config), NEW env, NEW path \in Paths, NEW section
    PROVE  LET after == setConfigPath(config, env, Override(path, section))
           IN  /\ IsConfig(after)
               /\ \A other \in Paths \ {path} : after[other] = config[other]
               /\ section = "none" => after[path] = First(env[path], config[path])
               /\ section = "github" =>
                     after[path] = IF Has(config, "github") THEN First(env[path], config[path])
                                                            ELSE config[path]
BY DEF setConfigPath, Override, IsConfig, First

LEMMA ListedOverrides ==
    /\ Len(ENV_OVERRIDES) = 13
    /\ ENV_OVERRIDES[1] = Override("hubPort", "none")
    /\ ENV_OVERRIDES[2] = Override("auth.token", "none")
    /\ ENV_OVERRIDES[3] = Override("tls.certPath", "none")
    /\ ENV_OVERRIDES[4] = Override("tls.keyPath", "none")
    /\ ENV_OVERRIDES[5] = Override("mock", "none")
    /\ ENV_OVERRIDES[6] = Override("github.token", "none")
    /\ ENV_OVERRIDES[7] = Override("github.allowlist", "github")
    /\ ENV_OVERRIDES[8] = Override("voice.enabled", "none")
    /\ ENV_OVERRIDES[9] = Override("voice.stt.endpoints", "none")
    /\ ENV_OVERRIDES[10] = Override("voice.mock", "none")
    /\ ENV_OVERRIDES[11] = Override("intent.enabled", "none")
    /\ ENV_OVERRIDES[12] = Override("intent.endpoints", "none")
    /\ ENV_OVERRIDES[13] = Override("intent.mock", "none")
BY DEF ENV_OVERRIDES, Override

\* applyEnvOverrides is its thirteen overrides, one after the other.
LEMMA OverridesInOrder ==
    ASSUME NEW config, NEW env
    PROVE  LET Next(c, n) == setConfigPath(c, env, ENV_OVERRIDES[n])
           IN  applyEnvOverrides(config, env) =
                  Next(Next(Next(Next(Next(Next(Next(Next(Next(Next(Next(Next(Next(
                      config, 1), 2), 3), 4), 5), 6), 7), 8), 9), 10), 11), 12), 13)
<1> DEFINE Next(c, n) == setConfigPath(c, env, ENV_OVERRIDES[n])
           c1 == Next(config, 1)   c2 == Next(c1, 2)    c3 == Next(c2, 3)    c4 == Next(c3, 4)
           c5 == Next(c4, 5)   c6 == Next(c5, 6)    c7 == Next(c6, 7)    c8 == Next(c7, 8)
           c9 == Next(c8, 9)   c10 == Next(c9, 10)  c11 == Next(c10, 11) c12 == Next(c11, 12)
           c13 == Next(c12, 13)
           Steps(f) == [n \in 0..Len(ENV_OVERRIDES) |->
                           IF n = 0 THEN config ELSE Next(f[n - 1], n)]
           first == [n \in 0..13 |->
                        CASE n = 0 -> config [] n = 1 -> c1 [] n = 2 -> c2 [] n = 3 -> c3
                          [] n = 4 -> c4 [] n = 5 -> c5 [] n = 6 -> c6 [] n = 7 -> c7
                          [] n = 8 -> c8 [] n = 9 -> c9 [] n = 10 -> c10 [] n = 11 -> c11
                          [] n = 12 -> c12 [] n = 13 -> c13]
           After == CHOOSE f : f = Steps(f)
<1>1. Len(ENV_OVERRIDES) = 13
  BY ListedOverrides
<1>2. applyEnvOverrides(config, env) = After[13]
  BY <1>1 DEF applyEnvOverrides
<1> HIDE DEF Next
<1>3. first = Steps(first)
  <2>1. \A n \in 0..13 : first[n] = IF n = 0 THEN config ELSE Next(first[n - 1], n)
    <3>1. /\ first[0] = config /\ first[1] = c1 /\ first[2] = c2 /\ first[3] = c3
          /\ first[4] = c4 /\ first[5] = c5 /\ first[6] = c6 /\ first[7] = c7
          /\ first[8] = c8 /\ first[9] = c9 /\ first[10] = c10 /\ first[11] = c11
          /\ first[12] = c12 /\ first[13] = c13
      OBVIOUS
    <3> HIDE DEF first
    <3>2. /\ first[1] = Next(first[0], 1) /\ first[2] = Next(first[1], 2)
          /\ first[3] = Next(first[2], 3) /\ first[4] = Next(first[3], 4)
          /\ first[5] = Next(first[4], 5) /\ first[6] = Next(first[5], 6)
          /\ first[7] = Next(first[6], 7) /\ first[8] = Next(first[7], 8)
          /\ first[9] = Next(first[8], 9) /\ first[10] = Next(first[9], 10)
          /\ first[11] = Next(first[10], 11) /\ first[12] = Next(first[11], 12)
          /\ first[13] = Next(first[12], 13)
      BY <3>1
    <3> QED BY <3>1, <3>2
  <2>2. first = [n \in 0..13 |-> first[n]]
    OBVIOUS
  <2> HIDE DEF first
  <2> QED BY <1>1, <2>1, <2>2
<1>4. After = Steps(After)
  <2> HIDE DEF Steps, first
  <2> QED BY <1>3
<1> HIDE DEF After
<1>5. \A n \in 1..13 : After[n] = Next(After[n - 1], n)
  BY <1>1, <1>4
<1>6. After[0] = config
  BY <1>1, <1>4
<1>7. /\ After[1] = c1 /\ After[2] = Next(After[1], 2) /\ After[3] = Next(After[2], 3)
      /\ After[4] = Next(After[3], 4) /\ After[5] = Next(After[4], 5)
      /\ After[6] = Next(After[5], 6) /\ After[7] = Next(After[6], 7)
      /\ After[8] = Next(After[7], 8) /\ After[9] = Next(After[8], 9)
      /\ After[10] = Next(After[9], 10) /\ After[11] = Next(After[10], 11)
      /\ After[12] = Next(After[11], 12) /\ After[13] = Next(After[12], 13)
  BY <1>5, <1>6
<1>8. After[13] = c13
  BY <1>7
<1> QED BY <1>2, <1>8 DEF Next

\* What the environment does to each setting of the file.
LEMMA EnvironmentOverFile ==
    ASSUME NEW given, IsConfig(given), NEW env
    PROVE  LET layered == applyEnvOverrides(given, env)
           IN  /\ IsConfig(layered)
               /\ \A path \in Paths \ {"github.allowlist"} :
                     layered[path] = First(env[path], given[path])
               /\ layered["github.allowlist"] =
                     IF Has(given, "github") \/ env["github.token"] # Absent
                     THEN First(env["github.allowlist"], given["github.allowlist"])
                     ELSE Absent
<1> DEFINE Next(c, n) == setConfigPath(c, env, ENV_OVERRIDES[n])
           c1 == Next(given, 1)   c2 == Next(c1, 2)    c3 == Next(c2, 3)    c4 == Next(c3, 4)
           c5 == Next(c4, 5)   c6 == Next(c5, 6)    c7 == Next(c6, 7)    c8 == Next(c7, 8)
           c9 == Next(c8, 9)   c10 == Next(c9, 10)  c11 == Next(c10, 11) c12 == Next(c11, 12)
           c13 == Next(c12, 13)
<1>1. applyEnvOverrides(given, env) = c13
  BY OverridesInOrder
<1> HIDE DEF Next
<1>2. ASSUME NEW c, IsConfig(c), NEW n, NEW path \in Paths,
             ENV_OVERRIDES[n] = Override(path, "none")
      PROVE  /\ IsConfig(Next(c, n))
             /\ \A other \in Paths \ {path} : Next(c, n)[other] = c[other]
             /\ Next(c, n)[path] = First(env[path], c[path])
  BY <1>2, OneOverride DEF Next
<1>3. ASSUME NEW c, IsConfig(c)
      PROVE  /\ IsConfig(Next(c, 7))
             /\ \A other \in Paths \ {"github.allowlist"} : Next(c, 7)[other] = c[other]
             /\ Next(c, 7)["github.allowlist"] =
                   IF Has(c, "github") THEN First(env["github.allowlist"], c["github.allowlist"])
                                       ELSE c["github.allowlist"]
  <2>1. ENV_OVERRIDES[7] = Override("github.allowlist", "github")
        /\ "github.allowlist" \in Paths
    BY ListedOverrides DEF Paths
  <2> QED BY <1>3, <2>1, OneOverride DEF Next
<1>4. /\ "hubPort" \in Paths /\ "auth.token" \in Paths /\ "tls.certPath" \in Paths
      /\ "tls.keyPath" \in Paths /\ "mock" \in Paths /\ "github.token" \in Paths
      /\ "github.allowlist" \in Paths /\ "voice.enabled" \in Paths
      /\ "voice.stt.endpoints" \in Paths /\ "voice.mock" \in Paths
      /\ "intent.enabled" \in Paths /\ "intent.endpoints" \in Paths
      /\ "intent.mock" \in Paths
  BY DEF Paths
<1>5. /\ IsConfig(c1) /\ c1["hubPort"] = First(env["hubPort"], given["hubPort"])
      /\ \A other \in Paths \ {"hubPort"} : c1[other] = given[other]
  BY <1>2, <1>4, ListedOverrides
<1> HIDE DEF c1
<1>6. /\ IsConfig(c2) /\ c2["auth.token"] = First(env["auth.token"], c1["auth.token"])
      /\ \A other \in Paths \ {"auth.token"} : c2[other] = c1[other]
  BY <1>2, <1>4, <1>5, ListedOverrides
<1> HIDE DEF c2
<1>7. /\ IsConfig(c3) /\ c3["tls.certPath"] = First(env["tls.certPath"], c2["tls.certPath"])
      /\ \A other \in Paths \ {"tls.certPath"} : c3[other] = c2[other]
  BY <1>2, <1>4, <1>6, ListedOverrides
<1> HIDE DEF c3
<1>8. /\ IsConfig(c4) /\ c4["tls.keyPath"] = First(env["tls.keyPath"], c3["tls.keyPath"])
      /\ \A other \in Paths \ {"tls.keyPath"} : c4[other] = c3[other]
  BY <1>2, <1>4, <1>7, ListedOverrides
<1> HIDE DEF c4
<1>9. /\ IsConfig(c5) /\ c5["mock"] = First(env["mock"], c4["mock"])
      /\ \A other \in Paths \ {"mock"} : c5[other] = c4[other]
  BY <1>2, <1>4, <1>8, ListedOverrides
<1> HIDE DEF c5
<1>10. /\ IsConfig(c6) /\ c6["github.token"] = First(env["github.token"], c5["github.token"])
       /\ \A other \in Paths \ {"github.token"} : c6[other] = c5[other]
  BY <1>2, <1>4, <1>9, ListedOverrides
<1> HIDE DEF c6
<1>11. /\ IsConfig(c7)
       /\ \A other \in Paths \ {"github.allowlist"} : c7[other] = c6[other]
       /\ c7["github.allowlist"] =
             IF Has(c6, "github") THEN First(env["github.allowlist"], c6["github.allowlist"])
                                  ELSE c6["github.allowlist"]
  BY <1>3, <1>10
<1> HIDE DEF c7
<1>12. /\ IsConfig(c8) /\ c8["voice.enabled"] = First(env["voice.enabled"], c7["voice.enabled"])
       /\ \A other \in Paths \ {"voice.enabled"} : c8[other] = c7[other]
  BY <1>2, <1>4, <1>11, ListedOverrides
<1> HIDE DEF c8
<1>13. /\ IsConfig(c9) /\ c9["voice.stt.endpoints"] = First(env["voice.stt.endpoints"], c8["voice.stt.endpoints"])
       /\ \A other \in Paths \ {"voice.stt.endpoints"} : c9[other] = c8[other]
  BY <1>2, <1>4, <1>12, ListedOverrides
<1> HIDE DEF c9
<1>14. /\ IsConfig(c10) /\ c10["voice.mock"] = First(env["voice.mock"], c9["voice.mock"])
       /\ \A other \in Paths \ {"voice.mock"} : c10[other] = c9[other]
  BY <1>2, <1>4, <1>13, ListedOverrides
<1> HIDE DEF c10
<1>15. /\ IsConfig(c11) /\ c11["intent.enabled"] = First(env["intent.enabled"], c10["intent.enabled"])
       /\ \A other \in Paths \ {"intent.enabled"} : c11[other] = c10[other]
  BY <1>2, <1>4, <1>14, ListedOverrides
<1> HIDE DEF c11
<1>16. /\ IsConfig(c12) /\ c12["intent.endpoints"] = First(env["intent.endpoints"], c11["intent.endpoints"])
       /\ \A other \in Paths \ {"intent.endpoints"} : c12[other] = c11[other]
  BY <1>2, <1>4, <1>15, ListedOverrides
<1> HIDE DEF c12
<1>17. /\ IsConfig(c13) /\ c13["intent.mock"] = First(env["intent.mock"], c12["intent.mock"])
       /\ \A other \in Paths \ {"intent.mock"} : c13[other] = c12[other]
  BY <1>2, <1>4, <1>16, ListedOverrides
<1> HIDE DEF c13
<1>18. \A path \in Paths \ {"github.allowlist"} : c13[path] = First(env[path], given[path])
  BY <1>5, <1>6, <1>7, <1>8, <1>9, <1>10, <1>11, <1>12, <1>13, <1>14, <1>15, <1>16, <1>17 DEF Paths
<1>19. /\ c6["github.token"] = First(env["github.token"], given["github.token"])
       /\ c6["github.allowlist"] = given["github.allowlist"]
       /\ c13["github.allowlist"] = c7["github.allowlist"]
  BY <1>5, <1>6, <1>7, <1>8, <1>9, <1>10, <1>11, <1>12, <1>13, <1>14, <1>15, <1>16, <1>17 DEF Paths
<1>20. Has(c6, "github") <=> (Has(given, "github") \/ env["github.token"] # Absent)
  BY <1>19 DEF Has, Section, First
<1>21. ~ Has(c6, "github") => c6["github.allowlist"] = Absent
  BY DEF Has, Section
<1> QED BY <1>1, <1>11, <1>17, <1>18, <1>19, <1>20, <1>21

\* Whatever the file, the environment and the flag hold, loadConfig comes to
\* what the layers say setting by setting: no variable is overridden by a
\* weaker source, and none conjures a section (loadConfig, applyEnvOverrides
\* and inheritGlobalMock in config.ts).
THEOREM SettingsAreLayered ==
    ASSUME NEW given, IsConfig(given), NEW env, NEW flag
    PROVE  /\ IsConfig(loadConfig(given, env, flag))
           /\ \A path \in Paths :
                 loadConfig(given, env, flag)[path] = Effective(given, env, flag, path)
<1> DEFINE layered == applyEnvOverrides(given, env)
           flagged == IF flag = Absent THEN layered ELSE [layered EXCEPT !["mock"] = flag]
           loaded == inheritGlobalMock(flagged)
<1>1. loadConfig(given, env, flag) = loaded
  BY DEF loadConfig
<1>2. /\ IsConfig(layered)
      /\ \A path \in Paths \ {"github.allowlist"} :
            layered[path] = First(env[path], given[path])
      /\ layered["github.allowlist"] =
            IF Has(given, "github") \/ env["github.token"] # Absent
            THEN First(env["github.allowlist"], given["github.allowlist"]) ELSE Absent
  BY EnvironmentOverFile
<1> HIDE DEF layered
<1>3. /\ IsConfig(flagged)
      /\ flagged["mock"] = First(flag, First(env["mock"], given["mock"]))
      /\ \A path \in Paths \ {"mock"} : flagged[path] = layered[path]
  BY <1>2 DEF IsConfig, First, Paths
<1> HIDE DEF flagged
<1>4. /\ IsConfig(loaded)
      /\ \A path \in {"voice.mock", "intent.mock"} :
            loaded[path] = IF flagged[path] = Absent /\ flagged["mock"] = TRUE
                           THEN TRUE ELSE flagged[path]
      /\ \A path \in Paths \ {"voice.mock", "intent.mock"} : loaded[path] = flagged[path]
  BY <1>3 DEF IsConfig, inheritGlobalMock, Paths
<1> HIDE DEF loaded
<1>5. loaded["mock"] = Effective(given, env, flag, "mock")
  BY <1>3, <1>4 DEF Effective, Paths
<1>6. ASSUME NEW path \in {"voice.mock", "intent.mock"}
      PROVE  loaded[path] = Effective(given, env, flag, path)
  <2>1. flagged[path] = First(env[path], given[path])
    BY <1>2, <1>3 DEF Paths
  <2> QED BY <1>3, <1>4, <2>1 DEF Effective, First
<1>7. loaded["github.allowlist"] = Effective(given, env, flag, "github.allowlist")
  <2>1. loaded["github.allowlist"] = layered["github.allowlist"]
    BY <1>3, <1>4 DEF Paths
  <2> QED BY <1>2, <2>1 DEF Effective
<1>8. ASSUME NEW path \in Paths \ {"mock", "voice.mock", "intent.mock", "github.allowlist"}
      PROVE  loaded[path] = Effective(given, env, flag, path)
  <2>1. loaded[path] = First(env[path], given[path])
    BY <1>2, <1>3, <1>4
  <2> QED BY <2>1 DEF Effective
<1> QED BY <1>1, <1>4, <1>5, <1>6, <1>7, <1>8

-----------------------------------------------------------------------------
(* The inductive invariant.                                                *)

Booted == {"adapters", "orchestrators", "serving"}
Tok == "auth.token"

\* The state of a process: what it holds is a file it read, only while it writes.
HubOK(h) ==
    /\ h \in [pc : Pcs, env : {h.env}, flag : {h.flag}, cfg : {h.cfg}, held : {h.held},
              edition : {h.edition}, orphan : BOOLEAN]
    /\ IsConfig(h.env) /\ IsConfig(h.cfg)
    /\ IF h.pc = "writing" THEN h.held \in File ELSE h.held = None

DeskOK(d) ==
    /\ d \in [pc : {"closed", "resolving", "minting", "writing", "spawning", "waiting", "open"},
              env : {d.env}, token : {d.token}, held : {d.held}]
    /\ IsConfig(d.env) /\ (d.pc # "closed" => d.env \in Environments)
    /\ IF d.pc = "writing" THEN d.held \in File ELSE d.held = None

ShapeInv ==
    /\ file \in File /\ saved \in DOMAIN Keys /\ minted \in Nat
    /\ hub = [p \in Hubs |-> hub[p]] /\ \A p \in Hubs : HubOK(hub[p])
    /\ DeskOK(desk)
    /\ child \in Sidecars \cup {None} /\ crashes \in 0..MaxCrashes
    /\ raced \in BOOLEAN /\ clobbered \in BOOLEAN /\ lost \in BOOLEAN

\* What a process loaded: but for the token, what the layers make of its edition.
LoadedOK(h) ==
    /\ h.pc \notin Booted => h.cfg[Tok] = Absent
    /\ h.pc \in Minting => h.env[Tok] = Absent
    /\ h.pc \in Minting \cup Booted =>
          /\ h.edition \in DOMAIN Keys /\ Keys[h.edition] # Broken /\ Valid(h.cfg)
          /\ \A path \in Paths \ {Tok} :
                h.cfg[path] = Effective(Keys[h.edition], h.env, h.flag, path)

\* What a process knows of the token, when the file holds this one.
HubTokens(h, token) ==
    /\ h.env[Tok] \in {Absent, token} \cup EnvTokens
    /\ h.pc \in Booted => h.cfg[Tok] = First(h.env[Tok], token) /\ h.cfg[Tok] # Absent

\* Unless two raced there is one to make a token, and only while there is none.
TokenInv ==
    /\ \A p, q \in Hubs : hub[p].pc \in Minting /\ hub[q].pc \in Minting => p = q
    /\ \A p \in Hubs : hub[p].pc \in Minting => desk.pc \notin Minting
    /\ SomeoneMints => file.token = Absent
    /\ \A p \in Hubs : HubTokens(hub[p], file.token)
    /\ desk.token \in {Absent, file.token} \cup EnvTokens

\* Unless the user saved in between, what is about to be written is what they saved.
EditionInv ==
    /\ file.edition = saved
    /\ \A p \in Hubs : hub[p].held # None => hub[p].held.edition = saved
    /\ desk.held # None => desk.held.edition = saved

DeskInv ==
    /\ child = None <=> desk.pc \notin {"waiting", "open"}
    /\ DesktopHasItsHub

ProcessInv ==
    /\ ShapeInv
    /\ \A p \in Hubs : LoadedOK(hub[p])
    /\ ~ raced => TokenInv
    /\ ~ clobbered => EditionInv
    /\ DeskInv

-----------------------------------------------------------------------------
(* Facts the steps share.                                                  *)

LEMMA TokenFacts ==
    /\ Absent \notin EnvTokens /\ Absent \notin Nat
    /\ \A t \in Nat : t \notin EnvTokens
    /\ \A env \in Environments : IsConfig(env) /\ env[Tok] \in {Absent} \cup EnvTokens
    /\ Tok \in Paths
BY TokensAssumption, EnvironmentsAssumption DEF EnvTokens, Tok, Paths

LEMMA NothingIsConfig == IsConfig(Nothing) /\ \A path \in Paths : Nothing[path] = Absent
BY DEF Nothing, IsConfig

\* Validity and the port do not depend on the token.
LEMMA TokenAside ==
    ASSUME NEW a, NEW b, \A path \in Paths \ {Tok} : a[path] = b[path]
    PROVE  /\ Has(a, "github") <=> Has(b, "github")
           /\ Valid(a) <=> Valid(b)
           /\ PortOf(a) = PortOf(b) /\ (ServesTls(a) <=> ServesTls(b))
<1>1. \A path \in Paths : path # "auth.token" => a[path] = b[path]
  BY DEF Tok
<1>2. \A s \in Services : HasItsEndpoints(a, s) <=> HasItsEndpoints(b, s)
  <2> SUFFICES ASSUME NEW s \in Services
               PROVE  HasItsEndpoints(a, s) <=> HasItsEndpoints(b, s)
    OBVIOUS
  <2>1. /\ s.enabled \in Paths \ {Tok} /\ s.endpoints \in Paths \ {Tok}
        /\ s.mock \in Paths \ {Tok}
    BY DEF Services, Service, Paths, Tok
  <2> QED BY <2>1 DEF HasItsEndpoints
<1>3. Has(a, "github") <=> Has(b, "github")
  BY <1>1 DEF Has, Section, Paths
<1>4. a["github.token"] = b["github.token"] /\ a["tls.certPath"] = b["tls.certPath"]
      /\ a["tls.keyPath"] = b["tls.keyPath"] /\ a["hubPort"] = b["hubPort"]
  BY <1>1 DEF Paths
<1> QED BY <1>2, <1>3, <1>4 DEF Valid, PortOf, ServesTls

\* What the layers make of a file does not depend on its token, but for the token.
LEMMA EffectiveTokenAside ==
    ASSUME NEW a, NEW b, \A path \in Paths \ {Tok} : a[path] = b[path], NEW env, NEW flag
    PROVE  /\ \A path \in Paths \ {Tok} :
                 Effective(a, env, flag, path) = Effective(b, env, flag, path)
           /\ Effective(a, env, flag, Tok) = First(env[Tok], a[Tok])
<1>1. (Has(a, "github") <=> Has(b, "github")) /\ a["mock"] = b["mock"]
  BY TokenAside DEF Paths, Tok
<1>2. ASSUME NEW path \in Paths \ {Tok}
      PROVE  Effective(a, env, flag, path) = Effective(b, env, flag, path)
  <2>1. a[path] = b[path]
    OBVIOUS
  <2>2. CASE path = "mock"
    BY <2>1, <2>2 DEF Effective
  <2>3. CASE path \in {"voice.mock", "intent.mock"}
    BY <1>1, <2>1, <2>3 DEF Effective
  <2>4. CASE path = "github.allowlist"
    BY <1>1, <2>1, <2>4 DEF Effective
  <2>5. CASE path \notin {"mock", "voice.mock", "intent.mock", "github.allowlist"}
    BY <2>1, <2>5 DEF Effective
  <2> QED BY <2>2, <2>3, <2>4, <2>5
<1>3. Effective(a, env, flag, Tok) = First(env[Tok], a[Tok])
  BY DEF Effective, Tok
<1> QED BY <1>2, <1>3

\* A process that can read the file reads its edition, with the token merged in.
LEMMA ParsedFile ==
    ASSUME file \in File, ~ Unreadable
    PROVE  /\ file.edition \in DOMAIN Keys /\ Keys[file.edition] # Broken
           /\ IsConfig(Parsed) /\ Parsed[Tok] = file.token
           /\ \A path \in Paths \ {Tok} : Parsed[path] = Keys[file.edition][path]
<1>1. file.edition \in DOMAIN Keys /\ Keys[file.edition] # Broken
  BY DEF Unreadable, File
<1>2. IsConfig(Keys[file.edition])
  BY <1>1, KeysAssumption
<1> QED BY <1>1, <1>2 DEF Parsed, IsConfig, Paths, Tok

LEMMA InitEstablishesProcessInv == ProcessInit => ProcessInv
<1> SUFFICES ASSUME ProcessInit PROVE ProcessInv
  OBVIOUS
<1>1. HubOK(Gone) /\ LoadedOK(Gone) /\ HubTokens(Gone, Absent)
      /\ Gone.pc = "gone" /\ Gone.held = None
  BY NothingIsConfig, TokenFacts
     DEF Gone, HubOK, Pcs, LoadedOK, Booted, Minting, HubTokens, Tok
<1>2. DeskOK(Closed) /\ Closed.pc = "closed" /\ Closed.held = None /\ Closed.token = Absent
  BY NothingIsConfig DEF Closed, DeskOK
<1>3. /\ file \in File /\ file.token = Absent /\ file.edition = 1 /\ saved = 1
      /\ 1 \in DOMAIN Keys /\ minted \in Nat
  BY KeysAssumption DEF ProcessInit, File
<1>4. \A p \in Hubs : hub[p] = Gone
  BY DEF ProcessInit
<1>5. ShapeInv
  <2>1. hub = [p \in Hubs |-> hub[p]] /\ \A p \in Hubs : HubOK(hub[p])
    BY <1>1, <1>4 DEF ProcessInit
  <2>2. DeskOK(desk) /\ child = None
    BY <1>2 DEF ProcessInit
  <2>3. crashes \in 0..MaxCrashes
    BY CrashesAssumption DEF ProcessInit
  <2>4. raced = FALSE /\ clobbered = FALSE /\ lost = FALSE /\ saved = 1
    BY DEF ProcessInit
  <2> QED BY <1>3, <2>1, <2>2, <2>3, <2>4 DEF ShapeInv
<1>6. TokenInv
  BY <1>1, <1>2, <1>3, <1>4 DEF ProcessInit, TokenInv, SomeoneMints, Minting
<1>7. EditionInv
  BY <1>1, <1>2, <1>3, <1>4 DEF ProcessInit, EditionInv
<1>8. DeskInv
  <2>1. desk.pc = "closed" /\ child = None
    BY <1>2 DEF ProcessInit
  <2>2. \A p \in Sidecars : ~ Running(p)
    BY <1>1, <1>4 DEF Hubs, Running
  <2> QED BY <2>1, <2>2 DEF DeskInv, DesktopHasItsHub
<1> QED BY <1>1, <1>4, <1>5, <1>6, <1>7, <1>8 DEF ProcessInv

-----------------------------------------------------------------------------
(* The steps of a Hub that leave the file alone.                           *)

\* What a hub's step has to establish, for the process it changes.
LEMMA HubStepKeepsProcessInv ==
    ASSUME ProcessInv, NEW p \in Hubs, NEW new, HubOK(new), LoadedOK(new),
           hub' = [hub EXCEPT ![p] = new],
           UNCHANGED <<file, saved, minted, desk, child, crashes, clobbered>>,
           raced' \in BOOLEAN, lost' \in BOOLEAN, ~ raced' => ~ raced,
           ~ raced' => /\ HubTokens(new, file.token)
                       /\ new.pc \in Minting =>
                             \/ hub[p].pc \in Minting
                             \/ ~ SomeoneMints /\ file.token = Absent,
           ~ clobbered /\ new.held # None => new.held.edition = saved,
           p \in Sidecars /\ new.pc # "gone" =>
               Running(p) /\ (hub[p].orphan => new.orphan),
           desk.pc = "open" /\ ~ lost' =>
               ~ lost /\ (p \in Serving => new.pc = "serving" /\ new.cfg = hub[p].cfg)
    PROVE  ProcessInv'
<1>1. hub = [q \in Hubs |-> hub[q]]
  BY DEF ProcessInv, ShapeInv
<1>2. /\ hub' = [q \in Hubs |-> hub'[q]] /\ hub'[p] = new
      /\ \A q \in Hubs : q # p => hub'[q] = hub[q]
  BY <1>1
<1>3. ShapeInv'
  BY <1>2 DEF ProcessInv, ShapeInv
<1>4. \A q \in Hubs : LoadedOK(hub'[q])
  BY <1>2 DEF ProcessInv
<1>5. ASSUME ~ raced' PROVE TokenInv'
  <2>1. TokenInv
    BY <1>5 DEF ProcessInv
  <2>2. ASSUME NEW q \in Hubs, NEW r \in Hubs, hub'[q].pc \in Minting, hub'[r].pc \in Minting
        PROVE  q = r
    BY <1>2, <1>5, <2>1, <2>2 DEF TokenInv, SomeoneMints
  <2>3. ASSUME NEW q \in Hubs, hub'[q].pc \in Minting PROVE desk.pc \notin Minting
    BY <1>2, <1>5, <2>1, <2>3 DEF TokenInv, SomeoneMints
  <2>4. SomeoneMints' => file.token = Absent
    BY <1>2, <1>5, <2>1 DEF TokenInv, SomeoneMints
  <2>5. \A q \in Hubs : HubTokens(hub'[q], file.token)
    BY <1>2, <1>5, <2>1 DEF TokenInv
  <2> QED BY <2>1, <2>2, <2>3, <2>4, <2>5 DEF TokenInv
<1>6. ASSUME ~ clobbered' PROVE EditionInv'
  BY <1>2, <1>6 DEF ProcessInv, EditionInv
<1>7. DeskInv'
  <2>1. ASSUME NEW q \in Sidecars, hub'[q].pc # "gone"
        PROVE  q = child \/ hub'[q].orphan
    BY <1>2, <2>1 DEF ProcessInv, DeskInv, DesktopHasItsHub, Running, Hubs, ShapeInv, HubOK
  <2>2. ASSUME desk.pc = "open", ~ lost'
        PROVE  \E q \in Hubs : HealthCheck(q)'
    <3>1. PICK q \in Hubs : HealthCheck(q)
      BY <2>2 DEF ProcessInv, DeskInv, DesktopHasItsHub
    <3>2. hub'[q].pc = "serving" /\ hub'[q].cfg = hub[q].cfg
      BY <1>2, <2>2, <3>1 DEF HealthCheck, Serving
    <3> QED BY <3>1, <3>2 DEF HealthCheck, Serving, DeskPort
  <2> QED BY <2>1, <2>2 DEF ProcessInv, DeskInv, DesktopHasItsHub, Running
<1> QED BY <1>3, <1>4, <1>5, <1>6, <1>7 DEF ProcessInv

\* The fields of a process, and the invariant's facts about it.
LEMMA OneHub ==
    ASSUME ProcessInv, NEW p \in Hubs
    PROVE  /\ hub = [q \in Hubs |-> hub[q]] /\ HubOK(hub[p]) /\ LoadedOK(hub[p])
           /\ ~ raced => HubTokens(hub[p], file.token)
           /\ ~ raced /\ hub[p].pc \in Minting => file.token = Absent
           /\ file \in File /\ raced \in BOOLEAN /\ lost \in BOOLEAN
BY DEF ProcessInv, ShapeInv, TokenInv, SomeoneMints

LEMMA HubStartsKeepsProcessInv ==
    ASSUME ProcessInv, NEW p \in Commands, NEW env \in Environments, NEW flag,
           HubStarts(p, env, flag)
    PROVE  ProcessInv'
<1> DEFINE new == [Gone EXCEPT !.pc = "loading", !.env = env, !.flag = flag]
<1>1. p \in Hubs /\ p \notin Sidecars /\ hub' = [hub EXCEPT ![p] = new]
      /\ UNCHANGED <<file, saved, minted, desk, child, crashes, history>>
  BY HubsAssumption DEF HubStarts, Hubs
<1>2. /\ new.pc = "loading" /\ new.env = env /\ new.cfg = Nothing /\ new.held = None
      /\ new \in [pc : Pcs, env : {env}, flag : {new.flag}, cfg : {new.cfg},
                 held : {new.held}, edition : {new.edition}, orphan : BOOLEAN]
  BY DEF Gone, Pcs
<1> HIDE DEF new
<1>3. HubOK(new) /\ LoadedOK(new) /\ HubTokens(new, file.token)
  BY <1>2, NothingIsConfig, TokenFacts
     DEF HubOK, Pcs, LoadedOK, Booted, Minting, HubTokens
<1>4. p \notin Serving
  BY DEF HubStarts, Running, Serving
<1>5. raced \in BOOLEAN /\ lost \in BOOLEAN
  BY DEF ProcessInv, ShapeInv
<1>6. new.held = None /\ new.pc \notin Minting
  BY <1>2 DEF Minting
<1> QED BY <1>1, <1>3, <1>4, <1>5, <1>6, HubStepKeepsProcessInv DEF history

LEMMA LoadsKeepsProcessInv ==
    ASSUME ProcessInv, NEW p \in Hubs, Loads(p)
    PROVE  ProcessInv'
<1> DEFINE cfg == loadConfig(Parsed, hub[p].env, hub[p].flag)
           next == IF cfg[Tok] = Absent THEN "minting" ELSE "adapters"
<1>1. /\ hub[p].pc = "loading" /\ HubOK(hub[p]) /\ LoadedOK(hub[p]) /\ hub[p].held = None
      /\ ~ raced => HubTokens(hub[p], file.token)
      /\ raced \in BOOLEAN /\ lost \in BOOLEAN /\ p \notin Serving /\ Running(p)
      /\ file \in File
  BY OneHub DEF Loads, HubOK, Serving, Running
<1>2. UNCHANGED <<file, saved, minted, desk, child, crashes, clobbered, lost>>
  BY DEF Loads
<1>3. CASE Unreadable \/ ~ Valid(cfg)
  <2>1. hub' = [hub EXCEPT ![p] = Gone] /\ raced' = raced
    BY <1>3 DEF Loads, Ends, Tok
  <2>2. HubOK(Gone) /\ LoadedOK(Gone) /\ HubTokens(Gone, file.token)
        /\ Gone.pc = "gone" /\ Gone.held = None
    BY NothingIsConfig, TokenFacts
       DEF Gone, HubOK, Pcs, LoadedOK, Booted, Minting, HubTokens
  <2> QED BY <1>1, <1>2, <2>1, <2>2, HubStepKeepsProcessInv DEF Minting
<1>4. CASE ~ (Unreadable \/ ~ Valid(cfg))
  <2> DEFINE new == [hub[p] EXCEPT !.pc = next, !.cfg = cfg, !.edition = file.edition]
  <2>1. /\ hub' = [hub EXCEPT ![p].pc = next, ![p].cfg = cfg, ![p].edition = file.edition]
        /\ raced' = (raced \/ (next = "minting" /\ SomeoneMints))
    BY <1>4 DEF Loads, Tok
  <2>2. hub' = [hub EXCEPT ![p] = new]
    BY <2>1, OneHub
  <2>3. /\ file.edition \in DOMAIN Keys /\ Keys[file.edition] # Broken
        /\ IsConfig(Parsed) /\ Parsed[Tok] = file.token
        /\ \A path \in Paths \ {Tok} : Parsed[path] = Keys[file.edition][path]
    BY <1>1, <1>4, ParsedFile
  <2>5. IsConfig(cfg) /\ \A path \in Paths :
           cfg[path] = Effective(Parsed, hub[p].env, hub[p].flag, path)
    BY <2>3, SettingsAreLayered
  <2> HIDE DEF cfg
  <2>6. /\ \A path \in Paths \ {Tok} :
               cfg[path] = Effective(Keys[file.edition], hub[p].env, hub[p].flag, path)
        /\ cfg[Tok] = First(hub[p].env[Tok], file.token)
    BY <2>3, <2>5, EffectiveTokenAside, TokenFacts
  <2>7. next \in {"minting", "adapters"} /\ (next = "minting" <=> cfg[Tok] = Absent)
    OBVIOUS
  <2> HIDE DEF next
  <2>8. next \in Pcs
    BY <2>7 DEF Pcs
  <2>9. /\ new.pc = next /\ new.env = hub[p].env /\ new.flag = hub[p].flag
        /\ new.cfg = cfg /\ new.held = None /\ new.edition = file.edition
        /\ new.orphan = hub[p].orphan
        /\ new \in [pc : Pcs, env : {new.env}, flag : {new.flag}, cfg : {new.cfg},
                   held : {new.held}, edition : {new.edition}, orphan : BOOLEAN]
    BY <1>1, <2>8 DEF HubOK
  <2> HIDE DEF new
  <2>10. HubOK(new)
    BY <1>1, <2>5, <2>7, <2>9 DEF HubOK
  <2>11. next = "minting" => hub[p].env[Tok] = Absent /\ file.token = Absent
    BY <2>6, <2>7 DEF First
  <2>12. LoadedOK(new)
    BY <1>4, <2>3, <2>6, <2>7, <2>9, <2>11 DEF LoadedOK, Booted, Minting
  <2>13. ~ raced => HubTokens(new, file.token)
    BY <1>1, <2>6, <2>7, <2>9 DEF HubTokens, Booted
  <2>14. ~ raced' => ~ raced /\ (new.pc \in Minting => ~ SomeoneMints /\ file.token = Absent)
    BY <2>1, <2>7, <2>9, <2>11 DEF Minting
  <2>15. raced' \in BOOLEAN
    BY <1>1, <2>1
  <2> QED BY <1>1, <1>2, <2>2, <2>9, <2>10, <2>12, <2>13, <2>14, <2>15, HubStepKeepsProcessInv
<1> QED BY <1>3, <1>4

\* A process that ends, whatever it was doing.
LEMMA EndsKeepsProcessInv ==
    ASSUME ProcessInv, NEW p \in Hubs, hub' = Ends(p),
           UNCHANGED <<file, saved, minted, desk, child, crashes, raced, clobbered>>,
           lost' = (lost \/ p \in Serving)
    PROVE  ProcessInv'
<1>1. HubOK(Gone) /\ LoadedOK(Gone) /\ HubTokens(Gone, file.token)
      /\ Gone.pc = "gone" /\ Gone.held = None
  BY NothingIsConfig, TokenFacts
     DEF Gone, HubOK, Pcs, LoadedOK, Booted, Minting, HubTokens
<1>2. hub' = [hub EXCEPT ![p] = Gone]
  BY DEF Ends
<1>3. raced \in BOOLEAN /\ lost' \in BOOLEAN
  BY OneHub
<1>4. Gone.pc \notin Minting
  BY <1>1 DEF Minting
<1>5. ~ lost' => ~ lost /\ p \notin Serving
  OBVIOUS
<1> QED BY <1>1, <1>2, <1>3, <1>4, <1>5, HubStepKeepsProcessInv

LEMMA DiesKeepsProcessInv ==
    ASSUME ProcessInv, NEW p \in Hubs, Dies(p) PROVE ProcessInv'
BY EndsKeepsProcessInv DEF Dies

\* A step of the boot after the token is there.
LEMMA GoesKeepsProcessInv ==
    ASSUME ProcessInv, NEW p \in Hubs, NEW pc \in Booted,
           hub[p].pc \in Booted \ {"serving"}, hub' = Goes(p, pc),
           UNCHANGED <<file, saved, minted, desk, child, crashes, history>>
    PROVE  ProcessInv'
<1> DEFINE new == [hub[p] EXCEPT !.pc = pc]
<1>1. /\ HubOK(hub[p]) /\ LoadedOK(hub[p]) /\ hub[p].held = None
      /\ ~ raced => HubTokens(hub[p], file.token)
      /\ raced \in BOOLEAN /\ lost \in BOOLEAN
  BY OneHub DEF HubOK, Booted
<1>2. hub' = [hub EXCEPT ![p] = new]
  BY OneHub DEF Goes
<1>3. /\ new.pc = pc /\ new.env = hub[p].env /\ new.flag = hub[p].flag
      /\ new.cfg = hub[p].cfg /\ new.held = None /\ new.edition = hub[p].edition
      /\ new.orphan = hub[p].orphan
      /\ new \in [pc : Pcs, env : {new.env}, flag : {new.flag}, cfg : {new.cfg},
                 held : {new.held}, edition : {new.edition}, orphan : BOOLEAN]
  BY <1>1 DEF HubOK, Booted, Pcs
<1> HIDE DEF new
<1>4. HubOK(new)
  BY <1>1, <1>3 DEF HubOK, Booted
<1>5. LoadedOK(new)
  BY <1>1, <1>3 DEF LoadedOK, Booted, Minting
<1>6. ~ raced => HubTokens(new, file.token)
  BY <1>1, <1>3 DEF HubTokens
<1>7. new.pc \notin Minting /\ p \notin Serving /\ Running(p)
  BY <1>3 DEF Booted, Minting, Serving, Running
<1> QED BY <1>1, <1>2, <1>3, <1>4, <1>5, <1>6, <1>7, HubStepKeepsProcessInv DEF history

LEMMA AdaptersStartedKeepsProcessInv ==
    ASSUME ProcessInv, NEW p \in Hubs, AdaptersStarted(p) PROVE ProcessInv'
BY GoesKeepsProcessInv DEF AdaptersStarted, Booted

LEMMA ListensKeepsProcessInv ==
    ASSUME ProcessInv, NEW p \in Hubs, Listens(p) PROVE ProcessInv'
<1>1. CASE Taken(PortOf(hub[p].cfg))
  <2>1. p \notin Serving /\ lost' = (lost \/ p \in Serving)
    BY OneHub DEF Listens, Serving, history
  <2> QED BY <1>1, <2>1, EndsKeepsProcessInv DEF Listens, history
<1>2. CASE ~ Taken(PortOf(hub[p].cfg))
  BY <1>2, GoesKeepsProcessInv DEF Listens, Booted
<1> QED BY <1>1, <1>2

\* The second read of the file, by whoever makes the token.
LEMMA ReadsAgainKeepsProcessInv ==
    ASSUME ProcessInv, NEW p \in Hubs, ReadsAgain(p) PROVE ProcessInv'
<1>1. CASE Unreadable
  <2>1. p \notin Serving /\ lost' = (lost \/ p \in Serving)
    BY OneHub DEF ReadsAgain, Serving, history
  <2> QED BY <1>1, <2>1, EndsKeepsProcessInv DEF ReadsAgain, history
<1>2. CASE ~ Unreadable
  <2> DEFINE new == [hub[p] EXCEPT !.pc = "writing", !.held = file]
  <2>1. /\ HubOK(hub[p]) /\ LoadedOK(hub[p]) /\ hub[p].pc = "minting"
        /\ ~ raced => HubTokens(hub[p], file.token)
        /\ raced \in BOOLEAN /\ lost \in BOOLEAN /\ file \in File
    BY OneHub DEF ReadsAgain
  <2>2. hub' = [hub EXCEPT ![p] = new]
        /\ UNCHANGED <<file, saved, minted, desk, child, crashes, history>>
    BY <1>2, OneHub DEF ReadsAgain, Rereads
  <2>3. /\ new.pc = "writing" /\ new.env = hub[p].env /\ new.flag = hub[p].flag
        /\ new.cfg = hub[p].cfg /\ new.held = file /\ new.edition = hub[p].edition
        /\ new.orphan = hub[p].orphan
        /\ new \in [pc : Pcs, env : {new.env}, flag : {new.flag}, cfg : {new.cfg},
                   held : {new.held}, edition : {new.edition}, orphan : BOOLEAN]
    BY <2>1 DEF HubOK, Pcs
  <2> HIDE DEF new
  <2>4. HubOK(new)
    BY <2>1, <2>3 DEF HubOK
  <2>5. LoadedOK(new)
    BY <2>1, <2>3 DEF LoadedOK, Booted, Minting
  <2>6. ~ raced => HubTokens(new, file.token)
    BY <2>1, <2>3 DEF HubTokens, Booted
  <2>7. hub[p].pc \in Minting /\ p \notin Serving /\ Running(p)
    BY <2>1 DEF Minting, Serving, Running
  <2>8. ~ clobbered => new.held.edition = saved
    BY <2>3 DEF ProcessInv, EditionInv
  <2> QED BY <2>1, <2>2, <2>3, <2>4, <2>5, <2>6, <2>7, <2>8, HubStepKeepsProcessInv
          DEF history
<1> QED BY <1>1, <1>2

-----------------------------------------------------------------------------
(* The steps that change the file.                                         *)

\* A token made while there was none is the one everybody has.
LEMMA FirstTokenIsShared ==
    ASSUME NEW h, NEW token \in Nat, HubTokens(h, Absent)
    PROVE  HubTokens(h, token)
BY TokenFacts DEF HubTokens, First

LEMMA RenamesKeepsProcessInv ==
    ASSUME ProcessInv, NEW p \in Hubs, Renames(p) PROVE ProcessInv'
<1> DEFINE token == minted + 1
           new == [hub[p] EXCEPT !.pc = "adapters", !.held = None,
                                 !.cfg = [@ EXCEPT ![Tok] = token]]
<1>1. /\ HubOK(hub[p]) /\ LoadedOK(hub[p]) /\ hub[p].pc = "writing" /\ hub[p].held \in File
      /\ hub = [q \in Hubs |-> hub[q]] /\ minted \in Nat /\ token \in Nat
  BY OneHub DEF Renames, HubOK, ProcessInv, ShapeInv
<1>2. /\ minted' = token /\ file' = [hub[p].held EXCEPT !.token = token]
      /\ UNCHANGED <<saved, desk, child, crashes, history>>
  BY DEF Renames, Persist
<1>3. hub' = [hub EXCEPT ![p] = new]
  BY <1>1, <1>2 DEF Renames, Tok
<1>4. /\ new.pc = "adapters" /\ new.env = hub[p].env /\ new.flag = hub[p].flag
      /\ new.cfg = [hub[p].cfg EXCEPT ![Tok] = token] /\ new.held = None
      /\ new.edition = hub[p].edition /\ new.orphan = hub[p].orphan
      /\ new \in [pc : Pcs, env : {new.env}, flag : {new.flag}, cfg : {new.cfg},
                 held : {new.held}, edition : {new.edition}, orphan : BOOLEAN]
  BY <1>1 DEF HubOK, Pcs
<1> HIDE DEF new, token
<1>5. /\ IsConfig(new.cfg) /\ new.cfg[Tok] = token
      /\ \A path \in Paths \ {Tok} : new.cfg[path] = hub[p].cfg[path]
  BY <1>1, <1>4, TokenFacts DEF HubOK, IsConfig
<1>6. HubOK(new)
  BY <1>1, <1>4, <1>5 DEF HubOK
<1>7. Valid(hub[p].cfg) => Valid(new.cfg)
  BY <1>5, TokenAside
<1>8. LoadedOK(new)
  BY <1>1, <1>4, <1>5, <1>7 DEF LoadedOK, Booted, Minting
<1>9. /\ hub' = [q \in Hubs |-> hub'[q]] /\ hub'[p] = new
      /\ \A q \in Hubs : q # p => hub'[q] = hub[q]
  BY <1>1, <1>3
<1>10. file' \in File /\ file'.token = token /\ file'.edition = hub[p].held.edition
  BY <1>1, <1>2 DEF File
<1>11. ShapeInv'
  BY <1>1, <1>2, <1>6, <1>9, <1>10 DEF ProcessInv, ShapeInv, history
<1>12. \A q \in Hubs : LoadedOK(hub'[q])
  BY <1>8, <1>9 DEF ProcessInv
<1>13. ASSUME ~ raced' PROVE TokenInv'
  <2>1. TokenInv
    BY <1>2, <1>13 DEF ProcessInv, history
  <2>2. hub[p].pc \in Minting /\ file.token = Absent
    BY <1>1, <2>1 DEF TokenInv, SomeoneMints, Minting
  <2>3. \A q \in Hubs : q # p => hub[q].pc \notin Minting
    BY <2>1, <2>2 DEF TokenInv
  <2>4. desk.pc \notin Minting
    BY <2>1, <2>2 DEF TokenInv
  <2>5. ~ SomeoneMints' /\ \A q \in Hubs : hub'[q].pc \notin Minting
    BY <1>2, <1>4, <1>9, <2>3, <2>4 DEF SomeoneMints, Minting
  <2>6. ASSUME NEW q \in Hubs PROVE HubTokens(hub'[q], token)
    <3>1. CASE q = p
      <4>1. hub[p].env[Tok] = Absent
        BY <1>1 DEF LoadedOK, Minting
      <4>2. token # Absent
        BY <1>1, TokenFacts
      <4> QED BY <1>4, <1>5, <1>9, <3>1, <4>1, <4>2 DEF HubTokens, First
    <3>2. CASE q # p
      BY <1>1, <1>9, <2>1, <2>2, <3>2, FirstTokenIsShared DEF TokenInv
    <3> QED BY <3>1, <3>2
  <2>7. desk.token \in {Absent, token} \cup EnvTokens
    BY <2>1, <2>2 DEF TokenInv
  <2> QED BY <1>2, <1>10, <2>5, <2>6, <2>7 DEF TokenInv
<1>14. ASSUME ~ clobbered' PROVE EditionInv'
  <2>1. EditionInv
    BY <1>2, <1>14 DEF ProcessInv, history
  <2>2. hub[p].held.edition = saved
    BY <1>1, <2>1, NoneAssumption DEF EditionInv
  <2> QED BY <1>2, <1>4, <1>9, <1>10, <2>1, <2>2 DEF EditionInv
<1>15. DeskInv'
  <2>1. \A q \in Sidecars : hub'[q].pc # "gone" => q = child \/ hub'[q].orphan
    BY <1>1, <1>4, <1>9 DEF ProcessInv, DeskInv, DesktopHasItsHub, Running, Hubs
  <2>2. ASSUME desk.pc = "open", ~ lost
        PROVE  \E q \in Hubs : HealthCheck(q)'
    <3>1. PICK q \in Hubs : HealthCheck(q)
      BY <2>2 DEF ProcessInv, DeskInv, DesktopHasItsHub
    <3>2. q # p /\ hub'[q] = hub[q]
      BY <1>1, <1>9, <3>1 DEF HealthCheck, Serving
    <3> QED BY <1>2, <3>1, <3>2 DEF HealthCheck, Serving, DeskPort
  <2> QED BY <1>2, <2>1, <2>2 DEF ProcessInv, DeskInv, DesktopHasItsHub, Running, history
<1> QED BY <1>11, <1>12, <1>13, <1>14, <1>15 DEF ProcessInv

LEMMA UserSavesKeepsProcessInv == ASSUME ProcessInv, UserSaves PROVE ProcessInv'
<1>1. /\ saved' = saved + 1 /\ file' = [file EXCEPT !.edition = saved']
      /\ clobbered' = (clobbered \/ SomeoneWrites)
      /\ UNCHANGED <<minted, hub, desk, child, crashes, raced, lost>>
  BY DEF UserSaves
<1>2. saved' \in DOMAIN Keys
  BY KeysAssumption DEF UserSaves, ProcessInv, ShapeInv
<1>3. file' \in File /\ file'.token = file.token /\ file'.edition = saved'
  BY <1>1, <1>2 DEF File, ProcessInv, ShapeInv
<1>4. ShapeInv'
  BY <1>1, <1>2, <1>3 DEF ProcessInv, ShapeInv
<1>5. \A p \in Hubs : LoadedOK(hub'[p])
  BY <1>1 DEF ProcessInv
<1>6. ~ raced' => TokenInv'
  BY <1>1, <1>3 DEF ProcessInv, TokenInv, SomeoneMints
<1>7. ASSUME ~ clobbered' PROVE EditionInv'
  <2>1. \A p \in Hubs : hub[p].held = None
    BY <1>1, <1>7 DEF SomeoneWrites, ProcessInv, ShapeInv, HubOK
  <2>2. desk.held = None
    BY <1>1, <1>7 DEF SomeoneWrites, ProcessInv, ShapeInv, DeskOK
  <2> QED BY <1>1, <1>3, <2>1, <2>2 DEF EditionInv
<1>8. DeskInv'
  BY <1>1 DEF ProcessInv, DeskInv, DesktopHasItsHub, HealthCheck, Serving, DeskPort, Running
<1> QED BY <1>4, <1>5, <1>6, <1>7, <1>8 DEF ProcessInv

-----------------------------------------------------------------------------
(* The steps of the desktop shell.                                         *)

\* What a step of the shell by itself has to establish.
LEMMA DeskStepKeepsProcessInv ==
    ASSUME ProcessInv, DeskOK(desk'),
           UNCHANGED <<file, saved, minted, hub, child, crashes, clobbered>>,
           raced' \in BOOLEAN, lost' \in BOOLEAN, ~ raced' => ~ raced,
           ~ raced' => /\ desk'.token \in {Absent, file.token} \cup EnvTokens
                       /\ desk'.pc \in Minting =>
                             \/ desk.pc \in Minting
                             \/ ~ SomeoneMints /\ file.token = Absent,
           ~ clobbered /\ desk'.held # None => desk'.held.edition = saved,
           child = None <=> desk'.pc \notin {"waiting", "open"},
           desk'.pc = "open" /\ ~ lost' => \E q \in Hubs : HealthCheck(q)'
    PROVE  ProcessInv'
<1>1. ShapeInv'
  BY DEF ProcessInv, ShapeInv
<1>2. \A q \in Hubs : LoadedOK(hub'[q])
  BY DEF ProcessInv
<1>3. ASSUME ~ raced' PROVE TokenInv'
  <2>1. TokenInv
    BY <1>3 DEF ProcessInv
  <2>2. ASSUME NEW q \in Hubs, hub[q].pc \in Minting PROVE desk'.pc \notin Minting
    BY <1>3, <2>1, <2>2 DEF TokenInv, SomeoneMints
  <2>3. SomeoneMints' => file.token = Absent
    BY <1>3, <2>1 DEF TokenInv, SomeoneMints
  <2> QED BY <1>3, <2>1, <2>2, <2>3 DEF TokenInv
<1>4. ASSUME ~ clobbered' PROVE EditionInv'
  BY <1>4 DEF ProcessInv, EditionInv
<1>5. DeskInv'
  BY DEF ProcessInv, DeskInv, DesktopHasItsHub, Running
<1> QED BY <1>1, <1>2, <1>3, <1>4, <1>5 DEF ProcessInv

LEMMA TheDesk ==
    ASSUME ProcessInv
    PROVE  /\ DeskOK(desk) /\ file \in File /\ raced \in BOOLEAN /\ lost \in BOOLEAN
           /\ child = None <=> desk.pc \notin {"waiting", "open"}
           /\ ~ raced => desk.token \in {Absent, file.token} \cup EnvTokens
           /\ ~ raced /\ desk.pc \in Minting => file.token = Absent
           /\ child \in Sidecars \cup {None} /\ None \notin Sidecars /\ Sidecars \subseteq Hubs
BY HubsAssumption
   DEF ProcessInv, ShapeInv, DeskInv, TokenInv, SomeoneMints, Hubs

LEMMA ClosedIsOK ==
    /\ DeskOK(Closed) /\ Closed.pc = "closed" /\ Closed.held = None /\ Closed.token = Absent
    /\ Closed.pc \notin Minting
BY NothingIsConfig DEF Closed, DeskOK, Minting

\* The shell gives up before it spawned anything.
LEMMA ClosesKeepsProcessInv ==
    ASSUME ProcessInv, desk.pc \notin {"waiting", "open"}, desk' = Closed,
           UNCHANGED <<file, saved, minted, hub, child, crashes, history>>
    PROVE  ProcessInv'
<1>1. raced \in BOOLEAN /\ lost \in BOOLEAN /\ child = None
  BY TheDesk
<1> QED BY <1>1, ClosedIsOK, DeskStepKeepsProcessInv DEF history

LEMMA DeskOpensKeepsProcessInv ==
    ASSUME ProcessInv, NEW env \in Environments, DeskOpens(env) PROVE ProcessInv'
<1>1. /\ desk'.pc = "resolving" /\ desk'.env = env /\ desk'.token = Absent
      /\ desk'.held = None
      /\ desk' \in [pc : {"resolving"}, env : {env}, token : {Absent}, held : {None}]
  BY DEF DeskOpens, Closed
<1>2. DeskOK(desk')
  BY <1>1, TokenFacts DEF DeskOK
<1>3. raced \in BOOLEAN /\ lost \in BOOLEAN /\ child = None
  BY TheDesk DEF DeskOpens
<1>4. desk'.pc \notin Minting
  BY <1>1 DEF Minting
<1> QED BY <1>1, <1>2, <1>3, <1>4, DeskStepKeepsProcessInv DEF DeskOpens, history

LEMMA ResolvesKeepsProcessInv == ASSUME ProcessInv, Resolves PROVE ProcessInv'
<1> DEFINE given == desk.env[Tok]
           token == IF given # Absent THEN given ELSE file.token
           next == IF token = Absent THEN "minting" ELSE "spawning"
<1>1. /\ desk.pc = "resolving" /\ DeskOK(desk) /\ child = None /\ desk.held = None
      /\ raced \in BOOLEAN /\ lost \in BOOLEAN
      /\ UNCHANGED <<file, saved, minted, hub, child, crashes, clobbered, lost>>
  BY TheDesk DEF Resolves, DeskOK
<1>2. CASE given = Absent /\ Unreadable
  <2>1. desk' = Closed /\ raced' = raced
    BY <1>2 DEF Resolves, Tok
  <2> QED BY <1>1, <2>1, ClosesKeepsProcessInv DEF history
<1>3. CASE ~ (given = Absent /\ Unreadable)
  <2>1. /\ desk' = [desk EXCEPT !.pc = next, !.token = token]
        /\ raced' = (raced \/ (next = "minting" /\ SomeoneMints))
    BY <1>3 DEF Resolves, Tok
  <2>2. given \in {Absent} \cup EnvTokens
    BY <1>1, TokenFacts DEF DeskOK
  <2>3. token \in {Absent, file.token} \cup EnvTokens /\ (token = Absent => file.token = Absent)
    BY <2>2
  <2> HIDE DEF token
  <2>4. next \in {"minting", "spawning"} /\ (next = "minting" => token = Absent)
    OBVIOUS
  <2> HIDE DEF next
  <2>5. /\ desk'.pc = next /\ desk'.env = desk.env /\ desk'.token = token
        /\ desk'.held = None
        /\ desk' \in [pc : {next}, env : {desk.env}, token : {token}, held : {None}]
    BY <1>1, <2>1 DEF DeskOK
  <2>6. DeskOK(desk')
    BY <1>1, <2>4, <2>5 DEF DeskOK
  <2>7. raced' \in BOOLEAN
    BY <1>1, <2>1
  <2>8. desk'.pc \in Minting => next = "minting"
    BY <2>4, <2>5 DEF Minting
  <2>9. ~ raced' => ~ raced /\ (desk'.pc \in Minting => ~ SomeoneMints /\ file.token = Absent)
    BY <2>1, <2>3, <2>4, <2>8
  <2>10. desk'.pc \notin {"waiting", "open"}
    BY <2>4, <2>5
  <2> QED BY <1>1, <2>3, <2>5, <2>6, <2>7, <2>9, <2>10, DeskStepKeepsProcessInv
<1> QED BY <1>2, <1>3

LEMMA ResolveReadsKeepsProcessInv == ASSUME ProcessInv, ResolveReads PROVE ProcessInv'
<1>1. /\ desk.pc = "minting" /\ DeskOK(desk) /\ child = None
      /\ raced \in BOOLEAN /\ lost \in BOOLEAN /\ file \in File
      /\ ~ raced => desk.token \in {Absent, file.token} \cup EnvTokens
      /\ UNCHANGED <<file, saved, minted, hub, child, crashes, history>>
  BY TheDesk DEF ResolveReads
<1>2. CASE Unreadable
  BY <1>1, <1>2, ClosesKeepsProcessInv DEF ResolveReads
<1>3. CASE ~ Unreadable
  <2>1. desk' = [desk EXCEPT !.pc = "writing", !.held = file]
    BY <1>3 DEF ResolveReads
  <2>2. /\ desk'.pc = "writing" /\ desk'.env = desk.env /\ desk'.token = desk.token
        /\ desk'.held = file
        /\ desk' \in [pc : {"writing"}, env : {desk.env}, token : {desk.token}, held : {file}]
    BY <1>1, <2>1 DEF DeskOK
  <2>3. DeskOK(desk')
    BY <1>1, <2>2 DEF DeskOK
  <2>4. ~ clobbered => desk'.held.edition = saved
    BY <2>2 DEF ProcessInv, EditionInv
  <2>5. desk.pc \in Minting
    BY <1>1 DEF Minting
  <2> QED BY <1>1, <2>2, <2>3, <2>4, <2>5, DeskStepKeepsProcessInv DEF history
<1> QED BY <1>2, <1>3

LEMMA HealthyKeepsProcessInv == ASSUME ProcessInv, Healthy PROVE ProcessInv'
<1>1. /\ desk.pc = "waiting" /\ DeskOK(desk) /\ child # None /\ desk.held = None
      /\ raced \in BOOLEAN
      /\ ~ raced => desk.token \in {Absent, file.token} \cup EnvTokens
      /\ desk' = [desk EXCEPT !.pc = "open"] /\ lost' = FALSE
      /\ UNCHANGED <<file, saved, minted, hub, child, crashes, raced, clobbered>>
  BY TheDesk DEF Healthy, DeskOK
<1>2. /\ desk'.pc = "open" /\ desk'.env = desk.env /\ desk'.token = desk.token
      /\ desk'.held = None
      /\ desk' \in [pc : {"open"}, env : {desk.env}, token : {desk.token}, held : {None}]
  BY <1>1 DEF DeskOK
<1>3. DeskOK(desk')
  BY <1>1, <1>2 DEF DeskOK
<1>4. \E q \in Hubs : HealthCheck(q)'
  BY <1>1, <1>2 DEF Healthy, HealthCheck, Serving, DeskPort
<1>5. desk'.pc \notin Minting
  BY <1>2 DEF Minting
<1> QED BY <1>1, <1>2, <1>3, <1>4, <1>5, DeskStepKeepsProcessInv

LEMMA DeskFailsKeepsProcessInv == ASSUME ProcessInv, DeskFails PROVE ProcessInv'
BY ClosesKeepsProcessInv DEF DeskFails

LEMMA ResolveRenamesKeepsProcessInv == ASSUME ProcessInv, ResolveRenames PROVE ProcessInv'
<1> DEFINE token == minted + 1
<1>1. /\ DeskOK(desk) /\ desk.pc = "writing" /\ desk.held \in File /\ child = None
      /\ minted \in Nat /\ token \in Nat
  BY TheDesk DEF ResolveRenames, DeskOK, ProcessInv, ShapeInv
<1>2. /\ minted' = token /\ file' = [desk.held EXCEPT !.token = token]
      /\ desk' = [desk EXCEPT !.pc = "spawning", !.held = None, !.token = token]
      /\ UNCHANGED <<saved, hub, child, crashes, history>>
  BY DEF ResolveRenames, Persist
<1> HIDE DEF token
<1>3. /\ desk'.pc = "spawning" /\ desk'.env = desk.env /\ desk'.token = token
      /\ desk'.held = None
      /\ desk' \in [pc : {"spawning"}, env : {desk.env}, token : {token}, held : {None}]
  BY <1>1, <1>2 DEF DeskOK
<1>4. DeskOK(desk')
  BY <1>1, <1>3 DEF DeskOK
<1>5. file' \in File /\ file'.token = token /\ file'.edition = desk.held.edition
  BY <1>1, <1>2 DEF File
<1>6. ShapeInv'
  BY <1>1, <1>2, <1>4, <1>5 DEF ProcessInv, ShapeInv, history
<1>7. \A q \in Hubs : LoadedOK(hub'[q])
  BY <1>2 DEF ProcessInv
<1>8. ASSUME ~ raced' PROVE TokenInv'
  <2>1. TokenInv
    BY <1>2, <1>8 DEF ProcessInv, history
  <2>2. desk.pc \in Minting /\ file.token = Absent
    BY <1>1, <2>1 DEF TokenInv, SomeoneMints, Minting
  <2>3. \A q \in Hubs : hub[q].pc \notin Minting
    BY <2>1, <2>2 DEF TokenInv
  <2>4. ~ SomeoneMints' /\ desk'.pc \notin Minting
    BY <1>2, <1>3, <2>3 DEF SomeoneMints, Minting
  <2>5. \A q \in Hubs : HubTokens(hub[q], token)
    BY <1>1, <2>1, <2>2, FirstTokenIsShared DEF TokenInv
  <2> QED BY <1>2, <1>3, <1>5, <2>3, <2>4, <2>5 DEF TokenInv
<1>9. ASSUME ~ clobbered' PROVE EditionInv'
  <2>1. EditionInv
    BY <1>2, <1>9 DEF ProcessInv, history
  <2>2. desk.held.edition = saved
    BY <1>1, <2>1, NoneAssumption DEF EditionInv
  <2> QED BY <1>2, <1>3, <1>5, <2>1, <2>2 DEF EditionInv
<1>10. DeskInv'
  BY <1>1, <1>2, <1>3 DEF ProcessInv, DeskInv, DesktopHasItsHub, Running
<1> QED BY <1>6, <1>7, <1>8, <1>9, <1>10 DEF ProcessInv

-----------------------------------------------------------------------------
(* The steps of the shell that concern its child.                          *)

LEMMA SpawnsKeepsProcessInv ==
    ASSUME ProcessInv, NEW p \in Sidecars, Spawns(p) PROVE ProcessInv'
<1> DEFINE env == [desk.env EXCEPT !["hubPort"] = DeskPort, ![Tok] = desk.token]
           new == [Gone EXCEPT !.pc = "loading", !.env = env]
<1>1. /\ p \in Hubs /\ p # None /\ child = None
      /\ DeskOK(desk) /\ desk.pc = "spawning" /\ desk.held = None
      /\ hub = [q \in Hubs |-> hub[q]] /\ hub[p].pc = "gone"
  BY TheDesk, OneHub DEF Spawns, DeskOK, Running
<1>2. /\ hub' = [hub EXCEPT ![p] = new] /\ child' = p
      /\ desk' = [desk EXCEPT !.pc = "waiting"]
      /\ UNCHANGED <<file, saved, minted, crashes, history>>
  BY DEF Spawns, Tok
<1>3. IsConfig(env) /\ env[Tok] = desk.token
  BY <1>1 DEF DeskOK, IsConfig, Paths, Tok
<1> HIDE DEF env
<1>4. /\ new.pc = "loading" /\ new.env = env /\ new.cfg = Nothing /\ new.held = None
      /\ new \in [pc : Pcs, env : {env}, flag : {new.flag}, cfg : {new.cfg},
                 held : {new.held}, edition : {new.edition}, orphan : BOOLEAN]
  BY DEF Gone, Pcs
<1> HIDE DEF new
<1>5. HubOK(new) /\ LoadedOK(new)
  BY <1>3, <1>4, NothingIsConfig, TokenFacts DEF HubOK, LoadedOK, Booted, Minting
<1>6. /\ desk'.pc = "waiting" /\ desk'.env = desk.env /\ desk'.token = desk.token
      /\ desk'.held = None
      /\ desk' \in [pc : {"waiting"}, env : {desk.env}, token : {desk.token}, held : {None}]
  BY <1>1, <1>2 DEF DeskOK
<1>7. DeskOK(desk')
  BY <1>1, <1>6 DEF DeskOK
<1>8. /\ hub' = [q \in Hubs |-> hub'[q]] /\ hub'[p] = new
      /\ \A q \in Hubs : q # p => hub'[q] = hub[q]
  BY <1>1, <1>2
<1>9. ShapeInv'
  BY <1>2, <1>5, <1>7, <1>8 DEF ProcessInv, ShapeInv, history
<1>10. \A q \in Hubs : LoadedOK(hub'[q])
  BY <1>5, <1>8 DEF ProcessInv
<1>11. ASSUME ~ raced' PROVE TokenInv'
  <2>1. TokenInv
    BY <1>2, <1>11 DEF ProcessInv, history
  <2>2. hub'[p].pc \notin Minting /\ desk'.pc \notin Minting
    BY <1>4, <1>6, <1>8 DEF Minting
  <2>3. \A q \in Hubs : hub'[q].pc \in Minting => hub'[q] = hub[q] /\ hub[q].pc \in Minting
    BY <1>8, <2>2
  <2>4. HubTokens(new, file.token)
    BY <1>3, <1>4, <2>1 DEF HubTokens, Booted, TokenInv
  <2>5. \A q \in Hubs : HubTokens(hub'[q], file.token)
    BY <1>8, <2>1, <2>4 DEF TokenInv
  <2>6. SomeoneMints' => file.token = Absent
    BY <2>1, <2>2, <2>3 DEF SomeoneMints, TokenInv
  <2>7. \A q, r \in Hubs : hub'[q].pc \in Minting /\ hub'[r].pc \in Minting => q = r
    BY <2>1, <2>3 DEF TokenInv
  <2> QED BY <1>2, <1>6, <2>1, <2>2, <2>5, <2>6, <2>7 DEF TokenInv, history
<1>12. ASSUME ~ clobbered' PROVE EditionInv'
  BY <1>2, <1>4, <1>6, <1>8, <1>12 DEF ProcessInv, EditionInv, history
<1>13. DeskInv'
  <2>1. \A q \in Sidecars : hub'[q].pc # "gone" => q = p \/ hub'[q].orphan
    BY <1>1, <1>8, TheDesk DEF ProcessInv, DeskInv, DesktopHasItsHub, Running, Hubs
  <2> QED BY <1>1, <1>2, <1>6, <2>1 DEF DeskInv, DesktopHasItsHub, Running
<1> QED BY <1>9, <1>10, <1>11, <1>12, <1>13 DEF ProcessInv

\* The shell closes and its child ends or is left to itself.
LEMMA LeavesKeepsProcessInv ==
    ASSUME ProcessInv, desk.pc \in {"waiting", "open"}, NEW new, HubOK(new), LoadedOK(new),
           hub' = [hub EXCEPT ![child] = new], desk' = Closed, child' = None,
           UNCHANGED <<file, saved, minted, raced, clobbered>>,
           crashes' \in 0..MaxCrashes, lost' \in BOOLEAN,
           ~ raced => HubTokens(new, file.token),
           new.pc \in Minting => hub[child].pc \in Minting,
           new.held \in {None, hub[child].held},
           new.pc # "gone" => new.orphan
    PROVE  ProcessInv'
<1>1. /\ child \in Hubs /\ child \in Sidecars
      /\ hub = [q \in Hubs |-> hub[q]]
  BY TheDesk, OneHub
<1>2. /\ hub' = [q \in Hubs |-> hub'[q]] /\ hub'[child] = new
      /\ \A q \in Hubs : q # child => hub'[q] = hub[q]
  BY <1>1
<1>3. ShapeInv'
  BY <1>1, <1>2, ClosedIsOK DEF ProcessInv, ShapeInv
<1>4. \A q \in Hubs : LoadedOK(hub'[q])
  BY <1>2 DEF ProcessInv
<1>5. ASSUME ~ raced' PROVE TokenInv'
  <2>1. TokenInv
    BY <1>5 DEF ProcessInv
  <2>2. \A q \in Hubs : hub'[q].pc \in Minting => hub[q].pc \in Minting
    BY <1>2
  <2>3. \A q \in Hubs : HubTokens(hub'[q], file.token)
    BY <1>2, <1>5, <2>1 DEF TokenInv
  <2>4. SomeoneMints' => file.token = Absent
    BY <2>1, <2>2, ClosedIsOK DEF SomeoneMints, TokenInv
  <2> QED BY <2>1, <2>2, <2>3, <2>4, ClosedIsOK DEF TokenInv
<1>6. ASSUME ~ clobbered' PROVE EditionInv'
  BY <1>1, <1>2, <1>6, ClosedIsOK DEF ProcessInv, EditionInv
<1>7. DeskInv'
  <2>1. \A q \in Sidecars : hub'[q].pc # "gone" => hub'[q].orphan
    BY <1>2 DEF ProcessInv, DeskInv, DesktopHasItsHub, Running, Hubs
  <2> QED BY <2>1, ClosedIsOK DEF DeskInv, DesktopHasItsHub, Running
<1> QED BY <1>3, <1>4, <1>5, <1>6, <1>7 DEF ProcessInv

LEMMA StopsKeepsProcessInv == ASSUME ProcessInv, TimesOut \/ Quits PROVE ProcessInv'
<1>1. /\ desk.pc \in {"waiting", "open"} /\ stop_hub_sidecar /\ desk' = Closed
      /\ UNCHANGED <<file, saved, minted, crashes, raced, clobbered>>
  BY DEF TimesOut, Quits
<1>2. child # None /\ lost \in BOOLEAN /\ crashes \in 0..MaxCrashes
  BY <1>1, TheDesk DEF ProcessInv, ShapeInv
<1>3. /\ hub' = [hub EXCEPT ![child] = Gone] /\ child' = None
      /\ lost' \in BOOLEAN
  BY <1>1, <1>2 DEF stop_hub_sidecar, Ends
<1>4. HubOK(Gone) /\ LoadedOK(Gone) /\ HubTokens(Gone, file.token)
      /\ Gone.pc = "gone" /\ Gone.held = None /\ Gone.pc \notin Minting
  BY NothingIsConfig, TokenFacts
     DEF Gone, HubOK, Pcs, LoadedOK, Booted, Minting, HubTokens
<1> QED BY <1>1, <1>2, <1>3, <1>4, LeavesKeepsProcessInv

LEMMA DeskDiesKeepsProcessInv == ASSUME ProcessInv, DeskDies PROVE ProcessInv'
<1>1. /\ desk.pc \in {"waiting", "open"} /\ desk' = Closed /\ child' = None
      /\ crashes' = crashes + 1 /\ crashes < MaxCrashes
      /\ UNCHANGED <<file, saved, minted, history>>
  BY DEF DeskDies
<1>2. /\ child \in Hubs /\ HubOK(hub[child]) /\ LoadedOK(hub[child])
      /\ ~ raced => HubTokens(hub[child], file.token)
      /\ hub = [q \in Hubs |-> hub[q]] /\ lost \in BOOLEAN
  <2>1. child \in Hubs
    BY <1>1, TheDesk
  <2> QED BY <2>1, OneHub
<1>3. crashes' \in 0..MaxCrashes
  BY <1>1, CrashesAssumption DEF ProcessInv, ShapeInv
<1>4. CASE ~ Running(child)
  <2>1. hub' = [hub EXCEPT ![child] = hub[child]]
    BY <1>2, <1>4 DEF DeskDies
  <2>2. hub[child].pc = "gone"
    BY <1>4 DEF Running
  <2> QED BY <1>1, <1>2, <1>3, <2>1, <2>2, LeavesKeepsProcessInv DEF history
<1>5. CASE Running(child)
  <2> DEFINE new == [hub[child] EXCEPT !.orphan = TRUE]
  <2>1. hub' = [hub EXCEPT ![child] = new]
    BY <1>2, <1>5 DEF DeskDies
  <2>2. /\ new.pc = hub[child].pc /\ new.env = hub[child].env /\ new.flag = hub[child].flag
        /\ new.cfg = hub[child].cfg /\ new.held = hub[child].held
        /\ new.edition = hub[child].edition /\ new.orphan = TRUE
        /\ new \in [pc : Pcs, env : {new.env}, flag : {new.flag}, cfg : {new.cfg},
                   held : {new.held}, edition : {new.edition}, orphan : BOOLEAN]
    BY <1>2 DEF HubOK
  <2> HIDE DEF new
  <2>3. HubOK(new) /\ LoadedOK(new)
    BY <1>2, <2>2 DEF HubOK, LoadedOK
  <2>4. ~ raced => HubTokens(new, file.token)
    BY <1>2, <2>2 DEF HubTokens
  <2> QED BY <1>1, <1>2, <1>3, <2>1, <2>2, <2>3, <2>4, LeavesKeepsProcessInv DEF history
<1> QED BY <1>4, <1>5

-----------------------------------------------------------------------------
(* The theorems.                                                           *)

LEMMA NextKeepsProcessInv == ProcessInv /\ [ProcessNext]_vars => ProcessInv'
<1> SUFFICES ASSUME ProcessInv, [ProcessNext]_vars PROVE ProcessInv'
  OBVIOUS
<1>1. ASSUME NEW p \in Hubs, Boots(p) PROVE ProcessInv'
  BY <1>1, LoadsKeepsProcessInv, ReadsAgainKeepsProcessInv, RenamesKeepsProcessInv,
     AdaptersStartedKeepsProcessInv, ListensKeepsProcessInv DEF Boots
<1>2. ASSUME NEW p \in Hubs, Dies(p) PROVE ProcessInv'
  BY <1>2, DiesKeepsProcessInv
<1>3. CASE \E p \in Commands, env \in Environments, flag \in Flags : HubStarts(p, env, flag)
  BY <1>3, HubStartsKeepsProcessInv
<1>4. CASE \E env \in Environments : DeskOpens(env)
  BY <1>4, DeskOpensKeepsProcessInv
<1>5. CASE Opens
  BY <1>5, ResolvesKeepsProcessInv, ResolveReadsKeepsProcessInv,
     ResolveRenamesKeepsProcessInv, SpawnsKeepsProcessInv, StopsKeepsProcessInv DEF Opens
<1>6. CASE Healthy \/ Quits \/ DeskFails \/ DeskDies
  BY <1>6, HealthyKeepsProcessInv, StopsKeepsProcessInv, DeskFailsKeepsProcessInv,
     DeskDiesKeepsProcessInv
<1>7. CASE UserSaves
  BY <1>7, UserSavesKeepsProcessInv
<1>8. CASE UNCHANGED vars
  <2>1. UNCHANGED <<file, saved, minted, hub, desk, child, crashes, raced, clobbered, lost>>
    BY <1>8 DEF vars
  <2>2. ShapeInv' /\ (EditionInv => EditionInv')
    BY <2>1 DEF ProcessInv, ShapeInv, EditionInv
  <2>3. TokenInv => TokenInv'
    BY <2>1 DEF TokenInv, SomeoneMints
  <2>4. DeskInv'
    BY <2>1 DEF ProcessInv, DeskInv, DesktopHasItsHub, HealthCheck, Serving, DeskPort, Running
  <2> QED BY <2>1, <2>2, <2>3, <2>4 DEF ProcessInv
<1> QED BY <1>1, <1>2, <1>3, <1>4, <1>5, <1>6, <1>7, <1>8 DEF ProcessNext

\* The inductive invariant holds throughout every behaviour.
THEOREM ProcessInvariant == ProcessSpec => []ProcessInv
<1> QED BY InitEstablishesProcessInv, NextKeepsProcessInv, PTL DEF ProcessSpec

\* One token for the machine, whatever Hubs boot, die and boot again beside
\* the shell, unless two first boots overlapped (ADR-0023; ensureHubToken in
\* cli.ts, persistHubToken in config.ts, resolve_hub_token in main.rs).
THEOREM TokenIsOne == ProcessSpec => []TokenIsShared
<1>1. ASSUME ProcessInv PROVE ProcessTypeOK
  <2>1. file.edition \in DOMAIN Keys /\ file.token \in Nat \cup {Absent}
    BY <1>1 DEF ProcessInv, ShapeInv, File
  <2>2. \A p \in Hubs : /\ hub[p].pc \in Pcs /\ hub[p].orphan \in BOOLEAN
                        /\ hub[p].held = None <=> hub[p].pc # "writing"
    BY <1>1, NoneAssumption DEF ProcessInv, ShapeInv, HubOK
  <2>3. /\ desk.pc \in {"closed", "resolving", "minting", "writing", "spawning",
                        "waiting", "open"}
        /\ desk.held = None <=> desk.pc # "writing"
    BY <1>1, NoneAssumption DEF ProcessInv, ShapeInv, DeskOK
  <2> QED BY <1>1, <2>1, <2>2, <2>3 DEF ProcessInv, ShapeInv, ProcessTypeOK
<1>2. ASSUME ProcessInv, ~ raced, NEW p \in Hubs
      PROVE  hub[p].cfg[Tok] \in {Absent, file.token} \cup EnvTokens
  <2>1. HubTokens(hub[p], file.token) /\ LoadedOK(hub[p])
    BY <1>2 DEF ProcessInv, TokenInv
  <2> QED BY <2>1 DEF HubTokens, LoadedOK, First
<1>3. ASSUME ProcessInv, ~ raced, NEW p \in Serving,
             hub[p].edition = file.edition, ~ ServesTls(hub[p].cfg)
      PROVE  RelayReaches(p, hub[p].env) <=> ~ ServesByFlagOnly(p)
  <2> DEFINE cfg == loadConfig(Parsed, hub[p].env, Absent)
             own == hub[p].cfg
             edition == Keys[file.edition]
  <2>1. p \in Hubs /\ hub[p].pc \in Booted
    BY DEF Serving, Booted
  <2>2. LoadedOK(hub[p]) /\ HubTokens(hub[p], file.token)
    BY <1>3, <2>1 DEF ProcessInv, TokenInv
  <2>3. /\ file.edition \in DOMAIN Keys /\ edition # Broken /\ Valid(own)
        /\ \A path \in Paths \ {Tok} :
              own[path] = Effective(edition, hub[p].env, hub[p].flag, path)
        /\ own[Tok] = First(hub[p].env[Tok], file.token)
    BY <1>3, <2>1, <2>2 DEF LoadedOK, HubTokens
  <2>4. ~ Unreadable /\ file \in File
    BY <1>3, <2>3 DEF Unreadable, ProcessInv, ShapeInv
  <2>5. /\ IsConfig(Parsed) /\ Parsed[Tok] = file.token
        /\ \A path \in Paths \ {Tok} : Parsed[path] = edition[path]
    BY <2>4, ParsedFile
  <2>6. \A path \in Paths : cfg[path] = Effective(Parsed, hub[p].env, Absent, path)
    BY <2>5, SettingsAreLayered
  <2> HIDE DEF cfg, own, edition
  <2>7. /\ \A path \in Paths \ {Tok} :
              cfg[path] = Effective(edition, hub[p].env, Absent, path)
        /\ cfg[Tok] = own[Tok]
    <3>1. /\ \A path \in Paths \ {Tok} :
                Effective(Parsed, hub[p].env, Absent, path)
                   = Effective(edition, hub[p].env, Absent, path)
          /\ Effective(Parsed, hub[p].env, Absent, Tok) = First(hub[p].env[Tok], file.token)
      BY <2>5, EffectiveTokenAside
    <3> QED BY <2>3, <2>6, <3>1, TokenFacts
  <2>8. ASSUME NEW path \in Paths \ {Tok, "mock", "voice.mock", "intent.mock"}
        PROVE  cfg[path] = own[path]
    <3>1. Effective(edition, hub[p].env, Absent, path)
             = Effective(edition, hub[p].env, hub[p].flag, path)
      <4>1. CASE path = "github.allowlist"
        BY <4>1 DEF Effective
      <4>2. CASE path # "github.allowlist"
        BY <4>2 DEF Effective
      <4> QED BY <4>1, <4>2
    <3> QED BY <2>3, <2>7, <3>1
  <2> DEFINE Own(path) == First(hub[p].env[path], Parsed[path])
             FlagOnly(s) == /\ Own(s.enabled) = TRUE /\ Own(s.endpoints) = NoEndpoints
                            /\ Own(s.mock) = Absent /\ Own("mock") # TRUE
  <2>9. ASSUME NEW s \in Services
        PROVE  HasItsEndpoints(cfg, s) <=> ~ FlagOnly(s)
    <3>1. /\ s.enabled \in Paths \ {Tok, "mock", "voice.mock", "intent.mock", "github.allowlist"}
          /\ s.endpoints \in Paths \ {Tok, "mock", "voice.mock", "intent.mock", "github.allowlist"}
          /\ s.mock \in {"voice.mock", "intent.mock"} /\ s.mock \in Paths \ {Tok}
          /\ "mock" \in Paths \ {Tok}
      BY DEF Services, Service, Paths, Tok
    <3>2. HasItsEndpoints(own, s)
      BY <2>3 DEF Valid
    <3>3. cfg[s.enabled] = own[s.enabled] /\ cfg[s.endpoints] = own[s.endpoints]
      BY <2>8, <3>1
    <3>4. cfg[s.enabled] = Own(s.enabled) /\ cfg[s.endpoints] = Own(s.endpoints)
      <4>1. \A path \in {s.enabled, s.endpoints} :
               cfg[path] = First(hub[p].env[path], Parsed[path])
        BY <2>6, <3>1 DEF Effective
      <4> QED BY <4>1
    <3>5. cfg[s.mock] = First(Own(s.mock), IF Own("mock") = TRUE THEN TRUE ELSE Absent)
      BY <2>6, <3>1 DEF Effective, First
    <3>6. own[s.mock] = TRUE /\ cfg[s.mock] # TRUE => Own(s.mock) = Absent
      BY <2>3, <2>5, <3>1, <3>5 DEF Effective, First
    <3> HIDE DEF Own
    <3>7. ASSUME FlagOnly(s) PROVE ~ HasItsEndpoints(cfg, s)
      BY <3>4, <3>5, <3>7, AbsentAssumption DEF HasItsEndpoints, First
    <3>8. ASSUME ~ HasItsEndpoints(cfg, s) PROVE FlagOnly(s)
      <4>1. cfg[s.enabled] = TRUE /\ cfg[s.mock] # TRUE /\ cfg[s.endpoints] = NoEndpoints
        BY <3>8 DEF HasItsEndpoints
      <4>2. own[s.mock] = TRUE
        BY <3>2, <3>3, <4>1 DEF HasItsEndpoints
      <4>3. Own(s.mock) = Absent
        BY <3>6, <4>1, <4>2
      <4>4. Own("mock") # TRUE
        BY <3>5, <4>1, <4>3 DEF First
      <4> QED BY <3>4, <4>1, <4>3, <4>4
    <3> QED BY <3>7, <3>8
  <2>10. ServesByFlagOnly(p) <=> \E s \in Services : FlagOnly(s)
    BY DEF ServesByFlagOnly
  <2>11. /\ Has(cfg, "github") <=> Has(own, "github")
         /\ cfg["github.token"] = own["github.token"]
         /\ cfg["tls.certPath"] = own["tls.certPath"]
         /\ cfg["tls.keyPath"] = own["tls.keyPath"] /\ PortOf(cfg) = PortOf(own)
    BY <2>8 DEF Has, Section, PortOf, Paths, Tok
  <2>12. Valid(cfg) <=> ~ ServesByFlagOnly(p)
    BY <2>3, <2>9, <2>10, <2>11 DEF Valid
  <2> QED BY <1>3, <2>4, <2>7, <2>11, <2>12 DEF RelayReaches, cfg, own, Tok
<1>4. ASSUME ProcessInv PROVE file.token \notin EnvTokens
  BY <1>4, TokenFacts DEF ProcessInv, ShapeInv, File
<1>5. ASSUME ProcessInv PROVE TokenIsShared
  <2>1. ~ raced => desk.token \in {Absent, file.token} \cup EnvTokens
    BY <1>5, TheDesk
  <2>2. ~ clobbered => file.edition = saved
    BY <1>5 DEF ProcessInv, EditionInv
  <2> QED BY <1>1, <1>2, <1>3, <1>4, <1>5, <2>1, <2>2 DEF TokenIsShared, Tok
<1> QED BY <1>5, ProcessInvariant, PTL

\* The window opens on a Hub that takes its token, and only a shell that
\* crashed leaves a sidecar behind (wait_for_hub and stop_hub_sidecar in main.rs).
THEOREM WindowHasItsHub == ProcessSpec => []DesktopHasItsHub
<1>1. ProcessInv => DesktopHasItsHub
  BY DEF ProcessInv, DeskInv
<1> QED BY <1>1, ProcessInvariant, PTL

=============================================================================
