----------------------------- MODULE HubProcess -----------------------------
(***************************************************************************)
(* The processes of one machine and the config file they share: the Hub    *)
(* as `aspex hub` runs it (apps/hub cli.ts, boot.ts, config.ts), from a    *)
(* terminal or as the sidecar of the desktop shell (apps/desktop main.rs), *)
(* the shell itself, the user's editor, and the hooks' relay.              *)
(*                                                                         *)
(* Whoever finds no token in the file makes one and writes it back: a      *)
(* second read, then the rename of a temporary file, with the others free  *)
(* to act in between.  A process can be killed at every step.              *)
(***************************************************************************)
EXTENDS Naturals, Sequences, FiniteSets, HubConfig

CONSTANTS
    Sidecars, Commands,   \* the processes the shell spawns, those a user starts
    None,
    Keys,                 \* the user's editions of the file, in the order they are saved
    Broken,               \* an edition that does not parse
    Environments, Flags,  \* what a process may be started with
    MaxCrashes            \* bound on crashes of the shell

Hubs == Sidecars \cup Commands
EnvTokens == {env["auth.token"] : env \in Environments} \ {Absent}

ASSUME HubsAssumption == Sidecars \cap Commands = {} /\ None \notin Hubs
ASSUME CrashesAssumption == MaxCrashes \in Nat
ASSUME SlotsAssumption == IsFiniteSet(Sidecars) /\ Cardinality(Sidecars) > MaxCrashes
ASSUME KeysAssumption ==
    /\ Len(Keys) \in Nat \ {0} /\ DOMAIN Keys = 1..Len(Keys)
    /\ \A i \in DOMAIN Keys : Keys[i] # Broken =>
          IsConfig(Keys[i]) /\ Keys[i]["auth.token"] = Absent
ASSUME EnvironmentsAssumption == \A env \in Environments : IsConfig(env)
ASSUME TokensAssumption == EnvTokens \cap Nat = {} /\ Absent \notin Nat

File == [edition : DOMAIN Keys, token : Nat \cup {Absent}]

ASSUME NoneAssumption == None \notin File

VARIABLES
    file,     \* its edition, and the token merged into it
    saved,    \* the newest edition the user saved
    minted,   \* the tokens generated so far, numbered
    hub,      \* per process, how far its boot is
    desk,     \* the shell
    child,    \* HubSidecarState.child
    crashes,
    raced, clobbered, lost   \* history: see the actions that set them

vars == <<file, saved, minted, hub, desk, child, crashes, raced, clobbered, lost>>
history == <<raced, clobbered, lost>>

Gone == [pc |-> "gone", env |-> Nothing, flag |-> Absent, cfg |-> Nothing,
         held |-> None, edition |-> 0, orphan |-> FALSE]
Closed == [pc |-> "closed", env |-> Nothing, token |-> Absent, held |-> None]

Running(p) == hub[p].pc # "gone"
Serving == {p \in Hubs : hub[p].pc = "serving"}

\* What a process reads: the edition with the token merged into it.
Parsed == [Keys[file.edition] EXCEPT !["auth.token"] = file.token]
Unreadable == Keys[file.edition] = Broken

ProcessInit ==
    /\ file = [edition |-> 1, token |-> Absent]
    /\ saved = 1 /\ minted = 0
    /\ hub = [p \in Hubs |-> Gone]
    /\ desk = Closed /\ child = None
    /\ crashes = 0
    /\ raced = FALSE /\ clobbered = FALSE /\ lost = FALSE

-----------------------------------------------------------------------------
(* The first boot: who finds no token makes one.                           *)

Minting == {"minting", "writing"}

SomeoneMints == desk.pc \in Minting \/ \E p \in Hubs : hub[p].pc \in Minting

SomeoneWrites == desk.pc = "writing" \/ \E p \in Hubs : hub[p].pc = "writing"

\* The write replaces the file as it was read, with the new token.
Persist(held) ==
    /\ minted' = minted + 1
    /\ file' = [held EXCEPT !.token = minted']

\* A mutant: what is written is what the boot loaded, not what is there now.
HoldsWhatItLoaded(p) == [edition |-> hub[p].edition, token |-> Absent]

Rereads(p) == file

-----------------------------------------------------------------------------
(* A Hub.                                                                  *)

Ends(p) == [hub EXCEPT ![p] = Gone]
Goes(p, pc) == [hub EXCEPT ![p].pc = pc]

HubStarts(p, env, flag) ==
    /\ p \in Commands /\ ~ Running(p)
    /\ hub' = [hub EXCEPT ![p] = [Gone EXCEPT !.pc = "loading", !.env = env, !.flag = flag]]
    /\ UNCHANGED <<file, saved, minted, desk, child, crashes, history>>

\* loadConfig and ensureHubToken; with a token, buildHub and the start go on at once.
Loads(p) ==
    /\ hub[p].pc = "loading"
    /\ IF Unreadable THEN hub' = Ends(p) /\ UNCHANGED raced
       ELSE \E cfg \in {loadConfig(Parsed, hub[p].env, hub[p].flag)} :
            LET next == IF cfg["auth.token"] = Absent THEN "minting" ELSE "adapters"
            IN  IF ~ Valid(cfg) THEN hub' = Ends(p) /\ UNCHANGED raced
                ELSE /\ hub' = [hub EXCEPT ![p].pc = next, ![p].cfg = cfg,
                                           ![p].edition = file.edition]
                     /\ raced' = (raced \/ (next = "minting" /\ SomeoneMints))
    /\ UNCHANGED <<file, saved, minted, desk, child, crashes, clobbered, lost>>

\* persistHubToken reads the file again.
ReadsAgain(p) ==
    /\ hub[p].pc = "minting"
    /\ hub' = IF Unreadable THEN Ends(p)
              ELSE [hub EXCEPT ![p].pc = "writing", ![p].held = Rereads(p)]
    /\ UNCHANGED <<file, saved, minted, desk, child, crashes, history>>

Renames(p) ==
    /\ hub[p].pc = "writing"
    /\ Persist(hub[p].held)
    /\ hub' = [hub EXCEPT ![p].pc = "adapters", ![p].held = None,
                          ![p].cfg["auth.token"] = minted']
    /\ UNCHANGED <<saved, desk, child, crashes, history>>

\* registry.startAll waited for GitHub's first poll, orchestrators.startAll waits
\* for that of Giles.
AdaptersStarted(p) ==
    /\ hub[p].pc = "adapters"
    /\ hub' = Goes(p, "orchestrators")
    /\ UNCHANGED <<file, saved, minted, desk, child, crashes, history>>

Taken(port) == \E q \in Serving : PortOf(hub[q].cfg) = port

\* The ticker starts and Bun.serve binds, or throws and the process ends.
Listens(p) ==
    /\ hub[p].pc = "orchestrators"
    /\ hub' = IF Taken(PortOf(hub[p].cfg)) THEN Ends(p) ELSE Goes(p, "serving")
    /\ UNCHANGED <<file, saved, minted, desk, child, crashes, history>>

\* A step of the boot throws, or a signal, or a crash.
Dies(p) ==
    /\ Running(p)
    /\ hub' = Ends(p)
    /\ lost' = (lost \/ p \in Serving)
    /\ UNCHANGED <<file, saved, minted, desk, child, crashes, raced, clobbered>>

\* Where the relay of a hook posts, in an environment: http, with the loaded token.
RelayReaches(p, env) ==
    LET cfg == loadConfig(Parsed, env, Absent)
    IN  /\ ~ Unreadable /\ Valid(cfg)
        /\ PortOf(cfg) = PortOf(hub[p].cfg)
        /\ cfg["auth.token"] = hub[p].cfg["auth.token"]
        /\ ~ ServesTls(hub[p].cfg)

-----------------------------------------------------------------------------
(* The desktop shell.                                                      *)

DeskPort == PortOf(desk.env)

\* health_check: whoever listens there in plain HTTP and takes the token.
HealthCheck(q) ==
    /\ q \in Serving
    /\ PortOf(hub[q].cfg) = DeskPort
    /\ ~ ServesTls(hub[q].cfg)
    /\ hub[q].cfg["auth.token"] = desk.token

stop_hub_sidecar ==
    /\ hub' = IF child = None THEN hub ELSE Ends(child)
    /\ lost' = (lost \/ child \in Serving)
    /\ child' = None

DeskOpens(env) ==
    /\ desk.pc = "closed"
    /\ desk' = [Closed EXCEPT !.pc = "resolving", !.env = env]
    /\ UNCHANGED <<file, saved, minted, hub, child, crashes, history>>

\* resolve_hub_token: the environment's, else the file's, else a new one.
Resolves ==
    /\ desk.pc = "resolving"
    /\ LET given == desk.env["auth.token"]
           token == IF given # Absent THEN given ELSE file.token
           next == IF token = Absent THEN "minting" ELSE "spawning"
       IN  IF given = Absent /\ Unreadable
           THEN desk' = Closed /\ UNCHANGED raced
           ELSE /\ desk' = [desk EXCEPT !.pc = next, !.token = token]
                /\ raced' = (raced \/ (next = "minting" /\ SomeoneMints))
    /\ UNCHANGED <<file, saved, minted, hub, child, crashes, clobbered, lost>>

ResolveReads ==
    /\ desk.pc = "minting"
    /\ desk' = IF Unreadable THEN Closed ELSE [desk EXCEPT !.pc = "writing", !.held = file]
    /\ UNCHANGED <<file, saved, minted, hub, child, crashes, history>>

ResolveRenames ==
    /\ desk.pc = "writing"
    /\ Persist(desk.held)
    /\ desk' = [desk EXCEPT !.pc = "spawning", !.held = None, !.token = minted']
    /\ UNCHANGED <<saved, hub, child, crashes, history>>

\* start_hub_sidecar: the child inherits the environment, with the port and the token.
Spawns(p) ==
    /\ desk.pc = "spawning"
    /\ p \in Sidecars /\ ~ Running(p)
    /\ hub' = [hub EXCEPT ![p] =
                  [Gone EXCEPT !.pc = "loading",
                               !.env = [desk.env EXCEPT !["hubPort"] = DeskPort,
                                                        !["auth.token"] = desk.token]]]
    /\ child' = p
    /\ desk' = [desk EXCEPT !.pc = "waiting"]
    /\ UNCHANGED <<file, saved, minted, crashes, history>>

\* wait_for_hub.
Healthy ==
    /\ desk.pc = "waiting"
    /\ \E q \in Hubs : HealthCheck(q)
    /\ desk' = [desk EXCEPT !.pc = "open"]
    /\ lost' = FALSE
    /\ UNCHANGED <<file, saved, minted, hub, child, crashes, raced, clobbered>>

\* A mutant: the error is returned before the sidecar is stopped.
GivesUpAtOnce ==
    /\ desk.pc = "waiting"
    /\ desk' = Closed /\ child' = None
    /\ UNCHANGED <<file, saved, minted, hub, crashes, history>>

\* A mutant: it waits for as long as the sidecar runs.
WaitsForTheSidecar ==
    /\ desk.pc = "waiting" /\ ~ Running(child)
    /\ stop_hub_sidecar
    /\ desk' = Closed
    /\ UNCHANGED <<file, saved, minted, crashes, raced, clobbered>>

TimesOut ==
    /\ desk.pc = "waiting"
    /\ stop_hub_sidecar
    /\ desk' = Closed
    /\ UNCHANGED <<file, saved, minted, crashes, raced, clobbered>>

Quits ==
    /\ desk.pc = "open"
    /\ stop_hub_sidecar
    /\ desk' = Closed
    /\ UNCHANGED <<file, saved, minted, crashes, raced, clobbered>>

\* The file cannot be read or written, or the sidecar cannot be spawned.
DeskFails ==
    /\ desk.pc \in {"resolving", "minting", "writing", "spawning"}
    /\ desk' = Closed
    /\ UNCHANGED <<file, saved, minted, hub, child, crashes, history>>

\* The shell crashes; a child is left to itself.
DeskDies ==
    /\ desk.pc \in {"waiting", "open"} /\ crashes < MaxCrashes
    /\ crashes' = crashes + 1
    /\ desk' = Closed /\ child' = None
    /\ hub' = IF Running(child) THEN [hub EXCEPT ![child].orphan = TRUE] ELSE hub
    /\ UNCHANGED <<file, saved, minted, history>>

-----------------------------------------------------------------------------
\* The user saves the next edition, around the token that is there.
UserSaves ==
    /\ saved < Len(Keys)
    /\ saved' = saved + 1
    /\ file' = [file EXCEPT !.edition = saved']
    /\ clobbered' = (clobbered \/ SomeoneWrites)
    /\ UNCHANGED <<minted, hub, desk, child, crashes, raced, lost>>

Boots(p) == Loads(p) \/ ReadsAgain(p) \/ Renames(p) \/ AdaptersStarted(p) \/ Listens(p)

Opens == Resolves \/ ResolveReads \/ ResolveRenames \/ (\E p \in Sidecars : Spawns(p)) \/ TimesOut

ProcessNext ==
    \/ \E p \in Hubs : Boots(p) \/ Dies(p)
    \/ \E p \in Commands, env \in Environments, flag \in Flags : HubStarts(p, env, flag)
    \/ \E env \in Environments : DeskOpens(env)
    \/ Opens \/ Healthy \/ Quits \/ DeskFails \/ DeskDies
    \/ UserSaves

\* The operating system runs both programs, a first poll returns or fails, and
\* the shell's fifteen seconds pass.
ProcessFairness == WF_vars(Opens) /\ \A p \in Hubs : WF_vars(Boots(p))

ProcessSpec == ProcessInit /\ [][ProcessNext]_vars /\ ProcessFairness

-----------------------------------------------------------------------------
Pcs == {"gone", "loading", "minting", "writing", "adapters", "orchestrators", "serving"}

ProcessTypeOK ==
    /\ file.edition \in DOMAIN Keys /\ file.token \in Nat \cup {Absent}
    /\ saved \in DOMAIN Keys /\ minted \in Nat
    /\ \A p \in Hubs : /\ hub[p].pc \in Pcs /\ hub[p].orphan \in BOOLEAN
                       /\ hub[p].held = None <=> hub[p].pc # "writing"
    /\ desk.pc \in {"closed", "resolving", "minting", "writing", "spawning", "waiting", "open"}
    /\ desk.held = None <=> desk.pc # "writing"
    /\ child \in Sidecars \cup {None} /\ crashes \in 0..MaxCrashes
    /\ raced \in BOOLEAN /\ clobbered \in BOOLEAN /\ lost \in BOOLEAN

\* A Hub whose settings are valid only because --mock makes a mock of a service
\* without endpoints.
ServesByFlagOnly(p) ==
    LET Given(path) == First(hub[p].env[path], Parsed[path])
    IN  \E s \in Services : /\ Given(s.enabled) = TRUE /\ Given(s.endpoints) = NoEndpoints
                            /\ Given(s.mock) = Absent /\ Given("mock") # TRUE

\* One token (ADR-0023).  Unless two first boots overlapped, the Hubs, the
\* shell and the file agree on the token, so that a hook's relay reaches a Hub
\* started in its environment with the same edition of the file - all but those
\* that owe their validity to --mock, which no relay is given and which it never
\* reaches; a token given by the environment is never written; and unless the
\* user saved while a token was being written, nothing they saved is lost.
TokenIsShared ==
    /\ ProcessTypeOK
    /\ ~ raced =>
        /\ \A p \in Hubs : hub[p].cfg["auth.token"] \in {Absent, file.token} \cup EnvTokens
        /\ desk.token \in {Absent, file.token} \cup EnvTokens
        /\ \A p \in Serving : hub[p].edition = file.edition /\ ~ ServesTls(hub[p].cfg)
                                => (RelayReaches(p, hub[p].env) <=> ~ ServesByFlagOnly(p))
    /\ file.token \notin EnvTokens
    /\ ~ clobbered => file.edition = saved

\* The shell's window opens on a Hub that takes its token, which stays until a
\* Hub ends; and no sidecar outlives a shell that closed or gave up, only one
\* that crashed ("leaves no orphan process", docs/HANDOFF.md).
DesktopHasItsHub ==
    /\ desk.pc = "open" /\ ~ lost => \E q \in Hubs : HealthCheck(q)
    /\ \A p \in Sidecars : Running(p) => p = child \/ hub[p].orphan

\* A launch comes to an end: the shell opens or closes, the Hub serves or is gone.
LaunchesSettle ==
    /\ []<>(desk.pc \in {"open", "closed"})
    /\ \A p \in Hubs : []<>(hub[p].pc \in {"serving", "gone"})
=============================================================================
