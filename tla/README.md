# Aspex Hub: models, checks and proofs

Aspex is a local Hub that shows one person what their coding agents, pull
requests and orchestrated tasks need from them, and carries their answers back.
Adapters turn what tools report into *signals*; the Hub stores *items*, ranks
them, lets their trustworthiness age, and streams the world to displays; actions
and spoken commands flow the other way, through an idempotency ledger and a
confirmation gate, to GitHub or to the inbox of an orchestrator (Giles).

This directory holds TLA+ models of that system, TLC configurations that check
them on small instances, and TLAPS proofs of theorems about them. `PROJECT.json`
maps every modelling definition to its source lines.

    tlc -workers 2 -config IntentLedger.cfg IntentLedger     # a run
    tlapm IntentLedgerProofs.tla                             # a proof

## 1. The system

| Component (source) | State | Operations | Interacts with | What is hard |
|---|---|---|---|---|
| Intent ledger (`apps/hub/src/http/intentLedger.ts`) | LRU Map of recorded successes, promises in flight | `execute`, `get`, `record` | the routes of `server.ts` | two requests around one await, work that throws, eviction |
| Direction path (`server.ts`, `adapter-giles/src/inbox.ts`, `xr-lab/src/direction.ts`) | requests, temp files, inbox files, the client's operation | POST /actions, POST /intents, `writeIntentFile`, confirm, retry | ledger, Giles, the client | lost responses, disk errors, crash between rename and record, reused pids |
| World-model (`world/`, `engine/`, `store/`, `adapters/context.ts`) | durable items, the ticker | `apply`, heartbeats, tick, rank | every adapter, SSE, ntfy | merging with old fields, ownership of attention, four liveness bands, restarts |
| SSE (`http/sse.ts`) | ring of frames, listeners | `publish`, `replaySince`, `subscribe` | displays | resumption across eviction and restarts, dead streams |
| Giles poll (`adapter-giles/src/index.ts`) | `knownTaskIds`, `actionsByItem`, running guard | `poll`, sweep | Giles's files, world-model | torn reads, a missing or half-written backlog, forgotten tasks |
| Voice (`voice/grammar.ts`, `session.ts`, `gateway.ts`) | LRU of sessions, each in a mode, generation, result or promise | `parse`, `reduce`, the handlers | ledger and adapters (dispatch), speech and intent services | late transcripts, retries, confirmations that expire |
| GitHub poll (`adapter-github/src/index.ts`, `discover.ts`, `map.ts`) | check cache per head, actions per item, running guard | `poll`, `sweepCaches`, `classify` | GitHub, world-model | parallel and conditional requests, fetches that outlive a failed poll, departed pull requests |
| xr-lab Hub client (`xr-lab/src/hubClient.ts`, `worldModel.ts`) | generation, attempt, stream, timer, cards and selection | `start`, `stop`, `connectAttempt`, `scheduleReconnect` | SSE, pairing (`settings.ts`, `main.ts`) | calls that outlive the pairing they were made for |
| xr-lab push to talk (`xr-lab/src/voice.ts`, `input.ts`) | phase, held, generations, microphone, what is armed at the Hub | `press`, `release`, `cancel` | voice gateway, browser | late permission, late answers, lost cancellations |
| Hub CLI and configuration (`cli.ts`, `config.ts`, `boot.ts`) | the config file, processes and ports | `loadConfig`, `ensureHubToken`, `start` | desktop shell, relays, editor | first boots that overlap, a second Hub |
| Desktop shell (`desktop/src-tauri/src/main.rs`) | token, child process | resolve, spawn, wait, give up, quit | the Hub as its sidecar | a sidecar that is slow, dies, or is not the one that answers |
| opencode adapter (`adapter-opencode/src`) | event stream, timer | `connect`, `emit`, heartbeat | opencode's server, world-model | a stream that ends within an event |
| ntfy notifier (`adapter-ntfy/src/index.ts`) | `notifiable` per item | `maybeNotify` | world-model | many upserts, one notification |
| claude-code, codex, cursor, webhook adapters | little or none | map a hook or an event to a signal | world-model | |
| web app, glimmer lab, voice server, installers | | | | outside the core logic |

The Hub is one JavaScript process: a callback runs to its next `await` without
interruption, so that stretch is one action of a model, and every `await` is a
place where anything else may happen. `PROJECT.json` lists the 40 hazards of the
code, each at its line, with the properties that watch it or the reason why none
does.

## 2. The modules

| Module | Models | Used by |
|---|---|---|
| `IntentLedger` | the ledger and the callers inside `execute` | `Direction`, proofs |
| `IdempotencyContract` | the promise of `docs/hub-api.md` about intent ids, without Map or eviction loop | `IntentLedger` (refinement), proofs |
| `Direction` | client, routes, ledger (`INSTANCE IntentLedger`), `writeIntentFile`, inbox, crash | proofs |
| `WorldModel` | items, ownership, liveness, ticker, ranked view, stop and restart | `MCWorldModel`, proofs |
| `SseStream` | broadcaster, streams, clients that resume | proofs |
| `GilesPoll` | the poll over files that change under it | `MCGilesPoll` |
| `GithubPoll` | the poll request by request, over a GitHub that changes | `MCGithubPoll` |
| `VoiceSession` | `parse` and `reduce` as pure operators | `VoiceGateway` |
| `VoiceGateway` | sessions, requests, generations, dispatch | `MCVoiceGateway`, proofs |
| `HubClient` | the headset's connection to the Hubs it is paired with, its cards | `MCHubClient`, proofs |
| `PushToTalk` | keys and pinches, microphone, voice controller, the Hub's session as far as they can tell | proofs |
| `HubConfig` | `loadConfig`: the layers of a configuration, as pure operators | `HubProcess` |
| `HubProcess` | Hubs, desktop shell, relays and an editor around one config file | `MCHubProcess`, proofs |
| `Opencode` | opencode's event stream, its client, the items, ntfy | `MCOpencode` |
| `IntentLedgerProofs`, `DirectionProofs`, `WorldProofs` (WorldModel and SseStream), `HubClientProofs`, `PushToTalkProofs`, `VoiceGatewayProofs`, `HubProcessProofs`, `AdapterProofs` (GilesPoll, Opencode and GithubPoll) | theorems | `DirectionProofs` instantiates `IntentLedgerProofs` |

### Correspondence with the code

**IntentLedger.** `entries` is the insertion-ordered Map as a sequence, oldest
first; `inFlight[id]` is the caller whose promise the in-flight Map holds;
`phase`, `req` and `reply` are the pending calls of `execute`. `Execute` is
everything up to the first await (recorded, in flight, or first); `Settle` and
`WorkThrows` are the callback in which the promise settles, records, clears
`inFlight` and resolves every await on it. Responses are abstract, `Recordable`
are those the routes record. `LoseLedger` is the end of the process. `Contract`
maps the ledger to `IdempotencyContract`: what is remembered of an intent
(`KeptOutcome`), the intents used since (`UsedSince`, from the positions in the
Map), the payload that runs (`RunningPrint`) and who waits for it (`Waits`).

**Direction.** `stage` is the client's operation (`new`, `sent`, `armed`,
`retry`, ...), `work` the await at which `writeIntentFile` stands, `temps` and
`inbox` the files. An intent is a plain action, one that asks for confirmation
(`Gated`: a 409 until it is confirmed, or armed by the client itself) or a new
task (`Dispatches`, POST /intents, whose failure is a 502 where that of an action
is a 200 with `ok: false`). `Status`, `Http` and `Outcome` are the answers of the
two routes and what `send()` makes of them. `Start` is the gate and `existsSync`;
`WriteTemp`, `RenameTemp`, `Delivered` and `Cleanup` are one await each, so the
process may end between the rename and the record. `copies` and `total` are
history: deliveries since the ledger last forgot the intent, and ever.

**WorldModel.** `items[id]` has the fields attention and liveness depend on;
`mergeSignal`, `enforceOwnership`, `nextStaleAfter`, `livenessAt`, `rank` have
the names of the source. `Ingest` is POST /signals or `ctx.emit`,
`HookHeartbeat` the PostToolUse relay, `SourceHeartbeat` `ctx.heartbeat`, `Tick`
the ticker; `Stop`, `Start` and `Started` follow the order of `boot.ts`. `Sorted` is
any list of the attention items in which nothing follows what it outranks
(`InOrder`): `toSorted` is stable, and the order of ties, that of the database's
answer, is left open. `heard` is history.

**SseStream.** The world is a version number, published with each change.
`link` is the life of a stream as the runtime sees it: open, left by its client,
noticed (from then `enqueue` throws). `Unreplayable` and `Missed` are the two
answers of `replaySince`. `view` and `seen` are the client's.

**GilesPoll.** Giles's files are `inFlight`, `view`, `heading` and `unwritten`: the
backlog may be gone or not written as far as its heading, or have the heading and
lack the lines of some tasks. `Listed` is what `parseBacklogInFlight` finds. `item`,
`known` and `offered` are what the Hub shows and remembers; `stage`, `refs`,
`todo`, `current` and `partial` are the local variables of a poll that awaits
backlog, meta file, status log and worker state in turn. `EndPoll` is the tail
of `poll`: sweep, heartbeat, `finally`. `rungFor` is the lifecycle table.

**GithubPoll.** GitHub is `open`, `picture` (head, reviews, mergeability, whom
it concerns) and `ci` (check runs and statuses per head); the Hub's side is
`pullItem`, `actionsByItem` and `cache`. A poll awaits its searches one by one (`query`),
then has a `job` per pull request found: queued, awaiting `pulls.get`, awaiting
checks and reviews at once, done or failed. `Settle` is the loop of
`mapWithConcurrency`, `ReportPulls` the synchronous tail of `poll` with its sweep and
heartbeat. `strays` are the fetches of checks that `Promise.all` leaves behind
when the reviews fail. `held` (what was true since the poll began) and `vouched`
are history. Checks are reduced to none, pending, failing or green for each of
the two sources; an ETag stands for what it tags.

**VoiceSession, VoiceGateway.** An utterance is a word class with the action it
names and the selected item; `parse` and `reduce` follow the branches of the
source. `Arrive` is a request on
one of the three routes, `HandleRequest` what becomes of it, `Begin` the public method
of its route. A handler is one HTTP request: `hearing` and `interpreting` are the two
awaits before the session is committed, `replying` the await of the dispatch,
`joined` a retry that awaits the promise of the original. `base` is the clone of
the session the request works on. `newer[c]` are the clients whose sessions were
stored after that of `c`: the order of the Map, from which `pruneSessions` evicts.
`took` is history: what the Hub understood.

**HubClient.** A slot of `call` is one call of `connectAttempt` and the
connection it awaits: `stage` is the await (`state`, `body`, `stream`,
`reading`), `gen` the generation it was given, `read` and `sent` the version in
the body, then the frames read and sent. `StateArrives`, `BodyArrives`,
`StreamOpens`, `Frame`, `StreamEnds` are the stretches from one await to the
next, with all the early returns of `isCurrent` and `isCurrentStream`;
`StreamOvertaken` those of a call whose stream is no longer the current one. A
Hub is a version number; `Ranked` says which ids each version lists, from which
the selection follows.

**PushToTalk.** `press`, `release` and `cancel` run to their first await within
the user's action. `mic[g]` is the capture that the press of generation `g`
began: asking, on, its device gone, asked to stop, off. `MicOpens` is what
follows `await capture`, `MicStopped` what follows `await stop()`,
`UtteranceAnswered`, `UtteranceFails`, `CancelAnswered`, `CancelFails` what
follows the requests. The Hub is reduced to `sessionForRequest` and the commit
of `runPipeline`: a generation and whether something is armed. `missed` is a V
let go in a text field, of which the page hears nothing. `dropped` and `acted`
are history.

**HubConfig, HubProcess.** A configuration is a function from paths to values or
`Absent`; `loadConfig` lays the file, the environment and the flag over each
other in the code's order and hands mock down to voice and intent. `Valid` is the
schema's refusals, among them an enabled service without endpoints that is no mock
(`HasItsEndpoints`), so that a Hub may owe its validity to `--mock`
(`ServesByFlagOnly`). The file is an *edition* the user saved and
the token merged into it. A Hub goes from `loading` through `minting` and
`writing` (the two awaits of `persistHubToken`) and the first polls to
`serving`; the shell from `resolving` through the same two, `spawning` and
`waiting` to `open`. `HealthCheck` is what `health_check` accepts,
`RelayReaches` what a hook's relay would reach. `raced`, `clobbered`, `lost` and
`orphan` are history: two first boots overlapped, the user saved while a token
was being written, a Hub ended, the shell crashed.

**Opencode.** `reports[s]` is what opencode has said of a session, a report a
name for the state it puts the item in; the wire carries lines (`data`, or the
empty line that dispatches). `ReadsLine` and `StreamEnds` are the loop of
`readEventStream` and its tail, which dispatches a pending event without the
empty line. `Recorded` and `Announced` are `maybeNotify`. `said`, `rises`,
`notices` and `restarts` are history.

## 3. The runs

| Run | Instance | Shows |
|---|---|---|
| `ledger` | 3 callers, 3 intents, 2 payloads, capacity 2 | one run per intent, every caller answered; the ledger implements `IdempotencyContract` (successes replayed and never rerun, conflicts refused, joiners served) |
| `direction` | 2 callers, a gated action and a new task, capacity 1, 2 pids, 2 troubles | nothing unconfirmed reaches the disk, one delivery per memory, an acknowledgement means a file, pending files are never overwritten, confirmed retries get through |
| `second_file` | the same | *violated*: a retry writes a second file (finding) |
| `world` | a claude-code session and one item of three kinds of source, 8 signals, time 0..6 | attention ownership (ADR-0002), liveness (ADR-0003), reports change only by signals, the ranked view |
| `sse` | 2 clients, 2 streams, ring of 3, 5 versions, 1 restart | clients are in sync once they have read what is queued, replay is exact, views never go back, dead streams are released |
| `giles` | 2 tasks, 2 views each, 1 trouble | offered actions are those shown, a backlog without its heading dismisses nothing and one with it only what it does not list, reported tasks depart, settled tasks are shown as they are, also after a torn backlog dismissed them |
| `github` | a pushed and reviewed pull request of the user's and one to review, 3 heads, 1 failure or restart, 1 change per poll | what a poll reads and reports was true during it, settled pull requests are shown as they are, old heads leave the cache |
| `voice` | 2 clients, 1 session slot, 3 generations, 2 concurrent requests, 1 retry, 1 clock step | every dispatch was approved, one effect per generation and retries that agree with it, late answers restore nothing |
| `hub_client` | 3 Hubs (1 rejects the token), 2 versions, 2 calls at once, 2 pairings, 2 troubles | "live" means the paired Hub's stream is being read, one conversation at a time, cards follow the pairing and never go back, the client reconnects |
| `push_to_talk` | 4 generations | the microphone is on only while held, nothing is armed behind the client's back, cancelled words are not acted upon, the controller settles |
| `hub_process` | 2 sidecars, 1 command, 4 editions, 2 environments, 1 crash of the shell | one token on the machine, relays reach the Hubs of their environment that do not owe their validity to `--mock`, the shell opens on a Hub that takes its token and leaves no process behind, launches end; `loadConfig` equals its closed form (`ConfigIsLayered`) |
| `opencode` | 2 sessions, 2 reports of 4 kinds, 2 troubles | items show what the stream said, one notification per rise, items never go back, the client ends up reading |

### Bounds, and why they are enough

- *ledger*: an intent is joined, conflicted with and evicted with two callers on
  it and one elsewhere; three intents overflow two entries in either order.
- *direction*: `MaxTrouble` bounds crashes, lost responses and disk errors
  together. Two reach the combinations of interest: crash plus a retry under a
  reused pid, a lost response plus a crash, a disk error that leaves the temp
  file plus a crash. Capacity 1 makes every second intent evict the first.
- *world*: every grace and band is one unit, `LostAfter` three, and time six, so
  an item passes through all four bands and is revived. `Cap` 1 puts one of two
  items in the overflow.
- *sse*: a client that misses four versions has outlived a ring of three, one
  that misses three has not. New ids after a restart follow the old ones
  directly or with a gap, the two cases `replaySince` tells apart.
- *giles*: the two views differ in all three files, so a torn reading is neither
  of them. One trouble is a failed read, helper or restart, a backlog that goes
  missing, or one that lacks the lines of one task or both; it may last as long as
  it likes and be read by many polls.
- *github*: between polls GitHub may change without bound, during a poll once
  (`MaxChanges`): a push, a finished check or a merge between any two of its
  awaits. One failed request or restart (`MaxFailures`) leaves at most one stray.
  The second pull request stays open (`Lasting`), so that polls do find
  something; `DISCOVERY_CONCURRENCY` is 2 of 5, enough for both at once.
- *voice*: client `b` exists to take the only session slot. `ConfirmTtl` and
  `SessionTtl` are 0, so one clock step expires both an armed action and a
  session. The utterances of each generation are those that arm, dictate,
  confirm, cancel and are misheard; the two handlers are symmetric.
- *hub_client*: `start` begins two generations at once, so `MaxGeneration` 4
  means two of pairing, forgetting and coming online, enough for a call of the
  first pairing to answer into the second. Two slots hold the overtaken call and
  the present one; a third would need a third pairing. `Patience` 1 stands for
  the end of `RECONNECT_DELAYS`, from where the delay does not grow.
- *push_to_talk*: four presses and cancellations: an utterance, its
  cancellation, and another utterance with its own. Only these are bounded.
- *hub_process*: an orphan, the sidecar of the next shell and a Hub from a
  terminal compete for the port and the token. The first edition of the file does
  not parse (`Broken`), the second is empty, the third moves the port, adds TLS and
  is invalid in an environment without the GitHub token, the fourth enables a
  service without endpoints, which only a Hub with `--mock` accepts; each layer of
  the configuration decides at least one setting.
  `ConfigIsLayered` compares `loadConfig` with its closed form for all pairs of
  a file and an environment over five settings.
- *opencode*: one session is enough to lose, repeat or cut an event; the second
  makes sure that each has its own state. The kinds of report include two that
  raise attention, one that lowers it, one that only vouches, and texts that two
  classifiers match.
- All `Max...` constants bound environment events only; ids, handlers and
  capacities are the size of the instance.

`CHECK_DEADLOCK FALSE` is used where the bounded environment may be exhausted
and nothing is left to do (all but `ledger` and `hub_process`).

### Fairness

- Ledger and direction: work settles (`fetch` and file operations end or fail),
  responses are sent, the await inside `writeIntentFile` resumes, and the user
  or client retries an operation that is waiting for a retry. Nothing is assumed
  of confirmation, draining or crashes.
- SSE: the keepalive interval fires and the runtime notices a vanished client.
  `cancel()` is *not* assumed to come.
- Giles: the interval fires, reads end, and Giles ends a rewrite of its backlog.
- GitHub: the interval fires, and requests are answered or fail. GitHub itself is
  under no fairness; strays may stay unanswered, which `OldHeadsAreSwept` names.
- Hub client: the browser answers requests or fails them, notices dropped
  connections and fires timers; a network that was lost comes back. `Reconnects`
  assumes that the user stays paired with a Hub that stays reachable.
- Push to talk: the browser and the Hub answer or fail. The user is under no
  fairness.
- Hub processes: the operating system runs both programs, first polls return or
  fail, the shell's fifteen seconds pass.
- opencode: the client's callbacks and timers run. `FollowsTheServer` assumes a
  server that stays reachable.
- World and voice are checked for safety only.

## 4. The proofs

TLAPS checks these for every value of the constants, under the named
`ASSUME`s of the modules (sets non-empty where a default is chosen, capacities
and graces positive, finitely many pull requests, sentinels outside the sets they
are told apart from).

| Theorem | States |
|---|---|
| `LedgerTypeCorrect` | types of the ledger and `LedgerBounded` |
| `LedgerOneRunPerIntent`, `LedgerRecordedNeverRuns`, `LedgerJoinersAwaitTheirRun` | `OneRunPerIntent`, and that what is remembered never runs again and joiners share the run they joined |
| `LedgerImplementsContract` | `ImplementsContract`: the ledger refines the documented promise |
| `DirectionInvariant`, `DirectionNoUnapprovedDelivery`, `DirectionOneDeliveryPerMemory`, `DirectionAckMeansDelivered`, `DirectionPendingFileNeverOverwritten` | `NoUnapprovedDelivery`, `OneDeliveryPerMemory`, `AckMeansDelivered`, `PendingFileNeverOverwritten`, types |
| `DirectionUsesTheLedger` | the direction path drives the ledger through its own operations, so the ledger's theorems hold within it |
| `WorldTypeCorrect`, `AttentionIsOwned`, `TerminalItemsStayLive`, `LivenessNeverShownWorse`, `LiveMeansRecentlyHeard` | `OwnershipHolds`, `NeverShownWorse`, `ShownLiveIsFresh`, types, and that finished items do not decay |
| `OnlySignalsChangeReports`, `RankLosesNothing` | `ReportChangesOnlyBySignal`, `RankedView` |
| `SseTypeCorrect`, `RingStaysRecent`, `ClientsAreInSync`, `ReplayIsExact`, `ViewsNeverGoBack` | `InSync`, `ExactlyTheMissed`, `ViewNeverGoesBack`, types, and what the ring holds |
| `ClientInvariant`, `ClientLiveIsHonest`, `ClientOneConversation`, `ClientViewFollowsPairing` | `LiveIsHonest`, `OneConversation`, `ViewFollowsPairing`, types |
| `PttInvariant`, `PttMicrophoneOff`, `PttArmedIsKnown`, `PttCancelledIsDropped`, `PttBusyAwaits` | `MicrophoneOff`, `ArmedIsKnown`, `CancelledIsDropped`, types, and the safety half of `AlwaysSettles` |
| `GatewayInvariant`, `DispatchesAreApproved`, `RequestsTakeEffectOnce`, `CancellationsHold`, `SessionsFitAndAreOrdered` | `DispatchesWereApproved`, `OneEffectPerGeneration`, `CancelHolds`, types, and that the sessions fit the limit in one order of use |
| `SettingsAreLayered` | `loadConfig` equals its closed form for every file, environment and flags |
| `ProcessInvariant`, `TokenIsOne`, `WindowHasItsHub` | `TokenIsShared`, `DesktopHasItsHub` |
| `GilesShownIsOffered`, `GilesDismissedOnlyIfUnlisted`, `GilesSweepIsExact` | `ShownIsOffered`, `DismissedOnlyIfUnlisted`, and the safety half of `ReportedTasksDepart` |
| `GithubReadingsAreOfThisPoll` | `ReadingsAreOfThisPoll` |
| `OpencodeHeardIsShown`, `OpencodeNeverGoesBack` | `HeardIsShown` (with `OneNoticePerRise`), and the safety half of `FollowsTheServer` |

*Ledger.* None of its properties is inductive. The invariant adds that
`inFlight[id] = c` holds exactly when `c` runs `id`: from it a second `StartWork`
on `id` is disabled, the caller whose work settles is the one joiners wait for,
and an entry recorded by `Settle` belongs to an intent nobody else runs. The
lemmas on `Delete`, `Get` and `Record` say which intents a list of entries holds
afterwards, that entries stay unique and that the length is bounded.

*The ledger's contract.* One step of the proof per action of the ledger. Whether
an intent is remembered, and which intents were used since, are sets over the
positions of the Map; the lemmas say how `Delete`, `Get` and `Record` move them,
and that the one evicted has `Capacity` others used after it, which is when the
contract allows forgetting. `Execute` without a wait is a lookup of the contract
or a conflict, a settling promise resolves exactly those the contract lets wait.

*Direction.* The invariant (`DirectionInv`) is that of the ledger, instantiated,
and what ties the parts together: a caller's `work` stands somewhere exactly when
the ledger runs it, so no two callers write one intent's file; a caller past the
gate has been confirmed, and so has every file, temporary or not; between
`existsSync` and the rename the file is absent; a success that the ledger, a reply
or the client holds has its file; and what was delivered since the ledger last
forgot is either recorded or about to be. Each action is a step of the ledger, by
which its own theorems carry over, and disturbs few of these.

*World-model.* `AttentionIsOwned` rests on a lemma that `enforceOwnership`
produces an owned item from any item, hence every stored item is owned. The
liveness theorems need that `staleAfter` of an unfinished item is at most
`heard + Grace`, that a finished item has a date in the future and is live, and
that the stored band was right at some moment no later than now; the band is
monotone in time. `OnlySignalsChangeReports` needs that every stored item is a
fixed point of `enforceOwnership` (`SettledInv`): a heartbeat merges the item with
itself and clamps it once more. `RankLosesNothing` first shows that a sorted list
exists, for any finite set of items: if not, a smallest set without one exists (by
the well-foundedness of finite subsets), it has a last element, and the list of
the others followed by it is sorted. The rest is counting.

*SSE.* `InSync` and `ExactlyTheMissed` speak of the end and the beginning of a
queue and are not inductive. The invariant counts: the frames of the ring, and
those queued for any open stream, are the last ones published, so the i-th from
the end has id `lastId - i` and version `world - i`; a client whose
Last-Event-ID lies in this run shows the world that many versions ago; an open
stream is a listener, and a client has one. A lemma on `replaySince` shows that
its filter yields exactly `lastId - id` frames whenever it does not answer null.

*Hub client.* A callback that comes too late is told apart by its generation
alone, so the invariant says what the present generation has: at most one of a
call, a timer and a stream, which the phase names, and nothing after the token
was forgotten. Calls and streams of earlier generations are aborted. That there is at
least one while a Hub takes the token (`CarriesOn`) is the safety half of
`Reconnects`: however a call that was not overtaken ends, it leaves a timer. Each version
that a call or a stream still holds, and that the present generation would show,
is at least as recent as the cards.

*Push to talk.* A generation is used once: for a capture and then an utterance,
or for a cancellation. Hence a capture that is not off belongs to the phase, and
an utterance that is waited for to the present generation or to none that counts.
For `ArmedIsKnown` what is armed is not enough: the invariant speaks of a
*threat*, something armed or a request that would arm when the Hub reads it, and
says that the client knows of every threat. A cancellation ends them because the
Hub refuses the generations before it; a restart of the Hub ends them all. A phase
that waits for an answer waits for one of the present generation (`BusyAwaits`),
so only fairness is left to `AlwaysSettles`.

*Voice gateway.* `DispatchesWereApproved` speaks of answers; what makes them right
are sessions. `GatewayInv` says for each session kept, and for the clone each
request works on, that what it has armed or read back was said in a generation the
Hub took, in time, and not taken back since (`SessionsJustified`,
`BasesJustified`); it says which of two arrivals of a request may run, and what a
joined one awaits (`HandlersOK`, `RunnersOK`, `AnswersOK`). Lemmas on the pure
part (`ParseFits`, `ReduceType`, `ReduceSound`) show that `reduce` keeps a
justified session justified. Every handler's step is then an update of one
session, one request and one entry of the history (`Updated`), and one lemma says
under which conditions (`Serves`) such an update keeps the invariant; eviction and
expiry only forget (`Calm`), a settling dispatch answers those that await it
(`Settled`). The order of sessions is kept because storing puts a client last and
evicts the first (`StoreIsOrdered`).

*Hub processes.* One process at most is minting a token unless two first boots
overlapped, and until it renames its file the token is absent; a booted Hub has the
token of its environment, else the file's; what the file holds is what the user
saved unless they saved while a token was written; and the shell has a child
exactly while it waits or shows its window. Each of the two halves of
`TokenIsShared` that a history variable exempts is carried only as long as that
variable is false. `SettingsAreLayered` unrolls the recursive function that applies
the thirteen overrides one by one. For the relay `TokenIsOne` compares its settings
with those of the Hub: but for the token, which is the same, they differ only in
what the flag hands down, and the Hub's being valid, the relay's are not exactly
when a service it enables without endpoints is a mock by the flag alone.

*Giles poll.* A poll runs exactly while it awaits a file, and what it holds of the
backlog is what the file listed when it was read, which is what the properties
compare with: where the heading was missing nothing is dismissed, else exactly
what was not listed. The lifecycle table is shown total, and never to yield the departed
item, so that only the sweep dismisses. `GilesSweepIsExact` adds the other
direction: a poll that reaches its sweep with the heading read forgets and
dismisses every remembered task the backlog did not list, and remembers every task
it listed. It rests on `KnownAreShown`: what is remembered is shown as alive, and a poll
that goes on has reported each task that is no longer to do. That such a poll comes
about is the liveness half, which TLC checks.

*Opencode and ntfy.* `HeardIsShown` is about a stream read to its end. The
invariant (`OpencodeInv`) is about the lines before that: the one kept and those
on the wire form a queue in which each event is followed by its empty line unless
the stream is over, the events of a session come in the order it made them
(`LinesOK`), and the last signal said of a session is shown or in that queue,
while a signal in it is newer than what is shown (`SaidOK`). One lemma per thing
that happens to the queue: a line is kept, what is kept is handled and the rest
moves up, a report is added at the end, the stream is cut. For the notices: a
session is notifiable only while its item asks for attention, and with the push it
is owed it was pushed at least once per rise, and at most once more per restart
(`NoticesOK`).

*GitHub poll.* `ReadingsAreOfThisPoll` compares what a poll has read with history
(`held`), which grows with every change. The invariant (`GithubInv`) says that what
is true now is held, of every head, and of every pull request that is open or that
the poll has found: one it found and that was closed stays as it was. An answer
given now is therefore held, unless it comes from the cache; but an entry of the
cache, and the one a fetch was begun with, poll or stray, pairs each tag with what
it tags (`Cached`), so that an answer to If-None-Match is what is true at that
moment whoever wrote the entry (`AnswersAreCurrent`). That no more than
`Concurrency` records are in hand is counted: a worker takes a record only when it
has ended one (`WorkerIsFree`, `WorkerTakes`, `Handed`). The last answer of a poll and
its report are one step, so the second half of the property speaks of steps: the
jobs `Settle` hands to `ReportPulls` satisfy the invariant too, and `ReportsAreTrue`
carries it to the items. The lemmas follow the calls of the code: every callback ends in `Settle`, every end of a poll in
`PollEnds`.

*Left to TLC.* Liveness properties, among them the liveness half of
`FollowsTheServer`: liveness under fairness is beyond the prover. That the fold
over the reviews (`isApprovedByReviews`) finds the standing verdicts is induction
over data: `SettledPullsAreShown` compares the two on the reviews of the run.

## 5. Findings

`second_file` shows that an intent file drained by Giles and forgotten by the
ledger (restart or eviction) is written again by a retry, although `inbox.ts:7`
says this can never happen.

The models contain further behaviour that differs from what a document says, or
that its reader may not expect. No property claims it does not happen, and
the hazards in `PROJECT.json` name most of it at its line:

- A task that leaves while the Hub is down is never swept, and
  `heartbeat("orchestrator")` keeps its item live (`adapter-giles` `index.ts:249`
  promises a terminal signal).
- A backlog read after its heading and before all its task lines are written
  dismisses the live tasks it lacks: `hasInFlightSection` (`state.ts:53`) sees the
  heading, though `index.ts:252` says a transient read gap "cannot mass-dismiss live
  items" and `state.ts:51` that a partial read comes without the heading. The next
  poll that reads the whole file shows them again (`SettledTasksAreShown`).
- A Giles poll that finds no backlog still vouches for every item
  (`docs/adapter-authoring.md:78`).
- When a voice dispatch throws, its exact retry is answered "Cancelled." with
  `ok: true` (`docs/voice-grammar.md:188`).
- No signal says that a pull request was merged or closed, and
  `heartbeat("github")` keeps its item live (`docs/threat-model.md:103`).
- A second Hub on the machine polls and writes the database before its bind
  fails, and a sidecar that ends is not started again.
- A Hub whose settings are valid only with `--mock` (voice or intent enabled with an
  empty list of endpoints) serves, but the relays of its hooks load the same file
  without the flag (`cli.ts:526`), fail validation and return silently
  (`cli.ts:536`): no hook reaches it. `TokenIsShared` says so in both directions.
- The race of two first boots, and a save while a token is being written, are not
  excluded by the code, which takes no lock around `config.ts:639`. `TokenIsShared`
  exempts what follows from them (`raced`, `clobbered`) and holds for all the rest.
- The relay and the shell's health check speak plain HTTP: neither reaches a Hub
  that serves TLS, and the shell waits its fifteen seconds for one in vain. The
  shell takes its port from the environment alone: with another one in the file
  it starts a Hub beside the one that runs there, and relays post to the latter.

Requests that outlive their voice session (evicted or expired while they wait)
may commit into one that was created again with the same generation. The model
contains this; it lies outside the documented guarantee, and the properties of
`voice` exclude it by name (`Orphaned`).

## 6. Not modelled

Unkeyed requests and status queries of the routes; text, evidence and links of
items; parsing of Giles's files; wording of spoken answers; the audio cache;
the comparison of tokens and problem bodies; installers and the other
subcommands of the CLI; React, Android, XR rendering; windows and notifications
of the desktop shell; the speech service.

Of the modules of this project: the lengths of the reconnect delays; `hubBind`
and other programs on the Hub's port; the exact place within a line at which a
stream is cut (a partial last line parses or is dropped, and is one of the
lines); the database shared by two Hubs; temporary files a killed process leaves
beside the config file; a pairing with another Hub while a direction or an armed
word waits at the old one. The components in `PROJECT.json` repeat this, part by
part.

## 7. Plan

Done, in this order: ledger and its contract, direction path, world-model, SSE,
Giles poll, voice, GitHub poll; proofs of ledger, world-model and SSE; Hub
client, push to talk, configuration and processes, opencode with ntfy; proofs of
Hub client and push to talk; of the ledger's refinement, the direction path, the
voice gateway, the world-model's ranked view and reports, the Hub processes, the
Giles poll, opencode with ntfy, and the GitHub poll. Next: composition, that is
`HubClient` over `SseStream`'s Hub, and a direction that outlives its pairing.
