----------------------------- MODULE WorldModel -----------------------------
(***************************************************************************)
(* The Hub's world-model: the durable items (store/itemStore.ts), what a   *)
(* signal or a heartbeat makes of them (world/worldModel.ts), who may ask  *)
(* for the user's attention (engine/attention.ts, ADR-0002), and how much  *)
(* an item's reported state is trusted as time passes (engine/liveness.ts, *)
(* adapters/context.ts, ADR-0003).                                         *)
(*                                                                         *)
(* Every operation here is one synchronous callback of the Hub, so it is   *)
(* one action.  Signals come from POST /signals and from the adapters'     *)
(* ctx.emit; a hook heartbeat is the claude-code PostToolUse relay, and a  *)
(* source heartbeat is ctx.heartbeat: a successful poll of a polled source *)
(* or traffic on opencode's event stream.  Items survive a restart, time   *)
(* goes on while the Hub is down.                                          *)
(*                                                                         *)
(* Time is counted in units of the MC module's choice; an item's text,     *)
(* evidence and actions are left out.                                      *)
(***************************************************************************)
EXTENDS Integers, FiniteSets, Sequences, SequencesExt

CONSTANTS
    Ids,
    Sessions,         \* the ids of claude-code sessions, whose hooks send heartbeats
    Signals,          \* the signals that may arrive
    Absent,           \* an optional field a signal does not carry
    NoItem,           \* "no such row"
    PollGrace, HeartbeatGrace, QuietAfter, StaleAfter, LostAfter,
    TickEvery,        \* the period of the LivenessTicker
    Cap,              \* needsMeCap
    MaxTime           \* bound on the clock

Sources == {"claude-code", "codex", "cursor", "opencode", "github",
            "orchestrator", "webhook", "ntfy", "mcp"}
States == {"working", "blocked", "needs_review", "done", "error"}
Severities == {"info", "low", "medium", "high"}
Reasons == {"blocked_on_human", "errored", "failing_ci", "review_requested",
            "awaiting_merge", "ambient"}
Livenesses == {"live", "quiet", "stale", "lost"}

Signal == [id : Ids, source : Sources, state : States,
           reason : Reasons \cup {Absent},
           attention : BOOLEAN \cup {Absent},
           severity : Severities \cup {Absent}]

Item == [source : Sources, state : States, reason : Reasons, attention : BOOLEAN,
         severity : Severities, observedAt : Int, staleAfter : Int,
         liveness : Livenesses]

ASSUME SignalsAssumption == Sessions \subseteq Ids /\ Signals \subseteq Signal
ASSUME NoItemAssumption == NoItem \notin Item
ASSUME GraceAssumption ==
    /\ PollGrace \in Nat \ {0} /\ HeartbeatGrace \in Nat \ {0}
    /\ QuietAfter \in Nat \ {0} /\ StaleAfter \in Nat \ {0} /\ LostAfter \in Nat \ {0}
    /\ TickEvery \in Nat \ {0}
ASSUME CapAssumption == Cap \in Nat \ {0}
ASSUME TimeAssumption == MaxTime \in Nat

VARIABLES
    items,      \* the items table
    now,        \* Date.now()
    hub,        \* down, starting (the adapters' start runs), or up and serving
    lastTick,   \* when the ticker last ran, or was started
    ticked,     \* the ticker has run since the Hub came up
    heard       \* per item, when a signal or heartbeat last vouched for it (history)

worldVars == <<items, now, hub, lastTick, ticked, heard>>

WorldTypeOK ==
    /\ items \in [Ids -> Item \cup {NoItem}]
    /\ now \in Int /\ lastTick \in Int
    /\ hub \in {"down", "starting", "up"} /\ ticked \in BOOLEAN
    /\ heard \in [Ids -> Int]

Known == {id \in Ids : items[id] # NoItem}

WorldInit ==
    /\ items = [id \in Ids |-> NoItem]
    /\ now = 0
    /\ hub = "up"
    /\ lastTick = 0
    /\ ticked = FALSE
    /\ heard = [id \in Ids |-> 0]

-----------------------------------------------------------------------------
(* Attention: enforceOwnership and rank.                                   *)

GithubReasons == {"failing_ci", "review_requested", "awaiting_merge"}
OrchestratorReasons == {"blocked_on_human", "errored", "review_requested", "awaiting_merge"}

\* The reason a webhook item falls back to when it asks for attention without one.
WebhookReason ==
    [working |-> "ambient", blocked |-> "blocked_on_human",
     needs_review |-> "review_requested", done |-> "awaiting_merge", error |-> "errored"]

Agents == {"claude-code", "codex", "cursor", "opencode"}

\* The reason a session has by its state alone, whatever it claims.
AgentReason(source, state) ==
    IF state = "blocked" /\ source # "cursor" THEN "blocked_on_human"
    ELSE IF state = "error"
         THEN IF source \in {"claude-code", "codex"} THEN "blocked_on_human" ELSE "errored"
         ELSE "ambient"

\* The reason the others keep of what they claim.
ClaimedReason(item) ==
    IF ~ item.attention THEN "ambient"
    ELSE IF \/ item.source = "github" /\ item.reason \in GithubReasons
            \/ item.source = "orchestrator" /\ item.reason \in OrchestratorReasons
            \/ item.source = "webhook" /\ item.reason # "ambient"
         THEN item.reason
         ELSE IF item.source = "webhook" THEN WebhookReason[item.state] ELSE "ambient"

WithReason(item, reason) ==
    [item EXCEPT !.reason = reason, !.attention = (reason # "ambient")]

\* A clamp that leaves sessions the attention they ask for.
TrustAgents(item) == WithReason(item, IF item.attention THEN item.reason ELSE "ambient")

enforceOwnership(item) ==
    IF item.source \in Agents
    THEN [WithReason(item, AgentReason(item.source, item.state)) EXCEPT
             !.severity = IF item.state = "error" THEN "high" ELSE item.severity]
    ELSE WithReason(item, ClaimedReason(item))

RUNG(reason) ==
    CASE reason \in {"blocked_on_human", "errored"} -> 1
      [] reason = "failing_ci" -> 2
      [] reason = "review_requested" -> 3
      [] reason = "awaiting_merge" -> 4
      [] OTHER -> 99

severityRank(severity) ==
    CASE severity = "high" -> 3 [] severity = "medium" -> 2
      [] severity = "low" -> 1  [] OTHER -> 0

\* compareAttentionItems < 0: rung, then severity, then the newest first.
Outranks(a, b) ==
    \/ RUNG(a.reason) < RUNG(b.reason)
    \/ /\ RUNG(a.reason) = RUNG(b.reason)
       /\ \/ severityRank(a.severity) > severityRank(b.severity)
          \/ severityRank(a.severity) = severityRank(b.severity) /\ a.observedAt > b.observedAt

Attention == {id \in Known : items[id].attention /\ items[id].reason # "ambient"}

\* rank's sorted list.  toSorted is stable, ties keep the order of the query;
\* that order is left open here.
InOrder(ids) ==
    \A i, j \in DOMAIN ids : i < j => ~ Outranks(items[ids[j]], items[ids[i]])

Sorted == CHOOSE ids \in SetToSeqs(Attention) : InOrder(ids)

needsMe  == SubSeq(Sorted, 1, IF Len(Sorted) < Cap THEN Len(Sorted) ELSE Cap)
overflowLate == SubSeq(Sorted, Cap + 2, Len(Sorted))
overflow == SubSeq(Sorted, Cap + 1, Len(Sorted))

-----------------------------------------------------------------------------
(* Liveness: nextStaleAfter, livenessAt and the ticker.                    *)

TERMINAL == {"done", "error"}
POLLED == {"github", "orchestrator"}
FarFuture == MaxTime + 1

Grace(source) == IF source \in POLLED THEN PollGrace ELSE HeartbeatGrace

nextStaleAfter(source, state, at) ==
    IF state \in TERMINAL THEN FarFuture ELSE at + Grace(source)

livenessAt(item, t) ==
    LET overdue == t - item.staleAfter
    IN  IF item.state \in TERMINAL \/ overdue < QuietAfter THEN "live"
        ELSE IF overdue < StaleAfter THEN "quiet"
        ELSE IF overdue < LostAfter THEN "stale" ELSE "lost"

deriveLiveness(item) ==
    LET dated == [item EXCEPT !.staleAfter =
                     nextStaleAfter(item.source, item.state, item.observedAt)]
    IN  [dated EXCEPT !.liveness = livenessAt(dated, now)]

-----------------------------------------------------------------------------
(* The operations.                                                         *)

Given(field, otherwise) == IF field = Absent THEN otherwise ELSE field

Defaults(signal) ==
    [source |-> signal.source, state |-> signal.state, reason |-> "ambient",
     attention |-> FALSE, severity |-> "info", observedAt |-> now,
     staleAfter |-> now, liveness |-> "live"]

\* defaults, then the stored item, then the fields the signal carries.
mergeSignal(existing, signal) ==
    LET base == IF existing = NoItem THEN Defaults(signal) ELSE existing
    IN  [base EXCEPT !.source = signal.source,
                     !.state = signal.state,
                     !.reason = Given(signal.reason, base.reason),
                     !.attention = Given(signal.attention, base.attention),
                     !.severity = Given(signal.severity, base.severity),
                     !.observedAt = now]

applySignal(signal) ==
    items' = [items EXCEPT ![signal.id] =
                 deriveLiveness(enforceOwnership(mergeSignal(@, signal)))]

\* The sources whose adapter heartbeats them as a whole, and emits by itself.
SelfStarting == {"github", "orchestrator", "opencode"}

\* The HTTP server opens only when every adapter's start has returned.
Reachable(source) == hub = "up" \/ (hub = "starting" /\ source \in SelfStarting)

\* POST /signals/:source, POST /webhooks/cursor, or an adapter's ctx.emit.
Ingest(signal) ==
    /\ Reachable(signal.source)
    /\ applySignal(signal)
    /\ heard' = [heard EXCEPT ![signal.id] = now]
    /\ UNCHANGED <<now, hub, lastTick, ticked>>

\* A PostToolUse hook: "working" only for a session not seen before, and only
\* when the payload names its project; otherwise nothing but the time changes.
HeartbeatSignal(id) ==
    [id |-> id, source |-> "claude-code", state |-> "working", reason |-> "ambient",
     attention |-> FALSE, severity |-> "info"]

HookHeartbeatFlippingState(id, complete) ==
    /\ hub = "up"
    /\ applySignal(HeartbeatSignal(id))
    /\ heard' = [heard EXCEPT ![id] = now]
    /\ UNCHANGED <<now, hub, lastTick, ticked>>

HookHeartbeat(id, complete) ==
    /\ hub = "up"
    /\ IF items[id] # NoItem
       THEN items' = [items EXCEPT ![id] =
                deriveLiveness(enforceOwnership([@ EXCEPT !.observedAt = now]))]
       ELSE IF complete THEN applySignal(HeartbeatSignal(id)) ELSE UNCHANGED items
    /\ heard' = [heard EXCEPT ![id] = now]
    /\ UNCHANGED <<now, hub, lastTick, ticked>>

\* ctx.heartbeat(source): staleAfter and liveness of every item of the source.
Refreshed(item) ==
    LET dated == [item EXCEPT !.staleAfter = nextStaleAfter(item.source, item.state, now)]
    IN  [dated EXCEPT !.liveness = livenessAt(dated, now)]

ItemsOf(source) == {id \in Known : items[id].source = source}

SourceHeartbeatOfAll(source) ==
    /\ Reachable(source)
    /\ items' = [id \in Ids |-> IF id \in Known THEN Refreshed(items[id]) ELSE items[id]]
    /\ heard' = [id \in Ids |-> IF id \in ItemsOf(source) THEN now ELSE heard[id]]
    /\ UNCHANGED <<now, hub, lastTick, ticked>>

SourceHeartbeat(source) ==
    /\ Reachable(source)
    /\ items' = [id \in Ids |-> IF id \in ItemsOf(source) THEN Refreshed(items[id])
                                                          ELSE items[id]]
    /\ heard' = [id \in Ids |-> IF id \in ItemsOf(source) THEN now ELSE heard[id]]
    /\ UNCHANGED <<now, hub, lastTick, ticked>>

\* The ticker recomputes every item's liveness and stores what changed.
TickAgeingObserved ==
    /\ hub = "up"
    /\ items' = [id \in Ids |-> IF id \in Known
                    THEN [items[id] EXCEPT !.liveness =
                             livenessAt([items[id] EXCEPT !.staleAfter = items[id].observedAt],
                                        now)]
                    ELSE items[id]]
    /\ lastTick' = now
    /\ ticked' = TRUE
    /\ UNCHANGED <<now, hub, heard>>

Tick ==
    /\ hub = "up"
    /\ items' = [id \in Ids |-> IF id \in Known
                    THEN [items[id] EXCEPT !.liveness = livenessAt(items[id], now)]
                    ELSE items[id]]
    /\ lastTick' = now
    /\ ticked' = TRUE
    /\ UNCHANGED <<now, hub, heard>>

\* Time passes; while the Hub runs the interval timer is never late.
Advance ==
    /\ now < MaxTime
    /\ hub = "up" => now < lastTick + TickEvery
    /\ now' = now + 1
    /\ UNCHANGED <<items, hub, lastTick, ticked, heard>>

Stop ==
    /\ hub # "down"
    /\ hub' = "down"
    /\ ticked' = FALSE
    /\ UNCHANGED <<items, now, lastTick, heard>>

\* start() of every adapter and orchestrator, then the ticker and the server.
Start ==
    /\ hub = "down"
    /\ hub' = "starting"
    /\ UNCHANGED <<items, now, lastTick, ticked, heard>>

Started ==
    /\ hub = "starting"
    /\ hub' = "up"
    /\ lastTick' = now
    /\ UNCHANGED <<items, now, ticked, heard>>

WorldNext ==
    \/ \E signal \in Signals : Ingest(signal)
    \/ \E id \in Sessions, complete \in BOOLEAN : HookHeartbeat(id, complete)
    \/ \E source \in SelfStarting : SourceHeartbeat(source)
    \/ Tick
    \/ Advance
    \/ Stop
    \/ Start
    \/ Started

WorldSpec == WorldInit /\ [][WorldNext]_worldVars

-----------------------------------------------------------------------------
(* Properties.                                                             *)

\* ADR-0002, whatever an adapter or a POST claims and whatever the item was
\* before: an item asks for attention exactly when it has a reason; a session
\* does so only while blocked or failed and never with a pull-request reason,
\* GitHub only with one; and no blocked session is left in the ambient list.
Owned(item) ==
    /\ item.attention <=> item.reason # "ambient"
    /\ item.source \in Agents =>
          /\ item.attention => /\ item.state \in {"blocked", "error"}
                               /\ item.reason \in {"blocked_on_human", "errored"}
          /\ item.state = "error" => item.attention /\ item.severity = "high"
          /\ item.state = "blocked" /\ item.source # "cursor" => item.attention
    /\ item.attention /\ item.source = "github" => item.reason \in GithubReasons
    /\ item.attention /\ item.source = "orchestrator" =>
          item.reason \in OrchestratorReasons
    /\ item.source \in {"ntfy", "mcp"} => ~ item.attention

OwnershipHolds == \A id \in Known : Owned(items[id])

\* A finished or failed item is never decayed, however long nothing is heard
\* of it and whichever heartbeat refreshes its source (ADR-0003).
TerminalNeverDecays ==
    \A id \in Known : items[id].state \in {"done", "error"} => items[id].liveness = "live"

Worse == [live |-> 0, quiet |-> 1, stale |-> 2, lost |-> 3]

\* The stored liveness may lag behind the truth by a tick, but it is never
\* worse: no item is shown quiet, stale or lost that was heard from in time.
NeverShownWorse ==
    \A id \in Known : Worse[items[id].liveness] <= Worse[livenessAt(items[id], now)]

\* Once the ticker has run, an unfinished item shown live was vouched for no
\* longer ago than its grace, the quiet margin and one tick: a silent session
\* or a source whose polls fail cannot stay live, restarts included.
ShownLiveIsFresh ==
    \A id \in Known :
        (ticked /\ items[id].state \notin TERMINAL /\ items[id].liveness = "live")
            => now < heard[id] + Grace(items[id].source) + QuietAfter + TickEvery

\* "A Heartbeat refreshes liveness without changing State" (CONTEXT.md): what
\* an item reports changes only by a signal for that very item, so neither a
\* hook heartbeat nor a poll, a tick or a restart unblocks or revives it.
Report(item) == <<item.source, item.state, item.reason, item.attention, item.severity>>

ReportChangesOnlyBySignal ==
    [][\A id \in Known :
          Report(items'[id]) # Report(items[id])
              => \E signal \in Signals : signal.id = id /\ Ingest(signal)]_worldVars

\* The ranked view loses nothing and shows the most urgent: every item that
\* asks for attention is in needs-me or, beyond the cap, in the overflow, and
\* nothing in the overflow outranks anything shown.
RankedView ==
    LET shown == ToSet(needsMe)
        rest == ToSet(overflow)
    IN  /\ shown \cup rest = Attention
        /\ Len(needsMe) + Len(overflow) = Cardinality(Attention)
        /\ Len(needsMe) <= Cap
        /\ \A i \in shown, j \in rest : ~ Outranks(items[j], items[i])

=============================================================================
