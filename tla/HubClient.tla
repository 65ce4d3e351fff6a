------------------------------ MODULE HubClient ------------------------------
(***************************************************************************)
(* How the headset client follows a Hub (apps/xr-lab hubClient.ts, with    *)
(* worldModel.ts, settings.ts and the wiring of main.ts): it fetches       *)
(* /state, then holds /stream open, and after any failure tries again on a *)
(* timer, until the user pairs it with another Hub or forgets the token.   *)
(*                                                                         *)
(* connectAttempt is one async function with four awaits.  A call of it    *)
(* may still be waiting when start() has begun another: the generation,    *)
(* compared after each await, is what keeps the two apart.  Calls are the  *)
(* slots for the calls that exist at one time.                             *)
(***************************************************************************)
EXTENDS Naturals, Sequences, FiniteSets

CONSTANTS
    Hubs,           \* what the client can be paired with: URL and token
    Refusing,       \* those whose Hub rejects the token
    Items,          \* the ids of items
    Ranked,         \* per Hub and version, those its snapshot lists, in order
    Calls, None,
    Patience,       \* the attempt from which on nothing changes any more
    MaxGeneration, MaxVersion,  \* bounds on pairings and on changes at a Hub
    MaxTrouble      \* bound on crashes, errors, malformed bodies, lost networks

Versions == 0..MaxVersion

Views == [hub : Hubs, version : Versions]

ASSUME HubsAssumption == Refusing \subseteq Hubs /\ None \notin Hubs
ASSUME NamesAssumption == None \notin Calls /\ None \notin Views /\ None \notin Nat
ASSUME PatienceAssumption == Patience \in Nat \ {0}
ASSUME BoundsAssumption == MaxGeneration \in Nat /\ MaxVersion \in Nat /\ MaxTrouble \in Nat
ASSUME RankedAssumption == Ranked \in [Hubs -> [Versions -> Seq(Items)]] /\ None \notin Items

VARIABLES
    up, world,      \* the Hubs: which can be reached, the version of each
    online, config, \* navigator.onLine; what settings.get() answers
    stopped, generation, attempt, streamAbort, retryTimer,  \* fields of HubClient
    age,            \* of lastStateAt: "never", "fresh", or "old" (STALE_AFTER_MS)
    call,           \* per slot, the call of connectAttempt and its connection
    phase,          \* what the user is told of the connection
    view, selected, \* the LabWorldModel
    trouble

hubVars == <<up, world>>
clientVars == <<stopped, generation, attempt, streamAbort, retryTimer, age, call>>
shownVars == <<phase, view, selected>>
vars == <<hubVars, online, config, clientVars, shownVars, trouble>>

-----------------------------------------------------------------------------
(* worldModel.ts.                                                          *)

orderedItems(v) == IF v = None THEN << >> ELSE Ranked[v.hub][v.version]

IdsIn(v) == {orderedItems(v)[i] : i \in DOMAIN orderedItems(v)}

\* apply: the selection stays if its item is still there.
SelectionIn(v) ==
    IF selected \in IdsIn(v) THEN selected
    ELSE IF orderedItems(v) = << >> THEN None ELSE Head(orderedItems(v))

\* acceptState: onState applies the snapshot.
Accept(h, version) ==
    /\ view' = [hub |-> h, version |-> version]
    /\ selected' = SelectionIn(view')
    /\ age' = "fresh"

Select(id) ==
    /\ id \in IdsIn(view) /\ selected' = id
    /\ UNCHANGED <<hubVars, online, config, clientVars, phase, view, trouble>>

\* From the selected item, or the first one if none is.
Move(delta) ==
    LET items == orderedItems(view)
        at == IF selected \in IdsIn(view) THEN CHOOSE i \in DOMAIN items : items[i] = selected ELSE 1
    IN  /\ items # << >>
        /\ selected' = items[((at - 1 + delta + Len(items)) % Len(items)) + 1]
        /\ UNCHANGED <<hubVars, online, config, clientVars, phase, view, trouble>>

-----------------------------------------------------------------------------
(* start, stop, and what the user and the browser do.                      *)

NoCall == [stage |-> "free", gen |-> 0, hub |-> None, link |-> "open", read |-> 0, sent |-> 0]

Stages == {"free", "state", "body", "stream", "reading"}

AnyGeneration(g) == ~ stopped
isCurrent(g) == ~ stopped /\ g = generation
NotStopped(c) == ~ stopped
isCurrentStream(c) == isCurrent(call[c].gen) /\ streamAbort = c

\* The calls after streamAbort.abort().
Aborted == IF streamAbort = None THEN call ELSE [call EXCEPT ![streamAbort].link = "aborted"]

\* The beginning of connectAttempt, up to the request for /state, in slot c.
Connecting(calls, c, g, h) ==
    /\ calls[c].stage = "free"
    /\ call' = [calls EXCEPT ![c] = [NoCall EXCEPT !.stage = "state", !.gen = g, !.hub = h,
                                         !.link = IF h \in up THEN "open" ELSE "lost"]]

stop ==
    /\ generation' = generation + 1
    /\ streamAbort' = None /\ retryTimer' = None

start(cfg) ==
    /\ stopped' = FALSE /\ attempt' = 0
    /\ streamAbort' = None /\ retryTimer' = None
    /\ IF cfg = None
       THEN generation' = generation + 1 /\ call' = Aborted /\ phase' = "unconfigured"
       ELSE /\ generation' = generation + 2 /\ phase' = "connecting"
            /\ \E c \in Calls : Connecting(Aborted, c, generation + 2, cfg)
    /\ UNCHANGED age

HubClientInit ==
    /\ up = Hubs /\ world = [h \in Hubs |-> 0] /\ online = TRUE /\ config = None
    /\ stopped = TRUE /\ generation = 0 /\ attempt = 0 /\ streamAbort = None
    /\ retryTimer = None /\ age = "never" /\ call = [c \in Calls |-> NoCall]
    /\ phase = "unconfigured" /\ view = None /\ selected = None /\ trouble = 0

\* The settings form is submitted.
Pair(h) == /\ generation < MaxGeneration /\ config' = h /\ start(h)
           /\ UNCHANGED <<hubVars, online, view, selected, trouble>>

\* The button "Forget token".
Forget == /\ config # None /\ generation < MaxGeneration
          /\ config' = None /\ stop /\ stopped' = TRUE /\ call' = Aborted
          /\ phase' = "unconfigured"
          /\ UNCHANGED <<hubVars, online, attempt, age, view, selected, trouble>>

\* The browser's "offline" event only changes what is shown; its "online" event
\* starts afresh.
GoOffline == /\ online /\ trouble < MaxTrouble /\ trouble' = trouble + 1
             /\ online' = FALSE /\ phase' = "offline"
             /\ UNCHANGED <<hubVars, config, clientVars, view, selected>>
GoOnline == /\ ~ online /\ online' = TRUE /\ start(config)
            /\ UNCHANGED <<hubVars, config, view, selected, trouble>>

\* More than STALE_AFTER_MS pass without a snapshot.
Age == /\ age = "fresh" /\ age' = "old"
       /\ UNCHANGED <<hubVars, online, config, stopped, generation, attempt, streamAbort,
                      retryTimer, call, shownVars, trouble>>

-----------------------------------------------------------------------------
(* scheduleReconnect and its timer.                                        *)

\* RECONNECT_DELAYS read as a list of all attempts there are.
ReconnectFewTimes(g) ==
    IF isCurrent(g) /\ retryTimer = None /\ attempt < Patience
    THEN phase' = "reconnecting" /\ attempt' = attempt + 1 /\ retryTimer' = g
    ELSE UNCHANGED <<phase, attempt, retryTimer>>

ReconnectSilently(g) ==
    IF isCurrent(g) /\ retryTimer = None
    THEN /\ attempt' = IF attempt < Patience THEN attempt + 1 ELSE attempt
         /\ retryTimer' = g /\ UNCHANGED phase
    ELSE UNCHANGED <<phase, attempt, retryTimer>>

scheduleReconnect(g) ==
    IF isCurrent(g) /\ retryTimer = None
    THEN /\ phase' = IF ~ online THEN "offline" ELSE IF age = "old" THEN "stale" ELSE "reconnecting"
         /\ attempt' = IF attempt < Patience THEN attempt + 1 ELSE attempt
         /\ retryTimer' = g
    ELSE UNCHANGED <<phase, attempt, retryTimer>>

TimerFires ==
    /\ retryTimer # None /\ retryTimer' = None
    /\ IF ~ stopped /\ config # None /\ retryTimer = generation
       THEN /\ phase' = IF attempt = 0 THEN "connecting" ELSE "reconnecting"
            /\ \E c \in Calls : Connecting(call, c, generation, config)
       ELSE UNCHANGED <<phase, call>>
    /\ UNCHANGED <<hubVars, online, config, stopped, generation, attempt, streamAbort, age,
                   view, selected, trouble>>

-----------------------------------------------------------------------------
(* connectAttempt, from await to await, for the call in slot c.            *)

Step(c) == UNCHANGED <<hubVars, online, config, stopped, generation>>

Return(c) == call' = [call EXCEPT ![c] = NoCall]

\* An error answer, or a body nobody can read: the Hub is at fault.
Fault == trouble < MaxTrouble /\ trouble' = trouble + 1

Refused(c) == call[c].link = "open" /\ call[c].hub \in Refusing

\* The response to GET /state, or none.
StateArrives(c) ==
    /\ call[c].stage = "state" /\ Step(c)
    /\ UNCHANGED <<streamAbort, age, view, selected>>
    /\ \/ call[c].link = "lost" /\ scheduleReconnect(call[c].gen) /\ Return(c) /\ UNCHANGED trouble
       \/ /\ call[c].link = "open" /\ ~ isCurrent(call[c].gen) /\ Return(c)
          /\ UNCHANGED <<phase, attempt, retryTimer, trouble>>
       \/ /\ Refused(c) /\ isCurrent(call[c].gen) /\ phase' = "auth_failed" /\ Return(c)
          /\ UNCHANGED <<attempt, retryTimer, trouble>>
       \/ /\ call[c].link = "open" /\ ~ Refused(c) /\ isCurrent(call[c].gen)
          /\ \/ Fault /\ scheduleReconnect(call[c].gen) /\ Return(c)
             \/ /\ call' = [call EXCEPT ![c].stage = "body", ![c].read = world[call[c].hub]]
                /\ UNCHANGED <<phase, attempt, retryTimer, trouble>>

\* Its body has been read: the snapshot is shown, and the stream requested.
BodyIsRead(c) ==
    /\ Accept(call[c].hub, call[c].read) /\ streamAbort' = c
    /\ call' = [call EXCEPT ![c].stage = "stream", ![c].read = 0,
                            ![c].link = IF call[c].hub \in up THEN "open" ELSE "lost"]
    /\ UNCHANGED <<phase, attempt, retryTimer, trouble>>

BodyArrives(c) ==
    /\ call[c].stage = "body" /\ Step(c)
    /\ \/ /\ ~ isCurrent(call[c].gen) /\ Return(c)
          /\ UNCHANGED <<phase, attempt, retryTimer, streamAbort, age, view, selected, trouble>>
       \/ /\ isCurrent(call[c].gen) /\ (Fault \/ (call[c].link = "lost" /\ UNCHANGED trouble))
          /\ scheduleReconnect(call[c].gen) /\ Return(c)
          /\ UNCHANGED <<streamAbort, age, view, selected>>
       \/ isCurrent(call[c].gen) /\ call[c].link = "open" /\ BodyIsRead(c)

\* The stream is given up: its request failed, or it has ended.
StreamFails(c) ==
    /\ streamAbort' = None /\ scheduleReconnect(call[c].gen) /\ Return(c)

\* A call that was overtaken while it awaited its stream.
StreamOvertaken(c) ==
    /\ call[c].stage \in {"stream", "reading"} /\ ~ isCurrentStream(c) /\ Step(c) /\ Return(c)
    /\ UNCHANGED <<phase, attempt, retryTimer, streamAbort, age, view, selected, trouble>>

\* The response to GET /stream, or none.  The Hub begins with a snapshot.
StreamOpens(c) ==
    /\ call[c].stage = "stream" /\ isCurrentStream(c) /\ Step(c)
    /\ UNCHANGED <<age, view, selected>>
    /\ \/ call[c].link = "lost" /\ StreamFails(c) /\ UNCHANGED trouble
       \/ /\ Refused(c) /\ streamAbort' = None /\ phase' = "auth_failed" /\ Return(c)
          /\ UNCHANGED <<attempt, retryTimer, trouble>>
       \/ /\ call[c].link = "open" /\ ~ Refused(c)
          /\ \/ Fault /\ StreamFails(c)
             \/ /\ attempt' = 0 /\ phase' = "live"
                /\ call' = [call EXCEPT ![c].stage = "reading", ![c].sent = world[call[c].hub] + 1,
                                        ![c].read = world[call[c].hub]]
                /\ UNCHANGED <<streamAbort, retryTimer, trouble>>

\* handleStreamEvent: a frame that shows the version before the one numbered
\* `read'` (frames are numbered from 1), or one that cannot be parsed.
Frame(c) ==
    /\ call[c].stage = "reading" /\ call[c].read < call[c].sent /\ Step(c)
    /\ isCurrentStream(c)
    /\ call' = [call EXCEPT ![c].read = @ + 1]
    /\ \/ /\ Accept(call[c].hub, call[c].read) /\ phase' = "live" /\ UNCHANGED trouble
       \/ /\ Fault /\ phase' = "malformed" /\ UNCHANGED <<age, view, selected>>
    /\ UNCHANGED <<attempt, streamAbort, retryTimer>>

\* The transport drops; frames not yet read may be lost with it.
StreamEnds(c) ==
    /\ call[c].stage = "reading" /\ call[c].link = "lost" /\ isCurrentStream(c) /\ Step(c)
    /\ StreamFails(c) /\ UNCHANGED <<age, view, selected, trouble>>

Proceed(c) ==
    \/ StateArrives(c) \/ BodyArrives(c) \/ StreamOpens(c)
    \/ Frame(c) \/ StreamEnds(c) \/ StreamOvertaken(c)

-----------------------------------------------------------------------------
(* The Hubs.                                                               *)

\* The Hub's process ends, or the network between loses it.
HubDown(h) ==
    /\ h \in up /\ trouble < MaxTrouble /\ trouble' = trouble + 1
    /\ up' = up \ {h}
    /\ call' = [c \in Calls |-> IF call[c].hub = h /\ call[c].link = "open"
                                THEN [call[c] EXCEPT !.link = "lost"] ELSE call[c]]
    /\ UNCHANGED <<world, online, config, stopped, generation, attempt, streamAbort,
                   retryTimer, age, shownVars>>

HubUp(h) ==
    /\ h \notin up /\ up' = up \cup {h}
    /\ UNCHANGED <<world, online, config, clientVars, shownVars, trouble>>

\* Its world changes, and every stream that is open is sent a frame.
Publish(h) ==
    /\ h \in up /\ world[h] < MaxVersion
    /\ world' = [world EXCEPT ![h] = @ + 1]
    /\ call' = [c \in Calls |->
                  IF call[c].stage = "reading" /\ call[c].hub = h /\ call[c].link = "open"
                  THEN [call[c] EXCEPT !.sent = @ + 1] ELSE call[c]]
    /\ UNCHANGED <<up, online, config, stopped, generation, attempt, streamAbort, retryTimer,
                   age, shownVars, trouble>>

\* What happens at a Hub that refuses the token is not seen.
Hub == \E h \in Hubs \ Refusing : HubDown(h) \/ HubUp(h) \/ Publish(h)

User ==
    \/ \E h \in Hubs : Pair(h)
    \/ Forget \/ GoOffline \/ GoOnline \/ Age
    \/ \E id \in IdsIn(view) : Select(id)
    \/ \E delta \in {1} : Move(delta)

HubClientNext == Hub \/ User \/ TimerFires \/ \E c \in Calls : Proceed(c)

\* The browser answers requests or fails them, fires timers and notices dropped
\* connections; a lost network comes back.
HubClientSpec ==
    /\ HubClientInit /\ [][HubClientNext]_vars
    /\ \A c \in Calls : WF_vars(Proceed(c))
    /\ WF_vars(TimerFires) /\ WF_vars(GoOnline)

-----------------------------------------------------------------------------
(* Properties.                                                             *)

\* Types.  Something is selected exactly when something is listed.
HubClientTypeOK ==
    /\ up \subseteq Hubs /\ world \in [Hubs -> Versions]
    /\ online \in BOOLEAN /\ config \in Hubs \cup {None} /\ stopped \in BOOLEAN
    /\ generation \in Nat /\ attempt \in 0..Patience
    /\ streamAbort \in Calls \cup {None} /\ retryTimer \in Nat \cup {None}
    /\ age \in {"never", "fresh", "old"}
    /\ call \in [Calls -> [stage : Stages, gen : Nat, hub : Hubs \cup {None},
                           link : {"open", "lost", "aborted"},
                           read : 0..(MaxVersion + 1), sent : 0..(MaxVersion + 1)]]
    /\ phase \in {"unconfigured", "connecting", "reconnecting", "offline", "stale",
                  "auth_failed", "malformed", "live"}
    /\ view \in Views \cup {None}
    /\ IF IdsIn(view) = {} THEN selected = None ELSE selected \in IdsIn(view)
    /\ trouble \in 0..MaxTrouble

\* "Live" is never said of anything else: while it is shown, the cards are those
\* of the Hub the client is paired with, and its stream is the one being read.
LiveIsHonest ==
    /\ HubClientTypeOK
    /\ phase = "live" =>
        /\ view # None /\ view.hub = config
        /\ streamAbort # None /\ call[streamAbort].stage = "reading"
        /\ call[streamAbort].hub = config /\ isCurrentStream(streamAbort)

\* However starts, timers and late answers interleave, the client carries on one
\* conversation: at most one call or one timer of this generation, and no connection
\* left open by an earlier one; none at all once the token is forgotten; and however
\* a request, a body or a stream ends, at least one as long as the client is paired
\* with a Hub that takes its token.
OneConversation ==
    /\ \A c, d \in Calls :
          call[c].stage # "free" /\ call[d].stage # "free" /\ isCurrent(call[c].gen)
          /\ isCurrent(call[d].gen) => c = d /\ retryTimer = None
    /\ \A c \in Calls :
          call[c].stage \in {"stream", "reading"} /\ call[c].link # "aborted" => isCurrentStream(c)
    /\ config = None => streamAbort = None /\ retryTimer = None
    /\ config \in Hubs \ Refusing =>
          \/ retryTimer = generation
          \/ \E c \in Calls :
                /\ call[c].stage # "free" /\ isCurrent(call[c].gen)
                /\ call[c].stage \in {"stream", "reading"} => isCurrentStream(c)

\* The cards change only to a state of the Hub the client is paired with now, and
\* never back to an older state of it: an answer that was under way when the user
\* paired anew, or when the stream was opened, does not overwrite a later one.
ViewFollowsPairing ==
    [][view' # view =>
          /\ view'.hub = config
          /\ view # None /\ view.hub = view'.hub => view'.version >= view.version]_vars

\* Once the client stays paired with a Hub that stays reachable, it ends up showing
\* the state of that Hub, live, or saying that it cannot read what the Hub sends.
Reconnects ==
    \A h \in Hubs \ Refusing :
        <>[](config = h /\ h \in up /\ online) =>
            <>[](phase = "malformed" \/ (phase = "live" /\ view = [hub |-> h, version |-> world[h]]))

=============================================================================
