------------------------------- MODULE Opencode -------------------------------
(***************************************************************************)
(* How the Hub follows an opencode server (packages/adapter-opencode): one *)
(* connection to /event, read line by line and opened again on a timer     *)
(* when it ends or breaks; each event becomes a signal, a heartbeat of the *)
(* whole source, or nothing.  What the user is told follows from it: the   *)
(* item in the world-model, and the push of packages/adapter-ntfy when an  *)
(* item starts to ask for attention.                                       *)
(*                                                                         *)
(* The delay of the timer is left out: it grows with every connection, up  *)
(* to a maximum.  There is no replay: what a server reports while nothing  *)
(* is connected is never heard.                                            *)
(***************************************************************************)
EXTENDS Naturals, Sequences, SequencesExt

CONSTANTS
    Sessions, None,
    Texts,        \* what the fields of an event that are searched may contain
    Blank,        \* the empty line that ends an event
    MaxReports,   \* bound on the reports of a session
    MaxBreaks    \* bound on broken streams, restarts of either side

ASSUME BoundsAssumption == MaxReports \in Nat /\ MaxBreaks \in Nat
ASSUME NamesAssumption ==
    Blank # None /\ {Blank, None} \cap [session : Sessions, n : Nat] = {}

VARIABLES
    server,       \* the opencode server can be reached
    reports,      \* per session, the states it reported: what the text stands for
    stream,       \* the server's end of the connection: "none", "open", "ended"
    wire,         \* the lines sent on it and not read yet
    hub,          \* the Hub's process runs
    conn,         \* SseClient: "stopped", "fetching", "reading", "waiting"
    pending,      \* readEventStream's unfinished event
    shown,        \* per session, the report its item shows (0: no item)
    notifiable,   \* NtfyNotifier's map
    breaks,
    said,         \* per session, its last signal on this stream (history)
    rises, notices, restarts    \* history

clientVars == <<hub, conn, pending>>
serverVars == <<server, reports, stream, wire>>
told == <<shown, notifiable, rises, notices>>
vars == <<serverVars, clientVars, told, breaks, said, restarts>>

-----------------------------------------------------------------------------
(* map.ts.                                                                 *)

\* What the searched fields contain, as the phrases of each classifier.
isBlocked(text) == "blocked" \in text
isErrored(text) == "error" \in text
isDone(text)    == "done" \in text

\* The first classifier that matches names the state.
mapEvent(text) ==
    IF isBlocked(text) THEN "blocked"
    ELSE IF isErrored(text) THEN "error"
    ELSE IF isDone(text) THEN "done"
    ELSE "heartbeat"

IsSignal(text) == mapEvent(text) # "heartbeat"

-----------------------------------------------------------------------------
(* The items of the source, and ntfy.                                      *)

StateAt(s, n) == IF n = 0 THEN "none" ELSE mapEvent(reports[s][n])

\* Attention as enforceOwnership leaves it, at the severity mapEvent gives.
isNotifiable(s, n) == StateAt(s, n) \in {"blocked", "error"}

\* A heartbeat moves the deadline of the items that are not in a terminal state.
Vouched == {s \in Sessions : StateAt(s, shown[s]) = "blocked"}

\* maybeNotify, for the items a change of the world upserts: the map is set before
\* the publish, which may fail and is not repeated.
Announced(map, upserted, items) ==
    {s \in upserted : ~ map[s] /\ isNotifiable(s, items[s])}

Recorded(map, upserted, items) ==
    [s \in Sessions |-> IF s \in upserted THEN isNotifiable(s, items[s]) ELSE map[s]]

CountIn(count, set) == [s \in Sessions |-> count[s] + IF s \in set THEN 1 ELSE 0]

\* The items keep their state; those upserted again are announced if new to ntfy.
Refresh(upserted) ==
    /\ notices' = CountIn(notices, Announced(notifiable, upserted, shown))
    /\ notifiable' = Recorded(notifiable, upserted, shown)
    /\ UNCHANGED <<shown, rises>>

\* The heartbeat's upserts, then the signal's.
Emit(s, n) ==
    LET heard == Recorded(notifiable, Vouched, shown)
    IN  /\ shown' = [shown EXCEPT ![s] = n]
        /\ rises' = CountIn(rises, IF isNotifiable(s, n) /\ ~ isNotifiable(s, shown[s])
                                   THEN {s} ELSE {})
        /\ notifiable' = Recorded(heard, {s}, shown')
        /\ notices' = CountIn(CountIn(notices, Announced(notifiable, Vouched, shown)),
                              Announced(heard, {s}, shown'))

\* The adapter's handler: heartbeat, then emit what mapEvent makes of the event.
Handle(event) ==
    IF IsSignal(reports[event.session][event.n])
    THEN Emit(event.session, event.n) ELSE Refresh(Vouched)

\* The ticker upserts an item whose liveness changed.
Ticks(s) ==
    /\ hub /\ s \in Vouched
    /\ Refresh({s})
    /\ UNCHANGED <<serverVars, clientVars, breaks, said, restarts>>

-----------------------------------------------------------------------------
(* The opencode server.                                                    *)

Event(s, n) == [session |-> s, n |-> n]

Reports(s, text) ==
    /\ server /\ Len(reports[s]) < MaxReports
    /\ reports' = [reports EXCEPT ![s] = Append(@, text)]
    /\ wire' = IF stream = "open"
               THEN wire \o <<Event(s, Len(reports'[s])), Blank>> ELSE wire
    /\ said' = IF stream = "open" /\ IsSignal(text)
               THEN [said EXCEPT ![s] = Len(reports'[s])] ELSE said
    /\ UNCHANGED <<server, stream, clientVars, told, breaks, restarts>>

\* It ends the stream, at the end of an event or before the empty line, and may be
\* going down.
ServerEnds(cut, stays) ==
    /\ server /\ breaks < MaxBreaks
    /\ breaks' = breaks + 1
    /\ server' = stays
    /\ stream' = IF stream = "open" THEN "ended" ELSE stream
    /\ wire' = IF cut /\ stream = "open" /\ wire # << >> THEN Front(wire) ELSE wire
    /\ UNCHANGED <<reports, clientVars, told, said, restarts>>

ServerStarts ==
    /\ ~ server
    /\ server' = TRUE
    /\ UNCHANGED <<reports, stream, wire, clientVars, told, breaks, said, restarts>>

-----------------------------------------------------------------------------
(* SseClient.                                                              *)

NoStream == stream' = "none" /\ wire' = << >>

Silent == [s \in Sessions |-> 0]

\* connect: the response is there, or the attempt fails and the timer is set.
Connects ==
    /\ conn = "fetching"
    /\ IF server THEN /\ conn' = "reading" /\ stream' = "open" /\ wire' = << >>
       ELSE /\ conn' = "waiting" /\ UNCHANGED <<stream, wire>>
    /\ said' = Silent
    /\ UNCHANGED <<server, reports, hub, pending, told, breaks, restarts>>

\* processLine: a line of data is kept, an empty one dispatches what was kept.
ReadsLine ==
    /\ conn = "reading" /\ wire # << >>
    /\ wire' = Tail(wire)
    /\ IF Head(wire) # Blank
       THEN /\ pending' = Head(wire) /\ UNCHANGED told
       ELSE /\ pending' = None
            /\ IF pending = None THEN UNCHANGED told ELSE Handle(pending)
    /\ UNCHANGED <<server, reports, stream, hub, conn, breaks, said, restarts>>

\* A mutant: only an error makes the client reconnect.
EndsForGood ==
    /\ conn = "reading" /\ stream = "ended" /\ wire = << >>
    /\ IF pending = None THEN UNCHANGED told ELSE Handle(pending)
    /\ pending' = None
    /\ conn' = "stopped" /\ NoStream
    /\ UNCHANGED <<server, reports, hub, breaks, said, restarts>>

\* A mutant: an event without its empty line is discarded.
EndsAtTheLastEvent ==
    /\ conn = "reading" /\ stream = "ended" /\ wire = << >>
    /\ pending' = None
    /\ conn' = "waiting" /\ NoStream
    /\ UNCHANGED <<server, reports, hub, told, breaks, said, restarts>>

\* The end of the stream dispatches the rest of it, and the client reconnects.
StreamEnds ==
    /\ conn = "reading" /\ stream = "ended" /\ wire = << >>
    /\ IF pending = None THEN UNCHANGED told ELSE Handle(pending)
    /\ pending' = None
    /\ conn' = "waiting" /\ NoStream
    /\ UNCHANGED <<server, reports, hub, breaks, said, restarts>>

\* The read fails: what was kept is gone.
StreamBreaks ==
    /\ conn = "reading" /\ breaks < MaxBreaks
    /\ breaks' = breaks + 1
    /\ pending' = None
    /\ conn' = "waiting" /\ NoStream
    /\ said' = Silent
    /\ UNCHANGED <<server, reports, hub, told, restarts>>

TimerFires ==
    /\ conn = "waiting"
    /\ conn' = "fetching"
    /\ UNCHANGED <<serverVars, hub, pending, told, breaks, said, restarts>>

\* The Hub stops or crashes: the stream and the timer go, the items stay.
HubStops ==
    /\ hub /\ breaks < MaxBreaks
    /\ breaks' = breaks + 1
    /\ hub' = FALSE /\ conn' = "stopped" /\ pending' = None /\ NoStream
    /\ said' = Silent
    /\ UNCHANGED <<server, reports, told, restarts>>

\* A new process: ntfy knows of no item.
HubStarts ==
    /\ ~ hub
    /\ hub' = TRUE /\ conn' = "fetching"
    /\ notifiable' = [s \in Sessions |-> FALSE]
    /\ restarts' = restarts + 1
    /\ UNCHANGED <<serverVars, pending, shown, rises, notices, breaks, said>>

-----------------------------------------------------------------------------
OpencodeInit ==
    /\ server \in BOOLEAN
    /\ reports = [s \in Sessions |-> << >>]
    /\ stream = "none" /\ wire = << >>
    /\ hub = TRUE /\ conn = "fetching" /\ pending = None
    /\ shown = [s \in Sessions |-> 0]
    /\ notifiable = [s \in Sessions |-> FALSE]
    /\ breaks = 0
    /\ said = Silent
    /\ rises = [s \in Sessions |-> 0] /\ notices = [s \in Sessions |-> 0]
    /\ restarts = 0

Client == Connects \/ ReadsLine \/ StreamEnds \/ TimerFires

OpencodeNext ==
    \/ \E s \in Sessions, text \in Texts : Reports(s, text)
    \/ \E cut \in BOOLEAN, stays \in BOOLEAN : ServerEnds(cut, stays)
    \/ ServerStarts
    \/ Client \/ StreamBreaks
    \/ HubStops \/ HubStarts
    \/ \E s \in Sessions : Ticks(s)

\* The event loop runs the client's callbacks and timers; a server that can be
\* reached answers.
OpencodeSpec == OpencodeInit /\ [][OpencodeNext]_vars /\ WF_vars(Client)

-----------------------------------------------------------------------------
OpencodeTypeOK ==
    /\ server \in BOOLEAN /\ \A s \in Sessions : \A i \in DOMAIN reports[s] : reports[s][i] \in Texts
    /\ stream \in {"none", "open", "ended"}
    /\ conn \in {"stopped", "fetching", "reading", "waiting"}
    /\ hub \in BOOLEAN /\ (hub <=> conn # "stopped")
    /\ conn = "reading" <=> stream # "none"
    /\ pending # None => conn = "reading"
    /\ \A s \in Sessions : shown[s] \in 0..Len(reports[s]) /\ notifiable[s] \in BOOLEAN
    /\ breaks \in 0..MaxBreaks

\* A push for every time an item starts to ask for attention, and one: however
\* often the item is upserted meanwhile.  Only a restart, which forgets the map,
\* can push the same rise again (the test says "same item updated while still
\* attentionRequired does not publish again").
OneNoticePerRise ==
    \A s \in Sessions : rises[s] <= notices[s] /\ notices[s] <= rises[s] + restarts

\* What a stream that was read to its last line said of a session is what the item
\* shows, also when the stream ended before the empty line; and each rise of an
\* item is pushed once.
HeardIsShown ==
    /\ OpencodeTypeOK
    /\ OneNoticePerRise
    /\ (conn = "reading" => wire = << >> /\ pending = None) =>
           \A s \in Sessions : said[s] \in {0, shown[s]}

NeverBack == \A s \in Sessions : shown'[s] >= shown[s]

\* Whatever broke in between, an item never goes back to an earlier report; and
\* while the server can be reached and the Hub runs, the client ends up reading.
FollowsTheServer ==
    /\ [][NeverBack]_shown
    /\ <>[](server /\ hub) => <>[](conn = "reading")
=============================================================================
