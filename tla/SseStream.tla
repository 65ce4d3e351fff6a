------------------------------ MODULE SseStream ------------------------------
(***************************************************************************)
(* GET /stream: the Hub's broadcaster with its bounded replay ring, the    *)
(* state streams subscribed to it (apps/hub/src/http/sse.ts,               *)
(* createHubBroadcaster in http/server.ts), and clients that read frames,  *)
(* lose their connection, and reconnect with the Last-Event-ID they have   *)
(* seen or without one.                                                    *)
(*                                                                         *)
(* The world is a version number: every change of it is published in the   *)
(* same synchronous callback as a full snapshot, and it survives a restart *)
(* of the Hub.  A stream's client may leave long before the runtime        *)
(* notices; from then on enqueue throws, and cancel() may or may not come. *)
(***************************************************************************)
EXTENDS Integers, Sequences, FiniteSets

CONSTANTS
    Clients, Streams,
    NoClient,
    BufferSize,     \* frames the ring retains (256 in the Hub)
    MaxWorld,       \* bound on world changes
    MaxRestarts     \* bound on restarts of the Hub

ASSUME BufferAssumption == BufferSize \in Nat \ {0}
ASSUME NoneAssumption == NoClient \notin Clients
ASSUME BoundAssumption == MaxWorld \in Nat /\ MaxRestarts \in Nat

VARIABLES
    world,      \* version of the world-model; the first is 1
    epoch,      \* the boot time that seeds the ids of this run
    lastId,     \* id of the last frame published
    ring,       \* the last frames, oldest first
    link,       \* per stream: free, open, left by its client, or broken
    owner,      \* per stream, the client it was opened for
    pending,    \* per stream, the frames its client has not read
    listeners,  \* the streams subscribed to the broadcaster
    view,       \* per client, the version shown; 0 before the first frame
    seen,       \* per client, its Last-Event-ID; 0 when it has none
    restarts

hubVars    == <<world, epoch, lastId, ring>>
streamVars == <<link, owner, pending, listeners>>
clientVars == <<view, seen>>
sseVars    == <<hubVars, streamVars, clientVars, restarts>>

Frame == [id : Nat, state : Nat, fresh : BOOLEAN]

SseTypeOK ==
    /\ world \in Nat /\ epoch \in Nat /\ lastId \in Nat /\ restarts \in Nat
    /\ ring \in Seq(Frame)
    /\ link \in [Streams -> {"free", "open", "left", "broken"}]
    /\ owner \in [Streams -> Clients \cup {NoClient}]
    /\ pending \in [Streams -> Seq(Frame)]
    /\ listeners \subseteq Streams
    /\ view \in [Clients -> Nat] /\ seen \in [Clients -> Nat]

SseInit ==
    /\ world = 1 /\ epoch = 1 /\ lastId = 1 /\ ring = << >>
    /\ link = [s \in Streams |-> "free"]
    /\ owner = [s \in Streams |-> NoClient]
    /\ pending = [s \in Streams |-> << >>]
    /\ listeners = {}
    /\ view = [c \in Clients |-> 0] /\ seen = [c \in Clients |-> 0]
    /\ restarts = 0

Reading(c, s) == owner[s] = c /\ link[s] = "open"

Connected(c) == \E s \in Streams : Reading(c, s)

-----------------------------------------------------------------------------
(* The ring.                                                               *)

\* push, then shift from the front down to the buffer size.
Push(frame) ==
    LET longer == Append(ring, frame)
    IN  IF Len(longer) > BufferSize
        THEN SubSeq(longer, Len(longer) - BufferSize + 1, Len(longer)) ELSE longer

\* replaySince answers null: the id is of another run, or older than the ring.
UnreplayableButForTheRing(id) ==
    /\ id # lastId
    /\ id > lastId \/ id < epoch \/ ring = << >>

Unreplayable(id) ==
    /\ id # lastId
    /\ \/ id > lastId \/ id < epoch
       \/ ring = << >>
       \/ id < ring[1].id - 1

\* The frames after id.  Ids ascend, so the filter keeps a suffix of the ring.
WholeRing(id) == ring

Missed(id) ==
    LET k == CHOOSE k \in 0 .. Len(ring) :
                \A i \in DOMAIN ring : ring[i].id > id <=> i > k
    IN  SubSeq(ring, k + 1, Len(ring))

-----------------------------------------------------------------------------
(* The Hub.                                                                *)

\* What write() does to the streams it is called for: a frame queued on a
\* connection, swallowed by one whose client has left, or a throw, upon which
\* the stream tears itself down.
KeepOnThrow(targets) == UNCHANGED <<link, owner, listeners>>

TearDownBroken(targets) ==
    LET broken == {s \in targets : link[s] = "broken"}
    IN  /\ link' = [s \in Streams |-> IF s \in broken THEN "free" ELSE link[s]]
        /\ owner' = [s \in Streams |-> IF s \in broken THEN NoClient ELSE owner[s]]
        /\ listeners' = listeners \ broken

\* world:changed: the snapshot is published to the ring and to every listener.
PublishUntilThrow ==
    /\ world < MaxWorld
    /\ world' = world + 1 /\ lastId' = lastId + 1
    /\ LET frame == [id |-> lastId + 1, state |-> world + 1, fresh |-> FALSE]
       IN  /\ ring' = Push(frame)
           /\ pending' = [s \in Streams |->
                  IF /\ s \in listeners /\ link[s] = "open"
                     /\ \A t \in listeners : link[t] # "broken"
                  THEN Append(pending[s], frame) ELSE pending[s]]
    /\ TearDownBroken(listeners)
    /\ UNCHANGED <<epoch, clientVars, restarts>>

Publish ==
    /\ world < MaxWorld
    /\ world' = world + 1 /\ lastId' = lastId + 1
    /\ LET frame == [id |-> lastId + 1, state |-> world + 1, fresh |-> FALSE]
       IN  /\ ring' = Push(frame)
           /\ pending' = [s \in Streams |->
                  IF s \in listeners /\ link[s] = "open"
                  THEN Append(pending[s], frame) ELSE pending[s]]
    /\ TearDownBroken(listeners)
    /\ UNCHANGED <<epoch, clientVars, restarts>>

\* A request with Last-Event-ID `id` (0: none): replay what was missed, or a
\* fresh snapshot stamped with the current id; then subscribe.
Connect(c, s, id) ==
    /\ ~ Connected(c) /\ link[s] = "free"
    /\ link' = [link EXCEPT ![s] = "open"]
    /\ owner' = [owner EXCEPT ![s] = c]
    /\ pending' = [pending EXCEPT ![s] =
           IF id = 0 \/ Unreplayable(id)
           THEN << [id |-> lastId, state |-> world, fresh |-> TRUE] >>
           ELSE IF id = lastId THEN << >> ELSE Missed(id)]
    /\ listeners' = listeners \cup {s}
    /\ UNCHANGED <<hubVars, clientVars, restarts>>

\* The keepalive interval of a subscribed stream; the client ignores pings.
Ping(s) ==
    /\ s \in listeners
    /\ TearDownBroken({s})
    /\ UNCHANGED <<hubVars, pending, clientVars, restarts>>

\* The runtime cancels a stream whose client is gone.
Cancel(s) ==
    /\ link[s] \in {"left", "broken"}
    /\ link' = [link EXCEPT ![s] = "free"]
    /\ owner' = [owner EXCEPT ![s] = NoClient]
    /\ listeners' = listeners \ {s}
    /\ UNCHANGED <<hubVars, pending, clientVars, restarts>>

\* The Hub stops and boots again.  Ids are seeded from the boot time, which is
\* later than every id of the run before: the clock does not step back, and no
\* run publishes more than one frame per millisecond.
Restart ==
    /\ restarts < MaxRestarts
    /\ restarts' = restarts + 1
    /\ epoch' \in {lastId + 1, lastId + 2} /\ lastId' = epoch'
    /\ ring' = << >>
    /\ link' = [s \in Streams |-> "free"]
    /\ owner' = [s \in Streams |-> NoClient]
    /\ pending' = [s \in Streams |-> << >>]
    /\ listeners' = {}
    /\ UNCHANGED <<world, clientVars>>

-----------------------------------------------------------------------------
(* The clients and the network.                                            *)

Read(c, s) ==
    /\ Reading(c, s) /\ pending[s] # << >>
    /\ view' = [view EXCEPT ![c] = Head(pending[s]).state]
    /\ seen' = [seen EXCEPT ![c] = Head(pending[s]).id]
    /\ pending' = [pending EXCEPT ![s] = Tail(@)]
    /\ UNCHANGED <<hubVars, link, owner, listeners, restarts>>

\* The connection is lost, or closed by the client, with frames unread.
Leave(s) ==
    /\ link[s] = "open"
    /\ link' = [link EXCEPT ![s] = "left"]
    /\ pending' = [pending EXCEPT ![s] = << >>]
    /\ UNCHANGED <<hubVars, owner, listeners, clientVars, restarts>>

\* The runtime notices: from now on enqueue throws.
Notice(s) ==
    /\ link[s] = "left"
    /\ link' = [link EXCEPT ![s] = "broken"]
    /\ UNCHANGED <<hubVars, owner, pending, listeners, clientVars, restarts>>

\* The page is opened anew: nothing shown, no Last-Event-ID.
Reload(c) ==
    /\ ~ Connected(c) /\ seen[c] # 0
    /\ view' = [view EXCEPT ![c] = 0] /\ seen' = [seen EXCEPT ![c] = 0]
    /\ UNCHANGED <<hubVars, streamVars, restarts>>

SseNext ==
    \/ Publish
    \/ \E c \in Clients, s \in Streams : \E id \in {0, seen[c]} : Connect(c, s, id)
    \/ \E s \in Streams : Ping(s)
    \/ \E s \in Streams : Cancel(s)
    \/ Restart
    \/ \E c \in Clients, s \in Streams : Read(c, s)
    \/ \E s \in Streams : Leave(s)
    \/ \E s \in Streams : Notice(s)
    \/ \E c \in Clients : Reload(c)

SseSafetySpec == SseInit /\ [][SseNext]_sseVars

\* The interval timer fires, and the runtime notices that a client is gone.
SseFairness == \A s \in Streams : WF_sseVars(Ping(s)) /\ WF_sseVars(Notice(s))

SseSpec == SseSafetySpec /\ SseFairness

-----------------------------------------------------------------------------
(* Properties.                                                             *)

\* "Either way the stream is consistent after the first frame": once a
\* connected client has read what is queued for it, it shows the present
\* world.  No frame is lost between replay or snapshot and subscription, to a
\* restart, to eviction from the ring, or to another client's dead stream.
InSync ==
    \A c \in Clients, s \in Streams :
        Reading(c, s) =>
            world = IF pending[s] = << >> THEN view[c] ELSE pending[s][Len(pending[s])].state

\* "You receive exactly the missed events and no snapshot; otherwise a fresh
\* snapshot": what a client reads is the frame right after the last one it
\* has seen, or a snapshot.  Nothing is skipped, repeated or reordered.
ExactlyTheMissed ==
    \A c \in Clients, s \in Streams :
        Reading(c, s) =>
            \A i \in DOMAIN pending[s] :
                \/ pending[s][i].fresh
                \/ pending[s][i].id = 1 + IF i = 1 THEN seen[c] ELSE pending[s][i - 1].id

\* A page that stays open never shows an older world than it has shown,
\* whatever it resumes from and however often the Hub restarts.
ViewNeverGoesBack ==
    [][\A c \in Clients : view'[c] >= view[c] \/ seen'[c] = 0]_sseVars

\* The ring holds the newest frames, without gaps, and never more than its
\* size; ids of this run lie between epoch and lastId.
RingIsRecent ==
    /\ Len(ring) <= BufferSize
    /\ epoch + Len(ring) <= lastId
    /\ \A i \in DOMAIN ring : /\ ring[i].id = lastId - (Len(ring) - i)
                              /\ ring[i].state = world - (Len(ring) - i)

\* A stream nobody reads is dropped in the end, even if cancel() never comes:
\* dead listeners do not pile up in the broadcaster.
DeadStreamsAreReleased ==
    \A s \in Streams : link[s] \in {"left", "broken"} ~> s \notin listeners

=============================================================================
