---------------------------- MODULE VoiceGateway ----------------------------
(***************************************************************************)
(* The Hub's voice gateway (apps/hub/src/voice/gateway.ts): one session    *)
(* per client in a bounded LRU, numbered requests that are retried,        *)
(* delayed and overtaken, and awaits (transcription, the intent service,   *)
(* the dispatch) between reading a session and committing to it.           *)
(*                                                                         *)
(* A request (client, generation) may arrive any number of times, in any   *)
(* order; each arrival is a handler of its own.  What the Hub took each    *)
(* generation to mean is kept as history, and forgotten, like the session, *)
(* when the session is dropped.                                            *)
(***************************************************************************)
EXTENDS VoiceSession, Sequences, FiniteSets

CONSTANTS
    Clients, Handlers,
    Says,           \* per client and generation, the utterances it may make
    MaxSessions,    \* maxClientSessions
    SessionTtl,     \* at least ConfirmTtl
    MaxRetries,     \* bound on repeated arrivals of a request
    MaxNow          \* bound on time

ASSUME SaysAssumption == Says \in [Clients -> Seq(SUBSET Utterance)]
ASSUME SizeAssumption == MaxSessions \in Nat \ {0}
ASSUME SessionTtlAssumption == SessionTtl \in Nat /\ SessionTtl >= ConfirmTtl /\ MaxNow \in Nat
    /\ MaxRetries \in Nat
Reply == [kind : {"dispatch", "dispatchIntent", "armed", "armedDispatch", "dictation_prompt",
                  "dictation_readback", "noMatch", "cancelled", "navigate", "unheard",
                  "rejected", "failed"},
          item : Items \cup {None}, action : Actions \cup {None}]

\* What a request may have been taken to mean: an intent, or, of a request that
\* has outlived its session, "orphan".
Meanings == {"action", "dictate", "confirm", "dictation_body", "post", "dispatch_task",
             "confirm_dispatch", "cancel", "navigate", "no_match", "orphan"}

Taken == [kind : Meanings, item : Items \cup {None}, action : Actions \cup {None},
          free : BOOLEAN, at : Nat]

ASSUME NoneIsNothing == None \notin Clients \cup Handlers \cup Utterance
    /\ None \notin Reply /\ None \notin Taken

VARIABLES
    now,
    newer,      \* the Map's order: per client, the sessions stored after its own
    entry,      \* per client, its session, generation, result or promise
    handler,    \* the arrivals being handled or just answered
    said,       \* per client and generation, the utterance
    retries,    \* requests that have arrived again
    took        \* history: the intent committed for it, and when

gatewayVars == <<now, newer, entry, handler, said, retries, took>>

Generations(c) == DOMAIN Says[c]
NoEntry == [session |-> Empty, generation |-> 0, usedAt |-> 0, result |-> None, inFlight |-> None]
Retained == {c \in Clients : entry[c].generation > 0}

Idle == [stage |-> "idle", client |-> None, generation |-> 0, base |-> Empty, reply |-> None,
         awaits |-> None, ran |-> FALSE, retained |-> FALSE]

Cancelled == Effect("cancelled", None, None)
Unheard == Effect("unheard", None, None)
Rejected == Effect("rejected", None, None)

\* A session, and the clone a request works on, is in one mode at most; an entry
\* has a result or awaits one; a session that is dropped leaves nothing behind.
VoiceTypeOK ==
    /\ now \in 0 .. MaxNow
    /\ Cardinality(Retained) <= MaxSessions
    /\ \A c \in Clients :
        LET e == entry[c]
        IN  /\ e.session.confirm \in Arm \cup {None}
            /\ e.session.dictating \in Draft \cup {None}
            /\ e.session.dispatch \in [at : Nat] \cup {None}
            /\ OneMode(e.session)
            /\ e.generation \in 0 .. Len(Says[c]) /\ e.usedAt \in 0 .. MaxNow
            /\ e.result \in Reply \cup {None} /\ e.inFlight \in Handlers \cup {None}
            /\ e.result = None \/ e.inFlight = None
            /\ c \notin Retained => e = NoEntry
    /\ \A h \in Handlers :
        /\ handler[h].stage \in {"idle", "hearing", "interpreting", "replying", "joined", "answered"}
        /\ handler[h].reply \in Reply \cup {None}
        /\ handler[h].awaits \in Handlers \cup {None}
        /\ OneMode(handler[h].base)

VoiceInit ==
    /\ now = 0 /\ retries = 0
    /\ newer = [c \in Clients |-> {}] /\ entry = [c \in Clients |-> NoEntry]
    /\ handler = [h \in Handlers |-> Idle]
    /\ said = [c \in Clients |-> [g \in Generations(c) |-> None]]
    /\ took = [c \in Clients |-> [g \in Generations(c) |-> None]]

-----------------------------------------------------------------------------
(* The sessions.                                                           *)

Fresh(c) == c \in Retained /\ entry[c].usedAt >= now - SessionTtl

\* pruneSessions, expiry first: the sessions it leaves.
Live == {c \in Clients : Fresh(c)}

\* Those in kept keep their sessions; the sessions of the others are gone, and
\* so is what is known of their past.  e is c's entry, hs the handlers, t what
\* c's request on h was taken to mean.
Update(c, e, h, hs, t, kept, after) ==
    LET reborn == IF handler[h].stage = "idle" /\ ~ Fresh(c) THEN {c} ELSE {}
        lost == (Clients \ kept) \cup reborn
    IN  /\ newer' = [x \in Clients |-> IF x \in kept THEN after[x] \cap kept ELSE {}]
        /\ entry' = [x \in Clients |->
               IF x \notin kept THEN NoEntry ELSE IF x = c THEN e ELSE entry[x]]
        /\ handler' = [x \in Handlers |->
               [hs[x] EXCEPT !.retained = @ /\ handler[x].client \notin lost]]
        /\ took' = [x \in Clients |->
               LET past == IF x \in lost THEN [g \in Generations(x) |-> None] ELSE took[x]
               IN  IF x = c /\ t # None THEN [past EXCEPT ![hs[h].generation] = t] ELSE past]

\* storeSession: c becomes the most recently used; the oldest beyond the
\* capacity are dropped.
Store(c, e, h, hs, t) ==
    LET live == Live \cup {c}
        after == [x \in Clients |-> IF x = c THEN {} ELSE (newer[x] \cap live) \cup {c}]
    IN  Update(c, e, h, hs, t, {x \in live : Cardinality(after[x]) < MaxSessions}, after)

With(h, q) == [handler EXCEPT ![h] = q]

-----------------------------------------------------------------------------
(* The pipeline.                                                           *)

StillRetained(q) == q.client \in Retained

IsCurrent(q) == q.client \in Retained /\ entry[q.client].generation = q.generation

\* reduce, commitSession and the call that the effect makes, in one callback.
\* e is the entry to commit to.
Perform(h, q, e, intent, freeform) ==
    LET step == reduce(q.base, intent, now, freeform)
    IN  Store(q.client, [e EXCEPT !.session = step.next, !.usedAt = now], h,
              With(h, [q EXCEPT !.stage = "replying", !.reply = step.effect, !.ran = TRUE,
                                !.base = Empty]),
              [kind |-> IF q.retained THEN intent.kind ELSE "orphan", item |-> intent.item,
               action |-> intent.action, free |-> freeform, at |-> now])

\* From the transcript: grammar, or a wait for the intent service.
Understand(h, q, e, u) ==
    LET intent == parse(u, q.base)
    IN  IF intent.kind = "unknown"
        THEN Store(q.client, e, h, With(h, [q EXCEPT !.stage = "interpreting"]), None)
        ELSE Perform(h, q, e, intent, FALSE)

Answered(q, reply) == [q EXCEPT !.stage = "answered", !.reply = reply, !.awaits = None, !.base = Empty]

\* handle waits for the transcript, handleText has its words, cancel needs none.
Begin(h, c, q, e, u) ==
    CASE u.route = "audio" -> Store(c, e, h, With(h, [q EXCEPT !.stage = "hearing"]), None)
      [] u.route = "text" -> Understand(h, q, e, u)
      [] u.route = "cancel" -> Perform(h, q, e, Plain("cancel"), FALSE)

\* sessionForRequest finds no newer generation: the request runs, on a clone of
\* the session, and its entry forgets the result of the one before.
Run(h, c, g, u) ==
    LET base == IF Fresh(c) THEN entry[c].session ELSE Empty
        q == [Idle EXCEPT !.client = c, !.generation = g, !.base = base, !.retained = TRUE]
        e == [session |-> base, generation |-> g, usedAt |-> now, result |-> None, inFlight |-> h]
    IN  Begin(h, c, q, e, u)

\* An exact retry: the recorded result, the promise, or else "Cancelled.".
RetryByRunning(h, c, g, u) == Run(h, c, g, u)

Retry(h, c, g, u) ==
    LET e == [entry[c] EXCEPT !.usedAt = now]
        q == [Idle EXCEPT !.client = c, !.generation = g, !.retained = TRUE]
    IN  Store(c, e, h,
              With(h, IF e.result # None THEN Answered(q, e.result)
                      ELSE IF e.inFlight # None
                      THEN [q EXCEPT !.stage = "joined", !.awaits = e.inFlight]
                      ELSE Answered(q, Cancelled)), None)

\* An older generation is cancelled and changes no session; expired ones go.
Overtaken(h, c, g) ==
    LET q == [Idle EXCEPT !.client = c, !.generation = g, !.retained = TRUE]
    IN  Update(c, entry[c], h, With(h, Answered(q, Cancelled)), None, Live, newer)

HandleRequest(h, c, g, u) ==
    IF ~ Fresh(c) THEN Run(h, c, g, u)
    ELSE IF g < entry[c].generation THEN Overtaken(h, c, g)
    ELSE IF g = entry[c].generation THEN Retry(h, c, g, u)
    ELSE Run(h, c, g, u)

\* A request, or its retry, on one of the three routes.  One that the route
\* refuses (503, 400) changes nothing.
Arrive(h, c, g, u) ==
    /\ handler[h] = Idle
    /\ \/ said[c][g] = None /\ UNCHANGED retries
       \/ said[c][g] = u /\ retries < MaxRetries /\ retries' = retries + 1
    /\ said' = [said EXCEPT ![c][g] = u]
    /\ HandleRequest(h, c, g, u)
    /\ UNCHANGED now

SetAside(h, q) == handler' = With(h, q) /\ UNCHANGED <<newer, entry, took>>

\* The transcript is there; a request that was overtaken does not commit.
Transcribed(h) ==
    LET q == handler[h]
        u == said[q.client][q.generation]
        intent == parse(u, q.base)
    IN  /\ q.stage = "hearing"
        /\ IF intent.kind = "unknown" THEN SetAside(h, [q EXCEPT !.stage = "interpreting"])
           ELSE IF IsCurrent(q) THEN Perform(h, q, entry[q.client], intent, FALSE)
           ELSE SetAside(h, [q EXCEPT !.stage = "replying", !.reply = Cancelled, !.base = Empty])
        /\ UNCHANGED <<now, said, retries>>

NotTranscribed(h) ==
    /\ handler[h].stage = "hearing"
    /\ SetAside(h, [handler[h] EXCEPT !.stage = "replying", !.base = Empty,
                       !.reply = IF IsCurrent(handler[h]) THEN Unheard ELSE Cancelled])
    /\ UNCHANGED <<now, said, retries>>

\* The intent service answers; the session is the clone from before both waits.
Interpreted(h) ==
    LET q == handler[h]
    IN  /\ q.stage = "interpreting"
        /\ \E intent \in Readings(said[q.client][q.generation]) :
              IF IsCurrent(q) THEN Perform(h, q, entry[q.client], intent, TRUE)
              ELSE SetAside(h, [q EXCEPT !.stage = "replying", !.reply = Cancelled, !.base = Empty])
        /\ UNCHANGED <<now, said, retries>>

-----------------------------------------------------------------------------
(* Replies.                                                                *)

\* The promise of h settles: those who joined it are answered with it, and it
\* is recorded in the entry that still waits for it.
Settle(h, reply, recorded) ==
    LET c == handler[h].client
        hs == [x \in Handlers |->
                  IF x = h \/ handler[x].awaits = h THEN Answered(handler[x], reply) ELSE handler[x]]
    IN  IF IsCurrent(handler[h]) /\ entry[c].inFlight = h
        THEN Store(c, [entry[c] EXCEPT !.result = recorded, !.inFlight = None, !.usedAt = now],
                   h, hs, None)
        ELSE handler' = hs /\ UNCHANGED <<newer, entry, took>>

Completes(h) ==
    /\ handler[h].stage = "replying"
    /\ \/ Settle(h, handler[h].reply, handler[h].reply)
       \/ /\ handler[h].reply.kind \in {"dispatch", "dispatchIntent"}
          /\ LET failed == [handler[h].reply EXCEPT !.kind = "failed"] IN Settle(h, failed, failed)
    /\ UNCHANGED <<now, said, retries>>

\* The dispatch throws: a 500, and nothing is recorded.
Throws(h) ==
    /\ handler[h].stage = "replying" /\ handler[h].reply.kind \in {"dispatch", "dispatchIntent"}
    /\ Settle(h, Rejected, None)
    /\ UNCHANGED <<now, said, retries>>

\* The response reaches the client, or is lost.
Leaves(h) ==
    /\ handler[h].stage = "answered"
    /\ handler' = With(h, Idle)
    /\ UNCHANGED <<now, newer, entry, said, retries, took>>

Tick ==
    /\ now < MaxNow
    /\ now' = now + 1
    /\ UNCHANGED <<newer, entry, handler, said, retries, took>>

VoiceNext ==
    \/ \E h \in Handlers, c \in Clients : \E g \in Generations(c) : \E u \in Says[c][g] : Arrive(h, c, g, u)
    \/ \E h \in Handlers : Transcribed(h)
    \/ \E h \in Handlers : NotTranscribed(h)
    \/ \E h \in Handlers : Interpreted(h)
    \/ \E h \in Handlers : Completes(h)
    \/ \E h \in Handlers : Throws(h)
    \/ \E h \in Handlers : Leaves(h)
    \/ Tick

VoiceSpec == VoiceInit /\ [][VoiceNext]_gatewayVars

-----------------------------------------------------------------------------
(* Properties.                                                             *)

\* What passes without effect on what is armed.
PassesBy(t) == t = None \/ t.kind = "no_match"

\* What a request did that has outlived its session, to the one that its
\* client's later or repeated requests have opened: outside the guarantees.
Orphaned(t) == t # None /\ t.kind = "orphan"

PassesByDictation(t) == PassesBy(t) \/ t.kind = "dictation_body" \/ t.kind = "post"

\* In the history p of a client, the words for this action were dictated, and
\* read back, since the dictation was opened for it.
ReadBack(p, g, item, action) ==
    \E opened, body \in 1 .. g - 1 :
        /\ opened < body
        /\ p[opened] # None /\ p[opened].kind = "dictate"
        /\ p[opened].item = item /\ p[opened].action = action
        /\ p[body] # None /\ p[body].kind = "dictation_body"
        /\ \A k \in opened + 1 .. g - 1 : PassesByDictation(p[k])

\* The utterance g armed the action on the item.
Arms(p, g, item, action) ==
    /\ p[g] # None
    /\ \/ p[g].kind = "action" /\ p[g].item = item /\ p[g].action = action
       \/ p[g].kind = "post" /\ ReadBack(p, g, item, action)

InTime(p, armed, g) ==
    /\ armed < g /\ p[g].at - p[armed].at <= ConfirmTtl
    /\ \A k \in armed + 1 .. g - 1 : PassesBy(p[k])

\* "Actions marked requiresConfirmation arm first and require a separate
\* Confirm-phrase.  Dictated free text ... is read back" (threat-model.md:123),
\* "any free-form-originated action also elevates confirmation": behind every
\* dispatch there is what the user said, in the same session, in that order,
\* in time, about that very item, and nothing in between took it back.
DispatchesWereApproved ==
    /\ VoiceTypeOK
    /\ \A h \in Handlers :
           LET q == handler[h]  p == took[q.client]  g == q.generation
           IN  q.ran /\ q.retained /\ (\A k \in 1 .. g : ~ Orphaned(p[k])) =>
               CASE q.reply.kind = "dispatch" ->
                       \/ /\ p[g].kind = "action" /\ q.reply.action \notin Confirming
                          /\ ~ (p[g].free /\ ElevateFreeform)
                       \/ /\ p[g].kind = "post" /\ q.reply.action \notin Confirming
                          /\ ReadBack(p, g, q.reply.item, q.reply.action)
                       \/ /\ p[g].kind = "confirm"
                          /\ \E armed \in 1 .. g - 1 :
                               Arms(p, armed, q.reply.item, q.reply.action) /\ InTime(p, armed, g)
                 [] q.reply.kind = "dispatchIntent" ->
                       \E armed \in 1 .. g - 1 :
                           /\ p[armed] # None /\ p[armed].kind = "dispatch_task"
                           /\ InTime(p, armed, g)
                 [] OTHER -> TRUE

SameRequest(h, i) ==
    /\ handler[h].retained /\ handler[i].retained
    /\ handler[h].client = handler[i].client /\ handler[h].generation = handler[i].generation

\* "The Hub replays the original response for an exact generation retry while
\* that session is retained, without advancing confirmation, dispatch, or
\* dictation state" (event-schema.md:460): one arrival at most takes effect, and
\* two answers to one request differ only if one is "Cancelled.".
OneEffectPerGeneration ==
    \A h, i \in Handlers : h # i /\ SameRequest(h, i) =>
        /\ ~ (handler[h].ran /\ handler[i].ran)
        /\ handler[h].stage = "answered" /\ handler[i].stage = "answered" =>
              \/ handler[h].reply = handler[i].reply
              \/ Cancelled \in {handler[h].reply, handler[i].reply}

\* A late transcript or interpretation never restores what was cancelled: a
\* session whose newest understood request is a cancellation is empty.
CancelHolds ==
    \A c \in Retained : \A g \in Generations(c) :
        /\ took[c][g] # None /\ took[c][g].kind = "cancel"
        /\ \A k \in Generations(c) : k > g => took[c][k] = None
        => entry[c].session = Empty

=============================================================================
