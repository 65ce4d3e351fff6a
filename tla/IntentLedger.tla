---------------------------- MODULE IntentLedger ----------------------------
(***************************************************************************)
(* The Hub's ledger of direction intents, apps/hub/src/http/intentLedger.ts. *)
(*                                                                         *)
(* Callers are the HTTP requests that are inside IntentLedger.execute: one *)
(* caller is one pending `await ledger.execute(intentId, fingerprint,      *)
(* work)`.  JavaScript runs one callback at a time, so what execute does   *)
(* up to its first await is one step (Execute), and what happens when the  *)
(* promise of work settles is another (Settle, WorkThrows): record,        *)
(* inFlight.delete and the resolution of every await on that promise       *)
(* happen before any other event is served.                                *)
(*                                                                         *)
(* A response is abstract; Recordable is the set of responses for which    *)
(* the routes ask for `record: true`.                                      *)
(***************************************************************************)
EXTENDS Naturals, Sequences, FiniteSets

CONSTANTS
    Callers,      \* slots for concurrent requests
    Intents,      \* intent ids
    Prints,       \* request fingerprints
    Responses,    \* what work() may answer
    Recordable,   \* the responses recorded for replay (successful outcomes)
    Capacity,     \* how many intents the ledger retains (1024 in the Hub)
    NoCaller      \* "no in-flight work"

ASSUME CapacityAssumption == Capacity \in Nat \ {0}
ASSUME RequestAssumption == Intents # {} /\ Prints # {}
ASSUME RecordableAssumption == Recordable \subseteq Responses
ASSUME NoCallerAssumption == NoCaller \notin Callers

VARIABLES
    entries,      \* `entries`: the insertion-ordered Map, oldest first
    inFlight,     \* `inFlight`: for each intent, the caller whose work runs
    phase,        \* where each caller is in execute
    req,          \* the intent id and fingerprint of a caller that runs or awaits
    reply         \* the LedgerResult execute returned to it, and for which intent

ledgerVars == <<entries, inFlight, phase, req, reply>>

Phases  == {"idle", "running", "joined", "answered"}
Request == [intent : Intents, print : Prints]
NoRequest == CHOOSE r \in Request : TRUE    \* of a caller outside execute
Entry   == [intent : Intents, print : Prints, response : Responses]
NoReply == [kind |-> "none"]
Reply   == {NoReply}
           \cup [kind : {"executed", "replayed"}, intent : Intents, response : Responses]
           \cup [kind : {"mismatch", "threw"}, intent : Intents]

LedgerTypeOK ==
    /\ entries \in Seq(Entry)
    /\ inFlight \in [Intents -> Callers \cup {NoCaller}]
    /\ phase \in [Callers -> Phases]
    /\ req \in [Callers -> Request]
    /\ reply \in [Callers -> Reply]

-----------------------------------------------------------------------------
(* The Map of recorded entries.                                            *)

Recorded(s, id) == \E i \in DOMAIN s : s[i].intent = id

EntryOf(s, id) == s[CHOOSE i \in DOMAIN s : s[i].intent = id]

Delete(s, id) ==
    IF Recorded(s, id)
    THEN LET p == CHOOSE i \in DOMAIN s : s[i].intent = id
         IN  SubSeq(s, 1, p - 1) \o SubSeq(s, p + 1, Len(s))
    ELSE s

\* get() on a recorded intent re-inserts it, which makes the order LRU.
GetWithoutReinsert(s, id) == s

Get(s, id) == Append(Delete(s, id), EntryOf(s, id))

\* record() inserts last and then evicts from the front down to the capacity.
Record(s, e) ==
    LET t == Append(Delete(s, e.intent), e)
    IN  IF Len(t) > Capacity
        THEN SubSeq(t, Len(t) - Capacity + 1, Len(t))
        ELSE t

-----------------------------------------------------------------------------
LedgerInit ==
    /\ entries = << >>
    /\ inFlight = [id \in Intents |-> NoCaller]
    /\ phase = [c \in Callers |-> "idle"]
    /\ req = [c \in Callers |-> NoRequest]
    /\ reply = [c \in Callers |-> NoReply]

Answer(c, answer) ==
    /\ phase' = [phase EXCEPT ![c] = "answered"]
    /\ reply' = [reply EXCEPT ![c] = answer]
    /\ UNCHANGED req

Enter(c, id, fp, to) ==
    /\ phase' = [phase EXCEPT ![c] = to]
    /\ req' = [req EXCEPT ![c] = [intent |-> id, print |-> fp]]
    /\ UNCHANGED reply

\* A recorded intent answers at once: replay, or mismatch when the payload
\* differs.  get() has re-inserted the entry in either case.
AnswerRecorded(c, id, fp) ==
    /\ phase[c] = "idle"
    /\ Recorded(entries, id)
    /\ entries' = Get(entries, id)
    /\ Answer(c, IF EntryOf(entries, id).print = fp
                 THEN [kind |-> "replayed", intent |-> id,
                       response |-> EntryOf(entries, id).response]
                 ELSE [kind |-> "mismatch", intent |-> id])
    /\ UNCHANGED inFlight

\* Work for the same intent is in flight: await it, or refuse another payload.
JoinInFlight(c, id, fp) ==
    /\ phase[c] = "idle"
    /\ ~ Recorded(entries, id)
    /\ inFlight[id] # NoCaller
    /\ IF req[inFlight[id]].print = fp
       THEN Enter(c, id, fp, "joined")
       ELSE Answer(c, [kind |-> "mismatch", intent |-> id])
    /\ UNCHANGED <<entries, inFlight>>

\* A genuinely first request runs the work and publishes its promise.
StartAlways(c, id, fp) ==
    /\ phase[c] = "idle"
    /\ ~ Recorded(entries, id)
    /\ inFlight' = [inFlight EXCEPT ![id] = c]
    /\ Enter(c, id, fp, "running")
    /\ UNCHANGED entries

StartWork(c, id, fp) ==
    /\ phase[c] = "idle"
    /\ ~ Recorded(entries, id)
    /\ inFlight[id] = NoCaller
    /\ inFlight' = [inFlight EXCEPT ![id] = c]
    /\ Enter(c, id, fp, "running")
    /\ UNCHANGED entries

Execute(c, id, fp) ==
    \/ AnswerRecorded(c, id, fp)
    \/ JoinInFlight(c, id, fp)
    \/ StartWork(c, id, fp)

\* The callers whose await resolves when c's work settles: c itself, and
\* those who joined it.
Awaiting(c) ==
    {d \in Callers : d = c \/ (phase[d] = "joined" /\ req[d].intent = req[c].intent)}

AnswerAll(D, answer) ==
    /\ phase' = [d \in Callers |-> IF d \in D THEN "answered" ELSE phase[d]]
    /\ req'   = [d \in Callers |-> IF d \in D THEN NoRequest ELSE req[d]]
    /\ reply' = [d \in Callers |-> IF d \in D THEN answer[d] ELSE reply[d]]

\* The promise of c's work resolves: every await on it returns its response.
Settle(c, response) ==
    /\ phase[c] = "running"
    /\ entries' = IF response \in Recordable
                  THEN Record(entries, [intent |-> req[c].intent,
                                        print |-> req[c].print,
                                        response |-> response])
                  ELSE entries
    /\ inFlight' = [inFlight EXCEPT ![req[c].intent] = NoCaller]
    /\ AnswerAll(Awaiting(c),
                 [d \in Callers |-> [kind |-> IF d = c THEN "executed" ELSE "replayed",
                                     intent |-> req[c].intent,
                                     response |-> response]])

\* The work throws: `finally` still clears the in-flight entry, nothing is
\* recorded, and every await on the promise throws.
WorkThrowsForItsCaller(c) ==
    /\ phase[c] = "running"
    /\ inFlight' = [inFlight EXCEPT ![req[c].intent] = NoCaller]
    /\ AnswerAll({c}, [d \in Callers |-> [kind |-> "threw", intent |-> req[c].intent]])
    /\ UNCHANGED entries

WorkThrows(c) ==
    /\ phase[c] = "running"
    /\ inFlight' = [inFlight EXCEPT ![req[c].intent] = NoCaller]
    /\ AnswerAll(Awaiting(c), [d \in Callers |-> [kind |-> "threw", intent |-> req[c].intent]])
    /\ UNCHANGED entries

\* The route turns the result into the HTTP response (respondLedgerResult).
Respond(c) ==
    /\ phase[c] = "answered"
    /\ phase' = [phase EXCEPT ![c] = "idle"]
    /\ reply' = [reply EXCEPT ![c] = NoReply]
    /\ UNCHANGED <<entries, inFlight, req>>

\* The Hub process ends and starts again: the ledger lives in memory only.
LoseLedger ==
    /\ entries' = << >>
    /\ inFlight' = [id \in Intents |-> NoCaller]
    /\ phase' = [c \in Callers |-> "idle"]
    /\ req' = [c \in Callers |-> NoRequest]
    /\ reply' = [c \in Callers |-> NoReply]

-----------------------------------------------------------------------------
LedgerNext ==
    \/ \E c \in Callers, id \in Intents, fp \in Prints : Execute(c, id, fp)
    \/ \E c \in Callers, response \in Responses : Settle(c, response)
    \/ \E c \in Callers : WorkThrows(c)
    \/ \E c \in Callers : Respond(c)
    \/ LoseLedger

\* Work settles: the adapters' file writes and fetches end or fail.
WorkEnds(c) == WorkThrows(c) \/ \E response \in Responses : Settle(c, response)

LedgerFairness ==
    /\ \A c \in Callers : WF_ledgerVars(WorkEnds(c))
    /\ \A c \in Callers : WF_ledgerVars(Respond(c))

LedgerSafetySpec == LedgerInit /\ [][LedgerNext]_ledgerVars

LedgerSpec == LedgerSafetySpec /\ LedgerFairness

-----------------------------------------------------------------------------
(* Properties.                                                             *)

\* At most one caller runs the work of an intent, and its intent is the one
\* the in-flight map publishes: two requests that arrive around an await
\* never both dispatch (intentLedger.ts:51-54).
OneRunPerIntent ==
    \A c, d \in Callers :
        (phase[c] = "running" /\ phase[d] = "running" /\ req[c].intent = req[d].intent)
            => c = d

\* Nothing dispatches an intent whose success the ledger still remembers: a
\* recorded outcome is replayed, never run again.
RecordedNeverRuns ==
    \A c \in Callers : phase[c] = "running" => ~ Recorded(entries, req[c].intent)

\* A caller that awaits another's work awaits one that is really running the
\* same payload, so it can neither hang on a promise nobody settles nor
\* receive the outcome of a different request.
JoinersAwaitTheirRun ==
    \A c \in Callers : phase[c] = "joined" =>
        \E d \in Callers : /\ phase[d] = "running"
                           /\ inFlight[req[c].intent] = d
                           /\ req[d] = req[c]

\* The Map holds one entry per intent and never more than its capacity.
LedgerBounded ==
    /\ Len(entries) <= Capacity
    /\ \A i, j \in DOMAIN entries : entries[i].intent = entries[j].intent => i = j

\* Every request that runs or awaits work is answered in the end, whether the
\* work succeeds, fails or throws (or its connection dies with the Hub).
EveryCallerIsAnswered ==
    \A c \in Callers : phase[c] \in {"running", "joined"} ~> phase[c] \in {"answered", "idle"}

-----------------------------------------------------------------------------
(* The promise, IdempotencyContract: the position of an entry in the Map   *)
(* says which intents were used after it, and a caller waits while its     *)
(* work, or the work it joined, runs.                                      *)

Remembered(s, id) ==
    {[print |-> s[i].print, response |-> s[i].response] :
        i \in {k \in DOMAIN s : s[k].intent = id}}

UsedAfter(s, id) ==
    {j \in Intents : \E m, n \in DOMAIN s : m < n /\ s[m].intent = id /\ s[n].intent = j}

KeptOutcome == [id \in Intents |-> Remembered(entries, id)]

UsedSince == [id \in Intents |-> UsedAfter(entries, id)]

RunningPrint == [id \in Intents |->
    IF inFlight[id] = NoCaller THEN {} ELSE {req[inFlight[id]].print}]

Waits == [id \in Intents |->
    {c \in Callers : phase[c] \in {"running", "joined"} /\ req[c].intent = id}]

Contract == INSTANCE IdempotencyContract WITH
    outcome <- KeptOutcome, usedSince <- UsedSince, running <- RunningPrint,
    waits <- Waits, told <- reply

\* The ledger implements the promise of docs/hub-api.md: every step of
\* execute, settle and respond is a step of the contract or invisible to it.
ImplementsContract == Contract!Spec

=============================================================================
