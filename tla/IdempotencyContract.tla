------------------------ MODULE IdempotencyContract ------------------------
(***************************************************************************)
(* What the Hub promises about intent ids ("Idempotency" in                *)
(* docs/hub-api.md, implemented by apps/hub/src/http/intentLedger.ts):     *)
(*                                                                         *)
(*  - an intent is executed by one request at a time, and a success that   *)
(*    is remembered is replayed and never executed again;                  *)
(*  - requests with the same payload share the execution and its outcome;  *)
(*    a different payload under the same id is a conflict;                 *)
(*  - only successes are remembered; a success is forgotten only after     *)
(*    Capacity other intents have been used since its last use, or when    *)
(*    the Hub restarts.                                                    *)
(*                                                                         *)
(* No Map, no eviction loop, no order of entries: an intent has an outcome *)
(* or not, and usedSince says which others were used after it.             *)
(***************************************************************************)
EXTENDS Naturals, FiniteSets

CONSTANTS Callers, Intents, Prints, Responses, Recordable, Capacity

VARIABLES
    outcome,      \* for each intent, the remembered [print, response], if any
    usedSince,    \* for each remembered intent, the others used after it
    running,      \* for each intent, the fingerprint being executed, if any
    waits,        \* the callers waiting for each intent's execution
    told          \* the answer each caller is being given

contractVars == <<outcome, usedSince, running, waits, told>>

Init ==
    /\ outcome = [id \in Intents |-> {}]
    /\ usedSince = [id \in Intents |-> {}]
    /\ running = [id \in Intents |-> {}]
    /\ waits = [id \in Intents |-> {}]
    /\ told = [c \in Callers |-> [kind |-> "none"]]

Free(c) == told[c].kind = "none" /\ \A id \in Intents : c \notin waits[id]

\* Using id makes it the most recently used of the remembered intents.
Use(since, id, remembered) ==
    [j \in Intents |-> IF j = id \/ j \notin remembered THEN {} ELSE since[j] \cup {id}]

Remembered == {id \in Intents : outcome[id] # {}}

\* A remembered success is replayed to the same payload and refused to another.
Replay(c, id, fp) ==
    /\ Free(c)
    /\ \E o \in outcome[id] :
          told' = [told EXCEPT ![c] =
              IF o.print = fp THEN [kind |-> "replayed", intent |-> id, response |-> o.response]
              ELSE [kind |-> "mismatch", intent |-> id]]
    /\ usedSince' = Use(usedSince, id, Remembered)
    /\ UNCHANGED <<outcome, running, waits>>

\* The same payload waits for the execution under way; another is refused.
Wait(c, id, fp) ==
    /\ Free(c) /\ outcome[id] = {} /\ fp \in running[id]
    /\ waits' = [waits EXCEPT ![id] = @ \cup {c}]
    /\ UNCHANGED <<outcome, usedSince, running, told>>

Refuse(c, id, fp) ==
    /\ Free(c) /\ outcome[id] = {} /\ running[id] # {} /\ fp \notin running[id]
    /\ told' = [told EXCEPT ![c] = [kind |-> "mismatch", intent |-> id]]
    /\ UNCHANGED <<outcome, usedSince, running, waits>>

Begin(c, id, fp) ==
    /\ Free(c) /\ outcome[id] = {} /\ running[id] = {}
    /\ running' = [running EXCEPT ![id] = {fp}]
    /\ waits' = [waits EXCEPT ![id] = {c}]
    /\ UNCHANGED <<outcome, usedSince, told>>

\* The execution ends: all who wait get its response, one of them as the
\* executor.  A success is remembered; at most the intents in `lost`, each
\* outlived by Capacity others, are forgotten to make room for it.
Complete(id, response, executor, lost) ==
    /\ running[id] # {} /\ executor \in waits[id]
    /\ told' = [c \in Callers |->
           IF c \notin waits[id] THEN told[c]
           ELSE [kind |-> IF c = executor THEN "executed" ELSE "replayed",
                 intent |-> id, response |-> response]]
    /\ running' = [running EXCEPT ![id] = {}]
    /\ waits' = [waits EXCEPT ![id] = {}]
    /\ IF response \in Recordable
       THEN LET since == Use(usedSince, id, Remembered) IN
            /\ \A j \in lost : j \in Remembered /\ Cardinality(since[j]) >= Capacity
            /\ outcome' = [j \in Intents |->
                   IF j = id THEN {[print |-> fp, response |-> response] : fp \in running[id]}
                   ELSE IF j \in lost THEN {} ELSE outcome[j]]
            /\ usedSince' = [j \in Intents |-> IF j \in lost THEN {} ELSE since[j]]
       ELSE lost = {} /\ UNCHANGED <<outcome, usedSince>>

Abort(id) ==
    /\ running[id] # {}
    /\ told' = [c \in Callers |-> IF c \in waits[id] THEN [kind |-> "threw", intent |-> id] ELSE told[c]]
    /\ running' = [running EXCEPT ![id] = {}]
    /\ waits' = [waits EXCEPT ![id] = {}]
    /\ UNCHANGED <<outcome, usedSince>>

\* The caller has its answer and may ask again.
Hear(c) ==
    /\ told[c].kind # "none"
    /\ told' = [told EXCEPT ![c] = [kind |-> "none"]]
    /\ UNCHANGED <<outcome, usedSince, running, waits>>

Restart ==
    /\ outcome' = [id \in Intents |-> {}]
    /\ usedSince' = [id \in Intents |-> {}]
    /\ running' = [id \in Intents |-> {}]
    /\ waits' = [id \in Intents |-> {}]
    /\ told' = [c \in Callers |-> [kind |-> "none"]]

Next ==
    \/ \E c \in Callers, id \in Intents, fp \in Prints :
          Replay(c, id, fp) \/ Wait(c, id, fp) \/ Refuse(c, id, fp) \/ Begin(c, id, fp)
    \/ \E id \in Intents, response \in Responses, executor \in Callers,
          lost \in SUBSET Intents : Complete(id, response, executor, lost)
    \/ \E id \in Intents : Abort(id)
    \/ \E c \in Callers : Hear(c)
    \/ Restart

Spec == Init /\ [][Next]_contractVars

=============================================================================
