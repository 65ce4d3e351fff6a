------------------------------ MODULE Direction ------------------------------
(***************************************************************************)
(* The direction path end to end: a client operation, the Hub's /actions   *)
(* and /intents routes behind the IntentLedger, the Giles orchestrator's   *)
(* delivery of an intent file, and Giles draining its inbox.               *)
(*                                                                         *)
(*   client (xr-lab DirectionClient)  --POST-->  route + IntentLedger      *)
(*     --work()-->  writeIntentFile  --rename-->  inbox  --drain-->  Giles *)
(*                                                                         *)
(* An operation is named by its intent id, which the client creates once   *)
(* (createIntentId) and resends on every retry; its payload is fixed, so   *)
(* the fingerprint of a request is the id and its `confirmed` flag.  Each  *)
(* await inside writeIntentFile is a step boundary, and so is the moment   *)
(* between the rename on disk and the resolution of work(): the process    *)
(* may end there.  Connections may break with the request served or not.   *)
(***************************************************************************)
EXTENDS Naturals, FiniteSets, Sequences

CONSTANTS
    Callers, Intents, Capacity, NoCaller,
    Gated,        \* the intents that are actions requiring confirmation
    Dispatches,   \* the intents that are new tasks (POST /intents)
    Pids,         \* process ids the Hub may run under (they may be reused)
    MaxTrouble    \* bound on crashes, lost responses and disk errors together

ASSUME IntentAssumption ==
    Gated \subseteq Intents /\ Dispatches \subseteq Intents \ Gated
ASSUME LedgerAssumption ==
    Capacity \in Nat \ {0} /\ Intents # {} /\ NoCaller \notin Callers \cup Intents
ASSUME TroubleAssumption == MaxTrouble \in Nat

VARIABLES
    entries, inFlight, phase, req, reply,    \* the ledger (IntentLedger)
    work,       \* for each running caller, where work() stands
    pid,        \* the Hub's process id, part of the temp file names
    temps,      \* temp files in the inbox directory: <<intent, pid>>
    inbox,      \* intent files in the inbox, readable by Giles
    copies,     \* per intent, files delivered since the ledger last forgot it
    total,      \* per intent, files ever delivered (counted up to 2)
    stage,      \* per intent, where the client's operation stands
    conn,       \* per caller, the operation whose client awaits its response
    approved,   \* the operations the user has explicitly confirmed
    trouble     \* crashes, losses and disk errors so far

INSTANCE IntentLedger WITH
    Prints <- BOOLEAN,
    Responses <- {"ok", "unconfirmed", "failed"},
    Recordable <- {"ok"}

ledger     == <<entries, inFlight, phase, req, reply>>
diskVars   == <<temps, inbox, copies, total>>
clientVars == <<stage, conn, approved>>
vars == <<ledger, work, pid, diskVars, clientVars, trouble>>

\* What spends compute or changes a repository: never without the user's word.
Consequential == Gated \cup Dispatches

Steps  == {"none", "start", "write", "rename", "renamed", "cleanup"}
Stages == {"new", "sent", "armed", "retry", "delivered", "refused", "cancelled"}

TypeOK ==
    /\ LedgerTypeOK
    /\ work \in [Callers -> Steps]
    /\ pid \in Pids
    /\ temps \subseteq Intents \X Pids
    /\ inbox \subseteq Intents
    /\ copies \in [Intents -> 0 .. 2] /\ total \in [Intents -> 0 .. 2]
    /\ stage \in [Intents -> Stages]
    /\ conn \in [Callers -> Intents \cup {NoCaller}]
    /\ approved \subseteq Intents
    /\ trouble \in 0 .. MaxTrouble

Init ==
    /\ LedgerInit
    /\ work = [c \in Callers |-> "none"]
    /\ pid \in Pids
    /\ temps = {} /\ inbox = {}
    /\ copies = [id \in Intents |-> 0] /\ total = [id \in Intents |-> 0]
    /\ stage = [id \in Intents |-> "new"]
    /\ conn = [c \in Callers |-> NoCaller]
    /\ approved = {}
    /\ trouble = 0

Troubled == trouble < MaxTrouble /\ trouble' = trouble + 1

-----------------------------------------------------------------------------
(* The client: apps/xr-lab/src/direction.ts and main.ts.                   *)

\* attemptAction arms "ship" without asking the Hub first.
ArmFirst(id) ==
    /\ id \in Gated
    /\ stage[id] = "new"
    /\ stage' = [stage EXCEPT ![id] = "armed"]
    /\ UNCHANGED <<ledger, work, pid, diskVars, conn, approved, trouble>>

\* A request carries confirmed: true exactly once the user has confirmed.  The
\* Hub serves it when no other request is before its first await (Start).
Send(id, c) ==
    /\ stage[id] \in {"new", "retry"}
    /\ \A d \in Callers : work[d] # "start"
    /\ conn[c] = NoCaller
    /\ Execute(c, id, id \in approved)
    /\ work' = [work EXCEPT ![c] = IF phase'[c] = "running" THEN "start" ELSE "none"]
    /\ stage' = [stage EXCEPT ![id] = "sent"]
    /\ conn' = [conn EXCEPT ![c] = id]
    /\ UNCHANGED <<pid, diskVars, approved, trouble>>

\* The status each route gives a response of its work: an action that failed is
\* a 200 with ok: false, a dispatch that failed a 502.
Status(id, response) ==
    CASE response = "unconfirmed" -> 409
      [] response = "ok" -> IF id \in Dispatches THEN 202 ELSE 200
      [] response = "failed" -> IF id \in Dispatches THEN 502 ELSE 200

\* respondLedgerResult; a work that threw is the framework's 500.
Http(answer) ==
    CASE answer.kind = "mismatch" -> [status |-> 422, ok |-> FALSE]
      [] answer.kind = "threw" -> [status |-> 500, ok |-> FALSE]
      [] answer.kind \in {"executed", "replayed"} ->
            [status |-> Status(answer.intent, answer.response),
             ok |-> answer.response = "ok"]

\* What send() makes of it: 409 arms the confirmation gate, 5xx and a body with
\* ok: false keep the operation for a retry, other errors end it.
Outcome(http) ==
    CASE http.status = 409 -> "armed"
      [] http.status >= 500 -> "retry"
      [] http.status \in 400 .. 499 \ {409} -> "refused"
      [] http.status < 400 -> IF http.ok THEN "delivered" ELSE "retry"

Receive(c) ==
    /\ Respond(c)
    /\ IF conn[c] = NoCaller
       THEN UNCHANGED stage
       ELSE stage' = [stage EXCEPT ![conn[c]] = Outcome(Http(reply[c]))]
    /\ conn' = [conn EXCEPT ![c] = NoCaller]
    /\ UNCHANGED <<work, pid, diskVars, approved, trouble>>

\* The connection breaks: fetch rejects, and "retry keeps the same intent id".
\* The Hub goes on with the request.
LoseResponse(c) ==
    /\ conn[c] # NoCaller
    /\ Troubled
    /\ stage' = [stage EXCEPT ![conn[c]] = "retry"]
    /\ conn' = [conn EXCEPT ![c] = NoCaller]
    /\ UNCHANGED <<ledger, work, pid, diskVars, approved>>

\* The user takes the armed operation, or cancels it or lets it expire.
Confirm(id) ==
    /\ stage[id] = "armed"
    /\ approved' = approved \cup {id}
    /\ stage' = [stage EXCEPT ![id] = "retry"]
    /\ UNCHANGED <<ledger, work, pid, diskVars, conn, trouble>>

Cancel(id) ==
    /\ stage[id] = "armed"
    /\ stage' = [stage EXCEPT ![id] = "cancelled"]
    /\ UNCHANGED <<ledger, work, pid, diskVars, conn, approved, trouble>>

-----------------------------------------------------------------------------
(* The route's work, and writeIntentFile.                                  *)

\* The ledger forgets the intents that leave its Map.
Forgotten == {id \in Intents : Recorded(entries, id) /\ ~ Recorded(entries', id)}

ForgetEvicted == copies' = [id \in Intents |-> IF id \in Forgotten THEN 0 ELSE copies[id]]

Finish(c, response) ==
    /\ Settle(c, response)
    /\ work' = [work EXCEPT ![c] = "none"]

\* The two-step confirm: an action whose actionMeta requires it, and every
\* dispatch, is answered 409 unless the request says confirmed: true.
ActionGate(c) == req[c].intent \in Gated /\ ~ req[c].print

DispatchGate(c) == req[c].intent \in Dispatches /\ ~ req[c].print

\* The work up to its first await: the gate, then existsSync on the final path.
Begin(c, gate, exists) ==
    /\ phase[c] = "running" /\ work[c] = "start"
    /\ IF gate
       THEN Finish(c, "unconfirmed") /\ ForgetEvicted
       ELSE IF exists
            THEN Finish(c, "ok") /\ ForgetEvicted
            ELSE work' = [work EXCEPT ![c] = "write"] /\ UNCHANGED <<ledger, copies>>
    /\ UNCHANGED <<pid, temps, inbox, total, clientVars, trouble>>

StartWithoutDispatchGate(c) == Begin(c, ActionGate(c), req[c].intent \in inbox)

StartWithoutExistsCheck(c) == Begin(c, ActionGate(c) \/ DispatchGate(c), FALSE)

Start(c) == Begin(c, ActionGate(c) \/ DispatchGate(c), req[c].intent \in inbox)

\* The item has left its orchestrator, or offers the action no more: actionMeta
\* is null then, so the gate does not ask, and dispatchAction refuses.
ActionRefused(c) ==
    /\ phase[c] = "running" /\ work[c] = "start"
    /\ req[c].intent \notin Dispatches
    /\ Troubled
    /\ Finish(c, "failed") /\ ForgetEvicted
    /\ UNCHANGED <<pid, temps, inbox, total, clientVars>>

\* A confirmed dispatch names an orchestrator the Hub does not have.
DispatchRefused(c) ==
    /\ phase[c] = "running" /\ work[c] = "start"
    /\ req[c].intent \in Dispatches /\ ~ DispatchGate(c)
    /\ Troubled
    /\ Finish(c, "failed") /\ ForgetEvicted
    /\ UNCHANGED <<pid, temps, inbox, total, clientVars>>

Temp(c) == <<req[c].intent, pid>>

\* mkdir throws outside the try block: no cleanup, the adapter answers ok: false.
MkdirFails(c) ==
    /\ work[c] = "write"
    /\ Troubled
    /\ Finish(c, "failed") /\ ForgetEvicted
    /\ UNCHANGED <<pid, temps, inbox, total, clientVars>>

\* writeFile(tempPath, flag "wx"): EEXIST when a process of the same pid left
\* the file; a disk error may leave it too.
WriteTemp(c) ==
    /\ work[c] = "write"
    /\ \/ /\ Temp(c) \notin temps
          /\ temps' = temps \cup {Temp(c)}
          /\ work' = [work EXCEPT ![c] = "rename"]
          /\ UNCHANGED trouble
       \/ /\ Temp(c) \in temps
          /\ work' = [work EXCEPT ![c] = "cleanup"]
          /\ UNCHANGED <<temps, trouble>>
       \/ /\ Temp(c) \notin temps
          /\ Troubled
          /\ temps' \in {temps, temps \cup {Temp(c)}}
          /\ work' = [work EXCEPT ![c] = "cleanup"]
    /\ UNCHANGED <<ledger, pid, inbox, copies, total, clientVars>>

Count(counter, id) == [counter EXCEPT ![id] = IF @ < 2 THEN @ + 1 ELSE @]

\* rename(tempPath, path): the file becomes visible to Giles at once.
RenameTemp(c) ==
    /\ work[c] = "rename"
    /\ \/ /\ Temp(c) \in temps
          /\ temps' = temps \ {Temp(c)}
          /\ inbox' = inbox \cup {req[c].intent}
          /\ copies' = Count(copies, req[c].intent)
          /\ total' = Count(total, req[c].intent)
          /\ work' = [work EXCEPT ![c] = "renamed"]
          /\ UNCHANGED trouble
       \/ /\ IF Temp(c) \in temps THEN Troubled ELSE UNCHANGED trouble
          /\ work' = [work EXCEPT ![c] = "cleanup"]
          /\ UNCHANGED diskVars
    /\ UNCHANGED <<ledger, pid, clientVars>>

\* The promise of rename resolves, and with it work(): the success is recorded.
Delivered(c) ==
    /\ work[c] = "renamed"
    /\ Finish(c, "ok") /\ ForgetEvicted
    /\ UNCHANGED <<pid, temps, inbox, total, clientVars, trouble>>

\* catch: rm(tempPath, force) and rethrow; the adapter answers ok: false.
CleanupReportingSuccess(c) ==
    /\ work[c] = "cleanup"
    /\ temps' = temps \ {Temp(c)}
    /\ Finish(c, "ok") /\ ForgetEvicted
    /\ UNCHANGED <<pid, inbox, total, clientVars, trouble>>

CleanupLeavingTemp(c) ==
    /\ work[c] = "cleanup"
    /\ Finish(c, "failed") /\ ForgetEvicted
    /\ UNCHANGED <<pid, temps, inbox, total, clientVars, trouble>>

Cleanup(c) ==
    /\ work[c] = "cleanup"
    /\ temps' = temps \ {Temp(c)}
    /\ Finish(c, "failed") /\ ForgetEvicted
    /\ UNCHANGED <<pid, inbox, total, clientVars, trouble>>

-----------------------------------------------------------------------------
(* The environment.                                                        *)

\* Giles takes an intent file out of the inbox and executes it.
Drain(id) ==
    /\ id \in inbox
    /\ inbox' = inbox \ {id}
    /\ UNCHANGED <<ledger, work, pid, temps, copies, total, clientVars, trouble>>

\* The Hub process ends and a new one starts: the ledger and every request in
\* it are gone, the files stay, every waiting client sees its fetch reject.
Crash ==
    /\ Troubled
    /\ LoseLedger
    /\ work' = [c \in Callers |-> "none"]
    /\ pid' \in Pids
    /\ copies' = [id \in Intents |-> 0]
    /\ stage' = [id \in Intents |->
           IF \E c \in Callers : conn[c] = id THEN "retry" ELSE stage[id]]
    /\ conn' = [c \in Callers |-> NoCaller]
    /\ UNCHANGED <<temps, inbox, total, approved>>

-----------------------------------------------------------------------------
WorkStep(c) ==
    Start(c) \/ WriteTemp(c) \/ RenameTemp(c) \/ Delivered(c) \/ Cleanup(c)

Next ==
    \/ \E id \in Intents, c \in Callers : Send(id, c)
    \/ \E c \in Callers : Receive(c)
    \/ \E c \in Callers : LoseResponse(c)
    \/ \E id \in Intents : ArmFirst(id)
    \/ \E id \in Intents : Confirm(id)
    \/ \E id \in Intents : Cancel(id)
    \/ \E c \in Callers : Start(c)
    \/ \E c \in Callers : ActionRefused(c)
    \/ \E c \in Callers : DispatchRefused(c)
    \/ \E c \in Callers : MkdirFails(c)
    \/ \E c \in Callers : WriteTemp(c)
    \/ \E c \in Callers : RenameTemp(c)
    \/ \E c \in Callers : Delivered(c)
    \/ \E c \in Callers : Cleanup(c)
    \/ \E id \in Intents : Drain(id)
    \/ Crash

SafetySpec == Init /\ [][Next]_vars

\* The Hub's own steps and the network go on; the user retries what failed.
Fairness ==
    /\ \A c \in Callers : WF_vars(WorkStep(c)) /\ WF_vars(Receive(c))
    /\ \A id \in Intents : WF_vars(\E c \in Callers : Send(id, c))

Spec == SafetySpec /\ Fairness

-----------------------------------------------------------------------------
(* Properties.                                                             *)

\* No file of a consequential intent reaches the disk unless the user has
\* confirmed that very operation after a 409 (the gates of server.ts:278,407).
NoUnapprovedDelivery ==
    /\ TypeOK
    /\ \A id \in Consequential \ approved :
          id \notin inbox /\ total[id] = 0 /\ \A p \in Pids : <<id, p>> \notin temps

\* While the ledger has neither evicted an intent nor been lost with the
\* process, the intent is delivered at most once, whatever is retried, joined
\* or lost on the way (docs/hub-api.md, Idempotency).
OneDeliveryPerMemory == \A id \in Intents : copies[id] <= 1

\* A file Giles has not yet drained is never written over, not even by a
\* retry after a restart: the file name is the durable dedupe (inbox.ts:47).
PendingFileNeverOverwritten ==
    [][\A c \in Callers : (work[c] = "rename" /\ work'[c] = "renamed")
          => req[c].intent \notin inbox]_vars

\* A client is told "delivered" only for an intent whose file was delivered.
AckMeansDelivered == \A id \in Intents : stage[id] = "delivered" => total[id] >= 1

\* A confirmed operation that is retried while things fail only finitely often
\* gets through, or is refused as a conflict with its own unconfirmed copy
\* still in the ledger: a temp file left by a crashed Hub cannot block it.
RetriedGetsThrough ==
    \A id \in Intents : (stage[id] = "retry" /\ id \in approved)
                            ~> stage[id] \in {"delivered", "refused"}

\* "named by intentId so a Hub-side retry can never produce a second file"
\* (packages/adapter-giles/src/inbox.ts:6-9).
RetryNeverProducesSecondFile == \A id \in Intents : total[id] <= 1

=============================================================================
