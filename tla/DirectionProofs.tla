-------------------------- MODULE DirectionProofs --------------------------
(***************************************************************************)
(* What Direction guarantees for any number of callers, intents, process   *)
(* ids and troubles.  Every step of Direction is a step of the ledger or   *)
(* leaves it alone, so the ledger's invariant holds (L, the ledger of      *)
(* Direction, with the theorems of IntentLedgerProofs).  On top of it the  *)
(* invariant follows one delivery from the request to the file and back:   *)
(* who runs has a place in work(), what is written was approved, what is   *)
(* called a success has left a file, and what was delivered since the      *)
(* ledger last forgot it is recorded or about to be.                       *)
(***************************************************************************)
EXTENDS Direction, TLAPS

L == INSTANCE IntentLedgerProofs WITH
         Prints <- BOOLEAN,
         Responses <- {"ok", "unconfirmed", "failed"},
         Recordable <- {"ok"}

WorkIsRunning == \A c \in Callers : work[c] # "none" <=> phase[c] = "running"

\* A client that waits does so for its own operation.
ConnectionsMatch ==
    \A c \in Callers :
        /\ phase[c] = "answered" => reply[c] # NoReply
        /\ conn[c] # NoCaller =>
              /\ phase[c] # "idle"
              /\ phase[c] \in {"running", "joined"} => req[c].intent = conn[c]
              /\ phase[c] = "answered" => reply[c].intent = conn[c]

\* Whoever claims a confirmation has one, and so has whoever is past the gate.
PastTheGate ==
    \A c \in Callers : phase[c] = "running" =>
        /\ req[c].print => req[c].intent \in approved
        /\ work[c] # "start" /\ req[c].intent \in Consequential => req[c].intent \in approved

OnlyApproved ==
    \A id \in Consequential \ approved :
        id \notin inbox /\ total[id] = 0 /\ \A p \in Pids : <<id, p>> \notin temps

WritesAreNew ==
    \A c \in Callers : work[c] \in {"write", "rename"} => req[c].intent \notin inbox

IsOk(answer) == answer.kind \in {"executed", "replayed"} /\ answer.response = "ok"

\* A file in the inbox, a recorded success, an answer "ok" and a client that was
\* told so: each means that a file was delivered.
SuccessMeansFile ==
    /\ \A id \in Intents :
          id \in inbox \/ Recorded(entries, id) \/ stage[id] = "delivered" => total[id] # 0
    /\ \A c \in Callers :
          /\ work[c] = "renamed" => total[req[c].intent] # 0
          /\ phase[c] = "answered" /\ IsOk(reply[c]) => total[reply[c].intent] # 0

\* What was delivered is recorded, or its work() is about to return.
CopiesAreRemembered ==
    \A id \in Intents :
        /\ copies[id] <= 1
        /\ copies[id] # 0 => \/ Recorded(entries, id)
                             \/ \E c \in Callers : work[c] = "renamed" /\ req[c].intent = id

Links ==
    /\ WorkIsRunning /\ ConnectionsMatch
    /\ PastTheGate /\ OnlyApproved
    /\ WritesAreNew
    /\ SuccessMeansFile /\ CopiesAreRemembered

DirectionInv == L!LedgerInv /\ TypeOK /\ Links

-----------------------------------------------------------------------------
(* The ledger of Direction.                                                *)

LEMMA LedgerAssumptionsHold ==
    /\ L!CapacityAssumption /\ L!RequestAssumption
    /\ L!RecordableAssumption /\ L!NoCallerAssumption
BY LedgerAssumption
   DEF L!CapacityAssumption, L!RequestAssumption, L!RecordableAssumption, L!NoCallerAssumption

\* The definitions that Direction and L take from IntentLedger are the same.
LEMMA SameOperators ==
    /\ \A s, id : L!Recorded(s, id) <=> Recorded(s, id)
    /\ \A s, id : L!Get(s, id) = Get(s, id)
    /\ \A s, e : L!Record(s, e) = Record(s, e)
    /\ L!Entry = Entry /\ L!Request = Request /\ L!Reply = Reply
    /\ L!NoRequest = NoRequest /\ L!NoReply = NoReply
    /\ L!LedgerTypeOK <=> LedgerTypeOK
<1>1. \A s, id : L!Recorded(s, id) <=> Recorded(s, id)
  BY DEF L!Recorded, Recorded
<1>2. \A s, id : L!Delete(s, id) = Delete(s, id)
  BY DEF L!Delete, Delete, L!Recorded, Recorded
<1>3. \A s, id : L!Get(s, id) = Get(s, id)
  BY <1>2 DEF L!Get, Get, L!EntryOf, EntryOf
<1>4. \A s, e : L!Record(s, e) = Record(s, e)
  BY <1>2 DEF L!Record, Record
<1>5. /\ L!Entry = Entry /\ L!Request = Request /\ L!Reply = Reply
      /\ L!NoReply = NoReply /\ L!Phases = Phases
  BY DEF L!Entry, Entry, L!Request, Request, L!Reply, Reply, L!NoReply, NoReply, L!Phases, Phases
<1>6. L!NoRequest = NoRequest
  BY <1>5 DEF L!NoRequest, NoRequest
<1>7. L!LedgerTypeOK <=> LedgerTypeOK
  BY <1>5 DEF L!LedgerTypeOK, LedgerTypeOK
<1> QED BY <1>1, <1>3, <1>4, <1>5, <1>6, <1>7

LEMMA SameActions ==
    ASSUME NEW c \in Callers, NEW id \in Intents, NEW fp \in BOOLEAN,
           NEW response \in {"ok", "unconfirmed", "failed"}
    PROVE  /\ Execute(c, id, fp) => L!Execute(c, id, fp)
           /\ Settle(c, response) => L!Settle(c, response)
           /\ Respond(c) => L!Respond(c)
           /\ LoseLedger => L!LoseLedger
           /\ LedgerInit => L!LedgerInit
<1> USE SameOperators
<1>1. AnswerRecorded(c, id, fp) => L!AnswerRecorded(c, id, fp)
  BY DEF AnswerRecorded, L!AnswerRecorded, Answer, L!Answer, EntryOf, L!EntryOf
<1>2. JoinInFlight(c, id, fp) => L!JoinInFlight(c, id, fp)
  BY DEF JoinInFlight, L!JoinInFlight, Answer, L!Answer, Enter, L!Enter
<1>3. StartWork(c, id, fp) => L!StartWork(c, id, fp)
  BY DEF StartWork, L!StartWork, Enter, L!Enter
<1>4. Execute(c, id, fp) => L!Execute(c, id, fp)
  BY <1>1, <1>2, <1>3 DEF Execute, L!Execute
<1>5. Settle(c, response) => L!Settle(c, response)
  BY DEF Settle, L!Settle, AnswerAll, L!AnswerAll, Awaiting, L!Awaiting
<1>6. Respond(c) => L!Respond(c)
  BY DEF Respond, L!Respond
<1>7. (LoseLedger => L!LoseLedger) /\ (LedgerInit => L!LedgerInit)
  BY DEF LoseLedger, L!LoseLedger, LedgerInit, L!LedgerInit
<1> QED BY <1>4, <1>5, <1>6, <1>7

\* The Map as L's invariant leaves it: replaying forgets nothing, recording a
\* success remembers it.
LEMMA MapEffects ==
    ASSUME L!LedgerInv, NEW id \in Intents
    PROVE  /\ Recorded(entries, id) =>
                 \A j \in Intents : Recorded(Get(entries, id), j) <=> Recorded(entries, j)
           /\ \A e \in Entry : e.intent = id =>
                 /\ Recorded(Record(entries, e), id)
                 /\ \A j \in Intents :
                       Recorded(Record(entries, e), j) => j = id \/ Recorded(entries, j)
<1>1. entries \in Seq(L!Entry) /\ L!Unique(entries) /\ Len(entries) <= Capacity
  BY DEF L!LedgerInv, L!LedgerTypeOK, L!LedgerBounded, L!Unique
<1>2. ASSUME L!Recorded(entries, id)
      PROVE  \A j \in Intents : L!Recorded(L!Get(entries, id), j) <=> L!Recorded(entries, j)
  BY <1>1, <1>2, L!GetProperties, LedgerAssumptionsHold
<1>3. ASSUME NEW e \in L!Entry, e.intent = id
      PROVE  /\ L!Recorded(L!Record(entries, e), id)
             /\ \A j \in Intents :
                   L!Recorded(L!Record(entries, e), j) => j = id \/ L!Recorded(entries, j)
  BY <1>1, <1>3, L!RecordProperties, LedgerAssumptionsHold
<1> QED BY <1>2, <1>3, SameOperators

\* What a request does to the ledger: only its own caller changes, and nothing
\* is forgotten.  A replay answers with what is recorded.
LEMMA ExecuteEffect ==
    ASSUME L!LedgerInv, NEW c \in Callers, NEW id \in Intents, NEW fp \in BOOLEAN,
           Execute(c, id, fp)
    PROVE  /\ phase[c] = "idle" /\ phase'[c] \in {"running", "joined", "answered"}
           /\ \A d \in Callers \ {c} :
                 phase'[d] = phase[d] /\ req'[d] = req[d] /\ reply'[d] = reply[d]
           /\ phase'[c] \in {"running", "joined"} =>
                 req'[c].intent = id /\ req'[c].print = fp
           /\ phase'[c] = "answered" =>
                 /\ reply'[c] # NoReply /\ reply'[c].intent = id
                 /\ IsOk(reply'[c]) => Recorded(entries, id)
           /\ \A j \in Intents : Recorded(entries', j) <=> Recorded(entries, j)
<1>1. /\ phase \in [Callers -> Phases] /\ req \in [Callers -> Request]
      /\ reply \in [Callers -> Reply]
  BY SameOperators DEF L!LedgerInv, LedgerTypeOK
<1>2. CASE AnswerRecorded(c, id, fp)
  <2>1. \A j \in Intents : Recorded(entries', j) <=> Recorded(entries, j)
    BY <1>2, MapEffects DEF AnswerRecorded
  <2> QED BY <1>1, <1>2, <2>1 DEF AnswerRecorded, Answer, NoReply, IsOk
<1>3. CASE JoinInFlight(c, id, fp)
  BY <1>1, <1>3 DEF JoinInFlight, Enter, Answer, NoReply, IsOk
<1>4. CASE StartWork(c, id, fp)
  BY <1>1, <1>4 DEF StartWork, Enter
<1> QED BY <1>2, <1>3, <1>4 DEF Execute

\* What the end of c's work does: its awaiters are answered with its response,
\* every other run goes on with another intent, and only c's is recorded.
LEMMA SettleEffect ==
    ASSUME L!LedgerInv, NEW c \in Callers, NEW response \in {"ok", "unconfirmed", "failed"},
           Settle(c, response)
    PROVE  /\ phase[c] = "running" /\ req[c].intent \in Intents
           /\ \A d \in Callers :
                 \/ /\ d = c \/ (phase[d] = "joined" /\ req[d].intent = req[c].intent)
                    /\ phase'[d] = "answered" /\ reply'[d] # NoReply
                    /\ reply'[d].intent = req[c].intent /\ reply'[d].response = response
                 \/ /\ d # c /\ phase'[d] = phase[d] /\ req'[d] = req[d] /\ reply'[d] = reply[d]
                    /\ phase[d] = "running" => req[d].intent # req[c].intent
           /\ \A j \in Intents : Recorded(entries', j) =>
                 Recorded(entries, j) \/ (j = req[c].intent /\ response = "ok")
           /\ response = "ok" => Recorded(entries', req[c].intent)
           /\ response # "ok" => entries' = entries
<1> DEFINE e == [intent |-> req[c].intent, print |-> req[c].print, response |-> response]
<1>1. /\ phase \in [Callers -> Phases] /\ req \in [Callers -> Request]
      /\ reply \in [Callers -> Reply]
  BY SameOperators DEF L!LedgerInv, LedgerTypeOK
<1>2. phase[c] = "running" /\ req[c].intent \in Intents /\ e \in Entry
  BY <1>1 DEF Settle, Request, Entry
<1>3. ASSUME NEW d \in Callers \ {c}, phase[d] = "running"
      PROVE  req[d].intent # req[c].intent
  BY <1>2, <1>3 DEF L!LedgerInv, L!InFlightIsRunning
<1>4. entries' = IF response = "ok" THEN Record(entries, e) ELSE entries
  BY DEF Settle
<1>5. e.intent = req[c].intent
  OBVIOUS
<1> HIDE DEF e
<1>6. /\ \A j \in Intents : Recorded(entries', j) =>
                 Recorded(entries, j) \/ (j = req[c].intent /\ response = "ok")
      /\ response = "ok" => Recorded(entries', req[c].intent)
      /\ response # "ok" => entries' = entries
  BY <1>2, <1>4, <1>5, MapEffects
<1>7. ASSUME NEW d \in Callers
      PROVE  \/ /\ d = c \/ (phase[d] = "joined" /\ req[d].intent = req[c].intent)
                /\ phase'[d] = "answered" /\ reply'[d] # NoReply
                /\ reply'[d].intent = req[c].intent /\ reply'[d].response = response
             \/ /\ d # c /\ phase'[d] = phase[d] /\ req'[d] = req[d] /\ reply'[d] = reply[d]
                /\ phase[d] = "running" => req[d].intent # req[c].intent
  <2>1. CASE d \in Awaiting(c)
    BY <1>1, <2>1 DEF Settle, AnswerAll, Awaiting, NoReply
  <2>2. CASE d \notin Awaiting(c)
    BY <1>1, <1>3, <2>2 DEF Settle, AnswerAll, Awaiting
  <2> QED BY <2>1, <2>2
<1> QED BY <1>2, <1>6, <1>7

-----------------------------------------------------------------------------
(* The steps.                                                              *)

\* What the type invariant says of the Direction's own variables.
LEMMA Types ==
    ASSUME TypeOK
    PROVE  /\ phase \in [Callers -> Phases] /\ req \in [Callers -> Request]
           /\ reply \in [Callers -> Reply] /\ work \in [Callers -> Steps]
           /\ copies \in [Intents -> 0 .. 2] /\ total \in [Intents -> 0 .. 2]
           /\ stage \in [Intents -> Stages] /\ conn \in [Callers -> Intents \cup {NoCaller}]
           /\ \A c \in Callers : req[c].intent \in Intents /\ req[c].print \in BOOLEAN
BY DEF TypeOK, LedgerTypeOK, Request

\* work() returns: with a success only when the file was there, or was just put
\* there.
LEMMA FinishPreservesLinks ==
    ASSUME L!LedgerInv, TypeOK, Links,
           NEW c \in Callers, NEW response \in {"ok", "unconfirmed", "failed"},
           Finish(c, response), ForgetEvicted,
           response = "ok" => req[c].intent \in inbox \/ work[c] = "renamed",
           work[c] = "renamed" => response = "ok",
           UNCHANGED <<inbox, total, stage, conn, approved>>, temps' \subseteq temps
    PROVE  Links' /\ work' \in [Callers -> Steps] /\ copies' \in [Intents -> 0 .. 2]
<1> USE Types
<1>1. /\ phase[c] = "running" /\ req[c].intent \in Intents
      /\ \A d \in Callers :
            \/ /\ d = c \/ (phase[d] = "joined" /\ req[d].intent = req[c].intent)
               /\ phase'[d] = "answered" /\ reply'[d] # NoReply
               /\ reply'[d].intent = req[c].intent /\ reply'[d].response = response
            \/ /\ d # c /\ phase'[d] = phase[d] /\ req'[d] = req[d] /\ reply'[d] = reply[d]
               /\ phase[d] = "running" => req[d].intent # req[c].intent
      /\ \A j \in Intents : Recorded(entries', j) =>
            Recorded(entries, j) \/ (j = req[c].intent /\ response = "ok")
      /\ response = "ok" => Recorded(entries', req[c].intent)
      /\ response # "ok" => entries' = entries
  BY SettleEffect DEF Finish
<1>2. work' = [work EXCEPT ![c] = "none"]
  BY DEF Finish
<1>3. \A d \in Callers : work'[d] # "none" =>
         /\ d # c /\ work'[d] = work[d] /\ phase[d] = "running"
         /\ phase'[d] = phase[d] /\ req'[d] = req[d]
  BY <1>1, <1>2 DEF Links, WorkIsRunning
<1>4. WorkIsRunning'
  BY <1>1, <1>2 DEF Links, WorkIsRunning
<1>5. ConnectionsMatch'
  BY <1>1 DEF Links, ConnectionsMatch
<1>6. PastTheGate' /\ WritesAreNew'
  BY <1>1, <1>2, <1>3, <1>4 DEF Links, PastTheGate, WritesAreNew, WorkIsRunning
<1>7. OnlyApproved'
  BY DEF Links, OnlyApproved
<1>8. SuccessMeansFile'
  <2>1. response = "ok" => total[req[c].intent] # 0
    BY <1>1 DEF Links, SuccessMeansFile
  <2>2. ASSUME NEW id \in Intents, id \in inbox' \/ Recorded(entries', id) \/ stage'[id] = "delivered"
        PROVE  total'[id] # 0
    BY <1>1, <2>1, <2>2 DEF Links, SuccessMeansFile
  <2>3. ASSUME NEW d \in Callers, work'[d] = "renamed"
        PROVE  total'[req'[d].intent] # 0
    BY <1>3, <2>3 DEF Links, SuccessMeansFile
  <2>4. ASSUME NEW d \in Callers, phase'[d] = "answered", IsOk(reply'[d])
        PROVE  total'[reply'[d].intent] # 0
    BY <1>1, <2>1, <2>4 DEF Links, SuccessMeansFile, IsOk
  <2> QED BY <2>2, <2>3, <2>4 DEF SuccessMeansFile
<1>9. CopiesAreRemembered' /\ copies' \in [Intents -> 0 .. 2]
  <2>1. \A id \in Intents :
           copies'[id] = IF Recorded(entries, id) /\ ~ Recorded(entries', id) THEN 0 ELSE copies[id]
    BY DEF ForgetEvicted, Forgotten
  <2>2. ASSUME NEW id \in Intents, copies'[id] # 0
        PROVE  Recorded(entries', id) \/ \E d \in Callers : work'[d] = "renamed" /\ req'[d].intent = id
    <3>1. copies[id] # 0 /\ (Recorded(entries, id) => Recorded(entries', id))
      BY <2>1, <2>2
    <3>2. CASE Recorded(entries, id)
      BY <3>1, <3>2
    <3>3. ASSUME NEW d \in Callers, work[d] = "renamed", req[d].intent = id
          PROVE  Recorded(entries', id) \/ (work'[d] = "renamed" /\ req'[d].intent = id)
      BY <1>1, <1>2, <3>3 DEF Links, WorkIsRunning
    <3> QED BY <3>1, <3>2, <3>3 DEF Links, CopiesAreRemembered
  <2>3. \A id \in Intents : copies'[id] <= 1
    BY <2>1 DEF Links, CopiesAreRemembered
  <2> QED BY <2>1, <2>2, <2>3 DEF CopiesAreRemembered, ForgetEvicted
<1>10. work' \in [Callers -> Steps]
  BY <1>2 DEF Steps
<1> QED BY <1>4, <1>5, <1>6, <1>7, <1>8, <1>9, <1>10 DEF Links

\* A client is told "delivered" only by a response "ok".
LEMMA OutcomeOfAnswer ==
    ASSUME NEW answer \in Reply, answer # NoReply
    PROVE  /\ Outcome(Http(answer)) \in Stages
           /\ Outcome(Http(answer)) = "delivered" => IsOk(answer)
<1> SUFFICES ASSUME NEW http, http = Http(answer)
             PROVE  /\ Outcome(http) \in Stages
                    /\ Outcome(http) = "delivered" => IsOk(answer)
  OBVIOUS
<1>1. /\ http.status = 409 => Outcome(http) = "armed"
      /\ http.status \in {500, 502} => Outcome(http) = "retry"
      /\ http.status = 422 => Outcome(http) = "refused"
      /\ http.status \in {200, 202} => Outcome(http) = IF http.ok THEN "delivered" ELSE "retry"
  BY DEF Outcome
<1>2. CASE answer \in [kind : {"executed", "replayed"}, intent : Intents,
                        response : {"ok", "unconfirmed", "failed"}]
  <2>1. http.status = Status(answer.intent, answer.response) /\ http.ok = (answer.response = "ok")
    BY <1>2 DEF Http
  <2>2. CASE answer.response = "ok"
    <3>1. http.status \in {200, 202}
      BY <2>1, <2>2 DEF Status
    <3> QED BY <1>1, <1>2, <2>2, <3>1 DEF Stages, IsOk
  <2>3. CASE answer.response = "unconfirmed"
    <3>1. http.status = 409
      BY <2>1, <2>3 DEF Status
    <3> QED BY <1>1, <3>1 DEF Stages
  <2>4. CASE answer.response = "failed"
    <3>1. http.status \in {200, 502} /\ ~ http.ok
      BY <2>1, <2>4 DEF Status
    <3> QED BY <1>1, <3>1 DEF Stages
  <2> QED BY <1>2, <2>2, <2>3, <2>4
<1>3. CASE answer \in [kind : {"mismatch", "threw"}, intent : Intents]
  <2>1. http.status \in {422, 500}
    BY <1>3 DEF Http
  <2> QED BY <1>1, <2>1 DEF Stages
<1> QED BY <1>2, <1>3 DEF Reply

LEMMA SendPreservesLinks ==
    ASSUME L!LedgerInv, TypeOK, Links, NEW id \in Intents, NEW c \in Callers, Send(id, c)
    PROVE  Links' /\ work' \in [Callers -> Steps]
<1> USE Types DEF Links, Send
<1>1. PICK fp \in BOOLEAN : Execute(c, id, fp) /\ (fp => id \in approved)
  <2>1. Execute(c, id, id \in approved) /\ ((id \in approved) \in BOOLEAN)
    OBVIOUS
  <2> QED BY <2>1
<1>2. /\ phase[c] = "idle" /\ phase'[c] \in {"running", "joined", "answered"}
      /\ \A d \in Callers \ {c} :
            phase'[d] = phase[d] /\ req'[d] = req[d] /\ reply'[d] = reply[d]
      /\ phase'[c] \in {"running", "joined"} =>
            req'[c].intent = id /\ req'[c].print = fp
      /\ phase'[c] = "answered" =>
            /\ reply'[c] # NoReply /\ reply'[c].intent = id
            /\ IsOk(reply'[c]) => Recorded(entries, id)
      /\ \A j \in Intents : Recorded(entries', j) <=> Recorded(entries, j)
  BY <1>1, ExecuteEffect
<1>3. /\ work[c] = "none" /\ work'[c] \in {"none", "start"}
      /\ work'[c] = "start" <=> phase'[c] = "running"
      /\ \A d \in Callers \ {c} : work'[d] = work[d]
  BY <1>2 DEF WorkIsRunning
<1>4. /\ conn'[c] = id
      /\ \A d \in Callers \ {c} : conn'[d] = conn[d]
  OBVIOUS
<1>5. WorkIsRunning'
  BY <1>2, <1>3 DEF WorkIsRunning
<1>6. ConnectionsMatch'
  BY <1>2, <1>4 DEF ConnectionsMatch
<1>7. PastTheGate' /\ WritesAreNew'
  <2>1. phase'[c] = "running" =>
           /\ work'[c] = "start" /\ req'[c].intent = id /\ (req'[c].print => id \in approved)
    BY <1>1, <1>2, <1>3
  <2>2. ASSUME NEW d \in Callers, phase'[d] = "running"
        PROVE  /\ req'[d].print => req'[d].intent \in approved'
               /\ work'[d] # "start" /\ req'[d].intent \in Consequential
                     => req'[d].intent \in approved'
    BY <1>2, <1>3, <2>1, <2>2 DEF PastTheGate
  <2>3. WritesAreNew'
    BY <1>2, <1>3 DEF WritesAreNew, diskVars
  <2> QED BY <2>2, <2>3 DEF PastTheGate
<1>8. OnlyApproved'
  BY DEF OnlyApproved, diskVars
<1>9. SuccessMeansFile'
  <2>1. ASSUME NEW j \in Intents, j \in inbox' \/ Recorded(entries', j) \/ stage'[j] = "delivered"
        PROVE  total'[j] # 0
    BY <1>2, <2>1 DEF SuccessMeansFile, diskVars
  <2>2. ASSUME NEW d \in Callers, work'[d] = "renamed"
        PROVE  total'[req'[d].intent] # 0
    BY <1>2, <1>3, <2>2 DEF SuccessMeansFile, diskVars
  <2>3. ASSUME NEW d \in Callers, phase'[d] = "answered", IsOk(reply'[d])
        PROVE  total'[reply'[d].intent] # 0
    BY <1>2, <2>3 DEF SuccessMeansFile, diskVars
  <2> QED BY <2>1, <2>2, <2>3 DEF SuccessMeansFile
<1>10. CopiesAreRemembered'
  BY <1>2, <1>3 DEF CopiesAreRemembered, diskVars
<1>11. work' \in [Callers -> Steps]
  BY DEF Steps
<1> QED BY <1>5, <1>6, <1>7, <1>8, <1>9, <1>10, <1>11

LEMMA ReceivePreservesLinks ==
    ASSUME L!LedgerInv, TypeOK, Links, NEW c \in Callers, Receive(c)
    PROVE  Links' /\ stage' \in [Intents -> Stages]
<1> USE Types DEF Links, Receive, Respond, diskVars
<1>1. reply[c] \in Reply \ {NoReply} /\ phase[c] = "answered"
  BY DEF ConnectionsMatch
<1>2. /\ Outcome(Http(reply[c])) \in Stages
      /\ Outcome(Http(reply[c])) = "delivered" => IsOk(reply[c])
  BY <1>1, OutcomeOfAnswer
<1>3. stage' \in [Intents -> Stages]
  BY <1>2
<1>4. \A id \in Intents : stage'[id] = "delivered" => stage[id] = "delivered" \/ total[id] # 0
  BY <1>1, <1>2 DEF ConnectionsMatch, SuccessMeansFile
<1>5. /\ phase'[c] = "idle" /\ conn'[c] = NoCaller /\ work[c] = "none"
      /\ \A d \in Callers \ {c} :
            phase'[d] = phase[d] /\ reply'[d] = reply[d] /\ conn'[d] = conn[d]
  BY <1>1 DEF WorkIsRunning
<1>6. WorkIsRunning' /\ ConnectionsMatch'
  BY <1>5 DEF WorkIsRunning, ConnectionsMatch
<1>7. PastTheGate' /\ WritesAreNew' /\ OnlyApproved' /\ CopiesAreRemembered'
  BY <1>5 DEF PastTheGate, WritesAreNew, OnlyApproved, CopiesAreRemembered
<1>8. SuccessMeansFile'
  BY <1>4, <1>5 DEF SuccessMeansFile
<1> QED BY <1>3, <1>6, <1>7, <1>8

\* What the user and the network do to the client.
LEMMA ClientPreservesLinks ==
    ASSUME TypeOK, Links, UNCHANGED <<ledger, work, diskVars>>,
           \/ \E c \in Callers : LoseResponse(c)
           \/ \E id \in Intents : ArmFirst(id) \/ Confirm(id) \/ Cancel(id)
    PROVE  Links' /\ stage' \in [Intents -> Stages] /\ approved' \subseteq Intents
<1> USE Types DEF ledger, diskVars
<1>1. /\ stage' \in [Intents -> Stages] /\ approved \subseteq approved'
      /\ approved' \subseteq Intents
      /\ \A id \in Intents : stage'[id] = "delivered" => stage[id] = "delivered"
      /\ \A c \in Callers : conn'[c] # NoCaller => conn'[c] = conn[c]
  <2>1. CASE \E c \in Callers : LoseResponse(c)
    BY <2>1 DEF LoseResponse, Stages, TypeOK
  <2>2. CASE \E id \in Intents : ArmFirst(id) \/ Confirm(id) \/ Cancel(id)
    BY <2>2 DEF ArmFirst, Confirm, Cancel, Stages, TypeOK
  <2> QED BY <2>1, <2>2
<1>2. WorkIsRunning' /\ ConnectionsMatch' /\ WritesAreNew' /\ CopiesAreRemembered'
  BY <1>1 DEF Links, WorkIsRunning, ConnectionsMatch, WritesAreNew, CopiesAreRemembered
<1>3. PastTheGate' /\ OnlyApproved' /\ SuccessMeansFile'
  BY <1>1 DEF Links, PastTheGate, OnlyApproved, SuccessMeansFile
<1> QED BY <1>1, <1>2, <1>3 DEF Links

\* A step of work() that leaves the ledger, the clients and the counters alone
\* and moves on: past the gate only with an approval, to the write only when no
\* file is there, and never to "renamed".
LEMMA MovePreservesLinks ==
    ASSUME TypeOK, Links, UNCHANGED <<ledger, clientVars, inbox, copies, total>>,
           NEW c \in Callers, phase[c] = "running", work[c] # "renamed",
           NEW to \in {"write", "rename", "cleanup"}, work' = [work EXCEPT ![c] = to],
           req[c].intent \in Consequential => req[c].intent \in approved,
           to \in {"write", "rename"} => req[c].intent \notin inbox,
           temps' \subseteq temps \cup {Temp(c)}
    PROVE  Links' /\ work' \in [Callers -> Steps]
<1> USE Types DEF ledger, clientVars
<1>1. /\ work' \in [Callers -> Steps] /\ work'[c] = to
      /\ \A d \in Callers \ {c} : work'[d] = work[d]
  BY DEF Steps
<1>2. WorkIsRunning' /\ ConnectionsMatch'
  BY <1>1 DEF Links, WorkIsRunning, ConnectionsMatch
<1>3. PastTheGate' /\ WritesAreNew'
  BY <1>1 DEF Links, PastTheGate, WritesAreNew
<1>4. OnlyApproved'
  <2>1. ASSUME NEW id \in Consequential \ approved, NEW p \in Pids, <<id, p>> \in temps'
        PROVE  FALSE
    <3>1. <<id, p>> = Temp(c)
      BY <2>1 DEF Links, OnlyApproved
    <3> QED BY <2>1, <3>1 DEF Temp
  <2> QED BY <2>1 DEF Links, OnlyApproved
<1>5. SuccessMeansFile' /\ CopiesAreRemembered'
  BY <1>1 DEF Links, SuccessMeansFile, CopiesAreRemembered
<1> QED BY <1>1, <1>2, <1>3, <1>4, <1>5 DEF Links

\* The rename makes one copy of an intent that had none: it is not recorded,
\* since it runs, and nobody else runs it.
LEMMA RenamePreservesLinks ==
    ASSUME L!LedgerInv, TypeOK, Links, NEW c \in Callers, phase[c] = "running",
           work[c] = "rename", UNCHANGED <<ledger, clientVars>>,
           temps' = temps \ {Temp(c)}, inbox' = inbox \cup {req[c].intent},
           copies' = Count(copies, req[c].intent), total' = Count(total, req[c].intent),
           work' = [work EXCEPT ![c] = "renamed"]
    PROVE  /\ Links' /\ work' \in [Callers -> Steps]
           /\ copies' \in [Intents -> 0 .. 2] /\ total' \in [Intents -> 0 .. 2]
<1> USE Types DEF ledger, clientVars
<1> DEFINE id == req[c].intent
<1>1. /\ work' \in [Callers -> Steps] /\ work'[c] = "renamed"
      /\ \A d \in Callers \ {c} : work'[d] = work[d]
  BY DEF Steps
<1>2. /\ id \in Intents /\ ~ Recorded(entries, id)
      /\ \A d \in Callers \ {c} : phase[d] = "running" => req[d].intent # id
  BY SameOperators, LedgerAssumption
     DEF L!LedgerInv, L!InFlightIsRunning, L!InFlightNotRecorded
<1>3. /\ copies' \in [Intents -> 0 .. 2] /\ total' \in [Intents -> 0 .. 2]
      /\ \A j \in Intents : j # id => copies'[j] = copies[j] /\ total'[j] = total[j]
      /\ total'[id] # 0 /\ (copies[id] = 0 => copies'[id] = 1)
  BY <1>2 DEF Count
<1>4. \A j \in Intents : total[j] # 0 => total'[j] # 0
  BY <1>3
<1>5. copies[id] = 0
  BY <1>2 DEF Links, CopiesAreRemembered, WorkIsRunning
<1>6. WorkIsRunning' /\ ConnectionsMatch'
  BY <1>1 DEF Links, WorkIsRunning, ConnectionsMatch
<1>7. PastTheGate' /\ (id \in Consequential => id \in approved)
  BY <1>1 DEF Links, PastTheGate
<1>8. OnlyApproved'
  <2>1. ASSUME NEW j \in Consequential \ approved
        PROVE  j # id /\ j \in Intents
    BY <1>7, IntentAssumption DEF Consequential
  <2> QED BY <1>3, <2>1 DEF Links, OnlyApproved
<1>9. WritesAreNew'
  BY <1>1, <1>2 DEF Links, WritesAreNew, WorkIsRunning
<1>10. SuccessMeansFile'
  <2>1. ASSUME NEW j \in Intents, j \in inbox' \/ Recorded(entries', j) \/ stage'[j] = "delivered"
        PROVE  total'[j] # 0
    BY <1>3, <1>4, <2>1 DEF Links, SuccessMeansFile
  <2>2. ASSUME NEW d \in Callers, work'[d] = "renamed"
        PROVE  total'[req'[d].intent] # 0
    BY <1>1, <1>3, <1>4, <2>2 DEF Links, SuccessMeansFile
  <2>3. ASSUME NEW d \in Callers, phase'[d] = "answered", IsOk(reply'[d])
        PROVE  total'[reply'[d].intent] # 0
    <3>1. reply[d].intent \in Intents /\ total[reply[d].intent] # 0
      BY <2>3 DEF Links, SuccessMeansFile, IsOk, Reply, NoReply
    <3> QED BY <1>4, <3>1
  <2> QED BY <2>1, <2>2, <2>3 DEF SuccessMeansFile
<1>11. CopiesAreRemembered'
  BY <1>1, <1>3, <1>5 DEF Links, CopiesAreRemembered
<1> QED BY <1>1, <1>3, <1>6, <1>7, <1>8, <1>9, <1>10, <1>11 DEF Links

\* The process ends: what was running is gone, the files are not.
LEMMA CrashPreservesLinks ==
    ASSUME TypeOK, Links, Crash
    PROVE  /\ Links' /\ work' \in [Callers -> Steps] /\ stage' \in [Intents -> Stages]
           /\ copies' \in [Intents -> 0 .. 2]
<1> USE Types DEF Crash, LoseLedger
<1>1. /\ work' \in [Callers -> Steps] /\ stage' \in [Intents -> Stages]
      /\ copies' \in [Intents -> 0 .. 2]
      /\ \A id \in Intents : stage'[id] = "delivered" => stage[id] = "delivered"
      /\ \A c \in Callers : work'[c] = "none" /\ phase'[c] = "idle" /\ conn'[c] = NoCaller
      /\ \A id \in Intents : ~ Recorded(entries', id)
  BY DEF Steps, Stages, Recorded
<1>2. WorkIsRunning' /\ ConnectionsMatch' /\ PastTheGate' /\ WritesAreNew'
  BY <1>1 DEF WorkIsRunning, ConnectionsMatch, PastTheGate, WritesAreNew
<1>3. OnlyApproved' /\ SuccessMeansFile' /\ CopiesAreRemembered'
  BY <1>1 DEF Links, OnlyApproved, SuccessMeansFile, CopiesAreRemembered
<1> QED BY <1>1, <1>2, <1>3 DEF Links

-----------------------------------------------------------------------------
(* The invariant.                                                          *)

LEMMA InitEstablishesInv == Init => DirectionInv
<1> SUFFICES ASSUME Init PROVE DirectionInv
  OBVIOUS
<1> USE DEF Init
<1>1. L!LedgerInv
  <2>1. LedgerInit => L!LedgerInit
    BY DEF LedgerInit, L!LedgerInit, NoRequest, L!NoRequest, Request, L!Request, NoReply, L!NoReply
  <2> QED BY <2>1, L!InitEstablishesInv, LedgerAssumptionsHold
<1>2. TypeOK
  <2>1. LedgerTypeOK
    BY <1>1, SameOperators DEF L!LedgerInv
  <2> QED BY <2>1, TroubleAssumption DEF TypeOK, Steps, Stages
<1>3. WorkIsRunning /\ ConnectionsMatch /\ PastTheGate /\ WritesAreNew
  BY DEF LedgerInit, WorkIsRunning, ConnectionsMatch, PastTheGate, WritesAreNew
<1>4. OnlyApproved
  BY IntentAssumption DEF OnlyApproved, Consequential
<1>5. SuccessMeansFile /\ CopiesAreRemembered
  BY DEF LedgerInit, SuccessMeansFile, CopiesAreRemembered, Recorded
<1> QED BY <1>1, <1>2, <1>3, <1>4, <1>5 DEF DirectionInv, Links

\* Direction serves the ledger as LedgerNext says.
LEMMA StepsOfTheLedger ==
    ASSUME TypeOK, [Next]_vars
    PROVE  [L!LedgerNext]_(L!ledgerVars)
<1> USE DEF ledger, L!ledgerVars
<1>1. ASSUME NEW c \in Callers, NEW response \in {"ok", "unconfirmed", "failed"},
             Finish(c, response)
      PROVE  L!LedgerNext
  BY <1>1, SameActions, LedgerAssumption DEF Finish, L!LedgerNext
<1>2. ASSUME NEW id \in Intents, NEW c \in Callers, Send(id, c) PROVE L!LedgerNext
  <2>1. PICK fp \in BOOLEAN : Execute(c, id, fp)
    <3>1. Execute(c, id, id \in approved) /\ ((id \in approved) \in BOOLEAN)
      BY <1>2 DEF Send
    <3> QED BY <3>1
  <2>2. L!Execute(c, id, fp)
    BY <2>1, SameActions
  <2> QED BY <2>2 DEF L!LedgerNext
<1>3. ASSUME NEW c \in Callers, Receive(c) PROVE L!LedgerNext
  BY <1>3, SameActions, LedgerAssumption DEF Receive, L!LedgerNext
<1>4. ASSUME NEW c \in Callers, Start(c) PROVE L!LedgerNext \/ UNCHANGED L!ledgerVars
  BY <1>1, <1>4 DEF Start, Begin
<1>5. ASSUME NEW c \in Callers,
             ActionRefused(c) \/ DispatchRefused(c) \/ MkdirFails(c) \/ Delivered(c) \/ Cleanup(c)
      PROVE  L!LedgerNext
  BY <1>1, <1>5 DEF ActionRefused, DispatchRefused, MkdirFails, Delivered, Cleanup
<1>6. ASSUME NEW c \in Callers, WriteTemp(c) \/ RenameTemp(c) \/ LoseResponse(c)
      PROVE  UNCHANGED L!ledgerVars
  BY <1>6 DEF WriteTemp, RenameTemp, LoseResponse
<1>7. ASSUME NEW id \in Intents, ArmFirst(id) \/ Confirm(id) \/ Cancel(id) \/ Drain(id)
      PROVE  UNCHANGED L!ledgerVars
  BY <1>7 DEF ArmFirst, Confirm, Cancel, Drain
<1>8. Crash => L!LedgerNext
  BY DEF Crash, LoseLedger, L!LoseLedger, L!LedgerNext, NoRequest, L!NoRequest, Request, L!Request,
         NoReply, L!NoReply
<1>9. UNCHANGED vars => UNCHANGED L!ledgerVars
  BY DEF vars
<1> QED BY <1>2, <1>3, <1>4, <1>5, <1>6, <1>7, <1>8, <1>9 DEF Next

\* The parts of the type invariant that no lemma above speaks of.
PlainTypes ==
    /\ pid \in Pids /\ temps \subseteq Intents \X Pids /\ inbox \subseteq Intents
    /\ total \in [Intents -> 0 .. 2] /\ conn \in [Callers -> Intents \cup {NoCaller}]
    /\ approved \subseteq Intents /\ trouble \in 0 .. MaxTrouble

OtherTypes ==
    /\ work \in [Callers -> Steps] /\ copies \in [Intents -> 0 .. 2]
    /\ stage \in [Intents -> Stages]

LEMMA NextPreservesLinks ==
    ASSUME DirectionInv, Next
    PROVE  Links' /\ PlainTypes' /\ OtherTypes'
<1> USE Types, TroubleAssumption DEF DirectionInv
<1>0. PlainTypes /\ OtherTypes
  BY DEF TypeOK, PlainTypes, OtherTypes
<1>1. ASSUME NEW id \in Intents, NEW c \in Callers, Send(id, c)
      PROVE  Links' /\ PlainTypes' /\ OtherTypes'
  <2>1. Links' /\ work' \in [Callers -> Steps]
    BY <1>1, SendPreservesLinks
  <2>2. PlainTypes' /\ copies' = copies /\ stage' \in [Intents -> Stages]
    BY <1>0, <1>1 DEF Send, PlainTypes, diskVars, Stages
  <2> QED BY <2>1, <2>2 DEF OtherTypes
<1>2. ASSUME NEW c \in Callers, Receive(c)
      PROVE  Links' /\ PlainTypes' /\ OtherTypes'
  <2>1. Links' /\ stage' \in [Intents -> Stages]
    BY <1>2, ReceivePreservesLinks
  <2>2. PlainTypes' /\ copies' = copies /\ work' = work
    BY <1>0, <1>2 DEF Receive, PlainTypes, diskVars
  <2> QED BY <2>1, <2>2 DEF OtherTypes
<1>3. ASSUME \/ \E c \in Callers : LoseResponse(c)
             \/ \E id \in Intents : ArmFirst(id) \/ Confirm(id) \/ Cancel(id)
      PROVE  Links' /\ PlainTypes' /\ OtherTypes'
  <2>1. UNCHANGED <<ledger, work, pid, diskVars>>
    BY <1>3 DEF LoseResponse, ArmFirst, Confirm, Cancel
  <2>2. Links' /\ stage' \in [Intents -> Stages] /\ approved' \subseteq Intents
    BY <1>3, <2>1, ClientPreservesLinks
  <2>3. conn' \in [Callers -> Intents \cup {NoCaller}] /\ trouble' \in 0 .. MaxTrouble
    BY <1>0, <1>3 DEF LoseResponse, ArmFirst, Confirm, Cancel, Troubled, PlainTypes
  <2> QED BY <1>0, <2>1, <2>2, <2>3 DEF PlainTypes, OtherTypes, diskVars
<1>4. ASSUME NEW c \in Callers, NEW response \in {"ok", "unconfirmed", "failed"},
             Finish(c, response), ForgetEvicted,
             response = "ok" => req[c].intent \in inbox \/ work[c] = "renamed",
             work[c] = "renamed" => response = "ok",
             UNCHANGED <<pid, inbox, total, stage, conn, approved>>, temps' \subseteq temps,
             UNCHANGED trouble \/ Troubled
      PROVE  Links' /\ PlainTypes' /\ OtherTypes'
  <2>1. Links' /\ work' \in [Callers -> Steps] /\ copies' \in [Intents -> 0 .. 2]
    BY <1>4, FinishPreservesLinks
  <2>2. PlainTypes'
    BY <1>0, <1>4 DEF PlainTypes, Troubled
  <2> QED BY <1>0, <1>4, <2>1, <2>2 DEF OtherTypes
<1>5. ASSUME NEW c \in Callers,
             UNCHANGED <<ledger, clientVars, pid, inbox, copies, total>>,
             phase[c] = "running", work[c] # "renamed",
             NEW to \in {"write", "rename", "cleanup"}, work' = [work EXCEPT ![c] = to],
             req[c].intent \in Consequential => req[c].intent \in approved,
             to \in {"write", "rename"} => req[c].intent \notin inbox,
             temps' \subseteq temps \cup {Temp(c)}, UNCHANGED trouble \/ Troubled
      PROVE  Links' /\ PlainTypes' /\ OtherTypes'
  <2>1. Links' /\ work' \in [Callers -> Steps]
    BY <1>5, MovePreservesLinks
  <2>2. PlainTypes'
    BY <1>0, <1>5 DEF PlainTypes, Troubled, Temp, clientVars
  <2> QED BY <1>0, <1>5, <2>1, <2>2 DEF OtherTypes, clientVars
<1>6. ASSUME NEW c \in Callers, Start(c)
      PROVE  Links' /\ PlainTypes' /\ OtherTypes'
  <2> USE <1>6 DEF Start, Begin
  <2>1. CASE ActionGate(c) \/ DispatchGate(c)
    BY <2>1, <1>4 DEF clientVars
  <2>2. CASE ~ (ActionGate(c) \/ DispatchGate(c)) /\ req[c].intent \in inbox
    BY <2>2, <1>4 DEF clientVars
  <2>3. CASE ~ (ActionGate(c) \/ DispatchGate(c)) /\ req[c].intent \notin inbox
    <3>1. req[c].intent \in Consequential => req[c].intent \in approved
      BY <2>3 DEF Links, PastTheGate, ActionGate, DispatchGate, Consequential
    <3>2. /\ work' = [work EXCEPT ![c] = "write"] /\ phase[c] = "running" /\ work[c] = "start"
          /\ UNCHANGED <<ledger, clientVars, pid, inbox, copies, total, temps, trouble>>
      BY <2>3
    <3> QED BY <1>5, <2>3, <3>1, <3>2
  <2> QED BY <2>1, <2>2, <2>3
<1>7. ASSUME NEW c \in Callers,
             ActionRefused(c) \/ DispatchRefused(c) \/ MkdirFails(c) \/ Delivered(c) \/ Cleanup(c)
      PROVE  Links' /\ PlainTypes' /\ OtherTypes'
  <2>1. CASE ActionRefused(c) \/ DispatchRefused(c) \/ MkdirFails(c)
    BY <2>1, <1>4 DEF ActionRefused, DispatchRefused, MkdirFails, clientVars
  <2>2. CASE Delivered(c)
    BY <2>2, <1>4 DEF Delivered, clientVars
  <2>3. CASE Cleanup(c)
    BY <2>3, <1>4 DEF Cleanup, clientVars
  <2> QED BY <1>7, <2>1, <2>2, <2>3
<1>8. ASSUME NEW c \in Callers, work[c] \in {"write", "rename"}
      PROVE  /\ phase[c] = "running" /\ req[c].intent \notin inbox
             /\ req[c].intent \in Consequential => req[c].intent \in approved
  BY <1>8 DEF Links, WorkIsRunning, WritesAreNew, PastTheGate
<1>9. ASSUME NEW c \in Callers, WriteTemp(c)
      PROVE  Links' /\ PlainTypes' /\ OtherTypes'
  <2>1. /\ work[c] = "write"
        /\ UNCHANGED <<ledger, clientVars, pid, inbox, copies, total>>
        /\ temps' \subseteq temps \cup {Temp(c)} /\ (UNCHANGED trouble \/ Troubled)
        /\ work' = [work EXCEPT ![c] = "rename"] \/ work' = [work EXCEPT ![c] = "cleanup"]
    BY <1>9 DEF WriteTemp
  <2> QED BY <1>5, <1>8, <2>1
<1>10. ASSUME NEW c \in Callers, RenameTemp(c)
      PROVE  Links' /\ PlainTypes' /\ OtherTypes'
  <2> USE <1>10 DEF RenameTemp
  <2>1. CASE work' = [work EXCEPT ![c] = "renamed"] /\ UNCHANGED trouble
               /\ temps' = temps \ {Temp(c)} /\ inbox' = inbox \cup {req[c].intent}
               /\ copies' = Count(copies, req[c].intent) /\ total' = Count(total, req[c].intent)
    <3>1. UNCHANGED <<ledger, clientVars, pid>> /\ work[c] = "rename"
      OBVIOUS
    <3>2. /\ Links' /\ work' \in [Callers -> Steps]
          /\ copies' \in [Intents -> 0 .. 2] /\ total' \in [Intents -> 0 .. 2]
      BY <1>8, <2>1, <3>1, RenamePreservesLinks
    <3> QED BY <1>0, <2>1, <3>1, <3>2 DEF PlainTypes, OtherTypes, clientVars
  <2>2. CASE work' = [work EXCEPT ![c] = "cleanup"] /\ UNCHANGED diskVars
               /\ (UNCHANGED trouble \/ Troubled)
    <3>1. /\ UNCHANGED <<ledger, clientVars, pid, inbox, copies, total>>
          /\ temps' \subseteq temps \cup {Temp(c)} /\ work[c] = "rename"
      BY <2>2 DEF diskVars
    <3> QED BY <1>5, <1>8, <2>2, <3>1
  <2> QED BY <2>1, <2>2
<1>11. ASSUME NEW id \in Intents, Drain(id)
      PROVE  Links' /\ PlainTypes' /\ OtherTypes'
  <2>1. PlainTypes' /\ OtherTypes'
    BY <1>0, <1>11 DEF Drain, PlainTypes, OtherTypes, clientVars
  <2>2. Links'
    BY <1>11 DEF Drain, ledger, clientVars, Links, WorkIsRunning, ConnectionsMatch, PastTheGate,
                 OnlyApproved, WritesAreNew, SuccessMeansFile, CopiesAreRemembered
  <2> QED BY <2>1, <2>2
<1>12. ASSUME Crash
      PROVE  Links' /\ PlainTypes' /\ OtherTypes'
  <2>1. /\ Links' /\ work' \in [Callers -> Steps] /\ stage' \in [Intents -> Stages]
        /\ copies' \in [Intents -> 0 .. 2]
    BY <1>12, CrashPreservesLinks
  <2>2. PlainTypes'
    BY <1>0, <1>12 DEF Crash, PlainTypes, Troubled
  <2> QED BY <2>1, <2>2 DEF OtherTypes
<1> QED BY <1>1, <1>2, <1>3, <1>6, <1>7, <1>9, <1>10, <1>11, <1>12 DEF Next

LEMMA NextPreservesInv == DirectionInv /\ [Next]_vars => DirectionInv'
<1> SUFFICES ASSUME DirectionInv, [Next]_vars PROVE DirectionInv'
  OBVIOUS
<1>1. L!LedgerInv'
  <2>1. L!LedgerInv /\ [L!LedgerNext]_(L!ledgerVars)
    BY StepsOfTheLedger DEF DirectionInv
  <2> QED BY <2>1, L!NextPreservesInv, LedgerAssumptionsHold
<1>2. LedgerTypeOK'
  <2>1. L!LedgerTypeOK'
    BY <1>1 DEF L!LedgerInv
  <2> QED BY <2>1 DEF L!LedgerTypeOK, LedgerTypeOK, L!Entry, Entry, L!Request, Request,
             L!Reply, Reply, L!NoReply, NoReply, L!Phases, Phases
<1>3. CASE Next
  <2>1. Links' /\ PlainTypes' /\ OtherTypes'
    BY <1>3, NextPreservesLinks
  <2> QED BY <1>1, <1>2, <2>1 DEF DirectionInv, TypeOK, PlainTypes, OtherTypes
<1>4. CASE UNCHANGED vars
  <2>1. TypeOK'
    BY <1>2, <1>4 DEF DirectionInv, TypeOK, vars, diskVars, clientVars
  <2>2. Links'
    BY <1>4 DEF vars, ledger, diskVars, clientVars, DirectionInv, Links, WorkIsRunning,
                ConnectionsMatch, PastTheGate, OnlyApproved, WritesAreNew, SuccessMeansFile,
                CopiesAreRemembered
  <2> QED BY <1>1, <2>1, <2>2 DEF DirectionInv
<1> QED BY <1>3, <1>4

THEOREM DirectionInvariant == SafetySpec => []DirectionInv
<1> QED BY InitEstablishesInv, NextPreservesInv, PTL DEF SafetySpec

-----------------------------------------------------------------------------
(* What follows from it.                                                   *)

\* However the routes, the disk and crashes use it, what happens to the ledger
\* is a behaviour of IntentLedger: its theorems hold of the Hub's ledger.
THEOREM DirectionUsesTheLedger == SafetySpec => L!LedgerSafetySpec
<1>1. Init => L!LedgerInit
  BY DEF Init, LedgerInit, L!LedgerInit, NoRequest, L!NoRequest, Request, L!Request,
         NoReply, L!NoReply
<1>2. DirectionInv /\ [Next]_vars => [L!LedgerNext]_(L!ledgerVars)
  BY StepsOfTheLedger DEF DirectionInv
<1> QED BY <1>1, <1>2, DirectionInvariant, PTL DEF SafetySpec, L!LedgerSafetySpec

\* Whatever is retried, joined, lost or crashed, no file of an action that asks
\* for a confirmation, or of a new task, reaches the inbox directory before the
\* user has confirmed that operation (server.ts:278, server.ts:407).
THEOREM DirectionNoUnapprovedDelivery == SafetySpec => []NoUnapprovedDelivery
<1>1. DirectionInv => NoUnapprovedDelivery
  BY DEF DirectionInv, Links, OnlyApproved, NoUnapprovedDelivery
<1> QED BY <1>1, DirectionInvariant, PTL

\* As long as the ledger remembers an intent, it is delivered once at most,
\* over every await of writeIntentFile (intentLedger.ts:51-54, inbox.ts:38-69).
THEOREM DirectionOneDeliveryPerMemory == SafetySpec => []OneDeliveryPerMemory
<1>1. DirectionInv => OneDeliveryPerMemory
  BY DEF DirectionInv, Links, CopiesAreRemembered, OneDeliveryPerMemory
<1> QED BY <1>1, DirectionInvariant, PTL

\* A client is told "delivered" only when a file of its operation was delivered,
\* by its own request or by the one whose success is replayed (direction.ts:161).
THEOREM DirectionAckMeansDelivered == SafetySpec => []AckMeansDelivered
<1>1. DirectionInv => AckMeansDelivered
  BY Types DEF DirectionInv, Links, SuccessMeansFile, AckMeansDelivered
<1> QED BY <1>1, DirectionInvariant, PTL

\* The rename never replaces a file that Giles has not read yet: what existsSync
\* said before two awaits still holds (inbox.ts:47, inbox.ts:62).
THEOREM DirectionPendingFileNeverOverwritten == SafetySpec => PendingFileNeverOverwritten
<1>1. DirectionInv => \A c \in Callers :
         (work[c] = "rename" /\ work'[c] = "renamed") => req[c].intent \notin inbox
  BY DEF DirectionInv, Links, WritesAreNew
<1>2. DirectionInv /\ [Next]_vars =>
         [\A c \in Callers : (work[c] = "rename" /\ work'[c] = "renamed")
              => req[c].intent \notin inbox]_vars
  BY <1>1
<1> QED BY <1>2, DirectionInvariant, PTL DEF PendingFileNeverOverwritten, SafetySpec

=============================================================================
