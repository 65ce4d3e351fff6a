------------------------- MODULE IntentLedgerProofs -------------------------
(***************************************************************************)
(* What IntentLedger guarantees for any number of callers, intents and     *)
(* payloads and for any capacity.  The invariant ties the three places an  *)
(* intent may be: the in-flight map names exactly the caller that runs it, *)
(* callers wait only for a run of their own payload, and an intent in      *)
(* flight is not in the Map of recorded ones.                              *)
(***************************************************************************)
EXTENDS IntentLedger, SequenceTheorems, FiniteSetTheorems, TLAPS

InFlightIsRunning ==
    /\ \A c \in Callers : phase[c] = "running" => inFlight[req[c].intent] = c
    /\ \A id \in Intents : inFlight[id] # NoCaller =>
          /\ phase[inFlight[id]] = "running"
          /\ req[inFlight[id]].intent = id

JoinersMatch ==
    \A c \in Callers : phase[c] = "joined" =>
        /\ inFlight[req[c].intent] # NoCaller
        /\ req[inFlight[req[c].intent]].print = req[c].print

InFlightNotRecorded ==
    \A id \in Intents : inFlight[id] # NoCaller => ~ Recorded(entries, id)

LedgerInv ==
    /\ LedgerTypeOK
    /\ LedgerBounded
    /\ InFlightIsRunning
    /\ JoinersMatch
    /\ InFlightNotRecorded

-----------------------------------------------------------------------------
(* The Map.                                                                *)

Unique(s) == \A i, j \in DOMAIN s : s[i].intent = s[j].intent => i = j

\* Deleting a recorded intent closes the gap it leaves.
LEMMA DeleteShape ==
    ASSUME NEW s \in Seq(Entry), NEW id \in Intents, Recorded(s, id)
    PROVE  /\ Delete(s, id) \in Seq(Entry)
           /\ Len(Delete(s, id)) = Len(s) - 1
           /\ \E p \in 1 .. Len(s) :
                 /\ s[p].intent = id
                 /\ \A i \in 1 .. Len(s) - 1 :
                       Delete(s, id)[i] = IF i < p THEN s[i] ELSE s[i + 1]
<1> DEFINE p == CHOOSE i \in DOMAIN s : s[i].intent = id
           a == SubSeq(s, 1, p - 1)
           b == SubSeq(s, p + 1, Len(s))
           t == a \o b
<1>1. p \in 1 .. Len(s) /\ s[p].intent = id
  BY DEF Recorded
<1>2. Delete(s, id) = t
  BY DEF Delete
<1> HIDE DEF p
<1>3. a \in Seq(Entry) /\ Len(a) = p - 1 /\ \A i \in 1 .. (p - 1) : a[i] = s[i]
  BY <1>1
<1>4. b \in Seq(Entry) /\ Len(b) = Len(s) - p /\ \A i \in 1 .. (Len(s) - p) : b[i] = s[p + i]
  BY <1>1
<1> HIDE DEF a, b
<1>5. t \in Seq(Entry) /\ Len(t) = Len(a) + Len(b)
  BY <1>3, <1>4
<1>6. \A i \in 1 .. Len(t) : t[i] = IF i <= Len(a) THEN a[i] ELSE b[i - Len(a)]
  BY <1>3, <1>4, <1>5, ConcatProperties
<1>7. ASSUME NEW i \in 1 .. Len(t)
      PROVE  t[i] = IF i < p THEN s[i] ELSE s[i + 1]
  <2>1. CASE i < p
    BY <1>1, <1>3, <1>5, <1>6, <2>1
  <2>2. CASE ~ i < p
    <3>1. i - Len(a) \in 1 .. (Len(s) - p) /\ p + (i - Len(a)) = i + 1
      BY <1>1, <1>3, <1>4, <1>5, <2>2
    <3>2. t[i] = b[i - Len(a)]
      BY <1>1, <1>3, <1>6, <2>2
    <3> QED BY <1>4, <2>2, <3>1, <3>2
  <2> QED BY <2>1, <2>2
<1>8. Len(t) = Len(s) - 1
  BY <1>1, <1>3, <1>4, <1>5
<1> HIDE DEF t
<1> QED BY <1>1, <1>2, <1>5, <1>7, <1>8

\* Deleting an intent leaves a shorter Map that holds the others and not it.
LEMMA DeleteProperties ==
    ASSUME NEW s \in Seq(Entry), Unique(s), NEW id \in Intents
    PROVE  /\ Delete(s, id) \in Seq(Entry)
           /\ Unique(Delete(s, id))
           /\ ~ Recorded(Delete(s, id), id)
           /\ \A j \in Intents : Recorded(Delete(s, id), j) => Recorded(s, j)
           /\ \A j \in Intents \ {id} : Recorded(s, j) => Recorded(Delete(s, id), j)
           /\ Len(Delete(s, id)) =
                 IF Recorded(s, id) THEN Len(s) - 1 ELSE Len(s)
<1>1. CASE ~ Recorded(s, id)
  BY <1>1 DEF Delete, Recorded, Unique
<1>2. CASE Recorded(s, id)
  <2> DEFINE t == Delete(s, id)
  <2>1. t \in Seq(Entry) /\ Len(t) = Len(s) - 1
    BY <1>2, DeleteShape
  <2>2. PICK p \in 1 .. Len(s) :
           /\ s[p].intent = id
           /\ \A i \in 1 .. Len(s) - 1 : t[i] = IF i < p THEN s[i] ELSE s[i + 1]
    BY <1>2, DeleteShape
  <2> HIDE DEF t
  <2>3. \A i \in 1 .. Len(t) : t[i] = IF i < p THEN s[i] ELSE s[i + 1]
    BY <2>1, <2>2
  <2>4. \A i \in DOMAIN t : \E k \in DOMAIN s :
           k # p /\ t[i] = s[k] /\ k = IF i < p THEN i ELSE i + 1
    BY <2>1, <2>2, <2>3
  <2>8. ASSUME NEW j \in Intents \ {id}, Recorded(s, j) PROVE Recorded(t, j)
    <3>1. PICK k \in DOMAIN s : s[k].intent = j
      BY <2>8 DEF Recorded
    <3> DEFINE i == IF k < p THEN k ELSE k - 1
    <3>2. k # p /\ i \in DOMAIN t /\ t[i] = s[k]
      BY <2>1, <2>2, <2>3, <3>1
    <3> QED BY <3>1, <3>2 DEF Recorded
  <2>5. Unique(t)
    BY <2>1, <2>2, <2>3, <2>4 DEF Unique
  <2>6. ~ Recorded(t, id)
    BY <2>1, <2>2, <2>4 DEF Recorded, Unique
  <2>7. \A j \in Intents : Recorded(t, j) => Recorded(s, j)
    BY <2>4 DEF Recorded
  <2> QED BY <1>2, <2>1, <2>5, <2>6, <2>7, <2>8 DEF t
<1> QED BY <1>1, <1>2

\* Re-inserting a recorded intent changes the order and nothing else.
LEMMA GetProperties ==
    ASSUME NEW s \in Seq(Entry), Unique(s), NEW id \in Intents, Recorded(s, id)
    PROVE  /\ Get(s, id) \in Seq(Entry)
           /\ Unique(Get(s, id))
           /\ Len(Get(s, id)) = Len(s)
           /\ \A j \in Intents : Recorded(Get(s, id), j) <=> Recorded(s, j)
<1> DEFINE d == Delete(s, id)
           e == EntryOf(s, id)
<1>1. e \in Entry /\ e.intent = id
  BY DEF EntryOf, Recorded
<1>2. /\ d \in Seq(Entry) /\ Unique(d) /\ ~ Recorded(d, id)
      /\ \A j \in Intents : Recorded(d, j) => Recorded(s, j)
      /\ \A j \in Intents \ {id} : Recorded(s, j) => Recorded(d, j)
      /\ Len(d) = Len(s) - 1
  BY DeleteProperties
<1>3. Get(s, id) = Append(d, e)
  BY DEF Get
<1> HIDE DEF d, e
<1>4. Get(s, id) \in Seq(Entry) /\ Unique(Get(s, id)) /\ Len(Get(s, id)) = Len(s)
  BY <1>1, <1>2, <1>3 DEF Unique, Recorded
<1>5. \A j \in Intents : Recorded(Get(s, id), j) <=> Recorded(d, j) \/ j = id
  BY <1>1, <1>2, <1>3 DEF Recorded
<1> QED BY <1>2, <1>4, <1>5

\* Recording keeps the Map within its capacity and adds that intent, no other.
LEMMA RecordProperties ==
    ASSUME NEW s \in Seq(Entry), Unique(s), Len(s) <= Capacity, NEW e \in Entry
    PROVE  /\ Record(s, e) \in Seq(Entry)
           /\ Unique(Record(s, e))
           /\ Len(Record(s, e)) <= Capacity
           /\ \A j \in Intents : Recorded(Record(s, e), j) => j = e.intent \/ Recorded(s, j)
           /\ Recorded(Record(s, e), e.intent)
<1> USE CapacityAssumption
<1> DEFINE d == Delete(s, e.intent)
           t == Append(d, e)
           r == SubSeq(t, Len(t) - Capacity + 1, Len(t))
<1>0. e.intent \in Intents
  BY DEF Entry
<1>1. /\ d \in Seq(Entry) /\ Unique(d) /\ ~ Recorded(d, e.intent)
      /\ \A j \in Intents : Recorded(d, j) => Recorded(s, j)
      /\ Len(d) <= Len(s)
  BY <1>0, DeleteProperties
<1>2. Record(s, e) = IF Len(t) > Capacity THEN r ELSE t
  BY DEF Record
<1> HIDE DEF d
<1>3. /\ t \in Seq(Entry) /\ Len(t) = Len(d) + 1
      /\ Unique(t)
      /\ \A j \in Intents : Recorded(t, j) => j = e.intent \/ Recorded(s, j)
  BY <1>1 DEF Unique, Recorded
<1>6. t[Len(t)].intent = e.intent
  BY <1>1
<1> HIDE DEF t
<1>4. CASE Len(t) > Capacity
  <2>1. /\ r \in Seq(Entry) /\ Len(r) = Capacity
        /\ \A i \in 1 .. Capacity : r[i] = t[Len(t) - Capacity + i]
    BY <1>3, <1>4
  <2>2. /\ DOMAIN r = 1 .. Capacity
        /\ \A i \in DOMAIN r : Len(t) - Capacity + i \in DOMAIN t
    BY <1>3, <1>4, <2>1
  <2> HIDE DEF r
  <2>3. Unique(r)
    <3>1. ASSUME NEW i \in DOMAIN r, NEW j \in DOMAIN r, r[i].intent = r[j].intent
          PROVE  i = j
      <4>1. Len(t) - Capacity + i = Len(t) - Capacity + j
        BY <1>3, <2>1, <2>2, <3>1 DEF Unique
      <4> QED BY <1>3, <2>2, <4>1
    <3> QED BY <3>1 DEF Unique
  <2>4. \A j \in Intents : Recorded(r, j) => Recorded(t, j)
    BY <1>3, <2>1, <2>2 DEF Recorded
  <2>5. Recorded(r, e.intent)
    <3>1. Capacity \in DOMAIN r /\ r[Capacity] = t[Len(t)]
      <4>1. Capacity \in 1 .. Capacity /\ Len(t) - Capacity + Capacity = Len(t)
        BY <1>3
      <4> QED BY <2>1, <2>2, <4>1
    <3> QED BY <1>6, <3>1 DEF Recorded
  <2> QED BY <1>2, <1>3, <1>4, <2>1, <2>3, <2>4, <2>5
<1>5. CASE ~ Len(t) > Capacity
  <2>1. Recorded(t, e.intent)
    BY <1>3, <1>6 DEF Recorded
  <2> QED BY <1>1, <1>2, <1>3, <1>5, <2>1
<1> QED BY <1>4, <1>5
-----------------------------------------------------------------------------
(* The invariant.                                                          *)

LEMMA NoRequestIsRequest == NoRequest \in Request
<1>1. PICK id \in Intents, fp \in Prints : TRUE
  BY RequestAssumption
<1>2. [intent |-> id, print |-> fp] \in Request
  BY DEF Request
<1> QED BY <1>2 DEF NoRequest

LEMMA InitEstablishesInv == LedgerInit => LedgerInv
<1> SUFFICES ASSUME LedgerInit PROVE LedgerInv
  OBVIOUS
<1> USE DEF LedgerInit
<1>1. NoRequest \in Request
  BY NoRequestIsRequest
<1>2. LedgerTypeOK
  BY <1>1 DEF LedgerTypeOK, Phases, Reply
<1>3. LedgerBounded
  BY CapacityAssumption DEF LedgerBounded
<1>4. InFlightIsRunning /\ JoinersMatch /\ InFlightNotRecorded
  BY DEF InFlightIsRunning, JoinersMatch, InFlightNotRecorded
<1> QED BY <1>2, <1>3, <1>4 DEF LedgerInv

\* Answering from the Map touches only the Map's order and the caller.
LEMMA AnswerRecordedPreservesInv ==
    ASSUME LedgerInv, NEW c \in Callers, NEW id \in Intents, NEW fp \in Prints,
           AnswerRecorded(c, id, fp)
    PROVE  LedgerInv'
<1> USE DEF LedgerInv
<1>1. /\ entries \in Seq(Entry) /\ Unique(entries) /\ Recorded(entries, id)
  BY DEF LedgerTypeOK, LedgerBounded, Unique, AnswerRecorded
<1>2. /\ entries' \in Seq(Entry) /\ Unique(entries') /\ Len(entries') = Len(entries)
      /\ \A j \in Intents : Recorded(entries', j) => Recorded(entries, j)
  BY <1>1, GetProperties DEF AnswerRecorded
<1>3. EntryOf(entries, id) \in Entry
  BY <1>1 DEF EntryOf, Recorded
<1>4. LedgerTypeOK'
  BY <1>2, <1>3 DEF LedgerTypeOK, AnswerRecorded, Answer, Phases, Reply, Entry
<1>5. LedgerBounded'
  BY <1>2 DEF LedgerBounded, Unique
<1>6. InFlightIsRunning' /\ JoinersMatch'
  BY DEF InFlightIsRunning, JoinersMatch, LedgerTypeOK, AnswerRecorded, Answer, Phases, Request
<1>7. InFlightNotRecorded'
  BY <1>2 DEF InFlightNotRecorded, AnswerRecorded
<1> QED BY <1>4, <1>5, <1>6, <1>7

LEMMA JoinInFlightPreservesInv ==
    ASSUME LedgerInv, NEW c \in Callers, NEW id \in Intents, NEW fp \in Prints,
           JoinInFlight(c, id, fp)
    PROVE  LedgerInv'
<1> USE DEF LedgerInv, JoinInFlight
<1>1. LedgerTypeOK'
  <2>1. CASE req[inFlight[id]].print = fp
    BY <2>1 DEF LedgerTypeOK, Enter, Phases, Request
  <2>2. CASE req[inFlight[id]].print # fp
    <3>1. [kind |-> "mismatch", intent |-> id] \in Reply
      BY DEF Reply
    <3> QED BY <2>2, <3>1 DEF LedgerTypeOK, Answer, Phases
  <2> QED BY <2>1, <2>2
<1>2. LedgerBounded' /\ InFlightNotRecorded'
  BY DEF LedgerBounded, InFlightNotRecorded
<1>3. InFlightIsRunning'
  BY DEF InFlightIsRunning, LedgerTypeOK, Answer, Enter, Phases, Request
<1>4. JoinersMatch'
  BY NoCallerAssumption DEF InFlightIsRunning, JoinersMatch, LedgerTypeOK, Answer, Enter, Phases, Request
<1> QED BY <1>1, <1>2, <1>3, <1>4

LEMMA StartWorkPreservesInv ==
    ASSUME LedgerInv, NEW c \in Callers, NEW id \in Intents, NEW fp \in Prints,
           StartWork(c, id, fp)
    PROVE  LedgerInv'
<1> USE DEF LedgerInv, StartWork, Enter
<1>1. LedgerTypeOK'
  BY DEF LedgerTypeOK, Phases, Reply, Request
<1>2. LedgerBounded' /\ InFlightNotRecorded'
  BY DEF LedgerBounded, InFlightNotRecorded, LedgerTypeOK
<1>3. InFlightIsRunning'
  BY NoCallerAssumption DEF InFlightIsRunning, LedgerTypeOK, Phases, Request
<1>4. JoinersMatch'
  BY NoCallerAssumption DEF InFlightIsRunning, JoinersMatch, LedgerTypeOK, Phases, Request
<1> QED BY <1>1, <1>2, <1>3, <1>4

\* When the work of c ends, its intent leaves the in-flight map and every
\* caller that waited for it leaves execute: whoever remains is unaffected.
LEMMA EndOfWork ==
    ASSUME LedgerInv, NEW c \in Callers, phase[c] = "running",
           inFlight' = [inFlight EXCEPT ![req[c].intent] = NoCaller],
           phase' = [d \in Callers |-> IF d \in Awaiting(c) THEN "answered" ELSE phase[d]],
           req' = [d \in Callers |-> IF d \in Awaiting(c) THEN NoRequest ELSE req[d]]
    PROVE  /\ inFlight' \in [Intents -> Callers \cup {NoCaller}]
           /\ phase' \in [Callers -> Phases]
           /\ req' \in [Callers -> Request]
           /\ InFlightIsRunning' /\ JoinersMatch'
           /\ \A id \in Intents : inFlight'[id] # NoCaller =>
                 id # req[c].intent /\ inFlight[id] # NoCaller
<1> USE DEF LedgerInv
<1>1. /\ inFlight \in [Intents -> Callers \cup {NoCaller}] /\ phase \in [Callers -> Phases]
      /\ req \in [Callers -> Request] /\ c \notin {NoCaller}
      /\ req[c].intent \in Intents /\ inFlight[req[c].intent] = c
  BY NoCallerAssumption DEF LedgerTypeOK, InFlightIsRunning, Request
<1>2. \A d \in Callers : d \in Awaiting(c) <=>
        d = c \/ (phase[d] = "joined" /\ req[d].intent = req[c].intent)
  BY DEF Awaiting
<1>3. \A d \in Callers : phase[d] \in {"running", "joined"} /\ d \notin Awaiting(c)
         => req[d].intent # req[c].intent
  BY <1>1, <1>2 DEF InFlightIsRunning
<1>4. \A d \in Callers : phase'[d] \in {"running", "joined"} =>
         /\ d \notin Awaiting(c) /\ phase'[d] = phase[d] /\ req'[d] = req[d]
         /\ req[d].intent # req[c].intent
         /\ inFlight'[req[d].intent] = inFlight[req[d].intent]
  BY <1>1, <1>3 DEF Request
<1>5. \A id \in Intents : inFlight'[id] # NoCaller =>
         /\ id # req[c].intent /\ inFlight'[id] = inFlight[id] /\ inFlight[id] \in Callers
         /\ inFlight[id] \notin Awaiting(c)
  BY <1>1, <1>2 DEF InFlightIsRunning
<1>6. /\ inFlight' \in [Intents -> Callers \cup {NoCaller}] /\ phase' \in [Callers -> Phases]
      /\ req' \in [Callers -> Request]
  BY <1>1, NoRequestIsRequest DEF Phases
<1>7. InFlightIsRunning'
  <2>1. ASSUME NEW d \in Callers, phase'[d] = "running"
        PROVE  inFlight'[req'[d].intent] = d
    BY <1>4, <2>1 DEF InFlightIsRunning
  <2>2. ASSUME NEW id \in Intents, inFlight'[id] # NoCaller
        PROVE  phase'[inFlight'[id]] = "running" /\ req'[inFlight'[id]].intent = id
    BY <1>1, <1>5, <2>2 DEF InFlightIsRunning
  <2> QED BY <2>1, <2>2 DEF InFlightIsRunning
<1>8. JoinersMatch'
  <2>1. ASSUME NEW d \in Callers, phase'[d] = "joined"
        PROVE  /\ inFlight'[req'[d].intent] # NoCaller
               /\ req'[inFlight'[req'[d].intent]].print = req'[d].print
    <3>1. /\ inFlight[req[d].intent] # NoCaller
          /\ req[inFlight[req[d].intent]].print = req[d].print
          /\ req[d].intent \in Intents
      BY <1>1, <1>4, <2>1 DEF JoinersMatch, Request
    <3> QED BY <1>1, <1>4, <1>5, <2>1, <3>1
  <2> QED BY <2>1 DEF JoinersMatch
<1> QED BY <1>5, <1>6, <1>7, <1>8

LEMMA SettlePreservesInv ==
    ASSUME LedgerInv, NEW c \in Callers, NEW response \in Responses, Settle(c, response)
    PROVE  LedgerInv'
<1> USE DEF LedgerInv
<1> DEFINE e == [intent |-> req[c].intent, print |-> req[c].print, response |-> response]
<1>1. /\ entries \in Seq(Entry) /\ Unique(entries) /\ Len(entries) <= Capacity
      /\ phase[c] = "running" /\ e \in Entry
      /\ req \in [Callers -> Request] /\ reply \in [Callers -> Reply]
  BY DEF LedgerTypeOK, LedgerBounded, Unique, Settle, Entry, Request
<1>2. /\ inFlight' \in [Intents -> Callers \cup {NoCaller}]
      /\ phase' \in [Callers -> Phases]
      /\ req' \in [Callers -> Request]
      /\ InFlightIsRunning' /\ JoinersMatch'
      /\ \A id \in Intents : inFlight'[id] # NoCaller =>
            id # req[c].intent /\ inFlight[id] # NoCaller
  BY EndOfWork DEF Settle, AnswerAll
<1>3. /\ entries' \in Seq(Entry) /\ Unique(entries') /\ Len(entries') <= Capacity
      /\ \A j \in Intents : Recorded(entries', j) => j = req[c].intent \/ Recorded(entries, j)
  <2>1. entries' = entries \/ entries' = Record(entries, e)
    BY DEF Settle
  <2> HIDE DEF e
  <2>2. CASE entries' = entries
    BY <1>1, <2>2
  <2>3. CASE entries' = Record(entries, e)
    <3>1. e.intent = req[c].intent
      BY DEF e
    <3> QED BY <1>1, <2>3, <3>1, RecordProperties
  <2> QED BY <2>1, <2>2, <2>3
<1>4. reply' \in [Callers -> Reply]
  BY <1>1 DEF Settle, AnswerAll, Reply, Request
<1>5. LedgerTypeOK'
  BY <1>2, <1>3, <1>4 DEF LedgerTypeOK
<1>6. LedgerBounded'
  BY <1>3 DEF LedgerBounded, Unique
<1>7. InFlightNotRecorded'
  BY <1>2, <1>3 DEF InFlightNotRecorded
<1> QED BY <1>2, <1>5, <1>6, <1>7

LEMMA WorkThrowsPreservesInv ==
    ASSUME LedgerInv, NEW c \in Callers, WorkThrows(c)
    PROVE  LedgerInv'
<1> USE DEF LedgerInv
<1>1. /\ inFlight' \in [Intents -> Callers \cup {NoCaller}]
      /\ phase' \in [Callers -> Phases]
      /\ req' \in [Callers -> Request]
      /\ InFlightIsRunning' /\ JoinersMatch'
      /\ \A id \in Intents : inFlight'[id] # NoCaller => inFlight[id] # NoCaller
  BY EndOfWork DEF WorkThrows, AnswerAll
<1>2. reply' \in [Callers -> Reply]
  BY DEF LedgerTypeOK, WorkThrows, AnswerAll, Reply, Request
<1>3. LedgerTypeOK' /\ LedgerBounded'
  BY <1>1, <1>2 DEF LedgerTypeOK, LedgerBounded, WorkThrows
<1>4. InFlightNotRecorded'
  BY <1>1 DEF InFlightNotRecorded, WorkThrows
<1> QED BY <1>1, <1>3, <1>4

LEMMA NextPreservesInv == LedgerInv /\ [LedgerNext]_ledgerVars => LedgerInv'
<1> SUFFICES ASSUME LedgerInv, [LedgerNext]_ledgerVars PROVE LedgerInv'
  OBVIOUS
<1>1. CASE \E c \in Callers, id \in Intents, fp \in Prints : Execute(c, id, fp)
  BY <1>1, AnswerRecordedPreservesInv, JoinInFlightPreservesInv, StartWorkPreservesInv
     DEF Execute
<1>2. CASE \E c \in Callers, response \in Responses : Settle(c, response)
  BY <1>2, SettlePreservesInv
<1>3. CASE \E c \in Callers : WorkThrows(c)
  BY <1>3, WorkThrowsPreservesInv
<1>4. ASSUME NEW c \in Callers, Respond(c) PROVE LedgerInv'
  <2> USE <1>4 DEF LedgerInv, Respond
  <2>1. LedgerTypeOK' /\ LedgerBounded' /\ InFlightNotRecorded'
    BY DEF LedgerTypeOK, Phases, Reply, LedgerBounded, InFlightNotRecorded
  <2>2. InFlightIsRunning' /\ JoinersMatch'
    BY DEF LedgerTypeOK, Phases, InFlightIsRunning, JoinersMatch, Request
  <2> QED BY <2>1, <2>2
<1>5. CASE LoseLedger
  <2> USE <1>5 DEF LedgerInv, LoseLedger
  <2>1. LedgerTypeOK' /\ LedgerBounded'
    BY NoRequestIsRequest, CapacityAssumption
       DEF LedgerTypeOK, Phases, Reply, LedgerBounded
  <2>2. InFlightIsRunning' /\ JoinersMatch' /\ InFlightNotRecorded'
    BY DEF InFlightIsRunning, JoinersMatch, InFlightNotRecorded
  <2> QED BY <2>1, <2>2
<1>6. CASE UNCHANGED ledgerVars
  BY <1>6 DEF LedgerInv, ledgerVars, LedgerTypeOK, LedgerBounded, InFlightIsRunning,
              JoinersMatch, InFlightNotRecorded
<1> QED BY <1>1, <1>2, <1>3, <1>4, <1>5, <1>6 DEF LedgerNext

THEOREM LedgerInvariant == LedgerSafetySpec => []LedgerInv
<1> QED BY InitEstablishesInv, NextPreservesInv, PTL DEF LedgerSafetySpec

-----------------------------------------------------------------------------
(* What follows from it.                                                   *)

\* The variables keep their types and the Map its bound (intentLedger.ts:118-131).
THEOREM LedgerTypeCorrect == LedgerSafetySpec => [](LedgerTypeOK /\ LedgerBounded)
<1>1. LedgerInv => LedgerTypeOK /\ LedgerBounded
  BY DEF LedgerInv
<1> QED BY <1>1, LedgerInvariant, PTL

\* However requests interleave around the await in execute, one of them runs
\* the work of an intent at a time (intentLedger.ts:51-54).
THEOREM LedgerOneRunPerIntent == LedgerSafetySpec => []OneRunPerIntent
<1>1. LedgerInv => OneRunPerIntent
  BY DEF LedgerInv, InFlightIsRunning, OneRunPerIntent
<1> QED BY <1>1, LedgerInvariant, PTL

\* No intent whose success is remembered is ever executed (intentLedger.ts:1-6).
THEOREM LedgerRecordedNeverRuns == LedgerSafetySpec => []RecordedNeverRuns
<1>1. LedgerInv => RecordedNeverRuns
  BY NoCallerAssumption
     DEF LedgerInv, LedgerTypeOK, InFlightIsRunning, InFlightNotRecorded, RecordedNeverRuns, Request
<1> QED BY <1>1, LedgerInvariant, PTL

\* Whoever awaits in-flight work awaits a live run of its own payload
\* (intentLedger.ts:77-85).
THEOREM LedgerJoinersAwaitTheirRun == LedgerSafetySpec => []JoinersAwaitTheirRun
<1>1. ASSUME LedgerInv, NEW c \in Callers, phase[c] = "joined"
      PROVE  \E d \in Callers : /\ phase[d] = "running"
                                /\ inFlight[req[c].intent] = d
                                /\ req[d] = req[c]
  <2> DEFINE d == inFlight[req[c].intent]
  <2>1. /\ req \in [Callers -> Request] /\ inFlight \in [Intents -> Callers \cup {NoCaller}]
        /\ req[c].intent \in Intents
    BY <1>1 DEF LedgerInv, LedgerTypeOK, Request
  <2>2. d \in Callers /\ phase[d] = "running" /\ req[d].intent = req[c].intent
        /\ req[d].print = req[c].print
    BY <1>1, <2>1 DEF LedgerInv, JoinersMatch, InFlightIsRunning
  <2>3. req[d] = req[c]
    BY <2>1, <2>2 DEF Request
  <2> QED BY <2>2, <2>3
<1>2. LedgerInv => JoinersAwaitTheirRun
  BY <1>1 DEF JoinersAwaitTheirRun
<1> QED BY <1>2, LedgerInvariant, PTL

-----------------------------------------------------------------------------
(* The refinement.  What each operation on the Map does to the two views   *)
(* the contract has of it: the outcomes it holds, and which intents were   *)
(* used after which.                                                       *)

Held(s) == {s[i] : i \in DOMAIN s}

Before(s, i, j) == \E m, n \in DOMAIN s : m < n /\ s[m].intent = i /\ s[n].intent = j

LEMMA HeldAndBefore ==
    ASSUME NEW s, NEW id
    PROVE  /\ Remembered(s, id) =
                 {[print |-> e.print, response |-> e.response] : e \in {x \in Held(s) : x.intent = id}}
           /\ UsedAfter(s, id) = {j \in Intents : Before(s, id, j)}
           /\ Recorded(s, id) <=> \E e \in Held(s) : e.intent = id
BY DEF Remembered, UsedAfter, Held, Before, Recorded

LEMMA DeleteViews ==
    ASSUME NEW s \in Seq(Entry), Unique(s), NEW id \in Intents
    PROVE  /\ Held(Delete(s, id)) = {e \in Held(s) : e.intent # id}
           /\ \A i, j : Before(Delete(s, id), i, j) <=> Before(s, i, j) /\ i # id /\ j # id
<1>1. CASE ~ Recorded(s, id)
  BY <1>1 DEF Delete, Recorded, Held, Before
<1>2. CASE Recorded(s, id)
  <2> DEFINE t == Delete(s, id)
  <2>1. t \in Seq(Entry) /\ Len(t) = Len(s) - 1
    BY <1>2, DeleteShape
  <2>2. PICK p \in 1 .. Len(s) :
           /\ s[p].intent = id
           /\ \A i \in 1 .. Len(s) - 1 : t[i] = IF i < p THEN s[i] ELSE s[i + 1]
    BY <1>2, DeleteShape
  <2> HIDE DEF t
  <2> DEFINE old(i) == IF i < p THEN i ELSE i + 1
             new(k) == IF k < p THEN k ELSE k - 1
  <2>3. \A i \in DOMAIN t : old(i) \in DOMAIN s /\ old(i) # p /\ t[i] = s[old(i)]
    BY <2>1, <2>2
  <2>4. \A k \in DOMAIN s : k # p => new(k) \in DOMAIN t /\ t[new(k)] = s[k]
    BY <2>1, <2>2
  <2>5. \A m, n \in DOMAIN t : m < n => old(m) < old(n)
    BY <2>1
  <2>6. \A m, n \in DOMAIN s : m < n /\ m # p /\ n # p => new(m) < new(n)
    BY <2>2
  <2>7. \A k \in DOMAIN s : k # p <=> s[k].intent # id
    BY <2>2 DEF Unique
  <2> HIDE DEF old, new
  <2>8. Held(t) = {e \in Held(s) : e.intent # id}
    BY <2>3, <2>4, <2>7 DEF Held
  <2>9. ASSUME NEW i, NEW j PROVE Before(t, i, j) <=> Before(s, i, j) /\ i # id /\ j # id
    <3>1. ASSUME Before(t, i, j) PROVE Before(s, i, j) /\ i # id /\ j # id
      <4>1. PICK m \in DOMAIN t, n \in DOMAIN t : m < n /\ t[m].intent = i /\ t[n].intent = j
        BY <3>1 DEF Before
      <4> QED BY <2>3, <2>5, <2>7, <4>1 DEF Before
    <3>2. ASSUME Before(s, i, j), i # id, j # id PROVE Before(t, i, j)
      <4>1. PICK m \in DOMAIN s, n \in DOMAIN s : m < n /\ s[m].intent = i /\ s[n].intent = j
        BY <3>2 DEF Before
      <4>2. new(m) < new(n) /\ new(m) \in DOMAIN t /\ new(n) \in DOMAIN t
            /\ t[new(m)].intent = i /\ t[new(n)].intent = j
        BY <2>4, <2>6, <2>7, <3>2, <4>1
      <4> QED BY <4>2 DEF Before
    <3> QED BY <3>1, <3>2
  <2> QED BY <2>8, <2>9 DEF t
<1> QED BY <1>1, <1>2

\* An entry inserted last is used after every other.
LEMMA AppendViews ==
    ASSUME NEW s \in Seq(Entry), NEW e \in Entry, ~ Recorded(s, e.intent)
    PROVE  /\ Held(Append(s, e)) = Held(s) \cup {e}
           /\ \A i, j : Before(Append(s, e), i, j) <=>
                           Before(s, i, j) \/ (Recorded(s, i) /\ j = e.intent)
<1> DEFINE t == Append(s, e)
<1>1. /\ t \in Seq(Entry) /\ Len(t) = Len(s) + 1 /\ t[Len(t)] = e
      /\ \A k \in DOMAIN s : t[k] = s[k]
      /\ DOMAIN t = DOMAIN s \cup {Len(t)}
      /\ \A k \in DOMAIN s : k < Len(t)
  OBVIOUS
<1> HIDE DEF t
<1>2. Held(t) = Held(s) \cup {e}
  BY <1>1 DEF Held
<1>3. ASSUME NEW i, NEW j
      PROVE  Before(t, i, j) <=> Before(s, i, j) \/ (Recorded(s, i) /\ j = e.intent)
  <2>1. ASSUME Before(t, i, j) PROVE Before(s, i, j) \/ (Recorded(s, i) /\ j = e.intent)
    <3>1. PICK m \in DOMAIN t, n \in DOMAIN t : m < n /\ t[m].intent = i /\ t[n].intent = j
      BY <2>1 DEF Before
    <3>2. m \in DOMAIN s
      BY <1>1, <3>1
    <3> QED BY <1>1, <3>1, <3>2 DEF Before, Recorded
  <2>2. ASSUME Before(s, i, j) PROVE Before(t, i, j)
    BY <1>1, <2>2 DEF Before
  <2>3. ASSUME Recorded(s, i), j = e.intent PROVE Before(t, i, j)
    <3>1. PICK m \in DOMAIN s : s[m].intent = i
      BY <2>3 DEF Recorded
    <3> QED BY <1>1, <2>3, <3>1 DEF Before
  <2> QED BY <2>1, <2>2, <2>3
<1> QED BY <1>2, <1>3 DEF t

LEMMA EntryOfProperties ==
    ASSUME NEW s \in Seq(Entry), NEW id \in Intents, Recorded(s, id)
    PROVE  /\ EntryOf(s, id) \in Entry /\ EntryOf(s, id).intent = id /\ EntryOf(s, id) \in Held(s)
           /\ Unique(s) => \A e \in Held(s) : e.intent = id => e = EntryOf(s, id)
<1> DEFINE p == CHOOSE i \in DOMAIN s : s[i].intent = id
<1>1. p \in DOMAIN s /\ s[p].intent = id
  BY DEF Recorded
<1>2. EntryOf(s, id) = s[p]
  BY DEF EntryOf
<1> HIDE DEF p
<1>3. s[p] \in Entry /\ s[p] \in Held(s)
  BY <1>1 DEF Held
<1>4. Unique(s) => \A e \in Held(s) : e.intent = id => e = s[p]
  BY <1>1 DEF Held, Unique
<1> QED BY <1>1, <1>2, <1>3, <1>4

\* The contract's Use: what the last use of id leaves known of the others.
LEMMA GetViews ==
    ASSUME NEW s \in Seq(Entry), Unique(s), NEW id \in Intents, Recorded(s, id)
    PROVE  /\ \A j : Remembered(Get(s, id), j) = Remembered(s, j)
           /\ \A j \in Intents : UsedAfter(Get(s, id), j) =
                 IF j = id \/ ~ Recorded(s, j) THEN {} ELSE UsedAfter(s, j) \cup {id}
<1> DEFINE d == Delete(s, id)
           e == EntryOf(s, id)
           t == Append(d, e)
<1>1. e \in Entry /\ e.intent = id /\ e \in Held(s)
  BY EntryOfProperties
<1>2. /\ d \in Seq(Entry) /\ ~ Recorded(d, id)
      /\ \A j \in Intents \ {id} : Recorded(s, j) => Recorded(d, j)
      /\ \A j \in Intents : Recorded(d, j) => Recorded(s, j)
  BY DeleteProperties
<1>3. /\ Held(d) = {x \in Held(s) : x.intent # id}
      /\ \A i, j : Before(d, i, j) <=> Before(s, i, j) /\ i # id /\ j # id
  BY DeleteViews
<1>4. Get(s, id) = t
  BY DEF Get
<1> HIDE DEF d, e
<1>5. /\ Held(t) = Held(d) \cup {e}
      /\ \A i, j : Before(t, i, j) <=> Before(d, i, j) \/ (Recorded(d, i) /\ j = id)
  BY <1>1, <1>2, AppendViews
<1> HIDE DEF t
<1>6. \A x \in Held(s) : x.intent = id => x = e
  BY <1>1 DEF Held, Unique
<1>7. Held(t) = Held(s)
  BY <1>1, <1>3, <1>5, <1>6
<1>8. ASSUME NEW j \in Intents
      PROVE  UsedAfter(t, j) = IF j = id \/ ~ Recorded(s, j) THEN {} ELSE UsedAfter(s, j) \cup {id}
  <2>1. \A k : Before(s, j, k) => Recorded(s, j)
    BY DEF Before, Recorded
  <2>2. UsedAfter(t, j) = {k \in Intents : Before(t, j, k)}
        /\ UsedAfter(s, j) = {k \in Intents : Before(s, j, k)}
    BY HeldAndBefore
  <2> QED BY <1>2, <1>3, <1>5, <2>1, <2>2
<1> QED BY <1>4, <1>7, <1>8, HeldAndBefore

\* What an intent is used before, once id is used: the contract's Use.
SinceUse(s, id, j) == IF j = id \/ ~ Recorded(s, j) THEN {} ELSE UsedAfter(s, j) \cup {id}

\* Recording a new success forgets at most the entry at the front of the Map,
\* and only when every other place is taken by an intent used after it.
LEMMA RecordViews ==
    ASSUME NEW s \in Seq(Entry), Unique(s), Len(s) <= Capacity,
           NEW e \in Entry, ~ Recorded(s, e.intent)
    PROVE  \E lost \in SUBSET Intents :
              /\ \A j \in lost : Recorded(s, j) /\ Cardinality(SinceUse(s, e.intent, j)) >= Capacity
              /\ \A j \in Intents : Remembered(Record(s, e), j) =
                    IF j = e.intent THEN {[print |-> e.print, response |-> e.response]}
                    ELSE IF j \in lost THEN {} ELSE Remembered(s, j)
              /\ \A j \in Intents : UsedAfter(Record(s, e), j) =
                    IF j \in lost THEN {} ELSE SinceUse(s, e.intent, j)
<1> USE CapacityAssumption
<1> DEFINE t == Append(s, e)
           r == SubSeq(t, Len(t) - Capacity + 1, Len(t))
<1>0. \A x \in Entry : x.intent \in Intents
  BY DEF Entry
<1>1. e.intent \in Intents /\ Delete(s, e.intent) = s
  BY DEF Entry, Delete
<1>2. Record(s, e) = IF Len(t) > Capacity THEN r ELSE t
  BY <1>1 DEF Record
<1>3. /\ Held(t) = Held(s) \cup {e}
      /\ \A i, j : Before(t, i, j) <=> Before(s, i, j) \/ (Recorded(s, i) /\ j = e.intent)
  BY AppendViews
<1>4. /\ t \in Seq(Entry) /\ Len(t) = Len(s) + 1 /\ t[Len(t)] = e
      /\ \A k \in 1 .. Len(s) : t[k] = s[k]
  OBVIOUS
<1>5. Unique(t)
  BY <1>4 DEF Unique, Recorded
<1> HIDE DEF t
<1>6. ASSUME NEW j \in Intents
      PROVE  /\ Remembered(t, j) = IF j = e.intent THEN {[print |-> e.print, response |-> e.response]}
                                   ELSE Remembered(s, j)
             /\ UsedAfter(t, j) = SinceUse(s, e.intent, j)
  <2>1. \A k : Before(s, j, k) => Recorded(s, j)
    BY DEF Before, Recorded
  <2>2. /\ UsedAfter(t, j) = {k \in Intents : Before(t, j, k)}
        /\ UsedAfter(s, j) = {k \in Intents : Before(s, j, k)}
    BY HeldAndBefore
  <2>3. UsedAfter(t, j) = SinceUse(s, e.intent, j)
    BY <1>1, <1>3, <2>1, <2>2 DEF SinceUse
  <2>4. {x \in Held(t) : x.intent = j} = IF j = e.intent THEN {e} ELSE {x \in Held(s) : x.intent = j}
    <3>1. \A x \in Held(s) : x.intent # e.intent
      BY DEF Held, Recorded
    <3> QED BY <1>3, <3>1
  <2>5. /\ Remembered(t, j) = {[print |-> y.print, response |-> y.response] : y \in {x \in Held(t) : x.intent = j}}
        /\ Remembered(s, j) = {[print |-> y.print, response |-> y.response] : y \in {x \in Held(s) : x.intent = j}}
    BY HeldAndBefore
  <2> QED BY <2>3, <2>4, <2>5
<1>7. CASE Len(t) <= Capacity
  <2>1. Record(s, e) = t
    BY <1>2, <1>4, <1>7
  <2>2. {} \in SUBSET Intents
    OBVIOUS
  <2> QED BY <1>6, <2>1, <2>2
<1>8. CASE Len(t) > Capacity
  <2>1. Len(s) = Capacity /\ Len(t) = Capacity + 1
    BY <1>4, <1>8
  <2>2. /\ r \in Seq(Entry) /\ Len(r) = Capacity /\ \A i \in 1 .. Capacity : r[i] = t[i + 1]
    BY <1>4, <2>1
  <2>3. Record(s, e) = r
    BY <1>2, <1>8
  <2> HIDE DEF r
  <2> DEFINE first == t[1].intent
  <2>4. first \in Intents /\ Recorded(s, first) /\ first # e.intent
    <3>1. 1 \in DOMAIN s /\ t[1] = s[1]
      BY <1>4, <2>1
    <3>2. s[1] \in Entry
      BY <3>1
    <3> QED BY <1>0, <3>1, <3>2 DEF Recorded
  <2>5. Held(r) = {x \in Held(t) : x.intent # first}
    <3>1. \A i \in DOMAIN r : r[i] \in Held(t) /\ r[i].intent # first
      BY <1>4, <1>5, <2>1, <2>2 DEF Unique, Held
    <3>2. \A k \in DOMAIN t : t[k].intent # first => k - 1 \in DOMAIN r /\ r[k - 1] = t[k]
      BY <1>4, <2>1, <2>2
    <3> QED BY <3>1, <3>2 DEF Held
  <2>6. ASSUME NEW i, NEW j PROVE Before(r, i, j) <=> Before(t, i, j) /\ i # first
    <3>1. ASSUME Before(r, i, j) PROVE Before(t, i, j) /\ i # first
      <4>1. PICK m \in DOMAIN r, n \in DOMAIN r : m < n /\ r[m].intent = i /\ r[n].intent = j
        BY <3>1 DEF Before
      <4>2. m + 1 \in DOMAIN t /\ n + 1 \in DOMAIN t /\ m + 1 < n + 1 /\ m + 1 # 1
        BY <1>4, <2>1, <2>2, <4>1
      <4>3. t[m + 1].intent = i /\ t[n + 1].intent = j
        BY <2>2, <4>1
      <4>4. i # first
        BY <1>4, <1>5, <2>1, <4>2, <4>3 DEF Unique
      <4> QED BY <4>2, <4>3, <4>4 DEF Before
    <3>2. ASSUME Before(t, i, j), i # first PROVE Before(r, i, j)
      <4>1. PICK m \in DOMAIN t, n \in DOMAIN t : m < n /\ t[m].intent = i /\ t[n].intent = j
        BY <3>2 DEF Before
      <4>2. /\ m - 1 \in DOMAIN r /\ n - 1 \in DOMAIN r /\ m - 1 < n - 1
            /\ r[m - 1] = t[m] /\ r[n - 1] = t[n]
        BY <1>4, <2>1, <2>2, <3>2, <4>1
      <4> QED BY <4>1, <4>2 DEF Before
    <3> QED BY <3>1, <3>2
  <2>7. Cardinality(UsedAfter(t, first)) = Capacity
    <3> DEFINE S == UsedAfter(t, first)
               f == [n \in 1 .. Capacity |-> t[n + 1].intent]
    <3>1. \A n \in 1 .. Capacity : n + 1 \in DOMAIN t /\ f[n] = t[n + 1].intent /\ f[n] \in S
      <4>1. SUFFICES ASSUME NEW n \in 1 .. Capacity
                     PROVE  n + 1 \in DOMAIN t /\ f[n] = t[n + 1].intent /\ f[n] \in S
        OBVIOUS
      <4>2. 1 \in DOMAIN t /\ n + 1 \in DOMAIN t /\ 1 < n + 1
        BY <1>4, <2>1
      <4>3. t[n + 1] \in Entry /\ t[n + 1].intent \in Intents
        BY <1>0, <1>4, <4>2
      <4> QED BY <4>2, <4>3 DEF UsedAfter
    <3>2. \A j \in S : \E n \in 1 .. Capacity : f[n] = j
      <4>1. SUFFICES ASSUME NEW j \in S PROVE \E n \in 1 .. Capacity : f[n] = j
        OBVIOUS
      <4>2. PICK m \in DOMAIN t, n \in DOMAIN t : m < n /\ t[n].intent = j
        BY DEF UsedAfter
      <4>3. n - 1 \in 1 .. Capacity /\ (n - 1) + 1 = n
        BY <1>4, <2>1, <4>2
      <4> QED BY <4>2, <4>3
    <3>3. \A m, n \in 1 .. Capacity : f[m] = f[n] => m = n
      <4>1. SUFFICES ASSUME NEW m \in 1 .. Capacity, NEW n \in 1 .. Capacity, f[m] = f[n]
                     PROVE  m = n
        OBVIOUS
      <4>2. m + 1 = n + 1
        BY <1>5, <3>1, <4>1 DEF Unique
      <4> QED BY <4>2
    <3>4. f \in Bijection(1 .. Capacity, S)
      <4> HIDE DEF S
      <4>1. f \in [1 .. Capacity -> S]
        BY <3>1
      <4> HIDE DEF f
      <4> QED BY <3>2, <3>3, <4>1 DEF Bijection, Injection, Surjection, IsInjective
    <3>5. ExistsBijection(1 .. Capacity, S)
      BY <3>4 DEF ExistsBijection
    <3> QED BY <3>5, FS_CountingElements
  <2>8. Cardinality(SinceUse(s, e.intent, first)) >= Capacity
    BY <1>6, <2>4, <2>7
  <2>9. ASSUME NEW j \in Intents
        PROVE  /\ Remembered(r, j) = IF j = first THEN {} ELSE Remembered(t, j)
               /\ UsedAfter(r, j) = IF j = first THEN {} ELSE UsedAfter(t, j)
    <3>1. /\ UsedAfter(t, j) = {k \in Intents : Before(t, j, k)}
          /\ UsedAfter(r, j) = {k \in Intents : Before(r, j, k)}
      BY HeldAndBefore
    <3>2. {x \in Held(r) : x.intent = j} = IF j = first THEN {} ELSE {x \in Held(t) : x.intent = j}
      BY <2>5
    <3>3. /\ Remembered(t, j) = {[print |-> y.print, response |-> y.response] : y \in {x \in Held(t) : x.intent = j}}
          /\ Remembered(r, j) = {[print |-> y.print, response |-> y.response] : y \in {x \in Held(r) : x.intent = j}}
      BY HeldAndBefore
    <3> QED BY <2>6, <3>1, <3>2, <3>3
  <2> HIDE DEF first
  <2> DEFINE lost == {first}
  <2>10. lost \in SUBSET Intents
    BY <2>4
  <2> WITNESS lost \in SUBSET Intents
  <2>11. \A j \in lost : Recorded(s, j) /\ Cardinality(SinceUse(s, e.intent, j)) >= Capacity
    BY <2>4, <2>8
  <2>12. \A j \in Intents : Remembered(r, j) =
            IF j = e.intent THEN {[print |-> e.print, response |-> e.response]}
            ELSE IF j \in lost THEN {} ELSE Remembered(s, j)
    BY <1>6, <2>4, <2>9
  <2>13. \A j \in Intents : UsedAfter(r, j) = IF j \in lost THEN {} ELSE SinceUse(s, e.intent, j)
    BY <1>6, <2>9
  <2> QED BY <2>3, <2>11, <2>12, <2>13
<1>9. Len(t) <= Capacity \/ Len(t) > Capacity
  BY <1>4
<1> QED BY <1>7, <1>8, <1>9

-----------------------------------------------------------------------------
(* Each step of the ledger is a step of the contract.                      *)

\* A caller holds a reply exactly between its answer and Respond.
RepliesMatchPhase == \A c \in Callers : reply[c] # NoReply <=> phase[c] = "answered"

RefinementInv == LedgerInv /\ RepliesMatchPhase

\* Values of the contract's variables in a state of the ledger.
LEMMA Views ==
    ASSUME LedgerInv, NEW id \in Intents
    PROVE  /\ KeptOutcome[id] = Remembered(entries, id)
           /\ UsedSince[id] = UsedAfter(entries, id)
           /\ KeptOutcome[id] = {} <=> ~ Recorded(entries, id)
           /\ Recorded(entries, id) =>
                 KeptOutcome[id] = {[print |-> EntryOf(entries, id).print,
                                 response |-> EntryOf(entries, id).response]}
           /\ RunningPrint[id] = IF inFlight[id] = NoCaller THEN {}
                                 ELSE {req[inFlight[id]].print}
           /\ Waits[id] = {c \in Callers : phase[c] \in {"running", "joined"} /\ req[c].intent = id}
<1>1. /\ KeptOutcome[id] = Remembered(entries, id)
      /\ UsedSince[id] = UsedAfter(entries, id)
      /\ RunningPrint[id] = IF inFlight[id] = NoCaller THEN {} ELSE {req[inFlight[id]].print}
      /\ Waits[id] = {c \in Callers : phase[c] \in {"running", "joined"} /\ req[c].intent = id}
  BY DEF KeptOutcome, UsedSince, RunningPrint, Waits
<1>2. entries \in Seq(Entry) /\ Unique(entries)
  BY DEF LedgerInv, LedgerTypeOK, LedgerBounded, Unique
<1>3. /\ Remembered(entries, id) = {[print |-> e.print, response |-> e.response] :
                                       e \in {x \in Held(entries) : x.intent = id}}
      /\ Recorded(entries, id) <=> \E e \in Held(entries) : e.intent = id
  BY HeldAndBefore
<1>5. ASSUME Recorded(entries, id)
      PROVE  KeptOutcome[id] = {[print |-> EntryOf(entries, id).print,
                             response |-> EntryOf(entries, id).response]}
  <2>1. {x \in Held(entries) : x.intent = id} = {EntryOf(entries, id)}
    BY <1>2, <1>5, EntryOfProperties
  <2> QED BY <1>1, <1>3, <2>1
<1>4. ASSUME ~ Recorded(entries, id) PROVE KeptOutcome[id] = {}
  <2>1. {x \in Held(entries) : x.intent = id} = {}
    BY <1>3, <1>4
  <2> QED BY <1>1, <1>3, <2>1
<1> QED BY <1>1, <1>4, <1>5

LEMMA RememberedSet ==
    ASSUME LedgerInv
    PROVE  Contract!Remembered = {id \in Intents : Recorded(entries, id)}
BY Views DEF Contract!Remembered

LEMMA IdleIsFree ==
    ASSUME RefinementInv, NEW c \in Callers, phase[c] = "idle"
    PROVE  Contract!Free(c)
<1>1. reply[c].kind = "none"
  BY DEF RefinementInv, RepliesMatchPhase, NoReply
<1>2. \A id \in Intents : c \notin Waits[id]
  BY Views DEF RefinementInv
<1> QED BY <1>1, <1>2 DEF Contract!Free

LEMMA AnswerRecordedRefines ==
    ASSUME RefinementInv, NEW c \in Callers, NEW id \in Intents, NEW fp \in Prints,
           AnswerRecorded(c, id, fp)
    PROVE  Contract!Replay(c, id, fp)
<1> USE DEF RefinementInv
<1> DEFINE e == EntryOf(entries, id)
<1>1. /\ entries \in Seq(Entry) /\ Unique(entries) /\ Recorded(entries, id)
      /\ entries' = Get(entries, id) /\ phase[c] = "idle" /\ inFlight' = inFlight
      /\ req' = req /\ phase' = [phase EXCEPT ![c] = "answered"]
      /\ phase \in [Callers -> Phases]
  BY DEF LedgerInv, LedgerTypeOK, LedgerBounded, Unique, AnswerRecorded, Answer
<1>2. LedgerInv'
  BY AnswerRecordedPreservesInv
<1>3. KeptOutcome' = KeptOutcome
  BY <1>1, GetViews DEF KeptOutcome
<1>4. UsedSince' = Contract!Use(UsedSince, id, Contract!Remembered)
  <2>1. \A j \in Intents : UsedAfter(entries', j) =
           IF j = id \/ ~ Recorded(entries, j) THEN {} ELSE UsedAfter(entries, j) \cup {id}
    BY <1>1, GetViews
  <2> QED BY <2>1, RememberedSet DEF UsedSince, Contract!Use
<1>5. RunningPrint' = RunningPrint
  BY <1>1 DEF RunningPrint
<1>6. Waits' = Waits
  <2>1. \A d \in Callers : phase'[d] \in {"running", "joined"} <=> phase[d] \in {"running", "joined"}
    BY <1>1
  <2> QED BY <1>1, <2>1 DEF Waits
<1>7. \E o \in KeptOutcome[id] :
         reply' = [reply EXCEPT ![c] =
              IF o.print = fp THEN [kind |-> "replayed", intent |-> id, response |-> o.response]
              ELSE [kind |-> "mismatch", intent |-> id]]
  <2> DEFINE o == [print |-> e.print, response |-> e.response]
  <2>1. o \in KeptOutcome[id]
    BY <1>1, Views
  <2>2. reply' = [reply EXCEPT ![c] =
              IF o.print = fp THEN [kind |-> "replayed", intent |-> id, response |-> o.response]
              ELSE [kind |-> "mismatch", intent |-> id]]
    BY DEF AnswerRecorded, Answer
  <2> QED BY <2>1, <2>2
<1>8. Contract!Free(c)
  BY <1>1, IdleIsFree
<1> QED BY <1>3, <1>4, <1>5, <1>6, <1>7, <1>8 DEF Contract!Replay

LEMMA JoinInFlightRefines ==
    ASSUME RefinementInv, NEW c \in Callers, NEW id \in Intents, NEW fp \in Prints,
           JoinInFlight(c, id, fp)
    PROVE  Contract!Wait(c, id, fp) \/ Contract!Refuse(c, id, fp)
<1> USE DEF RefinementInv
<1>1. /\ entries' = entries /\ inFlight' = inFlight /\ phase[c] = "idle"
      /\ ~ Recorded(entries, id) /\ inFlight[id] # NoCaller
      /\ req \in [Callers -> Request] /\ phase \in [Callers -> Phases]
  BY DEF JoinInFlight, LedgerInv, LedgerTypeOK
<1>2. KeptOutcome' = KeptOutcome /\ UsedSince' = UsedSince /\ Contract!Free(c) /\ KeptOutcome[id] = {}
  BY <1>1, IdleIsFree, Views DEF KeptOutcome, UsedSince
<1>3. RunningPrint[id] = {req[inFlight[id]].print}
  BY <1>1 DEF RunningPrint
<1>4. \A j \in Intents : inFlight[j] # NoCaller => inFlight[j] # c
  BY <1>1 DEF LedgerInv, InFlightIsRunning
<1>5. CASE req[inFlight[id]].print = fp
  <2>1. /\ phase' = [phase EXCEPT ![c] = "joined"]
        /\ req' = [req EXCEPT ![c] = [intent |-> id, print |-> fp]] /\ reply' = reply
    BY <1>5 DEF JoinInFlight, Enter
  <2>2. RunningPrint' = RunningPrint
    BY <1>1, <1>4, <2>1 DEF RunningPrint
  <2>3. Waits' = [Waits EXCEPT ![id] = @ \cup {c}]
    BY <1>1, <2>1 DEF Waits
  <2> QED BY <1>2, <1>3, <1>5, <2>1, <2>2, <2>3 DEF Contract!Wait
<1>6. CASE req[inFlight[id]].print # fp
  <2>1. /\ phase' = [phase EXCEPT ![c] = "answered"] /\ req' = req
        /\ reply' = [reply EXCEPT ![c] = [kind |-> "mismatch", intent |-> id]]
    BY <1>6 DEF JoinInFlight, Answer
  <2>2. RunningPrint' = RunningPrint
    BY <1>1, <2>1 DEF RunningPrint
  <2>3. Waits' = Waits
    <3>1. \A d \in Callers : phase'[d] \in {"running", "joined"} <=> phase[d] \in {"running", "joined"}
      BY <1>1, <2>1
    <3> QED BY <2>1, <3>1 DEF Waits
  <2> QED BY <1>2, <1>3, <1>6, <2>1, <2>2, <2>3 DEF Contract!Refuse
<1> QED BY <1>5, <1>6

LEMMA StartWorkRefines ==
    ASSUME RefinementInv, NEW c \in Callers, NEW id \in Intents, NEW fp \in Prints,
           StartWork(c, id, fp)
    PROVE  Contract!Begin(c, id, fp)
<1> USE DEF RefinementInv
<1>1. /\ entries' = entries /\ inFlight' = [inFlight EXCEPT ![id] = c] /\ phase[c] = "idle"
      /\ ~ Recorded(entries, id) /\ inFlight[id] = NoCaller /\ reply' = reply
      /\ phase' = [phase EXCEPT ![c] = "running"]
      /\ req' = [req EXCEPT ![c] = [intent |-> id, print |-> fp]]
      /\ req \in [Callers -> Request] /\ phase \in [Callers -> Phases]
      /\ inFlight \in [Intents -> Callers \cup {NoCaller}]
  BY DEF StartWork, Enter, LedgerInv, LedgerTypeOK
<1>2. KeptOutcome' = KeptOutcome /\ UsedSince' = UsedSince /\ Contract!Free(c) /\ KeptOutcome[id] = {}
  BY <1>1, IdleIsFree, Views DEF KeptOutcome, UsedSince
<1>3. RunningPrint[id] = {}
  BY <1>1 DEF RunningPrint
<1>4. \A j \in Intents : inFlight[j] # NoCaller => inFlight[j] # c
  BY <1>1 DEF LedgerInv, InFlightIsRunning
<1>5. RunningPrint' = [RunningPrint EXCEPT ![id] = {fp}]
  BY <1>1, <1>4, NoCallerAssumption DEF RunningPrint
<1>6. \A d \in Callers : phase[d] \in {"running", "joined"} => req[d].intent # id
  BY <1>1, NoCallerAssumption DEF LedgerInv, InFlightIsRunning, JoinersMatch
<1>7. Waits' = [Waits EXCEPT ![id] = {c}]
  BY <1>1, <1>6 DEF Waits
<1> QED BY <1>1, <1>2, <1>3, <1>5, <1>7 DEF Contract!Begin

\* To the contract, those whose await resolves with the work of c are those
\* that wait for its intent, and then nothing runs or waits for it.
LEMMA EndOfWorkRefines ==
    ASSUME LedgerInv, NEW c \in Callers, phase[c] = "running",
           inFlight' = [inFlight EXCEPT ![req[c].intent] = NoCaller],
           phase' = [d \in Callers |-> IF d \in Awaiting(c) THEN "answered" ELSE phase[d]],
           req' = [d \in Callers |-> IF d \in Awaiting(c) THEN NoRequest ELSE req[d]]
    PROVE  /\ req[c].intent \in Intents
           /\ RunningPrint[req[c].intent] = {req[c].print}
           /\ Waits[req[c].intent] = Awaiting(c) /\ c \in Awaiting(c)
           /\ RunningPrint' = [RunningPrint EXCEPT ![req[c].intent] = {}]
           /\ Waits' = [Waits EXCEPT ![req[c].intent] = {}]
<1> USE DEF LedgerInv
<1> DEFINE id == req[c].intent
<1>1. /\ inFlight \in [Intents -> Callers \cup {NoCaller}] /\ id \in Intents
      /\ inFlight[id] = c /\ c # NoCaller
  BY NoCallerAssumption DEF LedgerTypeOK, InFlightIsRunning, Request
<1>2. \A d \in Callers : d \in Awaiting(c) <=> d = c \/ (phase[d] = "joined" /\ req[d].intent = id)
  BY DEF Awaiting
<1>3. \A d \in Callers : d \in Awaiting(c) <=> phase[d] \in {"running", "joined"} /\ req[d].intent = id
  BY <1>1, <1>2 DEF InFlightIsRunning
<1>4. RunningPrint[id] = {req[c].print} /\ c \in Awaiting(c)
  BY <1>1, <1>2 DEF RunningPrint
<1>5. Awaiting(c) \subseteq Callers
  BY DEF Awaiting
<1>6. Waits[id] = Awaiting(c)
  BY <1>1, <1>3, <1>5 DEF Waits
<1>7. \A j \in Intents : j # id /\ inFlight[j] # NoCaller =>
         inFlight[j] \in Callers /\ inFlight[j] \notin Awaiting(c)
  BY <1>1, <1>3 DEF InFlightIsRunning
<1>8. RunningPrint' = [RunningPrint EXCEPT ![id] = {}]
  BY <1>1, <1>7 DEF RunningPrint
<1>9. Waits' = [Waits EXCEPT ![id] = {}]
  <2>1. \A j \in Intents, d \in Callers :
           phase'[d] \in {"running", "joined"} /\ req'[d].intent = j
              <=> phase[d] \in {"running", "joined"} /\ req[d].intent = j /\ j # id
    BY <1>3
  <2>2. Waits' = [j \in Intents |-> {d \in Callers : phase'[d] \in {"running", "joined"} /\ req'[d].intent = j}]
    BY DEF Waits
  <2>3. [Waits EXCEPT ![id] = {}] = [j \in Intents |-> IF j = id THEN {} ELSE
             {d \in Callers : phase[d] \in {"running", "joined"} /\ req[d].intent = j}]
    BY <1>1 DEF Waits
  <2>4. \A j \in Intents :
           {d \in Callers : phase'[d] \in {"running", "joined"} /\ req'[d].intent = j} =
             IF j = id THEN {} ELSE
                {d \in Callers : phase[d] \in {"running", "joined"} /\ req[d].intent = j}
    BY <2>1
  <2> QED BY <2>2, <2>3, <2>4
<1> QED BY <1>1, <1>4, <1>6, <1>8, <1>9

LEMMA ContractCountsTheSame == \A S : Contract!Cardinality(S) = Cardinality(S)
BY DEF Contract!Cardinality, Cardinality

LEMMA SettleRefines ==
    ASSUME RefinementInv, NEW c \in Callers, NEW response \in Responses, Settle(c, response)
    PROVE  \E lost \in SUBSET Intents : Contract!Complete(req[c].intent, response, c, lost)
<1> USE DEF RefinementInv
<1> DEFINE id == req[c].intent
           e == [intent |-> id, print |-> req[c].print, response |-> response]
<1>1. /\ phase[c] = "running" /\ entries \in Seq(Entry) /\ Unique(entries)
      /\ Len(entries) <= Capacity /\ e \in Entry /\ e.intent = id
      /\ e.print = req[c].print /\ e.response = response
      /\ ~ Recorded(entries, id)
      /\ entries' = IF response \in Recordable THEN Record(entries, e) ELSE entries
  BY NoCallerAssumption
     DEF Settle, LedgerInv, LedgerTypeOK, LedgerBounded, Unique, InFlightIsRunning,
         InFlightNotRecorded, Entry, Request
<1> HIDE DEF e
<1>2. /\ id \in Intents
      /\ RunningPrint[id] = {req[c].print}
      /\ Waits[id] = Awaiting(c) /\ c \in Awaiting(c)
      /\ RunningPrint' = [RunningPrint EXCEPT ![id] = {}]
      /\ Waits' = [Waits EXCEPT ![id] = {}]
  BY EndOfWorkRefines DEF Settle, AnswerAll
<1>3. reply' = [d \in Callers |->
           IF d \notin Waits[id] THEN reply[d]
           ELSE [kind |-> IF d = c THEN "executed" ELSE "replayed",
                 intent |-> id, response |-> response]]
  BY <1>2 DEF Settle, AnswerAll
<1>4. CASE response \notin Recordable
  <2>1. KeptOutcome' = KeptOutcome /\ UsedSince' = UsedSince
    BY <1>1, <1>4 DEF KeptOutcome, UsedSince
  <2>2. Contract!Complete(id, response, c, {})
    BY <1>2, <1>3, <1>4, <2>1 DEF Contract!Complete
  <2> QED BY <2>2
<1>5. CASE response \in Recordable
  <2> DEFINE since == Contract!Use(UsedSince, id, Contract!Remembered)
  <2>1. entries' = Record(entries, e) /\ ~ Recorded(entries, e.intent)
        /\ entries \in Seq(Entry) /\ Unique(entries) /\ Len(entries) <= Capacity /\ e \in Entry
    BY <1>1, <1>5
  <2>8. PICK lost \in SUBSET Intents :
           /\ \A j \in lost : Recorded(entries, j) /\ Cardinality(SinceUse(entries, e.intent, j)) >= Capacity
           /\ \A j \in Intents : Remembered(Record(entries, e), j) =
                 IF j = e.intent THEN {[print |-> e.print, response |-> e.response]}
                 ELSE IF j \in lost THEN {} ELSE Remembered(entries, j)
           /\ \A j \in Intents : UsedAfter(Record(entries, e), j) =
                 IF j \in lost THEN {} ELSE SinceUse(entries, e.intent, j)
    BY <2>1, RecordViews
  <2>2. 
           /\ \A j \in lost : Recorded(entries, j) /\ Cardinality(SinceUse(entries, e.intent, j)) >= Capacity
           /\ \A j \in Intents : Remembered(entries', j) =
                 IF j = e.intent THEN {[print |-> e.print, response |-> e.response]}
                 ELSE IF j \in lost THEN {} ELSE Remembered(entries, j)
           /\ \A j \in Intents : UsedAfter(entries', j) =
                 IF j \in lost THEN {} ELSE SinceUse(entries, e.intent, j)
    BY <2>1, <2>8
  <2>3. since = [j \in Intents |-> SinceUse(entries, id, j)]
    BY RememberedSet DEF Contract!Use, SinceUse, UsedSince
  <2> HIDE DEF since
  <2>4. \A j \in lost : j \in Contract!Remembered /\ Cardinality(since[j]) >= Capacity
    <3>1. \A j \in lost : j \in Intents /\ Recorded(entries, j)
                          /\ Cardinality(SinceUse(entries, id, j)) >= Capacity
      BY <1>1, <2>2
    <3> QED BY <2>3, <3>1, RememberedSet
  <2>5. KeptOutcome' = [j \in Intents |->
           IF j = id THEN {[print |-> fp, response |-> response] : fp \in RunningPrint[id]}
           ELSE IF j \in lost THEN {} ELSE KeptOutcome[j]]
    <3>1. {[print |-> fp, response |-> response] : fp \in RunningPrint[id]}
             = {[print |-> e.print, response |-> e.response]}
      BY <1>1, <1>2
    <3> HIDE DEF id
    <3>2. \A j \in Intents : Remembered(entries', j) =
             IF j = id THEN {[print |-> fp, response |-> response] : fp \in RunningPrint[id]}
             ELSE IF j \in lost THEN {} ELSE KeptOutcome[j]
      <4>1. \A j \in Intents : KeptOutcome[j] = Remembered(entries, j)
        BY DEF KeptOutcome
      <4> QED BY <1>1, <2>2, <3>1, <4>1
    <3> QED BY <3>2 DEF KeptOutcome
  <2>6. UsedSince' = [j \in Intents |-> IF j \in lost THEN {} ELSE since[j]]
    <3>1. \A j \in Intents : UsedAfter(entries', j) = IF j \in lost THEN {} ELSE since[j]
      BY <1>1, <2>2, <2>3
    <3> QED BY <3>1 DEF UsedSince
  <2>7. Contract!Complete(id, response, c, lost)
    <3>1. RunningPrint[id] # {} /\ c \in Waits[id]
      BY <1>2
    <3>2. since = Contract!Use(UsedSince, id, Contract!Remembered)
      BY DEF since
    <3> HIDE DEF id
    <3> QED BY <1>2, <1>3, <1>5, <2>4, <2>5, <2>6, <3>1, <3>2, ContractCountsTheSame DEF Contract!Complete
  <2> QED BY <2>7
<1> QED BY <1>4, <1>5

LEMMA WorkThrowsRefines ==
    ASSUME RefinementInv, NEW c \in Callers, WorkThrows(c)
    PROVE  req[c].intent \in Intents /\ Contract!Abort(req[c].intent)
<1> USE DEF RefinementInv
<1> DEFINE id == req[c].intent
<1>1. /\ id \in Intents
      /\ RunningPrint[id] = {req[c].print}
      /\ Waits[id] = Awaiting(c)
      /\ RunningPrint' = [RunningPrint EXCEPT ![id] = {}]
      /\ Waits' = [Waits EXCEPT ![id] = {}]
  BY EndOfWorkRefines DEF WorkThrows, AnswerAll
<1>2. reply' = [d \in Callers |-> IF d \in Waits[id] THEN [kind |-> "threw", intent |-> id] ELSE reply[d]]
  BY <1>1 DEF WorkThrows, AnswerAll
<1>3. KeptOutcome' = KeptOutcome /\ UsedSince' = UsedSince
  BY DEF WorkThrows, KeptOutcome, UsedSince
<1> QED BY <1>1, <1>2, <1>3 DEF Contract!Abort

LEMMA RespondRefines ==
    ASSUME RefinementInv, NEW c \in Callers, Respond(c)
    PROVE  Contract!Hear(c)
<1> USE DEF RefinementInv
<1>1. /\ entries' = entries /\ inFlight' = inFlight /\ req' = req /\ phase[c] = "answered"
      /\ phase' = [phase EXCEPT ![c] = "idle"] /\ phase \in [Callers -> Phases]
      /\ reply' = [reply EXCEPT ![c] = [kind |-> "none"]]
  BY DEF Respond, LedgerInv, LedgerTypeOK, NoReply
<1>2. reply[c].kind # "none"
  BY <1>1 DEF RepliesMatchPhase, LedgerInv, LedgerTypeOK, Reply, NoReply
<1>3. KeptOutcome' = KeptOutcome /\ UsedSince' = UsedSince /\ RunningPrint' = RunningPrint
  BY <1>1 DEF KeptOutcome, UsedSince, RunningPrint
<1>4. Waits' = Waits
  <2>1. \A d \in Callers : phase'[d] \in {"running", "joined"} <=> phase[d] \in {"running", "joined"}
    BY <1>1
  <2> QED BY <1>1, <2>1 DEF Waits
<1> QED BY <1>1, <1>2, <1>3, <1>4 DEF Contract!Hear

\* A ledger that starts, or starts again, is a contract that does.
LEMMA EmptyViews ==
    /\ LedgerInit => Contract!Init
    /\ LoseLedger => Contract!Restart
<1>1. LedgerInit => Contract!Init
  BY DEF LedgerInit, NoReply, KeptOutcome, UsedSince, RunningPrint, Waits, Remembered, UsedAfter,
         Contract!Init
<1>2. LoseLedger => Contract!Restart
  BY DEF LoseLedger, NoReply, KeptOutcome, UsedSince, RunningPrint, Waits, Remembered, UsedAfter,
         Contract!Restart
<1> QED BY <1>1, <1>2

LEMMA RepliesPreserved ==
    ASSUME RefinementInv, [LedgerNext]_ledgerVars
    PROVE  RepliesMatchPhase'
<1> USE DEF RefinementInv, RepliesMatchPhase
<1>1. phase \in [Callers -> Phases] /\ reply \in [Callers -> Reply]
  BY DEF LedgerInv, LedgerTypeOK
<1>2. CASE \E c \in Callers, id \in Intents, fp \in Prints : Execute(c, id, fp)
  BY <1>1, <1>2 DEF Execute, AnswerRecorded, JoinInFlight, StartWork, Answer, Enter, NoReply
<1>3. CASE \E c \in Callers, response \in Responses : Settle(c, response)
  BY <1>1, <1>3 DEF Settle, AnswerAll, NoReply
<1>4. CASE \E c \in Callers : WorkThrows(c)
  BY <1>1, <1>4 DEF WorkThrows, AnswerAll, NoReply
<1>5. CASE \E c \in Callers : Respond(c)
  BY <1>1, <1>5 DEF Respond
<1>6. CASE LoseLedger
  BY <1>6 DEF LoseLedger
<1>7. CASE UNCHANGED ledgerVars
  BY <1>7 DEF ledgerVars
<1> QED BY <1>2, <1>3, <1>4, <1>5, <1>6, <1>7 DEF LedgerNext

LEMMA StepRefines ==
    ASSUME RefinementInv, [LedgerNext]_ledgerVars
    PROVE  [Contract!Next]_Contract!contractVars
<1>1. CASE \E c \in Callers, id \in Intents, fp \in Prints : Execute(c, id, fp)
  BY <1>1, AnswerRecordedRefines, JoinInFlightRefines, StartWorkRefines DEF Execute, Contract!Next
<1>2. CASE \E c \in Callers, response \in Responses : Settle(c, response)
  <2>1. PICK c \in Callers, response \in Responses : Settle(c, response)
    BY <1>2
  <2>2. req[c].intent \in Intents
    BY DEF RefinementInv, LedgerInv, LedgerTypeOK, Request
  <2> QED BY <2>1, <2>2, SettleRefines DEF Contract!Next
<1>3. CASE \E c \in Callers : WorkThrows(c)
  BY <1>3, WorkThrowsRefines DEF Contract!Next
<1>4. CASE \E c \in Callers : Respond(c)
  BY <1>4, RespondRefines DEF Contract!Next
<1>5. CASE LoseLedger
  BY <1>5, EmptyViews DEF Contract!Next
<1>6. CASE UNCHANGED ledgerVars
  BY <1>6 DEF ledgerVars, Contract!contractVars, KeptOutcome, UsedSince, RunningPrint, Waits
<1> QED BY <1>1, <1>2, <1>3, <1>4, <1>5, <1>6 DEF LedgerNext

\* Whatever the capacity, the Map with its re-insertions and its eviction loop
\* (intentLedger.ts:41-131) does what docs/hub-api.md promises of an intent:
\* one execution at a time, its success replayed to the same payload until
\* Capacity other intents have been used since.
THEOREM LedgerImplementsContract == LedgerSafetySpec => ImplementsContract
<1>1. LedgerInit => RefinementInv
  BY InitEstablishesInv DEF LedgerInit, RefinementInv, RepliesMatchPhase
<1>2. RefinementInv /\ [LedgerNext]_ledgerVars => RefinementInv'
  BY NextPreservesInv, RepliesPreserved DEF RefinementInv
<1>3. LedgerInit => Contract!Init
  BY EmptyViews
<1>4. RefinementInv /\ [LedgerNext]_ledgerVars => [Contract!Next]_Contract!contractVars
  BY StepRefines
<1> QED BY <1>1, <1>2, <1>3, <1>4, PTL DEF LedgerSafetySpec, ImplementsContract, Contract!Spec

=============================================================================
