-------------------------- MODULE VoiceGatewayProofs --------------------------
(***************************************************************************)
(* What VoiceGateway guarantees for any clients, arrivals, utterances and  *)
(* sizes.  The invariant says of every session, of every clone a request   *)
(* works on and of every dispatch which utterances are its reason; which   *)
(* arrival of a request runs it and what the others wait for; and how the  *)
(* sessions are ordered.                                                   *)
(***************************************************************************)
EXTENDS VoiceGateway, FiniteSetTheorems, TLAPS

-----------------------------------------------------------------------------
(* The invariant.                                                          *)

Stages == {"idle", "hearing", "interpreting", "replying", "joined", "answered"}

EntryType == [session : Fields, generation : Nat, usedAt : 0 .. MaxNow,
              result : Reply \cup {None}, inFlight : Handlers \cup {None}]

HandlerType == [stage : Stages, client : Clients \cup {None}, generation : Nat, base : Fields,
                reply : Reply \cup {None}, awaits : Handlers \cup {None},
                ran : BOOLEAN, retained : BOOLEAN]

GatewayTypeOK ==
    /\ now \in 0 .. MaxNow /\ retries \in Nat
    /\ newer \in [Clients -> SUBSET Clients]
    /\ entry \in [Clients -> EntryType]
    /\ handler \in [Handlers -> HandlerType]
    /\ DOMAIN took = Clients /\ DOMAIN said = Clients
    /\ \A c \in Clients :
          /\ took[c] \in [Generations(c) -> Taken \cup {None}]
          /\ said[c] \in [Generations(c) -> Utterance \cup {None}]

\* The sessions R are in one order, and there are no more than fit.
Ordered(R, after) ==
    /\ IsFiniteSet(R) /\ Cardinality(R) <= MaxSessions
    /\ \A x \in Clients : after[x] \subseteq R /\ x \notin after[x]
    /\ \A x, y \in R : x # y => x \in after[y] \/ y \in after[x]
    /\ \A x, y \in R : y \in after[x] => after[y] \subseteq after[x]

OrderOK == Ordered(Retained, newer)

EntriesOK ==
    \A c \in Clients :
        /\ OneMode(entry[c].session)
        /\ entry[c].generation \in 0 .. Len(Says[c])
        /\ entry[c].result = None \/ entry[c].inFlight = None
        /\ c \notin Retained => entry[c] = NoEntry
        /\ \A g \in Generations(c) : g > entry[c].generation => took[c][g] = None

Runs(q) == q.stage \in {"hearing", "interpreting", "replying"}
Claims(q) == Runs(q) \/ q.ran

\* What a handler may be, at each of its stages.
HandlersOK ==
    \A h \in Handlers :
        LET q == handler[h]
        IN  /\ OneMode(q.base)
            /\ q.stage = "idle" => ~ q.ran /\ ~ q.retained
            /\ q.stage # "idle" =>
                  /\ q.client \in Clients /\ q.generation \in Generations(q.client)
                  /\ said[q.client][q.generation] # None
            /\ q.awaits # None => q.stage = "joined"
            /\ q.stage = "joined" => ~ q.ran
            /\ q.stage = "interpreting" => q.base.dictating = None
            /\ q.stage \in {"hearing", "interpreting"} => ~ q.ran
            /\ q.stage \in {"replying", "answered"} => q.reply # None
            /\ q.retained => q.client \in Retained /\ q.generation <= entry[q.client].generation

\* A request is run by one of its arrivals; while that runs, its entry awaits
\* it and the other arrivals join it, or have been told "Cancelled.".
RunnersOK ==
    /\ \A h, i \in Handlers : h # i /\ SameRequest(h, i) =>
          /\ ~ (Claims(handler[h]) /\ Claims(handler[i]))
          /\ Runs(handler[h]) /\ handler[i].stage = "answered" => handler[i].reply = Cancelled
    /\ \A h \in Handlers : handler[h].retained /\ Runs(handler[h]) /\ IsCurrent(handler[h]) =>
          entry[handler[h].client].inFlight = h
    /\ \A c \in Clients : entry[c].inFlight # None =>
          LET q == handler[entry[c].inFlight]
          IN  Runs(q) /\ q.retained /\ q.client = c /\ q.generation = entry[c].generation
    /\ \A h \in Handlers : handler[h].awaits # None /\ handler[h].retained =>
          LET q == handler[handler[h].awaits]
          IN  Runs(q) /\ q.retained /\ SameRequest(h, handler[h].awaits)

\* The arrivals of a request that have their answers have the same, which is
\* the recorded one while there is one, or "Cancelled.".
AnswersOK ==
    /\ \A h, i \in Handlers :
          SameRequest(h, i) /\ handler[h].stage = "answered" /\ handler[i].stage = "answered" =>
              \/ handler[h].reply = handler[i].reply
              \/ Cancelled \in {handler[h].reply, handler[i].reply}
    /\ \A h \in Handlers :
          /\ handler[h].retained /\ handler[h].stage = "answered" /\ IsCurrent(handler[h])
          /\ entry[handler[h].client].result # None
          => handler[h].reply \in {entry[handler[h].client].result, Cancelled}

\* What is armed, drafted or about to be dispatched has its reason in what the
\* user said up to generation n.
ArmedBy(p, n, a) ==
    \E g \in 1 .. n : /\ Arms(p, g, a.item, a.action) /\ p[g].at = a.at
                      /\ \A k \in g + 1 .. n : PassesBy(p[k])

DispatchBy(p, n, d) ==
    \E g \in 1 .. n : /\ p[g] # None /\ p[g].kind = "dispatch_task" /\ p[g].at = d.at
                      /\ \A k \in g + 1 .. n : PassesBy(p[k])

DraftBy(p, n, d) ==
    \E g \in 1 .. n :
        /\ p[g] # None /\ p[g].kind = "dictate" /\ p[g].item = d.item /\ p[g].action = d.action
        /\ \A k \in g + 1 .. n : PassesByDictation(p[k])
        /\ d.body => \E b \in g + 1 .. n : p[b] # None /\ p[b].kind = "dictation_body"

Justified(s, p, n) ==
    /\ s.confirm # None => ArmedBy(p, n, s.confirm)
    /\ s.dispatch # None => DispatchBy(p, n, s.dispatch)
    /\ s.dictating # None => DraftBy(p, n, s.dictating)

NoOrphans(p, n) == \A k \in 1 .. n : ~ Orphaned(p[k])

SessionsJustified ==
    \A c \in Clients :
        LET n == entry[c].generation
        IN  NoOrphans(took[c], n) => Justified(entry[c].session, took[c], n)

BasesJustified ==
    \A h \in Handlers :
        LET q == handler[h]  n == q.generation - 1
        IN  /\ q.retained /\ q.stage \in {"hearing", "interpreting"} /\ IsCurrent(q)
            /\ NoOrphans(took[q.client], n)
            => Justified(q.base, took[q.client], n)

\* The clause of DispatchesWereApproved for one reply.
Approved(r, p, g) ==
    CASE r.kind = "dispatch" ->
            \/ /\ p[g].kind = "action" /\ r.action \notin Confirming
               /\ ~ (p[g].free /\ ElevateFreeform)
            \/ /\ p[g].kind = "post" /\ r.action \notin Confirming
               /\ ReadBack(p, g, r.item, r.action)
            \/ /\ p[g].kind = "confirm"
               /\ \E armed \in 1 .. g - 1 :
                    Arms(p, armed, r.item, r.action) /\ InTime(p, armed, g)
      [] r.kind = "dispatchIntent" ->
            \E armed \in 1 .. g - 1 :
                /\ p[armed] # None /\ p[armed].kind = "dispatch_task"
                /\ InTime(p, armed, g)
      [] OTHER -> TRUE

RepliesApproved ==
    \A h \in Handlers :
        LET q == handler[h]
        IN  q.ran /\ q.retained /\ NoOrphans(took[q.client], q.generation) =>
                Approved(q.reply, took[q.client], q.generation)

GatewayInv ==
    /\ GatewayTypeOK /\ OrderOK /\ EntriesOK /\ HandlersOK
    /\ RunnersOK /\ AnswersOK
    /\ SessionsJustified /\ BasesJustified /\ RepliesApproved
    /\ CancelHolds

-----------------------------------------------------------------------------
(* parse and reduce.                                                       *)

\* An intent that the session it was read against allows.
Fits(i, s) ==
    /\ i.kind \in Meanings \ {"orphan"}
    /\ i.item \in Items \cup {None} /\ i.action \in Actions \cup {None}
    /\ i.kind \in {"action", "dictate"} => i.item \in Items /\ i.action \in Actions
    /\ i.kind = "confirm" =>
          /\ s.confirm # None /\ s.dictating = None
          /\ i.item = s.confirm.item /\ i.action = s.confirm.action
    /\ i.kind = "confirm_dispatch" => s.dispatch # None
    /\ i.kind \in {"dictation_body", "post"} => s.dictating # None
    /\ i.kind \in {"action", "dictate", "navigate", "dispatch_task"} => s.dictating = None

LEMMA ActionsAreNotNone == None \notin Items /\ None \notin Actions
BY NoneAssumption

LEMMA ParseFits ==
    ASSUME NEW u \in Utterance, NEW s \in Fields, OneMode(s)
    PROVE  /\ parse(u, s).kind # "unknown" => Fits(parse(u, s), s)
           /\ parse(u, s).kind = "unknown" => s.dictating = None
<1> DEFINE i == parse(u, s)
<1>1. /\ u.word \in Words /\ u.action \in Actions \cup {None} /\ u.item \in Items \cup {None}
      /\ Offers \in [Items -> SUBSET Actions]
  BY OffersAssumption DEF Utterance
<1>2. s.confirm # None => s.confirm.item \in Items /\ s.confirm.action \in Actions
  BY DEF Fields, Arm
<1>3. CASE u.word \in {"mumble", "cancel"}
  <2>1. i.kind \in {"no_match", "cancel"} /\ i.item = None /\ i.action = None
    BY <1>3 DEF parse, Plain, Intent
  <2> QED BY <2>1 DEF Fits, Meanings
<1>4. CASE u.word \notin {"mumble", "cancel"} /\ s.dictating # None
  <2>1. i.kind \in {"post", "dictation_body"} /\ i.item = None /\ i.action = None
    BY <1>4 DEF parse, Plain, Intent
  <2> QED BY <1>4, <2>1 DEF Fits, Meanings
<1>5. CASE /\ u.word \notin {"mumble", "cancel"} /\ s.dictating = None
           /\ u.word = "confirm dispatch" /\ s.dispatch # None
  <2>1. i.kind = "confirm_dispatch" /\ i.item = None /\ i.action = None
    BY <1>5 DEF parse, Plain, Intent
  <2> QED BY <1>5, <2>1 DEF Fits, Meanings
<1>6. CASE /\ u.word \notin {"mumble", "cancel"} /\ s.dictating = None
           /\ ~ (u.word = "confirm dispatch" /\ s.dispatch # None)
           /\ s.confirm # None /\ Confirms(u, s.confirm.action)
  <2>1. i.kind = "confirm" /\ i.item = s.confirm.item /\ i.action = s.confirm.action
    BY <1>6 DEF parse, Intent
  <2> QED BY <1>2, <1>6, <2>1 DEF Fits, Meanings
<1>7. CASE /\ u.word \notin {"mumble", "cancel"} /\ s.dictating = None
           /\ ~ (u.word = "confirm dispatch" /\ s.dispatch # None)
           /\ ~ (s.confirm # None /\ Confirms(u, s.confirm.action))
  <2>1. i = FirstStage(u)
    BY <1>7 DEF parse
  <2>2. CASE u.word = "navigate"
    <3>1. i.kind = "navigate" /\ i.item = None /\ i.action = None
      BY <2>1, <2>2 DEF FirstStage, Plain, Intent
    <3> QED BY <1>7, <3>1 DEF Fits, Meanings
  <2>3. CASE u.word = "dispatch"
    <3>1. i.kind = "dispatch_task" /\ i.item = None /\ i.action = None
      BY <2>1, <2>3 DEF FirstStage, Plain, Intent
    <3> QED BY <1>7, <3>1 DEF Fits, Meanings
  <2>4. CASE u.word = "verb"
    <3>1. i = IF u.item = None THEN Plain("no_match")
              ELSE IF u.action \notin Offers[u.item] THEN Plain("no_match")
              ELSE Intent(IF u.action \in Dictated THEN "dictate" ELSE "action", u.item, u.action)
      BY <2>1, <2>4 DEF FirstStage
    <3>2. \/ i.kind = "no_match" /\ i.item = None /\ i.action = None
          \/ i.kind \in {"dictate", "action"} /\ i.item \in Items /\ i.action \in Actions
      BY <1>1, <3>1 DEF Plain, Intent
    <3> QED BY <1>7, <3>2 DEF Fits, Meanings
  <2>5. CASE u.word \notin {"navigate", "dispatch", "verb"}
    <3>1. i.kind = "unknown"
      BY <2>1, <2>5 DEF FirstStage, Plain, Intent
    <3> QED BY <1>7, <3>1
  <2> QED BY <2>2, <2>3, <2>4, <2>5
<1> QED BY <1>3, <1>4, <1>5, <1>6, <1>7

LEMMA ReadingFits ==
    ASSUME NEW u \in Utterance, NEW i \in Readings(u), NEW s \in Fields, s.dictating = None
    PROVE  Fits(i, s)
<1>1. Offers \in [Items -> SUBSET Actions] /\ u.item \in Items \cup {None}
  BY OffersAssumption DEF Utterance
<1>2. \/ i \in {Plain("no_match"), Plain("navigate")}
      \/ /\ u.item \in Items
         /\ \E a \in Offers[u.item] : i \in {Intent("action", u.item, a), Intent("dictate", u.item, a)}
  BY <1>1 DEF Readings
<1> QED BY <1>1, <1>2 DEF Fits, Meanings, Plain, Intent

\* What reduce starts from: the session without the arms that have expired.
LEMMA CurrentSession ==
    ASSUME NEW s \in Fields, OneMode(s), NEW t \in Nat
    PROVE  /\ Current(s, t) \in Fields /\ OneMode(Current(s, t))
           /\ Current(s, t).dictating = s.dictating
           /\ Current(s, t).confirm # None =>
                 Current(s, t).confirm = s.confirm /\ t - s.confirm.at <= ConfirmTtl
           /\ Current(s, t).dispatch # None =>
                 Current(s, t).dispatch = s.dispatch /\ t - s.dispatch.at <= ConfirmTtl
<1>1. s.confirm # None => s.confirm.at \in Nat
  BY DEF Fields, Arm
<1>2. s.dispatch # None => s.dispatch.at \in Nat
  BY DEF Fields
<1>3. \A x : Unexpired(x, t) = None \/ (Unexpired(x, t) = x /\ x # None /\ ~ (t - x.at > ConfirmTtl))
  BY DEF Unexpired
<1>4. /\ Current(s, t) = [s EXCEPT !.confirm = Unexpired(@, t), !.dispatch = Unexpired(@, t)]
      /\ DOMAIN s = {"confirm", "dictating", "dispatch"}
  BY DEF Current, Fields
<1>5. /\ Current(s, t).confirm = Unexpired(s.confirm, t)
      /\ Current(s, t).dispatch = Unexpired(s.dispatch, t)
      /\ Current(s, t).dictating = s.dictating
  BY <1>4
<1>6. Current(s, t) \in Fields
  BY <1>3, <1>4, <1>5 DEF Fields
<1>7. OneMode(Current(s, t))
  BY <1>3, <1>5 DEF OneMode
<1> QED BY <1>1, <1>2, <1>3, <1>5, <1>6, <1>7, TtlAssumption

\* reduce, by what was understood.
LEMMA ReduceBy ==
    ASSUME NEW session, NEW i, NEW t, NEW f
    PROVE  LET s == Current(session, t)  r == reduce(session, i, t, f)
           IN  /\ i.kind = "action" => r = OnAction(s, i, t, f)
               /\ i.kind = "confirm" => r = OnConfirm(s, i)
               /\ i.kind = "dictate" => r = OnDictate(s, i)
               /\ i.kind = "dictation_body" => r = OnBody(s)
               /\ i.kind = "post" => r = OnPost(s, t)
               /\ i.kind = "dispatch_task" => r = OnDispatchTask(t)
               /\ i.kind = "confirm_dispatch" => r = OnConfirmDispatch(s)
               /\ i.kind = "cancel" => r = OnCancel
               /\ i.kind = "navigate" => r = OnNavigate(s)
               /\ i.kind = "no_match" => r = NotUnderstood(s)
<1> DEFINE r == reduce(session, i, t, f)
           s == Current(session, t)
<1>1. i.kind = "action" => r = OnAction(s, i, t, f)
  BY DEF reduce
<1>2. i.kind = "confirm" => r = OnConfirm(s, i)
  BY DEF reduce
<1>3. i.kind = "dictate" => r = OnDictate(s, i)
  BY DEF reduce
<1>4. i.kind = "dictation_body" => r = OnBody(s)
  BY DEF reduce
<1>5. i.kind = "post" => r = OnPost(s, t)
  BY DEF reduce
<1>6. i.kind = "dispatch_task" => r = OnDispatchTask(t)
  BY DEF reduce
<1>7. i.kind = "confirm_dispatch" => r = OnConfirmDispatch(s)
  BY DEF reduce
<1>8. i.kind = "cancel" => r = OnCancel
  BY DEF reduce
<1>9. i.kind = "navigate" => r = OnNavigate(s)
  BY DEF reduce
<1>10. i.kind = "no_match" => r = NotUnderstood(s)
  BY DEF reduce
<1> QED BY <1>1, <1>2, <1>3, <1>4, <1>5, <1>6, <1>7, <1>8, <1>9, <1>10

LEMMA ReduceType ==
    ASSUME NEW s0 \in Fields, OneMode(s0), NEW i, Fits(i, s0), NEW t \in Nat, NEW f \in BOOLEAN
    PROVE  LET r == reduce(s0, i, t, f)
           IN  /\ r.next \in Fields /\ OneMode(r.next)
               /\ r.effect \in Reply
               /\ i.kind = "cancel" => r.next = Empty
<1> DEFINE r == reduce(s0, i, t, f)
           s == Current(s0, t)
           Typed(x) == x.next \in Fields /\ OneMode(x.next) /\ x.effect \in Reply
<1>1. /\ s \in Fields /\ OneMode(s) /\ s.dictating = s0.dictating
      /\ s.confirm # None => s.confirm = s0.confirm
  BY CurrentSession
<1>2. i.kind \in {"action", "dictate", "confirm", "dictation_body", "post", "dispatch_task",
                  "confirm_dispatch", "cancel", "navigate", "no_match"}
  BY DEF Fits, Meanings
<1>3. /\ i.kind = "action" => r = OnAction(s, i, t, f)
      /\ i.kind = "confirm" => r = OnConfirm(s, i)
      /\ i.kind = "dictate" => r = OnDictate(s, i)
      /\ i.kind = "dictation_body" => r = OnBody(s)
      /\ i.kind = "post" => r = OnPost(s, t)
      /\ i.kind = "dispatch_task" => r = OnDispatchTask(t)
      /\ i.kind = "confirm_dispatch" => r = OnConfirmDispatch(s)
      /\ i.kind = "cancel" => r = OnCancel
      /\ i.kind = "navigate" => r = OnNavigate(s)
      /\ i.kind = "no_match" => r = NotUnderstood(s)
  BY ReduceBy
<1> HIDE DEF s, r
<1>4. /\ Empty \in Fields /\ OneMode(Empty) /\ Empty.dictating = None /\ Empty.dispatch = None
      /\ Disarmed(s) \in Fields /\ OneMode(Disarmed(s))
      /\ Disarmed(s).dictating = s.dictating /\ Disarmed(s).dispatch = None
  BY <1>1 DEF Empty, Fields, OneMode, Disarmed
<1>5. \A k \in {"dispatch", "armed", "dictation_prompt", "dictation_readback"},
         item \in Items, action \in Actions : Effect(k, item, action) \in Reply
  BY DEF Effect, Reply
<1>6. \A k \in {"dispatchIntent", "armedDispatch", "noMatch", "cancelled", "navigate"} :
         Effect(k, None, None) \in Reply
  BY DEF Effect, Reply
<1>7. \A x \in Fields, e \in Reply : OneMode(x) => Typed(Step(x, e))
  BY DEF Step
<1>8. \A x \in Fields : OneMode(x) => Typed(NotUnderstood(x))
  BY <1>6, <1>7 DEF NotUnderstood
<1>9. \A x \in Fields : OneMode(x) =>
         LET y == [x EXCEPT !.confirm = None]
             z == [x EXCEPT !.dispatch = None]
         IN  y \in Fields /\ OneMode(y) /\ z \in Fields /\ OneMode(z)
  BY DEF Fields, OneMode
<1>10. ASSUME NEW x \in Fields, NEW item \in Items, NEW action \in Actions, NEW body \in BOOLEAN,
              x.dictating = None, x.dispatch = None
       PROVE  Typed(Armed(x, item, action, body, t))
  <2> DEFINE a == [item |-> item, action |-> action, body |-> body, at |-> t]
             y == [x EXCEPT !.confirm = a]
  <2>1. a \in Arm
    BY DEF Arm
  <2> HIDE DEF a
  <2>2. y \in Fields /\ OneMode(y)
    BY <1>10, <2>1 DEF Fields, OneMode
  <2>3. Effect("armed", item, action) \in Reply
    BY <1>5
  <2>4. Armed(x, item, action, body, t) = Step(y, Effect("armed", item, action))
    BY DEF Armed, a
  <2> HIDE DEF y, Typed
  <2> QED BY <1>7, <2>2, <2>3, <2>4
<1>11. s.dictating # None =>
          /\ s.dictating \in Draft /\ s.dictating.item \in Items /\ s.dictating.action \in Actions
          /\ s.confirm = None /\ s.dispatch = None
  BY <1>1 DEF Fields, OneMode, Draft
<1> HIDE DEF Typed
<1>12. CASE i.kind = "action"
  <2>1. i.item \in Items /\ i.action \in Actions /\ s.dictating = None
    BY <1>1, <1>12 DEF Fits
  <2>2. \/ r = Armed(Disarmed(s), i.item, i.action, FALSE, t)
        \/ r = Step(Disarmed(s), Effect("dispatch", i.item, i.action))
    BY <1>3, <1>12 DEF OnAction
  <2>3. Typed(r)
    BY <1>4, <1>5, <1>7, <1>10, <2>1, <2>2
  <2> QED BY <1>12, <2>3 DEF Typed, r
<1>13. CASE i.kind = "confirm"
  <2>1. s0.confirm.item \in Items /\ s0.confirm.action \in Actions
    BY <1>13 DEF Fits, Fields, Arm
  <2>2. i.item \in Items /\ i.action \in Actions
    BY <1>13, <2>1 DEF Fits
  <2>3. \/ r = Step([s EXCEPT !.confirm = None], Effect("dispatch", i.item, i.action))
        \/ r = NotUnderstood([s EXCEPT !.confirm = None])
    BY <1>3, <1>13 DEF OnConfirm
  <2>4. Typed(r)
    BY <1>1, <1>5, <1>7, <1>8, <1>9, <2>2, <2>3
  <2> QED BY <1>13, <2>4 DEF Typed, r
<1>14. CASE i.kind = "dictate"
  <2> DEFINE d == [item |-> i.item, action |-> i.action, body |-> FALSE]
             y == [Disarmed(s) EXCEPT !.dictating = d]
  <2>1. i.item \in Items /\ i.action \in Actions /\ d \in Draft
    BY <1>14 DEF Fits, Draft
  <2>2. r = Step(y, Effect("dictation_prompt", i.item, i.action))
    BY <1>3, <1>14 DEF OnDictate
  <2> HIDE DEF d
  <2>3. y \in Fields /\ OneMode(y)
    BY <1>1, <2>1 DEF Disarmed, Fields, OneMode
  <2> HIDE DEF y
  <2>4. Typed(r)
    BY <1>5, <1>7, <2>1, <2>2, <2>3
  <2> QED BY <1>14, <2>4 DEF Typed, r
<1>15. CASE i.kind = "dictation_body"
  <2> DEFINE y == [s EXCEPT !.dictating.body = TRUE]
  <2>1. s.dictating # None
    BY <1>1, <1>15 DEF Fits
  <2>2. y \in Fields /\ OneMode(y)
    BY <1>1, <1>11, <2>1 DEF Fields, Draft, OneMode
  <2>3. r = Step(y, Effect("dictation_readback", s.dictating.item, s.dictating.action))
    BY <1>3, <1>15, <2>1 DEF OnBody
  <2> HIDE DEF y
  <2>4. Typed(r)
    BY <1>5, <1>7, <1>11, <2>1, <2>2, <2>3
  <2> QED BY <1>15, <2>4 DEF Typed, r
<1>16. CASE i.kind = "post"
  <2> DEFINE y == [Disarmed(s) EXCEPT !.dictating = None]
  <2>1. s.dictating # None
    BY <1>1, <1>16 DEF Fits
  <2>2. y \in Fields /\ OneMode(y)
    BY <1>1 DEF Disarmed, Fields, OneMode
  <2>3. \/ r = NotUnderstood([s EXCEPT !.confirm = None])
        \/ r = Armed(Empty, s.dictating.item, s.dictating.action, TRUE, t)
        \/ r = Step(y, Effect("dispatch", s.dictating.item, s.dictating.action))
    BY <1>3, <1>16, <2>1 DEF OnPost
  <2> HIDE DEF y
  <2>4. Typed(r)
    BY <1>1, <1>4, <1>5, <1>7, <1>8, <1>9, <1>10, <1>11, <2>1, <2>2, <2>3
  <2> QED BY <1>16, <2>4 DEF Typed, r
<1>17. CASE i.kind = "dispatch_task"
  <2> DEFINE y == [Empty EXCEPT !.dispatch = [at |-> t]]
  <2>1. r = Step(y, Effect("armedDispatch", None, None))
    BY <1>3, <1>17 DEF OnDispatchTask
  <2>2. y \in Fields /\ OneMode(y)
    BY DEF Fields, Empty, OneMode
  <2> HIDE DEF y
  <2>3. Typed(r)
    BY <1>6, <1>7, <2>1, <2>2
  <2> QED BY <1>17, <2>3 DEF Typed, r
<1>18. CASE i.kind = "confirm_dispatch"
  <2>1. \/ r = Step([s EXCEPT !.dispatch = None], Effect("dispatchIntent", None, None))
        \/ r = NotUnderstood([s EXCEPT !.dispatch = None])
    BY <1>3, <1>18 DEF OnConfirmDispatch
  <2>2. Typed(r)
    BY <1>1, <1>6, <1>7, <1>8, <1>9, <2>1
  <2> QED BY <1>18, <2>2 DEF Typed, r
<1>19. CASE i.kind \in {"cancel", "navigate", "no_match"}
  <2>1. \/ i.kind = "cancel" /\ r = Step(Empty, Effect("cancelled", None, None))
        \/ i.kind # "cancel" /\ r = Step(Disarmed(s), Effect("navigate", None, None))
        \/ i.kind # "cancel" /\ r = NotUnderstood(s)
    BY <1>3, <1>19 DEF OnCancel, OnNavigate
  <2>2. Typed(r)
    BY <1>1, <1>4, <1>6, <1>7, <1>8, <2>1
  <2>3. i.kind = "cancel" => r.next = Empty
    BY <2>1 DEF Step
  <2> QED BY <2>2, <2>3 DEF Typed, r
<1> QED BY <1>2, <1>12, <1>13, <1>14, <1>15, <1>16, <1>17, <1>18, <1>19

-----------------------------------------------------------------------------
(* What a history is the reason for.                                       *)

LEMMA ArmsAgree ==
    ASSUME NEW n \in Nat, NEW p, NEW q, \A k \in 1 .. n : p[k] = q[k],
           NEW g \in 1 .. n, NEW item, NEW action
    PROVE  /\ ReadBack(p, g, item, action) => ReadBack(q, g, item, action)
           /\ Arms(p, g, item, action) => Arms(q, g, item, action)
<1>1. 1 .. g - 1 \subseteq 1 .. n /\ \A o \in 1 .. n : o + 1 .. g - 1 \subseteq 1 .. n
  OBVIOUS
<1>2. ReadBack(p, g, item, action) => ReadBack(q, g, item, action)
  <2>1. ASSUME ReadBack(p, g, item, action) PROVE ReadBack(q, g, item, action)
    <3>1. PICK o \in 1 .. g - 1, b \in 1 .. g - 1 :
             /\ o < b /\ p[o] # None /\ p[o].kind = "dictate"
             /\ p[o].item = item /\ p[o].action = action
             /\ p[b] # None /\ p[b].kind = "dictation_body"
             /\ \A k \in o + 1 .. g - 1 : PassesByDictation(p[k])
      BY <2>1 DEF ReadBack
    <3>2. p[o] = q[o] /\ p[b] = q[b] /\ \A k \in o + 1 .. g - 1 : p[k] = q[k]
      BY <1>1
    <3> QED BY <3>1, <3>2 DEF ReadBack
  <2> QED BY <2>1
<1> QED BY <1>2 DEF Arms

\* All of it depends only on the generations up to n.
LEMMA HistoriesAgree ==
    ASSUME NEW n \in Nat, NEW p, NEW q, \A k \in 1 .. n : p[k] = q[k]
    PROVE  /\ \A s : Justified(s, p, n) => Justified(s, q, n)
           /\ NoOrphans(p, n) => NoOrphans(q, n)
<1>1. ASSUME NEW a, ArmedBy(p, n, a) PROVE ArmedBy(q, n, a)
  <2>1. PICK g \in 1 .. n : /\ Arms(p, g, a.item, a.action) /\ p[g].at = a.at
                            /\ \A k \in g + 1 .. n : PassesBy(p[k])
    BY <1>1 DEF ArmedBy
  <2>2. Arms(q, g, a.item, a.action)
    BY <2>1, ArmsAgree
  <2>3. q[g].at = a.at /\ \A k \in g + 1 .. n : PassesBy(q[k])
    BY <2>1
  <2> QED BY <2>2, <2>3 DEF ArmedBy
<1>2. ASSUME NEW d, DispatchBy(p, n, d) PROVE DispatchBy(q, n, d)
  BY <1>2 DEF DispatchBy
<1>3. ASSUME NEW d, DraftBy(p, n, d) PROVE DraftBy(q, n, d)
  BY <1>3 DEF DraftBy
<1> QED BY <1>1, <1>2, <1>3 DEF Justified, NoOrphans

LEMMA ApprovalsAgree ==
    ASSUME NEW g \in Nat \ {0}, NEW p, NEW q, \A k \in 1 .. g : p[k] = q[k],
           NEW r, Approved(r, p, g)
    PROVE  Approved(r, q, g)
<1>1. p[g] = q[g] /\ g \in 1 .. g
  OBVIOUS
<1>2. ASSUME NEW a \in 1 .. g - 1
      PROVE  /\ p[a] = q[a] /\ (Arms(p, a, r.item, r.action) => Arms(q, a, r.item, r.action))
             /\ InTime(p, a, g) => InTime(q, a, g)
  <2>1. a \in 1 .. g
    OBVIOUS
  <2>2. Arms(p, a, r.item, r.action) => Arms(q, a, r.item, r.action)
    BY <2>1, ArmsAgree
  <2>3. \A k \in a + 1 .. g - 1 : p[k] = q[k]
    OBVIOUS
  <2> QED BY <1>1, <2>1, <2>2, <2>3 DEF InTime
<1>3. ReadBack(p, g, r.item, r.action) => ReadBack(q, g, r.item, r.action)
  BY <1>1, ArmsAgree
<1>4. CASE r.kind = "dispatch"
  <2>1. \/ /\ p[g].kind = "action" /\ r.action \notin Confirming
           /\ ~ (p[g].free /\ ElevateFreeform)
        \/ /\ p[g].kind = "post" /\ r.action \notin Confirming
           /\ ReadBack(p, g, r.item, r.action)
        \/ /\ p[g].kind = "confirm"
           /\ \E armed \in 1 .. g - 1 :
                Arms(p, armed, r.item, r.action) /\ InTime(p, armed, g)
    BY <1>4 DEF Approved
  <2>2. \/ /\ q[g].kind = "action" /\ r.action \notin Confirming
           /\ ~ (q[g].free /\ ElevateFreeform)
        \/ /\ q[g].kind = "post" /\ r.action \notin Confirming
           /\ ReadBack(q, g, r.item, r.action)
        \/ /\ q[g].kind = "confirm"
           /\ \E armed \in 1 .. g - 1 :
                Arms(q, armed, r.item, r.action) /\ InTime(q, armed, g)
    BY <1>1, <1>2, <1>3, <2>1
  <2> QED BY <1>4, <2>2 DEF Approved
<1>5. CASE r.kind = "dispatchIntent"
  <2>1. \E armed \in 1 .. g - 1 :
           p[armed] # None /\ p[armed].kind = "dispatch_task" /\ InTime(p, armed, g)
    BY <1>5 DEF Approved
  <2>2. \E armed \in 1 .. g - 1 :
           q[armed] # None /\ q[armed].kind = "dispatch_task" /\ InTime(q, armed, g)
    BY <1>2, <2>1
  <2> QED BY <1>5, <2>2 DEF Approved
<1>6. CASE r.kind \notin {"dispatch", "dispatchIntent"}
  BY <1>6 DEF Approved
<1> QED BY <1>4, <1>5, <1>6

\* Generations that pass by leave the reasons what they were.
LEMMA LaterStillJustified ==
    ASSUME NEW m \in Nat, NEW n \in Nat, m <= n, NEW p, NEW s, Justified(s, p, m),
           \A k \in m + 1 .. n : PassesBy(p[k])
    PROVE  Justified(s, p, n)
<1>1. \A k \in m + 1 .. n : PassesByDictation(p[k])
  BY DEF PassesByDictation
<1>2. \A g \in 1 .. m : g \in 1 .. n /\ \A k \in g + 1 .. n : k \in g + 1 .. m \/ k \in m + 1 .. n
  OBVIOUS
<1>3. ASSUME NEW a, ArmedBy(p, m, a) PROVE ArmedBy(p, n, a)
  BY <1>2, <1>3 DEF ArmedBy
<1>4. ASSUME NEW d, DispatchBy(p, m, d) PROVE DispatchBy(p, n, d)
  BY <1>2, <1>4 DEF DispatchBy
<1>5. ASSUME NEW d, DraftBy(p, m, d) PROVE DraftBy(p, n, d)
  <2>1. PICK g \in 1 .. m :
        /\ p[g] # None /\ p[g].kind = "dictate" /\ p[g].item = d.item /\ p[g].action = d.action
        /\ \A k \in g + 1 .. m : PassesByDictation(p[k])
        /\ d.body => \E b \in g + 1 .. m : p[b] # None /\ p[b].kind = "dictation_body"
    BY <1>5 DEF DraftBy
  <2>2. \A k \in g + 1 .. n : PassesByDictation(p[k])
    BY <1>1, <1>2, <2>1
  <2>3. g + 1 .. m \subseteq g + 1 .. n
    OBVIOUS
  <2>4. d.body => \E b \in g + 1 .. n : p[b] # None /\ p[b].kind = "dictation_body"
    BY <2>1, <2>3
  <2> QED BY <1>2, <2>1, <2>2, <2>4 DEF DraftBy
<1> QED BY <1>3, <1>4, <1>5 DEF Justified

\* What the handler of generation g makes of intent i, and what that does to
\* the session, has its reasons in the history with i at g.
LEMMA ReduceSound ==
    ASSUME NEW s0 \in Fields, OneMode(s0), NEW i, Fits(i, s0), NEW t \in Nat, NEW f \in BOOLEAN,
           NEW g \in Nat \ {0}, NEW p, Justified(s0, p, g - 1),
           p[g] # None, p[g].kind = i.kind, p[g].item = i.item, p[g].action = i.action,
           p[g].free = f, p[g].at = t
    PROVE  LET r == reduce(s0, i, t, f)
           IN  Justified(r.next, p, g) /\ Approved(r.effect, p, g)
<1> DEFINE r == reduce(s0, i, t, f)
           s == Current(s0, t)
<1>1. /\ s \in Fields /\ OneMode(s) /\ s.dictating = s0.dictating
      /\ s.confirm # None => s.confirm = s0.confirm /\ t - s0.confirm.at <= ConfirmTtl
      /\ s.dispatch # None => s.dispatch = s0.dispatch /\ t - s0.dispatch.at <= ConfirmTtl
  BY CurrentSession
<1>2. i.kind \in {"action", "dictate", "confirm", "dictation_body", "post", "dispatch_task",
                  "confirm_dispatch", "cancel", "navigate", "no_match"}
  BY DEF Fits, Meanings
<1>3. /\ i.kind = "action" => r = OnAction(s, i, t, f)
      /\ i.kind = "confirm" => r = OnConfirm(s, i)
      /\ i.kind = "dictate" => r = OnDictate(s, i)
      /\ i.kind = "dictation_body" => r = OnBody(s)
      /\ i.kind = "post" => r = OnPost(s, t)
      /\ i.kind = "dispatch_task" => r = OnDispatchTask(t)
      /\ i.kind = "confirm_dispatch" => r = OnConfirmDispatch(s)
      /\ i.kind = "cancel" => r = OnCancel
      /\ i.kind = "navigate" => r = OnNavigate(s)
      /\ i.kind = "no_match" => r = NotUnderstood(s)
  BY ReduceBy
<1> HIDE DEF s, r
<1>4. Justified(s, p, g - 1)
  BY <1>1 DEF Justified
<1>5. \A x, e : Step(x, e).next = x /\ Step(x, e).effect = e
  BY DEF Step
<1>6. \A k, item, action : /\ Effect(k, item, action).kind = k
                           /\ Effect(k, item, action).item = item
                           /\ Effect(k, item, action).action = action
  BY DEF Effect
<1>7. \A e : e.kind \notin {"dispatch", "dispatchIntent"} => Approved(e, p, g)
  BY DEF Approved
<1>8. \A x : NotUnderstood(x).next = x /\ Approved(NotUnderstood(x).effect, p, g)
  BY <1>5, <1>6, <1>7 DEF NotUnderstood
<1>9. \A x : x.confirm = None /\ x.dispatch = None /\ x.dictating = None => Justified(x, p, g)
  BY DEF Justified
<1>10. g \in 1 .. g /\ g + 1 .. g = {} /\ \A k : k \in g - 1 + 1 .. g <=> k = g
  OBVIOUS
<1>11. DOMAIN s = {"confirm", "dictating", "dispatch"}
  BY <1>1 DEF Fields
<1>12. /\ Empty.confirm = None /\ Empty.dispatch = None /\ Empty.dictating = None
       /\ DOMAIN Empty = {"confirm", "dictating", "dispatch"}
       /\ Disarmed(s).confirm = None /\ Disarmed(s).dispatch = None
       /\ Disarmed(s).dictating = s.dictating /\ DOMAIN Disarmed(s) = DOMAIN s
  BY <1>11 DEF Empty, Disarmed
\* Armed by this very utterance.
<1>13. ASSUME NEW x, DOMAIN x = DOMAIN s, x.dispatch = None, x.dictating = None,
              NEW item, NEW action, NEW body, Arms(p, g, item, action)
       PROVE  LET y == Armed(x, item, action, body, t)
              IN  Justified(y.next, p, g) /\ Approved(y.effect, p, g)
  <2> DEFINE a == [item |-> item, action |-> action, body |-> body, at |-> t]
             y == Armed(x, item, action, body, t)
  <2>1. y = Step([x EXCEPT !.confirm = a], Effect("armed", item, action))
    BY DEF Armed
  <2>2. ArmedBy(p, g, a)
    BY <1>10, <1>13 DEF ArmedBy
  <2> HIDE DEF a, y
  <2>3. y.next.confirm = a /\ y.next.dispatch = None /\ y.next.dictating = None
    BY <1>5, <1>11, <1>13, <2>1
  <2>4. Approved(y.effect, p, g)
    BY <1>5, <1>6, <1>7, <2>1
  <2> QED BY <2>2, <2>3, <2>4 DEF Justified, y
<1>14. CASE i.kind = "action"
  <2>1. s.dictating = None
    BY <1>1, <1>14 DEF Fits
  <2>2. CASE NeedsConfirmation(i.action, f)
    <3>1. r = Armed(Disarmed(s), i.item, i.action, FALSE, t)
      BY <1>3, <1>14, <2>2 DEF OnAction
    <3>2. Arms(p, g, i.item, i.action)
      BY <1>14 DEF Arms
    <3> QED BY <1>12, <1>13, <2>1, <3>1, <3>2 DEF r
  <2>3. CASE ~ NeedsConfirmation(i.action, f)
    <3>1. r = Step(Disarmed(s), Effect("dispatch", i.item, i.action))
      BY <1>3, <1>14, <2>3 DEF OnAction
    <3>2. r.effect.kind = "dispatch" /\ r.effect.action = i.action /\ r.next = Disarmed(s)
      BY <1>5, <1>6, <3>1
    <3>3. p[g].kind = "action" /\ i.action \notin Confirming /\ ~ (p[g].free /\ ElevateFreeform)
      BY <1>14, <2>3 DEF NeedsConfirmation
    <3>4. Approved(r.effect, p, g)
      BY <3>2, <3>3 DEF Approved
    <3> QED BY <1>9, <1>12, <2>1, <3>2, <3>4 DEF r
  <2> QED BY <2>2, <2>3
<1>15. CASE i.kind = "confirm"
  <2>1. s.dictating = None /\ i.item = s0.confirm.item /\ i.action = s0.confirm.action
        /\ s0.confirm # None
    BY <1>1, <1>15 DEF Fits
  <2>2. CASE s.confirm # None /\ s.confirm.item = i.item /\ s.confirm.action = i.action
    <3>1. r = Step([s EXCEPT !.confirm = None], Effect("dispatch", i.item, i.action))
      BY <1>3, <1>15, <2>2 DEF OnConfirm
    <3>2. s.dispatch = None
      BY <1>1, <2>2 DEF OneMode
    <3>3. /\ r.effect.kind = "dispatch" /\ r.effect.item = i.item /\ r.effect.action = i.action
          /\ r.next.confirm = None /\ r.next.dispatch = None /\ r.next.dictating = None
      BY <1>5, <1>6, <1>11, <2>1, <3>1, <3>2
    <3>4. PICK a \in 1 .. g - 1 : /\ Arms(p, a, i.item, i.action) /\ p[a].at = s.confirm.at
                                  /\ \A k \in a + 1 .. g - 1 : PassesBy(p[k])
      BY <1>4, <2>2 DEF Justified, ArmedBy
    <3>5. InTime(p, a, g)
      BY <1>1, <2>2, <3>4 DEF InTime
    <3>6. Approved(r.effect, p, g)
      BY <1>15, <3>3, <3>4, <3>5 DEF Approved
    <3> QED BY <1>9, <3>3, <3>6 DEF r
  <2>3. CASE ~ (s.confirm # None /\ s.confirm.item = i.item /\ s.confirm.action = i.action)
    <3>1. r = NotUnderstood([s EXCEPT !.confirm = None])
      BY <1>3, <1>15, <2>3 DEF OnConfirm
    <3>2. r.next.confirm = None /\ r.next.dictating = None /\ r.next.dispatch = s.dispatch
          /\ Approved(r.effect, p, g)
      BY <1>8, <1>11, <2>1, <3>1
    <3>3. s.confirm = None
      BY <1>1, <2>1, <2>3
    <3>4. s.dispatch = None
      BY <2>1, <3>3 DEF OneMode, Current, Unexpired, Fields, s
    <3> QED BY <1>9, <3>2, <3>4 DEF r
  <2> QED BY <2>2, <2>3
<1>16. CASE i.kind = "dictate"
  <2> DEFINE d == [item |-> i.item, action |-> i.action, body |-> FALSE]
  <2>1. r = Step([Disarmed(s) EXCEPT !.dictating = d], Effect("dictation_prompt", i.item, i.action))
    BY <1>3, <1>16 DEF OnDictate
  <2>2. DraftBy(p, g, d)
    BY <1>10, <1>16 DEF DraftBy
  <2> HIDE DEF d
  <2>3. r.next.confirm = None /\ r.next.dispatch = None /\ r.next.dictating = d
    BY <1>5, <1>11, <1>12, <2>1
  <2>4. Approved(r.effect, p, g)
    BY <1>5, <1>6, <1>7, <2>1
  <2> QED BY <2>2, <2>3, <2>4 DEF Justified, r
<1>17. CASE i.kind = "dictation_body"
  <2>1. s.dictating # None /\ s.confirm = None /\ s.dispatch = None /\ s.dictating \in Draft
    BY <1>1, <1>17 DEF Fits, OneMode, Fields
  <2>2. r = Step([s EXCEPT !.dictating.body = TRUE],
                 Effect("dictation_readback", s.dictating.item, s.dictating.action))
    BY <1>3, <1>17, <2>1 DEF OnBody
  <2>3. /\ r.next.confirm = None /\ r.next.dispatch = None
        /\ r.next.dictating = [s.dictating EXCEPT !.body = TRUE]
    <3>1. r.next = [s EXCEPT !.dictating.body = TRUE]
      BY <1>5, <2>2
    <3> QED BY <1>11, <2>1, <3>1
  <2>4. Approved(r.effect, p, g)
    BY <1>5, <1>6, <1>7, <2>2
  <2>5. PICK o \in 1 .. g - 1 :
           /\ p[o] # None /\ p[o].kind = "dictate" /\ p[o].item = s.dictating.item
           /\ p[o].action = s.dictating.action
           /\ \A k \in o + 1 .. g - 1 : PassesByDictation(p[k])
    BY <1>4, <2>1 DEF Justified, DraftBy
  <2>6. \A k \in o + 1 .. g : PassesByDictation(p[k])
    <3>1. \A k \in o + 1 .. g : k \in o + 1 .. g - 1 \/ k = g
      OBVIOUS
    <3> QED BY <1>17, <2>5, <3>1 DEF PassesByDictation
  <2>7. g \in o + 1 .. g /\ o \in 1 .. g
    OBVIOUS
  <2>8. DraftBy(p, g, r.next.dictating)
    <3>1. r.next.dictating.item = s.dictating.item /\ r.next.dictating.action = s.dictating.action
      BY <2>1, <2>3 DEF Draft
    <3> QED BY <1>17, <2>5, <2>6, <2>7, <3>1 DEF DraftBy
  <2> QED BY <2>3, <2>4, <2>8 DEF Justified, r
<1>18. CASE i.kind = "post"
  <2>1. s.dictating # None /\ s.confirm = None /\ s.dispatch = None /\ s.dictating \in Draft
    BY <1>1, <1>18 DEF Fits, OneMode, Fields
  <2> DEFINE d == s.dictating
  <2>2. PICK o \in 1 .. g - 1 :
           /\ p[o] # None /\ p[o].kind = "dictate" /\ p[o].item = d.item /\ p[o].action = d.action
           /\ \A k \in o + 1 .. g - 1 : PassesByDictation(p[k])
           /\ d.body => \E b \in o + 1 .. g - 1 : p[b] # None /\ p[b].kind = "dictation_body"
    BY <1>4, <2>1 DEF Justified, DraftBy
  <2>3. CASE ~ d.body
    <3>1. r = NotUnderstood([s EXCEPT !.confirm = None])
      BY <1>3, <1>18, <2>1, <2>3 DEF OnPost
    <3>2. r.next.confirm = None /\ r.next.dispatch = None /\ r.next.dictating = d
          /\ Approved(r.effect, p, g)
      BY <1>8, <1>11, <2>1, <3>1
    <3>3. \A k \in o + 1 .. g : PassesByDictation(p[k])
      <4>1. \A k \in o + 1 .. g : k \in o + 1 .. g - 1 \/ k = g
        OBVIOUS
      <4> QED BY <1>18, <2>2, <4>1 DEF PassesByDictation
    <3>4. DraftBy(p, g, d)
      <4>1. o \in 1 .. g
        OBVIOUS
      <4> QED BY <2>2, <2>3, <3>3, <4>1 DEF DraftBy
    <3> QED BY <3>2, <3>4 DEF Justified, r
  <2>4. CASE d.body
    <3>1. ReadBack(p, g, d.item, d.action)
      <4>1. PICK b \in o + 1 .. g - 1 : p[b] # None /\ p[b].kind = "dictation_body"
        BY <2>2, <2>4
      <4>2. b \in 1 .. g - 1 /\ o < b
        OBVIOUS
      <4> QED BY <2>2, <4>1, <4>2 DEF ReadBack
    <3>2. CASE NeedsConfirmation(d.action, FALSE)
      <4>1. r = Armed(Empty, d.item, d.action, TRUE, t)
        BY <1>3, <1>18, <2>1, <2>4, <3>2 DEF OnPost
      <4>2. Arms(p, g, d.item, d.action)
        BY <1>18, <3>1 DEF Arms
      <4> QED BY <1>11, <1>12, <1>13, <4>1, <4>2 DEF r
    <3>3. CASE ~ NeedsConfirmation(d.action, FALSE)
      <4>1. r = Step([Disarmed(s) EXCEPT !.dictating = None], Effect("dispatch", d.item, d.action))
        BY <1>3, <1>18, <2>1, <2>4, <3>3 DEF OnPost
      <4>2. /\ r.effect.kind = "dispatch" /\ r.effect.item = d.item /\ r.effect.action = d.action
            /\ r.next.confirm = None /\ r.next.dispatch = None /\ r.next.dictating = None
        BY <1>5, <1>6, <1>11, <1>12, <4>1
      <4>3. d.action \notin Confirming
        BY <3>3 DEF NeedsConfirmation
      <4>4. Approved(r.effect, p, g)
        BY <1>18, <3>1, <4>2, <4>3 DEF Approved
      <4> QED BY <1>9, <4>2, <4>4 DEF r
    <3> QED BY <3>2, <3>3
  <2> QED BY <2>3, <2>4
<1>19. CASE i.kind = "dispatch_task"
  <2> DEFINE d == [at |-> t]
  <2>1. r = Step([Empty EXCEPT !.dispatch = d], Effect("armedDispatch", None, None))
    BY <1>3, <1>19 DEF OnDispatchTask
  <2>2. DispatchBy(p, g, d)
    BY <1>10, <1>19 DEF DispatchBy
  <2> HIDE DEF d
  <2>3. r.next.confirm = None /\ r.next.dispatch = d /\ r.next.dictating = None
    BY <1>5, <1>12, <2>1
  <2>4. Approved(r.effect, p, g)
    BY <1>5, <1>6, <1>7, <2>1
  <2> QED BY <2>2, <2>3, <2>4 DEF Justified, r
<1>20. CASE i.kind = "confirm_dispatch"
  <2>1. s0.dispatch # None /\ s0.confirm = None /\ s0.dictating = None
    BY <1>20 DEF Fits, OneMode
  <2>2. s.confirm = None /\ s.dictating = None
    BY <1>1, <2>1
  <2>3. CASE s.dispatch # None
    <3>1. r = Step([s EXCEPT !.dispatch = None], Effect("dispatchIntent", None, None))
      BY <1>3, <1>20, <2>3 DEF OnConfirmDispatch
    <3>2. /\ r.effect.kind = "dispatchIntent"
          /\ r.next.confirm = None /\ r.next.dispatch = None /\ r.next.dictating = None
      BY <1>5, <1>6, <1>11, <2>2, <3>1
    <3>3. PICK a \in 1 .. g - 1 :
             /\ p[a] # None /\ p[a].kind = "dispatch_task" /\ p[a].at = s.dispatch.at
             /\ \A k \in a + 1 .. g - 1 : PassesBy(p[k])
      BY <1>4, <2>3 DEF Justified, DispatchBy
    <3>4. InTime(p, a, g)
      BY <1>1, <2>3, <3>3 DEF InTime
    <3>5. Approved(r.effect, p, g)
      BY <3>2, <3>3, <3>4 DEF Approved
    <3> QED BY <1>9, <3>2, <3>5 DEF r
  <2>4. CASE s.dispatch = None
    <3>1. r = NotUnderstood([s EXCEPT !.dispatch = None])
      BY <1>3, <1>20, <2>4 DEF OnConfirmDispatch
    <3>2. /\ r.next.confirm = None /\ r.next.dispatch = None /\ r.next.dictating = None
          /\ Approved(r.effect, p, g)
      BY <1>8, <1>11, <2>2, <3>1
    <3> QED BY <1>9, <3>2 DEF r
  <2> QED BY <2>3, <2>4
<1>21. CASE i.kind = "cancel"
  <2>1. r.next = Empty /\ r.effect.kind = "cancelled"
    BY <1>3, <1>5, <1>6, <1>21 DEF OnCancel
  <2> QED BY <1>7, <1>9, <1>12, <2>1 DEF r
<1>22. CASE i.kind = "navigate"
  <2>1. s.dictating = None
    BY <1>1, <1>22 DEF Fits
  <2>2. r.next = Disarmed(s) /\ r.effect.kind = "navigate"
    BY <1>3, <1>5, <1>6, <1>22 DEF OnNavigate
  <2> QED BY <1>7, <1>9, <1>12, <2>1, <2>2 DEF r
<1>23. CASE i.kind = "no_match"
  <2>1. r = NotUnderstood(s)
    BY <1>3, <1>23
  <2>2. \A k \in g - 1 + 1 .. g : PassesBy(p[k])
    BY <1>10, <1>23 DEF PassesBy
  <2>3. Justified(s, p, g)
    BY <1>4, <2>2, LaterStillJustified
  <2> QED BY <1>8, <2>1, <2>3 DEF r
<1> QED BY <1>2, <1>14, <1>15, <1>16, <1>17, <1>18, <1>19, <1>20, <1>21, <1>22, <1>23

-----------------------------------------------------------------------------
(* The order of the sessions.                                              *)

StoredLast(nw, live, c) == [x \in Clients |-> IF x = c THEN {} ELSE (nw[x] \cap live) \cup {c}]

Fitting(live, after) == {x \in live : Cardinality(after[x]) < MaxSessions}

Among(kept, after) == [x \in Clients |-> IF x \in kept THEN after[x] \cap kept ELSE {}]

\* Sessions that go leave the others in their order.
LEMMA SubsetIsOrdered ==
    ASSUME NEW R \in SUBSET Clients, NEW after \in [Clients -> SUBSET Clients],
           Ordered(R, after), NEW K \in SUBSET R
    PROVE  Ordered(K, Among(K, after))
<1>1. IsFiniteSet(K) /\ Cardinality(K) <= Cardinality(R) /\ Cardinality(K) \in Nat
      /\ Cardinality(R) \in Nat
  BY FS_Subset, FS_CardinalityType DEF Ordered
<1>2. Cardinality(K) <= MaxSessions
  BY <1>1, SizeAssumption DEF Ordered
<1> DEFINE nw == [x \in Clients |-> IF x \in K THEN after[x] \cap K ELSE {}]
<1>3. \A x \in Clients : nw[x] = IF x \in K THEN after[x] \cap K ELSE {}
  OBVIOUS
<1> HIDE DEF nw
<1>4. K \subseteq Clients
  OBVIOUS
<1>5. \A x \in Clients : nw[x] \subseteq K /\ x \notin nw[x]
  BY <1>3 DEF Ordered
<1>6. \A x, y \in K : x # y => x \in nw[y] \/ y \in nw[x]
  BY <1>3, <1>4 DEF Ordered
<1>7. \A x, y \in K : y \in nw[x] => nw[y] \subseteq nw[x]
  BY <1>3, <1>4 DEF Ordered
<1> QED BY <1>1, <1>2, <1>5, <1>6, <1>7 DEF Ordered, Among, nw

\* storeSession puts c last and keeps as many as fit, c among them: no two
\* have the same number of sessions after them.
LEMMA StoreIsOrdered ==
    ASSUME NEW R \in SUBSET Clients, NEW nw \in [Clients -> SUBSET Clients],
           Ordered(R, nw), NEW F \in SUBSET R, NEW c \in Clients
    PROVE  LET live == F \cup {c}
               after == StoredLast(nw, live, c)
               kept == Fitting(live, after)
           IN  c \in kept /\ kept \subseteq live /\ Ordered(kept, Among(kept, after))
<1> DEFINE live == F \cup {c}
           after == [x \in Clients |-> IF x = c THEN {} ELSE (nw[x] \cap live) \cup {c}]
           kept == {x \in live : Cardinality(after[x]) < MaxSessions}
<1>1. live \subseteq Clients /\ IsFiniteSet(live)
  BY FS_Subset, FS_AddElement DEF Ordered
<1>2. \A x \in Clients : after[x] = IF x = c THEN {} ELSE (nw[x] \cap live) \cup {c}
  OBVIOUS
<1>3. \A x : x \in live => x = c \/ x \in R
  OBVIOUS
<1>4. c \in live
  OBVIOUS
<1>5. after \in [Clients -> SUBSET Clients]
  OBVIOUS
<1> HIDE DEF live, after
<1>20. \A x \in Clients : x \notin nw[x]
  BY DEF Ordered
<1>21. \A x, y \in R : y \in nw[x] => nw[y] \subseteq nw[x]
  BY DEF Ordered
<1>6. \A x \in Clients : after[x] \subseteq live /\ x \notin after[x]
  <2>1. SUFFICES ASSUME NEW x \in Clients PROVE after[x] \subseteq live /\ x \notin after[x]
    OBVIOUS
  <2>2. CASE x = c
    BY <1>2, <2>2
  <2>3. CASE x # c
    <3>1. after[x] = (nw[x] \cap live) \cup {c} /\ x \notin nw[x]
      BY <1>2, <1>20, <2>3
    <3> QED BY <1>4, <2>3, <3>1
  <2> QED BY <2>2, <2>3
<1>7. \A x, y \in live : x # y => x \in after[y] \/ y \in after[x]
  BY <1>1, <1>2, <1>3, <1>4 DEF Ordered
<1>8. \A x, y \in live : y \in after[x] => after[y] \subseteq after[x]
  <2>1. SUFFICES ASSUME NEW x \in live, NEW y \in live, y \in after[x]
                 PROVE  after[y] \subseteq after[x]
    OBVIOUS
  <2>2. x \in Clients /\ y \in Clients /\ x # c
    BY <1>1, <1>2, <2>1
  <2>3. CASE y = c
    BY <1>2, <2>2, <2>3
  <2>4. CASE y # c
    <3>1. y \in nw[x] /\ x \in R /\ y \in R
      BY <1>2, <1>3, <2>1, <2>2, <2>4
    <3> QED BY <1>2, <1>21, <2>2, <2>4, <3>1
  <2> QED BY <2>3, <2>4
<1>9. \A x \in live : IsFiniteSet(after[x]) /\ Cardinality(after[x]) \in Nat
  BY <1>1, <1>6, FS_Subset, FS_CardinalityType
<1>10. \A x, y \in live : y \in after[x] => Cardinality(after[y]) # Cardinality(after[x])
  <2>1. ASSUME NEW x \in live, NEW y \in live, y \in after[x],
               Cardinality(after[y]) = Cardinality(after[x])
        PROVE  FALSE
    <3>1. after[y] \subseteq after[x] /\ y \notin after[y]
      BY <1>1, <1>6, <1>8, <2>1
    <3>2. after[y] = after[x]
      BY <1>9, <2>1, <3>1, FS_Subset
    <3> QED BY <2>1, <3>1, <3>2
  <2> QED BY <2>1
<1>11. \A x, y \in live : Cardinality(after[x]) = Cardinality(after[y]) => x = y
  BY <1>7, <1>10
<1>12. c \in kept
  <2>1. after[c] = {}
    BY <1>2
  <2>2. Cardinality(after[c]) = 0 /\ 0 < MaxSessions
    BY <2>1, FS_EmptySet, SizeAssumption
  <2> QED BY <1>4, <2>2
<1>13. IsFiniteSet(kept) /\ Cardinality(kept) <= MaxSessions
  <2> DEFINE T == 0 .. MaxSessions - 1
             f == [x \in kept |-> Cardinality(after[x])]
  <2>1. \A x \in kept : f[x] \in T
    BY <1>9, SizeAssumption
  <2>2. \A x, y \in kept : f[x] = f[y] => x = y
    BY <1>11
  <2>3. f \in Injection(kept, T)
    <3> HIDE DEF kept
    <3>1. f \in [kept -> T]
      BY <2>1
    <3> HIDE DEF f
    <3> QED BY <2>2, <3>1 DEF Injection, IsInjective
  <2>4. IsFiniteSet(T) /\ Cardinality(T) = MaxSessions
    BY FS_Interval, SizeAssumption
  <2> HIDE DEF f, T, kept
  <2> QED BY <2>3, <2>4, FS_Injection
<1>14. kept \subseteq live /\ kept \subseteq Clients
  BY <1>1
<1> HIDE DEF kept
<1> DEFINE n2 == [x \in Clients |-> IF x \in kept THEN after[x] \cap kept ELSE {}]
<1>15. \A x \in Clients : n2[x] = IF x \in kept THEN after[x] \cap kept ELSE {}
  OBVIOUS
<1> HIDE DEF n2
<1>16. \A x \in Clients : n2[x] \subseteq kept /\ x \notin n2[x]
  BY <1>6, <1>15
<1>17. \A x, y \in kept : x # y => x \in n2[y] \/ y \in n2[x]
  BY <1>7, <1>14, <1>15
<1>18. \A x, y \in kept : y \in n2[x] => n2[y] \subseteq n2[x]
  BY <1>8, <1>14, <1>15
<1>19. Ordered(kept, n2)
  BY <1>13, <1>16, <1>17, <1>18 DEF Ordered
<1> QED BY <1>12, <1>14, <1>19 DEF n2, kept, after, live, StoredLast, Fitting, Among

-----------------------------------------------------------------------------
(* What an update of the sessions leaves.                                  *)

LEMMA GenerationsAre ==
    ASSUME NEW c \in Clients
    PROVE  /\ Generations(c) = 1 .. Len(Says[c]) /\ Len(Says[c]) \in Nat
           /\ \A g \in Generations(c) : g \in Nat /\ g > 0 /\ Says[c][g] \subseteq Utterance
BY SaysAssumption DEF Generations

Reborn(c, h) == handler[h].stage = "idle" /\ ~ Fresh(c)

\* The clients whose past is lost when those in kept keep their sessions.
Lost(c, h, kept) == (Clients \ kept) \cup (IF Reborn(c, h) THEN {c} ELSE {})

Past(x, lost) == IF x \in lost THEN [g \in Generations(x) |-> None] ELSE took[x]

\* The session of c becomes e, h's request was taken to mean t, the handlers
\* become hs but for those whose client's past is lost.
Updated(c, e, h, hs, t, kept) ==
    /\ c \in kept /\ kept \subseteq Retained \cup {c} /\ kept \subseteq Clients
    /\ newer' \in [Clients -> SUBSET Clients] /\ Ordered(kept, newer')
    /\ entry' = [x \in Clients |-> IF x \notin kept THEN NoEntry ELSE IF x = c THEN e ELSE entry[x]]
    /\ handler' = [x \in Handlers |->
           [hs[x] EXCEPT !.retained = @ /\ handler[x].client \notin Lost(c, h, kept)]]
    /\ took' = [x \in Clients |->
           IF x = c /\ t # None THEN [Past(x, Lost(c, h, kept)) EXCEPT ![hs[h].generation] = t]
           ELSE Past(x, Lost(c, h, kept))]

LEMMA StoreUpdates ==
    ASSUME GatewayTypeOK, OrderOK, NEW c \in Clients, NEW e, NEW h \in Handlers, NEW hs, NEW t,
           Store(c, e, h, hs, t)
    PROVE  \E kept : Updated(c, e, h, hs, t, kept)
<1> DEFINE live == Live \cup {c}
           after == StoredLast(newer, live, c)
           kept == Fitting(live, after)
<1>1. Live \in SUBSET Retained /\ Retained \in SUBSET Clients
  BY DEF Live, Fresh, Retained
<1>2. newer \in [Clients -> SUBSET Clients]
  BY DEF GatewayTypeOK
<1>3. c \in kept /\ kept \subseteq live /\ Ordered(kept, Among(kept, after))
  BY <1>1, <1>2, StoreIsOrdered DEF OrderOK
<1>4. kept \subseteq Retained \cup {c} /\ kept \subseteq Clients
  BY <1>1, <1>3
<1>5. Update(c, e, h, hs, t, kept, after)
  BY DEF Store, StoredLast, Fitting
<1> HIDE DEF kept, after, live
<1>6. newer' = Among(kept, after)
  BY <1>5 DEF Update, Among
<1>7. newer' \in [Clients -> SUBSET Clients]
  BY <1>4, <1>6 DEF Among
<1>8. /\ entry' = [x \in Clients |-> IF x \notin kept THEN NoEntry ELSE IF x = c THEN e ELSE entry[x]]
      /\ handler' = [x \in Handlers |->
           [hs[x] EXCEPT !.retained = @ /\ handler[x].client \notin Lost(c, h, kept)]]
      /\ took' = [x \in Clients |->
           IF x = c /\ t # None THEN [Past(x, Lost(c, h, kept)) EXCEPT ![hs[h].generation] = t]
           ELSE Past(x, Lost(c, h, kept))]
  BY <1>5 DEF Update, Lost, Past, Reborn
<1>9. Updated(c, e, h, hs, t, kept)
  BY <1>3, <1>4, <1>6, <1>7, <1>8 DEF Updated
<1> QED BY <1>9

LEMMA OvertakenUpdates ==
    ASSUME GatewayTypeOK, OrderOK, NEW c \in Clients, Fresh(c), NEW h \in Handlers, NEW g,
           Overtaken(h, c, g)
    PROVE  \E kept : Updated(c, entry[c], h,
                             With(h, Answered([Idle EXCEPT !.client = c, !.generation = g,
                                                           !.retained = TRUE], Cancelled)),
                             None, kept)
<1> DEFINE hs == With(h, Answered([Idle EXCEPT !.client = c, !.generation = g, !.retained = TRUE],
                                  Cancelled))
<1>1. Live \in SUBSET Retained /\ Retained \in SUBSET Clients /\ c \in Live
  BY DEF Live, Fresh, Retained
<1>2. newer \in [Clients -> SUBSET Clients]
  BY DEF GatewayTypeOK
<1>3. Update(c, entry[c], h, hs, None, Live, newer)
  BY DEF Overtaken
<1> HIDE DEF hs
<1>4. newer' = Among(Live, newer)
  BY <1>3 DEF Update, Among
<1>5. Ordered(Live, newer')
  BY <1>1, <1>2, <1>4, SubsetIsOrdered DEF OrderOK
<1>6. newer' \in [Clients -> SUBSET Clients]
  BY <1>1, <1>2, <1>4 DEF Among
<1>7. /\ entry' = [x \in Clients |-> IF x \notin Live THEN NoEntry ELSE IF x = c THEN entry[c] ELSE entry[x]]
      /\ handler' = [x \in Handlers |->
           [hs[x] EXCEPT !.retained = @ /\ handler[x].client \notin Lost(c, h, Live)]]
      /\ took' = [x \in Clients |->
           IF x = c /\ None # None THEN [Past(x, Lost(c, h, Live)) EXCEPT ![hs[h].generation] = None]
           ELSE Past(x, Lost(c, h, Live))]
  BY <1>3 DEF Update, Lost, Past, Reborn
<1>8. Updated(c, entry[c], h, hs, None, Live)
  BY <1>1, <1>5, <1>6, <1>7 DEF Updated
<1> QED BY <1>8 DEF hs

\* The same, field by field.
LEMMA UpdatedFields ==
    ASSUME GatewayTypeOK, EntriesOK, NEW c \in Clients, NEW e \in EntryType, e.generation > 0,
           NEW h \in Handlers, NEW hs \in [Handlers -> HandlerType], NEW t, NEW kept,
           Updated(c, e, h, hs, t, kept)
    PROVE  /\ Retained' = kept /\ c \in kept
           /\ entry' \in [Clients -> EntryType] /\ handler' \in [Handlers -> HandlerType]
           /\ entry'[c] = e
           /\ \A x \in kept \ {c} : x \in Retained /\ entry'[x] = entry[x] /\ took'[x] = took[x]
           /\ \A x \in Clients \ kept : entry'[x] = NoEntry
           /\ \A x \in Clients \ {c} : took'[x] = took[x] \/ took'[x] = [g \in Generations(x) |-> None]
           /\ \A x \in Clients \ kept : took'[x] = [g \in Generations(x) |-> None]
           /\ \A x \in Handlers :
                 /\ handler'[x].stage = hs[x].stage /\ handler'[x].client = hs[x].client
                 /\ handler'[x].generation = hs[x].generation /\ handler'[x].base = hs[x].base
                 /\ handler'[x].reply = hs[x].reply /\ handler'[x].awaits = hs[x].awaits
                 /\ handler'[x].ran <=> hs[x].ran
                 /\ handler'[x].retained <=>
                       hs[x].retained /\ handler[x].client \notin Lost(c, h, kept)
           /\ t = None => took'[c] = Past(c, Lost(c, h, kept))
           /\ t # None => took'[c] = [Past(c, Lost(c, h, kept)) EXCEPT ![hs[h].generation] = t]
<1>1. NoEntry \in EntryType /\ NoEntry.generation = 0
  BY SessionTtlAssumption DEF NoEntry, EntryType, Fields, Empty
<1>2. entry \in [Clients -> EntryType] /\ \A x \in EntryType : x.generation \in Nat
  BY DEF GatewayTypeOK, EntryType
<1>3. /\ c \in kept /\ kept \subseteq Retained \cup {c} /\ kept \subseteq Clients
      /\ entry' = [x \in Clients |-> IF x \notin kept THEN NoEntry ELSE IF x = c THEN e ELSE entry[x]]
      /\ handler' = [x \in Handlers |->
           [hs[x] EXCEPT !.retained = @ /\ handler[x].client \notin Lost(c, h, kept)]]
      /\ took' = [x \in Clients |->
           IF x = c /\ t # None THEN [Past(x, Lost(c, h, kept)) EXCEPT ![hs[h].generation] = t]
           ELSE Past(x, Lost(c, h, kept))]
  BY DEF Updated
<1>4. entry' \in [Clients -> EntryType]
  BY <1>1, <1>2, <1>3
<1>5. Retained' = kept
  <2>1. \A x \in Clients : entry'[x].generation > 0 <=> x \in kept
    BY <1>1, <1>2, <1>3 DEF Retained
  <2> QED BY <1>3, <2>1 DEF Retained
<1>6. /\ \A x \in kept \ {c} : x \in Retained /\ entry'[x] = entry[x] /\ took'[x] = took[x]
      /\ \A x \in Clients \ kept : entry'[x] = NoEntry
      /\ \A x \in Clients \ {c} : took'[x] = took[x] \/ took'[x] = [g \in Generations(x) |-> None]
      /\ \A x \in Clients \ kept : took'[x] = [g \in Generations(x) |-> None]
  BY <1>3 DEF Lost, Past
<1>7. ASSUME NEW x \in Handlers
      PROVE  /\ handler'[x] \in HandlerType
             /\ handler'[x].stage = hs[x].stage /\ handler'[x].client = hs[x].client
             /\ handler'[x].generation = hs[x].generation /\ handler'[x].base = hs[x].base
             /\ handler'[x].reply = hs[x].reply /\ handler'[x].awaits = hs[x].awaits
             /\ handler'[x].ran <=> hs[x].ran
             /\ handler'[x].retained <=>
                   hs[x].retained /\ handler[x].client \notin Lost(c, h, kept)
  <2>1. PICK y \in HandlerType : y = hs[x]
    OBVIOUS
  <2>2. PICK b \in BOOLEAN : b = (y.retained /\ handler[x].client \notin Lost(c, h, kept))
    OBVIOUS
  <2>3. handler'[x] = [y EXCEPT !.retained = b]
    BY <1>3, <2>1, <2>2
  <2>4. DOMAIN y = {"stage", "client", "generation", "base", "reply", "awaits", "ran", "retained"}
    BY DEF HandlerType
  <2>5. handler'[x] \in HandlerType
    BY <2>3 DEF HandlerType
  <2>6. /\ handler'[x].stage = y.stage /\ handler'[x].client = y.client
        /\ handler'[x].generation = y.generation /\ handler'[x].base = y.base
        /\ handler'[x].reply = y.reply /\ handler'[x].awaits = y.awaits
        /\ handler'[x].ran = y.ran /\ handler'[x].retained = b
    BY <2>3, <2>4
  <2> QED BY <2>1, <2>2, <2>5, <2>6
<1>8. handler' \in [Handlers -> HandlerType]
  BY <1>3, <1>7
<1>9. entry'[c] = e
  BY <1>3
<1>10. /\ t = None => took'[c] = Past(c, Lost(c, h, kept))
       /\ t # None => took'[c] = [Past(c, Lost(c, h, kept)) EXCEPT ![hs[h].generation] = t]
  BY <1>3
<1> QED BY <1>3, <1>4, <1>5, <1>6, <1>7, <1>8, <1>9, <1>10

-----------------------------------------------------------------------------
(* A request that is served: it arrives, or goes on to its reply.          *)

\* Another retained arrival of request g of c.
Peer(x, c, g, h) ==
    /\ x \in Handlers /\ x # h /\ handler[x].retained
    /\ handler[x].client = c /\ handler[x].generation = g /\ ~ Reborn(c, h)

\* What was known of c's requests, and is with what h's is taken to mean.
Own(c, h) == IF Reborn(c, h) THEN [k \in Generations(c) |-> None] ELSE took[c]
Known(c, h, g, t) == IF t = None THEN Own(c, h) ELSE [Own(c, h) EXCEPT ![g] = t]

\* h becomes q and the entry of its client e.
Shapes(e, h, q, t) ==
    /\ e \in EntryType /\ q \in HandlerType /\ t \in Taken \cup {None}
    /\ q.client \in Clients /\ h \in Handlers /\ q.stage # "idle"
    /\ q.generation \in Generations(q.client) /\ e.generation \in Generations(q.client)
    /\ OneMode(e.session) /\ OneMode(q.base)
    /\ e.result = None \/ e.inFlight = None
    /\ q.retained => q.generation <= e.generation
    /\ Reborn(q.client, h) \/ (q.client \in Retained /\ entry[q.client].generation <= e.generation)
    /\ \/ handler[h] = Idle /\ q.retained
       \/ /\ Runs(handler[h]) /\ Runs(q) /\ handler[h].client = q.client
          /\ handler[h].generation = q.generation /\ (handler[h].retained <=> q.retained)
    /\ q.awaits # None => q.stage = "joined"
    /\ q.stage = "joined" => ~ q.ran
    /\ q.stage = "interpreting" => q.base.dictating = None
    /\ q.stage \in {"hearing", "interpreting"} => ~ q.ran
    /\ q.stage \in {"replying", "answered"} => q.reply # None

Races(e, h, q) ==
    LET c == q.client  g == q.generation  n == e.generation
    IN  /\ Claims(q) => Runs(q)
        /\ q.retained /\ Claims(q) => \A x \in Handlers : Peer(x, c, g, h) =>
              ~ Claims(handler[x]) /\ (handler[x].stage = "answered" => handler[x].reply = Cancelled)
        /\ q.stage = "answered" => \A x \in Handlers : Peer(x, c, g, h) =>
              /\ Runs(handler[x]) => q.reply = Cancelled
              /\ handler[x].stage = "answered" =>
                    q.reply = handler[x].reply \/ Cancelled \in {q.reply, handler[x].reply}
        /\ q.stage = "answered" /\ g = n /\ e.result # None => q.reply \in {e.result, Cancelled}
        /\ e.result # None => \A x \in Handlers : Peer(x, c, n, h) /\ handler[x].stage = "answered" =>
              handler[x].reply \in {e.result, Cancelled}
        /\ \A x \in Handlers : Peer(x, c, n, h) /\ Runs(handler[x]) => e.inFlight = x
        /\ q.retained /\ Runs(q) /\ g = n => e.inFlight = h
        /\ e.inFlight # None =>
              \/ e.inFlight = h /\ Runs(q) /\ q.retained /\ g = n
              \/ Peer(e.inFlight, c, n, h) /\ Runs(handler[e.inFlight])
        /\ q.awaits # None => Peer(q.awaits, c, g, h) /\ Runs(handler[q.awaits])

Reasons(e, h, q, t) ==
    LET c == q.client  g == q.generation  n == e.generation  p == Known(c, h, g, t)
    IN  /\ t # None => q.ran /\ g = n /\ (~ q.retained => Orphaned(t))
        /\ t # None /\ t.kind = "cancel" => e.session = Empty
        /\ t = None => /\ ~ q.ran
                       /\ e.session = IF Reborn(c, h) THEN Empty ELSE entry[c].session
        /\ NoOrphans(p, n) => Justified(e.session, p, n)
        /\ q.retained /\ q.stage \in {"hearing", "interpreting"} /\ g = n /\ NoOrphans(p, g - 1)
           => Justified(q.base, p, g - 1)
        /\ q.ran /\ q.retained /\ NoOrphans(p, g) => Approved(q.reply, p, g)

Serves(e, h, q, t) == Shapes(e, h, q, t) /\ Races(e, h, q) /\ Reasons(e, h, q, t)

\* The utterances that are known stay so, and h's is one.
Spoken(q) ==
    /\ DOMAIN said' = Clients
    /\ \A c \in Clients : said'[c] \in [Generations(c) -> Utterance \cup {None}]
    /\ \A c \in Clients : \A g \in Generations(c) : said[c][g] # None => said'[c][g] # None
    /\ said'[q.client][q.generation] # None

\* What is served, field by field.
Served(e, h, q, t) ==
    /\ newer' \in [Clients -> SUBSET Clients] /\ Ordered(Retained', newer')
    /\ q.client \in Retained' /\ entry'[q.client] = e
    /\ entry' \in [Clients -> EntryType] /\ handler' \in [Handlers -> HandlerType]
    /\ \A x \in Retained' \ {q.client} : x \in Retained /\ entry'[x] = entry[x] /\ took'[x] = took[x]
    /\ \A x \in Clients \ Retained' :
          entry'[x] = NoEntry /\ took'[x] = [g \in Generations(x) |-> None]
    /\ took'[q.client] = Known(q.client, h, q.generation, t)
    /\ DOMAIN took' = Clients
    /\ /\ handler'[h].stage = q.stage /\ handler'[h].client = q.client
       /\ handler'[h].generation = q.generation /\ handler'[h].base = q.base
       /\ handler'[h].reply = q.reply /\ handler'[h].awaits = q.awaits
       /\ handler'[h].ran <=> q.ran
       /\ handler'[h].retained <=> q.retained
    /\ \A x \in Handlers \ {h} :
          /\ handler'[x].stage = handler[x].stage /\ handler'[x].client = handler[x].client
          /\ handler'[x].generation = handler[x].generation /\ handler'[x].base = handler[x].base
          /\ handler'[x].reply = handler[x].reply /\ handler'[x].awaits = handler[x].awaits
          /\ handler'[x].ran <=> handler[x].ran
          /\ handler'[x].retained <=>
                /\ handler[x].retained /\ handler[x].client \in Retained'
                /\ handler[x].client = q.client => ~ Reborn(q.client, h)

LEMMA ServedFields ==
    ASSUME GatewayTypeOK, EntriesOK, HandlersOK, NEW e, NEW h \in Handlers, NEW q, NEW t,
           Shapes(e, h, q, t),
           NEW kept, Updated(q.client, e, h, With(h, q), t, kept)
    PROVE  Served(e, h, q, t)
<1> DEFINE c == q.client
           lost == Lost(c, h, kept)
<1>1. /\ e \in EntryType /\ q \in HandlerType /\ c \in Clients /\ e.generation > 0
      /\ handler \in [Handlers -> HandlerType]
  BY GenerationsAre DEF Shapes, GatewayTypeOK
<1>2. /\ With(h, q) \in [Handlers -> HandlerType] /\ With(h, q)[h] = q
      /\ \A x \in Handlers \ {h} : With(h, q)[x] = handler[x]
  BY <1>1 DEF With
<1>3. c \in kept /\ kept \subseteq Clients /\ Ordered(kept, newer')
      /\ newer' \in [Clients -> SUBSET Clients] /\ DOMAIN took' = Clients
  BY DEF Updated
<1>4. c \in lost <=> Reborn(c, h)
  BY <1>3 DEF Lost
<1>5. Past(c, lost) = Own(c, h)
  BY <1>4 DEF Past, Own
<1>6. handler[h].client \notin lost
  <2>1. lost \subseteq Clients
    BY <1>1 DEF Lost
  <2>2. CASE handler[h] = Idle
    BY <2>1, <2>2, NoneIsNothing DEF Idle
  <2>3. CASE Runs(handler[h]) /\ handler[h].client = c
    <3>1. ~ Reborn(c, h)
      BY <2>3 DEF Runs, Reborn
    <3> QED BY <1>4, <2>3, <3>1
  <2> QED BY <2>2, <2>3 DEF Shapes
<1>7. ASSUME NEW x \in Handlers, handler[x].retained
      PROVE  handler[x].client \notin lost <=>
                handler[x].client \in kept /\ (handler[x].client = c => ~ Reborn(c, h))
  <2>1. handler[x].client \in Clients
    BY <1>7 DEF HandlersOK
  <2> QED BY <2>1, <1>3 DEF Lost
<1> HIDE DEF c
<1>8. /\ Retained' = kept /\ c \in kept
      /\ entry' \in [Clients -> EntryType] /\ handler' \in [Handlers -> HandlerType]
      /\ entry'[c] = e
      /\ \A x \in kept \ {c} : x \in Retained /\ entry'[x] = entry[x] /\ took'[x] = took[x]
      /\ \A x \in Clients \ kept : entry'[x] = NoEntry
      /\ \A x \in Clients \ kept : took'[x] = [g \in Generations(x) |-> None]
      /\ \A x \in Handlers :
                 /\ handler'[x].stage = With(h, q)[x].stage /\ handler'[x].client = With(h, q)[x].client
                 /\ handler'[x].generation = With(h, q)[x].generation /\ handler'[x].base = With(h, q)[x].base
                 /\ handler'[x].reply = With(h, q)[x].reply /\ handler'[x].awaits = With(h, q)[x].awaits
                 /\ handler'[x].ran <=> With(h, q)[x].ran
                 /\ handler'[x].retained <=>
                       With(h, q)[x].retained /\ handler[x].client \notin lost
      /\ t = None => took'[c] = Past(c, lost)
      /\ t # None => took'[c] = [Past(c, lost) EXCEPT ![With(h, q)[h].generation] = t]
  BY <1>1, <1>2, UpdatedFields DEF c
<1> HIDE DEF lost
<1>9. took'[c] = Known(c, h, q.generation, t)
  BY <1>2, <1>5, <1>8 DEF Known
<1>10. \A x \in Handlers \ {h} :
          /\ handler'[x].stage = handler[x].stage /\ handler'[x].client = handler[x].client
          /\ handler'[x].generation = handler[x].generation /\ handler'[x].base = handler[x].base
          /\ handler'[x].reply = handler[x].reply /\ handler'[x].awaits = handler[x].awaits
          /\ handler'[x].ran <=> handler[x].ran
          /\ handler'[x].retained <=>
                /\ handler[x].retained /\ handler[x].client \in kept
                /\ handler[x].client = c => ~ Reborn(c, h)
  BY <1>2, <1>7, <1>8
<1>11. /\ handler'[h].stage = q.stage /\ handler'[h].client = q.client
       /\ handler'[h].generation = q.generation /\ handler'[h].base = q.base
       /\ handler'[h].reply = q.reply /\ handler'[h].awaits = q.awaits
       /\ handler'[h].ran <=> q.ran
       /\ handler'[h].retained <=> q.retained
  BY <1>2, <1>6, <1>8
<1> QED BY <1>3, <1>8, <1>9, <1>10, <1>11 DEF Served, c

LEMMA KnownIs ==
    ASSUME GatewayTypeOK, EntriesOK, NEW e, NEW h, NEW q, NEW t, Shapes(e, h, q, t),
           t # None => q.generation = e.generation
    PROVE  LET c == q.client  p == Known(c, h, q.generation, t)
           IN  /\ p \in [Generations(c) -> Taken \cup {None}]
               /\ \A k \in Generations(c) : k > e.generation => p[k] = None
               /\ t # None => p[q.generation] = t
               /\ \A k \in Generations(c) : t = None \/ k # q.generation => p[k] = Own(c, h)[k]
               /\ \A k \in Generations(c) : Own(c, h)[k] = IF Reborn(c, h) THEN None ELSE took[c][k]
<1> DEFINE c == q.client
           o == Own(c, h)
           p == Known(c, h, q.generation, t)
<1>1. /\ c \in Clients /\ q.generation \in Generations(c) /\ t \in Taken \cup {None}
      /\ Reborn(c, h) \/ entry[c].generation <= e.generation
      /\ e.generation \in Generations(c) /\ entry[c].generation \in Nat
      /\ took[c] \in [Generations(c) -> Taken \cup {None}]
      /\ \A k \in Generations(c) : k > entry[c].generation => took[c][k] = None
  BY DEF Shapes, GatewayTypeOK, EntriesOK, EntryType
<1>2. \A k \in Generations(c) : k \in Nat
  BY <1>1, GenerationsAre
<1> HIDE DEF c
<1>3. /\ o \in [Generations(c) -> Taken \cup {None}]
      /\ \A k \in Generations(c) : o[k] = IF Reborn(c, h) THEN None ELSE took[c][k]
  BY <1>1 DEF Own
<1>4. \A k \in Generations(c) : k > e.generation => o[k] = None
  BY <1>1, <1>2, <1>3
<1> HIDE DEF o
<1>5. p = IF t = None THEN o ELSE [o EXCEPT ![q.generation] = t]
  BY DEF Known, o
<1>6. /\ p \in [Generations(c) -> Taken \cup {None}]
      /\ t # None => p[q.generation] = t
      /\ \A k \in Generations(c) : t = None \/ k # q.generation => p[k] = o[k]
  BY <1>1, <1>3, <1>5
<1>7. \A k \in Generations(c) : k > e.generation => p[k] = None
  BY <1>2, <1>4, <1>6, <1>1
<1> QED BY <1>3, <1>6, <1>7 DEF o, c

LEMMA ServedTypes ==
    ASSUME GatewayTypeOK, EntriesOK, NEW e, NEW h \in Handlers, NEW q, NEW t, Serves(e, h, q, t),
           Served(e, h, q, t), Spoken(q), now' = now, retries' \in Nat
    PROVE  GatewayTypeOK' /\ OrderOK' /\ EntriesOK'
<1>1. /\ q.client \in Clients /\ e \in EntryType /\ t \in Taken \cup {None}
      /\ q.generation \in Generations(q.client) /\ e.generation \in Generations(q.client)
      /\ t # None => q.generation = e.generation
      /\ OneMode(e.session) /\ (e.result = None \/ e.inFlight = None)
  BY DEF Serves, Shapes, Reasons
<1>2. /\ took'[q.client] \in [Generations(q.client) -> Taken \cup {None}]
      /\ \A k \in Generations(q.client) : k > e.generation => took'[q.client][k] = None
  <2>1. Shapes(e, h, q, t) /\ took'[q.client] = Known(q.client, h, q.generation, t)
    BY DEF Serves, Served
  <2> QED BY <1>1, <2>1, KnownIs
<1>3. ASSUME NEW x \in Clients
      PROVE  took'[x] \in [Generations(x) -> Taken \cup {None}]
  <2>1. CASE x = q.client
    BY <1>2, <2>1
  <2>2. CASE x \in Retained' /\ x # q.client
    BY <2>2 DEF Served, GatewayTypeOK
  <2>3. CASE x \notin Retained'
    BY <2>3 DEF Served
  <2> QED BY <2>1, <2>2, <2>3
<1>4. GatewayTypeOK'
  <2>1. /\ now' \in 0 .. MaxNow /\ newer' \in [Clients -> SUBSET Clients]
        /\ entry' \in [Clients -> EntryType] /\ handler' \in [Handlers -> HandlerType]
        /\ DOMAIN took' = Clients /\ DOMAIN said' = Clients
        /\ \A c \in Clients : said'[c] \in [Generations(c) -> Utterance \cup {None}]
    BY DEF Served, Spoken, GatewayTypeOK
  <2> QED BY <1>3, <2>1 DEF GatewayTypeOK
<1>5. OrderOK'
  BY DEF Served, OrderOK
<1>6. ASSUME NEW x \in Clients
      PROVE  /\ OneMode(entry'[x].session)
             /\ entry'[x].generation \in 0 .. Len(Says[x])
             /\ entry'[x].result = None \/ entry'[x].inFlight = None
             /\ x \notin Retained' => entry'[x] = NoEntry
             /\ \A g \in Generations(x) : g > entry'[x].generation => took'[x][g] = None
  <2>1. CASE x = q.client
    <3>1. entry'[x] = e /\ x \in Retained'
      BY <2>1 DEF Served
    <3>2. e.generation \in 0 .. Len(Says[x])
      BY <1>1, <2>1, GenerationsAre
    <3> QED BY <1>1, <1>2, <2>1, <3>1, <3>2
  <2>2. CASE x \in Retained' /\ x # q.client
    BY <2>2 DEF Served, EntriesOK
  <2>3. CASE x \notin Retained'
    <3>1. entry'[x] = NoEntry /\ took'[x] = [g \in Generations(x) |-> None] /\ x # q.client
      BY <2>3 DEF Served
    <3> QED BY <3>1, GenerationsAre DEF NoEntry, OneMode, Empty
  <2> QED BY <2>1, <2>2, <2>3
<1>7. EntriesOK'
  BY <1>6 DEF EntriesOK
<1> QED BY <1>4, <1>5, <1>7

LEMMA ServedHandlers ==
    ASSUME GatewayTypeOK, EntriesOK, HandlersOK, NEW e, NEW h \in Handlers, NEW q, NEW t,
           Serves(e, h, q, t), Served(e, h, q, t), Spoken(q)
    PROVE  HandlersOK'
<1>1. ASSUME NEW x \in Handlers
      PROVE  LET r == handler'[x]
             IN  /\ OneMode(r.base)
                 /\ r.stage = "idle" => ~ r.ran /\ ~ r.retained
                 /\ r.stage # "idle" =>
                       /\ r.client \in Clients /\ r.generation \in Generations(r.client)
                       /\ said'[r.client][r.generation] # None
                 /\ r.awaits # None => r.stage = "joined"
                 /\ r.stage = "joined" => ~ r.ran
                 /\ r.stage = "interpreting" => r.base.dictating = None
                 /\ r.stage \in {"hearing", "interpreting"} => ~ r.ran
                 /\ r.stage \in {"replying", "answered"} => r.reply # None
                 /\ r.retained => r.client \in Retained' /\ r.generation <= entry'[r.client].generation
  <2>1. CASE x = h
    BY <2>1 DEF Serves, Shapes, Served, Spoken
  <2>2. CASE x # h
    <3> DEFINE r == handler'[x]
    <3>1. /\ r.stage = handler[x].stage /\ r.client = handler[x].client
          /\ r.generation = handler[x].generation /\ r.base = handler[x].base
          /\ r.awaits = handler[x].awaits /\ (r.ran <=> handler[x].ran)
          /\ r.reply = handler[x].reply
          /\ r.retained => /\ handler[x].retained /\ r.client \in Retained'
                           /\ r.client = q.client => ~ Reborn(q.client, h)
      BY <2>2 DEF Served
    <3>2. /\ OneMode(r.base)
          /\ r.stage = "idle" => ~ r.ran /\ ~ r.retained
          /\ r.stage # "idle" =>
                /\ r.client \in Clients /\ r.generation \in Generations(r.client)
                /\ said[r.client][r.generation] # None
          /\ r.awaits # None => r.stage = "joined"
          /\ r.stage = "joined" => ~ r.ran
          /\ r.stage = "interpreting" => r.base.dictating = None
          /\ r.stage \in {"hearing", "interpreting"} => ~ r.ran
          /\ r.stage \in {"replying", "answered"} => r.reply # None
          /\ r.retained => r.client \in Retained /\ r.generation <= entry[r.client].generation
                           /\ r.client \in Clients /\ r.generation \in Generations(r.client)
      BY <3>1 DEF HandlersOK
    <3>3. r.stage # "idle" => said'[r.client][r.generation] # None
      BY <3>2 DEF Spoken
    <3>4. ASSUME r.retained PROVE r.generation <= entry'[r.client].generation
      <4>1. CASE r.client # q.client
        BY <3>1, <3>2, <3>4, <4>1 DEF Served
      <4>2. CASE r.client = q.client
        <5>1. entry[q.client].generation <= e.generation /\ entry'[q.client] = e
          BY <3>1, <3>4, <4>2 DEF Serves, Shapes, Served
        <5>2. r.generation \in Nat /\ e.generation \in Nat /\ entry[q.client].generation \in Nat
          BY <3>2, <3>4, <4>2, GenerationsAre DEF Serves, Shapes, GatewayTypeOK, EntryType
        <5> QED BY <3>2, <3>4, <4>2, <5>1, <5>2
      <4> QED BY <4>1, <4>2
    <3> HIDE DEF r
    <3>5. /\ OneMode(r.base)
          /\ r.stage = "idle" => ~ r.ran /\ ~ r.retained
          /\ r.stage # "idle" =>
                /\ r.client \in Clients /\ r.generation \in Generations(r.client)
                /\ said'[r.client][r.generation] # None
          /\ r.awaits # None => r.stage = "joined"
          /\ r.stage = "joined" => ~ r.ran
          /\ r.stage = "interpreting" => r.base.dictating = None
          /\ r.stage \in {"hearing", "interpreting"} => ~ r.ran
          /\ r.stage \in {"replying", "answered"} => r.reply # None
          /\ r.retained => r.client \in Retained' /\ r.generation <= entry'[r.client].generation
      BY <3>1, <3>2, <3>3, <3>4
    <3> QED BY <3>5 DEF r
  <2> QED BY <2>1, <2>2
<1> QED BY <1>1 DEF HandlersOK

\* Another arrival that keeps its session.
LEMMA StaysRetained ==
    ASSUME GatewayTypeOK, HandlersOK, NEW e, NEW h \in Handlers, NEW q, NEW t,
           Shapes(e, h, q, t), Served(e, h, q, t)
    PROVE  \A x \in Handlers : x # h /\ handler'[x].retained =>
           /\ handler[x].retained /\ handler[x].client \in Clients
           /\ handler[x].generation \in Generations(handler[x].client)
           /\ handler[x].generation <= entry[handler[x].client].generation
           /\ handler[x].client # q.client =>
                 /\ entry'[handler[x].client] = entry[handler[x].client]
                 /\ took'[handler[x].client] = took[handler[x].client]
           /\ handler[x].client = q.client =>
                 Peer(x, q.client, handler[x].generation, h) /\ handler[x].generation <= e.generation
                 /\ (handler[x].generation = e.generation =>
                        entry[q.client].generation = e.generation)
                 /\ entry'[handler[x].client] = e
<1> SUFFICES ASSUME NEW x \in Handlers, x # h, handler'[x].retained
             PROVE  /\ handler[x].retained /\ handler[x].client \in Clients
                    /\ handler[x].generation \in Generations(handler[x].client)
                    /\ handler[x].generation <= entry[handler[x].client].generation
                    /\ handler[x].client # q.client =>
                          /\ entry'[handler[x].client] = entry[handler[x].client]
                          /\ took'[handler[x].client] = took[handler[x].client]
                    /\ handler[x].client = q.client =>
                          /\ Peer(x, q.client, handler[x].generation, h)
                          /\ handler[x].generation <= e.generation
                          /\ (handler[x].generation = e.generation =>
                                 entry[q.client].generation = e.generation)
                          /\ entry'[handler[x].client] = e
  OBVIOUS
<1>1. /\ handler[x].retained /\ handler[x].client \in Retained'
      /\ handler[x].client = q.client => ~ Reborn(q.client, h)
  BY DEF Served
<1>2. /\ handler[x].client \in Clients /\ handler[x].generation \in Generations(handler[x].client)
      /\ handler[x].generation <= entry[handler[x].client].generation
  BY <1>1 DEF HandlersOK
<1>3. handler[x].generation \in Nat /\ e.generation \in Nat
      /\ entry[handler[x].client].generation \in Nat
  BY <1>2, GenerationsAre DEF GatewayTypeOK, Shapes, EntryType
<1>4. handler[x].client # q.client =>
                 /\ entry'[handler[x].client] = entry[handler[x].client]
                 /\ took'[handler[x].client] = took[handler[x].client]
  BY <1>1 DEF Served
<1>5. ASSUME handler[x].client = q.client
      PROVE  /\ Peer(x, q.client, handler[x].generation, h) /\ handler[x].generation <= e.generation
             /\ handler[x].generation = e.generation =>
                        entry[q.client].generation = e.generation
             /\ entry'[handler[x].client] = e
  <2>1. Peer(x, q.client, handler[x].generation, h)
    BY <1>1, <1>5 DEF Peer
  <2>2. entry[q.client].generation <= e.generation /\ entry'[q.client] = e
    BY <1>1, <1>5 DEF Shapes, Served
  <2> QED BY <1>2, <1>3, <1>5, <2>1, <2>2
<1> QED BY <1>1, <1>2, <1>4, <1>5

LEMMA ServedRunners ==
    ASSUME GatewayTypeOK, EntriesOK, HandlersOK, RunnersOK, NEW e, NEW h \in Handlers, NEW q, NEW t,
           Serves(e, h, q, t), Served(e, h, q, t)
    PROVE  RunnersOK'
<1> DEFINE r(x) == handler'[x]
<1>1. /\ Shapes(e, h, q, t) /\ Races(e, h, q)
      /\ q.client \in Clients /\ entry'[q.client] = e /\ q.client \in Retained'
      /\ r(h).stage = q.stage /\ r(h).client = q.client /\ r(h).generation = q.generation
      /\ r(h).reply = q.reply /\ r(h).awaits = q.awaits
      /\ (r(h).ran <=> q.ran) /\ (r(h).retained <=> q.retained)
      /\ Runs(r(h)) <=> Runs(q)
      /\ Claims(r(h)) <=> Claims(q)
  BY DEF Serves, Shapes, Served, Runs, Claims
<1>2. ASSUME NEW x \in Handlers, x # h
      PROVE  /\ r(x).stage = handler[x].stage /\ r(x).client = handler[x].client
             /\ r(x).generation = handler[x].generation /\ r(x).reply = handler[x].reply
             /\ r(x).awaits = handler[x].awaits
             /\ Runs(r(x)) <=> Runs(handler[x])
             /\ Claims(r(x)) <=> Claims(handler[x])
  BY <1>2 DEF Served, Runs, Claims
<1>3. ASSUME NEW x \in Handlers, x # h, r(x).retained
      PROVE  /\ handler[x].retained /\ handler[x].client \in Clients
             /\ handler[x].client # q.client =>
                   entry'[handler[x].client] = entry[handler[x].client]
             /\ handler[x].client = q.client =>
                   /\ Peer(x, q.client, handler[x].generation, h)
                   /\ handler[x].generation <= e.generation
  <2>1. /\ handler[x].retained /\ handler[x].client \in Clients
        /\ handler[x].client # q.client => entry'[handler[x].client] = entry[handler[x].client]
        /\ handler[x].client = q.client => Peer(x, q.client, handler[x].generation, h)
                                           /\ handler[x].generation <= e.generation
    <3>1. Shapes(e, h, q, t)
      BY <1>1
    <3>2. \A y \in Handlers : y # h /\ handler'[y].retained =>
           /\ handler[y].retained /\ handler[y].client \in Clients
           /\ handler[y].generation \in Generations(handler[y].client)
           /\ handler[y].generation <= entry[handler[y].client].generation
           /\ handler[y].client # q.client =>
                 /\ entry'[handler[y].client] = entry[handler[y].client]
                 /\ took'[handler[y].client] = took[handler[y].client]
           /\ handler[y].client = q.client =>
                 Peer(y, q.client, handler[y].generation, h) /\ handler[y].generation <= e.generation
                 /\ (handler[y].generation = e.generation =>
                        entry[q.client].generation = e.generation)
                 /\ entry'[handler[y].client] = e
      BY <3>1, StaysRetained
    <3> QED BY <1>3, <3>2
  <2> QED BY <2>1
<1>4. ASSUME NEW x \in Handlers, x # h, Peer(x, q.client, handler[x].generation, h)
      PROVE  r(x).retained
  BY <1>1, <1>4 DEF Served, Peer
<1>14. ASSUME NEW x \in Handlers, x # h, handler[x].retained, handler[x].client \in Retained',
              handler[x].client # q.client
       PROVE  r(x).retained
  BY <1>14 DEF Served
<1> HIDE DEF r
<1>5. ASSUME NEW x \in Handlers, x # h, r(x).retained, q.retained,
             r(x).client = q.client, r(x).generation = q.generation
      PROVE  /\ ~ (Claims(r(x)) /\ Claims(q))
             /\ Runs(q) /\ r(x).stage = "answered" => r(x).reply = Cancelled
             /\ Runs(r(x)) /\ q.stage = "answered" => q.reply = Cancelled
  <2>1. Peer(x, q.client, q.generation, h)
    BY <1>2, <1>3, <1>5
  <2> QED BY <1>1, <1>2, <1>5, <2>1 DEF Races, Claims
<1>6. ASSUME NEW x \in Handlers, NEW i \in Handlers, x # i, r(x).retained, r(i).retained,
             r(x).client = r(i).client, r(x).generation = r(i).generation
      PROVE  /\ ~ (Claims(r(x)) /\ Claims(r(i)))
             /\ Runs(r(x)) /\ r(i).stage = "answered" => r(i).reply = Cancelled
  <2>1. CASE x = h
    BY <1>1, <1>5, <1>6, <2>1
  <2>2. CASE i = h
    BY <1>1, <1>5, <1>6, <2>2
  <2>3. CASE x # h /\ i # h
    <3>1. handler[x].retained /\ handler[i].retained /\ SameRequest(x, i)
      BY <1>2, <1>3, <1>6, <2>3 DEF SameRequest
    <3> QED BY <1>2, <1>6, <2>3, <3>1 DEF RunnersOK
  <2> QED BY <2>1, <2>2, <2>3
<1>7. ASSUME NEW x \in Handlers, r(x).retained, Runs(r(x)), r(x).client \in Retained',
             entry'[r(x).client].generation = r(x).generation
      PROVE  entry'[r(x).client].inFlight = x
  <2>1. CASE x = h
    BY <1>1, <1>7, <2>1 DEF Races
  <2>2. CASE x # h /\ r(x).client = q.client
    BY <1>1, <1>2, <1>3, <1>7, <2>2 DEF Races
  <2>3. CASE x # h /\ r(x).client # q.client
    <3>1. /\ handler[x].retained /\ Runs(handler[x]) /\ handler[x].client = r(x).client
          /\ entry'[r(x).client] = entry[r(x).client] /\ handler[x].generation = r(x).generation
      BY <1>2, <1>3, <1>7, <2>3
    <3>2. IsCurrent(handler[x])
      BY <1>7, <3>1 DEF IsCurrent, HandlersOK
    <3> QED BY <3>1, <3>2 DEF RunnersOK
  <2> QED BY <2>1, <2>2, <2>3
<1>8. ASSUME NEW c \in Clients, entry'[c].inFlight # None
      PROVE  LET i == entry'[c].inFlight
             IN  Runs(r(i)) /\ r(i).retained /\ r(i).client = c
                 /\ r(i).generation = entry'[c].generation
  <2>1. CASE c = q.client
    <3>1. CASE e.inFlight = h /\ Runs(q) /\ q.retained /\ q.generation = e.generation
      BY <1>1, <2>1, <3>1
    <3>2. CASE Peer(e.inFlight, q.client, e.generation, h) /\ Runs(handler[e.inFlight])
      <4> DEFINE i == e.inFlight
      <4>1. i \in Handlers /\ i # h /\ handler[i].client = q.client
            /\ handler[i].generation = e.generation
        BY <3>2 DEF Peer
      <4> HIDE DEF i
      <4>2. r(i).retained
        BY <1>4, <3>2, <4>1 DEF i
      <4>3. Runs(r(i)) /\ r(i).client = c /\ r(i).generation = e.generation
        BY <1>2, <2>1, <3>2, <4>1 DEF i
      <4> QED BY <1>1, <2>1, <4>2, <4>3 DEF i
    <3> QED BY <1>1, <1>8, <2>1, <3>1, <3>2 DEF Races
  <2>2. CASE c # q.client
    <3> DEFINE i == entry'[c].inFlight
    <3>1. c \in Retained' /\ entry'[c] = entry[c]
      BY <1>8, <2>2 DEF Served, NoEntry
    <3>2. entry[c] \in EntryType
      BY DEF GatewayTypeOK
    <3>3. i \in Handlers
      BY <1>8, <3>1, <3>2 DEF EntryType
    <3>4. Runs(handler[i]) /\ handler[i].retained /\ handler[i].client = c
          /\ handler[i].generation = entry[c].generation
      BY <1>8, <3>1 DEF RunnersOK
    <3>5. i # h
      BY <1>1, <2>2, <3>4 DEF Shapes, Idle, Runs
    <3>6. r(i).retained
      BY <1>14, <2>2, <3>1, <3>3, <3>4, <3>5
    <3>7. Runs(r(i)) /\ r(i).client = c /\ r(i).generation = entry[c].generation
      BY <1>2, <3>3, <3>4, <3>5
    <3> QED BY <3>1, <3>6, <3>7
  <2> QED BY <2>1, <2>2
<1>9. ASSUME NEW x \in Handlers, r(x).awaits # None, r(x).retained
      PROVE  LET i == r(x).awaits
             IN  /\ Runs(r(i)) /\ r(i).retained
                 /\ r(i).client = r(x).client /\ r(i).generation = r(x).generation
  <2>1. CASE x = h
    <3> DEFINE i == q.awaits
    <3>1. Peer(i, q.client, q.generation, h) /\ Runs(handler[i])
      BY <1>1, <1>9, <2>1 DEF Races
    <3>2. i \in Handlers /\ i # h /\ handler[i].client = q.client
            /\ handler[i].generation = q.generation
      BY <3>1 DEF Peer
    <3> HIDE DEF i
    <3>3. r(i).retained /\ Runs(r(i)) /\ r(i).client = q.client /\ r(i).generation = q.generation
      BY <1>2, <1>4, <3>1, <3>2
    <3> QED BY <1>1, <2>1, <3>3 DEF i
  <2>2. CASE x # h
    <3> DEFINE i == handler[x].awaits
    <3>1. r(x).awaits = i /\ i # None /\ handler[x].retained
      BY <1>2, <1>3, <1>9, <2>2
    <3>2. i \in Handlers
      <4>1. handler[x] \in HandlerType
        BY DEF GatewayTypeOK
      <4> QED BY <3>1, <4>1 DEF HandlerType
    <3>3. Runs(handler[i]) /\ handler[i].retained /\ handler[i].client = handler[x].client
          /\ handler[i].generation = handler[x].generation
      BY <3>1 DEF RunnersOK, SameRequest
    <3> HIDE DEF i
    <3>4. CASE i = h
      <4>1. /\ Runs(q) /\ handler[h].client = q.client /\ handler[h].generation = q.generation
            /\ q.retained
        BY <1>1, <3>3, <3>4 DEF Shapes, Idle, Runs
      <4> QED BY <1>1, <1>2, <2>2, <3>1, <3>3, <3>4, <4>1
    <3>5. CASE i # h
      <4>1. r(i).retained
        <5>1. CASE handler[x].client = q.client
          <6>1. Peer(x, q.client, handler[x].generation, h)
            BY <1>3, <1>9, <2>2, <5>1
          <6>2. Peer(i, q.client, handler[i].generation, h)
            BY <3>2, <3>3, <3>5, <5>1, <6>1 DEF Peer
          <6> QED BY <1>4, <3>2, <3>5, <6>2
        <5>2. CASE handler[x].client # q.client
          <6>1. handler[x].client \in Retained'
            BY <1>9, <2>2 DEF Served, r
          <6> QED BY <1>14, <3>2, <3>3, <3>5, <5>2, <6>1
        <5> QED BY <5>1, <5>2
      <4> QED BY <1>2, <2>2, <3>1, <3>2, <3>3, <3>5, <4>1
    <3> QED BY <3>4, <3>5
  <2> QED BY <2>1, <2>2
<1> USE DEF r
<1>10. \A x, i \in Handlers : x # i /\ SameRequest(x, i)' =>
          /\ ~ (Claims(handler'[x]) /\ Claims(handler'[i]))
          /\ Runs(handler'[x]) /\ handler'[i].stage = "answered" => handler'[i].reply = Cancelled
  BY <1>6 DEF SameRequest
<1>11. \A x \in Handlers : handler'[x].retained /\ Runs(handler'[x]) /\ IsCurrent(handler[x])' =>
          entry'[handler'[x].client].inFlight = x
  BY <1>7 DEF IsCurrent
<1>12. \A c \in Clients : entry'[c].inFlight # None =>
          LET y == handler'[entry'[c].inFlight]
          IN  Runs(y) /\ y.retained /\ y.client = c /\ y.generation = entry'[c].generation
  BY <1>8
<1>13. \A x \in Handlers : handler'[x].awaits # None /\ handler'[x].retained =>
          LET y == handler'[handler'[x].awaits]
          IN  Runs(y) /\ y.retained
              /\ handler'[x].client = y.client /\ handler'[x].generation = y.generation
  BY <1>9
<1> QED BY <1>10, <1>11, <1>12, <1>13 DEF RunnersOK, SameRequest, Runs, Claims, Cancelled

LEMMA ServedAnswers ==
    ASSUME GatewayTypeOK, HandlersOK, AnswersOK, NEW e, NEW h \in Handlers, NEW q, NEW t,
           Serves(e, h, q, t), Served(e, h, q, t)
    PROVE  AnswersOK'
<1>1. /\ Shapes(e, h, q, t) /\ Races(e, h, q)
      /\ q.client \in Clients /\ entry'[q.client] = e /\ q.client \in Retained'
      /\ handler'[h].stage = q.stage /\ handler'[h].client = q.client
      /\ handler'[h].generation = q.generation /\ handler'[h].reply = q.reply
      /\ (handler'[h].retained <=> q.retained)
  BY DEF Serves, Shapes, Served
<1>2. \A x \in Handlers : x # h =>
             /\ handler'[x].stage = handler[x].stage /\ handler'[x].client = handler[x].client
             /\ handler'[x].generation = handler[x].generation
             /\ handler'[x].reply = handler[x].reply
  BY DEF Served
<1>3. \A y \in Handlers : y # h /\ handler'[y].retained =>
           /\ handler[y].retained /\ handler[y].client \in Clients
           /\ handler[y].generation \in Generations(handler[y].client)
           /\ handler[y].generation <= entry[handler[y].client].generation
           /\ handler[y].client # q.client =>
                 /\ entry'[handler[y].client] = entry[handler[y].client]
                 /\ took'[handler[y].client] = took[handler[y].client]
           /\ handler[y].client = q.client =>
                 Peer(y, q.client, handler[y].generation, h) /\ handler[y].generation <= e.generation
                 /\ (handler[y].generation = e.generation =>
                        entry[q.client].generation = e.generation)
                 /\ entry'[handler[y].client] = e
  BY <1>1, StaysRetained
<1>4. ASSUME NEW x \in Handlers, x # h, handler'[x].retained, q.retained,
             handler'[x].client = q.client, handler'[x].generation = q.generation,
             q.stage = "answered", handler'[x].stage = "answered"
      PROVE  q.reply = handler'[x].reply \/ Cancelled \in {q.reply, handler'[x].reply}
  <2>1. Peer(x, q.client, q.generation, h) /\ handler[x].stage = "answered"
        /\ handler'[x].reply = handler[x].reply
    BY <1>2, <1>3, <1>4
  <2> QED BY <1>1, <1>4, <2>1 DEF Races
<1>5. ASSUME NEW x \in Handlers, NEW i \in Handlers, handler'[x].retained, handler'[i].retained,
             handler'[x].client = handler'[i].client, handler'[x].generation = handler'[i].generation,
             handler'[x].stage = "answered", handler'[i].stage = "answered"
      PROVE  \/ handler'[x].reply = handler'[i].reply
             \/ Cancelled \in {handler'[x].reply, handler'[i].reply}
  <2>1. CASE x = i
    BY <2>1
  <2>2. CASE x = h /\ i # h
    BY <1>1, <1>4, <1>5, <2>2
  <2>3. CASE i = h /\ x # h
    BY <1>1, <1>4, <1>5, <2>3
  <2>4. CASE x # h /\ i # h
    <3>1. SameRequest(x, i) /\ handler[x].stage = "answered" /\ handler[i].stage = "answered"
      BY <1>2, <1>3, <1>5, <2>4 DEF SameRequest
    <3> QED BY <1>2, <2>4, <3>1 DEF AnswersOK
  <2> QED BY <2>1, <2>2, <2>3, <2>4
<1>6. ASSUME NEW x \in Handlers, handler'[x].retained, handler'[x].stage = "answered",
             handler'[x].client \in Retained',
             entry'[handler'[x].client].generation = handler'[x].generation,
             entry'[handler'[x].client].result # None
      PROVE  handler'[x].reply \in {entry'[handler'[x].client].result, Cancelled}
  <2>1. CASE x = h
    BY <1>1, <1>6, <2>1 DEF Races
  <2>2. CASE x # h /\ handler[x].client = q.client
    <3>1. /\ Peer(x, q.client, e.generation, h) /\ e.result # None
          /\ handler[x].stage = "answered" /\ entry'[handler'[x].client] = e
      BY <1>1, <1>2, <1>3, <1>6, <2>2
    <3> QED BY <1>1, <1>2, <2>2, <3>1 DEF Races
  <2>3. CASE x # h /\ handler[x].client # q.client
    <3>1. /\ handler[x].retained /\ handler[x].stage = "answered"
          /\ entry'[handler'[x].client] = entry[handler[x].client]
          /\ entry[handler[x].client].generation = handler[x].generation
          /\ entry[handler[x].client].result # None
      BY <1>2, <1>3, <1>6, <2>3
    <3>2. IsCurrent(handler[x])
      BY <3>1 DEF IsCurrent, HandlersOK
    <3> QED BY <1>2, <2>3, <3>1, <3>2 DEF AnswersOK
  <2> QED BY <2>1, <2>2, <2>3
<1>7. \A x, i \in Handlers :
          SameRequest(x, i)' /\ handler'[x].stage = "answered" /\ handler'[i].stage = "answered" =>
              \/ handler'[x].reply = handler'[i].reply
              \/ Cancelled \in {handler'[x].reply, handler'[i].reply}
  BY <1>5 DEF SameRequest
<1>8. \A x \in Handlers :
          handler'[x].retained /\ handler'[x].stage = "answered" /\ IsCurrent(handler[x])'
          /\ entry'[handler'[x].client].result # None
          => handler'[x].reply \in {entry'[handler'[x].client].result, Cancelled}
  BY <1>6 DEF IsCurrent
<1> QED BY <1>7, <1>8 DEF AnswersOK, SameRequest, Cancelled

LEMMA ServedSessions ==
    ASSUME GatewayTypeOK, HandlersOK, SessionsJustified, CancelHolds,
           NEW e, NEW h \in Handlers, NEW q, NEW t, Serves(e, h, q, t), Served(e, h, q, t), EntriesOK
    PROVE  SessionsJustified' /\ CancelHolds'
<1>1. /\ Shapes(e, h, q, t) /\ Reasons(e, h, q, t)
      /\ q.client \in Clients /\ entry'[q.client] = e /\ q.client \in Retained'
      /\ took'[q.client] = Known(q.client, h, q.generation, t)
  BY DEF Serves, Shapes, Served
<1>2. \A x \in Retained' : x # q.client => x \in Retained /\ entry'[x] = entry[x] /\ took'[x] = took[x]
  BY DEF Served
<1>3. ASSUME NEW x \in Clients, NoOrphans(took'[x], entry'[x].generation)
      PROVE  Justified(entry'[x].session, took'[x], entry'[x].generation)
  <2>1. CASE x = q.client
    BY <1>1, <1>3, <2>1 DEF Reasons
  <2>2. CASE x # q.client /\ x \in Retained'
    BY <1>2, <1>3, <2>2 DEF SessionsJustified
  <2>3. CASE x # q.client /\ x \notin Retained'
    <3>1. entry'[x].session = Empty
      BY <2>3 DEF Served, NoEntry
    <3> QED BY <3>1 DEF Justified, Empty
  <2> QED BY <2>1, <2>2, <2>3
<1>4. ASSUME NEW x \in Retained', NEW g \in Generations(x),
             took'[x][g] # None, took'[x][g].kind = "cancel",
             \A k \in Generations(x) : k > g => took'[x][k] = None
      PROVE  entry'[x].session = Empty
  <2>1. CASE x # q.client
    BY <1>2, <1>4, <2>1 DEF CancelHolds
  <2>2. CASE x = q.client /\ t # None
    <3>1. /\ \A k \in Generations(x) : k > e.generation => took'[x][k] = None
          /\ took'[x][q.generation] = t /\ q.generation = e.generation
          /\ q.generation \in Generations(x) /\ x \in Clients
      <4>1. Shapes(e, h, q, t) /\ (t # None => q.generation = e.generation)
            /\ q.generation \in Generations(x) /\ x \in Clients
        BY <1>1, <2>2 DEF Reasons, Shapes
      <4>2. /\ \A k \in Generations(q.client) : k > e.generation =>
                   Known(q.client, h, q.generation, t)[k] = None
            /\ t # None => Known(q.client, h, q.generation, t)[q.generation] = t
        BY <4>1, KnownIs
      <4> QED BY <1>1, <2>2, <4>1, <4>2
    <3>2. ~ (g > q.generation) /\ ~ (q.generation > g)
      BY <1>4, <2>2, <3>1
    <3>3. g = q.generation
      BY <3>1, <3>2, GenerationsAre
    <3> QED BY <1>1, <1>4, <2>2, <3>1, <3>3 DEF Reasons
  <2>3. CASE x = q.client /\ t = None
    <3>1. took'[x] = Own(x, h) /\ e.session = IF Reborn(x, h) THEN Empty ELSE entry[x].session
      BY <1>1, <2>3 DEF Known, Reasons
    <3>2. CASE Reborn(x, h)
      BY <1>1, <2>3, <3>1, <3>2
    <3>3. CASE ~ Reborn(x, h)
      <4>1. took'[x] = took[x] /\ entry'[x].session = entry[x].session /\ x \in Retained
        BY <1>1, <2>3, <3>1, <3>3 DEF Own, Shapes
      <4> QED BY <1>4, <4>1 DEF CancelHolds
    <3> QED BY <3>2, <3>3
  <2> QED BY <2>1, <2>2, <2>3
<1>5. SessionsJustified'
  BY <1>3 DEF SessionsJustified
<1> QED BY <1>4, <1>5 DEF CancelHolds, Empty

\* What is taken of a request leaves the past of the earlier ones as it was.
LEMMA EarlierAreKnown ==
    ASSUME GatewayTypeOK, EntriesOK, HandlersOK, NEW e, NEW h \in Handlers, NEW q, NEW t,
           Shapes(e, h, q, t), t # None => q.generation = e.generation,
           Served(e, h, q, t), ~ Reborn(q.client, h), NEW n \in Nat, n < e.generation
    PROVE  \A k \in 1 .. n : took'[q.client][k] = took[q.client][k]
<1>1. q.client \in Clients /\ e.generation \in Generations(q.client)
  BY DEF Shapes
<1>2. \A k \in 1 .. n : k \in Generations(q.client) /\ k # e.generation
  BY <1>1, GenerationsAre
<1>3. took'[q.client] = Known(q.client, h, q.generation, t)
  BY DEF Served
<1>4. \A k \in Generations(q.client) :
         /\ t = None \/ k # q.generation =>
               Known(q.client, h, q.generation, t)[k] = Own(q.client, h)[k]
         /\ Own(q.client, h)[k] = IF Reborn(q.client, h) THEN None ELSE took[q.client][k]
  BY KnownIs
<1> QED BY <1>2, <1>3, <1>4

LEMMA ServedBases ==
    ASSUME GatewayTypeOK, EntriesOK, HandlersOK, BasesJustified,
           NEW e, NEW h \in Handlers, NEW q, NEW t, Serves(e, h, q, t), Served(e, h, q, t)
    PROVE  BasesJustified'
<1>1. /\ Shapes(e, h, q, t) /\ Reasons(e, h, q, t)
      /\ q.client \in Clients /\ entry'[q.client] = e /\ q.client \in Retained'
      /\ took'[q.client] = Known(q.client, h, q.generation, t)
      /\ handler'[h].stage = q.stage /\ handler'[h].client = q.client
      /\ handler'[h].generation = q.generation /\ handler'[h].base = q.base
      /\ (handler'[h].retained <=> q.retained)
      /\ t # None => q.generation = e.generation
      /\ e.generation \in Nat /\ q.generation \in Nat
  BY GenerationsAre DEF Serves, Shapes, Served, Reasons
<1>2. \A x \in Handlers : x # h =>
             /\ handler'[x].stage = handler[x].stage /\ handler'[x].client = handler[x].client
             /\ handler'[x].generation = handler[x].generation /\ handler'[x].base = handler[x].base
  BY DEF Served
<1>3. \A y \in Handlers : y # h /\ handler'[y].retained =>
           /\ handler[y].retained /\ handler[y].client \in Clients
           /\ handler[y].generation \in Generations(handler[y].client)
           /\ handler[y].generation <= entry[handler[y].client].generation
           /\ handler[y].client # q.client =>
                 /\ entry'[handler[y].client] = entry[handler[y].client]
                 /\ took'[handler[y].client] = took[handler[y].client]
           /\ handler[y].client = q.client =>
                 Peer(y, q.client, handler[y].generation, h) /\ handler[y].generation <= e.generation
                 /\ (handler[y].generation = e.generation =>
                        entry[q.client].generation = e.generation)
                 /\ entry'[handler[y].client] = e
  BY <1>1, StaysRetained
<1>4. ASSUME NEW x \in Handlers, handler'[x].retained, handler'[x].stage \in {"hearing", "interpreting"},
             handler'[x].client \in Retained',
             entry'[handler'[x].client].generation = handler'[x].generation,
             NoOrphans(took'[handler'[x].client], handler'[x].generation - 1)
      PROVE  Justified(handler'[x].base, took'[handler'[x].client], handler'[x].generation - 1)
  <2>1. CASE x = h
    BY <1>1, <1>4, <2>1 DEF Reasons
  <2>2. CASE x # h
    <3> DEFINE c == handler[x].client  g == handler[x].generation
    <3>1. /\ handler'[x].client = c /\ handler'[x].generation = g /\ handler'[x].base = handler[x].base
          /\ handler[x].stage \in {"hearing", "interpreting"} /\ handler[x].retained
          /\ c \in Clients /\ g \in Generations(c)
      BY <1>2, <1>3, <1>4, <2>2
    <3>2. g - 1 \in Nat /\ c \in Retained
      BY <3>1, GenerationsAre DEF HandlersOK
    <3>3. CASE c # q.client
      <4>1. entry'[c] = entry[c] /\ took'[c] = took[c]
        BY <1>3, <1>4, <2>2, <3>3
      <4>2. IsCurrent(handler[x]) /\ NoOrphans(took[c], g - 1)
        BY <1>4, <3>1, <3>2, <4>1 DEF IsCurrent
      <4> QED BY <3>1, <4>1, <4>2 DEF BasesJustified
    <3>4. CASE c = q.client
      <4>1. ~ Reborn(q.client, h) /\ entry[c].generation = g /\ e.generation = g
        BY <1>1, <1>3, <1>4, <2>2, <3>1, <3>4 DEF Peer
      <4>2. \A k \in 1 .. g - 1 : took'[c][k] = took[c][k]
        BY <1>1, <3>2, <3>4, <4>1, EarlierAreKnown
      <4>3. IsCurrent(handler[x]) /\ NoOrphans(took[c], g - 1)
        <5>1. IsCurrent(handler[x])
          BY <3>2, <4>1 DEF IsCurrent
        <5>2. NoOrphans(took'[c], g - 1)
          BY <1>4, <3>1
        <5> QED BY <4>2, <5>1, <5>2 DEF NoOrphans
      <4>4. Justified(handler[x].base, took[c], g - 1)
        BY <3>1, <4>3 DEF BasesJustified
      <4>5. Justified(handler[x].base, took'[c], g - 1)
        BY <3>2, <4>2, <4>4, HistoriesAgree
      <4> QED BY <3>1, <4>5
    <3> QED BY <3>3, <3>4
  <2> QED BY <2>1, <2>2
<1> QED BY <1>4 DEF BasesJustified, IsCurrent

LEMMA ServedReplies ==
    ASSUME GatewayTypeOK, EntriesOK, HandlersOK, RepliesApproved,
           NEW e, NEW h \in Handlers, NEW q, NEW t, Serves(e, h, q, t), Served(e, h, q, t)
    PROVE  RepliesApproved'
<1>1. /\ Shapes(e, h, q, t) /\ Reasons(e, h, q, t) /\ Races(e, h, q)
      /\ q.client \in Clients /\ entry'[q.client] = e /\ q.client \in Retained'
      /\ took'[q.client] = Known(q.client, h, q.generation, t)
      /\ handler'[h].reply = q.reply /\ handler'[h].client = q.client
      /\ handler'[h].generation = q.generation
      /\ (handler'[h].retained <=> q.retained)
      /\ (handler'[h].ran <=> q.ran)
      /\ t # None => q.generation = e.generation /\ q.ran /\ (~ q.retained => Orphaned(t))
      /\ e.generation \in Generations(q.client) /\ q.generation \in Generations(q.client)
      /\ e.generation \in Nat /\ q.generation \in Nat
  BY GenerationsAre DEF Serves, Shapes, Served, Reasons
<1>2. \A x \in Handlers : x # h =>
             /\ handler'[x].reply = handler[x].reply /\ handler'[x].client = handler[x].client
             /\ handler'[x].generation = handler[x].generation
             /\ (handler'[x].ran <=> handler[x].ran)
  BY DEF Served
<1>3. \A y \in Handlers : y # h /\ handler'[y].retained =>
           /\ handler[y].retained /\ handler[y].client \in Clients
           /\ handler[y].generation \in Generations(handler[y].client)
           /\ handler[y].generation <= entry[handler[y].client].generation
           /\ handler[y].client # q.client =>
                 /\ entry'[handler[y].client] = entry[handler[y].client]
                 /\ took'[handler[y].client] = took[handler[y].client]
           /\ handler[y].client = q.client =>
                 Peer(y, q.client, handler[y].generation, h) /\ handler[y].generation <= e.generation
                 /\ (handler[y].generation = e.generation =>
                        entry[q.client].generation = e.generation)
                 /\ entry'[handler[y].client] = e
  BY <1>1, StaysRetained
<1>4. /\ t # None => Known(q.client, h, q.generation, t)[q.generation] = t
      /\ \A k \in Generations(q.client) :
            /\ t = None \/ k # q.generation =>
                  Known(q.client, h, q.generation, t)[k] = Own(q.client, h)[k]
            /\ Own(q.client, h)[k] = IF Reborn(q.client, h) THEN None ELSE took[q.client][k]
  BY <1>1, KnownIs
<1>5. ASSUME NEW x \in Handlers, handler'[x].ran, handler'[x].retained,
             NoOrphans(took'[handler'[x].client], handler'[x].generation)
      PROVE  Approved(handler'[x].reply, took'[handler'[x].client], handler'[x].generation)
  <2>1. CASE x = h
    BY <1>1, <1>5, <2>1 DEF Reasons
  <2>2. CASE x # h
    <3> DEFINE c == handler[x].client  g == handler[x].generation
    <3>1. /\ handler'[x].client = c /\ handler'[x].generation = g /\ handler'[x].reply = handler[x].reply
          /\ handler[x].ran /\ handler[x].retained
          /\ c \in Clients /\ g \in Generations(c)
          /\ NoOrphans(took'[c], g)
      BY <1>2, <1>3, <1>5, <2>2
    <3>2. g \in Nat \ {0} /\ \A k \in 1 .. g : k \in Generations(c)
      BY <3>1, GenerationsAre
    <3>3. CASE c # q.client
      <4>1. took'[c] = took[c]
        BY <1>3, <1>5, <2>2, <3>3
      <4> QED BY <3>1, <4>1 DEF RepliesApproved
    <3>4. CASE c = q.client
      <4>1. ~ Reborn(q.client, h) /\ g <= e.generation /\ Peer(x, q.client, g, h)
        BY <1>3, <1>5, <2>2, <3>4 DEF Peer
      <4>2. ASSUME t # None, q.generation \in 1 .. g PROVE FALSE
        <5>1. q.generation = g
          BY <1>1, <3>2, <4>1, <4>2
        <5>2. q.retained
          <6>1. took'[c][g] = t /\ g \in 1 .. g
            BY <1>1, <1>4, <3>2, <3>4, <4>2, <5>1
          <6>2. ~ Orphaned(t)
            BY <3>1, <6>1 DEF NoOrphans
          <6> QED BY <1>1, <4>2, <6>2
        <5>3. Claims(q) /\ Claims(handler[x])
          BY <1>1, <3>1, <4>2 DEF Claims
        <5> QED BY <1>1, <4>1, <5>1, <5>2, <5>3 DEF Races
      <4>3. \A k \in 1 .. g : took'[c][k] = took[c][k]
        BY <1>1, <1>4, <3>2, <3>4, <4>1, <4>2
      <4>4. NoOrphans(took[c], g)
        BY <3>1, <4>3 DEF NoOrphans
      <4>5. Approved(handler[x].reply, took[c], g)
        BY <3>1, <4>4 DEF RepliesApproved
      <4>6. Approved(handler[x].reply, took'[c], g)
        <5>1. \A k \in 1 .. g : took[c][k] = took'[c][k]
          BY <4>3
        <5> HIDE DEF c, g
        <5> QED BY <3>2, <4>5, <5>1, ApprovalsAgree
      <4> QED BY <3>1, <4>6
    <3> QED BY <3>3, <3>4
  <2> QED BY <2>1, <2>2
<1> QED BY <1>5 DEF RepliesApproved

\* Serving a request preserves the invariant.
LEMMA ServingPreserves ==
    ASSUME GatewayInv, NEW e, NEW h \in Handlers, NEW q, NEW t, Serves(e, h, q, t),
           NEW kept, Updated(q.client, e, h, With(h, q), t, kept),
           Spoken(q), now' = now, retries' \in Nat
    PROVE  GatewayInv'
<1>1. /\ GatewayTypeOK /\ OrderOK /\ EntriesOK /\ HandlersOK /\ RunnersOK /\ AnswersOK
      /\ SessionsJustified /\ BasesJustified /\ RepliesApproved /\ CancelHolds
      /\ Shapes(e, h, q, t)
  BY DEF GatewayInv, Serves
<1>2. Served(e, h, q, t)
  BY <1>1, ServedFields
<1>3. GatewayTypeOK' /\ OrderOK' /\ EntriesOK'
  BY <1>1, <1>2, ServedTypes
<1>4. HandlersOK'
  BY <1>1, <1>2, ServedHandlers
<1>5. RunnersOK'
  BY <1>1, <1>2, ServedRunners
<1>6. AnswersOK'
  BY <1>1, <1>2, ServedAnswers
<1>7. SessionsJustified' /\ CancelHolds'
  BY <1>1, <1>2, ServedSessions
<1>8. BasesJustified'
  BY <1>1, <1>2, ServedBases
<1>9. RepliesApproved'
  BY <1>1, <1>2, ServedReplies
<1> QED BY <1>3, <1>4, <1>5, <1>6, <1>7, <1>8, <1>9 DEF GatewayInv

-----------------------------------------------------------------------------
(* The requests that run.                                                  *)

\* The request of q may run on its clone and commit to e.
Ready(e, h, q) ==
    LET c == q.client  g == q.generation
    IN  /\ e \in EntryType /\ q \in HandlerType /\ h \in Handlers
        /\ c \in Clients /\ g \in Generations(c) /\ e.generation = g
        /\ OneMode(e.session) /\ OneMode(q.base) /\ q.awaits = None /\ ~ q.ran
        /\ e.result = None \/ e.inFlight = None
        /\ Reborn(c, h) \/ (c \in Retained /\ entry[c].generation <= g)
        /\ \/ handler[h] = Idle /\ q.retained
           \/ /\ Runs(handler[h]) /\ handler[h].client = c
              /\ handler[h].generation = g /\ (handler[h].retained <=> q.retained)
        /\ q.retained => \A x \in Handlers : Peer(x, c, g, h) =>
              ~ Claims(handler[x]) /\ (handler[x].stage = "answered" => handler[x].reply = Cancelled)
        /\ e.result # None => \A x \in Handlers : Peer(x, c, g, h) /\ handler[x].stage = "answered" =>
              handler[x].reply \in {e.result, Cancelled}
        /\ \A x \in Handlers : Peer(x, c, g, h) /\ Runs(handler[x]) => e.inFlight = x
        /\ q.retained => e.inFlight = h
        /\ e.inFlight # None =>
              \/ e.inFlight = h /\ q.retained
              \/ Peer(e.inFlight, c, g, h) /\ Runs(handler[e.inFlight])
        /\ e.session = IF Reborn(c, h) THEN Empty ELSE entry[c].session
        /\ NoOrphans(Own(c, h), g) => Justified(e.session, Own(c, h), g)
        /\ q.retained /\ NoOrphans(Own(c, h), g - 1) => Justified(q.base, Own(c, h), g - 1)

LEMMA NothingIsJustified ==
    ASSUME NEW p, NEW n PROVE Justified(Empty, p, n)
BY DEF Justified, Empty

LEMMA RunIsReady ==
    ASSUME GatewayInv, NEW h \in Handlers, NEW c \in Clients, NEW g \in Generations(c),
           handler[h] = Idle, Fresh(c) => entry[c].generation < g
    PROVE  LET base == IF Fresh(c) THEN entry[c].session ELSE Empty
               q == [Idle EXCEPT !.client = c, !.generation = g, !.base = base, !.retained = TRUE]
               e == [session |-> base, generation |-> g, usedAt |-> now, result |-> None,
                     inFlight |-> h]
           IN  Ready(e, h, q)
<1> DEFINE base == IF Fresh(c) THEN entry[c].session ELSE Empty
           q == [Idle EXCEPT !.client = c, !.generation = g, !.base = base, !.retained = TRUE]
           e == [session |-> base, generation |-> g, usedAt |-> now, result |-> None, inFlight |-> h]
<1>1. /\ GatewayTypeOK /\ EntriesOK /\ HandlersOK /\ SessionsJustified
      /\ g \in Nat /\ g > 0 /\ g - 1 \in Nat /\ g \in 1 .. g
  BY GenerationsAre DEF GatewayInv
<1>2. entry[c] \in EntryType /\ OneMode(entry[c].session) /\ now \in 0 .. MaxNow
      /\ entry[c].session \in Fields /\ entry[c].generation \in Nat
  BY <1>1 DEF GatewayTypeOK, EntriesOK, EntryType
<1>3. Empty \in Fields /\ OneMode(Empty)
  BY DEF Empty, Fields, OneMode
<1>4. base \in Fields /\ OneMode(base)
  BY <1>2, <1>3
<1>5. Reborn(c, h) <=> ~ Fresh(c)
  BY DEF Reborn, Idle
<1>6. Fresh(c) => c \in Retained
  BY DEF Fresh
<1> HIDE DEF base
<1>7. e \in EntryType /\ e.session = base /\ e.generation = g /\ e.result = None /\ e.inFlight = h
  BY <1>1, <1>2, <1>4 DEF EntryType
<1>8. /\ q.stage = "idle" /\ q.client = c /\ q.generation = g /\ q.base = base /\ q.reply = None
      /\ q.awaits = None /\ ~ q.ran /\ q.retained /\ q \in HandlerType
  <2>1. Idle \in HandlerType
    BY <1>3 DEF Idle, HandlerType, Stages
  <2>2. /\ Idle.stage = "idle" /\ Idle.reply = None /\ Idle.awaits = None /\ ~ Idle.ran
        /\ DOMAIN Idle = {"stage", "client", "generation", "base", "reply", "awaits", "ran", "retained"}
    BY DEF Idle
  <2>3. q \in HandlerType
    BY <1>1, <1>4, <2>1 DEF HandlerType
  <2> QED BY <2>2, <2>3
<1> HIDE DEF q, e
<1>10. \A x : ~ Peer(x, c, g, h)
  <2>1. ASSUME NEW x, Peer(x, c, g, h) PROVE FALSE
    <3>1. Fresh(c) /\ x \in Handlers /\ handler[x].retained /\ handler[x].client = c
          /\ handler[x].generation = g
      BY <1>5, <2>1 DEF Peer
    <3>2. g <= entry[c].generation
      BY <1>1, <3>1 DEF HandlersOK
    <3> QED BY <1>1, <1>2, <3>1, <3>2
  <2> QED BY <2>1
<1>11. base = IF Reborn(c, h) THEN Empty ELSE entry[c].session
  BY <1>5 DEF base
<1>12. ASSUME NEW n \in {g - 1, g}, NoOrphans(Own(c, h), n)
       PROVE  Justified(base, Own(c, h), n)
  <2>1. CASE Reborn(c, h)
    BY <1>11, <2>1, NothingIsJustified
  <2>2. CASE ~ Reborn(c, h)
    <3>1. Own(c, h) = took[c] /\ base = entry[c].session /\ entry[c].generation < g
      BY <1>5, <1>11, <2>2 DEF Own
    <3>2. n \in Nat /\ entry[c].generation <= n /\ n <= g
      BY <1>1, <1>2, <3>1
    <3>3. NoOrphans(took[c], entry[c].generation)
      BY <1>2, <1>12, <3>1, <3>2 DEF NoOrphans
    <3>4. Justified(entry[c].session, took[c], entry[c].generation)
      BY <1>1, <3>3 DEF SessionsJustified
    <3>5. \A k \in entry[c].generation + 1 .. n : PassesBy(took[c][k])
      <4>1. \A k \in entry[c].generation + 1 .. n : k \in Generations(c) /\ k > entry[c].generation
        BY <1>1, <1>2, <3>2, GenerationsAre
      <4> QED BY <1>1, <4>1 DEF EntriesOK, PassesBy
    <3>6. Justified(entry[c].session, took[c], n)
      BY <1>2, <3>2, <3>4, <3>5, LaterStillJustified
    <3> QED BY <3>1, <3>6
  <2> QED BY <2>1, <2>2
<1>13. Reborn(c, h) \/ (c \in Retained /\ entry[c].generation <= g)
  <2>1. CASE Fresh(c)
    BY <1>1, <1>2, <1>6, <2>1
  <2> QED BY <1>5, <2>1
<1>14. Ready(e, h, q)
  BY <1>1, <1>4, <1>7, <1>8, <1>10, <1>11, <1>12, <1>13 DEF Ready
<1> QED BY <1>14 DEF q, e, base

LEMMA ContinuingIsReady ==
    ASSUME GatewayInv, NEW h \in Handlers, handler[h].stage \in {"hearing", "interpreting"},
           IsCurrent(handler[h])
    PROVE  Ready(entry[handler[h].client], h, handler[h])
<1> DEFINE q == handler[h]  c == q.client  g == q.generation  e == entry[c]
<1>1. /\ GatewayTypeOK /\ EntriesOK /\ HandlersOK /\ RunnersOK /\ AnswersOK /\ SessionsJustified
      /\ BasesJustified
  BY DEF GatewayInv
<1>2. /\ c \in Clients /\ g \in Generations(c) /\ OneMode(q.base) /\ q.awaits = None /\ ~ q.ran
      /\ c \in Retained /\ e.generation = g /\ Runs(q) /\ Claims(q)
  BY <1>1 DEF HandlersOK, IsCurrent, Runs, Claims
<1>3. e \in EntryType /\ q \in HandlerType /\ OneMode(e.session) /\ (e.result = None \/ e.inFlight = None)
  BY <1>1, <1>2 DEF GatewayTypeOK, EntriesOK
<1>4. ~ Reborn(c, h)
  BY DEF Reborn
<1>5. Own(c, h) = took[c]
  BY <1>4 DEF Own
<1>6. ASSUME NEW x \in Handlers, Peer(x, c, g, h)
      PROVE  /\ q.retained => ~ Claims(handler[x])
                             /\ (handler[x].stage = "answered" => handler[x].reply = Cancelled)
             /\ e.result # None /\ handler[x].stage = "answered" =>
                   handler[x].reply \in {e.result, Cancelled}
             /\ Runs(handler[x]) => e.inFlight = x
  <2>1. /\ x # h /\ handler[x].retained /\ handler[x].client = c /\ handler[x].generation = g
        /\ IsCurrent(handler[x])
    BY <1>2, <1>6 DEF Peer, IsCurrent
  <2>2. q.retained => ~ Claims(handler[x])
                      /\ (handler[x].stage = "answered" => handler[x].reply = Cancelled)
    BY <1>1, <1>2, <2>1 DEF RunnersOK, SameRequest
  <2>3. e.result # None /\ handler[x].stage = "answered" => handler[x].reply \in {e.result, Cancelled}
    BY <1>1, <2>1 DEF AnswersOK
  <2>4. Runs(handler[x]) => e.inFlight = x
    BY <1>1, <2>1 DEF RunnersOK
  <2> QED BY <2>2, <2>3, <2>4
<1>7. q.retained => e.inFlight = h
  BY <1>1, <1>2 DEF RunnersOK
<1>8. ASSUME e.inFlight # None
      PROVE  \/ e.inFlight = h /\ q.retained
             \/ Peer(e.inFlight, c, g, h) /\ Runs(handler[e.inFlight])
  <2> DEFINE i == e.inFlight
  <2>1. i \in Handlers
    BY <1>3, <1>8 DEF EntryType
  <2>2. Runs(handler[i]) /\ handler[i].retained /\ handler[i].client = c /\ handler[i].generation = g
    BY <1>1, <1>2, <1>8 DEF RunnersOK
  <2> QED BY <1>4, <2>1, <2>2 DEF Peer
<1>9. NoOrphans(took[c], g) => Justified(e.session, took[c], g)
  BY <1>1, <1>2 DEF SessionsJustified
<1>10. q.retained /\ NoOrphans(took[c], g - 1) => Justified(q.base, took[c], g - 1)
  BY <1>1 DEF BasesJustified
<1>11. entry[c].generation <= g
  BY <1>2, GenerationsAre
<1> HIDE DEF q, c, g, e
<1>12. Runs(handler[h]) /\ handler[h].client = c /\ handler[h].generation = g
       /\ (handler[h].retained <=> q.retained) /\ q.client = c /\ q.generation = g
       /\ entry[c].session = e.session
  BY <1>2 DEF q, c, g, e
<1>13. Ready(e, h, q)
  BY <1>2, <1>3, <1>4, <1>5, <1>6, <1>7, <1>8, <1>9, <1>10, <1>11, <1>12 DEF Ready
<1> QED BY <1>13 DEF q, c, e

\* A request that waits, for its transcript or for an interpretation.
LEMMA WaitingServes ==
    ASSUME GatewayInv, NEW e, NEW h \in Handlers, NEW q, Ready(e, h, q),
           NEW s \in {"hearing", "interpreting"}, s = "interpreting" => q.base.dictating = None
    PROVE  Serves(e, h, [q EXCEPT !.stage = s], None)
<1> DEFINE c == q.client  g == q.generation
           q1 == [q EXCEPT !.stage = s]
<1>1. /\ q1 \in HandlerType /\ q1.stage = s /\ q1.client = c /\ q1.generation = g
      /\ q1.base = q.base /\ q1.reply = q.reply /\ q1.awaits = None /\ ~ q1.ran
      /\ (q1.retained <=> q.retained)
  <2>1. q \in HandlerType /\ q.awaits = None /\ ~ q.ran
    BY DEF Ready
  <2>2. DOMAIN q = {"stage", "client", "generation", "base", "reply", "awaits", "ran", "retained"}
    BY <2>1 DEF HandlerType
  <2>3. q1 \in HandlerType
    BY <2>1 DEF HandlerType, Stages
  <2> QED BY <2>1, <2>2, <2>3
<1> HIDE DEF q1
<1>2. c \in Clients /\ g \in Generations(c) /\ g <= g
  BY GenerationsAre DEF Ready
<1>3. Runs(q1) /\ Claims(q1)
  BY <1>1 DEF Runs, Claims
<1>4. Shapes(e, h, q1, None)
  BY <1>1, <1>2, <1>3 DEF Ready, Shapes
<1>5. Races(e, h, q1)
  BY <1>1, <1>3 DEF Ready, Races
<1>6. Known(c, h, g, None) = Own(c, h)
  BY DEF Known
<1>7. Reasons(e, h, q1, None)
  BY <1>1, <1>2, <1>6 DEF Ready, Reasons
<1> QED BY <1>4, <1>5, <1>7 DEF Serves, q1

\* A request that takes effect.
Performing(h, q, e, intent, f) ==
    LET step == reduce(q.base, intent, now, f)
    IN  Serves([e EXCEPT !.session = step.next, !.usedAt = now], h,
               [q EXCEPT !.stage = "replying", !.reply = step.effect, !.ran = TRUE, !.base = Empty],
               [kind |-> IF q.retained THEN intent.kind ELSE "orphan", item |-> intent.item,
                action |-> intent.action, free |-> f, at |-> now])

LEMMA ReadyPerforms ==
    ASSUME GatewayInv, NEW e, NEW h \in Handlers, NEW q, Ready(e, h, q),
           NEW intent, Fits(intent, q.base), NEW f \in BOOLEAN
    PROVE  Performing(h, q, e, intent, f)
<1> DEFINE c == q.client  g == q.generation
           step == reduce(q.base, intent, now, f)
           e1 == [e EXCEPT !.session = step.next, !.usedAt = now]
           q1 == [q EXCEPT !.stage = "replying", !.reply = step.effect, !.ran = TRUE, !.base = Empty]
           t == [kind |-> IF q.retained THEN intent.kind ELSE "orphan", item |-> intent.item,
                 action |-> intent.action, free |-> f, at |-> now]
<1>1. /\ q \in HandlerType /\ e \in EntryType /\ OneMode(q.base) /\ q.base \in Fields
      /\ c \in Clients /\ g \in Generations(c) /\ e.generation = g /\ q.awaits = None
  BY DEF Ready, HandlerType
<1>2. now \in 0 .. MaxNow /\ now \in Nat
  BY SessionTtlAssumption DEF GatewayInv, GatewayTypeOK
<1>3. /\ step.next \in Fields /\ OneMode(step.next) /\ step.effect \in Reply
      /\ intent.kind = "cancel" => step.next = Empty
  BY <1>1, <1>2, ReduceType
<1>4. /\ e1 \in EntryType /\ e1.session = step.next /\ e1.generation = g
      /\ e1.result = e.result /\ e1.inFlight = e.inFlight
  <2> HIDE DEF step
  <2>1. DOMAIN e = {"session", "generation", "usedAt", "result", "inFlight"}
    BY <1>1 DEF EntryType
  <2>2. e1 \in EntryType
    BY <1>1, <1>2, <1>3 DEF EntryType
  <2> QED BY <1>1, <2>1, <2>2
<1>5. Empty \in Fields /\ OneMode(Empty)
  BY DEF Empty, Fields, OneMode
<1>6. /\ q1 \in HandlerType /\ q1.stage = "replying" /\ q1.client = c /\ q1.generation = g
      /\ q1.base = Empty /\ q1.reply = step.effect /\ q1.awaits = None /\ q1.ran
      /\ (q1.retained <=> q.retained)
  <2> HIDE DEF step
  <2>1. DOMAIN q = {"stage", "client", "generation", "base", "reply", "awaits", "ran", "retained"}
    BY <1>1 DEF HandlerType
  <2>2. q1 \in HandlerType
    BY <1>1, <1>3, <1>5 DEF HandlerType, Stages
  <2> QED BY <1>1, <2>1, <2>2
<1>7. /\ t \in Taken /\ t # None /\ t.item = intent.item /\ t.action = intent.action
      /\ t.free = f /\ t.at = now
      /\ q.retained => t.kind = intent.kind
      /\ ~ q.retained => t.kind = "orphan"
  <2>1. intent.kind \in Meanings \ {"orphan"} /\ intent.item \in Items \cup {None}
        /\ intent.action \in Actions \cup {None}
    BY DEF Fits
  <2>2. PICK k \in Meanings : k = IF q.retained THEN intent.kind ELSE "orphan"
    BY <2>1 DEF Meanings
  <2>3. t = [kind |-> k, item |-> intent.item, action |-> intent.action, free |-> f, at |-> now]
    BY <2>2
  <2> HIDE DEF t
  <2>4. t \in Taken
    BY <1>2, <2>1, <2>3 DEF Taken
  <2> QED BY <2>2, <2>3, <2>4, NoneIsNothing
<1> HIDE DEF e1, q1, t
<1>8. Runs(q1) /\ Claims(q1) /\ g <= g
  BY <1>1, <1>6, GenerationsAre DEF Runs, Claims
<1>9. Shapes(e1, h, q1, t)
  BY NoneIsNothing, <1>1, <1>3, <1>4, <1>5, <1>6, <1>7, <1>8 DEF Ready, Shapes
<1>10. Races(e1, h, q1)
  BY <1>1, <1>4, <1>6, <1>8 DEF Ready, Races
<1> DEFINE o == Own(c, h)
           p == Known(c, h, g, t)
<1>11. /\ p[g] = t
       /\ \A k \in Generations(c) : k # g => p[k] = o[k]
  <2>1. t # None => q1.generation = e1.generation
    BY <1>4, <1>6
  <2>2. GatewayTypeOK /\ EntriesOK
    BY DEF GatewayInv
  <2>3. LET cc == q1.client  pp == Known(cc, h, q1.generation, t)
           IN  /\ t # None => pp[q1.generation] = t
               /\ \A k \in Generations(cc) : t = None \/ k # q1.generation => pp[k] = Own(cc, h)[k]
    BY <1>9, <2>1, <2>2, KnownIs
  <2> QED BY <1>6, <1>7, <2>3
<1>12. g \in Nat \ {0} /\ g - 1 \in Nat /\ \A k \in 1 .. g - 1 : k \in Generations(c) /\ k # g
  BY <1>1, GenerationsAre
<1>13. ASSUME NoOrphans(p, g)
       PROVE  Justified(e1.session, p, g) /\ Approved(q1.reply, p, g)
  <2> HIDE DEF p, o, step
  <2>1. \A k \in 1 .. g - 1 : o[k] = p[k]
    BY <1>11, <1>12
  <2>2. q.retained
    <3>1. ~ Orphaned(p[g])
      BY <1>12, <1>13 DEF NoOrphans
    <3> QED BY <1>7, <1>11, <3>1 DEF Orphaned
  <2>3. NoOrphans(o, g - 1)
    <3>1. \A k \in 1 .. g - 1 : ~ Orphaned(p[k])
      BY <1>12, <1>13 DEF NoOrphans
    <3> QED BY <2>1, <3>1 DEF NoOrphans
  <2>4. Justified(q.base, o, g - 1)
    BY <2>2, <2>3 DEF Ready, o
  <2>5. Justified(q.base, p, g - 1)
    <3> HIDE DEF c, g
    <3> QED BY <1>12, <2>1, <2>4, HistoriesAgree
  <2>6. p[g] # None /\ p[g].kind = intent.kind /\ p[g].item = intent.item
        /\ p[g].action = intent.action /\ p[g].free = f /\ p[g].at = now
    BY <1>7, <1>11, <2>2
  <2>7. LET r == reduce(q.base, intent, now, f)
        IN  Justified(r.next, p, g) /\ Approved(r.effect, p, g)
    <3> HIDE DEF c, g
    <3> QED BY <1>1, <1>2, <1>12, <2>5, <2>6, ReduceSound
  <2> QED BY <1>4, <1>6, <2>7 DEF step
<1>14. Reasons(e1, h, q1, t)
  <2>1. ~ q.retained => Orphaned(t)
    BY <1>7 DEF Orphaned
  <2>2. t.kind = "cancel" => e1.session = Empty
    BY <1>3, <1>4, <1>7
  <2> HIDE DEF step
  <2> QED BY <1>4, <1>6, <1>7, <1>13, <2>1, <2>2 DEF Reasons
<1>15. Serves(e1, h, q1, t)
  BY <1>9, <1>10, <1>14 DEF Serves
<1> QED BY <1>15 DEF Performing, e1, q1, t

\* A request that is answered from what is known, or waits for the arrival of
\* it that runs.
LEMMA RepeatServes ==
    ASSUME GatewayInv, NEW h \in Handlers, NEW c \in Clients, Fresh(c), handler[h] = Idle,
           NEW e \in EntryType, e.session = entry[c].session, e.generation = entry[c].generation,
           e.result = entry[c].result, e.inFlight = entry[c].inFlight,
           NEW q \in HandlerType, q.client = c, q.generation \in Generations(c),
           q.generation <= entry[c].generation, q.retained, ~ q.ran, q.base = Empty,
           \/ /\ q.stage = "answered" /\ q.awaits = None
              /\ \/ q.reply = Cancelled
                 \/ /\ q.generation = entry[c].generation /\ entry[c].result # None
                    /\ q.reply = entry[c].result
           \/ /\ q.stage = "joined" /\ q.generation = entry[c].generation
              /\ q.awaits = entry[c].inFlight /\ q.awaits # None
    PROVE  Serves(e, h, q, None)
<1> DEFINE n == entry[c].generation
<1>1. /\ GatewayTypeOK /\ EntriesOK /\ HandlersOK /\ RunnersOK /\ AnswersOK /\ SessionsJustified
  BY DEF GatewayInv
<1>2. /\ OneMode(e.session) /\ (e.result = None \/ e.inFlight = None)
      /\ entry[c].generation \in 0 .. Len(Says[c])
  BY <1>1 DEF EntriesOK
<1>3. c \in Retained /\ n > 0
  BY DEF Fresh, Retained
<1>4. n \in Generations(c) /\ n <= n
  BY <1>2, <1>3, GenerationsAre
<1>5. ~ Reborn(c, h) /\ Own(c, h) = took[c]
  BY DEF Reborn, Own
<1>6. OneMode(Empty) /\ ~ Runs(q) /\ ~ Claims(q) /\ q.stage \notin {"idle", "hearing", "interpreting"}
  BY DEF OneMode, Empty, Runs, Claims
<1>7. Shapes(e, h, q, None)
  <2>1. Cancelled # None
    BY NoneIsNothing DEF Cancelled, Effect, Reply
  <2>2. q.stage \in {"replying", "answered"} => q.reply # None
    BY <2>1
  <2> QED BY <1>2, <1>3, <1>4, <1>6, <2>2 DEF Shapes
<1>8. ASSUME NEW x \in Handlers, NEW g, Peer(x, c, g, h)
      PROVE  /\ x # h /\ handler[x].retained /\ handler[x].client = c /\ handler[x].generation = g
             /\ g = n => IsCurrent(handler[x])
  BY <1>3, <1>8 DEF Peer, IsCurrent
<1>9. \A x \in Handlers : Peer(x, c, n, h) /\ Runs(handler[x]) => e.inFlight = x
  BY <1>1, <1>8 DEF RunnersOK
<1>10. e.result # None => \A x \in Handlers : Peer(x, c, n, h) /\ handler[x].stage = "answered" =>
           handler[x].reply \in {e.result, Cancelled}
  BY <1>1, <1>8 DEF AnswersOK
<1>11. ASSUME e.inFlight # None
       PROVE  Peer(e.inFlight, c, n, h) /\ Runs(handler[e.inFlight])
  <2> DEFINE i == e.inFlight
  <2>1. i \in Handlers
    BY <1>11 DEF EntryType
  <2>2. Runs(handler[i]) /\ handler[i].retained /\ handler[i].client = c /\ handler[i].generation = n
    BY <1>1, <1>11 DEF RunnersOK
  <2>3. i # h
    BY <2>2 DEF Runs, Idle
  <2> QED BY <1>5, <2>1, <2>2, <2>3 DEF Peer
<1>12. q.stage = "answered" => \A x \in Handlers : Peer(x, c, q.generation, h) =>
              /\ Runs(handler[x]) => q.reply = Cancelled
              /\ handler[x].stage = "answered" =>
                    q.reply = handler[x].reply \/ Cancelled \in {q.reply, handler[x].reply}
  <2>1. CASE q.reply = Cancelled
    BY <2>1
  <2>2. CASE q.generation = n /\ e.result # None /\ q.reply = e.result
    <3>1. e.inFlight = None
      BY <1>2, <2>2
    <3>2. \A x \in Handlers : x # None
      BY NoneIsNothing
    <3> QED BY <1>9, <1>10, <2>2, <3>1, <3>2
  <2>3. CASE q.stage = "joined"
    BY <2>3
  <2> QED BY <2>1, <2>2, <2>3
<1>13. q.stage = "answered" /\ q.generation = e.generation /\ e.result # None =>
          q.reply \in {e.result, Cancelled}
  OBVIOUS
<1>14. q.awaits # None => Peer(q.awaits, c, q.generation, h) /\ Runs(handler[q.awaits])
  BY <1>11
<1>15. Races(e, h, q)
  <2> HIDE DEF n
  <2>1. e.generation = n
    BY DEF n
  <2> QED BY <1>6, <1>9, <1>10, <1>11, <1>12, <1>13, <1>14, <2>1 DEF Races
<1>16. NoOrphans(took[c], n) => Justified(e.session, took[c], n)
  BY <1>1 DEF SessionsJustified
<1>17. Known(c, h, q.generation, None) = took[c]
  BY <1>5 DEF Known
<1>18. Reasons(e, h, q, None)
  BY <1>5, <1>6, <1>16, <1>17 DEF Reasons
<1> QED BY <1>7, <1>15, <1>18 DEF Serves

LEMMA StoredIsServed ==
    ASSUME GatewayInv, NEW e, NEW h \in Handlers, NEW q, NEW t, Serves(e, h, q, t),
           Store(q.client, e, h, With(h, q), t), Spoken(q), now' = now, retries' \in Nat
    PROVE  GatewayInv'
<1>1. GatewayTypeOK /\ OrderOK /\ q.client \in Clients
  BY DEF GatewayInv, Serves, Shapes
<1>2. PICK kept : Updated(q.client, e, h, With(h, q), t, kept)
  BY <1>1, StoreUpdates
<1> QED BY <1>2, ServingPreserves

LEMMA PerformPreserves ==
    ASSUME GatewayInv, NEW e, NEW h \in Handlers, NEW q, Ready(e, h, q),
           NEW intent, Fits(intent, q.base), NEW f \in BOOLEAN,
           Perform(h, q, e, intent, f), Spoken(q), now' = now, retries' \in Nat
    PROVE  GatewayInv'
<1> DEFINE step == reduce(q.base, intent, now, f)
           e1 == [e EXCEPT !.session = step.next, !.usedAt = now]
           q1 == [q EXCEPT !.stage = "replying", !.reply = step.effect, !.ran = TRUE, !.base = Empty]
           t == [kind |-> IF q.retained THEN intent.kind ELSE "orphan", item |-> intent.item,
                 action |-> intent.action, free |-> f, at |-> now]
<1>1. Serves(e1, h, q1, t)
  <2>1. Performing(h, q, e, intent, f)
    BY ReadyPerforms
  <2> QED BY <2>1 DEF Performing
<1>2. Store(q.client, e1, h, With(h, q1), t)
  BY DEF Perform
<1>3. q1.client = q.client /\ q1.generation = q.generation
  <2>1. DOMAIN q = {"stage", "client", "generation", "base", "reply", "awaits", "ran", "retained"}
    BY DEF Ready, HandlerType
  <2> HIDE DEF step
  <2> QED BY <2>1
<1> HIDE DEF e1, q1, t
<1>4. Spoken(q1) /\ Store(q1.client, e1, h, With(h, q1), t)
  BY <1>2, <1>3 DEF Spoken
<1> QED BY <1>1, <1>4, StoredIsServed

LEMMA WaitPreserves ==
    ASSUME GatewayInv, NEW e, NEW h \in Handlers, NEW q, Ready(e, h, q),
           NEW s \in {"hearing", "interpreting"}, s = "interpreting" => q.base.dictating = None,
           Store(q.client, e, h, With(h, [q EXCEPT !.stage = s]), None),
           Spoken(q), now' = now, retries' \in Nat
    PROVE  GatewayInv'
<1> DEFINE q1 == [q EXCEPT !.stage = s]
<1>1. Serves(e, h, q1, None)
  BY WaitingServes
<1>2. q1.client = q.client /\ q1.generation = q.generation
  <2>1. DOMAIN q = {"stage", "client", "generation", "base", "reply", "awaits", "ran", "retained"}
    BY DEF Ready, HandlerType
  <2> QED BY <2>1
<1>3. Store(q.client, e, h, With(h, q1), None)
  OBVIOUS
<1> HIDE DEF q1
<1>4. Spoken(q1) /\ Store(q1.client, e, h, With(h, q1), None)
  BY <1>2, <1>3 DEF Spoken
<1> QED BY <1>1, <1>4, StoredIsServed

LEMMA UnderstandPreserves ==
    ASSUME GatewayInv, NEW e, NEW h \in Handlers, NEW q, Ready(e, h, q), NEW u \in Utterance,
           Understand(h, q, e, u), Spoken(q), now' = now, retries' \in Nat
    PROVE  GatewayInv'
<1> DEFINE intent == parse(u, q.base)
<1>1. q.base \in Fields /\ OneMode(q.base)
  BY DEF Ready, HandlerType
<1>2. /\ intent.kind # "unknown" => Fits(intent, q.base)
      /\ intent.kind = "unknown" => q.base.dictating = None
  BY <1>1, ParseFits
<1>3. CASE intent.kind = "unknown"
  <2>1. Store(q.client, e, h, With(h, [q EXCEPT !.stage = "interpreting"]), None)
    BY <1>3 DEF Understand
  <2> QED BY <1>2, <1>3, <2>1, WaitPreserves
<1>4. CASE intent.kind # "unknown"
  <2>1. Perform(h, q, e, intent, FALSE)
    BY <1>4 DEF Understand
  <2> HIDE DEF intent
  <2> QED BY <1>2, <1>4, <2>1, PerformPreserves
<1> QED BY <1>3, <1>4

LEMMA RunPreserves ==
    ASSUME GatewayInv, NEW h \in Handlers, NEW c \in Clients, NEW g \in Generations(c),
           handler[h] = Idle, Fresh(c) => entry[c].generation < g,
           NEW u \in Utterance, Run(h, c, g, u), said'[c][g] # None, DOMAIN said' = Clients,
           \A x \in Clients : said'[x] \in [Generations(x) -> Utterance \cup {None}],
           \A x \in Clients : \A k \in Generations(x) : said[x][k] # None => said'[x][k] # None,
           now' = now, retries' \in Nat
    PROVE  GatewayInv'
<1> DEFINE base == IF Fresh(c) THEN entry[c].session ELSE Empty
           q == [Idle EXCEPT !.client = c, !.generation = g, !.base = base, !.retained = TRUE]
           e == [session |-> base, generation |-> g, usedAt |-> now, result |-> None, inFlight |-> h]
<1>1. Ready(e, h, q)
  BY RunIsReady
<1>2. q.client = c /\ q.generation = g
  BY DEF Idle
<1>3. /\ u.route = "audio" => Store(c, e, h, With(h, [q EXCEPT !.stage = "hearing"]), None)
      /\ u.route = "text" => Understand(h, q, e, u)
      /\ u.route = "cancel" => Perform(h, q, e, Plain("cancel"), FALSE)
  BY DEF Run, Begin
<1>4. u.route \in {"audio", "text", "cancel"}
  BY DEF Utterance
<1> HIDE DEF q, e
<1>5. Spoken(q)
  BY <1>2 DEF Spoken
<1>6. CASE u.route = "audio"
  <2>1. Store(q.client, e, h, With(h, [q EXCEPT !.stage = "hearing"]), None)
    BY <1>2, <1>3, <1>6
  <2> QED BY <1>1, <1>5, <2>1, WaitPreserves
<1>7. CASE u.route = "text"
  BY <1>1, <1>3, <1>5, <1>7, UnderstandPreserves
<1>8. CASE u.route = "cancel"
  <2>1. Fits(Plain("cancel"), q.base)
    BY DEF Fits, Plain, Intent, Meanings
  <2>2. Perform(h, q, e, Plain("cancel"), FALSE)
    BY <1>3, <1>8
  <2> QED BY <1>1, <1>5, <2>1, <2>2, PerformPreserves
<1> QED BY <1>4, <1>6, <1>7, <1>8

LEMMA RetryPreserves ==
    ASSUME GatewayInv, NEW h \in Handlers, NEW c \in Clients, NEW g \in Generations(c),
           handler[h] = Idle, Fresh(c), entry[c].generation = g,
           NEW u, Retry(h, c, g, u), said'[c][g] # None, DOMAIN said' = Clients,
           \A x \in Clients : said'[x] \in [Generations(x) -> Utterance \cup {None}],
           \A x \in Clients : \A k \in Generations(x) : said[x][k] # None => said'[x][k] # None,
           now' = now, retries' \in Nat
    PROVE  GatewayInv'
<1> DEFINE e == [entry[c] EXCEPT !.usedAt = now]
           q == [Idle EXCEPT !.client = c, !.generation = g, !.retained = TRUE]
           j == [q EXCEPT !.stage = "joined", !.awaits = e.inFlight]
           r == IF e.result # None THEN Answered(q, e.result)
                ELSE IF e.inFlight # None THEN j ELSE Answered(q, Cancelled)
<1>1. GatewayTypeOK /\ EntriesOK /\ entry[c] \in EntryType /\ now \in 0 .. MaxNow /\ g \in Nat
  BY GenerationsAre DEF GatewayInv, GatewayTypeOK
<1>2. e \in EntryType /\ e.session = entry[c].session /\ e.generation = entry[c].generation
      /\ e.result = entry[c].result /\ e.inFlight = entry[c].inFlight
  <2>1. DOMAIN entry[c] = {"session", "generation", "usedAt", "result", "inFlight"}
    BY <1>1 DEF EntryType
  <2>2. e \in EntryType
    BY <1>1 DEF EntryType
  <2> QED BY <2>1, <2>2
<1>3. /\ Idle \in HandlerType /\ Idle.base = Empty /\ Idle.awaits = None /\ ~ Idle.ran
      /\ DOMAIN Idle = {"stage", "client", "generation", "base", "reply", "awaits", "ran", "retained"}
  BY DEF Idle, HandlerType, Stages, Empty, Fields
<1>4. /\ q \in HandlerType /\ q.client = c /\ q.generation = g /\ q.base = Empty /\ q.awaits = None
      /\ ~ q.ran /\ q.retained
      /\ DOMAIN q = {"stage", "client", "generation", "base", "reply", "awaits", "ran", "retained"}
  <2>1. q \in HandlerType
    BY <1>1, <1>3 DEF HandlerType
  <2> QED BY <1>3, <2>1
<1>5. Store(c, e, h, With(h, r), None)
  BY DEF Retry
<1>6. Cancelled \in Reply /\ Empty \in Fields
  BY DEF Cancelled, Effect, Reply, Empty, Fields
<1> HIDE DEF q, e
<1>7. ASSUME NEW x \in Reply
      PROVE  /\ Answered(q, x) \in HandlerType /\ Answered(q, x).client = c
             /\ Answered(q, x).generation = g /\ Answered(q, x).base = Empty
             /\ Answered(q, x).awaits = None /\ ~ Answered(q, x).ran /\ Answered(q, x).retained
             /\ Answered(q, x).stage = "answered" /\ Answered(q, x).reply = x
  <2>1. Answered(q, x) \in HandlerType
    BY <1>4, <1>6 DEF Answered, HandlerType, Stages
  <2> QED BY <1>4, <2>1 DEF Answered
<1>8. e.inFlight # None =>
             /\ j \in HandlerType /\ j.client = c /\ j.generation = g /\ j.base = Empty
             /\ j.awaits = e.inFlight /\ ~ j.ran /\ j.retained /\ j.stage = "joined"
  <2>1. j \in HandlerType
    BY <1>2, <1>4 DEF HandlerType, Stages, EntryType
  <2> QED BY <1>4, <2>1
<1>9. e.result # None => e.result \in Reply
  BY <1>2 DEF EntryType
<1> HIDE DEF j
<1>10. /\ r \in HandlerType /\ r.client = c /\ r.generation = g /\ r.base = Empty
       /\ ~ r.ran /\ r.retained
       /\ \/ /\ r.stage = "answered" /\ r.awaits = None
             /\ r.reply = Cancelled \/ (e.result # None /\ r.reply = e.result)
          \/ r.stage = "joined" /\ r.awaits = e.inFlight /\ r.awaits # None
  <2>1. CASE e.result # None
    BY <1>7, <1>9, <2>1
  <2>2. CASE e.result = None /\ e.inFlight # None
    BY <1>8, <2>2
  <2>3. CASE e.result = None /\ e.inFlight = None
    BY <1>6, <1>7, <2>3
  <2> QED BY <2>1, <2>2, <2>3
<1> HIDE DEF r
<1>11. r.generation \in Generations(c) /\ r.generation <= entry[c].generation
  BY <1>1, <1>10
<1>12. Serves(e, h, r, None)
  BY <1>2, <1>10, <1>11, RepeatServes
<1>13. Spoken(r) /\ Store(r.client, e, h, With(h, r), None)
  BY <1>5, <1>10 DEF Spoken
<1> QED BY <1>12, <1>13, StoredIsServed

LEMMA OvertakenPreserves ==
    ASSUME GatewayInv, NEW h \in Handlers, NEW c \in Clients, NEW g \in Generations(c),
           handler[h] = Idle, Fresh(c), g < entry[c].generation,
           Overtaken(h, c, g), said'[c][g] # None, DOMAIN said' = Clients,
           \A x \in Clients : said'[x] \in [Generations(x) -> Utterance \cup {None}],
           \A x \in Clients : \A k \in Generations(x) : said[x][k] # None => said'[x][k] # None,
           now' = now, retries' \in Nat
    PROVE  GatewayInv'
<1> DEFINE q == [Idle EXCEPT !.client = c, !.generation = g, !.retained = TRUE]
           r == Answered(q, Cancelled)
<1>1. GatewayTypeOK /\ OrderOK /\ entry[c] \in EntryType /\ g \in Nat /\ entry[c].generation \in Nat
  BY GenerationsAre DEF GatewayInv, GatewayTypeOK, EntryType
<1>2. /\ Idle \in HandlerType /\ Idle.base = Empty /\ Idle.awaits = None /\ ~ Idle.ran
      /\ DOMAIN Idle = {"stage", "client", "generation", "base", "reply", "awaits", "ran", "retained"}
  BY DEF Idle, HandlerType, Stages, Empty, Fields
<1>3. /\ q \in HandlerType /\ q.client = c /\ q.generation = g /\ q.base = Empty /\ q.awaits = None
      /\ ~ q.ran /\ q.retained
      /\ DOMAIN q = {"stage", "client", "generation", "base", "reply", "awaits", "ran", "retained"}
  <2>1. q \in HandlerType
    BY <1>1, <1>2 DEF HandlerType
  <2> QED BY <1>2, <2>1
<1>4. PICK kept : Updated(c, entry[c], h, With(h, r), None, kept)
  BY <1>1, OvertakenUpdates
<1>5. Cancelled \in Reply /\ Empty \in Fields
  BY DEF Cancelled, Effect, Reply, Empty, Fields
<1> HIDE DEF q
<1>6. /\ r \in HandlerType /\ r.client = c /\ r.generation = g /\ r.base = Empty /\ r.awaits = None
      /\ ~ r.ran /\ r.retained /\ r.stage = "answered" /\ r.reply = Cancelled
  <2>1. r \in HandlerType
    BY <1>3, <1>5 DEF Answered, HandlerType, Stages
  <2> QED BY <1>3, <2>1 DEF Answered
<1> HIDE DEF r
<1>7. r.generation \in Generations(c) /\ r.generation <= entry[c].generation
  BY <1>1, <1>6
<1>8. Serves(entry[c], h, r, None)
  BY <1>1, <1>6, <1>7, RepeatServes
<1>9. Spoken(r) /\ Updated(r.client, entry[c], h, With(h, r), None, kept)
  BY <1>4, <1>6 DEF Spoken
<1> QED BY <1>8, <1>9, ServingPreserves

LEMMA ArrivePreserves ==
    ASSUME GatewayInv, NEW h \in Handlers, NEW c \in Clients, NEW g \in Generations(c),
           NEW u \in Says[c][g], Arrive(h, c, g, u)
    PROVE  GatewayInv'
<1>1. /\ GatewayTypeOK /\ u \in Utterance /\ u # None /\ now' = now /\ handler[h] = Idle
      /\ g \in Nat /\ entry[c].generation \in Nat
  BY GenerationsAre, NoneIsNothing DEF GatewayInv, GatewayTypeOK, EntryType, Arrive
<1>2. retries' \in Nat
  BY <1>1 DEF Arrive, GatewayTypeOK
<1>3. /\ said' = [said EXCEPT ![c][g] = u] /\ DOMAIN said = Clients
      /\ \A x \in Clients : said[x] \in [Generations(x) -> Utterance \cup {None}]
  BY <1>1 DEF Arrive, GatewayTypeOK
<1>4. /\ DOMAIN said' = Clients
      /\ \A x \in Clients : said'[x] = IF x = c THEN [said[c] EXCEPT ![g] = u] ELSE said[x]
  BY <1>3
<1>5. /\ said'[c][g] # None
      /\ \A x \in Clients : said'[x] \in [Generations(x) -> Utterance \cup {None}]
      /\ \A x \in Clients : \A k \in Generations(x) : said[x][k] # None => said'[x][k] # None
  <2>1. said'[c] = [said[c] EXCEPT ![g] = u] /\ said[c] \in [Generations(c) -> Utterance \cup {None}]
    BY <1>3, <1>4
  <2>2. /\ said'[c] \in [Generations(c) -> Utterance \cup {None}] /\ said'[c][g] = u
        /\ \A k \in Generations(c) : said[c][k] # None => said'[c][k] # None
    BY <1>1, <2>1
  <2>3. \A x \in Clients \ {c} : said'[x] = said[x]
    BY <1>4
  <2> QED BY <1>1, <1>3, <2>2, <2>3
<1>6. CASE ~ Fresh(c)
  <2>1. Run(h, c, g, u)
    BY <1>6 DEF Arrive, HandleRequest
  <2> QED BY <1>1, <1>2, <1>4, <1>5, <1>6, <2>1, RunPreserves
<1>7. CASE Fresh(c) /\ g < entry[c].generation
  <2>1. Overtaken(h, c, g)
    BY <1>7 DEF Arrive, HandleRequest
  <2> QED BY <1>1, <1>2, <1>4, <1>5, <1>7, <2>1, OvertakenPreserves
<1>8. CASE Fresh(c) /\ g = entry[c].generation
  <2>1. Retry(h, c, g, u)
    BY <1>1, <1>8 DEF Arrive, HandleRequest
  <2> QED BY <1>1, <1>2, <1>4, <1>5, <1>8, <2>1, RetryPreserves
<1>9. CASE Fresh(c) /\ entry[c].generation < g
  <2>1. Run(h, c, g, u)
    BY <1>1, <1>9 DEF Arrive, HandleRequest
  <2> QED BY <1>1, <1>2, <1>4, <1>5, <1>9, <2>1, RunPreserves
<1>10. g < entry[c].generation \/ g = entry[c].generation \/ entry[c].generation < g
  BY <1>1
<1> QED BY <1>6, <1>7, <1>8, <1>9, <1>10

LEMMA ContinuePreserves ==
    ASSUME GatewayInv, NEW h \in Handlers, handler[h].stage \in {"hearing", "interpreting"},
           IsCurrent(handler[h]), NEW intent, Fits(intent, handler[h].base), NEW f \in BOOLEAN,
           Perform(h, handler[h], entry[handler[h].client], intent, f),
           UNCHANGED <<now, said, retries>>
    PROVE  GatewayInv'
<1>1. Ready(entry[handler[h].client], h, handler[h])
  BY ContinuingIsReady
<1>2. GatewayTypeOK /\ HandlersOK
  BY DEF GatewayInv
<1>3. now' = now /\ retries' \in Nat
  BY <1>2 DEF GatewayTypeOK
<1>4. Spoken(handler[h])
  BY <1>2 DEF GatewayTypeOK, HandlersOK, Spoken
<1> QED BY <1>1, <1>3, <1>4, PerformPreserves

-----------------------------------------------------------------------------
(* Steps that commit nothing to a session.                                 *)

\* What a handler may become in such a step.
Calm(p, q) ==
    /\ q.client = p.client /\ q.generation = p.generation
    /\ (q.retained <=> p.retained) /\ (q.ran <=> p.ran)
    /\ q.stage = "idle" <=> p.stage = "idle"
    /\ OneMode(q.base)
    /\ q.awaits # None => q.stage = "joined"
    /\ q.stage = "joined" => ~ q.ran
    /\ q.stage = "interpreting" => q.base.dictating = None
    /\ q.stage \in {"hearing", "interpreting"} =>
          ~ q.ran /\ p.stage \in {"hearing", "interpreting"} /\ q.base = p.base
    /\ q.stage \in {"replying", "answered"} => q.reply # None
    /\ q.reply = p.reply \/ ~ q.ran \/ q.reply.kind \notin {"dispatch", "dispatchIntent"}

Calms(hs) == \A x \in Handlers : hs[x] = Idle \/ Calm(handler[x], hs[x])

\* The handlers become hs; a session may be dropped, and the others are as
\* before but for what was recorded.
Quiet(hs) ==
    /\ UNCHANGED <<now, said, retries>>
    /\ newer' \in [Clients -> SUBSET Clients] /\ Ordered(Retained', newer')
    /\ entry' \in [Clients -> EntryType] /\ handler' \in [Handlers -> HandlerType]
    /\ DOMAIN took' = Clients
    /\ \A c \in Retained' :
          /\ c \in Retained /\ took'[c] = took[c]
          /\ entry'[c].session = entry[c].session /\ entry'[c].generation = entry[c].generation
          /\ entry'[c].result = None \/ entry'[c].inFlight = None
    /\ \A c \in Clients \ Retained' :
          entry'[c] = NoEntry /\ \A g \in Generations(c) : took'[c][g] = None
    /\ \A c \in Clients : took'[c] \in [Generations(c) -> Taken \cup {None}]
    /\ \A x \in Handlers :
          /\ handler'[x].stage = hs[x].stage /\ handler'[x].client = hs[x].client
          /\ handler'[x].generation = hs[x].generation /\ handler'[x].base = hs[x].base
          /\ handler'[x].reply = hs[x].reply /\ handler'[x].awaits = hs[x].awaits
          /\ handler'[x].ran <=> hs[x].ran
          /\ handler'[x].retained <=> hs[x].retained /\ hs[x].client \in Retained'

LEMMA UnchangedIsQuiet ==
    ASSUME GatewayInv, NEW hs \in [Handlers -> HandlerType], Calms(hs), handler' = hs,
           UNCHANGED <<now, newer, entry, said, retries, took>>
    PROVE  Quiet(hs)
<1>1. GatewayTypeOK /\ OrderOK /\ EntriesOK /\ HandlersOK
  BY DEF GatewayInv
<1>2. Retained' = Retained /\ Retained \subseteq Clients
  BY DEF Retained
<1>3. /\ newer' \in [Clients -> SUBSET Clients] /\ Ordered(Retained', newer')
      /\ entry' \in [Clients -> EntryType] /\ handler' \in [Handlers -> HandlerType]
      /\ DOMAIN took' = Clients
      /\ \A c \in Clients : took'[c] \in [Generations(c) -> Taken \cup {None}]
  BY <1>1, <1>2 DEF GatewayTypeOK, OrderOK
<1>4. \A c \in Retained' :
          /\ c \in Retained /\ took'[c] = took[c]
          /\ entry'[c].session = entry[c].session /\ entry'[c].generation = entry[c].generation
          /\ entry'[c].result = None \/ entry'[c].inFlight = None
  BY <1>1, <1>2 DEF EntriesOK
<1>5. ASSUME NEW c \in Clients \ Retained'
      PROVE  entry'[c] = NoEntry /\ \A g \in Generations(c) : took'[c][g] = None
  <2>1. entry[c] = NoEntry /\ \A g \in Generations(c) : g > entry[c].generation => took[c][g] = None
    BY <1>1, <1>2 DEF EntriesOK
  <2>2. \A g \in Generations(c) : g > entry[c].generation
    BY <2>1, GenerationsAre DEF NoEntry
  <2> QED BY <2>1, <2>2
<1>6. ASSUME NEW x \in Handlers, hs[x].retained PROVE hs[x].client \in Retained'
  <2>1. hs[x] # Idle
    BY <1>6 DEF Idle
  <2>2. hs[x].client = handler[x].client /\ handler[x].retained
    BY <1>6, <2>1 DEF Calms, Calm
  <2> QED BY <1>1, <1>2, <2>2 DEF HandlersOK
<1> QED BY <1>3, <1>4, <1>5, <1>6 DEF Quiet

LEMMA QuietKeeps ==
    ASSUME GatewayInv, NEW hs \in [Handlers -> HandlerType], Calms(hs), Quiet(hs)
    PROVE  /\ GatewayTypeOK' /\ OrderOK' /\ EntriesOK' /\ HandlersOK'
           /\ SessionsJustified' /\ CancelHolds' /\ BasesJustified' /\ RepliesApproved'
<1>1. /\ GatewayTypeOK /\ OrderOK /\ EntriesOK /\ HandlersOK
      /\ SessionsJustified /\ CancelHolds /\ BasesJustified /\ RepliesApproved
  BY DEF GatewayInv
<1>2. GatewayTypeOK' /\ OrderOK'
  BY <1>1 DEF GatewayTypeOK, OrderOK, Quiet
<1>3. ASSUME NEW c \in Clients
      PROVE  /\ OneMode(entry'[c].session)
             /\ entry'[c].generation \in 0 .. Len(Says[c])
             /\ entry'[c].result = None \/ entry'[c].inFlight = None
             /\ c \notin Retained' => entry'[c] = NoEntry
             /\ \A g \in Generations(c) : g > entry'[c].generation => took'[c][g] = None
             /\ NoOrphans(took'[c], entry'[c].generation) =>
                   Justified(entry'[c].session, took'[c], entry'[c].generation)
  <2>1. CASE c \in Retained'
    BY <1>1, <2>1 DEF Quiet, EntriesOK, SessionsJustified
  <2>2. CASE c \notin Retained'
    <3>1. entry'[c] = NoEntry /\ \A g \in Generations(c) : took'[c][g] = None
      BY <2>2 DEF Quiet
    <3>2. entry'[c].session = Empty /\ entry'[c].generation = 0 /\ entry'[c].result = None
      BY <3>1 DEF NoEntry
    <3>3. OneMode(Empty) /\ 0 \in 0 .. Len(Says[c])
      BY GenerationsAre DEF OneMode, Empty
    <3> QED BY <3>1, <3>2, <3>3, NothingIsJustified
  <2> QED BY <2>1, <2>2
<1>4. EntriesOK' /\ SessionsJustified'
  BY <1>3 DEF EntriesOK, SessionsJustified
<1>5. CancelHolds'
  BY <1>1 DEF Quiet, CancelHolds, Empty
<1>6. ASSUME NEW x \in Handlers
      PROVE  LET r == handler'[x]
             IN  /\ OneMode(r.base)
                 /\ r.stage = "idle" => ~ r.ran /\ ~ r.retained
                 /\ r.stage # "idle" =>
                       /\ r.client \in Clients /\ r.generation \in Generations(r.client)
                       /\ said'[r.client][r.generation] # None
                 /\ r.awaits # None => r.stage = "joined"
                 /\ r.stage = "joined" => ~ r.ran
                 /\ r.stage = "interpreting" => r.base.dictating = None
                 /\ r.stage \in {"hearing", "interpreting"} => ~ r.ran
                 /\ r.stage \in {"replying", "answered"} => r.reply # None
                 /\ r.retained => r.client \in Retained' /\ r.generation <= entry'[r.client].generation
  <2>1. /\ handler'[x].stage = hs[x].stage /\ handler'[x].client = hs[x].client
        /\ handler'[x].generation = hs[x].generation /\ handler'[x].base = hs[x].base
        /\ handler'[x].awaits = hs[x].awaits /\ handler'[x].reply = hs[x].reply
        /\ handler'[x].ran <=> hs[x].ran
        /\ handler'[x].retained <=> hs[x].retained /\ hs[x].client \in Retained'
        /\ said' = said
    BY DEF Quiet
  <2>2. CASE hs[x] = Idle
    <3>1. /\ OneMode(hs[x].base) /\ hs[x].stage = "idle" /\ ~ hs[x].ran /\ ~ hs[x].retained
          /\ hs[x].awaits = None
      BY <2>2 DEF Idle, OneMode, Empty
    <3> QED BY <2>1, <3>1
  <2>3. CASE Calm(handler[x], hs[x])
    <3>1. hs[x].retained /\ hs[x].client \in Retained' =>
             hs[x].generation <= entry'[hs[x].client].generation
      BY <1>1, <2>3 DEF Calm, HandlersOK, Quiet
    <3>2. /\ hs[x].stage = "idle" => ~ hs[x].ran /\ ~ hs[x].retained
          /\ hs[x].stage # "idle" =>
                /\ hs[x].client \in Clients /\ hs[x].generation \in Generations(hs[x].client)
                /\ said[hs[x].client][hs[x].generation] # None
      BY <1>1, <2>3 DEF Calm, HandlersOK
    <3> QED BY <2>1, <2>3, <3>1, <3>2 DEF Calm
  <2> QED BY <2>2, <2>3 DEF Calms
<1>7. HandlersOK'
  BY <1>6 DEF HandlersOK
<1>8. ASSUME NEW x \in Handlers, handler'[x].retained
      PROVE  /\ Calm(handler[x], hs[x]) /\ handler[x].retained
             /\ handler'[x].client = handler[x].client /\ handler'[x].generation = handler[x].generation
             /\ handler'[x].base = hs[x].base /\ handler'[x].stage = hs[x].stage
             /\ handler'[x].reply = hs[x].reply /\ (handler'[x].ran <=> handler[x].ran)
             /\ (handler[x].ran <=> hs[x].ran)
             /\ handler[x].client \in Retained' /\ handler[x].client \in Retained
             /\ took'[handler[x].client] = took[handler[x].client]
             /\ entry'[handler[x].client].generation = entry[handler[x].client].generation
  <2>1. hs[x].retained /\ hs[x].client \in Retained'
    BY <1>8 DEF Quiet
  <2>2. Calm(handler[x], hs[x])
    BY <2>1 DEF Calms, Idle
  <2> QED BY <2>1, <2>2 DEF Calm, Quiet
<1>9. ASSUME NEW x \in Handlers, handler'[x].retained, handler'[x].stage \in {"hearing", "interpreting"},
             entry'[handler'[x].client].generation = handler'[x].generation,
             NoOrphans(took'[handler'[x].client], handler'[x].generation - 1)
      PROVE  Justified(handler'[x].base, took'[handler'[x].client], handler'[x].generation - 1)
  <2>1. /\ handler[x].retained /\ handler[x].stage \in {"hearing", "interpreting"}
        /\ handler'[x].base = handler[x].base
        /\ IsCurrent(handler[x]) /\ NoOrphans(took[handler[x].client], handler[x].generation - 1)
    BY <1>8, <1>9 DEF Calm, IsCurrent
  <2>2. Justified(handler[x].base, took[handler[x].client], handler[x].generation - 1)
    BY <1>1, <2>1 DEF BasesJustified
  <2> QED BY <1>8, <1>9, <2>1, <2>2
<1>10. ASSUME NEW x \in Handlers, handler'[x].ran, handler'[x].retained,
              NoOrphans(took'[handler'[x].client], handler'[x].generation)
       PROVE  Approved(handler'[x].reply, took'[handler'[x].client], handler'[x].generation)
  <2>1. Approved(handler[x].reply, took[handler[x].client], handler[x].generation)
    BY <1>1, <1>8, <1>10 DEF RepliesApproved
  <2>2. CASE hs[x].reply = handler[x].reply
    BY <1>8, <1>10, <2>1, <2>2
  <2>3. CASE hs[x].reply.kind \notin {"dispatch", "dispatchIntent"}
    <3>1. \A p, g : Approved(hs[x].reply, p, g)
      BY <2>3 DEF Approved
    <3> QED BY <1>8, <1>10, <3>1
  <2> QED BY <1>8, <1>10, <2>2, <2>3 DEF Calm
<1>11. BasesJustified' /\ RepliesApproved'
  BY <1>9, <1>10 DEF BasesJustified, RepliesApproved, IsCurrent
<1> QED BY <1>2, <1>4, <1>5, <1>7, <1>11

LEMMA SetAsidePreserves ==
    ASSUME GatewayInv, NEW h \in Handlers, handler[h].stage \in {"hearing", "interpreting"},
           NEW q \in HandlerType, q.client = handler[h].client, q.generation = handler[h].generation,
           q.awaits = None, ~ q.ran, q.retained <=> handler[h].retained,
           \/ q.stage = "interpreting" /\ q.base = handler[h].base /\ q.base.dictating = None
           \/ q.stage = "replying" /\ q.reply # None /\ q.base = Empty,
           SetAside(h, q), UNCHANGED <<now, said, retries>>
    PROVE  GatewayInv'
<1> DEFINE hs == With(h, q)
<1>1. GatewayTypeOK /\ HandlersOK /\ RunnersOK /\ AnswersOK /\ EntriesOK
  BY DEF GatewayInv
<1>2. /\ hs \in [Handlers -> HandlerType] /\ hs[h] = q
      /\ \A x \in Handlers : x # h => hs[x] = handler[x]
  BY <1>1 DEF With, GatewayTypeOK
<1>3. handler' = hs /\ UNCHANGED <<now, newer, entry, said, retries, took>>
  BY DEF SetAside
<1> HIDE DEF hs
<1>4. OneMode(Empty) /\ ~ handler[h].ran /\ handler[h].awaits = None
  BY <1>1 DEF OneMode, Empty, HandlersOK
<1>5. Calm(handler[h], q)
  BY <1>1, <1>4 DEF Calm, HandlersOK
<1>6. ASSUME NEW x \in Handlers, x # h PROVE Calm(handler[x], hs[x])
  BY <1>1, <1>2, <1>6 DEF Calm, HandlersOK
<1>7. Calms(hs)
  BY <1>2, <1>5, <1>6 DEF Calms
<1>8. Quiet(hs)
  BY <1>2, <1>3, <1>7, UnchangedIsQuiet
<1>9. /\ GatewayTypeOK' /\ OrderOK' /\ EntriesOK' /\ HandlersOK'
      /\ SessionsJustified' /\ CancelHolds' /\ BasesJustified' /\ RepliesApproved'
  BY <1>2, <1>7, <1>8, QuietKeeps
<1>10. \A x \in Handlers :
          /\ Runs(handler'[x]) <=> Runs(handler[x])
          /\ Claims(handler'[x]) <=> Claims(handler[x])
          /\ handler'[x].stage = "answered" <=> handler[x].stage = "answered"
          /\ handler'[x].stage = "answered" => handler'[x].reply = handler[x].reply
          /\ handler'[x].awaits = handler[x].awaits
          /\ handler'[x].client = handler[x].client /\ handler'[x].generation = handler[x].generation
          /\ handler'[x].retained <=> handler[x].retained
  BY <1>2, <1>3, <1>4 DEF Runs, Claims
<1>11. entry' = entry /\ Retained' = Retained
  BY <1>3 DEF Retained
<1>12. entry \in [Clients -> EntryType] /\ handler \in [Handlers -> HandlerType]
  BY <1>1 DEF GatewayTypeOK
<1>13. \A c \in Clients : entry[c].inFlight # None => entry[c].inFlight \in Handlers
  BY <1>12 DEF EntryType
<1>14. \A x \in Handlers : handler[x].awaits # None => handler[x].awaits \in Handlers
  BY <1>12 DEF HandlerType
<1>15. RunnersOK'
  <2>1. \A x, i \in Handlers : SameRequest(x, i)' <=> SameRequest(x, i)
    BY <1>10 DEF SameRequest
  <2>2. \A x \in Handlers : IsCurrent(handler[x])' <=> IsCurrent(handler[x])
    BY <1>10, <1>11 DEF IsCurrent
  <2>3. \A x, i \in Handlers : x # i /\ SameRequest(x, i)' =>
          /\ ~ (Claims(handler'[x]) /\ Claims(handler'[i]))
          /\ Runs(handler'[x]) /\ handler'[i].stage = "answered" => handler'[i].reply = Cancelled
    BY <1>1, <1>10, <2>1 DEF RunnersOK
  <2>4. \A x \in Handlers : handler'[x].retained /\ Runs(handler'[x]) /\ IsCurrent(handler[x])' =>
          entry'[handler'[x].client].inFlight = x
    BY <1>1, <1>10, <1>11, <2>2 DEF RunnersOK
  <2>5. ASSUME NEW c \in Clients, entry'[c].inFlight # None
        PROVE  LET r == handler'[entry'[c].inFlight]
               IN  Runs(r) /\ r.retained /\ r.client = c /\ r.generation = entry'[c].generation
    BY <1>1, <1>10, <1>11, <1>13, <2>5 DEF RunnersOK
  <2>6. ASSUME NEW x \in Handlers, handler'[x].awaits # None, handler'[x].retained
        PROVE  LET r == handler'[handler'[x].awaits]
               IN  Runs(r) /\ r.retained
                   /\ handler'[x].client = r.client /\ handler'[x].generation = r.generation
    <3>1. handler[x].awaits # None /\ handler[x].retained /\ handler'[x].awaits = handler[x].awaits
          /\ handler[x].awaits \in Handlers
      BY <1>10, <1>14, <2>6
    <3>2. LET r == handler[handler[x].awaits]
          IN  Runs(r) /\ r.retained
              /\ handler[x].client = r.client /\ handler[x].generation = r.generation
      BY <1>1, <3>1 DEF RunnersOK, SameRequest
    <3> QED BY <1>10, <3>1, <3>2
  <2>7. \A x \in Handlers : handler'[x].awaits # None /\ handler'[x].retained =>
          LET r == handler'[handler'[x].awaits]
          IN  Runs(r) /\ r.retained /\ SameRequest(x, handler[x].awaits)'
    BY <2>6 DEF SameRequest
  <2>8. Cancelled' = Cancelled
    BY DEF Cancelled, Effect
  <2> QED BY <2>3, <2>4, <2>5, <2>7, <2>8 DEF RunnersOK, Runs, Claims
<1>16. AnswersOK'
  BY <1>1, <1>10, <1>11 DEF AnswersOK, SameRequest, IsCurrent, Cancelled
<1> QED BY <1>9, <1>15, <1>16 DEF GatewayInv

LEMMA LeavesPreserves ==
    ASSUME GatewayInv, NEW h \in Handlers, Leaves(h)
    PROVE  GatewayInv'
<1> DEFINE hs == With(h, Idle)
<1>1. GatewayTypeOK /\ HandlersOK /\ RunnersOK /\ AnswersOK
  BY DEF GatewayInv
<1>2. Idle \in HandlerType /\ ~ Runs(Idle) /\ ~ Claims(Idle) /\ ~ Idle.retained
      /\ Idle.stage # "answered" /\ Idle.awaits = None
  BY DEF Idle, HandlerType, Stages, Empty, Fields, Runs, Claims
<1>3. /\ hs \in [Handlers -> HandlerType] /\ hs[h] = Idle
      /\ \A x \in Handlers : x # h => hs[x] = handler[x]
  BY <1>1, <1>2 DEF With, GatewayTypeOK
<1>4. handler' = hs /\ UNCHANGED <<now, newer, entry, said, retries, took>>
      /\ handler[h].stage = "answered"
  BY DEF Leaves
<1> HIDE DEF hs
<1>5. ASSUME NEW x \in Handlers, x # h PROVE Calm(handler[x], hs[x])
  BY <1>1, <1>3, <1>5 DEF Calm, HandlersOK
<1>6. Calms(hs)
  BY <1>3, <1>5 DEF Calms
<1>7. Quiet(hs)
  BY <1>3, <1>4, <1>6, UnchangedIsQuiet
<1>8. /\ GatewayTypeOK' /\ OrderOK' /\ EntriesOK' /\ HandlersOK'
      /\ SessionsJustified' /\ CancelHolds' /\ BasesJustified' /\ RepliesApproved'
  BY <1>3, <1>6, <1>7, QuietKeeps
<1>9. handler'[h] = Idle /\ \A x \in Handlers : x # h => handler'[x] = handler[x]
  BY <1>3, <1>4
<1>10. entry' = entry /\ Retained' = Retained
  BY <1>4 DEF Retained
<1>11. ~ Runs(handler[h])
  BY <1>4 DEF Runs
<1>12. entry \in [Clients -> EntryType] /\ handler \in [Handlers -> HandlerType]
  BY <1>1 DEF GatewayTypeOK
<1>13. \A c \in Clients : entry[c].inFlight # None =>
          entry[c].inFlight \in Handlers /\ entry[c].inFlight # h
  BY <1>1, <1>11, <1>12 DEF EntryType, RunnersOK
<1>14. \A x \in Handlers : handler[x].awaits # None /\ handler[x].retained =>
          handler[x].awaits \in Handlers /\ handler[x].awaits # h
  BY <1>1, <1>11, <1>12 DEF HandlerType, RunnersOK
<1>15. RunnersOK'
  <2>1. \A x, i \in Handlers : SameRequest(x, i)' => SameRequest(x, i) /\ x # h /\ i # h
    BY <1>2, <1>9 DEF SameRequest
  <2>2. \A x \in Handlers : x # h /\ IsCurrent(handler[x])' => IsCurrent(handler[x])
    BY <1>9, <1>10 DEF IsCurrent
  <2>3. \A x, i \in Handlers : x # i /\ SameRequest(x, i)' =>
          /\ ~ (Claims(handler'[x]) /\ Claims(handler'[i]))
          /\ Runs(handler'[x]) /\ handler'[i].stage = "answered" => handler'[i].reply = Cancelled
    BY <1>1, <1>9, <2>1 DEF RunnersOK
  <2>4. \A x \in Handlers : handler'[x].retained /\ Runs(handler'[x]) /\ IsCurrent(handler[x])' =>
          entry'[handler'[x].client].inFlight = x
    BY <1>1, <1>2, <1>9, <1>10, <2>2 DEF RunnersOK
  <2>5. \A c \in Clients : entry'[c].inFlight # None =>
          LET r == handler'[entry'[c].inFlight]
          IN  Runs(r) /\ r.retained /\ r.client = c /\ r.generation = entry'[c].generation
    BY <1>1, <1>9, <1>10, <1>13 DEF RunnersOK
  <2>6. ASSUME NEW x \in Handlers, handler'[x].awaits # None, handler'[x].retained
        PROVE  LET r == handler'[handler'[x].awaits]
               IN  Runs(r) /\ r.retained
                   /\ handler'[x].client = r.client /\ handler'[x].generation = r.generation
    <3>1. x # h /\ handler'[x] = handler[x]
      BY <1>2, <1>9, <2>6
    <3>2. LET r == handler[handler[x].awaits]
          IN  Runs(r) /\ r.retained
              /\ handler[x].client = r.client /\ handler[x].generation = r.generation
      BY <1>1, <2>6, <3>1 DEF RunnersOK, SameRequest
    <3> QED BY <1>9, <1>14, <2>6, <3>1, <3>2
  <2>7. \A x \in Handlers : handler'[x].awaits # None /\ handler'[x].retained =>
          LET r == handler'[handler'[x].awaits]
          IN  Runs(r) /\ r.retained /\ SameRequest(x, handler[x].awaits)'
    BY <2>6 DEF SameRequest
  <2>8. Cancelled' = Cancelled
    BY DEF Cancelled, Effect
  <2> QED BY <2>3, <2>4, <2>5, <2>7, <2>8 DEF RunnersOK, Runs, Claims
<1>16. AnswersOK'
  BY <1>1, <1>2, <1>9, <1>10 DEF AnswersOK, SameRequest, IsCurrent, Cancelled
<1> QED BY <1>8, <1>15, <1>16 DEF GatewayInv

-----------------------------------------------------------------------------
(* A promise that settles.                                                 *)

Settling(h, x) == x = h \/ handler[x].awaits = h

Settled(h, reply) ==
    [x \in Handlers |->
        IF x = h \/ handler[x].awaits = h THEN Answered(handler[x], reply) ELSE handler[x]]

\* The entries after h has settled: that which awaited it records its answer.
Recorded(h, recorded) ==
    \A c \in Retained' :
        \/ entry'[c] = entry[c] /\ entry[c].inFlight # h
        \/ /\ entry[c].inFlight = h /\ entry'[c].inFlight = None /\ entry'[c].result = recorded
           /\ handler[h].retained /\ handler[h].client = c
           /\ handler[h].generation = entry[c].generation
           /\ entry'[c].generation = entry[c].generation

LEMMA SettleIsQuiet ==
    ASSUME GatewayInv, NEW h \in Handlers, handler[h].stage = "replying",
           NEW reply \in Reply, NEW recorded \in {reply, None},
           handler[h].ran => reply = handler[h].reply
                             \/ reply.kind \notin {"dispatch", "dispatchIntent"},
           Settle(h, reply, recorded), UNCHANGED <<now, said, retries>>
    PROVE  /\ Settled(h, reply) \in [Handlers -> HandlerType] /\ Calms(Settled(h, reply))
           /\ Quiet(Settled(h, reply)) /\ Recorded(h, recorded)
<1> DEFINE c == handler[h].client
           hs == Settled(h, reply)
           e == [entry[c] EXCEPT !.result = recorded, !.inFlight = None, !.usedAt = now]
<1>1. /\ GatewayTypeOK /\ OrderOK /\ EntriesOK /\ HandlersOK /\ RunnersOK
      /\ handler \in [Handlers -> HandlerType] /\ entry \in [Clients -> EntryType] /\ now \in 0 .. MaxNow
  BY DEF GatewayInv, GatewayTypeOK
<1>2. reply # None /\ Empty \in Fields /\ OneMode(Empty) /\ h # None
  BY NoneIsNothing DEF Empty, Fields, OneMode
<1>3. ASSUME NEW p \in HandlerType
      PROVE  /\ Answered(p, reply) \in HandlerType
             /\ Answered(p, reply).stage = "answered" /\ Answered(p, reply).reply = reply
             /\ Answered(p, reply).awaits = None /\ Answered(p, reply).base = Empty
             /\ Answered(p, reply).client = p.client /\ Answered(p, reply).generation = p.generation
             /\ (Answered(p, reply).ran <=> p.ran) /\ (Answered(p, reply).retained <=> p.retained)
  <2>1. Answered(p, reply) \in HandlerType
    BY <1>2 DEF Answered, HandlerType, Stages
  <2>2. DOMAIN p = {"stage", "client", "generation", "base", "reply", "awaits", "ran", "retained"}
    BY DEF HandlerType
  <2> QED BY <2>1, <2>2 DEF Answered
<1>4. hs \in [Handlers -> HandlerType]
  BY <1>1, <1>3 DEF Settled
<1>5. \A x \in Handlers : hs[x] = IF Settling(h, x) THEN Answered(handler[x], reply) ELSE handler[x]
  BY DEF Settled, Settling
<1>6. \A x \in Handlers : Settling(h, x) /\ x # h => handler[x].stage = "joined" /\ ~ handler[x].ran
  BY <1>1, <1>2 DEF Settling, HandlersOK
<1>7. handler[h].awaits = None /\ c \in Clients /\ Runs(handler[h])
  BY <1>1 DEF HandlersOK, Runs
<1> HIDE DEF hs
<1>8. ASSUME NEW x \in Handlers PROVE Calm(handler[x], hs[x])
  <2>1. CASE Settling(h, x)
    <3>1. hs[x] = Answered(handler[x], reply) /\ handler[x] \in HandlerType
      BY <1>1, <1>5, <2>1
    <3>2. handler[x].stage # "idle" /\ (x # h => ~ handler[x].ran)
      BY <1>6, <2>1
    <3> QED BY <1>2, <1>3, <3>1, <3>2 DEF Calm
  <2>2. CASE ~ Settling(h, x)
    BY <1>1, <1>5, <2>2 DEF Calm, HandlersOK
  <2> QED BY <2>1, <2>2
<1>9. Calms(hs)
  BY <1>8 DEF Calms
<1>10. \A y \in Clients : entry[y].inFlight = h =>
          /\ handler[h].retained /\ handler[h].client = y
          /\ handler[h].generation = entry[y].generation
  BY <1>1, <1>2 DEF RunnersOK
<1>11. CASE IsCurrent(handler[h]) /\ entry[c].inFlight = h
  <2>1. Store(c, e, h, hs, None)
    BY <1>11 DEF Settle, hs, Settled
  <2>2. /\ e \in EntryType /\ e.session = entry[c].session /\ e.generation = entry[c].generation
        /\ e.result = recorded /\ e.inFlight = None
    <3>1. DOMAIN entry[c] = {"session", "generation", "usedAt", "result", "inFlight"}
      BY <1>1, <1>7 DEF EntryType
    <3>2. e \in EntryType
      BY <1>1, <1>7 DEF EntryType
    <3> QED BY <3>1, <3>2, <1>1, <1>7
  <2> HIDE DEF e, c
  <2>3. PICK kept : Updated(c, e, h, hs, None, kept)
    BY <1>1, <1>7, <2>1, StoreUpdates
  <2>4. e.generation > 0 /\ c \in Retained /\ entry[c].generation = handler[h].generation
    BY <1>11, <2>2 DEF IsCurrent, Retained, c
  <2>5. /\ Retained' = kept /\ c \in kept
        /\ entry' \in [Clients -> EntryType] /\ handler' \in [Handlers -> HandlerType]
        /\ entry'[c] = e
        /\ \A x \in kept \ {c} : x \in Retained /\ entry'[x] = entry[x] /\ took'[x] = took[x]
        /\ \A x \in Clients \ kept : entry'[x] = NoEntry
        /\ \A x \in Clients \ kept : took'[x] = [g \in Generations(x) |-> None]
        /\ \A x \in Handlers :
              /\ handler'[x].stage = hs[x].stage /\ handler'[x].client = hs[x].client
              /\ handler'[x].generation = hs[x].generation /\ handler'[x].base = hs[x].base
              /\ handler'[x].reply = hs[x].reply /\ handler'[x].awaits = hs[x].awaits
              /\ handler'[x].ran <=> hs[x].ran
              /\ handler'[x].retained <=>
                    hs[x].retained /\ handler[x].client \notin Lost(c, h, kept)
        /\ took'[c] = Past(c, Lost(c, h, kept))
    <3>1. /\ GatewayTypeOK /\ EntriesOK /\ c \in Clients /\ e \in EntryType /\ e.generation > 0
          /\ hs \in [Handlers -> HandlerType] /\ Updated(c, e, h, hs, None, kept)
      BY <1>1, <1>4, <1>7, <2>2, <2>3, <2>4 DEF c
    <3>2. PICK t : t = None
      OBVIOUS
    <3>3. /\ Retained' = kept /\ c \in kept
          /\ entry' \in [Clients -> EntryType] /\ handler' \in [Handlers -> HandlerType]
          /\ entry'[c] = e
          /\ \A x \in kept \ {c} : x \in Retained /\ entry'[x] = entry[x] /\ took'[x] = took[x]
          /\ \A x \in Clients \ kept : entry'[x] = NoEntry
          /\ \A x \in Clients \ {c} : took'[x] = took[x] \/ took'[x] = [g \in Generations(x) |-> None]
          /\ \A x \in Clients \ kept : took'[x] = [g \in Generations(x) |-> None]
          /\ \A x \in Handlers :
                 /\ handler'[x].stage = hs[x].stage /\ handler'[x].client = hs[x].client
                 /\ handler'[x].generation = hs[x].generation /\ handler'[x].base = hs[x].base
                 /\ handler'[x].reply = hs[x].reply /\ handler'[x].awaits = hs[x].awaits
                 /\ handler'[x].ran <=> hs[x].ran
                 /\ handler'[x].retained <=>
                       hs[x].retained /\ handler[x].client \notin Lost(c, h, kept)
          /\ t = None => took'[c] = Past(c, Lost(c, h, kept))
          /\ t # None => took'[c] = [Past(c, Lost(c, h, kept)) EXCEPT ![hs[h].generation] = t]
      <4>1. Updated(c, e, h, hs, t, kept)
        BY <3>1, <3>2
      <4> HIDE <3>2
      <4> QED BY <3>1, <4>1, UpdatedFields
    <3> QED BY <3>2, <3>3
  <2>6. kept \subseteq Clients /\ Ordered(kept, newer') /\ newer' \in [Clients -> SUBSET Clients]
        /\ DOMAIN took' = Clients
    BY <2>3 DEF Updated
  <2>7. Lost(c, h, kept) = Clients \ kept
    BY DEF Lost, Reborn
  <2>8. took'[c] = took[c]
    BY <2>5, <2>7 DEF Past
  <2>9. ASSUME NEW x \in Handlers
        PROVE  handler'[x].retained <=> hs[x].retained /\ hs[x].client \in Retained'
    <3>1. hs[x].client = handler[x].client /\ (hs[x].retained => handler[x].client \in Clients)
      BY <1>1, <1>8 DEF Calm, HandlersOK
    <3> QED BY <2>5, <2>7, <3>1
  <2>10. \A x \in Retained' :
            /\ x \in Retained /\ took'[x] = took[x]
            /\ entry'[x].session = entry[x].session /\ entry'[x].generation = entry[x].generation
            /\ entry'[x].result = None \/ entry'[x].inFlight = None
    BY <1>1, <2>2, <2>4, <2>5, <2>6, <2>8 DEF EntriesOK
  <2>11. \A x \in Clients \ Retained' :
            entry'[x] = NoEntry /\ \A g \in Generations(x) : took'[x][g] = None
    <3>1. \A x \in Clients \ Retained' :
             entry'[x] = NoEntry /\ took'[x] = [g \in Generations(x) |-> None]
      BY <2>5
    <3> QED BY <3>1
  <2>12. \A x \in Clients : took'[x] \in [Generations(x) -> Taken \cup {None}]
    <3>1. \A x \in Retained' : took'[x] \in [Generations(x) -> Taken \cup {None}]
      BY <1>1, <2>5, <2>6, <2>8 DEF GatewayTypeOK
    <3>2. \A x \in Clients \ Retained' : took'[x] = [g \in Generations(x) |-> None]
      BY <2>5
    <3>3. \A x \in Clients \ Retained' : took'[x] \in [Generations(x) -> Taken \cup {None}]
      BY <3>2
    <3> QED BY <3>1, <3>3
  <2>13. Quiet(hs)
    BY <2>5, <2>6, <2>9, <2>10, <2>11, <2>12 DEF Quiet
  <2>14. Recorded(h, recorded)
    <3>1. \A x \in Retained' : x # c => entry'[x] = entry[x] /\ entry[x].inFlight # h
      BY <1>10, <2>5, <2>6 DEF c
    <3>2. /\ entry[c].inFlight = h /\ entry'[c].inFlight = None /\ entry'[c].result = recorded
          /\ handler[h].retained /\ handler[h].client = c
          /\ handler[h].generation = entry[c].generation
          /\ entry'[c].generation = entry[c].generation
      BY <1>7, <1>10, <1>11, <2>2, <2>4, <2>5 DEF c
    <3> QED BY <3>1, <3>2 DEF Recorded
  <2> QED BY <1>4, <1>9, <2>13, <2>14 DEF hs
<1>12. CASE ~ (IsCurrent(handler[h]) /\ entry[c].inFlight = h)
  <2>1. handler' = hs /\ UNCHANGED <<newer, entry, took>>
    BY <1>12 DEF Settle, hs, Settled
  <2>2. Quiet(hs)
    BY <1>4, <1>9, <2>1, UnchangedIsQuiet
  <2>3. ASSUME NEW y \in Retained' PROVE entry'[y] = entry[y] /\ entry[y].inFlight # h
    <3>1. entry'[y] = entry[y] /\ y \in Retained /\ y \in Clients
      BY <2>1 DEF Retained
    <3> QED BY <1>10, <1>12, <3>1 DEF IsCurrent
  <2> QED BY <1>4, <1>9, <2>2, <2>3 DEF Recorded, hs
<1> QED BY <1>11, <1>12

LEMMA SettlePreserves ==
    ASSUME GatewayInv, NEW h \in Handlers, handler[h].stage = "replying",
           NEW reply \in Reply, NEW recorded \in {reply, None},
           handler[h].ran => reply = handler[h].reply
                             \/ reply.kind \notin {"dispatch", "dispatchIntent"},
           Settle(h, reply, recorded), UNCHANGED <<now, said, retries>>
    PROVE  GatewayInv'
<1> DEFINE hs == Settled(h, reply)
<1>1. /\ HandlersOK /\ RunnersOK /\ AnswersOK
      /\ handler \in [Handlers -> HandlerType] /\ entry \in [Clients -> EntryType]
  BY DEF GatewayInv, GatewayTypeOK
<1>2. hs \in [Handlers -> HandlerType] /\ Calms(hs) /\ Quiet(hs) /\ Recorded(h, recorded)
  BY SettleIsQuiet
<1>3. /\ GatewayTypeOK' /\ OrderOK' /\ EntriesOK' /\ HandlersOK'
      /\ SessionsJustified' /\ CancelHolds' /\ BasesJustified' /\ RepliesApproved'
  BY <1>2, QuietKeeps
<1>4. Runs(handler[h]) /\ Claims(handler[h]) /\ handler[h].awaits = None /\ h # None
  BY <1>1, NoneIsNothing DEF Runs, Claims, HandlersOK
\* The handlers, one by one.
<1>5. ASSUME NEW x \in Handlers
      PROVE  /\ handler'[x].client = handler[x].client /\ handler'[x].generation = handler[x].generation
             /\ handler'[x].retained <=> handler[x].retained /\ handler[x].client \in Retained'
             /\ handler'[x].ran <=> handler[x].ran
             /\ Settling(h, x) => /\ handler'[x].stage = "answered" /\ handler'[x].reply = reply
                                  /\ handler'[x].awaits = None
             /\ ~ Settling(h, x) => /\ handler'[x].stage = handler[x].stage
                                    /\ handler'[x].reply = handler[x].reply
                                    /\ handler'[x].awaits = handler[x].awaits
  <2>1. hs[x] = IF Settling(h, x) THEN Answered(handler[x], reply) ELSE handler[x]
    BY DEF Settled, Settling
  <2>2. /\ hs[x].client = handler[x].client /\ hs[x].generation = handler[x].generation
        /\ (hs[x].retained <=> handler[x].retained) /\ (hs[x].ran <=> handler[x].ran)
        /\ Settling(h, x) => hs[x].stage = "answered" /\ hs[x].reply = reply /\ hs[x].awaits = None
        /\ ~ Settling(h, x) => hs[x] = handler[x]
    <3> HIDE DEF hs
    <3>1. DOMAIN handler[x] = {"stage", "client", "generation", "base", "reply", "awaits", "ran", "retained"}
      BY <1>1 DEF HandlerType
    <3> QED BY <2>1, <3>1 DEF Answered
  <2> HIDE DEF hs
  <2>3. /\ handler'[x].stage = hs[x].stage /\ handler'[x].client = hs[x].client
        /\ handler'[x].generation = hs[x].generation
        /\ handler'[x].reply = hs[x].reply /\ handler'[x].awaits = hs[x].awaits
        /\ handler'[x].ran <=> hs[x].ran
        /\ handler'[x].retained <=> hs[x].retained /\ hs[x].client \in Retained'
    BY <1>2 DEF Quiet
  <2> QED BY <2>2, <2>3
<1> HIDE DEF hs
\* Those that settle are arrivals of one request, and only h has run it.
<1>6. ASSUME NEW x \in Handlers, Settling(h, x), x # h
      PROVE  /\ handler[x].awaits = h /\ ~ Claims(handler[x])
             /\ handler[x].retained => handler[h].retained /\ SameRequest(x, h)
  <2>1. handler[x].awaits = h /\ handler[x].stage = "joined"
    BY <1>1, <1>4, <1>6 DEF Settling, HandlersOK
  <2>2. ~ Claims(handler[x])
    BY <1>1, <2>1 DEF Claims, Runs, HandlersOK
  <2> QED BY <1>1, <1>4, <2>1, <2>2 DEF RunnersOK
<1>7. \A x \in Handlers : Claims(handler'[x]) => Claims(handler[x])
  BY <1>4, <1>5 DEF Claims, Runs
<1>8. \A x \in Handlers : /\ Runs(handler'[x]) => ~ Settling(h, x) /\ Runs(handler[x])
                          /\ ~ Settling(h, x) /\ Runs(handler[x]) => Runs(handler'[x])
  BY <1>5 DEF Runs
<1>9. \A x, i \in Handlers : SameRequest(x, i)' => SameRequest(x, i)
  BY <1>5 DEF SameRequest
<1>10. ASSUME NEW x \in Handlers, NEW i \in Handlers, SameRequest(x, i), Settling(h, x), ~ Settling(h, i)
       PROVE  /\ SameRequest(h, i) /\ h # i /\ handler[h].retained /\ ~ Claims(handler[i])
              /\ handler[i].stage = "answered" => handler[i].reply = Cancelled
  <2>1. SameRequest(h, i) /\ h # i
    BY <1>6, <1>10 DEF SameRequest, Settling
  <2> QED BY <1>1, <1>4, <2>1 DEF RunnersOK, SameRequest
<1>11. ASSUME NEW x \in Handlers, NEW i \in Handlers, x # i, SameRequest(x, i)'
       PROVE  /\ ~ (Claims(handler'[x]) /\ Claims(handler'[i]))
              /\ Runs(handler'[x]) /\ handler'[i].stage = "answered" => handler'[i].reply = Cancelled
  <2>1. SameRequest(x, i) /\ SameRequest(i, x)
    BY <1>9, <1>11 DEF SameRequest
  <2>2. ~ (Claims(handler[x]) /\ Claims(handler[i]))
    BY <1>1, <1>11, <2>1 DEF RunnersOK
  <2>3. ASSUME Runs(handler'[x]), handler'[i].stage = "answered" PROVE handler'[i].reply = Cancelled
    <3>1. ~ Settling(h, x) /\ Runs(handler[x]) /\ Claims(handler[x])
      BY <1>8, <2>3 DEF Claims
    <3>2. ~ Settling(h, i)
      BY <1>10, <2>1, <3>1
    <3>3. handler[i].stage = "answered" /\ handler'[i].reply = handler[i].reply
      BY <1>5, <2>3, <3>2
    <3> QED BY <1>1, <1>11, <2>1, <3>1, <3>3 DEF RunnersOK
  <2> QED BY <1>7, <2>2, <2>3
<1>12. ASSUME NEW x \in Handlers, handler'[x].retained, Runs(handler'[x]), IsCurrent(handler[x])'
       PROVE  entry'[handler'[x].client].inFlight = x
  <2> DEFINE c == handler[x].client
  <2>1. ~ Settling(h, x) /\ Runs(handler[x]) /\ handler[x].retained /\ x # h
        /\ handler'[x].client = c /\ handler'[x].generation = handler[x].generation
    BY <1>5, <1>8, <1>12 DEF Settling
  <2>2. c \in Retained' /\ entry'[c].generation = handler[x].generation
    BY <1>12, <2>1 DEF IsCurrent
  <2>3. c \in Retained /\ entry'[c].generation = entry[c].generation
    BY <1>2, <2>2 DEF Quiet
  <2>4. entry[c].inFlight = x
    BY <1>1, <2>1, <2>2, <2>3 DEF RunnersOK, IsCurrent
  <2> QED BY <1>2, <2>1, <2>2, <2>4 DEF Recorded
<1>13. ASSUME NEW c \in Clients, entry'[c].inFlight # None
       PROVE  LET r == handler'[entry'[c].inFlight]
              IN  Runs(r) /\ r.retained /\ r.client = c /\ r.generation = entry'[c].generation
  <2> DEFINE i == entry[c].inFlight
  <2>1. c \in Retained'
    BY <1>2, <1>13 DEF Quiet, NoEntry
  <2>2. entry'[c] = entry[c] /\ i # h
    BY <1>2, <1>13, <2>1 DEF Recorded
  <2>3. i \in Handlers
    BY <1>1, <1>13, <2>2 DEF EntryType
  <2>4. Runs(handler[i]) /\ handler[i].retained /\ handler[i].client = c
        /\ handler[i].generation = entry[c].generation
    BY <1>1, <1>13, <2>2 DEF RunnersOK
  <2> HIDE DEF i
  <2>5. ~ Settling(h, i)
    BY <1>6, <2>2, <2>3, <2>4 DEF Claims
  <2>6. Runs(handler'[i]) /\ handler'[i].retained /\ handler'[i].client = c
        /\ handler'[i].generation = entry[c].generation
    BY <1>5, <1>8, <2>1, <2>3, <2>4, <2>5
  <2> QED BY <2>2, <2>6 DEF i
<1>14. ASSUME NEW x \in Handlers, handler'[x].awaits # None, handler'[x].retained
       PROVE  LET r == handler'[handler'[x].awaits]
              IN  Runs(r) /\ r.retained
                  /\ handler'[x].client = r.client /\ handler'[x].generation = r.generation
  <2> DEFINE i == handler[x].awaits
  <2>1. ~ Settling(h, x) /\ handler'[x].awaits = i /\ i # None /\ handler[x].retained /\ i # h
        /\ handler[x].client \in Retained' /\ handler'[x].client = handler[x].client
        /\ handler'[x].generation = handler[x].generation
    BY <1>5, <1>14 DEF Settling
  <2>2. i \in Handlers
    BY <1>1, <2>1 DEF HandlerType
  <2>3. Runs(handler[i]) /\ handler[i].retained /\ handler[i].client = handler[x].client
        /\ handler[i].generation = handler[x].generation
    BY <1>1, <2>1 DEF RunnersOK, SameRequest
  <2> HIDE DEF i
  <2>4. ~ Settling(h, i)
    BY <1>6, <2>1, <2>2, <2>3 DEF Claims
  <2>5. Runs(handler'[i]) /\ handler'[i].retained /\ handler'[i].client = handler[x].client
        /\ handler'[i].generation = handler[x].generation
    BY <1>5, <1>8, <2>1, <2>2, <2>3, <2>4
  <2> QED BY <2>1, <2>5
<1>15. Cancelled' = Cancelled
  BY DEF Cancelled, Effect
<1>16. RunnersOK'
  <2>1. \A x \in Handlers : handler'[x].awaits # None /\ handler'[x].retained =>
          LET r == handler'[handler'[x].awaits]
          IN  Runs(r) /\ r.retained /\ SameRequest(x, handler[x].awaits)'
    BY <1>14 DEF SameRequest
  <2> QED BY <1>11, <1>12, <1>13, <1>15, <2>1 DEF RunnersOK, Runs, Claims
<1>17. ASSUME NEW x \in Handlers, NEW i \in Handlers, SameRequest(x, i)',
              handler'[x].stage = "answered", handler'[i].stage = "answered"
       PROVE  handler'[x].reply = handler'[i].reply
              \/ Cancelled \in {handler'[x].reply, handler'[i].reply}
  <2>1. SameRequest(x, i) /\ SameRequest(i, x)
    BY <1>9, <1>17 DEF SameRequest
  <2>2. CASE Settling(h, x) /\ Settling(h, i)
    BY <1>5, <2>2
  <2>3. CASE Settling(h, x) /\ ~ Settling(h, i)
    BY <1>5, <1>10, <1>17, <2>1, <2>3
  <2>4. CASE ~ Settling(h, x) /\ Settling(h, i)
    BY <1>5, <1>10, <1>17, <2>1, <2>4
  <2>5. CASE ~ Settling(h, x) /\ ~ Settling(h, i)
    BY <1>1, <1>5, <1>17, <2>1, <2>5 DEF AnswersOK
  <2> QED BY <2>2, <2>3, <2>4, <2>5
<1>18. ASSUME NEW x \in Handlers, handler'[x].retained, handler'[x].stage = "answered",
              IsCurrent(handler[x])', entry'[handler'[x].client].result # None
       PROVE  handler'[x].reply \in {entry'[handler'[x].client].result, Cancelled}
  <2> DEFINE c == handler[x].client
  <2>1. handler[x].retained /\ handler'[x].client = c /\ handler'[x].generation = handler[x].generation
    BY <1>5, <1>18
  <2>2. c \in Retained' /\ entry'[c].generation = handler[x].generation
    BY <1>18, <2>1 DEF IsCurrent
  <2>3. c \in Retained /\ entry'[c].generation = entry[c].generation
    BY <1>2, <2>2 DEF Quiet
  <2>4. IsCurrent(handler[x])
    BY <2>2, <2>3 DEF IsCurrent
  <2>5. CASE entry'[c] = entry[c] /\ entry[c].inFlight # h
    <3>1. ~ Settling(h, x)
      <4>1. ASSUME Settling(h, x) PROVE FALSE
        <5>1. handler[h].retained /\ IsCurrent(handler[h]) /\ handler[h].client = c
          BY <1>6, <2>1, <2>4, <4>1 DEF SameRequest, IsCurrent
        <5> QED BY <1>1, <1>4, <2>5, <5>1 DEF RunnersOK
      <4> QED BY <4>1
    <3> QED BY <1>1, <1>5, <1>18, <2>1, <2>4, <2>5, <3>1 DEF AnswersOK
  <2>6. CASE /\ entry[c].inFlight = h /\ entry'[c].result = recorded
             /\ handler[h].retained /\ handler[h].client = c
             /\ handler[h].generation = entry[c].generation
    <3>1. recorded = reply
      BY <1>18, <2>1, <2>6
    <3>2. CASE Settling(h, x)
      BY <1>5, <2>1, <2>6, <3>1, <3>2
    <3>3. CASE ~ Settling(h, x)
      <4>1. SameRequest(h, x) /\ Settling(h, h) /\ handler[x].stage = "answered"
            /\ handler'[x].reply = handler[x].reply
        BY <1>5, <1>18, <2>1, <2>2, <2>3, <2>6, <3>3 DEF SameRequest, Settling
      <4> QED BY <1>10, <3>3, <4>1
    <3> QED BY <3>2, <3>3
  <2> QED BY <1>2, <2>2, <2>5, <2>6 DEF Recorded
<1>19. AnswersOK'
  BY <1>15, <1>17, <1>18 DEF AnswersOK
<1> QED BY <1>3, <1>16, <1>19 DEF GatewayInv

-----------------------------------------------------------------------------
(* The invariant holds.                                                    *)

LEMMA InitInv == VoiceInit => GatewayInv
<1> SUFFICES ASSUME VoiceInit PROVE GatewayInv
  OBVIOUS
<1>1. /\ now = 0 /\ retries = 0
      /\ \A c \in Clients : /\ entry[c] = NoEntry /\ newer[c] = {}
                            /\ took[c] = [g \in Generations(c) |-> None]
                            /\ said[c] = [g \in Generations(c) |-> None]
      /\ \A h \in Handlers : handler[h] = Idle
      /\ entry = [c \in Clients |-> NoEntry] /\ newer = [c \in Clients |-> {}]
      /\ handler = [h \in Handlers |-> Idle]
      /\ DOMAIN took = Clients /\ DOMAIN said = Clients
  BY DEF VoiceInit
<1>2. /\ NoEntry \in EntryType /\ NoEntry.generation = 0 /\ NoEntry.session = Empty
      /\ NoEntry.result = None /\ NoEntry.inFlight = None
  BY SessionTtlAssumption DEF NoEntry, EntryType, Fields, Empty
<1>3. /\ Idle \in HandlerType /\ Idle.base = Empty /\ Idle.stage = "idle" /\ Idle.awaits = None
      /\ ~ Idle.ran /\ ~ Idle.retained
  BY DEF Idle, HandlerType, Stages, Empty, Fields
<1>4. OneMode(Empty) /\ \A p, n : Justified(Empty, p, n)
  BY DEF OneMode, Empty, Justified
<1>5. Retained = {}
  BY <1>1, <1>2 DEF Retained
<1>6. GatewayTypeOK
  BY <1>1, <1>2, <1>3, SessionTtlAssumption DEF GatewayTypeOK
<1>7. OrderOK
  BY <1>1, <1>5, FS_EmptySet, SizeAssumption DEF OrderOK, Ordered
<1>8. EntriesOK /\ SessionsJustified
  <2>1. \A c \in Clients : 0 \in 0 .. Len(Says[c])
    BY GenerationsAre
  <2> QED BY <1>1, <1>2, <1>4, <1>5, <2>1 DEF EntriesOK, SessionsJustified
<1>9. HandlersOK
  BY <1>1, <1>3, <1>4 DEF HandlersOK
<1>10. RunnersOK /\ AnswersOK
  BY <1>1, <1>2, <1>3 DEF RunnersOK, AnswersOK, SameRequest, Runs
<1>11. BasesJustified /\ RepliesApproved
  BY <1>1, <1>3 DEF BasesJustified, RepliesApproved
<1>12. CancelHolds
  BY <1>5 DEF CancelHolds
<1> QED BY <1>6, <1>7, <1>8, <1>9, <1>10, <1>11, <1>12 DEF GatewayInv

\* A request set aside: to be interpreted, or to be answered without effect.
LEMMA SetAsides ==
    ASSUME GatewayInv, NEW h \in Handlers, handler[h].stage \in {"hearing", "interpreting"},
           UNCHANGED <<now, said, retries>>
    PROVE  /\ /\ handler[h].base.dictating = None
              /\ SetAside(h, [handler[h] EXCEPT !.stage = "interpreting"])
              => GatewayInv'
           /\ \A r \in {Cancelled, Unheard} :
                 SetAside(h, [handler[h] EXCEPT !.stage = "replying", !.reply = r, !.base = Empty])
                 => GatewayInv'
<1> DEFINE p == handler[h]
<1>1. /\ p \in HandlerType /\ p.awaits = None /\ ~ p.ran
      /\ DOMAIN p = {"stage", "client", "generation", "base", "reply", "awaits", "ran", "retained"}
  BY DEF GatewayInv, GatewayTypeOK, HandlersOK, HandlerType
<1>2. \A r \in {Cancelled, Unheard} : r \in Reply /\ r # None
  BY NoneIsNothing DEF Cancelled, Unheard, Effect, Reply
<1>3. Empty \in Fields
  BY DEF Empty, Fields
<1>4. ASSUME p.base.dictating = None, SetAside(h, [p EXCEPT !.stage = "interpreting"])
      PROVE  GatewayInv'
  <2> DEFINE q == [p EXCEPT !.stage = "interpreting"]
  <2>1. q \in HandlerType
    BY <1>1 DEF HandlerType, Stages
  <2>2. /\ q.client = p.client /\ q.generation = p.generation /\ q.awaits = None /\ ~ q.ran
        /\ (q.retained <=> p.retained) /\ q.stage = "interpreting" /\ q.base = p.base
    BY <1>1
  <2>3. SetAside(h, q)
    BY <1>4
  <2> HIDE DEF q
  <2> QED BY <1>4, <2>1, <2>2, <2>3, SetAsidePreserves
<1>5. ASSUME NEW r \in {Cancelled, Unheard},
             SetAside(h, [p EXCEPT !.stage = "replying", !.reply = r, !.base = Empty])
      PROVE  GatewayInv'
  <2> DEFINE q == [p EXCEPT !.stage = "replying", !.reply = r, !.base = Empty]
  <2>1. q \in HandlerType
    BY <1>1, <1>2, <1>3 DEF HandlerType, Stages
  <2>2. /\ q.client = p.client /\ q.generation = p.generation /\ q.awaits = None /\ ~ q.ran
        /\ (q.retained <=> p.retained) /\ q.stage = "replying" /\ q.reply # None /\ q.base = Empty
    BY <1>1, <1>2
  <2>3. SetAside(h, q)
    BY <1>5
  <2> HIDE DEF q
  <2> QED BY <2>1, <2>2, <2>3, SetAsidePreserves
<1> QED BY <1>4, <1>5

LEMMA TranscribedPreserves ==
    ASSUME GatewayInv, NEW h \in Handlers, Transcribed(h) PROVE GatewayInv'
<1> DEFINE q == handler[h]
           u == said[q.client][q.generation]
           intent == parse(u, q.base)
<1>1. q.stage = "hearing" /\ UNCHANGED <<now, said, retries>>
  BY DEF Transcribed
<1>2. u \in Utterance /\ q.base \in Fields /\ OneMode(q.base)
  <2>1. /\ q.client \in Clients /\ q.generation \in Generations(q.client) /\ u # None
        /\ OneMode(q.base) /\ q \in HandlerType
    BY <1>1 DEF GatewayInv, HandlersOK, GatewayTypeOK
  <2>2. u \in Utterance \cup {None}
    BY <2>1 DEF GatewayInv, GatewayTypeOK
  <2> QED BY <2>1, <2>2 DEF HandlerType
<1>3. /\ intent.kind # "unknown" => Fits(intent, q.base)
      /\ intent.kind = "unknown" => q.base.dictating = None
  BY <1>2, ParseFits
<1>4. CASE intent.kind = "unknown"
  <2>1. SetAside(h, [q EXCEPT !.stage = "interpreting"])
    BY <1>4 DEF Transcribed
  <2> QED BY <1>1, <1>3, <1>4, <2>1, SetAsides
<1>5. CASE intent.kind # "unknown" /\ IsCurrent(q)
  <2>1. Perform(h, q, entry[q.client], intent, FALSE)
    BY <1>5 DEF Transcribed
  <2> HIDE DEF intent
  <2> QED BY <1>1, <1>3, <1>5, <2>1, ContinuePreserves
<1>6. CASE intent.kind # "unknown" /\ ~ IsCurrent(q)
  <2>1. SetAside(h, [q EXCEPT !.stage = "replying", !.reply = Cancelled, !.base = Empty])
    BY <1>6 DEF Transcribed
  <2> QED BY <1>1, <2>1, SetAsides
<1> QED BY <1>4, <1>5, <1>6

LEMMA NotTranscribedPreserves ==
    ASSUME GatewayInv, NEW h \in Handlers, NotTranscribed(h) PROVE GatewayInv'
<1>1. PICK r \in {Cancelled, Unheard} : r = IF IsCurrent(handler[h]) THEN Unheard ELSE Cancelled
  OBVIOUS
<1>2. /\ handler[h].stage = "hearing" /\ UNCHANGED <<now, said, retries>>
      /\ SetAside(h, [handler[h] EXCEPT !.stage = "replying", !.base = Empty, !.reply = r])
  BY <1>1 DEF NotTranscribed
<1>3. [handler[h] EXCEPT !.stage = "replying", !.base = Empty, !.reply = r]
      = [handler[h] EXCEPT !.stage = "replying", !.reply = r, !.base = Empty]
  OBVIOUS
<1> QED BY <1>2, <1>3, SetAsides

LEMMA InterpretedPreserves ==
    ASSUME GatewayInv, NEW h \in Handlers, Interpreted(h) PROVE GatewayInv'
<1> DEFINE q == handler[h]
           u == said[q.client][q.generation]
<1>1. q.stage = "interpreting" /\ UNCHANGED <<now, said, retries>>
  BY DEF Interpreted
<1>2. PICK intent \in Readings(u) :
         IF IsCurrent(q) THEN Perform(h, q, entry[q.client], intent, TRUE)
         ELSE SetAside(h, [q EXCEPT !.stage = "replying", !.reply = Cancelled, !.base = Empty])
  BY DEF Interpreted
<1>3. Fits(intent, q.base)
  <2>1. /\ q.client \in Clients /\ q.generation \in Generations(q.client) /\ u # None
        /\ q.base.dictating = None /\ q \in HandlerType
    BY <1>1 DEF GatewayInv, HandlersOK, GatewayTypeOK
  <2>2. u \in Utterance \cup {None}
    BY <2>1 DEF GatewayInv, GatewayTypeOK
  <2>3. u \in Utterance /\ q.base \in Fields
    BY <2>1, <2>2 DEF HandlerType
  <2> HIDE DEF u, q
  <2> QED BY <2>1, <2>3, ReadingFits
<1>4. CASE IsCurrent(q)
  BY <1>1, <1>2, <1>3, <1>4, ContinuePreserves
<1>5. CASE ~ IsCurrent(q)
  BY <1>1, <1>2, <1>5, SetAsides
<1> QED BY <1>4, <1>5

LEMMA RepliesPreserve ==
    ASSUME GatewayInv, NEW h \in Handlers, Completes(h) \/ Throws(h) PROVE GatewayInv'
<1>1. handler[h].stage = "replying" /\ UNCHANGED <<now, said, retries>>
  BY DEF Completes, Throws
<1>2. handler[h].reply \in Reply
  <2>1. handler[h] \in HandlerType /\ handler[h].reply # None
    BY <1>1 DEF GatewayInv, GatewayTypeOK, HandlersOK
  <2> QED BY <2>1 DEF HandlerType
<1> DEFINE failed == [handler[h].reply EXCEPT !.kind = "failed"]
<1>3. failed \in Reply /\ failed.kind = "failed"
  BY <1>2 DEF Reply
<1>4. Rejected \in Reply /\ Rejected.kind = "rejected"
  BY DEF Rejected, Effect, Reply
<1>5. CASE Settle(h, handler[h].reply, handler[h].reply)
  BY <1>1, <1>2, <1>5, SettlePreserves
<1>6. CASE Settle(h, failed, failed)
  <2> HIDE DEF failed
  <2> QED BY <1>1, <1>3, <1>6, SettlePreserves
<1>7. CASE Settle(h, Rejected, None)
  BY <1>1, <1>4, <1>7, SettlePreserves
<1> QED BY <1>5, <1>6, <1>7 DEF Completes, Throws

LEMMA TickPreserves ==
    ASSUME GatewayInv, Tick PROVE GatewayInv'
<1>1. now' \in 0 .. MaxNow /\ UNCHANGED <<newer, entry, handler, said, retries, took>>
  BY SessionTtlAssumption DEF Tick, GatewayInv, GatewayTypeOK
<1>2. Retained' = Retained
  BY <1>1 DEF Retained
<1>3. GatewayTypeOK'
  BY <1>1 DEF GatewayInv, GatewayTypeOK
<1>4. OrderOK' /\ EntriesOK' /\ HandlersOK'
  BY <1>1, <1>2 DEF GatewayInv, OrderOK, EntriesOK, HandlersOK
<1>5. RunnersOK' /\ AnswersOK'
  BY <1>1, <1>2 DEF GatewayInv, RunnersOK, AnswersOK, SameRequest, IsCurrent, Runs, Claims
<1>6. SessionsJustified' /\ BasesJustified' /\ RepliesApproved' /\ CancelHolds'
  BY <1>1, <1>2 DEF GatewayInv, SessionsJustified, BasesJustified, RepliesApproved, CancelHolds,
                   IsCurrent
<1> QED BY <1>3, <1>4, <1>5, <1>6 DEF GatewayInv

LEMMA StutterPreserves ==
    ASSUME GatewayInv, UNCHANGED gatewayVars PROVE GatewayInv'
<1>1. now' = now /\ UNCHANGED <<newer, entry, handler, said, retries, took>>
  BY DEF gatewayVars
<1>2. Retained' = Retained
  BY <1>1 DEF Retained
<1>3. GatewayTypeOK' /\ OrderOK' /\ EntriesOK' /\ HandlersOK'
  BY <1>1, <1>2 DEF GatewayInv, GatewayTypeOK, OrderOK, EntriesOK, HandlersOK
<1>4. RunnersOK' /\ AnswersOK'
  BY <1>1, <1>2 DEF GatewayInv, RunnersOK, AnswersOK, SameRequest, IsCurrent, Runs, Claims
<1>5. SessionsJustified' /\ BasesJustified' /\ RepliesApproved' /\ CancelHolds'
  BY <1>1, <1>2 DEF GatewayInv, SessionsJustified, BasesJustified, RepliesApproved, CancelHolds,
                   IsCurrent
<1> QED BY <1>3, <1>4, <1>5 DEF GatewayInv

LEMMA NextInv ==
    ASSUME GatewayInv, [VoiceNext]_gatewayVars PROVE GatewayInv'
<1>1. ASSUME NEW h \in Handlers, NEW c \in Clients, NEW g \in Generations(c), NEW u \in Says[c][g],
             Arrive(h, c, g, u)
      PROVE  GatewayInv'
  BY <1>1, ArrivePreserves
<1>2. ASSUME NEW h \in Handlers, Transcribed(h) PROVE GatewayInv'
  BY <1>2, TranscribedPreserves
<1>3. ASSUME NEW h \in Handlers, NotTranscribed(h) PROVE GatewayInv'
  BY <1>3, NotTranscribedPreserves
<1>4. ASSUME NEW h \in Handlers, Interpreted(h) PROVE GatewayInv'
  BY <1>4, InterpretedPreserves
<1>5. ASSUME NEW h \in Handlers, Completes(h) PROVE GatewayInv'
  BY <1>5, RepliesPreserve
<1>6. ASSUME NEW h \in Handlers, Throws(h) PROVE GatewayInv'
  BY <1>6, RepliesPreserve
<1>7. ASSUME NEW h \in Handlers, Leaves(h) PROVE GatewayInv'
  BY <1>7, LeavesPreserves
<1>8. CASE Tick
  BY <1>8, TickPreserves
<1>9. CASE UNCHANGED gatewayVars
  BY <1>9, StutterPreserves
<1> QED BY <1>1, <1>2, <1>3, <1>4, <1>5, <1>6, <1>7, <1>8, <1>9 DEF VoiceNext

\* In every reachable state each session, each clone and each dispatch has its
\* reason in what was said, and each request one arrival that runs it.
THEOREM GatewayInvariant == VoiceSpec => []GatewayInv
<1>1. VoiceInit => GatewayInv
  BY InitInv
<1>2. GatewayInv /\ [VoiceNext]_gatewayVars => GatewayInv'
  BY NextInv
<1> QED BY <1>1, <1>2, PTL DEF VoiceSpec

LEMMA InvIsTyped == GatewayInv => VoiceTypeOK
<1> SUFFICES ASSUME GatewayInv PROVE VoiceTypeOK
  OBVIOUS
<1>1. GatewayTypeOK /\ OrderOK /\ EntriesOK /\ HandlersOK
  BY DEF GatewayInv
<1>2. now \in 0 .. MaxNow /\ Cardinality(Retained) <= MaxSessions
  BY <1>1 DEF GatewayTypeOK, OrderOK, Ordered
<1>3. ASSUME NEW c \in Clients
      PROVE  LET e == entry[c]
             IN  /\ e.session.confirm \in Arm \cup {None}
                 /\ e.session.dictating \in Draft \cup {None}
                 /\ e.session.dispatch \in [at : Nat] \cup {None}
                 /\ OneMode(e.session)
                 /\ e.generation \in 0 .. Len(Says[c]) /\ e.usedAt \in 0 .. MaxNow
                 /\ e.result \in Reply \cup {None} /\ e.inFlight \in Handlers \cup {None}
                 /\ e.result = None \/ e.inFlight = None
                 /\ c \notin Retained => e = NoEntry
  <2>1. entry[c] \in EntryType
    BY <1>1 DEF GatewayTypeOK
  <2>2. /\ entry[c].session \in Fields /\ entry[c].usedAt \in 0 .. MaxNow
        /\ entry[c].result \in Reply \cup {None} /\ entry[c].inFlight \in Handlers \cup {None}
    BY <2>1 DEF EntryType
  <2> QED BY <1>1, <2>2 DEF EntriesOK, Fields
<1>4. ASSUME NEW h \in Handlers
      PROVE  /\ handler[h].stage \in {"idle", "hearing", "interpreting", "replying", "joined", "answered"}
             /\ handler[h].reply \in Reply \cup {None}
             /\ handler[h].awaits \in Handlers \cup {None}
             /\ OneMode(handler[h].base)
  <2>1. handler[h] \in HandlerType
    BY <1>1 DEF GatewayTypeOK
  <2> QED BY <1>1, <2>1 DEF HandlerType, Stages, HandlersOK
<1> QED BY <1>2, <1>3, <1>4 DEF VoiceTypeOK

\* "Actions marked requiresConfirmation arm first ..." (threat-model.md:123):
\* behind every dispatch of the gateway there is what the user said, in the same
\* session, in that order, in time, about that item, and not taken back.
THEOREM DispatchesAreApproved == VoiceSpec => []DispatchesWereApproved
<1>1. GatewayInv => DispatchesWereApproved
  <2> SUFFICES ASSUME GatewayInv PROVE DispatchesWereApproved
    OBVIOUS
  <2>1. VoiceTypeOK
    BY InvIsTyped
  <2>2. ASSUME NEW h \in Handlers, handler[h].ran, handler[h].retained,
               \A k \in 1 .. handler[h].generation : ~ Orphaned(took[handler[h].client][k])
        PROVE  Approved(handler[h].reply, took[handler[h].client], handler[h].generation)
    BY <2>2 DEF GatewayInv, RepliesApproved, NoOrphans
  <2> QED BY <2>1, <2>2, Zenon DEF DispatchesWereApproved, Approved
<1> QED BY <1>1, GatewayInvariant, PTL

\* "The Hub replays the original response for an exact generation retry while
\* that session is retained" (event-schema.md:460): a request takes effect once,
\* and two answers to it differ only if one is "Cancelled.".
THEOREM RequestsTakeEffectOnce == VoiceSpec => []OneEffectPerGeneration
<1>1. GatewayInv => OneEffectPerGeneration
  BY DEF GatewayInv, RunnersOK, AnswersOK, Claims, OneEffectPerGeneration
<1> QED BY <1>1, GatewayInvariant, PTL

\* No late transcript or interpretation restores what was cancelled.
THEOREM CancellationsHold == VoiceSpec => []CancelHolds
<1>1. GatewayInv => CancelHolds
  BY DEF GatewayInv
<1> QED BY <1>1, GatewayInvariant, PTL

\* pruneSessions and storeSession keep the Map within maxClientSessions, and in
\* one order of use.
THEOREM SessionsFitAndAreOrdered == VoiceSpec => [](OrderOK /\ Cardinality(Retained) <= MaxSessions)
<1>1. GatewayInv => OrderOK /\ Cardinality(Retained) <= MaxSessions
  BY DEF GatewayInv, OrderOK, Ordered
<1> QED BY <1>1, GatewayInvariant, PTL

=============================================================================
