-------------------------- MODULE HubClientProofs --------------------------
(***************************************************************************)
(* What HubClient guarantees for any Hubs, any number of pairings and of   *)
(* calls that are overtaken.  None of its properties is inductive: that    *)
(* the generation tells the conversations apart follows from what the      *)
(* current call, the timer and the stream are of, which the invariant      *)
(* says, together with how old what a call has read may be.                *)
(***************************************************************************)
EXTENDS HubClient, TLAPS

Busy(c) == call[c].stage # "free"
Current(c) == Busy(c) /\ isCurrent(call[c].gen)

\* Every call was begun by a generation that has come, for a Hub; a call of this
\* generation for the Hub the client is paired with.
CallsHaveOrigin ==
    \A c \in Calls : Busy(c) =>
        /\ call[c].gen <= generation /\ call[c].hub \in Hubs
        /\ Current(c) => call[c].hub = config

\* The timer belongs to this generation.
TimerIsCurrent == retryTimer # None => ~ stopped /\ retryTimer = generation /\ config # None

\* One call or one timer.
OneCurrent ==
    \A c, d \in Calls : Current(c) /\ Current(d) => c = d /\ retryTimer = None

\* The stream is that of the current call, which has shown its snapshot, and a
\* connection of any other call has been aborted.
StreamIsCurrent ==
    /\ streamAbort # None =>
        /\ call[streamAbort].stage \in {"stream", "reading"} /\ Current(streamAbort)
        /\ view # None /\ view.hub = config
    /\ \A c \in Calls :
          call[c].stage \in {"stream", "reading"} /\ call[c].link # "aborted" => isCurrentStream(c)

\* What a call holds of its Hub is no older than the cards.
ReadIsHonest ==
    /\ view # None => view.version <= world[view.hub]
    /\ \A c \in Calls :
        /\ call[c].stage = "body" => call[c].read <= world[call[c].hub]
        /\ call[c].stage = "reading" => call[c].sent <= world[call[c].hub] + 1
        /\ call[c].stage \in {"body", "reading"} /\ Current(c)
             /\ view # None /\ view.hub = call[c].hub => view.version <= call[c].read

LiveMeansReading ==
    phase = "live" => streamAbort # None /\ call[streamAbort].stage = "reading"

ClientInv ==
    /\ HubClientTypeOK
    /\ CallsHaveOrigin /\ TimerIsCurrent /\ OneCurrent /\ StreamIsCurrent
    /\ ReadIsHonest /\ LiveMeansReading

-----------------------------------------------------------------------------
(* The cards and the selection.                                            *)

SelectionFits(sel, v) == IF IdsIn(v) = {} THEN sel = None ELSE sel \in IdsIn(v)

LEMMA OrderedAreItems ==
    ASSUME NEW v \in Views \cup {None}
    PROVE  orderedItems(v) \in Seq(Items) /\ None \notin IdsIn(v)
<1>1. CASE v = None
  BY <1>1 DEF orderedItems, IdsIn
<1>2. CASE v \in Views /\ v # None
  <2>1. orderedItems(v) = Ranked[v.hub][v.version]
    BY <1>2 DEF orderedItems
  <2>2. orderedItems(v) \in Seq(Items)
    BY <2>1, <1>2, RankedAssumption DEF Views
  <2> QED
    BY <2>2, RankedAssumption DEF IdsIn
<1> QED
  BY <1>1, <1>2

LEMMA SelectionFollows ==
    ASSUME NEW v \in Views \cup {None}
    PROVE  SelectionFits(SelectionIn(v), v)
<1>1. CASE selected \in IdsIn(v)
  BY <1>1 DEF SelectionIn, SelectionFits
<1>2. CASE selected \notin IdsIn(v) /\ orderedItems(v) = << >>
  BY <1>2 DEF SelectionIn, SelectionFits, IdsIn
<1>3. CASE selected \notin IdsIn(v) /\ orderedItems(v) # << >>
  <2>1. 1 \in DOMAIN orderedItems(v) /\ Head(orderedItems(v)) = orderedItems(v)[1]
    BY <1>3, OrderedAreItems
  <2> QED
    BY <1>3, <2>1 DEF SelectionIn, SelectionFits, IdsIn
<1> QED
  BY <1>1, <1>2, <1>3

LEMMA MoveSelects ==
    ASSUME HubClientTypeOK, NEW delta \in {1}, Move(delta)
    PROVE  selected' \in IdsIn(view)
<1> DEFINE items == orderedItems(view)
           at == IF selected \in IdsIn(view) THEN CHOOSE i \in DOMAIN items : items[i] = selected ELSE 1
<1>1. items \in Seq(Items) /\ items # << >> /\ Len(items) \in Nat /\ Len(items) # 0
  BY OrderedAreItems DEF Move, HubClientTypeOK
<1>2. at \in 1..Len(items)
  <2>1. CASE selected \in IdsIn(view)
    <3>1. \E i \in DOMAIN items : items[i] = selected
      BY <2>1 DEF IdsIn
    <3> QED
      BY <2>1, <3>1, <1>1
  <2> QED
    BY <2>1, <1>1
<1>3. ((at - 1 + delta + Len(items)) % Len(items)) \in 0..(Len(items) - 1)
  <2> HIDE DEF at, items
  <2>1. \A m \in Nat, n \in Nat : n # 0 => m % n \in 0..(n - 1)
    BY SMT
  <2>2. at - 1 + delta + Len(items) \in Nat
    BY <1>1, <1>2
  <2> QED
    BY <2>1, <2>2, <1>1
<1>4. selected' = items[((at - 1 + delta + Len(items)) % Len(items)) + 1]
  BY DEF Move
<1> HIDE DEF at
<1>5. ((at - 1 + delta + Len(items)) % Len(items)) + 1 \in DOMAIN items
  <2> HIDE DEF items
  <2> DEFINE m == (at - 1 + delta + Len(items)) % Len(items)
  <2> HIDE DEF m
  <2>1. m \in 0..(Len(items) - 1) => m + 1 \in DOMAIN items
    BY <1>1
  <2> QED
    BY <2>1, <1>3 DEF m
<1> QED
  BY <1>4, <1>5 DEF IdsIn

-----------------------------------------------------------------------------
(* Beginning a call.                                                       *)

CallRecord == [stage : Stages, gen : Nat, hub : Hubs \cup {None},
               link : {"open", "lost", "aborted"},
               read : 0..(MaxVersion + 1), sent : 0..(MaxVersion + 1)]

\* What becomes of calls after streamAbort.abort().
LEMMA AbortedCalls ==
    ASSUME HubClientTypeOK
    PROVE  /\ Aborted \in [Calls -> CallRecord]
           /\ \A d \in Calls :
                /\ Aborted[d] = [call[d] EXCEPT !.link = Aborted[d].link]
                /\ Aborted[d].link = IF d = streamAbort THEN "aborted" ELSE call[d].link
BY NamesAssumption DEF Aborted, HubClientTypeOK, CallRecord

LEMMA ConnectingCalls ==
    ASSUME NEW calls \in [Calls -> CallRecord], NEW c \in Calls, NEW g \in Nat, NEW h \in Hubs,
           Connecting(calls, c, g, h)
    PROVE  /\ calls[c].stage = "free"
           /\ call' \in [Calls -> CallRecord]
           /\ call'[c].stage = "state" /\ call'[c].gen = g /\ call'[c].hub = h
           /\ \A d \in Calls : d # c => call'[d] = calls[d]
<1>1. NoCall \in CallRecord
  BY BoundsAssumption DEF NoCall, CallRecord, Stages
<1>2. PICK link \in {"open", "lost"} :
         call' = [calls EXCEPT ![c] = [NoCall EXCEPT !.stage = "state", !.gen = g, !.hub = h, !.link = link]]
  BY DEF Connecting
<1>3. [NoCall EXCEPT !.stage = "state", !.gen = g, !.hub = h, !.link = link] \in CallRecord
  BY <1>1 DEF CallRecord, Stages
<1>4. calls[c].stage = "free"
  BY DEF Connecting
<1> DEFINE begun == [NoCall EXCEPT !.stage = "state", !.gen = g, !.hub = h, !.link = link]
<1>5. begun.stage = "state" /\ begun.gen = g /\ begun.hub = h
  BY DEF NoCall
<1> QED
  <2> HIDE DEF begun
  <2> QED
    BY <1>2, <1>3, <1>4, <1>5 DEF begun

\* The conversation, whatever was said before: the parts of the invariant that
\* do not concern types.
Conversation ==
    /\ CallsHaveOrigin /\ TimerIsCurrent /\ OneCurrent /\ StreamIsCurrent
    /\ ReadIsHonest /\ LiveMeansReading

\* Pairing and coming online: nobody holds a generation that has not come, so the
\* call that is begun is the only current one.
LEMMA StartKeeps ==
    ASSUME ClientInv, NEW cfg \in Hubs \cup {None}, start(cfg), config' = cfg,
           UNCHANGED <<world, view>>
    PROVE  Conversation' /\ call' \in [Calls -> CallRecord]
<1>1. CASE cfg = None
  <2>1. /\ ~ stopped' /\ generation' = generation + 1 /\ streamAbort' = None /\ retryTimer' = None
        /\ call' = Aborted /\ phase' = "unconfigured"
    BY <1>1 DEF start
  <2>2. \A d \in Calls : /\ call'[d].stage = call[d].stage /\ call'[d].gen = call[d].gen
                         /\ call'[d].hub = call[d].hub /\ call'[d].read = call[d].read
                         /\ call'[d].sent = call[d].sent
                         /\ call'[d].link = IF d = streamAbort THEN "aborted" ELSE call[d].link
    BY <2>1, AbortedCalls DEF CallRecord, ClientInv
  <2>3. \A d \in Calls : ~ Current(d)'
    BY <2>1, <2>2 DEF Current, Busy, isCurrent, ClientInv, HubClientTypeOK, CallsHaveOrigin
  <2>4. call' \in [Calls -> CallRecord]
    BY <2>1, AbortedCalls DEF ClientInv
  <2> QED
    BY <2>1, <2>2, <2>3, <2>4 DEF Conversation, ClientInv, CallsHaveOrigin, TimerIsCurrent, OneCurrent,
       StreamIsCurrent, ReadIsHonest, LiveMeansReading, Current, Busy, isCurrentStream, HubClientTypeOK
<1>2. CASE cfg # None
  <2> DEFINE g == generation + 2
  <2>1. /\ ~ stopped' /\ generation' = g /\ streamAbort' = None /\ retryTimer' = None
        /\ phase' = "connecting" /\ cfg \in Hubs /\ g \in Nat
    BY <1>2 DEF start, ClientInv, HubClientTypeOK
  <2>2. PICK c \in Calls : Connecting(Aborted, c, g, cfg)
    BY <1>2 DEF start
  <2>3. /\ call' \in [Calls -> CallRecord]
        /\ call'[c].stage = "state" /\ call'[c].gen = g /\ call'[c].hub = cfg
        /\ \A d \in Calls : d # c => call'[d] = Aborted[d]
    BY <2>1, <2>2, AbortedCalls, ConnectingCalls DEF ClientInv
  <2>4. \A d \in Calls : d # c =>
                         /\ call'[d].stage = call[d].stage /\ call'[d].gen = call[d].gen
                         /\ call'[d].hub = call[d].hub /\ call'[d].read = call[d].read
                         /\ call'[d].sent = call[d].sent
                         /\ call'[d].link = IF d = streamAbort THEN "aborted" ELSE call[d].link
    BY <2>3, AbortedCalls DEF CallRecord, ClientInv
  <2>5. \A d \in Calls : d # c => ~ Current(d)'
    BY <2>1, <2>4 DEF Current, Busy, isCurrent, ClientInv, HubClientTypeOK, CallsHaveOrigin
  <2> HIDE DEF g
  <2> QED
    BY <2>1, <2>3, <2>4, <2>5 DEF g, Conversation, ClientInv, CallsHaveOrigin, TimerIsCurrent, OneCurrent,
       StreamIsCurrent, ReadIsHonest, LiveMeansReading, Current, Busy, isCurrentStream, HubClientTypeOK
<1> QED
  BY <1>1, <1>2

-----------------------------------------------------------------------------
(* Types.                                                                  *)

LEMMA AcceptShows ==
    ASSUME NEW h \in Hubs, NEW version \in Versions, Accept(h, version)
    PROVE  /\ view' \in Views /\ view' # None /\ view'.hub = h /\ view'.version = version
           /\ SelectionFits(selected', view') /\ age' = "fresh"
<1>1. view' = [hub |-> h, version |-> version] /\ selected' = SelectionIn(view') /\ age' = "fresh"
  BY DEF Accept
<1>2. view' \in Views
  BY <1>1 DEF Views
<1> QED
  BY <1>1, <1>2, SelectionFollows, NamesAssumption

LEMMA TypeKeeps ==
    ASSUME ClientInv, [HubClientNext]_vars
    PROVE  HubClientTypeOK'
<1> USE BoundsAssumption, PatienceAssumption
    DEF ClientInv, HubClientTypeOK, clientVars, shownVars, hubVars
<1>1. ASSUME NEW cfg \in Hubs \cup {None}, start(cfg), config' = cfg, call' \in [Calls -> CallRecord],
             UNCHANGED <<hubVars, view, selected, trouble>>, online' \in BOOLEAN
      PROVE  HubClientTypeOK'
  <2>1. stopped' \in BOOLEAN
    BY <1>1, Zenon DEF start
  <2>2. generation' \in Nat /\ attempt' \in 0..Patience /\ streamAbort' = None
        /\ retryTimer' = None /\ age' = age /\ phase' \in {"unconfigured", "connecting"}
    BY <1>1 DEF start
  <2> QED
    BY <1>1, <2>1, <2>2 DEF CallRecord
<1>2. ASSUME NEW h \in Hubs, Pair(h) PROVE HubClientTypeOK'
  <2>1. call' \in [Calls -> CallRecord]
    BY <1>2, StartKeeps DEF Pair
  <2> QED
    BY <1>1, <1>2, <2>1 DEF Pair
<1>3. CASE GoOnline
  <2>1. call' \in [Calls -> CallRecord]
    BY <1>3, StartKeeps DEF GoOnline
  <2> QED
    BY <1>1, <1>3, <2>1 DEF GoOnline
<1>4. CASE Forget
  BY <1>4, AbortedCalls DEF Forget, stop, CallRecord
<1>5. CASE GoOffline \/ Age
  <2>1. online' \in BOOLEAN
    BY <1>5, Zenon DEF GoOffline, Age
  <2>2. CASE GoOffline
    BY <2>1, <2>2 DEF GoOffline
  <2>3. CASE Age
    BY <2>1, <2>3 DEF Age
  <2> QED
    BY <1>5, <2>2, <2>3
<1>6. ASSUME NEW id \in IdsIn(view), Select(id) PROVE HubClientTypeOK'
  BY <1>6 DEF Select
<1>7. ASSUME NEW delta \in {1}, Move(delta) PROVE HubClientTypeOK'
  BY <1>7, MoveSelects DEF Move
<1>8. CASE TimerFires
  <2>1. call' \in [Calls -> CallRecord]
    <3>1. CASE ~ stopped /\ config # None /\ retryTimer = generation
      <4>1. PICK c \in Calls : Connecting(call, c, generation, config)
        BY <1>8, <3>1 DEF TimerFires
      <4> QED
        BY <3>1, <4>1, ConnectingCalls DEF CallRecord
    <3> QED
      BY <1>8, <3>1 DEF TimerFires, CallRecord
  <2> QED
    BY <1>8, <2>1 DEF TimerFires, CallRecord
<1>9. NoCall \in CallRecord
  BY DEF NoCall, CallRecord, Stages
<1>10. ASSUME NEW c \in Calls, StateArrives(c) PROVE HubClientTypeOK'
  <2>1. call' \in [Calls -> CallRecord]
    BY <1>9, <1>10 DEF StateArrives, Return, CallRecord, Stages, Versions, CallsHaveOrigin, Busy
  <2> QED
    BY <1>10, <2>1 DEF StateArrives, Step, scheduleReconnect, Fault, CallRecord
<1>11. ASSUME NEW c \in Calls, BodyArrives(c) PROVE HubClientTypeOK'
  <2>1. call' \in [Calls -> CallRecord]
    BY <1>9, <1>11 DEF BodyArrives, BodyIsRead, Return, CallRecord, Stages
  <2>2. CASE BodyIsRead(c)
    <3>1. call[c].read \in Versions /\ call[c].hub \in Hubs
      BY <1>11 DEF BodyArrives, ReadIsHonest, CallsHaveOrigin, Busy, Versions
    <3> QED
      BY <1>11, <2>1, <2>2, <3>1, AcceptShows DEF BodyArrives, BodyIsRead, Step, CallRecord, SelectionFits
  <2>3. CASE ~ BodyIsRead(c)
    BY <1>11, <2>1, <2>3 DEF BodyArrives, Step, scheduleReconnect, Fault, CallRecord
  <2> QED
    BY <2>2, <2>3
<1>12. ASSUME NEW c \in Calls, StreamOpens(c) PROVE HubClientTypeOK'
  <2>1. call' \in [Calls -> CallRecord]
    BY <1>9, <1>12 DEF StreamOpens, StreamFails, Return, CallRecord, Stages, Versions, CallsHaveOrigin, Busy
  <2> QED
    BY <1>12, <2>1 DEF StreamOpens, StreamFails, Step, scheduleReconnect, Fault, CallRecord
<1>13. ASSUME NEW c \in Calls, Frame(c) PROVE HubClientTypeOK'
  <2>1. call' \in [Calls -> CallRecord] /\ call[c].read \in Versions /\ call[c].hub \in Hubs
    BY <1>13 DEF Frame, CallRecord, Versions, ReadIsHonest, CallsHaveOrigin, Busy
  <2>2. CASE Accept(call[c].hub, call[c].read)
    BY <1>13, <2>1, <2>2, AcceptShows DEF Frame, Step, Fault, CallRecord, SelectionFits
  <2>3. CASE ~ Accept(call[c].hub, call[c].read)
    BY <1>13, <2>1, <2>3 DEF Frame, Step, Fault, CallRecord
  <2> QED
    BY <2>2, <2>3
<1>14. ASSUME NEW c \in Calls, StreamEnds(c) PROVE HubClientTypeOK'
  BY <1>9, <1>14 DEF StreamEnds, StreamFails, Return, Step, scheduleReconnect, CallRecord
<1>15. ASSUME NEW c \in Calls, StreamOvertaken(c) PROVE HubClientTypeOK'
  BY <1>9, <1>15 DEF StreamOvertaken, Return, Step, CallRecord
<1>16. ASSUME NEW h \in Hubs, HubDown(h) \/ HubUp(h) PROVE HubClientTypeOK'
  BY <1>16 DEF HubDown, HubUp
<1>17. ASSUME NEW h \in Hubs, Publish(h) PROVE HubClientTypeOK'
  BY <1>17 DEF Publish, Versions, ReadIsHonest
<1>18. CASE UNCHANGED vars
  BY <1>18 DEF vars
<1> QED
  BY <1>2, <1>3, <1>4, <1>5, <1>6, <1>7, <1>8, <1>10, <1>11, <1>12, <1>13, <1>14, <1>15, <1>16,
     <1>17, <1>18 DEF HubClientNext, Hub, User, Proceed

-----------------------------------------------------------------------------
(* One lemma for each step that goes on with a conversation.               *)

LEMMA TimerFiresKeeps ==
    ASSUME ClientInv, TimerFires
    PROVE  Conversation'
<1> USE ClientInv DEF ClientInv, HubClientTypeOK, hubVars, shownVars
<1>1. CASE ~ (~ stopped /\ config # None /\ retryTimer = generation)
  BY <1>1 DEF TimerFires, TimerIsCurrent
<1>2. CASE ~ stopped /\ config # None /\ retryTimer = generation
  <2>1. PICK c \in Calls : Connecting(call, c, generation, config)
    BY <1>2 DEF TimerFires
  <2>2. /\ call[c].stage = "free" /\ call'[c].stage = "state"
        /\ call'[c].gen = generation /\ call'[c].hub = config /\ config \in Hubs
        /\ \A d \in Calls : d # c => call'[d] = call[d]
    BY <1>2, <2>1, ConnectingCalls DEF CallRecord
  <2>3. /\ retryTimer' = None /\ phase' # "live"
        /\ UNCHANGED <<stopped, generation, config, world, streamAbort, view>>
    BY <1>2 DEF TimerFires
  <2>4. streamAbort = None /\ \A d \in Calls : ~ Current(d)
    BY <1>2 DEF TimerFires, OneCurrent, StreamIsCurrent
  <2>5. \A d \in Calls : d # c => ~ Current(d)'
    BY <2>2, <2>3, <2>4 DEF Current, Busy, isCurrent
  <2> QED
    BY <2>2, <2>3, <2>4, <2>5 DEF Conversation, CallsHaveOrigin, TimerIsCurrent, OneCurrent,
       StreamIsCurrent, ReadIsHonest, LiveMeansReading, Current, Busy, isCurrent, isCurrentStream
<1> QED
  BY <1>1, <1>2

LEMMA StateArrivesKeeps ==
    ASSUME ClientInv, NEW c \in Calls, StateArrives(c)
    PROVE  Conversation'
<1> USE ClientInv, HubsAssumption, NamesAssumption, BoundsAssumption
    DEF ClientInv, HubClientTypeOK, hubVars, shownVars, Busy, Current, isCurrent, isCurrentStream,
        Step, StateArrives, scheduleReconnect, Return, Fault, Refused, NoCall
<1>1. CallsHaveOrigin'
  BY DEF CallsHaveOrigin
<1>2. TimerIsCurrent'
  BY DEF TimerIsCurrent, CallsHaveOrigin
<1>3. OneCurrent'
  BY DEF OneCurrent, CallsHaveOrigin, TimerIsCurrent
<1>4. StreamIsCurrent'
  BY DEF StreamIsCurrent, OneCurrent, CallsHaveOrigin
<1>5. ReadIsHonest'
  BY DEF ReadIsHonest, CallsHaveOrigin, OneCurrent, StreamIsCurrent
<1>6. LiveMeansReading'
  BY DEF LiveMeansReading, OneCurrent, StreamIsCurrent
<1> QED
  BY <1>1, <1>2, <1>3, <1>4, <1>5, <1>6 DEF Conversation

LEMMA BodyArrivesKeeps ==
    ASSUME ClientInv, NEW c \in Calls, BodyArrives(c)
    PROVE  Conversation'
<1> USE ClientInv, HubsAssumption, NamesAssumption, BoundsAssumption
    DEF ClientInv, HubClientTypeOK, hubVars, shownVars, Busy, Current, isCurrent, isCurrentStream,
        Step, BodyArrives, BodyIsRead, Accept, scheduleReconnect, Return, Fault, NoCall
<1>1. CallsHaveOrigin'
  BY DEF CallsHaveOrigin
<1>2. TimerIsCurrent'
  BY DEF TimerIsCurrent, CallsHaveOrigin
<1>3. OneCurrent'
  BY DEF OneCurrent, CallsHaveOrigin, TimerIsCurrent
<1>4. StreamIsCurrent'
  <2>1. CASE BodyIsRead(c)
    <3>1. call[c].read \in Versions /\ call[c].hub = config /\ config \in Hubs
      BY <2>1 DEF ReadIsHonest, CallsHaveOrigin, Versions
    <3>2. view' # None /\ view'.hub = config
      BY <2>1, <3>1, AcceptShows
    <3> QED
      BY <2>1, <3>2 DEF StreamIsCurrent, OneCurrent
  <2>2. CASE ~ BodyIsRead(c)
    BY <2>2 DEF StreamIsCurrent, OneCurrent
  <2> QED
    BY <2>1, <2>2
<1>5. ReadIsHonest'
  BY DEF ReadIsHonest, CallsHaveOrigin, OneCurrent, StreamIsCurrent
<1>6. LiveMeansReading'
  BY DEF LiveMeansReading, OneCurrent, StreamIsCurrent
<1> QED
  BY <1>1, <1>2, <1>3, <1>4, <1>5, <1>6 DEF Conversation

LEMMA StreamOpensKeeps ==
    ASSUME ClientInv, NEW c \in Calls, StreamOpens(c)
    PROVE  Conversation'
<1> USE ClientInv, HubsAssumption, NamesAssumption, BoundsAssumption
    DEF ClientInv, HubClientTypeOK, hubVars, shownVars, Busy, Current, isCurrent, isCurrentStream,
        Step, StreamOpens, StreamFails, scheduleReconnect, Return, Fault, Refused, NoCall
<1>1. CallsHaveOrigin'
  BY DEF CallsHaveOrigin
<1>2. TimerIsCurrent'
  BY DEF TimerIsCurrent, CallsHaveOrigin
<1>3. OneCurrent'
  BY DEF OneCurrent, CallsHaveOrigin, TimerIsCurrent
<1>4. StreamIsCurrent'
  BY DEF StreamIsCurrent, OneCurrent, CallsHaveOrigin
<1>5. ReadIsHonest'
  BY DEF ReadIsHonest, CallsHaveOrigin, OneCurrent, StreamIsCurrent
<1>6. LiveMeansReading'
  BY DEF LiveMeansReading, OneCurrent, StreamIsCurrent
<1> QED
  BY <1>1, <1>2, <1>3, <1>4, <1>5, <1>6 DEF Conversation

LEMMA FrameKeeps ==
    ASSUME ClientInv, NEW c \in Calls, Frame(c)
    PROVE  Conversation'
<1> USE ClientInv, HubsAssumption, NamesAssumption, BoundsAssumption
    DEF ClientInv, HubClientTypeOK, hubVars, shownVars, Step
<1>1. /\ call[c].stage = "reading" /\ Current(c) /\ streamAbort = c
      /\ call[c].hub = config /\ config \in Hubs /\ call[c].read \in Versions
      /\ call[c].read <= world[config] /\ world[config] \in Nat
  BY DEF Frame, StreamIsCurrent, CallsHaveOrigin, ReadIsHonest, Busy, Current, isCurrentStream, Versions
<1>2. /\ UNCHANGED <<world, config, stopped, generation, streamAbort, retryTimer>>
      /\ \A d \in Calls : d # c => call'[d] = call[d]
      /\ call'[c] = [call[c] EXCEPT !.read = call[c].read + 1]
  BY DEF Frame
<1>3. /\ call'[c].stage = "reading" /\ call'[c].gen = call[c].gen /\ call'[c].hub = config
      /\ call'[c].link = call[c].link /\ call'[c].read = call[c].read + 1
      /\ call'[c].sent = call[c].sent
  BY <1>1, <1>2
<1>4. /\ view # None /\ view.hub = config /\ view.version <= call[c].read
      /\ view \in Views /\ view.version \in Nat
  BY <1>1 DEF StreamIsCurrent, ReadIsHonest, Views, Versions
<1>5. /\ view' # None /\ view'.hub = config /\ view'.version <= call[c].read /\ view'.version \in Nat
  <2>1. CASE Accept(call[c].hub, call[c].read)
    BY <1>1, <2>1, AcceptShows DEF Versions
  <2>2. CASE ~ Accept(call[c].hub, call[c].read)
    BY <1>4, <2>2 DEF Frame
  <2> QED
    BY <2>1, <2>2
<1>6. \A d \in Calls : Current(d)' = Current(d) /\ (d # c => ~ Current(d))
  BY <1>1, <1>2, <1>3 DEF Current, Busy, isCurrent, OneCurrent
<1> QED
  BY <1>1, <1>2, <1>3, <1>4, <1>5, <1>6 DEF Conversation, CallsHaveOrigin, TimerIsCurrent, OneCurrent,
     StreamIsCurrent, ReadIsHonest, LiveMeansReading, Busy, isCurrentStream, isCurrent

LEMMA StreamEndsKeeps ==
    ASSUME ClientInv, NEW c \in Calls, StreamEnds(c)
    PROVE  Conversation'
<1> USE ClientInv, HubsAssumption, NamesAssumption, BoundsAssumption
    DEF ClientInv, HubClientTypeOK, hubVars, shownVars, Busy, Current, isCurrent, isCurrentStream,
        Step, StreamEnds, StreamFails, scheduleReconnect, Return, NoCall
<1>1. CallsHaveOrigin'
  BY DEF CallsHaveOrigin
<1>2. TimerIsCurrent'
  BY DEF TimerIsCurrent, CallsHaveOrigin
<1>3. OneCurrent'
  BY DEF OneCurrent, CallsHaveOrigin, TimerIsCurrent
<1>4. StreamIsCurrent'
  BY DEF StreamIsCurrent, OneCurrent, CallsHaveOrigin
<1>5. ReadIsHonest'
  BY DEF ReadIsHonest, CallsHaveOrigin, OneCurrent, StreamIsCurrent
<1>6. LiveMeansReading'
  BY DEF LiveMeansReading, OneCurrent, StreamIsCurrent
<1> QED
  BY <1>1, <1>2, <1>3, <1>4, <1>5, <1>6 DEF Conversation

LEMMA StreamOvertakenKeeps ==
    ASSUME ClientInv, NEW c \in Calls, StreamOvertaken(c)
    PROVE  Conversation'
<1> USE ClientInv, HubsAssumption, NamesAssumption, BoundsAssumption
    DEF ClientInv, HubClientTypeOK, hubVars, shownVars, Busy, Current, isCurrent, isCurrentStream,
        Step, StreamOvertaken, Return, NoCall
<1>1. CallsHaveOrigin'
  BY DEF CallsHaveOrigin
<1>2. TimerIsCurrent'
  BY DEF TimerIsCurrent, CallsHaveOrigin
<1>3. OneCurrent'
  BY DEF OneCurrent, CallsHaveOrigin, TimerIsCurrent
<1>4. StreamIsCurrent'
  BY DEF StreamIsCurrent, OneCurrent, CallsHaveOrigin
<1>5. ReadIsHonest'
  BY DEF ReadIsHonest, CallsHaveOrigin, OneCurrent, StreamIsCurrent
<1>6. LiveMeansReading'
  BY DEF LiveMeansReading, OneCurrent, StreamIsCurrent
<1> QED
  BY <1>1, <1>2, <1>3, <1>4, <1>5, <1>6 DEF Conversation

-----------------------------------------------------------------------------
(* The Hubs, and the user.                                                 *)

LEMMA HubKeeps ==
    ASSUME ClientInv, NEW h \in Hubs, HubDown(h) \/ HubUp(h) \/ Publish(h)
    PROVE  Conversation'
<1> USE ClientInv, BoundsAssumption DEF ClientInv, HubClientTypeOK, clientVars, shownVars
<1>1. UNCHANGED <<config, stopped, generation, streamAbort, retryTimer, phase, view>>
  BY DEF HubDown, HubUp, Publish
<1>2. \A d \in Calls : /\ call'[d].stage = call[d].stage /\ call'[d].gen = call[d].gen
                       /\ call'[d].hub = call[d].hub /\ call'[d].read = call[d].read
                       /\ call'[d].link = "aborted" <=> call[d].link = "aborted"
  BY DEF HubDown, HubUp, Publish
<1>3. /\ \A k \in Hubs : world'[k] \in Nat /\ world[k] <= world'[k]
      /\ \A d \in Calls : call[d].stage = "reading" /\ call[d].hub \in Hubs
            /\ call[d].sent <= world[call[d].hub] + 1 => call'[d].sent <= world'[call[d].hub] + 1
  <2>1. CASE HubDown(h) \/ HubUp(h)
    <3>1. world' = world /\ \A d \in Calls : call'[d].sent = call[d].sent
      BY <2>1 DEF HubDown, HubUp
    <3> QED
      BY <3>1 DEF Versions
  <2>2. CASE Publish(h)
    <3>1. world' = [world EXCEPT ![h] = world[h] + 1] /\ world \in [Hubs -> Nat]
      BY <2>2 DEF Publish, Versions
    <3>2. \A d \in Calls : \/ call'[d].sent = call[d].sent
                           \/ call[d].hub = h /\ call'[d].sent = call[d].sent + 1
      BY <2>2 DEF Publish
    <3> QED
      BY <3>1, <3>2
  <2> QED
    BY <2>1, <2>2
<1>4. \A d \in Calls : Current(d)' = Current(d)
  BY <1>1, <1>2 DEF Current, Busy, isCurrent
<1>5. CallsHaveOrigin' /\ TimerIsCurrent' /\ OneCurrent' /\ LiveMeansReading'
  BY <1>1, <1>2, <1>4 DEF CallsHaveOrigin, TimerIsCurrent, OneCurrent, LiveMeansReading, Busy
<1>6. StreamIsCurrent'
  BY <1>1, <1>2, <1>4 DEF StreamIsCurrent, isCurrentStream, isCurrent
<1>7. ReadIsHonest'
  <2>1. view # None => view.version <= world'[view.hub]
    BY <1>3 DEF ReadIsHonest, Views, Versions
  <2>2. ASSUME NEW d \in Calls, call[d].stage \in {"body", "reading"}
        PROVE  /\ call[d].hub \in Hubs
               /\ call[d].stage = "body" => call'[d].read <= world'[call[d].hub]
               /\ call[d].stage = "reading" => call'[d].sent <= world'[call[d].hub] + 1
    <3>1. call[d].hub \in Hubs
      BY <2>2 DEF CallsHaveOrigin, Busy
    <3> QED
      BY <1>2, <1>3, <2>2, <3>1 DEF ReadIsHonest, Versions
  <2> QED
    BY <1>1, <1>2, <1>4, <2>1, <2>2 DEF ReadIsHonest
<1> QED
  BY <1>5, <1>6, <1>7 DEF Conversation

LEMMA ForgetKeeps ==
    ASSUME ClientInv, Forget
    PROVE  Conversation'
<1>1. stopped' /\ streamAbort' = None /\ retryTimer' = None /\ phase' = "unconfigured"
      /\ generation' = generation + 1 /\ UNCHANGED <<world, view>>
  BY DEF Forget, stop, hubVars
<1>2. \A d \in Calls : /\ call'[d].stage = call[d].stage /\ call'[d].gen = call[d].gen
                       /\ call'[d].hub = call[d].hub /\ call'[d].read = call[d].read
                       /\ call'[d].sent = call[d].sent
                       /\ call'[d].link = IF d = streamAbort THEN "aborted" ELSE call[d].link
  <2>1. call' = Aborted
    BY DEF Forget
  <2> QED
    BY <2>1, AbortedCalls DEF CallRecord, ClientInv
<1>3. \A d \in Calls : ~ Current(d)'
  BY <1>1 DEF Current, isCurrent
<1> QED
  BY <1>1, <1>2, <1>3 DEF ClientInv, HubClientTypeOK, Conversation, CallsHaveOrigin, TimerIsCurrent,
     OneCurrent, StreamIsCurrent, ReadIsHonest, LiveMeansReading, Busy, isCurrentStream, isCurrent

\* What touches neither calls nor timer, nor says "live".
LEMMA QuietKeeps ==
    ASSUME ClientInv, phase' \in {phase, "offline"},
           UNCHANGED <<world, config, stopped, generation, streamAbort, retryTimer, call, view>>
    PROVE  Conversation'
BY DEF ClientInv, Conversation, CallsHaveOrigin, TimerIsCurrent, OneCurrent, StreamIsCurrent,
   ReadIsHonest, LiveMeansReading, Current, Busy, isCurrent, isCurrentStream

-----------------------------------------------------------------------------
(* The invariant.                                                          *)

LEMMA InitClient == HubClientInit => ClientInv
<1> SUFFICES ASSUME HubClientInit PROVE ClientInv
  OBVIOUS
<1>1. HubClientTypeOK
  <2>1. IdsIn(None) = {}
    BY DEF IdsIn, orderedItems
  <2>2. NoCall \in CallRecord
    BY BoundsAssumption DEF NoCall, CallRecord, Stages
  <2> QED
    BY <2>1, <2>2, BoundsAssumption, PatienceAssumption DEF HubClientInit, HubClientTypeOK, CallRecord,
       Versions
<1> QED
  BY <1>1 DEF HubClientInit, ClientInv, CallsHaveOrigin, TimerIsCurrent, OneCurrent, StreamIsCurrent,
     ReadIsHonest, LiveMeansReading, Current, Busy, NoCall

LEMMA NextClient == ClientInv /\ [HubClientNext]_vars => ClientInv'
<1> SUFFICES ASSUME ClientInv, [HubClientNext]_vars PROVE ClientInv'
  OBVIOUS
<1>1. HubClientTypeOK'
  BY TypeKeeps
<1>2. Conversation'
  <2>1. ASSUME NEW h \in Hubs, Pair(h) PROVE Conversation'
    BY <2>1, StartKeeps DEF Pair, hubVars
  <2>2. CASE GoOnline
    BY <2>2, StartKeeps DEF GoOnline, hubVars, ClientInv, HubClientTypeOK
  <2>3. CASE GoOffline
    BY <2>3, QuietKeeps DEF GoOffline, hubVars, clientVars
  <2>4. CASE Age
    BY <2>4, QuietKeeps DEF Age, hubVars, shownVars
  <2>5. ASSUME NEW id \in IdsIn(view), Select(id) PROVE Conversation'
    BY <2>5, QuietKeeps DEF Select, hubVars, clientVars
  <2>6. ASSUME NEW delta \in {1}, Move(delta) PROVE Conversation'
    BY <2>6, QuietKeeps DEF Move, hubVars, clientVars
  <2>7. CASE UNCHANGED vars
    BY <2>7, QuietKeeps DEF vars, hubVars, clientVars, shownVars
  <2>8. ASSUME NEW c \in Calls, Proceed(c) PROVE Conversation'
    BY <2>8, StateArrivesKeeps, BodyArrivesKeeps, StreamOpensKeeps, FrameKeeps, StreamEndsKeeps,
       StreamOvertakenKeeps DEF Proceed
  <2>9. ASSUME NEW h \in Hubs \ Refusing, HubDown(h) \/ HubUp(h) \/ Publish(h) PROVE Conversation'
    BY <2>9, HubKeeps
  <2> QED
    BY <2>1, <2>2, <2>3, <2>4, <2>5, <2>6, <2>7, <2>8, <2>9, ForgetKeeps, TimerFiresKeeps
       DEF HubClientNext, Hub, User
<1> QED
  BY <1>1, <1>2 DEF ClientInv, Conversation

THEOREM ClientInvariant == HubClientSpec => []ClientInv
BY InitClient, NextClient, PTL DEF HubClientSpec

-----------------------------------------------------------------------------
(* The conversation goes on.                                               *)

\* A paired client is not stopped; its call has not given up its stream; and it has
\* a call or a timer unless the Hub refused the token.
CarriesOn ==
    /\ config # None => ~ stopped
    /\ \A c \in Calls : Current(c) /\ call[c].stage \in {"stream", "reading"} => streamAbort = c
    /\ config \in Hubs \ Refusing => retryTimer # None \/ \E c \in Calls : Current(c)

LEMMA InitCarriesOn == HubClientInit => CarriesOn
BY HubsAssumption DEF HubClientInit, CarriesOn, Current, isCurrent

\* A start begins a call, with nothing to stream yet.
LEMMA StartCarriesOn ==
    ASSUME ClientInv, NEW cfg \in Hubs \cup {None}, start(cfg), config' = cfg
    PROVE  CarriesOn'
<1>1. ~ stopped'
  BY DEF start
<1>2. CASE cfg = None
  <2>1. \A d \in Calls : ~ Current(d)'
    <3>1. generation' = generation + 1 /\ call' = Aborted
      BY <1>2 DEF start
    <3>2. \A d \in Calls : call'[d].stage = call[d].stage /\ call'[d].gen = call[d].gen
      BY <3>1, AbortedCalls DEF CallRecord, ClientInv
    <3> QED BY <3>1, <3>2 DEF Current, Busy, isCurrent, ClientInv, HubClientTypeOK, CallsHaveOrigin
  <2> QED BY <1>1, <1>2, <2>1, HubsAssumption DEF CarriesOn
<1>3. CASE cfg # None
  <2> DEFINE g == generation + 2
  <2>1. generation' = g /\ g \in Nat /\ cfg \in Hubs
    BY <1>3 DEF start, ClientInv, HubClientTypeOK
  <2>2. PICK c \in Calls : Connecting(Aborted, c, g, cfg)
    BY <1>3 DEF start
  <2>3. /\ call'[c].stage = "state" /\ call'[c].gen = g
        /\ \A d \in Calls : d # c => call'[d] = Aborted[d]
    BY <2>1, <2>2, AbortedCalls, ConnectingCalls DEF ClientInv
  <2>4. \A d \in Calls : d # c => call'[d].stage = call[d].stage /\ call'[d].gen = call[d].gen
    BY <2>3, AbortedCalls DEF CallRecord, ClientInv
  <2>5. \A d \in Calls : d # c => ~ Current(d)'
    BY <2>1, <2>4 DEF Current, Busy, isCurrent, ClientInv, HubClientTypeOK, CallsHaveOrigin
  <2> HIDE DEF g
  <2> QED BY <1>1, <2>1, <2>3, <2>5 DEF CarriesOn, Current, Busy, isCurrent
<1> QED BY <1>2, <1>3

\* The timer that a call leaves behind begins the next.
LEMMA TimerCarriesOn ==
    ASSUME ClientInv, CarriesOn, TimerFires
    PROVE  CarriesOn'
<1>1. ~ stopped /\ config # None /\ retryTimer = generation /\ config \in Hubs
  BY DEF TimerFires, ClientInv, TimerIsCurrent, HubClientTypeOK
<1>2. PICK c \in Calls : Connecting(call, c, generation, config)
  BY <1>1 DEF TimerFires
<1>3. /\ call'[c].stage = "state" /\ call'[c].gen = generation
      /\ \A d \in Calls : d # c => call'[d] = call[d]
  BY <1>1, <1>2, ConnectingCalls DEF CallRecord, ClientInv, HubClientTypeOK
<1>4. UNCHANGED <<stopped, generation, config, streamAbort>>
  BY DEF TimerFires
<1> QED BY <1>1, <1>3, <1>4 DEF CarriesOn, Current, Busy, isCurrent

\* However a call ends that is not overtaken, it leaves a timer, or the Hub has
\* refused the token.
LEMMA ProceedCarriesOn ==
    ASSUME ClientInv, CarriesOn, NEW c \in Calls, Proceed(c)
    PROVE  CarriesOn'
<1>1. UNCHANGED <<config, stopped, generation>>
  BY DEF Proceed, StateArrives, BodyArrives, StreamOpens, Frame, StreamEnds, StreamOvertaken, Step
<1>2. /\ \A d \in Calls : d # c => call'[d] = call[d]
      /\ call[c].hub \in Refusing /\ Current(c) => call[c].hub = config
  BY DEF Proceed, StateArrives, BodyArrives, BodyIsRead, StreamOpens, StreamFails, Frame, StreamEnds,
     StreamOvertaken, Return, ClientInv, HubClientTypeOK, CallsHaveOrigin, Current
<1>3. \/ streamAbort' = streamAbort
      \/ streamAbort' = None /\ streamAbort = c
      \/ streamAbort' = c /\ Current(c)
  BY DEF Proceed, StateArrives, BodyArrives, BodyIsRead, StreamOpens, StreamFails, Frame, StreamEnds,
     StreamOvertaken, isCurrentStream, ClientInv, HubClientTypeOK, Current, Busy
<1>4. \/ call'[c].stage = "free"
      \/ /\ call'[c].stage # "free" /\ (Current(c) <=> Current(c)')
         /\ Current(c) /\ call'[c].stage \in {"stream", "reading"} => streamAbort' = c
  <2>1. CASE StateArrives(c)
    BY <1>1, <2>1 DEF StateArrives, Step, Return, Current, Busy,
       isCurrent, isCurrentStream, ClientInv, HubClientTypeOK, NoCall
  <2>2. CASE BodyArrives(c)
    BY <1>1, <2>2 DEF BodyArrives, BodyIsRead, Step, Return, Current, Busy,
       isCurrent, isCurrentStream, ClientInv, HubClientTypeOK, NoCall
  <2>3. CASE StreamOpens(c)
    BY <1>1, <2>3 DEF StreamOpens, StreamFails, Step, Return, Current, Busy,
       isCurrent, isCurrentStream, ClientInv, HubClientTypeOK, NoCall
  <2>4. CASE Frame(c)
    BY <1>1, <2>4 DEF Frame, Step, Return, Current, Busy,
       isCurrent, isCurrentStream, ClientInv, HubClientTypeOK, NoCall
  <2>5. CASE StreamEnds(c)
    BY <1>1, <2>5 DEF StreamEnds, StreamFails, Step, Return, Current, Busy,
       isCurrent, isCurrentStream, ClientInv, HubClientTypeOK, NoCall
  <2>6. CASE StreamOvertaken(c)
    BY <1>1, <2>6 DEF StreamOvertaken, Step, Return, Current, Busy,
       isCurrent, isCurrentStream, ClientInv, HubClientTypeOK, NoCall
  <2> QED BY <2>1, <2>2, <2>3, <2>4, <2>5, <2>6 DEF Proceed
<1>5. /\ retryTimer # None => retryTimer' # None
      /\ Current(c) /\ call'[c].stage = "free" /\ config \notin Refusing => retryTimer' # None
  <2>1. CASE StateArrives(c)
    BY <1>2, NamesAssumption, <2>1 DEF StateArrives, Step, Return, scheduleReconnect,
       Refused, Current, Busy, isCurrent, isCurrentStream, ClientInv, HubClientTypeOK, NoCall
  <2>2. CASE BodyArrives(c)
    BY <1>2, NamesAssumption, <2>2 DEF BodyArrives, BodyIsRead, Step, Return, scheduleReconnect,
       Refused, Current, Busy, isCurrent, isCurrentStream, ClientInv, HubClientTypeOK, NoCall
  <2>3. CASE StreamOpens(c)
    BY <1>2, NamesAssumption, <2>3 DEF StreamOpens, StreamFails, Step, Return, scheduleReconnect,
       Refused, Current, Busy, isCurrent, isCurrentStream, ClientInv, HubClientTypeOK, NoCall
  <2>4. CASE Frame(c)
    BY <1>2, NamesAssumption, <2>4 DEF Frame, Step, Return, scheduleReconnect,
       Refused, Current, Busy, isCurrent, isCurrentStream, ClientInv, HubClientTypeOK, NoCall
  <2>5. CASE StreamEnds(c)
    BY <1>2, NamesAssumption, <2>5 DEF StreamEnds, StreamFails, Step, Return, scheduleReconnect,
       Refused, Current, Busy, isCurrent, isCurrentStream, ClientInv, HubClientTypeOK, NoCall
  <2>6. CASE StreamOvertaken(c)
    BY <1>2, NamesAssumption, <2>6 DEF CarriesOn, StreamOvertaken, Step, Return,
       Refused, Current, Busy, isCurrent, isCurrentStream, ClientInv, HubClientTypeOK, NoCall
  <2> QED BY <2>1, <2>2, <2>3, <2>4, <2>5, <2>6 DEF Proceed
<1>6. \A d \in Calls : d # c => (Current(d)' <=> Current(d)) /\ (Current(d) => ~ Current(c))
  BY <1>1, <1>2 DEF Current, Busy, isCurrent, ClientInv, OneCurrent
<1> QED BY <1>1, <1>2, <1>3, <1>4, <1>5, <1>6, HubsAssumption DEF CarriesOn, Current, Busy

LEMMA NextCarriesOn == ClientInv /\ CarriesOn /\ [HubClientNext]_vars => CarriesOn'
<1> SUFFICES ASSUME ClientInv, CarriesOn, [HubClientNext]_vars PROVE CarriesOn'
  OBVIOUS
<1>1. ASSUME NEW h \in Hubs, Pair(h) PROVE CarriesOn'
  BY <1>1, StartCarriesOn DEF Pair
<1>2. CASE GoOnline
  BY <1>2, StartCarriesOn DEF GoOnline, ClientInv, HubClientTypeOK
<1>3. CASE Forget
  BY <1>3, HubsAssumption DEF Forget, CarriesOn, Current, isCurrent
<1>4. CASE TimerFires
  BY <1>4, TimerCarriesOn
<1>5. ASSUME NEW c \in Calls, Proceed(c) PROVE CarriesOn'
  BY <1>5, ProceedCarriesOn
<1>6. CASE UNCHANGED <<config, stopped, generation, streamAbort, retryTimer, call>>
  BY <1>6 DEF CarriesOn, Current, Busy, isCurrent
<1>7. ASSUME NEW h \in Hubs \ Refusing, HubDown(h) \/ HubUp(h) \/ Publish(h) PROVE CarriesOn'
  <2>1. /\ UNCHANGED <<config, stopped, generation, streamAbort, retryTimer>>
        /\ \A d \in Calls : call'[d].stage = call[d].stage /\ call'[d].gen = call[d].gen
    BY <1>7 DEF HubDown, HubUp, Publish, clientVars, ClientInv, HubClientTypeOK
  <2> QED BY <2>1 DEF CarriesOn, Current, Busy, isCurrent
<1>8. CASE \/ UNCHANGED vars \/ GoOffline \/ Age
           \/ \E id \in IdsIn(view) : Select(id)
           \/ \E delta \in {1} : Move(delta)
  BY <1>6, <1>8 DEF vars, clientVars, GoOffline, Age, Select, Move
<1> QED BY <1>1, <1>2, <1>3, <1>4, <1>5, <1>7, <1>8 DEF HubClientNext, Hub, User

-----------------------------------------------------------------------------
(* What it gives.                                                          *)

\* "Live" is said only while the stream of the paired Hub is being read, and its
\* state shown, however often the client was paired and whichever answers are late
\* (the generations of hubClient.ts).
THEOREM ClientLiveIsHonest == HubClientSpec => []LiveIsHonest
<1>1. ClientInv => LiveIsHonest
  BY DEF ClientInv, LiveIsHonest, LiveMeansReading, StreamIsCurrent, CallsHaveOrigin, Current,
     isCurrentStream, HubClientTypeOK
<1> QED
  BY <1>1, ClientInvariant, PTL

\* There is at most one call or one timer of the present generation, and no
\* connection of an earlier one is left open; nothing at all once the token is
\* forgotten; and at least one while the client is paired with a Hub that takes its
\* token: no way a request, a body or a stream ends leaves the display frozen.
THEOREM ClientOneConversation == HubClientSpec => []OneConversation
<1>1. ClientInv /\ CarriesOn => OneConversation
  <2> SUFFICES ASSUME ClientInv, CarriesOn PROVE OneConversation
    OBVIOUS
  <2>1. config = None => streamAbort = None /\ retryTimer = None
    BY HubsAssumption DEF ClientInv, TimerIsCurrent, StreamIsCurrent, CallsHaveOrigin, Current,
       HubClientTypeOK
  <2>2. ASSUME config \in Hubs \ Refusing
        PROVE  \/ retryTimer = generation
               \/ \E c \in Calls :
                     /\ call[c].stage # "free" /\ isCurrent(call[c].gen)
                     /\ call[c].stage \in {"stream", "reading"} => isCurrentStream(c)
    BY <2>2 DEF CarriesOn, ClientInv, TimerIsCurrent, Current, Busy, isCurrentStream
  <2> QED
    BY <2>1, <2>2 DEF ClientInv, OneConversation, OneCurrent, StreamIsCurrent, Current, Busy
<1>2. HubClientSpec => []CarriesOn
  BY InitCarriesOn, NextCarriesOn, ClientInvariant, PTL DEF HubClientSpec
<1> QED
  BY <1>1, <1>2, ClientInvariant, PTL

\* The cards only ever change to a state of the Hub the client is paired with, and
\* never back to an older one: hubClient.ts compares the generation after every
\* await, before it applies what it read.
THEOREM ClientViewFollowsPairing == HubClientSpec => ViewFollowsPairing
<1>1. ASSUME ClientInv, [HubClientNext]_vars, view' # view
      PROVE  /\ view'.hub = config
             /\ view # None /\ view.hub = view'.hub => view'.version >= view.version
  <2>1. PICK c \in Calls : BodyArrives(c) \/ Frame(c)
    BY <1>1 DEF HubClientNext, Hub, User, Proceed, vars, hubVars, clientVars, shownVars, Pair, Forget,
       GoOffline, GoOnline, Age, Select, Move, TimerFires, StateArrives, StreamOpens, StreamEnds,
       StreamOvertaken, HubDown, HubUp, Publish
  <2>2. Accept(call[c].hub, call[c].read) /\ Current(c) /\ call[c].stage \in {"body", "reading"}
    BY <1>1, <2>1 DEF BodyArrives, BodyIsRead, Frame, isCurrentStream, Current, Busy
  <2>3. call[c].hub = config /\ call[c].hub \in Hubs
    BY <1>1, <2>2 DEF ClientInv, CallsHaveOrigin, Current
  <2>4. call[c].read \in Versions
    <3>1. call[c].read \in Nat /\ call[c].sent \in Nat /\ world[call[c].hub] \in Versions
      BY <1>1, <2>3 DEF ClientInv, HubClientTypeOK
    <3>2. \/ call[c].stage = "body"
          \/ call[c].stage = "reading" /\ call[c].read < call[c].sent
      BY <2>1 DEF BodyArrives, Frame
    <3>3. call[c].read <= world[call[c].hub]
      BY <1>1, <3>1, <3>2 DEF ClientInv, ReadIsHonest, Versions
    <3> QED
      BY <3>1, <3>3, BoundsAssumption DEF Versions
  <2>5. view'.hub = config /\ view'.version = call[c].read
    BY <2>2, <2>3, <2>4, AcceptShows
  <2>6. view # None => view.version \in Nat
    BY <1>1 DEF ClientInv, HubClientTypeOK, Views, Versions
  <2> QED
    BY <1>1, <2>2, <2>3, <2>4, <2>5, <2>6 DEF ClientInv, ReadIsHonest, Versions
<1> QED
  BY <1>1, ClientInvariant, PTL DEF HubClientSpec, ViewFollowsPairing

=============================================================================
