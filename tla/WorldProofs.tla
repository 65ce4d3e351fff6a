----------------------------- MODULE WorldProofs -----------------------------
(***************************************************************************)
(* Theorems about the Hub's world: WorldModel, for every set of items and  *)
(* signals and every choice of the liveness thresholds, and SseStream, for *)
(* any number of clients and streams, any size of the ring, and any number *)
(* of changes and restarts.                                                *)
(***************************************************************************)
EXTENDS WorldModel, SseStream, SequenceTheorems, FiniteSetTheorems, WellFoundedInduction,
        TLAPS

-----------------------------------------------------------------------------
(* What the item operators return.                                         *)

\* The clamp returns an item that obeys ADR-0002 and touches no time field.
LEMMA EnforceOwnershipOwned ==
    ASSUME NEW item \in Item
    PROVE  LET owned == enforceOwnership(item)
           IN  /\ owned \in Item /\ Owned(owned)
               /\ owned.source = item.source /\ owned.state = item.state
               /\ owned.observedAt = item.observedAt
<1> DEFINE owned == enforceOwnership(item)
<1> USE DEF enforceOwnership, WithReason, Item
<1>1. CASE item.source \in Agents
  <2>1. AgentReason(item.source, item.state) \in Reasons
    BY DEF AgentReason, Reasons
  <2>2. owned \in Item
    BY <1>1, <2>1 DEF Severities
  <2>3. Owned(owned)
    BY <1>1 DEF Owned, AgentReason, Agents
  <2> QED BY <1>1, <2>2, <2>3
<1>2. CASE item.source \notin Agents
  <2>1. ClaimedReason(item) \in Reasons
    BY DEF ClaimedReason, Reasons, WebhookReason, States
  <2>2. owned \in Item
    BY <1>2, <2>1
  <2>3. Owned(owned)
    BY <1>2 DEF Owned, ClaimedReason, Agents
  <2> QED BY <1>2, <2>2, <2>3
<1> QED BY <1>1, <1>2

\* A signal merged into an item, or into the defaults, is an item seen now.
LEMMA MergedItem ==
    ASSUME NEW signal \in Signal, NEW existing \in Item \cup {NoItem}, now \in Int
    PROVE  LET merged == mergeSignal(existing, signal)
           IN  merged \in Item /\ merged.observedAt = now
<1>1. Defaults(signal) \in Item
  BY DEF Defaults, Item, Signal, Reasons, Severities, Livenesses
<1> DEFINE base == IF existing = NoItem THEN Defaults(signal) ELSE existing
<1>2. base \in Item
  BY <1>1
<1>3. Given(signal.reason, base.reason) \in Reasons
  BY <1>2 DEF Given, Item, Signal
<1>4. Given(signal.attention, base.attention) \in BOOLEAN
  BY <1>2 DEF Given, Item, Signal
<1>5. Given(signal.severity, base.severity) \in Severities
  BY <1>2 DEF Given, Item, Signal
<1> QED BY <1>2, <1>3, <1>4, <1>5 DEF mergeSignal, Item, Signal

\* liveness is one of the four, live for a terminal item, and only gets worse.
LEMMA LivenessProperties ==
    ASSUME NEW item \in Item, NEW t \in Int
    PROVE  /\ livenessAt(item, t) \in Livenesses
           /\ item.state \in TERMINAL => livenessAt(item, t) = "live"
           /\ item.state \notin TERMINAL /\ livenessAt(item, t) = "live"
                 => t < item.staleAfter + QuietAfter
           /\ Worse[livenessAt(item, t)] <= Worse[livenessAt(item, t + 1)]
<1> USE GraceAssumption DEF livenessAt, Item
<1>1. livenessAt(item, t) \in Livenesses
  BY DEF Livenesses
<1>2. item.state \in TERMINAL => livenessAt(item, t) = "live"
  OBVIOUS
<1>3. item.state \notin TERMINAL /\ livenessAt(item, t) = "live"
         => t < item.staleAfter + QuietAfter
  OBVIOUS
<1>4. Worse[livenessAt(item, t)] <= Worse[livenessAt(item, t + 1)]
  BY DEF Worse
<1> QED BY <1>1, <1>2, <1>3, <1>4

-----------------------------------------------------------------------------
(* The inductive invariant: what holds of one stored item at time t, when  *)
(* something last vouched for it at time h and the ticker last ran at lt.  *)

GoodItem(item, t, h, lt, tk) ==
    /\ item \in Item
    /\ Owned(item)
    /\ item.state \in TERMINAL => item.liveness = "live"
    /\ Worse[item.liveness] <= Worse[livenessAt(item, t)]
    /\ item.state \notin TERMINAL => item.staleAfter <= h + Grace(item.source)
    /\ (tk /\ item.state \notin TERMINAL /\ item.liveness = "live")
          => lt < h + Grace(item.source) + QuietAfter

ClockInv ==
    /\ lastTick <= now
    /\ hub = "up" => now <= lastTick + TickEvery
    /\ ticked => hub = "up"

WorldInv ==
    /\ WorldTypeOK
    /\ ClockInv
    /\ \A id \in Ids : items[id] # NoItem
                          => GoodItem(items[id], now, heard[id], lastTick, ticked)

\* An item just derived from a report of now.
LEMMA DerivedIsGood ==
    ASSUME NEW item \in Item, Owned(item), item.observedAt = now,
           now \in Int, NEW lt \in Int, lt <= now, NEW tk \in BOOLEAN
    PROVE  GoodItem(deriveLiveness(item), now, now, lt, tk)
<1> DEFINE stale == nextStaleAfter(item.source, item.state, item.observedAt)
           dated == [item EXCEPT !.staleAfter = stale]
           derived == [dated EXCEPT !.liveness = livenessAt(dated, now)]
<1>1. Grace(item.source) \in Int /\ Grace(item.source) > 0 /\ QuietAfter > 0 /\ QuietAfter \in Int
  BY GraceAssumption DEF Grace
<1>2. stale \in Int
  BY <1>1, TimeAssumption DEF nextStaleAfter, FarFuture, Item
<1>3. dated \in Item
  BY <1>2 DEF Item
<1>4. livenessAt(dated, now) \in Livenesses
  BY <1>3, LivenessProperties
<1>5. derived \in Item
  BY <1>3, <1>4 DEF Item
<1>6. /\ derived.source = item.source /\ derived.state = item.state
      /\ derived.reason = item.reason /\ derived.attention = item.attention
      /\ derived.severity = item.severity /\ derived.staleAfter = stale
      /\ derived.liveness = livenessAt(dated, now)
      /\ dated.state = item.state /\ dated.staleAfter = stale
  BY <1>3 DEF Item
<1>7. livenessAt(derived, now) = livenessAt(dated, now)
  BY <1>6 DEF livenessAt
<1>8. Owned(derived)
  BY <1>6 DEF Owned
<1>9. derived.state \notin TERMINAL => stale = now + Grace(item.source)
  BY <1>6 DEF nextStaleAfter
<1>10. Worse[livenessAt(dated, now)] <= Worse[livenessAt(dated, now)]
  BY <1>4 DEF Livenesses, Worse
<1>11. derived = deriveLiveness(item)
  BY DEF deriveLiveness
<1>12. derived.state \in TERMINAL => derived.liveness = "live"
  BY <1>3, <1>6, LivenessProperties
<1>13. derived.state \notin TERMINAL => derived.staleAfter <= now + Grace(derived.source)
  BY <1>1, <1>6, <1>9
<1>14. lt < now + Grace(derived.source) + QuietAfter
  BY <1>1, <1>6
<1>15. GoodItem(derived, now, now, lt, tk)
  BY <1>5, <1>6, <1>7, <1>8, <1>10, <1>12, <1>13, <1>14 DEF GoodItem
<1> QED BY <1>11, <1>15

\* An item refreshed by a heartbeat of its source.
LEMMA RefreshedIsGood ==
    ASSUME NEW item \in Item, Owned(item), now \in Int, NEW lt \in Int, lt <= now,
           NEW tk \in BOOLEAN
    PROVE  GoodItem(Refreshed(item), now, now, lt, tk)
<1> DEFINE renewed == [item EXCEPT !.observedAt = now]
<1>1. renewed \in Item /\ renewed.observedAt = now /\ Owned(renewed)
  BY DEF Item, Owned
<1>2. GoodItem(deriveLiveness(renewed), now, now, lt, tk)
  BY <1>1, DerivedIsGood
<1> DEFINE refreshed == Refreshed(item)
           derived == deriveLiveness(renewed)
           stale == nextStaleAfter(item.source, item.state, now)
           dated == [item EXCEPT !.staleAfter = stale]
           datedSeen == [renewed EXCEPT !.staleAfter = stale]
<1>3. stale \in Int
  BY GraceAssumption, TimeAssumption DEF nextStaleAfter, FarFuture, Grace, Item
<1>4. dated \in Item /\ datedSeen \in Item
  BY <1>1, <1>3 DEF Item
<1>5. livenessAt(dated, now) = livenessAt(datedSeen, now)
  BY <1>1, <1>3 DEF livenessAt, Item
<1>6. livenessAt(dated, now) \in Livenesses
  BY <1>4, LivenessProperties
<1>7. derived = [datedSeen EXCEPT !.liveness = livenessAt(dated, now)]
  BY <1>1, <1>5 DEF deriveLiveness, Item
<1>8. refreshed = [dated EXCEPT !.liveness = livenessAt(dated, now)]
  BY DEF Refreshed
<1>9. refreshed \in Item
  BY <1>4, <1>6, <1>8 DEF Item
<1>10. /\ refreshed.source = derived.source /\ refreshed.state = derived.state
       /\ refreshed.reason = derived.reason /\ refreshed.attention = derived.attention
       /\ refreshed.severity = derived.severity
       /\ refreshed.staleAfter = derived.staleAfter
       /\ refreshed.liveness = derived.liveness
  BY <1>4, <1>7, <1>8 DEF Item
<1>11. livenessAt(refreshed, now) = livenessAt(derived, now)
  BY <1>10 DEF livenessAt
<1> QED BY <1>2, <1>9, <1>10, <1>11 DEF GoodItem, Owned

\* An item whose liveness the ticker has just recomputed.
LEMMA TickedIsGood ==
    ASSUME NEW item, NEW h \in Int, NEW lt \in Int, NEW tk \in BOOLEAN, now \in Int,
           GoodItem(item, now, h, lt, tk)
    PROVE  GoodItem([item EXCEPT !.liveness = livenessAt(item, now)], now, h, now, TRUE)
<1> DEFINE ticked1 == [item EXCEPT !.liveness = livenessAt(item, now)]
<1>1. item \in Item
  BY DEF GoodItem
<1>2. livenessAt(item, now) \in Livenesses
  BY <1>1, LivenessProperties
<1>3. /\ ticked1 \in Item
      /\ ticked1.source = item.source /\ ticked1.state = item.state
      /\ ticked1.reason = item.reason /\ ticked1.attention = item.attention
      /\ ticked1.severity = item.severity /\ ticked1.staleAfter = item.staleAfter
      /\ ticked1.liveness = livenessAt(item, now)
  BY <1>1, <1>2 DEF Item
<1>4. livenessAt(ticked1, now) = livenessAt(item, now)
  BY <1>3 DEF livenessAt
<1>5. Owned(ticked1)
  BY <1>3 DEF Owned, GoodItem
<1>6. Worse[livenessAt(item, now)] <= Worse[livenessAt(item, now)]
  BY <1>2 DEF Livenesses, Worse
<1>7. Grace(item.source) \in Int /\ QuietAfter \in Int /\ item.staleAfter \in Int
  BY <1>1, GraceAssumption DEF Grace, Item
<1>8. item.state \notin TERMINAL => item.staleAfter <= h + Grace(item.source)
  BY DEF GoodItem
<1>9. item.state \notin TERMINAL /\ livenessAt(item, now) = "live"
         => now < item.staleAfter + QuietAfter
  BY <1>1, LivenessProperties
<1>10. item.state \notin TERMINAL /\ livenessAt(item, now) = "live"
         => now < h + Grace(item.source) + QuietAfter
  BY <1>7, <1>8, <1>9
<1>11. ticked1.state \in TERMINAL => ticked1.liveness = "live"
  BY <1>1, <1>3, LivenessProperties
<1> QED BY <1>3, <1>4, <1>5, <1>6, <1>8, <1>10, <1>11 DEF GoodItem

\* An item no step touches while the clock advances.
LEMMA AgedIsGood ==
    ASSUME NEW item, NEW h \in Int, NEW lt \in Int, NEW tk \in BOOLEAN, NEW t \in Int,
           GoodItem(item, t, h, lt, tk)
    PROVE  GoodItem(item, t + 1, h, lt, tk)
<1>1. item \in Item /\ item.liveness \in Livenesses
  BY DEF GoodItem, Item
<1>2. livenessAt(item, t) \in Livenesses /\ livenessAt(item, t + 1) \in Livenesses
  BY <1>1, LivenessProperties
<1>3. Worse[livenessAt(item, t)] <= Worse[livenessAt(item, t + 1)]
  BY <1>1, LivenessProperties
<1>4. Worse[item.liveness] <= Worse[livenessAt(item, t)]
  BY DEF GoodItem
<1>5. Worse[item.liveness] <= Worse[livenessAt(item, t + 1)]
  BY <1>1, <1>2, <1>3, <1>4 DEF Livenesses, Worse
<1> QED BY <1>5 DEF GoodItem

-----------------------------------------------------------------------------
(* The invariant is inductive: one lemma per action that touches items.    *)

LEMMA InitEstablishesWorldInv == WorldInit => WorldInv
<1> SUFFICES ASSUME WorldInit PROVE WorldInv
  OBVIOUS
<1>1. WorldTypeOK
  <2>1. items \in [Ids -> Item \cup {NoItem}] /\ heard \in [Ids -> Int]
    BY DEF WorldInit
  <2>2. now \in Int /\ lastTick \in Int /\ hub \in {"down", "starting", "up"}
    BY DEF WorldInit
  <2>3. ticked \in BOOLEAN
    BY DEF WorldInit
  <2> QED BY <2>1, <2>2, <2>3 DEF WorldTypeOK
<1>2. ClockInv
  BY GraceAssumption DEF WorldInit, ClockInv
<1> QED BY <1>1, <1>2 DEF WorldInit, WorldInv

\* A signal for id leaves a good item there.
LEMMA AppliedIsGood ==
    ASSUME WorldInv, NEW signal \in Signal
    PROVE  /\ deriveLiveness(enforceOwnership(mergeSignal(items[signal.id], signal))) \in Item
           /\ GoodItem(deriveLiveness(enforceOwnership(mergeSignal(items[signal.id], signal))),
                       now, now, lastTick, ticked)
<1> DEFINE merged == mergeSignal(items[signal.id], signal)
           owned == enforceOwnership(merged)
<1>1. /\ items[signal.id] \in Item \cup {NoItem} /\ now \in Int /\ lastTick \in Int
      /\ lastTick <= now /\ ticked \in BOOLEAN
  BY DEF WorldInv, WorldTypeOK, ClockInv, Signal
<1>2. merged \in Item /\ merged.observedAt = now
  BY <1>1, MergedItem
<1> HIDE DEF merged
<1>3. owned \in Item /\ Owned(owned) /\ owned.observedAt = now
  BY <1>2, EnforceOwnershipOwned
<1> HIDE DEF owned
<1>4. GoodItem(deriveLiveness(owned), now, now, lastTick, ticked)
  BY <1>1, <1>3, DerivedIsGood
<1>5. deriveLiveness(owned) \in Item
  BY <1>4 DEF GoodItem
<1> QED BY <1>4, <1>5 DEF owned, merged

\* Storing a good item that was vouched for now keeps the invariant.
LEMMA StoredKeepsWorldInv ==
    ASSUME WorldInv, NEW id \in Ids, NEW item,
           GoodItem(item, now, now, lastTick, ticked),
           items' = [items EXCEPT ![id] = item],
           heard' = [heard EXCEPT ![id] = now],
           UNCHANGED <<now, hub, lastTick, ticked>>
    PROVE  WorldInv'
<1>1. item \in Item
  BY DEF GoodItem
<1>2. WorldTypeOK'
  BY <1>1 DEF WorldInv, WorldTypeOK
<1>3. ClockInv'
  BY DEF WorldInv, ClockInv
<1>4. ASSUME NEW other \in Ids, items'[other] # NoItem
      PROVE  GoodItem(items'[other], now, heard'[other], lastTick, ticked)
  <2>1. CASE other = id
    BY <2>1 DEF WorldInv, WorldTypeOK
  <2>2. CASE other # id
    BY <1>4, <2>2 DEF WorldInv, WorldTypeOK
  <2> QED BY <2>1, <2>2
<1> QED BY <1>2, <1>3, <1>4 DEF WorldInv

LEMMA IngestKeepsWorldInv ==
    ASSUME WorldInv, NEW signal \in Signals, Ingest(signal)
    PROVE  WorldInv'
<1>1. signal \in Signal /\ signal.id \in Ids
  BY SignalsAssumption DEF Signal
<1>2. GoodItem(deriveLiveness(enforceOwnership(mergeSignal(items[signal.id], signal))),
               now, now, lastTick, ticked)
  BY <1>1, AppliedIsGood
<1> QED BY <1>1, <1>2, StoredKeepsWorldInv DEF Ingest, applySignal

LEMMA HookHeartbeatKeepsWorldInv ==
    ASSUME WorldInv, NEW id \in Sessions, NEW complete \in BOOLEAN,
           HookHeartbeat(id, complete)
    PROVE  WorldInv'
<1>1. /\ id \in Ids /\ now \in Int /\ lastTick \in Int /\ lastTick <= now
      /\ ticked \in BOOLEAN
  BY SignalsAssumption DEF WorldInv, WorldTypeOK, ClockInv
<1>2. CASE items[id] # NoItem
  <2> DEFINE renewed == [items[id] EXCEPT !.observedAt = now]
             owned == enforceOwnership(renewed)
  <2>1. renewed \in Item /\ renewed.observedAt = now
    BY <1>1, <1>2 DEF WorldInv, WorldTypeOK, Item
  <2>2. items' = [items EXCEPT ![id] = deriveLiveness(owned)]
    BY <1>2 DEF HookHeartbeat
  <2> HIDE DEF renewed
  <2>3. owned \in Item /\ Owned(owned) /\ owned.observedAt = now
    BY <2>1, EnforceOwnershipOwned
  <2> HIDE DEF owned
  <2>4. GoodItem(deriveLiveness(owned), now, now, lastTick, ticked)
    BY <1>1, <2>3, DerivedIsGood
  <2> QED BY <1>1, <2>2, <2>4, StoredKeepsWorldInv DEF HookHeartbeat
<1>3. CASE items[id] = NoItem /\ complete
  <2> DEFINE signal == HeartbeatSignal(id)
  <2>1. signal \in Signal /\ signal.id = id
    BY <1>1 DEF HeartbeatSignal, Signal, Sources, States, Reasons, Severities
  <2>2. applySignal(signal)
    BY <1>3 DEF HookHeartbeat
  <2> HIDE DEF signal
  <2>3. GoodItem(deriveLiveness(enforceOwnership(mergeSignal(items[id], signal))),
                 now, now, lastTick, ticked)
    BY <2>1, AppliedIsGood
  <2> QED BY <1>1, <2>1, <2>2, <2>3, StoredKeepsWorldInv DEF HookHeartbeat, applySignal
<1>4. CASE items[id] = NoItem /\ ~ complete
  <2>1. items' = items /\ heard' = [heard EXCEPT ![id] = now]
        /\ UNCHANGED <<now, hub, lastTick, ticked>>
    BY <1>4 DEF HookHeartbeat
  <2>2. WorldTypeOK' /\ ClockInv'
    BY <2>1 DEF WorldInv, WorldTypeOK, ClockInv
  <2>3. ASSUME NEW other \in Ids, items'[other] # NoItem
        PROVE  GoodItem(items'[other], now, heard'[other], lastTick, ticked)
    BY <1>4, <2>1, <2>3 DEF WorldInv, WorldTypeOK
  <2> QED BY <2>1, <2>2, <2>3 DEF WorldInv
<1> QED BY <1>2, <1>3, <1>4

LEMMA SourceHeartbeatKeepsWorldInv ==
    ASSUME WorldInv, NEW source \in SelfStarting, SourceHeartbeat(source)
    PROVE  WorldInv'
<1>1. now \in Int /\ lastTick \in Int /\ lastTick <= now /\ ticked \in BOOLEAN
  BY DEF WorldInv, WorldTypeOK, ClockInv
<1>2. UNCHANGED <<now, hub, lastTick, ticked>>
  BY DEF SourceHeartbeat
<1>3. ASSUME NEW id \in ItemsOf(source)
      PROVE  /\ items'[id] = Refreshed(items[id]) /\ heard'[id] = now
             /\ GoodItem(Refreshed(items[id]), now, now, lastTick, ticked)
  <2>1. id \in Ids /\ items[id] # NoItem /\ items[id] \in Item /\ Owned(items[id])
    BY DEF ItemsOf, Known, WorldInv, WorldTypeOK, GoodItem
  <2>2. GoodItem(Refreshed(items[id]), now, now, lastTick, ticked)
    BY <1>1, <2>1, RefreshedIsGood
  <2> QED BY <2>1, <2>2 DEF SourceHeartbeat
<1>4. ASSUME NEW id \in Ids, id \notin ItemsOf(source)
      PROVE  items'[id] = items[id] /\ heard'[id] = heard[id]
  BY <1>4 DEF SourceHeartbeat
<1>5. ItemsOf(source) \subseteq Ids
  BY DEF ItemsOf, Known
<1>6. \A id \in ItemsOf(source) : items'[id] \in Item
  BY <1>3 DEF GoodItem
<1>7. /\ items' = [id \in Ids |-> items'[id]] /\ heard' = [id \in Ids |-> heard'[id]]
  BY DEF SourceHeartbeat
<1>8. items' \in [Ids -> Item \cup {NoItem}] /\ heard' \in [Ids -> Int]
  <2>1. \A id \in Ids : items'[id] \in Item \cup {NoItem}
    BY <1>4, <1>6 DEF WorldInv, WorldTypeOK
  <2>2. \A id \in Ids : heard'[id] \in Int
    BY <1>1, <1>3, <1>4 DEF WorldInv, WorldTypeOK
  <2> QED BY <1>7, <2>1, <2>2
<1>9. WorldTypeOK' /\ ClockInv'
  BY <1>2, <1>8 DEF WorldInv, WorldTypeOK, ClockInv
<1>10. ASSUME NEW id \in Ids, items'[id] # NoItem
       PROVE  GoodItem(items'[id], now, heard'[id], lastTick, ticked)
  BY <1>3, <1>4, <1>10 DEF WorldInv
<1> QED BY <1>2, <1>9, <1>10 DEF WorldInv

LEMMA TickKeepsWorldInv == ASSUME WorldInv, Tick PROVE WorldInv'
<1>1. now \in Int /\ lastTick \in Int /\ ticked \in BOOLEAN /\ heard \in [Ids -> Int]
  BY DEF WorldInv, WorldTypeOK
<1>2. /\ now' = now /\ heard' = heard /\ hub' = hub /\ hub = "up"
      /\ lastTick' = now /\ ticked' = TRUE
  BY DEF Tick
<1>3. ASSUME NEW id \in Ids, items[id] # NoItem
      PROVE  GoodItem(items'[id], now, heard[id], now, TRUE)
  <2>1. GoodItem(items[id], now, heard[id], lastTick, ticked)
    BY <1>3 DEF WorldInv
  <2>2. items'[id] = [items[id] EXCEPT !.liveness = livenessAt(items[id], now)]
    BY <1>3 DEF Tick, Known
  <2>3. heard[id] \in Int
    BY <1>1
  <2>4. GoodItem([items[id] EXCEPT !.liveness = livenessAt(items[id], now)],
                 now, heard[id], now, TRUE)
    BY <1>1, <2>1, <2>3, TickedIsGood
  <2> QED BY <2>2, <2>4
<1>4. ASSUME NEW id \in Ids, items[id] = NoItem PROVE items'[id] = NoItem
  BY <1>4 DEF Tick, Known
<1>5. items' \in [Ids -> Item \cup {NoItem}]
  <2>1. \A id \in Ids : items'[id] \in Item \cup {NoItem}
    BY <1>3, <1>4 DEF GoodItem
  <2>2. items' = [id \in Ids |-> items'[id]]
    BY DEF Tick
  <2> QED BY <2>1, <2>2
<1>6. WorldTypeOK'
  BY <1>1, <1>2, <1>5 DEF WorldInv, WorldTypeOK
<1>7. ClockInv'
  BY <1>1, <1>2, GraceAssumption DEF ClockInv
<1> QED BY <1>2, <1>3, <1>4, <1>6, <1>7 DEF WorldInv

LEMMA AdvanceKeepsWorldInv == ASSUME WorldInv, Advance PROVE WorldInv'
<1>1. now \in Int /\ lastTick \in Int /\ ticked \in BOOLEAN /\ heard \in [Ids -> Int]
  BY DEF WorldInv, WorldTypeOK
<1>2. now' = now + 1 /\ UNCHANGED <<items, hub, lastTick, ticked, heard>>
  BY DEF Advance
<1>3. WorldTypeOK'
  BY <1>1, <1>2 DEF WorldInv, WorldTypeOK
<1>4. ClockInv'
  BY <1>1, <1>2, GraceAssumption DEF Advance, WorldInv, ClockInv
<1>5. ASSUME NEW id \in Ids, items[id] # NoItem
      PROVE  GoodItem(items[id], now + 1, heard[id], lastTick, ticked)
  BY <1>1, <1>5, AgedIsGood DEF WorldInv
<1> QED BY <1>2, <1>3, <1>4, <1>5 DEF WorldInv

\* Stopping and starting change what runs, not what is stored.
LEMMA RestartKeepsWorldInv == ASSUME WorldInv, Stop \/ Start \/ Started PROVE WorldInv'
<1>1. UNCHANGED <<items, now, heard>>
  BY DEF Stop, Start, Started
<1>2. now \in Int /\ lastTick \in Int /\ lastTick <= now /\ ticked \in BOOLEAN
  BY DEF WorldInv, WorldTypeOK, ClockInv
<1>3. ~ ticked' /\ ticked' \in BOOLEAN
  <2>1. CASE Stop
    BY <2>1 DEF Stop
  <2>2. CASE Start \/ Started
    <3>1. ticked' = ticked /\ hub # "up"
      BY <2>2 DEF Start, Started
    <3>2. ~ ticked
      BY <3>1 DEF WorldInv, ClockInv
    <3>3. ticked = FALSE
      BY <1>2, <3>2
    <3> QED BY <3>1, <3>3
  <2> QED BY <2>1, <2>2
<1>4. WorldTypeOK' /\ ClockInv'
  BY <1>1, <1>2, <1>3, GraceAssumption
     DEF Stop, Start, Started, WorldInv, WorldTypeOK, ClockInv
<1>5. ASSUME NEW id \in Ids, items[id] # NoItem
      PROVE  GoodItem(items[id], now, heard[id], lastTick', ticked')
  BY <1>3, <1>5 DEF WorldInv, GoodItem
<1> QED BY <1>1, <1>4, <1>5 DEF WorldInv

LEMMA NextKeepsWorldInv == WorldInv /\ [WorldNext]_worldVars => WorldInv'
<1> SUFFICES ASSUME WorldInv, [WorldNext]_worldVars PROVE WorldInv'
  OBVIOUS
<1>1. CASE \E signal \in Signals : Ingest(signal)
  BY <1>1, IngestKeepsWorldInv
<1>2. CASE \E id \in Sessions, complete \in BOOLEAN : HookHeartbeat(id, complete)
  BY <1>2, HookHeartbeatKeepsWorldInv
<1>3. CASE \E source \in SelfStarting : SourceHeartbeat(source)
  BY <1>3, SourceHeartbeatKeepsWorldInv
<1>4. CASE Tick
  BY <1>4, TickKeepsWorldInv
<1>5. CASE Advance
  BY <1>5, AdvanceKeepsWorldInv
<1>6. CASE Stop \/ Start \/ Started
  BY <1>6, RestartKeepsWorldInv
<1>7. CASE UNCHANGED worldVars
  BY <1>7 DEF worldVars, WorldInv, WorldTypeOK, ClockInv, GoodItem, livenessAt
<1> QED BY <1>1, <1>2, <1>3, <1>4, <1>5, <1>6, <1>7 DEF WorldNext

\* WorldInv holds throughout every behaviour.
THEOREM WorldInvariant == WorldSpec => []WorldInv
<1> QED BY InitEstablishesWorldInv, NextKeepsWorldInv, PTL DEF WorldSpec

-----------------------------------------------------------------------------
(* The properties the runs check.                                          *)

\* Every variable keeps its type, whatever signals arrive in whatever order
\* (WorldModel.applySignal and applyHeartbeat store well-formed items only).
THEOREM WorldTypeCorrect == WorldSpec => []WorldTypeOK
<1>1. WorldInv => WorldTypeOK
  BY DEF WorldInv
<1> QED BY <1>1, WorldInvariant, PTL

\* ADR-0002 holds of every stored item whatever adapters and POSTs claim
\* (enforceOwnership in engine/attention.ts).
THEOREM AttentionIsOwned == WorldSpec => []OwnershipHolds
<1>1. WorldInv => OwnershipHolds
  BY DEF WorldInv, OwnershipHolds, GoodItem, Known
<1> QED BY <1>1, WorldInvariant, PTL

\* Finished and failed items are never decayed (TERMINAL in engine/liveness.ts).
THEOREM TerminalItemsStayLive == WorldSpec => []TerminalNeverDecays
<1>1. WorldInv => TerminalNeverDecays
  BY DEF WorldInv, TerminalNeverDecays, GoodItem, Known, TERMINAL
<1> QED BY <1>1, WorldInvariant, PTL

\* The stored liveness is never worse than what the thresholds say of now
\* (livenessAt and the ticker in engine/liveness.ts).
THEOREM LivenessNeverShownWorse == WorldSpec => []NeverShownWorse
<1>1. WorldInv => NeverShownWorse
  BY DEF WorldInv, NeverShownWorse, GoodItem, Known
<1> QED BY <1>1, WorldInvariant, PTL

\* What is shown live was vouched for within its grace, the quiet margin and
\* one tick, for every choice of thresholds and tick period.
THEOREM LiveMeansRecentlyHeard == WorldSpec => []ShownLiveIsFresh
<1>1. ASSUME WorldInv, NEW id \in Known, ticked, items[id].state \notin TERMINAL,
             items[id].liveness = "live"
      PROVE  now < heard[id] + Grace(items[id].source) + QuietAfter + TickEvery
  <2>1. GoodItem(items[id], now, heard[id], lastTick, ticked) /\ id \in Ids
    BY <1>1 DEF WorldInv, Known
  <2>2. lastTick < heard[id] + Grace(items[id].source) + QuietAfter
    BY <1>1, <2>1 DEF GoodItem
  <2>3. now <= lastTick + TickEvery
    BY <1>1 DEF WorldInv, ClockInv
  <2>4. /\ now \in Int /\ lastTick \in Int /\ heard[id] \in Int /\ QuietAfter \in Int
        /\ TickEvery \in Int /\ Grace(items[id].source) \in Int
    BY <1>1, <2>1, GraceAssumption DEF WorldInv, WorldTypeOK, Grace
  <2> QED BY <2>2, <2>3, <2>4
<1>2. WorldInv => ShownLiveIsFresh
  BY <1>1 DEF ShownLiveIsFresh
<1> QED BY <1>2, WorldInvariant, PTL

-----------------------------------------------------------------------------
(* What an item reports changes only by a signal for it.  A hook heartbeat *)
(* sends the stored item through the clamp once more, so the argument      *)
(* needs that every stored item is one the clamp leaves as it is; Owned    *)
(* does not say so, it admits a failed codex item whose reason is errored. *)

Settled(item) == Report(enforceOwnership(item)) = Report(item)

SettledInv == \A id \in Ids : items[id] # NoItem => Settled(items[id])

\* The clamp is idempotent: what it returned once it returns again.
LEMMA ClampSettles ==
    ASSUME NEW item \in Item
    PROVE  Settled(enforceOwnership(item))
<1> DEFINE owned == enforceOwnership(item)
           again == enforceOwnership(owned)
<1>1. owned \in Item /\ owned.source = item.source /\ owned.state = item.state
  BY EnforceOwnershipOwned
<1>2. again \in Item /\ again.source = owned.source /\ again.state = owned.state
  BY <1>1, EnforceOwnershipOwned
<1>3. CASE item.source \in Agents
  <2>1. /\ owned.reason = AgentReason(item.source, item.state)
        /\ owned.attention = (owned.reason # "ambient")
        /\ owned.severity = IF item.state = "error" THEN "high" ELSE item.severity
    BY <1>3 DEF enforceOwnership, WithReason, Item
  <2>2. /\ again.reason = AgentReason(owned.source, owned.state)
        /\ again.attention = (again.reason # "ambient")
        /\ again.severity = IF owned.state = "error" THEN "high" ELSE owned.severity
    <3> HIDE DEF owned
    <3> QED BY <1>1, <1>3 DEF enforceOwnership, WithReason, Item
  <2> QED BY <1>1, <1>2, <2>1, <2>2 DEF Settled, Report
<1>4. CASE item.source \notin Agents
  <2>1. /\ owned.reason = ClaimedReason(item)
        /\ owned.attention = (owned.reason # "ambient")
        /\ owned.severity = item.severity
    BY <1>4 DEF enforceOwnership, WithReason, Item
  <2>2. /\ again.reason = ClaimedReason(owned)
        /\ again.attention = (again.reason # "ambient")
        /\ again.severity = owned.severity
    <3> HIDE DEF owned
    <3> QED BY <1>1, <1>4 DEF enforceOwnership, WithReason, Item
  <2>3. ClaimedReason(owned) = ClaimedReason(item)
    <3> HIDE DEF owned
    <3>1. item.state \in States
      BY DEF Item
    <3> QED BY <1>1, <2>1, <3>1 DEF ClaimedReason, WebhookReason, States,
                                   GithubReasons, OrchestratorReasons
  <2> QED BY <1>1, <1>2, <2>1, <2>2, <2>3 DEF Settled, Report
<1> QED BY <1>3, <1>4

\* Being settled is a matter of what the item reports.
LEMMA SettledByReport ==
    ASSUME NEW a \in Item, NEW b \in Item, Report(a) = Report(b), Settled(a)
    PROVE  Settled(b)
<1>1. /\ a.source = b.source /\ a.state = b.state /\ a.reason = b.reason
      /\ a.attention = b.attention /\ a.severity = b.severity
  BY DEF Report
<1>2. ClaimedReason(a) = ClaimedReason(b)
  BY <1>1 DEF ClaimedReason
<1>3. Report(enforceOwnership(a)) = Report(enforceOwnership(b))
  BY <1>1, <1>2 DEF Report, enforceOwnership, WithReason, Item
<1> QED BY <1>3 DEF Settled

\* Neither the date nor the liveness is part of the report.
LEMMA AgeingKeepsReport ==
    ASSUME NEW item \in Item, NEW stale, NEW alive
    PROVE  /\ Report([item EXCEPT !.liveness = alive]) = Report(item)
           /\ Report([[item EXCEPT !.staleAfter = stale] EXCEPT !.liveness = alive])
                 = Report(item)
BY DEF Report, Item

\* A stored item that a hook heartbeat vouches for reports what it reported.
LEMMA SeenAgainKeepsReport ==
    ASSUME NEW item \in Item, Settled(item), NEW t \in Int
    PROVE  Report(deriveLiveness(enforceOwnership([item EXCEPT !.observedAt = t])))
              = Report(item)
<1> DEFINE renewed == [item EXCEPT !.observedAt = t]
           owned == enforceOwnership(renewed)
<1>1. renewed \in Item /\ Report(renewed) = Report(item)
  BY DEF Item, Report
<1> HIDE DEF renewed
<1>2. Settled(renewed)
  BY <1>1, SettledByReport
<1>3. Report(owned) = Report(item)
  BY <1>1, <1>2 DEF Settled
<1>4. owned \in Item
  BY <1>1, EnforceOwnershipOwned
<1> HIDE DEF owned
<1>5. Report(deriveLiveness(owned)) = Report(owned)
  BY <1>4, AgeingKeepsReport DEF deriveLiveness
<1>6. Report(deriveLiveness(owned)) = Report(item)
  BY <1>3, <1>5
<1> QED BY <1>6 DEF owned, renewed

\* A step that is not a signal for the item leaves its report alone.
LEMMA OthersKeepReport ==
    ASSUME WorldInv, SettledInv, [WorldNext]_worldVars, NEW id \in Ids, items[id] # NoItem,
           \A signal \in Signals : signal.id = id => ~ Ingest(signal)
    PROVE  items'[id] \in Item /\ Report(items'[id]) = Report(items[id])
<1>1. items[id] \in Item /\ Settled(items[id]) /\ now \in Int
  BY DEF WorldInv, WorldTypeOK, SettledInv
<1>2. items'[id] \in Item \cup {NoItem}
  BY NextKeepsWorldInv DEF WorldInv, WorldTypeOK
<1>3. CASE \E signal \in Signals : Ingest(signal)
  <2>1. PICK signal \in Signals : Ingest(signal)
    BY <1>3
  <2>2. signal.id # id
    BY <2>1
  <2>3. items'[id] = items[id]
    BY <2>1, <2>2 DEF Ingest, applySignal, WorldInv, WorldTypeOK
  <2> QED BY <1>1, <2>3
<1>4. CASE \E other \in Sessions, complete \in BOOLEAN : HookHeartbeat(other, complete)
  <2>1. PICK other \in Sessions, complete \in BOOLEAN : HookHeartbeat(other, complete)
    BY <1>4
  <2>2. CASE other # id
    <3>1. items'[id] = items[id]
      BY <2>1, <2>2 DEF HookHeartbeat, applySignal, HeartbeatSignal, WorldInv, WorldTypeOK
    <3> QED BY <1>1, <3>1
  <2>3. CASE other = id
    <3>1. items'[id] = deriveLiveness(enforceOwnership([items[id] EXCEPT !.observedAt = now]))
      BY <2>1, <2>3 DEF HookHeartbeat, WorldInv, WorldTypeOK
    <3>2. [items[id] EXCEPT !.observedAt = now] \in Item
      BY <1>1 DEF Item
    <3>3. Report(items'[id]) = Report(items[id])
      BY <1>1, <3>1, SeenAgainKeepsReport
    <3>4. items'[id] # NoItem
      <4>1. WorldInv
        OBVIOUS
      <4>2. enforceOwnership([items[id] EXCEPT !.observedAt = now]) \in Item
        BY <3>2, EnforceOwnershipOwned
      <4>3. Owned(enforceOwnership([items[id] EXCEPT !.observedAt = now]))
            /\ enforceOwnership([items[id] EXCEPT !.observedAt = now]).observedAt = now
        BY <1>1, <3>2, EnforceOwnershipOwned DEF Item
      <4>4. lastTick \in Int /\ lastTick <= now /\ ticked \in BOOLEAN
        BY DEF WorldInv, WorldTypeOK, ClockInv
      <4>5. GoodItem(items'[id], now, now, lastTick, ticked)
        BY <1>1, <3>1, <4>2, <4>3, <4>4, DerivedIsGood
      <4> QED BY <4>5, NoItemAssumption DEF GoodItem
    <3> QED BY <1>2, <3>3, <3>4
  <2> QED BY <2>2, <2>3
<1>5. CASE \E source \in SelfStarting : SourceHeartbeat(source)
  <2>1. PICK source \in SelfStarting : SourceHeartbeat(source)
    BY <1>5
  <2>2. items'[id] = items[id] \/ items'[id] = Refreshed(items[id])
    BY <2>1 DEF SourceHeartbeat
  <2>3. Report(Refreshed(items[id])) = Report(items[id])
    BY <1>1, AgeingKeepsReport DEF Refreshed
  <2>4. Refreshed(items[id]) \in Item
    <3>1. Owned(items[id]) /\ lastTick \in Int /\ lastTick <= now /\ ticked \in BOOLEAN
      BY DEF WorldInv, WorldTypeOK, ClockInv, GoodItem
    <3>2. GoodItem(Refreshed(items[id]), now, now, lastTick, ticked)
      BY <1>1, <3>1, RefreshedIsGood
    <3> QED BY <3>2 DEF GoodItem
  <2> QED BY <1>1, <2>2, <2>3, <2>4
<1>6. CASE Tick
  <2>1. items'[id] = [items[id] EXCEPT !.liveness = livenessAt(items[id], now)]
    BY <1>6 DEF Tick, Known
  <2>2. livenessAt(items[id], now) \in Livenesses
    BY <1>1, LivenessProperties
  <2>3. items'[id] \in Item
    BY <1>1, <2>1, <2>2 DEF Item
  <2> QED BY <1>1, <2>1, <2>3, AgeingKeepsReport
<1>7. CASE Advance \/ Stop \/ Start \/ Started \/ UNCHANGED worldVars
  BY <1>1, <1>7 DEF Advance, Stop, Start, Started, worldVars
<1> QED BY <1>3, <1>4, <1>5, <1>6, <1>7 DEF WorldNext

\* What a signal leaves behind, or a first hook heartbeat, is settled.
LEMMA AppliedIsSettled ==
    ASSUME WorldInv, NEW signal \in Signal
    PROVE  Settled(deriveLiveness(enforceOwnership(mergeSignal(items[signal.id], signal))))
<1> DEFINE merged == mergeSignal(items[signal.id], signal)
           owned == enforceOwnership(merged)
           derived == deriveLiveness(owned)
<1>1. items[signal.id] \in Item \cup {NoItem} /\ now \in Int
  BY DEF WorldInv, WorldTypeOK, Signal
<1>2. merged \in Item
  BY <1>1, MergedItem
<1>3. derived \in Item
  BY AppliedIsGood
<1> HIDE DEF merged
<1>4. owned \in Item /\ Settled(owned)
  BY <1>2, EnforceOwnershipOwned, ClampSettles
<1> HIDE DEF owned
<1>5. Report(derived) = Report(owned)
  BY <1>4, AgeingKeepsReport DEF deriveLiveness
<1> HIDE DEF derived
<1>6. Settled(derived)
  BY <1>3, <1>4, <1>5, SettledByReport
<1> QED BY <1>6 DEF derived, owned, merged

LEMMA NextKeepsSettledInv ==
    WorldInv /\ SettledInv /\ [WorldNext]_worldVars => SettledInv'
<1> SUFFICES ASSUME WorldInv, SettledInv, [WorldNext]_worldVars,
                    NEW id \in Ids, items'[id] # NoItem
             PROVE  Settled(items'[id])
  BY DEF SettledInv
<1>1. CASE \E signal \in Signals : signal.id = id /\ Ingest(signal)
  <2>1. PICK signal \in Signals : signal.id = id /\ Ingest(signal)
    BY <1>1
  <2>2. signal \in Signal
    BY SignalsAssumption
  <2>3. items'[id] = deriveLiveness(enforceOwnership(mergeSignal(items[signal.id], signal)))
    BY <2>1 DEF Ingest, applySignal, WorldInv, WorldTypeOK
  <2> QED BY <2>2, <2>3, AppliedIsSettled
<1>2. CASE items[id] # NoItem /\ ~ \E signal \in Signals : signal.id = id /\ Ingest(signal)
  <2>1. items'[id] \in Item /\ Report(items'[id]) = Report(items[id])
    BY <1>2, OthersKeepReport
  <2>2. items[id] \in Item /\ Settled(items[id])
    BY <1>2 DEF WorldInv, WorldTypeOK, SettledInv
  <2> QED BY <2>1, <2>2, SettledByReport
<1>3. CASE items[id] = NoItem /\ ~ \E signal \in Signals : signal.id = id /\ Ingest(signal)
  <2>1. PICK other \in Sessions, complete \in BOOLEAN : HookHeartbeat(other, complete)
    <3>1. CASE \E signal \in Signals : Ingest(signal)
      BY <1>3, <3>1 DEF Ingest, applySignal, WorldInv, WorldTypeOK
    <3>2. CASE \E source \in SelfStarting : SourceHeartbeat(source)
      BY <1>3, <3>2 DEF SourceHeartbeat, ItemsOf, Known
    <3>3. CASE Tick
      BY <1>3, <3>3 DEF Tick, Known
    <3>4. CASE Advance \/ Stop \/ Start \/ Started \/ UNCHANGED worldVars
      BY <1>3, <3>4 DEF Advance, Stop, Start, Started, worldVars
    <3> QED BY <3>1, <3>2, <3>3, <3>4 DEF WorldNext
  <2>2. other = id /\ applySignal(HeartbeatSignal(id))
    BY <1>3, <2>1 DEF HookHeartbeat, applySignal, HeartbeatSignal, WorldInv, WorldTypeOK
  <2>3. HeartbeatSignal(id) \in Signal /\ HeartbeatSignal(id).id = id
    BY DEF HeartbeatSignal, Signal, Sources, States, Reasons, Severities
  <2>4. items'[id] = deriveLiveness(enforceOwnership(mergeSignal(items[id], HeartbeatSignal(id))))
    BY <2>2, <2>3 DEF applySignal, WorldInv, WorldTypeOK
  <2> QED BY <2>3, <2>4, AppliedIsSettled
<1> QED BY <1>1, <1>2, <1>3

\* What an item reports changes only by a signal for that very item, so no
\* heartbeat, poll, tick or restart unblocks, revives or silences it
\* (WorldModel.applyHeartbeat and heartbeatSource in world/worldModel.ts).
THEOREM OnlySignalsChangeReports == WorldSpec => ReportChangesOnlyBySignal
<1>1. WorldInit => SettledInv
  BY DEF WorldInit, SettledInv
<1>2. WorldInv /\ SettledInv /\ [WorldNext]_worldVars
         => [\A id \in Known :
                Report(items'[id]) # Report(items[id])
                    => \E signal \in Signals : signal.id = id /\ Ingest(signal)]_worldVars
  BY OthersKeepReport DEF Known
<1> QED BY <1>1, <1>2, WorldInvariant, NextKeepsSettledInv, PTL
        DEF WorldSpec, ReportChangesOnlyBySignal

-----------------------------------------------------------------------------
(* The ranked view.  That a set can be put in order is an induction on the *)
(* set, made with the library's theorem that the strict subsets of a       *)
(* finite set are well-founded: a smallest set without the property would  *)
(* have to have it.                                                        *)

LEMMA SmallestSet ==
    ASSUME NEW Bad, NEW T \in Bad, IsFiniteSet(T)
    PROVE  \E u \in Bad : /\ u \subseteq T /\ IsFiniteSet(u)
                          /\ \A v \in Bad : v \subseteq u => v = u
<1> DEFINE D == {u \in Bad : u \in FiniteSubsetsOf(T)}
<1>1. T \in D /\ D \subseteq FiniteSubsetsOf(T)
  BY DEF FiniteSubsetsOf
<1>2. IsWellFoundedOn(StrictSubsetOrdering(T), FiniteSubsetsOf(T))
  BY FS_StrictSubsetOrderingWellFounded
<1> HIDE DEF D
<1>3. PICK u \in D : \A v \in D : ~ (<<v, u>> \in StrictSubsetOrdering(T))
  BY <1>1, <1>2, WFMin
<1>4. u \in Bad /\ u \subseteq T /\ IsFiniteSet(u)
  BY DEF D, FiniteSubsetsOf
<1>5. ASSUME NEW v \in Bad, v \subseteq u PROVE v = u
  <2>1. v \subseteq T /\ IsFiniteSet(v)
    BY <1>4, <1>5, FS_Subset
  <2>2. v \in D
    BY <2>1 DEF D, FiniteSubsetsOf
  <2> QED BY <1>3, <1>4, <1>5, <2>1, <2>2 DEF StrictSubsetOrdering
<1> QED BY <1>4, <1>5

LEMMA RankTypes ==
    /\ \A reason \in Reasons : RUNG(reason) \in Nat
    /\ \A severity \in Severities : severityRank(severity) \in Nat
<1>1. ASSUME NEW reason \in Reasons PROVE RUNG(reason) \in Nat
  <2>1. CASE reason \in {"blocked_on_human", "errored"}
    <3>1. RUNG(reason) = 1
      BY <2>1 DEF RUNG
    <3> QED BY <3>1
  <2>2. CASE reason = "failing_ci"
    <3>1. RUNG(reason) = 2
      BY <2>2 DEF RUNG
    <3> QED BY <3>1
  <2>3. CASE reason = "review_requested"
    <3>1. RUNG(reason) = 3
      BY <2>3 DEF RUNG
    <3> QED BY <3>1
  <2>4. CASE reason = "awaiting_merge"
    <3>1. RUNG(reason) = 4
      BY <2>4 DEF RUNG
    <3> QED BY <3>1
  <2>5. CASE reason = "ambient"
    <3>1. RUNG(reason) = 99
      BY <2>5 DEF RUNG
    <3> QED BY <3>1
  <2> QED BY <2>1, <2>2, <2>3, <2>4, <2>5 DEF Reasons
<1>2. ASSUME NEW severity \in Severities PROVE severityRank(severity) \in Nat
  <2>1. CASE severity = "high"
    <3>1. severityRank(severity) = 3
      BY <2>1 DEF severityRank
    <3> QED BY <3>1
  <2>2. CASE severity = "medium"
    <3>1. severityRank(severity) = 2
      BY <2>2 DEF severityRank
    <3> QED BY <3>1
  <2>3. CASE severity = "low"
    <3>1. severityRank(severity) = 1
      BY <2>3 DEF severityRank
    <3> QED BY <3>1
  <2>4. CASE severity = "info"
    <3>1. severityRank(severity) = 0
      BY <2>4 DEF severityRank
    <3> QED BY <3>1
  <2> QED BY <2>1, <2>2, <2>3, <2>4 DEF Severities
<1> QED BY <1>1, <1>2

\* compareAttentionItems is an order: what outranks does so strictly and transitively.
LEMMA OutranksIsAnOrder ==
    ASSUME NEW a \in Item, NEW b \in Item, NEW c \in Item
    PROVE  /\ ~ Outranks(a, a)
           /\ Outranks(a, b) /\ Outranks(b, c) => Outranks(a, c)
<1>1. /\ RUNG(a.reason) \in Nat /\ RUNG(b.reason) \in Nat /\ RUNG(c.reason) \in Nat
      /\ severityRank(a.severity) \in Nat /\ severityRank(b.severity) \in Nat
      /\ severityRank(c.severity) \in Nat
      /\ a.observedAt \in Int /\ b.observedAt \in Int /\ c.observedAt \in Int
  BY RankTypes DEF Item
<1> QED BY <1>1 DEF Outranks

\* In a finite set of items there is one that outranks no other.
LEMMA LastExists ==
    ASSUME NEW T, IsFiniteSet(T), T # {}, \A id \in T : items[id] \in Item
    PROVE  \E m \in T : \A id \in T : ~ Outranks(items[m], items[id])
<1> DEFINE HasLast(u) == \E m \in u : \A id \in u : ~ Outranks(items[m], items[id])
           Bad == {u \in SUBSET T : u # {} /\ ~ HasLast(u)}
<1>1. SUFFICES ASSUME T \in Bad PROVE FALSE
  OBVIOUS
<1>2. PICK u \in Bad : u \subseteq T /\ \A v \in Bad : v \subseteq u => v = u
  <2> HIDE DEF Bad
  <2> QED BY <1>1, SmallestSet
<1>3. PICK x \in u : TRUE
  OBVIOUS
<1>4. CASE u = {x}
  BY <1>4, OutranksIsAnOrder
<1>5. CASE u # {x}
  <2>1. u \ {x} # {} /\ u \ {x} # u /\ u \ {x} \notin Bad
    BY <1>2, <1>3, <1>5
  <2>2. PICK m \in u \ {x} : \A id \in u \ {x} : ~ Outranks(items[m], items[id])
    BY <1>2, <2>1
  <2>3. CASE Outranks(items[m], items[x])
    <3>1. ASSUME NEW id \in u PROVE ~ Outranks(items[x], items[id])
      <4>1. items[x] \in Item /\ items[id] \in Item /\ items[m] \in Item
        BY <1>2, <2>2
      <4> QED BY <2>2, <2>3, <4>1, OutranksIsAnOrder
    <3> QED BY <3>1
  <2>4. CASE ~ Outranks(items[m], items[x])
    BY <2>2, <2>4
  <2> QED BY <2>3, <2>4
<1> QED BY <1>4, <1>5

\* A finite set of items can be put in order.
LEMMA OrderExists ==
    ASSUME NEW T, IsFiniteSet(T), \A id \in T : items[id] \in Item
    PROVE  \E ids \in SetToSeqs(T) : InOrder(ids)
<1> DEFINE Bad == {u \in SUBSET T : ~ \E ids \in SetToSeqs(u) : InOrder(ids)}
<1>1. SUFFICES ASSUME T \in Bad PROVE FALSE
  OBVIOUS
<1>2. PICK u \in Bad : /\ u \subseteq T /\ IsFiniteSet(u)
                       /\ \A v \in Bad : v \subseteq u => v = u
  <2> HIDE DEF Bad
  <2> QED BY <1>1, SmallestSet
<1>3. CASE u = {}
  <2> DEFINE none == [i \in 1..0 |-> i]
  <2>1. Cardinality(u) = 0
    BY <1>3, FS_EmptySet
  <2>2. none \in SetToSeqs(u) /\ InOrder(none)
    BY <1>3, <2>1 DEF SetToSeqs, InOrder
  <2> QED BY <2>2
<1>4. CASE u # {}
  <2>1. PICK m \in u : \A id \in u : ~ Outranks(items[m], items[id])
    BY <1>2, <1>4, LastExists
  <2> DEFINE n == Cardinality(u \ {m})
  <2>2. n \in Nat /\ Cardinality(u) = n + 1
    <3>1. IsFiniteSet(u \ {m}) /\ n = Cardinality(u) - 1
      BY <1>2, FS_RemoveElement
    <3>2. n \in Nat /\ Cardinality(u) \in Nat
      BY <1>2, <3>1, FS_CardinalityType
    <3> QED BY <3>1, <3>2
  <2>3. u \ {m} \in SUBSET T /\ u \ {m} # u
    BY <1>2
  <2>4. u \ {m} \notin Bad
    BY <1>2, <2>3
  <2>5. PICK ids \in SetToSeqs(u \ {m}) : InOrder(ids)
    BY <2>3, <2>4
  <2>6. /\ ids \in [1..n -> u \ {m}]
        /\ \A i, j \in 1..n : i # j => ids[i] # ids[j]
    BY <2>5 DEF SetToSeqs
  <2> HIDE DEF n
  <2> DEFINE all == [i \in 1..(n + 1) |-> IF i = n + 1 THEN m ELSE ids[i]]
  <2>7. all \in [1..(n + 1) -> u] /\ DOMAIN all = 1..(n + 1)
    BY <2>2, <2>6
  <2>8. \A i, j \in 1..(n + 1) : i # j => all[i] # all[j]
    BY <2>2, <2>6
  <2>9. all \in SetToSeqs(u)
    BY <2>2, <2>7, <2>8 DEF SetToSeqs
  <2>10. InOrder(all)
    <3> SUFFICES ASSUME NEW i \in 1..(n + 1), NEW j \in 1..(n + 1), i < j
                 PROVE  ~ Outranks(items[all[j]], items[all[i]])
      BY <2>7 DEF InOrder
    <3>1. i \in 1..n /\ all[i] = ids[i] /\ all[i] \in u
      BY <2>2, <2>6
    <3>2. CASE j = n + 1
      BY <2>1, <2>2, <3>1, <3>2
    <3>3. CASE j # n + 1
      <4>1. j \in 1..n /\ all[j] = ids[j] /\ DOMAIN ids = 1..n
        BY <2>2, <2>6, <3>3
      <4> QED BY <2>5, <3>1, <4>1 DEF InOrder
    <3> QED BY <3>2, <3>3
  <2> QED BY <2>9, <2>10
<1> QED BY <1>3, <1>4

\* The rows are finitely many: each step adds at most one.
LEMMA NextKeepsKnownFinite ==
    ASSUME WorldInv, IsFiniteSet(Known), [WorldNext]_worldVars
    PROVE  IsFiniteSet(Known')
<1>1. \E id : Known' \subseteq Known \cup {id}
  <2>1. ASSUME NEW signal \in Signals, Ingest(signal) PROVE Known' \subseteq Known \cup {signal.id}
    BY <2>1 DEF Known, Ingest, applySignal
  <2>2. ASSUME NEW id \in Sessions, NEW complete \in BOOLEAN, HookHeartbeat(id, complete)
        PROVE  Known' \subseteq Known \cup {id}
    <3>1. ASSUME NEW other \in Ids, other # id PROVE items'[other] = items[other]
      BY <2>2, <3>1 DEF HookHeartbeat, applySignal, HeartbeatSignal, WorldInv, WorldTypeOK
    <3> QED BY <3>1 DEF Known
  <2>3. ASSUME NEW source \in SelfStarting, SourceHeartbeat(source) PROVE Known' \subseteq Known
    BY <2>3 DEF Known, SourceHeartbeat, ItemsOf
  <2>4. CASE Tick
    BY <2>4 DEF Known, Tick
  <2>5. CASE Advance \/ Stop \/ Start \/ Started \/ UNCHANGED worldVars
    BY <2>5 DEF Known, Advance, Stop, Start, Started, worldVars
  <2> QED BY <2>1, <2>2, <2>3, <2>4, <2>5 DEF WorldNext
<1>2. PICK id : Known' \subseteq Known \cup {id}
  BY <1>1
<1>3. IsFiniteSet(Known \cup {id})
  BY FS_AddElement
<1> QED BY <1>2, <1>3, FS_Subset

\* What rank returns: all that asks for attention, each once, in order.
LEMMA SortedIsInOrder ==
    ASSUME WorldInv, IsFiniteSet(Known)
    PROVE  /\ Cardinality(Attention) \in Nat
           /\ Sorted \in [1..Cardinality(Attention) -> Attention]
           /\ \A id \in Attention : \E i \in 1..Cardinality(Attention) : Sorted[i] = id
           /\ InOrder(Sorted)
<1> DEFINE n == Cardinality(Attention)
<1>1. Attention \in SUBSET Known /\ \A id \in Attention : items[id] \in Item
  BY DEF Attention, Known, WorldInv, WorldTypeOK
<1>2. IsFiniteSet(Attention) /\ n \in Nat
  BY <1>1, FS_Subset, FS_CardinalityType
<1>3. Sorted \in SetToSeqs(Attention) /\ InOrder(Sorted)
  BY <1>1, <1>2, OrderExists DEF Sorted
<1>4. Sorted \in [1..n -> Attention] /\ \A i, j \in 1..n : i # j => Sorted[i] # Sorted[j]
  BY <1>3 DEF SetToSeqs
<1>5. Sorted \in Injection(1..n, Attention)
  BY <1>4 DEF Injection, IsInjective
<1>6. Cardinality(1..n) = n
  BY <1>2, FS_Interval
<1>7. Sorted \in Surjection(1..n, Attention)
  BY <1>2, <1>5, <1>6, FS_Injection
<1>8. \A id \in Attention : \E i \in 1..n : Sorted[i] = id
  BY <1>7 DEF Surjection
<1> QED BY <1>2, <1>3, <1>4, <1>8

\* The ranked view shows the most urgent and loses nothing, for every number
\* of items and every cap (rank in engine/attention.ts).
THEOREM RankLosesNothing == WorldSpec => []RankedView
<1>1. WorldInit => IsFiniteSet(Known)
  <2>1. WorldInit => Known = {}
    BY DEF WorldInit, Known
  <2> QED BY <2>1, FS_EmptySet
<1>2. ASSUME WorldInv, IsFiniteSet(Known) PROVE RankedView
  <2> DEFINE n == Cardinality(Attention)
             top == IF n < Cap THEN n ELSE Cap
  <2>1. /\ n \in Nat /\ Sorted \in [1..n -> Attention]
        /\ \A id \in Attention : \E i \in 1..n : Sorted[i] = id
        /\ InOrder(Sorted)
    BY <1>2, SortedIsInOrder
  <2> HIDE DEF n
  <2>2. Sorted \in Seq(Attention) /\ Len(Sorted) = n /\ DOMAIN Sorted = 1..n
    BY <2>1
  <2>3. Cap \in Nat \ {0} /\ top \in 0..n /\ top <= Cap
    BY <2>1, CapAssumption
  <2>4. needsMe = SubSeq(Sorted, 1, top) /\ overflow = SubSeq(Sorted, Cap + 1, n)
    BY <2>2 DEF needsMe, overflow
  <2>5. /\ Len(needsMe) = top /\ DOMAIN needsMe = 1..top
        /\ \A i \in 1..top : needsMe[i] = Sorted[i]
    BY <2>1, <2>2, <2>3, <2>4
  <2>6. /\ Len(overflow) = n - top /\ DOMAIN overflow = 1..(n - top)
        /\ \A i \in 1..(n - top) : overflow[i] = Sorted[top + i]
    BY <2>1, <2>2, <2>3, <2>4
  <2>7. ToSet(needsMe) \cup ToSet(overflow) = Attention
    <3>1. ToSet(needsMe) \cup ToSet(overflow) \subseteq Attention
      BY <2>1, <2>3, <2>5, <2>6 DEF ToSet
    <3>2. ASSUME NEW id \in Attention PROVE id \in ToSet(needsMe) \cup ToSet(overflow)
      <4>1. PICK i \in 1..n : Sorted[i] = id
        BY <2>1
      <4>2. CASE i <= top
        <5>1. i \in 1..top
          BY <4>2
        <5> QED BY <2>5, <4>1, <5>1 DEF ToSet
      <4>3. CASE ~ i <= top
        <5>1. i - top \in 1..(n - top) /\ top + (i - top) = i
          BY <2>1, <2>3, <4>3
        <5>2. overflow[i - top] = id
          BY <2>6, <4>1, <5>1
        <5> QED BY <2>6, <5>1, <5>2 DEF ToSet
      <4> QED BY <4>2, <4>3
    <3> QED BY <3>1, <3>2
  <2>8. ASSUME NEW a \in ToSet(needsMe), NEW b \in ToSet(overflow)
        PROVE  ~ Outranks(items[b], items[a])
    <3>1. PICK i \in 1..top : a = Sorted[i]
      BY <2>5 DEF ToSet
    <3>2. PICK k \in 1..(n - top) : b = Sorted[top + k]
      BY <2>6 DEF ToSet
    <3>3. i \in 1..n /\ top + k \in 1..n /\ i < top + k
      BY <2>1, <2>3
    <3> QED BY <2>1, <2>2, <3>1, <3>2, <3>3 DEF InOrder
  <2>9. Len(needsMe) + Len(overflow) = n /\ Len(needsMe) <= Cap
    BY <2>1, <2>3, <2>5, <2>6
  <2> QED BY <2>7, <2>8, <2>9 DEF RankedView, n
<1>3. WorldInv /\ IsFiniteSet(Known) /\ [WorldNext]_worldVars => IsFiniteSet(Known)'
  BY NextKeepsKnownFinite
<1> QED BY <1>1, <1>2, <1>3, WorldInvariant, PTL DEF WorldSpec

-----------------------------------------------------------------------------
(* SseStream.  Neither InSync nor ExactlyTheMissed is inductive.  The      *)
(* invariant counts: the frames queued for a stream, like those of the     *)
(* ring, are the last ones published, and a client whose Last-Event-ID is  *)
(* of this run shows the world that many versions ago.                     *)

\* The frames of q are the last ones up to id n and version v, without gaps.
LastOnes(q, n, v) ==
    \A i \in DOMAIN q : /\ q[i].id = n - (Len(q) - i)
                        /\ q[i].state = v - (Len(q) - i)

\* What a client has seen: a Last-Event-ID of this run counts the versions
\* published since, and nobody is ahead of the Hub.
SeenIsHonest ==
    \A c \in Clients :
        /\ seen[c] <= lastId /\ view[c] <= world
        /\ seen[c] >= epoch => view[c] = world - (lastId - seen[c])

\* Frames q, queued for a client that shows version `shown` and whose
\* Last-Event-ID is `last`, continue what it has seen, or start afresh.
Continues(q, last, shown, n, v) ==
    /\ LastOnes(q, n, v)
    /\ q = << >> => last = n /\ shown = v
    /\ q # << >> => /\ q[1].state >= shown
                    /\ q[1].fresh \/ q[1].id = last + 1

OpenStreams ==
    \A s \in Streams : link[s] = "open" =>
        /\ s \in listeners /\ owner[s] \in Clients
        /\ Continues(pending[s], seen[owner[s]], view[owner[s]], lastId, world)

OneStreamPerClient ==
    \A s, t \in Streams :
        link[s] = "open" /\ link[t] = "open" /\ owner[s] = owner[t] => s = t

SseInv ==
    /\ SseTypeOK
    /\ 1 <= epoch /\ epoch <= lastId
    /\ RingIsRecent
    /\ SeenIsHonest
    /\ OpenStreams
    /\ OneStreamPerClient

-----------------------------------------------------------------------------
(* Sequences of frames.                                                    *)

\* A frame published after the last ones makes them one more.
LEMMA AppendLast ==
    ASSUME NEW q \in Seq(Frame), NEW n \in Nat, NEW v \in Nat, LastOnes(q, n, v),
           NEW f \in Frame, f.id = n + 1, f.state = v + 1
    PROVE  /\ Append(q, f) \in Seq(Frame)
           /\ Len(Append(q, f)) = Len(q) + 1
           /\ Append(q, f)[1] = IF q = << >> THEN f ELSE q[1]
           /\ LastOnes(Append(q, f), n + 1, v + 1)
<1> DEFINE t == Append(q, f)
<1>1. /\ t \in Seq(Frame) /\ Len(t) = Len(q) + 1 /\ Len(q) \in Nat
      /\ \A i \in 1 .. Len(q) + 1 : t[i] = IF i <= Len(q) THEN q[i] ELSE f
  BY AppendProperties
<1>2. q = << >> <=> Len(q) = 0
  OBVIOUS
<1> HIDE DEF t
<1>3. t[1] = IF q = << >> THEN f ELSE q[1]
  BY <1>1, <1>2
<1>4. ASSUME NEW i \in DOMAIN t
      PROVE  /\ t[i].id = n + 1 - (Len(t) - i)
             /\ t[i].state = v + 1 - (Len(t) - i)
  <2>1. CASE i <= Len(q)
    <3>1. i \in DOMAIN q /\ t[i] = q[i]
      BY <1>1, <2>1
    <3>2. q[i].id = n - (Len(q) - i) /\ q[i].state = v - (Len(q) - i)
      BY <3>1 DEF LastOnes
    <3>3. Len(t) - i = (Len(q) - i) + 1 /\ Len(q) - i \in Int
      BY <1>1, <3>1
    <3> QED BY <3>1, <3>2, <3>3
  <2>2. CASE ~ i <= Len(q)
    <3>1. i = Len(q) + 1 /\ t[i] = f
      BY <1>1, <2>2
    <3>2. Len(t) - i = 0
      BY <1>1, <3>1
    <3> QED BY <3>1, <3>2
  <2> QED BY <2>1, <2>2
<1>5. LastOnes(t, n + 1, v + 1)
  BY <1>4 DEF LastOnes
<1> QED BY <1>1, <1>3, <1>5 DEF t

\* A suffix of the last ones is the last ones.
LEMMA SuffixLast ==
    ASSUME NEW q \in Seq(Frame), NEW n \in Nat, NEW v \in Nat, LastOnes(q, n, v),
           NEW k \in 0 .. Len(q)
    PROVE  LET r == SubSeq(q, k + 1, Len(q))
           IN  /\ r \in Seq(Frame) /\ Len(r) = Len(q) - k
               /\ \A i \in 1 .. Len(r) : r[i] = q[k + i]
               /\ LastOnes(r, n, v)
<1> DEFINE r == SubSeq(q, k + 1, Len(q))
<1>1. \A i \in k + 1 .. Len(q) : q[i] \in Frame
  OBVIOUS
<1>2. /\ r \in Seq(Frame)
      /\ Len(r) = Len(q) - k
      /\ \A i \in 1 .. Len(r) : r[i] = q[k + i]
  BY <1>1, SubSeqProperties
<1> HIDE DEF r
<1>3. ASSUME NEW i \in DOMAIN r
      PROVE  r[i].id = n - (Len(r) - i) /\ r[i].state = v - (Len(r) - i)
  <2>1. k + i \in DOMAIN q /\ r[i] = q[k + i] /\ i \in 1 .. Len(r)
    BY <1>2
  <2>2. q[k + i].id = n - (Len(q) - (k + i)) /\ q[k + i].state = v - (Len(q) - (k + i))
    BY <2>1 DEF LastOnes
  <2>3. Len(q) - (k + i) = Len(r) - i
    BY <1>2, <2>1
  <2> QED BY <2>1, <2>2, <2>3
<1>4. LastOnes(r, n, v)
  BY <1>3 DEF LastOnes
<1> QED BY <1>2, <1>4 DEF r

\* A published frame continues whatever is queued.
LEMMA AppendContinues ==
    ASSUME NEW q \in Seq(Frame), NEW n \in Nat, NEW v \in Nat,
           NEW last \in Nat, NEW shown \in Nat, Continues(q, last, shown, n, v),
           NEW f \in Frame, f.id = n + 1, f.state = v + 1
    PROVE  Continues(Append(q, f), last, shown, n + 1, v + 1)
<1> DEFINE t == Append(q, f)
<1>1. LastOnes(q, n, v)
  BY DEF Continues
<1>2. /\ t \in Seq(Frame) /\ Len(t) = Len(q) + 1
      /\ t[1] = IF q = << >> THEN f ELSE q[1]
      /\ LastOnes(t, n + 1, v + 1)
  BY <1>1, AppendLast
<1> HIDE DEF t
<1>3. t # << >>
  BY <1>2
<1>4. t[1].state >= shown /\ (t[1].fresh \/ t[1].id = last + 1)
  <2>1. CASE q = << >>
    BY <1>2, <2>1 DEF Continues
  <2>2. CASE q # << >>
    BY <1>2, <2>2 DEF Continues
  <2> QED BY <2>1, <2>2
<1> QED BY <1>2, <1>3, <1>4 DEF Continues, t

\* push and shift keep the newest frames, at most BufferSize of them.
LEMMA PushProperties ==
    ASSUME SseTypeOK, RingIsRecent, NEW f \in Frame,
           f.id = lastId + 1, f.state = world + 1
    PROVE  /\ Push(f) \in Seq(Frame)
           /\ Len(Push(f)) <= BufferSize /\ Len(Push(f)) <= Len(ring) + 1
           /\ LastOnes(Push(f), lastId + 1, world + 1)
<1> USE BufferAssumption
<1> DEFINE t == Append(ring, f)
           k == Len(t) - BufferSize
<1>1. ring \in Seq(Frame) /\ lastId \in Nat /\ world \in Nat /\ LastOnes(ring, lastId, world)
  BY DEF SseTypeOK, RingIsRecent, LastOnes
<1>2. t \in Seq(Frame) /\ Len(t) = Len(ring) + 1 /\ LastOnes(t, lastId + 1, world + 1)
  BY <1>1, AppendLast
<1>3. Push(f) = IF Len(t) > BufferSize THEN SubSeq(t, k + 1, Len(t)) ELSE t
  BY DEF Push
<1>4. Len(ring) <= BufferSize /\ Len(ring) \in Nat
  BY <1>1 DEF RingIsRecent
<1> HIDE DEF t
<1>5. CASE Len(t) > BufferSize
  <2>1. k \in 0 .. Len(t) /\ lastId + 1 \in Nat /\ world + 1 \in Nat
    BY <1>1, <1>2, <1>4, <1>5
  <2>2. LET r == SubSeq(t, k + 1, Len(t))
        IN  r \in Seq(Frame) /\ Len(r) = Len(t) - k /\ LastOnes(r, lastId + 1, world + 1)
    BY <1>2, <2>1, SuffixLast
  <2> QED BY <1>2, <1>3, <1>4, <1>5, <2>2
<1>6. CASE ~ Len(t) > BufferSize
  BY <1>2, <1>3, <1>4, <1>6
<1> QED BY <1>5, <1>6

\* replaySince: for an id of this run that the ring still follows, the filter
\* yields as many frames as were published since, the first one after id.
LEMMA MissedProperties ==
    ASSUME SseTypeOK, RingIsRecent, NEW id \in Nat, ~ Unreplayable(id), id # lastId
    PROVE  /\ Missed(id) \in Seq(Frame)
           /\ Len(Missed(id)) = lastId - id /\ id < lastId /\ epoch <= id
           /\ LastOnes(Missed(id), lastId, world)
<1> DEFINE Suffix(k) == \A i \in DOMAIN ring : ring[i].id > id <=> i > k
           d == Len(ring) - (lastId - id)
           m == CHOOSE k \in 0 .. Len(ring) : Suffix(k)
<1>1. ring \in Seq(Frame) /\ lastId \in Nat /\ world \in Nat /\ epoch \in Nat
      /\ LastOnes(ring, lastId, world) /\ Len(ring) \in Nat
  BY DEF SseTypeOK, RingIsRecent, LastOnes
<1>2. id < lastId /\ epoch <= id /\ ring # << >> /\ ring[1].id - 1 <= id
  <2>1. /\ ~ id > lastId /\ ~ id < epoch /\ ring # << >> /\ ~ id < ring[1].id - 1
    BY DEF Unreplayable
  <2>2. 1 \in DOMAIN ring
    BY <1>1, <2>1
  <2>3. ring[1].id = lastId - (Len(ring) - 1) /\ ring[1].id \in Int
    BY <1>1, <2>2 DEF LastOnes
  <2> QED BY <1>1, <2>1, <2>3
<1>3. ring[1].id = lastId - (Len(ring) - 1) /\ Len(ring) > 0
  BY <1>1, <1>2 DEF LastOnes
<1>4. d \in 0 .. Len(ring) - 1
  BY <1>1, <1>2, <1>3
<1>5. Suffix(d)
  BY <1>1, <1>4 DEF LastOnes
<1>6. ASSUME NEW k \in 0 .. Len(ring), Suffix(k) PROVE k = d
  <2>1. CASE k < d
    <3>1. k + 1 \in DOMAIN ring /\ k + 1 > k /\ ~ k + 1 > d
      BY <1>1, <1>4, <2>1
    <3> QED BY <1>5, <1>6, <3>1
  <2>2. CASE k > d
    <3>1. d + 1 \in DOMAIN ring /\ d + 1 > d /\ ~ d + 1 > k
      BY <1>1, <1>4, <2>2
    <3> QED BY <1>5, <1>6, <3>1
  <2> QED BY <1>1, <1>4, <2>1, <2>2
<1>7. m = d
  <2>1. d \in 0 .. Len(ring)
    BY <1>1, <1>4
  <2> HIDE DEF Suffix
  <2>2. m \in 0 .. Len(ring) /\ Suffix(m)
    BY <1>5, <2>1
  <2> QED BY <1>6, <2>2
<1>8. Missed(id) = SubSeq(ring, d + 1, Len(ring))
  BY <1>7 DEF Missed
<1>9. LET r == SubSeq(ring, d + 1, Len(ring))
      IN  r \in Seq(Frame) /\ Len(r) = Len(ring) - d /\ LastOnes(r, lastId, world)
  <2>1. d \in 0 .. Len(ring)
    BY <1>1, <1>4
  <2> QED BY <1>1, <2>1, SuffixLast
<1> QED BY <1>1, <1>2, <1>8, <1>9

-----------------------------------------------------------------------------
(* The invariant.                                                          *)

LEMMA SseInitInv == SseInit => SseInv
<1> SUFFICES ASSUME SseInit PROVE SseInv
  OBVIOUS
<1> USE BufferAssumption DEF SseInit
<1>1. SseTypeOK
  BY DEF SseTypeOK
<1>2. RingIsRecent
  BY DEF RingIsRecent
<1>3. SeenIsHonest /\ OpenStreams /\ OneStreamPerClient
  BY DEF SeenIsHonest, OpenStreams, OneStreamPerClient
<1> QED BY <1>1, <1>2, <1>3 DEF SseInv

\* What a step that only closes streams leaves as it is.
OnlyCloses ==
    /\ UNCHANGED <<hubVars, clientVars, restarts>>
    /\ \A s \in Streams : link'[s] = "open" =>
          /\ link[s] = "open" /\ owner'[s] = owner[s] /\ pending'[s] = pending[s]
          /\ s \in listeners => s \in listeners'

LEMMA ClosingKeepsInv ==
    ASSUME SseInv, SseTypeOK', OnlyCloses
    PROVE  SseInv'
<1> USE DEF OnlyCloses, SseInv, hubVars, clientVars
<1>1. RingIsRecent'
  BY DEF RingIsRecent
<1>2. SeenIsHonest'
  BY DEF SeenIsHonest
<1>3. OpenStreams'
  BY DEF OpenStreams
<1>4. OneStreamPerClient'
  BY DEF OneStreamPerClient
<1> QED BY <1>1, <1>2, <1>3, <1>4

LEMMA TearDownBrokenCloses ==
    ASSUME SseTypeOK, NEW targets, TearDownBroken(targets)
    PROVE  /\ link' \in [Streams -> {"free", "open", "left", "broken"}]
           /\ owner' \in [Streams -> Clients \cup {NoClient}]
           /\ listeners' \subseteq Streams
           /\ \A s \in Streams : link'[s] = "open" => link[s] = "open"
           /\ \A s \in Streams : link[s] = "open" =>
                 /\ owner'[s] = owner[s]
                 /\ s \in listeners => s \in listeners'
BY DEF SseTypeOK, TearDownBroken

LEMMA PublishKeepsInv == ASSUME SseInv, Publish PROVE SseInv'
<1> DEFINE f == [id |-> lastId + 1, state |-> world + 1, fresh |-> FALSE]
<1>1. /\ SseTypeOK /\ RingIsRecent /\ SeenIsHonest /\ OpenStreams /\ OneStreamPerClient
      /\ lastId \in Nat /\ world \in Nat /\ epoch \in Nat /\ 1 <= epoch /\ epoch <= lastId
  BY DEF SseInv, SseTypeOK
<1>2. /\ world' = world + 1 /\ lastId' = lastId + 1 /\ epoch' = epoch
      /\ restarts' = restarts /\ view' = view /\ seen' = seen
  BY DEF Publish, clientVars
<1>3. /\ ring' = Push(f) /\ TearDownBroken(listeners)
      /\ pending' = [s \in Streams |-> IF s \in listeners /\ link[s] = "open"
                                       THEN Append(pending[s], f) ELSE pending[s]]
  BY DEF Publish
<1>4. f \in Frame /\ f.id = lastId + 1 /\ f.state = world + 1
  BY <1>1 DEF Frame
<1> HIDE DEF f
<1>5. /\ link' \in [Streams -> {"free", "open", "left", "broken"}]
      /\ owner' \in [Streams -> Clients \cup {NoClient}]
      /\ listeners' \subseteq Streams
      /\ \A s \in Streams : link'[s] = "open" => link[s] = "open"
      /\ \A s \in Streams : link[s] = "open" =>
            /\ owner'[s] = owner[s]
            /\ s \in listeners => s \in listeners'
  BY <1>1, <1>3, TearDownBrokenCloses
<1>6. pending' \in [Streams -> Seq(Frame)]
  <2>1. \A s \in Streams : pending[s] \in Seq(Frame) /\ Append(pending[s], f) \in Seq(Frame)
    BY <1>1, <1>4 DEF SseTypeOK
  <2> QED BY <1>3, <2>1
<1>7. /\ ring' \in Seq(Frame)
      /\ Len(ring') <= BufferSize /\ Len(ring') <= Len(ring) + 1
      /\ LastOnes(ring', lastId', world')
  BY <1>1, <1>2, <1>3, <1>4, PushProperties
<1>8. SseTypeOK'
  <2>1. /\ world' \in Nat /\ epoch' \in Nat /\ lastId' \in Nat /\ restarts' \in Nat
        /\ view' \in [Clients -> Nat] /\ seen' \in [Clients -> Nat]
    BY <1>1, <1>2 DEF SseTypeOK
  <2> QED BY <1>5, <1>6, <1>7, <2>1 DEF SseTypeOK
<1>9. RingIsRecent'
  <2>1. epoch' + Len(ring') <= lastId'
    BY <1>1, <1>2, <1>7 DEF SseTypeOK, RingIsRecent
  <2> QED BY <1>7, <2>1 DEF RingIsRecent, LastOnes
<1>10. SeenIsHonest'
  BY <1>1, <1>2 DEF SeenIsHonest, SseTypeOK
<1>11. OpenStreams'
  <2> SUFFICES ASSUME NEW s \in Streams, link'[s] = "open"
               PROVE  /\ s \in listeners' /\ owner'[s] \in Clients
                      /\ Continues(pending'[s], seen'[owner'[s]], view'[owner'[s]], lastId', world')
    BY DEF OpenStreams
  <2>1. /\ link[s] = "open" /\ s \in listeners /\ owner[s] \in Clients
        /\ Continues(pending[s], seen[owner[s]], view[owner[s]], lastId, world)
    BY <1>1, <1>5 DEF OpenStreams
  <2>2. owner'[s] = owner[s] /\ s \in listeners' /\ pending'[s] = Append(pending[s], f)
    BY <1>3, <1>5, <2>1
  <2>3. pending[s] \in Seq(Frame) /\ seen[owner[s]] \in Nat /\ view[owner[s]] \in Nat
    BY <1>1, <2>1 DEF SseTypeOK
  <2>4. Continues(Append(pending[s], f), seen[owner[s]], view[owner[s]], lastId + 1, world + 1)
    BY <1>1, <1>4, <2>1, <2>3, AppendContinues
  <2> QED BY <1>2, <2>1, <2>2, <2>4
<1>12. OneStreamPerClient'
  BY <1>1, <1>5 DEF OneStreamPerClient
<1> QED BY <1>1, <1>2, <1>8, <1>9, <1>10, <1>11, <1>12 DEF SseInv

LEMMA ConnectKeepsInv ==
    ASSUME SseInv, NEW c \in Clients, NEW s \in Streams, NEW id \in {0, seen[c]},
           Connect(c, s, id)
    PROVE  SseInv'
<1> DEFINE q == IF id = 0 \/ Unreplayable(id)
                THEN << [id |-> lastId, state |-> world, fresh |-> TRUE] >>
                ELSE IF id = lastId THEN << >> ELSE Missed(id)
<1>1. /\ SseTypeOK /\ RingIsRecent /\ SeenIsHonest /\ OpenStreams /\ OneStreamPerClient
      /\ lastId \in Nat /\ world \in Nat /\ epoch \in Nat /\ 1 <= epoch /\ epoch <= lastId
      /\ seen[c] \in Nat /\ view[c] \in Nat /\ id \in Nat
  BY DEF SseInv, SseTypeOK
<1>2. /\ world' = world /\ lastId' = lastId /\ epoch' = epoch /\ ring' = ring
      /\ restarts' = restarts /\ view' = view /\ seen' = seen
  BY DEF Connect, hubVars, clientVars
<1>3. /\ ~ Connected(c)
      /\ link' = [link EXCEPT ![s] = "open"]
      /\ owner' = [owner EXCEPT ![s] = c]
      /\ pending' = [pending EXCEPT ![s] = q]
      /\ listeners' = listeners \cup {s}
  BY DEF Connect
<1> HIDE DEF q
<1>4. seen[c] <= lastId /\ view[c] <= world
      /\ (seen[c] >= epoch => view[c] = world - (lastId - seen[c]))
  BY <1>1 DEF SeenIsHonest
<1>5. q \in Seq(Frame) /\ Continues(q, seen[c], view[c], lastId, world)
  <2>1. CASE id = 0 \/ Unreplayable(id)
    <3> DEFINE f == [id |-> lastId, state |-> world, fresh |-> TRUE]
    <3>1. f \in Frame /\ f.id = lastId /\ f.state = world /\ f.fresh
      BY <1>1 DEF Frame
    <3> HIDE DEF f
    <3>2. << f >> \in Seq(Frame) /\ Len(<< f >>) = 1 /\ << f >> # << >> /\ << f >>[1] = f
      BY <3>1
    <3>3. LastOnes(<< f >>, lastId, world)
      BY <1>1, <3>1, <3>2 DEF LastOnes
    <3>4. q = << f >>
      BY <2>1 DEF q, f
    <3> QED BY <1>1, <1>4, <3>1, <3>2, <3>3, <3>4 DEF Continues
  <2>2. CASE id # 0 /\ ~ Unreplayable(id) /\ id = lastId
    <3>1. q = << >>
      BY <2>2 DEF q
    <3>2. seen[c] = lastId /\ view[c] = world
      BY <1>1, <1>4, <2>2
    <3> QED BY <3>1, <3>2 DEF Continues, LastOnes
  <2>3. CASE id # 0 /\ ~ Unreplayable(id) /\ id # lastId
    <3> DEFINE m == Missed(id)
    <3>1. q = m
      BY <2>3 DEF q
    <3>2. /\ m \in Seq(Frame) /\ Len(m) = lastId - id /\ id < lastId /\ epoch <= id
          /\ LastOnes(m, lastId, world)
      BY <1>1, <2>3, MissedProperties
    <3> HIDE DEF m
    <3>3. id = seen[c] /\ view[c] = world - (lastId - id)
      BY <1>1, <1>4, <2>3, <3>2
    <3>4. m # << >> /\ 1 \in DOMAIN m
      BY <1>1, <3>2
    <3>5. m[1].id = lastId - (Len(m) - 1) /\ m[1].state = world - (Len(m) - 1)
      BY <3>2, <3>4 DEF LastOnes
    <3>6. m[1].id = id + 1 /\ m[1].state = world - (lastId - id) + 1
      <4>1. Len(m) - 1 = lastId - id - 1
        BY <3>2
      <4>2. lastId - (lastId - id - 1) = id + 1 /\ world - (lastId - id - 1) = world - (lastId - id) + 1
        BY <1>1
      <4> QED BY <3>5, <4>1, <4>2
    <3>7. m[1].id = seen[c] + 1 /\ m[1].state >= view[c]
      BY <1>1, <3>3, <3>6
    <3> QED BY <3>1, <3>2, <3>4, <3>7 DEF Continues
  <2> QED BY <2>1, <2>2, <2>3
<1>6. SseTypeOK'
  BY <1>1, <1>2, <1>3, <1>5 DEF SseTypeOK
<1>7. RingIsRecent' /\ SeenIsHonest'
  BY <1>1, <1>2 DEF RingIsRecent, SeenIsHonest
<1>8. OpenStreams'
  <2> SUFFICES ASSUME NEW t \in Streams, link'[t] = "open"
               PROVE  /\ t \in listeners' /\ owner'[t] \in Clients
                      /\ Continues(pending'[t], seen'[owner'[t]], view'[owner'[t]], lastId', world')
    BY DEF OpenStreams
  <2>1. CASE t = s
    BY <1>1, <1>2, <1>3, <1>5, <2>1 DEF SseTypeOK
  <2>2. CASE t # s
    <3>1. link[t] = "open" /\ owner'[t] = owner[t] /\ pending'[t] = pending[t]
      BY <1>1, <1>3, <2>2 DEF SseTypeOK
    <3> QED BY <1>1, <1>2, <1>3, <3>1 DEF OpenStreams
  <2> QED BY <2>1, <2>2
<1>9. OneStreamPerClient'
  <2>1. \A t \in Streams : t # s /\ link'[t] = "open" =>
           link[t] = "open" /\ owner'[t] = owner[t] /\ owner[t] # c
    BY <1>1, <1>3 DEF SseTypeOK, Connected, Reading
  <2>2. owner'[s] = c
    BY <1>1, <1>3 DEF SseTypeOK
  <2> QED BY <1>1, <2>1, <2>2 DEF OneStreamPerClient
<1> QED BY <1>1, <1>2, <1>6, <1>7, <1>8, <1>9 DEF SseInv

LEMMA PingKeepsInv == ASSUME SseInv, NEW s \in Streams, Ping(s) PROVE SseInv'
<1>1. SseTypeOK /\ TearDownBroken({s})
  BY DEF SseInv, Ping
<1>2. UNCHANGED <<hubVars, pending, clientVars, restarts>>
  BY DEF Ping
<1>3. /\ link' \in [Streams -> {"free", "open", "left", "broken"}]
      /\ owner' \in [Streams -> Clients \cup {NoClient}]
      /\ listeners' \subseteq Streams
      /\ \A t \in Streams : link'[t] = "open" => link[t] = "open"
      /\ \A t \in Streams : link[t] = "open" =>
            /\ owner'[t] = owner[t]
            /\ t \in listeners => t \in listeners'
  BY <1>1, TearDownBrokenCloses
<1>4. SseTypeOK'
  BY <1>1, <1>2, <1>3 DEF SseTypeOK, hubVars, clientVars
<1>5. OnlyCloses
  BY <1>2, <1>3 DEF OnlyCloses
<1> QED BY <1>4, <1>5, ClosingKeepsInv

\* Cancel, Leave and Notice change one stream, which is not open afterwards.
LEMMA EndingKeepsInv ==
    ASSUME SseInv, NEW s \in Streams, Cancel(s) \/ Leave(s) \/ Notice(s)
    PROVE  SseInv'
<1>1. SseTypeOK
  BY DEF SseInv
<1>2. SseTypeOK' /\ OnlyCloses
  <2>1. CASE Cancel(s)
    BY <1>1, <2>1 DEF Cancel, SseTypeOK, OnlyCloses, hubVars, clientVars
  <2>2. CASE Leave(s)
    BY <1>1, <2>2 DEF Leave, SseTypeOK, OnlyCloses, hubVars, clientVars
  <2>3. CASE Notice(s)
    BY <1>1, <2>3 DEF Notice, SseTypeOK, OnlyCloses, hubVars, clientVars
  <2> QED BY <2>1, <2>2, <2>3
<1> QED BY <1>2, ClosingKeepsInv

LEMMA RestartKeepsInv == ASSUME SseInv, Restart PROVE SseInv'
<1>1. /\ SseTypeOK /\ SeenIsHonest
      /\ lastId \in Nat /\ epoch \in Nat /\ 1 <= epoch /\ epoch <= lastId
  BY DEF SseInv, SseTypeOK
<1>2. /\ world' = world /\ view' = view /\ seen' = seen /\ restarts' = restarts + 1
      /\ lastId' = epoch' /\ epoch' > lastId /\ epoch' \in Nat /\ ring' = << >>
      /\ \A s \in Streams : link'[s] = "free"
  BY <1>1 DEF Restart, clientVars
<1>3. SseTypeOK'
  BY <1>1, <1>2 DEF Restart, SseTypeOK
<1>4. RingIsRecent'
  <2>1. Len(ring') = 0 /\ DOMAIN ring' = {}
    BY <1>2
  <2>2. Len(ring') <= BufferSize
    BY <2>1, BufferAssumption
  <2>3. epoch' + Len(ring') <= lastId'
    <3>1. \A n, k \in Nat : k = 0 => n + k <= n
      OBVIOUS
    <3>2. epoch' \in Nat /\ Len(ring') \in Nat /\ Len(ring') = 0
      BY <1>2, <2>1
    <3>3. epoch' + Len(ring') <= epoch'
      BY <3>1, <3>2
    <3> QED BY <1>2, <3>3
  <2>4. \A i \in DOMAIN ring' : /\ ring'[i].id = lastId' - (Len(ring') - i)
                               /\ ring'[i].state = world' - (Len(ring') - i)
    BY <2>1
  <2> QED BY <2>2, <2>3, <2>4 DEF RingIsRecent
<1>5. SeenIsHonest'
  BY <1>1, <1>2 DEF SeenIsHonest, SseTypeOK
<1>6. OpenStreams' /\ OneStreamPerClient'
  BY <1>2 DEF OpenStreams, OneStreamPerClient
<1> QED BY <1>1, <1>2, <1>3, <1>4, <1>5, <1>6 DEF SseInv

LEMMA ReloadKeepsInv == ASSUME SseInv, NEW c \in Clients, Reload(c) PROVE SseInv'
<1>1. /\ SseTypeOK /\ RingIsRecent /\ SeenIsHonest /\ OpenStreams /\ OneStreamPerClient
      /\ lastId \in Nat /\ world \in Nat /\ epoch \in Nat /\ 1 <= epoch /\ epoch <= lastId
  BY DEF SseInv, SseTypeOK
<1>2. /\ UNCHANGED <<hubVars, streamVars, restarts>>
      /\ world' = world /\ lastId' = lastId /\ epoch' = epoch
      /\ view' = [view EXCEPT ![c] = 0] /\ seen' = [seen EXCEPT ![c] = 0]
  BY DEF Reload, hubVars
<1>3. SseTypeOK'
  BY <1>1, <1>2 DEF SseTypeOK, hubVars, streamVars
<1>4. RingIsRecent' /\ OneStreamPerClient'
  BY <1>1, <1>2 DEF RingIsRecent, OneStreamPerClient, hubVars, streamVars
<1>5. SeenIsHonest'
  BY <1>1, <1>2 DEF SeenIsHonest, SseTypeOK
<1>6. OpenStreams'
  <2>1. \A s \in Streams : link[s] = "open" => owner[s] # c
    BY DEF Reload, Connected, Reading
  <2> QED BY <1>1, <1>2, <2>1 DEF OpenStreams, SseTypeOK, streamVars
<1> QED BY <1>1, <1>2, <1>3, <1>4, <1>5, <1>6 DEF SseInv

\* What a client reads counts as much as what is still queued.
LEMMA ReadKeepsInv ==
    ASSUME SseInv, NEW c \in Clients, NEW s \in Streams, Read(c, s)
    PROVE  /\ SseInv'
           /\ view'[c] >= view[c]
<1> DEFINE q == pending[s]
           h == q[1]
           r == Tail(q)
<1>1. /\ SseTypeOK /\ RingIsRecent /\ SeenIsHonest /\ OpenStreams /\ OneStreamPerClient
      /\ lastId \in Nat /\ world \in Nat /\ epoch \in Nat /\ 1 <= epoch /\ epoch <= lastId
      /\ q \in Seq(Frame) /\ seen[c] \in Nat /\ view[c] \in Nat
  BY DEF SseInv, SseTypeOK
<1>2. /\ owner[s] = c /\ link[s] = "open" /\ q # << >>
      /\ UNCHANGED <<hubVars, link, owner, listeners, restarts>>
      /\ world' = world /\ lastId' = lastId /\ epoch' = epoch
      /\ view' = [view EXCEPT ![c] = h.state]
      /\ seen' = [seen EXCEPT ![c] = h.id]
      /\ pending' = [pending EXCEPT ![s] = r]
  BY <1>1 DEF Read, Reading, hubVars
<1>3. Continues(q, seen[c], view[c], lastId, world)
  BY <1>1, <1>2 DEF OpenStreams
<1> HIDE DEF q
<1>4. /\ r \in Seq(Frame) /\ Len(r) = Len(q) - 1 /\ Len(q) \in Nat /\ Len(q) >= 1
      /\ \A i \in 1 .. Len(r) : r[i] = q[i + 1]
  BY <1>1, <1>2, HeadTailProperties
<1>5. h \in Frame /\ h.id \in Nat /\ h.state \in Nat
  <2>1. h \in Frame
    BY <1>1, <1>4, ElementOfSeq
  <2> HIDE DEF h
  <2> QED BY <2>1 DEF Frame
<1> HIDE DEF h, r
<1>6. /\ h.id = lastId - (Len(q) - 1) /\ h.state = world - (Len(q) - 1)
      /\ h.state >= view[c]
  BY <1>2, <1>3, <1>4 DEF Continues, LastOnes, h
<1>7. LastOnes(r, lastId, world)
  <2> SUFFICES ASSUME NEW i \in DOMAIN r
               PROVE  /\ r[i].id = lastId - (Len(r) - i)
                      /\ r[i].state = world - (Len(r) - i)
    BY DEF LastOnes
  <2>1. r[i] = q[i + 1] /\ i + 1 \in DOMAIN q /\ i \in 1 .. Len(r)
    BY <1>1, <1>4
  <2>2. q[i + 1].id = lastId - (Len(q) - (i + 1)) /\ q[i + 1].state = world - (Len(q) - (i + 1))
    BY <1>3, <2>1 DEF Continues, LastOnes
  <2>3. Len(q) - (i + 1) = Len(r) - i
    BY <1>4, <2>1
  <2> QED BY <2>1, <2>2, <2>3
<1>8. Continues(r, h.id, h.state, lastId, world)
  <2>1. CASE r = << >>
    <3>1. Len(q) - 1 = 0
      BY <1>4, <2>1
    <3>2. h.id = lastId /\ h.state = world
      <4>1. lastId - 0 = lastId /\ world - 0 = world
        BY <1>1
      <4> QED BY <1>6, <3>1, <4>1
    <3> QED BY <1>7, <2>1, <3>2 DEF Continues
  <2>2. CASE r # << >>
    <3>1. 1 \in DOMAIN r
      BY <1>4, <2>2
    <3>2. r[1].id = lastId - (Len(r) - 1) /\ r[1].state = world - (Len(r) - 1)
      BY <1>7, <3>1 DEF LastOnes
    <3>3. Len(r) - 1 = (Len(q) - 1) - 1 /\ Len(q) - 1 \in Int
      BY <1>4
    <3>4. r[1].id = h.id + 1 /\ r[1].state = h.state + 1
      BY <1>1, <1>6, <3>2, <3>3
    <3> QED BY <1>5, <1>7, <2>2, <3>4 DEF Continues
  <2> QED BY <2>1, <2>2
<1>9. SseTypeOK'
  BY <1>1, <1>2, <1>4, <1>5 DEF SseTypeOK, hubVars
<1>10. RingIsRecent' /\ OneStreamPerClient'
  BY <1>1, <1>2 DEF RingIsRecent, OneStreamPerClient, hubVars
<1>11. SeenIsHonest'
  <2>1. h.id <= lastId /\ h.state <= world /\ h.state = world - (lastId - h.id)
    <3>1. Len(q) - 1 = lastId - h.id /\ Len(q) - 1 \in Nat
      BY <1>1, <1>4, <1>5, <1>6
    <3> QED BY <1>1, <1>5, <1>6, <3>1
  <2> QED BY <1>1, <1>2, <2>1 DEF SeenIsHonest, SseTypeOK
<1>12. OpenStreams'
  <2> SUFFICES ASSUME NEW t \in Streams, link[t] = "open"
               PROVE  /\ t \in listeners /\ owner[t] \in Clients
                      /\ Continues(pending'[t], seen'[owner[t]], view'[owner[t]], lastId, world)
    BY <1>2 DEF OpenStreams
  <2>1. CASE t = s
    <3>1. pending'[t] = r /\ seen'[c] = h.id /\ view'[c] = h.state
      BY <1>1, <1>2, <2>1 DEF SseTypeOK
    <3> QED BY <1>1, <1>2, <1>8, <2>1, <3>1 DEF OpenStreams
  <2>2. CASE t # s
    <3>1. owner[t] # c /\ pending'[t] = pending[t]
      BY <1>1, <1>2, <2>2 DEF OneStreamPerClient, SseTypeOK
    <3> QED BY <1>1, <1>2, <3>1 DEF OpenStreams, SseTypeOK
  <2> QED BY <2>1, <2>2
<1>13. view'[c] >= view[c]
  BY <1>1, <1>2, <1>6 DEF SseTypeOK
<1> QED BY <1>1, <1>2, <1>9, <1>10, <1>11, <1>12, <1>13 DEF SseInv

LEMMA SseNextInv == SseInv /\ [SseNext]_sseVars => SseInv'
<1> SUFFICES ASSUME SseInv, [SseNext]_sseVars PROVE SseInv'
  OBVIOUS
<1>1. CASE Publish
  BY <1>1, PublishKeepsInv
<1>2. CASE \E c \in Clients, s \in Streams : \E id \in {0, seen[c]} : Connect(c, s, id)
  BY <1>2, ConnectKeepsInv
<1>3. CASE \E s \in Streams : Ping(s)
  BY <1>3, PingKeepsInv
<1>4. CASE \E s \in Streams : Cancel(s) \/ Leave(s) \/ Notice(s)
  BY <1>4, EndingKeepsInv
<1>5. CASE Restart
  BY <1>5, RestartKeepsInv
<1>6. CASE \E c \in Clients, s \in Streams : Read(c, s)
  BY <1>6, ReadKeepsInv
<1>7. CASE \E c \in Clients : Reload(c)
  BY <1>7, ReloadKeepsInv
<1>8. CASE UNCHANGED sseVars
  <2>1. OnlyCloses /\ SseTypeOK'
    BY <1>8 DEF sseVars, hubVars, streamVars, clientVars, OnlyCloses, SseInv, SseTypeOK
  <2> QED BY <2>1, ClosingKeepsInv
<1> QED BY <1>1, <1>2, <1>3, <1>4, <1>5, <1>6, <1>7, <1>8 DEF SseNext

LEMMA SseInvariance == SseSafetySpec => []SseInv
<1> QED BY SseInitInv, SseNextInv, PTL DEF SseSafetySpec

-----------------------------------------------------------------------------
(* The theorems.                                                           *)

\* Every variable of the broadcaster, its streams and its clients keeps its
\* type, whatever the size of the ring and the number of restarts.
THEOREM SseTypeCorrect == SseSafetySpec => []SseTypeOK
<1>1. SseInv => SseTypeOK
  BY DEF SseInv
<1> QED BY <1>1, SseInvariance, PTL

\* The ring of sse.ts holds the newest frames of this run, without gaps.
THEOREM RingStaysRecent == SseSafetySpec => []RingIsRecent
<1>1. SseInv => RingIsRecent
  BY DEF SseInv
<1> QED BY <1>1, SseInvariance, PTL

\* A connected client that has read what is queued shows the present world,
\* whatever Last-Event-ID it came with.
THEOREM ClientsAreInSync == SseSafetySpec => []InSync
<1>1. SseInv => InSync
  <2> SUFFICES ASSUME SseInv, NEW c \in Clients, NEW s \in Streams, Reading(c, s)
               PROVE  world = IF pending[s] = << >> THEN view[c]
                              ELSE pending[s][Len(pending[s])].state
    BY DEF InSync
  <2>1. pending[s] \in Seq(Frame) /\ world \in Nat /\ Len(pending[s]) \in Nat
    BY DEF SseInv, SseTypeOK
  <2>2. Continues(pending[s], seen[c], view[c], lastId, world)
    BY DEF SseInv, OpenStreams, Reading
  <2>3. CASE pending[s] = << >>
    BY <2>2, <2>3 DEF Continues
  <2>4. CASE pending[s] # << >>
    <3>1. Len(pending[s]) \in DOMAIN pending[s]
      BY <2>1, <2>4
    <3>2. pending[s][Len(pending[s])].state = world - (Len(pending[s]) - Len(pending[s]))
      BY <2>2, <3>1 DEF Continues, LastOnes
    <3>3. Len(pending[s]) - Len(pending[s]) = 0
      BY <2>1
    <3> QED BY <2>1, <2>4, <3>2, <3>3
  <2> QED BY <2>3, <2>4
<1> QED BY <1>1, SseInvariance, PTL

\* replaySince and publish skip, repeat and reorder nothing.
THEOREM ReplayIsExact == SseSafetySpec => []ExactlyTheMissed
<1>1. SseInv => ExactlyTheMissed
  <2> SUFFICES ASSUME SseInv, NEW c \in Clients, NEW s \in Streams, Reading(c, s),
                      NEW i \in DOMAIN pending[s]
               PROVE  \/ pending[s][i].fresh
                      \/ pending[s][i].id = 1 + IF i = 1 THEN seen[c] ELSE pending[s][i - 1].id
    BY DEF ExactlyTheMissed
  <2> DEFINE q == pending[s]
  <2>1. q \in Seq(Frame) /\ lastId \in Nat /\ Len(q) \in Nat /\ i \in 1 .. Len(q) /\ seen[c] \in Nat
    BY DEF SseInv, SseTypeOK
  <2>2. Continues(q, seen[c], view[c], lastId, world)
    BY DEF SseInv, OpenStreams, Reading
  <2> HIDE DEF q
  <2>3. CASE i = 1
    <3>1. q # << >>
      BY <2>1
    <3> QED BY <2>1, <2>2, <2>3, <3>1 DEF Continues, q
  <2>4. CASE i # 1
    <3>1. i \in DOMAIN q /\ i - 1 \in DOMAIN q
      BY <2>1, <2>4
    <3>2. q[i].id = lastId - (Len(q) - i) /\ q[i - 1].id = lastId - (Len(q) - (i - 1))
      BY <2>2, <3>1 DEF Continues, LastOnes
    <3>3. q[i].id = 1 + q[i - 1].id
      BY <2>1, <3>2
    <3> QED BY <2>4, <3>3 DEF q
  <2> QED BY <2>3, <2>4
<1> QED BY <1>1, SseInvariance, PTL

\* An open page never goes back to an older world, across resumptions and
\* restarts of the Hub.
THEOREM ViewsNeverGoBack == SseSafetySpec => ViewNeverGoesBack
<1> DEFINE Forward == \A c \in Clients : view'[c] >= view[c] \/ seen'[c] = 0
<1>1. SseInv /\ [SseNext]_sseVars => [Forward]_sseVars
  <2> SUFFICES ASSUME SseInv, SseNext, NEW c \in Clients
               PROVE  view'[c] >= view[c] \/ seen'[c] = 0
    OBVIOUS
  <2>1. view \in [Clients -> Nat] /\ seen \in [Clients -> Nat]
    BY DEF SseInv, SseTypeOK
  <2>2. CASE view' = view
    BY <2>1, <2>2
  <2>3. CASE \E d \in Clients, s \in Streams : Read(d, s)
    <3>1. PICK d \in Clients, s \in Streams : Read(d, s)
      BY <2>3
    <3>2. CASE d = c
      BY <3>1, <3>2, ReadKeepsInv
    <3>3. CASE d # c
      BY <2>1, <3>1, <3>3 DEF Read
    <3> QED BY <3>2, <3>3
  <2>4. CASE \E d \in Clients : Reload(d)
    BY <2>1, <2>4 DEF Reload
  <2> QED BY <2>2, <2>3, <2>4
          DEF SseNext, Publish, Connect, Ping, Cancel, Restart, Leave, Notice, clientVars
<1> QED BY <1>1, SseInvariance, PTL DEF SseSafetySpec, ViewNeverGoesBack

=============================================================================
