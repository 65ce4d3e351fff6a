---------------------------- MODULE AdapterProofs ----------------------------
(***************************************************************************)
(* What the adapters that follow a changing source guarantee, for any      *)
(* number of tasks, sessions and pull requests and any number of failures: *)
(* GilesPoll, which reads files between which they change, Opencode, which *)
(* reads a stream that may end anywhere, and GithubPoll, which asks in     *)
(* parallel and against a cache.                                           *)
(***************************************************************************)
EXTENDS GilesPoll, Opencode, GithubPoll, SequenceTheorems, FiniteSetTheorems, TLAPS

-----------------------------------------------------------------------------
(* GilesPoll.                                                              *)

\* A poll runs exactly while it awaits something; after the backlog it holds the
\* tasks that were listed, and reads one of those it has still to report.
PollOK ==
    /\ running <=> stage # "idle"
    /\ stage \in {"meta", "status", "worker"} => refs = truth /\ current \in todo

GilesInv == ShownIsOffered /\ PollOK

\* The lifecycle table is total, and never says that a task has departed or was never there.
LEMMA RungIsItem ==
    ASSUME NEW v \in View
    PROVE  rungFor(v) \in Item /\ rungFor(v) \notin {Departed, NoItem}
<1>1. /\ v.worker = "working" => rungFor(v) = Ambient({"redirect", "status"})
      /\ v.worker = "unknown" => rungFor(v) = Ambient({"status"})
      /\ v.worker = "failed" =>
            rungFor(v) = Rung("error", "errored", "high", {"status", "redirect"})
      /\ v.worker = "blocked" => rungFor(v) = BlockedRung
      /\ v.worker = "parked" => rungFor(v) =
            IF v.verb \in {"needs-decision", "blocked"} THEN BlockedRung
            ELSE Rung("needs_review", "review_requested", "medium",
                      {"approve", "deny", "redirect"})
      /\ v.worker = "done" => rungFor(v) =
            IF v.scout THEN Rung("needs_review", "review_requested", "low", {"status"})
            ELSE IF v.pr THEN Rung("needs_review", "awaiting_merge", "medium",
                                   {"ship", "deny", "redirect"})
            ELSE Rung("needs_review", "review_requested", "medium", {"status", "redirect"})
  BY DEF rungFor
<1>2. v.worker \in Workers
  BY DEF View
<1> QED BY <1>1, <1>2 DEF Workers, Rung, Ambient, BlockedRung, Departed, NoItem, Item

LEMMA DepartedIsItem == Departed \in Item
BY DEF Departed, Rung, Item

LEMMA InitEstablishesGilesInv == GilesInit => GilesInv
<1>1. NoItem \in Item /\ NoView \in View
  BY DEF NoItem, Rung, Item, NoView, View, Workers, Verbs
<1> SUFFICES ASSUME GilesInit PROVE GilesInv
  OBVIOUS
<1>2. GilesTypeOK
  <2>1. item \in [Tasks -> Item] /\ partial \in View
    BY <1>1 DEF GilesInit
  <2>2. offered \in [Tasks -> SUBSET {"status", "answer", "redirect", "approve", "deny", "ship"}]
    BY DEF GilesInit
  <2>3. view \in [Tasks -> Views] /\ inFlight \subseteq Tasks /\ known \subseteq Tasks
    BY DEF GilesInit
  <2>4. refs \subseteq Tasks /\ todo \subseteq refs /\ truth \subseteq Tasks
    BY DEF GilesInit
  <2>5. trouble \in 0 .. MaxTrouble
    BY TroubleAssumption DEF GilesInit
  <2>6. /\ heading \in BOOLEAN /\ running \in BOOLEAN /\ section \in BOOLEAN
        /\ stage \in {"idle", "backlog", "meta", "status", "worker"}
        /\ unwritten \subseteq Tasks
        /\ current \in Tasks \cup {NoTask} /\ beat \in {"none", "read", "blind"}
    BY DEF GilesInit
  <2> QED BY <2>1, <2>2, <2>3, <2>4, <2>5, <2>6 DEF GilesTypeOK
<1>3. PollOK /\ \A t \in Tasks : offered[t] = IF t \in known THEN item[t].actions ELSE {}
  BY DEF GilesInit, PollOK
<1> QED BY <1>2, <1>3 DEF GilesInv, ShownIsOffered

\* Giles's own steps leave what the Hub holds alone.
LEMMA HomeKeepsGilesInv ==
    ASSUME GilesInv, UNCHANGED <<memory, running, progress, beat>>,
           inFlight' \subseteq Tasks, view' \in [Tasks -> Views], heading' \in BOOLEAN,
           unwritten' \subseteq Tasks, trouble' \in 0 .. MaxTrouble
    PROVE  GilesInv'
BY DEF GilesInv, ShownIsOffered, GilesTypeOK, PollOK, memory, progress

LEMMA TroubledIsBounded == GilesInv /\ Troubled => trouble' \in 0 .. MaxTrouble
BY TroubleAssumption DEF GilesInv, ShownIsOffered, GilesTypeOK, Troubled

LEMMA GilesMovesKeepGilesInv ==
    ASSUME GilesInv,
           \/ \E t \in Tasks : TaskEnters(t) \/ TaskChanges(t) \/ TaskLeaves(t)
           \/ BacklogGoes \/ BacklogTears \/ BacklogReturns
    PROVE  GilesInv'
<1>1. /\ UNCHANGED <<memory, running, progress, beat>>
      /\ inFlight' \subseteq Tasks /\ view' \in [Tasks -> Views] /\ heading' \in BOOLEAN
      /\ unwritten' \subseteq Tasks /\ trouble' \in 0 .. MaxTrouble
  BY TroubledIsBounded
     DEF GilesInv, ShownIsOffered, GilesTypeOK, TaskEnters, TaskChanges, TaskLeaves, BacklogGoes,
         BacklogTears, BacklogReturns
<1> QED BY <1>1, HomeKeepsGilesInv

LEMMA ReadsKeepGilesInv ==
    ASSUME GilesInv, PollBegins \/ ReadMeta \/ ReadStatus
    PROVE  GilesInv'
<1> USE DEF GilesInv, ShownIsOffered, GilesTypeOK, PollOK, home, memory
<1>1. CASE PollBegins
  BY <1>1 DEF PollBegins
<1>2. CASE ReadMeta
  <2>1. current \in Tasks /\ view[current] \in View
    BY <1>2, ViewsAssumption DEF ReadMeta
  <2>2. partial' \in View
    BY <1>2, <2>1 DEF ReadMeta, NoView, View, Workers, Verbs
  <2> QED BY <1>2, <2>2 DEF ReadMeta
<1>3. CASE ReadStatus
  <2>1. current \in Tasks /\ view[current] \in View
    BY <1>3, ViewsAssumption DEF ReadStatus
  <2>2. partial' \in View
    BY <1>3, <2>1 DEF ReadStatus, View
  <2> QED BY <1>3, <2>2 DEF ReadStatus
<1> QED BY <1>1, <1>2, <1>3

\* A poll that ends, after its sweep or not, holds nothing.
LEMMA EndedPollKeepsGilesInv ==
    ASSUME GilesInv, Rest, running' = FALSE, UNCHANGED home, trouble' \in 0 .. MaxTrouble,
           item' \in [Tasks -> Item], known' \subseteq Tasks,
           offered' \in [Tasks -> SUBSET {"status", "answer", "redirect", "approve", "deny", "ship"}],
           \A t \in Tasks : offered'[t] = IF t \in known' THEN item'[t].actions ELSE {},
           beat' \in {"none", "read", "blind"}
    PROVE  GilesInv'
<1>1. NoView \in View
  BY DEF NoView, View, Workers, Verbs
<1> QED BY <1>1 DEF GilesInv, ShownIsOffered, GilesTypeOK, PollOK, Rest, home

LEMMA LostPollKeepsGilesInv ==
    ASSUME GilesInv, PollFails \/ Restart
    PROVE  GilesInv'
<1>1. trouble' \in 0 .. MaxTrouble
  BY TroubledIsBounded DEF PollFails, Restart
<1> QED
  BY <1>1, EndedPollKeepsGilesInv
     DEF PollFails, Restart, memory, GilesInv, ShownIsOffered, GilesTypeOK

\* Only a task that the backlog gave reason to dismiss is dismissed.
DismissesTheUnlisted ==
    \A t \in Tasks : (item'[t] = Departed /\ item[t] # Departed)
          => t \notin IF stage = "backlog" THEN Spared ELSE truth

LEMMA BacklogKeepsGilesInv ==
    ASSUME GilesInv, ReadBacklog
    PROVE  GilesInv' /\ DismissesTheUnlisted
<1> USE DEF GilesInv, ShownIsOffered, GilesTypeOK, PollOK
<1>1. CASE Listed # {}
  <2>1. heading /\ Listed \subseteq Tasks /\ Spared = Listed
    BY <1>1 DEF Listed, Spared
  <2> QED BY <1>1, <2>1 DEF ReadBacklog, DismissesTheUnlisted, memory, home
<1>2. CASE Listed = {}
  <2>1. /\ EndPoll({}, heading, item, known, offered) /\ Rest /\ UNCHANGED <<home, trouble>>
        /\ heading \in BOOLEAN /\ item \in [Tasks -> Item] /\ known \in SUBSET Tasks
        /\ offered \in [Tasks -> SUBSET {"status", "answer", "redirect", "approve", "deny", "ship"}]
        /\ \A t \in Tasks : offered[t] = IF t \in known THEN item[t].actions ELSE {}
    BY <1>2 DEF ReadBacklog
  <2>2. /\ item' \in [Tasks -> Item] /\ known' \subseteq Tasks
        /\ offered' \in [Tasks -> SUBSET {"status", "answer", "redirect", "approve", "deny", "ship"}]
        /\ \A t \in Tasks : offered'[t] = IF t \in known' THEN item'[t].actions ELSE {}
        /\ beat' \in {"none", "read", "blind"} /\ running' = FALSE
        /\ ~ heading => item' = item
    BY <2>1, DepartedIsItem DEF EndPoll
  <2>3. GilesInv'
    BY <2>1, <2>2, EndedPollKeepsGilesInv
  <2>4. stage = "backlog" /\ (heading => Spared = {})
    BY <1>2 DEF ReadBacklog, Spared
  <2> QED BY <2>2, <2>3, <2>4 DEF DismissesTheUnlisted
<1> QED BY <1>1, <1>2

LEMMA ReportKeepsGilesInv ==
    ASSUME GilesInv, NEW worker \in Workers, Report(worker)
    PROVE  GilesInv' /\ DismissesTheUnlisted
<1> DEFINE v == [partial EXCEPT !.worker = worker]
           rung == rungFor(v)
           items == [item EXCEPT ![current] = rung]
           actions == [offered EXCEPT ![current] = rung.actions]
           reported == known \cup {current}
<1>1. stage = "worker" /\ refs = truth /\ current \in todo /\ current \in Tasks
  BY DEF Report, GilesInv, ShownIsOffered, GilesTypeOK, PollOK
<1>2. rung \in Item /\ rung # Departed
  <2>1. v \in View
    BY DEF GilesInv, ShownIsOffered, GilesTypeOK, View
  <2> QED BY <2>1, RungIsItem
<1>3. trouble' \in 0 .. MaxTrouble
  BY TroubledIsBounded DEF Report, GilesInv, ShownIsOffered, GilesTypeOK
<1>4. IF todo = {current}
      THEN EndPoll(refs, section, items, reported, actions) /\ Rest
      ELSE /\ item' = items /\ known' = reported /\ offered' = actions
           /\ todo' = todo \ {current} /\ current' \in todo'
           /\ partial' = NoView /\ stage' = "meta"
           /\ UNCHANGED <<running, section, refs, truth, beat>>
  BY DEF Report
<1>5. UNCHANGED home
  BY DEF Report
<1> HIDE DEF v, rung
<1>6. /\ items \in [Tasks -> Item] /\ reported \in SUBSET Tasks
      /\ actions \in [Tasks -> SUBSET {"status", "answer", "redirect", "approve", "deny", "ship"}]
      /\ \A t \in Tasks : actions[t] = IF t \in reported THEN items[t].actions ELSE {}
      /\ \A t \in Tasks : items[t] # item[t] => items[t] # Departed
  <2>1. rung.actions \in SUBSET {"status", "answer", "redirect", "approve", "deny", "ship"}
    BY <1>2 DEF Item
  <2>2. /\ \A t \in Tasks : items[t] = IF t = current THEN rung ELSE item[t]
        /\ \A t \in Tasks : actions[t] = IF t = current THEN rung.actions ELSE offered[t]
    BY DEF GilesInv, ShownIsOffered, GilesTypeOK
  <2> QED BY <1>1, <1>2, <2>1, <2>2 DEF GilesInv, ShownIsOffered, GilesTypeOK
<1> HIDE DEF items, actions, reported
<1>7. CASE todo = {current}
  <2>1. section \in BOOLEAN
    BY DEF GilesInv, ShownIsOffered, GilesTypeOK
  <2>2. EndPoll(refs, section, items, reported, actions) /\ Rest
    BY <1>4, <1>7
  <2>3. /\ item' \in [Tasks -> Item] /\ known' \subseteq Tasks
        /\ offered' \in [Tasks -> SUBSET {"status", "answer", "redirect", "approve", "deny", "ship"}]
        /\ \A t \in Tasks : offered'[t] = IF t \in known' THEN item'[t].actions ELSE {}
        /\ beat' \in {"none", "read", "blind"} /\ running' = FALSE
        /\ \A t \in Tasks : item'[t] = items[t] \/ t \in reported \ refs
    BY <1>6, <2>1, <2>2, DepartedIsItem DEF EndPoll
  <2>4. GilesInv'
    BY <1>3, <1>5, <2>2, <2>3, EndedPollKeepsGilesInv
  <2> QED BY <1>1, <1>6, <2>3, <2>4 DEF DismissesTheUnlisted
<1>8. CASE todo # {current}
  <2>1. NoView \in View
    BY DEF NoView, View, Workers, Verbs
  <2>2. GilesInv'
    BY <1>1, <1>3, <1>4, <1>5, <1>6, <1>8, <2>1
       DEF GilesInv, ShownIsOffered, GilesTypeOK, PollOK, home
  <2> QED BY <1>4, <1>6, <1>8, <2>2 DEF DismissesTheUnlisted
<1> QED BY <1>7, <1>8

LEMMA NextKeepsGilesInv ==
    GilesInv /\ [GilesNext]_gilesVars => GilesInv' /\ DismissesTheUnlisted
<1> SUFFICES ASSUME GilesInv, [GilesNext]_gilesVars
             PROVE  GilesInv' /\ DismissesTheUnlisted
  OBVIOUS
<1>1. CASE \/ \E t \in Tasks : TaskEnters(t) \/ TaskChanges(t) \/ TaskLeaves(t)
           \/ BacklogGoes \/ BacklogTears \/ BacklogReturns
  <2>1. item' = item
    BY <1>1 DEF TaskEnters, TaskChanges, TaskLeaves, BacklogGoes, BacklogTears, BacklogReturns,
                memory
  <2> QED BY <1>1, <2>1, GilesMovesKeepGilesInv DEF DismissesTheUnlisted
<1>2. CASE PollBegins \/ ReadMeta \/ ReadStatus
  <2>1. item' = item
    BY <1>2 DEF PollBegins, ReadMeta, ReadStatus, memory
  <2> QED BY <1>2, <2>1, ReadsKeepGilesInv DEF DismissesTheUnlisted
<1>3. CASE ReadBacklog
  BY <1>3, BacklogKeepsGilesInv
<1>4. CASE \E worker \in Workers : Report(worker)
  BY <1>4, ReportKeepsGilesInv
<1>5. CASE PollFails \/ Restart
  <2>1. item' = item
    BY <1>5 DEF PollFails, Restart, memory
  <2> QED BY <1>5, <2>1, LostPollKeepsGilesInv DEF DismissesTheUnlisted
<1>6. CASE UNCHANGED gilesVars
  BY <1>6 DEF gilesVars, home, memory, progress, GilesInv, ShownIsOffered, GilesTypeOK, PollOK,
              DismissesTheUnlisted
<1> QED BY <1>1, <1>2, <1>3, <1>4, <1>5, <1>6 DEF GilesNext

\* The buttons of an item are the actions dispatchAction accepts, at every await
\* of a poll and after any failure or restart (adapter-giles/src/index.ts:241).
THEOREM GilesShownIsOffered == GilesSafetySpec => []ShownIsOffered
<1>1. GilesInv => ShownIsOffered
  BY DEF GilesInv
<1> QED BY <1>1, InitEstablishesGilesInv, NextKeepsGilesInv, PTL DEF GilesSafetySpec

\* "A transient read gap cannot mass-dismiss live items" (index.ts:249) wherever the
\* gap takes the heading with it: a poll dismisses a task in flight only for want of
\* its line under a heading that was there.
THEOREM GilesDismissedOnlyIfUnlisted == GilesSafetySpec => DismissedOnlyIfUnlisted
<1>1. GilesInv /\ [GilesNext]_gilesVars =>
        [\A t \in Tasks : (item'[t] = Departed /\ item[t] # Departed)
              => t \notin IF stage = "backlog" THEN Spared ELSE truth]_gilesVars
  BY NextKeepsGilesInv DEF DismissesTheUnlisted
<1> QED
  BY <1>1, InitEstablishesGilesInv, NextKeepsGilesInv, PTL
     DEF GilesSafetySpec, DismissedOnlyIfUnlisted

\* What this process has reported is on show, and a poll that goes on has read a
\* backlog with its heading and reported each task of it that is not still to do.
KnownAreShown ==
    /\ \A t \in known : item[t] \notin {Departed, NoItem}
    /\ stage \in {"meta", "status", "worker"} => section /\ refs \ todo \subseteq known

\* A poll that ends with a backlog that had its heading remembers the tasks listed
\* under it and no other, and has dismissed each one it remembered besides.
SweepIsExact ==
    LET listed == IF stage = "backlog" THEN Listed ELSE refs
    IN  /\ ReadBacklog \/ \E worker \in Workers : Report(worker)
        /\ ~ running' /\ (stage = "backlog" => heading)
        => /\ known' = listed
           /\ \A t \in known \ listed : item'[t] = Departed

LEMMA BacklogSweeps ==
    ASSUME GilesInv, KnownAreShown, ReadBacklog
    PROVE  KnownAreShown' /\ SweepIsExact
<1> USE DEF GilesInv, ShownIsOffered, GilesTypeOK, PollOK
<1>1. stage = "backlog" /\ running
  BY DEF ReadBacklog
<1>2. CASE Listed # {}
  <2>1. heading
    BY <1>2 DEF Listed
  <2>2. UNCHANGED <<item, known, running>> /\ section' = TRUE /\ refs' \ todo' = {}
    BY <1>2, <2>1 DEF ReadBacklog, memory
  <2> QED BY <1>1, <2>2 DEF KnownAreShown, SweepIsExact
<1>3. CASE Listed = {}
  <2>1. EndPoll({}, heading, item, known, offered) /\ stage' = "idle"
    BY <1>3 DEF ReadBacklog, Rest
  <2>2. /\ known' = IF heading THEN {} ELSE known
        /\ item' = [t \in Tasks |-> IF heading /\ t \in known THEN Departed ELSE item[t]]
    BY <2>1 DEF EndPoll
  <2>3. \A t \in Tasks : item'[t] = IF heading /\ t \in known THEN Departed ELSE item[t]
    BY <2>2
  <2>4. KnownAreShown'
    BY <2>1, <2>2, <2>3 DEF KnownAreShown, Departed, NoItem
  <2> QED BY <1>1, <1>3, <2>2, <2>3, <2>4 DEF SweepIsExact
<1> QED BY <1>2, <1>3

LEMMA ReportSweeps ==
    ASSUME GilesInv, KnownAreShown, NEW worker \in Workers, Report(worker)
    PROVE  KnownAreShown' /\ SweepIsExact
<1> DEFINE v == [partial EXCEPT !.worker = worker]
           items == [item EXCEPT ![current] = rungFor(v)]
           actions == [offered EXCEPT ![current] = rungFor(v).actions]
           reported == known \cup {current}
<1>1. /\ stage = "worker" /\ running /\ section /\ refs \ todo \subseteq known
      /\ current \in todo /\ current \in Tasks /\ known \subseteq Tasks /\ todo \subseteq refs
  BY DEF Report, GilesInv, ShownIsOffered, GilesTypeOK, PollOK, KnownAreShown
<1>2. \A t \in reported : items[t] \notin {Departed, NoItem}
  <2>1. v \in View
    BY DEF GilesInv, ShownIsOffered, GilesTypeOK, View
  <2>2. rungFor(v) \notin {Departed, NoItem}
    BY <2>1, RungIsItem
  <2>3. \A t \in Tasks : items[t] = IF t = current THEN rungFor(v) ELSE item[t]
    BY DEF GilesInv, ShownIsOffered, GilesTypeOK
  <2> QED BY <1>1, <2>2, <2>3 DEF KnownAreShown
<1>3. IF todo = {current}
      THEN EndPoll(refs, section, items, reported, actions) /\ Rest
      ELSE /\ item' = items /\ known' = reported /\ todo' = todo \ {current}
           /\ UNCHANGED <<running, section, refs>>
  BY DEF Report
<1> HIDE DEF v, items, actions
<1>4. CASE todo = {current}
  <2>1. /\ known' = reported \ (reported \ refs) /\ stage' = "idle"
        /\ item' = [t \in Tasks |-> IF t \in reported \ refs THEN Departed ELSE items[t]]
    BY <1>1, <1>3, <1>4 DEF EndPoll, Rest
  <2>2. known' = refs
    BY <1>1, <1>4, <2>1
  <2>3. \A t \in Tasks : item'[t] = IF t \in reported \ refs THEN Departed ELSE items[t]
    BY <2>1
  <2>4. \A t \in known \ refs : item'[t] = Departed
    BY <1>1, <2>3
  <2>5. \A t \in known' : item'[t] \notin {Departed, NoItem}
    <3> SUFFICES ASSUME NEW t \in known' PROVE item'[t] \notin {Departed, NoItem}
      OBVIOUS
    <3>1. t \in reported /\ t \in Tasks /\ item'[t] = items[t]
      BY <1>1, <2>1, <2>2, <2>3
    <3> QED BY <1>2, <3>1
  <2>6. KnownAreShown'
    BY <2>1, <2>5 DEF KnownAreShown, Departed, NoItem, Rung
  <2> QED BY <1>1, <2>2, <2>4, <2>6 DEF SweepIsExact
<1>5. CASE todo # {current}
  <2>1. /\ item' = items /\ known' = reported /\ todo' = todo \ {current}
        /\ UNCHANGED <<running, section, refs>>
    BY <1>3, <1>5
  <2>2. refs' \ todo' \subseteq known'
    BY <1>1, <2>1
  <2>3. KnownAreShown'
    BY <1>1, <1>2, <2>1, <2>2 DEF KnownAreShown, Departed, NoItem, Rung
  <2> QED BY <1>1, <2>1, <2>3 DEF SweepIsExact
<1> QED BY <1>4, <1>5

LEMMA NextSweeps ==
    GilesInv /\ KnownAreShown /\ [GilesNext]_gilesVars => KnownAreShown' /\ [SweepIsExact]_gilesVars
<1> SUFFICES ASSUME GilesInv, KnownAreShown, [GilesNext]_gilesVars
             PROVE  KnownAreShown' /\ [SweepIsExact]_gilesVars
  OBVIOUS
<1>1. CASE ReadBacklog
  BY <1>1, BacklogSweeps
<1>2. CASE \E worker \in Workers : Report(worker)
  BY <1>2, ReportSweeps
<1>3. ASSUME ~ ReadBacklog, ~ \E worker \in Workers : Report(worker)
      PROVE  KnownAreShown'
  <2>1. CASE \/ \E t \in Tasks : TaskEnters(t) \/ TaskChanges(t) \/ TaskLeaves(t)
             \/ BacklogGoes \/ BacklogTears \/ BacklogReturns \/ UNCHANGED gilesVars
    BY <2>1 DEF TaskEnters, TaskChanges, TaskLeaves, BacklogGoes, BacklogTears, BacklogReturns,
                gilesVars, memory, progress, KnownAreShown
  <2>2. CASE PollBegins
    BY <2>2 DEF PollBegins, memory, KnownAreShown
  <2>3. CASE ReadMeta \/ ReadStatus
    BY <2>3 DEF ReadMeta, ReadStatus, memory, KnownAreShown
  <2>4. CASE PollFails \/ Restart
    BY <2>4 DEF PollFails, Restart, Rest, memory, KnownAreShown
  <2> QED BY <1>3, <2>1, <2>2, <2>3, <2>4 DEF GilesNext
<1>4. ~ ReadBacklog /\ ~ (\E worker \in Workers : Report(worker)) => SweepIsExact
  BY DEF SweepIsExact
<1> QED BY <1>1, <1>2, <1>3, <1>4

\* The safety half of ReportedTasksDepart: each poll that gets to its sweep with the
\* heading in hand leaves the Hub knowing, and showing as alive, exactly the tasks
\* listed under it (adapter-giles/src/index.ts:253), whatever changed meanwhile.
THEOREM GilesSweepIsExact == GilesSafetySpec => []KnownAreShown /\ [][SweepIsExact]_gilesVars
<1>1. GilesInit => KnownAreShown
  BY DEF GilesInit, KnownAreShown
<1> QED
  BY <1>1, InitEstablishesGilesInv, NextKeepsGilesInv, NextSweeps, PTL DEF GilesSafetySpec

-----------------------------------------------------------------------------
(* Opencode: the lines between the server and the adapter.                 *)

Events == [session : Sessions, n : Nat]

\* The line at place i of those not handled yet: at 0 the event read already.
Line(p, w, i) == IF i = 0 THEN p ELSE w[i]
Queued(p, w, e) == \E i \in 0 .. Len(w) : Line(p, w, i) = e

\* Each event is followed by its empty line, but for the last of a stream that
\* is over; and the events of a session are in the order of its reports.
LinesOK(p, w, st, R) ==
    /\ p \in Events \cup {None} /\ w \in Seq(Events \cup {Blank})
    /\ \A i \in 0 .. Len(w) : Line(p, w, i) \in Events =>
          /\ Line(p, w, i).n \in 1 .. Len(R[Line(p, w, i).session])
          /\ IF i < Len(w) THEN w[i + 1] = Blank ELSE st = "ended"
    /\ \A i, j \in 0 .. Len(w) :
          /\ i < j /\ Line(p, w, i) \in Events /\ Line(p, w, j) \in Events
          /\ Line(p, w, i).session = Line(p, w, j).session
          => Line(p, w, i).n < Line(p, w, j).n

\* The last signal of a session is shown or still to come, and what is to come is
\* newer than what is shown.
SaidOK(p, w, R, show, say) ==
    /\ \A s \in Sessions :
          /\ show[s] <= Len(R[s]) /\ say[s] <= Len(R[s])
          /\ say[s] # 0 => IsSignal(R[s][say[s]])
          /\ say[s] \in {0, show[s]} \/ Queued(p, w, Event(s, say[s]))
    /\ \A i \in 0 .. Len(w) :
          Line(p, w, i) \in Events
             /\ IsSignal(R[Line(p, w, i).session][Line(p, w, i).n]) =>
          /\ show[Line(p, w, i).session] < Line(p, w, i).n
          /\ Line(p, w, i).n <= say[Line(p, w, i).session]

\* ntfy holds a session notifiable only while its item asks for attention; the
\* notices are the rises, and those repeated after a restart.
NoticesOK ==
    \A s \in Sessions :
        /\ notifiable[s] => isNotifiable(s, shown[s])
        /\ rises[s] <= notices[s]
        /\ notices[s] + (IF isNotifiable(s, shown[s]) /\ ~ notifiable[s] THEN 1 ELSE 0)
              <= rises[s] + restarts

StreamTypes ==
    /\ server \in BOOLEAN /\ hub \in BOOLEAN
    /\ stream \in {"none", "open", "ended"}
    /\ conn \in {"stopped", "fetching", "reading", "waiting"}
    /\ hub <=> conn # "stopped"
    /\ conn = "reading" <=> stream # "none"
    /\ conn # "reading" => wire = << >> /\ pending = None
    /\ reports \in [Sessions -> Seq(Texts)]
    /\ shown \in [Sessions -> Nat] /\ said \in [Sessions -> Nat]
    /\ notifiable \in [Sessions -> BOOLEAN]
    /\ rises \in [Sessions -> Nat] /\ notices \in [Sessions -> Nat] /\ restarts \in Nat
    /\ breaks \in 0 .. MaxBreaks

OpencodeInv ==
    /\ StreamTypes /\ NoticesOK
    /\ LinesOK(pending, wire, stream, reports)
    /\ SaidOK(pending, wire, reports, shown, said)

LEMMA NamesApart == Blank \notin Events /\ None \notin Events /\ Blank # None
BY NamesAssumption DEF Events

\* The invariant says what HeardIsShown does.
LEMMA OpencodeInvIsEnough == OpencodeInv => HeardIsShown
<1> SUFFICES ASSUME OpencodeInv PROVE HeardIsShown
  OBVIOUS
<1>1. OpencodeTypeOK
  BY DEF OpencodeInv, StreamTypes, SaidOK, OpencodeTypeOK
<1>2. OneNoticePerRise
  <2> SUFFICES ASSUME NEW s \in Sessions
               PROVE  rises[s] <= notices[s] /\ notices[s] <= rises[s] + restarts
    BY DEF OneNoticePerRise
  <2>1. rises[s] \in Nat /\ notices[s] \in Nat /\ restarts \in Nat
    BY DEF OpencodeInv, StreamTypes
  <2> QED BY <2>1 DEF OpencodeInv, NoticesOK
<1>3. ASSUME conn = "reading" => wire = << >> /\ pending = None, NEW s \in Sessions
      PROVE  said[s] \in {0, shown[s]}
  <2>1. wire = << >> /\ pending = None
    BY <1>3 DEF OpencodeInv, StreamTypes
  <2>2. Event(s, said[s]) \in Events
    BY DEF Event, Events, OpencodeInv, StreamTypes
  <2>3. ~ Queued(pending, wire, Event(s, said[s]))
    BY <2>1, <2>2, NamesApart DEF Queued, Line
  <2> QED BY <2>3 DEF OpencodeInv, SaidOK
<1> QED BY <1>1, <1>2, <1>3 DEF HeardIsShown

\* Nothing between the server and the adapter.
LEMMA EmptyLines ==
    ASSUME NEW st, NEW R,
           NEW show \in [Sessions -> Nat], NEW say \in [Sessions -> Nat],
           \A s \in Sessions : Len(R[s]) \in Nat /\ show[s] <= Len(R[s])
    PROVE  /\ LinesOK(None, << >>, st, R)
           /\ (\A s \in Sessions : say[s] = 0) => SaidOK(None, << >>, R, show, say)
BY NamesApart DEF LinesOK, SaidOK, Line, Queued

\* Reports are only added: what refers to them goes on being right.
Extends(R, old) ==
    \A s \in Sessions :
        /\ Len(R[s]) \in Nat /\ Len(old[s]) \in Nat /\ Len(old[s]) <= Len(R[s])
        /\ \A k \in 1 .. Len(old[s]) : R[s][k] = old[s][k]

LEMMA LinesSurvive ==
    ASSUME NEW p, NEW w, NEW st, NEW old, NEW R, Extends(R, old),
           NEW show \in [Sessions -> Nat], NEW say \in [Sessions -> Nat],
           LinesOK(p, w, st, old), SaidOK(p, w, old, show, say)
    PROVE  LinesOK(p, w, st, R) /\ SaidOK(p, w, R, show, say)
<1>1. \A i \in 0 .. Len(w) : Line(p, w, i) \in Events =>
         /\ Line(p, w, i).session \in Sessions /\ Line(p, w, i).n \in Nat
         /\ Line(p, w, i).n \in 1 .. Len(old[Line(p, w, i).session])
  BY DEF LinesOK, Events
<1>2. \A i \in 0 .. Len(w) : Line(p, w, i) \in Events =>
         /\ Line(p, w, i).n \in 1 .. Len(R[Line(p, w, i).session])
         /\ R[Line(p, w, i).session][Line(p, w, i).n]
              = old[Line(p, w, i).session][Line(p, w, i).n]
  BY <1>1 DEF Extends
<1>3. LinesOK(p, w, st, R)
  BY <1>2 DEF LinesOK
<1>4. ASSUME NEW s \in Sessions
      PROVE  /\ show[s] <= Len(R[s]) /\ say[s] <= Len(R[s])
             /\ say[s] # 0 => IsSignal(R[s][say[s]])
             /\ say[s] \in {0, show[s]} \/ Queued(p, w, Event(s, say[s]))
  <2>1. /\ show[s] \in Nat /\ say[s] \in Nat
        /\ show[s] <= Len(old[s]) /\ say[s] <= Len(old[s])
        /\ say[s] # 0 => IsSignal(old[s][say[s]])
        /\ say[s] \in {0, show[s]} \/ Queued(p, w, Event(s, say[s]))
    BY DEF SaidOK
  <2>2. Len(R[s]) \in Nat /\ Len(old[s]) \in Nat /\ Len(old[s]) <= Len(R[s])
    BY DEF Extends
  <2>3. say[s] # 0 => R[s][say[s]] = old[s][say[s]]
    BY <2>1, <2>2 DEF Extends
  <2> QED BY <2>1, <2>2, <2>3
<1>5. SaidOK(p, w, R, show, say)
  BY <1>2, <1>4 DEF SaidOK
<1> QED BY <1>3, <1>5

\* A report sent on a stream that is open: its event is the newest of its session.
LEMMA LinesGrow ==
    ASSUME NEW p, NEW w, NEW R,
           NEW show \in [Sessions -> Nat], NEW say \in [Sessions -> Nat],
           LinesOK(p, w, "open", R), SaidOK(p, w, R, show, say),
           NEW s \in Sessions, NEW n \in Nat, n = Len(R[s]), n # 0, show[s] < n, say[s] < n,
           \A i \in 0 .. Len(w) : Line(p, w, i) \in Events /\ Line(p, w, i).session = s
                                     => Line(p, w, i).n < n,
           NEW told2, told2 = IF IsSignal(R[s][n]) THEN [say EXCEPT ![s] = n] ELSE say
    PROVE  /\ LinesOK(p, w \o <<Event(s, n), Blank>>, "open", R)
           /\ SaidOK(p, w \o <<Event(s, n), Blank>>, R, show, told2)
<1> DEFINE w2 == w \o <<Event(s, n), Blank>>
           k == Len(w)
<1>1. w \in Seq(Events \cup {Blank}) /\ Event(s, n) \in Events /\ k \in Nat
  BY DEF LinesOK, Event, Events
<1>2. /\ w2 \in Seq(Events \cup {Blank}) /\ Len(w2) = k + 2
      /\ \A i \in 1 .. k : w2[i] = w[i]
      /\ w2[k + 1] = Event(s, n) /\ w2[k + 2] = Blank
  BY <1>1
<1>3. /\ \A i \in 0 .. k : Line(p, w2, i) = Line(p, w, i)
      /\ Line(p, w2, k + 1) = Event(s, n) /\ Line(p, w2, k + 2) = Blank
  BY <1>1, <1>2 DEF Line
<1>4. Event(s, n).session = s /\ Event(s, n).n = n
  BY DEF Event
<1> HIDE DEF w2, k
<1>5. \A i \in 0 .. Len(w2) : Line(p, w2, i) \in Events => i \in 0 .. k \/ i = k + 1
  BY <1>1, <1>2, <1>3, NamesApart
<1>6. k = Len(w)
  BY DEF k
<1>7. LinesOK(p, w2, "open", R)
  <2>1. p \in Events \cup {None}
    BY DEF LinesOK
  <2>2. ASSUME NEW i \in 0 .. Len(w2), Line(p, w2, i) \in Events
        PROVE  /\ Line(p, w2, i).n \in 1 .. Len(R[Line(p, w2, i).session])
               /\ IF i < Len(w2) THEN w2[i + 1] = Blank ELSE FALSE
    <3>1. CASE i = k + 1
      BY <1>1, <1>2, <1>3, <1>4, <3>1
    <3>2. CASE i \in 0 .. k
      <4>1. Line(p, w2, i) = Line(p, w, i)
        BY <1>3, <3>2
      <4>2. i < k /\ w[i + 1] = Blank /\ Line(p, w, i).n \in 1 .. Len(R[Line(p, w, i).session])
        BY <1>1, <1>6, <2>2, <3>2, <4>1 DEF LinesOK
      <4>3. i + 1 \in 1 .. k
        BY <1>1, <3>2, <4>2
      <4>4. w2[i + 1] = w[i + 1]
        BY <1>2, <4>3
      <4> QED BY <1>1, <1>2, <3>2, <4>1, <4>2, <4>4
    <3> QED BY <1>5, <2>2, <3>1, <3>2
  <2>3. ASSUME NEW i \in 0 .. Len(w2), NEW j \in 0 .. Len(w2), i < j,
               Line(p, w2, i) \in Events, Line(p, w2, j) \in Events,
               Line(p, w2, i).session = Line(p, w2, j).session
        PROVE  Line(p, w2, i).n < Line(p, w2, j).n
    <3>1. CASE j = k + 1
      <4>1. i \in 0 .. k /\ Line(p, w2, i) = Line(p, w, i)
        BY <1>1, <1>3, <1>5, <2>3, <3>1
      <4> QED BY <1>3, <1>4, <1>6, <2>3, <3>1, <4>1
    <3>2. CASE j \in 0 .. k
      <4>1. i \in 0 .. k /\ Line(p, w2, i) = Line(p, w, i) /\ Line(p, w2, j) = Line(p, w, j)
        BY <1>1, <1>3, <2>3, <3>2
      <4> QED BY <1>6, <2>3, <3>2, <4>1 DEF LinesOK
    <3> QED BY <1>5, <2>3, <3>1, <3>2
  <2> QED BY <1>2, <2>1, <2>2, <2>3 DEF LinesOK
<1>8. ASSUME NEW x \in Sessions
      PROVE  /\ show[x] <= Len(R[x]) /\ told2[x] <= Len(R[x])
             /\ told2[x] # 0 => IsSignal(R[x][told2[x]])
             /\ told2[x] \in {0, show[x]} \/ Queued(p, w2, Event(x, told2[x]))
  <2>1. /\ show[x] <= Len(R[x]) /\ say[x] <= Len(R[x])
        /\ say[x] # 0 => IsSignal(R[x][say[x]])
        /\ say[x] \in {0, show[x]} \/ Queued(p, w, Event(x, say[x]))
    BY DEF SaidOK
  <2>2. \A e : Queued(p, w, e) => Queued(p, w2, e)
    BY <1>1, <1>2, <1>3, <1>6 DEF Queued
  <2>3. Queued(p, w2, Event(s, n))
    <3>1. k + 1 \in 0 .. Len(w2)
      BY <1>1, <1>2
    <3> QED BY <1>3, <3>1 DEF Queued
  <2>4. CASE x = s /\ IsSignal(R[s][n])
    <3>1. told2[x] = n
      BY <2>4
    <3> QED BY <2>1, <2>3, <2>4, <3>1
  <2>5. CASE ~ (x = s /\ IsSignal(R[s][n]))
    <3>1. told2[x] = say[x]
      BY <2>5
    <3> QED BY <2>1, <2>2, <3>1
  <2> QED BY <2>4, <2>5
<1>9. ASSUME NEW i \in 0 .. Len(w2), Line(p, w2, i) \in Events,
             IsSignal(R[Line(p, w2, i).session][Line(p, w2, i).n])
      PROVE  /\ show[Line(p, w2, i).session] < Line(p, w2, i).n
             /\ Line(p, w2, i).n <= told2[Line(p, w2, i).session]
  <2>1. CASE i = k + 1
    <3>1. Line(p, w2, i) = Event(s, n) /\ told2[s] = n
      BY <1>3, <1>4, <1>9, <2>1
    <3> QED BY <1>4, <3>1
  <2>2. CASE i \in 0 .. k
    <3>1. Line(p, w2, i) = Line(p, w, i)
      BY <1>3, <2>2
    <3>2. PICK e \in Events : e = Line(p, w, i)
      BY <1>9, <3>1
    <3>3. e.session \in Sessions /\ e.n \in Nat
      BY DEF Events
    <3>4. show[e.session] < e.n /\ e.n <= say[e.session]
      BY <1>6, <1>9, <2>2, <3>1, <3>2 DEF SaidOK
    <3>5. e.session = s => e.n < n
      BY <1>6, <2>2, <3>2
    <3>6. told2[e.session] = say[e.session] \/ (e.session = s /\ told2[s] = n)
      BY <3>3
    <3> QED BY <3>1, <3>2, <3>3, <3>4, <3>5, <3>6
  <2> QED BY <1>5, <1>9, <2>1, <2>2
<1>10. SaidOK(p, w2, R, show, told2)
  BY <1>8, <1>9 DEF SaidOK
<1> QED BY <1>7, <1>10 DEF w2

\* A line of data is taken off the wire and kept: nothing was kept before it.
LEMMA LineIsKept ==
    ASSUME NEW p, NEW w, NEW st, NEW R,
           NEW show \in [Sessions -> Nat], NEW say \in [Sessions -> Nat],
           LinesOK(p, w, st, R), SaidOK(p, w, R, show, say), w # << >>, Head(w) # Blank
    PROVE  LinesOK(Head(w), Tail(w), st, R) /\ SaidOK(Head(w), Tail(w), R, show, say)
<1>1. /\ w \in Seq(Events \cup {Blank}) /\ Head(w) = w[1] /\ Head(w) \in Events
      /\ Len(w) \in Nat /\ Len(w) >= 1
  BY DEF LinesOK
<1>2. /\ Tail(w) \in Seq(Events \cup {Blank}) /\ Len(Tail(w)) = Len(w) - 1
      /\ \A i \in 1 .. Len(w) - 1 : Tail(w)[i] = w[i + 1]
  BY <1>1
<1>3. p = None
  <2>1. p \in Events => w[1] = Blank
    BY <1>1 DEF LinesOK, Line
  <2> QED BY <1>1, <2>1 DEF LinesOK
<1>4. \A i \in 0 .. Len(Tail(w)) :
         /\ i + 1 \in 0 .. Len(w) /\ Line(Head(w), Tail(w), i) = Line(p, w, i + 1)
         /\ i < Len(Tail(w)) => Tail(w)[i + 1] = w[i + 1 + 1] /\ i + 1 < Len(w)
         /\ ~ i < Len(Tail(w)) => ~ i + 1 < Len(w)
  BY <1>1, <1>2 DEF Line
<1>5. LinesOK(Head(w), Tail(w), st, R)
  <2>1. ASSUME NEW i \in 0 .. Len(Tail(w)), Line(Head(w), Tail(w), i) \in Events
        PROVE  /\ Line(Head(w), Tail(w), i).n \in 1 .. Len(R[Line(Head(w), Tail(w), i).session])
               /\ IF i < Len(Tail(w)) THEN Tail(w)[i + 1] = Blank ELSE st = "ended"
    BY <1>4, <2>1 DEF LinesOK
  <2>2. ASSUME NEW i \in 0 .. Len(Tail(w)), NEW j \in 0 .. Len(Tail(w)), i < j,
               Line(Head(w), Tail(w), i) \in Events, Line(Head(w), Tail(w), j) \in Events,
               Line(Head(w), Tail(w), i).session = Line(Head(w), Tail(w), j).session
        PROVE  Line(Head(w), Tail(w), i).n < Line(Head(w), Tail(w), j).n
    <3>1. i + 1 < j + 1
      BY <1>1, <1>2, <2>2
    <3> QED BY <1>4, <2>2, <3>1 DEF LinesOK
  <2> QED BY <1>1, <1>2, <2>1, <2>2 DEF LinesOK
<1>6. \A e \in Events : Queued(p, w, e) => Queued(Head(w), Tail(w), e)
  <2> SUFFICES ASSUME NEW e \in Events, NEW i \in 0 .. Len(w), Line(p, w, i) = e
               PROVE  Queued(Head(w), Tail(w), e)
    BY DEF Queued
  <2>1. i # 0
    BY <1>3, NamesApart DEF Line
  <2>2. i - 1 \in 0 .. Len(Tail(w)) /\ i - 1 + 1 = i
    BY <1>1, <1>2, <2>1
  <2>3. Line(Head(w), Tail(w), i - 1) = e
    BY <1>4, <2>2
  <2> QED BY <2>2, <2>3 DEF Queued
<1>7. \A s \in Sessions : Event(s, say[s]) \in Events
  BY DEF Event, Events
<1>8. SaidOK(Head(w), Tail(w), R, show, say)
  BY <1>4, <1>6, <1>7 DEF SaidOK
<1> QED BY <1>5, <1>8

\* What the dispatch of what was kept shows, and the lines after it moving up.
ShownOnce(p, R, show) ==
    IF p \in Events /\ IsSignal(R[p.session][p.n])
    THEN [show EXCEPT ![p.session] = p.n] ELSE show
MovesUp(w, st, w2, st2) ==
    /\ w # << >> => Head(w) = Blank /\ w2 = Tail(w) /\ st2 = st
    /\ w = << >> => w2 = << >>

\* What was kept is handled: what is left is still in order and still said.
LEMMA KeptIsHandled ==
    ASSUME NEW p, NEW w, NEW st, NEW st2, NEW R,
           NEW show \in [Sessions -> Nat], NEW say \in [Sessions -> Nat],
           \A s \in Sessions : Len(R[s]) \in Nat,
           LinesOK(p, w, st, R), SaidOK(p, w, R, show, say),
           NEW w2,
           MovesUp(w, st, w2, st2),
           NEW show2, show2 = ShownOnce(p, R, show)
    PROVE  /\ LinesOK(None, w2, st2, R) /\ SaidOK(None, w2, R, show2, say)
           /\ show2 \in [Sessions -> Nat] /\ \A s \in Sessions : show[s] <= show2[s]
<1>0. /\ w # << >> => Head(w) = Blank /\ w2 = Tail(w) /\ st2 = st
      /\ w = << >> => w2 = << >>
      /\ show2 = IF p \in Events /\ IsSignal(R[p.session][p.n])
                 THEN [show EXCEPT ![p.session] = p.n] ELSE show
  BY DEF MovesUp, ShownOnce
<1>1. w \in Seq(Events \cup {Blank}) /\ p \in Events \cup {None} /\ Len(w) \in Nat
  BY DEF LinesOK
<1>2. w2 \in Seq(Events \cup {Blank}) /\ Len(w2) \in Nat
  <2>1. w # << >> => Tail(w) \in Seq(Events \cup {Blank})
    BY <1>1
  <2>2. w2 \in Seq(Events \cup {Blank})
    <3>1. CASE w # << >>
      BY <1>0, <2>1, <3>1
    <3>2. CASE w = << >>
      BY <1>0, <3>2
    <3> QED BY <3>1, <3>2
  <2> QED BY <2>2
<1>3. \A i \in 0 .. Len(w2) : Line(None, w2, i) \in Events =>
         /\ i # 0 /\ i + 1 \in 0 .. Len(w) /\ Line(None, w2, i) = Line(p, w, i + 1)
         /\ i < Len(w2) => w2[i + 1] = w[i + 1 + 1] /\ i + 1 < Len(w)
         /\ ~ i < Len(w2) => ~ i + 1 < Len(w) /\ st2 = st
  <2>1. CASE w = << >>
    BY <1>0, <2>1, NamesApart DEF Line
  <2>2. CASE w # << >>
    <3>1. Len(w2) = Len(w) - 1 /\ \A i \in 1 .. Len(w) - 1 : w2[i] = w[i + 1]
      <4>1. w2 = Tail(w)
        BY <1>0, <2>2
      <4>2. Len(Tail(w)) = Len(w) - 1 /\ \A i \in 1 .. Len(w) - 1 : Tail(w)[i] = w[i + 1]
        BY <1>1, <2>2
      <4> QED BY <4>1, <4>2
    <3> QED BY <1>0, <1>1, <2>2, <3>1, NamesApart DEF Line
  <2> QED BY <2>1, <2>2
<1>4. LinesOK(None, w2, st2, R)
  <2>1. ASSUME NEW i \in 0 .. Len(w2), Line(None, w2, i) \in Events
        PROVE  /\ Line(None, w2, i).n \in 1 .. Len(R[Line(None, w2, i).session])
               /\ IF i < Len(w2) THEN w2[i + 1] = Blank ELSE st2 = "ended"
    BY <1>3, <2>1 DEF LinesOK
  <2>2. ASSUME NEW i \in 0 .. Len(w2), NEW j \in 0 .. Len(w2), i < j,
               Line(None, w2, i) \in Events, Line(None, w2, j) \in Events,
               Line(None, w2, i).session = Line(None, w2, j).session
        PROVE  Line(None, w2, i).n < Line(None, w2, j).n
    <3>1. i + 1 < j + 1
      BY <1>2, <2>2
    <3> QED BY <1>3, <2>2, <3>1 DEF LinesOK
  <2> QED BY <1>2, <2>1, <2>2 DEF LinesOK
\* What is still to come of its session is newer.
<1>5. ASSUME p \in Events, NEW i \in 0 .. Len(w2), Line(None, w2, i) \in Events,
             Line(None, w2, i).session = p.session
      PROVE  p.n < Line(None, w2, i).n
  <2>1. i + 1 \in 0 .. Len(w) /\ Line(None, w2, i) = Line(p, w, i + 1) /\ 0 < i + 1
    BY <1>3, <1>5
  <2>2. Line(p, w, 0) = p /\ 0 \in 0 .. Len(w)
    BY <1>1 DEF Line
  <2> QED BY <1>5, <2>1, <2>2 DEF LinesOK
<1>6. \A e \in Events : Queued(p, w, e) => e = p \/ Queued(None, w2, e)
  <2> SUFFICES ASSUME NEW e \in Events, NEW i \in 0 .. Len(w), Line(p, w, i) = e, e # p
               PROVE  Queued(None, w2, e)
    BY DEF Queued
  <2>1. i # 0 /\ w # << >>
    BY <1>1 DEF Line
  <2>2. w2 = Tail(w) /\ Head(w) = Blank /\ Head(w) = w[1] /\ Len(w2) = Len(w) - 1
        /\ \A k \in 1 .. Len(w) - 1 : w2[k] = w[k + 1]
    <3>1. w2 = Tail(w) /\ Head(w) = Blank
      BY <1>0, <2>1
    <3> QED BY <1>1, <2>1, <3>1
  <2>3. w[i] = e /\ i # 1
    BY <2>1, <2>2, NamesApart DEF Line
  <2>4. i - 1 \in 1 .. Len(w) - 1 /\ i - 1 + 1 = i
    BY <1>1, <2>1, <2>3
  <2>5. Line(None, w2, i - 1) = e /\ i - 1 \in 0 .. Len(w2)
    BY <1>1, <2>2, <2>3, <2>4 DEF Line
  <2> QED BY <2>5 DEF Queued
<1>7. \A s \in Sessions : Event(s, say[s]) \in Events /\ Event(s, say[s]).session = s
                           /\ Event(s, say[s]).n = say[s]
  BY DEF Event, Events
<1>8. CASE p \in Events /\ IsSignal(R[p.session][p.n])
  <2>1. /\ p.session \in Sessions /\ p.n \in Nat /\ Line(p, w, 0) = p /\ 0 \in 0 .. Len(w)
    BY <1>1, <1>8 DEF Events, Line
  <2>2. /\ show[p.session] < p.n /\ p.n <= say[p.session] /\ p.n \in 1 .. Len(R[p.session])
    BY <1>8, <2>1 DEF SaidOK, LinesOK
  <2>3. show2 \in [Sessions -> Nat] /\ \A s \in Sessions :
                show2[s] = IF s = p.session THEN p.n ELSE show[s]
    BY <1>0, <1>8, <2>1
  <2>4. ASSUME NEW s \in Sessions
        PROVE  /\ show2[s] <= Len(R[s]) /\ say[s] <= Len(R[s])
               /\ say[s] # 0 => IsSignal(R[s][say[s]])
               /\ say[s] \in {0, show2[s]} \/ Queued(None, w2, Event(s, say[s]))
    <3>1. /\ show[s] <= Len(R[s]) /\ say[s] <= Len(R[s])
          /\ say[s] # 0 => IsSignal(R[s][say[s]])
          /\ say[s] \in {0, show[s]} \/ Queued(p, w, Event(s, say[s]))
      BY DEF SaidOK
    <3>2. CASE s = p.session
      <4>1. say[s] # 0 /\ say[s] # show[s]
        BY <2>1, <2>2, <3>2
      <4>2. Event(s, say[s]) = p \/ Queued(None, w2, Event(s, say[s]))
        BY <1>6, <1>7, <3>1, <4>1
      <4>3. Event(s, say[s]) = p => say[s] = p.n
        BY <1>7
      <4> QED BY <2>2, <2>3, <3>1, <3>2, <4>2, <4>3
    <3>3. CASE s # p.session
      <4>1. Event(s, say[s]) # p
        BY <1>7, <3>3
      <4> QED BY <1>6, <1>7, <2>3, <3>1, <3>3, <4>1
    <3> QED BY <3>2, <3>3
  <2>5. ASSUME NEW i \in 0 .. Len(w2), Line(None, w2, i) \in Events,
               IsSignal(R[Line(None, w2, i).session][Line(None, w2, i).n])
        PROVE  /\ show2[Line(None, w2, i).session] < Line(None, w2, i).n
               /\ Line(None, w2, i).n <= say[Line(None, w2, i).session]
    <3>1. PICK e \in Events : e = Line(None, w2, i)
      BY <2>5
    <3>2. e.session \in Sessions
      BY DEF Events
    <3>3. show[e.session] < e.n /\ e.n <= say[e.session]
      BY <1>3, <2>5, <3>1 DEF SaidOK
    <3>4. e.session = p.session => p.n < e.n
      BY <1>5, <1>8, <2>5, <3>1
    <3>5. show2[e.session] = IF e.session = p.session THEN p.n ELSE show[e.session]
      BY <2>3, <3>2
    <3> QED BY <3>1, <3>3, <3>4, <3>5
  <2>6. ASSUME NEW s \in Sessions
        PROVE  show[s] <= show2[s]
    <3>1. show[s] \in Nat /\ show2[s] = IF s = p.session THEN p.n ELSE show[s]
      BY <2>3
    <3> QED BY <2>1, <2>2, <3>1
  <2> QED BY <1>4, <2>3, <2>4, <2>5, <2>6 DEF SaidOK
<1>9. CASE ~ (p \in Events /\ IsSignal(R[p.session][p.n]))
  <2>1. show2 = show
    BY <1>0, <1>9
  <2>2. ASSUME NEW s \in Sessions
        PROVE  say[s] \in {0, show[s]} \/ Queued(None, w2, Event(s, say[s]))
    <3>1. CASE say[s] = 0
      BY <3>1
    <3>2. CASE say[s] # 0
      <4>1. IsSignal(R[s][say[s]]) /\ (say[s] = show[s] \/ Queued(p, w, Event(s, say[s])))
        BY <3>2 DEF SaidOK
      <4>2. Event(s, say[s]) # p
        BY <1>7, <1>9, <4>1
      <4> QED BY <1>6, <1>7, <4>1, <4>2
    <3> QED BY <3>1, <3>2
  <2>3. SaidOK(None, w2, R, show, say)
    BY <1>3, <2>2 DEF SaidOK
  <2>4. \A s \in Sessions : show[s] <= show[s]
    OBVIOUS
  <2> QED BY <1>4, <2>1, <2>3, <2>4
<1> QED BY <1>8, <1>9

\* The stream is cut, at the end of an event or before its empty line.
LEMMA LinesAreCut ==
    ASSUME NEW p, NEW w, NEW R,
           NEW show \in [Sessions -> Nat], NEW say \in [Sessions -> Nat],
           LinesOK(p, w, "open", R), SaidOK(p, w, R, show, say),
           NEW w2, w2 = w \/ (w # << >> /\ w2 = Front(w))
    PROVE  LinesOK(p, w2, "ended", R) /\ SaidOK(p, w2, R, show, say)
<1>1. w \in Seq(Events \cup {Blank}) /\ Len(w) \in Nat
  BY DEF LinesOK
<1>2. CASE w2 = w
  BY <1>2 DEF LinesOK
<1>3. CASE w # << >> /\ w2 = Front(w)
  <2>1. /\ w2 \in Seq(Events \cup {Blank}) /\ Len(w2) = Len(w) - 1 /\ Len(w) >= 1
        /\ \A i \in 1 .. Len(w) - 1 : w2[i] = w[i]
    <3>1. w2 = SubSeq(w, 1, Len(w) - 1) /\ Len(w) >= 1
      BY <1>1, <1>3 DEF Front
    <3> DEFINE k == Len(w) - 1
    <3>2. k \in Nat /\ k = Len(w) - 1
      BY <1>1, <3>1
    <3> HIDE DEF k
    <3>3. \A i \in 1 .. k : w[i] \in Events \cup {Blank}
      BY <1>1, <3>2
    <3>4. /\ SubSeq(w, 1, k) \in Seq(Events \cup {Blank})
          /\ Len(SubSeq(w, 1, k)) = IF 1 <= k THEN k - 1 + 1 ELSE 0
          /\ \A i \in 1 .. k - 1 + 1 : SubSeq(w, 1, k)[i] = w[1 + i - 1]
      BY <3>2, <3>3, SubSeqProperties
    <3>5. Len(SubSeq(w, 1, k)) = k
      BY <3>2, <3>4
    <3>6. \A i \in 1 .. k : i \in 1 .. k - 1 + 1 /\ 1 + i - 1 = i
      BY <3>2
    <3>7. \A i \in 1 .. k : SubSeq(w, 1, k)[i] = w[i]
      BY <3>4, <3>6
    <3>8. w2 = SubSeq(w, 1, k)
      BY <3>1, <3>2
    <3> QED BY <3>1, <3>2, <3>4, <3>5, <3>7, <3>8
  <2>2. \A i \in 0 .. Len(w2) : i \in 0 .. Len(w) /\ Line(p, w2, i) = Line(p, w, i)
    BY <1>1, <2>1 DEF Line
\* What is lost is an empty line.
  <2>3. Line(p, w, Len(w)) \notin Events
    BY <1>1 DEF LinesOK
  <2>4. LinesOK(p, w2, "ended", R)
    <3>1. ASSUME NEW i \in 0 .. Len(w2), Line(p, w2, i) \in Events
          PROVE  /\ Line(p, w2, i).n \in 1 .. Len(R[Line(p, w2, i).session])
                 /\ IF i < Len(w2) THEN w2[i + 1] = Blank ELSE TRUE
      <4>1. i < Len(w2) => i < Len(w) /\ w2[i + 1] = w[i + 1]
        BY <1>1, <2>1
      <4> QED BY <2>2, <3>1, <4>1 DEF LinesOK
    <3> QED BY <2>1, <2>2, <3>1 DEF LinesOK
  <2>5. \A e \in Events : Queued(p, w, e) => Queued(p, w2, e)
    <3> SUFFICES ASSUME NEW e \in Events, NEW i \in 0 .. Len(w), Line(p, w, i) = e
                 PROVE  Queued(p, w2, e)
      BY DEF Queued
    <3>1. i \in 0 .. Len(w2)
      BY <1>1, <2>1, <2>3
    <3> QED BY <2>2, <3>1 DEF Queued
  <2>6. \A s \in Sessions : Event(s, say[s]) \in Events
    BY DEF Event, Events
  <2> QED BY <2>2, <2>4, <2>5, <2>6 DEF SaidOK
<1> QED BY <1>2, <1>3

-----------------------------------------------------------------------------
(* Opencode: what the user is told.                                        *)

\* Items that are upserted as they are: at most one notice each, and none for an
\* item ntfy knows.
LEMMA RefreshKeepsNotices ==
    ASSUME StreamTypes, NoticesOK, NEW upserted \in SUBSET Sessions, Refresh(upserted),
           UNCHANGED <<reports, restarts>>
    PROVE  /\ NoticesOK' /\ shown' = shown /\ rises' = rises
           /\ notices' \in [Sessions -> Nat] /\ notifiable' \in [Sessions -> BOOLEAN]
<1>1. /\ shown' = shown /\ rises' = rises
      /\ \A s \in Sessions : isNotifiable(s, shown[s])' = isNotifiable(s, shown[s])
      /\ \A s \in Sessions : isNotifiable(s, shown[s]) \in BOOLEAN
  BY DEF Refresh, isNotifiable, StateAt
<1>2. /\ notices' = CountIn(notices, Announced(notifiable, upserted, shown))
      /\ notifiable' = Recorded(notifiable, upserted, shown)
  BY DEF Refresh
<1>3. /\ notifiable' \in [Sessions -> BOOLEAN]
      /\ \A s \in Sessions : notifiable'[s] =
            IF s \in upserted THEN isNotifiable(s, shown[s]) ELSE notifiable[s]
  BY <1>1, <1>2 DEF Recorded, StreamTypes
<1>4. /\ notices' \in [Sessions -> Nat]
      /\ \A s \in Sessions : notices'[s] = notices[s] +
            IF s \in upserted /\ ~ notifiable[s] /\ isNotifiable(s, shown[s]) THEN 1 ELSE 0
  BY <1>2 DEF CountIn, Announced, StreamTypes
<1>5. ASSUME NEW s \in Sessions
      PROVE  /\ notifiable'[s] => isNotifiable(s, shown[s])'
             /\ rises'[s] <= notices'[s]
             /\ notices'[s] + (IF isNotifiable(s, shown[s])' /\ ~ notifiable'[s] THEN 1 ELSE 0)
                   <= rises'[s] + restarts'
  <2>1. /\ notifiable[s] => isNotifiable(s, shown[s])
        /\ rises[s] <= notices[s]
        /\ notices[s] + (IF isNotifiable(s, shown[s]) /\ ~ notifiable[s] THEN 1 ELSE 0)
              <= rises[s] + restarts
        /\ rises[s] \in Nat /\ notices[s] \in Nat /\ restarts \in Nat
        /\ notifiable[s] \in BOOLEAN
    BY DEF NoticesOK, StreamTypes
  <2> QED BY <1>1, <1>3, <1>4, <2>1
<1> QED BY <1>1, <1>3, <1>4, <1>5 DEF NoticesOK

\* A signal: one notice if its item starts to ask for attention, or was not known
\* to ntfy when the heartbeat before it came.
LEMMA EmitKeepsNotices ==
    ASSUME StreamTypes, NoticesOK, NEW s \in Sessions, NEW n \in Nat, Emit(s, n),
           UNCHANGED <<reports, restarts>>
    PROVE  /\ NoticesOK' /\ shown' = [shown EXCEPT ![s] = n]
           /\ rises' \in [Sessions -> Nat] /\ notices' \in [Sessions -> Nat]
           /\ notifiable' \in [Sessions -> BOOLEAN]
<1> DEFINE heard == Recorded(notifiable, Vouched, shown)
<1>1. /\ shown' = [shown EXCEPT ![s] = n]
      /\ rises' = CountIn(rises, IF isNotifiable(s, n) /\ ~ isNotifiable(s, shown[s])
                                 THEN {s} ELSE {})
      /\ notifiable' = Recorded(heard, {s}, shown')
      /\ notices' = CountIn(CountIn(notices, Announced(notifiable, Vouched, shown)),
                            Announced(heard, {s}, shown'))
  BY DEF Emit
<1>2. /\ shown' \in [Sessions -> Nat]
      /\ \A x \in Sessions : shown'[x] = IF x = s THEN n ELSE shown[x]
  BY <1>1 DEF StreamTypes
<1>3. /\ \A x, m : isNotifiable(x, m) \in BOOLEAN
      /\ \A x \in Sessions : isNotifiable(x, shown[x])' = isNotifiable(x, shown'[x])
      /\ Vouched \subseteq Sessions /\ \A x \in Vouched : isNotifiable(x, shown[x])
  BY DEF isNotifiable, StateAt, Vouched
<1>4. /\ heard \in [Sessions -> BOOLEAN]
      /\ \A x \in Sessions :
            heard[x] = IF x \in Vouched THEN isNotifiable(x, shown[x]) ELSE notifiable[x]
  BY <1>3 DEF Recorded, StreamTypes
<1> HIDE DEF heard
<1>5. /\ notifiable' \in [Sessions -> BOOLEAN]
      /\ \A x \in Sessions :
            notifiable'[x] = IF x = s THEN isNotifiable(s, n) ELSE heard[x]
  BY <1>1, <1>2, <1>3, <1>4 DEF Recorded
<1>6. /\ rises' \in [Sessions -> Nat]
      /\ \A x \in Sessions : rises'[x] = rises[x] +
            IF x = s /\ isNotifiable(s, n) /\ ~ isNotifiable(s, shown[s]) THEN 1 ELSE 0
  BY <1>1 DEF CountIn, StreamTypes
<1>7. /\ notices' \in [Sessions -> Nat]
      /\ \A x \in Sessions : notices'[x] = notices[x]
            + (IF x \in Vouched /\ ~ notifiable[x] THEN 1 ELSE 0)
            + (IF x = s /\ ~ heard[s] /\ isNotifiable(s, n) THEN 1 ELSE 0)
  <2>1. \A x \in Sessions : x \in Announced(notifiable, Vouched, shown)
                               <=> x \in Vouched /\ ~ notifiable[x]
    BY <1>3 DEF Announced
  <2>2. \A x \in Sessions : x \in Announced(heard, {s}, shown')
                               <=> x = s /\ ~ heard[s] /\ isNotifiable(s, n)
    BY <1>2 DEF Announced
  <2> DEFINE first == CountIn(notices, Announced(notifiable, Vouched, shown))
  <2>3. \A x \in Sessions : notices[x] \in Nat
    BY DEF StreamTypes
  <2>4. \A x \in Sessions :
           first[x] = notices[x] + IF x \in Vouched /\ ~ notifiable[x] THEN 1 ELSE 0
    BY <2>1 DEF CountIn
  <2>5. notices' = CountIn(first, Announced(heard, {s}, shown'))
    BY <1>1
  <2> HIDE DEF first
  <2>6. \A x \in Sessions :
           notices'[x] = first[x] + IF x = s /\ ~ heard[s] /\ isNotifiable(s, n) THEN 1 ELSE 0
    BY <2>2, <2>5 DEF CountIn
  <2>7. \A x \in Sessions : notices'[x] \in Nat
    BY <2>3, <2>4, <2>6
  <2>8. notices' \in [Sessions -> Nat]
    BY <2>5, <2>7 DEF CountIn
  <2> QED BY <2>4, <2>6, <2>8
<1>8. ASSUME NEW x \in Sessions
      PROVE  /\ notifiable'[x] => isNotifiable(x, shown[x])'
             /\ rises'[x] <= notices'[x]
             /\ notices'[x] + (IF isNotifiable(x, shown[x])' /\ ~ notifiable'[x] THEN 1 ELSE 0)
                   <= rises'[x] + restarts'
  <2>1. /\ notifiable[x] => isNotifiable(x, shown[x])
        /\ rises[x] <= notices[x]
        /\ notices[x] + (IF isNotifiable(x, shown[x]) /\ ~ notifiable[x] THEN 1 ELSE 0)
              <= rises[x] + restarts
        /\ rises[x] \in Nat /\ notices[x] \in Nat /\ restarts \in Nat
        /\ notifiable[x] \in BOOLEAN /\ heard[x] \in BOOLEAN
    BY <1>4 DEF NoticesOK, StreamTypes
  <2>2. CASE x = s
    BY <1>2, <1>3, <1>4, <1>5, <1>6, <1>7, <2>1, <2>2
  <2>3. CASE x # s
    BY <1>2, <1>3, <1>4, <1>5, <1>6, <1>7, <2>1, <2>3
  <2> QED BY <2>2, <2>3
<1> QED BY <1>1, <1>5, <1>6, <1>7, <1>8 DEF NoticesOK

\* What a line that was kept does to the items and to ntfy, if there is one.
Dispatched == IF pending = None THEN UNCHANGED told ELSE Handle(pending)

LEMMA DispatchKeepsNotices ==
    ASSUME OpencodeInv, Dispatched, UNCHANGED <<reports, restarts>>
    PROVE  /\ NoticesOK'
           /\ rises' \in [Sessions -> Nat] /\ notices' \in [Sessions -> Nat]
           /\ notifiable' \in [Sessions -> BOOLEAN]
           /\ shown' = IF pending \in Events
                            /\ IsSignal(reports[pending.session][pending.n])
                       THEN [shown EXCEPT ![pending.session] = pending.n] ELSE shown
<1>1. pending \in Events \cup {None} /\ Vouched \subseteq Sessions /\ StreamTypes /\ NoticesOK
  BY DEF OpencodeInv, LinesOK, Vouched
<1>2. CASE pending = None
  <2>1. UNCHANGED <<shown, notifiable, rises, notices, reports, restarts>>
    BY <1>2 DEF Dispatched, told
  <2>2. NoticesOK'
    BY <1>1, <2>1 DEF NoticesOK, isNotifiable, StateAt
  <2> QED BY <1>1, <1>2, <2>1, <2>2, NamesApart DEF StreamTypes
<1>3. CASE pending \in Events
  <2>1. pending.session \in Sessions /\ pending.n \in Nat /\ Handle(pending)
    BY <1>3, NamesApart DEF Dispatched, Events
  <2>2. CASE IsSignal(reports[pending.session][pending.n])
    <3>1. Emit(pending.session, pending.n)
      BY <2>1, <2>2 DEF Handle
    <3> QED BY <1>1, <1>3, <2>1, <2>2, <3>1, EmitKeepsNotices
  <2>3. CASE ~ IsSignal(reports[pending.session][pending.n])
    <3>1. Refresh(Vouched)
      BY <2>1, <2>3 DEF Handle
    <3>2. /\ NoticesOK' /\ shown' = shown /\ rises' = rises
          /\ notices' \in [Sessions -> Nat] /\ notifiable' \in [Sessions -> BOOLEAN]
      BY <1>1, <3>1, RefreshKeepsNotices
    <3> QED BY <1>1, <2>3, <3>2 DEF StreamTypes
  <2> QED BY <2>2, <2>3
<1> QED BY <1>1, <1>2, <1>3

-----------------------------------------------------------------------------
(* Opencode: the steps.                                                    *)

LEMMA InitEstablishesOpencodeInv == OpencodeInit => OpencodeInv
<1> SUFFICES ASSUME OpencodeInit PROVE OpencodeInv
  OBVIOUS
<1>1. StreamTypes
  BY BoundsAssumption DEF OpencodeInit, StreamTypes, Silent
<1>2. NoticesOK
  BY DEF OpencodeInit, NoticesOK, isNotifiable, StateAt
<1>3. /\ pending = None /\ wire = << >>
      /\ \A s \in Sessions : Len(reports[s]) \in Nat /\ shown[s] <= Len(reports[s]) /\ said[s] = 0
      /\ shown \in [Sessions -> Nat] /\ said \in [Sessions -> Nat]
  BY DEF OpencodeInit, Silent
<1>4. /\ LinesOK(None, << >>, stream, reports)
      /\ SaidOK(None, << >>, reports, shown, said)
  BY <1>3, EmptyLines
<1> QED BY <1>1, <1>2, <1>3, <1>4 DEF OpencodeInv

\* Steps that clear the lines, and what was said with them.
LEMMA ClearedLinesAreOK ==
    ASSUME OpencodeInv, pending' = None, wire' = << >>, said' = Silent,
           UNCHANGED <<reports, shown>>
    PROVE  /\ LinesOK(pending', wire', stream', reports')
           /\ SaidOK(pending', wire', reports', shown', said')
<1>1. /\ \A s \in Sessions : said'[s] = 0
      /\ \A s \in Sessions : Len(reports[s]) \in Nat /\ shown[s] <= Len(reports[s])
      /\ shown \in [Sessions -> Nat] /\ said' \in [Sessions -> Nat]
  BY DEF Silent, OpencodeInv, StreamTypes, SaidOK
<1>2. /\ LinesOK(None, << >>, stream', reports)
      /\ SaidOK(None, << >>, reports, shown, said')
  BY <1>1, EmptyLines
<1> QED BY <1>2

LEMMA NoticesStay ==
    ASSUME StreamTypes, NoticesOK, UNCHANGED <<reports, told, restarts>>
    PROVE  NoticesOK'
BY DEF NoticesOK, isNotifiable, StateAt, told

LEMMA ConnectionKeepsOpencodeInv ==
    ASSUME OpencodeInv, Connects \/ StreamBreaks \/ HubStops
    PROVE  OpencodeInv' /\ NeverBack
<1>1. /\ pending' = None /\ wire' = << >> /\ said' = Silent
      /\ UNCHANGED <<reports, told, restarts>>
  <2>1. conn = "fetching" => pending = None /\ wire = << >>
    BY DEF OpencodeInv, StreamTypes
  <2> QED BY <2>1 DEF Connects, StreamBreaks, HubStops, NoStream, told
<1>2. /\ LinesOK(pending', wire', stream', reports')
      /\ SaidOK(pending', wire', reports', shown', said')
  BY <1>1, ClearedLinesAreOK DEF told
<1>3. NoticesOK'
  BY <1>1, NoticesStay DEF OpencodeInv
<1>4. StreamTypes'
  <2>1. StreamTypes /\ said' \in [Sessions -> Nat]
    BY <1>1 DEF OpencodeInv, Silent
  <2>2. CASE Connects
    BY <1>1, <2>1, <2>2 DEF Connects, StreamTypes, told
  <2>3. CASE StreamBreaks
    BY <1>1, <2>1, <2>3, BoundsAssumption DEF StreamBreaks, NoStream, StreamTypes, told
  <2>4. CASE HubStops
    <3>1. hub' \in BOOLEAN /\ (hub' <=> conn' # "stopped")
      BY <2>4 DEF HubStops
    <3>2. breaks' \in 0 .. MaxBreaks
      BY <2>1, <2>4, BoundsAssumption DEF HubStops, StreamTypes
    <3>3. /\ conn' = "stopped" /\ stream' = "none" /\ wire' = << >> /\ pending' = None
          /\ UNCHANGED <<server, reports, told, restarts>>
      BY <2>4 DEF HubStops, NoStream
    <3> QED BY <2>1, <3>1, <3>2, <3>3 DEF StreamTypes, told
  <2> QED BY <2>2, <2>3, <2>4
<1>5. NeverBack
  BY <1>1 DEF NeverBack, told, OpencodeInv, StreamTypes
<1> QED BY <1>2, <1>3, <1>4, <1>5 DEF OpencodeInv

\* Steps that touch neither the lines nor the reports nor the items.
LEMMA IdleStepsKeepOpencodeInv ==
    ASSUME OpencodeInv, ServerStarts \/ TimerFires \/ HubStarts \/ UNCHANGED vars
    PROVE  OpencodeInv' /\ NeverBack
<1>1. UNCHANGED <<pending, wire, stream, reports, shown, said, rises, notices, breaks>>
  BY DEF ServerStarts, TimerFires, HubStarts, vars, serverVars, clientVars, told
<1>2. /\ LinesOK(pending', wire', stream', reports')
      /\ SaidOK(pending', wire', reports', shown', said')
  BY <1>1 DEF OpencodeInv
<1>3. StreamTypes'
  <2>1. StreamTypes
    BY DEF OpencodeInv
  <2>2. CASE ServerStarts
    BY <1>1, <2>1, <2>2 DEF ServerStarts, clientVars, told, StreamTypes
  <2>3. CASE TimerFires
    BY <1>1, <2>1, <2>3 DEF TimerFires, serverVars, told, StreamTypes
  <2>4. CASE HubStarts
    <3>1. /\ hub' \in BOOLEAN /\ (hub' <=> conn' # "stopped") /\ conn' = "fetching"
          /\ notifiable' \in [Sessions -> BOOLEAN] /\ restarts' = restarts + 1
          /\ server' = server /\ ~ hub
      BY <2>4 DEF HubStarts, serverVars
    <3>2. conn = "stopped"
      BY <2>1, <3>1 DEF StreamTypes
    <3> QED BY <1>1, <2>1, <3>1, <3>2 DEF StreamTypes
  <2>5. CASE UNCHANGED vars
    BY <2>1, <2>5 DEF vars, serverVars, clientVars, told, StreamTypes
  <2> QED BY <2>2, <2>3, <2>4, <2>5
<1>4. NoticesOK'
  <2>1. CASE ServerStarts \/ TimerFires \/ UNCHANGED vars
    BY <2>1, NoticesStay
       DEF ServerStarts, TimerFires, vars, serverVars, clientVars, told, OpencodeInv
  <2>2. CASE HubStarts
    <3>1. /\ \A s \in Sessions : ~ notifiable'[s]
          /\ restarts' = restarts + 1 /\ restarts \in Nat
      BY <2>2 DEF HubStarts, OpencodeInv, StreamTypes
    <3>2. ASSUME NEW s \in Sessions
          PROVE  /\ rises'[s] <= notices'[s]
                 /\ notices'[s] + (IF isNotifiable(s, shown[s])' /\ ~ notifiable'[s]
                                   THEN 1 ELSE 0) <= rises'[s] + restarts'
      <4>1. /\ rises[s] <= notices[s] /\ rises[s] \in Nat /\ notices[s] \in Nat
            /\ notices[s] + (IF isNotifiable(s, shown[s]) /\ ~ notifiable[s] THEN 1 ELSE 0)
                  <= rises[s] + restarts
        BY DEF OpencodeInv, NoticesOK, StreamTypes
      <4>2. notices[s] <= rises[s] + restarts
        BY <3>1, <4>1
      <4> QED BY <1>1, <3>1, <4>1, <4>2
    <3> QED BY <3>1, <3>2 DEF NoticesOK
  <2> QED BY <2>1, <2>2
<1>5. NeverBack
  BY <1>1 DEF NeverBack, OpencodeInv, StreamTypes
<1> QED BY <1>2, <1>3, <1>4, <1>5 DEF OpencodeInv

LEMMA TickKeepsOpencodeInv ==
    ASSUME OpencodeInv, NEW s \in Sessions, Ticks(s)
    PROVE  OpencodeInv' /\ NeverBack
<1>1. /\ Refresh({s}) /\ {s} \in SUBSET Sessions
      /\ UNCHANGED <<server, reports, stream, wire, hub, conn, pending, breaks, said, restarts>>
  BY DEF Ticks, serverVars, clientVars
<1>2. /\ NoticesOK' /\ shown' = shown /\ rises' = rises
      /\ notices' \in [Sessions -> Nat] /\ notifiable' \in [Sessions -> BOOLEAN]
  BY <1>1, RefreshKeepsNotices DEF OpencodeInv
<1>3. StreamTypes'
  BY <1>1, <1>2 DEF OpencodeInv, StreamTypes
<1>4. NeverBack
  BY <1>2 DEF NeverBack, OpencodeInv, StreamTypes
<1> QED BY <1>1, <1>2, <1>3, <1>4 DEF OpencodeInv

LEMMA ServerEndKeepsOpencodeInv ==
    ASSUME OpencodeInv, NEW cut \in BOOLEAN, NEW stays \in BOOLEAN, ServerEnds(cut, stays)
    PROVE  OpencodeInv' /\ NeverBack
<1>1. UNCHANGED <<reports, hub, conn, pending, shown, notifiable, rises, notices, said, restarts>>
  BY DEF ServerEnds, clientVars, told
<1>2. /\ LinesOK(pending, wire', stream', reports)
      /\ SaidOK(pending, wire', reports, shown, said)
  <2>1. /\ LinesOK(pending, wire, stream, reports)
        /\ SaidOK(pending, wire, reports, shown, said)
        /\ shown \in [Sessions -> Nat] /\ said \in [Sessions -> Nat]
    BY DEF OpencodeInv, StreamTypes
  <2>2. CASE stream = "open"
    <3>1. stream' = "ended" /\ (wire' = wire \/ (wire # << >> /\ wire' = Front(wire)))
      BY <2>2 DEF ServerEnds
    <3>3. LinesOK(pending, wire, "open", reports)
      BY <2>1, <2>2
    <3>4. /\ LinesOK(pending, wire', "ended", reports)
          /\ SaidOK(pending, wire', reports, shown, said)
      BY <2>1, <3>1, <3>3, LinesAreCut
    <3> QED BY <3>1, <3>4
  <2>3. CASE stream # "open"
    <3>1. stream' = stream /\ wire' = wire
      BY <2>3 DEF ServerEnds
    <3> QED BY <2>1, <3>1
  <2> QED BY <2>2, <2>3
<1>3. StreamTypes'
  <2>1. StreamTypes /\ server' \in BOOLEAN
    BY DEF OpencodeInv, ServerEnds
  <2>2. breaks' \in 0 .. MaxBreaks
    BY <2>1, BoundsAssumption DEF ServerEnds, StreamTypes
  <2>3. /\ stream' \in {"none", "open", "ended"} /\ (stream' = "none" <=> stream = "none")
        /\ conn # "reading" => wire' = wire
    BY <2>1 DEF ServerEnds, StreamTypes
  <2> QED BY <1>1, <2>1, <2>2, <2>3 DEF StreamTypes
<1>4. NoticesOK'
  BY <1>1, NoticesStay DEF OpencodeInv, told
<1>5. NeverBack
  BY <1>1 DEF NeverBack, OpencodeInv, StreamTypes
<1> QED BY <1>1, <1>2, <1>3, <1>4, <1>5 DEF OpencodeInv

LEMMA ReportKeepsOpencodeInv ==
    ASSUME OpencodeInv, NEW s \in Sessions, NEW text \in Texts, Reports(s, text)
    PROVE  OpencodeInv' /\ NeverBack
<1>1. /\ reports' = [reports EXCEPT ![s] = Append(@, text)]
      /\ UNCHANGED <<server, stream, hub, conn, pending, shown, notifiable, rises, notices,
                     breaks, restarts>>
  BY DEF Reports, clientVars, told
<1> DEFINE n == Len(reports'[s])
<1>2. /\ reports' \in [Sessions -> Seq(Texts)] /\ Extends(reports', reports)
      /\ n = Len(reports[s]) + 1 /\ reports'[s][n] = text /\ n \in Nat /\ Len(reports[s]) \in Nat
  <2>1. reports \in [Sessions -> Seq(Texts)]
    BY DEF OpencodeInv, StreamTypes
  <2>2. \A x \in Sessions : reports'[x] = IF x = s THEN Append(reports[s], text) ELSE reports[x]
    BY <1>1, <2>1
  <2>3. reports[s] \in Seq(Texts) /\ Append(reports[s], text) \in Seq(Texts)
        /\ Len(Append(reports[s], text)) = Len(reports[s]) + 1
        /\ Append(reports[s], text)[Len(reports[s]) + 1] = text
        /\ \A k \in 1 .. Len(reports[s]) : Append(reports[s], text)[k] = reports[s][k]
    BY <2>1
  <2>4. reports' \in [Sessions -> Seq(Texts)]
    BY <1>1, <2>1, <2>3
  <2>5. \A x \in Sessions : Len(reports[x]) \in Nat
    BY <2>1
  <2> QED BY <2>2, <2>3, <2>4, <2>5 DEF Extends
<1>3. /\ LinesOK(pending, wire, stream, reports)
      /\ SaidOK(pending, wire, reports, shown, said)
      /\ shown \in [Sessions -> Nat] /\ said \in [Sessions -> Nat]
  BY DEF OpencodeInv, StreamTypes
<1>4. /\ LinesOK(pending, wire, stream, reports')
      /\ SaidOK(pending, wire, reports', shown, said)
  BY <1>2, <1>3, LinesSurvive
<1>5. /\ LinesOK(pending, wire', stream, reports')
      /\ SaidOK(pending, wire', reports', shown, said')
      /\ said' \in [Sessions -> Nat]
  <2>1. CASE stream = "open"
    <3>1. /\ wire' = wire \o <<Event(s, n), Blank>>
          /\ said' = IF IsSignal(text) THEN [said EXCEPT ![s] = n] ELSE said
      BY <2>1 DEF Reports
    <3>2. said' \in [Sessions -> Nat]
      BY <1>2, <1>3, <3>1
    <3>3. shown[s] < n /\ said[s] < n
      <4>1. shown[s] <= Len(reports[s]) /\ said[s] <= Len(reports[s])
        BY <1>3 DEF SaidOK
      <4> QED BY <1>2, <1>3, <4>1
    <3>4. \A i \in 0 .. Len(wire) :
             Line(pending, wire, i) \in Events /\ Line(pending, wire, i).session = s
                => Line(pending, wire, i).n < n
      <4> SUFFICES ASSUME NEW i \in 0 .. Len(wire), Line(pending, wire, i) \in Events,
                          Line(pending, wire, i).session = s
                   PROVE  Line(pending, wire, i).n < n
        OBVIOUS
      <4>1. Line(pending, wire, i).n \in 1 .. Len(reports[s])
        BY <1>3 DEF LinesOK
      <4> QED BY <1>2, <4>1
    <3>6. /\ LinesOK(pending, wire, "open", reports')
          /\ n = Len(reports'[s]) /\ n # 0 /\ n \in Nat
      <4>1. LinesOK(pending, wire, "open", reports')
        BY <1>4, <2>1
      <4>2. n = Len(reports[s]) + 1 /\ Len(reports[s]) \in Nat
        BY <1>2
      <4>3. n # 0 /\ n \in Nat
        BY <4>2
      <4>4. n = Len(reports'[s])
        OBVIOUS
      <4> QED BY <4>1, <4>3, <4>4, Zenon
    <3>7. said' = IF IsSignal(reports'[s][n]) THEN [said EXCEPT ![s] = n] ELSE said
      BY <1>2, <3>1
    <3> HIDE DEF n
    <3>8. /\ LinesOK(pending, wire \o <<Event(s, n), Blank>>, "open", reports')
          /\ SaidOK(pending, wire \o <<Event(s, n), Blank>>, reports', shown, said')
      BY <1>2, <1>3, <1>4, <3>3, <3>4, <3>6, <3>7, LinesGrow
    <3> QED BY <2>1, <3>1, <3>2, <3>8
  <2>2. CASE stream # "open"
    BY <1>3, <1>4, <2>2 DEF Reports
  <2> QED BY <2>1, <2>2
<1>6. StreamTypes'
  <2>1. conn # "reading" => wire' = wire
    BY DEF Reports, OpencodeInv, StreamTypes
  <2> QED BY <1>1, <1>2, <1>5, <2>1 DEF OpencodeInv, StreamTypes
<1>7. NoticesOK'
  <2>1. ASSUME NEW x \in Sessions
        PROVE  isNotifiable(x, shown[x])' = isNotifiable(x, shown[x])
    <3>1. shown[x] \in Nat /\ shown[x] <= Len(reports[x])
      BY <1>3 DEF SaidOK
    <3>2. shown[x] # 0 => reports'[x][shown[x]] = reports[x][shown[x]]
      BY <1>2, <3>1 DEF Extends
    <3>3. StateAt(x, shown[x])' = StateAt(x, shown[x])
      <4>1. CASE shown[x] = 0
        BY <1>1, <4>1 DEF StateAt
      <4>2. CASE shown[x] # 0
        <5>1. StateAt(x, shown[x]) = mapEvent(reports[x][shown[x]])
          BY <4>2 DEF StateAt
        <5>2. StateAt(x, shown[x])' = mapEvent(reports'[x][shown[x]])
          BY <1>1, <4>2 DEF StateAt
        <5> QED BY <3>2, <4>2, <5>1, <5>2
      <4> QED BY <4>1, <4>2
    <3> QED BY <3>3 DEF isNotifiable
  <2> QED BY <1>1, <2>1 DEF OpencodeInv, NoticesOK
<1>8. NeverBack
  BY <1>1 DEF NeverBack, OpencodeInv, StreamTypes
<1> QED BY <1>1, <1>5, <1>6, <1>7, <1>8 DEF OpencodeInv

\* A line is handled, and the one after it moves up or the stream is over.
LEMMA DispatchKeepsLines ==
    ASSUME OpencodeInv, Dispatched, pending' = None, UNCHANGED <<reports, said, restarts>>,
           \/ wire # << >> /\ Head(wire) = Blank /\ wire' = Tail(wire) /\ stream' = stream
           \/ wire = << >> /\ wire' = << >>
    PROVE  /\ LinesOK(pending', wire', stream', reports')
           /\ SaidOK(pending', wire', reports', shown', said')
           /\ shown' \in [Sessions -> Nat] /\ NeverBack
<1>1. /\ LinesOK(pending, wire, stream, reports)
      /\ SaidOK(pending, wire, reports, shown, said)
      /\ shown \in [Sessions -> Nat] /\ said \in [Sessions -> Nat]
      /\ \A s \in Sessions : Len(reports[s]) \in Nat
  BY DEF OpencodeInv, StreamTypes
<1>2. shown' = IF pending \in Events /\ IsSignal(reports[pending.session][pending.n])
               THEN [shown EXCEPT ![pending.session] = pending.n] ELSE shown
  BY DispatchKeepsNotices
<1>3. /\ wire # << >> => Head(wire) = Blank /\ wire' = Tail(wire) /\ stream' = stream
      /\ wire = << >> => wire' = << >>
  OBVIOUS
<1>4. MovesUp(wire, stream, wire', stream') /\ shown' = ShownOnce(pending, reports, shown)
  BY <1>2, <1>3 DEF MovesUp, ShownOnce
<1>5. /\ LinesOK(None, wire', stream', reports) /\ SaidOK(None, wire', reports, shown', said)
      /\ shown' \in [Sessions -> Nat] /\ \A s \in Sessions : shown[s] <= shown'[s]
  BY <1>1, <1>4, KeptIsHandled
<1>6. NeverBack
  BY <1>1, <1>5 DEF NeverBack
<1> QED BY <1>5, <1>6

LEMMA ReadingKeepsOpencodeInv ==
    ASSUME OpencodeInv, ReadsLine \/ StreamEnds
    PROVE  OpencodeInv' /\ NeverBack
<1>1. UNCHANGED <<server, reports, hub, breaks, said, restarts>> /\ conn = "reading"
  BY DEF ReadsLine, StreamEnds
<1>2. StreamTypes /\ NoticesOK
  BY DEF OpencodeInv
<1>3. CASE ReadsLine /\ Head(wire) # Blank
  <2>1. /\ wire # << >> /\ wire' = Tail(wire) /\ pending' = Head(wire)
        /\ UNCHANGED <<told, stream, conn>>
    BY <1>3 DEF ReadsLine
  <2>2. /\ shown \in [Sessions -> Nat] /\ said \in [Sessions -> Nat]
        /\ LinesOK(pending, wire, stream, reports)
        /\ SaidOK(pending, wire, reports, shown, said)
    BY DEF OpencodeInv, StreamTypes
  <2>3. /\ LinesOK(Head(wire), Tail(wire), stream, reports)
        /\ SaidOK(Head(wire), Tail(wire), reports, shown, said)
    BY <1>3, <2>1, <2>2, LineIsKept
  <2>4. /\ LinesOK(pending', wire', stream', reports')
        /\ SaidOK(pending', wire', reports', shown', said')
    BY <1>1, <2>1, <2>3 DEF told
  <2>5. StreamTypes' /\ NeverBack
    BY <1>1, <1>2, <2>1 DEF StreamTypes, NeverBack, told
  <2>6. NoticesOK'
    BY <1>1, <1>2, <2>1, NoticesStay
  <2> QED BY <2>4, <2>5, <2>6 DEF OpencodeInv
<1>4. CASE (ReadsLine /\ Head(wire) = Blank) \/ StreamEnds
  <2>1. /\ Dispatched /\ pending' = None
        /\ \/ /\ wire # << >> /\ Head(wire) = Blank /\ wire' = Tail(wire)
              /\ stream' = stream /\ conn' = conn
           \/ wire = << >> /\ wire' = << >> /\ stream' = "none" /\ conn' = "waiting"
    BY <1>4 DEF ReadsLine, StreamEnds, NoStream, Dispatched
  <2>2. /\ LinesOK(pending', wire', stream', reports')
        /\ SaidOK(pending', wire', reports', shown', said')
        /\ shown' \in [Sessions -> Nat] /\ NeverBack
    BY <1>1, <2>1, DispatchKeepsLines
  <2>3. /\ NoticesOK'
        /\ rises' \in [Sessions -> Nat] /\ notices' \in [Sessions -> Nat]
        /\ notifiable' \in [Sessions -> BOOLEAN]
    BY <1>1, <2>1, DispatchKeepsNotices
  <2>4. StreamTypes'
    BY <1>1, <1>2, <2>1, <2>2, <2>3 DEF StreamTypes
  <2> QED BY <2>2, <2>3, <2>4 DEF OpencodeInv
<1> QED BY <1>3, <1>4

LEMMA NextKeepsOpencodeInv ==
    OpencodeInv /\ [OpencodeNext]_vars => OpencodeInv' /\ NeverBack
<1> SUFFICES ASSUME OpencodeInv, [OpencodeNext]_vars PROVE OpencodeInv' /\ NeverBack
  OBVIOUS
<1>1. CASE \E s \in Sessions, text \in Texts : Reports(s, text)
  BY <1>1, ReportKeepsOpencodeInv
<1>2. CASE \E cut \in BOOLEAN, stays \in BOOLEAN : ServerEnds(cut, stays)
  BY <1>2, ServerEndKeepsOpencodeInv
<1>3. CASE Connects \/ StreamBreaks \/ HubStops
  BY <1>3, ConnectionKeepsOpencodeInv
<1>4. CASE ReadsLine \/ StreamEnds
  BY <1>4, ReadingKeepsOpencodeInv
<1>5. CASE ServerStarts \/ TimerFires \/ HubStarts \/ UNCHANGED vars
  BY <1>5, IdleStepsKeepOpencodeInv
<1>6. CASE \E s \in Sessions : Ticks(s)
  BY <1>6, TickKeepsOpencodeInv
<1> QED BY <1>1, <1>2, <1>3, <1>4, <1>5, <1>6 DEF OpencodeNext, Client

\* Whatever breaks, and wherever a stream is cut, the item shows what the stream
\* said last once it is read, and each rise is pushed once unless the Hub was
\* restarted (readEventStream in sse.ts, maybeNotify in adapter-ntfy).
THEOREM OpencodeHeardIsShown == OpencodeSpec => []HeardIsShown
<1> QED
  BY OpencodeInvIsEnough, InitEstablishesOpencodeInv, NextKeepsOpencodeInv, PTL DEF OpencodeSpec

\* No item goes back to an earlier report of its session, over any reconnection
\* (the safety half of FollowsTheServer; SseClient and mapEvent).
THEOREM OpencodeNeverGoesBack == OpencodeSpec => [][NeverBack]_shown
<1>1. OpencodeInv /\ [OpencodeNext]_vars => [NeverBack]_shown
  BY NextKeepsOpencodeInv
<1> QED
  BY <1>1, InitEstablishesOpencodeInv, NextKeepsOpencodeInv, PTL DEF OpencodeSpec

-----------------------------------------------------------------------------
(* GithubPoll.                                                             *)

\* An entry of the cache, as one that a fetch was begun with, pairs each tag with
\* what it tags; so an answer to If-None-Match never yields anything stale.
Cached == {e \in Entry : e.runsTag = e.runs /\ e.statusesTag = e.statuses} \cup {Missing}

\* A fetch of checks, in its poll or beside one.
FetchOK(f) ==
    /\ {"head", "cached", "runs", "statuses"} \subseteq DOMAIN f
    /\ f.head \in Heads /\ f.cached \in Cached
    /\ f.runs \in Verdicts \cup {Missing} /\ f.statuses \in Verdicts \cup {Missing}

JobOK(j) ==
    /\ DOMAIN j = DOMAIN NoJob
    /\ j.stage \in {"none", "queued", "pull", "details", "done", "failed"}
    /\ j.head \in Heads \cup {Missing} /\ j.cached \in Cached
    /\ j.runs \in Verdicts \cup {Missing} /\ j.statuses \in Verdicts \cup {Missing}
    /\ j.stage # "none" => j.matches # {}
    /\ j.stage \in {"none", "queued", "pull"} =>
          j.head = Missing /\ j.runs = Missing /\ j.statuses = Missing /\ j.approved = Missing
    /\ j.stage = "details" => Followed(j.matches) /\ j.head \in Heads /\ Incomplete(j)
    /\ j.stage = "done" =>
          /\ j.head \in Heads
          /\ IF Followed(j.matches) THEN ~ Incomplete(j)
             ELSE j.runs = "none" /\ j.statuses = "none" /\ j.approved = FALSE

\* What a job says was true of its pull request (its pictures) or of its head at
\* some moment that is held.
Honest(j, pictures, checks) ==
    /\ j.matches \subseteq UNION {v.roles : v \in pictures}
    /\ j.head # Missing =>
          /\ \E v \in pictures : v.head = j.head /\ v.mergeable = j.mergeable
          /\ j.approved # Missing /\ Followed(j.matches) =>
                \E v \in pictures : j.approved = isApprovedByReviews(v.reviews)
          /\ j.runs # Missing /\ Followed(j.matches) =>
                \E c \in checks[j.head] : j.runs = c.runs
          /\ j.statuses # Missing /\ Followed(j.matches) =>
                \E c \in checks[j.head] : j.statuses = c.statuses

JobsOK(jobs, pictures, checks) ==
    /\ DOMAIN jobs = Pulls
    /\ \A p \in Pulls : JobOK(jobs[p]) /\ Honest(jobs[p], pictures[p], checks)

\* The records that one of the workers has in hand.
Active(jobs) == {p \in Pulls : jobs[p].stage \in {"pull", "details"}}

WorkersOK ==
    /\ Cardinality(Active(job)) <= Concurrency
    /\ query # 0 => \A p \in Pulls : job[p].stage = "none"
    /\ query \in 0 .. Len(Queries)
    /\ ~ polling => query = 0 /\ job = NoJobs

\* What is true now is held, of every head, and of every pull request that is
\* open or has been found: one that is closed stays as it is.
Current(jobs) ==
    /\ \A p \in Pulls : p \in open \/ jobs[p].matches # {} => picture[p] \in held.pulls[p]
    /\ \A h \in Heads : ci[h] \in held.ci[h]

SourceOK ==
    /\ open \subseteq Pulls /\ ci \in [Heads -> Check]
    /\ picture \in [Pulls -> Picture]

ItemsOK ==
    \A p \in Pulls : \/ pullItem[p] = Unreported \/ actionsByItem[p] = {}
                     \/ actionsByItem[p] = pullItem[p].actions

GithubInv ==
    /\ SourceOK /\ WorkersOK /\ ItemsOK
    /\ polling => Current(job)
    /\ JobsOK(job, held.pulls, held.ci)
    /\ cache \in [Heads -> Cached]
    /\ \A f \in strays : FetchOK(f)

-----------------------------------------------------------------------------
(* Jobs, workers and fetches.                                              *)

LEMMA NothingIsKnown ==
    ASSUME NEW pictures, NEW checks
    PROVE  JobOK(NoJob) /\ Honest(NoJob, pictures, checks) /\ DOMAIN NoJobs = Pulls
           /\ JobsOK(NoJobs, pictures, checks) /\ Active(NoJobs) = {}
<1>1. JobOK(NoJob) /\ NoJob.stage = "none" /\ \A seen : Honest(NoJob, seen, checks)
  BY DEF JobOK, Honest, NoJob, Cached
<1> HIDE DEF NoJob
<1> QED BY <1>1 DEF JobsOK, NoJobs, Active

\* More may be held.
LEMMA StaysHonest ==
    ASSUME NEW j, JobOK(j), NEW P1, NEW P2, NEW C1, NEW C2, Honest(j, P1, C1),
           P1 \subseteq P2, \A h \in Heads : C1[h] \subseteq C2[h]
    PROVE  Honest(j, P2, C2)
<1>1. j.matches \subseteq UNION {v.roles : v \in P2}
  BY DEF Honest
<1> QED BY <1>1 DEF Honest, JobOK

\* A job is replaced.
LEMMA OneJob ==
    ASSUME NEW jobs, NEW pictures, NEW checks, JobsOK(jobs, pictures, checks),
           NEW p \in Pulls, NEW j, JobOK(j), Honest(j, pictures[p], checks),
           NEW jobs2, jobs2 = [jobs EXCEPT ![p] = j]
    PROVE  JobsOK(jobs2, pictures, checks)
BY DEF JobsOK

\* The workers are finitely many.
LEMMA WorkersAreFinite ==
    ASSUME NEW jobs
    PROVE  IsFiniteSet(Active(jobs)) /\ Cardinality(Active(jobs)) \in Nat
BY PullsAssumption, FS_Subset, FS_CardinalityType DEF Active

\* One that ends its record is free.
LEMMA WorkerIsFree ==
    ASSUME NEW jobs, DOMAIN jobs = Pulls, NEW p \in Active(jobs), NEW j,
           j.stage \notin {"pull", "details"}
    PROVE  Cardinality(Active([jobs EXCEPT ![p] = j])) + 1 <= Cardinality(Active(jobs))
<1> DEFINE rest == Active([jobs EXCEPT ![p] = j])
<1>1. rest = Active(jobs) \ {p} /\ p \in Pulls
  BY DEF Active
<1>2. Cardinality(Active(jobs) \ {p}) = Cardinality(Active(jobs)) - 1
  BY WorkersAreFinite, FS_RemoveElement
<1>3. Cardinality(Active(jobs)) \in Nat
  BY WorkersAreFinite
<1>4. Cardinality(rest) = Cardinality(Active(jobs)) - 1
  BY <1>1, <1>2, Zenon
<1> HIDE DEF rest
<1>5. Cardinality(rest) + 1 <= Cardinality(Active(jobs))
  BY <1>3, <1>4
<1> QED BY <1>5 DEF rest

\* And takes another at most.
LEMMA WorkerTakes ==
    ASSUME NEW jobs, DOMAIN jobs = Pulls, NEW q \in Pulls, NEW j
    PROVE  Cardinality(Active([jobs EXCEPT ![q] = j])) <= Cardinality(Active(jobs)) + 1
<1> DEFINE more == Active([jobs EXCEPT ![q] = j])
<1>1. more \subseteq Active(jobs) \cup {q}
  BY DEF Active
<1>2. /\ IsFiniteSet(Active(jobs) \cup {q})
      /\ Cardinality(Active(jobs) \cup {q}) <= Cardinality(Active(jobs)) + 1
  BY WorkersAreFinite, FS_AddElement
<1>3. Cardinality(more) <= Cardinality(Active(jobs) \cup {q})
  BY <1>1, <1>2, FS_Subset
<1>4. Cardinality(Active(jobs) \cup {q}) \in Nat
  BY <1>2, FS_CardinalityType
<1> QED BY <1>2, <1>3, <1>4, WorkersAreFinite

\* Whatever the cache says, an answer says what is true when it is given.
LEMMA AnswersAreCurrent ==
    ASSUME NEW f, FetchOK(f), SourceOK
    PROVE  /\ RunsOf(f) = ci[f.head].runs /\ RunsOf(f) \in Verdicts
           /\ StatusesOf(f) = ci[f.head].statuses /\ StatusesOf(f) \in Verdicts
<1>1. ci[f.head] \in Check
  BY DEF FetchOK, SourceOK
<1>2. ci[f.head].runs \in Verdicts /\ ci[f.head].statuses \in Verdicts
  BY <1>1 DEF Check
<1> QED BY <1>2 DEF FetchOK, RunsOf, StatusesOf, Conditional, Cached

\* One answer to a fetch, and what it then writes to the cache.
LEMMA FetchGoesOn ==
    ASSUME NEW f, FetchOK(f), SourceOK, cache \in [Heads -> Cached], NEW g \in Fetches(f)
    PROVE  /\ FetchOK(g) /\ Stored(g) \in [Heads -> Cached]
           /\ \/ g = [f EXCEPT !.runs = ci[f.head].runs]
              \/ g = [f EXCEPT !.statuses = ci[f.head].statuses]
<1>1. /\ \/ g = [f EXCEPT !.runs = ci[f.head].runs] /\ ci[f.head].runs \in Verdicts
         \/ g = [f EXCEPT !.statuses = ci[f.head].statuses] /\ ci[f.head].statuses \in Verdicts
  BY AnswersAreCurrent DEF Fetches
<1>2. FetchOK(g)
  BY <1>1 DEF FetchOK
<1>3. ~ Unchecked(g) => [runsTag |-> g.runs, runs |-> g.runs,
                         statusesTag |-> g.statuses, statuses |-> g.statuses] \in Cached
  BY <1>2 DEF FetchOK, Cached, Entry, Unchecked
<1>4. Stored(g) \in [Heads -> Cached]
  BY <1>2, <1>3 DEF Stored, FetchOK
<1> QED BY <1>1, <1>2, <1>4

-----------------------------------------------------------------------------
(* The initial states, and GitHub.                                         *)

LEMMA InitEstablishesGithubInv ==
    ASSUME GithubInit
    PROVE  GithubInv
<1>1. SourceOK
  <2>1. \A p \in Pulls : picture[p] \in Picture
    BY PicturesAssumption DEF GithubInit
  <2>2. \A h \in Heads : ci[h] \in Check
    BY ChecksAssumption DEF GithubInit
  <2> QED BY <2>1, <2>2 DEF SourceOK, GithubInit
<1>2. job = NoJobs /\ query = 0 /\ polling = FALSE
  BY DEF GithubInit
<1>3. WorkersOK
  <2>1. Active(job) = {} /\ Cardinality(Active(job)) = 0
    BY <1>2, NothingIsKnown, FS_EmptySet
  <2>2. Len(Queries) \in Nat
    BY DEF Queries
  <2> QED BY <1>2, <2>1, <2>2, ConcurrencyAssumption DEF WorkersOK
<1>4. JobsOK(job, held.pulls, held.ci)
  BY <1>2, NothingIsKnown
<1>5. ItemsOK /\ cache \in [Heads -> Cached] /\ \A f \in strays : FetchOK(f)
  BY DEF GithubInit, ItemsOK, Cached
<1> QED BY <1>1, <1>2, <1>3, <1>4, <1>5 DEF GithubInv

\* What changes is held from then on.
LEMMA ChangeKeepsGithubInv ==
    ASSUME GithubInv, NEW STATE pulls, NEW STATE checks, Change(pulls, checks), SourceOK',
           \A p \in Pulls : p \in open' \/ job[p].matches # {} =>
                \/ picture'[p] \in pulls[p]
                \/ picture'[p] = picture[p] /\ (p \in open \/ job[p].matches # {}),
           \A h \in Heads : ci'[h] \in {ci[h]} \cup checks[h]
    PROVE  GithubInv'
<1>1. UNCHANGED <<published, cache, polling, query, job, strays>>
  BY DEF Change
<1>2. /\ \A p \in Pulls : held.pulls[p] \subseteq held'.pulls[p]
      /\ \A h \in Heads : held.ci[h] \subseteq held'.ci[h]
      /\ polling => /\ \A p \in Pulls : pulls[p] \subseteq held'.pulls[p]
                    /\ \A h \in Heads : checks[h] \subseteq held'.ci[h]
  <2>1. CASE polling
    <3>1. held' = [pulls |-> [p \in Pulls |-> held.pulls[p] \cup pulls[p]],
                   ci |-> [h \in Heads |-> held.ci[h] \cup checks[h]]]
      BY <2>1 DEF Change
    <3> QED BY <3>1
  <2>2. CASE ~ polling
    BY <2>2 DEF Change
  <2> QED BY <2>1, <2>2
<1>3. JobsOK(job', held'.pulls, held'.ci)
  <2>1. ASSUME NEW p \in Pulls
        PROVE  JobOK(job[p]) /\ Honest(job[p], held'.pulls[p], held'.ci)
    <3>1. JobOK(job[p]) /\ Honest(job[p], held.pulls[p], held.ci)
      BY DEF GithubInv, JobsOK
    <3> QED BY <1>2, <3>1, StaysHonest
  <2> QED BY <1>1, <2>1 DEF GithubInv, JobsOK
<1>4. polling' => Current(job)'
  BY <1>1, <1>2 DEF GithubInv, Current
<1>5. WorkersOK' /\ ItemsOK'
  BY <1>1 DEF GithubInv, WorkersOK, ItemsOK, published
<1>6. cache' \in [Heads -> Cached] /\ \A f \in strays' : FetchOK(f)
  BY <1>1 DEF GithubInv
<1> QED BY <1>3, <1>4, <1>5, <1>6 DEF GithubInv

LEMMA GitHubKeepsGithubInv ==
    ASSUME GithubInv,
           \/ \E p \in Pulls : PullOpens(p) \/ PullCloses(p) \/ PullChanges(p)
           \/ \E h \in Heads : ChecksChange(h)
    PROVE  GithubInv'
<1>1. SourceOK
  BY DEF GithubInv
<1>2. ASSUME NEW p \in Pulls, PullOpens(p)
      PROVE  GithubInv'
  <2>1. /\ open' = open \cup {p} /\ UNCHANGED <<picture, ci>>
        /\ Change(Only(Pulls, p, picture[p]), Nothing.ci)
    BY <1>2 DEF PullOpens
  <2>2. SourceOK'
    BY <1>1, <2>1 DEF SourceOK
  <2>3. Only(Pulls, p, picture[p])[p] = {picture[p]}
    BY DEF Only
  <2>4. \A x \in Pulls : x \in open' \/ job[x].matches # {} =>
           \/ picture'[x] \in Only(Pulls, p, picture[p])[x]
           \/ picture'[x] = picture[x] /\ (x \in open \/ job[x].matches # {})
    BY <2>1, <2>3
  <2>5. \A h \in Heads : ci'[h] \in {ci[h]} \cup Nothing.ci[h]
    BY <2>1
  <2> QED BY <2>1, <2>2, <2>4, <2>5, ChangeKeepsGithubInv
<1>3. ASSUME NEW p \in Pulls, PullCloses(p)
      PROVE  GithubInv'
  <2>1. open' = open \ {p} /\ UNCHANGED <<picture, ci>> /\ Change(Nothing.pulls, Nothing.ci)
    BY <1>3 DEF PullCloses
  <2>2. SourceOK'
    BY <1>1, <2>1 DEF SourceOK
  <2>3. \A x \in Pulls : x \in open' \/ job[x].matches # {} =>
           \/ picture'[x] \in Nothing.pulls[x]
           \/ picture'[x] = picture[x] /\ (x \in open \/ job[x].matches # {})
    BY <2>1
  <2>4. \A h \in Heads : ci'[h] \in {ci[h]} \cup Nothing.ci[h]
    BY <2>1
  <2> QED BY <2>1, <2>2, <2>3, <2>4, ChangeKeepsGithubInv
<1>4. ASSUME NEW p \in Pulls, PullChanges(p)
      PROVE  GithubInv'
  <2>1. PICK v \in Pictures[p] : /\ picture' = [picture EXCEPT ![p] = v]
                                 /\ Change(Only(Pulls, p, v), Nothing.ci)
    BY <1>4 DEF PullChanges
  <2>2. UNCHANGED <<open, ci>> /\ v \in Picture
    BY <1>4, PicturesAssumption DEF PullChanges
  <2>3. SourceOK'
    BY <1>1, <2>1, <2>2 DEF SourceOK
  <2>4. Only(Pulls, p, v)[p] = {v}
    BY DEF Only
  <2>5. \A x \in Pulls : x \in open' \/ job[x].matches # {} =>
           \/ picture'[x] \in Only(Pulls, p, v)[x]
           \/ picture'[x] = picture[x] /\ (x \in open \/ job[x].matches # {})
    BY <1>1, <2>1, <2>2, <2>4 DEF SourceOK
  <2>6. \A h \in Heads : ci'[h] \in {ci[h]} \cup Nothing.ci[h]
    BY <2>2
  <2> QED BY <2>1, <2>3, <2>5, <2>6, ChangeKeepsGithubInv
<1>5. ASSUME NEW h \in Heads, ChecksChange(h)
      PROVE  GithubInv'
  <2>1. PICK c \in Checks[h] : /\ ci' = [ci EXCEPT ![h] = c]
                               /\ Change(Nothing.pulls, Only(Heads, h, c))
    BY <1>5 DEF ChecksChange
  <2>2. UNCHANGED <<open, picture>> /\ c \in Check
    BY <1>5, ChecksAssumption DEF ChecksChange
  <2>3. SourceOK'
    BY <1>1, <2>1, <2>2 DEF SourceOK
  <2>4. Only(Heads, h, c)[h] = {c}
    BY DEF Only
  <2>5. \A x \in Pulls : x \in open' \/ job[x].matches # {} =>
           \/ picture'[x] \in Nothing.pulls[x]
           \/ picture'[x] = picture[x] /\ (x \in open \/ job[x].matches # {})
    BY <2>2
  <2>6. \A x \in Heads : ci'[x] \in {ci[x]} \cup Only(Heads, h, c)[x]
    BY <1>1, <2>1, <2>4 DEF SourceOK
  <2> QED BY <2>1, <2>3, <2>5, <2>6, ChangeKeepsGithubInv
<1> QED BY <1>2, <1>3, <1>4, <1>5

-----------------------------------------------------------------------------
(* The poll.                                                               *)

\* What a poll leaves, however it ends.
LEMMA EndKeepsGithubInv ==
    ASSUME GithubInv, UNCHANGED github, PollEnds, ItemsOK',
           cache' \in [Heads -> Cached], \A f \in strays' : FetchOK(f)
    PROVE  GithubInv'
<1>1. SourceOK'
  BY DEF GithubInv, SourceOK, github
<1>2. JobsOK(job', held'.pulls, held'.ci) /\ Active(job') = {} /\ job' = NoJobs
  BY NothingIsKnown DEF PollEnds
<1>3. query' = 0 /\ polling' = FALSE /\ Cardinality(Active(job')) = 0
  BY <1>2, FS_EmptySet DEF PollEnds
<1>4. WorkersOK'
  <2>1. Len(Queries) \in Nat
    BY DEF Queries
  <2> QED BY <1>2, <1>3, <2>1, ConcurrencyAssumption DEF WorkersOK
<1> QED BY <1>1, <1>2, <1>3, <1>4 DEF GithubInv

\* A report leaves an item with the actions it was given, or with none.
LEMMA ReportKeepsItems ==
    ASSUME GithubInv, NEW STATE jobs, NEW STATE store, store \in [Heads -> Cached],
           ReportPulls(jobs, store)
    PROVE  PollEnds /\ ItemsOK' /\ cache' \in [Heads -> Cached]
<1>1. PollEnds
  BY DEF ReportPulls
<1>2. cache' \in [Heads -> Cached]
  BY DEF ReportPulls, Cached
<1>3. ItemsOK'
  <2>1. ASSUME NEW p \in Pulls
        PROVE  actionsByItem'[p] = {} \/ actionsByItem'[p] = pullItem'[p].actions
    BY DEF ReportPulls
  <2> QED BY <2>1 DEF ItemsOK
<1> QED BY <1>1, <1>2, <1>3

\* What a worker that has ended a record hands on.
Handed(jobs, store) ==
    /\ JobsOK(jobs, held.pulls, held.ci) /\ Current(jobs)
    /\ Cardinality(Active(jobs)) + 1 <= Concurrency
    /\ store \in [Heads -> Cached]

\* What is made of honest jobs was true.
LEMMA ReportsAreTrue ==
    ASSUME NEW STATE jobs, NEW STATE store, JobsOK(jobs, held.pulls, held.ci),
           ReportPulls(jobs, store)
    PROVE  ReportsWereTrue
<1> SUFFICES ASSUME NEW p \in Pulls, pullItem'[p] # pullItem[p]
             PROVE  \E v \in held.pulls[p], matches \in SUBSET UNION {w.roles : w \in held.pulls[p]} :
                       IF Followed(matches)
                       THEN \E w \in held.pulls[p], c, d \in held.ci[v.head] :
                               pullItem'[p] = classify(matches, [runs |-> c.runs, statuses |-> d.statuses],
                                                       isApprovedByReviews(w.reviews), v.mergeable)
                       ELSE pullItem'[p] = classify(matches, NoChecks, FALSE, v.mergeable)
  BY DEF ReportsWereTrue
<1> DEFINE j == jobs[p]
<1>1. /\ j.stage = "done"
      /\ pullItem'[p] = classify(j.matches, [runs |-> j.runs, statuses |-> j.statuses],
                                 j.approved, j.mergeable)
  BY DEF ReportPulls
<1>2. JobOK(j) /\ Honest(j, held.pulls[p], held.ci)
  BY DEF JobsOK
<1> HIDE DEF j
<1>3. j.head # Missing /\ j.matches \in SUBSET UNION {w.roles : w \in held.pulls[p]}
  BY <1>1, <1>2, NothingAssumption DEF JobOK, Honest
<1>4. PICK v \in held.pulls[p] : v.head = j.head /\ v.mergeable = j.mergeable
  BY <1>2, <1>3 DEF Honest
<1>5. CASE Followed(j.matches)
  <2>1. j.approved # Missing /\ j.runs # Missing /\ j.statuses # Missing
    BY <1>1, <1>2, <1>5 DEF JobOK, Incomplete, Unchecked
  <2>2. PICK w \in held.pulls[p] : j.approved = isApprovedByReviews(w.reviews)
    BY <1>2, <1>3, <1>5, <2>1 DEF Honest
  <2>3. PICK c \in held.ci[j.head] : j.runs = c.runs
    BY <1>2, <1>3, <1>5, <2>1 DEF Honest
  <2>4. PICK d \in held.ci[j.head] : j.statuses = d.statuses
    BY <1>2, <1>3, <1>5, <2>1 DEF Honest
  <2>5. pullItem'[p] = classify(j.matches, [runs |-> c.runs, statuses |-> d.statuses],
                                isApprovedByReviews(w.reviews), v.mergeable)
    BY <1>1, <1>4, <2>2, <2>3, <2>4
  <2> QED BY <1>3, <1>4, <1>5, <2>5
<1>6. CASE ~ Followed(j.matches)
  <2>1. pullItem'[p] = classify(j.matches, NoChecks, FALSE, v.mergeable)
    BY <1>1, <1>2, <1>4, <1>6 DEF JobOK, NoChecks
  <2> QED BY <1>3, <1>6, <2>1
<1> QED BY <1>5, <1>6

LEMMA NothingIsReported ==
    ASSUME UNCHANGED pullItem
    PROVE  ReportsWereTrue
BY DEF ReportsWereTrue

LEMMA SettleKeepsGithubInv ==
    ASSUME GithubInv, UNCHANGED github, polling, query = 0, \A f \in strays' : FetchOK(f),
           NEW STATE jobs, NEW STATE store, Handed(jobs, store), Settle(jobs, store)
    PROVE  GithubInv' /\ ReportsWereTrue
<1>1. SourceOK' /\ Concurrency \in Nat /\ Cardinality(Active(jobs)) \in Nat
  BY WorkersAreFinite, ConcurrencyAssumption DEF GithubInv, SourceOK, github
<1>2. ASSUME NEW q \in Pulls, jobs[q].stage = "queued", job' = [jobs EXCEPT ![q].stage = "pull"],
             cache' = store, UNCHANGED <<published, polling, query, held, changes>>
      PROVE  GithubInv' /\ ReportsWereTrue
  <2> DEFINE j == [jobs[q] EXCEPT !.stage = "pull"]
  <2>1. JobOK(jobs[q]) /\ Honest(jobs[q], held.pulls[q], held.ci) /\ DOMAIN jobs = Pulls
    BY DEF Handed, JobsOK
  <2>2. /\ DOMAIN j = DOMAIN NoJob /\ j.stage = "pull"
        /\ j.head = jobs[q].head /\ j.matches = jobs[q].matches /\ j.cached = jobs[q].cached
        /\ j.runs = jobs[q].runs /\ j.statuses = jobs[q].statuses
        /\ j.approved = jobs[q].approved
    BY <2>1 DEF JobOK, NoJob
  <2>3. j.head = Missing
    BY <1>2, <2>1, <2>2 DEF JobOK
  <2> HIDE DEF j
  <2>4. JobOK(j) /\ Honest(j, held.pulls[q], held.ci)
    BY <1>2, <2>1, <2>2, <2>3 DEF JobOK, Honest
  <2>5. job' = [jobs EXCEPT ![q] = j]
    BY <1>2, <2>1 DEF j
  <2>6. JobsOK(job', held'.pulls, held'.ci)
    <3>1. JobsOK(jobs, held.pulls, held.ci)
      BY DEF Handed
    <3>2. JobsOK(job', held.pulls, held.ci)
      BY <2>4, <2>5, <3>1, OneJob
    <3> QED BY <1>2, <3>2
  <2>7. Current(job)'
    BY <1>2, <2>1, <2>2, <2>5 DEF Handed, Current, github
  <2>8. WorkersOK'
    <3>1. Cardinality(Active(job')) <= Cardinality(Active(jobs)) + 1
      BY <2>1, <2>5, WorkerTakes
    <3>2. Cardinality(Active(job')) <= Concurrency
      BY <1>1, <3>1, WorkersAreFinite DEF Handed
    <3> QED BY <1>2, <3>2 DEF WorkersOK, GithubInv
  <2>9. ItemsOK'
    BY <1>2 DEF ItemsOK, GithubInv, published
  <2> QED BY <1>1, <1>2, <2>6, <2>7, <2>8, <2>9, NothingIsReported DEF GithubInv, Handed, published
<1>3. ASSUME job' = jobs, cache' = store, UNCHANGED <<published, polling, query, held, changes>>
      PROVE  GithubInv' /\ ReportsWereTrue
  <2>1. JobsOK(job', held'.pulls, held'.ci) /\ Current(job)'
    BY <1>3 DEF Handed, Current, github
  <2>2. WorkersOK'
    BY <1>1, <1>3 DEF WorkersOK, GithubInv, Handed
  <2>3. ItemsOK'
    BY <1>3 DEF ItemsOK, GithubInv, published
  <2> QED BY <1>1, <1>3, <2>1, <2>2, <2>3, NothingIsReported DEF GithubInv, Handed, published
<1>4. ASSUME PollEnds, cache' = store, UNCHANGED published
      PROVE  GithubInv' /\ ReportsWereTrue
  <2>1. ItemsOK'
    BY <1>4 DEF ItemsOK, GithubInv, published
  <2> QED BY <1>4, <2>1, EndKeepsGithubInv, NothingIsReported DEF Handed, published
<1>5. ASSUME ReportPulls(jobs, store)
      PROVE  GithubInv' /\ ReportsWereTrue
  BY <1>5, ReportKeepsItems, ReportsAreTrue, EndKeepsGithubInv DEF Handed
<1>6. \/ \E q \in Pulls : /\ jobs[q].stage = "queued" /\ job' = [jobs EXCEPT ![q].stage = "pull"]
                          /\ cache' = store /\ UNCHANGED <<published, polling, query, held, changes>>
      \/ job' = jobs /\ cache' = store /\ UNCHANGED <<published, polling, query, held, changes>>
      \/ PollEnds /\ cache' = store /\ UNCHANGED published
      \/ ReportPulls(jobs, store)
  BY DEF Settle
<1> QED BY <1>2, <1>3, <1>4, <1>5, <1>6


LEMMA DiscoveryBeginsKeepsGithubInv ==
    ASSUME GithubInv, DiscoveryBegins
    PROVE  GithubInv'
<1>1. /\ UNCHANGED github /\ UNCHANGED <<published, cache, job, strays>>
      /\ query' = 1 /\ polling' = TRUE /\ job = NoJobs
  BY DEF DiscoveryBegins, GithubInv, WorkersOK
<1>2. SourceOK'
  BY <1>1 DEF GithubInv, SourceOK, github
<1>3. JobsOK(job', held'.pulls, held'.ci)
  BY <1>1, NothingIsKnown
<1>4. Current(job)'
  <2>1. \A p \in Pulls : job'[p].matches = {}
    BY <1>1 DEF NoJobs, NoJob
  <2>2. held' = [pulls |-> [p \in Pulls |-> IF p \in open THEN {picture[p]} ELSE {}],
                 ci |-> [h \in Heads |-> {ci[h]}]]
    BY DEF DiscoveryBegins
  <2>3. /\ \A p \in Pulls : p \in open => picture[p] \in held'.pulls[p]
        /\ \A h \in Heads : ci[h] \in held'.ci[h]
    BY <2>2
  <2> QED BY <1>1, <2>1, <2>3 DEF Current, github
<1>5. WorkersOK'
  <2>1. Cardinality(Active(job')) <= Concurrency
    BY <1>1 DEF GithubInv, WorkersOK
  <2>2. \A p \in Pulls : job'[p].stage = "none"
    BY <1>1 DEF NoJobs, NoJob
  <2>3. 1 \in 0 .. Len(Queries)
    BY DEF Queries
  <2> QED BY <1>1, <2>1, <2>2, <2>3 DEF WorkersOK
<1>6. ItemsOK' /\ cache' \in [Heads -> Cached] /\ \A f \in strays' : FetchOK(f)
  BY <1>1 DEF GithubInv, ItemsOK, published
<1> QED BY <1>1, <1>2, <1>3, <1>4, <1>5, <1>6 DEF GithubInv

\* Nothing more is known but the matches and the stage.
Restaged(j, was) ==
    /\ DOMAIN j = DOMAIN NoJob /\ j.head = was.head /\ j.cached = was.cached
    /\ j.runs = was.runs /\ j.statuses = was.statuses /\ j.approved = was.approved

\* A search adds to what is known of the pull requests it hits: they are open,
\* and what it says of them is true now.
LEMMA SearchAddsMatches ==
    ASSUME GithubInv, polling, NEW p \in Pulls, job[p].stage = "none",
           NEW j, Restaged(j, job[p]),
           j.stage \in {"none", "queued", "pull"}, j.stage # "none" => j.matches # {},
           \/ j.matches = job[p].matches
           \/ /\ p \in open /\ Queries[query] \in picture[p].roles
              /\ j.matches = job[p].matches \cup {Queries[query]}
    PROVE  JobOK(j) /\ Honest(j, held.pulls[p], held.ci)
<1>1. JobOK(job[p]) /\ Honest(job[p], held.pulls[p], held.ci)
  BY DEF GithubInv, JobsOK
<1>2. /\ DOMAIN j = DOMAIN NoJob /\ j.head = job[p].head /\ j.cached = job[p].cached
      /\ j.runs = job[p].runs /\ j.statuses = job[p].statuses /\ j.approved = job[p].approved
  BY DEF Restaged
<1>3. p \in open => picture[p] \in held.pulls[p]
  BY DEF GithubInv, Current
<1>4. j.matches \subseteq UNION {v.roles : v \in held.pulls[p]}
  <2>1. CASE j.matches = job[p].matches
    BY <1>1, <1>2, <2>1 DEF Honest
  <2>2. CASE /\ p \in open /\ Queries[query] \in picture[p].roles
             /\ j.matches = job[p].matches \cup {Queries[query]}
    <3>1. Queries[query] \in UNION {v.roles : v \in held.pulls[p]}
      BY <1>3, <2>2
    <3> QED BY <1>1, <1>2, <2>2, <3>1 DEF Honest
  <2> QED BY <2>1, <2>2
<1>5. j.head = Missing
  BY <1>1, <1>2 DEF JobOK
<1>6. Honest(j, held.pulls[p], held.ci)
  BY <1>4, <1>5 DEF Honest
<1>7. JobOK(j)
  BY <1>1, <1>2 DEF JobOK
<1> QED BY <1>6, <1>7


LEMMA SearchKeepsGithubInv ==
    ASSUME GithubInv, Search
    PROVE  GithubInv' /\ ReportsWereTrue
<1> DEFINE hit(p) == p \in open /\ Queries[query] \in picture[p].roles
           jobs == [p \in Pulls |->
                       [job[p] EXCEPT !.matches = IF hit(p) THEN @ \cup {Queries[query]} ELSE @]]
<1>1. /\ UNCHANGED <<github, strays, failures>> /\ polling
      /\ DOMAIN job = Pulls /\ \A p \in Pulls : job[p].stage = "none" /\ JobOK(job[p])
  BY DEF Search, GithubInv, WorkersOK, JobsOK
<1>2. ASSUME NEW p \in Pulls
      PROVE  /\ Restaged(jobs[p], job[p]) /\ jobs[p].stage = "none"
             /\ \/ jobs[p].matches = job[p].matches
                \/ hit(p) /\ jobs[p].matches = job[p].matches \cup {Queries[query]}
             /\ hit(p) => jobs[p].matches # {}
  BY <1>1 DEF JobOK, NoJob, Restaged
<1>3. \/ /\ query < Len(Queries) /\ query' = query + 1 /\ job' = jobs
         /\ UNCHANGED <<published, cache, polling, held, changes>>
      \/ Start(jobs)
  BY DEF Search
<1>4. SourceOK' /\ \A f \in strays' : FetchOK(f)
  BY <1>1 DEF GithubInv, SourceOK, github
<1>5. query \in 0 .. Len(Queries) /\ Len(Queries) \in Nat
  BY DEF GithubInv, WorkersOK, Queries
<1> HIDE DEF jobs
  \* In either case each pull request has the matches it had and those it gained.
<1>6. ASSUME UNCHANGED <<published, cache, polling, held, changes>>, DOMAIN job' = Pulls,
             \A p \in Pulls : /\ Restaged(job'[p], job[p]) /\ job'[p].matches = jobs[p].matches
                              /\ job'[p].stage \in {"none", "queued", "pull"}
                              /\ job'[p].stage # "none" => job'[p].matches # {},
             WorkersOK'
      PROVE  GithubInv' /\ ReportsWereTrue
  <2>1. JobsOK(job', held.pulls, held.ci)
    <3>1. ASSUME NEW p \in Pulls
          PROVE  JobOK(job'[p]) /\ Honest(job'[p], held.pulls[p], held.ci)
      BY <1>1, <1>2, <1>6, SearchAddsMatches
    <3> QED BY <1>6, <3>1 DEF JobsOK
  <2>2. Current(job)'
    <3>1. Current(job)
      BY <1>1 DEF GithubInv
    <3>2. ASSUME NEW p \in Pulls, p \in open \/ job'[p].matches # {}
          PROVE  p \in open \/ job[p].matches # {}
      BY <1>2, <1>6, <3>2
    <3> QED BY <1>1, <1>6, <3>1, <3>2 DEF Current, github
  <2>3. ItemsOK'
    BY <1>6 DEF GithubInv, ItemsOK, published
  <2> QED BY <1>4, <1>6, <2>1, <2>2, <2>3, NothingIsReported DEF GithubInv, published
<1>7. ASSUME query < Len(Queries), query' = query + 1, job' = jobs,
             UNCHANGED <<published, cache, polling, held, changes>>
      PROVE  GithubInv' /\ ReportsWereTrue
  <2>1. DOMAIN job' = Pulls /\ \A p \in Pulls : job'[p].stage = "none"
    BY <1>2, <1>7 DEF jobs
  <2>2. Active(job') = {} /\ Cardinality(Active(job')) = 0
    BY <2>1, FS_EmptySet DEF Active
  <2>3. WorkersOK'
    BY <1>1, <1>5, <1>7, <2>1, <2>2, ConcurrencyAssumption DEF WorkersOK, Queries
  <2> QED BY <1>2, <1>6, <1>7, <2>1, <2>3
<1>8. ASSUME Start(jobs), {p \in Pulls : jobs[p].matches # {}} = {}
      PROVE  GithubInv' /\ ReportsWereTrue
  <2>1. ReportPulls(NoJobs, cache)
    BY <1>8 DEF Start
  <2>2. PollEnds /\ ItemsOK' /\ cache' \in [Heads -> Cached]
    <3>1. cache \in [Heads -> Cached]
      BY DEF GithubInv
    <3> QED BY <2>1, <3>1, ReportKeepsItems
  <2>3. ReportsWereTrue
    BY <2>1, NothingIsKnown, ReportsAreTrue
  <2> QED BY <1>1, <1>4, <2>2, <2>3, EndKeepsGithubInv
<1>9. ASSUME Start(jobs), {p \in Pulls : jobs[p].matches # {}} # {}
      PROVE  GithubInv' /\ ReportsWereTrue
  <2> DEFINE found == {p \in Pulls : jobs[p].matches # {}}
  <2>1. PICK first \in SUBSET found :
           /\ Cardinality(first) <= Concurrency
           /\ job' = [p \in Pulls |-> [jobs[p] EXCEPT !.stage =
                        IF p \in first THEN "pull" ELSE IF p \in found THEN "queued" ELSE "none"]]
    BY <1>9 DEF Start
  <2>2. query' = 0 /\ UNCHANGED <<published, cache, polling, held, changes>>
    BY <1>9 DEF Start
  <2>3. DOMAIN job' = Pulls
    BY <2>1
  <2>4. ASSUME NEW p \in Pulls
        PROVE  /\ Restaged(job'[p], job[p]) /\ job'[p].matches = jobs[p].matches
               /\ job'[p].stage \in {"none", "queued", "pull"}
               /\ job'[p].stage # "none" => job'[p].matches # {}
               /\ job'[p].stage = "pull" <=> p \in first
    <3>1. DOMAIN jobs[p] = DOMAIN NoJob
      BY <1>2 DEF Restaged
    <3>2. /\ Restaged(job'[p], jobs[p]) /\ job'[p].matches = jobs[p].matches
          /\ job'[p].stage = IF p \in first THEN "pull"
                             ELSE IF p \in found THEN "queued" ELSE "none"
      BY <2>1, <3>1 DEF Restaged, NoJob
    <3>3. Restaged(job'[p], job[p])
      BY <1>2, <3>2 DEF Restaged
    <3> QED BY <3>2, <3>3
  <2>5. Active(job') = first
    BY <2>4 DEF Active
  <2>6. WorkersOK'
    BY <1>1, <1>5, <2>1, <2>2, <2>5 DEF WorkersOK, Queries
  <2> QED BY <1>6, <2>2, <2>3, <2>4, <2>6
<1> QED BY <1>3, <1>7, <1>8, <1>9


-----------------------------------------------------------------------------
(* The records of a poll.                                                  *)

\* Records are in hand only in a poll whose searches are done.
LEMMA RecordsAreOfAPoll ==
    ASSUME GithubInv, NEW p \in Pulls, job[p].stage # "none"
    PROVE  polling /\ query = 0 /\ Current(job) /\ picture[p] \in held.pulls[p]
           /\ DOMAIN job = Pulls /\ JobOK(job[p]) /\ Honest(job[p], held.pulls[p], held.ci)
<1>1. polling /\ query = 0
  BY DEF GithubInv, WorkersOK, NoJobs, NoJob
<1>2. DOMAIN job = Pulls /\ JobOK(job[p]) /\ Honest(job[p], held.pulls[p], held.ci)
  BY DEF GithubInv, JobsOK
<1>3. Current(job)
  BY <1>1 DEF GithubInv
<1>4. job[p].matches # {}
  BY <1>2 DEF JobOK
<1> QED BY <1>1, <1>2, <1>3, <1>4 DEF Current

\* A record goes on, or it has ended.
LEMMA RecordKeepsGithubInv ==
    ASSUME GithubInv, UNCHANGED github, \A f \in strays' : FetchOK(f),
           NEW p \in Pulls, job[p].stage \in {"pull", "details"},
           NEW STATE j, JobOK(j), Honest(j, held.pulls[p], held.ci), j.matches = job[p].matches,
           NEW STATE store, store \in [Heads -> Cached],
           \/ /\ j.stage = "details" /\ job' = [job EXCEPT ![p] = j] /\ cache' = store
              /\ UNCHANGED <<published, polling, query, held, changes>>
           \/ j.stage \in {"done", "failed"} /\ Settle([job EXCEPT ![p] = j], store)
    PROVE  GithubInv' /\ ReportsWereTrue
<1> DEFINE jobs == [job EXCEPT ![p] = j]
<1>1. polling /\ query = 0 /\ Current(job) /\ DOMAIN job = Pulls
  BY RecordsAreOfAPoll
<1>2. JobsOK(jobs, held.pulls, held.ci)
  <2>1. JobsOK(job, held.pulls, held.ci)
    BY DEF GithubInv
  <2> QED BY <2>1, OneJob
<1>3. Current(jobs)
  BY <1>1 DEF Current
<1>4. Cardinality(Active(job)) <= Concurrency
  BY DEF GithubInv, WorkersOK
<1> HIDE DEF jobs
<1>5. ASSUME j.stage = "details", job' = jobs, cache' = store,
             UNCHANGED <<published, polling, query, held, changes>>
      PROVE  GithubInv' /\ ReportsWereTrue
  <2>1. SourceOK' /\ ItemsOK'
    BY <1>5 DEF GithubInv, SourceOK, github, ItemsOK, published
  <2>2. Active(jobs) = Active(job)
    BY <1>1, <1>5 DEF Active, jobs
  <2>3. WorkersOK'
    BY <1>1, <1>4, <1>5, <2>2 DEF WorkersOK, GithubInv
  <2>4. JobsOK(job', held'.pulls, held'.ci) /\ Current(job)'
    BY <1>2, <1>3, <1>5 DEF Current, github
  <2> QED BY <1>5, <2>1, <2>3, <2>4, NothingIsReported DEF GithubInv, published
<1>6. ASSUME j.stage \in {"done", "failed"}, Settle(jobs, store)
      PROVE  GithubInv' /\ ReportsWereTrue
  <2>1. p \in Active(job)
    BY DEF Active
  <2>2. Cardinality(Active(jobs)) + 1 <= Cardinality(Active(job))
    BY <1>1, <1>6, <2>1, WorkerIsFree DEF jobs
  <2>3. Cardinality(Active(jobs)) + 1 <= Concurrency
    BY <1>4, <2>2, WorkersAreFinite, ConcurrencyAssumption
  <2>4. Handed(jobs, store)
    BY <1>2, <1>3, <2>3 DEF Handed
  <2> QED BY <1>1, <1>6, <2>4, SettleKeepsGithubInv
<1> QED BY <1>5, <1>6 DEF jobs

LEMMA PullArrivesKeepsGithubInv ==
    ASSUME GithubInv, NEW p \in Pulls, PullArrives(p)
    PROVE  GithubInv' /\ ReportsWereTrue
<1>1. /\ job[p].stage = "pull" /\ UNCHANGED <<github, strays, failures>>
      /\ \A f \in strays' : FetchOK(f)
  BY DEF PullArrives, GithubInv
<1>2. /\ JobOK(job[p]) /\ Honest(job[p], held.pulls[p], held.ci)
      /\ picture[p] \in held.pulls[p] /\ picture[p] \in Picture
      /\ cache \in [Heads -> Cached]
  BY <1>1, RecordsAreOfAPoll DEF GithubInv, SourceOK
<1> DEFINE v == picture[p]
           seen == [job[p] EXCEPT !.head = v.head, !.mergeable = v.mergeable]
           more == [seen EXCEPT !.stage = "details", !.cached = cache[v.head]]
           done == [seen EXCEPT !.stage = "done", !.runs = "none",
                                !.statuses = "none", !.approved = FALSE]
<1>3. v.head \in Heads /\ v.head # Missing /\ cache[v.head] \in Cached
  BY <1>2, NothingAssumption DEF Picture
<1>4. /\ DOMAIN job[p] = DOMAIN NoJob /\ job[p].matches # {} /\ job[p].cached \in Cached
      /\ job[p].runs = Missing /\ job[p].statuses = Missing /\ job[p].approved = Missing
      /\ job[p].matches \subseteq UNION {w.roles : w \in held.pulls[p]}
  BY <1>1, <1>2 DEF JobOK, Honest
<1>5. seen.matches = job[p].matches
  BY <1>4 DEF NoJob
<1>6. CASE Followed(seen.matches)
  <2>1. /\ job' = [job EXCEPT ![p] = more]
        /\ UNCHANGED <<published, cache, polling, query, held, changes>>
    BY <1>6 DEF PullArrives
  <2>2. /\ DOMAIN more = DOMAIN NoJob /\ more.stage = "details" /\ more.matches = job[p].matches
        /\ more.head = v.head /\ more.mergeable = v.mergeable /\ more.cached = cache[v.head]
        /\ more.runs = Missing /\ more.statuses = Missing /\ more.approved = Missing
    BY <1>4 DEF NoJob
  <2> HIDE DEF more
  <2>3. JobOK(more)
    BY <1>3, <1>4, <1>5, <1>6, <2>2 DEF JobOK, Incomplete
  <2>4. Honest(more, held.pulls[p], held.ci)
    BY <1>2, <1>4, <2>2 DEF Honest
  <2> QED BY <1>1, <1>2, <2>1, <2>2, <2>3, <2>4, RecordKeepsGithubInv
<1>7. CASE ~ Followed(seen.matches)
  <2>1. Settle([job EXCEPT ![p] = done], cache)
    BY <1>7 DEF PullArrives
  <2>2. /\ DOMAIN done = DOMAIN NoJob /\ done.stage = "done" /\ done.matches = job[p].matches
        /\ done.head = v.head /\ done.mergeable = v.mergeable /\ done.cached = job[p].cached
        /\ done.runs = "none" /\ done.statuses = "none" /\ done.approved = FALSE
    BY <1>4 DEF NoJob
  <2> HIDE DEF done
  <2>3. JobOK(done)
    BY <1>3, <1>4, <1>5, <1>7, <2>2 DEF JobOK, Verdicts
  <2>4. Honest(done, held.pulls[p], held.ci)
    BY <1>2, <1>4, <1>5, <1>7, <2>2 DEF Honest
  <2> QED BY <1>1, <1>2, <2>1, <2>2, <2>3, <2>4, RecordKeepsGithubInv
<1> QED BY <1>6, <1>7


\* A record whose checks or reviews have arrived, and which may be complete.
Furthered(j, was) ==
    /\ DOMAIN j = DOMAIN NoJob /\ j.stage = "details" /\ j.matches = was.matches
    /\ j.head = was.head /\ j.mergeable = was.mergeable /\ j.cached = was.cached
    /\ j.runs \in Verdicts \cup {Missing} /\ j.statuses \in Verdicts \cup {Missing}

LEMMA AdvanceKeepsGithubInv ==
    ASSUME GithubInv, UNCHANGED <<github, strays, failures>>,
           NEW p \in Pulls, job[p].stage = "details",
           NEW STATE j, Furthered(j, job[p]), Honest(j, held.pulls[p], held.ci),
           NEW STATE store, store \in [Heads -> Cached], Advance(p, j, store)
    PROVE  GithubInv' /\ ReportsWereTrue
<1> DEFINE done == [j EXCEPT !.stage = "done", !.cached = Missing]
<1>1. /\ JobOK(job[p]) /\ Followed(job[p].matches) /\ job[p].head \in Heads
      /\ job[p].matches # {} /\ job[p].cached \in Cached
  BY RecordsAreOfAPoll DEF JobOK
<1>2. \A f \in strays' : FetchOK(f)
  BY DEF GithubInv
<1>3. CASE Incomplete(j)
  <2>1. /\ job' = [job EXCEPT ![p] = j] /\ cache' = store
        /\ UNCHANGED <<published, polling, query, held, changes>>
    BY <1>3 DEF Advance
  <2>2. JobOK(j) /\ j.stage = "details" /\ j.matches = job[p].matches
    BY <1>1, <1>3 DEF Furthered, JobOK
  <2> QED BY <1>2, <2>1, <2>2, RecordKeepsGithubInv
<1>4. CASE ~ Incomplete(j)
  <2>1. Settle([job EXCEPT ![p] = done], store)
    BY <1>4 DEF Advance
  <2>2. /\ DOMAIN done = DOMAIN NoJob /\ done.stage = "done" /\ done.cached = Missing
        /\ done.matches = j.matches /\ done.head = j.head /\ done.mergeable = j.mergeable
        /\ done.runs = j.runs /\ done.statuses = j.statuses /\ done.approved = j.approved
    BY DEF Furthered, NoJob
  <2> HIDE DEF done
  <2>3. JobOK(done)
    BY <1>1, <1>4, <2>2 DEF Furthered, JobOK, Cached, Incomplete, Unchecked
  <2>4. Honest(done, held.pulls[p], held.ci) /\ done.matches = job[p].matches
    BY <2>2 DEF Honest, Furthered
  <2> QED BY <1>2, <2>1, <2>2, <2>3, <2>4, RecordKeepsGithubInv
<1> QED BY <1>3, <1>4

LEMMA ChecksArriveKeepsGithubInv ==
    ASSUME GithubInv, NEW p \in Pulls, ChecksArrive(p)
    PROVE  GithubInv' /\ ReportsWereTrue
<1>1. PICK g \in Fetches(job[p]) : Advance(p, g, Stored(g))
  BY DEF ChecksArrive
<1>2. job[p].stage = "details" /\ UNCHANGED <<github, strays, failures>>
  BY DEF ChecksArrive
<1>3. /\ JobOK(job[p]) /\ Honest(job[p], held.pulls[p], held.ci) /\ Current(job)
      /\ Followed(job[p].matches) /\ job[p].head \in Heads /\ job[p].head # Missing
  BY <1>2, RecordsAreOfAPoll, NothingAssumption DEF JobOK
<1>4. SourceOK /\ cache \in [Heads -> Cached]
  BY DEF GithubInv
<1>5. FetchOK(job[p])
  BY <1>3 DEF FetchOK, JobOK, NoJob
<1>6. /\ FetchOK(g) /\ Stored(g) \in [Heads -> Cached]
      /\ \/ g = [job[p] EXCEPT !.runs = ci[job[p].head].runs]
         \/ g = [job[p] EXCEPT !.statuses = ci[job[p].head].statuses]
  BY <1>4, <1>5, FetchGoesOn
<1>7. ci[job[p].head] \in held.ci[job[p].head]
  BY <1>3 DEF Current
<1>8. /\ Furthered(g, job[p]) /\ g.approved = job[p].approved
      /\ g.runs \in {job[p].runs, ci[job[p].head].runs}
      /\ g.statuses \in {job[p].statuses, ci[job[p].head].statuses}
  BY <1>2, <1>3, <1>6 DEF Furthered, JobOK, FetchOK, NoJob
<1>9. Honest(g, held.pulls[p], held.ci)
  <2>1. /\ g.matches = job[p].matches /\ g.head = job[p].head /\ g.mergeable = job[p].mergeable
    BY <1>8 DEF Furthered
  <2>2. g.matches \subseteq UNION {v.roles : v \in held.pulls[p]}
    BY <1>3, <2>1 DEF Honest
  <2>3. /\ \E v \in held.pulls[p] : v.head = g.head /\ v.mergeable = g.mergeable
        /\ g.approved # Missing => \E v \in held.pulls[p] : g.approved = isApprovedByReviews(v.reviews)
    BY <1>3, <1>8, <2>1 DEF Honest
  <2>4. /\ g.runs # Missing => \E c \in held.ci[g.head] : g.runs = c.runs
        /\ g.statuses # Missing => \E c \in held.ci[g.head] : g.statuses = c.statuses
    BY <1>3, <1>7, <1>8, <2>1 DEF Honest
  <2> QED BY <2>2, <2>3, <2>4 DEF Honest
<1> QED BY <1>1, <1>2, <1>6, <1>8, <1>9, AdvanceKeepsGithubInv

LEMMA ReviewsArriveKeepsGithubInv ==
    ASSUME GithubInv, NEW p \in Pulls, ReviewsArrive(p)
    PROVE  GithubInv' /\ ReportsWereTrue
<1> DEFINE approval == isApprovedByReviews(picture[p].reviews)
           g == [job[p] EXCEPT !.approved = approval]
<1>1. /\ job[p].stage = "details" /\ UNCHANGED <<github, strays, failures>>
      /\ Advance(p, g, cache)
  BY DEF ReviewsArrive
<1>2. /\ JobOK(job[p]) /\ Honest(job[p], held.pulls[p], held.ci)
      /\ picture[p] \in held.pulls[p] /\ cache \in [Heads -> Cached]
  BY <1>1, RecordsAreOfAPoll DEF GithubInv
<1> HIDE DEF approval
<1>3. /\ Furthered(g, job[p]) /\ g.approved = approval
      /\ g.runs = job[p].runs /\ g.statuses = job[p].statuses
  BY <1>1, <1>2 DEF Furthered, JobOK, NoJob
<1>4. \E v \in held.pulls[p] : approval = isApprovedByReviews(v.reviews)
  BY <1>2 DEF approval
<1> HIDE DEF g
<1>5. Honest(g, held.pulls[p], held.ci)
  <2>1. /\ g.matches = job[p].matches /\ g.head = job[p].head /\ g.mergeable = job[p].mergeable
    BY <1>3 DEF Furthered
  <2> QED BY <1>2, <1>3, <1>4, <2>1 DEF Honest
<1> QED BY <1>1, <1>2, <1>3, <1>5, AdvanceKeepsGithubInv

-----------------------------------------------------------------------------
(* Failures.                                                               *)

LEMMA SearchFailsKeepsGithubInv ==
    ASSUME GithubInv, SearchFails
    PROVE  GithubInv'
<1>1. UNCHANGED github /\ PollEnds /\ UNCHANGED <<published, cache, strays>>
  BY DEF SearchFails
<1>2. ItemsOK' /\ cache' \in [Heads -> Cached] /\ \A f \in strays' : FetchOK(f)
  BY <1>1 DEF GithubInv, ItemsOK, published
<1> QED BY <1>1, <1>2, EndKeepsGithubInv

\* A failed record knows its matches and no more.
LEMMA FailKeepsGithubInv ==
    ASSUME GithubInv, NEW p \in Pulls, job[p].stage \in {"pull", "details"}, Fail(p),
           \A f \in strays' : FetchOK(f)
    PROVE  GithubInv' /\ ReportsWereTrue
<1> DEFINE j == [NoJob EXCEPT !.stage = "failed", !.matches = job[p].matches]
<1>1. UNCHANGED github /\ Settle([job EXCEPT ![p] = j], cache)
  BY DEF Fail
<1>2. cache \in [Heads -> Cached] /\ JobOK(job[p]) /\ Honest(job[p], held.pulls[p], held.ci)
  BY RecordsAreOfAPoll DEF GithubInv
<1>3. /\ DOMAIN j = DOMAIN NoJob /\ j.stage = "failed" /\ j.matches = job[p].matches
      /\ j.head = Missing /\ j.cached = Missing /\ j.runs = Missing /\ j.statuses = Missing
  BY DEF NoJob
<1> HIDE DEF j
<1>4. JobOK(j) /\ Honest(j, held.pulls[p], held.ci)
  BY <1>2, <1>3 DEF JobOK, Honest, Cached
<1> QED BY <1>1, <1>2, <1>3, <1>4, RecordKeepsGithubInv

LEMMA FailuresKeepGithubInv ==
    ASSUME GithubInv, NEW p \in Pulls, RecordFails(p) \/ ReviewsFail(p)
    PROVE  GithubInv' /\ ReportsWereTrue
<1>1. Fail(p) /\ job[p].stage \in {"pull", "details"}
  BY DEF RecordFails, ReviewsFail
<1>2. ASSUME RecordFails(p)
      PROVE  \A f \in strays' : FetchOK(f)
  BY <1>2 DEF RecordFails, GithubInv
<1>3. ASSUME ReviewsFail(p)
      PROVE  \A f \in strays' : FetchOK(f)
  <2> DEFINE left == [f \in {"head", "cached", "runs", "statuses"} |-> job[p][f]]
  <2>1. JobOK(job[p]) /\ job[p].stage = "details"
    BY <1>3, RecordsAreOfAPoll DEF ReviewsFail
  <2>2. FetchOK(left)
    BY <2>1 DEF FetchOK, JobOK
  <2>3. strays' = strays \cup {left} \/ strays' = strays
    BY <1>3 DEF ReviewsFail
  <2> QED BY <2>2, <2>3 DEF GithubInv
<1> QED BY <1>1, <1>2, <1>3, FailKeepsGithubInv

LEMMA StrayArrivesKeepsGithubInv ==
    ASSUME GithubInv, StrayArrives
    PROVE  GithubInv'
<1>1. UNCHANGED <<github, published, polling, query, job, held, failures, changes>>
  BY DEF StrayArrives
<1>2. cache' \in [Heads -> Cached] /\ \A f \in strays' : FetchOK(f)
  <2>1. PICK f \in strays :
           \/ strays' = strays \ {f} /\ UNCHANGED cache
           \/ \E g \in Fetches(f) :
                 /\ strays' = (strays \ {f}) \cup IF Unchecked(g) THEN {g} ELSE {}
                 /\ cache' = Stored(g)
    BY DEF StrayArrives
  <2>2. FetchOK(f) /\ SourceOK /\ cache \in [Heads -> Cached] /\ \A e \in strays : FetchOK(e)
    BY DEF GithubInv
  <2>3. ASSUME NEW g \in Fetches(f),
               strays' = (strays \ {f}) \cup IF Unchecked(g) THEN {g} ELSE {}, cache' = Stored(g)
        PROVE  cache' \in [Heads -> Cached] /\ \A e \in strays' : FetchOK(e)
    <3>1. FetchOK(g) /\ Stored(g) \in [Heads -> Cached]
      BY <2>2, FetchGoesOn
    <3> QED BY <2>2, <2>3, <3>1
  <2> QED BY <2>1, <2>2, <2>3
<1>3. SourceOK' /\ ItemsOK' /\ WorkersOK'
  BY <1>1 DEF GithubInv, SourceOK, github, ItemsOK, published, WorkersOK
<1>4. polling' => Current(job)'
  BY <1>1 DEF GithubInv, Current, github
<1>5. JobsOK(job', held'.pulls, held'.ci)
  BY <1>1 DEF GithubInv
<1> QED BY <1>2, <1>3, <1>4, <1>5 DEF GithubInv

LEMMA AdapterRestartsKeepsGithubInv ==
    ASSUME GithubInv, AdapterRestarts
    PROVE  GithubInv'
<1>1. UNCHANGED github /\ PollEnds /\ strays' = {} /\ actionsByItem' = [p \in Pulls |-> {}]
      /\ cache' = [h \in Heads |-> Missing]
  BY DEF AdapterRestarts
<1>2. ItemsOK' /\ cache' \in [Heads -> Cached] /\ \A f \in strays' : FetchOK(f)
  BY <1>1 DEF ItemsOK, Cached
<1> QED BY <1>1, <1>2, EndKeepsGithubInv

-----------------------------------------------------------------------------
(* The theorem.                                                            *)

LEMMA NextKeepsGithubInv ==
    ASSUME GithubInv, [GithubNext]_githubVars
    PROVE  GithubInv' /\ ReportsWereTrue
<1>1. CASE UNCHANGED githubVars
  <2>1. SourceOK' /\ ItemsOK' /\ WorkersOK'
    BY <1>1 DEF githubVars, GithubInv, SourceOK, github, ItemsOK, published, WorkersOK
  <2>2. polling' => Current(job)'
    BY <1>1 DEF githubVars, GithubInv, Current, github
  <2>3. JobsOK(job', held'.pulls, held'.ci)
    BY <1>1 DEF githubVars, GithubInv
  <2>4. cache' \in [Heads -> Cached] /\ \A f \in strays' : FetchOK(f)
    BY <1>1 DEF githubVars, GithubInv
  <2> QED BY <1>1, <2>1, <2>2, <2>3, <2>4, NothingIsReported DEF GithubInv, githubVars, published
<1>2. CASE \/ \E p \in Pulls : PullOpens(p) \/ PullCloses(p) \/ PullChanges(p)
           \/ \E h \in Heads : ChecksChange(h)
  <2>1. UNCHANGED pullItem
    BY <1>2 DEF PullOpens, PullCloses, PullChanges, ChecksChange, Change, published
  <2> QED BY <1>2, <2>1, GitHubKeepsGithubInv, NothingIsReported
<1>3. CASE DiscoveryBegins
  BY <1>3, DiscoveryBeginsKeepsGithubInv, NothingIsReported DEF DiscoveryBegins, published
<1>4. CASE Search \/ SearchFails
  BY <1>4, SearchKeepsGithubInv, SearchFailsKeepsGithubInv, NothingIsReported
     DEF SearchFails, published
<1>5. CASE \E p \in Pulls : PullArrives(p)
  BY <1>5, PullArrivesKeepsGithubInv
<1>6. CASE \E p \in Pulls : ChecksArrive(p)
  BY <1>6, ChecksArriveKeepsGithubInv
<1>7. CASE \E p \in Pulls : ReviewsArrive(p)
  BY <1>7, ReviewsArriveKeepsGithubInv
<1>8. CASE \E p \in Pulls : RecordFails(p) \/ ReviewsFail(p)
  BY <1>8, FailuresKeepGithubInv
<1>9. CASE StrayArrives \/ AdapterRestarts
  BY <1>9, StrayArrivesKeepsGithubInv, AdapterRestartsKeepsGithubInv, NothingIsReported
     DEF StrayArrives, AdapterRestarts, published
<1> QED BY <1>1, <1>2, <1>3, <1>4, <1>5, <1>6, <1>7, <1>8, <1>9 DEF GithubNext

LEMMA GithubInvIsEnough ==
    ASSUME GithubInv
    PROVE  GithubTypeOK /\ ReadingsWereTrue
<1>1. GithubTypeOK
  <2>1. cache \in [Heads -> Entry \cup {Missing}]
    BY DEF GithubInv, Cached
  <2>2. \A p \in Pulls :
           /\ job[p].stage \in {"none", "queued", "pull", "details", "done", "failed"}
           /\ job[p].runs \in Verdicts \cup {Missing} /\ job[p].statuses \in Verdicts \cup {Missing}
           /\ job[p].stage = "details" => Incomplete(job[p])
    BY DEF GithubInv, JobsOK, JobOK
  <2> QED BY <2>1, <2>2 DEF GithubInv, SourceOK, WorkersOK, ItemsOK, Active, GithubTypeOK
<1>2. ASSUME NEW p \in Pulls
      PROVE  Honest(job[p], held.pulls[p], held.ci)
  BY DEF GithubInv, JobsOK
<1> QED BY <1>1, <1>2 DEF Honest, ReadingsWereTrue

\* "Our picture of it is current" (ADR-0003): whatever a poll holds, and whatever
\* it reports of a pull request, was true of it, and of the head it reports, at some
\* moment since the poll began, whatever changes at GitHub between its requests,
\* whatever the cache holds, and whatever earlier polls have left running beside
\* it; and no more than DISCOVERY_CONCURRENCY records are in hand.
THEOREM GithubReadingsAreOfThisPoll == GithubSpec => ReadingsAreOfThisPoll
<1>1. GithubInit => GithubInv
  BY InitEstablishesGithubInv
<1>2. GithubInv /\ [GithubNext]_githubVars => GithubInv'
  BY NextKeepsGithubInv
<1>3. GithubInv /\ [GithubNext]_githubVars => [ReportsWereTrue]_githubVars
  BY NextKeepsGithubInv
<1>4. GithubInv => GithubTypeOK /\ ReadingsWereTrue
  BY GithubInvIsEnough
<1> QED BY <1>1, <1>2, <1>3, <1>4, PTL DEF GithubSpec, ReadingsAreOfThisPoll

=============================================================================
