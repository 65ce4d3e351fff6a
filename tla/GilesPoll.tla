------------------------------ MODULE GilesPoll ------------------------------
(***************************************************************************)
(* How the Giles orchestrator's tasks reach the world-model                *)
(* (packages/adapter-giles/src/index.ts poll, map.ts, state.ts): the Hub   *)
(* polls Giles's files, which Giles goes on changing, reports every task   *)
(* in flight, and gives a terminal signal to each task that has left.      *)
(*                                                                         *)
(* A poll awaits between its reads: the backlog, then for each task its    *)
(* meta file, its status log and the worker-state helper.  The backlog may *)
(* be read while Giles rewrites it: before its heading is there, or with   *)
(* the heading and only some of the tasks.  What the Hub knows of earlier  *)
(* polls (knownTaskIds, actionsByItem) is lost with the process; the items *)
(* are not.                                                                *)
(***************************************************************************)
EXTENDS Naturals, FiniteSets

CONSTANTS
    Tasks,
    Views,          \* what may be true of a task: [worker, scout, pr, verb]
    NoTask,
    MaxTrouble      \* bound on unreadable files, failing helpers and restarts

Workers == {"working", "parked", "blocked", "done", "failed", "unknown"}
Verbs   == {"none", "working", "needs-decision", "blocked", "done", "failed"}
View    == [worker : Workers, scout : BOOLEAN, pr : BOOLEAN, verb : Verbs]

ASSUME ViewsAssumption == Views \subseteq View /\ Views # {}
ASSUME NoTaskAssumption == NoTask \notin Tasks
ASSUME TroubleAssumption == MaxTrouble \in Nat

VARIABLES
    \* Giles's home, as it really is
    inFlight,   \* the tasks under `## In flight`
    view,       \* per task, its meta, status log and worker state
    heading,    \* the backlog file is there and has its heading
    unwritten,  \* the tasks whose lines are not in it yet
    \* the world-model and the orchestrator's memory
    item,       \* per task, what its item reports
    known,      \* knownTaskIds
    offered,    \* actionsByItem
    \* the poll that is running
    running,    \* the guard against a second poll
    stage,      \* what it awaits: backlog, meta, status or worker
    section,    \* the backlog it read had the heading
    refs,       \* the tasks it parsed from the backlog
    todo,       \* those it has not yet reported
    current,    \* the one it is reading
    partial,    \* what it has read of it
    \* history
    truth,      \* the tasks in flight that the backlog it read gave no reason to dismiss
    beat,       \* whether the last heartbeat came from a backlog that was read
    trouble

home == <<inFlight, view, heading, unwritten>>
memory == <<item, known, offered>>
progress == <<stage, section, refs, todo, current, partial, truth>>
gilesVars == <<home, memory, running, progress, beat, trouble>>

-----------------------------------------------------------------------------
(* rungFor: the lifecycle table.                                           *)

Rung(state, reason, severity, actions) ==
    [state |-> state, reason |-> reason, severity |-> severity, actions |-> actions]

Ambient(actions) == Rung("working", "ambient", "info", actions)
BlockedRung == Rung("blocked", "blocked_on_human", "high", {"answer", "redirect"})

Departed == Rung("done", "ambient", "info", {})
NoItem   == Rung("none", "ambient", "info", {})

rungFor(v) ==
    CASE v.worker = "working" -> Ambient({"redirect", "status"})
      [] v.worker = "unknown" -> Ambient({"status"})
      [] v.worker = "failed" -> Rung("error", "errored", "high", {"status", "redirect"})
      [] v.worker = "blocked" -> BlockedRung
      [] v.worker = "parked" ->
            IF v.verb \in {"needs-decision", "blocked"} THEN BlockedRung
            ELSE Rung("needs_review", "review_requested", "medium",
                      {"approve", "deny", "redirect"})
      [] v.worker = "done" ->
            IF v.scout THEN Rung("needs_review", "review_requested", "low", {"status"})
            ELSE IF v.pr THEN Rung("needs_review", "awaiting_merge", "medium",
                                   {"ship", "deny", "redirect"})
            ELSE Rung("needs_review", "review_requested", "medium", {"status", "redirect"})

\* "Every Giles rung maps onto the existing vocabulary - zero new enum members."
Item == [state : {"none", "working", "blocked", "needs_review", "done", "error"},
         reason : {"ambient", "blocked_on_human", "errored", "review_requested", "awaiting_merge"},
         severity : {"info", "low", "medium", "high"},
         actions : SUBSET {"status", "answer", "redirect", "approve", "deny", "ship"}]

NoView == [worker |-> "unknown", scout |-> FALSE, pr |-> FALSE, verb |-> "none"]

GilesTypeOK ==
    /\ inFlight \subseteq Tasks /\ view \in [Tasks -> Views]
    /\ heading \in BOOLEAN /\ unwritten \subseteq Tasks
    /\ item \in [Tasks -> Item]
    /\ known \subseteq Tasks
    /\ offered \in [Tasks -> SUBSET {"status", "answer", "redirect", "approve", "deny", "ship"}]
    /\ running \in BOOLEAN /\ section \in BOOLEAN
    /\ stage \in {"idle", "backlog", "meta", "status", "worker"}
    /\ refs \subseteq Tasks /\ todo \subseteq refs /\ truth \subseteq Tasks
    /\ current \in Tasks \cup {NoTask} /\ partial \in View
    /\ beat \in {"none", "read", "blind"}
    /\ trouble \in 0 .. MaxTrouble

GilesInit ==
    /\ inFlight = {} /\ view \in [Tasks -> Views] /\ heading = TRUE /\ unwritten = {}
    /\ item = [t \in Tasks |-> NoItem]
    /\ known = {} /\ offered = [t \in Tasks |-> {}]
    /\ running = FALSE /\ stage = "idle" /\ section = FALSE
    /\ refs = {} /\ todo = {} /\ truth = {}
    /\ current = NoTask /\ partial = NoView
    /\ beat = "none" /\ trouble = 0

Troubled == trouble < MaxTrouble /\ trouble' = trouble + 1

-----------------------------------------------------------------------------
(* Giles at work.                                                          *)

TaskEnters(t) ==
    /\ t \notin inFlight
    /\ inFlight' = inFlight \cup {t}
    /\ \E v \in Views : view' = [view EXCEPT ![t] = v]
    /\ UNCHANGED <<heading, unwritten, memory, running, progress, beat, trouble>>

TaskChanges(t) ==
    /\ t \in inFlight
    /\ \E v \in Views \ {view[t]} : view' = [view EXCEPT ![t] = v]
    /\ UNCHANGED <<inFlight, heading, unwritten, memory, running, progress, beat, trouble>>

TaskLeaves(t) ==
    /\ t \in inFlight
    /\ inFlight' = inFlight \ {t}
    /\ UNCHANGED <<view, heading, unwritten, memory, running, progress, beat, trouble>>

\* The backlog is missing, or Giles has not written as far as its heading.
BacklogGoes ==
    /\ heading /\ Troubled
    /\ heading' = FALSE /\ unwritten' = {}
    /\ UNCHANGED <<inFlight, view, memory, running, progress, beat>>

\* Giles has written the heading, but not yet every task below it.
BacklogTears ==
    /\ heading /\ unwritten = {} /\ Troubled
    /\ unwritten' \in (SUBSET inFlight) \ {{}}
    /\ UNCHANGED <<inFlight, view, heading, memory, running, progress, beat>>

BacklogReturns ==
    /\ ~ heading \/ unwritten # {}
    /\ heading' = TRUE /\ unwritten' = {}
    /\ UNCHANGED <<inFlight, view, memory, running, progress, beat, trouble>>

\* parseBacklogInFlight: the tasks whose lines stand under the heading.
Listed == IF heading THEN inFlight \ unwritten ELSE {}

\* What a reader of the file may not take for gone: under the heading it is
\* misled by the lines that are not there yet.
Spared == IF heading THEN Listed ELSE inFlight

-----------------------------------------------------------------------------
(* The poll.                                                               *)

\* The interval timer, or start(): nothing while a poll is running.
PollBegins ==
    /\ ~ running
    /\ running' = TRUE /\ stage' = "backlog"
    /\ UNCHANGED <<home, memory, section, refs, todo, current, partial, truth, beat, trouble>>

\* Reporting the last task ends the poll in the same callback: the sweep over
\* the known tasks, the heartbeat, `finally`.
EndPollSweepingAlways(ids, hasSection, items, reported, actions) ==
    LET gone == reported \ ids
    IN  /\ item' = [t \in Tasks |-> IF t \in gone THEN Departed ELSE items[t]]
        /\ known' = reported \ gone
        /\ offered' = [t \in Tasks |-> IF t \in gone THEN {} ELSE actions[t]]
        /\ beat' = IF hasSection THEN "read" ELSE "blind"
        /\ running' = FALSE

EndPollKeepingActions(ids, hasSection, items, reported, actions) ==
    LET gone == IF hasSection THEN reported \ ids ELSE {}
    IN  /\ item' = [t \in Tasks |-> IF t \in gone THEN Departed ELSE items[t]]
        /\ known' = reported \ gone
        /\ offered' = actions
        /\ beat' = IF hasSection THEN "read" ELSE "blind"
        /\ running' = FALSE

EndPollWithoutSignal(ids, hasSection, items, reported, actions) ==
    LET gone == IF hasSection THEN reported \ ids ELSE {}
    IN  /\ item' = items
        /\ known' = reported
        /\ offered' = [t \in Tasks |-> IF t \in gone THEN {} ELSE actions[t]]
        /\ beat' = IF hasSection THEN "read" ELSE "blind"
        /\ running' = FALSE

EndPoll(ids, hasSection, items, reported, actions) ==
    LET gone == IF hasSection THEN reported \ ids ELSE {}
    IN  /\ item' = [t \in Tasks |-> IF t \in gone THEN Departed ELSE items[t]]
        /\ known' = reported \ gone
        /\ offered' = [t \in Tasks |-> IF t \in gone THEN {} ELSE actions[t]]
        /\ beat' = IF hasSection THEN "read" ELSE "blind"
        /\ running' = FALSE

\* Nothing of a poll outlives it but its effects.
Rest ==
    /\ stage' = "idle" /\ section' = FALSE
    /\ refs' = {} /\ todo' = {} /\ truth' = {}
    /\ current' = NoTask /\ partial' = NoView

\* The backlog is read: its tasks in the order of the file, which is left open.
ReadBacklog ==
    /\ stage = "backlog"
    /\ IF Listed # {}
       THEN /\ section' = heading
            /\ refs' = Listed /\ todo' = Listed /\ truth' = Spared
            /\ current' \in Listed /\ stage' = "meta"
            /\ UNCHANGED <<memory, running, partial, beat>>
       ELSE /\ EndPoll({}, heading, item, known, offered)
            /\ Rest
    /\ UNCHANGED <<home, trouble>>

\* state/<task>.meta, then state/<task>.status, each in an await of its own.
ReadMeta ==
    /\ stage = "meta"
    /\ partial' = [NoView EXCEPT !.pr = view[current].pr, !.scout = view[current].scout]
    /\ stage' = "status"
    /\ UNCHANGED <<home, memory, running, section, refs, todo, current, truth, beat, trouble>>

ReadStatus ==
    /\ stage = "status"
    /\ partial' = [partial EXCEPT !.verb = view[current].verb]
    /\ stage' = "worker"
    /\ UNCHANGED <<home, memory, running, section, refs, todo, current, truth, beat, trouble>>

\* The worker's state, or `unknown` when the helper fails; then the signal.
Report(worker) ==
    LET rung == rungFor([partial EXCEPT !.worker = worker])
        items == [item EXCEPT ![current] = rung]
        actions == [offered EXCEPT ![current] = rung.actions]
    IN  /\ stage = "worker"
        /\ IF worker = view[current].worker THEN UNCHANGED trouble
                                            ELSE worker = "unknown" /\ Troubled
        /\ IF todo = {current}
           THEN EndPoll(refs, section, items, known \cup {current}, actions) /\ Rest
           ELSE /\ item' = items /\ known' = known \cup {current} /\ offered' = actions
                /\ todo' = todo \ {current} /\ current' \in todo'
                /\ partial' = NoView /\ stage' = "meta"
                /\ UNCHANGED <<running, section, refs, truth, beat>>
        /\ UNCHANGED home

\* A file that is there cannot be read: the poll is abandoned, without a sweep
\* or a heartbeat; `finally` lets the next one run.
PollFailsForGood ==
    /\ running /\ Troubled
    /\ Rest
    /\ UNCHANGED <<home, memory, running, beat>>

PollFails ==
    /\ running /\ Troubled
    /\ running' = FALSE
    /\ Rest
    /\ UNCHANGED <<home, memory, beat>>

\* The Hub goes down, Giles does not; a new Hub starts with an empty memory.
Restart ==
    /\ Troubled
    /\ known' = {} /\ offered' = [t \in Tasks |-> {}]
    /\ running' = FALSE
    /\ Rest
    /\ UNCHANGED <<home, item, beat>>

-----------------------------------------------------------------------------
PollStep == ReadBacklog \/ ReadMeta \/ ReadStatus \/ Report(view[current].worker)

GilesNext ==
    \/ \E t \in Tasks : TaskEnters(t)
    \/ \E t \in Tasks : TaskChanges(t)
    \/ \E t \in Tasks : TaskLeaves(t)
    \/ BacklogGoes
    \/ BacklogTears
    \/ BacklogReturns
    \/ PollBegins
    \/ ReadBacklog
    \/ ReadMeta
    \/ ReadStatus
    \/ \E worker \in Workers : Report(worker)
    \/ PollFails
    \/ Restart

GilesSafetySpec == GilesInit /\ [][GilesNext]_gilesVars

\* The interval timer fires, reads end, and a gap in the backlog is transient.
GilesFairness ==
    WF_gilesVars(PollBegins) /\ WF_gilesVars(PollStep) /\ WF_gilesVars(BacklogReturns)

GilesSpec == GilesSafetySpec /\ GilesFairness

-----------------------------------------------------------------------------
(* Properties.                                                             *)

\* The buttons an item shows are the actions dispatchAction will accept, in
\* the middle of a poll as well; a task that is gone or was reported by an
\* earlier process offers none.
ShownIsOffered ==
    /\ GilesTypeOK
    /\ \A t \in Tasks : offered[t] = IF t \in known THEN item[t].actions ELSE {}

\* "A transient read gap cannot mass-dismiss live items" (index.ts:249), as far as
\* the heading goes: a backlog without it dismisses no task in flight, one with it
\* only those whose lines it lacked, however late in the poll the sweep comes.
\* A backlog torn below its heading does dismiss live tasks; that they are shown
\* again is part of SettledTasksAreShown.
DismissedOnlyIfUnlisted ==
    [][\A t \in Tasks : (item'[t] = Departed /\ item[t] # Departed)
          => t \notin IF stage = "backlog" THEN Spared ELSE truth]_gilesVars

\* A task this process has reported does not stay after it has left: its item
\* gets the terminal signal, whatever polls fail or find the backlog missing.
ReportedTasksDepart ==
    \A t \in Tasks :
        (t \in known /\ t \notin inFlight) ~> (item[t] = Departed \/ t \notin known \/ t \in inFlight)

\* A task that stays as it is is shown as it is in the end: neither a torn
\* reading of its files, nor a dismissal for want of its line in the backlog, nor
\* a failed poll or restart has the last word.
SettledTasksAreShown ==
    \A t \in Tasks, v \in Views :
        <>[](t \in inFlight /\ view[t] = v) => <>[](item[t] = rungFor(v))

=============================================================================
