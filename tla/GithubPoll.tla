----------------------------- MODULE GithubPoll -----------------------------
(***************************************************************************)
(* How pull requests reach the world-model (packages/adapter-github        *)
(* index.ts poll, discover.ts, map.ts): a search per query, then for each  *)
(* pull request found, a few at a time, its head and mergeability, and for *)
(* the user's own ones its check runs, commit statuses and reviews, all    *)
(* three at once; then everything is reported in one callback.             *)
(*                                                                         *)
(* Every request is an await, and GitHub goes on changing in between.      *)
(* Checks are asked for conditionally, against a cache per head.  When a   *)
(* request fails the poll is abandoned, but a fetch of checks beside it is *)
(* not, and may write to the cache during a later poll.                    *)
(***************************************************************************)
EXTENDS Naturals, Sequences, FiniteSets, SequencesExt

CONSTANTS
    Pulls, Heads,
    Lasting,        \* those that stay open (a bound on the instance)
    Pictures,       \* per pull request, what may be true of it
    Checks,         \* per head, what its check runs and statuses may say
    Allowlist,      \* whether the user has given one
    Concurrency,    \* DISCOVERY_CONCURRENCY
    Missing,
    MaxFailures,    \* bound on failing requests and restarts
    MaxChanges      \* bound on what changes at GitHub during one poll

Matches == {"review_requested", "author", "assignee", "allowlist"}
Verdicts == {"none", "pending", "failing", "green"}
Check == [runs : Verdicts, statuses : Verdicts]
Picture == [roles : SUBSET Matches \ {{}}, head : Heads, mergeable : BOOLEAN,
            reviews : Seq([by : STRING, state : {"APPROVED", "CHANGES_REQUESTED",
                                                 "COMMENTED", "DISMISSED"}])]

ASSUME PullsAssumption == IsFiniteSet(Pulls)
ASSUME PicturesAssumption == \A p \in Pulls : Pictures[p] \subseteq Picture /\ Pictures[p] # {}
ASSUME ChecksAssumption == \A h \in Heads : Checks[h] \subseteq Check /\ Checks[h] # {}
ASSUME LastingAssumption == Lasting \subseteq Pulls
ASSUME ConcurrencyAssumption == Concurrency \in Nat \ {0}
ASSUME FailuresAssumption == MaxFailures \in Nat /\ MaxChanges \in Nat
ASSUME NothingAssumption ==
    Missing \notin Verdicts /\ Missing \notin Heads /\ Missing \notin BOOLEAN

VARIABLES
    \* GitHub
    open,       \* the open pull requests
    picture,    \* per pull request, its head, reviews, whom it concerns
    ci,         \* per head, its check runs and statuses
    \* the world-model and the adapter's memory
    pullItem,       \* per pull request, what its item reports
    actionsByItem,  \* and the actions the adapter would carry out
    cache,      \* checkCache
    \* the poll that is running
    polling,    \* the guard against a second poll
    query,      \* the search it awaits, 0 when they are done
    job,        \* per pull request, what is known of it
    strays,     \* fetches of checks that outlive their poll
    \* history
    held,       \* what has been true since the poll began
    vouched,    \* the items the last heartbeat refreshed
    failures,
    changes

github == <<open, picture, ci>>
published == <<pullItem, actionsByItem, vouched>>
githubVars == <<github, published, cache, polling, query, job, strays, held, failures, changes>>

-----------------------------------------------------------------------------
(* discover.ts, map.ts: what the answers amount to.                        *)

\* verdictByReviewer: the reviews in the order of their time, a comment is no
\* verdict, and a later verdict replaces an earlier one.
LatestWins(verdicts, review) == [verdicts EXCEPT ![review.by] = review.state]

Supersede(verdicts, review) ==
    IF review.state = "COMMENTED" THEN verdicts ELSE [verdicts EXCEPT ![review.by] = review.state]

isApprovedByReviews(reviews) ==
    LET reviewers == {reviews[i].by : i \in DOMAIN reviews}
        verdicts == FoldLeft(Supersede, [r \in reviewers |-> "none"], reviews)
        standing == {verdicts[r] : r \in reviewers}
    IN  "APPROVED" \in standing /\ "CHANGES_REQUESTED" \notin standing

failing(check) == "failing" \in {check.runs, check.statuses}

green(check) ==
    /\ {check.runs, check.statuses} \subseteq {"none", "green"}
    /\ "green" \in {check.runs, check.statuses}

NoChecks == [runs |-> "none", statuses |-> "none"]

ReviewActions == {"approve", "comment", "request_changes"}

classify(matches, check, approved, mergeable) ==
    LET needsReview == matches \cap {"review_requested", "assignee"} # {}
        ready == green(check) /\ approved /\ mergeable
        actions == (IF needsReview THEN ReviewActions ELSE {}) \cup
                   (IF ready THEN {"merge"} ELSE {})
    IN  CASE failing(check) -> [reason |-> "failing_ci", actions |-> actions \cup {"rerun"}]
          [] ~ failing(check) /\ needsReview ->
                [reason |-> "review_requested", actions |-> actions]
          [] ~ failing(check) /\ ~ needsReview /\ ready ->
                [reason |-> "awaiting_merge", actions |-> actions]
          [] OTHER -> [reason |-> "ambient", actions |-> {}]

Unreported == [reason |-> "none", actions |-> {}]

\* Checks and reviews are fetched only for these.
Followed(matches) == matches \cap {"author", "allowlist"} # {}

-----------------------------------------------------------------------------
Entry == [runsTag : Verdicts, runs : Verdicts, statusesTag : Verdicts, statuses : Verdicts]

NoJob == [stage |-> "none", matches |-> {}, head |-> Missing, mergeable |-> FALSE,
          cached |-> Missing, runs |-> Missing, statuses |-> Missing, approved |-> Missing]
NoJobs == [p \in Pulls |-> NoJob]

\* fetchChecks, and the record, still await something.
Unchecked(f) == f.runs = Missing \/ f.statuses = Missing
Incomplete(j) == Unchecked(j) \/ j.approved = Missing

Queries == <<"review_requested", "author", "assignee">>
           \o IF Allowlist THEN <<"allowlist">> ELSE << >>

GithubTypeOK ==
    /\ open \subseteq Pulls /\ picture \in [Pulls -> Picture] /\ ci \in [Heads -> Check]
    /\ \A p \in Pulls : pullItem[p] = Unreported \/ actionsByItem[p] = {} \/ actionsByItem[p] = pullItem[p].actions
    /\ cache \in [Heads -> Entry \cup {Missing}]
    /\ \A p \in Pulls :
        /\ job[p].stage \in {"none", "queued", "pull", "details", "done", "failed"}
        /\ job[p].runs \in Verdicts \cup {Missing} /\ job[p].statuses \in Verdicts \cup {Missing}
        /\ job[p].stage = "details" => Incomplete(job[p])
    /\ query \in 0 .. Len(Queries)
    /\ ~ polling => query = 0 /\ job = NoJobs
    /\ Cardinality({p \in Pulls : job[p].stage \in {"pull", "details"}}) <= Concurrency

Nothing == [pulls |-> [p \in Pulls |-> {}], ci |-> [h \in Heads |-> {}]]

GithubInit ==
    /\ open \in {S \in SUBSET Pulls : Lasting \subseteq S}
    /\ picture \in [Pulls -> UNION {Pictures[p] : p \in Pulls}]
    /\ \A p \in Pulls : picture[p] \in Pictures[p]
    /\ ci \in [Heads -> UNION {Checks[h] : h \in Heads}]
    /\ \A h \in Heads : ci[h] \in Checks[h]
    /\ pullItem = [p \in Pulls |-> Unreported] /\ actionsByItem = [p \in Pulls |-> {}] /\ vouched = {}
    /\ cache = [h \in Heads |-> Missing]
    /\ polling = FALSE /\ query = 0 /\ job = NoJobs /\ strays = {}
    /\ held = Nothing /\ failures = 0 /\ changes = 0

OneMoreFailure == failures < MaxFailures /\ failures' = failures + 1

-----------------------------------------------------------------------------
(* GitHub.                                                                 *)

\* Something changes, and is remembered while a poll is running.
Change(pulls, checks) ==
    /\ IF polling
       THEN /\ changes < MaxChanges /\ changes' = changes + 1
            /\ held' = [pulls |-> [p \in Pulls |-> held.pulls[p] \cup pulls[p]],
                        ci |-> [h \in Heads |-> held.ci[h] \cup checks[h]]]
       ELSE UNCHANGED <<held, changes>>
    /\ UNCHANGED <<published, cache, polling, query, job, strays, failures>>

Only(S, x, v) == [y \in S |-> IF y = x THEN {v} ELSE {}]

PullOpens(p) ==
    /\ p \notin open
    /\ open' = open \cup {p}
    /\ Change(Only(Pulls, p, picture[p]), Nothing.ci)
    /\ UNCHANGED <<picture, ci>>

PullCloses(p) ==
    /\ p \in open \ Lasting
    /\ open' = open \ {p}
    /\ Change(Nothing.pulls, Nothing.ci)
    /\ UNCHANGED <<picture, ci>>

PullChanges(p) ==
    /\ p \in open
    /\ \E v \in Pictures[p] \ {picture[p]} :
        picture' = [picture EXCEPT ![p] = v] /\ Change(Only(Pulls, p, v), Nothing.ci)
    /\ UNCHANGED <<open, ci>>

ChecksChange(h) ==
    /\ \E c \in Checks[h] \ {ci[h]} :
        ci' = [ci EXCEPT ![h] = c] /\ Change(Nothing.pulls, Only(Heads, h, c))
    /\ UNCHANGED <<open, picture>>

-----------------------------------------------------------------------------
(* The poll.                                                               *)

\* Nothing of a poll outlives it but its effects and its strays.
PollEnds == polling' = FALSE /\ query' = 0 /\ job' = NoJobs /\ held' = Nothing /\ changes' = 0

DiscoveryBegins ==
    /\ ~ polling
    /\ polling' = TRUE /\ query' = 1
    /\ held' = [pulls |-> [p \in Pulls |-> IF p \in open THEN {picture[p]} ELSE {}],
                ci |-> [h \in Heads |-> {ci[h]}]]
    /\ UNCHANGED <<github, published, cache, job, strays, failures, changes>>

ReportWithoutSweep(jobs, store) ==
    LET found == {p \in Pulls : jobs[p].stage = "done"}
        reading(p) == classify(jobs[p].matches, [runs |-> jobs[p].runs, statuses |-> jobs[p].statuses],
                               jobs[p].approved, jobs[p].mergeable)
    IN  /\ pullItem' = [p \in Pulls |-> IF p \in found THEN reading(p) ELSE pullItem[p]]
        /\ actionsByItem' = [p \in Pulls |-> IF p \in found THEN reading(p).actions ELSE actionsByItem[p]]
        /\ cache' = store
        /\ vouched' = {p \in Pulls : pullItem'[p] # Unreported}
        /\ PollEnds

\* Everything found is emitted, the rest swept from the caches, and the whole
\* source heartbeaten: every item of it, in this poll or not.
ReportPulls(jobs, store) ==
    LET found == {p \in Pulls : jobs[p].stage = "done"}
        reading(p) == classify(jobs[p].matches, [runs |-> jobs[p].runs, statuses |-> jobs[p].statuses],
                               jobs[p].approved, jobs[p].mergeable)
    IN  /\ pullItem' = [p \in Pulls |-> IF p \in found THEN reading(p) ELSE pullItem[p]]
        /\ actionsByItem' = [p \in Pulls |-> IF p \in found THEN reading(p).actions ELSE {}]
        /\ cache' = [h \in Heads |-> IF \E p \in found : jobs[p].head = h THEN store[h] ELSE Missing]
        /\ vouched' = {p \in Pulls : pullItem'[p] # Unreported}
        /\ PollEnds

\* A worker of mapWithConcurrency has ended a record: it takes the next one
\* unless one has failed; the last worker ends the poll.
Settle(jobs, store) ==
    LET failed == \E p \in Pulls : jobs[p].stage = "failed"
        queued == {p \in Pulls : jobs[p].stage = "queued"}
    IN  IF queued # {} /\ ~ failed
        THEN /\ \E q \in queued : job' = [jobs EXCEPT ![q].stage = "pull"]
             /\ cache' = store /\ UNCHANGED <<published, polling, query, held, changes>>
        ELSE IF \E p \in Pulls : jobs[p].stage \in {"pull", "details"}
        THEN job' = jobs /\ cache' = store /\ UNCHANGED <<published, polling, query, held, changes>>
        ELSE IF failed THEN PollEnds /\ cache' = store /\ UNCHANGED published
        ELSE ReportPulls(jobs, store)

Start(jobs) ==
    LET found == {p \in Pulls : jobs[p].matches # {}}
    IN  IF found = {} THEN ReportPulls(NoJobs, cache)
        ELSE /\ \E first \in SUBSET found :
                  /\ Cardinality(first) = Concurrency \/ first = found
                  /\ Cardinality(first) <= Concurrency
                  /\ job' = [p \in Pulls |-> [jobs[p] EXCEPT !.stage =
                        IF p \in first THEN "pull" ELSE IF p \in found THEN "queued" ELSE "none"]]
             /\ query' = 0
             /\ UNCHANGED <<published, cache, polling, held, changes>>

\* A search is answered with the open pull requests that match it.
Search ==
    /\ query # 0
    /\ LET hit(p) == p \in open /\ Queries[query] \in picture[p].roles
           jobs == [p \in Pulls |->
                       [job[p] EXCEPT !.matches = IF hit(p) THEN @ \cup {Queries[query]} ELSE @]]
       IN  IF query < Len(Queries)
           THEN query' = query + 1 /\ job' = jobs /\ UNCHANGED <<published, cache, polling, held, changes>>
           ELSE Start(jobs)
    /\ UNCHANGED <<github, strays, failures>>

\* pulls.get; then the checks and the reviews, or nothing more.
PullArrives(p) ==
    LET v == picture[p]
        j == [job[p] EXCEPT !.head = v.head, !.mergeable = v.mergeable]
    IN  /\ job[p].stage = "pull"
        /\ IF Followed(j.matches)
           THEN /\ job' = [job EXCEPT ![p] = [j EXCEPT !.stage = "details", !.cached = cache[v.head]]]
                /\ UNCHANGED <<published, cache, polling, query, held, changes>>
           ELSE Settle([job EXCEPT ![p] = [j EXCEPT !.stage = "done", !.runs = "none",
                                               !.statuses = "none", !.approved = FALSE]], cache)
        /\ UNCHANGED <<github, strays, failures>>

\* A request with If-None-Match.  The tag GitHub gives to an answer identifies
\* what it says; when the tag still fits, the cached items are used.
TrustingTheCache(tag, items, answer) == items

Conditional(tag, items, answer) == IF tag = answer THEN items ELSE answer

RunsOf(f) ==
    IF f.cached = Missing THEN ci[f.head].runs
    ELSE Conditional(f.cached.runsTag, f.cached.runs, ci[f.head].runs)

StatusesOf(f) ==
    IF f.cached = Missing THEN ci[f.head].statuses
    ELSE Conditional(f.cached.statusesTag, f.cached.statuses, ci[f.head].statuses)

\* fetchChecks: the two answers, in either order.
Fetches(f) ==
    {g \in {[f EXCEPT !.runs = RunsOf(f)]} : f.runs = Missing} \cup
    {g \in {[f EXCEPT !.statuses = StatusesOf(f)]} : f.statuses = Missing}

\* When both are there, it writes the cache.
Stored(f) ==
    IF Unchecked(f) THEN cache
    ELSE [cache EXCEPT ![f.head] = [runsTag |-> f.runs, runs |-> f.runs,
                                    statusesTag |-> f.statuses, statuses |-> f.statuses]]

\* Promise.all: the record is done when checks and approval are there.
Advance(p, j, store) ==
    IF Incomplete(j)
    THEN job' = [job EXCEPT ![p] = j] /\ cache' = store /\ UNCHANGED <<published, polling, query, held, changes>>
    ELSE Settle([job EXCEPT ![p] = [j EXCEPT !.stage = "done", !.cached = Missing]], store)

ChecksArrive(p) ==
    /\ job[p].stage = "details"
    /\ \E j \in Fetches(job[p]) : Advance(p, j, Stored(j))
    /\ UNCHANGED <<github, strays, failures>>

ReviewsArrive(p) ==
    /\ job[p].stage = "details" /\ job[p].approved = Missing
    /\ Advance(p, [job[p] EXCEPT !.approved = isApprovedByReviews(picture[p].reviews)], cache)
    /\ UNCHANGED <<github, strays, failures>>

-----------------------------------------------------------------------------
(* Failures.                                                               *)

\* A search fails: nothing has been done yet, and nothing is.
SearchFails ==
    /\ query # 0 /\ OneMoreFailure
    /\ PollEnds
    /\ UNCHANGED <<github, published, cache, strays>>

\* A record's request fails, and the record with it: no other is begun, and when
\* those under way have ended, the poll throws.
Fail(p) ==
    /\ OneMoreFailure
    /\ Settle([job EXCEPT ![p] = [NoJob EXCEPT !.stage = "failed", !.matches = job[p].matches]], cache)
    /\ UNCHANGED github

RecordFails(p) ==
    /\ \/ job[p].stage = "pull"
       \/ job[p].stage = "details" /\ Unchecked(job[p])
    /\ Fail(p)
    /\ UNCHANGED strays

\* Promise.all rejects, but fetchChecks goes on beside it.
ReviewsFail(p) ==
    /\ job[p].stage = "details" /\ job[p].approved = Missing
    /\ Fail(p)
    /\ strays' = IF Unchecked(job[p])
                 THEN strays \cup {[f \in {"head", "cached", "runs", "statuses"} |-> job[p][f]]}
                 ELSE strays

\* A stray gets its next answer, or an error that nobody hears of.
StrayArrives ==
    /\ \E f \in strays :
        \/ strays' = strays \ {f} /\ UNCHANGED cache
        \/ \E g \in Fetches(f) :
              /\ strays' = (strays \ {f}) \cup IF Unchecked(g) THEN {g} ELSE {}
              /\ cache' = Stored(g)
    /\ UNCHANGED <<github, published, polling, query, job, held, failures, changes>>

\* The process ends and a new one starts: the items are stored, the rest is not.
AdapterRestarts ==
    /\ OneMoreFailure
    /\ actionsByItem' = [p \in Pulls |-> {}] /\ cache' = [h \in Heads |-> Missing] /\ strays' = {}
    /\ PollEnds
    /\ UNCHANGED <<github, pullItem, vouched>>

-----------------------------------------------------------------------------
Answer == Search \/ \E p \in Pulls : PullArrives(p) \/ ChecksArrive(p) \/ ReviewsArrive(p)

GithubNext ==
    \/ \E p \in Pulls : PullOpens(p)
    \/ \E p \in Pulls : PullCloses(p)
    \/ \E p \in Pulls : PullChanges(p)
    \/ \E h \in Heads : ChecksChange(h)
    \/ DiscoveryBegins
    \/ Search
    \/ \E p \in Pulls : PullArrives(p)
    \/ \E p \in Pulls : ChecksArrive(p)
    \/ \E p \in Pulls : ReviewsArrive(p)
    \/ SearchFails
    \/ \E p \in Pulls : RecordFails(p)
    \/ \E p \in Pulls : ReviewsFail(p)
    \/ StrayArrives
    \/ AdapterRestarts

\* The interval timer fires, and requests are answered or fail.
GithubSpec ==
    /\ GithubInit /\ [][GithubNext]_githubVars
    /\ WF_githubVars(DiscoveryBegins) /\ WF_githubVars(Answer)

-----------------------------------------------------------------------------
(* Properties.                                                             *)

\* Whatever a poll holds of a pull request was true of it, or of that very head,
\* at some moment since the poll began.
ReadingsWereTrue ==
    \A p \in Pulls :
        LET j == job[p]  pulls == held.pulls[p]
        IN  /\ j.matches \subseteq UNION {v.roles : v \in pulls}
            /\ j.head # Missing =>
                  /\ \E v \in pulls : v.head = j.head /\ v.mergeable = j.mergeable
                  /\ j.approved # Missing /\ Followed(j.matches) =>
                        \E v \in pulls : j.approved = isApprovedByReviews(v.reviews)
                  /\ j.runs # Missing /\ Followed(j.matches) =>
                        \E c \in held.ci[j.head] : j.runs = c.runs
                  /\ j.statuses # Missing /\ Followed(j.matches) =>
                        \E c \in held.ci[j.head] : j.statuses = c.statuses

\* So was whatever it reports: an item is what classify makes of such readings.
ReportsWereTrue ==
    \A p \in Pulls :
        \/ pullItem'[p] = pullItem[p]
        \/ \E v \in held.pulls[p], matches \in SUBSET UNION {w.roles : w \in held.pulls[p]} :
              IF Followed(matches)
              THEN \E w \in held.pulls[p], c, d \in held.ci[v.head] :
                      pullItem'[p] = classify(matches, [runs |-> c.runs, statuses |-> d.statuses],
                                              isApprovedByReviews(w.reviews), v.mergeable)
              ELSE pullItem'[p] = classify(matches, NoChecks, FALSE, v.mergeable)

\* "Our picture of it is current" (ADR-0003): in spite of caches, strays, earlier
\* failures and changes between its requests, a poll reports of a pull request
\* what was true of it since the poll began, and of the head it reports.
ReadingsAreOfThisPoll ==
    /\ [](GithubTypeOK /\ ReadingsWereTrue)
    /\ [][ReportsWereTrue]_githubVars

\* "At least one reviewer's standing verdict is APPROVED and none is
\* CHANGES_REQUESTED" (discover.ts:391).
StandingIn(reviews, state) ==
    \E i \in DOMAIN reviews :
        /\ reviews[i].state = state
        /\ \A k \in DOMAIN reviews :
              k > i /\ reviews[k].by = reviews[i].by => reviews[k].state = "COMMENTED"

Reported(v, check) ==
    IF Followed(v.roles)
    THEN classify(v.roles, check, StandingIn(v.reviews, "APPROVED")
                                  /\ ~ StandingIn(v.reviews, "CHANGES_REQUESTED"), v.mergeable)
    ELSE classify(v.roles, NoChecks, FALSE, v.mergeable)

\* A pull request that stays as it is is shown as it is in the end: no reading
\* mixed from before and after a push, no failed poll, no stale cache entry and
\* no restart has the last word.
SettledPullsAreShown ==
    \A p \in Pulls : \A v \in Pictures[p] : \A c \in Checks[v.head] :
        <>[](p \in open /\ picture[p] = v /\ ci[v.head] = c) => <>[](pullItem[p] = Reported(v, c))

\* "The Hub runs ambiently for days, so unbounded per-SHA and per-item maps are
\* a real leak" (index.ts:142): a head no open pull request has any more does
\* not stay in the cache, even if a stray puts it there after the sweep.
OldHeadsAreSwept ==
    \A h \in Heads :
        <>[](\A p \in open : picture[p].head # h) /\ <>[](strays = {}) => <>[](cache[h] = Missing)

=============================================================================
