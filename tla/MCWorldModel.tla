---------------------------- MODULE MCWorldModel ----------------------------
(***************************************************************************)
(* WorldModel on a claude-code session and a second item, which reports as  *)
(* a GitHub pull request, an opencode session or a webhook item.           *)
(***************************************************************************)
EXTENDS WorldModel

S(id, source, state, reason, attention, severity) ==
    [id |-> id, source |-> source, state |-> state, reason |-> reason,
     attention |-> attention, severity |-> severity]

MCSignals ==
    { S("session", "claude-code", "blocked", "blocked_on_human", TRUE, "high"),
      S("session", "claude-code", "done", "ambient", FALSE, "info"),
      S("session", "claude-code", "working", "review_requested", TRUE, Absent),
      S("other", "github", "working", "failing_ci", TRUE, "medium"),
      S("other", "github", "working", "ambient", FALSE, Absent),
      S("other", "opencode", "error", Absent, Absent, Absent),
      S("other", "opencode", "working", "ambient", FALSE, "info"),
      S("other", "webhook", "needs_review", "ambient", TRUE, Absent) }

=============================================================================
