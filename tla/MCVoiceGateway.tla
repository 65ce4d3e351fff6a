--------------------------- MODULE MCVoiceGateway ---------------------------
(***************************************************************************)
(* VoiceGateway with a pull request and a task of the orchestrator, a      *)
(* client that works on both, and a second one whose only part is to use   *)
(* the sessions and to arm an action of its own.                           *)
(***************************************************************************)
EXTENDS VoiceGateway, TLC

MCOffers == [i \in {"pr", "task"} |-> IF i = "pr" THEN {"merge", "comment"} ELSE {"ship"}]

MCConfirming == {"merge", "ship"}

U(word, action, item, route) == [word |-> word, action |-> action, item |-> item, route |-> route]

MCSays == [c \in {"a", "b"} |->
    IF c = "b" THEN << {U("verb", "merge", "pr", "text")} >>
    ELSE << {U("verb", "ship", "task", "text"), U("verb", "comment", "pr", "text"),
             U("dispatch", None, None, "text"), U("other", None, "pr", "audio")},
            {U("verb", "ship", "task", "audio"), U("other", None, "pr", "audio"),
             U("confirm", "merge", "task", "text"), U("confirm dispatch", None, None, "text"),
             U("cancel", None, None, "cancel")},
            {U("post", None, "task", "text"), U("confirm", "merge", "task", "text")} >>]

MCSymmetry == Permutations(Handlers)

=============================================================================
