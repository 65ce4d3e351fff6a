---------------------------- MODULE MCGithubPoll ----------------------------
(***************************************************************************)
(* GithubPoll on a pull request of the user's own, which is pushed to      *)
(* while its checks run, and another, which only waits for a review.  The  *)
(* first is approved by one reviewer, who has commented on it afterwards,  *)
(* and later rejected by another.                                          *)
(***************************************************************************)
EXTENDS GithubPoll

R(who, state) == [by |-> who, state |-> state]

Approved == << R("r1", "APPROVED"), R("r1", "COMMENTED") >>
Rejected == << R("r1", "APPROVED"), R("r2", "CHANGES_REQUESTED") >>

MCPictures == [p \in Pulls |->
    IF p = "own"
    THEN { [roles |-> {"author"}, head |-> "h1", mergeable |-> TRUE, reviews |-> Approved],
           [roles |-> {"author", "assignee"}, head |-> "h2", mergeable |-> TRUE, reviews |-> Rejected] }
    ELSE { [roles |-> {"review_requested"}, head |-> "h3", mergeable |-> TRUE, reviews |-> << >>] }]

MCChecks == [h \in Heads |->
    IF h = "h1" THEN { [runs |-> "green", statuses |-> "none"],
                       [runs |-> "failing", statuses |-> "none"] }
    ELSE { [runs |-> "pending", statuses |-> "none"] }]

=============================================================================
