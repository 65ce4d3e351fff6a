---------------------------- MODULE MCGilesPoll ----------------------------
(***************************************************************************)
(* GilesPoll on two tasks that wait for a decision or are done with a pull *)
(* request.  The meta file, the status log and the worker state all differ *)
(* between the two, so a poll that overlaps the change reads a mixture.    *)
(***************************************************************************)
EXTENDS GilesPoll

V(worker, pr, verb) == [worker |-> worker, scout |-> FALSE, pr |-> pr, verb |-> verb]

MCViews == { V("parked", FALSE, "needs-decision"), V("done", TRUE, "done") }

=============================================================================
