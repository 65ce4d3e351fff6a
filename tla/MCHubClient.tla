---------------------------- MODULE MCHubClient ----------------------------
(***************************************************************************)
(* HubClient with two Hubs to pair with and a third that rejects the       *)
(* token.                                                                  *)
(***************************************************************************)
EXTENDS HubClient

\* A change takes the first item off the list, or at the second Hub every item.
MCRanked == [h \in Hubs |-> [v \in Versions |->
    IF v = 0 THEN <<"i1", "i2">> ELSE IF h = "home" THEN <<"i2">> ELSE << >>]]

=============================================================================
