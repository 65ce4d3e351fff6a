------------------------------ MODULE MCOpencode ------------------------------
(***************************************************************************)
(* Two sessions, whose reports end with a question, an error, the end of   *)
(* the work or news of its progress; some of the texts match two           *)
(* classifiers.                                                            *)
(***************************************************************************)
EXTENDS Opencode

MCTexts == {{"blocked", "running"}, {"error", "done"}, {"done"}, {"running"}}
=============================================================================
