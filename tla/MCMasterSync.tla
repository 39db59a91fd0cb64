---------------------------- MODULE MCMasterSync ----------------------------
(* MasterSync on small instances. *)
EXTENDS MasterSync

\* What update() polls for, and the part a single question needs.
AllQueries == <<"ip", "state", "media">>
ListOnly == <<"ip">>
=============================================================================
