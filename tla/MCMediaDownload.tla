-------------------------- MODULE MCMediaDownload --------------------------
(* MediaDownload on small instances. *)
EXTENDS MediaDownload, TLC

CONSTANTS s1, c1, c2

TwoCameras == <<[server |-> s1, camera |-> c1], [server |-> s1, camera |-> c2]>>

Symmetry ==
    Permutations(Masters) \cup Permutations(Downloaders) \cup Permutations(Requests)
=============================================================================
