-------------------------- MODULE MCApplySettings --------------------------
(* ApplySettings on small instances. *)
EXTENDS ApplySettings

CONSTANTS s1, s2, c1, c2

\* Both cameras on one server, or one on each of two.
OneServer == [c \in Cameras |-> s1]
OneEach == [c \in Cameras |-> IF c = c1 THEN s1 ELSE s2]
=============================================================================
