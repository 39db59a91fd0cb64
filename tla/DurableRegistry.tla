-------------------------- MODULE DurableRegistry --------------------------
(***************************************************************************)
(* What the camera registry of a server promises while clients add, delete *)
(* and clean cameras and mDNS threads find some: a set of cameras, changed *)
(* by one of them at a time, and a copy of it that a restart brings back.  *)
(* Adding and cleaning end with the copy brought up to date; a restart in  *)
(* the middle of that finds the old copy or an empty one.  Deleting does   *)
(* not touch the copy, so a restart may bring deleted cameras back, but it *)
(* loses none.                                                             *)
(***************************************************************************)
CONSTANT Cameras

VARIABLES
    listed,  \* the cameras of the list
    kept,    \* the cameras a restart would bring back
    saving   \* a command is still bringing the copy up to date

vars == <<listed, kept, saving>>

TypeOK ==
    /\ listed \subseteq Cameras
    /\ kept \subseteq Cameras
    /\ saving \in BOOLEAN

Init ==
    /\ listed = {}
    /\ kept = {}
    /\ saving = FALSE

Add(c) ==
    /\ ~saving
    /\ c \notin listed
    /\ listed' = listed \cup {c}
    /\ saving' = TRUE
    /\ UNCHANGED kept

\* A camera that is listed is found once more, by threads that looked at once.
FindAgain ==
    /\ ~saving
    /\ saving' = TRUE
    /\ UNCHANGED <<listed, kept>>

Clean ==
    /\ ~saving
    /\ listed' = {}
    /\ saving' = TRUE
    /\ UNCHANGED kept

Delete(c) ==
    /\ ~saving
    /\ listed' = listed \ {c}
    /\ UNCHANGED <<kept, saving>>

Truncate ==
    /\ saving
    /\ kept' = {}
    /\ UNCHANGED <<listed, saving>>

Save ==
    /\ saving
    /\ kept' = listed
    /\ saving' = FALSE
    /\ UNCHANGED listed

Restart ==
    /\ listed' = kept
    /\ saving' = FALSE
    /\ UNCHANGED kept

Next ==
    \/ \E c \in Cameras : Add(c) \/ Delete(c)
    \/ FindAgain
    \/ Clean
    \/ Truncate
    \/ Save
    \/ Restart

Spec == Init /\ [][Next]_vars

\* Unless the copy is being brought up to date, a restart loses no camera.
Covered == ~saving => listed \subseteq kept
=============================================================================
