-------------------------- MODULE MCCameraRegistry --------------------------
(* CameraRegistry on small instances. *)
EXTENDS CameraRegistry, TLC

OneWordNames == {<<"front">>}

\* What clients send, by run.
ListCommands == {"add", "delete", "clean", "webcam"}
LiveCommands == {"add", "delete", "webcam", "rename"}
WaitCommands == {"add", "delete", "clean", "ip", "webcam", "broadcast", "scan"}

\* Cameras and handlers are interchangeable where nothing temporal is checked.
Symmetry == Permutations(Ips) \cup Permutations(Handlers)

UpDown == {"up", "down"}
AlwaysUp == {"up"}
=============================================================================
