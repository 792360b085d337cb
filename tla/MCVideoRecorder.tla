--------------------------- MODULE MCVideoRecorder ---------------------------
(* Small instances of the video recorder for TLC.                           *)
EXTENDS VideoRecorder

CONSTANTS c1, c2, p1, p2

TwoCallers == {c1, c2}
TwoPages   == {p1, p2}
=============================================================================
