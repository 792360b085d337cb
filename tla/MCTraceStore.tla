---- MODULE MCTraceStore ----
(* Instance of TraceStore for TLC: see the table of runs in the README.     *)
EXTENDS TraceStore, TLC

CONSTANTS i1, i2, i3

ThreeTraces == {i1, i2, i3}

Alike == Permutations(ThreeTraces)
====
