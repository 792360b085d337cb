-------------------------- MODULE MCDaemonLifecycle --------------------------
(* Small instances of the daemon's life cycle for TLC.                      *)
EXTENDS DaemonLifecycle, TLC

CONSTANTS c1, c2, c3, v1, v2

TwoCommands   == {c1, c2}
ThreeCommands == {c1, c2, c3}
TwoVersions   == {v1, v2}

(* Commands are interchangeable, and so are builds.                         *)
LifecycleSymmetry == Permutations(ThreeCommands) \cup Permutations(TwoVersions)
=============================================================================
