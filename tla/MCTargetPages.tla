---- MODULE MCTargetPages ----
(* Instance of TargetPages for TLC: see the table of runs in the README.    *)
EXTENDS TargetPages, TLC

CONSTANTS c1, c2, t1, t2, n1

MCCalls == {c1, c2}
MCTargets == {t1, t2}
MCNames == {n1}

Alike == Permutations(MCCalls) \cup Permutations(MCTargets)
====
