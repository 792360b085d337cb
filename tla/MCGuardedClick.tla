---------------------------- MODULE MCGuardedClick ----------------------------
(* Small instances of confirmations and clicks for TLC.                     *)
EXTENDS GuardedClick, TLC

CONSTANTS n1, n2, s1, t1, u1, u2, yes, red

TwoNames    == {n1, n2}
OneSession  == {s1}
OneToken    == {t1}
TwoUrls     == {u1, u2}
OneText     == {yes}
OneTarget   == {red}

(* No two values of any of these sets are told apart.                       *)
ClickSymmetry == Permutations(TwoNames) \cup Permutations(TwoUrls)
=============================================================================
