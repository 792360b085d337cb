---- MODULE MCWaitEngine ----
(* Instance of WaitEngine for TLC: see the table of runs in the README.     *)
EXTENDS WaitEngine

CONSTANTS a1, a2, r1, r2

TwoActions == {a1, a2}
TwoRequests == {r1, r2}
FirstAction == {a1}
FirstSafe == [a \in TwoActions |-> IF a = a1 THEN "safe" ELSE "once"]
====
