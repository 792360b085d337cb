--------------------------------- MODULE Clock ---------------------------------
(* The time that leases and confirmation tokens are measured against        *)
(* (Date.now in daemon/src/sessions.ts and confirmation-tokens.ts).         *)
EXTENDS Naturals

CONSTANT MaxTime    \* bound: how long a behaviour is watched

ASSUME MaxTimeAssumption == MaxTime \in Nat

VARIABLE now

TimePasses ==
  /\ now < MaxTime
  /\ now' = now + 1
=============================================================================
