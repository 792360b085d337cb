---------------------------- MODULE ObservedInputs ----------------------------
(***************************************************************************)
(* What waiting for the effects of inputs comes to when every attempt has   *)
(* eyes of its own: it sees at once whatever happens while it watches, and  *)
(* nothing of what happened to another attempt or another action.  Only the *)
(* close of the page may take from it what it has not told yet.             *)
(***************************************************************************)
EXTENDS Naturals

CONSTANTS Actions, Policy

VARIABLES
  phase,     \* "idle", "starting", "watching" or "over"
  attempt,   \* the number of the attempt
  late,      \* attempts that ran out of time
  did,       \* attempts while which something happened
  found,     \* attempts that know of something
  closed     \* is the page closed?

absVars == <<phase, attempt, late, did, found, closed>>

Init ==
  /\ phase = [a \in Actions |-> "idle"]
  /\ attempt = [a \in Actions |-> 0]
  /\ late = {} /\ did = {} /\ found = {}
  /\ closed = FALSE

In(p) == {a \in Actions : phase[a] = p}
Enters(a, p) == phase' = [phase EXCEPT ![a] = p]
Forgets(a) == late' = late \ {a} /\ did' = did \ {a} /\ found' = found \ {a}

(* An attempt starts without eyes and with nothing known.                   *)
Start(a) ==
  /\ ~closed
  /\ Enters(a, "starting") /\ Forgets(a)
  /\ attempt' = [attempt EXCEPT ![a] = @ + 1]
  /\ UNCHANGED closed

Begin(a) == phase[a] = "idle" /\ Start(a)

Watch(a) ==
  /\ phase[a] = "starting" /\ ~closed
  /\ Enters(a, "watching")
  /\ UNCHANGED <<attempt, late, did, found, closed>>

RunsLate(a) ==
  /\ phase[a] = "watching"
  /\ late' = late \cup {a}
  /\ UNCHANGED <<phase, attempt, did, found, closed>>

LooksAway(a) ==
  /\ phase[a] \in {"starting", "watching"}
  /\ Enters(a, "over")
  /\ UNCHANGED <<attempt, late, did, found, closed>>

(* Only what ran late is repeated, once, and safely only if nothing is known. *)
Repeat(a) ==
  /\ phase[a] = "over" /\ a \in late /\ attempt[a] < 2
  /\ Policy[a] # "never"
  /\ Policy[a] = "safe" => a \notin found
  /\ Start(a)

(* Nothing is repeated for certain: a guard, the intent of the target or a  *)
(* truncated observation may be against it, whatever was asked for.         *)
Stop(a) ==
  /\ phase[a] = "over"
  /\ Enters(a, "idle") /\ Forgets(a)
  /\ attempt' = [attempt EXCEPT ![a] = 0]
  /\ UNCHANGED closed

(* Something happens: who watches knows, who starts or is done may.         *)
Happens ==
  /\ ~closed
  /\ did' = did \cup In("watching")
  /\ found \cup In("watching") \subseteq found'
  /\ found' \subseteq found \cup In("watching") \cup In("starting") \cup In("over")
  /\ UNCHANGED <<phase, attempt, late, closed>>

Close ==
  /\ ~closed
  /\ closed' = TRUE
  /\ found \ In("watching") \subseteq found' /\ found' \subseteq found
  /\ UNCHANGED <<phase, attempt, late, did>>

Next ==
  \/ Happens \/ Close
  \/ \E a \in Actions :
       Begin(a) \/ Watch(a) \/ RunsLate(a) \/ LooksAway(a) \/ Repeat(a) \/ Stop(a)

Spec == Init /\ [][Next]_absVars
===============================================================================
