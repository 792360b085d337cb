---------------------------- MODULE ServedCommands ----------------------------
(***************************************************************************)
(* What becomes of a command and of a daemon, whatever files, probes, polls *)
(* and hang-ups it takes: work is done once, by one daemon, and is lost only *)
(* to the end of that daemon; a daemon is replaced only for work that waits, *)
(* and while it runs nothing.                                               *)
(***************************************************************************)
CONSTANTS Commands, Daemons, Versions, NoVersion

VARIABLES
  kind,      \* "work" or "stop", per command
  built,     \* the build it comes from
  fate,      \* "waiting", "working", "done" or "failed"
  working,   \* the commands that a daemon works for
  life,      \* "absent", "serving", "promised" to be replaced, "ending" or "over"
  version    \* the build of a daemon

absVars == <<kind, built, fate, working, life, version>>

Init ==
  /\ kind \in [Commands -> {"work", "stop"}] /\ built \in [Commands -> Versions]
  /\ fate = [c \in Commands |-> "waiting"]
  /\ working = [d \in Daemons |-> {}]
  /\ life = [d \in Daemons |-> "absent"]
  /\ version = [d \in Daemons |-> NoVersion]

Waits(c, what) == fate[c] = "waiting" /\ kind[c] = what
(* The first conjuncts follow from the second; with them TLC is quicker to   *)
(* tell that a step is another one.                                         *)
Ends(c, end) == fate'[c] = end /\ fate' = [fate EXCEPT ![c] = end]
Becomes(d, stage) == life'[d] = stage /\ life' = [life EXCEPT ![d] = stage]

(* A daemon is started for work, of the build that asks for it.             *)
Spawn(c, d) ==
  /\ Waits(c, "work")
  /\ life[d] = "absent" /\ Becomes(d, "serving")
  /\ version' = [version EXCEPT ![d] = built[c]]
  /\ UNCHANGED <<fate, working>>

Take(c, d) ==
  /\ Waits(c, "work") /\ life[d] = "serving"
  /\ Ends(c, "working")
  /\ working' = [working EXCEPT ![d] = @ \cup {c}]
  /\ UNCHANGED <<life, version>>

Answer(c, d) ==
  /\ c \in working[d] /\ life[d] \in {"serving", "ending"}
  /\ fate[c] = "working" /\ Ends(c, "done")
  /\ working' = [working EXCEPT ![d] = @ \ {c}]
  /\ UNCHANGED <<life, version>>

Replace(c, d) ==
  /\ Waits(c, "work")
  /\ life[d] = "serving" /\ Becomes(d, "promised")
  /\ working[d] = {}
  /\ UNCHANGED <<fate, working, version>>

GiveUp(c) == fate[c] = "waiting" /\ Ends(c, "failed") /\ UNCHANGED <<working, life, version>>

Stopped(c) == Waits(c, "stop") /\ Ends(c, "done") /\ UNCHANGED <<working, life, version>>

End(d) ==
  /\ life[d] \in {"serving", "promised"} /\ Becomes(d, "ending")
  /\ UNCHANGED <<fate, working, version>>

(* Exactly the work it has under way is lost with a daemon.                 *)
Cut(d) ==
  /\ life[d] \in {"serving", "promised", "ending"} /\ Becomes(d, "over")
  /\ fate' = [c \in Commands |-> IF c \in working[d] THEN "failed" ELSE fate[c]]
  /\ working' = [working EXCEPT ![d] = {}]
  /\ UNCHANGED version

Next ==
  /\ \/ \E c \in Commands :
          \/ GiveUp(c) \/ Stopped(c)
          \/ \E d \in Daemons : Spawn(c, d) \/ Take(c, d) \/ Answer(c, d) \/ Replace(c, d)
     \/ \E d \in Daemons : End(d) \/ Cut(d)
  /\ UNCHANGED <<kind, built>>

Spec == Init /\ [][Next]_absVars
===============================================================================
