--------------------------- MODULE PageRecordings ---------------------------
(***************************************************************************)
(* What recording a page promises, without commands, locks, timers or maps: *)
(* a start looks and registers in one step, a recording is ended once and   *)
(* settles once, a cap is told before its page is recorded again, and no    *)
(* recording runs or starts while the browser is being stopped.             *)
(***************************************************************************)

CONSTANTS Pages, NoPage, Recordings

VARIABLES
  stage,      \* how far each recording got
  pageOf,     \* the page it was started for
  untold,     \* the pages whose cap is still to be told
  held        \* is the browser being stopped?

absVars == <<stage, pageOf, untold, held>>

Running(ps) == {r \in Recordings : stage[r] = "recording" /\ pageOf[r] \in ps}

Init ==
  /\ stage = [r \in Recordings |-> "unused"]
  /\ pageOf = [r \in Recordings |-> NoPage]
  /\ untold = {}
  /\ held = FALSE

Start(p, r) ==
  /\ ~held /\ p \notin untold /\ Running({p}) = {}
  /\ stage[r] = "unused"
  /\ stage' = [stage EXCEPT ![r] = "recording"]
  /\ pageOf' = [pageOf EXCEPT ![r] = p]
  /\ UNCHANGED <<untold, held>>

\* All recordings of the pages end, and their videos are to be saved.
End(ps) ==
  /\ stage' = [r \in Recordings |-> IF r \in Running(ps) THEN "saving" ELSE stage[r]]
  /\ UNCHANGED pageOf

\* By a command, the page's closing, the cap, and the ends of browser and
\* daemon.
Stop(p) == Running({p}) # {} /\ End({p}) /\ UNCHANGED <<untold, held>>
Cap(p) == Running({p}) # {} /\ End({p}) /\ untold' = untold \cup {p} /\ UNCHANGED held
HoldBrowser == ~held /\ End(Pages) /\ held' = TRUE /\ UNCHANGED untold
ShutDown == End(Pages) /\ UNCHANGED <<untold, held>>

Settle(r) ==
  /\ stage[r] = "saving"
  /\ stage' = [stage EXCEPT ![r] = "settled"]
  /\ UNCHANGED <<pageOf, untold, held>>

TellCap(p) ==
  /\ p \in untold
  /\ untold' = untold \ {p}
  /\ UNCHANGED <<stage, pageOf, held>>

BrowserGone == held /\ held' = FALSE /\ UNCHANGED <<stage, pageOf, untold>>

Next ==
  \/ \E p \in Pages : Stop(p) \/ Cap(p) \/ TellCap(p) \/ \E r \in Recordings : Start(p, r)
  \/ \E r \in Recordings : Settle(r)
  \/ HoldBrowser \/ ShutDown \/ BrowserGone

Spec == Init /\ [][Next]_absVars
=============================================================================
