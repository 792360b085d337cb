---------------------------- MODULE VideoRecorder ----------------------------
(***************************************************************************)
(* Video recordings of the pages of one browser (VideoRecorderRegistry in   *)
(* daemon/src/video-recorder.ts) among everything that ends them: the       *)
(* commands of handleVideo, a cap on the duration, the closing of the page, *)
(* browser-stop and the shutdown of the daemon (daemon/src/daemon.ts).      *)
(* Commands hold the lock of their page, browser-stop that of the browser;  *)
(* timers, page events and the shutdown hold none.                          *)
(***************************************************************************)
EXTENDS Naturals

CONSTANTS
  Callers,         \* connections that send video commands
  Pages,           \* page names, the keys of the registry's maps
  NoPage,          \* the page of a caller without a command
  MaxRecordings    \* bound: how many recordings are ever started

ASSUME NoPageAssumption == NoPage \notin Pages
ASSUME MaxRecordingsAssumption == MaxRecordings \in Nat \ {0}

Recordings == 1..MaxRecordings    \* numbered in the order they start
None == 0

VARIABLES
  command,     \* what a caller's command is doing
  page,        \* the page whose lock it holds
  stopping,    \* the recording a stop command waits for
  stage,       \* how far a recording got
  pageOf,      \* the page it was started for
  active,      \* #active: the running recording of a page
  finalizing,  \* #finalizing: the recording whose saving can be awaited
  noted,       \* #capFinalized: the recording whose cap is still to be told
  browserStop, \* how far browser-stop got, if it holds the browser's lock
  shutdown,    \* how far the daemon's shutdown got
  awaited      \* the savings browser-stop and shutdown wait for

commandVars == <<command, page, stopping>>
registryVars == <<stage, pageOf, active, finalizing, noted>>
vars == <<commandVars, registryVars, browserStop, shutdown, awaited>>

Enders == {"browser-stop", "shutdown"}

TypeOK ==
  /\ command \in [Callers -> {"none", "start", "chapter", "stop"}]
  /\ page \in [Callers -> Pages \cup {NoPage}]
  /\ stopping \in [Callers -> Recordings \cup {None}]
  /\ stage \in [Recordings -> {"unused", "recording", "saving", "settled"}]
  /\ pageOf \in [Recordings -> Pages \cup {NoPage}]
  /\ \A r \in Recordings : stage[r] # "unused" => pageOf[r] \in Pages
  /\ active \in [Pages -> Recordings \cup {None}]
  /\ finalizing \in [Pages -> Recordings \cup {None}]
  /\ noted \in [Pages -> Recordings \cup {None}]
  /\ browserStop \in {"none", "finalizing", "stopping"}
  /\ shutdown \in {"none", "finalizing", "stopping", "exited"}
  /\ awaited \in [Enders -> SUBSET Recordings]

Init ==
  /\ command = [c \in Callers |-> "none"]
  /\ page = [c \in Callers |-> NoPage]
  /\ stopping = [c \in Callers |-> None]
  /\ stage = [r \in Recordings |-> "unused"]
  /\ pageOf = [r \in Recordings |-> NoPage]
  /\ active = [p \in Pages |-> None]
  /\ finalizing = [p \in Pages |-> None]
  /\ noted = [p \in Pages |-> None]
  /\ browserStop = "none"
  /\ shutdown = "none"
  /\ awaited = [e \in Enders |-> {}]

-----------------------------------------------------------------------------
Running == shutdown # "exited"

(* #finalize for the recordings of the pages `ps`: each leaves #active at   *)
(* once, and its saving becomes the one to await for its page.              *)
Finalize(ps) ==
  LET ended == {active[p] : p \in ps} \ {None} IN
  /\ stage' = [r \in Recordings |-> IF r \in ended THEN "saving" ELSE stage[r]]
  /\ finalizing' = [p \in Pages |-> IF p \in ps /\ active[p] # None
                                    THEN active[p] ELSE finalizing[p]]
  /\ active' = [p \in Pages |-> IF p \in ps THEN None ELSE active[p]]
  /\ UNCHANGED pageOf

(* Slip: video commands do not take the lock of their page.                 *)
MayTakeFreely(c, p) ==
  /\ command[c] = "none"
  /\ browserStop = "none"
  /\ Running

(* A command takes the lock of its page: nobody has it and browser-stop     *)
(* does not run.  A shutdown does not keep it from doing so if its request  *)
(* came before and waited for the lock or for the browser.                  *)
MayTake(c, p) ==
  /\ command[c] = "none"
  /\ \A d \in Callers : page[d] # p
  /\ browserStop = "none"
  /\ Running

Begin(c, p, what) ==
  /\ MayTake(c, p)
  /\ command' = [command EXCEPT ![c] = what]
  /\ page' = [page EXCEPT ![c] = p]

End(c) ==
  /\ command' = [command EXCEPT ![c] = "none"]
  /\ page' = [page EXCEPT ![c] = NoPage]
  /\ stopping' = [stopping EXCEPT ![c] = None]

(* #assertNoCapFinalization: the first command after a cap is told of it    *)
(* and does nothing else.                                                   *)
ReportCap(c, p) ==
  /\ MayTake(c, p)
  /\ noted[p] # None
  /\ noted' = [noted EXCEPT ![p] = None]
  /\ UNCHANGED <<commandVars, stage, pageOf, active, finalizing, browserStop,
                 shutdown, awaited>>

(* Slip: start does not look for a cap that is still to be told.            *)
BeginStartUntold(c, p) ==
  /\ active[p] = None
  /\ Begin(c, p, "start")
  /\ UNCHANGED <<stopping, registryVars, browserStop, shutdown, awaited>>

(* start, up to the first wait: a page that is recording is refused.        *)
BeginStart(c, p) ==
  /\ noted[p] = None
  /\ active[p] = None
  /\ Begin(c, p, "start")
  /\ UNCHANGED <<stopping, registryVars, browserStop, shutdown, awaited>>

(* The directory is there, the window visible, the screencast running: the  *)
(* recording is registered with its timer and its close listener.  That     *)
(* takes a browser that is not being stopped.                               *)
Started(c) ==
  /\ shutdown \in {"none", "finalizing"}
  /\ command[c] = "start"
  /\ \E r \in Recordings :
       /\ stage[r] = "unused"
       /\ \A q \in 1..r-1 : stage[q] # "unused"
       /\ stage' = [stage EXCEPT ![r] = "recording"]
       /\ pageOf' = [pageOf EXCEPT ![r] = page[c]]
       /\ active' = [active EXCEPT ![page[c]] = r]
  /\ End(c)
  /\ UNCHANGED <<finalizing, noted, browserStop, shutdown, awaited>>

(* Any of the three fails, as the last does when the page closes meanwhile. *)
StartFails(c) ==
  /\ Running
  /\ command[c] = "start"
  /\ End(c)
  /\ UNCHANGED <<registryVars, browserStop, shutdown, awaited>>

(* chapter: the card stays on screen while the command holds the page.      *)
BeginChapter(c, p) ==
  /\ noted[p] = None
  /\ active[p] # None
  /\ Begin(c, p, "chapter")
  /\ UNCHANGED <<stopping, registryVars, browserStop, shutdown, awaited>>

ChapterShown(c) ==
  /\ Running
  /\ command[c] = "chapter"
  /\ End(c)
  /\ UNCHANGED <<registryVars, browserStop, shutdown, awaited>>

(* stop: finalizes, and answers when the recording is saved.                *)
BeginStop(c, p) ==
  /\ noted[p] = None
  /\ active[p] # None
  /\ Begin(c, p, "stop")
  /\ stopping' = [stopping EXCEPT ![c] = active[p]]
  /\ Finalize({p})
  /\ UNCHANGED <<noted, browserStop, shutdown, awaited>>

Stopped(c) ==
  /\ Running
  /\ command[c] = "stop"
  /\ stage[stopping[c]] = "settled"
  /\ End(c)
  /\ UNCHANGED <<registryVars, browserStop, shutdown, awaited>>

-----------------------------------------------------------------------------
(* Slip: the timer is not set for the last recording that may start.        *)
CapReachedUnlessLast(p) ==
  /\ Running
  /\ active[p] \notin {None, MaxRecordings}
  /\ Finalize({p})
  /\ noted' = [noted EXCEPT ![p] = active[p]]
  /\ UNCHANGED <<commandVars, browserStop, shutdown, awaited>>

(* The timer of a recording fires: max-duration.                            *)
CapReached(p) ==
  /\ Running
  /\ active[p] # None
  /\ Finalize({p})
  /\ noted' = [noted EXCEPT ![p] = active[p]]
  /\ UNCHANGED <<commandVars, browserStop, shutdown, awaited>>

(* The page of a recording closes: page-closed.                             *)
PageCloses(p) ==
  /\ Running
  /\ active[p] # None
  /\ Finalize({p})
  /\ UNCHANGED <<commandVars, noted, browserStop, shutdown, awaited>>

(* Slip: the continuation clears the cap of the page as well.               *)
SettleForgetsCap(r) ==
  /\ Running
  /\ stage[r] = "saving"
  /\ stage' = [stage EXCEPT ![r] = "settled"]
  /\ finalizing' = [finalizing EXCEPT ![pageOf[r]] = None]
  /\ noted' = [noted EXCEPT ![pageOf[r]] = None]
  /\ UNCHANGED <<commandVars, pageOf, active, browserStop, shutdown, awaited>>

(* #saveRecording settles, by stopping the screencast, by saving what it    *)
(* left, or with neither.  Its continuation clears the entry of the page.   *)
Settle(r) ==
  /\ Running
  /\ stage[r] = "saving"
  /\ stage' = [stage EXCEPT ![r] = "settled"]
  /\ finalizing' = [finalizing EXCEPT ![pageOf[r]] = None]
  /\ UNCHANGED <<commandVars, pageOf, active, noted, browserStop, shutdown, awaited>>

(* finalizeAll: every running recording is finalized, and whatever          *)
(* #finalizing then holds is awaited.                                       *)
FinalizeAll(ender) ==
  /\ Finalize(Pages)
  /\ awaited' = [awaited EXCEPT ![ender] =
                   {finalizing'[p] : p \in Pages} \ {None}]
  /\ UNCHANGED <<commandVars, noted>>

(* With nothing to await, the browser is stopped in the same step.          *)
AfterFinalizeAll(ender) == IF awaited'[ender] = {} THEN "stopping" ELSE "finalizing"

AllSettled(ender) == \A r \in awaited[ender] : stage[r] = "settled"

(* Slip: browser-stop does not wait for the commands on its pages.          *)
BeginBrowserStopAtOnce ==
  /\ Running
  /\ browserStop = "none"
  /\ FinalizeAll("browser-stop")
  /\ browserStop' = AfterFinalizeAll("browser-stop")
  /\ UNCHANGED shutdown

(* browser-stop takes the whole browser: no command holds a page of it.     *)
BeginBrowserStop ==
  /\ Running
  /\ browserStop = "none"
  /\ \A c \in Callers : command[c] = "none"
  /\ FinalizeAll("browser-stop")
  /\ browserStop' = AfterFinalizeAll("browser-stop")
  /\ UNCHANGED shutdown

(* Recordings are saved: the browser is stopped, and its pages with it.     *)
StopBrowser ==
  /\ Running
  /\ browserStop = "finalizing"
  /\ AllSettled("browser-stop")
  /\ browserStop' = "stopping"
  /\ awaited' = [awaited EXCEPT !["browser-stop"] = {}]
  /\ UNCHANGED <<commandVars, registryVars, shutdown>>

BrowserStopped ==
  /\ Running
  /\ browserStop = "stopping"
  /\ browserStop' = "none"
  /\ UNCHANGED <<commandVars, registryVars, shutdown, awaited>>

(* shutdown: finalizeAll, then stopAll, then exit, under no lock.           *)
BeginShutdown ==
  /\ shutdown = "none"
  /\ FinalizeAll("shutdown")
  /\ shutdown' = AfterFinalizeAll("shutdown")
  /\ UNCHANGED browserStop

StopBrowsers ==
  /\ shutdown = "finalizing"
  /\ AllSettled("shutdown")
  /\ shutdown' = "stopping"
  /\ awaited' = [awaited EXCEPT !["shutdown"] = {}]
  /\ UNCHANGED <<commandVars, registryVars, browserStop>>

Exit ==
  /\ shutdown = "stopping"
  /\ shutdown' = "exited"
  /\ UNCHANGED <<commandVars, registryVars, browserStop, awaited>>

-----------------------------------------------------------------------------
CommandStep(c) ==
  \/ \E p \in Pages :
       ReportCap(c, p) \/ BeginStart(c, p) \/ BeginChapter(c, p) \/ BeginStop(c, p)
  \/ Started(c) \/ StartFails(c) \/ ChapterShown(c) \/ Stopped(c)

Next ==
  \/ \E c \in Callers : CommandStep(c)
  \/ \E p \in Pages : CapReached(p) \/ PageCloses(p)
  \/ \E r \in Recordings : Settle(r)
  \/ BeginBrowserStop \/ StopBrowser \/ BrowserStopped
  \/ BeginShutdown \/ StopBrowsers \/ Exit

(* Timers fire and savings settle while the daemon runs.  Nobody has to     *)
(* send a command, close a page or stop anything.                           *)
Fairness ==
  /\ \A p \in Pages : WF_vars(CapReached(p))
  /\ \A r \in Recordings : WF_vars(Settle(r))

Spec == Init /\ [][Next]_vars
FairSpec == Spec /\ Fairness

-----------------------------------------------------------------------------
(* No recording is forgotten: while it runs, it is the one its page has in  *)
(* #active, where everything that ends recordings will look for it.  start  *)
(* checks the map and writes it several waits later.                        *)
NoRecordingForgotten ==
  \A r \in Recordings : stage[r] = "recording" => active[pageOf[r]] = r

(* A cap is told before anything else happens on its page: until then no    *)
(* recording runs or starts there.                                          *)
CapToldFirst ==
  \A p \in Pages : noted[p] # None =>
      /\ active[p] = None
      /\ \A c \in Callers : ~(page[c] = p /\ command[c] = "start")

(* When browser-stop gets to stopping the browser, no recording of it is    *)
(* still running.                                                           *)
NothingRecordsWhenStopped ==
  browserStop = "stopping" => \A r \in Recordings : stage[r] # "recording"

(* The maps, the locks and the order of waits keep this promise: between    *)
(* looking at the maps and registering, a start cannot be told from one     *)
(* that does both at once; whatever ends a recording ends it once.          *)
Promise == INSTANCE PageRecordings WITH
  untold <- {p \in Pages : noted[p] # None},
  held <- browserStop # "none"

(* Starting is atomic, ending single-shot, a cap told first, and a browser  *)
(* that is being stopped records nothing, as far as the stages of           *)
(* recordings and the caps to be told show it.  (video-recorder.ts:298-322, *)
(* whose comment says that finalization is single-shot)                     *)
ImplementsPageRecordings == Promise!Spec

(* Every recording comes to an end by itself, saved or given up, unless the *)
(* daemon exits first.                                                      *)
EveryRecordingEnds ==
  \A r \in Recordings :
    stage[r] = "recording" ~> stage[r] = "settled" \/ shutdown = "exited"

(* The daemon says of its shutdown that it must never leave a half-written  *)
(* recording behind.                                                        *)
NoneHalfWritten ==
  shutdown = "exited" =>
    \A r \in Recordings : stage[r] \in {"unused", "settled"}
=============================================================================
