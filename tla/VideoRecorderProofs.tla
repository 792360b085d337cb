-------------------------- MODULE VideoRecorderProofs --------------------------
(***************************************************************************)
(* Proofs about the registry of recordings, for any number of connections,  *)
(* pages and recordings.  The hazard is that `start' looks at the maps and  *)
(* writes to them several waits later, while timers, closing pages and the  *)
(* shutdown change them under no lock.  What saves it is that nothing but a *)
(* start registers a recording, that a start holds its page (Locked), and   *)
(* that what ends recordings takes them from both maps at once (Registered). *)
(* From the same invariant the recorder implements PageRecordings.          *)
(***************************************************************************)
EXTENDS VideoRecorder, TLAPS

(* A recording runs if and only if its page has it registered.              *)
Registered ==
  /\ NoRecordingForgotten
  /\ \A p \in Pages : active[p] # None => stage[active[p]] = "recording" /\ pageOf[active[p]] = p

(* A page has one command at most; a start found neither a recording nor    *)
(* an untold cap, and both are still so.                                    *)
Locked ==
  /\ \A c, d \in Callers : page[c] = page[d] /\ page[c] # NoPage => c = d
  /\ \A c \in Callers : command[c] # "none" => page[c] # NoPage
  /\ \A c \in Callers : command[c] = "start" => active[page[c]] = None /\ noted[page[c]] = None

(* A browser that is being stopped has no commands and no recordings.       *)
BrowserHeld ==
  browserStop # "none" =>
    /\ \A c \in Callers : command[c] = "none"
    /\ \A p \in Pages : active[p] = None

IInv == TypeOK /\ Registered /\ Locked /\ BrowserHeld /\ CapToldFirst

-----------------------------------------------------------------------------
(* What #finalize does to the registry, for the pages of one event or all.  *)
LEMMA FinalizeKeepsRegistry ==
  ASSUME IInv, NEW ps \in SUBSET Pages, Finalize(ps)
  PROVE  /\ stage' \in [Recordings -> {"unused", "recording", "saving", "settled"}]
         /\ \A r \in Recordings : stage'[r] # "unused" => pageOf'[r] \in Pages
         /\ active' \in [Pages -> Recordings \cup {None}]
         /\ finalizing' \in [Pages -> Recordings \cup {None}]
         /\ \A p \in Pages : active'[p] # None => active'[p] = active[p]
         /\ \A p \in ps : active'[p] = None
         /\ Registered'
<1> DEFINE ended == {active[p] : p \in ps} \ {None}
<1>1. /\ stage' = [r \in Recordings |-> IF r \in ended THEN "saving" ELSE stage[r]]
      /\ active' = [p \in Pages |-> IF p \in ps THEN None ELSE active[p]]
      /\ finalizing' = [p \in Pages |-> IF p \in ps /\ active[p] # None
                                        THEN active[p] ELSE finalizing[p]]
      /\ pageOf' = pageOf
  BY DEF Finalize
<1>2. ended \subseteq {r \in Recordings : stage[r] = "recording"}
  BY DEF IInv, TypeOK, Registered
<1>3. ASSUME NEW r \in Recordings, stage'[r] = "recording"
      PROVE  active'[pageOf'[r]] = r
  <2>1. stage[r] = "recording" /\ r \notin ended
    BY <1>1, <1>3
  <2>2. pageOf[r] \in Pages /\ active[pageOf[r]] = r /\ r # None
    BY <2>1 DEF IInv, TypeOK, Registered, NoRecordingForgotten, Recordings, None
  <2>3. QED
    BY <1>1, <2>1, <2>2
<1>4. ASSUME NEW p \in Pages, active'[p] # None
      PROVE  stage'[active'[p]] = "recording" /\ pageOf'[active'[p]] = p
  <2>1. p \notin ps /\ active'[p] = active[p] /\ active[p] # None
    BY <1>1, <1>4
  <2>2. active[p] \in Recordings /\ stage[active[p]] = "recording" /\ pageOf[active[p]] = p
    BY <2>1 DEF IInv, TypeOK, Registered
  <2>3. active[p] \notin ended
    BY <2>1, <2>2 DEF IInv, Registered
  <2>4. QED
    BY <1>1, <2>1, <2>2, <2>3
<1>5. Registered'
  BY <1>3, <1>4 DEF Registered, NoRecordingForgotten
<1> HIDE DEF ended
<1>6. QED
  BY <1>1, <1>2, <1>5 DEF IInv, TypeOK

(* A finalization leaves the commands and what they rely on alone.          *)
LEMMA FinalizeKeeps ==
  ASSUME IInv, NEW ps \in SUBSET Pages, Finalize(ps), UNCHANGED commandVars,
         browserStop' \in {"none", "finalizing", "stopping"},
         shutdown' \in {"none", "finalizing", "stopping", "exited"},
         awaited' \in [Enders -> SUBSET Recordings],
         noted' \in [Pages -> Recordings \cup {None}],
         \A p \in Pages : noted'[p] # noted[p] => p \in ps /\ active[p] # None,
         BrowserHeld'
  PROVE  IInv'
<1>1. TypeOK' /\ Registered'
  BY FinalizeKeepsRegistry DEF IInv, TypeOK, commandVars, Finalize
<1>2. Locked'
  BY FinalizeKeepsRegistry DEF IInv, TypeOK, Locked, commandVars
<1>3. CapToldFirst'
  BY FinalizeKeepsRegistry DEF IInv, TypeOK, Locked, CapToldFirst, commandVars
<1>4. QED
  BY <1>1, <1>2, <1>3 DEF IInv

(* finalizeAll waits for recordings.                                        *)
LEMMA FinalizeAllAwaits ==
  ASSUME IInv, NEW ender \in Enders, FinalizeAll(ender)
  PROVE  /\ awaited' \in [Enders -> SUBSET Recordings]
         /\ AfterFinalizeAll(ender) \in {"finalizing", "stopping"}
<1>1. finalizing' \in [Pages -> Recordings \cup {None}]
  BY FinalizeKeepsRegistry DEF FinalizeAll
<1>2. QED
  BY <1>1 DEF IInv, TypeOK, FinalizeAll, AfterFinalizeAll

-----------------------------------------------------------------------------
(* The steps.                                                               *)

LEMMA InitEstablishes ==
  ASSUME Init PROVE IInv
BY NoPageAssumption, MaxRecordingsAssumption
   DEF Init, IInv, TypeOK, Registered, NoRecordingForgotten, Locked, BrowserHeld, CapToldFirst,
       None, Recordings, Enders

LEMMA BeginKeeps ==
  ASSUME IInv, NEW c \in Callers, NEW p \in Pages, NEW what \in {"start", "chapter", "stop"},
         Begin(c, p, what), what = "start" => noted[p] = None /\ active[p] = None
  PROVE  /\ command' \in [Callers -> {"none", "start", "chapter", "stop"}]
         /\ page' \in [Callers -> Pages \cup {NoPage}]
         /\ browserStop = "none"
         /\ \A d, e \in Callers : page'[d] = page'[e] /\ page'[d] # NoPage => d = e
         /\ \A d \in Callers : command'[d] # "none" => page'[d] # NoPage
         /\ \A d \in Callers : command'[d] = "start" => active[page'[d]] = None /\ noted[page'[d]] = None
<1>1. /\ command' = [command EXCEPT ![c] = what]
      /\ page' = [page EXCEPT ![c] = p]
      /\ \A d \in Callers : page[d] # p
      /\ browserStop = "none"
  BY DEF Begin, MayTake
<1>2. QED
  BY <1>1, NoPageAssumption DEF IInv, TypeOK, Locked

LEMMA EndKeeps ==
  ASSUME IInv, NEW c \in Callers, End(c)
  PROVE  /\ command' \in [Callers -> {"none", "start", "chapter", "stop"}]
         /\ page' \in [Callers -> Pages \cup {NoPage}]
         /\ stopping' \in [Callers -> Recordings \cup {None}]
         /\ \A d, e \in Callers : page'[d] = page'[e] /\ page'[d] # NoPage => d = e
         /\ \A d \in Callers : command'[d] # "none" => page'[d] # NoPage
         /\ \A d \in Callers : command'[d] # "none" =>
              d # c /\ command'[d] = command[d] /\ page'[d] = page[d]
BY DEF IInv, TypeOK, Locked, End

LEMMA StartedKeeps ==
  ASSUME IInv, NEW c \in Callers, Started(c) PROVE IInv'
<1>1. PICK r \in Recordings :
        /\ stage[r] = "unused"
        /\ stage' = [stage EXCEPT ![r] = "recording"]
        /\ pageOf' = [pageOf EXCEPT ![r] = page[c]]
        /\ active' = [active EXCEPT ![page[c]] = r]
  BY DEF Started
<1> DEFINE p == page[c]
<1>2. p \in Pages /\ active[p] = None /\ noted[p] = None /\ browserStop = "none"
  BY DEF IInv, TypeOK, Locked, BrowserHeld, Started
<1>3. \A q \in Pages : active[q] # r
  BY <1>1 DEF IInv, Registered, None, Recordings
<1>4. r # None
  BY DEF Recordings, None
<1> HIDE DEF p
<1>5. TypeOK'
  BY <1>1, <1>2, EndKeeps DEF IInv, TypeOK, Started, p
<1>6. Registered'
  <2>1. ASSUME NEW s \in Recordings, stage'[s] = "recording"
        PROVE  active'[pageOf'[s]] = s
    <3>1. CASE s = r
      BY <1>1, <1>2, <3>1 DEF IInv, TypeOK, p
    <3>2. CASE s # r
      <4>1. stage[s] = "recording" /\ pageOf'[s] = pageOf[s] /\ pageOf[s] \in Pages
        BY <1>1, <2>1, <3>2 DEF IInv, TypeOK
      <4>2. active[pageOf[s]] = s /\ s # None
        BY <4>1 DEF IInv, Registered, NoRecordingForgotten, None, Recordings
      <4>3. QED
        BY <1>1, <1>2, <4>1, <4>2 DEF IInv, TypeOK, p
    <3>3. QED
      BY <3>1, <3>2
  <2>2. ASSUME NEW q \in Pages, active'[q] # None
        PROVE  stage'[active'[q]] = "recording" /\ pageOf'[active'[q]] = q
    BY <1>1, <1>2, <1>3, <2>2 DEF IInv, TypeOK, Registered, p
  <2>3. QED
    BY <2>1, <2>2 DEF Registered, NoRecordingForgotten
<1>7. \A d \in Callers : command'[d] # "none" => page[d] # p /\ page'[d] = page[d] /\ command'[d] = command[d]
  BY <1>2, EndKeeps, NoPageAssumption DEF IInv, Locked, Started, p
<1>8. Locked' /\ BrowserHeld'
  BY <1>1, <1>2, <1>7, EndKeeps DEF IInv, TypeOK, Locked, BrowserHeld, Started, p
<1>9. CapToldFirst'
  BY <1>1, <1>2, <1>7 DEF IInv, TypeOK, CapToldFirst, Started, p
<1>10. QED
  BY <1>5, <1>6, <1>8, <1>9 DEF IInv

(* A command that ends, and leaves the registry as it is.                   *)
LEMMA EndOnlyKeeps ==
  ASSUME IInv, NEW c \in Callers, End(c),
         UNCHANGED <<registryVars, browserStop, shutdown, awaited>>
  PROVE  IInv'
BY EndKeeps DEF IInv, TypeOK, Registered, NoRecordingForgotten, Locked, BrowserHeld, CapToldFirst,
                registryVars

LEMMA CommandStepKeeps ==
  ASSUME IInv, NEW c \in Callers, CommandStep(c) PROVE IInv'
<1>1. ASSUME NEW p \in Pages, ReportCap(c, p) PROVE IInv'
  BY <1>1 DEF IInv, TypeOK, Registered, NoRecordingForgotten, Locked, BrowserHeld, CapToldFirst,
              ReportCap, commandVars
<1>2. ASSUME NEW p \in Pages, BeginStart(c, p) PROVE IInv'
  <2>1. Begin(c, p, "start") /\ noted[p] = None /\ active[p] = None
    BY <1>2 DEF BeginStart
  <2>2. CapToldFirst'
    BY <1>2, <2>1, BeginKeeps DEF IInv, CapToldFirst, BeginStart, registryVars
  <2>3. QED
    BY <1>2, <2>1, <2>2, BeginKeeps
       DEF IInv, TypeOK, Registered, NoRecordingForgotten, Locked, BrowserHeld, BeginStart,
           registryVars
<1>3. ASSUME NEW p \in Pages, BeginChapter(c, p) PROVE IInv'
  <2>1. Begin(c, p, "chapter")
    BY <1>3 DEF BeginChapter
  <2>2. \A d \in Callers : command'[d] = "start" => command[d] = "start" /\ page'[d] = page[d]
    BY <2>1 DEF IInv, TypeOK, Begin
  <2>3. CapToldFirst'
    BY <1>3, <2>2 DEF IInv, CapToldFirst, BeginChapter, registryVars
  <2>4. QED
    BY <1>3, <2>1, <2>3, BeginKeeps
       DEF IInv, TypeOK, Registered, NoRecordingForgotten, Locked, BrowserHeld, BeginChapter,
           registryVars
<1>4. ASSUME NEW p \in Pages, BeginStop(c, p) PROVE IInv'
  <2>1. Begin(c, p, "stop") /\ Finalize({p}) /\ {p} \in SUBSET Pages /\ active[p] \in Recordings
    BY <1>4 DEF IInv, TypeOK, BeginStop
  <2>2. \A d \in Callers : command'[d] = "start" => command[d] = "start" /\ page'[d] = page[d]
    BY <2>1 DEF IInv, TypeOK, Begin
  <2>3. TypeOK'
    BY <1>4, <2>1, BeginKeeps, FinalizeKeepsRegistry DEF IInv, TypeOK, BeginStop, Finalize
  <2>4. Registered' /\ BrowserHeld'
    BY <1>4, <2>1, BeginKeeps, FinalizeKeepsRegistry DEF BrowserHeld, BeginStop
  <2>5. Locked'
    BY <1>4, <2>1, <2>2, BeginKeeps, FinalizeKeepsRegistry DEF IInv, TypeOK, Locked, BeginStop
  <2>6. CapToldFirst'
    BY <1>4, <2>1, <2>2, FinalizeKeepsRegistry DEF IInv, CapToldFirst, BeginStop
  <2>7. QED
    BY <2>3, <2>4, <2>5, <2>6 DEF IInv
<1>5. CASE Started(c)
  BY <1>5, StartedKeeps
<1>6. CASE StartFails(c) \/ ChapterShown(c) \/ Stopped(c)
  BY <1>6, EndOnlyKeeps DEF StartFails, ChapterShown, Stopped
<1>7. QED
  BY <1>1, <1>2, <1>3, <1>4, <1>5, <1>6 DEF CommandStep

LEMMA PageEventKeeps ==
  ASSUME IInv, NEW p \in Pages, CapReached(p) \/ PageCloses(p) PROVE IInv'
<1>1. /\ {p} \in SUBSET Pages /\ Finalize({p}) /\ UNCHANGED commandVars
      /\ UNCHANGED <<browserStop, shutdown, awaited>>
      /\ active[p] # None
      /\ noted' = noted \/ noted' = [noted EXCEPT ![p] = active[p]]
  BY DEF CapReached, PageCloses
<1>2. BrowserHeld'
  BY <1>1, FinalizeKeepsRegistry DEF IInv, BrowserHeld, commandVars
<1>3. noted' \in [Pages -> Recordings \cup {None}]
  BY <1>1 DEF IInv, TypeOK
<1>4. \A q \in Pages : noted'[q] # noted[q] => q \in {p} /\ active[q] # None
  BY <1>1 DEF IInv, TypeOK
<1>5. QED
  BY <1>1, <1>2, <1>3, <1>4, FinalizeKeeps DEF IInv, TypeOK

LEMMA SettleKeeps ==
  ASSUME IInv, NEW r \in Recordings, Settle(r) PROVE IInv'
<1>1. \A s \in Recordings : stage'[s] = "recording" <=> stage[s] = "recording"
  BY DEF IInv, TypeOK, Settle
<1>2. TypeOK'
  BY DEF IInv, TypeOK, Settle, commandVars
<1>3. Registered'
  BY <1>1 DEF IInv, TypeOK, Registered, NoRecordingForgotten, Settle
<1>4. Locked' /\ BrowserHeld' /\ CapToldFirst'
  BY DEF IInv, Locked, BrowserHeld, CapToldFirst, Settle, commandVars
<1>5. QED
  BY <1>2, <1>3, <1>4 DEF IInv

LEMMA EndersKeep ==
  ASSUME IInv, \/ BeginBrowserStop \/ StopBrowser \/ BrowserStopped
               \/ BeginShutdown \/ StopBrowsers \/ Exit
  PROVE  IInv'
<1>1. CASE BeginBrowserStop
  <2>1. /\ Pages \in SUBSET Pages /\ Finalize(Pages) /\ UNCHANGED <<commandVars, noted, shutdown>>
        /\ FinalizeAll("browser-stop") /\ "browser-stop" \in Enders
    BY <1>1 DEF BeginBrowserStop, FinalizeAll, Enders
  <2>2. BrowserHeld'
    BY <1>1, <2>1, FinalizeKeepsRegistry DEF BrowserHeld, BeginBrowserStop, commandVars
  <2>3. QED
    BY <1>1, <2>1, <2>2, FinalizeAllAwaits, FinalizeKeeps DEF IInv, TypeOK, BeginBrowserStop
<1>2. CASE BeginShutdown
  <2>1. /\ Pages \in SUBSET Pages /\ Finalize(Pages) /\ UNCHANGED <<commandVars, noted, browserStop>>
        /\ FinalizeAll("shutdown") /\ "shutdown" \in Enders
    BY <1>2 DEF BeginShutdown, FinalizeAll, Enders
  <2>2. BrowserHeld'
    BY <2>1, FinalizeKeepsRegistry DEF IInv, BrowserHeld, commandVars
  <2>3. QED
    BY <1>2, <2>1, <2>2, FinalizeAllAwaits, FinalizeKeeps DEF IInv, TypeOK, BeginShutdown
<1>3. CASE StopBrowser \/ BrowserStopped \/ StopBrowsers \/ Exit
  <2>1. /\ UNCHANGED <<commandVars, registryVars>>
        /\ browserStop' # "none" => browserStop # "none"
        /\ awaited' \in [Enders -> SUBSET Recordings]
        /\ browserStop' \in {"none", "finalizing", "stopping"}
        /\ shutdown' \in {"none", "finalizing", "stopping", "exited"}
    BY <1>3 DEF IInv, TypeOK, StopBrowser, BrowserStopped, StopBrowsers, Exit
  <2>2. QED
    BY <2>1 DEF IInv, TypeOK, Registered, NoRecordingForgotten, Locked, BrowserHeld, CapToldFirst,
                commandVars, registryVars
<1>4. QED
  BY <1>1, <1>2, <1>3

LEMMA NextKeeps ==
  ASSUME IInv, [Next]_vars PROVE IInv'
<1>1. CASE UNCHANGED vars
  BY <1>1 DEF IInv, TypeOK, Registered, NoRecordingForgotten, Locked, BrowserHeld, CapToldFirst,
              vars, commandVars, registryVars
<1>2. CASE Next
  BY <1>2, CommandStepKeeps, PageEventKeeps, SettleKeeps, EndersKeep DEF Next
<1>3. QED
  BY <1>1, <1>2

-----------------------------------------------------------------------------
(* The inductive invariant holds in every reachable state.                  *)
THEOREM RecorderInvariance == Spec => []IInv
<1>1. Init => IInv
  BY InitEstablishes
<1>2. IInv /\ [Next]_vars => IInv'
  BY NextKeeps
<1>3. QED
  BY <1>1, <1>2, PTL DEF Spec

(* The type invariant.                                                      *)
THEOREM RecorderTypeCorrect == Spec => []TypeOK
<1>1. IInv => TypeOK
  BY DEF IInv
<1>2. QED
  BY <1>1, RecorderInvariance, PTL

(* A running recording is the one its page has registered, though start     *)
(* checks the map and writes it several waits later.                        *)
(* (video-recorder.ts:159-242)                                              *)
THEOREM NoneForgotten == Spec => []NoRecordingForgotten
<1>1. IInv => NoRecordingForgotten
  BY DEF IInv, Registered
<1>2. QED
  BY <1>1, RecorderInvariance, PTL

(* A cap is told before anything else happens on its page.                  *)
(* (video-recorder.ts:214-217 and 365-387)                                  *)
THEOREM CapsAreToldFirst == Spec => []CapToldFirst
<1>1. IInv => CapToldFirst
  BY DEF IInv
<1>2. QED
  BY <1>1, RecorderInvariance, PTL

(* No recording runs while browser-stop stops the browser.                  *)
(* (daemon.ts:750-755)                                                      *)
THEOREM StoppedBrowserRecordsNothing == Spec => []NothingRecordsWhenStopped
<1>1. IInv => NothingRecordsWhenStopped
  BY DEF IInv, TypeOK, Registered, NoRecordingForgotten, BrowserHeld, NothingRecordsWhenStopped,
         None, Recordings
<1>2. QED
  BY <1>1, RecorderInvariance, PTL

-----------------------------------------------------------------------------
(* The promise.  The registry's maps are told from what recordings do only  *)
(* by Registered: that #active is exactly what runs makes #finalize an end. *)

LEMMA FinalizeEnds ==
  ASSUME IInv, NEW ps \in SUBSET Pages, Finalize(ps) PROVE Promise!End(ps)
<1> DEFINE ended == {active[p] : p \in ps} \ {None}
<1>1. /\ stage' = [r \in Recordings |-> IF r \in ended THEN "saving" ELSE stage[r]]
      /\ pageOf' = pageOf
  BY DEF Finalize
<1>2. ASSUME NEW r \in Recordings PROVE r \in ended <=> r \in Promise!Running(ps)
  <2>1. r # None
    BY DEF Recordings, None
  <2>2. ASSUME r \in ended PROVE stage[r] = "recording" /\ pageOf[r] \in ps
    BY <2>2 DEF IInv, Registered
  <2>3. ASSUME stage[r] = "recording", pageOf[r] \in ps PROVE r \in ended
    BY <2>1, <2>3 DEF IInv, Registered, NoRecordingForgotten
  <2>4. QED
    BY <2>2, <2>3 DEF Promise!Running
<1> HIDE DEF ended
<1>3. QED
  BY <1>1, <1>2 DEF Promise!End

LEMMA RunsIfRegistered ==
  ASSUME IInv, NEW p \in Pages
  PROVE  active[p] # None <=> Promise!Running({p}) # {}
<1>1. ASSUME active[p] # None PROVE active[p] \in Promise!Running({p})
  BY <1>1 DEF IInv, TypeOK, Registered, Promise!Running
<1>2. ASSUME NEW r \in Promise!Running({p}) PROVE active[p] = r /\ r # None
  BY <1>2 DEF IInv, Registered, NoRecordingForgotten, Promise!Running, Recordings, None
<1>3. QED
  BY <1>1, <1>2

LEMMA CommandKeepsPromise ==
  ASSUME IInv, NEW c \in Callers, CommandStep(c)
  PROVE  [Promise!Next]_(Promise!absVars)
<1>1. ASSUME NEW p \in Pages, ReportCap(c, p) PROVE Promise!TellCap(p)
  BY <1>1 DEF IInv, TypeOK, ReportCap, Promise!TellCap
<1>2. ASSUME NEW p \in Pages, BeginStop(c, p) PROVE Promise!Stop(p)
  <2>1. Finalize({p}) /\ active[p] # None /\ UNCHANGED <<noted, browserStop>>
    BY <1>2 DEF BeginStop
  <2>2. QED
    BY <2>1, FinalizeEnds, RunsIfRegistered DEF Promise!Stop
<1>3. ASSUME Started(c) PROVE \E p \in Pages, r \in Recordings : Promise!Start(p, r)
  <2>1. PICK r \in Recordings :
          /\ stage[r] = "unused"
          /\ stage' = [stage EXCEPT ![r] = "recording"]
          /\ pageOf' = [pageOf EXCEPT ![r] = page[c]]
    BY <1>3 DEF Started
  <2>2. /\ page[c] \in Pages /\ active[page[c]] = None /\ noted[page[c]] = None
        /\ browserStop = "none"
    BY <1>3 DEF IInv, TypeOK, Locked, BrowserHeld, Started
  <2>3. Promise!Running({page[c]}) = {}
    BY <2>2, RunsIfRegistered
  <2>4. UNCHANGED <<noted, browserStop>>
    BY <1>3 DEF Started
  <2>5. Promise!Start(page[c], r)
    BY <2>1, <2>2, <2>3, <2>4 DEF Promise!Start
  <2>6. QED
    BY <2>2, <2>5
<1>4. ASSUME NEW p \in Pages, BeginStart(c, p) \/ BeginChapter(c, p)
      PROVE  UNCHANGED Promise!absVars
  BY <1>4 DEF BeginStart, BeginChapter, registryVars, Promise!absVars
<1>5. StartFails(c) \/ ChapterShown(c) \/ Stopped(c) => UNCHANGED Promise!absVars
  BY DEF StartFails, ChapterShown, Stopped, registryVars, Promise!absVars
<1>6. QED
  BY <1>1, <1>2, <1>3, <1>4, <1>5 DEF CommandStep, Promise!Next

LEMMA PageEventKeepsPromise ==
  ASSUME IInv, NEW p \in Pages, CapReached(p) \/ PageCloses(p)
  PROVE  Promise!Cap(p) \/ Promise!Stop(p)
<1>1. Promise!End({p}) /\ Promise!Running({p}) # {} /\ UNCHANGED browserStop
  BY FinalizeEnds, RunsIfRegistered DEF CapReached, PageCloses
<1>2. CASE CapReached(p)
  <2>1. noted' = [noted EXCEPT ![p] = active[p]] /\ active[p] # None
    BY <1>2 DEF CapReached
  <2>2. {q \in Pages : noted'[q] # None} = {q \in Pages : noted[q] # None} \cup {p}
    BY <2>1 DEF IInv, TypeOK
  <2>3. QED
    BY <1>1, <2>2 DEF Promise!Cap
<1>3. CASE PageCloses(p)
  BY <1>1, <1>3 DEF PageCloses, Promise!Stop
<1>4. QED
  BY <1>2, <1>3

LEMMA EndersKeepPromise ==
  ASSUME IInv, \/ BeginBrowserStop \/ StopBrowser \/ BrowserStopped
               \/ BeginShutdown \/ StopBrowsers \/ Exit
  PROVE  [Promise!Next]_(Promise!absVars)
<1>1. CASE BeginBrowserStop
  <2>1. Promise!End(Pages) /\ UNCHANGED noted
    BY <1>1, FinalizeEnds DEF BeginBrowserStop, FinalizeAll
  <2>2. browserStop = "none" /\ browserStop' # "none"
    BY <1>1 DEF BeginBrowserStop, AfterFinalizeAll
  <2>3. QED
    BY <2>1, <2>2 DEF Promise!HoldBrowser, Promise!Next
<1>2. CASE BeginShutdown
  <2>1. Promise!End(Pages) /\ UNCHANGED <<noted, browserStop>>
    BY <1>2, FinalizeEnds DEF BeginShutdown, FinalizeAll
  <2>2. QED
    BY <2>1 DEF Promise!ShutDown, Promise!Next
<1>3. CASE BrowserStopped
  BY <1>3 DEF BrowserStopped, registryVars, Promise!BrowserGone, Promise!Next
<1>4. CASE StopBrowser \/ StopBrowsers \/ Exit
  BY <1>4 DEF StopBrowser, StopBrowsers, Exit, registryVars, Promise!absVars
<1>5. QED
  BY <1>1, <1>2, <1>3, <1>4

(* Seen as the stages of recordings and the caps to be told, every step of  *)
(* the registry is a step of its promise: a start is atomic, an end single- *)
(* shot, whatever runs beside them without a lock.                          *)
THEOREM RecorderRefinement == Spec => ImplementsPageRecordings
<1>1. Init => Promise!Init
  BY DEF Init, Promise!Init
<1>2. IInv /\ [Next]_vars => [Promise!Next]_(Promise!absVars)
  <2> SUFFICES ASSUME IInv, [Next]_vars
               PROVE  [Promise!Next]_(Promise!absVars)
    OBVIOUS
  <2>1. CASE UNCHANGED vars
    BY <2>1 DEF vars, registryVars, Promise!absVars
  <2>2. ASSUME NEW r \in Recordings, Settle(r) PROVE Promise!Settle(r)
    BY <2>2 DEF Settle, Promise!Settle
  <2>3. ASSUME NEW p \in Pages, CapReached(p) \/ PageCloses(p) PROVE Promise!Next
    BY <2>3, PageEventKeepsPromise DEF Promise!Next
  <2>4. QED
    BY <2>1, <2>2, <2>3, CommandKeepsPromise, EndersKeepPromise DEF Next, Promise!Next
<1>3. QED
  BY <1>1, <1>2, RecorderInvariance, PTL DEF Spec, ImplementsPageRecordings, Promise!Spec
===============================================================================
