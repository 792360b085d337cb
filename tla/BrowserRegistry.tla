--------------------------- MODULE BrowserRegistry ---------------------------
(***************************************************************************)
(* The life of one browser name in the daemon's BrowserManager             *)
(* (daemon/src/browser-manager.ts): the requests that launch, connect or   *)
(* stop it, one at a time under the whole-browser lock; the connection      *)
(* attempts that outlive their deadline and go on without the lock; the     *)
(* shutdown of the daemon, which asks for no lock; and the browser process, *)
(* which may go away at any moment.                                         *)
(*                                                                         *)
(* A step runs from one wait on I/O or on a timer to the next: between two  *)
(* waits nothing else runs.  The tasks are numbered in the order they take  *)
(* the lock.  Each has at most one browser in hand, known by its number.    *)
(***************************************************************************)
EXTENDS Naturals

CONSTANTS
  N,             \* how many requests prepare or stop the browser
  Endpoints,     \* debugging endpoints of running browsers
  Modes,         \* launch options (headless, certificate checks)
  DefaultMode,   \* the mode of a launch when nobody ever chose one
  AnyMode        \* a request that leaves the mode open

ASSUME DefaultModeAssumption == DefaultMode \in Modes
ASSUME AnyModeAssumption == AnyMode \notin Modes
ASSUME NAssumption == N \in Nat \ {0}

Tasks == 1..N
Nobody == 0    \* no browser, or no holder of the lock

VARIABLES
  op,       \* what each task asks for
  pc,       \* how far it got
  late,     \* did its deadline fire before it was over?
  holder,   \* the task whose request holds the whole-browser lock
  entry,    \* the browser registered under the name
  handle,   \* the browser each task opened
  attempted, \* the endpoints that the discovery under way has tried
  left,     \* the endpoints a connection to which was left open when the
            \* browser refused a context
  launchAs, \* the mode a task is about to launch with
  old,      \* the browser a task is closing
  unclosed, \* the browsers whose closing failed, and that are there still
  doomed,   \* the browser the shutdown is closing
  shutdown  \* how far the shutdown got

shutdownVars == <<doomed, shutdown>>
browserVars == <<handle, unclosed>>
discoveryVars == <<attempted, left>>
vars == <<op, pc, late, holder, entry, browserVars, discoveryVars, launchAs, old, shutdownVars>>

Ops == [kind : {"ensure"}, wants : Modes \cup {AnyMode}]
         \cup [kind : {"connect"}, wants : Endpoints]
         \cup [kind : {"auto", "stop"}, wants : {AnyMode}]

NoOp == [kind |-> "none", wants |-> AnyMode]
Handles == [type : {"none", "launched"}, at : Modes, open : BOOLEAN]
             \cup [type : {"connected"}, at : Endpoints, open : BOOLEAN]
Unopened == [type |-> "none", at |-> DefaultMode, open |-> FALSE]

TypeOK ==
  /\ op \in [Tasks -> Ops \cup {NoOp}]
  /\ pc \in [Tasks -> {"idle", "preparing", "closing", "opening", "context",
                       "done", "failed"}]
  /\ late \in [Tasks -> BOOLEAN]
  /\ holder \in Tasks \cup {Nobody}
  /\ entry \in Tasks \cup {Nobody}
  /\ handle \in [Tasks -> Handles]
  /\ attempted \in SUBSET Endpoints
  /\ left \in SUBSET Endpoints
  /\ launchAs \in [Tasks -> Modes]
  /\ unclosed \in SUBSET Tasks
  /\ old \in [Tasks -> Tasks \cup {Nobody}]
  /\ doomed \in Tasks \cup {Nobody}
  /\ shutdown \in {"no", "stopping", "stopped"}

Init ==
  /\ op = [t \in Tasks |-> NoOp]
  /\ pc = [t \in Tasks |-> "idle"]
  /\ late = [t \in Tasks |-> FALSE]
  /\ holder = Nobody
  /\ entry = Nobody
  /\ handle = [t \in Tasks |-> Unopened]
  /\ attempted = {}
  /\ left = {}
  /\ launchAs = [t \in Tasks |-> DefaultMode]
  /\ unclosed = {}
  /\ old = [t \in Tasks |-> Nobody]
  /\ doomed = Nobody
  /\ shutdown = "no"

-----------------------------------------------------------------------------
(* The request of task `t` settles: it gives the lock back, unless its      *)
(* deadline has taken it out of the request's hands.                        *)
Settle(t, outcome) ==
  /\ pc' = [pc EXCEPT ![t] = outcome]
  /\ holder' = IF late[t] THEN holder ELSE Nobody

(* A request comes in, takes the lock and starts preparing: the base     *)
(* directory is made or, for an endpoint, its websocket address resolved.   *)
Begin(t) ==
  /\ pc[t] = "idle"
  /\ \A u \in 1..t-1 : pc[u] # "idle"
  /\ holder = Nobody
  /\ holder' = t
  /\ \E o \in Ops : op' = [op EXCEPT ![t] = o]
  /\ pc' = [pc EXCEPT ![t] = "preparing"]
  /\ attempted' = {}
  /\ UNCHANGED <<late, entry, browserVars, left, launchAs, old, shutdownVars>>

(* Preparing fails: the directory cannot be made, the endpoint not resolved. *)
PrepareFails(t) ==
  /\ pc[t] = "preparing"
  /\ op[t].kind # "stop"
  /\ Settle(t, "failed")
  /\ UNCHANGED <<op, late, entry, browserVars, discoveryVars, launchAs, old, shutdownVars>>

(* Slip: any connection is as good as the one asked for.                    *)
SatisfiesWithAnyEndpoint(t, h) ==
  /\ handle[h].open
  /\ \/ /\ op[t].kind = "ensure"
        /\ handle[h].type = "launched"
        /\ op[t].wants \in {AnyMode, handle[h].at}
     \/ /\ op[t].kind \in {"auto", "connect"}
        /\ handle[h].type = "connected"

(* Is the registered browser `h` what task `t` asks for?                    *)
Satisfies(t, h) ==
  /\ handle[h].open
  /\ \/ /\ op[t].kind = "ensure"
        /\ handle[h].type = "launched"
        /\ op[t].wants \in {AnyMode, handle[h].at}
     \/ /\ op[t].kind = "auto"
        /\ handle[h].type = "connected"
     \/ /\ op[t].kind = "connect"
        /\ handle[h].type = "connected"
        /\ op[t].wants = handle[h].at

(* Slip: the result of an abandoned attempt is kept like any other.         *)
DeliverEvenIfLate(t, h, registered, browsers) ==
  /\ entry' = registered
  /\ handle' = browsers
  /\ UNCHANGED unclosed
  /\ Settle(t, "done")

(* Closing browser `h` out of `browsers`: it goes, or its closing fails and *)
(* the error is swallowed.                                                  *)
Close(h, browsers) ==
  \/ /\ handle' = [browsers EXCEPT ![h].open = FALSE]
     /\ UNCHANGED unclosed
  \/ /\ browsers[h].open
     /\ handle' = browsers
     /\ unclosed' = unclosed \cup {h}

(* Task `t` has a browser to return, with the map at `registered` and the   *)
(* browsers at `browsers`.  In time, the request gets it.  Too late,        *)
(* discardStaleConnectEntry unregisters and closes it.                      *)
Deliver(t, h, registered, browsers) ==
  /\ entry' = IF late[t] /\ registered = h THEN Nobody ELSE registered
  /\ IF late[t] THEN Close(h, browsers)
     ELSE handle' = browsers /\ UNCHANGED unclosed
  /\ Settle(t, "done")

(* The task looks the name up and finds the browser it wants.               *)
Reuse(t) ==
  /\ pc[t] = "preparing"
  /\ entry # Nobody
  /\ Satisfies(t, entry)
  /\ Deliver(t, entry, entry, handle)
  /\ UNCHANGED <<op, late, discoveryVars, launchAs, old, shutdownVars>>

(* The mode of a launch: the one asked for, else that of the browser it     *)
(* replaces, else the default.  A connection counts as the default mode.    *)
LaunchMode(t) ==
  IF op[t].kind # "ensure" THEN DefaultMode
  ELSE IF op[t].wants # AnyMode THEN op[t].wants
  ELSE IF entry # Nobody /\ handle[entry].type = "launched" THEN handle[entry].at
  ELSE DefaultMode

(* Slip: the other browser is replaced in the map but never closed.         *)
ReplaceWithoutClosing(t) ==
  /\ pc[t] = "preparing"
  /\ entry # Nobody
  /\ ~Satisfies(t, entry)
  /\ launchAs' = [launchAs EXCEPT ![t] = LaunchMode(t)]
  /\ entry' = Nobody
  /\ IF op[t].kind = "stop"
     THEN Settle(t, "done")
     ELSE pc' = [pc EXCEPT ![t] = "opening"] /\ UNCHANGED holder
  /\ UNCHANGED <<op, late, browserVars, discoveryVars, old, shutdownVars>>

(* It finds another browser: stopBrowser unregisters it and closes it.      *)
Replace(t) ==
  /\ pc[t] = "preparing"
  /\ entry # Nobody
  /\ ~Satisfies(t, entry)
  /\ launchAs' = [launchAs EXCEPT ![t] = LaunchMode(t)]
  /\ old' = [old EXCEPT ![t] = entry]
  /\ entry' = Nobody
  /\ pc' = [pc EXCEPT ![t] = "closing"]
  /\ UNCHANGED <<op, late, holder, browserVars, discoveryVars, shutdownVars>>

(* It finds nothing: a stop is over, the others open a browser.             *)
StartFresh(t) ==
  /\ pc[t] = "preparing"
  /\ entry = Nobody
  /\ launchAs' = [launchAs EXCEPT ![t] = LaunchMode(t)]
  /\ IF op[t].kind = "stop"
     THEN Settle(t, "done")
     ELSE /\ pc' = [pc EXCEPT ![t] = "opening"]
          /\ UNCHANGED holder
  /\ UNCHANGED <<op, late, entry, browserVars, discoveryVars, old, shutdownVars>>

(* The close has settled, well or badly: in either case the stop goes on.   *)
Closed(t) ==
  /\ pc[t] = "closing"
  /\ Close(old[t], handle)
  /\ old' = [old EXCEPT ![t] = Nobody]
  /\ IF op[t].kind = "stop"
     THEN Settle(t, "done")
     ELSE /\ pc' = [pc EXCEPT ![t] = "opening"]
          /\ UNCHANGED holder
  /\ UNCHANGED <<op, late, entry, discoveryVars, launchAs, shutdownVars>>

(* The endpoint asked for, or those that the discovery may come up with: a  *)
(* port file, or a probed port, of any browser that runs and that the task  *)
(* has not tried yet.                                                       *)
Found(t) ==
  IF op[t].kind = "connect" THEN {op[t].wants}
  ELSE Endpoints \ attempted

(* The browser task `t` opens: launched, or attached to over CDP.           *)
Opened(t) ==
  IF op[t].kind = "ensure"
  THEN {[type |-> "launched", at |-> launchAs[t], open |-> TRUE]}
  ELSE {[type |-> "connected", at |-> e, open |-> TRUE] : e \in Found(t)}

(* The browser is there, with a context: it is registered, whatever the map *)
(* holds by now, and returned.                                              *)
Open(t) ==
  /\ pc[t] = "opening"
  /\ \E h \in Opened(t) : Deliver(t, t, t, [handle EXCEPT ![t] = h])
  /\ UNCHANGED <<op, late, discoveryVars, launchAs, old, shutdownVars>>

(* An attached browser without a context is asked for one first.            *)
AwaitContext(t) ==
  /\ pc[t] = "opening"
  /\ op[t].kind # "ensure"
  /\ \E h \in Opened(t) : handle' = [handle EXCEPT ![t] = h]
  /\ pc' = [pc EXCEPT ![t] = "context"]
  /\ UNCHANGED <<op, late, holder, entry, unclosed, discoveryVars, launchAs, old, shutdownVars>>

ContextReady(t) ==
  /\ pc[t] = "context"
  /\ handle[t].open
  /\ Deliver(t, t, t, handle)
  /\ UNCHANGED <<op, late, discoveryVars, launchAs, old, shutdownVars>>

(* The launch fails, or the discovery comes to its end.                     *)
NothingOpened(t) ==
  /\ pc[t] = "opening"
  /\ op[t].kind \in {"ensure", "auto"}
  /\ Settle(t, "failed")
  /\ UNCHANGED <<op, late, entry, browserVars, discoveryVars, launchAs, old, shutdownVars>>

(* An attempt at endpoint `e` is over without a browser to return: the      *)
(* discovery looks for another one, a connection fails.                     *)
GiveUp(t, e) ==
  IF op[t].kind = "auto"
  THEN /\ attempted' = attempted \cup {e}
       /\ pc' = [pc EXCEPT ![t] = "opening"]
       /\ UNCHANGED holder
  ELSE Settle(t, "failed") /\ UNCHANGED attempted

AttachFails(t) ==
  /\ pc[t] = "opening"
  /\ op[t].kind # "ensure"
  /\ \E e \in Found(t) : GiveUp(t, e)
  /\ UNCHANGED <<op, late, entry, browserVars, left, launchAs, old, shutdownVars>>

(* The context is refused, as it is by a browser that has gone away.  One   *)
(* that refused and stayed is forgotten, and nobody closes it.              *)
ContextRefused(t) ==
  /\ pc[t] = "context"
  /\ GiveUp(t, handle[t].at)
  /\ left' = IF handle[t].open THEN left \cup {handle[t].at} ELSE left
  /\ handle' = [handle EXCEPT ![t] = Unopened]
  /\ UNCHANGED <<op, late, entry, unclosed, launchAs, old, shutdownVars>>

Stage(t) ==
  \/ PrepareFails(t) \/ Reuse(t) \/ Replace(t) \/ StartFresh(t) \/ Closed(t)
  \/ Open(t) \/ AwaitContext(t) \/ ContextReady(t)
  \/ NothingOpened(t) \/ AttachFails(t) \/ ContextRefused(t)

(* The deadline of a connection to an endpoint fires: the request fails,    *)
(* the attempt is left to itself.                                           *)
Expire(t) ==
  /\ op[t].kind = "connect"
  /\ holder = t
  /\ ~late[t]
  /\ late' = [late EXCEPT ![t] = TRUE]
  /\ UNCHANGED <<op, pc, holder, entry, browserVars, discoveryVars, launchAs, old, shutdownVars>>

(* Slip: the error waits for the attempt it reports.                        *)
ReportTimeoutAfterAttempt(t) ==
  /\ late[t]
  /\ holder = t
  /\ pc[t] \in {"done", "failed"}
  /\ holder' = Nobody
  /\ UNCHANGED <<op, pc, late, entry, browserVars, discoveryVars, launchAs, old, shutdownVars>>

(* buildConnectTimeoutError has its diagnosis; the request fails and gives  *)
(* the lock back.                                                           *)
ReportTimeout(t) ==
  /\ late[t]
  /\ holder = t
  /\ holder' = Nobody
  /\ UNCHANGED <<op, pc, late, entry, browserVars, discoveryVars, launchAs, old, shutdownVars>>

(* Slip: a launched browser that went away stays on record.                 *)
DisconnectKeepsRecord(t) ==
  /\ handle[t].open
  /\ handle' = [handle EXCEPT ![t].open = FALSE]
  /\ unclosed' = unclosed \ {t}
  /\ UNCHANGED <<op, pc, late, holder, entry, discoveryVars, launchAs, old, shutdownVars>>

(* The browser of task `t` goes away by itself.  A launched one is          *)
(* unregistered; a lost connection stays on record.                         *)
Disconnect(t) ==
  /\ handle[t].open
  /\ handle' = [handle EXCEPT ![t].open = FALSE]
  /\ unclosed' = unclosed \ {t}
  /\ entry' = IF entry = t /\ handle[t].type = "launched" THEN Nobody ELSE entry
  /\ UNCHANGED <<op, pc, late, holder, discoveryVars, launchAs, old, shutdownVars>>

(* The shutdown stops whatever is registered by now, without the lock.      *)
StopAll ==
  /\ shutdown = "no"
  /\ shutdown' = "stopping"
  /\ doomed' = entry
  /\ entry' = Nobody
  /\ UNCHANGED <<op, pc, late, holder, browserVars, discoveryVars, launchAs, old>>

(* The close has settled, and the process is about to exit.  What requests  *)
(* do until then is not cut short: an exit would only end the behaviour     *)
(* early.                                                                   *)
StoppedAll ==
  /\ shutdown = "stopping"
  /\ shutdown' = "stopped"
  /\ doomed' = Nobody
  /\ IF doomed = Nobody THEN UNCHANGED browserVars ELSE Close(doomed, handle)
  /\ UNCHANGED <<op, pc, late, holder, entry, discoveryVars, launchAs, old>>

Next ==
  \/ \E t \in Tasks :
       Begin(t) \/ Stage(t) \/ Expire(t) \/ ReportTimeout(t) \/ Disconnect(t)
  \/ StopAll
  \/ StoppedAll

(* Any stage may stall for ever.  Only the timer of a connection to an      *)
(* endpoint is sure, and the diagnosis made after it, which is capped.      *)
Fairness == \A t \in Tasks : WF_vars(Expire(t)) /\ WF_vars(ReportTimeout(t))

Spec == Init /\ [][Next]_vars
FairSpec == Spec /\ Fairness
-----------------------------------------------------------------------------
IsWhatWasAsked(o, browser) ==
  /\ browser.open
  /\ browser.type = IF o.kind = "ensure" THEN "launched" ELSE "connected"
  /\ o.wants # AnyMode => browser.at = o.wants

(* A request that succeeds leaves registered, and open, the browser it asked *)
(* for: the right endpoint, the right mode; a stop leaves none.  However     *)
(* many abandoned attempts are still under way.                              *)
PrepareDelivers ==
  [][\A t \in Tasks :
       pc[t] # "done" /\ pc'[t] = "done" /\ ~late[t] =>
         IF op[t].kind = "stop"
         THEN entry' = Nobody
         ELSE entry' # Nobody /\ IsWhatWasAsked(op[t], handle'[entry'])]_vars

(* The registry never offers a launched browser that is gone: its process,   *)
(* its closing and its registration end in an order that hides it first.     *)
LaunchedEntryIsOpen ==
  entry # Nobody /\ handle[entry].type = "launched" => handle[entry].open

(* An attempt that outlived its deadline never gets registered, and once it  *)
(* is over its own browser is closed, unless the closing itself failed.      *)
LateAttachLeavesNothing ==
  \A t \in Tasks :
    late[t] => entry # t /\ (pc[t] = "done" => ~handle[t].open \/ t \in unclosed)

(* As long as no deadline fires, a browser that somebody opened and that is  *)
(* there still is registered, or in the hands of a task under way, of a stop *)
(* or of the shutdown, or its closing was tried and failed.  The code loses  *)
(* one more kind: a connection that refused a context is let go of, open     *)
(* (`left` says to what).                                                   *)
NoOrphans ==
  (\A t \in Tasks : ~late[t]) =>
    \A h \in Tasks :
      handle[h].open =>
        \/ entry = h
        \/ pc[h] = "context"
        \/ \E t \in Tasks : old[t] = h
        \/ doomed = h
        \/ h \in unclosed

(* A connection to an endpoint that stalls, at whatever stage, the closing   *)
(* of the browser it replaces among them, does not hold the browser for ever.*)
DeadlineFreesLock ==
  \A t \in Tasks : holder = t /\ op[t].kind = "connect" ~> holder # t

(* discardStaleConnectEntry says an abandoned attach cannot clobber a newer  *)
(* entry: no step of it unregisters or closes a browser that was opened by a *)
(* request that came after.                                                  *)
AbandonedAttachIsHarmless ==
  [][\A t, h \in Tasks :
       late[t] /\ pc'[t] # pc[t] /\ h > t =>
         /\ entry = h => entry' = h
         /\ handle[h].open => handle'[h].open]_vars
=============================================================================
