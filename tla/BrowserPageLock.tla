--------------------------- MODULE BrowserPageLock ---------------------------
(***************************************************************************)
(* The browser/page lock of the daemon (createBrowserPageLock in           *)
(* daemon/src/lock.ts).  Every operation on a browser runs under it, either *)
(* on the whole browser (launch, connect, scripts, stop) or on one page of  *)
(* it (interactive actions, batches, recordings).                           *)
(*                                                                         *)
(* A request is a caller of withBrowserLock or withPageLock that may ask    *)
(* again and again.  The array `queue` is kept as the set of its elements   *)
(* together with, for each of them, the set of those that precede it: that  *)
(* is all the order of an array without duplicates says.                    *)
(***************************************************************************)

CONSTANTS
  Browsers,      \* browser names, the keys of the map `states`
  Pages,         \* page names; a page is locked by the name it is called
  Requests,      \* the callers of the lock
  WholeBrowser   \* the scope of a request made with withBrowserLock

ASSUME WholeBrowserAssumption == WholeBrowser \notin Pages

Scopes == Pages \cup {WholeBrowser}

VARIABLES
  target,         \* the browser each request is for
  scope,          \* what each request locks: a page or the whole browser
  phase,          \* "idle", "queued" or "running"
  states,         \* the browsers that own a lock record
  activeBrowser,  \* does a request hold the whole browser?
  activePages,    \* the pages that are held, per browser
  queue,          \* the waiting requests, per browser
  before          \* the waiting requests that precede a waiting one

lockVars == <<states, activeBrowser, activePages, queue, before>>
vars == <<target, scope, phase, lockVars>>

TypeOK ==
  /\ target \in [Requests -> Browsers]
  /\ scope \in [Requests -> Scopes]
  /\ phase \in [Requests -> {"idle", "queued", "running"}]
  /\ states \in SUBSET Browsers
  /\ activeBrowser \in [Browsers -> BOOLEAN]
  /\ activePages \in [Browsers -> SUBSET Pages]
  /\ queue \in [Browsers -> SUBSET Requests]
  /\ before \in [Requests -> SUBSET Requests]

Init ==
  /\ target \in [Requests -> Browsers]
  /\ scope \in [Requests -> Scopes]
  /\ phase = [r \in Requests |-> "idle"]
  /\ states = {}
  /\ activeBrowser = [b \in Browsers |-> FALSE]
  /\ activePages = [b \in Browsers |-> {}]
  /\ queue = [b \in Browsers |-> {}]
  /\ before = [r \in Requests |-> {}]

-----------------------------------------------------------------------------
(* Slip: a page that is held is not checked.                                *)
StartableOnHeldPage(b, ab, ap, q, ahead) ==
  {r \in q[b] :
    /\ ~ab[b]
    /\ IF scope[r] = WholeBrowser
       THEN ahead[r] = {} /\ ap[b] = {}
       ELSE \A s \in ahead[r] : scope[s] \notin {WholeBrowser, scope[r]}}

(* Slip: page requests pass the browser requests ahead of them.             *)
StartablePastBrowser(b, ab, ap, q, ahead) ==
  {r \in q[b] :
    /\ ~ab[b]
    /\ IF scope[r] = WholeBrowser
       THEN ahead[r] = {} /\ ap[b] = {}
       ELSE /\ scope[r] \notin ap[b]
            /\ \A s \in ahead[r] : scope[s] # scope[r]}

(* The waiting requests of browser `b` that one call of drain starts.  A    *)
(* browser request starts only from the head of the queue and only when     *)
(* nothing is held; a page request starts unless its page is held, another  *)
(* request for its page is ahead of it, or a browser request is.            *)
Startable(b, ab, ap, q, ahead) ==
  {r \in q[b] :
    /\ ~ab[b]
    /\ IF scope[r] = WholeBrowser
       THEN ahead[r] = {} /\ ap[b] = {}
       ELSE /\ scope[r] \notin ap[b]
            /\ \A s \in ahead[r] : scope[s] \notin {WholeBrowser, scope[r]}}

(* Slip: a browser request is recorded like one for a page.                 *)
DrainHoldsScope(b, ab, ap, q, ahead, ph) ==
  LET started == Startable(b, ab, ap, q, ahead) IN
  /\ activeBrowser' = [ab EXCEPT ![b] = @ \/ \E r \in started : scope[r] = WholeBrowser]
  /\ activePages' = [ap EXCEPT ![b] = @ \cup {scope[r] : r \in started}]
  /\ queue' = [q EXCEPT ![b] = @ \ started]
  /\ before' = [r \in Requests |-> IF r \in started THEN {} ELSE ahead[r] \ started]
  /\ phase' = [r \in Requests |-> IF r \in started THEN "running" ELSE ph[r]]

(* drain(browser, state), called in the middle of an operation that has     *)
(* already made the holds `ab` and `ap`, the queue `q` with its order and   *)
(* the phases `ph`: starts what can start, keeps the rest in order.         *)
Drain(b, ab, ap, q, ahead, ph) ==
  LET started == Startable(b, ab, ap, q, ahead) IN
  /\ activeBrowser' = [ab EXCEPT ![b] = @ \/ \E r \in started : scope[r] = WholeBrowser]
  /\ activePages' = [ap EXCEPT ![b] = @ \cup ({scope[r] : r \in started} \ {WholeBrowser})]
  /\ queue' = [q EXCEPT ![b] = @ \ started]
  /\ before' = [r \in Requests |-> IF r \in started THEN {} ELSE ahead[r] \ started]
  /\ phase' = [r \in Requests |-> IF r \in started THEN "running" ELSE ph[r]]

(* Slip: a request is put at the front of the queue.                        *)
EnqueueInFront(r) ==
  LET b == target[r] IN
  /\ phase[r] = "idle"
  /\ states' = states \cup {b}
  /\ Drain(b, activeBrowser, activePages,
           [queue EXCEPT ![b] = @ \cup {r}],
           [s \in Requests |-> IF s \in queue[b] THEN before[s] \cup {r} ELSE before[s]],
           [phase EXCEPT ![r] = "queued"])
  /\ UNCHANGED <<target, scope>>

(* withBrowserLock / withPageLock: push the request and drain.              *)
Enqueue(r) ==
  LET b == target[r] IN
  /\ phase[r] = "idle"
  /\ states' = states \cup {b}
  /\ Drain(b, activeBrowser, activePages,
           [queue EXCEPT ![b] = @ \cup {r}],
           [before EXCEPT ![r] = queue[b]],
           [phase EXCEPT ![r] = "queued"])
  /\ UNCHANGED <<target, scope>>

(* Slip: the hold is given back, and nobody is woken up.                    *)
FinishWithoutDrain(r) ==
  LET b  == target[r]
      ab == [activeBrowser EXCEPT ![b] = @ /\ scope[r] # WholeBrowser]
      ap == [activePages EXCEPT ![b] = @ \ {scope[r]}]
  IN
  /\ phase[r] = "running"
  /\ activeBrowser' = ab
  /\ activePages' = ap
  /\ states' = IF ~ab[b] /\ ap[b] = {} /\ queue[b] = {} THEN states \ {b} ELSE states
  /\ phase' = [phase EXCEPT ![r] = "idle"]
  /\ UNCHANGED <<target, scope, queue, before>>

(* Slip: the record is dropped while other pages are still held.            *)
FinishForgetsPages(r) ==
  LET b  == target[r]
      ab == [activeBrowser EXCEPT ![b] = @ /\ scope[r] # WholeBrowser]
      ap == [activePages EXCEPT ![b] = @ \ {scope[r]}]
      ph == [phase EXCEPT ![r] = "idle"]
  IN
  /\ phase[r] = "running"
  /\ IF ~ab[b] /\ queue[b] = {}
     THEN /\ states' = states \ {b}
          /\ activeBrowser' = [activeBrowser EXCEPT ![b] = FALSE]
          /\ activePages' = [activePages EXCEPT ![b] = {}]
          /\ phase' = ph
          /\ UNCHANGED <<queue, before>>
     ELSE /\ Drain(b, ab, ap, queue, before, ph)
          /\ UNCHANGED states
  /\ UNCHANGED <<target, scope>>

(* finish: the action of a running request settled, with a value or with an *)
(* error.  The hold is given back, then the record is dropped if nothing    *)
(* uses it any more, and drained otherwise.                                 *)
Finish(r) ==
  LET b  == target[r]
      ab == [activeBrowser EXCEPT ![b] = @ /\ scope[r] # WholeBrowser]
      ap == [activePages EXCEPT ![b] = @ \ {scope[r]}]
      ph == [phase EXCEPT ![r] = "idle"]
  IN
  /\ phase[r] = "running"
  /\ IF ~ab[b] /\ ap[b] = {} /\ queue[b] = {}
     THEN /\ states' = states \ {b}
          /\ activeBrowser' = [activeBrowser EXCEPT ![b] = FALSE]
          /\ activePages' = [activePages EXCEPT ![b] = {}]
          /\ queue' = [queue EXCEPT ![b] = {}]
          /\ phase' = ph
          /\ UNCHANGED before
     ELSE /\ Drain(b, ab, ap, queue, before, ph)
          /\ UNCHANGED states
  /\ UNCHANGED <<target, scope>>

Next == \E r \in Requests : Enqueue(r) \/ Finish(r)

(* Neither the callers nor the actions they run owe anything: an action may *)
(* never settle, since some of what runs under the lock has no timeout (the *)
(* close of a browser, the clean-up of a script).                           *)
Spec == Init /\ [][Next]_vars

-----------------------------------------------------------------------------
Running(b) == {r \in Requests : phase[r] = "running" /\ target[r] = b}

(* Two requests for one browser that may not run together.                  *)
Conflict(r, s) ==
  scope[r] = WholeBrowser \/ scope[s] = WholeBrowser \/ scope[r] = scope[s]

(* Requests that run together never conflict: a launch, connect, script or  *)
(* stop runs alone on its browser, and a page serves one request at a time. *)
MutualExclusion ==
  \A b \in Browsers : \A r, s \in Running(b) : r # s => ~Conflict(r, s)

(* The bookkeeping agrees with who is running, so that a hold is neither    *)
(* forgotten nor kept, and the record of a browser lives exactly as long as *)
(* somebody runs or waits on it.                                            *)
HoldsMatchRunning ==
  \A b \in Browsers :
    /\ activeBrowser[b] <=> \E r \in Running(b) : scope[r] = WholeBrowser
    /\ activePages[b] = {scope[r] : r \in Running(b)} \ {WholeBrowser}
    /\ queue[b] = {r \in Requests : phase[r] = "queued" /\ target[r] = b}
    /\ b \in states <=> (Running(b) # {} \/ queue[b] # {})

(* No lost wake-up: whoever waits has a reason that will go away, a running *)
(* request or one ahead of it in the queue that it conflicts with.          *)
NobodyWaitsInVain ==
  \A r \in Requests :
    phase[r] = "queued" =>
      \E s \in before[r] \cup Running(target[r]) : Conflict(r, s)

(* A request never starts past an earlier waiting one that it conflicts     *)
(* with: page work queued behind a reconnect stays behind it.               *)
StartsInTurn ==
  \A r \in Requests :
    phase[r] # "running" /\ phase'[r] = "running"
      => \A s \in before[r] : ~Conflict(r, s)

NoOvertaking == [][StartsInTurn]_vars

(* The lock implements its promise: a waiting request waits for exactly the *)
(* conflicting requests that came before it and are not over.               *)
Promise == INSTANCE ExclusiveAccess WITH
  asked <- {r \in Requests : phase[r] # "idle"},
  waitsFor <- [r \in Requests |->
                 IF phase[r] = "queued"
                 THEN {s \in before[r] \cup Running(target[r]) : Conflict(r, s)}
                 ELSE {}]

(* Nobody is admitted early, late or out of turn with respect to the        *)
(* requests it conflicts with, and nobody is held up by the others.         *)
ImplementsExclusiveAccess == Promise!Spec

(* Whoever asks for the lock of a browser gets it, however much work keeps  *)
(* coming, if no action run under the lock of that same browser goes on for *)
(* ever.  Nothing is asked of the other browsers: an action that never ends *)
(* holds up the requests for its own browser and no others.                 *)
EveryRequestRuns ==
  \A r \in Requests :
    (\A s \in Requests : []<>(target[s] = target[r] => phase[s] # "running"))
      => (phase[r] = "queued" ~> phase[r] = "running")
=============================================================================
