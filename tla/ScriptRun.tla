------------------------------ MODULE ScriptRun ------------------------------
(***************************************************************************)
(* One run of a script in its QuickJS sandbox (daemon/src/sandbox), from    *)
(* executeScript to the end of dispose.  Three parties take turns: the      *)
(* script and what is left of it (the guest), the host's loop that drives   *)
(* it, and the Playwright commands the guest has sent.  Answers and events  *)
(* of a command wait in #transportInbox until the loop hands them over, and *)
(* an event may be a question (a dialog, a route) that the command waits    *)
(* for.  What the guest computes, the contents of messages and the pool of  *)
(* warm sandboxes are left out.                                             *)
(***************************************************************************)

CONSTANTS
  Commands,    \* Playwright commands the script may send
  Pages        \* anonymous pages it may ask for

VARIABLES
  script,      \* the promise of the wrapped script
  settled,     \* does the host know that the promise is settled?
  armed,       \* the timer that ends the script when its time is up
  loop,        \* where executeScript and dispose are
  command,     \* how far a command is
  raced,       \* the commands Promise.race was called on
  error,       \* #asyncError is set
  page,        \* an anonymous page and what became of it
  anonymous,   \* #anonymousPages
  toClose      \* what #cleanupAnonymousPages has still to close

guestVars == <<script, settled, armed>>
pageVars == <<page, anonymous, toClose>>
vars == <<guestVars, loop, command, raced, error, pageVars>>

\* A quick command ends by itself, an endless one when the page does.
\* One that asks goes on only after the guest has read its question and
\* answered it.
Kinds == {"quick", "asks", "endless"}
Pending == Kinds \cup {"posed", "read"}    \* #pendingHostOperations

TypeOK ==
  /\ script \in {"running", "done", "failed"}
  /\ settled \in BOOLEAN /\ (settled => script # "running")
  /\ armed \in BOOLEAN /\ (armed => script = "running")
  /\ loop \in {"turn", "racing", "drained", "closing", "disposing", "gone"}
  /\ command \in [Commands -> Pending \cup {"unsent", "over", "known"}]
  /\ raced \subseteq Commands /\ (raced # {} <=> loop = "racing")
  /\ error \in BOOLEAN
  /\ page \in [Pages -> {"none", "opening", "open", "late", "left", "closed"}]
  /\ anonymous \subseteq {p \in Pages : page[p] \in {"open", "late"}}
  /\ toClose \subseteq Pages /\ (toClose # {} => loop \in {"closing", "disposing"})

Init ==
  /\ script = "running" /\ settled = FALSE /\ armed = TRUE
  /\ loop = "turn"
  /\ command = [c \in Commands |-> "unsent"]
  /\ raced = {}
  /\ error = FALSE
  /\ page = [p \in Pages |-> "none"]
  /\ anonymous = {} /\ toClose = {}

-----------------------------------------------------------------------------
(* The guest runs when the loop drains its jobs, and also whenever one of   *)
(* its timers fires or a host call returns, until its interpreter is gone.  *)

\* The promise settles, and the timer is cleared.  The host hears of it one
\* microtask later, which is after the check that follows the drain at the
\* start of a turn.
Settle(how) ==
  /\ script = "running" /\ loop # "gone"
  /\ script' = how
  /\ settled' = (loop # "turn")
  /\ armed' = FALSE
  /\ UNCHANGED <<loop, command, raced, error, pageVars>>

ScriptEnds == \E how \in {"done", "failed"} : Settle(how)

\* The timer of wrapScriptWithWallClockTimeout.
TimesUp == armed /\ Settle("failed")

\* That timer is one of the guest's own, known by a number, and the script
\* may clear it like any other.
ClearTimer ==
  /\ armed /\ loop # "gone"
  /\ armed' = FALSE
  /\ UNCHANGED <<script, settled, loop, command, raced, error, pageVars>>

\* transportSend: the host starts the command at once.
Send(c) ==
  /\ command[c] = "unsent" /\ loop # "gone"
  /\ \E kind \in Kinds : command' = [command EXCEPT ![c] = kind]
  /\ UNCHANGED <<guestVars, loop, raced, error, pageVars>>

\* The guest's listener answers the question (dialog.accept, route.continue).
Answer(c) ==
  /\ command[c] = "read" /\ loop # "gone"
  /\ command' = [command EXCEPT ![c] = "quick"]
  /\ UNCHANGED <<guestVars, loop, raced, error, pageVars>>

AskForPage(p) ==
  /\ page[p] = "none" /\ loop # "gone"
  /\ page' = [page EXCEPT ![p] = "opening"]
  /\ UNCHANGED <<guestVars, loop, command, raced, error, anonymous, toClose>>

-----------------------------------------------------------------------------
(* The host operations, and what the browser does.                          *)

\* The end of #newPage, which nothing waits for but the guest.  A page is
\* late when it opens after dispose has listed the pages to close.
PageOpens(p) ==
  /\ page[p] = "opening"
  /\ page' = [page EXCEPT ![p] = IF loop \in {"disposing", "gone"} THEN "late" ELSE "open"]
  /\ anonymous' = anonymous \cup {p}
  /\ UNCHANGED <<guestVars, loop, command, raced, error, toClose>>

(* Slip: newPage does not listen for the closing of its page.              *)
PageGoesSlip(p) ==
  /\ page[p] \notin {"none", "closed"}
  /\ page' = [page EXCEPT ![p] = "closed"]
  /\ UNCHANGED <<guestVars, loop, command, raced, error, anonymous, toClose>>

\* A page is refused, or closes before the sandbox closes it.
PageGoes(p) ==
  /\ page[p] \notin {"none", "closed"}
  /\ page' = [page EXCEPT ![p] = "closed"]
  /\ anonymous' = anonymous \ {p}
  /\ UNCHANGED <<guestVars, loop, command, raced, error, toClose>>

\* The event that asks is put into the inbox.
Pose(c) ==
  /\ command[c] = "asks"
  /\ command' = [command EXCEPT ![c] = "posed"]
  /\ UNCHANGED <<guestVars, loop, raced, error, pageVars>>

\* The answer of a command is put into the inbox: it has run, or its page
\* went away.  The operation itself may be rejected instead.
CommandEnds(c) ==
  /\ command[c] \in Pending
  /\ command' = [command EXCEPT ![c] = "over"]
  /\ error' \in {error, TRUE}
  /\ UNCHANGED <<guestVars, loop, raced, pageVars>>

QuickEnds(c) == command[c] = "quick" /\ CommandEnds(c)

-----------------------------------------------------------------------------
(* The loop of #awaitQuickJSPromise, and #drainAsyncOps inside it.          *)

\* #flushTransportQueue hands everything in the inbox over to the guest.
Delivered ==
  [c \in Commands |-> CASE command[c] = "posed" -> "read"
                        [] command[c] = "over"  -> "known"
                        [] OTHER                -> command[c]]

\* #cleanupAnonymousPages empties the set and closes what was in it.
ListPagesToClose ==
  /\ toClose' = anonymous
  /\ anonymous' = {}

Leave ==
  /\ loop' = "closing"
  /\ raced' = {}
  /\ ListPagesToClose
  /\ command' = IF error THEN command ELSE Delivered
  /\ UNCHANGED <<guestVars, error, page>>

\* A turn: what is in the inbox is delivered, then whatever is pending is
\* raced.
Turn ==
  /\ loop = "turn" /\ ~settled /\ ~error
  /\ command' = Delivered
  /\ raced' = {c \in Commands : command'[c] \in Pending}
  /\ loop' = IF raced' = {} THEN "drained" ELSE "racing"
  /\ settled' = (script # "running")
  /\ UNCHANGED <<script, armed, error, pageVars>>

(* Slip: the loop waits for all pending operations instead of one.         *)
RaceOverSlip ==
  /\ loop = "racing" /\ ~error
  /\ \A c \in raced : command[c] \notin Pending
  /\ command' = Delivered
  /\ raced' = {}
  /\ loop' = "drained"
  /\ UNCHANGED <<guestVars, error, pageVars>>

\* One of the raced commands is over, and the inbox is flushed again.
RaceOver ==
  /\ loop = "racing" /\ ~error
  /\ \E c \in raced : command[c] \notin Pending
  /\ command' = Delivered
  /\ raced' = {}
  /\ loop' = "drained"
  /\ UNCHANGED <<guestVars, error, pageVars>>

NextTurn ==
  /\ loop = "drained" /\ ~settled
  /\ loop' = "turn"
  /\ UNCHANGED <<guestVars, command, raced, error, pageVars>>

\* The promise is settled, or an operation was rejected.
LeaveLoop ==
  /\ \/ loop = "turn" /\ (settled \/ error)
     \/ loop = "racing" /\ error /\ \E c \in raced : command[c] \notin Pending
     \/ loop = "drained" /\ settled
  /\ Leave

\* A job of the guest fails or overruns its CPU time: the loop throws while
\* the script goes on.
DrainThrows ==
  /\ loop \in {"turn", "drained"}
  /\ loop' = "closing"
  /\ ListPagesToClose
  /\ UNCHANGED <<guestVars, command, raced, error, page>>

-----------------------------------------------------------------------------
(* The pages are closed one after the other, first by executeScript, which  *)
(* gives up at the first failure, then by dispose, which does not.          *)

Close(p) ==
  /\ p \in toClose
  /\ page' = [page EXCEPT ![p] = "closed"]
  /\ toClose' = toClose \ {p}
  /\ UNCHANGED <<guestVars, loop, command, raced, error, anonymous>>

\* A page is left open when closing it fails, or was given up before its turn.
CloseFails(p) ==
  /\ p \in toClose /\ page[p] # "closed"
  /\ LET given == IF loop = "closing" THEN toClose ELSE {p}
     IN  /\ page' = [q \in Pages |-> IF q \in given /\ page[q] # "closed" THEN "left" ELSE page[q]]
         /\ toClose' = toClose \ given
  /\ UNCHANGED <<guestVars, loop, command, raced, error, anonymous>>

(* Slip: dispose leaves the pages to executeScript.                        *)
DisposeSlip ==
  /\ loop = "closing" /\ toClose = {}
  /\ loop' = "disposing"
  /\ command' = IF error THEN command ELSE Delivered
  /\ UNCHANGED <<guestVars, raced, error, pageVars>>

\* The end of executeScript; runScript disposes of the sandbox.
Dispose ==
  /\ loop = "closing" /\ toClose = {}
  /\ loop' = "disposing"
  /\ command' = IF error THEN command ELSE Delivered
  /\ ListPagesToClose
  /\ UNCHANGED <<guestVars, raced, error, page>>

\* The interpreter and the inbox are thrown away.
Disposed ==
  /\ loop = "disposing" /\ toClose = {}
  /\ loop' = "gone"
  /\ UNCHANGED <<guestVars, command, raced, error, pageVars>>

-----------------------------------------------------------------------------
GuestStep ==
  \/ ScriptEnds \/ ClearTimer
  \/ \E c \in Commands : Send(c) \/ Answer(c)
  \/ \E p \in Pages : AskForPage(p)

HostStep ==
  \/ Turn \/ RaceOver \/ NextTurn \/ LeaveLoop
  \/ Dispose \/ Disposed

Next ==
  \/ GuestStep \/ HostStep
  \/ TimesUp \/ DrainThrows
  \/ \E c \in Commands : Pose(c) \/ CommandEnds(c)
  \/ \E p \in Pages : PageOpens(p) \/ PageGoes(p) \/ Close(p) \/ CloseFails(p)

Spec == Init /\ [][Next]_vars

(* The host's loop goes on, quick commands end, and a timer that is armed   *)
(* fires.  Nothing is expected of the script, nor of the closing of a page, *)
(* which has no timeout.                                                    *)
FairSpec ==
  /\ Spec
  /\ WF_vars(HostStep)
  /\ WF_vars(TimesUp)
  /\ \A c \in Commands : WF_vars(QuickEnds(c))

-----------------------------------------------------------------------------
(* When the sandbox of a script is gone, so are the anonymous pages the     *)
(* script opened, whatever ended it: none is left but those that opened     *)
(* after dispose had listed them and those whose closing failed or was      *)
(* given up (#cleanupAnonymousPages, quickjs-sandbox.ts).                   *)
NoPageLeftBehind ==
  loop = "gone" => \A p \in Pages : page[p] # "open"

(* The run of a script ends and its sandbox is disposed of, whatever is in  *)
(* its inbox, with four exceptions.  The loop may be for ever racing        *)
(* commands of which none ends by itself: endless ones, and such as wait    *)
(* for the guest's answer to a question it may not have been handed.  The   *)
(* script may have cleared the timer that would have ended it, and go on.   *)
(* Or a page that is to be closed does not close, for executeScript or for  *)
(* dispose.  (#awaitQuickJSPromise, #drainAsyncOps, #cleanupAnonymousPages) *)
EndsUnlessStuck ==
  \/ <>(loop = "gone")
  \/ <>[](loop = "racing" /\ \A c \in raced : command[c] \in Pending \ {"quick"})
  \/ <>[](loop \in {"turn", "racing", "drained"} /\ script = "running" /\ ~armed)
  \/ <>[](toClose # {})

=============================================================================
